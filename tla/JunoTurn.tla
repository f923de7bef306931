------------------------------- MODULE JunoTurn -------------------------------
(***************************************************************************)
(* A value-moving request as Juno's Mercury specialist makes it: the tool  *)
(* mercury_invoke (juno/subagent.py), the in-process runner                *)
(* (juno/runners.py, juno/assistant_turn.py), the invoke boundary          *)
(* (invoke.py, service/models.py) and the error taxonomy                   *)
(* (models/errors.py), around the transaction pipeline.                    *)
(*                                                                         *)
(* The user of the session answers approval prompts at any time; a tool    *)
(* call carries the answer that is in the session state when it starts.    *)
(* Tool calls of one session may overlap (arun_turn runs each in a worker  *)
(* thread), and the model decides which intent a call sends.               *)
(***************************************************************************)
EXTENDS TransactionPipeline

CONSTANTS
    RawApprovals,   \* what the session state may hold as approval_response
    Sessions,       \* session fields user_id, wallet_id
    Intents,        \* the intents the model may send
    primary         \* the wallet id used when the session names none

\* An approval_response of the session: absent, an object (or its JSON
\* text), "approved:<key>" / "denied:<key>", or any other text.
RawApproval ==
    [form : {"none", "object", "prefix", "text"}, status : {"approved", "denied", "other"},
     idempotency_key : Keys \cup {None}]

InvalidWallet == "not a wallet id"
Blank == ""

Session == [user_id : {"set", "none"}, wallet_id : Wallets \cup {None, InvalidWallet}]

\* An intent of the model: a metadata object of its own is None or the
\* approval_response in it (NoResponse when it holds none).
Intent ==
    [kind : BOOLEAN, wallet_id : Wallets \cup {None}, idempotency_key : Keys \cup {None, Blank},
     metadata : ApprovalResponse \cup {NoResponse, None}, tx : PolicyTransaction]

ASSUME JunoAssumption ==
    /\ RawApprovals \subseteq RawApproval
    /\ Sessions \subseteq Session
    /\ Intents \subseteq Intent
    /\ primary \in Wallets

VARIABLES
    session,            \* the session fields
    approval_response,  \* the session's current answer to approval prompts
    tapped,             \* history: the keys the user ever approved
    phase,              \* phase[r]: "idle", "graph" or "done"
    state_error,        \* state_error[r]: code of state["error"]
    result_error,       \* result_error[r]: code of execution_result.error
    record_error,       \* record_error[k]: the same of the stored result
    turn_result         \* turn_result[r]: what the tool call answered

errors == <<state_error, result_error, record_error>>
user == <<session, approval_response, tapped>>
juno_vars == <<user, phase, errors, turn_result>>
all_vars == <<vars, juno_vars>>

-----------------------------------------------------------------------------
(* mercury/models/errors.py: the codes and how exceptions map to them.     *)

Retryable ==
    {"rpc_unavailable", "approval_required", "simulation_failed", "signing_failed",
     "broadcast_failed", "internal_error"}

Final ==
    {"unsupported_intent", "validation_failed", "missing_chain_config", "policy_rejected",
     "idempotency_conflict", "approval_denied"}

Codes == Retryable \cup Final

\* The exception's own class wins over the code the node suggests, the
\* suggested code over the kind of failure.
normalize_exception(exc, code) ==
    CASE exc = "ValidationError"        -> "validation_failed"
      [] exc = "UnsupportedIntentError" -> "unsupported_intent"
      [] exc = "UnsupportedChainError"  -> "missing_chain_config"
      [] OTHER ->
           IF code # None THEN code
           ELSE CASE exc \in {"ConnectionError", "ValueError: nonce"} -> "rpc_unavailable"
                  [] exc = "ValueError: chain"                        -> "missing_chain_config"
                  [] OTHER                                            -> "internal_error"

\* What the calls behind a node may raise: the nodes validate nothing that
\* was not validated before, except the preparation.
Raises(node) ==
    IF node = "prepare_transaction" THEN {"ValidationError", "UnsupportedChainError",
                                          "ConnectionError", "other"}
    ELSE {"ConnectionError", "other"}

-----------------------------------------------------------------------------
(* From the session and the intent to the request of the graph.            *)

\* Mutant: the key after "approved:" is dropped.
_normalize_approval_response_no_key(raw) ==
    CASE raw.form = "none"                 -> NoResponse
      [] raw.form \in {"object", "prefix"} -> [status |-> raw.status, idempotency_key |-> None]
      [] raw.form = "text"                 -> [status |-> "approved", idempotency_key |-> None]

\* Text that is neither an object nor prefixed counts as an approval of
\* whatever is asked.
_normalize_approval_response(raw) ==
    CASE raw.form = "none" -> NoResponse
      [] raw.form \in {"object", "prefix"} ->
           [status |-> raw.status, idempotency_key |-> raw.idempotency_key]
      [] raw.form = "text" -> [status |-> "approved", idempotency_key |-> None]

\* MercuryInvokeRequest: user_id is required, wallet_id has to be usable in
\* a secret path.  _build_mercury_invoke_payload fills in the wallet.
session_wallet == IF session.wallet_id = None THEN primary ELSE session.wallet_id
RequestValid == session.user_id = "set" /\ session_wallet # InvalidWallet

\* _intent_with_boundary_fields: whatever the intent has of its own stays.
_intent_with_boundary_fields(i, w, response) ==
    [wallet_id         |-> IF i.wallet_id # None THEN i.wallet_id ELSE w,
     idempotency_key   |-> i.idempotency_key,
     nonce             |-> None,
     gas               |-> None,
     approval_response |-> IF i.metadata # None THEN i.metadata ELSE response,
     tx                |-> i.tx]

ASSUME BoundaryAssumption ==
    /\ None \notin Codes
    /\ \A i \in Intents, w \in Wallets, response \in ApprovalResponse \cup {NoResponse} :
          i.kind /\ i.idempotency_key # Blank =>
              _intent_with_boundary_fields(i, w, response) \in Requests

-----------------------------------------------------------------------------
(* From the final state of the graph to the text of the tool.              *)

\* _response_from_state and _approval_required.
_response_from_state(r) ==
    LET required == approval_result[r] = "required"
    IN  CASE HasResult(r) ->
               [status |-> IF required THEN "approval_required" ELSE execution_result[r].status,
                approval_required |-> required, error |-> result_error[r],
                tx_hash |-> execution_result[r].tx_hash]
          [] ~HasResult(r) /\ state_error[r] # None ->
               [status |-> "failed", approval_required |-> FALSE, error |-> state_error[r],
                tx_hash |-> None]
          [] OTHER ->
               [status |-> "succeeded", approval_required |-> required, error |-> None,
                tx_hash |-> tx_hash[r]]

agent_error(code) == [kind |-> "agent_error", code |-> code, tx_hash |-> None]

\* A response body has none of the other keys parse_mercury_body knows.
parse_mercury_body(response) ==
    [kind    |-> IF response.status = "approval_required" \/ response.approval_required
                 THEN "wallet_approval_required" ELSE "success",
     code    |-> None,
     tx_hash |-> response.tx_hash]

\* Mutant: only an error object makes a failure.
_local_response_to_result_no_status(response) ==
    IF response.error # None THEN agent_error(response.error) ELSE parse_mercury_body(response)

_local_response_to_result(response) ==
    CASE response.error # None -> agent_error(response.error)
      [] response.error = None /\ response.status \in {"failed", "rejected"} ->
           agent_error(response.status)
      [] OTHER -> parse_mercury_body(response)

NoTurn == [kind |-> "none", code |-> None, tx_hash |-> None]

-----------------------------------------------------------------------------
(* The specification.                                                      *)

JunoInit ==
    /\ request = [r \in Runs |-> CHOOSE q \in Requests : TRUE]   \* not asked yet
    /\ Init
    /\ session \in Sessions
    /\ approval_response = [form |-> "none", status |-> "other", idempotency_key |-> None]
    /\ tapped = {}
    /\ phase = [r \in Runs |-> "idle"]
    /\ state_error = [r \in Runs |-> None]
    /\ result_error = [r \in Runs |-> None]
    /\ record_error = [k \in Keys |-> None]
    /\ turn_result = [r \in Runs |-> NoTurn]

\* The user answers a prompt; Juno keeps the last answer in its state.
answer_prompt ==
    \E raw \in RawApprovals :
        /\ approval_response' = raw
        /\ tapped' = IF raw.status = "approved" THEN tapped \cup {raw.idempotency_key}
                     ELSE tapped
        /\ UNCHANGED <<vars, session, phase, errors, turn_result>>

\* mercury_invoke up to the graph: the tool, the runner and the boundary
\* each may refuse.  A key that is an empty string is left in the intent and
\* refused by validate_invoke_input, whose error the response carries; a
\* missing one is for the policy to refuse.
mercury_invoke(r) ==
    /\ phase[r] = "idle"
    /\ \E i \in Intents :
         LET response == _normalize_approval_response(approval_response)
             refuse(result) ==
               /\ turn_result' = Set(turn_result, r, result)
               /\ phase' = Set(phase, r, "done")
               /\ UNCHANGED request
         IN  \/ /\ ~i.kind
                /\ refuse(agent_error(None))
             \/ /\ i.kind /\ ~RequestValid
                /\ refuse(agent_error("validation_error"))
             \/ /\ i.kind /\ RequestValid /\ i.idempotency_key = Blank
                /\ refuse(agent_error("validation_failed"))
             \/ /\ i.kind /\ RequestValid /\ i.idempotency_key # Blank
                /\ request' = Set(request, r, _intent_with_boundary_fields(i, session_wallet, response))
                /\ phase' = Set(phase, r, "graph")
                /\ UNCHANGED turn_result
    /\ UNCHANGED <<pc, resolved, checks, outcome, records, chain, user, errors>>

\* The code of the error run r's state gets when a node fails.
state_errors(r) ==
    IF error'[r] = error[r] THEN {state_error[r]}
    ELSE {normalize_exception(x, None) : x \in Raises(pc[r])}

\* The code of the error of the result the node gives run r.
result_errors(r) ==
    LET k == key(r)
        failing(code) == {normalize_exception(x, code) : x \in Raises(pc[r])}
        status == execution_result'[r].status
    IN  IF execution_result'[r] = execution_result[r] THEN {result_error[r]}
        ELSE CASE At(r, "request_approval")      ->
                    {IF k = None THEN normalize_exception("ValidationError", None)
                     ELSE "approval_denied"}
               [] At(r, "check_idempotency")     ->
                    {IF k = None THEN normalize_exception("other", None)
                     ELSE IF records[k].result # NoResult THEN record_error[k]
                     ELSE "idempotency_conflict"}
               [] At(r, "sign_transaction")      -> failing("signing_failed")
               [] At(r, "broadcast_transaction") -> failing("broadcast_failed")
               [] At(r, "monitor_receipt")       ->
                    (IF status \in receipt_statuses(r) THEN {None} ELSE {})
                    \cup (IF status = "failed" /\ MayFail("monitor_receipt") THEN failing(None)
                          ELSE {})
               [] At(r, "reject_transaction")    ->
                    IF policy_decision[r] # None THEN {"policy_rejected"} ELSE {state_error[r]}

\* One node of the graph, with the codes of the errors it leaves.
graph_node(r) ==
    /\ phase[r] = "graph"
    /\ prepare_transaction(r) \/ Step(r)
    /\ \E code \in state_errors(r) : state_error' = Set(state_error, r, code)
    /\ \E code \in result_errors(r) :
         /\ result_error' = Set(result_error, r, code)
         /\ record_error' =
              [k \in Keys |-> IF k = key(r) /\ records'[k] # records[k]
                                 /\ records'[k].status = "completed"
                              THEN code ELSE record_error[k]]
    /\ UNCHANGED <<user, phase, turn_result>>

\* Mutant: the runner polls for a transaction hash before it answers.
run_turn_waits_for_hash(r) ==
    /\ phase[r] = "graph" /\ At(r, "END") /\ tx_hash[r] # None
    /\ turn_result' = Set(turn_result, r, _local_response_to_result(_response_from_state(r)))
    /\ phase' = Set(phase, r, "done")
    /\ UNCHANGED <<vars, user, errors>>

\* The invoke boundary answers and the runner classifies the answer.
run_turn(r) ==
    /\ phase[r] = "graph" /\ At(r, "END")
    /\ turn_result' = Set(turn_result, r, _local_response_to_result(_response_from_state(r)))
    /\ phase' = Set(phase, r, "done")
    /\ UNCHANGED <<vars, user, errors>>

JunoNext ==
    \/ answer_prompt
    \/ \E r \in Runs : \/ mercury_invoke(r) \/ graph_node(r) \/ run_turn(r)
                       \/ Mine(r) /\ UNCHANGED juno_vars

JunoSpec == JunoInit /\ [][JunoNext]_all_vars

\* A worker thread runs its call to the end: LangGraph runs a started graph
\* to its end, and every backend call either returns or raises.  Nothing
\* obliges the model to call, the user to answer or the chain to include a
\* transaction.
JunoFairSpec == JunoSpec /\ \A r \in Runs : WF_all_vars(graph_node(r) \/ run_turn(r))

-----------------------------------------------------------------------------
(* Properties.                                                             *)

Answered(r, kind) == turn_result[r].kind = kind

\* Nothing that moves value reaches the chain under a key the user never
\* approved in the session, whichever answers are still in the session state
\* when a call starts and however calls overlap (juno/subagent.py,
\* _normalize_approval_response; RequestMetadataTransactionApprover).
SubmittedOnlyIfTapped ==
    \A r \in Runs :
        chain[r] # "absent" /\ is_value_moving(request[r].tx) => key(r) \in tapped

\* A tool call that answers "success" reports a transaction the chain has
\* accepted under the key of the call, recorded as pending or as confirmed
\* and then mined: never a reverted receipt, never a transaction that was
\* only prepared.
SuccessIsOnChain ==
    \A r \in Runs :
        Answered(r, "success") =>
            /\ turn_result[r].tx_hash # None
            /\ key(turn_result[r].tx_hash) = key(r)
            /\ records[key(r)] \in {Completed(ExecutionResult(s, turn_result[r].tx_hash)) :
                                       s \in {"pending", "confirmed"}}
            /\ chain[turn_result[r].tx_hash] # "absent"

\* A call that answers with an error although its own transaction was
\* accepted leaves the key completed with that transaction's hash, so that
\* the retry the error asks for cannot submit again; a call that answers
\* approval_denied, the code of a missing approval too, has signed nothing:
\* 'treat as "not signed yet"' (MERCURY_AGENT_GUIDE.md, Responses).
ErrorsAreSafeToRetry ==
    \A r \in Runs :
        Answered(r, "agent_error") =>
            /\ chain[r] # "absent" =>
                  /\ records[key(r)].status = "completed"
                  /\ records[key(r)].result.tx_hash = r
            /\ turn_result[r].code = "approval_denied" =>
                  ~signed_transaction[r] /\ chain[r] = "absent"

\* Every tool call that got into the graph is answered.
CallsAreAnswered == \A r \in Runs : phase[r] = "graph" ~> phase[r] = "done"

=============================================================================
