-------------------------- MODULE TransactionPipeline --------------------------
(***************************************************************************)
(* The value-moving transaction graph of Mercury: the nodes of             *)
(* mercury/graph/nodes_transaction.py wired by _add_transaction_pipeline   *)
(* (mercury/graph/agent.py) behind a preparation node, with the shared     *)
(* idempotency store, the policy engine, the request-metadata approver     *)
(* and, as environment, an EVM node.                                       *)
(*                                                                         *)
(* A "run" is one invocation of the graph.  LangGraph executes the nodes   *)
(* of a run one after the other, so pc[r] names the node that is next;     *)
(* runs of several callers (worker threads of the Juno runner or of the    *)
(* host that embeds Mercury) interleave between nodes and share the store  *)
(* and the chain.  A retry of a request is another run with the same       *)
(* request.  Each graph-state key that control depends on is a variable.   *)
(***************************************************************************)
EXTENDS PolicyEngine, IdempotencyStore

CONSTANTS
    Runs,           \* graph invocations
    Wallets,        \* wallet ids; a wallet id also stands for its address
    Requests,       \* prepared transactions callers may ask for
    GasEstimates,   \* what eth_estimateGas may answer
    MaxNonce,       \* bound on account nonces
    Config,         \* configuration of the policy engine
    Faults          \* the external calls that may fail, see FaultKinds

ASSUME NoneAssumption == None \notin Runs \cup Keys \cup Wallets \cup ApprovalStatus

\* An approval_response carried by the request metadata.
ApprovalResponse ==
    [status : {"approved", "denied", "other"}, idempotency_key : Keys \cup {None}]

NoResponse == [status |-> "missing", idempotency_key |-> None]

\* PreparedTransaction, and the approval response in its metadata.
PreparedTransaction ==
    [wallet_id         : Wallets,
     idempotency_key   : Keys \cup {None},
     nonce             : (0..MaxNonce) \cup {None},
     gas               : GasEstimates \cup {None},
     approval_response : ApprovalResponse \cup {NoResponse},
     tx                : PolicyTransaction]

FaultKinds ==
    {"prepare_transaction", "resolve_nonce", "populate_gas",
     "simulate_transaction", "sign_transaction", "broadcast_transaction",
     "monitor_receipt",   \* wait_for_receipt raises
     "lost_reply"}        \* the node accepts the transaction, the reply is lost

ASSUME PipelineAssumption ==
    /\ Wallets \subseteq Addresses
    /\ MaxNonce \in Nat
    /\ GasEstimates \subseteq Nat
    /\ Requests \subseteq PreparedTransaction
    /\ Config \in PolicyConfig
    /\ Faults \subseteq FaultKinds

\* ExecutionResult.  A transaction hash is identified with the run that
\* signed the transaction.
Result == [status : ExecutionStatus, tx_hash : Runs \cup {None}]

Nodes ==
    {"prepare_transaction", "resolve_nonce", "populate_gas",
     "simulate_transaction", "evaluate_policy", "request_approval",
     "check_idempotency", "sign_transaction", "broadcast_transaction",
     "monitor_receipt", "reject_transaction", "END"}

VARIABLES
    request,            \* request[r]: what the caller of run r asked for
    pc,                 \* pc[r]: the graph node run r executes next
    error,              \* the remaining ones: keys of r's MercuryState
    nonce,
    gas,
    simulation_result,
    policy_decision,
    approval_result,
    signed_transaction,
    tx_hash,
    execution_result,
    chain               \* environment: fate of the transaction r signed

checks == <<simulation_result, policy_decision, approval_result>>
resolved == <<error, nonce, gas>>
outcome == <<signed_transaction, tx_hash, execution_result>>
vars == <<request, pc, resolved, checks, outcome, records, chain>>

ChainStatus == {"absent", "mempool", "mined", "reverted", "replaced"}

TypeOK ==
    /\ request \in [Runs -> Requests]
    /\ pc \in [Runs -> Nodes]
    /\ error \in [Runs -> BOOLEAN]
    /\ nonce \in [Runs -> (0..MaxNonce) \cup {None}]
    /\ gas \in [Runs -> GasEstimates \cup {None}]
    /\ simulation_result \in [Runs -> SimulationStatus \cup {None}]
    /\ policy_decision \in [Runs -> PolicyDecisionStatus \cup {None}]
    /\ approval_result \in [Runs -> ApprovalStatus \cup {None}]
    /\ signed_transaction \in [Runs -> BOOLEAN]
    /\ tx_hash \in [Runs -> Runs \cup {None}]
    /\ execution_result \in [Runs -> Result \cup {NoResult}]
    /\ records \in [Keys -> [status : IdempotencyStatus, result : Result \cup {NoResult}]]
    /\ chain \in [Runs -> ChainStatus]

Init ==
    /\ request \in [Runs -> Requests]
    /\ pc = [r \in Runs |-> "prepare_transaction"]
    /\ error = [r \in Runs |-> FALSE]
    /\ nonce = [r \in Runs |-> None]
    /\ gas = [r \in Runs |-> None]
    /\ simulation_result = [r \in Runs |-> None]
    /\ policy_decision = [r \in Runs |-> None]
    /\ approval_result = [r \in Runs |-> None]
    /\ signed_transaction = [r \in Runs |-> FALSE]
    /\ tx_hash = [r \in Runs |-> None]
    /\ execution_result = [r \in Runs |-> NoResult]
    /\ StoreInit
    /\ chain = [r \in Runs |-> "absent"]

-----------------------------------------------------------------------------
(* Environment: the EVM node behind Web3TransactionBackend.                *)

key(r) == request[r].idempotency_key
wallet(r) == request[r].wallet_id

OnChain(r) == chain[r] \in {"mined", "reverted"}
Occupies(r, w, n) ==
    wallet(r) = w /\ nonce[r] = n /\ (chain[r] = "mempool" \/ OnChain(r))

\* eth_getTransactionCount(w, "pending") answers n: the first nonce no
\* transaction of w occupies.
lookup_nonce(w, n) ==
    /\ ~\E q \in Runs : Occupies(q, w, n)
    /\ \A m \in 0..(n - 1) : \E q \in Runs : Occupies(q, w, m)

\* The node takes a signed transaction unless its nonce is already mined.
Acceptable(r) ==
    signed_transaction[r] /\ ~\E q \in Runs : Occupies(q, wallet(r), nonce[r]) /\ OnChain(q)

\* A waiting transaction of the same wallet and nonce is replaced.
Accept(r) ==
    chain' = [q \in Runs |->
                IF q = r THEN "mempool"
                ELSE IF Occupies(q, wallet(r), nonce[r]) THEN "replaced"
                ELSE chain[q]]

\* A block includes r's transaction, in nonce order.
Mine(r) ==
    /\ chain[r] = "mempool"
    /\ \A m \in 0..(nonce[r] - 1) : \E q \in Runs : Occupies(q, wallet(r), m) /\ OnChain(q)
    /\ \E fate \in {"mined", "reverted"} : chain' = [chain EXCEPT ![r] = fate]
    /\ UNCHANGED <<request, pc, resolved, checks, outcome, records>>

-----------------------------------------------------------------------------
(* The graph nodes.  Each action is one node of one run.                   *)

Goto(r, node) == pc' = [pc EXCEPT ![r] = node]
At(r, node) == pc[r] = node
Set(f, r, value) == [f EXCEPT ![r] = value]
HasResult(r) == execution_result[r] # NoResult
MayFail(call) == call \in Faults

\* prepare_native_transaction, prepare_erc20_transaction and
\* prepare_swap_transaction reduce to this here: they leave either an error
\* or a prepared transaction that carries the caller's key and approval.
prepare_transaction(r) ==
    /\ At(r, "prepare_transaction")
    /\ \/ /\ Goto(r, "resolve_nonce")
          /\ UNCHANGED error
       \/ /\ MayFail("prepare_transaction")
          /\ error' = Set(error, r, TRUE)
          /\ Goto(r, "reject_transaction")
    /\ UNCHANGED <<request, nonce, gas, checks, outcome, records, chain>>

resolve_nonce(r) ==
    /\ At(r, "resolve_nonce")
    /\ \/ /\ \E n \in 0..MaxNonce :
              /\ IF request[r].nonce # None THEN n = request[r].nonce
                                            ELSE lookup_nonce(wallet(r), n)
              /\ nonce' = Set(nonce, r, n)
          /\ UNCHANGED error
       \/ /\ MayFail("resolve_nonce")
          /\ error' = Set(error, r, TRUE)
          /\ UNCHANGED nonce
    /\ Goto(r, "populate_gas")
    /\ UNCHANGED <<request, gas, checks, outcome, records, chain>>

populate_gas(r) ==
    /\ At(r, "populate_gas")
    /\ \/ /\ error[r]
          /\ UNCHANGED <<gas, error>>
       \/ /\ ~error[r]
          /\ \E g \in GasEstimates :
              /\ request[r].gas # None => g = request[r].gas
              /\ gas' = Set(gas, r, g)
          /\ UNCHANGED error
       \/ /\ ~error[r]
          /\ MayFail("populate_gas")
          /\ error' = Set(error, r, TRUE)
          /\ UNCHANGED gas
    /\ Goto(r, "simulate_transaction")
    /\ UNCHANGED <<request, nonce, checks, outcome, records, chain>>

\* The executable transaction as the rules see it.
executable_transaction(r) ==
    [request[r].tx EXCEPT
        !.from_address = IF @ = None THEN wallet(r) ELSE @,
        !.gas = gas[r],
        !.has_key = key(r) # None]

\* Web3TransactionBackend.simulate passes only on the resolved chain.
simulate_transaction(r) ==
    /\ At(r, "simulate_transaction")
    /\ \/ /\ error[r]
          /\ UNCHANGED simulation_result
       \/ /\ ~error[r]
          /\ request[r].tx.chain = "match"
          /\ simulation_result' = Set(simulation_result, r, "passed")
       \/ /\ ~error[r]
          /\ MayFail("simulate_transaction") \/ request[r].tx.chain # "match"
          /\ simulation_result' = Set(simulation_result, r, "failed")
    /\ Goto(r, "evaluate_policy")
    /\ UNCHANGED <<request, resolved, policy_decision, approval_result, outcome,
                   records, chain>>

route_after_transaction_policy(decision) ==
    CASE decision = "rejected"       -> "reject_transaction"
      [] decision = "needs_approval" -> "request_approval"
      [] OTHER                       -> "check_idempotency"

evaluate_policy(r) ==
    LET decision == IF error[r] THEN "rejected"
                    ELSE evaluate(executable_transaction(r), simulation_result[r], Config)
    IN  /\ At(r, "evaluate_policy")
        /\ policy_decision' = Set(policy_decision, r, decision)
        /\ Goto(r, route_after_transaction_policy(decision))
        /\ UNCHANGED <<request, resolved, simulation_result, approval_result,
                       outcome, records, chain>>

\* Mutant: an approval counts for whatever key it was given.
approver_answer_any_key(response, k) ==
    CASE response.status \in {"approved", "denied"} -> response.status
      [] OTHER                                      -> "required"

\* RequestMetadataTransactionApprover.request_approval.  (The placeholder
\* approver answers every request as this one answers a missing response.)
approver_answer(response, k) ==
    CASE response.status = "denied"                          -> "denied"
      [] response.status \notin {"approved", "denied"}       -> "required"
      [] response.status = "approved"
         /\ response.idempotency_key \notin {None, k}        -> "denied"
      [] OTHER                                               -> "approved"

\* An ApprovalRequest without a key is invalid, so building it raises; then
\* there is a result and no approval_result.
request_approval(r) ==
    LET answer == IF key(r) = None THEN None
                  ELSE approver_answer(request[r].approval_response, key(r))
    IN  /\ At(r, "request_approval")
        /\ approval_result' = Set(approval_result, r, answer)
        /\ IF answer = "approved"
           THEN /\ Goto(r, "check_idempotency")
                /\ UNCHANGED execution_result
           ELSE /\ Goto(r, "reject_transaction")
                /\ execution_result' =
                     Set(execution_result, r, ExecutionResult("approval_denied", None))
        /\ UNCHANGED <<request, resolved, simulation_result, policy_decision,
                       signed_transaction, tx_hash, records, chain>>

\* What a run whose key is taken answers: the stored result, or a conflict
\* while the first run is still in flight.
duplicate_result(k) ==
    IF records[k].result # NoResult THEN records[k].result
    ELSE ExecutionResult("rejected", None)

check_idempotency(r) ==
    /\ At(r, "check_idempotency")
    /\ \/ /\ key(r) # None
          /\ reserve(key(r))
          /\ Goto(r, "sign_transaction")
          /\ UNCHANGED execution_result
       \/ /\ key(r) # None
          /\ IsDuplicate(key(r))
          /\ execution_result' = Set(execution_result, r, duplicate_result(key(r)))
          /\ Goto(r, "reject_transaction")
          /\ UNCHANGED records
       \/ /\ key(r) = None
          /\ execution_result' = Set(execution_result, r, ExecutionResult("rejected", None))
          /\ Goto(r, "reject_transaction")
          /\ UNCHANGED records
    /\ UNCHANGED <<request, resolved, checks, signed_transaction, tx_hash, chain>>

\* Mutant: the failure path forgets the reservation.
FailBeforeBroadcast_no_release(r) ==
    /\ execution_result' = Set(execution_result, r, ExecutionResult("failed", None))
    /\ UNCHANGED records

\* _release_idempotency_after_pre_broadcast_failure and the FAILED result of
\* a node that could not submit.
FailBeforeBroadcast(r) ==
    /\ release(key(r))
    /\ execution_result' = Set(execution_result, r, ExecutionResult("failed", None))

\* The signer refuses a from_address that is not the wallet's.
sign_transaction(r) ==
    LET address_matches == request[r].tx.from_address \in {None, wallet(r)}
    IN  /\ At(r, "sign_transaction")
        /\ \/ /\ address_matches
              /\ signed_transaction' = Set(signed_transaction, r, TRUE)
              /\ UNCHANGED <<records, execution_result>>
           \/ /\ MayFail("sign_transaction") \/ ~address_matches
              /\ FailBeforeBroadcast(r)
              /\ UNCHANGED signed_transaction
        /\ Goto(r, "broadcast_transaction")
        /\ UNCHANGED <<request, resolved, checks, tx_hash, chain>>

\* The edge from sign_transaction is unconditional: a run that already has
\* a result passes through this node and the next one without effect.
broadcast_transaction(r) ==
    /\ At(r, "broadcast_transaction")
    /\ \/ /\ HasResult(r)
          /\ UNCHANGED <<tx_hash, execution_result, records, chain>>
       \/ /\ ~HasResult(r)
          /\ Acceptable(r)
          /\ Accept(r)
          /\ tx_hash' = Set(tx_hash, r, r)
          /\ UNCHANGED <<execution_result, records>>
       \/ /\ ~HasResult(r)
          /\ MayFail("broadcast_transaction") \/ ~Acceptable(r)
          /\ FailBeforeBroadcast(r)
          /\ UNCHANGED <<tx_hash, chain>>
       \/ /\ ~HasResult(r)
          /\ MayFail("lost_reply") /\ Acceptable(r)
          /\ Accept(r)
          /\ FailBeforeBroadcast(r)
          /\ UNCHANGED tx_hash
    /\ Goto(r, "monitor_receipt")
    /\ UNCHANGED <<request, resolved, checks, signed_transaction>>

\* Mutants: the status of the receipt is not looked at, or not translated.
receipt_statuses_any_receipt(r) ==
    {"pending"} \cup (IF OnChain(r) THEN {"confirmed"} ELSE {})

receipt_statuses_untranslated(r) == {chain[r]}

\* What wait_for_receipt may report: the receipt of a mined transaction, or
\* PENDING when the wait times out first.
receipt_statuses(r) ==
    {"pending"} \cup (IF chain[r] = "mined" THEN {"confirmed"}
                      ELSE IF chain[r] = "reverted" THEN {"failed"} ELSE {})

\* Mutant: a failed wait frees the key although a transaction is out.
finalize_after_monitor_failure_release(r, result) == release(key(r))

\* _finalize_idempotency_after_monitor_failure.
finalize_after_monitor_failure(r, result) ==
    IF tx_hash[r] # None THEN complete(key(r), result) ELSE release(key(r))

monitor_receipt(r) ==
    /\ At(r, "monitor_receipt")
    /\ \/ /\ HasResult(r)
          /\ UNCHANGED <<execution_result, records>>
       \/ /\ ~HasResult(r)
          /\ \E status \in receipt_statuses(r) :
              /\ complete(key(r), ExecutionResult(status, tx_hash[r]))
              /\ execution_result' =
                    Set(execution_result, r, ExecutionResult(status, tx_hash[r]))
       \/ /\ ~HasResult(r)
          /\ MayFail("monitor_receipt")
          /\ finalize_after_monitor_failure(r, ExecutionResult("failed", tx_hash[r]))
          /\ execution_result' =
                Set(execution_result, r, ExecutionResult("failed", tx_hash[r]))
    /\ Goto(r, "END")
    /\ UNCHANGED <<request, resolved, checks, signed_transaction, tx_hash, chain>>

reject_transaction(r) ==
    /\ At(r, "reject_transaction")
    /\ execution_result' =
          IF HasResult(r) THEN execution_result
          ELSE Set(execution_result, r, ExecutionResult("rejected", None))
    /\ Goto(r, "END")
    /\ UNCHANGED <<request, resolved, checks, signed_transaction, tx_hash, records, chain>>

-----------------------------------------------------------------------------
(* The specification.                                                      *)

Step(r) ==
    \/ resolve_nonce(r)
    \/ populate_gas(r)
    \/ simulate_transaction(r)
    \/ evaluate_policy(r)
    \/ request_approval(r)
    \/ check_idempotency(r)
    \/ sign_transaction(r)
    \/ broadcast_transaction(r)
    \/ monitor_receipt(r)
    \/ reject_transaction(r)

Terminated ==
    /\ \A r \in Runs : At(r, "END")
    /\ UNCHANGED vars

Next ==
    \/ \E r \in Runs : prepare_transaction(r) \/ Step(r) \/ Mine(r)
    \/ Terminated

Spec == Init /\ [][Next]_vars

-----------------------------------------------------------------------------
(* Properties.                                                             *)

\* Run r owns the reservation of key k: it is past check_idempotency and has
\* neither failed nor finished.
Holds(r, k) ==
    /\ pc[r] \in {"sign_transaction", "broadcast_transaction", "monitor_receipt"}
    /\ ~HasResult(r)
    /\ key(r) = k

\* An IN_FLIGHT record belongs to exactly one run that is still executing
\* sign, broadcast or monitor: no run that failed earlier releases or
\* completes the reservation of a concurrent run with the same key, and no
\* failure path leaves a reservation behind.
ReservationHasOneHolder ==
    \A k \in Keys :
        /\ records[k].status = "in_flight" <=> \E r \in Runs : Holds(r, k)
        /\ \A q, r \in Runs : Holds(q, k) /\ Holds(r, k) => q = r

\* Once complete() has stored a result for a key, no node of any run ever
\* changes or removes that record, although complete() itself would.
CompletedIsFinal ==
    [][\A k \in Keys : records[k].status = "completed" => records'[k] = records[k]]_vars

\* Under one key at most one run ever gets a transaction hash back from the
\* node, whatever fails and however callers retry.
OneHashPerKey ==
    \A q, r \in Runs :
        tx_hash[q] # None /\ tx_hash[r] # None /\ key(q) = key(r) => q = r

\* Under one key at most one transaction is ever accepted by the chain:
\* "clients can safely retry with the same key" (README.md, Idempotency
\* store).
AtMostOneSubmission ==
    \A q, r \in Runs :
        chain[q] # "absent" /\ chain[r] # "absent" /\ key(q) = key(r) => q = r

\* Whatever reaches the chain has passed every gate in the state it was
\* signed in: it has a key and a passed simulation, violates no rule, and,
\* when it can move value, its caller approved it for this key.
SubmittedOnlyThroughGates ==
    \A r \in Runs :
        chain[r] # "absent" =>
            /\ key(r) \in Keys
            /\ ~rejection_reason(executable_transaction(r), simulation_result[r], Config)
            /\ is_value_moving(request[r].tx) =>
                  /\ request[r].approval_response.status = "approved"
                  /\ request[r].approval_response.idempotency_key \in {None, key(r)}

\* Every finished run that reports a transaction hash, the submitting run
\* and the replays of its key alike, reports exactly the stored result.
ReportedHashIsRecorded ==
    \A r \in Runs :
        At(r, "END") /\ execution_result[r].tx_hash # None =>
            records[key(r)] = Completed(execution_result[r])

\* A reported outcome agrees with the chain: "confirmed" only for a mined
\* transaction, never a later displaced or reverted one; a result that names
\* a transaction, pending, confirmed or failed, names one the node has taken;
\* and a run that reports a rejection or a denied approval has submitted
\* nothing.  ("failed" does not tell the fate of its transaction:
\* monitor_receipt stores it also when the wait itself raises.)
ReportedOutcomeIsTrue ==
    \A r \in Runs :
        At(r, "END") =>
            /\ execution_result[r].status = "confirmed" =>
                  chain[execution_result[r].tx_hash] = "mined"
            /\ execution_result[r].tx_hash # None =>
                  chain[execution_result[r].tx_hash] # "absent"
            /\ execution_result[r].status \in {"rejected", "approval_denied"} =>
                  chain[r] = "absent"

\* Every reservation is eventually released or completed, so a failed run
\* never blocks the retries of its key for good.
ReservationsResolve ==
    \A k \in Keys : records[k].status = "in_flight" ~> records[k].status # "in_flight"

=============================================================================
