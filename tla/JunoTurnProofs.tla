----------------------------- MODULE JunoTurnProofs -----------------------------
(***************************************************************************)
(* Theorems about JunoTurn, for every set of tool calls, intents, sessions *)
(* and answers of the user.                                                *)
(*                                                                         *)
(* A call that enters the graph is a preparation in the sense of           *)
(* TransactionPipelineProofs (it writes the request of a run that has not  *)
(* started), so the invariants of the pipeline hold of the tool calls.     *)
(* What is added follows a call from the session to its answer: which      *)
(* answer of the user its request carries, which code its result has and   *)
(* what the runner makes of the two.                                       *)
(***************************************************************************)
EXTENDS JunoTurn, TransactionPipelineProofs

-----------------------------------------------------------------------------
(* The boundary.                                                           *)

NoAnswer == [form |-> "none", status |-> "other", idempotency_key |-> None]

\* A run is untouched until its call enters the graph and has left the graph
\* when its call is answered.
PhaseOf(r) ==
    /\ phase[r] = "idle" => pc[r] = "prepare_transaction"
    /\ phase[r] = "done" => pc[r] \in {"prepare_transaction", "END"}
    /\ phase[r] # "done" => turn_result[r] = NoTurn

PhaseInv ==
    /\ session \in Sessions
    /\ approval_response \in RawApprovals \cup {NoAnswer}
    /\ phase \in [Runs -> {"idle", "graph", "done"}]
    /\ turn_result = [r \in Runs |-> turn_result[r]]
    /\ \A r \in Runs : PhaseOf(r)

\* Whatever the session holds becomes an approval response or none.
LEMMA ResponseType ==
    ASSUME NEW raw \in RawApprovals \cup {NoAnswer}
    PROVE  _normalize_approval_response(raw) \in ApprovalResponse \cup {NoResponse}
<1>1. /\ raw.form \in {"none", "object", "prefix", "text"}
      /\ raw.status \in {"approved", "denied", "other"}
      /\ raw.idempotency_key \in Keys \cup {None}
  BY JunoAssumption DEF RawApproval, NoAnswer
<1> QED BY <1>1 DEF _normalize_approval_response, ApprovalResponse

\* A valid request names a wallet.
LEMMA WalletType ==
    ASSUME PhaseInv, RequestValid
    PROVE  session_wallet \in Wallets
<1>1. session.wallet_id \in Wallets \cup {None, InvalidWallet}
  BY JunoAssumption DEF PhaseInv, Session
<1> QED BY <1>1, JunoAssumption DEF RequestValid, session_wallet

\* What a call does to its run: it is refused, or its request is written.
LEMMA InvokeEffect ==
    ASSUME TypeOK, PhaseInv, NEW r \in Runs, mercury_invoke(r)
    PROVE  /\ Preparation(r)
           /\ UNCHANGED <<pc, resolved, checks, outcome, records, chain, user, errors>>
           /\ phase[r] = "idle" /\ pc[r] = "prepare_transaction"
           /\ \/ /\ UNCHANGED request
                 /\ phase' = [phase EXCEPT ![r] = "done"]
                 /\ \E code \in {None, "validation_error", "validation_failed"} :
                       turn_result' = [turn_result EXCEPT ![r] = agent_error(code)]
              \/ /\ UNCHANGED turn_result
                 /\ phase' = [phase EXCEPT ![r] = "graph"]
                 /\ \E i \in Intents :
                       request' = [request EXCEPT ![r] =
                         _intent_with_boundary_fields(i, session_wallet,
                             _normalize_approval_response(approval_response))]
<1> DEFINE response == _normalize_approval_response(approval_response)
<1>1. /\ UNCHANGED <<pc, resolved, checks, outcome, records, chain, user, errors>>
      /\ phase[r] = "idle" /\ pc[r] = "prepare_transaction"
  BY DEF mercury_invoke, PhaseInv, PhaseOf
<1>2. PICK i \in Intents :
        \/ /\ UNCHANGED request
           /\ phase' = [phase EXCEPT ![r] = "done"]
           /\ \E code \in {None, "validation_error", "validation_failed"} :
                 turn_result' = [turn_result EXCEPT ![r] = agent_error(code)]
        \/ /\ UNCHANGED turn_result
           /\ phase' = [phase EXCEPT ![r] = "graph"]
           /\ i.kind /\ RequestValid /\ i.idempotency_key # Blank
           /\ request' = [request EXCEPT ![r] =
                             _intent_with_boundary_fields(i, session_wallet, response)]
  BY DEF mercury_invoke, Set
<1>3. response \in ApprovalResponse \cup {NoResponse}
  BY ResponseType DEF PhaseInv
<1> HIDE DEF response
<1>4. ASSUME UNCHANGED request PROVE Preparation(r)
  BY <1>1, <1>4 DEF Preparation, At, Goto, TypeOK, resolved, checks
<1>5. ASSUME i.kind, RequestValid, i.idempotency_key # Blank,
             request' = [request EXCEPT ![r] =
                           _intent_with_boundary_fields(i, session_wallet, response)]
      PROVE  Preparation(r)
  <2>1. _intent_with_boundary_fields(i, session_wallet, response) \in Requests
    BY <1>3, <1>5, WalletType, BoundaryAssumption
  <2>2. request' \in [Runs -> Requests] /\ \A q \in Runs \ {r} : request'[q] = request[q]
    BY <1>5, <2>1 DEF TypeOK
  <2> QED BY <1>1, <2>2 DEF Preparation, At, Goto, TypeOK, resolved, checks
<1>6. Preparation(r)
  BY <1>2, <1>4, <1>5
<1> QED BY <1>1, <1>2, <1>6 DEF response

\* Every step of the tool calls is a step of the pipeline.
LEMMA JunoPipelineStep == TypeOK /\ PhaseInv /\ [JunoNext]_all_vars => PipelineStep
<1> SUFFICES ASSUME TypeOK, PhaseInv, [JunoNext]_all_vars PROVE PipelineStep
  OBVIOUS
<1>1. ASSUME NEW r \in Runs, mercury_invoke(r) PROVE PipelineStep
  BY <1>1, InvokeEffect DEF PipelineStep
<1>2. ASSUME NEW r \in Runs, graph_node(r) PROVE PipelineStep
  <2>1. prepare_transaction(r) => Next
    BY DEF Next
  <2> QED BY <1>2, <2>1, PipelineNext DEF graph_node, PipelineStep
<1>3. ASSUME NEW r \in Runs, run_turn(r) PROVE PipelineStep
  BY <1>3 DEF run_turn, PipelineStep
<1>4. CASE answer_prompt
  BY <1>4 DEF answer_prompt, PipelineStep
<1>5. ASSUME NEW r \in Runs, Mine(r) PROVE PipelineStep
  BY <1>5 DEF PipelineStep
<1>6. CASE UNCHANGED all_vars
  BY <1>6 DEF all_vars, PipelineStep
<1> QED BY <1>1, <1>2, <1>3, <1>4, <1>5, <1>6 DEF JunoNext

-----------------------------------------------------------------------------
(* The nodes.                                                              *)

\* The node of one call leaves the others alone and writes no request.
LEMMA NodeFrame ==
    ASSUME TypeOK, NEW r \in Runs, graph_node(r)
    PROVE  /\ UNCHANGED <<request, user, phase, turn_result>>
           /\ phase[r] = "graph" /\ pc[r] # "END"
           /\ pc'[r] # "prepare_transaction"
           /\ \A q \in Runs \ {r} :
                 /\ pc'[q] = pc[q] /\ execution_result'[q] = execution_result[q]
                 /\ signed_transaction'[q] = signed_transaction[q]
<1>1. /\ phase[r] = "graph" /\ UNCHANGED <<user, phase, turn_result>>
      /\ prepare_transaction(r) \/ Step(r)
  BY DEF graph_node
<1>2. CASE prepare_transaction(r)
  BY <1>1, <1>2 DEF prepare_transaction, At, Goto, TypeOK, outcome
<1>3. CASE Step(r)
  <2>1. /\ UNCHANGED request /\ pc'[r] # "prepare_transaction"
        /\ \A q \in Runs \ {r} : pc'[q] = pc[q]
    BY <1>3, StepKeepsRequests
  <2>2. pc[r] # "END"
    BY <1>3 DEF Step, At, resolve_nonce, populate_gas, simulate_transaction, evaluate_policy,
       request_approval, check_idempotency, sign_transaction, broadcast_transaction,
       monitor_receipt, reject_transaction
  <2>3. \A q \in Runs \ {r} : execution_result'[q] = execution_result[q]
    BY <1>3 DEF TypeOK, outcome, Set, Step, resolve_nonce, populate_gas,
       simulate_transaction, evaluate_policy, request_approval, check_idempotency,
       sign_transaction, broadcast_transaction, monitor_receipt, reject_transaction,
       FailBeforeBroadcast
  <2>4. \A q \in Runs \ {r} : signed_transaction'[q] = signed_transaction[q]
    BY <1>3 DEF TypeOK, outcome, Set, Step, resolve_nonce, populate_gas,
       simulate_transaction, evaluate_policy, request_approval, check_idempotency,
       sign_transaction, broadcast_transaction, monitor_receipt, reject_transaction
  <2> QED BY <1>1, <2>1, <2>2, <2>3, <2>4
<1> QED BY <1>1, <1>2, <1>3

\* Every step keeps the phases in order.
LEMMA PhaseStep == TypeOK /\ PhaseInv /\ [JunoNext]_all_vars => PhaseInv'
<1> SUFFICES ASSUME TypeOK, PhaseInv, [JunoNext]_all_vars PROVE PhaseInv'
  OBVIOUS
<1>a. /\ session \in Sessions /\ approval_response \in RawApprovals \cup {NoAnswer}
      /\ phase \in [Runs -> {"idle", "graph", "done"}]
      /\ turn_result = [r \in Runs |-> turn_result[r]]
      /\ \A r \in Runs : PhaseOf(r)
  BY DEF PhaseInv
<1>b. ASSUME NEW q \in Runs, phase'[q] = phase[q], turn_result'[q] = turn_result[q],
             pc'[q] = pc[q]
      PROVE  PhaseOf(q)'
  BY <1>a, <1>b DEF PhaseOf, NoTurn
<1>1. ASSUME NEW r \in Runs, mercury_invoke(r) PROVE PhaseInv'
  <2>1. /\ UNCHANGED <<pc, user>> /\ phase[r] = "idle" /\ pc[r] = "prepare_transaction"
        /\ \/ /\ phase' = [phase EXCEPT ![r] = "done"]
              /\ \E code : turn_result' = [turn_result EXCEPT ![r] = agent_error(code)]
           \/ UNCHANGED turn_result /\ phase' = [phase EXCEPT ![r] = "graph"]
    BY <1>1, InvokeEffect
  <2>2. /\ \A q \in Runs \ {r} : phase'[q] = phase[q] /\ turn_result'[q] = turn_result[q]
        /\ phase' \in [Runs -> {"idle", "graph", "done"}]
        /\ turn_result' = [q \in Runs |-> turn_result'[q]]
        /\ phase'[r] = "done" \/ (phase'[r] = "graph" /\ turn_result'[r] = turn_result[r])
    BY <1>a, <2>1
  <2>3. \A q \in Runs \ {r} : PhaseOf(q)'
    BY <1>b, <2>1, <2>2
  <2>4. PhaseOf(r)'
    BY <1>a, <2>1, <2>2 DEF PhaseOf, NoTurn
  <2> QED BY <1>a, <2>1, <2>2, <2>3, <2>4 DEF PhaseInv, user
<1>2. ASSUME NEW r \in Runs, graph_node(r) PROVE PhaseInv'
  <2>1. /\ UNCHANGED <<user, phase, turn_result>> /\ phase[r] = "graph"
        /\ \A q \in Runs \ {r} : pc'[q] = pc[q]
    BY <1>2, NodeFrame
  <2>2. \A q \in Runs \ {r} : PhaseOf(q)'
    BY <1>b, <2>1
  <2>3. PhaseOf(r)'
    BY <1>a, <2>1 DEF PhaseOf, NoTurn
  <2> QED BY <1>a, <2>1, <2>2, <2>3 DEF PhaseInv, user
<1>3. ASSUME NEW r \in Runs, run_turn(r) PROVE PhaseInv'
  <2>1. /\ UNCHANGED <<pc, user>> /\ pc[r] = "END"
        /\ phase' = [phase EXCEPT ![r] = "done"]
        /\ \E result : turn_result' = [turn_result EXCEPT ![r] = result]
    BY <1>3 DEF run_turn, At, vars, Set
  <2>2. /\ \A q \in Runs \ {r} : phase'[q] = phase[q] /\ turn_result'[q] = turn_result[q]
        /\ phase' \in [Runs -> {"idle", "graph", "done"}] /\ phase'[r] = "done"
        /\ turn_result' = [q \in Runs |-> turn_result'[q]]
    BY <1>a, <2>1
  <2>3. \A q \in Runs \ {r} : PhaseOf(q)'
    BY <1>b, <2>1, <2>2
  <2>4. PhaseOf(r)'
    BY <2>1, <2>2 DEF PhaseOf
  <2> QED BY <1>a, <2>1, <2>2, <2>3, <2>4 DEF PhaseInv, user
<1>4. ASSUME UNCHANGED <<pc, session, phase, turn_result>>,
             approval_response' \in RawApprovals \cup {NoAnswer}
      PROVE  PhaseInv'
  <2>1. \A q \in Runs : PhaseOf(q)'
    BY <1>b, <1>4
  <2> QED BY <1>a, <1>4, <2>1 DEF PhaseInv
<1>5. CASE answer_prompt
  BY <1>4, <1>5 DEF answer_prompt, vars
<1>6. ASSUME NEW r \in Runs, Mine(r), UNCHANGED juno_vars PROVE PhaseInv'
  BY <1>a, <1>4, <1>6 DEF Mine, juno_vars, user
<1>7. CASE UNCHANGED all_vars
  BY <1>a, <1>4, <1>7 DEF all_vars, vars, juno_vars, user
<1> QED BY <1>1, <1>2, <1>3, <1>5, <1>6, <1>7 DEF JunoNext

-----------------------------------------------------------------------------
(* The results.                                                            *)

\* A result that is not final names a transaction.
Placed(result) == result.status \in {"pending", "confirmed"} => result.tx_hash # None

\* Nobody stores a denied approval, a finished run has a result and a run
\* that has not come to the signer has signed nothing.
StatusInv ==
    /\ \A k \in Keys : Placed(records[k].result) /\ records[k].result.status # "approval_denied"
    /\ \A r \in Runs : Placed(execution_result[r])

NodeOf(r) ==
    /\ pc[r] = "END" => HasResult(r)
    /\ pc[r] \in Early => ~signed_transaction[r]

NodeInv == \A r \in Runs : NodeOf(r)

\* Every step preserves StatusInv.
LEMMA StatusStep ==
    ASSUME IInv, StatusInv, PipelineStep
    PROVE  StatusInv'
<1> USE DEF IInv
<1>1. CASE Rests
  BY <1>1 DEF Rests, StatusInv, Placed
<1>2. ASSUME NEW r \in Runs, Effect(r) PROVE StatusInv'
  <2>1. /\ Placed(NoResult) /\ NoResult.status # "approval_denied"
        /\ \A status \in {"rejected", "approval_denied", "failed"} :
              Placed(ExecutionResult(status, None))
        /\ \A status \in {"pending", "confirmed", "failed"} :
              /\ Placed(ExecutionResult(status, r))
              /\ ExecutionResult(status, r).status # "approval_denied"
    BY NoneAssumption DEF Placed, NoResult, ExecutionResult
  <2>2. Settles(r) => /\ Placed(execution_result'[r])
                      /\ execution_result'[r].status # "approval_denied"
    BY <2>1 DEF Settles
  <2>3. ASSUME NEW k \in Keys
        PROVE  Placed(records'[k].result) /\ records'[k].result.status # "approval_denied"
    <3>1. CASE records'[k] = records[k]
      BY <3>1 DEF StatusInv, Placed
    <3>2. CASE records'[k] # records[k]
      <4>1. Acts(r) /\ (Reserves(r) \/ Releases(r) \/ Settles(r))
        BY <1>2, <3>2 DEF Effect, Idles, Submits, Reserves, Releases, Settles
      <4>2. k = key(r)
        BY <3>2, <4>1, RecordEffect
      <4>3. \/ records'[k] \in {InFlight, Absent}
            \/ Settles(r) /\ records'[k] = Completed(execution_result'[r])
        BY <4>1, <4>2, RecordEffect
      <4>4. \/ records'[k].result = NoResult
            \/ Settles(r) /\ records'[k].result = execution_result'[r]
        BY <4>3 DEF InFlight, Absent, Completed
      <4> QED BY <2>1, <2>2, <4>4
    <3> QED BY <3>1, <3>2
  <2>4. ASSUME NEW q \in Runs \ {r} PROVE Placed(execution_result'[q])
    BY <1>2, <2>4 DEF Effect, Apart, StatusInv, Placed
  <2>5. Placed(execution_result'[r])
    <3>1. CASE Idles(r)
      BY <2>1, <3>1 DEF Idles, Answers, StatusInv, Placed
    <3>2. CASE Reserves(r) \/ Submits(r)
      BY <3>2 DEF Reserves, Submits, StatusInv, Placed
    <3>3. CASE Releases(r)
      BY <2>1, <3>3 DEF Releases
    <3> QED BY <1>2, <2>2, <3>1, <3>2, <3>3 DEF Effect
  <2> QED BY <2>3, <2>4, <2>5 DEF StatusInv, Placed
<1> QED BY <1>1, <1>2, EffectOfPipeline

\* What the node of a call does to its own run, and which nodes give it a
\* result.
LEMMA NodeResults ==
    ASSUME IInv, NEW r \in Runs, graph_node(r)
    PROVE  /\ pc'[r] = "END" => HasResult(r)'
           /\ pc'[r] \in Early => signed_transaction'[r] = signed_transaction[r] /\ pc[r] \in Early
           /\ pc[r] \in Refusing =>
                 /\ pc'[r] \in Refusing
                 /\ UNCHANGED <<signed_transaction, chain>>
           /\ execution_result'[r] # execution_result[r] =>
                 \/ /\ pc[r] = "request_approval" /\ pc'[r] = "reject_transaction"
                    /\ UNCHANGED <<signed_transaction, chain>>
                 \/ /\ pc[r] = "check_idempotency"
                    /\ \/ execution_result'[r] = ExecutionResult("rejected", None)
                       \/ key(r) \in Keys /\ execution_result'[r] = records[key(r)].result
                 \/ /\ pc[r] \in {"sign_transaction", "broadcast_transaction"}
                    /\ execution_result'[r] = ExecutionResult("failed", None)
                 \/ /\ pc[r] = "monitor_receipt"
                    /\ execution_result'[r].status # "approval_denied"
                 \/ /\ pc[r] = "reject_transaction"
                    /\ execution_result'[r] = ExecutionResult("rejected", None)
<1> USE DEF Set, Goto, At, IInv
<1>a. /\ pc \in [Runs -> Nodes] /\ execution_result \in [Runs -> Result \cup {NoResult}]
      /\ key(r) \in Keys \cup {None}
      /\ \A status \in ExecutionStatus, h \in Runs \cup {None} :
            ExecutionResult(status, h) # NoResult /\ ExecutionResult(status, h).status = status
  BY RequestType, ResultType DEF TypeOK
<1>b. prepare_transaction(r) \/ Step(r)
  BY DEF graph_node
<1>1. CASE \/ prepare_transaction(r) \/ resolve_nonce(r) \/ populate_gas(r)
           \/ simulate_transaction(r)
  <2>1. /\ pc[r] \in Early \ {"sign_transaction"} /\ UNCHANGED outcome
        /\ \E n \in {"resolve_nonce", "reject_transaction", "populate_gas",
                     "simulate_transaction", "evaluate_policy"} : pc' = [pc EXCEPT ![r] = n]
    BY <1>1 DEF Early, prepare_transaction, resolve_nonce, populate_gas, simulate_transaction
  <2> QED BY <1>a, <2>1 DEF Early, Refusing, outcome
<1>2. CASE evaluate_policy(r)
  <2>1. /\ pc[r] = "evaluate_policy" /\ UNCHANGED outcome
        /\ \E n \in {"reject_transaction", "request_approval", "check_idempotency"} :
              pc' = [pc EXCEPT ![r] = n]
    BY <1>2, RouteType DEF evaluate_policy
  <2> QED BY <1>a, <2>1 DEF Early, Refusing, outcome
<1>3. CASE request_approval(r)
  <2>1. /\ pc[r] = "request_approval" /\ UNCHANGED <<signed_transaction, chain>>
        /\ \/ pc' = [pc EXCEPT ![r] = "check_idempotency"] /\ UNCHANGED execution_result
           \/ pc' = [pc EXCEPT ![r] = "reject_transaction"]
    BY <1>3 DEF request_approval
  <2> QED BY <1>a, <2>1 DEF Early, Refusing
<1>4. CASE check_idempotency(r)
  <2>1. /\ pc[r] = "check_idempotency" /\ UNCHANGED signed_transaction
        /\ \/ pc' = [pc EXCEPT ![r] = "sign_transaction"] /\ UNCHANGED execution_result
           \/ /\ pc' = [pc EXCEPT ![r] = "reject_transaction"]
              /\ \/ execution_result' = [execution_result EXCEPT ![r] =
                                            ExecutionResult("rejected", None)]
                 \/ /\ key(r) # None
                    /\ execution_result' = [execution_result EXCEPT ![r] =
                                              duplicate_result(key(r))]
    BY <1>4 DEF check_idempotency
  <2>2. duplicate_result(key(r)) \in {ExecutionResult("rejected", None), records[key(r)].result}
    BY DEF duplicate_result
  <2> QED BY <1>a, <2>1, <2>2 DEF Early, Refusing
<1>5. CASE sign_transaction(r)
  <2>1. /\ pc[r] = "sign_transaction" /\ pc' = [pc EXCEPT ![r] = "broadcast_transaction"]
        /\ \/ UNCHANGED execution_result
           \/ execution_result' = [execution_result EXCEPT ![r] = ExecutionResult("failed", None)]
    BY <1>5 DEF sign_transaction, FailBeforeBroadcast
  <2> QED BY <1>a, <2>1 DEF Early, Refusing
<1>6. CASE broadcast_transaction(r)
  <2>1. /\ pc[r] = "broadcast_transaction" /\ pc' = [pc EXCEPT ![r] = "monitor_receipt"]
        /\ \/ UNCHANGED execution_result
           \/ execution_result' = [execution_result EXCEPT ![r] = ExecutionResult("failed", None)]
    BY <1>6 DEF broadcast_transaction, FailBeforeBroadcast
  <2> QED BY <1>a, <2>1 DEF Early, Refusing
<1>7. CASE monitor_receipt(r)
  <2>1. /\ pc[r] = "monitor_receipt" /\ pc' = [pc EXCEPT ![r] = "END"]
        /\ \/ UNCHANGED execution_result /\ HasResult(r)
           \/ \E status \in receipt_statuses(r) \cup {"failed"} :
                 execution_result' = [execution_result EXCEPT ![r] =
                                        ExecutionResult(status, tx_hash[r])]
    BY <1>7 DEF monitor_receipt
  <2>2. receipt_statuses(r) \cup {"failed"} \subseteq {"pending", "confirmed", "failed"}
    BY DEF receipt_statuses
  <2>3. tx_hash[r] \in Runs \cup {None}
    BY DEF TypeOK
  <2> QED BY <1>a, <2>1, <2>2, <2>3 DEF Early, Refusing, HasResult, ExecutionStatus
<1>8. CASE reject_transaction(r)
  <2>1. /\ pc[r] = "reject_transaction" /\ pc' = [pc EXCEPT ![r] = "END"]
        /\ UNCHANGED <<signed_transaction, chain>>
        /\ \/ UNCHANGED execution_result /\ HasResult(r)
           \/ execution_result' = [execution_result EXCEPT ![r] = ExecutionResult("rejected", None)]
    BY <1>8 DEF reject_transaction
  <2> QED BY <1>a, <2>1 DEF Early, Refusing, HasResult, ExecutionStatus
<1> QED BY <1>b, <1>1, <1>2, <1>3, <1>4, <1>5, <1>6, <1>7, <1>8 DEF Step

\* Every node preserves NodeInv.
LEMMA NodeStep ==
    ASSUME IInv, PhaseInv, NodeInv, [JunoNext]_all_vars
    PROVE  NodeInv'
<1> USE DEF IInv
<1>1. ASSUME UNCHANGED <<pc, execution_result, signed_transaction>> PROVE NodeInv'
  BY <1>1 DEF NodeInv, NodeOf, HasResult
<1>2. ASSUME NEW r \in Runs, graph_node(r) PROVE NodeInv'
  <2>1. \A q \in Runs \ {r} : /\ pc'[q] = pc[q] /\ execution_result'[q] = execution_result[q]
                              /\ signed_transaction'[q] = signed_transaction[q]
    BY <1>2, NodeFrame
  <2>2. ASSUME NEW q \in Runs \ {r} PROVE NodeOf(q)'
    BY <2>1 DEF NodeInv, NodeOf, HasResult
  <2>3. NodeOf(r)'
    BY <1>2, NodeResults DEF NodeInv, NodeOf
  <2> QED BY <2>2, <2>3 DEF NodeInv
<1>3. ASSUME NEW r \in Runs, mercury_invoke(r) PROVE NodeInv'
  BY <1>1, <1>3, InvokeEffect DEF outcome
<1>4. ASSUME NEW r \in Runs, run_turn(r) PROVE NodeInv'
  BY <1>1, <1>4 DEF run_turn, vars, outcome
<1>5. CASE answer_prompt
  BY <1>1, <1>5 DEF answer_prompt, vars, outcome
<1>6. ASSUME NEW r \in Runs, Mine(r) PROVE NodeInv'
  BY <1>1, <1>6 DEF Mine, outcome
<1>7. CASE UNCHANGED all_vars
  BY <1>1, <1>7 DEF all_vars, vars, outcome
<1> QED BY <1>2, <1>3, <1>4, <1>5, <1>6, <1>7 DEF JunoNext

\* The inductive invariant of the tool calls: the pipeline's, and the order
\* of a call's phases.
JunoInv ==
    IInv /\ GateInv /\ ResultInv /\ HistoryInv /\ StatusInv /\ PhaseInv /\ NodeInv

\* It holds initially.
LEMMA JunoInitial == JunoInit => JunoInv
<1> SUFFICES ASSUME JunoInit PROVE JunoInv
  OBVIOUS
<1>1. IInv /\ ResultInv /\ HistoryInv /\ GateInv
  BY InvInit, ResultInit, HistoryInit, GateInit DEF JunoInit
<1>2. StatusInv /\ NodeInv
  BY DEF JunoInit, Init, StoreInit, Absent, NoResult, StatusInv, Placed, NodeInv, NodeOf
<1>3. PhaseInv
  BY DEF JunoInit, Init, PhaseInv, PhaseOf, NoAnswer
<1> QED BY <1>1, <1>2, <1>3 DEF JunoInv

\* Every step preserves it.
LEMMA JunoStep == JunoInv /\ [JunoNext]_all_vars => JunoInv'
<1> SUFFICES ASSUME JunoInv, [JunoNext]_all_vars PROVE JunoInv'
  OBVIOUS
<1>1. PipelineStep /\ PhaseInv'
  BY JunoPipelineStep, PhaseStep DEF JunoInv, IInv
<1>2. IInv' /\ GateInv'
  BY <1>1, InvStep, GateStep DEF JunoInv, IInv
<1>3. ResultInv' /\ HistoryInv' /\ StatusInv'
  BY <1>1, ResultStep, HistoryStep, StatusStep DEF JunoInv
<1>4. NodeInv'
  BY NodeStep DEF JunoInv
<1> QED BY <1>1, <1>2, <1>3, <1>4 DEF JunoInv

-----------------------------------------------------------------------------
(* Submitted only if tapped.                                               *)

\* The request of the run came from a call.
Called(r) == phase[r] = "graph" \/ pc[r] # "prepare_transaction"

\* An approval names the key it was given for, in the session and in the
\* requests made from it.
TapInv ==
    /\ approval_response.status = "approved" =>
          approval_response.idempotency_key \in tapped \ {None}
    /\ \A r \in Runs :
          Called(r) /\ request[r].approval_response.status = "approved" =>
              request[r].approval_response.idempotency_key \in tapped \ {None}

\* The user's answers are given for a key, and the approval of a call is the
\* session's.
AnswersNameTheirKey ==
    /\ \A raw \in RawApprovals :
          raw.form # "text" /\ (raw.status = "approved" => raw.idempotency_key # None)
    /\ \A i \in Intents : i.metadata = None

\* Every step keeps what the session and the requests say of the user.
LEMMA TapStep ==
    ASSUME AnswersNameTheirKey, TypeOK, PhaseInv, TapInv, [JunoNext]_all_vars
    PROVE  TapInv'
<1>1. ASSUME NEW r \in Runs, mercury_invoke(r) PROVE TapInv'
  <2> DEFINE response == _normalize_approval_response(approval_response)
  <2>1. /\ UNCHANGED <<pc, approval_response, tapped>>
        /\ phase[r] = "idle" /\ pc[r] = "prepare_transaction"
        /\ \/ UNCHANGED request /\ phase' = [phase EXCEPT ![r] = "done"]
           \/ /\ phase' = [phase EXCEPT ![r] = "graph"]
              /\ \E i \in Intents : request' = [request EXCEPT ![r] =
                     _intent_with_boundary_fields(i, session_wallet, response)]
    BY <1>1, InvokeEffect DEF user
  <2>2. response.status = "approved" => response.idempotency_key \in tapped \ {None}
    <3>1. /\ approval_response.form \in {"none", "object", "prefix"}
          /\ approval_response \in RawApprovals \cup {NoAnswer}
      BY JunoAssumption DEF PhaseInv, AnswersNameTheirKey, RawApproval, NoAnswer
    <3> QED BY <3>1 DEF TapInv, _normalize_approval_response, NoResponse
  <2> HIDE DEF response
  <2>3. \A i \in Intents :
           _intent_with_boundary_fields(i, session_wallet, response).approval_response = response
    BY DEF AnswersNameTheirKey, _intent_with_boundary_fields
  <2>4. \A q \in Runs \ {r} : request'[q] = request[q] /\ phase'[q] = phase[q]
    BY <2>1 DEF TypeOK, PhaseInv
  <2>5. phase'[r] = "graph" => request'[r].approval_response = response
    BY <2>1, <2>3 DEF TypeOK, PhaseInv
  <2> QED BY <2>1, <2>2, <2>4, <2>5 DEF TapInv, Called
<1>2. ASSUME NEW r \in Runs, graph_node(r) PROVE TapInv'
  <2>1. /\ UNCHANGED <<request, approval_response, tapped, phase>> /\ phase[r] = "graph"
        /\ \A q \in Runs \ {r} : pc'[q] = pc[q]
    BY <1>2, NodeFrame DEF user
  <2> QED BY <2>1 DEF TapInv, Called
<1>3. ASSUME NEW r \in Runs, run_turn(r) PROVE TapInv'
  <2>1. /\ UNCHANGED <<request, approval_response, tapped, pc>> /\ pc[r] = "END"
        /\ phase' = [phase EXCEPT ![r] = "done"]
    BY <1>3 DEF run_turn, At, vars, user, Set
  <2> QED BY <2>1 DEF TapInv, Called, PhaseInv
<1>4. CASE answer_prompt
  <2>1. PICK raw \in RawApprovals :
          /\ approval_response' = raw
          /\ tapped' = IF raw.status = "approved" THEN tapped \cup {raw.idempotency_key}
                       ELSE tapped
          /\ UNCHANGED <<request, pc, phase>>
    BY <1>4 DEF answer_prompt, vars
  <2> QED BY <2>1 DEF TapInv, Called, AnswersNameTheirKey
<1>5. ASSUME UNCHANGED <<request, pc, phase, approval_response, tapped>> PROVE TapInv'
  BY <1>5 DEF TapInv, Called
<1>6. ASSUME NEW r \in Runs, Mine(r), UNCHANGED juno_vars PROVE TapInv'
  BY <1>5, <1>6 DEF Mine, juno_vars, user
<1>7. CASE UNCHANGED all_vars
  BY <1>5, <1>7 DEF all_vars, vars, juno_vars, user
<1> QED BY <1>1, <1>2, <1>3, <1>4, <1>6, <1>7 DEF JunoNext

\* If the session's answers name the key they were given for and intents
\* bring no approval of their own, nothing that moves value is submitted
\* under a key the user never approved, however calls overlap and whichever
\* stale answers the session still holds.
THEOREM TappedOnly ==
    ASSUME AnswersNameTheirKey
    PROVE  JunoSpec => []SubmittedOnlyIfTapped
<1>1. JunoInit => TapInv
  BY DEF JunoInit, Init, TapInv, Called
<1>2. JunoInv /\ TapInv /\ [JunoNext]_all_vars => TapInv'
  BY TapStep DEF JunoInv, IInv
<1>3. JunoInv /\ TapInv => SubmittedOnlyIfTapped
  <2> SUFFICES ASSUME JunoInv, TapInv, NEW r \in Runs, chain[r] # "absent",
                      is_value_moving(request[r].tx)
               PROVE  key(r) \in tapped
    BY DEF SubmittedOnlyIfTapped
  <2>1. GateOf(r)
    BY DEF JunoInv, GateInv
  <2>2. Consented(r) /\ pc[r] \in {"monitor_receipt", "END"}
    BY <2>1 DEF GateOf
  <2>3. /\ request[r].approval_response.status = "approved"
        /\ request[r].approval_response.idempotency_key \in {None, key(r)}
    BY <2>2 DEF Consented
  <2> QED BY <2>2, <2>3 DEF TapInv, Called
<1> QED BY <1>1, <1>2, <1>3, JunoInitial, JunoStep, PTL DEF JunoSpec

-----------------------------------------------------------------------------
(* The codes of the errors.                                                *)

\* Only the approval node says approval_denied; the rest of the codes.
OtherCodes == (Codes \ {"approval_denied"}) \cup {None}

\* A denied approval has a code, and the code of a denied approval is only
\* given to runs that are refused before anything was signed.
CodeOf(r) ==
    /\ execution_result[r].status = "approval_denied" => result_error[r] # None
    /\ result_error[r] = "approval_denied" =>
          pc[r] \in Refusing /\ ~signed_transaction[r] /\ chain[r] = "absent"

CodeInv ==
    /\ state_error \in [Runs -> OtherCodes]
    /\ record_error \in [Keys -> OtherCodes]
    /\ result_error \in [Runs -> Codes \cup {None}]
    /\ \A r \in Runs : CodeOf(r)

\* The kind of an exception never is a denied approval.
LEMMA NormalizedCodes ==
    /\ \A x : normalize_exception(x, None) \in OtherCodes
    /\ \A x : normalize_exception(x, "signing_failed") \in OtherCodes
    /\ \A x : normalize_exception(x, "broadcast_failed") \in OtherCodes
    /\ normalize_exception("ValidationError", None) = "validation_failed"
BY DEF normalize_exception, OtherCodes, Codes, Retryable, Final

\* A node gives its run the code approval_denied only as the approval node,
\* or when the run has it already.
LEMMA NewCodes ==
    ASSUME IInv, StatusInv, CodeInv, NEW r \in Runs, graph_node(r), NEW code \in result_errors(r)
    PROVE  /\ execution_result'[r] = execution_result[r] => code = result_error[r]
           /\ execution_result'[r] # execution_result[r] /\ pc[r] # "request_approval" =>
                 /\ code \in OtherCodes
                 /\ execution_result'[r].status # "approval_denied"
           /\ execution_result'[r] # execution_result[r] /\ pc[r] = "request_approval" =>
                 code \in {"validation_failed", "approval_denied"}
<1>1. CASE execution_result'[r] = execution_result[r]
  BY <1>1 DEF result_errors
<1>2. CASE execution_result'[r] # execution_result[r]
  <2>1. /\ state_error[r] \in OtherCodes
        /\ \A k \in Keys : record_error[k] \in OtherCodes
                         /\ records[k].result.status # "approval_denied"
    BY DEF CodeInv, StatusInv
  <2>2. /\ key(r) \in Keys \cup {None}
        /\ \A status \in {"rejected", "failed"} :
              ExecutionResult(status, None).status # "approval_denied"
        /\ {None, "idempotency_conflict", "policy_rejected"} \subseteq OtherCodes
    BY RequestType DEF IInv, ExecutionResult, OtherCodes, Codes, Retryable, Final
  <2>3. CASE pc[r] = "request_approval"
    BY <1>2, <2>3, NormalizedCodes DEF result_errors, At
  <2>4. CASE pc[r] = "check_idempotency"
    <3>1. code \in OtherCodes
      BY <1>2, <2>1, <2>2, <2>4, NormalizedCodes DEF result_errors, At
    <3> QED BY <1>2, <2>1, <2>2, <2>4, <3>1, NodeResults
  <2>5. CASE pc[r] \in {"sign_transaction", "broadcast_transaction"}
    <3>1. code \in OtherCodes
      BY <1>2, <2>5, NormalizedCodes DEF result_errors, At
    <3> QED BY <1>2, <2>2, <2>5, <3>1, NodeResults
  <2>6. CASE pc[r] = "monitor_receipt"
    <3>1. code \in OtherCodes
      BY <1>2, <2>2, <2>6, NormalizedCodes DEF result_errors, At
    <3> QED BY <1>2, <2>6, <3>1, NodeResults
  <2>7. CASE pc[r] = "reject_transaction"
    <3>1. code \in OtherCodes
      BY <1>2, <2>1, <2>2, <2>7 DEF result_errors, At
    <3> QED BY <1>2, <2>2, <2>7, <3>1, NodeResults
  <2> QED BY <1>2, <2>3, <2>4, <2>5, <2>6, <2>7, NodeResults
<1> QED BY <1>1, <1>2

\* Whoever completes a record had no result before, so the stored code is
\* that of the new result.
LEMMA StoredCodes ==
    ASSUME IInv, NEW r \in Runs, graph_node(r), NEW k \in Keys, k = key(r),
           records'[k] # records[k], records'[k].status = "completed"
    PROVE  execution_result'[r] # execution_result[r] /\ pc[r] # "request_approval"
<1>1. Step(r)
  BY DEF graph_node, prepare_transaction
<1>2. Effect(r)
  BY <1>1, EffectOfStep DEF IInv
<1>3. Acts(r) /\ (Reserves(r) \/ Releases(r) \/ Settles(r))
  BY <1>2 DEF Effect, Idles, Submits, Reserves, Releases, Settles
<1>4. records'[k] \in {InFlight, Absent} \/ Settles(r)
  BY <1>3, RecordEffect DEF IInv
<1>5. Settles(r)
  BY <1>4 DEF InFlight, Absent
<1>6. Holds(r, k)
  BY <1>5 DEF Settles
<1>7. execution_result[r] = NoResult /\ pc[r] \in Owning
  BY <1>6 DEF Holds, HasResult, Owning
<1>8. execution_result'[r] # NoResult
  BY <1>5, ResultType DEF Settles, ExecutionStatus
<1> QED BY <1>7, <1>8 DEF Owning

\* Only the run of a node submits.
LEMMA ChainKept ==
    ASSUME TypeOK, NEW r \in Runs, graph_node(r), NEW q \in Runs \ {r}, chain[q] = "absent"
    PROVE  chain'[q] = "absent"
BY DEF graph_node, Step, prepare_transaction, resolve_nonce, populate_gas,
   simulate_transaction, evaluate_policy, request_approval, check_idempotency,
   sign_transaction, broadcast_transaction, monitor_receipt, reject_transaction,
   Accept, Occupies, OnChain

\* Every step preserves CodeInv.
LEMMA CodeStep ==
    ASSUME JunoInv, CodeInv, [JunoNext]_all_vars
    PROVE  CodeInv'
<1> USE DEF JunoInv
<1>a. /\ state_error \in [Runs -> OtherCodes] /\ record_error \in [Keys -> OtherCodes]
      /\ result_error \in [Runs -> Codes \cup {None}] /\ \A q \in Runs : CodeOf(q)
  BY DEF CodeInv
<1>b. PipelineStep /\ TypeOK /\ ControlInv
  BY JunoPipelineStep DEF IInv
<1>1. ASSUME UNCHANGED <<pc, execution_result, signed_transaction, errors>>,
             \A q \in Runs : chain[q] = "absent" => chain'[q] = "absent"
      PROVE  CodeInv'
  BY <1>a, <1>1 DEF CodeInv, CodeOf, errors
<1>2. ASSUME NEW r \in Runs, graph_node(r) PROVE CodeInv'
  <2>1. PICK code \in result_errors(r) :
          /\ result_error' = [result_error EXCEPT ![r] = code]
          /\ record_error' =
                [k \in Keys |-> IF k = key(r) /\ records'[k] # records[k]
                                   /\ records'[k].status = "completed"
                                THEN code ELSE record_error[k]]
    BY <1>2 DEF graph_node, Set
  <2>2. /\ execution_result'[r] = execution_result[r] => code = result_error[r]
        /\ execution_result'[r] # execution_result[r] /\ pc[r] # "request_approval" =>
              code \in OtherCodes /\ execution_result'[r].status # "approval_denied"
        /\ execution_result'[r] # execution_result[r] /\ pc[r] = "request_approval" =>
              code \in {"validation_failed", "approval_denied"}
    BY <1>2, NewCodes
  <2>3. OtherCodes \subseteq Codes \cup {None} /\ "approval_denied" \notin OtherCodes
    BY BoundaryAssumption DEF OtherCodes, Codes, Final
  <2>4. {"validation_failed", "approval_denied"} \subseteq Codes /\ None \notin Codes
    BY BoundaryAssumption DEF Codes, Final
  <2>5. state_error' \in [Runs -> OtherCodes]
    <3>1. state_errors(r) \subseteq OtherCodes
      BY <1>a, NormalizedCodes DEF state_errors
    <3> QED BY <1>a, <1>2, <3>1 DEF graph_node, Set
  <2>6. result_error' \in [Runs -> Codes \cup {None}]
    BY <1>a, <2>1, <2>2, <2>3, <2>4
  <2>7. record_error' \in [Keys -> OtherCodes]
    <3>1. ASSUME NEW k \in Keys PROVE record_error'[k] \in OtherCodes
      BY <1>a, <1>2, <2>1, <2>2, StoredCodes
    <3> QED BY <2>1, <3>1
  <2>8. ASSUME NEW q \in Runs \ {r} PROVE CodeOf(q)'
    <3>1. /\ pc'[q] = pc[q] /\ execution_result'[q] = execution_result[q]
          /\ signed_transaction'[q] = signed_transaction[q]
      BY <1>2, <1>b, NodeFrame
    <3>2. result_error'[q] = result_error[q]
      BY <1>a, <2>1
    <3>3. pc[q] \in Refusing /\ chain[q] = "absent" => chain'[q] = "absent"
      BY <1>2, <1>b, ChainKept
    <3> QED BY <1>a, <3>1, <3>2, <3>3 DEF CodeOf
  <2>9. CodeOf(r)'
    <3>1. result_error'[r] = code
      BY <1>a, <2>1
    <3>2. CASE execution_result'[r] = execution_result[r]
      <4>1. pc[r] \in Refusing => pc'[r] \in Refusing /\ UNCHANGED <<signed_transaction, chain>>
        BY <1>2, NodeResults
      <4> QED BY <1>a, <2>2, <3>1, <3>2, <4>1 DEF CodeOf
    <3>3. CASE execution_result'[r] # execution_result[r] /\ pc[r] # "request_approval"
      BY <2>2, <2>3, <3>1, <3>3 DEF CodeOf
    <3>4. CASE execution_result'[r] # execution_result[r] /\ pc[r] = "request_approval"
      <4>1. pc'[r] = "reject_transaction" /\ UNCHANGED <<signed_transaction, chain>>
        BY <1>2, <3>4, NodeResults
      <4>2. ~signed_transaction[r] /\ chain[r] = "absent"
        BY <1>b, <3>4 DEF NodeInv, NodeOf, Early, ControlInv, ControlOf, Sent
      <4> QED BY <2>2, <2>4, <3>1, <3>4, <4>1, <4>2 DEF CodeOf, Refusing
    <3> QED BY <3>2, <3>3, <3>4
  <2> QED BY <2>5, <2>6, <2>7, <2>8, <2>9 DEF CodeInv
<1>3. ASSUME NEW r \in Runs, mercury_invoke(r) PROVE CodeInv'
  BY <1>1, <1>3, <1>b, InvokeEffect DEF outcome
<1>4. ASSUME NEW r \in Runs, run_turn(r) PROVE CodeInv'
  BY <1>1, <1>4 DEF run_turn, vars, outcome
<1>5. CASE answer_prompt
  BY <1>1, <1>5 DEF answer_prompt, vars, outcome
<1>6. ASSUME NEW r \in Runs, Mine(r), UNCHANGED juno_vars PROVE CodeInv'
  <2>1. \A q \in Runs : chain[q] = "absent" => chain'[q] = "absent"
    BY <1>6, <1>b DEF Mine, TypeOK
  <2> QED BY <1>1, <1>6, <2>1 DEF Mine, outcome, juno_vars
<1>7. CASE UNCHANGED all_vars
  BY <1>1, <1>7 DEF all_vars, vars, outcome, juno_vars
<1> QED BY <1>2, <1>3, <1>4, <1>5, <1>6, <1>7 DEF JunoNext

-----------------------------------------------------------------------------
(* The answers of the calls.                                               *)

\* A success is the stored result of a transaction that was submitted under
\* the key of the call.
Recorded(r, h, k) ==
    /\ key(r) = k
    /\ SubmittedUnder(h, k)
    /\ records[k] \in {Completed(ExecutionResult(s, h)) : s \in {"pending", "confirmed"}}

TurnOf(r) ==
    /\ turn_result[r].kind = "success" =>
          \E h \in Runs, k \in Keys : turn_result[r].tx_hash = h /\ Recorded(r, h, k)
    /\ turn_result[r].code = "approval_denied" => result_error[r] = "approval_denied"

TurnInv == \A r \in Runs : TurnOf(r)

\* An answered call is over.
LEMMA DoneKept ==
    ASSUME JunoInv, CodeInv, [JunoNext]_all_vars, NEW q \in Runs, phase[q] = "done"
    PROVE  /\ request'[q] = request[q] /\ turn_result'[q] = turn_result[q]
           /\ result_error'[q] = result_error[q]
<1> USE DEF JunoInv, IInv
<1>1. ASSUME NEW r \in Runs, mercury_invoke(r)
      PROVE  /\ request'[q] = request[q] /\ turn_result'[q] = turn_result[q]
             /\ result_error'[q] = result_error[q]
  <2>1. /\ phase[r] = "idle" /\ UNCHANGED errors
        /\ UNCHANGED request \/ \E x : request' = [request EXCEPT ![r] = x]
        /\ UNCHANGED turn_result \/ \E x : turn_result' = [turn_result EXCEPT ![r] = x]
    BY <1>1, InvokeEffect
  <2>2. turn_result = [p \in Runs |-> turn_result[p]] /\ request \in [Runs -> Requests]
    BY DEF PhaseInv, TypeOK
  <2> QED BY <2>1, <2>2 DEF errors
<1>2. ASSUME NEW r \in Runs, graph_node(r)
      PROVE  /\ request'[q] = request[q] /\ turn_result'[q] = turn_result[q]
             /\ result_error'[q] = result_error[q]
  <2>1. UNCHANGED <<request, turn_result>> /\ phase[r] = "graph"
    BY <1>2, NodeFrame
  <2>2. \E code : result_error' = [result_error EXCEPT ![r] = code]
    BY <1>2 DEF graph_node, Set
  <2> QED BY <2>1, <2>2 DEF CodeInv
<1>3. ASSUME NEW r \in Runs, run_turn(r)
      PROVE  /\ request'[q] = request[q] /\ turn_result'[q] = turn_result[q]
             /\ result_error'[q] = result_error[q]
  BY <1>3 DEF run_turn, vars, errors, Set, PhaseInv
<1>4. CASE answer_prompt
  BY <1>4 DEF answer_prompt, vars, errors
<1>5. ASSUME NEW r \in Runs, Mine(r), UNCHANGED juno_vars
      PROVE  /\ request'[q] = request[q] /\ turn_result'[q] = turn_result[q]
             /\ result_error'[q] = result_error[q]
  BY <1>5 DEF Mine, juno_vars, errors
<1>6. CASE UNCHANGED all_vars
  BY <1>6 DEF all_vars, vars, juno_vars, errors
<1> QED BY <1>1, <1>2, <1>3, <1>4, <1>5, <1>6 DEF JunoNext

\* What the boundary and the runner make of a finished run.
LEMMA AnswerOfRun ==
    ASSUME JunoInv, CodeInv, NEW r \in Runs, pc[r] = "END",
           NEW answer, answer = _local_response_to_result(_response_from_state(r))
    PROVE  /\ answer.kind = "success" =>
                 /\ answer.tx_hash = execution_result[r].tx_hash
                 /\ execution_result[r].status \in {"pending", "confirmed"}
           /\ answer.code = "approval_denied" => result_error[r] = "approval_denied"
<1> DEFINE response == _response_from_state(r)
<1>1. HasResult(r)
  BY DEF JunoInv, NodeInv, NodeOf
<1>2. /\ response.error = result_error[r] /\ response.tx_hash = execution_result[r].tx_hash
      /\ \/ response.status = "approval_required"
         \/ response.status = execution_result[r].status
  BY <1>1 DEF _response_from_state
<1>3. /\ execution_result[r].status \in ExecutionStatus
      /\ execution_result[r].status = "approval_denied" => result_error[r] # None
  BY <1>1 DEF JunoInv, IInv, TypeOK, Result, HasResult, CodeInv, CodeOf
<1>4. None # "approval_denied"
  BY BoundaryAssumption DEF Codes, Final
<1> HIDE DEF response
<1>5. answer = _local_response_to_result(response)
  BY DEF response
<1>6. CASE response.error # None
  BY <1>2, <1>5, <1>6 DEF _local_response_to_result, agent_error
<1>7. CASE response.error = None /\ response.status \in {"failed", "rejected"}
  BY <1>2, <1>4, <1>5, <1>7 DEF _local_response_to_result, agent_error
<1>8. CASE response.error = None /\ response.status \notin {"failed", "rejected"}
  <2>1. answer = parse_mercury_body(response)
    BY <1>5, <1>8 DEF _local_response_to_result
  <2>2. /\ answer.kind = "success" => response.status # "approval_required"
        /\ answer.code = None /\ answer.tx_hash = response.tx_hash
    BY <2>1 DEF parse_mercury_body
  <2> QED BY <1>2, <1>3, <1>4, <1>8, <2>2 DEF ExecutionStatus
<1> QED BY <1>6, <1>7, <1>8

\* Every step keeps the answers true.
LEMMA TurnStep ==
    ASSUME JunoInv, JunoInv', CodeInv, TurnInv, [JunoNext]_all_vars
    PROVE  TurnInv'
<1> SUFFICES ASSUME NEW q \in Runs PROVE TurnOf(q)'
  BY DEF TurnInv
<1> USE DEF JunoInv, IInv
<1>a. PipelineStep
  BY JunoPipelineStep
<1>b. PhaseOf(q) /\ PhaseOf(q)' /\ TurnOf(q)
  BY DEF PhaseInv, TurnInv
<1>1. CASE phase[q] = "done"
  <2>1. /\ request'[q] = request[q] /\ turn_result'[q] = turn_result[q]
        /\ result_error'[q] = result_error[q]
    BY <1>1, DoneKept
  <2>2. ASSUME NEW h \in Runs, NEW k \in Keys, Recorded(q, h, k)
        PROVE  Recorded(q, h, k)'
    <3>1. SubmittedUnder(h, k)'
      BY <1>a, <2>2, SubmittedStep DEF Recorded
    <3>2. records[k].status = "completed"
      BY <2>2 DEF Recorded, Completed
    <3>3. records'[k] = records[k]
      BY <1>a, <3>2, CompletedStep
    <3> QED BY <2>1, <2>2, <3>1, <3>3 DEF Recorded, key
  <2> QED BY <1>b, <2>1, <2>2 DEF TurnOf
<1>2. CASE turn_result'[q] = NoTurn
  <2>1. None # "approval_denied"
    BY BoundaryAssumption DEF Codes, Final
  <2> QED BY <1>2, <2>1 DEF TurnOf, NoTurn
<1>3. ASSUME NEW code \in {None, "validation_error", "validation_failed"},
             turn_result'[q] = agent_error(code)
      PROVE  TurnOf(q)'
  <2>1. None # "approval_denied"
    BY BoundaryAssumption DEF Codes, Final
  <2> QED BY <1>3, <2>1 DEF TurnOf, agent_error
<1>4. CASE run_turn(q)
  <2>1. /\ pc[q] = "END" /\ UNCHANGED <<vars, errors>>
        /\ turn_result' = [turn_result EXCEPT ![q] =
                             _local_response_to_result(_response_from_state(q))]
    BY <1>4 DEF run_turn, At, Set
  <2>2. turn_result'[q] = _local_response_to_result(_response_from_state(q))
    BY <2>1 DEF PhaseInv
  <2>3. /\ turn_result'[q].kind = "success" =>
              /\ turn_result'[q].tx_hash = execution_result[q].tx_hash
              /\ execution_result[q].status \in {"pending", "confirmed"}
        /\ turn_result'[q].code = "approval_denied" => result_error[q] = "approval_denied"
    BY <2>1, <2>2, AnswerOfRun
  <2>4. ASSUME turn_result'[q].kind = "success"
        PROVE  \E h \in Runs, k \in Keys : turn_result'[q].tx_hash = h /\ Recorded(q, h, k)
    <3>1. execution_result[q].tx_hash # None
      BY <2>3, <2>4 DEF StatusInv, Placed
    <3>2. key(q) \in Keys /\ records[key(q)] = Completed(execution_result[q])
      BY <3>1 DEF ResultInv, ResultOf
    <3>3. records[key(q)].result = execution_result[q]
      BY <3>2 DEF Completed
    <3>4. SubmittedUnder(execution_result[q].tx_hash, key(q))
      BY <3>1, <3>2, <3>3 DEF HistoryInv
    <3>5. PICK s \in {"pending", "confirmed"}, h \in Runs :
             execution_result[q] = ExecutionResult(s, h) /\ h = execution_result[q].tx_hash
      <4>1. execution_result[q] \in Result
        BY <2>3, <2>4 DEF TypeOK, NoResult
      <4>2. execution_result[q] = ExecutionResult(execution_result[q].status,
                                                  execution_result[q].tx_hash)
        BY <4>1 DEF Result, ExecutionResult
      <4> QED BY <2>3, <2>4, <3>4, <4>2 DEF SubmittedUnder
    <3>6. Recorded(q, h, key(q))
      BY <3>2, <3>4, <3>5 DEF Recorded
    <3> QED BY <2>3, <2>4, <3>2, <3>5, <3>6
  <2>5. \A h \in Runs, k \in Keys : Recorded(q, h, k) => Recorded(q, h, k)'
    BY <2>1 DEF Recorded, SubmittedUnder, key, vars, outcome
  <2> QED BY <2>1, <2>3, <2>4, <2>5 DEF TurnOf, errors
<1>5. CASE phase[q] # "done" /\ phase'[q] = "done"
  <2>1. ASSUME NEW r \in Runs, mercury_invoke(r) PROVE TurnOf(q)'
    <3>1. \/ phase' = [phase EXCEPT ![r] = "graph"]
          \/ /\ phase' = [phase EXCEPT ![r] = "done"]
             /\ \E code \in {None, "validation_error", "validation_failed"} :
                   turn_result' = [turn_result EXCEPT ![r] = agent_error(code)]
      BY <2>1, InvokeEffect
    <3>2. /\ q = r
          /\ \E code \in {None, "validation_error", "validation_failed"} :
                turn_result'[q] = agent_error(code)
      BY <1>5, <3>1 DEF PhaseInv
    <3> QED BY <1>3, <3>2
  <2>2. ASSUME NEW r \in Runs, graph_node(r) PROVE FALSE
    BY <1>5, <2>2, NodeFrame
  <2>3. ASSUME NEW r \in Runs, run_turn(r) PROVE TurnOf(q)'
    <3>1. q = r
      BY <1>5, <2>3 DEF run_turn, Set, PhaseInv
    <3> QED BY <1>4, <2>3, <3>1
  <2>4. answer_prompt \/ UNCHANGED juno_vars \/ UNCHANGED all_vars => phase' = phase
    BY DEF answer_prompt, juno_vars, all_vars
  <2> QED BY <1>5, <2>1, <2>2, <2>3, <2>4 DEF JunoNext
<1>6. CASE phase'[q] # "done"
  BY <1>2, <1>6, <1>b DEF PhaseOf, NoTurn
<1> QED BY <1>1, <1>5, <1>6

\* The invariants about the answers hold of the tool calls.
LEMMA AnswersInvariance == JunoSpec => [](JunoInv /\ CodeInv /\ TurnInv)
<1>1. JunoInit => CodeInv /\ TurnInv
  <2> SUFFICES ASSUME JunoInit PROVE CodeInv /\ TurnInv
    OBVIOUS
  <2>1. None # "approval_denied" /\ None \in OtherCodes
    BY BoundaryAssumption DEF Codes, Final, OtherCodes
  <2>2. CodeInv
    BY <2>1 DEF JunoInit, Init, CodeInv, CodeOf, NoResult
  <2>3. TurnInv
    BY <2>1 DEF JunoInit, TurnInv, TurnOf, NoTurn
  <2> QED BY <2>2, <2>3
<1>2. JunoInv /\ CodeInv /\ [JunoNext]_all_vars => CodeInv'
  BY CodeStep
<1>3. JunoInv /\ JunoInv' /\ CodeInv /\ TurnInv /\ [JunoNext]_all_vars => TurnInv'
  BY TurnStep
<1> QED BY <1>1, <1>2, <1>3, JunoInitial, JunoStep, PTL DEF JunoSpec

\* A call that answers success names a transaction that the chain accepted
\* under the key of the call and that the store keeps as pending or
\* confirmed, for any calls, retries and failures: the status and the error
\* object between them hide no failed or unfinished run.
THEOREM SuccessIsReal == JunoSpec => []SuccessIsOnChain
<1>1. JunoInv /\ TurnInv => SuccessIsOnChain
  <2> SUFFICES ASSUME JunoInv, TurnInv, NEW r \in Runs, turn_result[r].kind = "success"
               PROVE  /\ turn_result[r].tx_hash # None
                      /\ key(turn_result[r].tx_hash) = key(r)
                      /\ records[key(r)] \in
                            {Completed(ExecutionResult(s, turn_result[r].tx_hash)) :
                                s \in {"pending", "confirmed"}}
                      /\ chain[turn_result[r].tx_hash] # "absent"
    BY DEF SuccessIsOnChain, Answered
  <2>1. PICK h \in Runs, k \in Keys : turn_result[r].tx_hash = h /\ Recorded(r, h, k)
    BY DEF TurnInv, TurnOf
  <2>2. h # None /\ tx_hash[h] = h /\ key(h) = k /\ key(r) = k
    BY <2>1, NoneAssumption DEF Recorded, SubmittedUnder
  <2>3. chain[h] # "absent"
    BY <2>2 DEF JunoInv, HistoryInv, Sent
  <2> QED BY <2>1, <2>2, <2>3 DEF Recorded
<1> QED BY <1>1, AnswersInvariance, PTL

\* A call that answers with an error is safe to retry, as long as a failed
\* broadcast means that nothing was submitted: if its transaction was
\* accepted after all, its key is completed with that transaction; and the
\* code approval_denied means that nothing was signed.
THEOREM RetriesAreSafe ==
    ASSUME "lost_reply" \notin Faults
    PROVE  JunoSpec => []ErrorsAreSafeToRetry
<1>1. JunoInit => SubmitInv
  BY DEF JunoInit, Init, SubmitInv, Sent
<1>2. JunoInv /\ SubmitInv /\ [JunoNext]_all_vars => SubmitInv'
  BY JunoPipelineStep, SubmitStep DEF JunoInv, IInv
<1>3. JunoInv /\ CodeInv /\ TurnInv /\ SubmitInv => ErrorsAreSafeToRetry
  <2> SUFFICES ASSUME JunoInv, CodeInv, TurnInv, SubmitInv, NEW r \in Runs,
                      turn_result[r].kind = "agent_error"
               PROVE  /\ chain[r] # "absent" =>
                            /\ records[key(r)].status = "completed"
                            /\ records[key(r)].result.tx_hash = r
                      /\ turn_result[r].code = "approval_denied" =>
                            ~signed_transaction[r] /\ chain[r] = "absent"
    BY DEF ErrorsAreSafeToRetry, Answered
  <2>1. turn_result[r].code = "approval_denied" => ~signed_transaction[r] /\ chain[r] = "absent"
    BY DEF TurnInv, TurnOf, CodeInv, CodeOf
  <2>2. ASSUME chain[r] # "absent"
        PROVE  /\ records[key(r)].status = "completed"
               /\ records[key(r)].result.tx_hash = r
    <3>1. pc[r] \in {"prepare_transaction", "END"}
      BY DEF JunoInv, PhaseInv, PhaseOf, NoTurn
    <3>2. ~Holds(r, key(r))
      BY <3>1 DEF Holds
    <3>3. tx_hash[r] = r /\ r # None
      BY <2>2, NoneAssumption DEF SubmitInv, Sent
    <3>4. HashOf(r)
      BY DEF JunoInv, IInv, HashInv
    <3> QED BY <3>2, <3>3, <3>4 DEF HashOf
  <2> QED BY <2>1, <2>2
<1> QED BY <1>1, <1>2, <1>3, AnswersInvariance, PTL DEF JunoSpec

\* Under the same condition Juno's turns implement the abstract ledger: what
\* surrounds the graph neither claims nor settles a key.
THEOREM TurnsImplementLedger ==
    ASSUME "lost_reply" \notin Faults
    PROVE  JunoSpec => ImplementsIdempotentExecution
<1>1. JunoInv /\ JunoInv' /\ [JunoNext]_all_vars => [Abstract!Next]_(Abstract!vars)
  BY JunoPipelineStep, RefineStep DEF JunoInv, IInv
<1>2. JunoInit => Abstract!Init
  BY RefineInit DEF JunoInit
<1> QED BY <1>1, <1>2, JunoInitial, JunoStep, PTL
     DEF JunoSpec, Abstract!Spec, ImplementsIdempotentExecution

=============================================================================
