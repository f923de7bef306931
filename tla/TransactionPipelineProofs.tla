----------------------- MODULE TransactionPipelineProofs -----------------------
(***************************************************************************)
(* Theorems about TransactionPipeline, for every set of runs, keys,        *)
(* wallets and requests, every policy configuration and every choice of    *)
(* failing calls.                                                          *)
(*                                                                         *)
(* The graphs of Mercury share the pipeline and differ in the node that    *)
(* prepares the transaction.  So the steps are reasoned about as           *)
(* PipelineStep, which leaves open what the preparation does; the lemmas   *)
(* named ...Step hold of it, and the proofs about the graphs cite them.    *)
(*                                                                         *)
(* The argument: a run owns the reservation of its key from its successful *)
(* check_idempotency until it has a result.  Whatever node it executes,    *)
(* a run either leaves the store and the chain alone, reserves its key,    *)
(* submits, gives the key back or settles it (lemma EffectOfStep).  Every  *)
(* invariant is then proved once for each of these five effects.           *)
(*                                                                         *)
(* The last two sections are about the process around the pipeline and     *)
(* about the wait behind its monitor_receipt node.                         *)
(***************************************************************************)
EXTENDS PipelineRefinement, PipelineRestart, ReceiptWait, TLAPS

-----------------------------------------------------------------------------
(* The steps.                                                              *)

\* What any preparation node may do: it writes the request, the error and
\* the policy decision of its run, and nothing that other runs see.
Preparation(r) ==
    /\ At(r, "prepare_transaction")
    /\ \E n \in {"prepare_transaction", "resolve_nonce", "reject_transaction", "END"} :
          Goto(r, n)
    /\ request' \in [Runs -> Requests]
    /\ \A q \in Runs \ {r} : request'[q] = request[q]
    /\ error' \in [Runs -> BOOLEAN]
    /\ policy_decision' \in [Runs -> PolicyDecisionStatus \cup {None}]
    /\ UNCHANGED <<nonce, gas, simulation_result, approval_result, outcome, records, chain>>

PipelineStep ==
    \/ \E r \in Runs : Preparation(r) \/ Step(r) \/ Mine(r)
    \/ UNCHANGED vars

\* The preparation of TransactionPipeline is one of them.
LEMMA PipelineNext == TypeOK /\ [Next]_vars => PipelineStep
<1> SUFFICES ASSUME TypeOK, NEW r \in Runs, prepare_transaction(r) PROVE Preparation(r)
  BY DEF Next, PipelineStep, Terminated
<1>1. Goto(r, "resolve_nonce") \/ Goto(r, "reject_transaction")
  BY DEF prepare_transaction
<1>2. error' \in [Runs -> BOOLEAN]
  BY DEF prepare_transaction, Set, TypeOK
<1> QED BY <1>1, <1>2 DEF prepare_transaction, Preparation, TypeOK, checks

-----------------------------------------------------------------------------
(* Facts about the operators the actions are built from.                   *)

\* The policy engine always answers with one of its three statuses.
LEMMA EvaluateType ==
    ASSUME NEW tx, NEW simulation, NEW config
    PROVE  evaluate(tx, simulation, config) \in PolicyDecisionStatus
BY DEF evaluate, PolicyDecisionStatus

\* The router after the policy node leads to a node of the graph at which no
\* result exists yet or to reject_transaction.
LEMMA RouteType ==
    ASSUME NEW decision
    PROVE  route_after_transaction_policy(decision) \in
               {"reject_transaction", "request_approval", "check_idempotency"}
BY DEF route_after_transaction_policy

\* An approver's answer is an approval status.
LEMMA AnswerType ==
    ASSUME NEW response, NEW k
    PROVE  approver_answer(response, k) \in ApprovalStatus
BY DEF approver_answer, ApprovalStatus

\* Results the nodes build are results.
LEMMA ResultType ==
    ASSUME NEW status \in ExecutionStatus, NEW hash \in Runs \cup {None}
    PROVE  /\ ExecutionResult(status, hash) \in Result
           /\ ExecutionResult(status, hash) # NoResult
           /\ ExecutionResult(status, hash).tx_hash = hash
           /\ ExecutionResult(status, hash).status = status
BY DEF ExecutionResult, Result, NoResult, ExecutionStatus

\* A run asks for a key or for none.
LEMMA RequestType ==
    ASSUME TypeOK, NEW r \in Runs
    PROVE  /\ request[r] \in PreparedTransaction
           /\ key(r) \in Keys \cup {None}
           /\ wallet(r) \in Wallets
BY PipelineAssumption DEF TypeOK, PreparedTransaction, key, wallet

-----------------------------------------------------------------------------
(* Type correctness.                                                       *)

Record == [status : IdempotencyStatus, result : Result \cup {NoResult}]

\* The store's three operations keep its table well formed.
LEMMA StoreType ==
    ASSUME records \in [Keys -> Record], NEW k, NEW result \in Result,
           reserve(k) \/ release(k) \/ complete(k, result) \/ UNCHANGED records
    PROVE  records' \in [Keys -> Record]
<1>1. Absent \in Record /\ InFlight \in Record /\ Completed(result) \in Record
  BY DEF Absent, InFlight, Completed, Record, IdempotencyStatus
<1> QED BY <1>1 DEF reserve, release, complete

\* Every action of the graph nodes and of the chain preserves TypeOK.
LEMMA TypeStep == TypeOK /\ PipelineStep => TypeOK'
<1> SUFFICES ASSUME TypeOK, PipelineStep PROVE TypeOK'
  OBVIOUS
<1> USE DEF TypeOK, Set, Goto, checks, resolved, outcome, Nodes
<1>1. ASSUME NEW r \in Runs, Preparation(r) PROVE TypeOK'
  BY <1>1 DEF Preparation
<1>2. ASSUME NEW r \in Runs, resolve_nonce(r) PROVE TypeOK'
  <2>1. nonce' \in [Runs -> (0..MaxNonce) \cup {None}]
    BY <1>2, Zenon DEF resolve_nonce
  <2>2. error' \in [Runs -> BOOLEAN]
    BY <1>2, Zenon DEF resolve_nonce
  <2>3. pc' \in [Runs -> Nodes]
    BY <1>2, Zenon DEF resolve_nonce
  <2>4. UNCHANGED <<request, gas, checks, outcome, records, chain>>
    BY <1>2 DEF resolve_nonce
  <2> QED BY <2>1, <2>2, <2>3, <2>4
<1>3. ASSUME NEW r \in Runs, populate_gas(r) PROVE TypeOK'
  <2>1. gas' \in [Runs -> GasEstimates \cup {None}]
    BY <1>3, Zenon DEF populate_gas
  <2>2. error' \in [Runs -> BOOLEAN]
    BY <1>3, Zenon DEF populate_gas
  <2>3. pc' \in [Runs -> Nodes]
    BY <1>3, Zenon DEF populate_gas
  <2>4. UNCHANGED <<request, nonce, checks, outcome, records, chain>>
    BY <1>3 DEF populate_gas
  <2> QED BY <2>1, <2>2, <2>3, <2>4
<1>4. ASSUME NEW r \in Runs, simulate_transaction(r) PROVE TypeOK'
  BY <1>4 DEF simulate_transaction, SimulationStatus
<1>5. ASSUME NEW r \in Runs, evaluate_policy(r) PROVE TypeOK'
  <2> DEFINE decision == IF error[r] THEN "rejected"
                         ELSE evaluate(executable_transaction(r), simulation_result[r], Config)
  <2>1. decision \in PolicyDecisionStatus
    BY EvaluateType DEF PolicyDecisionStatus
  <2>2. route_after_transaction_policy(decision) \in Nodes
    BY RouteType
  <2>3. /\ policy_decision' = [policy_decision EXCEPT ![r] = decision]
        /\ pc' = [pc EXCEPT ![r] = route_after_transaction_policy(decision)]
    BY <1>5 DEF evaluate_policy
  <2> HIDE DEF decision
  <2> QED BY <1>5, <2>1, <2>2, <2>3 DEF evaluate_policy
<1>6. ASSUME NEW r \in Runs, request_approval(r) PROVE TypeOK'
  <2> DEFINE answer == IF key(r) = None THEN None
                       ELSE approver_answer(request[r].approval_response, key(r))
  <2>1. answer \in ApprovalStatus \cup {None}
    BY AnswerType
  <2>2. ExecutionResult("approval_denied", None) \in Result
    BY ResultType DEF ExecutionStatus
  <2>3. /\ approval_result' = [approval_result EXCEPT ![r] = answer]
        /\ \/ Goto(r, "check_idempotency") /\ UNCHANGED execution_result
           \/ /\ Goto(r, "reject_transaction")
              /\ execution_result' = [execution_result EXCEPT ![r] =
                                        ExecutionResult("approval_denied", None)]
    BY <1>6 DEF request_approval
  <2> HIDE DEF answer
  <2> QED BY <1>6, <2>1, <2>2, <2>3 DEF request_approval
<1>7. ASSUME NEW r \in Runs, check_idempotency(r) PROVE TypeOK'
  <2>1. ExecutionResult("rejected", None) \in Result
    BY ResultType DEF ExecutionStatus
  <2>2. ASSUME key(r) # None
        PROVE  duplicate_result(key(r)) \in Result
    BY <2>1, <2>2, RequestType DEF duplicate_result
  <2>3. records' \in [Keys -> Record]
    BY <1>7, <2>1, StoreType DEF check_idempotency, Record
  <2>4. execution_result' \in [Runs -> Result \cup {NoResult}]
    BY <1>7, <2>1, <2>2 DEF check_idempotency
  <2> QED BY <1>7, <2>3, <2>4 DEF check_idempotency, Record
<1>8. ASSUME NEW r \in Runs, sign_transaction(r) PROVE TypeOK'
  <2>1. ExecutionResult("failed", None) \in Result
    BY ResultType DEF ExecutionStatus
  <2>2. records' \in [Keys -> Record]
    BY <1>8, <2>1, StoreType DEF sign_transaction, FailBeforeBroadcast, Record
  <2>3. signed_transaction' \in [Runs -> BOOLEAN]
    BY <1>8 DEF sign_transaction
  <2>4. execution_result' \in [Runs -> Result \cup {NoResult}]
    BY <1>8, <2>1 DEF sign_transaction, FailBeforeBroadcast
  <2> QED BY <1>8, <2>2, <2>3, <2>4 DEF sign_transaction, Record
<1>9. ASSUME NEW r \in Runs, broadcast_transaction(r) PROVE TypeOK'
  <2>1. ExecutionResult("failed", None) \in Result
    BY ResultType DEF ExecutionStatus
  <2>2. records' \in [Keys -> Record]
    BY <1>9, <2>1, StoreType DEF broadcast_transaction, FailBeforeBroadcast, Record
  <2>3. chain' \in [Runs -> ChainStatus]
    BY <1>9 DEF broadcast_transaction, Accept, ChainStatus
  <2>4. execution_result' \in [Runs -> Result \cup {NoResult}]
    BY <1>9, <2>1 DEF broadcast_transaction, FailBeforeBroadcast
  <2>5. tx_hash' \in [Runs -> Runs \cup {None}]
    BY <1>9, Zenon DEF broadcast_transaction
  <2>6. pc' \in [Runs -> Nodes]
    BY <1>9, Zenon DEF broadcast_transaction
  <2>7. UNCHANGED <<request, error, resolved, checks, signed_transaction>>
    BY <1>9 DEF broadcast_transaction
  <2> QED BY <2>2, <2>3, <2>4, <2>5, <2>6, <2>7 DEF Record
<1>10. ASSUME NEW r \in Runs, monitor_receipt(r) PROVE TypeOK'
  <2>1. \A status \in ExecutionStatus : ExecutionResult(status, tx_hash[r]) \in Result
    BY ResultType
  <2>2. receipt_statuses(r) \subseteq ExecutionStatus /\ "failed" \in ExecutionStatus
    BY DEF receipt_statuses, ExecutionStatus
  <2>3. records' \in [Keys -> Record]
    BY <1>10, <2>1, <2>2, StoreType
    DEF monitor_receipt, finalize_after_monitor_failure, Record
  <2>4. execution_result' \in [Runs -> Result \cup {NoResult}]
    BY <1>10, <2>1, <2>2 DEF monitor_receipt
  <2> QED BY <1>10, <2>3, <2>4 DEF monitor_receipt, Record
<1>11. ASSUME NEW r \in Runs, reject_transaction(r) PROVE TypeOK'
  <2>1. ExecutionResult("rejected", None) \in Result
    BY ResultType DEF ExecutionStatus
  <2> QED BY <1>11, <2>1 DEF reject_transaction
<1>12. ASSUME NEW r \in Runs, Mine(r) PROVE TypeOK'
  BY <1>12 DEF Mine, ChainStatus
<1>13. CASE UNCHANGED vars
  BY <1>13 DEF vars
<1> QED
  BY <1>1, <1>2, <1>3, <1>4, <1>5, <1>6, <1>7, <1>8, <1>9, <1>10, <1>11, <1>12, <1>13
  DEF PipelineStep, Step

\* Type correctness: the graph state, the store and the chain stay within
\* their types whatever runs, requests and failing calls there are.
THEOREM TypeCorrect == Spec => []TypeOK
<1>1. Init => TypeOK
  BY DEF Init, TypeOK, StoreInit, Absent, IdempotencyStatus, Nodes, ChainStatus
<1> QED BY <1>1, PipelineNext, TypeStep, PTL DEF Spec


-----------------------------------------------------------------------------
(* The five effects of a step.                                             *)

Early == {"prepare_transaction", "resolve_nonce", "populate_gas",
          "simulate_transaction", "evaluate_policy", "request_approval",
          "check_idempotency", "sign_transaction"}
Owning == {"sign_transaction", "broadcast_transaction", "monitor_receipt"}
Refusing == {"reject_transaction", "END"}

Sent(r) == chain[r] # "absent"

\* Control: results, hashes and submissions appear only from certain nodes on.
ControlOf(r) ==
    /\ pc[r] \in Early => ~HasResult(r)
    /\ pc[r] \in Owning => key(r) \in Keys
    /\ pc[r] \notin {"monitor_receipt", "END"} => tx_hash[r] = None /\ ~Sent(r)
    /\ pc[r] = "monitor_receipt" /\ ~HasResult(r) => tx_hash[r] = r

ControlInv == \A r \in Runs : ControlOf(r)

\* A step of run r does nothing to another run.
Apart(q) ==
    /\ pc'[q] = pc[q]
    /\ request'[q] = request[q]
    /\ execution_result'[q] = execution_result[q]
    /\ tx_hash'[q] = tx_hash[q]
    /\ Sent(q)' <=> Sent(q)

\* What a run without a result may answer while it touches neither the store
\* nor the chain: a refusal, or the stored result of its key.
Answers(r) ==
    \/ execution_result'[r] = execution_result[r]
    \/ /\ pc'[r] \in Refusing /\ ~Sent(r)
       /\ \E status \in {"rejected", "approval_denied"} :
             execution_result'[r] = ExecutionResult(status, None)
    \/ /\ pc'[r] \in Refusing /\ ~Sent(r)
       /\ key(r) \in Keys /\ key(r)' = key(r)
       /\ HasResult(r)'
       /\ execution_result'[r] = records[key(r)].result

Idles(r) ==
    /\ UNCHANGED records
    /\ tx_hash'[r] = tx_hash[r]
    /\ Sent(r)' <=> Sent(r)
    /\ key(r)' = key(r) \/ (pc[r] = "prepare_transaction" /\ pc'[r] \notin Owning)
    /\ \A k \in Keys : Holds(r, k)' <=> Holds(r, k)
    /\ pc[r] \in Refusing => pc'[r] \in Refusing
    /\ Answers(r)

\* The other effects are those of a run on its own key.
Acts(r) == key(r) \in Keys /\ key(r)' = key(r)

Reserves(r) ==
    /\ Acts(r)
    /\ reserve(key(r))
    /\ ~Holds(r, key(r)) /\ Holds(r, key(r))'
    /\ tx_hash[r] = None /\ tx_hash'[r] = None
    /\ Sent(r)' <=> Sent(r)
    /\ execution_result'[r] = execution_result[r]

Submits(r) ==
    /\ Acts(r)
    /\ UNCHANGED records
    /\ Holds(r, key(r)) /\ Holds(r, key(r))'
    /\ tx_hash[r] = None /\ tx_hash'[r] = r
    /\ ~Sent(r) /\ Sent(r)'
    /\ execution_result'[r] = execution_result[r]

Releases(r) ==
    /\ Acts(r)
    /\ release(key(r))
    /\ Holds(r, key(r)) /\ ~Holds(r, key(r))'
    /\ tx_hash[r] = None /\ tx_hash'[r] = None
    /\ ~Sent(r) /\ (Sent(r)' => "lost_reply" \in Faults)
    /\ execution_result'[r] = ExecutionResult("failed", None)

Settles(r) ==
    /\ Acts(r)
    /\ Holds(r, key(r)) /\ ~Holds(r, key(r))'
    /\ tx_hash[r] = r /\ tx_hash'[r] = r
    /\ UNCHANGED chain
    /\ \E status \in {"pending", "confirmed", "failed"} :
          /\ status = "confirmed" => chain[r] = "mined"
          /\ complete(key(r), ExecutionResult(status, r))
          /\ execution_result'[r] = ExecutionResult(status, r)

Effect(r) ==
    /\ \A q \in Runs \ {r} : Apart(q)
    /\ ControlOf(r)'
    /\ Idles(r) \/ Reserves(r) \/ Submits(r) \/ Releases(r) \/ Settles(r)

\* A node before signing that reserves nothing leaves its run without a
\* hash, and if it goes on in the graph, without a result.
LEMMA EarlyEffect ==
    ASSUME TypeOK, ControlInv, NEW r \in Runs, pc[r] \in Early \ {"sign_transaction"},
           NEW n \in Nodes \ Owning, pc' = [pc EXCEPT ![r] = n],
           \A q \in Runs \ {r} : request'[q] = request[q],
           key(r)' = key(r) \/ pc[r] = "prepare_transaction",
           \A q \in Runs \ {r} : execution_result'[q] = execution_result[q],
           UNCHANGED <<tx_hash, records, chain>>,
           n \in Early => execution_result'[r] = execution_result[r],
           Answers(r)
    PROVE  Effect(r)
<1>1. /\ ControlOf(r) /\ ~HasResult(r) /\ tx_hash[r] = None /\ ~Sent(r)
      /\ pc[r] \notin Owning /\ pc[r] \notin Refusing
  BY DEF ControlInv, ControlOf, Early, Owning, Refusing
<1>2. pc'[r] = n /\ \A q \in Runs \ {r} : pc'[q] = pc[q]
  BY DEF TypeOK
<1>3. \A q \in Runs \ {r} : Apart(q)
  BY <1>2 DEF Apart, Sent
<1>4. ControlOf(r)'
  BY <1>1, <1>2 DEF ControlOf, HasResult, Sent, Owning
<1>5. \A k \in Keys : ~Holds(r, k) /\ ~Holds(r, k)'
  BY <1>1, <1>2 DEF Holds, Owning
<1> QED BY <1>1, <1>2, <1>3, <1>4, <1>5 DEF Effect, Idles, Sent

\* Every node of the graph has one of the five effects.
LEMMA EffectOfStep ==
    ASSUME TypeOK, ControlInv, NEW r \in Runs, Preparation(r) \/ Step(r)
    PROVE  Effect(r)
<1> USE DEF Set, Goto, checks, resolved, outcome
<1>a. ControlOf(r)
  BY DEF ControlInv
<1>b. key(r) \in Keys \cup {None} /\ r # None
  BY RequestType, NoneAssumption
<1>c. pc \in [Runs -> Nodes] /\ execution_result \in [Runs -> Result \cup {NoResult}]
      /\ tx_hash \in [Runs -> Runs \cup {None}]
  BY DEF TypeOK
<1>1. CASE Preparation(r)
  <2>1. PICK n \in {"prepare_transaction", "resolve_nonce", "reject_transaction", "END"} :
          pc' = [pc EXCEPT ![r] = n]
    BY <1>1 DEF Preparation
  <2> QED BY <1>1, <2>1, EarlyEffect DEF Preparation, At, Early, Owning, Nodes, Answers
<1>2. ASSUME UNCHANGED <<request, tx_hash, records, chain, execution_result>>,
             pc[r] \in Early \ {"sign_transaction"},
             NEW n \in Nodes \ Owning, pc' = [pc EXCEPT ![r] = n]
      PROVE  Effect(r)
  BY <1>2, EarlyEffect DEF Answers, key
<1>3. CASE resolve_nonce(r)
  BY <1>2, <1>3 DEF resolve_nonce, At, Early, Owning, Nodes
<1>4. CASE populate_gas(r)
  BY <1>2, <1>4 DEF populate_gas, At, Early, Owning, Nodes
<1>5. CASE simulate_transaction(r)
  BY <1>2, <1>5 DEF simulate_transaction, At, Early, Owning, Nodes
<1>6. CASE evaluate_policy(r)
  <2>1. PICK decision : pc' = [pc EXCEPT ![r] = route_after_transaction_policy(decision)]
    BY <1>6 DEF evaluate_policy
  <2>2. route_after_transaction_policy(decision) \in Nodes \ Owning
    BY RouteType DEF Owning, Nodes
  <2> QED BY <1>2, <1>6, <2>1, <2>2 DEF evaluate_policy, At, Early
<1>7. ASSUME UNCHANGED <<request, tx_hash, records, chain>>,
             pc[r] \in Early \ {"sign_transaction"},
             pc' = [pc EXCEPT ![r] = "reject_transaction"],
             NEW result, execution_result' = [execution_result EXCEPT ![r] = result],
             \/ \E status \in {"rejected", "approval_denied"} :
                   result = ExecutionResult(status, None)
             \/ key(r) \in Keys /\ result = records[key(r)].result /\ result # NoResult
      PROVE  Effect(r)
  <2>1. pc'[r] = "reject_transaction" /\ execution_result'[r] = result
    BY <1>c, <1>7
  <2>2. ~Sent(r)
    BY <1>a, <1>7 DEF ControlOf, Early
  <2>3. Answers(r)
    BY <1>7, <2>1, <2>2 DEF Answers, Refusing, HasResult, key
  <2>4. "reject_transaction" \in Nodes \ Owning /\ "reject_transaction" \notin Early
    BY DEF Nodes, Owning, Early
  <2> QED BY <1>c, <1>7, <2>3, <2>4, EarlyEffect DEF key
<1>8. CASE request_approval(r)
  <2>1. CASE pc' = [pc EXCEPT ![r] = "check_idempotency"] /\ UNCHANGED execution_result
    BY <1>2, <1>8, <2>1 DEF request_approval, At, Early, Owning, Nodes
  <2>2. CASE /\ pc' = [pc EXCEPT ![r] = "reject_transaction"]
             /\ execution_result' = [execution_result EXCEPT ![r] =
                                       ExecutionResult("approval_denied", None)]
    BY <1>7, <1>8, <2>2 DEF request_approval, At, Early
  <2> QED BY <1>8, <2>1, <2>2 DEF request_approval
<1>9. CASE check_idempotency(r)
  <2>1. CASE /\ key(r) # None /\ reserve(key(r))
             /\ pc' = [pc EXCEPT ![r] = "sign_transaction"]
             /\ UNCHANGED execution_result
    <3>1. /\ pc[r] = "check_idempotency" /\ pc'[r] = "sign_transaction"
          /\ \A q \in Runs \ {r} : pc'[q] = pc[q]
          /\ UNCHANGED <<request, tx_hash, chain>>
      BY <1>c, <1>9, <2>1 DEF check_idempotency, At
    <3>2. ~HasResult(r) /\ tx_hash[r] = None /\ ~Sent(r)
      BY <1>a, <3>1 DEF ControlOf, Early
    <3>3. Acts(r)
      BY <1>b, <2>1, <3>1 DEF Acts, key
    <3>4. Reserves(r)
      BY <2>1, <3>1, <3>2, <3>3 DEF Reserves, Acts, Holds, HasResult, Sent
    <3>5. ControlOf(r)'
      BY <2>1, <3>1, <3>2, <3>3 DEF ControlOf, HasResult, Acts, Sent
    <3>6. \A q \in Runs \ {r} : Apart(q)
      BY <2>1, <3>1 DEF Apart, Sent
    <3> QED BY <3>4, <3>5, <3>6 DEF Effect
  <2>2. CASE /\ UNCHANGED records /\ pc' = [pc EXCEPT ![r] = "reject_transaction"]
             /\ \/ /\ key(r) # None
                   /\ execution_result' = [execution_result EXCEPT ![r] = duplicate_result(key(r))]
                \/ execution_result' = [execution_result EXCEPT ![r] =
                                          ExecutionResult("rejected", None)]
    <3>1. pc[r] = "check_idempotency" /\ UNCHANGED <<request, tx_hash, chain>>
      BY <1>9 DEF check_idempotency, At
    <3>2. CASE execution_result' = [execution_result EXCEPT ![r] =
                                      ExecutionResult("rejected", None)]
      BY <1>7, <2>2, <3>1, <3>2 DEF Early
    <3>3. CASE /\ key(r) # None
               /\ execution_result' = [execution_result EXCEPT ![r] = duplicate_result(key(r))]
      <4>1. CASE records[key(r)].result # NoResult
        BY <1>b, <1>7, <2>2, <3>1, <3>3, <4>1 DEF duplicate_result, Early
      <4>2. CASE records[key(r)].result = NoResult
        BY <1>7, <2>2, <3>1, <3>3, <4>2 DEF duplicate_result, Early
      <4> QED BY <4>1, <4>2
    <3> QED BY <2>2, <3>2, <3>3
  <2> QED BY <1>9, <2>1, <2>2 DEF check_idempotency
<1>10. ASSUME pc[r] \in Owning, pc'[r] \in Owning \cup {"END"}, ~HasResult(r),
              request' = request, FailBeforeBroadcast(r), UNCHANGED tx_hash, tx_hash[r] = None,
              \A q \in Runs \ {r} : pc'[q] = pc[q] /\ (Sent(q)' <=> Sent(q)),
              pc'[r] \notin Early, ~Sent(r), Sent(r)' => "lost_reply" \in Faults,
              Sent(r)' => pc'[r] = "monitor_receipt"
       PROVE  Effect(r)
  <2>1. /\ execution_result'[r] = ExecutionResult("failed", None)
        /\ \A q \in Runs \ {r} : execution_result'[q] = execution_result[q]
    BY <1>c, <1>10 DEF FailBeforeBroadcast
  <2>2. HasResult(r)'
    BY <2>1, ResultType DEF HasResult, ExecutionStatus
  <2>3. Acts(r)
    BY <1>a, <1>10 DEF Acts, key, ControlOf
  <2>4. Holds(r, key(r)) /\ ~Holds(r, key(r))'
    BY <1>10, <2>2 DEF Holds, Owning
  <2>5. Releases(r)
    BY <1>10, <2>1, <2>3, <2>4 DEF Releases, FailBeforeBroadcast
  <2>6. ControlOf(r)'
    BY <1>10, <2>2, <2>3 DEF ControlOf, Acts
  <2>7. \A q \in Runs \ {r} : Apart(q)
    BY <1>10, <2>1 DEF Apart
  <2> QED BY <2>5, <2>6, <2>7 DEF Effect
<1>11. CASE sign_transaction(r)
  <2>1. /\ pc[r] = "sign_transaction" /\ pc'[r] = "broadcast_transaction"
        /\ \A q \in Runs \ {r} : pc'[q] = pc[q]
        /\ UNCHANGED <<request, tx_hash, chain>>
    BY <1>c, <1>11 DEF sign_transaction, At
  <2>2. ~HasResult(r) /\ tx_hash[r] = None /\ ~Sent(r)
    BY <1>a, <2>1 DEF ControlOf, Early
  <2>3. Acts(r)
    BY <1>a, <2>1 DEF Acts, key, ControlOf, Owning
  <2>4. CASE UNCHANGED <<records, execution_result>>
    <3>1. \A k \in Keys : Holds(r, k)' <=> Holds(r, k)
      BY <2>1, <2>4 DEF Holds, HasResult, key
    <3>2. Idles(r)
      BY <2>1, <2>2, <2>3, <2>4, <3>1 DEF Idles, Acts, Sent, Answers, Refusing
    <3>3. ControlOf(r)'
      BY <2>1, <2>2, <2>3, <2>4 DEF ControlOf, HasResult, Acts, Sent, Early
    <3>4. \A q \in Runs \ {r} : Apart(q)
      BY <2>1, <2>4 DEF Apart, Sent
    <3> QED BY <3>2, <3>3, <3>4 DEF Effect
  <2>5. CASE FailBeforeBroadcast(r)
    BY <1>10, <2>1, <2>2, <2>5 DEF Sent, Owning, Early
  <2> QED BY <1>11, <2>4, <2>5 DEF sign_transaction
<1>12. CASE broadcast_transaction(r)
  <2>1. /\ pc[r] = "broadcast_transaction" /\ pc'[r] = "monitor_receipt"
        /\ \A q \in Runs \ {r} : pc'[q] = pc[q]
        /\ UNCHANGED request
    BY <1>c, <1>12 DEF broadcast_transaction, At
  <2>2. tx_hash[r] = None /\ ~Sent(r)
    BY <1>a, <2>1 DEF ControlOf
  <2>3. Acts(r)
    BY <1>a, <2>1 DEF Acts, key, ControlOf, Owning
  <2>4. Accept(r) => Sent(r)' /\ \A q \in Runs \ {r} : Sent(q)' <=> Sent(q)
    BY DEF Accept, Sent, Occupies, OnChain, TypeOK
  <2>5. UNCHANGED chain => \A q \in Runs : Sent(q)' <=> Sent(q)
    BY DEF Sent
  <2>6. CASE HasResult(r) /\ UNCHANGED <<tx_hash, execution_result, records, chain>>
    <3>1. \A k \in Keys : ~Holds(r, k)' /\ ~Holds(r, k)
      BY <2>6 DEF Holds, HasResult
    <3>2. Idles(r)
      BY <2>1, <2>2, <2>3, <2>5, <2>6, <3>1 DEF Idles, Acts, Answers, Refusing
    <3>3. ControlOf(r)'
      BY <2>1, <2>2, <2>3, <2>6 DEF ControlOf, HasResult, Acts, Sent, Early
    <3>4. \A q \in Runs \ {r} : Apart(q)
      BY <2>1, <2>5, <2>6 DEF Apart
    <3> QED BY <3>2, <3>3, <3>4 DEF Effect
  <2>7. CASE /\ ~HasResult(r) /\ Accept(r) /\ tx_hash' = [tx_hash EXCEPT ![r] = r]
             /\ UNCHANGED <<execution_result, records>>
    <3>1. tx_hash'[r] = r /\ \A q \in Runs \ {r} : tx_hash'[q] = tx_hash[q]
      BY <1>c, <2>7
    <3>2. Holds(r, key(r)) /\ Holds(r, key(r))'
      BY <2>1, <2>3, <2>7 DEF Holds, HasResult, Acts
    <3>3. Submits(r)
      BY <2>2, <2>3, <2>4, <2>7, <3>1, <3>2 DEF Submits
    <3>4. ControlOf(r)'
      BY <2>1, <2>3, <3>1 DEF ControlOf, Acts, Early
    <3>5. \A q \in Runs \ {r} : Apart(q)
      BY <2>1, <2>4, <2>7, <3>1 DEF Apart
    <3> QED BY <3>3, <3>4, <3>5 DEF Effect
  <2>8. CASE /\ ~HasResult(r) /\ FailBeforeBroadcast(r) /\ UNCHANGED tx_hash
             /\ \/ UNCHANGED chain
                \/ Accept(r) /\ "lost_reply" \in Faults
    <3>1. \A q \in Runs \ {r} : Sent(q)' <=> Sent(q)
      BY <2>4, <2>5, <2>8
    <3>2. Sent(r)' => "lost_reply" \in Faults
      BY <2>2, <2>5, <2>8
    <3> QED BY <1>10, <2>1, <2>2, <2>8, <3>1, <3>2 DEF Owning, Early
  <2> QED BY <1>12, <2>6, <2>7, <2>8 DEF broadcast_transaction, MayFail
<1>13. CASE monitor_receipt(r)
  <2>1. /\ pc[r] = "monitor_receipt" /\ pc'[r] = "END"
        /\ \A q \in Runs \ {r} : pc'[q] = pc[q]
        /\ UNCHANGED <<request, tx_hash, chain>>
    BY <1>c, <1>13 DEF monitor_receipt, At
  <2>2. Acts(r) /\ (~HasResult(r) => tx_hash[r] = r)
    BY <1>a, <2>1 DEF Acts, key, ControlOf, Owning
  <2>3. ControlOf(r)' /\ \A k \in Keys : ~Holds(r, k)'
    BY <2>1 DEF ControlOf, Holds, Early, Owning
  <2>4. CASE HasResult(r) /\ UNCHANGED <<execution_result, records>>
    <3>1. \A k \in Keys : ~Holds(r, k)
      BY <2>4 DEF Holds
    <3>2. Idles(r)
      BY <2>1, <2>2, <2>3, <2>4, <3>1 DEF Idles, Acts, Answers, Refusing, Sent
    <3>3. \A q \in Runs \ {r} : Apart(q)
      BY <2>1, <2>4 DEF Apart, Sent
    <3> QED BY <2>3, <3>2, <3>3 DEF Effect
  <2>5. ASSUME NEW status \in {"pending", "confirmed", "failed"}, ~HasResult(r),
               status = "confirmed" => chain[r] = "mined",
               complete(key(r), ExecutionResult(status, r)),
               execution_result' = [execution_result EXCEPT ![r] = ExecutionResult(status, r)]
        PROVE  Effect(r)
    <3>1. /\ execution_result'[r] = ExecutionResult(status, r)
          /\ \A q \in Runs \ {r} : execution_result'[q] = execution_result[q]
      BY <1>c, <2>5
    <3>2. Holds(r, key(r)) /\ ~Holds(r, key(r))'
      BY <2>1, <2>2, <2>3, <2>5 DEF Holds, Acts
    <3>3. Settles(r)
      BY <2>1, <2>2, <2>5, <3>1, <3>2 DEF Settles
    <3>4. \A q \in Runs \ {r} : Apart(q)
      BY <2>1, <3>1 DEF Apart, Sent
    <3> QED BY <2>3, <3>3, <3>4 DEF Effect
  <2>6. /\ receipt_statuses(r) \subseteq {"pending", "confirmed", "failed"}
        /\ "confirmed" \in receipt_statuses(r) => chain[r] = "mined"
    BY DEF receipt_statuses
  <2>7. \/ HasResult(r) /\ UNCHANGED <<execution_result, records>>
        \/ \E status \in {"pending", "confirmed", "failed"} :
              /\ ~HasResult(r)
              /\ status = "confirmed" => chain[r] = "mined"
              /\ complete(key(r), ExecutionResult(status, r))
              /\ execution_result' = [execution_result EXCEPT ![r] = ExecutionResult(status, r)]
    <3>1. ~HasResult(r) => tx_hash[r] # None
      BY <1>b, <2>2
    <3> QED BY <1>13, <2>2, <2>6, <3>1 DEF monitor_receipt, finalize_after_monitor_failure
  <2> QED BY <2>4, <2>5, <2>7
<1>14. CASE reject_transaction(r)
  <2>1. /\ pc[r] = "reject_transaction" /\ pc'[r] = "END"
        /\ \A q \in Runs \ {r} : pc'[q] = pc[q]
        /\ UNCHANGED <<request, tx_hash, records, chain>>
    BY <1>c, <1>14 DEF reject_transaction, At
  <2>2. tx_hash[r] = None /\ ~Sent(r) /\ key(r)' = key(r)
    BY <1>a, <2>1 DEF ControlOf, key
  <2>3. /\ \A q \in Runs \ {r} : execution_result'[q] = execution_result[q]
        /\ execution_result'[r] \in {execution_result[r], ExecutionResult("rejected", None)}
    BY <1>c, <1>14 DEF reject_transaction
  <2>4. Answers(r)
    BY <2>1, <2>2, <2>3 DEF Answers, Refusing
  <2>5. ControlOf(r)' /\ \A k \in Keys : ~Holds(r, k) /\ ~Holds(r, k)'
    BY <2>1 DEF ControlOf, Holds, Early, Owning
  <2>6. Idles(r)
    BY <2>1, <2>2, <2>4, <2>5 DEF Idles, Refusing, Sent
  <2>7. \A q \in Runs \ {r} : Apart(q)
    BY <2>1, <2>3 DEF Apart, Sent
  <2> QED BY <2>5, <2>6, <2>7 DEF Effect
<1> QED
  BY <1>1, <1>3, <1>4, <1>5, <1>6, <1>8, <1>9, <1>11, <1>12, <1>13, <1>14 DEF Step

\* A block of the chain and a stuttering step leave the runs and the store
\* alone and submit nothing.
Rests ==
    /\ UNCHANGED <<request, pc, tx_hash, execution_result, records>>
    /\ \A r \in Runs : Sent(r)' <=> Sent(r)

\* Every step of the pipeline is a run's step with its effect, or none.
LEMMA EffectOfPipeline ==
    ASSUME TypeOK, ControlInv, PipelineStep
    PROVE  Rests \/ \E r \in Runs : Effect(r)
<1>1. ASSUME NEW r \in Runs, Mine(r) PROVE Rests
  BY <1>1 DEF Mine, Rests, Sent, outcome, TypeOK
<1>2. CASE UNCHANGED vars
  BY <1>2 DEF vars, outcome, Rests, Sent
<1> QED BY <1>1, <1>2, EffectOfStep DEF PipelineStep

\* Behind the preparation no node changes a request or leads back to it.
LEMMA StepKeepsRequests ==
    ASSUME TypeOK, NEW r \in Runs, Step(r)
    PROVE  /\ UNCHANGED request
           /\ pc[r] # "prepare_transaction" /\ pc'[r] # "prepare_transaction"
           /\ \A q \in Runs \ {r} : pc'[q] = pc[q]
<1> USE DEF Goto, At, TypeOK
<1>1. CASE evaluate_policy(r)
  <2>1. PICK decision : pc' = [pc EXCEPT ![r] = route_after_transaction_policy(decision)]
    BY <1>1 DEF evaluate_policy
  <2>2. pc'[r] # "prepare_transaction"
    BY <2>1, RouteType
  <2> QED BY <1>1, <2>1, <2>2 DEF evaluate_policy
<1>2. CASE resolve_nonce(r) \/ populate_gas(r) \/ simulate_transaction(r)
  BY <1>2 DEF resolve_nonce, populate_gas, simulate_transaction
<1>3. CASE request_approval(r) \/ check_idempotency(r)
  BY <1>3 DEF request_approval, check_idempotency
<1>4. CASE sign_transaction(r) \/ broadcast_transaction(r)
  BY <1>4 DEF sign_transaction, broadcast_transaction
<1>5. CASE monitor_receipt(r) \/ reject_transaction(r)
  BY <1>5 DEF monitor_receipt, reject_transaction
<1> QED BY <1>1, <1>2, <1>3, <1>4, <1>5 DEF Step

-----------------------------------------------------------------------------
(* Ownership of reservations.                                              *)

\* The two halves of ReservationHasOneHolder.
OwnerOf(k) ==
    /\ records[k].status = "in_flight" <=> \E r \in Runs : Holds(r, k)
    /\ \A q, r \in Runs : Holds(q, k) /\ Holds(r, k) => q = r

OwnerInv == \A k \in Keys : OwnerOf(k)

\* A step of one run changes neither the key of another run, nor what it
\* holds, nor its control.
LEMMA OthersKeep ==
    ASSUME NEW q \in Runs, Apart(q)
    PROVE  /\ key(q)' = key(q)
           /\ \A k : Holds(q, k)' <=> Holds(q, k)
           /\ ControlOf(q)' <=> ControlOf(q)
BY DEF Apart, Holds, HasResult, key, ControlOf

\* What a step does to the record of its run's key, and to no other record.
LEMMA RecordEffect ==
    ASSUME TypeOK, OwnerInv, NEW r \in Runs, Acts(r)
    PROVE  /\ Reserves(r) \/ Releases(r) \/ Settles(r) =>
                 \A k \in Keys \ {key(r)} : records'[k] = records[k]
           /\ Reserves(r) => records[key(r)].status = "absent" /\ records'[key(r)] = InFlight
           /\ Releases(r) => records[key(r)].status = "in_flight" /\ records'[key(r)] = Absent
           /\ Submits(r) => records[key(r)].status = "in_flight"
           /\ Settles(r) => records[key(r)].status = "in_flight"
                            /\ records'[key(r)] = Completed(execution_result'[r])
<1> DEFINE k0 == key(r)
<1>1. k0 \in Keys /\ records \in [Keys -> Record]
  BY DEF Acts, TypeOK, Record
<1>2. Holds(r, k0) => records[k0].status = "in_flight"
  BY <1>1 DEF OwnerInv, OwnerOf
<1>3. Reserves(r) => records[k0].status = "absent" /\ records' = [records EXCEPT ![k0] = InFlight]
  BY <1>1 DEF Reserves, reserve, IsDuplicate
<1>4. Releases(r) => Holds(r, k0) /\ records' = [records EXCEPT ![k0] =
                                        IF @.status = "in_flight" THEN Absent ELSE @]
  BY DEF Releases, release
<1>5. Settles(r) => Holds(r, k0) /\ records' = [records EXCEPT ![k0] =
                                                  Completed(execution_result'[r])]
  BY DEF Settles, complete
<1>6. Submits(r) => Holds(r, k0)
  BY DEF Submits
<1> HIDE DEF k0
<1>7. Releases(r) => records[k0].status = "in_flight" /\ records' = [records EXCEPT ![k0] = Absent]
  BY <1>2, <1>4
<1> QED BY <1>1, <1>2, <1>3, <1>5, <1>6, <1>7 DEF k0

\* A run holds at most its own key.
LEMMA HoldsOwnKey ==
    ASSUME NEW r \in Runs, Acts(r)
    PROVE  \A k \in Keys : /\ Holds(r, k) <=> k = key(r) /\ Holds(r, key(r))
                           /\ Holds(r, k)' <=> k = key(r) /\ Holds(r, key(r))'
BY DEF Acts, Holds

\* Every step preserves control and ownership: who reserves a free key is
\* its only holder, and only its holder gives it up.
LEMMA OwnerStep ==
    ASSUME TypeOK, ControlInv, OwnerInv, PipelineStep
    PROVE  ControlInv' /\ OwnerInv'
<1>1. CASE Rests
  BY <1>1 DEF Rests, ControlInv, OwnerInv, ControlOf, OwnerOf, Holds, HasResult, key
<1>2. ASSUME NEW r \in Runs, Effect(r) PROVE ControlInv' /\ OwnerInv'
  <2>1. \A q \in Runs \ {r} : Apart(q)
    BY <1>2 DEF Effect
  <2>2. ControlInv'
    BY <1>2, <2>1, OthersKeep DEF ControlInv, Effect
  <2>3. ASSUME NEW k \in Keys, NEW q \in Runs \ {r} PROVE Holds(q, k)' <=> Holds(q, k)
    BY <2>1, OthersKeep
  <2>4. ASSUME NEW k \in Keys, records'[k] = records[k], Holds(r, k)' <=> Holds(r, k)
        PROVE  OwnerOf(k)'
    <3>1. OwnerOf(k)
      BY DEF OwnerInv
    <3> QED BY <2>3, <2>4, <3>1 DEF OwnerOf
  <2>5. CASE Idles(r)
    BY <2>2, <2>4, <2>5 DEF Idles, OwnerInv
  <2>6. CASE Submits(r)
    <3>1. Acts(r) /\ UNCHANGED records /\ Holds(r, key(r)) /\ Holds(r, key(r))'
      BY <2>6 DEF Submits
    <3> QED BY <2>2, <2>4, <3>1, HoldsOwnKey DEF OwnerInv
  <2>7. CASE Reserves(r) \/ Releases(r) \/ Settles(r)
    <3>0. PICK k0 \in Keys : k0 = key(r) /\ k0 = key(r)'
      BY <2>7 DEF Reserves, Releases, Settles, Acts
    <3>1. Acts(r)
      BY <2>7 DEF Reserves, Releases, Settles
    <3>2. ASSUME NEW k \in Keys, k # k0 PROVE OwnerOf(k)'
      BY <2>4, <2>7, <3>0, <3>1, <3>2, RecordEffect, HoldsOwnKey
    <3>3. OwnerOf(k0)
      BY DEF OwnerInv
    <3>4. CASE Reserves(r)
      <4>1. records[key(r)].status = "absent" /\ records'[key(r)] = InFlight
        BY <3>1, <3>4, RecordEffect
      <4>2. Holds(r, k0)'
        BY <3>0, <3>4 DEF Reserves, Holds
      <4>3. OwnerOf(k0)'
        BY <2>3, <3>0, <3>3, <4>1, <4>2 DEF OwnerOf, InFlight
      <4> QED BY <2>2, <3>2, <4>3 DEF OwnerInv
    <3>5. CASE Releases(r) \/ Settles(r)
      <4>1. records'[k0] \in {Absent, Completed(execution_result'[r])}
        BY <3>0, <3>1, <3>5, RecordEffect
      <4>2. Holds(r, k0) /\ ~Holds(r, k0)'
        BY <3>0, <3>5 DEF Releases, Settles, Holds
      <4>3. OwnerOf(k0)'
        BY <2>3, <3>3, <4>1, <4>2 DEF OwnerOf, Absent, Completed
      <4> QED BY <2>2, <3>2, <4>3 DEF OwnerInv
    <3> QED BY <2>7, <3>4, <3>5
  <2> QED BY <1>2, <2>5, <2>6, <2>7 DEF Effect
<1> QED BY <1>1, <1>2, EffectOfPipeline

\* A completed record stays: only the holder of a key releases or completes
\* it, and the record of a held key is IN_FLIGHT.
LEMMA CompletedStep ==
    ASSUME TypeOK, ControlInv, OwnerInv, PipelineStep,
           NEW k \in Keys, records[k].status = "completed"
    PROVE  records'[k] = records[k]
<1>1. CASE Rests
  BY <1>1 DEF Rests
<1>2. ASSUME NEW r \in Runs, Effect(r) PROVE records'[k] = records[k]
  <2>1. CASE Idles(r) \/ Submits(r)
    BY <2>1 DEF Idles, Submits
  <2>2. CASE Reserves(r) \/ Releases(r) \/ Settles(r)
    <3>1. Acts(r)
      BY <2>2 DEF Reserves, Releases, Settles
    <3> QED BY <2>2, <3>1, RecordEffect
  <2> QED BY <1>2, <2>1, <2>2 DEF Effect
<1> QED BY <1>1, <1>2, EffectOfPipeline

-----------------------------------------------------------------------------
(* Hashes and results.                                                     *)

\* A hash belongs to the run that is waiting for the receipt or is the hash
\* stored with the key for good.
HashOf(r) ==
    tx_hash[r] # None =>
        /\ tx_hash[r] = r
        /\ key(r) \in Keys
        /\ \/ Holds(r, key(r))
           \/ /\ records[key(r)].status = "completed"
              /\ records[key(r)].result.tx_hash = r

HashInv == \A r \in Runs : HashOf(r)

IInv == TypeOK /\ ControlInv /\ OwnerInv /\ HashInv

\* Every step preserves HashInv.
LEMMA HashStep ==
    ASSUME IInv, PipelineStep
    PROVE  HashInv'
<1> USE DEF IInv
<1>1. CASE Rests
  BY <1>1 DEF Rests, HashInv, HashOf, Holds, HasResult, key
<1>2. ASSUME NEW r \in Runs, Effect(r), NEW q \in Runs PROVE HashOf(q)'
  <2>1. HashOf(q) /\ ControlOf(r)
    BY DEF HashInv, ControlInv
  <2>2. CASE q # r
    <3>1. Apart(q)
      BY <1>2, <2>2 DEF Effect
    <3>2. key(q) \in Keys /\ records[key(q)].status = "completed" =>
             records'[key(q)] = records[key(q)]
      BY CompletedStep
    <3> QED BY <2>1, <3>1, <3>2, OthersKeep DEF HashOf, Apart
  <2>3. CASE q = r /\ Idles(r)
    <3>1. tx_hash[r] # None => key(r)' = key(r)
      BY <2>1, <2>3 DEF Idles, ControlOf
    <3> QED BY <2>1, <2>3, <3>1 DEF HashOf, Idles
  <2>4. CASE q = r /\ (Reserves(r) \/ Releases(r))
    BY <2>4 DEF HashOf, Reserves, Releases
  <2>5. CASE q = r /\ Submits(r)
    BY <2>5 DEF HashOf, Submits, Acts
  <2>6. CASE q = r /\ Settles(r)
    <3>1. Acts(r) /\ tx_hash'[r] = r /\ execution_result'[r].tx_hash = r
      BY <2>6, ResultType DEF Settles, ExecutionStatus
    <3>2. records'[key(r)] = Completed(execution_result'[r])
      BY <2>6, <3>1, RecordEffect
    <3> QED BY <2>6, <3>1, <3>2 DEF HashOf, Acts, Completed
  <2> QED BY <1>2, <2>2, <2>3, <2>4, <2>5, <2>6 DEF Effect
<1> QED BY <1>1, <1>2, EffectOfPipeline DEF HashInv

\* Every step of every graph preserves the inductive invariant.
LEMMA InvStep == IInv /\ PipelineStep => IInv'
BY TypeStep, OwnerStep, HashStep DEF IInv

\* It holds in the initial states.
LEMMA InvInit == Init => IInv
<1>1. Init => ControlInv /\ OwnerInv /\ HashInv
  BY DEF Init, StoreInit, Absent, ControlInv, OwnerInv, HashInv, ControlOf, OwnerOf,
         HashOf, Holds, HasResult, Early, Owning, Sent
<1>2. Init => TypeOK
  BY DEF Init, TypeOK, StoreInit, Absent, IdempotencyStatus, Nodes, ChainStatus
<1> QED BY <1>1, <1>2 DEF IInv

\* IInv holds in every reachable state.
LEMMA Invariance == Spec => []IInv
<1>1. IInv /\ [Next]_vars => IInv'
  BY PipelineNext, InvStep DEF IInv
<1> QED BY <1>1, InvInit, PTL DEF Spec

\* Under any interleaving of runs an IN_FLIGHT reservation has exactly one
\* owner, which is still executing: check_idempotency grants a key once, and
\* only the owner's own failure or receipt releases or completes it.
THEOREM OneHolder == Spec => []ReservationHasOneHolder
<1>1. IInv => ReservationHasOneHolder
  BY DEF IInv, OwnerInv, OwnerOf, ReservationHasOneHolder
<1> QED BY <1>1, Invariance, PTL

\* At most one run per key gets a hash.
LEMMA OneHashInv == IInv => OneHashPerKey
BY DEF IInv, OwnerInv, OwnerOf, HashInv, HashOf, OneHashPerKey

\* At most one run per key gets a transaction hash, whatever fails.
THEOREM OneHash == Spec => []OneHashPerKey
BY OneHashInv, Invariance, PTL

\* A completed record is never changed or removed again, although complete()
\* overwrites and release() is called by failing runs.
THEOREM CompletedForGood == Spec => CompletedIsFinal
<1> DEFINE Final == \A k \in Keys : records[k].status = "completed" => records'[k] = records[k]
<1>1. IInv /\ [Next]_vars => [Final]_vars
  BY PipelineNext, CompletedStep DEF IInv
<1> QED BY <1>1, Invariance, PTL DEF Spec, CompletedIsFinal

\* While no reply is lost, only runs with a hash have anything on the chain.
SubmitInv == \A r \in Runs : Sent(r) => tx_hash[r] = r

\* Every step preserves SubmitInv.
LEMMA SubmitStep ==
    ASSUME "lost_reply" \notin Faults, IInv, SubmitInv, PipelineStep
    PROVE  SubmitInv'
<1>1. CASE Rests
  BY <1>1 DEF Rests, SubmitInv
<1>2. ASSUME NEW r \in Runs, Effect(r) PROVE SubmitInv'
  <2>1. \A q \in Runs \ {r} : Sent(q)' => tx_hash'[q] = q
    BY <1>2 DEF Effect, Apart, SubmitInv
  <2>2. Sent(r)' => tx_hash'[r] = r
    BY <1>2 DEF Effect, Idles, Reserves, Submits, Releases, Settles, SubmitInv
  <2> QED BY <2>1, <2>2 DEF SubmitInv
<1> QED BY <1>1, <1>2, EffectOfPipeline DEF IInv

\* Two submissions under one key would be two hashes.
LEMMA SubmittedOnce == IInv /\ SubmitInv => AtMostOneSubmission
BY OneHashInv, NoneAssumption DEF OneHashPerKey, SubmitInv, AtMostOneSubmission, Sent

\* If an exception from eth_sendRawTransaction always means that nothing was
\* submitted, then at most one transaction per key ever reaches the chain,
\* for any number of concurrent runs and retries.
THEOREM AtMostOnce ==
    ASSUME "lost_reply" \notin Faults
    PROVE  Spec => []AtMostOneSubmission
<1>1. Init => SubmitInv
  BY DEF Init, SubmitInv, Sent
<1>2. IInv /\ SubmitInv /\ [Next]_vars => SubmitInv'
  BY PipelineNext, SubmitStep DEF IInv
<1> QED BY <1>1, <1>2, SubmittedOnce, Invariance, PTL DEF Spec

\* The store keeps a result only in a completed record, and a run that has
\* a result with a hash has the stored one.
ResultOf(r) ==
    execution_result[r].tx_hash # None =>
        key(r) \in Keys /\ records[key(r)] = Completed(execution_result[r])

ResultInv ==
    /\ \A k \in Keys : records[k].status # "completed" => records[k].result = NoResult
    /\ \A r \in Runs : ResultOf(r)

\* Every step preserves ResultInv: replays copy the stored result, and no
\* later step of anybody changes a completed record.
LEMMA ResultStep ==
    ASSUME IInv, ResultInv, PipelineStep
    PROVE  ResultInv'
<1> USE DEF IInv
<1>1. CASE Rests
  BY <1>1 DEF Rests, ResultInv, ResultOf, key
<1>2. ASSUME NEW r \in Runs, Effect(r) PROVE ResultInv'
  <2>1. ASSUME NEW k \in Keys
        PROVE  records'[k].status # "completed" => records'[k].result = NoResult
    <3>1. CASE records'[k] = records[k]
      BY <3>1 DEF ResultInv
    <3>2. CASE records'[k] # records[k]
      <4>1. Acts(r) /\ (Reserves(r) \/ Releases(r) \/ Settles(r))
        BY <1>2, <3>2 DEF Effect, Idles, Submits, Reserves, Releases, Settles
      <4>2. k = key(r)
        BY <3>2, <4>1, RecordEffect
      <4>3. records'[k] \in {InFlight, Absent, Completed(execution_result'[r])}
        BY <4>1, <4>2, RecordEffect
      <4> QED BY <4>3 DEF InFlight, Absent, Completed
    <3> QED BY <3>1, <3>2
  <2>2. \A k \in Keys : records[k].status = "completed" => records'[k] = records[k]
    BY CompletedStep
  <2>3. ASSUME NEW q \in Runs, key(q)' = key(q), execution_result'[q] = execution_result[q]
        PROVE  ResultOf(q)'
    BY <2>2, <2>3 DEF ResultInv, ResultOf, Completed
  <2>4. ASSUME NEW q \in Runs \ {r} PROVE ResultOf(q)'
    BY <1>2, <2>3, OthersKeep DEF Effect, Apart
  <2>5. ResultOf(r)'
    <3>1. CASE Idles(r)
      <4>1. CASE execution_result'[r] = execution_result[r]
        <5>1. CASE key(r)' = key(r)
          BY <2>3, <4>1, <5>1
        <5>2. CASE pc[r] = "prepare_transaction"
          <6>1. execution_result[r] = NoResult
            BY <5>2 DEF ControlInv, ControlOf, Early, HasResult
          <6> QED BY <4>1, <6>1 DEF ResultOf, NoResult
        <5> QED BY <3>1, <5>1, <5>2 DEF Idles
      <4>2. CASE \E status \in {"rejected", "approval_denied"} :
                    execution_result'[r] = ExecutionResult(status, None)
        BY <4>2, ResultType DEF ResultOf, ExecutionStatus
      <4>3. CASE /\ key(r) \in Keys /\ key(r)' = key(r) /\ HasResult(r)'
                 /\ execution_result'[r] = records[key(r)].result
        <5>1. records[key(r)].status = "completed"
          BY <4>3 DEF ResultInv, HasResult
        <5>2. records[key(r)] = Completed(execution_result'[r])
          BY <4>3, <5>1 DEF TypeOK, Completed
        <5>3. records'[key(r)] = records[key(r)]
          BY <3>1 DEF Idles
        <5> QED BY <4>3, <5>2, <5>3 DEF ResultOf
      <4> QED BY <3>1, <4>1, <4>2, <4>3 DEF Idles, Answers
    <3>2. CASE Reserves(r) \/ Submits(r)
      BY <2>3, <3>2 DEF Reserves, Submits, Acts
    <3>3. CASE Releases(r)
      BY <3>3, ResultType DEF Releases, ResultOf, ExecutionStatus
    <3>4. CASE Settles(r)
      <4>1. Acts(r)
        BY <3>4 DEF Settles
      <4> QED BY <3>4, <4>1, RecordEffect DEF ResultOf, Acts
    <3> QED BY <1>2, <3>1, <3>2, <3>3, <3>4 DEF Effect
  <2> QED BY <2>1, <2>4, <2>5 DEF ResultInv
<1> QED BY <1>1, <1>2, EffectOfPipeline

\* ResultInv holds in the initial states.
LEMMA ResultInit == Init => ResultInv
BY DEF Init, StoreInit, Absent, ResultInv, ResultOf, NoResult

\* A run that reports a transaction hash reports the stored result of its
\* key, whether it submitted itself or replayed: the first answer, the
\* retries' answers and the store never disagree.
THEOREM HashIsRecorded == Spec => []ReportedHashIsRecorded
<1>1. IInv /\ ResultInv /\ [Next]_vars => ResultInv'
  BY PipelineNext, ResultStep DEF IInv
<1>2. ResultInv => ReportedHashIsRecorded
  BY DEF ResultInv, ResultOf, ReportedHashIsRecorded
<1> QED BY <1>1, <1>2, ResultInit, Invariance, PTL DEF Spec

-----------------------------------------------------------------------------
(* Reported outcomes and the chain.                                        *)

\* A confirmed result names a mined transaction, any other that names one a
\* transaction that has left for the chain.
Confirms(result, f) ==
    /\ result.status = "confirmed" => result.tx_hash \in Runs /\ f[result.tx_hash] = "mined"
    /\ result.tx_hash # None => result.tx_hash \in Runs /\ f[result.tx_hash] # "absent"

\* A transaction once mined stays mined: the node takes no second one of the
\* same wallet and nonce, and no run signs twice.
LEMMA MinedStep ==
    ASSUME TypeOK, ControlInv, PipelineStep, NEW h \in Runs, chain[h] = "mined"
    PROVE  chain'[h] = "mined"
<1>1. ASSUME NEW r \in Runs, broadcast_transaction(r) PROVE chain'[h] = "mined"
  <2>1. chain[r] = "absent"
    BY <1>1 DEF broadcast_transaction, At, ControlInv, ControlOf, Sent
  <2>2. CASE Accept(r) /\ Acceptable(r)
    BY <2>1, <2>2 DEF Accept, Acceptable, OnChain
  <2> QED BY <1>1, <2>2 DEF broadcast_transaction
<1>2. ASSUME NEW r \in Runs, Mine(r) PROVE chain'[h] = "mined"
  BY <1>2 DEF Mine, TypeOK
<1>3. CASE UNCHANGED chain
  BY <1>3
<1> QED
  BY <1>1, <1>2, <1>3
  DEF PipelineStep, Preparation, Step, resolve_nonce, populate_gas, simulate_transaction,
      evaluate_policy, request_approval, check_idempotency, sign_transaction,
      monitor_receipt, reject_transaction, vars

\* Confirmed results name mined transactions; a hash is that of a transaction
\* the node has taken; a run with a refusal has sent nothing and is past the
\* nodes that could.
OutcomeOf(r) ==
    /\ Confirms(execution_result[r], chain)
    /\ tx_hash[r] # None => Sent(r)
    /\ execution_result[r].status \in {"rejected", "approval_denied"} =>
          ~Sent(r) /\ pc[r] \in Refusing

OutcomeInv ==
    /\ \A k \in Keys : Confirms(records[k].result, chain)
    /\ \A r \in Runs : OutcomeOf(r)

\* The results that name no transaction.
LEMMA ConfirmsNothing ==
    ASSUME NEW f, NEW status \in {"failed", "rejected", "approval_denied"}
    PROVE  Confirms(NoResult, f) /\ Confirms(ExecutionResult(status, None), f)
BY DEF Confirms, NoResult, ExecutionResult

\* What the node has taken it never forgets.
LEMMA SentStep ==
    ASSUME TypeOK, ControlInv, PipelineStep, NEW h \in Runs, Sent(h)
    PROVE  Sent(h)'
<1>1. CASE Rests
  BY <1>1 DEF Rests
<1>2. ASSUME NEW r \in Runs, Effect(r) PROVE Sent(h)'
  <2>1. CASE h # r
    BY <1>2, <2>1 DEF Effect, Apart
  <2>2. CASE h = r
    BY <1>2, <2>2 DEF Effect, Idles, Reserves, Submits, Releases, Settles, Sent
  <2> QED BY <2>1, <2>2
<1> QED BY <1>1, <1>2, EffectOfPipeline

\* Every step preserves OutcomeInv.
LEMMA OutcomeStep ==
    ASSUME IInv, OutcomeInv, PipelineStep
    PROVE  OutcomeInv'
<1> USE DEF IInv
<1>1. \A result : Confirms(result, chain) => Confirms(result, chain')
  BY MinedStep, SentStep DEF Confirms, Sent
<1>a. \A r \in Runs : Settles(r) => Sent(r)
  BY NoneAssumption DEF Settles, OutcomeInv, OutcomeOf
<1>2. CASE Rests
  BY <1>1, <1>2 DEF Rests, OutcomeInv, OutcomeOf
<1>3. ASSUME NEW r \in Runs, Effect(r) PROVE OutcomeInv'
  <2>1. ASSUME NEW q \in Runs \ {r} PROVE OutcomeOf(q)'
    <3>1. OutcomeOf(q) /\ Apart(q)
      BY <1>3 DEF OutcomeInv, Effect
    <3> QED BY <1>1, <3>1 DEF OutcomeOf, Apart
  <2>2. ASSUME NEW k \in Keys PROVE Confirms(records'[k].result, chain')
    <3>1. CASE records'[k] = records[k]
      BY <1>1, <3>1 DEF OutcomeInv
    <3>2. CASE records'[k] # records[k]
      <4>1. Acts(r) /\ (Reserves(r) \/ Releases(r) \/ Settles(r))
        BY <1>3, <3>2 DEF Effect, Idles, Submits, Reserves, Releases, Settles
      <4>2. k = key(r)
        BY <3>2, <4>1, RecordEffect
      <4>3. CASE Reserves(r) \/ Releases(r)
        <5>1. records'[k] \in {InFlight, Absent}
          BY <4>1, <4>2, <4>3, RecordEffect
        <5> QED BY <5>1, ConfirmsNothing DEF InFlight, Absent
      <4>4. CASE Settles(r)
        <5>1. records'[k] = Completed(execution_result'[r])
          BY <4>1, <4>2, <4>4, RecordEffect
        <5>2. PICK status : /\ status = "confirmed" => chain[r] = "mined"
                            /\ execution_result'[r] = ExecutionResult(status, r)
                            /\ UNCHANGED chain
          BY <4>4 DEF Settles
        <5>3. Sent(r)
          BY <1>a, <4>4
        <5>4. Confirms(execution_result'[r], chain')
          BY <5>2, <5>3 DEF Confirms, ExecutionResult, Sent
        <5> QED BY <5>1, <5>4 DEF Completed
      <4> QED BY <4>1, <4>3, <4>4
    <3> QED BY <3>1, <3>2
  <2>3. OutcomeOf(r)'
    <3>1. CASE Idles(r) /\ execution_result'[r] = execution_result[r]
      <4>1. OutcomeOf(r)
        BY DEF OutcomeInv
      <4> QED BY <1>1, <3>1, <4>1 DEF OutcomeOf, Idles
    <3>2. CASE /\ Idles(r) /\ pc'[r] \in Refusing /\ ~Sent(r)
               /\ \/ \E status \in {"rejected", "approval_denied"} :
                        execution_result'[r] = ExecutionResult(status, None)
                  \/ key(r) \in Keys /\ execution_result'[r] = records[key(r)].result
      <4>1. Confirms(execution_result'[r], chain')
        BY <1>1, <3>2, ConfirmsNothing DEF OutcomeInv
      <4>2. OutcomeOf(r)
        BY DEF OutcomeInv
      <4> QED BY <3>2, <4>1, <4>2 DEF OutcomeOf, Idles
    <3>3. CASE Reserves(r) \/ Submits(r)
      <4>1. execution_result'[r] = NoResult
        BY <3>3 DEF Reserves, Submits, Holds, HasResult
      <4> QED BY <3>3, <4>1 DEF OutcomeOf, NoResult, Confirms, Reserves, Submits
    <3>4. CASE Releases(r)
      BY <3>4 DEF Releases, OutcomeOf, Confirms, ExecutionResult
    <3>5. CASE Settles(r)
      <4>1. PICK status \in {"pending", "confirmed", "failed"} :
               /\ status = "confirmed" => chain[r] = "mined"
               /\ execution_result'[r] = ExecutionResult(status, r) /\ UNCHANGED chain
        BY <3>5 DEF Settles
      <4>2. Sent(r)
        BY <1>a, <3>5
      <4> QED BY <4>1, <4>2 DEF OutcomeOf, Confirms, ExecutionResult, Sent
    <3> QED BY <1>3, <3>1, <3>2, <3>3, <3>4, <3>5 DEF Effect, Idles, Answers
  <2> QED BY <2>1, <2>2, <2>3 DEF OutcomeInv
<1> QED BY <1>2, <1>3, EffectOfPipeline

\* OutcomeInv holds in the initial states.
LEMMA OutcomeInit == Init => OutcomeInv
BY DEF Init, StoreInit, Absent, OutcomeInv, OutcomeOf, NoResult, Confirms

\* What a finished run reports is true of the chain: a confirmed transaction
\* is mined and stays so, whoever replays the result; a transaction that a
\* result names, a pending or failed one too, was taken by the node; and a run
\* that reports a rejection or a denied approval has submitted nothing.
THEOREM OutcomeIsTrue == Spec => []ReportedOutcomeIsTrue
<1>1. IInv /\ OutcomeInv /\ [Next]_vars => OutcomeInv'
  BY PipelineNext, OutcomeStep DEF IInv
<1>2. OutcomeInv => ReportedOutcomeIsTrue
  BY DEF OutcomeInv, OutcomeOf, ReportedOutcomeIsTrue, Confirms, Sent
<1> QED BY <1>1, <1>2, OutcomeInit, Invariance, PTL DEF Spec

-----------------------------------------------------------------------------
(* Recorded transactions.                                                  *)

\* Transaction h was submitted under key k.
SubmittedUnder(h, k) == h \in Runs /\ tx_hash[h] = h /\ key(h) = k

\* A hash is only given for a submitted transaction, and a stored hash is
\* that of a transaction submitted under the key.
HistoryInv ==
    /\ \A r \in Runs : tx_hash[r] # None => Sent(r)
    /\ \A k \in Keys : records[k].result.tx_hash # None =>
          SubmittedUnder(records[k].result.tx_hash, k)

\* A submitted transaction keeps its hash, and its run its key.
LEMMA SubmittedStep ==
    ASSUME TypeOK, ControlInv, PipelineStep, NEW h, NEW k, SubmittedUnder(h, k)
    PROVE  SubmittedUnder(h, k)'
<1>1. CASE Rests
  BY <1>1 DEF Rests, SubmittedUnder, key
<1>2. ASSUME NEW r \in Runs, Effect(r) PROVE SubmittedUnder(h, k)'
  <2>1. CASE h # r
    BY <1>2, <2>1 DEF Effect, Apart, SubmittedUnder, key
  <2>2. CASE h = r
    <3>1. tx_hash[r] = r /\ r # None
      BY <2>2, NoneAssumption DEF SubmittedUnder
    <3>2. pc[r] # "prepare_transaction"
      BY <3>1 DEF ControlInv, ControlOf
    <3>3. tx_hash'[r] = r /\ key(r)' = key(r)
      BY <1>2, <3>1, <3>2 DEF Effect, Idles, Reserves, Submits, Releases, Settles, Acts
    <3> QED BY <2>2, <3>3 DEF SubmittedUnder
  <2> QED BY <2>1, <2>2
<1> QED BY <1>1, <1>2, EffectOfPipeline

\* Every step preserves HistoryInv.
LEMMA HistoryStep ==
    ASSUME IInv, HistoryInv, PipelineStep
    PROVE  HistoryInv'
<1> USE DEF IInv
<1>1. \A h, k : SubmittedUnder(h, k) => SubmittedUnder(h, k)'
  BY SubmittedStep
<1>2. CASE Rests
  BY <1>1, <1>2 DEF Rests, HistoryInv
<1>3. ASSUME NEW r \in Runs, Effect(r) PROVE HistoryInv'
  <2>1. ASSUME NEW q \in Runs PROVE tx_hash'[q] # None => Sent(q)'
    <3>1. CASE q # r
      BY <1>3, <3>1 DEF Effect, Apart, HistoryInv
    <3>2. CASE q = r
      BY <1>3, <3>2 DEF Effect, HistoryInv, Idles, Reserves, Submits, Releases, Settles, Sent
    <3> QED BY <3>1, <3>2
  <2>2. ASSUME NEW k \in Keys, NEW h, h = records'[k].result.tx_hash, h # None
        PROVE  SubmittedUnder(h, k)'
    <3>1. CASE records'[k] = records[k]
      BY <1>1, <2>2, <3>1 DEF HistoryInv
    <3>2. CASE records'[k] # records[k]
      <4>1. Acts(r) /\ (Reserves(r) \/ Releases(r) \/ Settles(r))
        BY <1>3, <3>2 DEF Effect, Idles, Submits, Reserves, Releases, Settles
      <4>2. k = key(r)
        BY <3>2, <4>1, RecordEffect
      <4>3. CASE Reserves(r) \/ Releases(r)
        <5>1. records'[k] \in {InFlight, Absent}
          BY <4>1, <4>2, <4>3, RecordEffect
        <5> QED BY <2>2, <5>1 DEF InFlight, Absent, NoResult
      <4>4. CASE Settles(r)
        <5>1. records'[k] = Completed(execution_result'[r])
          BY <4>1, <4>2, <4>4, RecordEffect
        <5>2. execution_result'[r].tx_hash = r /\ tx_hash'[r] = r
          BY <4>4, ResultType DEF Settles, ExecutionStatus
        <5>3. h = r
          BY <2>2, <5>1, <5>2 DEF Completed
        <5> QED BY <4>1, <4>2, <5>2, <5>3 DEF SubmittedUnder, Acts
      <4> QED BY <4>1, <4>3, <4>4
    <3> QED BY <3>1, <3>2
  <2> QED BY <2>1, <2>2 DEF HistoryInv, SubmittedUnder
<1> QED BY <1>2, <1>3, EffectOfPipeline

\* HistoryInv holds in the initial states.
LEMMA HistoryInit == Init => HistoryInv
BY DEF Init, StoreInit, Absent, HistoryInv, NoResult

-----------------------------------------------------------------------------
(* The gates in front of signing.                                          *)

\* Nodes that only an unrejected run reaches, and those behind the approval.
Judged == {"request_approval", "check_idempotency"} \cup Owning
Admitted == {"check_idempotency"} \cup Owning

Unrejected(r) ==
    ~rejection_reason(executable_transaction(r), simulation_result[r], Config)

Consented(r) ==
    is_value_moving(request[r].tx) =>
        /\ request[r].approval_response.status = "approved"
        /\ request[r].approval_response.idempotency_key \in {None, key(r)}

\* The verdict of the policy node stays true of the run while it goes on,
\* because neither its request nor its gas nor its simulation changes.
GateOf(r) ==
    /\ pc[r] \in Judged \/ chain[r] # "absent" => Unrejected(r)
    /\ pc[r] \in Admitted \/ chain[r] # "absent" => Consented(r)
    /\ pc[r] \in Owning \/ chain[r] # "absent" => key(r) \in Keys
    /\ chain[r] # "absent" => pc[r] \in {"monitor_receipt", "END"}

GateInv == \A r \in Runs : GateOf(r)

\* The policy engine lets a transaction pass only if no rule rejects it, and
\* without asking for approval only if it cannot move value.
LEMMA EvaluateGates ==
    ASSUME NEW tx, NEW simulation, NEW config
    PROVE  /\ evaluate(tx, simulation, config) # "rejected" =>
                  ~rejection_reason(tx, simulation, config)
           /\ evaluate(tx, simulation, config) = "allowed" => ~is_value_moving(tx)
BY DEF evaluate

\* Resolving the sender, the gas and the key changes neither value nor
\* calldata, so the executable moves value exactly if the request does.
LEMMA SameValue ==
    ASSUME TypeOK, NEW r \in Runs
    PROVE  is_value_moving(executable_transaction(r)) <=> is_value_moving(request[r].tx)
<1>1. request[r].tx \in PolicyTransaction
  BY RequestType DEF PreparedTransaction
<1>2. /\ executable_transaction(r).value_wei = request[r].tx.value_wei
      /\ executable_transaction(r).data = request[r].tx.data
  BY <1>1 DEF executable_transaction, PolicyTransaction
<1> QED BY <1>2 DEF is_value_moving

\* The approver says yes only to a response that approves this key.
LEMMA AnswerGates ==
    ASSUME NEW response, NEW k, approver_answer(response, k) = "approved"
    PROVE  response.status = "approved" /\ response.idempotency_key \in {None, k}
BY DEF approver_answer

\* A run whose verdict data does not change keeps its gates.
LEMMA Verdict ==
    ASSUME NEW q \in Runs, request'[q] = request[q], gas'[q] = gas[q],
           simulation_result'[q] = simulation_result[q]
    PROVE  /\ Unrejected(q)' <=> Unrejected(q)
           /\ Consented(q)' <=> Consented(q)
           /\ key(q)' = key(q)
BY DEF Unrejected, Consented, executable_transaction, key, wallet

\* A run keeps its gates over a step that changes neither its node nor its
\* verdict data and submits nothing for it.
LEMMA GateFrame ==
    ASSUME NEW q \in Runs, GateOf(q), request'[q] = request[q], gas'[q] = gas[q],
           simulation_result'[q] = simulation_result[q], pc'[q] = pc[q],
           chain'[q] # "absent" => chain[q] # "absent"
    PROVE  GateOf(q)'
BY Verdict DEF GateOf

\* Every action preserves the gates of every run.
LEMMA GateStep == TypeOK /\ GateInv /\ PipelineStep => GateInv'
<1> SUFFICES ASSUME TypeOK, GateInv, PipelineStep, NEW q \in Runs PROVE GateOf(q)'
  BY DEF GateInv
<1> USE DEF Set, Goto, checks, resolved, outcome
<1>a. GateOf(q)
  BY DEF GateInv
<1>1. ASSUME NEW r \in Runs, NEW n \in Nodes \ Judged, pc[r] \notin {"monitor_receipt", "END"},
             pc' = [pc EXCEPT ![r] = n], UNCHANGED chain,
             \A p \in Runs \ {r} : /\ request'[p] = request[p] /\ gas'[p] = gas[p]
                                   /\ simulation_result'[p] = simulation_result[p]
      PROVE  GateOf(q)'
  <2>1. CASE q # r
    BY <1>a, <1>1, <2>1, GateFrame DEF TypeOK
  <2>2. CASE q = r
    <3>1. chain'[q] = "absent" /\ pc'[q] = n
      BY <1>a, <1>1, <2>2 DEF GateOf, TypeOK
    <3> QED BY <1>1, <3>1 DEF GateOf, Judged, Admitted
  <2> QED BY <2>1, <2>2
<1>2. ASSUME NEW r \in Runs, Preparation(r) PROVE GateOf(q)'
  <2>1. PICK n \in {"prepare_transaction", "resolve_nonce", "reject_transaction", "END"} :
          pc' = [pc EXCEPT ![r] = n]
    BY <1>2 DEF Preparation
  <2>2. n \in Nodes \ Judged
    BY <2>1 DEF Nodes, Judged, Owning
  <2> QED BY <1>1, <1>2, <2>1, <2>2 DEF Preparation, At
<1>3. ASSUME NEW r \in Runs, resolve_nonce(r) PROVE GateOf(q)'
  BY <1>1, <1>3 DEF resolve_nonce, At, Nodes, Judged, Owning
<1>4. ASSUME NEW r \in Runs, populate_gas(r) PROVE GateOf(q)'
  <2>1. \A p \in Runs \ {r} : gas'[p] = gas[p]
    BY <1>4 DEF populate_gas, TypeOK
  <2> QED BY <1>1, <1>4, <2>1 DEF populate_gas, At, Nodes, Judged, Owning
<1>5. ASSUME NEW r \in Runs, simulate_transaction(r) PROVE GateOf(q)'
  <2>1. \A p \in Runs \ {r} : simulation_result'[p] = simulation_result[p]
    BY <1>5 DEF simulate_transaction, TypeOK
  <2> QED BY <1>1, <1>5, <2>1 DEF simulate_transaction, At, Nodes, Judged, Owning
<1>6. ASSUME NEW r \in Runs, pc[r] \notin {"monitor_receipt", "END"},
             UNCHANGED <<request, gas, simulation_result>>,
             NEW n \in Nodes, pc' = [pc EXCEPT ![r] = n],
             n \in Judged => Unrejected(r),
             n \in Admitted => Consented(r),
             n \in Owning => key(r) \in Keys,
             \A p \in Runs : chain'[p] # "absent" => p = r \/ chain[p] # "absent",
             chain'[r] # "absent" => n = "monitor_receipt"
      PROVE  GateOf(q)'
  <2>1. CASE q # r
    BY <1>a, <1>6, <2>1, GateFrame DEF TypeOK
  <2>2. CASE q = r
    <3>1. pc'[q] = n
      BY <1>6, <2>2 DEF TypeOK
    <3>2. "monitor_receipt" \in Judged \cap Admitted \cap Owning
      BY DEF Judged, Admitted, Owning
    <3> QED BY <1>6, <2>2, <3>1, <3>2, Verdict DEF GateOf
  <2> QED BY <2>1, <2>2
<1>7. ASSUME NEW r \in Runs, evaluate_policy(r) PROVE GateOf(q)'
  <2> DEFINE decision == IF error[r] THEN "rejected"
                         ELSE evaluate(executable_transaction(r), simulation_result[r], Config)
             n == route_after_transaction_policy(decision)
  <2>1. /\ pc' = [pc EXCEPT ![r] = n] /\ pc[r] = "evaluate_policy"
        /\ UNCHANGED <<request, gas, simulation_result, chain>>
    BY <1>7 DEF evaluate_policy, At
  <2>2. decision # "rejected" => Unrejected(r)
    BY EvaluateGates DEF Unrejected
  <2>3. decision = "allowed" => Consented(r)
    BY EvaluateGates, SameValue DEF Consented
  <2>4. decision \in PolicyDecisionStatus
    BY EvaluateType DEF PolicyDecisionStatus
  <2> HIDE DEF decision
  <2>5. /\ n \in {"reject_transaction", "request_approval", "check_idempotency"}
        /\ n # "reject_transaction" => decision # "rejected"
        /\ n = "check_idempotency" => decision \notin {"rejected", "needs_approval"}
    BY RouteType DEF route_after_transaction_policy
  <2> HIDE DEF n
  <2>6. /\ n \in Nodes /\ n \notin Owning
        /\ n \in Judged => Unrejected(r)
        /\ n \in Admitted => Consented(r)
    BY <2>2, <2>3, <2>4, <2>5 DEF Nodes, Judged, Admitted, Owning, PolicyDecisionStatus
  <2>7. chain[r] = "absent"
    BY <2>1 DEF GateInv, GateOf
  <2> QED BY <1>6, <2>1, <2>6, <2>7
<1>8. ASSUME NEW r \in Runs, request_approval(r) PROVE GateOf(q)'
  <2>1. /\ pc[r] = "request_approval"
        /\ UNCHANGED <<request, gas, simulation_result, chain>>
    BY <1>8 DEF request_approval, At
  <2>2. chain[r] = "absent" /\ Unrejected(r)
    BY <2>1 DEF GateInv, GateOf, Judged
  <2>3. CASE pc' = [pc EXCEPT ![r] = "reject_transaction"]
    BY <1>1, <2>1, <2>3 DEF Nodes, Judged, Owning
  <2>4. CASE /\ pc' = [pc EXCEPT ![r] = "check_idempotency"]
             /\ approver_answer(request[r].approval_response, key(r)) = "approved"
    <3>1. Consented(r)
      BY <2>4, AnswerGates DEF Consented
    <3> QED BY <1>6, <2>1, <2>2, <2>4, <3>1 DEF Nodes, Owning
  <2>5. None # "approved"
    BY NoneAssumption DEF ApprovalStatus
  <2> DEFINE answer == IF key(r) = None THEN None
                       ELSE approver_answer(request[r].approval_response, key(r))
  <2>6. CASE answer # "approved"
    BY <1>8, <2>3, <2>6 DEF request_approval, Goto
  <2>7. CASE answer = "approved"
    BY <1>8, <2>4, <2>5, <2>7 DEF request_approval, Goto
  <2> QED BY <2>6, <2>7
<1>9. ASSUME NEW r \in Runs, check_idempotency(r) PROVE GateOf(q)'
  <2>1. /\ pc[r] = "check_idempotency"
        /\ UNCHANGED <<request, gas, simulation_result, chain>>
    BY <1>9 DEF check_idempotency, At
  <2>2. chain[r] = "absent" /\ Unrejected(r) /\ Consented(r)
    BY <2>1 DEF GateInv, GateOf, Judged, Admitted
  <2>3. CASE pc' = [pc EXCEPT ![r] = "reject_transaction"]
    BY <1>1, <2>1, <2>3 DEF Nodes, Judged, Owning
  <2>4. CASE pc' = [pc EXCEPT ![r] = "sign_transaction"] /\ key(r) # None
    <3>1. key(r) \in Keys
      BY <2>4, RequestType
    <3> QED BY <1>6, <2>1, <2>2, <2>4, <3>1 DEF Nodes
  <2> QED BY <1>9, <2>3, <2>4 DEF check_idempotency
<1>10. ASSUME NEW r \in Runs, sign_transaction(r) PROVE GateOf(q)'
  <2>1. /\ pc[r] = "sign_transaction" /\ pc' = [pc EXCEPT ![r] = "broadcast_transaction"]
        /\ UNCHANGED <<request, gas, simulation_result, chain>>
    BY <1>10 DEF sign_transaction, At
  <2>2. chain[r] = "absent" /\ Unrejected(r) /\ Consented(r) /\ key(r) \in Keys
    BY <2>1 DEF GateInv, GateOf, Judged, Admitted, Owning
  <2> QED BY <1>6, <2>1, <2>2 DEF Nodes
<1>11. ASSUME NEW r \in Runs, broadcast_transaction(r) PROVE GateOf(q)'
  <2>1. /\ pc[r] = "broadcast_transaction" /\ pc' = [pc EXCEPT ![r] = "monitor_receipt"]
        /\ UNCHANGED <<request, gas, simulation_result>>
    BY <1>11 DEF broadcast_transaction, At
  <2>2. Unrejected(r) /\ Consented(r) /\ key(r) \in Keys
    BY <2>1 DEF GateInv, GateOf, Judged, Admitted, Owning
  <2>3. \A p \in Runs : chain'[p] # "absent" => p = r \/ chain[p] # "absent"
    BY <1>11 DEF broadcast_transaction, Accept, Occupies, OnChain
  <2> QED BY <1>6, <2>1, <2>2, <2>3 DEF Nodes
<1>12. ASSUME NEW r \in Runs, monitor_receipt(r) \/ reject_transaction(r) PROVE GateOf(q)'
  <2>1. /\ pc[r] \in {"monitor_receipt", "reject_transaction"}
        /\ pc' = [pc EXCEPT ![r] = "END"]
        /\ UNCHANGED <<request, gas, simulation_result, chain>>
    BY <1>12 DEF monitor_receipt, reject_transaction, At
  <2>2. CASE q # r
    BY <1>a, <2>1, <2>2, GateFrame DEF TypeOK
  <2>3. CASE q = r
    <3>1. pc'[q] = "END"
      BY <2>1, <2>3 DEF TypeOK
    <3> QED BY <1>a, <2>1, <3>1, Verdict DEF GateOf, Judged, Admitted, Owning
  <2> QED BY <2>2, <2>3
<1>13. ASSUME NEW r \in Runs, Mine(r) PROVE GateOf(q)'
  <2>1. chain'[q] # "absent" => chain[q] # "absent"
    BY <1>13 DEF Mine, TypeOK
  <2> QED BY <1>a, <1>13, <2>1, GateFrame DEF Mine
<1>14. CASE UNCHANGED vars
  BY <1>a, <1>14, GateFrame DEF vars
<1> QED
  BY <1>2, <1>3, <1>4, <1>5, <1>7, <1>8, <1>9, <1>10, <1>11, <1>12, <1>13, <1>14
  DEF PipelineStep, Step

\* Nothing has been submitted or admitted when the runs start.
LEMMA GateInit == Init => GateInv
BY DEF Init, GateInv, GateOf, Judged, Admitted, Owning

\* What has been submitted had passed the gates.
LEMMA GatesPassed == GateInv => SubmittedOnlyThroughGates
BY DEF GateInv, GateOf, Unrejected, Consented, SubmittedOnlyThroughGates

\* Nothing reaches the chain that policy rejects in the state it was signed
\* in, that has no key or, when it can move value, that its caller did not
\* approve: the edges of _add_transaction_pipeline leave no way around the
\* gates, for any request and configuration.
THEOREM Gated == Spec => []SubmittedOnlyThroughGates
<1>1. TypeOK /\ GateInv /\ [Next]_vars => GateInv'
  BY PipelineNext, GateStep
<1> QED BY <1>1, GateInit, GatesPassed, TypeCorrect, PTL DEF Spec

-----------------------------------------------------------------------------
(* The pipeline implements IdempotentExecution.                            *)

SentUnder(k) == {r \in Runs : key(r) = k /\ Sent(r)}

\* The ledger entry of a key in each status of its record; the holder is the
\* run the mapping chooses.
EntryOf(k) ==
    /\ records[k].status = "absent" => LedgerEntry(k) = Abstract!Free
    /\ records[k].status = "completed" =>
          LedgerEntry(k) = Abstract!Entry("settled", None, records[k].result)
    /\ \A r \in Runs : Holds(r, k) =>
          /\ tx_hash[r] = None => LedgerEntry(k) = Abstract!Entry("claimed", r, NoResult)
          /\ tx_hash[r] # None => LedgerEntry(k) = Abstract!Entry("submitted", r, NoResult)

EntryInv == \A k \in Keys : EntryOf(k)

\* The values of the shared module mean the same in both specifications.
LEMMA SameValues ==
    /\ Abstract!NoResult = NoResult
    /\ \A status, h : Abstract!ExecutionResult(status, h) = ExecutionResult(status, h)
BY DEF Abstract!NoResult, NoResult, Abstract!ExecutionResult, ExecutionResult

\* The entries are as EntryOf says, since a held key has one holder.
LEMMA Entries == OwnerInv => EntryInv
<1> SUFFICES ASSUME OwnerInv, NEW k \in Keys PROVE EntryOf(k)
  BY DEF EntryInv
<1>1. ASSUME NEW r \in Runs, Holds(r, k)
      PROVE  holder(k) = r /\ records[k].status = "in_flight"
  <2>1. (\A q \in Runs : Holds(q, k) => q = r) /\ records[k].status = "in_flight"
    BY <1>1 DEF OwnerInv, OwnerOf
  <2> QED BY <1>1, <2>1 DEF holder
<1>2. \A r \in Runs : Holds(r, k) =>
          /\ tx_hash[r] = None => LedgerEntry(k) = Abstract!Entry("claimed", r, NoResult)
          /\ tx_hash[r] # None => LedgerEntry(k) = Abstract!Entry("submitted", r, NoResult)
  BY <1>1 DEF LedgerEntry, Abstract!Entry
<1> QED BY <1>2, SameValues DEF EntryOf, LedgerEntry, Abstract!Entry, Abstract!Free

\* The same in the next state.
LEMMA NextEntries == OwnerInv' => EntryInv'
BY Entries, PTL

\* The mapped variables.
Ledger == [k \in Keys |-> LedgerEntry(k)]
SentLog == [k \in Keys |-> SentUnder(k)]

\* A step of the pipeline keeps the ledger entry of every key whose record,
\* holder and holder's hash it keeps.
LEMMA EntryFrame ==
    ASSUME TypeOK, OwnerInv, OwnerInv', NEW k \in Keys, records'[k] = records[k],
           \A q \in Runs : Holds(q, k) => Holds(q, k)' /\ tx_hash'[q] = tx_hash[q]
    PROVE  LedgerEntry(k)' = LedgerEntry(k)
<1>1. EntryOf(k) /\ EntryOf(k)'
  BY Entries, NextEntries DEF EntryInv
<1>2. records[k].status \in {"absent", "completed"} => LedgerEntry(k)' = LedgerEntry(k)
  BY <1>1 DEF EntryOf, Abstract!Entry, Abstract!Free
<1>3. records[k].status = "in_flight" => LedgerEntry(k)' = LedgerEntry(k)
  <2> SUFFICES ASSUME NEW q \in Runs, Holds(q, k) PROVE LedgerEntry(k)' = LedgerEntry(k)
    BY DEF OwnerInv, OwnerOf
  <2>1. Holds(q, k)' /\ tx_hash'[q] = tx_hash[q]
    OBVIOUS
  <2> QED BY <1>1, <2>1 DEF EntryOf, Abstract!Entry
<1> QED BY <1>2, <1>3 DEF TypeOK, IdempotencyStatus

\* A step that submits nothing under a key keeps the log of the key.
LEMMA SentFrame ==
    ASSUME NEW k \in Keys, \A q \in Runs : Sent(q)' <=> Sent(q),
           \A q \in Runs : Sent(q) => key(q)' = key(q)
    PROVE  SentUnder(k)' = SentUnder(k)
BY DEF SentUnder

\* A change of one ledger entry, and of nothing else, in the form the
\* abstract actions have.
LEMMA OneEntry ==
    ASSUME NEW k0 \in Keys, \A k \in Keys \ {k0} : LedgerEntry(k)' = LedgerEntry(k)
    PROVE  Ledger' = [Ledger EXCEPT ![k0] = LedgerEntry(k0)']
BY DEF Ledger

\* The store and the chain of the pipeline step as the abstract ledger
\* steps: reserving claims the key, a failure before the broadcast abandons
\* it, the broadcast submits and the receipt settles.
LEMMA RefineStep ==
    ASSUME "lost_reply" \notin Faults, IInv, IInv', PipelineStep
    PROVE  Abstract!Next \/ UNCHANGED Abstract!vars
<1> USE DEF IInv
<1>a. UNCHANGED <<Ledger, SentLog>> => UNCHANGED Abstract!vars
  BY DEF Abstract!vars, Ledger, SentLog, SentUnder, Sent
<1>1. CASE Rests
  <2>1. ASSUME NEW k \in Keys PROVE LedgerEntry(k)' = LedgerEntry(k)
    <3>1. \A q \in Runs : Holds(q, k) => Holds(q, k)' /\ tx_hash'[q] = tx_hash[q]
      BY <1>1 DEF Rests, Holds, HasResult, key
    <3> QED BY <1>1, <3>1, EntryFrame DEF Rests
  <2>2. ASSUME NEW k \in Keys PROVE SentUnder(k)' = SentUnder(k)
    BY <1>1, SentFrame DEF Rests, key
  <2> QED BY <1>a, <2>1, <2>2 DEF Ledger, SentLog
<1>2. ASSUME NEW r \in Runs, Effect(r) PROVE Abstract!Next \/ UNCHANGED Abstract!vars
  <2>1. ASSUME NEW q \in Runs \ {r}
        PROVE  /\ key(q)' = key(q) /\ tx_hash'[q] = tx_hash[q] /\ (Sent(q)' <=> Sent(q))
               /\ \A k : Holds(q, k)' <=> Holds(q, k)
    BY <1>2, OthersKeep DEF Effect, Apart
  <2>2. CASE Idles(r)
    <3>1. ASSUME NEW k \in Keys PROVE LedgerEntry(k)' = LedgerEntry(k)
      <4>1. \A q \in Runs : Holds(q, k) => Holds(q, k)' /\ tx_hash'[q] = tx_hash[q]
        BY <2>1, <2>2 DEF Idles
      <4> QED BY <2>2, <4>1, EntryFrame DEF Idles
    <3>2. Sent(r) => key(r)' = key(r)
      BY <2>2 DEF Idles, ControlInv, ControlOf
    <3>3. ASSUME NEW k \in Keys PROVE SentUnder(k)' = SentUnder(k)
      BY <2>1, <2>2, <3>2, SentFrame DEF Idles
    <3> QED BY <1>a, <3>1, <3>3 DEF Ledger, SentLog
  <2>3. CASE Reserves(r) \/ Submits(r) \/ Releases(r) \/ Settles(r)
    <3>1. Acts(r)
      BY <2>3 DEF Reserves, Submits, Releases, Settles
    <3>2. PICK k0 \in Keys : k0 = key(r) /\ k0 = key(r)'
      BY <3>1 DEF Acts
    <3>3. EntryOf(k0) /\ EntryOf(k0)'
      BY Entries, NextEntries DEF EntryInv
    <3>4. ASSUME NEW k \in Keys \ {k0} PROVE LedgerEntry(k)' = LedgerEntry(k)
      <4>1. records'[k] = records[k]
        BY <2>3, <3>1, <3>2, RecordEffect DEF Submits
      <4>2. ~Holds(r, k)
        BY <3>2 DEF Holds
      <4> QED BY <2>1, <4>1, <4>2, EntryFrame
    <3>5. Ledger' = [Ledger EXCEPT ![k0] = LedgerEntry(k0)']
      BY <3>4, OneEntry
    <3>6. Ledger[k0] = LedgerEntry(k0)
      BY DEF Ledger
    <3>7. (Sent(r)' <=> Sent(r)) => UNCHANGED SentLog
      BY <2>1, <3>2, SentFrame DEF SentLog
    <3>8. CASE Reserves(r)
      <4>1. records[key(r)].status = "absent"
        BY <3>1, <3>8, RecordEffect
      <4>2. Holds(r, k0)' /\ tx_hash'[r] = None
        BY <3>2, <3>8 DEF Reserves, Holds
      <4>3. /\ LedgerEntry(k0) = Abstract!Free
            /\ LedgerEntry(k0)' = Abstract!Entry("claimed", r, NoResult)
        BY <3>2, <3>3, <4>1, <4>2 DEF EntryOf
      <4>4. UNCHANGED SentLog
        BY <3>7, <3>8 DEF Reserves
      <4>5. Abstract!Claim(k0, r)
        BY <3>5, <3>6, <4>3, <4>4, SameValues DEF Abstract!Claim, Ledger, SentLog, SentUnder, Sent
      <4> QED BY <4>5 DEF Abstract!Next
    <3>9. CASE Releases(r)
      <4>1. records'[key(r)] = Absent
        BY <3>1, <3>9, RecordEffect
      <4>2. Holds(r, k0) /\ tx_hash[r] = None
        BY <3>2, <3>9 DEF Releases, Holds
      <4>3. /\ LedgerEntry(k0) = Abstract!Entry("claimed", r, NoResult)
            /\ LedgerEntry(k0)' = Abstract!Free
        BY <3>2, <3>3, <4>1, <4>2 DEF EntryOf, Absent
      <4>4. UNCHANGED SentLog
        BY <3>7, <3>9 DEF Releases
      <4>5. Abstract!Abandon(k0)
        BY <3>5, <3>6, <4>3, <4>4 DEF Abstract!Abandon, Abstract!Entry, Ledger, SentLog, SentUnder, Sent
      <4> QED BY <4>5 DEF Abstract!Next
    <3>10. CASE Submits(r)
      <4>1. /\ Holds(r, k0) /\ tx_hash[r] = None
            /\ Holds(r, k0)' /\ tx_hash'[r] = r /\ r # None
        BY <3>2, <3>10, NoneAssumption DEF Submits, Holds
      <4>2. /\ LedgerEntry(k0) = Abstract!Entry("claimed", r, NoResult)
            /\ LedgerEntry(k0)' = Abstract!Entry("submitted", r, NoResult)
        BY <3>3, <4>1 DEF EntryOf
      <4>3. ~Sent(r) /\ Sent(r)'
        BY <3>10 DEF Submits
      <4>4. /\ SentUnder(k0)' = SentUnder(k0) \cup {r}
            /\ \A k \in Keys \ {k0} : SentUnder(k)' = SentUnder(k)
        BY <2>1, <3>2, <4>3 DEF SentUnder
      <4>5. SentLog' = [SentLog EXCEPT ![k0] = @ \cup {r}]
        BY <4>4 DEF SentLog
      <4>6. Abstract!Submit(k0, r)
        BY <3>5, <3>6, <4>2, <4>5, SameValues DEF Abstract!Submit, Ledger, SentLog, SentUnder, Sent
      <4> QED BY <4>6 DEF Abstract!Next
    <3>11. CASE Settles(r)
      <4>1. Holds(r, k0) /\ tx_hash[r] = r /\ r # None
        BY <3>2, <3>11, NoneAssumption DEF Settles, Holds
      <4>2. LedgerEntry(k0) = Abstract!Entry("submitted", r, NoResult)
        BY <3>3, <4>1 DEF EntryOf
      <4>3. PICK status \in {"pending", "confirmed", "failed"} :
               execution_result'[r] = ExecutionResult(status, r)
        BY <3>11 DEF Settles
      <4>4. records'[key(r)] = Completed(ExecutionResult(status, r))
        BY <3>1, <3>11, <4>3, RecordEffect
      <4>5. LedgerEntry(k0)' = Abstract!Entry("settled", None, ExecutionResult(status, r))
        BY <3>2, <3>3, <4>4 DEF EntryOf, Completed
      <4>6. UNCHANGED SentLog
        BY <3>7, <3>11 DEF Settles, Sent
      <4>7. Abstract!Settle(k0, r)
        BY <3>5, <3>6, <4>2, <4>3, <4>5, <4>6, SameValues
        DEF Abstract!Settle, Ledger, SentLog, SentUnder, Sent
      <4> QED BY <4>7 DEF Abstract!Next
    <3> QED BY <2>3, <3>8, <3>9, <3>10, <3>11
  <2> QED BY <1>2, <2>2, <2>3 DEF Effect
<1> QED BY <1>1, <1>2, EffectOfPipeline

\* The empty store and the silent chain are the abstract initial state.
LEMMA RefineInit == Init => Abstract!Init
BY SameValues
DEF Init, StoreInit, Absent, Abstract!Init, Abstract!Free, Abstract!Entry, LedgerEntry

\* If an exception from eth_sendRawTransaction always means that nothing was
\* submitted, the pipeline implements the abstract ledger: whatever the
\* interleaving of runs, retries and failures, a key is claimed by one run
\* at a time, submits once and keeps its outcome.
THEOREM ImplementsLedger ==
    ASSUME "lost_reply" \notin Faults
    PROVE  Spec => ImplementsIdempotentExecution
<1>1. IInv /\ IInv' /\ [Next]_vars => [Abstract!Next]_(Abstract!vars)
  BY PipelineNext, RefineStep DEF IInv
<1> QED BY <1>1, RefineInit, Invariance, PTL DEF Spec, Abstract!Spec, ImplementsIdempotentExecution

-----------------------------------------------------------------------------
(* PipelineRestart, for every number of restarts.                          *)
(*                                                                         *)
(* A restart empties the store and ends the runs, which keeps types,       *)
(* control and ownership of reservations but not what is known of hashes:  *)
(* those of earlier processes are no longer in the store.  What remains    *)
(* true is said of the submissions of the present process only, and of     *)
(* those of past processes that nothing is added to them.                  *)

\* A submission of the present process is still held or is recorded.
BootOf(r) ==
    Sent(r) /\ submitted_in[r] = boot =>
        /\ key(r) \in Keys
        /\ \/ Holds(r, key(r))
           \/ records[key(r)].status = "completed"

BootInv ==
    /\ boot \in Nat
    /\ submitted_in \in [Runs -> Nat \cup {None}]
    /\ \A r \in Runs : Sent(r) => submitted_in[r] \in 0..boot
    /\ \A r \in Runs : BootOf(r)
    /\ OneSubmissionPerProcess

RestartInv == TypeOK /\ ControlInv /\ OwnerInv /\ BootInv

\* A step inside one process is a step of the pipeline.
LEMMA RunningStep == TypeOK /\ Running => PipelineStep
<1>1. TypeOK /\ (\E r \in Runs : prepare_transaction(r) \/ Step(r) \/ Mine(r)) => PipelineStep
  BY PipelineNext DEF Next
<1> QED BY <1>1 DEF Running

\* A step inside one process adds at most one submission to it, and under a
\* key that no other submission of the process has.
LEMMA RunningBoot ==
    ASSUME "lost_reply" \notin Faults, RestartInv, Running
    PROVE  BootInv'
<1> USE DEF RestartInv
<1>1. PipelineStep /\ boot' = boot
  BY RunningStep DEF Running
<1>2. ASSUME NEW q \in Runs
      PROVE  submitted_in'[q] = IF ~Sent(q) /\ Sent(q)' THEN boot ELSE submitted_in[q]
  BY DEF Running, Submitted, Sent
<1>3. submitted_in' \in [Runs -> Nat \cup {None}]
  BY DEF Running, BootInv
<1>4. ASSUME NEW q \in Runs, Sent(q)' PROVE submitted_in'[q] \in 0..boot'
  BY <1>1, <1>2, <1>4 DEF BootInv
<1>5. \A k \in Keys : records[k].status = "completed" => records'[k] = records[k]
  BY <1>1, CompletedStep
<1>6. ASSUME NEW q \in Runs, Sent(q)' <=> Sent(q), Sent(q) => key(q)' = key(q),
             Sent(q) /\ Holds(q, key(q)) =>
                Holds(q, key(q))' \/ records'[key(q)].status = "completed"
      PROVE  BootOf(q)'
  <2>1. BootOf(q)
    BY DEF BootInv
  <2> QED BY <1>1, <1>2, <1>5, <1>6, <2>1 DEF BootOf
<1>7. ASSUME \A q \in Runs : Sent(q)' <=> Sent(q), \A q \in Runs : Sent(q) => key(q)' = key(q)
      PROVE  OneSubmissionPerProcess'
  BY <1>2, <1>7 DEF BootInv, OneSubmissionPerProcess, Submitted, Sent
<1>8. CASE Rests
  <2>1. \A q \in Runs : /\ (Sent(q)' <=> Sent(q)) /\ key(q)' = key(q)
                        /\ Holds(q, key(q)) => Holds(q, key(q))'
    BY <1>8 DEF Rests, Holds, HasResult, key
  <2>2. \A q \in Runs : BootOf(q)'
    BY <1>6, <2>1
  <2>3. OneSubmissionPerProcess'
    BY <1>7, <2>1
  <2> QED BY <1>1, <1>3, <1>4, <2>2, <2>3 DEF BootInv
<1>9. ASSUME NEW r \in Runs, Effect(r) PROVE BootInv'
  <2>1. ASSUME NEW q \in Runs \ {r}
        PROVE  /\ key(q)' = key(q) /\ (Sent(q)' <=> Sent(q))
               /\ Holds(q, key(q)) => Holds(q, key(q))'
               /\ BootOf(q)'
    <3>1. Apart(q)
      BY <1>9 DEF Effect
    <3>2. key(q)' = key(q) /\ (Sent(q)' <=> Sent(q)) /\ (Holds(q, key(q)) => Holds(q, key(q))')
      BY <3>1 DEF Apart, key, Holds, HasResult
    <3> QED BY <1>6, <3>2
  <2>2. CASE Idles(r)
    <3>1. (Sent(r)' <=> Sent(r)) /\ (Sent(r) => key(r)' = key(r))
      BY <2>2 DEF Idles, ControlInv, ControlOf
    <3>2. Sent(r) /\ Holds(r, key(r)) => Holds(r, key(r))'
      <4>1. \A k \in Keys : Holds(r, k) => Holds(r, k)'
        BY <2>2 DEF Idles
      <4>2. Holds(r, key(r)) => key(r) \in Keys
        BY DEF ControlInv, ControlOf, Holds, Owning
      <4> QED BY <3>1, <4>1, <4>2 DEF Holds
    <3>3. BootOf(r)'
      BY <1>6, <3>1, <3>2
    <3> QED BY <1>1, <1>3, <1>4, <1>7, <2>1, <3>1, <3>3 DEF BootInv
  <2>3. CASE Reserves(r) \/ Releases(r) \/ Settles(r)
    <3>1. Acts(r) /\ (Sent(r)' <=> Sent(r))
      BY <2>3 DEF Reserves, Releases, Settles, Sent
    <3>2. Sent(r) /\ Holds(r, key(r)) => records'[key(r)].status = "completed"
      <4>1. Settles(r) => records'[key(r)] = Completed(execution_result'[r])
        BY <3>1, RecordEffect
      <4> QED BY <2>3, <4>1 DEF Reserves, Releases, Completed
    <3>3. BootOf(r)'
      BY <1>6, <3>1, <3>2 DEF Acts
    <3> QED BY <1>1, <1>3, <1>4, <1>7, <2>1, <3>1, <3>3 DEF BootInv, Acts
  <2>4. CASE Submits(r)
    <3>1. /\ Acts(r) /\ ~Sent(r) /\ Sent(r)' /\ Holds(r, key(r)) /\ Holds(r, key(r))'
          /\ records[key(r)].status = "in_flight"
      BY <2>4, RecordEffect DEF Submits
    <3>2. BootOf(r)'
      BY <3>1 DEF BootOf, Acts
    <3>3. ASSUME NEW q \in Runs, q # r, Sent(q), key(q) = key(r) PROVE submitted_in[q] # boot
      <4>1. BootOf(q) /\ OwnerOf(key(r))
        BY <3>1 DEF BootInv, OwnerInv, Acts
      <4> QED BY <3>1, <3>3, <4>1 DEF BootOf, OwnerOf
    <3>4. submitted_in'[r] = boot /\ \A q \in Runs \ {r} : submitted_in'[q] = submitted_in[q]
      BY <1>2, <2>1, <3>1
    <3>5. \A q \in Runs \ {r} : key(q)' = key(q) /\ (Sent(q)' <=> Sent(q))
      BY <2>1
    <3>6. OneSubmissionPerProcess'
      <4> SUFFICES ASSUME NEW p \in Runs, NEW q \in Runs, p # q, key(p)' = key(q)',
                          Sent(p)', Sent(q)'
                   PROVE  submitted_in'[p] # submitted_in'[q]
        BY DEF OneSubmissionPerProcess, Submitted, Sent
      <4>1. CASE p = r \/ q = r
        BY <3>1, <3>3, <3>4, <3>5, <4>1 DEF Acts
      <4>2. CASE p # r /\ q # r
        <5>1. key(p) = key(q) /\ Sent(p) /\ Sent(q)
          BY <3>5, <4>2
        <5> QED BY <3>4, <4>2, <5>1 DEF BootInv, OneSubmissionPerProcess, Submitted, Sent
      <4> QED BY <4>1, <4>2
    <3> QED BY <1>1, <1>3, <1>4, <2>1, <3>2, <3>6 DEF BootInv
  <2> QED BY <1>9, <2>2, <2>3, <2>4 DEF Effect
<1> QED BY <1>1, <1>8, <1>9, EffectOfPipeline

\* A restart leaves no reservation and no holder, and opens a process in
\* which nothing was submitted yet.
LEMMA RestartStep ==
    ASSUME RestartInv, Restart
    PROVE  RestartInv'
<1> USE DEF RestartInv
<1>1. /\ boot' = boot + 1 /\ records' = [k \in Keys |-> Absent]
      /\ \A r \in Runs : pc'[r] = IF Started(r) THEN "END" ELSE pc[r]
      /\ UNCHANGED <<request, tx_hash, execution_result, chain, submitted_in>>
  BY DEF Restart, outcome
<1>2. TypeOK'
  <2>1. pc' \in [Runs -> Nodes]
    BY DEF Restart, TypeOK, Nodes
  <2>2. records' \in [Keys -> Record]
    BY <1>1 DEF Absent, Record, IdempotencyStatus
  <2> QED BY <2>1, <2>2 DEF Restart, TypeOK, Record, outcome, resolved, checks
<1>3. \A r \in Runs : pc'[r] \in {"prepare_transaction", "END"} /\ (pc'[r] = pc[r] \/ pc'[r] = "END")
  BY <1>1 DEF Started
<1>4. ControlInv'
  <2> SUFFICES ASSUME NEW r \in Runs PROVE ControlOf(r)'
    BY DEF ControlInv
  <2>1. ControlOf(r) /\ UNCHANGED <<key(r), HasResult(r), Sent(r), tx_hash[r]>>
    BY <1>1 DEF ControlInv, key, HasResult, Sent
  <2> QED BY <1>3, <2>1 DEF ControlOf, Early, Owning
<1>5. OwnerInv'
  <2>1. \A k \in Keys : \A r \in Runs : ~Holds(r, k)'
    BY <1>3 DEF Holds
  <2>2. \A k \in Keys : records'[k].status = "absent"
    BY <1>1 DEF Absent
  <2> QED BY <2>1, <2>2 DEF OwnerInv, OwnerOf
<1>6. \A r \in Runs : (Sent(r)' <=> Sent(r)) /\ key(r)' = key(r)
  BY <1>1 DEF Sent, key
<1>7. \A r \in Runs : Sent(r)' => submitted_in'[r] \in 0..boot' /\ submitted_in'[r] # boot'
  BY <1>1, <1>6 DEF BootInv
<1>8. BootInv'
  <2>1. boot' \in Nat /\ submitted_in' \in [Runs -> Nat \cup {None}]
    BY <1>1 DEF BootInv
  <2>2. \A r \in Runs : BootOf(r)'
    BY <1>7 DEF BootOf
  <2>3. OneSubmissionPerProcess'
    BY <1>1, <1>6 DEF BootInv, OneSubmissionPerProcess, Submitted, Sent
  <2> QED BY <1>7, <2>1, <2>2, <2>3 DEF BootInv
<1> QED BY <1>2, <1>4, <1>5, <1>8

\* Within one process a key submits at most one transaction, however often
\* the process is restarted and whatever fails or is retried, as long as a
\* failed broadcast means that nothing was submitted: the second submission
\* of a key is always one of another process.
THEOREM OncePerProcess ==
    ASSUME "lost_reply" \notin Faults
    PROVE  RestartSpec => []OneSubmissionPerProcess
<1>1. RestartInit => RestartInv
  <2>1. RestartInit => IInv /\ boot = 0 /\ submitted_in = [r \in Runs |-> None]
                       /\ \A r \in Runs : ~Sent(r)
    BY InvInit DEF RestartInit, Init, Sent
  <2> QED BY <2>1 DEF IInv, RestartInv, BootInv, BootOf, OneSubmissionPerProcess, Submitted, Sent
<1>2. RestartInv /\ [RestartNext]_restart_vars => RestartInv'
  <2> SUFFICES ASSUME RestartInv, [RestartNext]_restart_vars PROVE RestartInv'
    OBVIOUS
  <2>1. CASE Running
    <3>1. TypeOK' /\ ControlInv' /\ OwnerInv'
      BY <2>1, RunningStep, TypeStep, OwnerStep DEF RestartInv
    <3> QED BY <2>1, <3>1, RunningBoot DEF RestartInv
  <2>2. CASE Restart
    BY <2>2, RestartStep
  <2>3. CASE UNCHANGED restart_vars
    <3>1. UNCHANGED <<vars, boot, submitted_in>>
      BY <2>3 DEF restart_vars
    <3>2. PipelineStep
      BY <3>1 DEF PipelineStep
    <3>3. TypeOK' /\ ControlInv' /\ OwnerInv'
      BY <3>2, TypeStep, OwnerStep DEF RestartInv
    <3>4. BootInv'
      BY <3>1 DEF RestartInv, BootInv, BootOf, OneSubmissionPerProcess, Submitted, Sent,
                  vars, outcome, Holds, HasResult, key
    <3> QED BY <3>3, <3>4 DEF RestartInv
  <2> QED BY <2>1, <2>2, <2>3 DEF RestartNext, Terminated, restart_vars
<1>3. RestartInv => OneSubmissionPerProcess
  BY DEF RestartInv, BootInv
<1> QED BY <1>1, <1>2, <1>3, PTL DEF RestartSpec

-----------------------------------------------------------------------------
(* ReceiptWait, for every number of confirmations, every deadline and      *)
(* every depth of reorganisation.                                          *)
(*                                                                         *)
(* The thread keeps the receipt it read while the chain goes on.  What it  *)
(* reports is true because a receipt can only become stale by a            *)
(* reorganisation, and because it is the only source of what is reported.  *)

TxFates == {"mempool", "mined", "reverted"}
Statuses == {"none", "pending", "raised", "confirmed", "failed"}

WaitTypeOK ==
    /\ wait_for \in {"receipt", "confirmations", "done"}
    /\ left \in Nat
    /\ head \in Nat /\ block \in Nat /\ fate \in TxFates
    /\ receipt \in [block : Nat, fate : TxFates]
    /\ reported \in Statuses

\* A transaction has a fate exactly when a block up to the head holds it.
Included == block <= head /\ (block = 0 <=> fate = "mempool")

\* A receipt in hand is the one of the block the transaction is in.
Fresh == receipt.block # 0 => receipt.block = block /\ receipt.fate = fate

\* The count is for a receipt in hand, and so is what is reported.
Reported ==
    /\ wait_for = "receipt" => reported = "none"
    /\ wait_for = "confirmations" => receipt.block # 0 /\ reported = "none"
    /\ reported = "confirmed" => receipt.block # 0 /\ receipt.fate = "mined"
    /\ reported = "failed" => receipt.block # 0 /\ receipt.fate # "mined"

WaitInv == WaitTypeOK /\ Included /\ (~reorged => Fresh) /\ Reported

\* The wait starts without a receipt.
LEMMA WaitStarts == WaitInit => WaitInv
BY WaitAssumption DEF WaitInit, NoReceipt, WaitInv, WaitTypeOK, Included, Fresh, Reported, TxFates, Statuses

\* Every step keeps WaitInv: blocks are added on top, a reorganisation is
\* recorded, and the thread reports only what its receipt says.
LEMMA WaitStep == WaitInv /\ [WaitNext]_wait_vars => WaitInv'
<1> SUFFICES ASSUME WaitInv, [WaitNext]_wait_vars PROVE WaitInv'
  OBVIOUS
<1> USE DEF WaitInv, WaitTypeOK, Included, Fresh, Reported, TxFates, Statuses
<1>1. CASE wait_for_receipt
  <2>1. CASE /\ \E s \in {"pending", "raised"} : Return(s)
             /\ UNCHANGED <<left, receipt>>
    BY <1>1, <2>1 DEF wait_for_receipt, Return, chain_vars
  <2>2. CASE /\ block # 0 /\ receipt' = [block |-> block, fate |-> fate]
             /\ \/ wait_for' = "confirmations" /\ left' = ConfirmSeconds /\ reported' = reported
                \/ wait_for' = "done" /\ reported' = receipt_status(receipt') /\ left' = left
    <3>1. receipt'.block = block /\ receipt'.fate = fate /\ UNCHANGED <<head, block, fate>>
      BY <1>1, <2>2 DEF wait_for_receipt, chain_vars
    <3>2. receipt' \in [block : Nat, fate : TxFates]
      BY <2>2
    <3>3. wait_for = "receipt" /\ (reported \notin {"confirmed", "failed"})
      BY <1>1 DEF wait_for_receipt
    <3> QED BY <2>2, <3>1, <3>2, <3>3, WaitAssumption DEF receipt_status
  <2> QED BY <1>1, <2>1, <2>2 DEF wait_for_receipt, Return
<1>2. CASE _wait_for_confirmations
  BY <1>2 DEF _wait_for_confirmations, Return, receipt_status, chain_vars
<1>3. CASE Tick
  BY <1>3 DEF Tick, chain_vars
<1>4. CASE NewBlock
  BY <1>4 DEF NewBlock
<1>5. CASE Reorg
  BY <1>5 DEF Reorg
<1>6. CASE UNCHANGED wait_vars
  BY <1>6 DEF wait_vars, chain_vars
<1> QED BY <1>1, <1>2, <1>3, <1>4, <1>5, <1>6 DEF WaitNext

\* Unless the block of the transaction is replaced, wait_for_receipt reports
\* its fate or that it is not known, whatever the deadlines and however the
\* chain grows between the reads of the thread.
THEOREM FateReported == WaitSpec => []ReportIsTheFate
<1>1. WaitInv => ReportIsTheFate
  BY DEF WaitInv, WaitTypeOK, Included, Fresh, Reported, TxFates, Statuses, ReportIsTheFate
<1> QED BY <1>1, WaitStarts, WaitStep, PTL DEF WaitSpec

\* A transaction is reported confirmed before the deadline only with the
\* configured number of confirmations on its block: the count of
\* _wait_for_confirmations is exact for every configuration.
THEOREM DeepOrLate == WaitSpec => ConfirmedIsDeepOrLate
<1> DEFINE Deep == reported' = "confirmed" /\ reported # "confirmed" /\ ~reorged =>
                      deadline_passed \/ head >= block + confirmations - 1
<1>1. WaitInv /\ [WaitNext]_wait_vars => [Deep]_wait_vars
  <2> SUFFICES ASSUME WaitInv, WaitNext, reported' = "confirmed", reported # "confirmed", ~reorged
               PROVE  deadline_passed \/ head >= block + confirmations - 1
    OBVIOUS
  <2> USE DEF WaitInv, WaitTypeOK, Included, Fresh, Reported
  <2>1. CASE wait_for_receipt
    BY <2>1, WaitAssumption DEF wait_for_receipt, Return
  <2>2. CASE _wait_for_confirmations
    BY <2>2, WaitAssumption DEF _wait_for_confirmations, Return, confirmed_enough
  <2>3. CASE Tick \/ NewBlock \/ Reorg
    BY <2>3 DEF Tick, NewBlock, Reorg
  <2> QED BY <2>1, <2>2, <2>3 DEF WaitNext
<1> QED BY <1>1, WaitStarts, WaitStep, PTL DEF WaitSpec, ConfirmedIsDeepOrLate

=============================================================================
