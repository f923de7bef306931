-------------------------- MODULE SwapPipelineProofs --------------------------
(***************************************************************************)
(* Theorems about SwapPipeline, for every set of intents, quotes and       *)
(* executions, and every policy configuration.                             *)
(*                                                                         *)
(* prepare_swap_transaction is one of the preparations the lemmas of       *)
(* TransactionPipelineProofs allow for, so their invariants hold of the    *)
(* swap graph.  What is left is which stage of which intent a run is in:   *)
(* its request is still empty or is the approval or the swap of its own    *)
(* intent, for a quote the quote policy accepted.                          *)
(***************************************************************************)
EXTENDS SwapPipeline, TransactionPipelineProofs

ApprovalStage(r) ==
    Action(r) = "erc20_approval" /\ key(r) = approval_key(intent[r].idempotency_key)
SwapStage(r) ==
    Action(r) = "swap" /\ key(r) = intent[r].idempotency_key

Staged(r) ==
    /\ quote[r] \in Quotes
    /\ evaluate_swap_quote_policy(quote[r], Config) # "rejected"
    /\ ApprovalStage(r) \/ SwapStage(r)

StageOf(r) ==
    /\ pc[r] = "prepare_transaction" => request[r] = Unprepared(intent[r])
    /\ request[r] = Unprepared(intent[r]) \/ Staged(r)

StageInv ==
    /\ intent \in [Runs -> Intents]
    /\ quote \in [Runs -> Quotes \cup {None}]
    /\ \A r \in Runs : StageOf(r)

-----------------------------------------------------------------------------
(* The preparation node.                                                   *)

\* Before its preparation a run has neither a key nor an action.
LEMMA UnpreparedFields ==
    ASSUME NEW i
    PROVE  Unprepared(i).idempotency_key = None /\ Unprepared(i).tx.action = None
BY DEF Prepared, Unprepared

\* The key and the action of the approval stage.
LEMMA ApprovalFields ==
    ASSUME NEW i, NEW q
    PROVE  /\ approval_transaction(i, q).tx.action = "erc20_approval"
           /\ approval_transaction(i, q).idempotency_key = approval_key(i.idempotency_key)
BY DEF Prepared, Unprepared, approval_transaction

\* The same of the swap.
LEMMA SwapFields ==
    ASSUME NEW i, NEW q, NEW x
    PROVE  /\ swap_transaction(i, q, x).tx.action = "swap"
           /\ swap_transaction(i, q, x).idempotency_key = i.idempotency_key
BY DEF Prepared, Unprepared, swap_transaction

\* What the node does to its run: nothing is prepared, or the approval or
\* the swap of its intent for an accepted quote.
LEMMA PrepareSwap ==
    ASSUME TypeOK, StageInv, NEW r \in Runs, prepare_swap_transaction(r)
    PROVE  /\ Preparation(r)
           /\ UNCHANGED intent
           /\ quote' \in [Runs -> Quotes \cup {None}]
           /\ \A p \in Runs \ {r} : quote'[p] = quote[p]
           /\ \/ request'[r] = request[r]
              \/ /\ quote'[r] \in Quotes
                 /\ evaluate_swap_quote_policy(quote'[r], Config) # "rejected"
                 /\ \/ request'[r] = approval_transaction(intent[r], quote'[r])
                    \/ \E x \in Executions : request'[r] = swap_transaction(intent[r], quote'[r], x)
<1> USE DEF Set, Goto
<1>a. /\ intent[r] \in Intents /\ request \in [Runs -> Requests]
      /\ policy_decision \in [Runs -> PolicyDecisionStatus \cup {None}]
      /\ error \in [Runs -> BOOLEAN] /\ quote \in [Runs -> Quotes \cup {None}]
  BY DEF StageInv, TypeOK
<1>b. /\ At(r, "prepare_transaction")
      /\ UNCHANGED <<nonce, gas, simulation_result, approval_result, outcome, records, chain,
                     intent>>
  BY DEF prepare_swap_transaction
<1>1. CASE /\ error' = [error EXCEPT ![r] = TRUE]
           /\ pc' = [pc EXCEPT ![r] = "reject_transaction"]
           /\ UNCHANGED <<request, policy_decision, quote>>
  BY <1>a, <1>b, <1>1 DEF Preparation
<1>2. ASSUME NEW q \in Quotes, quote' = [quote EXCEPT ![r] = q], UNCHANGED error,
             \/ evaluate_swap_quote_policy(q, Config) = "rejected" /\ Reject(r)
             \/ /\ evaluate_swap_quote_policy(q, Config) # "rejected"
                /\ Enter(r, approval_transaction(intent[r], q)) \/ build_execution(r, q)
      PROVE  /\ Preparation(r)
             /\ \A p \in Runs \ {r} : quote'[p] = quote[p]
             /\ \/ request'[r] = request[r]
                \/ /\ quote'[r] \in Quotes
                   /\ evaluate_swap_quote_policy(quote'[r], Config) # "rejected"
                   /\ \/ request'[r] = approval_transaction(intent[r], quote'[r])
                      \/ \E x \in Executions :
                            request'[r] = swap_transaction(intent[r], quote'[r], x)
  <2>1. quote'[r] = q /\ \A p \in Runs \ {r} : quote'[p] = quote[p]
    BY <1>a, <1>2
  <2>2. ASSUME NEW decision \in PolicyDecisionStatus,
               policy_decision' = [policy_decision EXCEPT ![r] = decision],
               NEW n \in {"reject_transaction", "END"}, pc' = [pc EXCEPT ![r] = n],
               UNCHANGED request
        PROVE  Preparation(r)
    BY <1>a, <1>b, <1>2, <2>2 DEF Preparation
  <2>3. ASSUME Reject(r) PROVE Preparation(r) /\ request' = request
    BY <2>2, <2>3 DEF Reject, PolicyDecisionStatus
  <2>4. ASSUME NEW prepared \in Requests, Enter(r, prepared)
        PROVE  Preparation(r) /\ request'[r] = prepared
    BY <1>a, <1>b, <1>2, <2>4 DEF Preparation, Enter
  <2>5. CASE Reject(r)
    BY <2>1, <2>3, <2>5
  <2>6. CASE evaluate_swap_quote_policy(q, Config) # "rejected"
             /\ Enter(r, approval_transaction(intent[r], q))
    <3>1. q.spender_address # None
      BY <2>6 DEF evaluate_swap_quote_policy, swap_quote_rejection_reason
    <3>2. approval_transaction(intent[r], q) \in Requests
      BY <1>a, <3>1, SwapRequestAssumption DEF SwapRequests
    <3> QED BY <2>1, <2>4, <2>6, <3>2
  <2>7. CASE evaluate_swap_quote_policy(q, Config) # "rejected" /\ build_execution(r, q)
    <3>1. PICK x \in Executions :
            LET decision == evaluate_swap_execution_policy(q, x, Config)
            IN  \/ Reject(r)
                \/ /\ policy_decision' = [policy_decision EXCEPT ![r] = decision]
                   /\ pc' = [pc EXCEPT ![r] = "END"]
                   /\ UNCHANGED request
                \/ Enter(r, swap_transaction(intent[r], q, x))
      BY <2>7 DEF build_execution, executions_for
    <3>2. evaluate_swap_execution_policy(q, x, Config) \in PolicyDecisionStatus
      BY DEF evaluate_swap_execution_policy, PolicyDecisionStatus
    <3>3. swap_transaction(intent[r], q, x) \in Requests
      BY <1>a, SwapRequestAssumption DEF SwapRequests
    <3>4. CASE Reject(r)
      BY <2>1, <2>3, <3>4
    <3>5. CASE /\ policy_decision' = [policy_decision EXCEPT ![r] =
                                        evaluate_swap_execution_policy(q, x, Config)]
               /\ pc' = [pc EXCEPT ![r] = "END"]
               /\ UNCHANGED request
      BY <2>1, <2>2, <3>2, <3>5
    <3>6. CASE Enter(r, swap_transaction(intent[r], q, x))
      BY <2>1, <2>4, <2>7, <3>3, <3>6
    <3> QED BY <3>1, <3>4, <3>5, <3>6
  <2> QED BY <1>2, <2>5, <2>6, <2>7
<1>3. \/ /\ error' = [error EXCEPT ![r] = TRUE]
         /\ pc' = [pc EXCEPT ![r] = "reject_transaction"]
         /\ UNCHANGED <<request, policy_decision, quote>>
      \/ \E q \in Quotes :
            /\ quote' = [quote EXCEPT ![r] = q] /\ UNCHANGED error
            /\ \/ evaluate_swap_quote_policy(q, Config) = "rejected" /\ Reject(r)
               \/ /\ evaluate_swap_quote_policy(q, Config) # "rejected"
                  /\ Enter(r, approval_transaction(intent[r], q)) \/ build_execution(r, q)
  BY DEF prepare_swap_transaction, quotes_for
<1>4. quote' \in [Runs -> Quotes \cup {None}]
  BY <1>a, <1>3
<1> QED BY <1>a, <1>b, <1>1, <1>2, <1>3, <1>4

\* The node runs once.
LEMMA PrepareMovesOn ==
    ASSUME TypeOK, NEW r \in Runs, prepare_swap_transaction(r)
    PROVE  pc'[r] # "prepare_transaction"
<1>1. \E n \in {"resolve_nonce", "reject_transaction", "END"} : pc' = [pc EXCEPT ![r] = n]
  BY DEF prepare_swap_transaction, build_execution, Reject, Enter, Goto
<1> QED BY <1>1 DEF TypeOK

-----------------------------------------------------------------------------
(* The invariants of the swap graph.                                       *)

\* Every step of the swap graph is a step of the pipeline.
LEMMA SwapPipelineStep == TypeOK /\ StageInv /\ [SwapNext]_all_vars => PipelineStep
BY PrepareSwap DEF SwapNext, MineSwap, Terminated, all_vars, PipelineStep

\* The fields of a run decide its stage.
LEMMA StageFrame ==
    ASSUME NEW q \in Runs, StageOf(q), request'[q] = request[q], intent'[q] = intent[q],
           quote'[q] = quote[q],
           pc'[q] = "prepare_transaction" => pc[q] = "prepare_transaction"
    PROVE  StageOf(q)'
BY DEF StageOf, Staged, ApprovalStage, SwapStage, Action, key

\* Every step keeps the stages.
LEMMA StageStep == TypeOK /\ StageInv /\ [SwapNext]_all_vars => StageInv'
<1> SUFFICES ASSUME TypeOK, StageInv, [SwapNext]_all_vars PROVE StageInv'
  OBVIOUS
<1>a. \A q \in Runs : StageOf(q)
  BY DEF StageInv
<1>1. ASSUME NEW r \in Runs, prepare_swap_transaction(r) PROVE StageInv'
  <2>1. /\ Preparation(r) /\ UNCHANGED intent
        /\ quote' \in [Runs -> Quotes \cup {None}]
        /\ \A p \in Runs \ {r} : quote'[p] = quote[p]
    BY <1>1, PrepareSwap
  <2>2. /\ pc[r] = "prepare_transaction" /\ pc \in [Runs -> Nodes]
        /\ \A p \in Runs \ {r} : request'[p] = request[p]
    BY <2>1 DEF Preparation, At, TypeOK
  <2>3. \A p \in Runs \ {r} : pc'[p] = pc[p]
    BY <2>1, <2>2 DEF Preparation, Goto
  <2>4. ASSUME NEW p \in Runs \ {r} PROVE StageOf(p)'
    BY <1>a, <2>1, <2>2, <2>3, StageFrame
  <2>5. request[r] = Unprepared(intent[r])
    BY <1>a, <2>2 DEF StageOf
  <2>6. StageOf(r)'
    <3>1. CASE request'[r] = request[r]
      BY <2>1, <2>5, <3>1 DEF StageOf, Unprepared, Prepared
    <3>2. CASE /\ quote'[r] \in Quotes
               /\ evaluate_swap_quote_policy(quote'[r], Config) # "rejected"
               /\ \/ request'[r] = approval_transaction(intent[r], quote'[r])
                  \/ \E x \in Executions : request'[r] = swap_transaction(intent[r], quote'[r], x)
      <4>1. \/ /\ request'[r].tx.action = "erc20_approval"
               /\ request'[r].idempotency_key = approval_key(intent[r].idempotency_key)
            \/ /\ request'[r].tx.action = "swap"
               /\ request'[r].idempotency_key = intent[r].idempotency_key
        <5>1. CASE request'[r] = approval_transaction(intent[r], quote'[r])
          BY <5>1, ApprovalFields
        <5>2. ASSUME NEW x, request'[r] = swap_transaction(intent[r], quote'[r], x)
              PROVE  /\ request'[r].tx.action = "swap"
                     /\ request'[r].idempotency_key = intent[r].idempotency_key
          BY <5>2, SwapFields
        <5> QED BY <3>2, <5>1, <5>2
      <4>2. Staged(r)'
        BY <2>1, <3>2, <4>1 DEF Staged, ApprovalStage, SwapStage, Action, key, approval_key
      <4>3. pc'[r] # "prepare_transaction"
        BY <1>1, PrepareMovesOn
      <4> QED BY <4>2, <4>3 DEF StageOf
    <3> QED BY <1>1, <3>1, <3>2, PrepareSwap
  <2> QED BY <2>1, <2>4, <2>6 DEF StageInv
<1>2. ASSUME UNCHANGED <<request, intent, quote>>,
             \A q \in Runs : pc'[q] = "prepare_transaction" => pc[q] = "prepare_transaction"
      PROVE  StageInv'
  <2>1. \A q \in Runs : StageOf(q)'
    BY <1>a, <1>2, StageFrame
  <2> QED BY <1>2, <2>1 DEF StageInv
<1>3. ASSUME NEW r \in Runs, Step(r), UNCHANGED swap_vars PROVE StageInv'
  BY <1>2, <1>3, StepKeepsRequests DEF swap_vars
<1>4. ASSUME NEW r \in Runs, MineSwap(r) PROVE StageInv'
  BY <1>2, <1>4 DEF MineSwap, Mine
<1>5. CASE UNCHANGED <<vars, swap_vars>>
  BY <1>2, <1>5 DEF vars, swap_vars
<1> QED BY <1>1, <1>3, <1>4, <1>5 DEF SwapNext, Terminated, all_vars

\* The inductive invariant of the swap graph.
SwapInv == IInv /\ GateInv /\ ResultInv /\ HistoryInv /\ StageInv

\* It holds initially.
LEMMA SwapInitial == SwapInit => SwapInv
<1> SUFFICES ASSUME SwapInit PROVE SwapInv
  OBVIOUS
<1>1. IInv /\ ResultInv /\ HistoryInv
  BY InvInit, ResultInit, HistoryInit DEF SwapInit
<1>2. GateInv
  BY GateInit DEF SwapInit
<1>3. StageInv
  <2>1. \A r \in Runs : request[r] = Unprepared(intent[r])
    BY DEF SwapInit
  <2>2. intent \in [Runs -> Intents] /\ quote \in [Runs -> Quotes \cup {None}]
    BY DEF SwapInit
  <2> QED BY <2>1, <2>2 DEF StageInv, StageOf
<1> QED BY <1>1, <1>2, <1>3 DEF SwapInv

\* Every step preserves it.
LEMMA SwapStep == SwapInv /\ [SwapNext]_all_vars => SwapInv'
<1> SUFFICES ASSUME SwapInv, [SwapNext]_all_vars PROVE SwapInv'
  OBVIOUS
<1>1. PipelineStep /\ StageInv'
  BY SwapPipelineStep, StageStep DEF SwapInv, IInv
<1>2. IInv' /\ GateInv'
  BY <1>1, InvStep, GateStep DEF SwapInv, IInv
<1>3. ResultInv' /\ HistoryInv'
  BY <1>1, ResultStep, HistoryStep DEF SwapInv
<1> QED BY <1>1, <1>2, <1>3 DEF SwapInv

\* A run that has a key has prepared one of the two stages of its intent.
LEMMA KeyedIsStaged ==
    ASSUME StageInv, NEW r \in Runs, key(r) \in Keys
    PROVE  Staged(r)
<1>1. request[r] # Unprepared(intent[r])
  BY UnpreparedFields, NoneAssumption DEF key
<1> QED BY <1>1 DEF StageInv, StageOf

-----------------------------------------------------------------------------
(* The theorems.                                                           *)

\* The two layers of swap_rules.py agree for every configuration: a quote
\* that passes the quote policy makes a swap transaction that the rule of
\* the pipeline does not refuse, and an allowance is only asked for such a
\* quote.
THEOREM Layers == SwapSpec => []LayersAgree
<1>1. SwapInv => LayersAgree
  <2> SUFFICES ASSUME SwapInv, NEW r \in Runs, Action(r) # None, NEW x \in Executions
               PROVE  ~swap_transaction_policy_reason(
                         swap_transaction(intent[r], quote[r], x).tx, Config)
    BY DEF LayersAgree
  <2>1. Staged(r)
    BY UnpreparedFields DEF SwapInv, StageInv, StageOf, Action
  <2>2. quote[r] \in SwapQuote /\ intent[r].wallet_id \in Addresses
    <3>1. intent[r] \in SwapIntent
      BY SwapAssumption DEF SwapInv, StageInv
    <3> QED BY <2>1, <3>1, SwapAssumption, PipelineAssumption DEF Staged, SwapIntent
  <2> DEFINE q == quote[r]
             tx == swap_transaction(intent[r], q, x).tx
  <2>3. /\ q.provider \in SwapProviderName /\ q.provider \in Config.allowed_providers
        /\ q.spender_address \in Addresses
        /\ ~(q.slippage_bps # None /\ q.slippage_bps > Config.max_slippage_bps)
    BY <2>1, <2>2 DEF Staged, evaluate_swap_quote_policy, swap_quote_rejection_reason,
                      excessive_slippage, SwapQuote
  <2>4. /\ tx.provider = q.provider /\ tx.spender_address = q.spender_address
        /\ tx.slippage_bps = q.slippage_bps /\ tx.recipient_address = intent[r].wallet_id
    BY DEF swap_transaction, Prepared, Unprepared
  <2> HIDE DEF q, tx
  <2>5. ~swap_transaction_policy_reason(tx, Config)
    BY <2>2, <2>3, <2>4, SwapAssumption, AddressAssumption
       DEF swap_transaction_policy_reason, Unreadable
  <2> QED BY <2>5 DEF q, tx
<1> QED BY <1>1, SwapInitial, SwapStep, PTL DEF SwapSpec

\* However an intent is retried and its stages interleave, at most one swap
\* and at most one approval of it reach the chain, as long as a failed
\* broadcast means that nothing was submitted.
THEOREM OneSwap ==
    ASSUME "lost_reply" \notin Faults
    PROVE  SwapSpec => []OneSwapPerIntent
<1>1. SwapInit => SubmitInv
  BY DEF SwapInit, Init, SubmitInv, Sent
<1>2. SwapInv /\ SubmitInv /\ [SwapNext]_all_vars => SubmitInv'
  BY SwapPipelineStep, SubmitStep DEF SwapInv, IInv
<1>3. SwapInv /\ SubmitInv => OneSwapPerIntent
  <2> SUFFICES ASSUME SwapInv, SubmitInv, NEW q \in Runs, NEW r \in Runs, Sent(q), Sent(r),
                      intent[q].idempotency_key = intent[r].idempotency_key,
                      Action(q) = Action(r)
               PROVE  q = r
    BY DEF OneSwapPerIntent, Sent
  <2>1. key(q) \in Keys /\ key(r) \in Keys
    BY DEF SwapInv, GateInv, GateOf, Sent
  <2>2. Staged(q) /\ Staged(r)
    BY <2>1, KeyedIsStaged DEF SwapInv
  <2>3. key(q) = key(r)
    BY <2>2 DEF Staged, ApprovalStage, SwapStage
  <2>4. AtMostOneSubmission
    BY SubmittedOnce DEF SwapInv
  <2> QED BY <2>1, <2>3, <2>4 DEF AtMostOneSubmission, Sent
<1> QED BY <1>1, <1>2, <1>3, SwapInitial, SwapStep, PTL DEF SwapSpec

\* A run never reports the transaction of the other stage, as long as no
\* caller uses a key that is the approval key of another one.
THEOREM StageReported ==
    ASSUME SwapKeys \cap {approval_key(k) : k \in SwapKeys} = {}
    PROVE  SwapSpec => []ResultMatchesStage
<1>1. SwapInv => ResultMatchesStage
  <2> SUFFICES ASSUME SwapInv, NEW r \in Runs, execution_result[r].tx_hash # None
               PROVE  Action(execution_result[r].tx_hash) = Action(r)
    BY DEF ResultMatchesStage
  <2>1. key(r) \in Keys /\ records[key(r)] = Completed(execution_result[r])
    BY DEF SwapInv, ResultInv, ResultOf
  <2>2. records[key(r)].result = execution_result[r]
    BY <2>1 DEF Completed
  <2>3. PICK h \in Runs : h = execution_result[r].tx_hash /\ key(h) = key(r)
    BY <2>1, <2>2 DEF SwapInv, HistoryInv, SubmittedUnder
  <2>4. Staged(r) /\ Staged(h)
    BY <2>1, <2>3, KeyedIsStaged DEF SwapInv
  <2>5. intent[r].idempotency_key \in SwapKeys /\ intent[h].idempotency_key \in SwapKeys
    BY SwapAssumption DEF SwapInv, StageInv, SwapIntent
  <2>6. Action(h) = Action(r)
    BY <2>3, <2>4, <2>5 DEF Staged, ApprovalStage, SwapStage
  <2> QED BY <2>3, <2>6
<1> QED BY <1>1, SwapInitial, SwapStep, PTL DEF SwapSpec

\* Under the same condition the swap graph implements the abstract ledger, an
\* approval and its swap as two entries of it.
THEOREM SwapsImplementLedger ==
    ASSUME "lost_reply" \notin Faults
    PROVE  SwapSpec => ImplementsIdempotentExecution
<1>1. SwapInv /\ SwapInv' /\ [SwapNext]_all_vars => [Abstract!Next]_(Abstract!vars)
  BY SwapPipelineStep, RefineStep DEF SwapInv, IInv
<1>2. SwapInit => Abstract!Init
  BY RefineInit DEF SwapInit
<1> QED BY <1>1, <1>2, SwapInitial, SwapStep, PTL
     DEF SwapSpec, Abstract!Spec, ImplementsIdempotentExecution

=============================================================================
