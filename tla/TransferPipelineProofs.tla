------------------------- MODULE TransferPipelineProofs -------------------------
(***************************************************************************)
(* Theorems about TransferPipeline, for every set of intents, balances and *)
(* allowances, and every policy configuration.                             *)
(*                                                                         *)
(* prepare_transfer is one of the preparations the lemmas of               *)
(* TransactionPipelineProofs allow for.  What is left is that a prepared   *)
(* run keeps what its builder has found out about its intent: balances and *)
(* allowances go on changing, the parties and the amount do not.           *)
(***************************************************************************)
EXTENDS TransferPipeline, TransactionPipelineProofs, WellFoundedInduction, FiniteSetTheorems

\* What a builder that did not raise has established of the intent, whatever
\* becomes of balances and allowances later.
Accepted(i) ==
    /\ raw_amount(i) \in Nat
    /\ i.party # ZERO_ADDRESS
    /\ i.kind # "erc20_approval" => i.party # i.wallet_id /\ raw_amount(i) > 0
    /\ i.kind = "erc20_approval" => raw_amount(i) <= MAX_UINT256

CallOf(r) ==
    \/ call[r] = NoCall /\ pc[r] \in {"prepare_transaction", "reject_transaction", "END"}
    \/ /\ call[r] = encoded(intent[r])
       /\ request[r] = prepared(intent[r])
       /\ Accepted(intent[r])
       /\ pc[r] # "prepare_transaction"

CallInv ==
    /\ intent \in [Runs -> AllIntents]
    /\ call = [r \in Runs |-> call[r]]
    /\ \A r \in Runs : CallOf(r)

-----------------------------------------------------------------------------
(* The preparation node.                                                   *)

\* The assumptions on one intent.
LEMMA IntentType ==
    ASSUME NEW i \in AllIntents
    PROVE  /\ i.kind \in {"native_transfer", "erc20_transfer", "erc20_approval"}
           /\ i.wallet_id \in Addresses /\ i.party \in Addresses /\ i.amount \in AmountText
           /\ raw_amount(i) \in Nat \cup {Error}
           /\ DOMAIN i.metadata \subseteq Overrides
BY TransferAssumption, TransferRequestAssumption, PipelineAssumption

\* A builder that does not raise accepts its intent.
LEMMA BuilderAccepts ==
    ASSUME NEW i \in AllIntents, ~refused(i)
    PROVE  Accepted(i)
<1>1. MAX_UINT256 \in Nat /\ Error = -1
  BY TransferAssumption DEF Error
<1>2. CASE i.kind = "native_transfer"
  BY <1>1, <1>2, IntentType DEF refused, native_transfer_refused, Accepted
<1>3. CASE i.kind = "erc20_transfer"
  BY <1>1, <1>3, IntentType DEF refused, erc20_transfer_refused, Accepted
<1>4. CASE i.kind = "erc20_approval"
  BY <1>1, <1>4, IntentType DEF refused, erc20_approval_refused, Accepted
<1> QED BY <1>2, <1>3, <1>4, IntentType

\* What the node does to its run: it prepares the transaction of its intent
\* or refuses.
LEMMA PrepareTransfer ==
    ASSUME TypeOK, CallInv, NEW r \in Runs, prepare_transfer(r)
    PROVE  /\ Preparation(r)
           /\ UNCHANGED intent
           /\ pc[r] = "prepare_transaction"
           /\ \/ /\ pc' = [pc EXCEPT ![r] = "reject_transaction"]
                 /\ UNCHANGED call
              \/ /\ pc' = [pc EXCEPT ![r] = "resolve_nonce"]
                 /\ Accepted(intent[r])
                 /\ request' = [request EXCEPT ![r] = prepared(intent[r])]
                 /\ call' = [call EXCEPT ![r] = encoded(intent[r])]
<1> USE DEF Set, Goto, At
<1>a. intent[r] \in AllIntents
  BY DEF CallInv
<1>b. /\ pc[r] = "prepare_transaction"
      /\ UNCHANGED <<nonce, gas, checks, outcome, records, chain, intent>>
  BY DEF prepare_transfer
<1>c. request \in [Runs -> Requests] /\ policy_decision \in [Runs -> PolicyDecisionStatus \cup {None}]
  BY DEF TypeOK
<1>1. CASE /\ error' = [error EXCEPT ![r] = TRUE]
           /\ pc' = [pc EXCEPT ![r] = "reject_transaction"]
           /\ UNCHANGED <<request, call>>
  <2>1. error' \in [Runs -> BOOLEAN]
    BY <1>1 DEF TypeOK
  <2> QED BY <1>b, <1>c, <1>1, <2>1 DEF Preparation, checks
<1>2. CASE /\ ~refused(intent[r])
           /\ request' = [request EXCEPT ![r] = prepared(intent[r])]
           /\ call' = [call EXCEPT ![r] = encoded(intent[r])]
           /\ pc' = [pc EXCEPT ![r] = "resolve_nonce"]
           /\ UNCHANGED error
  <2>1. Accepted(intent[r])
    BY <1>a, <1>2, BuilderAccepts
  <2>2. prepared(intent[r]) \in Requests
    BY <1>a, <2>1, TransferRequestAssumption DEF TransferRequests, Accepted
  <2>3. error' \in [Runs -> BOOLEAN]
    BY <1>2 DEF TypeOK
  <2> QED BY <1>b, <1>c, <1>2, <2>1, <2>2, <2>3 DEF Preparation, checks
<1> QED BY <1>1, <1>2 DEF prepare_transfer

\* Every step of the two graphs is a step of the pipeline.
LEMMA TransferPipelineStep == TypeOK /\ CallInv /\ [TransferNext]_all_vars => PipelineStep
BY PrepareTransfer
DEF TransferNext, graph_node, MineTransfer, Terminated, all_vars, PipelineStep

\* Every step keeps the calls.
LEMMA CallStep == TypeOK /\ CallInv /\ [TransferNext]_all_vars => CallInv'
<1> SUFFICES ASSUME TypeOK, CallInv, [TransferNext]_all_vars PROVE CallInv'
  OBVIOUS
<1>a. /\ intent \in [Runs -> AllIntents] /\ call = [r \in Runs |-> call[r]]
      /\ \A q \in Runs : CallOf(q)
  BY DEF CallInv
<1>1. ASSUME NEW r \in Runs, prepare_transfer(r) PROVE CallInv'
  <2>1. /\ Preparation(r) /\ UNCHANGED intent /\ pc[r] = "prepare_transaction"
        /\ \/ /\ pc' = [pc EXCEPT ![r] = "reject_transaction"]
              /\ UNCHANGED call
           \/ /\ pc' = [pc EXCEPT ![r] = "resolve_nonce"]
              /\ Accepted(intent[r])
              /\ request' = [request EXCEPT ![r] = prepared(intent[r])]
              /\ call' = [call EXCEPT ![r] = encoded(intent[r])]
    BY <1>1, PrepareTransfer
  <2>2. /\ \A q \in Runs \ {r} : request'[q] = request[q] /\ pc'[q] = pc[q] /\ call'[q] = call[q]
        /\ call' = [q \in Runs |-> call'[q]]
    BY <1>a, <2>1 DEF Preparation, TypeOK
  <2>3. ASSUME NEW q \in Runs \ {r} PROVE CallOf(q)'
    BY <1>a, <2>1, <2>2 DEF CallOf, NoCall
  <2>4. CASE pc' = [pc EXCEPT ![r] = "reject_transaction"] /\ UNCHANGED call
    <3>1. call[r] = NoCall /\ call'[r] = call[r] /\ pc'[r] = "reject_transaction"
      BY <1>a, <2>1, <2>4 DEF CallOf, TypeOK
    <3>2. CallOf(r)'
      BY <3>1 DEF CallOf, NoCall
    <3> QED BY <1>a, <2>1, <2>2, <2>3, <3>2 DEF CallInv
  <2>5. CASE /\ pc' = [pc EXCEPT ![r] = "resolve_nonce"]
             /\ Accepted(intent[r])
             /\ request' = [request EXCEPT ![r] = prepared(intent[r])]
             /\ call' = [call EXCEPT ![r] = encoded(intent[r])]
    <3>1. /\ call'[r] = encoded(intent[r]) /\ request'[r] = prepared(intent[r])
          /\ pc'[r] = "resolve_nonce"
      BY <1>a, <2>5 DEF TypeOK
    <3>2. PICK i : i = intent[r] /\ i = intent'[r]
      BY <2>1
    <3>3. CallOf(r)'
      BY <2>5, <3>1, <3>2 DEF CallOf
    <3> QED BY <1>a, <2>1, <2>2, <2>3, <3>3 DEF CallInv
  <2> QED BY <2>1, <2>4, <2>5
<1>2. ASSUME UNCHANGED <<request, intent, call>>,
             \A q \in Runs : \/ pc'[q] = pc[q]
                             \/ /\ pc'[q] # "prepare_transaction"
                                /\ pc[q] \in {"prepare_transaction", "reject_transaction", "END"} =>
                                      pc'[q] \in {"prepare_transaction", "reject_transaction", "END"}
      PROVE  CallInv'
  <2>1. ASSUME NEW q \in Runs PROVE CallOf(q)'
    <3>1. PICK i : i = intent[q] /\ i = intent'[q]
      BY <1>2
    <3> QED BY <1>a, <1>2, <3>1 DEF CallOf, NoCall
  <2> QED BY <1>a, <1>2, <2>1 DEF CallInv
<1>3. ASSUME NEW r \in Runs, graph_node(r) PROVE CallInv'
  <2>1. Step(r) /\ UNCHANGED <<intent, call>>
    BY <1>3 DEF graph_node, transfer_vars
  <2>2. /\ UNCHANGED request /\ pc'[r] # "prepare_transaction" /\ pc[r] # "prepare_transaction"
        /\ \A q \in Runs \ {r} : pc'[q] = pc[q]
    BY <2>1, StepKeepsRequests
  <2>3. pc[r] \in {"reject_transaction", "END"} => pc'[r] = "END"
    BY <2>1 DEF TypeOK, Goto, At, Step, resolve_nonce, populate_gas, simulate_transaction,
       evaluate_policy, request_approval, check_idempotency, sign_transaction,
       broadcast_transaction, monitor_receipt, reject_transaction
  <2> QED BY <1>2, <2>1, <2>2, <2>3
<1>4. ASSUME NEW r \in Runs, MineTransfer(r) PROVE CallInv'
  BY <1>2, <1>4 DEF MineTransfer, Mine
<1>5. CASE UNCHANGED <<vars, transfer_vars>>
  BY <1>2, <1>5 DEF vars, transfer_vars
<1> QED BY <1>1, <1>3, <1>4, <1>5 DEF TransferNext, Terminated, all_vars

\* The inductive invariant of the two graphs.
TransferInv == IInv /\ GateInv /\ CallInv

\* It holds initially.
LEMMA TransferInitial == TransferInit => TransferInv
<1> SUFFICES ASSUME TransferInit PROVE TransferInv
  OBVIOUS
<1>1. IInv /\ GateInv
  BY InvInit, GateInit DEF TransferInit
<1>2. CallInv
  BY DEF TransferInit, Init, CallInv, CallOf
<1> QED BY <1>1, <1>2 DEF TransferInv

\* Every step preserves it.
LEMMA TransferStep == TransferInv /\ [TransferNext]_all_vars => TransferInv'
<1> SUFFICES ASSUME TransferInv, [TransferNext]_all_vars PROVE TransferInv'
  OBVIOUS
<1>1. PipelineStep /\ CallInv'
  BY TransferPipelineStep, CallStep DEF TransferInv, IInv
<1>2. IInv' /\ GateInv'
  BY <1>1, InvStep, GateStep DEF TransferInv, IInv
<1> QED BY <1>1, <1>2 DEF TransferInv

\* TransferInv holds in every reachable state.
LEMMA TransferInvariance == TransferSpec => []TransferInv
BY TransferInitial, TransferStep, PTL DEF TransferSpec

-----------------------------------------------------------------------------
(* What the rules read of a prepared transaction.                          *)

\* A field the caller did not override is the builder's.
LEMMA MergedFields ==
    ASSUME NEW i, NEW tx, tx = prepared(i).tx
    PROVE  /\ "unlimited_approval" \notin DOMAIN i.metadata =>
                 tx.unlimited_approval = built(i).unlimited_approval
           /\ "amount_raw_is_max" \notin DOMAIN i.metadata =>
                 tx.amount_raw_is_max = built(i).amount_raw_is_max
           /\ "action" \notin DOMAIN i.metadata => tx.action = i.kind
           /\ DOMAIN i.metadata = {} =>
                 /\ tx.from_address = i.wallet_id /\ tx.to = built(i).to
                 /\ tx.value_wei = built(i).value_wei /\ tx.data = built(i).data
                 /\ tx.token_address = built(i).token_address
                 /\ tx.recipient_address = built(i).recipient_address
                 /\ tx.spender_address = built(i).spender_address
<1>1. DOMAIN built(i) = {"chain", "from_address", "to", "value_wei", "data", "gas", "has_key",
                         "action", "token_address", "recipient_address", "spender_address",
                         "unlimited_approval", "amount_raw_is_max", "provider", "slippage_bps"}
  BY DEF built
<1>2. built(i).action = i.kind /\ built(i).from_address = i.wallet_id
  BY DEF built
<1>3. tx = [field \in DOMAIN built(i) |->
              IF field \in DOMAIN i.metadata THEN i.metadata[field] ELSE built(i)[field]]
  BY DEF prepared, merge_intent_metadata_into_prepared
<1> QED BY <1>1, <1>2, <1>3

\* The ERC20 and the native rules accept what the builders accept, except
\* for an unlimited approval.
LEMMA RulesAccept ==
    ASSUME NEW i \in AllIntents, Accepted(i), DOMAIN i.metadata = {}, NEW config,
           ~(i.kind = "erc20_approval" /\ raw_amount(i) = MAX_UINT256)
    PROVE  /\ ~erc20_policy_reason(prepared(i).tx, config)
           /\ ~native_transfer_policy_reason(prepared(i).tx)
<1> DEFINE tx == prepared(i).tx
<1>1. /\ tx.action = i.kind
      /\ tx.unlimited_approval = built(i).unlimited_approval
      /\ tx.amount_raw_is_max = built(i).amount_raw_is_max
      /\ tx.from_address = i.wallet_id /\ tx.to = built(i).to
      /\ tx.value_wei = built(i).value_wei /\ tx.data = built(i).data
      /\ tx.token_address = built(i).token_address
      /\ tx.recipient_address = built(i).recipient_address
      /\ tx.spender_address = built(i).spender_address
  BY MergedFields
<1> HIDE DEF tx
<1>2. /\ ~Unreadable(Token) /\ ~Unreadable(i.party)
      /\ i.party # ZERO_ADDRESS
      /\ i.kind # "erc20_approval" => i.party # i.wallet_id /\ raw_amount(i) \in Nat \ {0}
  BY IntentType, TransferAssumption, AddressAssumption DEF Unreadable, Accepted
<1>3. CASE i.kind = "native_transfer"
  <2>1. /\ tx.to = i.party /\ tx.value_wei = raw_amount(i) /\ tx.data = "0x"
        /\ tx.recipient_address = i.party
    BY <1>1, <1>3 DEF built
  <2> QED BY <1>1, <1>2, <1>3, <2>1
       DEF tx, erc20_policy_reason, erc20_transfer_reason, erc20_approval_policy_reason,
           native_transfer_policy_reason
<1>4. CASE i.kind = "erc20_transfer"
  <2>1. /\ tx.to = Token /\ tx.token_address = Token /\ tx.value_wei = 0
        /\ tx.data = "transfer" /\ tx.recipient_address = i.party
    BY <1>1, <1>4 DEF built
  <2> QED BY <1>1, <1>2, <1>4, <2>1
       DEF tx, erc20_policy_reason, erc20_transfer_reason, erc20_approval_policy_reason,
           native_transfer_policy_reason
<1>5. CASE i.kind = "erc20_approval"
  <2>1. /\ tx.to = Token /\ tx.token_address = Token /\ tx.value_wei = 0
        /\ tx.data = "approve" /\ tx.spender_address = i.party
    BY <1>1, <1>5 DEF built
  <2>2. tx.unlimited_approval = FALSE /\ tx.amount_raw_is_max = FALSE
    BY <1>1, <1>5 DEF built
  <2> QED BY <1>1, <1>2, <1>5, <2>1, <2>2
       DEF tx, erc20_policy_reason, erc20_transfer_reason, erc20_approval_policy_reason,
           native_transfer_policy_reason
<1> QED BY <1>3, <1>4, <1>5, IntentType

-----------------------------------------------------------------------------
(* The theorems.                                                           *)

\* The builders and the rules agree for every configuration and every
\* intent whose metadata overrides nothing: what was prepared is refused by
\* a rule of its own kind only for being an unlimited approval.
THEOREM BuildersAgree == TransferSpec => []BuildersAgreeWithRules
<1>1. TransferInv => BuildersAgreeWithRules
  <2> SUFFICES ASSUME TransferInv, NEW r \in Runs, call[r] # NoCall,
                      DOMAIN intent[r].metadata = {},
                      \/ erc20_policy_reason(request[r].tx, Config)
                      \/ native_transfer_policy_reason(request[r].tx)
               PROVE  intent[r].kind = "erc20_approval" /\ raw_amount(intent[r]) = MAX_UINT256
    BY DEF BuildersAgreeWithRules
  <2>1. PICK i \in AllIntents :
          i = intent[r] /\ request[r] = prepared(i) /\ Accepted(i)
    BY DEF TransferInv, CallInv, CallOf
  <2> QED BY <2>1, RulesAccept
<1> QED BY <1>1, TransferInvariance, PTL

\* With the default configuration no unlimited allowance is submitted,
\* whatever the text of the amount, whether or not the caller allows it and
\* whatever else the caller's metadata says, unless it replaces the action or
\* both of the builder's marks.
THEOREM NoUnlimited == TransferSpec => []UnlimitedRejectedByDefault
<1>1. TransferInv => UnlimitedRejectedByDefault
  <2> SUFFICES ASSUME TransferInv, NEW r \in Runs, Config = DefaultPolicyConfig,
                      chain[r] # "absent", call[r].effect = "approve",
                      "action" \notin DOMAIN intent[r].metadata,
                      ~({"unlimited_approval", "amount_raw_is_max"}
                          \subseteq DOMAIN intent[r].metadata)
               PROVE  call[r].amount < MAX_UINT256
    BY DEF UnlimitedRejectedByDefault
  <2>1. PICK i \in AllIntents :
          i = intent[r] /\ call[r] = encoded(i) /\ request[r] = prepared(i) /\ Accepted(i)
    BY DEF TransferInv, CallInv, CallOf, NoCall
  <2>2. i.kind = "erc20_approval" /\ call[r].amount = raw_amount(i)
    BY <2>1 DEF encoded
  <2>3. Unrejected(r)
    BY DEF TransferInv, GateInv, GateOf
  <2> DEFINE tx == executable_transaction(r)
  <2>4. ~(/\ tx.action = "erc20_approval" /\ Config.reject_unlimited_erc20_approvals
          /\ tx.unlimited_approval \/ tx.amount_raw_is_max)
    BY <2>3 DEF Unrejected, rejection_reason, erc20_policy_reason, erc20_approval_policy_reason
  <2>5. request[r].tx \in PolicyTransaction
    BY RequestType DEF TransferInv, IInv, PreparedTransaction
  <2>6. /\ tx.action = request[r].tx.action
        /\ tx.unlimited_approval = request[r].tx.unlimited_approval
        /\ tx.amount_raw_is_max = request[r].tx.amount_raw_is_max
    BY <2>5 DEF executable_transaction, PolicyTransaction
  <2> HIDE DEF tx
  <2>7. /\ request[r].tx.action = i.kind
        /\ \/ request[r].tx.unlimited_approval = built(i).unlimited_approval
           \/ request[r].tx.amount_raw_is_max = built(i).amount_raw_is_max
    <3>1. /\ "action" \notin DOMAIN i.metadata
          /\ \/ "unlimited_approval" \notin DOMAIN i.metadata
             \/ "amount_raw_is_max" \notin DOMAIN i.metadata
      BY <2>1
    <3>2. request[r].tx = prepared(i).tx
      BY <2>1
    <3> QED BY <3>1, <3>2, MergedFields
  <2>8. Config.reject_unlimited_erc20_approvals = TRUE
    BY DEF DefaultPolicyConfig
  <2>9. /\ built(i).unlimited_approval = (raw_amount(i) = MAX_UINT256)
        /\ built(i).amount_raw_is_max = (raw_amount(i) = MAX_UINT256)
    BY <2>2 DEF built
  <2>10. raw_amount(i) # MAX_UINT256
    BY <2>2, <2>4, <2>6, <2>7, <2>8, <2>9
  <2> QED BY <2>1, <2>2, <2>10, TransferAssumption DEF Accepted
<1> QED BY <1>1, TransferInvariance, PTL

\* At most one transfer or approval per key reaches the chain, as long as a
\* failed broadcast means that nothing was submitted.
THEOREM TransferredOnce ==
    ASSUME "lost_reply" \notin Faults
    PROVE  TransferSpec => []AtMostOneSubmission
<1>1. TransferInit => SubmitInv
  BY DEF TransferInit, Init, SubmitInv, Sent
<1>2. TransferInv /\ SubmitInv /\ [TransferNext]_all_vars => SubmitInv'
  BY TransferPipelineStep, SubmitStep DEF TransferInv, IInv
<1>3. TransferInv /\ SubmitInv => AtMostOneSubmission
  BY SubmittedOnce DEF TransferInv
<1> QED BY <1>1, <1>2, <1>3, TransferInvariance, PTL DEF TransferSpec

\* Under the same condition the two graphs implement the abstract ledger.
THEOREM TransfersImplementLedger ==
    ASSUME "lost_reply" \notin Faults
    PROVE  TransferSpec => ImplementsIdempotentExecution
<1>1. TransferInv /\ TransferInv' /\ [TransferNext]_all_vars => [Abstract!Next]_(Abstract!vars)
  BY TransferPipelineStep, RefineStep DEF TransferInv, IInv
<1>2. TransferInit => Abstract!Init
  BY RefineInit DEF TransferInit
<1> QED BY <1>1, <1>2, TransferInvariance, PTL
     DEF TransferSpec, Abstract!Spec, ImplementsIdempotentExecution

-----------------------------------------------------------------------------
(* The amounts.                                                            *)

\* What exponentiation is; the provers have no rule for it.
PowersOfTen == \A n \in Nat : 10^n \in Nat \ {0} /\ 10^(n + 1) = 10 * 10^n

\* A set of numbers has a least one.
LEMMA Least ==
    ASSUME NEW S \in SUBSET Nat, S # {}
    PROVE  \E i \in S : \A j \in S : i <= j
<1>1. PICK i \in S : \A j \in S : <<j, i>> \notin OpToRel(<, Nat)
  BY NatLessThanWellFounded, WFMin
<1>2. \A j \in S : ~(j < i)
  BY <1>1 DEF OpToRel
<1> QED BY <1>2

\* A number is less than its power of ten.
LEMMA PowerExceeds ==
    ASSUME PowersOfTen, NEW n \in Nat
    PROVE  n < 10^n
<1> DEFINE Bad == {m \in Nat : ~(m < 10^m)}
<1> SUFFICES ASSUME Bad # {} PROVE FALSE
  OBVIOUS
<1>1. PICK m \in Bad : \A j \in Bad : m <= j
  BY Least, Bad \in SUBSET Nat
<1>2. m # 0
  <2>1. PICK p \in Nat \ {0} : p = 10^0
    BY DEF PowersOfTen
  <2>2. 0 < 10^0
    BY <2>1
  <2> QED BY <1>1, <2>2
<1>3. m - 1 \in Nat /\ m - 1 \notin Bad
  BY <1>1, <1>2
<1>4. PICK p \in Nat : p = 10^(m - 1) /\ 10^((m - 1) + 1) = 10 * p
  BY <1>3 DEF PowersOfTen
<1>5. (m - 1) + 1 = m
  BY <1>3
<1>6. m - 1 < p /\ ~(m < 10 * p)
  BY <1>1, <1>3, <1>4, <1>5
<1> QED BY <1>3, <1>6

\* Every number has its digits.
LEMMA DigitsType ==
    ASSUME PowersOfTen, NEW n \in Nat
    PROVE  digits(n) \in Nat \ {0} /\ n < 10^digits(n)
<1> DEFINE S == {k \in Nat : k # 0 /\ n < 10^k}
<1>1. n + 1 \in S
  <2>1. PICK p \in Nat : p = 10^n /\ 10^(n + 1) = 10 * p
    BY DEF PowersOfTen
  <2>2. n < p
    BY <2>1, PowerExceeds
  <2> QED BY <2>1, <2>2
<1>2. PICK k \in S : \A j \in S : k <= j
  BY <1>1, Least, S \in SUBSET Nat
<1>3. k \in 1..(n + 1)
  BY <1>1, <1>2
<1>4. Digits(n, k)
  <2>1. CASE k = 1
    BY <1>2, <2>1 DEF Digits
  <2>2. CASE k # 1
    <3>1. k - 1 \in Nat /\ k - 1 # 0 /\ k - 1 \notin S
      BY <1>2, <2>2
    <3>2. 10^(k - 1) \in Nat
      BY <3>1 DEF PowersOfTen
    <3> QED BY <1>2, <3>1, <3>2 DEF Digits
  <2> QED BY <2>1, <2>2
<1>5. digits(n) \in 1..(n + 1) /\ Digits(n, digits(n))
  BY <1>3, <1>4 DEF digits
<1> QED BY <1>5 DEF Digits

\* A number is not rounded in a context with room for its digits.
LEMMA NotRounded ==
    ASSUME PowersOfTen, NEW c \in Nat, NEW e \in Int, NEW p \in Nat, digits(c) <= p
    PROVE  rounded(c, e, p) = [coefficient |-> c, exponent |-> e]
<1>1. digits(c) \in Nat
  BY DigitsType
<1>2. Larger(digits(c) - p, 0) = 0
  BY <1>1 DEF Larger
<1>3. 10^0 = 1
  BY SMT
<1>4. c % 1 = 0 /\ c \div 1 = c
  BY SMT
<1> DEFINE drop == Larger(digits(c) - p, 0)
           unit == 10^drop
           rest == 2 * (c % unit)
           up == rest > unit \/ (rest = unit /\ (c \div unit) % 2 = 1)
<1>5. unit = 1
  BY <1>2, <1>3
<1> HIDE DEF unit
<1>6. c % unit = 0 /\ c \div unit = c
  BY <1>4, <1>5
<1>7. ~up
  BY <1>5, <1>6
<1>8. rounded(c, e, p) = [coefficient |-> (c \div unit) + (IF up THEN 1 ELSE 0),
                          exponent |-> e + drop]
  BY DEF rounded, unit
<1> HIDE DEF drop, rest, up
<1>9. e + drop = e /\ c + 0 = c
  BY <1>2 DEF drop
<1> QED BY <1>6, <1>7, <1>8, <1>9

\* The context of parse_units has room for the whole product.
LEMMA ScaledExactly ==
    ASSUME PowersOfTen, NEW a \in AmountText, NEW d \in Nat
    PROVE  scaled(a, d) = [coefficient |-> a.coefficient, exponent |-> a.exponent + d]
<1>1. a.coefficient \in Nat /\ a.exponent + d \in Int
  BY DEF AmountText
<1>2. digits(a.coefficient) \in Nat
  BY <1>1, DigitsType
<1> DEFINE p == Larger(digits(a.coefficient), d) + d + 4
<1>3. p \in Nat /\ digits(a.coefficient) <= p
  BY <1>2 DEF Larger
<1>4. scaled(a, d) = rounded(a.coefficient, a.exponent + d, p)
  BY DEF scaled
<1> HIDE DEF p
<1> QED BY <1>1, <1>3, <1>4, NotRounded

\* Exact division.
LEMMA Divides ==
    ASSUME NEW c \in Nat, NEW d \in Nat, d # 0, c % d = 0
    PROVE  (c \div d) * d = c
BY SMT

\* What parse_units answers is what the text denotes.
LEMMA ParsedExactly ==
    ASSUME PowersOfTen, NEW a \in AmountText, NEW d \in Nat, parse_units(a, d) # Error
    PROVE  Denotes(a.coefficient, a.exponent + d, parse_units(a, d))
<1> DEFINE c == a.coefficient
           e == a.exponent + d
           x == scaled(a, d)
<1>1. c \in Nat /\ e \in Int
  BY DEF AmountText
<1>2. x.coefficient = c /\ x.exponent = e
  BY ScaledExactly
<1>3. parse_units(a, d) = to_int(x) /\ is_integral(x)
  BY DEF parse_units
<1> HIDE DEF c, e, x
<1>4. CASE e >= 0
  BY <1>2, <1>3, <1>4 DEF to_int, Denotes, c, e
<1>5. CASE ~(e >= 0)
  <2>1. 0 - e \in Nat
    BY <1>1, <1>5
  <2>2. PICK q \in Nat \ {0} : q = 10^(0 - e)
    BY <2>1 DEF PowersOfTen
  <2>3. to_int(x) = c \div q /\ c % q = 0
    BY <1>2, <1>3, <1>5, <2>2 DEF to_int, is_integral
  <2>4. to_int(x) * q = c
    BY <1>1, <2>3, Divides
  <2>5. Denotes(c, e, to_int(x))
    BY <1>5, <2>2, <2>4 DEF Denotes
  <2> QED BY <1>3, <2>5 DEF c, e
<1> QED BY <1>4, <1>5

\* The prepared transaction moves or grants exactly what the text of the
\* amount denotes, for every number of digits and of decimals: the contexts
\* of models/amounts.py never round.
THEOREM AmountsAreExact ==
    ASSUME PowersOfTen
    PROVE  TransferSpec => []PreparedAmountIsExact
<1>1. TransferInv => PreparedAmountIsExact
  <2> SUFFICES ASSUME TransferInv, NEW r \in Runs, call[r] # NoCall,
                      intent[r].amount # UnlimitedText
               PROVE  Denotes(intent[r].amount.coefficient,
                              intent[r].amount.exponent + intent_decimals(intent[r]),
                              call[r].amount)
    BY DEF PreparedAmountIsExact
  <2>1. PICK i \in AllIntents : i = intent[r] /\ call[r] = encoded(i) /\ Accepted(i)
    BY DEF TransferInv, CallInv, CallOf
  <2>2. call[r].amount = raw_amount(i) /\ raw_amount(i) # Error
    BY <2>1 DEF encoded, Accepted, Error
  <2>3. raw_amount(i) = transfer_amount(i)
    BY <2>1 DEF raw_amount, _approval_amount
  <2>4. i.amount \in AmountText
    BY IntentType
  <2>5. Denotes(i.amount.coefficient, i.amount.exponent + intent_decimals(i), transfer_amount(i))
    <3>1. CASE i.kind = "native_transfer"
      <4>1. /\ transfer_amount(i) = parse_units(i.amount, NativeDecimals)
            /\ intent_decimals(i) = NativeDecimals /\ NativeDecimals \in Nat
        BY <3>1, TransferAssumption DEF transfer_amount, intent_decimals
      <4> QED BY <2>2, <2>3, <2>4, <4>1, ParsedExactly
    <3>2. CASE i.kind # "native_transfer" /\ ~i.amount_in_smallest_units
      <4>1. /\ transfer_amount(i) = parse_units(i.amount, TokenDecimals)
            /\ intent_decimals(i) = TokenDecimals /\ TokenDecimals \in Nat
        BY <3>2, TransferAssumption DEF transfer_amount, intent_decimals
      <4> QED BY <2>2, <2>3, <2>4, <4>1, ParsedExactly
    <3>3. CASE i.kind # "native_transfer" /\ i.amount_in_smallest_units
      <4>1. /\ transfer_amount(i) = parse_integer_raw_amount(i.amount)
            /\ intent_decimals(i) = 0
        BY <3>3 DEF transfer_amount, intent_decimals
      <4>2. i.amount.exponent = 0 /\ transfer_amount(i) = i.amount.coefficient
        BY <2>2, <2>3, <4>1 DEF parse_integer_raw_amount
      <4>3. 10^0 = 1
        BY SMT
      <4>4. i.amount.coefficient \in Nat
        BY <2>4 DEF AmountText
      <4>5. Denotes(i.amount.coefficient, 0, i.amount.coefficient)
        BY <4>3, <4>4 DEF Denotes
      <4> QED BY <4>1, <4>2, <4>5
    <3> QED BY <3>1, <3>2, <3>3
  <2> QED BY <2>1, <2>2, <2>3, <2>5
<1> QED BY <1>1, TransferInvariance, PTL


-----------------------------------------------------------------------------
(* Balances that are shown.                                                *)

\* Division leaves a number.
LEMMA Quotient ==
    ASSUME NEW c \in Nat, NEW d \in Nat \ {0}
    PROVE  c \div d \in Nat
BY SMT

\* The remainder of a smaller number is the number.
LEMMA SmallRemainder ==
    ASSUME NEW c \in Nat, NEW d \in Nat \ {0}, c < d
    PROVE  c % d = c
BY SMT

\* A number other than zero has finitely many trailing zeros.
LEMMA TrailingZeros ==
    ASSUME PowersOfTen, NEW c \in Nat \ {0}
    PROVE  trailing_zeros(c) \in Nat
<1> DEFINE S == {z \in Nat : c % 10^(z + 1) # 0}
           k == digits(c)
<1>1. k \in Nat \ {0} /\ c < 10^k
  BY DigitsType
<1> HIDE DEF k
<1>2. k - 1 \in S
  <2>1. PICK p \in Nat \ {0} : p = 10^k
    BY <1>1 DEF PowersOfTen
  <2>2. c % p = c
    BY <1>1, <2>1, SmallRemainder
  <2>3. k - 1 \in Nat /\ (k - 1) + 1 = k
    BY <1>1
  <2> QED BY <2>1, <2>2, <2>3
<1>3. PICK z \in S : \A j \in S : z <= j
  BY <1>2, Least, S \in SUBSET Nat
<1>4. z \in 0..k
  <2>1. z \in Nat /\ z <= k - 1
    BY <1>2, <1>3
  <2> QED BY <1>1, <2>1
<1>5. c % 10^z = 0
  <2>1. CASE z = 0
    <3>1. 10^0 = 1 /\ c % 1 = 0
      BY SMT
    <3> QED BY <2>1, <3>1
  <2>2. CASE z # 0
    <3>1. z - 1 \in Nat /\ z - 1 \notin S /\ (z - 1) + 1 = z
      <4>1. z \in Nat /\ \A j \in S : z <= j
        BY <1>3
      <4> HIDE DEF S
      <4> QED BY <2>2, <4>1
    <3>2. ~(c % 10^((z - 1) + 1) # 0)
      BY <3>1
    <3> QED BY <3>1, <3>2
  <2> QED BY <2>1, <2>2
<1>6. \E x \in 0..digits(c) : c % 10^x = 0 /\ c % 10^(x + 1) # 0
  BY <1>3, <1>4, <1>5 DEF k
<1>7. trailing_zeros(c) \in 0..k
  BY <1>6, Zenon DEF trailing_zeros, k
<1> QED BY <1>1, <1>7

\* Rounding gives a number, and drops digits from the right.
LEMMA RoundedType ==
    ASSUME PowersOfTen, NEW c \in Nat, NEW e \in Int, NEW p \in Nat
    PROVE  /\ rounded(c, e, p).coefficient \in Nat
           /\ \E drop \in Nat : rounded(c, e, p).exponent = e + drop
<1> DEFINE drop == Larger(digits(c) - p, 0)
           unit == 10^drop
           rest == 2 * (c % unit)
           up == rest > unit \/ (rest = unit /\ (c \div unit) % 2 = 1)
<1>1. drop \in Nat
  BY DigitsType DEF Larger
<1> HIDE DEF drop
<1>2. unit \in Nat \ {0}
  BY <1>1 DEF PowersOfTen
<1> HIDE DEF unit
<1>3. c \div unit \in Nat
  BY <1>2, Quotient
<1>4. rounded(c, e, p) = [coefficient |-> (c \div unit) + (IF up THEN 1 ELSE 0),
                          exponent |-> e + drop]
  BY DEF rounded, unit, drop
<1> HIDE DEF rest, up
<1> QED BY <1>1, <1>3, <1>4

\* A formatted amount has no more digits behind the point than its decimals.
LEMMA FewFractionalDigits ==
    ASSUME PowersOfTen, NEW a \in AmountText, NEW d \in Nat, a.exponent = 0 - d
    PROVE  fractional_digits(a) <= d
<1> DEFINE r == rounded(a.coefficient, a.exponent, Prec)
<1>1. a.coefficient \in Nat /\ a.exponent \in Int /\ Prec \in Nat
  BY AmountsAssumption DEF AmountText
<1>2. r.coefficient \in Nat
  BY <1>1, RoundedType
<1>3. PICK drop \in Nat : r.exponent = (0 - d) + drop
  <2>1. \E drop \in Nat : r.exponent = a.exponent + drop
    BY <1>1, RoundedType
  <2> QED BY <2>1
<1> HIDE DEF r
<1>4. fractional_digits(a) = IF r.coefficient = 0 THEN 0
                             ELSE Larger(0 - (r.exponent + trailing_zeros(r.coefficient)), 0)
  BY DEF fractional_digits, r
<1>5. CASE r.coefficient = 0
  BY <1>4, <1>5
<1>6. CASE r.coefficient # 0
  <2>1. trailing_zeros(r.coefficient) \in Nat
    BY <1>2, <1>6, TrailingZeros
  <2> QED BY <1>3, <1>4, <1>6, <2>1 DEF Larger
<1> QED BY <1>5, <1>6

\* The text of a raw amount parses to it.
LEMMA ShownReadsBack ==
    ASSUME PowersOfTen, NEW raw \in Nat, NEW d \in 0..MAX_DECIMALS
    PROVE  amount_pair_valid(format_units(raw, d), d, raw)
<1> DEFINE a == format_units(raw, d)
           p == Larger(digits(raw), d) + 2
<1>0. d \in Nat /\ validate_token_decimals(d)
  BY AmountsAssumption DEF validate_token_decimals
<1>1. p \in Nat /\ digits(raw) <= p
  BY <1>0, DigitsType DEF Larger
<1>2. quotient(raw, d) = rounded(raw, 0 - d, p)
  BY DEF quotient
<1> HIDE DEF p
<1>3. quotient(raw, d) = [coefficient |-> raw, exponent |-> 0 - d]
  BY <1>0, <1>1, <1>2, NotRounded
<1>4. a = [form |-> "number", negative |-> FALSE, coefficient |-> raw, exponent |-> 0 - d]
  BY <1>0, <1>3 DEF format_units
<1>5. a \in AmountText /\ a.coefficient = raw /\ a.exponent = 0 - d
  BY <1>0, <1>4 DEF AmountText
<1> HIDE DEF a
<1>6. fractional_digits(a) <= d
  BY <1>0, <1>5, FewFractionalDigits
<1>7. fractional_digits(a) > d <=> FALSE
  <2>1. fractional_digits(a) \in Int
    <3> DEFINE r == rounded(a.coefficient, a.exponent, Prec)
    <3>1. r.coefficient \in Nat /\ r.exponent \in Int
      <4>1. Prec \in Nat /\ a.exponent \in Int /\ a.coefficient \in Nat
        BY <1>0, <1>5, AmountsAssumption
      <4>2. \E drop \in Nat : r.exponent = a.exponent + drop
        BY <4>1, RoundedType
      <4>3. r.coefficient \in Nat
        BY <4>1, RoundedType
      <4> HIDE DEF r
      <4> QED BY <4>1, <4>2, <4>3
    <3> HIDE DEF r
    <3>2. r.coefficient # 0 => trailing_zeros(r.coefficient) \in Nat
      BY <3>1, TrailingZeros
    <3>3. fractional_digits(a) = IF r.coefficient = 0 THEN 0
                                 ELSE Larger(0 - (r.exponent + trailing_zeros(r.coefficient)), 0)
      BY DEF fractional_digits, r
    <3> QED BY <3>1, <3>2, <3>3 DEF Larger
  <2> QED BY <1>0, <1>6, <2>1
<1>8. scaled(a, d) = [coefficient |-> raw, exponent |-> 0]
  <2>1. scaled(a, d) = [coefficient |-> a.coefficient, exponent |-> a.exponent + d]
    BY <1>0, <1>5, ScaledExactly
  <2>2. (0 - d) + d = 0
    BY <1>0
  <2> QED BY <1>5, <2>1, <2>2
<1>9. 10^0 = 1
  BY SMT
<1>10. is_integral(scaled(a, d)) /\ to_int(scaled(a, d)) = raw
  BY <1>8, <1>9 DEF is_integral, to_int
<1>11. parse_units(a, d) = to_int(scaled(a, d))
  BY <1>0, <1>4, <1>7, <1>10 DEF parse_units, a
<1> QED BY <1>10, <1>11 DEF amount_pair_valid, a

\* What a transfer does to the balances.
LEMMA MovedBalances ==
    ASSUME NEW b \in [Assets -> [Addresses -> Nat]], NEW c, NEW w \in Addresses,
           c.asset \in Assets, c.party \in Addresses \ {w}, c.amount \in Nat,
           b[c.asset][w] >= c.amount
    PROVE  /\ Moved(b, c, w) \in [Assets -> [Addresses -> Nat]]
           /\ \A x \in Assets, a \in Addresses :
                 Moved(b, c, w)[x][a] =
                    IF x = c.asset /\ a = w THEN b[x][a] - c.amount
                    ELSE IF x = c.asset /\ a = c.party THEN b[x][a] + c.amount
                    ELSE b[x][a]
<1> DEFINE x0 == c.asset
           p == c.party
           n == c.amount
           row == b[x0]
           m == [row EXCEPT ![w] = @ - n, ![p] = @ + n]
<1>1. row \in [Addresses -> Nat] /\ row[w] >= n /\ n \in Nat /\ p \in Addresses /\ p # w
  OBVIOUS
<1>2. Moved(b, c, w) = [b EXCEPT ![x0] = m]
  BY DEF Moved
<1> HIDE DEF row, n, p, x0
<1>3. /\ m \in [Addresses -> Nat]
      /\ \A a \in Addresses : m[a] = IF a = w THEN row[a] - n
                                     ELSE IF a = p THEN row[a] + n ELSE row[a]
  BY <1>1
<1> HIDE DEF m
<1>4. [b EXCEPT ![x0] = m] \in [Assets -> [Addresses -> Nat]]
  BY <1>3
<1>5. \A x \in Assets : [b EXCEPT ![x0] = m][x] = IF x = x0 THEN m ELSE b[x]
  OBVIOUS
<1>6. ASSUME NEW x \in Assets, NEW a \in Addresses
      PROVE  [b EXCEPT ![x0] = m][x][a] =
                IF x = x0 /\ a = w THEN b[x][a] - n
                ELSE IF x = x0 /\ a = p THEN b[x][a] + n ELSE b[x][a]
  <2>1. CASE x = x0
    BY <1>3, <1>5, <2>1 DEF row
  <2>2. CASE x # x0
    BY <1>5, <2>2
  <2> QED BY <2>1, <2>2
<1> QED BY <1>2, <1>4, <1>6 DEF x0, p, n

BalanceInv == balance \in [Assets -> [Addresses -> Nat]]

\* A mined transfer moves the amount of its intent out of the wallet of its
\* run; nothing else changes a balance.
LEMMA MinedTransfer ==
    ASSUME TransferInv, BalanceInv, NEW r \in Runs, MineTransfer(r),
           chain'[r] = "mined", call[r].effect = "transfer"
    PROVE  /\ call[r] = encoded(intent[r]) /\ Accepted(intent[r]) /\ intent[r] \in AllIntents
           /\ intent[r].kind # "erc20_approval"
           /\ wallet(r) = intent[r].wallet_id
           /\ call[r].amount = raw_amount(intent[r]) /\ raw_amount(intent[r]) \in Nat
           /\ balance' = Moved(balance, call[r], wallet(r))
           /\ call[r].asset \in Assets /\ wallet(r) \in Wallets /\ wallet(r) \in Addresses
           /\ call[r].party = intent[r].party /\ call[r].party \in Addresses \ {wallet(r)}
           /\ balance[call[r].asset][wallet(r)] >= call[r].amount
<1>1. PICK i \in AllIntents :
        i = intent[r] /\ call[r] = encoded(i) /\ request[r] = prepared(i) /\ Accepted(i)
  BY DEF TransferInv, CallInv, CallOf, NoCall
<1>2. /\ call[r].party = i.party /\ call[r].amount = raw_amount(i) /\ call[r].asset \in Assets
      /\ i.kind # "erc20_approval"
  BY <1>1 DEF encoded, Assets
<1>3. wallet(r) = i.wallet_id
  BY <1>1 DEF wallet, prepared
<1>4. wallet(r) \in Wallets /\ wallet(r) \in Addresses
  BY <1>3, RequestType, PipelineAssumption DEF TransferInv, IInv
<1>5. i.party \in Addresses /\ i.party # i.wallet_id /\ raw_amount(i) \in Nat
  BY <1>1, <1>2, IntentType DEF Accepted
<1>6. /\ balance[call[r].asset][wallet(r)] >= call[r].amount
      /\ balance' = Moved(balance, call[r], wallet(r))
  BY DEF MineTransfer, Executable
<1> QED BY <1>1, <1>2, <1>3, <1>4, <1>5, <1>6

\* Only mined transfers change balances.
LEMMA BalancesRest ==
    ASSUME [TransferNext]_all_vars, balance' # balance
    PROVE  \E r \in Runs : MineTransfer(r) /\ chain'[r] = "mined" /\ call[r].effect = "transfer"
BY DEF TransferNext, prepare_transfer, graph_node, MineTransfer, Terminated, all_vars, transfer_vars

\* No balance becomes negative.
LEMMA BalanceStep == TransferInv /\ BalanceInv /\ [TransferNext]_all_vars => BalanceInv'
<1> SUFFICES ASSUME TransferInv, BalanceInv, [TransferNext]_all_vars, balance' # balance
             PROVE  BalanceInv'
  BY DEF BalanceInv
<1>1. PICK r \in Runs : MineTransfer(r) /\ chain'[r] = "mined" /\ call[r].effect = "transfer"
  BY BalancesRest
<1>2. /\ balance' = Moved(balance, call[r], wallet(r))
      /\ call[r].asset \in Assets /\ wallet(r) \in Addresses
      /\ call[r].party \in Addresses \ {wallet(r)} /\ call[r].amount \in Nat
      /\ balance[call[r].asset][wallet(r)] >= call[r].amount
  BY <1>1, MinedTransfer
<1> DEFINE c == call[r]
           w == wallet(r)
<1> HIDE DEF c, w
<1>3. Moved(balance, c, w) \in [Assets -> [Addresses -> Nat]]
  BY <1>2, MovedBalances DEF BalanceInv, c, w
<1> QED BY <1>2, <1>3 DEF BalanceInv, c, w

\* Balances start as numbers.
LEMMA BalanceInit == TransferInit => BalanceInv
BY TransferAssumption DEF TransferInit, BalanceInv

\* Whatever the transfers lead to, the text in which a balance is shown reads
\* back as that balance, for any supply and for all decimals the code accepts.
THEOREM BalancesReadBack ==
    ASSUME PowersOfTen, {TokenDecimals, NativeDecimals} \subseteq 0..MAX_DECIMALS
    PROVE  TransferSpec => []ShownBalanceReadsBack
<1>1. BalanceInv => ShownBalanceReadsBack
  <2> SUFFICES ASSUME BalanceInv, NEW asset \in Assets, NEW a \in Addresses, NEW d,
                      d = IF asset = "native" THEN NativeDecimals ELSE TokenDecimals
               PROVE  amount_pair_valid(format_units(balance[asset][a], d), d, balance[asset][a])
    BY DEF ShownBalanceReadsBack
  <2>1. d \in 0..MAX_DECIMALS
    OBVIOUS
  <2>2. balance[asset][a] \in Nat
    BY DEF BalanceInv
  <2> QED BY <2>1, <2>2, ShownReadsBack
<1> QED BY <1>1, BalanceInit, BalanceStep, TransferInvariance, PTL DEF TransferSpec

-----------------------------------------------------------------------------
(* Sums over finite sets, as MapThenSumSet of FiniteSetsExt defines them:  *)
(* the sum of a set is the value of a chosen element and the sum of the    *)
(* rest.                                                                   *)

Total(f, S) == MapThenSumSet(LAMBDA k : f[k], S)

\* The sum of the subset s, given the sums of smaller ones.
SumOf(f, it, s) ==
    IF s = {} THEN 0 ELSE f[CHOOSE x \in s : TRUE] + it[s \ {CHOOSE x \in s : TRUE}]

Solves(it, f, S) == \A s \in SUBSET S : it[s] = SumOf(f, it, s)

\* A set is empty, or has one element less without the chosen one.
LEMMA OneLess ==
    ASSUME NEW S, IsFiniteSet(S), NEW s \in SUBSET S, s # {}
    PROVE  LET x == CHOOSE x \in s : TRUE
           IN  /\ x \in s /\ s \ {x} \in SUBSET S
               /\ Cardinality(s) \in Nat \ {0} /\ Cardinality(s \ {x}) = Cardinality(s) - 1
<1> DEFINE x == CHOOSE x \in s : TRUE
<1>1. x \in s
  OBVIOUS
<1>2. IsFiniteSet(s)
  BY FS_Subset
<1> HIDE DEF x
<1>3. Cardinality(s \ {x}) = Cardinality(s) - 1
  BY <1>1, <1>2, FS_RemoveElement
<1>4. Cardinality(s) \in Nat /\ Cardinality(s) # 0
  BY <1>2, FS_CardinalityType, FS_EmptySet
<1> QED BY <1>1, <1>3, <1>4 DEF x

\* Among subsets of a finite set there is one of least cardinality.
LEMMA Smallest ==
    ASSUME NEW S, IsFiniteSet(S), NEW Bad \in SUBSET (SUBSET S), Bad # {}
    PROVE  \E s \in Bad : \A t \in Bad : Cardinality(s) <= Cardinality(t)
<1> DEFINE Sizes == {Cardinality(s) : s \in Bad}
<1>1. \A s \in Bad : Cardinality(s) \in Nat
  BY FS_Subset, FS_CardinalityType
<1>2. Sizes \in SUBSET Nat /\ Sizes # {}
  BY <1>1
<1>3. PICK n \in Sizes : \A m \in Sizes : n <= m
  <2> HIDE DEF Sizes
  <2> QED BY <1>2, Least
<1> QED BY <1>3

\* The recursion has a solution.
LEMMA SumExists ==
    ASSUME NEW f, NEW S, IsFiniteSet(S)
    PROVE  \E it : it = [s \in SUBSET S |-> SumOf(f, it, s)]
<1> DEFINE Good(it, n) == \A s \in SUBSET S : Cardinality(s) <= n => it[s] = SumOf(f, it, s)
           Bad == {n \in Nat : ~\E it : Good(it, n)}
<1>1. \A s \in SUBSET S : Cardinality(s) \in Nat /\ (Cardinality(s) = 0 <=> s = {})
  BY FS_Subset, FS_CardinalityType, FS_EmptySet
<1>2. ASSUME NEW it, NEW jt, NEW s \in SUBSET S,
             \A t \in SUBSET S : Cardinality(t) < Cardinality(s) => it[t] = jt[t]
      PROVE  SumOf(f, it, s) = SumOf(f, jt, s)
  <2>1. CASE s = {}
    BY <2>1 DEF SumOf
  <2>2. CASE s # {}
    <3> DEFINE x == CHOOSE x \in s : TRUE
    <3>1. s \ {x} \in SUBSET S /\ Cardinality(s \ {x}) < Cardinality(s)
      <4>1. /\ s \ {x} \in SUBSET S /\ Cardinality(s) \in Nat \ {0}
            /\ Cardinality(s \ {x}) = Cardinality(s) - 1
        BY <2>2, OneLess
      <4> HIDE DEF x
      <4> QED BY <4>1
    <3>2. it[s \ {x}] = jt[s \ {x}]
      <4> HIDE DEF x
      <4> QED BY <1>2, <3>1
    <3> QED BY <2>2, <3>2 DEF SumOf
  <2> QED BY <2>1, <2>2
<1>3. Bad = {}
  <2> SUFFICES ASSUME Bad # {} PROVE FALSE
    OBVIOUS
  <2>1. PICK n \in Bad : \A m \in Bad : n <= m
    <3>1. Bad \in SUBSET Nat
      OBVIOUS
    <3> HIDE DEF Bad
    <3> QED BY <3>1, Least
  <2>2. n \in Nat /\ ~\E it : Good(it, n)
    OBVIOUS
  <2>3. \E g : n # 0 => Good(g, n - 1)
    <3>1. n # 0 => n - 1 \in Nat /\ n - 1 \notin Bad
      BY <2>1, <2>2
    <3> QED BY <3>1
  <2>4. PICK g : n # 0 => Good(g, n - 1)
    BY <2>3
  <2> DEFINE it == [s \in SUBSET S |-> SumOf(f, g, s)]
  <2>5. ASSUME NEW s \in SUBSET S, Cardinality(s) <= n PROVE it[s] = SumOf(f, it, s)
    <3>1. ASSUME NEW t \in SUBSET S, Cardinality(t) < Cardinality(s) PROVE g[t] = it[t]
      <4>1. n # 0 /\ Cardinality(t) <= n - 1
        BY <1>1, <2>2, <2>5, <3>1
      <4>2. it[t] = SumOf(f, g, t)
        OBVIOUS
      <4> HIDE DEF it
      <4> QED BY <2>4, <4>1, <4>2
    <3>2. it[s] = SumOf(f, g, s)
      OBVIOUS
    <3> HIDE DEF it
    <3>3. SumOf(f, g, s) = SumOf(f, it, s)
      BY <1>2, <3>1
    <3> QED BY <3>2, <3>3
  <2>6. Good(it, n)
    <3> HIDE DEF it
    <3> QED BY <2>5
  <2> QED BY <2>2, <2>6
<1>4. PICK g : Good(g, Cardinality(S))
  <2>1. Cardinality(S) \in Nat
    BY <1>1
  <2> QED BY <1>3, <2>1
<1> DEFINE it == [s \in SUBSET S |-> g[s]]
<1>5. ASSUME NEW s \in SUBSET S PROVE it[s] = SumOf(f, it, s)
  <2>1. Cardinality(s) <= Cardinality(S)
    BY FS_Subset
  <2>2. \A t \in SUBSET S : g[t] = it[t]
    OBVIOUS
  <2> HIDE DEF it
  <2>3. SumOf(f, g, s) = SumOf(f, it, s)
    BY <1>2, <2>2
  <2> QED BY <1>4, <2>1, <2>2, <2>3
<1>6. it = [s \in SUBSET S |-> it[s]]
  OBVIOUS
<1> HIDE DEF it
<1>7. it = [s \in SUBSET S |-> SumOf(f, it, s)]
  BY <1>5, <1>6
<1> QED BY <1>7

\* Total computes a solution.
LEMMA TotalIsSum ==
    ASSUME NEW f, NEW S, IsFiniteSet(S)
    PROVE  \E it : /\ Total(f, S) = it[S]
                   /\ Solves(it, f, S)
<1> DEFINE it == CHOOSE g : g = [s \in SUBSET S |->
                      IF s = {} THEN 0
                      ELSE f[CHOOSE x \in s : TRUE] + g[s \ {CHOOSE x \in s : TRUE}]]
<1>1. it = [s \in SUBSET S |-> SumOf(f, it, s)]
  <2>1. \E g : g = [s \in SUBSET S |->
                      IF s = {} THEN 0
                      ELSE f[CHOOSE x \in s : TRUE] + g[s \ {CHOOSE x \in s : TRUE}]]
    <3>1. \E g : g = [s \in SUBSET S |-> SumOf(f, g, s)]
      BY SumExists, Zenon
    <3> QED BY <3>1 DEF SumOf
  <2> QED BY <2>1 DEF SumOf
<1>2. Total(f, S) = it[S]
  BY DEF Total, MapThenSumSet, MapThenFoldSet
<1> HIDE DEF it
<1>3. Solves(it, f, S)
  BY <1>1 DEF Solves
<1> QED BY <1>2, <1>3

\* The sum of zeros.
LEMMA TotalZero ==
    ASSUME NEW S, IsFiniteSet(S), NEW f \in [S -> {0}]
    PROVE  Total(f, S) = 0
<1>1. PICK it : Total(f, S) = it[S] /\ Solves(it, f, S)
  BY TotalIsSum
<1> DEFINE Bad == {s \in SUBSET S : it[s] # 0}
<1>2. Bad = {}
  <2> SUFFICES ASSUME Bad # {} PROVE FALSE
    OBVIOUS
  <2>1. PICK s \in Bad : \A t \in Bad : Cardinality(s) <= Cardinality(t)
    <3>1. Bad \in SUBSET (SUBSET S)
      OBVIOUS
    <3> HIDE DEF Bad
    <3> QED BY <3>1, Smallest
  <2>2. s \in SUBSET S /\ it[s] # 0 /\ it[s] = SumOf(f, it, s)
    BY <1>1 DEF Solves
  <2>3. s # {}
    BY <2>2 DEF SumOf
  <2> DEFINE x == CHOOSE x \in s : TRUE
  <2>4. it[s] = f[x] + it[s \ {x}]
    BY <2>2, <2>3 DEF SumOf
  <2>5. /\ x \in s /\ s \ {x} \in SUBSET S
        /\ Cardinality(s) \in Nat \ {0} /\ Cardinality(s \ {x}) = Cardinality(s) - 1
    BY <2>2, <2>3, OneLess
  <2> HIDE DEF x
  <2>6. s \ {x} \notin Bad
    <3> HIDE DEF Bad
    <3> QED BY <2>1, <2>5
  <2>7. f[x] = 0 /\ it[s \ {x}] = 0
    BY <2>2, <2>5, <2>6
  <2> QED BY <2>2, <2>4, <2>7
<1> QED BY <1>1, <1>2

\* A sum grows by what is added to one of its terms.
LEMMA TotalAdd ==
    ASSUME NEW S, IsFiniteSet(S), NEW f \in [S -> Int], NEW k \in S, NEW d \in Int
    PROVE  Total([f EXCEPT ![k] = @ + d], S) = Total(f, S) + d
<1> DEFINE g == [f EXCEPT ![k] = @ + d]
           more(s) == IF k \in s THEN d ELSE 0
<1>0. \A x \in S : f[x] \in Int /\ g[x] = f[x] + more({x})
  OBVIOUS
<1> HIDE DEF g
<1>1. PICK it : Total(f, S) = it[S] /\ Solves(it, f, S)
  BY TotalIsSum
<1>2. PICK jt : Total(g, S) = jt[S] /\ Solves(jt, g, S)
  BY TotalIsSum
<1> DEFINE Good(s) == it[s] \in Int /\ jt[s] = it[s] + more(s)
           Bad == {s \in SUBSET S : ~Good(s)}
<1>3. Bad = {}
  <2> SUFFICES ASSUME Bad # {} PROVE FALSE
    OBVIOUS
  <2>1. PICK s \in Bad : \A t \in Bad : Cardinality(s) <= Cardinality(t)
    <3>1. Bad \in SUBSET (SUBSET S)
      OBVIOUS
    <3> HIDE DEF Bad
    <3> QED BY <3>1, Smallest
  <2>2. s \in SUBSET S /\ ~Good(s) /\ it[s] = SumOf(f, it, s) /\ jt[s] = SumOf(g, jt, s)
    BY <1>1, <1>2 DEF Solves
  <2>3. s # {}
    BY <2>2 DEF SumOf
  <2> DEFINE x == CHOOSE x \in s : TRUE
  <2>4. it[s] = f[x] + it[s \ {x}] /\ jt[s] = g[x] + jt[s \ {x}]
    BY <2>2, <2>3 DEF SumOf
  <2>5. /\ x \in s /\ s \ {x} \in SUBSET S
        /\ Cardinality(s) \in Nat \ {0} /\ Cardinality(s \ {x}) = Cardinality(s) - 1
    BY <2>2, <2>3, OneLess
  <2> HIDE DEF x
  <2>6. s \ {x} \notin Bad
    <3> HIDE DEF Bad
    <3> QED BY <2>1, <2>5
  <2>7. Good(s \ {x})
    <3> HIDE DEF Good
    <3> QED BY <2>5, <2>6
  <2>8. f[x] \in Int /\ g[x] = f[x] + more({x})
    BY <1>0, <2>2, <2>5
  <2>9. more(s) = more({x}) + more(s \ {x}) /\ more({x}) \in Int /\ more(s \ {x}) \in Int
    BY <2>5
  <2> HIDE DEF more
  <2> QED BY <2>2, <2>4, <2>7, <2>8, <2>9
<1>4. Good(S)
  <2> HIDE DEF Good
  <2> QED BY <1>3
<1> QED BY <1>1, <1>2, <1>4 DEF g

-----------------------------------------------------------------------------
(* What the wallets lost.                                                  *)

\* Transfers leave the wallets: the amount a wallet receives from another
\* one would show in its balance too, and DebitedOncePerKey is about debits.
SpendsOutside ==
    \A i \in AllIntents : i.kind # "erc20_approval" => i.party \notin Wallets \ {i.wallet_id}

PaidRun(r) == chain[r] = "mined" /\ call[r].effect = "transfer"

Paid(w, k) == {r \in Runs : PaidRun(r) /\ key(r) = k /\ wallet(r) = w}

\* What key k cost wallet w, and what w lost of an asset.
CostOf(P, f) == IF P = {} THEN 0 ELSE raw_amount(f[CHOOSE r \in P : TRUE])
OnceOf(w) == [k \in Keys |-> CostOf(Paid(w, k), intent)]
LostOf(w) == [x \in Assets |-> InitialBalance - balance[x][w]]

LossInv == \A w \in Wallets : Total(LostOf(w), Assets) = Total(OnceOf(w), Keys)

\* A run that paid keeps its key, its wallet and its intent, and no run pays
\* but by a block that includes its transfer.
LEMMA PaidStep ==
    ASSUME TransferInv, [TransferNext]_all_vars, NEW q \in Runs
    PROVE  /\ UNCHANGED intent
           /\ PaidRun(q) => PaidRun(q)' /\ key(q)' = key(q) /\ wallet(q)' = wallet(q)
           /\ PaidRun(q)' /\ ~PaidRun(q) =>
                MineTransfer(q) /\ chain'[q] = "mined" /\ call[q].effect = "transfer"
<1>1. TypeOK /\ ControlInv /\ call = [r \in Runs |-> call[r]] /\ PipelineStep
  BY TransferPipelineStep DEF TransferInv, IInv, CallInv
<1>2. chain[q] = "mined" => chain'[q] = "mined"
  BY <1>1, MinedStep
<1>3. ASSUME NEW r \in Runs, prepare_transfer(r)
      PROVE  /\ UNCHANGED <<chain, intent>>
             /\ PaidRun(q) \/ PaidRun(q)' => call'[q] = call[q] /\ request'[q] = request[q]
  <2>1. chain' = chain /\ intent' = intent /\ chain[r] = "absent"
    BY <1>1, <1>3 DEF prepare_transfer, At, ControlInv, ControlOf, Sent
  <2>2. q # r => call'[q] = call[q] /\ request'[q] = request[q]
    BY <1>1, <1>3 DEF prepare_transfer, Set, TypeOK
  <2> QED BY <2>1, <2>2 DEF PaidRun
<1>4. ASSUME NEW r \in Runs, graph_node(r)
      PROVE  /\ UNCHANGED <<intent, call, request>>
             /\ chain'[q] = "mined" => chain[q] = "mined"
  <2>1. UNCHANGED <<intent, call, request>> /\ Step(r)
    BY <1>1, <1>4, StepKeepsRequests DEF graph_node, transfer_vars
  <2>2. ASSUME broadcast_transaction(r) PROVE chain'[q] = "mined" => chain[q] = "mined"
    <3>1. UNCHANGED chain \/ Accept(r)
      BY <2>2 DEF broadcast_transaction
    <3> QED BY <3>1 DEF Accept
  <2>3. ~broadcast_transaction(r) => UNCHANGED chain
    BY <2>1 DEF Step, resolve_nonce, populate_gas, simulate_transaction, evaluate_policy,
        request_approval, check_idempotency, sign_transaction, monitor_receipt,
        reject_transaction
  <2> QED BY <2>1, <2>2, <2>3
<1>5. ASSUME NEW r \in Runs, MineTransfer(r)
      PROVE  UNCHANGED <<intent, call, request>> /\ (q # r => chain'[q] = chain[q])
  BY <1>1, <1>5 DEF MineTransfer, Mine, TypeOK
<1>6. CASE \E r \in Runs : prepare_transfer(r)
  BY <1>3, <1>6 DEF PaidRun, key, wallet
<1>7. CASE \E r \in Runs : graph_node(r)
  BY <1>2, <1>4, <1>7 DEF PaidRun, key, wallet
<1>8. CASE \E r \in Runs : MineTransfer(r)
  BY <1>2, <1>5, <1>8 DEF PaidRun, key, wallet
<1>9. CASE UNCHANGED <<vars, transfer_vars>>
  BY <1>9 DEF PaidRun, key, wallet, vars, transfer_vars
<1> QED BY <1>6, <1>7, <1>8, <1>9 DEF TransferNext, Terminated, all_vars

\* The terms of the two sums are numbers.
LEMMA LossTypes ==
    ASSUME TransferInv, BalanceInv, NEW w \in Wallets
    PROVE  OnceOf(w) \in [Keys -> Int] /\ LostOf(w) \in [Assets -> Int]
<1>1. w \in Addresses /\ InitialBalance \in Nat
  BY PipelineAssumption, TransferAssumption
<1>2. LostOf(w) \in [Assets -> Int]
  BY <1>1 DEF LostOf, BalanceInv
<1>3. \A r \in Runs : PaidRun(r) => raw_amount(intent[r]) \in Int
  BY DEF TransferInv, CallInv, CallOf, NoCall, Accepted, PaidRun
<1>4. ASSUME NEW k \in Keys PROVE OnceOf(w)[k] \in Int
  <2>1. CASE Paid(w, k) = {}
    BY <2>1 DEF OnceOf, CostOf
  <2>2. CASE Paid(w, k) # {}
    <3> DEFINE r == CHOOSE r \in Paid(w, k) : TRUE
    <3>1. r \in Paid(w, k)
      BY <2>2
    <3>2. OnceOf(w)[k] = raw_amount(intent[r])
      BY <2>2 DEF OnceOf, CostOf
    <3> HIDE DEF r
    <3>3. r \in Runs /\ PaidRun(r)
      BY <3>1 DEF Paid
    <3> QED BY <1>3, <3>2, <3>3
  <2> QED BY <2>1, <2>2
<1>5. OnceOf(w) = [k \in Keys |-> OnceOf(w)[k]]
  BY DEF OnceOf
<1> QED BY <1>2, <1>4, <1>5

\* A step that mines no transfer leaves what each key cost as it is.
LEMMA NothingPaid ==
    ASSUME TransferInv, [TransferNext]_all_vars, NEW w,
           \A r \in Runs : PaidRun(r)' => PaidRun(r) \/ wallet(r)' # w
    PROVE  OnceOf(w)' = OnceOf(w)
<1>1. \A k \in Keys : Paid(w, k)' = Paid(w, k)
  <2> SUFFICES ASSUME NEW k \in Keys, NEW r \in Runs
               PROVE  r \in Paid(w, k)' <=> r \in Paid(w, k)
    BY DEF Paid
  <2>1. PaidRun(r) => PaidRun(r)' /\ key(r)' = key(r) /\ wallet(r)' = wallet(r)
    BY PaidStep
  <2> QED BY <2>1 DEF Paid
<1>2. Runs = {} \/ intent' = intent
  BY PaidStep
<1>3. CASE intent' = intent
  BY <1>1, <1>3 DEF OnceOf
<1>4. CASE Runs = {}
  BY <1>4 DEF OnceOf, CostOf, Paid
<1> QED BY <1>2, <1>3, <1>4

\* A block that includes the transfer of run r costs its key, which has cost
\* nothing before, the amount of its intent.
LEMMA PaidOnce ==
    ASSUME TransferInv, SubmitInv, [TransferNext]_all_vars, NEW r \in Runs,
           MineTransfer(r), chain'[r] = "mined", call[r].effect = "transfer",
           raw_amount(intent[r]) \in Nat
    PROVE  /\ key(r) \in Keys
           /\ OnceOf(wallet(r))' = [OnceOf(wallet(r)) EXCEPT ![key(r)] = @ + raw_amount(intent[r])]
           /\ \A w \in Wallets : w # wallet(r) => OnceOf(w)' = OnceOf(w)
<1>1. /\ chain[r] = "mempool" /\ intent' = intent /\ call' = call /\ request' = request
      /\ \A q \in Runs \ {r} : chain'[q] = chain[q]
  BY DEF MineTransfer, Mine, TransferInv, IInv, TypeOK
<1>2. key(r) \in Keys
  BY <1>1 DEF TransferInv, GateInv, GateOf
<1>3. \A q \in Runs : key(q)' = key(q) /\ wallet(q)' = wallet(q)
  BY <1>1 DEF key, wallet
<1>4. ~PaidRun(r) /\ PaidRun(r)' /\ \A q \in Runs \ {r} : PaidRun(q)' <=> PaidRun(q)
  BY <1>1 DEF PaidRun
<1>5. ASSUME NEW w \in Wallets, w # wallet(r) PROVE OnceOf(w)' = OnceOf(w)
  BY <1>3, <1>4, <1>5, NothingPaid
<1>6. AtMostOneSubmission
  BY SubmittedOnce DEF TransferInv
<1>7. \A q \in Runs \ {r} : PaidRun(q) => key(q) # key(r)
  BY <1>1, <1>6 DEF AtMostOneSubmission, PaidRun
<1> DEFINE w == wallet(r)
           k == key(r)
           n == raw_amount(intent[r])
<1>8. w' = w /\ k' = k /\ n' = n
  BY <1>1, <1>3
<1>9. Paid(w, k) = {} /\ Paid(w, k)' = {r}
  BY <1>3, <1>4, <1>7 DEF Paid
<1>10. \A j \in Keys \ {k} : Paid(w, j)' = Paid(w, j)
  BY <1>3, <1>4 DEF Paid
<1>11. OnceOf(w)[k] = 0
  BY <1>2, <1>9 DEF OnceOf, CostOf
<1>12. OnceOf(w)'[k] = n
  <2>1. (CHOOSE q \in {r} : TRUE) = r
    OBVIOUS
  <2>2. CostOf({r}, intent) = n
    BY <2>1 DEF CostOf
  <2>3. OnceOf(w)'[k] = CostOf(Paid(w, k)', intent')
    BY <1>2, <1>8 DEF OnceOf
  <2> QED BY <1>1, <1>9, <2>2, <2>3
<1>13. \A j \in Keys \ {k} : OnceOf(w)'[j] = OnceOf(w)[j]
  BY <1>1, <1>8, <1>10 DEF OnceOf
<1>14. OnceOf(w) = [j \in Keys |-> OnceOf(w)[j]] /\ OnceOf(w)' = [j \in Keys |-> OnceOf(w)'[j]]
  BY DEF OnceOf
<1>15. OnceOf(w)' = [OnceOf(w) EXCEPT ![k] = @ + n]
  <2> DEFINE f == OnceOf(w)
             g == OnceOf(w)'
  <2>1. f = [j \in Keys |-> f[j]] /\ g = [j \in Keys |-> g[j]]
    BY <1>14
  <2>2. k \in Keys /\ n \in Nat /\ f[k] = 0 /\ g[k] = n /\ \A j \in Keys \ {k} : g[j] = f[j]
    BY <1>2, <1>11, <1>12, <1>13
  <2> HIDE DEF f, g, k, n
  <2>3. g[k] = f[k] + n
    BY <2>2
  <2>4. g = [f EXCEPT ![k] = @ + n]
    BY <2>1, <2>2, <2>3
  <2> QED BY <2>4 DEF f, g
<1> QED BY <1>2, <1>5, <1>15

\* There are two assets.
LEMMA AssetsFinite == IsFiniteSet(Assets)
<1>1. IsFiniteSet({"native"}) /\ IsFiniteSet({"token"})
  BY FS_Singleton
<1>2. IsFiniteSet({"native"} \cup {"token"})
  BY <1>1, FS_Union
<1>3. Assets = {"native"} \cup {"token"}
  BY DEF Assets
<1> QED BY <1>2, <1>3

\* The two sums grow by the same amount, or not at all.
LEMMA LossStep ==
    ASSUME SpendsOutside, IsFiniteSet(Keys), TransferInv, BalanceInv, SubmitInv, LossInv,
           [TransferNext]_all_vars
    PROVE  LossInv'
<1> SUFFICES ASSUME NEW w \in Wallets
             PROVE  Total(LostOf(w)', Assets) = Total(OnceOf(w)', Keys)
  BY DEF LossInv
<1>1. w \in Addresses
  BY PipelineAssumption
<1>2. Total(LostOf(w), Assets) = Total(OnceOf(w), Keys)
  BY DEF LossInv
<1>3. OnceOf(w) \in [Keys -> Int] /\ LostOf(w) \in [Assets -> Int]
  BY LossTypes
<1>4. IsFiniteSet(Assets)
  BY AssetsFinite
<1>5. CASE \A r \in Runs : ~(MineTransfer(r) /\ chain'[r] = "mined" /\ call[r].effect = "transfer")
  <2>1. balance' = balance
    BY <1>5, BalancesRest
  <2>2. \A r \in Runs : PaidRun(r)' => PaidRun(r)
    BY <1>5, PaidStep
  <2>3. OnceOf(w)' = OnceOf(w)
    BY <2>2, NothingPaid
  <2>4. LostOf(w)' = LostOf(w)
    BY <2>1 DEF LostOf
  <2> QED BY <1>2, <2>3, <2>4
<1>6. ASSUME NEW r \in Runs, MineTransfer(r), chain'[r] = "mined", call[r].effect = "transfer"
      PROVE  Total(LostOf(w)', Assets) = Total(OnceOf(w)', Keys)
  <2> DEFINE c == call[r]
             v == wallet(r)
  <2>1. /\ intent[r] \in AllIntents /\ intent[r].kind # "erc20_approval"
        /\ v = intent[r].wallet_id /\ c.party = intent[r].party
        /\ c.amount = raw_amount(intent[r]) /\ c.amount \in Nat
        /\ balance' = Moved(balance, c, v)
        /\ c.asset \in Assets /\ v \in Wallets /\ v \in Addresses
        /\ c.party \in Addresses \ {v} /\ balance[c.asset][v] >= c.amount
    BY <1>6, MinedTransfer
  <2>2. c.party # w \/ w = v
    BY <2>1 DEF SpendsOutside
  <2>3. /\ key(r) \in Keys
        /\ OnceOf(v)' = [OnceOf(v) EXCEPT ![key(r)] = @ + raw_amount(intent[r])]
        /\ w # v => OnceOf(w)' = OnceOf(w)
    BY <1>6, <2>1, PaidOnce
  <2>4. \A x \in Assets : balance'[x][w] = IF x = c.asset /\ w = v THEN balance[x][w] - c.amount
                                           ELSE balance[x][w]
    <3> HIDE DEF c, v
    <3>1. \A x \in Assets, a \in Addresses :
             Moved(balance, c, v)[x][a] =
                IF x = c.asset /\ a = v THEN balance[x][a] - c.amount
                ELSE IF x = c.asset /\ a = c.party THEN balance[x][a] + c.amount
                ELSE balance[x][a]
      BY <2>1, MovedBalances DEF BalanceInv
    <3> QED BY <1>1, <2>1, <2>2, <3>1
  <2>5. \A x \in Assets : balance[x][w] \in Nat
    BY <1>1 DEF BalanceInv
  <2>6. InitialBalance \in Nat
    BY TransferAssumption
  <2>7. CASE w # v
    <3>1. LostOf(w)' = LostOf(w)
      <4> HIDE DEF c, v
      <4> QED BY <2>4, <2>7 DEF LostOf
    <3> QED BY <1>2, <2>3, <2>7, <3>1
  <2>8. CASE w = v
    <3> DEFINE f == LostOf(w)
               g == OnceOf(w)
               n == raw_amount(intent[r])
               k == key(r)
               y == c.asset
    <3>1. n \in Int /\ k \in Keys /\ y \in Assets /\ f \in [Assets -> Int] /\ g \in [Keys -> Int]
      BY <1>3, <2>1, <2>3
    <3>2. LostOf(w)' = [f EXCEPT ![y] = @ + n]
      <4>1. \A x \in Assets : balance'[x][w] = IF x = y THEN balance[x][w] - n ELSE balance[x][w]
        BY <2>1, <2>4, <2>8
      <4> HIDE DEF n, y
      <4>2. \A x \in Assets : InitialBalance - balance'[x][w] =
                IF x = y THEN (InitialBalance - balance[x][w]) + n ELSE InitialBalance - balance[x][w]
        BY <2>5, <2>6, <3>1, <4>1
      <4> QED BY <3>1, <4>2 DEF LostOf
    <3>3. OnceOf(w)' = [g EXCEPT ![k] = @ + n]
      <4>1. v' = w
        BY <1>6, <2>8 DEF MineTransfer, Mine, wallet
      <4> QED BY <2>3, <2>8, <4>1
    <3>4. Total(f, Assets) = Total(g, Keys)
      BY <1>2
    <3> HIDE DEF f, g, n, k, y
    <3> HIDE DEF c, v
    <3>5. Total([f EXCEPT ![y] = @ + n], Assets) = Total(f, Assets) + n
      BY <1>4, <3>1, TotalAdd
    <3>6. Total([g EXCEPT ![k] = @ + n], Keys) = Total(g, Keys) + n
      BY <3>1, TotalAdd
    <3> QED BY <3>2, <3>3, <3>4, <3>5, <3>6
  <2> QED BY <2>7, <2>8
<1> QED BY <1>5, <1>6

\* At first nothing is lost and nothing paid.
LEMMA LossInit ==
    ASSUME IsFiniteSet(Keys), TransferInit
    PROVE  LossInv
<1> SUFFICES ASSUME NEW w \in Wallets PROVE Total(LostOf(w), Assets) = Total(OnceOf(w), Keys)
  BY DEF LossInv
<1>1. w \in Addresses /\ InitialBalance \in Nat
  BY PipelineAssumption, TransferAssumption
<1>2. LostOf(w) \in [Assets -> {0}]
  BY <1>1 DEF LostOf, TransferInit
<1>3. \A k \in Keys : Paid(w, k) = {}
  BY DEF TransferInit, Init, Paid, PaidRun
<1>4. OnceOf(w) \in [Keys -> {0}]
  BY <1>3 DEF OnceOf, CostOf
<1>5. IsFiniteSet(Assets)
  BY AssetsFinite
<1>6. Total(LostOf(w), Assets) = 0
  BY <1>2, <1>5, TotalZero
<1>7. Total(OnceOf(w), Keys) = 0
  BY <1>4, TotalZero
<1> QED BY <1>6, <1>7

\* The recursion has one solution.
LEMMA SumUnique ==
    ASSUME NEW f, NEW S, IsFiniteSet(S), NEW it, NEW jt,
           Solves(it, f, S),
           Solves(jt, f, S)
    PROVE  it[S] = jt[S]
<1> DEFINE Bad == {s \in SUBSET S : it[s] # jt[s]}
<1>1. Bad = {}
  <2> SUFFICES ASSUME Bad # {} PROVE FALSE
    OBVIOUS
  <2>1. PICK s \in Bad : \A t \in Bad : Cardinality(s) <= Cardinality(t)
    <3>1. Bad \in SUBSET (SUBSET S)
      OBVIOUS
    <3> HIDE DEF Bad
    <3> QED BY <3>1, Smallest
  <2>2. s \in SUBSET S /\ it[s] # jt[s] /\ it[s] = SumOf(f, it, s) /\ jt[s] = SumOf(f, jt, s)
    BY DEF Solves
  <2>3. s # {}
    BY <2>2 DEF SumOf
  <2> DEFINE x == CHOOSE x \in s : TRUE
  <2>4. it[s] = f[x] + it[s \ {x}] /\ jt[s] = f[x] + jt[s \ {x}]
    BY <2>2, <2>3 DEF SumOf
  <2>5. /\ s \ {x} \in SUBSET S
        /\ Cardinality(s) \in Nat \ {0} /\ Cardinality(s \ {x}) = Cardinality(s) - 1
    BY <2>2, <2>3, OneLess
  <2> HIDE DEF x
  <2>6. s \ {x} \notin Bad
    <3> HIDE DEF Bad
    <3> QED BY <2>1, <2>5
  <2>7. it[s \ {x}] = jt[s \ {x}]
    BY <2>5, <2>6
  <2> QED BY <2>2, <2>4, <2>7
<1> QED BY <1>1

\* The two sums as DebitedOncePerKey writes them.
OnceAt(w, k) ==
    LET P == {r \in Runs : /\ chain[r] = "mined" /\ key(r) = k /\ wallet(r) = w
                           /\ call[r].effect = "transfer"}
    IN  IF P = {} THEN 0 ELSE raw_amount(intent[CHOOSE r \in P : TRUE])
LostAt(w, x) == InitialBalance - balance[x][w]
OnceSum(w) ==
    CHOOSE g : g = [s \in SUBSET Keys |->
                      IF s = {} THEN 0
                      ELSE OnceAt(w, CHOOSE k \in s : TRUE) + g[s \ {CHOOSE k \in s : TRUE}]]
LostSum(w) ==
    CHOOSE g : g = [s \in SUBSET Assets |->
                      IF s = {} THEN 0
                      ELSE LostAt(w, CHOOSE k \in s : TRUE) + g[s \ {CHOOSE k \in s : TRUE}]]

\* They are totals.
LEMMA OnceTotal ==
    ASSUME IsFiniteSet(Keys), NEW w
    PROVE  OnceSum(w)[Keys] = Total(OnceOf(w), Keys)
<1> DEFINE f == OnceOf(w)
           body(g, s) == IF s = {} THEN 0
                         ELSE OnceAt(w, CHOOSE k \in s : TRUE) + g[s \ {CHOOSE k \in s : TRUE}]
<1>1. \A k \in Keys : f[k] = OnceAt(w, k)
  <2> TAKE k \in Keys
  <2>1. f[k] = CostOf(Paid(w, k), intent)
    BY DEF OnceOf
  <2> DEFINE P == {r \in Runs : /\ chain[r] = "mined" /\ key(r) = k /\ wallet(r) = w
                                /\ call[r].effect = "transfer"}
  <2>2. CostOf(P, intent) = OnceAt(w, k)
    BY DEF CostOf, OnceAt
  <2>3. Paid(w, k) = P
    BY DEF Paid, PaidRun
  <2> HIDE DEF P
  <2> QED BY <2>1, <2>2, <2>3
<1> HIDE DEF f
<1>2. ASSUME NEW g, NEW s \in SUBSET Keys PROVE body(g, s) = SumOf(f, g, s)
  <2>1. CASE s = {}
    BY <2>1 DEF SumOf
  <2>2. CASE s # {}
    <3>1. (CHOOSE k \in s : TRUE) \in Keys
      BY <2>2
    <3>2. OnceAt(w, CHOOSE k \in s : TRUE) = f[CHOOSE k \in s : TRUE]
      BY <1>1, <3>1
    <3> QED BY <2>2, <3>2 DEF SumOf
  <2> QED BY <2>1, <2>2
<1>3. \E g : g = [s \in SUBSET Keys |-> body(g, s)]
  <2>1. PICK g : g = [s \in SUBSET Keys |-> SumOf(f, g, s)]
    BY SumExists, Zenon
  <2>2. g = [s \in SUBSET Keys |-> body(g, s)]
    <3> HIDE DEF body
    <3> QED BY <1>2, <2>1
  <2> QED BY <2>2
<1>4. OnceSum(w) = [s \in SUBSET Keys |-> body(OnceSum(w), s)]
  BY <1>3 DEF OnceSum
<1> DEFINE it == OnceSum(w)
<1>5. it = [s \in SUBSET Keys |-> body(it, s)]
  BY <1>4
<1> HIDE DEF it
<1>6. Solves(it, f, Keys)
  <2> HIDE DEF body
  <2> QED BY <1>2, <1>5 DEF Solves
<1>7. PICK jt : Total(f, Keys) = jt[Keys] /\ Solves(jt, f, Keys)
  BY TotalIsSum
<1>8. it[Keys] = jt[Keys]
  BY <1>6, <1>7, SumUnique
<1> QED BY <1>7, <1>8 DEF f, it

\* The same for the losses.
LEMMA LostTotal ==
    ASSUME NEW w
    PROVE  LostSum(w)[Assets] = Total(LostOf(w), Assets)
<1> DEFINE f == LostOf(w)
           body(g, s) == IF s = {} THEN 0
                         ELSE LostAt(w, CHOOSE k \in s : TRUE) + g[s \ {CHOOSE k \in s : TRUE}]
<1>0. IsFiniteSet(Assets)
  BY AssetsFinite
<1>1. \A x \in Assets : f[x] = LostAt(w, x)
  BY DEF LostOf, LostAt
<1> HIDE DEF f
<1>2. ASSUME NEW g, NEW s \in SUBSET Assets PROVE body(g, s) = SumOf(f, g, s)
  <2>1. CASE s = {}
    BY <2>1 DEF SumOf
  <2>2. CASE s # {}
    <3>1. (CHOOSE k \in s : TRUE) \in Assets
      BY <2>2
    <3>2. LostAt(w, CHOOSE k \in s : TRUE) = f[CHOOSE k \in s : TRUE]
      BY <1>1, <3>1
    <3> QED BY <2>2, <3>2 DEF SumOf
  <2> QED BY <2>1, <2>2
<1>3. \E g : g = [s \in SUBSET Assets |-> body(g, s)]
  <2>1. PICK g : g = [s \in SUBSET Assets |-> SumOf(f, g, s)]
    BY <1>0, SumExists, Zenon
  <2>2. g = [s \in SUBSET Assets |-> body(g, s)]
    <3> HIDE DEF body
    <3> QED BY <1>2, <2>1
  <2> QED BY <2>2
<1>4. LostSum(w) = [s \in SUBSET Assets |-> body(LostSum(w), s)]
  BY <1>3 DEF LostSum
<1> DEFINE it == LostSum(w)
<1>5. it = [s \in SUBSET Assets |-> body(it, s)]
  BY <1>4
<1> HIDE DEF it
<1>6. Solves(it, f, Assets)
  <2> HIDE DEF body
  <2> QED BY <1>2, <1>5 DEF Solves
<1>7. PICK jt : Total(f, Assets) = jt[Assets] /\ Solves(jt, f, Assets)
  BY <1>0, TotalIsSum
<1>8. it[Assets] = jt[Assets]
  BY <1>0, <1>6, <1>7, SumUnique
<1> QED BY <1>7, <1>8 DEF f, it

\* Whatever callers retry and however runs overlap, what a wallet lost is what
\* its callers asked for, once per key, as long as a failed broadcast means
\* that nothing was submitted.
THEOREM OneDebitPerKey ==
    ASSUME "lost_reply" \notin Faults, SpendsOutside, IsFiniteSet(Keys)
    PROVE  TransferSpec => []DebitedOncePerKey
<1>1. TransferInit => SubmitInv
  BY DEF TransferInit, Init, SubmitInv, Sent
<1>2. TransferInv /\ SubmitInv /\ [TransferNext]_all_vars => SubmitInv'
  BY TransferPipelineStep, SubmitStep DEF TransferInv, IInv
<1>3. TransferInit => LossInv
  BY LossInit
<1>4. TransferInv /\ BalanceInv /\ SubmitInv /\ LossInv /\ [TransferNext]_all_vars => LossInv'
  BY LossStep
<1>5. LossInv => DebitedOncePerKey
  <2>1. DebitedOncePerKey <=> \A w \in Wallets : LostSum(w)[Assets] = OnceSum(w)[Keys]
    BY DEF DebitedOncePerKey, MapThenSumSet, MapThenFoldSet, LostSum, OnceSum, LostAt, OnceAt
  <2> QED BY <2>1, OnceTotal, LostTotal DEF LossInv
<1> QED BY <1>1, <1>2, <1>3, <1>4, <1>5, BalanceInit, BalanceStep, TransferInvariance, PTL
     DEF TransferSpec
=============================================================================
