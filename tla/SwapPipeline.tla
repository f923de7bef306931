----------------------------- MODULE SwapPipeline -----------------------------
(***************************************************************************)
(* The swap graph of mercury/graph/agent.py: prepare_swap_transaction      *)
(* (nodes_swaps.py, tools/swaps.py) in front of the transaction pipeline.  *)
(*                                                                         *)
(* One swap may need two invocations with the same intent: the first       *)
(* finds too little ERC20 allowance and sends an approval under the key    *)
(* K:approval, a later one sends the swap under K.  Which of the two an    *)
(* invocation prepares depends on the allowance it reads, which the        *)
(* transactions of every other run change when they are mined.             *)
(***************************************************************************)
EXTENDS TransactionPipeline, SwapPolicy

CONSTANTS
    SwapKeys,       \* the keys of the intents; Keys also holds the derived ones
    Intents,        \* swap intents callers may send
    Quotes,         \* what swap providers may answer
    Executions,     \* what build_execution may answer
    Token,          \* the ERC20 token the intents sell
    MaxAllowance    \* bound on the allowances the wallets start with

\* Mutant: both stages share the key of the intent.
approval_key_shared(k) == k

\* f"{idempotency_key}:approval"
approval_key(k) == <<k, "approval">>

SwapIntent ==
    [wallet_id         : Wallets,
     idempotency_key   : SwapKeys,
     amount            : Nat \ {0},
     native            : BOOLEAN,
     approval_response : ApprovalResponse \cup {NoResponse}]

ASSUME SwapAssumption ==
    /\ None \notin SwapProviderName
    /\ Token \in Addresses
    /\ Keys = SwapKeys \cup {approval_key(k) : k \in SwapKeys}
    /\ Intents \subseteq SwapIntent
    /\ Quotes \subseteq SwapQuote
    /\ Executions \subseteq SwapExecution
    /\ MaxAllowance \in Nat

VARIABLES
    intent,         \* intent[r]: the swap intent of run r
    quote,          \* quote[r]: the quote run r was given
    allowance       \* environment: allowance[w][s] of Token

swap_vars == <<intent, quote, allowance>>
all_vars == <<vars, swap_vars>>

-----------------------------------------------------------------------------
(* The transactions prepare_swap can produce.                              *)

Prepared(i, k, tx) ==
    [wallet_id |-> i.wallet_id, idempotency_key |-> k, nonce |-> None, gas |-> None,
     approval_response |-> i.approval_response, tx |-> tx]

\* No prepared_transaction in the state yet.
Unprepared(i) ==
    Prepared(i, None,
      [chain |-> "match", from_address |-> None, to |-> ZERO_ADDRESS, value_wei |-> 0,
       data |-> "0x", gas |-> 0, has_key |-> FALSE, action |-> None,
       token_address |-> None, recipient_address |-> None, spender_address |-> None,
       unlimited_approval |-> FALSE, amount_raw_is_max |-> FALSE, provider |-> None,
       slippage_bps |-> None])

\* prepare_erc20_approval of the exact amount for the quoted spender.
approval_transaction(i, q) ==
    Prepared(i, approval_key(i.idempotency_key),
      [Unprepared(i).tx EXCEPT
         !.from_address = i.wallet_id, !.to = Token, !.data = "approve", !.has_key = TRUE,
         !.action = "erc20_approval", !.token_address = Token,
         !.spender_address = q.spender_address])

\* prepared_swap_transaction_from_execution.
swap_transaction(i, q, x) ==
    Prepared(i, i.idempotency_key,
      [Unprepared(i).tx EXCEPT
         !.from_address = i.wallet_id, !.to = x.to, !.value_wei = x.value_wei,
         !.data = "other", !.has_key = TRUE, !.action = "swap",
         !.provider = q.provider, !.spender_address = q.spender_address,
         !.slippage_bps = q.slippage_bps, !.recipient_address = i.wallet_id])

SwapRequests ==
    {Unprepared(i) : i \in Intents}
    \cup {approval_transaction(i, q) : i \in Intents,
                                       q \in {p \in Quotes : p.spender_address # None}}
    \cup {swap_transaction(i, q, x) : i \in Intents, q \in Quotes, x \in Executions}

ASSUME SwapRequestAssumption == Requests = SwapRequests

SwapInit ==
    /\ intent \in [Runs -> Intents]
    /\ request = [r \in Runs |-> Unprepared(intent[r])]
    /\ Init
    /\ quote = [r \in Runs |-> None]
    /\ \E amount \in 0..MaxAllowance :
         allowance = [w \in Wallets |-> [s \in Addresses |-> amount]]

-----------------------------------------------------------------------------
(* The preparation node.                                                   *)

Reject(r) ==
    /\ policy_decision' = Set(policy_decision, r, "rejected")
    /\ Goto(r, "reject_transaction")
    /\ UNCHANGED request

Enter(r, prepared) ==
    /\ request' = Set(request, r, prepared)
    /\ Goto(r, "resolve_nonce")
    /\ UNCHANGED policy_decision

\* What the provider adapters answer: only LiFi sells the native token, CoW
\* Swap answers with typed orders and the others with transactions.
quotes_for(i) == {q \in Quotes : i.native => q.provider = "lifi"}

executions_for(q) ==
    {x \in Executions :
        /\ x.execution_type = "evm_transaction" => q.provider # "cowswap"
        /\ x.execution_type = "eip712_order" => q.provider = "cowswap"}

\* check_swap_allowance, skipped when the native token is sold.
allowance_sufficient(i, q) ==
    i.native \/ allowance[i.wallet_id][q.spender_address] >= i.amount

\* The part of prepare_swap after the quote and the allowance are accepted.
\* A typed order ends the run in end_swap_typed_order, without a result.
build_execution(r, q) ==
    \E x \in executions_for(q) :
        LET decision == evaluate_swap_execution_policy(q, x, Config)
        IN  \/ /\ decision = "rejected"
               /\ Reject(r)
            \/ /\ decision # "rejected"
               /\ x.execution_type = "eip712_order"
               /\ policy_decision' = Set(policy_decision, r, decision)
               /\ Goto(r, "END")
               /\ UNCHANGED request
            \/ /\ decision # "rejected"
               /\ x.execution_type = "evm_transaction"
               /\ Enter(r, swap_transaction(intent[r], q, x))

prepare_swap_transaction(r) ==
    /\ At(r, "prepare_transaction")
    /\ \/ \E q \in quotes_for(intent[r]) :
            /\ quote' = Set(quote, r, q)
            /\ \/ /\ evaluate_swap_quote_policy(q, Config) = "rejected"
                  /\ Reject(r)
               \/ /\ evaluate_swap_quote_policy(q, Config) # "rejected"
                  /\ ~allowance_sufficient(intent[r], q)
                  /\ Enter(r, approval_transaction(intent[r], q))
               \/ /\ evaluate_swap_quote_policy(q, Config) # "rejected"
                  /\ allowance_sufficient(intent[r], q)
                  /\ build_execution(r, q)
            /\ UNCHANGED error
       \/ /\ MayFail("prepare_transaction")
          /\ error' = Set(error, r, TRUE)
          /\ Goto(r, "reject_transaction")
          /\ UNCHANGED <<request, policy_decision, quote>>
    /\ UNCHANGED <<nonce, gas, simulation_result, approval_result, outcome, records, chain,
                   intent, allowance>>

-----------------------------------------------------------------------------
(* Environment: a mined approval sets the allowance, a mined swap of an    *)
(* ERC20 token uses it up and reverts without it.                          *)

Action(r) == request[r].tx.action
Spends(r) == Action(r) = "swap" /\ ~intent[r].native

MineSwap(r) ==
    LET i == intent[r]
        spender == request[r].tx.spender_address
        granted == allowance[i.wallet_id][spender]
    IN  /\ Mine(r)
        /\ chain'[r] = "mined" /\ Spends(r) => granted >= i.amount
        /\ allowance' =
             IF chain'[r] = "reverted" \/ (Action(r) = "swap" /\ i.native) THEN allowance
             ELSE [allowance EXCEPT ![i.wallet_id][spender] =
                     IF Spends(r) THEN @ - i.amount ELSE i.amount]
        /\ UNCHANGED <<intent, quote>>

SwapNext ==
    \/ \E r \in Runs : \/ prepare_swap_transaction(r)
                       \/ Step(r) /\ UNCHANGED swap_vars
                       \/ MineSwap(r)
    \/ Terminated /\ UNCHANGED swap_vars

SwapSpec == SwapInit /\ [][SwapNext]_all_vars

-----------------------------------------------------------------------------
(* Properties.                                                             *)

\* However often an intent is retried, at most one swap and at most one
\* allowance approval of it ever reach the chain, although the two stages
\* use different keys of the store.
OneSwapPerIntent ==
    \A q, r \in Runs :
        /\ chain[q] # "absent" /\ chain[r] # "absent"
        /\ intent[q].idempotency_key = intent[r].idempotency_key
        /\ Action(q) = Action(r)
        => q = r

\* A run that reports a transaction hash reports a transaction of the stage
\* it prepared: the recorded approval is never replayed as the result of
\* the swap, nor the swap as the result of the approval.
ResultMatchesStage ==
    \A r \in Runs :
        At(r, "END") /\ execution_result[r].tx_hash # None =>
            Action(execution_result[r].tx_hash) = Action(r)

\* An allowance is granted only for a quote whose swap the pipeline's own
\* swap rule then accepts, and no swap that preparation accepted is refused
\* by that rule: the two layers of swap_rules.py agree.
LayersAgree ==
    \A r \in Runs :
        LET i == intent[r]
        IN  Action(r) # None =>
              \A x \in Executions :
                ~swap_transaction_policy_reason(swap_transaction(i, quote[r], x).tx, Config)

=============================================================================
