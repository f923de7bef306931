---------------------------- MODULE MCSwapPipeline ----------------------------
(***************************************************************************)
(* Instances of SwapPipeline for TLC.                                      *)
(***************************************************************************)
EXTENDS SwapPipeline, TLC

CONSTANTS k1, k2, w1, zero, router1, router2, r1, r2, r3

MCAddresses == {w1, zero, Token, router1, router2}
MCKeys == SwapKeys \cup {approval_key(k) : k \in SwapKeys}

Approved(k) == [status |-> "approved", idempotency_key |-> k]

Sell(k, native, response) ==
    [wallet_id |-> w1, idempotency_key |-> k, amount |-> 1, native |-> native,
     approval_response |-> response]

\* An intent under retry and one that sells the native token.
StageIntents == {Sell(k1, FALSE, Approved(None)), Sell(k2, TRUE, Approved(k2))}

Quote(provider, spender) ==
    [provider |-> provider, slippage_bps |-> 100, expired |-> FALSE, chain |-> "match",
     to_chain |-> "same", route_kind |-> "swap", spender_address |-> spender,
     expected_amount_out_raw |-> 2, min_amount_out_raw |-> 1, min_requested |-> TRUE]

\* Quotes of three providers with two spenders, and one for each reason
\* they are refused.
StageQuotes ==
    LET good == Quote("lifi", router1)
    IN  {good, Quote("uniswap", router2), [good EXCEPT !.slippage_bps = 101],
         [Quote("cowswap", router1) EXCEPT !.min_requested = FALSE,
                                           !.min_amount_out_raw = None]}

EvmExecution ==
    [execution_type |-> "evm_transaction", to |-> router1, value_wei |-> 0, submit_url |-> FALSE]

StageExecutions ==
    {EvmExecution,
     [EvmExecution EXCEPT !.execution_type = "eip712_order", !.submit_url = TRUE],
     [EvmExecution EXCEPT !.execution_type = "unsupported"]}

MCConfig == DefaultPolicyConfig

\* The failures that differ in what they do to the store.
StageFaults == {"prepare_transaction", "broadcast_transaction", "monitor_receipt"}

RunSymmetry == Permutations(Runs)

=============================================================================
