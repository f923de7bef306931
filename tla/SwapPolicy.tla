------------------------------ MODULE SwapPolicy ------------------------------
(***************************************************************************)
(* The quote and execution rules of mercury/policy/swap_rules.py, which    *)
(* prepare_swap applies before a swap enters the transaction pipeline.     *)
(*                                                                         *)
(* The pydantic models of mercury/models/swaps.py refuse a quote whose     *)
(* source chain, tokens, amount or recipient differ from the request and   *)
(* an execution for another chain, so the rules that test these again can  *)
(* never fire and have no field here.                                      *)
(***************************************************************************)
EXTENDS PolicyEngine

SwapRouteKind == {"swap", "bridge"}
SwapExecutionType == {"evm_transaction", "eip712_order", "unsupported"}

\* A normalised quote.  to_chain is the destination: the source chain,
\* another registered chain, or one the registry does not know.
SwapQuote ==
    [provider                : SwapProviderName,
     slippage_bps            : Nat \cup {None},
     expired                 : BOOLEAN,
     chain                   : ChainMatch,
     to_chain                : {"same", "other", "unknown"},
     route_kind              : SwapRouteKind,
     spender_address         : Addresses \cup {None},
     expected_amount_out_raw : Nat,
     min_amount_out_raw      : Nat \cup {None},
     min_requested           : BOOLEAN]

\* A provider's execution: an EVM transaction, a typed order or neither.
SwapExecution ==
    [execution_type : SwapExecutionType,
     to             : Addresses,
     value_wei      : Nat,
     submit_url     : BOOLEAN]

\* Mutant: the limit is off by one.
excessive_slippage_off_by_one(quote, config) ==
    quote.slippage_bps # None /\ quote.slippage_bps > config.max_slippage_bps + 1

excessive_slippage(quote, config) ==
    quote.slippage_bps # None /\ quote.slippage_bps > config.max_slippage_bps

\* Mutant: a route that leaves the source chain unmarked is let through.
unmarked_bridge_accepted(quote) == FALSE

unmarked_bridge(quote) == quote.to_chain # "same" /\ quote.route_kind # "bridge"

swap_quote_rejection_reason(quote, config) ==
    \/ quote.provider \notin config.allowed_providers
    \/ excessive_slippage(quote, config)
    \/ quote.expired
    \/ quote.chain # "match"
    \/ unmarked_bridge(quote)
    \/ /\ quote.route_kind = "bridge"
       /\ quote.to_chain = "unknown" \/ ~config.allow_bridges
    \/ quote.spender_address = None
    \/ /\ quote.min_amount_out_raw # None
       /\ quote.expected_amount_out_raw < quote.min_amount_out_raw
    \/ quote.min_requested /\ quote.min_amount_out_raw = None

\* A typed order is only accepted from CoW Swap, with a submission URL.
swap_execution_rejection_reason(quote, execution) ==
    \/ execution.execution_type = "unsupported"
    \/ /\ execution.execution_type = "eip712_order"
       /\ quote.provider # "cowswap" \/ ~execution.submit_url

evaluate_swap_quote_policy(quote, config) ==
    IF swap_quote_rejection_reason(quote, config) THEN "rejected" ELSE "allowed"

\* Mutant: the quote, already accepted once, is not tested again.
evaluate_swap_execution_policy_payload_only(quote, execution, config) ==
    IF swap_execution_rejection_reason(quote, execution)
    THEN "rejected" ELSE "needs_approval"

evaluate_swap_execution_policy(quote, execution, config) ==
    IF \/ swap_quote_rejection_reason(quote, config)
       \/ swap_execution_rejection_reason(quote, execution)
    THEN "rejected" ELSE "needs_approval"

=============================================================================
