-------------------------- MODULE MCPipelineRestart --------------------------
(***************************************************************************)
(* Instances of PipelineRestart for TLC: three callers of one wallet that  *)
(* share one key, and one with a key of its own.                           *)
(***************************************************************************)
EXTENDS PipelineRestart, TLC

CONSTANTS k1, k2, w1, w2, zero

Transfer ==
    [chain |-> "match", from_address |-> w1, to |-> w2, value_wei |-> 1,
     data |-> "0x", gas |-> 0, has_key |-> TRUE, action |-> "native_transfer",
     token_address |-> None, recipient_address |-> w2, spender_address |-> None,
     unlimited_approval |-> FALSE, amount_raw_is_max |-> FALSE, provider |-> None,
     slippage_bps |-> None]

Ask(k, n) ==
    [wallet_id |-> w1, idempotency_key |-> k, nonce |-> n, gas |-> None,
     approval_response |-> [status |-> "approved", idempotency_key |-> k],
     tx |-> Transfer]

MCRequests == {Ask(k1, None), Ask(k1, 0), Ask(k2, None)}

MCConfig == [DefaultPolicyConfig EXCEPT !.max_gas_limit = 1]

\* Every failure the code sees as one before the broadcast or after it.
MCFaults == {"sign_transaction", "broadcast_transaction", "monitor_receipt"}

RunSymmetry == Permutations(Runs)

=============================================================================
