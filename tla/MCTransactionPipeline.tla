------------------------ MODULE MCTransactionPipeline ------------------------
(***************************************************************************)
(* Instances of TransactionPipeline for TLC.                               *)
(***************************************************************************)
EXTENDS TransactionPipeline, TLC

CONSTANTS k1, k2, w1, w2, zero, r1, r2, r3

MCAddresses == {w1, w2, zero}

\* w1 sends one unit to w2; the wallet's address is resolved by preparation.
NativeTransfer ==
    [chain |-> "match", from_address |-> w1, to |-> w2, value_wei |-> 1,
     data |-> "0x", gas |-> 0, has_key |-> TRUE, action |-> "native_transfer",
     token_address |-> None, recipient_address |-> w2, spender_address |-> None,
     unlimited_approval |-> FALSE, amount_raw_is_max |-> FALSE, provider |-> None,
     slippage_bps |-> None]

\* A transaction that moves nothing: the only kind policy allows unattended.
Noop == [NativeTransfer EXCEPT !.value_wei = 0, !.action = None, !.from_address = None]

\* A swap that moves nothing and so may come without a key.
EmptySwap == [Noop EXCEPT !.action = "swap", !.provider = "lifi", !.spender_address = w2]

Approved(k) == [status |-> "approved", idempotency_key |-> k]

Ask(k, response, tx) ==
    [wallet_id |-> w1, idempotency_key |-> k, nonce |-> None, gas |-> None,
     approval_response |-> response, tx |-> tx]

\* Retries of one key, one of them approved for another key; a second key of
\* the same wallet; an unattended run; and one without a key.
CoreRequests ==
    {Ask(k1, Approved(None), NativeTransfer),
     Ask(k1, Approved(k2), NativeTransfer),
     Ask(k2, Approved(k2), NativeTransfer),
     Ask(k1, NoResponse, Noop),
     Ask(None, Approved(None), EmptySwap)}

OneKeyRequests == {Ask(k1, Approved(None), NativeTransfer)}

MCConfig == [DefaultPolicyConfig EXCEPT !.max_gas_limit = 1]

AllFaults == FaultKinds

RunSymmetry == Permutations(Runs)

=============================================================================
