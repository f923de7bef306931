------------------------------ MODULE MCJunoTurn ------------------------------
(***************************************************************************)
(* Instances of JunoTurn for TLC.                                          *)
(***************************************************************************)
EXTENDS JunoTurn

CONSTANTS k1, k2, w1, w2, zero, r1, r2

MCAddresses == {w1, w2, zero}

Transfer ==
    [chain |-> "match", from_address |-> w1, to |-> w2, value_wei |-> 1,
     data |-> "0x", gas |-> 0, has_key |-> TRUE, action |-> "native_transfer",
     token_address |-> None, recipient_address |-> w2, spender_address |-> None,
     unlimited_approval |-> FALSE, amount_raw_is_max |-> FALSE, provider |-> None,
     slippage_bps |-> None]

Send(k) ==
    [kind |-> TRUE, wallet_id |-> None, idempotency_key |-> k, metadata |-> None, tx |-> Transfer]

\* The model retries one key and sends a second one; it also forgets the
\* kind or the key, or sends an empty one.
Sloppy == {Send(k1), Send(k2), Send(None), Send(Blank), [Send(k1) EXCEPT !.kind = FALSE]}

Tap(status, k) == [form |-> "prefix", status |-> status, idempotency_key |-> k]
Taps == {Tap("approved", k1), Tap("approved", k2)}

AnySession ==
    {[user_id |-> "set", wallet_id |-> None],
     [user_id |-> "none", wallet_id |-> w1],
     [user_id |-> "set", wallet_id |-> InvalidWallet]}

Responses == ApprovalResponse \cup {NoResponse}

\* Every request the boundary can make of the intents; the runs that were
\* not called hold one of them too.
MCRequests ==
    {[wallet_id |-> w, idempotency_key |-> k, nonce |-> None, gas |-> None,
      approval_response |-> a, tx |-> Transfer] : w \in Wallets, k \in Keys \cup {None}, a \in Responses}

MCConfig == DefaultPolicyConfig

\* One failure of each kind: before the policy, while the key is reserved,
\* and after the broadcast.
TurnFaults ==
    {"prepare_transaction", "sign_transaction", "broadcast_transaction", "monitor_receipt"}

=============================================================================
