-------------------------- MODULE MCTransferPipeline --------------------------
(***************************************************************************)
(* Instances of TransferPipeline for TLC: a token with one decimal, where  *)
(* "0.5" is five units, and amounts up to twice the balance of the wallet. *)
(***************************************************************************)
EXTENDS TransferPipeline, PipelineRefinement, TLC

CONSTANTS k1, k2, w1, w2, token, zero, r1, r2, r3

MCAddresses == {w1, w2, token, zero}

Number(c, e) == [form |-> "number", negative |-> FALSE, coefficient |-> c, exponent |-> e]
Half == Number(5, -1)
One == Number(1, 0)
\* Eleven units in three digits, against a default context of one.
Long == Number(110, -2)
TooFine == Number(15, -2)
Zero == Number(0, 0)

Approved == [status |-> "approved", idempotency_key |-> None]
NoOverrides == [f \in {} |-> FALSE]

Ask(kind, party, amount, k) ==
    [kind |-> kind, wallet_id |-> w1, chain |-> "match", party |-> party, amount |-> amount,
     amount_in_smallest_units |-> FALSE, allow_unlimited |-> FALSE, idempotency_key |-> k,
     approval_response |-> Approved, metadata |-> NoOverrides]

\* Every way through the builders, and the approvals a gate refuses.
Kinds == {"native_transfer", "erc20_transfer", "erc20_approval"}
Transfer == Ask("native_transfer", w2, Half, k1)
Builders ==
    {Ask(kind, party, Half, k1) : kind \in Kinds, party \in {w1, zero}}
    \cup {Ask(kind, w2, amount, k1) : kind \in Kinds, amount \in {Long, TooFine, Zero}}
    \cup {[Transfer EXCEPT !.chain = "unsupported"],
          [Transfer EXCEPT !.idempotency_key = None],
          [Transfer EXCEPT !.approval_response.status = "denied"],
          [Ask("erc20_transfer", w2, Number(7, 0), k1) EXCEPT !.amount_in_smallest_units = TRUE],
          [Ask("erc20_transfer", w2, Half, k1) EXCEPT !.amount_in_smallest_units = TRUE]}
    \cup {[Ask("erc20_approval", w2, amount, k2) EXCEPT !.allow_unlimited = allow] :
             amount \in {UnlimitedText, Number(63, -1)}, allow \in BOOLEAN}

\* Callers that send back details of another transaction: an approval that
\* was limited, one that names another contract or spender, a swap, or an
\* action the rules do not know.
Unlimited == [Ask("erc20_approval", w2, UnlimitedText, k1) EXCEPT !.allow_unlimited = TRUE]
Annotations ==
    {"unlimited_approval" :> FALSE, "amount_raw_is_max" :> FALSE,
     "unlimited_approval" :> FALSE @@ "amount_raw_is_max" :> FALSE,
     "action" :> None, "action" :> "native_transfer",
     "action" :> "swap" @@ "provider" :> "lifi" @@ "slippage_bps" :> 101,
     "token_address" :> w2, "spender_address" :> BadAddress}
Annotated ==
    {[Unlimited EXCEPT !.metadata = m] : m \in Annotations}
    \cup {[Transfer EXCEPT !.metadata = "recipient_address" :> w1]}

\* One run of any kind beside two transfers under its keys, which the
\* balance cannot cover both as well.
MCIntents ==
    (r1 :> Builders \cup Annotated)
    @@ (r2 :> {Ask("erc20_transfer", w2, Half, k1)})
    @@ (r3 :> {Ask("erc20_transfer", w2, One, k2)})

MCConfig == DefaultPolicyConfig
SomeFaults == {"simulate_transaction", "broadcast_transaction", "monitor_receipt"}

=============================================================================
