------------------------- MODULE IdempotentExecution -------------------------
(***************************************************************************)
(* What the transaction pipeline promises its callers about an             *)
(* idempotency key, without saying how: a key is claimed by one run at a   *)
(* time, a claim that submitted nothing may be given up and the key        *)
(* claimed again, but from the moment a transaction is submitted under     *)
(* the key no other ever is, and the outcome, once settled, stays.         *)
(***************************************************************************)
EXTENDS MercuryModels

CONSTANTS Keys, Runs

VARIABLES
    ledger,     \* ledger[k]: phase of the key, its owner and its outcome
    sent        \* sent[k]: the runs that submitted a transaction under k

vars == <<ledger, sent>>

Entry(phase, owner, result) == [phase |-> phase, owner |-> owner, result |-> result]
Free == Entry("free", None, NoResult)

Init ==
    /\ ledger = [k \in Keys |-> Free]
    /\ sent = [k \in Keys |-> {}]

Claim(k, r) ==
    /\ ledger[k] = Free
    /\ ledger' = [ledger EXCEPT ![k] = Entry("claimed", r, NoResult)]
    /\ UNCHANGED sent

Abandon(k) ==
    /\ ledger[k].phase = "claimed"
    /\ ledger' = [ledger EXCEPT ![k] = Free]
    /\ UNCHANGED sent

Submit(k, r) ==
    /\ ledger[k] = Entry("claimed", r, NoResult)
    /\ ledger' = [ledger EXCEPT ![k] = Entry("submitted", r, NoResult)]
    /\ sent' = [sent EXCEPT ![k] = @ \cup {r}]

\* The outcome names the transaction that was submitted.
Settle(k, r) ==
    /\ ledger[k] = Entry("submitted", r, NoResult)
    /\ \E status \in {"pending", "confirmed", "failed"} :
         ledger' = [ledger EXCEPT ![k] =
                      Entry("settled", None, ExecutionResult(status, r))]
    /\ UNCHANGED sent

Next ==
    \E k \in Keys :
        \/ Abandon(k)
        \/ \E r \in Runs : Claim(k, r) \/ Submit(k, r) \/ Settle(k, r)

Spec == Init /\ [][Next]_vars

=============================================================================
