------------------------------ MODULE ReceiptWait ------------------------------
(***************************************************************************)
(* Web3TransactionBackend.wait_for_receipt and _wait_for_confirmations     *)
(* (mercury/tools/transactions.py): the wait behind the monitor_receipt    *)
(* node, with the chain that goes on while it lasts.  TransactionPipeline  *)
(* takes the whole wait as one step; this module shows what stands behind  *)
(* that step.                                                              *)
(*                                                                         *)
(* Time is what is left until the deadline of the current wait.            *)
(***************************************************************************)
EXTENDS Naturals

CONSTANTS
    confirmations,      \* deps.receipt_confirmations
    timeout_seconds,    \* of the wait for the receipt
    ConfirmSeconds,     \* 120, of the wait for confirmations
    MaxBlock,           \* bound on the height of the chain
    MaxReorg,           \* how many of the newest blocks may be replaced
    RpcMayFail          \* whether a call to the node may raise

ASSUME WaitAssumption ==
    /\ {confirmations, timeout_seconds, ConfirmSeconds, MaxBlock, MaxReorg} \subseteq Nat
    /\ RpcMayFail \in BOOLEAN

VARIABLES
    wait_for,   \* "receipt", "confirmations" or "done"
    left,       \* time until the deadline of this wait
    asleep,     \* inside time.sleep(1)
    head,       \* environment: height of the chain
    fate,       \* environment: "mempool", "mined" or "reverted"
    block,      \* environment: the block of the transaction, 0 for none
    reorged,    \* history: the transaction ever lost its block
    receipt,    \* the receipt read: its block and fate
    reported    \* what wait_for_receipt returns, "raised" for an exception

chain_vars == <<head, fate, block, reorged>>
wait_vars == <<wait_for, left, asleep, chain_vars, receipt, reported>>

NoReceipt == [block |-> 0, fate |-> "mempool"]

\* The transaction was just broadcast.
WaitInit ==
    /\ wait_for = "receipt"
    /\ left = timeout_seconds
    /\ asleep = FALSE
    /\ head = 0 /\ fate = "mempool" /\ block = 0 /\ reorged = FALSE
    /\ receipt = NoReceipt
    /\ reported = "none"

-----------------------------------------------------------------------------
(* Environment: blocks, reorganisations and time.                          *)

NewBlock ==
    /\ head < MaxBlock
    /\ head' = head + 1
    /\ \/ UNCHANGED <<fate, block>>
       \/ /\ block = 0
          /\ block' = head'
          /\ fate' \in {"mined", "reverted"}
    /\ UNCHANGED <<reorged, wait_for, left, asleep, receipt, reported>>

\* Blocks of the same height replace the newest ones; the transaction goes
\* back to the mempool, or into another block.
Reorg ==
    /\ block # 0
    /\ head - block < MaxReorg
    /\ \/ block' = 0 /\ fate' = "mempool"
       \/ block' = head /\ fate' \in {"mined", "reverted"}
    /\ reorged' = TRUE
    /\ UNCHANGED <<head, wait_for, left, asleep, receipt, reported>>

Tick ==
    /\ wait_for # "done" /\ left > 0
    /\ left' = left - 1
    /\ asleep' = FALSE
    /\ UNCHANGED <<wait_for, chain_vars, receipt, reported>>

-----------------------------------------------------------------------------
(* The wait.                                                               *)

\* Mutant: every receipt confirms.
receipt_status_any(r) == "confirmed"

receipt_status(r) == IF r.fate = "mined" THEN "confirmed" ELSE "failed"

Return(s) == wait_for' = "done" /\ reported' = s

\* eth.wait_for_transaction_receipt: the receipt, its timeout, or the error
\* of a poll.  A TimeoutError is answered with PENDING; web3's own timeout and
\* every other exception pass.
wait_for_receipt ==
    /\ wait_for = "receipt"
    /\ \/ /\ block # 0
          /\ receipt' = [block |-> block, fate |-> fate]
          /\ IF confirmations > 0
             THEN wait_for' = "confirmations" /\ left' = ConfirmSeconds /\ UNCHANGED reported
             ELSE Return(receipt_status(receipt')) /\ UNCHANGED left
       \/ /\ left = 0
          /\ \E s \in {"pending", "raised"} : Return(s)
          /\ UNCHANGED <<left, receipt>>
       \/ /\ RpcMayFail
          /\ Return("raised")
          /\ UNCHANGED <<left, receipt>>
    /\ UNCHANGED <<asleep, chain_vars>>

\* Mutant: the loop has no deadline.
deadline_passed_never == FALSE

deadline_passed == left = 0

\* Mutant: the block of the transaction is counted twice.
confirmed_enough_counts_twice == head + 2 >= receipt.block + confirmations

confirmed_enough == head + 1 >= receipt.block + confirmations

\* One round of the loop, and the receipt built when it ends.
_wait_for_confirmations ==
    /\ wait_for = "confirmations" /\ ~asleep
    /\ \/ /\ \/ deadline_passed
             \/ ~deadline_passed /\ confirmed_enough
          /\ Return(receipt_status(receipt))
          /\ UNCHANGED asleep
       \/ /\ ~deadline_passed /\ ~confirmed_enough
          /\ asleep' = TRUE
          /\ UNCHANGED <<wait_for, reported>>
       \/ /\ ~deadline_passed /\ RpcMayFail
          /\ Return("raised")
          /\ UNCHANGED asleep
    /\ UNCHANGED <<left, chain_vars, receipt>>

WaitNext == wait_for_receipt \/ _wait_for_confirmations \/ Tick \/ NewBlock \/ Reorg

WaitSpec == WaitInit /\ [][WaitNext]_wait_vars

\* The thread runs and time passes; no block need ever come.
WaitFairSpec == WaitSpec /\ WF_wait_vars(Tick) /\ WF_wait_vars(wait_for_receipt \/ _wait_for_confirmations)

-----------------------------------------------------------------------------
(* Properties.                                                             *)

\* The wait returns or raises, whatever the chain does: what the fairness of
\* JunoTurn assumes of monitor_receipt.
WaitReturns == <>(wait_for = "done")

\* Unless its block is replaced, the wait reports of a transaction what
\* TransactionPipeline's receipt_statuses allows: its fate, or that it is
\* not known, also when it is included while the wait times out.
ReportIsTheFate ==
    ~reorged => /\ reported = "confirmed" => fate = "mined"
                /\ reported = "failed" => fate = "reverted"

\* A transaction is reported confirmed before the deadline only with the
\* configured confirmations on its block, unless a reorganisation moved it:
\* the count is not off by one and an earlier report is always a late one
\* (_wait_for_confirmations returns silently at its deadline).
ConfirmedIsDeepOrLate ==
    [][reported' = "confirmed" /\ reported # "confirmed" /\ ~reorged =>
          deadline_passed \/ head >= block + confirmations - 1]_wait_vars

=============================================================================
