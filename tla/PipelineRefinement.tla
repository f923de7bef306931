-------------------------- MODULE PipelineRefinement --------------------------
(***************************************************************************)
(* The transaction pipeline implements IdempotentExecution, as long as a   *)
(* failed broadcast means that nothing was submitted.                      *)
(***************************************************************************)
EXTENDS TransactionPipeline

holder(k) == CHOOSE r \in Runs : Holds(r, k)

\* A key's phase is read off its record and, while IN_FLIGHT, off the run
\* that holds it: with a transaction hash it has submitted.
LedgerEntry(k) ==
    CASE records[k].status = "absent" ->
           [phase |-> "free", owner |-> None, result |-> NoResult]
      [] records[k].status = "completed" ->
           [phase |-> "settled", owner |-> None, result |-> records[k].result]
      [] OTHER ->
           [phase |-> IF tx_hash[holder(k)] = None THEN "claimed" ELSE "submitted",
            owner |-> holder(k), result |-> NoResult]

Abstract ==
    INSTANCE IdempotentExecution WITH
        ledger <- [k \in Keys |-> LedgerEntry(k)],
        sent   <- [k \in Keys |-> {r \in Runs : key(r) = k /\ chain[r] # "absent"}]

\* Every step of the graph nodes, of any interleaving of runs, is a step of
\* the abstract ledger or leaves it alone.
ImplementsIdempotentExecution == Abstract!Spec

=============================================================================
