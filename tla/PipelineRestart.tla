---------------------------- MODULE PipelineRestart ----------------------------
(***************************************************************************)
(* TransactionPipeline in a process that may stop and be started again.    *)
(* Nothing of Mercury is persisted: InMemoryIdempotencyStore and the       *)
(* graph states live in the process, so a restart begins with an empty     *)
(* store and the runs that were executing are gone, wherever they were.    *)
(* What they sent to the chain stays there.                                *)
(***************************************************************************)
EXTENDS TransactionPipeline

CONSTANT MaxRestarts    \* bound on the restarts of the process

ASSUME RestartAssumption == MaxRestarts \in Nat

VARIABLES
    boot,           \* how often the process was restarted
    submitted_in    \* history: the boot in which the chain took r's transaction

restart_vars == <<vars, boot, submitted_in>>

RestartInit ==
    /\ Init
    /\ boot = 0
    /\ submitted_in = [r \in Runs |-> None]

\* A caller that has not called yet calls the next process.
Started(r) == pc[r] \notin {"prepare_transaction", "END"}

\* The process ends between two steps and another one is constructed; the
\* callers whose runs were executing get no result.
Restart ==
    /\ boot < MaxRestarts
    /\ boot' = boot + 1
    /\ records' = [k \in Keys |-> Absent]
    /\ pc' = [r \in Runs |-> IF Started(r) THEN "END" ELSE pc[r]]
    /\ UNCHANGED <<request, resolved, checks, outcome, chain, submitted_in>>

Submitted(r) == chain[r] # "absent"

\* A step of the pipeline inside one process, and what it sends.
Running ==
    /\ \E r \in Runs : prepare_transaction(r) \/ Step(r) \/ Mine(r)
    /\ submitted_in' = [r \in Runs |->
                          IF ~Submitted(r) /\ chain'[r] # "absent" THEN boot
                          ELSE submitted_in[r]]
    /\ UNCHANGED boot

RestartNext == Running \/ Restart \/ (Terminated /\ UNCHANGED <<boot, submitted_in>>)

RestartSpec == RestartInit /\ [][RestartNext]_restart_vars

-----------------------------------------------------------------------------
(* Properties.                                                             *)

\* The store "correctly deduplicates within one Python process" (README.md,
\* Idempotency store): whatever fails, and wherever processes end, two
\* submissions of one key are of different processes.
OneSubmissionPerProcess ==
    \A q, r \in Runs :
        /\ q # r /\ key(q) = key(r)
        /\ Submitted(q) /\ Submitted(r)
        => submitted_in[q] # submitted_in[r]

=============================================================================
