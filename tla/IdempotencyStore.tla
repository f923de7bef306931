--------------------------- MODULE IdempotencyStore ---------------------------
(***************************************************************************)
(* mercury/policy/idempotency.py: InMemoryIdempotencyStore, the            *)
(* process-local table that every transaction graph of a runtime shares.   *)
(* Each method runs under the store's lock, so each is one atomic action.  *)
(*                                                                         *)
(* A missing dictionary entry is a record whose status is "absent".        *)
(***************************************************************************)
EXTENDS MercuryModels

CONSTANT Keys       \* idempotency keys

VARIABLE records    \* [Keys -> the stored record], the _records dictionary

Absent == [status |-> "absent", result |-> NoResult]
InFlight == [status |-> "in_flight", result |-> NoResult]
Completed(result) == [status |-> "completed", result |-> result]

IdempotencyStatus == {"absent", "in_flight", "completed"}

StoreInit == records = [k \in Keys |-> Absent]

\* Mutant: only a reservation in flight blocks the key.
IsDuplicate_in_flight_only(k) == records[k].status = "in_flight"

\* reserve() on a free key; on a taken one it raises
\* DuplicateTransactionError with the existing record and changes nothing.
IsDuplicate(k) == records[k].status # "absent"

reserve(k) ==
    /\ ~IsDuplicate(k)
    /\ records' = [records EXCEPT ![k] = InFlight]

\* release() forgets an IN_FLIGHT reservation and ignores any other record.
release(k) ==
    records' = [records EXCEPT ![k] = IF @.status = "in_flight" THEN Absent ELSE @]

\* complete() stores the result whatever the key held before.
complete(k, result) == records' = [records EXCEPT ![k] = Completed(result)]

=============================================================================
