---------------------------- MODULE AlchemyWebhook ----------------------------
(***************************************************************************)
(* The Alchemy address-activity webhook: the HTTP handler of               *)
(* mercury/service/api.py, the webhook graph classify -> normalize ->      *)
(* filter -> dedupe -> emit, and the in-memory dedupe store.               *)
(*                                                                         *)
(* The handler is a coroutine that awaits only the request body, so one    *)
(* delivery is one step.  The environment repeats deliveries (Alchemy      *)
(* retries what was not answered with 2xx, and also what was when the      *)
(* reply is lost), lets time pass and restarts the process.                *)
(***************************************************************************)
EXTENDS Integers, Sequences, FiniteSets

CONSTANTS
    Deliveries,     \* webhook requests Alchemy may send, any number of times
    KeySources,     \* what the lookup of the signing key may meet, see SigningKey
    TTL,            \* ttl_seconds of the store
    MaxEntries,     \* max_entries of the store
    MaxTime,        \* bound on the monotonic clock
    MaxHandled,     \* bound on the number of deliveries handled
    MaxRestarts,    \* bound on the number of restarts
    None

\* Where resolve_alchemy_webhook_signing_key ends: with a key, or without
\* one because the store is not configured, the path is blank, the secret is
\* missing or blank, or 1Claw does not answer.
SigningKey ==
    {"key", "store_not_configured", "path_blank", "secret_missing", "secret_blank", "unavailable"}

\* One event.activity row; addresses are already lower case, and a row that
\* is not a mapping is a row of kind "junk".  `transfer' stands for the rest of
\* what an alert tells: sender, category, asset, value, contract, removed.
Row ==
    [kind       : {"mapping", "junk"},
     hash       : {None} \cup STRING,     \* row["hash"]
     log_hash   : {None} \cup STRING,     \* row["log"]["transactionHash"]
     log_index  : {None} \cup STRING,     \* row["log"]["logIndex"]
     trace      : {None} \cup STRING,     \* row["typeTraceAddress"]
     to_address : {None} \cup STRING,
     transfer   : STRING]

Delivery ==
    [signature : {"valid", "invalid", None},
     body      : {"object", "not_object", "not_json"},
     type      : {None} \cup STRING,
     event_id  : STRING,              \* with webhookId: one webhook is enough
     activity  : {None} \cup Seq(Row),
     query     : SUBSET STRING,       \* watched_addresses of the query string
     metadata  : SUBSET STRING]       \* payload["metadata"]["watched_addresses"]

ASSUME WebhookAssumption ==
    /\ TTL \in Nat \ {0} /\ MaxEntries \in Nat /\ MaxTime \in Nat
    /\ MaxHandled \in Nat /\ MaxRestarts \in Nat
    /\ KeySources \subseteq SigningKey
    /\ Deliveries \subseteq Delivery

VARIABLES
    expires_at,     \* the store, a dict: key -> [deadline, inserted], where inserted
                    \* is the serial number of the insertion, the order of the dict
    now,            \* time.monotonic()
    response,       \* HTTP status of the last reply
    boot,           \* history: number of restarts
    emitted,        \* history: alerts emitted so far, [event, alert, at, boot]
    accepted,       \* history: deliveries answered with 200
    handled         \* number of deliveries handled

vars == <<expires_at, now, response, boot, emitted, accepted, handled>>

Init ==
    /\ expires_at = <<>>
    /\ now = 0
    /\ response = None
    /\ boot = 0
    /\ emitted = <<>>
    /\ accepted = {}
    /\ handled = 0

-----------------------------------------------------------------------------
(* AlchemyWebhookDedupeStore.                                              *)

_purge_expired(store, t) ==
    [k \in {j \in DOMAIN store : store[j].deadline > t} |-> store[k]]

\* Entry j comes before entry k in the list sorted by deadline: the sort is
\* stable, so entries of one deadline keep the order of their insertion.
Before(store, j, k) ==
    \/ store[j].deadline < store[k].deadline
    \/ store[j].deadline = store[k].deadline /\ store[j].inserted < store[k].inserted

\* Mutant: the newest entries are dropped instead of the oldest.
_enforce_max_newest(store, t) ==
    LET overflow == Cardinality(DOMAIN store) - MaxEntries
    IN  [k \in {j \in DOMAIN store :
                    Cardinality({i \in DOMAIN store : Before(store, j, i)}) >= overflow} |-> store[k]]

\* Mutant: an overflow is looked for but never dropped.
_enforce_max_off(store, t) == _purge_expired(store, t)

_enforce_max(store, t) ==
    LET live     == _purge_expired(store, t)
        overflow == Cardinality(DOMAIN live) - MaxEntries
        rank(k)  == Cardinality({j \in DOMAIN live : Before(live, j, k)})
    IN  IF Cardinality(DOMAIN store) <= MaxEntries THEN store
        ELSE IF overflow <= 0 THEN live
        ELSE [k \in {j \in DOMAIN live : rank(j) >= overflow} |-> live[k]]

\* mark_if_new(key) answers TRUE: no entry of the key outlives the purge.
IsNew(store, k, t) == k \notin DOMAIN _purge_expired(store, t)

\* self._expires_at[key] = now + self._ttl, the insertion number serial.
Insert(store, k, t, serial) ==
    [j \in DOMAIN store \cup {k} |->
        IF j = k THEN [deadline |-> t + TTL, inserted |-> serial] ELSE store[j]]

\* The store that mark_if_new leaves behind.
mark_if_new(store, k, t, serial) ==
    LET live == _purge_expired(store, t)
    IN  IF IsNew(store, k, t) THEN _enforce_max(Insert(live, k, t, serial), t) ELSE live

-----------------------------------------------------------------------------
(* alchemy_handler.py.                                                     *)

_log_index_for_dedupe(row) ==
    IF row.log_index # None THEN row.log_index
    ELSE IF row.trace # None THEN row.trace ELSE "na"

\* An empty hash counts as none.
row_to_alert(row) ==
    [tx_hash    |-> IF row.hash \notin {None, ""} THEN row.hash
                    ELSE IF row.log_hash # None THEN row.log_hash ELSE "",
     to_address |-> row.to_address,
     transfer   |-> row.transfer,
     log_index  |-> _log_index_for_dedupe(row)]

\* A row that is no mapping yields no alert, and an alert that is not for a
\* watched address is dropped: None stands in its place.
normalize_activity_rows(activity) ==
    IF activity = None THEN <<>>
    ELSE [i \in DOMAIN activity |->
            IF activity[i].kind = "mapping" THEN row_to_alert(activity[i]) ELSE None]

merge_watched_addresses(query, metadata) == query \cup metadata

filter_incoming_for_watched(alerts, watched) ==
    [i \in DOMAIN alerts |->
        IF alerts[i] = None \/ watched = {} \/ alerts[i].to_address \in watched THEN alerts[i]
        ELSE None]

-----------------------------------------------------------------------------
(* webhook_graph.py.                                                       *)

\* Mutant: the rows of one transaction share a key.
dedupe_key_no_log_index(d, alert) == <<d.event_id, alert.tx_hash>>

dedupe_key(d, alert) == <<d.event_id, alert.tx_hash, alert.log_index>>

\* classify: everything that is not ADDRESS_ACTIVITY is skipped.
skipped(d) == d.type # "ADDRESS_ACTIVITY"

\* normalize_activity and filter_incoming.
alerts_to_dedupe(d) ==
    filter_incoming_for_watched(normalize_activity_rows(d.activity),
                                merge_watched_addresses(d.query, d.metadata))

\* emit_alert: an alert as the reply and the log carry it.
emit_alert(d, alert) == [event |-> d.event_id, alert |-> alert, at |-> now, boot |-> boot]

\* One round of the loop of dedupe over the filtered alerts.  acc holds the
\* store and the alerts emitted so far; both grow by the same insertions.
mark(acc, d, alert) ==
    IF alert = None THEN acc
    ELSE LET k == dedupe_key(d, alert)
         IN  [store |-> mark_if_new(acc.store, k, now, Len(acc.log) + 1),
              log   |-> IF IsNew(acc.store, k, now) THEN Append(acc.log, emit_alert(d, alert))
                        ELSE acc.log]

\* dedupe: one mark_if_new after the other, in the order of the rows.
dedupe(d) ==
    LET alerts == alerts_to_dedupe(d)
        acc[i \in 0..Len(alerts)] ==
            IF i = 0 THEN [store |-> expires_at, log |-> emitted]
            ELSE mark(acc[i - 1], d, alerts[i])
    IN  acc[Len(alerts)]

-----------------------------------------------------------------------------
(* The handler.                                                            *)

\* The reply to a delivery when the key lookup ends in source: the checks in
\* the order of the handler.  A blank secret and a 1Claw that does not answer
\* raise custody errors that the handler leaves to _custody_exception_handler:
\* a 400, like a body that is not a JSON object.
http_status(d, source) ==
    CASE d.signature = None                        -> 401
      [] d.signature # None /\ source \in {"secret_blank", "unavailable"} -> 400
      [] d.signature # None /\ source \notin {"key", "secret_blank", "unavailable"} -> 503
      [] d.signature = "invalid" /\ source = "key" -> 403
      [] d.signature = "valid" /\ source = "key"   -> IF d.body = "object" THEN 200 ELSE 400

\* Refused deliveries and skipped event types leave the store alone.
alchemy_address_activity_webhook(d) ==
    /\ handled < MaxHandled
    /\ \E source \in KeySources :
        LET status == http_status(d, source)
            runs   == status = 200 /\ ~skipped(d)
        IN  /\ response' = status
            /\ expires_at' = IF runs THEN dedupe(d).store ELSE expires_at
            /\ emitted' = IF runs THEN dedupe(d).log ELSE emitted
            /\ accepted' = IF status = 200 THEN accepted \cup {d} ELSE accepted
    /\ handled' = handled + 1
    /\ UNCHANGED <<now, boot>>

Tick ==
    /\ now < MaxTime
    /\ now' = now + 1
    /\ UNCHANGED <<expires_at, response, boot, emitted, accepted, handled>>

\* The store lives in the memory of the process.
Restart ==
    /\ boot < MaxRestarts
    /\ boot' = boot + 1
    /\ expires_at' = <<>>
    /\ response' = None
    /\ UNCHANGED <<now, emitted, accepted, handled>>

Next ==
    \/ \E d \in Deliveries : alchemy_address_activity_webhook(d)
    \/ Tick
    \/ Restart

Spec == Init /\ [][Next]_vars

-----------------------------------------------------------------------------
(* Properties.                                                             *)

SameAlert(i, j) ==
    emitted[i].event = emitted[j].event /\ emitted[i].alert = emitted[j].alert

Between(i, j) == {<<emitted[m].event, emitted[m].alert>> : m \in (i + 1)..(j - 1)}

\* An alert is emitted a second time only after its TTL, after a restart, or
\* when at least max_entries other alerts were emitted in between: neither
\* the purge nor the eviction at the limit forgets a key earlier.
ReemittedOnlyWhenForgotten ==
    \A i, j \in DOMAIN emitted :
        i < j /\ SameAlert(i, j) =>
            \/ emitted[j].at >= emitted[i].at + TTL
            \/ emitted[j].boot # emitted[i].boot
            \/ Cardinality(Between(i, j)) >= MaxEntries

\* The store never holds more than max_entries keys, and the order of its
\* insertions is the order of the deadlines, so that a full store forgets
\* by age.
StoreIsBoundedAndOrdered ==
    /\ Cardinality(DOMAIN expires_at) <= MaxEntries
    /\ \A j, k \in DOMAIN expires_at :
        j # k => /\ expires_at[j].inserted # expires_at[k].inserted
                 /\ expires_at[j].inserted < expires_at[k].inserted
                        => expires_at[j].deadline <= expires_at[k].deadline

\* Nothing a caller watches is swallowed: every row that an accepted
\* delivery carries for its watch list has been emitted at least once, also
\* when another delivery of the event with another watch list came first.
AcceptedIsEmitted ==
    \A d \in accepted :
        ~skipped(d) =>
            \A i \in DOMAIN alerts_to_dedupe(d) :
                alerts_to_dedupe(d)[i] # None =>
                    \E m \in DOMAIN emitted :
                        /\ emitted[m].event = d.event_id
                        /\ emitted[m].alert = alerts_to_dedupe(d)[i]

=============================================================================
