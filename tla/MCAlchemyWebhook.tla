--------------------------- MODULE MCAlchemyWebhook ---------------------------
(* A small instance of AlchemyWebhook.                                     *)
EXTENDS AlchemyWebhook

Transfer(hash, log_index, to) ==
    [kind |-> "mapping", hash |-> hash, log_hash |-> None, log_index |-> log_index,
     trace |-> None, to_address |-> to, transfer |-> "1 eth"]

NativeTransfer(hash, trace, to) ==
    [Transfer(hash, None, to) EXCEPT !.trace = trace]

LogOnly(hash, log_index, to) ==
    [Transfer("", log_index, to) EXCEPT !.log_hash = hash, !.transfer = "2 usdc"]

Junk == [Transfer(None, None, None) EXCEPT !.kind = "junk"]

Activity(event_id, rows, query, metadata) ==
    [signature |-> "valid", body |-> "object", type |-> "ADDRESS_ACTIVITY",
     event_id |-> event_id, activity |-> rows, query |-> query, metadata |-> metadata]

\* Two rows of one event, delivered to a handler that watches "a" only and
\* to one that watches everything; two more events, one of them with rows
\* that differ in the log index only; and what the handler must refuse.
Event1 == <<Transfer("t1", "0", "a"), Junk, NativeTransfer("t1", None, "b")>>

MCDeliveries ==
    LET narrow == Activity("e1", Event1, {"a"}, {})
    IN  {narrow,
         Activity("e1", Event1, {}, {}),
         Activity("e2", <<Transfer("t2", "0", "a"), LogOnly("t2", "1", "a")>>, {}, {"a", "b"}),
         Activity("e3", <<NativeTransfer("t3", "call_0", "b"),
                          NativeTransfer("t3", "call_1", "b")>>, {"b"}, {}),
         Activity("e4", None, {}, {}),
         [narrow EXCEPT !.signature = None],
         [narrow EXCEPT !.signature = "invalid"],
         [narrow EXCEPT !.body = "not_json"],
         [narrow EXCEPT !.type = "GRAPHQL"]}

=============================================================================
