---------------------------- MODULE TransferHistory ----------------------------
(***************************************************************************)
(* mercury/alchemy/transfers.py: a transfer history is one or two          *)
(* alchemy_getAssetTransfers calls, outgoing first.  With direction        *)
(* "both" the first pages of the two legs are joined, deduplicated by      *)
(* transaction hash, sorted and cut.  The wallet's history grows while     *)
(* the calls are made.                                                     *)
(*                                                                         *)
(* A row of the history is one transfer; a transaction may have several    *)
(* (a swap has one in each direction).  Rows whose block number cannot be  *)
(* read, and rows that are not objects, are left out.                      *)
(***************************************************************************)
EXTENDS Integers, Sequences, FiniteSets

CONSTANTS
    MaxRows,        \* bound on the length of the history
    MaxCounts,      \* the max_count values asked for
    Faults          \* replies other than a page of rows: see ReplyFaults

Legs == {"outgoing", "incoming"}
ReplyFaults == {"error",        \* an "error" object, or no "result" object
                "no_list"}      \* a result whose transfers are not a list

\* Hashes are compared only; NoHash is a row without one, which normalises to
\* the empty string.
NoHash == 0
TransferRow == [hash : Nat, block : Nat, legs : (SUBSET Legs) \ {{}}]

ASSUME HistoryAssumption ==
    /\ MaxRows \in Nat
    /\ MaxCounts \subseteq 1..1000
    /\ Faults \subseteq ReplyFaults

VARIABLES
    history,    \* the wallet's transfers, oldest first
    call,       \* the running request: direction, max_count, page_key
    pc,         \* "idle", "first", "second" or "done"
    asked,      \* history: length of the history at the first reply
    reply,      \* reply[leg]: the rows parsed from the reply for that leg
    kind,       \* kind[leg]: "none", "list", or the fault of that reply
    answer      \* the rows answered

history_vars == <<history, call, pc, asked, reply, kind, answer>>

NoCall == [direction |-> "both", max_count |-> 1, page_key |-> 0]

HistoryInit ==
    /\ history = <<>>
    /\ call = NoCall
    /\ pc = "idle"
    /\ asked = 0
    /\ reply = [leg \in Legs |-> <<>>]
    /\ kind = [leg \in Legs |-> "none"]
    /\ answer = <<>>

\* Another transfer of the wallet: of the last transaction, or of a new one
\* in the same block or the next, with or without a hash.
Grow ==
    /\ pc # "done"
    /\ Len(history) < MaxRows
    /\ \E legs \in (SUBSET Legs) \ {{}}, new \in {"same", "same block", "next block"} :
         LET none == history = <<>>
             last == IF none THEN [hash |-> NoHash, block |-> 0] ELSE history[Len(history)]
         IN  /\ new # "next block" => ~none
             /\ new = "same" => last.hash # NoHash
             /\ \E h \in IF new = "same" THEN {last.hash} ELSE {Len(history) + 1, NoHash} :
                  history' = Append(history,
                    [hash |-> h, legs |-> legs,
                     block |-> last.block + (IF new = "next block" THEN 1 ELSE 0)])
    /\ UNCHANGED <<call, pc, asked, reply, kind, answer>>

-----------------------------------------------------------------------------
(* Lists of the first elements in an order.                                *)

\* The elements of I in the order R, the first n of them at most.
Listing(I, R, n) ==
    LET rank(i) == Cardinality({j \in I : <<j, i>> \in R})
        size    == Cardinality(I)
    IN  [m \in 1..(IF n < size THEN n ELSE size) |-> CHOOSE i \in I : rank(i) = m - 1]

Rows(rows, positions) == [m \in DOMAIN positions |-> rows[positions[m]]]

-----------------------------------------------------------------------------
(* The remote side: a page is the newest max_count rows of a leg, newest   *)
(* first.  A page key stands for the row the next page starts below.       *)

Below(key) == IF key = 0 THEN Len(history) ELSE key - 1

LegRows(leg, key) == {i \in 1..Below(key) : leg \in history[i].legs}

NewestFirst(I) == {e \in I \X I : e[1] > e[2]}

Page(leg, key, n) ==
    LET I == LegRows(leg, key) IN Rows(history, Listing(I, NewestFirst(I), n))

-----------------------------------------------------------------------------
(* The client.                                                             *)

\* The parameters of the request of one leg; "both" never sends a page key.
build_asset_transfer_params(leg) ==
    [leg       |-> leg,
     maxCount  |-> call.max_count,
     pageKey   |-> IF call.direction = "both" THEN 0 ELSE call.page_key]

\* The positions of the rows that are kept: the first row of each hash; a
\* row without a hash is nobody's duplicate.
unique(rows) ==
    {i \in DOMAIN rows : \/ rows[i].hash = NoHash
                         \/ ~\E j \in 1..(i - 1) : rows[j].hash = rows[i].hash}

sort_key_precedes(a, b) == a.block > b.block \/ (a.block = b.block /\ a.hash < b.hash)

\* unique.sort(key=sort_key): the sort is stable.
Sorted(rows, I) ==
    {e \in I \X I :
        \/ sort_key_precedes(rows[e[1]], rows[e[2]])
        \/ ~sort_key_precedes(rows[e[2]], rows[e[1]]) /\ e[1] < e[2]}

\* Mutant: the rows are cut before the duplicates are dropped.
_merge_and_sort_transfers_cut_first(rows, max_count) ==
    LET all == DOMAIN rows
        cut == Rows(rows, Listing(all, Sorted(rows, all), max_count))
        I   == unique(cut)
    IN  Rows(cut, Listing(I, Sorted(cut, I), max_count))

_merge_and_sort_transfers(rows, max_count) ==
    LET I == unique(rows)
    IN  Rows(rows, Listing(I, Sorted(rows, I), max_count))

\* _parse_rpc_result: an error raises, a result without a list is an empty
\* page.
Replies(leg) ==
    LET params == build_asset_transfer_params(leg)
    IN  {[rows |-> Page(leg, params.pageKey, params.maxCount), kind |-> "list"]}
        \cup {[rows |-> <<>>, kind |-> fault] : fault \in Faults}

Directions == Legs \cup {"both"}

\* fetch_transfers_for_wallet is called.
fetch_transfers_for_wallet ==
    /\ pc = "idle"
    /\ \E d \in Directions, n \in MaxCounts, key \in 0..Len(history) :
         call' = [direction |-> d, max_count |-> n, page_key |-> key]
    /\ pc' = "first"
    /\ UNCHANGED <<history, asked, reply, kind, answer>>

Got(leg, r) ==
    /\ reply' = [reply EXCEPT ![leg] = r.rows]
    /\ kind' = [kind EXCEPT ![leg] = r.kind]

\* One direction: its only page is the answer, in the order it came.
fetch_one_leg ==
    /\ pc = "first" /\ call.direction \in Legs
    /\ \E r \in Replies(call.direction) :
         /\ Got(call.direction, r)
         /\ answer' = r.rows
    /\ asked' = Len(history)
    /\ pc' = "done"
    /\ UNCHANGED <<history, call>>

\* Both directions: the outgoing page.  Both replies are fetched before
\* either is parsed, so an error of the first does not stop the second.
fetch_outgoing ==
    /\ pc = "first" /\ call.direction = "both"
    /\ \E r \in Replies("outgoing") :
         Got("outgoing", r)
    /\ asked' = Len(history)
    /\ pc' = "second"
    /\ UNCHANGED <<history, call, answer>>

fetch_incoming ==
    /\ pc = "second"
    /\ \E r \in Replies("incoming") :
         /\ Got("incoming", r)
         /\ answer' = _merge_and_sort_transfers(reply["outgoing"] \o r.rows,
                                                call.max_count)
    /\ pc' = "done"
    /\ UNCHANGED <<history, call, asked>>

HistoryNext ==
    \/ Grow
    \/ fetch_transfers_for_wallet
    \/ fetch_one_leg
    \/ fetch_outgoing
    \/ fetch_incoming

HistorySpec == HistoryInit /\ [][HistoryNext]_history_vars

-----------------------------------------------------------------------------
(* Properties.                                                             *)

AskedLegs == IF call.direction = "both" THEN Legs ELSE {call.direction}

\* A call one of whose replies is an error raises and answers nothing.
Answered == pc = "done" /\ \A leg \in Legs : kind[leg] # "error"

Listed == {leg \in AskedLegs : kind[leg] = "list"}

\* The block below which a full page of the leg tells nothing.
Horizon(leg) == IF Len(reply[leg]) < call.max_count THEN 0 ELSE reply[leg][Len(reply[leg])].block

\* The block below which the answer was cut.
CutBlock == IF Len(answer) < call.max_count THEN 0 ELSE answer[Len(answer)].block

\* The last transfer the call asks for: those made before its first reply,
\* in one direction below the page key.
Newest == IF call.direction = "both" \/ call.page_key = 0 THEN asked ELSE call.page_key - 1

\* A transfer history omits no transaction it could have shown: every
\* transfer made before the first reply, newer than the cut of the answer and
\* than the end of the page that held it, has its transaction in the answer,
\* whatever the wallet sends and receives between the two calls and however
\* many transfers share a transaction (fetch_transfers_for_wallet,
\* _merge_and_sort_transfers).
NewestAreComplete ==
    Answered =>
        \A i \in 1..Newest, leg \in Listed :
            /\ leg \in history[i].legs
            /\ history[i].block > Horizon(leg)
            /\ history[i].block > CutBlock
            => \E j \in DOMAIN answer : answer[j].hash = history[i].hash

=============================================================================
