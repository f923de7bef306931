----------------------------- MODULE AlchemyProofs -----------------------------
(***************************************************************************)
(* Theorems about the dedupe store of the Alchemy webhook, for every set   *)
(* of deliveries, every time to live and every size of the store, and      *)
(* about the transfer history, for every length of the history and every   *)
(* max_count.                                                              *)
(*                                                                         *)
(* One delivery is a loop over its rows, so the invariant is stated for a  *)
(* store S and a log E of emissions at time t in process b: it holds of    *)
(* the variables between deliveries, and of the accumulator of the loop    *)
(* after every row.  Its heart is Remembers: an emission that is neither   *)
(* expired nor of an earlier process still has its key in the store, or    *)
(* was pushed out by MaxEntries other alerts.  An eviction keeps it        *)
(* because the entry that is dropped is the one inserted first, and every  *)
(* other entry of the full store stands for an alert emitted later.        *)
(*                                                                         *)
(* The transfer history (second half) rests on lists: a page and a merge   *)
(* both hold the first elements in an order, so a list that is not full    *)
(* holds everything and a full one holds what is ahead of its last row.    *)
(***************************************************************************)
EXTENDS AlchemyWebhook, TransferHistory, FiniteSetTheorems, WellFoundedInduction, TLAPS

\* The key under which an emission was marked.
KeyOf(e) == <<e.event, e.alert.tx_hash, e.alert.log_index>>

\* The alerts emitted after the m-th.
Later(E, m) == {<<E[x].event, E[x].alert>> : x \in (m + 1)..Len(E)}

\* The alerts of the deliveries, with None for the rows that are dropped.
AlertsOf(d) == {alerts_to_dedupe(d)[i] : i \in DOMAIN alerts_to_dedupe(d)}

Emission ==
    [event : STRING, alert : UNION {AlertsOf(d) : d \in Deliveries}, at : Nat, boot : Nat]

\* The log is in the order of time and of the processes.
LogOrdered(E, t, b) ==
    /\ E \in Seq(Emission)
    /\ \A m \in DOMAIN E : E[m].at <= t /\ E[m].boot <= b
    /\ \A m, n \in DOMAIN E : m < n => E[m].at <= E[n].at /\ E[m].boot <= E[n].boot

\* Every entry of the store was made by an emission of its key.
Backed(S, E, b) ==
    \A k \in DOMAIN S :
        /\ S[k] \in [deadline : Nat, inserted : Nat]
        /\ S[k].inserted \in DOMAIN E
        /\ KeyOf(E[S[k].inserted]) = k
        /\ E[S[k].inserted].boot = b
        /\ S[k].deadline = E[S[k].inserted].at + TTL

Bounded(S) == IsFiniteSet(DOMAIN S) /\ Cardinality(DOMAIN S) <= MaxEntries

\* What the store knows of the m-th emission.
Remembers(S, E, m) ==
    /\ KeyOf(E[m]) \in DOMAIN S
    /\ S[KeyOf(E[m])].inserted >= m

Forgotten(E, m, t, b) ==
    \/ E[m].boot # b
    \/ E[m].at + TTL <= t
    \/ Cardinality(Later(E, m)) >= MaxEntries

Justified(E) ==
    \A i, j \in DOMAIN E :
        i < j /\ E[i].event = E[j].event /\ E[i].alert = E[j].alert =>
            \/ E[j].at >= E[i].at + TTL
            \/ E[j].boot # E[i].boot
            \/ Cardinality({<<E[m].event, E[m].alert>> : m \in (i + 1)..(j - 1)}) >= MaxEntries

DedupeInv(S, E, t, b) ==
    /\ LogOrdered(E, t, b)
    /\ Backed(S, E, b)
    /\ Bounded(S)
    /\ \A m \in DOMAIN E : Remembers(S, E, m) \/ Forgotten(E, m, t, b)
    /\ Justified(E)

\* Every emission is the alert of a row of some delivery.
Sourced(E) ==
    \A m \in DOMAIN E : \E d \in Deliveries : \E i \in DOMAIN alerts_to_dedupe(d) :
        /\ alerts_to_dedupe(d)[i] # None
        /\ E[m].event = d.event_id /\ E[m].alert = alerts_to_dedupe(d)[i]

\* Some emission has the key of the alert.
KeyEmitted(E, d, alert) == \E m \in DOMAIN E : KeyOf(E[m]) = dedupe_key(d, alert)

WebhookInv ==
    /\ now \in Nat /\ boot \in Nat
    /\ DedupeInv(expires_at, emitted, now, boot)
    /\ Sourced(emitted)
    /\ accepted \subseteq Deliveries
    /\ \A d \in accepted : ~skipped(d) =>
        \A i \in DOMAIN alerts_to_dedupe(d) :
            alerts_to_dedupe(d)[i] # None => KeyEmitted(emitted, d, alerts_to_dedupe(d)[i])

\* A dedupe key names one alert.  Rows of one transaction that carry neither
\* a log index nor a trace address share the index "na" and break this.
KeysNameAlerts ==
    \A d, e \in Deliveries :
        \A i \in DOMAIN alerts_to_dedupe(d), j \in DOMAIN alerts_to_dedupe(e) :
            /\ alerts_to_dedupe(d)[i] # None /\ alerts_to_dedupe(e)[j] # None
            /\ dedupe_key(d, alerts_to_dedupe(d)[i]) = dedupe_key(e, alerts_to_dedupe(e)[j])
            => alerts_to_dedupe(d)[i] = alerts_to_dedupe(e)[j]

-----------------------------------------------------------------------------
(* The log.                                                                *)

\* The alerts emitted after an emission are finitely many.
LEMMA LaterFinite ==
    ASSUME NEW E \in Seq(Emission), NEW m \in Nat
    PROVE  IsFiniteSet(Later(E, m))
<1> DEFINE D == (m + 1)..Len(E)
           f == [x \in D |-> <<E[x].event, E[x].alert>>]
<1>1. IsFiniteSet(D)
  BY FS_Interval, m + 1 \in Int, Len(E) \in Int
<1>2. f \in Surjection(D, Later(E, m))
  BY DEF Surjection, Later
<1> QED BY <1>1, <1>2, FS_Surjection

\* An emission more leaves the alerts emitted after the m-th where they are.
LEMMA LaterGrows ==
    ASSUME NEW E \in Seq(Emission), NEW e \in Emission, NEW m \in Nat
    PROVE  /\ Later(E, m) \subseteq Later(Append(E, e), m)
           /\ Cardinality(Later(E, m)) \in Nat
           /\ Cardinality(Later(Append(E, e), m)) \in Nat
           /\ Cardinality(Later(E, m)) <= Cardinality(Later(Append(E, e), m))
<1> DEFINE F == Append(E, e)
<1>1. F \in Seq(Emission) /\ Len(F) = Len(E) + 1 /\ \A x \in 1..Len(E) : F[x] = E[x]
  OBVIOUS
<1>2. \A x \in (m + 1)..Len(E) : x \in (m + 1)..Len(F) /\ F[x] = E[x]
  BY <1>1
<1> HIDE DEF F
<1>3. Later(E, m) \subseteq Later(F, m)
  BY <1>2 DEF Later
<1>4. IsFiniteSet(Later(F, m)) /\ IsFiniteSet(Later(E, m))
  BY <1>1, LaterFinite
<1>5. Cardinality(Later(E, m)) <= Cardinality(Later(F, m))
  BY <1>3, <1>4, FS_Subset
<1>6. Cardinality(Later(E, m)) \in Nat /\ Cardinality(Later(F, m)) \in Nat
  BY <1>4, FS_CardinalityType
<1> QED BY <1>3, <1>5, <1>6 DEF F

-----------------------------------------------------------------------------
(* The eviction.                                                           *)

\* A set of natural numbers that is not empty has a least element.
LEMMA LeastExists ==
    ASSUME NEW S \in SUBSET Nat, S # {}
    PROVE  \E i \in S : \A j \in S : i <= j
<1>1. PICK i \in S : \A j \in S : <<j, i>> \notin OpToRel(<, Nat)
  BY NatLessThanWellFounded, WFMin
<1>2. \A j \in S : ~(j < i)
  BY <1>1 DEF OpToRel
<1> QED BY <1>2

\* Entries of the store are made by different emissions, and one that is
\* inserted later does not expire earlier.
LEMMA EntriesOrdered ==
    ASSUME NEW T, NEW F, NEW t \in Nat, NEW b \in Nat,
           LogOrdered(F, t, b), Backed(T, F, b),
           NEW j \in DOMAIN T, NEW k \in DOMAIN T
    PROVE  /\ T[j].inserted \in Nat /\ T[j].deadline \in Nat
           /\ j # k => T[j].inserted # T[k].inserted
           /\ T[j].inserted < T[k].inserted => T[j].deadline <= T[k].deadline
           /\ Before(T, j, k) <=> T[j].inserted < T[k].inserted
<1>1. /\ T[j].inserted \in Nat /\ T[j].deadline \in Nat
      /\ T[k].inserted \in Nat /\ T[k].deadline \in Nat
  BY DEF Backed
<1>2. j # k => T[j].inserted # T[k].inserted
  BY DEF Backed
<1>3. \A m, n \in DOMAIN F : F[m].at \in Nat /\ (m < n => F[m].at <= F[n].at)
  <2>1. \A m \in DOMAIN F : F[m] \in Emission
    BY DEF LogOrdered
  <2>2. \A m \in DOMAIN F : F[m].at \in Nat
    BY <2>1 DEF Emission
  <2> QED BY <2>2 DEF LogOrdered
<1>4. \A x, y \in DOMAIN T : T[x].inserted < T[y].inserted => T[x].deadline <= T[y].deadline
  <2> TAKE x, y \in DOMAIN T
  <2>1. /\ T[x].inserted \in DOMAIN F /\ T[y].inserted \in DOMAIN F
        /\ T[x].deadline = F[T[x].inserted].at + TTL
        /\ T[y].deadline = F[T[y].inserted].at + TTL
    BY DEF Backed
  <2> QED BY <2>1, <1>3, WebhookAssumption
<1>5. j = k => ~(T[j].inserted < T[k].inserted) /\ ~Before(T, j, k)
  BY <1>1 DEF Before
<1>6. j # k => (Before(T, j, k) <=> T[j].inserted < T[k].inserted)
  BY <1>1, <1>2, <1>4 DEF Before
<1> QED BY <1>1, <1>2, <1>4, <1>5, <1>6

\* A store with at most one entry too many, all of them alive.
AliveAndOneOver(T, t) ==
    /\ T = [k \in DOMAIN T |-> T[k]]
    /\ IsFiniteSet(DOMAIN T) /\ Cardinality(DOMAIN T) <= MaxEntries + 1
    /\ \A k \in DOMAIN T : T[k].deadline > t

\* R is T, made to fit: nothing is dropped but, at the limit, the entry
\* inserted first.
FirstEvicted(R, T) ==
    /\ DOMAIN R \subseteq DOMAIN T
    /\ \A k \in DOMAIN R : R[k] = T[k]
    /\ Bounded(R)
    /\ \A k \in DOMAIN T \ DOMAIN R :
         /\ Cardinality(DOMAIN T) = MaxEntries + 1
         /\ \A j \in DOMAIN T \ {k} : T[j].inserted > T[k].inserted

\* What _enforce_max does to such a store.
LEMMA EnforceMax ==
    ASSUME NEW T, NEW F, NEW t \in Nat, NEW b \in Nat,
           LogOrdered(F, t, b), Backed(T, F, b), AliveAndOneOver(T, t)
    PROVE  FirstEvicted(_enforce_max(T, t), T)
<1> USE DEF AliveAndOneOver, FirstEvicted
<1> DEFINE R == _enforce_max(T, t)
           live == _purge_expired(T, t)
           ahead(k) == {j \in DOMAIN T : Before(T, j, k)}
           kept == {j \in DOMAIN T : Cardinality(ahead(j)) >= 1}
<1>0. \A j, k \in DOMAIN T :
        /\ T[j].inserted \in Nat
        /\ j # k => T[j].inserted # T[k].inserted
        /\ Before(T, j, k) <=> T[j].inserted < T[k].inserted
  <2> TAKE j, k \in DOMAIN T
  <2> QED BY EntriesOrdered
<1>1. live = T
  <2>1. {j \in DOMAIN T : T[j].deadline > t} = DOMAIN T
    OBVIOUS
  <2> QED BY <2>1 DEF _purge_expired
<1>2. Cardinality(DOMAIN T) \in Nat /\ MaxEntries \in Nat
  BY FS_CardinalityType, WebhookAssumption
<1>3. CASE Cardinality(DOMAIN T) <= MaxEntries
  <2>1. R = T
    BY <1>3 DEF _enforce_max
  <2> QED BY <2>1, <1>3 DEF Bounded
<1>4. CASE Cardinality(DOMAIN T) = MaxEntries + 1
  <2>1. R = [k \in kept |-> T[k]]
    <3>1. Cardinality(DOMAIN T) - MaxEntries = 1
      BY <1>2, <1>4
    <3>2. R = [k \in {j \in DOMAIN live :
                        Cardinality({i \in DOMAIN live : Before(live, i, j)})
                            >= Cardinality(DOMAIN live) - MaxEntries} |-> live[k]]
      <4>1. ~(Cardinality(DOMAIN T) <= MaxEntries) /\ ~(Cardinality(DOMAIN T) - MaxEntries <= 0)
        BY <1>2, <1>4
      <4> QED BY <1>1, <4>1 DEF _enforce_max
    <3> QED BY <1>1, <3>1, <3>2
  <2>2. \A k \in DOMAIN T : k \notin kept => \A j \in DOMAIN T \ {k} : T[j].inserted > T[k].inserted
    <3> SUFFICES ASSUME NEW k \in DOMAIN T, k \notin kept, NEW j \in DOMAIN T, j # k
                 PROVE  T[j].inserted > T[k].inserted
      OBVIOUS
    <3>1. IsFiniteSet(ahead(k)) /\ Cardinality(ahead(k)) \in Nat
      BY FS_Subset, FS_CardinalityType, ahead(k) \in SUBSET DOMAIN T
    <3>2. Cardinality(ahead(k)) = 0
      BY <3>1
    <3>3. ahead(k) = {}
      BY <3>1, <3>2, FS_EmptySet
    <3>4. ~Before(T, j, k)
      BY <3>3
    <3> HIDE DEF ahead, kept
    <3>5. /\ T[j].inserted \in Nat /\ T[k].inserted \in Nat /\ T[j].inserted # T[k].inserted
          /\ Before(T, j, k) <=> T[j].inserted < T[k].inserted
      BY <1>0
    <3> QED BY <3>4, <3>5
  <2>3. \E k \in DOMAIN T : k \notin kept
    <3> DEFINE serials == {T[j].inserted : j \in DOMAIN T}
    <3>1. DOMAIN T # {}
      BY <1>2, <1>4, FS_EmptySet
    <3>2. serials \in SUBSET Nat /\ serials # {}
      BY <3>1, <1>0
    <3>3. PICK s \in serials : \A r \in serials : s <= r
      BY <3>2, LeastExists
    <3>4. PICK k \in DOMAIN T : T[k].inserted = s
      BY <3>3
    <3>5. \A j \in DOMAIN T : ~Before(T, j, k)
      <4> TAKE j \in DOMAIN T
      <4>1. s <= T[j].inserted /\ T[j].inserted \in Nat /\ T[k].inserted \in Nat
        BY <3>3, <1>0
      <4>2. Before(T, j, k) <=> T[j].inserted < T[k].inserted
        BY <1>0
      <4> QED BY <3>4, <4>1, <4>2
    <3>6. ahead(k) = {}
      BY <3>5
    <3>7. Cardinality(ahead(k)) = 0
      BY <3>6, FS_EmptySet
    <3> QED BY <3>7
  <2>4. Bounded(R)
    <3>1. PICK k \in DOMAIN T : k \notin kept
      BY <2>3
    <3>2. IsFiniteSet(DOMAIN T \ {k}) /\ Cardinality(DOMAIN T \ {k}) = MaxEntries
      <4> DEFINE D == DOMAIN T
      <4>1. IsFiniteSet(D) /\ k \in D
        OBVIOUS
      <4> HIDE DEF D, R, live, kept
      <4>2. IsFiniteSet(D \ {k}) /\ Cardinality(D \ {k}) = Cardinality(D) - 1
        BY <4>1, FS_RemoveElement
      <4> QED BY <1>2, <1>4, <4>2 DEF D
    <3>3. kept \in SUBSET (DOMAIN T \ {k})
      BY <3>1
    <3> HIDE DEF kept
    <3>4. IsFiniteSet(kept) /\ Cardinality(kept) <= MaxEntries
      BY <3>2, <3>3, FS_Subset
    <3> QED BY <2>1, <3>4 DEF Bounded
  <2>5. kept \subseteq DOMAIN T
    OBVIOUS
  <2> HIDE DEF R, kept
  <2>6. DOMAIN R = kept /\ \A k \in kept : R[k] = T[k]
    BY <2>1
  <2>7. \A k \in DOMAIN T \ DOMAIN R : \A j \in DOMAIN T \ {k} : T[j].inserted > T[k].inserted
    BY <2>2, <2>6
  <2>8. DOMAIN R \subseteq DOMAIN T /\ \A k \in DOMAIN R : R[k] = T[k]
    BY <2>5, <2>6
  <2> QED BY <1>4, <2>4, <2>7, <2>8 DEF R
<1> QED BY <1>2, <1>3, <1>4

\* When the entry inserted first is dropped, MaxEntries other alerts have
\* been emitted since: the keys of the entries that stay are all different.
LEMMA Crowded ==
    ASSUME NEW T, NEW F, NEW t \in Nat, NEW b \in Nat,
           LogOrdered(F, t, b), Backed(T, F, b),
           IsFiniteSet(DOMAIN T), Cardinality(DOMAIN T) = MaxEntries + 1,
           NEW k \in DOMAIN T, \A j \in DOMAIN T \ {k} : T[j].inserted > T[k].inserted,
           NEW m \in Nat, m <= T[k].inserted
    PROVE  Cardinality(Later(F, m)) >= MaxEntries
<1> DEFINE D == DOMAIN T
           O == D \ {k}
           f == [j \in O |-> <<F[T[j].inserted].event, F[T[j].inserted].alert>>]
<1>1. IsFiniteSet(D) /\ k \in D /\ Cardinality(D) = MaxEntries + 1 /\ MaxEntries \in Nat
  BY WebhookAssumption
<1>2. \A j \in O : f[j] \in Later(F, m)
  <2> TAKE j \in O
  <2>1. T[j].inserted \in DOMAIN F /\ T[j].inserted \in Nat /\ T[k].inserted \in Nat
    BY DEF Backed
  <2>2. T[j].inserted \in (m + 1)..Len(F)
    BY <2>1 DEF LogOrdered
  <2> QED BY <2>2 DEF Later
<1>3. \A i, j \in O : f[i] = f[j] => i = j
  <2> SUFFICES ASSUME NEW i \in O, NEW j \in O, f[i] = f[j] PROVE i = j
    OBVIOUS
  <2>1. KeyOf(F[T[i].inserted]) = KeyOf(F[T[j].inserted])
    BY DEF KeyOf
  <2>2. KeyOf(F[T[i].inserted]) = i /\ KeyOf(F[T[j].inserted]) = j
    BY DEF Backed
  <2> QED BY <2>1, <2>2
<1>4. f \in Injection(O, Later(F, m))
  <2> HIDE DEF O
  <2>1. f \in [O -> Later(F, m)]
    BY <1>2
  <2> HIDE DEF f
  <2> QED BY <1>3, <2>1 DEF Injection, IsInjective
<1>5. IsFiniteSet(Later(F, m))
  BY LaterFinite DEF LogOrdered
<1> HIDE DEF D, f
<1>6. IsFiniteSet(O) /\ Cardinality(O) = Cardinality(D) - 1
  BY <1>1, FS_RemoveElement
<1> HIDE DEF O
<1>7. Cardinality(O) <= Cardinality(Later(F, m))
  BY <1>4, <1>5, FS_Injection
<1>8. Cardinality(Later(F, m)) \in Nat
  BY <1>5, FS_CardinalityType
<1> QED BY <1>1, <1>6, <1>7, <1>8

-----------------------------------------------------------------------------
(* mark_if_new.                                                            *)

\* The purge keeps the invariant: it drops expired entries only.
LEMMA PurgeKeeps ==
    ASSUME NEW S, NEW E, NEW t \in Nat, NEW b \in Nat, DedupeInv(S, E, t, b)
    PROVE  LET L == _purge_expired(S, t)
           IN  /\ DedupeInv(L, E, t, b)
               /\ \A k \in DOMAIN L : L[k].deadline > t
<1> DEFINE L == _purge_expired(S, t)
<1>1. /\ DOMAIN L \in SUBSET DOMAIN S
      /\ \A k \in DOMAIN L : L[k] = S[k] /\ S[k].deadline > t
      /\ \A k \in DOMAIN S : S[k].deadline > t => k \in DOMAIN L
  BY DEF _purge_expired
<1>2. \A m \in DOMAIN E : m \in Nat /\ E[m].at \in Nat
  <2>1. \A m \in DOMAIN E : E[m] \in Emission /\ m \in Nat
    BY DEF DedupeInv, LogOrdered
  <2> QED BY <2>1 DEF Emission
<1> HIDE DEF L
<1>3. Backed(L, E, b)
  BY <1>1 DEF DedupeInv, Backed
<1>4. Bounded(L)
  <2>1. IsFiniteSet(DOMAIN S) /\ Cardinality(DOMAIN S) <= MaxEntries /\ MaxEntries \in Nat
    BY WebhookAssumption DEF DedupeInv, Bounded
  <2>2. IsFiniteSet(DOMAIN L) /\ Cardinality(DOMAIN L) <= Cardinality(DOMAIN S)
    BY <1>1, <2>1, FS_Subset
  <2>3. Cardinality(DOMAIN L) \in Nat /\ Cardinality(DOMAIN S) \in Nat
    BY <2>1, <2>2, FS_CardinalityType
  <2> QED BY <2>1, <2>2, <2>3 DEF Bounded
<1>5. ASSUME NEW m \in DOMAIN E, ~Forgotten(E, m, t, b) PROVE Remembers(L, E, m)
  <2> DEFINE k == KeyOf(E[m])
             p == S[k].inserted
  <2>1. k \in DOMAIN S /\ p >= m
    BY <1>5 DEF DedupeInv, Remembers
  <2>2. p \in DOMAIN E /\ S[k].deadline = E[p].at + TTL
    BY <2>1 DEF DedupeInv, Backed
  <2>3. E[m].at + TTL > t
    BY <1>2, <1>5, WebhookAssumption DEF Forgotten
  <2> HIDE DEF k, p
  <2>4. E[m].at <= E[p].at
    BY <1>2, <2>1, <2>2 DEF DedupeInv, LogOrdered
  <2>5. S[k].deadline > t
    BY <1>2, <2>2, <2>3, <2>4, WebhookAssumption
  <2> QED BY <1>1, <2>1, <2>5 DEF Remembers, k, p
<1> QED BY <1>1, <1>3, <1>4, <1>5 DEF DedupeInv, L

\* A key that is new: the emission is logged, its entry is made and, at the
\* limit, the entry inserted first goes.
LEMMA MarkNew ==
    ASSUME NEW S, NEW E, NEW t \in Nat, NEW b \in Nat, DedupeInv(S, E, t, b),
           NEW e \in Emission, e.at = t, e.boot = b, IsNew(S, KeyOf(e), t)
    PROVE  DedupeInv(mark_if_new(S, KeyOf(e), t, Len(E) + 1), Append(E, e), t, b)
<1> DEFINE k == KeyOf(e)
           n == Len(E) + 1
           L == _purge_expired(S, t)
           T == Insert(L, k, t, n)
           F == Append(E, e)
           R == _enforce_max(T, t)
<1>1. mark_if_new(S, k, t, n) = R
  BY DEF mark_if_new
<1>2. DedupeInv(L, E, t, b) /\ (\A j \in DOMAIN L : L[j].deadline > t) /\ k \notin DOMAIN L
  BY PurgeKeeps DEF IsNew
<1>3. E \in Seq(Emission) /\ \A m \in DOMAIN E : E[m] \in Emission /\ m \in Nat /\ m <= Len(E)
  BY DEF DedupeInv, LogOrdered
<1>4. \A x \in Emission : x.at \in Nat /\ x.boot \in Nat
  BY DEF Emission
<1>5. /\ F \in Seq(Emission) /\ Len(F) = n /\ n \in Nat \ {0} /\ F[n] = e
      /\ DOMAIN F = 1..n /\ DOMAIN E = 1..Len(E)
      /\ \A m \in DOMAIN E : m \in DOMAIN F /\ F[m] = E[m]
      /\ \A m \in DOMAIN F : m = n \/ m \in DOMAIN E
  BY <1>3
<1>6. /\ DOMAIN T = DOMAIN L \cup {k}
      /\ T[k] = [deadline |-> t + TTL, inserted |-> n]
      /\ \A j \in DOMAIN L : T[j] = L[j]
      /\ T = [j \in DOMAIN T |-> T[j]]
  BY <1>2 DEF Insert
<1> HIDE DEF k, n, L, T, F, R
<1>7. LogOrdered(F, t, b)
  <2>1. \A m \in DOMAIN F : F[m].at <= t /\ F[m].boot <= b
    BY <1>5 DEF DedupeInv, LogOrdered
  <2>2. ASSUME NEW m \in DOMAIN F, NEW x \in DOMAIN F, m < x
        PROVE  F[m].at <= F[x].at /\ F[m].boot <= F[x].boot
    <3>1. m \in DOMAIN E
      BY <1>5, <2>2
    <3>2. CASE x = n
      BY <1>5, <2>1, <3>2
    <3>3. CASE x \in DOMAIN E
      BY <1>5, <2>2, <3>1, <3>3 DEF DedupeInv, LogOrdered
    <3> QED BY <1>5, <3>2, <3>3
  <2> QED BY <1>5, <2>1, <2>2 DEF LogOrdered
<1>8. Backed(T, F, b)
  <2>1. ASSUME NEW j \in DOMAIN L
        PROVE  /\ T[j] \in [deadline : Nat, inserted : Nat]
               /\ T[j].inserted \in DOMAIN F
               /\ KeyOf(F[T[j].inserted]) = j
               /\ F[T[j].inserted].boot = b
               /\ T[j].deadline = F[T[j].inserted].at + TTL
    <3>1. T[j] = L[j] /\ L[j].inserted \in DOMAIN E
      BY <1>2, <1>6 DEF DedupeInv, Backed
    <3>2. F[T[j].inserted] = E[L[j].inserted] /\ T[j].inserted \in DOMAIN F
      BY <1>5, <3>1
    <3> QED BY <1>2, <3>1, <3>2 DEF DedupeInv, Backed
  <2>2. /\ T[k] \in [deadline : Nat, inserted : Nat]
        /\ T[k].inserted = n /\ n \in DOMAIN F
        /\ T[k].deadline = t + TTL
    BY <1>5, <1>6, WebhookAssumption
  <2>3. KeyOf(F[n]) = k /\ F[n].boot = b /\ F[n].at = t
    BY <1>5 DEF k
  <2> QED BY <1>6, <2>1, <2>2, <2>3 DEF Backed
<1>9. /\ IsFiniteSet(DOMAIN T) /\ Cardinality(DOMAIN T) <= MaxEntries + 1
      /\ \A j \in DOMAIN T : T[j].deadline > t
  <2>1. IsFiniteSet(DOMAIN L) /\ Cardinality(DOMAIN L) <= MaxEntries
    BY <1>2 DEF DedupeInv, Bounded
  <2>2. IsFiniteSet(DOMAIN T) /\ Cardinality(DOMAIN T) = Cardinality(DOMAIN L) + 1
    BY <1>2, <1>6, <2>1, FS_AddElement
  <2>3. Cardinality(DOMAIN L) \in Nat
    BY <2>1, FS_CardinalityType
  <2>4. \A j \in DOMAIN T : T[j].deadline > t
    BY <1>2, <1>6, WebhookAssumption
  <2> QED BY <2>1, <2>2, <2>3, <2>4, WebhookAssumption
<1>10. FirstEvicted(R, T)
  <2>1. AliveAndOneOver(T, t)
    BY <1>6, <1>9 DEF AliveAndOneOver
  <2> HIDE DEF T, F
  <2> QED BY <1>7, <1>8, <2>1, EnforceMax DEF R
<1>11. Backed(R, F, b)
  BY <1>8, <1>10 DEF Backed, FirstEvicted
<1>12. \A m \in DOMAIN E : Forgotten(E, m, t, b) => Forgotten(F, m, t, b)
  <2> TAKE m \in DOMAIN E
  <2>1. /\ Cardinality(Later(E, m)) \in Nat /\ Cardinality(Later(F, m)) \in Nat
        /\ Cardinality(Later(E, m)) <= Cardinality(Later(F, m))
    BY <1>3, LaterGrows DEF F
  <2> QED BY <1>5, <2>1, WebhookAssumption DEF Forgotten
<1>13. \A m \in DOMAIN F : Remembers(T, F, m) \/ Forgotten(F, m, t, b)
  <2> TAKE m \in DOMAIN F
  <2>1. CASE m = n
    <3>1. KeyOf(F[m]) = k /\ T[k].inserted = n
      BY <1>5, <1>6, <2>1 DEF k
    <3> QED BY <1>5, <1>6, <2>1, <3>1 DEF Remembers
  <2>2. CASE m \in DOMAIN E /\ Remembers(L, E, m)
    <3>1. KeyOf(E[m]) \in DOMAIN L /\ L[KeyOf(E[m])].inserted >= m /\ F[m] = E[m]
      BY <1>5, <2>2 DEF Remembers
    <3> QED BY <1>6, <3>1 DEF Remembers
  <2> QED BY <1>2, <1>5, <1>12, <2>1, <2>2 DEF DedupeInv
<1>14. \A m \in DOMAIN F : Remembers(R, F, m) \/ Forgotten(F, m, t, b)
  <2> SUFFICES ASSUME NEW m \in DOMAIN F, Remembers(T, F, m) PROVE Remembers(R, F, m) \/ Forgotten(F, m, t, b)
    BY <1>13
  <2> DEFINE x == KeyOf(F[m])
  <2>1. x \in DOMAIN T /\ T[x].inserted >= m /\ m \in Nat
    BY <1>5 DEF Remembers
  <2>2. CASE x \in DOMAIN R
    BY <1>10, <2>1, <2>2 DEF Remembers, FirstEvicted
  <2>3. CASE x \notin DOMAIN R
    <3> HIDE DEF x
    <3>1. /\ Cardinality(DOMAIN T) = MaxEntries + 1
          /\ \A j \in DOMAIN T \ {x} : T[j].inserted > T[x].inserted
      BY <1>10, <2>1, <2>3 DEF FirstEvicted
    <3>2. m <= T[x].inserted
      <4>1. T[x].inserted \in Nat
        BY <1>8, <2>1 DEF Backed
      <4> QED BY <2>1, <4>1
    <3>3. Cardinality(Later(F, m)) >= MaxEntries
      BY <1>7, <1>8, <1>9, <2>1, <3>1, <3>2, Crowded
    <3> QED BY <3>3 DEF Forgotten
  <2> QED BY <2>2, <2>3
<1>15. Justified(F)
  <2> SUFFICES ASSUME NEW i \in DOMAIN F, NEW j \in DOMAIN F, i < j,
                      F[i].event = F[j].event, F[i].alert = F[j].alert
               PROVE  \/ F[j].at >= F[i].at + TTL
                      \/ F[j].boot # F[i].boot
                      \/ Cardinality({<<F[m].event, F[m].alert>> : m \in (i + 1)..(j - 1)}) >= MaxEntries
    BY DEF Justified
  <2>1. i \in DOMAIN E /\ i \in Nat /\ j \in Nat
    BY <1>5
  <2>2. \A m \in (i + 1)..(j - 1) : m \in DOMAIN E /\ F[m] = E[m]
    BY <1>5, <2>1
  <2>3. {<<F[m].event, F[m].alert>> : m \in (i + 1)..(j - 1)} =
            {<<E[m].event, E[m].alert>> : m \in (i + 1)..(j - 1)}
    BY <2>2
  <2>4. CASE j \in DOMAIN E
    BY <1>5, <2>1, <2>3, <2>4 DEF DedupeInv, Justified
  <2>5. CASE j = n
    <3>1. KeyOf(E[i]) = k /\ F[i] = E[i] /\ F[j] = e
      BY <1>5, <2>1, <2>5 DEF KeyOf, k
    <3>2. Forgotten(E, i, t, b)
      BY <1>2, <2>1, <3>1 DEF DedupeInv, Remembers
    <3>3. Later(E, i) = {<<E[m].event, E[m].alert>> : m \in (i + 1)..(j - 1)}
      <4>1. j - 1 = Len(E)
        BY <1>3, <2>5 DEF n
      <4> QED BY <4>1 DEF Later
    <3>4. e.at = t /\ e.boot = b /\ E[i].at \in Nat
      BY <1>3, <1>4, <2>1
    <3> QED BY <2>3, <3>1, <3>2, <3>3, <3>4, WebhookAssumption DEF Forgotten
  <2> QED BY <1>5, <2>4, <2>5
<1> QED BY <1>1, <1>7, <1>10, <1>11, <1>14, <1>15 DEF DedupeInv, FirstEvicted, k, n, F

-----------------------------------------------------------------------------
(* The loop over the rows of one delivery.                                 *)

\* The alerts of a delivery are a finite list.
LEMMA AlertsListed ==
    ASSUME NEW d \in Deliveries
    PROVE  /\ d.event_id \in STRING
           /\ Len(alerts_to_dedupe(d)) \in Nat
           /\ DOMAIN alerts_to_dedupe(d) = 1..Len(alerts_to_dedupe(d))
<1> DEFINE rows == normalize_activity_rows(d.activity)
           watched == merge_watched_addresses(d.query, d.metadata)
<1>1. d.event_id \in STRING /\ (d.activity = None \/ d.activity \in Seq(Row))
  BY WebhookAssumption DEF Delivery
<1>2. \E n \in Nat : DOMAIN rows = 1..n
  <2>1. CASE d.activity = None
    <3>1. rows = <<>>
      BY <2>1 DEF normalize_activity_rows
    <3> QED BY <3>1
  <2>2. CASE d.activity # None
    <3>1. d.activity \in Seq(Row) /\ DOMAIN rows = DOMAIN d.activity
      BY <1>1, <2>2 DEF normalize_activity_rows
    <3>2. DOMAIN d.activity = 1..Len(d.activity) /\ Len(d.activity) \in Nat
      BY <3>1
    <3> QED BY <3>1, <3>2
  <2> QED BY <2>1, <2>2
<1> HIDE DEF rows, watched
<1>3. alerts_to_dedupe(d) = [i \in DOMAIN rows |->
        IF rows[i] = None \/ watched = {} \/ rows[i].to_address \in watched THEN rows[i] ELSE None]
  BY DEF alerts_to_dedupe, filter_incoming_for_watched, rows, watched
<1>4. PICK n \in Nat : DOMAIN alerts_to_dedupe(d) = 1..n
  BY <1>2, <1>3
<1>5. Len(alerts_to_dedupe(d)) = n
  <2>1. alerts_to_dedupe(d) \in Seq({alerts_to_dedupe(d)[i] : i \in 1..n})
    BY <1>3, <1>4
  <2> QED BY <1>4, <2>1
<1> QED BY <1>1, <1>4, <1>5

\* acc is the sequence of accumulators of the loop, up to row n.
Rounds(d, acc, n) ==
    acc = [i \in 0..n |->
            IF i = 0 THEN [store |-> expires_at, log |-> emitted]
            ELSE mark(acc[i - 1], d, alerts_to_dedupe(d)[i])]

\* The loop has an accumulator for every number of rows.
LEMMA LoopRuns ==
    ASSUME NEW d, NEW n \in Nat
    PROVE  \E acc : Rounds(d, acc, n)
<1> DEFINE Bad == {m \in Nat : ~\E acc : Rounds(d, acc, m)}
<1> SUFFICES ASSUME Bad # {} PROVE FALSE
  OBVIOUS
<1>1. PICK m \in Bad : \A j \in Bad : m <= j
  BY LeastExists, Bad \in SUBSET Nat
<1>2. CASE m = 0
  <2> DEFINE acc == [i \in 0..0 |-> [store |-> expires_at, log |-> emitted]]
  <2>1. Rounds(d, acc, 0)
    BY DEF Rounds
  <2> QED BY <1>1, <1>2, <2>1
<1>3. CASE m # 0
  <2>1. m - 1 \in Nat /\ m - 1 \notin Bad
    BY <1>1, <1>3
  <2>2. PICK g : Rounds(d, g, m - 1)
    BY <2>1
  <2> DEFINE acc == [i \in 0..m |->
                        IF i = m THEN mark(g[m - 1], d, alerts_to_dedupe(d)[m]) ELSE g[i]]
             body(i) == IF i = 0 THEN [store |-> expires_at, log |-> emitted]
                        ELSE mark(acc[i - 1], d, alerts_to_dedupe(d)[i])
  <2>3. \A i \in 0..m : acc[i] = body(i)
    <3> TAKE i \in 0..m
    <3>1. CASE i = m
      BY <1>3, <2>1, <3>1
    <3>2. CASE i # m /\ i # 0
      <4>1. g[i] = mark(g[i - 1], d, alerts_to_dedupe(d)[i])
        BY <2>1, <2>2, <3>2 DEF Rounds
      <4> QED BY <2>1, <3>2, <4>1
    <3>3. CASE i # m /\ i = 0
      BY <2>1, <2>2, <3>3 DEF Rounds
    <3> QED BY <3>1, <3>2, <3>3
  <2>4. acc = [i \in 0..m |-> body(i)]
    BY <2>3
  <2>5. Rounds(d, acc, m)
    BY <2>4 DEF Rounds
  <2> QED BY <1>1, <2>5
<1> QED BY <1>2, <1>3

\* What dedupe returns is the accumulator after the last row.
LEMMA DedupeIsLoop ==
    ASSUME NEW d, Len(alerts_to_dedupe(d)) \in Nat
    PROVE  \E acc : /\ Rounds(d, acc, Len(alerts_to_dedupe(d)))
                    /\ dedupe(d) = acc[Len(alerts_to_dedupe(d))]
<1> DEFINE n == Len(alerts_to_dedupe(d))
           acc == CHOOSE g : g = [i \in 0..n |->
                    IF i = 0 THEN [store |-> expires_at, log |-> emitted]
                    ELSE mark(g[i - 1], d, alerts_to_dedupe(d)[i])]
<1>1. Rounds(d, acc, n)
  <2>1. \E g : g = [i \in 0..n |->
                    IF i = 0 THEN [store |-> expires_at, log |-> emitted]
                    ELSE mark(g[i - 1], d, alerts_to_dedupe(d)[i])]
    BY LoopRuns DEF Rounds
  <2> QED BY <2>1 DEF Rounds
<1>2. dedupe(d) = acc[n]
  BY DEF dedupe
<1> QED BY <1>1, <1>2

\* What is true of the accumulator at the end of a round: the invariant of
\* the dedupe, and that the log only grew.
RoundInv(a) ==
    /\ DedupeInv(a.store, a.log, now, boot)
    /\ Sourced(a.log)
    /\ \A m \in DOMAIN emitted : m \in DOMAIN a.log /\ a.log[m] = emitted[m]

\* One round keeps RoundInv and what was emitted, and afterwards the key of
\* the alert has been emitted, now or before.
LEMMA Round ==
    ASSUME now \in Nat, boot \in Nat, NEW d \in Deliveries, NEW i \in DOMAIN alerts_to_dedupe(d),
           NEW acc, RoundInv(acc)
    PROVE  LET alert == alerts_to_dedupe(d)[i]
               a == mark(acc, d, alert)
           IN  /\ RoundInv(a)
               /\ \A m \in DOMAIN acc.log : m \in DOMAIN a.log /\ a.log[m] = acc.log[m]
               /\ alert # None => KeyEmitted(a.log, d, alert)
<1> DEFINE alert == alerts_to_dedupe(d)[i]
           a == mark(acc, d, alert)
           e == emit_alert(d, alert)
           k == dedupe_key(d, alert)
           S == acc.store
           E == acc.log
<1>1. CASE alert = None
  <2>1. a = acc
    BY <1>1 DEF mark
  <2> HIDE DEF a, alert
  <2> QED BY <1>1, <2>1 DEF a, alert
<1>2. CASE alert # None
  <2>1. a.store = mark_if_new(S, k, now, Len(E) + 1) /\ a.log = IF IsNew(S, k, now) THEN Append(E, e) ELSE E
    BY <1>2 DEF mark
  <2>2. KeyOf(e) = k
    BY DEF KeyOf, emit_alert, dedupe_key
  <2>3. /\ e \in Emission /\ e.at = now /\ e.boot = boot
        /\ e.event = d.event_id /\ e.alert = alert
    <3>1. alert \in UNION {AlertsOf(x) : x \in Deliveries}
      BY DEF AlertsOf
    <3>2. d.event_id \in STRING
      BY AlertsListed
    <3> HIDE DEF alert
    <3> QED BY <3>1, <3>2 DEF Emission, emit_alert
  <2>4. DedupeInv(S, E, now, boot) /\ Sourced(E) /\ E \in Seq(Emission)
    BY DEF RoundInv, DedupeInv, LogOrdered
  <2>5. \A m \in DOMAIN emitted : m \in DOMAIN E /\ E[m] = emitted[m]
    BY DEF RoundInv
  <2>6. i \in DOMAIN alerts_to_dedupe(d) /\ alert = alerts_to_dedupe(d)[i]
    OBVIOUS
  <2> HIDE DEF a, e, k, S, E, alert
  <2>7. CASE IsNew(S, k, now)
    <3>1. DedupeInv(a.store, a.log, now, boot) /\ a.log = Append(E, e)
      BY <2>1, <2>2, <2>3, <2>4, <2>7, MarkNew
    <3>2. /\ DOMAIN a.log = 1..(Len(E) + 1) /\ DOMAIN E = 1..Len(E) /\ Len(E) \in Nat
          /\ a.log[Len(E) + 1] = e
          /\ \A m \in DOMAIN E : m \in DOMAIN a.log /\ a.log[m] = E[m]
      BY <2>3, <2>4, <3>1
    <3>3. Sourced(a.log)
      <4>1. \A m \in DOMAIN a.log : m = Len(E) + 1 \/ m \in DOMAIN E
        BY <3>2
      <4>2. ASSUME NEW m \in DOMAIN a.log
            PROVE  \E x \in Deliveries : \E j \in DOMAIN alerts_to_dedupe(x) :
                      /\ alerts_to_dedupe(x)[j] # None
                      /\ a.log[m].event = x.event_id /\ a.log[m].alert = alerts_to_dedupe(x)[j]
        <5>1. CASE m = Len(E) + 1
          BY <1>2, <2>3, <2>6, <3>2, <5>1
        <5>2. CASE m \in DOMAIN E
          BY <2>4, <3>2, <5>2 DEF Sourced
        <5> QED BY <4>1, <5>1, <5>2
      <4> QED BY <4>2 DEF Sourced
    <3>4. KeyEmitted(a.log, d, alert)
      <4>1. Len(E) + 1 \in DOMAIN a.log
        BY <3>2
      <4> QED BY <2>2, <3>2, <4>1 DEF KeyEmitted, k
    <3>5. RoundInv(a)
      BY <2>5, <3>1, <3>2, <3>3 DEF RoundInv
    <3> QED BY <3>2, <3>4, <3>5 DEF a, E, alert
  <2>8. CASE ~IsNew(S, k, now)
    <3>1. a.store = _purge_expired(S, now) /\ a.log = E
      BY <2>1, <2>8 DEF mark_if_new
    <3>2. DedupeInv(a.store, a.log, now, boot)
      BY <2>4, <3>1, PurgeKeeps
    <3>3. KeyEmitted(a.log, d, alert)
      <4>1. k \in DOMAIN S
        BY <2>8 DEF IsNew, _purge_expired
      <4>2. S[k].inserted \in DOMAIN E /\ KeyOf(E[S[k].inserted]) = k
        BY <2>4, <4>1 DEF DedupeInv, Backed
      <4> QED BY <3>1, <4>2 DEF KeyEmitted, k
    <3>4. RoundInv(a)
      BY <2>4, <2>5, <3>1, <3>2 DEF RoundInv
    <3> QED BY <3>1, <3>3, <3>4 DEF a, E, alert
  <2> QED BY <2>7, <2>8
<1> QED BY <1>1, <1>2

\* A whole delivery keeps RoundInv, and afterwards the key of every alert of
\* it has been emitted.
LEMMA DeliveryDeduped ==
    ASSUME now \in Nat, boot \in Nat, DedupeInv(expires_at, emitted, now, boot), Sourced(emitted),
           NEW d \in Deliveries
    PROVE  /\ RoundInv(dedupe(d))
           /\ \A i \in DOMAIN alerts_to_dedupe(d) :
                alerts_to_dedupe(d)[i] # None => KeyEmitted(dedupe(d).log, d, alerts_to_dedupe(d)[i])
<1> DEFINE alerts == alerts_to_dedupe(d)
           n == Len(alerts)
<1>1. n \in Nat /\ DOMAIN alerts = 1..n
  BY AlertsListed
<1>2. PICK acc : Rounds(d, acc, n) /\ dedupe(d) = acc[n]
  BY <1>1, DedupeIsLoop
<1> DEFINE Good(i) == /\ RoundInv(acc[i])
                      /\ \A j \in 1..i : alerts[j] # None => KeyEmitted(acc[i].log, d, alerts[j])
           Bad == {i \in 0..n : ~Good(i)}
<1> HIDE DEF alerts, n
<1>3. Bad = {}
  <2> SUFFICES ASSUME Bad # {} PROVE FALSE
    OBVIOUS
  <2>1. PICK i \in Bad : \A j \in Bad : i <= j
    <3>1. Bad \in SUBSET Nat
      BY <1>1
    <3> HIDE DEF Bad
    <3> QED BY <3>1, LeastExists
  <2>2. CASE i = 0
    <3>1. acc[0] = [store |-> expires_at, log |-> emitted]
      BY <1>1, <1>2 DEF Rounds
    <3>2. RoundInv(acc[0])
      BY <3>1 DEF RoundInv
    <3> QED BY <2>1, <2>2, <3>2
  <2>3. CASE i # 0
    <3>1. i \in 1..n /\ i - 1 \in 0..n /\ i - 1 \notin Bad
      BY <1>1, <2>1, <2>3
    <3>2. Good(i - 1)
      BY <3>1
    <3>3. acc[i] = mark(acc[i - 1], d, alerts[i])
      BY <1>1, <1>2, <2>3, <3>1 DEF Rounds, alerts
    <3>4. /\ RoundInv(acc[i])
          /\ \A m \in DOMAIN acc[i - 1].log : m \in DOMAIN acc[i].log /\ acc[i].log[m] = acc[i - 1].log[m]
          /\ alerts[i] # None => KeyEmitted(acc[i].log, d, alerts[i])
      BY <1>1, <3>1, <3>2, <3>3, Round DEF alerts
    <3>5. ASSUME NEW j \in 1..i, alerts[j] # None
          PROVE  KeyEmitted(acc[i].log, d, alerts[j])
      <4>1. CASE j = i
        BY <3>4, <3>5, <4>1
      <4>2. CASE j # i
        <5>1. j \in 1..(i - 1)
          BY <3>1, <4>2
        <5>2. KeyEmitted(acc[i - 1].log, d, alerts[j])
          BY <3>2, <3>5, <5>1
        <5> QED BY <3>4, <5>2 DEF KeyEmitted
      <4> QED BY <4>1, <4>2
    <3>6. Good(i)
      BY <3>4, <3>5
    <3> QED BY <2>1, <3>6
  <2> QED BY <2>2, <2>3
<1>4. Good(n)
  BY <1>1, <1>3
<1> QED BY <1>1, <1>2, <1>4 DEF alerts

-----------------------------------------------------------------------------
(* The handler.                                                            *)

\* The webhook starts with an empty store and an empty log.
LEMMA WebhookStarts == Init => WebhookInv
<1> SUFFICES ASSUME Init PROVE WebhookInv
  OBVIOUS
<1>1. DOMAIN expires_at = {} /\ emitted = <<>> /\ now = 0 /\ boot = 0 /\ accepted = {}
  BY DEF Init
<1>2. Bounded(expires_at)
  BY <1>1, FS_EmptySet, WebhookAssumption DEF Bounded
<1>3. DOMAIN emitted = {} /\ emitted \in Seq(Emission)
  BY <1>1
<1>4. DedupeInv(expires_at, emitted, now, boot)
  BY <1>1, <1>2, <1>3 DEF DedupeInv, LogOrdered, Backed, Justified
<1> QED BY <1>1, <1>3, <1>4 DEF WebhookInv, Sourced

\* Every step keeps the invariant: a delivery by DeliveryDeduped; as time
\* passes more emissions are expired, and a restart forgets them all.
LEMMA WebhookStep == WebhookInv /\ [Next]_vars => WebhookInv'
<1> SUFFICES ASSUME WebhookInv, [Next]_vars PROVE WebhookInv'
  OBVIOUS
<1>0. /\ now \in Nat /\ boot \in Nat
      /\ DedupeInv(expires_at, emitted, now, boot) /\ Sourced(emitted) /\ accepted \subseteq Deliveries
      /\ \A d \in accepted : ~skipped(d) =>
            \A i \in DOMAIN alerts_to_dedupe(d) :
                alerts_to_dedupe(d)[i] # None => KeyEmitted(emitted, d, alerts_to_dedupe(d)[i])
  BY DEF WebhookInv
<1>1. ASSUME NEW d \in Deliveries, alchemy_address_activity_webhook(d) PROVE WebhookInv'
  <2>1. PICK source \in KeySources :
          LET runs == http_status(d, source) = 200 /\ ~skipped(d)
          IN  /\ expires_at' = IF runs THEN dedupe(d).store ELSE expires_at
              /\ emitted' = IF runs THEN dedupe(d).log ELSE emitted
              /\ accepted' = IF http_status(d, source) = 200 THEN accepted \cup {d} ELSE accepted
    BY <1>1 DEF alchemy_address_activity_webhook
  <2>2. now' = now /\ boot' = boot
    BY <1>1 DEF alchemy_address_activity_webhook
  <2>3. CASE ~(http_status(d, source) = 200 /\ ~skipped(d))
    <3>1. expires_at' = expires_at /\ emitted' = emitted
      BY <2>1, <2>3
    <3>2. \A x \in accepted' : x \in Deliveries /\ (~skipped(x) => x \in accepted)
      BY <1>0, <1>1, <2>1, <2>3
    <3>3. DedupeInv(expires_at, emitted, now, boot)' /\ Sourced(emitted)'
      BY <1>0, <2>2, <3>1
    <3> QED BY <1>0, <2>2, <3>1, <3>2, <3>3 DEF WebhookInv
  <2>4. CASE http_status(d, source) = 200 /\ ~skipped(d)
    <3> DEFINE a == dedupe(d)
    <3>1. expires_at' = a.store /\ emitted' = a.log /\ accepted' = accepted \cup {d}
      BY <2>1, <2>4
    <3>2. RoundInv(a) /\ \A i \in DOMAIN alerts_to_dedupe(d) :
              alerts_to_dedupe(d)[i] # None => KeyEmitted(a.log, d, alerts_to_dedupe(d)[i])
      BY <1>0, DeliveryDeduped
    <3> HIDE DEF a
    <3>3. PICK S, E : S = a.store /\ E = a.log /\ S = expires_at' /\ E = emitted'
      BY <3>1
    <3>4. PICK t \in Nat, b \in Nat : t = now /\ b = boot /\ t = now' /\ b = boot'
      BY <1>0, <2>2
    <3>5. DedupeInv(S, E, t, b) /\ Sourced(E)
      BY <3>2, <3>3, <3>4 DEF RoundInv
    <3>6. DedupeInv(expires_at, emitted, now, boot)' /\ Sourced(emitted)'
      BY <3>3, <3>4, <3>5
    <3>7. \A m \in DOMAIN emitted : m \in DOMAIN E /\ E[m] = emitted[m]
      BY <3>2, <3>3 DEF RoundInv
    <3>8. ASSUME NEW x \in accepted \cup {d}, ~skipped(x),
                 NEW i \in DOMAIN alerts_to_dedupe(x), alerts_to_dedupe(x)[i] # None
          PROVE  KeyEmitted(E, x, alerts_to_dedupe(x)[i])
      <4>1. CASE x = d
        BY <3>2, <3>3, <3>8, <4>1
      <4>2. CASE x \in accepted
        <5>1. KeyEmitted(emitted, x, alerts_to_dedupe(x)[i])
          BY <1>0, <3>8, <4>2
        <5> QED BY <3>7, <5>1 DEF KeyEmitted
      <4> QED BY <4>1, <4>2
    <3>9. accepted \cup {d} \subseteq Deliveries
      BY <1>0
    <3> QED BY <3>1, <3>3, <3>4, <3>6, <3>8, <3>9 DEF WebhookInv
  <2> QED BY <2>3, <2>4
<1>2. CASE Tick
  <2>1. /\ now' = now + 1 /\ boot' = boot /\ expires_at' = expires_at
        /\ emitted' = emitted /\ accepted' = accepted
    BY <1>2 DEF Tick
  <2>2. DedupeInv(expires_at, emitted, now + 1, boot)
    <3>1. \A m \in DOMAIN emitted : emitted[m].at \in Nat
      <4>1. \A m \in DOMAIN emitted : emitted[m] \in Emission
        BY <1>0 DEF DedupeInv, LogOrdered
      <4> QED BY <4>1 DEF Emission
    <3>2. LogOrdered(emitted, now + 1, boot)
      BY <1>0, <3>1 DEF DedupeInv, LogOrdered
    <3>3. \A m \in DOMAIN emitted : Forgotten(emitted, m, now, boot) => Forgotten(emitted, m, now + 1, boot)
      BY <1>0, <3>1, WebhookAssumption DEF Forgotten
    <3> QED BY <1>0, <3>2, <3>3 DEF DedupeInv
  <2>3. now + 1 \in Nat
    BY <1>0
  <2>4. PICK t \in Nat : t = now + 1 /\ t = now'
    BY <2>1, <2>3
  <2>5. DedupeInv(expires_at, emitted, t, boot)
    BY <2>2, <2>4
  <2>6. DedupeInv(expires_at, emitted, now, boot)' /\ Sourced(emitted)'
    BY <1>0, <2>1, <2>4, <2>5
  <2> QED BY <1>0, <2>1, <2>4, <2>6 DEF WebhookInv
<1>3. CASE Restart
  <2>1. /\ now' = now /\ boot' = boot + 1 /\ expires_at' = <<>>
        /\ emitted' = emitted /\ accepted' = accepted
    BY <1>3 DEF Restart
  <2>2. PICK b \in Nat, S \in {<<>>} : b = boot + 1 /\ b = boot' /\ S = <<>> /\ S = expires_at'
    BY <1>0, <2>1
  <2>3. DedupeInv(S, emitted, now, b)
    <3>1. \A m \in DOMAIN emitted : emitted[m].boot \in Nat /\ emitted[m].boot <= boot
      <4>1. \A m \in DOMAIN emitted : emitted[m] \in Emission /\ emitted[m].boot <= boot
        BY <1>0 DEF DedupeInv, LogOrdered
      <4> QED BY <4>1 DEF Emission
    <3>2. LogOrdered(emitted, now, b)
      BY <1>0, <2>2, <3>1 DEF DedupeInv, LogOrdered
    <3>3. \A m \in DOMAIN emitted : Forgotten(emitted, m, now, b)
      BY <1>0, <2>2, <3>1 DEF Forgotten
    <3>4. DOMAIN S = {}
      BY <2>2
    <3>5. Bounded(S) /\ Backed(S, emitted, b)
      BY <3>4, FS_EmptySet, WebhookAssumption DEF Bounded, Backed
    <3> QED BY <1>0, <3>2, <3>3, <3>5 DEF DedupeInv
  <2>4. DedupeInv(expires_at, emitted, now, boot)' /\ Sourced(emitted)'
    BY <1>0, <2>1, <2>2, <2>3
  <2> QED BY <1>0, <2>1, <2>2, <2>4 DEF WebhookInv
<1>4. CASE UNCHANGED vars
  <2>1. UNCHANGED <<expires_at, emitted, now, boot, accepted>>
    BY <1>4 DEF vars
  <2>2. DedupeInv(expires_at, emitted, now, boot)' /\ Sourced(emitted)'
    BY <1>0, <2>1
  <2> QED BY <1>0, <2>1, <2>2 DEF WebhookInv
<1> QED BY <1>1, <1>2, <1>3, <1>4 DEF Next

\* The invariant holds in every reachable state.
LEMMA WebhookInvariant == Spec => []WebhookInv
BY WebhookStarts, WebhookStep, PTL DEF Spec

\* An alert is emitted a second time only after its TTL, after a restart, or
\* when max_entries other alerts were emitted in between, for every stream
\* of deliveries and every size of the store: neither the purge nor the
\* eviction of mark_if_new forgets a key earlier.
THEOREM RememberedLongEnough == Spec => []ReemittedOnlyWhenForgotten
<1>1. WebhookInv => ReemittedOnlyWhenForgotten
  BY DEF WebhookInv, DedupeInv, Justified, ReemittedOnlyWhenForgotten, SameAlert, Between
<1> QED BY <1>1, WebhookInvariant, PTL

\* The store never holds more than max_entries keys, and its insertions are
\* in the order of their deadlines, for every stream of deliveries.
THEOREM StoreForgetsByAge == Spec => []StoreIsBoundedAndOrdered
<1>1. WebhookInv => StoreIsBoundedAndOrdered
  <2> SUFFICES ASSUME WebhookInv PROVE StoreIsBoundedAndOrdered
    OBVIOUS
  <2>1. /\ LogOrdered(emitted, now, boot) /\ Backed(expires_at, emitted, boot) /\ Bounded(expires_at)
        /\ now \in Nat /\ boot \in Nat
    BY DEF WebhookInv, DedupeInv
  <2>2. ASSUME NEW j \in DOMAIN expires_at, NEW k \in DOMAIN expires_at, j # k
        PROVE  /\ expires_at[j].inserted # expires_at[k].inserted
               /\ expires_at[j].inserted < expires_at[k].inserted
                      => expires_at[j].deadline <= expires_at[k].deadline
    BY <2>1, <2>2, EntriesOrdered
  <2> QED BY <2>1, <2>2 DEF StoreIsBoundedAndOrdered, Bounded
<1> QED BY <1>1, WebhookInvariant, PTL

\* If a dedupe key names one alert, every row that an accepted delivery
\* carries for its watch list has been emitted, whatever was delivered
\* before it and however the watch lists of the deliveries differ.
THEOREM NothingSwallowed ==
    ASSUME KeysNameAlerts
    PROVE  Spec => []AcceptedIsEmitted
<1>1. WebhookInv => AcceptedIsEmitted
  <2> SUFFICES ASSUME WebhookInv, NEW d \in accepted, ~skipped(d),
                      NEW i \in DOMAIN alerts_to_dedupe(d), alerts_to_dedupe(d)[i] # None
               PROVE  \E m \in DOMAIN emitted : /\ emitted[m].event = d.event_id
                                                /\ emitted[m].alert = alerts_to_dedupe(d)[i]
    BY DEF AcceptedIsEmitted
  <2> DEFINE alert == alerts_to_dedupe(d)[i]
  <2>1. d \in Deliveries /\ KeyEmitted(emitted, d, alert)
    BY DEF WebhookInv
  <2>2. PICK m \in DOMAIN emitted : KeyOf(emitted[m]) = dedupe_key(d, alert)
    BY <2>1 DEF KeyEmitted
  <2>3. PICK x \in Deliveries : \E j \in DOMAIN alerts_to_dedupe(x) :
          /\ alerts_to_dedupe(x)[j] # None
          /\ emitted[m].event = x.event_id /\ emitted[m].alert = alerts_to_dedupe(x)[j]
    BY DEF WebhookInv, Sourced
  <2>4. PICK j \in DOMAIN alerts_to_dedupe(x) :
          /\ alerts_to_dedupe(x)[j] # None
          /\ emitted[m].event = x.event_id /\ emitted[m].alert = alerts_to_dedupe(x)[j]
    BY <2>3
  <2>5. dedupe_key(x, alerts_to_dedupe(x)[j]) = dedupe_key(d, alert)
    BY <2>2, <2>4 DEF KeyOf, dedupe_key
  <2>6. alerts_to_dedupe(x)[j] = alert
    BY <2>1, <2>4, <2>5 DEF KeysNameAlerts
  <2>7. emitted[m].event = d.event_id
    BY <2>2 DEF KeyOf, dedupe_key
  <2> QED BY <2>4, <2>6, <2>7
<1> QED BY <1>1, WebhookInvariant, PTL

-----------------------------------------------------------------------------
(* The transfer history.  A page and a merge both list the first elements  *)
(* in an order, so what is ahead of the last one listed is listed too.     *)

\* R orders the elements of I one after the other.
Orders(R, I) ==
    /\ \A i \in I : <<i, i>> \notin R
    /\ \A i, j \in I : i # j => <<i, j>> \in R \/ <<j, i>> \in R
    /\ \A i, j, k \in I : <<i, j>> \in R /\ <<j, k>> \in R => <<i, k>> \in R

Ahead(I, R, i) == {j \in I : <<j, i>> \in R}

\* What comes first has fewer elements ahead of it, and every number of
\* elements up to the size of I is ahead of one element.
LEMMA Ranks ==
    ASSUME NEW I, NEW R, IsFiniteSet(I), Orders(R, I)
    PROVE  /\ Cardinality(I) \in Nat
           /\ \A i \in I : Cardinality(Ahead(I, R, i)) \in 0..(Cardinality(I) - 1)
           /\ \A i, j \in I :
                 <<i, j>> \in R => Cardinality(Ahead(I, R, i)) < Cardinality(Ahead(I, R, j))
           /\ \A i, j \in I :
                 Cardinality(Ahead(I, R, i)) = Cardinality(Ahead(I, R, j)) => i = j
           /\ \A n \in 0..(Cardinality(I) - 1) : \E i \in I : Cardinality(Ahead(I, R, i)) = n
<1> DEFINE ahead(i) == Ahead(I, R, i)
           rank(i) == Cardinality(ahead(i))
           size == Cardinality(I)
<1>1. size \in Nat
  BY FS_CardinalityType
<1>2. \A i \in I : ahead(i) \in SUBSET I /\ i \notin ahead(i)
  BY DEF Orders, Ahead
<1>3. \A i \in I : IsFiniteSet(ahead(i)) /\ rank(i) \in Nat
  <2> TAKE i \in I
  <2> QED BY <1>2, FS_Subset, FS_CardinalityType
<1>4. ASSUME NEW S, NEW T, IsFiniteSet(T), S \in SUBSET T, S # T
      PROVE  Cardinality(S) < Cardinality(T)
  <2>1. IsFiniteSet(S) /\ Cardinality(S) <= Cardinality(T) /\ Cardinality(S) # Cardinality(T)
    BY <1>4, FS_Subset
  <2>2. Cardinality(S) \in Nat /\ Cardinality(T) \in Nat
    BY <1>4, <2>1, FS_CardinalityType
  <2> QED BY <2>1, <2>2
<1>5. \A i \in I : rank(i) \in 0..(size - 1)
  <2> TAKE i \in I
  <2>1. ahead(i) \in SUBSET I /\ ahead(i) # I
    BY <1>2
  <2>2. rank(i) < size
    BY <1>4, <2>1
  <2> QED BY <1>1, <1>3, <2>2
<1>6. \A i, j \in I : <<i, j>> \in R => rank(i) < rank(j)
  <2> TAKE i, j \in I
  <2> HAVE <<i, j>> \in R
  <2>1. ahead(i) \in SUBSET ahead(j) /\ i \in ahead(j) /\ i \notin ahead(i)
    BY <1>2 DEF Orders, Ahead
  <2> QED BY <1>3, <1>4, <2>1
<1>7. \A i, j \in I : rank(i) = rank(j) => i = j
  <2> TAKE i, j \in I
  <2>1. i # j => rank(i) < rank(j) \/ rank(j) < rank(i)
    BY <1>6 DEF Orders
  <2> QED BY <1>3, <2>1
<1>8. \A n \in 0..(size - 1) : \E i \in I : rank(i) = n
  <2> DEFINE T == 0..(size - 1)
             f == [i \in I |-> rank(i)]
  <2>1. IsFiniteSet(T) /\ Cardinality(T) = size
    <3>1. /\ IsFiniteSet(T)
          /\ Cardinality(T) = IF 0 > size - 1 THEN 0 ELSE (size - 1) - 0 + 1
      BY <1>1, FS_Interval, 0 \in Int, size - 1 \in Int
    <3> HIDE DEF T
    <3> QED BY <1>1, <3>1
  <2>2. f \in Injection(I, T)
    <3> HIDE DEF rank, T
    <3>1. f \in [I -> T]
      BY <1>5 DEF T
    <3>2. \A i, j \in I : f[i] = f[j] => i = j
      BY <1>7
    <3> HIDE DEF f
    <3> QED BY <3>1, <3>2 DEF Injection, IsInjective
  <2>3. f \in Surjection(I, T)
    <3> HIDE DEF f, T
    <3> QED BY <2>1, <2>2, FS_Injection
  <2>4. \A n \in T : \E i \in I : f[i] = n
    <3> HIDE DEF f, T
    <3> QED BY <2>3 DEF Surjection
  <2> HIDE DEF rank
  <2> QED BY <2>4
<1> QED BY <1>1, <1>5, <1>6, <1>7, <1>8

\* A list of at most n elements holds all of them, or all that come before
\* its last one.
LEMMA Lists ==
    ASSUME NEW I, NEW R, IsFiniteSet(I), Orders(R, I), NEW n \in Nat \ {0}
    PROVE  LET L == Listing(I, R, n)
           IN  /\ L \in Seq(I) /\ Len(L) <= n
               /\ Len(L) < n => \A i \in I : \E m \in 1..Len(L) : L[m] = i
               /\ Len(L) = n => \A i \in I : <<i, L[n]>> \in R => \E m \in 1..Len(L) : L[m] = i
<1> DEFINE rank(i) == Cardinality(Ahead(I, R, i))
           size == Cardinality(I)
           len == IF n < size THEN n ELSE size
           L == [m \in 1..len |-> CHOOSE i \in I : rank(i) = m - 1]
<1>1. Listing(I, R, n) = L
  BY DEF Listing, Ahead
<1>2. /\ size \in Nat
      /\ \A i \in I : rank(i) \in 0..(size - 1)
      /\ \A i, j \in I : <<i, j>> \in R => rank(i) < rank(j)
      /\ \A i, j \in I : rank(i) = rank(j) => i = j
      /\ \A m \in 0..(size - 1) : \E i \in I : rank(i) = m
  BY Ranks
<1> HIDE DEF rank, size
<1>3. len \in Nat /\ len <= n /\ len <= size /\ (len < n => len = size)
  BY <1>2
<1> HIDE DEF len
<1>4. \A m \in 1..len : L[m] \in I /\ rank(L[m]) = m - 1
  <2> TAKE m \in 1..len
  <2>1. \E i \in I : rank(i) = m - 1
    <3>1. m - 1 \in 0..(size - 1)
      BY <1>2, <1>3
    <3> QED BY <1>2, <3>1
  <2>2. L[m] = CHOOSE i \in I : rank(i) = m - 1
    OBVIOUS
  <2> HIDE DEF L
  <2> QED BY <2>1, <2>2
<1>5. L \in Seq(I) /\ Len(L) = len
  <2>1. L \in [1..len -> I]
    BY <1>4
  <2> HIDE DEF L
  <2> QED BY <1>3, <2>1
<1> HIDE DEF L
<1>6. \A i \in I : rank(i) < len => \E m \in 1..len : L[m] = i
  <2> TAKE i \in I
  <2> HAVE rank(i) < len
  <2>1. rank(i) + 1 \in 1..len /\ rank(i) = (rank(i) + 1) - 1
    BY <1>2, <1>3
  <2>2. L[rank(i) + 1] = i
    BY <1>2, <1>4, <2>1
  <2> QED BY <2>1, <2>2
<1>7. len < n => \A i \in I : \E m \in 1..len : L[m] = i
  BY <1>2, <1>3, <1>6
<1>8. len = n => \A i \in I : <<i, L[n]>> \in R => \E m \in 1..len : L[m] = i
  <2> SUFFICES ASSUME len = n, NEW i \in I, <<i, L[n]>> \in R PROVE \E m \in 1..len : L[m] = i
    OBVIOUS
  <2>1. n \in 1..len
    BY <1>3
  <2>2. L[n] \in I /\ rank(L[n]) = n - 1
    BY <1>4, <2>1
  <2>3. rank(i) < n - 1 /\ rank(i) \in Nat
    BY <1>2, <2>2
  <2> QED BY <1>6, <2>3
<1> QED BY <1>1, <1>3, <1>5, <1>7, <1>8

-----------------------------------------------------------------------------
(* Pages and merges.                                                       *)

\* The history: blocks in order, a transaction in one block.
Ordered(h) ==
    /\ h \in Seq(TransferRow)
    /\ \A i, j \in 1..Len(h) : i <= j => h[i].block <= h[j].block
    /\ \A i \in 1..Len(h) : h[i].hash <= Len(h)
    /\ \A i, j \in 1..Len(h) : h[i].hash # NoHash /\ h[i].hash = h[j].hash =>
                                  h[i].block = h[j].block

OneBlockPerHash(rows) ==
    \A i, j \in 1..Len(rows) : rows[i].hash # NoHash /\ rows[i].hash = rows[j].hash =>
                                  rows[i].block = rows[j].block

\* Rows of a list are rows of what is listed.
LEMMA RowsListed ==
    ASSUME NEW S, NEW rows \in Seq(S), NEW L \in Seq(1..Len(rows))
    PROVE  /\ Rows(rows, L) \in Seq(S) /\ Len(Rows(rows, L)) = Len(L)
           /\ \A m \in 1..Len(L) : Rows(rows, L)[m] = rows[L[m]]
<1> DEFINE Q == Rows(rows, L)
<1>1. Len(L) \in Nat /\ DOMAIN L = 1..Len(L) /\ \A m \in 1..Len(L) : L[m] \in 1..Len(rows)
  OBVIOUS
<1>2. \A m \in 1..Len(L) : rows[L[m]] \in S
  BY <1>1
<1>3. Q = [m \in 1..Len(L) |-> rows[L[m]]]
  BY <1>1 DEF Rows
<1>4. \A m \in 1..Len(L) : Q[m] = rows[L[m]]
  BY <1>3
<1>5. Q \in [1..Len(L) -> S]
  BY <1>2, <1>3
<1> HIDE DEF Q
<1>6. Q \in Seq(S) /\ Len(Q) = Len(L)
  BY <1>1, <1>5
<1> QED BY <1>4, <1>6 DEF Q

\* A page holds every row of its leg below the key that is newer than its
\* last row, and all of them if it is not full.
LEMMA PageComplete ==
    ASSUME Ordered(history), NEW leg \in Legs, NEW key \in 0..Len(history), NEW n \in Nat \ {0}
    PROVE  LET P == Page(leg, key, n)
           IN  /\ P \in Seq(TransferRow) /\ Len(P) <= n
               /\ \A m \in 1..Len(P) : \E x \in 1..Len(history) : P[m] = history[x]
               /\ \A i \in 1..Below(key) :
                     /\ leg \in history[i].legs
                     /\ Len(P) = n => history[i].block > P[Len(P)].block
                     => \E m \in 1..Len(P) : P[m] = history[i]
<1> DEFINE I == LegRows(leg, key)
           R == NewestFirst(I)
           L == Listing(I, R, n)
           P == Page(leg, key, n)
<1>1. /\ history \in Seq(TransferRow) /\ Len(history) \in Nat
      /\ \A i \in 1..Len(history) : history[i].block \in Nat
  <2>1. history \in Seq(TransferRow)
    BY DEF Ordered
  <2>2. \A i \in 1..Len(history) : history[i] \in TransferRow
    BY <2>1
  <2>3. \A row \in TransferRow : row.block \in Nat
    BY DEF TransferRow
  <2> QED BY <2>1, <2>2, <2>3
<1>2. Below(key) \in 0..Len(history)
  BY <1>1 DEF Below
<1>3. I \in SUBSET (1..Len(history)) /\ IsFiniteSet(I)
  <2>1. I \in SUBSET (1..Len(history))
    BY <1>1, <1>2 DEF LegRows
  <2>2. IsFiniteSet(1..Len(history))
    BY <1>1, FS_Interval, 1 \in Int, Len(history) \in Int
  <2> QED BY <2>1, <2>2, FS_Subset
<1>4. \A i, j \in I : <<i, j>> \in R <=> i > j
  BY DEF NewestFirst
<1> HIDE DEF R
<1>5. Orders(R, I)
  <2>1. \A i \in I : i \in Nat
    BY <1>1, <1>3
  <2> QED BY <1>4, <2>1 DEF Orders
<1>6. /\ L \in Seq(I) /\ Len(L) <= n
      /\ Len(L) < n => \A i \in I : \E m \in 1..Len(L) : L[m] = i
      /\ Len(L) = n => \A i \in I : <<i, L[n]>> \in R => \E m \in 1..Len(L) : L[m] = i
  <2> HIDE DEF I
  <2> QED BY <1>3, <1>5, Lists
<1>7. \A i \in 1..Below(key) : leg \in history[i].legs => i \in I
  BY DEF LegRows
<1>8. P = Rows(history, L)
  BY DEF Page, R
<1> HIDE DEF I, L, P
<1>9. L \in Seq(1..Len(history)) /\ \A m \in 1..Len(L) : L[m] \in I
  <2>1. L \in [1..Len(L) -> I] /\ Len(L) \in Nat
    BY <1>6
  <2>2. L \in [1..Len(L) -> 1..Len(history)]
    BY <1>3, <2>1
  <2> QED BY <2>1, <2>2
<1>10. /\ P \in Seq(TransferRow) /\ Len(P) = Len(L)
       /\ \A m \in 1..Len(L) : P[m] = history[L[m]]
  BY <1>1, <1>8, <1>9, RowsListed
<1>11. \A m \in 1..Len(P) : \E x \in 1..Len(history) : P[m] = history[x]
  BY <1>3, <1>9, <1>10
<1>12. ASSUME NEW i \in 1..Below(key), leg \in history[i].legs,
              Len(P) = n => history[i].block > P[Len(P)].block
       PROVE  \E m \in 1..Len(P) : P[m] = history[i]
  <2>1. i \in I /\ Len(L) \in Nat
    BY <1>6, <1>7, <1>12
  <2>2. \E m \in 1..Len(L) : L[m] = i
    <3>1. CASE Len(L) < n
      BY <1>6, <2>1, <3>1
    <3>2. CASE Len(L) = n
      <4>1. n \in 1..Len(L) /\ L[n] \in I
        BY <1>9, <3>2
      <4>2. history[i].block > history[L[n]].block
        BY <1>10, <1>12, <3>2, <4>1
      <4>3. ~(i <= L[n])
        <5>1. i \in 1..Len(history) /\ L[n] \in 1..Len(history)
          BY <1>3, <2>1, <4>1
        <5>2. i <= L[n] => history[i].block <= history[L[n]].block
          BY <5>1 DEF Ordered
        <5>3. history[i].block \in Nat /\ history[L[n]].block \in Nat
          BY <1>1, <5>1
        <5> QED BY <4>2, <5>2, <5>3
      <4>4. i > L[n]
        <5>1. i \in Nat /\ L[n] \in Nat
          BY <1>1, <1>3, <2>1, <4>1, \A x \in 1..Len(history) : x \in Nat
        <5> QED BY <4>3, <5>1
      <4> QED BY <1>4, <1>6, <2>1, <3>2, <4>1, <4>4
    <3> QED BY <1>6, <2>1, <3>1, <3>2
  <2> QED BY <1>10, <2>2
<1>13. Len(P) <= n
  BY <1>6, <1>10
<1> QED BY <1>10, <1>11, <1>12, <1>13 DEF P

\* Dropping duplicates keeps one row of every hash, of the block of that hash.
LEMMA UniqueKeeps ==
    ASSUME NEW rows \in Seq(TransferRow), OneBlockPerHash(rows), NEW p \in 1..Len(rows)
    PROVE  \E q \in unique(rows) : rows[q].hash = rows[p].hash /\ rows[q].block = rows[p].block
<1>1. DOMAIN rows = 1..Len(rows) /\ Len(rows) \in Nat
  OBVIOUS
<1>2. CASE rows[p].hash = NoHash
  BY <1>1, <1>2 DEF unique
<1>3. CASE rows[p].hash # NoHash
  <2> DEFINE Q == {q \in 1..Len(rows) : rows[q].hash = rows[p].hash}
  <2>1. Q \in SUBSET Nat /\ p \in Q
    BY <1>1
  <2>2. PICK q \in Q : \A j \in Q : q <= j
    <3> HIDE DEF Q
    <3> QED BY <2>1, LeastExists
  <2>3. q \in 1..Len(rows) /\ rows[q].hash = rows[p].hash
    BY <2>2
  <2>4. \A j \in 1..(q - 1) : rows[j].hash # rows[p].hash
    <3> TAKE j \in 1..(q - 1)
    <3>1. j \in 1..Len(rows) /\ ~(q <= j)
      BY <1>1, <2>3
    <3> QED BY <2>2, <3>1
  <2>5. q \in unique(rows)
    BY <1>1, <2>3, <2>4 DEF unique
  <2>6. rows[q].block = rows[p].block
    BY <1>3, <2>3 DEF OneBlockPerHash
  <2> QED BY <2>3, <2>5, <2>6
<1> QED BY <1>2, <1>3

\* The stable sort puts the rows one after the other.
LEMMA SortOrders ==
    ASSUME NEW rows \in Seq(TransferRow), NEW I \in SUBSET (1..Len(rows))
    PROVE  /\ Orders(Sorted(rows, I), I)
           /\ \A i, j \in I : rows[i].block > rows[j].block => <<i, j>> \in Sorted(rows, I)
<1> DEFINE R == Sorted(rows, I)
<1>1. \A i \in I : i \in Nat /\ rows[i].block \in Nat /\ rows[i].hash \in Nat
  <2> TAKE i \in I
  <2>1. i \in 1..Len(rows) /\ Len(rows) \in Nat
    OBVIOUS
  <2>2. rows[i] \in TransferRow
    BY <2>1
  <2> QED BY <2>1, <2>2 DEF TransferRow
<1>2. \A i, j \in I : <<i, j>> \in R <=>
          \/ rows[i].block > rows[j].block
          \/ rows[i].block = rows[j].block /\ rows[i].hash < rows[j].hash
          \/ rows[i].block = rows[j].block /\ rows[i].hash = rows[j].hash /\ i < j
  <2> TAKE i, j \in I
  <2> DEFINE b == rows[i].block
             c == rows[j].block
             g == rows[i].hash
             h == rows[j].hash
  <2>1. <<i, j>> \in R <=> \/ sort_key_precedes(rows[i], rows[j])
                           \/ ~sort_key_precedes(rows[j], rows[i]) /\ i < j
    BY DEF Sorted
  <2>2. i \in Nat /\ b \in Nat /\ g \in Nat /\ j \in Nat /\ c \in Nat /\ h \in Nat
    BY <1>1
  <2>3. /\ sort_key_precedes(rows[i], rows[j]) <=> (b > c \/ (b = c /\ g < h))
        /\ sort_key_precedes(rows[j], rows[i]) <=> (c > b \/ (c = b /\ h < g))
    BY DEF sort_key_precedes
  <2> HIDE DEF R, b, c, g, h
  <2>4. <<i, j>> \in R <=> b > c \/ (b = c /\ g < h) \/ (b = c /\ g = h /\ i < j)
    BY <2>1, <2>2, <2>3
  <2> QED BY <2>4 DEF b, c, g, h
<1> HIDE DEF R
<1>3. \A i \in I : <<i, i>> \notin R
  BY <1>1, <1>2
<1>4. \A i, j \in I : i # j => <<i, j>> \in R \/ <<j, i>> \in R
  BY <1>1, <1>2
<1>5. \A i, j, k \in I : <<i, j>> \in R /\ <<j, k>> \in R => <<i, k>> \in R
  <2> DEFINE b(i) == rows[i].block
             g(i) == rows[i].hash
  <2> TAKE i, j, k \in I
  <2>1. /\ i \in Nat /\ b(i) \in Nat /\ g(i) \in Nat
        /\ j \in Nat /\ b(j) \in Nat /\ g(j) \in Nat
        /\ k \in Nat /\ b(k) \in Nat /\ g(k) \in Nat
    BY <1>1
  <2>2. \A x, y \in I : <<x, y>> \in R <=>
          b(x) > b(y) \/ (b(x) = b(y) /\ g(x) < g(y)) \/ (b(x) = b(y) /\ g(x) = g(y) /\ x < y)
    BY <1>2
  <2> HIDE DEF b, g
  <2>3. /\ <<i, j>> \in R <=>
             b(i) > b(j) \/ (b(i) = b(j) /\ g(i) < g(j)) \/ (b(i) = b(j) /\ g(i) = g(j) /\ i < j)
        /\ <<j, k>> \in R <=>
             b(j) > b(k) \/ (b(j) = b(k) /\ g(j) < g(k)) \/ (b(j) = b(k) /\ g(j) = g(k) /\ j < k)
        /\ <<i, k>> \in R <=>
             b(i) > b(k) \/ (b(i) = b(k) /\ g(i) < g(k)) \/ (b(i) = b(k) /\ g(i) = g(k) /\ i < k)
    BY <2>2
  <2> QED BY <2>1, <2>3
<1> QED BY <1>2, <1>3, <1>4, <1>5 DEF Orders, R

\* A merge shows the transaction of every row above its last block, and of
\* every row if it is not full.
LEMMA MergeComplete ==
    ASSUME NEW rows \in Seq(TransferRow), OneBlockPerHash(rows), NEW n \in Nat \ {0}
    PROVE  LET A == _merge_and_sort_transfers(rows, n)
           IN  /\ A \in Seq(TransferRow) /\ Len(A) <= n
               /\ \A p \in 1..Len(rows) :
                     (Len(A) = n => rows[p].block > A[Len(A)].block)
                     => \E m \in 1..Len(A) : A[m].hash = rows[p].hash
<1> DEFINE I == unique(rows)
           R == Sorted(rows, I)
           L == Listing(I, R, n)
           A == _merge_and_sort_transfers(rows, n)
<1>1. Len(rows) \in Nat /\ I \in SUBSET (1..Len(rows))
  BY DEF unique
<1>2. IsFiniteSet(I)
  <2>1. IsFiniteSet(1..Len(rows))
    BY <1>1, FS_Interval, 1 \in Int, Len(rows) \in Int
  <2> QED BY <1>1, <2>1, FS_Subset
<1>3. A = Rows(rows, L)
  BY DEF _merge_and_sort_transfers
<1>4. \A p \in 1..Len(rows) :
         \E q \in I : rows[q].hash = rows[p].hash /\ rows[q].block = rows[p].block
  BY UniqueKeeps
<1> HIDE DEF I, A
<1>5. Orders(R, I) /\ \A i, j \in I : rows[i].block > rows[j].block => <<i, j>> \in R
  BY <1>1, SortOrders
<1> HIDE DEF R
<1>6. /\ L \in Seq(I) /\ Len(L) <= n
      /\ Len(L) < n => \A i \in I : \E m \in 1..Len(L) : L[m] = i
      /\ Len(L) = n => \A i \in I : <<i, L[n]>> \in R => \E m \in 1..Len(L) : L[m] = i
  <2>1. IsFiniteSet(I) /\ Orders(R, I)
    BY <1>2, <1>5
  <2> QED BY <2>1, Lists
<1> HIDE DEF L
<1>7. L \in Seq(1..Len(rows)) /\ Len(L) \in Nat /\ \A m \in 1..Len(L) : L[m] \in I
  <2>1. L \in [1..Len(L) -> I] /\ Len(L) \in Nat
    BY <1>6
  <2>2. L \in [1..Len(L) -> 1..Len(rows)]
    BY <1>1, <2>1
  <2> QED BY <2>1, <2>2
<1>8. /\ A \in Seq(TransferRow) /\ Len(A) = Len(L)
      /\ \A m \in 1..Len(L) : A[m] = rows[L[m]]
  BY <1>3, <1>7, RowsListed
<1>9. ASSUME NEW p \in 1..Len(rows), Len(A) = n => rows[p].block > A[Len(A)].block
      PROVE  \E m \in 1..Len(A) : A[m].hash = rows[p].hash
  <2>1. PICK q \in I : rows[q].hash = rows[p].hash /\ rows[q].block = rows[p].block
    BY <1>4
  <2>2. \E m \in 1..Len(L) : L[m] = q
    <3>1. CASE Len(L) < n
      BY <1>6, <2>1, <3>1
    <3>2. CASE Len(L) = n
      <4>1. n \in 1..Len(L) /\ L[n] \in I
        BY <1>7, <3>2
      <4>2. rows[q].block > rows[L[n]].block
        BY <1>8, <1>9, <2>1, <3>2, <4>1
      <4> QED BY <1>5, <1>6, <2>1, <3>2, <4>1, <4>2
    <3> QED BY <1>6, <1>7, <3>1, <3>2
  <2> QED BY <1>8, <2>1, <2>2
<1>10. Len(A) <= n
  BY <1>6, <1>8
<1> QED BY <1>8, <1>9, <1>10 DEF A

-----------------------------------------------------------------------------
(* The calls.                                                              *)

\* What is known of the reply for one leg: its rows are rows of the history,
\* and a list shows all that was there to show above its last block.
ReplyOf(leg) ==
    /\ reply[leg] \in Seq(TransferRow)
    /\ \A m \in 1..Len(reply[leg]) : \E x \in 1..Len(history) : reply[leg][m] = history[x]
    /\ kind[leg] = "list" =>
         \A i \in 1..Newest :
            leg \in history[i].legs /\ history[i].block > Horizon(leg)
            => \E m \in 1..Len(reply[leg]) : reply[leg][m] = history[i]

\* The request and where it stands.
CallType ==
    /\ pc \in {"idle", "first", "second", "done"}
    /\ call.direction \in Directions
    /\ call.max_count \in Nat \ {0}
    /\ call.page_key \in 0..Len(history)
    /\ asked \in 0..Len(history)
    /\ reply = [leg \in Legs |-> reply[leg]]
    /\ kind = [leg \in Legs |-> kind[leg]]

\* What is fetched in each phase, and what the answer is made of.
PhaseOf ==
    /\ pc \in {"idle", "first"} => \A leg \in Legs : kind[leg] = "none"
    /\ pc = "second" => call.direction = "both" /\ kind["incoming"] = "none"
    /\ pc = "done" /\ call.direction \in Legs => answer = reply[call.direction]
    /\ pc = "done" /\ call.direction = "both" =>
          answer = _merge_and_sort_transfers(reply["outgoing"] \o reply["incoming"], call.max_count)

\* The inductive invariant of TransferHistory.
HistoryInv ==
    /\ Ordered(history)
    /\ CallType
    /\ PhaseOf
    /\ \A leg \in Legs : ReplyOf(leg)

\* HistoryInv holds at first.
LEMMA HistoryStarts == HistoryInit => HistoryInv
<1> SUFFICES ASSUME HistoryInit PROVE HistoryInv
  OBVIOUS
<1>1. history = <<>> /\ Len(history) = 0
  BY DEF HistoryInit
<1>2. Ordered(history)
  BY <1>1 DEF Ordered
<1>3. CallType /\ PhaseOf
  BY <1>1 DEF HistoryInit, CallType, PhaseOf, NoCall, Directions
<1>4. ASSUME NEW leg \in Legs PROVE ReplyOf(leg)
  <2>1. reply[leg] = <<>> /\ kind[leg] = "none"
    BY DEF HistoryInit
  <2> QED BY <2>1 DEF ReplyOf
<1> QED BY <1>2, <1>3, <1>4 DEF HistoryInv

\* A row that is not older than the others, and of the block of its
\* transaction, keeps the order.
LEMMA AppendOrdered ==
    ASSUME NEW hs, Ordered(hs), NEW row \in TransferRow, row.hash <= Len(hs) + 1,
           \A i \in 1..Len(hs) : hs[i].block <= row.block,
           \A i \in 1..Len(hs) : row.hash # NoHash /\ hs[i].hash = row.hash =>
                                    hs[i].block = row.block
    PROVE  /\ Ordered(Append(hs, row))
           /\ Len(Append(hs, row)) = Len(hs) + 1
           /\ \A i \in 1..Len(hs) : Append(hs, row)[i] = hs[i]
<1> DEFINE n == Len(hs)
           g == Append(hs, row)
<1>1. /\ hs \in Seq(TransferRow)
      /\ \A i, j \in 1..n : i <= j => hs[i].block <= hs[j].block
      /\ \A i \in 1..n : hs[i].hash <= n
      /\ \A i, j \in 1..n : hs[i].hash # NoHash /\ hs[i].hash = hs[j].hash =>
                              hs[i].block = hs[j].block
  BY DEF Ordered
<1>2. /\ n \in Nat /\ g \in Seq(TransferRow) /\ Len(g) = n + 1
      /\ g[n + 1] = row /\ \A i \in 1..n : g[i] = hs[i]
  BY <1>1
<1>3. \A i \in 1..n : hs[i].block \in Nat /\ hs[i].hash \in Nat
  <2> TAKE i \in 1..n
  <2>1. hs[i] \in TransferRow
    BY <1>1
  <2> QED BY <2>1 DEF TransferRow
<1>4. row.block \in Nat /\ row.hash \in Nat
  BY DEF TransferRow
<1>5. /\ row.hash <= n + 1
      /\ \A i \in 1..n : hs[i].block <= row.block
      /\ \A i \in 1..n : row.hash # NoHash /\ hs[i].hash = row.hash => hs[i].block = row.block
  OBVIOUS
<1> HIDE DEF n, g
<1>6. \A i \in 1..(n + 1) : i \in 1..n \/ i = n + 1
  BY <1>2
<1>7. \A i, j \in 1..(n + 1) : i <= j => g[i].block <= g[j].block
  <2> SUFFICES ASSUME NEW i \in 1..(n + 1), NEW j \in 1..(n + 1), i <= j
               PROVE  g[i].block <= g[j].block
    OBVIOUS
  <2>1. CASE j \in 1..n
    <3>1. i \in 1..n
      BY <1>2, <2>1
    <3> QED BY <1>1, <1>2, <2>1, <3>1
  <2>2. CASE j = n + 1 /\ i \in 1..n
    BY <1>2, <1>5, <2>2
  <2>3. CASE j = n + 1 /\ i = n + 1
    BY <1>2, <1>4, <2>3
  <2> QED BY <1>6, <2>1, <2>2, <2>3
<1>8. \A i \in 1..(n + 1) : g[i].hash <= n + 1
  <2> TAKE i \in 1..(n + 1)
  <2>1. CASE i \in 1..n
    BY <1>1, <1>2, <1>3, <2>1
  <2>2. CASE i = n + 1
    BY <1>2, <1>5, <2>2
  <2> QED BY <1>6, <2>1, <2>2
<1>9. \A i, j \in 1..(n + 1) :
         g[i].hash # NoHash /\ g[i].hash = g[j].hash => g[i].block = g[j].block
  <2> SUFFICES ASSUME NEW i \in 1..(n + 1), NEW j \in 1..(n + 1),
                      g[i].hash # NoHash, g[i].hash = g[j].hash
               PROVE  g[i].block = g[j].block
    OBVIOUS
  <2>1. CASE i \in 1..n /\ j \in 1..n
    BY <1>1, <1>2, <2>1
  <2>2. CASE i \in 1..n /\ j = n + 1
    BY <1>2, <1>5, <2>2
  <2>3. CASE i = n + 1 /\ j \in 1..n
    BY <1>2, <1>5, <2>3
  <2>4. CASE i = n + 1 /\ j = n + 1
    BY <2>4
  <2> QED BY <1>6, <2>1, <2>2, <2>3, <2>4
<1>10. Ordered(g)
  BY <1>2, <1>7, <1>8, <1>9 DEF Ordered
<1> QED BY <1>2, <1>10 DEF n, g

\* A new transfer is not older than the last one; if it is of a transaction
\* already there, that is the last one's.
LEMMA GrowthOrdered ==
    ASSUME Ordered(history), Grow
    PROVE  /\ Ordered(history')
           /\ Len(history') = Len(history) + 1
           /\ \A i \in 1..Len(history) : history'[i] = history[i]
<1> DEFINE n == Len(history)
           last == IF history = <<>> THEN [hash |-> NoHash, block |-> 0] ELSE history[n]
<1>1. history \in Seq(TransferRow) /\ n \in Nat /\ (history # <<>> => n \in 1..n)
  <2>1. history \in Seq(TransferRow)
    BY DEF Ordered
  <2> QED BY <2>1
<1>2. /\ \A i \in 1..n : history[i].block \in Nat /\ history[i].hash \in Nat
      /\ \A i \in 1..n : history[i].hash <= n
      /\ \A i, j \in 1..n : i <= j => history[i].block <= history[j].block
      /\ \A i, j \in 1..n : history[i].hash # NoHash /\ history[i].hash = history[j].hash =>
                              history[i].block = history[j].block
  <2>1. \A i \in 1..n : history[i] \in TransferRow
    BY <1>1
  <2>2. \A x \in TransferRow : x.block \in Nat /\ x.hash \in Nat
    BY DEF TransferRow
  <2> QED BY <2>1, <2>2 DEF Ordered
<1>3. /\ last.block \in Nat /\ last.hash \in Nat /\ last.hash <= n
      /\ \A i \in 1..n : history[i].block <= last.block
      /\ last.hash # NoHash => \E k \in 1..n : history[k] = last
  <2>1. CASE history = <<>>
    <3>1. last = [hash |-> NoHash, block |-> 0] /\ n = 0
      BY <2>1
    <3> HIDE DEF last, n
    <3> QED BY <3>1 DEF NoHash
  <2>2. CASE history # <<>>
    <3>1. n \in 1..n /\ last = history[n]
      BY <1>1, <2>2
    <3> HIDE DEF last, n
    <3>2. \A i \in 1..n : i <= n
      BY <1>1
    <3> QED BY <1>2, <3>1, <3>2
  <2> QED BY <2>1, <2>2
<1>4. \E legs \in (SUBSET Legs) \ {{}}, new \in {"same", "same block", "next block"} :
         /\ new # "next block" => history # <<>>
         /\ new = "same" => last.hash # NoHash
         /\ \E h \in IF new = "same" THEN {last.hash} ELSE {n + 1, NoHash} :
              history' = Append(history,
                [hash |-> h, legs |-> legs,
                 block |-> last.block + (IF new = "next block" THEN 1 ELSE 0)])
  BY Zenon DEF Grow
<1> HIDE DEF last, n
<1>5. PICK legs, new, h :
         /\ legs \in (SUBSET Legs) \ {{}}
         /\ (h = last.hash /\ new = "same") \/ h = n + 1 \/ h = NoHash
         /\ history' = Append(history,
               [hash |-> h, legs |-> legs,
                block |-> last.block + (IF new = "next block" THEN 1 ELSE 0)])
  BY <1>4, Zenon
<1> DEFINE b == last.block + (IF new = "next block" THEN 1 ELSE 0)
           row == [hash |-> h, legs |-> legs, block |-> b]
<1>6. last.block \in Nat /\ last.hash \in Nat /\ last.hash <= n /\ n \in Nat
  BY <1>1, <1>3
<1>7. b \in Nat /\ b >= last.block /\ (new = "same" => b = last.block)
  <2>1. CASE new = "next block"
    <3>1. b = last.block + 1 /\ new # "same"
      BY <2>1
    <3> HIDE DEF b
    <3> QED BY <1>6, <3>1
  <2>2. CASE new # "next block"
    <3>1. b = last.block + 0
      BY <2>2
    <3> HIDE DEF b
    <3> QED BY <1>6, <3>1
  <2> QED BY <2>1, <2>2
<1> HIDE DEF b
<1>8. h \in Nat /\ h <= n + 1
  <2>1. CASE h = last.hash
    BY <1>6, <2>1
  <2>2. CASE h = n + 1
    BY <1>6, <2>2
  <2>3. CASE h = NoHash
    BY <1>6, <2>3 DEF NoHash
  <2> QED BY <1>5, <2>1, <2>2, <2>3
<1>9. row \in TransferRow /\ row.hash = h /\ row.block = b
  BY <1>5, <1>7, <1>8 DEF TransferRow
<1>10. history' = Append(history, row)
  BY <1>5 DEF b
<1> HIDE DEF row
<1>11. \A i \in 1..n : history[i].block <= row.block
  BY <1>2, <1>3, <1>7, <1>9
<1>12. \A i \in 1..n : row.hash # NoHash /\ history[i].hash = row.hash => history[i].block = row.block
  <2> SUFFICES ASSUME NEW i \in 1..n, h # NoHash, history[i].hash = h PROVE history[i].block = b
    BY <1>9
  <2>1. new = "same" /\ h = last.hash
    <3>1. h <= n /\ h \in Nat
      BY <1>2
    <3>2. h # n + 1
      BY <1>6, <3>1
    <3> QED BY <1>5, <3>2, Zenon
  <2>2. PICK k \in 1..n : history[k] = last
    BY <1>3, <2>1
  <2> QED BY <1>2, <1>7, <2>1, <2>2
<1>13. row.hash <= Len(history) + 1
  BY <1>8, <1>9 DEF n
<1> QED BY <1>9, <1>10, <1>11, <1>12, <1>13, AppendOrdered DEF n

\* The rows a call asks for are there.
LEMMA NewestExists ==
    ASSUME HistoryInv
    PROVE  /\ history \in Seq(TransferRow) /\ Len(history) \in Nat
           /\ Newest \in Int /\ Newest <= Len(history)
<1>1. history \in Seq(TransferRow)
  BY DEF HistoryInv, Ordered
<1>2. Len(history) \in Nat
  BY <1>1
<1>3. call.page_key \in 0..Len(history) /\ asked \in 0..Len(history)
  BY DEF HistoryInv, CallType
<1>4. Newest = asked \/ Newest = call.page_key - 1
  BY DEF Newest
<1>5. CASE Newest = asked
  BY <1>1, <1>2, <1>3, <1>5
<1>6. CASE Newest = call.page_key - 1
  BY <1>1, <1>2, <1>3, <1>6
<1> QED BY <1>4, <1>5, <1>6

\* Every old row is still there.
Extends ==
    /\ Len(history') \in Nat /\ Len(history) <= Len(history')
    /\ \A i \in 1..Len(history) : history'[i] = history[i]

\* A reply stays what it is while the history grows; what a list shows is
\* about the call that was made.
LEMMA ReplyKept ==
    ASSUME HistoryInv, NEW leg \in Legs, Extends,
           reply'[leg] = reply[leg], kind'[leg] = kind[leg],
           kind[leg] = "list" => UNCHANGED <<call, asked>>
    PROVE  ReplyOf(leg)'
<1>1. /\ Len(history) \in Nat /\ Newest \in Int /\ Newest <= Len(history)
      /\ Len(history') \in Nat /\ Len(history) <= Len(history')
      /\ \A i \in 1..Len(history) : history'[i] = history[i]
  BY NewestExists DEF Extends
<1>2. ReplyOf(leg)
  BY DEF HistoryInv
<1>3. \A m \in 1..Len(reply'[leg]) : \E x \in 1..Len(history') : reply'[leg][m] = history'[x]
  <2> SUFFICES ASSUME NEW m \in 1..Len(reply[leg])
               PROVE  \E x \in 1..Len(history') : reply[leg][m] = history'[x]
    OBVIOUS
  <2>1. PICK x \in 1..Len(history) : reply[leg][m] = history[x]
    BY <1>2 DEF ReplyOf
  <2>2. x \in 1..Len(history')
    BY <1>1
  <2> QED BY <1>1, <2>1, <2>2
<1>4. ASSUME kind'[leg] = "list", NEW i \in 1..Newest',
             leg \in history'[i].legs, history'[i].block > Horizon(leg)'
      PROVE  \E m \in 1..Len(reply'[leg]) : reply'[leg][m] = history'[i]
  <2>1. UNCHANGED <<call, asked>>
    BY <1>4
  <2>2. Newest' = Newest /\ Horizon(leg)' = Horizon(leg)
    BY <2>1 DEF Newest, Horizon
  <2>3. i \in 1..Newest /\ i \in 1..Len(history)
    BY <1>1, <2>2
  <2>4. history'[i] = history[i]
    BY <1>1, <2>3
  <2>5. \E m \in 1..Len(reply[leg]) : reply[leg][m] = history[i]
    BY <1>2, <1>4, <2>2, <2>3, <2>4 DEF ReplyOf
  <2> QED BY <2>4, <2>5
<1>5. reply'[leg] \in Seq(TransferRow)
  BY <1>2 DEF ReplyOf
<1> QED BY <1>3, <1>4, <1>5 DEF ReplyOf

\* A reply is a complete page, or an empty one that is no list.
LEMMA ReplyGot ==
    ASSUME HistoryInv, NEW leg \in Legs, NEW r \in Replies(leg), Got(leg, r),
           UNCHANGED <<history, call>>,
           Newest' \in Int, Newest' <= Below(build_asset_transfer_params(leg).pageKey)
    PROVE  ReplyOf(leg)'
<1> DEFINE key == build_asset_transfer_params(leg).pageKey
           n == call.max_count
           P == Page(leg, key, n)
<1>1. build_asset_transfer_params(leg).maxCount = n
  BY DEF build_asset_transfer_params
<1>2. n \in Nat \ {0} /\ key \in 0..Len(history)
  <2>1. key = 0 \/ key = call.page_key
    BY DEF build_asset_transfer_params
  <2>2. Len(history) \in Nat
    BY NewestExists
  <2>3. n \in Nat \ {0} /\ call.page_key \in 0..Len(history)
    BY DEF HistoryInv, CallType
  <2> QED BY <2>1, <2>2, <2>3
<1>3. Newest' <= Below(key)
  OBVIOUS
<1>4. \/ r = [rows |-> P, kind |-> "list"]
      \/ \E fault \in Faults : r = [rows |-> <<>>, kind |-> fault]
  BY <1>1 DEF Replies
<1>5. reply'[leg] = r.rows /\ kind'[leg] = r.kind
  <2>1. reply = [l \in Legs |-> reply[l]] /\ kind = [l \in Legs |-> kind[l]]
    BY DEF HistoryInv, CallType
  <2> QED BY <2>1 DEF Got
<1> HIDE DEF key, n
<1>6. CASE r = [rows |-> P, kind |-> "list"]
  <2>1. /\ P \in Seq(TransferRow) /\ Len(P) <= n
        /\ \A m \in 1..Len(P) : \E x \in 1..Len(history) : P[m] = history[x]
        /\ \A i \in 1..Below(key) :
              /\ leg \in history[i].legs
              /\ Len(P) = n => history[i].block > P[Len(P)].block
              => \E m \in 1..Len(P) : P[m] = history[i]
    <3>1. Ordered(history)
      BY DEF HistoryInv
    <3> QED BY <1>2, <3>1, PageComplete
  <2>2. reply'[leg] = P /\ kind'[leg] = "list"
    BY <1>5, <1>6
  <2>3. Below(key) \in Nat
    <3>1. Len(history) \in Nat
      BY NewestExists
    <3> QED BY <1>2, <3>1 DEF Below
  <2> HIDE DEF P
  <2>4. ASSUME NEW i \in 1..Newest', leg \in history[i].legs, history[i].block > Horizon(leg)'
        PROVE  \E m \in 1..Len(P) : P[m] = history[i]
    <3>1. i \in 1..Below(key)
      BY <1>3, <2>3
    <3>2. Horizon(leg)' = IF Len(P) < n THEN 0 ELSE P[Len(P)].block
      BY <2>2 DEF Horizon, n
    <3>3. Len(P) = n => history[i].block > P[Len(P)].block
      BY <1>2, <2>4, <3>2
    <3> QED BY <2>1, <2>4, <3>1, <3>3
  <2> QED BY <2>1, <2>2, <2>4 DEF ReplyOf
<1>7. CASE \E fault \in Faults : r = [rows |-> <<>>, kind |-> fault]
  <2>1. PICK fault \in Faults : r = [rows |-> <<>>, kind |-> fault]
    BY <1>7
  <2>2. fault # "list"
    BY HistoryAssumption DEF ReplyFaults
  <2>3. reply'[leg] = <<>> /\ kind'[leg] # "list"
    BY <1>5, <2>1, <2>2
  <2> QED BY <2>3 DEF ReplyOf
<1> QED BY <1>4, <1>6, <1>7

\* Every step keeps HistoryInv.
LEMMA HistoryStep == HistoryInv /\ [HistoryNext]_history_vars => HistoryInv'
<1> SUFFICES ASSUME HistoryInv, [HistoryNext]_history_vars PROVE HistoryInv'
  OBVIOUS
<1>1. /\ Len(history) \in Nat /\ Newest \in Int /\ Newest <= Len(history)
      /\ Ordered(history) /\ CallType /\ PhaseOf
  BY NewestExists DEF HistoryInv
<1>2. UNCHANGED history => Extends /\ Ordered(history')
  BY <1>1 DEF Extends
<1>3. CASE Grow
  <2>1. UNCHANGED <<call, pc, asked, reply, kind, answer>>
    BY <1>3 DEF Grow
  <2>2. /\ Ordered(history') /\ Len(history') = Len(history) + 1
        /\ \A i \in 1..Len(history) : history'[i] = history[i]
    BY <1>1, <1>3, GrowthOrdered
  <2>3. Extends
    BY <1>1, <2>2 DEF Extends
  <2>4. call.page_key \in 0..Len(history') /\ asked \in 0..Len(history')
    BY <1>1, <2>2 DEF CallType
  <2>5. CallType'
    BY <1>1, <2>1, <2>4 DEF CallType
  <2>6. PhaseOf'
    BY <1>1, <2>1 DEF PhaseOf
  <2>7. \A leg \in Legs : ReplyOf(leg)'
    BY <2>1, <2>3, ReplyKept
  <2> QED BY <2>2, <2>5, <2>6, <2>7 DEF HistoryInv
<1>4. CASE fetch_transfers_for_wallet
  <2>1. /\ UNCHANGED <<history, asked, reply, kind, answer>>
        /\ pc = "idle" /\ pc' = "first"
    BY <1>4 DEF fetch_transfers_for_wallet
  <2>2. PICK d \in Directions, n \in MaxCounts, key \in 0..Len(history) :
          call' = [direction |-> d, max_count |-> n, page_key |-> key]
    BY <1>4 DEF fetch_transfers_for_wallet
  <2>3. n \in Nat \ {0}
    BY HistoryAssumption
  <2>4. CallType'
    BY <1>1, <2>1, <2>2, <2>3 DEF CallType
  <2>5. \A leg \in Legs : kind[leg] = "none"
    BY <1>1, <2>1 DEF PhaseOf
  <2>6. PhaseOf'
    BY <2>1, <2>5 DEF PhaseOf
  <2>7. \A leg \in Legs : ReplyOf(leg)'
    BY <1>2, <2>1, <2>5, ReplyKept
  <2> QED BY <1>2, <2>1, <2>4, <2>6, <2>7 DEF HistoryInv
<1>5. CASE fetch_one_leg
  <2> DEFINE leg == call.direction
  <2>1. /\ leg \in Legs /\ pc = "first" /\ pc' = "done"
        /\ asked' = Len(history) /\ UNCHANGED <<history, call>>
    BY <1>5 DEF fetch_one_leg
  <2>2. PICK r \in Replies(leg) : Got(leg, r) /\ answer' = r.rows
    BY <1>5 DEF fetch_one_leg
  <2>3. /\ reply'[leg] = r.rows /\ \A l \in Legs \ {leg} : reply'[l] = reply[l] /\ kind'[l] = kind[l]
        /\ reply' = [l \in Legs |-> reply'[l]] /\ kind' = [l \in Legs |-> kind'[l]]
    BY <1>1, <2>1, <2>2 DEF CallType, Got
  <2>4. CallType'
    BY <1>1, <2>1, <2>3 DEF CallType
  <2>5. leg # "both"
    BY <2>1 DEF Legs
  <2>6. PhaseOf'
    BY <2>1, <2>2, <2>3, <2>5 DEF PhaseOf
  <2>7. ReplyOf(leg)'
    <3>1. Newest' = Below(build_asset_transfer_params(leg).pageKey) /\ Newest' \in Int
      BY <1>1, <2>1, <2>5 DEF CallType, Newest, Below, build_asset_transfer_params
    <3>2. Newest' <= Below(build_asset_transfer_params(leg).pageKey)
      BY <3>1
    <3> HIDE DEF leg
    <3>3. ASSUME NEW l \in Legs, l = leg PROVE ReplyOf(l)'
      BY <2>1, <2>2, <3>1, <3>2, <3>3, ReplyGot
    <3> QED BY <2>1, <3>3 DEF leg
  <2>8. \A l \in Legs \ {leg} : kind[l] = "none" /\ ReplyOf(l)'
    <3>1. \A l \in Legs : kind[l] = "none"
      BY <1>1, <2>1 DEF PhaseOf
    <3> QED BY <1>2, <2>1, <2>3, <3>1, ReplyKept
  <2>9. \A l \in Legs : ReplyOf(l)'
    <3> TAKE l \in Legs
    <3>1. CASE l = leg
      BY <2>1, <2>7, <3>1
    <3>2. CASE l # leg
      BY <2>8, <3>2
    <3> QED BY <3>1, <3>2
  <2> QED BY <1>2, <2>1, <2>4, <2>6, <2>9 DEF HistoryInv
<1>6. CASE fetch_outgoing
  <2>1. /\ call.direction = "both" /\ pc = "first" /\ pc' = "second"
        /\ asked' = Len(history) /\ UNCHANGED <<history, call, answer>>
    BY <1>6 DEF fetch_outgoing
  <2>2. PICK r \in Replies("outgoing") : Got("outgoing", r)
    BY <1>6 DEF fetch_outgoing
  <2>3. /\ reply'["incoming"] = reply["incoming"] /\ kind'["incoming"] = kind["incoming"]
        /\ reply' = [l \in Legs |-> reply'[l]] /\ kind' = [l \in Legs |-> kind'[l]]
    BY <1>1, <2>2 DEF CallType, Got, Legs
  <2>4. CallType'
    BY <1>1, <2>1, <2>3 DEF CallType
  <2>5. kind["incoming"] = "none"
    BY <1>1, <2>1 DEF PhaseOf, Legs
  <2>6. PhaseOf'
    BY <2>1, <2>3, <2>5 DEF PhaseOf
  <2>7. ReplyOf("outgoing")'
    <3>1. Newest' = Below(build_asset_transfer_params("outgoing").pageKey) /\ Newest' \in Int
      BY <1>1, <2>1 DEF Newest, Below, build_asset_transfer_params
    <3>2. Newest' <= Below(build_asset_transfer_params("outgoing").pageKey) /\ "outgoing" \in Legs
      BY <3>1 DEF Legs
    <3> QED BY <2>1, <2>2, <3>1, <3>2, ReplyGot
  <2>8. ReplyOf("incoming")'
    <3>1. "incoming" \in Legs
      BY DEF Legs
    <3> QED BY <1>2, <2>1, <2>3, <2>5, <3>1, ReplyKept
  <2> QED BY <1>2, <2>1, <2>4, <2>6, <2>7, <2>8 DEF HistoryInv, Legs
<1>7. CASE fetch_incoming
  <2>1. /\ pc = "second" /\ pc' = "done" /\ UNCHANGED <<history, call, asked>>
        /\ call.direction = "both"
    BY <1>1, <1>7 DEF fetch_incoming, PhaseOf
  <2>2. PICK r \in Replies("incoming") :
          /\ Got("incoming", r)
          /\ answer' = _merge_and_sort_transfers(reply["outgoing"] \o r.rows, call.max_count)
    BY <1>7 DEF fetch_incoming
  <2>3. /\ reply'["outgoing"] = reply["outgoing"] /\ kind'["outgoing"] = kind["outgoing"]
        /\ reply'["incoming"] = r.rows
        /\ reply' = [l \in Legs |-> reply'[l]] /\ kind' = [l \in Legs |-> kind'[l]]
    BY <1>1, <2>2 DEF CallType, Got, Legs
  <2>4. CallType'
    BY <1>1, <2>1, <2>3 DEF CallType
  <2>5. PhaseOf'
    <3>1. answer' = _merge_and_sort_transfers(reply'["outgoing"] \o reply'["incoming"],
                                              call'.max_count)
      BY <2>1, <2>2, <2>3
    <3>2. call'.direction \notin Legs
      BY <2>1 DEF Legs
    <3> QED BY <2>1, <3>1, <3>2 DEF PhaseOf
  <2>6. ReplyOf("incoming")'
    <3>1. /\ Newest' = asked /\ Below(build_asset_transfer_params("incoming").pageKey) = Len(history)
          /\ asked \in 0..Len(history)
      BY <1>1, <2>1 DEF Newest, Below, build_asset_transfer_params, CallType
    <3>2. Newest' <= Below(build_asset_transfer_params("incoming").pageKey) /\ Newest' \in Int
      BY <1>1, <3>1
    <3>3. "incoming" \in Legs
      BY DEF Legs
    <3> QED BY <2>1, <2>2, <3>2, <3>3, ReplyGot
  <2>7. ReplyOf("outgoing")'
    <3>1. "outgoing" \in Legs
      BY DEF Legs
    <3> QED BY <1>2, <2>1, <2>3, <3>1, ReplyKept
  <2> QED BY <1>2, <2>1, <2>4, <2>5, <2>6, <2>7 DEF HistoryInv, Legs
<1>8. CASE UNCHANGED history_vars
  <2>1. UNCHANGED <<history, call, pc, asked, reply, kind, answer>>
    BY <1>8 DEF history_vars
  <2>2. CallType' /\ PhaseOf'
    BY <1>1, <2>1 DEF CallType, PhaseOf
  <2>3. \A leg \in Legs : ReplyOf(leg)'
    BY <1>2, <2>1, ReplyKept
  <2> QED BY <1>2, <2>1, <2>2, <2>3 DEF HistoryInv
<1> QED BY <1>3, <1>4, <1>5, <1>6, <1>7, <1>8 DEF HistoryNext

\* A transaction is in one block wherever its rows are listed.
LEMMA JoinedRows ==
    ASSUME HistoryInv
    PROVE  LET rows == reply["outgoing"] \o reply["incoming"]
           IN  /\ rows \in Seq(TransferRow) /\ OneBlockPerHash(rows)
               /\ \A leg \in Legs : \A m \in 1..Len(reply[leg]) :
                     \E p \in 1..Len(rows) : rows[p] = reply[leg][m]
<1> DEFINE out == reply["outgoing"]
           in  == reply["incoming"]
           rows == out \o in
<1>1. /\ out \in Seq(TransferRow) /\ in \in Seq(TransferRow)
      /\ \A m \in 1..Len(out) : \E x \in 1..Len(history) : out[m] = history[x]
      /\ \A m \in 1..Len(in) : \E x \in 1..Len(history) : in[m] = history[x]
  BY DEF HistoryInv, ReplyOf, Legs
<1>2. \A i, j \in 1..Len(history) :
         history[i].hash # NoHash /\ history[i].hash = history[j].hash =>
            history[i].block = history[j].block
  BY DEF HistoryInv, Ordered
<1>3. \A leg \in Legs : leg = "outgoing" \/ leg = "incoming"
  BY DEF Legs
<1> HIDE DEF out, in
<1>4. /\ rows \in Seq(TransferRow) /\ Len(rows) = Len(out) + Len(in)
      /\ Len(out) \in Nat /\ Len(in) \in Nat
      /\ \A p \in 1..Len(out) : rows[p] = out[p]
      /\ \A p \in 1..Len(in) : rows[Len(out) + p] = in[p]
  BY <1>1
<1>5. \A p \in 1..Len(rows) : p \in 1..Len(out) \/ \E q \in 1..Len(in) : p = Len(out) + q
  <2> TAKE p \in 1..Len(rows)
  <2>1. CASE p <= Len(out)
    BY <1>4, <2>1
  <2>2. CASE p > Len(out)
    <3>1. p - Len(out) \in 1..Len(in) /\ p = Len(out) + (p - Len(out))
      BY <1>4, <2>2
    <3> QED BY <3>1
  <2> QED BY <1>4, <2>1, <2>2
<1> HIDE DEF rows
<1>6. \A p \in 1..Len(rows) : \E x \in 1..Len(history) : rows[p] = history[x]
  <2> TAKE p \in 1..Len(rows)
  <2>1. CASE p \in 1..Len(out)
    <3>1. rows[p] = out[p]
      BY <1>4, <2>1
    <3> QED BY <1>1, <2>1, <3>1
  <2>2. CASE \E q \in 1..Len(in) : p = Len(out) + q
    <3>1. PICK q \in 1..Len(in) : p = Len(out) + q
      BY <2>2
    <3>2. rows[p] = in[q]
      BY <1>4, <3>1
    <3> QED BY <1>1, <3>2
  <2> QED BY <1>5, <2>1, <2>2
<1>7. OneBlockPerHash(rows)
  <2> SUFFICES ASSUME NEW i \in 1..Len(rows), NEW j \in 1..Len(rows),
                      rows[i].hash # NoHash, rows[i].hash = rows[j].hash
               PROVE  rows[i].block = rows[j].block
    BY DEF OneBlockPerHash
  <2>1. PICK x \in 1..Len(history) : rows[i] = history[x]
    BY <1>6
  <2>2. PICK y \in 1..Len(history) : rows[j] = history[y]
    BY <1>6
  <2> QED BY <1>2, <2>1, <2>2
<1>8. \A m \in 1..Len(out) : \E p \in 1..Len(rows) : rows[p] = out[m]
  <2> TAKE m \in 1..Len(out)
  <2>1. m \in 1..Len(rows)
    BY <1>4
  <2> QED BY <1>4, <2>1
<1>9. \A m \in 1..Len(in) : \E p \in 1..Len(rows) : rows[p] = in[m]
  <2> TAKE m \in 1..Len(in)
  <2>1. Len(out) + m \in 1..Len(rows)
    BY <1>4
  <2> QED BY <1>4, <2>1
<1>10. \A leg \in Legs : \A m \in 1..Len(reply[leg]) :
          \E p \in 1..Len(rows) : rows[p] = reply[leg][m]
  BY <1>3, <1>8, <1>9 DEF out, in
<1> QED BY <1>4, <1>7, <1>10 DEF rows, out, in

\* An answer omits no transaction it could have shown.
LEMMA HistoryCompletes == HistoryInv => NewestAreComplete
<1> SUFFICES ASSUME HistoryInv, Answered, NEW i \in 1..Newest, NEW leg \in Listed,
                    leg \in history[i].legs, history[i].block > Horizon(leg),
                    history[i].block > CutBlock
             PROVE  \E j \in DOMAIN answer : answer[j].hash = history[i].hash
  BY DEF NewestAreComplete
<1>1. leg \in AskedLegs /\ kind[leg] = "list" /\ pc = "done"
  BY DEF Listed, Answered
<1>2. call.direction \in Directions /\ call.max_count \in Nat \ {0} /\ PhaseOf
  BY DEF HistoryInv, CallType
<1>3. leg \in Legs
  BY <1>1, <1>2 DEF AskedLegs, Directions
<1>4. reply[leg] \in Seq(TransferRow)
  BY <1>3 DEF HistoryInv, ReplyOf
<1>5. PICK m \in 1..Len(reply[leg]) : reply[leg][m] = history[i]
  BY <1>1, <1>3 DEF HistoryInv, ReplyOf
<1>6. CASE call.direction \in Legs
  <2>1. call.direction # "both"
    BY <1>6 DEF Legs
  <2>2. answer = reply[leg]
    BY <1>1, <1>2, <1>6, <2>1 DEF AskedLegs, PhaseOf
  <2>3. m \in DOMAIN answer
    BY <1>4, <2>2
  <2> QED BY <1>5, <2>2, <2>3
<1>7. CASE call.direction = "both"
  <2> DEFINE rows == reply["outgoing"] \o reply["incoming"]
             n == call.max_count
             A == _merge_and_sort_transfers(rows, n)
  <2>1. answer = A
    BY <1>1, <1>2, <1>7 DEF PhaseOf
  <2>2. /\ rows \in Seq(TransferRow) /\ OneBlockPerHash(rows)
        /\ \E p \in 1..Len(rows) : rows[p] = reply[leg][m]
    BY <1>3, <1>5, JoinedRows
  <2>3. n \in Nat \ {0} /\ history[i].block > (IF Len(answer) < n THEN 0 ELSE answer[Len(answer)].block)
    BY <1>2 DEF CutBlock
  <2> HIDE DEF rows, n
  <2>4. /\ A \in Seq(TransferRow) /\ Len(A) <= n
        /\ \A p \in 1..Len(rows) :
              (Len(A) = n => rows[p].block > A[Len(A)].block)
              => \E q \in 1..Len(A) : A[q].hash = rows[p].hash
    BY <2>2, <2>3, MergeComplete
  <2>5. PICK p \in 1..Len(rows) : rows[p] = history[i]
    BY <1>5, <2>2
  <2> HIDE DEF A
  <2>6. Len(A) = n => rows[p].block > A[Len(A)].block
    BY <2>1, <2>3, <2>5
  <2>7. PICK q \in 1..Len(A) : A[q].hash = rows[p].hash
    BY <2>4, <2>5, <2>6
  <2>8. q \in DOMAIN A
    BY <2>4
  <2> QED BY <2>1, <2>5, <2>7, <2>8
<1> QED BY <1>2, <1>6, <1>7 DEF Directions

\* fetch_transfers_for_wallet: whatever the wallet sends and receives during
\* a call, and whichever replies are not lists, the answer has every
\* transaction above its cut and above the ends of the pages it was made of.
\* For every length of the history and every max_count.
THEOREM HistoryIsComplete == HistorySpec => []NewestAreComplete
<1>1. HistoryInit => HistoryInv
  BY HistoryStarts
<1>2. HistoryInv /\ [HistoryNext]_history_vars => HistoryInv'
  BY HistoryStep
<1>3. HistoryInv => NewestAreComplete
  BY HistoryCompletes
<1> QED BY <1>1, <1>2, <1>3, PTL DEF HistorySpec

=============================================================================
