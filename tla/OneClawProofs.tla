----------------------------- MODULE OneClawProofs -----------------------------
(***************************************************************************)
(* Theorems about OneClawClient, for every number of threads, tokens and   *)
(* expiries.                                                               *)
(*                                                                         *)
(* The argument follows one token: it is issued to one thread, stored in   *)
(* the client's attribute once, and once it is overwritten or cleared it   *)
(* never comes back.  Whatever empties the attribute or its agent goes     *)
(* back to a token that expired and is gone; a second refusal is therefore *)
(* that of another expired token or of a request without one.              *)
(***************************************************************************)
EXTENDS OneClawClient, FiniteSetTheorems, TLAPS

Labels == {"get_secret", "legacy", "test_token", "test_agent", "return_token", "fetch",
           "store_token", "store_agent", "http_get", "invalidate", "clear_token",
           "clear_agent", "done"}
Results == {"value", "other_text", "empty", "not_found", "unavailable"}

TypeOK ==
    /\ path \in [Readers -> Paths]
    /\ pc \in [Readers -> Labels]
    /\ _access_token \in Tokens \cup {None}
    /\ fetched \in [Readers -> Tokens \cup {None}]
    /\ bearer \in [Readers -> Tokens \cup {None}]
    /\ attempt \in [Readers -> {1, 2}]
    /\ result \in [Readers -> Results \cup {None}]
    /\ issued \in 0..MaxTokens
    /\ valid \subseteq 1..issued
    /\ refused \in [Readers -> Seq(Tokens \cup {None})]

-----------------------------------------------------------------------------
(* The life of a token.                                                    *)

Pending(a) == \E u \in Readers : pc[u] = "store_token" /\ fetched[u] = a
Stored(a) == a \in 1..issued /\ ~Pending(a)
Spent(a) == Stored(a) /\ _access_token # a

\* A token that expired is gone from the cache; two tokens expired.
Gone == \E a \in Expired : Spent(a)
Two == \E a, b \in Expired : a # b

TokenInv ==
    /\ \A u \in Readers : pc[u] = "store_token" => fetched[u] \in 1..issued
    /\ \A u, v \in Readers :
          pc[u] = "store_token" /\ pc[v] = "store_token" /\ fetched[u] = fetched[v] => u = v
    /\ \A a \in Tokens : _access_token = a => Stored(a)

\* The order of a thread's steps: the first GET, at most one refusal, the
\* second GET.
OrderOf(t) ==
    /\ attempt[t] = 1 /\ pc[t] \notin {"invalidate", "done"} => Len(refused[t]) = 0
    /\ pc[t] = "invalidate" => attempt[t] = 1 /\ Len(refused[t]) = 1
    /\ attempt[t] = 2 /\ pc[t] # "done" => Len(refused[t]) = 1
    /\ pc[t] \in {"clear_token", "clear_agent"} => attempt[t] = 2
    /\ Len(refused[t]) <= 2

\* Threads that saw the attributes filled.
SawToken(t) ==
    \/ pc[t] \in {"test_agent", "store_agent", "return_token", "http_get", "invalidate"}
    \/ attempt[t] = 2
SawAgent(t) ==
    pc[t] \in {"return_token", "http_get", "invalidate"} \/ attempt[t] = 2

CacheOf(t) ==
    /\ SawToken(t) /\ _access_token = None => Gone
    /\ SawAgent(t) /\ _access_token_agent # agent_id => Gone
    /\ pc[t] = "clear_agent" => Gone

\* What was refused: no token, for the cache had been cleared, or a token
\* that expired.
Refusal(a) == IF a = None THEN Gone ELSE Stored(a) /\ a \in Expired

First(t, a) == Len(refused[t]) >= 1 /\ refused[t][1] = a

RefusalOf(t) ==
    /\ \A a \in Tokens \cup {None} :
          /\ First(t, a) => Refusal(a)
          /\ pc[t] = "http_get" /\ bearer[t] = a => IF a = None THEN Gone ELSE Stored(a)
    /\ \A a \in Tokens :
          First(t, a) /\ attempt[t] = 2 =>
             /\ pc[t] \notin {"clear_token", "done"} => Spent(a) \/ Two
             /\ pc[t] = "http_get" => bearer[t] # a \/ Two
    /\ Len(refused[t]) = 2 => refused[t][1] = None \/ refused[t][2] = None \/ Two

ClientInv ==
    /\ TypeOK
    /\ TokenInv
    /\ \A t \in Readers : OrderOf(t) /\ CacheOf(t) /\ RefusalOf(t)

-----------------------------------------------------------------------------
(* Counting the tokens.                                                    *)

\* Past the POST that its first, or its second, GET may have needed.
Fetched == {"store_token", "store_agent", "return_token", "http_get", "invalidate", "done"}
FirstFetch == {t \in Readers : attempt[t] = 2 \/ pc[t] \in Fetched}
SecondFetch == {t \in Readers : attempt[t] = 2 /\ pc[t] \in Fetched}

CountInv == issued <= Cardinality(FirstFetch) + Cardinality(SecondFetch)

\* The results without a private key, and the answers that have none.
NoKey == {"not_found", "empty", "other_text"}
Unusable == {"absent", "malformed", "blank", "other_text"}

\* What a thread reports of a path that holds a usable secret.
AnswerInv ==
    \A t \in Readers :
        pc[t] = "done" =>
            /\ result[t] \in Results
            /\ result[t] \in NoKey => Vault[path[t]] \in Unusable

-----------------------------------------------------------------------------
(* Types and frames.                                                       *)

\* What one thread's step leaves alone.
Frame(t) ==
    /\ UNCHANGED <<agent_id, path>>
    /\ \A q \in Readers \ {t} :
          /\ pc'[q] = pc[q] /\ fetched'[q] = fetched[q] /\ bearer'[q] = bearer[q]
          /\ attempt'[q] = attempt[q] /\ result'[q] = result[q] /\ refused'[q] = refused[q]

\* The step of a thread changes no other thread's locals.
LEMMA ReadFrame ==
    ASSUME TypeOK, NEW t \in Readers, Read(t)
    PROVE  Frame(t)
BY DEF TypeOK, Read, get_secret, test_token, test_agent, return_token, fetch, store_token,
       store_agent, http_get, invalidate, clear_token, clear_agent, legacy_resolve,
       Goto, Return, client, Frame

\* The first element of a sequence of one.
LEMMA Head1 ==
    ASSUME NEW S, NEW s \in Seq(S), Len(s) = 1
    PROVE  s[1] \in S
OBVIOUS

\* The handlers of both attempts answer every reply of 1Claw.
LEMMA ResultType ==
    ASSUME NEW answer \in Answers \cup {"unauthorised"}
    PROVE  /\ second_result(answer) \in Results
           /\ answer # "unauthorised" => first_result(answer) \in Results
BY DEF Answers, first_result, second_result, Results

\* 1Claw answers a read by what it holds, or refuses the bearer.
LEMMA AnswerType ==
    ASSUME TypeOK, NEW t \in Readers
    PROVE  /\ Vault[path[t]] \in Answers
           /\ http_answer(t) \in Answers \cup {"unauthorised"}
BY OneClawAssumption DEF TypeOK, Paths, http_answer

\* Every step keeps the types.
LEMMA TypeStep == TypeOK /\ [Next]_vars => TypeOK'
<1> SUFFICES ASSUME TypeOK, [Next]_vars PROVE TypeOK'
  OBVIOUS
<1> USE DEF TypeOK
<1>a. MaxTokens \in Nat
  BY OneClawAssumption
<1>1. ASSUME NEW t \in Readers, get_secret(t) \/ test_token(t) \/ test_agent(t)
      PROVE  TypeOK'
  BY <1>1 DEF get_secret, test_token, test_agent, Goto, client, Labels
<1>2. ASSUME NEW t \in Readers, return_token(t) \/ store_token(t) \/ store_agent(t)
      PROVE  TypeOK'
  <2>1. fetched[t] \in Tokens \cup {None}
    OBVIOUS
  <2>2. CASE return_token(t)
    BY <2>2 DEF return_token, Goto, client, Labels
  <2>3. CASE store_token(t)
    BY <2>1, <2>3 DEF store_token, Goto, client, Labels
  <2>4. CASE store_agent(t)
    BY <2>4 DEF store_agent, Goto, client, Labels
  <2> QED BY <1>2, <2>2, <2>3, <2>4
<1>3. ASSUME NEW t \in Readers, fetch(t) PROVE TypeOK'
  <2>1. CASE /\ issued < MaxTokens /\ issued' = issued + 1 /\ valid' = valid \cup {issued + 1}
             /\ fetched' = [fetched EXCEPT ![t] = issued + 1]
             /\ Goto(t, "store_token") /\ UNCHANGED result
    <3>1. issued + 1 \in Tokens /\ issued' \in 0..MaxTokens /\ valid' \subseteq 1..issued'
      BY <1>a, <2>1 DEF Tokens
    <3> QED BY <1>3, <2>1, <3>1 DEF fetch, Goto, client, Labels
  <2>2. CASE Return(t, "unavailable") /\ UNCHANGED <<issued, valid, fetched>>
    BY <1>3, <2>2 DEF fetch, Return, Goto, client, Labels, Results
  <2> QED BY <1>3, <2>1, <2>2 DEF fetch
<1>4. ASSUME NEW t \in Readers, http_get(t) PROVE TypeOK'
  <2>1. pc' \in [Readers -> Labels]
    BY <1>4 DEF http_get, Return, Goto, Labels
  <2>2. result' \in [Readers -> Results \cup {None}]
    <3>1. /\ second_result(http_answer(t)) \in Results
          /\ http_answer(t) # "unauthorised" => first_result(http_answer(t)) \in Results
      BY ResultType, AnswerType
    <3>2. \/ result' = result
          \/ \E x \in Results : result' = [result EXCEPT ![t] = x]
      BY <1>4, <3>1 DEF http_get, Return, Results
    <3> QED BY <3>2
  <2>3. refused' \in [Readers -> Seq(Tokens \cup {None})]
    <3>1. Append(refused[t], bearer[t]) \in Seq(Tokens \cup {None})
      OBVIOUS
    <3>2. refused' = refused \/ refused' = [refused EXCEPT ![t] = Append(refused[t], bearer[t])]
      BY <1>4 DEF http_get
    <3> QED BY <3>1, <3>2
  <2> QED BY <1>4, <2>1, <2>2, <2>3 DEF http_get, client
<1>5. ASSUME NEW t \in Readers, invalidate(t) \/ clear_token(t) \/ clear_agent(t)
      PROVE  TypeOK'
  BY <1>5 DEF invalidate, clear_token, clear_agent, Goto, client, Labels
<1>6. ASSUME NEW t \in Readers, legacy_resolve(t) PROVE TypeOK'
  <2>1. first_result(Vault[path[t]]) \in Results
    BY AnswerType, ResultType DEF Answers
  <2> QED BY <1>6, <2>1 DEF legacy_resolve, Return, Goto, client, Labels, Results
<1>7. CASE Expire
  BY <1>7 DEF Expire, client, locals
<1>8. CASE UNCHANGED vars
  BY <1>8 DEF vars, client, locals
<1> QED BY <1>1, <1>2, <1>3, <1>4, <1>5, <1>6, <1>7, <1>8 DEF Next, Read, Terminated

-----------------------------------------------------------------------------
(* A token is stored once.                                                 *)

\* What is known of tokens stays true.
Monotone ==
    /\ \A a : Stored(a) => Stored(a)'
    /\ \A a : Spent(a) => Spent(a)'
    /\ Expired \subseteq Expired'

\* A step that neither issues nor stores a token.
LEMMA QuietTokens ==
    ASSUME TypeOK, TokenInv, issued' = issued, valid' \subseteq valid,
           _access_token' = _access_token \/ _access_token' = None,
           \A u \in Readers : /\ fetched'[u] = fetched[u]
                              /\ pc[u] = "store_token" <=> pc'[u] = "store_token"
    PROVE  TokenInv' /\ Monotone
<1>1. \A a : Pending(a) <=> Pending(a)'
  BY DEF Pending
<1>2. \A a : Stored(a) <=> Stored(a)'
  BY <1>1 DEF Stored
<1>3. \A a : Spent(a) => Spent(a)'
  BY <1>2, OneClawAssumption DEF Spent, Stored, Tokens, TypeOK
<1>4. Expired \subseteq Expired'
  BY DEF Expired
<1>5. TokenInv'
  BY <1>2, OneClawAssumption DEF TokenInv
<1> QED BY <1>2, <1>3, <1>4, <1>5 DEF Monotone

\* _fetch_access_token gets a token that nobody has seen.
LEMMA FetchTokens ==
    ASSUME TypeOK, TokenInv, NEW t \in Readers, fetch(t)
    PROVE  TokenInv' /\ Monotone
<1> USE DEF TypeOK
<1>1. CASE Return(t, "unavailable") /\ UNCHANGED <<issued, valid, fetched>>
  BY <1>1, QuietTokens DEF fetch, At, Return, Goto, client
<1>2. CASE /\ issued' = issued + 1 /\ valid' = valid \cup {issued + 1}
           /\ fetched' = [fetched EXCEPT ![t] = issued + 1]
           /\ Goto(t, "store_token")
  <2>1. /\ pc[t] = "fetch" /\ pc'[t] = "store_token" /\ fetched'[t] = issued + 1
        /\ _access_token' = _access_token
        /\ \A u \in Readers \ {t} : pc'[u] = pc[u] /\ fetched'[u] = fetched[u]
    BY <1>2 DEF fetch, At, Goto, client
  <2>2. \A a : Pending(a)' <=> a = issued + 1 \/ Pending(a)
    BY <2>1 DEF Pending
  <2>3. \A a : Stored(a) => Stored(a)'
    BY <1>2, <2>2 DEF Stored
  <2>4. \A a : Spent(a) => Spent(a)'
    BY <2>1, <2>3 DEF Spent
  <2>5. Expired \subseteq Expired'
    BY <1>2 DEF Expired
  <2>6. TokenInv'
    <3>1. \A u \in Readers : pc'[u] = "store_token" => fetched'[u] \in 1..issued'
      BY <1>2, <2>1 DEF TokenInv
    <3>2. \A u \in Readers : pc[u] = "store_token" => fetched[u] # issued + 1
      BY DEF TokenInv
    <3>3. ASSUME NEW u \in Readers, NEW v \in Readers, pc'[u] = "store_token",
                 pc'[v] = "store_token", fetched'[u] = fetched'[v]
          PROVE  u = v
      <4>1. CASE u = t \/ v = t
        BY <2>1, <3>2, <3>3, <4>1
      <4>2. CASE u # t /\ v # t
        BY <2>1, <3>3, <4>2 DEF TokenInv
      <4> QED BY <4>1, <4>2
    <3>4. \A a \in Tokens : _access_token' = a => Stored(a)'
      BY <2>1, <2>3 DEF TokenInv
    <3> QED BY <3>1, <3>3, <3>4 DEF TokenInv
  <2> QED BY <2>3, <2>4, <2>5, <2>6 DEF Monotone
<1> QED BY <1>1, <1>2 DEF fetch

\* A fetched token is stored once, by the thread that fetched it.
LEMMA StoreTokens ==
    ASSUME TypeOK, TokenInv, NEW t \in Readers, store_token(t)
    PROVE  TokenInv' /\ Monotone
<1> USE DEF TypeOK
<1>1. /\ pc[t] = "store_token" /\ pc'[t] = "store_agent" /\ _access_token' = fetched[t]
      /\ \A u \in Readers \ {t} : pc'[u] = pc[u]
      /\ UNCHANGED <<issued, valid, fetched>>
  BY DEF store_token, At, Goto
<1>2. \A a : Pending(a)' <=> Pending(a) /\ a # fetched[t]
  BY <1>1 DEF Pending, TokenInv
<1>3. \A a : Stored(a) => Stored(a)'
  BY <1>1, <1>2 DEF Stored
<1>4. \A a : Spent(a) => Spent(a)'
  BY <1>1, <1>3 DEF Spent, Stored, Pending
<1>5. Expired' = Expired
  BY <1>1 DEF Expired
<1>6. \A a \in Tokens : _access_token' = a => Stored(a)'
  BY <1>1, <1>2 DEF Stored, TokenInv
<1>7. TokenInv'
  BY <1>1, <1>6 DEF TokenInv
<1> QED BY <1>3, <1>4, <1>5, <1>7 DEF Monotone

\* Every step keeps what is known of tokens.
LEMMA TokenStep ==
    ASSUME TypeOK, TokenInv, [Next]_vars
    PROVE  TokenInv' /\ Monotone
<1> USE DEF TypeOK
<1>1. ASSUME NEW t \in Readers,
             \/ get_secret(t) \/ test_token(t) \/ test_agent(t) \/ return_token(t)
             \/ store_agent(t) \/ http_get(t) \/ invalidate(t) \/ clear_token(t)
             \/ clear_agent(t) \/ legacy_resolve(t)
      PROVE  TokenInv' /\ Monotone
  <2>1. /\ pc[t] # "store_token" /\ pc'[t] # "store_token"
        /\ UNCHANGED <<issued, valid, fetched>>
        /\ _access_token' = _access_token \/ _access_token' = None
        /\ \A u \in Readers \ {t} : pc'[u] = pc[u]
    BY <1>1 DEF get_secret, test_token, test_agent, return_token, store_agent, http_get,
                invalidate, clear_token, clear_agent, legacy_resolve, At, Goto, Return, client
  <2> QED BY <2>1, QuietTokens
<1>2. CASE Expire \/ UNCHANGED vars
  BY <1>2, QuietTokens DEF Expire, vars, client, locals
<1> QED BY <1>1, <1>2, FetchTokens, StoreTokens DEF Next, Read, Terminated

\* What follows from it stays true too.
LEMMA Stays ==
    ASSUME Monotone
    PROVE  /\ Gone => Gone'
           /\ Two => Two'
           /\ \A a : Refusal(a) => Refusal(a)'
<1>1. Gone => Gone'
  BY DEF Monotone, Gone
<1>2. Two => Two'
  BY DEF Monotone, Two
<1>3. \A a : Refusal(a) => Refusal(a)'
  BY <1>1 DEF Monotone, Refusal
<1> QED BY <1>1, <1>2, <1>3

-----------------------------------------------------------------------------
(* Every refusal has its cause.                                            *)

\* The attributes are emptied only after a token expired and is gone.
LEMMA CacheStep ==
    ASSUME ClientInv, [Next]_vars, Monotone
    PROVE  /\ _access_token' = None => _access_token = None \/ Gone'
           /\ _access_token_agent' # agent_id' => _access_token_agent # agent_id \/ Gone'
<1> USE DEF ClientInv, TypeOK
<1>1. ASSUME NEW t \in Readers, clear_token(t) PROVE Gone'
  <2>1. Len(refused[t]) = 1 /\ _access_token' = None
    BY <1>1 DEF OrderOf, clear_token, At
  <2>2. PICK a \in Tokens \cup {None} : First(t, a)
    <3>1. refused[t] \in Seq(Tokens \cup {None})
      OBVIOUS
    <3> HIDE DEF ClientInv, TypeOK
    <3>2. refused[t][1] \in Tokens \cup {None}
      BY <2>1, <3>1, Head1
    <3> QED BY <2>1, <3>2 DEF First
  <2>3. Refusal(a)
    BY <2>2 DEF RefusalOf
  <2>4. CASE a = None
    BY <2>3, <2>4, Stays DEF Refusal
  <2>5. CASE a \in Tokens
    <3>1. Stored(a)' /\ a \in Expired'
      BY <2>3, <2>5, OneClawAssumption DEF Refusal, Monotone
    <3>2. Spent(a)'
      BY <2>1, <2>5, <3>1, OneClawAssumption DEF Spent
    <3> QED BY <3>1, <3>2 DEF Gone
  <2> QED BY <2>2, <2>4, <2>5
<1>2. ASSUME NEW t \in Readers, clear_agent(t) PROVE Gone'
  BY <1>2, Stays DEF clear_agent, At, CacheOf
<1>3. ASSUME NEW t \in Readers, store_token(t) \/ store_agent(t) \/ fetch(t)
      PROVE  /\ _access_token' = None => _access_token = None
             /\ _access_token_agent' # agent_id' => _access_token_agent # agent_id
  <2>1. store_token(t) => _access_token' # None
    BY OneClawAssumption DEF store_token, At, TokenInv, Tokens
  <2> QED BY <1>3, <2>1 DEF store_token, store_agent, fetch, client
<1>4. ASSUME NEW t \in Readers,
             \/ get_secret(t) \/ test_token(t) \/ test_agent(t) \/ return_token(t)
             \/ http_get(t) \/ invalidate(t) \/ legacy_resolve(t)
      PROVE  UNCHANGED <<_access_token, _access_token_agent, agent_id>>
  BY <1>4 DEF get_secret, test_token, test_agent, return_token, http_get, invalidate,
              legacy_resolve, client
<1>5. CASE Expire \/ UNCHANGED vars
  BY <1>5 DEF Expire, vars, client
<1>6. ASSUME NEW t \in Readers, clear_token(t) \/ clear_agent(t)
      PROVE  Gone'
  BY <1>1, <1>2, <1>6
<1> QED BY <1>3, <1>4, <1>5, <1>6 DEF Next, Read, Terminated

ThreadOf(t) == OrderOf(t) /\ CacheOf(t) /\ RefusalOf(t)

\* The steps of others leave a thread's part of the invariant true.
LEMMA ThreadFrame ==
    ASSUME ClientInv, [Next]_vars, Monotone, NEW q \in Readers,
           UNCHANGED <<agent_id, pc[q], bearer[q], attempt[q], refused[q]>>
    PROVE  ThreadOf(q)'
<1>1. OrderOf(q)'
  BY DEF ClientInv, OrderOf
<1>2. CacheOf(q)'
  BY CacheStep, Stays DEF ClientInv, CacheOf, SawToken, SawAgent
<1>3. RefusalOf(q)'
  <2>1. \A a : First(q, a)' <=> First(q, a)
    BY DEF First
  <2>2. RefusalOf(q)
    BY DEF ClientInv
  <2>3. \A a : (Stored(a) => Stored(a)') /\ (Spent(a) => Spent(a)')
    BY DEF Monotone
  <2> QED BY <2>1, <2>2, <2>3, Stays DEF RefusalOf
<1> QED BY <1>1, <1>2, <1>3 DEF ThreadOf

\* How often a thread was refused before its request goes out.
LEMMA Sending ==
    ASSUME NEW t, attempt[t] \in {1, 2}, OrderOf(t), pc[t] \in {"return_token", "http_get"}
    PROVE  Len(refused[t]) = attempt[t] - 1
<1>1. CASE attempt[t] = 1
  BY <1>1 DEF OrderOf
<1>2. CASE attempt[t] = 2
  BY <1>2 DEF OrderOf
<1> QED BY <1>1, <1>2

\* A step that neither sends nor is refused a request: the refusals of the
\* thread stay what they are.
LEMMA WaitingStep ==
    ASSUME ClientInv, [Next]_vars, Monotone, NEW t \in Readers,
           UNCHANGED <<agent_id, attempt[t], refused[t]>>,
           pc[t] \notin {"clear_token", "http_get", "done"}, pc'[t] # "http_get"
    PROVE  RefusalOf(t)'
<1>1. \A a : First(t, a)' <=> First(t, a)
  BY DEF First
<1>2. RefusalOf(t)
  BY DEF ClientInv
<1>3. \A a : (Stored(a) => Stored(a)') /\ (Spent(a) => Spent(a)')
  BY DEF Monotone
<1> QED BY <1>1, <1>2, <1>3, Stays DEF RefusalOf

\* A thread's own step keeps its part of the invariant.
LEMMA ThreadStep ==
    ASSUME ClientInv, [Next]_vars, Monotone, TypeOK', TokenInv', NEW t \in Readers, Read(t)
    PROVE  ThreadOf(t)'
<1> USE DEF ClientInv, TypeOK
<1>a. OrderOf(t) /\ CacheOf(t) /\ RefusalOf(t) /\ agent_id' = agent_id
  BY ReadFrame DEF Frame
<1>b. /\ refused[t] \in Seq(Tokens \cup {None}) /\ Len(refused[t]) \in Nat
      /\ attempt[t] \in {1, 2}
  OBVIOUS
<1>c. /\ _access_token' = None => _access_token = None \/ Gone'
      /\ _access_token_agent' # agent_id' => _access_token_agent # agent_id \/ Gone'
  BY CacheStep
<1>d. (Gone => Gone') /\ (Two => Two')
  BY Stays
<1>1. CASE get_secret(t) \/ test_token(t)
  <2>1. /\ pc[t] \in {"get_secret", "test_token"}
        /\ pc'[t] \in {"legacy", "test_token", "test_agent", "fetch"}
        /\ pc'[t] = "test_agent" => _access_token # None
        /\ UNCHANGED <<_access_token, attempt[t], refused[t]>>
    BY <1>1 DEF get_secret, test_token, At, Goto, client
  <2>2. OrderOf(t)'
    BY <1>a, <2>1 DEF OrderOf
  <2>3. CacheOf(t)'
    BY <1>a, <1>c, <1>d, <2>1 DEF CacheOf, SawToken, SawAgent
  <2>4. RefusalOf(t)'
    BY <1>a, <2>1, WaitingStep
  <2> QED BY <2>2, <2>3, <2>4 DEF ThreadOf
<1>2. CASE test_agent(t)
  <2>1. /\ pc[t] = "test_agent" /\ pc'[t] \in {"return_token", "fetch"}
        /\ pc'[t] = "return_token" => _access_token_agent = agent_id
        /\ UNCHANGED <<_access_token, _access_token_agent, attempt[t], refused[t]>>
    BY <1>2 DEF test_agent, At, Goto, client
  <2>2. OrderOf(t)'
    BY <1>a, <2>1 DEF OrderOf
  <2>3. CacheOf(t)'
    BY <1>a, <1>c, <1>d, <2>1 DEF CacheOf, SawToken, SawAgent
  <2>4. RefusalOf(t)'
    BY <1>a, <2>1, WaitingStep
  <2> QED BY <2>2, <2>3, <2>4 DEF ThreadOf
<1>3. CASE return_token(t)
  <2>1. /\ pc[t] = "return_token" /\ pc'[t] = "http_get" /\ bearer'[t] = _access_token
        /\ UNCHANGED <<_access_token, _access_token_agent, attempt[t], refused[t]>>
    BY <1>3 DEF return_token, At, Goto, client
  <2>2. OrderOf(t)'
    BY <1>a, <2>1 DEF OrderOf
  <2>3. CacheOf(t)'
    BY <1>a, <1>c, <1>d, <2>1 DEF CacheOf, SawToken, SawAgent
  <2>4. RefusalOf(t)'
    <3>1. \A a : First(t, a)' <=> First(t, a)
      BY <2>1 DEF First
    <3>2. _access_token = None => Gone
      BY <1>a, <2>1 DEF CacheOf, SawToken
    <3>3. \A a \in Tokens : _access_token = a => Stored(a)
      BY DEF TokenInv
    <3>4. \A a : (Stored(a) => Stored(a)') /\ (Spent(a) => Spent(a)') /\ (Refusal(a) => Refusal(a)')
      BY Stays DEF Monotone
    <3>5. \A a \in Tokens : First(t, a) /\ attempt[t] = 2 => Spent(a) \/ Two
      BY <1>a, <2>1 DEF RefusalOf
    <3>6. \A a \in Tokens : First(t, a) /\ attempt[t] = 2 => _access_token # a \/ Two
      BY <3>5 DEF Spent
    <3>a. Len(refused[t]) = attempt[t] - 1
      BY <1>a, <1>b, <2>1, Sending
    <3>7. Len(refused[t]) # 2
      BY <1>b, <3>a
    <3>8. \A a \in Tokens \cup {None} : First(t, a) => Refusal(a)
      BY <1>a DEF RefusalOf
    <3> QED BY <1>d, <2>1, <3>1, <3>2, <3>3, <3>4, <3>5, <3>6, <3>7, <3>8, OneClawAssumption
            DEF RefusalOf
  <2> QED BY <2>2, <2>3, <2>4 DEF ThreadOf
<1>4. CASE fetch(t) \/ store_token(t)
  <2>1. /\ pc[t] \in {"fetch", "store_token"}
        /\ pc'[t] \in {"store_token", "store_agent", "done"}
        /\ UNCHANGED <<_access_token_agent, attempt[t], refused[t]>>
    BY <1>4 DEF fetch, store_token, At, Goto, Return, client
  <2>2. OrderOf(t)'
    BY <1>a, <2>1 DEF OrderOf
  <2>3. CacheOf(t)'
    <3>1. pc'[t] = "store_agent" => _access_token' # None
      BY <1>4, <2>1, OneClawAssumption DEF fetch, store_token, At, Goto, Return, TokenInv, Tokens
    <3> QED BY <1>a, <1>c, <1>d, <2>1, <3>1 DEF CacheOf, SawToken, SawAgent
  <2>4. RefusalOf(t)'
    BY <1>a, <2>1, WaitingStep
  <2> QED BY <2>2, <2>3, <2>4 DEF ThreadOf
<1>5. CASE store_agent(t)
  <2>1. /\ pc[t] = "store_agent" /\ pc'[t] = "return_token"
        /\ _access_token_agent' = agent_id
        /\ UNCHANGED <<_access_token, attempt[t], refused[t]>>
    BY <1>5 DEF store_agent, At, Goto
  <2>2. OrderOf(t)'
    BY <1>a, <2>1 DEF OrderOf
  <2>3. CacheOf(t)'
    BY <1>a, <1>c, <1>d, <2>1 DEF CacheOf, SawToken, SawAgent
  <2>4. RefusalOf(t)'
    BY <1>a, <2>1, WaitingStep
  <2> QED BY <2>2, <2>3, <2>4 DEF ThreadOf
<1>6. CASE legacy_resolve(t)
  <2>1. /\ pc[t] = "legacy" /\ pc'[t] = "done"
        /\ UNCHANGED <<_access_token, _access_token_agent, attempt[t], refused[t]>>
    BY <1>6 DEF legacy_resolve, At, Goto, Return, client
  <2>2. OrderOf(t)'
    BY <1>a, <2>1 DEF OrderOf
  <2>3. CacheOf(t)'
    BY <1>a, <1>c, <1>d, <2>1 DEF CacheOf, SawToken, SawAgent
  <2>4. RefusalOf(t)'
    BY <1>a, <2>1, WaitingStep
  <2> QED BY <2>2, <2>3, <2>4 DEF ThreadOf
<1>7. CASE clear_token(t) \/ clear_agent(t)
  <2>1. /\ pc[t] \in {"clear_token", "clear_agent"}
        /\ pc'[t] = IF pc[t] = "clear_token" THEN "clear_agent" ELSE "test_token"
        /\ pc[t] = "clear_token" => _access_token' = None
        /\ UNCHANGED <<attempt[t], refused[t]>>
    BY <1>7 DEF clear_token, clear_agent, At, Goto
  <2>2. OrderOf(t)'
    BY <1>a, <2>1 DEF OrderOf
  <2>3. Len(refused[t]) = 1 /\ attempt[t] = 2
    BY <1>a, <2>1 DEF OrderOf
  <2>4. ASSUME NEW a \in Tokens, First(t, a), pc[t] = "clear_token"
        PROVE  Spent(a)' /\ a \in Expired'
    <3>1. Stored(a) /\ a \in Expired
      BY <1>a, <2>4, OneClawAssumption DEF RefusalOf, Refusal
    <3>2. Stored(a)' /\ a \in Expired'
      BY <3>1 DEF Monotone
    <3> QED BY <2>1, <2>4, <3>2, OneClawAssumption DEF Spent
  <2>5. Gone'
    <3>1. CASE pc[t] = "clear_agent"
      BY <1>a, <1>d, <3>1 DEF CacheOf
    <3>2. CASE pc[t] = "clear_token"
      <4>1. PICK a \in Tokens \cup {None} : First(t, a)
        <5>1. refused[t][1] \in Tokens \cup {None}
          BY <1>b, <2>3, Head1
        <5> QED BY <2>3, <5>1 DEF First
      <4>2. CASE a = None
        BY <1>a, <1>d, <4>1, <4>2 DEF RefusalOf, Refusal
      <4>3. CASE a \in Tokens
        BY <2>4, <3>2, <4>1, <4>3 DEF Gone
      <4> QED BY <4>1, <4>2, <4>3
    <3> QED BY <2>1, <3>1, <3>2
  <2>6. CacheOf(t)'
    BY <2>5 DEF CacheOf
  <2>7. RefusalOf(t)'
    <3>1. \A a : First(t, a)' <=> First(t, a)
      BY <2>1 DEF First
    <3>2. \A a : (Spent(a) => Spent(a)') /\ (Refusal(a) => Refusal(a)')
      BY Stays DEF Monotone
    <3>3. \A a \in Tokens : First(t, a) => Spent(a)' \/ Two'
      BY <1>a, <1>d, <2>1, <2>3, <2>4, <3>2 DEF RefusalOf
    <3>4. \A a \in Tokens \cup {None} : First(t, a) => Refusal(a)
      BY <1>a DEF RefusalOf
    <3> QED BY <2>1, <2>3, <3>1, <3>2, <3>3, <3>4 DEF RefusalOf
  <2> QED BY <2>2, <2>6, <2>7 DEF ThreadOf
<1>8. CASE invalidate(t)
  <2>1. /\ pc[t] = "invalidate" /\ attempt[t] = 1 /\ attempt'[t] = 2
        /\ pc'[t] = IF _access_token_agent = agent_id THEN "clear_token" ELSE "test_token"
        /\ UNCHANGED <<_access_token, _access_token_agent, refused[t]>>
    BY <1>8, <1>a DEF invalidate, At, Goto, client, OrderOf
  <2>2. OrderOf(t)'
    BY <1>a, <2>1 DEF OrderOf
  <2>3. CacheOf(t)'
    BY <1>a, <1>c, <1>d, <2>1 DEF CacheOf, SawToken, SawAgent
  <2>4. RefusalOf(t)'
    <3>1. \A a : First(t, a)' <=> First(t, a)
      BY <2>1 DEF First
    <3>2. \A a : (Spent(a) => Spent(a)') /\ (Refusal(a) => Refusal(a)')
      BY Stays DEF Monotone
    <3>3. \A a \in Tokens \cup {None} : First(t, a) => Refusal(a)
      BY <1>a DEF RefusalOf
    <3>4. ASSUME NEW a \in Tokens, First(t, a), pc'[t] # "clear_token" PROVE Spent(a) \/ Two
      <4>1. Gone /\ a \in Expired
        BY <1>a, <2>1, <3>3, <3>4, OneClawAssumption DEF CacheOf, SawAgent, Refusal
      <4>2. PICK c \in Expired : Spent(c)
        BY <4>1 DEF Gone
      <4> QED BY <4>1, <4>2 DEF Two
    <3>5. Len(refused[t]) = 1
      BY <1>a, <2>1 DEF OrderOf
    <3> QED BY <1>d, <2>1, <3>1, <3>2, <3>3, <3>4, <3>5 DEF RefusalOf
  <2> QED BY <2>2, <2>3, <2>4 DEF ThreadOf
<1>9. CASE http_get(t)
  <2>1. /\ pc[t] = "http_get" /\ UNCHANGED <<_access_token, _access_token_agent, attempt[t]>>
        /\ UNCHANGED <<issued, valid, fetched, bearer>>
    BY <1>9 DEF http_get, At, client
  <2>2. CacheOf(t)'
    <3>1. pc'[t] \in {"invalidate", "done"}
      BY <1>9 DEF http_get, Goto, Return
    <3> QED BY <1>a, <1>c, <1>d, <2>1, <3>1 DEF CacheOf, SawToken, SawAgent
  <2>3. CASE refused' = refused /\ pc'[t] = "done"
    <3>1. OrderOf(t)'
      BY <1>a, <2>1, <2>3 DEF OrderOf
    <3>2. RefusalOf(t)'
      <4>1. \A a : First(t, a)' <=> First(t, a)
        BY <2>3 DEF First
      <4> QED BY <1>a, <1>d, <2>3, <4>1, Stays DEF RefusalOf
    <3> QED BY <2>2, <3>1, <3>2 DEF ThreadOf
  <2>4. CASE /\ bearer[t] \notin valid
             /\ refused' = [refused EXCEPT ![t] = Append(@, bearer[t])]
             /\ \/ attempt[t] = 1 /\ pc'[t] = "invalidate"
                \/ attempt[t] = 2 /\ pc'[t] = "done"
    <3>1. /\ Len(refused'[t]) = Len(refused[t]) + 1
          /\ refused'[t][Len(refused[t]) + 1] = bearer[t]
          /\ \A i \in 1..Len(refused[t]) : refused'[t][i] = refused[t][i]
      BY <1>b, <2>4
    <3>2. Len(refused[t]) = attempt[t] - 1
      BY <1>a, <1>b, <2>1, Sending
    <3>3. OrderOf(t)'
      BY <2>1, <2>4, <3>1, <3>2 DEF OrderOf
    <3>4. Refusal(bearer[t])
      <4>1. PICK a \in Tokens \cup {None} : a = bearer[t]
        OBVIOUS
      <4>2. a # None => Stored(a)
        BY <1>a, <2>1, <4>1 DEF RefusalOf
      <4>3. a # None => a \in Expired
        BY <2>4, <4>1, <4>2 DEF Stored, Expired
      <4>4. a = None => Gone
        BY <1>a, <2>1, <4>1 DEF RefusalOf
      <4> QED BY <4>1, <4>2, <4>3, <4>4 DEF Refusal
    <3>5. CASE attempt[t] = 1
      <4>1. \A a : First(t, a)' <=> a = bearer[t]
        BY <3>1, <3>2, <3>5 DEF First
      <4> QED BY <2>1, <2>2, <2>4, <3>1, <3>2, <3>3, <3>4, <3>5, <4>1, Stays
              DEF ThreadOf, RefusalOf
    <3>6. CASE attempt[t] = 2
      <4>1. Len(refused[t]) = 1 /\ Len(refused'[t]) = 2
            /\ refused'[t][1] = refused[t][1] /\ refused'[t][2] = bearer[t]
        BY <3>1, <3>2, <3>6
      <4>2. \A a : First(t, a)' <=> First(t, a)
        BY <4>1 DEF First
      <4>3. PICK a \in Tokens \cup {None} : a = refused[t][1] /\ First(t, a)
        <5>1. refused[t][1] \in Tokens \cup {None}
          BY <1>b, <4>1, Head1
        <5> QED BY <4>1, <5>1 DEF First
      <4>4. a = None \/ bearer[t] = None \/ Two
        <5>1. a \in Tokens /\ bearer[t] # None => bearer[t] # a \/ Two
          BY <1>a, <2>1, <3>6, <4>3 DEF RefusalOf
        <5>2. a # None => a \in Expired
          BY <1>a, <4>3 DEF RefusalOf, Refusal
        <5>3. bearer[t] # None => bearer[t] \in Expired
          BY <3>4 DEF Refusal
        <5> QED BY <4>3, <5>1, <5>2, <5>3 DEF Two
      <4>5. \A b \in Tokens \cup {None} : First(t, b) => Refusal(b)'
        BY <1>a, Stays DEF RefusalOf
      <4> QED BY <1>d, <2>1, <2>2, <2>4, <3>3, <3>6, <4>1, <4>2, <4>3, <4>4, <4>5
              DEF ThreadOf, RefusalOf
    <3> QED BY <2>4, <3>5, <3>6
  <2>5. http_answer(t) = "unauthorised" => bearer[t] \notin valid
    BY AnswerType DEF http_answer, Answers
  <2> QED BY <1>9, <2>3, <2>4, <2>5 DEF http_get, Goto, Return
<1> QED BY <1>1, <1>2, <1>3, <1>4, <1>5, <1>6, <1>7, <1>8, <1>9 DEF Read

\* Every step preserves the invariant.
LEMMA ClientStep == ClientInv /\ [Next]_vars => ClientInv'
<1> SUFFICES ASSUME ClientInv, [Next]_vars PROVE ClientInv'
  OBVIOUS
<1>1. TypeOK' /\ TokenInv' /\ Monotone
  BY TypeStep, TokenStep DEF ClientInv
<1>2. \A q \in Readers : ThreadOf(q)'
  <2>1. ASSUME NEW t \in Readers, Read(t), NEW q \in Readers PROVE ThreadOf(q)'
    <3>1. CASE q = t
      BY <1>1, <2>1, <3>1, ThreadStep
    <3>2. CASE q # t
      BY <1>1, <2>1, <3>2, ReadFrame, ThreadFrame DEF Frame, ClientInv
    <3> QED BY <3>1, <3>2
  <2>2. CASE Expire \/ UNCHANGED vars
    BY <1>1, <2>2, ThreadFrame DEF Expire, vars, locals
  <2> QED BY <2>1, <2>2 DEF Next, Terminated
<1> QED BY <1>1, <1>2 DEF ClientInv, ThreadOf

\* Initially there is no token and no refusal.
LEMMA ClientInit == Init => ClientInv
<1> SUFFICES ASSUME Init PROVE ClientInv
  OBVIOUS
<1>1. TypeOK
  BY OneClawAssumption DEF Init, TypeOK, Labels
<1>2. TokenInv
  BY OneClawAssumption DEF Init, TokenInv
<1>3. ASSUME NEW t \in Readers PROVE OrderOf(t) /\ CacheOf(t) /\ RefusalOf(t)
  <2>1. pc[t] = "get_secret" /\ attempt[t] = 1 /\ refused[t] = <<>> /\ Len(refused[t]) = 0
    BY DEF Init
  <2> QED BY <2>1 DEF OrderOf, CacheOf, RefusalOf, SawToken, SawAgent, First
<1> QED BY <1>1, <1>2, <1>3 DEF ClientInv

-----------------------------------------------------------------------------
(* Two tokens per read.                                                    *)

\* Initially no token is issued.
LEMMA CountInit == Init => CountInv
<1> SUFFICES ASSUME Init PROVE CountInv
  OBVIOUS
<1>1. IsFiniteSet(FirstFetch) /\ IsFiniteSet(SecondFetch)
  BY OneClawAssumption, FS_Subset DEF FirstFetch, SecondFetch
<1>2. Cardinality(FirstFetch) \in Nat /\ Cardinality(SecondFetch) \in Nat
  BY <1>1, FS_CardinalityType
<1> QED BY <1>2 DEF Init, CountInv

\* A thread that is past its POST stays past it, and a POST takes a thread
\* past it that was not.
LEMMA CountStep == ClientInv /\ CountInv /\ [Next]_vars => CountInv'
<1> SUFFICES ASSUME ClientInv, CountInv, [Next]_vars PROVE CountInv'
  OBVIOUS
<1> USE DEF TypeOK
<1>a. IsFiniteSet(FirstFetch') /\ IsFiniteSet(SecondFetch')
  BY OneClawAssumption, FS_Subset DEF FirstFetch, SecondFetch
<1>b. TypeOK /\ \A t \in Readers : OrderOf(t)
  BY DEF ClientInv
<1>1. ASSUME FirstFetch \subseteq FirstFetch', SecondFetch \subseteq SecondFetch', issued' = issued
      PROVE  CountInv'
  <2>1. /\ Cardinality(FirstFetch) <= Cardinality(FirstFetch')
        /\ Cardinality(SecondFetch) <= Cardinality(SecondFetch')
    BY <1>a, <1>1, FS_Subset
  <2>2. /\ IsFiniteSet(FirstFetch) /\ IsFiniteSet(SecondFetch)
    BY <1>a, <1>1, FS_Subset
  <2>3. /\ Cardinality(FirstFetch) \in Nat /\ Cardinality(SecondFetch) \in Nat
        /\ Cardinality(FirstFetch') \in Nat /\ Cardinality(SecondFetch') \in Nat
    BY <1>a, <2>2, FS_CardinalityType
  <2> QED BY <1>1, <1>b, <2>1, <2>3 DEF CountInv
<1>2. ASSUME NEW t \in Readers,
             \/ get_secret(t) \/ test_token(t) \/ test_agent(t) \/ return_token(t)
             \/ store_token(t) \/ store_agent(t) \/ http_get(t) \/ invalidate(t)
             \/ clear_token(t) \/ clear_agent(t) \/ legacy_resolve(t)
      PROVE  CountInv'
  <2>1. /\ issued' = issued
        /\ \A q \in Readers \ {t} : pc'[q] = pc[q] /\ attempt'[q] = attempt[q]
    BY <1>2, <1>b, ReadFrame DEF Frame, Read, get_secret, test_token, test_agent, return_token,
         store_token, store_agent, http_get, invalidate, clear_token, clear_agent, legacy_resolve
  <2>2. /\ attempt[t] = 2 => attempt'[t] = 2
        /\ pc[t] \in Fetched => pc'[t] \in Fetched \/ (attempt[t] = 1 /\ attempt'[t] = 2)
    <3>1. pc[t] = "invalidate" => attempt[t] = 1
      BY <1>b DEF OrderOf
    <3> QED BY <1>2, <1>b, <3>1 DEF get_secret, test_token, test_agent, return_token,
         store_token, store_agent, http_get, invalidate, clear_token, clear_agent,
         legacy_resolve, At, Goto, Return, Fetched
  <2>3. FirstFetch \subseteq FirstFetch'
    BY <2>1, <2>2 DEF FirstFetch
  <2>4. SecondFetch \subseteq SecondFetch'
    BY <2>1, <2>2 DEF SecondFetch
  <2> QED BY <1>1, <2>1, <2>3, <2>4
<1>3. ASSUME NEW t \in Readers, fetch(t) PROVE CountInv'
  <2>1. /\ pc[t] = "fetch" /\ pc'[t] \in Fetched /\ attempt'[t] = attempt[t]
        /\ issued' \in {issued, issued + 1}
        /\ \A q \in Readers \ {t} : pc'[q] = pc[q] /\ attempt'[q] = attempt[q]
    BY <1>3, <1>b DEF fetch, At, Goto, Return, Fetched
  <2>2. FirstFetch' = FirstFetch \cup {t}
    BY <2>1 DEF FirstFetch, Fetched
  <2>3. CASE attempt[t] = 2
    <3>1. t \in FirstFetch /\ t \notin SecondFetch /\ SecondFetch' = SecondFetch \cup {t}
      BY <2>1, <2>3 DEF FirstFetch, SecondFetch, Fetched
    <3>2. FirstFetch' = FirstFetch
      BY <2>2, <3>1
    <3>3. IsFiniteSet(FirstFetch) /\ IsFiniteSet(SecondFetch)
      BY OneClawAssumption, FS_Subset DEF FirstFetch, SecondFetch
    <3>4. Cardinality(SecondFetch') = Cardinality(SecondFetch) + 1
      BY <3>1, <3>3, FS_AddElement
    <3>5. Cardinality(FirstFetch) \in Nat /\ Cardinality(SecondFetch) \in Nat
      BY <3>3, FS_CardinalityType
    <3> QED BY <1>b, <2>1, <3>2, <3>4, <3>5 DEF CountInv
  <2>4. CASE attempt[t] = 1
    <3>1. t \notin FirstFetch /\ SecondFetch' = SecondFetch
      BY <2>1, <2>4 DEF FirstFetch, SecondFetch, Fetched
    <3>2. IsFiniteSet(FirstFetch) /\ IsFiniteSet(SecondFetch)
      BY OneClawAssumption, FS_Subset DEF FirstFetch, SecondFetch
    <3>3. Cardinality(FirstFetch') = Cardinality(FirstFetch) + 1
      BY <2>2, <3>1, <3>2, FS_AddElement
    <3>4. Cardinality(FirstFetch) \in Nat /\ Cardinality(SecondFetch) \in Nat
      BY <3>2, FS_CardinalityType
    <3> QED BY <1>b, <2>1, <3>1, <3>3, <3>4 DEF CountInv
  <2> QED BY <1>b, <2>3, <2>4
<1>4. CASE Expire \/ UNCHANGED vars
  <2>1. UNCHANGED <<pc, attempt, issued>>
    BY <1>4 DEF Expire, vars, locals
  <2>2. FirstFetch' = FirstFetch /\ SecondFetch' = SecondFetch
    BY <2>1 DEF FirstFetch, SecondFetch
  <2> QED BY <1>1, <2>1, <2>2
<1> QED BY <1>2, <1>3, <1>4 DEF Next, Read, Terminated

\* A 401 is retried once and 1Claw issues at most two tokens per read,
\* however the threads invalidate each other's tokens: there is no storm of
\* refreshes, for any number of threads.
THEOREM RetriedOnce == Spec => []OneRetry
<1>1. ClientInv /\ CountInv => OneRetry
  <2> SUFFICES ASSUME ClientInv, CountInv PROVE OneRetry
    OBVIOUS
  <2>1. \A t \in Readers : Len(refused[t]) <= 2
    BY DEF ClientInv, OrderOf
  <2>2. /\ Cardinality(FirstFetch) <= Cardinality(Readers)
        /\ Cardinality(SecondFetch) <= Cardinality(Readers)
        /\ IsFiniteSet(FirstFetch) /\ IsFiniteSet(SecondFetch)
    BY OneClawAssumption, FS_Subset DEF FirstFetch, SecondFetch
  <2>3. /\ Cardinality(FirstFetch) \in Nat /\ Cardinality(SecondFetch) \in Nat
        /\ Cardinality(Readers) \in Nat
    BY <2>2, OneClawAssumption, FS_CardinalityType
  <2>4. issued \in Nat
    BY OneClawAssumption DEF ClientInv, TypeOK
  <2> QED BY <2>1, <2>2, <2>3, <2>4 DEF CountInv, OneRetry
<1> QED BY <1>1, ClientInit, ClientStep, CountInit, CountStep, PTL DEF Spec

\* One expiry is absorbed by the retry: a read is refused twice only when
\* two tokens expired or when one of its requests carried no token, for
\* any interleaving of the unlocked reads and writes of the attributes.
THEOREM ExpiryAbsorbed == Spec => []OneExpiryIsAbsorbed
<1>1. ClientInv => OneExpiryIsAbsorbed
  <2> SUFFICES ASSUME ClientInv, NEW t \in Readers, Len(refused[t]) = 2,
                      ~\E i \in DOMAIN refused[t] : refused[t][i] = None
               PROVE  Cardinality(Expired) >= 2
    BY DEF OneExpiryIsAbsorbed
  <2>1. refused[t][1] # None /\ refused[t][2] # None
    <3>1. refused[t] \in Seq(Tokens \cup {None})
      BY DEF ClientInv, TypeOK
    <3>2. 1 \in DOMAIN refused[t] /\ 2 \in DOMAIN refused[t]
      BY <3>1
    <3> QED BY <3>2
  <2>2. PICK a, b \in Expired : a # b
    BY <2>1 DEF ClientInv, RefusalOf, Two
  <2>3. IsFiniteSet(Expired)
    <3>1. IsFiniteSet(1..issued)
      BY OneClawAssumption, FS_Interval DEF ClientInv, TypeOK
    <3> QED BY <3>1, FS_Subset DEF Expired
  <2>4. Cardinality({a}) = 1 /\ IsFiniteSet({a})
    BY FS_Singleton
  <2>5. Cardinality({a} \cup {b}) = 2
    <3>1. b \notin {a}
      BY <2>2
    <3>2. Cardinality({a} \cup {b}) = Cardinality({a}) + 1
      BY <2>4, <3>1, FS_AddElement
    <3> QED BY <2>4, <3>2
  <2>6. {a} \cup {b} \subseteq Expired
    BY <2>2
  <2>7. 2 <= Cardinality(Expired)
    BY <2>3, <2>5, <2>6, FS_Subset
  <2>8. Cardinality(Expired) \in Nat
    BY <2>3, FS_CardinalityType
  <2> QED BY <2>7, <2>8
<1> QED BY <1>1, ClientInit, ClientStep, PTL DEF Spec

-----------------------------------------------------------------------------
(* Missing keys.                                                           *)

\* The result of a read stays what the vault's answer made it.
LEMMA AnswerStep == TypeOK /\ AnswerInv /\ [Next]_vars => AnswerInv'
<1> SUFFICES ASSUME TypeOK, AnswerInv, [Next]_vars, NEW q \in Readers
             PROVE  pc'[q] = "done" =>
                       /\ result'[q] \in Results
                       /\ result'[q] \in NoKey => Vault[path'[q]] \in Unusable
  BY DEF AnswerInv
<1> DEFINE Missing == Vault[path[q]] \in Unusable
<1>1. CASE UNCHANGED <<path, pc[q], result[q]>>
  BY <1>1 DEF AnswerInv
<1>2. CASE UNCHANGED <<path, result[q]>> /\ pc'[q] # "done"
  BY <1>2 DEF AnswerInv
<1>3. CASE /\ UNCHANGED path /\ result'[q] \in Results
           /\ result'[q] \in NoKey => Missing
  BY <1>3
<1>a. Vault[path[q]] \in Answers /\ http_answer(q) \in Answers \cup {"unauthorised"}
  BY AnswerType
<1>b. \A answer \in Answers \cup {"unauthorised"} :
        /\ second_result(answer) \in Results
        /\ answer # "unauthorised" => first_result(answer) \in Results
        /\ second_result(answer) \in NoKey => answer \in Unusable
        /\ answer # "unauthorised" /\ first_result(answer) \in NoKey =>
              answer \in Unusable
  BY DEF Answers, first_result, second_result, Results, NoKey, Unusable
<1>c. http_answer(q) # "unauthorised" => http_answer(q) = Vault[path[q]]
  BY DEF http_answer
<1>4. CASE http_get(q)
  <2>1. UNCHANGED path
    BY <1>4 DEF http_get
  <2>2. CASE result' = result /\ pc' = [pc EXCEPT ![q] = "invalidate"]
    BY <1>2, <2>1, <2>2 DEF TypeOK
  <2>3. ASSUME NEW x \in Results, result' = [result EXCEPT ![q] = x],
               x \in NoKey => Missing
        PROVE  result'[q] \in Results /\ (result'[q] \in NoKey => Missing)
    BY <2>3 DEF TypeOK
  <2>4. CASE http_answer(q) = "unauthorised" /\ Return(q, second_result(http_answer(q)))
    <3>1. second_result("unauthorised") = "unavailable"
      BY DEF second_result
    <3> QED BY <1>3, <2>1, <2>3, <2>4, <3>1 DEF Return, Results, NoKey
  <2>5. CASE /\ http_answer(q) # "unauthorised"
             /\ \E x \in {first_result(http_answer(q)), second_result(http_answer(q))} :
                   Return(q, x)
    BY <1>3, <1>a, <1>b, <1>c, <2>1, <2>3, <2>5 DEF Return
  <2>6. CASE Return(q, "unavailable")
    BY <1>3, <2>1, <2>3, <2>6 DEF Return, Results, NoKey
  <2> QED BY <1>4, <2>2, <2>4, <2>5, <2>6 DEF http_get, Goto
<1>5. CASE legacy_resolve(q)
  <2>1. first_result(Vault[path[q]]) \in Results
    BY <1>a, <1>b DEF Answers
  <2>2. first_result(Vault[path[q]]) \in NoKey => Missing
    BY <1>a, <1>b DEF Answers
  <2>3. UNCHANGED path
    BY <1>5 DEF legacy_resolve
  <2>4. result'[q] \in {first_result(Vault[path[q]]), "unavailable"}
    BY <1>5 DEF legacy_resolve, Return, TypeOK
  <2> QED BY <1>3, <2>1, <2>2, <2>3, <2>4 DEF Results, NoKey
<1>6. CASE fetch(q)
  <2>1. CASE result' = result /\ pc' = [pc EXCEPT ![q] = "store_token"]
    BY <1>2, <1>6, <2>1 DEF fetch, TypeOK
  <2>2. CASE Return(q, "unavailable")
    BY <1>3, <1>6, <2>2 DEF fetch, Return, TypeOK, Results, NoKey
  <2> QED BY <1>6, <2>1, <2>2 DEF fetch, Goto
<1>7. CASE \/ get_secret(q) \/ test_token(q) \/ test_agent(q) \/ return_token(q)
           \/ store_token(q) \/ store_agent(q) \/ invalidate(q) \/ clear_token(q)
           \/ clear_agent(q)
  <2>1. UNCHANGED <<path, result>> /\ pc'[q] # "done"
    BY <1>7 DEF get_secret, test_token, test_agent, return_token, store_token, store_agent,
                invalidate, clear_token, clear_agent, Goto, TypeOK
  <2> QED BY <1>2, <2>1
<1>8. ASSUME NEW t \in Readers, t # q, Read(t) PROVE UNCHANGED <<path, pc[q], result[q]>>
  BY <1>8, ReadFrame DEF Frame
<1>9. CASE Expire \/ UNCHANGED vars
  BY <1>1, <1>9 DEF Expire, vars, locals
<1>10. ASSUME NEW t \in Readers, t # q, Read(t)
       PROVE  pc'[q] = "done" =>
                 /\ result'[q] \in Results
                 /\ result'[q] \in NoKey => Vault[path'[q]] \in Unusable
  BY <1>1, <1>8, <1>10
<1> QED BY <1>4, <1>5, <1>6, <1>7, <1>9, <1>10 DEF Next, Read, Terminated

\* A key is reported missing only for a path without a usable secret, never
\* because a token was refused or a request failed.
THEOREM MissingIsMissing == Spec => []MissingKeyIsMissing
<1>1. Init => TypeOK /\ AnswerInv
  <2>1. Init => AnswerInv
    BY OneClawAssumption DEF Init, AnswerInv
  <2> QED BY <2>1, ClientInit DEF ClientInv
<1>2. AnswerInv => MissingKeyIsMissing
  BY DEF AnswerInv, MissingKeyIsMissing, _load_private_key, At, Results, NoKey, Unusable
<1> QED BY <1>1, <1>2, TypeStep, AnswerStep, PTL DEF Spec

=============================================================================
