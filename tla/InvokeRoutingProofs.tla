-------------------------- MODULE InvokeRoutingProofs --------------------------
(***************************************************************************)
(* Theorems about the way of an intent through validation, the graphs and  *)
(* the tools, for every set of requests, chains, addresses and names.      *)
(*                                                                         *)
(* The invariant follows one request through its phases.  While names are  *)
(* resolved, the merged payload is the payload of the request, except that *)
(* some names have been replaced by an address their record has held; once *)
(* the model has accepted it, canonical is the model of that payload and   *)
(* raw_input the request rewritten with it; and a request that ended has   *)
(* one of four outcomes.  Two facts carry the proof: parsing what a parse  *)
(* produced gives it back (ParseAgain), and a resolved address is not a    *)
(* name, so that no field is resolved twice.                               *)
(***************************************************************************)
EXTENDS InvokeRouting, WellFoundedInduction, TLAPS

\* None is not an object, a list or a text.
NoneIsNoFunction == None # [k \in DOMAIN None |-> None[k]]

\* The object that a request's kind is read from does not itself wrap another
\* intent.
WrappedOnce(raw) == ~IsObject(Get(_unwrap_payload(raw), "intent"))
RequestsWrapOnce == \A raw \in RawInputs : IsText(KindOf(raw)) => WrappedOnce(raw)

StateFields ==
    {"node", "request", "raw_input", "merged", "fields", "answer", "canonical", "graph",
     "parsed_intent", "chain_name", "error", "tool", "tool_input", "tool_result", "prepared",
     "status"}

Shape ==
    /\ DOMAIN state = Requests
    /\ state = [r \in Requests |-> state[r]]
    /\ \A r \in Requests : DOMAIN state[r] = StateFields

-----------------------------------------------------------------------------
(* What a tool is given.                                                   *)

\* An intent that a model accepted.
Modelled(c) ==
    \E k \in DOMAIN KindSpellings :
        /\ c["kind"] = Text(k)
        /\ \A f \in AddressFields[k] : c[f] \in Addresses
        /\ k = "token_prices" =>
              /\ Len(c["tokens"]) \in 1..MaxTokens
              /\ Cardinality({e.chain : e \in ToSet(c["tokens"])}) <= MaxTokenChains
        /\ k = "portfolio_tokens" => Len(c["chains"]) \in 1..MaxNetworks
        /\ k = "transfer_history" =>
              /\ c["max_count"] \in 1..MaxCount
              /\ c["direction"] = "both" => c["page_key"] = None

\* The conclusion of ToolInputIsServable for one request.
InputServable(s) ==
    LET input == s.tool_input
    IN  /\ \A f \in AddressesIn(input) : input[f] \in Addresses
        /\ "chain" \in DOMAIN input => input["chain"] \in SupportedChains
        /\ s.tool = "get_token_prices" =>
              /\ Len(input["tokens"]) \in 1..MaxTokens
              /\ {e.chain : e \in ToSet(input["tokens"])} \subseteq AlchemyChains
              /\ Cardinality({e.chain : e \in ToSet(input["tokens"])}) <= MaxTokenChains
        /\ s.tool = "get_portfolio_tokens" =>
              /\ Len(input["chains"]) \in 1..MaxNetworks
              /\ ToSet(input["chains"]) \subseteq AlchemyChains
        /\ s.tool = "get_transfer_history" =>
              /\ input["chain"] \in AlchemyChains
              /\ input["max_count"] \in 1..MaxCount
              /\ input["direction"] = "both" => input["page_key"] = None

ReadOk(s) ==
    /\ s.node \in {"resolve_chain", "tool"} => Modelled(s.parsed_intent)
    /\ s.node = "tool" =>
          /\ ResolvableChains(s.parsed_intent)
          /\ s.chain_name = Head(ChainsOf(s.parsed_intent))
    /\ s.tool = None \/ InputServable(s)

ReadInv == Shape /\ \A r \in Requests : ReadOk(state[r])

-----------------------------------------------------------------------------
(* The phases of a request.                                                *)

NameFields ==
    {"recipient_address", "spender_address", "wallet_address", "owner_address",
     "contract_address"}

\* What the merged payload m was before its names were resolved: m0.
Resolves(m, m0, held) ==
    LET chain == effective_chain_name_for_resolution(m0)
    IN  /\ DOMAIN m = DOMAIN m0
        /\ \A f \in DOMAIN m0 :
              \/ m[f] = m0[f]
              \/ /\ f \in NameFields /\ m0[f] \in Names /\ chain \in SupportedChains
                 /\ m[f] \in held[<<m0[f], chain>>] \cap Addresses

\* The request passed the input check, and nothing has been done with it.
Sane(s, held) ==
    /\ ~IsText(s.request) /\ IsText(KindOf(s.request))
    /\ Resolves(s.merged, merged_invoke_validation_payload(s.request), held)

Untouched(s) ==
    /\ s.parsed_intent = None /\ s.tool = None /\ s.tool_result = None /\ s.prepared = None
    /\ s.status = None /\ s.error = None

\* A name is being looked up.
LookingUp(s) ==
    /\ s.fields # <<>>
    /\ Head(s.fields) \in DOMAIN s.merged
    /\ s.merged[Head(s.fields)] \in Names
    /\ effective_chain_name_for_resolution(s.merged) \in SupportedChains

Resolving(s, held) ==
    /\ Sane(s, held) /\ Untouched(s)
    /\ s.raw_input = s.request /\ s.graph = None /\ s.canonical = None
    /\ s.fields \in Seq(NameFields)
    /\ s.node \in {"ens_address", "store_answer"} => LookingUp(s)
    /\ s.node = "store_answer" =>
          s.answer \in Addresses \cap
            held[<<s.merged[Head(s.fields)], effective_chain_name_for_resolution(s.merged)>>]

Arrived(s) ==
    /\ Untouched(s)
    /\ s.raw_input = s.request /\ s.graph = None /\ s.canonical = None

Refused(s) ==
    /\ s.error \in {"unsupported_intent", "validation_failed", "raised"}
    /\ s.graph = None /\ s.canonical = None /\ s.parsed_intent = None /\ s.tool = None
    /\ s.tool_result = None /\ s.prepared = None

\* The model the kind selects.
ModelOf(kind, merged) ==
    IF kind \in _VALUE_MOVING_KINDS THEN ValueMovingIntent(kind, merged)
    ELSE IF kind \in DOMAIN _KIND_ALIASES THEN _parse_structured_intent(merged) ELSE Unsupported

Accepted(s, held) ==
    /\ Sane(s, held)
    /\ s.canonical = ModelOf(strip(KindOf(s.request)), s.merged)
    /\ s.canonical \notin {Invalid, Unsupported}
    /\ s.raw_input = merge_canonical_into_raw_input(s.request, s.canonical)

MovesValue(s) == strip(KindOf(s.request)) \in _VALUE_MOVING_KINDS

\* The outcomes of a request that a graph worked on.
Prepared(s) ==
    /\ MovesValue(s)
    /\ s.graph \in DOMAIN RoutedKinds
    /\ s.error = None /\ s.parsed_intent = None /\ s.tool = None /\ s.tool_result = None
    /\ s.prepared = Put(s.canonical, "kind", Text(strip(KindOf(s.request))))

NotRecognised(s) ==
    /\ MovesValue(s)
    /\ WrappedOnce(s.request) => ~PlainKind(s.request)
    /\ s.error = None /\ s.tool = None /\ s.tool_result = None /\ s.prepared = None

NotServed(s) ==
    /\ ~MovesValue(s) /\ s.graph = "read" /\ s.parsed_intent = s.canonical
    /\ s.error = "missing_chain_config"
    /\ s.tool = None /\ s.tool_result = None /\ s.prepared = None

Called(s) ==
    /\ ~MovesValue(s) /\ s.graph = "read" /\ s.parsed_intent = s.canonical /\ s.prepared = None
    /\ s.tool = _READ_ROUTES[strip(s.canonical["kind"])]
    /\ \E c \in {Head(ChainsOf(s.canonical))} : s.tool_input = _tool_input_for_state(s.canonical, c)
    /\ \/ s.error = None /\ s.tool_result = "result"
       \/ s.error = "tool_error" /\ s.tool_result = None

Ended(s, held) ==
    Accepted(s, held) /\ (Prepared(s) \/ NotRecognised(s) \/ NotServed(s) \/ Called(s))

\* Where the request is, and what is known there.
Phase(s, held) ==
    /\ s.node = "validate" => Arrived(s)
    /\ s.node \in {"resolve_names", "ens_address", "store_answer"} => Resolving(s, held)
    /\ s.node \in {"select_graph", "route_intent", "prepare", "parse_intent", "resolve_chain",
                   "tool", "unsupported_response", "format_response"} => Accepted(s, held)
    /\ s.node = "select_graph" => Untouched(s) /\ s.graph = None
    /\ s.node \in {"route_intent", "prepare", "parse_intent"} =>
          Untouched(s) /\ s.graph = _graph_selection_for_state(s.raw_input)
    /\ s.node \in {"route_intent", "prepare"} => s.graph \in DOMAIN RoutedKinds
    /\ s.node = "prepare" =>
          \E k \in RoutedKinds[s.graph] : Get(_unwrap_payload(s.raw_input), "kind") = Text(k)
    /\ s.node = "parse_intent" => s.graph = "read"
    /\ s.node \in {"resolve_chain", "tool"} =>
          /\ ~MovesValue(s) /\ s.graph = "read" /\ s.parsed_intent = s.canonical
          /\ s.error = None /\ s.tool = None /\ s.tool_result = None /\ s.prepared = None
          /\ s.status = None
    /\ s.node = "tool" => s.chain_name = Head(ChainsOf(s.canonical))
    /\ s.node = "unsupported_response" => NotRecognised(s) /\ s.status = None
    /\ s.node = "format_response" => (NotServed(s) \/ Called(s)) /\ s.status = None
    /\ s.node = "respond" => (Refused(s) \/ Ended(s, held)) /\ s.status = None
    /\ s.node = "done" => (Refused(s) \/ Ended(s, held)) /\ s.status = StatusOf(s)

Nodes ==
    {"validate", "resolve_names", "ens_address", "store_answer", "select_graph", "route_intent",
     "prepare", "parse_intent", "resolve_chain", "tool", "unsupported_response",
     "format_response", "respond", "done"}

RequestOk(s, held) == s.request \in RawInputs /\ s.node \in Nodes /\ Phase(s, held)

\* The shared state: the records, their history and the cache.
RecordsOk ==
    /\ published \in [Records -> SUBSET (RecordValues \cup {None})]
    /\ ens \in [Records -> RecordValues \cup {None}]
    /\ \A k \in Records : ens[k] \in published[k]

CacheOk ==
    /\ DOMAIN _cache \subseteq Records
    /\ \A k \in DOMAIN _cache : _cache[k] \in published[k] \cap Addresses

RoutingInv ==
    Shape /\ RecordsOk /\ CacheOk /\ \A r \in Requests : RequestOk(state[r], published)


-----------------------------------------------------------------------------
(* Objects and patches.                                                    *)

\* dict.update: what the updated object holds.
LEMMA UpdateFacts ==
    ASSUME NEW o, NEW p
    PROVE  /\ DOMAIN Update(o, p) = DOMAIN o \cup DOMAIN p
           /\ Update(o, p) = [k \in DOMAIN Update(o, p) |-> Update(o, p)[k]]
           /\ \A k \in DOMAIN p : Update(o, p)[k] = p[k]
           /\ \A k \in DOMAIN o \ DOMAIN p : Update(o, p)[k] = o[k]
           /\ \A k : k \notin DOMAIN p => Get(Update(o, p), k) = Get(o, k)
           /\ \A k \in DOMAIN p : Get(Update(o, p), k) = p[k]
BY DEF Update, Get

\* The same of an object of which one field is written.
LEMMA PutFacts ==
    ASSUME NEW o, NEW f, NEW v
    PROVE  /\ DOMAIN Put(o, f, v) = DOMAIN o \cup {f}
           /\ Put(o, f, v) = [k \in DOMAIN Put(o, f, v) |-> Put(o, f, v)[k]]
           /\ Put(o, f, v)[f] = v
           /\ \A k \in DOMAIN o \ {f} : Put(o, f, v)[k] = o[k]
           /\ \A k : k # f => Get(Put(o, f, v), k) = Get(o, k)
           /\ Get(Put(o, f, v), f) = v
BY DEF Update, Get, Put

\* A node changes the state of its own request, in the fields of its patch.
LEMMA PatchFacts ==
    ASSUME Shape, NEW r \in Requests, NEW p, DOMAIN p \subseteq StateFields, Patch(r, p)
    PROVE  /\ Shape'
           /\ \A q \in Requests \ {r} : state'[q] = state[q]
           /\ state'[r] = Update(state[r], p)
BY DEF Shape, Patch, Update

\* No object is None.
LEMMA ObjectIsNotNone ==
    ASSUME NoneIsNoFunction, NEW o, o = [k \in DOMAIN o |-> o[k]]
    PROVE  o # None
BY DEF NoneIsNoFunction

-----------------------------------------------------------------------------
(* The read-only models.                                                   *)

\* Every alias names a kind, every kind is its own alias, and no value-moving
\* kind is one.
LEMMA KindFacts ==
    /\ DOMAIN _KIND_ALIASES = UNION {KindSpellings[k] : k \in DOMAIN KindSpellings}
    /\ \A a \in DOMAIN _KIND_ALIASES : _KIND_ALIASES[a] \in DOMAIN KindSpellings
    /\ \A k \in DOMAIN KindSpellings : k \in DOMAIN _KIND_ALIASES /\ _KIND_ALIASES[k] = k
    /\ _VALUE_MOVING_KINDS \cap DOMAIN _KIND_ALIASES = {}
<1>1. DOMAIN _KIND_ALIASES = UNION {KindSpellings[k] : k \in DOMAIN KindSpellings}
  BY DEF _KIND_ALIASES
<1>2. \A a \in DOMAIN _KIND_ALIASES :
        _KIND_ALIASES[a] \in DOMAIN KindSpellings /\ a \in KindSpellings[_KIND_ALIASES[a]]
  <2> TAKE a \in DOMAIN _KIND_ALIASES
  <2>1. \E k \in DOMAIN KindSpellings : a \in KindSpellings[k]
    BY <1>1
  <2>2. _KIND_ALIASES[a] = CHOOSE k \in DOMAIN KindSpellings : a \in KindSpellings[k]
    BY <1>1 DEF _KIND_ALIASES
  <2> QED
    BY <2>1, <2>2
<1>3. \A k \in DOMAIN KindSpellings : k \in KindSpellings[k]
  BY DEF KindSpellings
<1>4. \A j, k \in DOMAIN KindSpellings : k \in KindSpellings[j] => j = k
  BY DEF KindSpellings
<1>5. _VALUE_MOVING_KINDS \cap DOMAIN _KIND_ALIASES = {}
  BY <1>1 DEF KindSpellings, _VALUE_MOVING_KINDS
<1> QED
  BY <1>1, <1>2, <1>3, <1>4, <1>5

\* The fields of every model.
LEMMA BaseFacts ==
    ASSUME NEW k \in DOMAIN KindSpellings, NEW p
    PROVE  /\ DOMAIN BaseIntent(k, p) = AddressFields[k] \cup OtherFields(k) \cup {"kind", "chain"}
           /\ BaseIntent(k, p) = [f \in DOMAIN BaseIntent(k, p) |-> BaseIntent(k, p)[f]]
           /\ BaseIntent(k, p)["kind"] = Text(k)
           /\ BaseIntent(k, p)["chain"] = Get(p, "chain")
           /\ \A f \in AddressFields[k] \cup OtherFields(k) : BaseIntent(k, p)[f] = Get(p, f)
<1>1. {"kind", "chain"} \cap (AddressFields[k] \cup OtherFields(k)) = {}
  BY DEF KindSpellings, AddressFields, OtherFields
<1> QED
  BY <1>1 DEF BaseIntent, Update

\* The objects that the models with fields of their own return.
TokenPricesPatch(p) == [chain |-> None, tokens |-> TokenEntries(p), token_address |-> None]
PortfolioPatch(p) ==
    [chain |-> None, chains |-> PortfolioChains(p), networks |-> None,
     page_key |-> Get(p, "page_key")]
DirectionGiven(p) == IF Get(p, "direction") = None THEN "both" ELSE p["direction"]
CategoriesGiven(p) ==
    IF IsEmpty(Get(p, "categories")) THEN DefaultCategories ELSE p["categories"]
CountGiven(p) == IF Get(p, "max_count") = None THEN DefaultCount ELSE p["max_count"]
HistoryPatch(p) ==
    [direction |-> Directions[DirectionGiven(p)],
     categories |-> CategoriesGiven(p),
     max_count |-> CountGiven(p),
     page_key |-> IF Directions[DirectionGiven(p)] = "both" THEN None ELSE Get(p, "page_key")]

\* The kinds whose model adds or drops fields.
LEMMA OwnFields ==
    ASSUME NEW p
    PROVE  /\ TokenPricesIntent(p) # Invalid =>
                TokenPricesIntent(p) = Update(BaseIntent("token_prices", p), TokenPricesPatch(p))
           /\ PortfolioTokensIntent(p) # Invalid =>
                PortfolioTokensIntent(p) = Update(BaseIntent("portfolio_tokens", p), PortfolioPatch(p))
           /\ TransferHistoryIntent(p) # Invalid =>
                TransferHistoryIntent(p) = Update(BaseIntent("transfer_history", p), HistoryPatch(p))
<1>1. TokenPricesIntent(p) # Invalid =>
        TokenPricesIntent(p) = Update(BaseIntent("token_prices", p), TokenPricesPatch(p))
  BY Zenon DEF TokenPricesIntent, TokenPricesPatch
<1>2. PortfolioTokensIntent(p) # Invalid =>
        PortfolioTokensIntent(p) = Update(BaseIntent("portfolio_tokens", p), PortfolioPatch(p))
  BY Zenon DEF PortfolioTokensIntent, PortfolioPatch
<1>3. TransferHistoryIntent(p) # Invalid =>
        TransferHistoryIntent(p) = Update(BaseIntent("transfer_history", p), HistoryPatch(p))
  BY Zenon DEF TransferHistoryIntent, HistoryPatch, DirectionGiven, CategoriesGiven, CountGiven
<1> QED
  BY <1>1, <1>2, <1>3

\* What ReadIntent keeps of the payload, for every kind.
LEMMA ReadIntentFacts ==
    ASSUME NEW k \in DOMAIN KindSpellings, NEW p, ReadIntent(k, p) # Invalid
    PROVE  /\ HasBaseFields(k, p)
           /\ ReadIntent(k, p) = [f \in DOMAIN ReadIntent(k, p) |-> ReadIntent(k, p)[f]]
           /\ AddressFields[k] \cup OtherFields(k) \cup {"kind", "chain"}
                \subseteq DOMAIN ReadIntent(k, p)
           /\ {"intent", "text", "type"} \cap DOMAIN ReadIntent(k, p) = {}
           /\ ReadIntent(k, p)["kind"] = Text(k)
           /\ \A f \in AddressFields[k] \cup OtherFields(k) : ReadIntent(k, p)[f] = Get(p, f)
           /\ k \notin {"token_prices", "portfolio_tokens"} =>
                ReadIntent(k, p)["chain"] = Get(p, "chain")
<1> DEFINE b == BaseIntent(k, p)
           F == AddressFields[k] \cup OtherFields(k)
           c == ReadIntent(k, p)
<1>1. HasBaseFields(k, p)
  BY DEF ReadIntent
<1>2. {"intent", "text", "type"} \cap (F \cup {"kind", "chain"}) = {}
  BY DEF KindSpellings, AddressFields, OtherFields
<1>3. /\ DOMAIN b = F \cup {"kind", "chain"}
      /\ b = [f \in DOMAIN b |-> b[f]]
      /\ b["kind"] = Text(k)
      /\ b["chain"] = Get(p, "chain")
      /\ \A f \in F : b[f] = Get(p, f)
  BY BaseFacts
<1>4. \/ c = b
      \/ k = "token_prices" /\ c = Update(b, TokenPricesPatch(p))
      \/ k = "portfolio_tokens" /\ c = Update(b, PortfolioPatch(p))
      \/ k = "transfer_history" /\ c = Update(b, HistoryPatch(p))
  BY <1>1, OwnFields, Zenon DEF ReadIntent
<1>5. /\ DOMAIN TokenPricesPatch(p) = {"chain", "tokens", "token_address"}
      /\ DOMAIN PortfolioPatch(p) = {"chain", "chains", "networks", "page_key"}
      /\ DOMAIN HistoryPatch(p) = {"direction", "categories", "max_count", "page_key"}
  BY DEF TokenPricesPatch, PortfolioPatch, HistoryPatch
<1>6. /\ k = "token_prices" => F = {}
      /\ k \in {"portfolio_tokens", "transfer_history"} => F = {"wallet_address"}
  BY DEF AddressFields, OtherFields
<1> HIDE DEF b, c, F
<1>7. /\ c = [f \in DOMAIN c |-> c[f]]
      /\ F \cup {"kind", "chain"} \subseteq DOMAIN c
      /\ {"intent", "text", "type"} \cap DOMAIN c = {}
      /\ c["kind"] = b["kind"]
      /\ \A f \in F : c[f] = b[f]
      /\ k \notin {"token_prices", "portfolio_tokens"} => c["chain"] = b["chain"]
  <2>1. CASE c = b
    BY <2>1, <1>2, <1>3
  <2>2. CASE k = "token_prices" /\ c = Update(b, TokenPricesPatch(p))
    <3> DEFINE q == TokenPricesPatch(p)
    <3>1. DOMAIN q = {"chain", "tokens", "token_address"} /\ c = Update(b, q)
      BY <2>2, <1>5
    <3> HIDE DEF q
    <3> QED
      BY <2>2, <3>1, <1>2, <1>3, <1>6 DEF Update
  <2>3. CASE k = "portfolio_tokens" /\ c = Update(b, PortfolioPatch(p))
    <3> DEFINE q == PortfolioPatch(p)
    <3>1. DOMAIN q = {"chain", "chains", "networks", "page_key"} /\ c = Update(b, q)
      BY <2>3, <1>5
    <3> HIDE DEF q
    <3> QED
      BY <2>3, <3>1, <1>2, <1>3, <1>6 DEF Update
  <2>4. CASE k = "transfer_history" /\ c = Update(b, HistoryPatch(p))
    <3> DEFINE q == HistoryPatch(p)
    <3>1. DOMAIN q = {"direction", "categories", "max_count", "page_key"} /\ c = Update(b, q)
      BY <2>4, <1>5
    <3> HIDE DEF q
    <3> QED
      BY <2>4, <3>1, <1>2, <1>3, <1>6 DEF Update
  <2> QED
    BY <1>4, <2>1, <2>2, <2>3, <2>4
<1> QED
  BY <1>1, <1>3, <1>7 DEF b, c, F


\* What each model has checked.
LEMMA ReadIntentModelled ==
    ASSUME NEW k \in DOMAIN KindSpellings, NEW p, ReadIntent(k, p) # Invalid
    PROVE  Modelled(ReadIntent(k, p))
<1> DEFINE c == ReadIntent(k, p)
<1>1. /\ c["kind"] = Text(k)
      /\ \A f \in AddressFields[k] : c[f] \in Addresses
  BY ReadIntentFacts DEF HasBaseFields
<1>2. ASSUME k = "token_prices"
      PROVE  /\ Len(c["tokens"]) \in 1..MaxTokens
             /\ Cardinality({e.chain : e \in ToSet(c["tokens"])}) <= MaxTokenChains
  <2>1. c = TokenPricesIntent(p) /\ TokenPricesIntent(p) # Invalid
    BY <1>2 DEF ReadIntent
  <2>2. c["tokens"] = TokenEntries(p)
    <3>1. c = Update(BaseIntent("token_prices", p), TokenPricesPatch(p))
      BY <2>1, OwnFields, Zenon
    <3> QED
      BY <3>1 DEF Update, TokenPricesPatch
  <2> QED
    BY <2>1, <2>2 DEF TokenPricesIntent
<1>3. ASSUME k = "portfolio_tokens"
      PROVE  Len(c["chains"]) \in 1..MaxNetworks
  <2>1. c = PortfolioTokensIntent(p) /\ PortfolioTokensIntent(p) # Invalid
    BY <1>3 DEF ReadIntent
  <2>2. c["chains"] = PortfolioChains(p)
    <3>1. c = Update(BaseIntent("portfolio_tokens", p), PortfolioPatch(p))
      BY <2>1, OwnFields, Zenon
    <3> QED
      BY <3>1 DEF Update, PortfolioPatch
  <2> QED
    BY <2>1, <2>2 DEF PortfolioTokensIntent
<1>4. ASSUME k = "transfer_history"
      PROVE  /\ c["max_count"] \in 1..MaxCount
             /\ c["direction"] = "both" => c["page_key"] = None
  <2>1. c = TransferHistoryIntent(p) /\ TransferHistoryIntent(p) # Invalid
    BY <1>4 DEF ReadIntent
  <2>2. /\ c["max_count"] = CountGiven(p)
        /\ c["direction"] = Directions[DirectionGiven(p)]
        /\ c["page_key"] = IF Directions[DirectionGiven(p)] = "both" THEN None
                           ELSE Get(p, "page_key")
    <3>1. c = Update(BaseIntent("transfer_history", p), HistoryPatch(p))
      BY <2>1, OwnFields, Zenon
    <3> QED
      BY <3>1 DEF Update, HistoryPatch
  <2>3. CountGiven(p) \in 1..MaxCount
    BY <2>1, Zenon DEF TransferHistoryIntent, CountGiven
  <2> QED
    BY <2>2, <2>3
<1> HIDE DEF c
<1> QED
  BY <1>1, <1>2, <1>3, <1>4 DEF Modelled, c

-----------------------------------------------------------------------------
(* What a tool is given can be served.                                     *)

\* resolve_chain and the models have checked what the tools rely on.
LEMMA ServableInput ==
    ASSUME NEW c, Modelled(c), ResolvableChains(c), NEW s,
           s.tool = _READ_ROUTES[strip(c["kind"])],
           s.tool_input = _tool_input_for_state(c, Head(ChainsOf(c)))
    PROVE  InputServable(s)
<1>1. PICK k \in DOMAIN KindSpellings :
        /\ c["kind"] = Text(k)
        /\ \A f \in AddressFields[k] : c[f] \in Addresses
        /\ k = "token_prices" =>
              /\ Len(c["tokens"]) \in 1..MaxTokens
              /\ Cardinality({e.chain : e \in ToSet(c["tokens"])}) <= MaxTokenChains
        /\ k = "portfolio_tokens" => Len(c["chains"]) \in 1..MaxNetworks
        /\ k = "transfer_history" =>
              /\ c["max_count"] \in 1..MaxCount
              /\ c["direction"] = "both" => c["page_key"] = None
  BY DEF Modelled
<1>2. strip(c["kind"]) = k
  BY <1>1 DEF strip, Text
<1> DEFINE input == s.tool_input
           chain == Head(ChainsOf(c))
           Alchemy == {"token_prices", "portfolio_tokens", "transfer_history"}
<1>3. /\ DOMAIN input = ToolFields(k) \cup (IF k \in {"token_prices", "portfolio_tokens"}
                                           THEN {} ELSE {"chain"})
      /\ \A f \in ToolFields(k) : input[f] = c[f]
      /\ k \notin {"token_prices", "portfolio_tokens"} => input["chain"] = chain
  <2>1. "chain" \notin ToolFields(k)
    BY DEF ToolFields, KindSpellings, AddressFields, OtherFields
  <2> HIDE DEF chain
  <2> QED
    BY <1>2, <2>1 DEF _tool_input_for_state, Put, Update, chain
<1>4. \A d \in ToSet(ChainsOf(c)) :
        IF k \in Alchemy THEN d \in AlchemyChains ELSE d \in SupportedChains
  BY <1>2 DEF ResolvableChains, CoveredByAlchemy, mercury_chain_to_alchemy_network,
              get_chain_by_name
<1>5. /\ s.tool = "get_token_prices" => k = "token_prices"
      /\ s.tool = "get_portfolio_tokens" => k = "portfolio_tokens"
      /\ s.tool = "get_transfer_history" => k = "transfer_history"
  BY <1>2 DEF _READ_ROUTES, KindSpellings
<1>6. ASSUME k \notin {"token_prices", "portfolio_tokens"}
      PROVE  chain \in SupportedChains /\ (k = "transfer_history" => chain \in AlchemyChains)
  <2>1. ChainsOf(c) = <<effective_chain_name_for_resolution(c)>>
    BY <1>2, <1>6 DEF ChainsOf
  <2>2. chain = effective_chain_name_for_resolution(c) /\ chain \in ToSet(ChainsOf(c))
    BY <2>1 DEF ToSet
  <2> QED
    BY <2>2, <1>4, <1>6, IntentAssumption
<1>7. \A f \in AddressesIn(input) : input[f] \in Addresses
  <2>1. ToolFields(k) \cap {"wallet_address", "owner_address", "spender_address",
                            "contract_address", "token_address", "recipient_address"}
          \subseteq AddressFields[k]
    BY DEF ToolFields, KindSpellings, AddressFields, OtherFields
  <2> HIDE DEF input
  <2> QED
    BY <2>1, <1>1, <1>3 DEF AddressesIn
<1>8. ASSUME k = "token_prices"
      PROVE  {e.chain : e \in ToSet(c["tokens"])} \subseteq AlchemyChains
  <2>1. ChainsOf(c) = [i \in DOMAIN c["tokens"] |-> c["tokens"][i].chain]
    BY <1>2, <1>8 DEF ChainsOf
  <2> QED
    BY <2>1, <1>4, <1>8 DEF ToSet
<1>9. ASSUME k = "portfolio_tokens"
      PROVE  ToSet(c["chains"]) \subseteq AlchemyChains
  BY <1>2, <1>4, <1>9 DEF ChainsOf
<1>10. /\ k = "token_prices" => input["tokens"] = c["tokens"]
       /\ k = "portfolio_tokens" => input["chains"] = c["chains"]
       /\ k = "transfer_history" => /\ input["max_count"] = c["max_count"]
                                    /\ input["direction"] = c["direction"]
                                    /\ input["page_key"] = c["page_key"]
  BY <1>3 DEF ToolFields
<1>11. "chain" \in DOMAIN input => k \notin {"token_prices", "portfolio_tokens"}
  BY <1>3 DEF ToolFields
<1> HIDE DEF input, chain
<1> QED
  BY <1>1, <1>3, <1>5, <1>6, <1>7, <1>8, <1>9, <1>10, <1>11 DEF InputServable, input

\* The fields of a patched state.
LEMMA PatchedFields ==
    ASSUME NEW s, DOMAIN s = StateFields, NEW p, DOMAIN p \subseteq StateFields
    PROVE  /\ DOMAIN Update(s, p) = StateFields
           /\ \A f \in StateFields : Update(s, p)[f] = IF f \in DOMAIN p THEN p[f] ELSE s[f]
BY DEF Update

\* A patch of a node before or after the two that prepare a tool call.
LEMMA ReadOkElsewhere ==
    ASSUME NEW s, DOMAIN s = StateFields, ReadOk(s),
           NEW p, DOMAIN p \subseteq StateFields \ {"tool", "tool_input"},
           Update(s, p).node \notin {"resolve_chain", "tool"}
    PROVE  ReadOk(Update(s, p))
<1> DEFINE t == Update(s, p)
<1>1. t.tool = s.tool /\ t.tool_input = s.tool_input /\ t.node \notin {"resolve_chain", "tool"}
  BY PatchedFields DEF StateFields, Update
<1> HIDE DEF t
<1>2. s.tool = None \/ InputServable(s)
  BY DEF ReadOk
<1>3. t.tool = None \/ InputServable(t)
  BY <1>1, <1>2 DEF InputServable
<1> QED
  BY <1>1, <1>3 DEF ReadOk, t

\* One step of a request, or of the owners of the names.
LEMMA ReadInvNext ==
    ReadInv /\ [Next]_vars => ReadInv'
<1> SUFFICES ASSUME ReadInv, [Next]_vars
             PROVE  ReadInv'
  OBVIOUS
<1>1. ASSUME NEW r \in Requests, NEW p, DOMAIN p \subseteq StateFields, Patch(r, p),
             ReadOk(Update(state[r], p))
      PROVE  ReadInv'
  BY <1>1, PatchFacts DEF ReadInv
<1>2. ASSUME NEW r \in Requests, NEW p, DOMAIN p \subseteq StateFields \ {"tool", "tool_input"},
             Patch(r, p), Update(state[r], p).node \notin {"resolve_chain", "tool"}
      PROVE  ReadInv'
  BY <1>1, <1>2, ReadOkElsewhere DEF ReadInv, Shape
<1>3. ASSUME NEW r \in Requests, NEW p, DOMAIN p \subseteq StateFields \ {"tool", "tool_input"},
             Patch(r, p), "node" \in DOMAIN p, p["node"] \notin {"resolve_chain", "tool"}
      PROVE  ReadInv'
  BY <1>2, <1>3 DEF Update
<1>4. ASSUME NEW r \in Requests, validate(r)
      PROVE  ReadInv'
  <2>1. PICK p : /\ Patch(r, p) /\ DOMAIN p \subseteq StateFields \ {"tool", "tool_input"}
                 /\ "node" \in DOMAIN p /\ p["node"] \in {"respond", "resolve_names"}
    BY <1>4 DEF validate, StateFields
  <2> QED
    BY <1>3, <2>1
<1>5. ASSUME NEW r \in Requests, resolve_evm_identifier(r)
      PROVE  ReadInv'
  <2>1. PICK p : /\ Patch(r, p) /\ DOMAIN p \subseteq StateFields \ {"tool", "tool_input"}
                 /\ \/ "node" \notin DOMAIN p
                    \/ "node" \in DOMAIN p /\ p["node"] \in {"respond", "ens_address"}
    BY <1>5 DEF resolve_evm_identifier, StateFields
  <2>2. state[r].node = "resolve_names" /\ DOMAIN state[r] = StateFields
    BY <1>5 DEF resolve_evm_identifier, At, ReadInv, Shape
  <2>3. Update(state[r], p).node \notin {"resolve_chain", "tool"}
    BY <2>1, <2>2 DEF Update, StateFields
  <2> QED
    BY <1>2, <2>1, <2>3
<1>6. ASSUME NEW r \in Requests,
             \/ ens_address(r) \/ store_answer(r) \/ validate_model(r) \/ select_graph(r)
             \/ route_intent(r) \/ prepare(r) \/ format_response(r) \/ respond(r)
      PROVE  ReadInv'
  <2>1. PICK p : /\ Patch(r, p) /\ DOMAIN p \subseteq StateFields \ {"tool", "tool_input"}
                 /\ "node" \in DOMAIN p /\ p["node"] \notin {"resolve_chain", "tool"}
    <3>1. CASE ens_address(r)
      BY <3>1 DEF ens_address, StateFields
    <3>2. CASE store_answer(r)
      BY <3>2 DEF store_answer, StateFields
    <3>3. CASE validate_model(r)
      BY <3>3 DEF validate_model, StateFields
    <3>4. CASE select_graph(r)
      BY <3>4 DEF select_graph, StateFields
    <3>5. CASE route_intent(r)
      BY <3>5 DEF route_intent, StateFields
    <3>6. CASE prepare(r)
      BY <3>6 DEF prepare, StateFields
    <3>7. CASE format_response(r)
      BY <3>7 DEF format_response, StateFields
    <3>8. CASE respond(r)
      BY <3>8 DEF respond, StateFields
    <3> QED
      BY <1>6, <3>1, <3>2, <3>3, <3>4, <3>5, <3>6, <3>7, <3>8
  <2> QED
    BY <1>3, <2>1
<1>7. ASSUME NEW r \in Requests, parse_intent(r)
      PROVE  ReadInv'
  <2> DEFINE parsed == _parse_structured_intent(state[r].raw_input)
  <2>1. CASE parsed \in {Invalid, Unsupported}
    <3>1. PICK p : /\ Patch(r, p) /\ DOMAIN p \subseteq StateFields \ {"tool", "tool_input"}
                   /\ "node" \in DOMAIN p /\ p["node"] \notin {"resolve_chain", "tool"}
      BY <1>7, <2>1 DEF parse_intent, StateFields
    <3> QED
      BY <1>3, <3>1
  <2>2. CASE parsed \notin {Invalid, Unsupported}
    <3> DEFINE p == [parsed_intent |-> parsed, node |-> "resolve_chain"]
    <3>1. Patch(r, p)
      BY <1>7, <2>2 DEF parse_intent
    <3>2. Modelled(parsed)
      <4> DEFINE payload == _unwrap_payload(state[r].raw_input)
                 given == raw_kind(payload)
      <4>1. strip(given) \in DOMAIN _KIND_ALIASES
            /\ parsed = ReadIntent(_KIND_ALIASES[strip(given)], payload)
        BY <2>2, Zenon DEF _parse_structured_intent
      <4> HIDE DEF payload, given
      <4>2. _KIND_ALIASES[strip(given)] \in DOMAIN KindSpellings
        BY <4>1, KindFacts
      <4> QED
        BY <2>2, <4>1, <4>2, ReadIntentModelled
    <3>3. DOMAIN state[r] = StateFields /\ (state[r].tool = None \/ InputServable(state[r]))
      BY DEF ReadInv, Shape, ReadOk
    <3> HIDE DEF parsed
    <3>4. ReadOk(Update(state[r], p))
      <4> DEFINE t == Update(state[r], p)
      <4>1. /\ t.node = "resolve_chain" /\ t.parsed_intent = parsed
            /\ t.tool = state[r].tool /\ t.tool_input = state[r].tool_input
        BY <3>3 DEF Update, StateFields
      <4> HIDE DEF t
      <4>2. t.tool = None \/ InputServable(t)
        BY <3>3, <4>1 DEF InputServable
      <4> QED
        BY <3>2, <4>1, <4>2 DEF ReadOk, t
    <3> QED
      BY <1>1, <3>1, <3>4 DEF StateFields
  <2> QED
    BY <2>1, <2>2
<1>8. ASSUME NEW r \in Requests, resolve_chain(r)
      PROVE  ReadInv'
  <2> DEFINE c == state[r].parsed_intent
  <2>1. CASE ~ResolvableChains(c)
    <3>1. PICK p : /\ Patch(r, p) /\ DOMAIN p \subseteq StateFields \ {"tool", "tool_input"}
                   /\ "node" \in DOMAIN p /\ p["node"] \notin {"resolve_chain", "tool"}
      BY <1>8, <2>1 DEF resolve_chain, StateFields
    <3> QED
      BY <1>3, <3>1
  <2>2. CASE ResolvableChains(c)
    <3> DEFINE p == [chain_name |-> Head(ChainsOf(c)), node |-> "tool"]
    <3>1. Patch(r, p)
      BY <1>8, <2>2 DEF resolve_chain
    <3>2. /\ DOMAIN state[r] = StateFields /\ Modelled(c)
          /\ state[r].tool = None \/ InputServable(state[r])
      BY <1>8 DEF resolve_chain, At, ReadInv, Shape, ReadOk
    <3>3. ReadOk(Update(state[r], p))
      <4> DEFINE t == Update(state[r], p)
      <4>1. /\ t.node = "tool" /\ t.parsed_intent = c /\ t.chain_name = Head(ChainsOf(c))
            /\ t.tool = state[r].tool /\ t.tool_input = state[r].tool_input
        BY <3>2 DEF Update, StateFields
      <4> HIDE DEF t, c
      <4>2. t.tool = None \/ InputServable(t)
        BY <3>2, <4>1 DEF InputServable
      <4> QED
        BY <2>2, <3>2, <4>1, <4>2 DEF ReadOk, t
    <3> QED
      BY <1>1, <3>1, <3>3 DEF StateFields
  <2> QED
    BY <2>1, <2>2
<1>9. ASSUME NEW r \in Requests, execute_read_tool(r)
      PROVE  ReadInv'
  <2> DEFINE c == state[r].parsed_intent
             tool == _READ_ROUTES[strip(c["kind"])]
             input == _tool_input_for_state(c, state[r].chain_name)
             call == [tool |-> tool, node |-> "format_response", tool_input |-> input]
  <2>1. PICK f \in {"tool_result", "error"} : \E v \in {"result", "tool_error"} : Patch(r, Put(call, f, v))
    BY <1>9 DEF execute_read_tool
  <2>2. PICK v \in {"result", "tool_error"} : Patch(r, Put(call, f, v))
    BY <2>1
  <2> DEFINE p == Put(call, f, v)
  <2>3. /\ DOMAIN p \subseteq StateFields
        /\ {"tool", "tool_input", "node"} \subseteq DOMAIN p
        /\ p["tool"] = tool /\ p["tool_input"] = input /\ p["node"] = "format_response"
    <3> HIDE DEF tool, input
    <3> QED
      BY DEF Put, Update, StateFields
  <2>4. /\ DOMAIN state[r] = StateFields /\ Modelled(c) /\ ResolvableChains(c)
        /\ state[r].chain_name = Head(ChainsOf(c))
    BY <1>9 DEF execute_read_tool, At, ReadInv, Shape, ReadOk
  <2> DEFINE t == Update(state[r], p)
  <2>5. t.tool = tool /\ t.tool_input = input /\ t.node = "format_response"
    <3> HIDE DEF p, tool, input
    <3> QED
      BY <2>3 DEF Update
  <2> HIDE DEF c, t
  <2>6. InputServable(t)
    BY <2>4, <2>5, ServableInput
  <2>7. ReadOk(t)
    BY <2>5, <2>6 DEF ReadOk
  <2> QED
    BY <1>1, <2>2, <2>3, <2>7 DEF t
<1>10. CASE SetRecord \/ UNCHANGED vars
  <2>1. UNCHANGED state
    BY <1>10 DEF SetRecord, vars
  <2> QED
    BY <2>1 DEF ReadInv, Shape
<1> QED
  BY <1>4, <1>5, <1>6, <1>7, <1>8, <1>9, <1>10 DEF Next, Step, ReadStep

\* Whatever the request, the inputs of every tool call satisfy the schema of
\* the tool and name chains it serves: the models, resolve_chain and
\* _tool_input_for_state leave nothing unchecked between them.
THEOREM ToolInputsServable == Spec => []ToolInputIsServable
<1>1. Init => ReadInv
  <2> SUFFICES ASSUME Init
               PROVE  ReadInv
    OBVIOUS
  <2>1. PICK a \in Arrivals :
          state = [r \in Requests |-> NewState(_intent_with_boundary_fields(a[r]))]
    BY DEF Init
  <2>2. Shape
    BY <2>1 DEF Shape, NewState, StateFields
  <2>3. \A r \in Requests : state[r].node = "validate" /\ state[r].tool = None
    BY <2>1 DEF NewState
  <2> QED
    BY <2>2, <2>3 DEF ReadInv, ReadOk
<1>2. ReadInv => ToolInputIsServable
  BY DEF ReadInv, ReadOk, InputServable, ToolInputIsServable
<1> QED
  BY <1>1, <1>2, ReadInvNext, PTL DEF Spec

-----------------------------------------------------------------------------
(* The chains of a portfolio, without repetitions.                         *)

\* The accumulator of the loop of Distinct, after n rounds.
Scan(s, seen, n) ==
    seen = [i \in 0..n |->
              IF i = 0 THEN <<>>
              ELSE IF s[i] \in ToSet(seen[i - 1]) THEN seen[i - 1] ELSE Append(seen[i - 1], s[i])]

NoRepeats(q) == \A i, j \in DOMAIN q : q[i] = q[j] => i = j

\* A set of numbers has a least one.
LEMMA LeastExists ==
    ASSUME NEW S \in SUBSET Nat, S # {}
    PROVE  \E i \in S : \A j \in S : i <= j
<1>1. PICK i \in S : \A j \in S : <<j, i>> \notin OpToRel(<, Nat)
  BY NatLessThanWellFounded, WFMin
<1>2. \A j \in S : ~(j < i)
  BY <1>1 DEF OpToRel
<1> QED BY <1>2

\* The loop runs for any number of rounds.
LEMMA ScanRuns ==
    ASSUME NEW s, NEW n \in Nat
    PROVE  \E seen : Scan(s, seen, n)
<1> DEFINE Bad == {m \in Nat : ~\E seen : Scan(s, seen, m)}
<1> SUFFICES ASSUME Bad # {} PROVE FALSE
  OBVIOUS
<1>1. PICK m \in Bad : \A j \in Bad : m <= j
  BY LeastExists, Bad \in SUBSET Nat
<1>2. CASE m = 0
  <2> DEFINE seen == [i \in 0..0 |-> <<>>]
  <2>1. Scan(s, seen, 0)
    BY DEF Scan
  <2> QED BY <1>1, <1>2, <2>1
<1>3. CASE m # 0
  <2>1. m - 1 \in Nat /\ m - 1 \notin Bad
    BY <1>1, <1>3
  <2>2. PICK g : Scan(s, g, m - 1)
    BY <2>1
  <2> DEFINE body(h, i) ==
                 IF i = 0 THEN <<>>
                 ELSE IF s[i] \in ToSet(h[i - 1]) THEN h[i - 1] ELSE Append(h[i - 1], s[i])
             seen == [i \in 0..m |-> IF i = m THEN body(g, m) ELSE g[i]]
  <2>3. \A i \in 0..(m - 1) : g[i] = body(g, i)
    BY <2>1, <2>2 DEF Scan
  <2>4. \A i \in 0..m : i # 0 => seen[i - 1] = g[i - 1]
    BY <1>3, <2>1
  <2>5. \A i \in 0..m : seen[i] = IF i = m THEN body(g, m) ELSE g[i]
    OBVIOUS
  <2>6. \A i \in 0..m : body(seen, i) = body(g, i)
    <3> HIDE DEF seen
    <3> QED BY <2>4
  <2>7. \A i \in 0..m : seen[i] = body(g, i)
    <3> HIDE DEF seen, body
    <3> QED BY <2>1, <2>3, <2>5
  <2>8. seen = [i \in 0..m |-> body(seen, i)]
    <3>1. seen = [i \in 0..m |-> seen[i]]
      OBVIOUS
    <3> HIDE DEF seen, body
    <3> QED BY <2>6, <2>7, <3>1
  <2>9. Scan(s, seen, m)
    <3> HIDE DEF seen
    <3> QED BY <2>8 DEF Scan
  <2> QED BY <1>1, <2>9
<1> QED BY <1>2, <1>3

\* Distinct(s) is the accumulator after the last element.
LEMMA DistinctIsScan ==
    ASSUME NEW s, Len(s) \in Nat
    PROVE  \E seen : Scan(s, seen, Len(s)) /\ Distinct(s) = seen[Len(s)]
<1> DEFINE n == Len(s)
           seen == CHOOSE g : g = [i \in 0..n |->
                      IF i = 0 THEN <<>>
                      ELSE IF s[i] \in ToSet(g[i - 1]) THEN g[i - 1] ELSE Append(g[i - 1], s[i])]
<1>1. Scan(s, seen, n)
  <2>1. \E g : g = [i \in 0..n |->
                      IF i = 0 THEN <<>>
                      ELSE IF s[i] \in ToSet(g[i - 1]) THEN g[i - 1] ELSE Append(g[i - 1], s[i])]
    BY ScanRuns DEF Scan
  <2> QED BY <2>1, Zenon DEF Scan
<1>2. Distinct(s) = seen[n]
  BY DEF Distinct
<1> QED BY <1>1, <1>2, Zenon

\* The rounds of the loop.
LEMMA ScanRounds ==
    ASSUME NEW s, NEW n \in Nat, NEW seen, Scan(s, seen, n)
    PROVE  /\ seen[0] = <<>>
           /\ \A i \in 1..n : seen[i] = IF s[i] \in ToSet(seen[i - 1]) THEN seen[i - 1]
                                         ELSE Append(seen[i - 1], s[i])
<1> DEFINE round(i) == IF s[i] \in ToSet(seen[i - 1]) THEN seen[i - 1]
                       ELSE Append(seen[i - 1], s[i])
           body(i) == IF i = 0 THEN <<>> ELSE round(i)
<1>1. seen = [i \in 0..n |-> body(i)]
  BY DEF Scan
<1>2. \A i \in 0..n : seen[i] = body(i)
  <2> HIDE DEF body
  <2> QED BY <1>1
<1>3. 0 \in 0..n /\ \A i \in 1..n : i \in 0..n /\ i # 0
  OBVIOUS
<1>4. \A i \in 1..n : body(i) = round(i)
  <2> HIDE DEF round
  <2> QED OBVIOUS
<1>5. \A i \in 1..n : seen[i] = round(i)
  <2> HIDE DEF body, round
  <2> QED BY <1>2, <1>3, <1>4
<1> QED BY <1>2, <1>3, <1>5

\* One round, from the accumulator a.
LEMMA ScanRound ==
    ASSUME NEW S, NEW a \in Seq(S), NEW x \in S, NoRepeats(a)
    PROVE  LET b == IF x \in ToSet(a) THEN a ELSE Append(a, x)
           IN  b \in Seq(S) /\ NoRepeats(b)
<1>1. CASE x \in ToSet(a)
  BY <1>1
<1>2. CASE x \notin ToSet(a)
  <2> DEFINE b == Append(a, x)
  <2>1. /\ b \in Seq(S) /\ Len(b) = Len(a) + 1 /\ DOMAIN b = 1..(Len(a) + 1)
        /\ b[Len(a) + 1] = x /\ \A i \in 1..Len(a) : b[i] = a[i]
    OBVIOUS
  <2>2. DOMAIN a = 1..Len(a) /\ Len(a) \in Nat
    OBVIOUS
  <2>3. \A i \in 1..Len(a) : a[i] # x
    BY <1>2, <2>2 DEF ToSet
  <2> HIDE DEF b
  <2>4. NoRepeats(b)
    BY <2>1, <2>2, <2>3 DEF NoRepeats
  <2> QED BY <1>2, <2>1, <2>4 DEF b
<1> QED BY <1>1, <1>2

\* The result is a list of elements of s without repetitions.
LEMMA DistinctHasNoRepeats ==
    ASSUME NEW S, NEW s \in Seq(S)
    PROVE  Distinct(s) \in Seq(S) /\ NoRepeats(Distinct(s))
<1> DEFINE n == Len(s)
<1>1. n \in Nat /\ DOMAIN s = 1..n /\ \A i \in 1..n : s[i] \in S
  OBVIOUS
<1>2. PICK seen : Scan(s, seen, n) /\ Distinct(s) = seen[n]
  BY <1>1, DistinctIsScan
<1> HIDE DEF n
<1>3. seen[0] = <<>>
  BY <1>1, <1>2, ScanRounds
<1>4. \A i \in 1..n : seen[i] = IF s[i] \in ToSet(seen[i - 1]) THEN seen[i - 1]
                                ELSE Append(seen[i - 1], s[i])
  BY <1>1, <1>2, ScanRounds
<1> DEFINE Good(i) == seen[i] \in Seq(S) /\ NoRepeats(seen[i])
           Bad == {i \in 0..n : ~Good(i)}
<1>5. Bad = {}
  <2> SUFFICES ASSUME Bad # {} PROVE FALSE
    OBVIOUS
  <2>1. PICK m \in Bad : \A j \in Bad : m <= j
    <3>1. Bad \in SUBSET Nat
      BY <1>1
    <3> HIDE DEF Bad
    <3> QED BY <3>1, LeastExists
  <2>2. m # 0
    <3>1. Good(0)
      BY <1>3 DEF NoRepeats
    <3> QED BY <3>1
  <2>3. m \in 1..n /\ m - 1 \in 0..n /\ m - 1 \notin Bad
    BY <1>1, <2>1, <2>2
  <2>4. Good(m - 1)
    BY <2>3
  <2>5. Good(m)
    <3> DEFINE a == seen[m - 1]
               x == s[m]
    <3>1. a \in Seq(S) /\ NoRepeats(a) /\ x \in S
      BY <1>1, <2>3, <2>4
    <3>2. seen[m] = IF x \in ToSet(a) THEN a ELSE Append(a, x)
      BY <1>4, <2>3
    <3> HIDE DEF a, x
    <3> QED BY <3>1, <3>2, ScanRound
  <2> QED BY <2>1, <2>5
<1>6. Good(n)
  BY <1>1, <1>5
<1> QED BY <1>2, <1>6

\* A list without repetitions is its own result.
LEMMA DistinctOfDistinct ==
    ASSUME NEW S, NEW q \in Seq(S), NoRepeats(q)
    PROVE  Distinct(q) = q
<1> DEFINE n == Len(q)
           UpTo(i) == [j \in 1..i |-> q[j]]
<1>1. n \in Nat /\ DOMAIN q = 1..n /\ \A i \in 1..n : q[i] \in S
  OBVIOUS
<1>2. PICK seen : Scan(q, seen, n) /\ Distinct(q) = seen[n]
  BY <1>1, DistinctIsScan
<1>3. q = UpTo(n)
  OBVIOUS
<1> HIDE DEF n
<1>4. seen[0] = <<>>
  BY <1>1, <1>2, ScanRounds
<1>5. \A i \in 1..n : seen[i] = IF q[i] \in ToSet(seen[i - 1]) THEN seen[i - 1]
                                ELSE Append(seen[i - 1], q[i])
  BY <1>1, <1>2, ScanRounds
<1> DEFINE Bad == {i \in 0..n : seen[i] # UpTo(i)}
<1>6. Bad = {}
  <2> SUFFICES ASSUME Bad # {} PROVE FALSE
    OBVIOUS
  <2>1. PICK m \in Bad : \A j \in Bad : m <= j
    <3>1. Bad \in SUBSET Nat
      BY <1>1
    <3> HIDE DEF Bad
    <3> QED BY <3>1, LeastExists
  <2>2. m # 0
    <3>1. UpTo(0) = <<>>
      OBVIOUS
    <3> QED BY <3>1, <1>4
  <2>3. m \in 1..n /\ m - 1 \in 0..n /\ m - 1 \notin Bad
    BY <1>1, <2>1, <2>2
  <2>4. seen[m - 1] = UpTo(m - 1)
    BY <2>3
  <2>5. q[m] \notin ToSet(UpTo(m - 1))
    BY <1>1, <2>3 DEF ToSet, NoRepeats
  <2>6. Append(UpTo(m - 1), q[m]) = UpTo(m)
    <3>1. UpTo(m - 1) \in Seq(S) /\ Len(UpTo(m - 1)) = m - 1
      BY <1>1, <2>3
    <3>2. UpTo(m) \in Seq(S) /\ Len(UpTo(m)) = m
      BY <1>1, <2>3
    <3>3. \A j \in 1..m : Append(UpTo(m - 1), q[m])[j] = q[j]
      BY <1>1, <2>3, <3>1
    <3>4. Append(UpTo(m - 1), q[m]) = [j \in 1..m |-> Append(UpTo(m - 1), q[m])[j]]
      BY <1>1, <2>3, <3>1
    <3> QED BY <3>3, <3>4
  <2>7. seen[m] = UpTo(m)
    BY <1>5, <2>3, <2>4, <2>5, <2>6
  <2> QED BY <2>1, <2>7
<1>7. seen[n] = UpTo(n)
  <2>1. n \in 0..n
    BY <1>1
  <2> HIDE DEF UpTo
  <2> QED BY <1>6, <2>1
<1> QED BY <1>2, <1>3, <1>7

-----------------------------------------------------------------------------
(* Parsing the result of a parse gives it back.                            *)

\* The object q holds all the fields of c.
Covers(q, c) == \A f \in DOMAIN c : f \in DOMAIN q /\ q[f] = c[f]

\* No list is None.
LEMMA ListIsNotNone ==
    ASSUME NoneIsNoFunction, NEW S, NEW q \in Seq(S)
    PROVE  q # None
<1>1. q = [i \in DOMAIN q |-> q[i]]
  OBVIOUS
<1> QED BY <1>1, ObjectIsNotNone

\* The base fields are read back.
LEMMA BaseAgain ==
    ASSUME NEW k \in DOMAIN KindSpellings, NEW p, ReadIntent(k, p) # Invalid,
           NEW q, Covers(q, ReadIntent(k, p))
    PROVE  /\ HasBaseFields(k, q)
           /\ \A f \in DOMAIN ReadIntent(k, p) : Get(q, f) = ReadIntent(k, p)[f]
           /\ DOMAIN BaseIntent(k, q) = DOMAIN BaseIntent(k, p)
           /\ \A f \in DOMAIN BaseIntent(k, q) \ {"chain"} :
                BaseIntent(k, q)[f] = BaseIntent(k, p)[f]
           /\ k \notin {"token_prices", "portfolio_tokens"} => BaseIntent(k, q) = BaseIntent(k, p)
<1> DEFINE c == ReadIntent(k, p)
           F == AddressFields[k] \cup OtherFields(k)
<1>1. \A f \in DOMAIN c : Get(q, f) = c[f]
  BY DEF Covers, Get
<1>2. /\ HasBaseFields(k, p)
      /\ F \cup {"kind", "chain"} \subseteq DOMAIN c
      /\ \A f \in F : c[f] = Get(p, f)
      /\ k \notin {"token_prices", "portfolio_tokens"} => c["chain"] = Get(p, "chain")
  BY ReadIntentFacts
<1>3. \A x \in {p, q} :
        /\ DOMAIN BaseIntent(k, x) = F \cup {"kind", "chain"}
        /\ BaseIntent(k, x) = [f \in DOMAIN BaseIntent(k, x) |-> BaseIntent(k, x)[f]]
        /\ BaseIntent(k, x)["kind"] = Text(k)
        /\ BaseIntent(k, x)["chain"] = Get(x, "chain")
        /\ \A f \in F : BaseIntent(k, x)[f] = Get(x, f)
  BY BaseFacts
<1> HIDE DEF c, F
<1>4. \A f \in F : Get(q, f) = Get(p, f)
  BY <1>1, <1>2
<1>5. HasBaseFields(k, q)
  BY <1>2, <1>4 DEF HasBaseFields, F
<1>6. /\ DOMAIN BaseIntent(k, q) = DOMAIN BaseIntent(k, p)
      /\ \A f \in DOMAIN BaseIntent(k, q) \ {"chain"} : BaseIntent(k, q)[f] = BaseIntent(k, p)[f]
  BY <1>3, <1>4
<1>7. ASSUME k \notin {"token_prices", "portfolio_tokens"}
      PROVE  BaseIntent(k, q) = BaseIntent(k, p)
  <2>1. Get(q, "chain") = Get(p, "chain")
    BY <1>1, <1>2, <1>7
  <2> DEFINE x == BaseIntent(k, q)
             y == BaseIntent(k, p)
  <2>2. /\ DOMAIN x = DOMAIN y /\ x = [f \in DOMAIN x |-> x[f]] /\ y = [f \in DOMAIN y |-> y[f]]
        /\ x["chain"] = y["chain"]
        /\ \A f \in DOMAIN x \ {"chain"} : x[f] = y[f]
    BY <2>1, <1>3, <1>6
  <2> HIDE DEF x, y
  <2>3. x = y
    BY <2>2
  <2> QED BY <2>3 DEF x, y
<1> QED BY <1>1, <1>5, <1>6, <1>7 DEF c

\* The entries of token_prices are read back.
LEMMA TokenPricesAgain ==
    ASSUME NoneIsNoFunction, NEW p, TokenPricesIntent(p) # Invalid,
           ReadIntent("token_prices", p) = TokenPricesIntent(p),
           NEW q, Covers(q, TokenPricesIntent(p))
    PROVE  TokenPricesIntent(q) = TokenPricesIntent(p)
<1> DEFINE k == "token_prices"
           E == TokenEntries(p)
           c == TokenPricesIntent(p)
<1>0. k \in DOMAIN KindSpellings
  BY DEF KindSpellings
<1>1. c = Update(BaseIntent(k, p), TokenPricesPatch(p))
  BY OwnFields, Zenon
<1>2. /\ DOMAIN TokenPricesPatch(p) = {"chain", "tokens", "token_address"}
      /\ {"chain", "tokens", "token_address"} \subseteq DOMAIN c
      /\ c["tokens"] = E /\ c["token_address"] = None
  BY <1>1 DEF Update, TokenPricesPatch
<1>3. /\ Len(E) \in 1..MaxTokens
      /\ \A e \in ToSet(E) : e.token_address \in Addresses
      /\ Cardinality({e.chain : e \in ToSet(E)}) <= MaxTokenChains
  BY DEF TokenPricesIntent
<1>4. ~IsEmpty(E)
  <2>1. E # <<>>
    <3>1. Len(<<>>) = 0
      OBVIOUS
    <3> HIDE DEF E
    <3> QED BY <1>3, <3>1
  <2>2. CASE ~IsEmpty(Get(p, "tokens"))
    BY <2>2 DEF TokenEntries, IsEmpty, Get
  <2>3. CASE IsEmpty(Get(p, "tokens"))
    <3> DEFINE e == [chain |-> Get(p, "chain"), token_address |-> Get(p, "token_address")]
    <3>1. E = <<e>>
      BY <2>1, <2>3 DEF TokenEntries
    <3> HIDE DEF e
    <3>2. <<e>> \in Seq({e})
      OBVIOUS
    <3>3. <<e>> # None
      BY <3>2, ListIsNotNone
    <3> QED BY <3>1, <3>3, <2>1 DEF IsEmpty
  <2> QED BY <2>2, <2>3
<1>5. \A f \in DOMAIN c : Get(q, f) = c[f]
  BY DEF Covers, Get
<1>6. Get(q, "tokens") = E /\ Get(q, "token_address") = None
  <2> HIDE DEF c, E
  <2> QED BY <1>2, <1>5
<1>7. TokenEntries(q) = E
  <2> HIDE DEF E
  <2>1. q["tokens"] = E
    BY <1>4, <1>6 DEF Get, IsEmpty
  <2> QED BY <1>4, <1>6, <2>1 DEF TokenEntries
<1>8. TokenPricesIntent(q) = Update(BaseIntent(k, q), TokenPricesPatch(q))
  <2> HIDE DEF E
  <2> QED BY <1>3, <1>6, <1>7, Zenon DEF TokenPricesIntent, TokenPricesPatch
<1>9. TokenPricesPatch(q) = TokenPricesPatch(p)
  BY <1>7 DEF TokenPricesPatch
<1>10. Update(BaseIntent(k, q), TokenPricesPatch(p)) = Update(BaseIntent(k, p), TokenPricesPatch(p))
  <2> DEFINE a == BaseIntent(k, q)
             b == BaseIntent(k, p)
             w == TokenPricesPatch(p)
  <2>1. DOMAIN a = DOMAIN b /\ \A f \in DOMAIN a \ {"chain"} : a[f] = b[f]
    BY <1>0, BaseAgain
  <2>2. "chain" \in DOMAIN w
    BY <1>2
  <2> HIDE DEF a, b, w
  <2>3. Update(a, w) = Update(b, w)
    BY <2>1, <2>2 DEF Update
  <2> QED BY <2>3 DEF a, b, w
<1> QED BY <1>1, <1>8, <1>9, <1>10

\* The chains that portfolio_tokens resolves to, and that it resolves them to
\* themselves.
LEMMA PortfolioChainsFacts ==
    ASSUME NEW p, IsList(Get(p, "chains")), IsList(Get(p, "networks"))
    PROVE  \E S : PortfolioChains(p) \in Seq(S) /\ NoRepeats(PortfolioChains(p))
<1> DEFINE chains == Get(p, "chains")
           networks == Get(p, "networks")
<1>1. CASE ~IsEmpty(networks)
  <2> DEFINE g == [i \in DOMAIN networks |-> alchemy_network_to_mercury_chain(networks[i])]
             S == {alchemy_network_to_mercury_chain(x) : x \in ToSet(networks)}
  <2>1. networks \in Seq(ToSet(networks))
    BY <1>1 DEF IsEmpty, IsList
  <2>2. PortfolioChains(p) = Distinct(g)
    BY <1>1 DEF PortfolioChains
  <2> HIDE DEF networks
  <2>3. g \in Seq(S)
    BY <2>1
  <2> HIDE DEF g, S
  <2> QED BY <2>2, <2>3, DistinctHasNoRepeats
<1>2. CASE IsEmpty(networks) /\ ~IsEmpty(chains)
  <2>1. chains \in Seq(ToSet(chains))
    BY <1>2 DEF IsEmpty, IsList
  <2>2. PortfolioChains(p) = Distinct(chains)
    BY <1>2 DEF PortfolioChains
  <2> HIDE DEF chains
  <2> QED BY <2>1, <2>2, DistinctHasNoRepeats
<1>3. CASE IsEmpty(networks) /\ IsEmpty(chains)
  <2> DEFINE chain == Get(p, "chain")
  <2>1. PortfolioChains(p) = <<chain>>
    BY <1>3 DEF PortfolioChains
  <2> HIDE DEF chain
  <2>2. <<chain>> \in Seq({chain}) /\ NoRepeats(<<chain>>)
    BY DEF NoRepeats
  <2> QED BY <2>1, <2>2
<1> QED BY <1>1, <1>2, <1>3

\* The chains of portfolio_tokens are read back.
LEMMA PortfolioTokensAgain ==
    ASSUME NoneIsNoFunction, NEW p, PortfolioTokensIntent(p) # Invalid,
           ReadIntent("portfolio_tokens", p) = PortfolioTokensIntent(p),
           IsList(Get(p, "chains")), IsList(Get(p, "networks")),
           NEW q, Covers(q, PortfolioTokensIntent(p))
    PROVE  PortfolioTokensIntent(q) = PortfolioTokensIntent(p)
<1> DEFINE k == "portfolio_tokens"
           R == PortfolioChains(p)
           c == PortfolioTokensIntent(p)
<1>0. k \in DOMAIN KindSpellings
  BY DEF KindSpellings
<1>1. c = Update(BaseIntent(k, p), PortfolioPatch(p))
  BY OwnFields, Zenon
<1>2. /\ DOMAIN PortfolioPatch(p) = {"chain", "chains", "networks", "page_key"}
      /\ {"chain", "chains", "networks", "page_key"} \subseteq DOMAIN c
      /\ c["chains"] = R /\ c["networks"] = None /\ c["page_key"] = Get(p, "page_key")
  BY <1>1 DEF Update, PortfolioPatch
<1>3. Len(R) \in 1..MaxNetworks /\ \A d \in ToSet(R) : CoveredByAlchemy(d)
  BY DEF PortfolioTokensIntent
<1>4. PICK S : R \in Seq(S) /\ NoRepeats(R)
  BY PortfolioChainsFacts
<1>5. \A f \in DOMAIN c : Get(q, f) = c[f]
  BY DEF Covers, Get
<1>6. Get(q, "chains") = R /\ Get(q, "networks") = None /\ Get(q, "page_key") = Get(p, "page_key")
  <2> HIDE DEF c, R
  <2> QED BY <1>2, <1>5
<1> HIDE DEF R
<1>7. ~IsEmpty(R) /\ Distinct(R) = R
  <2>1. R # <<>>
    BY <1>3
  <2>2. R # None
    BY <1>4, ListIsNotNone
  <2> QED BY <2>1, <2>2, <1>4, DistinctOfDistinct DEF IsEmpty
<1>8. PortfolioChains(q) = R
  BY <1>6, <1>7 DEF PortfolioChains, IsEmpty
<1>9. IsEmpty(Get(q, "networks"))
  BY <1>6 DEF IsEmpty
<1>10. PortfolioTokensIntent(q) = Update(BaseIntent(k, q), PortfolioPatch(q))
  BY <1>3, <1>8, <1>9, Zenon DEF PortfolioTokensIntent, PortfolioPatch
<1>11. PortfolioPatch(q) = PortfolioPatch(p)
  BY <1>6, <1>8 DEF PortfolioPatch, R
<1>12. Update(BaseIntent(k, q), PortfolioPatch(p)) = Update(BaseIntent(k, p), PortfolioPatch(p))
  <2> DEFINE a == BaseIntent(k, q)
             b == BaseIntent(k, p)
             w == PortfolioPatch(p)
  <2>1. DOMAIN a = DOMAIN b /\ \A f \in DOMAIN a \ {"chain"} : a[f] = b[f]
    BY <1>0, BaseAgain
  <2>2. "chain" \in DOMAIN w
    BY <1>2
  <2> HIDE DEF a, b, w
  <2>3. Update(a, w) = Update(b, w)
    BY <2>1, <2>2 DEF Update
  <2> QED BY <2>3 DEF a, b, w
<1> QED BY <1>1, <1>10, <1>11, <1>12

\* The direction, the categories, the count and the page of transfer_history
\* are read back.
LEMMA TransferHistoryAgain ==
    ASSUME NoneIsNoFunction, NEW p, TransferHistoryIntent(p) # Invalid,
           ReadIntent("transfer_history", p) = TransferHistoryIntent(p),
           NEW q, Covers(q, TransferHistoryIntent(p))
    PROVE  TransferHistoryIntent(q) = TransferHistoryIntent(p)
<1> DEFINE k == "transfer_history"
           c == TransferHistoryIntent(p)
           d == Directions[DirectionGiven(p)]
<1>0. k \in DOMAIN KindSpellings
  BY DEF KindSpellings
<1>1. c = Update(BaseIntent(k, p), HistoryPatch(p))
  BY OwnFields, Zenon
<1>2. /\ {"direction", "categories", "max_count", "page_key"} \subseteq DOMAIN c
      /\ c["direction"] = d /\ c["categories"] = CategoriesGiven(p)
      /\ c["max_count"] = CountGiven(p)
      /\ c["page_key"] = IF d = "both" THEN None ELSE Get(p, "page_key")
  BY <1>1 DEF Update, HistoryPatch
<1>3. /\ DirectionGiven(p) \in DOMAIN Directions
      /\ ToSet(CategoriesGiven(p)) \subseteq AllowedCategories
      /\ CountGiven(p) \in 1..MaxCount
  BY Zenon DEF TransferHistoryIntent, DirectionGiven, CategoriesGiven, CountGiven
<1>4. \A f \in DOMAIN c : Get(q, f) = c[f]
  BY DEF Covers, Get
<1>5. /\ Get(q, "direction") = d /\ Get(q, "categories") = CategoriesGiven(p)
      /\ Get(q, "max_count") = CountGiven(p)
      /\ Get(q, "page_key") = IF d = "both" THEN None ELSE Get(p, "page_key")
  <2> HIDE DEF c, d
  <2> QED BY <1>2, <1>4
<1>6. d # None /\ d \in DOMAIN Directions /\ Directions[d] = d
  BY <1>3, RoutingAssumption DEF Directions
<1> HIDE DEF d
<1>7. DirectionGiven(q) = d
  BY <1>5, <1>6 DEF DirectionGiven, Get
<1>8. CategoriesGiven(q) = CategoriesGiven(p)
  <2>1. ~IsEmpty(CategoriesGiven(p))
    <3>1. CASE ~IsEmpty(Get(p, "categories"))
      BY <3>1 DEF CategoriesGiven, IsEmpty, Get
    <3>2. CASE IsEmpty(Get(p, "categories"))
      <4>1. CategoriesGiven(p) = DefaultCategories
        BY <3>2 DEF CategoriesGiven
      <4>2. DefaultCategories \in Seq(AllowedCategories) /\ DefaultCategories # <<>>
        BY DEF DefaultCategories, AllowedCategories
      <4>3. DefaultCategories # None
        BY <4>2, ListIsNotNone
      <4> QED BY <4>1, <4>2, <4>3 DEF IsEmpty
    <3> QED BY <3>1, <3>2
  <2>2. Get(q, "categories") = q["categories"]
    BY <1>5, <2>1 DEF Get, IsEmpty
  <2> DEFINE G == CategoriesGiven(p)
  <2>3. Get(q, "categories") = G /\ ~IsEmpty(G)
    BY <1>5, <2>1
  <2> HIDE DEF G
  <2>4. CategoriesGiven(q) = G
    BY <2>2, <2>3 DEF CategoriesGiven
  <2> QED BY <2>4 DEF G
<1>9. CountGiven(q) = CountGiven(p)
  <2> DEFINE G == CountGiven(p)
  <2>1. G # None /\ Get(q, "max_count") = G
    BY <1>3, <1>5, IntentAssumption
  <2> HIDE DEF G
  <2>2. CountGiven(q) = G
    BY <2>1 DEF CountGiven, Get
  <2> QED BY <2>2 DEF G
<1>10. HistoryPatch(q) = HistoryPatch(p)
  BY <1>5, <1>6, <1>7, <1>8, <1>9, Zenon DEF HistoryPatch, d
<1>11. TransferHistoryIntent(q) = Update(BaseIntent(k, q), HistoryPatch(q))
  <2>1. /\ DirectionGiven(q) \in DOMAIN Directions
        /\ ToSet(CategoriesGiven(q)) \subseteq AllowedCategories
        /\ CountGiven(q) \in 1..MaxCount
    BY <1>3, <1>6, <1>7, <1>8, <1>9
  <2> QED
    BY <2>1, Zenon DEF TransferHistoryIntent, HistoryPatch, DirectionGiven, CategoriesGiven,
                       CountGiven
<1>12. BaseIntent(k, q) = BaseIntent(k, p)
  BY <1>0, BaseAgain
<1> QED BY <1>1, <1>10, <1>11, <1>12

\* Any object that holds the fields of an accepted intent is accepted as that
\* intent.
LEMMA ReadIntentAgain ==
    ASSUME NoneIsNoFunction, NEW k \in DOMAIN KindSpellings, NEW p, ReadIntent(k, p) # Invalid,
           IsList(Get(p, "chains")), IsList(Get(p, "networks")),
           NEW q, Covers(q, ReadIntent(k, p))
    PROVE  ReadIntent(k, q) = ReadIntent(k, p)
<1>1. HasBaseFields(k, q) /\ HasBaseFields(k, p)
  BY BaseAgain, ReadIntentFacts
<1>2. CASE k = "token_prices"
  <2>1. /\ ReadIntent(k, p) = TokenPricesIntent(p) /\ ReadIntent(k, q) = TokenPricesIntent(q)
        /\ ReadIntent("token_prices", p) = TokenPricesIntent(p)
    BY <1>1, <1>2 DEF ReadIntent
  <2> QED BY <2>1, TokenPricesAgain
<1>3. CASE k = "portfolio_tokens"
  <2>1. /\ ReadIntent(k, p) = PortfolioTokensIntent(p) /\ ReadIntent(k, q) = PortfolioTokensIntent(q)
        /\ ReadIntent("portfolio_tokens", p) = PortfolioTokensIntent(p)
    BY <1>1, <1>3 DEF ReadIntent
  <2> QED BY <2>1, PortfolioTokensAgain
<1>4. CASE k = "transfer_history"
  <2>1. /\ ReadIntent(k, p) = TransferHistoryIntent(p) /\ ReadIntent(k, q) = TransferHistoryIntent(q)
        /\ ReadIntent("transfer_history", p) = TransferHistoryIntent(p)
    BY <1>1, <1>4 DEF ReadIntent
  <2> QED BY <2>1, TransferHistoryAgain
<1>5. CASE k \notin {"token_prices", "portfolio_tokens", "transfer_history"}
  <2>1. ReadIntent(k, p) = BaseIntent(k, p) /\ ReadIntent(k, q) = BaseIntent(k, q)
    BY <1>1, <1>5 DEF ReadIntent
  <2>2. BaseIntent(k, q) = BaseIntent(k, p)
    BY <1>5, BaseAgain
  <2> QED BY <2>1, <2>2
<1> QED BY <1>2, <1>3, <1>4, <1>5

\* What a successful parse has read.
LEMMA ParsedFacts ==
    ASSUME NEW m, _parse_structured_intent(m) \notin {Invalid, Unsupported}
    PROVE  LET p == _unwrap_payload(m)
               c == _parse_structured_intent(m)
           IN  /\ IsText(raw_kind(p)) /\ strip(raw_kind(p)) \in DOMAIN _KIND_ALIASES
               /\ _KIND_ALIASES[strip(raw_kind(p))] \in DOMAIN KindSpellings
               /\ c = ReadIntent(_KIND_ALIASES[strip(raw_kind(p))], p)
               /\ ReadIntent(_KIND_ALIASES[strip(raw_kind(p))], p) # Invalid
<1> DEFINE p == _unwrap_payload(m)
           given == raw_kind(p)
<1>1. /\ IsText(given) /\ strip(given) \in DOMAIN _KIND_ALIASES
      /\ _parse_structured_intent(m) = ReadIntent(_KIND_ALIASES[strip(given)], p)
  BY Zenon DEF _parse_structured_intent
<1> HIDE DEF given, p
<1>2. _KIND_ALIASES[strip(given)] \in DOMAIN KindSpellings
  BY <1>1, KindFacts
<1> QED BY <1>1, <1>2 DEF given, p

\* Every text is a text.
LEMMA TextFacts ==
    ASSUME NoneIsNoFunction, NEW t
    PROVE  Text(t) # None /\ IsText(Text(t)) /\ strip(Text(t)) = t
<1> DEFINE x == Text(t)
<1>1. x = [f \in DOMAIN x |-> x[f]] /\ "text" \in DOMAIN x /\ strip(x) = t
  BY DEF Text, strip
<1> HIDE DEF x
<1>2. x # None
  BY <1>1, ObjectIsNotNone
<1> QED BY <1>1, <1>2 DEF IsText, x

\* Parsing an object that holds the fields of a parsed intent gives that
\* intent again.
LEMMA ParseAgain ==
    ASSUME NoneIsNoFunction, NEW m, _parse_structured_intent(m) \notin {Invalid, Unsupported},
           IsList(Get(_unwrap_payload(m), "chains")), IsList(Get(_unwrap_payload(m), "networks")),
           NEW q, Covers(_unwrap_payload(q), _parse_structured_intent(m))
    PROVE  _parse_structured_intent(q) = _parse_structured_intent(m)
<1> DEFINE p == _unwrap_payload(m)
           k == _KIND_ALIASES[strip(raw_kind(p))]
           c == _parse_structured_intent(m)
           w == _unwrap_payload(q)
<1>1. k \in DOMAIN KindSpellings /\ c = ReadIntent(k, p) /\ ReadIntent(k, p) # Invalid
  BY ParsedFacts
<1> HIDE DEF k, w, p
<1>2. /\ "kind" \in DOMAIN ReadIntent(k, p) /\ ReadIntent(k, p)["kind"] = Text(k)
  BY <1>1, ReadIntentFacts
<1>3. Covers(w, ReadIntent(k, p))
  BY <1>1 DEF w
<1>4. "kind" \in DOMAIN w /\ w["kind"] = Text(k)
  BY <1>2, <1>3 DEF Covers
<1>5. raw_kind(w) = Text(k)
  BY <1>4 DEF raw_kind
<1>6. /\ IsText(raw_kind(w)) /\ strip(raw_kind(w)) = k
      /\ k \in DOMAIN _KIND_ALIASES /\ _KIND_ALIASES[k] = k
  BY <1>1, <1>5, TextFacts, KindFacts
<1>7. _parse_structured_intent(q) = ReadIntent(k, w)
  <2>1. _parse_structured_intent(q) = ReadIntent(_KIND_ALIASES[strip(raw_kind(w))], w)
    BY <1>6, Zenon DEF _parse_structured_intent, w
  <2> QED BY <2>1, <1>6
<1>8. ReadIntent(k, w) = ReadIntent(k, p)
  BY <1>1, <1>3, ReadIntentAgain DEF p
<1> QED BY <1>1, <1>7, <1>8

\* The fields of a value-moving intent.
MovingFields(kind) ==
    ValueMovingAddresses[kind] \cup ValueMovingFields(kind) \cup OptionalFields(kind)

\* What ValueMovingIntent keeps of the payload.
LEMMA MovingFacts ==
    ASSUME NEW kind \in _VALUE_MOVING_KINDS, NEW p, ValueMovingIntent(kind, p) # Invalid
    PROVE  /\ ValueMovingIntent(kind, p) = [f \in MovingFields(kind) |-> Get(p, f)]
           /\ {"kind", "intent", "text", "type"} \cap MovingFields(kind) = {}
           /\ "chain" \in MovingFields(kind) /\ Get(p, "chain") # None
           /\ \A f \in {"wallet_address", "owner_address", "spender_address", "contract_address",
                        "token_address", "recipient_address"} \cap MovingFields(kind) :
                Get(p, f) \in Addresses \cup {None}
<1>1. ValueMovingIntent(kind, p) = [f \in MovingFields(kind) |-> Get(p, f)]
  BY DEF ValueMovingIntent, MovingFields
<1>2. {"kind", "intent", "text", "type"} \cap MovingFields(kind) = {} /\ "chain" \in MovingFields(kind)
  BY DEF MovingFields, _VALUE_MOVING_KINDS, ValueMovingAddresses, ValueMovingFields, OptionalFields
<1>3. /\ \A f \in ValueMovingAddresses[kind] : Get(p, f) \in Addresses
      /\ \A f \in ValueMovingFields(kind) : Get(p, f) # None
      /\ kind = "swap" => Get(p, "recipient_address") \in Addresses \cup {None}
  BY DEF ValueMovingIntent
<1>4. "chain" \in ValueMovingFields(kind)
  BY DEF ValueMovingFields
<1>5. \A f \in {"wallet_address", "owner_address", "spender_address", "contract_address",
                "token_address", "recipient_address"} \cap MovingFields(kind) :
        f \in ValueMovingAddresses[kind] \/ (kind = "swap" /\ f = "recipient_address")
  BY DEF MovingFields, _VALUE_MOVING_KINDS, ValueMovingAddresses, ValueMovingFields, OptionalFields
<1> QED BY <1>1, <1>2, <1>3, <1>4, <1>5

\* A value-moving intent is accepted again, from any object with its fields.
LEMMA MovingAgain ==
    ASSUME NEW kind \in _VALUE_MOVING_KINDS, NEW p, ValueMovingIntent(kind, p) # Invalid,
           NEW q, Covers(q, ValueMovingIntent(kind, p))
    PROVE  ValueMovingIntent(kind, q) = ValueMovingIntent(kind, p)
<1> DEFINE c == ValueMovingIntent(kind, p)
           F == MovingFields(kind)
<1>1. c = [f \in F |-> Get(p, f)]
  BY MovingFacts
<1>2. \A f \in F : f \in DOMAIN q /\ Get(q, f) = Get(p, f)
  BY <1>1 DEF Covers, Get
<1>3. /\ ValueMovingAddresses[kind] \subseteq F /\ ValueMovingFields(kind) \subseteq F
      /\ kind = "swap" => {"from_token", "to_token", "recipient_address"} \subseteq F
      /\ kind = "swap" => {"from_token", "to_token"} \subseteq ValueMovingAddresses[kind]
  BY DEF MovingFields, ValueMovingAddresses, OptionalFields
<1>4. /\ \A f \in ValueMovingAddresses[kind] : Get(p, f) \in Addresses
      /\ \A f \in ValueMovingFields(kind) : Get(p, f) # None
      /\ kind = "swap" => /\ p["from_token"] # p["to_token"]
                          /\ Get(p, "recipient_address") \in Addresses \cup {None}
  BY DEF ValueMovingIntent
<1>5. kind = "swap" => q["from_token"] = p["from_token"] /\ q["to_token"] = p["to_token"]
  <2> SUFFICES ASSUME kind = "swap"
               PROVE  q["from_token"] = p["from_token"] /\ q["to_token"] = p["to_token"]
    OBVIOUS
  <2>1. \A f \in {"from_token", "to_token"} : f \in F /\ Get(p, f) \in Addresses
    BY <1>3, <1>4
  <2>2. \A f \in {"from_token", "to_token"} : f \in DOMAIN p
    BY <2>1, IntentAssumption DEF Get
  <2> HIDE DEF F
  <2> QED BY <1>2, <2>1, <2>2 DEF Get
<1> HIDE DEF F
<1>6. /\ \A f \in ValueMovingAddresses[kind] : Get(q, f) \in Addresses
      /\ \A f \in ValueMovingFields(kind) : Get(q, f) # None
      /\ kind = "swap" => /\ q["from_token"] # q["to_token"]
                          /\ Get(q, "recipient_address") \in Addresses \cup {None}
  BY <1>2, <1>3, <1>4, <1>5
<1>7. ValueMovingIntent(kind, q) = [f \in F |-> Get(q, f)]
  BY <1>6 DEF ValueMovingIntent, MovingFields, F
<1>8. [f \in F |-> Get(q, f)] = [f \in F |-> Get(p, f)]
  BY <1>2
<1> QED BY <1>1, <1>7, <1>8

-----------------------------------------------------------------------------
(* The payload, merged, resolved and rewritten.                            *)

BoundaryKeys == {"wallet_id", "chain", "idempotency_key", "metadata"}

\* Only the boundary fields are added to the payload.
LEMMA MergedFacts ==
    ASSUME NEW raw
    PROVE  LET m0 == merged_invoke_validation_payload(raw)
               inner == _unwrap_payload(raw)
           IN  /\ \A f : f \notin BoundaryKeys =>
                     (f \in DOMAIN m0 <=> f \in DOMAIN inner) /\ Get(m0, f) = Get(inner, f)
               /\ raw_kind(m0) = KindOf(raw)
<1> DEFINE m0 == merged_invoke_validation_payload(raw)
           inner == _unwrap_payload(raw)
<1>1. \A f : f \notin BoundaryKeys =>
            (f \in DOMAIN m0 <=> f \in DOMAIN inner) /\ Get(m0, f) = Get(inner, f)
  <2>1. CASE inner = raw
    BY <2>1 DEF merged_invoke_validation_payload
  <2>2. CASE inner # raw
    <3> DEFINE d == [k \in BoundaryKeys \cap DOMAIN raw |-> raw[k]]
    <3>1. m0 = Update(d, inner)
      BY <2>2 DEF merged_invoke_validation_payload, SetDefaults, BoundaryKeys
    <3>2. DOMAIN d \subseteq BoundaryKeys
      OBVIOUS
    <3> HIDE DEF m0, inner, d
    <3> QED BY <3>1, <3>2 DEF Update, Get
  <2> QED BY <2>1, <2>2
<1>2. \A f \in {"kind", "type", "intent"} : f \notin BoundaryKeys
  BY DEF BoundaryKeys
<1> HIDE DEF m0, inner
<1>3. raw_kind(m0) = raw_kind(inner)
  <2>1. /\ "kind" \in DOMAIN m0 <=> "kind" \in DOMAIN inner
        /\ "type" \in DOMAIN m0 <=> "type" \in DOMAIN inner
        /\ Get(m0, "kind") = Get(inner, "kind")
        /\ Get(m0, "type") = Get(inner, "type")
        /\ Get(m0, "intent") = Get(inner, "intent")
    BY <1>1, <1>2
  <2> QED BY <2>1 DEF raw_kind, Get
<1> QED BY <1>1, <1>3 DEF KindOf, m0, inner

\* Resolution changes fields with names only.
LEMMA ResolvedFacts ==
    ASSUME NEW m, NEW m0, NEW held, Resolves(m, m0, held)
    PROVE  /\ DOMAIN m = DOMAIN m0
           /\ \A f : f \notin NameFields => Get(m, f) = Get(m0, f)
           /\ effective_chain_name_for_resolution(m) = effective_chain_name_for_resolution(m0)
           /\ IsObject(Get(m0, "intent")) => _unwrap_payload(m) = _unwrap_payload(m0)
           /\ ~IsObject(Get(m0, "intent")) => _unwrap_payload(m) = m /\ _unwrap_payload(m0) = m0
           /\ raw_kind(m) = raw_kind(m0)
           /\ \A f : f \notin NameFields =>
                Get(_unwrap_payload(m), f) = Get(_unwrap_payload(m0), f)
<1>1. DOMAIN m = DOMAIN m0 /\ \A f : f \notin NameFields => Get(m, f) = Get(m0, f)
  BY DEF Resolves, Get
<1>2. \A f \in {"kind", "type", "intent", "chain"} : f \notin NameFields
  BY DEF NameFields
<1>3. /\ Get(m, "chain") = Get(m0, "chain") /\ Get(m, "intent") = Get(m0, "intent")
      /\ Get(m, "kind") = Get(m0, "kind") /\ Get(m, "type") = Get(m0, "type")
  BY <1>1, <1>2
<1>4. effective_chain_name_for_resolution(m) = effective_chain_name_for_resolution(m0)
  BY <1>3 DEF effective_chain_name_for_resolution, Get
<1>5. raw_kind(m) = raw_kind(m0)
  BY <1>1, <1>3 DEF raw_kind, Get
<1>6. IsObject(Get(m0, "intent")) => _unwrap_payload(m) = _unwrap_payload(m0)
  BY <1>1, <1>3 DEF _unwrap_payload, IsObject, Get
<1>7. ~IsObject(Get(m0, "intent")) => _unwrap_payload(m) = m /\ _unwrap_payload(m0) = m0
  BY <1>3 DEF _unwrap_payload
<1>8. \A f : f \notin NameFields => Get(_unwrap_payload(m), f) = Get(_unwrap_payload(m0), f)
  BY <1>1, <1>6, <1>7
<1> QED BY <1>1, <1>4, <1>5, <1>6, <1>7, <1>8

\* The rewritten raw_input holds the canonical intent where it is looked for.
LEMMA RewrittenFacts ==
    ASSUME NoneIsNoFunction, NEW raw, NEW c, c = [f \in DOMAIN c |-> c[f]],
           {"intent", "text"} \cap DOMAIN c = {}
    PROVE  LET q == merge_canonical_into_raw_input(raw, c)
               w == _unwrap_payload(q)
           IN  /\ Covers(w, c)
               /\ IsObject(Get(raw, "intent")) => w = c
               /\ ~IsObject(Get(raw, "intent")) =>
                    /\ w = q
                    /\ \A f : f \notin DOMAIN c =>
                         (f \in DOMAIN q <=> f \in DOMAIN raw) /\ Get(q, f) = Get(raw, f)
<1> DEFINE q == merge_canonical_into_raw_input(raw, c)
           w == _unwrap_payload(q)
<1>1. CASE IsObject(Get(raw, "intent"))
  <2>1. q = Update(raw, [intent |-> c])
    BY <1>1 DEF merge_canonical_into_raw_input
  <2>2. "intent" \in DOMAIN q /\ q["intent"] = c
    BY <2>1 DEF Update
  <2>3. c # None
    BY ObjectIsNotNone
  <2> HIDE DEF q
  <2>4. _unwrap_payload(q) = c
    BY <2>2, <2>3 DEF _unwrap_payload, IsObject, Get
  <2> QED BY <1>1, <2>4 DEF Covers, q
<1>2. CASE ~IsObject(Get(raw, "intent"))
  <2>1. q = Update(raw, c)
    BY <1>2 DEF merge_canonical_into_raw_input
  <2>2. /\ Covers(q, c)
        /\ \A f : f \notin DOMAIN c =>
              (f \in DOMAIN q <=> f \in DOMAIN raw) /\ Get(q, f) = Get(raw, f)
    <3> HIDE DEF q
    <3> QED BY <2>1 DEF Update, Covers, Get
  <2>3. Get(q, "intent") = Get(raw, "intent")
    BY <2>2
  <2> HIDE DEF q
  <2>4. _unwrap_payload(q) = q
    BY <1>2, <2>3 DEF _unwrap_payload
  <2> QED BY <1>2, <2>2, <2>4 DEF q
<1> QED BY <1>1, <1>2

\* A read that validation accepted goes to the read graph, and is parsed there
\* to the same intent.
LEMMA AcceptedRead ==
    ASSUME NoneIsNoFunction, NEW s, NEW held, s.request \in RawInputs, Accepted(s, held),
           ~MovesValue(s)
    PROVE  LET c == s.canonical
               given == raw_kind(_unwrap_payload(s.merged))
           IN  /\ strip(given) \in DOMAIN _KIND_ALIASES
               /\ _KIND_ALIASES[strip(given)] \in DOMAIN KindSpellings
               /\ c = ReadIntent(_KIND_ALIASES[strip(given)], _unwrap_payload(s.merged))
               /\ ReadIntent(_KIND_ALIASES[strip(given)], _unwrap_payload(s.merged)) # Invalid
               /\ WrappedOnce(s.request) =>
                    given = KindOf(s.request) /\ _unwrap_payload(s.merged) = s.merged
               /\ _parse_structured_intent(s.raw_input) = c
               /\ _graph_selection_for_state(s.raw_input) = "read"
<1> DEFINE raw == s.request
           m == s.merged
           m0 == merged_invoke_validation_payload(raw)
           c == s.canonical
           p == _unwrap_payload(m)
           k == _KIND_ALIASES[strip(raw_kind(p))]
           q == s.raw_input
<1>1. /\ Resolves(m, m0, held)
      /\ c = _parse_structured_intent(m) /\ _parse_structured_intent(m) \notin {Invalid, Unsupported}
      /\ q = merge_canonical_into_raw_input(raw, c)
  BY Zenon DEF Accepted, Sane, ModelOf, MovesValue
<1>2. /\ IsText(raw_kind(p)) /\ strip(raw_kind(p)) \in DOMAIN _KIND_ALIASES
      /\ k \in DOMAIN KindSpellings
      /\ c = ReadIntent(k, p) /\ ReadIntent(k, p) # Invalid
  BY <1>1, ParsedFacts
<1>3. IsList(Get(p, "chains")) /\ IsList(Get(p, "networks"))
  <2>1. \A f \in {"chains", "networks"} : f \notin NameFields
    BY DEF NameFields
  <2>2. \A f \in {"chains", "networks"} : Get(p, f) = Get(_unwrap_payload(m0), f)
    <3> HIDE DEF m, m0
    <3> QED BY <1>1, <2>1, ResolvedFacts
  <2>3. \A f \in {"chains", "networks"} : IsList(Get(_unwrap_payload(m0), f))
    BY RoutingAssumption
  <2> HIDE DEF p, m0
  <2> QED BY <2>2, <2>3
<1> HIDE DEF k
<1>4. /\ c = [f \in DOMAIN c |-> c[f]] /\ {"intent", "text"} \cap DOMAIN c = {}
      /\ "kind" \in DOMAIN c /\ c["kind"] = Text(k)
  <2> DEFINE d == ReadIntent(k, p)
  <2>1. /\ d = [f \in DOMAIN d |-> d[f]] /\ {"intent", "text", "type"} \cap DOMAIN d = {}
        /\ "kind" \in DOMAIN d /\ d["kind"] = Text(k)
    <3> HIDE DEF p
    <3> QED BY <1>2, ReadIntentFacts
  <2> HIDE DEF d
  <2>2. c = d
    BY <1>2 DEF d
  <2> HIDE DEF c
  <2> QED BY <2>1, <2>2
<1>5. Covers(_unwrap_payload(q), c)
  <2> HIDE DEF c, raw, q
  <2> QED BY <1>1, <1>4, RewrittenFacts
<1>6. _parse_structured_intent(q) = c
  <2> HIDE DEF c, m, q
  <2> QED BY <1>1, <1>3, <1>5, ParseAgain DEF p
<1>7. _graph_selection_for_state(q) = "read"
  <2> DEFINE w == _unwrap_payload(q)
  <2>1. Get(w, "kind") = Text(k)
    <3> HIDE DEF w, c
    <3>1. Covers(w, c)
      BY <1>5 DEF w
    <3> QED BY <1>4, <3>1 DEF Covers, Get
  <2>2. Get(w, "kind") # None /\ strip(Get(w, "kind")) = k
    <3> HIDE DEF w
    <3> QED BY <2>1, TextFacts
  <2>3. k \notin {"erc20_transfer", "erc20_approval", "native_transfer", "swap"}
    BY <1>2, KindFacts DEF _VALUE_MOVING_KINDS
  <2> HIDE DEF q
  <2> QED BY <2>2, <2>3 DEF _graph_selection_for_state
<1>8. ASSUME WrappedOnce(raw)
      PROVE  raw_kind(p) = KindOf(raw) /\ p = m
  <2>1. "intent" \notin BoundaryKeys
    BY DEF BoundaryKeys
  <2>2. Get(m0, "intent") = Get(_unwrap_payload(raw), "intent") /\ raw_kind(m0) = KindOf(raw)
    <3> HIDE DEF raw
    <3> QED BY <2>1, MergedFacts
  <2>3. ~IsObject(Get(m0, "intent"))
    BY <1>8, <2>2 DEF WrappedOnce
  <2> HIDE DEF m, m0, raw
  <2>4. _unwrap_payload(m) = m /\ raw_kind(m) = raw_kind(m0)
    BY <1>1, <2>3, ResolvedFacts
  <2> QED BY <2>2, <2>4 DEF p
<1> QED BY <1>2, <1>6, <1>7, <1>8 DEF k

\* A value-moving intent that validation accepted goes to the graph of its
\* kind when it is a flat object with a key kind, and to the unsupported branch
\* of the read graph otherwise.
LEMMA AcceptedMoving ==
    ASSUME NoneIsNoFunction, NEW s, NEW held, s.request \in RawInputs, Accepted(s, held),
           MovesValue(s)
    PROVE  LET c == s.canonical
               q == s.raw_input
               kind == strip(KindOf(s.request))
               given == Get(_unwrap_payload(q), "kind")
               graph == _graph_selection_for_state(q)
           IN  /\ c = ValueMovingIntent(kind, s.merged)
               /\ ValueMovingIntent(kind, s.merged) # Invalid
               /\ Covers(_unwrap_payload(q), c)
               /\ graph \in DOMAIN RoutedKinds \cup {"read"}
               /\ graph = "read" =>
                    /\ _parse_structured_intent(q) = Unsupported
                    /\ WrappedOnce(s.request) => ~PlainKind(s.request)
               /\ graph # "read" =>
                    /\ kind \in RoutedKinds[graph]
                    /\ "kind" \in DOMAIN _unwrap_payload(q)
                    /\ given = Get(s.request, "kind") /\ strip(given) = kind
<1> DEFINE raw == s.request
           m == s.merged
           c == s.canonical
           q == s.raw_input
           w == _unwrap_payload(q)
           kind == strip(KindOf(raw))
           given == Get(w, "kind")
           graph == _graph_selection_for_state(q)
<1>1. /\ kind \in _VALUE_MOVING_KINDS
      /\ c = ValueMovingIntent(kind, m) /\ ValueMovingIntent(kind, m) # Invalid
      /\ q = merge_canonical_into_raw_input(raw, c)
      /\ IsText(KindOf(raw))
  BY Zenon DEF Accepted, Sane, ModelOf, MovesValue
<1> HIDE DEF kind
<1>2. /\ c = [f \in DOMAIN c |-> c[f]]
      /\ {"kind", "intent", "text", "type"} \cap DOMAIN c = {}
  <2>1. /\ ValueMovingIntent(kind, m) = [f \in MovingFields(kind) |-> Get(m, f)]
        /\ {"kind", "intent", "text", "type"} \cap MovingFields(kind) = {}
    BY <1>1, MovingFacts
  <2> HIDE DEF c, m
  <2> QED BY <1>1, <2>1
<1>3. /\ Covers(w, c)
      /\ IsObject(Get(raw, "intent")) => w = c
      /\ ~IsObject(Get(raw, "intent")) =>
           /\ w = q
           /\ \A f : f \notin DOMAIN c =>
                (f \in DOMAIN q <=> f \in DOMAIN raw) /\ Get(q, f) = Get(raw, f)
  <2> HIDE DEF c, raw, q
  <2> QED BY <1>1, <1>2, RewrittenFacts
<1>4. None \notin _VALUE_MOVING_KINDS
  BY RoutingAssumption
<1>5. CASE IsObject(Get(raw, "intent"))
  <2>1. given = None /\ raw_kind(w) = None
    <3> HIDE DEF w, c
    <3> QED BY <1>2, <1>3, <1>5 DEF Get, raw_kind
  <2>2. graph = "read"
    BY <2>1, <1>4 DEF _graph_selection_for_state, _VALUE_MOVING_KINDS
  <2>3. _parse_structured_intent(q) = Unsupported
    BY <2>1 DEF _parse_structured_intent, IsText
  <2>4. ASSUME WrappedOnce(raw)
        PROVE  ~PlainKind(raw)
    BY <1>5, <2>4 DEF WrappedOnce, PlainKind
  <2> HIDE DEF graph, given, w, c, m, raw, q
  <2> QED BY <1>1, <1>3, <2>2, <2>3, <2>4 DEF graph, given, w, c, m, raw, q, kind
<1>6. CASE ~IsObject(Get(raw, "intent"))
  <2>1. /\ w = q
        /\ \A f \in {"kind", "type", "intent"} :
              (f \in DOMAIN q <=> f \in DOMAIN raw) /\ Get(q, f) = Get(raw, f)
    <3> HIDE DEF w, c, q, raw
    <3> QED BY <1>2, <1>3, <1>6
  <2>2. _unwrap_payload(raw) = raw /\ raw_kind(raw) = KindOf(raw)
    BY <1>6 DEF _unwrap_payload, KindOf
  <2> HIDE DEF w, c, q, raw
  <2>3. raw_kind(q) = KindOf(raw)
    BY <2>1, <2>2 DEF raw_kind, Get
  <2>4. given = Get(raw, "kind")
    BY <2>1
  <2>5. CASE "kind" \in DOMAIN raw
    <3>1. given = KindOf(raw) /\ given # None /\ strip(given) = kind
      BY <1>1, <2>2, <2>4, <2>5 DEF raw_kind, Get, IsText, kind
    <3>2. graph \in DOMAIN RoutedKinds /\ kind \in RoutedKinds[graph]
      <4>1. Get(_unwrap_payload(q), "kind") = given
        BY DEF w
      <4> HIDE DEF given
      <4> QED
        BY <1>1, <3>1, <4>1 DEF _graph_selection_for_state, RoutedKinds, _VALUE_MOVING_KINDS
    <3>3. graph # "read"
      BY <3>2 DEF RoutedKinds
    <3>4. "kind" \in DOMAIN w
      BY <2>1, <2>5
    <3> HIDE DEF graph, given
    <3> QED
      BY <1>1, <1>3, <2>4, <3>1, <3>2, <3>3, <3>4 DEF graph, given, w, c, m, raw, q, kind
  <2>6. CASE "kind" \notin DOMAIN raw
    <3>1. given = None
      BY <2>4, <2>6 DEF Get
    <3>2. graph = "read"
      <4>1. Get(_unwrap_payload(q), "kind") = None
        BY <3>1 DEF w
      <4> QED BY <4>1, <1>4 DEF _graph_selection_for_state, _VALUE_MOVING_KINDS
    <3>3. _parse_structured_intent(q) = Unsupported
      <4>1. strip(raw_kind(_unwrap_payload(q))) \notin DOMAIN _KIND_ALIASES
        BY <1>1, <2>1, <2>3, KindFacts DEF w, kind
      <4> QED BY <4>1, Zenon DEF _parse_structured_intent
    <3>4. ~PlainKind(raw)
      <4>1. \A x : Text(x) # None
        BY TextFacts
      <4> QED BY <2>4, <3>1, <4>1 DEF PlainKind
    <3> HIDE DEF graph, given
    <3> QED
      BY <1>1, <1>3, <3>2, <3>3, <3>4 DEF graph, given, w, c, m, raw, q, kind
  <2> QED BY <2>5, <2>6
<1> QED BY <1>5, <1>6

-----------------------------------------------------------------------------
(* The steps of a request.                                                 *)

\* The table of the fields that may hold a name.
LEMMA NameFieldsTable ==
    \A k \in DOMAIN _ENS_RESOLVABLE_FIELDS_BY_KIND :
        _ENS_RESOLVABLE_FIELDS_BY_KIND[k] \in Seq(NameFields)
<1> DEFINE S == Seq(NameFields)
           T == _ENS_RESOLVABLE_FIELDS_BY_KIND
<1>1. /\ <<"recipient_address">> \in S /\ <<"spender_address">> \in S
      /\ <<"wallet_address">> \in S /\ <<"contract_address">> \in S
      /\ <<"owner_address", "spender_address">> \in S
  BY DEF NameFields
<1> HIDE DEF S
<1>2. \A k \in DOMAIN T :
        T[k] \in {<<"recipient_address">>, <<"spender_address">>, <<"wallet_address">>,
                 <<"contract_address">>, <<"owner_address", "spender_address">>}
  <2>1. DOMAIN T = {"native_transfer", "erc20_transfer", "erc20_approval", "swap",
                    "native_balance", "portfolio_tokens", "get_portfolio_tokens",
                    "transfer_history", "get_transfer_history", "erc20_balance",
                    "erc20_allowance", "contract_read"}
    BY SMT DEF _ENS_RESOLVABLE_FIELDS_BY_KIND
  <2>2. /\ T["native_transfer"] = <<"recipient_address">>
        /\ T["erc20_transfer"] = <<"recipient_address">>
        /\ T["erc20_approval"] = <<"spender_address">> /\ T["swap"] = <<"recipient_address">>
        /\ T["native_balance"] = <<"wallet_address">> /\ T["portfolio_tokens"] = <<"wallet_address">>
        /\ T["get_portfolio_tokens"] = <<"wallet_address">>
        /\ T["transfer_history"] = <<"wallet_address">>
        /\ T["get_transfer_history"] = <<"wallet_address">>
        /\ T["erc20_balance"] = <<"wallet_address">> /\ T["contract_read"] = <<"contract_address">>
        /\ T["erc20_allowance"] = <<"owner_address", "spender_address">>
    BY SMT DEF _ENS_RESOLVABLE_FIELDS_BY_KIND
  <2> HIDE DEF T
  <2> QED BY <2>1, <2>2
<1> HIDE DEF T
<1>3. \A k \in DOMAIN T : T[k] \in S
  BY <1>1, <1>2
<1> QED
  BY <1>3 DEF S, T

\* A step that patches one request and leaves the shared state alone keeps the
\* invariant when the patched request satisfies it.
LEMMA RoutingPatch ==
    ASSUME RoutingInv, NEW r \in Requests, NEW p, DOMAIN p \subseteq StateFields, Patch(r, p),
           UNCHANGED <<_cache, ens, published>>, RequestOk(Update(state[r], p), published)
    PROVE  RoutingInv'
<1>1. /\ Shape' /\ \A q \in Requests \ {r} : state'[q] = state[q]
      /\ state'[r] = Update(state[r], p)
  BY PatchFacts DEF RoutingInv
<1>2. RecordsOk' /\ CacheOk'
  BY DEF RoutingInv, RecordsOk, CacheOk
<1>3. published' = published
  OBVIOUS
<1>4. \A q \in Requests : RequestOk(state'[q], published')
  <2> TAKE q \in Requests
  <2>1. CASE q = r
    BY <2>1, <1>1, <1>3
  <2>2. CASE q # r
    BY <2>2, <1>1, <1>3 DEF RoutingInv
  <2> QED BY <2>1, <2>2
<1> QED BY <1>1, <1>2, <1>4 DEF RoutingInv

\* What the phases say of a request is not about its position.
LEMMA SameRequest ==
    ASSUME NEW s, NEW t, NEW held,
           t.request = s.request, t.merged = s.merged
    PROVE  /\ Sane(s, held) => Sane(t, held)
           /\ /\ Accepted(s, held) /\ t.canonical = s.canonical /\ t.raw_input = s.raw_input
              => Accepted(t, held)
BY DEF Sane, Accepted

\* A record that a name has held takes the name's place.
LEMMA ResolveOne ==
    ASSUME NEW m, NEW m0, NEW held, Resolves(m, m0, held),
           NEW f \in NameFields, f \in DOMAIN m, m[f] \in Names,
           NEW chain \in SupportedChains, chain = effective_chain_name_for_resolution(m),
           NEW a \in Addresses, a \in held[<<m[f], chain>>]
    PROVE  Resolves(Put(m, f, a), m0, held)
<1>1. chain = effective_chain_name_for_resolution(m0) /\ DOMAIN m = DOMAIN m0
  BY ResolvedFacts
<1>2. m[f] = m0[f]
  BY IntentAssumption DEF Resolves
<1>3. /\ DOMAIN Put(m, f, a) = DOMAIN m
      /\ Put(m, f, a)[f] = a /\ \A g \in DOMAIN m \ {f} : Put(m, f, a)[g] = m[g]
  BY DEF Put, Update
<1> DEFINE n == Put(m, f, a)
<1> HIDE DEF n
<1>4. /\ DOMAIN n = DOMAIN m0 /\ n[f] = a /\ \A g \in DOMAIN m0 \ {f} : n[g] = m[g]
  BY <1>1, <1>3 DEF n
<1>5. Resolves(n, m0, held)
  BY <1>1, <1>2, <1>4 DEF Resolves
<1> QED BY <1>5 DEF n

\* A request that is refused before a graph is chosen.
LEMMA RefusedOk ==
    ASSUME NEW s, DOMAIN s = StateFields, NEW held, s.request \in RawInputs,
           s.graph = None, s.canonical = None, Untouched(s),
           NEW e \in {"unsupported_intent", "validation_failed", "raised"}
    PROVE  RequestOk(Update(s, [error |-> e, node |-> "respond"]), held)
<1> DEFINE t == Update(s, [error |-> e, node |-> "respond"])
<1>1. /\ t.node = "respond" /\ t.error = e /\ t.request = s.request
      /\ t.graph = None /\ t.canonical = None /\ t.parsed_intent = None /\ t.tool = None
      /\ t.tool_result = None /\ t.prepared = None /\ t.status = None
  BY DEF Update, StateFields, Untouched
<1> HIDE DEF t
<1>2. Refused(t)
  BY <1>1 DEF Refused
<1>3. RequestOk(t, held)
  BY <1>1, <1>2 DEF RequestOk, Phase, Nodes
<1> QED BY <1>3 DEF t

\* validate: the input check.
LEMMA ValidateKeeps ==
    ASSUME RoutingInv, NEW r \in Requests, validate(r)
    PROVE  RoutingInv'
<1> DEFINE s == state[r]
           raw == s.raw_input
           m0 == merged_invoke_validation_payload(raw)
<1>1. /\ DOMAIN s = StateFields /\ s.node = "validate" /\ s.request \in RawInputs
      /\ Arrived(s) /\ s.raw_input = s.request
  BY DEF RoutingInv, Shape, RequestOk, Phase, Arrived, validate, At
<1>2. UNCHANGED <<_cache, ens, published>>
  BY DEF validate
<1>3. CASE IsText(raw) \/ ~IsText(KindOf(raw))
  <2>1. PICK e \in {"unsupported_intent", "validation_failed", "raised"} :
          Patch(r, [error |-> e, node |-> "respond"])
    BY <1>3 DEF validate
  <2>2. RequestOk(Update(s, [error |-> e, node |-> "respond"]), published)
    BY <1>1, RefusedOk DEF Arrived
  <2> QED BY <1>2, <2>1, <2>2, RoutingPatch DEF StateFields
<1>4. CASE ~IsText(raw) /\ IsText(KindOf(raw))
  <2> DEFINE kind == strip(KindOf(raw))
             F == IF kind \in DOMAIN _ENS_RESOLVABLE_FIELDS_BY_KIND
                  THEN _ENS_RESOLVABLE_FIELDS_BY_KIND[kind] ELSE <<>>
             p == [merged |-> m0, fields |-> F, node |-> "resolve_names"]
             t == Update(s, p)
  <2>1. Patch(r, p)
    BY <1>4 DEF validate
  <2>2. F \in Seq(NameFields)
    BY NameFieldsTable
  <2> HIDE DEF F, m0
  <2>3. /\ t.node = "resolve_names" /\ t.merged = m0 /\ t.fields = F /\ t.request = s.request
        /\ t.raw_input = s.raw_input /\ t.graph = s.graph /\ t.canonical = s.canonical
        /\ t.parsed_intent = s.parsed_intent /\ t.tool = s.tool /\ t.tool_result = s.tool_result
        /\ t.prepared = s.prepared /\ t.status = s.status /\ t.error = s.error
    BY <1>1 DEF Update, StateFields
  <2>4. Resolves(m0, m0, published)
    BY DEF Resolves
  <2> HIDE DEF t
  <2>5. Resolving(t, published)
    BY <1>1, <1>4, <2>2, <2>3, <2>4 DEF Resolving, Sane, Arrived, Untouched, m0
  <2>6. RequestOk(t, published)
    BY <1>1, <2>3, <2>5 DEF RequestOk, Phase, Nodes
  <2> QED BY <1>2, <2>1, <2>6, RoutingPatch DEF StateFields, t
<1> QED BY <1>3, <1>4

\* What holds of a request whose names are being resolved.
LEMMA ResolvingFacts ==
    ASSUME RoutingInv, NEW r \in Requests,
           state[r].node \in {"resolve_names", "ens_address", "store_answer"}
    PROVE  /\ DOMAIN state[r] = StateFields /\ state[r].request \in RawInputs
           /\ Resolving(state[r], published)
BY DEF RoutingInv, Shape, RequestOk, Phase

\* A field is done: the rest of the loop goes on with the payload m.
LEMMA NextField ==
    ASSUME NEW s, DOMAIN s = StateFields, s.request \in RawInputs, NEW held, Resolving(s, held),
           s.fields # <<>>,
           NEW t, t.node = "resolve_names", t.fields = Tail(s.fields),
           \A f \in StateFields \ {"node", "fields", "merged", "answer"} : t[f] = s[f],
           Resolves(t.merged, merged_invoke_validation_payload(s.request), held)
    PROVE  RequestOk(t, held)
<1>1. /\ t.request = s.request /\ t.raw_input = s.raw_input /\ t.graph = s.graph
      /\ t.canonical = s.canonical /\ t.parsed_intent = s.parsed_intent /\ t.tool = s.tool
      /\ t.tool_result = s.tool_result /\ t.prepared = s.prepared /\ t.status = s.status
      /\ t.error = s.error
  BY DEF StateFields
<1>2. s.fields \in Seq(NameFields)
  BY DEF Resolving
<1>3. t.fields \in Seq(NameFields)
  <2> DEFINE F == s.fields
             S == NameFields
  <2>1. F \in Seq(S) /\ F # <<>> /\ t.fields = Tail(F)
    BY <1>2
  <2> HIDE DEF F, S
  <2>2. Tail(F) \in Seq(S)
    BY <2>1
  <2> QED BY <2>1, <2>2 DEF S
<1>4. Resolving(t, held)
  BY <1>1, <1>3 DEF Resolving, Sane, Untouched
<1> QED BY <1>1, <1>4 DEF RequestOk, Phase, Nodes

\* resolve_evm_identifier: a field without a name, an unknown chain, a cached
\* answer, or a question to ENS.
LEMMA IdentifierKeeps ==
    ASSUME RoutingInv, NEW r \in Requests, resolve_evm_identifier(r)
    PROVE  RoutingInv'
<1> DEFINE s == state[r]
           m == s.merged
           m0 == merged_invoke_validation_payload(s.request)
           field == Head(s.fields)
           chain == effective_chain_name_for_resolution(m)
           key == <<m[field], chain>>
<1>1. s.node = "resolve_names" /\ s.fields # <<>> /\ UNCHANGED <<_cache, ens, published>>
  BY DEF resolve_evm_identifier, At
<1>2. /\ DOMAIN s = StateFields /\ s.request \in RawInputs
      /\ Resolving(s, published)
  BY <1>1, ResolvingFacts
<1>3. Resolves(m, m0, published) /\ s.fields \in Seq(NameFields)
  BY <1>2 DEF Resolving, Sane
<1>4. field \in NameFields
  <2> DEFINE F == s.fields
             S == NameFields
  <2>1. F \in Seq(S) /\ F # <<>>
    BY <1>1, <1>3
  <2> HIDE DEF F, S
  <2>2. Head(F) \in S
    BY <2>1
  <2> QED BY <2>2 DEF F, S
<1>5. CASE Get(m, field) \notin Names
  <2> DEFINE p == [fields |-> Tail(s.fields)]
             t == Update(s, p)
  <2>1. Patch(r, p)
    BY <1>5 DEF resolve_evm_identifier
  <2>2. /\ t.node = "resolve_names" /\ t.fields = Tail(s.fields) /\ t.merged = m
        /\ \A f \in StateFields \ {"fields"} : t[f] = s[f]
    BY <1>1, <1>2 DEF Update, StateFields
  <2> HIDE DEF t
  <2>3. RequestOk(t, published)
    BY <1>1, <1>2, <1>3, <2>2, NextField
  <2> QED BY <1>1, <2>1, <2>3, RoutingPatch DEF StateFields, t
<1>6. CASE Get(m, field) \in Names
  <2>1. field \in DOMAIN m /\ m[field] \in Names
    BY <1>6, IntentAssumption DEF Get
  <2>2. CASE get_chain_by_name(chain) = None
    <3> DEFINE p == [error |-> "validation_failed", node |-> "respond"]
    <3>1. Patch(r, p)
      BY <1>6, <2>2 DEF resolve_evm_identifier
    <3>2. RequestOk(Update(s, p), published)
      BY <1>2, RefusedOk DEF Resolving
    <3> QED BY <1>1, <3>1, <3>2, RoutingPatch DEF StateFields
  <2>3. CASE get_chain_by_name(chain) # None /\ key \in DOMAIN _cache
    <3> DEFINE a == _cache[key]
               n == Put(m, field, a)
               p == [merged |-> n, fields |-> Tail(s.fields)]
               t == Update(s, p)
    <3>1. Patch(r, p)
      BY <1>6, <2>3 DEF resolve_evm_identifier, cache_key
    <3>2. chain \in SupportedChains /\ a \in published[key] /\ a \in Addresses
      BY <2>3 DEF get_chain_by_name, RoutingInv, CacheOk
    <3>3. Resolves(n, m0, published)
      <4> HIDE DEF m, m0, field, a
      <4> QED BY <1>3, <1>4, <2>1, <3>2, ResolveOne
    <3> HIDE DEF n
    <3>4. /\ t.node = "resolve_names" /\ t.fields = Tail(s.fields) /\ t.merged = n
          /\ \A f \in StateFields \ {"merged", "fields"} : t[f] = s[f]
      BY <1>1, <1>2 DEF Update, StateFields
    <3> HIDE DEF t
    <3>5. RequestOk(t, published)
      BY <1>1, <1>2, <3>3, <3>4, NextField
    <3> QED BY <1>1, <3>1, <3>5, RoutingPatch DEF StateFields, t
  <2>4. CASE get_chain_by_name(chain) # None /\ key \notin DOMAIN _cache
    <3> DEFINE p == [node |-> "ens_address"]
               t == Update(s, p)
    <3>1. Patch(r, p)
      BY <1>6, <2>4 DEF resolve_evm_identifier, cache_key
    <3>2. t.node = "ens_address" /\ \A f \in StateFields \ {"node"} : t[f] = s[f]
      BY <1>2 DEF Update, StateFields
    <3>3. chain \in SupportedChains
      BY <2>4 DEF get_chain_by_name
    <3>4. LookingUp(s)
      BY <1>1, <2>1, <3>3 DEF LookingUp
    <3> HIDE DEF t
    <3>5. /\ t.request = s.request /\ t.raw_input = s.raw_input /\ t.graph = s.graph
          /\ t.canonical = s.canonical /\ t.parsed_intent = s.parsed_intent /\ t.tool = s.tool
          /\ t.tool_result = s.tool_result /\ t.prepared = s.prepared /\ t.status = s.status
          /\ t.error = s.error /\ t.merged = s.merged /\ t.fields = s.fields
      BY <3>2 DEF StateFields
    <3>6. Resolving(t, published)
      BY <1>2, <3>2, <3>4, <3>5 DEF Resolving, Sane, Untouched, LookingUp
    <3>7. RequestOk(t, published)
      BY <1>2, <3>2, <3>5, <3>6 DEF RequestOk, Phase, Nodes
    <3> QED BY <1>1, <3>1, <3>7, RoutingPatch DEF StateFields, t
  <2> QED BY <2>2, <2>3, <2>4
<1> QED BY <1>5, <1>6

\* ens_address: the record as it is now, no record, or no answer.
LEMMA AddressKeeps ==
    ASSUME RoutingInv, NEW r \in Requests, ens_address(r)
    PROVE  RoutingInv'
<1> DEFINE s == state[r]
           key == <<s.merged[Head(s.fields)], effective_chain_name_for_resolution(s.merged)>>
           record == ens[key]
<1>1. s.node = "ens_address" /\ UNCHANGED <<_cache, ens, published>>
  BY DEF ens_address, At
<1>2. /\ DOMAIN s = StateFields /\ s.request \in RawInputs
      /\ Resolving(s, published)
  BY <1>1, ResolvingFacts
<1>3. LookingUp(s) /\ key \in Records
  BY <1>1, <1>2 DEF Resolving, LookingUp, Records
<1>4. CASE record # None /\ Patch(r, [answer |-> record, node |-> "store_answer"])
  <2> DEFINE p == [answer |-> record, node |-> "store_answer"]
             t == Update(s, p)
  <2>1. record \in published[key] /\ record \in Addresses
    BY <1>3, <1>4, RoutingAssumption DEF RoutingInv, RecordsOk
  <2> HIDE DEF record
  <2>2. /\ t.node = "store_answer" /\ t.answer = record
        /\ \A f \in StateFields \ {"node", "answer"} : t[f] = s[f]
    BY <1>2 DEF Update, StateFields
  <2> HIDE DEF t
  <2>3. /\ t.request = s.request /\ t.raw_input = s.raw_input /\ t.graph = s.graph
        /\ t.canonical = s.canonical /\ t.parsed_intent = s.parsed_intent /\ t.tool = s.tool
        /\ t.tool_result = s.tool_result /\ t.prepared = s.prepared /\ t.status = s.status
        /\ t.error = s.error /\ t.merged = s.merged /\ t.fields = s.fields
    BY <2>2 DEF StateFields
  <2>4. Resolving(t, published)
    BY <1>2, <1>3, <2>1, <2>2, <2>3 DEF Resolving, Sane, Untouched, LookingUp
  <2>5. RequestOk(t, published)
    BY <1>2, <2>2, <2>3, <2>4 DEF RequestOk, Phase, Nodes
  <2> QED BY <1>1, <1>4, <2>5, RoutingPatch DEF StateFields, t
<1>5. ASSUME NEW e \in {"validation_failed", "raised"}, Patch(r, [error |-> e, node |-> "respond"])
      PROVE  RoutingInv'
  <2>1. RequestOk(Update(s, [error |-> e, node |-> "respond"]), published)
    BY <1>2, RefusedOk DEF Resolving
  <2> QED BY <1>1, <1>5, <2>1, RoutingPatch DEF StateFields
<1> QED BY <1>4, <1>5 DEF ens_address

\* store_answer: the answer goes to the shared cache, under its name and
\* chain, and into the payload.
LEMMA StoreKeeps ==
    ASSUME RoutingInv, NEW r \in Requests, store_answer(r)
    PROVE  RoutingInv'
<1> DEFINE s == state[r]
           m == s.merged
           m0 == merged_invoke_validation_payload(s.request)
           field == Head(s.fields)
           chain == effective_chain_name_for_resolution(m)
           key == <<m[field], chain>>
           a == s.answer
           n == Put(m, field, a)
           p == [merged |-> n, fields |-> Tail(s.fields), answer |-> None, node |-> "resolve_names"]
           t == Update(s, p)
<1>1. /\ s.node = "store_answer" /\ UNCHANGED <<ens, published>>
      /\ _cache' = Put(_cache, key, a) /\ Patch(r, p)
  BY DEF store_answer, At, cache_key
<1>2. /\ DOMAIN s = StateFields /\ s.request \in RawInputs
      /\ Resolving(s, published)
  BY <1>1, ResolvingFacts
<1>3. /\ Resolves(m, m0, published) /\ s.fields \in Seq(NameFields) /\ s.fields # <<>>
      /\ field \in DOMAIN m /\ m[field] \in Names /\ chain \in SupportedChains
      /\ a \in Addresses /\ a \in published[key]
  BY <1>1, <1>2 DEF Resolving, Sane, LookingUp
<1>4. field \in NameFields
  <2> DEFINE F == s.fields
             S == NameFields
  <2>1. F \in Seq(S) /\ F # <<>>
    BY <1>3
  <2> HIDE DEF F, S
  <2>2. Head(F) \in S
    BY <2>1
  <2> QED BY <2>2 DEF F, S
<1>5. Resolves(n, m0, published)
  <2> HIDE DEF m, m0, field, a
  <2> QED BY <1>3, <1>4, ResolveOne
<1>6. CacheOk'
  <2>1. key \in Records
    BY <1>3 DEF Records
  <2> HIDE DEF key, a
  <2>2. DOMAIN _cache' = DOMAIN _cache \cup {key} /\ _cache'[key] = a
        /\ \A k \in DOMAIN _cache \ {key} : _cache'[k] = _cache[k]
    BY <1>1 DEF Put, Update
  <2>3. /\ DOMAIN _cache \subseteq Records
        /\ \A k \in DOMAIN _cache : _cache[k] \in published[k] \cap Addresses
    BY DEF RoutingInv, CacheOk
  <2>4. a \in Addresses /\ a \in published[key]
    BY <1>3 DEF a, key
  <2> QED BY <1>1, <2>1, <2>2, <2>3, <2>4 DEF CacheOk
<1> HIDE DEF n
<1>7. /\ t.node = "resolve_names" /\ t.fields = Tail(s.fields) /\ t.merged = n
      /\ \A f \in StateFields \ {"node", "answer", "merged", "fields"} : t[f] = s[f]
      /\ DOMAIN p \subseteq StateFields
  BY <1>1, <1>2 DEF Update, StateFields
<1> HIDE DEF p, t
<1>8. RequestOk(t, published)
  BY <1>1, <1>2, <1>3, <1>5, <1>7, NextField
<1>9. /\ Shape' /\ \A q \in Requests \ {r} : state'[q] = state[q]
      /\ state'[r] = t
  BY <1>1, <1>7, PatchFacts DEF RoutingInv, t
<1>10. RecordsOk' /\ published' = published
  BY <1>1 DEF RoutingInv, RecordsOk
<1>11. \A q \in Requests : RequestOk(state'[q], published')
  <2> TAKE q \in Requests
  <2>1. CASE q = r
    BY <2>1, <1>8, <1>9, <1>10
  <2>2. CASE q # r
    BY <2>2, <1>9, <1>10 DEF RoutingInv
  <2> QED BY <2>1, <2>2
<1> QED BY <1>6, <1>9, <1>10, <1>11 DEF RoutingInv

\* validate_model: the model accepts the payload, or the request is refused.
LEMMA ModelKeeps ==
    ASSUME RoutingInv, NEW r \in Requests, validate_model(r)
    PROVE  RoutingInv'
<1> DEFINE s == state[r]
           kind == strip(KindOf(s.raw_input))
           c == ModelOf(kind, s.merged)
<1>1. s.node = "resolve_names" /\ UNCHANGED <<_cache, ens, published>>
  BY DEF validate_model, At
<1>2. /\ DOMAIN s = StateFields /\ s.request \in RawInputs
      /\ Resolving(s, published) /\ s.raw_input = s.request
  BY <1>1, ResolvingFacts DEF Resolving
<1>3. CASE c \in {Invalid, Unsupported}
  <2>1. PICK e \in {"unsupported_intent", "validation_failed", "raised"} :
          Patch(r, [error |-> e, node |-> "respond"])
    BY <1>3 DEF validate_model, ModelOf
  <2>2. RequestOk(Update(s, [error |-> e, node |-> "respond"]), published)
    BY <1>2, RefusedOk DEF Resolving
  <2> QED BY <1>1, <2>1, <2>2, RoutingPatch DEF StateFields
<1>4. CASE c \notin {Invalid, Unsupported}
  <2> DEFINE q == merge_canonical_into_raw_input(s.raw_input, c)
             p == [canonical |-> c, node |-> "select_graph", raw_input |-> q]
             t == Update(s, p)
  <2>1. Patch(r, p)
    BY <1>4, Zenon DEF validate_model, ModelOf
  <2> HIDE DEF c, q
  <2>2. /\ t.node = "select_graph" /\ t.canonical = c /\ t.raw_input = q
        /\ t.request = s.request /\ t.merged = s.merged /\ t.graph = s.graph
        /\ t.parsed_intent = s.parsed_intent /\ t.tool = s.tool /\ t.tool_result = s.tool_result
        /\ t.prepared = s.prepared /\ t.status = s.status /\ t.error = s.error
    BY <1>2 DEF Update, StateFields
  <2> HIDE DEF t
  <2>3. Accepted(t, published)
    BY <1>2, <1>4, <2>2 DEF Accepted, Resolving, Sane, c, q
  <2>4. Untouched(t) /\ t.graph = None
    BY <1>2, <2>2 DEF Resolving, Untouched
  <2>5. RequestOk(t, published)
    BY <1>2, <2>2, <2>3, <2>4 DEF RequestOk, Phase, Nodes
  <2> QED BY <1>1, <2>1, <2>5, RoutingPatch DEF StateFields, t
<1> QED BY <1>3, <1>4

\* What holds of a request that a graph works on.
LEMMA AcceptedFacts ==
    ASSUME RoutingInv, NEW r \in Requests,
           state[r].node \in {"select_graph", "route_intent", "prepare", "parse_intent",
                              "resolve_chain", "tool", "unsupported_response", "format_response"}
    PROVE  /\ DOMAIN state[r] = StateFields /\ state[r].request \in RawInputs
           /\ Accepted(state[r], published) /\ Phase(state[r], published)
BY DEF RoutingInv, Shape, RequestOk, Phase

\* The fields that no node of a graph writes.
GraphKeeps(s, t) ==
    /\ t.request = s.request /\ t.merged = s.merged /\ t.canonical = s.canonical
    /\ t.raw_input = s.raw_input

\* They are what acceptance and the kind are about.
LEMMA GraphKeepsAccepted ==
    ASSUME NEW s, NEW t, NEW held, GraphKeeps(s, t), Accepted(s, held)
    PROVE  Accepted(t, held) /\ (MovesValue(t) <=> MovesValue(s))
BY DEF GraphKeeps, Accepted, Sane, MovesValue

\* select_graph: one of the four graphs.
LEMMA SelectKeeps ==
    ASSUME RoutingInv, NEW r \in Requests, select_graph(r)
    PROVE  RoutingInv'
<1> DEFINE s == state[r]
           g == _graph_selection_for_state(s.raw_input)
           node == IF g = "read" THEN "parse_intent" ELSE "route_intent"
           p == [graph |-> g, node |-> node]
           t == Update(s, p)
<1>1. s.node = "select_graph" /\ UNCHANGED <<_cache, ens, published>> /\ Patch(r, p)
  BY DEF select_graph, At
<1>2. /\ DOMAIN s = StateFields /\ s.request \in RawInputs
      /\ Accepted(s, published) /\ Untouched(s)
  BY <1>1, AcceptedFacts DEF Phase
<1>3. g \in {"read", "native", "erc20", "swap"}
  BY DEF _graph_selection_for_state
<1> HIDE DEF g
<1>4. /\ t.graph = g /\ t.node = node /\ GraphKeeps(s, t)
      /\ t.parsed_intent = s.parsed_intent /\ t.tool = s.tool /\ t.tool_result = s.tool_result
      /\ t.prepared = s.prepared /\ t.status = s.status /\ t.error = s.error
  BY <1>2 DEF Update, StateFields, GraphKeeps
<1>5. t.graph = _graph_selection_for_state(t.raw_input)
  BY <1>4 DEF g, GraphKeeps
<1> HIDE DEF t
<1>6. Accepted(t, published) /\ Untouched(t)
  BY <1>2, <1>4, GraphKeepsAccepted DEF Untouched
<1>7. \/ t.node = "parse_intent" /\ t.graph = "read"
      \/ t.node = "route_intent" /\ t.graph \in DOMAIN RoutedKinds
  BY <1>3, <1>4 DEF RoutedKinds
<1>8. t.request \in RawInputs
  BY <1>2, <1>4 DEF GraphKeeps
<1>9. RequestOk(t, published)
  BY <1>5, <1>6, <1>7, <1>8 DEF RequestOk, Phase, Nodes
<1> QED BY <1>1, <1>9, RoutingPatch DEF StateFields, t

\* route_intent: a kind in its plain form is prepared.
LEMMA RouteKeeps ==
    ASSUME NoneIsNoFunction, RoutingInv, NEW r \in Requests, route_intent(r)
    PROVE  RoutingInv'
<1> DEFINE s == state[r]
           g == s.graph
           given == Get(_unwrap_payload(s.raw_input), "kind")
           routed == \E k \in RoutedKinds[g] : given = Text(k)
           kind == strip(KindOf(s.request))
<1>1. /\ s.node = "route_intent" /\ UNCHANGED <<_cache, ens, published>>
      /\ routed => Patch(r, [node |-> "prepare"])
      /\ ~routed => Patch(r, [node |-> "unsupported_response"])
  BY DEF route_intent, At
<1>2. /\ DOMAIN s = StateFields /\ s.request \in RawInputs
      /\ Accepted(s, published) /\ Untouched(s)
      /\ g = _graph_selection_for_state(s.raw_input) /\ g \in DOMAIN RoutedKinds
  BY <1>1, AcceptedFacts DEF Phase
<1>3. MovesValue(s) /\ g # "read"
  <2>1. g # "read"
    BY <1>2 DEF RoutedKinds
  <2>2. ~MovesValue(s) => _graph_selection_for_state(s.raw_input) = "read"
    BY <1>2, AcceptedRead
  <2> QED BY <1>2, <2>1, <2>2
<1>4. kind \in RoutedKinds[g] /\ given = Get(s.request, "kind") /\ strip(given) = kind
  BY <1>2, <1>3, AcceptedMoving
<1>5. ASSUME NEW node \in {"prepare", "unsupported_response"}
      PROVE  LET t == Update(s, [node |-> node])
             IN  /\ t.node = node /\ GraphKeeps(s, t) /\ t.graph = g
                 /\ t.request \in RawInputs
                 /\ Accepted(t, published) /\ Untouched(t) /\ MovesValue(t)
  <2> DEFINE t == Update(s, [node |-> node])
  <2>1. /\ t.node = node /\ GraphKeeps(s, t) /\ t.graph = g
        /\ t.parsed_intent = s.parsed_intent /\ t.tool = s.tool /\ t.tool_result = s.tool_result
        /\ t.prepared = s.prepared /\ t.status = s.status /\ t.error = s.error
        /\ t.request \in RawInputs
    BY <1>2 DEF Update, StateFields, GraphKeeps
  <2> HIDE DEF t
  <2>2. Accepted(t, published) /\ Untouched(t) /\ MovesValue(t)
    BY <1>2, <1>3, <2>1, GraphKeepsAccepted DEF Untouched
  <2> QED BY <2>1, <2>2 DEF t
<1>6. CASE routed
  <2> DEFINE t == Update(s, [node |-> "prepare"])
  <2>1. /\ t.node = "prepare" /\ GraphKeeps(s, t) /\ t.graph = g /\ t.request \in RawInputs
        /\ Accepted(t, published) /\ Untouched(t)
    BY <1>5
  <2> HIDE DEF t
  <2>2. \E k \in RoutedKinds[t.graph] : Get(_unwrap_payload(t.raw_input), "kind") = Text(k)
    BY <1>6, <2>1 DEF GraphKeeps
  <2>3. t.graph = _graph_selection_for_state(t.raw_input) /\ t.graph \in DOMAIN RoutedKinds
    BY <1>2, <2>1 DEF GraphKeeps
  <2>4. RequestOk(t, published)
    BY <2>1, <2>2, <2>3 DEF RequestOk, Phase, Nodes
  <2> QED BY <1>1, <1>6, <2>4, RoutingPatch DEF StateFields, t
<1>7. CASE ~routed
  <2> DEFINE t == Update(s, [node |-> "unsupported_response"])
  <2>1. /\ t.node = "unsupported_response" /\ GraphKeeps(s, t) /\ t.request \in RawInputs
        /\ Accepted(t, published) /\ Untouched(t) /\ MovesValue(t)
    BY <1>5
  <2>2. ~PlainKind(s.request)
    <3> SUFFICES ASSUME NEW k \in _VALUE_MOVING_KINDS, Get(s.request, "kind") = Text(k)
                 PROVE  FALSE
      BY DEF PlainKind
    <3>1. given = Text(k) /\ k = kind
      <4> HIDE DEF kind, given
      <4> QED BY <1>4, TextFacts
    <3> QED BY <1>4, <1>7, <3>1
  <2> HIDE DEF t
  <2>3. NotRecognised(t) /\ t.status = None
    BY <2>1, <2>2 DEF NotRecognised, Untouched, GraphKeeps
  <2>4. RequestOk(t, published)
    BY <2>1, <2>3 DEF RequestOk, Phase, Nodes
  <2> QED BY <1>1, <1>7, <2>4, RoutingPatch DEF StateFields, t
<1> QED BY <1>6, <1>7

\* prepare: the second validation of a value-moving intent.
LEMMA PrepareKeeps ==
    ASSUME NoneIsNoFunction, RoutingInv, NEW r \in Requests, prepare(r)
    PROVE  RoutingInv'
<1> DEFINE s == state[r]
           w == _unwrap_payload(s.raw_input)
           kind == strip(KindOf(s.request))
           c == s.canonical
           v == Put(c, "kind", Text(kind))
           p == [prepared |-> v, node |-> "respond"]
           t == Update(s, p)
<1>1. s.node = "prepare" /\ UNCHANGED <<_cache, ens, published>>
  BY DEF prepare, At
<1>2. /\ DOMAIN s = StateFields /\ s.request \in RawInputs
      /\ Accepted(s, published) /\ Untouched(s)
      /\ s.graph = _graph_selection_for_state(s.raw_input) /\ s.graph \in DOMAIN RoutedKinds
  BY <1>1, AcceptedFacts DEF Phase
<1>3. MovesValue(s) /\ s.graph # "read"
  <2>1. s.graph # "read"
    BY <1>2 DEF RoutedKinds
  <2>2. ~MovesValue(s) => _graph_selection_for_state(s.raw_input) = "read"
    BY <1>2, AcceptedRead
  <2> QED BY <1>2, <2>1, <2>2
<1>4. /\ c = ValueMovingIntent(kind, s.merged) /\ ValueMovingIntent(kind, s.merged) # Invalid
      /\ Covers(w, c) /\ "kind" \in DOMAIN w /\ strip(Get(w, "kind")) = kind
  BY <1>2, <1>3, AcceptedMoving
<1>5. strip(w["kind"]) = kind
  BY <1>4 DEF Get
<1>6. ValueMovingIntent(kind, w) = c
  <2>1. kind \in _VALUE_MOVING_KINDS
    BY <1>3 DEF MovesValue
  <2> DEFINE m == s.merged
  <2> HIDE DEF kind, w, c, m
  <2>2. c = ValueMovingIntent(kind, m) /\ ValueMovingIntent(kind, m) # Invalid /\ Covers(w, c)
    BY <1>4 DEF m
  <2> QED BY <2>1, <2>2, MovingAgain
<1>7. c # Invalid
  BY <1>2 DEF Accepted
<1>8. Patch(r, p)
  BY <1>5, <1>6, <1>7 DEF prepare
<1> HIDE DEF v
<1>9. /\ t.node = "respond" /\ t.prepared = v /\ GraphKeeps(s, t) /\ t.graph = s.graph
      /\ t.parsed_intent = s.parsed_intent /\ t.tool = s.tool /\ t.tool_result = s.tool_result
      /\ t.status = s.status /\ t.error = s.error /\ t.request \in RawInputs
  BY <1>2 DEF Update, StateFields, GraphKeeps
<1> HIDE DEF t
<1>10. Accepted(t, published) /\ MovesValue(t)
  BY <1>2, <1>3, <1>9, GraphKeepsAccepted
<1>11. Prepared(t)
  <2>1. v = Put(t.canonical, "kind", Text(strip(KindOf(t.request))))
    BY <1>9 DEF GraphKeeps, v
  <2> QED BY <1>2, <1>9, <1>10, <2>1 DEF Prepared, Untouched
<1>12. RequestOk(t, published)
  BY <1>2, <1>9, <1>10, <1>11 DEF RequestOk, Phase, Nodes, Ended, Untouched
<1> QED BY <1>1, <1>8, <1>12, RoutingPatch DEF StateFields, t

\* parse_intent: the second parse of a read finds the intent of the first; a
\* value-moving intent is not recognised.
LEMMA ParseKeeps ==
    ASSUME NoneIsNoFunction, RoutingInv, NEW r \in Requests, parse_intent(r)
    PROVE  RoutingInv'
<1> DEFINE s == state[r]
           c == _parse_structured_intent(s.raw_input)
<1>1. s.node = "parse_intent" /\ UNCHANGED <<_cache, ens, published>>
  BY DEF parse_intent, At
<1>2. /\ DOMAIN s = StateFields /\ s.request \in RawInputs
      /\ Accepted(s, published) /\ Untouched(s)
      /\ s.graph = _graph_selection_for_state(s.raw_input) /\ s.graph = "read"
  BY <1>1, AcceptedFacts DEF Phase
<1>3. CASE MovesValue(s)
  <2> DEFINE p == [parsed_intent |-> Unsupported, node |-> "unsupported_response"]
             t == Update(s, p)
  <2>1. c = Unsupported /\ (WrappedOnce(s.request) => ~PlainKind(s.request))
    BY <1>2, <1>3, AcceptedMoving
  <2>2. Patch(r, p)
    BY <2>1, IntentAssumption DEF parse_intent
  <2>3. /\ t.node = "unsupported_response" /\ GraphKeeps(s, t)
        /\ t.tool = s.tool /\ t.tool_result = s.tool_result /\ t.prepared = s.prepared
        /\ t.status = s.status /\ t.error = s.error /\ t.request \in RawInputs
    BY <1>2 DEF Update, StateFields, GraphKeeps
  <2> HIDE DEF t
  <2>4. Accepted(t, published) /\ MovesValue(t)
    BY <1>2, <1>3, <2>3, GraphKeepsAccepted
  <2>5. NotRecognised(t) /\ t.status = None
    BY <1>2, <2>1, <2>3, <2>4 DEF NotRecognised, Untouched, GraphKeeps
  <2>6. RequestOk(t, published)
    BY <2>3, <2>4, <2>5 DEF RequestOk, Phase, Nodes
  <2> QED BY <1>1, <2>2, <2>6, RoutingPatch DEF StateFields, t
<1>4. CASE ~MovesValue(s)
  <2> DEFINE p == [parsed_intent |-> c, node |-> "resolve_chain"]
             t == Update(s, p)
  <2>1. c = s.canonical /\ c \notin {Invalid, Unsupported}
    BY <1>2, <1>4, AcceptedRead DEF Accepted
  <2>2. Patch(r, p)
    BY <2>1 DEF parse_intent
  <2> HIDE DEF c
  <2>3. /\ t.node = "resolve_chain" /\ GraphKeeps(s, t) /\ t.parsed_intent = c
        /\ t.graph = s.graph
        /\ t.tool = s.tool /\ t.tool_result = s.tool_result /\ t.prepared = s.prepared
        /\ t.status = s.status /\ t.error = s.error /\ t.request \in RawInputs
    BY <1>2 DEF Update, StateFields, GraphKeeps
  <2> HIDE DEF t
  <2>4. Accepted(t, published) /\ ~MovesValue(t)
    BY <1>2, <1>4, <2>3, GraphKeepsAccepted
  <2>5. t.parsed_intent = t.canonical
    BY <2>1, <2>3 DEF GraphKeeps
  <2>6. RequestOk(t, published)
    BY <1>2, <2>3, <2>4, <2>5 DEF RequestOk, Phase, Nodes, Untouched
  <2> QED BY <1>1, <2>2, <2>6, RoutingPatch DEF StateFields, t
<1> QED BY <1>3, <1>4

\* resolve_chain: the chain of the call, or an error.
LEMMA ChainKeeps ==
    ASSUME RoutingInv, NEW r \in Requests, resolve_chain(r)
    PROVE  RoutingInv'
<1> DEFINE s == state[r]
           c == s.parsed_intent
           chain == Head(ChainsOf(c))
<1>1. s.node = "resolve_chain" /\ UNCHANGED <<_cache, ens, published>>
  BY DEF resolve_chain, At
<1>2. /\ DOMAIN s = StateFields /\ s.request \in RawInputs
      /\ Accepted(s, published)
      /\ ~MovesValue(s) /\ s.graph = "read" /\ s.parsed_intent = s.canonical
      /\ s.error = None /\ s.tool = None /\ s.tool_result = None /\ s.prepared = None
      /\ s.status = None
  BY <1>1, AcceptedFacts DEF Phase
<1>3. CASE ResolvableChains(c)
  <2> DEFINE p == [chain_name |-> chain, node |-> "tool"]
             t == Update(s, p)
  <2>1. Patch(r, p)
    BY <1>3 DEF resolve_chain
  <2> HIDE DEF chain
  <2>2. /\ t.node = "tool" /\ GraphKeeps(s, t) /\ t.parsed_intent = c /\ t.chain_name = chain
        /\ t.graph = s.graph /\ t.tool = s.tool /\ t.tool_result = s.tool_result
        /\ t.prepared = s.prepared /\ t.status = s.status /\ t.error = s.error
        /\ t.request \in RawInputs
    BY <1>2 DEF Update, StateFields, GraphKeeps
  <2> HIDE DEF t
  <2>3. Accepted(t, published) /\ ~MovesValue(t)
    BY <1>2, <2>2, GraphKeepsAccepted
  <2>4. t.parsed_intent = t.canonical /\ t.chain_name = Head(ChainsOf(t.canonical))
    BY <1>2, <2>2 DEF GraphKeeps, chain
  <2>5. RequestOk(t, published)
    BY <1>2, <2>2, <2>3, <2>4 DEF RequestOk, Phase, Nodes
  <2> QED BY <1>1, <2>1, <2>5, RoutingPatch DEF StateFields, t
<1>4. CASE ~ResolvableChains(c)
  <2> DEFINE p == [error |-> "missing_chain_config", node |-> "format_response"]
             t == Update(s, p)
  <2>1. Patch(r, p)
    BY <1>4 DEF resolve_chain
  <2>2. /\ t.node = "format_response" /\ GraphKeeps(s, t) /\ t.parsed_intent = c
        /\ t.error = "missing_chain_config"
        /\ t.graph = s.graph /\ t.tool = s.tool /\ t.tool_result = s.tool_result
        /\ t.prepared = s.prepared /\ t.status = s.status
        /\ t.request \in RawInputs
    BY <1>2 DEF Update, StateFields, GraphKeeps
  <2> HIDE DEF t
  <2>3. Accepted(t, published) /\ ~MovesValue(t)
    BY <1>2, <2>2, GraphKeepsAccepted
  <2>4. NotServed(t)
    BY <1>2, <2>2, <2>3 DEF NotServed, GraphKeeps
  <2>5. RequestOk(t, published)
    BY <1>2, <2>2, <2>3, <2>4 DEF RequestOk, Phase, Nodes
  <2> QED BY <1>1, <2>1, <2>5, RoutingPatch DEF StateFields, t
<1> QED BY <1>3, <1>4

\* execute_read_tool: the tool of the kind, called with the intent's fields.
LEMMA ToolKeeps ==
    ASSUME RoutingInv, NEW r \in Requests, execute_read_tool(r)
    PROVE  RoutingInv'
<1> DEFINE s == state[r]
           c == s.parsed_intent
           tool == _READ_ROUTES[strip(c["kind"])]
           input == _tool_input_for_state(c, s.chain_name)
           call == [tool |-> tool, node |-> "format_response", tool_input |-> input]
<1>1. s.node = "tool" /\ UNCHANGED <<_cache, ens, published>>
  BY DEF execute_read_tool, At
<1>2. /\ DOMAIN s = StateFields /\ s.request \in RawInputs
      /\ Accepted(s, published)
      /\ ~MovesValue(s) /\ s.graph = "read" /\ s.parsed_intent = s.canonical
      /\ s.error = None /\ s.tool = None /\ s.tool_result = None /\ s.prepared = None
      /\ s.status = None /\ s.chain_name = Head(ChainsOf(s.canonical))
  BY <1>1, AcceptedFacts DEF Phase
<1>3. PICK f \in {"tool_result", "error"} :
        Patch(r, Put(call, f, IF f = "error" THEN "tool_error" ELSE "result"))
  BY DEF execute_read_tool
<1> DEFINE v == IF f = "error" THEN "tool_error" ELSE "result"
           p == Put(call, f, v)
           t == Update(s, p)
<1>4. /\ DOMAIN p = {"tool", "node", "tool_input", f}
      /\ p["tool"] = tool /\ p["node"] = "format_response" /\ p["tool_input"] = input
      /\ p[f] = v
  <2> HIDE DEF tool, input, v
  <2> QED BY DEF Put, Update
<1> HIDE DEF p, tool, input
<1>5. /\ t.node = "format_response" /\ GraphKeeps(s, t) /\ t.parsed_intent = c
      /\ t.tool = tool /\ t.tool_input = input
      /\ \/ t.error = s.error /\ t.tool_result = "result"
         \/ t.error = "tool_error" /\ t.tool_result = s.tool_result
      /\ t.graph = s.graph /\ t.prepared = s.prepared /\ t.status = s.status
      /\ t.request \in RawInputs
  BY <1>2, <1>4 DEF Update, StateFields, GraphKeeps
<1> HIDE DEF t
<1>6. Accepted(t, published) /\ ~MovesValue(t)
  BY <1>2, <1>5, GraphKeepsAccepted
<1>7. /\ t.parsed_intent = t.canonical
      /\ t.tool = _READ_ROUTES[strip(t.canonical["kind"])]
      /\ t.tool_input = _tool_input_for_state(t.canonical, Head(ChainsOf(t.canonical)))
  BY <1>2, <1>5 DEF GraphKeeps, tool, input
<1>8. Called(t)
  BY <1>2, <1>5, <1>6, <1>7 DEF Called
<1>9. RequestOk(t, published)
  BY <1>2, <1>5, <1>6, <1>8 DEF RequestOk, Phase, Nodes
<1>10. DOMAIN p \subseteq StateFields
  BY <1>4 DEF StateFields
<1>11. Patch(r, p)
  BY <1>3 DEF p
<1> QED BY <1>1, <1>9, <1>10, <1>11, RoutingPatch DEF t

\* The outcome of a request does not depend on its position or its status.
LEMMA SameOutcome ==
    ASSUME NEW s, NEW t, NEW held,
           \A f \in StateFields \ {"node", "status"} : t[f] = s[f]
    PROVE  /\ Refused(s) => Refused(t)
           /\ Accepted(s, held) => Accepted(t, held)
           /\ NotRecognised(s) => NotRecognised(t)
           /\ NotServed(s) => NotServed(t)
           /\ Called(s) => Called(t)
           /\ Ended(s, held) => Ended(t, held)
           /\ StatusOf(t) = StatusOf(s)
<1>1. /\ t.request = s.request /\ t.raw_input = s.raw_input /\ t.graph = s.graph
      /\ t.canonical = s.canonical /\ t.parsed_intent = s.parsed_intent /\ t.tool = s.tool
      /\ t.tool_result = s.tool_result /\ t.prepared = s.prepared /\ t.tool_input = s.tool_input
      /\ t.error = s.error /\ t.merged = s.merged
  BY DEF StateFields
<1>2. Accepted(s, held) => Accepted(t, held)
  BY <1>1 DEF Accepted, Sane
<1>3. Refused(s) => Refused(t)
  BY <1>1 DEF Refused
<1>4. MovesValue(t) <=> MovesValue(s)
  BY <1>1 DEF MovesValue
<1>5. NotRecognised(s) => NotRecognised(t)
  BY <1>1, <1>4 DEF NotRecognised
<1>6. NotServed(s) => NotServed(t)
  BY <1>1, <1>4 DEF NotServed
<1>7. Called(s) => Called(t)
  BY <1>1, <1>4 DEF Called
<1>8. Prepared(s) => Prepared(t)
  BY <1>1, <1>4 DEF Prepared
<1>9. StatusOf(t) = StatusOf(s)
  BY <1>1 DEF StatusOf
<1> QED BY <1>2, <1>3, <1>5, <1>6, <1>7, <1>8, <1>9 DEF Ended

\* format_response and the unsupported branch end the graph.
LEMMA FormatKeeps ==
    ASSUME RoutingInv, NEW r \in Requests, format_response(r)
    PROVE  RoutingInv'
<1> DEFINE s == state[r]
           p == [node |-> "respond"]
           t == Update(s, p)
<1>1. /\ s.node \in {"format_response", "unsupported_response"}
      /\ UNCHANGED <<_cache, ens, published>> /\ Patch(r, p)
  BY DEF format_response, At
<1>2. /\ DOMAIN s = StateFields /\ s.request \in RawInputs /\ s.status = None
      /\ Ended(s, published)
  BY <1>1, AcceptedFacts DEF Phase, Ended
<1>3. /\ t.node = "respond" /\ t.status = None /\ t.request \in RawInputs
      /\ \A f \in StateFields \ {"node", "status"} : t[f] = s[f]
  BY <1>2 DEF Update, StateFields
<1> HIDE DEF t
<1>4. Ended(t, published)
  BY <1>2, <1>3, SameOutcome
<1>5. RequestOk(t, published)
  BY <1>3, <1>4 DEF RequestOk, Phase, Nodes
<1> QED BY <1>1, <1>5, RoutingPatch DEF StateFields, t

\* respond: the status is computed from the outcome.
LEMMA RespondKeeps ==
    ASSUME RoutingInv, NEW r \in Requests, respond(r)
    PROVE  RoutingInv'
<1> DEFINE s == state[r]
           v == StatusOf(s)
           p == [status |-> v, node |-> "done"]
           t == Update(s, p)
<1>1. s.node = "respond" /\ UNCHANGED <<_cache, ens, published>> /\ Patch(r, p)
  BY DEF respond, At
<1>2. /\ DOMAIN s = StateFields /\ s.request \in RawInputs
      /\ Refused(s) \/ Ended(s, published)
  BY <1>1 DEF RoutingInv, Shape, RequestOk, Phase
<1> HIDE DEF v
<1>3. /\ t.node = "done" /\ t.status = v /\ t.request \in RawInputs
      /\ \A f \in StateFields \ {"node", "status"} : t[f] = s[f]
  BY <1>2 DEF Update, StateFields
<1> HIDE DEF t
<1>4. (Refused(t) \/ Ended(t, published)) /\ t.status = StatusOf(t)
  BY <1>2, <1>3, SameOutcome DEF v
<1>5. RequestOk(t, published)
  BY <1>3, <1>4 DEF RequestOk, Phase, Nodes
<1> QED BY <1>1, <1>5, RoutingPatch DEF StateFields, t

\* SetRecord: what a record has held stays in its history.
LEMMA RecordKeeps ==
    ASSUME RoutingInv, SetRecord
    PROVE  RoutingInv'
<1>1. PICK k \in Records : \E a \in RecordValues \cup {None} :
        /\ ens' = [ens EXCEPT ![k] = a]
        /\ published' = [published EXCEPT ![k] = @ \cup {a}]
  BY DEF SetRecord
<1>2. PICK a \in RecordValues \cup {None} :
        /\ ens' = [ens EXCEPT ![k] = a]
        /\ published' = [published EXCEPT ![k] = @ \cup {a}]
  BY <1>1
<1>3. state' = state /\ _cache' = _cache
  BY DEF SetRecord
<1>4. RecordsOk' /\ \A x \in Records : published[x] \subseteq published'[x]
  BY <1>2 DEF RoutingInv, RecordsOk
<1>5. CacheOk'
  BY <1>3, <1>4 DEF RoutingInv, CacheOk
<1>6. ASSUME NEW m, NEW m0, Resolves(m, m0, published)
      PROVE  Resolves(m, m0, published')
  BY <1>4, <1>6 DEF Resolves, Records
<1>7. ASSUME NEW q \in Requests
      PROVE  RequestOk(state[q], published')
  <2> DEFINE s == state[q]
  <2>1. RequestOk(s, published)
    BY DEF RoutingInv
  <2> HIDE DEF s
  <2>2. Sane(s, published) => Sane(s, published')
    BY <1>6 DEF Sane
  <2>3. Accepted(s, published) => Accepted(s, published')
    BY <2>2 DEF Accepted
  <2>4. Resolving(s, published) => Resolving(s, published')
    BY <1>4, <2>2 DEF Resolving, LookingUp, Records
  <2>5. Ended(s, published) => Ended(s, published')
    BY <2>3 DEF Ended
  <2>6. RequestOk(s, published')
    BY <2>1, <2>3, <2>4, <2>5 DEF RequestOk, Phase
  <2> QED BY <2>6 DEF s
<1>8. Shape'
  BY <1>3 DEF RoutingInv, Shape
<1> QED BY <1>3, <1>4, <1>5, <1>7, <1>8 DEF RoutingInv

\* The invariant holds of every behaviour.
LEMMA RoutingInvariant ==
    ASSUME NoneIsNoFunction
    PROVE  Spec => []RoutingInv
<1>1. Init => RoutingInv
  <2> SUFFICES ASSUME Init
               PROVE  RoutingInv
    OBVIOUS
  <2>1. PICK a \in Arrivals :
          state = [r \in Requests |-> NewState(_intent_with_boundary_fields(a[r]))]
    BY DEF Init
  <2>2. Shape
    BY <2>1 DEF Shape, NewState, StateFields
  <2>3. \A r \in Requests : RequestOk(state[r], published)
    <3> TAKE r \in Requests
    <3> DEFINE raw == _intent_with_boundary_fields(a[r])
               s == state[r]
    <3>1. raw \in RawInputs
      BY DEF RawInputs
    <3> HIDE DEF raw
    <3>2. s = NewState(raw)
      BY <2>1 DEF raw
    <3> HIDE DEF s
    <3>3. /\ s.node = "validate" /\ s.request = raw /\ s.raw_input = raw /\ s.graph = None
          /\ s.canonical = None /\ Untouched(s)
      BY <3>2 DEF NewState, Untouched
    <3>4. RequestOk(s, published)
      BY <3>1, <3>3 DEF RequestOk, Phase, Nodes, Arrived
    <3> QED BY <3>4 DEF s
  <2>4. RecordsOk
    BY DEF Init, RecordsOk
  <2>5. CacheOk
    BY DEF Init, CacheOk
  <2> QED BY <2>2, <2>3, <2>4, <2>5 DEF RoutingInv
<1>2. RoutingInv /\ [Next]_vars => RoutingInv'
  <2> SUFFICES ASSUME RoutingInv, [Next]_vars
               PROVE  RoutingInv'
    OBVIOUS
  <2>1. CASE SetRecord
    BY <2>1, RecordKeeps
  <2>2. ASSUME NEW r \in Requests, Step(r)
        PROVE  RoutingInv'
    BY <2>2, ValidateKeeps, IdentifierKeeps, AddressKeeps, StoreKeeps, ModelKeeps, SelectKeeps,
       RouteKeeps, PrepareKeeps, ParseKeeps, ChainKeeps, ToolKeeps, FormatKeeps, RespondKeeps
       DEF Step, ReadStep
  <2>3. CASE UNCHANGED vars
    BY <2>3 DEF vars, RoutingInv, Shape, RecordsOk, CacheOk
  <2> QED BY <2>1, <2>2, <2>3 DEF Next
<1> QED BY <1>1, <1>2, PTL DEF Spec

-----------------------------------------------------------------------------
(* What the invariant says of the requests.                                *)

\* The second parse, at every position of a request.
LEMMA SecondParseOf ==
    ASSUME NEW s, NEW held, RequestOk(s, held)
    PROVE  /\ s.graph = "read" /\ strip(KindOf(s.request)) \notin _VALUE_MOVING_KINDS
                => /\ s.error # "unsupported_intent"
                   /\ s.parsed_intent \in {None, s.canonical}
           /\ s.graph \in {"native", "erc20", "swap"} => s.error # "validation_failed"
           /\ s.prepared # None
                => \A f \in DOMAIN s.canonical : s.prepared[f] = s.canonical[f]
<1> DEFINE Goal == /\ s.graph = "read" /\ ~MovesValue(s) =>
                        /\ s.error # "unsupported_intent"
                        /\ s.parsed_intent \in {None, s.canonical}
                   /\ s.graph \in {"native", "erc20", "swap"} => s.error # "validation_failed"
                   /\ s.prepared # None
                        => \A f \in DOMAIN s.canonical : s.prepared[f] = s.canonical[f]
<1>0. None \notin {"read", "native", "erc20", "swap", "unsupported_intent", "validation_failed"}
  BY RoutingAssumption DEF _VALUE_MOVING_KINDS
<1>1. CASE s.graph = None /\ s.prepared = None
  BY <1>0, <1>1
<1>2. CASE Untouched(s)
  BY <1>0, <1>2 DEF Untouched
<1>3. CASE NotRecognised(s)
  BY <1>0, <1>3 DEF NotRecognised, MovesValue
<1>4. CASE NotServed(s)
  BY <1>0, <1>4 DEF NotServed
<1>5. CASE Called(s)
  BY <1>0, <1>5 DEF Called
<1>6. CASE Prepared(s) /\ Accepted(s, held)
  <2> DEFINE kind == strip(KindOf(s.request))
             c == s.canonical
  <2>1. /\ kind \in _VALUE_MOVING_KINDS
        /\ c = ValueMovingIntent(kind, s.merged) /\ ValueMovingIntent(kind, s.merged) # Invalid
    BY <1>6, Zenon DEF Prepared, MovesValue, Accepted, ModelOf
  <2>2. "kind" \notin DOMAIN c
    <3> DEFINE m == s.merged
    <3>1. /\ ValueMovingIntent(kind, m) = [f \in MovingFields(kind) |-> Get(m, f)]
          /\ "kind" \notin MovingFields(kind)
      <4> HIDE DEF kind, m
      <4>1. /\ ValueMovingIntent(kind, m) = [f \in MovingFields(kind) |-> Get(m, f)]
            /\ {"kind", "intent", "text", "type"} \cap MovingFields(kind) = {}
        BY <2>1, MovingFacts DEF m
      <4> QED BY <4>1
    <3> HIDE DEF kind, m, c
    <3> QED BY <2>1, <3>1 DEF m
  <2>3. s.prepared = Put(c, "kind", Text(kind)) /\ s.error = None /\ MovesValue(s)
    BY <1>6 DEF Prepared
  <2>4. \A f \in DOMAIN c : s.prepared[f] = c[f]
    <3> DEFINE v == Text(kind)
    <3> HIDE DEF v, c
    <3>1. s.prepared = Put(c, "kind", v)
      BY <2>3 DEF v, c
    <3> QED BY <2>2, <3>1 DEF Put, Update
  <2> QED BY <1>0, <2>3, <2>4 DEF MovesValue
<1>7. CASE /\ s.parsed_intent = s.canonical /\ s.error = None /\ s.prepared = None
  BY <1>0, <1>7
<1>8. Goal
  <2> HIDE DEF Goal
  <2>1. CASE s.node \in {"validate", "resolve_names", "ens_address", "store_answer"}
    BY <1>2, <2>1 DEF RequestOk, Phase, Arrived, Resolving, Goal, MovesValue
  <2>2. CASE s.node \in {"select_graph", "route_intent", "prepare", "parse_intent"}
    BY <1>2, <2>2 DEF RequestOk, Phase, Goal, MovesValue
  <2>3. CASE s.node \in {"resolve_chain", "tool"}
    BY <1>7, <2>3 DEF RequestOk, Phase, Goal, MovesValue
  <2>4. CASE s.node \in {"unsupported_response", "format_response"}
    BY <1>3, <1>4, <1>5, <2>4 DEF RequestOk, Phase, Goal, MovesValue
  <2>5. CASE s.node \in {"respond", "done"}
    BY <1>1, <1>3, <1>4, <1>5, <1>6, <2>5 DEF RequestOk, Phase, Refused, Ended, Goal, MovesValue
  <2> QED BY <2>1, <2>2, <2>3, <2>4, <2>5 DEF RequestOk, Nodes
<1> QED BY <1>8 DEF MovesValue

\* What validation accepted is neither refused nor changed by the read graph or
\* the preparation node, which parse the rewritten raw_input again, for every
\* kind and every spelling and however the names in it were resolved.
THEOREM SecondParse ==
    ASSUME NoneIsNoFunction
    PROVE  Spec => []SecondParseAgrees
<1>1. RoutingInv => SecondParseAgrees
  <2> SUFFICES ASSUME RoutingInv, NEW r \in Requests
               PROVE  LET s == state[r]
                      IN  /\ s.graph = "read" /\ strip(KindOf(s.request)) \notin _VALUE_MOVING_KINDS
                              => /\ s.error # "unsupported_intent"
                                 /\ s.parsed_intent \in {None, s.canonical}
                          /\ s.graph \in {"native", "erc20", "swap"} => s.error # "validation_failed"
                          /\ s.prepared # None
                              => \A f \in DOMAIN s.canonical : s.prepared[f] = s.canonical[f]
    BY DEF SecondParseAgrees
  <2>1. RequestOk(state[r], published)
    BY DEF RoutingInv
  <2> QED BY <2>1, SecondParseOf
<1> QED BY <1>1, RoutingInvariant, PTL

\* The answer to a request, when its intent is wrapped at most once.
LEMMA DoneOf ==
    ASSUME NoneIsNoFunction, RequestsWrapOnce, NEW s, NEW held, RequestOk(s, held),
           s.status \in {"succeeded", "pipeline"},
           strip(KindOf(s.request)) \in _VALUE_MOVING_KINDS => PlainKind(s.request)
    PROVE  Done(s)
<1> DEFINE kind == strip(KindOf(s.request))
<1>0. None \notin {"succeeded", "failed", "pipeline", "unsupported_intent", "validation_failed",
                   "raised", "missing_chain_config", "tool_error", "result"}
  BY RoutingAssumption
<1>1. s.node = "done"
  BY <1>0 DEF RequestOk, Nodes, Phase, Arrived, Resolving, Untouched
<1>2. (Refused(s) \/ Ended(s, held)) /\ s.status = StatusOf(s)
  BY <1>1 DEF RequestOk, Phase
<1>3. s.prepared # None \/ s.error = None
  BY <1>2 DEF StatusOf
<1>4. CASE Refused(s)
  BY <1>0, <1>3, <1>4 DEF Refused
<1>5. CASE Accepted(s, held) /\ Prepared(s)
  <2> DEFINE c == s.canonical
             v == Text(kind)
  <2>1. kind \in _VALUE_MOVING_KINDS /\ s.prepared = Put(c, "kind", v)
    BY <1>5 DEF Prepared, MovesValue
  <2>2. strip(v) = kind
    BY DEF strip, Text
  <2> HIDE DEF c, v, kind
  <2>3. /\ s.prepared = [f \in DOMAIN s.prepared |-> s.prepared[f]]
        /\ s.prepared["kind"] = v
    BY <2>1 DEF Put, Update
  <2>4. s.prepared # None
    BY <2>3, ObjectIsNotNone
  <2> QED BY <2>1, <2>2, <2>3, <2>4 DEF Done, kind
<1>6. CASE Accepted(s, held) /\ NotRecognised(s)
  <2>1. WrappedOnce(s.request)
    BY <1>6 DEF Accepted, Sane, RequestsWrapOnce, RequestOk
  <2> QED BY <1>6, <2>1 DEF NotRecognised, MovesValue
<1>7. CASE NotServed(s)
  BY <1>0, <1>3, <1>7 DEF NotServed
<1>8. CASE Accepted(s, held) /\ Called(s)
  <2>1. WrappedOnce(s.request) /\ s.request \in RawInputs /\ ~MovesValue(s)
    BY <1>8 DEF Accepted, Sane, RequestsWrapOnce, RequestOk, Called
  <2>2. s.tool_result # None /\ s.tool = _READ_ROUTES[strip(s.canonical["kind"])]
    BY <1>0, <1>3, <1>8 DEF Called
  <2> DEFINE p == _unwrap_payload(s.merged)
             k == _KIND_ALIASES[kind]
  <2>3. k \in DOMAIN KindSpellings /\ s.canonical = ReadIntent(k, p) /\ ReadIntent(k, p) # Invalid
    BY <1>8, <2>1, AcceptedRead
  <2> HIDE DEF k, p
  <2>4. strip(s.canonical["kind"]) = k
    <3>1. ReadIntent(k, p)["kind"] = Text(k)
      BY <2>3, ReadIntentFacts
    <3> QED BY <2>3, <3>1 DEF strip, Text
  <2> QED BY <2>1, <2>2, <2>4 DEF Done, MovesValue, k
<1> QED BY <1>2, <1>4, <1>5, <1>6, <1>7, <1>8 DEF Ended

\* A request that is answered "succeeded" or goes on to the pipeline did what
\* its kind asks for: every read in every spelling, and value-moving requests
\* in plain form.
THEOREM SucceededMeansDone ==
    ASSUME NoneIsNoFunction, RequestsWrapOnce
    PROVE  Spec => []PlainSucceededMeansDone
<1>1. RoutingInv => PlainSucceededMeansDone
  <2> SUFFICES ASSUME RoutingInv, NEW r \in Requests,
                      state[r].status \in {"succeeded", "pipeline"},
                      strip(KindOf(state[r].request)) \in _VALUE_MOVING_KINDS
                        => PlainKind(state[r].request)
               PROVE  Done(state[r])
    BY DEF PlainSucceededMeansDone
  <2>1. RequestOk(state[r], published)
    BY DEF RoutingInv
  <2> QED BY <2>1, DoneOf
<1> QED BY <1>1, RoutingInvariant, PTL

\* The address in a field that held a name was held by the record of that name
\* for the payload's chain.
LEMMA ResolvedName ==
    ASSUME NEW raw, NEW m, NEW held, Resolves(m, merged_invoke_validation_payload(raw), held),
           NEW f, f \notin BoundaryKeys, Get(_unwrap_payload(raw), f) \in Names,
           Get(m, f) \in Addresses \cup {None}
    PROVE  Get(m, f) \in held[<<Get(_unwrap_payload(raw), f), effective_chain_name_for_resolution(m)>>]
<1> DEFINE m0 == merged_invoke_validation_payload(raw)
           v == Get(_unwrap_payload(raw), f)
<1>1. Get(m0, f) = v
  BY MergedFacts
<1>2. effective_chain_name_for_resolution(m) = effective_chain_name_for_resolution(m0)
  BY ResolvedFacts
<1> HIDE DEF m0, v
<1>3. v \in Names /\ v \notin Addresses \cup {None}
  BY IntentAssumption DEF v
<1>4. f \in DOMAIN m0 /\ m0[f] = v
  BY <1>1, <1>3 DEF Get
<1>5. /\ DOMAIN m = DOMAIN m0
      /\ m[f] = m0[f] \/ m[f] \in held[<<m0[f], effective_chain_name_for_resolution(m0)>>]
  BY <1>4 DEF Resolves, m0
<1>6. Get(m, f) = m[f]
  BY <1>4, <1>5 DEF Get
<1> QED BY <1>2, <1>3, <1>4, <1>5, <1>6 DEF v

\* The addresses of a prepared transaction.
LEMMA PreparedNames ==
    ASSUME NEW s, NEW held, Accepted(s, held), Prepared(s),
           NEW f \in AddressesIn(s.prepared), Get(_unwrap_payload(s.request), f) \in Names
    PROVE  s.prepared[f] \in held[<<Get(_unwrap_payload(s.request), f), s.prepared["chain"]>>]
<1> DEFINE kind == strip(KindOf(s.request))
           m == s.merged
           c == s.canonical
           op == s.prepared
           v == Text(kind)
<1>1. /\ kind \in _VALUE_MOVING_KINDS
      /\ c = ValueMovingIntent(kind, m) /\ ValueMovingIntent(kind, m) # Invalid
      /\ op = Put(c, "kind", v)
      /\ Resolves(m, merged_invoke_validation_payload(s.request), held)
  BY Zenon DEF Prepared, MovesValue, Accepted, Sane, ModelOf
<1> HIDE DEF kind, m, v
<1>2. /\ ValueMovingIntent(kind, m) = [g \in MovingFields(kind) |-> Get(m, g)]
      /\ "chain" \in MovingFields(kind) /\ Get(m, "chain") # None
      /\ \A g \in {"wallet_address", "owner_address", "spender_address", "contract_address",
                   "token_address", "recipient_address"} \cap MovingFields(kind) :
            Get(m, g) \in Addresses \cup {None}
  BY <1>1, MovingFacts
<1> HIDE DEF c, op
<1>3. /\ DOMAIN op = MovingFields(kind) \cup {"kind"}
      /\ \A g \in MovingFields(kind) \ {"kind"} : op[g] = Get(m, g)
  BY <1>1, <1>2 DEF Put, Update
<1>4. f \in {"wallet_address", "owner_address", "spender_address", "contract_address",
             "token_address", "recipient_address"} \cap (MovingFields(kind) \ {"kind"})
  BY <1>3 DEF AddressesIn, op
<1>5. f \notin BoundaryKeys
  BY <1>4 DEF BoundaryKeys
<1>6. op[f] = Get(m, f) /\ Get(m, f) \in Addresses \cup {None}
  BY <1>2, <1>3, <1>4
<1>7. op["chain"] = effective_chain_name_for_resolution(m)
  BY <1>2, <1>3 DEF effective_chain_name_for_resolution, Get
<1>8. Get(m, f) \in held[<<Get(_unwrap_payload(s.request), f),
                           effective_chain_name_for_resolution(m)>>]
  BY <1>1, <1>5, <1>6, ResolvedName
<1> QED BY <1>6, <1>7, <1>8 DEF op

\* The addresses given to a read tool.
LEMMA CalledNames ==
    ASSUME NoneIsNoFunction, NEW s, NEW held, s.request \in RawInputs, WrappedOnce(s.request),
           Accepted(s, held), Called(s), s.tool # "get_portfolio_tokens",
           NEW f \in AddressesIn(s.tool_input), Get(_unwrap_payload(s.request), f) \in Names,
           NEW d \in ToSet(ChainsOf(s.parsed_intent))
    PROVE  s.tool_input[f] \in held[<<Get(_unwrap_payload(s.request), f), d>>]
<1> DEFINE m == s.merged
           c == s.canonical
           k == _KIND_ALIASES[strip(KindOf(s.request))]
           input == s.tool_input
           chain == Head(ChainsOf(c))
<1>1. /\ ~MovesValue(s) /\ s.parsed_intent = c /\ s.tool = _READ_ROUTES[strip(c["kind"])]
      /\ input = _tool_input_for_state(c, chain)
  BY DEF Called
<1>2. /\ k \in DOMAIN KindSpellings /\ c = ReadIntent(k, m) /\ ReadIntent(k, m) # Invalid
  BY <1>1, AcceptedRead
<1>3. Resolves(m, merged_invoke_validation_payload(s.request), held)
  BY DEF Accepted, Sane
<1> HIDE DEF k, m
<1>4. /\ HasBaseFields(k, m) /\ c["kind"] = Text(k)
      /\ \A g \in AddressFields[k] : c[g] = Get(m, g)
      /\ k \notin {"token_prices", "portfolio_tokens"} => c["chain"] = Get(m, "chain")
      /\ "chain" \in DOMAIN c
  <2> HIDE DEF c
  <2> QED BY <1>2, ReadIntentFacts
<1>5. strip(c["kind"]) = k
  BY <1>4 DEF strip, Text
<1> HIDE DEF c, input
<1>6. k # "portfolio_tokens"
  BY <1>1, <1>5 DEF _READ_ROUTES
<1>7. /\ DOMAIN input \subseteq ToolFields(k) \cup {"chain"}
      /\ \A g \in ToolFields(k) : input[g] = c[g]
  <2>1. "chain" \notin ToolFields(k)
    BY <1>2 DEF ToolFields, KindSpellings, AddressFields, OtherFields
  <2> HIDE DEF chain
  <2> QED BY <1>1, <1>5, <2>1 DEF _tool_input_for_state, Put, Update
<1>8. f \in AddressFields[k] /\ f \in ToolFields(k) /\ k # "token_prices" /\ f \notin BoundaryKeys
  <2>1. /\ f \in {"wallet_address", "owner_address", "spender_address", "contract_address",
                  "token_address", "recipient_address"}
        /\ f \in ToolFields(k)
    BY <1>7 DEF AddressesIn, input
  <2> QED BY <1>2, <2>1 DEF ToolFields, KindSpellings, AddressFields, OtherFields, BoundaryKeys
<1>9. input[f] = Get(m, f) /\ Get(m, f) \in Addresses
  BY <1>4, <1>7, <1>8 DEF HasBaseFields
<1>10. d = effective_chain_name_for_resolution(m)
  <2>1. ChainsOf(c) = <<effective_chain_name_for_resolution(c)>>
    BY <1>5, <1>6, <1>8 DEF ChainsOf
  <2>2. d = effective_chain_name_for_resolution(c)
    BY <1>1, <2>1 DEF ToSet
  <2>3. c["chain"] = Get(m, "chain")
    BY <1>4, <1>6, <1>8
  <2> QED BY <1>4, <2>2, <2>3 DEF effective_chain_name_for_resolution, Get
<1>11. Get(m, f) \in held[<<Get(_unwrap_payload(s.request), f),
                            effective_chain_name_for_resolution(m)>>]
  BY <1>3, <1>8, <1>9, ResolvedName
<1> QED BY <1>9, <1>10, <1>11 DEF input

\* Only a prepared transaction or a called tool uses an address.
LEMMA OnlyTheEndUses ==
    ASSUME NEW s, NEW held, RequestOk(s, held), s.prepared # None \/ s.tool # None
    PROVE  /\ Accepted(s, held)
           /\ \/ Prepared(s)
              \/ Called(s) /\ s.prepared = None
<1>1. CASE s.node \in {"validate", "resolve_names", "ens_address", "store_answer"}
  BY <1>1 DEF RequestOk, Phase, Arrived, Resolving, Untouched
<1>2. CASE s.node \in {"select_graph", "route_intent", "prepare", "parse_intent",
                       "resolve_chain", "tool"}
  BY <1>2 DEF RequestOk, Phase, Untouched
<1>3. CASE s.node \in {"unsupported_response", "format_response", "respond", "done"}
  BY <1>3 DEF RequestOk, Phase, Refused, Ended, NotRecognised, NotServed, Called
<1> QED BY <1>1, <1>2, <1>3 DEF RequestOk, Nodes

\* An address that stands for a name, in a prepared transaction or in the input
\* of a read tool on one chain, was held by that name's record for the chain of
\* the operation, whatever the concurrent requests left in the resolver's cache
\* and however the records change in between.
THEOREM NamesResolved ==
    ASSUME NoneIsNoFunction, RequestsWrapOnce
    PROVE  Spec => []NameResolvedForItsChain
<1>1. RoutingInv => NameResolvedForItsChain
  <2> SUFFICES ASSUME RoutingInv, NEW r \in Requests,
                      state[r].prepared # None \/ state[r].tool # None,
                      state[r].tool # "get_portfolio_tokens"
               PROVE  UsedAddresses(state[r], OperationChains(state[r]))
    BY DEF NameResolvedForItsChain
  <2> DEFINE s == state[r]
  <2>1. RequestOk(s, published)
    BY DEF RoutingInv
  <2>2. Accepted(s, published) /\ (Prepared(s) \/ (Called(s) /\ s.prepared = None))
    BY <2>1, OnlyTheEndUses
  <2>3. WrappedOnce(s.request) /\ s.request \in RawInputs
    BY <2>1, <2>2 DEF Accepted, Sane, RequestsWrapOnce, RequestOk
  <2> SUFFICES ASSUME NEW f \in AddressesIn(Operation(s)), NameIn(s, f) # None,
                      NEW d \in OperationChains(s)
               PROVE  Operation(s)[f] \in published[<<NameIn(s, f), d>>]
    BY DEF UsedAddresses
  <2>4. NameIn(s, f) = Get(_unwrap_payload(s.request), f) /\ NameIn(s, f) \in Names
    BY DEF NameIn
  <2> HIDE DEF s
  <2>5. CASE s.prepared # None
    <3>1. Operation(s) = s.prepared /\ d = s.prepared["chain"]
      BY <2>5 DEF Operation, OperationChains
    <3>2. Prepared(s)
      BY <2>2, <2>5
    <3> QED BY <2>2, <2>4, <3>1, <3>2, PreparedNames
  <2>6. CASE s.prepared = None
    <3>1. Operation(s) = s.tool_input /\ d \in ToSet(ChainsOf(s.parsed_intent))
      BY <2>6 DEF Operation, OperationChains
    <3>2. Called(s) \/ Prepared(s)
      BY <2>2
    <3>3. CASE Called(s)
      <4>1. s.tool # "get_portfolio_tokens"
        BY DEF s
      <4> QED BY <2>2, <2>3, <2>4, <3>1, <3>3, <4>1, CalledNames
    <3>4. CASE Prepared(s)
      <4> DEFINE v == Text(strip(KindOf(s.request)))
      <4>1. s.prepared = Put(s.canonical, "kind", v)
        BY <3>4 DEF Prepared
      <4> HIDE DEF v
      <4>2. s.prepared = [g \in DOMAIN s.prepared |-> s.prepared[g]] /\ "kind" \in DOMAIN s.prepared
        BY <4>1 DEF Put, Update
      <4> QED BY <2>6, <4>2, ObjectIsNotNone
    <3> QED BY <3>2, <3>3, <3>4
  <2> QED BY <2>5, <2>6
<1> QED BY <1>1, RoutingInvariant, PTL
=============================================================================
