----------------------------- MODULE InvokeRouting -----------------------------
(***************************************************************************)
(* What happens to an intent between the invoke boundary and the work it   *)
(* asks for: validate_invoke_intent with its ENS resolution                *)
(* (graph/intent_validation.py, providers/ens.py), the choice of a graph   *)
(* (graph/runtime.py), the read-only graph (graph/agent.py, router.py,     *)
(* nodes.py) and the entry of the transaction graphs (nodes_native.py,     *)
(* nodes_erc20.py, nodes_swaps.py).                                        *)
(*                                                                         *)
(* Requests run concurrently and share the resolver's cache.  A node of a  *)
(* graph returns a patch of the request's state; Patch merges it.  The     *)
(* intent is parsed twice: at validation, and again by the read graph or   *)
(* the preparation node from the rewritten raw_input.                      *)
(***************************************************************************)
EXTENDS IntentModels

CONSTANTS
    Requests,       \* concurrent invocations
    Arrivals,       \* what they may be, together: every invocation has a
                    \* MercuryInvokeRequest (intent, chain, wallet_id, idempotency_key)
    Tools,          \* names the ReadOnlyToolRegistry was built with
    RecordValues,   \* addresses an ENS record may be set to
    MaxRecordSets   \* bound on the changes of ENS records

\* _intent_with_boundary_fields: the fields of the request become defaults of
\* its intent.
BoundaryFields(p) ==
    LET all == [wallet_id |-> p.wallet_id, metadata |-> "metadata", chain |-> p.chain,
                idempotency_key |-> p.idempotency_key]
    IN  [f \in {f \in DOMAIN all : all[f] # None} |-> all[f]]

_intent_with_boundary_fields(p) ==
    IF IsText(p.intent) THEN p.intent ELSE SetDefaults(p.intent, BoundaryFields(p))

merged_invoke_validation_payload(raw) ==
    LET inner == _unwrap_payload(raw)
        boundary == {"wallet_id", "chain", "idempotency_key", "metadata"} \cap DOMAIN raw
    IN  IF inner = raw THEN raw ELSE SetDefaults(inner, [k \in boundary |-> raw[k]])

\* The inputs of the runs, and the type of the fields that hold a list.
RawInputs == {_intent_with_boundary_fields(a[r]) : a \in Arrivals, r \in Requests}
IsList(v) == v = None \/ v \in Seq(ToSet(v))

ASSUME RoutingAssumption ==
    /\ RecordValues \subseteq Addresses
    /\ \A raw \in RawInputs, f \in {"chains", "networks"} :
          IsList(Get(_unwrap_payload(merged_invoke_validation_payload(raw)), f))
    /\ None \notin _VALUE_MOVING_KINDS \cup DOMAIN Directions \cup
                   {"read", "native", "erc20", "unsupported_intent",
                    "validation_failed", "raised", "missing_chain_config", "tool_error",
                    "result", "succeeded", "failed", "pipeline"}

VARIABLES
    state,          \* state[r]: the graph state and position of request r
    _cache,         \* Web3EnsAddressResolver._cache: <<name, chain>> -> address
    ens,            \* environment: address record of a name on a chain, or None
    published,      \* history: addresses each record has held
    sets            \* number of changes of ENS records

vars == <<state, _cache, ens, published, sets>>

Records == Names \X SupportedChains

\* The position in the run, MercuryState, and as history the request as it
\* arrived and the first parse.
NewState(raw) ==
    [node |-> "validate", request |-> raw, raw_input |-> raw, merged |-> None,
     fields |-> <<>>, answer |-> None, canonical |-> None, graph |-> None,
     parsed_intent |-> None, chain_name |-> None, error |-> None,
     tool |-> None, tool_input |-> None, tool_result |-> None, prepared |-> None,
     status |-> None]

Init ==
    /\ \E a \in Arrivals :
         state = [r \in Requests |-> NewState(_intent_with_boundary_fields(a[r]))]
    /\ _cache = [k \in {} |-> None]
    /\ \E a \in RecordValues : ens = [k \in Records |-> a]
    /\ published = [k \in Records |-> {ens[k]}]
    /\ sets = 0

At(r, node) == state[r].node = node
Patch(r, patch) == state' = [state EXCEPT ![r] = Update(@, patch)]
Put(object, field, value) == Update(object, [f \in {field} |-> value])

-----------------------------------------------------------------------------
(* validate_invoke_intent.                                                 *)

merge_canonical_into_raw_input(raw, canonical) ==
    IF IsObject(Get(raw, "intent")) THEN Update(raw, [intent |-> canonical])
    ELSE Update(raw, canonical)

_ENS_RESOLVABLE_FIELDS_BY_KIND ==
    [native_transfer |-> <<"recipient_address">>, erc20_transfer |-> <<"recipient_address">>,
     erc20_approval |-> <<"spender_address">>, swap |-> <<"recipient_address">>,
     native_balance |-> <<"wallet_address">>, portfolio_tokens |-> <<"wallet_address">>,
     get_portfolio_tokens |-> <<"wallet_address">>, transfer_history |-> <<"wallet_address">>,
     get_transfer_history |-> <<"wallet_address">>, erc20_balance |-> <<"wallet_address">>,
     erc20_allowance |-> <<"owner_address", "spender_address">>,
     contract_read |-> <<"contract_address">>]

effective_chain_name_for_resolution(merged) ==
    IF Get(merged, "chain") # None THEN merged["chain"] ELSE DefaultChain

\* The kind the request was validated as; a record, or None.
KindOf(raw) == raw_kind(_unwrap_payload(raw))

\* Input check, then the fields of the kind that may hold an ENS name.
validate(r) ==
    /\ At(r, "validate")
    /\ LET raw == state[r].raw_input
           merged == merged_invoke_validation_payload(raw)
       IN  IF IsText(raw)
           THEN Patch(r, [error |-> "unsupported_intent", node |-> "respond"])
           ELSE IF ~IsText(KindOf(raw))
           THEN Patch(r, [error |-> "validation_failed", node |-> "respond"])
           ELSE LET kind == strip(KindOf(raw))
                    fields == IF kind \in DOMAIN _ENS_RESOLVABLE_FIELDS_BY_KIND
                              THEN _ENS_RESOLVABLE_FIELDS_BY_KIND[kind] ELSE <<>>
                IN  Patch(r, [merged |-> merged, fields |-> fields, node |-> "resolve_names"])
    /\ UNCHANGED <<_cache, ens, published, sets>>

\* Mutant: the cache ignores the coin type.
cache_key_name_only(name, chain) == <<name, DefaultChain>>

cache_key(name, chain) == <<name, chain>>

\* One round of the loop over the fields: a field without a name is left
\* alone; for a name, resolve_evm_identifier asks the cache, or ENS on mainnet.
resolve_evm_identifier(r) ==
    /\ At(r, "resolve_names") /\ state[r].fields # <<>>
    /\ LET field == Head(state[r].fields)
           chain == effective_chain_name_for_resolution(state[r].merged)
           key == cache_key(state[r].merged[field], chain)
       IN  IF Get(state[r].merged, field) \notin Names
           THEN Patch(r, [fields |-> Tail(state[r].fields)])
           ELSE IF get_chain_by_name(chain) = None
           THEN Patch(r, [error |-> "validation_failed", node |-> "respond"])
           ELSE IF key \in DOMAIN _cache
           THEN Patch(r, [merged |-> Put(state[r].merged, field, _cache[key]),
                          fields |-> Tail(state[r].fields)])
           ELSE Patch(r, [node |-> "ens_address"])
    /\ UNCHANGED <<_cache, ens, published, sets>>

\* ens.address(...): the record as it is now, no record, or no answer (which
\* leaves validate_invoke_intent as an exception).
ens_address(r) ==
    /\ At(r, "ens_address")
    /\ LET field == Head(state[r].fields)
           chain == effective_chain_name_for_resolution(state[r].merged)
           record == ens[<<state[r].merged[field], chain>>]
       IN  \/ record # None /\ Patch(r, [answer |-> record, node |-> "store_answer"])
           \/ record = None /\ Patch(r, [error |-> "validation_failed", node |-> "respond"])
           \/ Patch(r, [error |-> "raised", node |-> "respond"])
    /\ UNCHANGED <<_cache, ens, published, sets>>

store_answer(r) ==
    /\ At(r, "store_answer")
    /\ LET field == Head(state[r].fields)
           chain == effective_chain_name_for_resolution(state[r].merged)
           key == cache_key(state[r].merged[field], chain)
       IN  /\ _cache' = Put(_cache, key, state[r].answer)
           /\ Patch(r, [merged |-> Put(state[r].merged, field, state[r].answer),
                        fields |-> Tail(state[r].fields), answer |-> None,
                        node |-> "resolve_names"])
    /\ UNCHANGED <<ens, published, sets>>

\* The model of the kind, and the rewritten raw_input.
validate_model(r) ==
    /\ At(r, "resolve_names") /\ state[r].fields = <<>>
    /\ LET kind == strip(KindOf(state[r].raw_input))
           canonical ==
               IF kind \in _VALUE_MOVING_KINDS THEN ValueMovingIntent(kind, state[r].merged)
               ELSE IF kind \in DOMAIN _KIND_ALIASES
                    THEN _parse_structured_intent(state[r].merged)
                    ELSE Unsupported
       IN  IF canonical \in {Invalid, Unsupported}
           THEN Patch(r, [error |-> IF canonical = Unsupported \/ kind \notin _VALUE_MOVING_KINDS
                                    THEN "unsupported_intent" ELSE "validation_failed",
                          node |-> "respond"])
           ELSE Patch(r, [canonical |-> canonical, node |-> "select_graph",
                          raw_input |->
                            merge_canonical_into_raw_input(state[r].raw_input, canonical)])
    /\ UNCHANGED <<_cache, ens, published, sets>>

-----------------------------------------------------------------------------
(* The graphs.                                                             *)

\* Mutant: approvals are not recognised as ERC20 transactions.
_graph_selection_for_state_no_approval(raw) ==
    LET kind == Get(_unwrap_payload(raw), "kind")
        name == IF kind = None THEN None ELSE strip(kind)
    IN  IF name = "erc20_transfer" THEN "erc20"
        ELSE IF name = "native_transfer" THEN "native"
        ELSE IF name = "swap" THEN "swap" ELSE "read"

_graph_selection_for_state(raw) ==
    LET kind == Get(_unwrap_payload(raw), "kind")
        name == IF kind = None THEN None ELSE strip(kind)
    IN  IF name \in {"erc20_transfer", "erc20_approval"} THEN "erc20"
        ELSE IF name = "native_transfer" THEN "native"
        ELSE IF name = "swap" THEN "swap" ELSE "read"

select_graph(r) ==
    /\ At(r, "select_graph")
    /\ LET graph == _graph_selection_for_state(state[r].raw_input)
       IN  Patch(r, [graph |-> graph,
                     node |-> IF graph = "read" THEN "parse_intent" ELSE "route_intent"])
    /\ UNCHANGED <<_cache, ens, published, sets>>

\* route_native_intent, route_erc20_intent, route_swap_intent: the kind is
\* lower-cased but not stripped.
RoutedKinds ==
    [native |-> {"native_transfer"}, erc20 |-> {"erc20_transfer", "erc20_approval"},
     swap |-> {"swap"}]

route_intent(r) ==
    /\ At(r, "route_intent")
    /\ LET kind == Get(_unwrap_payload(state[r].raw_input), "kind")
           routed == kind \in {Text(k) : k \in RoutedKinds[state[r].graph]}
       IN  Patch(r, [node |-> IF routed THEN "prepare" ELSE "unsupported_response"])
    /\ UNCHANGED <<_cache, ens, published, sets>>

\* The preparation node validates the payload again and builds from it.
prepare(r) ==
    /\ At(r, "prepare")
    /\ LET payload == _unwrap_payload(state[r].raw_input)
           kind == strip(payload["kind"])
           intent == ValueMovingIntent(kind, payload)
       IN  IF intent = Invalid
           THEN Patch(r, [error |-> "validation_failed", node |-> "respond"])
           ELSE Patch(r, [prepared |-> Put(intent, "kind", Text(kind)), node |-> "respond"])
    /\ UNCHANGED <<_cache, ens, published, sets>>

parse_intent(r) ==
    /\ At(r, "parse_intent")
    /\ LET parsed == _parse_structured_intent(state[r].raw_input)
       IN  IF parsed = Invalid
           THEN Patch(r, [error |-> "unsupported_intent", node |-> "unsupported_response"])
           ELSE IF parsed = Unsupported
           THEN Patch(r, [parsed_intent |-> Unsupported, node |-> "unsupported_response"])
           ELSE Patch(r, [parsed_intent |-> parsed, node |-> "resolve_chain"])
    /\ UNCHANGED <<_cache, ens, published, sets>>

\* The chains an intent reads, in order, and those that must be covered by
\* Alchemy.
ChainsOf(intent) ==
    IF strip(intent["kind"]) = "token_prices"
    THEN [i \in DOMAIN intent["tokens"] |-> intent["tokens"][i].chain]
    ELSE IF strip(intent["kind"]) = "portfolio_tokens" THEN intent["chains"]
    ELSE <<effective_chain_name_for_resolution(intent)>>

\* Mutant: only the first token's chain is checked.
ResolvableChains_first(intent) ==
    LET c == Head(ChainsOf(intent))
    IN  IF strip(intent["kind"]) \in {"token_prices", "portfolio_tokens", "transfer_history"}
        THEN CoveredByAlchemy(c) ELSE get_chain_by_name(c) # None

ResolvableChains(intent) ==
    \A c \in ToSet(ChainsOf(intent)) :
        IF strip(intent["kind"]) \in {"token_prices", "portfolio_tokens", "transfer_history"}
        THEN CoveredByAlchemy(c) ELSE get_chain_by_name(c) # None

resolve_chain(r) ==
    /\ At(r, "resolve_chain")
    /\ LET intent == state[r].parsed_intent
       IN  IF ResolvableChains(intent)
           THEN Patch(r, [chain_name |-> Head(ChainsOf(intent)), node |-> "tool"])
           ELSE Patch(r, [error |-> "missing_chain_config", node |-> "format_response"])
    /\ UNCHANGED <<_cache, ens, published, sets>>

_READ_ROUTES ==
    [native_balance |-> "get_native_balance", erc20_balance |-> "get_erc20_balance",
     erc20_allowance |-> "get_erc20_allowance", erc20_metadata |-> "get_erc20_metadata",
     contract_read |-> "read_contract", known_address |-> "resolve_known_address",
     token_prices |-> "get_token_prices", portfolio_tokens |-> "get_portfolio_tokens",
     transfer_history |-> "get_transfer_history"]

\* The fields of the parsed intent a tool is given.
ToolFields(kind) ==
    IF kind = "token_prices" THEN {"tokens"}
    ELSE IF kind = "portfolio_tokens" THEN {"wallet_address", "chains", "page_key"}
    ELSE IF kind = "transfer_history"
    THEN {"wallet_address", "direction", "categories", "max_count", "page_key"}
    ELSE AddressFields[kind] \cup OtherFields(kind)

_tool_input_for_state(intent, chain_name) ==
    LET kind == strip(intent["kind"])
        fields == [f \in ToolFields(kind) |-> intent[f]]
    IN  IF kind \in {"token_prices", "portfolio_tokens"} THEN fields
        ELSE Put(fields, "chain", chain_name)

\* A tool that is not registered raises, and so may one that is.
execute_read_tool(r) ==
    /\ At(r, "tool")
    /\ LET intent == state[r].parsed_intent
           tool == _READ_ROUTES[strip(intent["kind"])]
           call == [tool |-> tool, node |-> "format_response",
                    tool_input |-> _tool_input_for_state(intent, state[r].chain_name)]
       IN  \/ tool \in Tools /\ Patch(r, Put(call, "tool_result", "result"))
           \/ Patch(r, Put(call, "error", "tool_error"))
    /\ UNCHANGED <<_cache, ens, published, sets>>

\* Neither response node sets error.
format_response(r) ==
    /\ At(r, "format_response") \/ At(r, "unsupported_response")
    /\ Patch(r, [node |-> "respond"])
    /\ UNCHANGED <<_cache, ens, published, sets>>

\* _response_from_state, for a run that did not enter the transaction
\* pipeline; one that did is answered by the pipeline.
StatusOf(s) ==
    IF s.prepared # None THEN "pipeline" ELSE IF s.error # None THEN "failed" ELSE "succeeded"

respond(r) ==
    /\ At(r, "respond")
    /\ Patch(r, [status |-> StatusOf(state[r]), node |-> "done"])
    /\ UNCHANGED <<_cache, ens, published, sets>>

-----------------------------------------------------------------------------
(* Owners of names change their records.                                   *)

SetRecord ==
    /\ sets < MaxRecordSets
    /\ \E k \in Records, a \in RecordValues \cup {None} :
        /\ ens' = [ens EXCEPT ![k] = a]
        /\ published' = [published EXCEPT ![k] = @ \cup {a}]
    /\ sets' = sets + 1
    /\ UNCHANGED <<state, _cache>>

ReadStep(r) ==
    \/ parse_intent(r) \/ resolve_chain(r) \/ execute_read_tool(r) \/ format_response(r)

Step(r) ==
    \/ validate(r) \/ resolve_evm_identifier(r) \/ ens_address(r) \/ store_answer(r)
    \/ validate_model(r) \/ select_graph(r) \/ route_intent(r) \/ prepare(r)
    \/ ReadStep(r) \/ respond(r)

Next == SetRecord \/ \E r \in Requests : Step(r)

Spec == Init /\ [][Next]_vars

-----------------------------------------------------------------------------
(* Properties.                                                             *)

\* The request did what its kind asks for.
Done(s) ==
    LET kind == strip(KindOf(s.request))
    IN  IF kind \in _VALUE_MOVING_KINDS
        THEN s.prepared # None /\ strip(s.prepared["kind"]) = kind
        ELSE s.tool_result # None /\ s.tool = _READ_ROUTES[_KIND_ALIASES[kind]]

\* The form in which a value-moving kind reaches its graph: a flat object
\* whose key is kind, without blanks around the text.
PlainKind(raw) ==
    _unwrap_payload(raw) = raw /\ \E k \in _VALUE_MOVING_KINDS : Get(raw, "kind") = Text(k)

\* A request that is answered "succeeded" did what its kind asks for: every
\* read, in every accepted spelling (an alias, key type or intent, nested,
\* blanks), and value-moving requests in plain form.  (A padded kind selects
\* its transaction graph, whose router does not know it; nested or under the
\* key type or intent a value-moving kind goes to the read graph, which does
\* not support it.  Both answer "succeeded" with nothing done.)
PlainSucceededMeansDone ==
    \A r \in Requests :
        /\ state[r].status \in {"succeeded", "pipeline"}
        /\ strip(KindOf(state[r].request)) \in _VALUE_MOVING_KINDS => PlainKind(state[r].request)
        => Done(state[r])

\* The second parse, of the rewritten raw_input, finds the intent the first
\* one found: what validation accepted is neither refused nor changed by the
\* read graph or the preparation node.
SecondParseAgrees ==
    \A r \in Requests :
        LET s == state[r]
        IN  /\ s.graph = "read" /\ strip(KindOf(s.request)) \notin _VALUE_MOVING_KINDS
                => /\ s.error # "unsupported_intent"
                   /\ s.parsed_intent \in {None, s.canonical}
            /\ s.graph \in {"native", "erc20", "swap"} => s.error # "validation_failed"
            /\ s.prepared # None
                => \A f \in DOMAIN s.canonical : s.prepared[f] = s.canonical[f]

AddressesIn(input) ==
    {"wallet_address", "owner_address", "spender_address", "contract_address", "token_address",
     "recipient_address"} \cap DOMAIN input

\* Tool inputs satisfy the tools' schemas (tools/schemas.py) and name only
\* chains the tool can serve, however the request was spelled.
ToolInputIsServable ==
    \A r \in Requests :
        LET s == state[r]
            input == s.tool_input
        IN  s.tool # None =>
              /\ \A f \in AddressesIn(input) : input[f] \in Addresses
              /\ "chain" \in DOMAIN input => input["chain"] \in SupportedChains
              /\ s.tool = "get_token_prices" =>
                    /\ Len(input["tokens"]) \in 1..MaxTokens
                    /\ {e.chain : e \in ToSet(input["tokens"])} \subseteq AlchemyChains
                    /\ Cardinality({e.chain : e \in ToSet(input["tokens"])}) <= MaxTokenChains
              /\ s.tool = "get_portfolio_tokens" =>
                    /\ Len(input["chains"]) \in 1..MaxNetworks
                    /\ ToSet(input["chains"]) \subseteq AlchemyChains
              /\ s.tool = "get_transfer_history" =>
                    /\ input["chain"] \in AlchemyChains
                    /\ input["max_count"] \in 1..MaxCount
                    /\ input["direction"] = "both" => input["page_key"] = None

\* The name a field of the request held, if it held one.
NameIn(s, f) ==
    LET v == Get(_unwrap_payload(s.request), f) IN IF v \in Names THEN v ELSE None

\* The operation of a request, and the chain it runs on.
Operation(s) == IF s.prepared # None THEN s.prepared ELSE s.tool_input
OperationChains(s) ==
    IF s.prepared # None THEN {s.prepared["chain"]} ELSE ToSet(ChainsOf(s.parsed_intent))

UsedAddresses(s, chains) ==
    \A f \in AddressesIn(Operation(s)) : NameIn(s, f) # None =>
        \A c \in chains : Operation(s)[f] \in published[<<NameIn(s, f), c>>]

\* An address that stands for a name in an operation on one chain was held by
\* that name's record for that chain.
NameResolvedForItsChain ==
    \A r \in Requests :
        LET s == state[r]
        IN  /\ s.prepared # None \/ s.tool # None
            /\ s.tool # "get_portfolio_tokens"
            => UsedAddresses(s, OperationChains(s))

=============================================================================
