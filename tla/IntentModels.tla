----------------------------- MODULE IntentModels -----------------------------
(***************************************************************************)
(* The wallet intents as Mercury's models accept them: the read-only       *)
(* intents of graph/intents.py, the value-moving ones of models/erc20.py,  *)
(* models/native_tx.py and models/swaps.py, and the chain and network      *)
(* tables they are checked against.                                        *)
(*                                                                         *)
(* A JSON object is a function from its keys.  A kind is a record: the     *)
(* text after lower-casing, and whether blanks surround it, because the    *)
(* code strips them in some places only.  Chain and network names are      *)
(* stripped and lower-cased wherever they are used, and stand for their    *)
(* normal form.                                                            *)
(***************************************************************************)
EXTENDS Integers, SequencesExt

CONSTANTS
    SupportedChains,    \* names in chains/registry.py
    AlchemyChains,      \* those of _MERCURY_TO_ALCHEMY_NETWORK
    DefaultChain,       \* DEFAULT_CHAIN_NAME
    Addresses,          \* texts Web3.is_address accepts, in checksum form
    Names,              \* texts that look like an ENS name
    MaxTokens,          \* 25 token entries
    MaxTokenChains,     \* 3 distinct chains
    MaxNetworks,        \* 5 portfolio networks
    MaxCount,           \* 1000 transfers
    DefaultCount,       \* 100
    None,
    Unsupported,        \* an UnsupportedIntent
    Invalid             \* an UnsupportedIntentError or ValidationError

ASSUME IntentAssumption ==
    /\ DefaultChain \in SupportedChains
    /\ AlchemyChains \subseteq SupportedChains
    /\ Addresses \cap Names = {}
    /\ {MaxTokens, MaxTokenChains, MaxNetworks, MaxCount} \subseteq Nat \ {0}
    /\ DefaultCount \in 1..MaxCount
    /\ None \notin Addresses \cup Names \cup SupportedChains \cup Nat
    /\ Invalid # Unsupported

-----------------------------------------------------------------------------
(* JSON objects.                                                           *)

Text(t) == [text |-> t, padded |-> FALSE]
Padded(t) == [text |-> t, padded |-> TRUE]

Get(object, k) == IF k \in DOMAIN object THEN object[k] ELSE None
IsText(v) == v # None /\ "text" \in DOMAIN v
IsObject(v) == v # None /\ "text" \notin DOMAIN v

\* dict.update and dict.setdefault.
Update(object, patch) ==
    [k \in DOMAIN object \cup DOMAIN patch |->
        IF k \in DOMAIN patch THEN patch[k] ELSE object[k]]
SetDefaults(object, defaults) == Update(defaults, object)

strip(t) == t.text

_unwrap_payload(raw) == IF IsObject(Get(raw, "intent")) THEN raw["intent"] ELSE raw

raw_kind(payload) ==
    IF "kind" \in DOMAIN payload THEN payload["kind"]
    ELSE IF "type" \in DOMAIN payload THEN payload["type"]
    ELSE Get(payload, "intent")

-----------------------------------------------------------------------------
(* Chains and Alchemy networks.                                            *)

get_chain_by_name(name) == IF name \in SupportedChains THEN name ELSE None

\* Alchemy's name for a chain, and the way back.
mercury_chain_to_alchemy_network(name) ==
    IF name \in AlchemyChains THEN <<"alchemy", name>> ELSE None

alchemy_network_to_mercury_chain(network) ==
    IF \E c \in AlchemyChains : mercury_chain_to_alchemy_network(c) = network
    THEN CHOOSE c \in AlchemyChains : mercury_chain_to_alchemy_network(c) = network
    ELSE None

CoveredByAlchemy(name) ==
    /\ get_chain_by_name(name) # None
    /\ mercury_chain_to_alchemy_network(name) # None

\* The elements of s in order, each one where it occurs first.
Distinct(s) ==
    LET seen[i \in 0..Len(s)] ==
            IF i = 0 THEN <<>>
            ELSE IF s[i] \in ToSet(seen[i - 1]) THEN seen[i - 1] ELSE Append(seen[i - 1], s[i])
    IN  seen[Len(s)]

-----------------------------------------------------------------------------
(* Read-only intents.                                                      *)

\* The spellings of each kind.
KindSpellings ==
    [native_balance |-> {"get_native_balance", "native_balance", "eth_balance"},
     erc20_balance |-> {"get_erc20_balance", "erc20_balance", "token_balance"},
     erc20_allowance |-> {"get_erc20_allowance", "erc20_allowance", "allowance"},
     erc20_metadata |-> {"get_erc20_metadata", "erc20_metadata", "token_metadata"},
     contract_read |-> {"read_contract", "contract_read"},
     known_address |-> {"known_address", "address_lookup", "lookup_known_address"},
     token_prices |-> {"token_prices", "get_token_prices"},
     portfolio_tokens |-> {"portfolio_tokens", "get_portfolio_tokens"},
     transfer_history |-> {"transfer_history", "get_transfer_history"}]

_KIND_ALIASES ==
    [a \in UNION {KindSpellings[k] : k \in DOMAIN KindSpellings} |->
        CHOOSE k \in DOMAIN KindSpellings : a \in KindSpellings[k]]

\* The fields an intent model normalises with normalize_evm_address, and the
\* other fields it requires.
AddressFields ==
    [native_balance |-> {"wallet_address"},
     erc20_balance |-> {"token_address", "wallet_address"},
     erc20_allowance |-> {"token_address", "owner_address", "spender_address"},
     erc20_metadata |-> {"token_address"},
     contract_read |-> {"contract_address"},
     known_address |-> {},
     token_prices |-> {},
     portfolio_tokens |-> {"wallet_address"},
     transfer_history |-> {"wallet_address"}]

OtherFields(kind) ==
    IF kind = "contract_read" THEN {"abi_fragment", "function_name"}
    ELSE IF kind = "known_address" THEN {"category", "key"} ELSE {}

\* The fields every model of a kind requires, dumped.
BaseIntent(kind, payload) ==
    Update([f \in AddressFields[kind] \cup OtherFields(kind) |-> Get(payload, f)],
           [kind |-> Text(kind), chain |-> Get(payload, "chain")])

HasBaseFields(kind, payload) ==
    /\ \A f \in AddressFields[kind] : Get(payload, f) \in Addresses
    /\ \A f \in OtherFields(kind) : Get(payload, f) # None

IsEmpty(s) == s = None \/ s = <<>>

\* The tokens, or the single token given by the fields of the intent itself.
TokenEntries(payload) ==
    LET token_address == Get(payload, "token_address")
        chain == Get(payload, "chain")
    IN  IF ~IsEmpty(Get(payload, "tokens")) THEN payload["tokens"]
        ELSE IF token_address # None /\ chain # None
        THEN <<[chain |-> chain, token_address |-> token_address]>> ELSE <<>>

TokenPricesIntent(payload) ==
    LET entries == TokenEntries(payload)
    IN  IF /\ Get(payload, "token_address") \in Addresses \cup {None}
           /\ Len(entries) \in 1..MaxTokens
           /\ \A e \in ToSet(entries) : e.token_address \in Addresses
           /\ Cardinality({e.chain : e \in ToSet(entries)}) <= MaxTokenChains
        THEN Update(BaseIntent("token_prices", payload),
                    [chain |-> None, tokens |-> entries, token_address |-> None])
        ELSE Invalid

\* Mutant: the first request's networks stay in the normalised intent.
PortfolioTokensIntent_keeps_networks(payload) ==
    LET networks == Get(payload, "networks")
        chains == Get(payload, "chains")
        resolved == IF ~IsEmpty(networks)
                    THEN [i \in DOMAIN networks |-> alchemy_network_to_mercury_chain(networks[i])]
                    ELSE IF ~IsEmpty(chains) THEN Distinct(chains) ELSE <<Get(payload, "chain")>>
    IN  IF ~(~IsEmpty(networks) /\ ~IsEmpty(chains)) /\ \A c \in ToSet(resolved) : CoveredByAlchemy(c)
        THEN Update(BaseIntent("portfolio_tokens", payload),
                    [chain |-> None, chains |-> resolved, networks |-> networks,
                     page_key |-> Get(payload, "page_key")])
        ELSE Invalid

\* The chains of the networks, the chains, or the single chain of the intent.
PortfolioChains(payload) ==
    LET chains == Get(payload, "chains")
        networks == Get(payload, "networks")
    IN  IF ~IsEmpty(networks)
        THEN Distinct([i \in DOMAIN networks |-> alchemy_network_to_mercury_chain(networks[i])])
        ELSE IF ~IsEmpty(chains) THEN Distinct(chains) ELSE <<Get(payload, "chain")>>

PortfolioTokensIntent(payload) ==
    LET resolved == PortfolioChains(payload)
    IN  IF /\ IsEmpty(Get(payload, "chains")) \/ IsEmpty(Get(payload, "networks"))
           /\ Len(resolved) \in 1..MaxNetworks
           /\ \A c \in ToSet(resolved) : CoveredByAlchemy(c)
        THEN Update(BaseIntent("portfolio_tokens", payload),
                    [chain |-> None, chains |-> resolved, networks |-> None,
                     page_key |-> Get(payload, "page_key")])
        ELSE Invalid

Directions ==
    [in |-> "incoming", incoming |-> "incoming", out |-> "outgoing", outgoing |-> "outgoing",
     both |-> "both"]

AllowedCategories == {"external", "internal", "erc20", "erc721", "erc1155", "specialnft"}
DefaultCategories == <<"external", "internal", "erc20", "erc721", "erc1155">>

TransferHistoryIntent(payload) ==
    LET given == IF Get(payload, "direction") = None THEN "both" ELSE payload["direction"]
        categories == IF IsEmpty(Get(payload, "categories")) THEN DefaultCategories
                      ELSE payload["categories"]
        max_count == IF Get(payload, "max_count") = None THEN DefaultCount ELSE payload["max_count"]
    IN  IF /\ given \in DOMAIN Directions
           /\ ToSet(categories) \subseteq AllowedCategories
           /\ max_count \in 1..MaxCount
        THEN Update(BaseIntent("transfer_history", payload),
                    [direction |-> Directions[given],
                     categories |-> categories,
                     max_count |-> max_count,
                     page_key |-> IF Directions[given] = "both" THEN None
                                  ELSE Get(payload, "page_key")])
        ELSE Invalid

\* _INTENT_MODELS[kind].model_validate.
ReadIntent(kind, payload) ==
    IF ~HasBaseFields(kind, payload) THEN Invalid
    ELSE IF kind = "token_prices" THEN TokenPricesIntent(payload)
    ELSE IF kind = "portfolio_tokens" THEN PortfolioTokensIntent(payload)
    ELSE IF kind = "transfer_history" THEN TransferHistoryIntent(payload)
    ELSE BaseIntent(kind, payload)

_parse_structured_intent(raw) ==
    LET payload == _unwrap_payload(raw)
        given == raw_kind(payload)
    IN  IF IsText(given) /\ strip(given) \in DOMAIN _KIND_ALIASES
        THEN ReadIntent(_KIND_ALIASES[strip(given)], payload) ELSE Unsupported

-----------------------------------------------------------------------------
(* Value-moving intents.  Their models declare no field kind, so a dumped  *)
(* intent has none.                                                        *)

_VALUE_MOVING_KINDS == {"erc20_transfer", "erc20_approval", "native_transfer", "swap"}

\* Required addresses, other required fields, and optional fields.
ValueMovingAddresses ==
    [erc20_transfer |-> {"token_address", "recipient_address"},
     erc20_approval |-> {"token_address", "spender_address"},
     native_transfer |-> {"recipient_address"},
     swap |-> {"from_token", "to_token"}]

ValueMovingFields(kind) ==
    {"chain", "wallet_id"} \cup IF kind = "swap" THEN {"amount_in", "idempotency_key"}
                                ELSE {"amount"}

OptionalFields(kind) ==
    IF kind = "swap" THEN {"recipient_address", "to_chain"} ELSE {"idempotency_key"}

\* model_validate followed by model_dump.
ValueMovingIntent(kind, payload) ==
    LET required == ValueMovingAddresses[kind] \cup ValueMovingFields(kind)
    IN  IF /\ \A f \in ValueMovingAddresses[kind] : Get(payload, f) \in Addresses
           /\ \A f \in ValueMovingFields(kind) : Get(payload, f) # None
           /\ kind = "swap" => /\ payload["from_token"] # payload["to_token"]
                               /\ Get(payload, "recipient_address") \in Addresses \cup {None}
        THEN [f \in required \cup OptionalFields(kind) |-> Get(payload, f)]
        ELSE Invalid

=============================================================================
