---------------------------- MODULE SwapProviders ----------------------------
(***************************************************************************)
(* From a swap intent to the first transaction of the swap: prepare_swap   *)
(* (tools/swaps.py), the router and the three provider adapters of         *)
(* mercury/swaps, and the models of models/swaps.py that a provider's      *)
(* answer must fit.  Time passes between the steps, because each of them   *)
(* waits for a provider or for an RPC node.                                *)
(*                                                                         *)
(* A JSON object is a function on the names of its fields.  A scalar of it *)
(* is an address, or a record of the form it has and the number it denotes *)
(* (see Scalar).  SwapPipeline takes what this module prepares through the *)
(* transaction pipeline; only the policy stage of it is repeated here.     *)
(***************************************************************************)
EXTENDS SwapPolicy, Sequences

CONSTANTS
    RegisteredChains,   \* the ids of mercury/chains/registry.py
    WrappedNative,      \* those of them with a wrapped_native_token_address
    CowChains,          \* COW_NETWORK_SLUG_BY_CHAIN_ID
    Chains,             \* every chain id an intent or a provider may name
    SwapIntents,        \* the intents callers send
    LifiReplies,        \* what GET /quote may answer
    CowReplies,         \* what POST /{slug}/api/v1/quote may answer
    UniswapReplies,     \* what POST /v1/quote may answer
    UniswapSwapReplies, \* what POST /v1/swap may answer
    Configured,         \* the providers the router was built with
    PolicySettings,     \* the SwapPolicyConfig in force
    Malformed,          \* a field the adapters or the models refuse
    QuoteLifetime,      \* timedelta(minutes=5)
    RecentEpoch,        \* 1_000_000_000: digits up to here are no timestamp
    Start, MaxTime      \* the clock, and its bound

ASSUME SwapProvidersAssumption ==
    /\ WrappedNative \subseteq RegisteredChains
    /\ RegisteredChains \subseteq Chains
    /\ Configured \subseteq SwapProviderName
    /\ PolicySettings \in PolicyConfig
    /\ {QuoteLifetime, RecentEpoch, Start, MaxTime} \subseteq Nat
    /\ RecentEpoch < Start

VARIABLES
    stage,      \* how far prepare_swap and the pipeline behind it are
    intent,
    request,    \* the SwapQuoteRequest
    raw,        \* raw_quote, the provider's answer as it came
    quote,      \* the normalised SwapQuote
    execution,  \* the SwapExecution of the quote
    now

vars == <<stage, intent, request, raw, quote, execution, now>>

Prepared == {"swap_transaction", "approval_transaction", "typed_order", "signed"}

-----------------------------------------------------------------------------
(* JSON values and the conversions of the adapters.                        *)

\* int, digits, digits with blanks around them, a timestamp in milliseconds
\* or in ISO form, a fraction or its text (counted in basis points), and
\* any other text.
Scalar ==
    [form : {"int", "text", "padded", "ms", "iso", "fraction", "fraction_text", "junk"}, n : Int]

Null == [form |-> "null", n |-> 0]
ASSUME NullAssumption == Null \notin Addresses \cup {BadAddress}

Get(object, key) == IF key \in DOMAIN object THEN object[key] ELSE Null

\* {**outer, **inner}: a field of both is the inner one's.
merged(inner, outer) ==
    [k \in DOMAIN inner \cup DOMAIN outer |-> IF k \in DOMAIN inner THEN inner[k] ELSE outer[k]]

IsString(value) == value \in Addresses \cup {BadAddress}

\* The first of the keys whose value is usable, else None.
first(object, keys, Usable(_)) ==
    LET usable == {i \in DOMAIN keys : Usable(Get(object, keys[i]))}
    IN  IF usable = {} THEN None
        ELSE object[keys[CHOOSE i \in usable : \A j \in usable : i <= j]]

normalize_evm_address(value) == IF value \in Addresses \cup {None} THEN value ELSE Malformed

require_string(object, key) ==
    IF IsString(Get(object, key)) THEN normalize_evm_address(object[key]) ELSE Malformed

require_int(object, key) ==
    LET v == Get(object, key) IN IF v.form \in {"int", "text"} THEN v.n ELSE Malformed

_coerce_non_negative_int(v) ==
    IF v.form \in {"int", "text", "padded"} /\ v.n >= 0 THEN v.n ELSE Malformed

_optional_amount(object, keys) ==
    LET v == first(object, keys, LAMBDA x : x # Null)
    IN  IF v = None THEN None ELSE _coerce_non_negative_int(v)

_require_amount(object, keys) ==
    LET n == _optional_amount(object, keys) IN IF n = None THEN Malformed ELSE n

_parse_uint256(v) == IF v = Null THEN 0 ELSE _coerce_non_negative_int(v)

\* A float is cut to the second; digits are stripped of the blanks.
_parse_expiry_value(v) ==
    CASE v.form \in {"int", "ms", "iso"} -> v.n
      [] v.form = "fraction" -> v.n \div 10000
      [] v.form \in {"text", "padded"} /\ v.n > RecentEpoch -> v.n
      [] OTHER -> None

_first_expiry(object, keys) ==
    LET v == first(object, keys, LAMBDA x : _parse_expiry_value(x) # None)
    IN  IF v = None THEN None ELSE _parse_expiry_value(v)

-----------------------------------------------------------------------------
(* models/swaps.py.                                                        *)

SwapIntent ==
    [chain : Chains, to_chain : Chains \cup {None}, to_chain_id : Chains \cup {None},
     from_token : Addresses, to_token : Addresses, amount_raw : Nat,
     max_slippage_bps : Nat \cup {None}, min_amount_out : BOOLEAN,
     recipient_address : Addresses \cup {None}, wallet_address : Addresses,
     provider_preference : SwapProviderName \cup {None}]

ASSUME SwapIntentsAssumption == SwapIntents \subseteq SwapIntent

\* validate_tokens and validate_bridge_fields; prepare_swap tests the
\* destination again and knows the chains of the registry only.
intent_refused(i) ==
    \/ i.from_token = i.to_token
    \/ i.chain \notin RegisteredChains
    \/ {i.to_chain, i.to_chain_id} \ (RegisteredChains \cup {None}) # {}
    \/ i.to_chain # None /\ i.to_chain_id # None /\ i.to_chain # i.to_chain_id
    \/ i.from_token = ZERO_ADDRESS /\ i.chain \notin WrappedNative
    \/ i.amount_raw = 0

SwapQuoteRequest(i) ==
    [chain_id |-> i.chain,
     to_chain_id |-> IF i.to_chain # None THEN i.to_chain ELSE i.to_chain_id,
     from_token |-> i.from_token, to_token |-> i.to_token, amount_in_raw |-> i.amount_raw,
     max_slippage_bps |-> i.max_slippage_bps, min_amount_out |-> i.min_amount_out,
     wallet_address |-> i.wallet_address,
     effective_recipient |->
         IF i.recipient_address # None THEN i.recipient_address ELSE i.wallet_address,
     from_token_is_native |-> i.from_token = ZERO_ADDRESS]

_request_to_chain_id(r) == IF r.to_chain_id # None THEN r.to_chain_id ELSE r.chain_id

\* The fields a SwapRoute and a SwapQuote bound.
HasQuoteTypes(q) ==
    /\ \A f \in DOMAIN q : q[f] # Malformed
    /\ \A f \in {"from_chain_id", "to_chain_id", "amount_in_raw", "expected_amount_out_raw"} :
         q[f] > 0
    /\ q.min_amount_out_raw # None => q.min_amount_out_raw >= 0
    /\ q.slippage_bps # None => q.slippage_bps \in 0..10000

\* Mutant: the destination is only compared when the caller named one.
validate_quote_consistency_free_destination(r, q) ==
    /\ q.amount_in_raw = r.amount_in_raw
    /\ q.from_chain_id = r.chain_id
    /\ r.to_chain_id # None => q.to_chain_id = r.to_chain_id
    /\ q.from_token = r.from_token
    /\ q.to_token = r.to_token

validate_quote_consistency(r, q) ==
    /\ q.amount_in_raw = r.amount_in_raw
    /\ q.from_chain_id = r.chain_id
    /\ q.to_chain_id = _request_to_chain_id(r)
    /\ q.from_token = r.from_token
    /\ q.to_token = r.to_token

\* Constructing the model, or the exception it raises.
SwapQuoteOf(r, q) ==
    IF HasQuoteTypes(q) /\ validate_quote_consistency(r, q) THEN q ELSE Malformed

-----------------------------------------------------------------------------
(* swaps/lifi.py.                                                          *)

_flatten_estimate_view(body, estimate) ==
    LET keys == {"fromAmount", "toAmount", "toAmountMin", "approvalAddress", "spenderAddress",
                 "expiresAt"}
        In(object) == {k \in keys : Get(object, k) # Null}
    IN  merged([k \in In(estimate) |-> estimate[k]], [k \in In(body) |-> body[k]])

_action_token_address(action, key, fallback) ==
    IF IsString(Get(action, key)) THEN normalize_evm_address(action[key]) ELSE fallback

lifi_spender(body, estimate) ==
    LET keys == <<"approvalAddress", "spenderAddress", "spender">>
        outer == first(body, keys, IsString)
    IN  IF outer # None THEN outer ELSE first(estimate, keys, IsString)

lifi_expiry(em, body, estimate, action) ==
    LET keys == <<"expiresAt", "validUntil">>
        known == SelectSeq(<<em, body, estimate, action>>,
                           LAMBDA o : _first_expiry(o, keys) # None)
    IN  IF known = <<>> THEN now + QuoteLifetime ELSE _first_expiry(known[1], keys)

lifi_quote(r, p) ==
    LET em == _flatten_estimate_view(p.body, p.estimate)
        from_chain == require_int(p.action, "fromChainId")
        to_chain == require_int(p.action, "toChainId")
        from_token == _action_token_address(p.action, "fromToken", r.from_token)
    IN  [provider |-> "lifi",
         route_kind |-> IF from_chain # to_chain THEN "bridge" ELSE "swap",
         from_chain_id |-> from_chain,
         to_chain_id |-> to_chain,
         from_token |-> IF r.from_token_is_native /\ from_token # Malformed THEN r.from_token
                        ELSE from_token,
         to_token |-> _action_token_address(p.action, "toToken", r.to_token),
         spender_address |-> normalize_evm_address(lifi_spender(p.body, p.estimate)),
         amount_in_raw |-> _require_amount(em, <<"fromAmount">>),
         expected_amount_out_raw |-> _require_amount(em, <<"toAmount">>),
         min_amount_out_raw |-> _optional_amount(em, <<"toAmountMin">>),
         slippage_bps |-> r.max_slippage_bps,
         expires_at |-> lifi_expiry(em, p.body, p.estimate, p.action)]

\* A response without an action object is refused.
lifi_get_quote(r, p) ==
    IF p.action = None THEN Malformed ELSE SwapQuoteOf(r, lifi_quote(r, p))

-----------------------------------------------------------------------------
(* swaps/uniswap.py.                                                       *)

_merged_quote_view(p) == IF p.inner = None THEN p.outer ELSE merged(p.inner, p.outer)

_require_chain_id(object, key) ==
    LET v == first(object, <<key, "chainId">>, LAMBDA x : x # Null)
    IN  IF v # None /\ v.form \in {"int", "text", "padded"} THEN v.n ELSE Malformed

\* slippageBps when it reads as an integer, else slippageTolerance, a
\* fraction (as text: basis points if it has digits only), else the request.
_resolve_slippage_bps(object, r) ==
    LET bps == Get(object, "slippageBps")
        tolerance == Get(object, "slippageTolerance")
    IN  CASE bps.form \in {"int", "text", "padded"} ->
               IF bps.n \in 0..10000 THEN bps.n ELSE Malformed
          [] OTHER ->
               CASE tolerance.form \in {"fraction", "fraction_text"} -> tolerance.n
                 [] tolerance.form = "int" -> tolerance.n * 10000
                 [] tolerance.form \in {"text", "padded"} ->
                      IF tolerance.n \in 0..10000 THEN tolerance.n ELSE tolerance.n * 10000
                 [] OTHER -> r.max_slippage_bps

uniswap_quote(r, view) ==
    [provider |-> "uniswap",
     route_kind |-> "swap",
     from_chain_id |-> _require_chain_id(view, "tokenInChainId"),
     to_chain_id |-> _require_chain_id(view, "tokenOutChainId"),
     from_token |-> require_string(view, "tokenIn"),
     to_token |-> require_string(view, "tokenOut"),
     spender_address |->
         normalize_evm_address(
             first(view, <<"permit2Address", "allowanceTarget", "allowanceHolder", "spender",
                           "approvalAddress">>, IsString)),
     amount_in_raw |-> _require_amount(view, <<"amount", "amountIn", "inputAmount">>),
     expected_amount_out_raw |->
         _require_amount(view, <<"amountOut", "quoteAmountOut", "outputAmount", "outAmount">>),
     min_amount_out_raw |->
         _optional_amount(view, <<"minAmountOut", "amountOutMinimum", "quoteAmountOutMinimum">>),
     slippage_bps |-> _resolve_slippage_bps(view, r),
     expires_at |->
         _first_expiry(view, <<"expiresAt", "deadline", "validUntil", "quoteExpiry",
                               "expiration">>)]

uniswap_get_quote(r, p) ==
    IF r.from_token_is_native THEN Malformed
    ELSE SwapQuoteOf(r, uniswap_quote(r, _merged_quote_view(p)))

-----------------------------------------------------------------------------
(* swaps/cowswap.py.                                                       *)

\* No milliseconds here, and a text that is no timestamp raises.
cow_expiry(v) ==
    CASE v.form \in {"int", "text", "iso"} -> v.n
      [] v.form \in {"null", "fraction"} -> now + QuoteLifetime
      [] OTHER -> Malformed

cow_quote(r, p) ==
    [provider |-> "cowswap",
     route_kind |-> "swap",
     from_chain_id |-> r.chain_id,
     to_chain_id |-> r.chain_id,
     from_token |-> require_string(p.quote, "sellToken"),
     to_token |-> require_string(p.quote, "buyToken"),
     spender_address |->
         LET keys == <<"spender", "allowanceTarget", "vaultRelayer">>
             outer == first(p.body, keys, IsString)
         IN  normalize_evm_address(IF outer # None THEN outer ELSE first(p.quote, keys, IsString)),
     amount_in_raw |-> require_int(p.quote, "sellAmount"),
     expected_amount_out_raw |-> require_int(p.quote, "buyAmount"),
     min_amount_out_raw |-> None,
     slippage_bps |-> r.max_slippage_bps,
     expires_at |-> cow_expiry(Get(p.quote, "validTo"))]

cow_get_quote(r, p) ==
    IF r.from_token_is_native \/ r.chain_id \notin CowChains \/ p.quote = None THEN Malformed
    ELSE SwapQuoteOf(r, cow_quote(r, p))

-----------------------------------------------------------------------------
(* swaps/router.py and the three build_execution methods.                  *)

provider_for(preference) ==
    IF preference # None THEN (IF preference \in Configured THEN preference ELSE None)
    ELSE LET known == SelectSeq(<<"lifi", "cowswap", "uniswap">>, LAMBDA n : n \in Configured)
         IN  IF known = <<>> THEN None ELSE known[1]

Replies(provider) ==
    CASE provider = "lifi" -> LifiReplies
      [] provider = "cowswap" -> CowReplies
      [] OTHER -> UniswapReplies

get_quote_of(provider, r, p) ==
    CASE provider = "lifi" -> lifi_get_quote(r, p)
      [] provider = "cowswap" -> cow_get_quote(r, p)
      [] OTHER -> uniswap_get_quote(r, p)

Unsupported ==
    [execution_type |-> "unsupported", to |-> ZERO_ADDRESS, value_wei |-> 0, submit_url |-> FALSE]

\* A transaction object of the provider as a SwapEVMTransaction.
SwapEVMTransaction(object) ==
    LET to == require_string(object, "to")
        value == _parse_uint256(Get(object, "value"))
    IN  IF Malformed \in {to, value} THEN Malformed
        ELSE [execution_type |-> "evm_transaction", to |-> to, value_wei |-> value,
              submit_url |-> FALSE]

\* LiFi's quote holds the transaction and CoW's the typed data; Uniswap is
\* asked a second time.
executions_of(q, p) ==
    CASE q.provider = "lifi" ->
           {IF p.transaction = None THEN Unsupported ELSE SwapEVMTransaction(p.transaction)}
      [] q.provider = "cowswap" ->
           {IF p.typed_data THEN [Unsupported EXCEPT !.execution_type = "eip712_order",
                                                     !.submit_url = TRUE]
            ELSE Unsupported}
      [] OTHER ->
           {IF s = None THEN Unsupported ELSE SwapEVMTransaction(s) : s \in UniswapSwapReplies}

-----------------------------------------------------------------------------
(* The policy's view of a quote, and of the transaction made from it.      *)

expired(q) == q.expires_at # None /\ q.expires_at <= now

policy_quote(r, q) ==
    [provider |-> q.provider, slippage_bps |-> q.slippage_bps, expired |-> expired(q),
     chain |-> "match",
     to_chain |-> CASE q.to_chain_id = r.chain_id -> "same"
                    [] q.to_chain_id \in RegisteredChains -> "other"
                    [] OTHER -> "unknown",
     route_kind |-> q.route_kind, spender_address |-> q.spender_address,
     expected_amount_out_raw |-> q.expected_amount_out_raw,
     min_amount_out_raw |-> q.min_amount_out_raw, min_requested |-> r.min_amount_out]

\* to_prepared_transaction, the same in every adapter; quote_expires_at is
\* in its metadata too, where no rule reads it.
to_prepared_transaction(r, q, x) ==
    [chain |-> "match", from_address |-> r.wallet_address, to |-> x.to,
     value_wei |-> x.value_wei, data |-> "other", gas |-> 0, has_key |-> TRUE,
     action |-> "swap", token_address |-> None, recipient_address |-> r.effective_recipient,
     spender_address |-> q.spender_address, unlimited_approval |-> FALSE,
     amount_raw_is_max |-> FALSE, provider |-> q.provider, slippage_bps |-> q.slippage_bps]

-----------------------------------------------------------------------------
(* prepare_swap, one action for each wait in it.                           *)

Init ==
    /\ stage = "prepare_swap"
    /\ intent \in SwapIntents
    /\ request = None /\ raw = None /\ quote = None /\ execution = None
    /\ now = Start

At(s) == stage = s
Goto(s) == stage' = s

\* Resolve the chains, the token metadata and the amount.
make_request ==
    /\ At("prepare_swap")
    /\ \/ /\ intent_refused(intent)
          /\ Goto("error")
          /\ UNCHANGED request
       \/ /\ ~intent_refused(intent)
          /\ request' = SwapQuoteRequest(intent)
          /\ Goto("get_quote")
    /\ UNCHANGED <<intent, raw, quote, execution, now>>

\* The provider's answer, its normalisation and the quote policy.
get_quote ==
    /\ At("get_quote")
    /\ LET provider == provider_for(intent.provider_preference)
       IN  \/ /\ provider # None
              /\ \E p \in Replies(provider) :
                   LET q == get_quote_of(provider, request, p)
                   IN  IF q = Malformed
                       THEN Goto("error") /\ UNCHANGED <<raw, quote>>
                       ELSE /\ raw' = p
                            /\ quote' = q
                            /\ IF evaluate_swap_quote_policy(policy_quote(request, q),
                                                             PolicySettings) = "rejected"
                               THEN Goto("rejected")
                               ELSE Goto(IF request.from_token_is_native
                                         THEN "build_execution" ELSE "check_allowance")
           \/ Goto("error") /\ UNCHANGED <<raw, quote>>   \* no provider, or the request failed
    /\ UNCHANGED <<intent, request, execution, now>>

\* A short allowance makes prepare_swap answer with an ERC20 approval.
check_swap_allowance ==
    /\ At("check_allowance")
    /\ \E s \in {"build_execution", "approval_transaction", "error"} : Goto(s)
    /\ UNCHANGED <<intent, request, raw, quote, execution, now>>

build_execution ==
    /\ At("build_execution")
    /\ \/ \E x \in executions_of(quote, raw) :
            /\ execution' = x
            /\ IF x = Malformed THEN Goto("error")
               ELSE IF evaluate_swap_execution_policy(policy_quote(request, quote), x,
                                                      PolicySettings) = "rejected"
               THEN Goto("rejected")
               ELSE Goto(IF x.execution_type = "eip712_order"
                         THEN "typed_order" ELSE "swap_transaction")
       \/ /\ quote.provider = "uniswap"   \* the second request failed
          /\ Goto("error")
          /\ UNCHANGED execution
    /\ UNCHANGED <<intent, request, raw, quote, now>>

\* The policy stage of the pipeline, then the approval and the signature.
pipeline ==
    /\ At("swap_transaction")
    /\ Goto(IF swap_transaction_policy_reason(
                   to_prepared_transaction(request, quote, execution), PolicySettings)
            THEN "rejected" ELSE "signed")
    /\ UNCHANGED <<intent, request, raw, quote, execution, now>>

Tick ==
    /\ now < MaxTime
    /\ stage \in {"get_quote", "check_allowance", "build_execution", "swap_transaction"}
    /\ now' = now + 1
    /\ UNCHANGED <<stage, intent, request, raw, quote, execution>>

Next == make_request \/ get_quote \/ check_swap_allowance \/ build_execution \/ pipeline \/ Tick

Spec == Init /\ [][Next]_vars

-----------------------------------------------------------------------------
(* Properties.                                                             *)

\* The values a raw answer states for a field, wherever it states them.
Objects(p) == {p[c] : c \in {c \in {"body", "action", "estimate", "inner", "outer", "quote"}
                               \cap DOMAIN p : p[c] # None}}
StatedIn(keys) ==
    UNION {{o[k] : k \in keys \cap DOMAIN o} : o \in Objects(raw)}
StatedNumbers(keys) == {v.n : v \in StatedIn(keys)}

\* A provider cannot change the deal: whatever shape its answer has, if it
\* states an amount, a token or a chain, then nothing is prepared from it
\* unless it states the one the caller asked for, the source chain being
\* the destination where the caller named none.
AnswerIsForTheRequest ==
    stage \in Prepared =>
      LET Agrees(stated, asked) == stated = {} \/ asked \in stated
      IN  /\ Agrees(StatedNumbers({"fromAmount", "amount", "amountIn", "inputAmount",
                                   "sellAmount"}), request.amount_in_raw)
          /\ Agrees(StatedNumbers({"fromChainId", "tokenInChainId"}), request.chain_id)
          /\ Agrees(StatedNumbers({"toChainId", "tokenOutChainId"}),
                    IF intent.to_chain_id # None THEN intent.to_chain_id
                    ELSE IF intent.to_chain # None THEN intent.to_chain ELSE intent.chain)
          /\ Agrees(StatedIn({"toToken", "tokenOut", "buyToken"}), intent.to_token)
          /\ intent.from_token # ZERO_ADDRESS =>
               Agrees(StatedIn({"fromToken", "tokenIn", "sellToken"}), intent.from_token)

\* Only LiFi bridges: an intent for another chain is never served by CoW
\* Swap or Uniswap, even if their answer claims that chain.
BridgeOnlyThroughLifi ==
    stage \in Prepared /\ {intent.to_chain, intent.to_chain_id} \ {None, intent.chain} # {}
    => quote.provider = "lifi"

\* The quote is still valid when the swap is prepared, although it was
\* accepted before the allowance was read and the execution was built.
PreparedBeforeExpiry ==
    [][stage' \in {"swap_transaction", "typed_order"} /\ stage' # stage
         => ~expired(quote)]_vars

=============================================================================
