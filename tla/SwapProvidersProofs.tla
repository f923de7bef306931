------------------------- MODULE SwapProvidersProofs -------------------------
(***************************************************************************)
(* What holds of prepare_swap for every set of intents, of configured      *)
(* providers and of answers they may give.                                 *)
(***************************************************************************)
EXTENDS SwapProviders, WellFoundedInduction, TLAPS

\* The stages behind an accepted quote.
Quoted == Prepared \cup {"check_allowance", "build_execution"}

\* What the models and the quote policy established about the quote at hand.
\* It does not depend on the clock, so it survives every wait.
DealInv ==
    /\ stage \in Quoted \cup {"get_quote"} =>
         /\ request = SwapQuoteRequest(intent)
         /\ ~intent_refused(intent)
    /\ stage \in Quoted =>
         /\ quote.to_chain_id = _request_to_chain_id(request)
         /\ quote.provider = "lifi" \/ quote.route_kind = "swap"
         /\ quote.to_chain_id # request.chain_id => quote.route_kind = "bridge"

-----------------------------------------------------------------------------

\* A quote that an adapter returns is for the destination of the request,
\* and only LiFi's may be a bridge.
LEMMA AdapterQuote ==
    ASSUME NEW provider, NEW r, NEW p,
           get_quote_of(provider, r, p) # Malformed
    PROVE  LET q == get_quote_of(provider, r, p)
           IN  /\ q.to_chain_id = _request_to_chain_id(r)
               /\ q.provider = "lifi" \/ q.route_kind = "swap"
<1> DEFINE q == get_quote_of(provider, r, p)
<1>1. CASE provider = "lifi"
  <2>1. q = lifi_quote(r, p) /\ validate_quote_consistency(r, q)
    BY <1>1 DEF get_quote_of, lifi_get_quote, SwapQuoteOf
  <2>2. lifi_quote(r, p).provider = "lifi"
    BY DEF lifi_quote
  <2> QED BY <2>1, <2>2 DEF validate_quote_consistency
<1>2. CASE provider = "cowswap"
  <2>1. q = cow_quote(r, p) /\ validate_quote_consistency(r, q)
    BY <1>2 DEF get_quote_of, cow_get_quote, SwapQuoteOf
  <2>2. cow_quote(r, p).route_kind = "swap"
    BY DEF cow_quote
  <2> QED BY <2>1, <2>2 DEF validate_quote_consistency
<1>3. CASE provider \notin {"lifi", "cowswap"}
  <2> DEFINE u == uniswap_quote(r, _merged_quote_view(p))
  <2>1. q = u /\ validate_quote_consistency(r, q)
    BY <1>3 DEF get_quote_of, uniswap_get_quote, SwapQuoteOf
  <2>2. u.route_kind = "swap"
    BY DEF uniswap_quote
  <2> QED BY <2>1, <2>2 DEF validate_quote_consistency
<1> QED BY <1>1, <1>2, <1>3

\* The quote policy refuses a route that leaves the source chain without
\* being marked a bridge.
LEMMA AcceptedQuote ==
    ASSUME NEW r, NEW q,
           evaluate_swap_quote_policy(policy_quote(r, q), PolicySettings) # "rejected"
    PROVE  q.to_chain_id # r.chain_id => q.route_kind = "bridge"
<1>1. ~unmarked_bridge(policy_quote(r, q))
  BY DEF evaluate_swap_quote_policy, swap_quote_rejection_reason
<1>2. policy_quote(r, q).to_chain =
        CASE q.to_chain_id = r.chain_id -> "same"
          [] q.to_chain_id \in RegisteredChains -> "other"
          [] OTHER -> "unknown"
  BY DEF policy_quote
<1>3. policy_quote(r, q).route_kind = q.route_kind
  BY DEF policy_quote
<1>4. ASSUME q.to_chain_id # r.chain_id
      PROVE  policy_quote(r, q).to_chain # "same"
  <2>1. CASE q.to_chain_id \in RegisteredChains
    BY <1>2, <1>4, <2>1
  <2>2. CASE q.to_chain_id \notin RegisteredChains
    BY <1>2, <1>4, <2>2
  <2> QED BY <2>1, <2>2
<1> QED BY <1>1, <1>3, <1>4 DEF unmarked_bridge

\* DealInv holds when prepare_swap is called.
LEMMA DealInit == Init => DealInv
BY DEF Init, DealInv, Quoted, Prepared

\* Every step of prepare_swap keeps DealInv; only get_quote establishes its
\* second part.
LEMMA DealNext == DealInv /\ [Next]_vars => DealInv'
<1> SUFFICES ASSUME DealInv, [Next]_vars PROVE DealInv'
  OBVIOUS
<1> USE DEF Quoted, Prepared, At, Goto
<1>1. CASE make_request
  BY <1>1 DEF make_request, DealInv
<1>2. CASE get_quote
  <2> DEFINE provider == provider_for(intent.provider_preference)
  <2>1. CASE stage' \notin Quoted \cup {"get_quote"}
    BY <2>1 DEF DealInv
  <2>2. CASE stage' \in Quoted \cup {"get_quote"}
    <3>1. PICK p \in Replies(provider) :
            LET q == get_quote_of(provider, request, p)
            IN  /\ q # Malformed
                /\ raw' = p /\ quote' = q
                /\ evaluate_swap_quote_policy(policy_quote(request, q), PolicySettings)
                     # "rejected"
      BY <1>2, <2>2 DEF get_quote
    <3>2. request' = request /\ intent' = intent /\ At("get_quote")
      BY <1>2 DEF get_quote
    <3>3. /\ quote'.to_chain_id = _request_to_chain_id(request)
          /\ quote'.provider = "lifi" \/ quote'.route_kind = "swap"
      BY <3>1, AdapterQuote
    <3>4. quote'.to_chain_id # request.chain_id => quote'.route_kind = "bridge"
      BY <3>1, AcceptedQuote
    <3>5. request = SwapQuoteRequest(intent) /\ ~intent_refused(intent)
      BY <3>2 DEF DealInv
    <3> QED BY <3>2, <3>3, <3>4, <3>5 DEF DealInv
  <2> QED BY <2>1, <2>2
<1>3. CASE check_swap_allowance
  BY <1>3 DEF check_swap_allowance, DealInv
<1>4. CASE build_execution
  BY <1>4 DEF build_execution, DealInv
<1>5. CASE pipeline
  BY <1>5 DEF pipeline, DealInv
<1>6. CASE Tick
  BY <1>6 DEF Tick, DealInv
<1>7. CASE UNCHANGED vars
  BY <1>7 DEF vars, DealInv
<1> QED BY <1>1, <1>2, <1>3, <1>4, <1>5, <1>6, <1>7 DEF Next

\* DealInv holds throughout.
LEMMA DealKept == Spec => []DealInv
BY DealInit, DealNext, PTL DEF Spec

\* Only LiFi bridges: whatever CoW Swap or Uniswap answer, an intent for
\* another chain is never prepared from their quote.
THEOREM BridgeIsLifi == Spec => []BridgeOnlyThroughLifi
<1>1. DealInv => BridgeOnlyThroughLifi
  <2> SUFFICES ASSUME DealInv, stage \in Prepared,
                      {intent.to_chain, intent.to_chain_id} \ {None, intent.chain} # {}
               PROVE  quote.provider = "lifi"
    BY DEF BridgeOnlyThroughLifi
  <2>1. /\ request = SwapQuoteRequest(intent)
        /\ ~intent_refused(intent)
        /\ quote.to_chain_id = _request_to_chain_id(request)
        /\ quote.provider = "lifi" \/ quote.route_kind = "swap"
        /\ quote.to_chain_id # request.chain_id => quote.route_kind = "bridge"
    BY DEF DealInv, Quoted
  <2>2. /\ request.chain_id = intent.chain
        /\ request.to_chain_id = IF intent.to_chain # None THEN intent.to_chain
                                 ELSE intent.to_chain_id
    BY <2>1 DEF SwapQuoteRequest
  <2>3. intent.to_chain = None \/ intent.to_chain_id = None \/ intent.to_chain = intent.to_chain_id
    BY <2>1 DEF intent_refused
  <2>4. _request_to_chain_id(request) # intent.chain
    BY <2>2, <2>3 DEF _request_to_chain_id
  <2> QED BY <2>1, <2>2, <2>4
<1> QED BY <1>1, DealKept, PTL

\* The swap or the typed order is only prepared while its quote is valid:
\* the execution policy reads the clock again, after every wait.
THEOREM ValidWhenPrepared == Spec => PreparedBeforeExpiry
<1> DEFINE Entered == stage' \in {"swap_transaction", "typed_order"} /\ stage' # stage
<1>1. [Next]_vars => [Entered => ~expired(quote)]_vars
  <2> SUFFICES ASSUME Next, Entered PROVE ~expired(quote)
    OBVIOUS
  <2>1. build_execution
    <3>1. ~make_request BY DEF make_request, At, Goto
    <3>2. ~get_quote BY DEF get_quote, At, Goto
    <3>3. ~check_swap_allowance BY DEF check_swap_allowance, At, Goto
    <3>4. ~pipeline BY DEF pipeline, At, Goto
    <3>5. ~Tick BY DEF Tick
    <3> QED BY <3>1, <3>2, <3>3, <3>4, <3>5 DEF Next
  <2>2. PICK x \in executions_of(quote, raw) :
          evaluate_swap_execution_policy(policy_quote(request, quote), x, PolicySettings)
            # "rejected"
    BY <2>1 DEF build_execution, Goto
  <2>3. ~policy_quote(request, quote).expired
    BY <2>2 DEF evaluate_swap_execution_policy, swap_quote_rejection_reason
  <2>4. policy_quote(request, quote).expired = expired(quote)
    BY DEF policy_quote
  <2> QED BY <2>3, <2>4
<1> QED BY <1>1, PTL DEF Spec, PreparedBeforeExpiry

-----------------------------------------------------------------------------
(* The answer and the request.                                             *)

AmountFields == {"fromAmount", "amount", "amountIn", "inputAmount", "sellAmount"}
FromChainFields == {"fromChainId", "tokenInChainId"}
ToChainFields == {"toChainId", "tokenOutChainId"}
FromTokenFields == {"fromToken", "tokenIn", "sellToken"}
ToTokenFields == {"toToken", "tokenOut", "buyToken"}
ChainFields == FromChainFields \cup ToChainFields
TokenFields == FromTokenFields \cup ToTokenFields

\* Every provider names the fields as its own API does: LiFi states tokens
\* in the action only, as text; CoW Swap states no chain; Uniswap states no
\* chain under LiFi's names, and leaves out a chain instead of sending null.
OwnFields ==
    /\ \A p \in LifiReplies :
         /\ DOMAIN p = {"action", "body", "estimate", "transaction"}
         /\ p.body # None /\ p.estimate # None
         /\ DOMAIN p.body \cap TokenFields = {}
         /\ DOMAIN p.estimate \cap TokenFields = {}
         /\ p.action # None =>
              /\ DOMAIN p.action \cap TokenFields \subseteq {"fromToken", "toToken"}
              /\ \A k \in DOMAIN p.action \cap TokenFields : IsString(p.action[k])
    /\ \A p \in CowReplies :
         /\ DOMAIN p = {"body", "quote", "typed_data"}
         /\ p.body # None => DOMAIN p.body \cap ChainFields = {}
         /\ p.quote # None => DOMAIN p.quote \cap ChainFields = {}
    /\ \A p \in UniswapReplies :
         /\ DOMAIN p = {"inner", "outer"}
         /\ p.outer # None
         /\ \A c \in {"inner", "outer"} : p[c] # None =>
              /\ DOMAIN p[c] \cap ChainFields \subseteq {"tokenInChainId", "tokenOutChainId"}
              /\ \A k \in DOMAIN p[c] \cap ChainFields : p[c][k] # Null

\* StatedIn and StatedNumbers for any answer p.
Stated(p, keys) == UNION {{o[k] : k \in keys \cap DOMAIN o} : o \in Objects(p)}
Numbers(p, keys) == {v.n : v \in Stated(p, keys)}
Agree(stated, asked) == stated = {} \/ asked \in stated

\* AnswerIsForTheRequest, part by part, for an answer p to the request r.
AmountAgrees(r, p) == Agree(Numbers(p, AmountFields), r.amount_in_raw)
ChainsAgree(r, p) ==
    /\ Agree(Numbers(p, FromChainFields), r.chain_id)
    /\ Agree(Numbers(p, ToChainFields), _request_to_chain_id(r))
TokensAgree(r, p) ==
    /\ Agree(Stated(p, ToTokenFields), r.to_token)
    /\ ~r.from_token_is_native => Agree(Stated(p, FromTokenFields), r.from_token)
Answers(r, p) == AmountAgrees(r, p) /\ ChainsAgree(r, p) /\ TokensAgree(r, p)

AnswerInv == stage \in Quoted => Answers(request, raw)

ObjectNames == {"body", "action", "estimate", "inner", "outer", "quote"}

\* A field of an object of the answer is stated by the answer.
LEMMA FieldIsStated ==
    ASSUME NEW p, NEW c \in ObjectNames \cap DOMAIN p, p[c] # None,
           NEW keys, NEW k \in keys \cap DOMAIN p[c]
    PROVE  p[c][k] \in Stated(p, keys) /\ p[c][k].n \in Numbers(p, keys)
<1>1. p[c] \in Objects(p)
  BY DEF Objects, ObjectNames
<1>2. p[c][k] \in Stated(p, keys)
  BY <1>1 DEF Stated
<1> QED BY <1>2 DEF Numbers

\* What no object of the answer has, the answer does not state.
LEMMA NothingStated ==
    ASSUME NEW p, NEW keys,
           \A c \in ObjectNames \cap DOMAIN p : p[c] # None => DOMAIN p[c] \cap keys = {}
    PROVE  Stated(p, keys) = {} /\ Numbers(p, keys) = {}
<1>1. Stated(p, keys) = {}
  BY DEF Stated, Objects, ObjectNames
<1> QED BY <1>1 DEF Numbers

\* A set of natural numbers that is not empty has a least element.
LEMMA LeastExists ==
    ASSUME NEW S \in SUBSET Nat, S # {}
    PROVE  \E i \in S : \A j \in S : i <= j
<1>1. PICK i \in S : \A j \in S : <<j, i>> \notin OpToRel(<, Nat)
  BY NatLessThanWellFounded, WFMin
<1>2. \A j \in S : ~(j < i)
  BY <1>1 DEF OpToRel
<1> QED BY <1>2

\* first() with the test "is not null" returns the first of the keys that
\* the object has.
LEMMA FirstNotNull ==
    ASSUME NEW o, NEW keys, DOMAIN keys \in SUBSET Nat,
           first(o, keys, LAMBDA x : x # Null) # None
    PROVE  \E i \in DOMAIN keys :
             /\ keys[i] \in DOMAIN o
             /\ o[keys[i]] # Null
             /\ first(o, keys, LAMBDA x : x # Null) = o[keys[i]]
             /\ \A j \in DOMAIN keys : keys[j] \in DOMAIN o /\ o[keys[j]] # Null => i <= j
<1> DEFINE usable == {i \in DOMAIN keys : Get(o, keys[i]) # Null}
           least == CHOOSE i \in usable : \A j \in usable : i <= j
<1>1. usable # {} /\ first(o, keys, LAMBDA x : x # Null) = o[keys[least]]
  BY DEF first
<1>2. usable \in SUBSET Nat
  OBVIOUS
<1>3. least \in usable /\ \A j \in usable : least <= j
  <2>1. \E i \in usable : \A j \in usable : i <= j
    BY <1>1, <1>2, LeastExists
  <2> HIDE DEF usable
  <2> QED BY <2>1
<1>4. \A i \in DOMAIN keys : i \in usable <=> keys[i] \in DOMAIN o /\ o[keys[i]] # Null
  BY DEF Get
<1> HIDE DEF least
<1>5. least \in DOMAIN keys
  BY <1>3
<1> HIDE DEF usable
<1> QED BY <1>1, <1>3, <1>4, <1>5

\* An amount that was read is the number of one of the fields.
LEMMA AmountRead ==
    ASSUME NEW o, NEW keys, DOMAIN keys \in SUBSET Nat,
           _require_amount(o, keys) # Malformed
    PROVE  \E i \in DOMAIN keys : keys[i] \in DOMAIN o /\ _require_amount(o, keys) = o[keys[i]].n
<1> DEFINE v == first(o, keys, LAMBDA x : x # Null)
<1>1. v # None
  BY DEF _require_amount, _optional_amount
<1>2. _require_amount(o, keys) = v.n
  BY <1>1 DEF _require_amount, _optional_amount, _coerce_non_negative_int
<1>3. \E i \in DOMAIN keys : keys[i] \in DOMAIN o /\ v = o[keys[i]]
  BY <1>1, FirstNotNull
<1> HIDE DEF v
<1> QED BY <1>2, <1>3

\* A required integer or text that was read is the field.
LEMMA FieldRead ==
    ASSUME NEW o, NEW k
    PROVE  /\ require_int(o, k) # Malformed => k \in DOMAIN o /\ require_int(o, k) = o[k].n
           /\ require_string(o, k) # Malformed => k \in DOMAIN o /\ require_string(o, k) = o[k]
<1>1. Null.form = "null"
  BY DEF Null
<1>2. require_int(o, k) # Malformed => k \in DOMAIN o /\ require_int(o, k) = o[k].n
  BY <1>1 DEF require_int, Get
<1>3. ASSUME require_string(o, k) # Malformed
      PROVE  k \in DOMAIN o /\ require_string(o, k) = o[k]
  <2>1. IsString(Get(o, k))
    BY <1>3 DEF require_string
  <2>2. k \in DOMAIN o
    BY <2>1, NullAssumption DEF IsString, Get
  <2>3. require_string(o, k) = normalize_evm_address(o[k])
    BY <2>1 DEF require_string
  <2> QED BY <1>3, <2>2, <2>3 DEF normalize_evm_address
<1> QED BY <1>2, <1>3

\* A quote that was accepted has no malformed field and repeats the request.
LEMMA AcceptedFields ==
    ASSUME NEW r, NEW q, SwapQuoteOf(r, q) # Malformed
    PROVE  /\ \A f \in DOMAIN q : q[f] # Malformed
           /\ validate_quote_consistency(r, q)
BY DEF SwapQuoteOf, HasQuoteTypes

\* An answer that the LiFi adapter accepts agrees with the request.
LEMMA LifiAnswers ==
    ASSUME OwnFields, NEW r, NEW p \in LifiReplies, lifi_get_quote(r, p) # Malformed
    PROVE  Answers(r, p)
<1> DEFINE q == lifi_quote(r, p)
           em == _flatten_estimate_view(p.body, p.estimate)
<1>1. p.action # None /\ SwapQuoteOf(r, q) # Malformed
  BY DEF lifi_get_quote
<1>2. validate_quote_consistency(r, q) /\ \A f \in DOMAIN q : q[f] # Malformed
  BY <1>1, AcceptedFields
<1>3. /\ DOMAIN p = {"action", "body", "estimate", "transaction"}
      /\ p.body # None /\ p.estimate # None
      /\ DOMAIN p.body \cap TokenFields = {}
      /\ DOMAIN p.estimate \cap TokenFields = {}
      /\ DOMAIN p.action \cap TokenFields \subseteq {"fromToken", "toToken"}
      /\ \A k \in DOMAIN p.action \cap TokenFields : IsString(p.action[k])
  BY <1>1 DEF OwnFields
<1>4. /\ q.amount_in_raw = _require_amount(em, <<"fromAmount">>)
      /\ q.from_chain_id = require_int(p.action, "fromChainId")
      /\ q.to_chain_id = require_int(p.action, "toChainId")
      /\ ~r.from_token_is_native =>
           q.from_token = _action_token_address(p.action, "fromToken", r.from_token)
      /\ q.to_token = _action_token_address(p.action, "toToken", r.to_token)
      /\ {"amount_in_raw", "from_chain_id", "to_chain_id", "from_token", "to_token"}
           \subseteq DOMAIN q
  BY DEF lifi_quote
<1>5. /\ q.amount_in_raw = r.amount_in_raw
      /\ q.from_chain_id = r.chain_id
      /\ q.to_chain_id = _request_to_chain_id(r)
      /\ q.from_token = r.from_token
      /\ q.to_token = r.to_token
  BY <1>2 DEF validate_quote_consistency
<1>6. Malformed \notin {q.amount_in_raw, q.from_chain_id, q.to_chain_id, q.from_token, q.to_token}
  BY <1>2, <1>4
<1> HIDE DEF q
<1>7. AmountAgrees(r, p)
  <2>1. _require_amount(em, <<"fromAmount">>) # Malformed
    BY <1>4, <1>6
  <2>2. DOMAIN <<"fromAmount">> = 1..1 /\ DOMAIN <<"fromAmount">> \in SUBSET Nat
    OBVIOUS
  <2>3. PICK i \in DOMAIN <<"fromAmount">> :
                          /\ <<"fromAmount">>[i] \in DOMAIN em
                          /\ _require_amount(em, <<"fromAmount">>) = em[<<"fromAmount">>[i]].n
    <3> HIDE DEF em
    <3> QED BY <2>1, <2>2, AmountRead
  <2>4. "fromAmount" \in DOMAIN em /\ r.amount_in_raw = em["fromAmount"].n
    BY <2>2, <2>3, <1>4, <1>5
  <2>5. \/ "fromAmount" \in DOMAIN p.estimate /\ em["fromAmount"] = p.estimate["fromAmount"]
        \/ "fromAmount" \in DOMAIN p.body /\ em["fromAmount"] = p.body["fromAmount"]
    <3> DEFINE keys == {"fromAmount", "toAmount", "toAmountMin", "approvalAddress",
                        "spenderAddress", "expiresAt"}
               In(object) == {k \in keys : Get(object, k) # Null}
               fe == [k \in In(p.estimate) |-> p.estimate[k]]
               fb == [k \in In(p.body) |-> p.body[k]]
    <3>1. em = merged(fe, fb)
      BY DEF _flatten_estimate_view
    <3>2. /\ DOMAIN em = DOMAIN fe \cup DOMAIN fb
          /\ \A x \in DOMAIN em : em[x] = IF x \in DOMAIN fe THEN fe[x] ELSE fb[x]
      <4> HIDE DEF fe, fb, em
      <4> QED BY <3>1 DEF merged
    <3>3. \A o : \A k \in In(o) : k \in DOMAIN o
      BY DEF Get
    <3>4. \/ "fromAmount" \in DOMAIN fe /\ em["fromAmount"] = fe["fromAmount"]
          \/ "fromAmount" \in DOMAIN fb /\ em["fromAmount"] = fb["fromAmount"]
      <4> HIDE DEF fe, fb, em
      <4> QED BY <2>4, <3>2
    <3> HIDE DEF em, In
    <3> QED BY <3>3, <3>4
  <2>6. r.amount_in_raw \in Numbers(p, AmountFields)
    <3> HIDE DEF em
    <3>1. CASE "fromAmount" \in DOMAIN p.estimate /\ em["fromAmount"] = p.estimate["fromAmount"]
      BY <2>4, <3>1, <1>3, FieldIsStated DEF ObjectNames, AmountFields
    <3>2. CASE "fromAmount" \in DOMAIN p.body /\ em["fromAmount"] = p.body["fromAmount"]
      BY <2>4, <3>2, <1>3, FieldIsStated DEF ObjectNames, AmountFields
    <3> QED BY <2>5, <3>1, <3>2
  <2> QED BY <2>6 DEF AmountAgrees, Agree
<1>8. ChainsAgree(r, p)
  <2>1. /\ "fromChainId" \in DOMAIN p.action /\ r.chain_id = p.action["fromChainId"].n
        /\ "toChainId" \in DOMAIN p.action
        /\ _request_to_chain_id(r) = p.action["toChainId"].n
    BY <1>4, <1>5, <1>6, FieldRead
  <2>2. r.chain_id \in Numbers(p, FromChainFields)
    BY <2>1, <1>1, <1>3, FieldIsStated DEF ObjectNames, FromChainFields
  <2>3. _request_to_chain_id(r) \in Numbers(p, ToChainFields)
    BY <2>1, <1>1, <1>3, FieldIsStated DEF ObjectNames, ToChainFields
  <2> QED BY <2>2, <2>3 DEF ChainsAgree, Agree
<1>9. TokensAgree(r, p)
  <2>1. ASSUME NEW k \in {"fromToken", "toToken"}, NEW keys,
               keys \cap {"fromToken", "toToken"} = {k},
               keys \subseteq TokenFields,
               NEW asked, _action_token_address(p.action, k, asked) = asked, asked # Malformed
        PROVE  Agree(Stated(p, keys), asked)
    <3>1. CASE k \in DOMAIN p.action
      <4>1. Get(p.action, k) = p.action[k] /\ IsString(p.action[k])
        BY <3>1, <2>1, <1>3 DEF Get
      <4>2. asked = p.action[k]
        BY <4>1, <2>1 DEF _action_token_address, normalize_evm_address
      <4>3. p.action[k] \in Stated(p, keys)
        BY <3>1, <2>1, <1>1, <1>3, FieldIsStated DEF ObjectNames
      <4> QED BY <4>2, <4>3 DEF Agree
    <3>2. CASE k \notin DOMAIN p.action
      <4>1. \A c \in ObjectNames \cap DOMAIN p : p[c] # None => DOMAIN p[c] \cap keys = {}
        BY <3>2, <2>1, <1>3 DEF ObjectNames
      <4> QED BY <4>1, NothingStated DEF Agree
    <3> QED BY <3>1, <3>2
  <2>2. Agree(Stated(p, ToTokenFields), r.to_token)
    <3>1. /\ ToTokenFields \cap {"fromToken", "toToken"} = {"toToken"}
          /\ ToTokenFields \subseteq TokenFields
      BY DEF ToTokenFields, TokenFields
    <3> QED BY <3>1, <2>1, <1>4, <1>5, <1>6
  <2>3. ~r.from_token_is_native => Agree(Stated(p, FromTokenFields), r.from_token)
    <3>1. /\ FromTokenFields \cap {"fromToken", "toToken"} = {"fromToken"}
          /\ FromTokenFields \subseteq TokenFields
      BY DEF FromTokenFields, TokenFields
    <3> QED BY <3>1, <2>1, <1>4, <1>5, <1>6
  <2> QED BY <2>2, <2>3 DEF TokensAgree
<1> QED BY <1>7, <1>8, <1>9 DEF Answers

\* An answer that the CoW Swap adapter accepts agrees with the request.
LEMMA CowAnswers ==
    ASSUME OwnFields, NEW r, NEW p \in CowReplies, cow_get_quote(r, p) # Malformed
    PROVE  Answers(r, p)
<1> DEFINE q == cow_quote(r, p)
<1>1. p.quote # None /\ SwapQuoteOf(r, q) # Malformed
  BY DEF cow_get_quote
<1>2. validate_quote_consistency(r, q) /\ \A f \in DOMAIN q : q[f] # Malformed
  BY <1>1, AcceptedFields
<1>3. /\ DOMAIN p = {"body", "quote", "typed_data"}
      /\ p.body # None => DOMAIN p.body \cap ChainFields = {}
      /\ DOMAIN p.quote \cap ChainFields = {}
  BY <1>1 DEF OwnFields
<1>4. /\ q.amount_in_raw = require_int(p.quote, "sellAmount")
      /\ q.from_token = require_string(p.quote, "sellToken")
      /\ q.to_token = require_string(p.quote, "buyToken")
      /\ {"amount_in_raw", "from_token", "to_token"} \subseteq DOMAIN q
  BY DEF cow_quote
<1>5. /\ q.amount_in_raw = r.amount_in_raw
      /\ q.from_token = r.from_token
      /\ q.to_token = r.to_token
  BY <1>2 DEF validate_quote_consistency
<1>6. Malformed \notin {q.amount_in_raw, q.from_token, q.to_token}
  BY <1>2, <1>4
<1> HIDE DEF q
<1>7. AmountAgrees(r, p)
  <2>1. "sellAmount" \in DOMAIN p.quote /\ r.amount_in_raw = p.quote["sellAmount"].n
    BY <1>4, <1>5, <1>6, FieldRead
  <2>2. r.amount_in_raw \in Numbers(p, AmountFields)
    BY <2>1, <1>1, <1>3, FieldIsStated DEF ObjectNames, AmountFields
  <2> QED BY <2>2 DEF AmountAgrees, Agree
<1>8. ChainsAgree(r, p)
  <2>1. \A c \in ObjectNames \cap DOMAIN p : p[c] # None => DOMAIN p[c] \cap ChainFields = {}
    BY <1>3 DEF ObjectNames
  <2>2. Numbers(p, FromChainFields) = {} /\ Numbers(p, ToChainFields) = {}
    <3>1. \A c \in ObjectNames \cap DOMAIN p : p[c] # None => DOMAIN p[c] \cap FromChainFields = {}
      BY <2>1 DEF ChainFields
    <3>2. \A c \in ObjectNames \cap DOMAIN p : p[c] # None => DOMAIN p[c] \cap ToChainFields = {}
      BY <2>1 DEF ChainFields
    <3> QED BY <3>1, <3>2, NothingStated
  <2> QED BY <2>2 DEF ChainsAgree, Agree
<1>9. TokensAgree(r, p)
  <2>1. /\ "sellToken" \in DOMAIN p.quote /\ r.from_token = p.quote["sellToken"]
        /\ "buyToken" \in DOMAIN p.quote /\ r.to_token = p.quote["buyToken"]
    BY <1>4, <1>5, <1>6, FieldRead
  <2>2. r.to_token \in Stated(p, ToTokenFields)
    BY <2>1, <1>1, <1>3, FieldIsStated DEF ObjectNames, ToTokenFields
  <2>3. r.from_token \in Stated(p, FromTokenFields)
    BY <2>1, <1>1, <1>3, FieldIsStated DEF ObjectNames, FromTokenFields
  <2> QED BY <2>2, <2>3 DEF TokensAgree, Agree
<1> QED BY <1>7, <1>8, <1>9 DEF Answers

\* Every field of the merged view is stated by the answer; a field that
\* the view lacks is in neither object.
LEMMA UniswapView ==
    ASSUME OwnFields, NEW p \in UniswapReplies, NEW k
    PROVE  LET view == _merged_quote_view(p)
           IN  /\ k \in DOMAIN view =>
                    \E c \in {"inner", "outer"} :
                      p[c] # None /\ k \in DOMAIN p[c] /\ view[k] = p[c][k]
               /\ k \notin DOMAIN view =>
                    \A c \in {"inner", "outer"} : p[c] # None => k \notin DOMAIN p[c]
<1>1. p.outer # None
  BY DEF OwnFields
<1>2. CASE p.inner = None
  BY <1>1, <1>2 DEF _merged_quote_view
<1>3. CASE p.inner # None
  BY <1>1, <1>3 DEF _merged_quote_view, merged
<1> QED BY <1>2, <1>3

\* An answer that the Uniswap adapter accepts agrees with the request.
LEMMA UniswapAnswers ==
    ASSUME OwnFields, NEW r, NEW p \in UniswapReplies, uniswap_get_quote(r, p) # Malformed
    PROVE  Answers(r, p)
<1> DEFINE view == _merged_quote_view(p)
           q == uniswap_quote(r, view)
           amount_keys == <<"amount", "amountIn", "inputAmount">>
<1>1. SwapQuoteOf(r, q) # Malformed
  BY DEF uniswap_get_quote
<1>2. validate_quote_consistency(r, q) /\ \A f \in DOMAIN q : q[f] # Malformed
  BY <1>1, AcceptedFields
<1>3. /\ DOMAIN p = {"inner", "outer"}
      /\ \A c \in {"inner", "outer"} : p[c] # None =>
           /\ DOMAIN p[c] \cap ChainFields \subseteq {"tokenInChainId", "tokenOutChainId"}
           /\ \A k \in DOMAIN p[c] \cap ChainFields : p[c][k] # Null
  BY DEF OwnFields
<1>4. /\ q.amount_in_raw = _require_amount(view, amount_keys)
      /\ q.from_chain_id = _require_chain_id(view, "tokenInChainId")
      /\ q.to_chain_id = _require_chain_id(view, "tokenOutChainId")
      /\ q.from_token = require_string(view, "tokenIn")
      /\ q.to_token = require_string(view, "tokenOut")
      /\ {"amount_in_raw", "from_chain_id", "to_chain_id", "from_token", "to_token"}
           \subseteq DOMAIN q
  <2> HIDE DEF view
  <2> QED BY DEF uniswap_quote
<1>5. /\ q.amount_in_raw = r.amount_in_raw
      /\ q.from_chain_id = r.chain_id
      /\ q.to_chain_id = _request_to_chain_id(r)
      /\ q.from_token = r.from_token
      /\ q.to_token = r.to_token
  BY <1>2 DEF validate_quote_consistency
<1>6. Malformed \notin {q.amount_in_raw, q.from_chain_id, q.to_chain_id, q.from_token, q.to_token}
  BY <1>2, <1>4
<1> HIDE DEF q
<1>7. ASSUME NEW k \in DOMAIN view, NEW keys, k \in keys
      PROVE  view[k] \in Stated(p, keys) /\ view[k].n \in Numbers(p, keys)
  <2>1. PICK c \in {"inner", "outer"} : p[c] # None /\ k \in DOMAIN p[c] /\ view[k] = p[c][k]
    BY UniswapView
  <2> HIDE DEF view
  <2> QED BY <2>1, <1>3, <1>7, FieldIsStated DEF ObjectNames
<1>8. AmountAgrees(r, p)
  <2>1. /\ DOMAIN amount_keys = 1..3 /\ DOMAIN amount_keys \in SUBSET Nat
        /\ \A i \in DOMAIN amount_keys : amount_keys[i] \in AmountFields
    BY DEF AmountFields
  <2> HIDE DEF amount_keys, view
  <2>2. _require_amount(view, amount_keys) # Malformed
    BY <1>4, <1>6
  <2>3. PICK i \in DOMAIN amount_keys :
               /\ amount_keys[i] \in DOMAIN view
               /\ _require_amount(view, amount_keys) = view[amount_keys[i]].n
    BY <2>1, <2>2, AmountRead
  <2>4. r.amount_in_raw \in Numbers(p, AmountFields)
    BY <2>1, <2>3, <1>4, <1>5, <1>7
  <2> QED BY <2>4 DEF AmountAgrees, Agree
<1>9. ASSUME NEW key \in {"tokenInChainId", "tokenOutChainId"},
             NEW fields, fields \subseteq ChainFields,
             fields \cap {"tokenInChainId", "tokenOutChainId"} = {key},
             _require_chain_id(view, key) # Malformed
      PROVE  Agree(Numbers(p, fields), _require_chain_id(view, key))
  <2>1. CASE key \in DOMAIN view
    <3> DEFINE keys == <<key, "chainId">>
               v == first(view, keys, LAMBDA x : x # Null)
    <3>1. view[key] # Null
      <4>1. PICK c \in {"inner", "outer"} :
                   p[c] # None /\ key \in DOMAIN p[c] /\ view[key] = p[c][key]
        BY <2>1, UniswapView
      <4> HIDE DEF view
      <4> QED BY <4>1, <1>3, <1>9
    <3>2. v # None /\ _require_chain_id(view, key) = v.n
      <4> HIDE DEF view
      <4> QED BY <1>9 DEF _require_chain_id
    <3>3. /\ DOMAIN keys = 1..2 /\ DOMAIN keys \in SUBSET Nat
          /\ keys[1] = key
      OBVIOUS
    <3>4. \E i \in DOMAIN keys :
             /\ v = view[keys[i]]
             /\ \A j \in DOMAIN keys : keys[j] \in DOMAIN view /\ view[keys[j]] # Null => i <= j
      <4> HIDE DEF keys, view
      <4> QED BY <3>2, <3>3, FirstNotNull
    <3> HIDE DEF keys, view, v
    <3>5. v = view[key]
      BY <3>1, <3>3, <3>4, <2>1
    <3>6. key \in fields
      BY <1>9
    <3> QED BY <3>2, <3>5, <3>6, <2>1, <1>7 DEF Agree
  <2>2. CASE key \notin DOMAIN view
    <3>1. \A c \in {"inner", "outer"} : p[c] # None => key \notin DOMAIN p[c]
      BY <2>2, UniswapView
    <3>2. \A c \in ObjectNames \cap DOMAIN p : p[c] # None => DOMAIN p[c] \cap fields = {}
      <4> HIDE DEF view
      <4> QED BY <3>1, <1>3, <1>9 DEF ObjectNames
    <3> QED BY <3>2, NothingStated DEF Agree
  <2> QED BY <2>1, <2>2
<1>10. ChainsAgree(r, p)
  <2>1. /\ FromChainFields \cap {"tokenInChainId", "tokenOutChainId"} = {"tokenInChainId"}
        /\ ToChainFields \cap {"tokenInChainId", "tokenOutChainId"} = {"tokenOutChainId"}
        /\ FromChainFields \subseteq ChainFields /\ ToChainFields \subseteq ChainFields
    BY DEF FromChainFields, ToChainFields, ChainFields
  <2> HIDE DEF view
  <2> QED BY <2>1, <1>4, <1>5, <1>6, <1>9 DEF ChainsAgree
<1>11. TokensAgree(r, p)
  <2> HIDE DEF view
  <2>1. /\ "tokenIn" \in DOMAIN view /\ r.from_token = view["tokenIn"]
        /\ "tokenOut" \in DOMAIN view /\ r.to_token = view["tokenOut"]
    BY <1>4, <1>5, <1>6, FieldRead
  <2>2. r.from_token \in Stated(p, FromTokenFields) /\ r.to_token \in Stated(p, ToTokenFields)
    BY <2>1, <1>7 DEF FromTokenFields, ToTokenFields
  <2> QED BY <2>2 DEF TokensAgree, Agree
<1> QED BY <1>8, <1>10, <1>11 DEF Answers

\* So it is for every provider the router may choose.
LEMMA AdapterAnswers ==
    ASSUME OwnFields, NEW provider, NEW r, NEW p \in Replies(provider),
           get_quote_of(provider, r, p) # Malformed
    PROVE  Answers(r, p)
<1>1. CASE provider = "lifi"
  BY <1>1, LifiAnswers DEF Replies, get_quote_of
<1>2. CASE provider = "cowswap"
  BY <1>2, CowAnswers DEF Replies, get_quote_of
<1>3. CASE provider \notin {"lifi", "cowswap"}
  BY <1>3, UniswapAnswers DEF Replies, get_quote_of
<1> QED BY <1>1, <1>2, <1>3

\* Every step keeps AnswerInv: get_quote is the only one that stores an
\* answer, and no other changes the request.
LEMMA AnswerNext ==
    ASSUME OwnFields
    PROVE  AnswerInv /\ [Next]_vars => AnswerInv'
<1> SUFFICES ASSUME AnswerInv, [Next]_vars, stage' \in Quoted
             PROVE  Answers(request, raw)'
  BY DEF AnswerInv
<1>1. CASE get_quote
  <2> DEFINE provider == provider_for(intent.provider_preference)
  <2>1. PICK p \in Replies(provider) :
           get_quote_of(provider, request, p) # Malformed /\ raw' = p
    BY <1>1 DEF get_quote, Goto, Quoted, Prepared
  <2>2. Answers(request, p)
    BY <2>1, AdapterAnswers
  <2>3. request' = request
    BY <1>1 DEF get_quote
  <2>4. PICK r : r = request
    OBVIOUS
  <2> QED BY <2>1, <2>2, <2>3, <2>4
<1>2. CASE ~get_quote
  <2>1. stage \in Quoted /\ UNCHANGED <<request, raw>>
    <3> USE DEF At, Goto, Quoted, Prepared
    <3>1. CASE make_request
      BY <3>1 DEF make_request
    <3>2. CASE check_swap_allowance
      BY <3>2 DEF check_swap_allowance
    <3>3. CASE build_execution
      BY <3>3 DEF build_execution
    <3>4. CASE pipeline
      BY <3>4 DEF pipeline
    <3>5. CASE Tick
      BY <3>5 DEF Tick
    <3>6. CASE UNCHANGED vars
      BY <3>6 DEF vars
    <3> QED BY <1>2, <3>1, <3>2, <3>3, <3>4, <3>5, <3>6 DEF Next
  <2>2. Answers(request, raw)
    BY <2>1 DEF AnswerInv
  <2> QED BY <2>1, <2>2 DEF Answers, AmountAgrees, ChainsAgree, TokensAgree, Numbers, Stated,
                                Objects, _request_to_chain_id
<1> QED BY <1>1, <1>2

\* A provider cannot change the deal: if its answer states an amount, a
\* token or a chain, then nothing is prepared from it unless it states the
\* one the caller asked for.  It holds for every answer in which a provider
\* uses the field names of its own API.
THEOREM DealIsTheRequest ==
    ASSUME OwnFields
    PROVE  Spec => []AnswerIsForTheRequest
<1>1. Init => AnswerInv
  BY DEF Init, AnswerInv, Quoted, Prepared
<1>2. DealInv /\ AnswerInv => AnswerIsForTheRequest
  <2> SUFFICES ASSUME DealInv, AnswerInv, stage \in Prepared
               PROVE  AnswerIsForTheRequest
    BY DEF AnswerIsForTheRequest
  <2>1. Answers(request, raw) /\ request = SwapQuoteRequest(intent) /\ ~intent_refused(intent)
    BY DEF AnswerInv, DealInv, Quoted
  <2>2. /\ request.chain_id = intent.chain
        /\ request.to_token = intent.to_token
        /\ request.from_token = intent.from_token
        /\ request.from_token_is_native <=> intent.from_token = ZERO_ADDRESS
        /\ request.to_chain_id = IF intent.to_chain # None THEN intent.to_chain
                                 ELSE intent.to_chain_id
    BY <2>1 DEF SwapQuoteRequest
  <2>3. _request_to_chain_id(request) =
          IF intent.to_chain_id # None THEN intent.to_chain_id
          ELSE IF intent.to_chain # None THEN intent.to_chain ELSE intent.chain
    <3>1. intent.to_chain = None \/ intent.to_chain_id = None \/ intent.to_chain = intent.to_chain_id
      BY <2>1 DEF intent_refused
    <3> QED BY <2>2, <3>1 DEF _request_to_chain_id
  <2>4. \A keys : StatedIn(keys) = Stated(raw, keys) /\ StatedNumbers(keys) = Numbers(raw, keys)
    BY DEF StatedIn, StatedNumbers, Stated, Numbers
  <2>5. /\ Agree(StatedNumbers(AmountFields), request.amount_in_raw)
        /\ Agree(StatedNumbers(FromChainFields), request.chain_id)
        /\ Agree(StatedNumbers(ToChainFields),
                 IF intent.to_chain_id # None THEN intent.to_chain_id
                 ELSE IF intent.to_chain # None THEN intent.to_chain ELSE intent.chain)
        /\ Agree(StatedIn(ToTokenFields), intent.to_token)
        /\ intent.from_token # ZERO_ADDRESS =>
             Agree(StatedIn(FromTokenFields), intent.from_token)
    BY <2>1, <2>2, <2>3, <2>4 DEF Answers, AmountAgrees, ChainsAgree, TokensAgree
  <2> HIDE DEF StatedIn, StatedNumbers
  <2> QED BY <2>5 DEF AnswerIsForTheRequest, Agree, AmountFields, FromChainFields,
                      ToChainFields, FromTokenFields, ToTokenFields
<1> QED BY <1>1, <1>2, AnswerNext, DealKept, PTL DEF Spec

=============================================================================
