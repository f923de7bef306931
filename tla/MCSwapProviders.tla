--------------------------- MODULE MCSwapProviders ---------------------------
(***************************************************************************)
(* Instances of SwapProviders for TLC.  Every provider has one answer that *)
(* is accepted, and variations of it: another value for one field, a field *)
(* left out, stated twice, or in another form.                             *)
(***************************************************************************)
EXTENDS SwapProviders, TLC

CONSTANTS zero, w1, friend, usdc, weth, router1

MCAddresses == {zero, w1, friend, usdc, weth, router1}
MCConfig == DefaultPolicyConfig

\* 1: ethereum; 2: base; 3: a chain without wrapped native metadata or CoW
\* slug; 9: not registered.
MCRegistered == {1, 2, 3}
MCWrapped == {1, 2}
MCCow == {1, 2}
MCChains == {1, 2, 3, 9}

Num(n) == [form |-> "int", n |-> n]
Text(n) == [form |-> "text", n |-> n]
As(form, n) == [form |-> form, n |-> n]
Junk == As("junk", 0)

Plain ==
    [chain |-> 1, to_chain |-> None, to_chain_id |-> None, from_token |-> usdc,
     to_token |-> weth, amount_raw |-> 5, max_slippage_bps |-> 50, min_amount_out |-> FALSE,
     recipient_address |-> None, wallet_address |-> w1, provider_preference |-> None]

Preferring(provider) == [Plain EXCEPT !.provider_preference = provider]

\* A plain swap at every provider, a bridge named in each way, a native
\* sale, a recipient, a wanted minimum, and intents that are refused.
MCIntents ==
    {Preferring(p) : p \in SwapProviderName \cup {None}}
    \cup {[Preferring(p) EXCEPT !.to_chain_id = 2] : p \in SwapProviderName}
    \cup {[Preferring(p) EXCEPT !.min_amount_out = TRUE] : p \in SwapProviderName}
    \cup {[Preferring(p) EXCEPT !.from_token = zero] : p \in SwapProviderName}
    \cup {[Preferring(p) EXCEPT !.chain = 3] : p \in SwapProviderName}
    \cup {[Plain EXCEPT !.to_chain = 2], [Plain EXCEPT !.to_chain = 2, !.to_chain_id = 2],
          [Plain EXCEPT !.to_chain = 2, !.to_chain_id = 3], [Plain EXCEPT !.to_chain_id = 1],
          [Plain EXCEPT !.to_chain_id = 9], [Plain EXCEPT !.from_token = weth],
          [Plain EXCEPT !.chain = 3, !.from_token = zero],
          [Plain EXCEPT !.recipient_address = friend],
          [Plain EXCEPT !.max_slippage_bps = None], [Plain EXCEPT !.max_slippage_bps = 101],
          [Plain EXCEPT !.amount_raw = 0]}

\* The object with a field set, and with a field left out.
With(object, key, value) == (key :> value) @@ object
Without(object, key) == [k \in DOMAIN object \ {key} |-> object[k]]
Variants(object, key, values) ==
    {With(object, key, v) : v \in values} \cup {Without(object, key)}

Expiries ==
    {Num(11), Text(12), As("padded", 12), As("ms", 12), As("iso", 11), As("fraction", 110000),
     Num(0), Text(0), Junk}
Amounts == {Num(4), Text(5), As("padded", 5), Num(-5), Junk}
Numbers == {Num(1), Text(2), As("padded", 1), Num(3), Num(9), Junk}

MCTransaction == [to |-> router1, value |-> Text(0)]
Transactions ==
    {MCTransaction, Without(MCTransaction, "value"), Without(MCTransaction, "to"),
     With(MCTransaction, "to", BadAddress), With(MCTransaction, "value", Num(-1)), None}

LifiAction == [fromChainId |-> Num(1), toChainId |-> Num(1), fromToken |-> usdc, toToken |-> weth]
LifiEstimate ==
    [fromAmount |-> Text(5), toAmount |-> Text(400), toAmountMin |-> Text(398),
     approvalAddress |-> router1]
LifiReply ==
    [action |-> LifiAction, body |-> [id |-> router1], estimate |-> LifiEstimate,
     transaction |-> MCTransaction]
LifiBridge == [LifiReply EXCEPT !.action = With(@, "toChainId", Num(2))]

MCLifiReplies ==
    {LifiReply, LifiBridge, [LifiReply EXCEPT !.action = None],
     [LifiReply EXCEPT !.action = With(With(@, "toChainId", Num(3)), "fromChainId", Num(3))]}
    \cup {[LifiReply EXCEPT !.action = a] :
            a \in Variants(LifiAction, "fromChainId", Numbers)
                  \cup Variants(LifiAction, "toChainId", Numbers)
                  \cup Variants(LifiAction, "fromToken", {weth, zero, BadAddress})
                  \cup Variants(LifiAction, "toToken", {usdc, BadAddress})
                  \cup Variants(LifiAction, "validUntil", Expiries)}
    \cup {[LifiReply EXCEPT !.estimate = e] :
            e \in Variants(LifiEstimate, "fromAmount", Amounts)
                  \cup Variants(LifiEstimate, "toAmount", {Num(0), Num(397), Junk})
                  \cup Variants(LifiEstimate, "toAmountMin", {Num(1), Num(401), Junk})
                  \cup Variants(LifiEstimate, "approvalAddress", {friend, BadAddress})
                  \cup Variants(LifiEstimate, "expiresAt", Expiries)}
    \cup {[LifiReply EXCEPT !.body = With(@, "fromAmount", Num(4))],
          [LifiReply EXCEPT !.body = With(@, "spender", friend)],
          [LifiReply EXCEPT !.body = With(@, "expiresAt", Num(11)),
                            !.estimate = With(@, "expiresAt", Junk)]}
    \cup {[LifiReply EXCEPT !.transaction = t] : t \in Transactions}

CowQuote ==
    [sellToken |-> usdc, buyToken |-> weth, sellAmount |-> Text(5), buyAmount |-> Text(400),
     validTo |-> Num(12)]
CowReply == [body |-> [vaultRelayer |-> router1], quote |-> CowQuote, typed_data |-> TRUE]

MCCowReplies ==
    {CowReply, [CowReply EXCEPT !.quote = None], [CowReply EXCEPT !.typed_data = FALSE],
     [CowReply EXCEPT !.body = Without(@, "vaultRelayer")],
     [CowReply EXCEPT !.body = With(@, "spender", BadAddress)]}
    \cup {[CowReply EXCEPT !.quote = q] :
            q \in Variants(CowQuote, "sellToken", {weth})
                  \cup Variants(CowQuote, "buyToken", {usdc})
                  \cup Variants(CowQuote, "sellAmount", Amounts)
                  \cup Variants(CowQuote, "buyAmount", {Num(0), Num(-1), Junk})
                  \cup Variants(CowQuote, "validTo", Expiries)
                  \cup Variants(CowQuote, "allowanceTarget", {friend})}

UniswapInner ==
    [tokenInChainId |-> Num(1), tokenOutChainId |-> Num(1), tokenIn |-> usdc, tokenOut |-> weth,
     amount |-> Text(5), amountOut |-> Text(400), minAmountOut |-> Text(398)]
UniswapOuter == [permit2Address |-> router1, deadline |-> Num(12)]
UniswapReply == [inner |-> UniswapInner, outer |-> UniswapOuter]

MCUniswapReplies ==
    {UniswapReply, [inner |-> None, outer |-> UniswapInner @@ UniswapOuter],
     [UniswapReply EXCEPT !.inner =
        With(Without(Without(@, "tokenInChainId"), "tokenOutChainId"), "chainId", Text(1))],
     [UniswapReply EXCEPT !.inner = With(@, "tokenOutChainId", Num(2))]}
    \cup {[UniswapReply EXCEPT !.inner = q] :
            q \in Variants(UniswapInner, "tokenInChainId", Numbers)
                  \cup Variants(UniswapInner, "tokenOutChainId", Numbers)
                  \cup Variants(UniswapInner, "tokenIn", {weth, BadAddress})
                  \cup Variants(UniswapInner, "tokenOut", {usdc})
                  \cup Variants(UniswapInner, "amount", Amounts)
                  \cup Variants(UniswapInner, "amountOut", {Num(0), Num(397), Junk})
                  \cup Variants(UniswapInner, "minAmountOut", {Num(1), Junk})
                  \cup Variants(UniswapInner, "slippageBps", {Num(100), Text(101), Num(10001), Junk})
                  \cup Variants(UniswapInner, "slippageTolerance",
                                {As("fraction", 100), As("fraction_text", 101), Num(1), Text(60),
                                 Text(10001), Junk})}
    \cup {[UniswapReply EXCEPT !.outer = o] :
            o \in Variants(UniswapOuter, "permit2Address", {friend, BadAddress})
                  \cup Variants(UniswapOuter, "deadline", Expiries)
                  \cup Variants(UniswapOuter, "amount", {Num(4)})}

=============================================================================
