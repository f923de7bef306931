CONSTANTS
    None = None
    BadAddress = BadAddress
    Malformed = Malformed
    zero = zero
    w1 = w1
    friend = friend
    usdc = usdc
    weth = weth
    router1 = router1
    ZERO_ADDRESS = zero
    Addresses <- MCAddresses
    RegisteredChains <- MCRegistered
    WrappedNative <- MCWrapped
    CowChains <- MCCow
    Chains <- MCChains
    SwapIntents <- MCIntents
    LifiReplies <- MCLifiReplies
    CowReplies <- MCCowReplies
    UniswapReplies <- MCUniswapReplies
    UniswapSwapReplies <- Transactions
    Configured <- SwapProviderName
    PolicySettings <- MCConfig
    QuoteLifetime = 2
    RecentEpoch = 5
    Start = 10
    MaxTime = 12
SPECIFICATION Spec
INVARIANTS
    AnswerIsForTheRequest
    BridgeOnlyThroughLifi
PROPERTIES
    PreparedBeforeExpiry
CHECK_DEADLOCK FALSE
