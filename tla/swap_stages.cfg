\* Three runs of two swap intents.
CONSTANTS
    None = None
    BadAddress = BadAddress
    k1 = k1
    k2 = k2
    w1 = w1
    zero = zero
    router1 = router1
    router2 = router2
    r1 = r1
    r2 = r2
    r3 = r3
    Token = Token
    ZERO_ADDRESS = zero
    Addresses <- MCAddresses
    SwapKeys = {k1, k2}
    Keys <- MCKeys
    Wallets = {w1}
    Runs = {r1, r2, r3}
    Requests <- SwapRequests
    Intents <- StageIntents
    Quotes <- StageQuotes
    Executions <- StageExecutions
    MaxAllowance = 1
    GasEstimates = {1}
    MaxNonce = 3
    Config <- MCConfig
    Faults <- StageFaults
SPECIFICATION SwapSpec
SYMMETRY RunSymmetry
INVARIANTS
    LayersAgree
    OneSwapPerIntent
    ResultMatchesStage
