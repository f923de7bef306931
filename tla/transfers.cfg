\* Every kind of intent beside two runs that spend from the same wallet.
CONSTANTS
    None = None
    BadAddress = BadAddress
    k1 = k1
    k2 = k2
    w1 = w1
    w2 = w2
    token = token
    zero = zero
    r1 = r1
    r2 = r2
    r3 = r3
    ZERO_ADDRESS = zero
    Addresses <- MCAddresses
    Keys = {k1, k2}
    Wallets = {w1}
    Runs = {r1, r2, r3}
    Requests <- TransferRequests
    GasEstimates = {1}
    MaxNonce = 3
    Config <- MCConfig
    Faults <- SomeFaults
    Prec = 1
    MAX_DECIMALS = 3
    TransferIntents <- MCIntents
    Token = token
    TokenDecimals = 1
    NativeDecimals = 1
    MAX_UINT256 = 63
    InitialBalance = 12
    InitialAllowance = 3
SPECIFICATION TransferSpec
INVARIANTS
    BuildersAgreeWithRules
    UnlimitedRejectedByDefault
    PreparedAmountIsExact
    ShownBalanceReadsBack
    DebitedOncePerKey
    AtMostOneSubmission
PROPERTIES
    ImplementsIdempotentExecution
