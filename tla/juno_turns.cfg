\* Two calls that may overlap; no symmetry under liveness.
CONSTANTS
    None = None
    BadAddress = BadAddress
    k1 = k1
    k2 = k2
    w1 = w1
    w2 = w2
    zero = zero
    r1 = r1
    r2 = r2
    ZERO_ADDRESS = zero
    Addresses <- MCAddresses
    Keys = {k1, k2}
    Wallets = {w1}
    Runs = {r1, r2}
    Requests <- MCRequests
    GasEstimates = {1}
    MaxNonce = 2
    Config <- MCConfig
    Faults <- TurnFaults
    RawApprovals <- Taps
    Sessions <- AnySession
    Intents <- Sloppy
    primary = w1
SPECIFICATION JunoFairSpec
INVARIANTS
    SubmittedOnlyIfTapped
    SuccessIsOnChain
    ErrorsAreSafeToRetry
PROPERTIES
    CallsAreAnswered
    ReservationsResolve
