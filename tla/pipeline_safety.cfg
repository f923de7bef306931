\* Three runs of a wallet, every fault.
CONSTANTS
    None = None
    BadAddress = BadAddress
    k1 = k1
    k2 = k2
    w1 = w1
    w2 = w2
    zero = zero
    r1 = r1
    r2 = r2
    r3 = r3
    ZERO_ADDRESS = zero
    Addresses <- MCAddresses
    Keys = {k1, k2}
    Wallets = {w1}
    Runs = {r1, r2, r3}
    Requests <- CoreRequests
    GasEstimates = {1}
    MaxNonce = 3
    Config <- MCConfig
    Faults <- AllFaults
SPECIFICATION Spec
SYMMETRY RunSymmetry
INVARIANTS
    TypeOK
    ReservationHasOneHolder
    OneHashPerKey
    SubmittedOnlyThroughGates
    ReportedHashIsRecorded
    ReportedOutcomeIsTrue
PROPERTIES
    CompletedIsFinal
