CONSTANTS
    None = None
    BadAddress = BadAddress
    k1 = k1
    k2 = k2
    w1 = w1
    w2 = w2
    zero = zero
    ZERO_ADDRESS = zero
    Addresses = {w1, w2, zero}
    Keys = {k1, k2}
    Wallets = {w1}
    Runs = {r1, r2, r3}
    Requests <- MCRequests
    GasEstimates = {1}
    MaxNonce = 3
    MaxRestarts = 2
    Config <- MCConfig
    Faults <- MCFaults
SPECIFICATION RestartSpec
SYMMETRY RunSymmetry
INVARIANTS
    OneSubmissionPerProcess
