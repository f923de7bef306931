\* Two threads, every answer, transport faults, the legacy call.
SPECIFICATION Spec
CONSTANTS
    None = None
    Readers = {r1, r2}
    Vault <- MCVault
    AgentIds = {"agent", None}
    MaxTokens = 5
    MaxExpiries = 3
    Faults = {"auth", "get"}
SYMMETRY ReaderSymmetry
INVARIANTS
    OneRetry
    MissingKeyIsMissing
    OneExpiryIsAbsorbed
