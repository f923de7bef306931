CONSTANTS
    confirmations = 2
    timeout_seconds = 2
    ConfirmSeconds = 2
    MaxBlock = 4
    MaxReorg = 1
    RpcMayFail = TRUE
SPECIFICATION WaitFairSpec
CHECK_DEADLOCK FALSE
INVARIANTS
    ReportIsTheFate
PROPERTIES
    WaitReturns
    ConfirmedIsDeepOrLate
