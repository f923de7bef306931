---------------------------- MODULE MercuryModels ----------------------------
(***************************************************************************)
(* The enumerations and result values of mercury/models that several       *)
(* components share.                                                       *)
(***************************************************************************)
CONSTANT None   \* Python's None

ExecutionStatus == {"pending", "confirmed", "failed", "rejected", "approval_denied"}
PolicyDecisionStatus == {"allowed", "needs_approval", "rejected"}
ApprovalStatus == {"approved", "denied", "required"}
SimulationStatus == {"passed", "failed"}
SwapProviderName == {"lifi", "cowswap", "uniswap"}

\* An ExecutionResult, and the value of a result that is None.
ExecutionResult(status, tx_hash) == [status |-> status, tx_hash |-> tx_hash]
NoResult == [status |-> "none", tx_hash |-> None]

=============================================================================
