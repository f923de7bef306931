----------------------------- MODULE PolicyEngine -----------------------------
(***************************************************************************)
(* The transaction risk policy of mercury/policy: TransactionPolicyEngine  *)
(* (risk.py) over the rules of rules.py and swap_rules.py.  Everything     *)
(* here is a pure function of a transaction, its simulation and the        *)
(* engine's configuration, so the module declares no variable.             *)
(*                                                                         *)
(* A transaction is a record with the fields the rules read.  Addresses    *)
(* are already normalised (PreparedTransaction and ExecutableTransaction   *)
(* normalise `to' and `from_address' when they are built, so the rule      *)
(* "Recipient address is invalid" can never fire on them); the addresses   *)
(* kept in `metadata' are not, so those may be None (missing) or           *)
(* BadAddress (not parseable).  `data' keeps only what the rules tell      *)
(* apart: empty calldata, a full-length transfer or approve call, or       *)
(* anything else.                                                          *)
(***************************************************************************)
EXTENDS Integers, MercuryModels

CONSTANTS
    Addresses,       \* normalised EVM addresses, the zero address included
    ZERO_ADDRESS,
    BadAddress       \* a metadata value normalize_evm_address refuses

ASSUME AddressAssumption ==
    /\ ZERO_ADDRESS \in Addresses
    /\ None \notin Addresses
    /\ BadAddress \notin Addresses \cup {None}

-----------------------------------------------------------------------------
(* Values the rules tell apart.                                            *)

CallData == {"0x", "transfer", "approve", "other"}
Actions == {"erc20_transfer", "erc20_approval", "native_transfer", "swap"}
ChainMatch == {"match", "unsupported", "mismatch"}
MetadataAddress == Addresses \cup {None, BadAddress}

\* The part of an ExecutableTransaction the rules read: its own fields down
\* to `has_key', and the keys of its metadata.  `action' is None when there is
\* none or one that no rule knows; `unlimited_approval' tells whether that key
\* is True, `amount_raw_is_max' whether amount_raw is MAX_UINT256.
PolicyTransaction ==
    [chain              : ChainMatch,
     from_address       : Addresses \cup {None},
     to                 : Addresses,
     value_wei          : Nat,
     data               : CallData,
     gas                : Nat,
     has_key            : BOOLEAN,
     action             : Actions \cup {None},
     token_address      : MetadataAddress,
     recipient_address  : MetadataAddress,
     spender_address    : MetadataAddress,
     unlimited_approval : BOOLEAN,
     amount_raw_is_max  : BOOLEAN,
     provider           : SwapProviderName \cup {None},
     slippage_bps       : Nat \cup {None}]

\* Configuration of the engine and of its SwapPolicyConfig.
PolicyConfig ==
    [max_gas_limit                    : Nat \cup {None},
     reject_unlimited_erc20_approvals : BOOLEAN,
     reject_erc20_self_transfers      : BOOLEAN,
     allowed_providers                : SUBSET SwapProviderName,
     max_slippage_bps                 : Nat,
     allow_bridges                    : BOOLEAN]

\* The values the constructors default to.
DefaultPolicyConfig ==
    [max_gas_limit                    |-> None,
     reject_unlimited_erc20_approvals |-> TRUE,
     reject_erc20_self_transfers      |-> TRUE,
     allowed_providers                |-> SwapProviderName,
     max_slippage_bps                 |-> 100,
     allow_bridges                    |-> TRUE]

-----------------------------------------------------------------------------
(* rules.py.  Each rule is the condition under which it returns a reason.  *)

is_value_moving(tx) == tx.value_wei > 0 \/ tx.data # "0x"

unsupported_chain_reason(tx) == tx.chain # "match"

invalid_transaction_reason(tx) == is_value_moving(tx) /\ ~tx.has_key

simulation_failure_reason(simulation) == simulation # "passed"

excessive_gas_reason(tx, config) ==
    config.max_gas_limit # None /\ tx.gas > config.max_gas_limit

\* _metadata_address raises on these.  A raise outside the try of a rule
\* leaves evaluate() as an exception, which the graph node turns into a
\* rejection: for the caller both are a rejection.
Unreadable(address) == address \in {None, BadAddress}

erc20_transfer_reason(tx, config) ==
    /\ tx.action = "erc20_transfer"
    /\ \/ Unreadable(tx.token_address)
       \/ tx.to # tx.token_address
       \/ tx.value_wei # 0
       \/ tx.data # "transfer"
       \/ Unreadable(tx.recipient_address)
       \/ tx.recipient_address = ZERO_ADDRESS
       \/ /\ config.reject_erc20_self_transfers
          /\ tx.recipient_address = tx.from_address

\* Mutant: the rule trusts the builder's mark and ignores amount_raw.
erc20_approval_policy_reason_mark_only(tx, config) ==
    /\ tx.action = "erc20_approval"
    /\ \/ Unreadable(tx.token_address)
       \/ tx.to # tx.token_address
       \/ tx.value_wei # 0
       \/ tx.data # "approve"
       \/ Unreadable(tx.spender_address)
       \/ tx.spender_address = ZERO_ADDRESS
       \/ config.reject_unlimited_erc20_approvals /\ tx.unlimited_approval

erc20_approval_policy_reason(tx, config) ==
    /\ tx.action = "erc20_approval"
    /\ \/ Unreadable(tx.token_address)
       \/ tx.to # tx.token_address
       \/ tx.value_wei # 0
       \/ tx.data # "approve"
       \/ Unreadable(tx.spender_address)
       \/ tx.spender_address = ZERO_ADDRESS
       \/ /\ config.reject_unlimited_erc20_approvals
          /\ tx.unlimited_approval \/ tx.amount_raw_is_max

erc20_policy_reason(tx, config) ==
    erc20_transfer_reason(tx, config) \/ erc20_approval_policy_reason(tx, config)

native_transfer_policy_reason(tx) ==
    /\ tx.action = "native_transfer"
    /\ \/ tx.value_wei = 0
       \/ tx.data # "0x"
       \/ Unreadable(tx.recipient_address)
       \/ tx.to # tx.recipient_address
       \/ tx.recipient_address = ZERO_ADDRESS
       \/ tx.recipient_address = tx.from_address

\* swap_rules.py: the rule of the generic pipeline.
swap_transaction_policy_reason(tx, config) ==
    /\ tx.action = "swap"
    /\ \/ tx.provider = None
       \/ tx.provider \notin config.allowed_providers
       \/ Unreadable(tx.spender_address)
       \/ tx.recipient_address = BadAddress
       \/ tx.slippage_bps # None /\ tx.slippage_bps > config.max_slippage_bps

\* The three *_approval_reason rules: which actions always need a human.
approval_reason(tx) ==
    tx.action \in {"erc20_transfer", "erc20_approval", "native_transfer", "swap"}

-----------------------------------------------------------------------------
(* risk.py: TransactionPolicyEngine.evaluate.                              *)

rejection_reason(tx, simulation, config) ==
    \/ unsupported_chain_reason(tx)
    \/ invalid_transaction_reason(tx)
    \/ simulation_failure_reason(simulation)
    \/ excessive_gas_reason(tx, config)
    \/ erc20_policy_reason(tx, config)
    \/ native_transfer_policy_reason(tx)
    \/ swap_transaction_policy_reason(tx, config)

evaluate(tx, simulation, config) ==
    IF rejection_reason(tx, simulation, config) THEN "rejected"
    ELSE IF approval_reason(tx) \/ is_value_moving(tx) THEN "needs_approval"
    ELSE "allowed"

=============================================================================
