--------------------------- MODULE TransferPipeline ---------------------------
(***************************************************************************)
(* The native and the ERC20 graph of mercury/graph/agent.py: their         *)
(* preparation nodes (nodes_native.py, nodes_erc20.py) and builders        *)
(* (tools/native_transactions.py, tools/erc20_transactions.py) in front of *)
(* the transaction pipeline.                                               *)
(*                                                                         *)
(* The builders read balances and allowances long before the transaction   *)
(* is signed; the policy rules later judge the metadata the builder wrote, *)
(* with the caller's own metadata merged over it, and not the calldata.    *)
(***************************************************************************)
EXTENDS TransactionPipeline, Amounts, FiniteSetsExt

CONSTANTS
    TransferIntents,    \* TransferIntents[r]: what the caller of run r may send
    Token,              \* the ERC20 contract
    TokenDecimals,      \* what the contract answers to decimals()
    NativeDecimals,     \* 18
    MAX_UINT256,
    InitialBalance,     \* of every wallet, in either asset
    InitialAllowance    \* of every wallet for every spender

\* The keywords "max" and "unlimited" of _approval_amount.
UnlimitedText == [form |-> "other", negative |-> FALSE, coefficient |-> 0, exponent |-> 0]

\* The metadata keys that a policy rule reads.  The caller may send any key;
\* one that no rule reads changes nothing here.
Overrides ==
    {"action", "token_address", "recipient_address", "spender_address",
     "unlimited_approval", "amount_raw_is_max", "provider", "slippage_bps"}

MetadataValue ==
    Actions \cup MetadataAddress \cup BOOLEAN \cup SwapProviderName \cup Nat

\* `party' is the recipient or the spender; `metadata' the keys of the
\* intent's metadata that the policy rules read.
TransferIntent ==
    [kind                     : {"native_transfer", "erc20_transfer", "erc20_approval"},
     wallet_id                : Wallets,
     chain                    : ChainMatch,
     party                    : Addresses,
     amount                   : AmountText,
     amount_in_smallest_units : BOOLEAN,
     allow_unlimited          : BOOLEAN,
     idempotency_key          : Keys \cup {None},
     approval_response        : ApprovalResponse \cup {NoResponse},
     metadata                 : UNION {[O -> MetadataValue] : O \in SUBSET Overrides}]

AllIntents == UNION {TransferIntents[r] : r \in Runs}

ASSUME TransferAssumption ==
    /\ Token \in Addresses
    /\ "simulate_transaction" \in Faults
    /\ {TokenDecimals, NativeDecimals, MAX_UINT256, InitialBalance, InitialAllowance} \subseteq Nat
    /\ DOMAIN TransferIntents = Runs
    /\ \A i \in AllIntents :
         /\ DOMAIN i = {"kind", "wallet_id", "chain", "party", "amount",
                        "amount_in_smallest_units", "allow_unlimited", "idempotency_key",
                        "approval_response", "metadata"}
         /\ i.kind \in {"native_transfer", "erc20_transfer", "erc20_approval"}
         /\ i.wallet_id \in Wallets /\ i.party \in Addresses /\ i.amount \in AmountText
         /\ DOMAIN i.metadata \subseteq Overrides

VARIABLES
    intent,     \* intent[r]: what the caller of run r asked for
    call,       \* call[r]: what the prepared transaction does on the chain
    balance,    \* environment: balance[asset][address]
    allowance   \* environment: allowance[owner][spender] of Token

transfer_vars == <<intent, call, balance, allowance>>
all_vars == <<vars, transfer_vars>>

Assets == {"native", "token"}
NoCall == [asset |-> "native", effect |-> "none", party |-> ZERO_ADDRESS, amount |-> 0]

-----------------------------------------------------------------------------
(* The builders.                                                           *)

\* _erc20_amount_for_precondition, and from_human for native amounts.
transfer_amount(i) ==
    IF i.kind = "native_transfer" THEN parse_units(i.amount, NativeDecimals)
    ELSE IF i.amount_in_smallest_units THEN parse_integer_raw_amount(i.amount)
    ELSE parse_units(i.amount, TokenDecimals)

\* The decimals the amount of an intent is read in.
intent_decimals(i) ==
    CASE i.amount_in_smallest_units /\ i.kind # "native_transfer" -> 0
      [] i.kind = "native_transfer"                               -> NativeDecimals
      [] OTHER                                                    -> TokenDecimals

\* _approval_amount.
_approval_amount(i) ==
    IF i.amount = UnlimitedText
    THEN IF i.allow_unlimited THEN MAX_UINT256 ELSE Error
    ELSE transfer_amount(i)

\* What each builder computes: the raw amount.
raw_amount(i) == IF i.kind = "erc20_approval" THEN _approval_amount(i) ELSE transfer_amount(i)

\* prepare_native_transfer raises.
native_transfer_refused(i) ==
    \/ i.chain = "unsupported"
    \/ i.party \in {ZERO_ADDRESS, i.wallet_id}
    \/ raw_amount(i) <= 0

\* Mutant: the builder leaves self-transfers to the policy.
erc20_transfer_refused_no_self_check(i) ==
    \/ i.party = ZERO_ADDRESS
    \/ raw_amount(i) <= 0
    \/ raw_amount(i) > MAX_UINT256
    \/ balance["token"][i.wallet_id] < raw_amount(i)

\* check_erc20_transfer_preconditions or encode_erc20_transfer_data raises.
erc20_transfer_refused(i) ==
    \/ i.party \in {ZERO_ADDRESS, i.wallet_id}
    \/ raw_amount(i) <= 0
    \/ raw_amount(i) > MAX_UINT256
    \/ balance["token"][i.wallet_id] < raw_amount(i)

\* check_erc20_approval_preconditions, prepare_erc20_approval or
\* encode_erc20_approval_data raises.  Revoking (a zero amount) always works.
erc20_approval_refused(i) ==
    LET raw == raw_amount(i)
    IN  \/ i.party = ZERO_ADDRESS
        \/ raw \notin 0..MAX_UINT256
        \/ raw = MAX_UINT256 /\ ~i.allow_unlimited
        \/ raw > 0 /\ allowance[i.wallet_id][i.party] >= raw

refused(i) ==
    CASE i.kind = "native_transfer" -> native_transfer_refused(i)
      [] i.kind = "erc20_transfer"  -> erc20_transfer_refused(i)
      [] i.kind = "erc20_approval"  -> erc20_approval_refused(i)

\* The transaction and the metadata the builder gives it.
built(i) ==
    LET native   == i.kind = "native_transfer"
        approval == i.kind = "erc20_approval"
    IN  [chain              |-> i.chain,
         from_address       |-> i.wallet_id,
         to                 |-> IF native THEN i.party ELSE Token,
         value_wei          |-> IF native THEN raw_amount(i) ELSE 0,
         data               |-> IF native THEN "0x" ELSE IF approval THEN "approve" ELSE "transfer",
         gas                |-> 0,
         has_key            |-> i.idempotency_key # None,
         action             |-> i.kind,
         token_address      |-> IF native THEN None ELSE Token,
         recipient_address  |-> IF approval THEN None ELSE i.party,
         spender_address    |-> IF approval THEN i.party ELSE None,
         unlimited_approval |-> approval /\ raw_amount(i) = MAX_UINT256,
         amount_raw_is_max  |-> ~native /\ raw_amount(i) = MAX_UINT256,
         provider           |-> None,
         slippage_bps       |-> None]

\* merge_intent_metadata_into_prepared: the caller's keys win, whichever they are.
merge_intent_metadata_into_prepared(tx, metadata) ==
    [field \in DOMAIN tx |-> IF field \in DOMAIN metadata THEN metadata[field] ELSE tx[field]]

prepared(i) ==
    [wallet_id |-> i.wallet_id, idempotency_key |-> i.idempotency_key, nonce |-> None,
     gas |-> None, approval_response |-> i.approval_response,
     tx |-> merge_intent_metadata_into_prepared(built(i), i.metadata)]

\* The call data and value, which no metadata changes.
encoded(i) ==
    [asset  |-> IF i.kind = "native_transfer" THEN "native" ELSE "token",
     effect |-> IF i.kind = "erc20_approval" THEN "approve" ELSE "transfer",
     party  |-> i.party, amount |-> raw_amount(i)]

TransferRequests == {prepared(i) : i \in {j \in AllIntents : raw_amount(j) >= 0}}

\* The conversions answer with a number of units or raise.
ASSUME TransferRequestAssumption ==
    /\ Requests = TransferRequests
    /\ \A i \in AllIntents : raw_amount(i) \in Nat \cup {Error}

-----------------------------------------------------------------------------
(* The preparation node and the chain.                                     *)

TransferInit ==
    /\ request = [r \in Runs |-> CHOOSE q \in Requests : TRUE]   \* nothing prepared yet
    /\ Init
    /\ intent \in [Runs -> AllIntents] /\ \A r \in Runs : intent[r] \in TransferIntents[r]
    /\ call = [r \in Runs |-> NoCall]
    /\ balance = [asset \in Assets |->
                    [a \in Addresses |-> IF a \in Wallets THEN InitialBalance ELSE 0]]
    /\ allowance = [w \in Wallets |-> [s \in Addresses |-> InitialAllowance]]

\* prepare_native_transaction and prepare_erc20_transaction with their route.
prepare_transfer(r) ==
    LET i == intent[r]
    IN  /\ At(r, "prepare_transaction")
        /\ \/ /\ ~refused(i)
              /\ request' = Set(request, r, prepared(i))
              /\ call' = Set(call, r, encoded(i))
              /\ Goto(r, "resolve_nonce")
              /\ UNCHANGED error
           \/ /\ refused(i) \/ MayFail("prepare_transaction")
              /\ error' = Set(error, r, TRUE)
              /\ Goto(r, "reject_transaction")
              /\ UNCHANGED <<request, call>>
        /\ UNCHANGED <<nonce, gas, checks, outcome, records, chain, intent, balance, allowance>>

\* The chain can execute r's call in its present state.
Executable(r) ==
    call[r].effect = "transfer" => balance[call[r].asset][wallet(r)] >= call[r].amount

\* A simulation executes the call on the state of the chain.
graph_node(r) ==
    /\ Step(r)
    /\ At(r, "simulate_transaction") /\ simulation_result'[r] = "passed" => Executable(r)
    /\ UNCHANGED transfer_vars

Moved(b, c, w) == [b EXCEPT ![c.asset][w] = @ - c.amount, ![c.asset][c.party] = @ + c.amount]

\* A transaction the chain cannot execute reverts; another may.
MineTransfer(r) ==
    /\ Mine(r)
    /\ chain'[r] = "mined" => Executable(r)
    /\ balance' = IF chain'[r] = "mined" /\ call[r].effect = "transfer"
                  THEN Moved(balance, call[r], wallet(r)) ELSE balance
    /\ allowance' = IF chain'[r] = "mined" /\ call[r].effect = "approve"
                    THEN [allowance EXCEPT ![wallet(r)][call[r].party] = call[r].amount]
                    ELSE allowance
    /\ UNCHANGED <<intent, call>>

TransferNext ==
    \/ \E r \in Runs : prepare_transfer(r) \/ graph_node(r) \/ MineTransfer(r)
    \/ Terminated /\ UNCHANGED transfer_vars

TransferSpec == TransferInit /\ [][TransferNext]_all_vars

-----------------------------------------------------------------------------
(* Properties.                                                             *)

\* The builders refuse all that the engine's own rules refuse: a transfer or
\* approval prepared without overrides of the caller is rejected by an ERC20
\* or native rule only for being unlimited, so the two layers of checks
\* agree (tools/erc20_transactions.py, policy/rules.py).
BuildersAgreeWithRules ==
    \A r \in Runs :
        /\ call[r] # NoCall /\ DOMAIN intent[r].metadata = {}
        /\ \/ erc20_policy_reason(request[r].tx, Config)
           \/ native_transfer_policy_reason(request[r].tx)
        => intent[r].kind = "erc20_approval" /\ raw_amount(intent[r]) = MAX_UINT256

\* A prepared transaction moves or grants exactly what the amount of the
\* intent denotes, in the decimals of the asset or in smallest units: no
\* digit is lost to the precision of a decimal context, however long the
\* text, and no amount is cut to the decimals (models/amounts.py).
PreparedAmountIsExact ==
    \A r \in Runs :
        LET i == intent[r]
        IN  call[r] # NoCall /\ i.amount # UnlimitedText =>
              Denotes(i.amount.coefficient, i.amount.exponent + intent_decimals(i), call[r].amount)

\* A balance that was shown to the user can be sent back in full: the text
\* of every balance the transfers lead to parses to that balance, so that
\* ERC20Amount accepts the pair (models/amounts.py, tools/erc20.py).
ShownBalanceReadsBack ==
    \A asset \in Assets, a \in Addresses :
        LET decimals == IF asset = "native" THEN NativeDecimals ELSE TokenDecimals
            raw == balance[asset][a]
        IN  amount_pair_valid(format_units(raw, decimals), decimals, raw)

\* What a wallet lost is what its callers asked for, once per key: retries
\* and concurrent runs of a key, for whatever amount and asset, debit the
\* wallet once, by the exact amount of the intent that got through, and a
\* reverted transaction debits nothing.
DebitedOncePerKey ==
    \A w \in Wallets :
        LET paid(k) == {r \in Runs : /\ chain[r] = "mined" /\ key(r) = k /\ wallet(r) = w
                                     /\ call[r].effect = "transfer"}
            once(k) == IF paid(k) = {} THEN 0 ELSE raw_amount(intent[CHOOSE r \in paid(k) : TRUE])
            lost(asset) == InitialBalance - balance[asset][w]
        IN  MapThenSumSet(lost, Assets) = MapThenSumSet(once, Keys)

\* With the default configuration a wallet grants an unlimited allowance
\* only when the metadata of the caller replaces the action, so that no ERC20
\* rule looks at it, or both of the builder's marks: the flag and the raw
\* amount are tested each for itself, and no other key of the metadata, no
\* spelling of the amount and no allow_unlimited gets one through.
\* "Unlimited ERC20 approvals are rejected by default." (README.md, Safety
\* Guarantees; policy/rules.py, graph/request_metadata.py)
UnlimitedRejectedByDefault ==
    \A r \in Runs :
        LET overridden == DOMAIN intent[r].metadata
        IN  /\ Config = DefaultPolicyConfig
            /\ chain[r] # "absent" /\ call[r].effect = "approve"
            /\ "action" \notin overridden
            /\ ~({"unlimited_approval", "amount_raw_is_max"} \subseteq overridden)
            => call[r].amount < MAX_UINT256

=============================================================================
