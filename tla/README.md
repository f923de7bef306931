# Verification of the Mercury agentic wallet

Mercury turns structured intents (read balances, transfer, approve, swap) into
LangGraph runs. Reads are stateless. Value moves through one *transaction
pipeline* that must never sign what policy or the user refused and never submit
twice for one idempotency key, although runs execute concurrently in worker
threads, callers retry, and every RPC call may fail. This directory holds TLA+
models of that core and of the layers around it (request boundary, Juno tool,
builders, swap providers, custody client, webhook), the TLC runs that check them,
and TLAPS proofs, for all values of the constants, of every safety property the
passing runs check.

## 1. Inventory

| Component (source under `mercury/`) | State it keeps | Operations | What makes it correct |
|---|---|---|---|
| Transaction pipeline (`graph/nodes_transaction.py`, `graph/agent.py`, `graph/router.py`) | the `MercuryState` of a run: error, nonce, gas, simulation, decision, approval, signed transaction, hash, result | the ten graph nodes | nothing is signed around a gate; one submission per key; what is reported is recorded and true |
| Idempotency store (`policy/idempotency.py`) | `_records`, shared by all runs of a process, under a lock | `reserve`, `release`, `complete` | a reservation has one owner; a completed record is final |
| Policy engine (`policy/risk.py`, `policy/rules.py`) | none | `evaluate` over ordered rules | rejects before it asks for approval; value never moves unattended |
| Swap policy (`policy/swap_rules.py`) | none | quote, execution and transaction rules | the layers agree |
| Swap preparation (`graph/nodes_swaps.py`, `tools/swaps.py`, `swaps/router.py`) | none; reads quotes and the on-chain allowance | `prepare_swap` | stages (approval, swap) are not confused or repeated |
| Approver (`tools/transactions.py`) | none; reads the request's metadata | `request_approval` | an approval counts for its key only |
| Signer (`custody/signer.py`), 1Claw client (`custody/oneclaw.py`) | cached access token, unlocked | key loading, signing, token refresh | signs only for the wallet's own address; a read retries once, and one expired token does not fail it |
| EVM node (external, through `Web3TransactionBackend`) | nonces, mempool, blocks, allowances | count, estimate, call, send, receipt | environment |
| Webhook graph (`graph/webhook_graph.py`, `webhooks/`) | dedupe table with TTL and a size limit | classify, normalise, filter, dedupe, emit | an alert is emitted again only when the table has forgotten it; rows with different dedupe keys are never taken for one |
| Native and ERC20 preparation (`graph/nodes_native.py`, `graph/nodes_erc20.py`, `tools/*_transactions.py`) | none | build a transaction from an intent | what is built passes its own rule |
| Intent parsing, runtime, responses (`graph/intents.py`, `graph/intent_validation.py`, `graph/runtime.py`, `invoke.py`), ENS (`providers/ens.py`) | a cache of resolved names, shared by all requests | unwrap, validate, resolve names, select a graph, map the final state to a response | the layers that parse an intent agree; for a plainly spelled kind succeeded means done; a name is resolved for the chain of its operation |
| Read graph and data clients (`graph/nodes.py`, `tools/`, `alchemy/`) | none | one tool call per run; a transfer history is two calls | tools get inputs they can serve; a merged history has no holes its pages did not have |
| Swap providers (`swaps/`) | none; a remote service each | request a quote, normalise it, build the execution | what is accepted answers the request and is prepared before it expires |
| Juno tool and runner (`juno/`) | the session: user, wallet, last approval answer | `mercury_invoke`, `run_turn` | nothing is submitted that the user did not approve; answers are true and safe to retry |
| Amounts (`models/amounts.py`) | none | parse, format | exact, round trip |
| HTTP service, chains, known addresses | wiring and tables | | |

Interaction: a caller (`juno/runners.py` runs each turn in a worker thread)
invokes the runtime, which selects a graph; the preparation node of that graph
writes `prepared_transaction`, and the nodes of `_add_transaction_pipeline` follow:
nonce, gas, simulation, policy, approval, idempotency, sign, broadcast, monitor,
or reject. All graphs of a runtime share one idempotency store, and all runs of a
wallet share its nonces and allowances on the chain.

What is hard here: runs interleave between nodes while they share the store and
the nonces; every external call can fail, and a failed broadcast or wait leaves
open whether the transaction is out; retries meet reservations and outcomes of
earlier runs; a swap takes two invocations whose order depends on chain state. An
intent is parsed by several layers with rules of their own; approvals and quotes are
older than the step that uses them; the token cache, the name cache and the dedupe
table are shared without locks, expiry or room for everything; remote replies have
any shape and order.
`PROJECT.json` lists each hazard at its line under `hazards`.

## 2. Modules

| Module | Models |
|---|---|
| `MercuryModels` | shared enumerations and `ExecutionResult` |
| `PolicyEngine` | `risk.py`, `rules.py` and the transaction rule of `swap_rules.py`, as predicates over the fields the rules read |
| `IdempotencyStore` | the store; each method is atomic because of its lock |
| `TransactionPipeline` | the pipeline: one action per node, and the EVM node as environment |
| `IdempotentExecution` | abstract: what the pipeline promises about a key (claim, abandon, submit, settle) |
| `PipelineRefinement` | the mapping under which the pipeline implements `IdempotentExecution` |
| `SwapPolicy` | the quote and execution rules of `swap_rules.py` |
| `SwapPipeline` | the swap graph: `prepare_swap_transaction` in front of the pipeline's own actions, with allowances |
| `PipelineRestart` | the pipeline in a process that ends and is started again: the store and the running graphs are lost, the chain is not |
| `ReceiptWait` | `wait_for_receipt` and `_wait_for_confirmations`, step by step, with new blocks, replaced blocks and time: what stands behind the single step `monitor_receipt` |
| `TransferPipeline` | native and ERC20 builders field by field in front of the pipeline's own actions, with balances and allowances; uses `Amounts` |
| `Amounts` | `models/amounts.py` with the rounding of Python's decimal contexts |
| `SwapProviders` | the LiFi, Uniswap and CoW adapters over replies of any shape, quote consistency, the two policy checks and the clock; uses `SwapPolicy` |
| `IntentModels`, `InvokeRouting` | the intent models as functions of a payload; the request from the boundary to the response: validation, ENS resolution with its cache, graph selection, routing, read graph |
| `JunoTurn` | Juno's tool calls around the pipeline's own actions: session approval, boundary, error codes, classification of the answer |
| `OneClawClient` | the custody client, one action per read or write of its unlocked cache |
| `AlchemyWebhook` | the endpoint, the webhook graph and the dedupe store |
| `TransferHistory` | the two calls of a transfer history, the merge and the cut, with a growing history |
| `MC*` | instances for TLC, one per specification |
| `TransactionPipelineProofs` | theorems about the pipeline, in lemmas that leave the preparation node open, and about `PipelineRestart` and `ReceiptWait` |
| `TransferPipelineProofs`, `SwapPipelineProofs`, `JunoTurnProofs` | theorems about what is composed with the pipeline; each extends `TransactionPipelineProofs` |
| `SwapProvidersProofs`, `OneClawProofs`, `InvokeRoutingProofs` | theorems about modules of their own |
| `AlchemyProofs` | theorems about `AlchemyWebhook` and about `TransferHistory` |

**State.** `pc[r]` is the node run `r` executes next; `error`, `simulation_result`,
`policy_decision`, `approval_result`, `signed_transaction`, `tx_hash` and
`execution_result` are the keys of its `MercuryState` with these names; `nonce` and
`gas` are the resolved fields of its prepared and executable transaction;
`request[r]` is what preparation produced. `records` is the store. `chain[r]` is
the fate of the transaction `r` signed, and a transaction hash is identified with
that run.

**Actions.** Each node is one action with all the writes of its handler, the
`except` branch included; its guard is the edge that leads to it. A run keeps
flowing `sign -> broadcast -> monitor` after a failure, as the unconditional edges
do, and the skip guards (`execution_result is not None`) are disjuncts. Nodes touch
shared state at most once (one store method or one RPC call that matters), so a
node is a faithful unit of interleaving.

**Environment.** `lookup_nonce` answers the pending nonce at the time of the call;
`Accept` takes a signed transaction unless its nonce is mined and displaces a waiting one of
the same nonce; `Mine` includes transactions in nonce order, as success or revert.
`Faults` names the calls that may raise. `lost_reply` is the case in which the
node takes the transaction and the call raises all the same.

**Data.** Addresses, keys and wallets are model values. Calldata is reduced to
empty, a well-formed transfer, a well-formed approve, or anything else: the rules
tell no more apart. Wording of reasons and errors is left out. `PreparedTransaction`
and `ExecutableTransaction` normalise addresses when they are built, and the
models of `models/swaps.py` refuse inconsistent quotes, so rules that test this
again cannot fire.

**The layers around the pipeline.** `JunoTurn`, `TransferPipeline`, `SwapPipeline`
and `PipelineRestart` extend `TransactionPipeline` and take its node actions
unchanged; they replace the preparation node, or add what happens before and after
the graph. A payload of the boundary is a function from field names to values, so that
nesting, aliases, padding and missing fields are told apart, and nothing else of a
text is. A provider reply is a function from the fields the adapter reads to scalars of each
kind the adapter tells apart (missing, wrong type, number, address; for an expiry also
padded digits, fractions, milliseconds and ISO dates). `SwapPipeline` judges the quote and
the transaction by one `Config`: the code injects two, and `service/dependencies.py` leaves
both at their defaults. Its intents carry no metadata but the approval; what other metadata
does to a rule is the subject of `TransferPipeline`. `OneClawClient` breaks
`_bearer_for_agent`, `_fetch_access_token` and `_invalidate_access_token` into single reads
and writes, since threads interleave between them; `mark_if_new` of the webhook is one
step, because the endpoint runs on one event loop and does not await inside the graph.
An alert carries the fields the graph compares and, as `transfer`, the rest of its row.

**Mutants.** Operators marked *Mutant* in the modules are never used by the
specification. Each stands for a plausible mistake in the definition after it, and
shows that the property named in `PROJECT.json` notices the mistake.

## 3. Runs

| Run | Instance | Checks |
|---|---|---|
| `pipeline_safety` | 3 runs of one wallet, 5 requests over 2 keys, every fault, lost replies included | `TypeOK`, `ReservationHasOneHolder`, `OneHashPerKey`, `SubmittedOnlyThroughGates`, `ReportedHashIsRecorded`, `ReportedOutcomeIsTrue`, `CompletedIsFinal` |
| `juno_turns` | 2 tool calls that may overlap, 2 keys, approvals for either, 4 faults, fairness | `SubmittedOnlyIfTapped`, `SuccessIsOnChain`, `ErrorsAreSafeToRetry`, `CallsAreAnswered`, `ReservationsResolve` |
| `swap_stages` | 3 runs of 2 intents, 4 quotes, 3 kinds of execution, 3 faults | `LayersAgree`, `OneSwapPerIntent`, `ResultMatchesStage` |
| `swap_providers` | every reply shape of three providers, a clock | `AnswerIsForTheRequest`, `BridgeOnlyThroughLifi`, `PreparedBeforeExpiry` |
| `transfers` | 1 run of any builder intent beside 2 transfers of the same wallet, 3 faults | `BuildersAgreeWithRules`, `UnlimitedRejectedByDefault`, `PreparedAmountIsExact`, `ShownBalanceReadsBack`, `DebitedOncePerKey`, `AtMostOneSubmission`, `ImplementsIdempotentExecution` |
| `intent_routing` | every kind in every accepted spelling; 2 requests with names, 2 chains, records that change | `PlainSucceededMeansDone`, `SecondParseAgrees`, `ToolInputIsServable`, `NameResolvedForItsChain` |
| `webhook` | 4 deliveries, table of 2, TTL, a restart | `ReemittedOnlyWhenForgotten`, `StoreIsBoundedAndOrdered`, `AcceptedIsEmitted` |
| `oneclaw` | 2 threads, 3 expiries, failing calls | `OneRetry`, `MissingKeyIsMissing`, `OneExpiryIsAbsorbed` |
| `pipeline_restart` | 3 runs, 2 keys, 2 restarts, 3 faults | `OneSubmissionPerProcess` |
| `receipt_wait` | 4 blocks, 2 confirmations, the newest block may be replaced, fairness | `ReportIsTheFate`, `WaitReturns`, `ConfirmedIsDeepOrLate` |
| `transfer_history` | 4 transfers, pages of 1 or 2, failing replies | `NewestAreComplete` |
| `lost_reply` | 2 runs of one key | **violates** `AtMostOneSubmission` |

What they show:

- *`pipeline_safety`.* Whatever fails and however runs overlap, a key in flight has
  one holder, at most one hash is ever reported for a key, a completed record never
  changes, and nothing reaches the chain around policy, approval or the store. A
  result with a hash is the recorded one and names a transaction that the node took;
  confirmed means mined with success, for replays too; rejected and denied mean that the
  run submitted nothing. Failed and pending do not tell the fate: the wait may have raised
  while the transaction was waiting.
- *`juno_turns`.* The user's approval is in the session, and the call that uses it may
  be an earlier or later one than it was given for; still, only keys the user approved
  are spent. An answer of success is on the chain. An error answered after the
  transaction was accepted leaves the key completed, so that a retry cannot submit again,
  and a missing approval has signed nothing. Every call is answered, and every
  reservation is released or completed.
- *`swap_stages`.* A swap takes an approval and a swap, each under a key of its own.
  What the swap rules of preparation let through, the rules of the pipeline let through
  too; retries swap once per intent; and a result belongs to the stage it is reported for.
- *`swap_providers`.* A reply with missing, doubled, padded or mistyped fields is
  refused, or is a quote for the tokens, amount and chains asked for; only LiFi bridges;
  nothing is prepared from an expired quote.
- *`transfers`.* What a builder builds passes its own rule; the default policy keeps an
  unlimited approval off the chain unless the caller's metadata replaces the action or
  both of the builder's marks; amounts reach the calldata
  exactly although Python's decimal context rounds, and a formatted balance reads back
  as the same amount; each key debits once; and the composition of builders, pipeline
  and store implements `IdempotentExecution`.
- *`intent_routing`.* The boundary, the selector of the graph, the router and the graph
  each parse the intent. What validation accepted, the later parses neither refuse nor
  change. Succeeded means that the tool or the pipeline ran, for reads in every spelling
  and for value-moving requests in plain form (flat, key `kind`, no blanks). Tools get
  chains, counts and networks they can serve. Names of an operation are resolved for its chain,
  also through the cache.
- *`webhook`*, *`oneclaw`*, *`transfer_history`*, *`pipeline_restart`*,
  *`receipt_wait`.* What the hand-written table, cache, merge, process and wait promise
  when deliveries repeat, tokens expire, histories grow, the process ends, or blocks
  are replaced. `receipt_wait` also justifies the single step `monitor_receipt`:
  `WaitReturns` is the fairness that `JunoTurn` assumes, `ReportIsTheFate` the set
  `receipt_statuses`.

**The disagreement found.** `broadcast_transaction` treats every exception as "nothing
was submitted" and frees the key. If only the reply was lost, a retry submits again:
`lost_reply` shows it. `AtMostOneSubmission` holds without that fault (`transfers`, and
theorems `AtMostOnce` and `TransferredOnce`).

**Behaviour to know of.** The models follow the code in these points, and the
properties above are stated so as to respect them:

- The store is consulted last: a replay that no longer passes simulation or policy is
  answered `rejected`, not with the recorded outcome.
- The replay of a completed swap finds the allowance used up and submits an approval
  under `K:approval`.
- `SwapPolicyConfig.allow_bridges` defaults to true, while `README.md:225` and
  `README.md:576` of the repository call bridge routes rejected by default: under the
  default configuration of `swap_providers` a cross-chain intent is prepared from a LiFi
  bridge, and `BridgeOnlyThroughLifi` says only that no other adapter bridges.
- The expiry of a quote is checked during preparation and not again before signing.
  LiFi and CoW quotes carry the slippage of the request, not one of their own.
- Metadata of an intent overrides every key the builder derived. The approval rule is
  chosen by `action`, and tests `unlimited_approval` and `amount_raw`, so metadata that
  replaces the first or both of the others hides an unlimited approval from it.
  `UnlimitedRejectedByDefault` excludes exactly these callers; a replaced token,
  recipient, spender, provider or single mark does not suffice.
- A failed wait is stored as `failed` with the hash of a transaction that may still be
  mined; a retry of the key replays it.
- `_wait_for_confirmations` ends silently at its deadline, hence the second half of
  `ConfirmedIsDeepOrLate`.
- A value-moving kind with blanks around it selects a transaction graph whose router
  does not know it; one that is nested, or under the key `type` or `intent`, goes to the
  read graph, because the validated fields that are written back have no `kind`. Both are
  answered `succeeded` with nothing done; `PlainSucceededMeansDone` is about the other
  spellings.
- A portfolio resolves its name for the default chain, and the cache of names has no
  expiry.
- The error object of a gated response is classified before its status, so Juno
  answers an error and no prompt. An intent's own wallet and metadata win over the
  session's.
- A full dedupe table forgets alerts before their TTL ends: `ReemittedOnlyWhenForgotten`
  counts eviction as forgetting.
- A token that another thread clears between test and use is sent as `None` and costs
  the one retry; a 404 on that retry is reported as unavailable, not as missing.

**Bounds.** Two runs with one key already show every conflict about a reservation; the
third adds a retry that meets the outcome of a race of two, or a stranger of the same
wallet that competes for nonces. `MaxNonce` is at least the number of transactions the
runs can submit, so it cuts no behaviour. One wallet is the hard case, since
wallets share nothing but the store. `CoreRequests` has retries of a key (one approved
for another key), a second key, an unattended run and one without a key. In `swap_stages`
amounts are 1 and allowances start at 0 or 1, so both stages occur. Where a run takes
some of the faults only, it is one for each different effect on store and chain.
In `transfers` the decimal context has one digit and a token one decimal, so that
amounts below, at and above the precision are small; the code's formulas for the
precision are kept, and balance and allowance do not cover all transfers. Payload and
reply shapes are enumerated over one value of each kind that the code tells apart. Two
restarts suffice for a submission in each of three processes. In `receipt_wait`
deadlines of two units leave room for a poll before, at and after the confirming
block. A dedupe table of two overflows with the third alert, as one of 50,000 does with
the 50,001st. Four transfers on pages of one or two are enough for a transaction with a
row in each leg next to one that only one of the pages holds. Runs and readers are
interchangeable where the instance treats them alike, hence the symmetry in four
safety runs; there is none in the runs with fairness.

**Fairness.** `JunoFairSpec` assumes weak fairness of the nodes of a started graph
and of the turn that answers: LangGraph drives a graph to its end in the worker thread
of the call, and each backend call returns or raises (RPC calls have timeouts;
`receipt_wait` checks that the receipt wait ends). `WaitFairSpec` of `ReceiptWait` assumes
that the waiting thread runs and time passes. Nothing obliges a caller to start or repeat
a run, or the chain to mine a transaction. A process that is killed is outside these
assumptions; `PipelineRestart` claims safety only.

**Deadlock** is checked in the runs of the pipeline and of what is composed with it, and
in `oneclaw`; `Terminated` is the intended end there. In `intent_routing`, `webhook`,
`swap_providers`, `receipt_wait` and `transfer_history` requests, time or
replies simply run out.

## 4. Proofs

The theorems hold for all constants that satisfy the named assumptions of the
modules, which TLC evaluates on the instances of the runs. The assumptions type the
constants (`None` is no identifier, status, token or provider; wallets are addresses;
requests, intents, deliveries, configuration and faults have their types; an address is
no ENS name, and the records of names hold addresses; the `chains` and `networks` of a
request are lists or missing, as their type in the intent models demands) and bound what
is counted (finitely many readers).

| Module | Theorem | States | Hypothesis |
|---|---|---|---|
| `TransactionPipelineProofs` | `TypeCorrect` | `TypeOK` | |
| | `OneHolder` | `ReservationHasOneHolder` | |
| | `OneHash` | `OneHashPerKey` | |
| | `CompletedForGood` | `CompletedIsFinal` | |
| | `AtMostOnce` | `AtMostOneSubmission` | no lost reply |
| | `Gated` | `SubmittedOnlyThroughGates` | |
| | `HashIsRecorded` | `ReportedHashIsRecorded` | |
| | `OutcomeIsTrue` | `ReportedOutcomeIsTrue` | |
| | `ImplementsLedger` | `ImplementsIdempotentExecution` | no lost reply |
| | `OncePerProcess` | `OneSubmissionPerProcess` | no lost reply |
| | `FateReported` | `ReportIsTheFate` | |
| | `DeepOrLate` | `ConfirmedIsDeepOrLate` | |
| `TransferPipelineProofs` | `BuildersAgree` | `BuildersAgreeWithRules` | |
| | `NoUnlimited` | `UnlimitedRejectedByDefault` | |
| | `AmountsAreExact` | `PreparedAmountIsExact` | `PowersOfTen` |
| | `BalancesReadBack` | `ShownBalanceReadsBack` | `PowersOfTen`; decimals within `MAX_DECIMALS` |
| | `OneDebitPerKey` | `DebitedOncePerKey` | no lost reply; `SpendsOutside`; finitely many keys |
| | `TransferredOnce` | `AtMostOneSubmission` of `TransferSpec` | no lost reply |
| | `TransfersImplementLedger` | `ImplementsIdempotentExecution` of `TransferSpec` | no lost reply |
| `SwapPipelineProofs` | `Layers` | `LayersAgree` | |
| | `OneSwap` | `OneSwapPerIntent` | no lost reply |
| | `StageReported` | `ResultMatchesStage` | no key is the approval key of another |
| | `SwapsImplementLedger` | `ImplementsIdempotentExecution` of `SwapSpec` | no lost reply |
| `JunoTurnProofs` | `TappedOnly` | `SubmittedOnlyIfTapped` | `AnswersNameTheirKey` |
| | `SuccessIsReal` | `SuccessIsOnChain` | |
| | `RetriesAreSafe` | `ErrorsAreSafeToRetry` | no lost reply |
| | `TurnsImplementLedger` | `ImplementsIdempotentExecution` of `JunoSpec` | no lost reply |
| `SwapProvidersProofs` | `DealIsTheRequest` | `AnswerIsForTheRequest` | `OwnFields` |
| | `BridgeIsLifi` | `BridgeOnlyThroughLifi` | |
| | `ValidWhenPrepared` | `PreparedBeforeExpiry` | |
| `OneClawProofs` | `RetriedOnce` | `OneRetry` | |
| | `ExpiryAbsorbed` | `OneExpiryIsAbsorbed` | |
| | `MissingIsMissing` | `MissingKeyIsMissing` | |
| `InvokeRoutingProofs` | `ToolInputsServable` | `ToolInputIsServable` | |
| | `SecondParse` | `SecondParseAgrees` | `NoneIsNoFunction` |
| | `SucceededMeansDone` | `PlainSucceededMeansDone` | `NoneIsNoFunction`, `RequestsWrapOnce` |
| | `NamesResolved` | `NameResolvedForItsChain` | `NoneIsNoFunction`, `RequestsWrapOnce` |
| `AlchemyProofs` | `RememberedLongEnough` | `ReemittedOnlyWhenForgotten` | |
| | `StoreForgetsByAge` | `StoreIsBoundedAndOrdered` | |
| | `NothingSwallowed` | `AcceptedIsEmitted` | `KeysNameAlerts` |
| | `HistoryIsComplete` | `NewestAreComplete` | |

**Hypotheses.** *No lost reply* (`"lost_reply" \notin Faults`) is the premise the code
itself relies on: an exception from `eth_sendRawTransaction` means that nothing was
submitted. Run `lost_reply` shows that it is needed. `StageReported` excludes a caller
who names a key `K:approval` while another uses `K`, since the two would share a record.
`AnswersNameTheirKey` excludes session text without a key and metadata of an intent's own,
two known ways to approve without naming what is approved (both are listed under
`hazards`). `OwnFields` says that a provider's answer uses the field names of its API:
a LiFi token is text in the action, CoW Swap states no chain, Uniswap states none under
LiFi's names. A field that an adapter never reads could otherwise state anything.
`SpendsOutside` says that no wallet of the service pays another one: the money that comes
in would show in the balance of the second, and `DebitedOncePerKey` counts debits.
`RequestsWrapOnce` excludes an intent inside an intent inside an intent, of which the
layers unwrap different numbers. `KeysNameAlerts` excludes two different rows of one
transaction that carry neither a log index nor a trace address: both get the index `na`,
and the store takes the second for the first. The instances of the runs satisfy all of
these. That the decimals of a token are within `MAX_DECIMALS` is what
`validate_token_decimals` enforces; a token outside them has no balance to show.

Two hypotheses are no restriction. `PowersOfTen` states what exponentiation is, for
which the provers have no rule. `NoneIsNoFunction` says that the model value `None` is
not a function, which TLA+ leaves open and TLC cannot evaluate.

**The pipeline.** The graphs differ in their preparation node only, so the lemmas are
about `PipelineStep`, in which `Preparation` may write any request, error and decision of
its own run. Every other step leaves store and chain alone, reserves, submits, gives
the key back or settles it (`EffectOfStep`); an invariant is proved once for each of these
five effects, and the proofs about the composed graphs cite the same lemmas.

- *Reservations.* `ReservationHasOneHolder` is not inductive: broadcast and monitor must
  know more about the run that takes them. `IInv` adds that a run has no result before
  the idempotency gate and no hash before monitor (`ControlInv`), that an in-flight record
  and its holder determine each other (`OwnerInv`), and that a hash outlives its run only
  as the hash of the completed record (`HashInv`). `CompletedForGood` follows because the
  holder's key is in flight whenever it releases or completes. `AtMostOnce` adds that
  whatever is on the chain has its hash known to its run (`SubmitInv`), which is exactly
  what a lost reply breaks.
- *Gates.* `GateInv` carries the verdict of the policy node forward: from
  `request_approval` on the executable transaction is not rejected, from
  `check_idempotency` on it is approved if it moves value, from `sign_transaction` on it
  has a key. It is stable because a run's request, gas and simulation do not change after
  the policy node, and nothing but `broadcast_transaction` submits.
- *Reports.* `ResultInv` ties every result with a hash to the record of its key, which
  `CompletedForGood` keeps; `OutcomeInv` ties a settled record to the chain, where a mined
  transaction stays mined. A replay copies the record and so inherits both.
- *Refinement.* `EntryInv` and `IInv` determine the abstract entry of a key. Reserve,
  submit, release and settle map to the four abstract actions, all else to stuttering.

**The layers around it.**

- *Restart.* The lost store breaks `HashInv`, so `RestartInv` counts the hashes of the present
  process only: a transaction of an earlier one has an earlier `boot`.
- *Transfers.* `CallInv` says what the builder of the intent's kind wrote into request and
  calldata, and survives because nobody rewrites a prepared transaction. Exactness
  rests on the decimal context being wide enough for the digits of the amount, so
  that rounding is the identity or the conversion raises; the same width makes a
  formatted balance read back, trailing zeros stripped or not. `LossInv` says that the
  balances of a wallet and the amounts of its paid keys sum to the same loss: a mined
  transfer adds its amount to both, and its key had none before because a key has one
  submission (`IInv`, `SubmitInv`).
- *Swaps.* `StageInv` says which stage a run prepared, from which quote, and under which
  key: `K` for the swap and its approval key otherwise. Submissions of one key are one by
  `IInv`; two runs of an intent in one stage share the key.
- *Juno.* `PhaseInv` orders a call (session, graph, answer), `TapInv` remembers that an
  approval which reached a request was given by the user for that key, `CodeInv` bounds
  the codes that a result or a record may carry, and `TurnInv` derives from status and
  code what the answer implies about the chain.
- *Providers.* `DealInv` states what models and quote policy established when the quote was
  accepted, without the clock, so that it survives the waits; `AnswerInv` adds what the
  raw answer states. One lemma per adapter follows each field from the reply through
  merging, fallback and parsing into the quote that `validate_quote_consistency`
  compares with the request.
- *Routing.* `RoutingInv` follows a request through its phases. While names are resolved
  the merged payload is that of the request with some names replaced by addresses their
  records have held; once the model accepted it, `canonical` is the model of that payload
  and `raw_input` the request rewritten with it. The proof rests on two facts: parsing
  what a parse produced gives it back (`ParseAgain`, for each kind and each field), and a
  resolved address is no name, so no field is resolved twice.
- *Receipt wait.* `WaitInv` says that the receipt the thread read is fresh unless its
  block was replaced, and that confirmations are counted from its block.
- *1Claw.* `TokenInv` and `RefusalOf` follow the life of a token: it is issued to one
  thread, stored once, and never comes back after it was overwritten or cleared. Whatever
  empties the cache goes back to an expired token that is gone, so a second refusal is that
  of another expired token or of a request without one. `CountInv` bounds the tokens by
  the fetches of first and second attempts.

- *Webhook.* A delivery is a loop over its rows, so `DedupeInv` is stated for a store and
  a log of emissions and holds after every row. Its heart is `Remembers`: an emission
  that is neither expired nor of an earlier process still has its key in the store, or
  was pushed out by `MaxEntries` other alerts. An eviction keeps it because it drops the
  entry inserted first, and every other entry of the full store stands for an alert
  emitted later.
- *Transfer history.* A page and a merge both list the first elements in an order
  (`Ranks`, `Lists`): a list that is not full holds everything, and a full one whatever
  is ahead of its last row. For a page the order is the age of the rows, for a merge that
  of the stable sort, after `unique` has kept one row of every transaction. `HistoryInv`
  says of each reply that it holds what the call asked for above its last block; rows
  that arrive between the two calls take nothing away, since a row of the history never
  changes and a transaction stays in one block.

**Folds and sums.** What a recursive function computes cannot be proved by induction here,
since the induction theorems of the library take an operator as parameter. Where a proof
needs it (the loop over the rows of a delivery, the sums over keys, the duplicates dropped
from a list, the digits of a number) the argument is a least counterexample: the set of
numbers at which the claim fails would have a least element (`WFMin`), which the step
before it refutes.

**Model-checked only:** liveness (`CallsAreAnswered`, `ReservationsResolve`,
`WaitReturns`), because TLAPS does not reason about fairness here. That the single step
`monitor_receipt` stands for the steps of `ReceiptWait` is an argument of this document,
not a theorem.

## 5. Not modelled

- Reorganisations in the pipeline itself: `mined` is final there. `ReceiptWait`
  has them.
- Several worker processes at once: `README.md` of the repository rules them out
  for the in-memory store; `PipelineRestart` covers one after the other.
- Portfolio and price clients: each reshapes one reply and keeps no state.
- What read tools return; the static address book; wiring of the service.
- Calldata of swaps, typed-data signing (it has no caller in the graphs),
  cryptography, wording of messages, redaction, logging.
- Rows of a transfer history without a readable block number.

## 6. Plan

1. Done: the pipeline with store and policy, its abstract specification, the swap
   graph, and the theorems above.
2. Done: builders, provider adapters, invoke boundary and names, Juno's tool calls,
   restart, receipt wait, webhook, custody client, amounts, transfer history.
3. Done: proofs of every safety property of the passing runs and of the refinement of
   the abstract ledger by the pipeline, the transfer and swap graphs and Juno's turns.
4. Open in the model: the abstract store that several worker processes need.
5. Open in the proofs: `monitor_receipt` as an abstraction of `ReceiptWait`.
