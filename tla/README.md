# Tollway in TLA+

Tollway lets agents pay services over Stellar by three settlement models: x402
per request, MPP charge, and MPP channels. This directory specifies the parts
of it where an order of events, a failure or a boundary decides whether money
is counted right, checks them with TLC on small instances, and proves the
central safety properties with TLAPS for instances of any size.

Everything is read from the code under `src/packages` and `src/apps`.
`PROJECT.json` names, for each definition, the source lines it stands for; it
also lists the runs, the mutations of the model that each property is known to
catch, the hazards of the code, and the findings.

- [1. The system](#1-the-system)
- [2. The modules and the code](#2-the-modules-and-the-code)
- [3. The runs](#3-the-runs)
- [4. Bounds](#4-bounds)
- [5. Fairness](#5-fairness)
- [6. What is proved](#6-what-is-proved)
- [7. Findings](#7-findings)
- [8. What is not modelled](#8-what-is-not-modelled)
- [9. Plan](#9-plan)
- [10. Running it](#10-running-it)

## 1. The system

    agent                                           service
    -----                                           -------
    client.pay()                                    framework adapter
      -> router.decide()  which model                 -> gate()   402, or settle and let through
      -> policy.check()   budgets, limits                 -> router.decide()
      -> settler.settle() ------ payment header --->      -> handler.verify(), handler.settle()  (facilitator)
      <- signed receipt  <------ response header ---      -> cache: get, acquire, set, release   (memory, Redis)
      -> verifyReceipt()                                  -> buildReceipt(), signReceipt()
      -> policy.record()                            channel manager: open, commit, close, shouldClose
      -> emit() to the agent's handlers               -> adapter (contract, signatures), store
                                                    reconciler: streams and receipts against settlements
    demo: one run of the above, both sides          observability hub: emit() to handlers and webhooks; metrics
    dashboard: receipts, channels, agents pages

All of it is TypeScript on an event loop: within a process code is atomic
between two `await`s and anything may run at an `await`. Gates of several
processes meet only in Redis. Nothing but Redis outlives a process.

| Component | State | Operations | Talks to |
|---|---|---|---|
| payment gate, `server/src/gate.ts` | `inFlight` (key to promise), per gate | `gate(request)` | cache, facilitator, MPP charge handler, router, signer, `onCacheError` |
| settlement cache, `server/src/cache.ts` | entries with a TTL; locks with a TTL (Redis only) | `get`, `set`, `acquire`, `release` | Redis |
| facilitator client, `server/src/facilitator.ts`, `mpp-charge.ts` | none | `verify`, `settle`, `supported` | the facilitator, over HTTP |
| channel manager, `channels/src/manager.ts`, `store.ts` | channel records, commitment streams | `open`, `commit`, `close`, `shouldClose`, `get`, `list` (`recover` is a stub) | channel adapter |
| policy engine, `core/src/policy.ts` | daily, total and per-service spend, last reset day, a window of recent payments | `check`, `record` | the clock |
| agent client, `client/src/index.ts` | event handlers | `pay`, `on` | router, policy engine, settler, verifier, handlers |
| model router, `core/src/router.ts` | none | `decide` | |
| receipt format, `core/src/receipt/` | a signer's key pair; a verifier's trusted keys | build, sign, verify, `generate` | |
| reconciler, `reconcile/src/index.ts` | none | `reconcileChannel`, `reconcileCharge` | |
| observability hub, `observability/src/index.ts` | handlers, webhook subscriptions, metrics | `on`, `addWebhook`, `emit`; `record`, `summarize`, `export` | handlers, subscribers over HTTP, `onDeliveryFailure` |
| framework adapters, `adapter-*/src/index.ts` | none beyond the request under way | the middleware or wrapper of each framework | gate, route handler, framework |
| demo, `apps/demo/src` | the configuration | `resolveDemoConfig`, `runDemo` | all of the service side, a wallet |
| dashboard, `apps/dashboard/src` | a cached snapshot; the state of each mounted page | load, select, verify; flag, sort and sum rows | React, the hub's and the manager's data |
| web site, theme, tooling | none of interest | | |

What is hard in each, and what makes it correct:

- **Gate and cache.** Concurrent requests with one payment, in one process or
  several; a lock that expires under its holder; a cache that fails before or
  after the charge; a lost answer; a crash. Correct means: one attempt at a
  time per gate; a payment charged again only if something destroyed the
  memory of it; a receipt only for its own payment and offer, and said to be
  fresh only to the request that settled it; every request answered, a signed
  receipt delivered, every lock freed.
- **Framework adapters.** `gate()` may reject for the owner of an attempt and
  for everyone waiting on it; the route handler may throw or die after the
  payment has settled. Correct means: the handler runs only for paid requests,
  and every request gets an answer.
- **Demo.** What the agent signs must be what the gate verifies, and network,
  asset and facilitator must come out of the environment variables together.
  Correct means: a run ends with the receipt of its own charge for the offer
  it was shown, or fails for a reason somebody gave it.
- **Channel manager.** Overlapping calls compute from records read before an
  `await`; the adapter fails before, after or during a settlement; a keeper
  acts on an answer of `shouldClose` that is old. Correct means: never beyond
  the deposit, never more than was asked for, no sequence number skipped, no
  channel stuck in `closing`, a due channel settled in the end; a total that a
  late commit set back is set back in the record's counter too; and without
  overlap, exactly the abstract payment channel, paid in full on close.
- **Policy engine and client.** The check comes before a payment, the record
  after it; midnight and the edge of the minute window fall in between.
  Handlers throw and register others while they run. Money may move without
  being recorded. Correct means: limits passed by no more than what a check
  could not know of, in flight or moved unrecorded; counters that equal the
  recorded payments; and every call's end heard once by everyone.
- **Receipts.** A restart makes a new key, under a new name or an old one;
  receipts outlive their keys, and verifiers are given keys by hand. Correct
  means: what was signed verifies exactly with a verifier that holds the
  signer's key under the id it names, and nothing else does.
- **Reconciler.** Must flag every close that did not pay what was
  acknowledged, and raise no alarm at a clean one.
- **Hub.** Retries, timeouts, registrations during an `emit`, a hook that
  throws; amounts that do not parse; times compared as texts. Correct means:
  every target registered at the call is delivered to or reported, a failure
  is reported only when it is final, a confirmed delivery is not repeated, and
  `emit` ends; every way to ask for a sum gives the same sum.
- **Dashboard.** Fetches and verifications end in any order, after the page or
  the row they were for is gone. Correct means: what is on screen is true.

## 2. The modules and the code

| Module | What it is |
|---|---|
| `SettlementGate` | the gate over its cache; requests are coroutines |
| `ChargeLedger` | abstract: a payment is charged only while its charges do not exceed the losses of its memory, and served only if charged |
| `Paywall` | composes the gate with the framework adapters and the route handlers behind them |
| `DemoConfig` | `resolveDemoConfig` and the two `toRequirements` as operators |
| `PaymentFlow` | composes `Paywall` and `DemoConfig` with the agent of `runDemo` and a facilitator that compares terms |
| `ChannelManager` | the channel manager over its store, with the adapter and contract as environment |
| `PaymentChannel` | abstract: a total that grows within a deposit, one payout, then nothing |
| `Reconciler` | `reconcileChannel` as operators |
| `ChannelAudit` | composes the two: the drift found in the channels the manager closes |
| `Ordering` | `filter` and the stable `sort` of arrays, as operators; external |
| `ClosePolicy` | `shouldClose`, and the flags and the order of the dashboard's channels table, as operators |
| `ChannelKeeper` | composes `ChannelManager` and `ClosePolicy` with a clock and a keeper that asks and closes |
| `ModelRouter` | the default router as operators; also defines the settlement models |
| `PolicyEngine` | the policy engine; `check` and `record` as steps |
| `AgentClient` | composes `pay()` calls and their event handlers with the engine and the router |
| `ReceiptFormat` | schema, building, canonical bytes, signing and verifying of receipts as operators |
| `ReceiptArchive` | receipts over restarts of the signing instances, before verifiers with any selection of keys |
| `ObservabilityHub` | `emit()` with its retries, timeouts and hook |
| `SpendMetrics` | `record`, `summarize`, `export`, and the dashboard's agents table |
| `DashboardReceipts` | the receipts page: fetch, cache, hook, verification |
| `SettlementGate_proofs` | theorems about the gate: attempts and receipts; locks, charges and the refinement of `ChargeLedger` |
| `PaymentFlow_proofs` | theorems about `Paywall` and `PaymentFlow`, on top of the gate's |
| `ChannelManager_proofs` | theorems about the manager; the refinement of `PaymentChannel` and what reconciliation tells |
| `ChannelKeeper_proofs` | theorems about the keeper and the thresholds, on top of the manager's |
| `ObservabilityHub_proofs`, `AgentClient_proofs` | theorems about the hub; about the client's events, counters and limits |
| `Records_proofs` | theorems about receipts, metrics and the receipts page |
| `Sums` | lemmas about sums over finite sets, and about arrays filtered and sorted |
| `MC...` | instances for TLC: constants and symmetry, no behaviour |

**Coroutines.** Each call (`Request`, `Call`, `Pay`, `Emit`) has a `pc` that
names the `await` it is suspended at. One action runs it from that `await` to
the next, with everything the code does on the way, so that exactly the
interleavings the event loop allows are explored. `Step`, `Resume` collect the
actions that run when an awaited promise settles.

**SettlementGate.** `pc` follows `gate`, `settleWithHandler`, `settleOnce`,
`settleAndRecord`:

| `pc` | suspended at | actions that leave it |
|---|---|---|
| `idle` | before the request | `Arrive`: challenge, refusals, or on to `verify` |
| `verify` | `handler.verify` | `VerifyFails`; `Join` or `Start`, as the in-flight map says in the same tick |
| `waiting` | another request's promise | `WaiterReturns` |
| `get1` | the first `cache.get` | `FirstGet` |
| `acquire` | `cache.acquire` | `Acquire` |
| `get2` | `cache.get` under the lock | `SecondGet` |
| `settle` | `handler.settle`, request under way | `Settle`: charged, declined, not reached |
| `charged` | `handler.settle`, money moved | `SettleReturns`: signed, or the answer is lost |
| `store` | `cache.set` | `Store` |
| `release`, `unwind` | `cache.release`, after a result or an exception | `Release`, `Unwind` |
| `resolved` | the attempt's promise has settled | `OwnerReturns` |

`inFlight`, `entry` and `lock` are the code's; `att` and `out` are the result
of an attempt and the outcome of a request. A lock holds `"1"` in Redis; the
model keeps the holder as a ghost: the gate's actions only ask whether there is
one, `release` deletes whichever lock is there, as the code does, and the name
serves to count the locks so taken from another holder. A receipt
keeps the fields the code compares (payment, model, offer) and the request
that settled it, in place of the transaction hash. Environment actions are
`EntryExpires`, `LockExpires` (holder gone), `LockOverrun` (holder at work),
`Crash`. Every command of Redis, the facilitator and the signer may fail,
before or after it took effect, for one unit of `faults`. `lost[k]` counts the
events that destroyed the memory of payment `k`; `charged` is the set of
requests whose `/settle` moved money.

**Paywall.** An adapter is a continuation of `gate()`'s promise, so it runs in
the gate's step that makes an outcome (`Adapted`). A settled outcome lets the
route handler run (`handling`) until it returns or throws; a crash of the
process takes it along. A gate is framework-agnostic and may be given to
several adapters, so any of `Adapters` may have the request. They differ in
one thing: Next merges the receipt header into the response the handler
returned, the others set it before the handler runs.

Which requests a gate sees, which offers it makes and what its router decides
are constants, so that gates with a Redis cache, with an in-memory cache and
without one are instances of one module.

**DemoConfig, PaymentFlow.** A URL, an asset or an account is the network it
belongs to, an environment variable is unset, empty, malformed or good, and
`FlowInit` takes every environment. An agent's `step` follows `runDemo`:
`start`, `challenged`, `signed`, `paying`, then `returned` or `threw`. Its two
calls are two requests of `Paywall`. `FacilitatorAnswers` is what separates
this composition from the gate alone: `/verify` answers by comparing the
requirements the agent signed (`toRequirements` of the demo, on the offer of
the challenge) with those the gate sends (`toRequirements` of
`createHttpFacilitator`, on the offer of the paid request), on the facilitator's
own network. The mock facilitator accepts everything, and the mock payer has
one payment for everybody. Two replicas may disagree about the price, as they
do while a new one is rolled out.

**ChannelManager.** `opening`, `signing`, `appended`, `listing`, `marking`,
`settling`, `settled` are the awaits of `open`, `commit` and `close`. `job[x]`
is what a call carries over them: the sequence number and total a commit
computed from the record it read, the total a close read from the stream. The
awaits on the memory store are kept where another call can get in between;
the first read of a call runs with its checks, since nothing was read before
it. `onChain` is the contract, which pays out once. `Overlap = FALSE` is a
caller that waits for each call on a channel.

**ClosePolicy, ChannelKeeper.** A threshold is a fraction in units finer than
both roundings: `shouldClose` rounds it to six digits (`ScaledThreshold`), the
dashboard cuts the ratio off after four (`drawdownRatio`). `quiet[c]` stands
for `now()` less `lastCommitAt ?? openedAt`; `Stamps` resets it where the code
writes these. `ShouldClose` answers `"throws"` where the code rejects, in the
order of its tests. The keeper is not part of the code: the interface is made
for one, and the model has the plainest, which asks at any time (`Ask`) and
calls `close` on an answer that may be old by then (`KeeperCloses`). Its call
is forgotten when it has returned (`KeeperReturns`) and made again, so it
closes any number of times.

**Reconciler, ChannelAudit.** Amounts are integers, and a negative one stands
for a string that does not parse. `Drift` keeps the order of the early
returns. `Suppressed` is what the suppress hook filters. `ChannelAudit` feeds
it the manager's stream and the contract's payout, and compares both, and the
record, with the commits whose calls returned (`AcknowledgedOn`).

**PolicyEngine, AgentClient.** `check` and `record` contain no `await` that
yields to other work in between, so each is one step. A rule of `check` that
prunes or resets does so in the model under the same conditions. An amount
that does not parse (`Parses`) makes `check` throw before any decision, so
that `pay` tells of one error and of no skip.
`requestTimestamps` and the time stamps of `anomalySamples` are always equal
and are one sequence. `now` ticks over several minutes and days. `pay` splits
at the settler: `DecideFails` or `CheckPolicy`, `Settle`, then
`ReceiptRecorded` or `ReceiptFails`. `movedAt[x]` is a ghost of when money
moved, recorded or not; `unseen[x]` one of the payments that the check of `x`
could not know of: those in flight, and those that moved and threw before
`record`. `emit` calls the handlers in a `for ... of` over
the array itself: a handler pushed by another is reached by the same loop
(`Registrations`), and a throw is swallowed. `heard` is a ghost of what each
handler was told, `audience[x]` of who was registered when the call was made.

**ReceiptFormat, ReceiptArchive.** An object is a function from
field names to values; canonical JSON is the set of its pairs, since the text
depends on these alone. A signature is the pair of key and bytes. `BodyOk` is
the schema with its rule that a model fixes the kind of settlement reference;
`VerifyReceipt` has three answers, as the code rejects on a signature that is
no base64url (`Garbled`). Parsing drops fields the schema does not know, so
they are not among the bytes (`Parsed`). `Ed25519Signer` can only generate a
key, so `Restart` is a rotation, under any of the names the instance may pass,
used before or not. A verifier keeps the keys it is built with: `NewVerifier`
builds one from any of the public keys under any of the ids, which covers a
key that was replaced, dropped or never handed out. `Altered` are copies of
genuine receipts with a field changed, a field added at any level, or the
signature of another.

**ObservabilityHub.** `delivery[e][t]` is `withRetry` for one target.
`Emits` takes the handler list; `HandlersSettled` takes the webhook list when
the last handler has settled, as the code reads each. `acted` counts what a
target really did, `unsure` how often it did so in an attempt that failed all
the same (an answer that came too late).

**SpendMetrics.** A stamp is what an ISO 8601 text prints: the second of the
local clock, any number of digits after it, and `Z` or an offset. `Text`
lays it out by character codes, with parts of fixed width as one number, and
`SortsBelow` is the order of texts, which is what the filter compares.
`AddMetric` is one round of the loop of `summarize`; an amount that
does not parse leaves it as it was. The agents table asks for each agent, as
`agent-spend.ts` says its rows will.

**DashboardReceipts.** `FetchReceipts` and `StubBuilt` are the two sides of
the `await` in `cached ??= await buildStub()`. A snapshot is named by the mount
whose fetch built it. A cleanup sets a flag the callbacks of its effect read:
`FetchEnds` and `Cancelled` model those flags by comparing with the page and
the run that are mounted now. `verification` is React's state, `pill` what the
last render painted. `OpenRow` commits the new row and sets the state in an
effect; the old row's verdict stays painted beside the new receipt until
`Render`, because `ReceiptDetail` has no key.

`MCRecords` runs `ReceiptArchive`, `SpendMetrics` and `DashboardReceipts` as
three parts of one state space that share nothing: the variable `part` picks
one at the start, and the others stay as they begin.

## 3. The runs

Passing runs:

- **gate_redis** Four requests with one payment at two gates in two processes
  over one Redis, `onCacheError` may throw, two failures of any kind.
  `ChargesJustified`: a payment is charged once, plus at most once for every
  event that destroyed the memory of it. `FreshReceiptIsOwn`: nobody is shown
  another request's settlement as a fresh one. `NoSilentLockLeak`: a lock left
  behind was reported. `ImplementsLedger`: the gate refines `ChargeLedger`.
- **gate_memory** Three requests over two offers and both settled models, at a
  gate with an in-memory cache beside a gate without one that is routed only
  to what it cannot settle. `OneAttemptPerGate`, `ServedReceiptIsBound`,
  `MismatchIsReal` (409 "different offer" is never said of another payment),
  `WaiterAgreesWithOwner`, and `ChargesJustified` for memory caches. Behind
  all four adapters `ServedIsPaid`: a handler runs, and a receipt header goes
  out, only for a payment that moved money for this offer.
- **gate_live** `EveryRequestAnswered` (by HTTP, through an adapter and a
  handler that ends), `SignedReceiptReachesPayer`, `LockIsFreed`, over a Redis
  gate beside a cacheless one, with one failure and no throwing hook.
- **flow_demo** Two agents at two replicas, every environment, one failure.
  `ReceiptMatchesChallenge`: live money moves only on the terms the agent
  signed, and a run that returns has the receipt of its own charge for the
  offer of its challenge. `RunsFailForAReason`: a run that throws had a
  configuration error, a facilitator of another network, a price changed
  between its two calls, a decline, a failing route, or a counted fault.
- **channel_serial** Calls that wait for one another, two adapter failures.
  `CloseReconciles`: a closed channel has paid every acknowledged commit and
  raises no alarm. `ImplementsChannel`: the manager refines `PaymentChannel`.
  `ClosingEnds`: no channel stays in `closing`.
- **channel_overlap** Five overlapping calls. What is left: the deposit is a
  ceiling, nobody is overcharged, no gap in the numbers,
  `CleanCloseIsPaid`: an acknowledged commit that is not paid shows as drift,
  and `LateCommitShows`: a record over which a late commit wrote an older total
  says by its counter that it lacks commits.
- **keeper_closes** Overlapping calls under every kind of policy.
  `DrawdownIsTold`: the answer is exact at thresholds of six digits, the
  dashboard flags only channels that are due and never shows an open flagged
  one below an open one that is not. `DueUntilUsed`: a yes goes stale only by
  a commit or a close. `DueChannelSettles`: a due channel gets settled.
- **client_policy** Three `pay` calls over four ticks (a tick is the minute,
  two are a day) against every limit at once, one payment's receipt lost or not
  verified. `BudgetsExceededOnlyByUnseen` and `WindowsExceededOnlyByUnseen`
  bound how far all the money that moved, recorded or not, can pass each limit;
  with no overlap and receipts that verify they say the limits are kept.
  `CountersMatchPayments` ties the counters to the payments across midnight.
  `EveryEndIsHeard`: every handler is told once how each call ended, and of a
  payment only when it is recorded.
- **hub_delivery** One emit, two handlers, three webhooks of which two match.
  `NothingSwallowed`, `FailuresAreFinal` (reported after exactly the
  configured number of attempts), `RepeatsAreUnsure`, `EmitEnds`.
- **records** Receipts, metrics and the receipts page, each by itself.
  `OnlyIssuedVerify` for two instances, two keys and every verifier: which
  copies verify, and which genuine receipts do not. `MetricsAgree` (rollups,
  counts, exports, drill-downs and the agents table) over every query.
  `WindowErrsByNotationOnly`: windows are exact for times written alike, and
  err by no more than the zones differ for others. `ScreenTellsTheTruth`.

Violation runs show the findings of section 7: **gate_hook_throws**,
**channel_two_closes**.

Each property of a passing run has a mutant: an operator beside the original
that a plausible mistake in the code would give, which the run then refutes.

## 4. Bounds

| Bound | Where | Why it is enough |
|---|---|---|
| 4 requests, 1 payment | gate_redis | two at one gate (owner and waiter), one at another process, and one late retry; payments share no state, keys are independent |
| 2 failures (`MaxFaults`) | gate_redis, gate_memory | one to break the memory and one more while the gate recovers from it; `ChargesJustified` counts both |
| 3 requests, 2 offers, 2 models, 1 payment header | gate_memory | an owner, a waiter for another offer, a later hit; one header under two models is the collision the key must avoid |
| 1 failure | gate_live, flow_demo | a second one only ends the attempt, or the run, earlier, by the same exits |
| 1 adapter (Next) | gate_live | the adapters differ in when they set the header, which these properties do not ask about; gate_memory has all four |
| 2 agents, 2 replicas, 2 prices, Express and Next | flow_demo | one agent to be shown an old price by one replica and pay at the other, one to race it; in mock mode both have one payment. The adapters without a difference here are left out |
| 5 calls, 1 channel, deposit 4, amounts 1 and 2 | channels | an open, a close and three commits, or two closes and two commits; channels share no state; 2+2 reaches the deposit, 2+2+1 passes it; 0 and -1 (unparsable) are inputs |
| 3 calls and the keeper's, one failure, `Horizon` 2 | keeper_closes | an open and two commits that overlap each other and a close; thresholds below, at and past what 1..4 of 4 can be, one that no six digits hold, and limits that throw; seconds beyond every idle limit change no answer. `OtherRows` is one other row of every ratio |
| 3 calls, 4 ticks, amounts 1, 2 and -1, one failing receipt | client_policy | two calls that overlap and one that comes after, or one unrecorded payment and two after it; ticks reach the next minute, the next day and the day after that; -1 does not parse |
| `OneModelEach` | client_policy | the policy looks at a model only to ask whether it is enabled and for the deposit rule: each of the two is paid for with one payee |
| `HandlersEarly`, 2 handlers | client_policy | `emit` does not look at the engine, so handlers are explored with up to two x402 payments of one instant; without handlers the calls are explored in full. One handler throws, either may register the other |
| 1 emit, 2 handlers, 3 webhooks, 3 attempts | hub_delivery | emits share only the registries, which change by themselves in the model; a failing handler beside a good one; a webhook registered late, one that matches and one that does not; 3 is the default number of attempts |
| 2 instances, 2 keys, 2 receipts | records | two instances sign at once, or one rotates; one leaves the name out, the other uses a fixed one, as the demo does; two receipts are what a copy can be mixed from |
| `MaxMetrics` 2, 2 payers, 2 payees, 4 stamps | records | one metric to be added to, one to add, summed or skipped; two times of one second, that second without digits, and one of another zone that is the same instant |
| 2 mounts, 3 rows, `MaxRuns` 3, one failed fetch | records | two fetches that overlap; a row of each verdict; a verification overtaken by another, a row opened again, and any number of renders in between |

Symmetry is used on request, call and pay names in runs that check safety
only. Counters are bounded by the guards named here and by nothing else.

## 5. Fairness

`FairSpec` of the gate: weak fairness of each request's `Step`, since a promise
that settled is continued by the event loop, and of `LockExpires`, since Redis
applies `PX`. It assumes that the facilitator and Redis answer or fail in the
end. Requests need not arrive, and no environment fault is fair.
`PaywallFairSpec` adds that route handlers end: they are the service's code,
and the adapters set them no limit.

`FairSpec` of the channel manager: weak fairness of `Resume`, under the same
assumption of the store and the adapter. `KeeperFairSpec` adds that time
passes and that the keeper goes on asking and acting, which is what a service
must do to use `shouldClose` at all; commits and opens are not fair.

The hub: weak fairness of what the hub itself runs (continuations, retry
timers, the request timeout), and of handlers, which the code awaits without a
limit. Webhooks get no fairness: `EmitEnds` holds because of the timeout.

The other specifications state safety only.

## 6. What is proved

All theorems hold for every value of the constants that satisfies the named
assumptions of the modules (`ConfigAssumption`, `NoneAssumption`,
`FiniteAssumption`, `MemoryAssumption`, `AdapterAssumption`, `FlowAssumption`;
`InputAssumption`, `NothingAssumption`, `RecordAssumption`; `PolicyAssumption`,
`KeeperAssumption`; `ClientAssumption`; those of the hub; `ArchiveAssumption`,
`SigningAssumption`, `MetricsAssumption`, `DashboardAssumption`,
`RowAssumption`), which say that constants have their types, that sets of
requests and calls are finite, that null values are no values and that what is
signed is something the schema accepts. TLC evaluates them on every run.

Seven theorems need more, and say so in an `ASSUME` of their own:

| Hypothesis | What it says | Why |
|---|---|---|
| `OneMemory(c)` | the gates that may settle share one Redis cache, or there is one such gate and it has a cache of its own | two gates without a common cache settle one payment twice, as they must. `gate_redis` is the first case, `gate_memory` the second |
| `OwnKeys` | no two agents present one payment | each signs with its own key; `flow_demo` has it |
| `OnlyX402` | the model the demo's service takes first is x402 | `demo.ts:163`; `flow_demo` has it |
| `NoOverlap` | a caller waits for each call on a channel | otherwise `channel_two_closes` shows the opposite; `channel_serial` has it |
| `AlarmsOn` | the four alarms about the stream and the payout are not suppressed | a suppressed alarm tells nobody; no run suppresses one |

`SettlementGate_proofs`:

- `TypeCorrect`: `Spec => []TypeOK`, by one lemma per group of actions.
- `OneAttempt`: `Spec => []OneAttemptPerGate`. Not inductive by itself: that
  `Start` finds no pending entry says nothing unless every attempt is
  registered. The strengthening is `AttemptsRegistered`: a request that is
  attempting is the one its gate's map holds for its key.
- `ServedReceipt` and `FreshReceipt`: `ServedReceiptIsBound` and
  `FreshReceiptIsOwn`, from `ReceiptsInv`, which follows a receipt through all
  the places it can be: made by a charged request (`PlaceOK`), in an attempt's
  result (`AttOK`), in a cache entry under its own key (`EntryOK`), handed to a
  waiter (a waiter's owner has the same key), in an outcome (`OutOK`). The step
  is proved from `Shape` and `Writes`, which summarise what any action may do
  to those variables, so the receipt argument is made once and not per action.

In the second half of the module, on top of these:

- `WaiterAgrees`, `MismatchReal`, `LockLeaksAreReported`:
  `WaiterAgreesWithOwner`, `MismatchIsReal`, `NoSilentLockLeak`. For the last,
  `LockInv` says of the holder of any lock that it is on the path through the
  lock (`PathOK`), crashed, or has reported its failure (`Accountable`).
- `ChargesAreJustified`: `ChargesJustified` under `OneMemory(c)`. The
  invariant keeps accounts per payment (`AccountOK`). A request has a claim
  when it charged the payment, is about to, or believes in a lock it no longer
  holds; the payment is blocked while its receipt is cached or a request that
  still holds the right to settle is at work. There are never more claims than
  losses of memory, plus one while it is blocked. `Balanced` lists the ways a
  step may change claims, blocks and losses, and every action is one of them.
- `LedgerImplemented`: `Spec => ImplementsLedger`, the gate refines
  `ChargeLedger`: each step is a charge the ledger allows, a loss, a grant of
  something charged, or a stutter.

`PaymentFlow_proofs`:

- `GateUnchanged`: `PaywallSpec => Spec`. Handlers and adapters leave the gate
  alone, so all the theorems above carry over to the composition.
- `ServedIsPaidFor`: `PaywallSpec => []ServedIsPaid`, from `HonestInv` (every
  receipt in an attempt, an outcome or a cache says what its settling request
  presented and asked for; requests past routing keep their data) and
  `PaywallInv` (a handler runs only on a settled outcome).
- `ReceiptsMatch`: `ReceiptMatchesChallenge`, from `RunInv`, which says of
  each agent what its two calls may have come to: the first is only ever
  challenged (`ChallengeOK`), what it signed is for the offer it saw
  (`SignedOK`), and a live payment past verification was verified against that
  offer (`CoveredOK`).
- `RunsFailHonestly`: `RunsFailForAReason`, from `ReasonInv`: whatever threw,
  died or was dropped did so for a counted failure (`BrokenOK`), and a paid
  call that was refused has a reason in the configuration or the price
  (`RefusedOK`).

`ChannelManager_proofs`:

- `TypeCorrect`: `Spec => []TypeOK`, from `Typed`: a channel being opened has
  no record yet and one opener (`OpeningIsNew`), a commit under way has a
  positive total and a number from 0 (`SigningIsNext`), and a nonempty stream
  has a latest commitment (`HasLatest`), so that what a close settles exists.
  The step also shows that records and deposits stay (`Kept`).
- `DepositIsCeiling`: `CommitmentsWithinDeposit`, from `Within`: a record's
  total, a carried job's total and every stored or paid total lie within the
  deposit, which no action changes. This is why the stale check is harmless
  here: the total that was checked is the total that is signed.
- `Gapless`: `NoSequenceGap`, from `Numbered`: every number below the one a
  commit is about to use is in the stream already, and the record's number and
  total are those of one stored commitment; streams only grow (`Grown`).
- `NobodyOvercharged`: `NeverOvercharged`, from `Charges`: what a call is about
  to sign, what is stored and what a record shows is at most the sum of what
  the calls signed so far asked for (`Charged`).

In the second half of the module, about `ChannelAudit`:

- `ChannelImplemented`: `Spec => ImplementsChannel` under `NoOverlap`, from
  `SerialInv`: at most one call is at work on a channel, the record shows the
  whole stream but for what that call has in hand (`Shown`, `JobAt`), and a
  channel that is closed has paid that (`Final`).
- `ClosesReconcile`: `CloseReconciles` from the same invariant.
- `CleanClosePays`: `CleanCloseIsPaid` for overlapping calls too, under
  `AlarmsOn`. Calls may have repeated numbers and lost totals, but each
  commitment starts from the total of one that is stored under the number
  before (`Chained`), an acknowledged commit is in the stream (`Acked`), and
  a close answers after the contract paid (`PaidOut`). If the reconciler finds
  no gap or repetition, the stream is one chain, so its last total is the sum
  of all of it (`ChainSums`), and that is what was paid.
- `LateCommitsShow`: `LateCommitShows`, for overlapping calls. Its invariant
  `AllAddUp` says of every record, and of every total a commit carries over its
  `await`, that some commits known to have ended add up to it, as many as its
  number says; a commit adds itself to those its own record came from.

`ObservabilityHub_proofs`:

- `NothingIsSwallowed`, `FailuresFinal`, `RepeatsUnsure`, from `HubInv`: the
  tries, acts and failed tries of each delivery agree with its state
  (`CountsInv`), and what an emit awaits says which deliveries are over and
  which of them it reported (`CourseInv`).

`AgentClient_proofs`:

- `EndsAreHeard`: `EveryEndIsHeard`, from `HeardInv`: a call's events are told
  at its end, all at once and to everybody registered by then, and nobody who
  was registered when it began is ever removed.
- `CountersMatch`: `CountersMatchPayments`, from `CountInv`. The window is the
  hard part (`WindowMatches`): the samples are those of some payments, one
  each, in the order of time, with none missing that is recent enough. Order
  is why dropping from the front drops exactly what is too old (`PrunedIs`).
  For the day, no payment was recorded later than the day of the last reset,
  so a reset starts from a sum over nothing (`FreshIs`).
- `BudgetsHold`, `WindowsHold`: `BudgetsExceededOnlyByUnseen` and
  `WindowsExceededOnlyByUnseen`. They are not inductive: a payment in flight
  belongs to no day yet, and throws may take calls out of a set. `LimitsKept`
  says it of any calls that have moved money or may yet do so
  (`ForDay`, `ForMinute`), and of all their subsets, so that it survives when
  calls drop out (`FewerKeep`). When a call passes its check, all that moved
  and is not in its `unseen` is recorded, the counters are their sums by
  `CountInv`, and the check compared exactly these (`CheckedKeeps`).

`ChannelKeeper_proofs`:

- `LimitsAreTold`: `DrawdownIsTold`. It is arithmetic about two roundings, of
  which the provers need each product and quotient spelled out. `ScaledIs`:
  rounding to six digits never passes a multiple of the sixth digit that the
  threshold is below, and keeps a threshold that is one; so a threshold of six
  digits is compared exactly (`ReachedExactly`). `RatioIs`: the ratio of the
  dashboard is cut off, never rounded up; so what is flagged is reached
  (`NearIsReached`). The order of the rows is that of their ratios
  (`TwoSorted`), to which flags are monotone.
- `DueStaysDue`: `DueUntilUsed`, an action property, by one case per step: time
  only helps, `OpeningIsNew` says that an open is of another channel, a failed
  close puts back the very record there was, and `Answered`, that a call said
  "committed" only when done, tells a commit that lands from one that landed.
- `KeptWithinDeposit`, `KeptGapless`: `CommitmentsWithinDeposit` and
  `NoSequenceGap` once more, for a keeper that closes any number of times. The
  invariants are the manager's; what is new is the step in which a call that is
  over is forgotten (`ReturnsSafe`).

`Records_proofs`:

- `OnlyIssuedReceiptsVerify`: `OnlyIssuedVerify`, from the shape of what is
  issued. The bytes tell the fields of the schema, nested ones included
  (`BytesTell`), and parsing twice is parsing once (`ParsedTwice`); a signature
  is the key and the bytes, so a copy that verifies parses to the body that was
  signed (`ValidIsSigned`). The other way, a copy that parses to it has the
  same bytes (`SignedIsValid`).
- `ScreenTrue`: `ScreenTellsTheTruth`, from `Screen`: a snapshot known anywhere
  is the one its own fetch built (`FetchesOk`), the page loads exactly until
  its fetch ends (`PageOk`), and the verification is that of the last run,
  which is about the row and the snapshot on screen (`PillOk`); a render copies
  it to the pill.
- `WindowsAreByTime`: `WindowErrsByNotationOnly`, for texts of any fraction
  length and any offset. `TextIs` gives the characters of a text one by one,
  `TextsBySecond` reduces two texts of different local seconds to these, and
  `AlikeByTime` walks two texts written alike digit by digit.
- `MetricsDoAgree`: `MetricsAgree`. The loop of `summarize` is a fold over a
  sequence; `SummaryIs` gives its closed form, a sum over the metrics that
  match and parse, and each rollup entry the sum of those with its key. Rollups
  and drilling down are then two ways of splitting one sum (`RollupsDoAgree`,
  `DrillingDownAgrees`), and the table is a permutation of the agents in the
  order of their sums (`TableTellsSpend`).

`Sums` has the lemmas about `SumFunctionOnSet` that all sums of amounts rest
on: adding and removing an element, splitting, renaming, monotony. The fold of
the community modules chooses an order; that the order does not matter is
proved by a smallest counterexample among the subsets of a finite set
(`Smallest`, from `WFMin` of the library), which needs no induction over an
operator. It also has what `Keep` and `StableSort` of `Ordering` return
(`KeepIs`, `OrderIs`, `SortedByKey`). `Ordering` gives an element its place by
counting what comes up to it, which the lemmas can follow by cardinalities;
`SelectSeq` and `SortSeq` of the library give the same arrays in a form the
provers cannot unfold.

Only model-checked is liveness: `EveryRequestAnswered`,
`SignedReceiptReachesPayer`, `LockIsFreed`, `ClosingEnds`, `DueChannelSettles`,
`EmitEnds`. It rests on fairness, whose `ENABLED` is out of the prover's reach.
Every invariant and every action property that a passing run checks is stated
by a theorem.

## 7. Findings

1. **A throwing `onCacheError` costs the payer the receipt**
   (`gate_hook_throws`). `gate.ts:341` says a failed write must not; the hook
   is called inside the handler that protects the receipt.
2. **Overlapping closes both reach the adapter** (`channel_two_closes`),
   which the comment at `manager.ts:207` says they do not.

Further disagreements met while modelling. The model does what the code does,
and where a passing property bounds the consequence it is named:

- A lock can expire under a settlement at work: `cache.ts:108` says that only
  one process at a time settles a payment; the lock lives 30 s and is not
  renewed, and `/settle` has no time limit (`LockOverrun`; `ChargesJustified`
  counts it).
- `gate.ts:46` calls the accepted models "in order of preference"; the payment
  header names no model, and a gate without a router takes the first
  (`gate.ts:390`), so that the second is never settled (`FirstModelOf`).
- Overlapping commits repeat a sequence number, which `docs/design.md:133`
  says is a no-op that Tollway enforces. `CleanCloseIsPaid`: reconciliation
  notices.
- The lifetime ceiling of `policy.ts:15` and the caps of `:18` are passed by
  overlapping `pay` calls, and by calls one after another whose receipts do not
  verify: their money has moved, and `pay` throws before `record`
  (`client/src/index.ts:155`). `BudgetsExceededOnlyByUnseen` bounds by how much.
- `client/src/index.ts:71` promises the code `receipt-verification-failed` for
  a tampered receipt. A signature that is no base64url passes `schema.ts:71`
  and makes `verifyReceipt` reject (`encoding.ts:21`, `receipt.ts:76`); the
  error then has no such code (`ReceiptErrors`).
- `schema.ts:67` says keys rotate without orphaning receipts. `generate` takes
  any name for a key id (`signer.ts:40`), and the repository gives one name to
  every new key (`demo.ts:161`, `data/receipts.ts:60`); a verifier with the
  newer key under it refuses the receipts of the older. Merging a new key with
  the old ones is left to the operator (`docs/receipt-format.md:200`), as
  `forSigner` trusts one key. `OnlyIssuedVerify` says exactly which receipts a
  verifier refuses.
- A field the schema does not know may be added to a signed receipt, which
  still verifies (`receipt.ts:69-75`), and the client hands out the object as
  it was received (`client/src/index.ts:147-165`). `OnlyIssuedVerify` holds up
  to such fields.
- `reconcile/src/index.ts:6` says each x402 and MPP charge settlement is
  confirmed and matched with its receipt; `reconcileCharge` parses the receipt
  and compares nothing.
- `observability/src/index.ts:141` says the promise of `emit` does not reject;
  `onDeliveryFailure` is called unguarded at `:432` (`HookThrowsAt`).
- `observability/src/index.ts:181` says that comparing ISO texts preserves
  order, and `:46` that bounds are inclusive. Neither holds for texts with
  offsets, which misorder by hours, nor within one second for texts with
  different numbers of digits. `WindowErrsByNotationOnly` bounds the error.
- `receipts-view.tsx:186-190` says that a changed receipt surfaces as an
  invalid pill the moment it is opened. `ReceiptDetail` has no key (`:85`), and
  "verifying" is set in an effect (`:193`): React may first paint the new
  receipt beside the verdict of the row that was open before
  (`OpenRow`, `Render`).
- `data/receipts.ts:45` says every call returns the same data; two calls before
  the first stub is built build two (`:53`, `StubBuilt`).
- `channels-view.tsx:21` says a flag mirrors the manager's threshold; the ratio
  is cut off after four digits (`:33`), so that a channel may be due and not
  flagged. `DrawdownIsTold`: never the other way round.
- `channels-view.tsx:109` says commitments awaiting close; the sum at `:87`
  includes closed channels.

Hazards that nothing in the code answers, so that there is no property to
check: a restart forgets open channels (`store.ts:20`); a contract deployed
whose answer is lost is in no record (`manager.ts:66`); a handler that never
settles keeps `emit` from its webhooks (`observability/src/index.ts:417`); a
Next route that throws after the settlement answers without the receipt
(`adapter-next/src/index.ts:52`); the client does not tell the router which
models the policy enables (`client/src/index.ts:216`) and does not compare a
verified receipt with its payment (`:154`); summaries add failed and skipped
payments to settled ones (`observability/src/index.ts:362`).

## 8. What is not modelled

- Texts: canonical JSON beyond what it tells apart, header codecs, CSV
  escaping, messages. Cryptography is taken to work. Amounts are integers of
  any size, as the code's `bigint` is.
- The facilitator's own state, Stellar, the channel contract beyond paying out
  once: external.
- `supported()` of the facilitator client: nothing calls it.
- `recover` and `createMppChargeHandler` throw "not implemented".
- The events `budget:warning` and `channel:*` of the client: declared, never
  emitted.
- Of the adapters: how URLs and headers are copied, and what a framework's
  error handler answers.
- Of the dashboard: markup, formatting, the stat cards of the channels page,
  and the hooks of the channels and agents pages, which are that of the
  receipts page over constant data.
- Policy limits that do not parse: `check` then throws `invalid-amount` every
  time, as it does for an amount.
- Values that break `normalizeError` (`observability/src/index.ts:170-173`), a
  circular object or one with a `bigint`, thrown where an `Error` is expected:
  `emit` rejects; and a `maxAttempts` that is `undefined` or no number (`:249`,
  `:341-344`), with which nothing is attempted.
- ISO 8601 forms other than the extended one with a time (dates alone, the
  basic form, a small `z`).
- The verification at `demo.ts:200`, whose answer the demo only returns;
  `reconcileCharge`, which has no state and compares nothing.
- The web site, the theme, the build and release tooling: no state.

## 9. Plan

The system is modelled as far as its code goes, and what TLC agrees to is
proved as far as the prover goes. When the code changes:

1. A handler that changes is one action of its module; the lemma that carries
   an invariant over that action (one per action or group of actions) is the
   first thing that stops checking.
2. `recover` and `createMppChargeHandler` are stubs. Once written, they need
   actions of `ChannelManager` (records read back beside calls under way) and
   of `SettlementGate` (a second settling handler over the same cache).
3. A durable store would make restarts part of the manager's behaviour, and
   `NoSequenceGap` and `CleanCloseIsPaid` the properties at stake.
4. The real sources of the dashboard replace constant data by fetches; the
   hook is modelled once, in `DashboardReceipts`.

## 10. Running it

    tlc -config gate_redis.cfg MCSettlementGate.tla
    tlapm SettlementGate_proofs.tla

Each run's module and cfg are in `PROJECT.json`. The longest run takes two to
three minutes, the proofs of the larger modules tens of minutes.
