# A verification of priime-demo in TLA+

This directory models the parts of priime-demo that hold state and coordinate
several actors: the on-chain vault, the loop server that deploys vaults and
edits the service definition of the operators, the cycle in which operators pin a
block, value a vault at it and plan its trades, the subgraph that indexes it, and
the two parts of the web page that keep state of their own: the build canvas and
the allocation router. TLC checks the models on small instances. TLAPS
proves the properties that matter most for every instance. `PROJECT.json` lists
the runs, the theorems, the lines of code each definition stands for, and the
hazards the properties are aimed at.

Run a model with `tlc -config <X>.cfg <Module>`, a proof with
`tlapm <Module>_proofs.tla`.

## The system

| component | state | operations | interacts with |
|---|---|---|---|
| **PriimeVault** (`contracts/src/PriimeVault.sol`) | NAV, strike counters, queues and per-controller books of deposits, redemptions and refunds, their aggregates, share balances, breach flags | `requestDeposit`, `requestRedeem`, `deposit`, `mint`, `redeem`, `withdraw`, `claimDepositRefund`, `handleSignedEnvelope`, `execute`, `emergencyExecute`, `setOperator`, ERC-20 | operators' envelopes, venues, USDC |
| **vault-nav** (`components/vault-nav`) | none between cycles | wait for the trigger time, find the inputs block, read the vault and its venues at it, compute NAV, breach flags and a plan | chain, vault |
| **loop-deploy** (`packages/loop-deploy`) | registry rows, the in-process mutation tail | `createLoop`, `resumeLoop`, `deactivateLoop`, `mutateService`, `nudgeService` | factory, service manager, IPFS, vault |
| **loop-server** (`apps/loop-server`) | replay cache, heartbeat timer | HTTP routes, nudges | loop-deploy |
| **service manager** (external) | the service URI, its events | `setServiceURI` | every loop server |
| **PriimeVaultFactory** | list of vaults | `deployVault` | loop-deploy |
| **subgraph**, **journal** | entities folded from events; none | event handlers; log readers | vault |
| **replay-ui canvas** (`apps/replay-ui/lib/canvas`, `components/canvas`) | the portfolio of lanes, its undo stack, deferred commits, quotes and requests for them | add, remove and clear lanes, seat a market, add and eject modules, install, set shares, undo | the reprice route, loop-server |
| **replay-ui orchestrator** (`lib/canvas/orchestrator`) | rule states, weights, edge locks, turnover budget, open legs | fold of one tick | observations of the lanes |
| **replay-ui stores** | browser stores | portfolio, requests | loop-server, subgraph |
| **HelloNavHandler**, **hello-nav**, **hello-aggregator** | last NAV | the walking skeleton of a strike | operators |

What is hard in each, and what makes it correct:

- *PriimeVault.* Requests arrive between strikes, and a strike settles all of
  them at an attested price; its plan runs in a self-call that may revert after
  redemptions were booked, and takes them back. Claims are partial and round.
  USDC backs three books at once while the strategist and the plans move it.
  Correct when the books add up, each request is settled once, the vault holds
  what it owes, and a settlement never takes from the others.
- *Service mutation.* All loops share one document, replaced as a whole by
  transactions that are mined out of the servers' sight, and a server whose
  call failed does not know whether it landed. Correct when no workflow that was
  reported as installed is lost, and none reported as removed comes back.
- *Deployment pipeline.* Five steps across a database, a chain and the shared
  document, with a crash possible between any two, and with resumes and pauses
  while a pipeline waits. Correct when one loop gets one vault, and what the
  registry says of a loop is true of the service.
- *Inputs block.* Operators whose nodes show different heads must sign the same
  block. Correct when the block found depends on the chain alone.
- *vault-nav cycle.* What is attested is true of a block in the past, and lands on
  a vault that has moved on. Correct when shares are never priced above what backs
  them, a plan pays the redemptions it was sized for, and the position is never
  levered beyond its setting by a strike whose read is still good.
- *Replay cache.* A check, an await, another check, two clocks and a restart.
  Correct when a text of a signature counts once while it is fresh; the model says
  when it can count again, and how often.
- *Subgraph.* Sums of events, some of which a revert takes back. Correct when the
  sums account for the vault's books.
- *Orchestrator.* Rules of one tick are evaluated in turn over weights that the
  earlier ones moved, while budget entries, legs and locks run out on different
  clocks. Correct when no bound is crossed and no capital moves into a lane that
  another rule condemns.
- *Canvas.* What a press decides lands later, after other presses; quotes are
  debounced and answered out of order. Correct when what may be published is one
  product, shares cover the lanes, and no lane waits for a quote for ever.

## Modules

### PriimeVault.tla, MCPriimeVault.tla

One action per external function, named as in the code. A transaction is
atomic, so all but one of them are a single action. The strike
(`handleSignedEnvelope`) is run one loop iteration per action, under `phase`:
`deposits` while `_fulfillDeposits` works through its queue (`RefundDeposit`,
`FulfillDeposit`), `plan` inside `executePlanSelf` (`PlanStep`), `redeems` while
`_fulfillRedeems` runs (`FulfillRedeem`), then the floor check
(`PlanExecuted`, `EscrowFloorBreached`). No other function is enabled until
`phase` is back to `idle`. `saved` is what the EVM restores when the self-call
reverts: taken by `EnterPlan`, put back by `Rollback`, which can happen at every
step. Envelopes are not tracked as messages: any envelope may be presented at
any time, again, or late, and only the guards of the code stand in its way.

What a whitelisted call does at a venue is not this module's concern:
`PlanStep`, `execute` and `emergencyExecute` leave the vault with any USDC
balance. `Donate` and `TokenBurn` are USDC moving without the vault; the second
only where `TokenMayBurn`, to reach `emergencyExecute`, which no other state
enables (that is `EscrowFloor`). `requestDeposit` is bounded by `MaxUsdc`;
`MaxBlock`, `MaxPlanSteps`, `EventIds` and `Amounts` are bounds as well. Asset
and share amounts keep the code's floor divisions; `uint256` is not narrowed,
as no amount can come near it: `TypeOK` says that no subtraction underflows.
`REQUEST_ID`, events, view functions and the telemetry of a NAV result are left
out.

### ServiceDocument.tla, ServiceMutation.tla, MCServiceMutation.tla

`ServiceDocument` is what the code promises: workflows are installed and removed
one at a time, an edit is reported when operators can see it, and nothing else
changes the document. `ServiceMutation` is `mutateService` and `nudgeService`,
one action per await: read the block number, read the URI and apply the edit,
send, wait for the receipt, scan `ServiceURIUpdated` in the window, read the URI
again, then return, merge and send again, or retry. `job[s]` holds the local
variables of the one job at the head of the `mutationTail` of server s. A document
is the set of its workflows, so `addLoopWorkflow`, `removeLoopWorkflow` and
`mergeMissingWorkflows` are set operations; the order of the keys, which only makes
two documents of the same workflows have different URIs, is left out. URIs
name content, so the manager's URI is the document itself. All servers send from
the owner's account, so `mempool` is ordered by nonce, and a block takes any
number of its transactions from the front: several writes may share a block. A
job that fails or crashes leaves its transaction in `mempool`, without anyone
waiting for it. So does the first send of a `setServiceUri` that throws on a nonce
race or as a duplicate while its transaction is on its way (`Resent`): the second is
awaited. If the first went nowhere, the two sends are the one of `setServiceUri`.

### LoopDeployer.tla, MCLoopDeployer.tla

One loop server with several requests at a time. A request runs alone between
two awaits, so each action is what the code does from one await to the next, and
`request[r]` holds what it carries over it: the loop, the hash, the vault and the
`step` of the row as it was read. `registry` and the chain outlive `Crash`,
requests and `tail` do not. `mutateService` is a step that lands and one that
returns, in the order of `tail`; that a single server's edits may be seen this
way is what `EditsAreAtomic` of `ServiceMutation` says, and the case of a write
that lands after its request gave up stays with that module. A vault is known by
the transaction that deploys it. `Overlap` lets several requests work on one
loop: the server does not prevent it.

### InputsBlock.tla

`fetch_state` up to the inputs block and `blocks.rs`: the wait for a head at the
trigger time, the walk back in doubling strides, the bisection, the lag. Each
header read is an action, the chain grows in between, and operators search at
their own pace. A walk that finds only later blocks, a header that cannot be read
and a lag deeper than the block end the cycle. The timestamps of the whole chain, of blocks to come as well, are
chosen at the start, in every non-decreasing way. Heads do not go back and headers
do not change: reorganisations are what `Lag` is for and are not modelled.

### NavCycle.tla, MCNavCycle.tla

Extends `PriimeVault` with the position its plans act on (`collateral`, `debt`,
`usde`, the pool's `price`) and with `history`, the state of the chain at the end
of each block that may still be attested. A cycle is a pure function of that
state: `NavUsdc`, the guards (`CycleFails`), the breach flags, `BuildActionPlan`.
Its envelope lands at any later block (`LandEnvelope`), possibly after an envelope
with a newer block was read and before it lands, and its plan runs one step per
action, with Morpho's health check and swaps anywhere between their minimum and
the pool's price. `fresh` says that the block read follows the strike that landed
last. A stale read may open a position twice, or unwind it twice. `NeverOverLevered`
holds through late openings; it leaves out the strike that unwinds on a read
from before the last one, because that one can break it: the debt of a position is
repaid, then an opening and two unwinds of what is left are read before any of them
lands. They land in that order, and the second unwind takes collateral that the
opening borrowed against: 5x where 2.5x is configured. The vault accepts all three,
as each has a later inputs block than the one before; it takes 7 blocks, and the
run's 4 are too few for it.
Amounts are whole units with one unit per rounding. Interest, ticks, the TWAP
window and the attested observations are left out; so are a haircut and a reserve
floor other than zero in the run.

### Subgraph.tla, MCSubgraph.tla

Extends `PriimeVault` with the events of the transaction in flight (`logs`) and
the entities the handlers fold them into (`index`, `daily`, `rows`). A plan that
reverts takes back the events from `planLogs` on (`CommittedLogs`). `index` counts
redemptions requested in shares and fulfilled in USDC, as the code does, so no
property relates the two. How far the node lags is left out.

### ReplayCache.tla, MCReplayCache.tla

`assertFreshIntent`, the await in which the signer is recovered, and
`ReplayCache.observe`, each reading the server's clock anew. `signedAt` is what an
intent says of its own time, by the signer's clock. `accepted` is history, for the
properties. What an intent covers is a value. The map's key is the text of the
signature as it was sent (`replay-cache.ts:53-59`). `expectHex` (`main.ts:189-194`)
takes hex digits of either case, and `verifyLoop*` every text that recovers to the
signer, so an intent has a set of texts (`Authentic`), and a request sends any text.

### Orchestrator.tla, MCOrchestrator.tla

`evaluateOrchestrator` as a fold: `Absorb` takes a tick's observations, settles
legs and prunes the budget; then the rules are evaluated one per action in
`ruleId` order (`NotObserved`, `Advances`, `Pauses`, `StaysPut`, `Moves`). An
observation says on which side of its threshold each metric is; sizes are whole
units of the book. A move takes at most a quarter of its source, or the rule's
own share of it when that is more (`PerTickCap`); the run's rules stay within the
quarter, as `MOVE_WEIGHT_CAP` asks of all but one rule, and the proofs cover both.
The derivation and validation of rules, and what is hashed into
attestation records, are left out.

### LaneGraph.tla, Canvas.tla, MCCanvas.tla

`LaneGraph` is the pure part of the build canvas: what a lane may hold, which
families and strategies it still may be, what `validateGraph` finds wrong, what
the surfaces offer, how a market is seated. A lane is a set of modules and a
market: wires are derived from the modules, and dials are left out. It covers all
families of the code; the run uses the two markets and three modules that
`lib/demo-scope.ts` offers. `Canvas` is `RackCanvas.tsx`: one action per handler,
together with the render and the effects it causes. `beat` is the one deferred
add or eject, `installs` what a pressed Install has still to seat, and the four
quote variables are the two refs, the requests in flight and what is shown. The
effect runs on a new portfolio object and on nothing else: handlers that only drop
a quote (`DropsQuotes`) do not ask for another. Shares are taken as exact
rationals where the code divides in floating point.

### Proof modules

LedgerSums, PriimeVault_proofs, InputsBlock_proofs, LoopDeployer_proofs,
LoopServer_proofs, Orchestrator_proofs, Canvas_proofs, Compositions_proofs; see below.

## What the runs show

Passing runs. `CHECK_DEADLOCK FALSE` appears where the system may rightly stop:
all mutations and nudges used up, all loops inactive, all searches ended.

| run | instance | shows |
|---|---|---|
| `vault` | 2 accounts, 2 envelopes, 2 blocks, NAV 0 or 3, amounts 1 and 2 with minimum 2, plans of up to one step, USDC up to 3, a token that may vanish | `TypeOK`, `StrikesInOrder`, `BooksBalance`, `ShareEscrow`, `QueuesMatchPending`, `BucketsCloseTogether`, `BootstrapNeverDust`, `NoDilution`, `StrikeSettles`, `ShortfallNeverGrows` |
| `vault_indexed` | a queue of one, an operator with allowances, NAV 0 or 2, two days, no vanishing token | `EscrowFloor` and the subgraph's `IndexedBooks`, `DailyLow` |
| `nav_cycle` | 2 accounts, 4 blocks, 3 prices, 2.5x leverage and the thresholds of the server's README, plans of up to 5 steps, 3 requests | `PricedAtWorth`, `PlansPayRedemptions`, `NeverOverLevered` |
| `service_alone` | 1 server, 3 workflows, 5 mutations, 2 nudges, 2 failures (a call that fails, a crash, a send that is repeated) | `NoResurrection`, which is about at most one failure; and, while no call fails, that `ServiceMutation` implements `ServiceDocument` (`EditsAreAtomic`) |
| `service_two` | 2 servers, 3 workflows, one addition or removal each | `NoLostWorkflow`, `MutationEnds` |
| `deployer` | 2 loops, 2 requests, 2 failures or crashes, 1 reverted deployment | `RecordedOnce`, `WorkflowMatchesRegistry`, `InactiveLoopStopped` |
| `deployer_live` | 1 loop, 2 requests on it at a time, 1 failure or crash | `ActiveLoopRuns`, `RequestsEnd`, `LoopSettles`, `EscrowIsSettled` |
| `inputs_block` | 2 operators, 7 blocks, 3 timestamps, lag 1, 2 readings of the head | `LastAtOrBefore`, `SameBlock`, `ProbesAreFew` |
| `replay_cache` | a publication with 2 texts and a pause with one, 3 requests, window 3, skew 1, 6 seconds, 1 restart | `ReplayNeedsClockAhead`, `ReplaysAreBounded` |
| `orchestrator` | 2 lanes, 4 rules of all three metrics, 6 ticks, budget window 3 | `WeightsInBand`, `TurnoverInBudget`, `LegsHoldBudget`, `NeverIntoCondemned`, `ReversalsWait` |
| `canvas` | 2 markets, 2 lanes, 3 modules, 6 presses, shares of 5 parts, undo of depth 2 | `AllocationsCover`, `PublishesOneProduct`, `QuoteIsComing` |

The bounds are small but reach the cases the properties are about. Two accounts
and two strikes are enough for a controller to be refunded, settled in part,
claim in between, re-bootstrap an empty vault and see a plan rolled back after
its redemption was booked; minimum 2 with amount 1 makes dust possible, NAV 3
makes every division round, NAV 0 makes deposits unpriceable. Three attempts of
`mutateService` (five in the code) suffice to lose, merge and run out. In `nav_cycle` the first price drop leaves the guards alone and the second trips
them, four blocks let an envelope be overtaken, and three requests a deposit be
followed by a partial and by a full redemption. A token that vanishes breaks
`EscrowFloor` by itself, so that property is checked in `vault_indexed` and the
bound on the damage, with `emergencyExecute`, in `vault`. Six ticks let a rule
fire, cool down and fire again while a leg settles and the budget window passes.
Six presses on the canvas are enough to build a lane, swap its market under a
pending add, undo and clear; five shares among two lanes do not divide evenly.
Seven
blocks make the walk back take three strides and the bisection two. Each
property is violated by a mutant of the code in its run (`PROJECT.json`,
"mutants"), so each run does reach the case.

Violation run. It checks what a comment of the repository says, and TLC finds a
behaviour of the code that contradicts it (`PROJECT.json`, "findings"):
`deployer_reverted` refutes `LoopSettles`. A deployment that reverted stays on
file, and every resume waits for it again.

The models also show the following, without a run of their own.

*Service mutation.* With two servers and three additions `mutateService` can drop one
that was reported, without any failure. A server that overwrote another's workflow
rescues it only where it still finds its own URI (`deployer.ts:348`). Where a third edit
came on top of its own, it counts itself as overwritten (`:374`), reads again, finds its
workflow there and returns; nobody looks for what it had overwritten. Nor is a merge
itself verified (`:352-362`).
With two failed calls one server can lose a workflow as well, as the transaction of a
failed wait lands after a later edit; and it can bring one back: the waits of a removal
and then of a nudge fail, the removal lands, a second try finds nothing to remove and
is reported, and then the nudge's older document lands. A nudge of a second server can put back a
document from before another server's edit, and a merge can bring back a workflow
another server removed.

*Deployment.* A server that stops between `submitDeployHandler` and `RecordsHash`
deploys a second vault when it resumes. A loop whose workflow landed before its
step was written is paused without its removal (`deployer.ts:151`, `:169`);
`InactiveLoopStopped` says exactly what holds. A resume after a removal that landed
and then failed activates a loop that does not run.

*Strikes.* A head at the trigger time ends the wait (`adapters.rs:144-148`) and
then fails the search, which requires a later one (`HeadNotPast`). With the
thresholds of the server's README, prices that breach `hf_floor` also fail the
drift check further down (`lib.rs:336`), so the breach that the comment at
`lib.rs:274-277` wants attested never is: the cycle fails. A breach that is
attested empties the plan, and redemptions that need an unwind are then rejected.
Outstanding refunds count in the NAV and not in the shortfall; a position under water
by a debt below 1 USDC, or with `applied_leverage` 0, passes the drift guard and is
attested at zero; a full exit whose swap
gives exactly its minimum is one unit short and is rejected. With collateral and no
debt an opening spends reserved redemptions (`lib.rs:613-617`): every strike's plan is
then rejected. The comment on `PlanRejected` says that fulfillments have landed,
but redemptions are booked inside the self-call and rolled back with the plan.
The comment at `lib.rs:488-492` says 20 bps where the division by 5000 gives 2.

*Replay.* The comment at `replay-cache.ts:10-12` promises that a second sight of the
same signature is refused. The map is keyed by the text of it, and another text of the
same signature is an entry of its own: both properties are about a text, and nothing
bounds a signature. One process acts twice on a text only if its signer's clock was
level with or ahead of the server's. A restart forgets the map, so each may let a text
through once more; with an early use that makes `2 + restarts` at most.

*Orchestrator.* A firing that is refused (dust, lock, budget, payback) has spent
its arm, and does not "retry next pin" as the comment at `rule-schema.ts:958`
says. A second move the same way may shorten the lock of the reverse edge. A
re-pinned lane starts its cooldown and hysteresis anew. Capital in flight may be
moved on before its leg settles. A lane that stops publishing keeps its legs, and
their share of the budget, open.

*Canvas.* An answer to a quote request is not compared with the lane's present
market, so a late one overwrites (`RackCanvas.tsx:974-982`; the comment at 2579
asks for more). The *requote* tip drops the quote, and nothing asks for a new one
until the portfolio changes (the comment at 3569 expects it at once); a deferred
add of a module already there does the same. `installDefaults`' timers outlive an undo. A
lane's id is taken again after its removal. An eject that another press cancels
leaves an undo step that changes nothing. Removing the lane that Discover was
opened for loses the next pick. The dock's module panel ejects a redemption route
that the rack and the list lock, so no property says that a finished lane stays so.
Clearing the canvas removes the browser's draft and not the one kept for the wallet.

## Fairness

The safety runs assume none that matters: invariants and action properties hold
of every prefix. `ServiceMutation` and `LoopDeployer` assume that a job's next
call is answered (`WF` of its step: the code awaits each call with a timeout,
and a call that fails is the separate action `Fail`, `Resent` or `PipelineFails`) and that
transactions are mined. `LoopDeployer` also assumes that somebody keeps asking
to resume a loop (`SF` of `resumeLoop`: other requests for the loop may switch it
off and on again); `LoopSettles` is about what such requests achieve.
A workflow that is installed strikes on its schedule (`WF` of
`EscrowSettles`), which `EscrowIsSettled` needs. Every other module has no
fairness; nobody has to strike, claim, press a key or answer a request for a quote.

## Proofs

TLAPS proves for every value of the constants, under the module's `ASSUME`:

- **LedgerSums** is what the other modules need of sums. The books, weights and
  shares are summed with the fold `SumFunction`, which is defined by recursion over
  a set of unknown size and cannot be unfolded. `IsSum` says of a total what the
  fold means: a table of partial sums that starts at zero and grows by one entry
  at a time. `SumFunctionIsSum` shows that the fold gives such a total for every
  finite domain, by a minimal counterexample among the subsets of it, and
  `SumIsUnique` that there is only one; the rest follows (one more entry, two
  functions added, a factor, a subset, a constant, a partition).
- **PriimeVault_proofs** (`VaultAssumption`: the accounts are finitely many, as
  addresses are, and the vault is none of them; amounts and NAVs are natural, the
  bootstrap minimum is positive):
  - `TypeCorrect`: `Spec => []TypeOK`. `TypeOK` is far from inductive: an amount
    stays natural only because the books add up. `IInv` adds that each aggregate
    is the sum of its book, that the shares held by the vault cover the pending
    redemptions and the unclaimed deposits, that a queue lists exactly who has
    something pending, and the escrow floor. Because a plan may be rolled back
    at any step, the parts it writes are predicates of a snapshot, asserted of
    the present state and, inside a plan, of `saved` too.
  - `BooksStayBalanced`: `Spec => []BooksBalance`; `SharesStayInEscrow`:
    `Spec => []ShareEscrow`, both from the sums of `IInv`.
  - `EscrowFloorHolds`: `Spec => []EscrowFloor`.
  - `QueuesStayInStep`: `Spec => []QueuesMatchPending`.
  - `StrikesStayInOrder`: `Spec => []StrikesInOrder`; only an envelope writes what
    orders the strikes, and its two guards suffice.
  - `SettlementNeverDilutes`: `Spec => NoDilution`, from the bounds of a rounded
    quotient.
  - `StrikeSettlesQueues`: `Spec => StrikeSettles`. The aggregate of an empty queue
    is zero because a sum of zeros is.
  - `BucketsStayTogether`: `Spec => []BucketsCloseTogether`. `Buckets` adds the
    snapshot, which a rejected plan restores.
  - `BootstrapStaysFunded`: `Spec => []BootstrapNeverDust`; the supply can only
    reach zero inside a plan, when the deposit queue is empty.
  - `ShortfallStaysBounded`: `Spec => ShortfallNeverGrows`, by the surplus over the
    floor that a rejected plan would leave.
  `BookSteps` sorts the steps by the books they write, so that each of these proofs
  looks at the few that matter.
- **InputsBlock_proofs** (`InputsBlockAssumption`): `Bracketed` proves the
  inductive invariant, that the head is too late, that the walk back stays at or
  below it, and that in the bisection the block below the interval is not too
  late while the one above it is. From it: `SearchTypes` (no bound leaves the
  chain), `FindsLast` (`LastAtOrBefore`) and `OperatorsAgree` (`SameBlock`). The
  type invariant is proved there and not run. `SearchIsCheap` (`ProbesAreFew`) has
  an invariant of its own: after k probes of the walk the stride is 2^k, and with
  m probes of the bisection left to allow the interval is shorter than 2^m. The
  provers know nothing of powers, so 2^n is taken as the number of parts of a set
  of n elements (`PowerIsParts`), from which it doubles (`PowerDoubles`) and exceeds
  n (`PowerExceeds`). The cardinality of a powerset is the library's
  `FS_SUBSET`, which is cited like its other theorems; the step 2^(n+1) = 2^n + 2^n
  inside its proof is one the library leaves unproved.
- **LoopDeployer_proofs** (no assumption on loops, requests or bounds is used).
  `Invariance` proves the inductive `Inv`; it is about what a request remembers
  across an await. `Alone` and `RowsAsRead` say that where requests do not overlap
  the row is still as it was read: no vault and no hash before `RecordsHash`, the
  vault held is the vault on file before `AddLands`, the loop not paused meanwhile.
  `Reached` says that a step or status that claims the service was reached has a
  workflow behind it or a removal under way, and needs no such restriction.
  `OneRecord` adds that a row with neither vault nor hash has no recorded
  deployment, which makes the second recording impossible. From it:
  `OneDeployment` (`RecordedOnce`), `WorkflowOfRegistry`
  (`WorkflowMatchesRegistry`), `ActiveRuns` (`ActiveLoopRuns`) and
  `InactiveStopped` (`InactiveLoopStopped`). The mutation queue plays no part in
  any of them: they hold in whatever order the edits land. `RowsNameTheirVaults`
  proves `TypeOK`, with any overlap: a row names only vaults and deployments of its own
  loop, a workflow strikes only a vault that exists, and the mutation queue holds, once,
  the requests that edit. It is proved there and not run. Beside `Inv` it takes
  `Named`, which says the same of what a request is about to write, and `Queue`, by
  which an edit that landed is that of the first request: that is why `PipelineFails`
  may take the head off the queue, or nothing.
- **LoopServer_proofs** holds the proofs of two parts of the loop server, which share
  no theorem.

  *ServiceMutation* (`MutationAssumption`; any workflows and attempts). First for
  one server, any budgets and failures. `SoleInvariance` proves the inductive
  `SoleInv`: a job waits for the last transaction there is, and nothing is pending
  behind its receipt (`Waits`); while at most one call has failed, at most one
  transaction has nobody waiting for it, and it brings nothing that was reported
  and is not in the document (`Orphans`); no document that the job, the chain or a
  merge may still use has a workflow that was reported removed (`Gone`); until a
  call fails, the document is as the job read it until its own transaction is mined
  (`Calm`). From it `RemovedStaysRemoved` (`NoResurrection`);
  `EditsRefineDocument` (`EditsAreAtomic`), where `BlockIsOneEdit` maps a block and
  `ReportsAsPromised` the end of a job to a step of `ServiceDocument`, and every other step
  is a stutter; and `AloneLosesNothing`, which is `NoLostWorkflow` for the one
  server and no failure.

  Then for two servers (`Pair`) that edit once each, without a nudge or a failure: the
  case of the run `service_two`. `PairLosesNothing` is `NoLostWorkflow` there, for any
  workflows, installed before or not, any attempts and blocks. What is inductive
  (`PairInv`) says where a workflow is that the peer has added: in the document, or in
  the job's own edit, or in an update after the job's checkpoint (`Restores`); that
  each document a job may have overwritten has what its peer is adding (`Rescues`); and
  that the document is as a job read it unless the scan of the job will see what it is
  now (`AsRead`). More edits than one each are not covered, and the property does not
  hold of them (see above).

  *ReplayCache* (`ReplayAssumption`: window and life of an entry are the
  same number, as in the code, and skew and recovery together are shorter, 60 seconds
  and a computation against 300; a signature signs one intent). `ReplayInv` ties history
  to the map: what this process acted upon is still in the map or at least `MaxAge` ago
  (`Remembered`), so two uses of a text by one process are that far apart (`UsesApart`);
  a request between its checks was fresh at most `RecoverySeconds` ago
  (`RecoveringFresh`), so every use lies in its intent's window (`UsedInWindow`); and runs
  come one after the other (`RunsInOrder`). `ReplayNeedsClock` follows from the first two.
  For `ReplaysStayBounded` the uses of a text are numbered, the first of each run by
  its run and any other by the number after the last: the window is shorter than
  the lives of two entries, so of all runs there is one such other use at most
  (`AgainOnce`), and its predecessor was early.
- **Orchestrator_proofs** (`OrchestratorAssumption`: finite slots, consistent bands,
  target weights that make a whole, R23, and a sustain of at least two pins, R15)
  proves one inductive invariant. `Bands` needs
  nothing but the clamp of a move. `Numbered` (commits and legs carry numbers
  below the counter, once each) makes `LegsHoldBudget` inductive. `FiredOnce` (what
  fired this tick has had its turn) and `EntersCalm` (the
  evacuation rules of a lane just moved into that are still to be evaluated have
  counted no pin) are what `NeverIntoCondemned` needs of a later rule of the same
  tick. `MovesNumbered` and `LocksAreLast` (the lock of an
  edge comes from the last move the other way) carry `ReversalsWait`.
  `NeverIntoCondemnedHolds` is false for a sustain of one pin: the assumption is
  what `sustain` of `rule-schema.ts` guarantees.
  `BudgetInvariance` adds the sums. `BookIsWhole`: a move takes from one slot what
  it gives to another. `Turnover`: each move of the window still has its commit on the
  budget, settled or not, as none is pruned before its window has passed
  (`MovesCommitted`); so the budget a move is sized against counts all of them. From it `WeightsStayInBand` (`WeightsInBand`) and
  `TurnoverStaysInBudget` (`TurnoverInBudget`).
- **Canvas_proofs** (`CanvasAssumption` and `LaneGraphAssumption`).
  - `SharesStayWhole` (`AllocationsCover`). `Sound` is what every portfolio is that a
    commit writes, and `CanvasInv` asserts it of the present one and of all on the
    undo stack. The work is in the two roundings. `RanksAreCounted` shows that a
    finite strict order has as many elements of rank below k as k says, whatever
    breaks the ties; so `LargestRemainderCovers` hands out exactly what the floors
    left over. `NormalizedCovers` and `SetShareCovers` carry it through `normalize`
    and `setShare`, and the even shares of an added lane are those of `normalize`.
  - `NoLaneWaitsInVain` (`QuoteIsComing`) is inductive with the domains of the quote
    tables. `StepsOfQuotes` sorts the actions by what they do to them: drop some,
    commit and run the effect, fire a timer, take an answer.
  - `NoOtherProductIsPublished`: over any catalog, a lane that may be published has at
    most the one product of its market, and none only where leverage was installed on
    a funding row; nothing the timers deliver late can break that, because
    `validateGraph` reads the lane as it is. `OneProductIsPublished`
    (`PublishesOneProduct`) assumes that no row is a funding row, which is so of the
    markets the demo opens (`liveMarketIds`, `lib/demo-scope.ts:91`).
- **Compositions_proofs** holds the proofs of the two modules that compose something
  with the vault. No theorem speaks of both, and neither part uses what the other
  assumes.

  *NavCycle* (`VaultAssumption` and `NavAssumption`; nothing is assumed of
  the token): `CycleInvariance` proves the inductive `CycleInv`, which extends `IInv`: the lemmas of
  PriimeVault_proofs are applied to each step of the cycle. What carries a price
  from its inputs block to the strike is `BackingKept`: a block that ended after
  the last strike still shows what backs the shares now, because a request brings
  what it adds to the escrow, a claim takes both away and a repayment spends what
  it takes off the debt. `BlocksEnded` makes that vacuous inside a strike, where
  the plan moves everything. `AttestedNavBound` bounds the attested NAV by the read
  amounts, the guards `CycleFails` exclude the cases where it was cut off at zero,
  and `Priced` carries the bound through the settlement of the deposits. From it
  `PricedAtWorthHolds` (`PricedAtWorth`) and `CycleEscrowFloor` (`EscrowFloor` of a
  vault whose NAVs and plans are those of the cycle; `PlanIsSteps` and
  `CycleStepStep` show that no step takes a balance below zero).

  Two more invariants stand on `CycleInv`, both of the plan in flight.

  - `PlanInv` (`PlanInvariance`): what is left of the plan is the end of the one
    `BuildActionPlan` built, and the position is where the plan found it, moved by the
    amounts of the steps taken (`PlanRuns`); and a fresh strike acts on the
    collateral it read, with at most the debt it read, as only repayments touch the
    position between strikes (`DebtKept`). `PlanShape` says which plans there are:
    nothing, a deleverage, a spot unwind, an opening. `OpeningShape` and
    `UnwindKeepsLeverage` bound what each does to the leverage: an opening borrows no
    more than its supply carries at the configured leverage, a deleverage repays the
    same share of the debt as it withdraws of the collateral, one unit off at most,
    and a spot unwind read at a debt of zero finds none. From it
    `NeverOverLeveredHolds` (`NeverOverLevered`).
  - `SizeInv` (`SizeInvariance`): while a fresh strike settles, what is booked and
    still owed is at most the balance its plan started from plus the shortfall it was
    sized by. `OwedOfRest` is the step of a settled redemption: the floors of the
    shares paid one by one never exceed the floor of the whole, so the order of the
    queue and the deposits minted before do not matter. `PlanFrees` is the
    other half: the cushion, the exit reserve and the slippage leave at least the
    shortfall less `Roundings`, for every price. The cushion of 100 bps plus 60
    per unit of leverage does not cover the slippage beyond a drifted leverage of 39x
    (`CushionSuffices`), and three floors lose up to three units, one more per par
    that USDe costs. From both `PlansPayRedemptionsHolds` (`PlansPayRedemptions`).

  *Subgraph* (`VaultAssumption` and `SubgraphAssumption`): what the indexer has seen
  is a log of events, and `IndexInv` says that this log, with what is in flight
  delivered now, accounts for the state of the vault. Inside a plan it says so twice: of the
  log as it grows, and of the log a revert leaves, for the vault that the revert
  restores. `FoldOfOneMore` takes one event at a time off the sums over the log,
  `EventAccounts` matches each event with the change of the vault it reports, and
  `StrikeLowers` does the same for the lowest NAV of a day. From it
  `IndexedBooksHold` (`IndexedBooks`) and `DailyLowHolds` (`DailyLow`).

Only model-checked: liveness (`MutationEnds`, `RequestsEnd`, `LoopSettles`,
`EscrowIsSettled`), which TLAPS does not reach. Every invariant and every action
property of the passing runs is a theorem, some under the conditions stated above.

## Not modelled

- The whitelist `_validatePlanStep` (the plans of `build_action_plan` pass it) and the
  constructor's checks. Tick mathematics, the TWAP window and interest.
- HTTP parsing and responses; what a signature covers.
- The subgraph's row-only handlers and its lag; the journal, a reader without
  state; the factory's list; HelloNavHandler, the skeleton the vault replaced.
- Config, catalog, IPFS and JSON helpers, which have no state of their own.
- The canvas' dials, copilot, template links, drafts and publishing, the catalog and its
  floating-point economics, copy and layout.
- `lib/vaults/store.ts`: a ledger of positions in the browser's local storage for
  the demo, next to the presentation of what the contracts report.
- Deployment scripts, which call external tools.

## Plan

1. *Store*: the local ledger of `store.ts` (deposit, pending withdrawal, settlement)
   against the queues of the vault.
2. *Drafts*: the canvas' local draft and the wallet's, written with a delay by two
   tabs, on top of `Canvas`; publishing through `LoopDeployer`.
3. *PlanWhitelist*: `_validatePlanStep` as the guard of `NavCycle`'s steps, with
   plans other than those of `build_action_plan`.
4. *Proofs*: how far late unwinds can lever a position, as a function of how many are
   on their way; the conditions under which `NoLostWorkflow` holds of servers that edit
   more than once each.
