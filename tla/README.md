# Nyan shop bot: specifications, model checking and proofs

This directory holds TLA+ modules of the Nyan shop bot, the TLC instances that check
them and TLAPS proofs about them. Paths below are relative to the repository; `nyan/`
stands for `src/nyan_shop_bot/`.

Contents: 1. the system; 2. modules and how they correspond to the code; 3. runs, bounds
and fairness; 4. theorems; 5. disagreements between code and documents; 6. observations;
7. what is not modelled; 8. plan; 9. running the tools.

## 1. The system

The repository is a mock-first reseller bot (FastAPI, aiogram, PostgreSQL, a React admin
application), a local runner that drives coding agents over a SQLite database, and a copy
of the browser script of a live editor those agents use for design work. Its parts, with the
state each keeps:

| Part | State | Operations | What is hard | Modelled |
|---|---|---|---|---|
| **orders, purchase** (`nyan/orders/service.py`, `repository.py`) | intent and attempt rows in PostgreSQL; the supplier's obligation | `place_order`, `recover` | calls race on one idempotency key, die at any await, hear nothing from the supplier, recover each other's orders | `Orders`, `Promise` |
| **orders, delivery** (same files) | delivery attempts | `deliver` | couriers race for the next number; a crash after the sink was called | `OrderDelivery` |
| **VietShare write gate** (`nyan/suppliers/vietshare/pg_gate.py`, migration `20260925_0004`) | control row, journal, signing attempts, audit | `prepare`, `claim`, `finish`, `mark_reconciling`, the offline executor | one real test at a time under an arming the owner can change at any moment; late and lost answers; database time | `VietShareGate` |
| **VietShare write journal** (`write_journal.py`, `write_orders.py`) | SQLite journal, used nonces | `prepare`, `submit` in four transactions, `mark_interrupted_unknown`, `get_delivered_order` | crashes between transactions, a recovery next to a live dispatcher, Retry-After | `WriteJournal` |
| **orchestrator, run control** (`nyan/orchestrator/service.py`, `store.py`, `adapters.py`, `agent_process.py`, `cli.py`) | runs and claims in SQLite; lease and registered launcher of each run; files of the start barrier | start, pause, resume, stop, the controller's loop around a model process, containment by a watchdog | four kinds of processes, each of which may die between two transactions | `RunControl` |
| **orchestrator, phase loop and usage ledger** (`service.py`, `store.py`, `gitops.py`, `github.py`, `adapters.py`) | phase, HEAD, review and fix rounds of a run; its worktree, event files and fix requests; the ledger of invocations | worker, CI, review, merge and delivery steps, `record_invocation_usage` | a controller dies between any two writes; recovery tells from files and commits what was done | `RunPhases` |
| **catalog curation** (`nyan/catalog/curation/`, `admin/src/catalog-curation-state.ts`) | one versioned document; the draft in each admin's browser | fetch, edit, undo, save | concurrent admins, lost answers, a save that commits after its browser gave up | `CatalogCuration` |
| **admin overview** (`admin/src/catalog-state.ts`, dashboard) | selected source, two panels, fetches on their way | select, retry, reload | answers overtaken by a selection; effects that run later than the state they were started for | `CatalogView` |
| **mock checkout** (`MockCheckout.tsx`, `mock-checkout-api.ts`, `orders/mock_checkout.py`) | a pending key, the shown order, the request lock | place, retry, reconcile, history | lost answers, a view left while a request is out | `MockCheckout` |
| **live editor, sessions** (`.agents/skills/impeccable/scripts/live-browser.js`, `live-browser-session.js`) | session record in storage, state of the script, timers, the page | pick, Go, accept, discard, resume, the event stream | answers, events, hot reloads, source reads and page loads in any order; recoveries minutes later | `LiveTab`, `LiveSession` |
| **live editor, copy edits** (same script) | the dock of pending edits, an apply kept in session storage | edit, save, Apply, Keep fixing, Rollback, discard | a flag that freezes the editor, set and cleared by answers and by events | `CopyEdits` |
| **storefront and bot** (`catalog/curation/service.py`, `catalog/storefront/`, `bot/`) | none of its own | list, detail, paging | the document and the suppliers are read at different moments | no |
| **supplier readers** (`suppliers/*/catalog_reader.py`, adapters) | nonces of VietShare | one bounded read with retries | partial answers | their answer, in `CatalogCuration` and `CatalogView` |
| **wiring and presentation** (`main.py`, `config.py`, viewer, scripts, the rest of the live editor) | | | | no |

They interact as follows. The HTTP and Telegram doors of the mock checkout call
`OrderExecutionService`, which reads the catalog twice, writes an order and asks a supplier
port. The gate and the journal are two generations of the write side of one supplier: both
keep a row per operation that must agree with what a supplier, who answers late or never,
has done. Catalog curation lets admins publish the document the storefront shows and reads
the suppliers each time it does; the overview shows what the suppliers return. The
orchestrator is separate: operator commands, controllers and model launchers share nothing
but the SQLite rows, a few files, and what the operating system says of a process. The live
editor is separate too: a script in a browser tab that posts to a live server and hears its
event stream; server and agent are not in the repository.

What makes each part correct:

- *orders*: one purchase per idempotency key; SUCCEEDED and FAILED_SAFE tell the truth;
  nobody pays more than the cap sent with *their* call; what was ambiguous is settled
  when people persist; a delivery key reaches the sink once.
- *gate*: at most one test whose outcome is open, one dispatch per arming, every order at
  the supplier accounted for in the journal, frozen tests stay frozen, and the wait an
  in-progress answer asks for is kept.
- *journal*: the same for operations that may be retried, under the operator's duty to
  make sure a dispatcher has stopped.
- *run control*: one controller per run; whatever can write a worktree is registered, so
  that stop and resume know of it; a claim is released only when nothing writes, and not
  kept by a stopped run; limits hold; a pause or stop reaches the model.
- *phase loop*: what reaches the owner passed CI and review as it is; a death costs no
  commit, no token and no fix request.
- *curation*: no revision is overwritten by somebody who did not start from it; what is
  shown as saved is published; answers do not eat edits.
- *admin page*: panels show the selected source and leave loading; a key the server may
  have acted on is kept for the retry.
- *live editor*: a session that was accepted or discarded does not come back, no recovery
  takes newer work from the user, and the end of a generation or of an apply is not waited
  for in vain.

`PROJECT.json` lists every hazard with the line where it bites and the properties that
would catch it.

## 2. Modules

Conventions. An action is the code between two points where something else may run: two
awaits, two transactions, two looks at the operating system, two callbacks of a browser. A
transaction that holds the lock of its row is one action. Locals that are used after such a
point are variables of the process (`draft`, `answer`, `job.saw`), because what they say may
be stale by then. A call that raises goes back to being idle; what distinguishes one
exception from another is not state. Operators commented "Mutant" are plausible wrong
versions of the definition after them: each property is known to fail when one of them is
put in its place.

Four modules compose parts that share no state, or share it through a step that one of them
already takes at any time: `VietShareWrites`, `Orchestrator`, `AdminConsole` and
`LiveEditor`. A behaviour of such a composition is one of its parts, chosen by a variable
that never changes; each says why nothing is lost by it.

### Orders, Promise, OrderDelivery

`Orders` has a program counter and locals per call. `PlaceOrder`, `ReadDetail`, `Prepare`,
`Claim`, `Purchase` (or `WithdrawDispatch`) and `RecordPurchase` are the stretches of
`place_order` between its awaits; `Recover`, `MarkUnknown`, `BeginReconciliation`,
`Reconcile` and `RecordVerdict` those of `recover`. `RecordUnknown`, `RecordTerminal`,
`SetPurchaseState` and `InsertPrepared` are the repository transactions. The intent row and
its only attempt are written by the same transactions and are one row here. `Crash` ends a
call anywhere; `CatalogChanges` and `RuntimeFlips` change what calls read. The supplier is
truthful about what it holds at the moment it answers (an assumption on whatever is behind the port of `orders/ports.py`),
and may answer nothing.

`LiveRecovery` says whether `recover` may be called while another call still dispatches
the order. The code does not prevent it; what holds depends on it (sections 3 and 5).

`Promise` is what a caller may rely on per key: accepted once, attempted once and never
after settlement, settled once by evidence that agrees with the obligation. `Orders`
implements it with `accepted <- payload`, `attempts <- purchases`, `outcome <- evidence`.

`OrderDelivery` extends `Orders` with couriers running `deliver`: `Deliver` is the
transaction that draws the next attempt number, `Send` the sink (which may take a notice
and fail to confirm it), `Finish` the record of the result. `FairDeliverySpec` is the
composition with the fairness of `Orders`.

### VietShareGate, WriteJournal, VietShareWrites

`VietShareGate` has one action per gate method, each of which locks the control row first.
`Arm` and `Disarm` are the owner's updates of that row; `Claim`, `Send` and `Finish` are the
executor's `submit`; `Late` lets the supplier act on a request whose answer was lost. Tests
have at most one order because journal identity is immutable (database triggers); this is
why the hash comparisons of `claim` cannot fail and are left out. FAILED_SAFE is in the
schema but no code writes it. The audit log is written in the same transactions and never
read. Any answer may ask for a wait (`Replies`), but only that of an in-progress one becomes a
deadline (`RetryNotBefore`; section 6).

In `WriteJournal` the four transactions of `submit` are `BeginAttempt`, `Sign`,
`SendRequest` and `FinishAttempt`, with `MarkInterrupted` (`mark_interrupted_unknown`) and
`Lookup` (`get_delivered_order`) next to them. `finish_attempt` names the operation and not
the attempt: `FinishAttempt` writes for whichever dispatcher the row is out to.
`LiveRecovery` is the set of operations that are recovered although their dispatcher is
still alive. `OneDispatcher` states what operators get for making sure of that with the
others.

`VietShareWrites` puts the two next to each other (`path`).

### RunControl, RunPhases, Orchestrator

In `RunControl` processes are controllers and operator commands; each has a place `at` and a
`job`: the run, the owner's goal, what follows (`then`) and the row as it was last read
(`saw`). Launchers have the state of their process. Controllers acquire the lease, read the
owner's wish at checkpoints, launch a model behind a start barrier, register it, let it go,
poll it and deregister it once its process tree is contained. Commands start, pause, resume
and stop runs, and clear what dead processes left. `SharedStep` holds the procedures both
use: `_stop_run`, `_release_claim_if_agent_idle` and the clearing of a stale launcher.

Every resumable phase but OWNER_MERGED is `WORKING` there: what a phase does to its worktree
is one step, `Advance` or a launch. MERGE_PENDING_CONFIRMATION, which no code enters, is left
out. Each element of `Controllers` and `Launchers` is one incarnation, because pid and
token (or nonce) are compared together. `QuickResume` says whether a controller may start
while a launcher left by an earlier one still waits at its barrier, for 30 s at most.

`RunPhases` is the work of one run, one action per write: `pc` is where the controller is
between two of them. The row (`run`), the `ledger`, the worktree (`tree`), the event files
and their `streams`, the fix `requests` and the `pull` request outlive a controller; `mem` is
the stream it has in hand. `Dies` and `TakesOver` replace it at any point: one controller at a
time, and none while an agent runs, is what `RunControl` shows. A pause is a death without a
crash. Everything that raises is `Fails`, which blocks the run. A HEAD is the count of the
runner's own commits; an agent uses one token, which the provider reports per turn, as a
total of its session (`cumulative`), or not at all; the ceilings are the same for both roles.

`Orchestrator` puts the two next to each other (`half`). They write disjoint columns of a run
except for its phase, of which `RunControl` has the coarser view.

### CatalogCuration

`ui` is what `useCatalogCurationState` keeps, `fetch` the workspace request it waits for,
`save` its save requests from the press of the button to the answer, including those nobody
waits for any more. The server has three steps: `FetchLoads` reads the document,
`SaveChecks` validates a save against what the suppliers return then, `SaveCommits` is the
conditional insert or update. A listing is its order, its offers and one of three
contents: hidden, visible, or incomplete (what `validateDraft` refuses). The suppliers
return any subset of offers, with or without a failure, at each read. `origin` is
`baseline.current`, which the hook uses while a draft is shown. `Patient` editors do not
leave the view before a save is answered.

### CatalogView, MockCheckout, AdminConsole

`CatalogView` is `useCatalogState` with its two effects. `RunEffects` is React running what is
due: the cleanup of an effect aborts its fetch some time *after* the state change that made
it stale, so an answer (`Answer`) may come in between; both the abort flag and the
comparison with the request's version are in the model. The dashboard adds the retry
buttons, `theme.ts` the stored theme.

`MockCheckout` is the component with its request lock, its pending key,
the continuation of the request it waits for (`Continue`) and the routes behind it, each of
which is one step that a crash of the server may cut short (what happens inside is
`Orders`). A component that is left loses its state, not its requests. `drawn`, `told`,
`cycles` and `sent` are history.

`AdminConsole` is `App.tsx`, which shows the overview, the curation or the checkout: a
behaviour of it is one of these three (`part`).

### LiveTab, LiveSession, CopyEdits, LiveEditor

`LiveTab` has the state of the script in one tab as a record and its handlers as functions
from one such record to the next, named like the functions of the script: a handler runs to
its end before another starts, and what it puts off (a timer, a fetch, an observer) is left
as a task. `LiveSession` runs them: the user, the requests, the live server with its event
stream, the agent that rewrites the source files, and page loads that lose all but storage.
`Superseded` (`deferredRecoverySuperseded`) is the guard of every late recovery.

A page is static or owned by a framework with hot reloads (`framework`), which decides who
puts a wrapper on the page and who takes it away. Server and agent are external definitions:
what they may do is taken from what the script posts, which events it handles and what it
expects of them. `told` and `late` are history: a toast has told the user what became of a
generation; the deferred-wrapper scout took the session up after the stream was connected
(section 6). The sessions of a page are taken to change one source file.

`CopyEdits` has the dock of pending copy edits (`ui`), its requests (`calls`), the server's
events (`feed`) and the external server's count of staged edits and apply job. Functions of
`ui` are named like those of the script; `Loading` and `NotLoading` are the two halves of
`setPendingApplyLoading`. Requests with `keepalive` outlive their page, unheard. `missed` and
`ui.stuck` are history: the end of an apply went unheard, or a count froze the editor while
the user was to decide (section 6).

`LiveEditor` puts sessions and copy edits next to each other (`part`). The one thing an apply
does to a session is to keep the user from acting, and the user of `LiveSession` may always
wait.

## 3. Runs

TLC explores each instance completely. "States" are distinct states.

| Run | Instance | States | Shows |
|---|---|---|---|
| `orders_supervised` | 3 calls, 2 requests, 2 offers, 2 ports, 2 references, no live recovery | 479 112 | a purchase is for its caller's request and cap; FAILED_SAFE is true; `Promise` is implemented |
| `orders_live_recovery` | 2 calls, 1 request, live recovery | violation | FAILED_SAFE can be false (section 5) |
| `orders_persistence` | 2 calls, 1 request, live recovery, 1 courier with 2 attempts, fairness | 37 768 | one purchase and no false SUCCEEDED even so; a delivery key is sent once; ambiguous orders settle; PREPARED ones resume |
| `vietshare_writes` | gate: 2 executors, 2 tests, 4 intents of which 2 conflict, 3 nonces, 2 timestamps, totals under and over the cap, one clock tick. Journal: 2 callers, 2 operations (one recovered live), 3 requests of which 2 conflict, 3 nonces, one clock tick | 947 128 | all properties of gate and journal |
| `run_control` | 1 run, new or an older CI failure, 2 controllers, 2 launchers, 1 operator, fairness | 762 336 | registration, release of claims by controllers; pause and stop reach the model |
| `run_control_barrier` | as `run_control`, with `QuickResume` | violation | an unregistered writer (section 5) |
| `run_control_half_stop` | as `run_control`, no fairness | violation | a writer without a claim (section 5) |
| `run_control_two_shells` | 1 new run, 2 controllers, 2 launchers, 2 shells, no fairness | violation | a claim released under a live launcher (section 5) |
| `orchestrator` | control, without launchers: 1 new run under 2 shells and 2 controllers, or 3 runs of 2 tasks, one an older CI failure, under 1 shell and 1 controller; 2 workers. Phases: 2 fix rounds, 5 invocations, 3 tokens per role, 2 deaths | 2 143 275 | leases, limits of claims, no claim of a stopped run; what reaches the owner is proven; commits, tokens and fix requests survive deaths |
| `orchestrator_review` | as `orchestrator`, 1 shell and 1 controller | violation | a completed review is repeated (section 5) |
| `admin_console` | overview: both sources and 3 clicks. Curation: 2 admins (1 patient), 2 revisions, 1 save each on the way, with 1 listing and 1 offer; or 1 admin with 2 listings and 2 offers before the first revision. Checkout: 2 orders, 2 visits, 4 requests | 957 948 | panels are of the selection and settle; no lost update, what is shown as synchronised is published, edits survive answers; no order is forgotten, doubled or shown with an outcome that was not final |
| `live_editor` | 2 sessions, 1 variant, 2 page loads, 2 faults; 2 staged edits, 2 requests at once, 2 page loads, 1 fault | 5 199 445 | handled sessions stay away; recoveries interrupt nothing; generations and applies are not waited for in vain |

**Bounds and why they are enough.**

- *Orders*: two calls show every race on a row; the third lets a retry, a recovery and the
  original dispatcher meet. Two requests differ in their cap and two offers in their price,
  so a row inserted by one caller can be too dear for another; two ports make a supplier
  mismatch possible. One key suffices since no transaction touches two orders. Live recovery
  with any number of calls is covered by the theorems that do not assume it away. Two
  delivery attempts are an abandoned one and the next.
- *VietShareGate*: two tests are needed for "one unresolved", and the two conflicting intents
  reuse the id of one test and the key of the other. `Nonces` bounds attempts: three let
  one test be retried twice, or once between two others. `MaxTime` bounds the clock: one tick
  separates "before" from "after" a deadline. `Totals` has a value within and one above the cap.
- *WriteJournal*: the same reasons; `Delays` holds a wait of zero because the code turns a
  missing or zero Retry-After into a second. Executors and callers, and their nonces, share
  model values so that one symmetry serves both halves of `vietshare_writes`.
- *RunControl*: two controllers are a dead one and its successor, two launchers the one it
  left and the next. Elements of both sets are used up; a behaviour that needs a third
  stops, hence `CHECK_DEADLOCK FALSE` (a run that is over has also nothing left to do). One
  command with one operator still meets both controllers, all launchers and its own abortion
  at each step; that is what liveness can be checked with. Two shells, or two operators, are in
  `run_control_two_shells` and in `orchestrator`, which has no launchers because claims are
  taken by commands and released by whoever stops or ends a run, and leases are of
  controllers. `FewAtOnce` splits that instance: two commands at once concern one run (the
  others wait or are blocked), and the competition for claims needs no second shell, as a
  command takes a claim in one transaction. The theorems of section 4 hold for any number of
  shells.
- *RunPhases*: two fix rounds are one that CI asks for and one that a review asks for, in
  either order. Five invocations are worker and reviewer of three rounds less one, so that
  the budget ends some behaviours. Two deaths (`MaxDeaths`) are one in the middle of what the
  successor of the first recovers. The budgets are the code's own limits, `MaxDeaths` is the
  only bound that is the model's.
- *CatalogCuration*: `MaxRevision` bounds the document: an editor who has reached it does not
  press save. Two revisions distinguish the first save, an insert, from a later one, an
  update. `MaxInFlight` bounds a tab's saves on the way: several of them at once are covered
  by the theorems. `SmallOrAlone` splits the instance: races need two admins but not two
  listings, and the order and the offers of several listings need no second admin. Of two
  admins the one who is not patient always sees the offer and drafts nothing incomplete: what
  `validateDraft` refuses is met by the other, and by an admin alone.
- *Overview and checkout*: three clicks are a read overtaken by a second that is overtaken by a third;
  two visits let an answer come to a checkout opened anew, and the second key is drawn by a
  "new order" while the first is still pending.
- *LiveEditor*: two sessions are a newer one and the older one whose recoveries are still
  due. Faults (a lost request or connection, a failed read or agent, an unmounted component)
  befall the first session, and a second follows only where there were none
  (`Fault`, `Another`); the second session is never decided on (`MaxDecided`). `FewRequests`
  keeps at most two requests on their way at once. `Retries` and `HandledLimit` are 1 and 2
  where the script has 3 and 8: with two sessions no handled one is forgotten, and a retry
  after the last is the same after any number. Two edits
  let an edit be staged while another is being applied or decided on, and one of two fail to
  apply; two requests are an apply and an answer that crosses it.
- *Deadlock* is checked except in the instances with `CHECK_DEADLOCK FALSE`: those of
  `RunControl`, `Orchestrator` (a run that is over is left alone), `VietShareWrites` (a settled
  journal without unused nonces has nothing left to do), `AdminConsole` and `LiveEditor` (the
  last visit is over, the last page loaded).
- *Symmetry* is used for sets whose elements are interchangeable, and never in a run that
  checks liveness.

**Fairness.** Three specifications state fairness.

- `Orders!FairSpec`, with couriers `FairDeliverySpec`. `CallFairness`: the event loop runs a
  call that has started (weak fairness of each call's steps). `RecoveryFairness` and
  `RetryFairness` are assumptions on people and on the supplier, not on the code: operators
  ask for the recovery of an ambiguous order again and again, a customer keeps sending a
  request whose order is PREPARED, an unsafe runtime mode is put right, the supplier does not
  evade forever. They are strong because a crash may interrupt each attempt; that infinitely
  many attempts do not all fail at the same place is the weakest assumption under which
  recovery can finish. The properties then say that no *state of the database* stands in the
  way: without a second purchase, and in `PreparedResumes` only as long as the catalog stands
  by the price of the order.
- `RunControl!FairSpec`. A controller's loop sleeps at most a second at a time and waits for
  nobody, and the watchdog is a process of its own: both are weakly fair. Commands, models
  and time limits promise nothing, and crashes are not fair. `ControlReachesTheModel`
  therefore speaks of a model that never ends by itself and a controller that stays alive.
- `AdminConsole!ConsoleSpec`. React runs pending effects (`ReactRuns`), and a fetch of the
  overview ends, if only by failing (`ReadEnds`). The operator promises nothing; `MaxClicks`
  makes a last click, after which `OverviewSettles` must hold for good.

The live editor has no fairness: whether a generation ever ends is up to an agent outside the
repository. Its waiting properties are invariants instead: in every state that waits,
something that will end the wait is on its way, or the user has been told.

## 4. Theorems

Every theorem holds for all values of the constants that satisfy the named assumptions of
its module, and tlapm checks each proof to its last leaf.

| Module | Theorem | Says |
|---|---|---|
| `OrdersProofs` | `TypeCorrect` | `TypeOK` |
| | `PurchasedAtMostOnce`, `SucceededOrdersAreOwed` | for any number of calls and any use of `recover` |
| | `PurchasesAreTheCallers` | a purchase is for its caller's request and cap |
| | `FailedSafeOrdersAreNotOwed`, `DispatchersRecordTheirEvidence`, `OrdersKeepPromise` | under `~LiveRecovery`: truth of FAILED_SAFE, evidence is not lost in a conflict of states, and `Orders` implements `Promise` |
| | `DeliveryKeysAreSentOnce`, `NoticesAreOfOwedOrders`, `DeliveriesWereTaken` | for any number of couriers and crashes: a key is sent once, a notice is of an order that succeeded and is owed, a delivery recorded as SUCCEEDED was taken |
| `VietShareGateProofs` | `GateTypeCorrect`, `OneTestAtATime`, `AttemptsFollowDispatches`, `OneClaimPerArming` | the discipline of dispatching |
| | `SuccessIsCapped`, `OrdersAreAccountedFor`, `FrozenTestsStay` | the agreement of journal and supplier |
| | `InProgressWaitsAreHonoured` | the wait of the last in-progress answer is kept |
| `WriteJournalProofs` | `JournalTypes`, `DispatchersAreAlone`, `NoncesAreSentOnce` | one dispatcher of an operation, one signed request per nonce |
| | `CompletedOrdersAreOwed`, `RefusedOrdersAreNotOwed` | the truth of COMPLETED, and of REJECTED after one signed request |
| | `InProgressDeadlinesAreHonoured` | the wait of the last in-progress answer that was recorded is kept, across crashes too |
| `RunControlProofs` | `ControlTypes`, `LeaseIsHeld`, `ClaimsStayLimited` | for any number of operators, controllers and runs |
| | `WritersAreRegistered` | under `~QuickResume`, for any number of each |
| | `ControllersReleaseIdleWorktrees` | under `~QuickResume`, for any number of each: a controller releases a claim with nothing writing the worktree |
| | `StoppedRunsHoldNoClaim` | for any number of each: a stopped run, unless an older release left it blocked, holds no claim |
| `RunPhasesProofs` | `PhasesAreTyped`, `TokensAreKept`, `AgentsStayInBudget` | for any budgets and deaths: tokens are not erased, no more agents are launched than counted |
| | `HeadsAreRecorded`, `ReadyRunsAreProven`, `FixRoundsAreAnswerable` | commits survive; what reaches the owner was tested and reviewed as it is; a fix round has its request |
| `CatalogCurationProofs` | `CurationTypes`, `UpdatesAreNotLost`, `SyncedDraftsArePublished`, `AnswersKeepEdits`, `ConflictsAreOfReplacedDocuments` | for any number of admins, listings, revisions and saves on the way |
| `AdminConsoleProofs` | `ViewTypes`, `PanelsFollowTheSelection` | for any number of clicks and reads on the way |
| | `CheckoutTypes`, `UntoldOrdersArePending`, `CyclesHaveOneOrder`, `ShownFinalsAreFinal` | for any number of orders, visits and requests |
| `LiveEditorProofs` | `FrozenEditorsArePursued` | for any number of edits, requests and faults |
| | `HandledSessionsAreOver`, `RecoveriesInterruptNothing` | for any number of sessions, variants, page loads and requests, and any size of the list of handled sessions |
| | `EndedGenerationsArePursued`, `RecordsAreOfTheSession` | for as many, and any number of variants, retries and reconnections |

**Assumptions.** They say that absent values differ from present ones, that amounts, delays,
budgets and bounds are numbers, that sets that are counted are finite, that `--max-workers` is 1
or 2 (what `cli.py` accepts; the model has one limit for all runs), that controllers are no
commands, and that the two discipline constants are Booleans. TLC evaluates all of them.

One hypothesis is more than that, and it is needed. `QuickResume = FALSE` says that a dead
controller is not replaced within the barrier time of the launcher it left: without it TLC
finds `WriterIsRegistered` violated (`run_control_barrier`). The number of runs, controllers,
launchers and operators with their shells is arbitrary in every theorem about `RunControl`.

**Arguments.**

- *Orders.* `OrdersInv` adds to the two invariants that a key has one dispatcher
  (`OneDispatcher`), that nothing was purchased for an order not yet claimed
  (`NothingBeforeClaim`), that a call about to purchase has not been preceded
  (`AuthorityIsUnused`) and that a success heard is owed. `AtMostOnePurchase` alone is not
  inductive: it does not exclude two calls at `purchase`. `SupervisedInv` adds, without live
  recovery, that a dispatcher finds its row DISPATCHING and no recovery next to it; that is
  what makes a failure that was heard still true when it is recorded. The refinement uses
  it in each step: `Prepare` maps to `Accept`, `Purchase` to `Attempt`, `RecordPurchase` and
  `RecordVerdict` to `Settle`, everything else to a stutter. `CallerInv` follows a
  request from the check of its cap to the claim of a row with an equal payload.
- *OrderDelivery.* `DeliveryInv`: a courier about to send is the first to send under its key
  (`SendersAreFirst`), and what was sent belongs to an attempt that has its row
  (`NoticesAreOfAttempts`). That a courier dies between sending and recording is harmless: the
  next one draws another number, hence another key. It is also why `finish_delivery` writes the
  truth: what a courier was told is of its own notice (`ConfirmedIsTaken`), and notices stay.
- *VietShareGate.* `Discipline`: the only executor at work holds the only open
  attempt, that of the only DISPATCHING test, and an arming that let it through is spent.
  `Ledger`: keys of prepared tests are distinct, the supplier has only been asked for
  tests that were dispatched, what was heard as completed is owed, and frozen tests are
  parked in RECONCILING. `Punctual` adds that the journal's deadline, or the answer an
  executor is about to record, covers the wait of an in-progress answer.
- *WriteJournal.* Four layers, each proved from those before. `BasicInv`: types, coherent
  rows, distinct keys. `SigningInv`: what was sent had reserved its nonce, and what is signed and not yet
  sent was never sent. `SupplyInv`: an operation the supplier was asked for had its request sent;
  a completion heard is held by the supplier, and a rejection after the supplier was asked takes
  two signed requests. `WaitInv`: an operation without live recovery has one dispatcher and stays
  DISPATCHING under it, and the journal's deadline covers a wait that is not over.
- *RunControl.* `ControlInv` strengthens `ControllerHoldsLease` by what makes a clearing
  safe although it relies on an earlier look: a process that clears a lease saw its
  controller dead (`CleanersSawDead`), death is permanent, and only a controller that was
  born can hold a lease. Claims grow only in transactions that count them.
  `RegisterInv` is about launchers: whoever waits at the barrier is held by it (`WaitersAreHeld`),
  a launcher that was started or attached is the one its controller registered
  (`StartedIsNamed`, `AttachedIsNamed`), and whoever clears a registration saw the process
  contained (`ClearersSawContained`). `EndInv` is about the ends of a run. A controller
  between its look and its release holds the lease, and only the holder of the lease has a
  launcher registered, so what it found is still so (`ReleasersFoundNone`); what may write is
  registered (`RegisterInv`), hence nothing does. A command has no lease, which is why the same is
  not true of it (section 5). Whoever is about to write STOPPED has released the claim, and
  a claim that was released comes back only with the reclaim of a CI-blocked run of an older
  release (`StopInv`).
- *RunPhases.* `PhaseInv` follows a round from the store to the files and back:
  an unfinished round is at the HEAD of the round before or one commit after it
  (`RoundIsAtParent`), reviews come after it and are of its HEAD (`ReviewsComeLast`,
  `ReviewIsOfHead`), evidence is of the HEAD as it is (`EvidenceIsOfHead`), the only turn that
  ended and is not in the ledger is that of the agent in hand, which the successor finds
  (`UnrecordedIsInHand`), and an agent that runs has been counted (`InvocationsAreCounted`).
- *CatalogCuration.* `RevisionsFit`: a revision names one content. Views, fetches and
  saves that carry the document's revision carry its listings, and a save
  answered as "saved" tells the next revision's. So what replaces the document must have
  started from it. `PatienceInv`: an editor who stays has one answer due at a time. While a
  draft is shown no fetch is on its way, and an awaited save means a draft that
  says "saving" and takes no edits. So the save is of the draft as it is shown
  (`ConflictsAreReal`), and the conflict told on that draft is its own.
- *CatalogView, MockCheckout.* A panel that loads or shows is of the source the last effect
  was run for (`PanelFollowsEffect`), and answers are compared with the version of that effect.
  A key that the page drew and was never told about is the pending one (`KeyIsPending`); a
  visit has drawn no more keys than cycles begun (`KeysAreOfCycles`); an answer that waits to be
  taken up is awaited (`RepliesAreAwaited`) and tells no final outcome that the server does not hold
  (`AnswersAreFinal`).
- *Live editor.* Sessions: every recovery on its way carries a revision not ahead of the tab's,
  and a strictly earlier one while the user configures (`Settled`), so `Superseded` voids it.
  The session at hand is not listed as handled (`CurIsOpen`), nothing knows of a session not
  yet started (`Sound`), so a fresh id cannot be listed either. This holds through all
  functions of `LiveTab`: one lemma each, composed as the handlers compose them.
  `EndedGenerationIsPursued` is far from inductive, since what tells a tab of an end is
  handed from event to timer to read, and a session may be left and restored in between.
  `PursuitInv` says what each of these relies on. Of the tab (`Tidy`): the stored
  record is that of its session, so a page load restores that one; the scout waits
  only while the session has no wrapper; a retry is only made for what has ended. Of
  the stream (`StreamInv`): a list of sessions comes first, and an end it misses is
  announced behind it, so no end falls between connection and list. Of the source
  (`SourceInv`): what has ended is complete or was taken out, so the read that
  follows finds all or nothing. Of the wait (`Followed`): `Chased` is the property with the
  tasks split by kind of page; `AllCounted` is about the tab that has counted every variant and
  may lose them again, which happens on a page of HTML when a read of an older session
  replaces the wrapper: the wait then falls under `Chased`, so an announcement or a read
  of the tab's own session has to be there already. `SessionInv`, of the theorems before, adds that
  what is read or timed is of a session that was started. Copy edits: an
  apply that the tab takes for a running one, or would after a page load, runs, or its end is on
  its way (`HeldIsPursued`); between an event that freezes and that end nothing else ends the
  apply (`FreezingIsEnded`).
- *Compositions.* `VietShareWrites`, `Orchestrator`, `AdminConsole` and `LiveEditor` run parts
  that share no state. That each behaviour of the whole is one of each part is a lemma
  (`WritePathsAreIndependent`, `HalvesAreIndependent`, `ViewsAreIndependent`,
  `EditorPartsAreIndependent`), so every theorem about a part is one about the run's
  specification.

**Only model-checked.** Liveness (`AmbiguousSettles`, `PreparedResumes`,
`ControlReachesTheModel`, `OverviewSettles`). `CompletedReviewIsNotRepeated`, `WriterHoldsClaim` and
`ClaimIsReleasedIdle` are violated (section 5). Every invariant and every action property of a
passing run is a theorem. Five theorems are about properties no run lists: `NoticeMeansOwed`,
`DeliveredIsTaken`, `EvidenceIsRecorded`, `ConflictMeansReplaced` and `RecordIsOfSession`
were checked by adding them to the cfg of `orders_persistence` (the first two, with
`DeliverySpec`), `orders_supervised`, `admin_console` and `live_editor`. `PursuitInv` was
checked with TLC before it was proved, in instances other than the run's: one session with two
variants and three faults, and two sessions with two faults and a list of handled sessions
that forgets.

Three things are out of the prover's reach: liveness under fairness and ENABLED, induction
over data (its induction theorems take operators as parameters), and RECURSIVE operators.
No module here needs the last two.

## 5. Where code and documents disagree

- **FAILED_SAFE is not always definite** (`orders_live_recovery`).
  `docs/mock-checkout-demo.md:12` says FAILED_SAFE "means the fake supplier rejected the
  attempt with a definite outcome". `recover` moves an order out of DISPATCHING without
  knowing whether the call that claimed it lives: the supplier truthfully reports no
  obligation, FAILED_SAFE is recorded, and then the purchase in flight succeeds. One purchase
  and a truthful SUCCEEDED hold even so.
- **A model can run unregistered** (`run_control_barrier`). The launcher-start file bears the
  name of the invocation, which an interrupted invocation keeps. A launcher whose controller
  died before registering it waits at its barrier; if the run is resumed within those 30
  seconds, the next launch's start file lets both through. `docs/orchestration.md:73` says
  the identity is captured "before the model command can start".
- **A half-finished stop loses the claim** (`run_control_half_stop`). `_stop_run` releases the
  claim and writes STOPPED in two transactions. Cut off between them, the run can be resumed,
  and it works without its claim; `docs/orchestration.md:33` says that resume uses the same
  claim.
- **A claim is released under a live launcher** (`run_control_two_shells`).
  `_release_claim_if_agent_idle` says "Never make a claimed worktree available while its
  registered launcher is live" (`service.py:1944`). A stop, which holds no lease, looks at a
  run that has no launcher yet; a resume from a second shell sets the run going again, its
  controller launches and registers a model; then the stop releases the claim (`service.py:1984`)
  and writes STOPPED. Nothing prevents a second shell. What a controller releases is idle even
  so (`ControllersReleaseIdle`).
- **A completed review is repeated** (`orchestrator_review`). `_finish_review` writes the number
  of the next fix round and the phase FIX_REQUESTED in two transactions (`service.py:1130`).
  A controller that dies between them leaves REVIEW_RUNNING with a number for which there is
  no result yet, and its successor has the same HEAD reviewed again.
  `docs/orchestration.md:77` says that completed results are kept "so a controller crash cannot
  erase tokens or duplicate a completed review".

## 6. Observations

Met while modelling; no document promises otherwise, or only behaviours outside the
instances show it.

*Orders and writes*

- In the write journal a 4xx settles an operation as REJECTED also when an earlier attempt had
  no clear answer, and the order of that attempt may exist. `RefusedAtOnceIsNotOwed` speaks
  of single attempts for this reason.
- Both write paths parse the Retry-After of every answer, but make a deadline of it only for
  an in-progress one. The journal's path returns that of a 429 or 503 to its caller
  (`write_orders.py:392`) and drops that of a replayed nonce; the gate records either as evidence
  (`pg_gate.py:616`). The operation can be resumed at once.
  `docs/suppliers/vietshare/offline-write-conformance.md` and `pg-gate-offline.md` next to it promise
  waits for in-progress answers only, and `InProgressWaitIsHonoured` and
  `InProgressDeadlineIsHonoured` say no more.
- A PREPARED order whose call died is refused by `recover`. It moves on by a retry only, and
  only at the server price it was prepared at: after a change every retry is an
  `IdempotencyConflict`.

*Orchestrator*

- From two shells a run that is over can be reopened. `resume_run` of a merged READY_FOR_OWNER
  run writes OWNER_MERGED without looking again (`service.py:2165`), also after a stop that
  finished meanwhile, and a COMPLETED run comes back to OWNER_MERGED by a second acceptance that
  had read it before. No document excludes it.
- Three shells can leave a run that an older release had blocked STOPPED with a claim: two resume
  it after the CI failure; the first sets it going, a stop releases its claim, its controller
  blocks it, the second resumption claims it again, and only then the stop writes STOPPED. Hence
  the exception in `StoppedHoldsNoClaim`.
- A controller that dies between the transition to COMPLETED and the release of its claim leaves the claim
  active for good: stop and resume refuse a completed run.
- A stream can be counted under two invocations: a result that was found but could not be
  committed is accounted, and a death before the next launch truncates the events file lets
  the successor account the same stream under the next number (`service.py:1446`). Hence
  `NoTokensErased` says that nothing is lost, not that everything counts once.
- A death between the transition to WORKER_COMPLETE and the clearing of `worker_parent_sha`
  (`service.py:926`) leaves a mark that the next fix round takes for its own: it is blocked
  with "interrupted worker parent no longer matches worktree HEAD".
- A death between the update of `fix_rounds` and the transition uses up a fix round.

*Curation and console*

- An admin who leaves the view while a save is on its way and edits after coming back
  loses these edits to its answer: hence `Patient`.
- The message of a conflict says that the catalog changed "in another session"
  (`catalog-curation-state.ts:360`). It has changed (`ConflictMeansReplaced`), but possibly by an earlier
  save of the same draft whose answer was lost.
- A listing with an offer that its supplier no longer lists blocks every save until the
  offer returns or the listing is deleted.
- Whoever leaves the checkout with a request on its way loses the key of that request, and
  a retry is a new order: "a network retry reuses the same idempotency key"
  (`docs/mock-checkout-demo.md:12`) holds while the view stays open. The console has no button for a DISPATCHING order.
- An effect's cleanup may come after the answer it was to prevent (`catalog-state.ts:250`): the
  comparison of versions next to the abort flag is not redundant.

*Live sessions*

- A stream that reconnects while the wrapper's component is unmounted leaves GENERATING
  with every variant arrived. On the remount the observer finds no more variants than it has
  counted (`live-browser.js:7029`) and returns, so the state stays, against the comment at 7228.
  `EndedGenerationIsPursued` speaks of tabs that have not counted every variant.
- The deferred-wrapper scout (12968) resumes the first wrapper it meets, and only the handler of
  `connected` looks for a generation that has ended (9181). A session the scout takes up
  later than that, on a page with an old scaffold, waits for a hot reload that may never come
  (`late` in `EndedGenerationIsPursued`; TLC finds it with three page loads and both sessions
  decided on, and finds no other case there). It may also take an older session up in place of one
  the user has started since: `deferredResumeRevision` is compared for handled wrappers only.
- A reconnection during an annotated capture asks for a checkpoint the server does not know
  yet, abandons the session and posts its generate request afterwards (compare the comment at
  7349).
- An error event of an older session returns a newer one to PICKING (7303). A doubled answer to
  a discard cleans up whatever session is current by then. An accept that fails after its
  completion sets CYCLING without a session. The cleanup of `recoverEmptyCycling` does not
  mark the session as handled. A failed generate request leaves GENERATING with nothing to
  cancel.

*Copy edits*

- While the user is to decide on a failed apply, anything that counts the edits (another edit, a page
  load) finds the stored apply and calls `setPendingApplyLoading(true)` (3936, 4089): the
  decision's buttons are hidden and the picker is frozen although nothing runs.
- A `commit_done` that a disconnected tab missed, or a commit refused after a page load,
  leaves the editor frozen until the stored apply expires (15 minutes) and the page is
  loaded again. These cases are `missed` and `ui.stuck` in `FrozenIsPursued`.
- A rollback leaves the pill disabled and its buttons shown (4230, 4306); a late "repair" answer
  hides them (4219); a lost answer to a commit unfreezes the picker while the commit runs
  (4152); a trash request on its way does not prevent an apply (4160); a slow count can
  overwrite a newer one.

*Parts of the live editor that are not modelled* (from reading only)

- A save in edit mode has no guard against a second one (3745), and the answer to a stash that
  comes after the user left sets CONFIGURING and drops another element's draft (3804).
- `togglePick` and `toggleInsert` leave EDITING without an element (11635). An emptied pin
  shifts the indices that `onAnnotDown` uses (593). A late failure of a steering request
  unlocks the current one (10708). Dismissing the mount card after an abort leaves CYCLING
  with nothing mounted (6063).

## 7. Not modelled

- *Storefront and Telegram bot*: readers without state of their own. What they show is as old
  as their reads, and they promise no more. The bot's door to the mock checkout calls
  `place_order` like the HTTP one, which is in `Orders`.
- *Supplier read adapters*, signing, HTTP transports: input validation and I/O, one
  bounded read each. Their answers are arbitrary where a model reads them.
- `orders/fakes.py`: test doubles. `Orders` has the PostgreSQL repository and a supplier that
  may answer whatever the fakes can.
- *Orchestrator*: the selection of a task from the backlog (parsing of Markdown), the viewer
  and the formatting of activity (read-only), the launching of processes below the barrier. Two
  shells that resume one CI-blocked run: the second would write a fix request from what it read
  before; `record_ci_fix_request` compares phase, HEAD and round in its transaction.
- *Live editor*: component previews (mounting through the framework's own dev server), picker,
  insertion and annotations (geometry of one page, sequential), steering chat and voice, bars,
  parameters, shader and design panel (rendering), detector ignores. The scripts under
  `.agent` are a second, identical copy of those under `.agents`.
- The application's wiring, configuration, presentation, repository scripts: no state that
  a property is about.
- Texts, prices of listings, payload fields that no branch compares, timestamps of records,
  audit events.

The share of lines in `map` is small in the JavaScript part of the repository because most of
it is the two copies of `live-browser.js` with 12 990 lines each, and most of such a copy is markup,
style, geometry and drawing. Its control (which event, timer or answer changes which
session) is what `LiveTab`, `LiveSession` and `CopyEdits` have. The larger part of the
models is about the Python packages.

## 8. Plan

Done: `Orders`, `Promise`, `OrderDelivery`; `VietShareGate`, `WriteJournal` and their
composition; `RunControl`, `RunPhases` with the usage ledger and their composition;
`CatalogView`, `CatalogCuration`, `MockCheckout` and their composition; `LiveSession`,
`CopyEdits` and their composition; proofs of all their safety properties.

Left, in this order:

1. `Orders` with couriers implements an abstract specification of what a customer is promised,
   beyond `Promise`, which ends with the purchase.
2. If wanted: component previews of the live editor next to `CopyEdits`.

## 9. Running the tools

    tlc -workers 2 -config MCOrdersSupervised.cfg MCOrders
    tlapm OrdersProofs.tla

Every cfg names its instance; the module of a run is in `PROJECT.json`. `live_editor`,
`admin_console`, `orchestrator` and `vietshare_writes` take two to three minutes, `run_control`
about one, the others seconds.
