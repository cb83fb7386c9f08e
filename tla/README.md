# Temporaless: TLA+ models and proofs

Temporaless is a storage-first workflow framework. No server coordinates a run:
every invocation of `workflow.Run` reads the records of its run from an object
store, replays the workflow body against them and writes what is new. Whatever
has to survive a crash is a record, and no write spans two records. What makes
such a system hard is the order of those writes, so that is what the models
keep: each store operation is a step, each may fail with or without having been
applied, and processes may stop between any two.

The models follow the Go implementation (`core/go`, `adapters/go`).
`PROJECT.json` holds the correspondence of every definition to its source lines,
the hazards that guided the properties, the runs, the mutants that show that
each property can fail, the theorems and the findings.

## 1. The system

| Part | State | Operations that change it | Modelled in |
|---|---|---|---|
| Timer persistence, `core/go/storage/opendal.go` | two objects per timer: the point record of the run and the full record in the due ledger | PutTimer, DeleteTimer, DueTimers (repairs), ListTimers (reads) | `TimerLedger` |
| Run execution and durable waits, `core/go/workflow/workflow.go` | workflow record, timer of each wait, events, execution claim; per invocation the run-scoped cache and the consumed timers | Run, Sleep, WaitEvent, ArmPoll, ResolvePoll, acknowledgeConsumedWakeTimers | `DurableRun` |
| Activity execution and retry, `workflow.go` | activity record, retry timer, activity claim | runActivity, armActivityRetryTimer, the replay and repair of RETRYING | `ActivityRetry` |
| Run-scoped cache, `workflow/cache.go` | maps of one invocation, shared by the branches of a fan-out | prefetch, read-through, refresh, write-through, listings | `RunCache` |
| Concurrency slots, `workflow/concurrency.go`; backfill, `adapters/go/backfill` | slot claims of a key; semaphore, halt channel, report | acquireConcurrencySlot, releaseConcurrencySlot; Backfill and its goroutines | `Backfill` |
| Background workers, `adapters/go/background` | run context, WaitGroup, three tickers | Start, Stop, the loops, the scan and its dispatches | `Workers` |
| Asynchronous dispatcher, `adapters/go/dispatch` | admission flag and count, semaphore, WaitGroup, task tracker | DoAsync, the queue's Submit and goroutines, Invoke, the tracker's GC, Shutdown | `Dispatcher` |
| Workflow records and latest-run pointer, `opendal.go` | workflow record per run, one pointer per workflow, a lock per store instance | PutWorkflow, putLatestWorkflowRun, DeleteWorkflow | `CronRuns` |
| Cron scheduler, `adapters/go/cronscheduler` | last fire of a schedule, in memory | Tick, Restore, LastFiresFromRuns | `CronRuns` (partly) |
| Retention, `adapters/go/janitor`, `connectstore/handler.go` | all records of a run | Sweep, DeleteRun | `Retention` |
| Record store service, `adapters/go/connectstore`, over the object store, `gocdkclaims` and `scanquery` | workflows, activities, timers, events, claims, pointers; what the client believes | every RPC of the record store and its query service; SendEvent, GetLatestWorkflowRun and the other client methods | `RecordMessages`, `RecordHandler`, `RecordService` |
| Inspection service, `adapters/go/inspection` | none of its own: cursors held by clients, a read gate per request | ListWorkflowDirectory, ListScheduledWakes, ListWorkflowRuns, DescribeRun | `InspectionMessages`, `Inspection`, `RunDescription` (partly) |

Section 8 says what is not modelled and why.

How the parts interact: the *background workers* tick the *cron scheduler*, the
*timer scanner* and the *janitor*; the scanner calls `DueTimers` and invokes
`Run` for each due timer; `Run` takes the *execution claim* and perhaps a
*concurrency slot*, replays the body through the *run-scoped cache*, and the
body calls *waits* and *activities*, which write *timers* through the ledger;
the cron scheduler and a *backfill* start runs, whose workflow records move the
*latest-run pointer* from which a restarted scheduler recovers; the janitor
removes what has ended. All of them reach the records either directly or
through the *record store service*. The modules are joined along those
interfaces:

* `DurableRun`, `ActivityRetry` and `RecordHandler` treat a timer as one atomic
  record. That is `TimerRegister`, which `TimerLedger` is shown, and proved, to
  implement. (One exception is finding 1: the repair of a scan is itself a
  writer of the register.)
* `DurableRun` and `ActivityRetry` use the cache as one branch sees it; what the
  cache tells several branches is `RunCache`.
* `CronRuns` takes a free execution claim in one step, and `Backfill` locks a
  run in one step. That an execution claim is exclusive through lost answers,
  crashes and clean-up is what `DurableRun` checks and `DurableRunProofs`
  proves.
* `CronRuns` uses retention only as the removal of a whole quiesced run;
  `Retention` is about how that removal happens.
* `Workers` drives iterations that succeed or fail; what an iteration does is in
  `CronRuns`, `TimerLedger` and `Retention`.

### What is hard here

1. Two copies of one timer, written one after the other (ledger, then point).
2. A wake must stay SCHEDULED until the thing that replaces it is durable. Mark
   it FIRED too early and a crash leaves a run nobody will ever invoke again.
3. Ambiguous writes: an error may mean "applied". A sleep must not restart, an
   activity must not be repeated beside its own retained claim, an event must
   not be delivered twice with different payloads.
4. Claims are create-only and have no lease: whatever was read before a claim
   was won is stale afterwards.
5. Caches are prefetched once per invocation; without claims two invocations
   with stale caches write the same records. Within one invocation the cache's
   lock is not held across a store call.
6. A durable backoff is two writes (retry timer, RETRYING record); replay has to
   recognise every state in between.
7. Shutdown and Stop race with submissions, scans and dispatches that have
   passed the first check.
8. Recovery of a scheduler from a pointer other processes move, possibly back.
9. Deletion of a run is a sequence of deletes driven by a query that may lag.
10. An answer that never comes says nothing about the request, which may be
    applied long after its caller has given up.
11. A listing is walked page by page, and a run described kind by kind, while
    both change.

## 2. The modules

### `TimerRegister` and `TimerLedger`

`TimerRegister` is the promise: a timer is one register; a call fixes its value
when it opens, takes effect at most once, and may end at any time without.

`TimerLedger` has `ledger` and `point` for the two objects of each timer and one
action per object operation: `PutTimer` (ledger, then point), `DeleteTimer`
(look at ledger and point, CANCELED tombstone, remove the point), `DueTimers`
(list the ledger; per entry compare with the point, complete a tombstone, repair
a disagreeing point and leave the wake to the next scan, else return the timer
if it is due and its run is in progress), and `ListTimers` (ledger shadows over
points). A call may abort anywhere and a point may be damaged. `window` is a
history variable: the values of a timer that were visible during a call.

### `DurableRun`

One run, invoked again and again. The body is a fixed sequence of waits, each a
sleep, an event wait with a poll timer or one without. An invocation reads the
workflow record, takes the claim (with the second look and the single retry of
the code), re-reads, prefetches the cache, publishes IN_PROGRESS, replays, and
either writes the terminal record or returns a pending error; consumed timers
are acknowledged behind a later timer or the terminal record only. Writes fail
with or without effect, reads fail, invocations crash, operators remove leaked
claims, events arrive at any time. Time is relative (a record carries how far
away its deadline is), which keeps the state space finite without a clock bound.

### `ActivityRetry`

One activity: cached record, claim, refresh after the claim, attempts,
in-process backoff under the claim, durable backoff (timer, release, RETRYING
record, pending), replay of RETRYING with the comparison of record and timer,
terminal record, firing of the retry timer, release. Several `Callers` are the
calls of a fan-out that repeats an activity ID. A crash ends the invocation.
`scenario`, fixed at the start, is the policy and the bounds of a behaviour.

### `RunCache`

The maps of the cache, the kinds whose listing is complete, and one store call
per branch: a lookup, an operation of the store and a write-back are three
steps. `suspect` is a history variable: the entries whose last write-back a
write had overtaken, whose write failed with its effect, or that another process
wrote. The cache cannot be right about those, and the code says so only
indirectly, by refreshing after every claim.

### `Backfill`

The dispatch loop (select on token and halt, second check, spawn), a goroutine
per run (invoke, record the entry, close halt, return the token) and the
invocations themselves, reduced to execution claim, slot, IN_PROGRESS record,
body, terminal record, release of slot and claim. The slot claims are created in
the order of the code, one after the other; a create may be ambiguous, a delete
may fail, processes crash and operators free what is leaked. `late` counts the
runs dispatched after the failure that closes halt.

### `Workers`

`Start` and `Stop` under the mutex of `Workers`, the three loops as selects on
context and timer, and the scan, which dispatches the due timers it found one
after the other and looks at the context before each. Some timers (`Bad`) can
never be dispatched and are due first in every scan.

### `Dispatcher`

DoAsync (check, track, admit, submit, finish), the in-process queue (closed
check, slot, parking, `wg.Add`, launch), its goroutines, the tracker with GC,
and Shutdown (one performer, other callers join; admission closed, submissions
drained, queue closed once, handlers drained, cancelled on timeout). One action
per stretch of code between two synchronisation points. An external queue is
modelled by the contract of the `Queue` interface.

### `CronRuns`

One schedule with fires 1, 2, ... at times 1, 2, ...; `Tick` dispatches the next
due fire and remembers it only if the dispatch succeeded. A dispatch is a run:
claim, record IN_PROGRESS, body, terminal record, release. Every record write is
followed by the pointer update under the lock of its store instance: read,
compare, write. `Boot` recovers the last fire from the pointer. A scheduler or
worker may crash at any point; `Layouts` says which processes share a store
instance, and so a lock.

### `Retention`

`Sweep`: list COMPLETED rows of the query, point-read each workflow record, list
the children of eligible runs, validate every key against the run, and only then
delete claims, activities, timers, events and last the workflow record, run by
run. `DeleteRun` does the same for one run, whatever its status. A query row may
be stale, a record may be misplaced under another run's prefix, any call may
fail with or without effect, several callers overlap.

### `RecordMessages`, `RecordHandler`, `RecordService`

`RecordMessages` has one definition per message and enumeration of the record
store protocol, reduced to the fields its two sides tell apart. `RecordHandler`
is the server: each handler is an operator from the objects and the
configuration of the server to the objects it leaves and its answer, over the
point operations of the object store, of the claim store and of the scanning
query store, with their validation. `RecordService` adds what makes it a
protocol: clients that send, wait, check the answer against what they asked for
and return; requests and answers that are lost; a write that is applied after
its caller has given up (`late`); operations of several objects (PutWorkflow
with its pointer, GetLatestWorkflowRun with the reads of the run its pointer
names, on the server and by the client; SendEvent with its capability check) in
several steps; damaged objects and servers that answer with the wrong record.

### `InspectionMessages`, `Inspection`, `RunDescription`

`Inspection` is a client that walks one of the three listings with page tokens,
and the request that serves a page: scope and grant, token, listing, batches of
goroutines that read through a gate of limited width (also for the reads a
directory entry fans out into), collection in order, cursor. Writers change the
bucket, a grant is revoked, reads fail and responses get lost.
`RunDescription` is DescribeRun reading workflow, activities, claims and timers
one after the other beside the invocations of the run, and the derivation of the
pending state from what it read.

### The MC modules

They give the constants their values. Parts that share no state share a TLC run
where a run of each would have been small: in `MCDrivers`, `MCOperators` and
`MCRecordService` the variable `part` is chosen in the initial state and never
changes, and the components it does not name rest in their initial state. The
properties of each component are therefore checked over exactly the behaviours
of that component.

## 3. What is checked

Each run states a question; the mutants in `PROJECT.json` (a dropped guard, a
swapped order, a missing re-read) show for each property that the run would
notice.

| Run | Instance | Question and answer |
|---|---|---|
| `ledger` | 1 timer, a writer, a scanner, a reader, 3 calls, 1 fault | Do the two objects behave as one register (`RegisterSpec`)? Does a scan or listing only return values visible during its call (`ReturnedWasVisible`)? Do scans bring the copies together (`CopiesConverge`) and keep returning a due wake (`DueWakeReturned`)? Yes. |
| `run_claims` | 2 callers with claims, 4 waits (sleep, poll, manual, sleep of length 0), 2 faults | Single flight, terminal record final, no sleep cut short, and from the first armed timer on wakes alone end the run. Yes. |
| `run_unclaimed` | 2 callers without claims, sleep and poll, 1 fault | With overlapping stale caches: is a timer FIRED only behind a successor, and does an unfinished run keep a SCHEDULED timer? Yes. |
| `retry`, part retry | 1 caller with claims, 3 attempts, all backoffs durable, optional retry-after, 3 faults; and 2 concurrent calls with backoff in process, 3 faults | Does a RETRYING record keep its wake, is no attempt early, no false conflict, no record taken back, one body at a time, and does the retry end by wakes alone? Yes. |
| `retry`, part backfill | four calls of Backfill over two or three runs, limit 1, beside an invocation of another process, 1 mishap | Are slots and concurrency bounded and no slot lost silently (`SlotsBounded`, `BackfillBounded`), is the report true (`ReportIsTrue`), does Backfill return? Yes. |
| `retry`, part workers | 2 calls of Start, 2 of Stop, the scanner or the other two loops, 3 timers of which the first is bad | Is nothing running after Stop and at most one dispatch begun after the cancellation (`StopIsClean`), does Stop return and a bad timer stall nothing (`WorkersServe`)? Yes. |
| `dispatch` | 2 submissions, 1 slot, 2 Shutdown calls, either queue | No submission behind the barrier, no slot lost, a nil Shutdown leaves nothing running, outcomes final, shutdown returns and tasks settle. Yes. |
| `cron` | 2 schedulers, 1 worker, 2 fires, 1 fault, one store instance or two | No fire skipped, an ended run not written over, one instance never takes the pointer back, every due fire runs (unless an earlier one FAILED). Yes. |
| `operators`, part retention | 2 runs, 2 sweepers of which one also calls DeleteRun, 1 misplaced record, 1 fault | No live run loses a record to a sweep, nothing outlives its workflow record, expired runs go (unless a misplaced record stops every sweep). Yes. |
| `operators`, part inspection | 7 walks over 3 names with pages of 1 and 2, a gate of 2, one write, one failure, a revoked grant | Does a finished walk have every untouched object once and in order (`PagesAreComplete`), and can no request stand still on its read gate or its cursor (`WalksAdvance`)? Yes. |
| `operators`, part description | 2 timers, 2 invocations, either record limit | Does DescribeRun report WAITING_NO_WAKE only for a run that was without wake at some moment, has ended or was just invoked (`NoFalseAlarm`)? Yes. |
| `remote`, part service | 2 clients, 12 workloads (one per kind of record and per capability of the server), 1 to 3 faults | Is a read that succeeds true and damage never reported as absence (`ReadsAreTrue`), do all successful deliveries of an event agree (`DeliveredOnce`), is a claim held by one client unless a late release was applied (`ClaimHeldOnce`)? Yes. |
| `remote`, part cache | 2 branches, a workflow record and a timer, 1 mishap | Does the cache answer what the store holds (`CacheCoherent`)? Yes. |
| `ledger_resurrect`, `retry_conflict`, `retry_regress`, `retry_lost_wake` | smallest instance that shows it | The findings of section 6: the property is violated. |

### Bounds and why they suffice for these questions

* One timer in `ledger`: the objects of different timers share no operation
  except the list, and the proof of the refinement covers any number. Three
  calls by the writer and the reader let a put, a delete and a re-arm meet one
  scan; one fault leaves one half-finished call.
* Two invocations and two faults: a race on one record needs two; a fault in the
  recovery from a fault needs two. The safety properties of both `DurableRun`
  runs are proved for all values.
* Three attempts: a durable backoff, a later one that finds the timer of the
  first, and the last attempt with none.
* Three runs with concurrency 2 let one run be past the second check when
  another fails; one slot and one outside invocation make every slot contested.
* Three timers, the bad one first: a scan that gave up at it would reach neither
  of the others.
* Two submissions, one slot, two callers: one submitter parks behind a running
  handler while one caller performs the shutdown and one joins.
* Two fires, two schedulers: a second fire may move the pointer past the first
  while a slower writer of the first takes it back.
* `Used = {"timer"}` in `operators`: the four kinds of children are deleted by
  the same loop, and the proofs of `OperatorProofs` cover all of them.
* Three names and pages of one and two: a page break inside a batch, a page
  without a row, and an object behind, at and before the cursor. A gate of two
  is the narrowest in which a goroutine can wait for the slots of its own
  children.
* Two clients and one key per kind (two where a listing is read): the objects of
  different keys share nothing but listings. Two or three faults where a lost
  answer, a retry and a late application have to meet (claims, deliveries,
  events), one elsewhere.

`MaxTime`, `MaxNow`, `TimeLimit`, `MaxFaults`, `MaxSetbacks`, `MaxMishaps`,
`MaxErrors`, `MaxFailures` and `MaxChanges` bound clocks, faults and writers only
to make the instance finite; they appear in the guards of those events and
nowhere else. A clock that stops
can make a liveness property fail (a deadline out of reach) but not hold.

Symmetry is used for the invocations of `run_unclaimed` and for the clients and
branches of `remote`, runs that check no liveness.

`CHECK_DEADLOCK FALSE` is stated where the system may legitimately stop: all
retries ended, the backfill reported, the workers stopped, the dispatcher shut
down, the clock at its bound, nothing left to delete, the description answered.
`ledger`, `run_claims`, `run_unclaimed` and `remote` check for deadlock.

### Fairness

| Module | Assumed to keep going | Because |
|---|---|---|
| `TimerLedger` | the scanner's steps | `runScanner` calls DueTimers on each tick. Writers may stop for ever. A single scanner: see the note in section 6. |
| `DurableRun` | steps of a live invocation; the scanner's wake of a due run; Tick; delivery of events; removal of leaked claims | goroutines run; the background loop re-invokes due runs; `docs/claims.md` gives operators that duty. Nothing else starts an invocation: calls by users are not fair. |
| `ActivityRetry` | the same, and activity bodies return | a body that never returns never ends its activity, by design |
| `Backfill` | the loop and its goroutines, and the bodies return | goroutines run. No slot has to be won and no leaked slot has to be freed: an invocation that finds none returns. |
| `Workers` | a Stop in progress; the loops, their timers and the scan | goroutines run, timers fire, an iteration ends. Nothing makes a dispatch succeed except that failures of good timers are finite. |
| `Dispatcher` | goroutines; handlers only after `inflightCtx` is cancelled; an external Submit only after Close | the Go scheduler, the documented duty of handlers to honour the context. No slot has to be won and no context has to expire. |
| `CronRuns` | restart and ticks of schedulers, live processes, time, clean-up of claims | `runCron`, process supervision, the runbook |
| `Retention` | periodic sweeps and started calls; the index eventually lists a completed run | `runJanitor`; `docs/adapter-contract.md:105` allows a query backend that is updated eventually. Stale rows may stay for ever. |

All of it is weak fairness, and faults are finite in number, not fair.
`RecordService`, `RunCache`, `Inspection` and `RunDescription` have no fairness:
their properties are about safety. That a walk cannot stand still is stated
without it, as the enabledness of a step of the request.

## 4. What is proved

TLAPS checks these for every value of the constants (any number of timers,
processes, waits, fires, runs, branches, faults), under the named ASSUMEs of
each module, which only say that numbers are naturals, that sets which are
counted are finite, that marker values are not members of the sets they are told
apart from and that a workload consists of well-formed requests. Each invariant below was checked by TLC on the run's instance
before it was proved.

* **`SchedulingProofs!LedgerImplementsRegister`** (`Spec => RegisterSpec`). The
  refinement maps the register to what `GetTimer` returns: the ledger unless it
  is absent, else the point. `TypeOK` alone is not inductive enough. The
  invariant `IInv` adds, per place in a call, that the ledger object of the
  timer at hand exists once the call has seen or written it (ledger objects are
  never removed), so that writes and deletes of points are invisible; the ledger
  write is the one effect of each call. `TypeCorrect` comes from the same
  invariant.
* **`SchedulingProofs!ReturnedValuesWereVisible`** (`Spec => ReturnedWasVisible`).
  `window` records, per call, every value of each timer that could be read since
  the call began; the code has no such variable. `VisibleInv` rests on `IInv` and
  has two parts. `ViewInv`, for scans and listings: the window holds the present
  value of every timer, all that was collected came from the window, and so did
  the ledger record that a scan may still return after it has read the point.
  `ListInv`, for a listing and a timer without ledger object when the listing
  began: its point, and whatever the calls of others may still put there
  (`Owed`), is in the window, and it is left out of the answer only if its
  absence could be read. Without `Owed` the second read of a listing could meet
  the point of a record whose ledger object appeared after the first.
* **`DurableRunProofs!WakesAcknowledgedLate`, `NoWakeLost`**. With or without
  claims, for any body: a FIRED timer has a durable successor, and an unfinished
  run that armed a timer keeps a SCHEDULED one. `WakeInv` strengthens this with:
  what an invocation has cached exists in the store (timers are never removed
  while the run lives); everything it has consumed lies before its position;
  while it acknowledges, the wait it stands on is armed or the run has ended;
  and there is a last armed wait (stated as an invariant, since choosing a
  largest element would need induction). `TypeCorrect` is the base. `NoWakeLost`
  then follows: the last armed timer has no successor, so it is not FIRED.
* **`DurableRunProofs!ClaimIsExclusive`, `TerminalRecordIsFinal`**. With
  claims, `HolderInv`: an invocation executes exactly if the claim names it, and
  once the record is TERMINAL the holder is re-reading, acknowledging behind the
  terminal record or releasing.
* **`DurableRunProofs!SleepsAreSlept`**. With claims the body is never past
  a sleep whose deadline is still to come. `SleepAt` says why, for an invocation
  and a sleep: the cached copy and the store have the same deadline; a FIRED
  sleep has elapsed; a sleep the invocation knows to be missing is missing,
  except while it looks up the outcome of its own write; an invocation that is
  about to consume a wait has seen it elapse; and one that does not execute
  knows nothing. It rests on `WakeInv` and on `ClaimIsExclusive`: without claims
  another invocation may arm the sleep again.
* **`ActivityRetryProofs!BodiesAreExclusive`, `InProcessRetriesNeverRegress`,
  `TypeCorrect`**. A call that executes or persists is the one the claim names
  (`BodyHoldsClaim`), although the claim is released before a durable RETRYING
  record is written. Without durable backoff, what the holder has in hand is as
  new as the store, so no write takes the record back; with durable backoff that
  is false (finding 3).
* **`ActivityRetryProofs!WakesAreKept`, `NoAttemptIsEarly`,
  `OnePolicyNeverConflicts`, `SequentialRetriesNeverRegress`**, with or without
  claims, for any number of attempts and faults. The first two assume
  `Sequential`: several calls of one activity overlap only where no backoff is
  durable. The third also assumes `AllDurable`, that a policy with durable
  backoff makes all its backoffs durable, and the last that calls never overlap
  (`Alone`). Finding 2 shows what a mixed policy does, finding 3 what
  overlapping calls do. `RetryKeepsWake` is not inductive, because the timer and
  the record of a backoff are two writes with a crash possible in between.
  `AloneInv` follows
  the one call: `Place` says, for each place, whether the record in hand is the
  stored one or the outcome of the attempt after it, and that a backoff being
  published (`Backed`) points behind everything recorded, with its timer in
  place before the record is written; `Matches` says that the stored timer
  belongs to the recorded backoff or to the one after the next attempt, which
  is what a replay compares. `Timerless` is the in-process case: no timer at
  all, however many calls there are.
* **`OperatorProofs!CacheTellsTheTruth`, `CacheTypeCorrect`**. `CacheCoherent` is
  not inductive, because what a call will write back must be known before it is
  written. `Fresh`: a call that no write has overtaken carries what the store
  holds now.
* **`BackfillProofs!SlotsAreBounded`, `BackfillIsBounded`, `ReportsAreTrue`**, for
  any list of runs, limit, concurrency, faults and crashes. In `BackfillInv` a
  slot and its holder name each other (`SlotInv`), so there are no more bodies
  than slots by the pigeonhole principle; the tokens taken are the runs in
  flight plus the one the loop holds (`TokenInv`), and a token is free again
  only when its run is idle; a closed halt behind the second check means that
  another run is in flight (`HaltInv`), which a concurrency of 1 excludes. The
  report rests on what an outcome says of the stored record (`OutcomeInv`), on
  every run that was reached being in flight or having its entry (`EntryInv`),
  and on a halt, and so every skipped run, having an earlier failed run
  (`SkipInv`).
* **`SchedulingProofs!StopsAreClean`**, for any Start and Stop calls, any choice of
  loops and any ledger. `WorkersInv`: the WaitGroup counts the loops that have
  begun and not exited, only the first Start begins any, and a cancelled context
  lets at most the dispatch pass that had already looked at it.
* **`DispatcherProofs!CountersAreSafe`, `ShutdownIsClean`, `OutcomesAreFinal`**.
  `CountInv` ties `activeSubmissions`, the semaphore and the WaitGroup to the
  cardinality of the calls they count; `SubInv` says what the tracker knows at
  every point of a submission and its goroutine; `CallerInv` says what a
  Shutdown call has established in each phase, which rests on one call
  performing the shutdown and on the closed flag keeping `active`, and then
  `wg`, at zero once they got there.
* **`SchedulingProofs!NoFireIsSkipped`**. `NoFireSkipped` is not inductive because
  a restarted scheduler takes its last fire from a pointer another process
  wrote. `CronInv`: the runs that ever got a record are a prefix of the fires; the
  pointer, every copy of it and every last fire name one of them; a process that
  may still write the pointer or commit a fire works on one of them. The pointer
  going back (two store instances) keeps all of this, which is why such a race
  repeats fires and never skips one.
* **`SchedulingProofs!EndedRunsAreKept`, `CronTypeCorrect`**. A process between its
  start and its release is the one its claim names, and what it is about to
  write over is not a terminal record.
* **`SchedulingProofs!PointersNeverRegress`** (`CronSpec =>
  PointerKeptByInstance`). The comparison of `putLatestWorkflowRun` and its write
  are two steps. `PointerInv`: a process between them holds the lock of its store
  instance, and if the pointer was last written by that instance it names no
  later run. Writers of other instances are not kept out, and nothing is claimed
  about them.
* **`OperatorProofs!NothingIsOrphaned`, `SweepsSpareLiveRuns`**. A caller
  deletes by a plan it made some time ago. `PlanInv` says what the plan still
  guarantees: its runs are quiesced by the caller, every record left of such a
  run is among the keys of its entry, those keys all name that run, and a run in
  the plan of a sweep is past the cutoff or gone already.
* **`OperatorProofs!NoAlarmIsFalse`**, for any timers, limits and number of
  invocations. `NoFalseAlarm` speaks of the answer only. `DescriptionInv` relates
  what was read so far to the run as it is now: once no claim was listed or
  read, the run has no claim or was invoked since; a run without claim does not
  change until it is invoked, so that the timers read next are its timers; and
  WAITING_NO_WAKE, the last of the reasons, is derived only if no claim and no
  scheduled timer was seen. The order of the reads is what this rests on.
* **`RecordServiceProofs!ReadsTellTheTruth`**, for any clients, keys, records,
  requests, damage, losses and late requests. `RecordHandlerProofs` takes the
  handlers apart first: for each RPC, what it leaves of the objects and what its
  answer says (`RouteEffect`, `ServedStore`, `ServedReply`), and for each client
  method what it makes of an answer (`Accepted`). `ReadsAreTrue` speaks of what
  was returned; `RecordInv` adds that a call in flight belongs to its method (a
  GetLatestWorkflowRun is at its pointer or at the run the pointer names, a
  SendEvent at its capability check or at its delivery), that an answer under way
  says what the objects said when it was served, and that a request which may be
  applied late is one that the workload made.
* **`RecordServiceProofs!DeliveriesAgree`**, for any number of senders.
  `DeliverInv`: not only what was accepted but every successful answer that a
  sender is still to receive is the event of its key. A second delivery either
  finds the event and compares it or loses the conditional create, so no request
  of a workload without puts and deletes of that event can change it.
* **`RecordServiceProofs!ClaimsExclude`**, for any number of clients. A claim is
  held from its answer on and given up when its release is sent, so the two ends
  are in flight. `OwnInv`: the claim of an answered creation is its creator's,
  and one whose release is under way exists, is held by nobody and is released by
  nobody else. An abandoned release that is applied late breaks this, which
  `revoked` records and `ClaimHeldOnce` excepts.

## 5. What is only model-checked

* All liveness properties: fairness and ENABLED are outside the prover. So is
  `WalksAdvance`, which is stated with ENABLED.
* What happens outside the assumptions of the retry theorems: overlapping calls
  with durable backoff, and policies that mix durable and in-process backoff.
* `PagesAreComplete` of `Inspection`: the rows of a walk are concatenations of
  filtered and sorted sequences, and what those operators compute for sequences
  of any length needs induction over data.

For these the claim is about the instances of section 3.

## 6. Findings

Four places where the code does something that its own comments or documents
exclude; each has a run whose counterexample shows it.

1. **A scan can undo a delete** (`ledger_resurrect`, `opendal.go:905`). A scan
   that read a prepared record before `DeleteTimer` repairs the point afterwards
   with `PutTimer(prepared)`, ledger tombstone included. The comment at
   `opendal.go:680-682` says the ledger is retained so that an older write can
   never resurrect a deleted timer.
2. **Replay rejects its own timer** (`retry_conflict`, `workflow.go:2470`). A
   durable backoff, then an in-process one, then a crash: replay compares the old
   timer with the next attempt's schedule and fails the run with ErrTimerConflict.
3. **A late RETRYING write replaces COMPLETED** (`retry_regress`,
   `workflow.go:1922`). The durable branch releases the activity claim before it
   writes the RETRYING record; a second call of the activity may finish between.
4. **The retry timer is fired before a durable successor** (`retry_lost_wake`,
   `workflow.go:1823`). It is marked FIRED behind the terminal activity record,
   while `docs/hard-cases.md:177-179` promises a later timer or a terminal
   workflow record.

Behaviours met while modelling that contradict no document:

* Two scanners that hold different prepared records of one timer can repair it
  back and forth; convergence is claimed for one scanner.
* Without claims a slow first invocation can replace a terminal record by
  IN_PROGRESS, and a poll re-armed over a FIRED timer after a failed write may
  fail the run; overlapping execution is documented as at-least-once.
* With an external queue the submitting dispatcher's task record stays PENDING
  and is never evicted.
* A FAILED cron run keeps every later fire of its schedule waiting, since Tick
  returns at the first failing dispatch. A scheduler without a stable anchor
  starts from now (`docs/scheduling.md:59-62`); the model restores one.
* One misplaced record in any eligible run makes every sweep refuse.
* DeleteClaim removes by key. A release whose caller gave up waiting and that is
  applied late can remove the claim of the next owner; `ClaimHeldOnce` is
  claimed except for that (`revoked`).
* The cache keeps what a slow read brings back although a faster write of
  another branch has already been remembered; `suspect` marks such entries.
* A second Stop that arrives while the first is waiting returns before the loops
  have ended; `StopIsClean` is about the Stop that found the workers running.
* After the failure that closes halt, Backfill may still dispatch the one run
  that is past the second check.
* DescribeRun reads claims before timers, and so can call a run stuck that was
  invoked while it read; `NoFalseAlarm` is claimed except for that (`woken`).

## 7. What is abstracted

Payloads, digests and codes are identities; a record carries what the properties
tell apart (status, deadline, attempts, order). Object names are the identity of
the object, and an object that cannot be decoded is `Corrupt` or `Garbage`.
Fixed bodies stand for user code; a body that panics is a body that fails. In
`CronRuns` a body waits at most once, so a resumed run ends. The retry intervals
are parameters of `ActivityRetry`. Deletion of runs assumes that the run is
quiesced, as `docs/claims.md:169` and the comment of DeleteRun demand; nothing is
claimed for callers who do not. Reads and writes of one object are taken as
atomic and immediately visible, and a conditional create as atomic: that is the
contract of the bucket. Outside `RecordService`, an ambiguous call takes effect
at once or never; in `RecordService` it may take effect at any later time.

More than half of the lines of the Go implementation are generated protobuf
code. A message of `RecordMessages` or `InspectionMessages` is mapped to the
generated struct and accessors whose fields it keeps; the descriptors and
reflection tables of those files are not mapped.

## 8. Not modelled

* *Cron*: Seed and several schedules per scheduler (schedules share nothing but
  the loop that visits them), snapshots kept outside the store.
* *Inspection*: GetInspectionCapabilities and ListNamespaces answer from the
  configuration; DeriveHistory, payload rendering and the inspector package are
  formatting and wiring.
* *Workflow dependencies*: WaitForWorkflow reads another run and polls; the poll
  is the one of `DurableRun`.
* *Fan-out*: AllActivities collects results and errors of calls that are
  modelled; the collection has no shared state of its own.
* *Arithmetic of retry intervals* (`retryIntervalAfterAttempt`): products of
  durations and floats, sequential and covered by its unit tests.
* *Keys and paths*: formatting and parsing of object names.
* *Panic handling, claim capability checks, RPC adapter of workflows, typed
  wrappers*: no state of their own.
* *Console, terminal, visualization, command-line tools, CloudEvents, outbox,
  Temporal compatibility, examples*: rendering, configuration and stateless
  adapters over the modelled operations.
* *Python, Rust and TypeScript*: ports of the same record contract.

`PROJECT.json` lists each with its sources.

## 9. Running it

`tlc -config <run>.cfg <MC module>` for the runs (the pairs are in
`PROJECT.json`), `tlapm` on each module whose name ends in `Proofs`. The runs take from
seconds to about two minutes with two workers; the proof modules take from
about six to about fifteen minutes each.
