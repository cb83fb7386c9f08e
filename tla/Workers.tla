------------------------------ MODULE Workers -------------------------------
(***************************************************************************)
(* The background workers of one replica (adapters/go/background): Start   *)
(* and Stop under one mutex, and up to three loops, each a select on the   *)
(* run context and a timer.  What the scheduler, the scanner and the       *)
(* janitor do in an iteration is modelled in CronRuns, TimerLedger and     *)
(* Retention; here an iteration succeeds or fails, and the scanner's       *)
(* dispatches the due timers it found one after the other.                 *)
(***************************************************************************)
EXTENDS Naturals, Sequences

CONSTANTS
  Starters,  \* calls of Start
  Stoppers,  \* calls of Stop
  Configs,   \* sets of loops a replica may be configured with
  Wakes,     \* the due timers of the ledger, in the order a scan lists them
  Bad,       \* timers whose dispatch always fails
  MaxErrors  \* failed scans, and failed dispatches of other timers

Loops == {"cron", "timer_scanner", "janitor"}

ASSUME ConfigsKnown == Configs \subseteq SUBSET Loops
ASSUME MaxErrorsIsNat == MaxErrors \in Nat
ASSUME WakesListed == Bad \subseteq {Wakes[i] : i \in DOMAIN Wakes}

VARIABLES
  cfg,       \* the loops configured, fixed
  cancel,    \* w.cancel is set
  done,      \* w.done
  ctxDone,   \* the run context is cancelled
  wait,      \* loops the WaitGroup counts
  loopAt,    \* where each loop stands
  fired,     \* loops whose timer has fired
  pending,   \* timers no successful dispatch has taken from the ledger
  due,       \* positions of the due timers this scan has yet to dispatch
  errors,    \* failed scans and dispatches so far
  overrun,   \* dispatches begun after the cancellation
  starter,   \* what each call of Start returned
  stopper    \* where each call of Stop stands

startStop == <<starter, stopper>>
workersVars == <<cfg, cancel, done, ctxDone, wait, loopAt, fired, pending, due, errors, overrun, startStop>>

WorkersInit ==
  /\ cfg \in Configs
  /\ cancel = FALSE /\ done = FALSE /\ ctxDone = FALSE /\ wait = {}
  /\ loopAt = [l \in Loops |-> "none"]
  /\ fired = {} /\ due = {} /\ errors = 0 /\ overrun = 0
  /\ pending = {Wakes[i] : i \in DOMAIN Wakes}
  /\ starter = [s \in Starters |-> "none"]
  /\ stopper = [s \in Stoppers |-> "idle"]

-----------------------------------------------------------------------------
(* Start refuses a second start, and a start after a stop.  Every timer of   *)
(* duration zero fires at once.                                              *)
Start(s) ==
  /\ starter[s] = "none"
  /\ IF cancel \/ done
       THEN /\ starter' = [starter EXCEPT ![s] = "refused"]
            /\ UNCHANGED <<cancel, wait, loopAt, fired>>
       ELSE /\ starter' = [starter EXCEPT ![s] = "started"]
            /\ cancel' = TRUE
            /\ wait' = cfg
            /\ loopAt' = [l \in Loops |-> IF l \in cfg THEN "select" ELSE "none"]
            /\ fired' = cfg
  /\ UNCHANGED <<cfg, done, ctxDone, pending, due, errors, overrun, stopper>>

(* The context given to Start is cancelled by the process. *)
CancelParent ==
  /\ \E s \in Starters : starter[s] = "started"
  /\ ~ctxDone /\ ctxDone' = TRUE
  /\ UNCHANGED <<cfg, cancel, done, wait, loopAt, fired, pending, due, errors, overrun, startStop>>

Stops(s, l) == stopper' = [stopper EXCEPT ![s] = l]

(* Stop takes cancel under the mutex; without one it returns. *)
StopSignals(s) ==
  /\ stopper[s] = "idle"
  /\ IF cancel THEN Stops(s, "cancelling") /\ cancel' = FALSE /\ done' = TRUE
               ELSE Stops(s, "nothing") /\ UNCHANGED <<cancel, done>>
  /\ UNCHANGED <<cfg, ctxDone, wait, loopAt, fired, pending, due, errors, overrun, starter>>

StopCancels(s) ==
  /\ stopper[s] = "cancelling" /\ Stops(s, "waiting")
  /\ ctxDone' = TRUE
  /\ UNCHANGED <<cfg, cancel, done, wait, loopAt, fired, pending, due, errors, overrun, starter>>

(* Mutant of StopWaits: Stop does not wait. *)
StopReturnsAtOnce(s) ==
  /\ stopper[s] = "waiting"
  /\ Stops(s, "stopped")
  /\ UNCHANGED <<cfg, cancel, done, ctxDone, wait, loopAt, fired, pending, due, errors, overrun, starter>>

StopWaits(s) ==
  /\ stopper[s] = "waiting" /\ wait = {}
  /\ Stops(s, "stopped")
  /\ UNCHANGED <<cfg, cancel, done, ctxDone, wait, loopAt, fired, pending, due, errors, overrun, starter>>

-----------------------------------------------------------------------------
(* loop *)

(* The interval since the last iteration has passed.  It is longer than the  *)
(* way from Reset to the select, which takes a done context at once.         *)
Elapse(l) ==
  /\ loopAt[l] = "select" /\ l \notin fired /\ ~ctxDone
  /\ fired' = fired \cup {l}
  /\ UNCHANGED <<cfg, cancel, done, ctxDone, wait, loopAt, pending, due, errors, overrun, startStop>>

(* With both ready, select takes either branch. *)
Exit(l) ==
  /\ loopAt[l] = "select" /\ ctxDone
  /\ loopAt' = [loopAt EXCEPT ![l] = "exited"]
  /\ wait' = wait \ {l}
  /\ UNCHANGED <<cfg, cancel, done, ctxDone, fired, pending, due, errors, overrun, startStop>>

Iterate(l) ==
  /\ loopAt[l] = "select" /\ l \in fired
  /\ fired' = fired \ {l}
  /\ loopAt' = [loopAt EXCEPT ![l] = "body"]
  /\ UNCHANGED <<cfg, cancel, done, ctxDone, wait, pending, due, errors, overrun, startStop>>

(* The iteration is over.  Its error is logged. *)
Reset(l, ok) ==
  /\ loopAt' = [loopAt EXCEPT ![l] = "select"]
  /\ UNCHANGED wait

Err == errors < MaxErrors /\ errors' = errors + 1

(* Scheduler.Tick and janitor.Sweep, or DueTimers when it fails. *)
RunBody(l, ok) ==
  /\ loopAt[l] = "body"
  /\ IF l = "timer_scanner" THEN ~ok /\ Err ELSE UNCHANGED errors
  /\ Reset(l, ok)
  /\ UNCHANGED <<cfg, cancel, done, ctxDone, fired, pending, due, overrun, startStop>>

DueTimers ==
  /\ loopAt["timer_scanner"] = "body"
  /\ due' = {i \in DOMAIN Wakes : Wakes[i] \in pending}
  /\ loopAt' = [loopAt EXCEPT !["timer_scanner"] = "check"]
  /\ UNCHANGED <<cfg, cancel, done, ctxDone, wait, fired, pending, errors, overrun, startStop>>

(* The scan ends, or looks at ctx.Err before its next dispatch. *)
CheckContext ==
  /\ loopAt["timer_scanner"] = "check"
  /\ IF due = {} \/ ctxDone
       THEN Reset("timer_scanner", due = {}) /\ due' = {}
       ELSE loopAt' = [loopAt EXCEPT !["timer_scanner"] = "dispatch"] /\ UNCHANGED <<wait, due>>
  /\ UNCHANGED <<cfg, cancel, done, ctxDone, fired, pending, errors, overrun, startStop>>

(* The timer that is dispatched next. *)
First == CHOOSE i \in due : \A j \in due : i <= j

(* Mutant of Dispatch: a failed dispatch ends the scan. *)
DispatchOrGiveUp(ok) ==
  /\ loopAt["timer_scanner"] = "dispatch"
  /\ Wakes[First] \in Bad => ~ok
  /\ IF ok \/ Wakes[First] \in Bad THEN UNCHANGED errors ELSE Err
  /\ pending' = IF ok THEN pending \ {Wakes[First]} ELSE pending
  /\ due' = IF ok THEN due \ {First} ELSE {}
  /\ loopAt' = [loopAt EXCEPT !["timer_scanner"] = "check"]
  /\ UNCHANGED <<cfg, cancel, done, ctxDone, wait, fired, overrun, startStop>>

(* One bad workflow does not stall the scanner. *)
Dispatch(ok) ==
  /\ loopAt["timer_scanner"] = "dispatch"
  /\ Wakes[First] \in Bad => ~ok
  /\ IF ok \/ Wakes[First] \in Bad THEN UNCHANGED errors ELSE Err
  /\ pending' = IF ok THEN pending \ {Wakes[First]} ELSE pending
  /\ due' = due \ {First}
  /\ overrun' = IF ctxDone THEN overrun + 1 ELSE overrun
  /\ loopAt' = [loopAt EXCEPT !["timer_scanner"] = "check"]
  /\ UNCHANGED <<cfg, cancel, done, ctxDone, wait, fired, startStop>>

-----------------------------------------------------------------------------
Iteration(l) == Elapse(l) \/ Iterate(l) \/ \E ok \in BOOLEAN : RunBody(l, ok)

Scan == DueTimers \/ CheckContext \/ \E ok \in BOOLEAN : Dispatch(ok)

WorkersNext ==
  \/ \E s \in Starters : Start(s)
  \/ CancelParent
  \/ \E s \in Stoppers : StopSignals(s) \/ StopCancels(s) \/ StopWaits(s)
  \/ \E l \in Loops : Iteration(l) \/ Exit(l)
  \/ Scan

WorkersSpec == WorkersInit /\ [][WorkersNext]_workersVars

(* Loops run, intervals pass and iterations end. *)
WorkersFairness ==
  /\ \A s \in Stoppers : WF_workersVars(StopCancels(s) \/ StopWaits(s))
  /\ \A l \in Loops : WF_workersVars(Iteration(l) \/ Exit(l))
  /\ WF_workersVars(Scan)

WorkersFairSpec == WorkersSpec /\ WorkersFairness

-----------------------------------------------------------------------------
(* Types of the workers' fields and of the loops. *)
WorkersTypeOK ==
  /\ cfg \in Configs
  /\ cancel \in BOOLEAN /\ done \in BOOLEAN /\ ctxDone \in BOOLEAN
  /\ wait \subseteq Loops /\ fired \subseteq Loops
  /\ loopAt \in [Loops -> {"none", "select", "body", "check", "dispatch", "exited"}]
  /\ pending \subseteq {Wakes[i] : i \in DOMAIN Wakes}
  /\ due \subseteq DOMAIN Wakes /\ errors \in Nat /\ overrun \in Nat
  /\ starter \in [Starters -> {"none", "started", "refused"}]
  /\ stopper \in [Stoppers -> {"idle", "cancelling", "waiting", "nothing", "stopped"}]

(* Once a Stop that found the workers running has returned, no loop runs and *)
(* none will; and no matter when the cancellation meets a scan, at most the  *)
(* dispatch already past its context check still begins.                     *)
StopIsClean ==
  /\ WorkersTypeOK
  /\ (\E s \in Stoppers : stopper[s] = "stopped") => \A l \in cfg : loopAt[l] = "exited"
  /\ overrun <= 1

(* Stop returns.  And until then no error ends a loop: every good timer is   *)
(* dispatched, although a bad one is due before it in every scan.            *)
WorkersServe ==
  /\ \A s \in Stoppers : stopper[s] = "cancelling" ~> stopper[s] = "stopped"
  /\ loopAt["timer_scanner"] = "select" ~> (pending \subseteq Bad \/ ctxDone)
=============================================================================
