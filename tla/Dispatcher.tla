----------------------------- MODULE Dispatcher -----------------------------
(***************************************************************************)
(* The fire-and-forget dispatcher (adapters/go/dispatch): submissions are  *)
(* tracked, admitted, given one of MaxInflight slots and run on goroutines *)
(* of their own, or handed to an external queue.  Shutdown closes the      *)
(* admission, waits for admitted submissions, closes the queue once and    *)
(* drains the handlers.  One action per stretch of code between two        *)
(* synchronisation points.                                                 *)
(***************************************************************************)
EXTENDS Naturals, FiniteSets, TLC

CONSTANTS
  Subs,         \* calls of DoAsync, each with the task it submits
  Callers,      \* calls of Shutdown
  MaxInflight,  \* capacity of the semaphore; 0 means unbounded
  Queues        \* which queues the dispatcher may be built with

ASSUME SubsAreFinite == IsFiniteSet(Subs)
ASSUME MaxInflightIsNat == MaxInflight \in Nat
ASSUME QueuesKnown == Queues \subseteq {"inprocess", "external"}

VARIABLES
  queue,      \* the queue this dispatcher was built with
  closed,     \* closed: new DoAsync calls are rejected
  woken,      \* shutdownCh is closed: parked submitters return
  active,     \* activeSubmissions
  sem,        \* slots taken
  wg,         \* handler goroutines the WaitGroup counts
  sub,        \* where each DoAsync call stands
  handler,    \* where each task's goroutine stands
  task,       \* the tracker's record of each task
  started,    \* shutdownStarted
  caller,     \* where each Shutdown call stands
  snapshot,   \* the caller's submissionsDone channel: "nil", "open" or "closed"
  drained,    \* the caller's submissionsDrained
  expired,    \* callers whose shutdownCtx is done
  result,     \* what each Shutdown call returned
  cancelled,  \* inflightCtx is cancelled
  closes,     \* calls of Queue.Close
  gc          \* the tracker's GC goroutine

submission == <<active, sem, wg, sub, handler>>
ending == <<started, caller, snapshot, drained, expired, result, closes, cancelled, gc>>
vars == <<queue, closed, woken, submission, task, ending>>

Settled == {"DONE", "FAILED"}

Init ==
  /\ queue \in Queues
  /\ closed = FALSE /\ woken = FALSE /\ active = 0 /\ sem = 0 /\ wg = 0
  /\ sub = [s \in Subs |-> "idle"]
  /\ handler = [s \in Subs |-> "none"]
  /\ task = [s \in Subs |-> "none"]
  /\ started = FALSE
  /\ caller = [c \in Callers |-> "idle"]
  /\ snapshot = [c \in Callers |-> "nil"]
  /\ drained = [c \in Callers |-> FALSE]
  /\ expired = {}
  /\ result = [c \in Callers |-> "none"]
  /\ cancelled = FALSE /\ closes = 0 /\ gc = "running"

-----------------------------------------------------------------------------
(* DoAsync *)

Step(s, from, to) == sub[s] = from /\ sub' = [sub EXCEPT ![s] = to]

Track(s, status) == task' = [task EXCEPT ![s] = status]

(* markFailed, markDone and markRunning leave an evicted task alone. *)
Mark(s, status) == Track(s, IF task[s] \in {"none", "evicted"} THEN task[s] ELSE status)

(* The checks before anything is recorded: closed, the caller's context, the *)
(* method and the request type.                                              *)
Refuse(s) ==
  /\ Step(s, "idle", "refused")
  /\ UNCHANGED <<queue, closed, woken, active, sem, wg, handler, task, ending>>

MarkPending(s) ==
  /\ ~closed
  /\ Step(s, "idle", "pending")
  /\ Track(s, "PENDING")
  /\ UNCHANGED <<queue, closed, woken, active, sem, wg, handler, ending>>

(* Mutant of Admit: the admission lock no longer re-checks closed. *)
AdmitUnchecked(s) ==
  /\ Step(s, "pending", "submit")
  /\ active' = active + 1
  /\ UNCHANGED <<queue, closed, woken, sem, wg, handler, task, ending>>

(* The admission lock: the final closed check and the count are one step. *)
Admit(s) ==
  /\ IF closed THEN Step(s, "pending", "refused") /\ Mark(s, "FAILED") /\ UNCHANGED active
               ELSE Step(s, "pending", "submit") /\ active' = active + 1 /\ UNCHANGED task
  /\ UNCHANGED <<queue, closed, woken, sem, wg, handler, ending>>

(* inProcessQueue.Submit: its own closed check, *)
SubmitChecks(s) ==
  /\ queue = "inprocess"
  /\ Step(s, "submit", IF closed THEN "failing" ELSE IF MaxInflight > 0 THEN "parked" ELSE "launch")
  /\ UNCHANGED <<queue, closed, woken, active, sem, wg, handler, task, ending>>

(* the select on the semaphore, the caller's context and shutdownCh: when    *)
(* several are ready any of them may be taken,                               *)
Acquire(s) ==
  /\ Step(s, "parked", "launch") /\ sem < MaxInflight /\ sem' = sem + 1
  /\ UNCHANGED <<queue, closed, woken, active, wg, handler, task, ending>>

(* Mutant of Unpark: a parked submission only watches its own context. *)
UnparkDeaf(s, cause) ==
  /\ Step(s, "parked", "failing") /\ cause = "context"
  /\ UNCHANGED <<queue, closed, woken, active, sem, wg, handler, task, ending>>

Unpark(s, cause) ==
  /\ Step(s, "parked", "failing") /\ (cause = "shutdown" => woken)
  /\ UNCHANGED <<queue, closed, woken, active, sem, wg, handler, task, ending>>

(* wg.Add(1) and the goroutine. *)
Launch(s) ==
  /\ Step(s, "launch", "finish")
  /\ wg' = wg + 1
  /\ handler' = [handler EXCEPT ![s] = "launched"]
  /\ UNCHANGED <<queue, closed, woken, active, sem, task, ending>>

(* Submit of an external queue: handed off, or an error.  It may block until *)
(* Queue.Close releases it.                                                  *)
SubmitExternal(s, ok) ==
  /\ queue = "external"
  /\ Step(s, "submit", IF ok THEN "finish" ELSE "failing")
  /\ UNCHANGED <<queue, closed, woken, active, sem, wg, handler, task, ending>>

SubmitFails(s) ==
  /\ Step(s, "failing", "finishFailed")
  /\ Mark(s, "FAILED")
  /\ UNCHANGED <<queue, closed, woken, active, sem, wg, handler, ending>>

(* finishSubmission: the last one closes submissionsDone. *)
FinishSubmission(s) ==
  /\ \/ Step(s, "finish", "returned")
     \/ Step(s, "finishFailed", "refused")
  /\ active' = active - 1
  /\ snapshot' = [c \in Callers |-> IF snapshot[c] = "open" /\ active = 1 THEN "closed" ELSE snapshot[c]]
  /\ UNCHANGED <<queue, closed, woken, sem, wg, handler, task, started, caller, drained,
                 expired, result, closes, cancelled, gc>>

-----------------------------------------------------------------------------
(* The handler's goroutine and the tracker *)

Progress(s, from, to) == handler[s] = from /\ handler' = [handler EXCEPT ![s] = to]

MarkRunning(s) ==
  /\ Progress(s, "launched", "running")
  /\ Mark(s, "RUNNING")
  /\ UNCHANGED <<queue, closed, woken, active, sem, wg, sub, ending>>

(* runHandler returns, fails or panics, and the outcome is recorded. *)
Return(s, status) ==
  /\ Progress(s, "running", "release")
  /\ Mark(s, status)
  /\ UNCHANGED <<queue, closed, woken, active, sem, wg, sub, ending>>

(* The deferred calls: the slot first, then the WaitGroup. *)
ReleaseSlot(s) ==
  /\ Progress(s, "release", "leaving")
  /\ sem' = IF MaxInflight > 0 THEN sem - 1 ELSE sem
  /\ UNCHANGED <<queue, closed, woken, active, wg, sub, task, ending>>

Leave(s) ==
  /\ Progress(s, "leaving", "ended")
  /\ wg' = wg - 1
  /\ UNCHANGED <<queue, closed, woken, active, sem, sub, task, ending>>

(* Mutant of Evict: age is measured from the submission. *)
EvictAny(s) ==
  /\ gc = "running" /\ task[s] \notin {"none", "evicted"}
  /\ Track(s, "evicted")
  /\ UNCHANGED <<queue, closed, woken, submission, ending>>

(* evictExpiredTasks, a terminal record whose TTL is over. *)
Evict(s) ==
  /\ gc = "running" /\ task[s] \in Settled
  /\ Track(s, "evicted")
  /\ UNCHANGED <<queue, closed, woken, submission, ending>>

-----------------------------------------------------------------------------
(* Shutdown *)

Phase(c, from, to) == caller[c] = from /\ caller' = [caller EXCEPT ![c] = to]

(* shutdownMu: one call performs the shutdown, the others wait for it. *)
Enter(c) ==
  /\ Phase(c, "idle", IF started THEN "joined" ELSE "signal")
  /\ started' = TRUE
  /\ UNCHANGED <<queue, closed, woken, submission, task, snapshot, drained, expired, result,
                 closes, cancelled, gc>>

(* Phase A: closed.Store(true), then close(shutdownCh). *)
Close(c) ==
  /\ Phase(c, "signal", "wake")
  /\ closed' = TRUE
  /\ UNCHANGED <<queue, woken, submission, task, started, snapshot, drained, expired, result,
                 closes, cancelled, gc>>

WakeParked(c) ==
  /\ Phase(c, "wake", "look1")
  /\ woken' = TRUE
  /\ UNCHANGED <<queue, closed, submission, task, started, snapshot, drained, expired, result,
                 closes, cancelled, gc>>

(* waitSubmissions: the channel is read under the admission lock, *)
Look(c) ==
  /\ Phase(c, "look1", "wait1") \/ Phase(c, "look2", "wait2")
  /\ snapshot' = [snapshot EXCEPT ![c] = IF active = 0 THEN "nil" ELSE "open"]
  /\ UNCHANGED <<queue, closed, woken, submission, task, started, drained, expired, result,
                 closes, cancelled, gc>>

(* and waited for, up to the drain timeout or the end of shutdownCtx; with  *)
(* both ready the select may take either.                                   *)
Waited(c, ok) ==
  /\ IF ok THEN snapshot[c] # "open" ELSE snapshot[c] # "nil"
  /\ drained' = [drained EXCEPT ![c] = ok]
  /\ snapshot' = [snapshot EXCEPT ![c] = "nil"]
  /\ Phase(c, "wait1", "queue") \/ Phase(c, "wait2", "drain")
  /\ UNCHANGED <<queue, closed, woken, submission, task, started, expired, result,
                 closes, cancelled, gc>>

(* Phase C: Queue.Close, and a second window when the first one elapsed. *)
CloseQueue(c) ==
  /\ Phase(c, "queue", IF drained[c] THEN "drain" ELSE "look2")
  /\ closes' = closes + 1
  /\ UNCHANGED <<queue, closed, woken, submission, task, started, snapshot, drained, expired,
                 result, cancelled, gc>>

(* waitDrain: the WaitGroup clears, or the timeout or shutdownCtx is first. *)
WaitDrain(c, cleared, timeout) == IF cleared THEN wg = 0 ELSE timeout \/ c \in expired

(* Phase 1: without a complete drain within the window, handlers are         *)
(* cancelled.                                                                *)
Drain(c, complete) ==
  /\ IF drained[c] THEN WaitDrain(c, complete, TRUE) ELSE ~complete
  /\ Phase(c, "drain", IF drained[c] THEN "drainRest" ELSE "finish")
  /\ cancelled' = (cancelled \/ ~complete)
  /\ UNCHANGED <<queue, closed, woken, submission, task, started, snapshot, drained, expired,
                 result, closes, gc>>

(* Phase 2: the rest, bounded only by shutdownCtx. *)
DrainRest(c) ==
  /\ \E cleared \in BOOLEAN : WaitDrain(c, cleared, FALSE)
  /\ Phase(c, "drainRest", "finish")
  /\ UNCHANGED <<queue, closed, woken, submission, task, started, snapshot, drained, expired,
                 result, closes, cancelled, gc>>

(* Phase 3: the GC is stopped and waited for.  The result joins an undrained *)
(* submission, the context's error and what Close returned.                  *)
Finish(c, closeFailed) ==
  /\ Phase(c, "finish", "done")
  /\ gc' = "stopped"
  /\ closeFailed => queue = "external"
  /\ result' = [result EXCEPT ![c] = IF ~drained[c] \/ c \in expired \/ closeFailed THEN "error" ELSE "ok"]
  /\ UNCHANGED <<queue, closed, woken, submission, task, started, snapshot, drained, expired,
                 closes, cancelled>>

(* Mutant of Join: a second call does not wait. *)
JoinAtOnce(c) ==
  /\ Phase(c, "joined", "done")
  /\ result' = [result EXCEPT ![c] = "ok"]
  /\ UNCHANGED <<queue, closed, woken, submission, task, started, snapshot, drained, expired,
                 closes, cancelled, gc>>

(* The other calls return the same result, or the error of their context. *)
Join(c) ==
  /\ \/ \E d \in Callers : caller[d] = "done" /\ result' = [result EXCEPT ![c] = result[d]]
     \/ c \in expired /\ result' = [result EXCEPT ![c] = "error"]
  /\ Phase(c, "joined", "done")
  /\ UNCHANGED <<queue, closed, woken, submission, task, started, snapshot, drained, expired,
                 closes, cancelled, gc>>

(* The context a Shutdown call was given is done. *)
Expire(c) ==
  /\ c \notin expired /\ caller[c] \notin {"idle", "done"}
  /\ expired' = expired \cup {c}
  /\ UNCHANGED <<queue, closed, woken, submission, task, started, caller, snapshot, drained,
                 result, closes, cancelled, gc>>

-----------------------------------------------------------------------------

Submission(s) ==
  \/ Refuse(s) \/ MarkPending(s) \/ Admit(s) \/ SubmitChecks(s) \/ Acquire(s)
  \/ \E cause \in {"context", "shutdown"} : Unpark(s, cause)
  \/ Launch(s) \/ (\E ok \in BOOLEAN : SubmitExternal(s, ok)) \/ SubmitFails(s) \/ FinishSubmission(s)

Handling(s) ==
  \/ MarkRunning(s) \/ (\E status \in Settled : Return(s, status)) \/ ReleaseSlot(s) \/ Leave(s)

Shutdown(c) ==
  \/ Enter(c) \/ Close(c) \/ WakeParked(c) \/ Look(c)
  \/ (\E ok \in BOOLEAN : Waited(c, ok))
  \/ CloseQueue(c) \/ (\E complete \in BOOLEAN : Drain(c, complete)) \/ DrainRest(c)
  \/ (\E closeFailed \in BOOLEAN : Finish(c, closeFailed)) \/ Join(c)

Next ==
  \/ \E s \in Subs : Submission(s) \/ Handling(s) \/ Evict(s)
  \/ \E c \in Callers : Shutdown(c) \/ Expire(c)

Spec == Init /\ [][Next]_vars

(* Goroutines run.  A handler returns once inflightCtx is cancelled; until   *)
(* then it may take as long as it likes.  Nobody has to call DoAsync or      *)
(* Shutdown, no context has to expire, no slot has to be won, and an         *)
(* external queue releases its Submit once it is closed.                     *)
Fairness ==
  /\ \A s \in Subs :
       /\ WF_vars(\/ Admit(s) \/ SubmitChecks(s) \/ Unpark(s, "shutdown") \/ Launch(s)
                  \/ closes > 0 /\ (\E ok \in BOOLEAN : SubmitExternal(s, ok))
                  \/ SubmitFails(s) \/ FinishSubmission(s))
       /\ WF_vars(\/ MarkRunning(s) \/ ReleaseSlot(s) \/ Leave(s)
                  \/ cancelled /\ \E status \in Settled : Return(s, status))
  /\ \A c \in Callers : WF_vars(caller[c] # "idle" /\ Shutdown(c))

FairSpec == Spec /\ Fairness

-----------------------------------------------------------------------------
(* Properties *)

Running == {s \in Subs : handler[s] \in {"launched", "running", "release"}}

(* Types of the dispatcher's fields and of the calls in progress. *)
TypeOK ==
  /\ queue \in Queues /\ closed \in BOOLEAN /\ woken \in BOOLEAN
  /\ active \in Nat /\ sem \in Nat /\ wg \in Nat /\ closes \in Nat
  /\ sub \in [Subs -> {"idle", "refused", "pending", "submit", "parked", "launch", "failing",
                       "finish", "finishFailed", "returned"}]
  /\ handler \in [Subs -> {"none", "launched", "running", "release", "leaving", "ended"}]
  /\ task \in [Subs -> {"none", "PENDING", "RUNNING", "evicted"} \cup Settled]
  /\ expired \in SUBSET Callers
  /\ started \in BOOLEAN /\ cancelled \in BOOLEAN
  /\ caller \in [Callers -> {"idle", "joined", "signal", "wake", "look1", "wait1", "queue", "look2",
                             "wait2", "drain", "drainRest", "finish", "done"}]
  /\ snapshot \in [Callers -> {"nil", "open", "closed"}]
  /\ drained \in [Callers -> BOOLEAN]
  /\ result \in [Callers -> {"none", "ok", "error"}]
  /\ gc \in {"running", "stopped"}

(* The two counters are safe.  No slot of the semaphore is lost or returned  *)
(* twice: it counts exactly the submissions about to launch and the          *)
(* goroutines that have not released theirs, and so bounds the handlers.     *)
(* And while Shutdown waits on the WaitGroup no submission is between its    *)
(* admission and its return, where it could still reach wg.Add.  The fields  *)
(* stay in their types.                                                      *)
CountersSafe ==
  /\ TypeOK
  /\ MaxInflight > 0 =>
       /\ sem = Cardinality(Running) + Cardinality({s \in Subs : sub[s] = "launch"})
       /\ Cardinality(Running) <= MaxInflight
  /\ \A c \in Callers : caller[c] \in {"drain", "drainRest"} /\ drained[c] =>
       \A s \in Subs : sub[s] \in {"idle", "refused", "pending", "returned"}

(* A Shutdown call that returns nil, whether it performed the shutdown or    *)
(* joined it, returns after every handler and after every submission that    *)
(* was admitted, with the queue closed exactly once; the tasks of the        *)
(* in-process queue are all settled.                                         *)
CleanShutdown ==
  \A c \in Callers : caller[c] = "done" /\ result[c] = "ok" =>
    /\ wg = 0 /\ active = 0 /\ closes = 1
    /\ queue = "inprocess" => \A s \in Subs : sub[s] \in {"returned", "refused"} =>
                                                task[s] \notin {"PENDING", "RUNNING"}

(* The tracker never forgets a task in flight and never revises an outcome,  *)
(* whatever the order of the submitter, the goroutine and the GC.            *)
OutcomeIsFinal ==
  [][\A s \in Subs :
       /\ task[s] \in Settled => task'[s] \in {task[s], "evicted"}
       /\ task[s] \in {"PENDING", "RUNNING"} => task'[s] \in {"PENDING", "RUNNING"} \cup Settled]_vars

(* Once Shutdown is called it returns, to every caller: parked submitters    *)
(* are woken, timed-out waits end and cancelled handlers are waited for.     *)
(* And every task that the in-process queue tracked is settled then, so that *)
(* nobody polls Status for ever.                                             *)
ShutdownReturns ==
  started ~> /\ \A c \in Callers : caller[c] \in {"idle", "done"}
             /\ queue = "inprocess" => \A s \in Subs : task[s] \notin {"PENDING", "RUNNING"}
=============================================================================
