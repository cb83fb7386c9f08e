----------------------------- MODULE DurableRun -----------------------------
(***************************************************************************)
(* One workflow run of core/go/workflow/workflow.go, invoked again and     *)
(* again.  Run reads the workflow record, takes the execution claim,       *)
(* prefetches the run-scoped cache, publishes IN_PROGRESS, replays the     *)
(* body, and writes the terminal record or returns a continuation error.   *)
(* The body is a fixed sequence of waits: Sleep, WaitEvent with a poll     *)
(* timer, WaitEvent without.  A wait that finds its timer due goes on with *)
(* the timer still SCHEDULED and registers it as consumed; consumed timers *)
(* are marked FIRED only behind a later timer or a terminal record.        *)
(*                                                                         *)
(* Every store operation is a step.  A write may fail with or without      *)
(* having been applied, and an invocation may crash between any two steps. *)
(* Timers are the registers of TimerRegister.  Time is relative: a record  *)
(* carries how long its deadline is still away, in the store and in every  *)
(* cached copy, and Tick brings all of them closer.                        *)
(***************************************************************************)
EXTENDS Naturals, FiniteSets

CONSTANTS
  Invocations,  \* concurrent callers of Run for this run
  N,            \* number of waits in the body
  Kind,         \* kind of each wait: "sleep", "poll" or "manual"
  Delay,        \* sleep duration or poll interval of each wait
  UseClaims,    \* whether the callers set claim_owner_id
  MaxFaults     \* bound on failed writes, failed reads and crashes

ASSUME NIsNat == N \in Nat
ASSUME KindsKnown == Kind \in [1..N -> {"sleep", "poll", "manual"}]
ASSUME DelaysAreNat == Delay \in [1..N -> Nat]
ASSUME UseClaimsIsBoolean == UseClaims \in BOOLEAN
ASSUME ClaimValuesDistinct == "free" \notin Invocations /\ "leaked" \notin Invocations

Waits == 1..N

NoRecord == [status |-> "NONE", wait |-> 0]

Unread == [status |-> "UNREAD", wait |-> 0]

TimerRecord == [status : {"SCHEDULED", "FIRED"}, wait : Nat]

Places == {"idle", "claim1", "claim2", "lost1", "lost2", "busy1", "busy2", "reread", "load", "body",
           "arm", "resolve", "verify", "consume", "ack", "finish", "exit", "release"}

VARIABLES
  workflow,   \* stored workflow record: "NONE", "IN_PROGRESS" or "TERMINAL"
  timer,      \* stored timer record of each wait
  event,      \* which events have been delivered
  claim,      \* the workflow:execution claim: "free", "leaked" or its live holder
  pc,         \* where each invocation stands
  fresh,      \* the invocation found no workflow record (createdAt = nil)
  cache,      \* run-scoped cache: what the invocation knows of each timer
  seen,       \* run-scoped cache: events the invocation knows to be delivered
  listed,     \* the cache was prefetched, so it no longer reads events
  pos,        \* the wait the body has reached
  consumed,   \* consumedWakeTimers
  acking,     \* consumed timers still to be acknowledged at this boundary
  except,     \* exceptTimerID: the successor itself, 0 behind a terminal record
  next,       \* where the invocation goes on after acknowledging
  done,       \* history: a terminal record was once written
  faults      \* faults so far

durable == <<workflow, timer, event, claim>>
locals == <<fresh, cache, seen, listed, pos, consumed, acking, except, next>>
vars == <<durable, pc, locals, done, faults>>

Scheduled(k) == timer[k].status = "SCHEDULED"

Armed(k) == timer[k] # NoRecord

Init ==
  /\ workflow = "NONE"
  /\ timer = [k \in Waits |-> NoRecord]
  /\ event = {}
  /\ claim = "free"
  /\ pc = [i \in Invocations |-> "idle"]
  /\ fresh = [i \in Invocations |-> FALSE]
  /\ cache = [i \in Invocations |-> [k \in Waits |-> Unread]]
  /\ seen = [i \in Invocations |-> {}]
  /\ listed = [i \in Invocations |-> FALSE]
  /\ pos = [i \in Invocations |-> 1]
  /\ consumed = [i \in Invocations |-> {}]
  /\ acking = [i \in Invocations |-> {}]
  /\ except = [i \in Invocations |-> 0]
  /\ next = [i \in Invocations |-> "idle"]
  /\ done = FALSE
  /\ faults = 0

Goto(i, l) == pc' = [pc EXCEPT ![i] = l]

(* Outcomes of a store write: it succeeds, it is applied but its answer is   *)
(* lost, or it is not applied.                                               *)
Outcomes == {"ok", "lost", "failed"}

Charge(o) ==
  /\ o # "ok" => faults < MaxFaults
  /\ faults' = IF o = "ok" THEN faults ELSE faults + 1

-----------------------------------------------------------------------------
(* Run: from the first read to the body                                     *)

(* A terminal record is replayed: Run returns its outcome and writes nothing. *)
Replay(i) ==
  /\ pc[i] = "idle" /\ workflow = "TERMINAL"
  /\ UNCHANGED vars

(* rawStore.GetWorkflow, with no record or one IN_PROGRESS. *)
Start(i) ==
  /\ pc[i] = "idle" /\ workflow # "TERMINAL"
  /\ fresh' = [fresh EXCEPT ![i] = workflow = "NONE"]
  /\ Goto(i, IF UseClaims THEN "claim1" ELSE "load")
  /\ UNCHANGED <<durable, cache, seen, listed, pos, consumed, acking, except, next, done, faults>>

(* Mutant of TryCreateClaim: the create is not conditional. *)
TryCreateClaimOverwrites(i) ==
  /\ pc[i] \in {"claim1", "claim2"}
  /\ \E o \in Outcomes :
       /\ Charge(o)
       /\ claim' = CASE o = "ok" -> i [] o = "lost" -> "leaked" [] OTHER -> claim
       /\ Goto(i, IF o = "ok" THEN "reread" ELSE "idle")
       /\ fresh' = [fresh EXCEPT ![i] = IF o = "ok" THEN @ ELSE FALSE]
  /\ UNCHANGED <<workflow, timer, event, cache, seen, listed, pos, consumed, acking, except, next,
                 done>>

(* TryCreateClaim, at most twice.  A create that reports an error ends the   *)
(* call, and leaves the claim behind if it was applied all the same.         *)
TryCreateClaim(i) ==
  /\ pc[i] \in {"claim1", "claim2"}
  /\ \/ /\ claim # "free"
        /\ Goto(i, IF pc[i] = "claim1" THEN "lost1" ELSE "lost2")
        /\ UNCHANGED <<claim, fresh, faults>>
     \/ /\ claim = "free"
        /\ \E o \in Outcomes :
             /\ Charge(o)
             /\ claim' = CASE o = "ok" -> i [] o = "lost" -> "leaked" [] OTHER -> claim
             /\ Goto(i, IF o = "ok" THEN "reread" ELSE "idle")
             /\ fresh' = [fresh EXCEPT ![i] = IF o = "ok" THEN @ ELSE FALSE]
  /\ UNCHANGED <<workflow, timer, event, cache, seen, listed, pos, consumed, acking, except, next,
                 done>>

(* The loser re-reads the workflow record: a terminal one is replayed. *)
LostClaim(i) ==
  /\ pc[i] \in {"lost1", "lost2"}
  /\ Goto(i, IF workflow = "TERMINAL" THEN "idle"
             ELSE IF pc[i] = "lost1" THEN "busy1" ELSE "busy2")
  /\ fresh' = [fresh EXCEPT ![i] = IF workflow = "TERMINAL" THEN FALSE ELSE @]
  /\ UNCHANGED <<durable, cache, seen, listed, pos, consumed, acking, except, next, done, faults>>

(* GetClaim: ClaimBusyError, or one retry when the claim has disappeared. *)
ClaimBusy(i) ==
  /\ pc[i] \in {"busy1", "busy2"}
  /\ LET retry == claim = "free" /\ pc[i] = "busy1"
     IN  /\ Goto(i, IF retry THEN "claim2" ELSE "idle")
         /\ fresh' = [fresh EXCEPT ![i] = IF retry THEN @ ELSE FALSE]
  /\ UNCHANGED <<durable, cache, seen, listed, pos, consumed, acking, except, next, done, faults>>

(* Mutant of Reread: the holder trusts what it read before the claim. *)
RereadSkipped(i) ==
  /\ pc[i] = "reread"
  /\ Goto(i, "load")
  /\ UNCHANGED <<durable, locals, done, faults>>

(* The holder re-reads the workflow record before anything else. *)
Reread(i) ==
  /\ pc[i] = "reread"
  /\ fresh' = [fresh EXCEPT ![i] = workflow = "NONE"]
  /\ Goto(i, IF workflow = "TERMINAL" THEN "release" ELSE "load")
  /\ UNCHANGED <<durable, cache, seen, listed, pos, consumed, acking, except, next, done, faults>>

(* prefetch, only when a record was found: ListTimers reads each timer at a  *)
(* moment of its own, ListEvents the events.                                 *)
PrefetchTimer(i, k) ==
  /\ pc[i] = "load" /\ ~fresh[i] /\ cache[i][k] = Unread
  /\ cache' = [cache EXCEPT ![i][k] = timer[k]]
  /\ UNCHANGED <<durable, pc, fresh, seen, listed, pos, consumed, acking, except, next, done, faults>>

PrefetchEvents(i) ==
  /\ pc[i] = "load" /\ ~fresh[i] /\ ~listed[i]
  /\ seen' = [seen EXCEPT ![i] = event]
  /\ listed' = [listed EXCEPT ![i] = TRUE]
  /\ UNCHANGED <<durable, pc, fresh, cache, pos, consumed, acking, except, next, done, faults>>

(* A run with a record enters the body; a fresh one first publishes          *)
(* IN_PROGRESS, and returns when that write reports an error.                *)
EnterBody(i) ==
  /\ pc[i] = "load"
  /\ \/ /\ ~fresh[i] /\ listed[i] /\ \A k \in Waits : cache[i][k] # Unread
        /\ Goto(i, "body")
        /\ UNCHANGED <<workflow, faults>>
     \/ /\ fresh[i]
        /\ \E o \in Outcomes :
             /\ Charge(o)
             /\ workflow' = IF o = "failed" THEN workflow ELSE "IN_PROGRESS"
             /\ Goto(i, IF o = "ok" THEN "body" ELSE "release")
  /\ UNCHANGED <<timer, event, claim, locals, done>>

(* The re-read or the prefetch fails, or no concurrency slot is free. *)
GiveUp(i) ==
  /\ pc[i] \in {"reread", "load"} /\ faults < MaxFaults
  /\ faults' = faults + 1
  /\ Goto(i, "release")
  /\ UNCHANGED <<durable, locals, done>>

-----------------------------------------------------------------------------
(* The waits                                                                *)

Remember(i, k, r) == cache' = [cache EXCEPT ![i][k] = r]

(* The wait has reached the read of its timer. *)
AtTimer(i) == pc[i] \in {"arm", "resolve"} \/ (pc[i] = "body" /\ pos[i] \in Waits /\ Kind[pos[i]] = "sleep")

(* The cache's GetTimer, when it was not prefetched: a miss reads the store. *)
LoadTimer(i) ==
  /\ AtTimer(i) /\ cache[i][pos[i]] = Unread
  /\ Remember(i, pos[i], timer[pos[i]])
  /\ UNCHANGED <<durable, pc, fresh, seen, listed, pos, consumed, acking, except, next, done, faults>>

(* A read of the body fails, or its context is cancelled. *)
WaitFails(i) ==
  /\ pc[i] \in {"body", "arm", "resolve"} /\ pos[i] \in Waits /\ faults < MaxFaults
  /\ faults' = faults + 1
  /\ Goto(i, "exit")
  /\ UNCHANGED <<durable, locals, done>>

AtSleep(i) == pc[i] = "body" /\ AtTimer(i) /\ cache[i][pos[i]] # Unread

Advance(i) == pos' = [pos EXCEPT ![i] = @ + 1]

(* Mutant of BeginAck: the successor is acknowledged with the rest. *)
BeginAckItself(i, e, l) ==
  /\ acking' = [acking EXCEPT ![i] = consumed[i] \cup ({e} \ {0})]
  /\ except' = [except EXCEPT ![i] = e]
  /\ next' = [next EXCEPT ![i] = l]
  /\ Goto(i, "ack")

(* acknowledgeConsumedWakeTimers, first half: what there is to acknowledge   *)
(* at boundary e, and where the invocation goes afterwards.                  *)
BeginAck(i, e, l) ==
  /\ acking' = [acking EXCEPT ![i] = consumed[i] \ {e}]
  /\ except' = [except EXCEPT ![i] = e]
  /\ next' = [next EXCEPT ![i] = l]
  /\ Goto(i, "ack")

NoAck == UNCHANGED <<acking, except, next>>

(* Sleep whose timer is known: FIRED returns; SCHEDULED is a durable         *)
(* successor of what was consumed before, and is then pending or consumed.   *)
SleepKnown(i) ==
  LET k == pos[i]
      r == cache[i][k]
  IN
  /\ AtSleep(i) /\ r # NoRecord
  /\ IF r.status = "FIRED"
       THEN Advance(i) /\ NoAck /\ UNCHANGED pc
       ELSE BeginAck(i, k, IF r.wait > 0 THEN "exit" ELSE "consume") /\ UNCHANGED pos
  /\ UNCHANGED <<durable, fresh, cache, seen, listed, consumed, done, faults>>

(* Sleep without a timer: writes it. *)
SleepNew(i) ==
  LET k == pos[i]
      r == [status |-> "SCHEDULED", wait |-> Delay[k]]
  IN
  /\ AtSleep(i) /\ cache[i][k] = NoRecord
  /\ \E o \in Outcomes :
       /\ Charge(o)
       /\ timer' = IF o = "failed" THEN timer ELSE [timer EXCEPT ![k] = r]
       /\ Remember(i, k, IF o = "ok" THEN r ELSE NoRecord)
       /\ IF o = "ok"
            THEN BeginAck(i, k, IF Delay[k] > 0 THEN "exit" ELSE "consume")
            ELSE Goto(i, "verify") /\ NoAck
  /\ UNCHANGED <<workflow, event, claim, fresh, seen, listed, pos, consumed, done>>

(* Mutant of Verify: any timer found ends the sleep. *)
VerifyAnyTimer(i) ==
  LET k == pos[i]
      r == timer[k]
  IN
  /\ pc[i] = "verify"
  /\ Remember(i, k, r)
  /\ IF r # NoRecord THEN Advance(i) /\ Goto(i, "body") ELSE UNCHANGED pos /\ Goto(i, "exit")
  /\ UNCHANGED <<durable, fresh, seen, listed, consumed, acking, except, next, done, faults>>

(* getTimerAuthoritative after a failed write.  Sleep: only a FIRED timer    *)
(* lets the body go on, everything else is a continuation.  ArmPoll: a timer *)
(* that is not SCHEDULED is a conflict, which fails the workflow.            *)
Verify(i) ==
  LET k == pos[i]
      r == timer[k]
  IN
  /\ pc[i] = "verify"
  /\ \/ /\ Remember(i, k, r)
        /\ IF r.status = "FIRED"
             THEN IF Kind[k] = "sleep" THEN Advance(i) /\ Goto(i, "body")
                                       ELSE UNCHANGED pos /\ Goto(i, "finish")
             ELSE UNCHANGED pos /\ Goto(i, "exit")
        /\ UNCHANGED faults
     \/ /\ faults < MaxFaults /\ faults' = faults + 1   \* the read fails too
        /\ Goto(i, "exit")
        /\ UNCHANGED <<cache, pos>>
  /\ UNCHANGED <<durable, fresh, seen, listed, consumed, acking, except, next, done>>

(* registerConsumedWakeTimer, after the successor's own acknowledgements. *)
Consume(i) ==
  /\ pc[i] = "consume"
  /\ consumed' = [consumed EXCEPT ![i] = @ \cup {pos[i]}]
  /\ Advance(i)
  /\ Goto(i, "body")
  /\ UNCHANGED <<durable, fresh, cache, seen, listed, acking, except, next, done, faults>>

(* WaitEvent reads the event, from the cache when that was prefetched.      *)
(* Delivered without a poll timer, the body goes on; not delivered without   *)
(* one, EventPendingError.                                                   *)
WaitEvent(i) ==
  LET k == pos[i]
      delivered == k \in (IF listed[i] THEN seen[i] ELSE event)
  IN
  /\ pc[i] = "body" /\ k \in Waits /\ Kind[k] # "sleep"
  /\ IF Kind[k] = "poll"
       THEN Goto(i, IF delivered THEN "resolve" ELSE "arm") /\ UNCHANGED pos
       ELSE IF delivered THEN Advance(i) /\ UNCHANGED pc
                         ELSE Goto(i, "exit") /\ UNCHANGED pos
  /\ UNCHANGED <<durable, fresh, cache, seen, listed, consumed, acking, except, next, done, faults>>

(* ResolvePoll registers the poll timer as consumed when it is SCHEDULED,    *)
(* due or not.                                                               *)
ResolvePoll(i) ==
  LET k == pos[i]
  IN
  /\ pc[i] = "resolve" /\ cache[i][k] # Unread
  /\ consumed' = [consumed EXCEPT ![i] =
       IF cache[i][k].status = "SCHEDULED" THEN @ \cup {k} ELSE @]
  /\ Advance(i)
  /\ Goto(i, "body")
  /\ UNCHANGED <<durable, fresh, cache, seen, listed, acking, except, next, done, faults>>

(* ArmPoll: a timer still in the future is the successor; otherwise the      *)
(* timer is armed, or armed again, from now.                                 *)
ArmPoll(i) ==
  LET k == pos[i]
      r == cache[i][k]
      armed == [status |-> "SCHEDULED", wait |-> Delay[k]]
  IN
  /\ pc[i] = "arm" /\ r # Unread
  /\ \/ /\ r.status = "SCHEDULED" /\ r.wait > 0
        /\ BeginAck(i, k, "exit")
        /\ UNCHANGED <<timer, cache, faults>>
     \/ /\ ~(r.status = "SCHEDULED" /\ r.wait > 0)
        /\ \E o \in Outcomes :
             /\ Charge(o)
             /\ timer' = IF o = "failed" THEN timer ELSE [timer EXCEPT ![k] = armed]
             /\ Remember(i, k, IF o = "ok" THEN armed ELSE r)
             /\ IF o = "ok" THEN BeginAck(i, k, "exit") ELSE Goto(i, "verify") /\ NoAck
  /\ UNCHANGED <<workflow, event, claim, fresh, seen, listed, pos, consumed, done>>

-----------------------------------------------------------------------------
(* acknowledgeConsumedWakeTimers, second half, one timer at a time in ID     *)
(* order.  A timer already FIRED is forgotten; a failed write keeps it       *)
(* registered for the next boundary.                                         *)
Acknowledge(i) ==
  /\ pc[i] = "ack" /\ acking[i] # {}
  /\ \E k \in acking[i] :
       /\ \A l \in acking[i] : k <= l
       /\ acking' = [acking EXCEPT ![i] = @ \ {k}]
       /\ IF cache[i][k].status # "SCHEDULED"
            THEN /\ consumed' = [consumed EXCEPT ![i] = @ \ {k}]
                 /\ UNCHANGED <<timer, cache, faults>>
            ELSE \E o \in Outcomes :
                 LET fired == [cache[i][k] EXCEPT !.status = "FIRED"]
                 IN  /\ Charge(o)
                     /\ timer' = IF o = "failed" THEN timer ELSE [timer EXCEPT ![k] = fired]
                     /\ IF o = "ok"
                          THEN /\ Remember(i, k, fired)
                               /\ consumed' = [consumed EXCEPT ![i] = @ \ {k}]
                          ELSE UNCHANGED <<cache, consumed>>
  /\ UNCHANGED <<workflow, event, claim, pc, fresh, seen, listed, pos, except, next, done>>

EndAck(i) ==
  /\ pc[i] = "ack" /\ acking[i] = {}
  /\ Goto(i, next[i])
  /\ except' = [except EXCEPT ![i] = 0]
  /\ next' = [next EXCEPT ![i] = "idle"]
  /\ UNCHANGED <<durable, fresh, cache, seen, listed, pos, consumed, acking, done, faults>>

-----------------------------------------------------------------------------
(* Run: from the body to the return                                         *)

(* The body returns a result after its last wait, or an error of its own at  *)
(* any point.                                                                *)
BodyReturns(i) ==
  /\ pc[i] = "body"
  /\ Goto(i, "finish")
  /\ UNCHANGED <<durable, locals, done, faults>>

(* Mutant of Finish: wakes are acknowledged behind a failed write too. *)
FinishAcksAnyway(i) ==
  /\ pc[i] = "finish"
  /\ \E o \in Outcomes :
       /\ Charge(o)
       /\ workflow' = IF o = "failed" THEN workflow ELSE "TERMINAL"
       /\ done' = (done \/ o # "failed")
       /\ BeginAck(i, 0, "release")
  /\ UNCHANGED <<timer, event, claim, fresh, cache, seen, listed, pos, consumed>>

(* PutWorkflow(COMPLETED or FAILED).  Only a write that succeeded is followed *)
(* by acknowledgements.                                                       *)
Finish(i) ==
  /\ pc[i] = "finish"
  /\ \E o \in Outcomes :
       /\ Charge(o)
       /\ workflow' = IF o = "failed" THEN workflow ELSE "TERMINAL"
       /\ done' = (done \/ o # "failed")
       /\ IF o = "ok" THEN BeginAck(i, 0, "release") ELSE Goto(i, "release") /\ NoAck
  /\ UNCHANGED <<timer, event, claim, fresh, cache, seen, listed, pos, consumed>>

(* A continuation error.  Changed annotations are saved by rewriting the      *)
(* IN_PROGRESS record.                                                        *)
Exit(i) ==
  /\ pc[i] = "exit"
  /\ \/ UNCHANGED <<workflow, faults>>
     \/ \E o \in Outcomes :
          /\ Charge(o)
          /\ workflow' = IF o = "failed" THEN workflow ELSE "IN_PROGRESS"
  /\ Goto(i, "release")
  /\ UNCHANGED <<timer, event, claim, locals, done>>

Reset(i) ==
  /\ fresh' = [fresh EXCEPT ![i] = FALSE]
  /\ cache' = [cache EXCEPT ![i] = [k \in Waits |-> Unread]]
  /\ seen' = [seen EXCEPT ![i] = {}]
  /\ listed' = [listed EXCEPT ![i] = FALSE]
  /\ pos' = [pos EXCEPT ![i] = 1]
  /\ consumed' = [consumed EXCEPT ![i] = {}]
  /\ acking' = [acking EXCEPT ![i] = {}]
  /\ except' = [except EXCEPT ![i] = 0]
  /\ next' = [next EXCEPT ![i] = "idle"]

(* The deferred DeleteClaim; when it is not applied the claim stays behind. *)
Release(i) ==
  /\ pc[i] = "release"
  /\ IF UseClaims
       THEN \E o \in Outcomes :
              /\ Charge(o)
              /\ claim' = IF o = "failed" THEN "leaked" ELSE "free"
       ELSE UNCHANGED <<claim, faults>>
  /\ Goto(i, "idle")
  /\ Reset(i)
  /\ UNCHANGED <<workflow, timer, event, done>>

-----------------------------------------------------------------------------
(* The environment                                                          *)

(* The process dies; a claim it holds stays in the store. *)
Crash(i) ==
  /\ pc[i] # "idle" /\ faults < MaxFaults
  /\ faults' = faults + 1
  /\ claim' = IF claim = i THEN "leaked" ELSE claim
  /\ Goto(i, "idle")
  /\ Reset(i)
  /\ UNCHANGED <<workflow, timer, event, done>>

(* An operator deletes a claim after verifying that its holder is gone. *)
OperatorRelease ==
  /\ claim = "leaked"
  /\ claim' = "free"
  /\ UNCHANGED <<workflow, timer, event, pc, locals, done, faults>>

(* SendEvent: create-once delivery. *)
Deliver(k) ==
  /\ Kind[k] # "sleep" /\ k \notin event
  /\ event' = event \cup {k}
  /\ UNCHANGED <<workflow, timer, claim, pc, locals, done, faults>>

Closer(r) == [r EXCEPT !.wait = IF @ > 0 THEN @ - 1 ELSE 0]

Tick ==
  /\ \/ \E k \in Waits : timer[k].wait > 0
     \/ \E i \in Invocations, k \in Waits : cache[i][k].wait > 0
  /\ timer' = [k \in Waits |-> Closer(timer[k])]
  /\ cache' = [i \in Invocations |-> [k \in Waits |-> Closer(cache[i][k])]]
  /\ UNCHANGED <<workflow, event, claim, pc, fresh, seen, listed, pos, consumed, acking, except,
                 next, done, faults>>

(* The scanner has found a due timer of a run in progress and invokes it. *)
Wake(i) ==
  /\ workflow = "IN_PROGRESS"
  /\ \E k \in Waits : Scheduled(k) /\ timer[k].wait = 0
  /\ Start(i)

InvocationStep(i) ==
  \/ TryCreateClaim(i) \/ LostClaim(i) \/ ClaimBusy(i) \/ Reread(i)
  \/ \E k \in Waits : PrefetchTimer(i, k)
  \/ PrefetchEvents(i) \/ EnterBody(i)
  \/ LoadTimer(i) \/ SleepKnown(i) \/ SleepNew(i) \/ Verify(i) \/ Consume(i)
  \/ WaitEvent(i) \/ ResolvePoll(i) \/ ArmPoll(i)
  \/ Acknowledge(i) \/ EndAck(i)
  \/ (pos[i] \notin Waits /\ BodyReturns(i)) \/ Finish(i) \/ Exit(i) \/ Release(i)

Next ==
  \/ \E i \in Invocations :
       \/ Replay(i) \/ Start(i) \/ InvocationStep(i) \/ BodyReturns(i)
       \/ GiveUp(i) \/ WaitFails(i) \/ Crash(i)
  \/ \E k \in Waits : Deliver(k)
  \/ OperatorRelease
  \/ Tick

Spec == Init /\ [][Next]_vars

(* Time passes, events are sent in the end, the scanner keeps dispatching    *)
(* due runs, a live invocation keeps running, and operators remove the       *)
(* claims of dead ones as the runbook tells them to.  Nothing else invokes   *)
(* the run.                                                                  *)
Fairness ==
  /\ \A i \in Invocations : WF_vars(InvocationStep(i)) /\ WF_vars(Wake(i))
  /\ \A k \in Waits : WF_vars(Deliver(k))
  /\ WF_vars(Tick)
  /\ WF_vars(OperatorRelease)

FairSpec == Spec /\ Fairness

-----------------------------------------------------------------------------
(* Type correctness of the stored records and of every invocation. *)
TypeOK ==
  /\ workflow \in {"NONE", "IN_PROGRESS", "TERMINAL"}
  /\ timer \in [Waits -> {NoRecord} \cup TimerRecord]
  /\ event \in SUBSET Waits
  /\ claim \in {"free", "leaked"} \cup Invocations
  /\ pc \in [Invocations -> Places]
  /\ fresh \in [Invocations -> BOOLEAN]
  /\ cache \in [Invocations -> [Waits -> {NoRecord, Unread} \cup TimerRecord]]
  /\ seen \in [Invocations -> SUBSET Waits]
  /\ listed \in [Invocations -> BOOLEAN]
  /\ pos \in [Invocations -> 1..(N + 1)]
  /\ consumed \in [Invocations -> SUBSET Waits]
  /\ acking \in [Invocations -> SUBSET Waits]
  /\ except \in [Invocations -> 0..N]
  /\ next \in [Invocations -> {"idle", "exit", "consume", "release"}]
  /\ done \in BOOLEAN
  /\ faults \in Nat

(* A timer is marked FIRED only behind a durable successor: a terminal       *)
(* workflow record, or a timer of a later wait.  Crashes, lost answers,      *)
(* stale caches and overlapping invocations included.                        *)
FiredBehindSuccessor ==
  \A k \in Waits : timer[k].status = "FIRED" =>
    done \/ \E j \in Waits : j > k /\ Armed(j)

(* No lost wake: from the first timer on and until the run has ended, some   *)
(* timer is SCHEDULED, so the scanner will invoke the run again whatever     *)
(* happens to the invocations.                                               *)
WakeKept ==
  ~done /\ (\E k \in Waits : Armed(k)) => \E k \in Waits : Scheduled(k)

(* With claims, a terminal workflow record is final: no initial IN_PROGRESS  *)
(* write and no annotation save of a slower invocation replaces it.          *)
TerminalIsFinal == [][workflow = "TERMINAL" => workflow' = "TERMINAL"]_vars

Executing(i) ==
  pc[i] \in {"reread", "load", "body", "arm", "resolve", "verify", "consume", "ack",
             "finish", "exit", "release"}

(* With claims, at most one invocation is between acquiring and releasing    *)
(* the execution claim, even after crashes, lost answers and operator        *)
(* clean-up.                                                                 *)
SingleFlight ==
  UseClaims => \A i, j \in Invocations : Executing(i) /\ Executing(j) => i = j

(* With claims, the body is never past a sleep whose deadline is still to    *)
(* come: replays and ambiguous writes do not shorten a sleep.                *)
SleepElapsed ==
  UseClaims => \A i \in Invocations, k \in Waits :
    Kind[k] = "sleep" /\ k < pos[i] => Armed(k) /\ timer[k].wait = 0

(* Wakes alone finish a run: once a timer is armed, the scanner's            *)
(* re-invocations bring the run to its terminal record, whatever finitely    *)
(* many writes fail and processes crash on the way.                          *)
ArmedRunFinishes == (\E k \in Waits : Armed(k)) ~> workflow = "TERMINAL"
=============================================================================
