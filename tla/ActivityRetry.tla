---------------------------- MODULE ActivityRetry ----------------------------
(***************************************************************************)
(* One activity of one run: runActivity of core/go/workflow/workflow.go    *)
(* with its activity claim, in-process backoff and durable backoff.  A     *)
(* durable backoff is two independent writes, the retry timer first and    *)
(* the RETRYING record second, and replay recognises and repairs every     *)
(* state in between.  Callers are the calls of this activity by the live   *)
(* invocation (several in a fan-out that repeats the activity ID); Crash   *)
(* ends the invocation and the next call starts another one.  Each store   *)
(* operation is a step, each write may fail with or without effect.        *)
(***************************************************************************)
EXTENDS Naturals, FiniteSets

CONSTANTS
  Callers,      \* calls of the activity an invocation may make
  MaxAttempts,  \* retry policy: maximum_attempts
  UseClaims,    \* whether the run has a claim store and an owner
  Scenarios     \* what a behaviour is one of, see below

(* A scenario: the concurrent calls; of the retry policy, the                *)
(* retryIntervalAfterAttempt of each attempt but the last, and               *)
(* durable_backoff_threshold, 0 when disabled; the retry_after floors a      *)
(* failure may carry, 0 for none; bounds on the clock and on failed          *)
(* operations, cancellations and crashes.                                    *)
ASSUME AttemptsArePositive == MaxAttempts \in Nat \ {0}
ASSUME ScenariosAreSound ==
  \A s \in Scenarios :
    /\ DOMAIN s = {"callers", "interval", "threshold", "retryAfters", "maxTime", "maxFaults"}
    /\ s.callers \subseteq Callers
    /\ s.interval \in [1..(MaxAttempts - 1) -> Nat \ {0}]
    /\ s.threshold \in Nat /\ s.retryAfters \subseteq Nat
    /\ s.maxTime \in Nat /\ s.maxFaults \in Nat
ASSUME UseClaimsIsBoolean == UseClaims \in BOOLEAN
ASSUME ClaimValuesDistinct == "free" \notin Callers /\ "leaked" \notin Callers

(* delay is the effective interval after the last failed attempt, next the   *)
(* record's next_attempt_at, 0 when it has none.                             *)
NoActivity == [status |-> "NONE", attempts |-> 0, delay |-> 0, next |-> 0]

ActivityRecord ==
  [status : {"RETRYING", "COMPLETED", "FAILED"}, attempts : 1..MaxAttempts, delay : Nat, next : Nat]

NoTimer == [status |-> "NONE", at |-> 0, dur |-> 0]

TimerRecord == [status : {"SCHEDULED", "FIRED"}, at : Nat, dur : Nat]

VARIABLES
  scenario,  \* the scenario, fixed
  activity,  \* stored activity record
  timer,     \* stored retry timer
  claim,     \* the activity:{id} claim: "free", "leaked" or the call that holds it
  workflow,  \* stored status of the run
  clock,     \* wall clock
  pc,        \* where each call stands
  hand,      \* the activity record the call has read or is about to write
  draft,     \* the timer record the call is about to write
  failed,    \* the call is publishing the backoff of an attempt that failed
  answer,    \* what the call will return
  faults     \* faults so far

store == <<activity, timer, claim, workflow, clock>>
calls == <<pc, hand, draft, failed, answer>>
vars == <<scenario, store, calls, faults>>

Interval == scenario.interval
Threshold == scenario.threshold

Terminal(r) == r.status \in {"COMPLETED", "FAILED"}

Init ==
  /\ scenario \in Scenarios
  /\ activity = NoActivity
  /\ timer = NoTimer
  /\ claim = "free"
  /\ workflow = "IN_PROGRESS"
  /\ clock = 0
  /\ pc = [c \in Callers |-> "idle"]
  /\ hand = [c \in Callers |-> NoActivity]
  /\ draft = [c \in Callers |-> NoTimer]
  /\ failed = [c \in Callers |-> FALSE]
  /\ answer = [c \in Callers |-> "none"]
  /\ faults = 0

Goto(c, l) == pc' = [pc EXCEPT ![c] = l]

Answer(c, a) == answer' = [answer EXCEPT ![c] = a]

Outcomes == {"ok", "lost", "failed"}

Charge(o) ==
  /\ o # "ok" => faults < scenario.maxFaults
  /\ faults' = IF o = "ok" THEN faults ELSE faults + 1

Holds(c) == claim = c

-----------------------------------------------------------------------------
(* Retry timers                                                             *)

(* activityRecordMayHaveRetryTimer *)
MayHaveTimer == MaxAttempts > 1 /\ Threshold > 0

(* validateNewerPreparedActivityRetryTimer: the timer must fit the backoff   *)
(* after the attempt that follows the recorded ones.                         *)
FitsNextAttempt(r, t) ==
  /\ r.attempts + 1 < MaxAttempts
  /\ t.dur >= Interval[r.attempts + 1] /\ t.dur >= Threshold

(* What ensureActivityRetryTimer, newerPreparedActivityRetryTimer and        *)
(* preparedActivityRetryTimer make of record r and timer t: a conflict, a    *)
(* timer to write, or an instant to wait for (0 when there is no timer).     *)
Scheduled(at, dur) == [status |-> "SCHEDULED", at |-> at, dur |-> dur]

Conflict == [do |-> "conflict", timer |-> NoTimer]
Put(at, dur) == [do |-> "put", timer |-> Scheduled(at, dur)]
Await(t) == [do |-> "await", timer |-> t]

(* Timer-first: a prepared timer is kept, and armed again when FIRED. *)
Prepared(t) == IF t.status = "FIRED" THEN Put(t.at, t.dur) ELSE Await(t)

(* Mutant of Verdict: a timer ahead of the record is not looked for. *)
VerdictIgnoresPrepared(r, t) ==
  IF r.next = 0 THEN Await(NoTimer)
  ELSE IF t = Scheduled(r.next, r.delay) THEN Await(t)
  ELSE Put(r.next, r.delay)

(* Mutant of Verdict: an older timer is a conflict. *)
VerdictRejectsOlder(r, t) ==
  IF t = NoTimer
    THEN IF r.next # 0 THEN Put(r.next, r.delay) ELSE Await(t)
  ELSE IF r = NoActivity \/ t.at >= r.next THEN Prepared(t)
  ELSE Conflict

Verdict(r, t) ==
  IF r.next # 0
    THEN CASE t = NoTimer -> Put(r.next, r.delay)
           [] t.at > r.next -> IF FitsNextAttempt(r, t) THEN Prepared(t) ELSE Conflict
           [] t.at = r.next /\ t.dur # r.delay -> Conflict
           [] t = Scheduled(r.next, r.delay) -> Await(t)
           [] OTHER -> Put(r.next, r.delay)
  ELSE IF t = NoTimer THEN Await(t)
  ELSE IF r = NoActivity
    THEN IF t.dur >= Interval[1] /\ t.dur >= Threshold THEN Prepared(t) ELSE Conflict
  ELSE IF FitsNextAttempt(r, t) THEN Prepared(t) ELSE Conflict

-----------------------------------------------------------------------------
(* From the first read to the body                                          *)

(* The call has read r, before it competes for the claim or holding it. *)
Enter(c, r) ==
  /\ hand' = [hand EXCEPT ![c] = r]
  /\ failed' = [failed EXCEPT ![c] = FALSE]
  /\ IF Terminal(r)
       THEN Goto(c, IF MayHaveTimer THEN "cleanup" ELSE "release") /\ Answer(c, "result")
       ELSE /\ Answer(c, "none")
            /\ Goto(c, IF MayHaveTimer THEN "consult"
                       ELSE IF UseClaims /\ ~Holds(c) THEN "claim1" ELSE "exec")

(* GetActivity through the run-scoped cache: by the time it is used it may   *)
(* be stale.                                                                 *)
Call(c) ==
  /\ c \in scenario.callers
  /\ pc[c] = "idle" /\ workflow = "IN_PROGRESS"
  /\ Enter(c, activity)
  /\ UNCHANGED <<store, draft, faults>>

(* The call knows the instant to wait for: TimerPendingError before it; then *)
(* the claim, the body or, for a prepared backoff, the record.               *)
Settled(c, at) ==
  IF failed[c] THEN Goto(c, "unlock") /\ UNCHANGED answer
  ELSE IF clock < at THEN Goto(c, "release") /\ Answer(c, "pending")
  ELSE Goto(c, IF UseClaims /\ ~Holds(c) THEN "claim1" ELSE "exec") /\ UNCHANGED answer

(* getTimerAuthoritative and what follows from it. *)
Consult(c) ==
  LET v == Verdict(hand[c], timer)
  IN
  /\ pc[c] = "consult"
  /\ \/ /\ v.do = "conflict"
        /\ Goto(c, "release") /\ Answer(c, "conflict")
        /\ UNCHANGED draft
     \/ /\ v.do = "put"
        /\ draft' = [draft EXCEPT ![c] = v.timer]
        /\ Goto(c, "arm") /\ UNCHANGED answer
     \/ /\ v.do = "await"
        /\ Settled(c, v.timer.at)
        /\ UNCHANGED draft
  /\ UNCHANGED <<store, hand, failed, faults>>

(* putActivityRetryTimerVerified: a failed write is verified by a re-read. *)
Arm(c) ==
  /\ pc[c] = "arm"
  /\ \E o \in Outcomes :
       /\ Charge(o)
       /\ timer' = IF o = "failed" THEN timer ELSE draft[c]
       /\ IF o = "ok" THEN Settled(c, draft[c].at)
                      ELSE Goto(c, "verify") /\ UNCHANGED answer
  /\ UNCHANGED <<activity, claim, workflow, clock, hand, draft, failed>>

Verify(c) ==
  /\ pc[c] = "verify"
  /\ IF timer = draft[c] THEN Settled(c, draft[c].at)
                         ELSE Goto(c, "release") /\ Answer(c, "pending")
  /\ UNCHANGED <<store, hand, draft, failed, faults>>

(* A read fails or the context is cancelled before the body: the claim, if  *)
(* held, is released.                                                       *)
GiveUp(c) ==
  /\ pc[c] \in {"consult", "verify", "refresh"} /\ faults < scenario.maxFaults
  /\ faults' = faults + 1
  /\ Goto(c, "release") /\ Answer(c, "pending")
  /\ UNCHANGED <<store, hand, draft, failed>>

(* Mutant of TryCreateClaim: the create is not conditional. *)
TryCreateClaimOverwrites(c) ==
  /\ pc[c] \in {"claim1", "claim2"}
  /\ claim' = c
  /\ Goto(c, "refresh")
  /\ UNCHANGED <<activity, timer, workflow, clock, hand, draft, failed, answer, faults>>

(* TryCreateClaim, at most twice. *)
TryCreateClaim(c) ==
  /\ pc[c] \in {"claim1", "claim2"}
  /\ \/ /\ claim # "free"
        /\ Goto(c, IF pc[c] = "claim1" THEN "lost1" ELSE "lost2")
        /\ UNCHANGED <<claim, answer, faults>>
     \/ /\ claim = "free"
        /\ \E o \in Outcomes :
             /\ Charge(o)
             /\ claim' = CASE o = "ok" -> c [] o = "lost" -> "leaked" [] OTHER -> claim
             /\ IF o = "ok" THEN Goto(c, "refresh") /\ UNCHANGED answer
                            ELSE Goto(c, "return") /\ Answer(c, "pending")
  /\ UNCHANGED <<activity, timer, workflow, clock, hand, draft, failed>>

(* The loser re-reads the record, bypassing the cache, and replays it when   *)
(* it has become terminal.                                                   *)
LostClaim(c) ==
  /\ pc[c] \in {"lost1", "lost2"}
  /\ IF Terminal(activity)
       THEN Enter(c, activity)
       ELSE /\ Goto(c, IF pc[c] = "lost1" THEN "busy1" ELSE "busy2")
            /\ UNCHANGED <<hand, failed, answer>>
  /\ UNCHANGED <<store, draft, faults>>

(* GetClaim: ClaimBusyError, or a second try when the claim has gone. *)
ClaimBusy(c) ==
  /\ pc[c] \in {"busy1", "busy2"}
  /\ IF claim = "free" /\ pc[c] = "busy1"
       THEN Goto(c, "claim2") /\ UNCHANGED answer
       ELSE Goto(c, "return") /\ Answer(c, "pending")
  /\ UNCHANGED <<store, hand, draft, failed, faults>>

(* Mutant of Refresh: the holder trusts what it read before the claim. *)
RefreshSkipped(c) ==
  /\ pc[c] = "refresh"
  /\ Goto(c, "exec")
  /\ UNCHANGED <<store, hand, draft, failed, answer, faults>>

(* Mutant of Refresh: a due wake is marked FIRED when the attempt starts. *)
RefreshConsumesWake(c) ==
  /\ pc[c] = "refresh"
  /\ Enter(c, activity)
  /\ timer' = IF timer.status = "SCHEDULED" /\ timer.at <= clock
                THEN [timer EXCEPT !.status = "FIRED"] ELSE timer
  /\ UNCHANGED <<activity, claim, workflow, clock, draft, faults>>

(* The holder re-reads the record and goes through the same checks again. *)
Refresh(c) ==
  /\ pc[c] = "refresh"
  /\ Enter(c, activity)
  /\ UNCHANGED <<store, draft, faults>>

-----------------------------------------------------------------------------
(* The body and its outcome                                                 *)

Record(s, n, d, at) == [status |-> s, attempts |-> n, delay |-> d, next |-> at]

Durable(d) == Threshold > 0 /\ d >= Threshold

(* Mutant of Execute: the RETRYING record is written without its timer. *)
ExecuteRecordFirst(c) ==
  LET n == hand[c].attempts + 1
  IN
  /\ pc[c] = "exec" /\ n < MaxAttempts
  /\ \E ra \in scenario.retryAfters :
       LET d == IF ra > Interval[n] THEN ra ELSE Interval[n]
       IN  /\ hand' = [hand EXCEPT ![c] =
                Record("RETRYING", n, d, IF Durable(d) THEN clock + d ELSE 0)]
           /\ Goto(c, IF Durable(d) THEN "unlock" ELSE "put_retry")
  /\ UNCHANGED <<store, draft, failed, answer, faults>>

(* The body returns: a result; a failure that is the last or not retryable;  *)
(* a failure with a retry_after floor, followed by a durable or an           *)
(* in-process backoff.                                                       *)
Execute(c) ==
  LET n == hand[c].attempts + 1
  IN
  /\ pc[c] = "exec"
  /\ \/ /\ \E s \in {"COMPLETED", "FAILED"} : hand' = [hand EXCEPT ![c] = Record(s, n, 0, 0)]
        /\ Goto(c, "put_final")
        /\ UNCHANGED failed
     \/ /\ n < MaxAttempts
        /\ \E ra \in scenario.retryAfters :
             LET d == IF ra > Interval[n] THEN ra ELSE Interval[n]
             IN  /\ hand' = [hand EXCEPT ![c] =
                      Record("RETRYING", n, d, IF Durable(d) THEN clock + d ELSE 0)]
                 /\ Goto(c, IF Durable(d) THEN "consult" ELSE "put_retry")
                 /\ failed' = [failed EXCEPT ![c] = Durable(d)]
  /\ UNCHANGED <<store, draft, answer, faults>>

(* A call that returns without releasing its claim leaves it behind. *)
Abandon(c) == claim' = IF Holds(c) THEN "leaked" ELSE claim

(* PutActivity of a terminal record.  A write that reports an error may have *)
(* been applied: the claim is retained.                                      *)
PutFinal(c) ==
  /\ pc[c] = "put_final"
  /\ \E o \in Outcomes :
       /\ Charge(o)
       /\ activity' = IF o = "failed" THEN activity ELSE hand[c]
       /\ IF o = "ok"
            THEN /\ Goto(c, IF MayHaveTimer THEN "cleanup" ELSE "release")
                 /\ Answer(c, "result") /\ UNCHANGED claim
            ELSE Goto(c, "return") /\ Answer(c, "pending") /\ Abandon(c)
  /\ UNCHANGED <<timer, workflow, clock, hand, draft, failed>>

(* PutActivity(RETRYING) before an in-process backoff. *)
PutRetry(c) ==
  /\ pc[c] = "put_retry"
  /\ \E o \in Outcomes :
       /\ Charge(o)
       /\ activity' = IF o = "failed" THEN activity ELSE hand[c]
       /\ draft' = [draft EXCEPT ![c] =
            IF o = "ok" THEN Scheduled(clock + hand[c].delay, hand[c].delay) ELSE @]
       /\ IF o = "ok" THEN Goto(c, "backoff") /\ UNCHANGED <<answer, claim>>
                      ELSE Goto(c, "return") /\ Answer(c, "pending") /\ Abandon(c)
  /\ UNCHANGED <<timer, workflow, clock, hand, failed>>

(* sleepCtx: the next attempt, or cancellation, which releases the claim. *)
Backoff(c) ==
  /\ pc[c] = "backoff"
  /\ \/ /\ clock >= draft[c].at
        /\ Goto(c, "exec") /\ UNCHANGED <<answer, faults>>
     \/ /\ faults < scenario.maxFaults /\ faults' = faults + 1
        /\ Goto(c, "release") /\ Answer(c, "pending")
  /\ UNCHANGED <<store, hand, draft, failed>>

(* The durable boundary is prepared: the claim is released before the        *)
(* RETRYING record is written.                                               *)
Unlock(c) ==
  /\ pc[c] = "unlock"
  /\ IF Holds(c)
       THEN \E o \in Outcomes :
              /\ Charge(o)
              /\ claim' = IF o = "failed" THEN "leaked" ELSE "free"
              /\ IF o = "ok" THEN Goto(c, "put_prepared") /\ UNCHANGED answer
                             ELSE Goto(c, "return") /\ Answer(c, "pending")
       ELSE Goto(c, "put_prepared") /\ UNCHANGED <<claim, answer, faults>>
  /\ UNCHANGED <<activity, timer, workflow, clock, hand, draft, failed>>

PutPrepared(c) ==
  /\ pc[c] = "put_prepared"
  /\ \E o \in Outcomes :
       /\ Charge(o)
       /\ activity' = IF o = "failed" THEN activity ELSE hand[c]
  /\ Goto(c, "return") /\ Answer(c, "pending")
  /\ UNCHANGED <<timer, claim, workflow, clock, hand, draft, failed>>

(* markActivityRetryTimerFired, best effort: read, then write. *)
Cleanup(c) ==
  /\ pc[c] = "cleanup"
  /\ IF timer.status = "SCHEDULED"
       THEN /\ draft' = [draft EXCEPT ![c] = [timer EXCEPT !.status = "FIRED"]]
            /\ Goto(c, "put_fired")
       ELSE Goto(c, "release") /\ UNCHANGED draft
  /\ UNCHANGED <<store, hand, failed, answer, faults>>

PutFired(c) ==
  /\ pc[c] = "put_fired"
  /\ \E o \in Outcomes :
       /\ Charge(o)
       /\ timer' = IF o = "failed" THEN timer ELSE draft[c]
  /\ Goto(c, "release")
  /\ UNCHANGED <<activity, claim, workflow, clock, hand, draft, failed, answer>>

(* releaseActivityClaim: a failed DeleteClaim turns the outcome into a       *)
(* continuation error.                                                       *)
Release(c) ==
  /\ pc[c] = "release"
  /\ IF Holds(c)
       THEN \E o \in Outcomes :
              /\ Charge(o)
              /\ claim' = IF o = "failed" THEN "leaked" ELSE "free"
              /\ Answer(c, IF o = "ok" THEN answer[c] ELSE "pending")
       ELSE UNCHANGED <<claim, answer, faults>>
  /\ Goto(c, "return")
  /\ UNCHANGED <<activity, timer, workflow, clock, hand, draft, failed>>

-----------------------------------------------------------------------------
(* The invocation and its environment                                       *)

Forget(c) ==
  /\ hand' = [hand EXCEPT ![c] = NoActivity]
  /\ draft' = [draft EXCEPT ![c] = NoTimer]
  /\ failed' = [failed EXCEPT ![c] = FALSE]
  /\ Answer(c, "none")

(* The body has its answer.  A result or a conflict ends the run, with       *)
(* COMPLETED or FAILED, once no other call is running; anything else leaves  *)
(* it in progress.  The terminal workflow write may fail.                    *)
Return(c) ==
  /\ pc[c] = "return"
  /\ \/ UNCHANGED <<workflow, faults>>
     \/ /\ answer[c] \in {"result", "conflict"}
        /\ \A d \in Callers \ {c} : pc[d] \in {"idle", "return"}
        /\ \E o \in Outcomes :
             /\ Charge(o)
             /\ workflow' = IF o = "failed" THEN workflow ELSE "TERMINAL"
  /\ Goto(c, "idle")
  /\ Forget(c)
  /\ UNCHANGED <<activity, timer, claim, clock>>

(* The process dies with all its calls; a claim it holds stays behind. *)
Crash ==
  /\ \E c \in Callers : pc[c] # "idle"
  /\ faults < scenario.maxFaults /\ faults' = faults + 1
  /\ claim' = IF claim \in Callers THEN "leaked" ELSE claim
  /\ pc' = [c \in Callers |-> "idle"]
  /\ hand' = [c \in Callers |-> NoActivity]
  /\ draft' = [c \in Callers |-> NoTimer]
  /\ failed' = [c \in Callers |-> FALSE]
  /\ answer' = [c \in Callers |-> "none"]
  /\ UNCHANGED <<activity, timer, workflow, clock>>

(* An operator deletes a claim after verifying that its holder is gone. *)
OperatorRelease ==
  /\ claim = "leaked"
  /\ claim' = "free"
  /\ UNCHANGED <<activity, timer, workflow, clock, calls, faults>>

(* Time matters only while a deadline is ahead. *)
Tick ==
  /\ clock < scenario.maxTime
  /\ timer.at > clock \/ \E c \in Callers : draft[c].at > clock \/ hand[c].next > clock
  /\ clock' = clock + 1
  /\ UNCHANGED <<activity, timer, claim, workflow, calls, faults>>

Step(c) ==
  \/ Consult(c) \/ Arm(c) \/ Verify(c)
  \/ TryCreateClaim(c) \/ LostClaim(c) \/ ClaimBusy(c) \/ Refresh(c)
  \/ Execute(c) \/ PutFinal(c) \/ PutRetry(c) \/ Backoff(c)
  \/ Unlock(c) \/ PutPrepared(c) \/ Cleanup(c) \/ PutFired(c) \/ Release(c)

(* The scanner has found the retry timer due and invokes the run. *)
Wake(c) == timer.status = "SCHEDULED" /\ timer.at <= clock /\ Call(c)

Next ==
  /\ \/ \E c \in Callers : Call(c) \/ Step(c) \/ GiveUp(c) \/ Return(c)
     \/ Crash \/ OperatorRelease \/ Tick
  /\ UNCHANGED scenario

Spec == Init /\ [][Next]_vars

(* A live invocation keeps running and bodies return, time passes, the       *)
(* scanner dispatches due wakes, operators remove the claims of dead         *)
(* invocations.  Nothing else needs to call the run.                         *)
Fairness ==
  /\ \A c \in Callers : /\ WF_vars((Step(c) \/ Return(c)) /\ UNCHANGED scenario)
                        /\ WF_vars(Wake(c) /\ UNCHANGED scenario)
  /\ WF_vars(OperatorRelease /\ UNCHANGED scenario)
  /\ WF_vars(Tick /\ UNCHANGED scenario)

FairSpec == Spec /\ Fairness

-----------------------------------------------------------------------------
(* Type correctness of the stored records and of every call. *)
TypeOK ==
  /\ scenario \in Scenarios
  /\ activity \in {NoActivity} \cup ActivityRecord
  /\ timer \in {NoTimer} \cup TimerRecord
  /\ claim \in {"free", "leaked"} \cup Callers
  /\ workflow \in {"IN_PROGRESS", "TERMINAL"}
  /\ clock \in Nat
  /\ pc \in [Callers -> {"idle", "consult", "arm", "verify", "claim1", "claim2", "lost1", "lost2",
                         "busy1", "busy2", "refresh", "exec", "put_final", "put_retry", "backoff",
                         "unlock", "put_prepared", "cleanup", "put_fired", "release", "return"}]
  /\ hand \in [Callers -> {NoActivity} \cup ActivityRecord]
  /\ draft \in [Callers -> {NoTimer} \cup TimerRecord]
  /\ failed \in [Callers -> BOOLEAN]
  /\ answer \in [Callers -> {"none", "pending", "result", "conflict"}]
  /\ faults \in Nat

InBody(c) == pc[c] \in {"exec", "put_final", "put_retry", "backoff"}

(* With claims, two calls never execute the activity, or persist what it     *)
(* did, at the same time: not through crashes, operator clean-up, lost       *)
(* answers or the early release before a durable backoff.                    *)
OneBodyAtATime ==
  UseClaims => \A c, d \in Callers : InBody(c) /\ InBody(d) => c = d

(* A durable RETRYING record always has its wake: the retry timer is         *)
(* SCHEDULED for its next_attempt_at or later.                               *)
RetryKeepsWake ==
  activity.next # 0 => timer.status = "SCHEDULED" /\ timer.at >= activity.next

(* No attempt starts before the instant a prepared retry timer asks for,     *)
(* also when the RETRYING record of that timer was never written.            *)
NoEarlyAttempt ==
  [][\A c \in Callers : pc[c] # "exec" /\ pc'[c] = "exec" => timer.at <= clock]_vars

(* The stored record never goes back: a terminal record stays, and the       *)
(* attempt history does not shrink.                                          *)
RecordNeverRegresses ==
  [][/\ Terminal(activity) => activity' = activity
     /\ activity'.attempts >= activity.attempts]_vars

(* Wakes alone finish a durable retry: once its timer is armed, the activity *)
(* gets a terminal record or the run ends.                                   *)
RetryFinishes ==
  timer.status = "SCHEDULED" ~> (Terminal(activity) \/ workflow = "TERMINAL")

(* An activity all of whose records were written under one policy is never   *)
(* rejected as a conflict.                                                   *)
NeverConflicts == \A c \in Callers : answer[c] # "conflict"

(* A run in progress whose retry timer has been armed keeps a SCHEDULED      *)
(* timer.                                                                    *)
RunKeepsWake ==
  workflow = "IN_PROGRESS" /\ timer # NoTimer => timer.status = "SCHEDULED"
=============================================================================
