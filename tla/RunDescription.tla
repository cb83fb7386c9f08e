-------------------------- MODULE RunDescription ----------------------------
(***************************************************************************)
(* DescribeRun of the inspection service (adapters/go/inspection): the     *)
(* records of one run are read one kind after the other while the run goes *)
(* on, and the pending state of the run is derived from what was read.     *)
(*                                                                         *)
(* The run is reduced to what the derivation looks at: its status, its     *)
(* claim, its retrying activity and its timers.  An invocation holds the   *)
(* claim, writes records, and lets go of the claim when the body is        *)
(* suspended; it may also die and leave the claim behind.                  *)
(***************************************************************************)
EXTENDS Naturals, FiniteSets, InspectionMessages

CONSTANTS
  Timers,         \* timer IDs, numbers in their order
  KindOf,         \* the kind of each timer: SLEEP, POLL or ACTIVITY_RETRY
  FireAt,         \* the fire_at of each timer
  ListClaims,     \* the store's claims can be listed
  OverdueGrace, Lease,
  RunLimits,      \* configurations of MaxRunRecords, the timers that a description returns
  MaxInvocations, MaxNow

ASSUME TimersAreOrdered == Timers \subseteq Nat \ {0}
ASSUME KindsKnown == \A t \in Timers : KindOf[t] \in {"SLEEP", "POLL", "ACTIVITY_RETRY"}

VARIABLES
  now,
  run,         \* the stored records of the run
  executing,   \* an invocation is alive
  invocations,
  inspector,   \* the DescribeRun in progress, or its response
  alone,       \* since it began, the run was once without wake and claim
  woken        \* since it began, an invocation took the claim

runVars == <<run, executing, invocations, alone, woken>>
descriptionVars == <<now, runVars, inspector>>

NoRecords ==
  [workflow |-> Null, activity |-> "none", claims |-> {}, timers |-> {}, truncated |-> FALSE]

DescriptionInit ==
  /\ now = 0
  /\ run = [status |-> "none", activity |-> "none", claimedAt |-> 0, claimed |-> TRUE,
            timers |-> [t \in Timers |-> "none"]]
  /\ executing = TRUE /\ invocations = 1
  /\ inspector = [at |-> "idle", limit |-> 0, listed |-> {}, seen |-> NoRecords, response |-> Null]
  /\ alone = FALSE /\ woken = FALSE

Scheduled(timers) == {t \in DOMAIN timers : timers[t] = "SCHEDULED"}

(* Nothing that is stored will invoke the run again. *)
NoWake(r) == r.status = "IN_PROGRESS" /\ ~r.claimed /\ Scheduled(r.timers) = {}

-----------------------------------------------------------------------------
(* The run *)

Stored(r) ==
  /\ run' = r
  /\ alone' = (inspector.at # "idle" /\ (alone \/ NoWake(r)))

Tick ==
  /\ now < MaxNow /\ now' = now + 1
  /\ UNCHANGED <<runVars, inspector>>

(* A scanner, an event sender or a retry invokes the run. *)
Invocation ==
  /\ run.status # "COMPLETED" /\ ~run.claimed /\ invocations < MaxInvocations
  /\ Stored([run EXCEPT !.claimed = TRUE, !.claimedAt = now])
  /\ executing' = TRUE /\ invocations' = invocations + 1 /\ woken' = (inspector.at # "idle")
  /\ UNCHANGED <<now, inspector>>

PutRunning ==
  /\ executing /\ run.status = "none"
  /\ Stored([run EXCEPT !.status = "IN_PROGRESS"])
  /\ UNCHANGED <<now, executing, invocations, woken, inspector>>

Running == executing /\ run.status = "IN_PROGRESS"

(* PutTimer of a sleep, of a poll, or of the retry of an activity, which is  *)
(* armed before the activity is recorded as RETRYING, or repaired after it.  *)
Arm(t) ==
  /\ Running /\ run.timers[t] = "none"
  /\ KindOf[t] = "ACTIVITY_RETRY" => run.activity # "COMPLETED"
  /\ Stored([run EXCEPT !.timers[t] = "SCHEDULED"])
  /\ UNCHANGED <<now, executing, invocations, woken, inspector>>

RecordRetrying ==
  /\ Running /\ run.activity = "none"
  /\ Stored([run EXCEPT !.activity = "RETRYING"])
  /\ UNCHANGED <<now, executing, invocations, woken, inspector>>

RecordActivity ==
  /\ Running /\ run.activity = "RETRYING"
  /\ Stored([run EXCEPT !.activity = "COMPLETED"])
  /\ UNCHANGED <<now, executing, invocations, woken, inspector>>

(* The invocation marks a timer it has passed as FIRED: that of a retry when *)
(* the activity has ended, the others behind a later wake or the end of the  *)
(* run.                                                                      *)
Consume(t) ==
  /\ executing /\ run.timers[t] = "SCHEDULED" /\ FireAt[t] <= now
  /\ IF KindOf[t] = "ACTIVITY_RETRY" THEN run.activity = "COMPLETED"
     ELSE run.status = "COMPLETED" \/ Scheduled(run.timers) # {t}
  /\ Stored([run EXCEPT !.timers[t] = "FIRED"])
  /\ UNCHANGED <<now, executing, invocations, woken, inspector>>

(* The body is suspended, on a timer or on an event that has none. *)
ReleaseClaim ==
  /\ executing
  /\ Stored([run EXCEPT !.claimed = FALSE, !.claimedAt = 0])
  /\ executing' = FALSE
  /\ UNCHANGED <<now, invocations, woken, inspector>>

PutTerminal ==
  /\ Running
  /\ Stored([run EXCEPT !.status = "COMPLETED"])
  /\ UNCHANGED <<now, executing, invocations, woken, inspector>>

Die ==
  /\ executing /\ executing' = FALSE
  /\ UNCHANGED <<now, run, invocations, alone, woken, inspector>>

-----------------------------------------------------------------------------
(* DescribeRun *)

(* A request to a service with this limit. *)
BeginDescribe(limit) ==
  /\ inspector.at = "idle"
  /\ inspector' = [inspector EXCEPT !.at = "workflow", !.limit = limit]
  /\ alone' = NoWake(run) /\ woken' = FALSE
  /\ UNCHANGED <<now, run, executing, invocations>>

(* Mutant of ReadOrder: the timers are read before the claims. *)
ReadOrderTimersFirst ==
  [workflow |-> "activities", activities |-> "list timers", timers |-> "list claims",
   claims |-> "derive"]

(* What readRun reads after what.  The events, between the activities and    *)
(* the claims, have no part in the pending state.                            *)
ReadOrder ==
  [workflow |-> "activities", activities |-> IF ListClaims THEN "list claims" ELSE "list timers",
   claims |-> "list timers", timers |-> "derive"]

Saw(field, v, at) ==
  inspector' = [inspector EXCEPT !.at = at, !.listed = {}, !.seen[field] = v]

GetWorkflow ==
  /\ inspector.at = "workflow"
  /\ Saw("workflow", run.status, ReadOrder["workflow"])
  /\ UNCHANGED <<now, runVars>>

ReadActivities ==
  /\ inspector.at = "activities"
  /\ Saw("activity", run.activity, ReadOrder["activities"])
  /\ UNCHANGED <<now, runVars>>

(* A directory is listed first and its records are read later; one that is   *)
(* gone by then is left out.                                                 *)
ListClaimDir ==
  /\ inspector.at = "list claims"
  /\ inspector' = [inspector EXCEPT !.at = "claims", !.listed = {x \in {"claim"} : run.claimed}]
  /\ UNCHANGED <<now, runVars>>

ReadClaims ==
  /\ inspector.at = "claims"
  /\ Saw("claims", {[lease_expires_at |-> run.claimedAt + Lease] : x \in {y \in inspector.listed : run.claimed}},
         ReadOrder["claims"])
  /\ UNCHANGED <<now, runVars>>

ListTimerDirs ==
  /\ inspector.at = "list timers"
  /\ inspector' = [inspector EXCEPT !.at = "timers",
                                    !.listed = {t \in Timers : run.timers[t] # "none"}]
  /\ UNCHANGED <<now, runVars>>

(* The first timers of S by ID, as many as the limit. *)
FirstRecords(S) == {t \in S : Cardinality({u \in S : u < t}) < inspector.limit}

ReadTimers ==
  /\ inspector.at = "timers"
  /\ LET kept == FirstRecords(inspector.listed) IN
       inspector' = [inspector EXCEPT
         !.at = ReadOrder["timers"], !.listed = {},
         !.seen.timers = {[id |-> t, status |-> run.timers[t]] : t \in kept},
         !.seen.truncated = kept # inspector.listed]
  /\ UNCHANGED <<now, runVars>>

(* Any read may fail, and the request with it. *)
ReadError ==
  /\ inspector.at \notin {"idle", "derive", "answered"}
  /\ inspector' = [inspector EXCEPT !.at = "idle", !.limit = 0, !.listed = {}, !.seen = NoRecords]
  /\ alone' = FALSE /\ woken' = FALSE
  /\ UNCHANGED <<now, run, executing, invocations>>

-----------------------------------------------------------------------------
(* The pending state *)

(* The earliest timer of S, by fire_at and then by ID. *)
Earliest(S) ==
  CHOOSE t \in S : \A u \in S : FireAt[t] < FireAt[u] \/ (FireAt[t] = FireAt[u] /\ t <= u)

(* The reasons that the records give, each with the records that show it. *)
Evidence(r) ==
  LET scheduled == {t.id : t \in {u \in r.timers : u.status = "SCHEDULED"}}
      OfKind(k) == {t \in scheduled : KindOf[t] = k}
      expired == {c \in r.claims : c.lease_expires_at < now}
  IN  [TERMINAL |-> {}, WAITING_NO_WAKE |-> {},
       OVERDUE_WAKE |-> {t \in scheduled : FireAt[t] + OverdueGrace < now},
       RETRYING |-> IF r.activity = "RETRYING" THEN {0} ELSE OfKind("ACTIVITY_RETRY"),
       STALE_CLAIM |-> {0 : c \in expired},
       EXECUTING |-> {0 : c \in r.claims},
       SLEEPING |-> OfKind("SLEEP"),
       POLLING |-> OfKind("POLL")]

(* The first reason that some record shows.  0 stands for the activity or    *)
(* the claim, of which there is one.                                         *)
DerivePending(r) ==
  LET found == Evidence(r)
      at == CHOOSE i \in DOMAIN RunPendingReason :
              /\ found[RunPendingReason[i]] # {} \/ RunPendingReason[i] = "WAITING_NO_WAKE"
              /\ \A j \in 1..(i - 1) : found[RunPendingReason[j]] = {}
      why == RunPendingReason[at]
  IN  IF r.workflow = "none" THEN RunPendingState("UNSPECIFIED", 0)
      ELSE IF r.workflow = "COMPLETED" THEN RunPendingState("TERMINAL", 0)
      ELSE IF found[why] \subseteq {0} THEN RunPendingState(why, 0)
      ELSE RunPendingState(why, Earliest(found[why]))

NothingSeen ==
  LET seen == inspector.seen IN
  seen.workflow = "none" /\ seen.activity = "none" /\ seen.claims = {} /\ seen.timers = {}

(* A run of which nothing is stored, not even an event, is not found. *)
NotFound ==
  /\ inspector.at = "derive" /\ NothingSeen
  /\ inspector' = [inspector EXCEPT !.at = "idle", !.limit = 0, !.seen = NoRecords]
  /\ alone' = FALSE /\ woken' = FALSE
  /\ UNCHANGED <<now, run, executing, invocations>>

Derive ==
  /\ inspector.at = "derive" /\ ~NothingSeen
  /\ inspector' = [inspector EXCEPT !.at = "answered", !.seen = NoRecords, !.response =
       DescribeRunResponse(DerivePending(inspector.seen), ListClaims, inspector.seen.truncated)]
  /\ UNCHANGED <<now, runVars>>

-----------------------------------------------------------------------------
RunNext ==
  \/ Tick \/ Invocation \/ RecordRetrying \/ RecordActivity \/ ReleaseClaim
  \/ PutRunning \/ PutTerminal \/ Die
  \/ \E t \in Timers : Arm(t) \/ Consume(t)

(* What the run does after the response is of no interest. *)
DescriptionNext ==
  \/ inspector.at # "answered" /\ RunNext
  \/ \E limit \in RunLimits : BeginDescribe(limit)
  \/ GetWorkflow \/ ReadActivities \/ ListClaimDir \/ ReadClaims
  \/ ListTimerDirs \/ ReadTimers \/ ReadError \/ NotFound \/ Derive

DescriptionSpec == DescriptionInit /\ [][DescriptionNext]_descriptionVars

-----------------------------------------------------------------------------
(* No false alarm: a description that is not truncated says WAITING_NO_WAKE  *)
(* only if the run was really without wake and claim at some moment since    *)
(* the description began, has ended meanwhile, or was invoked meanwhile.  In *)
(* particular a run whose invocation arms a wake and then lets go of its     *)
(* claim is never reported as stuck, although claims and timers are not read *)
(* at one time.                                                              *)
NoFalseAlarm ==
  inspector.at = "answered" =>
    LET response == inspector.response IN
    response.pending.reason = "WAITING_NO_WAKE" /\ response.claims_inspected /\ ~response.truncated =>
      alone \/ woken \/ run.status = "COMPLETED"
=============================================================================
