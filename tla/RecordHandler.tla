---------------------------- MODULE RecordHandler ----------------------------
(***************************************************************************)
(* The server side of the record store protocol: the point operations of   *)
(* the object store (core/go/storage/opendal.go), of the claim store       *)
(* (adapters/go/gocdkclaims) and of the scanning query store               *)
(* (adapters/go/scanquery), and the handlers of                            *)
(* adapters/go/connectstore/handler.go that serve them.  Everything is an  *)
(* operator on the objects s and on the configuration v of the server; a   *)
(* handler yields the objects it leaves and its answer.  GetLatest and     *)
(* PutWorkflow are several object operations and come in parts, which      *)
(* RecordService makes steps of.  The timer operations are those of        *)
(* TimerRegister, which TimerLedger is proved to implement; DeleteRun and  *)
(* Sweep are modelled by Retention.                                        *)
(***************************************************************************)
EXTENDS RecordMessages

CONSTANT RunOrder  \* run_order_time of each run

ASSUME RunOrderIsNat == RunOrder \in [RunIds -> Nat]

Absent == [absent |-> TRUE]

(* An object whose bytes do not decode. *)
Garbage == [garbage |-> TRUE]

Ok(s, body) == [store |-> s, code |-> "ok", body |-> body]
Error(s, code) == [store |-> s, code |-> code, body |-> Nil]
Refused(s, reason, k) ==
  [store |-> s, code |-> "failed_precondition", body |-> EventDeliveryErrorDetail(reason, k)]

-----------------------------------------------------------------------------
(* The stores *)

(* Validate*Record: the current schema, and the key of the location. *)
ValidateRecord(r, k) ==
  r \notin {Nil, Garbage} /\ r.schema = "V1" /\ Validate(r.key) /\ r.key = k

ValidateEventDeliveryRecord(r, k) == ValidateRecord(r, k) /\ r.payload # "none"

ValidateLatestWorkflowRunPointer(p, w) == p # Garbage /\ Validate(p.key) /\ p.key.workflow = w

(* ValidateLatestWorkflowRunReference, apart from the validity of record r. *)
StaleLatestPointer(p, r) == p.status # r.status

ValidateDueTimer(d, now) ==
  /\ ValidateRecord(d.record, d.key)
  /\ ValidateRecord(d.workflow, RunOf(d.key))
  /\ d.record.status = "SCHEDULED"
  /\ d.workflow.status = "IN_PROGRESS"
  /\ d.record.fire_at <= now

Write(s, kind, r) == [s EXCEPT ![kind][r.key] = r]

Remove(s, kind, k) == [s EXCEPT ![kind][k] = Absent]

Exists(s, kind, k) == s[kind][k] # Absent

Stored(s, kind) == {k \in DOMAIN s[kind] : Exists(s, kind, k)}

(* The objects of one run; a listing fails on the first damaged one. *)
Listed(s, kind, run) == {k \in Stored(s, kind) : RunOf(k) = run}

Damaged(s, kind, K) == \E k \in K : ~ ValidateRecord(s[kind][k], k)

RecordsAt(s, kind, K) == {s[kind][k] : k \in K}

(* The wakes of a due scan: SCHEDULED timers with both copies in place, of   *)
(* runs in progress.  A damaged run under a due timer fails the scan.        *)
DueKeys(s, now) ==
  {k \in Stored(s, "timer") :
     /\ ValidateRecord(s.timer[k], k)
     /\ s.timer[k].status = "SCHEDULED" /\ s.timer[k].fire_at <= now
     /\ Exists(s, "workflow", RunOf(k))}

DueRunDamaged(s, now) == Damaged(s, "workflow", {RunOf(k) : k \in DueKeys(s, now)})

Due(s, now) ==
  {DueTimer(s.timer[k], s.workflow[RunOf(k)]) :
     k \in {d \in DueKeys(s, now) : /\ ValidateRecord(s.workflow[RunOf(d)], RunOf(d))
                                    /\ s.workflow[RunOf(d)].status = "IN_PROGRESS"}}

(* scanquery: a listing of everything that fails on a damaged object; a      *)
(* payload that does not decode is not classified as corruption there.       *)
ScanError(s, kind, K) ==
  IF \E k \in K : s[kind][k] = Garbage THEN "internal" ELSE "data_loss"

Matches(r, q) ==
  /\ q.workflow \in {"", r.key.workflow}
  /\ "run" \in DOMAIN q => q.run \in {"", r.key.run}
  /\ q.status \in {"UNSPECIFIED", r.status}

(* The keys below the root a scan walks. *)
Scanned(s, kind, q) == {k \in Stored(s, kind) : q.workflow \in {"", k.workflow}}

-----------------------------------------------------------------------------
(* Point operations: validate the request, call the store, validate what it  *)
(* returns, and keep corruption apart from other failures.                   *)

dataLossError(s) == Error(s, "data_loss")

(* What a point read of an existing or a missing record finds. *)
ReadPoint(s, kind, k) == IF Exists(s, kind, k) THEN s[kind][k] ELSE Nil

GetPoint(s, kind, k, response) ==
  IF ~ Validate(k) THEN Error(s, "invalid_argument")
  ELSE IF Exists(s, kind, k) /\ ~ ValidateRecord(s[kind][k], k) THEN dataLossError(s)
  ELSE Ok(s, response)

PutPoint(s, kind, r, response) ==
  IF ~ ValidateRecord(r, r.key) THEN Error(s, "invalid_argument")
  ELSE Ok(Write(s, kind, r), response)

DeletePoint(s, kind, k, response) ==
  IF ~ Validate(k) THEN Error(s, "invalid_argument")
  ELSE Ok(Remove(s, kind, k), response)

RunRecords(s, kind, run) == RecordsAt(s, kind, Listed(s, kind, run))

ListRun(s, kind, run, response) ==
  IF ~ Validate(run) THEN Error(s, "invalid_argument")
  ELSE IF Damaged(s, kind, Listed(s, kind, run)) THEN dataLossError(s)
  ELSE Ok(s, response)

GetWorkflow(s, q) == GetPoint(s, "workflow", q.key, GetWorkflowResponse(ReadPoint(s, "workflow", q.key)))
DeleteWorkflow(s, q) ==
  DeletePoint(s, "workflow", q.key, DeleteWorkflowResponse(Exists(s, "workflow", q.key)))
GetTimer(s, q) == GetPoint(s, "timer", q.key, GetTimerResponse(ReadPoint(s, "timer", q.key)))
PutTimer(s, q) == PutPoint(s, "timer", q.record, PutTimerResponse)
DeleteTimer(s, q) ==
  DeletePoint(s, "timer", q.key, DeleteTimerResponse(Exists(s, "timer", q.key)))
GetActivity(s, q) == GetPoint(s, "activity", q.key, GetActivityResponse(ReadPoint(s, "activity", q.key)))
PutActivity(s, q) == PutPoint(s, "activity", q.record, PutActivityResponse)
DeleteActivity(s, q) ==
  DeletePoint(s, "activity", q.key, DeleteActivityResponse(Exists(s, "activity", q.key)))
GetEvent(s, q) == GetPoint(s, "event", q.key, GetEventResponse(ReadPoint(s, "event", q.key)))
PutEvent(s, q) == PutPoint(s, "event", q.record, PutEventResponse)
DeleteEvent(s, q) ==
  DeletePoint(s, "event", q.key, DeleteEventResponse(Exists(s, "event", q.key)))
ListActivities(s, q) ==
  ListRun(s, "activity", q.key, ListActivitiesResponse(RunRecords(s, "activity", q.key)))
ListEvents(s, q) == ListRun(s, "event", q.key, ListEventsResponse(RunRecords(s, "event", q.key)))

ListTimers(s, q) ==
  LET S == {r \in RunRecords(s, "timer", q.key) : q.status \in {"UNSPECIFIED", r.status}}
  IN  ListRun(s, "timer", q.key, ListTimersResponse(S))

DueScan(s, now, response) ==
  IF DueRunDamaged(s, now) THEN dataLossError(s) ELSE Ok(s, response)

DueTimers(s, q) == DueScan(s, q.now, DueTimersResponse(Due(s, q.now)))

-----------------------------------------------------------------------------
(* The latest-run pointer: GetLatestWorkflowRun reads the pointer, and the   *)
(* store, the handler and the client each dereference it before they trust   *)
(* it.  PutWorkflow writes the record first and publishes the pointer next.  *)

PutWorkflow(s, q) == PutPoint(s, "workflow", q.record, PutWorkflowResponse)

(* A run's order is fixed by its ID; a terminal record is later than the     *)
(* one it replaces.                                                          *)
RecordTime(status) == IF status = "IN_PROGRESS" THEN 0 ELSE 1

shouldReplaceLatestWorkflowRun(p, r) ==
  \/ RunOrder[r.key.run] > RunOrder[p.key.run]
  \/ /\ RunOrder[r.key.run] = RunOrder[p.key.run]
     /\ RecordTime(r.status) >= RecordTime(p.status)

(* putLatestWorkflowRun, after the record is written. *)
PublishPointer(s, r) ==
  LET p == s.latest[r.key.workflow]
  IN  IF r.status = "UNSPECIFIED" THEN Ok(s, PutWorkflowResponse)
      ELSE IF p = Absent \/ (p # Garbage /\ shouldReplaceLatestWorkflowRun(p, r))
        THEN Ok([s EXCEPT !.latest[r.key.workflow] = LatestWorkflowRunPointer(r)], PutWorkflowResponse)
      ELSE IF p = Garbage THEN Error(s, "internal")
      ELSE Ok(s, PutWorkflowResponse)

GetLatestWorkflowRun(s, q) ==
  LET p == s.latest[q.workflow]
  IN  IF p = Absent THEN Ok(s, GetLatestWorkflowRunResponse(Nil))
      ELSE IF ~ ValidateLatestWorkflowRunPointer(p, q.workflow) THEN dataLossError(s)
      ELSE Ok(s, GetLatestWorkflowRunResponse(p))

DereferencePointer(s, p) ==
  LET r == GetPoint(s, "workflow", p.key, GetWorkflowResponse(ReadPoint(s, "workflow", p.key)))
  IN  IF r.code # "ok" THEN r
      ELSE IF ~ r.body.found \/ StaleLatestPointer(p, r.body.record)
        THEN Ok(s, GetLatestWorkflowRunResponse(Nil))
      ELSE Ok(s, GetLatestWorkflowRunResponse(p))

-----------------------------------------------------------------------------
(* Capabilities, claims and event delivery *)

currentClaimCapability(c) ==
  CASE c \in {"UNSPECIFIED", "NONE"} -> "NONE"
    [] c = "CREATE_ONLY" -> "CREATE_ONLY"
    [] OTHER -> "error"

currentEventCapability(c) == IF c \in {"absent", "UNSPECIFIED"} THEN "NONE" ELSE c

GetStoreCapabilities(s, v) ==
  LET c == IF v.claims = "absent" THEN "NONE" ELSE currentClaimCapability(v.claims)
      e == currentEventCapability(v.delivery)
  IN  IF c = "error" THEN Error(s, "failed_precondition")
      ELSE IF e = "OTHER" THEN Error(s, "internal")
      ELSE Ok(s, GetStoreCapabilitiesResponse(c, e))

(* Mutant of TryCreate: an unconditional write. *)
TryCreateOverwrites(s, r) == Ok(Write(s, "claim", r), TryCreateClaimResponse(TRUE))

(* The claim store's conditional create. *)
TryCreate(s, r) ==
  Ok(IF Exists(s, "claim", r.key) THEN s ELSE Write(s, "claim", r),
     TryCreateClaimResponse(~ Exists(s, "claim", r.key)))

TryCreateClaim(s, v, q) ==
  IF v.claims = "absent" THEN Error(s, "failed_precondition")
  ELSE IF ~ Validate(q.record.key) THEN Error(s, "invalid_argument")
  ELSE IF currentClaimCapability(v.claims) # "CREATE_ONLY" THEN Error(s, "failed_precondition")
  ELSE IF ~ ValidateRecord(q.record, q.record.key) THEN Error(s, "invalid_argument")
  ELSE TryCreate(s, q.record)

DeleteClaim(s, v, q) ==
  IF v.claims = "absent" THEN Error(s, "failed_precondition")
  ELSE IF Validate(q.key) /\ currentClaimCapability(v.claims) # "CREATE_ONLY"
    THEN Error(s, "failed_precondition")
  ELSE DeletePoint(s, "claim", q.key, DeleteClaimResponse(Exists(s, "claim", q.key)))

GetClaim(s, v, q) ==
  IF v.claims = "absent" THEN Error(s, "failed_precondition")
  ELSE GetPoint(s, "claim", q.key, GetClaimResponse(ReadPoint(s, "claim", q.key)))

(* Without create-only claims a run has none to list. *)
ListClaims(s, v, q) ==
  LET c == IF v.claims = "absent" THEN "NONE" ELSE currentClaimCapability(v.claims)
  IN  IF ~ Validate(q.key) THEN Error(s, "invalid_argument")
      ELSE IF c = "error" THEN Error(s, "failed_precondition")
      ELSE IF c = "NONE" THEN Ok(s, ListClaimsResponse({}))
      ELSE ListRun(s, "claim", q.key, ListClaimsResponse(RunRecords(s, "claim", q.key)))

(* A create-once event store: the first delivery is kept, an identical one   *)
(* is idempotent, a different one is refused, a damaged one is an error.     *)
CreateOnce(s, r) ==
  LET o == s.event[r.key]
  IN  IF o = Absent THEN Ok(Write(s, "event", r), DeliverEventResponse("CREATED"))
      ELSE IF ~ ValidateEventDeliveryRecord(o, r.key) THEN dataLossError(s)
      ELSE IF o.payload = r.payload THEN Ok(s, DeliverEventResponse("IDEMPOTENT"))
      ELSE Refused(s, "CONFLICT", r.key)

(* Mutant of DeliverEvent: a store without conditional create is written to. *)
DeliverEventUnchecked(s, v, q) ==
  IF ~ ValidateEventDeliveryRecord(q.record, q.record.key) THEN Error(s, "invalid_argument")
  ELSE IF v.delivery = "CREATE_ONLY" THEN CreateOnce(s, q.record)
  ELSE Ok(Write(s, "event", q.record), DeliverEventResponse("CREATED"))

DeliverEvent(s, v, q) ==
  IF ~ ValidateEventDeliveryRecord(q.record, q.record.key) THEN Error(s, "invalid_argument")
  ELSE IF currentEventCapability(v.delivery) = "NONE"
    THEN Refused(s, "UNSUPPORTED", q.record.key)
  ELSE IF v.delivery # "CREATE_ONLY" THEN Error(s, "internal")
  ELSE CreateOnce(s, q.record)

-----------------------------------------------------------------------------
(* The query service *)

Selected(s, kind, q) == {r \in RecordsAt(s, kind, Scanned(s, kind, q)) : Matches(r, q)}

Scan(s, kind, q, response) ==
  LET K == Scanned(s, kind, q)
  IN  IF Damaged(s, kind, K) THEN Error(s, ScanError(s, kind, K)) ELSE Ok(s, response)

ListWorkflows(s, q) == Scan(s, "workflow", q, ListWorkflowsResponse(Selected(s, "workflow", q)))

QueryActivities(s, q) ==
  IF q.run = ""
    THEN Scan(s, "activity", q, RecordQueryServiceListActivitiesResponse(Selected(s, "activity", q)))
  ELSE IF q.workflow = "" THEN Error(s, "invalid_argument")
  ELSE LET run == [workflow |-> q.workflow, run |-> q.run]
           S == {r \in RunRecords(s, "activity", run) : q.status \in {"UNSPECIFIED", r.status}}
       IN  ListRun(s, "activity", run, RecordQueryServiceListActivitiesResponse(S))

QueryDueTimers(s, q) == DueScan(s, q.now, RecordQueryServiceDueTimersResponse(Due(s, q.now)))

-----------------------------------------------------------------------------
(* The generated router: a procedure goes to its handler, one that the       *)
(* handler does not implement answers Unimplemented.                         *)
Unimplemented(s) == Error(s, "unimplemented")

QueryRoute(s, q) ==
  CASE q.rpc = "ListWorkflows" -> ListWorkflows(s, q)
    [] q.rpc = "QueryActivities" -> QueryActivities(s, q)
    [] q.rpc = "QueryDueTimers" -> QueryDueTimers(s, q)
    [] OTHER -> Unimplemented(s)

Route(s, v, q) ==
  CASE q.rpc = "GetWorkflow" -> GetWorkflow(s, q)
    [] q.rpc = "PutWorkflow" -> PutWorkflow(s, q)
    [] q.rpc = "GetLatestWorkflowRun" -> GetLatestWorkflowRun(s, q)
    [] q.rpc = "DeleteWorkflow" -> DeleteWorkflow(s, q)
    [] q.rpc = "GetActivity" -> GetActivity(s, q)
    [] q.rpc = "PutActivity" -> PutActivity(s, q)
    [] q.rpc = "ListActivities" -> ListActivities(s, q)
    [] q.rpc = "DeleteActivity" -> DeleteActivity(s, q)
    [] q.rpc = "GetTimer" -> GetTimer(s, q)
    [] q.rpc = "PutTimer" -> PutTimer(s, q)
    [] q.rpc = "ListTimers" -> ListTimers(s, q)
    [] q.rpc = "DeleteTimer" -> DeleteTimer(s, q)
    [] q.rpc = "DueTimers" -> DueTimers(s, q)
    [] q.rpc = "GetEvent" -> GetEvent(s, q)
    [] q.rpc = "PutEvent" -> PutEvent(s, q)
    [] q.rpc = "ListEvents" -> ListEvents(s, q)
    [] q.rpc = "DeleteEvent" -> DeleteEvent(s, q)
    [] q.rpc = "DeliverEvent" -> DeliverEvent(s, v, q)
    [] q.rpc = "GetClaim" -> GetClaim(s, v, q)
    [] q.rpc = "TryCreateClaim" -> TryCreateClaim(s, v, q)
    [] q.rpc = "DeleteClaim" -> DeleteClaim(s, v, q)
    [] q.rpc = "ListClaims" -> ListClaims(s, v, q)
    [] q.rpc = "GetStoreCapabilities" -> GetStoreCapabilities(s, v)
    [] OTHER -> QueryRoute(s, q)
=============================================================================
