--------------------------- MODULE MCRecordService ---------------------------
EXTENDS RecordService, RunCache, TLC

K(run) == [workflow |-> "w1", run |-> run]
I(run, id) == [workflow |-> "w1", run |-> run, id |-> id]
Order == [r \in RunIds |-> IF r = "r1" THEN 1 ELSE 2]

Work(requests, found, bound) ==
  [requests |-> requests, claims |-> "absent", delivery |-> "absent", found |-> found, faults |-> bound]

At(kind, key, object) == [kind |-> kind, key |-> key, object |-> object]

(* An object of another key, and one of another schema. *)
Foreign(r, run) == [r EXCEPT !.key.run = run]
OldSchema(r) == [r EXCEPT !.schema = "UNSPECIFIED"]

WorkflowLoad ==
  Work({PutWorkflowRequest(WorkflowRecord(K(r), "IN_PROGRESS")) : r \in RunIds}
         \cup {PutWorkflowRequest(WorkflowRecord(K("r1"), "COMPLETED")), GetWorkflowRequest(K("r1")), GetWorkflowRequest(K("")), DeleteWorkflowRequest(K("r1")),
               GetLatestWorkflowRunRequest("w1"), ListWorkflowsRequest("w1", "COMPLETED")},
       {At("workflow", K("r1"), Garbage), At("workflow", K("r1"), Foreign(WorkflowRecord(K("r1"), "COMPLETED"), "r2")),
        At("latest", "w1", Garbage)}, 1)

ActivityLoad ==
  Work({PutActivityRequest(ActivityRecord(I("r1", i), "RETRYING")) : i \in Ids}
         \cup {PutActivityRequest(ActivityRecord(I("r1", "a"), "COMPLETED")), GetActivityRequest(I("r1", "a")),
               PutActivityRequest(ActivityRecord(I("r1", ""), "RETRYING")),
               DeleteActivityRequest(I("r1", "a")), ListActivitiesRequest(K("r1")),
               RecordQueryServiceListActivitiesRequest("w1", "r1", "COMPLETED"),
               RecordQueryServiceListActivitiesRequest("", "", "UNSPECIFIED"),
               RecordQueryServiceListActivitiesRequest("", "r1", "UNSPECIFIED")},
       {At("activity", I("r1", "a"), Garbage), At("activity", I("r2", "a"), OldSchema(ActivityRecord(I("r2", "a"), "FAILED")))}, 1)

TimerLoad ==
  Work({PutTimerRequest(TimerRecord(I("r1", "a"), "SCHEDULED", t)) : t \in Times}
         \cup {PutTimerRequest(TimerRecord(I("r1", "a"), "FIRED", 1)), GetTimerRequest(I("r1", "a")), DeleteTimerRequest(I("r1", "a")),
               ListTimersRequest(K("r1"), "SCHEDULED"), DueTimersRequest(1),
               RecordQueryServiceDueTimersRequest(2)},
       {At("timer", I("r1", "a"), Garbage), At("workflow", K("r1"), Garbage),
        At("workflow", K("r1"), WorkflowRecord(K("r1"), "IN_PROGRESS")),
        At("workflow", K("r1"), WorkflowRecord(K("r1"), "FAILED"))}, 1)

EventLoad ==
  Work({PutEventRequest(EventRecord(I("r1", "a"), p)) : p \in Payloads \cup {"none"}}
         \cup {GetEventRequest(I("r1", "a")), DeleteEventRequest(I("r1", "a")), ListEventsRequest(K("r1"))},
       {At("event", I("r1", "a"), Garbage)}, 2)

DeliveryLoad(capability) ==
  [Work({[rpc |-> "SendEvent", record |-> EventRecord(I("r1", "a"), p)] : p \in Payloads}
          \cup {DeliverEventRequest(EventRecord(I("r1", "a"), p)) : p \in Payloads}
          \cup {GetEventRequest(I("r1", "a"))},
        {At("event", I("r1", "a"), OldSchema(EventRecord(I("r1", "a"), "p1")))}, 3)
     EXCEPT !.delivery = capability]

ClaimLoad(capability) ==
  [Work({TryCreateClaimRequest(ClaimRecord(I("r1", "a"), c)) : c \in Clients}
          \cup {DeleteClaimRequest(I("r1", "a")), GetClaimRequest(I("r1", "a")), ListClaimsRequest(K("r1")),
                GetStoreCapabilitiesRequest, [rpc |-> "AcquireExecution"]},
        IF capability = "CREATE_ONLY" THEN {At("claim", I("r1", "a"), Garbage)} ELSE {}, 3)
     EXCEPT !.claims = capability]

AllLoads ==
  [workflow |-> WorkflowLoad, activity |-> ActivityLoad, timer |-> TimerLoad, event |-> EventLoad]
    @@ [c \in {"absent", "NONE", "OTHER", "CREATE_ONLY"} |-> DeliveryLoad(c)]
    @@ [c \in {"claims absent", "claims UNSPECIFIED", "claims OTHER", "claims CREATE_ONLY"} |->
          ClaimLoad(CASE c = "claims absent" -> "absent" [] c = "claims UNSPECIFIED" -> "UNSPECIFIED"
                      [] c = "claims OTHER" -> "OTHER" [] OTHER -> "CREATE_ONLY")]

Loads == AllLoads

-----------------------------------------------------------------------------
(* A behaviour is one of the service or one of a run cache over its store; the *)
(* part that is not running keeps its first state.                             *)
VARIABLE part

Kind == [e \in Entries |-> IF e = "run" THEN "workflow" ELSE "timer"]

MCInit ==
  /\ Init /\ CacheInit
  /\ \/ part = "service" /\ inner = All(NoRecord)
     \/ part = "cache" /\ workload = "workflow" /\ stored = Clear

MCNext ==
  \/ part = "service" /\ Next /\ UNCHANGED <<part, cacheVars>>
  \/ part = "cache" /\ CacheNext /\ UNCHANGED <<part, vars>>

MCSpec == MCInit /\ [][MCNext]_<<part, vars, cacheVars>>

Interchangeable == Permutations(Clients)
=============================================================================
