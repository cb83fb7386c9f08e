---------------------------- MODULE RecordMessages ----------------------------
(***************************************************************************)
(* The keys, records, requests and responses of the record store protocol  *)
(* (core/go/gen/temporaless/v1/temporaless.pb.go), each reduced to what    *)
(* the store, the handler and the client tell apart.  A key keeps its      *)
(* identifiers, where "" is a malformed one; the activity, timer, event    *)
(* and claim identifiers are all called id.  A record keeps its schema     *)
(* version, its key and its one distinguishing value.  A message without   *)
(* fields is a response that only says the call succeeded.                 *)
(***************************************************************************)
EXTENDS Naturals

CONSTANTS
  Workflows,  \* workflow IDs
  RunIds,     \* run IDs
  Ids,        \* activity, timer, event and claim IDs
  Payloads,   \* event payloads
  Times       \* instants of fire_at and now

ASSUME IdsAreWellFormed == "" \notin RunIds \cup Ids

Nil == [nil |-> TRUE]

-----------------------------------------------------------------------------
(* Enumerations *)

RecordSchemaVersion == {"UNSPECIFIED", "V1"}
WorkflowStatus == {"UNSPECIFIED", "COMPLETED", "FAILED", "IN_PROGRESS"}
ActivityStatus == {"UNSPECIFIED", "COMPLETED", "FAILED", "RETRYING"}
TimerStatus == {"UNSPECIFIED", "SCHEDULED", "FIRED", "CANCELED"}
ClaimCapability == {"UNSPECIFIED", "NONE", "CREATE_ONLY", "OTHER"}
EventDeliveryCapability == {"UNSPECIFIED", "NONE", "CREATE_ONLY", "OTHER"}
EventDeliveryDisposition == {"UNSPECIFIED", "CREATED", "IDEMPOTENT"}
EventDeliveryFailureReason == {"UNSPECIFIED", "UNSUPPORTED", "CONFLICT"}
FencedExecutionCapability == {"UNSPECIFIED", "UNSUPPORTED"}

-----------------------------------------------------------------------------
(* Keys and records *)

WorkflowKey == [workflow : Workflows, run : RunIds \cup {""}]
ActivityKey == [workflow : Workflows, run : RunIds \cup {""}, id : Ids \cup {""}]
TimerKey == ActivityKey
EventKey == ActivityKey
ClaimKey == ActivityKey

(* The run a record belongs to: the first three fields of every key. *)
RunOf(k) == [workflow |-> k.workflow, run |-> k.run]

Validate(k) == k.run # "" /\ ("id" \in DOMAIN k => k.id # "")

WorkflowRecord(k, s) == [schema |-> "V1", key |-> k, status |-> s]
ActivityRecord(k, s) == [schema |-> "V1", key |-> k, status |-> s]
TimerRecord(k, s, t) == [schema |-> "V1", key |-> k, status |-> s, fire_at |-> t]
EventRecord(k, p) == [schema |-> "V1", key |-> k, payload |-> p]
ClaimRecord(k, o) == [schema |-> "V1", key |-> k, owner |-> o]
LatestWorkflowRunPointer(r) == [key |-> r.key, status |-> r.status]
DueTimer(t, w) == [key |-> t.key, record |-> t, workflow |-> w]

-----------------------------------------------------------------------------
(* Requests *)

GetWorkflowRequest(k) == [rpc |-> "GetWorkflow", key |-> k]
PutWorkflowRequest(r) == [rpc |-> "PutWorkflow", record |-> r]
GetLatestWorkflowRunRequest(w) == [rpc |-> "GetLatestWorkflowRun", workflow |-> w]
GetTimerRequest(k) == [rpc |-> "GetTimer", key |-> k]
PutTimerRequest(r) == [rpc |-> "PutTimer", record |-> r]
GetActivityRequest(k) == [rpc |-> "GetActivity", key |-> k]
PutActivityRequest(r) == [rpc |-> "PutActivity", record |-> r]
GetEventRequest(k) == [rpc |-> "GetEvent", key |-> k]
PutEventRequest(r) == [rpc |-> "PutEvent", record |-> r]
DeliverEventRequest(r) == [rpc |-> "DeliverEvent", record |-> r]
ListActivitiesRequest(k) == [rpc |-> "ListActivities", key |-> k]
ListTimersRequest(k, s) == [rpc |-> "ListTimers", key |-> k, status |-> s]
ListEventsRequest(k) == [rpc |-> "ListEvents", key |-> k]
ListClaimsRequest(k) == [rpc |-> "ListClaims", key |-> k]
DeleteWorkflowRequest(k) == [rpc |-> "DeleteWorkflow", key |-> k]
DeleteActivityRequest(k) == [rpc |-> "DeleteActivity", key |-> k]
DeleteTimerRequest(k) == [rpc |-> "DeleteTimer", key |-> k]
DeleteEventRequest(k) == [rpc |-> "DeleteEvent", key |-> k]
GetClaimRequest(k) == [rpc |-> "GetClaim", key |-> k]
TryCreateClaimRequest(r) == [rpc |-> "TryCreateClaim", record |-> r]
DeleteClaimRequest(k) == [rpc |-> "DeleteClaim", key |-> k]
GetStoreCapabilitiesRequest == [rpc |-> "GetStoreCapabilities"]
DueTimersRequest(t) == [rpc |-> "DueTimers", now |-> t]

(* Requests of the record query service; "" and UNSPECIFIED do not filter. *)
ListWorkflowsRequest(w, s) == [rpc |-> "ListWorkflows", workflow |-> w, status |-> s]

RecordQueryServiceListActivitiesRequest(w, run, s) ==
  [rpc |-> "QueryActivities", workflow |-> w, run |-> run, status |-> s]

RecordQueryServiceDueTimersRequest(t) == [rpc |-> "QueryDueTimers", now |-> t]

-----------------------------------------------------------------------------
(* Responses *)

GetWorkflowResponse(r) == [found |-> r # Nil, record |-> r]
PutWorkflowResponse == [put |-> TRUE]
GetLatestWorkflowRunResponse(p) == [found |-> p # Nil, record |-> p]
GetTimerResponse(r) == [found |-> r # Nil, record |-> r]
PutTimerResponse == [put |-> TRUE]
GetActivityResponse(r) == [found |-> r # Nil, record |-> r]
PutActivityResponse == [put |-> TRUE]
GetEventResponse(r) == [found |-> r # Nil, record |-> r]
PutEventResponse == [put |-> TRUE]
DeliverEventResponse(d) == [disposition |-> d]
ListActivitiesResponse(S) == [records |-> S]
ListTimersResponse(S) == [records |-> S]
ListEventsResponse(S) == [records |-> S]
ListClaimsResponse(S) == [records |-> S]
ListWorkflowsResponse(S) == [records |-> S]
RecordQueryServiceListActivitiesResponse(S) == [records |-> S]
DeleteWorkflowResponse(d) == [deleted |-> d]
DeleteActivityResponse(d) == [deleted |-> d]
DeleteTimerResponse(d) == [deleted |-> d]
DeleteEventResponse(d) == [deleted |-> d]
GetClaimResponse(r) == [found |-> r # Nil, record |-> r]
TryCreateClaimResponse(c) == [created |-> c]
DeleteClaimResponse(d) == [deleted |-> d]
DueTimersResponse(S) == [records |-> S]
RecordQueryServiceDueTimersResponse(S) == [records |-> S]

GetStoreCapabilitiesResponse(c, e) ==
  [claim |-> c, delivery |-> e, fenced |-> "UNSUPPORTED"]

(* The typed detail of a failed delivery. *)
EventDeliveryErrorDetail(reason, k) == [reason |-> reason, key |-> k]
=============================================================================
