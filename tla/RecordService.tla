---------------------------- MODULE RecordService ----------------------------
(***************************************************************************)
(* Clients of the record store over RPC: ClientStore of                    *)
(* adapters/go/connectstore/client.go on one side, the handlers of         *)
(* RecordHandler on the other, an unreliable connection in between.  A     *)
(* call is sent, served in one or more object operations, answered and     *)
(* checked by the client.  Requests and answers are lost; a write whose    *)
(* caller has given up may still be applied later; a store operation       *)
(* fails with or without its effect; a foreign server may answer a read    *)
(* with the wrong record.  Objects may be damaged from the start.  Each    *)
(* behaviour runs one workload: the requests the clients make, and the     *)
(* configuration and damage of the server they make them to.               *)
(***************************************************************************)
EXTENDS RecordHandler

CONSTANTS
  Clients,    \* the callers, which are also the owners of claims
  Workloads   \* by name: records of requests, claims, delivery, found and faults,
              \* the bound on losses, failures and wrong answers

Kinds == {"workflow", "activity", "timer", "event", "claim"}

Keys(kind) ==
  {k \in CASE kind = "workflow" -> WorkflowKey [] kind = "activity" -> ActivityKey
           [] kind = "timer" -> TimerKey [] kind = "event" -> EventKey
           [] kind = "claim" -> ClaimKey : Validate(k)}

(* What an object that decodes may be: of any schema version and any key. *)
WorkflowObject == [schema : RecordSchemaVersion, key : WorkflowKey, status : WorkflowStatus]
ActivityObject == [schema : RecordSchemaVersion, key : ActivityKey, status : ActivityStatus]
TimerObject == [schema : RecordSchemaVersion, key : TimerKey, status : TimerStatus, fire_at : Times]
EventObject == [schema : RecordSchemaVersion, key : EventKey, payload : Payloads \cup {"none"}]
ClaimObject == [schema : RecordSchemaVersion, key : ClaimKey, owner : Clients]
PointerObject == [key : WorkflowKey, status : WorkflowStatus]

(* The requests of a workload are well-formed messages.  SendEvent is the    *)
(* method of the runtime that delivers an event.                             *)
Request ==
  [rpc : {"GetWorkflow", "DeleteWorkflow", "ListActivities", "ListEvents", "ListClaims"}, key : WorkflowKey]
    \cup [rpc : {"GetActivity", "DeleteActivity", "GetTimer", "DeleteTimer", "GetEvent", "DeleteEvent",
                 "GetClaim", "DeleteClaim"}, key : ActivityKey]
    \cup [rpc : {"ListTimers"}, key : WorkflowKey, status : TimerStatus]
    \cup [rpc : {"PutWorkflow"}, record : WorkflowObject]
    \cup [rpc : {"PutActivity"}, record : ActivityObject]
    \cup [rpc : {"PutTimer"}, record : TimerObject]
    \cup [rpc : {"PutEvent", "DeliverEvent", "SendEvent"}, record : EventObject]
    \cup [rpc : {"TryCreateClaim"}, record : ClaimObject]
    \cup [rpc : {"GetLatestWorkflowRun"}, workflow : Workflows]
    \cup [rpc : {"ListWorkflows"}, workflow : Workflows \cup {""}, status : WorkflowStatus]
    \cup [rpc : {"QueryActivities"}, workflow : Workflows \cup {""}, run : RunIds \cup {""},
          status : ActivityStatus]
    \cup [rpc : {"DueTimers", "QueryDueTimers"}, now : Times]
    \cup [rpc : {"GetStoreCapabilities", "AcquireExecution"}]

(* An object found in the bucket decodes or is garbage. *)
FoundTyped(d) ==
  \/ d.kind = "workflow" /\ d.object \in WorkflowObject \cup {Garbage}
  \/ d.kind = "activity" /\ d.object \in ActivityObject \cup {Garbage}
  \/ d.kind = "timer" /\ d.object \in TimerObject \cup {Garbage}
  \/ d.kind = "event" /\ d.object \in EventObject \cup {Garbage}
  \/ d.kind = "claim" /\ d.object \in ClaimObject \cup {Garbage}
  \/ d.kind = "latest" /\ d.object \in PointerObject \cup {Garbage}

(* Only a store that can create claims has any. *)
ASSUME WorkloadsTyped ==
  \A n \in DOMAIN Workloads :
    /\ Workloads[n].requests \subseteq Request
    /\ Workloads[n].claims \in ClaimCapability \cup {"absent"}
    /\ Workloads[n].delivery \in EventDeliveryCapability \cup {"absent"}
    /\ Workloads[n].faults \in Nat
    /\ \A d \in Workloads[n].found :
         FoundTyped(d) /\ (d.kind = "claim" => Workloads[n].claims = "CREATE_ONLY")

VARIABLES
  workload,  \* the name of the workload, fixed
  stored,    \* the objects
  method,    \* the client method in progress, as the request it starts with
  call,      \* the RPC in progress
  stage,     \* idle, sent, publish, deref, confirm or answered
  hand,      \* the pointer a GetLatestWorkflowRun has read, the event a SendEvent delivers
  reply,     \* the answer on its way
  truth,     \* what the objects said when the read was served
  returned,  \* the method that has just returned, with its outcome
  late,      \* writes whose callers gave up, not yet applied
  holds,     \* the claims each client believes it holds
  accepted,  \* the payloads whose delivery was reported a success
  revoked,   \* an abandoned release was applied
  faults     \* faults so far

server == <<workload, stored>>
caller == <<method, call, stage, hand, reply, truth>>
history == <<late, holds, accepted, revoked, faults>>
vars == <<server, caller, returned, history>>

Load == Workloads[workload]

Idle == [rpc |-> "none"]

NoTruth == [garbled |-> FALSE, sound |-> TRUE, records |-> {}]

Outcome(is, value) == [is |-> is, value |-> value]
Records(S) == Outcome("records", [records |-> S])
Failed == Outcome("failed", Nil)
Corrupt == Outcome("corrupt", Nil)

Clear ==
  [workflow |-> [k \in Keys("workflow") |-> Absent], activity |-> [k \in Keys("activity") |-> Absent],
   timer |-> [k \in Keys("timer") |-> Absent], event |-> [k \in Keys("event") |-> Absent],
   claim |-> [k \in Keys("claim") |-> Absent], latest |-> [w1 \in Workflows |-> Absent]]

Init ==
  /\ workload \in DOMAIN Workloads
  /\ stored \in {Clear} \cup
       {[Clear EXCEPT ![d.kind][d.key] = d.object] : d \in Load.found}
  /\ method = [c \in Clients |-> Idle]
  /\ call = [c \in Clients |-> Idle]
  /\ stage = [c \in Clients |-> "idle"]
  /\ hand = [c \in Clients |-> Nil]
  /\ reply = [c \in Clients |-> Nil]
  /\ truth = [c \in Clients |-> NoTruth]
  /\ returned = Nil
  /\ late = {}
  /\ holds = [c \in Clients |-> {}]
  /\ accepted = [k \in Keys("event") |-> {}]
  /\ revoked = FALSE
  /\ faults = 0

Fault == faults < Load.faults /\ faults' = faults + 1

(* The configured server answers q. *)
Handle(q) == Route(stored, Load, q)

Answer(r) == [code |-> r.code, body |-> r.body]

Mutations ==
  {"PutWorkflow", "PutActivity", "PutTimer", "PutEvent", "DeliverEvent", "TryCreateClaim",
   "DeleteWorkflow", "DeleteActivity", "DeleteTimer", "DeleteEvent", "DeleteClaim"}

KindOf(q) ==
  CASE q.rpc \in {"GetWorkflow", "ListWorkflows"} -> "workflow"
    [] q.rpc \in {"GetActivity", "ListActivities", "QueryActivities"} -> "activity"
    [] q.rpc \in {"GetTimer", "ListTimers"} -> "timer"
    [] q.rpc \in {"GetEvent", "ListEvents"} -> "event"
    [] q.rpc \in {"GetClaim", "ListClaims"} -> "claim"
    [] OTHER -> "none"

(* What a read asks for, said once for all reads: the stored objects of a    *)
(* key, of a run, or of everything, their validity, and the ones wanted.     *)
Wanted(s, q) ==
  LET kind == KindOf(q)
      K == CASE q.rpc \in {"GetWorkflow", "GetActivity", "GetTimer", "GetEvent", "GetClaim"} ->
                  {q.key} \cap Stored(s, kind)
             [] q.rpc \in {"ListWorkflows", "QueryActivities"} ->
                  {k \in Stored(s, kind) : /\ q.workflow \in {"", k.workflow}
                                           /\ q.rpc = "QueryActivities" => q.run \in {"", k.run}}
             [] OTHER -> {k \in Stored(s, kind) : RunOf(k) = q.key}
      V == {k \in K : ValidateRecord(s[kind][k], k)}
  IN  [garbled |-> FALSE, sound |-> V = K,
       records |-> {s[kind][k] : k \in {j \in V : "status" \in DOMAIN q =>
                                           q.status \in {"UNSPECIFIED", s[kind][j].status}}}]

Truth(s, q) ==
  IF KindOf(q) # "none" THEN Wanted(s, q)
  ELSE IF q.rpc \in {"DueTimers", "QueryDueTimers"}
    THEN [garbled |-> FALSE, sound |-> ~ DueRunDamaged(s, q.now), records |-> Due(s, q.now)]
  ELSE NoTruth

-----------------------------------------------------------------------------
(* The client: what each method makes of the answer r to its request q.     *)

clientStoreError(r) ==
  IF r.code = "data_loss" THEN Corrupt
  ELSE IF r.code = "failed_precondition" /\ r.body # Nil
    THEN IF ~ Validate(r.body.key) THEN Corrupt
         ELSE CASE r.body.reason = "CONFLICT" -> Outcome("conflict", Nil)
                [] r.body.reason = "UNSUPPORTED" -> Outcome("unsupported", Nil)
                [] OTHER -> Failed
  ELSE Failed

(* Mutant of AcceptPoint: the payload of a point read is not checked. *)
AcceptPointUnchecked(q, r) ==
  IF r.code # "ok" THEN clientStoreError(r)
  ELSE Records(IF r.body.found THEN {r.body.record} ELSE {})

(* A point read: found and payload must agree, and the record must be the    *)
(* one of the key.                                                           *)
AcceptPoint(q, r) ==
  IF r.code # "ok" THEN clientStoreError(r)
  ELSE IF r.body.found # (r.body.record # Nil) THEN Corrupt
  ELSE IF ~ r.body.found THEN Records({})
  ELSE IF ~ ValidateRecord(r.body.record, q.key) THEN Corrupt
  ELSE Records({r.body.record})

(* A listing: every record is valid, of the run or scope, and wanted. *)
AcceptList(q, r) ==
  IF r.code # "ok" THEN clientStoreError(r)
  ELSE IF \A x \in r.body.records :
            /\ ValidateRecord(x, x.key)
            /\ "key" \in DOMAIN q => RunOf(x.key) = q.key
            /\ "workflow" \in DOMAIN q => Matches(x, q)
            /\ "status" \in DOMAIN q => q.status \in {"UNSPECIFIED", x.status}
    THEN Records(r.body.records) ELSE Corrupt

validateDueTimerEntry(q, r) ==
  IF r.code # "ok" THEN clientStoreError(r)
  ELSE IF \A d \in r.body.records : ValidateDueTimer(d, q.now) THEN Records(r.body.records)
  ELSE Corrupt

AcceptWrite(r) == IF r.code # "ok" THEN clientStoreError(r) ELSE Outcome("done", r.body)

validateEventDeliveryErrorDetails(q, r) ==
  r.code = "failed_precondition" /\ r.body # Nil => r.body.key = q.record.key

AcceptDelivery(q, r) ==
  IF r.code # "ok"
    THEN IF validateEventDeliveryErrorDetails(q, r) THEN clientStoreError(r) ELSE Corrupt
  ELSE IF r.body.disposition = "UNSPECIFIED" THEN Corrupt
  ELSE Outcome("delivered", r.body)

AcceptCapabilities(r) ==
  IF r.code # "ok" THEN clientStoreError(r)
  ELSE IF currentClaimCapability(r.body.claim) = "error" THEN Failed
  ELSE IF r.body.delivery = "OTHER" THEN Corrupt
  ELSE Outcome("capabilities", r.body)

(* The methods of ClientStore, by the RPC they make. *)
ClientGetActivity(q, r) == AcceptPoint(q, r)
ClientPutActivity(q, r) == AcceptWrite(r)
ClientGetWorkflow(q, r) == AcceptPoint(q, r)
ClientPutWorkflow(q, r) == AcceptWrite(r)
ClientGetTimer(q, r) == AcceptPoint(q, r)
ClientPutTimer(q, r) == AcceptWrite(r)
ClientListWorkflows(q, r) == AcceptList(q, r)
ClientDeleteWorkflow(q, r) == AcceptWrite(r)
ClientListActivities(q, r) == AcceptList(q, r)
ClientListActivitiesQuery(q, r) == AcceptList(q, r)
ClientDeleteActivity(q, r) == AcceptWrite(r)
ClientListTimers(q, r) == AcceptList(q, r)
ClientDeleteTimer(q, r) == AcceptWrite(r)
ClientListEvents(q, r) == AcceptList(q, r)
ClientListClaims(q, r) == AcceptList(q, r)
ClientDeleteEvent(q, r) == AcceptWrite(r)
ClientGetEvent(q, r) == AcceptPoint(q, r)
ClientPutEvent(q, r) == AcceptWrite(r)
ClientGetClaim(q, r) == AcceptPoint(q, r)
ClientTryCreateClaim(q, r) == AcceptWrite(r)
ClientDeleteClaim(q, r) == AcceptWrite(r)
ClientDueTimers(q, r) == validateDueTimerEntry(q, r)
ClientDueTimersQuery(q, r) == validateDueTimerEntry(q, r)

Accept(q, r) ==
  CASE q.rpc = "GetActivity" -> ClientGetActivity(q, r)
    [] q.rpc = "PutActivity" -> ClientPutActivity(q, r)
    [] q.rpc = "GetWorkflow" -> ClientGetWorkflow(q, r)
    [] q.rpc = "PutWorkflow" -> ClientPutWorkflow(q, r)
    [] q.rpc = "GetTimer" -> ClientGetTimer(q, r)
    [] q.rpc = "PutTimer" -> ClientPutTimer(q, r)
    [] q.rpc = "ListWorkflows" -> ClientListWorkflows(q, r)
    [] q.rpc = "DeleteWorkflow" -> ClientDeleteWorkflow(q, r)
    [] q.rpc = "ListActivities" -> ClientListActivities(q, r)
    [] q.rpc = "QueryActivities" -> ClientListActivitiesQuery(q, r)
    [] q.rpc = "DeleteActivity" -> ClientDeleteActivity(q, r)
    [] q.rpc = "ListTimers" -> ClientListTimers(q, r)
    [] q.rpc = "DeleteTimer" -> ClientDeleteTimer(q, r)
    [] q.rpc = "ListEvents" -> ClientListEvents(q, r)
    [] q.rpc = "ListClaims" -> ClientListClaims(q, r)
    [] q.rpc = "DeleteEvent" -> ClientDeleteEvent(q, r)
    [] q.rpc = "GetEvent" -> ClientGetEvent(q, r)
    [] q.rpc = "PutEvent" -> ClientPutEvent(q, r)
    [] q.rpc = "DeliverEvent" -> AcceptDelivery(q, r)
    [] q.rpc = "GetClaim" -> ClientGetClaim(q, r)
    [] q.rpc = "TryCreateClaim" -> ClientTryCreateClaim(q, r)
    [] q.rpc = "DeleteClaim" -> ClientDeleteClaim(q, r)
    [] q.rpc = "DueTimers" -> ClientDueTimers(q, r)
    [] q.rpc = "QueryDueTimers" -> ClientDueTimersQuery(q, r)
    [] q.rpc = "GetStoreCapabilities" -> AcceptCapabilities(r)
    [] OTHER -> AcceptWrite(r)

-----------------------------------------------------------------------------
(* A call *)

(* A client whose claim on k is being created or released. *)
Busy(d, k) ==
  /\ stage[d] # "idle"
  /\ \/ call[d].rpc = "TryCreateClaim" /\ call[d].record.key = k
     \/ call[d].rpc = "DeleteClaim" /\ call[d].key = k

(* The client refuses an invalid event itself.  A claim names its creator.   *)
(* The runtime releases only claims it holds; an operator releases a claim   *)
(* that was left behind, after verifying that nobody alive has to do with    *)
(* it.                                                                       *)
MayRequest(c, q) ==
  /\ q.rpc = "DeliverEvent" => ValidateEventDeliveryRecord(q.record, q.record.key)
  /\ q.rpc = "TryCreateClaim" => q.record.owner = c
  /\ q.rpc = "DeleteClaim" =>
       \/ q.key \in holds[c]
       \/ /\ Exists(stored, "claim", q.key)
          /\ \A d \in Clients : q.key \notin holds[d] /\ ~ Busy(d, q.key)

(* The client sends the first RPC of a method; SendEvent asks for the        *)
(* capability first and has the event in hand.                               *)
Send(c, q) ==
  /\ call' = [call EXCEPT ![c] = q]
  /\ stage' = [stage EXCEPT ![c] = "sent"]
  /\ reply' = [reply EXCEPT ![c] = Nil]

Invoke(c, q) ==
  /\ stage[c] = "idle"
  /\ MayRequest(c, q)
  /\ method' = [method EXCEPT ![c] = q]
  /\ LET sends == q.rpc = "SendEvent"
     IN  /\ Send(c, IF sends THEN GetStoreCapabilitiesRequest ELSE q)
         /\ hand' = [hand EXCEPT ![c] = IF sends THEN q.record ELSE Nil]
  /\ holds' = IF q.rpc = "DeleteClaim" THEN [holds EXCEPT ![c] = @ \ {q.key}] ELSE holds
  /\ returned' = Nil
  /\ UNCHANGED <<server, truth, late, accepted, revoked, faults>>

(* The handler, up to its first or only object operation. *)
Serve(c) ==
  /\ stage[c] = "sent"
  /\ LET r == Handle(call[c])
         next == CASE r.code = "ok" /\ call[c].rpc = "PutWorkflow" -> "publish"
                   [] r.code = "ok" /\ call[c].rpc = "GetLatestWorkflowRun" /\ r.body.found -> "deref"
                   [] OTHER -> "answered"
     IN  /\ stored' = r.store
         /\ stage' = [stage EXCEPT ![c] = next]
         /\ reply' = [reply EXCEPT ![c] = Answer(r)]
         /\ truth' = [truth EXCEPT ![c] = Truth(stored, call[c])]
  /\ returned' = Nil
  /\ UNCHANGED <<workload, method, call, hand, history>>

(* PutWorkflow, second part: the latest-run pointer. *)
Publish(c) ==
  /\ stage[c] = "publish"
  /\ LET r == PublishPointer(stored, call[c].record)
     IN  /\ stored' = r.store
         /\ reply' = [reply EXCEPT ![c] = Answer(r)]
  /\ stage' = [stage EXCEPT ![c] = "answered"]
  /\ returned' = Nil
  /\ UNCHANGED <<workload, method, call, hand, truth, history>>

(* GetLatestWorkflowRun, second part: the store and then the handler read    *)
(* the run the pointer names.                                                *)
Dereference(c) ==
  /\ stage[c] \in {"deref", "confirm"}
  /\ LET r == DereferencePointer(stored, reply[c].body.record)
     IN  /\ reply' = [reply EXCEPT ![c] = Answer(r)]
         /\ stage' = [stage EXCEPT ![c] =
                         IF @ = "deref" /\ r.code = "ok" /\ r.body.found THEN "confirm" ELSE "answered"]
  /\ returned' = Nil
  /\ UNCHANGED <<server, method, call, hand, truth, history>>

(* The store fails, a write perhaps after its effect; the handler answers    *)
(* Internal.                                                                 *)
ServeFails(c) ==
  /\ Fault
  /\ stage[c] \in {"sent", "publish", "deref", "confirm"}
  /\ \/ UNCHANGED stored
     \/ stage[c] = "sent" /\ call[c].rpc \in Mutations /\ stored' = Handle(call[c]).store
     \/ stage[c] = "publish" /\ stored' = PublishPointer(stored, call[c].record).store
  /\ stage' = [stage EXCEPT ![c] = "answered"]
  /\ reply' = [reply EXCEPT ![c] = [code |-> "internal", body |-> Nil]]
  /\ returned' = Nil
  /\ UNCHANGED <<workload, method, call, hand, truth, late, holds, accepted, revoked>>

(* A foreign server answers a point read with found and payload at odds, or  *)
(* with the record of another key.                                           *)
Garble(c) ==
  /\ Fault
  /\ stage[c] = "answered"
  /\ reply[c].code = "ok" /\ "found" \in DOMAIN reply[c].body
  /\ \E b \in {[reply[c].body EXCEPT !.found = ~ @]} \cup
             (IF reply[c].body.record # Nil
                THEN {[reply[c].body EXCEPT !.record.key.run = x] : x \in RunIds \ {reply[c].body.record.key.run}}
                ELSE {}) :
       reply' = [reply EXCEPT ![c].body = b]
  /\ truth' = [truth EXCEPT ![c].garbled = TRUE]
  /\ returned' = Nil
  /\ UNCHANGED <<server, method, call, stage, hand, late, holds, accepted, revoked>>

Finish(c, o) ==
  /\ returned' = [client |-> c, method |-> method[c], outcome |-> o, truth |-> truth[c]]
  /\ method' = [method EXCEPT ![c] = Idle]
  /\ call' = [call EXCEPT ![c] = Idle]
  /\ stage' = [stage EXCEPT ![c] = "idle"]
  /\ hand' = [hand EXCEPT ![c] = Nil]
  /\ reply' = [reply EXCEPT ![c] = Nil]
  /\ truth' = [truth EXCEPT ![c] = NoTruth]

(* The connection breaks or the caller's deadline passes: the method fails,  *)
(* and a write under way may be applied later.                               *)
GiveUp(c) ==
  /\ Fault
  /\ stage[c] # "idle"
  /\ Finish(c, Failed)
  /\ \/ UNCHANGED late
     \/ stage[c] = "sent" /\ call[c].rpc \in Mutations /\ late' = late \cup {call[c]}
  /\ UNCHANGED <<server, holds, accepted, revoked>>

ApplyLate(q) ==
  /\ late' = late \ {q}
  /\ stored' = Handle(q).store
  /\ revoked' = (revoked \/ (q.rpc = "DeleteClaim" /\ Exists(stored, "claim", q.key)))
  /\ returned' = Nil
  /\ UNCHANGED <<workload, caller, holds, accepted, faults>>

(* The method returns o: what the caller believes from then on. *)
Return(c, o) ==
  /\ Finish(c, o)
  /\ holds' = IF call[c].rpc = "TryCreateClaim" /\ o.is = "done" /\ o.value.created
                THEN [holds EXCEPT ![c] = @ \cup {call[c].record.key}] ELSE holds
  /\ accepted' = IF o.is = "delivered"
                   THEN [accepted EXCEPT ![call[c].record.key] = @ \cup {call[c].record.payload}]
                   ELSE accepted

(* The second RPC of a method. *)
Continue(c, q, h) ==
  /\ Send(c, q)
  /\ hand' = [hand EXCEPT ![c] = h]
  /\ returned' = Nil
  /\ UNCHANGED <<method, truth, holds, accepted>>

(* GetLatestWorkflowRun of the client: a found pointer is dereferenced by an *)
(* RPC of its own, and is stale unless that record agrees with it.           *)
ReceiveLatest(c) ==
  LET r == reply[c]
      o == ClientGetWorkflow(call[c], r)
  IN  IF call[c].rpc = "GetLatestWorkflowRun"
        THEN IF r.code # "ok" THEN Return(c, clientStoreError(r))
             ELSE IF r.body.found # (r.body.record # Nil) THEN Return(c, Corrupt)
             ELSE IF ~ r.body.found THEN Return(c, Records({}))
             ELSE IF ~ ValidateLatestWorkflowRunPointer(r.body.record, call[c].workflow)
               THEN Return(c, Corrupt)
             ELSE Continue(c, GetWorkflowRequest(r.body.record.key), r.body.record)
        ELSE IF o.is # "records" THEN Return(c, o)
        ELSE IF \A x \in o.value.records : StaleLatestPointer(hand[c], x) THEN Return(c, Records({}))
        ELSE Return(c, Records({hand[c]}))

(* SendEvent: deliver only to a store that creates events once. *)
ReceiveSend(c) ==
  LET o == Accept(call[c], reply[c])
  IN  IF call[c].rpc = "DeliverEvent" \/ o.is # "capabilities" THEN Return(c, o)
      ELSE IF o.value.delivery # "CREATE_ONLY" THEN Return(c, Outcome("unsupported", Nil))
      ELSE Continue(c, DeliverEventRequest(hand[c]), hand[c])

Receive(c) ==
  /\ stage[c] = "answered"
  /\ CASE method[c].rpc = "GetLatestWorkflowRun" -> ReceiveLatest(c)
       [] method[c].rpc = "SendEvent" -> ReceiveSend(c)
       [] OTHER -> Return(c, Accept(call[c], reply[c]))
  /\ UNCHANGED <<server, late, revoked, faults>>

Next ==
  \/ \E c \in Clients :
       \/ \E q \in Load.requests : Invoke(c, q)
       \/ Serve(c) \/ Publish(c) \/ Dereference(c) \/ ServeFails(c)
       \/ Garble(c) \/ GiveUp(c) \/ Receive(c)
  \/ \E q \in late : ApplyLate(q)

Spec == Init /\ [][Next]_vars

-----------------------------------------------------------------------------
Decoded(kind) == {stored[kind][k] : k \in Keys(kind)} \ {Absent, Garbage}

(* Objects, replies, outcomes and beliefs stay in their types. *)
TypeOK ==
  /\ Load.claims \in ClaimCapability \cup {"absent"}
  /\ Load.delivery \in EventDeliveryCapability \cup {"absent"}
  /\ \A kind \in Kinds : \A r \in Decoded(kind) : r.schema \in RecordSchemaVersion
  /\ \A r \in Decoded("workflow") : r.status \in WorkflowStatus
  /\ \A r \in Decoded("activity") : r.status \in ActivityStatus
  /\ \A r \in Decoded("timer") : r.status \in TimerStatus
  /\ stage \in [Clients -> {"idle", "sent", "publish", "deref", "confirm", "answered"}]
  /\ \A c \in Clients : reply[c] # Nil /\ reply[c].code = "failed_precondition" =>
       reply[c].body = Nil \/ reply[c].body.reason \in EventDeliveryFailureReason
  /\ returned # Nil /\ returned.outcome.is = "delivered" =>
       returned.outcome.value.disposition \in EventDeliveryDisposition
  /\ returned # Nil /\ returned.outcome.is = "capabilities" =>
       /\ returned.outcome.value.fenced \in FencedExecutionCapability
       /\ returned.outcome.value.claim \in ClaimCapability
       /\ returned.outcome.value.delivery \in EventDeliveryCapability
  /\ holds \in [Clients -> SUBSET ClaimKey]
  /\ accepted \in [{k \in EventKey : Validate(k)} -> SUBSET Payloads]
  /\ late \subseteq Load.requests \cup {DeliverEventRequest(r) : r \in
                      {q.record : q \in {x \in Load.requests : x.rpc = "SendEvent"}}}
  /\ revoked \in BOOLEAN /\ faults \in 0..Load.faults

(* A read that returns without error returned exactly the valid records that *)
(* the store held when it was served, and none of them was damaged: neither  *)
(* corruption nor an outage is ever reported as absence.  A latest-run       *)
(* pointer that is returned agreed with the run it names.  A wrong answer of *)
(* a foreign server can hide a record but never pass another key's off.      *)
ReadsAreTrue ==
  /\ TypeOK
  /\ returned # Nil /\ returned.outcome.is = "records" =>
       LET q == returned.method
           S == returned.outcome.value.records
           T == returned.truth
       IN  IF q.rpc = "GetLatestWorkflowRun"
             THEN \A p \in S : /\ p.key.workflow = q.workflow
                               /\ ~ T.garbled => p \in {LatestWorkflowRunPointer(r) : r \in T.records}
           ELSE IF T.garbled THEN \A r \in S : ValidateRecord(r, q.key)
           ELSE T.sound /\ S = T.records

(* An event that is only ever delivered: no client puts or deletes it. *)
OnlyDelivered(k) ==
  \A q \in Load.requests :
    /\ q.rpc = "PutEvent" => q.record.key # k
    /\ q.rpc = "DeleteEvent" => q.key # k

(* Under lost answers, retries and late requests of any number of senders,   *)
(* all deliveries of an event that report success carry one payload, and     *)
(* that is the payload waiters read, unless someone goes past DeliverEvent   *)
(* and puts or deletes the event.                                            *)
DeliveredOnce ==
  \A k \in Keys("event") : OnlyDelivered(k) =>
    \A p \in accepted[k] : Exists(stored, "event", k) /\ stored.event[k].payload = p

(* A client that believes it holds a claim is the owner the claim names, so  *)
(* no two hold it, unless a release its caller had given up on was applied   *)
(* late: DeleteClaim removes by key, whoever the owner is by then.           *)
ClaimHeldOnce ==
  ~ revoked => \A c \in Clients : \A k \in holds[c] : stored.claim[k] = ClaimRecord(k, c)
=============================================================================
