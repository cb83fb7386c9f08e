------------------------- MODULE RecordServiceProofs ------------------------
(***************************************************************************)
(* The theorems about the record service.                                  *)
(*                                                                         *)
(* ReadsAreTrue follows from RecordInv (RecordHandlerProofs), which the    *)
(* steps that return, give up and apply a late request keep too.           *)
(*                                                                         *)
(* DeliveredOnce is not inductive: the answer that a sender is about to    *)
(* receive has to be true as well.  DeliverInv adds that a delivery that   *)
(* was served as a success is the event of its key, which only a request   *)
(* that the workload does not make could change.                           *)
(*                                                                         *)
(* ClaimHeldOnce needs more: a claim is held from its answer on, and given *)
(* up when its release is sent.  OwnInv says that the claim of an answered *)
(* creation is its creator's, and that a claim whose release is under way  *)
(* exists and is nobody else's concern.  A release that was abandoned and  *)
(* is applied later revokes it: ClaimInv is OwnInv until then.             *)
(***************************************************************************)
EXTENDS RecordHandlerProofs

-----------------------------------------------------------------------------
(* Returning. *)

Ret(c, o) == [client |-> c, method |-> method[c], outcome |-> o, truth |-> truth[c]]

LEMMA RetFields ==
  ASSUME NEW c, NEW o
  PROVE  Ret(c, o).method = method[c] /\ Ret(c, o).outcome = o /\ Ret(c, o).truth = truth[c]
  BY Zenon DEF Ret

(* An outcome that says nothing. *)
LEMMA Silent ==
  ASSUME NEW c, NEW o, o.is \notin {"delivered", "capabilities", "records"}
  PROVE  ReturnOK(Ret(c, o))
<1>1. Ret(c, o).outcome.is \notin {"delivered", "capabilities", "records"}
  BY RetFields
<1> QED
  BY <1>1, Zenon DEF ReturnOK

LEMMA FinishKeeps ==
  ASSUME RecordInv, NEW c \in Clients, NEW o, Finish(c, o), UNCHANGED <<workload, stored>>,
         ReturnOK(Ret(c, o)), HistoryOK'
  PROVE  RecordInv'
<1>1. /\ Alters(method, method', c, Idle) /\ Alters(call, call', c, Idle) /\ Alters(stage, stage', c, "idle")
      /\ Alters(hand, hand', c, Nil) /\ Alters(reply, reply', c, Nil) /\ Alters(truth, truth', c, NoTruth)
  BY Zenon DEF Finish, Alters
<1>2. returned' = Ret(c, o)
  BY Zenon DEF Finish, Ret
<1>3. DOMAIN NoTruth = TruthFields
  BY DEF NoTruth, TruthFields
<1>4. CallOK(Load.requests, c, Idle, Idle, "idle", Nil, Nil, NoTruth)
  BY <1>3, StageNames, Zenon DEF CallOK
<1>5. Moves(c, Idle, Idle, "idle", Nil, Nil, NoTruth)
  BY <1>1, StageNames, MovesBy, Zenon DEF RecordInv
<1> QED
  BY <1>2, <1>4, <1>5, StepKeeps, Zenon DEF RecordInv

LEMMA GiveUpKeeps ==
  ASSUME RecordInv, NEW c \in Clients, GiveUp(c)
  PROVE  RecordInv'
<1>1. UNCHANGED <<workload, stored, holds, accepted, revoked>> /\ Fault /\ Finish(c, Failed) /\ stage[c] # "idle"
  BY Zenon DEF GiveUp, server
<1>2. late' = late \/ (call[c].rpc \in Mutations /\ late' = late \cup {call[c]})
  BY Zenon DEF GiveUp
<1>3. call[c].rpc \in Mutations => call[c] \in Lates(Load.requests)
  <2>1. InFlight(Load.requests, c, method[c], call[c], hand[c]) /\ Load.requests \in SUBSET Request
    BY <1>1, Current
  <2> QED
    BY <2>1, FlightTyped
<1>4. Load' = Load /\ faults' \in 0..Load'.faults
  BY <1>1, FaultKept, Zenon DEF Load
<1>5. HistoryOK'
  BY <1>1, <1>2, <1>3, <1>4, Zenon DEF RecordInv, HistoryOK
<1>6. ReturnOK(Ret(c, Failed))
  BY Outcomes, Silent
<1> QED
  BY <1>1, <1>5, <1>6, FinishKeeps, Zenon

LEMMA ApplyLateKeeps ==
  ASSUME RecordInv, NEW q \in late, ApplyLate(q)
  PROVE  RecordInv'
<1>1. /\ UNCHANGED <<workload, method, call, stage, hand, reply, truth, holds, accepted, faults>>
      /\ returned' = Nil /\ late' \subseteq late /\ stored' = Route(stored, Load, q).store
  BY Zenon DEF ApplyLate, caller, Handle
<1>2. revoked' \in BOOLEAN
  BY Zenon DEF ApplyLate, RecordInv, HistoryOK
<1>3. Load' = Load
  BY <1>1, Zenon DEF Load
<1>4. q \in Request
  <2>1. Load.requests \in SUBSET Request /\ q \in Lates(Load.requests)
    BY RequestsTyped, Zenon DEF RecordInv, HistoryOK
  <2> QED
    BY <2>1, LatesTyped
<1>5. StoreOK(stored') /\ ClaimsFit(stored', Load)
  BY <1>1, <1>4, ServedStore, Zenon DEF RecordInv
<1>6. CallsOK'
  BY <1>1, <1>3, Zenon DEF CallsOK, RecordInv
<1>7. HistoryOK'
  BY <1>1, <1>2, <1>3, Zenon DEF HistoryOK, RecordInv
<1> QED
  BY <1>1, <1>3, <1>5, <1>6, <1>7, Zenon DEF RecordInv

(* An answer that has arrived. *)
LEMMA Arrived ==
  ASSUME RecordInv, NEW c \in Clients, stage[c] = "answered"
  PROVE  reply[c].code = "ok" => ReplyOK(call[c], reply[c], truth[c])
  BY Zenon DEF RecordInv, CallsOK, CallOK

(* A delivery that has succeeded is one of a valid event. *)
LEMMA DeliveryTyped ==
  ASSUME RecordInv, NEW c \in Clients, stage[c] = "answered",
         call[c].rpc = "DeliverEvent", reply[c].code = "ok"
  PROVE  call[c].record.key \in Keys("event") /\ call[c].record.payload \in Payloads
<1>1. call[c] \in Request
  BY Current, Zenon
<1>2. call[c].record \in EventObject
  BY <1>1, RequestFields
<1>3. ValidateEventDeliveryRecord(call[c].record, call[c].record.key)
  BY Arrived, Zenon DEF ReplyOK
<1>4. Validate(call[c].record.key) /\ call[c].record.payload # "none"
  BY <1>3, Zenon DEF ValidateEventDeliveryRecord, ValidateRecord
<1>5. call[c].record.key \in ActivityKey /\ call[c].record.payload \in Payloads \cup {"none"}
  BY <1>2 DEF EventObject, EventKey
<1> QED
  BY <1>4, <1>5, KeyFacts, Zenon

LEMMA ReturnKeeps ==
  ASSUME RecordInv, NEW c \in Clients, stage[c] = "answered", NEW o, Return(c, o),
         UNCHANGED <<server, late, revoked, faults>>, ReturnOK(Ret(c, o)),
         o.is = "delivered" => call[c].rpc = "DeliverEvent" /\ reply[c].code = "ok"
  PROVE  RecordInv'
<1>1. Finish(c, o) /\ UNCHANGED <<workload, stored>> /\ Load' = Load
  BY Zenon DEF Return, server, Load
<1>2. holds' \in [Clients -> SUBSET ClaimKey]
  <2>1. holds \in [Clients -> SUBSET ClaimKey]
    BY Zenon DEF RecordInv, HistoryOK
  <2>2. \/ holds' = holds
        \/ call[c].rpc = "TryCreateClaim" /\ holds' = [holds EXCEPT ![c] = holds[c] \cup {call[c].record.key}]
    BY Zenon DEF Return
  <2>3. call[c].rpc = "TryCreateClaim" => call[c].record.key \in ClaimKey
    <3>1. call[c] \in Request
      BY Current, Zenon
    <3>2. call[c].rpc = "TryCreateClaim" => call[c].record \in ClaimObject
      BY <3>1, RequestFields
    <3> QED
      BY <3>2 DEF ClaimObject
  <2> QED
    BY <2>1, <2>2, <2>3
<1>3. accepted' \in [Keys("event") -> SUBSET Payloads]
  <2>1. accepted \in [Keys("event") -> SUBSET Payloads]
    BY Zenon DEF RecordInv, HistoryOK
  <2>2. \/ accepted' = accepted
        \/ /\ o.is = "delivered"
           /\ accepted' = [accepted EXCEPT ![call[c].record.key] =
                             accepted[call[c].record.key] \cup {call[c].record.payload}]
    BY Zenon DEF Return
  <2>3. o.is = "delivered" => call[c].record.key \in Keys("event") /\ call[c].record.payload \in Payloads
    BY DeliveryTyped, Zenon
  <2> QED
    BY <2>1, <2>2, <2>3
<1>4. HistoryOK'
  BY <1>1, <1>2, <1>3, Zenon DEF RecordInv, HistoryOK
<1> QED
  BY <1>1, <1>4, FinishKeeps, Zenon

LEMMA ContinueKeeps ==
  ASSUME RecordInv, NEW c \in Clients, stage[c] = "answered", NEW q, NEW h, Continue(c, q, h),
         UNCHANGED <<server, late, revoked, faults>>, InFlight(Load.requests, c, method[c], q, h)
  PROVE  RecordInv'
<1>1. /\ Alters(method, method', c, method[c]) /\ Alters(call, call', c, q) /\ Alters(stage, stage', c, "sent")
      /\ Alters(hand, hand', c, h) /\ Alters(reply, reply', c, Nil) /\ Alters(truth, truth', c, truth[c])
  BY Zenon DEF Continue, Send, Alters
<1>2. UNCHANGED <<workload, stored, late, holds, accepted, revoked, faults>> /\ returned' = Nil
  BY Zenon DEF Continue, server
<1>3. DOMAIN truth[c] = TruthFields
  BY Current, Zenon
<1>4. CallOK(Load.requests, c, method[c], q, "sent", h, Nil, truth[c])
  BY <1>3, StageNames, Zenon DEF CallOK
<1>5. Moves(c, method[c], q, "sent", h, Nil, truth[c])
  BY <1>1, StageNames, MovesBy, Zenon DEF RecordInv
<1>6. HistoryOK'
  BY <1>2, HistoryKept
<1> QED
  BY <1>2, <1>4, <1>5, <1>6, StepKeeps, Zenon DEF RecordInv

(* What an ordinary call returns. *)
Says(o, q, T) ==
  /\ o.is = "delivered" => o.value.disposition \in EventDeliveryDisposition
  /\ o.is = "capabilities" =>
       /\ o.value.fenced \in FencedExecutionCapability
       /\ o.value.claim \in ClaimCapability
       /\ o.value.delivery \in EventDeliveryCapability
  /\ o.is = "records" =>
       IF T.garbled THEN \A x \in o.value.records : ValidateRecord(x, q.key)
       ELSE T.sound /\ o.value.records = T.records

LEMMA AcceptedSays ==
  ASSUME NEW q, NEW r, NEW T, r.code = "ok" => ReplyOK(q, r, T)
  PROVE  Says(Accept(q, r), q, T)
<1> DEFINE o == Accept(q, r)
<1>1. /\ o.is = "records" => r.code = "ok" /\ (q.rpc \in PointReads
                                               \/ (q.rpc \in Listings /\ o.value.records = r.body.records))
      /\ o.is = "delivered" => q.rpc = "DeliverEvent" /\ r.code = "ok" /\ o.value = r.body
      /\ o.is = "capabilities" => q.rpc = "GetStoreCapabilities" /\ r.code = "ok" /\ o.value = r.body
  BY Accepted
<1>2. q.rpc \in PointReads => o = AcceptPoint(q, r)
  BY AcceptCases, Zenon
<1> HIDE DEF o
<1>3. o.is = "delivered" => o.value.disposition \in EventDeliveryDisposition
  BY <1>1, Zenon DEF ReplyOK
<1>4. o.is = "capabilities" =>
        /\ o.value.fenced \in FencedExecutionCapability
        /\ o.value.claim \in ClaimCapability
        /\ o.value.delivery \in EventDeliveryCapability
  BY <1>1, Zenon DEF ReplyOK
<1>5. ASSUME o.is = "records", q.rpc \in PointReads
      PROVE  IF T.garbled THEN \A x \in o.value.records : ValidateRecord(x, q.key)
             ELSE T.sound /\ o.value.records = T.records
  <2>1. o = AcceptPoint(q, r)
    BY <1>2, <1>5, Zenon
  <2>2. \/ ~ r.body.found /\ o.value.records = {}
        \/ r.body.found /\ ValidateRecord(r.body.record, q.key) /\ o.value.records = {r.body.record}
    BY <1>5, <2>1, PointAccepted
  <2>3. ~ T.garbled => PointTrue(r.body, T)
    BY <1>1, <1>5, Zenon DEF ReplyOK
  <2> QED
    BY <2>2, <2>3, Zenon DEF PointTrue
<1>6. ASSUME o.is = "records", q.rpc \in Listings, o.value.records = r.body.records
      PROVE  IF T.garbled THEN \A x \in o.value.records : ValidateRecord(x, q.key)
             ELSE T.sound /\ o.value.records = T.records
  <2>1. ListTrue(r.body, T)
    BY <1>1, <1>6, Zenon DEF ReplyOK
  <2> QED
    BY <1>6, <2>1, Zenon DEF ListTrue
<1> QED
  BY <1>1, <1>3, <1>4, <1>5, <1>6, Zenon DEF Says, o

LEMMA ReturnsAccepted ==
  ASSUME RecordInv, NEW c \in Clients, stage[c] = "answered",
         \/ call[c] = method[c] /\ call[c].rpc # "GetLatestWorkflowRun"
         \/ Accept(call[c], reply[c]).is # "records",
         Return(c, Accept(call[c], reply[c])), UNCHANGED <<server, late, revoked, faults>>
  PROVE  RecordInv'
<1> DEFINE o == Accept(call[c], reply[c])
<1>1. Says(o, call[c], truth[c])
  BY Arrived, AcceptedSays
<1>2. o.is = "delivered" => call[c].rpc = "DeliverEvent" /\ reply[c].code = "ok"
  BY Accepted
<1>3. (call[c] = method[c] /\ call[c].rpc # "GetLatestWorkflowRun") \/ o.is # "records"
  BY Zenon
<1>4. Return(c, o)
  BY Zenon
<1> HIDE DEF o
<1>5. ReturnOK(Ret(c, o))
  BY <1>1, <1>3, RetFields, Zenon DEF ReturnOK, Says
<1> QED
  BY <1>2, <1>4, <1>5, ReturnKeeps, Zenon

(* No pointer is returned, *)
LEMMA ReturnsNone ==
  ASSUME RecordInv, NEW c \in Clients, stage[c] = "answered", method[c].rpc = "GetLatestWorkflowRun",
         Return(c, Records({})), UNCHANGED <<server, late, revoked, faults>>
  PROVE  RecordInv'
<1>1. Records({}).is = "records" /\ Records({}).value.records = {}
  BY Outcomes
<1>2. ReturnOK(Ret(c, Records({})))
  <2> DEFINE x == Ret(c, Records({}))
  <2>1. x.outcome = Records({}) /\ x.method.rpc = "GetLatestWorkflowRun"
    BY RetFields, Zenon
  <2> HIDE DEF x
  <2>2. x.outcome.is = "records" /\ x.outcome.value.records = {}
    BY <1>1, <2>1, Zenon
  <2>3. ReturnOK(x)
    BY <2>1, <2>2, Zenon DEF ReturnOK
  <2> QED
    BY <2>3, Zenon DEF x
<1> QED
  BY <1>1, <1>2, ReturnKeeps, Zenon

(* an error, *)
LEMMA ReturnsError ==
  ASSUME RecordInv, NEW c \in Clients, stage[c] = "answered", NEW o,
         o.is \in {"corrupt", "conflict", "unsupported", "failed"},
         Return(c, o), UNCHANGED <<server, late, revoked, faults>>
  PROVE  RecordInv'
<1>1. o.is \notin {"delivered", "capabilities", "records"}
  BY Zenon
<1>2. ReturnOK(Ret(c, o))
  BY <1>1, Silent
<1> QED
  BY <1>1, <1>2, ReturnKeeps, Zenon

(* or the pointer that agrees with its run. *)
LEMMA ReturnsPointer ==
  ASSUME RecordInv, NEW c \in Clients, stage[c] = "answered", method[c].rpc = "GetLatestWorkflowRun",
         call[c].rpc # "GetLatestWorkflowRun", ClientGetWorkflow(call[c], reply[c]).is = "records",
         ~ \A x \in ClientGetWorkflow(call[c], reply[c]).value.records : StaleLatestPointer(hand[c], x),
         Return(c, Records({hand[c]})), UNCHANGED <<server, late, revoked, faults>>
  PROVE  RecordInv'
<1> DEFINE q == call[c]
           r == reply[c]
           h == hand[c]
           T == truth[c]
           o == AcceptPoint(q, r)
<1>1. q = GetWorkflowRequest(h.key) /\ h \in PointerObject /\ h.key.workflow = method[c].workflow
  <2>1. InFlight(Load.requests, c, method[c], call[c], hand[c])
    BY Current, Zenon
  <2> QED
    BY <2>1, Zenon DEF InFlight
<1>2. q.rpc = "GetWorkflow" /\ q.key = h.key
  <2>1. \A k : GetWorkflowRequest(k).rpc = "GetWorkflow" /\ GetWorkflowRequest(k).key = k
    BY Zenon DEF GetWorkflowRequest
  <2> QED
    BY <1>1, <2>1, Zenon
<1>3. o.is = "records" /\ \E x \in o.value.records : ~ StaleLatestPointer(h, x)
  BY Zenon DEF ClientGetWorkflow
<1>4. PICK x \in o.value.records : ~ StaleLatestPointer(h, x)
  BY <1>3, Zenon
<1>5. /\ r.code = "ok"
      /\ \/ ~ r.body.found /\ o.value.records = {}
         \/ r.body.found /\ ValidateRecord(r.body.record, q.key) /\ o.value.records = {r.body.record}
  BY <1>3, PointAccepted
<1>6. ~ T.garbled => PointTrue(r.body, T)
  <2>1. ReplyOK(q, r, T)
    BY <1>5, Arrived, Zenon
  <2> QED
    BY <1>2, <2>1, Zenon DEF ReplyOK, PointReads
<1> HIDE DEF q, r, T, o
<1>7. x = r.body.record /\ r.body.found /\ x.key = h.key /\ x.status = h.status
  BY <1>2, <1>4, <1>5, Zenon DEF ValidateRecord, StaleLatestPointer
<1>8. ~ T.garbled => T.records = {x}
  BY <1>6, <1>7, Zenon DEF PointTrue
<1>9. h = LatestWorkflowRunPointer(x)
  <2>1. h = [key |-> h.key, status |-> h.status]
    BY <1>1 DEF PointerObject
  <2> QED
    BY <1>7, <2>1, Zenon DEF LatestWorkflowRunPointer
<1> HIDE DEF h
<1>10. ~ T.garbled => h \in {LatestWorkflowRunPointer(y) : y \in T.records}
  BY <1>8, <1>9, Zenon
<1>11. Records({h}).is = "records" /\ Records({h}).value.records = {h}
  BY Outcomes
<1>12. ReturnOK(Ret(c, Records({h})))
  <2> DEFINE y == Ret(c, Records({h}))
  <2>1. y.method = method[c] /\ y.outcome = Records({h}) /\ y.truth = T
    BY RetFields, Zenon DEF T
  <2> HIDE DEF y
  <2>2. y.outcome.is = "records" /\ y.outcome.value.records = {h}
    BY <1>11, <2>1, Zenon
  <2> QED
    BY <1>1, <1>10, <2>1, <2>2, Zenon DEF ReturnOK, y, h
<1> QED
  BY <1>11, <1>12, ReturnKeeps, Zenon DEF h

LEMMA ReceiveLatestKeeps ==
  ASSUME RecordInv, NEW c \in Clients, stage[c] = "answered", method[c].rpc = "GetLatestWorkflowRun",
         ReceiveLatest(c), UNCHANGED <<server, late, revoked, faults>>
  PROVE  RecordInv'
<1> DEFINE r == reply[c]
           p == r.body.record
           o == ClientGetWorkflow(call[c], r)
<1>0. /\ Corrupt.is \in {"corrupt", "conflict", "unsupported", "failed"}
      /\ clientStoreError(r).is \in {"corrupt", "conflict", "unsupported", "failed"}
      /\ o.is \in {"records", "corrupt", "conflict", "unsupported", "failed"}
  BY Outcomes, ErrorOutcome, PointAccepted DEF ClientGetWorkflow
<1>1. CASE Return(c, Corrupt) \/ Return(c, clientStoreError(r)) \/ (o.is # "records" /\ Return(c, o))
  BY <1>0, <1>1, ReturnsError
<1>2. CASE Return(c, Records({}))
  BY <1>2, ReturnsNone
<1>3. CASE /\ call[c].rpc = "GetLatestWorkflowRun" /\ r.code = "ok" /\ ~ (r.body.found # (p # Nil))
           /\ r.body.found /\ ValidateLatestWorkflowRunPointer(p, call[c].workflow)
           /\ Continue(c, GetWorkflowRequest(p.key), p)
  <2>1. r.body \in LatestBody
    BY <1>3, Arrived, Zenon DEF ReplyOK
  <2>2. p # Nil
    BY <1>3, Zenon
  <2>3. p \in PointerObject
    BY <2>1, <2>2 DEF LatestBody
  <2>4. InFlight(Load.requests, c, method[c], call[c], hand[c])
    BY Current, Zenon
  <2>5. GetWorkflowRequest(hand[c].key).rpc # "GetLatestWorkflowRun"
    BY Zenon DEF GetWorkflowRequest
  <2>6. call[c] = method[c]
    BY <1>3, <2>4, <2>5, Zenon DEF InFlight
  <2>7. p.key.workflow = method[c].workflow
    BY <1>3, <2>6, Zenon DEF ValidateLatestWorkflowRunPointer
  <2>8. InFlight(Load.requests, c, method[c], GetWorkflowRequest(p.key), p)
    BY <2>3, <2>4, <2>7, Zenon DEF InFlight
  <2> QED
    BY <1>3, <2>8, ContinueKeeps, Zenon
<1>4. CASE /\ call[c].rpc # "GetLatestWorkflowRun" /\ o.is = "records"
           /\ ~ \A x \in o.value.records : StaleLatestPointer(hand[c], x)
           /\ Return(c, Records({hand[c]}))
  BY <1>4, ReturnsPointer
<1> QED
  BY <1>1, <1>2, <1>3, <1>4, Zenon DEF ReceiveLatest

LEMMA ReceiveSendKeeps ==
  ASSUME RecordInv, NEW c \in Clients, stage[c] = "answered", method[c].rpc = "SendEvent",
         ReceiveSend(c), UNCHANGED <<server, late, revoked, faults>>
  PROVE  RecordInv'
<1> DEFINE o == Accept(call[c], reply[c])
<1>1. InFlight(Load.requests, c, method[c], call[c], hand[c])
  BY Current, Zenon
<1>2. /\ hand[c] = method[c].record
      /\ call[c] \in {GetStoreCapabilitiesRequest, DeliverEventRequest(hand[c])}
  BY <1>1, Zenon DEF InFlight
<1>3. call[c].rpc \in {"GetStoreCapabilities", "DeliverEvent"}
  <2>1. GetStoreCapabilitiesRequest.rpc = "GetStoreCapabilities"
           /\ \A h : DeliverEventRequest(h).rpc = "DeliverEvent"
    BY Zenon DEF GetStoreCapabilitiesRequest, DeliverEventRequest
  <2> QED
    BY <1>2, <2>1
<1>4. o.is # "records"
  <2>1. o.is = "records" => call[c].rpc \in PointReads \cup Listings
    BY Accepted, Zenon
  <2> QED
    BY <1>3, <2>1, Zenon DEF PointReads, Listings, RunListings, Scans, DueReads
<1>5. CASE Return(c, o)
  BY <1>4, <1>5, ReturnsAccepted, Zenon
<1>6. CASE Return(c, Outcome("unsupported", Nil))
  <2>1. Outcome("unsupported", Nil).is \in {"corrupt", "conflict", "unsupported", "failed"}
    BY Outcomes
  <2> QED
    BY <1>6, <2>1, ReturnsError
<1>7. CASE Continue(c, DeliverEventRequest(hand[c]), hand[c])
  <2>1. InFlight(Load.requests, c, method[c], DeliverEventRequest(hand[c]), hand[c])
    BY <1>1, <1>2, Zenon DEF InFlight
  <2> QED
    BY <1>7, <2>1, ContinueKeeps, Zenon
<1> QED
  BY <1>5, <1>6, <1>7, Zenon DEF ReceiveSend

LEMMA ReceiveKeeps ==
  ASSUME RecordInv, NEW c \in Clients, Receive(c)
  PROVE  RecordInv'
<1>1. stage[c] = "answered" /\ UNCHANGED <<server, late, revoked, faults>>
  BY Zenon DEF Receive
<1>2. CASE method[c].rpc = "GetLatestWorkflowRun"
  <2>1. ReceiveLatest(c)
    BY <1>2, Zenon DEF Receive
  <2> QED
    BY <1>1, <1>2, <2>1, ReceiveLatestKeeps, Zenon
<1>3. CASE method[c].rpc = "SendEvent"
  <2>1. ReceiveSend(c)
    BY <1>3, Zenon DEF Receive
  <2> QED
    BY <1>1, <1>3, <2>1, ReceiveSendKeeps, Zenon
<1>4. CASE method[c].rpc \notin {"GetLatestWorkflowRun", "SendEvent"}
  <2>1. Return(c, Accept(call[c], reply[c]))
    BY <1>4, Zenon DEF Receive
  <2>2. InFlight(Load.requests, c, method[c], call[c], hand[c])
    BY <1>1, Current, Zenon
  <2>3. call[c] = method[c]
    BY <1>4, <2>2, Zenon DEF InFlight
  <2> QED
    BY <1>1, <1>4, <2>1, <2>3, ReturnsAccepted, Zenon
<1> QED
  BY <1>2, <1>3, <1>4, Zenon

LEMMA RecordKeeps == RecordInv /\ [Next]_vars => RecordInv'
<1> SUFFICES ASSUME RecordInv, [Next]_vars PROVE RecordInv'
  OBVIOUS
<1>1. CASE UNCHANGED vars
  <2>1. UNCHANGED <<workload, stored, method, call, stage, hand, reply, truth, returned>>
        /\ UNCHANGED <<late, holds, accepted, revoked, faults>>
    BY <1>1, Zenon DEF vars, server, caller, history
  <2>2. Load' = Load
    BY <2>1, Zenon DEF Load
  <2>3. CallsOK'
    BY <2>1, <2>2, Zenon DEF RecordInv, CallsOK
  <2>4. HistoryOK'
    BY <2>1, <2>2, Zenon DEF RecordInv, HistoryOK
  <2> QED
    BY <2>1, <2>2, <2>3, <2>4, Zenon DEF RecordInv
<1>2. CASE Next
  BY <1>2, InvokeKeeps, ServeKeeps, PublishKeeps, DereferenceKeeps, ServeFailsKeeps, GarbleKeeps, GiveUpKeeps,
     ReceiveKeeps, ApplyLateKeeps, Zenon DEF Next
<1> QED
  BY <1>1, <1>2, Zenon

(* An object found in the bucket is of its kind. *)
LEMMA FoundFits ==
  ASSUME NEW d, FoundTyped(d)
  PROVE  \/ d.kind \in Kinds /\ d.object \in Object(d.kind) \cup {Absent, Garbage}
         \/ d.kind = "latest" /\ d.object \in PointerObject \cup {Absent, Garbage}
  BY Zenon DEF FoundTyped, Kinds, Object

LEMMA ClearFits ==
  StoreOK(Clear) /\ \A k \in Keys("claim") : Clear["claim"][k] = Absent
<1>1. /\ DOMAIN Clear = Kinds \cup {"latest"}
      /\ Clear["workflow"] = [k \in Keys("workflow") |-> Absent]
      /\ Clear["activity"] = [k \in Keys("activity") |-> Absent]
      /\ Clear["timer"] = [k \in Keys("timer") |-> Absent]
      /\ Clear["event"] = [k \in Keys("event") |-> Absent]
      /\ Clear["claim"] = [k \in Keys("claim") |-> Absent]
      /\ Clear["latest"] = [w1 \in Workflows |-> Absent]
  BY DEF Clear, Kinds
<1> QED
  BY <1>1, Zenon DEF StoreOK

LEMMA DamageFits ==
  ASSUME NEW d, FoundTyped(d)
  PROVE  /\ StoreOK([Clear EXCEPT ![d.kind][d.key] = d.object])
         /\ d.kind # "claim" => [Clear EXCEPT ![d.kind][d.key] = d.object]["claim"] = Clear["claim"]
<1> DEFINE t == [Clear EXCEPT ![d.kind] = [Clear[d.kind] EXCEPT ![d.key] = d.object]]
<1>1. [Clear EXCEPT ![d.kind][d.key] = d.object] = t
  OBVIOUS
<1>2. /\ DOMAIN Clear = Kinds \cup {"latest"}
      /\ \A kind \in Kinds : Clear[kind] \in [Keys(kind) -> Object(kind) \cup {Absent, Garbage}]
      /\ Clear["latest"] \in [Workflows -> PointerObject \cup {Absent, Garbage}]
      /\ "claim" \in Kinds /\ "latest" \notin Kinds
  BY ClearFits, StoreKinds, Zenon DEF Kinds
<1>3. DOMAIN t = DOMAIN Clear /\ \A j \in DOMAIN Clear :
        t[j] = IF j = d.kind THEN [Clear[d.kind] EXCEPT ![d.key] = d.object] ELSE Clear[j]
  OBVIOUS
<1> HIDE DEF t
<1>4. ASSUME NEW S, NEW V, Clear[d.kind] \in [S -> V], d.object \in V
      PROVE  [Clear[d.kind] EXCEPT ![d.key] = d.object] \in [S -> V]
  BY <1>4
<1>5. CASE d.kind \in Kinds /\ d.object \in Object(d.kind) \cup {Absent, Garbage}
  <2>1. [Clear[d.kind] EXCEPT ![d.key] = d.object] \in [Keys(d.kind) -> Object(d.kind) \cup {Absent, Garbage}]
    BY <1>2, <1>4, <1>5
  <2>2. \A kind \in Kinds : t[kind] \in [Keys(kind) -> Object(kind) \cup {Absent, Garbage}]
    BY <1>2, <1>3, <2>1, Zenon
  <2>3. t["latest"] \in [Workflows -> PointerObject \cup {Absent, Garbage}]
    BY <1>2, <1>3, <1>5, Zenon
  <2>4. StoreOK(t)
    BY <1>2, <1>3, <2>2, <2>3, StoreKinds, Zenon
  <2> QED
    BY <1>1, <1>2, <1>3, <2>4, Zenon
<1>6. CASE d.kind = "latest" /\ d.object \in PointerObject \cup {Absent, Garbage}
  <2>1. [Clear[d.kind] EXCEPT ![d.key] = d.object] \in [Workflows -> PointerObject \cup {Absent, Garbage}]
    BY <1>2, <1>4, <1>6
  <2>2. \A kind \in Kinds : t[kind] \in [Keys(kind) -> Object(kind) \cup {Absent, Garbage}]
    BY <1>2, <1>3, <1>6, Zenon
  <2>3. t["latest"] \in [Workflows -> PointerObject \cup {Absent, Garbage}]
    BY <1>2, <1>3, <1>6, <2>1, Zenon
  <2>4. StoreOK(t)
    BY <1>2, <1>3, <2>2, <2>3, StoreKinds, Zenon
  <2> QED
    BY <1>1, <1>2, <1>3, <1>6, <2>4, Zenon
<1> QED
  BY <1>5, <1>6, FoundFits, Zenon

LEMMA RecordStarts == Init => RecordInv
<1> SUFFICES ASSUME Init PROVE RecordInv
  OBVIOUS
<1>1. workload \in DOMAIN Workloads /\ returned = Nil
  BY Zenon DEF Init
<1>2. StoreOK(stored) /\ ClaimsFit(stored, Load)
  <2>1. CASE stored = Clear
    BY <2>1, ClearFits, Zenon DEF ClaimsFit
  <2>2. ASSUME NEW d \in Load.found, stored = [Clear EXCEPT ![d.kind][d.key] = d.object]
        PROVE  StoreOK(stored) /\ ClaimsFit(stored, Load)
    <3>1. FoundTyped(d) /\ (d.kind = "claim" => Load.claims = "CREATE_ONLY")
      BY <1>1, WorkloadsTyped, Zenon DEF Load
    <3>2. StoreOK(stored) /\ (d.kind # "claim" => stored["claim"] = Clear["claim"])
      BY <2>2, <3>1, DamageFits
    <3> QED
      BY <3>1, <3>2, ClearFits, Zenon DEF ClaimsFit
  <2> QED
    BY <2>1, <2>2, Zenon DEF Init
<1>3. CallsOK
  <2>1. /\ DOMAIN method = Clients /\ DOMAIN call = Clients /\ DOMAIN hand = Clients
        /\ DOMAIN reply = Clients /\ DOMAIN truth = Clients /\ stage \in [Clients -> Stages]
    BY StageNames DEF Init
  <2>2. ASSUME NEW c \in Clients
        PROVE  stage[c] = "idle" /\ reply[c] = Nil /\ truth[c] = NoTruth
    BY Zenon DEF Init
  <2>3. DOMAIN NoTruth = TruthFields
    BY DEF NoTruth, TruthFields
  <2> QED
    BY <2>1, <2>2, <2>3, StageNames, Zenon DEF CallsOK, CallOK
<1>4. HistoryOK
  <2>1. Load.faults \in Nat
    BY <1>1, RequestsTyped, Zenon
  <2>2. faults \in 0..Load.faults
    BY <2>1 DEF Init
  <2> QED
    BY <2>2, Zenon DEF Init, HistoryOK
<1> QED
  BY <1>1, <1>2, <1>3, <1>4, Zenon DEF RecordInv

LEMMA RecordSays ==
  ASSUME RecordInv PROVE ReadsAreTrue
<1>1. /\ Load.claims \in ClaimCapability \cup {"absent"}
      /\ Load.delivery \in EventDeliveryCapability \cup {"absent"}
  BY RequestsTyped, Zenon DEF RecordInv
<1>2. \A kind \in Kinds : Decoded(kind) \subseteq Object(kind)
  <2>1. \A kind \in Kinds : stored[kind] \in [Keys(kind) -> Object(kind) \cup {Absent, Garbage}]
    BY StoreKinds, Zenon DEF RecordInv
  <2> QED
    BY <2>1 DEF Decoded
<1>3. \A kind \in Kinds : \A r \in Object(kind) : r.schema \in RecordSchemaVersion
  BY DEF Kinds, Object, WorkflowObject, ActivityObject, TimerObject, EventObject, ClaimObject
<1>4. /\ \A r \in Object("workflow") : r.status \in WorkflowStatus
      /\ \A r \in Object("activity") : r.status \in ActivityStatus
      /\ \A r \in Object("timer") : r.status \in TimerStatus
  BY DEF Object, WorkflowObject, ActivityObject, TimerObject
<1>5. /\ \A kind \in Kinds : \A r \in Decoded(kind) : r.schema \in RecordSchemaVersion
      /\ \A r \in Decoded("workflow") : r.status \in WorkflowStatus
      /\ \A r \in Decoded("activity") : r.status \in ActivityStatus
      /\ \A r \in Decoded("timer") : r.status \in TimerStatus
  BY <1>2, <1>3, <1>4, Zenon DEF Kinds
<1>6. /\ stage \in [Clients -> {"idle", "sent", "publish", "deref", "confirm", "answered"}]
      /\ \A c \in Clients : reply[c] # Nil /\ reply[c].code = "failed_precondition" =>
           reply[c].body = Nil \/ reply[c].body.reason \in EventDeliveryFailureReason
  BY Zenon DEF RecordInv, CallsOK, CallOK, Refusal, Stages
<1>7. /\ holds \in [Clients -> SUBSET ClaimKey]
      /\ accepted \in [{k \in EventKey : Validate(k)} -> SUBSET Payloads]
      /\ late \subseteq Load.requests \cup {DeliverEventRequest(r) : r \in
                          {q.record : q \in {x \in Load.requests : x.rpc = "SendEvent"}}}
      /\ revoked \in BOOLEAN /\ faults \in 0..Load.faults
  BY KeyFacts, Zenon DEF RecordInv, HistoryOK, Lates, EventKey
<1>8. returned # Nil => ReturnOK(returned)
  BY Zenon DEF RecordInv
<1>9. TypeOK
  BY <1>1, <1>5, <1>6, <1>7, <1>8, Zenon DEF TypeOK, ReturnOK
<1> QED
  BY <1>8, <1>9, Zenon DEF ReadsAreTrue, ReturnOK

-----------------------------------------------------------------------------
(* Deliveries and claims. *)

(* A delivery that succeeded, to be received or received before, is the      *)
(* event that waiters read.                                                  *)
Delivered(q, st, r) == st = "answered" /\ q.rpc = "DeliverEvent" /\ r.code = "ok"

DeliverAt(k) ==
  /\ \A p \in accepted[k] : Committed(stored, k, p)
  /\ \A c \in Clients : Delivered(call[c], stage[c], reply[c]) /\ call[c].record.key = k =>
       Committed(stored, k, call[c].record.payload)

DeliverInv == \A k \in Keys("event") : OnlyDelivered(k) => DeliverAt(k)

(* A claim that was created, to be received or received before, is owned by  *)
(* its creator; one that is being released exists, and nobody else has to    *)
(* do with it.                                                               *)
Creating(q, st, r, k) ==
  st = "answered" /\ q.rpc = "TryCreateClaim" /\ q.record.key = k /\ r.code = "ok" /\ r.body.created

Releasing(q, st, k) == st = "sent" /\ q.rpc = "DeleteClaim" /\ q.key = k

OwnInv ==
  \A c \in Clients :
    /\ \A k \in holds[c] : Owned(stored, k, c)
    /\ \A k \in ClaimKey : Creating(call[c], stage[c], reply[c], k) => Owned(stored, k, c)
    /\ \A k \in Keys("claim") : Releasing(call[c], stage[c], k) =>
         /\ stored["claim"][k] # Absent
         /\ \A d \in Clients :
              /\ k \notin holds[d]
              /\ ~ Creating(call[d], stage[d], reply[d], k)
              /\ d # c => ~ Releasing(call[d], stage[d], k)

(* What a step does to the calls in progress. *)
Turns(c, q, st, r) ==
  /\ call'[c] = q /\ stage'[c] = st /\ reply'[c] = r
  /\ \A d \in Clients \ {c} : call'[d] = call[d] /\ stage'[d] = stage[d] /\ reply'[d] = reply[d]

LEMMA TurnsBy ==
  ASSUME RecordInv, NEW c \in Clients, NEW q, NEW st, NEW r,
         Alters(call, call', c, q), Alters(stage, stage', c, st), Alters(reply, reply', c, r)
  PROVE  Turns(c, q, st, r)
<1>1. DOMAIN call = Clients /\ DOMAIN stage = Clients /\ DOMAIN reply = Clients
  BY DEF RecordInv, CallsOK
<1>2. Sets(call, call', c, q) /\ Sets(stage, stage', c, st) /\ Sets(reply, reply', c, r)
  BY <1>1, SetFacts, Zenon DEF Alters
<1> QED
  BY <1>2, Zenon DEF Turns, Sets

(* A call that neither delivers an event nor creates or releases a claim. *)
Mute(q, st, r) ==
  /\ ~ Delivered(q, st, r)
  /\ \A k : ~ Creating(q, st, r, k) /\ ~ Releasing(q, st, k)

LEMMA MuteCases ==
  ASSUME NEW q, NEW st, NEW r
  PROVE  /\ st \notin {"sent", "answered"} => Mute(q, st, r)
         /\ st = "sent" /\ q.rpc # "DeleteClaim" => Mute(q, st, r)
         /\ st = "answered" /\ r.code # "ok" => Mute(q, st, r)
         /\ st = "answered" /\ q.rpc \notin {"DeliverEvent", "TryCreateClaim"} => Mute(q, st, r)
  BY Zenon DEF Mute, Delivered, Creating, Releasing

QuietTurn(c) == \E q, st, r : Turns(c, q, st, r) /\ Mute(q, st, r)

LEMMA FinishTurns ==
  ASSUME RecordInv, NEW c \in Clients, NEW o, Finish(c, o)
  PROVE  QuietTurn(c)
<1>1. Alters(call, call', c, Idle) /\ Alters(stage, stage', c, "idle") /\ Alters(reply, reply', c, Nil)
  BY Zenon DEF Finish, Alters
<1>2. Turns(c, Idle, "idle", Nil)
  BY <1>1, TurnsBy
<1>3. Mute(Idle, "idle", Nil)
  BY MuteCases
<1> QED
  BY <1>2, <1>3, Zenon DEF QuietTurn

LEMMA ContinueTurns ==
  ASSUME RecordInv, NEW c \in Clients, NEW q, NEW h, Continue(c, q, h), q.rpc # "DeleteClaim"
  PROVE  QuietTurn(c)
<1>1. Alters(call, call', c, q) /\ Alters(stage, stage', c, "sent") /\ Alters(reply, reply', c, Nil)
  BY Zenon DEF Continue, Send, Alters
<1>2. Turns(c, q, "sent", Nil)
  BY <1>1, TurnsBy
<1>3. Mute(q, "sent", Nil)
  BY MuteCases
<1> QED
  BY <1>2, <1>3, Zenon DEF QuietTurn

LEMMA PublishTurns ==
  ASSUME RecordInv, NEW c \in Clients, Publish(c) \/ Dereference(c)
  PROVE  QuietTurn(c)
<1>1. stage[c] # "idle" /\ stage[c] \in {"publish", "deref", "confirm"}
  BY Zenon DEF Publish, Dereference
<1>2. call[c].rpc \in {"PutWorkflow", "GetLatestWorkflowRun"}
  BY <1>1, Current, Zenon DEF CallOK
<1>3. \E r : \E st \in {"confirm", "answered"} :
        Alters(call, call', c, call[c]) /\ Alters(stage, stage', c, st) /\ Alters(reply, reply', c, r)
  BY Zenon DEF Publish, Dereference, Alters
<1>4. PICK r : \E st \in {"confirm", "answered"} :
        Alters(call, call', c, call[c]) /\ Alters(stage, stage', c, st) /\ Alters(reply, reply', c, r)
  BY <1>3, Zenon
<1>5. PICK st \in {"confirm", "answered"} :
        Alters(call, call', c, call[c]) /\ Alters(stage, stage', c, st) /\ Alters(reply, reply', c, r)
  BY <1>4, Zenon
<1>6. Turns(c, call[c], st, r)
  BY <1>5, TurnsBy
<1>7. Mute(call[c], st, r)
  BY <1>2, <1>5, MuteCases
<1> QED
  BY <1>6, <1>7, Zenon DEF QuietTurn

LEMMA FailTurns ==
  ASSUME RecordInv, NEW c \in Clients, ServeFails(c)
  PROVE  QuietTurn(c)
<1> DEFINE r == [code |-> "internal", body |-> Nil]
<1>1. Alters(call, call', c, call[c]) /\ Alters(stage, stage', c, "answered") /\ Alters(reply, reply', c, r)
  BY Zenon DEF ServeFails, Alters
<1>2. r.code # "ok"
  OBVIOUS
<1> HIDE DEF r
<1>3. Turns(c, call[c], "answered", r)
  BY <1>1, TurnsBy
<1>4. Mute(call[c], "answered", r)
  BY <1>2, MuteCases
<1> QED
  BY <1>3, <1>4, Zenon DEF QuietTurn

LEMMA GarbleTurns ==
  ASSUME RecordInv, NEW c \in Clients, Garble(c)
  PROVE  QuietTurn(c)
<1>1. /\ stage[c] = "answered" /\ stage[c] # "idle" /\ reply[c].code = "ok" /\ "found" \in DOMAIN reply[c].body
      /\ \E r : Alters(call, call', c, call[c]) /\ Alters(stage, stage', c, "answered")
         /\ Alters(reply, reply', c, r)
  BY Zenon DEF Garble, Alters
<1>2. PICK r : Alters(call, call', c, call[c]) /\ Alters(stage, stage', c, "answered")
         /\ Alters(reply, reply', c, r)
  BY <1>1, Zenon
<1>3. call[c].rpc \notin {"DeliverEvent", "TryCreateClaim"}
  BY <1>1, Arrived, Zenon DEF ReplyOK
<1>4. Turns(c, call[c], "answered", r)
  BY <1>2, TurnsBy
<1>5. Mute(call[c], "answered", r)
  BY <1>3, MuteCases
<1> QED
  BY <1>4, <1>5, Zenon DEF QuietTurn

(* Receiving makes an answered creation a claim held, and an answered        *)
(* delivery an event accepted.                                               *)
LEMMA ReturnBelieves ==
  ASSUME RecordInv, NEW c \in Clients, stage[c] = "answered", NEW o, Return(c, o),
         o = Accept(call[c], reply[c]) \/ (o.is # "delivered" /\ call[c].rpc # "TryCreateClaim")
  PROVE  /\ QuietTurn(c)
         /\ \A d \in Clients : \A k \in holds'[d] :
              k \in holds[d] \/ (d = c /\ Creating(call[c], stage[c], reply[c], k))
         /\ \A k \in Keys("event") : \A p \in accepted'[k] :
              \/ p \in accepted[k]
              \/ Delivered(call[c], stage[c], reply[c]) /\ call[c].record.key = k /\ call[c].record.payload = p
<1>1. QuietTurn(c)
  BY FinishTurns, Zenon DEF Return
<1>2. /\ o.is = "delivered" => call[c].rpc = "DeliverEvent" /\ reply[c].code = "ok"
      /\ call[c].rpc = "TryCreateClaim" /\ o.is = "done" => reply[c].code = "ok" /\ o.value = reply[c].body
  <2>1. CASE o = Accept(call[c], reply[c])
    BY <2>1, AcceptedChange
  <2>2. CASE o.is # "delivered" /\ call[c].rpc # "TryCreateClaim"
    BY <2>2, Zenon
  <2> QED
    BY <2>1, <2>2, Zenon
<1>3. ASSUME NEW d \in Clients, NEW k \in holds'[d]
      PROVE  k \in holds[d] \/ (d = c /\ Creating(call[c], stage[c], reply[c], k))
  <2>1. holds \in [Clients -> SUBSET ClaimKey]
    BY Zenon DEF RecordInv, HistoryOK
  <2>2. \/ holds' = holds
        \/ /\ call[c].rpc = "TryCreateClaim" /\ o.is = "done" /\ o.value.created
           /\ holds' = [holds EXCEPT ![c] = holds[c] \cup {call[c].record.key}]
    BY Zenon DEF Return
  <2>3. CASE holds' = [holds EXCEPT ![c] = holds[c] \cup {call[c].record.key}]
    BY <1>3, <2>1, <2>2, <2>3, <1>2, Zenon DEF Creating
  <2> QED
    BY <1>3, <2>2, <2>3, Zenon
<1>4. ASSUME NEW k \in Keys("event"), NEW p \in accepted'[k]
      PROVE  \/ p \in accepted[k]
             \/ Delivered(call[c], stage[c], reply[c]) /\ call[c].record.key = k /\ call[c].record.payload = p
  <2>1. accepted \in [Keys("event") -> SUBSET Payloads]
    BY Zenon DEF RecordInv, HistoryOK
  <2>2. \/ accepted' = accepted
        \/ /\ o.is = "delivered"
           /\ accepted' = [accepted EXCEPT ![call[c].record.key] =
                             accepted[call[c].record.key] \cup {call[c].record.payload}]
    BY Zenon DEF Return
  <2>3. o.is = "delivered" => Delivered(call[c], stage[c], reply[c])
    BY <1>2, Zenon DEF Delivered
  <2>4. CASE accepted' = [accepted EXCEPT ![call[c].record.key] =
                             accepted[call[c].record.key] \cup {call[c].record.payload}]
    BY <1>4, <2>1, <2>2, <2>3, <2>4, Zenon
  <2> QED
    BY <1>4, <2>2, <2>4, Zenon
<1> QED
  BY <1>1, <1>3, <1>4, Zenon

Believes(c) ==
  /\ QuietTurn(c)
  /\ \A d \in Clients : \A k \in holds'[d] :
       k \in holds[d] \/ (d = c /\ Creating(call[c], stage[c], reply[c], k))
  /\ \A k \in Keys("event") : \A p \in accepted'[k] :
       \/ p \in accepted[k]
       \/ Delivered(call[c], stage[c], reply[c]) /\ call[c].record.key = k /\ call[c].record.payload = p

LEMMA ReceiveBelieves ==
  ASSUME RecordInv, NEW c \in Clients, Receive(c)
  PROVE  Believes(c)
<1>1. stage[c] = "answered" /\ stage[c] # "idle"
  BY Zenon DEF Receive
<1>2. InFlight(Load.requests, c, method[c], call[c], hand[c])
  BY <1>1, Current, Zenon
<1>3. ASSUME NEW o, Return(c, o),
             o = Accept(call[c], reply[c]) \/ (o.is # "delivered" /\ call[c].rpc # "TryCreateClaim")
      PROVE  Believes(c)
  BY <1>1, <1>3, ReturnBelieves, Zenon DEF Believes
<1>4. ASSUME NEW q, NEW h, Continue(c, q, h), q.rpc # "DeleteClaim"
      PROVE  Believes(c)
  <2>1. QuietTurn(c)
    BY <1>4, ContinueTurns
  <2>2. holds' = holds /\ accepted' = accepted
    BY <1>4, Zenon DEF Continue
  <2> QED
    BY <2>1, <2>2, Zenon DEF Believes
<1>5. CASE method[c].rpc = "GetLatestWorkflowRun"
  <2> DEFINE r == reply[c]
             o == ClientGetWorkflow(call[c], r)
  <2>1. \A k : GetWorkflowRequest(k).rpc = "GetWorkflow"
    BY Zenon DEF GetWorkflowRequest
  <2>2. call[c].rpc # "TryCreateClaim"
    BY <1>2, <1>5, <2>1, Zenon DEF InFlight
  <2>3. clientStoreError(r).is # "delivered" /\ o.is # "delivered" /\ Corrupt.is # "delivered"
        /\ \A S : Records(S).is # "delivered"
    BY Outcomes, ErrorOutcome, PointAccepted DEF ClientGetWorkflow
  <2>4. CASE \E x : Return(c, x) /\ x.is # "delivered"
    BY <1>3, <2>2, <2>4, Zenon
  <2>5. CASE \E k, p : Continue(c, GetWorkflowRequest(k), p)
    BY <1>4, <2>1, <2>5, Zenon
  <2>6. ReceiveLatest(c)
    BY <1>5, Zenon DEF Receive
  <2> QED
    BY <2>3, <2>4, <2>5, <2>6, Zenon DEF ReceiveLatest
<1>6. CASE method[c].rpc = "SendEvent"
  <2> DEFINE o == Accept(call[c], reply[c])
  <2>1. GetStoreCapabilitiesRequest.rpc = "GetStoreCapabilities"
           /\ \A h : DeliverEventRequest(h).rpc = "DeliverEvent"
    BY Zenon DEF GetStoreCapabilitiesRequest, DeliverEventRequest
  <2>2. call[c] \in {GetStoreCapabilitiesRequest, DeliverEventRequest(hand[c])}
    BY <1>2, <1>6, Zenon DEF InFlight
  <2>3. call[c].rpc # "TryCreateClaim"
    BY <2>1, <2>2
  <2>4. Outcome("unsupported", Nil).is # "delivered"
    BY Outcomes
  <2>5. CASE Return(c, o)
    BY <1>3, <2>5, Zenon
  <2>6. CASE Return(c, Outcome("unsupported", Nil))
    BY <1>3, <2>3, <2>4, <2>6, Zenon
  <2>7. CASE Continue(c, DeliverEventRequest(hand[c]), hand[c])
    <3>1. DeliverEventRequest(hand[c]).rpc # "DeleteClaim"
      BY <2>1
    <3> QED
      BY <1>4, <2>7, <3>1, Zenon
  <2>8. ReceiveSend(c)
    BY <1>6, Zenon DEF Receive
  <2> QED
    BY <2>5, <2>6, <2>7, <2>8, Zenon DEF ReceiveSend
<1>7. CASE method[c].rpc \notin {"GetLatestWorkflowRun", "SendEvent"}
  <2>1. Return(c, Accept(call[c], reply[c]))
    BY <1>7, Zenon DEF Receive
  <2> QED
    BY <1>3, <2>1, Zenon
<1> QED
  BY <1>5, <1>6, <1>7, Zenon

(* What a step does to the events and claims of the store: what one request  *)
(* does that is in flight or late, or nothing.                               *)
Asked(q) == q \in Request /\ (q.rpc \in {"PutEvent", "DeleteEvent"} => q \in Load.requests)

LEMMA InFlightAsked ==
  ASSUME RecordInv, NEW c \in Clients, stage[c] # "idle"
  PROVE  Asked(call[c]) /\ (call[c].rpc = "TryCreateClaim" => call[c].record.owner = c)
<1>1. InFlight(Load.requests, c, method[c], call[c], hand[c]) /\ Load.requests \in SUBSET Request
  BY Current
<1>2. Asked(call[c]) /\ (call[c].rpc = "TryCreateClaim" => call[c].record.owner = c)
  <2>1. /\ call[c] \in Request
        /\ call[c].rpc \in {"PutEvent", "DeleteEvent"} => call[c] \in Load.requests
        /\ call[c].rpc = "TryCreateClaim" => call[c].record.owner = c
    BY <1>1, FlightTyped
  <2> QED
    BY <2>1, Zenon DEF Asked
<1> QED
  BY <1>2, Zenon

LEMMA LateAsked ==
  ASSUME RecordInv, NEW q \in late PROVE Asked(q)
<1>1. Load.requests \in SUBSET Request /\ q \in Lates(Load.requests)
  BY RequestsTyped, Zenon DEF RecordInv, HistoryOK
<1> QED
  BY <1>1, LatesTyped DEF Asked

LEMMA PublishLeaves ==
  ASSUME RecordInv, NEW c \in Clients, stage[c] = "publish",
         stored' = PublishPointer(stored, call[c].record).store
  PROVE  stored'["event"] = stored["event"] /\ stored'["claim"] = stored["claim"]
<1>1. call[c].rpc = "PutWorkflow" /\ call[c] \in Request
  BY Current, Zenon DEF CallOK
<1>2. call[c].record \in WorkflowObject
  BY <1>1, RequestFields
<1>3. \A kind \in Kinds : stored'[kind] = stored[kind]
  BY <1>2, PublishEffect, Zenon DEF RecordInv
<1> QED
  BY <1>3, Zenon DEF Kinds

Leaves == stored'["event"] = stored["event"] /\ stored'["claim"] = stored["claim"]

LEMMA StoreSteps ==
  ASSUME RecordInv, NEW c \in Clients
  PROVE  /\ Publish(c) \/ Dereference(c) \/ Garble(c) \/ GiveUp(c) \/ Receive(c) => Leaves
         /\ \A q : Invoke(c, q) => Leaves
         /\ ServeFails(c) => Leaves \/ (stage[c] = "sent" /\ stored' = Route(stored, Load, call[c]).store)
         /\ Serve(c) => stage[c] = "sent" /\ stored' = Route(stored, Load, call[c]).store
<1>1. Dereference(c) \/ Garble(c) \/ GiveUp(c) \/ Receive(c) => Leaves
  BY Zenon DEF Dereference, Garble, GiveUp, Receive, server, Leaves
<1>2. \A q : Invoke(c, q) => Leaves
  BY Zenon DEF Invoke, server, Leaves
<1>3. Publish(c) => Leaves
  BY PublishLeaves, Zenon DEF Publish, Leaves
<1>4. ServeFails(c) => Leaves \/ (stage[c] = "sent" /\ stored' = Route(stored, Load, call[c]).store)
  BY PublishLeaves, Zenon DEF ServeFails, Leaves, Handle
<1>5. Serve(c) => stage[c] = "sent" /\ stored' = Route(stored, Load, call[c]).store
  BY Zenon DEF Serve, Handle
<1> QED
  BY <1>1, <1>2, <1>3, <1>4, <1>5, Zenon

(* A served call: what it has to tell. *)
LEMMA ServeTurns ==
  ASSUME RecordInv, NEW c \in Clients, Serve(c)
  PROVE  \E st \in {"publish", "deref", "answered"} :
           Turns(c, call[c], st, Answer(Route(stored, Load, call[c])))
<1> DEFINE r == Route(stored, Load, call[c])
<1>1. \E st \in {"publish", "deref", "answered"} :
         Alters(call, call', c, call[c]) /\ Alters(stage, stage', c, st) /\ Alters(reply, reply', c, Answer(r))
  BY Zenon DEF Serve, Handle, Alters
<1> HIDE DEF r
<1> QED
  BY <1>1, TurnsBy, Zenon DEF r

-----------------------------------------------------------------------------
(* Delivered once. *)

LEMMA AskedEvent ==
  ASSUME RecordInv, NEW k \in Keys("event"), OnlyDelivered(k), NEW q, Asked(q)
  PROVE  /\ EventKept(stored, Route(stored, Load, q).store, k)
         /\ q.rpc = "DeliverEvent" /\ q.record.key = k /\ Route(stored, Load, q).code = "ok" =>
              Committed(Route(stored, Load, q).store, k, q.record.payload)
<1>1. q \in Request /\ (q.rpc = "PutEvent" => q.record.key # k) /\ (q.rpc = "DeleteEvent" => q.key # k)
  BY Zenon DEF Asked, OnlyDelivered
<1>2. StoreOK(stored)
  BY Zenon DEF RecordInv
<1> QED
  BY <1>1, <1>2, ServedEvent

(* Nothing new is reported, accepted or overwritten. *)
LEMMA DeliverKept ==
  ASSUME NEW k, DeliverAt(k), EventKept(stored, stored', k),
         \A p \in accepted'[k] :
           \/ p \in accepted[k]
           \/ \E c \in Clients : /\ Delivered(call[c], stage[c], reply[c])
                                 /\ call[c].record.key = k /\ call[c].record.payload = p,
         \A c \in Clients : Delivered(call'[c], stage'[c], reply'[c]) =>
           \/ Delivered(call[c], stage[c], reply[c]) /\ call'[c] = call[c]
           \/ call'[c].record.key = k => Committed(stored', k, call'[c].record.payload)
  PROVE  DeliverAt(k)'
<1>1. \A p : Committed(stored, k, p) => Committed(stored', k, p)
  BY CommitKept, Zenon
<1>2. ASSUME NEW p \in accepted'[k] PROVE Committed(stored', k, p)
  BY <1>1, <1>2, Zenon DEF DeliverAt
<1>3. ASSUME NEW c \in Clients, Delivered(call'[c], stage'[c], reply'[c]), call'[c].record.key = k
      PROVE  Committed(stored', k, call'[c].record.payload)
  BY <1>1, <1>3, Zenon DEF DeliverAt
<1> QED
  BY <1>2, <1>3, Zenon DEF DeliverAt

LEMMA QuietKept ==
  ASSUME NEW c \in Clients, QuietTurn(c)
  PROVE  \A d \in Clients : /\ Delivered(call'[d], stage'[d], reply'[d]) =>
                                 Delivered(call[d], stage[d], reply[d]) /\ call'[d] = call[d]
                            /\ \A k : /\ Creating(call'[d], stage'[d], reply'[d], k) =>
                                           Creating(call[d], stage[d], reply[d], k)
                                      /\ Releasing(call'[d], stage'[d], k) =>
                                           d # c /\ Releasing(call[d], stage[d], k)
<1>1. PICK q, st, r : Turns(c, q, st, r) /\ Mute(q, st, r)
  BY Zenon DEF QuietTurn
<1>2. ASSUME NEW d \in Clients, d # c
      PROVE  call'[d] = call[d] /\ stage'[d] = stage[d] /\ reply'[d] = reply[d]
  BY <1>1, <1>2, Zenon DEF Turns
<1>3. Mute(call'[c], stage'[c], reply'[c])
  BY <1>1, Zenon DEF Turns
<1>4. /\ ~ Delivered(call'[c], stage'[c], reply'[c])
      /\ \A k : ~ Creating(call'[c], stage'[c], reply'[c], k) /\ ~ Releasing(call'[c], stage'[c], k)
  BY <1>3, Zenon DEF Mute
<1>5. ASSUME NEW d \in Clients
      PROVE  /\ Delivered(call'[d], stage'[d], reply'[d]) =>
                  Delivered(call[d], stage[d], reply[d]) /\ call'[d] = call[d]
             /\ \A k : /\ Creating(call'[d], stage'[d], reply'[d], k) =>
                            Creating(call[d], stage[d], reply[d], k)
                       /\ Releasing(call'[d], stage'[d], k) =>
                            d # c /\ Releasing(call[d], stage[d], k)
  <2>1. CASE d = c
    BY <1>4, <2>1, Zenon
  <2>2. CASE d # c
    BY <1>2, <2>2, Zenon
  <2> QED
    BY <2>1, <2>2, Zenon
<1> QED
  BY <1>5, Zenon

LEMMA InvokeTurns ==
  ASSUME RecordInv, NEW c \in Clients, NEW q, Invoke(c, q)
  PROVE  \E p : Turns(c, p, "sent", Nil) /\ (p = q \/ p.rpc # "DeleteClaim")
<1>1. \E p : /\ Alters(call, call', c, p) /\ Alters(stage, stage', c, "sent") /\ Alters(reply, reply', c, Nil)
             /\ p \in {q, GetStoreCapabilitiesRequest}
  BY Zenon DEF Invoke, Send, Alters
<1>2. GetStoreCapabilitiesRequest.rpc # "DeleteClaim"
  BY Zenon DEF GetStoreCapabilitiesRequest
<1>3. PICK p : /\ Alters(call, call', c, p) /\ Alters(stage, stage', c, "sent") /\ Alters(reply, reply', c, Nil)
               /\ p \in {q, GetStoreCapabilitiesRequest}
  BY <1>1, Zenon
<1>4. Turns(c, p, "sent", Nil)
  BY <1>3, TurnsBy
<1> QED
  BY <1>2, <1>3, <1>4, Zenon

LEMMA DeliverStep ==
  ASSUME RecordInv, Next, NEW k \in Keys("event"), OnlyDelivered(k), DeliverAt(k)
  PROVE  DeliverAt(k)'
<1>1. Leaves => EventKept(stored, stored', k)
  BY Zenon DEF Leaves, EventKept
<1>2. ASSUME NEW c \in Clients, QuietTurn(c), EventKept(stored, stored', k),
             \A p \in accepted'[k] :
               \/ p \in accepted[k]
               \/ Delivered(call[c], stage[c], reply[c]) /\ call[c].record.key = k /\ call[c].record.payload = p
      PROVE  DeliverAt(k)'
  <2>1. \A d \in Clients : Delivered(call'[d], stage'[d], reply'[d]) =>
                             Delivered(call[d], stage[d], reply[d]) /\ call'[d] = call[d]
    BY <1>2, QuietKept, Zenon
  <2>2. \A p \in accepted'[k] :
           \/ p \in accepted[k]
           \/ \E d \in Clients : /\ Delivered(call[d], stage[d], reply[d])
                                 /\ call[d].record.key = k /\ call[d].record.payload = p
    BY <1>2, Zenon
  <2> QED
    BY <1>2, <2>1, <2>2, DeliverKept, Zenon
<1>3. ASSUME NEW c \in Clients, Publish(c) \/ Dereference(c) \/ Garble(c) \/ GiveUp(c) \/ ServeFails(c)
      PROVE  DeliverAt(k)'
  <2>1. QuietTurn(c)
    BY <1>3, PublishTurns, GarbleTurns, FailTurns, FinishTurns, Zenon DEF GiveUp
  <2>2. accepted' = accepted
    BY <1>3, Zenon DEF Publish, Dereference, Garble, GiveUp, ServeFails, history
  <2>3. EventKept(stored, stored', k)
    <3>1. Leaves \/ (stage[c] = "sent" /\ stored' = Route(stored, Load, call[c]).store)
      BY <1>3, StoreSteps, Zenon
    <3>2. stage[c] = "sent" => Asked(call[c])
      BY InFlightAsked, Zenon
    <3> QED
      BY <1>1, <3>1, <3>2, AskedEvent, Zenon
  <2> QED
    BY <1>2, <2>1, <2>2, <2>3, Zenon
<1>4. ASSUME NEW c \in Clients, Receive(c) PROVE DeliverAt(k)'
  <2>1. Believes(c)
    BY <1>4, ReceiveBelieves
  <2>2. EventKept(stored, stored', k)
    BY <1>1, <1>4, StoreSteps, Zenon
  <2> QED
    BY <1>2, <2>1, <2>2, Zenon DEF Believes
<1>5. ASSUME NEW c \in Clients, Serve(c) PROVE DeliverAt(k)'
  <2> DEFINE r == Route(stored, Load, call[c])
  <2>1. stage[c] = "sent" /\ stored' = r.store /\ accepted' = accepted
    BY <1>5, StoreSteps, Zenon DEF Serve, history
  <2>2. Asked(call[c])
    BY <2>1, InFlightAsked, Zenon
  <2>3. /\ EventKept(stored, r.store, k)
        /\ call[c].rpc = "DeliverEvent" /\ call[c].record.key = k /\ r.code = "ok" =>
             Committed(r.store, k, call[c].record.payload)
    BY <2>2, AskedEvent
  <2>4. PICK st \in {"publish", "deref", "answered"} : Turns(c, call[c], st, Answer(r))
    BY <1>5, ServeTurns
  <2>5. Answer(r).code = r.code
    BY Zenon DEF Answer
  <2> HIDE DEF r
  <2>6. ASSUME NEW d \in Clients, Delivered(call'[d], stage'[d], reply'[d])
        PROVE  \/ Delivered(call[d], stage[d], reply[d]) /\ call'[d] = call[d]
               \/ call'[d].record.key = k => Committed(stored', k, call'[d].record.payload)
    <3>1. CASE d = c
      <4>1. call'[d] = call[c] /\ call[c].rpc = "DeliverEvent" /\ r.code = "ok"
        BY <2>4, <2>5, <2>6, <3>1, Zenon DEF Turns, Delivered
      <4> QED
        BY <2>1, <2>3, <4>1, Zenon
    <3>2. CASE d # c
      BY <2>4, <2>6, <3>2, Zenon DEF Turns
    <3> QED
      BY <3>1, <3>2, Zenon
  <2> QED
    BY <2>1, <2>3, <2>6, DeliverKept, Zenon
<1>6. ASSUME NEW c \in Clients, NEW q, Invoke(c, q) PROVE DeliverAt(k)'
  <2>1. accepted' = accepted /\ EventKept(stored, stored', k)
    BY <1>1, <1>6, StoreSteps, Zenon DEF Invoke
  <2>2. PICK p : Turns(c, p, "sent", Nil)
    BY <1>6, InvokeTurns, Zenon
  <2>3. ASSUME NEW d \in Clients, Delivered(call'[d], stage'[d], reply'[d])
        PROVE  Delivered(call[d], stage[d], reply[d]) /\ call'[d] = call[d]
    <3>1. d # c
      BY <2>2, <2>3, Zenon DEF Turns, Delivered
    <3> QED
      BY <2>2, <2>3, <3>1, Zenon DEF Turns
  <2> QED
    BY <2>1, <2>3, DeliverKept, Zenon
<1>7. ASSUME NEW q \in late, ApplyLate(q) PROVE DeliverAt(k)'
  <2>1. UNCHANGED <<call, stage, reply, accepted>> /\ stored' = Route(stored, Load, q).store
    BY <1>7, Zenon DEF ApplyLate, caller, Handle
  <2>2. EventKept(stored, stored', k)
    BY <2>1, LateAsked, AskedEvent, Zenon
  <2> QED
    BY <2>1, <2>2, DeliverKept, Zenon
<1> QED
  BY <1>3, <1>4, <1>5, <1>6, <1>7, Zenon DEF Next

(* The workload never changes, and a revocation stays. *)
Framed == workload' = workload /\ (revoked => revoked')

LEMMA StepFrame ==
  ASSUME [Next]_vars PROVE Framed
<1>1. ASSUME NEW c \in Clients, NEW q, Invoke(c, q) PROVE Framed
  BY <1>1, Zenon DEF Framed, Invoke, server, history
<1>2. ASSUME NEW c \in Clients, Serve(c) PROVE Framed
  BY <1>2, Zenon DEF Framed, Serve, history
<1>3. ASSUME NEW c \in Clients, Publish(c) PROVE Framed
  BY <1>3, Zenon DEF Framed, Publish, history
<1>4. ASSUME NEW c \in Clients, Dereference(c) PROVE Framed
  BY <1>4, Zenon DEF Framed, Dereference, server, history
<1>5. ASSUME NEW c \in Clients, ServeFails(c) PROVE Framed
  BY <1>5, Zenon DEF Framed, ServeFails, history
<1>6. ASSUME NEW c \in Clients, Garble(c) PROVE Framed
  BY <1>6, Zenon DEF Framed, Garble, server, history
<1>7. ASSUME NEW c \in Clients, GiveUp(c) PROVE Framed
  BY <1>7, Zenon DEF Framed, GiveUp, server, history
<1>8. ASSUME NEW c \in Clients, Receive(c) PROVE Framed
  BY <1>8, Zenon DEF Framed, Receive, server
<1>9. ASSUME NEW q, ApplyLate(q) PROVE Framed
  BY <1>9, Zenon DEF Framed, ApplyLate
<1>10. CASE UNCHANGED vars
  BY <1>10, Zenon DEF Framed, vars, server, history
<1> QED
  BY <1>1, <1>2, <1>3, <1>4, <1>5, <1>6, <1>7, <1>8, <1>9, <1>10, Zenon DEF Next

LEMMA DeliverKeeps == RecordInv /\ DeliverInv /\ [Next]_vars => DeliverInv'
<1> SUFFICES ASSUME RecordInv, DeliverInv, [Next]_vars, NEW k \in Keys("event"), OnlyDelivered(k)'
             PROVE  DeliverAt(k)'
  BY Zenon DEF DeliverInv
<1>1. workload' = workload
  BY StepFrame, Zenon DEF Framed
<1>2. OnlyDelivered(k)
  BY <1>1, Zenon DEF OnlyDelivered, Load
<1>3. DeliverAt(k)
  BY <1>2, Zenon DEF DeliverInv
<1>4. CASE UNCHANGED vars
  <2>1. UNCHANGED <<stored, call, stage, reply, accepted>>
    BY <1>4, Zenon DEF vars, server, caller, history
  <2> QED
    BY <1>3, <2>1, Zenon DEF DeliverAt
<1>5. CASE Next
  BY <1>2, <1>3, <1>5, DeliverStep, Zenon
<1> QED
  BY <1>4, <1>5, Zenon

LEMMA DeliverStarts == Init => DeliverInv
<1> SUFFICES ASSUME Init, NEW k \in Keys("event") PROVE DeliverAt(k)
  BY Zenon DEF DeliverInv
<1>1. accepted[k] = {} /\ \A c \in Clients : stage[c] = "idle"
  BY Zenon DEF Init
<1> QED
  BY <1>1, Zenon DEF DeliverAt, Delivered

LEMMA DeliverSays == DeliverInv => DeliveredOnce
<1> SUFFICES ASSUME DeliverInv, NEW k \in Keys("event"), OnlyDelivered(k), NEW p \in accepted[k]
             PROVE  Exists(stored, "event", k) /\ stored.event[k].payload = p
  BY Zenon DEF DeliveredOnce
<1>1. stored["event"][k] # Absent /\ stored["event"][k].payload = p
  BY Zenon DEF DeliverInv, DeliverAt, Committed
<1> QED
  BY <1>1, Zenon DEF Exists

-----------------------------------------------------------------------------
(* Held once. *)

(* Claims appear, become known and are no longer released. *)
LEMMA OwnGrows ==
  ASSUME RecordInv, OwnInv, Grows(stored, stored'),
         \A d \in Clients : \A k \in holds'[d] :
           k \in holds[d] \/ (k \in ClaimKey /\ Creating(call[d], stage[d], reply[d], k)),
         \A d \in Clients : \A k \in ClaimKey : Creating(call'[d], stage'[d], reply'[d], k) =>
           \/ Creating(call[d], stage[d], reply[d], k)
           \/ Owned(stored', k, d) /\ stored["claim"][k] = Absent,
         \A d \in Clients : \A k \in ClaimKey : Releasing(call'[d], stage'[d], k)
              => Releasing(call[d], stage[d], k)
  PROVE  OwnInv'
<1>0. \A k \in Keys("claim") : k \in ClaimKey
  BY KeyFacts DEF ClaimKey
<1>1. \A k, d : Owned(stored, k, d) => Owned(stored', k, d)
  BY OwnedKept, Zenon
<1>2. ASSUME NEW d \in Clients, NEW k \in holds'[d] PROVE Owned(stored', k, d)
  BY <1>1, <1>2, Zenon DEF OwnInv
<1>3. ASSUME NEW d \in Clients, NEW k \in ClaimKey, Creating(call'[d], stage'[d], reply'[d], k)
      PROVE  Owned(stored', k, d)
  BY <1>1, <1>3, Zenon DEF OwnInv
<1>4. ASSUME NEW d \in Clients, NEW k \in Keys("claim"), Releasing(call'[d], stage'[d], k)
      PROVE  /\ stored'["claim"][k] # Absent
             /\ \A e \in Clients :
                  /\ k \notin holds'[e]
                  /\ ~ Creating(call'[e], stage'[e], reply'[e], k)
                  /\ e # d => ~ Releasing(call'[e], stage'[e], k)
  <2>1. Releasing(call[d], stage[d], k) /\ k \in ClaimKey
    BY <1>0, <1>4, Zenon
  <2>2. /\ stored["claim"][k] # Absent
        /\ \A e \in Clients :
             /\ k \notin holds[e]
             /\ ~ Creating(call[e], stage[e], reply[e], k)
             /\ e # d => ~ Releasing(call[e], stage[e], k)
    BY <2>1, Zenon DEF OwnInv
  <2>3. stored'["claim"][k] # Absent
    BY <2>2, Zenon DEF Grows
  <2> QED
    BY <2>1, <2>2, <2>3, Zenon
<1> QED
  BY <1>2, <1>3, <1>4, Zenon DEF OwnInv

(* The claim that c releases is gone. *)
LEMMA OwnRemoves ==
  ASSUME OwnInv, NEW c \in Clients, NEW j \in Keys("claim"), Releasing(call[c], stage[c], j),
         \A k \in Keys("claim") \ {j} : stored'["claim"][k] = stored["claim"][k], holds' = holds,
         \A d \in Clients : \A k : /\ Creating(call'[d], stage'[d], reply'[d], k) =>
                                        Creating(call[d], stage[d], reply[d], k)
                                   /\ Releasing(call'[d], stage'[d], k)
                                        => d # c /\ Releasing(call[d], stage[d], k)
  PROVE  OwnInv'
<1>1. \A d \in Clients : /\ j \notin holds[d]
                         /\ ~ Creating(call[d], stage[d], reply[d], j)
                         /\ d # c => ~ Releasing(call[d], stage[d], j)
  BY Zenon DEF OwnInv
<1>2. \A k, d : k # j /\ Owned(stored, k, d) => Owned(stored', k, d)
  BY Zenon DEF Owned
<1>3. ASSUME NEW d \in Clients, NEW k \in holds'[d] PROVE Owned(stored', k, d)
  <2>1. k \in holds[d] /\ k # j
    BY <1>1, <1>3, Zenon
  <2>2. Owned(stored, k, d)
    BY <2>1, Zenon DEF OwnInv
  <2> QED
    BY <1>2, <2>1, <2>2, Zenon
<1>4. ASSUME NEW d \in Clients, NEW k \in ClaimKey, Creating(call'[d], stage'[d], reply'[d], k)
      PROVE  Owned(stored', k, d)
  <2>1. Creating(call[d], stage[d], reply[d], k)
    BY <1>4, Zenon
  <2>2. k # j
    BY <1>1, <2>1, Zenon
  <2>3. Owned(stored, k, d)
    BY <2>1, Zenon DEF OwnInv
  <2> QED
    BY <1>2, <2>2, <2>3, Zenon
<1>5. ASSUME NEW d \in Clients, NEW k \in Keys("claim"), Releasing(call'[d], stage'[d], k)
      PROVE  /\ stored'["claim"][k] # Absent
             /\ \A e \in Clients :
                  /\ k \notin holds'[e]
                  /\ ~ Creating(call'[e], stage'[e], reply'[e], k)
                  /\ e # d => ~ Releasing(call'[e], stage'[e], k)
  <2>1. Releasing(call[d], stage[d], k) /\ k # j
    BY <1>1, <1>5, Zenon
  <2>2. /\ stored["claim"][k] # Absent
        /\ \A e \in Clients :
             /\ k \notin holds[e]
             /\ ~ Creating(call[e], stage[e], reply[e], k)
             /\ e # d => ~ Releasing(call[e], stage[e], k)
    BY <2>1, Zenon DEF OwnInv
  <2> QED
    BY <2>1, <2>2, Zenon
<1> QED
  BY <1>3, <1>4, <1>5, Zenon DEF OwnInv

(* The client c begins to release j, which it gives up. *)
LEMMA OwnReleases ==
  ASSUME OwnInv, NEW c \in Clients, NEW j, stored' = stored,
         \A d \in Clients : \A k \in holds'[d] : k \in holds[d] /\ (d = c => k # j),
         j \in holds[c] \/ (/\ Exists(stored, "claim", j)
                            /\ \A d \in Clients : j \notin holds[d] /\ ~ Busy(d, j)),
         \A k : ~ Creating(call'[c], stage'[c], reply'[c], k) /\ (Releasing(call'[c], stage'[c], k) => k = j),
         \A d \in Clients \ {c} : call'[d] = call[d] /\ stage'[d] = stage[d] /\ reply'[d] = reply[d]
  PROVE  OwnInv'
<1>1. ASSUME NEW d \in Clients, NEW k \in holds'[d] PROVE Owned(stored', k, d)
  BY <1>1, Zenon DEF OwnInv
<1>2. ASSUME NEW d \in Clients, NEW k \in ClaimKey, Creating(call'[d], stage'[d], reply'[d], k)
      PROVE  Owned(stored', k, d)
  BY <1>2, Zenon DEF OwnInv
<1>3. ASSUME j \in Keys("claim"), j \in ClaimKey
      PROVE  /\ stored["claim"][j] # Absent
             /\ \A d \in Clients \ {c} : /\ j \notin holds[d] /\ ~ Creating(call[d], stage[d], reply[d], j)
                                         /\ ~ Releasing(call[d], stage[d], j)
  <2>1. CASE j \in holds[c]
    <3>1. Owned(stored, j, c)
      BY <2>1, Zenon DEF OwnInv
    <3>2. stored["claim"][j] # Absent /\ \A d \in Clients \ {c} : ~ Owned(stored, j, d)
      BY <3>1, OneOwner, Zenon
    <3> QED
      BY <1>3, <2>1, <3>2, Zenon DEF OwnInv
  <2>2. CASE Exists(stored, "claim", j) /\ \A d \in Clients : j \notin holds[d] /\ ~ Busy(d, j)
    BY <2>2, Zenon DEF Exists, Busy, Creating, Releasing
  <2> QED
    BY <2>1, <2>2, Zenon
<1>4. ASSUME NEW d \in Clients, NEW k \in Keys("claim"), k \in ClaimKey, Releasing(call'[d], stage'[d], k)
      PROVE  /\ stored'["claim"][k] # Absent
             /\ \A e \in Clients :
                  /\ k \notin holds'[e]
                  /\ ~ Creating(call'[e], stage'[e], reply'[e], k)
                  /\ e # d => ~ Releasing(call'[e], stage'[e], k)
  <2>1. CASE d = c
    <3>1. k = j
      BY <1>4, <2>1, Zenon
    <3>2. /\ stored["claim"][k] # Absent
          /\ \A e \in Clients \ {c} : /\ k \notin holds[e] /\ ~ Creating(call[e], stage[e], reply[e], k)
                                      /\ ~ Releasing(call[e], stage[e], k)
      BY <1>3, <1>4, <3>1, Zenon
    <3> QED
      BY <2>1, <3>1, <3>2, Zenon
  <2>2. CASE d # c
    <3>1. Releasing(call[d], stage[d], k)
      BY <1>4, <2>2, Zenon
    <3>2. k # j
      BY <1>3, <1>4, <2>2, <3>1, Zenon
    <3>3. /\ stored["claim"][k] # Absent
          /\ \A e \in Clients :
               /\ k \notin holds[e]
               /\ ~ Creating(call[e], stage[e], reply[e], k)
               /\ e # d => ~ Releasing(call[e], stage[e], k)
      BY <3>1, Zenon DEF OwnInv
    <3>4. ASSUME NEW e \in Clients
          PROVE  /\ ~ Creating(call'[e], stage'[e], reply'[e], k)
                 /\ e # d => ~ Releasing(call'[e], stage'[e], k)
      <4>1. CASE e = c
        BY <3>2, <4>1, Zenon
      <4>2. CASE e # c
        BY <3>3, <4>2, Zenon
      <4> QED
        BY <4>1, <4>2, Zenon
    <3> QED
      BY <3>3, <3>4, Zenon
  <2> QED
    BY <2>1, <2>2, Zenon
<1>5. \A k \in Keys("claim") : k \in ClaimKey
  BY KeyFacts DEF ClaimKey
<1> QED
  BY <1>1, <1>2, <1>4, <1>5, Zenon DEF OwnInv

LEMMA OwnQuiet ==
  ASSUME RecordInv, OwnInv, NEW c \in Clients, QuietTurn(c), Grows(stored, stored'),
         \A d \in Clients : \A k \in holds'[d] :
           k \in holds[d] \/ (d = c /\ Creating(call[c], stage[c], reply[c], k)),
         holds' \in [Clients -> SUBSET ClaimKey]
  PROVE  OwnInv'
<1>1. \A d \in Clients : \A k : /\ Creating(call'[d], stage'[d], reply'[d], k)
                                     => Creating(call[d], stage[d], reply[d], k)
                                /\ Releasing(call'[d], stage'[d], k) => Releasing(call[d], stage[d], k)
  BY QuietKept, Zenon
<1>2. \A d \in Clients : \A k \in holds'[d] :
           k \in holds[d] \/ (k \in ClaimKey /\ Creating(call[d], stage[d], reply[d], k))
  BY Zenon
<1> QED
  BY <1>1, <1>2, OwnGrows, Zenon

LEMMA OwnStep ==
  ASSUME RecordInv, RecordInv', Next, OwnInv, ~ revoked'
  PROVE  OwnInv'
<1>1. Leaves => Grows(stored, stored')
  BY Zenon DEF Leaves, Grows
<1>2. holds' \in [Clients -> SUBSET ClaimKey] /\ StoreOK(stored)
  BY Zenon DEF RecordInv, HistoryOK
<1>3. ASSUME NEW c \in Clients, Publish(c) \/ Dereference(c) \/ Garble(c) \/ GiveUp(c) PROVE OwnInv'
  <2>1. QuietTurn(c)
    BY <1>3, PublishTurns, GarbleTurns, FinishTurns, Zenon DEF GiveUp
  <2>2. holds' = holds
    BY <1>3, Zenon DEF Publish, Dereference, Garble, GiveUp, history
  <2>3. Grows(stored, stored')
    BY <1>1, <1>3, StoreSteps, Zenon
  <2> QED
    BY <1>2, <2>1, <2>2, <2>3, OwnQuiet, Zenon
<1>4. ASSUME NEW c \in Clients, Receive(c) PROVE OwnInv'
  <2>1. Believes(c)
    BY <1>4, ReceiveBelieves
  <2>2. Grows(stored, stored')
    BY <1>1, <1>4, StoreSteps, Zenon
  <2> QED
    BY <1>2, <2>1, <2>2, OwnQuiet, Zenon DEF Believes
<1>5. ASSUME NEW c \in Clients, ServeFails(c) PROVE OwnInv'
  <2>1. QuietTurn(c)
    BY <1>5, FailTurns
  <2>2. holds' = holds
    BY <1>5, Zenon DEF ServeFails
  <2>3. Leaves \/ (stage[c] = "sent" /\ stored' = Route(stored, Load, call[c]).store)
    BY <1>5, StoreSteps, Zenon
  <2>4. CASE Grows(stored, stored')
    BY <1>2, <2>1, <2>2, <2>4, OwnQuiet, Zenon
  <2>5. CASE stage[c] = "sent" /\ stored' = Route(stored, Load, call[c]).store /\ ~ Grows(stored, stored')
    <3>1. call[c] \in Request
      BY <2>5, Current, Zenon
    <3>2. Claims(stored, stored', call[c])
      BY <1>2, <2>5, <3>1, ServedClaim, Zenon
    <3>3. /\ call[c].rpc = "DeleteClaim" /\ call[c].key \in Keys("claim")
          /\ \A k \in Keys("claim") \ {call[c].key} : stored'["claim"][k] = stored["claim"][k]
      BY <2>5, <3>2, Zenon DEF Claims
    <3>4. Releasing(call[c], stage[c], call[c].key)
      BY <2>5, <3>3, Zenon DEF Releasing
    <3> QED
      BY <2>1, <2>2, <3>3, <3>4, QuietKept, OwnRemoves, Zenon
  <2> QED
    BY <1>1, <2>3, <2>4, <2>5, Zenon
<1>6. ASSUME NEW c \in Clients, Serve(c) PROVE OwnInv'
  <2> DEFINE q == call[c]
             r == Route(stored, Load, q)
  <2>1. stage[c] = "sent" /\ stored' = r.store /\ holds' = holds
    BY <1>6, StoreSteps, Zenon DEF Serve, history
  <2>2. q \in Request
    BY <2>1, Current, Zenon
  <2>3. q.rpc = "TryCreateClaim" => q.record.owner = c
    BY <2>1, InFlightAsked, Zenon
  <2>4. /\ Claims(stored, r.store, q)
        /\ q.rpc = "TryCreateClaim" /\ r.code = "ok" /\ r.body.created =>
             stored["claim"][q.record.key] = Absent /\ Owned(r.store, q.record.key, q.record.owner)
    BY <1>2, <2>2, ServedClaim, Zenon
  <2>5. PICK st \in {"publish", "deref", "answered"} : Turns(c, q, st, Answer(r))
    BY <1>6, ServeTurns
  <2>6. Answer(r).code = r.code /\ Answer(r).body = r.body
    BY Zenon DEF Answer
  <2> HIDE DEF q, r
  <2>7. ASSUME NEW k, Creating(call'[c], stage'[c], reply'[c], k)
        PROVE  q.rpc = "TryCreateClaim" /\ Owned(stored', k, c) /\ stored["claim"][k] = Absent
    <3>1. call'[c] = q /\ reply'[c] = Answer(r)
      BY <2>5, Zenon DEF Turns
    <3>2. q.rpc = "TryCreateClaim" /\ q.record.key = k /\ r.code = "ok" /\ r.body.created
      BY <2>6, <2>7, <3>1, Zenon DEF Creating
    <3> QED
      BY <2>1, <2>3, <2>4, <3>2, Zenon
  <2>8. \A k : ~ Releasing(call'[c], stage'[c], k)
    BY <2>5, Zenon DEF Turns, Releasing
  <2>9. \A d \in Clients \ {c} : call'[d] = call[d] /\ stage'[d] = stage[d] /\ reply'[d] = reply[d]
    BY <2>5, Zenon DEF Turns
  <2>10. ASSUME NEW d \in Clients, NEW k
         PROVE  /\ Releasing(call'[d], stage'[d], k) => d # c /\ Releasing(call[d], stage[d], k)
                /\ Creating(call'[d], stage'[d], reply'[d], k) =>
                     \/ Creating(call[d], stage[d], reply[d], k)
                     \/ q.rpc = "TryCreateClaim" /\ Owned(stored', k, d) /\ stored["claim"][k] = Absent
    <3>1. CASE d = c
      BY <2>7, <2>8, <3>1, Zenon
    <3>2. CASE d # c
      BY <2>9, <3>2, Zenon
    <3> QED
      BY <3>1, <3>2, Zenon
  <2>11. CASE Grows(stored, r.store)
    <3>1. Grows(stored, stored')
      BY <2>1, <2>11, Zenon
    <3> QED
      BY <2>1, <2>10, <3>1, OwnGrows, Zenon
  <2>12. CASE /\ q.rpc = "DeleteClaim" /\ q.key \in Keys("claim")
              /\ \A k \in Keys("claim") \ {q.key} : r.store["claim"][k] = stored["claim"][k]
    <3>1. Releasing(call[c], stage[c], q.key)
      BY <2>1, <2>12, Zenon DEF Releasing, q
    <3>2. q.rpc # "TryCreateClaim"
      BY <2>12
    <3> QED
      BY <2>1, <2>10, <2>12, <3>1, <3>2, OwnRemoves, Zenon
  <2> QED
    BY <2>4, <2>11, <2>12, Zenon DEF Claims
<1>7. ASSUME NEW c \in Clients, NEW q, Invoke(c, q) PROVE OwnInv'
  <2>1. stored' = stored
    BY <1>7, Zenon DEF Invoke, server
  <2>2. PICK p : Turns(c, p, "sent", Nil) /\ (p = q \/ p.rpc # "DeleteClaim")
    BY <1>7, InvokeTurns
  <2>3. \A k : ~ Creating(call'[c], stage'[c], reply'[c], k)
    BY <2>2, Zenon DEF Turns, Creating
  <2>4. CASE q.rpc = "DeleteClaim"
    <3> DEFINE j == q.key
    <3>1. j \in holds[c] \/ (/\ Exists(stored, "claim", j)
                             /\ \A d \in Clients : j \notin holds[d] /\ ~ Busy(d, j))
      BY <1>7, <2>4, Zenon DEF Invoke, MayRequest
    <3>2. holds' = [holds EXCEPT ![c] = holds[c] \ {j}] /\ holds \in [Clients -> SUBSET ClaimKey]
      BY <1>7, <2>4, Zenon DEF Invoke, RecordInv, HistoryOK
    <3>3. p = q => p.key = j
      BY Zenon
    <3> HIDE DEF j
    <3>4. \A d \in Clients : \A k \in holds'[d] : k \in holds[d] /\ (d = c => k # j)
      BY <3>2, Zenon
    <3>5. \A k : ~ Creating(call'[c], stage'[c], reply'[c], k) /\ (Releasing(call'[c], stage'[c], k) => k = j)
      <4>1. call'[c] = p /\ stage'[c] = "sent"
        BY <2>2, Zenon DEF Turns
      <4>2. \A k : Releasing(call'[c], stage'[c], k) => p.rpc = "DeleteClaim" /\ p.key = k
        BY <4>1, Zenon DEF Releasing
      <4> QED
        BY <2>2, <2>3, <3>3, <4>2
    <3>6. \A d \in Clients \ {c} : call'[d] = call[d] /\ stage'[d] = stage[d] /\ reply'[d] = reply[d]
      BY <2>2, Zenon DEF Turns
    <3> QED
      BY <2>1, <3>1, <3>4, <3>5, <3>6, OwnReleases
  <2>5. CASE q.rpc # "DeleteClaim"
    <3>1. holds' = holds
      BY <1>7, <2>5, Zenon DEF Invoke
    <3>2. p.rpc # "DeleteClaim"
      BY <2>2, <2>5, Zenon
    <3>3. QuietTurn(c)
      BY <2>2, <3>2, MuteCases DEF QuietTurn
    <3>4. Grows(stored, stored')
      BY <2>1, Zenon DEF Grows
    <3> QED
      BY <1>2, <3>1, <3>3, <3>4, OwnQuiet, Zenon
  <2> QED
    BY <2>4, <2>5, Zenon
<1>8. ASSUME NEW q \in late, ApplyLate(q) PROVE OwnInv'
  <2>1. UNCHANGED <<call, stage, reply, holds>> /\ stored' = Route(stored, Load, q).store
    BY <1>8, Zenon DEF ApplyLate, caller, Handle
  <2>2. ~ (q.rpc = "DeleteClaim" /\ stored["claim"][q.key] # Absent)
    BY <1>8, Zenon DEF ApplyLate, Exists
  <2>3. q \in Request
    BY LateAsked, Zenon DEF Asked
  <2>4. Grows(stored, stored')
    <3>1. Claims(stored, stored', q)
      BY <1>2, <2>1, <2>3, ServedClaim, Zenon
    <3> QED
      BY <2>2, <3>1, Zenon DEF Claims
  <2> QED
    BY <2>1, <2>4, OwnGrows, Zenon
<1> QED
  BY <1>3, <1>4, <1>5, <1>6, <1>7, <1>8, Zenon DEF Next

ClaimInv == ~ revoked => OwnInv

LEMMA ClaimKeeps == RecordInv /\ RecordInv' /\ ClaimInv /\ [Next]_vars => ClaimInv'
<1> SUFFICES ASSUME RecordInv, RecordInv', ClaimInv, [Next]_vars, ~ revoked' PROVE OwnInv'
  BY Zenon DEF ClaimInv
<1>1. CASE UNCHANGED vars
  <2>1. UNCHANGED <<stored, call, stage, reply, holds, revoked>>
    BY <1>1, Zenon DEF vars, server, caller, history
  <2> QED
    BY <2>1, Zenon DEF ClaimInv, OwnInv
<1>2. CASE Next
  <2>1. revoked => revoked'
    BY StepFrame, Zenon DEF Framed
  <2> QED
    BY <1>2, <2>1, OwnStep, Zenon DEF ClaimInv
<1> QED
  BY <1>1, <1>2, Zenon

LEMMA ClaimStarts == Init => ClaimInv
<1> SUFFICES ASSUME Init PROVE OwnInv
  BY Zenon DEF ClaimInv
<1>1. \A c \in Clients : holds[c] = {} /\ stage[c] = "idle"
  BY Zenon DEF Init
<1> QED
  BY <1>1, Zenon DEF OwnInv, Creating, Releasing

-----------------------------------------------------------------------------
(* The theorems. *)

LEMMA RecordInvariant == Spec => []RecordInv
  BY RecordStarts, RecordKeeps, PTL DEF Spec

(* What a read returns is what the store held when the read was served, for  *)
(* any clients, requests, damage, losses and late writes: ClientStore of     *)
(* adapters/go/connectstore/client.go over its handler.                      *)
THEOREM ReadsTellTheTruth == Spec => []ReadsAreTrue
  BY RecordInvariant, RecordSays, PTL

(* All deliveries of an event that report success carry the payload that     *)
(* waiters read, for any senders, retries and late requests: DeliverEvent of *)
(* adapters/go/connectstore and SendEvent of the runtime.                    *)
THEOREM DeliveriesAgree == Spec => []DeliveredOnce
  BY RecordInvariant, DeliverStarts, DeliverKeeps, DeliverSays, PTL DEF Spec

(* A client that believes it holds a claim is its owner, so that no two      *)
(* hold it, unless an abandoned release was applied late: TryCreateClaim and *)
(* DeleteClaim of adapters/go/connectstore over adapters/go/gocdkclaims.     *)
THEOREM ClaimsExclude == Spec => []ClaimHeldOnce
<1>1. ClaimInv => ClaimHeldOnce
  BY Zenon DEF ClaimInv, OwnInv, Owned, ClaimHeldOnce
<1> QED
  BY <1>1, RecordInvariant, ClaimStarts, ClaimKeeps, PTL DEF Spec
=============================================================================
