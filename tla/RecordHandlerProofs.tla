------------------------- MODULE RecordHandlerProofs ------------------------
(***************************************************************************)
(* The record service, for any clients, keys, records, requests, damage    *)
(* and losses: what one request does.  The first part is about the         *)
(* operators: what the handler does to the objects of the bucket, what it  *)
(* answers, and what the client makes of an answer.  The second part       *)
(* states RecordInv, the invariant that what is in flight belongs to its   *)
(* method and that an answer under way says what the objects said when it  *)
(* was served, and shows that the steps which call, serve, publish,        *)
(* dereference, fail and garble keep it.                                   *)
(***************************************************************************)
EXTENDS RecordService, TLAPS

-----------------------------------------------------------------------------
(* The record server and its client. *)

(* The objects of a bucket, each of its type. *)
StoreOK(s) ==
  /\ DOMAIN s = Kinds \cup {"latest"}
  /\ s["workflow"] \in [Keys("workflow") -> WorkflowObject \cup {Absent, Garbage}]
  /\ s["activity"] \in [Keys("activity") -> ActivityObject \cup {Absent, Garbage}]
  /\ s["timer"] \in [Keys("timer") -> TimerObject \cup {Absent, Garbage}]
  /\ s["event"] \in [Keys("event") -> EventObject \cup {Absent, Garbage}]
  /\ s["claim"] \in [Keys("claim") -> ClaimObject \cup {Absent, Garbage}]
  /\ s["latest"] \in [Workflows -> PointerObject \cup {Absent, Garbage}]

Object(kind) ==
  CASE kind = "workflow" -> WorkflowObject
    [] kind = "activity" -> ActivityObject
    [] kind = "timer" -> TimerObject
    [] kind = "event" -> EventObject
    [] kind = "claim" -> ClaimObject

(* The keys and objects of each kind, and that nothing that decodes is one   *)
(* of the special values.                                                    *)
LEMMA KeyFacts ==
  /\ Keys("workflow") = {k \in WorkflowKey : Validate(k)}
  /\ Keys("activity") = {k \in ActivityKey : Validate(k)}
  /\ Keys("timer") = {k \in ActivityKey : Validate(k)}
  /\ Keys("event") = {k \in ActivityKey : Validate(k)}
  /\ Keys("claim") = {k \in ActivityKey : Validate(k)}
  BY Zenon DEF Keys, TimerKey, EventKey, ClaimKey

LEMMA Special ==
  /\ Absent # Garbage /\ Nil # Absent /\ Nil # Garbage
  /\ \A kind \in Kinds : \A r \in Object(kind) : r \notin {Absent, Garbage, Nil}
  /\ \A r \in PointerObject : r \notin {Absent, Garbage, Nil}
<1>1. Absent # Garbage /\ Nil # Absent /\ Nil # Garbage
  BY DEF Absent, Garbage, Nil
<1>2. \A r \in PointerObject : r \notin {Absent, Garbage, Nil}
  BY DEF Absent, Garbage, Nil, PointerObject
<1>3. \A kind \in Kinds : \A r \in Object(kind) : DOMAIN r # {"absent"} /\ DOMAIN r # {"garbage"}
         /\ DOMAIN r # {"nil"}
  BY DEF Kinds, Object, WorkflowObject, ActivityObject, TimerObject, EventObject, ClaimObject
<1> QED
  BY <1>1, <1>2, <1>3 DEF Absent, Garbage, Nil

LEMMA StoreKinds ==
  ASSUME NEW s
  PROVE  StoreOK(s) <=>
           /\ DOMAIN s = Kinds \cup {"latest"}
           /\ \A kind \in Kinds : s[kind] \in [Keys(kind) -> Object(kind) \cup {Absent, Garbage}]
           /\ s["latest"] \in [Workflows -> PointerObject \cup {Absent, Garbage}]
  BY Zenon DEF StoreOK, Kinds, Object

(* What a point write and a point deletion do. *)
LEMMA WriteEffect ==
  ASSUME NEW s, StoreOK(s), NEW kind \in Kinds, NEW r \in Object(kind)
  PROVE  /\ StoreOK(Write(s, kind, r))
         /\ \A j \in (Kinds \cup {"latest"}) \ {kind} : Write(s, kind, r)[j] = s[j]
         /\ \A k \in Keys(kind) : Write(s, kind, r)[kind][k] = IF k = r.key THEN r ELSE s[kind][k]
<1> DEFINE w == Write(s, kind, r)
<1>1. /\ DOMAIN s = Kinds \cup {"latest"} /\ kind # "latest"
      /\ \A j \in Kinds : s[j] \in [Keys(j) -> Object(j) \cup {Absent, Garbage}]
      /\ s["latest"] \in [Workflows -> PointerObject \cup {Absent, Garbage}]
  BY StoreKinds, Zenon DEF Kinds
<1>2. w = [s EXCEPT ![kind] = [s[kind] EXCEPT ![r.key] = r]]
  BY DEF Write
<1>3. DOMAIN w = DOMAIN s /\ \A j \in DOMAIN s : w[j] = IF j = kind THEN [s[kind] EXCEPT ![r.key] = r] ELSE s[j]
  BY <1>2
<1>4. [s[kind] EXCEPT ![r.key] = r] \in [Keys(kind) -> Object(kind) \cup {Absent, Garbage}]
  BY <1>1, Zenon
<1>5. \A k \in Keys(kind) : [s[kind] EXCEPT ![r.key] = r][k] = IF k = r.key THEN r ELSE s[kind][k]
  BY <1>1
<1>6. w["latest"] = s["latest"] /\ \A j \in Kinds : w[j] \in [Keys(j) -> Object(j) \cup {Absent, Garbage}]
  BY <1>1, <1>3, <1>4, Zenon
<1>7. StoreOK(w)
  BY <1>1, <1>3, <1>6, StoreKinds, Zenon
<1> HIDE DEF w
<1> QED
  BY <1>1, <1>3, <1>5, <1>7 DEF w

LEMMA RemoveEffect ==
  ASSUME NEW s, StoreOK(s), NEW kind \in Kinds, NEW k
  PROVE  /\ StoreOK(Remove(s, kind, k))
         /\ \A j \in (Kinds \cup {"latest"}) \ {kind} : Remove(s, kind, k)[j] = s[j]
         /\ \A x \in Keys(kind) : Remove(s, kind, k)[kind][x] = IF x = k THEN Absent ELSE s[kind][x]
<1> DEFINE w == Remove(s, kind, k)
<1>1. /\ DOMAIN s = Kinds \cup {"latest"} /\ kind # "latest"
      /\ \A j \in Kinds : s[j] \in [Keys(j) -> Object(j) \cup {Absent, Garbage}]
      /\ s["latest"] \in [Workflows -> PointerObject \cup {Absent, Garbage}]
  BY StoreKinds, Zenon DEF Kinds
<1>2. w = [s EXCEPT ![kind] = [s[kind] EXCEPT ![k] = Absent]]
  BY DEF Remove
<1>3. DOMAIN w = DOMAIN s /\ \A j \in DOMAIN s : w[j] = IF j = kind THEN [s[kind] EXCEPT ![k] = Absent] ELSE s[j]
  BY <1>2
<1>4. [s[kind] EXCEPT ![k] = Absent] \in [Keys(kind) -> Object(kind) \cup {Absent, Garbage}]
  BY <1>1, Zenon
<1>5. \A x \in Keys(kind) : [s[kind] EXCEPT ![k] = Absent][x] = IF x = k THEN Absent ELSE s[kind][x]
  BY <1>1
<1>6. w["latest"] = s["latest"] /\ \A j \in Kinds : w[j] \in [Keys(j) -> Object(j) \cup {Absent, Garbage}]
  BY <1>1, <1>3, <1>4, Zenon
<1>7. StoreOK(w)
  BY <1>1, <1>3, <1>6, StoreKinds, Zenon
<1> HIDE DEF w
<1> QED
  BY <1>1, <1>3, <1>5, <1>7 DEF w

(* The fields of a request, by its procedure. *)
LEMMA RequestFields ==
  ASSUME NEW q \in Request
  PROVE  /\ q.rpc \in {"GetWorkflow", "DeleteWorkflow", "ListActivities", "ListEvents", "ListClaims"} =>
              q.key \in WorkflowKey /\ DOMAIN q = {"rpc", "key"}
         /\ q.rpc \in {"GetActivity", "DeleteActivity", "GetTimer", "DeleteTimer", "GetEvent", "DeleteEvent",
                        "GetClaim", "DeleteClaim"} => q.key \in ActivityKey /\ DOMAIN q = {"rpc", "key"}
         /\ q.rpc = "ListTimers" => q.key \in WorkflowKey /\ DOMAIN q = {"rpc", "key", "status"}
         /\ q.rpc = "PutWorkflow" => q.record \in WorkflowObject
         /\ q.rpc = "PutActivity" => q.record \in ActivityObject
         /\ q.rpc = "PutTimer" => q.record \in TimerObject
         /\ q.rpc \in {"PutEvent", "DeliverEvent", "SendEvent"} => q.record \in EventObject
         /\ q.rpc = "TryCreateClaim" => q.record \in ClaimObject
         /\ q.rpc = "GetLatestWorkflowRun" => q.workflow \in Workflows
         /\ q.rpc = "ListWorkflows" => DOMAIN q = {"rpc", "workflow", "status"}
         /\ q.rpc = "QueryActivities" => DOMAIN q = {"rpc", "workflow", "run", "status"}
  BY Zenon DEF Request

(* The router. *)
LEMMA PutRoutes ==
  ASSUME NEW s, NEW v, NEW q
  PROVE  /\ q.rpc = "PutWorkflow" => Route(s, v, q) = PutWorkflow(s, q)
         /\ q.rpc = "PutActivity" => Route(s, v, q) = PutActivity(s, q)
         /\ q.rpc = "PutTimer" => Route(s, v, q) = PutTimer(s, q)
         /\ q.rpc = "PutEvent" => Route(s, v, q) = PutEvent(s, q)
         /\ q.rpc = "DeliverEvent" => Route(s, v, q) = DeliverEvent(s, v, q)
         /\ q.rpc = "TryCreateClaim" => Route(s, v, q) = TryCreateClaim(s, v, q)
  BY Zenon DEF Route, QueryRoute

LEMMA DeleteRoutes ==
  ASSUME NEW s, NEW v, NEW q
  PROVE  /\ q.rpc = "DeleteWorkflow" => Route(s, v, q) = DeleteWorkflow(s, q)
         /\ q.rpc = "DeleteActivity" => Route(s, v, q) = DeleteActivity(s, q)
         /\ q.rpc = "DeleteTimer" => Route(s, v, q) = DeleteTimer(s, q)
         /\ q.rpc = "DeleteEvent" => Route(s, v, q) = DeleteEvent(s, q)
         /\ q.rpc = "DeleteClaim" => Route(s, v, q) = DeleteClaim(s, v, q)
  BY Zenon DEF Route, QueryRoute

LEMMA GetRoutes ==
  ASSUME NEW s, NEW v, NEW q
  PROVE  /\ q.rpc = "GetWorkflow" => Route(s, v, q) = GetWorkflow(s, q)
         /\ q.rpc = "GetActivity" => Route(s, v, q) = GetActivity(s, q)
         /\ q.rpc = "GetTimer" => Route(s, v, q) = GetTimer(s, q)
         /\ q.rpc = "GetEvent" => Route(s, v, q) = GetEvent(s, q)
         /\ q.rpc = "GetClaim" => Route(s, v, q) = GetClaim(s, v, q)
         /\ q.rpc = "GetLatestWorkflowRun" => Route(s, v, q) = GetLatestWorkflowRun(s, q)
  BY Zenon DEF Route, QueryRoute

LEMMA ListRoutes ==
  ASSUME NEW s, NEW v, NEW q
  PROVE  /\ q.rpc = "ListActivities" => Route(s, v, q) = ListActivities(s, q)
         /\ q.rpc = "ListTimers" => Route(s, v, q) = ListTimers(s, q)
         /\ q.rpc = "ListEvents" => Route(s, v, q) = ListEvents(s, q)
         /\ q.rpc = "ListClaims" => Route(s, v, q) = ListClaims(s, v, q)
         /\ q.rpc = "ListWorkflows" => Route(s, v, q) = ListWorkflows(s, q)
         /\ q.rpc = "QueryActivities" => Route(s, v, q) = QueryActivities(s, q)
  BY Zenon DEF Route, QueryRoute

LEMMA OtherRoutes ==
  ASSUME NEW s, NEW v, NEW q
  PROVE  /\ q.rpc = "DueTimers" => Route(s, v, q) = DueTimers(s, q)
         /\ q.rpc = "QueryDueTimers" => Route(s, v, q) = QueryDueTimers(s, q)
         /\ q.rpc = "GetStoreCapabilities" => Route(s, v, q) = GetStoreCapabilities(s, v)
         /\ q.rpc \in {"SendEvent", "AcquireExecution"} => Route(s, v, q) = Unimplemented(s)
  BY Zenon DEF Route, QueryRoute

(* The requests that write a kind of object, and those that delete one. *)
Writes(kind) ==
  CASE kind = "workflow" -> {"PutWorkflow"}
    [] kind = "activity" -> {"PutActivity"}
    [] kind = "timer" -> {"PutTimer"}
    [] kind = "event" -> {"PutEvent", "DeliverEvent"}
    [] kind = "claim" -> {"TryCreateClaim"}

Deletes(kind) ==
  CASE kind = "workflow" -> {"DeleteWorkflow"}
    [] kind = "activity" -> {"DeleteActivity"}
    [] kind = "timer" -> {"DeleteTimer"}
    [] kind = "event" -> {"DeleteEvent"}
    [] kind = "claim" -> {"DeleteClaim"}

(* What the handler of a request leaves in the bucket. *)
Effect(s, q, t) ==
  \/ t = s
  \/ \E kind \in Kinds : q.rpc \in Writes(kind) /\ q.record \in Object(kind) /\ t = Write(s, kind, q.record)
  \/ \E kind \in Kinds : q.rpc \in Deletes(kind) /\ t = Remove(s, kind, q.key)

(* A failure without a detail. *)
Plain(r) == r.code = "ok" \/ r.body = Nil

LEMMA ReadsKeep ==
  ASSUME NEW s, NEW v, NEW q \in Request, q.rpc \notin Mutations
  PROVE  Route(s, v, q).store = s /\ Plain(Route(s, v, q))
<1>1. GetWorkflow(s, q).store = s /\ Plain(GetWorkflow(s, q))
  BY Zenon DEF GetWorkflow, GetPoint, Ok, Error, dataLossError, Plain
<1>2. GetActivity(s, q).store = s /\ Plain(GetActivity(s, q))
  BY Zenon DEF GetActivity, GetPoint, Ok, Error, dataLossError, Plain
<1>3. GetTimer(s, q).store = s /\ Plain(GetTimer(s, q))
  BY Zenon DEF GetTimer, GetPoint, Ok, Error, dataLossError, Plain
<1>4. GetEvent(s, q).store = s /\ Plain(GetEvent(s, q))
  BY Zenon DEF GetEvent, GetPoint, Ok, Error, dataLossError, Plain
<1>5. GetClaim(s, v, q).store = s /\ Plain(GetClaim(s, v, q))
  BY Zenon DEF GetClaim, GetPoint, Ok, Error, dataLossError, Plain
<1>6. ListActivities(s, q).store = s /\ Plain(ListActivities(s, q))
  BY Zenon DEF ListActivities, ListRun, Ok, Error, dataLossError, Plain
<1>7. ListTimers(s, q).store = s /\ Plain(ListTimers(s, q))
  BY Zenon DEF ListTimers, ListRun, Ok, Error, dataLossError, Plain
<1>8. ListEvents(s, q).store = s /\ Plain(ListEvents(s, q))
  BY Zenon DEF ListEvents, ListRun, Ok, Error, dataLossError, Plain
<1>9. ListClaims(s, v, q).store = s /\ Plain(ListClaims(s, v, q))
  BY Zenon DEF ListClaims, ListRun, Ok, Error, dataLossError, Plain
<1>10. DueTimers(s, q).store = s /\ Plain(DueTimers(s, q))
  BY Zenon DEF DueTimers, DueScan, Ok, Error, dataLossError, Plain
<1>11. QueryDueTimers(s, q).store = s /\ Plain(QueryDueTimers(s, q))
  BY Zenon DEF QueryDueTimers, DueScan, Ok, Error, dataLossError, Plain
<1>12. ListWorkflows(s, q).store = s /\ Plain(ListWorkflows(s, q))
  BY Zenon DEF ListWorkflows, Scan, Ok, Error, dataLossError, Plain
<1>13. QueryActivities(s, q).store = s /\ Plain(QueryActivities(s, q))
  BY Zenon DEF QueryActivities, Scan, ListRun, Ok, Error, dataLossError, Plain
<1>14. GetLatestWorkflowRun(s, q).store = s /\ Plain(GetLatestWorkflowRun(s, q))
  BY Zenon DEF GetLatestWorkflowRun, Ok, Error, dataLossError, Plain
<1>15. GetStoreCapabilities(s, v).store = s /\ Plain(GetStoreCapabilities(s, v))
  BY Zenon DEF GetStoreCapabilities, Ok, Error, dataLossError, Plain
<1>16. Unimplemented(s).store = s /\ Plain(Unimplemented(s))
  BY Zenon DEF Unimplemented, Error, Plain
<1>17. q.rpc \in {"GetWorkflow", "GetActivity", "GetTimer", "GetEvent", "GetClaim", "ListActivities",
                  "ListTimers", "ListEvents", "ListClaims", "DueTimers", "QueryDueTimers",
                  "ListWorkflows", "QueryActivities", "GetLatestWorkflowRun", "GetStoreCapabilities",
                  "SendEvent", "AcquireExecution"}
  BY Zenon DEF Request, Mutations
<1> QED
  BY <1>1, <1>2, <1>3, <1>4, <1>5, <1>6, <1>7, <1>8, <1>9, <1>10, <1>11, <1>12, <1>13, <1>14, <1>15, <1>16,
     <1>17, GetRoutes, ListRoutes, OtherRoutes

LEMMA RouteEffect ==
  ASSUME NEW s, NEW v, NEW q \in Request
  PROVE  Effect(s, q, Route(s, v, q).store)
<1>1. CASE q.rpc \notin Mutations
  BY <1>1, ReadsKeep, Zenon DEF Effect
<1>2. CASE q.rpc = "PutWorkflow"
  <2>1. PutWorkflow(s, q).store \in {s, Write(s, "workflow", q.record)}
    BY Zenon DEF PutWorkflow, PutPoint, Ok, Error
  <2>2. Route(s, v, q) = PutWorkflow(s, q) /\ q.record \in WorkflowObject
    BY <1>2, PutRoutes, RequestFields
  <2>3. q.rpc \in Writes("workflow") /\ q.record \in Object("workflow") /\ "workflow" \in Kinds
    BY <1>2, <2>2, Zenon DEF Writes, Object, Kinds
  <2> QED
    BY <2>1, <2>2, <2>3, Zenon DEF Effect
<1>3. CASE q.rpc = "PutActivity"
  <2>1. PutActivity(s, q).store \in {s, Write(s, "activity", q.record)}
    BY Zenon DEF PutActivity, PutPoint, Ok, Error
  <2>2. Route(s, v, q) = PutActivity(s, q) /\ q.record \in ActivityObject
    BY <1>3, PutRoutes, RequestFields
  <2>3. q.rpc \in Writes("activity") /\ q.record \in Object("activity") /\ "activity" \in Kinds
    BY <1>3, <2>2, Zenon DEF Writes, Object, Kinds
  <2> QED
    BY <2>1, <2>2, <2>3, Zenon DEF Effect
<1>4. CASE q.rpc = "PutTimer"
  <2>1. PutTimer(s, q).store \in {s, Write(s, "timer", q.record)}
    BY Zenon DEF PutTimer, PutPoint, Ok, Error
  <2>2. Route(s, v, q) = PutTimer(s, q) /\ q.record \in TimerObject
    BY <1>4, PutRoutes, RequestFields
  <2>3. q.rpc \in Writes("timer") /\ q.record \in Object("timer") /\ "timer" \in Kinds
    BY <1>4, <2>2, Zenon DEF Writes, Object, Kinds
  <2> QED
    BY <2>1, <2>2, <2>3, Zenon DEF Effect
<1>5. CASE q.rpc = "PutEvent"
  <2>1. PutEvent(s, q).store \in {s, Write(s, "event", q.record)}
    BY Zenon DEF PutEvent, PutPoint, Ok, Error
  <2>2. Route(s, v, q) = PutEvent(s, q) /\ q.record \in EventObject
    BY <1>5, PutRoutes, RequestFields
  <2>3. q.rpc \in Writes("event") /\ q.record \in Object("event") /\ "event" \in Kinds
    BY <1>5, <2>2, Zenon DEF Writes, Object, Kinds
  <2> QED
    BY <2>1, <2>2, <2>3, Zenon DEF Effect
<1>6. CASE q.rpc = "DeliverEvent"
  <2>1. DeliverEvent(s, v, q).store \in {s, Write(s, "event", q.record)}
    BY Zenon DEF DeliverEvent, CreateOnce, Ok, Error, Refused, dataLossError
  <2>2. Route(s, v, q) = DeliverEvent(s, v, q) /\ q.record \in EventObject
    BY <1>6, PutRoutes, RequestFields
  <2>3. q.rpc \in Writes("event") /\ q.record \in Object("event") /\ "event" \in Kinds
    BY <1>6, <2>2, Zenon DEF Writes, Object, Kinds
  <2> QED
    BY <2>1, <2>2, <2>3, Zenon DEF Effect
<1>7. CASE q.rpc = "TryCreateClaim"
  <2>1. TryCreateClaim(s, v, q).store \in {s, Write(s, "claim", q.record)}
    BY Zenon DEF TryCreateClaim, TryCreate, Ok, Error
  <2>2. Route(s, v, q) = TryCreateClaim(s, v, q) /\ q.record \in ClaimObject
    BY <1>7, PutRoutes, RequestFields
  <2>3. q.rpc \in Writes("claim") /\ q.record \in Object("claim") /\ "claim" \in Kinds
    BY <1>7, <2>2, Zenon DEF Writes, Object, Kinds
  <2> QED
    BY <2>1, <2>2, <2>3, Zenon DEF Effect
<1>8. CASE q.rpc = "DeleteWorkflow"
  <2>1. DeleteWorkflow(s, q).store \in {s, Remove(s, "workflow", q.key)}
    BY Zenon DEF DeleteWorkflow, DeletePoint, Ok, Error
  <2>2. Route(s, v, q) = DeleteWorkflow(s, q)
    BY <1>8, DeleteRoutes
  <2>3. q.rpc \in Deletes("workflow") /\ "workflow" \in Kinds
    BY <1>8, Zenon DEF Deletes, Kinds
  <2> QED
    BY <2>1, <2>2, <2>3, Zenon DEF Effect
<1>9. CASE q.rpc = "DeleteActivity"
  <2>1. DeleteActivity(s, q).store \in {s, Remove(s, "activity", q.key)}
    BY Zenon DEF DeleteActivity, DeletePoint, Ok, Error
  <2>2. Route(s, v, q) = DeleteActivity(s, q)
    BY <1>9, DeleteRoutes
  <2>3. q.rpc \in Deletes("activity") /\ "activity" \in Kinds
    BY <1>9, Zenon DEF Deletes, Kinds
  <2> QED
    BY <2>1, <2>2, <2>3, Zenon DEF Effect
<1>10. CASE q.rpc = "DeleteTimer"
  <2>1. DeleteTimer(s, q).store \in {s, Remove(s, "timer", q.key)}
    BY Zenon DEF DeleteTimer, DeletePoint, Ok, Error
  <2>2. Route(s, v, q) = DeleteTimer(s, q)
    BY <1>10, DeleteRoutes
  <2>3. q.rpc \in Deletes("timer") /\ "timer" \in Kinds
    BY <1>10, Zenon DEF Deletes, Kinds
  <2> QED
    BY <2>1, <2>2, <2>3, Zenon DEF Effect
<1>11. CASE q.rpc = "DeleteEvent"
  <2>1. DeleteEvent(s, q).store \in {s, Remove(s, "event", q.key)}
    BY Zenon DEF DeleteEvent, DeletePoint, Ok, Error
  <2>2. Route(s, v, q) = DeleteEvent(s, q)
    BY <1>11, DeleteRoutes
  <2>3. q.rpc \in Deletes("event") /\ "event" \in Kinds
    BY <1>11, Zenon DEF Deletes, Kinds
  <2> QED
    BY <2>1, <2>2, <2>3, Zenon DEF Effect
<1>12. CASE q.rpc = "DeleteClaim"
  <2>1. DeleteClaim(s, v, q).store \in {s, Remove(s, "claim", q.key)}
    BY Zenon DEF DeleteClaim, DeletePoint, Ok, Error
  <2>2. Route(s, v, q) = DeleteClaim(s, v, q)
    BY <1>12, DeleteRoutes
  <2>3. q.rpc \in Deletes("claim") /\ "claim" \in Kinds
    BY <1>12, Zenon DEF Deletes, Kinds
  <2> QED
    BY <2>1, <2>2, <2>3, Zenon DEF Effect
<1> QED
  BY <1>1, <1>2, <1>3, <1>4, <1>5, <1>6, <1>7, <1>8, <1>9, <1>10, <1>11, <1>12, Zenon DEF Mutations

(* It keeps the types, and only the requests about a kind touch it. *)
LEMMA EffectKeeps ==
  ASSUME NEW s, StoreOK(s), NEW q, NEW t, Effect(s, q, t)
  PROVE  /\ StoreOK(t)
         /\ q.rpc \notin {"PutEvent", "DeliverEvent", "DeleteEvent"} => t["event"] = s["event"]
         /\ q.rpc \notin {"TryCreateClaim", "DeleteClaim"} => t["claim"] = s["claim"]
         /\ t["latest"] = s["latest"]
<1>1. CASE t = s
  BY <1>1, Zenon
<1>2. CASE \E kind \in Kinds : q.rpc \in Writes(kind) /\ q.record \in Object(kind) /\ t = Write(s, kind, q.record)
  <2>1. PICK kind \in Kinds : q.rpc \in Writes(kind) /\ q.record \in Object(kind) /\ t = Write(s, kind, q.record)
    BY <1>2, Zenon
  <2>2. (kind = "event" => q.rpc \in {"PutEvent", "DeliverEvent"}) /\ (kind = "claim" => q.rpc = "TryCreateClaim")
    BY <2>1 DEF Writes
  <2>3. \A j \in (Kinds \cup {"latest"}) \ {kind} : t[j] = s[j]
    BY <2>1, WriteEffect
  <2> QED
    BY <2>1, <2>2, <2>3, WriteEffect, Zenon DEF Kinds
<1>3. CASE \E kind \in Kinds : q.rpc \in Deletes(kind) /\ t = Remove(s, kind, q.key)
  <2>1. PICK kind \in Kinds : q.rpc \in Deletes(kind) /\ t = Remove(s, kind, q.key)
    BY <1>3, Zenon
  <2>2. (kind = "event" => q.rpc = "DeleteEvent") /\ (kind = "claim" => q.rpc = "DeleteClaim")
    BY <2>1 DEF Deletes
  <2>3. \A j \in (Kinds \cup {"latest"}) \ {kind} : t[j] = s[j]
    BY <2>1, RemoveEffect
  <2> QED
    BY <2>1, <2>2, <2>3, RemoveEffect, Zenon DEF Kinds
<1> QED
  BY <1>1, <1>2, <1>3, Zenon DEF Effect

-----------------------------------------------------------------------------
(* What the answers to reads say. *)

PointReads == {"GetWorkflow", "GetActivity", "GetTimer", "GetEvent", "GetClaim"}
RunListings == {"ListActivities", "ListTimers", "ListEvents", "ListClaims"}
Scans == {"ListWorkflows", "QueryActivities"}
DueReads == {"DueTimers", "QueryDueTimers"}
Listings == RunListings \cup Scans \cup DueReads

TruthFields == {"garbled", "sound", "records"}

(* The valid ones of the objects K that q wants. *)
Chosen(s, kind, K, q) ==
  [garbled |-> FALSE, sound |-> {k \in K : ValidateRecord(s[kind][k], k)} = K,
   records |-> {s[kind][k] : k \in {j \in {k \in K : ValidateRecord(s[kind][k], k)} :
                                      "status" \in DOMAIN q => q.status \in {"UNSPECIFIED", s[kind][j].status}}}]

LEMMA KindsOfReads ==
  ASSUME NEW q
  PROVE  /\ q.rpc \in {"GetWorkflow", "ListWorkflows"} => KindOf(q) = "workflow"
         /\ q.rpc \in {"GetActivity", "ListActivities", "QueryActivities"} => KindOf(q) = "activity"
         /\ q.rpc \in {"GetTimer", "ListTimers"} => KindOf(q) = "timer"
         /\ q.rpc \in {"GetEvent", "ListEvents"} => KindOf(q) = "event"
         /\ q.rpc \in {"GetClaim", "ListClaims"} => KindOf(q) = "claim"
         /\ q.rpc \in DueReads => KindOf(q) = "none"
  BY DEF KindOf, DueReads

LEMMA TruthOfRead ==
  ASSUME NEW s, NEW q, KindOf(q) # "none"
  PROVE  /\ q.rpc \in PointReads => Truth(s, q) = Chosen(s, KindOf(q), {q.key} \cap Stored(s, KindOf(q)), q)
         /\ q.rpc \in RunListings =>
              Truth(s, q) = Chosen(s, KindOf(q), {k \in Stored(s, KindOf(q)) : RunOf(k) = q.key}, q)
         /\ q.rpc \in Scans =>
              Truth(s, q) = Chosen(s, KindOf(q), {k \in Stored(s, KindOf(q)) :
                                                    /\ q.workflow \in {"", k.workflow}
                                                    /\ q.rpc = "QueryActivities" => q.run \in {"", k.run}}, q)
<1>1. Truth(s, q) = Wanted(s, q)
  BY Zenon DEF Truth
<1>2. CASE q.rpc \in PointReads
  <2>1. Wanted(s, q) = Chosen(s, KindOf(q), {q.key} \cap Stored(s, KindOf(q)), q)
    BY <1>2, Zenon DEF Wanted, Chosen, PointReads
  <2> QED
    BY <1>1, <1>2, <2>1, Zenon DEF PointReads, RunListings, Scans
<1>3. CASE q.rpc \in RunListings
  <2>1. Wanted(s, q) = Chosen(s, KindOf(q), {k \in Stored(s, KindOf(q)) : RunOf(k) = q.key}, q)
    BY <1>3, Zenon DEF Wanted, Chosen, RunListings
  <2> QED
    BY <1>1, <1>3, <2>1, Zenon DEF PointReads, RunListings, Scans
<1>4. CASE q.rpc \in Scans
  <2>1. Wanted(s, q) = Chosen(s, KindOf(q), {k \in Stored(s, KindOf(q)) :
                                                    /\ q.workflow \in {"", k.workflow}
                                                    /\ q.rpc = "QueryActivities" => q.run \in {"", k.run}}, q)
    BY <1>4, Zenon DEF Wanted, Chosen, Scans
  <2> QED
    BY <1>1, <1>4, <2>1, Zenon DEF PointReads, RunListings, Scans
<1> QED
  BY <1>2, <1>3, <1>4, Zenon

(* A point read finds the object of its key or none. *)
PointTrue(b, T) ==
  T.sound /\ IF b.found THEN b.record # Nil /\ T.records = {b.record} ELSE T.records = {}

LEMMA PointTruth ==
  ASSUME NEW s, StoreOK(s), NEW kind \in Kinds, NEW q, q.rpc \in PointReads, KindOf(q) = kind,
         DOMAIN q = {"rpc", "key"}, q.key \in Keys(kind)
  PROVE  /\ DOMAIN Truth(s, q) = TruthFields /\ ~ Truth(s, q).garbled
         /\ ~ Exists(s, kind, q.key) => Truth(s, q).sound /\ Truth(s, q).records = {}
         /\ Exists(s, kind, q.key) /\ ValidateRecord(s[kind][q.key], q.key) =>
              Truth(s, q).sound /\ Truth(s, q).records = {s[kind][q.key]} /\ s[kind][q.key] # Nil
<1>1. DOMAIN s[kind] = Keys(kind) /\ kind # "none"
  BY StoreKinds, Zenon DEF Kinds
<1>2. Truth(s, q) = Chosen(s, kind, {q.key} \cap Stored(s, kind), q)
  BY <1>1, TruthOfRead, Zenon
<1>3. "status" \notin DOMAIN q
  BY Zenon
<1>4. DOMAIN Truth(s, q) = TruthFields /\ ~ Truth(s, q).garbled
  BY <1>2 DEF Chosen, TruthFields
<1>5. ASSUME ~ Exists(s, kind, q.key) PROVE Truth(s, q).sound /\ Truth(s, q).records = {}
  <2>1. {q.key} \cap Stored(s, kind) = {}
    BY <1>5, Zenon DEF Stored
  <2>2. Truth(s, q) = Chosen(s, kind, {}, q)
    BY <1>2, <2>1, Zenon
  <2>3. {k \in {} : ValidateRecord(s[kind][k], k)} = {}
    BY Zenon
  <2>4. Chosen(s, kind, {}, q).sound
    BY <2>3, Zenon DEF Chosen
  <2>5. Chosen(s, kind, {}, q).records = {}
    BY <2>3, Zenon DEF Chosen
  <2> QED
    BY <2>2, <2>4, <2>5, Zenon
<1>6. ASSUME Exists(s, kind, q.key), ValidateRecord(s[kind][q.key], q.key)
      PROVE  Truth(s, q).sound /\ Truth(s, q).records = {s[kind][q.key]} /\ s[kind][q.key] # Nil
  <2>1. {q.key} \cap Stored(s, kind) = {q.key}
    BY <1>1, <1>6, Zenon DEF Stored
  <2>2. {k \in {q.key} : ValidateRecord(s[kind][k], k)} = {q.key}
    BY <1>6, Zenon
  <2>3. Truth(s, q) = Chosen(s, kind, {q.key}, q)
    BY <1>2, <2>1, Zenon
  <2>4. Chosen(s, kind, {q.key}, q).sound
    BY <2>2, Zenon DEF Chosen
  <2>5. Chosen(s, kind, {q.key}, q).records = {s[kind][q.key]}
    BY <1>3, <2>2, Zenon DEF Chosen
  <2> QED
    BY <1>6, <2>3, <2>4, <2>5, Zenon DEF ValidateRecord
<1> QED
  BY <1>4, <1>5, <1>6, Zenon

(* The answer of every point read, and what a success means. *)
FoundBody(r) == [found |-> r # Nil, record |-> r]

PointAnswer(s, kind, k) ==
  IF ~ Validate(k) THEN Error(s, "invalid_argument")
  ELSE IF ~ Exists(s, kind, k) THEN Ok(s, FoundBody(Nil))
  ELSE IF ~ ValidateRecord(s[kind][k], k) THEN dataLossError(s)
  ELSE Ok(s, FoundBody(s[kind][k]))

LEMMA FoundFields ==
  ASSUME NEW r PROVE (FoundBody(r).found <=> r # Nil) /\ FoundBody(r).record = r
  BY Zenon DEF FoundBody

LEMMA PointAnswers ==
  ASSUME NEW s, NEW kind, NEW k, PointAnswer(s, kind, k).code = "ok"
  PROVE  /\ Validate(k)
         /\ ~ Exists(s, kind, k) => PointAnswer(s, kind, k).body = FoundBody(Nil)
         /\ Exists(s, kind, k) =>
              /\ ValidateRecord(s[kind][k], k)
              /\ PointAnswer(s, kind, k).body = FoundBody(s[kind][k])
<1>1. Error(s, "invalid_argument").code # "ok" /\ dataLossError(s).code # "ok"
  BY Zenon DEF Error, dataLossError
<1>2. \A b : Ok(s, b).body = b
  BY Zenon DEF Ok
<1> QED
  BY <1>1, <1>2, Zenon DEF PointAnswer

LEMMA PointRoutes ==
  ASSUME NEW s, NEW v, NEW q, q.rpc \in PointReads, Route(s, v, q).code = "ok"
  PROVE  Route(s, v, q) = PointAnswer(s, KindOf(q), q.key)
<1>1. CASE q.rpc = "GetWorkflow"
  <2>1. GetWorkflow(s, q) = PointAnswer(s, "workflow", q.key)
    BY Zenon DEF GetWorkflow, GetPoint, ReadPoint, GetWorkflowResponse, PointAnswer, FoundBody
  <2> QED
    BY <1>1, <2>1, GetRoutes, KindsOfReads
<1>2. CASE q.rpc = "GetActivity"
  <2>1. GetActivity(s, q) = PointAnswer(s, "activity", q.key)
    BY Zenon DEF GetActivity, GetPoint, ReadPoint, GetActivityResponse, PointAnswer, FoundBody
  <2> QED
    BY <1>2, <2>1, GetRoutes, KindsOfReads
<1>3. CASE q.rpc = "GetTimer"
  <2>1. GetTimer(s, q) = PointAnswer(s, "timer", q.key)
    BY Zenon DEF GetTimer, GetPoint, ReadPoint, GetTimerResponse, PointAnswer, FoundBody
  <2> QED
    BY <1>3, <2>1, GetRoutes, KindsOfReads
<1>4. CASE q.rpc = "GetEvent"
  <2>1. GetEvent(s, q) = PointAnswer(s, "event", q.key)
    BY Zenon DEF GetEvent, GetPoint, ReadPoint, GetEventResponse, PointAnswer, FoundBody
  <2> QED
    BY <1>4, <2>1, GetRoutes, KindsOfReads
<1>5. CASE q.rpc = "GetClaim"
  <2>1. Error(s, "failed_precondition").code # "ok"
    BY Zenon DEF Error
  <2>2. GetClaim(s, v, q).code = "ok" => GetClaim(s, v, q) = PointAnswer(s, "claim", q.key)
    BY <2>1, Zenon DEF GetClaim, GetPoint, ReadPoint, GetClaimResponse, PointAnswer, FoundBody
  <2> QED
    BY <1>5, <2>2, GetRoutes, KindsOfReads
<1> QED
  BY <1>1, <1>2, <1>3, <1>4, <1>5, Zenon DEF PointReads

LEMMA PointServed ==
  ASSUME NEW s, StoreOK(s), NEW v, NEW q \in Request, q.rpc \in PointReads, Route(s, v, q).code = "ok"
  PROVE  /\ DOMAIN Truth(s, q) = TruthFields /\ ~ Truth(s, q).garbled
         /\ PointTrue(Route(s, v, q).body, Truth(s, q))
<1> DEFINE kind == KindOf(q)
           r == Route(s, v, q)
<1>1. kind \in Kinds /\ DOMAIN q = {"rpc", "key"} /\ (Validate(q.key) => q.key \in Keys(kind))
  BY KindsOfReads, RequestFields, KeyFacts DEF PointReads, Kinds
<1>2. /\ Validate(q.key)
      /\ ~ Exists(s, kind, q.key) => r.body = FoundBody(Nil)
      /\ Exists(s, kind, q.key) =>
           /\ ValidateRecord(s[kind][q.key], q.key)
           /\ r.body = FoundBody(s[kind][q.key])
  <2>1. r = PointAnswer(s, kind, q.key)
    BY PointRoutes, Zenon
  <2>2. PointAnswer(s, kind, q.key).code = "ok"
    BY <2>1, Zenon
  <2> QED
    BY <2>1, <2>2, PointAnswers
<1> HIDE DEF kind, r
<1>3. /\ DOMAIN Truth(s, q) = TruthFields /\ ~ Truth(s, q).garbled
      /\ ~ Exists(s, kind, q.key) => Truth(s, q).sound /\ Truth(s, q).records = {}
      /\ Exists(s, kind, q.key) =>
           Truth(s, q).sound /\ Truth(s, q).records = {s[kind][q.key]} /\ s[kind][q.key] # Nil
  BY <1>1, <1>2, PointTruth, Zenon DEF kind
<1>4. CASE ~ Exists(s, kind, q.key)
  <2>1. ~ r.body.found
    BY <1>2, <1>4, FoundFields, Zenon
  <2> QED
    BY <1>3, <1>4, <2>1, Zenon DEF PointTrue, r
<1>5. CASE Exists(s, kind, q.key)
  <2>1. r.body.found /\ r.body.record = s[kind][q.key]
    BY <1>2, <1>3, <1>5, FoundFields, Zenon
  <2> QED
    BY <1>3, <1>5, <2>1, Zenon DEF PointTrue, r
<1> QED
  BY <1>4, <1>5, Zenon

(* A listing answers with the wanted ones of its objects when none of them   *)
(* is damaged.                                                               *)
LEMMA ListTruth ==
  ASSUME NEW s, NEW kind, NEW K, NEW q, ~ Damaged(s, kind, K)
  PROVE  /\ DOMAIN Chosen(s, kind, K, q) = TruthFields
         /\ ~ Chosen(s, kind, K, q).garbled /\ Chosen(s, kind, K, q).sound
         /\ Chosen(s, kind, K, q).records =
              {r \in RecordsAt(s, kind, K) : "status" \in DOMAIN q => q.status \in {"UNSPECIFIED", r.status}}
<1>1. {k \in K : ValidateRecord(s[kind][k], k)} = K
  BY Zenon DEF Damaged
<1>2. DOMAIN Chosen(s, kind, K, q) = TruthFields
  BY DEF Chosen, TruthFields
<1>3. ~ Chosen(s, kind, K, q).garbled
  BY Zenon DEF Chosen
<1>4. Chosen(s, kind, K, q).sound
  BY <1>1, Zenon DEF Chosen
<1>5. Chosen(s, kind, K, q).records =
        {s[kind][k] : k \in {j \in K : "status" \in DOMAIN q => q.status \in {"UNSPECIFIED", s[kind][j].status}}}
  BY <1>1, Zenon DEF Chosen
<1> QED
  BY <1>2, <1>3, <1>4, <1>5, Zenon DEF RecordsAt

ListTrue(b, T) ==
  DOMAIN T = TruthFields /\ ~ T.garbled /\ T.sound /\ "found" \notin DOMAIN b /\ b.records = T.records

(* Claims are kept only where they can be created. *)
ClaimsFit(s, v) == v.claims # "CREATE_ONLY" => \A k \in Keys("claim") : s["claim"][k] = Absent

(* The answer of every listing of a run, and what a success means. *)
RunAnswer(s, kind, run, S) ==
  IF ~ Validate(run) THEN Error(s, "invalid_argument")
  ELSE IF Damaged(s, kind, Listed(s, kind, run)) THEN dataLossError(s)
  ELSE Ok(s, [records |-> S])

LEMMA RunAnswers ==
  ASSUME NEW s, NEW kind, NEW run, NEW S, RunAnswer(s, kind, run, S).code = "ok"
  PROVE  ~ Damaged(s, kind, Listed(s, kind, run)) /\ RunAnswer(s, kind, run, S).body = [records |-> S]
<1>1. Error(s, "invalid_argument").code # "ok" /\ dataLossError(s).code # "ok"
  BY Zenon DEF Error, dataLossError
<1>2. \A b : Ok(s, b).body = b
  BY Zenon DEF Ok
<1> QED
  BY <1>1, <1>2, Zenon DEF RunAnswer

LEMMA RunListed ==
  ASSUME NEW s, StoreOK(s), NEW v, v.claims \in ClaimCapability \cup {"absent"}, ClaimsFit(s, v),
         NEW q \in Request, q.rpc \in RunListings, Route(s, v, q).code = "ok"
  PROVE  ListTrue(Route(s, v, q).body, Truth(s, q))
<1> DEFINE kind == KindOf(q)
           K == Listed(s, kind, q.key)
           r == Route(s, v, q)
<1>1. kind \in Kinds /\ kind # "none" /\ Truth(s, q) = Chosen(s, kind, K, q)
  <2>1. kind \in Kinds /\ kind # "none"
    BY KindsOfReads, Zenon DEF RunListings, Kinds
  <2> QED
    BY <2>1, TruthOfRead, Zenon DEF Listed
<1>2. CASE q.rpc = "ListTimers"
  <2>1. /\ ~ Damaged(s, kind, K)
        /\ r.body = [records |-> {x \in RecordsAt(s, kind, K) : q.status \in {"UNSPECIFIED", x.status}}]
    <3> DEFINE S == {x \in RecordsAt(s, "timer", Listed(s, "timer", q.key)) : q.status \in {"UNSPECIFIED", x.status}}
    <3>1. ListTimers(s, q) = RunAnswer(s, "timer", q.key, S)
      BY Zenon DEF ListTimers, ListRun, RunRecords, ListTimersResponse, RunAnswer
    <3>2. r = ListTimers(s, q) /\ kind = "timer" /\ r.code = "ok"
      BY <1>2, ListRoutes, KindsOfReads
    <3> HIDE DEF S, kind, K, r
    <3>3. RunAnswer(s, "timer", q.key, S).code = "ok"
      BY <3>1, <3>2, Zenon
    <3>4. /\ ~ Damaged(s, "timer", Listed(s, "timer", q.key))
          /\ RunAnswer(s, "timer", q.key, S).body = [records |-> S]
      BY <3>3, RunAnswers
    <3> QED
      BY <3>1, <3>2, <3>4, Zenon DEF S, K
  <2>2. "status" \in DOMAIN q
    BY <1>2, RequestFields
  <2> QED
    BY <1>1, <2>1, <2>2, ListTruth DEF ListTrue
<1>3. ASSUME ~ Damaged(s, kind, K), r.body = [records |-> RecordsAt(s, kind, K)],
             q.rpc # "ListTimers"
      PROVE  ListTrue(r.body, Truth(s, q))
  <2> HIDE DEF kind, K, r
  <2>0. q.rpc \in {"ListActivities", "ListEvents", "ListClaims"}
    BY <1>3, Zenon DEF RunListings
  <2>1. "status" \notin DOMAIN q
    BY <2>0, RequestFields
  <2>2. /\ DOMAIN Chosen(s, kind, K, q) = TruthFields
        /\ ~ Chosen(s, kind, K, q).garbled /\ Chosen(s, kind, K, q).sound
        /\ Chosen(s, kind, K, q).records =
             {x \in RecordsAt(s, kind, K) : "status" \in DOMAIN q => q.status \in {"UNSPECIFIED", x.status}}
    BY <1>3, ListTruth
  <2>3. r.body.records = RecordsAt(s, kind, K) /\ "found" \notin DOMAIN r.body
    BY <1>3
  <2> QED
    BY <1>1, <2>1, <2>2, <2>3, Zenon DEF ListTrue
<1>4. CASE q.rpc = "ListActivities"
  <2>1. ~ Damaged(s, kind, K) /\ r.body = [records |-> RecordsAt(s, kind, K)]
    <3> DEFINE S == RecordsAt(s, "activity", Listed(s, "activity", q.key))
    <3>1. ListActivities(s, q) = RunAnswer(s, "activity", q.key, S)
      BY Zenon DEF ListActivities, ListRun, ListActivitiesResponse, RunRecords, RunAnswer
    <3>2. r = ListActivities(s, q) /\ kind = "activity" /\ r.code = "ok"
      BY <1>4, ListRoutes, KindsOfReads
    <3> HIDE DEF S, kind, K, r
    <3>3. RunAnswer(s, "activity", q.key, S).code = "ok"
      BY <3>1, <3>2, Zenon
    <3>4. /\ ~ Damaged(s, "activity", Listed(s, "activity", q.key))
          /\ RunAnswer(s, "activity", q.key, S).body = [records |-> S]
      BY <3>3, RunAnswers
    <3> QED
      BY <3>1, <3>2, <3>4, Zenon DEF S, K
  <2> QED
    BY <1>3, <1>4, <2>1
<1>5. CASE q.rpc = "ListEvents"
  <2>1. ~ Damaged(s, kind, K) /\ r.body = [records |-> RecordsAt(s, kind, K)]
    <3> DEFINE S == RecordsAt(s, "event", Listed(s, "event", q.key))
    <3>1. ListEvents(s, q) = RunAnswer(s, "event", q.key, S)
      BY Zenon DEF ListEvents, ListRun, ListEventsResponse, RunRecords, RunAnswer
    <3>2. r = ListEvents(s, q) /\ kind = "event" /\ r.code = "ok"
      BY <1>5, ListRoutes, KindsOfReads
    <3> HIDE DEF S, kind, K, r
    <3>3. RunAnswer(s, "event", q.key, S).code = "ok"
      BY <3>1, <3>2, Zenon
    <3>4. /\ ~ Damaged(s, "event", Listed(s, "event", q.key))
          /\ RunAnswer(s, "event", q.key, S).body = [records |-> S]
      BY <3>3, RunAnswers
    <3> QED
      BY <3>1, <3>2, <3>4, Zenon DEF S, K
  <2> QED
    BY <1>3, <1>5, <2>1
<1>6. CASE q.rpc = "ListClaims"
  <2>1. CASE v.claims = "CREATE_ONLY"
    <3>1. ~ Damaged(s, kind, K) /\ r.body = [records |-> RecordsAt(s, kind, K)]
      <4>1. currentClaimCapability(v.claims) = "CREATE_ONLY"
        BY <2>1 DEF currentClaimCapability
      <4> DEFINE S == RecordsAt(s, "claim", Listed(s, "claim", q.key))
      <4>2. ListClaims(s, v, q) = RunAnswer(s, "claim", q.key, S)
        BY <2>1, <4>1, Zenon DEF ListClaims, ListRun, ListClaimsResponse, RunRecords, RunAnswer
      <4>3. r = ListClaims(s, v, q) /\ kind = "claim"
        BY <1>6, ListRoutes, KindsOfReads
      <4>4. RunAnswer(s, "claim", q.key, S).code = "ok"
        BY <4>2, <4>3, Zenon
      <4> HIDE DEF S, kind, K, r
      <4>5. /\ ~ Damaged(s, "claim", Listed(s, "claim", q.key))
            /\ RunAnswer(s, "claim", q.key, S).body = [records |-> S]
        BY <4>4, RunAnswers
      <4> QED
        BY <4>2, <4>3, <4>5, Zenon DEF S, K
    <3> QED
      BY <1>3, <1>6, <3>1
  <2>2. CASE v.claims # "CREATE_ONLY"
    <3>1. r.body = [records |-> {}]
      <4>1. v.claims = "absent" \/ currentClaimCapability(v.claims) \in {"NONE", "error"}
        BY <2>2 DEF currentClaimCapability, ClaimCapability
      <4>2. Error(s, "invalid_argument").code # "ok" /\ Error(s, "failed_precondition").code # "ok"
        BY Zenon DEF Error
      <4>3. ListClaims(s, v, q).code = "ok" => ListClaims(s, v, q).body = [records |-> {}]
        BY <4>1, <4>2, Zenon DEF ListClaims, ListClaimsResponse, Ok
      <4>4. r = ListClaims(s, v, q)
        BY <1>6, ListRoutes, Zenon
      <4> QED
        BY <1>6, <4>3, <4>4, Zenon
    <3>2. kind = "claim" /\ DOMAIN s["claim"] = Keys("claim")
      BY <1>6, KindsOfReads DEF StoreOK
    <3>3. K = {}
      BY <2>2, <3>2 DEF Listed, Stored, Exists, ClaimsFit
    <3>4. ~ Damaged(s, kind, K) /\ RecordsAt(s, kind, K) = {}
      BY <3>3, Zenon DEF Damaged, RecordsAt
    <3> QED
      BY <1>3, <1>6, <3>1, <3>4
  <2> QED
    BY <2>1, <2>2, Zenon
<1> QED
  BY <1>2, <1>4, <1>5, <1>6, Zenon DEF RunListings

LEMMA ScanListed ==
  ASSUME NEW s, StoreOK(s), NEW v, NEW q \in Request, q.rpc \in Scans, Route(s, v, q).code = "ok"
  PROVE  ListTrue(Route(s, v, q).body, Truth(s, q))
<1> DEFINE kind == KindOf(q)
           K == {k \in Stored(s, kind) : /\ q.workflow \in {"", k.workflow}
                                         /\ q.rpc = "QueryActivities" => q.run \in {"", k.run}}
           r == Route(s, v, q)
           S == {x \in RecordsAt(s, kind, K) : q.status \in {"UNSPECIFIED", x.status}}
<1>1. Truth(s, q) = Chosen(s, kind, K, q) /\ "status" \in DOMAIN q
  <2>1. kind # "none"
    BY KindsOfReads, Zenon DEF Scans
  <2> QED
    BY <2>1, TruthOfRead, RequestFields, Zenon DEF Scans
<1>2. ASSUME ~ Damaged(s, kind, K), r.body = [records |-> S]
      PROVE  ListTrue(r.body, Truth(s, q))
  <2> HIDE DEF r, K, kind, S
  <2>0. ~ Damaged(s, kind, K) /\ r.body.records = S /\ "found" \notin DOMAIN r.body
    <3>1. \A X : [records |-> X].records = X /\ "found" \notin DOMAIN [records |-> X]
      OBVIOUS
    <3> QED
      BY <1>2, <3>1, Zenon
  <2> USE DEF S
  <2>1. /\ DOMAIN Chosen(s, kind, K, q) = TruthFields
        /\ ~ Chosen(s, kind, K, q).garbled /\ Chosen(s, kind, K, q).sound
        /\ Chosen(s, kind, K, q).records =
             {x \in RecordsAt(s, kind, K) : "status" \in DOMAIN q => q.status \in {"UNSPECIFIED", x.status}}
    BY <2>0, ListTruth
  <2>2. {x \in RecordsAt(s, kind, K) : "status" \in DOMAIN q => q.status \in {"UNSPECIFIED", x.status}} = S
    BY <1>1, Zenon
  <2> HIDE DEF S
  <2> QED
    BY <1>1, <2>0, <2>1, <2>2, Zenon DEF ListTrue
<1>3. \A k \in K : ~ Damaged(s, kind, K) => s[kind][k].key = k
  BY Zenon DEF Damaged, ValidateRecord
<1>4. ASSUME Scanned(s, kind, q) = K, "run" \in DOMAIN q => q.run = "", ~ Damaged(s, kind, K)
      PROVE  {x \in RecordsAt(s, kind, K) : Matches(x, q)} = S
  <2>1. ASSUME NEW k \in K PROVE Matches(s[kind][k], q) <=> q.status \in {"UNSPECIFIED", s[kind][k].status}
    <3>1. s[kind][k].key = k /\ q.workflow \in {"", k.workflow}
      BY <1>3, <1>4, <2>1, Zenon
    <3> QED
      BY <1>4, <3>1, Zenon DEF Matches
  <2> HIDE DEF K, kind
  <2> QED
    BY <2>1, Zenon DEF RecordsAt
<1>5. \A e : Ok(s, e).body = e
  BY Zenon DEF Ok
<1>6. \A J : Error(s, ScanError(s, kind, J)).code # "ok" /\ Error(s, "invalid_argument").code # "ok"
  BY Zenon DEF Error, ScanError
<1>7. CASE q.rpc = "ListWorkflows"
  <2>1. r = ListWorkflows(s, q) /\ kind = "workflow" /\ "run" \notin DOMAIN q
    BY <1>7, ListRoutes, KindsOfReads, RequestFields
  <2>2. Scanned(s, kind, q) = K
    BY <1>7, Zenon DEF Scanned
  <2>3. ~ Damaged(s, kind, Scanned(s, kind, q)) /\
        r.body = [records |-> {x \in RecordsAt(s, kind, Scanned(s, kind, q)) : Matches(x, q)}]
    <3>1. r = IF Damaged(s, kind, Scanned(s, kind, q)) THEN Error(s, ScanError(s, kind, Scanned(s, kind, q)))
              ELSE Ok(s, [records |-> {x \in RecordsAt(s, kind, Scanned(s, kind, q)) : Matches(x, q)}])
      BY <2>1, Zenon DEF ListWorkflows, Scan, Selected, ListWorkflowsResponse
    <3> HIDE DEF r, K, S, kind
    <3>2. r.code = "ok"
      BY Zenon DEF r
    <3> QED
      BY <1>5, <1>6, <3>1, <3>2, Zenon
  <2> HIDE DEF r, K, S, kind
  <2> QED
    BY <1>2, <1>4, <2>1, <2>2, <2>3, Zenon DEF r
<1>8. CASE q.rpc = "QueryActivities" /\ q.run = ""
  <2>1. r = QueryActivities(s, q) /\ kind = "activity"
    BY <1>8, ListRoutes, KindsOfReads, Zenon
  <2>2. Scanned(s, kind, q) = K
    BY <1>8, Zenon DEF Scanned
  <2>3. ~ Damaged(s, kind, Scanned(s, kind, q)) /\
        r.body = [records |-> {x \in RecordsAt(s, kind, Scanned(s, kind, q)) : Matches(x, q)}]
    <3>1. r = IF Damaged(s, kind, Scanned(s, kind, q)) THEN Error(s, ScanError(s, kind, Scanned(s, kind, q)))
              ELSE Ok(s, [records |-> {x \in RecordsAt(s, kind, Scanned(s, kind, q)) : Matches(x, q)}])
      BY <1>8, <2>1, Zenon DEF QueryActivities, Scan, Selected, RecordQueryServiceListActivitiesResponse
    <3> HIDE DEF r, K, S, kind
    <3>2. r.code = "ok"
      BY Zenon DEF r
    <3> QED
      BY <1>5, <1>6, <3>1, <3>2, Zenon
  <2> HIDE DEF r, K, S, kind
  <2> QED
    BY <1>2, <1>4, <1>8, <2>1, <2>2, <2>3, Zenon DEF r
<1>9. CASE q.rpc = "QueryActivities" /\ q.run # ""
  <2> DEFINE run == [workflow |-> q.workflow, run |-> q.run]
  <2>1. r = QueryActivities(s, q) /\ kind = "activity"
    BY <1>9, ListRoutes, KindsOfReads, Zenon
  <2>2. q.workflow # "" /\ r = RunAnswer(s, kind, run, {x \in RecordsAt(s, kind, Listed(s, kind, run)) :
                                                          q.status \in {"UNSPECIFIED", x.status}})
    <3>1. q.workflow # ""
      BY <1>6, <1>9, <2>1, Zenon DEF QueryActivities
    <3> QED
      BY <1>9, <2>1, <3>1, Zenon
      DEF QueryActivities, ListRun, RunRecords, RecordQueryServiceListActivitiesResponse, RunAnswer
  <2>3. Listed(s, kind, run) = K
    <3>1. \A k : RunOf(k) = run <=> k.workflow = q.workflow /\ k.run = q.run
      BY DEF RunOf
    <3> HIDE DEF run
    <3> QED
      BY <1>9, <2>2, <3>1, Zenon DEF Listed
  <2>4. \A J : RunAnswer(s, kind, run, J).code = "ok" =>
                  ~ Damaged(s, kind, Listed(s, kind, run)) /\ RunAnswer(s, kind, run, J).body = [records |-> J]
    BY RunAnswers
  <2>5. r.code = "ok"
    BY Zenon
  <2> HIDE DEF r, K, kind, run
  <2> QED
    BY <1>2, <2>2, <2>3, <2>4, <2>5, Zenon DEF r
<1> QED
  BY <1>7, <1>8, <1>9, Zenon DEF Scans

LEMMA DueListed ==
  ASSUME NEW s, NEW v, NEW q \in Request, q.rpc \in DueReads, Route(s, v, q).code = "ok"
  PROVE  ListTrue(Route(s, v, q).body, Truth(s, q))
<1> DEFINE r == Route(s, v, q)
<1>1. r = IF DueRunDamaged(s, q.now) THEN dataLossError(s) ELSE Ok(s, [records |-> Due(s, q.now)])
  <2>1. DueTimers(s, q) = IF DueRunDamaged(s, q.now) THEN dataLossError(s) ELSE Ok(s, [records |-> Due(s, q.now)])
    BY Zenon DEF DueTimers, DueScan, DueTimersResponse
  <2>2. QueryDueTimers(s, q) = DueTimers(s, q)
    BY <2>1, Zenon DEF QueryDueTimers, DueScan, RecordQueryServiceDueTimersResponse
  <2>3. CASE q.rpc = "DueTimers"
    <3>1. r = DueTimers(s, q)
      BY <2>3, OtherRoutes, Zenon
    <3> QED
      BY <2>1, <3>1, Zenon
  <2>4. CASE q.rpc = "QueryDueTimers"
    <3>1. r = QueryDueTimers(s, q)
      BY <2>4, OtherRoutes
    <3> QED
      BY <2>1, <2>2, <3>1, Zenon
  <2> QED
    BY <2>3, <2>4, Zenon DEF DueReads
<1>2. dataLossError(s).code # "ok" /\ \A e : Ok(s, e).body = e
  BY Zenon DEF dataLossError, Error, Ok
<1>3. r.code = "ok"
  BY Zenon
<1> HIDE DEF r
<1>4. ~ DueRunDamaged(s, q.now) /\ r.body = [records |-> Due(s, q.now)]
  BY <1>1, <1>2, <1>3, Zenon
<1>5. Truth(s, q) = [garbled |-> FALSE, sound |-> ~ DueRunDamaged(s, q.now), records |-> Due(s, q.now)]
  BY KindsOfReads, Zenon DEF Truth, DueReads
<1>6. DOMAIN Truth(s, q) = TruthFields /\ Truth(s, q).records = Due(s, q.now)
  BY <1>5 DEF TruthFields
<1>7. ~ Truth(s, q).garbled /\ Truth(s, q).sound
  <2>1. ~ [garbled |-> FALSE, sound |-> ~ DueRunDamaged(s, q.now), records |-> Due(s, q.now)].garbled
    BY Zenon
  <2>2. [garbled |-> FALSE, sound |-> ~ DueRunDamaged(s, q.now), records |-> Due(s, q.now)].sound
    BY <1>4, Zenon
  <2> QED
    BY <1>5, <2>1, <2>2, Zenon
<1>8. r.body.records = Due(s, q.now) /\ "found" \notin DOMAIN r.body
  <2>1. \A X : [records |-> X].records = X /\ "found" \notin DOMAIN [records |-> X]
    OBVIOUS
  <2> QED
    BY <1>4, <2>1, Zenon
<1> QED
  BY <1>6, <1>7, <1>8, Zenon DEF ListTrue, r

-----------------------------------------------------------------------------
(* The other answers. *)

LEMMA TruthDomain ==
  ASSUME NEW s, NEW q PROVE DOMAIN Truth(s, q) = TruthFields
  BY DEF Truth, Wanted, NoTruth, TruthFields

LatestBody == [found : BOOLEAN, record : PointerObject \cup {Nil}]

LEMMA FoundLatest ==
  ASSUME NEW p \in PointerObject \cup {Nil} PROVE FoundBody(p) \in LatestBody
<1>1. (p # Nil) \in BOOLEAN
  BY Zenon
<1> QED
  BY <1>1, Zenon DEF FoundBody, LatestBody

LEMMA LatestServed ==
  ASSUME NEW s, StoreOK(s), NEW v, NEW q \in Request, q.rpc = "GetLatestWorkflowRun", Route(s, v, q).code = "ok"
  PROVE  \E p \in PointerObject \cup {Nil} : Route(s, v, q).body = FoundBody(p)
<1> DEFINE p == s["latest"][q.workflow]
           r == Route(s, v, q)
<1>1. p \in PointerObject \cup {Absent, Garbage}
  BY RequestFields DEF StoreOK
<1>2. r = IF p = Absent THEN Ok(s, FoundBody(Nil))
          ELSE IF ~ ValidateLatestWorkflowRunPointer(p, q.workflow) THEN dataLossError(s)
          ELSE Ok(s, FoundBody(p))
  <2>1. r = GetLatestWorkflowRun(s, q)
    BY GetRoutes, Zenon
  <2> QED
    BY <2>1, Zenon DEF GetLatestWorkflowRun, GetLatestWorkflowRunResponse, FoundBody
<1>3. dataLossError(s).code # "ok" /\ \A e : Ok(s, e).body = e
  BY Zenon DEF dataLossError, Error, Ok
<1>4. r.code = "ok"
  BY Zenon
<1>5. ValidateLatestWorkflowRunPointer(p, q.workflow) => p # Garbage
  BY Zenon DEF ValidateLatestWorkflowRunPointer
<1> HIDE DEF p, r
<1> QED
  BY <1>1, <1>2, <1>3, <1>4, <1>5, Zenon DEF r

LEMMA DereferenceServed ==
  ASSUME NEW s, NEW p
  PROVE  /\ DereferencePointer(s, p).code = "ok"
              => DereferencePointer(s, p).body \in {FoundBody(p), FoundBody(Nil)}
         /\ DereferencePointer(s, p).code # "failed_precondition"
<1> DEFINE r == GetPoint(s, "workflow", p.key, GetWorkflowResponse(ReadPoint(s, "workflow", p.key)))
<1>1. r.code # "failed_precondition"
  <2>1. Error(s, "invalid_argument").code # "failed_precondition" /\ dataLossError(s).code # "failed_precondition"
    BY Zenon DEF Error, dataLossError
  <2>2. \A e : Ok(s, e).code # "failed_precondition"
    BY Zenon DEF Ok
  <2> QED
    BY <2>1, <2>2, Zenon DEF GetPoint
<1>2. DereferencePointer(s, p) = IF r.code # "ok" THEN r
        ELSE IF ~ r.body.found \/ StaleLatestPointer(p, r.body.record) THEN Ok(s, FoundBody(Nil))
        ELSE Ok(s, FoundBody(p))
  BY Zenon DEF DereferencePointer, GetLatestWorkflowRunResponse, FoundBody
<1>3. \A e : Ok(s, e).body = e /\ Ok(s, e).code = "ok"
  BY Zenon DEF Ok
<1> HIDE DEF r
<1> QED
  BY <1>1, <1>2, <1>3, Zenon

LEMMA PublishEffect ==
  ASSUME NEW s, StoreOK(s), NEW r \in WorkflowObject
  PROVE  /\ StoreOK(PublishPointer(s, r).store)
         /\ \A kind \in Kinds : PublishPointer(s, r).store[kind] = s[kind]
         /\ PublishPointer(s, r).code # "failed_precondition"
<1> DEFINE p == LatestWorkflowRunPointer(r)
           t == [s EXCEPT !["latest"] = [s["latest"] EXCEPT ![r.key.workflow] = p]]
<1>1. PublishPointer(s, r).store \in {s, t} /\ PublishPointer(s, r).code # "failed_precondition"
  BY Zenon DEF PublishPointer, Ok, Error
<1>2. p \in PointerObject
  BY DEF LatestWorkflowRunPointer, WorkflowObject, PointerObject
<1> HIDE DEF p
<1>3. /\ DOMAIN s = Kinds \cup {"latest"} /\ "latest" \notin Kinds
      /\ \A kind \in Kinds : s[kind] \in [Keys(kind) -> Object(kind) \cup {Absent, Garbage}]
      /\ s["latest"] \in [Workflows -> PointerObject \cup {Absent, Garbage}]
  BY StoreKinds, Zenon DEF Kinds
<1>4. [s["latest"] EXCEPT ![r.key.workflow] = p] \in [Workflows -> PointerObject \cup {Absent, Garbage}]
  BY <1>2, <1>3, Zenon
<1>5. DOMAIN t = DOMAIN s /\ t["latest"] = [s["latest"] EXCEPT ![r.key.workflow] = p]
      /\ \A kind \in Kinds : t[kind] = s[kind]
  BY <1>3
<1> HIDE DEF t
<1>6. StoreOK(t)
  BY <1>3, <1>4, <1>5, StoreKinds, Zenon
<1> QED
  BY <1>1, <1>5, <1>6, Zenon

(* An event is created once: a delivery that succeeds has created it or      *)
(* found it with its payload, and changes nothing that exists.               *)
LEMMA DeliverServed ==
  ASSUME NEW s, NEW v, NEW q, q.rpc = "DeliverEvent"
  PROVE  LET k == q.record.key
             r == Route(s, v, q)
         IN  /\ \/ r.store = s
                \/ s["event"][k] = Absent /\ ValidateEventDeliveryRecord(q.record, k)
                   /\ r.store = Write(s, "event", q.record)
             /\ r.code = "ok" =>
                  /\ ValidateEventDeliveryRecord(q.record, k)
                  /\ \/ r.body = [disposition |-> "CREATED"] /\ r.store = Write(s, "event", q.record)
                     \/ /\ r.body = [disposition |-> "IDEMPOTENT"] /\ r.store = s
                        /\ s["event"][k] # Absent /\ ValidateEventDeliveryRecord(s["event"][k], k)
                        /\ s["event"][k].payload = q.record.payload
<1> DEFINE k == q.record.key
           r == Route(s, v, q)
           o == s["event"][k]
<1>1. r = IF ~ ValidateEventDeliveryRecord(q.record, k) THEN Error(s, "invalid_argument")
          ELSE IF currentEventCapability(v.delivery) = "NONE" THEN Refused(s, "UNSUPPORTED", k)
          ELSE IF v.delivery # "CREATE_ONLY" THEN Error(s, "internal")
          ELSE IF o = Absent THEN Ok(Write(s, "event", q.record), [disposition |-> "CREATED"])
          ELSE IF ~ ValidateEventDeliveryRecord(o, k) THEN dataLossError(s)
          ELSE IF o.payload = q.record.payload THEN Ok(s, [disposition |-> "IDEMPOTENT"])
          ELSE Refused(s, "CONFLICT", k)
  <2>1. r = DeliverEvent(s, v, q)
    BY PutRoutes, Zenon
  <2> QED
    BY <2>1, Zenon DEF DeliverEvent, CreateOnce, DeliverEventResponse
<1>2. /\ \A e : Error(s, e).store = s /\ (e # "ok" => Error(s, e).code # "ok")
      /\ \A e : Refused(s, e, k).store = s /\ Refused(s, e, k).code # "ok"
      /\ dataLossError(s).store = s /\ dataLossError(s).code # "ok"
  BY Zenon DEF Error, Refused, dataLossError
<1>3. \A t, e : Ok(t, e).store = t /\ Ok(t, e).body = e
  BY Zenon DEF Ok
<1>4. "invalid_argument" # "ok" /\ "internal" # "ok"
  BY Zenon
<1> HIDE DEF k, r, o
<1>5. /\ \/ r.store = s
         \/ o = Absent /\ ValidateEventDeliveryRecord(q.record, k) /\ r.store = Write(s, "event", q.record)
      /\ r.code = "ok" =>
           /\ ValidateEventDeliveryRecord(q.record, k)
           /\ \/ r.body = [disposition |-> "CREATED"] /\ r.store = Write(s, "event", q.record)
              \/ /\ r.body = [disposition |-> "IDEMPOTENT"] /\ r.store = s
                 /\ o # Absent /\ ValidateEventDeliveryRecord(o, k) /\ o.payload = q.record.payload
  <2>1. /\ Ok(Write(s, "event", q.record), [disposition |-> "CREATED"]).store = Write(s, "event", q.record)
        /\ Ok(Write(s, "event", q.record), [disposition |-> "CREATED"]).body = [disposition |-> "CREATED"]
        /\ Ok(s, [disposition |-> "IDEMPOTENT"]).store = s
        /\ Ok(s, [disposition |-> "IDEMPOTENT"]).body = [disposition |-> "IDEMPOTENT"]
    BY <1>3
  <2>2. CASE r.store = s /\ r.code # "ok"
    BY <2>2, Zenon
  <2>3. CASE /\ ValidateEventDeliveryRecord(q.record, k) /\ o = Absent
             /\ r = Ok(Write(s, "event", q.record), [disposition |-> "CREATED"])
    BY <2>1, <2>3, Zenon
  <2>4. CASE /\ ValidateEventDeliveryRecord(q.record, k) /\ o # Absent /\ ValidateEventDeliveryRecord(o, k)
             /\ o.payload = q.record.payload /\ r = Ok(s, [disposition |-> "IDEMPOTENT"])
    BY <2>1, <2>4, Zenon
  <2> QED
    BY <1>1, <1>2, <1>4, <2>2, <2>3, <2>4, Zenon
<1> QED
  BY <1>5, Zenon DEF k, r, o

(* A claim is created only where none is, on a store that creates claims.    *)
LEMMA CreateServed ==
  ASSUME NEW s, NEW v, NEW q, q.rpc = "TryCreateClaim"
  PROVE  LET k == q.record.key
             r == Route(s, v, q)
         IN  /\ \/ r.store = s
                \/ s["claim"][k] = Absent /\ v.claims = "CREATE_ONLY" /\ r.store = Write(s, "claim", q.record)
             /\ r.code = "ok" =>
                  /\ ValidateRecord(q.record, k) /\ "found" \notin DOMAIN r.body
                  /\ r.body.created => s["claim"][k] = Absent /\ r.store = Write(s, "claim", q.record)
<1> DEFINE k == q.record.key
           r == Route(s, v, q)
<1>1. r = IF v.claims = "absent" THEN Error(s, "failed_precondition")
          ELSE IF ~ Validate(k) THEN Error(s, "invalid_argument")
          ELSE IF currentClaimCapability(v.claims) # "CREATE_ONLY" THEN Error(s, "failed_precondition")
          ELSE IF ~ ValidateRecord(q.record, k) THEN Error(s, "invalid_argument")
          ELSE IF s["claim"][k] # Absent THEN Ok(s, [created |-> FALSE])
          ELSE Ok(Write(s, "claim", q.record), [created |-> TRUE])
  <2>1. r = TryCreateClaim(s, v, q)
    BY PutRoutes, Zenon
  <2>2. TryCreate(s, q.record) = IF s["claim"][k] # Absent THEN Ok(s, [created |-> FALSE])
                                 ELSE Ok(Write(s, "claim", q.record), [created |-> TRUE])
    <3>1. CASE s["claim"][k] # Absent
      <4>1. (~ Exists(s, "claim", k)) = FALSE
        BY <3>1, Zenon DEF Exists
      <4> QED
        BY <3>1, <4>1, Zenon DEF TryCreate, Exists, TryCreateClaimResponse
    <3>2. CASE s["claim"][k] = Absent
      <4>1. (~ Exists(s, "claim", k)) = TRUE
        BY <3>2, Zenon DEF Exists
      <4> QED
        BY <3>2, <4>1, Zenon DEF TryCreate, Exists, TryCreateClaimResponse
    <3> QED
      BY <3>1, <3>2, Zenon
  <2> QED
    BY <2>1, <2>2, Zenon DEF TryCreateClaim
<1>2. \A e : Error(s, e).store = s /\ Error(s, e).code = e
  BY Zenon DEF Error
<1>3. \A t, e : Ok(t, e).store = t /\ Ok(t, e).body = e
  BY Zenon DEF Ok
<1>4. /\ "invalid_argument" # "ok" /\ "failed_precondition" # "ok"
      /\ currentClaimCapability(v.claims) = "CREATE_ONLY" => v.claims = "CREATE_ONLY"
      /\ "found" \notin DOMAIN [created |-> FALSE] /\ "found" \notin DOMAIN [created |-> TRUE]
      /\ ~ [created |-> FALSE].created
  BY Zenon DEF currentClaimCapability
<1> HIDE DEF k, r
<1>5. /\ \/ r.store = s
         \/ s["claim"][k] = Absent /\ v.claims = "CREATE_ONLY" /\ r.store = Write(s, "claim", q.record)
      /\ r.code = "ok" =>
           /\ ValidateRecord(q.record, k) /\ "found" \notin DOMAIN r.body
           /\ r.body.created => s["claim"][k] = Absent /\ r.store = Write(s, "claim", q.record)
  <2>1. CASE s["claim"][k] # Absent
    <3>1. r.store = s /\ (r.code = "ok" => ValidateRecord(q.record, k) /\ r.body = [created |-> FALSE])
      <4>0. Ok(s, [created |-> FALSE]).store = s /\ Ok(s, [created |-> FALSE]).body = [created |-> FALSE]
        BY <1>3
      <4>1. CASE r = Ok(s, [created |-> FALSE]) /\ ValidateRecord(q.record, k)
        BY <4>0, <4>1, Zenon
      <4>2. CASE \E e \in {"invalid_argument", "failed_precondition"} : r = Error(s, e)
        BY <1>2, <1>4, <4>2, Zenon
      <4> QED
        BY <1>1, <2>1, <4>1, <4>2, Zenon
    <3> QED
      BY <1>4, <2>1, <3>1, Zenon
  <2>2. CASE s["claim"][k] = Absent
    <3>1. /\ r.store = s \/ (v.claims = "CREATE_ONLY" /\ r.store = Write(s, "claim", q.record))
          /\ r.code = "ok" => /\ ValidateRecord(q.record, k) /\ r.body = [created |-> TRUE]
                             /\ r.store = Write(s, "claim", q.record)
      BY <1>1, <1>2, <1>3, <1>4, <2>2
    <3> QED
      BY <1>4, <2>2, <3>1, Zenon
  <2> QED
    BY <2>1, <2>2, Zenon
<1> QED
  BY <1>5, Zenon DEF k, r

LEMMA ReleaseServed ==
  ASSUME NEW s, NEW v, NEW q, q.rpc = "DeleteClaim"
  PROVE  Route(s, v, q).store = s \/ (Validate(q.key) /\ Route(s, v, q).store = Remove(s, "claim", q.key))
<1>1. Route(s, v, q) = DeleteClaim(s, v, q)
  BY DeleteRoutes, Zenon
<1>2. \A e : Error(s, e).store = s
  BY Zenon DEF Error
<1>3. \A t, e : Ok(t, e).store = t
  BY Zenon DEF Ok
<1>4. LET r == DeletePoint(s, "claim", q.key, DeleteClaimResponse(Exists(s, "claim", q.key)))
      IN  r.store = s \/ (Validate(q.key) /\ r.store = Remove(s, "claim", q.key))
  BY <1>2, <1>3, Zenon DEF DeletePoint
<1> QED
  BY <1>1, <1>2, <1>4, Zenon DEF DeleteClaim

LEMMA CapabilitiesServed ==
  ASSUME NEW s, NEW v, v.delivery \in EventDeliveryCapability \cup {"absent"},
         NEW q, q.rpc = "GetStoreCapabilities", Route(s, v, q).code = "ok"
  PROVE  /\ "found" \notin DOMAIN Route(s, v, q).body
         /\ Route(s, v, q).body.fenced \in FencedExecutionCapability
         /\ Route(s, v, q).body.claim \in ClaimCapability
         /\ Route(s, v, q).body.delivery \in EventDeliveryCapability
<1> DEFINE r == Route(s, v, q)
           c == IF v.claims = "absent" THEN "NONE" ELSE currentClaimCapability(v.claims)
           e == currentEventCapability(v.delivery)
<1>1. r = IF c = "error" THEN Error(s, "failed_precondition")
          ELSE IF e = "OTHER" THEN Error(s, "internal")
          ELSE Ok(s, [claim |-> c, delivery |-> e, fenced |-> "UNSUPPORTED"])
  <2>1. r = GetStoreCapabilities(s, v)
    BY OtherRoutes, Zenon
  <2> QED
    BY <2>1, Zenon DEF GetStoreCapabilities, GetStoreCapabilitiesResponse
<1>2. Error(s, "failed_precondition").code # "ok" /\ Error(s, "internal").code # "ok" /\ r.code = "ok"
  BY Zenon DEF Error
<1>3. \A x : Ok(s, x).body = x
  BY Zenon DEF Ok
<1>4. c # "error" => c \in ClaimCapability
  BY Zenon DEF currentClaimCapability, ClaimCapability
<1>5. e \in EventDeliveryCapability
  BY DEF currentEventCapability, EventDeliveryCapability
<1> HIDE DEF c, e, r
<1>6. c # "error" /\ r.body = [claim |-> c, delivery |-> e, fenced |-> "UNSUPPORTED"]
  BY <1>1, <1>2, <1>3, Zenon
<1> QED
  BY <1>4, <1>5, <1>6 DEF r, FencedExecutionCapability

(* Only a refused delivery says why. *)
Refusal(r) == r.code = "failed_precondition" => r.body = Nil \/ r.body.reason \in EventDeliveryFailureReason

LEMMA RefusalServed ==
  ASSUME NEW s, NEW v, NEW q \in Request
  PROVE  Refusal(Route(s, v, q))
<1>0. \A r : Plain(r) => Refusal(r)
  BY Zenon DEF Plain, Refusal
<1>1. CASE q.rpc \notin Mutations
  BY <1>0, <1>1, ReadsKeep, Zenon
<1>2. Plain(PutWorkflow(s, q)) /\ Plain(PutActivity(s, q)) /\ Plain(PutTimer(s, q)) /\ Plain(PutEvent(s, q))
  BY Zenon DEF PutWorkflow, PutActivity, PutTimer, PutEvent, PutPoint, Ok, Error, Plain
<1>3. /\ Plain(DeleteWorkflow(s, q)) /\ Plain(DeleteActivity(s, q)) /\ Plain(DeleteTimer(s, q))
      /\ Plain(DeleteEvent(s, q))
  BY Zenon DEF DeleteWorkflow, DeleteActivity, DeleteTimer, DeleteEvent, DeletePoint, Ok, Error, Plain
<1>4. Plain(DeleteClaim(s, v, q))
  BY Zenon DEF DeleteClaim, DeletePoint, Ok, Error, Plain
<1>5. Plain(TryCreateClaim(s, v, q))
  BY Zenon DEF TryCreateClaim, TryCreate, Ok, Error, Plain
<1>6. Refusal(DeliverEvent(s, v, q))
  <2>1. \A t, e : Refusal(Ok(t, e))
    BY Zenon DEF Refusal, Ok
  <2>2. \A e : Refusal(Error(s, e))
    BY Zenon DEF Refusal, Error
  <2>3. Refusal(dataLossError(s))
    BY <2>2, Zenon DEF dataLossError
  <2>4. Refusal(Refused(s, "UNSUPPORTED", q.record.key)) /\ Refusal(Refused(s, "CONFLICT", q.record.key))
    BY Zenon DEF Refusal, Refused, EventDeliveryErrorDetail, EventDeliveryFailureReason
  <2>5. Refusal(CreateOnce(s, q.record))
    BY <2>1, <2>3, <2>4, Zenon DEF CreateOnce
  <2> QED
    BY <2>2, <2>4, <2>5, Zenon DEF DeliverEvent
<1>7. q.rpc \in Mutations => Refusal(Route(s, v, q))
  <2>1. q.rpc \in {"PutWorkflow", "PutActivity", "PutTimer", "PutEvent"} => Plain(Route(s, v, q))
    BY <1>2, PutRoutes
  <2>2. q.rpc \in {"DeleteWorkflow", "DeleteActivity", "DeleteTimer", "DeleteEvent"} => Plain(Route(s, v, q))
    BY <1>3, DeleteRoutes
  <2>3. q.rpc \in {"DeleteClaim", "TryCreateClaim"} => Plain(Route(s, v, q))
    BY <1>4, <1>5, PutRoutes, DeleteRoutes
  <2>4. q.rpc = "DeliverEvent" => Refusal(Route(s, v, q))
    BY <1>6, PutRoutes
  <2> QED
    BY <1>0, <2>1, <2>2, <2>3, <2>4, Zenon DEF Mutations
<1> QED
  BY <1>1, <1>7, Zenon

-----------------------------------------------------------------------------
(* What the server does to one event, and to the claims. *)

Committed(s, k, p) ==
  s["event"][k] # Absent /\ ValidateEventDeliveryRecord(s["event"][k], k) /\ s["event"][k].payload = p

EventKept(s, t, k) == s["event"][k] # Absent => t["event"][k] = s["event"][k]

LEMMA CommitKept ==
  ASSUME NEW s, NEW t, NEW k, NEW p, EventKept(s, t, k), Committed(s, k, p)
  PROVE  Committed(t, k, p)
  BY Zenon DEF EventKept, Committed

(* No request but a put or a deletion of the event touches it once it        *)
(* exists, and a delivery that succeeds leaves it with its payload.          *)
LEMMA ServedEvent ==
  ASSUME NEW s, StoreOK(s), NEW v, NEW q \in Request, NEW k \in Keys("event"),
         q.rpc = "PutEvent" => q.record.key # k, q.rpc = "DeleteEvent" => q.key # k
  PROVE  /\ EventKept(s, Route(s, v, q).store, k)
         /\ q.rpc = "DeliverEvent" /\ q.record.key = k /\ Route(s, v, q).code = "ok" =>
              Committed(Route(s, v, q).store, k, q.record.payload)
<1> DEFINE t == Route(s, v, q).store
<1>0. "event" \in Kinds /\ Object("event") = EventObject
  BY Zenon DEF Kinds, Object
<1>1. CASE q.rpc \notin {"PutEvent", "DeliverEvent", "DeleteEvent"}
  <2>1. Effect(s, q, t)
    BY RouteEffect
  <2>2. t["event"] = s["event"]
    BY <1>1, <2>1, EffectKeeps
  <2> QED
    BY <1>1, <2>2, Zenon DEF EventKept
<1>2. CASE q.rpc = "DeliverEvent"
  <2>1. q.record \in EventObject
    BY <1>2, RequestFields
  <2>2. \A j \in Keys("event") : Write(s, "event", q.record)["event"][j] =
            IF j = q.record.key THEN q.record ELSE s["event"][j]
    BY <1>0, <2>1, WriteEffect
  <2>3. t = s \/ (s["event"][q.record.key] = Absent /\ t = Write(s, "event", q.record))
    BY <1>2, DeliverServed
  <2>4. EventKept(s, t, k)
    BY <2>2, <2>3, Zenon DEF EventKept
  <2>5. ASSUME q.record.key = k, Route(s, v, q).code = "ok" PROVE Committed(t, k, q.record.payload)
    <3>1. /\ ValidateEventDeliveryRecord(q.record, k)
          /\ \/ t = Write(s, "event", q.record)
             \/ /\ t = s /\ s["event"][k] # Absent /\ ValidateEventDeliveryRecord(s["event"][k], k)
                /\ s["event"][k].payload = q.record.payload
      BY <1>2, <2>5, DeliverServed
    <3>2. q.record # Absent
      BY <1>0, <2>1, Special
    <3> HIDE DEF t
    <3>3. CASE t = Write(s, "event", q.record)
      <4>1. t["event"][k] = q.record
        BY <2>2, <2>5, <3>3, Zenon
      <4> QED
        BY <3>1, <3>2, <4>1, Zenon DEF Committed
    <3> QED
      BY <3>1, <3>3, Zenon DEF Committed
  <2> QED
    BY <2>4, <2>5, Zenon
<1>3. CASE q.rpc = "PutEvent"
  <2>1. q.record \in EventObject
    BY <1>3, RequestFields
  <2>2. \A j \in Keys("event") : Write(s, "event", q.record)["event"][j] =
            IF j = q.record.key THEN q.record ELSE s["event"][j]
    BY <1>0, <2>1, WriteEffect
  <2>3. PutEvent(s, q).store \in {s, Write(s, "event", q.record)}
    BY Zenon DEF PutEvent, PutPoint, Ok, Error
  <2>4. t \in {s, Write(s, "event", q.record)}
    BY <1>3, <2>3, PutRoutes, Zenon
  <2> QED
    BY <1>3, <2>2, <2>4, Zenon DEF EventKept
<1>4. CASE q.rpc = "DeleteEvent"
  <2>1. \A j \in Keys("event") : Remove(s, "event", q.key)["event"][j] =
            IF j = q.key THEN Absent ELSE s["event"][j]
    BY <1>0, RemoveEffect
  <2>2. DeleteEvent(s, q).store \in {s, Remove(s, "event", q.key)}
    BY Zenon DEF DeleteEvent, DeletePoint, Ok, Error
  <2>3. t \in {s, Remove(s, "event", q.key)}
    BY <1>4, <2>2, DeleteRoutes, Zenon
  <2> QED
    BY <1>4, <2>1, <2>3, Zenon DEF EventKept
<1> QED
  BY <1>1, <1>2, <1>3, <1>4, Zenon

Owned(s, k, c) == k \in Keys("claim") /\ s["claim"][k] = ClaimRecord(k, c)

LEMMA ClaimRecords ==
  /\ \A k, c : ClaimRecord(k, c) # Absent
  /\ \A k, c, d : ClaimRecord(k, c) = ClaimRecord(k, d) => c = d
  /\ \A r \in ClaimObject : r.schema = "V1" => r = ClaimRecord(r.key, r.owner)
<1>1. \A k, c : DOMAIN ClaimRecord(k, c) = {"schema", "key", "owner"} /\ ClaimRecord(k, c).owner = c
  BY DEF ClaimRecord
<1>2. \A k, c : ClaimRecord(k, c) # Absent
  BY <1>1 DEF Absent
<1>3. \A r \in ClaimObject : r.schema = "V1" => r = ClaimRecord(r.key, r.owner)
  BY DEF ClaimRecord, ClaimObject
<1>4. ASSUME NEW k, NEW c, NEW d, ClaimRecord(k, c) = ClaimRecord(k, d) PROVE c = d
  <2>1. ClaimRecord(k, c).owner = c /\ ClaimRecord(k, d).owner = d
    BY <1>1, Zenon
  <2> QED
    BY <1>4, <2>1, Zenon
<1> QED
  BY <1>2, <1>3, <1>4, Zenon

Grows(s, t) == \A k \in Keys("claim") : s["claim"][k] # Absent => t["claim"][k] = s["claim"][k]

LEMMA OwnedKept ==
  ASSUME NEW s, NEW t, Grows(s, t), NEW k, NEW c, Owned(s, k, c) PROVE Owned(t, k, c)
  BY ClaimRecords, Zenon DEF Grows, Owned

(* A claim has one owner. *)
LEMMA OneOwner ==
  ASSUME NEW s, NEW k, NEW c, Owned(s, k, c)
  PROVE  s["claim"][k] # Absent /\ \A d : Owned(s, k, d) => d = c
  BY ClaimRecords, Zenon DEF Owned

(* What the server does to the claims: it creates some, or deletes the one   *)
(* it is asked to.                                                           *)
Claims(s, t, q) ==
  \/ Grows(s, t)
  \/ /\ q.rpc = "DeleteClaim" /\ q.key \in Keys("claim") /\ s["claim"][q.key] # Absent
     /\ \A k \in Keys("claim") \ {q.key} : t["claim"][k] = s["claim"][k]

LEMMA ServedClaim ==
  ASSUME NEW s, StoreOK(s), NEW v, NEW q \in Request
  PROVE  /\ Claims(s, Route(s, v, q).store, q)
         /\ q.rpc = "TryCreateClaim" /\ Route(s, v, q).code = "ok" /\ Route(s, v, q).body.created =>
              s["claim"][q.record.key] = Absent /\ Owned(Route(s, v, q).store, q.record.key, q.record.owner)
<1> DEFINE t == Route(s, v, q).store
<1>0. "claim" \in Kinds /\ Object("claim") = ClaimObject
  BY Zenon DEF Kinds, Object
<1>1. CASE q.rpc \notin {"TryCreateClaim", "DeleteClaim"}
  <2>1. Effect(s, q, t)
    BY RouteEffect
  <2>2. t["claim"] = s["claim"]
    BY <1>1, <2>1, EffectKeeps
  <2> QED
    BY <1>1, <2>2, Zenon DEF Grows, Claims
<1>2. CASE q.rpc = "TryCreateClaim"
  <2> DEFINE j == q.record.key
  <2>1. q.record \in ClaimObject
    BY <1>2, RequestFields
  <2>2. \A k \in Keys("claim") : Write(s, "claim", q.record)["claim"][k] =
            IF k = j THEN q.record ELSE s["claim"][k]
    BY <1>0, <2>1, WriteEffect
  <2>3. t = s \/ (s["claim"][j] = Absent /\ t = Write(s, "claim", q.record))
    BY <1>2, CreateServed, Zenon
  <2>4. Grows(s, t)
    BY <2>2, <2>3, Zenon DEF Grows
  <2>5. ASSUME Route(s, v, q).code = "ok", Route(s, v, q).body.created
        PROVE  s["claim"][j] = Absent /\ Owned(t, j, q.record.owner)
    <3>1. ValidateRecord(q.record, j) /\ s["claim"][j] = Absent /\ t = Write(s, "claim", q.record)
      BY <1>2, <2>5, CreateServed, Zenon
    <3>2. j \in Keys("claim")
      <4>1. j \in ActivityKey
        BY <2>1 DEF ClaimObject, ClaimKey
      <4> QED
        BY <3>1, <4>1, KeyFacts, Zenon DEF ValidateRecord
    <3>3. q.record = ClaimRecord(j, q.record.owner)
      <4>1. q.record.schema = "V1"
        BY <3>1, Zenon DEF ValidateRecord
      <4> QED
        BY <2>1, <4>1, ClaimRecords
    <3>4. t["claim"][j] = q.record
      BY <2>2, <3>1, <3>2, Zenon
    <3> QED
      BY <3>1, <3>2, <3>3, <3>4, Zenon DEF Owned
  <2> QED
    BY <1>2, <2>4, <2>5, Zenon DEF Claims
<1>3. CASE q.rpc = "DeleteClaim"
  <2>1. q.key \in ActivityKey
    BY <1>3, RequestFields
  <2>2. \A k \in Keys("claim") : Remove(s, "claim", q.key)["claim"][k] =
            IF k = q.key THEN Absent ELSE s["claim"][k]
    BY <1>0, RemoveEffect
  <2>3. t = s \/ (Validate(q.key) /\ t = Remove(s, "claim", q.key))
    BY <1>3, ReleaseServed, Zenon
  <2>4. Validate(q.key) => q.key \in Keys("claim")
    BY <2>1, KeyFacts, Zenon
  <2> HIDE DEF t
  <2>5. CASE t = s
    BY <1>3, <2>5, Zenon DEF Grows, Claims, t
  <2>6. CASE Validate(q.key) /\ t = Remove(s, "claim", q.key)
    <3>1. CASE s["claim"][q.key] = Absent
      <4>1. Grows(s, t)
        BY <2>2, <2>6, <3>1, Zenon DEF Grows
      <4> QED
        BY <1>3, <4>1, Zenon DEF Claims, t
    <3>2. CASE s["claim"][q.key] # Absent
      <4>1. q.key \in Keys("claim") /\ \A k \in Keys("claim") \ {q.key} : t["claim"][k] = s["claim"][k]
        BY <2>2, <2>4, <2>6, Zenon
      <4> QED
        BY <1>3, <3>2, <4>1, Zenon DEF Claims, t
    <3> QED
      BY <3>1, <3>2, Zenon
  <2> QED
    BY <2>3, <2>5, <2>6, Zenon
<1> QED
  BY <1>1, <1>2, <1>3, Zenon

-----------------------------------------------------------------------------
(* What the client makes of the answers. *)

LEMMA Outcomes ==
  /\ \A is, x : Outcome(is, x).is = is /\ Outcome(is, x).value = x
  /\ \A S : Records(S).is = "records" /\ Records(S).value.records = S
  /\ Failed.is = "failed" /\ Corrupt.is = "corrupt"
  BY Zenon DEF Outcome, Records, Failed, Corrupt

LEMMA ErrorOutcome ==
  ASSUME NEW r PROVE clientStoreError(r).is \in {"corrupt", "conflict", "unsupported", "failed"}
<1>1. clientStoreError(r) \in {Corrupt, Outcome("conflict", Nil), Outcome("unsupported", Nil), Failed}
  BY Zenon DEF clientStoreError
<1> QED
  BY <1>1, Outcomes

LEMMA AcceptCases ==
  ASSUME NEW q, NEW r
  PROVE  /\ q.rpc \in PointReads => Accept(q, r) = AcceptPoint(q, r)
         /\ q.rpc \in RunListings \cup Scans => Accept(q, r) = AcceptList(q, r)
         /\ q.rpc \in DueReads => Accept(q, r) = validateDueTimerEntry(q, r)
         /\ q.rpc = "DeliverEvent" => Accept(q, r) = AcceptDelivery(q, r)
         /\ q.rpc = "GetStoreCapabilities" => Accept(q, r) = AcceptCapabilities(r)
         /\ q.rpc \notin PointReads \cup Listings \cup {"DeliverEvent", "GetStoreCapabilities"} =>
              Accept(q, r) = AcceptWrite(r)
<1>1. q.rpc \in PointReads => Accept(q, r) = AcceptPoint(q, r)
  BY Zenon DEF Accept, PointReads, ClientGetWorkflow, ClientGetActivity, ClientGetTimer,
     ClientGetEvent, ClientGetClaim
<1>2. q.rpc \in RunListings \cup Scans => Accept(q, r) = AcceptList(q, r)
  BY Zenon DEF Accept, RunListings, Scans, ClientListActivities, ClientListTimers, ClientListEvents,
     ClientListClaims, ClientListWorkflows, ClientListActivitiesQuery
<1>3. q.rpc \in DueReads => Accept(q, r) = validateDueTimerEntry(q, r)
  BY Zenon DEF Accept, DueReads, ClientDueTimers, ClientDueTimersQuery
<1>4. q.rpc = "DeliverEvent" => Accept(q, r) = AcceptDelivery(q, r)
  BY Zenon DEF Accept
<1>5. q.rpc = "GetStoreCapabilities" => Accept(q, r) = AcceptCapabilities(r)
  BY Zenon DEF Accept
<1>6. q.rpc \notin PointReads \cup Listings \cup {"DeliverEvent", "GetStoreCapabilities"} =>
        Accept(q, r) = AcceptWrite(r)
  BY DEF Accept, PointReads, Listings, RunListings, Scans, DueReads, ClientPutActivity, ClientPutWorkflow,
     ClientPutTimer, ClientDeleteWorkflow, ClientDeleteActivity, ClientDeleteTimer, ClientDeleteEvent,
     ClientPutEvent, ClientTryCreateClaim, ClientDeleteClaim
<1> QED
  BY <1>1, <1>2, <1>3, <1>4, <1>5, <1>6, Zenon

(* A point read that returns has a record of its key or none; *)
LEMMA PointAccepted ==
  ASSUME NEW q, NEW r
  PROVE  /\ AcceptPoint(q, r).is \in {"records", "corrupt", "conflict", "unsupported", "failed"}
         /\ AcceptPoint(q, r).is = "records" =>
              /\ r.code = "ok"
              /\ \/ ~ r.body.found /\ AcceptPoint(q, r).value.records = {}
                 \/ r.body.found /\ ValidateRecord(r.body.record, q.key)
                    /\ AcceptPoint(q, r).value.records = {r.body.record}
<1>1. CASE r.code # "ok"
  <2>1. AcceptPoint(q, r) = clientStoreError(r)
    BY <1>1, Zenon DEF AcceptPoint
  <2> QED
    BY <2>1, ErrorOutcome, Zenon
<1>2. CASE r.code = "ok"
  <2>1. \/ AcceptPoint(q, r) = Corrupt
        \/ ~ r.body.found /\ AcceptPoint(q, r) = Records({})
        \/ r.body.found /\ ValidateRecord(r.body.record, q.key) /\ AcceptPoint(q, r) = Records({r.body.record})
    <3>1. CASE r.body.found # (r.body.record # Nil)
      BY <1>2, <3>1, Zenon DEF AcceptPoint
    <3>2. CASE ~ (r.body.found # (r.body.record # Nil))
      <4>1. AcceptPoint(q, r) = IF ~ r.body.found THEN Records({})
                                ELSE IF ~ ValidateRecord(r.body.record, q.key) THEN Corrupt
                                ELSE Records({r.body.record})
        BY <1>2, <3>2, Zenon DEF AcceptPoint
      <4> QED
        BY <4>1, Zenon
    <3> QED
      BY <3>1, <3>2, Zenon
  <2> QED
    BY <1>2, <2>1, Outcomes
<1> QED
  BY <1>1, <1>2, Zenon

(* and every outcome says what its answer said. *)
LEMMA Accepted ==
  ASSUME NEW q, NEW r
  PROVE  LET o == Accept(q, r)
         IN  /\ o.is = "records" => r.code = "ok" /\ (q.rpc \in PointReads
                                                      \/ (q.rpc \in Listings /\ o.value.records = r.body.records))
             /\ o.is = "delivered" => q.rpc = "DeliverEvent" /\ r.code = "ok" /\ o.value = r.body
             /\ o.is = "capabilities" => q.rpc = "GetStoreCapabilities" /\ r.code = "ok" /\ o.value = r.body
             /\ o.is = "done" => r.code = "ok" /\ o.value = r.body
<1> DEFINE o == Accept(q, r)
<1>1. o = clientStoreError(r) => o.is \in {"corrupt", "conflict", "unsupported", "failed"}
  BY ErrorOutcome, Zenon
<1>2. CASE q.rpc \in PointReads
  <2>1. o = AcceptPoint(q, r)
    BY <1>2, AcceptCases, Zenon
  <2> HIDE DEF o
  <2>2. /\ o.is \in {"records", "corrupt", "conflict", "unsupported", "failed"}
        /\ o.is = "records" => r.code = "ok"
    BY <2>1, PointAccepted
  <2> QED
    BY <1>2, <2>2, Zenon DEF o
<1>3. CASE q.rpc \in Listings
  <2>1. \/ o = clientStoreError(r)
        \/ o = Corrupt
        \/ r.code = "ok" /\ o = Records(r.body.records)
    <3>1. CASE q.rpc \in DueReads
      <4>1. o = validateDueTimerEntry(q, r)
        BY <3>1, AcceptCases, Zenon
      <4> QED
        BY <4>1, Zenon DEF validateDueTimerEntry
    <3>2. CASE q.rpc \in RunListings \cup Scans
      <4>1. o = AcceptList(q, r)
        BY <3>2, AcceptCases, Zenon
      <4> QED
        BY <4>1, Zenon DEF AcceptList
    <3> QED
      BY <1>3, <3>1, <3>2, Zenon DEF Listings
  <2> HIDE DEF o
  <2>2. \/ o.is \in {"corrupt", "conflict", "unsupported", "failed"}
        \/ o.is = "records" /\ r.code = "ok" /\ o.value.records = r.body.records
    BY <1>1, <2>1, Outcomes
  <2> QED
    BY <1>3, <2>2, Zenon DEF o
<1>4. CASE q.rpc = "DeliverEvent"
  <2>1. \/ o = clientStoreError(r)
        \/ o = Corrupt
        \/ r.code = "ok" /\ o = Outcome("delivered", r.body)
    <3>1. o = AcceptDelivery(q, r)
      BY <1>4, AcceptCases, Zenon
    <3> QED
      BY <3>1, Zenon DEF AcceptDelivery
  <2> HIDE DEF o
  <2>2. \/ o.is \in {"corrupt", "conflict", "unsupported", "failed"}
        \/ o.is = "delivered" /\ r.code = "ok" /\ o.value = r.body
    BY <1>1, <2>1, Outcomes
  <2> QED
    BY <1>4, <2>2, Zenon DEF o
<1>5. CASE q.rpc = "GetStoreCapabilities"
  <2>1. \/ o = clientStoreError(r)
        \/ o \in {Failed, Corrupt}
        \/ r.code = "ok" /\ o = Outcome("capabilities", r.body)
    <3>1. o = AcceptCapabilities(r)
      BY <1>5, AcceptCases, Zenon
    <3> QED
      BY <3>1, Zenon DEF AcceptCapabilities
  <2> HIDE DEF o
  <2>2. \/ o.is \in {"corrupt", "conflict", "unsupported", "failed"}
        \/ o.is = "capabilities" /\ r.code = "ok" /\ o.value = r.body
    BY <1>1, <2>1, Outcomes
  <2> QED
    BY <1>5, <2>2, Zenon DEF o
<1>6. CASE q.rpc \notin PointReads \cup Listings \cup {"DeliverEvent", "GetStoreCapabilities"}
  <2>1. o = clientStoreError(r) \/ (r.code = "ok" /\ o = Outcome("done", r.body))
    <3>1. o = AcceptWrite(r)
      BY <1>6, AcceptCases, Zenon
    <3> QED
      BY <3>1, Zenon DEF AcceptWrite
  <2> HIDE DEF o
  <2>2. \/ o.is \in {"corrupt", "conflict", "unsupported", "failed"}
        \/ o.is = "done" /\ r.code = "ok" /\ o.value = r.body
    BY <1>1, <2>1, Outcomes
  <2> QED
    BY <2>2, Zenon DEF o
<1> QED
  BY <1>2, <1>3, <1>4, <1>5, <1>6, Zenon

LEMMA AcceptedChange ==
  ASSUME NEW q, NEW r
  PROVE  /\ Accept(q, r).is = "delivered" => q.rpc = "DeliverEvent" /\ r.code = "ok"
         /\ Accept(q, r).is = "done" => r.code = "ok" /\ Accept(q, r).value = r.body
  BY Accepted

-----------------------------------------------------------------------------
(* The invariant.  R are the requests of the workload. *)

(* What a client has in flight belongs to its method: the request itself, or *)
(* what GetLatestWorkflowRun and SendEvent make of it.                       *)
InFlight(R, c, m, q, h) ==
  /\ m \in R
  /\ m.rpc = "TryCreateClaim" => m.record.owner = c
  /\ \/ m.rpc # "SendEvent" /\ q = m
     \/ /\ m.rpc = "GetLatestWorkflowRun" /\ q = GetWorkflowRequest(h.key)
        /\ h \in PointerObject /\ h.key.workflow = m.workflow
     \/ m.rpc = "SendEvent" /\ h = m.record /\ q \in {GetStoreCapabilitiesRequest, DeliverEventRequest(h)}

(* A successful answer says what the objects said when it was served. *)
ReplyOK(q, r, T) ==
  /\ q.rpc \in PointReads /\ ~ T.garbled => PointTrue(r.body, T)
  /\ q.rpc \in Listings => ListTrue(r.body, T)
  /\ q.rpc = "GetLatestWorkflowRun" => r.body \in LatestBody
  /\ q.rpc = "DeliverEvent" =>
       /\ ValidateEventDeliveryRecord(q.record, q.record.key)
       /\ "found" \notin DOMAIN r.body /\ r.body.disposition \in EventDeliveryDisposition
  /\ q.rpc = "TryCreateClaim" => ValidateRecord(q.record, q.record.key) /\ "found" \notin DOMAIN r.body
  /\ q.rpc = "GetStoreCapabilities" =>
       /\ "found" \notin DOMAIN r.body
       /\ r.body.fenced \in FencedExecutionCapability
       /\ r.body.claim \in ClaimCapability
       /\ r.body.delivery \in EventDeliveryCapability

Stages == {"idle", "sent", "publish", "deref", "confirm", "answered"}

CallOK(R, c, m, q, st, h, r, T) ==
  /\ st \in Stages
  /\ DOMAIN T = TruthFields
  /\ r # Nil => Refusal(r)
  /\ st = "answered" => DOMAIN r = {"code", "body"}
  /\ st # "idle" => InFlight(R, c, m, q, h)
  /\ st = "publish" => q.rpc = "PutWorkflow"
  /\ st \in {"deref", "confirm"} => q.rpc = "GetLatestWorkflowRun" /\ r.body.record \in PointerObject
  /\ st = "answered" /\ r.code = "ok" => ReplyOK(q, r, T)

(* What a method that has returned says. *)
ReturnOK(x) ==
  /\ x.outcome.is = "delivered" => x.outcome.value.disposition \in EventDeliveryDisposition
  /\ x.outcome.is = "capabilities" =>
       /\ x.outcome.value.fenced \in FencedExecutionCapability
       /\ x.outcome.value.claim \in ClaimCapability
       /\ x.outcome.value.delivery \in EventDeliveryCapability
  /\ x.outcome.is = "records" =>
       LET q == x.method
           S == x.outcome.value.records
           T == x.truth
       IN  IF q.rpc = "GetLatestWorkflowRun"
             THEN \A p \in S : /\ p.key.workflow = q.workflow
                               /\ ~ T.garbled => p \in {LatestWorkflowRunPointer(r) : r \in T.records}
           ELSE IF T.garbled THEN \A r \in S : ValidateRecord(r, q.key)
           ELSE T.sound /\ S = T.records

(* What may be applied late. *)
Lates(R) == R \cup {DeliverEventRequest(r) : r \in {q.record : q \in {x \in R : x.rpc = "SendEvent"}}}

CallsOK ==
  /\ DOMAIN method = Clients /\ DOMAIN call = Clients /\ DOMAIN hand = Clients
  /\ DOMAIN reply = Clients /\ DOMAIN truth = Clients /\ stage \in [Clients -> Stages]
  /\ \A c \in Clients :
       CallOK(Load.requests, c, method[c], call[c], stage[c], hand[c], reply[c], truth[c])

HistoryOK ==
  /\ late \subseteq Lates(Load.requests)
  /\ holds \in [Clients -> SUBSET ClaimKey]
  /\ accepted \in [Keys("event") -> SUBSET Payloads]
  /\ revoked \in BOOLEAN /\ faults \in 0..Load.faults

RecordInv ==
  /\ workload \in DOMAIN Workloads
  /\ StoreOK(stored) /\ ClaimsFit(stored, Load)
  /\ CallsOK
  /\ returned # Nil => ReturnOK(returned)
  /\ HistoryOK

-----------------------------------------------------------------------------
(* A step of one client. *)

(* g is f with v at c. *)
Sets(f, g, c, v) == DOMAIN g = Clients /\ g[c] = v /\ \A d \in Clients \ {c} : g[d] = f[d]

LEMMA SetFacts ==
  ASSUME NEW f, DOMAIN f = Clients, NEW c \in Clients, NEW v, NEW g,
         g = [f EXCEPT ![c] = v] \/ (g = f /\ v = f[c])
  PROVE  Sets(f, g, c, v)
  BY Zenon DEF Sets

(* The client c has come to have m, q, st, h, r and T. *)
Moves(c, m, q, st, h, r, T) ==
  /\ Sets(method, method', c, m) /\ Sets(call, call', c, q)
  /\ Sets(stage, stage', c, st) /\ stage' \in [Clients -> Stages] /\ Sets(hand, hand', c, h)
  /\ Sets(reply, reply', c, r) /\ Sets(truth, truth', c, T)

(* What an action does to the client c: each of its variables is set or left. *)
Alters(f, g, c, v) == g = [f EXCEPT ![c] = v] \/ (g = f /\ v = f[c])

LEMMA MovesBy ==
  ASSUME CallsOK, NEW c \in Clients, NEW m, NEW q, NEW st \in Stages, NEW h, NEW r, NEW T,
         Alters(method, method', c, m), Alters(call, call', c, q), Alters(stage, stage', c, st),
         Alters(hand, hand', c, h), Alters(reply, reply', c, r), Alters(truth, truth', c, T)
  PROVE  Moves(c, m, q, st, h, r, T)
<1>1. /\ DOMAIN method = Clients /\ DOMAIN call = Clients /\ DOMAIN hand = Clients
      /\ DOMAIN reply = Clients /\ DOMAIN truth = Clients
      /\ stage \in [Clients -> Stages] /\ DOMAIN stage = Clients
  BY DEF CallsOK
<1>2. \A f, g, v : DOMAIN f = Clients /\ Alters(f, g, c, v) => Sets(f, g, c, v)
  BY SetFacts, Zenon DEF Alters
<1>3. stage' \in [Clients -> Stages]
  BY <1>1 DEF Alters
<1> QED
  BY <1>1, <1>2, <1>3, Zenon DEF Moves

LEMMA CallsMove ==
  ASSUME CallsOK, workload' = workload, NEW c \in Clients, NEW m, NEW q, NEW st, NEW h, NEW r, NEW T,
         Moves(c, m, q, st, h, r, T), CallOK(Load.requests, c, m, q, st, h, r, T)
  PROVE  CallsOK'
<1>1. Load' = Load
  BY Zenon DEF Load
<1>2. ASSUME NEW d \in Clients
      PROVE  CallOK(Load.requests, d, method'[d], call'[d], stage'[d], hand'[d], reply'[d], truth'[d])
  <2>1. CASE d = c
    BY <2>1, Zenon DEF Moves, Sets
  <2>2. CASE d # c
    BY <2>2, Zenon DEF Moves, Sets, CallsOK
  <2> QED
    BY <2>1, <2>2, Zenon
<1> QED
  BY <1>1, <1>2, Zenon DEF Moves, Sets, CallsOK

(* What is in flight is a well-formed request, and one that puts or deletes  *)
(* an event is one of the workload.                                          *)
LEMMA RequestsTyped ==
  ASSUME workload \in DOMAIN Workloads
  PROVE  /\ Load.requests \subseteq Request
         /\ Load.claims \in ClaimCapability \cup {"absent"}
         /\ Load.delivery \in EventDeliveryCapability \cup {"absent"}
         /\ Load.faults \in Nat
  BY WorkloadsTyped, Zenon DEF Load

LEMMA FlightTyped ==
  ASSUME NEW R \in SUBSET Request, NEW c, NEW m, NEW q, NEW h, InFlight(R, c, m, q, h)
  PROVE  /\ q \in Request /\ q \in Lates(R) \cup {GetStoreCapabilitiesRequest, GetWorkflowRequest(h.key)}
         /\ q.rpc \in {"PutEvent", "DeleteEvent"} => q \in R
         /\ q.rpc = "TryCreateClaim" => q.record.owner = c
         /\ q.rpc \in Mutations => q \in Lates(R)
<1>1. CASE m.rpc # "SendEvent" /\ q = m
  BY <1>1, Zenon DEF InFlight, Lates
<1>2. CASE q = GetWorkflowRequest(h.key) /\ h \in PointerObject
  <2>1. q.rpc = "GetWorkflow" /\ q \in [rpc : {"GetWorkflow", "DeleteWorkflow", "ListActivities",
                                               "ListEvents", "ListClaims"},
                                        key : WorkflowKey]
    BY <1>2 DEF GetWorkflowRequest, PointerObject
  <2>2. q \in Request
    BY <2>1, Zenon DEF Request
  <2>3. "GetWorkflow" \notin Mutations
    BY Zenon DEF Mutations
  <2> QED
    BY <1>2, <2>1, <2>2, <2>3, Zenon
<1>3. CASE q = GetStoreCapabilitiesRequest
  <2>1. q.rpc = "GetStoreCapabilities" /\ q \in [rpc : {"GetStoreCapabilities", "AcquireExecution"}]
    BY <1>3 DEF GetStoreCapabilitiesRequest
  <2>2. q \in Request
    BY <2>1, Zenon DEF Request
  <2>3. "GetStoreCapabilities" \notin Mutations
    BY Zenon DEF Mutations
  <2> QED
    BY <1>3, <2>1, <2>2, <2>3, Zenon
<1>4. CASE q = DeliverEventRequest(h) /\ h = m.record /\ m.rpc = "SendEvent"
  <2>1. m \in R /\ m \in Request
    BY Zenon DEF InFlight
  <2>2. h \in EventObject
    BY <1>4, <2>1, RequestFields
  <2>3. q.rpc = "DeliverEvent" /\ q \in [rpc : {"PutEvent", "DeliverEvent", "SendEvent"}, record : EventObject]
    BY <1>4, <2>2 DEF DeliverEventRequest
  <2>4. q \in Request
    BY <2>3, Zenon DEF Request
  <2>5. q \in Lates(R)
    BY <1>4, <2>1, Zenon DEF Lates
  <2> QED
    BY <2>3, <2>4, <2>5, Zenon
<1> QED
  BY <1>1, <1>2, <1>3, <1>4, Zenon DEF InFlight

LEMMA LatesTyped ==
  ASSUME NEW R \in SUBSET Request, NEW q \in Lates(R)
  PROVE  q \in Request /\ (q.rpc \in {"PutEvent", "DeleteEvent"} => q \in R)
<1>1. CASE q \in R
  BY <1>1, Zenon
<1>2. ASSUME NEW m \in R, m.rpc = "SendEvent", q = DeliverEventRequest(m.record)
      PROVE  q \in Request /\ q.rpc = "DeliverEvent"
  <2>1. m.record \in EventObject
    BY <1>2, RequestFields
  <2>2. q.rpc = "DeliverEvent" /\ q \in [rpc : {"PutEvent", "DeliverEvent", "SendEvent"}, record : EventObject]
    BY <1>2, <2>1 DEF DeliverEventRequest
  <2> QED
    BY <2>2, Zenon DEF Request
<1> QED
  BY <1>1, <1>2, Zenon DEF Lates

(* One more fault is within the bound. *)
LEMMA FaultCounted ==
  ASSUME NEW n \in Nat, NEW f \in 0..n, f < n PROVE f + 1 \in 0..n
  OBVIOUS

LEMMA FaultKept ==
  ASSUME RecordInv, Fault, workload' = workload
  PROVE  faults' \in 0..Load'.faults
<1>1. Load' = Load /\ Load.faults \in Nat /\ faults \in 0..Load.faults
  BY RequestsTyped, Zenon DEF RecordInv, HistoryOK, Load
<1> QED
  BY <1>1, FaultCounted, Zenon DEF Fault

(* A step that leaves its part of the state in order keeps the invariant. *)
LEMMA StepKeeps ==
  ASSUME RecordInv, workload' = workload,
         NEW c \in Clients, NEW m, NEW q, NEW st, NEW h, NEW r, NEW T,
         Moves(c, m, q, st, h, r, T), CallOK(Load.requests, c, m, q, st, h, r, T),
         StoreOK(stored'), ClaimsFit(stored', Load), returned' # Nil => ReturnOK(returned'), HistoryOK'
  PROVE  RecordInv'
<1>1. Load' = Load
  BY Zenon DEF Load
<1>2. CallsOK'
  BY CallsMove, Zenon DEF RecordInv
<1> QED
  BY <1>1, <1>2, Zenon DEF RecordInv

LEMMA HistoryKept ==
  ASSUME RecordInv, workload' = workload, UNCHANGED <<late, holds, accepted, revoked>>,
         UNCHANGED faults \/ Fault
  PROVE  HistoryOK'
<1>1. Load' = Load
  BY Zenon DEF Load
<1>2. faults' \in 0..Load'.faults
  BY <1>1, FaultKept, Zenon DEF RecordInv, HistoryOK
<1> QED
  BY <1>1, <1>2, Zenon DEF RecordInv, HistoryOK

(* What the server leaves, whatever it is asked. *)
LEMMA ServedStore ==
  ASSUME NEW s, StoreOK(s), NEW v, ClaimsFit(s, v), NEW q \in Request
  PROVE  StoreOK(Route(s, v, q).store) /\ ClaimsFit(Route(s, v, q).store, v)
<1> DEFINE t == Route(s, v, q).store
<1>1. Effect(s, q, t)
  BY RouteEffect
<1>2. StoreOK(t) /\ (q.rpc \notin {"TryCreateClaim", "DeleteClaim"} => t["claim"] = s["claim"])
  BY <1>1, EffectKeeps
<1>3. CASE q.rpc \notin {"TryCreateClaim", "DeleteClaim"}
  BY <1>2, <1>3, Zenon DEF ClaimsFit
<1>4. CASE q.rpc = "TryCreateClaim"
  <2>1. t = s \/ v.claims = "CREATE_ONLY"
    BY <1>4, CreateServed
  <2> QED
    BY <1>2, <2>1, Zenon DEF ClaimsFit
<1>5. CASE q.rpc = "DeleteClaim"
  <2>1. t = s \/ t = Remove(s, "claim", q.key)
    BY <1>5, ReleaseServed, Zenon
  <2>2. \A x \in Keys("claim") : Remove(s, "claim", q.key)["claim"][x] \in {Absent, s["claim"][x]}
    <3>1. "claim" \in Kinds
      BY Zenon DEF Kinds
    <3>2. \A x \in Keys("claim") :
            Remove(s, "claim", q.key)["claim"][x] = IF x = q.key THEN Absent ELSE s["claim"][x]
      BY <3>1, RemoveEffect
    <3> QED
      BY <3>2, Zenon
  <2> QED
    BY <1>2, <2>1, <2>2, Zenon DEF ClaimsFit
<1> QED
  BY <1>3, <1>4, <1>5, Zenon

(* A success says what it has to. *)
LEMMA ServedReply ==
  ASSUME NEW s, StoreOK(s), NEW v, v.claims \in ClaimCapability \cup {"absent"}, ClaimsFit(s, v),
         v.delivery \in EventDeliveryCapability \cup {"absent"}, NEW q \in Request, Route(s, v, q).code = "ok"
  PROVE  ReplyOK(q, Answer(Route(s, v, q)), Truth(s, q))
<1> DEFINE r == Route(s, v, q)
           T == Truth(s, q)
<1>0. Answer(r).body = r.body /\ Answer(r).code = r.code
  BY Zenon DEF Answer
<1>1. q.rpc \in PointReads => PointTrue(r.body, T)
  BY PointServed
<1>2. q.rpc \in Listings => ListTrue(r.body, T)
  <2>1. q.rpc \in RunListings => ListTrue(r.body, T)
    BY RunListed
  <2>2. q.rpc \in Scans => ListTrue(r.body, T)
    BY ScanListed
  <2>3. q.rpc \in DueReads => ListTrue(r.body, T)
    BY DueListed
  <2> QED
    BY <2>1, <2>2, <2>3, Zenon DEF Listings
<1>3. q.rpc = "GetLatestWorkflowRun" => r.body \in LatestBody
  <2>1. ASSUME q.rpc = "GetLatestWorkflowRun" PROVE \E p \in PointerObject \cup {Nil} : r.body = FoundBody(p)
    BY <2>1, LatestServed
  <2> QED
    BY <2>1, FoundLatest, Zenon
<1>4. q.rpc = "DeliverEvent" =>
        /\ ValidateEventDeliveryRecord(q.record, q.record.key)
        /\ "found" \notin DOMAIN r.body /\ r.body.disposition \in EventDeliveryDisposition
  <2>1. ASSUME q.rpc = "DeliverEvent"
        PROVE  /\ ValidateEventDeliveryRecord(q.record, q.record.key)
               /\ r.body \in {[disposition |-> "CREATED"], [disposition |-> "IDEMPOTENT"]}
    BY <2>1, DeliverServed, Zenon
  <2>2. \A b \in {[disposition |-> "CREATED"], [disposition |-> "IDEMPOTENT"]} :
          "found" \notin DOMAIN b /\ b.disposition \in EventDeliveryDisposition
    BY DEF EventDeliveryDisposition
  <2> QED
    BY <2>1, <2>2, Zenon
<1>5. q.rpc = "TryCreateClaim" => ValidateRecord(q.record, q.record.key) /\ "found" \notin DOMAIN r.body
  BY CreateServed, Zenon
<1>6. q.rpc = "GetStoreCapabilities" =>
        /\ "found" \notin DOMAIN r.body
        /\ r.body.fenced \in FencedExecutionCapability
        /\ r.body.claim \in ClaimCapability
        /\ r.body.delivery \in EventDeliveryCapability
  BY CapabilitiesServed
<1> HIDE DEF r, T
<1> QED
  BY <1>0, <1>1, <1>2, <1>3, <1>4, <1>5, <1>6, Zenon DEF ReplyOK, r, T

-----------------------------------------------------------------------------
(* Each action keeps it. *)

LEMMA StageNames ==
  "idle" \in Stages /\ "sent" \in Stages /\ "publish" \in Stages /\ "deref" \in Stages
  /\ "confirm" \in Stages /\ "answered" \in Stages
  BY Zenon DEF Stages

LEMMA InvokeKeeps ==
  ASSUME RecordInv, NEW c \in Clients, NEW q \in Load.requests, Invoke(c, q)
  PROVE  RecordInv'
<1> DEFINE sends == q.rpc = "SendEvent"
           p == IF sends THEN GetStoreCapabilitiesRequest ELSE q
           h == IF sends THEN q.record ELSE Nil
<1>1. Moves(c, q, p, "sent", h, Nil, truth[c])
  <2>1. /\ Alters(method, method', c, q) /\ Alters(call, call', c, p) /\ Alters(stage, stage', c, "sent")
        /\ Alters(hand, hand', c, h) /\ Alters(reply, reply', c, Nil) /\ Alters(truth, truth', c, truth[c])
    BY Zenon DEF Invoke, Send, Alters
  <2> QED
    BY <2>1, MovesBy, StageNames, Zenon DEF RecordInv
<1>2. CallOK(Load.requests, c, q, p, "sent", h, Nil, truth[c])
  <2>1. InFlight(Load.requests, c, q, p, h)
    BY Zenon DEF InFlight, Invoke, MayRequest
  <2>2. DOMAIN truth[c] = TruthFields
    BY Zenon DEF RecordInv, CallsOK, CallOK
  <2> QED
    BY <2>1, <2>2, StageNames, Zenon DEF CallOK
<1>3. UNCHANGED <<workload, stored, late, accepted, revoked, faults>> /\ returned' = Nil
  BY Zenon DEF Invoke, server
<1>4. HistoryOK'
  <2>1. holds' \in [Clients -> SUBSET ClaimKey]
    <3>1. holds \in [Clients -> SUBSET ClaimKey]
      BY Zenon DEF RecordInv, HistoryOK
    <3>2. holds' = holds \/ holds' = [holds EXCEPT ![c] = holds[c] \ {q.key}]
      BY Zenon DEF Invoke
    <3> QED
      BY <3>1, <3>2
  <2>2. Load' = Load
    BY <1>3, Zenon DEF Load
  <2> QED
    BY <1>3, <2>1, <2>2, Zenon DEF RecordInv, HistoryOK
<1> HIDE DEF p, h
<1> QED
  BY <1>1, <1>2, <1>3, <1>4, StepKeeps, Zenon DEF RecordInv

(* What is in flight, and the server it goes to. *)
LEMMA Current ==
  ASSUME RecordInv, NEW c \in Clients, stage[c] # "idle"
  PROVE  /\ InFlight(Load.requests, c, method[c], call[c], hand[c]) /\ call[c] \in Request
         /\ Load.requests \in SUBSET Request /\ DOMAIN truth[c] = TruthFields
         /\ CallOK(Load.requests, c, method[c], call[c], stage[c], hand[c], reply[c], truth[c])
<1>1. Load.requests \in SUBSET Request
  BY RequestsTyped, Zenon DEF RecordInv
<1>2. CallOK(Load.requests, c, method[c], call[c], stage[c], hand[c], reply[c], truth[c])
  BY Zenon DEF RecordInv, CallsOK
<1>3. InFlight(Load.requests, c, method[c], call[c], hand[c]) /\ DOMAIN truth[c] = TruthFields
  BY <1>2, Zenon DEF CallOK
<1> QED
  BY <1>1, <1>2, <1>3, FlightTyped, Zenon

LEMMA ServeKeeps ==
  ASSUME RecordInv, NEW c \in Clients, Serve(c)
  PROVE  RecordInv'
<1> DEFINE q == call[c]
           r == Route(stored, Load, q)
           T == Truth(stored, q)
           st == CASE r.code = "ok" /\ q.rpc = "PutWorkflow" -> "publish"
                   [] r.code = "ok" /\ q.rpc = "GetLatestWorkflowRun" /\ r.body.found -> "deref"
                   [] OTHER -> "answered"
<1>1. /\ Alters(method, method', c, method[c]) /\ Alters(call, call', c, q) /\ Alters(stage, stage', c, st)
      /\ Alters(hand, hand', c, hand[c]) /\ Alters(reply, reply', c, Answer(r)) /\ Alters(truth, truth', c, T)
      /\ stored' = r.store
  BY Zenon DEF Serve, Handle, Alters
<1>2. UNCHANGED <<workload, late, holds, accepted, revoked, faults>> /\ returned' = Nil
  BY Zenon DEF Serve, history
<1>3. \/ st = "publish" /\ q.rpc = "PutWorkflow"
      \/ st = "deref" /\ r.code = "ok" /\ q.rpc = "GetLatestWorkflowRun" /\ r.body.found
      \/ st = "answered"
  BY Zenon
<1>4. stage[c] # "idle"
  BY Zenon DEF Serve
<1>5. InFlight(Load.requests, c, method[c], q, hand[c]) /\ q \in Request
  BY <1>4, Current
<1>6. StoreOK(r.store) /\ ClaimsFit(r.store, Load)
  BY <1>5, ServedStore, Zenon DEF RecordInv
<1>7. r.code = "ok" => ReplyOK(q, Answer(r), T)
  BY <1>5, ServedReply, RequestsTyped, Zenon DEF RecordInv
<1>8. DOMAIN T = TruthFields
  BY TruthDomain
<1>9. Refusal(r)
  BY <1>5, RefusalServed
<1> HIDE DEF q, r, T, st
<1>10. Answer(r).body = r.body /\ Answer(r).code = r.code /\ DOMAIN Answer(r) = {"code", "body"}
  BY DEF Answer
<1>11. Refusal(Answer(r))
  BY <1>9, <1>10, Zenon DEF Refusal
<1>12. st = "deref" => r.body.record \in PointerObject
  <2>1. ASSUME st = "deref"
        PROVE  r.body \in LatestBody /\ \E p \in PointerObject \cup {Nil} : r.body = FoundBody(p)
    <3>1. r.code = "ok" /\ q.rpc = "GetLatestWorkflowRun"
      BY <1>3, <2>1, Zenon
    <3>2. StoreOK(stored)
      BY Zenon DEF RecordInv
    <3> QED
      BY <1>5, <3>1, <3>2, LatestServed, FoundLatest, Zenon DEF r
  <2> QED
    BY <1>3, <2>1, FoundFields, Zenon
<1>13. CallOK(Load.requests, c, method[c], q, st, hand[c], Answer(r), T)
  BY <1>3, <1>5, <1>7, <1>8, <1>10, <1>11, <1>12, StageNames, Zenon DEF CallOK
<1>14. st \in Stages
  BY <1>3, StageNames, Zenon
<1>15. Moves(c, method[c], q, st, hand[c], Answer(r), T)
  BY <1>1, <1>14, MovesBy, Zenon DEF RecordInv
<1>16. HistoryOK'
  BY <1>2, HistoryKept
<1> QED
  BY <1>1, <1>2, <1>6, <1>13, <1>15, <1>16, StepKeeps, Zenon

LEMMA PublishKeeps ==
  ASSUME RecordInv, NEW c \in Clients, Publish(c)
  PROVE  RecordInv'
<1> DEFINE q == call[c]
           r == PublishPointer(stored, q.record)
<1>1. /\ Alters(method, method', c, method[c]) /\ Alters(call, call', c, q)
      /\ Alters(stage, stage', c, "answered")
      /\ Alters(hand, hand', c, hand[c]) /\ Alters(reply, reply', c, Answer(r))
      /\ Alters(truth, truth', c, truth[c])
      /\ stored' = r.store
  BY Zenon DEF Publish, Alters
<1>2. UNCHANGED <<workload, late, holds, accepted, revoked, faults>> /\ returned' = Nil
  BY Zenon DEF Publish, history
<1>3. stage[c] = "publish" /\ stage[c] # "idle"
  BY Zenon DEF Publish
<1>4. InFlight(Load.requests, c, method[c], q, hand[c]) /\ q \in Request /\ DOMAIN truth[c] = TruthFields
  BY <1>3, Current
<1>5. q.rpc = "PutWorkflow"
  BY <1>3, Current, Zenon DEF CallOK
<1>6. q.record \in WorkflowObject
  BY <1>4, <1>5, RequestFields
<1>7. StoreOK(r.store) /\ (\A kind \in Kinds : r.store[kind] = stored[kind]) /\ r.code # "failed_precondition"
  BY <1>6, PublishEffect, Zenon DEF RecordInv
<1>8. ClaimsFit(r.store, Load)
  BY <1>7, Zenon DEF ClaimsFit, Kinds, RecordInv
<1> HIDE DEF q, r
<1>9. Answer(r).code = r.code /\ DOMAIN Answer(r) = {"code", "body"}
  BY DEF Answer
<1>10. ReplyOK(q, Answer(r), truth[c])
  BY <1>5, Zenon DEF ReplyOK, PointReads, Listings, RunListings, Scans, DueReads
<1>11. CallOK(Load.requests, c, method[c], q, "answered", hand[c], Answer(r), truth[c])
  BY <1>4, <1>7, <1>9, <1>10, StageNames, Zenon DEF CallOK, Refusal
<1>12. Moves(c, method[c], q, "answered", hand[c], Answer(r), truth[c])
  BY <1>1, StageNames, MovesBy, Zenon DEF RecordInv
<1>13. HistoryOK'
  BY <1>2, HistoryKept
<1> QED
  BY <1>1, <1>2, <1>7, <1>8, <1>11, <1>12, <1>13, StepKeeps, Zenon

LEMMA DereferenceKeeps ==
  ASSUME RecordInv, NEW c \in Clients, Dereference(c)
  PROVE  RecordInv'
<1> DEFINE q == call[c]
           p == reply[c].body.record
           r == DereferencePointer(stored, p)
           st == IF stage[c] = "deref" /\ r.code = "ok" /\ r.body.found THEN "confirm" ELSE "answered"
<1>1. /\ Alters(method, method', c, method[c]) /\ Alters(call, call', c, q) /\ Alters(stage, stage', c, st)
      /\ Alters(hand, hand', c, hand[c]) /\ Alters(reply, reply', c, Answer(r))
      /\ Alters(truth, truth', c, truth[c])
  BY Zenon DEF Dereference, Alters
<1>2. UNCHANGED <<workload, stored, late, holds, accepted, revoked, faults>> /\ returned' = Nil
  BY Zenon DEF Dereference, history, server
<1>3. stage[c] \in {"deref", "confirm"} /\ stage[c] # "idle"
  BY Zenon DEF Dereference
<1>4. InFlight(Load.requests, c, method[c], q, hand[c]) /\ q \in Request /\ DOMAIN truth[c] = TruthFields
  BY <1>3, Current
<1>5. q.rpc = "GetLatestWorkflowRun" /\ p \in PointerObject
  BY <1>3, Current, Zenon DEF CallOK
<1>6. r.code # "failed_precondition" /\ (r.code = "ok" => r.body \in {FoundBody(p), FoundBody(Nil)})
  BY DereferenceServed
<1>7. /\ st \in {"confirm", "answered"}
      /\ st = "confirm" => r.code = "ok" /\ r.body.found
  BY Zenon
<1> HIDE DEF q, p, r, st
<1>8. Answer(r).code = r.code /\ Answer(r).body = r.body /\ DOMAIN Answer(r) = {"code", "body"}
  BY DEF Answer
<1>9. r.code = "ok" => r.body \in LatestBody
  BY <1>5, <1>6, FoundLatest, Zenon
<1>10. st = "confirm" => r.body.record \in PointerObject
  BY <1>5, <1>6, <1>7, FoundFields, Zenon
<1>11. r.code = "ok" => ReplyOK(q, Answer(r), truth[c])
  BY <1>5, <1>8, <1>9, Zenon DEF ReplyOK, PointReads, Listings, RunListings, Scans, DueReads
<1>12. CallOK(Load.requests, c, method[c], q, st, hand[c], Answer(r), truth[c])
  BY <1>4, <1>5, <1>6, <1>7, <1>8, <1>10, <1>11, StageNames, Zenon DEF CallOK, Refusal
<1>13. Moves(c, method[c], q, st, hand[c], Answer(r), truth[c])
  BY <1>1, <1>7, StageNames, MovesBy, Zenon DEF RecordInv
<1>14. HistoryOK'
  BY <1>2, HistoryKept
<1> QED
  BY <1>2, <1>12, <1>13, <1>14, StepKeeps, Zenon DEF RecordInv

LEMMA ServeFailsKeeps ==
  ASSUME RecordInv, NEW c \in Clients, ServeFails(c)
  PROVE  RecordInv'
<1> DEFINE q == call[c]
           r == [code |-> "internal", body |-> Nil]
<1>1. /\ Alters(method, method', c, method[c]) /\ Alters(call, call', c, q)
      /\ Alters(stage, stage', c, "answered")
      /\ Alters(hand, hand', c, hand[c]) /\ Alters(reply, reply', c, r) /\ Alters(truth, truth', c, truth[c])
  BY Zenon DEF ServeFails, Alters
<1>2. UNCHANGED <<workload, late, holds, accepted, revoked>> /\ returned' = Nil /\ Fault
  BY Zenon DEF ServeFails
<1>3. stage[c] # "idle"
  BY Zenon DEF ServeFails
<1>4. InFlight(Load.requests, c, method[c], q, hand[c]) /\ q \in Request /\ DOMAIN truth[c] = TruthFields
  BY <1>3, Current
<1>5. StoreOK(stored') /\ ClaimsFit(stored', Load)
  <2>1. CASE stored' = stored
    BY <2>1, Zenon DEF RecordInv
  <2>2. CASE stored' = Route(stored, Load, q).store
    BY <1>4, <2>2, ServedStore, Zenon DEF RecordInv
  <2>3. CASE stage[c] = "publish" /\ stored' = PublishPointer(stored, q.record).store
    <3>1. q.rpc = "PutWorkflow"
      BY <1>3, <2>3, Current, Zenon DEF CallOK
    <3>2. q.record \in WorkflowObject
      BY <1>4, <3>1, RequestFields
    <3>3. StoreOK(stored') /\ \A kind \in Kinds : stored'[kind] = stored[kind]
      BY <2>3, <3>2, PublishEffect, Zenon DEF RecordInv
    <3> QED
      BY <3>3, Zenon DEF ClaimsFit, Kinds, RecordInv
  <2> QED
    BY <2>1, <2>2, <2>3, Zenon DEF ServeFails, Handle
<1>6. r # Nil /\ r.code = "internal" /\ DOMAIN r = {"code", "body"}
  BY DEF Nil
<1> HIDE DEF q, r
<1>7. CallOK(Load.requests, c, method[c], q, "answered", hand[c], r, truth[c])
  BY <1>4, <1>6, StageNames, Zenon DEF CallOK, Refusal
<1>8. Moves(c, method[c], q, "answered", hand[c], r, truth[c])
  BY <1>1, StageNames, MovesBy, Zenon DEF RecordInv
<1>9. HistoryOK'
  BY <1>2, HistoryKept
<1> QED
  BY <1>2, <1>5, <1>7, <1>8, <1>9, StepKeeps, Zenon

(* A wrong answer to a point read is one that is marked. *)
LEMMA GarbleKeeps ==
  ASSUME RecordInv, NEW c \in Clients, Garble(c)
  PROVE  RecordInv'
<1> DEFINE q == call[c]
           a == reply[c]
           T == [truth[c] EXCEPT !.garbled = TRUE]
           B == {[a.body EXCEPT !.found = ~ @]} \cup
                  (IF a.body.record # Nil
                     THEN {[a.body EXCEPT !.record.key.run = x] : x \in RunIds \ {a.body.record.key.run}} ELSE {})
<1>1. PICK b \in B : reply' = [reply EXCEPT ![c].body = b]
  BY Zenon DEF Garble
<1> DEFINE r == [a EXCEPT !.body = b]
<1>2. /\ Alters(method, method', c, method[c]) /\ Alters(call, call', c, q)
      /\ Alters(stage, stage', c, "answered")
      /\ Alters(hand, hand', c, hand[c]) /\ Alters(reply, reply', c, r) /\ Alters(truth, truth', c, T)
  BY <1>1, Zenon DEF Garble, Alters
<1>3. UNCHANGED <<workload, stored, late, holds, accepted, revoked>> /\ returned' = Nil /\ Fault
  BY Zenon DEF Garble, server
<1>4. stage[c] = "answered" /\ stage[c] # "idle" /\ a.code = "ok" /\ "found" \in DOMAIN a.body
  BY Zenon DEF Garble
<1>5. InFlight(Load.requests, c, method[c], q, hand[c]) /\ q \in Request /\ DOMAIN truth[c] = TruthFields
  BY <1>4, Current
<1>6. ReplyOK(q, a, truth[c]) /\ DOMAIN a = {"code", "body"}
  BY <1>4, Current, Zenon DEF CallOK
<1>7. q.rpc = "GetLatestWorkflowRun" => b \in LatestBody
  <2>1. SUFFICES ASSUME q.rpc = "GetLatestWorkflowRun" PROVE b \in LatestBody
    BY Zenon
  <2>2. a.body \in LatestBody
    BY <1>6, <2>1, Zenon DEF ReplyOK
  <2> HIDE DEF a
  <2>3. [a.body EXCEPT !.found = ~ @] \in LatestBody
    <3>1. (~ a.body.found) \in BOOLEAN
      BY Zenon
    <3> QED
      BY <2>2, <3>1, Zenon DEF LatestBody
  <2>4. ASSUME NEW x \in RunIds, a.body.record # Nil PROVE [a.body EXCEPT !.record.key.run = x] \in LatestBody
    <3>1. a.body.record \in PointerObject
      BY <2>2, <2>4 DEF LatestBody
    <3>2. [a.body.record EXCEPT !.key.run = x] \in PointerObject
      BY <3>1, Zenon DEF PointerObject, WorkflowKey
    <3> QED
      BY <2>2, <3>2 DEF LatestBody
  <2> QED
    BY <2>3, <2>4, Zenon
<1> HIDE DEF q, a, T, r, B
<1>8. r.code = "ok" /\ r.body = b /\ DOMAIN r = {"code", "body"}
  BY <1>4, <1>6 DEF r
<1>9. T.garbled /\ DOMAIN T = TruthFields
  BY <1>5, Zenon DEF T, TruthFields
<1>10. q.rpc \notin Listings \cup {"DeliverEvent", "TryCreateClaim", "GetStoreCapabilities"}
  BY <1>4, <1>6, Zenon DEF ReplyOK, ListTrue
<1>11. ReplyOK(q, r, T)
  BY <1>7, <1>8, <1>9, <1>10, Zenon DEF ReplyOK
<1>12. CallOK(Load.requests, c, method[c], q, "answered", hand[c], r, T)
  BY <1>5, <1>8, <1>9, <1>11, StageNames, Zenon DEF CallOK, Refusal
<1>13. Moves(c, method[c], q, "answered", hand[c], r, T)
  BY <1>2, StageNames, MovesBy, Zenon DEF RecordInv
<1>14. HistoryOK'
  BY <1>3, HistoryKept
<1> QED
  BY <1>3, <1>12, <1>13, <1>14, StepKeeps, Zenon DEF RecordInv
=============================================================================
