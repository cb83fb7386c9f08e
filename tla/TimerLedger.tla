---------------------------- MODULE TimerLedger ----------------------------
(***************************************************************************)
(* Timer persistence of core/go/storage/opendal.go.  Every timer has two   *)
(* objects in the store: the canonical point record of the run, and one    *)
(* object of the due ledger holding the full prepared record.  PutTimer    *)
(* writes the ledger object and then the point; DeleteTimer writes a       *)
(* CANCELED tombstone to the ledger and then removes the point; DueTimers  *)
(* scans the ledger, repairs points that disagree and returns due wakes;   *)
(* ListTimers overlays points with the ledger.  Each store operation is    *)
(* one step, so calls of several processes interleave and may stop, by a   *)
(* crash, a cancelled context or a failed operation, between any two.      *)
(***************************************************************************)
EXTENDS Naturals, FiniteSets

CONSTANTS
  Timers,     \* timer keys of one run
  Writers,    \* processes that call PutTimer and DeleteTimer
  Scanners,   \* processes that call DueTimers
  Readers,    \* processes that call ListTimers
  Deadlines,  \* fire_at values a writer may ask for
  MaxTime,    \* bound on the clock
  MaxCalls,   \* bound on calls by writers and readers
  MaxFaults,  \* bound on aborted calls and damaged points
  NoTimer     \* the timer of a process that is not in a call

ASSUME DeadlinesAreNat == Deadlines \subseteq Nat

ASSUME RolesDisjoint ==
  Writers \cap Scanners = {} /\ Writers \cap Readers = {} /\ Scanners \cap Readers = {}

ASSUME NoTimerIsNotATimer == NoTimer \notin Timers

Procs == Writers \cup Scanners \cup Readers

Absent == [status |-> "ABSENT", fireAt |-> 0]

Corrupt == [status |-> "CORRUPT", fireAt |-> 0]

TimerRecord == [status : {"SCHEDULED", "FIRED"}, fireAt : Deadlines]

TombstoneRecord == [status : {"CANCELED"}, fireAt : Deadlines \cup {0}]

LedgerValue == {Absent} \cup TimerRecord \cup TombstoneRecord

PointValue == {Absent, Corrupt} \cup TimerRecord

VARIABLES
  ledger,    \* due-ledger object of each timer
  point,     \* canonical point object of each timer
  workflow,  \* status of the parent workflow record
  clock,     \* wall clock
  op,        \* what each process is doing: program counter, timer, record in hand
  todo,      \* listed timers a scan or a listing has still to read
  result,    \* what a scan or a listing has collected so far
  at,        \* the `now' a scan was called with
  out,       \* what the last completed scan or listing of a process returned
  window,    \* history: values of each timer a reader could see during the call
  calls,     \* calls started so far
  faults     \* faults so far

stores == <<ledger, point, workflow, clock>>
locals == <<todo, result, at, out>>
bounds == <<calls, faults>>
vars == <<stores, op, locals, window, bounds>>

Idle == [pc |-> "idle", timer |-> NoTimer, rec |-> Absent]

At(pc, t, r) == [pc |-> pc, timer |-> t, rec |-> r]

IsTombstone(r) == r.status = "CANCELED"

(* The tombstone of a prepared record, of a point, or of a corrupt point. *)
Bury(r) == [r EXCEPT !.status = "CANCELED"]

(* Mutant of Overlay: the point wins over the ledger. *)
OverlayPointFirst(l, p) == IF p # Absent THEN p ELSE l

(* What getDueEntry and getTimerPoint give a reader: the ledger object if   *)
(* there is one, hidden when it is a tombstone, and else the point.         *)
Overlay(l, p) ==
  IF l = Absent THEN p ELSE IF IsTombstone(l) THEN Absent ELSE l

GetTimer(t) == Overlay(ledger[t], point[t])

Listed(f) == {t \in Timers : f[t] # Absent}

Init ==
  /\ ledger = [t \in Timers |-> Absent]
     \* a point without a ledger object: its FIRED entry was compacted offline,
     \* or the point has been damaged since
  /\ point \in [Timers -> {Absent, Corrupt} \cup [status : {"FIRED"}, fireAt : Deadlines]]
  /\ workflow = "IN_PROGRESS"
  /\ clock = 0
  /\ op = [p \in Procs |-> Idle]
  /\ todo = [p \in Procs |-> {}]
  /\ result = [p \in Procs |-> {}]
  /\ at = [p \in Procs |-> 0]
  /\ out = [p \in Procs |-> {}]
  /\ window = [p \in Procs |-> [t \in Timers |-> {}]]
  /\ calls = 0
  /\ faults = 0

Become(p, o) == op' = [op EXCEPT ![p] = o]

-----------------------------------------------------------------------------
(* PutTimer                                                                 *)

BeginPut(p, t, r) ==
  /\ p \in Writers /\ op[p] = Idle /\ calls < MaxCalls
  /\ calls' = calls + 1
  /\ Become(p, At("put_ledger", t, r))
  /\ UNCHANGED <<stores, locals, faults>>

(* putDueEntry, the first half of every timer write. *)
PutLedger(p) ==
  /\ op[p].pc \in {"put_ledger", "repair_ledger"}
  /\ ledger' = [ledger EXCEPT ![op[p].timer] = op[p].rec]
  /\ Become(p, [op[p] EXCEPT !.pc = IF @ = "put_ledger" THEN "put_point" ELSE "repair_point"])
  /\ UNCHANGED <<point, workflow, clock, locals, bounds>>

(* The second half; a repairing scan goes on with its next entry. *)
PutPoint(p) ==
  /\ op[p].pc \in {"put_point", "repair_point"}
  /\ point' = [point EXCEPT ![op[p].timer] = op[p].rec]
  /\ Become(p, IF op[p].pc = "put_point" THEN Idle ELSE At("scan", NoTimer, Absent))
  /\ UNCHANGED <<ledger, workflow, clock, locals, bounds>>

-----------------------------------------------------------------------------
(* DeleteTimer                                                              *)

(* Reads whether the point exists. *)
BeginDelete(p, t) ==
  /\ p \in Writers /\ op[p] = Idle /\ calls < MaxCalls
  /\ calls' = calls + 1
  /\ Become(p, At(IF point[t] = Absent THEN "delete_unseen" ELSE "delete_seen", t, Absent))
  /\ UNCHANGED <<stores, locals, faults>>

(* Reads the ledger: nothing to delete, a prepared record to bury, or only a point. *)
DeleteReadLedger(p) ==
  LET t == op[p].timer
      seen == op[p].pc = "delete_seen"
  IN
  /\ op[p].pc \in {"delete_unseen", "delete_seen"}
  /\ Become(p, IF ~seen /\ (ledger[t] = Absent \/ IsTombstone(ledger[t])) THEN Idle
               ELSE IF ledger[t] # Absent
                 THEN At("delete_ledger", t, Bury(ledger[t]))
               ELSE At("delete_read_point", t, Absent))
  /\ UNCHANGED <<stores, locals, bounds>>

(* Builds the tombstone of a timer that has only a point: a minimal one when *)
(* the point is corrupt, none when the point has gone meanwhile.             *)
DeleteReadPoint(p) ==
  LET t == op[p].timer
  IN
  /\ op[p].pc = "delete_read_point"
  /\ Become(p, IF point[t] = Absent THEN At("delete_point", t, Absent)
               ELSE At("delete_ledger", t, Bury(point[t])))
  /\ UNCHANGED <<stores, locals, bounds>>

PutTombstone(p) ==
  /\ op[p].pc = "delete_ledger"
  /\ ledger' = [ledger EXCEPT ![op[p].timer] = op[p].rec]
  /\ Become(p, [op[p] EXCEPT !.pc = "delete_point"])
  /\ UNCHANGED <<point, workflow, clock, locals, bounds>>

DeletePoint(p) ==
  /\ op[p].pc \in {"delete_point", "scan_delete_point"}
  /\ point' = [point EXCEPT ![op[p].timer] = Absent]
  /\ Become(p, IF op[p].pc = "delete_point" THEN Idle ELSE At("scan", NoTimer, Absent))
  /\ UNCHANGED <<ledger, workflow, clock, locals, bounds>>

-----------------------------------------------------------------------------
(* DueTimers                                                                *)

(* Lists the ledger. *)
BeginScan(s) ==
  /\ s \in Scanners /\ op[s] = Idle
  /\ Become(s, At("scan", NoTimer, Absent))
  /\ todo' = [todo EXCEPT ![s] = Listed(ledger)]
  /\ result' = [result EXCEPT ![s] = {}]
  /\ at' = [at EXCEPT ![s] = clock]
  /\ UNCHANGED <<stores, out, bounds>>

(* Reads the prepared record of one listed entry. *)
ScanEntry(s, t) ==
  /\ op[s].pc = "scan" /\ t \in todo[s]
  /\ todo' = [todo EXCEPT ![s] = @ \ {t}]
  /\ Become(s, At("scan_point", t, ledger[t]))
  /\ UNCHANGED <<stores, result, at, out, bounds>>

(* Mutant of AfterPointRead: a point that disagrees is skipped. *)
AfterPointReadNoRepair(prepared, pt, t, now) ==
  IF IsTombstone(prepared)
    THEN IF pt = Absent THEN At("scan", NoTimer, Absent)
                        ELSE At("scan_delete_point", t, Absent)
  ELSE IF pt # prepared \/ prepared.status # "SCHEDULED" \/ prepared.fireAt > now
    THEN At("scan", NoTimer, Absent)
  ELSE At("scan_parent", t, prepared)

(* Mutant of AfterPointRead: an interrupted delete is left as it is. *)
AfterPointReadNoCleanup(prepared, pt, t, now) ==
  IF IsTombstone(prepared) THEN At("scan", NoTimer, Absent)
  ELSE IF pt # prepared THEN At("repair_ledger", t, prepared)
  ELSE IF prepared.status # "SCHEDULED" \/ prepared.fireAt > now
    THEN At("scan", NoTimer, Absent)
  ELSE At("scan_parent", t, prepared)

(* What a scan does next, given the prepared record and the point it read:  *)
(* finish an interrupted delete, repair the point and leave the wake to a   *)
(* later scan, skip, or look at the parent.                                 *)
AfterPointRead(prepared, pt, t, now) ==
  IF IsTombstone(prepared)
    THEN IF pt = Absent THEN At("scan", NoTimer, Absent)
                        ELSE At("scan_delete_point", t, Absent)
  ELSE IF pt # prepared THEN At("repair_ledger", t, prepared)
  ELSE IF prepared.status # "SCHEDULED" \/ prepared.fireAt > now
    THEN At("scan", NoTimer, Absent)
  ELSE At("scan_parent", t, prepared)

ScanPoint(s) ==
  /\ op[s].pc = "scan_point"
  /\ Become(s, AfterPointRead(op[s].rec, point[op[s].timer], op[s].timer, at[s]))
  /\ UNCHANGED <<stores, locals, bounds>>

(* Reads the parent: a wake is emitted only for a run still in progress. *)
ScanParent(s) ==
  /\ op[s].pc = "scan_parent"
  /\ result' = [result EXCEPT ![s] =
       IF workflow = "IN_PROGRESS" THEN @ \cup {<<op[s].timer, op[s].rec>>} ELSE @]
  /\ Become(s, At("scan", NoTimer, Absent))
  /\ UNCHANGED <<stores, todo, at, out, bounds>>

EndScan(s) ==
  /\ op[s].pc = "scan" /\ todo[s] = {}
  /\ Become(s, Idle)
  /\ out' = [out EXCEPT ![s] = result[s]]
  /\ result' = [result EXCEPT ![s] = {}]
  /\ at' = [at EXCEPT ![s] = 0]
  /\ UNCHANGED <<stores, todo, bounds>>

-----------------------------------------------------------------------------
(* ListTimers.  The result holds a pair for every timer it has an answer    *)
(* for; a tombstone answers Absent.                                         *)

BeginList(r) ==
  /\ r \in Readers /\ op[r] = Idle /\ calls < MaxCalls
  /\ calls' = calls + 1
  /\ Become(r, At("list_ledger", NoTimer, Absent))
  /\ todo' = [todo EXCEPT ![r] = Listed(ledger)]
  /\ UNCHANGED <<stores, result, at, out, faults>>

ListLedgerEntry(r, t) ==
  /\ op[r].pc = "list_ledger" /\ t \in todo[r]
  /\ todo' = [todo EXCEPT ![r] = @ \ {t}]
  /\ result' = [result EXCEPT ![r] = @ \cup {<<t, Overlay(ledger[t], Absent)>>}]
  /\ UNCHANGED <<stores, op, at, out, bounds>>

(* With every shadow read, lists the points. *)
ListPoints(r) ==
  /\ op[r].pc = "list_ledger" /\ todo[r] = {}
  /\ Become(r, At("list_point", NoTimer, Absent))
  /\ todo' = [todo EXCEPT ![r] = Listed(point)]
  /\ UNCHANGED <<stores, result, at, out, bounds>>

(* Mutant of Shadowed: a tombstone does not hide its point. *)
ShadowedByLive(r, t) == \E x \in result[r] : x[1] = t /\ x[2] # Absent

Shadowed(r, t) == \E x \in result[r] : x[1] = t

(* Reads one listed point.  A point under a shadow is ignored, even when    *)
(* corrupt; an unshadowed point that is corrupt, or gone since it was       *)
(* listed, fails the listing.                                               *)
ListPoint(r, t) ==
  /\ op[r].pc = "list_point" /\ t \in todo[r]
  /\ \/ /\ Shadowed(r, t) /\ point[t] # Absent
        /\ todo' = [todo EXCEPT ![r] = @ \ {t}]
        /\ UNCHANGED <<op, result>>
     \/ /\ ~Shadowed(r, t) /\ point[t] \notin {Absent, Corrupt}
        /\ todo' = [todo EXCEPT ![r] = @ \ {t}]
        /\ result' = [result EXCEPT ![r] = @ \cup {<<t, point[t]>>}]
        /\ UNCHANGED op
     \/ /\ point[t] = Absent \/ (~Shadowed(r, t) /\ point[t] = Corrupt)
        /\ todo' = [todo EXCEPT ![r] = {}]
        /\ result' = [result EXCEPT ![r] = {}]
        /\ Become(r, Idle)
  /\ UNCHANGED <<stores, at, out, bounds>>

EndList(r) ==
  /\ op[r].pc = "list_point" /\ todo[r] = {}
  /\ Become(r, Idle)
  /\ out' = [out EXCEPT ![r] =
       result[r] \cup {<<t, Absent>> : t \in {u \in Timers : ~Shadowed(r, u)}}]
  /\ result' = [result EXCEPT ![r] = {}]
  /\ UNCHANGED <<stores, todo, at, bounds>>

-----------------------------------------------------------------------------
(* The environment                                                          *)

(* The process crashes, its context is cancelled, or a store operation      *)
(* fails: every one of these calls then returns without cleaning up.        *)
Abort(p) ==
  /\ op[p] # Idle /\ faults < MaxFaults
  /\ faults' = faults + 1
  /\ Become(p, Idle)
  /\ todo' = [todo EXCEPT ![p] = {}]
  /\ result' = [result EXCEPT ![p] = {}]
  /\ at' = [at EXCEPT ![p] = 0]
  /\ UNCHANGED <<stores, out, calls>>

(* The bytes of a point with a ledger object are damaged. *)
DamagePoint(t) ==
  /\ ledger[t] # Absent /\ point[t] \notin {Absent, Corrupt} /\ faults < MaxFaults
  /\ faults' = faults + 1
  /\ point' = [point EXCEPT ![t] = Corrupt]
  /\ UNCHANGED <<ledger, workflow, clock, op, locals, calls>>

EndWorkflow ==
  /\ workflow = "IN_PROGRESS"
  /\ workflow' = "TERMINAL"
  /\ UNCHANGED <<ledger, point, clock, op, locals, bounds>>

ClockTick ==
  /\ clock < MaxTime
  /\ clock' = clock + 1
  /\ UNCHANGED <<ledger, point, workflow, op, locals, bounds>>

-----------------------------------------------------------------------------
(* History: what a reader could have seen of each timer since the running   *)
(* call of a scanner or reader began.                                       *)
Observe ==
  window' = [p \in Procs |-> [t \in Timers |->
    IF p \in Writers \/ (op[p] = Idle /\ op'[p] = Idle) THEN {}
    ELSE IF op[p] = Idle THEN {GetTimer(t)}
    ELSE window[p][t] \cup {Overlay(ledger'[t], point'[t])}]]

ScannerStep(s) ==
  \/ BeginScan(s) \/ ScanPoint(s) \/ ScanParent(s) \/ EndScan(s)
  \/ \E t \in Timers : ScanEntry(s, t)
  \/ s \in Scanners /\ (PutLedger(s) \/ PutPoint(s) \/ DeletePoint(s))

WriterStep(p) ==
  \/ \E t \in Timers, r \in TimerRecord : BeginPut(p, t, r)
  \/ \E t \in Timers : BeginDelete(p, t)
  \/ DeleteReadLedger(p) \/ DeleteReadPoint(p) \/ PutTombstone(p)
  \/ p \in Writers /\ (PutLedger(p) \/ PutPoint(p) \/ DeletePoint(p))

ReaderStep(r) ==
  \/ BeginList(r) \/ ListPoints(r) \/ EndList(r)
  \/ \E t \in Timers : ListLedgerEntry(r, t) \/ ListPoint(r, t)

Step ==
  \/ \E p \in Writers : WriterStep(p)
  \/ \E s \in Scanners : ScannerStep(s)
  \/ \E r \in Readers : ReaderStep(r)
  \/ \E p \in Procs : Abort(p)
  \/ \E t \in Timers : DamagePoint(t)
  \/ EndWorkflow
  \/ ClockTick

Next == Step /\ Observe

Spec == Init /\ [][Next]_vars

(* Liveness is claimed for deployments whose single scanner keeps running:  *)
(* background.go calls DueTimers on every tick and each call makes progress *)
(* through its list.  Writers may stop anywhere, for ever.                  *)
Fairness == \A s \in Scanners : WF_vars(ScannerStep(s) /\ Observe)

FairSpec == Spec /\ Fairness

-----------------------------------------------------------------------------
(* Type correctness of the two objects of a timer and of every call.        *)
TypeOK ==
  /\ ledger \in [Timers -> LedgerValue]
  /\ point \in [Timers -> PointValue]
  /\ workflow \in {"IN_PROGRESS", "TERMINAL"}
  /\ clock \in Nat
  /\ op \in [Procs -> [pc : {"idle", "put_ledger", "put_point", "delete_unseen",
                             "delete_seen", "delete_read_point", "delete_ledger",
                             "delete_point", "scan", "scan_point", "scan_delete_point",
                             "scan_parent", "repair_ledger", "repair_point",
                             "list_ledger", "list_point"},
                       timer : Timers \cup {NoTimer},
                       rec : LedgerValue]]
  /\ todo \in [Procs -> SUBSET Timers]
  /\ result \in [Procs -> SUBSET (Timers \X ({Absent} \cup TimerRecord))]
  /\ at \in [Procs -> Nat]
  /\ calls \in Nat
  /\ faults \in Nat

(* Everything DueTimers or ListTimers returns about a timer, its absence    *)
(* included, is a value a reader could have seen at some moment of that     *)
(* very call, although the call reads two objects per timer in separate     *)
(* operations while others write.  A half-written re-arm or status change   *)
(* therefore never produces an early or invented wake.                      *)
ReturnedWasVisible ==
  [][\A p \in Procs : out'[p] # out[p] =>
       \A x \in out'[p] : x[2] \in window[p][x[1]]]_vars

(* Refinement: a reader of the Store sees one register per timer, changed   *)
(* only by the single effect of an open call.  Point writes, point deletes, *)
(* damage to a point, tombstone completion and crashes change nothing that  *)
(* can be seen: the ledger write alone is the effect.                       *)
CallOf(o) ==
  CASE o.pc \in {"put_ledger", "repair_ledger"} ->
         [st |-> "open", timer |-> o.timer, val |-> o.rec]
    [] o.pc \in {"delete_unseen", "delete_seen", "delete_read_point", "delete_ledger"} ->
         [st |-> "open", timer |-> o.timer, val |-> Absent]
    [] \/ o.pc \in {"put_point", "repair_point"}
       \/ o.pc = "delete_point" /\ o.rec # Absent ->
         [st |-> "effective", timer |-> NoTimer, val |-> Absent]
    [] OTHER -> [st |-> "idle", timer |-> NoTimer, val |-> Absent]

Register == INSTANCE TimerRegister WITH
  Procs <- Procs,
  Values <- {Corrupt} \cup TimerRecord,
  reg <- [t \in Timers |-> GetTimer(t)],
  call <- [p \in Procs |-> CallOf(op[p])]

RegisterSpec == Register!Spec

(* A deleted timer stays deleted until a PutTimer that was called for it:    *)
(* the repair of a scan never brings it back.                               *)
DeletedStaysDeleted ==
  [][\A t \in Timers : IsTombstone(ledger[t]) /\ ~IsTombstone(ledger'[t]) =>
       \E p \in Writers : op[p].pc = "put_ledger" /\ op[p].timer = t]_vars

Agree(t) ==
  \/ ledger[t] = Absent
  \/ IsTombstone(ledger[t]) /\ point[t] = Absent
  \/ point[t] = ledger[t]

(* Whatever half-finished writes, half-finished deletes and damaged points  *)
(* crashes leave behind, repeated scans bring the two objects of every      *)
(* timer together for good.                                                 *)
CopiesConverge == <>[](\A t \in Timers : Agree(t))

DueNow(t) ==
  /\ workflow = "IN_PROGRESS"
  /\ GetTimer(t).status = "SCHEDULED"
  /\ GetTimer(t).fireAt <= clock

(* A wake that stays scheduled and due, for a run still in progress, is     *)
(* returned by DueTimers again and again: a crash between the two writes of *)
(* PutTimer delays it by a scan but cannot lose it.                         *)
DueWakeReturned ==
  \A t \in Timers :
    <>[]DueNow(t) => []<>(\E s \in Scanners : \E x \in out[s] : x[1] = t)
=============================================================================
