------------------------------ MODULE CronRuns ------------------------------
(***************************************************************************)
(* The runs of one cron schedule: the ticks of its schedulers              *)
(* (adapters/go/cronscheduler), the workflow record of each fire with the  *)
(* derived latest-run pointer (PutWorkflow of core/go/storage), and the    *)
(* recovery of a restarted scheduler from that pointer.                    *)
(*                                                                         *)
(* Fire n is due at time n and is the run_order_time of run n.  A          *)
(* scheduler restores a stable anchor, before the first fire, and then     *)
(* whatever the pointer tells it.  Runs use execution claims, whose        *)
(* protocol DurableRun checks: here taking a free claim is one step.       *)
(* Retention deletes quiesced runs only, as the documentation requires.    *)
(***************************************************************************)
EXTENDS Naturals

CONSTANTS
  Schedulers,  \* processes that tick the schedule
  Workers,     \* processes that resume runs in progress
  Layouts,     \* the store instances the processes may use, Processes -> Stores
  Stores,
  Fires,       \* number of fires
  MaxAge,      \* retention
  TimeLimit,   \* bound on the time
  MaxSetbacks  \* bound on failed operations and crashes

Processes == Schedulers \cup Workers
Runs == 1..Fires
Statuses == {"IN_PROGRESS", "COMPLETED", "FAILED"}

ASSUME FiresIsNat == Fires \in Nat
ASSUME LayoutsTyped == Layouts \subseteq [Processes -> Stores]
ASSUME FreeIsNoProcess == "free" \notin Processes /\ "leaked" \notin Processes

NoRecord == [status |-> "NONE", at |-> 0]
NoPointer == [order |-> 0, status |-> "NONE", at |-> 0]

VARIABLES
  storeOf,   \* the store instance of each process, hence its pointer lock
  time,
  record,    \* stored workflow record of each run; at is completed_at or created_at
  claim,     \* the execution claim of each run
  pointer,   \* the stored latest-run pointer
  author,    \* history: the store instance that wrote it
  lock,      \* latestPointerMu of each store instance
  pc,        \* where each process stands
  lastFire,  \* lastFires of each scheduler; 0 is the anchor
  run,       \* the run a process executes
  draft,     \* the workflow record it is writing
  look,      \* the pointer it has read
  ran,       \* history: runs whose record was written
  setbacks

store == <<record, claim, pointer, author>>
procs == <<lock, pc, lastFire, run, draft, look>>
cronVars == <<storeOf, time, store, procs, ran, setbacks>>

(* Only a scheduler has something to recover when its process starts. *)
Booting(p) == IF p \in Schedulers THEN "down" ELSE "idle"

CronInit ==
  /\ storeOf \in Layouts
  /\ time = 1
  /\ record = [r \in Runs |-> NoRecord]
  /\ claim = [r \in Runs |-> "free"]
  /\ pointer = NoPointer /\ author = "none"
  /\ lock = [s \in Stores |-> "free"]
  /\ pc = [p \in Processes |-> Booting(p)]
  /\ lastFire = [p \in Processes |-> 0]
  /\ run = [p \in Processes |-> 0]
  /\ draft = [p \in Processes |-> NoRecord]
  /\ look = [p \in Processes |-> NoPointer]
  /\ ran = {} /\ setbacks = 0

(* A record written now: its time is the completed_at of a run that ended    *)
(* and the created_at of one in progress.                                    *)
Stamp(status) == [status |-> status, at |-> time]

Goto(p, l) == pc' = [pc EXCEPT ![p] = l]

(* A storage call works, works without its answer, or fails. *)
Outcomes == {"ok", "lost", "failed"}

Charge(o) ==
  /\ o # "ok" => setbacks < MaxSetbacks
  /\ setbacks' = IF o = "ok" THEN setbacks ELSE setbacks + 1

-----------------------------------------------------------------------------
(* Boot *)

(* Restore of the anchor, then LastFiresFromRuns: the pointer object first,  *)
ReadPointer(p) ==
  /\ pc[p] = "down"
  /\ look' = [look EXCEPT ![p] = pointer]
  /\ Goto(p, "boot")
  /\ UNCHANGED <<storeOf, time, store, lock, lastFire, run, draft, ran, setbacks>>

(* then the workflow it references: a pointer without its run, or with       *)
(* another status or record_time than the run has, is not found.             *)
Found(l) == l # NoPointer /\ record[l.order] = [status |-> l.status, at |-> l.at]

Dereference(p) ==
  /\ pc[p] = "boot"
  /\ lastFire' = [lastFire EXCEPT ![p] = IF Found(look[p]) THEN look[p].order ELSE 0]
  /\ look' = [look EXCEPT ![p] = NoPointer]
  /\ Goto(p, "idle")
  /\ UNCHANGED <<storeOf, time, store, lock, run, draft, ran, setbacks>>

-----------------------------------------------------------------------------
(* Ticks *)

(* Tick dispatches the first fire after the last one when it is due. *)
Tick(p) ==
  /\ p \in Schedulers /\ pc[p] = "idle"
  /\ lastFire[p] < Fires /\ lastFire[p] + 1 <= time
  /\ run' = [run EXCEPT ![p] = lastFire[p] + 1]
  /\ Goto(p, "start")
  /\ UNCHANGED <<storeOf, time, store, lock, lastFire, draft, look, ran, setbacks>>

(* Mutant of Return: a fire whose dispatch failed is committed too. *)
ReturnCommits(p, ok) ==
  /\ lastFire' = [lastFire EXCEPT ![p] = IF p \in Schedulers THEN run[p] ELSE @]
  /\ run' = [run EXCEPT ![p] = 0] /\ draft' = [draft EXCEPT ![p] = NoRecord]
  /\ Goto(p, "idle")

(* The call of the run returns.  Tick commits the fire of a successful       *)
(* dispatch; after a failed one it returns and the next tick starts here.    *)
Return(p, ok) ==
  /\ lastFire' = [lastFire EXCEPT ![p] = IF p \in Schedulers /\ ok THEN run[p] ELSE @]
  /\ run' = [run EXCEPT ![p] = 0] /\ draft' = [draft EXCEPT ![p] = NoRecord]
  /\ Goto(p, "idle")

-----------------------------------------------------------------------------
(* Runs *)

(* A timer or an event wakes a run in progress. *)
Resume(p, r) ==
  /\ p \in Workers /\ pc[p] = "idle" /\ record[r].status = "IN_PROGRESS"
  /\ run' = [run EXCEPT ![p] = r]
  /\ Goto(p, "start")
  /\ UNCHANGED <<storeOf, time, store, lock, lastFire, draft, look, ran, setbacks>>

(* Mutant of StartRun: the claim is not consulted. *)
StartUnclaimed(p) ==
  LET r == run[p]
      terminal == record[r].status \in {"COMPLETED", "FAILED"}
  IN
  /\ pc[p] = "start"
  /\ \/ /\ terminal
        /\ Return(p, record[r].status = "COMPLETED")
        /\ UNCHANGED claim
     \/ /\ ~terminal
        /\ claim' = [claim EXCEPT ![r] = p]
        /\ IF record[r] = NoRecord
             THEN draft' = [draft EXCEPT ![p] = Stamp("IN_PROGRESS")] /\ Goto(p, "put")
             ELSE draft' = [draft EXCEPT ![p] = record[r]] /\ Goto(p, "body")
        /\ UNCHANGED <<lastFire, run>>
  /\ UNCHANGED <<storeOf, time, record, pointer, author, lock, look, ran, setbacks>>

(* Run: a terminal record is replayed and a claim that is held is an error.  *)
(* The call that takes the claim publishes IN_PROGRESS for a new run.        *)
StartRun(p) ==
  LET r == run[p]
      terminal == record[r].status \in {"COMPLETED", "FAILED"}
  IN
  /\ pc[p] = "start"
  /\ \/ /\ terminal \/ claim[r] # "free"
        /\ Return(p, record[r].status = "COMPLETED")
        /\ UNCHANGED claim
     \/ /\ ~terminal /\ claim[r] = "free"
        /\ claim' = [claim EXCEPT ![r] = p]
        /\ IF record[r] = NoRecord
             THEN draft' = [draft EXCEPT ![p] = Stamp("IN_PROGRESS")] /\ Goto(p, "put")
             ELSE draft' = [draft EXCEPT ![p] = record[r]] /\ Goto(p, "body")
        /\ UNCHANGED <<lastFire, run>>
  /\ UNCHANGED <<storeOf, time, record, pointer, author, lock, look, ran, setbacks>>

(* The body waits for something, which is a successful dispatch, or ends.    *)
(* A body waits once: it ends when it is resumed.                            *)
Body(p) ==
  /\ pc[p] = "body"
  /\ \/ p \in Schedulers /\ Goto(p, "release") /\ UNCHANGED draft
     \/ \E status \in {"COMPLETED", "FAILED"} :
          /\ draft' = [draft EXCEPT ![p] = Stamp(status)]
          /\ Goto(p, "put")
  /\ UNCHANGED <<storeOf, time, store, lock, lastFire, run, look, ran, setbacks>>

(* Where PutWorkflow returns to. *)
AfterPut(p, ok) ==
  CASE ~ok -> "abort"
    [] draft[p].status = "IN_PROGRESS" -> "body"
    [] OTHER -> "release"

(* PutWorkflow: the record first.  An error ends the call. *)
PutRecord(p) ==
  /\ pc[p] = "put"
  /\ \E o \in Outcomes :
       /\ Charge(o)
       /\ record' = IF o = "failed" THEN record ELSE [record EXCEPT ![run[p]] = draft[p]]
       /\ ran' = IF o = "failed" THEN ran ELSE ran \cup {run[p]}
       /\ Goto(p, IF o = "ok" THEN "lock" ELSE "abort")
  /\ UNCHANGED <<storeOf, time, claim, pointer, author, lock, lastFire, run, draft, look>>

(* shouldReplaceLatestWorkflowRun *)
ShouldReplace(existing, order, at) ==
  IF order # existing.order THEN order > existing.order ELSE at >= existing.at

(* Mutant of ComparePointer: the pointer is read before the lock is taken. *)
ComparePointerUnlocked(p) ==
  /\ pc[p] = "lock"
  /\ Goto(p, IF pointer = NoPointer \/ ShouldReplace(pointer, run[p], draft[p].at)
               THEN "pointer" ELSE AfterPut(p, TRUE))
  /\ UNCHANGED <<storeOf, time, store, lock, lastFire, run, draft, look, ran, setbacks>>

(* putLatestWorkflowRun: the pointer is read under the store's lock and      *)
(* kept when it is newer,                                                    *)
ComparePointer(p) ==
  /\ pc[p] = "lock" /\ lock[storeOf[p]] = "free"
  /\ IF pointer = NoPointer \/ ShouldReplace(pointer, run[p], draft[p].at)
       THEN Goto(p, "pointer") /\ lock' = [lock EXCEPT ![storeOf[p]] = p]
       ELSE Goto(p, AfterPut(p, TRUE)) /\ UNCHANGED lock
  /\ UNCHANGED <<storeOf, time, store, lastFire, run, draft, look, ran, setbacks>>

(* or replaced.  An error is the error of PutWorkflow. *)
PutPointer(p) ==
  /\ pc[p] = "pointer"
  /\ \E o \in Outcomes :
       /\ Charge(o)
       /\ IF o = "failed" THEN UNCHANGED <<pointer, author>>
          ELSE /\ pointer' = [order |-> run[p], status |-> draft[p].status, at |-> draft[p].at]
               /\ author' = storeOf[p]
       /\ Goto(p, AfterPut(p, o = "ok"))
  /\ lock' = [lock EXCEPT ![storeOf[p]] = "free"]
  /\ UNCHANGED <<storeOf, time, record, claim, lastFire, run, draft, look, ran>>

(* Mutant of Release: a call that ends in an error keeps its claim. *)
ReleaseOnSuccess(p) ==
  /\ pc[p] \in {"release", "abort"}
  /\ \E o \in Outcomes :
       /\ Charge(o)
       /\ claim' = IF pc[p] = "abort" THEN claim
                   ELSE [claim EXCEPT ![run[p]] = IF o = "failed" THEN "leaked" ELSE "free"]
       /\ Return(p, pc[p] = "release" /\ draft[p].status # "FAILED" /\ o = "ok")
  /\ UNCHANGED <<storeOf, time, record, pointer, author, lock, look, ran>>

(* The deferred DeleteClaim.  A failed one fails the call and leaves the     *)
(* claim to an operator; so does a FAILED run.                               *)
Release(p) ==
  /\ pc[p] \in {"release", "abort"}
  /\ \E o \in Outcomes :
       /\ Charge(o)
       /\ claim' = [claim EXCEPT ![run[p]] = IF o = "failed" THEN "leaked" ELSE "free"]
       /\ Return(p, pc[p] = "release" /\ draft[p].status # "FAILED" /\ o = "ok")
  /\ UNCHANGED <<storeOf, time, record, pointer, author, lock, look, ran>>

-----------------------------------------------------------------------------
(* Environment *)

(* The process dies: its last fire and its lock are gone, its claim stays. *)
Crash(p) ==
  /\ pc[p] # Booting(p) /\ setbacks < MaxSetbacks /\ setbacks' = setbacks + 1
  /\ claim' = [r \in Runs |-> IF claim[r] = p THEN "leaked" ELSE claim[r]]
  /\ lock' = [s \in Stores |-> IF lock[s] = p THEN "free" ELSE lock[s]]
  /\ Goto(p, Booting(p))
  /\ lastFire' = [lastFire EXCEPT ![p] = 0]
  /\ run' = [run EXCEPT ![p] = 0] /\ draft' = [draft EXCEPT ![p] = NoRecord]
  /\ look' = [look EXCEPT ![p] = NoPointer]
  /\ UNCHANGED <<storeOf, time, record, pointer, author, ran>>

(* An operator deletes a claim after verifying that its holder is gone. *)
OperatorRelease(r) ==
  /\ claim[r] = "leaked"
  /\ claim' = [claim EXCEPT ![r] = "free"]
  /\ UNCHANGED <<storeOf, time, record, pointer, author, procs, ran, setbacks>>

(* Retention removes an old COMPLETED run that nobody works on, its claim    *)
(* first and its record last; an error in between leaves the record.  The    *)
(* pointer is left behind.                                                   *)
Retain(r) ==
  /\ record[r].status = "COMPLETED" /\ record[r].at + MaxAge <= time
  /\ \A p \in Processes : run[p] # r
  /\ \E o \in Outcomes :
       /\ Charge(o)
       /\ record' = IF o = "failed" THEN record ELSE [record EXCEPT ![r] = NoRecord]
  /\ claim' = [claim EXCEPT ![r] = "free"]
  /\ UNCHANGED <<storeOf, time, pointer, author, procs, ran>>

Clock ==
  /\ time < TimeLimit /\ time' = time + 1
  /\ UNCHANGED <<storeOf, store, procs, ran, setbacks>>

-----------------------------------------------------------------------------

Boot(p) == ReadPointer(p) \/ Dereference(p)

CronStep(p) ==
  StartRun(p) \/ Body(p) \/ PutRecord(p) \/ ComparePointer(p) \/ PutPointer(p) \/ Release(p)

CronNext ==
  \/ \E p \in Processes : Boot(p) \/ Tick(p) \/ CronStep(p) \/ Crash(p) \/ \E r \in Runs : Resume(p, r)
  \/ \E r \in Runs : OperatorRelease(r) \/ Retain(r)
  \/ Clock

CronSpec == CronInit /\ [][CronNext]_cronVars

(* Schedulers are restarted and tick, processes keep running, time passes,   *)
(* operators remove the claims of dead processes.                            *)
CronFairness ==
  /\ \A p \in Schedulers : WF_cronVars(Boot(p) \/ Tick(p) \/ CronStep(p))
  /\ \A p \in Workers : WF_cronVars(CronStep(p))
  /\ WF_cronVars(\E r \in Runs : OperatorRelease(r))
  /\ WF_cronVars(Clock)

CronFairSpec == CronSpec /\ CronFairness

-----------------------------------------------------------------------------
(* Properties *)

Records == {NoRecord} \cup [status : Statuses, at : Nat]
Pointers == {NoPointer} \cup [order : Runs, status : Statuses, at : Nat]

(* Types of the stored records and of every process. *)
CronTypeOK ==
  /\ storeOf \in Layouts /\ time \in Nat /\ setbacks \in Nat
  /\ record \in [Runs -> Records]
  /\ claim \in [Runs -> {"free", "leaked"} \cup Processes]
  /\ pointer \in Pointers /\ author \in {"none"} \cup Stores
  /\ lock \in [Stores -> {"free"} \cup Processes]
  /\ pc \in [Processes -> {"down", "boot", "idle", "start", "body", "put", "lock", "pointer", "release",
                       "abort"}]
  /\ lastFire \in [Processes -> 0..Fires]
  /\ run \in [Processes -> 0..Fires]
  /\ draft \in [Processes -> Records]
  /\ look \in [Processes -> Pointers]
  /\ ran \in SUBSET Runs

(* Whatever a scheduler remembers, or derives from the pointer after a       *)
(* crash, Tick skips no fire: each fire up to its last one got a workflow    *)
(* record.  Racing writers of the pointer can only make it repeat fires.     *)
NoFireSkipped == \A p \in Processes, f \in Runs : f <= lastFire[p] => f \in ran

(* Within one store instance putLatestWorkflowRun never takes the pointer    *)
(* back to an older run.                                                     *)
PointerKeptByInstance ==
  [][pointer' # pointer /\ author' = author => pointer'.order >= pointer.order]_cronVars

(* A run that ended keeps its record until retention removes it: no restart, *)
(* repeated fire, racing scheduler or resumed call writes over the terminal  *)
(* record that PutWorkflow stored.                                           *)
EndedRunsKept ==
  [][\A r \in Runs : record[r].status \in {"COMPLETED", "FAILED"} =>
       record'[r] \in {record[r], NoRecord}]_cronVars

(* Every due fire gets its run, whatever fails or crashes on the way, unless *)
(* an earlier run has FAILED: Tick does not go past a dispatch that fails.   *)
EveryFireRuns ==
  \A f \in Runs : time >= f ~> (f \in ran \/ \E g \in Runs : g < f /\ record[g].status = "FAILED")
=============================================================================
