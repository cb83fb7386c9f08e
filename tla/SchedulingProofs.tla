-------------------------- MODULE SchedulingProofs --------------------------
(***************************************************************************)
(* What keeps the runs of a schedule coming.                               *)
(*                                                                         *)
(* For any number of schedulers, workers, store instances, fires and       *)
(* faults: no fire of a schedule is skipped.  NoFireSkipped is not         *)
(* inductive: a restarted scheduler takes its last fire from a pointer     *)
(* that another process wrote.  CronInv says that the runs with a record   *)
(* are always a prefix of the fires, that the pointer and every copy of it *)
(* name one of them, and that a process which may still write the pointer  *)
(* or commit a fire works on one of them.                                  *)
(*                                                                         *)
(* A run which has ended keeps its record.  ClaimInv says that a process   *)
(* between StartRun and Release is the one its claim names, and that the   *)
(* record it is about to write over is not a terminal one.                 *)
(*                                                                         *)
(* Within one store instance the pointer does not go back.  PointerInv:    *)
(* a process about to write it holds the lock of its instance, and that    *)
(* instance has recorded no later run.                                     *)
(*                                                                         *)
(* The background workers of a replica, two of which are the cron and the  *)
(* timer scanner, stop cleanly: see WorkersInv.                            *)
(*                                                                         *)
(* And for any set of timers, writers, scanners, readers and deadlines:    *)
(* the two-object timers of TimerLedger implement the one-object registers *)
(* of TimerRegister, and what a scan or a listing returns could be seen    *)
(* during the call: see VisibleInv.                                        *)
(***************************************************************************)
EXTENDS CronRuns, Workers, TimerLedger, TLAPS

(* The cron scheduler. *)

(* Where the record of the process's run has been written. *)
Written == {"lock", "pointer", "body", "release"}

(* The variables the argument is about are functions of the right shape. *)
Shape ==
  /\ ran \in SUBSET Runs
  /\ DOMAIN record = Runs /\ DOMAIN pc = Processes /\ DOMAIN look = Processes
  /\ lastFire \in [Processes -> 0..Fires]
  /\ run \in [Processes -> 0..Fires]

RunInv(p) ==
  /\ run[p] = 0 <=> pc[p] \in {"down", "boot", "idle"}
  /\ run[p] \in {0, lastFire[p] + 1} \cup ran
  /\ pc[p] \in Written => run[p] \in ran

(* The runs with a record are a prefix of the fires, *)
Prefix ==
  /\ \A r \in ran, f \in Runs : f < r => f \in ran
  /\ \A r \in Runs : record[r] # NoRecord => r \in ran

(* and the pointer, its copies and the last fires name one of them. *)
Named ==
  /\ pointer.order \in {0} \cup ran
  /\ \A p \in Processes : look[p].order \in {0} \cup ran
  /\ \A p \in Processes : lastFire[p] \in {0} \cup ran

CronInv == Shape /\ Prefix /\ Named /\ \A p \in Processes : RunInv(p)

(* The initial state: nothing has run. *)
LEMMA CronStarts == CronInit => CronInv
<1> SUFFICES ASSUME CronInit PROVE CronInv
  OBVIOUS
<1>1. Shape
  BY FiresIsNat DEF CronInit, Shape
<1>2. Prefix /\ Named
  BY Zenon DEF CronInit, Prefix, Named, NoPointer
<1>3. ASSUME NEW p \in Processes PROVE RunInv(p)
  BY <1>3, Zenon DEF CronInit, RunInv, Written, Booting
<1> QED
  BY <1>1, <1>2, <1>3, Zenon DEF CronInv

(* The runs with a record stay a prefix of the fires when the next run of a  *)
(* scheduler, or one that already has a record, is written.                  *)
LEMMA PrefixGrows ==
  ASSUME CronInv, NEW p \in Processes, run[p] # 0
  PROVE  /\ run[p] \in Runs
         /\ \A r \in ran \cup {run[p]}, f \in Runs : f < r => f \in ran \cup {run[p]}
BY FiresIsNat DEF CronInv, Shape, Prefix, Named, RunInv, Runs

LEMMA RanAreFires ==
  ASSUME ran \in SUBSET Runs PROVE \A o \in {0} \cup ran : o \in 0..Fires
  BY FiresIsNat DEF Runs

(* Every step preserves the invariant. *)
LEMMA CronKeeps == CronInv /\ [CronNext]_cronVars => CronInv'
<1> SUFFICES ASSUME CronInv, [CronNext]_cronVars PROVE CronInv'
  OBVIOUS
<1> USE FiresIsNat DEF CronInv, Shape, Named, Prefix, Written
<1>1. ASSUME NEW p \in Processes, ReadPointer(p) PROVE CronInv'
  BY <1>1 DEF ReadPointer, Goto, store, procs, RunInv, Runs
<1>2. ASSUME NEW p \in Processes, Dereference(p) PROVE CronInv'
  <2>1. Shape'
    <3>1. \A o \in {0} \cup ran : o \in 0..Fires
      BY RanAreFires, Zenon
    <3>2. look[p].order \in 0..Fires
      BY <1>2, <3>1, Zenon
    <3> QED
      BY <1>2, <3>2 DEF Dereference, Goto, store
  <2>2. Prefix'
    BY <1>2, Zenon DEF Dereference, Goto, store, procs, Runs, Found, NoPointer
  <2>3. Named'
    BY <1>2, Zenon DEF Dereference, Goto, store, procs, RunInv, Runs, Found, NoPointer
  <2>4. ASSUME NEW q \in Processes PROVE RunInv(q)'
    BY <1>2, Zenon DEF Dereference, Goto, store, procs, RunInv, Runs, Found, NoPointer
  <2> QED
    BY <2>1, <2>2, <2>3, <2>4, Zenon
<1>3. ASSUME NEW p \in Processes, Tick(p) PROVE CronInv'
  <2>1. Shape'
    BY <1>3 DEF Tick, Goto, store, procs, RunInv, Runs
  <2>2. Prefix'
    BY <1>3, Zenon DEF Tick, Goto, store, procs, Runs
  <2>3. Named'
    BY <1>3, Zenon DEF Tick, Goto, store, procs, RunInv, Runs
  <2>4. ASSUME NEW q \in Processes PROVE RunInv(q)'
    BY <1>3 DEF Tick, Goto, store, procs, RunInv, Runs
  <2> QED
    BY <2>1, <2>2, <2>3, <2>4, Zenon
<1>4. ASSUME NEW p \in Processes, StartRun(p) PROVE CronInv'
  <2>1. Shape'
    <3>1. lastFire' \in [Processes -> 0..Fires] /\ run' \in [Processes -> 0..Fires] /\ DOMAIN pc' = Processes
      BY <1>4 DEF StartRun, Goto, Return
    <3> QED
      BY <1>4, <3>1, Zenon DEF StartRun
  <2>2. Prefix'
    BY <1>4, Zenon DEF StartRun, Goto, store, procs, Runs, Return, NoRecord
  <2>3. Named'
    <3>1. UNCHANGED <<pointer, look, ran>> /\ pc[p] = "start"
      BY <1>4, Zenon DEF StartRun
    <3>2. ASSUME NEW q \in Processes, lastFire'[q] # lastFire[q] PROVE lastFire'[q] \in ran
      <4>1. q = p /\ lastFire'[q] = run[p] /\ record[run[p]].status = "COMPLETED"
        BY <1>4, <3>2, Zenon DEF StartRun, Return
      <4>2. record[run[p]] # NoRecord
        <5>1. NoRecord.status = "NONE" /\ "NONE" # "COMPLETED"
          BY Zenon DEF NoRecord
        <5> QED
          BY <4>1, <5>1, Zenon
      <4>3. run[p] \in Runs
        BY <3>1, FiresIsNat DEF RunInv, Runs
      <4> QED
        BY <4>1, <4>2, <4>3, Zenon
    <3> QED
      BY <3>1, <3>2, Zenon
  <2>4. ASSUME NEW q \in Processes PROVE RunInv(q)'
    BY <1>4 DEF StartRun, Goto, store, procs, RunInv, Runs, Return, NoRecord
  <2> QED
    BY <2>1, <2>2, <2>3, <2>4, Zenon
<1>5. ASSUME NEW p \in Processes, Body(p) PROVE CronInv'
  BY <1>5 DEF Body, Goto, store, procs, RunInv, Runs
<1>6. ASSUME NEW p \in Processes, PutRecord(p) PROVE CronInv'
  <2>0. run[p] \in Runs
    BY <1>6, PrefixGrows, Zenon DEF PutRecord, RunInv
  <2>1. Shape'
    <3>1. ran' \in SUBSET Runs
      BY <1>6, <2>0, Zenon DEF PutRecord
    <3> QED
      BY <1>6, <3>1, Zenon DEF PutRecord, Goto
  <2>2. Prefix'
    BY <1>6, PrefixGrows DEF PutRecord, Goto, store, procs, RunInv, Runs, Outcomes, Charge
  <2>3. Named'
    BY <1>6, PrefixGrows, Zenon DEF PutRecord, Goto, store, procs, RunInv, Runs, Outcomes,
       Charge
  <2>4. ASSUME NEW q \in Processes PROVE RunInv(q)'
    BY <1>6, PrefixGrows DEF PutRecord, Goto, store, procs, RunInv, Runs, Outcomes, Charge
  <2> QED
    BY <2>1, <2>2, <2>3, <2>4, Zenon
<1>7. ASSUME NEW p \in Processes, ComparePointer(p) PROVE CronInv'
  BY <1>7 DEF ComparePointer, Goto, store, procs, RunInv, Runs, AfterPut
<1>8. ASSUME NEW p \in Processes, PutPointer(p) PROVE CronInv'
  BY <1>8 DEF PutPointer, Goto, store, procs, RunInv, Runs, Outcomes, Charge, AfterPut
<1>9. ASSUME NEW p \in Processes, Release(p) PROVE CronInv'
  <2>1. Shape'
    BY <1>9 DEF Release, Goto, store, procs, RunInv, Runs, Outcomes, Charge, Return
  <2>2. Prefix'
    BY <1>9, Zenon DEF Release, Goto, store, procs, Runs, Outcomes, Charge, Return
  <2>3. Named'
    BY <1>9 DEF Release, Goto, store, procs, RunInv, Runs, Outcomes, Charge, Return
  <2>4. ASSUME NEW q \in Processes PROVE RunInv(q)'
    BY <1>9 DEF Release, Goto, store, procs, RunInv, Runs, Outcomes, Charge, Return
  <2> QED
    BY <2>1, <2>2, <2>3, <2>4, Zenon
<1>10. ASSUME NEW p \in Processes, Crash(p) PROVE CronInv'
  <2>1. Shape'
    BY <1>10 DEF Crash, Goto, store, procs, RunInv, Runs, Booting, NoPointer
  <2>2. Prefix'
    BY <1>10, Zenon DEF Crash, Goto, store, procs, Runs, Booting, NoPointer
  <2>3. Named'
    BY <1>10, Zenon DEF Crash, Goto, store, procs, RunInv, Runs, Booting, NoPointer
  <2>4. ASSUME NEW q \in Processes PROVE RunInv(q)'
    BY <1>10, Zenon DEF Crash, Goto, store, procs, RunInv, Runs, Booting, NoPointer
  <2> QED
    BY <2>1, <2>2, <2>3, <2>4, Zenon
<1>11. ASSUME NEW p \in Processes, NEW r \in Runs, Resume(p, r) PROVE CronInv'
  <2>1. Shape'
    BY <1>11, SMTT(20) DEF Resume, Goto, store, procs, RunInv, Runs, NoRecord
  <2>2. Prefix'
    BY <1>11, Zenon DEF Resume, Goto, store, procs, Runs, NoRecord
  <2>3. Named'
    BY <1>11, Zenon DEF Resume, Goto, store, procs, RunInv, Runs, NoRecord
  <2>4. ASSUME NEW q \in Processes PROVE RunInv(q)'
    BY <1>11 DEF Resume, Goto, store, procs, RunInv, Runs, NoRecord
  <2> QED
    BY <2>1, <2>2, <2>3, <2>4, Zenon
<1>12. ASSUME NEW r \in Runs, OperatorRelease(r) PROVE CronInv'
  BY <1>12, Zenon DEF OperatorRelease, procs, RunInv, Runs, Outcomes, Charge, NoRecord
<1>13. ASSUME NEW r \in Runs, Retain(r) PROVE CronInv'
  BY <1>13 DEF Retain, procs, RunInv, Runs, Outcomes, Charge, NoRecord
<1>14. CASE Clock
  BY <1>14, Zenon DEF Clock, store, procs, RunInv, Runs
<1>15. CASE UNCHANGED cronVars
  BY <1>15, Zenon DEF cronVars, store, procs, RunInv, Runs
<1> QED
  BY <1>1, <1>2, <1>3, <1>4, <1>5, <1>6, <1>7, <1>8, <1>9, <1>10, <1>11, <1>12, <1>13, <1>14,
     <1>15, ZenonT(20)
  DEF CronNext, Boot, CronStep

(* Tick skips no fire, for every number of schedulers, workers, fires and    *)
(* setbacks: each fire up to the last one of a scheduler got a workflow        *)
(* record, however its last fire was recovered.                              *)
THEOREM NoFireIsSkipped == CronSpec => []NoFireSkipped
<1>1. CronInv => NoFireSkipped
  BY FiresIsNat DEF CronInv, Shape, Prefix, Named, NoFireSkipped, Runs
<1> QED
  BY <1>1, CronStarts, CronKeeps, PTL DEF CronSpec

-----------------------------------------------------------------------------
(* Where a process holds the claim of its run. *)
Holding == {"put", "lock", "pointer", "body", "release", "abort"}

Ended(r) == record[r].status \in {"COMPLETED", "FAILED"}

(* A process that drafts has a draft; a process that waits for its pointer   *)
(* has stored it.                                                            *)
DraftInv(p) ==
  /\ pc[p] \in {"put", "lock", "pointer"} => draft[p] # NoRecord
  /\ pc[p] \in {"lock", "pointer"} => record[run[p]] = draft[p]

ClaimInv ==
  /\ \A p \in Processes : pc[p] \in Holding => claim[run[p]] = p
  /\ \A p \in Processes, r \in Runs : claim[r] = p => run[p] = r /\ pc[p] \in Holding
  /\ \A p \in Processes : pc[p] \in {"put", "body"} => ~Ended(run[p])

EInv == CronTypeOK /\ CronInv /\ ClaimInv /\ \A p \in Processes : DraftInv(p)

LEMMA InitEInv == CronInit => EInv
<1> SUFFICES ASSUME CronInit PROVE EInv
  OBVIOUS
<1>1. CronTypeOK
  BY FiresIsNat DEF CronInit, CronTypeOK, Booting, Records, Pointers
<1>2. CronInv
  BY CronStarts, Zenon
<1>3. ClaimInv
  BY FreeIsNoProcess, Zenon DEF CronInit, ClaimInv, Holding, Booting
<1>4. \A p \in Processes : DraftInv(p)
  BY Zenon DEF CronInit, DraftInv, Booting
<1> QED
  BY <1>1, <1>2, <1>3, <1>4, Zenon DEF EInv

(* A process at work has a run. *)
LEMMA RunOfHolder ==
  ASSUME EInv, NEW p \in Processes, pc[p] \notin {"down", "boot", "idle"}
  PROVE  run[p] \in Runs
BY FiresIsNat DEF EInv, CronInv, Shape, RunInv, Runs

(* Types are preserved. *)
LEMMA StepTypes == EInv /\ [CronNext]_cronVars => CronTypeOK'
<1> SUFFICES ASSUME EInv, [CronNext]_cronVars PROVE CronTypeOK'
  OBVIOUS
<1>0. CronTypeOK
  BY Zenon DEF EInv
<1>1. ASSUME NEW p \in Processes, ReadPointer(p) PROVE CronTypeOK'
  BY <1>0, <1>1, Zenon DEF ReadPointer, Goto, store, CronTypeOK
<1>2. ASSUME NEW p \in Processes, Dereference(p) PROVE CronTypeOK'
  <2>1. look[p].order \in 0..Fires
    BY <1>0, FiresIsNat DEF CronTypeOK, Pointers, NoPointer, Runs
  <2>2. lastFire' \in [Processes -> 0..Fires]
    BY <1>0, <1>2, <2>1, FiresIsNat DEF Dereference, CronTypeOK
  <2> QED
    BY <1>0, <1>2, <2>2, Zenon DEF Dereference, Goto, store, CronTypeOK, Pointers
<1>3. ASSUME NEW p \in Processes, Tick(p) PROVE CronTypeOK'
  <2>1. lastFire[p] + 1 \in 0..Fires
    BY <1>0, <1>3, FiresIsNat DEF Tick, CronTypeOK
  <2> QED
    BY <1>0, <1>3, <2>1, Zenon DEF Tick, Goto, store, CronTypeOK
<1>4. ASSUME NEW p \in Processes, StartRun(p) PROVE CronTypeOK'
  <2>1. run[p] \in Runs
    BY <1>4, RunOfHolder, Zenon DEF StartRun
  <2>2. Stamp("IN_PROGRESS") \in Records /\ record[run[p]] \in Records
    BY <1>0, <2>1, Zenon DEF Stamp, Records, Statuses, CronTypeOK
  <2>3. 0 \in 0..Fires
    BY FiresIsNat
  <2>4. draft' \in [Processes -> Records]
    BY <1>0, <1>4, <2>2 DEF StartRun, Return, Goto, CronTypeOK, Records
  <2>5. run' \in [Processes -> 0..Fires] /\ lastFire' \in [Processes -> 0..Fires]
    BY <1>0, <1>4, <2>3 DEF StartRun, Return, Goto, CronTypeOK
  <2>6. pc' \in [Processes -> {"down", "boot", "idle", "start", "body", "put", "lock", "pointer",
                           "release", "abort"}]
    BY <1>0, <1>4 DEF StartRun, Return, Goto, CronTypeOK
  <2>7. claim' \in [Runs -> {"free", "leaked"} \cup Processes]
    BY <1>0, <1>4 DEF StartRun, CronTypeOK
  <2> QED
    BY <1>0, <1>4, <2>4, <2>5, <2>6, <2>7, Zenon DEF StartRun, CronTypeOK
<1>5. ASSUME NEW p \in Processes, Body(p) PROVE CronTypeOK'
  <2>1. \A s \in {"COMPLETED", "FAILED"} : Stamp(s) \in Records
    BY <1>0, Zenon DEF Stamp, Records, Statuses, CronTypeOK
  <2> QED
    BY <1>0, <1>5, <2>1 DEF Body, Goto, store, CronTypeOK
<1>6. ASSUME NEW p \in Processes, PutRecord(p) PROVE CronTypeOK'
  <2>1. run[p] \in Runs
    BY <1>6, RunOfHolder, Zenon DEF PutRecord
  <2>2. setbacks' \in Nat
    BY <1>0, <1>6 DEF PutRecord, Charge, CronTypeOK
  <2> QED
    BY <1>0, <1>6, <2>1, <2>2 DEF PutRecord, Goto, CronTypeOK
<1>7. ASSUME NEW p \in Processes, ComparePointer(p) PROVE CronTypeOK'
  <2>1. storeOf[p] \in Stores
    BY <1>0, LayoutsTyped DEF CronTypeOK
  <2>2. pc' \in [Processes -> {"down", "boot", "idle", "start", "body", "put", "lock", "pointer",
                           "release", "abort"}]
    BY <1>0, <1>7 DEF ComparePointer, Goto, AfterPut, CronTypeOK
  <2> QED
    BY <1>0, <1>7, <2>1, <2>2, Zenon DEF ComparePointer, store, CronTypeOK
<1>8. ASSUME NEW p \in Processes, PutPointer(p) PROVE CronTypeOK'
  <2>1. run[p] \in Runs
    BY <1>8, RunOfHolder, Zenon DEF PutPointer
  <2>2. draft[p] \in Records /\ draft[p] # NoRecord
    BY <1>0, <1>8, Zenon DEF EInv, DraftInv, PutPointer, CronTypeOK
  <2>3. [order |-> run[p], status |-> draft[p].status, at |-> draft[p].at] \in Pointers
    BY <2>1, <2>2, Zenon DEF Records, Pointers
  <2>4. storeOf[p] \in Stores
    BY <1>0, LayoutsTyped DEF CronTypeOK
  <2>5. setbacks' \in Nat
    BY <1>0, <1>8 DEF PutPointer, Charge, CronTypeOK
  <2>6. pc' \in [Processes -> {"down", "boot", "idle", "start", "body", "put", "lock", "pointer",
                           "release", "abort"}]
    BY <1>0, <1>8, Zenon DEF PutPointer, Goto, AfterPut, CronTypeOK
  <2>7. pointer' \in Pointers /\ author' \in {"none"} \cup Stores
    BY <1>0, <1>8, <2>3, <2>4, Zenon DEF PutPointer, CronTypeOK
  <2>8. lock' \in [Stores -> {"free"} \cup Processes]
    BY <1>0, <1>8, Zenon DEF PutPointer, CronTypeOK
  <2> QED
    BY <1>0, <1>8, <2>5, <2>6, <2>7, <2>8, Zenon DEF PutPointer, CronTypeOK
<1>9. ASSUME NEW p \in Processes, Release(p) PROVE CronTypeOK'
  <2>1. run[p] \in 0..Fires /\ 0 \in 0..Fires
    BY <1>0, FiresIsNat DEF CronTypeOK
  <2>2. setbacks' \in Nat
    BY <1>0, <1>9 DEF Release, Charge, CronTypeOK
  <2>3. draft' \in [Processes -> Records]
    BY <1>0, <1>9, Zenon DEF Release, Return, CronTypeOK, Records
  <2>4. run' \in [Processes -> 0..Fires] /\ lastFire' \in [Processes -> 0..Fires]
    BY <1>0, <1>9, <2>1 DEF Release, Return, CronTypeOK
  <2>5. pc' \in [Processes -> {"down", "boot", "idle", "start", "body", "put", "lock", "pointer",
                           "release", "abort"}]
    BY <1>0, <1>9 DEF Release, Return, Goto, CronTypeOK
  <2>6. claim' \in [Runs -> {"free", "leaked"} \cup Processes]
    BY <1>0, <1>9, Zenon DEF Release, CronTypeOK
  <2> QED
    BY <1>0, <1>9, <2>2, <2>3, <2>4, <2>5, <2>6, Zenon DEF Release, CronTypeOK
<1>10. ASSUME NEW p \in Processes, Crash(p) PROVE CronTypeOK'
  <2>1. draft' \in [Processes -> Records] /\ look' \in [Processes -> Pointers]
    BY <1>0, <1>10, Zenon DEF Crash, CronTypeOK, Records, Pointers
  <2>2. run' \in [Processes -> 0..Fires] /\ lastFire' \in [Processes -> 0..Fires] /\ setbacks' \in Nat
    BY <1>0, <1>10, FiresIsNat DEF Crash, CronTypeOK
  <2>3. claim' \in [Runs -> {"free", "leaked"} \cup Processes] /\ lock' \in [Stores -> {"free"} \cup Processes]
    BY <1>0, <1>10, Zenon DEF Crash, CronTypeOK
  <2> QED
    BY <1>0, <1>10, <2>1, <2>2, <2>3, Zenon DEF Crash, Goto, Booting, CronTypeOK
<1>11. ASSUME NEW p \in Processes, NEW r \in Runs, Resume(p, r) PROVE CronTypeOK'
  <2>1. r \in 0..Fires
    BY FiresIsNat DEF Runs
  <2> QED
    BY <1>0, <1>11, <2>1, Zenon DEF Resume, Goto, store, CronTypeOK
<1>12. ASSUME NEW r \in Runs, OperatorRelease(r) PROVE CronTypeOK'
  BY <1>0, <1>12, Zenon DEF OperatorRelease, procs, CronTypeOK
<1>13. ASSUME NEW r \in Runs, Retain(r) PROVE CronTypeOK'
  <2>1. setbacks' \in Nat
    BY <1>0, <1>13 DEF Retain, Charge, CronTypeOK
  <2> QED
    BY <1>0, <1>13, <2>1 DEF Retain, procs, CronTypeOK, Records
<1>14. CASE Clock
  BY <1>0, <1>14 DEF Clock, store, procs, CronTypeOK
<1>15. CASE UNCHANGED cronVars
  BY <1>0, <1>15, Zenon DEF cronVars, store, procs, CronTypeOK
<1> QED
  BY <1>1, <1>2, <1>3, <1>4, <1>5, <1>6, <1>7, <1>8, <1>9, <1>10, <1>11, <1>12, <1>13, <1>14,
     <1>15, Zenon DEF CronNext, Boot, CronStep

(* A step of process p leaves the others where they are. *)
Moves(p) ==
  \A q \in Processes \ {p} : pc'[q] = pc[q] /\ run'[q] = run[q] /\ draft'[q] = draft[q]

(* It neither has nor takes a claim. *)
LEMMA Aside ==
  ASSUME EInv, NEW p \in Processes, Moves(p), UNCHANGED <<claim, record>>,
         pc[p] \notin Holding, pc'[p] \notin Holding
  PROVE  ClaimInv' /\ \A q \in Processes : DraftInv(q)'
<1>0. ClaimInv /\ \A q \in Processes : DraftInv(q)
  BY Zenon DEF EInv
<1>1. ASSUME NEW q \in Processes, pc'[q] \in Holding
      PROVE  q # p /\ pc[q] \in Holding /\ pc'[q] = pc[q] /\ run'[q] = run[q] /\ draft'[q] = draft[q]
  BY <1>1, Zenon DEF Moves
<1>2. ASSUME NEW q \in Processes PROVE DraftInv(q)'
  BY <1>0, <1>1 DEF DraftInv, Holding
<1>3. ASSUME NEW q \in Processes, pc'[q] \in Holding PROVE claim'[run'[q]] = q
  BY <1>0, <1>1, <1>3, Zenon DEF ClaimInv
<1>4. ASSUME NEW q \in Processes, NEW r \in Runs, claim'[r] = q PROVE run'[q] = r /\ pc'[q] \in Holding
  <2>1. run[q] = r /\ pc[q] \in Holding
    BY <1>0, <1>4, Zenon DEF ClaimInv
  <2> QED
    BY <2>1, Zenon DEF Moves
<1>5. ASSUME NEW q \in Processes, pc'[q] \in {"put", "body"} PROVE ~Ended(run[q])'
  <2>1. pc[q] \in {"put", "body"} /\ run'[q] = run[q]
    BY <1>1, <1>5, Zenon DEF Holding
  <2>2. ~Ended(run[q])
    BY <1>0, <2>1, Zenon DEF ClaimInv
  <2> QED
    BY <2>1, <2>2, Zenon DEF Ended
<1> QED
  BY <1>2, <1>3, <1>4, <1>5, Zenon DEF ClaimInv

(* It goes on under its claim. *)
LEMMA GoesOn ==
  ASSUME EInv, NEW p \in Processes, Moves(p), UNCHANGED <<claim, record>>, run'[p] = run[p],
         pc[p] \in Holding, pc'[p] \in Holding, DraftInv(p)',
         pc'[p] \in {"put", "body"} => ~Ended(run[p])
  PROVE  ClaimInv' /\ \A q \in Processes : DraftInv(q)'
<1>0. ClaimInv /\ \A q \in Processes : DraftInv(q)
  BY Zenon DEF EInv
<1>1. \A q \in Processes : run'[q] = run[q] /\ (pc'[q] \in Holding <=> pc[q] \in Holding)
  BY Zenon DEF Moves
<1>2. ASSUME NEW q \in Processes PROVE DraftInv(q)'
  <2>1. CASE q # p
    BY <1>0, <2>1, Zenon DEF DraftInv, Moves
  <2> QED
    BY <2>1, Zenon
<1>3. ASSUME NEW q \in Processes, pc'[q] \in {"put", "body"} PROVE ~Ended(run[q])'
  <2>1. ~Ended(run[q])
    BY <1>0, <1>3, Zenon DEF ClaimInv, Moves
  <2> QED
    BY <1>1, <2>1, Zenon DEF Ended
<1>4. ASSUME NEW q \in Processes, pc'[q] \in Holding PROVE claim'[run'[q]] = q
  BY <1>0, <1>1, <1>4, Zenon DEF ClaimInv
<1>5. ASSUME NEW q \in Processes, NEW r \in Runs, claim'[r] = q PROVE run'[q] = r /\ pc'[q] \in Holding
  BY <1>0, <1>1, <1>5 DEF ClaimInv
<1> QED
  BY <1>2, <1>3, <1>4, <1>5, Zenon DEF ClaimInv

(* It takes a free claim. *)
LEMMA TakesClaim ==
  ASSUME EInv, NEW p \in Processes, Moves(p), UNCHANGED record, run'[p] = run[p], run[p] \in Runs,
         pc[p] \notin Holding, pc'[p] \in {"put", "body"}, pc'[p] = "put" => draft'[p] # NoRecord,
         ~Ended(run[p]), claim[run[p]] = "free", claim' = [claim EXCEPT ![run[p]] = p]
  PROVE  ClaimInv' /\ \A q \in Processes : DraftInv(q)'
<1>0. ClaimInv /\ \A q \in Processes : DraftInv(q)
  BY Zenon DEF EInv
<1>1. /\ claim'[run[p]] = p
      /\ \A r \in Runs : r # run[p] => claim'[r] = claim[r]
  BY Zenon DEF EInv, CronTypeOK
<1>2. ASSUME NEW q \in Processes \ {p}, pc[q] \in Holding PROVE run[q] # run[p] /\ run[q] \in Runs
  <2>1. run[q] \in Runs
    BY <1>2, RunOfHolder, Zenon DEF Holding
  <2>2. claim[run[q]] = q
    BY <1>0, <1>2, Zenon DEF ClaimInv
  <2> QED
    BY <2>1, <2>2, FreeIsNoProcess, Zenon
<1>3. ASSUME NEW q \in Processes PROVE DraftInv(q)'
  <2>1. CASE q # p
    BY <1>0, <2>1, Zenon DEF DraftInv, Moves
  <2>2. CASE q = p
    BY <2>2, Zenon DEF DraftInv
  <2> QED
    BY <2>1, <2>2, Zenon
<1>4. ASSUME NEW q \in Processes, pc'[q] \in {"put", "body"} PROVE ~Ended(run[q])'
  <2>1. ~Ended(run[q]) /\ run'[q] = run[q]
    BY <1>0, <1>4, Zenon DEF ClaimInv, Moves
  <2> QED
    BY <2>1, Zenon DEF Ended
<1>5. ASSUME NEW q \in Processes, pc'[q] \in Holding PROVE claim'[run'[q]] = q
  <2>1. CASE q = p
    BY <1>1, <2>1, Zenon
  <2>2. CASE q # p
    <3>1. pc[q] \in Holding /\ run'[q] = run[q]
      BY <1>5, <2>2, Zenon DEF Moves
    <3>2. claim[run[q]] = q
      BY <1>0, <3>1, Zenon DEF ClaimInv
    <3> QED
      BY <1>1, <1>2, <2>2, <3>1, <3>2
  <2> QED
    BY <2>1, <2>2, Zenon
<1>6. ASSUME NEW q \in Processes, NEW r \in Runs, claim'[r] = q PROVE run'[q] = r /\ pc'[q] \in Holding
  <2>1. CASE r = run[p]
    BY <1>1, <1>6, <2>1, Zenon DEF Holding
  <2>2. CASE r # run[p]
    <3>0. claim[r] = q
      BY <1>1, <1>6, <2>2, Zenon
    <3>1. run[q] = r /\ pc[q] \in Holding
      BY <1>0, <3>0, Zenon DEF ClaimInv
    <3> QED
      BY <3>1, Zenon DEF Moves
  <2> QED
    BY <2>1, <2>2, Zenon
<1> QED
  BY <1>3, <1>4, <1>5, <1>6, Zenon DEF ClaimInv

(* It writes the record of its run, or fails to. *)
LEMMA WritesRecord ==
  ASSUME EInv, NEW p \in Processes, PutRecord(p)
  PROVE  ClaimInv' /\ \A q \in Processes : DraftInv(q)'
<1>0. CronTypeOK /\ ClaimInv /\ \A q \in Processes : DraftInv(q)
  BY Zenon DEF EInv
<1>1. pc[p] = "put" /\ UNCHANGED <<claim, run, draft>>
  BY Zenon DEF PutRecord
<1>2. /\ pc'[p] \in {"lock", "abort"}
      /\ \A q \in Processes \ {p} : pc'[q] = pc[q]
  BY <1>0, Zenon DEF PutRecord, Goto, CronTypeOK
<1>3. run[p] \in Runs /\ claim[run[p]] = p /\ draft[p] # NoRecord
  BY <1>0, <1>1, RunOfHolder, Zenon DEF ClaimInv, DraftInv, Holding
<1>4. /\ \A r \in Runs : r # run[p] => record'[r] = record[r]
      /\ pc'[p] = "lock" => record'[run[p]] = draft[p]
  BY <1>0, <1>3 DEF PutRecord, Goto, CronTypeOK, Outcomes
<1>5. ASSUME NEW q \in Processes \ {p}, pc[q] \in Holding PROVE run[q] # run[p] /\ run[q] \in Runs
  <2>1. claim[run[q]] = q
    BY <1>0, <1>5, Zenon DEF ClaimInv
  <2>2. run[q] \in Runs
    BY <1>5, RunOfHolder, Zenon DEF Holding
  <2> QED
    BY <1>3, <2>1, <2>2, Zenon
<1>6. ASSUME NEW q \in Processes PROVE DraftInv(q)'
  <2>1. CASE q = p
    BY <1>1, <1>2, <1>3, <1>4, <2>1, Zenon DEF DraftInv
  <2>2. CASE q # p
    <3>1. pc'[q] = pc[q] /\ DraftInv(q)
      BY <1>0, <1>2, <2>2, Zenon
    <3>2. pc[q] \in Holding => record'[run[q]] = record[run[q]]
      BY <1>4, <1>5, <2>2, Zenon
    <3> QED
      BY <1>1, <3>1, <3>2, Zenon DEF DraftInv, Holding
  <2> QED
    BY <2>1, <2>2, Zenon
<1>7. ASSUME NEW q \in Processes, pc'[q] \in {"put", "body"} PROVE ~Ended(run[q])'
  <2>1. q # p /\ pc[q] \in {"put", "body"} /\ pc[q] \in Holding
    BY <1>2, <1>7, Zenon DEF Holding
  <2>2. ~Ended(run[q])
    BY <1>0, <2>1, Zenon DEF ClaimInv
  <2>3. record'[run[q]] = record[run[q]]
    BY <1>4, <1>5, <2>1, Zenon
  <2> QED
    BY <1>1, <2>2, <2>3, Zenon DEF Ended
<1>8. \A q \in Processes : pc'[q] \in Holding <=> pc[q] \in Holding
  BY <1>1, <1>2, Zenon DEF Holding
<1>9. ASSUME NEW q \in Processes, pc'[q] \in Holding PROVE claim'[run'[q]] = q
  BY <1>0, <1>1, <1>8, <1>9, Zenon DEF ClaimInv
<1>10. ASSUME NEW q \in Processes, NEW r \in Runs, claim'[r] = q PROVE run'[q] = r /\ pc'[q] \in Holding
  BY <1>0, <1>1, <1>8, <1>10, Zenon DEF ClaimInv
<1> QED
  BY <1>6, <1>7, <1>9, <1>10, Zenon DEF ClaimInv

(* It ends: its claim, if it has one, no longer names it. *)
LEMMA LetsGo ==
  ASSUME EInv, NEW p \in Processes, Moves(p), UNCHANGED record, pc'[p] \notin Holding,
         \A r \in Runs : IF claim[r] = p THEN claim'[r] \in {"free", "leaked"} ELSE claim'[r] = claim[r]
  PROVE  ClaimInv' /\ \A q \in Processes : DraftInv(q)'
<1>0. ClaimInv /\ \A q \in Processes : DraftInv(q)
  BY Zenon DEF EInv
<1>1. ASSUME NEW q \in Processes, pc'[q] \in Holding
      PROVE  q # p /\ pc[q] \in Holding /\ pc'[q] = pc[q] /\ run'[q] = run[q] /\ draft'[q] = draft[q]
  BY <1>1, Zenon DEF Moves
<1>2. ASSUME NEW q \in Processes PROVE DraftInv(q)'
  BY <1>0, <1>1 DEF DraftInv, Holding
<1>3. ASSUME NEW q \in Processes, pc'[q] \in {"put", "body"} PROVE ~Ended(run[q])'
  <2>1. pc[q] \in {"put", "body"} /\ run'[q] = run[q]
    BY <1>1, <1>3, Zenon DEF Holding
  <2>2. ~Ended(run[q])
    BY <1>0, <2>1, Zenon DEF ClaimInv
  <2> QED
    BY <2>1, <2>2, Zenon DEF Ended
<1>4. ASSUME NEW q \in Processes, pc'[q] \in Holding PROVE claim'[run'[q]] = q
  <2>1. claim[run[q]] = q /\ q # p /\ run'[q] = run[q]
    BY <1>0, <1>1, <1>4, Zenon DEF ClaimInv
  <2>2. run[q] \in Runs
    BY <1>1, <1>4, RunOfHolder, Zenon DEF Holding
  <2> QED
    BY <2>1, <2>2, Zenon
<1>5. ASSUME NEW q \in Processes, NEW r \in Runs, claim'[r] = q PROVE run'[q] = r /\ pc'[q] \in Holding
  <2>1. claim[r] = q /\ q # p
    BY <1>5, FreeIsNoProcess, Zenon
  <2>2. run[q] = r /\ pc[q] \in Holding
    BY <1>0, <2>1, Zenon DEF ClaimInv
  <2> QED
    BY <2>1, <2>2, Zenon DEF Moves
<1> QED
  BY <1>2, <1>3, <1>4, <1>5, Zenon DEF ClaimInv

(* The claim of a run that nobody works on is removed, with its record or    *)
(* without.                                                                  *)
LEMMA ClaimRemoved ==
  ASSUME EInv, NEW r \in Runs, UNCHANGED <<pc, run, draft>>, \A q \in Processes : claim[r] # q,
         claim' = [claim EXCEPT ![r] = "free"], \A k \in Runs \ {r} : record'[k] = record[k]
  PROVE  ClaimInv' /\ \A q \in Processes : DraftInv(q)'
<1>0. CronTypeOK /\ ClaimInv /\ \A q \in Processes : DraftInv(q)
  BY Zenon DEF EInv
<1>1. claim'[r] = "free" /\ \A k \in Runs \ {r} : claim'[k] = claim[k]
  BY <1>0, Zenon DEF CronTypeOK
<1>2. ASSUME NEW q \in Processes, pc[q] \in Holding PROVE run[q] # r /\ run[q] \in Runs
  <2>1. claim[run[q]] = q
    BY <1>0, <1>2, Zenon DEF ClaimInv
  <2>2. run[q] \in Runs
    BY <1>2, RunOfHolder, Zenon DEF Holding
  <2> QED
    BY <2>1, <2>2, Zenon
<1>3. \A q \in Processes : pc[q] \in Holding => record'[run[q]] = record[run[q]]
  BY <1>2, Zenon
<1>4. ASSUME NEW q \in Processes PROVE DraftInv(q)'
  BY <1>0, <1>3, Zenon DEF DraftInv, Holding
<1>5. ASSUME NEW q \in Processes, pc'[q] \in {"put", "body"} PROVE ~Ended(run[q])'
  <2>1. pc[q] \in {"put", "body"} /\ pc[q] \in Holding
    BY <1>5, Zenon DEF Holding
  <2>2. ~Ended(run[q])
    BY <1>0, <2>1, Zenon DEF ClaimInv
  <2> QED
    BY <1>3, <2>1, <2>2, Zenon DEF Ended
<1>6. ASSUME NEW q \in Processes, pc'[q] \in Holding PROVE claim'[run'[q]] = q
  BY <1>0, <1>1, <1>2, <1>6, Zenon DEF ClaimInv
<1>7. ASSUME NEW q \in Processes, NEW k \in Runs, claim'[k] = q PROVE run'[q] = k /\ pc'[q] \in Holding
  <2>1. k # r /\ claim[k] = q
    BY <1>1, <1>7, FreeIsNoProcess, Zenon
  <2> QED
    BY <1>0, <2>1 DEF ClaimInv
<1> QED
  BY <1>4, <1>5, <1>6, <1>7, Zenon DEF ClaimInv

(* The claim names its holder, and nobody is about to write over the record  *)
(* of a run that has ended.                                                  *)
LEMMA StepClaims == EInv /\ [CronNext]_cronVars => ClaimInv' /\ \A q \in Processes : DraftInv(q)'
<1> SUFFICES ASSUME EInv, [CronNext]_cronVars PROVE ClaimInv' /\ \A q \in Processes : DraftInv(q)'
  OBVIOUS
<1> DEFINE Goal == ClaimInv' /\ \A q \in Processes : DraftInv(q)'
<1>0. CronTypeOK /\ ClaimInv /\ \A q \in Processes : DraftInv(q)
  BY Zenon DEF EInv
<1>1. ASSUME NEW p \in Processes, ReadPointer(p) \/ Dereference(p) \/ Tick(p) \/ \E r \in Runs : Resume(p, r)
      PROVE  Goal
  <2>1. Moves(p) /\ UNCHANGED <<claim, record>> /\ pc[p] \in {"down", "boot", "idle"}
    <3>0. /\ pc \in [Processes -> {"down", "boot", "idle", "start", "body", "put", "lock", "pointer",
                                   "release", "abort"}]
          /\ run \in [Processes -> 0..Fires]
      BY <1>0, Zenon DEF CronTypeOK
    <3>1. CASE ReadPointer(p) \/ Dereference(p)
      BY <3>0, <3>1, Zenon DEF ReadPointer, Dereference, Goto, store, Moves
    <3>2. CASE Tick(p)
      BY <3>0, <3>2, Zenon DEF Tick, Goto, store, Moves
    <3>3. ASSUME NEW r \in Runs, Resume(p, r)
          PROVE  Moves(p) /\ UNCHANGED <<claim, record>> /\ pc[p] \in {"down", "boot", "idle"}
      BY <3>0, <3>3, Zenon DEF Resume, Goto, store, Moves
    <3> QED
      BY <1>1, <3>1, <3>2, <3>3, Zenon
  <2>2. pc'[p] \in {"boot", "idle", "start"}
    BY <1>0, <1>1 DEF ReadPointer, Dereference, Tick, Resume, Goto, CronTypeOK
  <2> QED
    BY <2>1, <2>2, Aside, Zenon DEF Holding
<1>2. ASSUME NEW p \in Processes, StartRun(p) PROVE Goal
  <2>0. run[p] \in Runs /\ pc[p] = "start" /\ record' = record
    BY <1>2, RunOfHolder, Zenon DEF StartRun
  <2>1. CASE claim' = claim /\ Return(p, record[run[p]].status = "COMPLETED")
    <3>1. Moves(p) /\ pc'[p] = "idle"
      BY <1>0, <2>1, Zenon DEF Return, Goto, CronTypeOK, Moves
    <3> QED
      BY <2>0, <2>1, <3>1, Aside, Zenon DEF Holding
  <2>2. CASE /\ ~Ended(run[p]) /\ claim[run[p]] = "free"
             /\ claim' = [claim EXCEPT ![run[p]] = p]
             /\ draft' = [draft EXCEPT ![p] = Stamp("IN_PROGRESS")] /\ Goto(p, "put")
             /\ UNCHANGED <<lastFire, run>>
    <3>1. Moves(p) /\ pc'[p] = "put" /\ draft'[p] = Stamp("IN_PROGRESS")
      BY <1>0, <2>2, Zenon DEF Goto, CronTypeOK, Moves
    <3>2. draft'[p].status = "IN_PROGRESS" /\ NoRecord.status = "NONE"
      <4>1. Stamp("IN_PROGRESS").status = "IN_PROGRESS" /\ NoRecord.status = "NONE"
        BY Zenon DEF Stamp, NoRecord
      <4> QED
        BY <3>1, <4>1, Zenon
    <3>3. draft'[p] # NoRecord
      BY <3>2, Zenon
    <3> QED
      BY <2>0, <2>2, <3>1, <3>3, TakesClaim, Zenon DEF Holding
  <2>3. CASE /\ ~Ended(run[p]) /\ claim[run[p]] = "free"
             /\ claim' = [claim EXCEPT ![run[p]] = p]
             /\ draft' = [draft EXCEPT ![p] = record[run[p]]] /\ Goto(p, "body")
             /\ UNCHANGED <<lastFire, run>>
    <3>1. Moves(p) /\ pc'[p] = "body"
      BY <1>0, <2>3, Zenon DEF Goto, CronTypeOK, Moves
    <3> QED
      BY <2>0, <2>3, <3>1, TakesClaim, Zenon DEF Holding
  <2> QED
    BY <1>2, <2>1, <2>2, <2>3, Zenon DEF StartRun, Ended
<1>3. ASSUME NEW p \in Processes, Body(p) PROVE Goal
  <2>1. Moves(p) /\ UNCHANGED <<claim, record, run>> /\ pc[p] = "body" /\ ~Ended(run[p])
    BY <1>0, <1>3 DEF Body, Goto, store, CronTypeOK, Moves, ClaimInv
  <2>2. pc'[p] = "release" \/ (pc'[p] = "put" /\ draft'[p] # NoRecord)
    BY <1>0, <1>3 DEF Body, Goto, CronTypeOK, Stamp, NoRecord
  <2>3. DraftInv(p)' /\ pc[p] \in Holding /\ pc'[p] \in Holding
    BY <2>1, <2>2, Zenon DEF DraftInv, Holding
  <2> QED
    BY <2>1, <2>3, GoesOn, Zenon
<1>4. ASSUME NEW p \in Processes, ComparePointer(p) \/ PutPointer(p) PROVE Goal
  <2>1. Moves(p) /\ UNCHANGED <<claim, record, run, draft>> /\ pc[p] \in {"lock", "pointer"}
    BY <1>0, <1>4, Zenon DEF ComparePointer, PutPointer, Goto, store, CronTypeOK, Moves
  <2>2. \/ pc'[p] \in {"pointer", "abort", "release"}
        \/ pc'[p] = "body" /\ draft[p].status = "IN_PROGRESS"
    BY <1>0, <1>4 DEF ComparePointer, PutPointer, Goto, AfterPut, CronTypeOK
  <2>3. record[run[p]] = draft[p] /\ draft[p] # NoRecord
    BY <1>0, <2>1, Zenon DEF DraftInv
  <2>4. pc'[p] \in {"put", "body"} => ~Ended(run[p])
    BY <2>2, <2>3, Zenon DEF Ended
  <2>5. DraftInv(p)' /\ pc[p] \in Holding /\ pc'[p] \in Holding
    BY <2>1, <2>2, <2>3, Zenon DEF DraftInv, Holding
  <2> QED
    BY <2>1, <2>4, <2>5, GoesOn, Zenon
<1>5. ASSUME NEW p \in Processes, PutRecord(p) PROVE Goal
  BY <1>5, WritesRecord, Zenon
<1>6. ASSUME NEW p \in Processes, Release(p) PROVE Goal
  <2>1. run[p] \in Runs /\ pc[p] \in Holding
    BY <1>6, RunOfHolder, Zenon DEF Release, Holding
  <2>2. \A r \in Runs : claim[r] = p => r = run[p]
    BY <1>0, Zenon DEF ClaimInv
  <2>3. claim[run[p]] = p
    BY <1>0, <2>1, Zenon DEF ClaimInv
  <2>4. PICK v \in {"free", "leaked"} : claim' = [claim EXCEPT ![run[p]] = v]
    BY <1>6, Zenon DEF Release
  <2>5. \A r \in Runs : IF claim[r] = p THEN claim'[r] \in {"free", "leaked"} ELSE claim'[r] = claim[r]
    BY <1>0, <2>2, <2>3, <2>4, Zenon DEF CronTypeOK
  <2>6. Moves(p) /\ record' = record /\ pc'[p] = "idle"
    BY <1>0, <1>6 DEF Release, Return, Goto, CronTypeOK, Moves
  <2> QED
    BY <2>5, <2>6, LetsGo, Zenon DEF Holding
<1>7. ASSUME NEW p \in Processes, Crash(p) PROVE Goal
  <2>1. Moves(p) /\ record' = record /\ pc'[p] \in {"down", "boot", "idle"}
    BY <1>0, <1>7, Zenon DEF Crash, Goto, Booting, CronTypeOK, Moves
  <2>2. \A r \in Runs : IF claim[r] = p THEN claim'[r] \in {"free", "leaked"} ELSE claim'[r] = claim[r]
    BY <1>7, Zenon DEF Crash
  <2> QED
    BY <2>1, <2>2, LetsGo, Zenon DEF Holding
<1>8. ASSUME NEW r \in Runs, OperatorRelease(r) PROVE Goal
  <2>1. \A q \in Processes : claim[r] # q
    BY <1>8, FreeIsNoProcess, Zenon DEF OperatorRelease
  <2>2. claim' = [claim EXCEPT ![r] = "free"] /\ UNCHANGED <<pc, run, draft, record>>
    BY <1>8, Zenon DEF OperatorRelease, procs
  <2> QED
    BY <2>1, <2>2, ClaimRemoved, Zenon
<1>9. ASSUME NEW r \in Runs, Retain(r) PROVE Goal
  <2>1. \A q \in Processes : run[q] # r
    BY <1>9, Zenon DEF Retain
  <2>2. \A q \in Processes : claim[r] # q
    BY <1>0, <2>1, Zenon DEF ClaimInv
  <2>3. claim' = [claim EXCEPT ![r] = "free"] /\ UNCHANGED <<pc, run, draft>>
    BY <1>9, Zenon DEF Retain, procs
  <2>4. \A k \in Runs \ {r} : record'[k] = record[k]
    BY <1>0, <1>9, Zenon DEF Retain, CronTypeOK
  <2> QED
    BY <2>2, <2>3, <2>4, ClaimRemoved, Zenon
<1>10. CASE Clock \/ UNCHANGED cronVars
  <2>1. UNCHANGED <<pc, run, draft, claim, record>>
    BY <1>10, Zenon DEF Clock, cronVars, store, procs
  <2> QED
    BY <1>0, <2>1, ZenonT(20) DEF ClaimInv, DraftInv, Ended
<1> QED
  BY <1>1, <1>2, <1>3, <1>4, <1>5, <1>6, <1>7, <1>8, <1>9, <1>10, Zenon DEF CronNext, Boot, CronStep

LEMMA StepEInv == EInv /\ [CronNext]_cronVars => EInv'
  BY StepTypes, CronKeeps, StepClaims, Zenon DEF EInv

(* The stored records, the pointer, the claims and every process keep their  *)
(* types, for every number of processes, store instances, fires and setbacks.  *)
THEOREM CronTypeCorrect == CronSpec => []CronTypeOK
<1>1. EInv => CronTypeOK
  BY Zenon DEF EInv
<1> QED
  BY <1>1, InitEInv, StepEInv, PTL DEF CronSpec

(* No restart, repeated fire, racing scheduler or resumed call writes over   *)
(* the record of a run that has ended: PutWorkflow is called under the claim *)
(* of the run only, with a record in hand that was not terminal.             *)
THEOREM EndedRunsAreKept == CronSpec => EndedRunsKept
<1>1. ASSUME EInv, [CronNext]_cronVars, NEW r \in Runs, Ended(r) PROVE record'[r] \in {record[r], NoRecord}
  <2>1. CronTypeOK /\ ClaimInv
    BY <1>1, Zenon DEF EInv
  <2>2. ASSUME NEW p \in Processes, PutRecord(p) PROVE record'[r] \in {record[r], NoRecord}
    <3>0. pc[p] = "put"
      BY <2>2, Zenon DEF PutRecord
    <3>1. run[p] # r
      <4>1. ~ Ended(run[p])
        BY <2>1, <3>0, Zenon DEF ClaimInv
      <4> QED
        BY <1>1, <4>1, Zenon
    <3>2. record' = record \/ record' = [record EXCEPT ![run[p]] = draft[p]]
      BY <2>2, Zenon DEF PutRecord
    <3> QED
      BY <2>1, <3>1, <3>2, Zenon DEF CronTypeOK
  <2>3. ASSUME NEW q \in Runs, Retain(q) PROVE record'[r] \in {record[r], NoRecord}
    BY <2>1, <2>3, Zenon DEF Retain, CronTypeOK
  <2>4. ASSUME NEW p \in Processes,
               \/ ReadPointer(p) \/ Dereference(p) \/ Tick(p) \/ StartRun(p) \/ Body(p)
               \/ ComparePointer(p) \/ PutPointer(p) \/ Release(p) \/ Crash(p)
               \/ \E q \in Runs : Resume(p, q)
        PROVE  record' = record
    BY <2>4, Zenon DEF ReadPointer, Dereference, Tick, StartRun, Body, ComparePointer,
       PutPointer, Release, Crash, Resume, store
  <2>5. (\E q \in Runs : OperatorRelease(q)) \/ Clock \/ UNCHANGED cronVars => record' = record
    BY Zenon DEF OperatorRelease, Clock, cronVars, store
  <2> QED
    BY <1>1, <2>2, <2>3, <2>4, <2>5, Zenon DEF CronNext, Boot, CronStep
<1>2. EInv /\ [CronNext]_cronVars =>
        [\A r \in Runs : record[r].status \in {"COMPLETED", "FAILED"} =>
           record'[r] \in {record[r], NoRecord}]_cronVars
  BY <1>1, Zenon DEF Ended
<1> QED
  BY <1>2, InitEInv, StepEInv, PTL DEF CronSpec, EndedRunsKept

(* A process that is about to write the pointer holds the lock of its store  *)
(* instance, and the pointer it has read is at most that old unless another  *)
(* instance has written since.                                               *)
PointerInv ==
  \A p \in Processes : pc[p] = "pointer" =>
    lock[storeOf[p]] = p /\ (author = storeOf[p] => pointer.order <= run[p])

LEMMA PointerAside ==
  ASSUME PointerInv, UNCHANGED <<storeOf, pointer, author, lock>>,
         \A q \in Processes : pc'[q] = "pointer" => pc[q] = "pointer" /\ run'[q] = run[q]
  PROVE  PointerInv'
  BY Zenon DEF PointerInv

LEMMA PointerStep == CronTypeOK /\ PointerInv /\ [CronNext]_cronVars => PointerInv'
<1> SUFFICES ASSUME CronTypeOK, PointerInv, [CronNext]_cronVars PROVE PointerInv'
  OBVIOUS
<1>0. /\ pc \in [Processes -> {"down", "boot", "idle", "start", "body", "put", "lock", "pointer",
                               "release", "abort"}]
      /\ run \in [Processes -> 0..Fires] /\ lock \in [Stores -> {"free"} \cup Processes]
      /\ storeOf \in [Processes -> Stores]
  BY LayoutsTyped, Zenon DEF CronTypeOK
<1>1. ASSUME NEW p \in Processes, ReadPointer(p) \/ Dereference(p) PROVE PointerInv'
  <2>1. \A q \in Processes : pc'[q] = "pointer" => pc[q] = "pointer" /\ run'[q] = run[q]
    BY <1>0, <1>1, Zenon DEF ReadPointer, Dereference, Goto
  <2>2. UNCHANGED <<storeOf, pointer, author, lock>>
    BY <1>1, Zenon DEF ReadPointer, Dereference, store
  <2> QED
    BY <2>1, <2>2, PointerAside, Zenon
<1>2. ASSUME NEW p \in Processes, Tick(p) \/ \E r \in Runs : Resume(p, r) PROVE PointerInv'
  <2>1. \A q \in Processes : pc'[q] = "pointer" => pc[q] = "pointer" /\ run'[q] = run[q]
    BY <1>0, <1>2, Zenon DEF Tick, Resume, Goto
  <2>2. UNCHANGED <<storeOf, pointer, author, lock>>
    BY <1>2, Zenon DEF Tick, Resume, store
  <2> QED
    BY <2>1, <2>2, PointerAside, Zenon
<1>3. ASSUME NEW p \in Processes, StartRun(p) PROVE PointerInv'
  <2>1. \/ Goto(p, "idle") /\ run' = [run EXCEPT ![p] = 0]
        \/ (Goto(p, "put") \/ Goto(p, "body")) /\ run' = run
    BY <1>3, Zenon DEF StartRun, Return
  <2>2. \A q \in Processes : pc'[q] = "pointer" => pc[q] = "pointer" /\ run'[q] = run[q]
    BY <1>0, <2>1, Zenon DEF Goto
  <2>3. UNCHANGED <<storeOf, pointer, author, lock>>
    BY <1>3, Zenon DEF StartRun
  <2> QED
    BY <2>2, <2>3, PointerAside, Zenon
<1>4. ASSUME NEW p \in Processes, Body(p) \/ PutRecord(p) PROVE PointerInv'
  <2>1. (\E l \in {"release", "put", "lock", "abort"} : Goto(p, l)) /\ run' = run
    BY <1>4, Zenon DEF Body, PutRecord
  <2>2. \A q \in Processes : pc'[q] = "pointer" => pc[q] = "pointer" /\ run'[q] = run[q]
    BY <1>0, <2>1, Zenon DEF Goto
  <2>3. UNCHANGED <<storeOf, pointer, author, lock>>
    BY <1>4, Zenon DEF Body, PutRecord, store
  <2> QED
    BY <2>2, <2>3, PointerAside, Zenon
<1>5. ASSUME NEW p \in Processes, ComparePointer(p) PROVE PointerInv'
  <2>0. UNCHANGED <<storeOf, pointer, author, run>> /\ lock[storeOf[p]] = "free"
    BY <1>5, Zenon DEF ComparePointer, store
  <2>1. CASE lock' = lock /\ Goto(p, AfterPut(p, TRUE))
    <3>1. AfterPut(p, TRUE) # "pointer"
      BY Zenon DEF AfterPut
    <3>2. \A q \in Processes : pc'[q] = "pointer" => pc[q] = "pointer" /\ run'[q] = run[q]
      BY <1>0, <2>0, <2>1, <3>1, Zenon DEF Goto
    <3> QED
      BY <2>0, <2>1, <3>2, PointerAside, Zenon
  <2>2. CASE /\ lock' = [lock EXCEPT ![storeOf[p]] = p] /\ Goto(p, "pointer")
             /\ pointer = NoPointer \/ ShouldReplace(pointer, run[p], draft[p].at)
    <3>1. pointer.order <= run[p]
      <4>1. run[p] \in Nat /\ pointer.order \in Nat
        BY <1>0, FiresIsNat DEF CronTypeOK, Pointers, NoPointer, Runs
      <4>2. CASE pointer = NoPointer
        BY <4>1, <4>2 DEF NoPointer
      <4>3. CASE ShouldReplace(pointer, run[p], draft[p].at)
        BY <4>1, <4>3 DEF ShouldReplace
      <4> QED
        BY <2>2, <4>2, <4>3, Zenon
    <3>2. ASSUME NEW q \in Processes, pc'[q] = "pointer"
          PROVE  lock'[storeOf[q]] = q /\ (author = storeOf[q] => pointer.order <= run[q])
      <4>1. CASE q = p
        BY <1>0, <2>2, <3>1, <4>1, Zenon
      <4>2. CASE q # p
        <5>1. pc[q] = "pointer"
          BY <1>0, <2>2, <3>2, <4>2, Zenon DEF Goto
        <5>2. lock[storeOf[q]] = q /\ (author = storeOf[q] => pointer.order <= run[q])
          BY <5>1, Zenon DEF PointerInv
        <5>3. storeOf[q] # storeOf[p]
          BY <2>0, <5>2, FreeIsNoProcess, Zenon
        <5> QED
          BY <1>0, <2>2, <5>2, <5>3, Zenon
      <4> QED
        BY <4>1, <4>2, Zenon
    <3> QED
      BY <2>0, <3>2, Zenon DEF PointerInv
  <2> QED
    BY <1>5, <2>1, <2>2, Zenon DEF ComparePointer
<1>6. ASSUME NEW p \in Processes, PutPointer(p) PROVE PointerInv'
  <2>0. /\ UNCHANGED <<storeOf, run>> /\ pc[p] = "pointer" /\ lock' = [lock EXCEPT ![storeOf[p]] = "free"]
        /\ author' = storeOf[p] \/ UNCHANGED <<pointer, author>>
        /\ \E o \in Outcomes : Goto(p, AfterPut(p, o = "ok"))
    BY <1>6, Zenon DEF PutPointer
  <2>1. \A o \in Outcomes : AfterPut(p, o = "ok") # "pointer"
    BY Zenon DEF AfterPut
  <2>2. lock[storeOf[p]] = p
    BY <2>0, Zenon DEF PointerInv
  <2>3. ASSUME NEW q \in Processes, pc'[q] = "pointer"
        PROVE  lock'[storeOf[q]] = q /\ (author' = storeOf[q] => pointer'.order <= run[q])
    <3>1. q # p /\ pc[q] = "pointer"
      BY <1>0, <2>0, <2>1, <2>3, Zenon DEF Goto
    <3>2. lock[storeOf[q]] = q /\ (author = storeOf[q] => pointer.order <= run[q])
      BY <3>1, Zenon DEF PointerInv
    <3>3. storeOf[q] # storeOf[p]
      BY <2>2, <3>1, <3>2, Zenon
    <3>4. lock'[storeOf[q]] = q
      BY <1>0, <2>0, <3>2, <3>3, Zenon
    <3>5. CASE author' = storeOf[p]
      BY <3>3, <3>4, <3>5, Zenon
    <3>6. CASE UNCHANGED <<pointer, author>>
      BY <3>2, <3>4, <3>6, Zenon
    <3> QED
      BY <2>0, <3>5, <3>6, Zenon
  <2> QED
    BY <2>0, <2>3, Zenon DEF PointerInv
<1>7. ASSUME NEW p \in Processes, Release(p) PROVE PointerInv'
  <2>1. Goto(p, "idle") /\ run' = [run EXCEPT ![p] = 0]
    BY <1>7, Zenon DEF Release, Return
  <2>2. \A q \in Processes : pc'[q] = "pointer" => pc[q] = "pointer" /\ run'[q] = run[q]
    BY <1>0, <2>1, Zenon DEF Goto
  <2>3. UNCHANGED <<storeOf, pointer, author, lock>>
    BY <1>7, Zenon DEF Release
  <2> QED
    BY <2>2, <2>3, PointerAside, Zenon
<1>8. ASSUME NEW p \in Processes, Crash(p) PROVE PointerInv'
  <2>0. /\ UNCHANGED <<storeOf, pointer, author>> /\ Goto(p, Booting(p)) /\ run' = [run EXCEPT ![p] = 0]
        /\ lock' = [s \in Stores |-> IF lock[s] = p THEN "free" ELSE lock[s]]
    BY <1>8, Zenon DEF Crash
  <2>1. Booting(p) # "pointer"
    BY Zenon DEF Booting
  <2>2. ASSUME NEW q \in Processes, pc'[q] = "pointer"
        PROVE  lock'[storeOf[q]] = q /\ (author = storeOf[q] => pointer.order <= run'[q])
    <3>1. q # p /\ pc[q] = "pointer" /\ run'[q] = run[q]
      BY <1>0, <2>0, <2>1, <2>2, Zenon DEF Goto
    <3>2. lock[storeOf[q]] = q /\ (author = storeOf[q] => pointer.order <= run[q])
      BY <3>1, Zenon DEF PointerInv
    <3> QED
      BY <1>0, <2>0, <3>1, <3>2, Zenon
  <2> QED
    BY <2>0, <2>2, Zenon DEF PointerInv
<1>9. CASE (\E r \in Runs : OperatorRelease(r) \/ Retain(r)) \/ Clock \/ UNCHANGED cronVars
  <2>1. UNCHANGED <<storeOf, pointer, author, lock, pc, run>>
    BY <1>9, Zenon DEF OperatorRelease, Retain, Clock, cronVars, store, procs
  <2> QED
    BY <2>1, Zenon DEF PointerInv
<1> QED
  BY <1>1, <1>2, <1>3, <1>4, <1>5, <1>6, <1>7, <1>8, <1>9, Zenon DEF CronNext, Boot, CronStep

(* Within one store instance the pointer never goes back to an older run,    *)
(* for any number of writers, instances and crashes: putLatestWorkflowRun    *)
(* reads, compares and writes under latestPointerMu.                         *)
THEOREM PointersNeverRegress == CronSpec => PointerKeptByInstance
<1>1. CronInit => PointerInv
  BY Zenon DEF CronInit, PointerInv, Booting
<1>2. EInv => CronTypeOK
  BY Zenon DEF EInv
<1>3. ASSUME PointerInv, [CronNext]_cronVars, pointer' # pointer, author' = author
      PROVE  pointer'.order >= pointer.order
  <2>1. ASSUME NEW p \in Processes, PutPointer(p) PROVE pointer'.order >= pointer.order
    <3>1. pc[p] = "pointer" /\ author' = storeOf[p]
          /\ pointer' = [order |-> run[p], status |-> draft[p].status, at |-> draft[p].at]
      BY <1>3, <2>1, Zenon DEF PutPointer
    <3>2. pointer.order <= run[p]
      BY <1>3, <3>1, Zenon DEF PointerInv
    <3>3. pointer'.order = run[p]
      BY <3>1, Zenon
    <3> QED
      BY <3>2, <3>3
  <2>2. ASSUME NEW p \in Processes,
               \/ ReadPointer(p) \/ Dereference(p) \/ Tick(p) \/ StartRun(p) \/ Body(p)
               \/ PutRecord(p) \/ ComparePointer(p) \/ Release(p) \/ Crash(p)
               \/ \E q \in Runs : Resume(p, q)
        PROVE  pointer' = pointer
    BY <2>2, Zenon DEF ReadPointer, Dereference, Tick, StartRun, Body, PutRecord, ComparePointer,
       Release, Crash, Resume, store
  <2>3. (\E q \in Runs : OperatorRelease(q) \/ Retain(q)) \/ Clock \/ UNCHANGED cronVars
        => pointer' = pointer
    BY Zenon DEF OperatorRelease, Retain, Clock, cronVars, store
  <2> QED
    BY <1>3, <2>1, <2>2, <2>3, Zenon DEF CronNext, Boot, CronStep
<1>4. PointerInv /\ [CronNext]_cronVars =>
        [pointer' # pointer /\ author' = author => pointer'.order >= pointer.order]_cronVars
  BY <1>3, Zenon
<1> QED
  BY <1>1, <1>2, <1>4, InitEInv, StepEInv, PointerStep, PTL DEF CronSpec, PointerKeptByInstance

-----------------------------------------------------------------------------
(* The background workers.  StopIsClean is not inductive: that a loop       *)
(* counted by the WaitGroup is one that has begun and not exited, that only *)
(* the first Start begins any, and that a cancellation passes at most the   *)
(* dispatch under way is added.                                             *)

Begun == cancel \/ done

WaitGroup ==
  \A l \in Loops : /\ l \in wait <=> loopAt[l] \notin {"none", "exited"}
                   /\ loopAt[l] # "none" <=> l \in cfg /\ Begun

StopInv ==
  /\ \A s \in Stoppers : stopper[s] \in {"cancelling", "waiting", "stopped"} => done
  /\ (\E s \in Stoppers : stopper[s] = "stopped") => wait = {}

OverrunInv ==
  overrun \in {0, 1} /\ (overrun = 1 => ctxDone /\ loopAt["timer_scanner"] # "dispatch")

WorkersInv == WorkersTypeOK /\ WaitGroup /\ StopInv /\ OverrunInv

Stands == {"none", "select", "body", "check", "dispatch", "exited"}

LEMMA WorkersStart == WorkersInit => WorkersInv
<1> SUFFICES ASSUME WorkersInit PROVE WorkersInv
  OBVIOUS
<1>1. WorkersTypeOK
  BY Zenon DEF WorkersInit, WorkersTypeOK
<1>2. WaitGroup /\ StopInv /\ OverrunInv
  BY DEF WorkersInit, WaitGroup, StopInv, OverrunInv, Begun, Loops
<1> QED
  BY <1>1, <1>2, Zenon DEF WorkersInv

LEMMA Counted == \A n \in Nat : n + 1 \in Nat
  OBVIOUS

(* A loop that has begun and not exited goes on. *)
LEMMA LoopGoesOn ==
  ASSUME WorkersInv, NEW l \in Loops, loopAt[l] \notin {"none", "exited"},
         NEW d \in Stands \ {"none", "exited"}, loopAt' = [loopAt EXCEPT ![l] = d],
         UNCHANGED <<cfg, cancel, done, ctxDone, wait, starter, stopper>>,
         fired' \subseteq Loops, pending' \subseteq pending, due' \subseteq DOMAIN Wakes,
         errors' \in Nat, overrun' \in {0, 1},
         overrun' = 1 => ctxDone /\ loopAt'["timer_scanner"] # "dispatch"
  PROVE  WorkersInv'
<1>0. WorkersTypeOK /\ WaitGroup /\ StopInv
  BY Zenon DEF WorkersInv
<1>1. loopAt \in [Loops -> Stands]
  BY <1>0, Zenon DEF WorkersTypeOK, Stands
<1>2. loopAt' \in [Loops -> Stands] /\ loopAt'[l] = d /\ \A m \in Loops \ {l} : loopAt'[m] = loopAt[m]
  BY <1>1, Zenon
<1>3. WorkersTypeOK'
  <2>1. overrun' \in Nat
    OBVIOUS
  <2> QED
    BY <1>0, <1>2, <2>1, Zenon DEF WorkersTypeOK, Stands
<1>4. WaitGroup'
  BY <1>0, <1>2 DEF WaitGroup, Begun
<1>5. StopInv' /\ OverrunInv'
  BY <1>0, Zenon DEF StopInv, OverrunInv
<1> QED
  BY <1>3, <1>4, <1>5, Zenon DEF WorkersInv

LEMMA StartKeeps ==
  ASSUME WorkersInv, NEW s \in Starters, Start(s)
  PROVE  WorkersInv'
<1>0. WorkersTypeOK /\ WaitGroup /\ StopInv /\ OverrunInv /\ cfg \subseteq Loops
  BY ConfigsKnown, Zenon DEF WorkersInv, WorkersTypeOK
<1>1. CASE cancel \/ done
  <2>1. starter' = [starter EXCEPT ![s] = "refused"]
        /\ UNCHANGED <<cfg, cancel, done, ctxDone, wait, loopAt, fired, pending, due, errors, overrun, stopper>>
    BY <1>1, Zenon DEF Start
  <2>2. WorkersTypeOK'
    BY <1>0, <2>1, Zenon DEF WorkersTypeOK
  <2> QED
    BY <1>0, <2>1, <2>2, Zenon DEF WorkersInv, WaitGroup, StopInv, OverrunInv, Begun
<1>2. CASE ~(cancel \/ done)
  <2>1. /\ starter' = [starter EXCEPT ![s] = "started"] /\ cancel' = TRUE /\ wait' = cfg /\ fired' = cfg
        /\ loopAt' = [l \in Loops |-> IF l \in cfg THEN "select" ELSE "none"]
        /\ UNCHANGED <<cfg, done, ctxDone, pending, due, errors, overrun, stopper>>
    BY <1>2, Zenon DEF Start
  <2>2. WorkersTypeOK'
    BY <1>0, <2>1, Zenon DEF WorkersTypeOK
  <2>3. WaitGroup'
    BY <2>1, Zenon DEF WaitGroup, Begun
  <2>4. StopInv'
    BY <1>0, <1>2, <2>1, Zenon DEF StopInv
  <2>5. OverrunInv'
    BY <1>0, <2>1, Zenon DEF OverrunInv, Loops
  <2> QED
    BY <2>2, <2>3, <2>4, <2>5, Zenon DEF WorkersInv
<1> QED
  BY <1>1, <1>2, Zenon

LEMMA CancelKeeps ==
  ASSUME WorkersInv, CancelParent
  PROVE  WorkersInv'
<1>1. ctxDone' = TRUE
      /\ UNCHANGED <<cfg, cancel, done, wait, loopAt, fired, pending, due, errors, overrun, starter, stopper>>
  BY Zenon DEF CancelParent, startStop
<1> QED
  BY <1>1, Zenon DEF WorkersInv, WorkersTypeOK, WaitGroup, StopInv, OverrunInv, Begun

LEMMA StopKeeps ==
  ASSUME WorkersInv, NEW s \in Stoppers, StopSignals(s) \/ StopCancels(s) \/ StopWaits(s)
  PROVE  WorkersInv'
<1>0. WorkersTypeOK /\ WaitGroup /\ StopInv /\ OverrunInv
  BY Zenon DEF WorkersInv
<1>1. UNCHANGED <<cfg, wait, loopAt, fired, pending, due, errors, overrun, starter>>
  BY Zenon DEF StopSignals, StopCancels, StopWaits
<1>2. PICK d \in {"cancelling", "waiting", "nothing", "stopped"} :
        /\ stopper' = [stopper EXCEPT ![s] = d]
        /\ d \in {"cancelling", "waiting", "stopped"} => done'
        /\ d = "stopped" => wait = {}
  <2>1. \/ stopper' = [stopper EXCEPT ![s] = "cancelling"] /\ done' = TRUE
        \/ stopper' = [stopper EXCEPT ![s] = "nothing"]
        \/ stopper' = [stopper EXCEPT ![s] = "waiting"] /\ stopper[s] = "cancelling" /\ done' = done
        \/ /\ stopper' = [stopper EXCEPT ![s] = "stopped"] /\ stopper[s] = "waiting" /\ done' = done
           /\ wait = {}
    BY Zenon DEF StopSignals, StopCancels, StopWaits, Stops
  <2>2. stopper[s] \in {"cancelling", "waiting"} => done
    BY <1>0, Zenon DEF StopInv
  <2> QED
    BY <2>1, <2>2
<1>3. /\ cancel' \in BOOLEAN /\ done' \in BOOLEAN /\ ctxDone' \in BOOLEAN
      /\ (Begun' <=> Begun) /\ (done => done') /\ (ctxDone => ctxDone')
  <2>1. cancel \in BOOLEAN /\ done \in BOOLEAN /\ ctxDone \in BOOLEAN
    BY <1>0, Zenon DEF WorkersTypeOK
  <2>2. CASE cancel /\ ~cancel' /\ done' /\ cancel' \in BOOLEAN /\ done' \in BOOLEAN /\ ctxDone' = ctxDone
    BY <2>1, <2>2, Zenon DEF Begun
  <2>3. CASE cancel' = cancel /\ done' = done /\ (ctxDone' = TRUE \/ ctxDone' = ctxDone)
    BY <2>1, <2>3, Zenon DEF Begun
  <2> QED
    BY <2>2, <2>3, Zenon DEF StopSignals, StopCancels, StopWaits
<1>4. /\ stopper' \in [Stoppers -> {"idle", "cancelling", "waiting", "nothing", "stopped"}]
      /\ stopper'[s] = d /\ \A t \in Stoppers \ {s} : stopper'[t] = stopper[t]
  BY <1>0, <1>2, Zenon DEF WorkersTypeOK
<1>5. WorkersTypeOK'
  BY <1>0, <1>1, <1>3, <1>4, Zenon DEF WorkersTypeOK
<1>6. WaitGroup' /\ OverrunInv'
  BY <1>0, <1>1, <1>3, Zenon DEF WaitGroup, OverrunInv
<1>7. StopInv'
  BY <1>0, <1>1, <1>2, <1>3, <1>4, Zenon DEF StopInv
<1> QED
  BY <1>5, <1>6, <1>7, Zenon DEF WorkersInv

LEMMA LoopKeeps ==
  ASSUME WorkersInv, NEW l \in Loops, Iteration(l) \/ Exit(l)
  PROVE  WorkersInv'
<1>0. WorkersTypeOK /\ WaitGroup /\ StopInv /\ OverrunInv
  BY Zenon DEF WorkersInv
<1>1. CASE Elapse(l)
  <2>1. fired' = fired \cup {l}
        /\ UNCHANGED <<cfg, cancel, done, ctxDone, wait, loopAt, pending, due, errors, overrun, starter, stopper>>
    BY <1>1, Zenon DEF Elapse, startStop
  <2>2. WorkersTypeOK'
    BY <1>0, <2>1, Zenon DEF WorkersTypeOK
  <2> QED
    BY <1>0, <2>1, <2>2, Zenon DEF WorkersInv, WaitGroup, StopInv, OverrunInv, Begun
<1>2. CASE Iterate(l)
  <2>1. loopAt[l] = "select" /\ loopAt' = [loopAt EXCEPT ![l] = "body"] /\ fired' = fired \ {l}
        /\ UNCHANGED <<cfg, cancel, done, ctxDone, wait, pending, due, errors, overrun, starter, stopper>>
    BY <1>2, Zenon DEF Iterate, startStop
  <2>2. loopAt'["timer_scanner"] = "dispatch" => loopAt["timer_scanner"] = "dispatch"
    BY <1>0, <2>1, Zenon DEF WorkersTypeOK, Loops
  <2>3. "body" \in Stands \ {"none", "exited"} /\ fired' \subseteq Loops /\ due' \subseteq DOMAIN Wakes
        /\ errors' \in Nat /\ pending' \subseteq pending
    BY <1>0, <2>1, Zenon DEF Stands, WorkersTypeOK
  <2>4. overrun' \in {0, 1} /\ (overrun' = 1 => ctxDone /\ loopAt'["timer_scanner"] # "dispatch")
    BY <1>0, <2>1, <2>2, Zenon DEF OverrunInv
  <2> QED
    BY <2>1, <2>3, <2>4, LoopGoesOn, Zenon
<1>3. ASSUME NEW ok \in BOOLEAN, RunBody(l, ok) PROVE WorkersInv'
  <2>1. loopAt[l] = "body" /\ loopAt' = [loopAt EXCEPT ![l] = "select"]
        /\ UNCHANGED <<cfg, cancel, done, ctxDone, wait, fired, pending, due, overrun, starter, stopper>>
    BY <1>3, Zenon DEF RunBody, Reset, startStop
  <2>2. loopAt'["timer_scanner"] = "dispatch" => loopAt["timer_scanner"] = "dispatch"
    BY <1>0, <2>1, Zenon DEF WorkersTypeOK, Loops
  <2>3. errors' \in Nat
    BY <1>0, <1>3, Counted, Zenon DEF RunBody, Err, WorkersTypeOK
  <2>4. "select" \in Stands \ {"none", "exited"} /\ fired' \subseteq Loops /\ due' \subseteq DOMAIN Wakes
        /\ pending' \subseteq pending
    BY <1>0, <2>1, Zenon DEF Stands, WorkersTypeOK
  <2>5. overrun' \in {0, 1} /\ (overrun' = 1 => ctxDone /\ loopAt'["timer_scanner"] # "dispatch")
    BY <1>0, <2>1, <2>2, Zenon DEF OverrunInv
  <2> QED
    BY <2>1, <2>3, <2>4, <2>5, LoopGoesOn, Zenon
<1>4. CASE Exit(l)
  <2>1. loopAt[l] = "select" /\ loopAt' = [loopAt EXCEPT ![l] = "exited"] /\ wait' = wait \ {l}
        /\ UNCHANGED <<cfg, cancel, done, ctxDone, fired, pending, due, errors, overrun, starter, stopper>>
    BY <1>4, Zenon DEF Exit, startStop
  <2>2. loopAt' \in [Loops -> Stands] /\ loopAt'[l] = "exited" /\ \A m \in Loops \ {l} : loopAt'[m] = loopAt[m]
    BY <1>0, <2>1, Zenon DEF WorkersTypeOK, Stands
  <2>3. WorkersTypeOK'
    BY <1>0, <2>1, <2>2, Zenon DEF WorkersTypeOK, Stands
  <2>4. WaitGroup'
    BY <1>0, <2>1, <2>2, Zenon DEF WaitGroup, Begun
  <2>5. StopInv'
    BY <1>0, <2>1, Zenon DEF StopInv
  <2>6. OverrunInv'
    BY <1>0, <2>1, <2>2, Zenon DEF OverrunInv, Loops
  <2> QED
    BY <2>3, <2>4, <2>5, <2>6, Zenon DEF WorkersInv
<1> QED
  BY <1>1, <1>2, <1>3, <1>4, Zenon DEF Iteration

LEMMA ScanKeeps ==
  ASSUME WorkersInv, Scan
  PROVE  WorkersInv'
<1> DEFINE l == "timer_scanner"
<1>0. WorkersTypeOK /\ OverrunInv /\ l \in Loops /\ loopAt \in [Loops -> Stands]
  BY Zenon DEF WorkersInv, WorkersTypeOK, Stands, Loops
<1>1. UNCHANGED <<cfg, cancel, done, ctxDone, fired, starter, stopper>>
      /\ fired' \subseteq Loops
  BY <1>0, Zenon DEF Scan, DueTimers, CheckContext, Dispatch, startStop, WorkersTypeOK
<1>2. CASE DueTimers
  <2>1. loopAt[l] = "body" /\ loopAt' = [loopAt EXCEPT ![l] = "check"]
        /\ UNCHANGED <<wait, pending, errors, overrun>> /\ due' \subseteq DOMAIN Wakes
    BY <1>2, Zenon DEF DueTimers
  <2>2. loopAt'[l] = "check" /\ "check" \in Stands \ {"none", "exited"} /\ errors' \in Nat
    BY <1>0, <2>1, Zenon DEF Stands, WorkersTypeOK
  <2>3. overrun' \in {0, 1} /\ (overrun' = 1 => ctxDone /\ loopAt'[l] # "dispatch")
    BY <1>0, <2>1, <2>2, Zenon DEF OverrunInv
  <2> QED
    BY <1>0, <1>1, <2>1, <2>2, <2>3, LoopGoesOn, Zenon
<1>3. CASE CheckContext
  <2>0. loopAt[l] = "check" /\ UNCHANGED <<wait, pending, errors, overrun>>
        /\ due' \subseteq DOMAIN Wakes /\ errors' \in Nat
    BY <1>0, <1>3, Zenon DEF CheckContext, Reset, WorkersTypeOK
  <2>1. CASE due = {} \/ ctxDone
    <3>1. loopAt' = [loopAt EXCEPT ![l] = "select"]
      BY <1>3, <2>1, Zenon DEF CheckContext, Reset
    <3>2. loopAt'[l] = "select" /\ "select" \in Stands \ {"none", "exited"}
      BY <1>0, <3>1, Zenon DEF Stands
    <3>3. overrun' \in {0, 1} /\ (overrun' = 1 => ctxDone /\ loopAt'[l] # "dispatch")
      BY <1>0, <2>0, <3>2, Zenon DEF OverrunInv
    <3> QED
      BY <1>0, <1>1, <2>0, <3>1, <3>2, <3>3, LoopGoesOn, Zenon
  <2>2. CASE ~(due = {} \/ ctxDone)
    <3>1. loopAt' = [loopAt EXCEPT ![l] = "dispatch"]
      BY <1>3, <2>2, Zenon DEF CheckContext
    <3>2. "dispatch" \in Stands \ {"none", "exited"}
      BY Zenon DEF Stands
    <3>3. overrun' \in {0, 1} /\ overrun' # 1
      BY <1>0, <2>0, <2>2, Zenon DEF OverrunInv
    <3> QED
      BY <1>0, <1>1, <2>0, <3>1, <3>2, <3>3, LoopGoesOn, Zenon
  <2> QED
    BY <2>1, <2>2, Zenon
<1>4. ASSUME NEW ok \in BOOLEAN, Dispatch(ok) PROVE WorkersInv'
  <2>1. loopAt[l] = "dispatch" /\ loopAt' = [loopAt EXCEPT ![l] = "check"] /\ UNCHANGED wait
        /\ overrun' = IF ctxDone THEN overrun + 1 ELSE overrun
    BY <1>4, Zenon DEF Dispatch
  <2>2. due' \subseteq DOMAIN Wakes /\ pending' \subseteq pending
    BY <1>0, <1>4, Zenon DEF Dispatch, WorkersTypeOK
  <2>3. errors' \in Nat
    BY <1>0, <1>4, Counted, Zenon DEF Dispatch, Err, WorkersTypeOK
  <2>4. loopAt'[l] = "check" /\ "check" \in Stands \ {"none", "exited"}
    BY <1>0, <2>1, Zenon DEF Stands
  <2>5. overrun = 0
    BY <1>0, <2>1, Zenon DEF OverrunInv
  <2>6. overrun' \in {0, 1} /\ (overrun' = 1 => ctxDone /\ loopAt'[l] # "dispatch")
    BY <2>1, <2>4, <2>5
  <2> QED
    BY <1>0, <1>1, <2>1, <2>2, <2>3, <2>4, <2>6, LoopGoesOn, Zenon
<1> QED
  BY <1>2, <1>3, <1>4, Zenon DEF Scan

LEMMA WorkersStep == WorkersInv /\ [WorkersNext]_workersVars => WorkersInv'
<1> SUFFICES ASSUME WorkersInv, [WorkersNext]_workersVars PROVE WorkersInv'
  OBVIOUS
<1>1. CASE UNCHANGED workersVars
  BY <1>1, Zenon
  DEF workersVars, startStop, WorkersInv, WorkersTypeOK, WaitGroup, StopInv, OverrunInv, Begun
<1> QED
  BY <1>1, StartKeeps, CancelKeeps, StopKeeps, LoopKeeps, ScanKeeps, Zenon DEF WorkersNext

(* A Stop that found the workers running returns only when every loop has   *)
(* exited, and at most one dispatch begins after the cancellation, for every *)
(* number of Start and Stop calls, every configuration and any ledger.       *)
THEOREM StopsAreClean == WorkersSpec => []StopIsClean
<1>1. WorkersInv => StopIsClean
  <2> SUFFICES ASSUME WorkersInv PROVE StopIsClean
    OBVIOUS
  <2>1. ASSUME NEW s \in Stoppers, stopper[s] = "stopped", NEW l \in cfg PROVE loopAt[l] = "exited"
    <3>1. done /\ wait = {} /\ l \in Loops
      BY <2>1, ConfigsKnown, Zenon DEF WorkersInv, WorkersTypeOK, StopInv
    <3> QED
      BY <3>1, Zenon DEF WorkersInv, WaitGroup, Begun
  <2>2. WorkersTypeOK /\ overrun <= 1
    BY DEF WorkersInv, OverrunInv
  <2> QED
    BY <2>1, <2>2, Zenon DEF StopIsClean
<1> QED
  BY <1>1, WorkersStart, WorkersStep, PTL DEF WorkersSpec

-----------------------------------------------------------------------------
(* The timers. *)

(* The kinds of object are distinct, and burying any object that exists     *)
(* gives a tombstone.                                                       *)
LEMMA Kinds ==
  /\ Absent # Corrupt
  /\ Absent \notin TimerRecord /\ Corrupt \notin TimerRecord
  /\ Absent \notin TombstoneRecord
  /\ ~IsTombstone(Absent)
  /\ \A r \in TimerRecord : ~IsTombstone(r) /\ Bury(r) \in TombstoneRecord
  /\ \A r \in TombstoneRecord : IsTombstone(r) /\ Bury(r) \in TombstoneRecord
  /\ Bury(Corrupt) \in TombstoneRecord
  BY Zenon DEF Absent, Corrupt, TimerRecord, TombstoneRecord, IsTombstone, Bury

(* What is true of a call in progress, by where it stands.  The ledger      *)
(* object of a timer is never removed, so once a call has seen or written   *)
(* it the point cannot be what readers see.                                 *)
CallInv(p) ==
  /\ op[p].pc \in {"put_ledger", "put_point", "repair_ledger", "repair_point",
                   "scan_parent"} =>
       op[p].rec \in TimerRecord
  /\ op[p].pc \in {"put_ledger", "delete_unseen", "delete_seen", "delete_read_point",
                   "delete_ledger"} =>
       op[p].timer \in Timers
  /\ op[p].pc = "delete_ledger" => op[p].rec \in TombstoneRecord
  /\ op[p].pc \in {"put_point", "repair_ledger", "repair_point", "delete_point",
                   "scan_delete_point", "scan_point", "scan_parent"} =>
       /\ op[p].timer \in Timers
       /\ ledger[op[p].timer] # Absent
  /\ op[p].pc \in {"delete_seen", "delete_read_point"} =>
       (point[op[p].timer] = Absent => ledger[op[p].timer] # Absent)
  /\ op[p].pc = "scan_point" => op[p].rec # Absent
  /\ p \in Scanners => \A t \in todo[p] : ledger[t] # Absent

IInv == TypeOK /\ \A p \in Procs : CallInv(p)

(* The calls, and what a step may count. *)
CallType ==
  [pc : {"idle", "put_ledger", "put_point", "delete_unseen", "delete_seen", "delete_read_point",
         "delete_ledger", "delete_point", "scan", "scan_point", "scan_delete_point", "scan_parent",
         "repair_ledger", "repair_point", "list_ledger", "list_point"},
   timer : Timers \cup {NoTimer}, rec : LedgerValue]

LEMMA BecomeTyped ==
  ASSUME op \in [Procs -> CallType], NEW p, NEW o \in CallType, Become(p, o)
  PROVE  op' \in [Procs -> CallType]
  BY Zenon DEF Become

LEMMA InitIInv == Init => IInv
<1> SUFFICES ASSUME Init PROVE IInv
  OBVIOUS
<1>1. TypeOK
  BY Zenon DEF Init, TypeOK, Idle, LedgerValue, PointValue, TimerRecord
<1>2. ASSUME NEW p \in Procs PROVE CallInv(p)
  BY Zenon DEF Init, CallInv, Idle
<1> QED
  BY <1>1, <1>2, Zenon DEF IInv

(* A call that neither moves nor sees an object change, *)
LEMMA CallKept ==
  ASSUME NEW q \in Procs, CallInv(q), op'[q] = op[q], UNCHANGED <<ledger, point>>,
         q \in Scanners => todo'[q] = todo[q]
  PROVE  CallInv(q)'
  BY Zenon DEF CallInv

(* and a call of a process that only lists. *)
LEMMA ReaderKept ==
  ASSUME NEW q \in Procs, q \notin Scanners,
         op'[q].pc \in {"idle", "list_ledger", "list_point"}
  PROVE  CallInv(q)'
  BY Zenon DEF CallInv

(* Every step preserves the invariant. *)
LEMMA StepIInv == IInv /\ [Next]_vars => IInv'
<1> SUFFICES ASSUME IInv, [Next]_vars PROVE IInv'
  OBVIOUS
<1> USE Kinds DEF IInv, TypeOK, LedgerValue, PointValue
<1>1. ASSUME NEW p \in Procs, NEW t \in Timers, NEW r \in TimerRecord, BeginPut(p, t, r) PROVE IInv'
  <2>1. TypeOK'
    <3>1. At("put_ledger", t, r) \in CallType
      BY Zenon DEF At, CallType
    <3>2. op' \in [Procs -> CallType]
      BY <1>1, <3>1, BecomeTyped, Zenon DEF BeginPut, CallType
    <3> QED
      BY <1>1, <3>2, Counted, Zenon DEF BeginPut, stores, locals, bounds, CallType
  <2>2. ASSUME NEW q \in Procs PROVE CallInv(q)'
    BY <1>1, Zenon DEF CallInv, BeginPut, stores, locals, bounds, Become, At, Idle
  <2> QED
    BY <2>1, <2>2, Zenon DEF Procs
<1>2. ASSUME NEW p \in Procs, PutLedger(p) PROVE IInv'
  <2>1. TypeOK'
    BY <1>2 DEF CallInv, PutLedger, stores, locals, bounds, Become, At, Idle
  <2>2. ASSUME NEW q \in Procs PROVE CallInv(q)'
    BY <1>2 DEF CallInv, PutLedger, stores, locals, bounds, Become, At, Idle
  <2> QED
    BY <2>1, <2>2, Zenon DEF Procs
<1>3. ASSUME NEW p \in Procs, PutPoint(p) PROVE IInv'
  <2>1. TypeOK'
    BY <1>3, Zenon DEF CallInv, PutPoint, stores, locals, bounds, Become, At, Idle
  <2>2. ASSUME NEW q \in Procs PROVE CallInv(q)'
    BY <1>3 DEF CallInv, PutPoint, stores, locals, bounds, Become, At, Idle
  <2> QED
    BY <2>1, <2>2, Zenon DEF Procs
<1>4. ASSUME NEW p \in Procs, NEW t \in Timers, BeginDelete(p, t) PROVE IInv'
  <2>1. TypeOK'
    <3>1. At(IF point[t] = Absent THEN "delete_unseen" ELSE "delete_seen", t, Absent) \in CallType
      BY Zenon DEF At, CallType
    <3>2. op' \in [Procs -> CallType]
      BY <1>4, <3>1, BecomeTyped, Zenon DEF BeginDelete, CallType
    <3> QED
      BY <1>4, <3>2, Counted, Zenon DEF BeginDelete, stores, locals, bounds, CallType
  <2>2. ASSUME NEW q \in Procs PROVE CallInv(q)'
    BY <1>4, Zenon DEF CallInv, BeginDelete, stores, locals, bounds, Become, At, Idle
  <2> QED
    BY <2>1, <2>2, Zenon DEF Procs
<1>5. ASSUME NEW p \in Procs, DeleteReadLedger(p) PROVE IInv'
  <2>1. TypeOK'
    BY <1>5, ZenonT(20) DEF CallInv, DeleteReadLedger, stores, locals, bounds, Become, At, Idle
  <2>2. ASSUME NEW q \in Procs PROVE CallInv(q)'
    BY <1>5, ZenonT(20) DEF CallInv, DeleteReadLedger, stores, locals, bounds, Become, At, Idle
  <2> QED
    BY <2>1, <2>2, Zenon DEF Procs
<1>6. ASSUME NEW p \in Procs, DeleteReadPoint(p) PROVE IInv'
  <2>1. TypeOK'
    BY <1>6, ZenonT(20) DEF CallInv, DeleteReadPoint, stores, locals, bounds, Become, At, Idle
  <2>2. ASSUME NEW q \in Procs PROVE CallInv(q)'
    BY <1>6, ZenonT(20) DEF CallInv, DeleteReadPoint, stores, locals, bounds, Become, At, Idle
  <2> QED
    BY <2>1, <2>2, Zenon DEF Procs
<1>7. ASSUME NEW p \in Procs, PutTombstone(p) PROVE IInv'
  <2>1. TypeOK'
    BY <1>7 DEF CallInv, PutTombstone, stores, locals, bounds, Become, At, Idle
  <2>2. ASSUME NEW q \in Procs PROVE CallInv(q)'
    BY <1>7 DEF CallInv, PutTombstone, stores, locals, bounds, Become, At, Idle
  <2> QED
    BY <2>1, <2>2, Zenon DEF Procs
<1>8. ASSUME NEW p \in Procs, DeletePoint(p) PROVE IInv'
  <2>1. TypeOK'
    BY <1>8, Zenon DEF CallInv, DeletePoint, stores, locals, bounds, Become, At, Idle
  <2>2. ASSUME NEW q \in Procs PROVE CallInv(q)'
    BY <1>8, ZenonT(20) DEF CallInv, DeletePoint, stores, locals, bounds, Become, At, Idle
  <2> QED
    BY <2>1, <2>2, Zenon DEF Procs
<1>9. ASSUME NEW p \in Procs, BeginScan(p) PROVE IInv'
  <2>1. TypeOK'
    BY <1>9, Zenon DEF CallInv, BeginScan, stores, locals, bounds, Become, At, Idle, Listed
  <2>2. ASSUME NEW q \in Procs PROVE CallInv(q)'
    BY <1>9, ZenonT(20) DEF CallInv, BeginScan, stores, locals, bounds, Become, At, Idle, Listed
  <2> QED
    BY <2>1, <2>2, Zenon DEF Procs
<1>10. ASSUME NEW p \in Scanners, NEW t \in Timers, ScanEntry(p, t) PROVE IInv'
  <2>1. TypeOK'
    BY <1>10, ZenonT(20) DEF CallInv, ScanEntry, stores, locals, bounds, Become, At, Idle, Procs
  <2>2. ASSUME NEW q \in Procs PROVE CallInv(q)'
    BY <1>10, ZenonT(20) DEF CallInv, ScanEntry, stores, locals, bounds, Become, At, Idle, Procs
  <2> QED
    BY <2>1, <2>2, Zenon DEF Procs
<1>11. ASSUME NEW p \in Procs, ScanPoint(p) PROVE IInv'
  <2>1. TypeOK'
    BY <1>11, ZenonT(20) DEF CallInv, ScanPoint, stores, locals, bounds, Become, At, Idle, AfterPointRead
  <2>2. ASSUME NEW q \in Procs PROVE CallInv(q)'
    BY <1>11, ZenonT(20) DEF CallInv, ScanPoint, stores, locals, bounds, Become, At, Idle, AfterPointRead
  <2> QED
    BY <2>1, <2>2, Zenon DEF Procs
<1>12. ASSUME NEW p \in Procs, ScanParent(p) PROVE IInv'
  <2>1. TypeOK'
    <3>1. At("scan", NoTimer, Absent) \in CallType
      BY Zenon DEF At, CallType
    <3>2. op' \in [Procs -> CallType]
      BY <1>12, <3>1, BecomeTyped, Zenon DEF ScanParent, CallType
    <3>3. <<op[p].timer, op[p].rec>> \in Timers \X ({Absent} \cup TimerRecord)
      BY <1>12 DEF ScanParent, CallInv
    <3>4. result' \in [Procs -> SUBSET (Timers \X ({Absent} \cup TimerRecord))]
      BY <1>12, <3>3, Zenon DEF ScanParent
    <3> QED
      BY <1>12, <3>2, <3>4, Zenon DEF ScanParent, stores, bounds, CallType
  <2>2. ASSUME NEW q \in Procs PROVE CallInv(q)'
    BY <1>12, Zenon DEF CallInv, ScanParent, stores, locals, bounds, Become, At, Idle
  <2> QED
    BY <2>1, <2>2, Zenon DEF Procs
<1>13. ASSUME NEW p \in Procs, EndScan(p) PROVE IInv'
  <2>1. TypeOK'
    BY <1>13, Zenon DEF CallInv, EndScan, stores, locals, bounds, Become, At, Idle
  <2>2. ASSUME NEW q \in Procs PROVE CallInv(q)'
    BY <1>13, ZenonT(20) DEF CallInv, EndScan, stores, locals, bounds, Become, At, Idle
  <2> QED
    BY <2>1, <2>2, Zenon DEF Procs
<1>14. ASSUME NEW p \in Procs, BeginList(p) PROVE IInv'
  <2>1. TypeOK'
    <3>1. At("list_ledger", NoTimer, Absent) \in CallType
      BY Zenon DEF At, CallType
    <3>2. op' \in [Procs -> CallType]
      BY <1>14, <3>1, BecomeTyped, Zenon DEF BeginList, CallType
    <3>3. todo' \in [Procs -> SUBSET Timers]
      BY <1>14, Zenon DEF BeginList, Listed
    <3> QED
      BY <1>14, <3>2, <3>3, Counted, Zenon DEF BeginList, stores, bounds, CallType
  <2>2. ASSUME NEW q \in Procs PROVE CallInv(q)'
    BY <1>14, RolesDisjoint, ZenonT(20)
    DEF CallInv, BeginList, stores, locals, bounds, Become, At, Idle, Listed
  <2> QED
    BY <2>1, <2>2, Zenon DEF Procs
<1>15. ASSUME NEW p \in Readers, NEW t \in Timers, ListLedgerEntry(p, t) PROVE IInv'
  <2>1. TypeOK'
    <3>1. todo' \in [Procs -> SUBSET Timers]
      BY <1>15, Zenon DEF ListLedgerEntry
    <3>2. Overlay(ledger[t], Absent) \in {Absent} \cup TimerRecord
      BY <1>15, Zenon DEF Overlay
    <3>3. <<t, Overlay(ledger[t], Absent)>> \in Timers \X ({Absent} \cup TimerRecord)
      BY <1>15, <3>2
    <3>4. result' \in [Procs -> SUBSET (Timers \X ({Absent} \cup TimerRecord))]
      BY <1>15, <3>3, Zenon DEF ListLedgerEntry
    <3> QED
      BY <1>15, <3>1, <3>4, Zenon DEF ListLedgerEntry, stores, bounds
  <2>2. ASSUME NEW q \in Procs PROVE CallInv(q)'
    BY <1>15, RolesDisjoint, Zenon
    DEF CallInv, ListLedgerEntry, stores, locals, bounds, Become, At, Idle, Overlay, Procs
  <2> QED
    BY <2>1, <2>2, Zenon DEF Procs
<1>16. ASSUME NEW p \in Readers, ListPoints(p) PROVE IInv'
  <2>1. TypeOK'
    BY <1>16, RolesDisjoint, Zenon DEF CallInv, ListPoints, stores, locals, bounds, Become, At,
       Idle, Listed, Procs
  <2>2. ASSUME NEW q \in Procs PROVE CallInv(q)'
    <3>1. CASE q = p
      BY <1>16, <3>1, RolesDisjoint, ReaderKept, Zenon DEF ListPoints, Become, At, Procs
    <3>2. CASE q # p
      <4>1. op'[q] = op[q] /\ todo'[q] = todo[q] /\ UNCHANGED <<ledger, point>>
        BY <1>16, <3>2 DEF ListPoints, Become, stores
      <4> QED
        BY <4>1, CallKept, Zenon
    <3> QED
      BY <3>1, <3>2, Zenon
  <2> QED
    BY <2>1, <2>2, Zenon DEF Procs
<1>17. ASSUME NEW p \in Readers, NEW t \in Timers, ListPoint(p, t) PROVE IInv'
  <2>1. TypeOK'
    <3>1. op' \in [Procs -> CallType]
      <4>1. Idle \in CallType
        BY Zenon DEF Idle, CallType
      <4>2. op \in [Procs -> CallType]
        BY Zenon DEF CallType
      <4> QED
        BY <1>17, <4>1, <4>2, BecomeTyped, Zenon DEF ListPoint
    <3>2. todo' \in [Procs -> SUBSET Timers]
      <4>1. todo' = [todo EXCEPT ![p] = todo[p] \ {t}] \/ todo' = [todo EXCEPT ![p] = {}]
        BY <1>17, Zenon DEF ListPoint
      <4>2. CASE todo' = [todo EXCEPT ![p] = todo[p] \ {t}]
        BY <4>2, Zenon
      <4>3. CASE todo' = [todo EXCEPT ![p] = {}]
        BY <4>3, Zenon
      <4> QED
        BY <4>1, <4>2, <4>3, Zenon
    <3>3. result' \in [Procs -> SUBSET (Timers \X ({Absent} \cup TimerRecord))]
      <4>1. CASE result' = [result EXCEPT ![p] = @ \cup {<<t, point[t]>>}] /\ point[t] \notin {Absent, Corrupt}
        <5>1. point[t] \in TimerRecord
          BY <1>17, <4>1, Zenon
        <5>2. <<t, point[t]>> \in Timers \X ({Absent} \cup TimerRecord)
          BY <1>17, <5>1
        <5> QED
          BY <4>1, <5>2, Zenon
      <4>2. CASE result' = result \/ result' = [result EXCEPT ![p] = {}]
        BY <4>2, Zenon
      <4> QED
        BY <1>17, <4>1, <4>2, Zenon DEF ListPoint
    <3> QED
      BY <1>17, <3>1, <3>2, <3>3, Zenon DEF ListPoint, stores, bounds, CallType
  <2>2. ASSUME NEW q \in Procs PROVE CallInv(q)'
    <3>1. CASE q = p
      <4>1. op'[q].pc \in {"idle", "list_point"}
        <5>1. p \in DOMAIN op /\ op[p].pc = "list_point"
          BY <1>17, Zenon DEF ListPoint, Procs
        <5>2. CASE op' = op
          BY <3>1, <5>1, <5>2, Zenon
        <5>3. CASE op' = [op EXCEPT ![p] = Idle]
          BY <3>1, <5>1, <5>3, Zenon DEF Idle
        <5> QED
          BY <1>17, <5>2, <5>3, Zenon DEF ListPoint, Become
      <4>2. q \notin Scanners
        BY <1>17, <3>1, RolesDisjoint, Zenon
      <4> QED
        BY <4>1, <4>2, ReaderKept, Zenon
    <3>2. CASE q # p
      <4>1. op'[q] = op[q] /\ todo'[q] = todo[q] /\ UNCHANGED <<ledger, point>>
        BY <1>17, <3>2, Zenon DEF ListPoint, Become, stores
      <4> QED
        BY <4>1, CallKept, Zenon
    <3> QED
      BY <3>1, <3>2, Zenon
  <2> QED
    BY <2>1, <2>2, Zenon DEF Procs
<1>18. ASSUME NEW p \in Procs, EndList(p) PROVE IInv'
  <2>1. TypeOK'
    BY <1>18, Zenon DEF CallInv, EndList, stores, locals, bounds, Become, At, Idle
  <2>2. ASSUME NEW q \in Procs PROVE CallInv(q)'
    BY <1>18, ZenonT(20) DEF CallInv, EndList, stores, locals, bounds, Become, At, Idle
  <2> QED
    BY <2>1, <2>2, Zenon DEF Procs
<1>19. ASSUME NEW p \in Procs, Abort(p) PROVE IInv'
  <2>1. TypeOK'
    <3>1. Idle \in CallType
      BY Zenon DEF Idle, CallType
    <3>2. op' \in [Procs -> CallType]
      BY <1>19, <3>1, BecomeTyped, Zenon DEF Abort, CallType
    <3>3. 0 \in Nat
      OBVIOUS
    <3>4. /\ todo' \in [Procs -> SUBSET Timers] /\ at' \in [Procs -> Nat]
          /\ result' \in [Procs -> SUBSET (Timers \X ({Absent} \cup TimerRecord))]
      BY <1>19, <3>3, Zenon DEF Abort
    <3> QED
      BY <1>19, <3>2, <3>4, Counted, Zenon DEF Abort, stores, CallType
  <2>2. ASSUME NEW q \in Procs PROVE CallInv(q)'
    BY <1>19, Zenon DEF CallInv, Abort, stores, locals, bounds, Become, At, Idle
  <2> QED
    BY <2>1, <2>2, Zenon DEF Procs
<1>20. ASSUME NEW t \in Timers, DamagePoint(t) PROVE IInv'
  <2>1. TypeOK'
    <3>1. point' \in [Timers -> PointValue]
      BY <1>20, Zenon DEF DamagePoint
    <3> QED
      BY <1>20, <3>1, Counted, Zenon DEF DamagePoint, locals
  <2>2. ASSUME NEW q \in Procs PROVE CallInv(q)'
    BY <1>20, Zenon DEF CallInv, DamagePoint, stores, locals, bounds, Become, At, Idle
  <2> QED
    BY <2>1, <2>2, Zenon DEF Procs
<1>21. ASSUME EndWorkflow PROVE IInv'
  <2>1. TypeOK'
    BY <1>21, Zenon DEF CallInv, EndWorkflow, stores, locals, bounds, Become, At, Idle
  <2>2. ASSUME NEW q \in Procs PROVE CallInv(q)'
    BY <1>21, Zenon DEF CallInv, EndWorkflow, stores, locals, bounds, Become, At, Idle
  <2> QED
    BY <2>1, <2>2, Zenon DEF Procs
<1>22. ASSUME ClockTick PROVE IInv'
  <2>1. TypeOK'
    BY <1>22, Counted, Zenon DEF ClockTick, locals, bounds
  <2>2. ASSUME NEW q \in Procs PROVE CallInv(q)'
    BY <1>22, Zenon DEF CallInv, ClockTick, stores, locals, bounds, Become, At, Idle
  <2> QED
    BY <2>1, <2>2, Zenon DEF Procs
<1>23. CASE UNCHANGED vars
  BY <1>23, Zenon DEF vars, stores, locals, bounds, CallInv, Procs
<1> QED
  BY <1>1, <1>2, <1>3, <1>4, <1>5, <1>6, <1>7, <1>8, <1>9, <1>10, <1>11, <1>12, <1>13, <1>14, <1>15,
     <1>16, <1>17, <1>18, <1>19, <1>20, <1>21, <1>22, <1>23, ZenonT(20)
  DEF Next, Step, WriterStep, ScannerStep, ReaderStep, Procs

-----------------------------------------------------------------------------
(* The refinement.  regBar and callBar are what Register substitutes.       *)

regBar == [t \in Timers |-> GetTimer(t)]

callBar == [p \in Procs |-> CallOf(op[p])]

LEMMA InitRefines == Init => Register!Init
<1> SUFFICES ASSUME Init PROVE Register!Init
  OBVIOUS
<1>1. ASSUME NEW t \in Timers PROVE GetTimer(t) \in {Corrupt} \cup TimerRecord \cup {Absent}
  BY Zenon DEF Init, GetTimer, Overlay, TimerRecord
<1>2. ASSUME NEW p \in Procs PROVE CallOf(op[p]) = Register!NoCall
  BY Zenon DEF Init, Idle, CallOf, Register!NoCall
<1> QED
  BY <1>1, <1>2, Zenon DEF Register!Init

(* An abstract step of one process leaves the calls of the others alone. *)
LEMMA OneCall ==
  ASSUME NEW p \in Procs, NEW o, TypeOK, Become(p, o)
  PROVE  callBar' = [callBar EXCEPT ![p] = CallOf(o)]
  BY Zenon DEF callBar, Become, TypeOK

LEMMA SameCall ==
  ASSUME NEW p \in Procs, NEW o, TypeOK, Become(p, o), CallOf(o) = CallOf(op[p])
  PROVE  callBar' = callBar
  BY OneCall, ZenonT(20) DEF callBar

LEMMA SameReg ==
  ASSUME IInv, UNCHANGED ledger,
         \A t \in Timers : point'[t] # point[t] => ledger[t] # Absent
  PROVE  regBar' = regBar
  BY Zenon DEF regBar, GetTimer, Overlay

(* The ledger write is the effect of a call. *)
LEMMA LedgerWriteIsEffect ==
  ASSUME IInv, NEW p \in Procs, NEW t \in Timers, NEW r \in TimerRecord \cup TombstoneRecord,
         ledger' = [ledger EXCEPT ![t] = r], UNCHANGED point
  PROVE  regBar' = [regBar EXCEPT ![t] = Overlay(r, Absent)]
  BY Kinds, Zenon DEF regBar, GetTimer, Overlay, IInv, TypeOK


(* The three abstract steps and the stutter, in terms of regBar and callBar. *)
LEMMA AbstractOpen ==
  ASSUME NEW p \in Procs, NEW t \in Timers, NEW v \in {Absent} \cup TimerRecord,
         callBar[p] = Register!NoCall, regBar' = regBar,
         callBar' = [callBar EXCEPT ![p] = Register!OpenCall(t, v)]
  PROVE  Register!Next
  BY Zenon DEF Register!Next, Register!Open, regBar, callBar

LEMMA AbstractEffect ==
  ASSUME NEW p \in Procs, NEW t \in Timers, NEW v \in {Absent} \cup TimerRecord,
         callBar[p] = Register!OpenCall(t, v), regBar' = [regBar EXCEPT ![t] = v],
         callBar' = [callBar EXCEPT ![p] = Register!Effective]
  PROVE  Register!Next
<1>1. /\ callBar[p].st = "open"
      /\ regBar' = [regBar EXCEPT ![callBar[p].timer] = callBar[p].val]
  BY DEF Register!OpenCall
<1> QED
  BY <1>1, Zenon DEF Register!Next, Register!Effect, regBar, callBar

LEMMA AbstractEnd ==
  ASSUME NEW p \in Procs, regBar' = regBar,
         callBar' = [callBar EXCEPT ![p] = Register!NoCall]
  PROVE  [Register!Next]_(Register!registerVars)
<1>1. CASE callBar[p] = Register!NoCall
  <2>1. callBar' = callBar
    BY <1>1, Zenon DEF callBar
  <2> QED
    BY <2>1, Zenon DEF Register!registerVars, regBar, callBar
<1>2. CASE callBar[p] # Register!NoCall
  BY <1>2, Zenon DEF Register!Next, Register!End, regBar, callBar
<1> QED
  BY <1>1, <1>2, Zenon

LEMMA AbstractStutter ==
  ASSUME regBar' = regBar, callBar' = callBar
  PROVE  [Register!Next]_(Register!registerVars)
  BY Zenon DEF Register!registerVars, regBar, callBar

(* The abstract call of a process, by where it stands. *)
LEMMA CallCases ==
  ASSUME NEW t, NEW r
  PROVE  /\ CallOf(Idle) = Register!NoCall
         /\ \A here \in {"put_ledger", "repair_ledger"} :
              CallOf(At(here, t, r)) = Register!OpenCall(t, r)
         /\ \A here \in {"delete_unseen", "delete_seen", "delete_read_point", "delete_ledger"} :
              CallOf(At(here, t, r)) = Register!OpenCall(t, Absent)
         /\ CallOf(At("delete_point", t, Absent)) = Register!NoCall
         /\ \A here \in {"scan", "scan_point", "scan_delete_point", "scan_parent",
                         "list_ledger", "list_point"} :
              CallOf(At(here, t, r)) = Register!NoCall
<1>1. CallOf(Idle) = Register!NoCall
  BY Zenon DEF CallOf, Idle, Register!NoCall
<1>2. ASSUME NEW here PROVE At(here, t, r).pc = here /\ At(here, t, r).timer = t /\ At(here, t, r).rec = r
  BY Zenon DEF At
<1>3. At("delete_point", t, Absent).pc = "delete_point" /\ At("delete_point", t, Absent).rec = Absent
  BY Zenon DEF At
<1> QED
  BY <1>1, <1>2, <1>3, ZenonT(20) DEF CallOf, Register!NoCall, Register!OpenCall

(* A step of a scan or of a listing from one place to another. *)
LEMMA QuietStep ==
  ASSUME NEW p \in Procs, NEW t, NEW r, TypeOK, CallOf(op[p]) = Register!NoCall,
         NEW here \in {"scan", "scan_point", "scan_delete_point", "scan_parent",
                       "list_ledger", "list_point"},
         Become(p, At(here, t, r))
  PROVE  callBar' = callBar
<1>1. CallOf(At(here, t, r)) = Register!NoCall
  BY CallCases
<1> QED
  BY <1>1, SameCall, Zenon

(* Every step is a step of the registers or changes nothing they show. *)
LEMMA StepRefines ==
  IInv /\ [Next]_vars => [Register!Next]_(Register!registerVars)
<1> SUFFICES ASSUME IInv, [Next]_vars PROVE [Register!Next]_(Register!registerVars)
  OBVIOUS
<1>0. TypeOK /\ \A p \in Procs : CallInv(p) /\ callBar[p] = CallOf(op[p])
  BY Zenon DEF IInv, callBar
<1> USE Kinds, <1>0
<1>1. ASSUME NEW p \in Procs, NEW t \in Timers, NEW r \in TimerRecord, BeginPut(p, t, r)
      PROVE  [Register!Next]_(Register!registerVars)
  <2>1. callBar[p] = Register!NoCall /\ CallOf(At("put_ledger", t, r)) = Register!OpenCall(t, r)
    BY <1>1, CallCases, Zenon DEF BeginPut
  <2>2. regBar' = regBar
    BY <1>1, SameReg, Zenon DEF BeginPut, stores
  <2>3. callBar' = [callBar EXCEPT ![p] = Register!OpenCall(t, r)]
    BY <1>1, <2>1, OneCall, Zenon DEF BeginPut
  <2> QED
    BY <2>1, <2>2, <2>3, AbstractOpen, Zenon
<1>2. ASSUME NEW p \in Procs, PutLedger(p)
      PROVE  [Register!Next]_(Register!registerVars)
  <2>1. /\ op[p].rec \in TimerRecord /\ op[p].timer \in Timers
        /\ callBar[p] = Register!OpenCall(op[p].timer, op[p].rec)
        /\ Overlay(op[p].rec, Absent) = op[p].rec
    BY <1>2, Zenon DEF PutLedger, CallInv, CallOf, Overlay, Register!OpenCall
  <2>2. regBar' = [regBar EXCEPT ![op[p].timer] = op[p].rec]
    BY <1>2, <2>1, LedgerWriteIsEffect, ZenonT(20) DEF PutLedger
  <2>3. PICK o : Become(p, o) /\ o.pc \in {"put_point", "repair_point"}
    BY <1>2 DEF PutLedger, TypeOK
  <2>4. CallOf(o) = Register!Effective
    BY <2>3, Zenon DEF CallOf, Register!Effective
  <2> QED
    BY <2>1, <2>2, <2>3, <2>4, OneCall, AbstractEffect, Zenon
<1>3. ASSUME NEW p \in Procs, PutPoint(p)
      PROVE  [Register!Next]_(Register!registerVars)
  <2>1. regBar' = regBar
    BY <1>3, SameReg, Zenon DEF PutPoint, CallInv, TypeOK
  <2>2. callBar' = [callBar EXCEPT ![p] = Register!NoCall]
    BY <1>3, OneCall DEF PutPoint, CallOf, Idle, At, Register!NoCall
  <2> QED
    BY <2>1, <2>2, AbstractEnd, Zenon
<1>4. ASSUME NEW p \in Procs, NEW t \in Timers, BeginDelete(p, t)
      PROVE  [Register!Next]_(Register!registerVars)
  <2>1. callBar[p] = Register!NoCall
    BY <1>4, CallCases, Zenon DEF BeginDelete
  <2>2. regBar' = regBar
    BY <1>4, SameReg, Zenon DEF BeginDelete, stores
  <2>3. callBar' = [callBar EXCEPT ![p] = Register!OpenCall(t, Absent)]
    <3>1. PICK here \in {"delete_unseen", "delete_seen"} : Become(p, At(here, t, Absent))
      BY <1>4, Zenon DEF BeginDelete
    <3>2. CallOf(At(here, t, Absent)) = Register!OpenCall(t, Absent)
      BY CallCases, Zenon
    <3> QED
      BY <3>1, <3>2, OneCall, Zenon
  <2> QED
    BY <2>1, <2>2, <2>3, AbstractOpen, Zenon
<1>5. ASSUME NEW p \in Procs, DeleteReadLedger(p)
      PROVE  [Register!Next]_(Register!registerVars)
  <2>1. regBar' = regBar
    BY <1>5, SameReg, Zenon DEF DeleteReadLedger, stores
  <2>2. PICK o : /\ Become(p, o)
                 /\ CallOf(o) = CallOf(op[p]) \/ CallOf(o) = Register!NoCall
    <3>1. CallOf(op[p]) = Register!OpenCall(op[p].timer, Absent)
      BY <1>5, Zenon DEF DeleteReadLedger, CallOf, Register!OpenCall
    <3> QED
      <4>1. \E o \in {Idle, At("delete_ledger", op[p].timer, Bury(ledger[op[p].timer])),
                      At("delete_read_point", op[p].timer, Absent)} : Become(p, o)
        BY <1>5, Zenon DEF DeleteReadLedger
      <4>2. /\ CallOf(Idle) = Register!NoCall
            /\ \A r : /\ CallOf(At("delete_ledger", op[p].timer, r)) = CallOf(op[p])
                      /\ CallOf(At("delete_read_point", op[p].timer, r)) = CallOf(op[p])
        BY <3>1, CallCases, Zenon
      <4> QED
        BY <4>1, <4>2, Zenon
  <2> QED
    BY <2>1, <2>2, OneCall, SameCall, AbstractEnd, AbstractStutter, Zenon
<1>6. ASSUME NEW p \in Procs, DeleteReadPoint(p)
      PROVE  [Register!Next]_(Register!registerVars)
  <2>1. regBar' = regBar
    BY <1>6, SameReg, Zenon DEF DeleteReadPoint, stores
  <2>2. PICK o : /\ Become(p, o)
                 /\ CallOf(o) = CallOf(op[p]) \/ CallOf(o) = Register!NoCall
    <3>1. CallOf(op[p]) = Register!OpenCall(op[p].timer, Absent)
      BY <1>6, Zenon DEF DeleteReadPoint, CallOf, Register!OpenCall
    <3> QED
      <4>1. \E o \in {At("delete_point", op[p].timer, Absent),
                      At("delete_ledger", op[p].timer, Bury(point[op[p].timer]))} : Become(p, o)
        BY <1>6, Zenon DEF DeleteReadPoint
      <4>2. /\ CallOf(At("delete_point", op[p].timer, Absent)) = Register!NoCall
            /\ \A r : CallOf(At("delete_ledger", op[p].timer, r)) = CallOf(op[p])
        BY <3>1, CallCases, Zenon
      <4> QED
        BY <4>1, <4>2, Zenon
  <2> QED
    BY <2>1, <2>2, OneCall, SameCall, AbstractEnd, AbstractStutter, Zenon
<1>7. ASSUME NEW p \in Procs, PutTombstone(p)
      PROVE  [Register!Next]_(Register!registerVars)
  <2>1. /\ op[p].rec \in TombstoneRecord /\ op[p].timer \in Timers
        /\ callBar[p] = Register!OpenCall(op[p].timer, Absent)
        /\ Overlay(op[p].rec, Absent) = Absent
    BY <1>7, Zenon DEF PutTombstone, CallInv, CallOf, Overlay, Register!OpenCall
  <2>2. regBar' = [regBar EXCEPT ![op[p].timer] = Absent]
    BY <1>7, <2>1, LedgerWriteIsEffect, Zenon DEF PutTombstone
  <2>3. PICK o : Become(p, o) /\ o.pc = "delete_point" /\ o.rec = op[p].rec
    BY <1>7 DEF PutTombstone, TypeOK
  <2>4. CallOf(o) = Register!Effective
    BY <2>1, <2>3 DEF CallOf, Register!Effective
  <2> QED
    BY <2>1, <2>2, <2>3, <2>4, OneCall, AbstractEffect, Zenon
<1>8. ASSUME NEW p \in Procs, DeletePoint(p)
      PROVE  [Register!Next]_(Register!registerVars)
  <2>1. regBar' = regBar
    BY <1>8, SameReg, ZenonT(20) DEF DeletePoint, CallInv, TypeOK
  <2>2. callBar' = [callBar EXCEPT ![p] = Register!NoCall]
    BY <1>8, OneCall DEF DeletePoint, CallOf, Idle, At, Register!NoCall
  <2> QED
    BY <2>1, <2>2, AbstractEnd, Zenon
<1>9. ASSUME NEW p \in Procs, BeginScan(p)
      PROVE  [Register!Next]_(Register!registerVars)
  <2>1. regBar' = regBar
    BY <1>9, SameReg, Zenon DEF BeginScan, stores
  <2>2. callBar' = callBar
    <3>1. CallOf(op[p]) = Register!NoCall
      BY <1>9, CallCases, Zenon DEF BeginScan, CallOf, Register!NoCall
    <3> QED
      BY <1>9, <3>1, QuietStep, Zenon DEF BeginScan
  <2> QED
    BY <2>1, <2>2, AbstractStutter, Zenon
<1>10. ASSUME NEW p \in Procs, NEW t \in Timers, ScanEntry(p, t)
      PROVE  [Register!Next]_(Register!registerVars)
  <2>1. regBar' = regBar
    BY <1>10, SameReg, Zenon DEF ScanEntry, stores
  <2>2. callBar' = callBar
    <3>1. CallOf(op[p]) = Register!NoCall
      BY <1>10, CallCases, Zenon DEF ScanEntry, CallOf, Register!NoCall
    <3> QED
      BY <1>10, <3>1, QuietStep, Zenon DEF ScanEntry
  <2> QED
    BY <2>1, <2>2, AbstractStutter, Zenon
<1>11. ASSUME NEW p \in Procs, ScanPoint(p)
      PROVE  [Register!Next]_(Register!registerVars)
  <2>1. regBar' = regBar
    BY <1>11, SameReg, Zenon DEF ScanPoint, stores
  <2> DEFINE o == AfterPointRead(op[p].rec, point[op[p].timer], op[p].timer, at[p])
  <2>2. CASE o.pc = "repair_ledger"
    <3>1. /\ op[p].timer \in Timers /\ op[p].rec \in TimerRecord
          /\ o = At("repair_ledger", op[p].timer, op[p].rec)
      BY <1>11, <2>2, Zenon DEF ScanPoint, AfterPointRead, At, CallInv, TypeOK, LedgerValue
    <3>2. /\ callBar[p] = Register!NoCall
          /\ CallOf(o) = Register!OpenCall(op[p].timer, op[p].rec)
      <4>1. callBar[p] = Register!NoCall
        BY <1>11, Zenon DEF ScanPoint, CallOf, Register!NoCall
      <4>2. CallOf(At("repair_ledger", op[p].timer, op[p].rec)) =
              Register!OpenCall(op[p].timer, op[p].rec)
        <5> DEFINE t == op[p].timer
        <5> DEFINE r == op[p].rec
        <5> HIDE DEF t, r
        <5>1. CallOf(At("repair_ledger", t, r)) = Register!OpenCall(t, r)
          BY CallCases, Zenon
        <5> QED
          BY <5>1, Zenon DEF t, r
      <4> HIDE DEF o
      <4> QED
        BY <3>1, <4>1, <4>2, Zenon
    <3>3. callBar' = [callBar EXCEPT ![p] = CallOf(o)]
      BY <1>11, OneCall, Zenon DEF ScanPoint
    <3> HIDE DEF o
    <3> QED
      BY <2>1, <3>1, <3>2, <3>3, AbstractOpen, Zenon
  <2>3. CASE o.pc # "repair_ledger"
    <3>1. CallOf(o) = CallOf(op[p])
      <4>1. CallOf(op[p]) = Register!NoCall
        BY <1>11, Zenon DEF ScanPoint, CallOf, Register!NoCall
      <4>2. At("repair_ledger", op[p].timer, op[p].rec).pc = "repair_ledger"
        BY Zenon DEF At
      <4>3. o \in {At("scan", NoTimer, Absent), At("scan_delete_point", op[p].timer, Absent),
                   At("scan_parent", op[p].timer, op[p].rec)}
        BY <2>3, <4>2, Zenon DEF AfterPointRead
      <4>4. \A t, r : /\ CallOf(At("scan", t, r)) = Register!NoCall
                      /\ CallOf(At("scan_delete_point", t, r)) = Register!NoCall
                      /\ CallOf(At("scan_parent", t, r)) = Register!NoCall
        BY CallCases, ZenonT(20)
      <4>5. CallOf(o) = Register!NoCall
        <5> HIDE DEF o
        <5>1. CASE o = At("scan", NoTimer, Absent)
          BY <4>4, <5>1, Zenon
        <5>2. CASE o = At("scan_delete_point", op[p].timer, Absent)
          BY <4>4, <5>2, Zenon
        <5>3. CASE o = At("scan_parent", op[p].timer, op[p].rec)
          BY <4>4, <5>3, Zenon
        <5> QED BY <4>3, <5>1, <5>2, <5>3, Zenon
      <4> QED
        BY <4>1, <4>5, Zenon
    <3> QED
      BY <1>11, <2>1, <3>1, SameCall, AbstractStutter, Zenon DEF ScanPoint
  <2> QED
    BY <2>2, <2>3, Zenon
<1>12. ASSUME NEW p \in Procs, ScanParent(p)
      PROVE  [Register!Next]_(Register!registerVars)
  <2>1. regBar' = regBar
    BY <1>12, SameReg, Zenon DEF ScanParent, stores
  <2>2. callBar' = callBar
    <3>1. CallOf(op[p]) = Register!NoCall
      BY <1>12, CallCases, Zenon DEF ScanParent, CallOf, Register!NoCall
    <3> QED
      BY <1>12, <3>1, QuietStep, Zenon DEF ScanParent
  <2> QED
    BY <2>1, <2>2, AbstractStutter, Zenon
<1>13. ASSUME NEW p \in Procs, EndScan(p)
      PROVE  [Register!Next]_(Register!registerVars)
  <2>1. regBar' = regBar
    BY <1>13, SameReg, Zenon DEF EndScan, stores
  <2>2. callBar' = callBar
    <3>1. CallOf(op[p]) = Register!NoCall
      BY <1>13, CallCases, Zenon DEF EndScan, CallOf, Register!NoCall
    <3> QED
      BY <1>13, <3>1, CallCases, SameCall, Zenon DEF EndScan
  <2> QED
    BY <2>1, <2>2, AbstractStutter, Zenon
<1>14. ASSUME NEW p \in Procs, BeginList(p)
      PROVE  [Register!Next]_(Register!registerVars)
  <2>1. regBar' = regBar
    BY <1>14, SameReg, Zenon DEF BeginList, stores
  <2>2. callBar' = callBar
    <3>1. CallOf(op[p]) = Register!NoCall
      BY <1>14, CallCases, ZenonT(20) DEF BeginList, CallOf, Register!NoCall
    <3> QED
      BY <1>14, <3>1, QuietStep, Zenon DEF BeginList
  <2> QED
    BY <2>1, <2>2, AbstractStutter, Zenon
<1>15. ASSUME NEW p \in Procs, ListPoints(p)
      PROVE  [Register!Next]_(Register!registerVars)
  <2>1. regBar' = regBar
    BY <1>15, SameReg, Zenon DEF ListPoints, stores
  <2>2. callBar' = callBar
    <3>1. CallOf(op[p]) = Register!NoCall
      BY <1>15, CallCases, Zenon DEF ListPoints, CallOf, Register!NoCall
    <3> QED
      BY <1>15, <3>1, QuietStep, Zenon DEF ListPoints
  <2> QED
    BY <2>1, <2>2, AbstractStutter, Zenon
<1>16. ASSUME NEW p \in Procs, EndList(p)
      PROVE  [Register!Next]_(Register!registerVars)
  <2>1. regBar' = regBar
    BY <1>16, SameReg, Zenon DEF EndList, stores
  <2>2. callBar' = callBar
    <3>1. CallOf(op[p]) = Register!NoCall
      BY <1>16, CallCases, Zenon DEF EndList, CallOf, Register!NoCall
    <3> QED
      BY <1>16, <3>1, CallCases, SameCall, Zenon DEF EndList
  <2> QED
    BY <2>1, <2>2, AbstractStutter, Zenon
<1>17. ASSUME NEW p \in Procs, NEW t \in Timers, ListLedgerEntry(p, t)
      PROVE  [Register!Next]_(Register!registerVars)
  <2>1. regBar' = regBar
    BY <1>17, SameReg, Zenon DEF ListLedgerEntry, stores
  <2>2. callBar' = callBar
    BY <1>17, Zenon DEF ListLedgerEntry, callBar
  <2> QED
    BY <2>1, <2>2, AbstractStutter, Zenon
<1>18. ASSUME NEW p \in Procs, NEW t \in Timers, ListPoint(p, t)
      PROVE  [Register!Next]_(Register!registerVars)
  <2>1. regBar' = regBar
    BY <1>18, SameReg, Zenon DEF ListPoint, stores
  <2>2. callBar' = callBar
    <3>1. UNCHANGED op \/ Become(p, Idle)
      BY <1>18, Zenon DEF ListPoint
    <3>2. CallOf(op[p]) = Register!NoCall /\ CallOf(Idle) = Register!NoCall
      BY <1>18, CallCases, Zenon DEF ListPoint, CallOf, Register!NoCall
    <3>3. CASE UNCHANGED op
      BY <3>3, Zenon DEF callBar
    <3> QED
      BY <3>1, <3>2, <3>3, SameCall, Zenon
  <2> QED
    BY <2>1, <2>2, AbstractStutter, Zenon
<1>19. ASSUME NEW p \in Procs, Abort(p)
      PROVE  [Register!Next]_(Register!registerVars)
  <2>1. regBar' = regBar
    BY <1>19, SameReg, Zenon DEF Abort, stores
  <2>2. callBar' = [callBar EXCEPT ![p] = Register!NoCall]
    BY <1>19, OneCall DEF Abort, CallOf, Idle, Register!NoCall
  <2> QED
    BY <2>1, <2>2, AbstractEnd, Zenon
<1>20. ASSUME NEW t \in Timers, DamagePoint(t)
      PROVE  [Register!Next]_(Register!registerVars)
  <2>1. regBar' = regBar
    BY <1>20, SameReg, Zenon DEF DamagePoint, TypeOK
  <2>2. callBar' = callBar
    BY <1>20, Zenon DEF DamagePoint, callBar
  <2> QED
    BY <2>1, <2>2, AbstractStutter, Zenon
<1>21. ASSUME EndWorkflow \/ ClockTick \/ UNCHANGED vars
      PROVE  [Register!Next]_(Register!registerVars)
  <2>1. regBar' = regBar
    BY <1>21, SameReg, Zenon DEF EndWorkflow, ClockTick, vars, stores
  <2>2. callBar' = callBar
    BY <1>21, Zenon DEF EndWorkflow, ClockTick, vars, callBar
  <2> QED
    BY <2>1, <2>2, AbstractStutter, Zenon
<1> QED
  BY <1>1, <1>2, <1>3, <1>4, <1>5, <1>6, <1>7, <1>8, <1>9, <1>10, <1>11, <1>12, <1>13, <1>14, <1>15,
     <1>16, <1>17, <1>18, <1>19, <1>20, <1>21, ZenonT(20)
  DEF Next, Step, WriterStep, ScannerStep, ReaderStep, Procs

-----------------------------------------------------------------------------
(* What a scan or a listing returns.  A process that is not a writer has, in *)
(* a call, seen all that could be seen so far, holds only what could be      *)
(* seen, and a scan has read what it may still return.                       *)
WriterPlaces == {"put_ledger", "put_point", "delete_point"}

ViewInv(p) ==
  /\ op[p].pc \notin WriterPlaces
  /\ op[p] = Idle => result[p] = {}
  /\ op[p] # Idle => \A t \in Timers : GetTimer(t) \in window[p][t]
  /\ \A x \in result[p] : x[2] \in window[p][x[1]]
  /\ op[p].pc \in {"scan_point", "scan_parent"} /\ ~IsTombstone(op[p].rec) =>
       op[p].rec \in window[p][op[p].timer]

(* What a call may still do to a point, seen by a listing with W the values  *)
(* of its timer that could be seen so far.                                   *)
Owed(o, W) ==
  /\ o.pc \in {"put_point", "repair_point"} => o.rec \in W
  /\ o.pc \in {"delete_point", "scan_delete_point"} => Absent \in W
  /\ o.pc = "scan_point" /\ IsTombstone(o.rec) => Absent \in W

Leftover(r, t) ==
  /\ point[t] \in {Corrupt} \cup window[r][t]
  /\ \A q \in Procs : op[q].timer = t => Owed(op[q], window[r][t])

(* A timer had no ledger object when the listing began. *)
Unlisted(r, t) ==
  /\ op[r].pc \in {"list_ledger", "list_point"} /\ ~Shadowed(r, t)
  /\ op[r].pc = "list_ledger" => t \notin todo[r]

(* The point of such a timer was visible in this call, and so is whatever    *)
(* the calls of others may put in its place; it is left out of the answer    *)
(* only when its absence could be seen.                                      *)
ListInv(r) ==
  /\ op[r].pc = "list_ledger" => \A t \in todo[r] : ledger[t] # Absent
  /\ \A t \in Timers : Unlisted(r, t) => Leftover(r, t)
  /\ \A t \in Timers : op[r].pc = "list_point" /\ ~Shadowed(r, t) /\ t \notin todo[r] =>
       Absent \in window[r][t]

VisibleInv ==
  /\ \A p \in Scanners \cup Readers : ViewInv(p)
  /\ \A r \in Readers : ListInv(r)
  /\ DOMAIN out = Procs

(* Where a call stands. *)
LEMMA Places ==
  /\ Idle.pc = "idle"
  /\ \A l, t, r : At(l, t, r).pc = l /\ At(l, t, r).timer = t /\ At(l, t, r).rec = r
  /\ \A o : o.pc # "idle" => o # Idle
<1>1. Idle.pc = "idle"
  BY Zenon DEF Idle
<1>2. \A l, t, r : At(l, t, r).pc = l /\ At(l, t, r).timer = t /\ At(l, t, r).rec = r
  BY Zenon DEF At
<1> QED
  BY <1>1, <1>2

LEMMA Busy == \A l, t, r : l # "idle" => At(l, t, r) # Idle
<1>1. ASSUME NEW l, NEW t, NEW r, l # "idle" PROVE At(l, t, r) # Idle
  <2>1. At(l, t, r).pc = l
    BY Zenon DEF At
  <2>2. At(l, t, r).pc # Idle.pc
    BY <1>1, <2>1, Places, Zenon
  <2> QED
    BY <2>2, Zenon
<1> QED
  BY <1>1, Zenon

LEMMA InitVisible == Init => VisibleInv
<1> SUFFICES ASSUME Init PROVE VisibleInv
  OBVIOUS
<1>1. ASSUME NEW p \in Procs PROVE op[p] = Idle /\ op[p].pc = "idle" /\ result[p] = {}
  BY Zenon DEF Init, Idle
<1>2. ASSUME NEW p \in Procs PROVE ViewInv(p) /\ ListInv(p)
  BY <1>1, Zenon DEF ViewInv, ListInv, Unlisted, WriterPlaces
<1>3. DOMAIN out = Procs
  BY Zenon DEF Init
<1> QED
  BY <1>2, <1>3, Zenon DEF VisibleInv, Procs

(* The history of a call: it starts with what can be seen, *)
LEMMA Opened ==
  ASSUME Observe, NEW p \in Procs, p \notin Writers, op[p] = Idle, op'[p] # Idle, NEW t \in Timers
  PROVE  window'[p][t] = {GetTimer(t)}
  BY Zenon DEF Observe

(* and grows by what can be seen after each step. *)
LEMMA Watched ==
  ASSUME Observe, NEW p \in Procs, p \notin Writers, op[p] # Idle, NEW t \in Timers
  PROVE  window'[p][t] = window[p][t] \cup {GetTimer(t)'}
<1>1. window'[p][t] = window[p][t] \cup {Overlay(ledger'[t], point'[t])}
  BY Zenon DEF Observe
<1> QED
  BY <1>1, Zenon DEF GetTimer

LEMMA Gathered ==
  ASSUME Observe, NEW p \in Procs, p \notin Writers, op[p] # Idle, NEW t \in Timers
  PROVE  window[p][t] \subseteq window'[p][t] /\ GetTimer(t)' \in window'[p][t]
  BY Watched, Zenon

(* A call that goes on keeps its view when what it adds could be seen. *)
LEMMA ViewGrows ==
  ASSUME IInv, Observe, NEW p \in Procs, p \notin Writers, ViewInv(p), op[p] # Idle, op'[p] # Idle,
         op'[p].pc \notin WriterPlaces,
         result'[p] \subseteq Timers \X ({Absent} \cup TimerRecord),
         \A x \in result'[p] : x \in result[p] \/ x[2] \in window[p][x[1]],
         op'[p].pc \in {"scan_point", "scan_parent"} /\ ~IsTombstone(op'[p].rec) =>
           op'[p].timer \in Timers /\ op'[p].rec \in window[p][op'[p].timer]
  PROVE  ViewInv(p)'
<1>1. \A t \in Timers : window[p][t] \subseteq window'[p][t] /\ GetTimer(t)' \in window'[p][t]
  BY Gathered, Zenon
<1>2. ASSUME NEW x \in result'[p] PROVE x[2] \in window'[p][x[1]]
  <2>1. x[1] \in Timers
    BY <1>2
  <2>2. x[2] \in window[p][x[1]]
    BY <1>2, Zenon DEF ViewInv
  <2> QED
    BY <1>1, <2>1, <2>2, Zenon
<1> QED
  BY <1>1, <1>2, Zenon DEF ViewInv

(* A call that ends has nothing left to show, *)
LEMMA ViewEnds ==
  ASSUME NEW p \in Procs, op'[p] = Idle, result'[p] = {}
  PROVE  ViewInv(p)'
<1>1. op'[p].pc = "idle"
  BY Places, Zenon
<1> QED
  BY <1>1, Zenon DEF ViewInv, WriterPlaces

(* one that begins has seen what there is, *)
LEMMA ViewBegins ==
  ASSUME Observe, NEW p \in Procs, p \notin Writers, op[p] = Idle, op'[p] # Idle, result'[p] = {},
         op'[p].pc \in {"scan", "list_ledger"}, UNCHANGED <<ledger, point>>
  PROVE  ViewInv(p)'
<1>1. ASSUME NEW t \in Timers PROVE GetTimer(t)' \in window'[p][t]
  BY Opened, Zenon DEF GetTimer
<1> QED
  BY <1>1, Zenon DEF ViewInv, WriterPlaces

(* and one that does not move only sees more. *)
LEMMA ViewKept ==
  ASSUME IInv, Observe, NEW p \in Procs, p \notin Writers, ViewInv(p), op'[p] = op[p],
         result'[p] = result[p]
  PROVE  ViewInv(p)'
<1>1. CASE op[p] = Idle
  BY <1>1, ViewEnds, Zenon DEF ViewInv
<1>2. CASE op[p] # Idle
  <2>1. result'[p] \subseteq Timers \X ({Absent} \cup TimerRecord)
    BY Zenon DEF IInv, TypeOK
  <2>2. op[p].pc \in {"scan_point", "scan_parent"} => op[p].timer \in Timers
    BY Zenon DEF IInv, CallInv
  <2> QED
    BY <1>2, <2>1, <2>2, ViewGrows, Zenon DEF ViewInv
<1> QED
  BY <1>1, <1>2, Zenon

(* A step is a step of one process: the others stand where they stood. *)
LEMMA OthersStand ==
  ASSUME IInv, NEW p \in Procs, NEW q \in Procs, p # q,
         WriterStep(q) \/ ScannerStep(q) \/ ReaderStep(q) \/ Abort(q)
  PROVE  op'[p] = op[p] /\ result'[p] = result[p] /\ todo'[p] = todo[p]
<1>0. op \in [Procs -> CallType] /\ p \in DOMAIN op /\ p \in DOMAIN result /\ p \in DOMAIN todo
  BY Zenon DEF IInv, TypeOK, CallType
<1>1. op' = op \/ \E o : Become(q, o)
  BY Zenon DEF WriterStep, ScannerStep, ReaderStep, BeginPut, BeginDelete, DeleteReadLedger, DeleteReadPoint,
     PutTombstone, PutLedger, PutPoint, DeletePoint, BeginScan, ScanPoint, ScanParent, EndScan, ScanEntry,
     BeginList, ListPoints, EndList, ListLedgerEntry, ListPoint, Abort
<1>2. op'[p] = op[p]
  BY <1>0, <1>1, Zenon DEF Become
<1>3. result' = result \/ \E o : result' = [result EXCEPT ![q] = o]
  BY Zenon DEF WriterStep, ScannerStep, ReaderStep, BeginPut, BeginDelete, DeleteReadLedger, DeleteReadPoint,
     PutTombstone, PutLedger, PutPoint, DeletePoint, BeginScan, ScanPoint, ScanParent, EndScan, ScanEntry,
     BeginList, ListPoints, EndList, ListLedgerEntry, ListPoint, Abort, locals
<1>4. todo' = todo \/ \E o : todo' = [todo EXCEPT ![q] = o]
  BY Zenon DEF WriterStep, ScannerStep, ReaderStep, BeginPut, BeginDelete, DeleteReadLedger, DeleteReadPoint,
     PutTombstone, PutLedger, PutPoint, DeletePoint, BeginScan, ScanPoint, ScanParent, EndScan, ScanEntry,
     BeginList, ListPoints, EndList, ListLedgerEntry, ListPoint, Abort, locals
<1> QED
  BY <1>0, <1>2, <1>3, <1>4, Zenon

LEMMA WhoMoves ==
  ASSUME IInv, Step, NEW p \in Scanners \cup Readers
  PROVE  \/ p \in Scanners /\ ScannerStep(p)
         \/ p \in Readers /\ ReaderStep(p)
         \/ Abort(p)
         \/ op'[p] = op[p] /\ result'[p] = result[p] /\ todo'[p] = todo[p]
<1>0. p \in Procs /\ p \notin Writers
  BY RolesDisjoint, Zenon DEF Procs
<1>1. CASE \E t \in Timers : DamagePoint(t)
  BY <1>1, Zenon DEF DamagePoint, locals
<1>2. CASE EndWorkflow \/ ClockTick
  BY <1>2, Zenon DEF EndWorkflow, ClockTick, locals
<1>3. CASE \E q \in Writers : WriterStep(q)
  BY <1>0, <1>3, OthersStand, Zenon DEF Procs
<1>4. CASE \E q \in Scanners : ScannerStep(q)
  BY <1>0, <1>4, OthersStand, Zenon DEF Procs
<1>5. CASE \E q \in Readers : ReaderStep(q)
  BY <1>0, <1>5, OthersStand, Zenon DEF Procs
<1>6. CASE \E q \in Procs : Abort(q)
  BY <1>0, <1>6, OthersStand, Zenon
<1> QED
  BY <1>1, <1>2, <1>3, <1>4, <1>5, <1>6, Zenon DEF Step

LEMMA ScannerView ==
  ASSUME IInv, Observe, NEW s \in Scanners, ViewInv(s), ScannerStep(s)
  PROVE  ViewInv(s)'
<1>0. s \in Procs /\ s \notin Writers /\ CallInv(s) /\ s \in DOMAIN op /\ s \in DOMAIN result
  BY RolesDisjoint, Zenon DEF Procs, IInv, TypeOK
<1>1. result[s] \subseteq Timers \X ({Absent} \cup TimerRecord)
  BY <1>0, Zenon DEF IInv, TypeOK
<1>2. \A o : Become(s, o) => op'[s] = o
  BY <1>0, Zenon DEF Become
<1>3. ASSUME op[s].pc # "idle" PROVE op[s] # Idle
  BY <1>3, Places, Zenon
<1>4. ASSUME NEW o, Become(s, o), o.pc \notin {"idle", "scan_point", "scan_parent"} \cup WriterPlaces, op[s].pc # "idle",
             result' = result
      PROVE  ViewInv(s)'
  <2>1. op'[s] = o /\ op'[s] # Idle /\ op[s] # Idle
    BY <1>2, <1>3, <1>4, Places, Zenon
  <2> QED
    BY <1>0, <1>1, <1>4, <2>1, ViewGrows, Zenon
<1>5. CASE BeginScan(s)
  <2>1. op[s] = Idle /\ op'[s] = At("scan", NoTimer, Absent) /\ UNCHANGED <<ledger, point>>
        /\ result'[s] = {}
    BY <1>0, <1>2, <1>5, Zenon DEF BeginScan, stores
  <2>2. op'[s] # Idle /\ op'[s].pc = "scan"
    <3>1. At("scan", NoTimer, Absent) # Idle /\ At("scan", NoTimer, Absent).pc = "scan"
      BY Busy, Places, Zenon
    <3> QED
      BY <2>1, <3>1, Zenon
  <2> QED
    BY <1>0, <2>1, <2>2, ViewBegins, Zenon
<1>6. ASSUME NEW t \in Timers, ScanEntry(s, t) PROVE ViewInv(s)'
  <2>1. /\ op'[s] = At("scan_point", t, ledger[t]) /\ op[s] # Idle /\ result' = result
        /\ ledger[t] # Absent
    BY <1>0, <1>2, <1>3, <1>6, Zenon DEF ScanEntry, CallInv
  <2>2. op'[s].pc = "scan_point" /\ op'[s].timer = t /\ op'[s].rec = ledger[t] /\ op'[s] # Idle
    <3>1. PICK o : o = ledger[t]
      OBVIOUS
    <3>2. /\ At("scan_point", t, o).pc = "scan_point" /\ At("scan_point", t, o).timer = t
          /\ At("scan_point", t, o).rec = o
      BY Zenon DEF At
    <3>3. At("scan_point", t, o) # Idle
      BY Busy, Zenon
    <3>4. op'[s] = At("scan_point", t, o)
      BY <2>1, <3>1, Zenon
    <3> QED
      BY <3>1, <3>2, <3>3, <3>4, Zenon
  <2>3. ~IsTombstone(ledger[t]) => ledger[t] = GetTimer(t)
    BY <2>1, Zenon DEF GetTimer, Overlay
  <2>4. GetTimer(t) \in window[s][t]
    BY <2>1, Zenon DEF ViewInv
  <2> QED
    BY <1>0, <1>1, <2>1, <2>2, <2>3, <2>4, ViewGrows, Zenon DEF WriterPlaces
<1>7. CASE ScanPoint(s)
  <2>1. op[s].pc = "scan_point" /\ result' = result
        /\ op'[s] = AfterPointRead(op[s].rec, point[op[s].timer], op[s].timer, at[s])
    BY <1>2, <1>7, Zenon DEF ScanPoint, locals
  <2>2. PICK l \in {"scan", "scan_delete_point", "repair_ledger", "scan_parent"} : \E t, r :
          op'[s] = At(l, t, r) /\ (l = "scan_parent" => t = op[s].timer /\ r = op[s].rec)
    BY <2>1, Zenon DEF AfterPointRead
  <2>3. /\ op'[s] # Idle /\ op'[s].pc = l
        /\ l = "scan_parent" => op'[s].timer = op[s].timer /\ op'[s].rec = op[s].rec
    <3>1. PICK t, r : op'[s] = At(l, t, r) /\ (l = "scan_parent" => t = op[s].timer /\ r = op[s].rec)
      BY <2>2, Zenon
    <3>2. At(l, t, r).pc = l /\ At(l, t, r).timer = t /\ At(l, t, r).rec = r
      BY Zenon DEF At
    <3>3. At(l, t, r) # Idle
      BY Busy, Zenon
    <3>4. op'[s] # Idle /\ op'[s].pc = l /\ op'[s].timer = t /\ op'[s].rec = r
      BY <3>1, <3>2, <3>3, Zenon
    <3> QED
      BY <3>1, <3>4, Zenon
  <2>4. op[s] # Idle /\ op[s].timer \in Timers
    BY <1>0, <1>3, <2>1, Zenon DEF CallInv
  <2>5. ~IsTombstone(op[s].rec) => op[s].rec \in window[s][op[s].timer]
    BY <2>1, Zenon DEF ViewInv
  <2> QED
    BY <1>0, <1>1, <2>1, <2>2, <2>3, <2>4, <2>5, ViewGrows, Zenon DEF WriterPlaces
<1>8. CASE ScanParent(s)
  <2>1. /\ op[s].pc = "scan_parent" /\ op[s] # Idle /\ op'[s] = At("scan", NoTimer, Absent)
        /\ op[s].timer \in Timers /\ op[s].rec \in TimerRecord
    BY <1>0, <1>2, <1>3, <1>8, Zenon DEF ScanParent, CallInv
  <2>2. op'[s] # Idle /\ op'[s].pc = "scan"
    <3>1. At("scan", NoTimer, Absent) # Idle /\ At("scan", NoTimer, Absent).pc = "scan"
      BY Busy, Places, Zenon
    <3> QED
      BY <2>1, <3>1, Zenon
  <2>3. op[s].rec \in window[s][op[s].timer]
    BY <2>1, Kinds, Zenon DEF ViewInv
  <2>4. result'[s] \subseteq result[s] \cup {<<op[s].timer, op[s].rec>>}
    BY <1>0, <1>8, Zenon DEF ScanParent
  <2>5. LET x == <<op[s].timer, op[s].rec>>
        IN  x \in Timers \X ({Absent} \cup TimerRecord) /\ x[2] \in window[s][x[1]]
    BY <2>1, <2>3
  <2>6. /\ result'[s] \subseteq Timers \X ({Absent} \cup TimerRecord)
        /\ \A x \in result'[s] : x \in result[s] \/ x[2] \in window[s][x[1]]
    BY <1>1, <2>4, <2>5, Zenon
  <2> QED
    BY <1>0, <2>1, <2>2, <2>6, ViewGrows, Zenon DEF WriterPlaces
<1>9. CASE EndScan(s)
  <2>1. op'[s] = Idle /\ result'[s] = {}
    BY <1>0, <1>2, <1>9, Zenon DEF EndScan
  <2> QED
    BY <1>0, <2>1, ViewEnds, Zenon
<1>10. CASE PutLedger(s)
  <2>1. op[s].pc = "repair_ledger" /\ result' = result /\ Become(s, [op[s] EXCEPT !.pc = "repair_point"])
    BY <1>10, Zenon DEF PutLedger, locals, ViewInv, WriterPlaces
  <2>2. op[s] \in CallType
    BY <1>0, Zenon DEF IInv, TypeOK, CallType
  <2>3. [op[s] EXCEPT !.pc = "repair_point"].pc = "repair_point"
    BY <2>2 DEF CallType
  <2> QED
    BY <1>4, <2>1, <2>3, Zenon DEF WriterPlaces
<1>11. CASE PutPoint(s) \/ DeletePoint(s)
  <2>1. result' = result /\ op[s].pc # "idle" /\ Become(s, At("scan", NoTimer, Absent))
    BY <1>11, Zenon DEF PutPoint, DeletePoint, locals, ViewInv, WriterPlaces
  <2>2. At("scan", NoTimer, Absent).pc = "scan"
    BY Zenon DEF At
  <2> QED
    BY <1>4, <2>1, <2>2, Zenon DEF WriterPlaces
<1> QED
  BY <1>5, <1>6, <1>7, <1>8, <1>9, <1>10, <1>11, Zenon DEF ScannerStep

LEMMA ReaderView ==
  ASSUME IInv, Observe, NEW r \in Readers, ViewInv(r), ListInv(r), ReaderStep(r)
  PROVE  ViewInv(r)'
<1>0. r \in Procs /\ r \notin Writers /\ r \in DOMAIN op /\ r \in DOMAIN result
  BY RolesDisjoint, Zenon DEF Procs, IInv, TypeOK
<1>1. result[r] \subseteq Timers \X ({Absent} \cup TimerRecord)
  BY <1>0, Zenon DEF IInv, TypeOK
<1>2. \A o : Become(r, o) => op'[r] = o
  BY <1>0, Zenon DEF Become
<1>3. ASSUME op[r].pc # "idle" PROVE op[r] # Idle
  BY <1>3, Places, Zenon
<1>4. ASSUME NEW t \in Timers, NEW v \in {Absent} \cup TimerRecord, v \in window[r][t], op[r] # Idle,
             op' = op, op[r].pc \in {"list_ledger", "list_point"},
             result' = [result EXCEPT ![r] = @ \cup {<<t, v>>}]
      PROVE  ViewInv(r)'
  <2>1. result'[r] = result[r] \cup {<<t, v>>}
    BY <1>0, <1>4, Zenon
  <2>2. <<t, v>> \in Timers \X ({Absent} \cup TimerRecord) /\ <<t, v>>[2] \in window[r][<<t, v>>[1]]
    BY <1>4
  <2>3. /\ result'[r] \subseteq Timers \X ({Absent} \cup TimerRecord)
        /\ \A x \in result'[r] : x \in result[r] \/ x[2] \in window[r][x[1]]
    BY <1>1, <2>1, <2>2, Zenon
  <2> QED
    BY <1>0, <1>4, <2>3, ViewGrows, Zenon DEF WriterPlaces
<1>5. CASE BeginList(r)
  <2>1. op[r] = Idle /\ op'[r] = At("list_ledger", NoTimer, Absent) /\ UNCHANGED <<ledger, point>>
        /\ result' = result
    BY <1>0, <1>2, <1>5, Zenon DEF BeginList, stores
  <2>2. op'[r] # Idle /\ op'[r].pc = "list_ledger" /\ result'[r] = {}
    <3>1. At("list_ledger", NoTimer, Absent) # Idle /\ At("list_ledger", NoTimer, Absent).pc = "list_ledger"
      BY Busy, Places, Zenon
    <3>2. result'[r] = {}
      BY <1>0, <2>1, Zenon DEF ViewInv
    <3> QED
      BY <2>1, <3>1, <3>2, Zenon
  <2> QED
    BY <1>0, <2>1, <2>2, ViewBegins, Zenon
<1>6. CASE ListPoints(r)
  <2>1. op[r] # Idle /\ op'[r] = At("list_point", NoTimer, Absent) /\ result' = result
    BY <1>2, <1>3, <1>6, Zenon DEF ListPoints
  <2>2. op'[r] # Idle /\ op'[r].pc = "list_point"
    <3>1. At("list_point", NoTimer, Absent) # Idle /\ At("list_point", NoTimer, Absent).pc = "list_point"
      BY Busy, Places, Zenon
    <3> QED
      BY <2>1, <3>1, Zenon
  <2> QED
    BY <1>0, <1>1, <2>1, <2>2, ViewGrows, Zenon DEF WriterPlaces
<1>7. CASE EndList(r)
  <2>1. op'[r] = Idle /\ result'[r] = {}
    BY <1>0, <1>2, <1>7, Zenon DEF EndList
  <2> QED
    BY <1>0, <2>1, ViewEnds, Zenon
<1>8. ASSUME NEW t \in Timers, ListLedgerEntry(r, t) PROVE ViewInv(r)'
  <2>1. /\ op[r].pc = "list_ledger" /\ op' = op /\ op[r] # Idle /\ ledger[t] # Absent
        /\ result' = [result EXCEPT ![r] = @ \cup {<<t, Overlay(ledger[t], Absent)>>}]
    BY <1>3, <1>8, Zenon DEF ListLedgerEntry, ListInv
  <2>2. Overlay(ledger[t], Absent) = GetTimer(t)
    BY <2>1, Zenon DEF GetTimer, Overlay
  <2>3. Overlay(ledger[t], Absent) \in {Absent} \cup TimerRecord
    BY <1>8, Kinds, Zenon DEF Overlay, IInv, TypeOK, LedgerValue
  <2>4. GetTimer(t) \in window[r][t]
    BY <1>8, <2>1, Zenon DEF ViewInv
  <2> QED
    BY <1>4, <1>8, <2>1, <2>2, <2>3, <2>4, Zenon
<1>9. ASSUME NEW t \in Timers, ListPoint(r, t) PROVE ViewInv(r)'
  <2>1. op[r].pc = "list_point" /\ op[r] # Idle
    BY <1>3, <1>9, Zenon DEF ListPoint
  <2>2. CASE op' = op /\ result' = result
    BY <1>0, <2>2, ViewKept, Zenon
  <2>3. CASE /\ ~Shadowed(r, t) /\ point[t] \notin {Absent, Corrupt} /\ op' = op
             /\ result' = [result EXCEPT ![r] = @ \cup {<<t, point[t]>>}]
    <3>1. point[t] \in TimerRecord
      BY <1>9, <2>3, Zenon DEF IInv, TypeOK, PointValue
    <3>2. Leftover(r, t)
      BY <1>9, <2>1, <2>3, Zenon DEF ListInv, Unlisted
    <3>3. point[t] \in window[r][t]
      BY <2>3, <3>2, Zenon DEF Leftover
    <3> QED
      BY <1>4, <1>9, <2>1, <2>3, <3>1, <3>3, Zenon
  <2>4. CASE result' = [result EXCEPT ![r] = {}] /\ Become(r, Idle)
    <3>1. op'[r] = Idle /\ result'[r] = {}
      BY <1>0, <1>2, <2>4, Zenon
    <3> QED
      BY <1>0, <3>1, ViewEnds, Zenon
  <2> QED
    BY <1>9, <2>2, <2>3, <2>4, Zenon DEF ListPoint
<1> QED
  BY <1>5, <1>6, <1>7, <1>8, <1>9, Zenon DEF ReaderStep

LEMMA ViewStep ==
  ASSUME IInv, VisibleInv, Next, NEW p \in Scanners \cup Readers
  PROVE  ViewInv(p)'
<1>0. p \in Procs /\ p \notin Writers /\ ViewInv(p) /\ Observe /\ Step
  BY RolesDisjoint, Zenon DEF Procs, VisibleInv, Next
<1>1. CASE Abort(p)
  <2>1. op'[p] = Idle /\ result'[p] = {}
    BY <1>0, <1>1, Zenon DEF Abort, Become, IInv, TypeOK
  <2> QED
    BY <1>0, <2>1, ViewEnds, Zenon
<1>2. CASE p \in Readers /\ ReaderStep(p)
  BY <1>0, <1>2, ReaderView, Zenon DEF VisibleInv
<1> QED
  BY <1>0, <1>1, <1>2, WhoMoves, ScannerView, ViewKept, Zenon

(* No step removes a ledger object. *)
LEMMA LedgerStays ==
  ASSUME IInv, Step, NEW t \in Timers, ledger[t] # Absent
  PROVE  ledger'[t] # Absent
<1>1. ASSUME NEW p \in Procs, PutLedger(p) \/ PutTombstone(p) PROVE ledger'[t] # Absent
  <2>1. op[p].rec \in TimerRecord \cup TombstoneRecord /\ ledger' = [ledger EXCEPT ![op[p].timer] = op[p].rec]
    BY <1>1, Zenon DEF PutLedger, PutTombstone, IInv, CallInv
  <2>2. op[p].rec # Absent
    BY <2>1, Kinds, Zenon
  <2> QED
    BY <2>1, <2>2, Zenon DEF IInv, TypeOK
<1>2. ASSUME NEW p \in Procs, WriterStep(p) \/ ScannerStep(p) \/ ReaderStep(p) \/ Abort(p),
             ~PutLedger(p), ~PutTombstone(p)
      PROVE  ledger' = ledger
  BY <1>2, Zenon DEF WriterStep, ScannerStep, ReaderStep, BeginPut, BeginDelete, DeleteReadLedger,
     DeleteReadPoint, PutPoint, DeletePoint, BeginScan, ScanPoint, ScanParent, EndScan, ScanEntry,
     BeginList, ListPoints, EndList, ListLedgerEntry, ListPoint, Abort, stores
<1>3. ASSUME (\E u \in Timers : DamagePoint(u)) \/ EndWorkflow \/ ClockTick PROVE ledger' = ledger
  BY <1>3, Zenon DEF DamagePoint, EndWorkflow, ClockTick
<1> QED
  BY <1>1, <1>2, <1>3, Zenon DEF Step, Procs

(* What is owed stays owed while one process moves. *)
LEMMA LeftoverMoves ==
  ASSUME IInv, NEW r \in Procs, NEW t \in Timers, Leftover(r, t),
         window[r][t] \subseteq window'[r][t], NEW p \in Procs, NEW o, Become(p, o),
         point'[t] = point[t] \/ point'[t] \in window'[r][t],
         o.timer = t => Owed(o, window'[r][t])
  PROVE  Leftover(r, t)'
<1>1. \A q \in Procs : op'[q] = IF q = p THEN o ELSE op[q]
  BY Zenon DEF Become, IInv, TypeOK
<1>2. ASSUME NEW q \in Procs, op'[q].timer = t PROVE Owed(op'[q], window'[r][t])
  <2>1. CASE q = p
    BY <1>1, <1>2, <2>1, Zenon
  <2>2. CASE q # p
    BY <1>1, <1>2, <2>2, Zenon DEF Leftover, Owed
  <2> QED
    BY <2>1, <2>2, Zenon
<1>3. point'[t] \in {Corrupt} \cup window'[r][t]
  BY Zenon DEF Leftover
<1> QED
  BY <1>2, <1>3, Zenon DEF Leftover, Owed

(* A point that a listing has to read stays one that was visible in its      *)
(* call, whatever step is taken.                                             *)
LEMMA LeftoverStep ==
  ASSUME IInv, Next, NEW r \in Readers, ViewInv(r), op[r] # Idle, NEW t \in Timers, Leftover(r, t)
  PROVE  Leftover(r, t)'
<1>0. r \in Procs /\ r \notin Writers /\ Observe /\ Step
  BY RolesDisjoint, Zenon DEF Procs, Next
<1>1. window[r][t] \subseteq window'[r][t] /\ GetTimer(t)' \in window'[r][t]
  BY <1>0, Gathered, Zenon
<1>2. \A p \in Procs : CallInv(p)
  BY Zenon DEF IInv
<1>3. ASSUME NEW p \in Procs, NEW o, Become(p, o), point' = point, o.timer = t => Owed(o, window'[r][t])
      PROVE  Leftover(r, t)'
  BY <1>0, <1>1, <1>3, LeftoverMoves, Zenon
<1>4. ASSUME NEW p \in Procs, NEW o, Become(p, o), point' = point,
             o.pc \notin {"put_point", "repair_point", "delete_point", "scan_delete_point", "scan_point"}
      PROVE  Leftover(r, t)'
  BY <1>3, <1>4, Zenon DEF Owed
<1>5. ASSUME NEW p \in Procs, NEW u \in Timers, NEW c \in TimerRecord, BeginPut(p, u, c)
      PROVE  Leftover(r, t)'
  BY <1>4, <1>5, Zenon DEF BeginPut, At, stores
<1>6. ASSUME NEW p \in Procs, PutLedger(p) PROVE Leftover(r, t)'
  <2>1. PICK o : Become(p, o) /\ o = [op[p] EXCEPT !.pc = IF op[p].pc = "put_ledger" THEN "put_point"
                                                                                     ELSE "repair_point"]
    BY <1>6, Zenon DEF PutLedger
  <2>2. op[p] \in CallType
    BY Zenon DEF IInv, TypeOK, CallType
  <2>3. o.pc \in {"put_point", "repair_point"} /\ o.timer = op[p].timer /\ o.rec = op[p].rec
    BY <2>1, <2>2 DEF CallType
  <2>4. op[p].rec \in TimerRecord /\ ledger' = [ledger EXCEPT ![op[p].timer] = op[p].rec] /\ point' = point
    BY <1>2, <1>6, Zenon DEF PutLedger, CallInv
  <2>5. ASSUME o.timer = t PROVE o.rec \in window'[r][t]
    <3>1. ledger'[t] = o.rec /\ o.rec # Absent /\ ~IsTombstone(o.rec)
      BY <2>3, <2>4, <2>5, Kinds, Zenon DEF IInv, TypeOK
    <3>2. GetTimer(t)' = o.rec
      BY <3>1, Zenon DEF GetTimer, Overlay
    <3> QED
      BY <1>1, <3>2, Zenon
  <2> QED
    BY <1>3, <2>1, <2>3, <2>4, <2>5, Zenon DEF Owed
<1>7. ASSUME NEW p \in Procs, PutPoint(p) \/ DeletePoint(p) PROVE Leftover(r, t)'
  <2>1. PICK o \in {Idle, At("scan", NoTimer, Absent)} : Become(p, o)
    BY <1>7, Zenon DEF PutPoint, DeletePoint
  <2>2. o.pc \in {"idle", "scan"}
    <3>1. At("scan", NoTimer, Absent).pc = "scan" /\ Idle.pc = "idle"
      BY Places, Zenon
    <3> QED
      BY <2>1, <3>1, Zenon
  <2>3. point'[t] = point[t] \/ point'[t] \in window[r][t]
    <3>1. CASE PutPoint(p)
      <4>1. op[p].pc \in {"put_point", "repair_point"} /\ point' = [point EXCEPT ![op[p].timer] = op[p].rec]
        BY <3>1, Zenon DEF PutPoint
      <4>2. op[p].timer = t => op[p].rec \in window[r][t]
        BY <4>1, Zenon DEF Leftover, Owed
      <4> QED
        BY <4>1, <4>2, Zenon DEF IInv, TypeOK
    <3>2. CASE DeletePoint(p)
      <4>1. op[p].pc \in {"delete_point", "scan_delete_point"} /\ point' = [point EXCEPT ![op[p].timer] = Absent]
        BY <3>2, Zenon DEF DeletePoint
      <4>2. op[p].timer = t => Absent \in window[r][t]
        BY <4>1, Zenon DEF Leftover, Owed
      <4> QED
        BY <4>1, <4>2, Zenon DEF IInv, TypeOK
    <3> QED
      BY <1>7, <3>1, <3>2, Zenon
  <2>4. Owed(o, window'[r][t])
    BY <2>2, Zenon DEF Owed
  <2> QED
    BY <1>0, <1>1, <2>1, <2>3, <2>4, LeftoverMoves, Zenon
<1>8. ASSUME NEW p \in Procs, NEW u \in Timers, BeginDelete(p, u) PROVE Leftover(r, t)'
  BY <1>4, <1>8, Zenon DEF BeginDelete, At, stores
<1>9. ASSUME NEW p \in Procs, DeleteReadLedger(p) PROVE Leftover(r, t)'
  BY <1>4, <1>9, Zenon DEF DeleteReadLedger, At, Idle, stores
<1>10. ASSUME NEW p \in Procs, DeleteReadPoint(p) PROVE Leftover(r, t)'
  <2>1. CASE Become(p, At("delete_ledger", op[p].timer, Bury(point[op[p].timer])))
    BY <1>4, <1>10, <2>1, Zenon DEF DeleteReadPoint, At, stores
  <2>2. CASE Become(p, At("delete_point", op[p].timer, Absent)) /\ point[op[p].timer] = Absent
    <3>1. op[p].timer = t => Absent \in window'[r][t]
      BY <1>1, <2>2, Kinds, Zenon DEF Leftover
    <3>2. /\ At("delete_point", op[p].timer, Absent).pc = "delete_point"
          /\ At("delete_point", op[p].timer, Absent).timer = op[p].timer
      BY Zenon DEF At
    <3> QED
      BY <1>3, <1>10, <2>2, <3>1, <3>2, Zenon DEF Owed, DeleteReadPoint, stores
  <2> QED
    BY <1>10, <2>1, <2>2, Zenon DEF DeleteReadPoint
<1>11. ASSUME NEW p \in Procs, PutTombstone(p) PROVE Leftover(r, t)'
  <2>1. PICK o : Become(p, o) /\ o = [op[p] EXCEPT !.pc = "delete_point"]
    BY <1>11, Zenon DEF PutTombstone
  <2>2. op[p] \in CallType
    BY Zenon DEF IInv, TypeOK, CallType
  <2>3. o.pc = "delete_point" /\ o.timer = op[p].timer
    BY <2>1, <2>2 DEF CallType
  <2>4. op[p].rec \in TombstoneRecord /\ ledger' = [ledger EXCEPT ![op[p].timer] = op[p].rec] /\ point' = point
    BY <1>2, <1>11, Zenon DEF PutTombstone, CallInv
  <2>5. ASSUME o.timer = t PROVE Absent \in window'[r][t]
    <3>1. ledger'[t] = op[p].rec /\ op[p].rec # Absent /\ IsTombstone(op[p].rec)
      BY <2>3, <2>4, <2>5, Kinds, Zenon DEF IInv, TypeOK
    <3>2. GetTimer(t)' = Absent
      BY <3>1, Zenon DEF GetTimer, Overlay
    <3> QED
      BY <1>1, <3>2, Zenon
  <2> QED
    BY <1>3, <2>1, <2>3, <2>4, <2>5, Zenon DEF Owed
<1>12. ASSUME NEW p \in Scanners, NEW u \in Timers, ScanEntry(p, u) PROVE Leftover(r, t)'
  <2>1. p \in Procs /\ Become(p, At("scan_point", u, ledger[u])) /\ point' = point /\ ledger[u] # Absent
    BY <1>2, <1>12, Zenon DEF ScanEntry, stores, CallInv, Procs
  <2>2. LET o == At("scan_point", u, ledger[u])
        IN  o.pc = "scan_point" /\ o.timer = u /\ o.rec = ledger[u]
    BY Zenon DEF At
  <2>3. ASSUME u = t, IsTombstone(ledger[u]) PROVE Absent \in window'[r][t]
    <3>1. GetTimer(t) = Absent
      BY <2>1, <2>3, Zenon DEF GetTimer, Overlay
    <3>2. GetTimer(t) \in window[r][t]
      BY Zenon DEF ViewInv
    <3> QED
      BY <1>1, <3>1, <3>2, Zenon
  <2> QED
    BY <1>3, <2>1, <2>2, <2>3, Zenon DEF Owed
<1>13. ASSUME NEW p \in Procs, ScanPoint(p) PROVE Leftover(r, t)'
  <2>1. /\ op[p].pc = "scan_point" /\ point' = point
        /\ Become(p, AfterPointRead(op[p].rec, point[op[p].timer], op[p].timer, at[p]))
    BY <1>13, Zenon DEF ScanPoint, stores
  <2>2. CASE IsTombstone(op[p].rec) /\ Become(p, At("scan_delete_point", op[p].timer, Absent))
    <3>1. LET o == At("scan_delete_point", op[p].timer, Absent)
          IN  o.pc = "scan_delete_point" /\ o.timer = op[p].timer
      BY Zenon DEF At
    <3>2. op[p].timer = t => Absent \in window'[r][t]
      BY <1>1, <2>1, <2>2, Zenon DEF Leftover, Owed
    <3> QED
      BY <1>3, <2>1, <2>2, <3>1, <3>2, Zenon DEF Owed
  <2>3. CASE \E l \in {"scan", "repair_ledger", "scan_parent"} : \E u, c : Become(p, At(l, u, c))
    <3>1. PICK l \in {"scan", "repair_ledger", "scan_parent"} : \E u, c : Become(p, At(l, u, c))
      BY <2>3, Zenon
    <3>2. \A u, c : At(l, u, c).pc = l
      BY Places, Zenon
    <3> QED
      BY <1>4, <2>1, <3>1, <3>2, Zenon
  <2> QED
    BY <2>1, <2>2, <2>3, Zenon DEF AfterPointRead
<1>14. ASSUME NEW p \in Procs, BeginScan(p) \/ ScanParent(p) \/ EndScan(p) PROVE Leftover(r, t)'
  BY <1>4, <1>14, Zenon DEF BeginScan, ScanParent, EndScan, At, Idle, stores
<1>15. ASSUME NEW p \in Procs, BeginList(p) \/ ListPoints(p) \/ EndList(p) \/ Abort(p) PROVE Leftover(r, t)'
  BY <1>4, <1>15, Zenon DEF BeginList, ListPoints, EndList, Abort, At, Idle, stores
<1>16. ASSUME op' = op, point'[t] = point[t] \/ point'[t] = Corrupt PROVE Leftover(r, t)'
  BY <1>1, <1>16, Zenon DEF Leftover, Owed
<1>17. ASSUME NEW p \in Procs, NEW u \in Timers, ListLedgerEntry(p, u) \/ ListPoint(p, u)
       PROVE  Leftover(r, t)'
  <2>1. point' = point /\ (op' = op \/ Become(p, Idle))
    BY <1>17, Zenon DEF ListLedgerEntry, ListPoint, stores
  <2> QED
    BY <1>4, <1>16, <2>1, Zenon DEF Idle
<1>18. ASSUME NEW u \in Timers, DamagePoint(u) PROVE Leftover(r, t)'
  BY <1>16, <1>18, Zenon DEF DamagePoint, IInv, TypeOK
<1>19. ASSUME EndWorkflow \/ ClockTick PROVE Leftover(r, t)'
  BY <1>16, <1>19, Zenon DEF EndWorkflow, ClockTick
<1> QED
  BY <1>0, <1>5, <1>6, <1>7, <1>8, <1>9, <1>10, <1>11, <1>12, <1>13, <1>14, <1>15, <1>17, <1>18, <1>19,
     Zenon DEF Step, WriterStep, ScannerStep, ReaderStep, Procs

LEMMA ListStep ==
  ASSUME IInv, VisibleInv, Next, NEW r \in Readers
  PROVE  ListInv(r)'
<1>0. /\ r \in Procs /\ r \notin Writers /\ ViewInv(r) /\ ListInv(r) /\ Observe /\ Step
      /\ r \in DOMAIN op /\ r \in DOMAIN result /\ r \in DOMAIN todo
  BY RolesDisjoint, Zenon DEF Procs, VisibleInv, Next, IInv, TypeOK
<1>1. ASSUME NEW t \in Timers, op[r] # Idle PROVE window[r][t] \subseteq window'[r][t]
  BY <1>0, <1>1, Gathered, Zenon
<1>2. \A o : Become(r, o) => op'[r] = o
  BY <1>0, Zenon DEF Become
<1>3. ASSUME op'[r] = Idle PROVE ListInv(r)'
  <2>1. op'[r].pc = "idle"
    BY <1>3, Places, Zenon
  <2> QED
    BY <2>1, Zenon DEF ListInv, Unlisted
<1>4. ASSUME op[r] # Idle,
             op'[r].pc = "list_ledger" => op[r].pc = "list_ledger" /\ todo'[r] \subseteq todo[r],
             \A t \in Timers : Unlisted(r, t)' => Unlisted(r, t),
             \A t \in Timers : op'[r].pc = "list_point" /\ ~Shadowed(r, t)' /\ t \notin todo'[r] =>
               Absent \in window[r][t]
      PROVE  ListInv(r)'
  <2>1. op'[r].pc = "list_ledger" => \A t \in todo'[r] : ledger'[t] # Absent
    <3>1. \A t \in todo[r] : t \in Timers
      BY <1>0, Zenon DEF IInv, TypeOK
    <3> QED
      BY <1>0, <1>4, <3>1, LedgerStays, Zenon DEF ListInv
  <2>2. ASSUME NEW t \in Timers, Unlisted(r, t)' PROVE Leftover(r, t)'
    <3>1. Leftover(r, t)
      BY <1>0, <1>4, <2>2, Zenon DEF ListInv
    <3> QED
      BY <1>0, <1>4, <3>1, LeftoverStep, Zenon
  <2>3. ASSUME NEW t \in Timers, op'[r].pc = "list_point", ~Shadowed(r, t)', t \notin todo'[r]
        PROVE  Absent \in window'[r][t]
    BY <1>1, <1>4, <2>3, Zenon
  <2> QED
    BY <2>1, <2>2, <2>3, Zenon DEF ListInv
<1>5. CASE BeginList(r)
  <2>1. /\ op[r] = Idle /\ op'[r] = At("list_ledger", NoTimer, Absent) /\ UNCHANGED <<ledger, point>>
        /\ todo'[r] = Listed(ledger)
    BY <1>0, <1>2, <1>5, Zenon DEF BeginList, stores
  <2>2. op'[r] # Idle /\ op'[r].pc = "list_ledger" /\ op'[r].timer = NoTimer
    <3>1. At("list_ledger", NoTimer, Absent) # Idle
      BY Busy, Zenon
    <3>2. /\ At("list_ledger", NoTimer, Absent).pc = "list_ledger"
          /\ At("list_ledger", NoTimer, Absent).timer = NoTimer
      BY Zenon DEF At
    <3> QED
      BY <2>1, <3>1, <3>2, Zenon
  <2>3. ASSUME NEW t \in Timers, t \notin todo'[r] PROVE Leftover(r, t)'
    <3>1. ledger[t] = Absent
      BY <2>1, <2>3, Zenon DEF Listed
    <3>2. window'[r][t] = {GetTimer(t)} /\ GetTimer(t) = point[t]
      BY <1>0, <2>1, <2>2, <3>1, Opened, Zenon DEF GetTimer, Overlay
    <3>3. ASSUME NEW q \in Procs, op'[q].timer = t PROVE Owed(op'[q], window'[r][t])
      <4>1. q # r /\ op'[q] = op[q]
        BY <1>5, <2>2, <3>3, NoTimerIsNotATimer, Zenon DEF BeginList, Become, IInv, TypeOK
      <4>2. CallInv(q) /\ op[q].timer = t
        BY <3>3, <4>1, Zenon DEF IInv
      <4>3. op[q].pc \notin {"put_point", "repair_point", "delete_point", "scan_delete_point", "scan_point"}
        BY <3>1, <4>2, Zenon DEF CallInv
      <4> QED
        BY <4>1, <4>3, Zenon DEF Owed
    <3> QED
      BY <2>1, <3>2, <3>3, Zenon DEF Leftover
  <2>4. \A t \in todo'[r] : ledger'[t] # Absent
    BY <2>1, Zenon DEF Listed
  <2> QED
    BY <2>2, <2>3, <2>4, Zenon DEF ListInv, Unlisted
<1>6. ASSUME op[r].pc # "idle" PROVE op[r] # Idle
  BY <1>6, Places, Zenon
<1>7. ASSUME NEW u \in Timers, ListLedgerEntry(r, u) PROVE ListInv(r)'
  <2>1. /\ op[r].pc = "list_ledger" /\ op' = op /\ op[r] # Idle /\ todo'[r] = todo[r] \ {u}
        /\ result'[r] = result[r] \cup {<<u, Overlay(ledger[u], Absent)>>}
    BY <1>0, <1>6, <1>7, Zenon DEF ListLedgerEntry
  <2>2. <<u, Overlay(ledger[u], Absent)>>[1] = u
    OBVIOUS
  <2>3. Shadowed(r, u)'
    BY <2>1, <2>2, Zenon DEF Shadowed
  <2>4. ASSUME NEW t \in Timers, Unlisted(r, t)' PROVE Unlisted(r, t)
    BY <2>1, <2>3, <2>4, Zenon DEF Unlisted, Shadowed
  <2> QED
    BY <1>4, <2>1, <2>4, Zenon
<1>8. CASE ListPoints(r)
  <2>1. /\ op[r].pc = "list_ledger" /\ op[r] # Idle /\ op'[r] = At("list_point", NoTimer, Absent)
        /\ todo[r] = {} /\ todo'[r] = Listed(point) /\ result' = result
    BY <1>0, <1>2, <1>6, <1>8, Zenon DEF ListPoints
  <2>2. op'[r].pc = "list_point"
    <3>1. At("list_point", NoTimer, Absent).pc = "list_point"
      BY Busy, Places, Zenon
    <3> QED
      BY <2>1, <3>1, Zenon
  <2>3. ASSUME NEW t \in Timers, ~Shadowed(r, t)' PROVE Unlisted(r, t)
    BY <2>1, <2>3, Zenon DEF Unlisted, Shadowed
  <2>4. ASSUME NEW t \in Timers, ~Shadowed(r, t)', t \notin todo'[r] PROVE Absent \in window[r][t]
    <3>1. point[t] = Absent
      BY <2>1, <2>4, Zenon DEF Listed
    <3>2. Leftover(r, t)
      BY <1>0, <2>3, <2>4, Zenon DEF ListInv
    <3> QED
      BY <3>1, <3>2, Kinds, Zenon DEF Leftover
  <2> QED
    BY <1>4, <2>1, <2>2, <2>3, <2>4, Zenon DEF Unlisted
<1>9. ASSUME NEW u \in Timers, ListPoint(r, u) PROVE ListInv(r)'
  <2>1. op[r].pc = "list_point" /\ op[r] # Idle
    BY <1>6, <1>9, Zenon DEF ListPoint
  <2>2. CASE Become(r, Idle)
    BY <1>2, <1>3, <2>2, Zenon
  <2>3. CASE op' = op /\ todo'[r] = todo[r] \ {u} /\ result[r] \subseteq result'[r] /\ Shadowed(r, u)'
    <3>1. ASSUME NEW t \in Timers, ~Shadowed(r, t)' PROVE ~Shadowed(r, t) /\ t # u
      BY <2>3, <3>1, Zenon DEF Shadowed
    <3>2. ASSUME NEW t \in Timers, ~Shadowed(r, t)', t \notin todo'[r] PROVE Absent \in window[r][t]
      BY <1>0, <2>1, <2>3, <3>1, <3>2, Zenon DEF ListInv
    <3> QED
      BY <1>4, <2>1, <2>3, <3>1, <3>2, Zenon DEF Unlisted
  <2>4. CASE Shadowed(r, u) /\ op' = op /\ result' = result /\ todo' = [todo EXCEPT ![r] = @ \ {u}]
    <3>1. todo'[r] = todo[r] \ {u} /\ Shadowed(r, u)'
      BY <1>0, <2>4, Zenon DEF Shadowed
    <3> QED
      BY <2>3, <2>4, <3>1, Zenon
  <2>5. CASE /\ op' = op /\ result' = [result EXCEPT ![r] = @ \cup {<<u, point[u]>>}]
             /\ todo' = [todo EXCEPT ![r] = @ \ {u}]
    <3>1. todo'[r] = todo[r] \ {u} /\ result'[r] = result[r] \cup {<<u, point[u]>>}
      BY <1>0, <2>5, Zenon
    <3>2. <<u, point[u]>>[1] = u
      OBVIOUS
    <3> QED
      BY <2>3, <2>5, <3>1, <3>2, Zenon DEF Shadowed
  <2> QED
    BY <1>9, <2>2, <2>4, <2>5, Zenon DEF ListPoint
<1>10. CASE EndList(r) \/ Abort(r)
  BY <1>2, <1>3, <1>10, Zenon DEF EndList, Abort
<1>11. CASE op'[r] = op[r] /\ result'[r] = result[r] /\ todo'[r] = todo[r]
  <2>1. CASE op[r] = Idle
    BY <1>3, <1>11, <2>1, Zenon
  <2>2. CASE op[r] # Idle
    <3>1. \A t \in Timers : Shadowed(r, t)' <=> Shadowed(r, t)
      BY <1>11, Zenon DEF Shadowed
    <3>2. ASSUME NEW t \in Timers, op'[r].pc = "list_point", ~Shadowed(r, t)', t \notin todo'[r]
          PROVE  Absent \in window[r][t]
      BY <1>0, <1>11, <3>1, <3>2, Zenon DEF ListInv
    <3> QED
      BY <1>4, <1>11, <2>2, <3>1, <3>2, Zenon DEF Unlisted
  <2> QED
    BY <2>1, <2>2, Zenon
<1>12. r \notin Scanners
  BY RolesDisjoint, Zenon
<1> QED
  BY <1>0, <1>5, <1>7, <1>8, <1>9, <1>10, <1>11, <1>12, WhoMoves, Zenon DEF ReaderStep

(* Only the end of a scan or of a listing returns anything. *)
LEMMA WhoReturns ==
  ASSUME Step
  PROVE  out' = out \/ (\E s \in Scanners : EndScan(s)) \/ \E r \in Readers : EndList(r)
<1>1. ASSUME (\E u \in Timers : DamagePoint(u)) \/ EndWorkflow \/ ClockTick PROVE out' = out
  BY <1>1, Zenon DEF DamagePoint, EndWorkflow, ClockTick, locals
<1>2. ASSUME NEW q \in Writers, WriterStep(q) PROVE out' = out
  BY <1>2, Zenon DEF WriterStep, BeginPut, BeginDelete, DeleteReadLedger, DeleteReadPoint, PutTombstone,
     PutLedger, PutPoint, DeletePoint, locals
<1>3. ASSUME NEW s \in Scanners, ScannerStep(s) PROVE out' = out \/ EndScan(s)
  BY <1>3, Zenon DEF ScannerStep, PutLedger, PutPoint, DeletePoint, BeginScan, ScanPoint, ScanParent,
     ScanEntry, locals
<1>4. ASSUME NEW r \in Readers, ReaderStep(r) PROVE out' = out \/ EndList(r)
  BY <1>4, Zenon DEF ReaderStep, BeginList, ListPoints, ListLedgerEntry, ListPoint
<1>5. ASSUME NEW q \in Procs, Abort(q) PROVE out' = out
  BY <1>5, Zenon DEF Abort
<1> QED
  BY <1>1, <1>2, <1>3, <1>4, <1>5, Zenon DEF Step

LEMMA VisibleStep == IInv /\ VisibleInv /\ [Next]_vars => VisibleInv'
<1>1. ASSUME IInv, VisibleInv, Next PROVE VisibleInv'
  <2>1. DOMAIN out' = DOMAIN out
    <3>1. out' = out \/ \E p, v : out' = [out EXCEPT ![p] = v]
      BY <1>1, WhoReturns, Zenon DEF Next, EndScan, EndList
    <3> QED
      BY <3>1, Zenon
  <2> QED
    BY <1>1, <2>1, ViewStep, ListStep, Zenon DEF VisibleInv
<1>2. ASSUME VisibleInv, UNCHANGED vars PROVE VisibleInv'
  <2>1. UNCHANGED <<ledger, point, op, todo, result, window, out>>
    BY <1>2, Zenon DEF vars, stores, locals
  <2>2. ASSUME NEW p, ViewInv(p) PROVE ViewInv(p)'
    BY <2>1, <2>2, Zenon DEF ViewInv, GetTimer
  <2>3. ASSUME NEW r, ListInv(r) PROVE ListInv(r)'
    BY <2>1, <2>3, Zenon DEF ListInv, Unlisted, Leftover, Owed, Shadowed
  <2> QED
    BY <1>2, <2>1, <2>2, <2>3, Zenon DEF VisibleInv
<1> QED
  BY <1>1, <1>2, Zenon

(* The invariant holds of every behaviour. *)
LEMMA Invariance == Spec => []IInv
<1> QED
  BY InitIInv, StepIInv, PTL DEF Spec

(* TypeOK for every instance: in particular what PutTimer writes to a point  *)
(* and what a repairing scan copies there is always a complete record.       *)
THEOREM TypeCorrect == Spec => []TypeOK
<1>1. IInv => TypeOK
  BY Zenon DEF IInv
<1> QED
  BY <1>1, Invariance, PTL

(* PutTimer, DeleteTimer and DueTimers, each a series of separate writes to  *)
(* two objects with crashes between them, show every reader one register per *)
(* timer: RegisterSpec for any number of processes and timers.               *)
THEOREM LedgerImplementsRegister == Spec => RegisterSpec
<1> QED
  BY InitRefines, StepRefines, Invariance, PTL DEF Spec, RegisterSpec, Register!Spec

(* What DueTimers and ListTimers return about a timer, and that they leave   *)
(* one out, is true of some moment of the call, for any number of writers    *)
(* that interleave with it and crash between their two writes.               *)
THEOREM ReturnedValuesWereVisible == Spec => ReturnedWasVisible
<1>1. ASSUME IInv, VisibleInv, Next, NEW p \in Procs, out'[p] # out[p], NEW x \in out'[p]
      PROVE  x[2] \in window[p][x[1]]
  <2>1. ASSUME NEW s \in Scanners, EndScan(s) PROVE x[2] \in window[p][x[1]]
    <3>1. out' = [out EXCEPT ![s] = result[s]] /\ DOMAIN out = Procs /\ ViewInv(s)
      BY <1>1, <2>1, Zenon DEF EndScan, VisibleInv
    <3>2. p = s /\ out'[p] = result[s]
      BY <1>1, <3>1, Zenon
    <3> QED
      BY <1>1, <3>1, <3>2, Zenon DEF ViewInv
  <2>2. ASSUME NEW r \in Readers, EndList(r) PROVE x[2] \in window[p][x[1]]
    <3>1. /\ out' = [out EXCEPT ![r] = result[r] \cup {<<t, Absent>> : t \in {u \in Timers : ~Shadowed(r, u)}}]
          /\ op[r].pc = "list_point" /\ todo[r] = {} /\ DOMAIN out = Procs /\ ViewInv(r) /\ ListInv(r)
      BY <1>1, <2>2, Zenon DEF EndList, VisibleInv
    <3>2. p = r /\ out'[p] = result[r] \cup {<<t, Absent>> : t \in {u \in Timers : ~Shadowed(r, u)}}
      BY <1>1, <3>1, Zenon
    <3>3. CASE x \in result[r]
      BY <3>1, <3>2, <3>3, Zenon DEF ViewInv
    <3>4. ASSUME NEW t \in Timers, x = <<t, Absent>>, ~Shadowed(r, t) PROVE x[2] \in window[p][x[1]]
      <4>1. Absent \in window[r][t]
        BY <3>1, <3>4, Zenon DEF ListInv
      <4>2. x[1] = t /\ x[2] = Absent
        BY <3>4
      <4> QED
        BY <3>2, <4>1, <4>2, Zenon
    <3> QED
      BY <1>1, <3>2, <3>3, <3>4, Zenon
  <2> QED
    BY <1>1, <2>1, <2>2, WhoReturns, Zenon DEF Next
<1>2. IInv /\ VisibleInv /\ [Next]_vars =>
        [\A p \in Procs : out'[p] # out[p] => \A x \in out'[p] : x[2] \in window[p][x[1]]]_vars
  BY <1>1, Zenon
<1> QED
  BY <1>2, InitVisible, VisibleStep, Invariance, PTL DEF Spec, ReturnedWasVisible
=============================================================================
