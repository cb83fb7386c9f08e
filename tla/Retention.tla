----------------------------- MODULE Retention -----------------------------
(***************************************************************************)
(* Deletion of workflow runs: the janitor's Sweep (adapters/go/janitor)    *)
(* over candidates of a query that may lag, and DeleteRun of the record    *)
(* store service (adapters/go/connectstore).  Both list the records of a   *)
(* run, validate every listed key, and only then delete the claims, the    *)
(* activities, the timers, the events and, last, the workflow record.      *)
(*                                                                         *)
(* Neither is a transaction: any call may fail, its answer may be lost,    *)
(* and several sweeps and DeleteRuns may run at once.  As documented, a    *)
(* run is quiesced while it is being deleted: until then its workers and   *)
(* event senders write as they like.                                       *)
(***************************************************************************)
EXTENDS Naturals, Sequences

CONSTANTS
  Runs,
  Sweepers,     \* processes that call Sweep
  Operators,    \* clients that call DeleteRun
  Used,         \* the kinds of record that the workflow bodies write
  Nobody,
  MaxDamage,    \* bound on misplaced records
  MaxFaults     \* bound on failed calls

Callers == Sweepers \cup Operators

(* The order of deletion. *)
Kinds == <<"claim", "activity", "timer", "event">>
Kind == {Kinds[i] : i \in DOMAIN Kinds}

ASSUME UsedKinds == Used \subseteq Kind
ASSUME NobodyIsNoRun == Nobody \notin Runs
ASSUME BoundsAreNat == MaxDamage \in Nat /\ MaxFaults \in Nat

VARIABLES
  status,   \* the stored workflow record; OLD is COMPLETED before the cutoff
  listing,  \* for each run and kind, the run that the listed record's key names
  row,      \* runs that the query returns as COMPLETED
  call,     \* the call of each caller
  damage, faults

data == <<status, listing>>
vars == <<data, row, call, damage, faults>>

(* held: the runs the caller has quiesced; todo: candidates not yet read;    *)
(* plan: runs to be deleted, with the keys their listings gave.              *)
Idle == [pc |-> "idle", held |-> {}, todo |-> {}, plan |-> <<>>]

Init ==
  /\ status = [r \in Runs |-> "NONE"]
  /\ listing = [r \in Runs |-> [k \in Kind |-> Nobody]]
  /\ row = {}
  /\ call = [c \in Callers |-> Idle]
  /\ damage = 0 /\ faults = 0

Quiesced(r) == \E c \in Callers : r \in call[c].held

Become(c, new) == call' = [call EXCEPT ![c] = new]

-----------------------------------------------------------------------------
(* The runs and their surroundings *)

StartRun(r) ==
  /\ ~Quiesced(r) /\ status[r] = "NONE"
  /\ status' = [status EXCEPT ![r] = "IN_PROGRESS"]
  /\ UNCHANGED <<listing, row, call, damage, faults>>

WriteRecord(r, k) ==
  /\ ~Quiesced(r) /\ status[r] = "IN_PROGRESS" /\ listing[r][k] = Nobody
  /\ listing' = [listing EXCEPT ![r][k] = r]
  /\ UNCHANGED <<status, row, call, damage, faults>>

CompleteRun(r) ==
  /\ ~Quiesced(r) /\ status[r] = "IN_PROGRESS"
  /\ status' = [status EXCEPT ![r] = "COMPLETED"]
  /\ UNCHANGED <<listing, row, call, damage, faults>>

Age(r) ==
  /\ status[r] = "COMPLETED"
  /\ status' = [status EXCEPT ![r] = "OLD"]
  /\ UNCHANGED <<listing, row, call, damage, faults>>

(* The index behind the query catches up with one run. *)
Reindex(r) ==
  /\ row' = IF status[r] \in {"COMPLETED", "OLD"} THEN row \cup {r} ELSE row \ {r}
  /\ UNCHANGED <<data, call, damage, faults>>

(* Something else puts a record of another run under this run's prefix, *)
Misplace(r, k, other) ==
  /\ ~Quiesced(r) /\ damage < MaxDamage /\ other # r
  /\ listing' = [listing EXCEPT ![r][k] = other]
  /\ damage' = damage + 1
  /\ UNCHANGED <<status, row, call, faults>>

(* and an operator removes it. *)
Repair(r, k) ==
  /\ listing[r][k] \notin {r, Nobody}
  /\ listing' = [listing EXCEPT ![r][k] = Nobody]
  /\ UNCHANGED <<status, row, call, damage, faults>>

-----------------------------------------------------------------------------
(* Choosing what to delete *)

Eligible == {r \in Runs : status[r] = "OLD"}

(* Sweep: the query's COMPLETED rows are the candidates.  The cutoff is that *)
(* of the start.                                                             *)
ListWorkflows(c) ==
  /\ c \in Sweepers /\ call[c] = Idle
  /\ Become(c, [Idle EXCEPT !.pc = "plan", !.held = Eligible, !.todo = row])
  /\ UNCHANGED <<data, row, damage, faults>>

(* snapshotRun: what the run's listings name. *)
Snapshot(r) == {<<listing[r][k], k>> : k \in {j \in Kind : listing[r][j] # Nobody}}

(* validateListedRunRecordKey, for every listed record. *)
Valid(r) == \A key \in Snapshot(r) : key[1] = r

(* Mutant of Examine: the row of the query is believed. *)
ExamineTrustsRow(c, r) ==
  /\ call[c].pc = "plan" /\ r \in call[c].todo
  /\ IF Valid(r)
       THEN Become(c, [call[c] EXCEPT !.todo = @ \ {r},
                                      !.plan = Append(@, [run |-> r, keys |-> Snapshot(r)])])
       ELSE Become(c, Idle)
  /\ UNCHANGED <<data, row, damage, faults>>

(* Mutant of Examine: a candidate that is gone is an error. *)
ExamineMissing(c, r) ==
  /\ call[c].pc = "plan" /\ r \in call[c].todo
  /\ LET eligible == status[r] = "OLD" /\ r \in call[c].held
     IN \/ ~eligible /\ status[r] # "NONE" /\ Become(c, [call[c] EXCEPT !.todo = @ \ {r}])
        \/ eligible /\ Valid(r)
           /\ Become(c, [call[c] EXCEPT !.todo = @ \ {r},
                                        !.plan = Append(@, [run |-> r, keys |-> Snapshot(r)])])
        \/ (status[r] = "NONE" \/ (eligible /\ ~Valid(r))) /\ Become(c, Idle)
  /\ UNCHANGED <<data, row, damage, faults>>

(* The authoritative record decides about a candidate: it is skipped, added  *)
(* to the plan, or it ends the sweep with an error.                          *)
Examine(c, r) ==
  /\ call[c].pc = "plan" /\ r \in call[c].todo
  /\ LET eligible == status[r] = "OLD" /\ r \in call[c].held
     IN \/ ~eligible /\ Become(c, [call[c] EXCEPT !.todo = @ \ {r}])
        \/ eligible /\ Valid(r)
           /\ Become(c, [call[c] EXCEPT !.todo = @ \ {r},
                                        !.plan = Append(@, [run |-> r, keys |-> Snapshot(r)])])
        \/ eligible /\ ~Valid(r) /\ Become(c, Idle)
  /\ UNCHANGED <<data, row, damage, faults>>

(* Nothing is deleted before every candidate has been examined. *)
Planned(c) ==
  /\ call[c].pc = "plan" /\ call[c].todo = {}
  /\ Become(c, IF call[c].plan = <<>> THEN Idle ELSE [call[c] EXCEPT !.pc = "delete"])
  /\ UNCHANGED <<data, row, damage, faults>>

(* The client quiesces a run and calls DeleteRun, whatever its status. *)
DeleteRun(c, r) ==
  /\ c \in Operators /\ call[c] = Idle
  /\ Become(c, [Idle EXCEPT !.pc = "quiesced", !.held = {r}])
  /\ UNCHANGED <<data, row, damage, faults>>

DeleteRunSnapshot(c) ==
  /\ call[c].pc = "quiesced"
  /\ \E r \in call[c].held :
       Become(c, IF Valid(r)
                   THEN [call[c] EXCEPT !.pc = "erase", !.plan = <<[run |-> r, keys |-> Snapshot(r)]>>]
                   ELSE Idle)
  /\ UNCHANGED <<data, row, damage, faults>>

-----------------------------------------------------------------------------
(* Deleting *)

(* DeleteClaim, DeleteActivity, DeleteTimer, DeleteEvent of a listed key. *)
DeleteRecord(key) ==
  /\ listing' = [listing EXCEPT ![key[1]][key[2]] = Nobody]
  /\ UNCHANGED status

DeleteWorkflow(r) ==
  /\ status' = [status EXCEPT ![r] = "NONE"]
  /\ UNCHANGED listing

(* The first key in the order of deletion. *)
First(keys) ==
  CHOOSE key \in keys : \E i \in DOMAIN Kinds :
    Kinds[i] = key[2] /\ \A j \in 1..(i - 1) : \A other \in keys : other[2] # Kinds[j]

(* Mutant of DeleteEntry: the workflow record does not wait for the others. *)
DeleteEarly(entry) ==
  \/ entry.keys # {} /\ DeleteRecord(First(entry.keys))
  \/ DeleteWorkflow(entry.run)

DeleteEntry(entry) ==
  \/ entry.keys # {} /\ DeleteRecord(First(entry.keys))
  \/ entry.keys = {} /\ DeleteWorkflow(entry.run)

(* The plan after one deletion. *)
Rest(plan) ==
  IF Head(plan).keys = {} THEN Tail(plan)
  ELSE <<[Head(plan) EXCEPT !.keys = @ \ {First(@)}]>> \o Tail(plan)

Deleting(c) == call[c].pc \in {"delete", "erase"}

(* deleteRun, one record per step. *)
DeleteNext(c) ==
  /\ Deleting(c)
  /\ DeleteEntry(Head(call[c].plan))
  /\ LET rest == Rest(call[c].plan)
     IN Become(c, IF rest = <<>> THEN Idle ELSE [call[c] EXCEPT !.plan = rest])
  /\ UNCHANGED <<row, damage, faults>>

(* Any listing, read or deletion may fail; a failed deletion may have        *)
(* happened.  The first error ends the call.                                 *)
Fail(c) ==
  /\ call[c] # Idle /\ faults < MaxFaults /\ faults' = faults + 1
  /\ \/ UNCHANGED data
     \/ Deleting(c) /\ DeleteEntry(Head(call[c].plan))
  /\ Become(c, Idle)
  /\ UNCHANGED <<row, damage>>

-----------------------------------------------------------------------------

Step(c) ==
  \/ (\E r \in Runs : Examine(c, r)) \/ Planned(c) \/ DeleteRunSnapshot(c) \/ DeleteNext(c)

Next ==
  \/ \E r \in Runs :
       \/ StartRun(r) \/ CompleteRun(r) \/ Age(r) \/ Reindex(r)
       \/ \E k \in Used : WriteRecord(r, k) \/ Repair(r, k) \/ \E other \in Runs : Misplace(r, k, other)
  \/ \E c \in Callers : ListWorkflows(c) \/ Step(c) \/ Fail(c) \/ \E r \in Runs : DeleteRun(c, r)

Spec == Init /\ [][Next]_vars

(* Sweeps are started periodically and calls go on.  The index eventually    *)
(* has a row for a completed run; a row of a run that is gone may stay.      *)
Fairness ==
  /\ \A c \in Sweepers : WF_vars(ListWorkflows(c) \/ Step(c))
  /\ \A c \in Operators : WF_vars(Step(c))
  /\ \A r \in Runs : WF_vars(status[r] \in {"COMPLETED", "OLD"} /\ Reindex(r))

FairSpec == Spec /\ Fairness

-----------------------------------------------------------------------------
(* Properties *)

Key == Runs \X Kind
Entry == [run : Runs, keys : SUBSET Key]

(* Types of the stored records, of the index and of every call. *)
TypeOK ==
  /\ status \in [Runs -> {"NONE", "IN_PROGRESS", "COMPLETED", "OLD"}]
  /\ listing \in [Runs -> [Kind -> Runs \cup {Nobody}]]
  /\ row \subseteq Runs
  /\ \A c \in Callers :
       /\ call[c].pc \in {"idle", "plan", "quiesced", "delete", "erase"}
       /\ Deleting(c) => call[c].plan # <<>>
       /\ call[c].held \subseteq Runs /\ call[c].todo \subseteq Runs
       /\ call[c].plan \in Seq(Entry)
  /\ damage \in 0..MaxDamage /\ faults \in 0..MaxFaults

(* Sweep takes no record from a run that is not COMPLETED past the cutoff:   *)
(* a stale row, a run started again under the same key, a record of another  *)
(* run among the listed ones and a second sweep with an older plan never     *)
(* make it delete from a live run.  Only DeleteRun may do that.              *)
SweepSparesLiveRuns ==
  [][\A r \in Runs :
       \/ status[r] = "OLD"
       \/ \E c \in Operators : call[c].pc = "erase" /\ r \in call[c].held
       \/ /\ status[r] # "NONE" => status'[r] # "NONE"
          /\ \A k \in Kind : listing[r][k] = r => listing'[r][k] # Nobody]_vars

(* Whatever fails, no record outlives the workflow record of its run: the    *)
(* next sweep or DeleteRun still finds everything that is left.  And a call  *)
(* that deletes always has a plan.                                           *)
NoOrphans ==
  /\ TypeOK
  /\ \A r \in Runs : status[r] = "NONE" => \A k \in Kind : listing[r][k] # r

(* A run past the cutoff is eventually deleted, through failures of any      *)
(* call, stale rows and concurrent sweeps, unless a misplaced record makes   *)
(* every sweep refuse.                                                       *)
ExpiredRunsGo ==
  \A r \in Runs :
    status[r] = "OLD" ~> (status[r] # "OLD" \/ \E q \in Runs : status[q] = "OLD" /\ ~Valid(q))
=============================================================================
