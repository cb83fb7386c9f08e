--------------------------- MODULE OperatorProofs ---------------------------
(***************************************************************************)
(* Proofs, for any number of runs, sweepers, clients of DeleteRun, faults  *)
(* and misplaced records, that no record outlives the workflow record of   *)
(* its run and that a sweep takes nothing from a live run.                 *)
(*                                                                         *)
(* NoOrphans is not inductive: a caller deletes by a plan that it made     *)
(* some time ago.  PlanInv says what a plan still guarantees: its runs are *)
(* quiesced by the caller, every record that is left of such a run is      *)
(* among the keys of its entry, those keys all name that run, and a run in *)
(* the plan of a sweep is past the cutoff or gone already.                 *)
(*                                                                         *)
(* A proof that the description of a run, for any timers and number of     *)
(* invocations, calls no run stuck that was not: see DescriptionInv.       *)
(*                                                                         *)
(* And a proof that the cache which a run puts before its store tells the  *)
(* truth, for any branches, records and values: see CacheInv.              *)
(***************************************************************************)
EXTENDS Retention, RunDescription, RunCache, TLAPS

(* What the entry of a plan guarantees to a caller that holds the runs h, *)
(* when the listings are l.                                               *)
Covers(e, h, l) ==
  /\ e.run \in h
  /\ \A k \in Kind : l[e.run][k] = e.run => <<e.run, k>> \in e.keys
  /\ \A key \in e.keys : key[1] = e.run

Gone(s, r) == s[r] \in {"OLD", "NONE"}

PlanInv(c) ==
  /\ \A i \in 1..Len(call[c].plan) : Covers(call[c].plan[i], call[c].held, listing)
  /\ call[c].pc \in {"plan", "delete"} =>
       \A i \in 1..Len(call[c].plan) : Gone(status, call[c].plan[i].run)
  /\ call[c].pc \in {"quiesced", "erase"} => c \in Operators
  /\ Deleting(c) => call[c].plan # <<>>

CallType ==
  [pc : {"idle", "plan", "quiesced", "delete", "erase"}, held : SUBSET Runs, todo : SUBSET Runs,
   plan : Seq(Entry)]

Status == {"NONE", "IN_PROGRESS", "COMPLETED", "OLD"}

StoreInv ==
  /\ status \in [Runs -> Status]
  /\ listing \in [Runs -> [Kind -> Runs \cup {Nobody}]]
  /\ \A r \in Runs : status[r] = "NONE" => \A k \in Kind : listing[r][k] # r

CountInv == row \subseteq Runs /\ damage \in 0..MaxDamage /\ faults \in 0..MaxFaults

IInv ==
  /\ StoreInv
  /\ CountInv
  /\ call \in [Callers -> CallType]
  /\ \A c \in Callers : PlanInv(c)

-----------------------------------------------------------------------------
(* Sequences and keys *)

LEMMA PlanHead ==
  ASSUME NEW S, NEW s \in Seq(S), s # <<>>
  PROVE  /\ Len(s) \in Nat /\ Len(s) > 0 /\ Head(s) = s[1] /\ s[1] \in S
         /\ Tail(s) \in Seq(S) /\ Len(Tail(s)) = Len(s) - 1
         /\ \A i \in 1..Len(Tail(s)) : Tail(s)[i] = s[i + 1]
<1>1. Len(s) \in Nat /\ Len(s) > 0 /\ \A i \in 1..Len(s) : s[i] \in S
  OBVIOUS
<1>2. Head(s) = s[1] /\ Tail(s) \in Seq(S) /\ Len(Tail(s)) = Len(s) - 1
  OBVIOUS
<1>3. \A i \in 1..Len(Tail(s)) : Tail(s)[i] = s[i + 1]
  OBVIOUS
<1> QED
  BY <1>1, <1>2, <1>3

LEMMA PlanJoined ==
  ASSUME NEW S, NEW s \in Seq(S), NEW t \in Seq(S)
  PROVE  /\ s \o t \in Seq(S) /\ Len(s \o t) = Len(s) + Len(t)
         /\ \A i \in 1..Len(s) + Len(t) : (s \o t)[i] = IF i <= Len(s) THEN s[i] ELSE t[i - Len(s)]
  OBVIOUS

LEMMA PlanAppended ==
  ASSUME NEW S, NEW s \in Seq(S), NEW e \in S
  PROVE  /\ Append(s, e) \in Seq(S) /\ Len(Append(s, e)) = Len(s) + 1
         /\ Append(s, e)[Len(s) + 1] = e /\ \A i \in 1..Len(s) : Append(s, e)[i] = s[i]
  OBVIOUS

LEMMA KindIs == Kind = {"claim", "activity", "timer", "event"}
<1>1. DOMAIN Kinds = 1..4 /\ Kinds[1] = "claim" /\ Kinds[2] = "activity" /\ Kinds[3] = "timer"
      /\ Kinds[4] = "event"
  BY DEF Kinds
<1> QED
  BY <1>1 DEF Kind

(* The first key to be deleted is one of the keys. *)
LEMMA FirstIsOne ==
  ASSUME NEW keys \in SUBSET Key, keys # {} PROVE First(keys) \in keys
<1>0. DOMAIN Kinds = 1..4 /\ Kinds[1] = "claim" /\ Kinds[2] = "activity" /\ Kinds[3] = "timer"
      /\ Kinds[4] = "event"
  BY DEF Kinds
<1> DEFINE IsFirst(key) == \E i \in DOMAIN Kinds :
             Kinds[i] = key[2] /\ \A j \in 1..(i - 1) : \A other \in keys : other[2] # Kinds[j]
<1>1. \A key \in keys : key[2] \in {"claim", "activity", "timer", "event"}
  BY KindIs, Zenon DEF Key
<1>2. CASE \E key \in keys : key[2] = "claim"
  <2>1. PICK key \in keys : key[2] = "claim"
    BY <1>2, Zenon
  <2>2. IsFirst(key)
    BY <1>0, <2>1
  <2> QED
    BY <2>1, <2>2, Zenon DEF First
<1>3. CASE (\A key \in keys : key[2] # "claim") /\ \E key \in keys : key[2] = "activity"
  <2>1. PICK key \in keys : key[2] = "activity"
    BY <1>3, Zenon
  <2>2. \A j \in 1..(2 - 1) : \A other \in keys : other[2] # Kinds[j]
    BY <1>0, <1>3
  <2>3. IsFirst(key)
    BY <1>0, <2>1, <2>2
  <2> QED
    BY <2>1, <2>3, Zenon DEF First
<1>4. CASE /\ \A key \in keys : key[2] \notin {"claim", "activity"}
           /\ \E key \in keys : key[2] = "timer"
  <2>1. PICK key \in keys : key[2] = "timer"
    BY <1>4, Zenon
  <2>2. \A j \in 1..(3 - 1) : \A other \in keys : other[2] # Kinds[j]
    BY <1>0, <1>4
  <2>3. IsFirst(key)
    BY <1>0, <2>1, <2>2
  <2> QED
    BY <2>1, <2>3, Zenon DEF First
<1>5. CASE \A key \in keys : key[2] = "event"
  <2>1. PICK key \in keys : TRUE
    OBVIOUS
  <2>2. \A j \in 1..(4 - 1) : \A other \in keys : other[2] # Kinds[j]
    BY <1>0, <1>5
  <2>3. IsFirst(key)
    BY <1>0, <1>5, <2>1, <2>2
  <2> QED
    BY <2>1, <2>3, Zenon DEF First
<1> QED
  BY <1>1, <1>2, <1>3, <1>4, <1>5, Zenon

LEMMA LessKeys ==
  ASSUME NEW e \in Entry, NEW K \in SUBSET Key
  PROVE  [e EXCEPT !.keys = K] = [run |-> e.run, keys |-> K] /\ [run |-> e.run, keys |-> K] \in Entry
  BY DEF Entry

(* What is left of a plan after one deletion: the entries behind the first,  *)
(* and the first without the key that was deleted.                           *)
LEMMA RestIsPlan ==
  ASSUME NEW plan \in Seq(Entry), plan # <<>>
  PROVE  /\ Rest(plan) \in Seq(Entry)
         /\ \A i \in 1..Len(Rest(plan)) :
              \/ \E j \in 1..Len(plan) : Rest(plan)[i] = plan[j]
              \/ /\ plan[1].keys # {}
                 /\ Rest(plan)[i] = [run |-> plan[1].run, keys |-> plan[1].keys \ {First(plan[1].keys)}]
         /\ plan[1].keys # {} => Rest(plan)[1] =
              [run |-> plan[1].run, keys |-> plan[1].keys \ {First(plan[1].keys)}]
         /\ plan[1].keys # {} => \A i \in 2..Len(Rest(plan)) : i \in 1..Len(plan) /\ Rest(plan)[i] = plan[i]
<1>1. /\ Len(plan) \in Nat /\ Len(plan) > 0 /\ Head(plan) = plan[1] /\ plan[1] \in Entry
      /\ Tail(plan) \in Seq(Entry) /\ Len(Tail(plan)) = Len(plan) - 1
      /\ \A i \in 1..Len(Tail(plan)) : Tail(plan)[i] = plan[i + 1]
  BY PlanHead, Zenon
<1>2. CASE plan[1].keys = {}
  <2>1. Rest(plan) = Tail(plan)
    BY <1>1, <1>2, Zenon DEF Rest
  <2> QED
    BY <1>1, <1>2, <2>1
<1>3. CASE plan[1].keys # {}
  <2> DEFINE K == plan[1].keys \ {First(plan[1].keys)}
  <2> DEFINE e == [plan[1] EXCEPT !.keys = K]
  <2>1. Rest(plan) = <<e>> \o Tail(plan)
    BY <1>1, <1>3, Zenon DEF Rest
  <2>2. e \in Entry /\ e = [run |-> plan[1].run, keys |-> K]
    <3>1. plan[1] \in Entry /\ K \in SUBSET Key
      BY <1>1, Zenon DEF Entry
    <3> HIDE DEF K
    <3> QED
      BY <3>1, LessKeys, ZenonT(60)
  <2>3. <<e>> \in Seq(Entry) /\ Len(<<e>>) = 1 /\ <<e>>[1] = e
    BY <2>2
  <2> HIDE DEF e
  <2>4. /\ Rest(plan) \in Seq(Entry) /\ Len(Rest(plan)) = Len(plan)
        /\ Rest(plan)[1] = e
        /\ \A i \in 2..Len(plan) : Rest(plan)[i] = plan[i]
    <3> DEFINE t == Tail(plan)
    <3>1. t \in Seq(Entry) /\ Len(t) = Len(plan) - 1 /\ \A i \in 1..Len(t) : t[i] = plan[i + 1]
      BY <1>1, Zenon
    <3> DEFINE s == <<e>>
    <3>2. s \in Seq(Entry) /\ Len(s) = 1 /\ s[1] = e
      BY <2>3, Zenon
    <3> HIDE DEF t, s
    <3>3. /\ s \o t \in Seq(Entry) /\ Len(s \o t) = Len(s) + Len(t)
          /\ \A i \in 1..Len(s) + Len(t) : (s \o t)[i] = IF i <= Len(s) THEN s[i] ELSE t[i - Len(s)]
      <4>1. s \in Seq(Entry) /\ t \in Seq(Entry)
        BY <3>1, <3>2, Zenon
      <4> QED
        BY <4>1, PlanJoined, Zenon
    <3>4. Rest(plan) = s \o t
      BY <2>1, Zenon DEF s, t
    <3>5. Len(s \o t) = Len(plan) /\ (s \o t)[1] = e
      BY <1>1, <3>1, <3>2, <3>3
    <3>6. ASSUME NEW i \in 2..Len(plan) PROVE (s \o t)[i] = plan[i]
      <4>1. (s \o t)[i] = t[i - 1] /\ i - 1 \in 1..Len(t)
        BY <1>1, <3>1, <3>2, <3>3
      <4> QED
        BY <3>1, <4>1
    <3> QED
      BY <3>3, <3>4, <3>5, <3>6, Zenon
  <2> QED
    BY <1>1, <1>3, <2>2, <2>4
<1> QED
  BY <1>2, <1>3, Zenon

-----------------------------------------------------------------------------
(* What a step leaves of a plan *)

(* A step of the rest of the system keeps what a plan guarantees, when it    *)
(* adds no record to a quiesced run and restarts none.                       *)
LEMMA PlanKept ==
  ASSUME NEW c \in Callers, call \in [Callers -> CallType], PlanInv(c), call'[c] = call[c],
         \A r \in call[c].held : /\ \A k \in Kind : listing'[r][k] = r => listing[r][k] = r
                                 /\ Gone(status, r) => Gone(status', r)
  PROVE  PlanInv(c)'
<1> DEFINE p == call[c].plan
<1> DEFINE h == call[c].held
<1>1. \A i \in 1..Len(p) : Covers(p[i], h, listing)
  BY Zenon DEF PlanInv
<1>2. \A i \in 1..Len(p) : p[i].run \in h
  BY <1>1, Zenon DEF Covers
<1>3. \A i \in 1..Len(p) : Covers(p[i], h, listing')
  BY <1>1 DEF Covers
<1>4. call[c].pc \in {"plan", "delete"} => \A i \in 1..Len(p) : Gone(status', p[i].run)
  BY <1>2, Zenon DEF PlanInv
<1> QED
  BY <1>3, <1>4, Zenon DEF PlanInv, Deleting

LEMMA Becomes ==
  ASSUME call \in [Callers -> CallType], NEW c \in Callers, NEW new \in CallType, Become(c, new)
  PROVE  /\ call' \in [Callers -> CallType] /\ call'[c] = new
         /\ \A d \in Callers \ {c} : call'[d] = call[d]
  BY Zenon DEF Become

LEMMA IdleIsCall == Idle \in CallType
<1>1. <<>> \in Seq(Entry)
  OBVIOUS
<1> QED
  BY <1>1, Zenon DEF Idle, CallType

(* A caller that has become idle has nothing to delete. *)
LEMMA IdleHasNoPlan ==
  ASSUME NEW c \in Callers, call'[c] = Idle PROVE PlanInv(c)'
<1>1. Len(call'[c].plan) = 0 /\ call'[c].pc = "idle"
  BY DEF Idle
<1>2. 1..0 = {}
  OBVIOUS
<1> QED
  BY <1>1, <1>2, Zenon DEF PlanInv, Deleting

(* What one deletion by the entry of a plan does to the store. *)
LEMMA Deletes ==
  ASSUME StoreInv, NEW e \in Entry, NEW h, Covers(e, h, listing), DeleteEntry(e)
  PROVE  /\ StoreInv'
         /\ \A r \in Runs, k \in Kind : listing'[r][k] = r => listing[r][k] = r
         /\ \A r \in Runs : Gone(status, r) => Gone(status', r)
         /\ \A r \in Runs \ {e.run} : status'[r] = status[r] /\ listing'[r] = listing[r]
         /\ e.keys # {} => /\ First(e.keys) \in Key /\ status' = status
                           /\ listing'[e.run][First(e.keys)[2]] = Nobody
<1>1. e.run \in Runs /\ e.keys \in SUBSET Key
  BY Zenon DEF Entry
<1>2. CASE e.keys # {} /\ DeleteRecord(First(e.keys))
  <2>1. First(e.keys) \in e.keys
    BY <1>1, <1>2, FirstIsOne, Zenon
  <2> DEFINE k0 == First(e.keys)[2]
  <2>2. First(e.keys) \in Key /\ First(e.keys)[1] = e.run /\ k0 \in Kind
    BY <1>1, <2>1, Zenon DEF Covers, Key
  <2>3. listing' = [listing EXCEPT ![e.run][k0] = Nobody] /\ status' = status
    BY <1>2, <2>2, Zenon DEF DeleteRecord
  <2> HIDE DEF k0
  <2>4. /\ listing' \in [Runs -> [Kind -> Runs \cup {Nobody}]]
        /\ \A r \in Runs, k \in Kind :
             listing'[r][k] = IF r = e.run /\ k = k0 THEN Nobody ELSE listing[r][k]
        /\ \A r \in Runs \ {e.run} : listing'[r] = listing[r]
    BY <1>1, <2>2, <2>3, Zenon DEF StoreInv
  <2>5. \A r \in Runs, k \in Kind : listing'[r][k] = r => listing[r][k] = r
    BY <2>4, NobodyIsNoRun
  <2>6. StoreInv'
    BY <2>3, <2>4, <2>5 DEF StoreInv
  <2>7. listing'[e.run][k0] = Nobody
    BY <1>1, <2>2, <2>4, Zenon
  <2> QED
    BY <2>2, <2>3, <2>4, <2>5, <2>6, <2>7 DEF k0
<1>3. CASE e.keys = {} /\ DeleteWorkflow(e.run)
  <2>1. status' = [status EXCEPT ![e.run] = "NONE"] /\ listing' = listing
    BY <1>3, Zenon DEF DeleteWorkflow
  <2>2. /\ status' \in [Runs -> Status]
        /\ \A r \in Runs : status'[r] = IF r = e.run THEN "NONE" ELSE status[r]
    BY <1>1, <2>1, Zenon DEF StoreInv, Status
  <2>3. \A k \in Kind : listing[e.run][k] # e.run
    BY <1>3, Zenon DEF Covers
  <2>4. StoreInv'
    BY <2>1, <2>2, <2>3, Zenon DEF StoreInv
  <2> QED
    BY <1>3, <2>1, <2>2, <2>4, Zenon DEF Gone
<1> QED
  BY <1>2, <1>3, Zenon DEF DeleteEntry

(* A snapshot that validates covers the run. *)
LEMMA SnapshotCovers ==
  ASSUME StoreInv, NEW r \in Runs, Valid(r), NEW h, r \in h
  PROVE  /\ [run |-> r, keys |-> Snapshot(r)] \in Entry
         /\ Covers([run |-> r, keys |-> Snapshot(r)], h, listing)
<1>1. \A key \in Snapshot(r) : \E k \in Kind : key = <<listing[r][k], k>> /\ listing[r][k] # Nobody
  BY Zenon DEF Snapshot
<1>2. \A k \in Kind : listing[r][k] \in Runs \cup {Nobody}
  BY DEF StoreInv
<1>3. Snapshot(r) \in SUBSET Key
  BY <1>1, <1>2 DEF Key
<1>4. \A key \in Snapshot(r) : key[1] = r
  BY Zenon DEF Valid
<1>5. ASSUME NEW k \in Kind, listing[r][k] = r PROVE <<r, k>> \in Snapshot(r)
  BY <1>5, NobodyIsNoRun, Zenon DEF Snapshot
<1> DEFINE K == Snapshot(r)
<1> HIDE DEF K
<1>6. [run |-> r, keys |-> K] \in Entry
  BY <1>3, Zenon DEF Entry, K
<1>7. Covers([run |-> r, keys |-> K], h, listing)
  BY <1>4, <1>5, Zenon DEF Covers, K
<1> QED
  BY <1>6, <1>7, Zenon DEF K

LEMMA InitIInv == Init => IInv
<1> SUFFICES ASSUME Init PROVE IInv
  OBVIOUS
<1>1. StoreInv
  BY NobodyIsNoRun, Zenon DEF Init, StoreInv, Status
<1>2. CountInv
  BY BoundsAreNat DEF Init, CountInv
<1>3. call \in [Callers -> CallType]
  BY IdleIsCall, Zenon DEF Init
<1>4. ASSUME NEW c \in Callers PROVE PlanInv(c)
  <2>1. call[c] = Idle
    BY Zenon DEF Init
  <2>2. Len(call[c].plan) = 0 /\ call[c].pc = "idle"
    BY <2>1 DEF Idle
  <2>3. 1..0 = {}
    OBVIOUS
  <2> QED
    BY <2>2, <2>3, Zenon DEF PlanInv, Deleting
<1> QED
  BY <1>1, <1>2, <1>3, <1>4 DEF IInv

(* The steps of the runs, of the index and of whatever misplaces records. *)
Around ==
  \E r \in Runs :
    \/ StartRun(r) \/ CompleteRun(r) \/ Age(r) \/ Reindex(r)
    \/ \E k \in Used : WriteRecord(r, k) \/ Repair(r, k) \/ \E other \in Runs : Misplace(r, k, other)

LEMMA AroundStep ==
  ASSUME IInv, Around
  PROVE  /\ StoreInv' /\ CountInv' /\ call' = call
         /\ \A r \in Runs, k \in Kind : Quiesced(r) /\ listing'[r][k] = r => listing[r][k] = r
         /\ \A r \in Runs : Quiesced(r) /\ Gone(status, r) => Gone(status', r)
         /\ \A r \in Runs : status[r] # "NONE" => status'[r] # "NONE"
         /\ \A r \in Runs, k \in Kind : listing[r][k] = r => listing'[r][k] # Nobody
<1> USE DEF IInv
<1>0. /\ status \in [Runs -> Status] /\ listing \in [Runs -> [Kind -> Runs \cup {Nobody}]]
      /\ \A r \in Runs : status[r] = "NONE" => \A k \in Kind : listing[r][k] # r
  BY Zenon DEF StoreInv
<1>1. ASSUME NEW r \in Runs, StartRun(r) \/ CompleteRun(r) \/ Age(r)
      PROVE  /\ status' \in [Runs -> Status] /\ listing' = listing /\ UNCHANGED <<row, call, damage, faults>>
             /\ \A q \in Runs : Quiesced(q) /\ Gone(status, q) => Gone(status', q)
             /\ \A q \in Runs : status[q] # "NONE" => status'[q] # "NONE"
  <2>1. CASE StartRun(r)
    BY <1>0, <2>1, Zenon DEF StartRun, Gone, Status
  <2>2. CASE CompleteRun(r)
    BY <1>0, <2>2, Zenon DEF CompleteRun, Gone, Status
  <2>3. CASE Age(r)
    BY <1>0, <2>3 DEF Age, Gone, Status
  <2> QED
    BY <1>1, <2>1, <2>2, <2>3
<1>2. ASSUME NEW r \in Runs, StartRun(r) \/ CompleteRun(r) \/ Age(r)
      PROVE  StoreInv' /\ CountInv'
  <2>1. StoreInv'
    BY <1>0, <1>1, <1>2 DEF StoreInv
  <2> QED
    BY <1>1, <1>2, <2>1, Zenon DEF CountInv
<1>3. ASSUME NEW r \in Runs, Reindex(r)
      PROVE  status' = status /\ listing' = listing /\ call' = call /\ CountInv'
  BY <1>3, Zenon DEF Reindex, CountInv, data
<1>4. ASSUME NEW r \in Runs, NEW k \in Used,
             WriteRecord(r, k) \/ Repair(r, k) \/ \E other \in Runs : Misplace(r, k, other)
      PROVE  /\ listing' \in [Runs -> [Kind -> Runs \cup {Nobody}]]
             /\ status' = status /\ call' = call /\ CountInv'
             /\ \A q \in Runs, j \in Kind :
                  listing'[q][j] = q => listing[q][j] = q \/ (status[q] = "IN_PROGRESS" /\ ~Quiesced(q))
             /\ \A q \in Runs, j \in Kind : listing[q][j] = q => listing'[q][j] # Nobody
  <2>0. k \in Kind
    BY UsedKinds, Zenon
  <2>1. CASE WriteRecord(r, k)
    <3>1. \A q \in Runs, j \in Kind : listing'[q][j] = IF q = r /\ j = k THEN r ELSE listing[q][j]
      BY <1>0, <2>0, <2>1 DEF WriteRecord
    <3>2. listing' \in [Runs -> [Kind -> Runs \cup {Nobody}]]
      BY <1>0, <2>0, <2>1, Zenon DEF WriteRecord
    <3> QED
      BY <2>1, <3>1, <3>2, NobodyIsNoRun DEF WriteRecord, CountInv
  <2>2. CASE Repair(r, k)
    <3>1. \A q \in Runs, j \in Kind : listing'[q][j] = IF q = r /\ j = k THEN Nobody ELSE listing[q][j]
      BY <1>0, <2>0, <2>2, Zenon DEF Repair
    <3>2. listing' \in [Runs -> [Kind -> Runs \cup {Nobody}]]
      BY <1>0, <2>0, <2>2, Zenon DEF Repair
    <3> QED
      BY <2>2, <3>1, <3>2, NobodyIsNoRun DEF Repair, CountInv
  <2>3. ASSUME NEW other \in Runs, Misplace(r, k, other)
        PROVE  /\ listing' \in [Runs -> [Kind -> Runs \cup {Nobody}]]
               /\ status' = status /\ call' = call /\ CountInv'
               /\ \A q \in Runs, j \in Kind : listing'[q][j] = q => listing[q][j] = q
               /\ \A q \in Runs, j \in Kind : listing[q][j] = q => listing'[q][j] # Nobody
    <3>1. \A q \in Runs, j \in Kind : listing'[q][j] = IF q = r /\ j = k THEN other ELSE listing[q][j]
      BY <1>0, <2>0, <2>3, Zenon DEF Misplace
    <3>2. listing' \in [Runs -> [Kind -> Runs \cup {Nobody}]]
      BY <1>0, <2>0, <2>3 DEF Misplace
    <3>3. CountInv'
      BY <2>3, BoundsAreNat DEF Misplace, CountInv
    <3> QED
      BY <2>3, <3>1, <3>2, <3>3, NobodyIsNoRun DEF Misplace
  <2> QED
    BY <1>4, <2>1, <2>2, <2>3
<1>5. ASSUME NEW r \in Runs, NEW k \in Used,
             WriteRecord(r, k) \/ Repair(r, k) \/ \E other \in Runs : Misplace(r, k, other)
      PROVE  StoreInv'
  <2>1. ASSUME NEW q \in Runs, NEW j \in Kind, status[q] = "NONE" PROVE listing'[q][j] # q
    BY <1>0, <1>4, <1>5, <2>1
  <2> QED
    BY <1>0, <1>4, <1>5, <2>1, Zenon DEF StoreInv
<1>6. \A r \in Runs, k \in Kind : listing[r][k] = r => listing[r][k] # Nobody
  BY NobodyIsNoRun, Zenon
<1>7. PICK r \in Runs :
        \/ StartRun(r) \/ CompleteRun(r) \/ Age(r) \/ Reindex(r)
        \/ \E k \in Used : WriteRecord(r, k) \/ Repair(r, k) \/ \E other \in Runs : Misplace(r, k, other)
  BY Zenon DEF Around
<1>8. CASE StartRun(r) \/ CompleteRun(r) \/ Age(r)
  BY <1>1, <1>2, <1>6, <1>8
<1>9. CASE Reindex(r)
  BY <1>3, <1>6, <1>9, Zenon DEF StoreInv
<1>10. CASE \E k \in Used : WriteRecord(r, k) \/ Repair(r, k) \/ \E other \in Runs : Misplace(r, k, other)
  BY <1>4, <1>5, <1>10, Zenon
<1> QED
  BY <1>7, <1>8, <1>9, <1>10

-----------------------------------------------------------------------------
(* The steps of the callers *)

(* What remains to be shown of a step of one caller. *)
LEMMA CallerStep ==
  ASSUME IInv, NEW c \in Callers, NEW new \in CallType, Become(c, new), StoreInv', CountInv',
         \A r \in Runs, k \in Kind : listing'[r][k] = r => listing[r][k] = r,
         \A r \in Runs : Gone(status, r) => Gone(status', r),
         call'[c] = new => PlanInv(c)'
  PROVE  IInv'
<1>1. /\ call' \in [Callers -> CallType] /\ call'[c] = new
      /\ \A d \in Callers \ {c} : call'[d] = call[d]
  BY Becomes, Zenon DEF IInv
<1>2. ASSUME NEW d \in Callers \ {c} PROVE PlanInv(d)'
  <2>1. call[d].held \in SUBSET Runs
    BY Zenon DEF IInv, CallType
  <2> QED
    BY <1>1, <2>1, PlanKept, Zenon DEF IInv
<1> QED
  BY <1>1, <1>2, Zenon DEF IInv

(* The same for a step that leaves the store alone. *)
LEMMA QuietStep ==
  ASSUME IInv, NEW c \in Callers, NEW new \in CallType, Become(c, new), UNCHANGED data, CountInv',
         call'[c] = new => PlanInv(c)'
  PROVE  IInv'
<1>1. status' = status /\ listing' = listing
  BY Zenon DEF data
<1>2. StoreInv'
  BY <1>1, Zenon DEF IInv, StoreInv
<1> QED
  BY <1>1, <1>2, CallerStep, Zenon

LEMMA ListWorkflowsStep ==
  ASSUME IInv, NEW c \in Callers, ListWorkflows(c) PROVE IInv'
<1> DEFINE new == [Idle EXCEPT !.pc = "plan", !.held = Eligible, !.todo = row]
<1>1. Idle.plan = <<>> /\ Eligible \in SUBSET Runs /\ row \in SUBSET Runs
  BY Zenon DEF Idle, Eligible, IInv, CountInv
<1>2. new \in CallType /\ new.pc = "plan" /\ new.plan = Idle.plan
  BY <1>1, IdleIsCall, Zenon DEF CallType
<1>4. Become(c, new) /\ UNCHANGED data /\ CountInv'
  BY Zenon DEF ListWorkflows, IInv, CountInv
<1> HIDE DEF new
<1>5. ASSUME call'[c] = new PROVE PlanInv(c)'
  <2>1. Len(call'[c].plan) = 0 /\ call'[c].pc = "plan"
    BY <1>1, <1>2, <1>5
  <2>2. 1..0 = {}
    OBVIOUS
  <2> QED
    BY <2>1, <2>2, Zenon DEF PlanInv, Deleting
<1> QED
  BY <1>2, <1>4, <1>5, QuietStep, Zenon

LEMMA ExamineStep ==
  ASSUME IInv, NEW c \in Callers, NEW r \in Runs, Examine(c, r) PROVE IInv'
<1> DEFINE T == call[c].todo \ {r}
<1> DEFINE e == [run |-> r, keys |-> Snapshot(r)]
<1> DEFINE p == call[c].plan
<1> DEFINE skip == [call[c] EXCEPT !.todo = T]
<1> DEFINE add == [call[c] EXCEPT !.todo = T, !.plan = Append(p, e)]
<1>0. call[c] \in CallType /\ T \in SUBSET Runs /\ p \in Seq(Entry) /\ PlanInv(c) /\ call[c].pc = "plan"
      /\ call[c].held \in SUBSET Runs
  BY Zenon DEF IInv, CallType, Examine
<1>1. UNCHANGED data /\ CountInv' /\ status' = status /\ listing' = listing
  BY Zenon DEF Examine, IInv, CountInv, data
<1>2. \/ Become(c, skip)
      \/ status[r] = "OLD" /\ r \in call[c].held /\ Valid(r) /\ Become(c, add)
      \/ Become(c, Idle)
  BY Zenon DEF Examine
<1>3. CASE Become(c, skip)
  <2> HIDE DEF T
  <2>1. /\ skip \in CallType /\ skip.pc = call[c].pc /\ skip.held = call[c].held
        /\ skip.plan = call[c].plan
    BY <1>0, Zenon DEF CallType
  <2> HIDE DEF skip
  <2>2. ASSUME call'[c] = skip PROVE PlanInv(c)'
    <3>1. PlanInv(c)
      BY <1>0, Zenon
    <3> QED
      BY <1>1, <2>1, <2>2, <3>1, Zenon DEF PlanInv, Deleting
  <2> QED
    BY <1>1, <1>3, <2>1, <2>2, QuietStep
<1>4. CASE status[r] = "OLD" /\ r \in call[c].held /\ Valid(r) /\ Become(c, add)
  <2>1. e \in Entry /\ Covers(e, call[c].held, listing)
    BY <1>4, SnapshotCovers, Zenon DEF IInv
  <2>2. e.run = r
    OBVIOUS
  <2> HIDE DEF e, T
  <2> DEFINE q == Append(p, e)
  <2>3. /\ q \in Seq(Entry) /\ Len(q) = Len(p) + 1 /\ q[Len(p) + 1] = e
        /\ \A i \in 1..Len(p) : q[i] = p[i]
    <3>1. p \in Seq(Entry) /\ e \in Entry
      BY <1>0, <2>1, Zenon
    <3> HIDE DEF p
    <3> QED
      BY <3>1, PlanAppended
  <2>4. Len(p) \in Nat
    BY <1>0
  <2> HIDE DEF q
  <2>5. /\ add \in CallType /\ add.pc = "plan" /\ add.held = call[c].held
        /\ add.plan = q
    BY <1>0, <2>3, Zenon DEF CallType, q
  <2>6. \A i \in 1..Len(q) : i \in 1..Len(p) \/ i = Len(p) + 1
    BY <2>3, <2>4
  <2>7. \A i \in 1..Len(q) : Covers(q[i], call[c].held, listing)
    BY <1>0, <2>1, <2>3, <2>6 DEF PlanInv
  <2>8. \A i \in 1..Len(q) : Gone(status, q[i].run)
    <3>1. Gone(status, e.run)
      BY <1>4, <2>2, Zenon DEF Gone
    <3>2. \A i \in 1..Len(p) : Gone(status, p[i].run)
      BY <1>0, Zenon DEF PlanInv
    <3> QED
      BY <2>3, <2>6, <3>1, <3>2, Zenon
  <2> HIDE DEF add, p
  <2>9. ASSUME call'[c] = add PROVE PlanInv(c)'
    BY <1>1, <2>5, <2>7, <2>8, <2>9 DEF PlanInv, Deleting
  <2> QED
    BY <1>1, <1>4, <2>5, <2>9, QuietStep
<1>5. CASE Become(c, Idle)
  BY <1>1, <1>5, IdleIsCall, IdleHasNoPlan, QuietStep
<1> QED
  BY <1>2, <1>3, <1>4, <1>5, Zenon

LEMMA PlannedStep ==
  ASSUME IInv, NEW c \in Callers, Planned(c) PROVE IInv'
<1> DEFINE new == [call[c] EXCEPT !.pc = "delete"]
<1>0. call[c] \in CallType /\ call[c].pc = "plan" /\ PlanInv(c)
  BY Zenon DEF IInv, Planned
<1>1. UNCHANGED data /\ CountInv' /\ status' = status /\ listing' = listing
  BY Zenon DEF Planned, IInv, CountInv, data
<1>2. Become(c, Idle) \/ (call[c].plan # <<>> /\ Become(c, new))
  BY Zenon DEF Planned
<1>3. CASE call[c].plan # <<>> /\ Become(c, new)
  <2>1. /\ new \in CallType /\ new.pc = "delete" /\ new.held = call[c].held
        /\ new.plan = call[c].plan
    BY <1>0, Zenon DEF CallType
  <2> HIDE DEF new
  <2>2. ASSUME call'[c] = new PROVE PlanInv(c)'
    BY <1>0, <1>1, <1>3, <2>1, <2>2 DEF PlanInv, Deleting
  <2> QED
    BY <1>1, <1>3, <2>1, <2>2, QuietStep
<1> QED
  BY <1>1, <1>2, <1>3, IdleIsCall, IdleHasNoPlan, QuietStep

LEMMA DeleteRunStep ==
  ASSUME IInv, NEW c \in Callers, NEW r \in Runs, DeleteRun(c, r) PROVE IInv'
<1> DEFINE new == [Idle EXCEPT !.pc = "quiesced", !.held = {r}]
<1>1. Idle.plan = <<>>
  BY Zenon DEF Idle
<1>2. new \in CallType /\ new.pc = "quiesced" /\ new.plan = Idle.plan
  BY IdleIsCall, Zenon DEF CallType
<1>4. Become(c, new) /\ UNCHANGED data /\ CountInv' /\ c \in Operators
  BY Zenon DEF DeleteRun, IInv, CountInv
<1> HIDE DEF new
<1>5. ASSUME call'[c] = new PROVE PlanInv(c)'
  <2>1. Len(call'[c].plan) = 0 /\ call'[c].pc = "quiesced"
    BY <1>1, <1>2, <1>5
  <2>2. 1..0 = {}
    OBVIOUS
  <2> QED
    BY <1>4, <2>1, <2>2, Zenon DEF PlanInv, Deleting
<1> QED
  BY <1>2, <1>4, <1>5, QuietStep, Zenon

LEMMA DeleteRunSnapshotStep ==
  ASSUME IInv, NEW c \in Callers, DeleteRunSnapshot(c) PROVE IInv'
<1>0. call[c] \in CallType /\ call[c].pc = "quiesced" /\ PlanInv(c) /\ call[c].held \in SUBSET Runs
  BY Zenon DEF IInv, CallType, DeleteRunSnapshot
<1>1. UNCHANGED data /\ CountInv' /\ status' = status /\ listing' = listing
  BY Zenon DEF DeleteRunSnapshot, IInv, CountInv, data
<1>2. PICK r \in call[c].held :
        Become(c, IF Valid(r)
                    THEN [call[c] EXCEPT !.pc = "erase", !.plan = <<[run |-> r, keys |-> Snapshot(r)]>>]
                    ELSE Idle)
  BY Zenon DEF DeleteRunSnapshot
<1>3. CASE Valid(r)
  <2> DEFINE e == [run |-> r, keys |-> Snapshot(r)]
  <2> DEFINE new == [call[c] EXCEPT !.pc = "erase", !.plan = <<e>>]
  <2>1. e \in Entry /\ Covers(e, call[c].held, listing)
    BY <1>0, <1>3, SnapshotCovers, Zenon DEF IInv
  <2>2. Become(c, new)
    BY <1>2, <1>3, Zenon
  <2> HIDE DEF e
  <2>3. <<e>> \in Seq(Entry) /\ Len(<<e>>) = 1 /\ <<e>>[1] = e /\ <<e>> # <<>>
    BY <2>1
  <2>4. new \in CallType /\ new.pc = "erase" /\ new.held = call[c].held /\ new.plan = <<e>>
    BY <1>0, <2>3, Zenon DEF CallType
  <2> HIDE DEF new
  <2>5. ASSUME call'[c] = new PROVE PlanInv(c)'
    <3>1. \A i \in 1..Len(<<e>>) : Covers(<<e>>[i], call[c].held, listing)
      BY <2>1, <2>3
    <3>2. c \in Operators
      BY <1>0, Zenon DEF PlanInv
    <3> QED
      BY <1>1, <2>3, <2>4, <2>5, <3>1, <3>2 DEF PlanInv, Deleting
  <2> QED
    BY <1>1, <2>2, <2>4, <2>5, QuietStep
<1> QED
  BY <1>1, <1>2, <1>3, IdleIsCall, IdleHasNoPlan, QuietStep

(* The entry that a deleting caller works on. *)
LEMMA FirstEntry ==
  ASSUME IInv, NEW c \in Callers, Deleting(c)
  PROVE  /\ call[c].plan \in Seq(Entry) /\ call[c].plan # <<>>
         /\ Head(call[c].plan) = call[c].plan[1] /\ 1 \in 1..Len(call[c].plan)
         /\ call[c].plan[1] \in Entry
         /\ Covers(call[c].plan[1], call[c].held, listing)
<1>1. PlanInv(c) /\ call[c].plan \in Seq(Entry)
  BY Zenon DEF IInv, CallType
<1>2. call[c].plan # <<>>
  BY <1>1, Zenon DEF PlanInv
<1> DEFINE p == call[c].plan
<1>3. Head(p) = p[1] /\ 1 \in 1..Len(p) /\ p[1] \in Entry
  <2>1. p \in Seq(Entry) /\ p # <<>>
    BY <1>1, <1>2, Zenon
  <2>2. Head(p) = p[1] /\ Len(p) \in Nat /\ Len(p) > 0 /\ p[1] \in Entry
    BY <2>1, PlanHead, Zenon
  <2> QED
    BY <2>2
<1> QED
  BY <1>1, <1>2, <1>3, Zenon DEF PlanInv

LEMMA DeleteNextStep ==
  ASSUME IInv, NEW c \in Callers, DeleteNext(c) PROVE IInv'
<1> DEFINE p == call[c].plan
<1> DEFINE h == call[c].held
<1> DEFINE rest == Rest(p)
<1> DEFINE new == [call[c] EXCEPT !.plan = rest]
<1> DEFINE e == p[1]
<1> DEFINE k0 == First(e.keys)
<1>0. Deleting(c) /\ call[c] \in CallType /\ PlanInv(c) /\ h \in SUBSET Runs
  BY Zenon DEF DeleteNext, IInv, CallType
<1>1. p \in Seq(Entry) /\ p # <<>> /\ Head(p) = e /\ 1 \in 1..Len(p) /\ e \in Entry /\ Covers(e, h, listing)
  BY <1>0, FirstEntry, Zenon
<1>2. DeleteEntry(e)
  BY <1>1, Zenon DEF DeleteNext
<1>3. /\ StoreInv'
      /\ \A r \in Runs, k \in Kind : listing'[r][k] = r => listing[r][k] = r
      /\ \A r \in Runs : Gone(status, r) => Gone(status', r)
      /\ e.keys # {} => k0 \in Key /\ listing'[e.run][k0[2]] = Nobody
  BY <1>1, <1>2, Deletes, Zenon DEF IInv
<1>4. CountInv'
  BY Zenon DEF DeleteNext, IInv, CountInv
<1>5. Become(c, Idle) \/ (rest # <<>> /\ Become(c, new))
  BY Zenon DEF DeleteNext
<1>6. CASE Become(c, Idle)
  BY <1>3, <1>4, <1>6, IdleIsCall, IdleHasNoPlan, CallerStep
<1>7. CASE rest # <<>> /\ Become(c, new)
  <2>1. /\ rest \in Seq(Entry)
        /\ \A i \in 1..Len(rest) :
             \/ \E j \in 1..Len(p) : rest[i] = p[j]
             \/ e.keys # {} /\ rest[i] = [run |-> e.run, keys |-> e.keys \ {k0}]
    BY <1>1, RestIsPlan, Zenon
  <2>2. \A j \in 1..Len(p) : Covers(p[j], h, listing')
    <3>1. \A j \in 1..Len(p) : Covers(p[j], h, listing)
      BY <1>0, Zenon DEF PlanInv
    <3> QED
      BY <1>0, <1>3, <3>1 DEF Covers
  <2>3. ASSUME e.keys # {} PROVE Covers([run |-> e.run, keys |-> e.keys \ {k0}], h, listing')
    <3>1. Covers(e, h, listing')
      BY <1>1, <2>2, Zenon
    <3>2. e.run \in Runs
      BY <1>1, Zenon DEF Entry
    <3>3. ASSUME NEW k \in Kind, listing'[e.run][k] = e.run PROVE <<e.run, k>> \in e.keys \ {k0}
      <4>1. <<e.run, k>> \in e.keys
        BY <3>1, <3>3, Zenon DEF Covers
      <4>2. k # k0[2]
        BY <1>3, <2>3, <3>2, <3>3, NobodyIsNoRun
      <4>3. <<e.run, k>>[2] = k
        OBVIOUS
      <4> HIDE DEF k0, e
      <4> QED
        BY <4>1, <4>2, <4>3, Zenon
    <3> HIDE DEF k0
    <3>4. \A key \in e.keys \ {k0} : key[1] = e.run
      BY <3>1, Zenon DEF Covers
    <3>5. e.run \in h
      BY <3>1, Zenon DEF Covers
    <3> DEFINE r == e.run
    <3> DEFINE K == e.keys \ {k0}
    <3>6. r \in h /\ (\A key \in K : key[1] = r) /\ \A k \in Kind : listing'[r][k] = r => <<r, k>> \in K
      BY <3>3, <3>4, <3>5
    <3> HIDE DEF r, K
    <3>7. Covers([run |-> r, keys |-> K], h, listing')
      BY <3>6, Zenon DEF Covers
    <3> QED
      BY <3>7, Zenon DEF r, K
  <2>4. \A i \in 1..Len(rest) : Covers(rest[i], h, listing')
    BY <2>1, <2>2, <2>3
  <2>5. ASSUME call[c].pc \in {"plan", "delete"} PROVE \A i \in 1..Len(rest) : Gone(status', rest[i].run)
    <3>1. \A j \in 1..Len(p) : Gone(status, p[j].run) /\ p[j].run \in Runs
      BY <1>0, <2>5, Zenon DEF PlanInv, Covers
    <3>2. \A j \in 1..Len(p) : Gone(status', p[j].run)
      BY <1>3, <3>1, Zenon
    <3>3. ASSUME NEW i \in 1..Len(rest) PROVE \E j \in 1..Len(p) : rest[i].run = p[j].run
      <4>1. CASE \E j \in 1..Len(p) : rest[i] = p[j]
        BY <4>1, Zenon
      <4>2. CASE rest[i] = [run |-> e.run, keys |-> e.keys \ {k0}]
        <5> HIDE DEF rest, e, k0
        <5>1. rest[i].run = e.run
          BY <4>2
        <5> USE DEF e
        <5> QED
          BY <1>1, <5>1, Zenon
      <4> HIDE DEF rest, e
      <4> QED
        BY <2>1, <4>1, <4>2, Zenon
    <3> HIDE DEF rest, p
    <3> QED
      BY <3>2, <3>3, Zenon DEF Gone
  <2> HIDE DEF rest
  <2>6. new \in CallType /\ new.pc = call[c].pc /\ new.held = h /\ new.plan = rest
    BY <1>0, <2>1, Zenon DEF CallType
  <2> HIDE DEF new
  <2>7. ASSUME call'[c] = new PROVE PlanInv(c)'
    <3>1. call[c].pc \in {"quiesced", "erase"} => c \in Operators
      BY <1>0, Zenon DEF PlanInv
    <3> QED
      BY <1>7, <2>4, <2>5, <2>6, <2>7, <3>1 DEF PlanInv, Deleting
  <2> QED
    BY <1>3, <1>4, <1>7, <2>6, <2>7, CallerStep
<1> QED
  BY <1>5, <1>6, <1>7, Zenon

LEMMA FailStep ==
  ASSUME IInv, NEW c \in Callers, Fail(c) PROVE IInv'
<1>1. CountInv' /\ Become(c, Idle)
  BY BoundsAreNat DEF Fail, IInv, CountInv
<1>2. CASE UNCHANGED data
  BY <1>1, <1>2, IdleIsCall, IdleHasNoPlan, QuietStep
<1>3. CASE Deleting(c) /\ DeleteEntry(Head(call[c].plan))
  <2> DEFINE e == call[c].plan[1]
  <2>1. e \in Entry /\ Covers(e, call[c].held, listing) /\ DeleteEntry(e)
    BY <1>3, FirstEntry, Zenon
  <2> HIDE DEF e
  <2>2. /\ StoreInv'
        /\ \A r \in Runs, k \in Kind : listing'[r][k] = r => listing[r][k] = r
        /\ \A r \in Runs : Gone(status, r) => Gone(status', r)
    BY <2>1, Deletes, Zenon DEF IInv
  <2> QED
    BY <1>1, <2>2, IdleIsCall, IdleHasNoPlan, CallerStep
<1> QED
  BY <1>2, <1>3, Zenon DEF Fail

LEMMA StepIInv == IInv /\ [Next]_vars => IInv'
<1> SUFFICES ASSUME IInv, [Next]_vars PROVE IInv'
  OBVIOUS
<1>1. CASE Around
  <2>1. /\ StoreInv' /\ CountInv' /\ call' = call
        /\ \A r \in Runs, k \in Kind : Quiesced(r) /\ listing'[r][k] = r => listing[r][k] = r
        /\ \A r \in Runs : Quiesced(r) /\ Gone(status, r) => Gone(status', r)
    BY <1>1, AroundStep, Zenon
  <2>2. ASSUME NEW c \in Callers PROVE PlanInv(c)'
    <3>1. call[c].held \in SUBSET Runs
      BY Zenon DEF IInv, CallType
    <3>2. \A r \in call[c].held : Quiesced(r)
      BY Zenon DEF Quiesced
    <3> QED
      BY <2>1, <3>1, <3>2, PlanKept, Zenon DEF IInv
  <2> QED
    BY <2>1, <2>2, Zenon DEF IInv
<1>2. CASE \E c \in Callers : ListWorkflows(c) \/ Step(c) \/ Fail(c) \/ \E r \in Runs : DeleteRun(c, r)
  BY <1>2, ListWorkflowsStep, ExamineStep, PlannedStep, DeleteRunStep, DeleteRunSnapshotStep,
     DeleteNextStep, FailStep DEF Step
<1>3. CASE UNCHANGED vars
  <2>1. StoreInv' /\ CountInv' /\ call' = call /\ listing' = listing /\ status' = status
    BY <1>3, Zenon DEF vars, data, IInv, StoreInv, CountInv
  <2>2. ASSUME NEW c \in Callers PROVE PlanInv(c)'
    BY <2>1, PlanKept, Zenon DEF IInv
  <2> QED
    BY <2>1, <2>2, Zenon DEF IInv
<1> QED
  BY <1>1, <1>2, <1>3, Zenon DEF Next, Around

-----------------------------------------------------------------------------

LEMMA IInvImplies == IInv => NoOrphans
<1> SUFFICES ASSUME IInv PROVE NoOrphans
  OBVIOUS
<1>1. ASSUME NEW c \in Callers
      PROVE  /\ call[c].pc \in {"idle", "plan", "quiesced", "delete", "erase"}
             /\ Deleting(c) => call[c].plan # <<>>
             /\ call[c].held \subseteq Runs /\ call[c].todo \subseteq Runs
             /\ call[c].plan \in Seq(Entry)
  <2>1. call[c] \in CallType
    BY Zenon DEF IInv
  <2>2. Deleting(c) => call[c].plan # <<>>
    BY Zenon DEF IInv, PlanInv
  <2> QED
    BY <2>1, <2>2, Zenon DEF CallType
<1> QED
  BY <1>1, Zenon DEF IInv, StoreInv, CountInv, Status, NoOrphans, TypeOK

(* Whatever fails and however many sweeps and DeleteRuns work on the same    *)
(* run, no record outlives the workflow record of its run (janitor.Sweep and *)
(* connectstore's DeleteRun delete the workflow record last).                *)
THEOREM NothingIsOrphaned == Spec => []NoOrphans
<1> QED
  BY InitIInv, StepIInv, IInvImplies, PTL DEF Spec

(* A sweep deletes nothing of a run that is not COMPLETED past the cutoff,   *)
(* however stale the rows of its query are (janitor.Sweep reads the          *)
(* authoritative record and validates every listed key before it deletes).   *)
THEOREM SweepsSpareLiveRuns == Spec => SweepSparesLiveRuns
<1> DEFINE Spared(r) ==
      \/ status[r] = "OLD"
      \/ \E c \in Operators : call[c].pc = "erase" /\ r \in call[c].held
      \/ /\ status[r] # "NONE" => status'[r] # "NONE"
         /\ \A k \in Kind : listing[r][k] = r => listing'[r][k] # Nobody
<1>1. ASSUME IInv, NEW c \in Callers, Deleting(c), DeleteEntry(Head(call[c].plan)), NEW r \in Runs
      PROVE  Spared(r)
  <2> DEFINE e == call[c].plan[1]
  <2>1. e \in Entry /\ Covers(e, call[c].held, listing) /\ DeleteEntry(e) /\ 1 \in 1..Len(call[c].plan)
    BY <1>1, FirstEntry, Zenon
  <2>2. PlanInv(c)
    BY <1>1, Zenon DEF IInv
  <2>3. CASE r # e.run
    <3> HIDE DEF e
    <3>1. status'[r] = status[r] /\ listing'[r] = listing[r]
      BY <1>1, <2>1, <2>3, Deletes DEF IInv
    <3> QED
      BY <3>1, NobodyIsNoRun, Zenon
  <2>4. CASE r = e.run /\ call[c].pc = "delete"
    <3>1. status[r] \in {"OLD", "NONE"}
      BY <2>1, <2>2, <2>4, Zenon DEF PlanInv, Gone
    <3>2. status[r] = "NONE" => \A k \in Kind : listing[r][k] # r
      BY <1>1, Zenon DEF IInv, StoreInv
    <3> QED
      BY <3>1, <3>2, Zenon
  <2>5. CASE r = e.run /\ call[c].pc = "erase"
    <3>1. c \in Operators /\ r \in call[c].held
      BY <2>1, <2>2, <2>5, Zenon DEF PlanInv, Covers
    <3> QED
      BY <2>5, <3>1, Zenon
  <2> QED
    BY <1>1, <2>3, <2>4, <2>5, Zenon DEF Deleting
<1>2. ASSUME IInv, [Next]_vars, NEW r \in Runs PROVE Spared(r)
  <2>1. CASE Around
    BY <1>2, <2>1, AroundStep, Zenon
  <2>2. CASE data' = data
    BY <2>2, NobodyIsNoRun, Zenon DEF data
  <2>3. CASE \E c \in Callers : DeleteNext(c) \/ Fail(c)
    BY <1>1, <1>2, <2>2, <2>3 DEF DeleteNext, Fail
  <2>4. CASE \E c \in Callers : \/ ListWorkflows(c) \/ Planned(c) \/ DeleteRunSnapshot(c)
                                \/ \E q \in Runs : Examine(c, q) \/ DeleteRun(c, q)
    BY <2>2, <2>4 DEF ListWorkflows, Planned, DeleteRunSnapshot, Examine, DeleteRun
  <2>5. CASE UNCHANGED vars
    BY <2>2, <2>5, Zenon DEF vars
  <2> HIDE DEF Spared
  <2> QED
    BY <1>2, <2>1, <2>3, <2>4, <2>5 DEF Next, Step, Around
<1>3. IInv /\ [Next]_vars =>
        [\A r \in Runs : Spared(r)]_vars
  BY <1>2, Zenon
<1> QED
  BY <1>3, InitIInv, StepIInv, PTL DEF Spec, SweepSparesLiveRuns

-----------------------------------------------------------------------------
(* DescribeRun.  NoFalseAlarm is not inductive: what was read so far has to  *)
(* be related to the run as it is now.  A run without its claim stands still *)
(* until somebody invokes it, so that once no claim was seen, the timers     *)
(* read are the timers of that moment.                                       *)
RunStates ==
  [status : {"none", "IN_PROGRESS", "COMPLETED"}, activity : {"none", "RETRYING", "COMPLETED"},
   claimedAt : Nat, claimed : BOOLEAN, timers : [Timers -> {"none", "SCHEDULED", "FIRED"}]]

RunInv ==
  /\ run \in RunStates /\ now \in Nat
  /\ executing \in BOOLEAN /\ alone \in BOOLEAN /\ woken \in BOOLEAN
  /\ executing => run.claimed
  /\ inspector.at # "idle" /\ NoWake(run) => alone

(* No claim was seen, and none has been taken since. *)
Unclaimed == inspector.seen.claims = {} => woken \/ ~run.claimed

SeenInv ==
  LET seen == inspector.seen
      at == inspector.at
  IN
  /\ at \in {"idle", "workflow", "activities", "list claims", "claims", "list timers", "timers",
             "derive", "answered"}
  /\ DOMAIN inspector = {"at", "limit", "listed", "seen", "response"}
  /\ DOMAIN seen = {"workflow", "activity", "claims", "timers", "truncated"}
  /\ at \in {"activities", "list claims", "claims", "list timers", "timers", "derive"} =>
       /\ seen.workflow \in {"none", "IN_PROGRESS", "COMPLETED"}
       /\ seen.workflow # "none" => run.status # "none"
  /\ ListClaims =>
       /\ at = "claims" /\ inspector.listed = {} => woken \/ ~run.claimed
       /\ at \in {"list timers", "timers", "derive"} => Unclaimed
       /\ at = "timers" /\ ~woken /\ seen.claims = {} =>
            inspector.listed = {t \in Timers : run.timers[t] # "none"}
       /\ at = "derive" /\ ~woken /\ seen.claims = {} /\ ~seen.truncated =>
            \A t \in Scheduled(run.timers) : [id |-> t, status |-> "SCHEDULED"] \in seen.timers

DescriptionInv == RunInv /\ SeenInv /\ NoFalseAlarm

(* The run stands still while nobody has its claim, unless it is invoked,   *)
(* and its workflow record stays.                                           *)
Quiet ==
  /\ inspector' = inspector
  /\ run.status # "none" => run'.status # "none"
  /\ woken /\ inspector.at # "idle" => woken'
  /\ inspector.at # "idle" /\ ~woken' /\ ~run.claimed => ~run'.claimed /\ run'.timers = run.timers

(* Whatever an invocation stores while it is alive keeps what is known of   *)
(* the run.                                                                 *)
LEMMA StoredByInvocation ==
  ASSUME RunInv, executing, NEW r \in RunStates, Stored(r),
         r.claimed \/ ~executing',
         r.status = "none" => run.status = "none",
         executing' \in BOOLEAN, UNCHANGED <<now, woken, inspector>>
  PROVE  RunInv' /\ Quiet
<1>1. run' = r /\ run.claimed
  BY Zenon DEF Stored, RunInv
<1>2. alone' \in BOOLEAN /\ (inspector'.at # "idle" /\ NoWake(run') => alone')
  BY Zenon DEF Stored
<1>3. executing' => run'.claimed
  BY <1>1, Zenon
<1>4. RunInv'
  BY <1>1, <1>2, <1>3, Zenon DEF RunInv
<1>5. Quiet
  BY <1>1, Zenon DEF Quiet
<1> QED
  BY <1>4, <1>5, Zenon

LEMMA RunSteps ==
  ASSUME RunInv, RunNext
  PROVE  RunInv' /\ Quiet
<1>1. CASE Tick
  <2>1. RunInv'
    BY <1>1 DEF Tick, RunInv, runVars, NoWake
  <2> QED
    BY <1>1, <2>1, Zenon DEF Tick, runVars, Quiet
<1>2. CASE Invocation
  <2> DEFINE r == [run EXCEPT !.claimed = TRUE, !.claimedAt = now]
  <2>1. r \in RunStates /\ r.claimed /\ r.status = run.status
    BY Zenon DEF RunInv, RunStates
  <2>2. run' = r /\ alone' \in BOOLEAN /\ woken' \in BOOLEAN /\ executing' = TRUE
    BY <1>2, Zenon DEF Invocation, Stored
  <2>3. ~NoWake(run')
    BY <2>1, <2>2, Zenon DEF NoWake
  <2>4. now' = now /\ inspector' = inspector /\ woken' = (inspector.at # "idle")
    BY <1>2, Zenon DEF Invocation
  <2>5. RunInv'
    BY <2>1, <2>2, <2>3, <2>4, Zenon DEF RunInv
  <2>6. Quiet
    BY <2>1, <2>2, <2>4, Zenon DEF Quiet
  <2> QED
    BY <2>5, <2>6, Zenon
<1>3. CASE PutRunning
  <2> DEFINE r == [run EXCEPT !.status = "IN_PROGRESS"]
  <2>1. r \in RunStates /\ r.claimed = run.claimed /\ r.status # "none"
    BY Zenon DEF RunInv, RunStates
  <2> QED
    BY <1>3, <2>1, StoredByInvocation, Zenon DEF PutRunning, RunInv
<1>4. ASSUME NEW t \in Timers, Arm(t) PROVE RunInv' /\ Quiet
  <2> DEFINE r == [run EXCEPT !.timers[t] = "SCHEDULED"]
  <2>1. r \in RunStates /\ r.claimed = run.claimed /\ r.status = run.status
    BY Zenon DEF RunInv, RunStates
  <2> QED
    BY <1>4, <2>1, StoredByInvocation DEF Arm, Running, RunInv
<1>5. CASE RecordRetrying
  <2> DEFINE r == [run EXCEPT !.activity = "RETRYING"]
  <2>1. r \in RunStates /\ r.claimed = run.claimed /\ r.status = run.status
    BY Zenon DEF RunInv, RunStates
  <2> QED
    BY <1>5, <2>1, StoredByInvocation, Zenon DEF RecordRetrying, Running, RunInv
<1>6. CASE RecordActivity
  <2> DEFINE r == [run EXCEPT !.activity = "COMPLETED"]
  <2>1. r \in RunStates /\ r.claimed = run.claimed /\ r.status = run.status
    BY Zenon DEF RunInv, RunStates
  <2> QED
    BY <1>6, <2>1, StoredByInvocation, Zenon DEF RecordActivity, Running, RunInv
<1>7. ASSUME NEW t \in Timers, Consume(t) PROVE RunInv' /\ Quiet
  <2> DEFINE r == [run EXCEPT !.timers[t] = "FIRED"]
  <2>1. r \in RunStates /\ r.claimed = run.claimed /\ r.status = run.status
    BY Zenon DEF RunInv, RunStates
  <2>2. executing /\ Stored(r) /\ UNCHANGED <<now, executing, woken, inspector>>
    BY <1>7, Zenon DEF Consume
  <2> QED
    BY <2>1, <2>2, StoredByInvocation, Zenon DEF RunInv
<1>8. CASE ReleaseClaim
  <2> DEFINE r == [run EXCEPT !.claimed = FALSE, !.claimedAt = 0]
  <2>1. r \in RunStates /\ r.status = run.status
    BY Zenon DEF RunInv, RunStates
  <2> QED
    BY <1>8, <2>1, StoredByInvocation, Zenon DEF ReleaseClaim, RunInv
<1>9. CASE PutTerminal
  <2> DEFINE r == [run EXCEPT !.status = "COMPLETED"]
  <2>1. r \in RunStates /\ r.claimed = run.claimed /\ r.status # "none"
    BY Zenon DEF RunInv, RunStates
  <2> QED
    BY <1>9, <2>1, StoredByInvocation, Zenon DEF PutTerminal, Running, RunInv
<1>10. CASE Die
  <2>1. RunInv'
    BY <1>10, Zenon DEF Die, RunInv, NoWake
  <2> QED
    BY <1>10, <2>1, Zenon DEF Die, Quiet
<1> QED
  BY <1>1, <1>2, <1>3, <1>4, <1>5, <1>6, <1>7, <1>8, <1>9, <1>10 DEF RunNext

(* What was read stays true of a run that goes on. *)
LEMMA SeenStaysTrue ==
  ASSUME RunInv, SeenInv, Quiet
  PROVE  SeenInv'
<1> DEFINE seen == inspector.seen
           at == inspector.at
<1>1. inspector' = inspector
  BY Zenon DEF Quiet
<1>2. at \in {"activities", "list claims", "claims", "list timers", "timers", "derive"} =>
        /\ seen.workflow \in {"none", "IN_PROGRESS", "COMPLETED"}
        /\ seen.workflow # "none" => run'.status # "none"
  BY Zenon DEF SeenInv, Quiet
<1>3. at # "idle" /\ (woken \/ ~run.claimed) => woken' \/ ~run'.claimed
  BY Zenon DEF Quiet
<1>4. at # "idle" /\ ~woken' /\ (woken \/ ~run.claimed) => ~woken /\ run'.timers = run.timers
  BY Zenon DEF Quiet
<1>5. ASSUME ListClaims, at = "claims", inspector.listed = {}
      PROVE  woken' \/ ~run'.claimed
  BY <1>3, <1>5, Zenon DEF SeenInv
<1>6. ASSUME ListClaims, at \in {"list timers", "timers", "derive"}
      PROVE  Unclaimed'
  BY <1>1, <1>3, <1>6 DEF SeenInv, Unclaimed
<1>7. ASSUME ListClaims, at = "timers", ~woken', seen.claims = {}
      PROVE  inspector.listed = {t \in Timers : run'.timers[t] # "none"}
  <2>1. woken \/ ~run.claimed
    BY <1>7, Zenon DEF SeenInv, Unclaimed
  <2>2. ~woken /\ run'.timers = run.timers
    BY <1>4, <1>7, <2>1, Zenon
  <2> QED
    BY <1>7, <2>2, Zenon DEF SeenInv
<1>8. ASSUME ListClaims, at = "derive", ~woken', seen.claims = {}, ~seen.truncated
      PROVE  \A t \in Scheduled(run'.timers) : [id |-> t, status |-> "SCHEDULED"] \in seen.timers
  <2>1. woken \/ ~run.claimed
    BY <1>8, Zenon DEF SeenInv, Unclaimed
  <2>2. ~woken /\ run'.timers = run.timers
    BY <1>4, <1>8, <2>1
  <2> QED
    BY <1>8, <2>2, Zenon DEF SeenInv
<1> QED
  BY <1>1, <1>2, <1>5, <1>6, <1>7, <1>8 DEF SeenInv

(* WAITING_NO_WAKE is derived only from records without a claim and without *)
(* a scheduled timer of the run.                                            *)
LEMMA LastReason ==
  ASSUME NEW r, r.workflow \in {"none", "IN_PROGRESS", "COMPLETED"},
         DerivePending(r).reason = "WAITING_NO_WAKE"
  PROVE  /\ r.workflow = "IN_PROGRESS" /\ r.claims = {}
         /\ \A u \in r.timers : u.status = "SCHEDULED" => u.id \notin Timers
<1> DEFINE found == Evidence(r)
           P(i) == /\ found[RunPendingReason[i]] # {} \/ RunPendingReason[i] = "WAITING_NO_WAKE"
                   /\ \A j \in 1..(i - 1) : found[RunPendingReason[j]] = {}
           first == CHOOSE i \in DOMAIN RunPendingReason : P(i)
           why == RunPendingReason[first]
<1>1. /\ DOMAIN RunPendingReason = 1..8
      /\ RunPendingReason[1] = "TERMINAL" /\ RunPendingReason[2] = "OVERDUE_WAKE"
      /\ RunPendingReason[3] = "RETRYING" /\ RunPendingReason[4] = "STALE_CLAIM"
      /\ RunPendingReason[5] = "EXECUTING" /\ RunPendingReason[6] = "SLEEPING"
      /\ RunPendingReason[7] = "POLLING" /\ RunPendingReason[8] = "WAITING_NO_WAKE"
  BY DEF RunPendingReason
<1>2. DerivePending(r) =
        IF r.workflow = "none" THEN RunPendingState("UNSPECIFIED", 0)
        ELSE IF r.workflow = "COMPLETED" THEN RunPendingState("TERMINAL", 0)
        ELSE IF found[why] \subseteq {0} THEN RunPendingState(why, 0)
        ELSE RunPendingState(why, Earliest(found[why]))
  BY Zenon DEF DerivePending
<1>3. r.workflow = "IN_PROGRESS" /\ why = "WAITING_NO_WAKE"
  <2> HIDE DEF why
  <2> QED
    BY <1>2 DEF RunPendingState
<1>4. \E i \in 1..8 : P(i)
  <2> DEFINE empty(k) == found[RunPendingReason[k]] = {}
             Least(k) == ~empty(k) /\ \A j \in 1..(k - 1) : empty(j)
  <2>1. \A k \in 1..8 : Least(k) => P(k)
    OBVIOUS
  <2>2. (\A j \in 1..7 : empty(j)) => P(8)
    BY <1>1
  <2>3. (\A j \in 1..7 : empty(j)) \/ \E k \in 1..8 : Least(k)
    <3> HIDE DEF empty
    <3>1. ASSUME ~empty(1) PROVE Least(1)
      BY <3>1
    <3>2. ASSUME empty(1), ~empty(2) PROVE Least(2)
      BY <3>2
    <3>3. ASSUME empty(1), empty(2), ~empty(3) PROVE Least(3)
      BY <3>3
    <3>4. ASSUME empty(1), empty(2), empty(3), ~empty(4) PROVE Least(4)
      BY <3>4
    <3>5. ASSUME empty(1), empty(2), empty(3), empty(4), ~empty(5) PROVE Least(5)
      BY <3>5
    <3>6. ASSUME empty(1), empty(2), empty(3), empty(4), empty(5), ~empty(6) PROVE Least(6)
      BY <3>6
    <3>7. ASSUME empty(1), empty(2), empty(3), empty(4), empty(5), empty(6), ~empty(7)
          PROVE  Least(7)
      BY <3>7
    <3>8. ASSUME empty(1), empty(2), empty(3), empty(4), empty(5), empty(6), empty(7)
          PROVE  \A j \in 1..7 : empty(j)
      BY <3>8
    <3> HIDE DEF Least
    <3> QED
      BY <3>1, <3>2, <3>3, <3>4, <3>5, <3>6, <3>7, <3>8
  <2> HIDE DEF P, empty, Least
  <2> QED
    BY <2>1, <2>2, <2>3
<1>5. first \in 1..8 /\ P(first)
  <2> HIDE DEF P
  <2> QED
    BY <1>1, <1>4
<1>6. first = 8
  <2> HIDE DEF first
  <2> QED
    BY <1>1, <1>3, <1>5
<1>7. \A j \in 1..7 : found[RunPendingReason[j]] = {}
  <2> HIDE DEF first, found
  <2> QED
    BY <1>5, <1>6
<1>8. /\ found["RETRYING"] = {} /\ found["EXECUTING"] = {}
      /\ found["SLEEPING"] = {} /\ found["POLLING"] = {}
  <2> HIDE DEF found
  <2> QED
    BY <1>1, <1>7
<1> DEFINE scheduled == {t.id : t \in {u \in r.timers : u.status = "SCHEDULED"}}
           Typed(k) == {t \in scheduled : KindOf[t] = k}
<1>9. /\ found["RETRYING"] = IF r.activity = "RETRYING" THEN {0} ELSE Typed("ACTIVITY_RETRY")
      /\ found["EXECUTING"] = {0 : c \in r.claims}
      /\ found["SLEEPING"] = Typed("SLEEP") /\ found["POLLING"] = Typed("POLL")
  BY Zenon DEF Evidence
<1> HIDE DEF found
<1>10. r.claims = {}
  BY <1>8, <1>9
<1>11. Typed("ACTIVITY_RETRY") = {} /\ Typed("SLEEP") = {} /\ Typed("POLL") = {}
  <2> HIDE DEF Typed
  <2> QED
    BY <1>8, <1>9, Zenon
<1>12. ASSUME NEW u \in r.timers, u.status = "SCHEDULED", u.id \in Timers PROVE FALSE
  <2>1. u.id \in scheduled
    BY <1>12, Zenon
  <2>2. KindOf[u.id] \in {"SLEEP", "POLL", "ACTIVITY_RETRY"}
    BY <1>12, KindsKnown
  <2> HIDE DEF scheduled
  <2> QED
    BY <1>11, <2>1, <2>2
<1> QED
  BY <1>3, <1>10, <1>12

(* The reads, each of what is stored at that moment. *)
LEMMA ReadsAreTrueToTheRun ==
  ASSUME RunInv, SeenInv, UNCHANGED <<now, runVars>>,
         GetWorkflow \/ ReadActivities \/ ListClaimDir \/ ReadClaims \/ ListTimerDirs \/ ReadTimers
  PROVE  RunInv' /\ SeenInv' /\ inspector'.at # "answered"
<1> DEFINE seen == inspector.seen
<1>1. UNCHANGED <<run, now, executing, alone, woken>>
  BY Zenon DEF runVars
<1>2. /\ DOMAIN inspector = {"at", "limit", "listed", "seen", "response"}
      /\ DOMAIN seen = {"workflow", "activity", "claims", "timers", "truncated"}
  BY Zenon DEF SeenInv
<1>3. inspector.at # "idle" => RunInv'
  BY <1>1, Zenon DEF RunInv, NoWake
<1>4. CASE GetWorkflow
  <2>1. /\ inspector.at = "workflow" /\ inspector'.at = "activities"
        /\ inspector'.seen.workflow = run.status
        /\ DOMAIN inspector' = DOMAIN inspector /\ DOMAIN inspector'.seen = DOMAIN seen
    BY <1>2, <1>4, Zenon DEF GetWorkflow, Saw, ReadOrder
  <2>2. SeenInv'
    BY <1>1, <1>2, <2>1 DEF SeenInv, RunInv, RunStates
  <2> QED
    BY <1>3, <2>1, <2>2
<1>5. CASE ReadActivities
  <2>1. /\ inspector.at = "activities"
        /\ inspector'.at = IF ListClaims THEN "list claims" ELSE "list timers"
        /\ inspector'.seen.workflow = seen.workflow
        /\ DOMAIN inspector' = DOMAIN inspector /\ DOMAIN inspector'.seen = DOMAIN seen
    BY <1>2, <1>5, Zenon DEF ReadActivities, Saw, ReadOrder
  <2>2. SeenInv'
    BY <1>1, <1>2, <2>1 DEF SeenInv
  <2> QED
    BY <1>3, <2>1, <2>2
<1>6. CASE ListClaimDir
  <2>1. /\ inspector.at = "list claims" /\ inspector'.at = "claims" /\ inspector'.seen = seen
        /\ inspector'.listed = {x \in {"claim"} : run.claimed}
        /\ DOMAIN inspector' = DOMAIN inspector
    BY <1>2, <1>6, Zenon DEF ListClaimDir
  <2>2. inspector'.listed = {} => ~run.claimed
    BY <2>1, Zenon
  <2>3. SeenInv'
    BY <1>1, <1>2, <2>1, <2>2 DEF SeenInv
  <2> QED
    BY <1>3, <2>1, <2>3
<1>7. CASE ReadClaims
  <2>1. /\ inspector.at = "claims" /\ inspector'.at = "list timers"
        /\ inspector'.seen.workflow = seen.workflow
        /\ DOMAIN inspector' = DOMAIN inspector /\ DOMAIN inspector'.seen = DOMAIN seen
    BY <1>2, <1>7, Zenon DEF ReadClaims, Saw, ReadOrder
  <2>2. inspector'.seen.claims =
          {[lease_expires_at |-> run.claimedAt + Lease] : x \in {y \in inspector.listed : run.claimed}}
    BY <1>2, <1>7, Zenon DEF ReadClaims, Saw
  <2>3. inspector'.seen.claims = {} => inspector.listed = {} \/ ~run.claimed
    BY <2>2, Zenon
  <2>4. ListClaims => Unclaimed'
    BY <1>1, <2>1, <2>3 DEF SeenInv, Unclaimed
  <2>5. SeenInv'
    BY <1>1, <1>2, <2>1, <2>4 DEF SeenInv
  <2> QED
    BY <1>3, <2>1, <2>5
<1>8. CASE ListTimerDirs
  <2>1. /\ inspector.at = "list timers" /\ inspector'.at = "timers" /\ inspector'.seen = seen
        /\ inspector'.listed = {t \in Timers : run.timers[t] # "none"}
        /\ DOMAIN inspector' = DOMAIN inspector
    BY <1>2, <1>8 DEF ListTimerDirs
  <2>2. ListClaims => Unclaimed'
    BY <1>1, <2>1 DEF SeenInv, Unclaimed
  <2>3. SeenInv'
    BY <1>1, <1>2, <2>1, <2>2 DEF SeenInv
  <2> QED
    BY <1>3, <2>1, <2>3
<1>9. CASE ReadTimers
  <2> DEFINE kept == FirstRecords(inspector.listed)
  <2>1. /\ inspector.at = "timers" /\ inspector'.at = "derive"
        /\ inspector'.seen.workflow = seen.workflow /\ inspector'.seen.claims = seen.claims
        /\ inspector'.seen.truncated = (kept # inspector.listed)
        /\ inspector'.seen.timers = {[id |-> t, status |-> run.timers[t]] : t \in kept}
        /\ DOMAIN inspector' = DOMAIN inspector /\ DOMAIN inspector'.seen = DOMAIN seen
    BY <1>2, <1>9 DEF ReadTimers, ReadOrder
  <2>2. ListClaims => Unclaimed'
    BY <1>1, <2>1 DEF SeenInv, Unclaimed
  <2>3. ASSUME ListClaims, ~woken, seen.claims = {}, kept = inspector.listed,
               NEW t \in Scheduled(run.timers)
        PROVE  [id |-> t, status |-> "SCHEDULED"] \in inspector'.seen.timers
    <3>1. t \in Timers /\ run.timers[t] = "SCHEDULED"
      BY Zenon DEF Scheduled, RunInv, RunStates
    <3>2. t \in inspector.listed
      BY <2>1, <2>3, <3>1 DEF SeenInv
    <3> QED
      BY <2>1, <2>3, <3>1, <3>2
  <2> HIDE DEF kept
  <2>4. SeenInv'
    BY <1>1, <1>2, <2>1, <2>2, <2>3 DEF SeenInv
  <2> QED
    BY <1>3, <2>1, <2>4, Zenon
<1> QED
  BY <1>4, <1>5, <1>6, <1>7, <1>8, <1>9

(* The answer is given by records that were read without a claim: a run     *)
(* that nobody has invoked since has no wake.                               *)
LEMMA AnswersAreTrue ==
  ASSUME RunInv, SeenInv, Derive
  PROVE  RunInv' /\ SeenInv' /\ NoFalseAlarm'
<1> DEFINE seen == inspector.seen
<1>1. UNCHANGED <<run, now, executing, alone, woken>>
  BY Zenon DEF Derive, runVars
<1>2. /\ inspector.at = "derive" /\ inspector'.at = "answered"
      /\ inspector'.response =
           DescribeRunResponse(DerivePending(seen), ListClaims, seen.truncated)
      /\ DOMAIN inspector' = DOMAIN inspector /\ inspector'.seen = NoRecords
  BY Zenon DEF Derive, SeenInv
<1>3. RunInv'
  BY <1>1, <1>2, Zenon DEF RunInv, NoWake
<1>4. SeenInv'
  BY <1>2, Zenon DEF SeenInv, NoRecords
<1>5. ASSUME DerivePending(seen).reason = "WAITING_NO_WAKE", ListClaims, ~seen.truncated,
             ~woken, run.status # "COMPLETED"
      PROVE  alone
  <2>1. seen.workflow \in {"none", "IN_PROGRESS", "COMPLETED"}
    BY <1>2, Zenon DEF SeenInv
  <2>2. /\ seen.workflow = "IN_PROGRESS" /\ seen.claims = {}
        /\ \A u \in seen.timers : u.status = "SCHEDULED" => u.id \notin Timers
    BY <1>5, <2>1, LastReason
  <2>3. ~run.claimed
    BY <1>2, <1>5, <2>2, Zenon DEF SeenInv, Unclaimed
  <2>4. run.status = "IN_PROGRESS"
    BY <1>2, <1>5, <2>2 DEF SeenInv, RunInv, RunStates
  <2>5. ASSUME NEW t \in Scheduled(run.timers) PROVE FALSE
    <3>1. t \in Timers
      BY Zenon DEF Scheduled, RunInv, RunStates
    <3>2. [id |-> t, status |-> "SCHEDULED"] \in seen.timers
      BY <1>2, <1>5, <2>2 DEF SeenInv
    <3> QED
      BY <2>2, <3>1, <3>2
  <2>6. NoWake(run)
    BY <2>3, <2>4, <2>5 DEF NoWake
  <2> QED
    BY <1>2, <2>6, Zenon DEF RunInv
<1>6. NoFalseAlarm'
  <2>1. /\ inspector'.response.pending = DerivePending(seen)
        /\ inspector'.response.claims_inspected = ListClaims
        /\ inspector'.response.truncated = seen.truncated
    <3>1. PICK a, b, c : a = DerivePending(seen) /\ b = ListClaims /\ c = seen.truncated
      BY Zenon
    <3>2. /\ DescribeRunResponse(a, b, c).pending = a
          /\ DescribeRunResponse(a, b, c).claims_inspected = b
          /\ DescribeRunResponse(a, b, c).truncated = c
      BY Zenon DEF DescribeRunResponse
    <3>3. inspector'.response = DescribeRunResponse(a, b, c)
      BY <1>2, <3>1, Zenon
    <3>4. /\ inspector'.response.pending = a
          /\ inspector'.response.claims_inspected = b
          /\ inspector'.response.truncated = c
      BY <3>2, <3>3, Zenon
    <3> QED
      BY <3>1, <3>4, Zenon
  <2> QED
    BY <1>1, <1>5, <2>1, Zenon DEF NoFalseAlarm
<1> QED
  BY <1>3, <1>4, <1>6, Zenon

LEMMA DescriptionStarts ==
  DescriptionInit => DescriptionInv
<1> SUFFICES ASSUME DescriptionInit PROVE DescriptionInv
  OBVIOUS
<1>1. run \in RunStates
  BY Zenon DEF DescriptionInit, RunStates
<1>2. inspector = [at |-> "idle", limit |-> 0, listed |-> {}, seen |-> NoRecords, response |-> Null]
  BY Zenon DEF DescriptionInit
<1>3. RunInv
  <2>1. run.claimed
    BY Zenon DEF DescriptionInit
  <2>2. now = 0 /\ executing = TRUE /\ alone = FALSE /\ woken = FALSE /\ inspector.at = "idle"
    BY <1>2 DEF DescriptionInit
  <2> QED
    BY <1>1, <2>1, <2>2, Zenon DEF RunInv
<1>4. SeenInv
  BY <1>2, Zenon DEF SeenInv, NoRecords
<1> QED
  BY <1>2, <1>3, <1>4 DEF DescriptionInv, NoFalseAlarm

LEMMA DescriptionSteps ==
  ASSUME DescriptionInv, [DescriptionNext]_descriptionVars
  PROVE  DescriptionInv'
<1> USE DEF DescriptionInv
<1>1. CASE inspector.at # "answered" /\ RunNext
  <2>1. RunInv' /\ SeenInv' /\ inspector' = inspector
    BY <1>1, RunSteps, SeenStaysTrue DEF Quiet
  <2> QED
    BY <1>1, <2>1, Zenon DEF NoFalseAlarm
<1>2. ASSUME NEW limit \in RunLimits, BeginDescribe(limit) PROVE DescriptionInv'
  <2>1. /\ inspector'.at = "workflow" /\ inspector'.seen = inspector.seen
        /\ DOMAIN inspector' = DOMAIN inspector
    BY <1>2, Zenon DEF BeginDescribe, SeenInv
  <2>2. alone' = NoWake(run) /\ woken' = FALSE /\ UNCHANGED <<now, run, executing>>
    BY <1>2, Zenon DEF BeginDescribe
  <2>3. RunInv'
    BY <2>2, Zenon DEF RunInv, NoWake
  <2>4. SeenInv'
    BY <2>1, Zenon DEF SeenInv
  <2> QED
    BY <2>1, <2>3, <2>4, Zenon DEF NoFalseAlarm
<1>3. CASE GetWorkflow \/ ReadActivities \/ ListClaimDir \/ ReadClaims \/ ListTimerDirs \/ ReadTimers
  <2>1. UNCHANGED <<now, runVars>>
    BY <1>3, Zenon DEF GetWorkflow, ReadActivities, ListClaimDir, ReadClaims, ListTimerDirs,
       ReadTimers
  <2>2. RunInv' /\ SeenInv' /\ inspector'.at # "answered"
    BY <1>3, <2>1, ReadsAreTrueToTheRun
  <2> QED
    BY <2>2, Zenon DEF NoFalseAlarm
<1>4. CASE ReadError \/ NotFound
  <2>1. /\ inspector'.at = "idle" /\ inspector'.seen = NoRecords
        /\ DOMAIN inspector' = DOMAIN inspector
    BY <1>4 DEF ReadError, NotFound, SeenInv
  <2>2. alone' = FALSE /\ woken' = FALSE /\ UNCHANGED <<now, run, executing>>
    BY <1>4, Zenon DEF ReadError, NotFound
  <2>3. RunInv'
    BY <2>1, <2>2, Zenon DEF RunInv
  <2>4. SeenInv'
    BY <2>1, Zenon DEF SeenInv, NoRecords
  <2> QED
    BY <2>1, <2>3, <2>4 DEF NoFalseAlarm
<1>5. CASE Derive
  BY <1>5, AnswersAreTrue, Zenon
<1>6. CASE UNCHANGED descriptionVars
  <2>1. UNCHANGED <<now, run, executing, alone, woken, inspector>>
    BY <1>6, Zenon DEF descriptionVars, runVars
  <2>2. RunInv' /\ NoFalseAlarm'
    BY <2>1, Zenon DEF RunInv, NoWake, NoFalseAlarm
  <2>3. SeenInv'
    BY <2>1 DEF SeenInv, Unclaimed
  <2> QED
    BY <2>2, <2>3, Zenon
<1> QED
  BY <1>1, <1>2, <1>3, <1>4, <1>5, <1>6 DEF DescriptionNext

(* A description that is not truncated never calls a run stuck that was not *)
(* stuck at some moment of it, although it reads the claims and the timers  *)
(* one after the other while the run goes on.                               *)
THEOREM NoAlarmIsFalse ==
  DescriptionSpec => []NoFalseAlarm
<1>1. DescriptionInit => DescriptionInv
  BY DescriptionStarts, Zenon
<1>2. DescriptionInv /\ [DescriptionNext]_descriptionVars => DescriptionInv'
  BY DescriptionSteps, Zenon
<1>3. DescriptionInv => NoFalseAlarm
  BY Zenon DEF DescriptionInv
<1> QED
  BY <1>1, <1>2, <1>3, PTL DEF DescriptionSpec

-----------------------------------------------------------------------------
(* The run cache.  CacheCoherent is not inductive: what a call will write   *)
(* back has to be known before it is written.  Fresh says that: a call that *)
(* was not overtaken carries what the store holds now.                      *)

Fresh ==
  \A b \in Branches : \A e \in access[b].covers :
    access[b].at = "back" /\ access[b].do # "filter" /\ e \notin access[b].overtaken
      => access[b].got[e] = inner[e]

CacheInv == CacheTypeOK /\ Fresh /\ CacheCoherent

(* A call is a record of the declared shape. *)
LEMMA CallTyped ==
  ASSUME NEW w \in {"rest", "ready", "back"}, NEW do \in {"read", "write", "list", "filter"},
         NEW S \in SUBSET Entries, NEW f \in [Entries -> Contents]
  PROVE  /\ Call(w, do, S, f) \in Calls
         /\ Call(w, do, S, f).at = w
         /\ Call(w, do, S, f).do = do
         /\ Call(w, do, S, f).covers = S
         /\ Call(w, do, S, f).overtaken = {}
         /\ \A e \in S : Call(w, do, S, f).got[e] = f[e]
  BY Zenon DEF Call, Calls, Contents

LEMMA AllType ==
  ASSUME NEW v \in Contents
  PROVE  All(v) \in [Entries -> Contents]
  BY Zenon DEF All

LEMMA RestType == AtRest \in Calls /\ AtRest.at = "rest"
  <1>1. All(NoRecord) \in [Entries -> Contents]
    BY AllType, Zenon DEF Contents
  <1> QED BY <1>1, ZenonT(20) DEF AtRest, Call, Calls, Contents

(* The initial memory is empty, so it says nothing. *)
LEMMA CacheStarts == CacheInit => CacheInv
  <1> SUFFICES ASSUME CacheInit PROVE CacheInv
    OBVIOUS
  <1>1. CacheTypeOK
    BY RestType, MaxMishapsIsNat DEF CacheInit, CacheTypeOK, All
  <1>2. Fresh
    BY RestType, Zenon DEF CacheInit, Fresh
  <1>3. CacheCoherent
    BY Zenon DEF CacheInit, CacheCoherent, Known, All
  <1> QED BY <1>1, <1>2, <1>3, Zenon DEF CacheInv

(* Replacing one branch's call by one that is not in its write-back keeps   *)
(* the invariant when nothing was writing through on its behalf.            *)
LEMMA BeginStep ==
  ASSUME CacheInv, NEW b \in Branches, NEW o \in Calls, o.at # "back",
         access[b].at # "back", access' = [access EXCEPT ![b] = o],
         UNCHANGED <<inner, cached, listed, suspect>>, mishaps' \in 0..MaxMishaps
  PROVE  CacheInv'
  <1>0. access \in [Branches -> Calls] /\ CacheTypeOK /\ Fresh /\ CacheCoherent
    BY Zenon DEF CacheInv, CacheTypeOK
  <1>1. CacheTypeOK'
    BY <1>0, Zenon DEF CacheTypeOK
  <1>2. Fresh'
    BY <1>0 DEF Fresh
  <1>3. ASSUME NEW e \in Entries PROVE WritingThrough(e)' = WritingThrough(e)
    BY <1>0, Zenon DEF WritingThrough
  <1>4. CacheCoherent'
    BY <1>0, <1>3, Zenon DEF CacheCoherent, Known, View
  <1> QED BY <1>1, <1>2, <1>4, Zenon DEF CacheInv

(* A call that reads carries what the store holds. *)
LEMMA ReadStep ==
  ASSUME CacheInv, NEW b \in Branches, ReadStore(b)
  PROVE  CacheInv'
  <1>0. access \in [Branches -> Calls] /\ inner \in [Entries -> Contents]
        /\ CacheTypeOK /\ Fresh /\ CacheCoherent
    BY Zenon DEF CacheInv, CacheTypeOK
  <1> DEFINE f == IF access[b].do = "filter" THEN Filtered(b) ELSE inner
             o == Call("back", access[b].do, access[b].covers, f)
  <1>1. access[b].do \in {"read", "write", "list", "filter"} /\ access[b].covers \in SUBSET Entries
    BY <1>0, Zenon DEF Calls
  <1>2. f \in [Entries -> Contents]
    BY <1>0, Zenon DEF Filtered, Contents
  <1> HIDE DEF f
  <1>3. /\ o \in Calls /\ o.at = "back" /\ o.do = access[b].do /\ o.covers = access[b].covers
        /\ o.overtaken = {} /\ \A e \in access[b].covers : o.got[e] = f[e]
    BY <1>1, <1>2, Zenon DEF Call, Calls, Contents
  <1>4. access' = [access EXCEPT ![b] = o] /\ UNCHANGED <<inner, cached, listed, suspect, mishaps>>
        /\ access[b].at = "ready" /\ access[b].do # "write"
    BY Zenon DEF ReadStore, f
  <1> HIDE DEF o
  <1>5. CacheTypeOK'
    BY <1>0, <1>3, <1>4, Zenon DEF CacheTypeOK
  <1>6. Fresh'
    <2> SUFFICES ASSUME NEW c \in Branches, NEW e \in access'[c].covers, access'[c].at = "back",
                        access'[c].do # "filter", e \notin access'[c].overtaken
                 PROVE  access'[c].got[e] = inner'[e]
      BY Zenon DEF Fresh
    <2>1. CASE c = b
      <3>1. access'[c] = o
        BY <2>1, <1>0, <1>4, Zenon
      <3>2. f = inner
        BY <3>1, <1>3, Zenon DEF f
      <3> QED BY <3>1, <3>2, <1>3, <1>4, Zenon
    <2>2. CASE c # b
      <3>1. access'[c] = access[c]
        BY <2>2, <1>0, <1>4, Zenon
      <3> QED BY <3>1, <1>0, <1>4, Zenon DEF Fresh
    <2> QED BY <2>1, <2>2, Zenon
  <1>7. ASSUME NEW e \in Entries PROVE WritingThrough(e)' = WritingThrough(e)
    BY <1>0, <1>3, <1>4, Zenon DEF WritingThrough
  <1>8. CacheCoherent'
    BY <1>0, <1>4, <1>7, Zenon DEF CacheCoherent, Known, View
  <1> QED BY <1>5, <1>6, <1>8, Zenon DEF CacheInv

(* Overtaking changes nothing but the overtaken entries of a call. *)
LEMMA OvertakeType ==
  ASSUME CacheTypeOK, NEW S \in SUBSET Entries, NEW c \in Branches
  PROVE  /\ Overtake(S) \in [Branches -> Calls]
         /\ Overtake(S)[c].at = access[c].at
         /\ Overtake(S)[c].do = access[c].do
         /\ Overtake(S)[c].covers = access[c].covers
         /\ Overtake(S)[c].got = access[c].got
         /\ access[c].at = "back"
              => Overtake(S)[c].overtaken = access[c].overtaken \cup (S \cap access[c].covers)
  <1>0. access \in [Branches -> Calls]
    BY Zenon DEF CacheTypeOK
  <1>1. ASSUME NEW d \in Branches
        PROVE  [access[d] EXCEPT !.overtaken = @ \cup (S \cap access[d].covers)] \in Calls
    BY <1>0 DEF Calls
  <1>2. Overtake(S) \in [Branches -> Calls]
    BY <1>0, <1>1, Zenon DEF Overtake
  <1>3. access[c] \in Calls
    BY <1>0, Zenon
  <1>4. Overtake(S)[c] = IF access[c].at = "back"
                           THEN [access[c] EXCEPT !.overtaken = @ \cup (S \cap access[c].covers)]
                           ELSE access[c]
    BY Zenon DEF Overtake
  <1> QED BY <1>2, <1>3, <1>4 DEF Calls

(* A store write by a branch: every other call that carries the entry is    *)
(* overtaken, and the branch itself is writing it through.                  *)
LEMMA WriteStep ==
  ASSUME CacheInv, NEW b \in Branches, WriteStore(b)
  PROVE  CacheInv'
  <1> DEFINE S == access[b].covers
             o == Call("back", "write", S, access[b].got)
  <1>0. access \in [Branches -> Calls] /\ inner \in [Entries -> Contents]
        /\ CacheTypeOK /\ Fresh /\ CacheCoherent
    BY Zenon DEF CacheInv, CacheTypeOK
  <1>1. S \in SUBSET Entries /\ access[b].got \in [Entries -> Contents]
    BY <1>0, Zenon DEF Calls
  <1>2. /\ o \in Calls /\ o.at = "back" /\ o.do = "write" /\ o.covers = S
        /\ o.overtaken = {} /\ \A e \in S : o.got[e] = access[b].got[e]
    BY <1>1, Zenon DEF Call, Calls, Contents
  <1>3. /\ access' = [Overtake(S) EXCEPT ![b] = o]
        /\ inner' = [e \in Entries |-> IF e \in S THEN access[b].got[e] ELSE inner[e]]
        /\ UNCHANGED <<cached, listed, suspect, mishaps>>
        /\ access[b].at = "ready"
    BY Zenon DEF WriteStore, StoreWrite
  <1>4. Overtake(S) \in [Branches -> Calls]
    BY <1>0, <1>1, OvertakeType, Zenon
  <1>5. access'[b] = o /\ \A c \in Branches : c # b => access'[c] = Overtake(S)[c]
    BY <1>3, <1>4, Zenon
  <1> HIDE DEF o
  <1>6. CacheTypeOK'
    BY <1>0, <1>1, <1>2, <1>3, <1>4, Zenon DEF CacheTypeOK
  <1>7. Fresh'
    <2> SUFFICES ASSUME NEW c \in Branches, NEW e \in access'[c].covers, access'[c].at = "back",
                        access'[c].do # "filter", e \notin access'[c].overtaken
                 PROVE  access'[c].got[e] = inner'[e]
      BY Zenon DEF Fresh
    <2>1. CASE c = b
      <3>1. e \in S /\ access'[c].got[e] = access[b].got[e]
        BY <2>1, <1>2, <1>5, Zenon
      <3> QED
        BY <1>1, <1>3, <3>1, Zenon
    <2>2. CASE c # b
      <3>1. access'[c] = Overtake(S)[c]
        BY <2>2, <1>5, Zenon
      <3>2. e \in access[c].covers /\ access[c].at = "back" /\ access[c].do # "filter"
            /\ access'[c].got = access[c].got /\ e \notin access[c].overtaken /\ e \notin S
        <4>1. /\ Overtake(S)[c].at = access[c].at /\ Overtake(S)[c].do = access[c].do
              /\ Overtake(S)[c].covers = access[c].covers /\ Overtake(S)[c].got = access[c].got
              /\ access[c].at = "back"
                   => Overtake(S)[c].overtaken = access[c].overtaken \cup (S \cap access[c].covers)
          BY <1>0, <1>1, OvertakeType, Zenon
        <4> HIDE DEF S
        <4> QED
          BY <3>1, <4>1, Zenon
      <3>3. e \in Entries
        BY <3>2, <1>0, Zenon DEF Calls
      <3>4. inner'[e] = inner[e]
        BY <3>2, <3>3, <1>3, Zenon
      <3> QED BY <3>2, <3>4, <1>0 DEF Fresh
    <2> QED BY <2>1, <2>2, Zenon
  <1>8. CacheCoherent'
    <2> SUFFICES ASSUME NEW e \in Entries, Known(e)', e \notin suspect', ~ WritingThrough(e)'
                 PROVE  View(e)' = inner'[e]
      BY Zenon DEF CacheCoherent
    <2>1. e \notin S
      BY <1>2, <1>5, Zenon DEF WritingThrough
    <2>2. ~ WritingThrough(e)
      <3> SUFFICES ASSUME NEW c \in Branches, access[c].at = "back", access[c].do = "write",
                          e \in access[c].covers, e \notin access[c].overtaken
                   PROVE  FALSE
        BY Zenon DEF WritingThrough
      <3>1. c # b /\ access'[c] = Overtake(S)[c]
        BY <1>3, <1>5, Zenon
      <3>2. /\ Overtake(S)[c].at = access[c].at /\ Overtake(S)[c].do = access[c].do
            /\ Overtake(S)[c].covers = access[c].covers
            /\ Overtake(S)[c].overtaken = access[c].overtaken \cup (S \cap access[c].covers)
        BY <1>0, <1>1, OvertakeType, SMT, ZenonT(40)
      <3>3. access'[c].at = "back" /\ access'[c].do = "write" /\ access'[c].covers = access[c].covers
            /\ access'[c].overtaken = access[c].overtaken \cup (S \cap access[c].covers)
        BY <3>1, <3>2, Zenon
      <3> QED BY <3>3, <2>1, Zenon DEF WritingThrough
    <2>3. inner'[e] = inner[e] /\ View(e)' = View(e) /\ Known(e) /\ e \notin suspect
      BY <2>1, <1>3, Zenon DEF View, Known
    <2> QED BY <2>2, <2>3, <1>0, Zenon DEF CacheCoherent
  <1> QED BY <1>6, <1>7, <1>8, Zenon DEF CacheInv

(* A store write that no branch will write through: the written entries     *)
(* become suspect.                                                          *)
LEMMA ForeignStep ==
  ASSUME CacheInv, NEW S \in SUBSET Entries, NEW f \in [Entries -> Contents],
         StoreWrite(S, f), suspect' = suspect \cup S, UNCHANGED <<cached, listed>>,
         mishaps' \in 0..MaxMishaps,
         access' \in [Branches -> Calls],
         \A c \in Branches : access'[c] = Overtake(S)[c] \/ (access[c].at # "back" /\ access'[c] = AtRest)
  PROVE  CacheInv'
  <1>0. access \in [Branches -> Calls] /\ inner \in [Entries -> Contents]
        /\ CacheTypeOK /\ Fresh /\ CacheCoherent
    BY Zenon DEF CacheInv, CacheTypeOK
  <1>1. inner' = [e \in Entries |-> IF e \in S THEN f[e] ELSE inner[e]]
    BY Zenon DEF StoreWrite
  <1>2. CacheTypeOK'
    BY <1>0, <1>1, Zenon DEF CacheTypeOK
  <1>3. Fresh'
    <2> SUFFICES ASSUME NEW c \in Branches, NEW e \in access'[c].covers, access'[c].at = "back",
                        access'[c].do # "filter", e \notin access'[c].overtaken
                 PROVE  access'[c].got[e] = inner'[e]
      BY Zenon DEF Fresh
    <2>1. access'[c] = Overtake(S)[c]
      BY RestType, Zenon
    <2>2. e \in access[c].covers /\ access[c].at = "back" /\ access[c].do # "filter"
          /\ access'[c].got = access[c].got /\ e \notin access[c].overtaken /\ e \notin S
      <3>1. /\ Overtake(S)[c].at = access[c].at /\ Overtake(S)[c].do = access[c].do
            /\ Overtake(S)[c].covers = access[c].covers /\ Overtake(S)[c].got = access[c].got
            /\ access[c].at = "back"
                 => Overtake(S)[c].overtaken = access[c].overtaken \cup (S \cap access[c].covers)
        BY <1>0, OvertakeType, Zenon
      <3> QED
        BY <2>1, <3>1, Zenon
    <2>3. e \in Entries
      BY <2>2, <1>0, Zenon DEF Calls
    <2>4. inner'[e] = inner[e]
      BY <2>2, <2>3, <1>1, Zenon
    <2> QED BY <2>2, <2>4, <1>0 DEF Fresh
  <1>4. CacheCoherent'
    <2> SUFFICES ASSUME NEW e \in Entries, Known(e)', e \notin suspect', ~ WritingThrough(e)'
                 PROVE  View(e)' = inner'[e]
      BY Zenon DEF CacheCoherent
    <2>1. e \notin S /\ e \notin suspect
      OBVIOUS
    <2>2. ~ WritingThrough(e)
      <3> SUFFICES ASSUME NEW c \in Branches, access[c].at = "back", access[c].do = "write",
                          e \in access[c].covers, e \notin access[c].overtaken
                   PROVE  FALSE
        BY Zenon DEF WritingThrough
      <3>1. access'[c] = Overtake(S)[c]
        OBVIOUS
      <3>2. /\ Overtake(S)[c].at = access[c].at /\ Overtake(S)[c].do = access[c].do
            /\ Overtake(S)[c].covers = access[c].covers
            /\ Overtake(S)[c].overtaken = access[c].overtaken \cup (S \cap access[c].covers)
        BY <1>0, OvertakeType, SMT, ZenonT(40)
      <3>3. access'[c].at = "back" /\ access'[c].do = "write" /\ access'[c].covers = access[c].covers
            /\ access'[c].overtaken = access[c].overtaken \cup (S \cap access[c].covers)
        BY <3>1, <3>2, Zenon
      <3> QED BY <3>3, <2>1, Zenon DEF WritingThrough
    <2>3. inner'[e] = inner[e] /\ View(e)' = View(e) /\ Known(e)
      BY <2>1, <1>1, Zenon DEF View, Known
    <2> QED BY <2>1, <2>2, <2>3, <1>0, Zenon DEF CacheCoherent
  <1> QED BY <1>2, <1>3, <1>4, Zenon DEF CacheInv

(* The write-back of a set T of the entries a call covers, and possibly the  *)
(* mark that their kind is listed: what was not overtaken was fresh.         *)
LEMMA RememberStep ==
  ASSUME CacheInv, NEW b \in Branches, access[b].at = "back", access[b].do # "filter",
         NEW T \in SUBSET access[b].covers, NEW L \in SUBSET Listable, listed \subseteq L,
         listed' = L, access' = [access EXCEPT ![b] = AtRest], UNCHANGED <<inner, mishaps>>,
         cached' \in [Entries -> Contents \cup {Unknown}],
         suspect' = (suspect \ T) \cup (access[b].overtaken \cap T),
         \A e \in T : View(e)' = access[b].got[e],
         \A e \in Entries \ T : View(e)' = View(e) /\ (Known(e)' => Known(e)),
         access[b].do = "write" => T = access[b].covers
  PROVE  CacheInv'
  <1>0. access \in [Branches -> Calls] /\ CacheTypeOK /\ Fresh /\ CacheCoherent
    BY Zenon DEF CacheInv, CacheTypeOK
  <1>1. access[b].covers \subseteq Entries
    BY <1>0, Zenon DEF Calls
  <1>2. CacheTypeOK'
    BY <1>0, <1>1, RestType, Zenon DEF CacheTypeOK
  <1>3. Fresh'
    BY <1>0, RestType DEF Fresh
  <1>4. CacheCoherent'
    <2> SUFFICES ASSUME NEW e \in Entries, Known(e)', e \notin suspect', ~ WritingThrough(e)'
                 PROVE  View(e)' = inner'[e]
      BY Zenon DEF CacheCoherent
    <2>1. CASE e \in T
      <3>1. e \notin access[b].overtaken
        BY <2>1, Zenon
      <3>2. access[b].got[e] = inner[e]
        BY <2>1, <3>1, <1>0, Zenon DEF Fresh
      <3> QED BY <2>1, <3>2, Zenon
    <2>2. CASE e \notin T
      <3>1. Known(e) /\ View(e)' = View(e) /\ e \notin suspect
        BY <2>2, Zenon
      <3>2. ~ WritingThrough(e)
        <4> SUFFICES ASSUME NEW c \in Branches, access[c].at = "back", access[c].do = "write",
                            e \in access[c].covers, e \notin access[c].overtaken
                     PROVE  FALSE
          BY Zenon DEF WritingThrough
        <4>1. c # b
          BY <2>2, Zenon
        <4>2. access'[c] = access[c]
          BY <4>1, <1>0, Zenon
        <4> QED BY <4>2, Zenon DEF WritingThrough
      <3> QED BY <3>1, <3>2, <1>0, Zenon DEF CacheCoherent
    <2> QED BY <2>1, <2>2, Zenon
  <1> QED BY <1>2, <1>3, <1>4, Zenon DEF CacheInv

(* Every step of the cache, its callers and the store preserves the invariant. *)
LEMMA CacheStep == CacheInv /\ [CacheNext]_cacheVars => CacheInv'
  <1> SUFFICES ASSUME CacheInv, [CacheNext]_cacheVars PROVE CacheInv'
    OBVIOUS
  <1>0. /\ access \in [Branches -> Calls] /\ cached \in [Entries -> Contents \cup {Unknown}]
        /\ listed \subseteq Listable /\ mishaps \in 0..MaxMishaps /\ CacheTypeOK
    BY Zenon DEF CacheInv, CacheTypeOK
  <1>1. ASSUME NEW b \in Branches, NEW o \in Calls, o.at = "ready", Begin(b, o)
        PROVE  CacheInv'
    <2>1. access[b].at # "back"
      BY <1>1, RestType, Zenon DEF Begin
    <2>2. access' = [access EXCEPT ![b] = o] /\ UNCHANGED <<inner, cached, listed, suspect>>
          /\ mishaps' \in 0..MaxMishaps
      BY <1>0, <1>1, Zenon DEF Begin
    <2> QED BY <2>1, <2>2, <1>1, BeginStep
  <1>2. ASSUME NEW b \in Branches, NEW do \in {"read", "write", "list", "filter"},
               NEW S \in SUBSET Entries, NEW v \in Contents,
               Begin(b, Call("ready", do, S, All(v)))
        PROVE  CacheInv'
    <2>1. All(v) \in [Entries -> Contents]
      BY AllType, Zenon
    <2>2. Call("ready", do, S, All(v)) \in Calls /\ Call("ready", do, S, All(v)).at = "ready"
      BY <2>1, CallTyped
    <2> QED BY <2>2, <1>1, <1>2, Zenon
  <1>3. NoRecord \in Contents /\ Values \subseteq Contents
    BY Zenon DEF Contents
  <1>4. ASSUME NEW b \in Branches, NEW e \in Entries, GetMiss(b, e) PROVE CacheInv'
    BY <1>2, <1>3, <1>4, Zenon DEF GetMiss
  <1>5. ASSUME NEW b \in Branches, NEW e \in Entries, Refresh(b, e) PROVE CacheInv'
    BY <1>2, <1>3, <1>5, Zenon DEF Refresh
  <1>6. ASSUME NEW b \in Branches, NEW e \in Entries, Delete(b, e) PROVE CacheInv'
    BY <1>2, <1>3, <1>6, Zenon DEF Delete
  <1>7. ASSUME NEW b \in Branches, NEW e \in Entries, NEW v \in Values, Put(b, e, v)
        PROVE  CacheInv'
    BY <1>2, <1>3, <1>7, Zenon DEF Put
  <1>8. ASSUME NEW b \in Branches, NEW k \in Listable, ListMiss(b, k) PROVE CacheInv'
    <2>1. OfKind(k) \in SUBSET Entries
      BY Zenon DEF OfKind
    <2> QED BY <2>1, <1>2, <1>3, <1>8, Zenon DEF ListMiss
  <1>9. ASSUME NEW b \in Branches, NEW v \in Contents, FilterMiss(b, v) PROVE CacheInv'
    <2>1. OfKind("timer") \in SUBSET Entries
      BY Zenon DEF OfKind
    <2> QED BY <2>1, <1>2, <1>3, <1>9, Zenon DEF FilterMiss
  <1>10. ASSUME NEW b \in Branches, ReadFails(b) PROVE CacheInv'
    <2>1. /\ access' = [access EXCEPT ![b] = AtRest] /\ UNCHANGED <<inner, cached, listed, suspect>>
          /\ access[b].at # "back" /\ mishaps' \in 0..MaxMishaps
      BY <1>0, <1>10, MaxMishapsIsNat DEF ReadFails, Mishap
    <2> QED BY <2>1, RestType, BeginStep, Zenon
  <1>11. ASSUME NEW b \in Branches, WriteFails(b) PROVE CacheInv'
    <2>1. UNCHANGED <<cached, listed>> /\ access[b].at # "back" /\ mishaps' \in 0..MaxMishaps
      BY <1>0, <1>11, MaxMishapsIsNat DEF WriteFails, Mishap
    <2>2. CASE access' = [access EXCEPT ![b] = AtRest] /\ UNCHANGED <<inner, suspect>>
      BY <2>1, <2>2, RestType, BeginStep, Zenon
    <2>3. CASE /\ StoreWrite(access[b].covers, access[b].got)
               /\ access' = [Overtake(access[b].covers) EXCEPT ![b] = AtRest]
               /\ suspect' = suspect \cup access[b].covers
      <3>1. access[b].covers \in SUBSET Entries /\ access[b].got \in [Entries -> Contents]
        BY <1>0, Zenon DEF Calls
      <3>2. Overtake(access[b].covers) \in [Branches -> Calls]
        BY <3>1, <1>0, OvertakeType, Zenon
      <3>3. /\ access' \in [Branches -> Calls] /\ access'[b] = AtRest
            /\ \A c \in Branches : c # b => access'[c] = Overtake(access[b].covers)[c]
        BY <2>3, <3>2, RestType, Zenon
      <3>4. \A c \in Branches : \/ access'[c] = Overtake(access[b].covers)[c]
                                \/ access[c].at # "back" /\ access'[c] = AtRest
        BY <3>3, <2>1, Zenon
      <3> QED BY <3>1, <3>3, <3>4, <2>1, <2>3, ForeignStep
    <2> QED BY <1>11, <2>2, <2>3, Zenon DEF WriteFails
  <1>12. ASSUME NEW e \in Entries, NEW v \in Contents, Outside(e, v) PROVE CacheInv'
    <2>1. {e} \in SUBSET Entries /\ All(v) \in [Entries -> Contents]
      BY AllType, Zenon
    <2>2. /\ StoreWrite({e}, All(v)) /\ access' = Overtake({e}) /\ suspect' = suspect \cup {e}
          /\ UNCHANGED <<cached, listed>> /\ mishaps' \in 0..MaxMishaps
      BY <1>0, <1>12, MaxMishapsIsNat DEF Outside, Mishap
    <2>3. access' \in [Branches -> Calls]
      BY <2>1, <2>2, <1>0, OvertakeType DEF Overtake
    <2> QED BY <2>1, <2>2, <2>3, ForeignStep, Zenon
  <1>13. ASSUME NEW b \in Branches, RememberEntry(b) PROVE CacheInv'
    <2>1. /\ access[b].at = "back" /\ access[b].do \in {"read", "write"}
          /\ cached' = [e \in Entries |-> IF e \in Taken(b) THEN access[b].got[e] ELSE cached[e]]
          /\ suspect' = (suspect \ Taken(b)) \cup (access[b].overtaken \cap Taken(b))
          /\ access' = [access EXCEPT ![b] = AtRest] /\ UNCHANGED <<inner, listed, mishaps>>
      BY <1>13, Zenon DEF RememberEntry
    <2>2. Taken(b) \in SUBSET access[b].covers /\ access[b].covers \subseteq Entries
          /\ access[b].got \in [Entries -> Contents]
      BY <1>0, Zenon DEF Taken, Calls
    <2>3. access[b].do = "write" => Taken(b) = access[b].covers
      BY Zenon DEF Taken, Kept
    <2>4. cached' \in [Entries -> Contents \cup {Unknown}]
      BY <2>1, <2>2, <1>0, Zenon
    <2>5. \A e \in Taken(b) : View(e)' = access[b].got[e]
      BY <2>1, <2>2, UnknownIsNoVersion, Zenon DEF View, Contents
    <2>6. \A e \in Entries \ Taken(b) : View(e)' = View(e) /\ (Known(e)' => Known(e))
      BY <2>1, Zenon DEF View, Known
    <2>7. listed \in SUBSET Listable /\ listed \subseteq listed /\ listed' = listed
      BY <1>0, <2>1, Zenon
    <2>8. access[b].do # "filter"
      BY <2>1, Zenon
    <2> HIDE DEF Taken
    <2> QED BY <2>1, <2>2, <2>3, <2>4, <2>5, <2>6, <2>7, <2>8, RememberStep
  <1>14. ASSUME NEW b \in Branches, RememberList(b) PROVE CacheInv'
    <2> DEFINE T == Settled(b)
    <2>1. /\ access[b].at = "back" /\ access[b].do = "list"
          /\ cached' = [e \in Entries |-> IF e \in Found(b) THEN access[b].got[e] ELSE cached[e]]
          /\ listed' = listed \cup {k \in Listable : access[b].covers = OfKind(k)}
          /\ suspect' = (suspect \ T) \cup (access[b].overtaken \cap T)
          /\ access' = [access EXCEPT ![b] = AtRest] /\ UNCHANGED <<inner, mishaps>>
      BY <1>14, Zenon DEF RememberList
    <2>2. T \in SUBSET access[b].covers /\ access[b].covers \subseteq Entries
          /\ access[b].got \in [Entries -> Contents]
      BY <1>0, Zenon DEF Settled, Found, Calls
    <2>3. cached' \in [Entries -> Contents \cup {Unknown}]
      BY <2>1, <2>2, <1>0, Zenon
    <2>4. ASSUME NEW e \in T PROVE View(e)' = access[b].got[e]
      <3>1. CASE e \in Found(b)
        BY <3>1, <2>1, <2>2, UnknownIsNoVersion, Zenon DEF View, Contents
      <3>2. CASE e \notin Found(b)
        <4>1. access[b].got[e] = NoRecord /\ cached[e] = Unknown /\ e \in Entries
          BY <3>2, <2>2, Zenon DEF Settled, Found, Known
        <4>2. cached'[e] = Unknown
          BY <4>1, <3>2, <2>1, Zenon
        <4> QED BY <4>1, <4>2, Zenon DEF View
      <3> QED BY <3>1, <3>2, Zenon
    <2>5. ASSUME NEW e \in Entries \ T PROVE View(e)' = View(e) /\ (Known(e)' => Known(e))
      <3>1. e \notin Found(b) /\ (e \in access[b].covers => Known(e))
        BY <2>5, Zenon DEF Settled
      <3>2. cached'[e] = cached[e]
        BY <3>1, <2>1, Zenon
      <3>3. Known(e)' => Known(e)
        <4> SUFFICES ASSUME NEW k \in Listable, access[b].covers = OfKind(k), KindOfEntry[e] = k
                     PROVE  Known(e)
          BY <3>2, <2>1, Zenon DEF Known
        <4>1. e \in access[b].covers
          BY Zenon DEF OfKind
        <4> QED BY <4>1, <3>1, Zenon
      <3> QED BY <3>2, <3>3, Zenon DEF View
    <2>6. listed' \in SUBSET Listable /\ listed \subseteq listed'
      BY <2>1, <1>0, Zenon
    <2>7. access[b].do # "filter" /\ access[b].do # "write"
      BY <2>1, Zenon
    <2> HIDE DEF T
    <2> QED BY <2>1, <2>2, <2>3, <2>4, <2>5, <2>6, <2>7, RememberStep
  <1>15. ASSUME NEW b \in Branches, HandOutFiltered(b) PROVE CacheInv'
    <2>1. /\ access[b].do = "filter" /\ access' = [access EXCEPT ![b] = AtRest]
          /\ UNCHANGED <<inner, cached, listed, suspect, mishaps>>
      BY <1>15, Zenon DEF HandOutFiltered
    <2>2. CacheTypeOK'
      BY <2>1, <1>0, RestType, Zenon DEF CacheTypeOK
    <2>3. Fresh'
      BY <2>1, <1>0, RestType DEF Fresh, CacheInv
    <2>4. ASSUME NEW e \in Entries PROVE WritingThrough(e)' = WritingThrough(e)
      BY <2>1, <1>0, RestType, Zenon DEF WritingThrough
    <2>5. CacheCoherent'
      BY <2>1, <2>4, Zenon DEF CacheInv, CacheCoherent, Known, View
    <2> QED BY <2>2, <2>3, <2>5, Zenon DEF CacheInv
  <1>16. CASE UNCHANGED cacheVars
    BY <1>16 DEF cacheVars, CacheInv, CacheTypeOK, Fresh, CacheCoherent, Known, View,
                 WritingThrough
  <1> QED
    BY <1>4, <1>5, <1>6, <1>7, <1>8, <1>9, <1>10, <1>11, <1>12, <1>13, <1>14, <1>15, <1>16,
       ReadStep, WriteStep DEF CacheNext

(* CacheCoherent for every set of branches, records and versions: what the   *)
(* run-scoped cache of workflow/cache.go answers from memory is what the     *)
(* store holds, outside the three exceptions the property names.             *)
THEOREM CacheTellsTheTruth == CacheSpec => []CacheCoherent
  <1>1. CacheInv => CacheCoherent
    BY Zenon DEF CacheInv
  <1> QED BY <1>1, CacheStarts, CacheStep, PTL DEF CacheSpec

(* The maps and the calls keep their shape. *)
THEOREM CacheTypeCorrect == CacheSpec => []CacheTypeOK
  <1>1. CacheInv => CacheTypeOK
    BY Zenon DEF CacheInv
  <1> QED BY <1>1, CacheStarts, CacheStep, PTL DEF CacheSpec
=============================================================================
