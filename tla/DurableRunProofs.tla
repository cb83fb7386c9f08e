-------------------------- MODULE DurableRunProofs --------------------------
(***************************************************************************)
(* For any number of invocations and any body, with claims or without: no  *)
(* wake of a run is lost.  See WakeInv.                                    *)
(*                                                                         *)
(* With claims the run is executed by one invocation at a time, its        *)
(* terminal record is final, and its body never passes a sleep whose       *)
(* deadline is still to come.  See ClaimInv and SleepInv.                  *)
(***************************************************************************)
EXTENDS DurableRun, TLAPS

Known == {NoRecord, Unread} \cup TimerRecord

Stored == {NoRecord} \cup TimerRecord

Returns == {"idle", "exit", "consume", "release"}

Fired(r) == [r EXCEPT !.status = "FIRED"]

(* TypeOK in two halves: what concerns no timer, and what does. *)
TypedCall ==
  /\ workflow \in {"NONE", "IN_PROGRESS", "TERMINAL"} /\ event \in SUBSET Waits
  /\ claim \in {"free", "leaked"} \cup Invocations /\ faults \in Nat
  /\ pc \in [Invocations -> Places] /\ fresh \in [Invocations -> BOOLEAN]
  /\ seen \in [Invocations -> SUBSET Waits] /\ listed \in [Invocations -> BOOLEAN]

TypedMemory ==
  /\ timer \in [Waits -> Stored] /\ done \in BOOLEAN
  /\ cache \in [Invocations -> [Waits -> Known]] /\ pos \in [Invocations -> 1..(N + 1)]
  /\ consumed \in [Invocations -> SUBSET Waits] /\ acking \in [Invocations -> SUBSET Waits]
  /\ except \in [Invocations -> 0..N] /\ next \in [Invocations -> Returns]

(* What an invocation has cached exists in the store. *)
CacheInv(i) == \A k \in Waits : cache[i][k] \in TimerRecord => Armed(k)

(* What it has consumed lies before its position, and while it acknowledges  *)
(* the boundary it stands on is armed or the run has ended.                  *)
PlaceInv(i) ==
  /\ \A k \in consumed[i] : k < pos[i]
  /\ \A k \in acking[i] : k < pos[i]
  /\ pc[i] = "ack" => done \/ (pos[i] \in Waits /\ Armed(pos[i]))
  /\ pc[i] \in {"arm", "resolve", "verify", "consume"} => pos[i] \in Waits
  /\ pc[i] = "ack" /\ next[i] = "consume" => pos[i] \in Waits

(* The last armed wait.  Stated as an invariant, because picking the largest *)
(* element of a set would need induction.                                    *)
LastArmed ==
  \E h \in 0..N : /\ h # 0 => Armed(h)
                  /\ \A k \in Waits : k > h => ~Armed(k)

WakeInv ==
  /\ TypedCall /\ TypedMemory
  /\ FiredBehindSuccessor
  /\ LastArmed
  /\ \A i \in Invocations : CacheInv(i) /\ PlaceInv(i)

(* What a step must keep of the timers. *)
ArmedKept ==
  /\ FiredBehindSuccessor' /\ LastArmed'
  /\ \A l \in Waits : Armed(l) => Armed(l)'

(* The timer side of a step of invocation i. *)
TimerSide(i) ==
  /\ timer' \in [Waits -> Stored] /\ cache' \in [Invocations -> [Waits -> Known]]
  /\ ArmedKept /\ CacheInv(i)' /\ \A q \in Invocations \ {i} : cache'[q] = cache[q]

LEMMA Records ==
  /\ NoRecord \notin TimerRecord /\ Unread \notin TimerRecord /\ NoRecord # Unread
  /\ NoRecord.status \notin {"SCHEDULED", "FIRED"} /\ Unread.status \notin {"SCHEDULED", "FIRED"}
  /\ \A r \in TimerRecord : r.status \in {"SCHEDULED", "FIRED"}
  /\ \A r \in TimerRecord : Fired(r) \in TimerRecord /\ Fired(r).status = "FIRED"
  /\ \A d \in Nat : /\ [status |-> "SCHEDULED", wait |-> d] \in TimerRecord
                    /\ [status |-> "SCHEDULED", wait |-> d].status = "SCHEDULED"
  BY Zenon DEF NoRecord, Unread, TimerRecord, Fired

LEMMA ClosingIn ==
  /\ Closer(NoRecord) = NoRecord /\ Closer(Unread) = Unread
  /\ \A r \in TimerRecord : Closer(r) \in TimerRecord /\ Closer(r).status = r.status
<1>1. Closer(NoRecord) = NoRecord /\ Closer(Unread) = Unread
  BY DEF Closer, NoRecord, Unread
<1>2. ASSUME NEW r \in TimerRecord PROVE Closer(r) \in TimerRecord /\ Closer(r).status = r.status
  BY DEF Closer, TimerRecord
<1> QED
  BY <1>1, <1>2, Zenon

LEMMA Numbers ==
  /\ \A k \in Waits : /\ k \in Nat /\ k \in 0..N /\ ~(k < 1)
                      /\ k \in 1..(N + 1) /\ k + 1 \in 1..(N + 1)
  /\ 1 \in 1..(N + 1) /\ 0 \in 0..N /\ \A p \in 1..(N + 1) : p \in Nat
  BY NIsNat DEF Waits

LEMMA WakeInvInit == Init => WakeInv
<1> SUFFICES ASSUME Init PROVE WakeInv
  OBVIOUS
<1>1. TypedCall
  BY Zenon DEF Init, TypedCall, Places
<1>2. TypedMemory
  BY Numbers, Zenon DEF Init, TypedMemory, Stored, Known, Returns
<1>3. FiredBehindSuccessor
  BY Records, Zenon DEF Init, FiredBehindSuccessor
<1>4. LastArmed
  BY NIsNat DEF Init, LastArmed, Armed
<1>5. ASSUME NEW i \in Invocations PROVE CacheInv(i) /\ PlaceInv(i)
  BY Records, Zenon DEF Init, CacheInv, PlaceInv
<1> QED
  BY <1>1, <1>2, <1>3, <1>4, <1>5, Zenon DEF WakeInv

-----------------------------------------------------------------------------
(* Steps seen from the timers *)

LEMMA NoTimerWritten ==
  ASSUME WakeInv, UNCHANGED timer, done => done'
  PROVE  ArmedKept
  BY Zenon DEF WakeInv, ArmedKept, FiredBehindSuccessor, LastArmed, Armed

(* A write of a timer arms it, and only moves the last armed wait forward. *)
LEMMA ArmingKeeps ==
  ASSUME timer \in [Waits -> Stored], LastArmed, NEW k \in Waits, NEW r \in TimerRecord,
         timer' = [timer EXCEPT ![k] = r]
  PROVE  /\ timer' \in [Waits -> Stored] /\ LastArmed' /\ Armed(k)'
         /\ \A l \in Waits : Armed(l) => Armed(l)'
         /\ \A l \in Waits : timer'[l] = IF l = k THEN r ELSE timer[l]
<1>1. \A l \in Waits : timer'[l] = IF l = k THEN r ELSE timer[l]
  OBVIOUS
<1>2. timer' \in [Waits -> Stored]
  BY Zenon DEF Stored
<1>3. Armed(k)' /\ \A l \in Waits : Armed(l)' <=> l = k \/ Armed(l)
  BY <1>1, Records, Zenon DEF Armed
<1>4. PICK h \in 0..N : (h # 0 => Armed(h)) /\ \A l \in Waits : l > h => ~Armed(l)
  BY Zenon DEF LastArmed
<1>5. LastArmed'
  <2>1. CASE k > h
    <3>1. k \in 0..N /\ \A l \in Waits : l > k => ~Armed(l)'
      BY <1>3, <1>4, <2>1, NIsNat DEF Waits
    <3> QED
      BY <1>3, <3>1, Zenon DEF LastArmed
  <2>2. CASE ~(k > h)
    <3>1. (h # 0 => Armed(h)') /\ \A l \in Waits : l > h => ~Armed(l)'
      BY <1>3, <1>4, <2>2, NIsNat DEF Waits
    <3> QED
      BY <3>1, Zenon DEF LastArmed
  <2> QED
    BY <2>1, <2>2, Zenon
<1> QED
  BY <1>1, <1>2, <1>3, <1>5, Zenon

LEMMA Remembered ==
  ASSUME cache \in [Invocations -> [Waits -> Known]], NEW i \in Invocations, NEW k \in Waits,
         NEW r \in Known, Remember(i, k, r)
  PROVE  /\ cache' \in [Invocations -> [Waits -> Known]]
         /\ \A l \in Waits : cache'[i][l] = IF l = k THEN r ELSE cache[i][l]
         /\ \A q \in Invocations \ {i} : cache'[q] = cache[q]
<1>1. cache' = [cache EXCEPT ![i] = [cache[i] EXCEPT ![k] = r]]
  BY Zenon DEF Remember
<1>2. [cache[i] EXCEPT ![k] = r] \in [Waits -> Known]
  OBVIOUS
<1>3. cache' \in [Invocations -> [Waits -> Known]]
  BY <1>1, <1>2, Zenon
<1>4. cache'[i] = [cache[i] EXCEPT ![k] = r]
  BY <1>1, Zenon
<1>5. \A l \in Waits : cache'[i][l] = IF l = k THEN r ELSE cache[i][l]
  BY <1>4, Zenon
<1>6. \A q \in Invocations \ {i} : cache'[q] = cache[q]
  BY <1>1, Zenon
<1> QED
  BY <1>3, <1>5, <1>6, Zenon

LEMMA TimerUntouched ==
  ASSUME WakeInv, NEW i \in Invocations, UNCHANGED <<timer, cache>>, done => done'
  PROVE  TimerSide(i)
<1>1. ArmedKept
  BY NoTimerWritten, Zenon
<1>2. CacheInv(i)'
  BY <1>1, Zenon DEF WakeInv, CacheInv, ArmedKept
<1> QED
  BY <1>1, <1>2, Zenon DEF WakeInv, TypedMemory, TimerSide

(* The cache takes over what the store holds. *)
LEMMA CacheFilled ==
  ASSUME WakeInv, NEW i \in Invocations, NEW k \in Waits, Remember(i, k, timer[k]),
         UNCHANGED <<timer, done>>
  PROVE  TimerSide(i)
<1>1. timer[k] \in Known /\ cache \in [Invocations -> [Waits -> Known]] /\ timer \in [Waits -> Stored]
  BY Zenon DEF WakeInv, TypedMemory, Known, Stored
<1>2. /\ cache' \in [Invocations -> [Waits -> Known]]
      /\ \A l \in Waits : cache'[i][l] = IF l = k THEN timer[k] ELSE cache[i][l]
      /\ \A q \in Invocations \ {i} : cache'[q] = cache[q]
  BY <1>1, Remembered, Zenon
<1>3. ArmedKept
  BY NoTimerWritten, Zenon
<1>4. timer[k] \in TimerRecord => Armed(k)
  BY Records, Zenon DEF Armed
<1>5. CacheInv(i)'
  BY <1>2, <1>3, <1>4, Zenon DEF WakeInv, CacheInv, ArmedKept
<1> QED
  BY <1>1, <1>2, <1>3, <1>5, Zenon DEF TimerSide

(* A timer is armed, whether the invocation learns of it or not. *)
LEMMA TimerArmed ==
  ASSUME WakeInv, NEW i \in Invocations, NEW k \in Waits, NEW r \in TimerRecord,
         r.status = "SCHEDULED", timer' = [timer EXCEPT ![k] = r],
         Remember(i, k, r) \/ Remember(i, k, cache[i][k]), UNCHANGED done
  PROVE  TimerSide(i) /\ Armed(k)'
<1>1. timer \in [Waits -> Stored] /\ LastArmed /\ cache \in [Invocations -> [Waits -> Known]]
  BY Zenon DEF WakeInv, TypedMemory
<1>2. /\ timer' \in [Waits -> Stored] /\ LastArmed' /\ Armed(k)'
      /\ \A l \in Waits : Armed(l) => Armed(l)'
      /\ \A l \in Waits : timer'[l] = IF l = k THEN r ELSE timer[l]
  BY <1>1, ArmingKeeps
<1>3. FiredBehindSuccessor'
  <2>1. \A l \in Waits : timer'[l].status = "FIRED" => timer[l].status = "FIRED"
    BY <1>2, Zenon
  <2> QED
    BY <1>2, <2>1, Zenon DEF WakeInv, FiredBehindSuccessor
<1>4. r \in Known /\ cache[i][k] \in Known
  BY <1>1, Zenon DEF Known
<1>5. /\ cache' \in [Invocations -> [Waits -> Known]]
      /\ \A l \in Waits : l = k \/ cache'[i][l] = cache[i][l]
      /\ \A q \in Invocations \ {i} : cache'[q] = cache[q]
  <2>1. CASE Remember(i, k, r)
    BY <1>1, <1>4, <2>1, Remembered
  <2>2. CASE Remember(i, k, cache[i][k])
    BY <1>1, <1>4, <2>2, Remembered
  <2> QED
    BY <2>1, <2>2, Zenon
<1>6. CacheInv(i)'
  BY <1>2, <1>5, Zenon DEF WakeInv, CacheInv
<1> QED
  BY <1>2, <1>3, <1>5, <1>6, Zenon DEF TimerSide, ArmedKept

-----------------------------------------------------------------------------
(* Steps seen from the invocation *)

(* A step of one invocation leaves the others where they were. *)
LEMMA OneMoves ==
  ASSUME WakeInv, NEW i \in Invocations, TypedCall', TypedMemory', TimerSide(i), done => done',
         PlaceInv(i)',
         \A q \in Invocations \ {i} :
           /\ consumed'[q] = consumed[q] /\ acking'[q] = acking[q] /\ pos'[q] = pos[q]
           /\ pc'[q] = pc[q] /\ next'[q] = next[q]
  PROVE  WakeInv'
<1>1. ArmedKept /\ CacheInv(i)' /\ \A q \in Invocations \ {i} : cache'[q] = cache[q]
  BY Zenon DEF TimerSide
<1>2. ASSUME NEW q \in Invocations \ {i} PROVE CacheInv(q)'
  BY <1>1, Zenon DEF WakeInv, CacheInv, ArmedKept
<1>3. ASSUME NEW q \in Invocations \ {i} PROVE PlaceInv(q)'
  BY <1>1 DEF WakeInv, PlaceInv, ArmedKept
<1> QED
  BY <1>1, <1>2, <1>3, Zenon DEF WakeInv, ArmedKept

(* The body goes on, at its position or a later one. *)
LEMMA Walks ==
  ASSUME WakeInv, NEW i \in Invocations, TimerSide(i),
         NEW l \in Places \ {"ack"}, NEW p \in 1..(N + 1), NEW c \in SUBSET Waits,
         pc' = [pc EXCEPT ![i] = l], pos' = [pos EXCEPT ![i] = p],
         consumed' = [consumed EXCEPT ![i] = c],
         p >= pos[i], \A k \in c : k < p,
         l \in {"arm", "resolve", "verify", "consume"} => p \in Waits,
         UNCHANGED <<workflow, event, claim, fresh, seen, listed, acking, except, next, done>>,
         faults' \in Nat
  PROVE  WakeInv'
<1>1. TypedCall'
  BY Zenon DEF WakeInv, TypedCall
<1>2. pos \in [Invocations -> 1..(N + 1)] /\ consumed \in [Invocations -> SUBSET Waits]
      /\ acking \in [Invocations -> SUBSET Waits] /\ pc \in [Invocations -> Places]
  BY Zenon DEF WakeInv, TypedMemory, TypedCall
<1>3. TypedMemory'
  <2>1. pos' \in [Invocations -> 1..(N + 1)] /\ consumed' \in [Invocations -> SUBSET Waits]
    BY <1>2, Zenon
  <2> QED
    BY <2>1, Zenon DEF WakeInv, TypedMemory, TimerSide
<1>4. pc'[i] = l /\ pos'[i] = p /\ consumed'[i] = c
  BY <1>2, Zenon
<1>5. \A k \in acking[i] : k < p
  <2>1. \A k \in acking[i] : k < pos[i] /\ k \in Waits
    BY <1>2, Zenon DEF WakeInv, PlaceInv
  <2> QED
    BY <1>2, <2>1, Numbers
<1>6. PlaceInv(i)'
  BY <1>4, <1>5, Zenon DEF PlaceInv
<1>7. \A q \in Invocations \ {i} : consumed'[q] = consumed[q] /\ pos'[q] = pos[q] /\ pc'[q] = pc[q]
  BY <1>2, Zenon
<1> QED
  BY <1>1, <1>3, <1>6, <1>7, OneMoves, Zenon

(* The invocation stands on a boundary and begins to acknowledge. *)
LEMMA AckStarts ==
  ASSUME WakeInv, NEW i \in Invocations, TimerSide(i), done => done', done' \in BOOLEAN,
         NEW e \in 0..N, NEW m \in {"exit", "consume", "release"}, BeginAck(i, e, m),
         done' \/ (pos[i] \in Waits /\ Armed(pos[i])'), m = "consume" => pos[i] \in Waits,
         UNCHANGED <<event, claim, fresh, seen, listed, pos, consumed>>,
         workflow' \in {"NONE", "IN_PROGRESS", "TERMINAL"}, faults' \in Nat
  PROVE  WakeInv'
<1>1. /\ consumed \in [Invocations -> SUBSET Waits] /\ acking \in [Invocations -> SUBSET Waits]
      /\ pc \in [Invocations -> Places] /\ next \in [Invocations -> Returns]
      /\ except \in [Invocations -> 0..N]
  BY Zenon DEF WakeInv, TypedMemory, TypedCall
<1>2. /\ acking' = [acking EXCEPT ![i] = consumed[i] \ {e}] /\ next' = [next EXCEPT ![i] = m]
      /\ except' = [except EXCEPT ![i] = e] /\ pc' = [pc EXCEPT ![i] = "ack"]
  BY Zenon DEF BeginAck, Goto
<1>3. /\ pc' \in [Invocations -> Places] /\ next' \in [Invocations -> Returns]
      /\ except' \in [Invocations -> 0..N]
  BY <1>1, <1>2, Zenon DEF Places, Returns
<1>4. acking' \in [Invocations -> SUBSET Waits] /\ acking'[i] = consumed[i] \ {e}
  BY <1>1, <1>2, Zenon
<1>5. TypedCall' /\ TypedMemory'
  BY <1>3, <1>4, Zenon DEF WakeInv, TypedCall, TypedMemory, TimerSide
<1>6. pc'[i] = "ack" /\ next'[i] = m
  BY <1>1, <1>2, Zenon
<1>7. PlaceInv(i)'
  BY <1>4, <1>6, Zenon DEF WakeInv, PlaceInv
<1>8. \A q \in Invocations \ {i} : acking'[q] = acking[q] /\ pc'[q] = pc[q] /\ next'[q] = next[q]
  BY <1>1, <1>2, Zenon
<1> QED
  BY <1>5, <1>7, <1>8, OneMoves, Zenon

(* A durable timer is written at the position: known to be written, it is a  *)
(* boundary; otherwise the invocation looks again.                           *)
LEMMA Arms ==
  ASSUME WakeInv, NEW i \in Invocations, NEW k \in Waits, k = pos[i],
         NEW r \in TimerRecord, r.status = "SCHEDULED",
         \/ /\ timer' = [timer EXCEPT ![k] = r] /\ Remember(i, k, r)
            /\ \E m \in {"exit", "consume"} : BeginAck(i, k, m)
         \/ /\ UNCHANGED timer \/ timer' = [timer EXCEPT ![k] = r]
            /\ Remember(i, k, cache[i][k])
            /\ pc' = [pc EXCEPT ![i] = "verify"] /\ NoAck,
         UNCHANGED <<workflow, event, claim, fresh, seen, listed, pos, consumed, done>>,
         faults' \in Nat
  PROVE  WakeInv'
<1>1. /\ cache \in [Invocations -> [Waits -> Known]] /\ pos \in [Invocations -> 1..(N + 1)]
      /\ consumed \in [Invocations -> SUBSET Waits] /\ done \in BOOLEAN
      /\ workflow \in {"NONE", "IN_PROGRESS", "TERMINAL"}
  BY Zenon DEF WakeInv, TypedMemory, TypedCall
<1>2. CASE /\ timer' = [timer EXCEPT ![k] = r] /\ Remember(i, k, r)
           /\ \E m \in {"exit", "consume"} : BeginAck(i, k, m)
  <2>1. TimerSide(i) /\ Armed(k)'
    BY <1>2, TimerArmed, Zenon
  <2> QED
    BY <1>1, <1>2, <2>1, AckStarts, Numbers
<1>3. CASE /\ UNCHANGED timer \/ timer' = [timer EXCEPT ![k] = r]
           /\ Remember(i, k, cache[i][k])
           /\ pc' = [pc EXCEPT ![i] = "verify"] /\ NoAck
  <2>1. TimerSide(i)
    <3>1. CASE timer' = [timer EXCEPT ![k] = r]
      BY <1>3, <3>1, TimerArmed, Zenon
    <3>2. CASE UNCHANGED timer
      <4>1. cache' = [cache EXCEPT ![i] = [cache[i] EXCEPT ![k] = cache[i][k]]]
        BY <1>3, Zenon DEF Remember
      <4>2. [cache[i] EXCEPT ![k] = cache[i][k]] = cache[i]
        BY <1>1, Zenon
      <4>3. UNCHANGED cache
        BY <1>1, <4>1, <4>2, Zenon
      <4> QED
        BY <3>2, <4>3, TimerUntouched, Zenon
    <3> QED
      BY <1>3, <3>1, <3>2, Zenon
  <2>2. pos' = [pos EXCEPT ![i] = k] /\ consumed' = [consumed EXCEPT ![i] = consumed[i]]
    BY <1>1, Zenon
  <2>3. /\ consumed[i] \in SUBSET Waits /\ \A l \in consumed[i] : l < k
        /\ "verify" \in Places \ {"ack"} /\ k \in 1..(N + 1) /\ k >= pos[i]
    BY <1>1, Numbers DEF WakeInv, PlaceInv, Places
  <2> QED
    BY <1>3, <2>1, <2>2, <2>3, Walks, Zenon DEF NoAck
<1> QED
  BY <1>2, <1>3, Zenon

(* An invocation that has returned or died remembers nothing. *)
LEMMA Forgets ==
  ASSUME WakeInv, NEW i \in Invocations, Reset(i), pc' = [pc EXCEPT ![i] = "idle"],
         UNCHANGED <<workflow, timer, event, done>>,
         claim' \in {"free", "leaked"} \cup Invocations, faults' \in Nat
  PROVE  WakeInv'
<1>1. TypedCall /\ TypedMemory
  BY Zenon DEF WakeInv
<1>2. TypedCall'
  BY <1>1, Zenon DEF TypedCall, Reset, Places
<1>3. cache' \in [Invocations -> [Waits -> Known]] /\ \A k \in Waits : cache'[i][k] = Unread
  <2>1. cache \in [Invocations -> [Waits -> Known]]
    BY <1>1, Zenon DEF TypedMemory
  <2>2. [k \in Waits |-> Unread] \in [Waits -> Known]
    BY Zenon DEF Known
  <2> QED
    BY <2>1, <2>2, Zenon DEF Reset
<1>4. TypedMemory'
  <2>1. /\ pos' \in [Invocations -> 1..(N + 1)] /\ except' \in [Invocations -> 0..N]
        /\ consumed' \in [Invocations -> SUBSET Waits] /\ acking' \in [Invocations -> SUBSET Waits]
    BY <1>1, Numbers, Zenon DEF TypedMemory, Reset
  <2>2. next' \in [Invocations -> Returns]
    BY <1>1, Zenon DEF TypedMemory, Reset, Returns
  <2> QED
    BY <1>1, <1>3, <2>1, <2>2, Zenon DEF TypedMemory
<1>5. \A q \in Invocations \ {i} :
        /\ cache'[q] = cache[q] /\ consumed'[q] = consumed[q] /\ acking'[q] = acking[q]
        /\ pos'[q] = pos[q] /\ next'[q] = next[q] /\ pc'[q] = pc[q]
  BY <1>1, Zenon DEF TypedMemory, TypedCall, Reset
<1>6. consumed'[i] = {} /\ acking'[i] = {} /\ pc'[i] = "idle"
  BY <1>1, Zenon DEF TypedMemory, TypedCall, Reset
<1>7. PlaceInv(i)' /\ CacheInv(i)'
  BY <1>3, <1>6, Records, Zenon DEF PlaceInv, CacheInv
<1>8. TimerSide(i)
  BY <1>1, <1>3, <1>5, <1>7, NoTimerWritten, Zenon DEF TimerSide, TypedMemory
<1> QED
  BY <1>2, <1>4, <1>5, <1>7, <1>8, OneMoves, Zenon

-----------------------------------------------------------------------------
(* Steps that touch no timer *)

(* Places where an invocation neither waits nor acknowledges. *)
QuietPlaces == Places \ {"arm", "resolve", "verify", "consume", "ack"}

LEMMA Typed ==
  WakeInv => /\ workflow \in {"NONE", "IN_PROGRESS", "TERMINAL"} /\ event \in SUBSET Waits
             /\ claim \in {"free", "leaked"} \cup Invocations /\ faults \in Nat
             /\ pc \in [Invocations -> Places] /\ fresh \in [Invocations -> BOOLEAN]
             /\ seen \in [Invocations -> SUBSET Waits] /\ listed \in [Invocations -> BOOLEAN]
  BY Zenon DEF WakeInv, TypedCall

LEMMA MovedQuietly ==
  ASSUME pc \in [Invocations -> Places], NEW i \in Invocations, NEW l \in QuietPlaces,
         pc' = [pc EXCEPT ![i] = l]
  PROVE  /\ pc' \in [Invocations -> Places]
         /\ \A q \in Invocations : pc'[q] = pc[q] \/ pc'[q] \in QuietPlaces
  BY Zenon DEF QuietPlaces

(* A step that touches no timer and nothing an invocation remembers of one. *)
LEMMA QuietStep ==
  ASSUME WakeInv, UNCHANGED <<timer, cache, pos, consumed, acking, except, next, done>>,
         workflow' \in {"NONE", "IN_PROGRESS", "TERMINAL"}, event' \in SUBSET Waits,
         claim' \in {"free", "leaked"} \cup Invocations, faults' \in Nat,
         fresh' \in [Invocations -> BOOLEAN], seen' \in [Invocations -> SUBSET Waits],
         listed' \in [Invocations -> BOOLEAN], pc' \in [Invocations -> Places],
         \A q \in Invocations : pc'[q] = pc[q] \/ pc'[q] \in QuietPlaces
  PROVE  WakeInv'
<1>1. TypedCall' /\ TypedMemory'
  BY Zenon DEF WakeInv, TypedCall, TypedMemory
<1>2. ArmedKept
  BY NoTimerWritten, Zenon
<1>3. ASSUME NEW q \in Invocations PROVE CacheInv(q)'
  BY <1>2, Zenon DEF WakeInv, CacheInv, ArmedKept
<1>4. ASSUME NEW q \in Invocations PROVE PlaceInv(q)'
  <2>1. pc'[q] = pc[q] \/ pc'[q] \notin {"arm", "resolve", "verify", "consume", "ack"}
    BY Zenon DEF QuietPlaces
  <2> QED
    BY <1>2, <2>1, Zenon DEF WakeInv, PlaceInv, ArmedKept
<1> QED
  BY <1>1, <1>2, <1>3, <1>4, Zenon DEF WakeInv, ArmedKept

LEMMA StartKeepsWake ==
  ASSUME WakeInv, NEW i \in Invocations, Start(i) PROVE WakeInv'
<1>1. UNCHANGED <<timer, cache, pos, consumed, acking, except, next, done, workflow, event,
                 claim, faults, seen, listed>>
  BY Zenon DEF Start, durable
<1>2. \E l \in {"claim1", "load"} : pc' = [pc EXCEPT ![i] = l]
  BY Zenon DEF Start, Goto
<1>3. /\ pc' \in [Invocations -> Places]
      /\ \A q \in Invocations : pc'[q] = pc[q] \/ pc'[q] \in QuietPlaces
  BY <1>2, Typed, MovedQuietly DEF QuietPlaces, Places
<1>4. fresh' \in [Invocations -> BOOLEAN]
  BY Typed, Zenon DEF Start
<1> QED
  BY <1>1, <1>3, <1>4, Typed, QuietStep, Zenon

LEMMA TryCreateClaimKeepsWake ==
  ASSUME WakeInv, NEW i \in Invocations, TryCreateClaim(i) PROVE WakeInv'
<1>1. UNCHANGED <<timer, cache, pos, consumed, acking, except, next, done, workflow, event, seen,
                 listed>>
  BY Zenon DEF TryCreateClaim
<1>2. \E l \in {"lost1", "lost2", "reread", "idle"} : pc' = [pc EXCEPT ![i] = l]
  BY Zenon DEF TryCreateClaim, Goto
<1>3. /\ pc' \in [Invocations -> Places]
      /\ \A q \in Invocations : pc'[q] = pc[q] \/ pc'[q] \in QuietPlaces
  BY <1>2, Typed, MovedQuietly DEF QuietPlaces, Places
<1>4. fresh' \in [Invocations -> BOOLEAN]
  BY Typed, Zenon DEF TryCreateClaim
<1>5. claim' \in {"free", "leaked"} \cup Invocations
  BY Typed, Zenon DEF TryCreateClaim
<1>6. faults' \in Nat
  <2>1. UNCHANGED faults \/ \E o \in Outcomes : Charge(o)
    BY Zenon DEF TryCreateClaim
  <2> QED
    BY <2>1, Typed DEF Charge
<1> QED
  BY <1>1, <1>3, <1>4, <1>5, <1>6, Typed, QuietStep, Zenon

LEMMA LostClaimKeepsWake ==
  ASSUME WakeInv, NEW i \in Invocations, LostClaim(i) PROVE WakeInv'
<1>1. UNCHANGED <<timer, cache, pos, consumed, acking, except, next, done, workflow, event,
                 claim, faults, seen, listed>>
  BY Zenon DEF LostClaim, durable
<1>2. \E l \in {"idle", "busy1", "busy2"} : pc' = [pc EXCEPT ![i] = l]
  BY Zenon DEF LostClaim, Goto
<1>3. /\ pc' \in [Invocations -> Places]
      /\ \A q \in Invocations : pc'[q] = pc[q] \/ pc'[q] \in QuietPlaces
  BY <1>2, Typed, MovedQuietly DEF QuietPlaces, Places
<1>4. fresh' \in [Invocations -> BOOLEAN]
  BY Typed, Zenon DEF LostClaim
<1> QED
  BY <1>1, <1>3, <1>4, Typed, QuietStep, Zenon

LEMMA ClaimBusyKeepsWake ==
  ASSUME WakeInv, NEW i \in Invocations, ClaimBusy(i) PROVE WakeInv'
<1>1. UNCHANGED <<timer, cache, pos, consumed, acking, except, next, done, workflow, event,
                 claim, faults, seen, listed>>
  BY Zenon DEF ClaimBusy, durable
<1>2. \E l \in {"idle", "claim2"} : pc' = [pc EXCEPT ![i] = l]
  BY Zenon DEF ClaimBusy, Goto
<1>3. /\ pc' \in [Invocations -> Places]
      /\ \A q \in Invocations : pc'[q] = pc[q] \/ pc'[q] \in QuietPlaces
  BY <1>2, Typed, MovedQuietly DEF QuietPlaces, Places
<1>4. fresh' \in [Invocations -> BOOLEAN]
  BY Typed, Zenon DEF ClaimBusy
<1> QED
  BY <1>1, <1>3, <1>4, Typed, QuietStep, Zenon

LEMMA RereadKeepsWake ==
  ASSUME WakeInv, NEW i \in Invocations, Reread(i) PROVE WakeInv'
<1>1. UNCHANGED <<timer, cache, pos, consumed, acking, except, next, done, workflow, event,
                 claim, faults, seen, listed>>
  BY Zenon DEF Reread, durable
<1>2. \E l \in {"load", "release"} : pc' = [pc EXCEPT ![i] = l]
  BY Zenon DEF Reread, Goto
<1>3. /\ pc' \in [Invocations -> Places]
      /\ \A q \in Invocations : pc'[q] = pc[q] \/ pc'[q] \in QuietPlaces
  BY <1>2, Typed, MovedQuietly DEF QuietPlaces, Places
<1>4. fresh' \in [Invocations -> BOOLEAN]
  BY Typed, Zenon DEF Reread
<1> QED
  BY <1>1, <1>3, <1>4, Typed, QuietStep, Zenon

LEMMA PrefetchEventsKeepsWake ==
  ASSUME WakeInv, NEW i \in Invocations, PrefetchEvents(i) PROVE WakeInv'
<1>1. UNCHANGED <<timer, cache, pos, consumed, acking, except, next, done, workflow, event,
                 claim, faults, fresh, pc>>
  BY Zenon DEF PrefetchEvents, durable
<1>2. seen' \in [Invocations -> SUBSET Waits] /\ listed' \in [Invocations -> BOOLEAN]
  BY Typed, Zenon DEF PrefetchEvents
<1> QED
  BY <1>1, <1>2, Typed, QuietStep, Zenon

LEMMA EnterBodyKeepsWake ==
  ASSUME WakeInv, NEW i \in Invocations, EnterBody(i) PROVE WakeInv'
<1>1. UNCHANGED <<timer, cache, pos, consumed, acking, except, next, done, event, claim, fresh,
                 seen, listed>>
  BY Zenon DEF EnterBody, locals
<1>2. \E l \in {"body", "release"} : pc' = [pc EXCEPT ![i] = l]
  BY Zenon DEF EnterBody, Goto
<1>3. /\ pc' \in [Invocations -> Places]
      /\ \A q \in Invocations : pc'[q] = pc[q] \/ pc'[q] \in QuietPlaces
  BY <1>2, Typed, MovedQuietly, Zenon DEF QuietPlaces, Places
<1>4. workflow' \in {"NONE", "IN_PROGRESS", "TERMINAL"}
  BY Typed, Zenon DEF EnterBody
<1>5. faults' \in Nat
  BY Typed DEF EnterBody, Charge
<1> QED
  BY <1>1, <1>3, <1>4, <1>5, Typed, QuietStep, Zenon

LEMMA GiveUpKeepsWake ==
  ASSUME WakeInv, NEW i \in Invocations, GiveUp(i) PROVE WakeInv'
<1>1. UNCHANGED <<timer, cache, pos, consumed, acking, except, next, done, workflow, event,
                 claim, fresh, seen, listed>>
  BY Zenon DEF GiveUp, durable, locals
<1>2. \E l \in {"release"} : pc' = [pc EXCEPT ![i] = l]
  BY Zenon DEF GiveUp, Goto
<1>3. /\ pc' \in [Invocations -> Places]
      /\ \A q \in Invocations : pc'[q] = pc[q] \/ pc'[q] \in QuietPlaces
  BY <1>2, Typed, MovedQuietly DEF QuietPlaces, Places
<1>4. faults' \in Nat
  BY Typed DEF GiveUp
<1> QED
  BY <1>1, <1>3, <1>4, Typed, QuietStep, Zenon

LEMMA WaitFailsKeepsWake ==
  ASSUME WakeInv, NEW i \in Invocations, WaitFails(i) PROVE WakeInv'
<1>1. UNCHANGED <<timer, cache, pos, consumed, acking, except, next, done, workflow, event,
                 claim, fresh, seen, listed>>
  BY Zenon DEF WaitFails, durable, locals
<1>2. \E l \in {"exit"} : pc' = [pc EXCEPT ![i] = l]
  BY Zenon DEF WaitFails, Goto
<1>3. /\ pc' \in [Invocations -> Places]
      /\ \A q \in Invocations : pc'[q] = pc[q] \/ pc'[q] \in QuietPlaces
  BY <1>2, Typed, MovedQuietly, Zenon DEF QuietPlaces, Places
<1>4. faults' \in Nat
  BY Typed DEF WaitFails
<1> QED
  BY <1>1, <1>3, <1>4, Typed, QuietStep, Zenon

LEMMA BodyReturnsKeepsWake ==
  ASSUME WakeInv, NEW i \in Invocations, BodyReturns(i) PROVE WakeInv'
<1>1. UNCHANGED <<timer, cache, pos, consumed, acking, except, next, done, workflow, event,
                 claim, fresh, seen, listed, faults>>
  BY Zenon DEF BodyReturns, durable, locals
<1>2. \E l \in {"finish"} : pc' = [pc EXCEPT ![i] = l]
  BY Zenon DEF BodyReturns, Goto
<1>3. /\ pc' \in [Invocations -> Places]
      /\ \A q \in Invocations : pc'[q] = pc[q] \/ pc'[q] \in QuietPlaces
  BY <1>2, Typed, MovedQuietly, Zenon DEF QuietPlaces, Places
<1> QED
  BY <1>1, <1>3, Typed, QuietStep, Zenon

LEMMA ExitKeepsWake ==
  ASSUME WakeInv, NEW i \in Invocations, Exit(i) PROVE WakeInv'
<1>1. UNCHANGED <<timer, cache, pos, consumed, acking, except, next, done, event, claim, fresh,
                 seen, listed>>
  BY Zenon DEF Exit, locals
<1>2. \E l \in {"release"} : pc' = [pc EXCEPT ![i] = l]
  BY Zenon DEF Exit, Goto
<1>3. /\ pc' \in [Invocations -> Places]
      /\ \A q \in Invocations : pc'[q] = pc[q] \/ pc'[q] \in QuietPlaces
  BY <1>2, Typed, MovedQuietly, Zenon DEF QuietPlaces, Places
<1>4. workflow' \in {"NONE", "IN_PROGRESS", "TERMINAL"}
  BY Typed, Zenon DEF Exit
<1>5. faults' \in Nat
  BY Typed DEF Exit, Charge
<1> QED
  BY <1>1, <1>3, <1>4, <1>5, Typed, QuietStep, Zenon

LEMMA OperatorReleaseKeepsWake ==
  ASSUME WakeInv, OperatorRelease PROVE WakeInv'
<1>1. UNCHANGED <<timer, cache, pos, consumed, acking, except, next, done, workflow, event,
                 fresh, seen, listed, pc, faults>>
  BY Zenon DEF OperatorRelease, locals
<1>2. claim' \in {"free", "leaked"} \cup Invocations
  BY Typed, Zenon DEF OperatorRelease
<1> QED
  BY <1>1, <1>2, Typed, QuietStep, Zenon

LEMMA DeliverKeepsWake ==
  ASSUME WakeInv, NEW k \in Waits, Deliver(k) PROVE WakeInv'
<1>1. UNCHANGED <<timer, cache, pos, consumed, acking, except, next, done, workflow, claim,
                 fresh, seen, listed, pc, faults>>
  BY Zenon DEF Deliver, locals
<1>2. event' \in SUBSET Waits
  BY Typed, Zenon DEF Deliver
<1> QED
  BY <1>1, <1>2, Typed, QuietStep, Zenon

-----------------------------------------------------------------------------
(* Steps that do *)

(* The cache learns of a timer: from the prefetch, or at its first use. *)
LEMMA CacheReadKeepsWake ==
  ASSUME WakeInv, NEW i \in Invocations, NEW k \in Waits,
         PrefetchTimer(i, k) \/ (LoadTimer(i) /\ k = pos[i])
  PROVE  WakeInv'
<1>1. /\ Remember(i, k, timer[k])
      /\ UNCHANGED <<workflow, event, claim, faults, pc, fresh, seen, listed, timer>>
      /\ UNCHANGED <<pos, consumed, acking, except, next, done>>
  BY Zenon DEF PrefetchTimer, LoadTimer, Remember, durable
<1>2. TimerSide(i)
  BY <1>1, CacheFilled, Zenon
<1>3. TypedCall' /\ TypedMemory'
  BY <1>1, <1>2, Zenon DEF WakeInv, TypedCall, TypedMemory, TimerSide
<1>4. PlaceInv(i)'
  BY <1>1, Zenon DEF WakeInv, PlaceInv, Armed
<1> QED
  BY <1>1, <1>2, <1>3, <1>4, OneMoves, Zenon

LEMMA LoadTimerKeepsWake ==
  ASSUME WakeInv, NEW i \in Invocations, LoadTimer(i) PROVE WakeInv'
<1>1. pos[i] \in Waits
  BY Zenon DEF WakeInv, PlaceInv, LoadTimer, AtTimer
<1> QED
  BY <1>1, CacheReadKeepsWake, Zenon

LEMMA SleepKnownKeepsWake ==
  ASSUME WakeInv, NEW i \in Invocations, SleepKnown(i) PROVE WakeInv'
<1>1. UNCHANGED <<workflow, event, claim, faults, fresh, seen, listed, timer, cache, consumed,
                 done>>
  BY Zenon DEF SleepKnown, durable
<1>2. PICK k \in Waits : k = pos[i] /\ pc[i] = "body"
  BY Zenon DEF SleepKnown, AtSleep, AtTimer
<1>3. /\ cache \in [Invocations -> [Waits -> Known]] /\ pos \in [Invocations -> 1..(N + 1)]
      /\ consumed \in [Invocations -> SUBSET Waits] /\ pc \in [Invocations -> Places]
      /\ workflow \in {"NONE", "IN_PROGRESS", "TERMINAL"} /\ faults \in Nat /\ done \in BOOLEAN
  BY Zenon DEF WakeInv, TypedMemory, TypedCall
<1>4. TimerSide(i)
  BY <1>1, TimerUntouched, Zenon
<1>5. CASE pos' = [pos EXCEPT ![i] = k + 1] /\ UNCHANGED <<pc, acking, except, next>>
  <2>1. pc' = [pc EXCEPT ![i] = "body"] /\ consumed' = [consumed EXCEPT ![i] = consumed[i]]
    BY <1>1, <1>2, <1>3, <1>5, Zenon
  <2>2. /\ consumed[i] \in SUBSET Waits /\ \A l \in consumed[i] : l < k + 1
        /\ k + 1 \in 1..(N + 1) /\ k + 1 >= pos[i]
    <3>1. consumed[i] \in SUBSET Waits /\ \A l \in consumed[i] : l < k
      BY <1>2, <1>3, Zenon DEF WakeInv, PlaceInv
    <3> QED
      BY <1>2, <3>1, Numbers, SMTT(20), ZenonT(20)
  <2>3. "body" \in Places \ {"ack"}
    BY Zenon DEF Places
  <2> QED
    BY <1>1, <1>3, <1>4, <1>5, <2>1, <2>2, <2>3, Walks
<1>6. CASE UNCHANGED pos /\ \E m \in {"exit", "consume"} : BeginAck(i, k, m)
  <2>1. cache[i][k] \in TimerRecord
    BY <1>2, <1>3 DEF SleepKnown, AtSleep, Known
  <2>2. Armed(k)'
    BY <1>1, <2>1, Zenon DEF WakeInv, CacheInv, Armed
  <2> QED
    BY <1>1, <1>2, <1>3, <1>4, <1>6, <2>2, AckStarts, Numbers, Zenon
<1> QED
  BY <1>2, <1>5, <1>6, Zenon DEF SleepKnown, Advance, NoAck

LEMMA SleepNewKeepsWake ==
  ASSUME WakeInv, NEW i \in Invocations, SleepNew(i) PROVE WakeInv'
<1>1. UNCHANGED <<workflow, event, claim, fresh, seen, listed, pos, consumed, done>>
  BY Zenon DEF SleepNew
<1>2. PICK k \in Waits : k = pos[i]
  BY Zenon DEF SleepNew, AtSleep, AtTimer
<1>3. PICK r \in TimerRecord : /\ r = [status |-> "SCHEDULED", wait |-> Delay[k]]
                               /\ r.status = "SCHEDULED"
  BY DelaysAreNat, Records, Zenon DEF Waits
<1>4. PICK o \in Outcomes :
        /\ Charge(o)
        /\ timer' = IF o = "failed" THEN timer ELSE [timer EXCEPT ![k] = r]
        /\ Remember(i, k, IF o = "ok" THEN r ELSE cache[i][k])
        /\ IF o = "ok" THEN \E m \in {"exit", "consume"} : BeginAck(i, k, m)
                       ELSE pc' = [pc EXCEPT ![i] = "verify"] /\ NoAck
  BY <1>2, <1>3, Zenon DEF SleepNew, Goto
<1>5. faults' \in Nat
  BY <1>4 DEF Charge, WakeInv, TypedCall
<1>6. CASE o = "ok"
  BY <1>1, <1>2, <1>3, <1>4, <1>5, <1>6, Arms
<1>7. CASE o # "ok"
  BY <1>1, <1>2, <1>3, <1>4, <1>5, <1>7, Arms
<1> QED
  BY <1>6, <1>7, Zenon

LEMMA VerifyKeepsWake ==
  ASSUME WakeInv, NEW i \in Invocations, Verify(i) PROVE WakeInv'
<1>1. UNCHANGED <<workflow, event, claim, fresh, seen, listed, timer, consumed, acking, except,
                 next, done>>
  BY Zenon DEF Verify, durable
<1>2. PICK k \in Waits : k = pos[i]
  BY Zenon DEF Verify, WakeInv, PlaceInv
<1>3. /\ pos \in [Invocations -> 1..(N + 1)] /\ consumed \in [Invocations -> SUBSET Waits]
      /\ faults \in Nat
  BY Zenon DEF WakeInv, TypedMemory, TypedCall
<1>4. UNCHANGED cache \/ Remember(i, k, timer[k])
  BY <1>2, Zenon DEF Verify
<1>5. TimerSide(i)
  BY <1>1, <1>4, TimerUntouched, CacheFilled, Zenon
<1>6. faults' \in Nat
  BY <1>3 DEF Verify
<1>7. \E l \in {"body", "finish", "exit"} : pc' = [pc EXCEPT ![i] = l]
  BY Zenon DEF Verify, Goto
<1>8. \E p \in {k, k + 1} : pos' = [pos EXCEPT ![i] = p]
  <2>1. UNCHANGED pos \/ pos' = [pos EXCEPT ![i] = k + 1]
    BY <1>2, Zenon DEF Verify, Advance
  <2> QED
    BY <1>2, <1>3, <2>1, Zenon
<1>9. consumed' = [consumed EXCEPT ![i] = consumed[i]] /\ consumed[i] \in SUBSET Waits
  BY <1>1, <1>3, Zenon
<1>10. ASSUME NEW p \in {k, k + 1}
       PROVE  p \in 1..(N + 1) /\ p >= pos[i] /\ \A l \in consumed[i] : l < p
  <2>1. \A l \in consumed[i] : l < k /\ l \in Waits
    BY <1>2, <1>3, Zenon DEF WakeInv, PlaceInv
  <2> QED
    BY <1>2, <2>1, Numbers
<1>11. ASSUME NEW l \in {"body", "finish", "exit"}
       PROVE  l \in Places \ {"ack"} /\ l \notin {"arm", "resolve", "verify", "consume"}
  BY Zenon DEF Places
<1>12. PICK l \in {"body", "finish", "exit"} : pc' = [pc EXCEPT ![i] = l]
  BY <1>7, Zenon
<1>13. PICK p \in {k, k + 1} : pos' = [pos EXCEPT ![i] = p]
  BY <1>8, Zenon
<1> QED
  BY <1>1, <1>5, <1>6, <1>9, <1>10, <1>11, <1>12, <1>13, Walks, ZenonT(30)

LEMMA ConsumeKeepsWake ==
  ASSUME WakeInv, NEW i \in Invocations, Consume(i) \/ ResolvePoll(i) PROVE WakeInv'
<1>1. /\ UNCHANGED <<workflow, event, claim, faults, fresh, seen, listed, timer, cache, acking>>
      /\ UNCHANGED <<except, next, done>> /\ pc' = [pc EXCEPT ![i] = "body"]
  BY Zenon DEF Consume, ResolvePoll, durable, Goto
<1>2. PICK k \in Waits : k = pos[i] /\ pos' = [pos EXCEPT ![i] = k + 1]
  BY Zenon DEF Consume, ResolvePoll, Advance, WakeInv, PlaceInv
<1>3. consumed \in [Invocations -> SUBSET Waits] /\ faults \in Nat
  BY Zenon DEF WakeInv, TypedMemory, TypedCall
<1>4. PICK c \in {consumed[i], consumed[i] \cup {k}} : consumed' = [consumed EXCEPT ![i] = c]
  BY <1>2, Zenon DEF Consume, ResolvePoll
<1>5. c \in SUBSET Waits /\ \A l \in c : l < k + 1
  <2>1. consumed[i] \in SUBSET Waits /\ \A l \in consumed[i] : l < k
    BY <1>2, <1>3, Zenon DEF WakeInv, PlaceInv
  <2> QED
    BY <1>4, <2>1, Numbers
<1>6. "body" \in Places \ {"ack"} /\ k + 1 \in 1..(N + 1) /\ k + 1 >= pos[i]
  BY <1>2, Numbers DEF Places
<1> QED
  BY <1>1, <1>2, <1>3, <1>4, <1>5, <1>6, TimerUntouched, Walks

LEMMA WaitEventKeepsWake ==
  ASSUME WakeInv, NEW i \in Invocations, WaitEvent(i) PROVE WakeInv'
<1>1. /\ UNCHANGED <<workflow, event, claim, faults, fresh, seen, listed, timer, cache, consumed>>
      /\ UNCHANGED <<acking, except, next, done>> /\ pc[i] = "body"
  BY Zenon DEF WaitEvent, durable
<1>2. PICK k \in Waits : k = pos[i]
  BY Zenon DEF WaitEvent
<1>3. /\ consumed \in [Invocations -> SUBSET Waits] /\ faults \in Nat
      /\ pos \in [Invocations -> 1..(N + 1)] /\ pc \in [Invocations -> Places]
  BY Zenon DEF WakeInv, TypedMemory, TypedCall
<1>4. \/ UNCHANGED pc /\ pos' = [pos EXCEPT ![i] = k + 1]
      \/ UNCHANGED pos /\ \E l \in {"arm", "resolve", "exit"} : pc' = [pc EXCEPT ![i] = l]
  BY <1>2, Zenon DEF WaitEvent, Advance, Goto
<1>5. \/ pc' = [pc EXCEPT ![i] = "body"] /\ pos' = [pos EXCEPT ![i] = k + 1]
      \/ /\ pos' = [pos EXCEPT ![i] = k]
         /\ \E l \in {"arm", "resolve", "exit"} : pc' = [pc EXCEPT ![i] = l]
  BY <1>1, <1>2, <1>3, <1>4
<1>6. consumed' = [consumed EXCEPT ![i] = consumed[i]] /\ consumed[i] \in SUBSET Waits
  BY <1>1, <1>3, Zenon
<1>7. /\ k \in 1..(N + 1) /\ k + 1 \in 1..(N + 1) /\ k >= pos[i] /\ k + 1 >= pos[i]
      /\ \A l \in consumed[i] : l < k /\ l < k + 1
  <2>1. \A l \in consumed[i] : l < k /\ l \in Waits
    BY <1>2, <1>3, Zenon DEF WakeInv, PlaceInv
  <2> QED
    BY <1>2, <2>1, Numbers
<1>8. {"body", "arm", "resolve", "exit"} \subseteq Places \ {"ack"}
  BY Zenon DEF Places
<1>9. TimerSide(i)
  BY <1>1, TimerUntouched, Zenon
<1>10. CASE pc' = [pc EXCEPT ![i] = "body"] /\ pos' = [pos EXCEPT ![i] = k + 1]
  BY <1>1, <1>3, <1>6, <1>7, <1>8, <1>9, <1>10, Walks
<1>11. ASSUME NEW l \in {"arm", "resolve", "exit"},
              pos' = [pos EXCEPT ![i] = k], pc' = [pc EXCEPT ![i] = l]
       PROVE  WakeInv'
  BY <1>1, <1>3, <1>6, <1>7, <1>8, <1>9, <1>11, Walks, ZenonT(30)
<1> QED
  BY <1>5, <1>10, <1>11, Zenon

LEMMA ArmPollKeepsWake ==
  ASSUME WakeInv, NEW i \in Invocations, ArmPoll(i) PROVE WakeInv'
<1>1. UNCHANGED <<workflow, event, claim, fresh, seen, listed, pos, consumed, done>>
  BY Zenon DEF ArmPoll
<1>2. PICK k \in Waits : k = pos[i]
  BY Zenon DEF ArmPoll, WakeInv, PlaceInv
<1>3. PICK r \in TimerRecord : /\ r = [status |-> "SCHEDULED", wait |-> Delay[k]]
                               /\ r.status = "SCHEDULED"
  BY DelaysAreNat, Records, Zenon DEF Waits
<1>4. CASE /\ cache[i][k].status = "SCHEDULED" /\ BeginAck(i, k, "exit")
           /\ UNCHANGED <<timer, cache, faults>>
  <2>1. /\ cache \in [Invocations -> [Waits -> Known]] /\ done \in BOOLEAN /\ faults \in Nat
        /\ workflow \in {"NONE", "IN_PROGRESS", "TERMINAL"}
    BY Zenon DEF WakeInv, TypedMemory, TypedCall
  <2>2. cache[i][k] \in TimerRecord
    BY <1>4, <2>1, Records DEF Known
  <2>3. Armed(k)'
    BY <1>4, <2>2, Zenon DEF WakeInv, CacheInv, Armed
  <2>4. TimerSide(i)
    BY <1>1, <1>4, TimerUntouched, Zenon
  <2> QED
    BY <1>1, <1>2, <1>4, <2>1, <2>3, <2>4, AckStarts, Numbers
<1>5. ASSUME NEW o \in Outcomes, Charge(o),
             timer' = IF o = "failed" THEN timer ELSE [timer EXCEPT ![k] = r],
             Remember(i, k, IF o = "ok" THEN r ELSE cache[i][k]),
             IF o = "ok" THEN BeginAck(i, k, "exit") ELSE pc' = [pc EXCEPT ![i] = "verify"] /\ NoAck
      PROVE  WakeInv'
  <2>1. faults' \in Nat
    BY <1>5 DEF Charge, WakeInv, TypedCall
  <2>2. CASE o = "ok"
    BY <1>1, <1>2, <1>3, <1>5, <2>1, <2>2, Arms, Zenon
  <2>3. CASE o # "ok"
    BY <1>1, <1>2, <1>3, <1>5, <2>1, <2>3, Arms, Zenon
  <2> QED
    BY <2>2, <2>3, Zenon
<1> QED
  BY <1>2, <1>3, <1>4, <1>5, Zenon DEF ArmPoll, Goto

(* A wake is acknowledged while the boundary behind it is armed or the run   *)
(* has ended.                                                                *)
LEMMA AcknowledgeKeepsWake ==
  ASSUME WakeInv, NEW i \in Invocations, Acknowledge(i) PROVE WakeInv'
<1>1. /\ timer \in [Waits -> Stored] /\ cache \in [Invocations -> [Waits -> Known]]
      /\ consumed \in [Invocations -> SUBSET Waits] /\ acking \in [Invocations -> SUBSET Waits]
      /\ faults \in Nat
  BY Zenon DEF WakeInv, TypedMemory, TypedCall
<1>2. PICK k \in acking[i] :
        /\ acking' = [acking EXCEPT ![i] = acking[i] \ {k}]
        /\ \/ /\ UNCHANGED <<timer, cache, faults>>
              /\ consumed' = [consumed EXCEPT ![i] = consumed[i] \ {k}]
           \/ /\ cache[i][k].status = "SCHEDULED"
              /\ \E o \in Outcomes :
                   /\ Charge(o)
                   /\ timer' = IF o = "failed" THEN timer ELSE [timer EXCEPT ![k] = Fired(cache[i][k])]
                   /\ IF o = "ok"
                        THEN /\ Remember(i, k, Fired(cache[i][k]))
                             /\ consumed' = [consumed EXCEPT ![i] = consumed[i] \ {k}]
                        ELSE UNCHANGED <<cache, consumed>>
  BY Zenon DEF Acknowledge, Fired
<1>3. k \in Waits /\ cache[i][k] \in Known
  BY <1>1, Zenon
<1>4. UNCHANGED <<workflow, event, claim, pc, fresh, seen, listed, pos, except, next, done>>
  BY Zenon DEF Acknowledge
<1>5. UNCHANGED consumed \/ consumed' = [consumed EXCEPT ![i] = consumed[i] \ {k}]
  BY <1>2, Zenon
<1>6. faults' \in Nat
  BY <1>1, <1>2 DEF Charge
<1>7. \/ UNCHANGED <<timer, cache>>
      \/ \E r \in TimerRecord : /\ timer' = [timer EXCEPT ![k] = r]
                                /\ UNCHANGED cache \/ Remember(i, k, r)
  <2>1. cache[i][k].status = "SCHEDULED" => Fired(cache[i][k]) \in TimerRecord
    BY <1>3, Records, Zenon DEF Known
  <2> QED
    BY <1>2, <2>1, Zenon
<1>8. /\ done \/ (pos[i] \in Waits /\ Armed(pos[i]) /\ k < pos[i])
  BY Zenon DEF Acknowledge, WakeInv, PlaceInv
<1>9. TimerSide(i)
  <2>1. CASE UNCHANGED <<timer, cache>>
    BY <1>4, <2>1, TimerUntouched, Zenon
  <2>2. ASSUME NEW r \in TimerRecord, timer' = [timer EXCEPT ![k] = r],
               UNCHANGED cache \/ Remember(i, k, r)
        PROVE  TimerSide(i)
    <3>1. /\ timer' \in [Waits -> Stored] /\ LastArmed' /\ Armed(k)'
          /\ \A l \in Waits : Armed(l) => Armed(l)'
          /\ \A l \in Waits : timer'[l] = IF l = k THEN r ELSE timer[l]
      BY <1>1, <1>3, <2>2, ArmingKeeps DEF WakeInv
    <3>2. FiredBehindSuccessor'
      <4> SUFFICES ASSUME NEW l \in Waits, timer'[l].status = "FIRED"
                   PROVE  done \/ \E j \in Waits : j > l /\ Armed(j)'
        BY <1>4, Zenon DEF FiredBehindSuccessor
      <4>1. CASE l = k
        BY <1>3, <1>8, <3>1, <4>1, Zenon
      <4>2. CASE l # k
        BY <3>1, <4>2, Zenon DEF WakeInv, FiredBehindSuccessor
      <4> QED
        BY <4>1, <4>2, Zenon
    <3>3. r \in Known
      BY Zenon DEF Known
    <3>4. /\ cache' \in [Invocations -> [Waits -> Known]]
          /\ \A l \in Waits : l = k \/ cache'[i][l] = cache[i][l]
          /\ \A q \in Invocations \ {i} : cache'[q] = cache[q]
      BY <1>1, <1>3, <2>2, <3>3, Remembered
    <3>5. CacheInv(i)'
      BY <3>1, <3>4, Zenon DEF WakeInv, CacheInv
    <3> QED
      BY <3>1, <3>2, <3>4, <3>5, Zenon DEF TimerSide, ArmedKept
  <2> QED
    BY <1>7, <2>1, <2>2, Zenon
<1>10. /\ consumed' \in [Invocations -> SUBSET Waits] /\ acking' \in [Invocations -> SUBSET Waits]
       /\ consumed'[i] \subseteq consumed[i] /\ acking'[i] \subseteq acking[i]
  BY <1>1, <1>2, <1>5
<1>11. TypedCall' /\ TypedMemory'
  BY <1>4, <1>6, <1>9, <1>10 DEF WakeInv, TypedCall, TypedMemory, TimerSide
<1>12. PlaceInv(i)'
  BY <1>4, <1>9, <1>10 DEF WakeInv, PlaceInv, TimerSide, ArmedKept
<1>13. \A q \in Invocations \ {i} : consumed'[q] = consumed[q] /\ acking'[q] = acking[q]
  BY <1>1, <1>2, <1>5, Zenon
<1> QED
  BY <1>4, <1>9, <1>11, <1>12, <1>13, OneMoves

LEMMA EndAckKeepsWake ==
  ASSUME WakeInv, NEW i \in Invocations, EndAck(i) PROVE WakeInv'
<1>1. /\ UNCHANGED <<workflow, event, claim, fresh, seen, listed, faults, timer, cache, pos>>
      /\ UNCHANGED <<consumed, acking, done>> /\ pc[i] = "ack"
      /\ pc' = [pc EXCEPT ![i] = next[i]] /\ next' = [next EXCEPT ![i] = "idle"]
      /\ except' = [except EXCEPT ![i] = 0]
  BY Zenon DEF EndAck, Goto, durable
<1>2. /\ pc \in [Invocations -> Places] /\ next \in [Invocations -> Returns]
      /\ except \in [Invocations -> 0..N] /\ next[i] \in Places /\ next[i] \in Returns
  BY Zenon DEF WakeInv, TypedMemory, TypedCall, Returns, Places
<1>3. /\ pc' \in [Invocations -> Places] /\ next' \in [Invocations -> Returns]
      /\ except' \in [Invocations -> 0..N]
  BY <1>1, <1>2, Numbers, Zenon DEF Returns
<1>4. TimerSide(i)
  BY <1>1, TimerUntouched, Zenon
<1>5. TypedCall' /\ TypedMemory'
  BY <1>1, <1>3, <1>4 DEF WakeInv, TypedCall, TypedMemory, TimerSide
<1>6. pc'[i] = next[i]
  BY <1>1, <1>2, Zenon
<1>7. PlaceInv(i)'
  BY <1>1, <1>2, <1>6 DEF WakeInv, PlaceInv, Returns
<1>8. \A q \in Invocations \ {i} : pc'[q] = pc[q] /\ next'[q] = next[q]
  BY <1>1, <1>2, Zenon
<1> QED
  BY <1>1, <1>4, <1>5, <1>7, <1>8, OneMoves, Zenon

LEMMA FinishKeepsWake ==
  ASSUME WakeInv, NEW i \in Invocations, Finish(i) PROVE WakeInv'
<1>1. UNCHANGED <<timer, event, claim, fresh, cache, seen, listed, pos, consumed>>
  BY Zenon DEF Finish
<1>2. PICK o \in Outcomes :
        /\ Charge(o)
        /\ workflow' = IF o = "failed" THEN workflow ELSE "TERMINAL"
        /\ done' = (done \/ o # "failed")
        /\ IF o = "ok" THEN BeginAck(i, 0, "release") ELSE pc' = [pc EXCEPT ![i] = "release"] /\ NoAck
  BY Zenon DEF Finish, Goto
<1>3. /\ workflow \in {"NONE", "IN_PROGRESS", "TERMINAL"} /\ faults \in Nat
      /\ pc \in [Invocations -> Places]
  BY Zenon DEF WakeInv, TypedCall
<1>4. workflow' \in {"NONE", "IN_PROGRESS", "TERMINAL"} /\ faults' \in Nat
  BY <1>2, <1>3 DEF Charge
<1>5. done' \in BOOLEAN /\ (done => done')
  BY <1>2, Zenon
<1>6. TimerSide(i)
  BY <1>1, <1>5, TimerUntouched, Zenon
<1>7. CASE o = "ok"
  <2>1. done' /\ 0 \in 0..N
    BY <1>2, <1>7, Numbers, Zenon
  <2> QED
    BY <1>1, <1>2, <1>4, <1>5, <1>6, <1>7, <2>1, AckStarts
<1>8. CASE o # "ok"
  <2>1. pc' = [pc EXCEPT ![i] = "release"] /\ UNCHANGED <<acking, except, next>>
    BY <1>2, <1>8, Zenon DEF NoAck
  <2>2. TypedCall'
    BY <1>1, <1>4, <2>1, Zenon DEF WakeInv, TypedCall, Places
  <2>3. TypedMemory'
    BY <1>1, <1>5, <1>6, <2>1 DEF WakeInv, TypedMemory, TimerSide
  <2>4. pc'[i] = "release" /\ \A q \in Invocations \ {i} : pc'[q] = pc[q]
    BY <1>3, <2>1, Zenon
  <2>5. PlaceInv(i)'
    BY <1>1, <2>1, <2>4, Zenon DEF WakeInv, PlaceInv
  <2> QED
    BY <1>1, <1>5, <1>6, <2>1, <2>2, <2>3, <2>4, <2>5, OneMoves
<1> QED
  BY <1>7, <1>8, Zenon

LEMMA ReleaseKeepsWake ==
  ASSUME WakeInv, NEW i \in Invocations, Release(i) PROVE WakeInv'
<1>1. claim \in {"free", "leaked"} \cup Invocations /\ faults \in Nat
  BY Zenon DEF WakeInv, TypedCall
<1>2. claim' \in {"free", "leaked"} \cup Invocations /\ faults' \in Nat
  BY <1>1 DEF Release, Charge
<1>3. Reset(i) /\ pc' = [pc EXCEPT ![i] = "idle"] /\ UNCHANGED <<workflow, timer, event, done>>
  BY Zenon DEF Release, Goto
<1> QED
  BY <1>2, <1>3, Forgets, Zenon

LEMMA CrashKeepsWake ==
  ASSUME WakeInv, NEW i \in Invocations, Crash(i) PROVE WakeInv'
<1>1. claim \in {"free", "leaked"} \cup Invocations /\ faults \in Nat
  BY Zenon DEF WakeInv, TypedCall
<1>2. claim' \in {"free", "leaked"} \cup Invocations /\ faults' \in Nat
  BY <1>1 DEF Crash
<1>3. Reset(i) /\ pc' = [pc EXCEPT ![i] = "idle"] /\ UNCHANGED <<workflow, timer, event, done>>
  BY Zenon DEF Crash, Goto
<1> QED
  BY <1>2, <1>3, Forgets, Zenon

LEMMA TickKeepsWake ==
  ASSUME WakeInv, Tick PROVE WakeInv'
<1>1. /\ timer \in [Waits -> Stored] /\ cache \in [Invocations -> [Waits -> Known]]
  BY Zenon DEF WakeInv, TypedMemory
<1>2. /\ timer' = [k \in Waits |-> Closer(timer[k])]
      /\ cache' = [i \in Invocations |-> [k \in Waits |-> Closer(cache[i][k])]]
      /\ UNCHANGED <<workflow, event, claim, pc, fresh, seen, listed, faults>>
      /\ UNCHANGED <<pos, consumed, acking, except, next, done>>
  BY Zenon DEF Tick
<1>3. /\ \A r \in Stored : /\ Closer(r) \in Stored /\ Closer(r).status = r.status
                           /\ Closer(r) = NoRecord <=> r = NoRecord
      /\ \A r \in Known : Closer(r) \in Known /\ (Closer(r) \in TimerRecord => r \in TimerRecord)
  BY ClosingIn, Records, Zenon DEF Stored, Known
<1>4. timer' \in [Waits -> Stored] /\ cache' \in [Invocations -> [Waits -> Known]]
  BY <1>1, <1>2, <1>3
<1>5. \A k \in Waits : timer'[k].status = timer[k].status /\ (Armed(k)' <=> Armed(k))
  BY <1>1, <1>2, <1>3, Zenon DEF Armed
<1>6. \A i \in Invocations, k \in Waits : cache'[i][k] \in TimerRecord => cache[i][k] \in TimerRecord
  BY <1>1, <1>2, <1>3
<1>7. FiredBehindSuccessor'
  BY <1>2, <1>5, Zenon DEF WakeInv, FiredBehindSuccessor
<1>8. LastArmed'
  <2>1. PICK h \in 0..N : (h # 0 => Armed(h)) /\ \A k \in Waits : k > h => ~Armed(k)
    BY Zenon DEF WakeInv, LastArmed
  <2>2. (h # 0 => Armed(h)') /\ \A k \in Waits : k > h => ~Armed(k)'
    BY <1>5, <2>1, NIsNat DEF Waits
  <2> QED
    BY <2>2, Zenon DEF LastArmed
<1>9. TypedCall' /\ TypedMemory'
  BY <1>2, <1>4 DEF WakeInv, TypedCall, TypedMemory
<1>10. ASSUME NEW i \in Invocations PROVE CacheInv(i)' /\ PlaceInv(i)'
  BY <1>2, <1>5, <1>6 DEF WakeInv, CacheInv, PlaceInv
<1> QED
  BY <1>7, <1>8, <1>9, <1>10, Zenon DEF WakeInv

LEMMA StutterKeepsWake == ASSUME WakeInv, UNCHANGED vars PROVE WakeInv'
<1>1. /\ UNCHANGED <<timer, cache, pos, consumed, acking, except, next, done>>
      /\ UNCHANGED <<workflow, event, claim, faults, pc, fresh, seen, listed>>
  BY Zenon DEF vars, durable, locals
<1> QED
  BY <1>1, QuietStep, Zenon DEF WakeInv, TypedCall

LEMMA WakeInvStep == WakeInv /\ [Next]_vars => WakeInv'
  BY StartKeepsWake, TryCreateClaimKeepsWake, LostClaimKeepsWake,
     ClaimBusyKeepsWake, RereadKeepsWake, PrefetchEventsKeepsWake,
     EnterBodyKeepsWake, GiveUpKeepsWake, WaitFailsKeepsWake,
     BodyReturnsKeepsWake, ExitKeepsWake, OperatorReleaseKeepsWake,
     DeliverKeepsWake, CacheReadKeepsWake, LoadTimerKeepsWake,
     SleepKnownKeepsWake, SleepNewKeepsWake, VerifyKeepsWake,
     ConsumeKeepsWake, WaitEventKeepsWake, ArmPollKeepsWake,
     AcknowledgeKeepsWake, EndAckKeepsWake, FinishKeepsWake, ReleaseKeepsWake,
     CrashKeepsWake, TickKeepsWake, StutterKeepsWake
  DEF Next, InvocationStep, Replay

-----------------------------------------------------------------------------
(* The claim *)

(* With claims, the invocation that executes the run is the one the claim    *)
(* names, and after the terminal record it does nothing but acknowledge and  *)
(* release.                                                                  *)
HolderInv(i) ==
  /\ Executing(i) <=> claim = i
  /\ workflow = "TERMINAL" /\ Executing(i) =>
       pc[i] \in {"reread", "release"} \/ (pc[i] = "ack" /\ next[i] = "release")
  /\ pc[i] = "ack" => next[i] # "idle"

ClaimInv == UseClaims => \A i \in Invocations : HolderInv(i)

LEMMA ClaimInvInit == Init => ClaimInv
  BY ClaimValuesDistinct DEF Init, ClaimInv, HolderInv, Executing

(* Where an executing invocation may go, and what keeps HolderInv then. *)
LEMMA StillExecuting ==
  ASSUME pc \in [Invocations -> Places], NEW i \in Invocations, NEW q \in Invocations,
         HolderInv(q), Executing(i), UNCHANGED <<workflow, claim, next>>,
         NEW l \in {"load", "body", "arm", "resolve", "verify", "consume", "finish", "exit", "release"},
         pc' = [pc EXCEPT ![i] = l], workflow = "TERMINAL" => l = "release"
  PROVE  HolderInv(q)'
<1>1. pc'[q] = IF q = i THEN l ELSE pc[q]
  OBVIOUS
<1>2. Executing(q)' <=> Executing(q)
  BY <1>1, Zenon DEF Executing
<1>3. CASE q = i
  BY <1>1, <1>2, <1>3, Zenon DEF HolderInv
<1>4. CASE q # i
  BY <1>1, <1>2, <1>4, Zenon DEF HolderInv
<1> QED
  BY <1>3, <1>4, Zenon

LEMMA StillAcking ==
  ASSUME pc \in [Invocations -> Places],
         next \in [Invocations -> {"idle", "exit", "consume", "release"}],
         NEW i \in Invocations, NEW q \in Invocations,
         HolderInv(q), Executing(i), UNCHANGED claim,
         NEW e, NEW m \in {"exit", "consume", "release"}, BeginAck(i, e, m),
         UNCHANGED workflow \/ \A j \in Invocations : Executing(j) => j = i,
         workflow' = "TERMINAL" => m = "release"
  PROVE  HolderInv(q)'
<1>1. pc'[q] = (IF q = i THEN "ack" ELSE pc[q]) /\ next'[q] = (IF q = i THEN m ELSE next[q])
  BY Zenon DEF BeginAck, Goto
<1>2. Executing(q)' <=> Executing(q)
  BY <1>1, Zenon DEF Executing
<1>3. CASE q = i
  BY <1>1, <1>2, <1>3, Zenon DEF HolderInv
<1>4. CASE q # i
  BY <1>1, <1>2, <1>4, Zenon DEF HolderInv
<1> QED
  BY <1>3, <1>4, Zenon

LEMMA Holding ==
  ASSUME TypeOK, \A j \in Invocations : HolderInv(j)
  PROVE  /\ pc \in [Invocations -> Places] /\ claim \in {"free", "leaked"} \cup Invocations
         /\ next \in [Invocations -> {"idle", "exit", "consume", "release"}]
         /\ \A i, j \in Invocations : Executing(i) /\ Executing(j) => i = j
         /\ \A i \in Invocations :
              pc[i] \in {"load", "body", "arm", "resolve", "verify", "consume", "finish", "exit"} =>
                Executing(i) /\ workflow # "TERMINAL"
<1>1. /\ pc \in [Invocations -> Places] /\ claim \in {"free", "leaked"} \cup Invocations
      /\ next \in [Invocations -> {"idle", "exit", "consume", "release"}]
  BY Zenon DEF TypeOK
<1>2. \A i, j \in Invocations : Executing(i) /\ Executing(j) => i = j
  BY Zenon DEF HolderInv
<1>3. \A i \in Invocations :
        pc[i] \in {"load", "body", "arm", "resolve", "verify", "consume", "finish", "exit"} =>
          Executing(i) /\ workflow # "TERMINAL"
  BY Zenon DEF HolderInv, Executing
<1> QED
  BY <1>1, <1>2, <1>3, Zenon

LEMMA NothingMoved ==
  ASSUME NEW q \in Invocations, HolderInv(q), UNCHANGED <<workflow, claim, pc, next>>
  PROVE  HolderInv(q)'
  BY Zenon DEF HolderInv, Executing

(* Before the claim is held. *)
LEMMA NotYetExecuting ==
  ASSUME pc \in [Invocations -> Places], NEW i \in Invocations, NEW q \in Invocations,
         HolderInv(q), ~Executing(i), UNCHANGED <<workflow, claim, next>>,
         NEW l \in {"idle", "claim1", "claim2", "lost1", "lost2", "busy1", "busy2"},
         pc' = [pc EXCEPT ![i] = l]
  PROVE  HolderInv(q)'
<1>1. pc'[q] = IF q = i THEN l ELSE pc[q]
  OBVIOUS
<1>2. Executing(q)' <=> Executing(q)
  BY <1>1, Zenon DEF Executing
<1> QED
  BY <1>1, <1>2, Zenon DEF HolderInv

LEMMA StartKeepsHolder ==
  ASSUME UseClaims, TypeOK, \A j \in Invocations : HolderInv(j), NEW q \in Invocations,
         NEW i \in Invocations, Start(i)
  PROVE  HolderInv(q)'
<1>1. ~Executing(i) /\ pc' = [pc EXCEPT ![i] = "claim1"] /\ UNCHANGED <<workflow, claim, next>>
  BY Zenon DEF Start, Goto, Executing, durable
<1> QED
  BY NotYetExecuting, Holding, <1>1, Zenon

LEMMA TryCreateClaimKeepsHolder ==
  ASSUME UseClaims, TypeOK, \A j \in Invocations : HolderInv(j), NEW q \in Invocations,
         NEW i \in Invocations, TryCreateClaim(i)
  PROVE  HolderInv(q)'
<1>0. pc[i] \in {"claim1", "claim2"} /\ ~Executing(i) /\ UNCHANGED <<workflow, next>>
  BY Zenon DEF TryCreateClaim, Executing
<1>1. CASE claim # "free"
  <2>1. UNCHANGED claim /\ \E l \in {"lost1", "lost2"} : pc' = [pc EXCEPT ![i] = l]
    BY <1>1, Zenon DEF TryCreateClaim, Goto
  <2> QED
    BY NotYetExecuting, Holding, <1>0, <2>1, Zenon
<1>2. CASE claim = "free"
  <2>1. PICK o \in Outcomes :
          /\ claim' = (CASE o = "ok" -> i [] o = "lost" -> "leaked" [] OTHER -> claim)
          /\ pc' = [pc EXCEPT ![i] = IF o = "ok" THEN "reread" ELSE "idle"]
    BY <1>2, Zenon DEF TryCreateClaim, Goto
  <2>2. ~Executing(q) /\ claim # q
    BY <1>2, ClaimValuesDistinct, Zenon DEF HolderInv
  <2>3. pc'[q] = IF q = i THEN (IF o = "ok" THEN "reread" ELSE "idle") ELSE pc[q]
    BY Holding, <2>1, Zenon
  <2>4. claim' = IF o = "ok" THEN i ELSE IF o = "lost" THEN "leaked" ELSE "free"
    BY <1>2, <2>1, Zenon DEF Outcomes
  <2>5. Executing(q)' <=> (q = i /\ o = "ok")
    BY <2>2, <2>3, Zenon DEF Executing
  <2>6. claim' = q <=> (q = i /\ o = "ok")
    BY <2>4, ClaimValuesDistinct, Zenon
  <2> QED
    BY <1>0, <2>2, <2>3, <2>5, <2>6 DEF HolderInv
<1> QED
  BY <1>1, <1>2, Zenon

LEMMA LostClaimKeepsHolder ==
  ASSUME UseClaims, TypeOK, \A j \in Invocations : HolderInv(j), NEW q \in Invocations,
         NEW i \in Invocations, LostClaim(i)
  PROVE  HolderInv(q)'
<1>1. /\ ~Executing(i) /\ UNCHANGED <<workflow, claim, next>>
      /\ \E l \in {"idle", "busy1", "busy2"} : pc' = [pc EXCEPT ![i] = l]
  BY Zenon DEF LostClaim, Goto, Executing, durable
<1> QED
  BY NotYetExecuting, Holding, <1>1, Zenon

LEMMA ClaimBusyKeepsHolder ==
  ASSUME UseClaims, TypeOK, \A j \in Invocations : HolderInv(j), NEW q \in Invocations,
         NEW i \in Invocations, ClaimBusy(i)
  PROVE  HolderInv(q)'
<1>1. /\ ~Executing(i) /\ UNCHANGED <<workflow, claim, next>>
      /\ \E l \in {"idle", "claim2"} : pc' = [pc EXCEPT ![i] = l]
  BY Zenon DEF ClaimBusy, Goto, Executing, durable
<1> QED
  BY NotYetExecuting, Holding, <1>1, Zenon

LEMMA RereadKeepsHolder ==
  ASSUME UseClaims, TypeOK, \A j \in Invocations : HolderInv(j), NEW q \in Invocations,
         NEW i \in Invocations, Reread(i)
  PROVE  HolderInv(q)'
<1>1. /\ Executing(i) /\ UNCHANGED <<workflow, claim, next>>
      /\ \E l \in {"load", "release"} : /\ pc' = [pc EXCEPT ![i] = l]
                                        /\ workflow = "TERMINAL" => l = "release"
  BY Zenon DEF Reread, Goto, Executing, durable
<1> QED
  BY Holding, <1>1, StillExecuting, Zenon

LEMMA OthersKeepsHolder ==
  ASSUME UseClaims, TypeOK, \A j \in Invocations : HolderInv(j), NEW q \in Invocations,
         NEW i \in Invocations, PrefetchEvents(i) \/ LoadTimer(i) \/ Acknowledge(i)
  PROVE  HolderInv(q)'
  BY NothingMoved, Zenon DEF PrefetchEvents, LoadTimer, Acknowledge, durable

LEMMA EnterBodyKeepsHolder ==
  ASSUME UseClaims, TypeOK, \A j \in Invocations : HolderInv(j), NEW q \in Invocations,
         NEW i \in Invocations, EnterBody(i)
  PROVE  HolderInv(q)'
<1>1. /\ pc[i] = "load" /\ UNCHANGED <<claim, next>>
      /\ UNCHANGED workflow \/ workflow' = "IN_PROGRESS"
      /\ \E l \in {"body", "release"} : pc' = [pc EXCEPT ![i] = l]
  BY Zenon DEF EnterBody, Goto, locals
<1>2. pc'[i] \in {"body", "release"} /\ (q # i => pc'[q] = pc[q])
  BY Holding, <1>1, Zenon
<1>3. Executing(q)' <=> Executing(q)
  BY <1>1, <1>2, Zenon DEF Executing
<1>4. workflow' # "TERMINAL"
  BY Holding, <1>1, Zenon
<1>5. pc'[q] = "ack" => pc[q] = "ack"
  BY <1>1, <1>2, Zenon
<1> QED
  BY <1>1, <1>3, <1>4, <1>5 DEF HolderInv

LEMMA GiveUpKeepsHolder ==
  ASSUME UseClaims, TypeOK, \A j \in Invocations : HolderInv(j), NEW q \in Invocations,
         NEW i \in Invocations, GiveUp(i)
  PROVE  HolderInv(q)'
<1>1. /\ Executing(i) /\ UNCHANGED <<workflow, claim, next>> /\ pc' = [pc EXCEPT ![i] = "release"]
  BY Zenon DEF GiveUp, Goto, Executing, durable, locals
<1> QED
  BY Holding, <1>1, StillExecuting, Zenon

LEMMA WaitFailsKeepsHolder ==
  ASSUME UseClaims, TypeOK, \A j \in Invocations : HolderInv(j), NEW q \in Invocations,
         NEW i \in Invocations, WaitFails(i)
  PROVE  HolderInv(q)'
<1>1. /\ pc[i] \in {"body", "arm", "resolve"} /\ UNCHANGED <<workflow, claim, next>>
      /\ \E l \in {"exit"} : pc' = [pc EXCEPT ![i] = l]
  BY Zenon DEF WaitFails, Goto, durable, locals
<1> QED
  BY Holding, <1>1, StillExecuting, Zenon

LEMMA SleepKnownKeepsHolder ==
  ASSUME UseClaims, TypeOK, \A j \in Invocations : HolderInv(j), NEW q \in Invocations,
         NEW i \in Invocations, SleepKnown(i)
  PROVE  HolderInv(q)'
<1>1. pc[i] = "body" /\ UNCHANGED <<workflow, claim>>
  BY Zenon DEF SleepKnown, AtSleep, durable
<1>2. \/ UNCHANGED <<pc, next>>
      \/ \E m \in {"exit", "consume"} : BeginAck(i, pos[i], m)
  BY Zenon DEF SleepKnown, NoAck
<1> QED
  BY NothingMoved, Holding, <1>1, <1>2, StillAcking

LEMMA SleepNewKeepsHolder ==
  ASSUME UseClaims, TypeOK, \A j \in Invocations : HolderInv(j), NEW q \in Invocations,
         NEW i \in Invocations, SleepNew(i)
  PROVE  HolderInv(q)'
<1>1. pc[i] = "body" /\ UNCHANGED <<workflow, claim>>
  BY Zenon DEF SleepNew, AtSleep
<1>2. \/ pc' = [pc EXCEPT ![i] = "verify"] /\ UNCHANGED next
      \/ \E m \in {"exit", "consume"} : BeginAck(i, pos[i], m)
  BY Zenon DEF SleepNew, NoAck, Goto
<1>3. CASE pc' = [pc EXCEPT ![i] = "verify"] /\ UNCHANGED next
  BY Holding, <1>1, <1>3, StillExecuting, Zenon
<1> QED
  BY Holding, <1>1, <1>2, <1>3, StillAcking

LEMMA VerifyKeepsHolder ==
  ASSUME UseClaims, TypeOK, \A j \in Invocations : HolderInv(j), NEW q \in Invocations,
         NEW i \in Invocations, Verify(i)
  PROVE  HolderInv(q)'
<1>1. /\ pc[i] \in {"verify"} /\ UNCHANGED <<workflow, claim, next>>
      /\ \E l \in {"body", "finish", "exit"} : pc' = [pc EXCEPT ![i] = l]
  BY Zenon DEF Verify, Goto, durable, locals
<1> QED
  BY Holding, <1>1, StillExecuting, Zenon

LEMMA ConsumeKeepsHolder ==
  ASSUME UseClaims, TypeOK, \A j \in Invocations : HolderInv(j), NEW q \in Invocations,
         NEW i \in Invocations, Consume(i)
  PROVE  HolderInv(q)'
<1>1. /\ pc[i] \in {"consume"} /\ UNCHANGED <<workflow, claim, next>>
      /\ \E l \in {"body"} : pc' = [pc EXCEPT ![i] = l]
  BY Zenon DEF Consume, Goto, durable, locals
<1> QED
  BY Holding, <1>1, StillExecuting, Zenon

LEMMA WaitEventKeepsHolder ==
  ASSUME UseClaims, TypeOK, \A j \in Invocations : HolderInv(j), NEW q \in Invocations,
         NEW i \in Invocations, WaitEvent(i)
  PROVE  HolderInv(q)'
<1>1. /\ pc[i] = "body" /\ UNCHANGED <<workflow, claim, next>>
      /\ UNCHANGED pc \/ \E l \in {"arm", "resolve", "exit"} : pc' = [pc EXCEPT ![i] = l]
  BY Zenon DEF WaitEvent, Goto, durable
<1> QED
  BY NothingMoved, Holding, <1>1, StillExecuting, Zenon

LEMMA ResolvePollKeepsHolder ==
  ASSUME UseClaims, TypeOK, \A j \in Invocations : HolderInv(j), NEW q \in Invocations,
         NEW i \in Invocations, ResolvePoll(i)
  PROVE  HolderInv(q)'
<1>1. /\ pc[i] \in {"resolve"} /\ UNCHANGED <<workflow, claim, next>>
      /\ \E l \in {"body"} : pc' = [pc EXCEPT ![i] = l]
  BY Zenon DEF ResolvePoll, Goto, durable, locals
<1> QED
  BY Holding, <1>1, StillExecuting, Zenon

LEMMA ArmPollKeepsHolder ==
  ASSUME UseClaims, TypeOK, \A j \in Invocations : HolderInv(j), NEW q \in Invocations,
         NEW i \in Invocations, ArmPoll(i)
  PROVE  HolderInv(q)'
<1>1. pc[i] = "arm" /\ UNCHANGED <<workflow, claim>>
  BY Zenon DEF ArmPoll
<1>2. \/ pc' = [pc EXCEPT ![i] = "verify"] /\ UNCHANGED next
      \/ BeginAck(i, pos[i], "exit")
  BY Zenon DEF ArmPoll, NoAck, Goto
<1>3. CASE pc' = [pc EXCEPT ![i] = "verify"] /\ UNCHANGED next
  BY Holding, <1>1, <1>3, StillExecuting, Zenon
<1> QED
  BY Holding, <1>1, <1>2, <1>3, StillAcking, Zenon

LEMMA EndAckKeepsHolder ==
  ASSUME UseClaims, TypeOK, \A j \in Invocations : HolderInv(j), NEW q \in Invocations,
         NEW i \in Invocations, EndAck(i)
  PROVE  HolderInv(q)'
<1>1. /\ pc[i] = "ack" /\ pc' = [pc EXCEPT ![i] = next[i]] /\ UNCHANGED <<workflow, claim>>
      /\ next' = [next EXCEPT ![i] = "idle"]
  BY Zenon DEF EndAck, Goto, durable
<1>2. next[i] \in {"exit", "consume", "release"} /\ Executing(i)
  BY Holding, <1>1, Zenon DEF HolderInv, Executing
<1>3. workflow = "TERMINAL" => next[i] = "release"
  BY <1>1, <1>2, Zenon DEF HolderInv
<1>4. CASE q = i
  <2>1. pc'[i] = next[i]
    BY Holding, <1>1, Zenon
  <2>2. Executing(i)' /\ pc'[i] # "ack"
    BY <1>2, <2>1, Zenon DEF Executing
  <2> QED
    BY <1>1, <1>2, <1>3, <1>4, <2>1, <2>2 DEF HolderInv
<1>5. CASE q # i
  <2>1. pc'[q] = pc[q] /\ next'[q] = next[q]
    BY Holding, <1>1, <1>5, Zenon
  <2> QED
    BY <1>1, <2>1, Zenon DEF HolderInv, Executing
<1> QED
  BY <1>4, <1>5, Zenon

LEMMA BodyReturnsKeepsHolder ==
  ASSUME UseClaims, TypeOK, \A j \in Invocations : HolderInv(j), NEW q \in Invocations,
         NEW i \in Invocations, BodyReturns(i)
  PROVE  HolderInv(q)'
<1>1. /\ pc[i] \in {"body"} /\ UNCHANGED <<workflow, claim, next>>
      /\ \E l \in {"finish"} : pc' = [pc EXCEPT ![i] = l]
  BY Zenon DEF BodyReturns, Goto, durable, locals
<1> QED
  BY Holding, <1>1, StillExecuting, Zenon

LEMMA FinishKeepsHolder ==
  ASSUME UseClaims, TypeOK, \A j \in Invocations : HolderInv(j), NEW q \in Invocations,
         NEW i \in Invocations, Finish(i)
  PROVE  HolderInv(q)'
<1>1. pc[i] = "finish" /\ UNCHANGED claim /\ (UNCHANGED workflow \/ workflow' = "TERMINAL")
  BY Zenon DEF Finish
<1>2. \/ pc' = [pc EXCEPT ![i] = "release"] /\ UNCHANGED next
      \/ BeginAck(i, 0, "release")
  BY Zenon DEF Finish, NoAck, Goto
<1>3. Executing(i) /\ \A j \in Invocations : Executing(j) => j = i
  BY Holding, <1>1, Zenon
<1>4. CASE pc' = [pc EXCEPT ![i] = "release"] /\ UNCHANGED next
  <2>1. pc'[q] = IF q = i THEN "release" ELSE pc[q]
    BY Holding, <1>4, Zenon
  <2>2. Executing(q)' <=> q = i
    BY <1>3, <2>1, Zenon DEF Executing
  <2>3. Executing(q) <=> q = i
    BY <1>3, Zenon
  <2> QED
    BY <1>1, <1>4, <2>1, <2>2, <2>3 DEF HolderInv
<1>5. CASE BeginAck(i, 0, "release")
  BY Holding, <1>1, <1>3, <1>5, StillAcking
<1> QED
  BY <1>2, <1>4, <1>5, Zenon

LEMMA ExitKeepsHolder ==
  ASSUME UseClaims, TypeOK, \A j \in Invocations : HolderInv(j), NEW q \in Invocations,
         NEW i \in Invocations, Exit(i)
  PROVE  HolderInv(q)'
<1>1. /\ pc[i] = "exit" /\ UNCHANGED <<claim, next>> /\ pc' = [pc EXCEPT ![i] = "release"]
      /\ UNCHANGED workflow \/ workflow' = "IN_PROGRESS"
  BY Zenon DEF Exit, Goto, locals
<1>2. pc'[q] = IF q = i THEN "release" ELSE pc[q]
  BY Holding, <1>1, Zenon
<1>3. Executing(q)' <=> Executing(q)
  BY <1>1, <1>2, Zenon DEF Executing
<1>4. workflow' # "TERMINAL"
  BY Holding, <1>1, Zenon
<1> QED
  BY <1>1, <1>2, <1>3, <1>4 DEF HolderInv

LEMMA ReleaseKeepsHolder ==
  ASSUME UseClaims, TypeOK, \A j \in Invocations : HolderInv(j), NEW q \in Invocations,
         NEW i \in Invocations, Release(i)
  PROVE  HolderInv(q)'
<1>1. /\ pc' = [pc EXCEPT ![i] = "idle"] /\ next' = [next EXCEPT ![i] = "idle"]
      /\ UNCHANGED workflow
  BY Zenon DEF Release, Goto, Reset
<1>2. pc[i] = "release" /\ claim' \in {"leaked", "free"}
  BY Zenon DEF Release
<1>3. CASE q = i
  <2>1. pc'[q] = "idle" /\ ~Executing(q)'
    BY Holding, <1>1, <1>3, Zenon DEF Executing
  <2>2. claim' # q
    BY <1>2, <1>3, ClaimValuesDistinct, Zenon
  <2> QED
    BY <2>1, <2>2, Zenon DEF HolderInv
<1>4. CASE q # i
  <2>1. pc'[q] = pc[q] /\ next'[q] = next[q] /\ (Executing(q)' <=> Executing(q))
    BY Holding, <1>1, <1>4 DEF Executing
  <2>2. claim' = q <=> claim = q
    BY Holding, <1>2, <1>4, ClaimValuesDistinct DEF HolderInv, Executing
  <2> QED
    BY <1>1, <2>1, <2>2, Zenon DEF HolderInv
<1> QED
  BY <1>3, <1>4, Zenon

LEMMA CrashKeepsHolder ==
  ASSUME UseClaims, TypeOK, \A j \in Invocations : HolderInv(j), NEW q \in Invocations,
         NEW i \in Invocations, Crash(i)
  PROVE  HolderInv(q)'
<1>1. /\ pc' = [pc EXCEPT ![i] = "idle"] /\ next' = [next EXCEPT ![i] = "idle"]
      /\ UNCHANGED workflow
  BY Zenon DEF Crash, Goto, Reset
<1>2. claim' = IF claim = i THEN "leaked" ELSE claim
  BY Zenon DEF Crash
<1>3. CASE q = i
  <2>1. pc'[q] = "idle" /\ ~Executing(q)'
    BY Holding, <1>1, <1>3, Zenon DEF Executing
  <2>2. claim' # q
    BY <1>2, <1>3, ClaimValuesDistinct, Zenon
  <2> QED
    BY <2>1, <2>2, Zenon DEF HolderInv
<1>4. CASE q # i
  <2>1. pc'[q] = pc[q] /\ next'[q] = next[q] /\ (Executing(q)' <=> Executing(q))
    BY Holding, <1>1, <1>4 DEF Executing
  <2>2. claim' = q <=> claim = q
    BY Holding, <1>2, <1>4, ClaimValuesDistinct DEF HolderInv, Executing
  <2> QED
    BY <1>1, <2>1, <2>2, Zenon DEF HolderInv
<1> QED
  BY <1>3, <1>4, Zenon

LEMMA ReplayKeepsHolder ==
  ASSUME UseClaims, TypeOK, \A j \in Invocations : HolderInv(j), NEW q \in Invocations,
         NEW i \in Invocations, Replay(i)
  PROVE  HolderInv(q)'
  BY NothingMoved, Zenon DEF Replay, vars, durable, locals

LEMMA PrefetchTimerKeepsHolder ==
  ASSUME UseClaims, TypeOK, \A j \in Invocations : HolderInv(j), NEW q \in Invocations,
         NEW i \in Invocations, NEW k \in Waits, PrefetchTimer(i, k)
  PROVE  HolderInv(q)'
  BY NothingMoved, Zenon DEF PrefetchTimer, durable

LEMMA DeliverKeepsHolder ==
  ASSUME UseClaims, TypeOK, \A j \in Invocations : HolderInv(j), NEW q \in Invocations,
         NEW k \in Waits, Deliver(k)
  PROVE  HolderInv(q)'
  BY NothingMoved, Zenon DEF Deliver, locals

LEMMA OperatorReleaseKeepsHolder ==
  ASSUME UseClaims, TypeOK, \A j \in Invocations : HolderInv(j), NEW q \in Invocations,
         OperatorRelease
  PROVE  HolderInv(q)'
<1>1. claim = "leaked" /\ claim' = "free" /\ UNCHANGED <<workflow, pc, next>>
  BY Zenon DEF OperatorRelease, locals
<1> QED
  BY <1>1, ClaimValuesDistinct, Zenon DEF HolderInv, Executing

LEMMA TickKeepsHolder ==
  ASSUME UseClaims, TypeOK, \A j \in Invocations : HolderInv(j), NEW q \in Invocations,
         Tick
  PROVE  HolderInv(q)'
  BY NothingMoved, Zenon DEF Tick

LEMMA StutterKeepsHolder ==
  ASSUME UseClaims, TypeOK, \A j \in Invocations : HolderInv(j), NEW q \in Invocations,
         UNCHANGED vars
  PROVE  HolderInv(q)'
  BY NothingMoved, Zenon DEF vars, durable, locals

LEMMA ClaimInvStep == TypeOK /\ ClaimInv /\ [Next]_vars => ClaimInv'
<1> SUFFICES ASSUME UseClaims, TypeOK, [Next]_vars,
                    \A j \in Invocations : HolderInv(j), NEW q \in Invocations
             PROVE  HolderInv(q)'
  BY Zenon DEF ClaimInv
<1> QED
  BY StartKeepsHolder, TryCreateClaimKeepsHolder, LostClaimKeepsHolder,
     ClaimBusyKeepsHolder, RereadKeepsHolder, OthersKeepsHolder,
     EnterBodyKeepsHolder, GiveUpKeepsHolder, WaitFailsKeepsHolder,
     SleepKnownKeepsHolder, SleepNewKeepsHolder, VerifyKeepsHolder,
     ConsumeKeepsHolder, WaitEventKeepsHolder, ResolvePollKeepsHolder,
     ArmPollKeepsHolder, EndAckKeepsHolder, BodyReturnsKeepsHolder,
     FinishKeepsHolder, ExitKeepsHolder, ReleaseKeepsHolder, CrashKeepsHolder,
     ReplayKeepsHolder, PrefetchTimerKeepsHolder, DeliverKeepsHolder,
     OperatorReleaseKeepsHolder, TickKeepsHolder, StutterKeepsHolder
  DEF Next, InvocationStep

-----------------------------------------------------------------------------
(* Sleeps *)

Elapsed(k) == Armed(k) /\ timer[k].wait = 0

(* The invocation has decided that the wait it stands on is over. *)
Due(i) == pc[i] = "consume" \/ (pc[i] = "ack" /\ next[i] = "consume")

(* What the invocation knows to be missing is missing: only the holder of    *)
(* the claim writes timers, and it has none of its own writes to look up.    *)
Sure(i, k) ==
  \/ pc[i] \in {"reread", "load", "body", "arm", "resolve", "consume", "ack", "finish"}
  \/ pc[i] = "verify" /\ k # pos[i]

(* What invocation i and sleep k have in common: the store and the cache     *)
(* agree about the deadline, a FIRED sleep has elapsed, and so has one the   *)
(* invocation is past or about to pass.                                      *)
SleepAt(i, k) ==
  /\ k < pos[i] => Elapsed(k)
  /\ k = pos[i] /\ Due(i) => Elapsed(k)
  /\ k = pos[i] => pc[i] \notin {"arm", "resolve"}
  /\ timer[k].status = "FIRED" => timer[k].wait = 0
  /\ cache[i][k].status = "FIRED" => cache[i][k].wait = 0
  /\ cache[i][k] \in TimerRecord => Armed(k) /\ cache[i][k].wait = timer[k].wait
  /\ cache[i][k] = NoRecord /\ Sure(i, k) => timer[k] = NoRecord
  /\ ~Executing(i) => pos[i] = 1 /\ cache[i][k] = Unread

Sleeps == {k \in Waits : Kind[k] = "sleep"}

SleepInv == UseClaims => \A i \in Invocations, k \in Sleeps : SleepAt(i, k)

SleepPre ==
  /\ UseClaims /\ WakeInv
  /\ \A j \in Invocations : HolderInv(j)
  /\ \A j \in Invocations, l \in Sleeps : SleepAt(j, l)

LEMMA SleepTypes ==
  ASSUME SleepPre
  PROVE  /\ UseClaims /\ timer \in [Waits -> Stored] /\ cache \in [Invocations -> [Waits -> Known]]
         /\ pos \in [Invocations -> 1..(N + 1)] /\ pc \in [Invocations -> Places]
         /\ next \in [Invocations -> Returns]
  BY Zenon DEF SleepPre, WakeInv, TypedMemory, TypedCall

(* What Remember does to the cached timers, whatever is remembered. *)
LEMMA RemembersOne ==
  ASSUME cache \in [Invocations -> [Waits -> Known]], NEW i \in Invocations, NEW w \in Waits, NEW v,
         Remember(i, w, v)
  PROVE  /\ cache'[i][w] = v
         /\ \A l \in Waits \ {w} : cache'[i][l] = cache[i][l]
         /\ \A j \in Invocations \ {i} : cache'[j] = cache[j]
  BY Zenon DEF Remember

LEMMA OneExecutes ==
  ASSUME SleepPre, NEW i \in Invocations, NEW q \in Invocations, Executing(i), q # i
  PROVE  ~Executing(q)
  BY Zenon DEF SleepPre, HolderInv

(* An invocation the step does not concern. *)
LEMMA SleepUntouched ==
  ASSUME NEW q, NEW k, SleepAt(q, k), timer'[k] = timer[k],
         pc'[q] = pc[q] /\ pos'[q] = pos[q] /\ next'[q] = next[q] /\ cache'[q][k] = cache[q][k]
  PROVE  SleepAt(q, k)'
  BY DEF SleepAt, Elapsed, Armed, Due, Sure, Executing

(* One that does not execute knows nothing of the sleep. *)
LEMMA SleepUnknown ==
  ASSUME NEW q, NEW k \in Waits, ~Executing(q)', pos'[q] = 1, cache'[q][k] = Unread,
         timer'[k].status = "FIRED" => timer'[k].wait = 0
  PROVE  SleepAt(q, k)'
<1>1. ~(k < 1)
  BY Numbers, Zenon
<1>2. ~Due(q)' /\ pc'[q] \notin {"arm", "resolve"}
  BY Zenon DEF Due, Executing
<1> QED
  BY <1>1, <1>2, Records, Zenon DEF SleepAt

(* A step before the claim is held. *)
LEMMA SleepOutside ==
  ASSUME SleepPre, NEW i \in Invocations, ~Executing(i), UNCHANGED <<timer, cache, pos, next>>,
         NEW l \in {"idle", "claim1", "claim2", "lost1", "lost2", "busy1", "busy2", "reread"},
         pc' = [pc EXCEPT ![i] = l], NEW q \in Invocations, NEW k \in Sleeps
  PROVE  SleepAt(q, k)'
<1>1. SleepAt(q, k) /\ k \in Waits
  BY Zenon DEF SleepPre, Sleeps
<1>2. pc'[q] = IF q = i THEN l ELSE pc[q]
  BY SleepTypes, Zenon
<1>3. CASE q # i
  BY <1>1, <1>2, <1>3, SleepUntouched
<1>4. CASE q = i
  <2>1. pos[q] = 1 /\ cache[q][k] = Unread /\ (timer[k].status = "FIRED" => timer[k].wait = 0)
    BY <1>1, <1>4, Zenon DEF SleepAt
  <2>2. ~Due(q)' /\ pc'[q] \notin {"arm", "resolve"}
    BY <1>2, <1>4, Zenon DEF Due
  <2>3. ~(k < 1)
    BY <1>1, Numbers, Zenon
  <2> QED
    BY <2>1, <2>2, <2>3, Records DEF SleepAt
<1> QED
  BY <1>3, <1>4, Zenon

(* The step ends the invocation. *)
LEMMA SleepForgotten ==
  ASSUME SleepPre, NEW i \in Invocations, UNCHANGED timer, Reset(i),
         pc' = [pc EXCEPT ![i] = "idle"], NEW q \in Invocations, NEW k \in Sleeps
  PROVE  SleepAt(q, k)'
<1>1. SleepAt(q, k) /\ k \in Waits
  BY Zenon DEF SleepPre, Sleeps
<1>2. CASE q # i
  <2>1. pc'[q] = pc[q] /\ pos'[q] = pos[q] /\ next'[q] = next[q] /\ cache'[q] = cache[q]
    BY <1>2, SleepTypes, Zenon DEF Reset
  <2> QED
    BY <1>1, <2>1, SleepUntouched
<1>3. CASE q = i
  <2>1. pc'[i] = "idle" /\ pos'[i] = 1 /\ cache'[i] = [l \in Waits |-> Unread]
    BY SleepTypes, Zenon DEF Reset
  <2>2. ~Executing(q)' /\ cache'[q][k] = Unread
    BY <1>1, <1>3, <2>1 DEF Executing
  <2>3. timer[k].status = "FIRED" => timer[k].wait = 0
    BY <1>1, Zenon DEF SleepAt
  <2> QED
    BY <1>1, <1>3, <2>1, <2>2, <2>3, SleepUnknown
<1> QED
  BY <1>2, <1>3, Zenon

(* The executing invocation i goes from wait to wait and reads timers. *)
OthersStand(i) ==
  \A q \in Invocations \ {i} :
    pc'[q] = pc[q] /\ pos'[q] = pos[q] /\ next'[q] = next[q] /\ cache'[q] = cache[q]

LEMMA OneStepOn ==
  ASSUME NEW k \in Nat, NEW p \in Nat, NEW n, n = p \/ n = p + 1, k < n
  PROVE  k < p \/ (k = p /\ n = p + 1)
  OBVIOUS

LEMMA SleepWalks ==
  ASSUME SleepPre, NEW i \in Invocations, UNCHANGED timer, OthersStand(i), Executing(i)',
         \A l \in Sleeps : cache'[i][l] = cache[i][l] \/ cache'[i][l] = timer[l],
         \A l \in Sleeps : Sure(i, l)' /\ cache'[i][l] # timer[l] => Sure(i, l),
         \/ pos'[i] = pos[i]
         \/ pos'[i] = pos[i] + 1 /\ pc'[i] = "body" /\ (pos[i] \in Sleeps => Elapsed(pos[i])),
         Due(i)' /\ pos'[i] \in Sleeps => Elapsed(pos'[i]),
         pc'[i] \in {"arm", "resolve"} => pos'[i] \notin Sleeps,
         NEW q \in Invocations, NEW k \in Sleeps
  PROVE  SleepAt(q, k)'
<1>1. SleepAt(q, k) /\ k \in Waits
  BY Zenon DEF SleepPre, Sleeps
<1>2. CASE q # i
  BY <1>1, <1>2, SleepUntouched DEF OthersStand
<1>3. CASE q = i
  <2>1. k < pos'[i] => Elapsed(k)'
    <3>0. k \in Nat /\ pos[i] \in Nat
      BY <1>1, SleepTypes, Numbers
    <3>1. k < pos'[i] => k < pos[i] \/ (k = pos[i] /\ pos'[i] = pos[i] + 1)
      BY <3>0, OneStepOn, Zenon
    <3>2. k < pos'[i] => Elapsed(k)
      BY <1>1, <1>3, <3>1 DEF SleepAt
    <3> QED
      BY <3>2, Zenon DEF Elapsed, Armed
  <2>2. k = pos'[i] /\ Due(i)' => Elapsed(k)'
    BY Zenon DEF Elapsed, Armed
  <2>3. k = pos'[i] => pc'[i] \notin {"arm", "resolve"}
    OBVIOUS
  <2>4. /\ timer'[k].status = "FIRED" => timer'[k].wait = 0
        /\ cache'[i][k].status = "FIRED" => cache'[i][k].wait = 0
    BY <1>1, <1>3, Zenon DEF SleepAt
  <2>5. cache'[i][k] \in TimerRecord => Armed(k)' /\ cache'[i][k].wait = timer'[k].wait
    BY <1>1, <1>3, Records DEF SleepAt, Armed
  <2>6. cache'[i][k] = NoRecord /\ Sure(i, k)' => timer'[k] = NoRecord
    BY <1>1, <1>3 DEF SleepAt
  <2> QED
    BY <1>3, <2>1, <2>2, <2>3, <2>4, <2>5, <2>6 DEF SleepAt
<1> QED
  BY <1>2, <1>3

(* It writes the timer of wait w, and may not learn that it did. *)
LEMMA SleepWrites ==
  ASSUME SleepPre, NEW i \in Invocations, Executing(i), Executing(i)', OthersStand(i),
         NEW w \in Waits, NEW r \in TimerRecord, timer' = [timer EXCEPT ![w] = r],
         UNCHANGED pos, \A l \in Waits \ {w} : cache'[i][l] = cache[i][l],
         pc'[i] \in {"ack", "verify"}, \A l \in Sleeps \ {w} : Sure(i, l),
         \A l \in Sleeps \ {w} : l = pos[i] /\ Due(i)' => Elapsed(l),
         w \in Sleeps =>
           /\ r.status = "FIRED" => r.wait = 0
           /\ cache'[i][w] \in TimerRecord => cache'[i][w].wait = r.wait
           /\ cache'[i][w].status = "FIRED" => cache'[i][w].wait = 0
           /\ cache'[i][w] = NoRecord => ~Sure(i, w)'
           /\ w < pos[i] => r.wait = 0
           /\ w = pos[i] /\ Due(i)' => r.wait = 0,
         NEW q \in Invocations, NEW k \in Sleeps
  PROVE  SleepAt(q, k)'
<1>1. SleepAt(q, k) /\ SleepAt(i, k) /\ k \in Waits
  BY Zenon DEF SleepPre, Sleeps
<1>2. timer'[k] = IF k = w THEN r ELSE timer[k]
  BY <1>1, SleepTypes, Zenon
<1>3. timer'[k].status = "FIRED" => timer'[k].wait = 0
  BY <1>1, <1>2 DEF SleepAt
<1>4. CASE q # i
  <2>1. ~Executing(q) /\ pc'[q] = pc[q] /\ pos'[q] = pos[q] /\ cache'[q] = cache[q]
    BY <1>4, OneExecutes DEF OthersStand
  <2>2. ~Executing(q)' /\ pos'[q] = 1 /\ cache'[q][k] = Unread
    BY <1>1, <2>1, Zenon DEF SleepAt, Executing
  <2> QED
    BY <1>1, <1>3, <2>2, SleepUnknown
<1>5. CASE q = i /\ k = w
  <2>0. timer'[k] = r
    BY <1>2, <1>5, Zenon
  <2>1. Armed(k)' /\ timer'[k].wait = r.wait
    BY <2>0, Records, Zenon DEF Armed
  <2> QED
    BY <1>3, <1>5, <2>1 DEF SleepAt, Elapsed
<1>6. CASE q = i /\ k # w
  <2>1. timer'[k] = timer[k] /\ cache'[i][k] = cache[i][k] /\ pos'[i] = pos[i]
    BY <1>1, <1>2, <1>6, Zenon
  <2>2. Sure(i, k) /\ (k = pos[i] /\ Due(i)' => Elapsed(k)) /\ pc'[i] \notin {"arm", "resolve"}
    BY <1>6, Zenon
  <2>3. (Elapsed(k) <=> Elapsed(k)') /\ (Armed(k) <=> Armed(k)')
    BY <2>1, Zenon DEF Elapsed, Armed
  <2> QED
    BY <1>1, <1>6, <2>1, <2>2, <2>3 DEF SleepAt
<1> QED
  BY <1>4, <1>5, <1>6

(* The steps, one lemma per kind of step *)

LEMMA SleepBeforeClaim ==
  ASSUME SleepPre, NEW i \in Invocations,
         Start(i) \/ TryCreateClaim(i) \/ LostClaim(i) \/ ClaimBusy(i),
         NEW q \in Invocations, NEW k \in Sleeps
  PROVE  SleepAt(q, k)'
<1>1. ~Executing(i) /\ UNCHANGED <<timer, cache, pos, next>>
  BY Zenon DEF Start, TryCreateClaim, LostClaim, ClaimBusy, Executing, durable
<1>2. \E l \in {"idle", "claim1", "claim2", "lost1", "lost2", "busy1", "busy2", "reread"} :
        pc' = [pc EXCEPT ![i] = l]
  BY SleepTypes DEF Start, TryCreateClaim, LostClaim, ClaimBusy, Goto
<1> QED
  BY <1>1, <1>2, SleepOutside

(* The holder moves without touching a timer, its cache or its position. *)
LEMMA SleepGoto ==
  ASSUME SleepPre, NEW i \in Invocations, UNCHANGED <<timer, cache, pos, next>>,
         NEW l \in {"load", "body", "arm", "resolve", "finish", "exit", "release"},
         pc' = [pc EXCEPT ![i] = l],
         l \in {"exit", "release"} \/ pc[i] \in {"reread", "load", "body"},
         l \in {"arm", "resolve"} => pos[i] \notin Sleeps,
         NEW q \in Invocations, NEW k \in Sleeps
  PROVE  SleepAt(q, k)'
<1>1. pc'[i] = l
  BY SleepTypes, Zenon
<1>2. OthersStand(i)
  BY SleepTypes, Zenon DEF OthersStand
<1>3. Executing(i)' /\ ~Due(i)' /\ \A m \in Sleeps : Sure(i, m)' => Sure(i, m)
  BY <1>1, Zenon DEF Executing, Due, Sure
<1> QED
  BY <1>1, <1>2, <1>3, SleepWalks

LEMMA SleepQuietly ==
  ASSUME SleepPre, NEW i \in Invocations,
         \/ Reread(i) \/ EnterBody(i) \/ GiveUp(i) \/ WaitFails(i) \/ BodyReturns(i) \/ Exit(i),
         NEW q \in Invocations, NEW k \in Sleeps
  PROVE  SleepAt(q, k)'
<1>1. UNCHANGED <<timer, cache, pos, next>>
  BY Zenon DEF Reread, EnterBody, GiveUp, WaitFails, BodyReturns, Exit, durable, locals
<1>2. \E l \in {"load", "body", "finish", "exit", "release"} :
        /\ pc' = [pc EXCEPT ![i] = l]
        /\ l \in {"exit", "release"} \/ pc[i] \in {"reread", "load", "body"}
  BY Zenon DEF Reread, EnterBody, GiveUp, WaitFails, BodyReturns, Exit, Goto
<1> QED
  BY <1>1, <1>2, SleepGoto

LEMMA SleepEnds ==
  ASSUME SleepPre, NEW i \in Invocations, Release(i) \/ Crash(i),
         NEW q \in Invocations, NEW k \in Sleeps
  PROVE  SleepAt(q, k)'
<1>1. UNCHANGED timer /\ Reset(i) /\ pc' = [pc EXCEPT ![i] = "idle"]
  BY Zenon DEF Release, Crash, Goto
<1> QED
  BY <1>1, SleepForgotten

LEMMA SleepStutters ==
  ASSUME SleepPre, NEW q \in Invocations, NEW k \in Sleeps,
         UNCHANGED <<timer, cache, pos, next, pc>>
  PROVE  SleepAt(q, k)'
<1>1. SleepAt(q, k)
  BY Zenon DEF SleepPre
<1> QED
  BY <1>1, SleepUntouched

LEMMA SleepIsRead ==
  ASSUME SleepPre, NEW i \in Invocations, NEW w \in Waits, Remember(i, w, timer[w]),
         Executing(i), UNCHANGED <<timer, pc, pos, next>>,
         NEW q \in Invocations, NEW k \in Sleeps
  PROVE  SleepAt(q, k)'
<1>1. timer[w] \in Known
  BY SleepTypes, Zenon DEF Stored, Known
<1>2. /\ \A l \in Waits : cache'[i][l] = IF l = w THEN timer[w] ELSE cache[i][l]
      /\ \A j \in Invocations \ {i} : cache'[j] = cache[j]
  BY <1>1, SleepTypes, Remembered
<1>3. OthersStand(i) /\ \A l \in Sleeps : cache'[i][l] = cache[i][l] \/ cache'[i][l] = timer[l]
  BY <1>2, Zenon DEF OthersStand, Sleeps
<1>4. Executing(i)' /\ \A l \in Sleeps : Sure(i, l)' => Sure(i, l)
  BY Zenon DEF Executing, Sure
<1>5. Due(i)' /\ pos'[i] \in Sleeps => Elapsed(pos'[i])
  BY Zenon DEF Due, SleepPre, SleepAt
<1>6. pc'[i] \in {"arm", "resolve"} => pos'[i] \notin Sleeps
  BY Zenon DEF SleepPre, SleepAt
<1> QED
  BY <1>3, <1>4, <1>5, <1>6, SleepWalks

LEMMA SleepReading ==
  ASSUME SleepPre, NEW i \in Invocations, LoadTimer(i) \/ \E l \in Waits : PrefetchTimer(i, l),
         NEW q \in Invocations, NEW k \in Sleeps
  PROVE  SleepAt(q, k)'
<1>1. CASE LoadTimer(i)
  <2>1. pos[i] \in Waits
    BY <1>1 DEF LoadTimer, AtTimer, SleepPre, WakeInv, PlaceInv
  <2>2. Executing(i) /\ Remember(i, pos[i], timer[pos[i]]) /\ UNCHANGED <<timer, pc, pos, next>>
    BY <1>1 DEF LoadTimer, AtTimer, Executing, durable
  <2> QED
    BY <2>1, <2>2, SleepIsRead
<1>2. CASE \E l \in Waits : PrefetchTimer(i, l)
  <2>1. PICK l \in Waits : PrefetchTimer(i, l)
    BY <1>2, Zenon
  <2>2. Executing(i) /\ Remember(i, l, timer[l]) /\ UNCHANGED <<timer, pc, pos, next>>
    BY <2>1, Zenon DEF PrefetchTimer, Executing, Remember, durable
  <2> QED
    BY <2>2, SleepIsRead
<1> QED
  BY <1>1, <1>2

(* It goes on to the next wait, past a sleep that has elapsed. *)
LEMMA SleepPassed ==
  ASSUME SleepPre, NEW i \in Invocations, UNCHANGED <<timer, cache, next>>, Advance(i),
         pc' = [pc EXCEPT ![i] = "body"], pc[i] \in {"body", "resolve", "consume"},
         pos[i] \in Sleeps => Elapsed(pos[i]),
         NEW q \in Invocations, NEW k \in Sleeps
  PROVE  SleepAt(q, k)'
<1>1. pc'[i] = "body" /\ pos'[i] = pos[i] + 1
  BY SleepTypes, Zenon DEF Advance
<1>2. OthersStand(i)
  BY SleepTypes, Zenon DEF OthersStand, Advance
<1>3. Executing(i)' /\ ~Due(i)' /\ \A m \in Sleeps : Sure(i, m)
  BY <1>1, Zenon DEF Executing, Due, Sure
<1> QED
  BY <1>1, <1>2, <1>3, SleepWalks

(* It stands on a boundary and begins to acknowledge. *)
LEMMA SleepAcks ==
  ASSUME SleepPre, NEW i \in Invocations, UNCHANGED <<timer, cache, pos>>,
         NEW e, NEW m, BeginAck(i, e, m), pc[i] \in {"body", "arm", "finish"},
         m = "consume" /\ pos[i] \in Sleeps => Elapsed(pos[i]),
         NEW q \in Invocations, NEW k \in Sleeps
  PROVE  SleepAt(q, k)'
<1>1. pc'[i] = "ack" /\ next'[i] = m
  BY SleepTypes, Zenon DEF BeginAck, Goto
<1>2. OthersStand(i)
  BY SleepTypes, Zenon DEF OthersStand, BeginAck, Goto
<1>3. Executing(i)' /\ (Due(i)' => m = "consume") /\ \A l \in Sleeps : Sure(i, l)
  BY <1>1, Zenon DEF Executing, Due, Sure
<1> QED
  BY <1>1, <1>2, <1>3, SleepWalks

LEMMA SleepKnownKeepsSleep ==
  ASSUME SleepPre, NEW i \in Invocations, SleepKnown(i), NEW q \in Invocations, NEW k \in Sleeps
  PROVE  SleepAt(q, k)'
<1>1. pc[i] = "body" /\ pos[i] \in Sleeps /\ pos[i] \in Waits /\ cache[i][pos[i]] \in TimerRecord
      /\ UNCHANGED <<timer, cache>>
  BY SleepTypes, Zenon DEF SleepKnown, AtSleep, AtTimer, Sleeps, Known, durable
<1>2. SleepAt(i, pos[i])
  BY <1>1, Zenon DEF SleepPre
<1>3. CASE cache[i][pos[i]].status = "FIRED"
  <2>1. Elapsed(pos[i])
    BY <1>1, <1>2, <1>3 DEF SleepAt, Elapsed
  <2>2. Advance(i) /\ UNCHANGED <<next, pc>> /\ pc' = [pc EXCEPT ![i] = "body"]
    BY <1>1, <1>3, SleepTypes DEF SleepKnown, NoAck
  <2> QED
    BY <1>1, <2>1, <2>2, SleepPassed
<1>4. CASE cache[i][pos[i]].status # "FIRED"
  <2>1. PICK m \in {"exit", "consume"} :
          /\ BeginAck(i, pos[i], m) /\ (m = "consume" => ~(cache[i][pos[i]].wait > 0))
          /\ UNCHANGED pos
    BY <1>4, Zenon DEF SleepKnown
  <2>2. m = "consume" => cache[i][pos[i]].wait = 0
    BY <1>1, <2>1 DEF TimerRecord
  <2>3. m = "consume" => Elapsed(pos[i])
    BY <1>1, <1>2, <2>2 DEF SleepAt, Elapsed
  <2> QED
    BY <1>1, <2>1, <2>3, SleepAcks
<1> QED
  BY <1>3, <1>4

LEMMA SleepNewKeepsSleep ==
  ASSUME SleepPre, NEW i \in Invocations, SleepNew(i), NEW q \in Invocations, NEW k \in Sleeps
  PROVE  SleepAt(q, k)'
<1>0. PICK w \in Waits : w = pos[i]
  BY Zenon DEF SleepNew, AtSleep, AtTimer
<1> DEFINE r == [status |-> "SCHEDULED", wait |-> Delay[w]]
<1>1. pc[i] = "body" /\ w \in Sleeps /\ w \in Waits /\ cache[i][w] = NoRecord /\ UNCHANGED pos
  BY <1>0, Zenon DEF SleepNew, AtSleep, AtTimer, Sleeps
<1>2. r \in TimerRecord /\ r.status = "SCHEDULED" /\ r.wait = Delay[w] /\ Delay[w] \in Nat
  BY <1>1, DelaysAreNat DEF TimerRecord, Waits
<1>3. PICK o \in Outcomes :
        /\ timer' = IF o = "failed" THEN timer ELSE [timer EXCEPT ![w] = r]
        /\ Remember(i, w, IF o = "ok" THEN r ELSE NoRecord)
        /\ IF o = "ok" THEN BeginAck(i, w, IF Delay[w] > 0 THEN "exit" ELSE "consume")
                       ELSE Goto(i, "verify") /\ NoAck
  BY <1>0, Zenon DEF SleepNew
<1>4. SleepAt(i, w) /\ Sure(i, w)
  BY <1>1, Zenon DEF SleepPre, Sure
<1> HIDE DEF r
<1>5. /\ \A l \in Waits : cache'[i][l] = IF l = w THEN (IF o = "ok" THEN r ELSE NoRecord) ELSE cache[i][l]
      /\ \A j \in Invocations \ {i} : cache'[j] = cache[j]
  <2> DEFINE v == IF o = "ok" THEN r ELSE NoRecord
  <2>1. Remember(i, w, v)
    BY <1>3
  <2>2. cache \in [Invocations -> [Waits -> Known]]
    BY SleepTypes, Zenon
  <2> HIDE DEF v
  <2>3. /\ cache'[i][w] = v
        /\ \A l \in Waits \ {w} : cache'[i][l] = cache[i][l]
        /\ \A j \in Invocations \ {i} : cache'[j] = cache[j]
    BY <2>1, <2>2, RemembersOne
  <2> QED
    BY <2>3, Zenon DEF v
<1>6. /\ OthersStand(i)
      /\ pc'[i] = IF o = "ok" THEN "ack" ELSE "verify"
      /\ o = "ok" => next'[i] = IF Delay[w] > 0 THEN "exit" ELSE "consume"
  <2>1. CASE o = "ok"
    BY <1>1, <1>3, <1>5, <2>1, SleepTypes DEF OthersStand, BeginAck, Goto
  <2>2. CASE o # "ok"
    BY <1>1, <1>3, <1>5, <2>2, SleepTypes DEF OthersStand, NoAck, Goto
  <2> QED
    BY <2>1, <2>2
<1>7. Executing(i) /\ Executing(i)' /\ pc'[i] \in {"ack", "verify"} /\ \A l \in Sleeps : Sure(i, l)
  BY <1>1, <1>6 DEF Executing, Sure
<1>8. \A l \in Waits \ {w} : cache'[i][l] = cache[i][l]
  BY <1>5
<1>9. CASE o = "failed"
  <2>1. UNCHANGED timer /\ ~Due(i)' /\ \A l \in Sleeps : cache'[i][l] = cache[i][l]
    BY <1>1, <1>3, <1>5, <1>6, <1>9 DEF Sleeps, Due
  <2>2. pc'[i] \notin {"arm", "resolve"}
    BY <1>7, Zenon
  <2> QED
    BY <1>1, <1>6, <1>7, <2>1, <2>2, SleepWalks
<1>10. CASE o # "failed"
  <2>1. timer' = [timer EXCEPT ![w] = r]
    BY <1>3, <1>10
  <2>2. cache'[i][w] \in TimerRecord => cache'[i][w].wait = r.wait
    BY <1>1, <1>5, Records
  <2>3. cache'[i][w].status # "FIRED"
    BY <1>1, <1>2, <1>5, Records
  <2>4. cache'[i][w] = NoRecord => ~Sure(i, w)'
    <3>1. CASE o = "ok"
      <4>1. cache'[i][w] = r /\ r # NoRecord
        BY <1>1, <1>2, <1>5, <3>1, Records
      <4> QED
        BY <4>1, Zenon
    <3>2. CASE o # "ok"
      <4>1. pc'[i] = "verify" /\ w = pos'[i]
        BY <1>1, <1>6, <1>0, <3>2
      <4> QED
        BY <4>1, Zenon DEF Sure
    <3> QED
      BY <3>1, <3>2
  <2>5. ~(w < pos[i])
    BY <1>1, <1>0, Numbers
  <2>6. Due(i)' => r.wait = 0
    BY <1>2, <1>6 DEF Due
  <2>7. \A l \in Sleeps \ {w} : Sure(i, l) /\ (l = pos[i] /\ Due(i)' => Elapsed(l))
    BY <1>7, <1>0
  <2>8. r.status # "FIRED"
    BY <1>2, Zenon
  <2>9. w \in Waits /\ r \in TimerRecord /\ OthersStand(i) /\ UNCHANGED pos
    BY <1>1, <1>2, <1>6
  <2> QED
    BY <1>7, <1>8, <2>1, <2>2, <2>3, <2>4, <2>5, <2>6, <2>7, <2>8, <2>9, SleepWrites
<1> QED
  BY <1>9, <1>10

LEMMA VerifyKeepsSleep ==
  ASSUME SleepPre, NEW i \in Invocations, Verify(i), NEW q \in Invocations, NEW k \in Sleeps
  PROVE  SleepAt(q, k)'
<1>1. pc[i] = "verify" /\ pos[i] \in Waits /\ UNCHANGED <<timer, next>>
  BY Zenon DEF Verify, SleepPre, WakeInv, PlaceInv, durable
<1>2. timer[pos[i]] \in Known /\ timer[pos[i]] \in Stored
  BY <1>1, SleepTypes DEF Stored, Known
<1>3. pos[i] \in Sleeps <=> Kind[pos[i]] = "sleep"
  BY <1>1, Zenon DEF Sleeps
<1>4. pos[i] \in Sleeps /\ timer[pos[i]].status = "FIRED" => Elapsed(pos[i])
  BY <1>2, Records DEF SleepPre, SleepAt, Elapsed, Armed
<1>5. CASE Remember(i, pos[i], timer[pos[i]])
           /\ IF timer[pos[i]].status = "FIRED"
                THEN IF Kind[pos[i]] = "sleep" THEN Advance(i) /\ Goto(i, "body")
                                               ELSE UNCHANGED pos /\ Goto(i, "finish")
                ELSE UNCHANGED pos /\ Goto(i, "exit")
  <2>0. Remember(i, pos[i], timer[pos[i]]) /\ cache \in [Invocations -> [Waits -> Known]]
    BY <1>5, SleepTypes
  <2>1. /\ cache'[i][pos[i]] = timer[pos[i]]
        /\ \A l \in Waits \ {pos[i]} : cache'[i][l] = cache[i][l]
        /\ \A j \in Invocations \ {i} : cache'[j] = cache[j]
    BY <1>1, <2>0, RemembersOne
  <2>2. \A l \in Sleeps : IF l = pos[i] THEN cache'[i][l] = timer[l] ELSE cache'[i][l] = cache[i][l]
    BY <2>1, Zenon DEF Sleeps
  <2>3. \A l \in Sleeps : cache'[i][l] # timer[l] => Sure(i, l)
    BY <1>1, <2>2 DEF Sure
  <2>5. \/ pos'[i] = pos[i] /\ pc'[i] \in {"finish", "exit"}
        \/ pos'[i] = pos[i] + 1 /\ pc'[i] = "body" /\ (pos[i] \in Sleeps => Elapsed(pos[i]))
    BY <1>3, <1>4, <1>5, SleepTypes DEF Advance, Goto
  <2>6. OthersStand(i)
    BY <1>1, <1>5, <2>1, SleepTypes DEF OthersStand, Advance, Goto
  <2>7. Executing(i)' /\ ~Due(i)' /\ pc'[i] \notin {"arm", "resolve"}
    BY <2>5, Zenon DEF Executing, Due
  <2> QED
    BY <1>1, <2>2, <2>3, <2>5, <2>6, <2>7, SleepWalks
<1>6. CASE UNCHANGED <<cache, pos>> /\ Goto(i, "exit")
  BY <1>1, <1>6, SleepGoto DEF Goto
<1> QED
  BY <1>5, <1>6 DEF Verify

LEMMA PassingKeepsSleep ==
  ASSUME SleepPre, NEW i \in Invocations, Consume(i) \/ ResolvePoll(i),
         NEW q \in Invocations, NEW k \in Sleeps
  PROVE  SleepAt(q, k)'
<1>1. /\ UNCHANGED <<timer, cache, next>> /\ Advance(i) /\ pc' = [pc EXCEPT ![i] = "body"]
      /\ pc[i] \in {"resolve", "consume"}
  BY Zenon DEF Consume, ResolvePoll, Goto, durable
<1>2. pos[i] \in Sleeps => Elapsed(pos[i])
  BY <1>1, Zenon DEF SleepPre, SleepAt, Due
<1> QED
  BY <1>1, <1>2, SleepPassed

LEMMA WaitEventKeepsSleep ==
  ASSUME SleepPre, NEW i \in Invocations, WaitEvent(i), NEW q \in Invocations, NEW k \in Sleeps
  PROVE  SleepAt(q, k)'
<1>1. pc[i] = "body" /\ pos[i] \notin Sleeps /\ UNCHANGED <<timer, cache, next>>
  BY Zenon DEF WaitEvent, Sleeps, durable
<1>2. \/ UNCHANGED pos /\ \E l \in {"arm", "resolve", "exit"} : pc' = [pc EXCEPT ![i] = l]
      \/ Advance(i) /\ UNCHANGED pc
  BY Zenon DEF WaitEvent, Goto
<1>3. CASE Advance(i) /\ UNCHANGED pc
  <2>1. pc' = [pc EXCEPT ![i] = "body"]
    BY <1>1, <1>3, SleepTypes
  <2> QED
    BY <1>1, <1>3, <2>1, SleepPassed
<1> QED
  BY <1>1, <1>2, <1>3, SleepGoto

LEMMA FinishKeepsSleep ==
  ASSUME SleepPre, NEW i \in Invocations, Finish(i), NEW q \in Invocations, NEW k \in Sleeps
  PROVE  SleepAt(q, k)'
<1>1. pc[i] = "finish" /\ UNCHANGED <<timer, cache, pos>>
  BY Zenon DEF Finish
<1>2. \/ pc' = [pc EXCEPT ![i] = "release"] /\ UNCHANGED next
      \/ BeginAck(i, 0, "release")
  BY Zenon DEF Finish, NoAck, Goto
<1>3. CASE BeginAck(i, 0, "release")
  <2>1. "release" # "consume"
    OBVIOUS
  <2> QED
    BY <1>1, <1>3, <2>1, SleepAcks
<1> QED
  BY <1>1, <1>2, <1>3, SleepGoto

LEMMA EndAckKeepsSleep ==
  ASSUME SleepPre, NEW i \in Invocations, EndAck(i), NEW q \in Invocations, NEW k \in Sleeps
  PROVE  SleepAt(q, k)'
<1>1. /\ pc[i] = "ack" /\ pc' = [pc EXCEPT ![i] = next[i]] /\ next' = [next EXCEPT ![i] = "idle"]
      /\ UNCHANGED <<timer, cache, pos>>
  BY Zenon DEF EndAck, Goto, durable
<1>2. pc'[i] = next[i] /\ next[i] \in {"exit", "consume", "release"} /\ OthersStand(i)
  BY <1>1, SleepTypes DEF SleepPre, HolderInv, OthersStand, Returns
<1>3. Executing(i)' /\ (Due(i)' => Due(i)) /\ pc'[i] \notin {"arm", "resolve"}
      /\ \A l \in Sleeps : Sure(i, l)
  BY <1>1, <1>2 DEF Executing, Due, Sure
<1>4. Due(i)' /\ pos'[i] \in Sleeps => Elapsed(pos'[i])
  BY <1>1, <1>3 DEF SleepPre, SleepAt
<1> QED
  BY <1>1, <1>2, <1>3, <1>4, SleepWalks

LEMMA ArmPollKeepsSleep ==
  ASSUME SleepPre, NEW i \in Invocations, ArmPoll(i), NEW q \in Invocations, NEW k \in Sleeps
  PROVE  SleepAt(q, k)'
<1> DEFINE w == pos[i]
           r == [status |-> "SCHEDULED", wait |-> Delay[w]]
<1>1. pc[i] = "arm" /\ w \notin Sleeps /\ w \in Waits /\ UNCHANGED pos
  BY Zenon DEF ArmPoll, SleepPre, WakeInv, PlaceInv, SleepAt
<1>2. r \in TimerRecord
  BY <1>1, DelaysAreNat DEF TimerRecord, Waits
<1>3. \/ BeginAck(i, w, "exit") /\ UNCHANGED <<timer, cache>>
      \/ \E o \in Outcomes :
           /\ timer' = IF o = "failed" THEN timer ELSE [timer EXCEPT ![w] = r]
           /\ Remember(i, w, IF o = "ok" THEN r ELSE cache[i][w])
           /\ IF o = "ok" THEN BeginAck(i, w, "exit") ELSE Goto(i, "verify") /\ NoAck
  BY Zenon DEF ArmPoll
<1>4. CASE BeginAck(i, w, "exit") /\ UNCHANGED <<timer, cache>>
  <2>1. "exit" # "consume"
    OBVIOUS
  <2> QED
    BY <1>1, <1>4, <2>1, SleepAcks
<1>5. ASSUME NEW o \in Outcomes,
             timer' = IF o = "failed" THEN timer ELSE [timer EXCEPT ![w] = r],
             Remember(i, w, IF o = "ok" THEN r ELSE cache[i][w]),
             IF o = "ok" THEN BeginAck(i, w, "exit") ELSE Goto(i, "verify") /\ NoAck
      PROVE  SleepAt(q, k)'
  <2> HIDE DEF w, r
  <2>1. (IF o = "ok" THEN r ELSE cache[i][w]) \in Known
    BY <1>1, <1>2, SleepTypes DEF Known
  <2>2. /\ \A l \in Waits \ {w} : cache'[i][l] = cache[i][l]
        /\ \A j \in Invocations \ {i} : cache'[j] = cache[j]
    <3> DEFINE v == IF o = "ok" THEN r ELSE cache[i][w]
    <3>1. Remember(i, w, v)
      BY <1>5, Zenon
    <3>2. cache \in [Invocations -> [Waits -> Known]]
      BY SleepTypes, Zenon
    <3> HIDE DEF v
    <3> QED
      BY <1>1, <3>1, <3>2, RemembersOne
  <2>3. /\ OthersStand(i)
        /\ pc'[i] = IF o = "ok" THEN "ack" ELSE "verify"
        /\ o = "ok" => next'[i] = "exit"
    <3>1. CASE o = "ok"
      BY <1>1, <1>5, <2>2, <3>1, SleepTypes DEF OthersStand, BeginAck, Goto
    <3>2. CASE o # "ok"
      BY <1>1, <1>5, <2>2, <3>2, SleepTypes DEF OthersStand, NoAck, Goto
    <3> QED
      BY <3>1, <3>2
  <2>4. Executing(i) /\ Executing(i)' /\ pc'[i] \in {"ack", "verify"} /\ ~Due(i)'
        /\ pc'[i] \notin {"arm", "resolve"} /\ \A l \in Sleeps : Sure(i, l)
    BY <1>1, <2>3 DEF Executing, Sure, Due
  <2>5. CASE o = "failed"
    <3>1. UNCHANGED timer /\ \A l \in Sleeps : cache'[i][l] = cache[i][l]
      BY <1>1, <1>5, <2>2, <2>5 DEF Sleeps
    <3> QED
      BY <1>1, <2>3, <2>4, <3>1, SleepWalks
  <2>6. CASE o # "failed"
    <3>1. timer' = [timer EXCEPT ![w] = r]
      BY <1>5, <2>6
    <3> QED
      BY <1>1, <1>2, <2>2, <2>3, <2>4, <3>1, SleepWrites
  <2> QED
    BY <2>5, <2>6
<1> QED
  BY <1>3, <1>4, <1>5

(* A FIRED mark keeps the deadline it was read with. *)
LEMMA FiredKeepsDeadline ==
  \A r \in TimerRecord : Fired(r) \in TimerRecord /\ Fired(r).wait = r.wait
  BY Zenon DEF TimerRecord, Fired

LEMMA AcknowledgeKeepsSleep ==
  ASSUME SleepPre, NEW i \in Invocations, Acknowledge(i), NEW q \in Invocations, NEW k \in Sleeps
  PROVE  SleepAt(q, k)'
<1>1. pc[i] = "ack" /\ UNCHANGED <<pc, pos, next>>
  BY Zenon DEF Acknowledge
<1>2. PICK w \in acking[i] :
        IF cache[i][w].status # "SCHEDULED"
          THEN UNCHANGED <<timer, cache>>
          ELSE \E o \in Outcomes :
                 /\ timer' = IF o = "failed" THEN timer ELSE [timer EXCEPT ![w] = Fired(cache[i][w])]
                 /\ IF o = "ok" THEN Remember(i, w, Fired(cache[i][w])) ELSE UNCHANGED cache
  BY Zenon DEF Acknowledge, Fired
<1>3. w \in Waits /\ w < pos[i]
  BY Zenon DEF SleepPre, WakeInv, TypedMemory, PlaceInv
<1>4. CASE UNCHANGED <<timer, cache>>
  BY <1>1, <1>4, SleepStutters
<1>5. ASSUME cache[i][w].status = "SCHEDULED", NEW o \in Outcomes, o # "failed",
             timer' = [timer EXCEPT ![w] = Fired(cache[i][w])],
             IF o = "ok" THEN Remember(i, w, Fired(cache[i][w])) ELSE UNCHANGED cache
      PROVE  SleepAt(q, k)'
  <2> DEFINE r == Fired(cache[i][w])
  <2>1. cache[i][w] \in Known
    BY <1>3, SleepTypes
  <2>2. cache[i][w] \in TimerRecord
    BY <1>5, <2>1, Records DEF Known
  <2>3. r \in TimerRecord /\ r.wait = cache[i][w].wait
    BY <2>2, FiredKeepsDeadline
  <2> HIDE DEF r
  <2>4. w \in Sleeps => r.wait = 0
    <3>1. w \in Sleeps => SleepAt(i, w)
      BY Zenon DEF SleepPre
    <3>2. w \in Sleeps => timer[w].wait = 0 /\ cache[i][w].wait = timer[w].wait
      BY <1>3, <2>2, <3>1 DEF SleepAt, Elapsed
    <3> QED
      BY <2>3, <3>2
  <2>5. /\ \A l \in Waits \ {w} : cache'[i][l] = cache[i][l]
        /\ \A j \in Invocations \ {i} : cache'[j] = cache[j]
        /\ cache'[i][w] = r \/ cache'[i][w] = cache[i][w]
    <3>1. CASE o = "ok"
      <4>1. Remember(i, w, r)
        BY <1>5, <3>1 DEF r
      <4>2. cache \in [Invocations -> [Waits -> Known]]
        BY SleepTypes, Zenon
      <4> QED
        BY <1>3, <4>1, <4>2, RemembersOne
    <3>2. CASE o # "ok"
      BY <1>5, <3>2
    <3> QED
      BY <3>1, <3>2
  <2>6. OthersStand(i) /\ Executing(i) /\ Executing(i)' /\ pc'[i] \in {"ack", "verify"}
        /\ \A l \in Sleeps : Sure(i, l)
    BY <1>1, <2>5 DEF OthersStand, Executing, Sure
  <2>7. \A l \in Sleeps \ {w} : l = pos[i] /\ Due(i)' => Elapsed(l)
    BY <1>1, Zenon DEF SleepPre, SleepAt, Due
  <2>8. cache'[i][w] \in TimerRecord /\ cache'[i][w].wait = r.wait /\ cache'[i][w] # NoRecord
    BY <2>2, <2>3, <2>5, Records
  <2>9. timer' = [timer EXCEPT ![w] = r] /\ UNCHANGED pos
    BY <1>1, <1>5 DEF r
  <2>10. w \in Sleeps =>
           /\ r.status = "FIRED" => r.wait = 0
           /\ cache'[i][w] \in TimerRecord => cache'[i][w].wait = r.wait
           /\ cache'[i][w].status = "FIRED" => cache'[i][w].wait = 0
           /\ cache'[i][w] = NoRecord => ~Sure(i, w)'
           /\ w < pos[i] => r.wait = 0
           /\ w = pos[i] /\ Due(i)' => r.wait = 0
    BY <2>4, <2>8
  <2> QED
    BY <1>3, <2>3, <2>5, <2>6, <2>7, <2>9, <2>10, SleepWrites
<1>6. ASSUME NEW o \in Outcomes, o = "failed",
             IF o = "ok" THEN Remember(i, w, Fired(cache[i][w])) ELSE UNCHANGED cache,
             timer' = timer
      PROVE  UNCHANGED <<timer, cache>>
  BY <1>6, Zenon
<1> QED
  BY <1>2, <1>4, <1>5, <1>6

LEMMA TickKeepsSleep ==
  ASSUME SleepPre, Tick, NEW q \in Invocations, NEW k \in Sleeps
  PROVE  SleepAt(q, k)'
<1>1. SleepAt(q, k) /\ k \in Waits
  BY Zenon DEF SleepPre, Sleeps
<1>2. timer'[k] = Closer(timer[k]) /\ cache'[q][k] = Closer(cache[q][k])
      /\ UNCHANGED <<pc, pos, next>>
  BY <1>1, Zenon DEF Tick
<1>3. timer[k] \in Stored /\ cache[q][k] \in Known
  BY <1>1, SleepTypes
<1>4. \A r, s \in TimerRecord : /\ r.wait = 0 => Closer(r).wait = 0
                                /\ r.wait = s.wait => Closer(r).wait = Closer(s).wait
  BY DEF Closer, TimerRecord
<1>5. /\ Armed(k)' <=> Armed(k)
      /\ timer'[k].status = timer[k].status /\ cache'[q][k].status = cache[q][k].status
      /\ cache'[q][k] \in TimerRecord <=> cache[q][k] \in TimerRecord
      /\ cache'[q][k] = NoRecord <=> cache[q][k] = NoRecord
      /\ cache[q][k] = Unread => cache'[q][k] = Unread
      /\ timer[k] = NoRecord => timer'[k] = NoRecord
  <2>1. \A x \in Stored \cup Known :
          /\ Closer(x).status = x.status
          /\ Closer(x) \in TimerRecord <=> x \in TimerRecord
          /\ Closer(x) = NoRecord <=> x = NoRecord
          /\ x = Unread => Closer(x) = Unread
    BY ClosingIn, Records DEF Stored, Known
  <2>2. timer[k] \in Stored \cup Known /\ cache[q][k] \in Stored \cup Known
    BY <1>3, Zenon
  <2>3. /\ timer'[k].status = timer[k].status
        /\ timer'[k] = NoRecord <=> timer[k] = NoRecord
    BY <1>2, <2>1, <2>2, Zenon
  <2>4. /\ cache'[q][k].status = cache[q][k].status
        /\ cache'[q][k] \in TimerRecord <=> cache[q][k] \in TimerRecord
        /\ cache'[q][k] = NoRecord <=> cache[q][k] = NoRecord
        /\ cache[q][k] = Unread => cache'[q][k] = Unread
    <3>1. PICK c : c = cache[q][k]
      OBVIOUS
    <3>2. c \in Stored \cup Known /\ cache'[q][k] = Closer(c)
      BY <1>2, <2>2, <3>1, Zenon
    <3>3. /\ Closer(c).status = c.status
          /\ Closer(c) \in TimerRecord <=> c \in TimerRecord
          /\ Closer(c) = NoRecord <=> c = NoRecord
          /\ c = Unread => Closer(c) = Unread
      BY <2>1, <3>2, Zenon
    <3> QED
      BY <3>1, <3>2, <3>3, Zenon
  <2> QED
    BY <2>3, <2>4 DEF Armed
<1>6. Elapsed(k) => Elapsed(k)'
  BY <1>2, <1>3, <1>4, <1>5 DEF Elapsed, Armed, Stored
<1>7. timer'[k].status = "FIRED" => timer'[k].wait = 0
  <2>1. timer[k].status = "FIRED" => timer[k].wait = 0 /\ timer[k] \in TimerRecord
    BY <1>1, <1>3, Records DEF SleepAt, Stored
  <2> QED
    BY <1>2, <1>4, <1>5, <2>1
<1>8. cache'[q][k].status = "FIRED" => cache'[q][k].wait = 0
  BY <1>1, <1>2, <1>3, <1>4, <1>5, Records DEF SleepAt, Known
<1>9. cache'[q][k] \in TimerRecord => Armed(k)' /\ cache'[q][k].wait = timer'[k].wait
  <2>1. cache[q][k] \in TimerRecord => timer[k] \in TimerRecord /\ cache[q][k].wait = timer[k].wait
    BY <1>1, <1>3 DEF SleepAt, Armed, Stored
  <2> QED
    BY <1>1, <1>2, <1>4, <1>5, <2>1 DEF SleepAt
<1>10. (Due(q)' <=> Due(q)) /\ (Sure(q, k)' <=> Sure(q, k)) /\ (Executing(q)' <=> Executing(q))
  BY <1>2, Zenon DEF Due, Sure, Executing
<1> QED
  BY <1>1, <1>2, <1>5, <1>6, <1>7, <1>8, <1>9, <1>10 DEF SleepAt

LEMMA ElsewhereKeepsSleep ==
  ASSUME SleepPre, NEW q \in Invocations, NEW k \in Sleeps,
         \/ \E i \in Invocations : PrefetchEvents(i) \/ Replay(i)
         \/ \E l \in Waits : Deliver(l)
         \/ OperatorRelease
         \/ UNCHANGED vars
  PROVE  SleepAt(q, k)'
<1>1. UNCHANGED <<timer, cache, pos, next, pc>>
  BY Zenon DEF PrefetchEvents, Replay, Deliver, OperatorRelease, vars, durable, locals
<1> QED
  BY <1>1, SleepStutters

LEMMA SleepInvInit == Init => SleepInv
<1> SUFFICES ASSUME Init, NEW q \in Invocations, NEW k \in Sleeps PROVE SleepAt(q, k)
  BY Zenon DEF SleepInv
<1>1. k \in Waits /\ ~(k < 1)
  BY Numbers, Zenon DEF Sleeps
<1>2. timer[k] = NoRecord /\ cache[q][k] = Unread /\ pos[q] = 1 /\ pc[q] = "idle"
  BY <1>1, Zenon DEF Init
<1> QED
  BY <1>1, <1>2, Records DEF SleepAt, Due, Executing

LEMMA SleepInvStep == WakeInv /\ ClaimInv /\ SleepInv /\ [Next]_vars => SleepInv'
<1> SUFFICES ASSUME SleepPre, [Next]_vars, NEW q \in Invocations, NEW k \in Sleeps
             PROVE  SleepAt(q, k)'
  BY Zenon DEF SleepPre, ClaimInv, SleepInv, Sleeps
<1> QED
  BY SleepBeforeClaim, SleepQuietly, SleepEnds, SleepReading, SleepKnownKeepsSleep,
     SleepNewKeepsSleep, VerifyKeepsSleep, PassingKeepsSleep, WaitEventKeepsSleep,
     FinishKeepsSleep, EndAckKeepsSleep, ArmPollKeepsSleep, AcknowledgeKeepsSleep,
     TickKeepsSleep, ElsewhereKeepsSleep
  DEF Next, InvocationStep

-----------------------------------------------------------------------------
(* The theorems *)

(* The invariant holds in every state of every behaviour. *)
LEMMA WakeInvariance == Spec => []WakeInv
  BY WakeInvInit, WakeInvStep, PTL DEF Spec

(* Stored records and invocations stay well-typed, for every body, every     *)
(* number of invocations and any number of faults.                           *)
THEOREM TypeCorrect == Spec => []TypeOK
<1>1. WakeInv => TypeOK
  BY Zenon DEF WakeInv, TypedCall, TypedMemory, TypeOK, Known, Stored, Returns
<1> QED
  BY <1>1, WakeInvariance, PTL

(* acknowledgeConsumedWakeTimers marks a timer FIRED only behind a durable   *)
(* successor.                                                                *)
THEOREM WakesAcknowledgedLate == Spec => []FiredBehindSuccessor
<1>1. WakeInv => FiredBehindSuccessor
  BY Zenon DEF WakeInv
<1> QED
  BY <1>1, WakeInvariance, PTL

(* A run that has armed a timer and not ended always has a SCHEDULED timer:  *)
(* the last armed one cannot be FIRED, since nothing durable is behind it.   *)
THEOREM NoWakeLost == Spec => []WakeKept
<1>1. WakeInv => WakeKept
  <2> SUFFICES ASSUME WakeInv, ~done, NEW k \in Waits, Armed(k)
               PROVE  \E l \in Waits : Scheduled(l)
    BY Zenon DEF WakeKept
  <2>1. PICK h \in 0..N : (h # 0 => Armed(h)) /\ \A l \in Waits : l > h => ~Armed(l)
    BY Zenon DEF WakeInv, LastArmed
  <2>2. h \in Waits /\ Armed(h)
    BY <2>1, NIsNat DEF Waits
  <2>3. timer[h].status # "FIRED"
    BY <2>1, <2>2, Zenon DEF WakeInv, FiredBehindSuccessor
  <2>4. timer[h] \in TimerRecord
    BY <2>2, Zenon DEF WakeInv, TypedMemory, Stored, Armed
  <2>5. Scheduled(h)
    BY <2>3, <2>4, Records, Zenon DEF Scheduled
  <2> QED
    BY <2>2, <2>5, Zenon
<1> QED
  BY <1>1, WakeInvariance, PTL

LEMMA ClaimInvariance == Spec => [](TypeOK /\ ClaimInv)
  BY TypeCorrect, ClaimInvInit, ClaimInvStep, PTL DEF Spec

(* The execution claim makes a run single-flight: TryCreateClaim, the        *)
(* deferred DeleteClaim, crashes and operator clean-up never let two         *)
(* invocations execute it at once.                                           *)
THEOREM ClaimIsExclusive == Spec => []SingleFlight
<1>1. ClaimInv => SingleFlight
  BY Zenon DEF ClaimInv, HolderInv, SingleFlight
<1> QED
  BY <1>1, ClaimInvariance, PTL

(* With claims, no step of any invocation replaces a terminal workflow       *)
(* record.                                                                   *)
THEOREM TerminalRecordIsFinal == UseClaims => (Spec => TerminalIsFinal)
<1> SUFFICES ASSUME UseClaims PROVE Spec => TerminalIsFinal
  OBVIOUS
<1>1. ASSUME TypeOK, ClaimInv, [Next]_vars, workflow = "TERMINAL"
      PROVE  workflow' = "TERMINAL"
  <2>1. ASSUME NEW i \in Invocations, EnterBody(i) PROVE workflow' = "TERMINAL"
    BY <1>1, <2>1, Zenon DEF EnterBody, ClaimInv, HolderInv, Executing
  <2>2. ASSUME NEW i \in Invocations, Finish(i) PROVE workflow' = "TERMINAL"
    BY <1>1, <2>2, Zenon DEF Finish
  <2>3. ASSUME NEW i \in Invocations, Exit(i) PROVE workflow' = "TERMINAL"
    BY <1>1, <2>3, Zenon DEF Exit, ClaimInv, HolderInv, Executing
  <2>4. ASSUME NEW i \in Invocations,
               \/ TryCreateClaim(i) \/ LostClaim(i) \/ ClaimBusy(i) \/ Reread(i)
               \/ \E k \in Waits : PrefetchTimer(i, k)
               \/ PrefetchEvents(i) \/ LoadTimer(i) \/ SleepKnown(i) \/ SleepNew(i) \/ Verify(i)
        PROVE  UNCHANGED workflow
    BY <2>4, Zenon DEF TryCreateClaim, LostClaim, ClaimBusy, Reread, PrefetchTimer,
       PrefetchEvents, LoadTimer, SleepKnown, SleepNew, Verify, durable
  <2>5. ASSUME NEW i \in Invocations,
               \/ Consume(i) \/ WaitEvent(i) \/ ResolvePoll(i) \/ ArmPoll(i) \/ Acknowledge(i) \/ EndAck(i)
               \/ BodyReturns(i) \/ Release(i)
        PROVE  UNCHANGED workflow
    BY <2>5, Zenon DEF Consume, WaitEvent, ResolvePoll, ArmPoll, Acknowledge, EndAck,
       BodyReturns, Release, durable
  <2>6. ASSUME NEW i \in Invocations,
               \/ Replay(i) \/ Start(i) \/ GiveUp(i) \/ WaitFails(i) \/ Crash(i)
        PROVE  UNCHANGED workflow
    BY <2>6, Zenon DEF Replay, Start, GiveUp, WaitFails, Crash, vars, durable
  <2>7. (\E k \in Waits : Deliver(k)) \/ OperatorRelease \/ Tick \/ UNCHANGED vars => UNCHANGED workflow
    BY Zenon DEF Deliver, OperatorRelease, Tick, vars, durable
  <2> QED
    BY <1>1, <2>1, <2>2, <2>3, <2>4, <2>5, <2>6, <2>7 DEF Next, InvocationStep
<1>2. TypeOK /\ ClaimInv /\ [Next]_vars => [workflow = "TERMINAL" => workflow' = "TERMINAL"]_vars
  BY <1>1, Zenon
<1> QED
  BY <1>2, ClaimInvariance, PTL DEF Spec, TerminalIsFinal

(* Replays, ambiguous writes, late acknowledgements and crashes never        *)
(* shorten a sleep: with claims, every sleep the body is past has a stored   *)
(* timer whose deadline has come.                                            *)
THEOREM SleepsAreSlept == Spec => []SleepElapsed
<1>1. SleepInv => SleepElapsed
  BY Zenon DEF SleepInv, SleepAt, SleepElapsed, Sleeps, Elapsed
<1> QED
  BY <1>1, WakeInvariance, ClaimInvariance, SleepInvInit, SleepInvStep, PTL DEF Spec
=============================================================================
