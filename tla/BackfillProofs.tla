--------------------------- MODULE BackfillProofs ---------------------------
(***************************************************************************)
(* Proofs, for any runs, slots, concurrency, late and lost answers, that a *)
(* backfill keeps to its bounds and reports what happened.  BackfillInv is *)
(* the inductive invariant.                                                *)
(***************************************************************************)
EXTENDS Backfill, FiniteSetTheorems, TLAPS

-----------------------------------------------------------------------------
(* The backfill.  The bound on bodies rests on slots and holders naming     *)
(* each other; the bound on invocations on counting the tokens in sem; the  *)
(* report on what halt, an outcome and an entry say of earlier runs.        *)

(* The run dispatched i-th, the runs in flight, and the token that the loop  *)
(* has taken and not yet handed to a goroutine.                              *)
RunAt(i) == backfill.runIDs[i]
InFlight == {r \in Runs : at[r] # "idle"}
Spare == IF loop \in {"check", "spawn"} THEN 1 ELSE 0

(* A slot names its holder, and a holder knows its slot. *)
SlotInv ==
  /\ \A i \in Executing : slotOf[i] \in Slots /\ slot[slotOf[i]] = i
  /\ \A k \in Slots : slot[k] \in Invocations => slot[k] \in Executing /\ slotOf[slot[k]] = k

(* Every token is in flight or about to be; runs not reached are idle. *)
TokenInv ==
  /\ taken = Cardinality(InFlight) + Spare
  /\ taken <= backfill.concurrency
  /\ next \in 1..(N + 1)
  /\ loop \in {"check", "spawn"} => next <= N
  /\ loop = "done" => next = N + 1 /\ InFlight = {}
  /\ \A j \in 1..N : j >= next => at[RunAt(j)] = "idle" /\ entry[RunAt(j)] = "none"

(* halt closes behind the second check only if another run is in flight. *)
HaltInv ==
  /\ late \in {0, 1}
  /\ late = 1 => halted /\ loop # "spawn" /\ backfill.concurrency > 1
  /\ halted /\ loop = "spawn" => backfill.concurrency > 1

(* An invocation has an outcome once it is on its way out, holds no terminal *)
(* record before, and has stored what it calls a success.                    *)
OutcomeOf(i) ==
  /\ outcome[i] = "none" <=> at[i] \notin {"release", "unlock", "returned"}
  /\ at[i] \in {"lock", "acquire", "begin", "body"} => record[i] \in {"none", "IN_PROGRESS"}
  /\ outcome[i] = "succeeded" => record[i] = "COMPLETED"

OutcomeInv == \A i \in Invocations : OutcomeOf(i)

(* A run that was reached, and no other, is in flight or has its entry. *)
EntryInv ==
  /\ \A r \in InFlight : \E j \in 1..N : j < next /\ RunAt(j) = r
  /\ \A j \in 1..N : j < next =>
       /\ at[RunAt(j)] = "idle" <=> entry[RunAt(j)] # "none"
       /\ entry[RunAt(j)] = "succeeded" => record[RunAt(j)] = "COMPLETED"

Skipped(j) == entry[RunAt(j)] = "skipped"

Failed(j) ==
  \/ entry[RunAt(j)] = "failed"
  \/ at[RunAt(j)] = "returned" /\ outcome[RunAt(j)] = "failed"

(* halt is closed by a failed run; skipping begins behind it and goes on to  *)
(* the end.                                                                  *)
SkipInv ==
  /\ halted => \E j \in 1..N : j < next /\ Failed(j)
  /\ ~halted \/ loop = "spawn" => \A j \in 1..N : ~Skipped(j)
  /\ \A i \in 1..N : Skipped(i) =>
       /\ \E j \in 1..N : j < i /\ Failed(j)
       /\ \A j \in 1..N : i <= j /\ j < next => Skipped(j)

BackfillInv ==
  BackfillTypeOK /\ SlotInv /\ TokenInv /\ HaltInv /\ OutcomeInv /\ EntryInv /\ SkipInv

Results == {"none", "succeeded", "failed", "pending"}
Statuses == {"none", "IN_PROGRESS", "COMPLETED", "FAILED"}
Locks == {"free", "held", "leaked"}
Holders == {"free", "leaked"} \cup Invocations

(* The arithmetic of the dispatch loop: the slots before and after next, and *)
(* the tokens held by x spare and k running dispatches, one of which ends.   *)
LEMMA Passing ==
  ASSUME NEW n \in Nat, NEW m \in Nat
  PROVE  \A j \in 1..m : (j >= n + 1 => j # n /\ j >= n) /\ (j < n + 1 /\ j # n => j < n)
                        /\ (j < n => j < n + 1)
  OBVIOUS

LEMMA TokenBack ==
  ASSUME NEW k \in Nat \ {0}, NEW x \in {0, 1}, NEW b \in Nat, k + x <= b
  PROVE  (k + x) - 1 = (k - 1) + x /\ (k + x) - 1 <= b
  OBVIOUS

LEMMA CallFacts ==
  ASSUME backfill \in Backfills
  PROVE  /\ N \in Nat /\ backfill.concurrency \in Nat \ {0}
         /\ \A i \in 1..N : RunAt(i) \in Runs
         /\ \A i, j \in 1..N : RunAt(i) = RunAt(j) => i = j
         /\ backfill.others \subseteq Others
<1>1. /\ backfill.runIDs \in Seq(Runs)
      /\ \A i, j \in DOMAIN backfill.runIDs : backfill.runIDs[i] = backfill.runIDs[j] => i = j
      /\ backfill.concurrency \in Nat \ {0} /\ backfill.others \subseteq Others
  BY CallsAreSound, Zenon
<1>2. N \in Nat /\ DOMAIN backfill.runIDs = 1..N /\ \A i \in 1..N : backfill.runIDs[i] \in Runs
  BY <1>1 DEF N
<1> QED
  BY <1>1, <1>2 DEF RunAt

LEMMA RunsInFlight ==
  /\ IsFiniteSet(InFlight) /\ Cardinality(InFlight) \in Nat
  /\ Runs \subseteq Invocations /\ Others \subseteq Invocations
<1>1. InFlight \in SUBSET Invocations /\ Runs \subseteq Invocations /\ Others \subseteq Invocations
  BY Zenon DEF InFlight, Invocations
<1>2. IsFiniteSet(InFlight)
  BY <1>1, RunsAreFinite, FS_Subset, Zenon
<1> QED
  BY <1>1, <1>2, FS_CardinalityType

LEMMA Holding ==
  ASSUME NEW i \in Invocations
  PROVE  i \in Executing <=> at[i] \in {"begin", "body", "release"}
  BY Zenon DEF Executing

(* As many bodies as slots. *)
LEMMA SlotsSuffice ==
  ASSUME SlotInv
  PROVE  Cardinality(Executing) <= Limit
<1>1. IsFiniteSet(Executing) /\ Cardinality(Executing) \in Nat
  <2>1. Executing \in SUBSET Invocations
    BY Zenon DEF Executing
  <2>2. IsFiniteSet(Executing)
    BY <2>1, RunsAreFinite, FS_Subset
  <2> QED
    BY <2>2, FS_CardinalityType, Zenon
<1>2. IsFiniteSet(Slots) /\ Cardinality(Slots) = Limit
  <2>1. Limit - 1 \in Int /\ 0 \in Int
    BY LimitIsNat
  <2>2. IsFiniteSet(0..(Limit - 1))
        /\ Cardinality(0..(Limit - 1)) = IF 0 > Limit - 1 THEN 0 ELSE Limit - 1 - 0 + 1
    BY <2>1, FS_Interval, Zenon
  <2> QED
    BY <2>2, LimitIsNat DEF Slots
<1>3. ASSUME Limit < Cardinality(Executing) PROVE FALSE
  <2> DEFINE f == [i \in Executing |-> slotOf[i]]
  <2>1. f \in [Executing -> Slots]
    BY Zenon DEF SlotInv
  <2>2. PICK x, y \in Executing : x # y /\ f[x] = f[y]
    <3> HIDE DEF f
    <3> QED
      BY <1>1, <1>2, <1>3, <2>1, FS_PigeonHole
  <2>3. slotOf[x] = slotOf[y]
    BY <2>2, Zenon
  <2>4. slot[slotOf[x]] = x /\ slot[slotOf[y]] = y
    BY Zenon DEF SlotInv
  <2> QED
    BY <2>2, <2>3, <2>4
<1> QED
  BY <1>1, <1>3, LimitIsNat

LEMMA BackfillStarts == BackfillInit => BackfillInv
<1> SUFFICES ASSUME BackfillInit PROVE BackfillInv
  OBVIOUS
<1>0. /\ N \in Nat /\ backfill.concurrency \in Nat \ {0}
      /\ \A i \in 1..N : RunAt(i) \in Runs /\ RunAt(i) \in Invocations
  BY CallFacts, RunsInFlight DEF BackfillInit
<1>1. BackfillTypeOK
  <2>1. slotOf \in [Invocations -> 0..Limit]
    BY LimitIsNat DEF BackfillInit
  <2>2. /\ at \in [Invocations -> Places]
        /\ entry \in [Runs -> {"none", "succeeded", "failed", "pending", "skipped"}]
        /\ outcome \in [Invocations -> Results]
        /\ record \in [Invocations -> Statuses] /\ lock \in [Invocations -> Locks]
        /\ slot \in [Slots -> Holders]
    BY Zenon DEF BackfillInit, Places, Results, Statuses, Locks, Holders
  <2>3. /\ backfill \in Backfills /\ loop = "idle" /\ next \in Nat /\ taken \in Nat /\ halted \in BOOLEAN
        /\ late \in Nat /\ setbacks \in Nat
    BY Zenon DEF BackfillInit
  <2> QED
    BY <2>1, <2>2, <2>3 DEF BackfillTypeOK, Results, Statuses, Locks, Holders
<1>2. InFlight = {} /\ Executing = {}
  BY RunsInFlight, Zenon DEF BackfillInit, InFlight, Executing
<1>3. SlotInv
  BY <1>2, InvocationsDistinct DEF BackfillInit, SlotInv
<1>4. TokenInv
  <2>1. Cardinality(InFlight) = 0 /\ Spare = 0
    BY <1>2, FS_EmptySet, Zenon DEF BackfillInit, Spare
  <2> QED
    BY <1>0, <2>1 DEF BackfillInit, TokenInv
<1>5. HaltInv /\ OutcomeInv
  BY DEF BackfillInit, HaltInv, OutcomeInv, OutcomeOf
<1>6. EntryInv /\ SkipInv
  BY <1>0, <1>2 DEF BackfillInit, EntryInv, SkipInv, Skipped
<1> QED
  BY <1>1, <1>3, <1>4, <1>5, <1>6 DEF BackfillInv

(* The dispatch loop and its report are not concerned by what happens within *)
(* an invocation.                                                            *)
LEMMA DispatchKept ==
  ASSUME BackfillInv, UNCHANGED <<backfill, dispatch>>,
         \A r \in Runs : at'[r] = "idle" <=> at[r] = "idle",
         \A r \in Runs : at[r] = "idle" => record'[r] = record[r],
         \A r \in Runs : at[r] = "returned" => at'[r] = "returned" /\ outcome'[r] = outcome[r]
  PROVE  TokenInv' /\ HaltInv' /\ EntryInv' /\ SkipInv'
<1>0. /\ TokenInv /\ HaltInv /\ EntryInv /\ SkipInv
      /\ N \in Nat /\ \A j \in 1..N : RunAt(j) \in Runs
  BY CallFacts, Zenon DEF BackfillInv, BackfillTypeOK
<1> USE <1>0
<1>1. UNCHANGED <<loop, next, taken, halted, late, entry, backfill>> /\ N' = N
      /\ \A j \in 1..N : RunAt(j)' = RunAt(j)
  BY Zenon DEF dispatch, N, RunAt
<1>2. InFlight' = InFlight /\ Spare' = Spare
  BY <1>1, Zenon DEF InFlight, Spare
<1>3. TokenInv'
  BY <1>1, <1>2 DEF TokenInv
<1>4. HaltInv'
  BY <1>1, Zenon DEF HaltInv
<1>5. EntryInv'
  <2> SUFFICES ASSUME NEW j \in 1..N, j < next
               PROVE  /\ at'[RunAt(j)] = "idle" <=> entry[RunAt(j)] # "none"
                      /\ entry[RunAt(j)] = "succeeded" => record'[RunAt(j)] = "COMPLETED"
    BY <1>1, <1>2 DEF EntryInv
  <2>1. /\ at[RunAt(j)] = "idle" <=> entry[RunAt(j)] # "none"
        /\ entry[RunAt(j)] = "succeeded" => record[RunAt(j)] = "COMPLETED"
    BY Zenon DEF EntryInv
  <2> QED
    BY <2>1, Zenon
<1>6. \A j \in 1..N : (Skipped(j)' <=> Skipped(j)) /\ (Failed(j) => Failed(j)')
  BY <1>1 DEF Skipped, Failed
<1>7. SkipInv'
  BY <1>1, <1>6, Zenon DEF SkipInv
<1> QED
  BY <1>3, <1>4, <1>5, <1>7

LEMMA SlotsKept ==
  ASSUME SlotInv, UNCHANGED slot,
         \A i \in Invocations : /\ i \in Executing' <=> i \in Executing
                                /\ i \in Executing => slotOf'[i] = slotOf[i]
  PROVE  SlotInv'
<1>1. ASSUME NEW i \in Executing' PROVE slotOf'[i] \in Slots /\ slot'[slotOf'[i]] = i
  <2>1. i \in Invocations /\ i \in Executing
    BY Zenon DEF Executing
  <2> QED
    BY <2>1, Zenon DEF SlotInv
<1>2. ASSUME NEW k \in Slots, slot'[k] \in Invocations
      PROVE  slot'[k] \in Executing' /\ slotOf'[slot'[k]] = k
  BY <1>2, Zenon DEF SlotInv
<1> QED
  BY <1>1, <1>2, Zenon DEF SlotInv

(* A step within an invocation. *)
LEMMA InvocationStep ==
  ASSUME BackfillInv, NEW i \in Invocations, at[i] \notin {"idle", "returned"},
         UNCHANGED <<backfill, dispatch>>, NEW l \in Places \ {"idle"}, Goes(i, l),
         outcome' \in [Invocations -> Results], record' \in [Invocations -> Statuses],
         \A j \in Invocations \ {i} : outcome'[j] = outcome[j] /\ record'[j] = record[j],
         slotOf' \in [Invocations -> 0..Limit], lock' \in [Invocations -> Locks],
         slot' \in [Slots -> Holders], setbacks' \in Nat,
         SlotInv', OutcomeOf(i)'
  PROVE  BackfillInv'
<1>0. BackfillTypeOK /\ OutcomeInv /\ at \in [Invocations -> Places]
  BY Zenon DEF BackfillInv, BackfillTypeOK
<1> USE <1>0
<1>1. at' \in [Invocations -> Places] /\ at'[i] = l /\ \A j \in Invocations \ {i} : at'[j] = at[j]
  BY Zenon DEF Goes
<1>2. BackfillTypeOK'
  BY <1>1, Zenon DEF BackfillTypeOK, Results, Statuses, Locks, Holders, dispatch
<1>3. OutcomeInv'
  <2> SUFFICES ASSUME NEW j \in Invocations PROVE OutcomeOf(j)'
    BY Zenon DEF OutcomeInv
  <2>1. CASE j # i
    <3>1. OutcomeOf(j) /\ at'[j] = at[j] /\ outcome'[j] = outcome[j] /\ record'[j] = record[j]
      BY <1>1, <2>1, Zenon DEF OutcomeInv
    <3> QED
      BY <3>1, Zenon DEF OutcomeOf
  <2> QED
    BY <2>1, Zenon
<1>4. \A r \in Runs : /\ at'[r] = "idle" <=> at[r] = "idle"
                      /\ at[r] = "idle" => record'[r] = record[r]
                      /\ at[r] = "returned" => at'[r] = "returned" /\ outcome'[r] = outcome[r]
  BY <1>1, RunsInFlight, Zenon
<1>5. TokenInv' /\ HaltInv' /\ EntryInv' /\ SkipInv'
  BY <1>4, DispatchKept, Zenon
<1> QED
  BY <1>2, <1>3, <1>5, Zenon DEF BackfillInv

LEMMA SufferType ==
  ASSUME setbacks \in Nat, NEW o, Suffer(o)
  PROVE  setbacks' \in Nat
  BY DEF Suffer

(* What an invocation starts from. *)
LEMMA InvocationTypes ==
  ASSUME BackfillInv, NEW i \in Invocations
  PROVE  /\ at \in [Invocations -> Places] /\ outcome \in [Invocations -> Results]
         /\ record \in [Invocations -> Statuses] /\ slotOf \in [Invocations -> 0..Limit]
         /\ lock \in [Invocations -> Locks] /\ slot \in [Slots -> Holders] /\ setbacks \in Nat
         /\ SlotInv /\ OutcomeOf(i)
  BY Zenon DEF BackfillInv, BackfillTypeOK, OutcomeInv, Results, Statuses, Locks, Holders

(* A step within an invocation that holds no slot and takes none. *)
LEMMA SlotlessStep ==
  ASSUME BackfillInv, NEW i \in Invocations, at[i] \in {"get", "lock", "acquire", "unlock"},
         UNCHANGED <<backfill, dispatch, record, slot>>,
         NEW l \in {"lock", "acquire", "unlock", "returned"}, Goes(i, l),
         outcome' \in [Invocations -> Results],
         \A j \in Invocations \ {i} : outcome'[j] = outcome[j] /\ slotOf'[j] = slotOf[j],
         slotOf' \in [Invocations -> 0..Limit], lock' \in [Invocations -> Locks], setbacks' \in Nat,
         outcome'[i] = "none" <=> l \notin {"unlock", "returned"},
         l \in {"lock", "acquire"} => record[i] \in {"none", "IN_PROGRESS"},
         outcome'[i] = "succeeded" => record[i] = "COMPLETED"
  PROVE  BackfillInv'
<1>0. /\ at \in [Invocations -> Places] /\ record \in [Invocations -> Statuses]
      /\ slot \in [Slots -> Holders] /\ SlotInv
  BY InvocationTypes, Zenon
<1> USE <1>0
<1>1. at'[i] = l /\ \A j \in Invocations \ {i} : at'[j] = at[j]
  BY Zenon DEF Goes
<1>2. SlotInv'
  <2>1. i \notin Executing /\ i \notin Executing'
    BY <1>1, Zenon DEF Executing
  <2>2. \A j \in Invocations \ {i} : j \in Executing' <=> j \in Executing
    BY <1>1, Zenon DEF Executing
  <2> QED
    BY <2>1, <2>2, SlotsKept
<1>3. OutcomeOf(i)'
  BY <1>1, Zenon DEF OutcomeOf
<1>4. l \in Places \ {"idle"}
  BY Zenon DEF Places
<1> QED
  BY <1>2, <1>3, <1>4, InvocationStep

LEMMA GetWorkflowKeeps ==
  ASSUME BackfillInv, NEW i \in Invocations, GetWorkflow(i)
  PROVE  BackfillInv'
<1>0. /\ outcome \in [Invocations -> Results] /\ slotOf \in [Invocations -> 0..Limit]
      /\ lock \in [Invocations -> Locks] /\ setbacks \in Nat /\ OutcomeOf(i)
  BY InvocationTypes, Zenon
<1> USE <1>0
<1>1. at[i] = "get" /\ outcome[i] = "none" /\ UNCHANGED <<backfill, dispatch, slotOf, record, lock, slot>>
  BY Zenon DEF GetWorkflow, OutcomeOf
<1>2. setbacks' \in Nat
  BY SufferType, Zenon DEF GetWorkflow
<1>3. CASE Goes(i, "lock") /\ UNCHANGED outcome /\ record[i] \in {"none", "IN_PROGRESS"}
  BY <1>1, <1>2, <1>3, SlotlessStep
<1>4. ASSUME NEW o \in Results \ {"none"}, Returns(i, o), Goes(i, "returned"),
             o = "succeeded" => record[i] = "COMPLETED"
      PROVE  BackfillInv'
  <2>1. outcome' \in [Invocations -> Results] /\ outcome'[i] = o
        /\ \A j \in Invocations \ {i} : outcome'[j] = outcome[j]
    BY <1>4, Zenon DEF Returns
  <2> QED
    BY <1>1, <1>2, <1>4, <2>1, SlotlessStep
<1>5. CASE /\ record[i] \in {"COMPLETED", "FAILED"} /\ Goes(i, "returned")
           /\ Returns(i, IF record[i] = "COMPLETED" THEN "succeeded" ELSE "failed")
  <2>1. CASE record[i] = "COMPLETED"
    <3>1. Returns(i, "succeeded")
      BY <1>5, <2>1, Zenon
    <3> QED
      BY <1>4, <1>5, <2>1, <3>1 DEF Results
  <2>2. CASE record[i] # "COMPLETED"
    <3>1. Returns(i, "failed")
      BY <1>5, <2>2, Zenon
    <3> QED
      BY <1>4, <1>5, <3>1 DEF Results
  <2> QED
    BY <2>1, <2>2, Zenon
<1>6. CASE Goes(i, "returned") /\ \E o \in isPendingError : Returns(i, o)
  BY <1>4, <1>6, Zenon DEF isPendingError, Results
<1> QED
  BY <1>3, <1>5, <1>6 DEF GetWorkflow

LEMMA LockRunKeeps ==
  ASSUME BackfillInv, NEW i \in Invocations, LockRun(i)
  PROVE  BackfillInv'
<1>0. /\ outcome \in [Invocations -> Results] /\ slotOf \in [Invocations -> 0..Limit]
      /\ lock \in [Invocations -> Locks] /\ setbacks \in Nat /\ OutcomeOf(i)
  BY InvocationTypes, Zenon
<1> USE <1>0
<1>1. at[i] = "lock" /\ outcome[i] = "none" /\ record[i] \in {"none", "IN_PROGRESS"}
      /\ UNCHANGED <<backfill, dispatch, record, slot>>
  BY Zenon DEF LockRun, OutcomeOf
<1>2. setbacks' \in Nat
  BY SufferType, Zenon DEF LockRun
<1>3. lock' \in [Invocations -> Locks]
  BY Zenon DEF LockRun, Locks
<1>4. slotOf' \in [Invocations -> 0..Limit] /\ \A j \in Invocations \ {i} : slotOf'[j] = slotOf[j]
  BY LimitIsNat DEF LockRun
<1>5. CASE Goes(i, "acquire") /\ UNCHANGED outcome
  BY <1>1, <1>2, <1>3, <1>4, <1>5, SlotlessStep
<1>6. ASSUME NEW l \in {"unlock", "returned"}, NEW o \in {"pending", "failed"}, Goes(i, l), Returns(i, o)
      PROVE  BackfillInv'
  <2>1. outcome' \in [Invocations -> Results] /\ outcome'[i] = o
        /\ \A j \in Invocations \ {i} : outcome'[j] = outcome[j]
    BY <1>6, Zenon DEF Returns, Results
  <2> QED
    BY <1>1, <1>2, <1>3, <1>4, <1>6, <2>1, SlotlessStep
<1>7. \/ Goes(i, "acquire") /\ UNCHANGED outcome
      \/ \E l \in {"unlock", "returned"}, o \in {"pending", "failed"} : Goes(i, l) /\ Returns(i, o)
  BY Zenon DEF LockRun, isPendingError
<1> QED
  BY <1>5, <1>6, <1>7

LEMMA acquireConcurrencySlotKeeps ==
  ASSUME BackfillInv, NEW i \in Invocations, acquireConcurrencySlot(i)
  PROVE  BackfillInv'
<1>0. /\ outcome \in [Invocations -> Results] /\ slotOf \in [Invocations -> 0..Limit]
      /\ lock \in [Invocations -> Locks] /\ setbacks \in Nat /\ OutcomeOf(i)
      /\ at \in [Invocations -> Places] /\ record \in [Invocations -> Statuses]
      /\ slot \in [Slots -> Holders] /\ SlotInv
  BY InvocationTypes, Zenon
<1> USE <1>0
<1>1. at[i] = "acquire" /\ outcome[i] = "none" /\ record[i] \in {"none", "IN_PROGRESS"}
      /\ UNCHANGED <<backfill, dispatch, record, lock>>
  BY Zenon DEF acquireConcurrencySlot, OutcomeOf
<1>2. PICK k \in 0..Limit : k = slotOf[i]
  OBVIOUS
<1>3. i \notin Executing
  BY <1>1, Zenon DEF Executing
<1>4. CASE Returns(i, "pending") /\ Goes(i, "unlock") /\ UNCHANGED <<slotOf, slot, setbacks>>
  <2>1. outcome' \in [Invocations -> Results] /\ outcome'[i] = "pending"
        /\ \A j \in Invocations \ {i} : outcome'[j] = outcome[j]
    BY <1>4, Zenon DEF Returns, Results
  <2> QED
    BY <1>1, <1>4, <2>1, SlotlessStep
<1>5. CASE k \in Slots /\ slotOf' = [slotOf EXCEPT ![i] = k + 1] /\ UNCHANGED <<at, outcome, slot, setbacks>>
  <2>1. k + 1 \in 0..Limit
    BY <1>5, LimitIsNat DEF Slots
  <2>2. slotOf' \in [Invocations -> 0..Limit] /\ \A j \in Invocations \ {i} : slotOf'[j] = slotOf[j]
    BY <1>5, <2>1
  <2>3. Goes(i, "acquire")
    BY <1>1, <1>5 DEF Goes
  <2> QED
    BY <1>1, <1>5, <2>2, <2>3, SlotlessStep
<1>6. CASE /\ k \in Slots /\ slot[k] = "free" /\ slot' = [slot EXCEPT ![k] = i]
           /\ Suffer("ok") /\ Goes(i, "begin") /\ UNCHANGED <<slotOf, outcome>>
  <2>1. slot' \in [Slots -> Holders] /\ slot'[k] = i /\ \A h \in Slots \ {k} : slot'[h] = slot[h]
    BY <1>6, Zenon DEF Holders
  <2>2. at'[i] = "begin" /\ \A j \in Invocations \ {i} : at'[j] = at[j]
    BY <1>6, Zenon DEF Goes
  <2>3. Executing' = Executing \cup {i}
    BY <2>2, Zenon DEF Executing
  <2>4. ASSUME NEW j \in Executing' PROVE slotOf'[j] \in Slots /\ slot'[slotOf'[j]] = j
    <3>1. CASE j = i
      BY <1>2, <1>6, <2>1, <3>1
    <3>2. CASE j # i
      <4>1. slotOf[j] \in Slots /\ slot[slotOf[j]] = j /\ j \in Invocations
        BY <2>3, <3>2, Zenon DEF SlotInv, Executing
      <4>2. slotOf[j] # k
        BY <1>6, <4>1, InvocationsDistinct
      <4> QED
        BY <1>6, <2>1, <4>1, <4>2
    <3> QED
      BY <3>1, <3>2
  <2>5. ASSUME NEW h \in Slots, slot'[h] \in Invocations PROVE slot'[h] \in Executing' /\ slotOf'[slot'[h]] = h
    <3>1. CASE h = k
      BY <1>2, <1>6, <2>1, <2>3, <3>1
    <3>2. CASE h # k
      BY <1>6, <2>1, <2>3, <2>5, <3>2 DEF SlotInv
    <3> QED
      BY <3>1, <3>2
  <2>6. SlotInv'
    BY <2>4, <2>5 DEF SlotInv
  <2>7. OutcomeOf(i)' /\ setbacks' \in Nat /\ "begin" \in Places \ {"idle"}
    BY <1>1, <1>6, <2>2, SufferType DEF OutcomeOf, Places
  <2> QED
    BY <1>1, <1>6, <2>1, <2>6, <2>7, InvocationStep
<1>7. CASE /\ k \in Slots /\ slot[k] = "free" /\ UNCHANGED slotOf /\ Goes(i, "unlock")
           /\ \E o \in {"lost", "failed"} :
                /\ Suffer(o) /\ slot' = [slot EXCEPT ![k] = IF o = "lost" THEN "leaked" ELSE "free"]
           /\ \E e \in isPendingError : Returns(i, e)
  <2>1. PICK v \in {"leaked", "free"} : slot' = [slot EXCEPT ![k] = v]
    BY <1>7, Zenon
  <2>2. slot' \in [Slots -> Holders] /\ slot'[k] = v /\ \A h \in Slots \ {k} : slot'[h] = slot[h]
    BY <1>7, <2>1 DEF Holders
  <2>3. at'[i] = "unlock" /\ \A j \in Invocations \ {i} : at'[j] = at[j]
    BY <1>7, Zenon DEF Goes
  <2>4. Executing' = Executing
    BY <1>1, <2>3, Zenon DEF Executing
  <2>5. ASSUME NEW j \in Executing PROVE slotOf[j] \in Slots /\ slot'[slotOf[j]] = j
    <3>1. slotOf[j] \in Slots /\ slot[slotOf[j]] = j /\ j \in Invocations
      BY Zenon DEF SlotInv, Executing
    <3>2. slotOf[j] # k
      BY <1>7, <3>1, InvocationsDistinct
    <3> QED
      BY <2>2, <3>1, <3>2
  <2>6. ASSUME NEW h \in Slots, slot'[h] \in Invocations PROVE slot'[h] \in Executing /\ slotOf[slot'[h]] = h
    <3>1. h # k
      BY <2>2, <2>6, InvocationsDistinct
    <3> QED
      BY <2>2, <2>6, <3>1 DEF SlotInv
  <2>7. SlotInv'
    BY <1>7, <2>4, <2>5, <2>6 DEF SlotInv
  <2>8. PICK e \in {"pending", "failed"} : Returns(i, e)
    BY <1>7, Zenon DEF isPendingError
  <2>9. outcome' \in [Invocations -> Results] /\ outcome'[i] = e
        /\ \A j \in Invocations \ {i} : outcome'[j] = outcome[j]
    BY <2>8, Zenon DEF Returns, Results
  <2>10. OutcomeOf(i)' /\ setbacks' \in Nat /\ "unlock" \in Places \ {"idle"}
    BY <1>7, <2>3, <2>9, SufferType DEF OutcomeOf, Places
  <2> QED
    BY <1>1, <1>7, <2>2, <2>7, <2>9, <2>10, InvocationStep
<1> QED
  BY <1>2, <1>4, <1>5, <1>6, <1>7 DEF acquireConcurrencySlot, Applied

(* A step of an invocation that keeps the slot it has. *)
LEMMA SlottedStep ==
  ASSUME BackfillInv, NEW i \in Invocations, at[i] \in {"begin", "body"},
         UNCHANGED <<backfill, dispatch, slotOf, lock, slot>>,
         NEW l \in {"body", "release"}, Goes(i, l), setbacks' \in Nat,
         NEW s \in Statuses, record' = [record EXCEPT ![i] = s],
         outcome' \in [Invocations -> Results],
         \A j \in Invocations \ {i} : outcome'[j] = outcome[j],
         outcome'[i] = "none" <=> l = "body", l = "body" => s \in {"none", "IN_PROGRESS"},
         outcome'[i] = "succeeded" => s = "COMPLETED"
  PROVE  BackfillInv'
<1>0. /\ at \in [Invocations -> Places] /\ record \in [Invocations -> Statuses]
      /\ slotOf \in [Invocations -> 0..Limit] /\ lock \in [Invocations -> Locks]
      /\ slot \in [Slots -> Holders] /\ SlotInv
  BY InvocationTypes, Zenon
<1> USE <1>0
<1>1. at'[i] = l /\ \A j \in Invocations \ {i} : at'[j] = at[j]
  BY Zenon DEF Goes
<1>2. record' \in [Invocations -> Statuses] /\ record'[i] = s
      /\ \A j \in Invocations \ {i} : record'[j] = record[j]
  OBVIOUS
<1>3. SlotInv'
  <2>1. \A j \in Invocations : j \in Executing' <=> j \in Executing
    BY <1>1, Zenon DEF Executing
  <2> QED
    BY <2>1, SlotsKept
<1>4. OutcomeOf(i)' /\ l \in Places \ {"idle"}
  BY <1>1, <1>2, Zenon DEF OutcomeOf, Places
<1> QED
  BY <1>2, <1>3, <1>4, InvocationStep

LEMMA PutInProgressKeeps ==
  ASSUME BackfillInv, NEW i \in Invocations, PutInProgress(i)
  PROVE  BackfillInv'
<1>0. /\ outcome \in [Invocations -> Results] /\ setbacks \in Nat /\ OutcomeOf(i)
      /\ record \in [Invocations -> Statuses]
  BY InvocationTypes, Zenon
<1> USE <1>0
<1>1. at[i] = "begin" /\ outcome[i] = "none" /\ record[i] \in {"none", "IN_PROGRESS"}
      /\ UNCHANGED <<backfill, dispatch, slotOf, lock, slot>>
  BY Zenon DEF PutInProgress, OutcomeOf
<1>2. PICK o \in Applied :
        /\ Suffer(o)
        /\ record' = [record EXCEPT ![i] = IF o = "failed" THEN @ ELSE "IN_PROGRESS"]
        /\ IF o = "ok" THEN Goes(i, "body") /\ UNCHANGED outcome
                       ELSE Goes(i, "release") /\ \E e \in isPendingError : Returns(i, e)
  BY Zenon DEF PutInProgress, Applied
<1>3. setbacks' \in Nat
  BY <1>2, SufferType
<1>4. PICK s \in {"none", "IN_PROGRESS"} : record' = [record EXCEPT ![i] = s]
  BY <1>1, <1>2, Zenon
<1>5. s \in Statuses
  BY Zenon DEF Statuses
<1>6. CASE Goes(i, "body") /\ UNCHANGED outcome
  BY <1>1, <1>3, <1>4, <1>5, <1>6, SlottedStep, Zenon
<1>7. ASSUME NEW e \in {"pending", "failed"}, Goes(i, "release"), Returns(i, e) PROVE BackfillInv'
  <2>1. outcome' \in [Invocations -> Results] /\ outcome'[i] = e
        /\ \A j \in Invocations \ {i} : outcome'[j] = outcome[j]
    BY <1>7, Zenon DEF Returns, Results
  <2> QED
    BY <1>1, <1>3, <1>4, <1>5, <1>7, <2>1, SlottedStep, Zenon
<1> QED
  BY <1>2, <1>6, <1>7 DEF isPendingError

LEMMA BodyKeeps ==
  ASSUME BackfillInv, NEW i \in Invocations, Body(i)
  PROVE  BackfillInv'
<1>0. /\ outcome \in [Invocations -> Results] /\ setbacks \in Nat
      /\ record \in [Invocations -> Statuses]
  BY InvocationTypes, Zenon
<1> USE <1>0
<1>1. at[i] = "body" /\ Goes(i, "release") /\ UNCHANGED <<backfill, dispatch, slotOf, lock, slot>>
  BY Zenon DEF Body
<1>2. setbacks' \in Nat
  BY SufferType, Zenon DEF Body
<1>3. ASSUME NEW s \in Statuses, record' = [record EXCEPT ![i] = s],
             NEW e \in Results \ {"none"}, Returns(i, e), e = "succeeded" => s = "COMPLETED"
      PROVE  BackfillInv'
  <2>1. outcome' \in [Invocations -> Results] /\ outcome'[i] = e
        /\ \A j \in Invocations \ {i} : outcome'[j] = outcome[j]
    BY <1>3, Zenon DEF Returns
  <2> QED
    BY <1>1, <1>2, <1>3, <2>1, SlottedStep, Zenon
<1>4. CASE UNCHANGED record /\ \E e \in isPendingError : Returns(i, e)
  <2>1. record' = [record EXCEPT ![i] = record[i]] /\ record[i] \in Statuses
    BY <1>4, Zenon
  <2> QED
    BY <1>3, <1>4, <2>1, Zenon DEF isPendingError, Results
<1>5. ASSUME NEW s \in {"COMPLETED", "FAILED"}, NEW o \in Applied,
             record' = [record EXCEPT ![i] = IF o = "failed" THEN @ ELSE s],
             IF o = "ok" THEN Returns(i, IF s = "COMPLETED" THEN "succeeded" ELSE "failed")
                         ELSE \E e \in isPendingError : Returns(i, e)
      PROVE  BackfillInv'
  <2>1. CASE o = "ok"
    <3>1. record' = [record EXCEPT ![i] = s] /\ s \in Statuses
      BY <1>5, <2>1, Zenon DEF Statuses
    <3>2. CASE s = "COMPLETED"
      <4>1. Returns(i, "succeeded")
        BY <1>5, <2>1, <3>2
      <4> QED
        BY <1>3, <3>1, <3>2, <4>1, Zenon DEF Results
    <3>3. CASE s # "COMPLETED"
      <4>1. Returns(i, "failed")
        BY <1>5, <2>1, <3>3
      <4> QED
        BY <1>3, <3>1, <4>1, Zenon DEF Results
    <3> QED
      BY <3>2, <3>3, Zenon
  <2>2. CASE o # "ok"
    <3>1. PICK e \in {"pending", "failed"} : Returns(i, e)
      BY <1>5, <2>2, Zenon DEF isPendingError
    <3>2. PICK d \in Statuses : record' = [record EXCEPT ![i] = d]
      BY <1>5, Zenon DEF Statuses
    <3> QED
      BY <1>3, <3>1, <3>2, Zenon DEF Results
  <2> QED
    BY <2>1, <2>2
<1>6. \/ UNCHANGED record /\ \E e \in isPendingError : Returns(i, e)
      \/ \E s \in {"COMPLETED", "FAILED"}, o \in Applied :
           /\ record' = [record EXCEPT ![i] = IF o = "failed" THEN @ ELSE s]
           /\ IF o = "ok" THEN Returns(i, IF s = "COMPLETED" THEN "succeeded" ELSE "failed")
                          ELSE \E e \in isPendingError : Returns(i, e)
  BY Zenon DEF Body, isPendingError
<1> QED
  BY <1>4, <1>5, <1>6

(* A deferred release leaves the outcome, or makes an error of it. *)
LEMMA DeferredOutcome ==
  ASSUME BackfillInv, NEW i \in Invocations, NEW o, Deferred(i, o), outcome[i] # "none"
  PROVE  /\ setbacks' \in Nat /\ outcome' \in [Invocations -> Results]
         /\ \A j \in Invocations \ {i} : outcome'[j] = outcome[j]
         /\ outcome'[i] # "none" /\ (outcome'[i] = "succeeded" => outcome[i] = "succeeded")
<1>0. outcome \in [Invocations -> Results] /\ setbacks \in Nat
  BY InvocationTypes, Zenon
<1>1. setbacks' \in Nat
  BY <1>0, SufferType DEF Deferred
<1>2. UNCHANGED outcome \/ \E e \in {"pending", "failed"} : outcome' = [outcome EXCEPT ![i] = e]
  BY Zenon DEF Deferred, isPendingError, Returns
<1> QED
  BY <1>0, <1>1, <1>2 DEF Results

LEMMA releaseConcurrencySlotKeeps ==
  ASSUME BackfillInv, NEW i \in Invocations, releaseConcurrencySlot(i)
  PROVE  BackfillInv'
<1>0. /\ at \in [Invocations -> Places] /\ record \in [Invocations -> Statuses]
      /\ slotOf \in [Invocations -> 0..Limit] /\ lock \in [Invocations -> Locks]
      /\ slot \in [Slots -> Holders] /\ SlotInv /\ OutcomeOf(i)
  BY InvocationTypes, Zenon
<1> USE <1>0
<1>1. at[i] = "release" /\ outcome[i] # "none" /\ Goes(i, "unlock")
      /\ UNCHANGED <<backfill, dispatch, slotOf, record, lock>>
  BY Zenon DEF releaseConcurrencySlot, OutcomeOf
<1>2. PICK o \in Applied : /\ Deferred(i, o)
                           /\ slot' = [slot EXCEPT ![slotOf[i]] = IF o = "failed" THEN "leaked" ELSE "free"]
  BY Zenon DEF releaseConcurrencySlot
<1>3. /\ setbacks' \in Nat /\ outcome' \in [Invocations -> Results]
      /\ \A j \in Invocations \ {i} : outcome'[j] = outcome[j]
      /\ outcome'[i] # "none" /\ (outcome'[i] = "succeeded" => outcome[i] = "succeeded")
  BY <1>1, <1>2, DeferredOutcome
<1>4. at'[i] = "unlock" /\ \A j \in Invocations \ {i} : at'[j] = at[j]
  BY <1>1, Zenon DEF Goes
<1>5. i \in Executing /\ Executing' = Executing \ {i}
  BY <1>1, <1>4 DEF Executing
<1>6. PICK k \in Slots : k = slotOf[i] /\ slot[k] = i
  BY <1>5, Zenon DEF SlotInv
<1>7. PICK v \in {"free", "leaked"} : slot' = [slot EXCEPT ![k] = v]
  BY <1>2, <1>6, Zenon
<1>8. slot' \in [Slots -> Holders] /\ slot'[k] = v /\ \A h \in Slots \ {k} : slot'[h] = slot[h]
  BY <1>7, Zenon DEF Holders
<1>9. ASSUME NEW j \in Executing' PROVE slotOf'[j] \in Slots /\ slot'[slotOf'[j]] = j
  <2>1. j # i /\ slotOf[j] \in Slots /\ slot[slotOf[j]] = j
    BY <1>5, Zenon DEF SlotInv
  <2>2. slotOf[j] # k
    BY <1>6, <2>1
  <2> QED
    BY <1>1, <1>8, <2>1, <2>2
<1>10. ASSUME NEW h \in Slots, slot'[h] \in Invocations PROVE slot'[h] \in Executing' /\ slotOf'[slot'[h]] = h
  <2>1. h # k
    BY <1>8, <1>10, InvocationsDistinct
  <2>2. slot'[h] = slot[h] /\ slot[h] \in Executing /\ slotOf[slot[h]] = h
    BY <1>8, <1>10, <2>1 DEF SlotInv
  <2>3. slot[h] # i
    BY <1>6, <2>1, <2>2
  <2> QED
    BY <1>1, <1>5, <2>2, <2>3
<1>11. SlotInv'
  BY <1>9, <1>10, Zenon DEF SlotInv
<1>12. OutcomeOf(i)' /\ "unlock" \in Places \ {"idle"}
  BY <1>1, <1>3, <1>4 DEF OutcomeOf, Places
<1> QED
  BY <1>1, <1>3, <1>8, <1>11, <1>12, InvocationStep

LEMMA UnlockRunKeeps ==
  ASSUME BackfillInv, NEW i \in Invocations, UnlockRun(i)
  PROVE  BackfillInv'
<1>0. /\ slotOf \in [Invocations -> 0..Limit] /\ lock \in [Invocations -> Locks] /\ OutcomeOf(i)
  BY InvocationTypes, Zenon
<1> USE <1>0
<1>1. at[i] = "unlock" /\ outcome[i] # "none" /\ Goes(i, "returned")
      /\ UNCHANGED <<backfill, dispatch, slotOf, record, slot>>
  BY Zenon DEF UnlockRun, OutcomeOf
<1>2. PICK o \in Applied : /\ Deferred(i, o)
                           /\ lock' = [lock EXCEPT ![i] = IF o = "failed" THEN "leaked" ELSE "free"]
  BY Zenon DEF UnlockRun
<1>3. /\ setbacks' \in Nat /\ outcome' \in [Invocations -> Results]
      /\ \A j \in Invocations \ {i} : outcome'[j] = outcome[j]
      /\ outcome'[i] # "none" /\ (outcome'[i] = "succeeded" => outcome[i] = "succeeded")
  BY <1>1, <1>2, DeferredOutcome
<1>4. lock' \in [Invocations -> Locks]
  BY <1>2, Zenon DEF Locks
<1>5. outcome'[i] = "succeeded" => record[i] = "COMPLETED"
  BY <1>3, Zenon DEF OutcomeOf
<1> QED
  BY <1>1, <1>3, <1>4, <1>5, SlotlessStep

EntryValues == {"none", "succeeded", "failed", "pending", "skipped"}
Loop == {"idle", "select", "check", "spawn", "done"}

(* What a step of the dispatch loop starts from. *)
LEMMA DispatchTypes ==
  ASSUME BackfillInv
  PROVE  /\ BackfillTypeOK /\ SlotInv /\ TokenInv /\ HaltInv /\ OutcomeInv /\ EntryInv /\ SkipInv
         /\ backfill \in Backfills /\ loop \in Loop /\ next \in Nat /\ taken \in Nat
         /\ halted \in BOOLEAN /\ late \in Nat /\ entry \in [Runs -> EntryValues]
         /\ at \in [Invocations -> Places]
         /\ N \in Nat /\ backfill.concurrency \in Nat \ {0}
         /\ \A i \in 1..N : RunAt(i) \in Runs
         /\ \A i, j \in 1..N : RunAt(i) = RunAt(j) => i = j
         /\ Cardinality(InFlight) \in Nat
  BY CallFacts, RunsInFlight DEF BackfillInv, BackfillTypeOK, EntryValues, Loop

(* The dispatch loop alone moves. *)
LEMMA LoopStep ==
  ASSUME BackfillInv, UNCHANGED <<backfill, at, slotOf, outcome, record, lock, slot, setbacks>>,
         loop' \in Loop, next' \in Nat, taken' \in Nat, halted' \in BOOLEAN, late' \in Nat,
         entry' \in [Runs -> EntryValues], TokenInv', HaltInv', EntryInv', SkipInv'
  PROVE  BackfillInv'
<1>0. BackfillTypeOK /\ SlotInv /\ OutcomeInv
  BY Zenon DEF BackfillInv
<1> USE <1>0
<1>1. BackfillTypeOK'
  BY Zenon DEF BackfillTypeOK, EntryValues, Loop
<1>2. SlotInv'
  BY SlotsKept, Zenon DEF Executing
<1>3. OutcomeInv'
  BY Zenon DEF OutcomeInv, OutcomeOf
<1> QED
  BY <1>1, <1>2, <1>3 DEF BackfillInv

(* The loop moves without reaching another run. *)
LEMMA LoopTurn ==
  ASSUME BackfillInv, NEW l \in Loop, loop' = l, taken' \in Nat,
         UNCHANGED <<backfill, next, halted, late, entry, at, slotOf, outcome, record, lock, slot, setbacks>>,
         taken' = Cardinality(InFlight) + (IF l \in {"check", "spawn"} THEN 1 ELSE 0),
         taken' <= backfill.concurrency,
         l \in {"check", "spawn"} => next <= N,
         l = "done" => next = N + 1 /\ InFlight = {},
         l = "spawn" => ~halted
  PROVE  BackfillInv'
<1>0. /\ TokenInv /\ HaltInv /\ EntryInv /\ SkipInv
      /\ next \in Nat /\ halted \in BOOLEAN /\ late \in Nat /\ entry \in [Runs -> EntryValues]
  BY DispatchTypes, Zenon
<1> USE <1>0
<1>1. InFlight' = InFlight /\ N' = N /\ \A j \in 1..N : RunAt(j)' = RunAt(j)
  BY Zenon DEF InFlight, N, RunAt
<1>2. TokenInv'
  <2>1. Spare' = IF l \in {"check", "spawn"} THEN 1 ELSE 0
    BY Zenon DEF Spare
  <2> QED
    BY <1>1, <2>1 DEF TokenInv
<1>3. HaltInv'
  BY Zenon DEF HaltInv
<1>4. EntryInv'
  BY <1>1 DEF EntryInv
<1>5. \A j \in 1..N : (Skipped(j)' <=> Skipped(j)) /\ (Failed(j)' <=> Failed(j))
  BY <1>1, Zenon DEF Skipped, Failed
<1>6. SkipInv'
  BY <1>1, <1>5 DEF SkipInv
<1> QED
  BY <1>2, <1>3, <1>4, <1>6, LoopStep

(* The next run is skipped. *)
LEMMA SkipStep ==
  ASSUME BackfillInv, loop \in {"select", "check"}, next \in 1..N, halted, Skip,
         loop' = "select", taken' = taken - Spare,
         UNCHANGED <<backfill, halted, late, at, slotOf, outcome, record, lock, slot, setbacks>>
  PROVE  BackfillInv'
<1>0. /\ TokenInv /\ HaltInv /\ EntryInv /\ SkipInv
      /\ next \in Nat /\ taken \in Nat /\ halted \in BOOLEAN /\ late \in Nat
      /\ entry \in [Runs -> EntryValues] /\ N \in Nat
      /\ \A i \in 1..N : RunAt(i) \in Runs
      /\ \A i, j \in 1..N : RunAt(i) = RunAt(j) => i = j
      /\ Cardinality(InFlight) \in Nat /\ backfill.concurrency \in Nat
  BY DispatchTypes, Zenon
<1> USE <1>0
<1>1. InFlight' = InFlight /\ N' = N /\ \A j \in 1..N : RunAt(j)' = RunAt(j)
  BY Zenon DEF InFlight, N, RunAt
<1>2. /\ next' = next + 1 /\ entry' \in [Runs -> EntryValues]
      /\ entry'[RunAt(next)] = "skipped"
      /\ \A r \in Runs : r # RunAt(next) => entry'[r] = entry[r]
  BY Zenon DEF Skip, RunAt, EntryValues
<1>3. \A j \in 1..N : j # next => RunAt(j) # RunAt(next) /\ entry'[RunAt(j)] = entry[RunAt(j)]
  BY <1>2, Zenon
<1>4. at[RunAt(next)] = "idle" /\ entry[RunAt(next)] = "none"
  BY DEF TokenInv
<1>5. Spare' = 0 /\ taken' = Cardinality(InFlight) /\ taken' <= backfill.concurrency
  BY DEF Spare, TokenInv
<1>6. TokenInv'
  <2>1. \A j \in 1..N : j >= next + 1 => at[RunAt(j)] = "idle" /\ entry'[RunAt(j)] = "none"
    BY <1>3 DEF TokenInv
  <2>2. next + 1 \in 1..(N + 1)
    OBVIOUS
  <2> QED
    BY <1>1, <1>2, <1>5, <2>1, <2>2 DEF TokenInv
<1>7. HaltInv'
  BY Zenon DEF HaltInv
<1>8. EntryInv'
  <2>1. ASSUME NEW j \in 1..N, j < next + 1
        PROVE  /\ at[RunAt(j)] = "idle" <=> entry'[RunAt(j)] # "none"
               /\ entry'[RunAt(j)] = "succeeded" => record[RunAt(j)] = "COMPLETED"
    <3>1. CASE j = next
      BY <1>2, <1>4, <3>1
    <3>2. CASE j # next
      <4>1. j < next
        BY <2>1, <3>2
      <4> QED
        BY <1>3, <3>2, <4>1 DEF EntryInv
    <3> QED
      BY <3>1, <3>2
  <2>2. \A r \in InFlight : \E j \in 1..N : j < next + 1 /\ RunAt(j) = r
    BY DEF EntryInv
  <2> QED
    BY <1>1, <1>2, <2>1, <2>2 DEF EntryInv
<1> PICK n \in 1..N : n = next
  OBVIOUS
<1>9. /\ Skipped(n)'
      /\ \A j \in 1..N : j # n => (Skipped(j)' <=> Skipped(j)) /\ (Failed(j)' <=> Failed(j))
  BY <1>1, <1>2, <1>3 DEF Skipped, Failed
<1>10. PICK f \in 1..N : f < next /\ Failed(f)
  BY Zenon DEF SkipInv
<1>11. Failed(f)'
  BY <1>9, <1>10
<1>12. ASSUME NEW i \in 1..N, Skipped(i)'
       PROVE  /\ \E j \in 1..N : j < i /\ Failed(j)'
              /\ \A j \in 1..N : i <= j /\ j < next + 1 => Skipped(j)'
  <2>1. CASE i = n
    <3>1. \A j \in 1..N : i <= j /\ j < next + 1 => j = n
      BY <2>1
    <3> QED
      BY <1>9, <1>10, <1>11, <2>1, <3>1
  <2>2. CASE i # n
    <3>1. Skipped(i)
      BY <1>9, <1>12, <2>2
    <3>2. i < next
      BY <3>1 DEF TokenInv, Skipped
    <3>3. PICK j \in 1..N : j < i /\ Failed(j)
      BY <3>1, Zenon DEF SkipInv
    <3>4. Failed(j)'
      BY <1>9, <3>2, <3>3
    <3>5. ASSUME NEW h \in 1..N, i <= h, h < next + 1 PROVE Skipped(h)'
      <4>1. CASE h = n
        BY <1>9, <4>1
      <4>2. CASE h # n
        <5>1. h < next
          BY <3>5, <4>2
        <5>2. Skipped(h)
          BY <3>1, <3>5, <5>1 DEF SkipInv
        <5> QED
          BY <1>9, <4>2, <5>2
      <4> QED
        BY <4>1, <4>2
    <3> QED
      BY <3>3, <3>4, <3>5
  <2> QED
    BY <2>1, <2>2
<1>13. SkipInv'
  <2>1. \E j \in 1..N : j < next + 1 /\ Failed(j)'
    BY <1>10, <1>11
  <2> QED
    BY <1>1, <1>2, <1>12, <2>1 DEF SkipInv
<1>14. taken' \in Nat /\ next' \in Nat /\ loop' \in Loop
  BY <1>2, <1>5 DEF Loop
<1> QED
  BY <1>2, <1>6, <1>7, <1>8, <1>13, <1>14, LoopStep

LEMMA TurnsKeep ==
  ASSUME BackfillInv, CallBackfill \/ SelectToken \/ SelectHalt \/ CheckHalt \/ Report
  PROVE  BackfillInv'
<1>0. /\ TokenInv /\ HaltInv /\ loop \in Loop /\ next \in Nat /\ taken \in Nat /\ N \in Nat
      /\ Cardinality(InFlight) \in Nat /\ backfill.concurrency \in Nat
  BY DispatchTypes
<1> USE <1>0
<1>1. CASE CallBackfill
  <2>1. Spare = 0 /\ loop' = "select" /\ taken' = Cardinality(InFlight) /\ taken' <= backfill.concurrency
    BY <1>1 DEF CallBackfill, Spare, TokenInv
  <2> QED
    BY <1>1, <2>1, LoopTurn DEF CallBackfill, Loop
<1>2. CASE SelectToken
  <2>1. Spare = 0 /\ loop' = "check" /\ taken' = Cardinality(InFlight) + 1 /\ taken' <= backfill.concurrency
        /\ next <= N
    BY <1>2 DEF SelectToken, Spare, TokenInv
  <2> QED
    BY <1>2, <2>1, LoopTurn DEF SelectToken, Loop
<1>3. CASE SelectHalt
  <2>1. Spare = 0
    BY <1>3, Zenon DEF SelectHalt, Spare
  <2> QED
    BY <1>3, <2>1, SkipStep DEF SelectHalt
<1>4. CASE CheckHalt
  <2>1. Spare = 1 /\ next \in 1..N /\ loop = "check" /\ taken = Cardinality(InFlight) + 1
        /\ taken <= backfill.concurrency
    BY <1>4 DEF CheckHalt, Spare, TokenInv
  <2>2. CASE halted
    BY <1>4, <2>1, <2>2, SkipStep DEF CheckHalt
  <2>3. CASE ~halted
    <3>1. loop' = "spawn" /\ taken' = taken
          /\ UNCHANGED <<backfill, next, halted, late, entry, at, slotOf, outcome, record, lock, slot, setbacks>>
      BY <1>4, <2>3 DEF CheckHalt
    <3> QED
      BY <2>1, <2>3, <3>1, LoopTurn DEF Loop
  <2> QED
    BY <2>2, <2>3
<1>5. CASE Report
  <2>1. Spare = 0 /\ loop' = "done" /\ taken' = Cardinality(InFlight) /\ taken' <= backfill.concurrency
    BY <1>5 DEF Report, Spare, TokenInv
  <2>2. InFlight = {} /\ next = N + 1
    BY <1>5 DEF Report, InFlight
  <2> QED
    BY <1>5, <2>1, <2>2, LoopTurn DEF Report, Loop
<1> QED
  BY <1>1, <1>2, <1>3, <1>4, <1>5

(* An invocation begins or ends: it holds no slot on either side. *)
LEMMA EdgeKeeps ==
  ASSUME BackfillInv, NEW i \in Invocations, NEW l \in {"idle", "get"}, Goes(i, l),
         at[i] \in {"idle", "returned"}, slotOf' \in [Invocations -> 0..Limit],
         outcome' \in [Invocations -> Results], outcome'[i] = "none",
         \A j \in Invocations \ {i} : slotOf'[j] = slotOf[j] /\ outcome'[j] = outcome[j],
         UNCHANGED <<record, slot>>
  PROVE  /\ SlotInv' /\ OutcomeInv' /\ at' \in [Invocations -> Places] /\ at'[i] = l
         /\ \A j \in Invocations \ {i} : at'[j] = at[j]
<1>0. SlotInv /\ OutcomeInv /\ at \in [Invocations -> Places]
  BY DispatchTypes, Zenon
<1> USE <1>0
<1>1. at' \in [Invocations -> Places] /\ at'[i] = l /\ \A j \in Invocations \ {i} : at'[j] = at[j]
  BY Zenon DEF Goes, Places
<1>2. \A j \in Invocations : /\ j \in Executing' <=> j \in Executing
                             /\ j \in Executing => slotOf'[j] = slotOf[j]
  BY <1>1 DEF Executing
<1>3. SlotInv'
  BY <1>2, SlotsKept
<1>4. OutcomeInv'
  <2> SUFFICES ASSUME NEW j \in Invocations PROVE OutcomeOf(j)'
    BY Zenon DEF OutcomeInv
  <2>1. CASE j = i
    BY <1>1, <2>1 DEF OutcomeOf
  <2>2. CASE j # i
    <3>1. OutcomeOf(j) /\ at'[j] = at[j] /\ outcome'[j] = outcome[j]
      BY <1>1, <2>2 DEF OutcomeInv
    <3> QED
      BY <3>1 DEF OutcomeOf
  <2> QED
    BY <2>1, <2>2
<1> QED
  BY <1>1, <1>3, <1>4

LEMMA SpawnKeeps ==
  ASSUME BackfillInv, Spawn
  PROVE  BackfillInv'
<1>0. /\ BackfillTypeOK /\ TokenInv /\ HaltInv /\ OutcomeInv /\ EntryInv /\ SkipInv
      /\ next \in Nat /\ late \in Nat /\ entry \in [Runs -> EntryValues] /\ N \in Nat
      /\ \A j \in 1..N : RunAt(j) \in Runs
      /\ \A j, h \in 1..N : RunAt(j) = RunAt(h) => j = h
      /\ Cardinality(InFlight) \in Nat /\ IsFiniteSet(InFlight)
  BY DispatchTypes, RunsInFlight
<1> USE <1>0
<1>1. /\ loop = "spawn" /\ loop' = "select" /\ next' = next + 1
      /\ late' = IF halted THEN late + 1 ELSE late
      /\ UNCHANGED <<backfill, taken, halted, entry, slotOf, outcome, record, lock, slot, setbacks>>
      /\ N' = N /\ \A j \in 1..N : RunAt(j)' = RunAt(j)
  BY Zenon DEF Spawn, N, RunAt
<1> PICK n \in 1..N : n = next
  BY <1>1 DEF TokenInv
<1>2. RunAt(n) \in Runs /\ RunAt(n) \in Invocations /\ at[RunAt(n)] = "idle" /\ entry[RunAt(n)] = "none"
  BY RunsInFlight DEF TokenInv
<1> PICK r \in Runs : r = RunAt(n)
  BY <1>2
<1>3. Goes(r, "get") /\ r \in Invocations /\ at[r] = "idle" /\ outcome[r] = "none"
  BY <1>2, ZenonT(20) DEF Spawn, RunAt, OutcomeInv, OutcomeOf
<1>4. /\ SlotInv' /\ OutcomeInv' /\ at' \in [Invocations -> Places] /\ at'[r] = "get"
      /\ \A j \in Invocations \ {r} : at'[j] = at[j]
  BY <1>1, <1>3, EdgeKeeps, InvocationTypes, ZenonT(20)
<1>5. InFlight' = InFlight \cup {r} /\ r \notin InFlight
  BY <1>3, <1>4, RunsInFlight, ZenonT(20) DEF InFlight
<1>6. Cardinality(InFlight') = Cardinality(InFlight) + 1
  BY <1>5, FS_AddElement, ZenonT(20)
<1>7. \A j \in 1..N : j # n => at'[RunAt(j)] = at[RunAt(j)]
  BY <1>4, RunsInFlight
<1>8. TokenInv'
  <2>1. Spare = 1 /\ Spare' = 0
    BY <1>1 DEF Spare
  <2>2. taken' = Cardinality(InFlight') + Spare'
    BY <1>1, <1>6, <2>1 DEF TokenInv
  <2>3. next + 1 \in 1..(N + 1)
    OBVIOUS
  <2>4. \A j \in 1..N : j >= next + 1 => at'[RunAt(j)] = "idle" /\ entry[RunAt(j)] = "none"
    BY <1>7, Passing, ZenonT(20) DEF TokenInv
  <2>5. taken <= backfill.concurrency
    BY Zenon DEF TokenInv
  <2>6. taken' <= backfill'.concurrency /\ next' \in 1..(N' + 1) /\ loop' \notin {"check", "spawn", "done"}
    BY <1>1, <2>3, <2>5, Zenon
  <2>7. \A j \in 1..N' : j >= next' => at'[RunAt(j)'] = "idle" /\ entry'[RunAt(j)'] = "none"
    BY <1>1, <2>4, Zenon
  <2> QED
    BY <2>2, <2>6, <2>7, Zenon DEF TokenInv
<1>9. HaltInv'
  BY <1>1 DEF HaltInv
<1>10. EntryInv'
  <2>1. ASSUME NEW j \in 1..N, j < next + 1
        PROVE  /\ at'[RunAt(j)] = "idle" <=> entry[RunAt(j)] # "none"
               /\ entry[RunAt(j)] = "succeeded" => record[RunAt(j)] = "COMPLETED"
    <3>1. CASE j = n
      BY <1>2, <1>4, <3>1, ZenonT(20)
    <3>2. CASE j # n
      <4>1. j < next
        BY <2>1, <3>2
      <4> QED
        BY <1>7, <3>2, <4>1 DEF EntryInv
    <3> QED
      BY <3>1, <3>2, ZenonT(20)
  <2>2. ASSUME NEW q \in InFlight' PROVE \E j \in 1..N : j < next + 1 /\ RunAt(j) = q
    <3>1. CASE q = r
      BY <3>1
    <3>2. CASE q \in InFlight
      <4>1. PICK j \in 1..N : j < next /\ RunAt(j) = q
        BY <3>2 DEF EntryInv
      <4>2. j < next + 1
        BY <4>1
      <4> QED
        BY <4>1, <4>2
    <3> QED
      BY <1>5, <3>1, <3>2
  <2>3. \A j \in 1..N' : j < next' =>
          /\ at'[RunAt(j)'] = "idle" <=> entry'[RunAt(j)'] # "none"
          /\ entry'[RunAt(j)'] = "succeeded" => record'[RunAt(j)'] = "COMPLETED"
    BY <1>1, <2>1, ZenonT(20)
  <2>4. \A q \in InFlight' : \E j \in 1..N' : j < next' /\ RunAt(j)' = q
    BY <1>1, <2>2, Zenon
  <2> QED
    BY <2>3, <2>4, Zenon DEF EntryInv
<1>11. \A j \in 1..N : (Skipped(j)' <=> Skipped(j)) /\ (Failed(j) => Failed(j)')
  <2> TAKE j \in 1..N
  <2>1. Skipped(j)' <=> Skipped(j)
    BY <1>1 DEF Skipped
  <2>2. CASE j = n
    BY <1>2, <2>1, <2>2 DEF Failed
  <2>3. CASE j # n
    BY <1>1, <1>7, <2>1, <2>3, ZenonT(20) DEF Failed
  <2> QED
    BY <2>2, <2>3
<1>12. SkipInv'
  <2>1. \A j \in 1..N : ~Skipped(j)
    BY <1>1 DEF SkipInv
  <2>2. halted => \E j \in 1..N : j < next + 1 /\ Failed(j)'
    <3> SUFFICES ASSUME halted PROVE \E j \in 1..N : j < next + 1 /\ Failed(j)'
      OBVIOUS
    <3>1. PICK j \in 1..N : j < next /\ Failed(j)
      BY Zenon DEF SkipInv
    <3>2. j < next + 1
      BY <3>1
    <3> QED
      BY <1>11, <3>1, <3>2
  <2> QED
    BY <1>1, <1>11, <2>1, <2>2 DEF SkipInv
<1>13. BackfillTypeOK'
  <2>1. next' \in Nat /\ late' \in Nat
    BY <1>1
  <2> QED
    BY <1>1, <1>4, <2>1, ZenonT(20) DEF BackfillTypeOK
<1> QED
  BY <1>4, <1>8, <1>9, <1>10, <1>12, <1>13 DEF BackfillInv

LEMMA CloseHaltKeeps ==
  ASSUME BackfillInv, NEW r \in Runs, CloseHalt(r)
  PROVE  BackfillInv'
<1>0. /\ TokenInv /\ HaltInv /\ EntryInv /\ SkipInv /\ loop \in Loop
      /\ next \in Nat /\ taken \in Nat /\ late \in Nat /\ entry \in [Runs -> EntryValues] /\ N \in Nat
      /\ Cardinality(InFlight) \in Nat /\ IsFiniteSet(InFlight) /\ backfill.concurrency \in Nat
  BY DispatchTypes, RunsInFlight
<1> USE <1>0
<1>1. /\ at[r] = "returned" /\ outcome[r] = "failed" /\ ~halted /\ halted' = TRUE
      /\ UNCHANGED <<backfill, loop, next, taken, late, entry, at, slotOf, outcome, record, lock, slot, setbacks>>
      /\ N' = N /\ \A j \in 1..N : RunAt(j)' = RunAt(j)
  BY Zenon DEF CloseHalt, N, RunAt
<1>2. InFlight' = InFlight /\ Spare' = Spare
  BY <1>1 DEF InFlight, Spare
<1>3. TokenInv'
  BY <1>1, <1>2, ZenonT(20) DEF TokenInv
<1>4. HaltInv'
  <2>1. late = 0
    BY <1>1 DEF HaltInv
  <2>2. Cardinality(InFlight) # 0
    BY <1>1, FS_EmptySet, ZenonT(20) DEF InFlight
  <2>3. loop = "spawn" => taken = Cardinality(InFlight) + 1
    BY Zenon DEF TokenInv, Spare
  <2>4. loop = "spawn" => backfill.concurrency > 1
    BY <2>2, <2>3 DEF TokenInv
  <2> QED
    BY <1>1, <2>1, <2>4 DEF HaltInv
<1>5. EntryInv'
  BY <1>1, <1>2, ZenonT(20) DEF EntryInv
<1>6. \A j \in 1..N : (Skipped(j)' <=> Skipped(j)) /\ (Failed(j)' <=> Failed(j))
  BY <1>1, Zenon DEF Skipped, Failed
<1>7. SkipInv'
  <2>1. PICK j \in 1..N : j < next /\ RunAt(j) = r
    BY <1>1, Zenon DEF EntryInv, InFlight
  <2>2. Failed(j)
    BY <1>1, <2>1, ZenonT(20) DEF Failed
  <2>3. \A h \in 1..N : ~Skipped(h)
    BY <1>1, Zenon DEF SkipInv
  <2> QED
    BY <1>1, <1>6, <2>1, <2>2, <2>3, Zenon DEF SkipInv
<1> QED
  BY <1>1, <1>3, <1>4, <1>5, <1>7, LoopStep, ZenonT(20)

LEMMA ReturnTokenKeeps ==
  ASSUME BackfillInv, NEW r \in Runs, ReturnToken(r)
  PROVE  BackfillInv'
<1>0. /\ BackfillTypeOK /\ TokenInv /\ HaltInv /\ OutcomeInv /\ EntryInv /\ SkipInv /\ loop \in Loop
      /\ next \in Nat /\ taken \in Nat /\ late \in Nat /\ entry \in [Runs -> EntryValues] /\ N \in Nat
      /\ \A j \in 1..N : RunAt(j) \in Runs
      /\ \A j, h \in 1..N : RunAt(j) = RunAt(h) => j = h
      /\ Cardinality(InFlight) \in Nat /\ IsFiniteSet(InFlight) /\ backfill.concurrency \in Nat
      /\ r \in Invocations
  BY DispatchTypes, RunsInFlight
<1> USE <1>0
<1>1. /\ at[r] = "returned" /\ taken' = taken - 1 /\ Goes(r, "idle")
      /\ UNCHANGED <<backfill, loop, next, halted, late, record, lock, slot, setbacks>>
      /\ N' = N /\ \A j \in 1..N : RunAt(j)' = RunAt(j)
  BY Zenon DEF ReturnToken, N, RunAt
<1>2. /\ entry' = [entry EXCEPT ![r] = outcome[r]]
      /\ slotOf' = [slotOf EXCEPT ![r] = 0] /\ outcome' = [outcome EXCEPT ![r] = "none"]
  BY Zenon DEF ReturnToken, Clear
<1>3. /\ outcome[r] \in Results \ {"none"} /\ outcome \in [Invocations -> Results]
      /\ slotOf \in [Invocations -> 0..Limit] /\ (outcome[r] = "succeeded" => record[r] = "COMPLETED")
  BY <1>1, InvocationTypes DEF OutcomeInv, OutcomeOf
<1>4. /\ slotOf' \in [Invocations -> 0..Limit] /\ outcome' \in [Invocations -> Results]
      /\ outcome'[r] = "none"
      /\ \A j \in Invocations \ {r} : slotOf'[j] = slotOf[j] /\ outcome'[j] = outcome[j]
  BY <1>2, <1>3, LimitIsNat DEF Results
<1>5. /\ SlotInv' /\ OutcomeInv' /\ at' \in [Invocations -> Places] /\ at'[r] = "idle"
      /\ \A j \in Invocations \ {r} : at'[j] = at[j]
  BY <1>1, <1>4, EdgeKeeps, ZenonT(20)
<1>6. entry' \in [Runs -> EntryValues] /\ entry'[r] = outcome[r] /\ \A q \in Runs \ {r} : entry'[q] = entry[q]
  BY <1>2, <1>3 DEF EntryValues, Results
<1>7. InFlight' = InFlight \ {r} /\ r \in InFlight
  BY <1>1, <1>5, RunsInFlight DEF InFlight
<1>8. Cardinality(InFlight') = Cardinality(InFlight) - 1 /\ Cardinality(InFlight) # 0
  BY <1>7, FS_RemoveElement, FS_EmptySet
<1>9. PICK n \in 1..N : n < next /\ RunAt(n) = r
  BY <1>7, Zenon DEF EntryInv
<1>10. \A j \in 1..N : j # n => /\ at'[RunAt(j)] = at[RunAt(j)] /\ entry'[RunAt(j)] = entry[RunAt(j)]
                                /\ outcome'[RunAt(j)] = outcome[RunAt(j)]
  BY <1>4, <1>5, <1>6, <1>9, RunsInFlight, ZenonT(20)
<1>11. TokenInv'
  <2>1. Spare' = Spare /\ loop # "done"
    BY <1>1, <1>7 DEF Spare, TokenInv
  <2>2. taken' = Cardinality(InFlight') + Spare' /\ taken' <= backfill.concurrency
    <3>1. /\ taken = Cardinality(InFlight) + Spare /\ Cardinality(InFlight) + Spare <= backfill.concurrency
          /\ Cardinality(InFlight) \in Nat \ {0} /\ Spare \in {0, 1}
      BY <1>8, Zenon DEF TokenInv, Spare
    <3> QED
      BY <1>1, <1>8, <2>1, <3>1, TokenBack, Zenon
  <2>3. ASSUME NEW j \in 1..N, j >= next
        PROVE  at'[RunAt(j)] = "idle" /\ entry'[RunAt(j)] = "none"
    <3>1. j # n
      BY <1>9, <2>3
    <3> QED
      BY <1>10, <2>3, <3>1, Zenon DEF TokenInv
  <2> QED
    BY <1>1, <2>1, <2>2, <2>3, ZenonT(20) DEF TokenInv
<1>12. HaltInv'
  BY <1>1, Zenon DEF HaltInv
<1>13. EntryInv'
  <2>1. ASSUME NEW j \in 1..N, j < next
        PROVE  /\ at'[RunAt(j)] = "idle" <=> entry'[RunAt(j)] # "none"
               /\ entry'[RunAt(j)] = "succeeded" => record[RunAt(j)] = "COMPLETED"
    <3>1. CASE j = n
      BY <1>3, <1>5, <1>6, <1>9, <3>1, ZenonT(20)
    <3>2. CASE j # n
      BY <1>10, <2>1, <3>2 DEF EntryInv
    <3> QED
      BY <3>1, <3>2, ZenonT(20)
  <2>2. \A q \in InFlight' : \E j \in 1..N : j < next /\ RunAt(j) = q
    BY <1>7 DEF EntryInv
  <2>3. \A j \in 1..N' : j < next' =>
          /\ at'[RunAt(j)'] = "idle" <=> entry'[RunAt(j)'] # "none"
          /\ entry'[RunAt(j)'] = "succeeded" => record'[RunAt(j)'] = "COMPLETED"
    BY <1>1, <2>1, ZenonT(20)
  <2>4. \A q \in InFlight' : \E j \in 1..N' : j < next' /\ RunAt(j)' = q
    BY <1>1, <2>2, Zenon
  <2> QED
    BY <2>3, <2>4, Zenon DEF EntryInv
<1>14. \A j \in 1..N : (Skipped(j)' <=> Skipped(j)) /\ (Failed(j) => Failed(j)')
  <2> TAKE j \in 1..N
  <2>1. CASE j = n
    <3>1. entry[r] = "none"
      BY <1>1, <1>9, ZenonT(20) DEF EntryInv
    <3>2. entry'[r] # "skipped"
      BY <1>3, <1>6 DEF Results
    <3> QED
      BY <1>1, <1>6, <1>9, <2>1, <3>1, <3>2, ZenonT(20) DEF Skipped, Failed
  <2>2. CASE j # n
    BY <1>1, <1>10, <2>2, ZenonT(20) DEF Skipped, Failed
  <2> QED
    BY <2>1, <2>2
<1>15. SkipInv'
  BY <1>1, <1>14 DEF SkipInv
<1>16. BackfillTypeOK'
  <2>1. taken' \in Nat
    BY <1>1, <1>8 DEF TokenInv, Spare
  <2> QED
    BY <1>1, <1>4, <1>5, <1>6, <2>1, ZenonT(20) DEF BackfillTypeOK, EntryValues, Results
<1> QED
  BY <1>5, <1>11, <1>12, <1>13, <1>15, <1>16 DEF BackfillInv

(* Invocations outside the backfill begin and end. *)
LEMMA OthersKeep ==
  ASSUME BackfillInv, NEW o \in Others, Invoke(o) \/ Answered(o)
  PROVE  BackfillInv'
<1>0. /\ BackfillTypeOK /\ OutcomeInv /\ o \in Invocations /\ o \notin Runs
      /\ outcome \in [Invocations -> Results] /\ slotOf \in [Invocations -> 0..Limit]
  BY DispatchTypes, InvocationTypes, RunsInFlight, InvocationsDistinct
<1> USE <1>0
<1>1. UNCHANGED <<backfill, dispatch, record, lock, slot, setbacks>>
  BY Zenon DEF Invoke, Answered
<1>2. \E l \in {"idle", "get"} : Goes(o, l)
  BY Zenon DEF Invoke, Answered
<1>3. at[o] \in {"idle", "returned"}
  BY Zenon DEF Invoke, Answered
<1>4. /\ slotOf' \in [Invocations -> 0..Limit] /\ outcome' \in [Invocations -> Results]
      /\ outcome'[o] = "none"
      /\ \A j \in Invocations \ {o} : slotOf'[j] = slotOf[j] /\ outcome'[j] = outcome[j]
  <2>1. CASE Invoke(o)
    BY <2>1, Zenon DEF Invoke, OutcomeInv, OutcomeOf
  <2>2. CASE Answered(o)
    BY <2>2, LimitIsNat DEF Answered, Clear, Results
  <2> QED
    BY <2>1, <2>2
<1>5. /\ SlotInv' /\ OutcomeInv' /\ at' \in [Invocations -> Places]
      /\ \A j \in Invocations \ {o} : at'[j] = at[j]
  BY <1>1, <1>2, <1>3, <1>4, EdgeKeeps
<1>6. TokenInv' /\ HaltInv' /\ EntryInv' /\ SkipInv'
  <2>1. \A r \in Runs : at'[r] = at[r] /\ outcome'[r] = outcome[r] /\ record'[r] = record[r]
    BY <1>1, <1>4, <1>5, RunsInFlight, ZenonT(20)
  <2> QED
    BY <1>1, <2>1, DispatchKept, ZenonT(20)
<1>7. BackfillTypeOK'
  BY <1>1, <1>4, <1>5 DEF BackfillTypeOK, dispatch, Results
<1> QED
  BY <1>5, <1>6, <1>7 DEF BackfillInv

(* A dead process leaves no invocation and no slot in its name. *)
LEMMA DieKeeps ==
  ASSUME BackfillInv, NEW S \in SUBSET Invocations, Die(S)
  PROVE  /\ SlotInv' /\ OutcomeInv' /\ at' \in [Invocations -> Places]
         /\ slotOf' \in [Invocations -> 0..Limit] /\ outcome' \in [Invocations -> Results]
         /\ lock' \in [Invocations -> Locks] /\ slot' \in [Slots -> Holders] /\ setbacks' \in Nat
         /\ \A i \in S : at'[i] = "idle"
         /\ \A i \in Invocations \ S : at'[i] = at[i] /\ outcome'[i] = outcome[i]
         /\ UNCHANGED <<backfill, record>>
<1>0. /\ BackfillTypeOK /\ SlotInv /\ OutcomeInv /\ at \in [Invocations -> Places]
      /\ slotOf \in [Invocations -> 0..Limit] /\ outcome \in [Invocations -> Results]
      /\ lock \in [Invocations -> Locks] /\ slot \in [Slots -> Holders] /\ setbacks \in Nat
  BY DispatchTypes, Zenon DEF BackfillTypeOK, Results, Locks, Holders
<1> USE <1>0
<1>1. /\ at' \in [Invocations -> Places] /\ outcome' \in [Invocations -> Results]
      /\ \A i \in S : at'[i] = "idle" /\ outcome'[i] = "none"
      /\ \A i \in Invocations \ S : at'[i] = at[i] /\ outcome'[i] = outcome[i] /\ slotOf'[i] = slotOf[i]
  BY Zenon DEF Die, Places, Results
<1>2. slotOf' \in [Invocations -> 0..Limit] /\ setbacks' \in Nat /\ UNCHANGED <<backfill, record>>
  BY LimitIsNat DEF Die
<1>3. lock' \in [Invocations -> Locks]
  BY Zenon DEF Die, Locks
<1>4. slot' \in [Slots -> Holders] /\ \A k \in Slots : slot'[k] = IF slot[k] \in S THEN "leaked" ELSE slot[k]
  BY Zenon DEF Die, Holders
<1>5. Executing' = Executing \ S
  BY <1>1, Zenon DEF Executing
<1>6. ASSUME NEW i \in Executing' PROVE slotOf'[i] \in Slots /\ slot'[slotOf'[i]] = i
  <2>1. i \in Invocations \ S /\ slotOf[i] \in Slots /\ slot[slotOf[i]] = i
    BY <1>5, Zenon DEF SlotInv, Executing
  <2> QED
    BY <1>1, <1>4, <2>1
<1>7. ASSUME NEW k \in Slots, slot'[k] \in Invocations PROVE slot'[k] \in Executing' /\ slotOf'[slot'[k]] = k
  <2>1. slot'[k] = slot[k] /\ slot[k] \in Invocations \ S
    BY <1>4, <1>7, InvocationsDistinct
  <2>2. slot[k] \in Executing /\ slotOf[slot[k]] = k
    BY <2>1 DEF SlotInv
  <2> QED
    BY <1>1, <1>5, <2>1, <2>2, ZenonT(20)
<1>8. SlotInv'
  BY <1>6, <1>7, Zenon DEF SlotInv
<1>9. OutcomeInv'
  <2> SUFFICES ASSUME NEW i \in Invocations PROVE OutcomeOf(i)'
    BY Zenon DEF OutcomeInv
  <2>1. CASE i \in S
    BY <1>1, <2>1, ZenonT(20) DEF OutcomeOf
  <2>2. CASE i \notin S
    <3>1. OutcomeOf(i) /\ at'[i] = at[i] /\ outcome'[i] = outcome[i] /\ record' = record
      BY <1>1, <1>2, <2>2 DEF OutcomeInv
    <3> QED
      BY <3>1, ZenonT(20) DEF OutcomeOf
  <2> QED
    BY <2>1, <2>2
<1> QED
  BY <1>1, <1>2, <1>3, <1>4, <1>8, <1>9

LEMMA CrashOtherKeeps ==
  ASSUME BackfillInv, NEW o \in Others, CrashOther(o)
  PROVE  BackfillInv'
<1>0. BackfillTypeOK /\ {o} \in SUBSET Invocations /\ o \notin Runs /\ Die({o}) /\ UNCHANGED dispatch
  BY DispatchTypes, RunsInFlight, InvocationsDistinct DEF CrashOther
<1> USE <1>0
<1>1. /\ SlotInv' /\ OutcomeInv' /\ at' \in [Invocations -> Places]
      /\ slotOf' \in [Invocations -> 0..Limit] /\ outcome' \in [Invocations -> Results]
      /\ lock' \in [Invocations -> Locks] /\ slot' \in [Slots -> Holders] /\ setbacks' \in Nat
      /\ \A i \in Invocations \ {o} : at'[i] = at[i] /\ outcome'[i] = outcome[i]
      /\ UNCHANGED <<backfill, record>>
  BY DieKeeps, ZenonT(20)
<1>2. \A r \in Runs : at'[r] = at[r] /\ outcome'[r] = outcome[r] /\ record'[r] = record[r]
  BY <1>1, RunsInFlight, ZenonT(20)
<1>3. TokenInv' /\ HaltInv' /\ EntryInv' /\ SkipInv'
  BY <1>1, <1>2, DispatchKept, Zenon
<1>4. BackfillTypeOK'
  BY <1>1, Zenon DEF BackfillTypeOK, dispatch, Results, Locks, Holders
<1> QED
  BY <1>1, <1>3, <1>4, ZenonT(20) DEF BackfillInv

LEMMA CrashBackfillKeeps ==
  ASSUME BackfillInv, CrashBackfill
  PROVE  BackfillInv'
<1>0. /\ BackfillTypeOK /\ Runs \in SUBSET Invocations /\ Die(Runs)
      /\ N \in Nat /\ \A j \in 1..N : RunAt(j) \in Runs
      /\ backfill.concurrency \in Nat
  BY DispatchTypes, RunsInFlight DEF CrashBackfill
<1> USE <1>0
<1>1. /\ SlotInv' /\ OutcomeInv' /\ at' \in [Invocations -> Places]
      /\ slotOf' \in [Invocations -> 0..Limit] /\ outcome' \in [Invocations -> Results]
      /\ lock' \in [Invocations -> Locks] /\ slot' \in [Slots -> Holders] /\ setbacks' \in Nat
      /\ \A r \in Runs : at'[r] = "idle"
      /\ UNCHANGED <<backfill, record>>
  BY DieKeeps
<1>2. /\ loop' = "select" /\ next' = 1 /\ taken' = 0 /\ halted' = FALSE /\ late' = 0
      /\ entry' = [r \in Runs |-> "none"]
  BY Zenon DEF CrashBackfill
<1>3. N' = N /\ \A j \in 1..N : RunAt(j)' = RunAt(j)
  BY <1>1 DEF N, RunAt
<1>4. InFlight' = {} /\ Spare' = 0
  BY <1>1, <1>2 DEF InFlight, Spare
<1>5. TokenInv'
  <2>1. \A j \in 1..N : at'[RunAt(j)] = "idle" /\ entry'[RunAt(j)] = "none"
    BY <1>1, <1>2
  <2>2. Cardinality(InFlight') = 0
    BY <1>4, FS_EmptySet
  <2> QED
    BY <1>1, <1>2, <1>3, <1>4, <2>1, <2>2 DEF TokenInv
<1>6. HaltInv'
  BY <1>2 DEF HaltInv
<1>7. EntryInv'
  <2>1. \A j \in 1..N : ~ (j < 1)
    OBVIOUS
  <2>2. \A j \in 1..N' : ~ (j < next')
    BY <1>2, <1>3, <2>1, Zenon
  <2> QED
    BY <1>4, <2>2, Zenon DEF EntryInv
<1>8. SkipInv'
  BY <1>2, <1>3 DEF SkipInv, Skipped
<1>9. BackfillTypeOK'
  BY <1>1, <1>2, ZenonT(20) DEF BackfillTypeOK, Results, Locks, Holders
<1> QED
  BY <1>1, <1>5, <1>6, <1>7, <1>8, <1>9 DEF BackfillInv

LEMMA FreeSlotKeeps ==
  ASSUME BackfillInv, NEW k \in Slots, FreeSlot(k)
  PROVE  BackfillInv'
<1>0. BackfillTypeOK /\ SlotInv /\ OutcomeInv /\ slot \in [Slots -> Holders]
  BY DispatchTypes DEF BackfillTypeOK, Holders
<1> USE <1>0
<1>1. /\ slot[k] = "leaked" /\ slot' = [slot EXCEPT ![k] = "free"]
      /\ UNCHANGED <<backfill, dispatch, at, slotOf, outcome, record, lock, setbacks>>
  BY Zenon DEF FreeSlot
<1>2. slot' \in [Slots -> Holders] /\ slot'[k] = "free" /\ \A h \in Slots \ {k} : slot'[h] = slot[h]
  BY <1>1 DEF Holders
<1>3. Executing' = Executing
  BY <1>1, Zenon DEF Executing
<1>4. ASSUME NEW i \in Executing PROVE slotOf[i] \in Slots /\ slot'[slotOf[i]] = i
  <2>1. slotOf[i] \in Slots /\ slot[slotOf[i]] = i /\ i \in Invocations
    BY Zenon DEF SlotInv, Executing
  <2>2. slotOf[i] # k
    BY <1>1, <2>1, InvocationsDistinct
  <2> QED
    BY <1>2, <2>1, <2>2
<1>5. ASSUME NEW h \in Slots, slot'[h] \in Invocations PROVE slot'[h] \in Executing /\ slotOf[slot'[h]] = h
  <2>1. h # k
    BY <1>2, <1>5, InvocationsDistinct
  <2> QED
    BY <1>2, <1>5, <2>1 DEF SlotInv
<1>6. SlotInv'
  BY <1>1, <1>3, <1>4, <1>5 DEF SlotInv
<1>7. TokenInv' /\ HaltInv' /\ EntryInv' /\ SkipInv'
  BY <1>1, DispatchKept
<1>8. OutcomeInv'
  BY <1>1, Zenon DEF OutcomeInv, OutcomeOf
<1>9. BackfillTypeOK'
  BY <1>1, <1>2 DEF BackfillTypeOK, dispatch, Holders
<1> QED
  BY <1>6, <1>7, <1>8, <1>9 DEF BackfillInv

LEMMA FreeLockKeeps ==
  ASSUME BackfillInv, NEW i \in Invocations,
         FreeLock(i) \/ UNCHANGED <<backfill, dispatch, at, slotOf, outcome, record, lock, slot, setbacks>>
  PROVE  BackfillInv'
<1>0. BackfillTypeOK /\ SlotInv /\ OutcomeInv /\ lock \in [Invocations -> Locks]
  BY DispatchTypes DEF BackfillTypeOK, Locks
<1> USE <1>0
<1>1. UNCHANGED <<backfill, dispatch, at, slotOf, outcome, record, slot, setbacks>>
  BY Zenon DEF FreeLock
<1>2. lock' \in [Invocations -> Locks]
  BY Zenon DEF FreeLock, Locks
<1>3. SlotInv'
  BY <1>1, SlotsKept, ZenonT(20) DEF Executing
<1>4. TokenInv' /\ HaltInv' /\ EntryInv' /\ SkipInv'
  BY <1>1, DispatchKept
<1>5. OutcomeInv'
  BY <1>1, ZenonT(20) DEF OutcomeInv, OutcomeOf
<1>6. BackfillTypeOK'
  BY <1>1, <1>2 DEF BackfillTypeOK, dispatch, Locks
<1> QED
  BY <1>3, <1>4, <1>5, <1>6 DEF BackfillInv

LEMMA BackfillStep == BackfillInv /\ [BackfillNext]_backfillVars => BackfillInv'
<1> SUFFICES ASSUME BackfillInv, [BackfillNext]_backfillVars PROVE BackfillInv'
  OBVIOUS
<1>1. ASSUME NEW i \in Invocations, RunInvocation(i) PROVE BackfillInv'
  BY <1>1, GetWorkflowKeeps, LockRunKeeps, acquireConcurrencySlotKeeps, PutInProgressKeeps, BodyKeeps,
     releaseConcurrencySlotKeeps, UnlockRunKeeps DEF RunInvocation
<1>2. CASE CallBackfill \/ Dispatching
  BY <1>2, TurnsKeep, SpawnKeeps DEF Dispatching
<1>3. ASSUME NEW r \in Runs, Finishing(r) PROVE BackfillInv'
  BY <1>3, CloseHaltKeeps, ReturnTokenKeeps DEF Finishing
<1>4. ASSUME NEW o \in Others, Invoke(o) \/ Answered(o) \/ CrashOther(o) PROVE BackfillInv'
  BY <1>4, OthersKeep, CrashOtherKeeps
<1>5. CASE CrashBackfill
  BY <1>5, CrashBackfillKeeps
<1>6. CASE UNCHANGED backfillVars
  <2>0. BackfillTypeOK /\ SlotInv /\ OutcomeInv
    BY DispatchTypes, Zenon
  <2>1. UNCHANGED <<backfill, dispatch, at, slotOf, outcome, record, lock, slot, setbacks>>
    BY <1>6, Zenon DEF backfillVars
  <2>2. TokenInv' /\ HaltInv' /\ EntryInv' /\ SkipInv'
    BY <2>1, DispatchKept
  <2>3. SlotInv'
    BY <2>0, <2>1, SlotsKept DEF Executing
  <2>4. OutcomeInv' /\ BackfillTypeOK'
    BY <2>0, <2>1, Zenon DEF OutcomeInv, OutcomeOf, BackfillTypeOK, dispatch
  <2> QED
    BY <2>2, <2>3, <2>4 DEF BackfillInv
<1> QED
  BY <1>1, <1>2, <1>3, <1>4, <1>5, <1>6, FreeSlotKeeps, FreeLockKeeps DEF BackfillNext

LEMMA BackfillAlways == BackfillSpec => []BackfillInv
  BY BackfillStarts, BackfillStep, PTL DEF BackfillSpec

(* No more than concurrency_limit bodies run under a key, and no slot is     *)
(* lost but to a crash or a failed call, for every limit, every number of    *)
(* invocations and any number of failures.                                   *)
THEOREM SlotsAreBounded == BackfillSpec => []SlotsBounded
<1>1. BackfillInv => SlotsBounded
  <2> SUFFICES ASSUME BackfillInv PROVE SlotsBounded
    OBVIOUS
  <2>1. BackfillTypeOK /\ SlotInv /\ slot \in [Slots -> Holders]
    BY DispatchTypes DEF BackfillTypeOK, Holders
  <2>2. Cardinality(Executing) <= Limit
    BY <2>1, SlotsSuffice
  <2>3. \A k \in Slots : slot[k] \in {"free", "leaked"} \cup Executing
    BY <2>1 DEF SlotInv, Holders
  <2> QED
    BY <2>1, <2>2, <2>3 DEF SlotsBounded
<1> QED
  BY <1>1, BackfillAlways, PTL

(* Backfill keeps to options.concurrency, and dispatches at most one run     *)
(* after the failure that halts it, none with concurrency 1; for every list  *)
(* of runs, every concurrency and any number of crashes.                     *)
THEOREM BackfillIsBounded == BackfillSpec => []BackfillBounded
<1>1. BackfillInv => BackfillBounded
  <2> SUFFICES ASSUME BackfillInv PROVE BackfillBounded
    OBVIOUS
  <2>1. /\ TokenInv /\ HaltInv /\ Cardinality(InFlight) \in Nat
        /\ backfill.concurrency \in Nat \ {0} /\ taken \in Nat
    BY DispatchTypes, Zenon
  <2>2. Cardinality(InFlight) <= backfill.concurrency
    BY <2>1 DEF TokenInv, Spare
  <2>3. late <= 1 /\ late < backfill.concurrency
    BY <2>1 DEF HaltInv
  <2> QED
    BY <2>2, <2>3 DEF BackfillBounded, InFlight
<1> QED
  BY <1>1, BackfillAlways, PTL

(* The report of a backfill is complete and true, whatever its invocations   *)
(* returned and in whatever order.                                           *)
THEOREM ReportsAreTrue == BackfillSpec => []ReportIsTrue
<1>1. BackfillInv => ReportIsTrue
  <2> SUFFICES ASSUME BackfillInv, loop = "done" PROVE ReportIsTrue
    BY Zenon DEF ReportIsTrue
  <2>1. /\ TokenInv /\ EntryInv /\ SkipInv /\ N \in Nat /\ \A i \in 1..N : RunAt(i) \in Runs
        /\ at \in [Invocations -> Places]
    BY DispatchTypes
  <2>2. next = N + 1 /\ \A r \in Runs : at[r] = "idle"
    BY <2>1, Zenon DEF TokenInv, InFlight
  <2>3. \A i \in 1..N : i < next /\ ~(at[RunAt(i)] = "returned")
    BY <2>1, <2>2
  <2>4. \A i \in 1..N : Failed(i) <=> entry[RunAt(i)] = "failed"
    BY <2>3, Zenon DEF Failed
  <2>5. ASSUME NEW i \in 1..N
        PROVE  /\ entry[RunAt(i)] # "none"
               /\ entry[RunAt(i)] = "succeeded" => record[RunAt(i)] = "COMPLETED"
    BY <2>1, <2>2, <2>3 DEF EntryInv
  <2>6. ASSUME NEW i \in 1..N, entry[RunAt(i)] = "skipped"
        PROVE  /\ \E j \in 1..(i - 1) : entry[RunAt(j)] = "failed"
               /\ \A j \in i..N : entry[RunAt(j)] = "skipped"
    <3>1. Skipped(i)
      BY <2>6, Zenon DEF Skipped
    <3>2. PICK j \in 1..N : j < i /\ Failed(j)
      BY <2>1, <3>1 DEF SkipInv
    <3>3. j \in 1..(i - 1) /\ entry[RunAt(j)] = "failed"
      BY <2>1, <2>4, <3>2
    <3>4. ASSUME NEW h \in i..N PROVE entry[RunAt(h)] = "skipped"
      <4>1. h \in 1..N /\ i <= h /\ h < next
        BY <2>1, <2>2
      <4>2. Skipped(h)
        BY <2>1, <3>1, <4>1 DEF SkipInv
      <4> QED
        BY <4>2, Zenon DEF Skipped
    <3> QED
      BY <3>3, <3>4
  <2> DEFINE status == [i \in 1..N |-> entry[backfill.runIDs[i]]]
  <2>7. \A i \in 1..N : status[i] = entry[RunAt(i)] /\ backfill.runIDs[i] = RunAt(i)
    BY Zenon DEF RunAt
  <2> HIDE DEF status
  <2>8. ASSUME NEW i \in 1..N
        PROVE  /\ status[i] # "none"
               /\ status[i] = "succeeded" => record[backfill.runIDs[i]] = "COMPLETED"
               /\ status[i] = "skipped" => /\ \E j \in 1..(i - 1) : status[j] = "failed"
                                           /\ \A j \in i..N : status[j] = "skipped"
    <3>1. \A j \in 1..(i - 1) : j \in 1..N
      BY <2>1
    <3>2. \A j \in i..N : j \in 1..N
      BY <2>1
    <3>3. ASSUME status[i] = "skipped" PROVE \E j \in 1..(i - 1) : status[j] = "failed"
      BY <2>6, <2>7, <3>1, <3>3
    <3>4. ASSUME status[i] = "skipped", NEW j \in i..N PROVE status[j] = "skipped"
      BY <2>6, <2>7, <3>2, <3>4
    <3> QED
      BY <2>5, <2>7, <3>3, <3>4
  <2> QED
    BY <2>8, Zenon DEF ReportIsTrue, status
<1> QED
  BY <1>1, BackfillAlways, PTL
=============================================================================
