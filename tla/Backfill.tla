------------------------------ MODULE Backfill ------------------------------
(***************************************************************************)
(* Backfill (adapters/go/backfill) over a list of runs: the dispatch loop, *)
(* its semaphore and halt channel, and one goroutine per dispatched run.   *)
(* Every invocation is a Run under a concurrency key (core/go/workflow/    *)
(* concurrency.go): before it writes anything it takes the execution claim *)
(* of its run and one of Limit slots, all of them create-only claims       *)
(* (adapters/go/gocdkclaims), and gives both back on every exit.  Others   *)
(* are invocations of further runs, by other processes, under the same     *)
(* key.  The process of the backfill may crash and the backfill is then    *)
(* started again.                                                          *)
(***************************************************************************)
EXTENDS Naturals, Sequences, FiniteSets

CONSTANTS
  Runs,      \* runs that a backfill may name
  Others,    \* invocations outside the backfill
  Limit,     \* concurrency_limit
  Backfills  \* the calls of Backfill considered

Invocations == Runs \cup Others
Slots == 0..(Limit - 1)

(* A call: its runIDs and options, who else runs meanwhile, and a bound on   *)
(* failed store calls and crashes.                                           *)
ASSUME RunsAreFinite == IsFiniteSet(Invocations)
ASSUME CallsAreSound ==
  \A c \in Backfills :
    /\ DOMAIN c = {"runIDs", "concurrency", "halt", "others", "setbacks"}
    /\ c.runIDs \in Seq(Runs)
    /\ \A i, j \in DOMAIN c.runIDs : c.runIDs[i] = c.runIDs[j] => i = j
    /\ c.concurrency \in Nat \ {0} /\ c.halt \in BOOLEAN
    /\ c.others \subseteq Others /\ c.setbacks \in Nat
ASSUME InvocationsDistinct ==
  Runs \cap Others = {} /\ Invocations \cap {"free", "leaked"} = {}
ASSUME LimitIsNat == Limit \in Nat

VARIABLES
  backfill,  \* the call, fixed
  loop,      \* where the dispatch loop stands
  next,      \* index of the run it dispatches next
  taken,     \* tokens in sem
  halted,    \* halt is closed
  late,      \* runs dispatched after halt was closed
  entry,     \* the report
  at,        \* where each invocation stands
  slotOf,    \* the slot each invocation tries or holds
  outcome,   \* what each invocation returns
  record,    \* stored status of each run
  lock,      \* the execution claim of each run: "free", "leaked" or "held"
  slot,      \* the slot claims: "free", "leaked" or the invocation that holds it
  setbacks

dispatch == <<loop, next, taken, halted, late, entry>>
backfillVars == <<backfill, dispatch, at, slotOf, outcome, record, lock, slot, setbacks>>

N == Len(backfill.runIDs)

BackfillInit ==
  /\ backfill \in Backfills
  /\ loop = "idle" /\ next = 1 /\ taken = 0 /\ halted = FALSE /\ late = 0
  /\ entry = [r \in Runs |-> "none"]
  /\ at = [i \in Invocations |-> "idle"]
  /\ slotOf = [i \in Invocations |-> 0]
  /\ outcome = [i \in Invocations |-> "none"]
  /\ record = [i \in Invocations |-> "none"]
  /\ lock = [i \in Invocations |-> "free"]
  /\ slot = [k \in Slots |-> "free"]
  /\ setbacks = 0

Goes(i, l) == at' = [at EXCEPT ![i] = l]
Returns(i, o) == outcome' = [outcome EXCEPT ![i] = o]

(* A store call succeeds, fails after it was applied, or fails. *)
Applied == {"ok", "lost", "failed"}

Suffer(o) ==
  /\ o # "ok" => setbacks < backfill.setbacks
  /\ setbacks' = IF o = "ok" THEN setbacks ELSE setbacks + 1

(* isPendingError on the error of a store: the ConnectRPC codes of a remote  *)
(* store count as pending, anything else as a failure.                       *)
isPendingError == {"pending", "failed"}

-----------------------------------------------------------------------------
(* The dispatch loop                                                        *)

CallBackfill ==
  /\ loop = "idle" /\ loop' = "select"
  /\ UNCHANGED <<backfill, next, taken, halted, late, entry, at, slotOf, outcome, record, lock, slot,
                 setbacks>>

(* Reported as pending, without an error. *)
Skip ==
  /\ entry' = [entry EXCEPT ![backfill.runIDs[next]] = "skipped"]
  /\ next' = next + 1

(* select: halt is closed, or there is room in the semaphore; either, when   *)
(* both are ready.                                                           *)
SelectHalt ==
  /\ loop = "select" /\ next \in 1..N /\ halted
  /\ Skip
  /\ UNCHANGED <<backfill, loop, taken, halted, late, at, slotOf, outcome, record, lock, slot, setbacks>>

SelectToken ==
  /\ loop = "select" /\ next \in 1..N /\ taken < backfill.concurrency
  /\ taken' = taken + 1
  /\ loop' = "check"
  /\ UNCHANGED <<backfill, next, halted, late, entry, at, slotOf, outcome, record, lock, slot, setbacks>>

(* Mutant of CheckHalt: halt is not looked at again. *)
CheckHaltSkipped ==
  /\ loop = "check"
  /\ loop' = "spawn"
  /\ UNCHANGED <<backfill, next, taken, halted, late, entry, at, slotOf, outcome, record, lock, slot,
                 setbacks>>

(* halt may have closed during the wait for the semaphore. *)
CheckHalt ==
  /\ loop = "check"
  /\ IF halted
       THEN Skip /\ taken' = taken - 1 /\ loop' = "select"
       ELSE UNCHANGED <<entry, next, taken>> /\ loop' = "spawn"
  /\ UNCHANGED <<backfill, halted, late, at, slotOf, outcome, record, lock, slot, setbacks>>

Spawn ==
  /\ loop = "spawn"
  /\ Goes(backfill.runIDs[next], "get")
  /\ late' = IF halted THEN late + 1 ELSE late
  /\ next' = next + 1
  /\ loop' = "select"
  /\ UNCHANGED <<backfill, taken, halted, entry, slotOf, outcome, record, lock, slot, setbacks>>

(* wg.Wait *)
Report ==
  /\ loop = "select" /\ next = N + 1
  /\ \A r \in Runs : at[r] = "idle"
  /\ loop' = "done"
  /\ UNCHANGED <<backfill, next, taken, halted, late, entry, at, slotOf, outcome, record, lock, slot,
                 setbacks>>

-----------------------------------------------------------------------------
(* One invocation of Run                                                    *)

(* A terminal record is replayed without a slot. *)
GetWorkflow(i) ==
  /\ at[i] = "get"
  /\ \/ /\ record[i] \in {"COMPLETED", "FAILED"}
        /\ Returns(i, IF record[i] = "COMPLETED" THEN "succeeded" ELSE "failed")
        /\ Goes(i, "returned")
        /\ UNCHANGED setbacks
     \/ /\ record[i] \in {"none", "IN_PROGRESS"}
        /\ Goes(i, "lock")
        /\ UNCHANGED <<outcome, setbacks>>
     \/ /\ Suffer("failed")
        /\ \E o \in isPendingError : Returns(i, o)
        /\ Goes(i, "returned")
  /\ UNCHANGED <<backfill, dispatch, slotOf, record, lock, slot>>

(* The execution claim.  Nobody else invokes this run, so only a claim left  *)
(* by a crash or a failed call is in the way (ClaimBusyError).  The record   *)
(* is read again under the claim.                                            *)
LockRun(i) ==
  /\ at[i] = "lock"
  /\ \/ /\ lock[i] = "leaked"
        /\ Returns(i, "pending") /\ Goes(i, "returned")
        /\ UNCHANGED <<slotOf, lock, setbacks>>
     \/ /\ lock[i] = "free"
        /\ \E o \in Applied :
             /\ Suffer(o)
             /\ lock' = [lock EXCEPT ![i] =
                  CASE o = "ok" -> "held" [] o = "lost" -> "leaked" [] OTHER -> "free"]
             /\ IF o = "ok"
                  THEN Goes(i, "acquire") /\ UNCHANGED outcome
                  ELSE Goes(i, "returned") /\ \E e \in isPendingError : Returns(i, e)
        /\ slotOf' = [slotOf EXCEPT ![i] = 0]
     \/ /\ lock[i] = "free" /\ Suffer("failed")
        /\ lock' = [lock EXCEPT ![i] = "held"]
        /\ Goes(i, "unlock") /\ \E e \in isPendingError : Returns(i, e)
        /\ UNCHANGED slotOf
  /\ UNCHANGED <<backfill, dispatch, record, slot>>

(* Mutant of acquireConcurrencySlot: a slot found taken is used. *)
acquireConcurrencySlotShared(i) ==
  /\ at[i] = "acquire" /\ slotOf[i] \in Slots
  /\ slot' = [slot EXCEPT ![slotOf[i]] = i]
  /\ Goes(i, "begin")
  /\ UNCHANGED <<backfill, dispatch, slotOf, outcome, record, lock, setbacks>>

(* One TryCreateClaim of acquireConcurrencySlot: slot 0 first, the next one  *)
(* when it is taken, ConcurrencyBusyError after the last.  A create whose    *)
(* answer is lost leaves a slot nobody knows to be his.                      *)
acquireConcurrencySlot(i) ==
  LET k == slotOf[i]
  IN
  /\ at[i] = "acquire"
  /\ \/ /\ k = Limit
        /\ Returns(i, "pending") /\ Goes(i, "unlock")
        /\ UNCHANGED <<slotOf, slot, setbacks>>
     \/ /\ k \in Slots /\ slot[k] # "free"
        /\ slotOf' = [slotOf EXCEPT ![i] = k + 1]
        /\ UNCHANGED <<at, outcome, slot, setbacks>>
     \/ /\ k \in Slots /\ slot[k] = "free"
        /\ \E o \in Applied :
             /\ Suffer(o)
             /\ slot' = [slot EXCEPT ![k] =
                  CASE o = "ok" -> i [] o = "lost" -> "leaked" [] OTHER -> "free"]
             /\ IF o = "ok"
                  THEN Goes(i, "begin") /\ UNCHANGED outcome
                  ELSE Goes(i, "unlock") /\ \E e \in isPendingError : Returns(i, e)
        /\ UNCHANGED slotOf
  /\ UNCHANGED <<backfill, dispatch, record, lock>>

(* PutWorkflow(IN_PROGRESS), for a run without a record. *)
PutInProgress(i) ==
  /\ at[i] = "begin"
  /\ \E o \in IF record[i] = "none" THEN Applied ELSE {"ok"} :
       /\ Suffer(o)
       /\ record' = [record EXCEPT ![i] = IF o = "failed" THEN @ ELSE "IN_PROGRESS"]
       /\ IF o = "ok" THEN Goes(i, "body") /\ UNCHANGED outcome
                      ELSE Goes(i, "release") /\ \E e \in isPendingError : Returns(i, e)
  /\ UNCHANGED <<backfill, dispatch, slotOf, lock, slot>>

(* Mutant of Body: the error of the terminal write is dropped. *)
BodyUnstored(i) ==
  /\ at[i] = "body"
  /\ \E o \in Applied :
       /\ Suffer(o)
       /\ record' = [record EXCEPT ![i] = IF o = "failed" THEN @ ELSE "COMPLETED"]
  /\ Returns(i, "succeeded")
  /\ Goes(i, "release")
  /\ UNCHANGED <<backfill, dispatch, slotOf, lock, slot>>

(* The body returns.  Its annotations are persisted when it is pending, a    *)
(* terminal record otherwise.                                                *)
Body(i) ==
  /\ at[i] = "body"
  /\ \/ \E o \in Applied :
          /\ Suffer(o)
          /\ \E e \in IF o = "ok" THEN {"pending"} ELSE isPendingError : Returns(i, e)
          /\ UNCHANGED record
     \/ \E s \in {"COMPLETED", "FAILED"}, o \in Applied :
          /\ Suffer(o)
          /\ record' = [record EXCEPT ![i] = IF o = "failed" THEN @ ELSE s]
          /\ IF o = "ok" THEN Returns(i, IF s = "COMPLETED" THEN "succeeded" ELSE "failed")
                         ELSE \E e \in isPendingError : Returns(i, e)
  /\ Goes(i, "release")
  /\ UNCHANGED <<backfill, dispatch, slotOf, lock, slot>>

(* A deferred DeleteClaim.  Its error is joined to the outcome, which stays  *)
(* pending only if either is.                                                *)
Deferred(i, o) ==
  /\ Suffer(o)
  /\ IF o = "ok" \/ outcome[i] = "pending"
       THEN UNCHANGED outcome
       ELSE \E e \in isPendingError : Returns(i, e)

releaseConcurrencySlot(i) ==
  /\ at[i] = "release"
  /\ \E o \in Applied :
       /\ Deferred(i, o)
       /\ slot' = [slot EXCEPT ![slotOf[i]] = IF o = "failed" THEN "leaked" ELSE "free"]
  /\ Goes(i, "unlock")
  /\ UNCHANGED <<backfill, dispatch, slotOf, record, lock>>

UnlockRun(i) ==
  /\ at[i] = "unlock"
  /\ \E o \in Applied :
       /\ Deferred(i, o)
       /\ lock' = [lock EXCEPT ![i] = IF o = "failed" THEN "leaked" ELSE "free"]
  /\ Goes(i, "returned")
  /\ UNCHANGED <<backfill, dispatch, slotOf, record, slot>>

-----------------------------------------------------------------------------
(* What becomes of the outcome                                              *)

Clear(i) ==
  /\ slotOf' = [slotOf EXCEPT ![i] = 0]
  /\ outcome' = [outcome EXCEPT ![i] = "none"]

(* closeHalt, before the failed run gives its token back. *)
CloseHalt(r) ==
  /\ at[r] = "returned" /\ outcome[r] = "failed" /\ backfill.halt /\ ~halted
  /\ halted' = TRUE
  /\ UNCHANGED <<backfill, loop, next, taken, late, entry, at, slotOf, outcome, record, lock, slot,
                 setbacks>>

(* Mutant of ReturnToken: only a run that succeeded gives its token back. *)
ReturnTokenIfSucceeded(r) ==
  /\ at[r] = "returned" /\ (outcome[r] = "failed" /\ backfill.halt => halted)
  /\ entry' = [entry EXCEPT ![r] = outcome[r]]
  /\ taken' = IF outcome[r] = "succeeded" THEN taken - 1 ELSE taken
  /\ Goes(r, "idle") /\ Clear(r)
  /\ UNCHANGED <<backfill, loop, next, halted, late, record, lock, slot, setbacks>>

(* The goroutine writes its entry and gives back its token. *)
ReturnToken(r) ==
  /\ at[r] = "returned" /\ (outcome[r] = "failed" /\ backfill.halt => halted)
  /\ entry' = [entry EXCEPT ![r] = outcome[r]]
  /\ taken' = taken - 1
  /\ Goes(r, "idle") /\ Clear(r)
  /\ UNCHANGED <<backfill, loop, next, halted, late, record, lock, slot, setbacks>>

(* Invocations by others. *)
Invoke(o) ==
  /\ o \in backfill.others /\ loop # "idle"
  /\ at[o] = "idle" /\ record[o] \in {"none", "IN_PROGRESS"}
  /\ Goes(o, "get")
  /\ UNCHANGED <<backfill, dispatch, slotOf, outcome, record, lock, slot, setbacks>>

Answered(o) ==
  /\ at[o] = "returned"
  /\ Goes(o, "idle") /\ Clear(o)
  /\ UNCHANGED <<backfill, dispatch, record, lock, slot, setbacks>>

(* A process dies with the invocations in S and leaks their claims. *)
Die(S) ==
  /\ setbacks < backfill.setbacks /\ setbacks' = setbacks + 1
  /\ at' = [i \in Invocations |-> IF i \in S THEN "idle" ELSE at[i]]
  /\ slotOf' = [i \in Invocations |-> IF i \in S THEN 0 ELSE slotOf[i]]
  /\ outcome' = [i \in Invocations |-> IF i \in S THEN "none" ELSE outcome[i]]
  /\ lock' = [i \in Invocations |-> IF i \in S /\ lock[i] = "held" THEN "leaked" ELSE lock[i]]
  /\ slot' = [k \in Slots |-> IF slot[k] \in S THEN "leaked" ELSE slot[k]]
  /\ UNCHANGED <<backfill, record>>

CrashOther(o) == at[o] # "idle" /\ Die({o}) /\ UNCHANGED dispatch

(* The backfill dies, and is started again over the same run_ids. *)
CrashBackfill ==
  /\ loop \notin {"idle", "done"}
  /\ Die(Runs)
  /\ loop' = "select" /\ next' = 1 /\ taken' = 0 /\ halted' = FALSE /\ late' = 0
  /\ entry' = [r \in Runs |-> "none"]

(* An operator deletes a claim after verifying that its holder is gone. *)
FreeSlot(k) ==
  /\ slot[k] = "leaked"
  /\ slot' = [slot EXCEPT ![k] = "free"]
  /\ UNCHANGED <<backfill, dispatch, at, slotOf, outcome, record, lock, setbacks>>

FreeLock(i) ==
  /\ lock[i] = "leaked" /\ at[i] = "idle"
  /\ lock' = [lock EXCEPT ![i] = "free"]
  /\ UNCHANGED <<backfill, dispatch, at, slotOf, outcome, record, slot, setbacks>>

-----------------------------------------------------------------------------
Dispatching == SelectHalt \/ SelectToken \/ CheckHalt \/ Spawn \/ Report

RunInvocation(i) ==
  \/ GetWorkflow(i) \/ LockRun(i) \/ acquireConcurrencySlot(i) \/ PutInProgress(i) \/ Body(i)
  \/ releaseConcurrencySlot(i) \/ UnlockRun(i)

Finishing(r) == CloseHalt(r) \/ ReturnToken(r)

BackfillNext ==
  \/ CallBackfill \/ Dispatching
  \/ \E i \in Invocations : RunInvocation(i)
  \/ \E r \in Runs : Finishing(r)
  \/ \E o \in Others : Invoke(o) \/ Answered(o) \/ CrashOther(o)
  \/ CrashBackfill
  \/ \E k \in Slots : FreeSlot(k)
  \/ \E i \in Invocations : FreeLock(i)

BackfillSpec == BackfillInit /\ [][BackfillNext]_backfillVars

(* The loop and its goroutines keep running, bodies return. *)
BackfillFairness ==
  /\ WF_backfillVars(Dispatching)
  /\ \A r \in Runs : WF_backfillVars(RunInvocation(r) \/ Finishing(r))

BackfillFairSpec == BackfillSpec /\ BackfillFairness

-----------------------------------------------------------------------------
Places == {"idle", "get", "lock", "acquire", "begin", "body", "release", "unlock", "returned"}

(* Types of the report, of the invocations and of the stored slots. *)
BackfillTypeOK ==
  /\ backfill \in Backfills
  /\ loop \in {"idle", "select", "check", "spawn", "done"}
  /\ next \in Nat /\ taken \in Nat /\ halted \in BOOLEAN /\ late \in Nat
  /\ entry \in [Runs -> {"none", "succeeded", "failed", "pending", "skipped"}]
  /\ at \in [Invocations -> Places]
  /\ slotOf \in [Invocations -> 0..Limit]
  /\ outcome \in [Invocations -> {"none", "succeeded", "failed", "pending"}]
  /\ record \in [Invocations -> {"none", "IN_PROGRESS", "COMPLETED", "FAILED"}]
  /\ lock \in [Invocations -> {"free", "held", "leaked"}]
  /\ slot \in [Slots -> {"free", "leaked"} \cup Invocations]
  /\ setbacks \in Nat

Executing == {i \in Invocations : at[i] \in {"begin", "body", "release"}}

(* No more than concurrency_limit bodies run under the key, in all processes *)
(* together, through failed and ambiguous claim calls, crashes and the       *)
(* clean-up of leaked slots.  And no capacity is lost silently: a slot that  *)
(* is neither free nor leaked by a crash or a failed call belongs to an      *)
(* invocation between acquire and release, for every exit of Run gives its   *)
(* slot back.                                                                *)
SlotsBounded ==
  /\ BackfillTypeOK
  /\ Cardinality(Executing) <= Limit
  /\ \A k \in Slots : slot[k] \in {"free", "leaked"} \cup Executing

(* Backfill keeps at most options.concurrency invocations in flight, and     *)
(* after the failure that closes halt at most the one run that is already    *)
(* past the second check is still dispatched; with concurrency 1, none.      *)
BackfillBounded ==
  /\ Cardinality({r \in Runs : at[r] # "idle"}) <= backfill.concurrency
  /\ late <= 1 /\ late < backfill.concurrency

(* The report is complete and true: a run is called succeeded only with its  *)
(* COMPLETED record stored, and runs are skipped only behind a failure, from *)
(* some run to the end of the list.                                          *)
ReportIsTrue ==
  loop = "done" =>
    LET status == [i \in 1..N |-> entry[backfill.runIDs[i]]]
    IN  \A i \in 1..N :
          /\ status[i] # "none"
          /\ status[i] = "succeeded" => record[backfill.runIDs[i]] = "COMPLETED"
          /\ status[i] = "skipped" => /\ \E j \in 1..(i - 1) : status[j] = "failed"
                                     /\ \A j \in i..N : status[j] = "skipped"

(* Backfill returns, whatever the invocations return, as long as their       *)
(* bodies do.                                                                *)
BackfillReturns == loop = "select" ~> loop = "done"
=============================================================================
