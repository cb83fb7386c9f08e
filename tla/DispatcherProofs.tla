-------------------------- MODULE DispatcherProofs --------------------------
(***************************************************************************)
(* Proofs, for any finite number of DoAsync calls, any number of Shutdown  *)
(* calls and any capacity, that the dispatcher's counters are safe, that a *)
(* Shutdown that returns nil has drained everything and that the tracker   *)
(* never revises an outcome.                                               *)
(*                                                                         *)
(* The inductive invariant has three parts.  CountInv ties activeSubmis-   *)
(* sions, the semaphore and the WaitGroup to the calls they count.  SubInv *)
(* says what the tracker knows of a task at every point of its submission  *)
(* and of its goroutine.  CallerInv says what a Shutdown call has          *)
(* established in each phase; it rests on one call performing the          *)
(* shutdown, and on closed keeping active and then wg at zero.             *)
(***************************************************************************)
EXTENDS Dispatcher, FiniteSetTheorems, TLAPS

(* Submissions that are, by f, at one of the places P. *)
In(f, P) == {s \in Subs : f[s] \in P}

SubPlaces == {"idle", "refused", "pending", "submit", "parked", "launch", "failing", "finish",
              "finishFailed", "returned"}
HandlerPlaces == {"none", "launched", "running", "release", "leaving", "ended"}
TaskStates == {"none", "PENDING", "RUNNING", "evicted"} \cup Settled

ActiveAt == {"submit", "parked", "launch", "failing", "finish", "finishFailed"}
LaunchAt == {"launch"}
CountedAt == {"launched", "running", "release", "leaving"}
RunningAt == {"launched", "running", "release"}

CountInv ==
  /\ active = Cardinality(In(sub, ActiveAt))
  /\ wg = Cardinality(In(handler, CountedAt))
  /\ MaxInflight > 0 => /\ sem = Cardinality(In(handler, RunningAt)) + Cardinality(In(sub, LaunchAt))
                        /\ sem <= MaxInflight
  /\ MaxInflight = 0 => sem = 0

Early == {"pending", "submit", "parked", "launch", "failing"}

SubInv(s) ==
  /\ sub[s] = "idle" => task[s] = "none"
  /\ sub[s] \in Early => task[s] = "PENDING"
  /\ handler[s] # "none" => sub[s] \in {"finish", "returned"}
  /\ handler[s] = "launched" => task[s] = "PENDING"
  /\ handler[s] = "running" => task[s] = "RUNNING"
  /\ task[s] \in {"PENDING", "RUNNING"} =>
       sub[s] \in Early \/ handler[s] \in {"launched", "running"} \/ queue = "external"

SubTypes ==
  /\ queue \in Queues /\ woken \in BOOLEAN
  /\ sub \in [Subs -> SubPlaces]
  /\ handler \in [Subs -> HandlerPlaces]
  /\ task \in [Subs -> TaskStates]

BeforeClose == {"signal", "wake", "look1", "wait1", "queue"}
AfterClose == {"look2", "wait2", "drain", "drainRest", "finish"}
Performing(c) == caller[c] \in BeforeClose \cup AfterClose

Clean == gc = "stopped" /\ closed /\ wg = 0 /\ active = 0 /\ closes = 1

CallerInv(c) ==
  /\ caller[c] # "idle" => started
  /\ caller[c] \in BeforeClose => closes = 0
  /\ caller[c] \in AfterClose => closes = 1
  /\ Performing(c) => gc = "running" /\ (caller[c] # "signal" => closed)
  /\ caller[c] \in {"wait1", "wait2"} /\ snapshot[c] # "open" => active = 0
  /\ caller[c] \in {"queue", "drain", "drainRest", "finish"} /\ drained[c] => active = 0
  /\ caller[c] = "finish" /\ drained[c] /\ c \notin expired => wg = 0
  /\ result[c] = "ok" => Clean

OnePerformer == \A c, d \in Callers : Performing(c) /\ Performing(d) => c = d

CallerTypes ==
  /\ closed \in BOOLEAN /\ closes \in Nat /\ started \in BOOLEAN /\ cancelled \in BOOLEAN
  /\ expired \in SUBSET Callers
  /\ caller \in [Callers -> {"idle", "joined", "done"} \cup BeforeClose \cup AfterClose]
  /\ snapshot \in [Callers -> {"nil", "open", "closed"}]
  /\ drained \in [Callers -> BOOLEAN]
  /\ result \in [Callers -> {"none", "ok", "error"}]
  /\ gc \in {"running", "stopped"}

StartInv == ~started => closes = 0 /\ gc = "running"

WorkInv == SubTypes /\ CountInv /\ \A s \in Subs : SubInv(s)
EndInv == CallerTypes /\ StartInv /\ OnePerformer /\ \A c \in Callers : CallerInv(c)
IInv == WorkInv /\ EndInv

-----------------------------------------------------------------------------
(* Counting *)

LEMMA CountType ==
  ASSUME NEW f, NEW P
  PROVE  IsFiniteSet(In(f, P)) /\ Cardinality(In(f, P)) \in Nat
<1>1. In(f, P) \subseteq Subs
  BY Zenon DEF In
<1> QED
  BY <1>1, SubsAreFinite, FS_Subset, FS_CardinalityType, Zenon

(* What moving one submission to another place does to a count. *)
LEMMA Count ==
  ASSUME NEW f, NEW g, NEW s \in Subs, NEW P, \A t \in Subs \ {s} : g[t] = f[t]
  PROVE  /\ (g[s] \in P <=> f[s] \in P) => In(g, P) = In(f, P)
         /\ g[s] \in P /\ f[s] \notin P => Cardinality(In(g, P)) = Cardinality(In(f, P)) + 1
         /\ g[s] \notin P /\ f[s] \in P => /\ Cardinality(In(g, P)) = Cardinality(In(f, P)) - 1
                                       /\ Cardinality(In(f, P)) > 0
<1>1. ASSUME g[s] \in P <=> f[s] \in P PROVE In(g, P) = In(f, P)
  BY <1>1 DEF In
<1>2. ASSUME g[s] \in P, f[s] \notin P PROVE Cardinality(In(g, P)) = Cardinality(In(f, P)) + 1
  <2>1. In(g, P) = In(f, P) \cup {s} /\ s \notin In(f, P)
    BY <1>2 DEF In
  <2> QED
    BY <2>1, CountType, FS_AddElement, Zenon
<1>3. ASSUME g[s] \notin P, f[s] \in P
      PROVE  Cardinality(In(g, P)) = Cardinality(In(f, P)) - 1 /\ Cardinality(In(f, P)) > 0
  <2>1. In(f, P) = In(g, P) \cup {s} /\ s \notin In(g, P)
    BY <1>3 DEF In
  <2>2. Cardinality(In(f, P)) = Cardinality(In(g, P)) + 1
    BY <2>1, CountType, FS_AddElement, Zenon
  <2> QED
    BY <2>2, CountType
<1> QED
  BY <1>1, <1>2, <1>3, Zenon

(* Nobody is at a place that counts zero. *)
LEMMA CountZero ==
  ASSUME NEW f, NEW P, Cardinality(In(f, P)) = 0 PROVE \A s \in Subs : f[s] \notin P
<1>1. In(f, P) = {}
  BY CountType, FS_EmptySet, Zenon
<1> QED
  BY <1>1, Zenon DEF In

-----------------------------------------------------------------------------
(* Submissions and handlers *)

(* A step of one submission is seen by that submission only. *)
LEMMA SubInvKept ==
  ASSUME NEW t \in Subs, SubInv(t), queue' = queue,
         sub'[t] = sub[t], handler'[t] = handler[t], task'[t] = task[t]
  PROVE  SubInv(t)'
  BY Zenon DEF SubInv

(* A submission moves from one place to another. *)
LEMMA SubMoves ==
  ASSUME SubTypes, CountInv, NEW s \in Subs, NEW l \in SubPlaces, sub' = [sub EXCEPT ![s] = l]
  PROVE  /\ sub' \in [Subs -> SubPlaces] /\ sub'[s] = l /\ \A t \in Subs \ {s} : sub'[t] = sub[t]
         /\ (l \in ActiveAt <=> sub[s] \in ActiveAt) => Cardinality(In(sub', ActiveAt)) = active
         /\ l \in ActiveAt /\ sub[s] \notin ActiveAt => Cardinality(In(sub', ActiveAt)) = active + 1
         /\ l \notin ActiveAt /\ sub[s] \in ActiveAt =>
              Cardinality(In(sub', ActiveAt)) = active - 1 /\ active > 0
         /\ (l = "launch" <=> sub[s] = "launch") =>
              Cardinality(In(sub', LaunchAt)) = Cardinality(In(sub, LaunchAt))
         /\ l = "launch" /\ sub[s] # "launch" =>
              Cardinality(In(sub', LaunchAt)) = Cardinality(In(sub, LaunchAt)) + 1
         /\ l # "launch" /\ sub[s] = "launch" =>
              Cardinality(In(sub', LaunchAt)) = Cardinality(In(sub, LaunchAt)) - 1
<1>1. sub \in [Subs -> SubPlaces] /\ active = Cardinality(In(sub, ActiveAt))
  BY Zenon DEF SubTypes, CountInv
<1>2. sub' \in [Subs -> SubPlaces] /\ sub'[s] = l /\ \A t \in Subs \ {s} : sub'[t] = sub[t]
  BY <1>1, Zenon
<1> DEFINE f == sub
<1> DEFINE g == sub'
<1>7. g[s] = l /\ \A t \in Subs \ {s} : g[t] = f[t]
  BY <1>2, Zenon
<1> HIDE DEF f, g
<1>3. /\ (l \in ActiveAt <=> f[s] \in ActiveAt) => In(g, ActiveAt) = In(f, ActiveAt)
      /\ l \in ActiveAt /\ f[s] \notin ActiveAt =>
           Cardinality(In(g, ActiveAt)) = Cardinality(In(f, ActiveAt)) + 1
      /\ l \notin ActiveAt /\ f[s] \in ActiveAt =>
           /\ Cardinality(In(g, ActiveAt)) = Cardinality(In(f, ActiveAt)) - 1
           /\ Cardinality(In(f, ActiveAt)) > 0
  BY <1>7, Count
<1>5. \A x : x \in LaunchAt <=> x = "launch"
  BY Zenon DEF LaunchAt
<1>4. /\ (l \in LaunchAt <=> f[s] \in LaunchAt) => In(g, LaunchAt) = In(f, LaunchAt)
      /\ l \in LaunchAt /\ f[s] \notin LaunchAt => Cardinality(In(g, LaunchAt)) = Cardinality(In(f, LaunchAt)) + 1
      /\ l \notin LaunchAt /\ f[s] \in LaunchAt => Cardinality(In(g, LaunchAt)) = Cardinality(In(f, LaunchAt)) - 1
  BY <1>7, Count, SMTT(20), ZenonT(20)
<1>6. /\ (l = "launch" <=> f[s] = "launch") => Cardinality(In(g, LaunchAt)) = Cardinality(In(f, LaunchAt))
      /\ l = "launch" /\ f[s] # "launch" => Cardinality(In(g, LaunchAt)) = Cardinality(In(f, LaunchAt)) + 1
      /\ l # "launch" /\ f[s] = "launch" => Cardinality(In(g, LaunchAt)) = Cardinality(In(f, LaunchAt)) - 1
  BY <1>4, <1>5, Zenon
<1> QED
  BY <1>1, <1>2, <1>3, <1>6, Zenon DEF f, g

LEMMA HandlerMoves ==
  ASSUME SubTypes, CountInv, NEW s \in Subs, NEW l \in HandlerPlaces, handler' = [handler EXCEPT ![s] = l]
  PROVE  /\ handler' \in [Subs -> HandlerPlaces] /\ handler'[s] = l
         /\ \A t \in Subs \ {s} : handler'[t] = handler[t]
         /\ (l \in CountedAt <=> handler[s] \in CountedAt) => Cardinality(In(handler', CountedAt)) = wg
         /\ l \in CountedAt /\ handler[s] \notin CountedAt => Cardinality(In(handler', CountedAt)) = wg + 1
         /\ l \notin CountedAt /\ handler[s] \in CountedAt =>
              Cardinality(In(handler', CountedAt)) = wg - 1 /\ wg > 0
         /\ (l \in RunningAt <=> handler[s] \in RunningAt) =>
              Cardinality(In(handler', RunningAt)) = Cardinality(In(handler, RunningAt))
         /\ l \in RunningAt /\ handler[s] \notin RunningAt =>
              Cardinality(In(handler', RunningAt)) = Cardinality(In(handler, RunningAt)) + 1
         /\ l \notin RunningAt /\ handler[s] \in RunningAt =>
              Cardinality(In(handler', RunningAt)) = Cardinality(In(handler, RunningAt)) - 1
<1>1. handler \in [Subs -> HandlerPlaces] /\ wg = Cardinality(In(handler, CountedAt))
  BY Zenon DEF SubTypes, CountInv
<1>2. /\ handler' \in [Subs -> HandlerPlaces] /\ handler'[s] = l
      /\ \A t \in Subs \ {s} : handler'[t] = handler[t]
  BY <1>1, Zenon
<1> DEFINE f == handler
<1> DEFINE g == handler'
<1>7. g[s] = l /\ \A t \in Subs \ {s} : g[t] = f[t]
  BY <1>2, Zenon
<1> HIDE DEF f, g
<1>3. /\ (l \in CountedAt <=> f[s] \in CountedAt) => In(g, CountedAt) = In(f, CountedAt)
      /\ l \in CountedAt /\ f[s] \notin CountedAt =>
           Cardinality(In(g, CountedAt)) = Cardinality(In(f, CountedAt)) + 1
      /\ l \notin CountedAt /\ f[s] \in CountedAt =>
           /\ Cardinality(In(g, CountedAt)) = Cardinality(In(f, CountedAt)) - 1
           /\ Cardinality(In(f, CountedAt)) > 0
  BY <1>7, Count
<1>4. /\ (l \in RunningAt <=> f[s] \in RunningAt) => In(g, RunningAt) = In(f, RunningAt)
      /\ l \in RunningAt /\ f[s] \notin RunningAt =>
           Cardinality(In(g, RunningAt)) = Cardinality(In(f, RunningAt)) + 1
      /\ l \notin RunningAt /\ f[s] \in RunningAt =>
           Cardinality(In(g, RunningAt)) = Cardinality(In(f, RunningAt)) - 1
  BY <1>7, Count, SMTT(20), ZenonT(20)
<1> QED
  BY <1>1, <1>2, <1>3, <1>4 DEF f, g

(* The tracker's record of one task changes. *)
LEMMA Tracks ==
  ASSUME SubTypes, NEW s \in Subs, NEW v \in TaskStates, Track(s, v)
  PROVE  task' \in [Subs -> TaskStates] /\ task'[s] = v /\ \A t \in Subs \ {s} : task'[t] = task[t]
  BY Zenon DEF SubTypes, Track

LEMMA CountTypes == CountInv => active \in Nat /\ wg \in Nat /\ sem \in Nat
<1> SUFFICES ASSUME CountInv PROVE active \in Nat /\ wg \in Nat /\ sem \in Nat
  OBVIOUS
<1>1. /\ Cardinality(In(sub, ActiveAt)) \in Nat /\ Cardinality(In(handler, CountedAt)) \in Nat
      /\ Cardinality(In(handler, RunningAt)) \in Nat /\ Cardinality(In(sub, LaunchAt)) \in Nat
  BY CountType, Zenon
<1> QED
  BY <1>1, MaxInflightIsNat DEF CountInv

(* What a step of a submission or of a handler does to the admission. *)
Closing ==
  /\ closed /\ active = 0 => active' = 0
  /\ closed /\ active = 0 /\ wg = 0 => wg' = 0

(* The steps before the admission. *)
LEMMA Unadmitted ==
  ASSUME WorkInv, NEW s \in Subs, Refuse(s) \/ MarkPending(s) \/ Admit(s)
  PROVE  WorkInv' /\ Closing /\ UNCHANGED <<closed, ending>>
<1>0. SubTypes /\ CountInv /\ SubInv(s)
  BY Zenon DEF WorkInv
<1>1. ASSUME NEW l \in {"refused", "pending", "submit"}, NEW v \in {"none", "PENDING", "FAILED"},
             sub' = [sub EXCEPT ![s] = l], sub[s] \in {"idle", "pending"},
             (task' = task /\ task[s] = v) \/ Track(s, v), v = "none" <=> sub[s] = "idle" /\ l = "refused",
             l \in {"pending", "submit"} => v = "PENDING", l = "refused" => v # "PENDING",
             active' = IF l = "submit" THEN active + 1 ELSE active,
             UNCHANGED <<queue, woken, sem, wg, handler>>
      PROVE  WorkInv'
  <2>1. l \in SubPlaces /\ v \in TaskStates
    BY Zenon DEF SubPlaces, TaskStates, Settled
  <2>2. /\ sub' \in [Subs -> SubPlaces] /\ sub'[s] = l /\ \A t \in Subs \ {s} : sub'[t] = sub[t]
        /\ (l \in ActiveAt <=> sub[s] \in ActiveAt) => Cardinality(In(sub', ActiveAt)) = active
        /\ l \in ActiveAt /\ sub[s] \notin ActiveAt => Cardinality(In(sub', ActiveAt)) = active + 1
        /\ (l = "launch" <=> sub[s] = "launch") =>
             Cardinality(In(sub', LaunchAt)) = Cardinality(In(sub, LaunchAt))
    BY <1>0, <1>1, <2>1, SubMoves
  <2>3. task' \in [Subs -> TaskStates] /\ task'[s] = v /\ \A t \in Subs \ {s} : task'[t] = task[t]
    BY <1>0, <1>1, <2>1, Tracks DEF SubTypes
  <2>4. SubTypes'
    BY <1>0, <1>1, <2>2, <2>3 DEF SubTypes
  <2>5. CountInv'
    <3>1. Cardinality(In(sub', ActiveAt)) = active'
      BY <1>1, <2>2, Zenon DEF ActiveAt
    <3>2. Cardinality(In(sub', LaunchAt)) = Cardinality(In(sub, LaunchAt))
      BY <1>1, <2>2, Zenon
    <3> QED
      BY <1>0, <1>1, <3>1, <3>2 DEF CountInv
  <2>6. SubInv(s)'
    <3>1. handler[s] = "none"
      BY <1>0, <1>1, Zenon DEF SubInv
    <3> QED
      BY <1>1, <2>2, <2>3, <3>1 DEF SubInv, Early
  <2>7. ASSUME NEW t \in Subs \ {s} PROVE SubInv(t)'
    BY <1>1, <2>2, <2>3, SubInvKept DEF WorkInv
  <2> QED
    BY <2>4, <2>5, <2>6, <2>7 DEF WorkInv
<1>2. task[s] \in TaskStates
  BY <1>0, Zenon DEF SubTypes
<1>3. CASE Refuse(s)
  <2>1. sub[s] = "idle" /\ task[s] = "none"
    BY <1>0, <1>3, Zenon DEF Refuse, Step, SubInv
  <2>2. sub' = [sub EXCEPT ![s] = "refused"] /\ UNCHANGED <<queue, closed, woken, active, sem, wg, handler, task, ending>>
    BY <1>3, Zenon DEF Refuse, Step
  <2>3. WorkInv'
    BY <1>1, <2>1, <2>2, Zenon
  <2> QED
    BY <2>2, <2>3, Zenon DEF Closing
<1>4. CASE MarkPending(s)
  <2>1. sub[s] = "idle" /\ sub' = [sub EXCEPT ![s] = "pending"] /\ Track(s, "PENDING") /\ ~closed
        /\ UNCHANGED <<queue, closed, woken, active, sem, wg, handler, ending>>
    BY <1>4, Zenon DEF MarkPending, Step
  <2>2. WorkInv'
    BY <1>1, <2>1, Zenon
  <2> QED
    BY <2>1, <2>2, Zenon DEF Closing
<1>5. CASE Admit(s) /\ closed
  <2>1. /\ sub[s] = "pending" /\ sub' = [sub EXCEPT ![s] = "refused"] /\ Mark(s, "FAILED")
        /\ UNCHANGED <<queue, closed, woken, active, sem, wg, handler, ending>>
    BY <1>5, Zenon DEF Admit, Step
  <2>2. Track(s, "FAILED")
    BY <1>0, <2>1, Zenon DEF SubInv, Early, Mark
  <2>3. WorkInv'
    BY <1>1, <2>1, <2>2
  <2> QED
    BY <2>1, <2>3, Zenon DEF Closing
<1>6. CASE Admit(s) /\ ~closed
  <2>1. /\ sub[s] = "pending" /\ sub' = [sub EXCEPT ![s] = "submit"] /\ active' = active + 1
        /\ UNCHANGED <<queue, closed, woken, sem, wg, handler, task, ending>>
    BY <1>6, Zenon DEF Admit, Step
  <2>2. task[s] = "PENDING"
    BY <1>0, <2>1, Zenon DEF SubInv, Early
  <2>3. WorkInv'
    BY <1>1, <2>1, <2>2
  <2> QED
    BY <1>6, <2>1, <2>3 DEF Closing
<1> QED
  BY <1>3, <1>4, <1>5, <1>6

(* A step of one admitted submission that leaves the goroutines alone. *)
LEMMA AdmittedStep ==
  ASSUME WorkInv, NEW s \in Subs, NEW l \in SubPlaces, NEW v \in TaskStates,
         sub' = [sub EXCEPT ![s] = l], (task' = task /\ v = task[s]) \/ Track(s, v),
         UNCHANGED <<queue, woken, wg, handler>>, sub[s] \in ActiveAt,
         active' = IF l \in ActiveAt THEN active ELSE active - 1,
         MaxInflight > 0 => IF l = "launch" THEN sem' = sem + 1 /\ sem < MaxInflight
                                           ELSE sem' = sem,
         MaxInflight = 0 => sem' = sem, sub[s] # "launch",
         sub'[s] = l /\ task'[s] = v => SubInv(s)'
  PROVE  WorkInv' /\ (active = 0 => active' = 0)
<1>0. SubTypes /\ CountInv /\ active \in Nat /\ sem \in Nat
  BY CountTypes, Zenon DEF WorkInv
<1>1. /\ sub' \in [Subs -> SubPlaces] /\ sub'[s] = l /\ \A t \in Subs \ {s} : sub'[t] = sub[t]
      /\ l \in ActiveAt => Cardinality(In(sub', ActiveAt)) = active
      /\ l \notin ActiveAt => Cardinality(In(sub', ActiveAt)) = active - 1 /\ active > 0
      /\ l # "launch" => Cardinality(In(sub', LaunchAt)) = Cardinality(In(sub, LaunchAt))
      /\ l = "launch" => Cardinality(In(sub', LaunchAt)) = Cardinality(In(sub, LaunchAt)) + 1
  BY <1>0, SubMoves, Zenon
<1>2. task' \in [Subs -> TaskStates] /\ task'[s] = v /\ \A t \in Subs \ {s} : task'[t] = task[t]
  BY <1>0, Tracks, Zenon DEF SubTypes
<1>3. SubTypes'
  BY <1>0, <1>1, <1>2, Zenon DEF SubTypes
<1>4. CountInv'
  <2>1. active' = Cardinality(In(sub', ActiveAt))
    BY <1>1, Zenon
  <2>2. wg' = Cardinality(In(handler', CountedAt)) /\ (MaxInflight = 0 => sem' = 0)
    BY <1>0, Zenon DEF CountInv
  <2>3. ASSUME MaxInflight > 0
        PROVE  /\ sem' = Cardinality(In(handler', RunningAt)) + Cardinality(In(sub', LaunchAt))
               /\ sem' <= MaxInflight
    <3>1. sem = Cardinality(In(handler, RunningAt)) + Cardinality(In(sub, LaunchAt)) /\ sem <= MaxInflight
      BY <1>0, <2>3, Zenon DEF CountInv
    <3>2. handler' = handler
      OBVIOUS
    <3>3. Cardinality(In(handler, RunningAt)) \in Nat /\ Cardinality(In(sub, LaunchAt)) \in Nat
      BY CountType, Zenon
    <3> QED
      BY <1>0, <1>1, <2>3, <3>1, <3>2, <3>3, MaxInflightIsNat
  <2> QED
    BY <2>1, <2>2, <2>3, Zenon DEF CountInv
<1>5. SubInv(s)'
  BY <1>1, <1>2, Zenon
<1>6. ASSUME NEW t \in Subs \ {s} PROVE SubInv(t)'
  BY <1>1, <1>2, SubInvKept DEF WorkInv
<1>7. active = 0 => active' = 0
  BY <1>1
<1> QED
  BY <1>3, <1>4, <1>5, <1>6, <1>7 DEF WorkInv

LEMMA Admitted ==
  ASSUME WorkInv, NEW s \in Subs,
         \/ SubmitChecks(s) \/ Acquire(s) \/ (\E cause \in {"context", "shutdown"} : Unpark(s, cause))
         \/ (\E ok \in BOOLEAN : SubmitExternal(s, ok)) \/ SubmitFails(s)
  PROVE  WorkInv' /\ Closing /\ UNCHANGED <<closed, ending>>
<1>0. SubTypes /\ CountInv /\ SubInv(s) /\ task[s] \in TaskStates /\ MaxInflight \in Nat
  BY MaxInflightIsNat, Zenon DEF WorkInv, SubTypes
<1> USE DEF ActiveAt, SubPlaces
<1>1. CASE SubmitChecks(s)
  <2> DEFINE l == IF closed THEN "failing" ELSE IF MaxInflight > 0 THEN "parked" ELSE "launch"
  <2>1. /\ sub[s] = "submit" /\ sub' = [sub EXCEPT ![s] = l]
        /\ UNCHANGED <<queue, closed, woken, active, sem, wg, handler, task, ending>>
    BY <1>1, Zenon DEF SubmitChecks, Step
  <2>2. l \in {"failing", "parked", "launch"} /\ (MaxInflight > 0 => l # "launch")
    OBVIOUS
  <2> HIDE DEF l
  <2>3. sub'[s] = l /\ task'[s] = task[s] => SubInv(s)'
    BY <1>0, <2>1, <2>2 DEF SubInv, Early
  <2>4. WorkInv' /\ (active = 0 => active' = 0)
    BY <1>0, <2>1, <2>2, <2>3, AdmittedStep
  <2> QED
    BY <2>1, <2>4, Zenon DEF Closing
<1>2. CASE Acquire(s)
  <2>1. /\ sub[s] = "parked" /\ sub' = [sub EXCEPT ![s] = "launch"] /\ sem < MaxInflight /\ sem' = sem + 1
        /\ UNCHANGED <<queue, closed, woken, active, wg, handler, task, ending>>
    BY <1>2, Zenon DEF Acquire, Step
  <2>2. sub'[s] = "launch" /\ task'[s] = task[s] => SubInv(s)'
    BY <1>0, <2>1, Zenon DEF SubInv, Early
  <2>3. MaxInflight # 0
    BY <1>0, <2>1 DEF CountInv
  <2>4. WorkInv' /\ (active = 0 => active' = 0)
    BY <1>0, <2>1, <2>2, <2>3, AdmittedStep
  <2> QED
    BY <2>1, <2>4, Zenon DEF Closing
<1>3. CASE \E cause \in {"context", "shutdown"} : Unpark(s, cause)
  <2>1. /\ sub[s] = "parked" /\ sub' = [sub EXCEPT ![s] = "failing"]
        /\ UNCHANGED <<queue, closed, woken, active, sem, wg, handler, task, ending>>
    BY <1>3, Zenon DEF Unpark, Step
  <2>2. sub'[s] = "failing" /\ task'[s] = task[s] => SubInv(s)'
    BY <1>0, <2>1, Zenon DEF SubInv, Early
  <2>3. WorkInv' /\ (active = 0 => active' = 0)
    BY <1>0, <2>1, <2>2, AdmittedStep
  <2> QED
    BY <2>1, <2>3, Zenon DEF Closing
<1>4. CASE \E ok \in BOOLEAN : SubmitExternal(s, ok)
  <2>0. PICK l \in {"finish", "failing"} :
         /\ sub[s] = "submit" /\ sub' = [sub EXCEPT ![s] = l] /\ queue = "external"
         /\ UNCHANGED <<queue, closed, woken, active, sem, wg, handler, task, ending>>
    BY <1>4, Zenon DEF SubmitExternal, Step
  <2>1. sub'[s] = l /\ task'[s] = task[s] => SubInv(s)'
    BY <1>0, <2>0, Zenon DEF SubInv, Early
  <2>2. WorkInv' /\ (active = 0 => active' = 0)
    BY <1>0, <2>0, <2>1, AdmittedStep
  <2> QED
    BY <2>0, <2>2, Zenon DEF Closing
<1>5. CASE SubmitFails(s)
  <2>1. /\ sub[s] = "failing" /\ sub' = [sub EXCEPT ![s] = "finishFailed"] /\ Mark(s, "FAILED")
        /\ UNCHANGED <<queue, closed, woken, active, sem, wg, handler, ending>>
    BY <1>5, Zenon DEF SubmitFails, Step
  <2>2. Track(s, "FAILED") /\ "FAILED" \in TaskStates
    BY <1>0, <2>1, Zenon DEF SubInv, Early, Mark, TaskStates, Settled
  <2>3. sub'[s] = "finishFailed" /\ task'[s] = "FAILED" => SubInv(s)'
    BY <1>0, <2>1, Zenon DEF SubInv, Early
  <2>4. WorkInv' /\ (active = 0 => active' = 0)
    BY <1>0, <2>1, <2>2, <2>3, AdmittedStep
  <2> QED
    BY <2>1, <2>4, Zenon DEF Closing
<1> QED
  BY <1>1, <1>2, <1>3, <1>4, <1>5

LEMMA Finished ==
  ASSUME WorkInv, NEW s \in Subs, FinishSubmission(s)
  PROVE  /\ WorkInv' /\ Closing /\ active > 0 /\ active' = active - 1
         /\ UNCHANGED <<closed, started, caller, drained, expired, result, closes, cancelled, gc>>
         /\ snapshot' = [c \in Callers |->
                           IF snapshot[c] = "open" /\ active = 1 THEN "closed" ELSE snapshot[c]]
<1>0. SubTypes /\ CountInv /\ SubInv(s) /\ task[s] \in TaskStates
  BY Zenon DEF WorkInv, SubTypes
<1> USE DEF ActiveAt, SubPlaces
<1>1. PICK l \in {"returned", "refused"} :
        /\ sub[s] = IF l = "returned" THEN "finish" ELSE "finishFailed"
        /\ sub' = [sub EXCEPT ![s] = l]
  BY Zenon DEF FinishSubmission, Step
<1>2. /\ active' = active - 1 /\ UNCHANGED <<queue, closed, woken, sem, wg, handler, task>>
      /\ UNCHANGED <<started, caller, drained, expired, result, closes, cancelled, gc>>
      /\ snapshot' = [c \in Callers |->
                        IF snapshot[c] = "open" /\ active = 1 THEN "closed" ELSE snapshot[c]]
  BY Zenon DEF FinishSubmission
<1>3. sub'[s] = l /\ task'[s] = task[s] => SubInv(s)'
  BY <1>0, <1>1, <1>2 DEF SubInv, Early
<1>4. WorkInv' /\ (active = 0 => active' = 0)
  BY <1>0, <1>1, <1>2, <1>3, AdmittedStep
<1>5. active \in Nat
  BY <1>0, CountTypes
<1> QED
  BY <1>2, <1>4, <1>5 DEF Closing

LEMMA Launched ==
  ASSUME WorkInv, NEW s \in Subs, Launch(s)
  PROVE  WorkInv' /\ Closing /\ UNCHANGED <<closed, ending>>
<1>0. SubTypes /\ CountInv /\ SubInv(s)
  BY Zenon DEF WorkInv
<1>1. /\ sub[s] = "launch" /\ sub' = [sub EXCEPT ![s] = "finish"] /\ wg' = wg + 1
      /\ handler' = [handler EXCEPT ![s] = "launched"]
      /\ UNCHANGED <<queue, closed, woken, active, sem, task, ending>>
  BY Zenon DEF Launch, Step
<1>2. handler[s] = "none" /\ task[s] = "PENDING"
  BY <1>0, <1>1, Zenon DEF SubInv, Early
<1>3. /\ sub' \in [Subs -> SubPlaces] /\ sub'[s] = "finish" /\ \A t \in Subs \ {s} : sub'[t] = sub[t]
      /\ Cardinality(In(sub', ActiveAt)) = active
      /\ Cardinality(In(sub', LaunchAt)) = Cardinality(In(sub, LaunchAt)) - 1
  <2>1. "finish" \in SubPlaces /\ "finish" \in ActiveAt /\ sub[s] \in ActiveAt
    BY <1>1, Zenon DEF SubPlaces, ActiveAt
  <2> QED
    BY <1>0, <1>1, <2>1, SubMoves
<1>4. /\ handler' \in [Subs -> HandlerPlaces] /\ handler'[s] = "launched"
      /\ \A t \in Subs \ {s} : handler'[t] = handler[t]
      /\ Cardinality(In(handler', CountedAt)) = wg + 1
      /\ Cardinality(In(handler', RunningAt)) = Cardinality(In(handler, RunningAt)) + 1
  <2>1. /\ "launched" \in HandlerPlaces /\ "launched" \in CountedAt /\ "launched" \in RunningAt
        /\ handler[s] \notin CountedAt /\ handler[s] \notin RunningAt
    BY <1>2, Zenon DEF HandlerPlaces, CountedAt, RunningAt
  <2> QED
    BY <1>0, <1>1, <2>1, HandlerMoves
<1>5. SubTypes'
  BY <1>0, <1>1, <1>3, <1>4 DEF SubTypes
<1>6. CountInv'
  <2>1. Cardinality(In(handler, RunningAt)) \in Nat /\ Cardinality(In(sub, LaunchAt)) \in Nat
    BY CountType, Zenon
  <2> QED
    BY <1>0, <1>1, <1>3, <1>4, <2>1 DEF CountInv
<1>7. SubInv(s)'
  BY <1>1, <1>2, <1>3, <1>4 DEF SubInv, Early
<1>8. ASSUME NEW t \in Subs \ {s} PROVE SubInv(t)'
  BY <1>1, <1>3, <1>4, SubInvKept DEF WorkInv
<1>9. active # 0
  <2>1. sub[s] \in ActiveAt
    BY <1>1, Zenon DEF ActiveAt
  <2> QED
    BY <1>0, <2>1, CountZero DEF CountInv
<1> QED
  BY <1>1, <1>5, <1>6, <1>7, <1>8, <1>9 DEF WorkInv, Closing

(* A step of one goroutine. *)
LEMMA GoroutineStep ==
  ASSUME WorkInv, NEW s \in Subs, NEW l \in HandlerPlaces, NEW v \in TaskStates,
         handler' = [handler EXCEPT ![s] = l], (task' = task /\ v = task[s]) \/ Track(s, v),
         UNCHANGED <<queue, woken, active, sub>>, handler[s] \in CountedAt,
         wg' = IF l \in CountedAt THEN wg ELSE wg - 1,
         MaxInflight > 0 => sem' = IF l \notin RunningAt /\ handler[s] \in RunningAt THEN sem - 1 ELSE sem,
         MaxInflight = 0 => sem' = sem, l \in RunningAt => handler[s] \in RunningAt,
         handler'[s] = l /\ task'[s] = v => SubInv(s)'
  PROVE  WorkInv' /\ (wg = 0 => wg' = 0)
<1>0. SubTypes /\ CountInv /\ wg \in Nat /\ sem \in Nat
  BY CountTypes, Zenon DEF WorkInv
<1>1. /\ handler' \in [Subs -> HandlerPlaces] /\ handler'[s] = l
      /\ \A t \in Subs \ {s} : handler'[t] = handler[t]
      /\ l \in CountedAt => Cardinality(In(handler', CountedAt)) = wg
      /\ l \notin CountedAt => Cardinality(In(handler', CountedAt)) = wg - 1 /\ wg > 0
      /\ (l \in RunningAt <=> handler[s] \in RunningAt) =>
           Cardinality(In(handler', RunningAt)) = Cardinality(In(handler, RunningAt))
      /\ l \notin RunningAt /\ handler[s] \in RunningAt =>
           Cardinality(In(handler', RunningAt)) = Cardinality(In(handler, RunningAt)) - 1
  BY <1>0, HandlerMoves, Zenon
<1>2. task' \in [Subs -> TaskStates] /\ task'[s] = v /\ \A t \in Subs \ {s} : task'[t] = task[t]
  BY <1>0, Tracks, Zenon DEF SubTypes
<1>3. SubTypes'
  BY <1>0, <1>1, <1>2 DEF SubTypes
<1>4. CountInv'
  <2>1. wg' = Cardinality(In(handler', CountedAt))
    BY <1>1, Zenon
  <2>2. active' = Cardinality(In(sub', ActiveAt)) /\ (MaxInflight = 0 => sem' = 0)
    BY <1>0, Zenon DEF CountInv
  <2>3. ASSUME MaxInflight > 0
        PROVE  /\ sem' = Cardinality(In(handler', RunningAt)) + Cardinality(In(sub', LaunchAt))
               /\ sem' <= MaxInflight
    <3>1. sem = Cardinality(In(handler, RunningAt)) + Cardinality(In(sub, LaunchAt)) /\ sem <= MaxInflight
      BY <1>0, <2>3, Zenon DEF CountInv
    <3>2. sub' = sub
      OBVIOUS
    <3>3. Cardinality(In(handler, RunningAt)) \in Nat /\ Cardinality(In(sub, LaunchAt)) \in Nat
      BY CountType, Zenon
    <3> QED
      BY <1>0, <1>1, <2>3, <3>1, <3>2, <3>3, MaxInflightIsNat
  <2> QED
    BY <2>1, <2>2, <2>3 DEF CountInv
<1>5. SubInv(s)'
  BY <1>1, <1>2, Zenon
<1>6. ASSUME NEW t \in Subs \ {s} PROVE SubInv(t)'
  BY <1>1, <1>2, SubInvKept DEF WorkInv
<1>7. wg = 0 => wg' = 0
  BY <1>1
<1> QED
  BY <1>3, <1>4, <1>5, <1>6, <1>7 DEF WorkInv

LEMMA Handled ==
  ASSUME WorkInv, NEW s \in Subs, Handling(s)
  PROVE  WorkInv' /\ Closing /\ UNCHANGED <<closed, ending>>
<1>0. SubTypes /\ CountInv /\ SubInv(s) /\ task[s] \in TaskStates /\ MaxInflight \in Nat
  BY MaxInflightIsNat, Zenon DEF WorkInv, SubTypes
<1> USE DEF HandlerPlaces, CountedAt, RunningAt
<1>1. CASE MarkRunning(s)
  <2>1. /\ handler[s] = "launched" /\ handler' = [handler EXCEPT ![s] = "running"] /\ Mark(s, "RUNNING")
        /\ UNCHANGED <<queue, closed, woken, active, sem, wg, sub, ending>>
    BY <1>1, Zenon DEF MarkRunning, Progress
  <2>2. Track(s, "RUNNING") /\ "RUNNING" \in TaskStates
    BY <1>0, <2>1, Zenon DEF SubInv, Mark, TaskStates
  <2>3. handler'[s] = "running" /\ task'[s] = "RUNNING" => SubInv(s)'
    BY <1>0, <2>1 DEF SubInv, Early
  <2>4. WorkInv'
    BY <1>0, <2>1, <2>2, <2>3, GoroutineStep
  <2> QED
    BY <2>1, <2>4 DEF Closing
<1>2. CASE \E status \in Settled : Return(s, status)
  <2>1. PICK v \in Settled :
        /\ handler[s] = "running" /\ handler' = [handler EXCEPT ![s] = "release"] /\ Mark(s, v)
        /\ UNCHANGED <<queue, closed, woken, active, sem, wg, sub, ending>>
    BY <1>2, Zenon DEF Return, Progress
  <2>2. Track(s, v) /\ v \in TaskStates
    BY <1>0, <2>1 DEF SubInv, Mark, TaskStates
  <2>3. handler'[s] = "release" /\ task'[s] = v => SubInv(s)'
    BY <1>0, <2>1 DEF SubInv, Early, Settled
  <2>4. WorkInv'
    BY <1>0, <2>1, <2>2, <2>3, GoroutineStep
  <2> QED
    BY <2>1, <2>4 DEF Closing
<1>3. CASE ReleaseSlot(s)
  <2>1. /\ handler[s] = "release" /\ handler' = [handler EXCEPT ![s] = "leaving"]
        /\ sem' = IF MaxInflight > 0 THEN sem - 1 ELSE sem
        /\ UNCHANGED <<queue, closed, woken, active, wg, sub, task, ending>>
    BY <1>3, Zenon DEF ReleaseSlot, Progress
  <2>2. handler'[s] = "leaving" /\ task'[s] = task[s] => SubInv(s)'
    BY <1>0, <2>1 DEF SubInv, Early
  <2>3. /\ handler[s] \in CountedAt /\ handler[s] \in RunningAt
        /\ "leaving" \in HandlerPlaces /\ "leaving" \in CountedAt /\ "leaving" \notin RunningAt
    BY <2>1, Zenon
  <2> HIDE DEF HandlerPlaces, CountedAt, RunningAt
  <2>4. /\ MaxInflight > 0 =>
             sem' = IF "leaving" \notin RunningAt /\ handler[s] \in RunningAt THEN sem - 1 ELSE sem
        /\ MaxInflight = 0 => sem' = sem
    BY <2>1, <2>3
  <2>5. wg' = IF "leaving" \in CountedAt THEN wg ELSE wg - 1
    BY <2>1, <2>3
  <2>6. WorkInv'
    BY <1>0, <2>1, <2>2, <2>3, <2>4, <2>5, GoroutineStep
  <2> QED
    BY <2>1, <2>6 DEF Closing
<1>4. CASE Leave(s)
  <2>1. /\ handler[s] = "leaving" /\ handler' = [handler EXCEPT ![s] = "ended"] /\ wg' = wg - 1
        /\ UNCHANGED <<queue, closed, woken, active, sem, sub, task, ending>>
    BY <1>4, Zenon DEF Leave, Progress
  <2>2. handler'[s] = "ended" /\ task'[s] = task[s] => SubInv(s)'
    BY <1>0, <2>1, Zenon DEF SubInv, Early
  <2>3. WorkInv' /\ (wg = 0 => wg' = 0)
    BY <1>0, <2>1, <2>2, GoroutineStep
  <2> QED
    BY <2>1, <2>3, Zenon DEF Closing
<1> QED
  BY <1>1, <1>2, <1>3, <1>4 DEF Handling

LEMMA Evicted ==
  ASSUME WorkInv, NEW s \in Subs, Evict(s)
  PROVE  WorkInv' /\ Closing /\ UNCHANGED <<closed, ending>>
<1>0. SubTypes /\ CountInv /\ SubInv(s)
  BY Zenon DEF WorkInv
<1>1. task[s] \in Settled /\ Track(s, "evicted") /\ "evicted" \in TaskStates
  BY Zenon DEF Evict, TaskStates
<1>2. UNCHANGED <<queue, closed, woken, active, sem, wg, sub, handler, ending>>
  BY Zenon DEF Evict, submission
<1>3. /\ task' \in [Subs -> TaskStates] /\ task'[s] = "evicted"
      /\ \A t \in Subs \ {s} : task'[t] = task[t]
  BY <1>0, <1>1, Tracks
<1>4. SubTypes' /\ CountInv'
  BY <1>0, <1>2, <1>3 DEF SubTypes, CountInv
<1>5. SubInv(s)'
  BY <1>0, <1>1, <1>2, <1>3 DEF SubInv, Settled, Early
<1>6. ASSUME NEW t \in Subs \ {s} PROVE SubInv(t)'
  BY <1>2, <1>3, SubInvKept DEF WorkInv
<1> QED
  BY <1>2, <1>4, <1>5, <1>6 DEF WorkInv, Closing

(* What a step of a submission, of a goroutine or of the GC does to what the *)
(* callers of Shutdown see.                                                  *)
LEMMA WorkStep ==
  ASSUME WorkInv, CallerTypes, NEW s \in Subs, Submission(s) \/ Handling(s) \/ Evict(s)
  PROVE  /\ WorkInv' /\ Closing
         /\ UNCHANGED <<closed, started, caller, drained, expired, result, closes, cancelled, gc>>
         /\ snapshot' \in [Callers -> {"nil", "open", "closed"}]
         /\ \A c \in Callers : \/ snapshot'[c] = snapshot[c]
                               \/ snapshot'[c] = "closed" /\ active' = 0
<1>0. snapshot \in [Callers -> {"nil", "open", "closed"}]
  BY Zenon DEF CallerTypes
<1>1. CASE FinishSubmission(s)
  <2>1. active \in Nat
    BY CountTypes, Zenon DEF WorkInv
  <2>2. active' = 0 <=> active = 1
    BY <1>1, <2>1, Finished
  <2> QED
    BY <1>0, <1>1, <2>2, Finished
<1>2. CASE /\ ~FinishSubmission(s)
  <2>1. WorkInv' /\ Closing /\ UNCHANGED <<closed, ending>>
    BY <1>2, Unadmitted, Admitted, Launched, Handled, Evicted DEF Submission
  <2> QED
    BY <1>0, <2>1, Zenon DEF ending
<1> QED
  BY <1>1, <1>2, Zenon

-----------------------------------------------------------------------------
(* Shutdown *)

LEMMA EndKept ==
  ASSUME EndInv, Closing,
         UNCHANGED <<closed, started, caller, drained, expired, result, closes, cancelled, gc>>,
         snapshot' \in [Callers -> {"nil", "open", "closed"}],
         \A c \in Callers : snapshot'[c] = snapshot[c] \/ (snapshot'[c] = "closed" /\ active' = 0)
  PROVE  EndInv'
<1>1. CallerTypes' /\ StartInv' /\ OnePerformer'
  BY Zenon DEF EndInv, CallerTypes, StartInv, OnePerformer, Performing
<1>2. ASSUME NEW c \in Callers PROVE CallerInv(c)'
  <2>1. CallerInv(c)
    BY Zenon DEF EndInv
  <2>2. Clean => Clean'
    BY Zenon DEF Clean, Closing
  <2>3. caller[c] \in {"wait1", "wait2"} /\ snapshot'[c] # "open" => active' = 0
    <3>1. caller[c] \in {"wait1", "wait2"} => closed
      BY <2>1, Zenon DEF CallerInv, Performing, BeforeClose, AfterClose
    <3> QED
      BY <2>1, <3>1 DEF CallerInv, Closing
  <2>4. caller[c] \in {"queue", "drain", "drainRest", "finish"} /\ drained[c] => active' = 0 /\ active = 0 /\ closed
    BY <2>1, Zenon DEF CallerInv, Closing, Performing, BeforeClose, AfterClose
  <2>5. caller[c] = "finish" /\ drained[c] /\ c \notin expired => wg' = 0
    BY <2>1, <2>4 DEF CallerInv, Closing
  <2> QED
    BY <2>1, <2>2, <2>3, <2>4, <2>5 DEF CallerInv, Performing
<1> QED
  BY <1>1, <1>2, Zenon DEF EndInv

LEMMA PhaseMoves ==
  ASSUME CallerTypes, NEW c \in Callers, NEW from, NEW to, Phase(c, from, to),
         to \in {"idle", "joined", "done"} \cup BeforeClose \cup AfterClose
  PROVE  /\ caller[c] = from /\ caller'[c] = to /\ \A d \in Callers \ {c} : caller'[d] = caller[d]
         /\ caller' \in [Callers -> {"idle", "joined", "done"} \cup BeforeClose \cup AfterClose]
  BY Zenon DEF CallerTypes, Phase

(* A step of the call that performs the shutdown: the other calls have not   *)
(* started or are waiting for it, and nothing has been returned yet.         *)
LEMMA PerformStep ==
  ASSUME EndInv, NEW c \in Callers, NEW from \in BeforeClose \cup AfterClose,
         NEW to \in BeforeClose \cup AfterClose \cup {"done"}, Phase(c, from, to),
         CallerTypes', started' = started, \A d \in Callers \ {c} : result'[d] = result[d],
         caller'[c] = to /\ (result[c] # "ok") /\ CallerInv(c) /\ caller[c] = from /\ started /\ gc = "running" =>
           CallerInv(c)'
  PROVE  EndInv'
<1>0. CallerTypes /\ CallerInv(c) /\ OnePerformer
  BY Zenon DEF EndInv
<1>1. /\ caller[c] = from /\ caller'[c] = to /\ \A d \in Callers \ {c} : caller'[d] = caller[d]
      /\ caller' \in [Callers -> {"idle", "joined", "done"} \cup BeforeClose \cup AfterClose]
  BY <1>0, PhaseMoves
<1>2. Performing(c) /\ gc = "running" /\ ~Clean
  BY <1>0, <1>1 DEF CallerInv, Performing, Clean
<1>3. started
  BY <1>0, <1>1 DEF CallerInv, BeforeClose, AfterClose
<1>4. \A d \in Callers : result[d] # "ok"
  BY <1>2, Zenon DEF EndInv, CallerInv
<1>5. CallerInv(c)'
  BY <1>0, <1>1, <1>2, <1>3, <1>4
<1>6. ASSUME NEW d \in Callers \ {c} PROVE ~Performing(d) /\ ~Performing(d)' /\ CallerInv(d)'
  <2>1. ~Performing(d) /\ ~Performing(d)'
    BY <1>0, <1>1, <1>2 DEF OnePerformer, Performing
  <2>2. /\ caller'[d] \notin BeforeClose /\ caller'[d] \notin AfterClose
        /\ result'[d] # "ok" /\ started'
    BY <1>3, <1>4, <2>1 DEF Performing
  <2> QED
    BY <2>1, <2>2 DEF CallerInv, Performing, BeforeClose, AfterClose
<1>7. OnePerformer'
  BY <1>6, Zenon DEF OnePerformer
<1>8. StartInv'
  BY <1>3, Zenon DEF StartInv
<1> QED
  BY <1>5, <1>6, <1>7, <1>8 DEF EndInv

LEMMA Signals ==
  ASSUME EndInv, NEW c \in Callers, Close(c) \/ WakeParked(c) PROVE EndInv'
<1> USE DEF BeforeClose, AfterClose
<1>1. PICK from \in {"signal", "wake"}, to \in {"wake", "look1"} :
        Phase(c, from, to) /\ closed' = (closed \/ from = "signal")
  BY Zenon DEF Close, WakeParked, EndInv, CallerTypes
<1>2. UNCHANGED <<active, wg, started, snapshot, drained, expired, result, closes, cancelled, gc>>
  BY Zenon DEF Close, WakeParked, submission
<1>3. CallerTypes'
  <2>1. caller' \in [Callers -> {"idle", "joined", "done"} \cup BeforeClose \cup AfterClose]
    BY <1>1, PhaseMoves DEF EndInv
  <2> QED
    BY <1>1, <1>2, <2>1 DEF EndInv, CallerTypes
<1>4. ASSUME caller'[c] = to, result[c] # "ok", CallerInv(c), caller[c] = from, started, gc = "running"
      PROVE  CallerInv(c)'
  BY <1>1, <1>2, <1>4 DEF CallerInv, Performing
<1> QED
  BY <1>1, <1>2, <1>3, <1>4, PerformStep

LEMMA Looks ==
  ASSUME EndInv, NEW c \in Callers, Look(c) PROVE EndInv'
<1> USE DEF BeforeClose, AfterClose
<1>1. PICK from \in {"look1", "look2"}, to \in {"wait1", "wait2"} :
        Phase(c, from, to) /\ (from = "look1" <=> to = "wait1")
  BY Zenon DEF Look
<1>2. /\ UNCHANGED <<closed, active, wg, started, drained, expired, result, closes, cancelled, gc>>
      /\ snapshot' = [snapshot EXCEPT ![c] = IF active = 0 THEN "nil" ELSE "open"]
  BY Zenon DEF Look, submission
<1>3. CallerTypes' /\ snapshot'[c] = IF active = 0 THEN "nil" ELSE "open"
  <2>1. caller' \in [Callers -> {"idle", "joined", "done"} \cup BeforeClose \cup AfterClose]
    BY <1>1, PhaseMoves DEF EndInv
  <2> QED
    BY <1>2, <2>1 DEF EndInv, CallerTypes
<1>4. ASSUME caller'[c] = to, result[c] # "ok", CallerInv(c), caller[c] = from, started, gc = "running"
      PROVE  CallerInv(c)'
  <2>1. closed /\ (to \in BeforeClose => closes = 0) /\ (to \in AfterClose => closes = 1)
    BY <1>1, <1>4, Zenon DEF CallerInv, Performing
  <2>2. to \notin {"idle", "queue", "drain", "drainRest", "finish"}
    BY <1>1, Zenon
  <2>3. (snapshot[c])' # "open" => active = 0
    BY <1>3, Zenon
  <2>4. (result[c])' = result[c] /\ (caller[c])' = to
    BY <1>2, <1>4, Zenon
  <2> QED
    BY <1>2, <1>4, <2>1, <2>2, <2>3, <2>4, Zenon DEF CallerInv, Performing
<1> QED
  BY <1>1, <1>2, <1>3, <1>4, PerformStep

LEMMA Waits ==
  ASSUME EndInv, NEW c \in Callers, NEW ok \in BOOLEAN, Waited(c, ok) PROVE EndInv'
<1> USE DEF BeforeClose, AfterClose
<1>1. PICK from \in {"wait1", "wait2"}, to \in {"queue", "drain"} :
        Phase(c, from, to) /\ (from = "wait1" <=> to = "queue")
  BY Zenon DEF Waited
<1>2. /\ UNCHANGED <<closed, active, wg, started, expired, result, closes, cancelled, gc>>
      /\ drained' = [drained EXCEPT ![c] = ok] /\ snapshot' = [snapshot EXCEPT ![c] = "nil"]
      /\ ok => snapshot[c] # "open"
  BY Zenon DEF Waited, submission
<1>3. CallerTypes' /\ drained'[c] = ok
  <2>1. caller' \in [Callers -> {"idle", "joined", "done"} \cup BeforeClose \cup AfterClose]
    BY <1>1, PhaseMoves DEF EndInv
  <2> QED
    BY <1>2, <2>1 DEF EndInv, CallerTypes
<1>4. ASSUME caller'[c] = to, result[c] # "ok", CallerInv(c), caller[c] = from, started, gc = "running"
      PROVE  CallerInv(c)'
  <2>1. closed /\ (to \in BeforeClose => closes = 0) /\ (to \in AfterClose => closes = 1)
    BY <1>1, <1>4, Zenon DEF CallerInv, Performing
  <2>2. to \notin {"idle", "wait1", "wait2", "drainRest", "finish"}
    BY <1>1, Zenon
  <2>3. (drained[c])' => active = 0
    BY <1>1, <1>2, <1>3, <1>4, Zenon DEF CallerInv
  <2>4. (result[c])' = result[c] /\ (caller[c])' = to
    BY <1>2, <1>4, Zenon
  <2> QED
    BY <1>2, <1>4, <2>1, <2>2, <2>3, <2>4, Zenon DEF CallerInv, Performing
<1> QED
  BY <1>1, <1>2, <1>3, <1>4, PerformStep

LEMMA ClosesQueue ==
  ASSUME EndInv, NEW c \in Callers, CloseQueue(c) PROVE EndInv'
<1> USE DEF BeforeClose, AfterClose
<1>1. PICK to \in {"drain", "look2"} : Phase(c, "queue", to)
  BY Zenon DEF CloseQueue
<1>2. /\ UNCHANGED <<closed, active, wg, started, snapshot, drained, expired, result, cancelled, gc>>
      /\ closes' = closes + 1
  BY Zenon DEF CloseQueue, submission
<1>3. CallerTypes'
  <2>1. caller' \in [Callers -> {"idle", "joined", "done"} \cup BeforeClose \cup AfterClose]
    BY <1>1, PhaseMoves DEF EndInv
  <2> QED
    BY <1>2, <2>1 DEF EndInv, CallerTypes
<1>4. ASSUME caller'[c] = to, result[c] # "ok", CallerInv(c), caller[c] = "queue", started, gc = "running"
      PROVE  CallerInv(c)'
  <2>1. closes = 0 /\ closed /\ (drained[c] => active = 0)
    BY <1>4, Zenon DEF CallerInv, Performing
  <2>2. closes' = 1
    BY <1>2, <2>1
  <2>3. to \notin BeforeClose /\ to \notin {"idle", "wait1", "wait2", "finish"}
    BY <1>1, Zenon
  <2>4. (drained[c])' = drained[c] /\ (result[c])' = result[c] /\ (caller[c])' = to
    BY <1>2, <1>4, Zenon
  <2> QED
    BY <1>2, <1>4, <2>1, <2>2, <2>3, <2>4, Zenon DEF CallerInv, Performing
<1> QED
  BY <1>1, <1>2, <1>3, <1>4, PerformStep

LEMMA Drains ==
  ASSUME EndInv, NEW c \in Callers, (\E complete \in BOOLEAN : Drain(c, complete)) \/ DrainRest(c)
  PROVE  EndInv'
<1> USE DEF BeforeClose, AfterClose
<1>1. PICK from \in {"drain", "drainRest"}, to \in {"drainRest", "finish"} :
        /\ Phase(c, from, to)
        /\ from = "drain" /\ to = "finish" => ~drained[c]
        /\ from = "drainRest" => to = "finish" /\ (wg = 0 \/ c \in expired)
  BY Zenon DEF Drain, DrainRest, WaitDrain
<1>2. /\ UNCHANGED <<closed, active, wg, started, snapshot, drained, expired, result, closes, gc>>
      /\ cancelled' \in BOOLEAN
  BY Zenon DEF Drain, DrainRest, submission, EndInv, CallerTypes
<1>3. CallerTypes'
  <2>1. caller' \in [Callers -> {"idle", "joined", "done"} \cup BeforeClose \cup AfterClose]
    BY <1>1, PhaseMoves DEF EndInv
  <2> QED
    BY <1>2, <2>1, Zenon DEF EndInv, CallerTypes
<1>4. ASSUME caller'[c] = to, result[c] # "ok", CallerInv(c), caller[c] = from, started, gc = "running"
      PROVE  CallerInv(c)'
  BY <1>1, <1>2, <1>3, <1>4 DEF CallerInv, Performing
<1> QED
  BY <1>1, <1>2, <1>3, <1>4, PerformStep

LEMMA Finishes ==
  ASSUME EndInv, NEW c \in Callers, NEW closeFailed \in BOOLEAN, Finish(c, closeFailed) PROVE EndInv'
<1> USE DEF BeforeClose, AfterClose
<1>1. Phase(c, "finish", "done")
  BY Zenon DEF Finish
<1>2. /\ UNCHANGED <<closed, active, wg, started, snapshot, drained, expired, closes, cancelled>>
      /\ gc' = "stopped"
      /\ result' = [result EXCEPT ![c] = IF ~drained[c] \/ c \in expired \/ closeFailed THEN "error" ELSE "ok"]
  BY Zenon DEF Finish, submission
<1>3. /\ CallerTypes' /\ \A d \in Callers \ {c} : result'[d] = result[d]
      /\ result'[c] = "ok" => drained[c] /\ c \notin expired
  <2>1. caller' \in [Callers -> {"idle", "joined", "done"} \cup BeforeClose \cup AfterClose]
    BY <1>1, PhaseMoves DEF EndInv
  <2> QED
    BY <1>2, <2>1 DEF EndInv, CallerTypes
<1>4. ASSUME caller'[c] = "done", result[c] # "ok", CallerInv(c), caller[c] = "finish", started, gc = "running"
      PROVE  CallerInv(c)'
  BY <1>1, <1>2, <1>3, <1>4 DEF CallerInv, Performing, Clean
<1> QED
  BY <1>1, <1>2, <1>3, <1>4, PerformStep

LEMMA Enters ==
  ASSUME EndInv, NEW c \in Callers, Enter(c) PROVE EndInv'
<1> USE DEF BeforeClose, AfterClose
<1> DEFINE to == IF started THEN "joined" ELSE "signal"
<1>0. CallerTypes /\ OnePerformer /\ StartInv /\ \A d \in Callers : CallerInv(d)
  BY Zenon DEF EndInv
<1>1. /\ Phase(c, "idle", to) /\ started' = TRUE /\ to \in {"joined", "signal"}
      /\ UNCHANGED <<closed, active, wg, snapshot, drained, expired, result, closes, cancelled, gc>>
  BY Zenon DEF Enter, submission
<1>2. to = "signal" => ~started
  OBVIOUS
<1> HIDE DEF to
<1>3. /\ caller[c] = "idle" /\ caller'[c] = to /\ \A d \in Callers \ {c} : caller'[d] = caller[d]
      /\ caller' \in [Callers -> {"idle", "joined", "done"} \cup BeforeClose \cup AfterClose]
  BY <1>0, <1>1, PhaseMoves
<1>4. CallerTypes' /\ StartInv'
  BY <1>0, <1>1, <1>3 DEF CallerTypes, StartInv
<1>5. to = "signal" => \A d \in Callers : ~Performing(d)
  BY <1>0, <1>2 DEF CallerInv, Performing
<1>6. OnePerformer'
  BY <1>0, <1>1, <1>3, <1>5 DEF OnePerformer, Performing
<1>7. CallerInv(c)'
  BY <1>0, <1>1, <1>2, <1>3 DEF CallerInv, Performing, StartInv, Clean
<1>8. ASSUME NEW d \in Callers \ {c} PROVE CallerInv(d)'
  <2>1. CallerInv(d)
    BY <1>0, Zenon
  <2> QED
    BY <1>1, <1>3, <2>1 DEF CallerInv, Performing, Clean
<1> QED
  BY <1>4, <1>6, <1>7, <1>8 DEF EndInv

LEMMA Joins ==
  ASSUME EndInv, NEW c \in Callers, Join(c) PROVE EndInv'
<1> USE DEF BeforeClose, AfterClose
<1>0. CallerTypes /\ OnePerformer /\ StartInv /\ \A d \in Callers : CallerInv(d)
  BY Zenon DEF EndInv
<1>1. /\ Phase(c, "joined", "done")
      /\ UNCHANGED <<closed, active, wg, started, snapshot, drained, expired, closes, cancelled, gc>>
  BY Zenon DEF Join, submission
<1>2. PICK v \in {"none", "ok", "error"} :
        result' = [result EXCEPT ![c] = v] /\ (v = "ok" => \E d \in Callers : result[d] = "ok")
  BY <1>0, Zenon DEF Join, CallerTypes
<1>3. /\ caller[c] = "joined" /\ caller'[c] = "done" /\ \A d \in Callers \ {c} : caller'[d] = caller[d]
      /\ caller' \in [Callers -> {"idle", "joined", "done"} \cup BeforeClose \cup AfterClose]
  BY <1>0, <1>1, PhaseMoves
<1>4. CallerTypes' /\ StartInv'
  BY <1>0, <1>1, <1>2, <1>3 DEF CallerTypes, StartInv
<1>5. OnePerformer'
  BY <1>0, <1>3 DEF OnePerformer, Performing
<1>6. result'[c] = v /\ \A d \in Callers \ {c} : result'[d] = result[d]
  BY <1>0, <1>2 DEF CallerTypes
<1>7. v = "ok" => Clean
  BY <1>0, <1>2, Zenon DEF CallerInv
<1>8. CallerInv(c)'
  BY <1>0, <1>1, <1>3, <1>6, <1>7 DEF CallerInv, Performing, Clean
<1>9. ASSUME NEW d \in Callers \ {c} PROVE CallerInv(d)'
  <2>1. CallerInv(d)
    BY <1>0, Zenon
  <2> QED
    BY <1>1, <1>3, <1>6, <2>1 DEF CallerInv, Performing, Clean
<1> QED
  BY <1>4, <1>5, <1>8, <1>9 DEF EndInv

LEMMA Expires ==
  ASSUME EndInv, NEW c \in Callers, Expire(c) PROVE EndInv'
<1>1. /\ UNCHANGED <<closed, active, wg, started, caller, snapshot, drained, result, closes, cancelled, gc>>
      /\ expired' = expired \cup {c}
  BY Zenon DEF Expire, submission
<1>2. CallerTypes' /\ StartInv' /\ OnePerformer'
  BY <1>1 DEF EndInv, CallerTypes, StartInv, OnePerformer, Performing
<1>3. ASSUME NEW d \in Callers PROVE CallerInv(d)'
  <2>1. CallerInv(d)
    BY Zenon DEF EndInv
  <2> QED
    BY <1>1, <2>1 DEF CallerInv, Performing, Clean
<1> QED
  BY <1>2, <1>3 DEF EndInv

(* The steps of Shutdown leave the submissions alone. *)
LEMMA WorkKept ==
  ASSUME WorkInv, UNCHANGED <<queue, active, sem, wg, sub, handler, task>>, woken' \in BOOLEAN
  PROVE  WorkInv'
<1>1. SubTypes' /\ CountInv'
  BY Zenon DEF WorkInv, SubTypes, CountInv
<1>2. ASSUME NEW s \in Subs PROVE SubInv(s)'
  BY SubInvKept DEF WorkInv
<1> QED
  BY <1>1, <1>2 DEF WorkInv

LEMMA ShutdownLeavesWork ==
  ASSUME WorkInv, NEW c \in Callers, Shutdown(c) \/ Expire(c)
  PROVE  UNCHANGED <<queue, active, sem, wg, sub, handler, task>> /\ woken' \in BOOLEAN
<1>1. woken \in BOOLEAN
  BY Zenon DEF WorkInv, SubTypes
<1> USE DEF submission
<1>2. CASE Enter(c) \/ Close(c) \/ WakeParked(c) \/ Look(c)
  BY <1>1, <1>2 DEF Enter, Close, WakeParked, Look
<1>3. CASE \E ok \in BOOLEAN : Waited(c, ok)
  BY <1>1, <1>3 DEF Waited
<1>4. CASE CloseQueue(c) \/ DrainRest(c) \/ (\E complete \in BOOLEAN : Drain(c, complete))
  BY <1>1, <1>4 DEF CloseQueue, DrainRest, Drain
<1>5. CASE (\E closeFailed \in BOOLEAN : Finish(c, closeFailed)) \/ Join(c) \/ Expire(c)
  BY <1>1, <1>5 DEF Finish, Join, Expire
<1> QED
  BY <1>2, <1>3, <1>4, <1>5 DEF Shutdown

-----------------------------------------------------------------------------

LEMMA InitIInv == Init => IInv
<1> SUFFICES ASSUME Init PROVE IInv
  OBVIOUS
<1>1. SubTypes
  BY Zenon DEF Init, SubTypes, SubPlaces, HandlerPlaces, TaskStates
<1>2. CountInv
  <2>1. /\ In(sub, ActiveAt) = {} /\ In(handler, CountedAt) = {} /\ In(handler, RunningAt) = {}
        /\ In(sub, LaunchAt) = {}
    BY Zenon DEF Init, In, ActiveAt, CountedAt, RunningAt, LaunchAt
  <2>2. Cardinality({}) = 0
    BY FS_EmptySet, Zenon
  <2> QED
    BY <2>1, <2>2, MaxInflightIsNat DEF Init, CountInv
<1>3. \A s \in Subs : SubInv(s)
  BY Zenon DEF Init, SubInv, Early
<1>4. CallerTypes /\ StartInv
  BY Zenon DEF Init, CallerTypes, StartInv
<1>5. OnePerformer /\ \A c \in Callers : CallerInv(c)
  BY Zenon DEF Init, OnePerformer, CallerInv, Performing, BeforeClose, AfterClose
<1> QED
  BY <1>1, <1>2, <1>3, <1>4, <1>5 DEF IInv, WorkInv, EndInv

LEMMA StepIInv == IInv /\ [Next]_vars => IInv'
<1> SUFFICES ASSUME IInv, [Next]_vars PROVE IInv'
  OBVIOUS
<1>0. WorkInv /\ EndInv /\ CallerTypes
  BY Zenon DEF IInv, EndInv
<1>1. CASE \E s \in Subs : Submission(s) \/ Handling(s) \/ Evict(s)
  BY <1>0, <1>1, WorkStep, EndKept DEF IInv
<1>2. ASSUME NEW c \in Callers, Shutdown(c) \/ Expire(c) PROVE IInv'
  <2>1. WorkInv'
    BY <1>0, <1>2, ShutdownLeavesWork, WorkKept
  <2>2. EndInv'
    BY <1>0, <1>2, Signals, Looks, Waits, ClosesQueue, Drains, Finishes, Enters, Joins, Expires
       DEF Shutdown
  <2> QED
    BY <2>1, <2>2, Zenon DEF IInv
<1>3. CASE UNCHANGED vars
  <2>1. UNCHANGED <<queue, closed, woken, active, sem, wg, sub, handler, task, started, caller, snapshot,
                    drained, expired, result, closes, cancelled, gc>>
    BY <1>3, Zenon DEF vars, submission, ending
  <2>2. WorkInv'
    <3>1. woken' \in BOOLEAN
      BY <1>0, <2>1 DEF WorkInv, SubTypes
    <3> QED
      BY <1>0, <2>1, <3>1, WorkKept
  <2>3. EndInv'
    BY <1>0, <2>1, EndKept, Zenon DEF Closing, CallerTypes
  <2> QED
    BY <2>2, <2>3, Zenon DEF IInv
<1> QED
  BY <1>1, <1>2, <1>3 DEF Next

LEMMA IInvSafe == IInv => CountersSafe
<1> SUFFICES ASSUME IInv PROVE CountersSafe
  OBVIOUS
<1>0. SubTypes /\ CountInv /\ CallerTypes /\ \A c \in Callers : CallerInv(c)
  BY Zenon DEF IInv, WorkInv, EndInv
<1>1. TypeOK
  <2>1. active \in Nat /\ wg \in Nat /\ sem \in Nat
    BY <1>0, CountTypes
  <2>2. caller \in [Callers -> {"idle", "joined", "signal", "wake", "look1", "wait1", "queue", "look2",
                                "wait2", "drain", "drainRest", "finish", "done"}]
    BY <1>0, Zenon DEF CallerTypes, BeforeClose, AfterClose
  <2> QED
    BY <1>0, <2>1, <2>2 DEF SubTypes, CallerTypes, TypeOK, SubPlaces, HandlerPlaces, TaskStates
<1>2. ASSUME MaxInflight > 0
      PROVE  /\ sem = Cardinality(Running) + Cardinality({s \in Subs : sub[s] = "launch"})
             /\ Cardinality(Running) <= MaxInflight
  <2>1. Running = In(handler, RunningAt)
    BY Zenon DEF Running, In, RunningAt
  <2>2. {s \in Subs : sub[s] = "launch"} = In(sub, LaunchAt)
    BY Zenon DEF In, LaunchAt
  <2>3. Cardinality(In(handler, RunningAt)) \in Nat /\ Cardinality(In(sub, LaunchAt)) \in Nat
    BY CountType, Zenon
  <2>4. sem = Cardinality(In(handler, RunningAt)) + Cardinality(In(sub, LaunchAt)) /\ sem <= MaxInflight
    BY <1>0, <1>2 DEF CountInv
  <2> QED
    BY <2>1, <2>2, <2>3, <2>4, MaxInflightIsNat
<1>3. ASSUME NEW c \in Callers, caller[c] \in {"drain", "drainRest"}, drained[c], NEW s \in Subs
      PROVE  sub[s] \in {"idle", "refused", "pending", "returned"}
  <2>1. active = 0
    BY <1>0, <1>3 DEF CallerInv
  <2>2. sub[s] \notin ActiveAt
    BY <1>0, <2>1, CountZero DEF CountInv
  <2> QED
    BY <1>0, <2>2 DEF SubTypes, SubPlaces, ActiveAt
<1> QED
  BY <1>1, <1>2, <1>3 DEF CountersSafe

(* No slot of inProcessQueue's semaphore is lost or returned twice, at most  *)
(* MaxInflight handlers run, and Shutdown never waits on the WaitGroup while *)
(* a submission may still add to it.                                         *)
THEOREM CountersAreSafe == Spec => []CountersSafe
<1> QED
  BY InitIInv, StepIInv, IInvSafe, PTL DEF Spec

(* A Shutdown that returns nil, to the call that performed it or to one that *)
(* joined it, has waited for every handler and every admitted submission and *)
(* has closed the queue exactly once.                                        *)
THEOREM ShutdownIsClean == Spec => []CleanShutdown
<1>1. ASSUME IInv PROVE CleanShutdown
  <2> SUFFICES ASSUME NEW c \in Callers, caller[c] = "done", result[c] = "ok"
               PROVE  /\ wg = 0 /\ active = 0 /\ closes = 1
                      /\ queue = "inprocess" => \A s \in Subs : sub[s] \in {"returned", "refused"} =>
                                                                  task[s] \notin {"PENDING", "RUNNING"}
    BY Zenon DEF CleanShutdown
  <2>1. Clean
    BY <1>1 DEF IInv, EndInv, CallerInv
  <2>2. ASSUME queue = "inprocess", NEW s \in Subs, sub[s] \in {"returned", "refused"}
        PROVE  task[s] \notin {"PENDING", "RUNNING"}
    <3>1. Cardinality(In(handler, CountedAt)) = 0 /\ SubInv(s)
      BY <1>1, <2>1 DEF IInv, WorkInv, CountInv, Clean
    <3>2. handler[s] \notin CountedAt
      BY <3>1, CountZero
    <3> QED
      BY <2>2, <3>1, <3>2 DEF SubInv, Early, CountedAt
  <2> QED
    BY <2>1, <2>2 DEF Clean
<1> QED
  BY <1>1, InitIInv, StepIInv, PTL DEF Spec

(* The tracker's record of a task only moves on: from PENDING to RUNNING, to *)
(* one outcome, to eviction (taskTracker's markRunning, markDone, markFailed *)
(* and evictExpiredTasks), in whatever order submitter, goroutine and GC     *)
(* get there.                                                                *)
THEOREM OutcomesAreFinal == Spec => OutcomeIsFinal
<1> DEFINE MovesOn(s) ==
      /\ task[s] \in Settled => task'[s] \in {task[s], "evicted"}
      /\ task[s] \in {"PENDING", "RUNNING"} => task'[s] \in {"PENDING", "RUNNING"} \cup Settled
<1>1. ASSUME task' = task PROVE \A s \in Subs : MovesOn(s)
  BY <1>1, Zenon
<1>2. ASSUME SubTypes, NEW s \in Subs, NEW v, Track(s, v),
             \/ task[s] \in {"none", "PENDING", "RUNNING"} /\ v \in {"PENDING", "RUNNING"} \cup Settled
             \/ task[s] \in Settled /\ v = "evicted"
      PROVE  \A t \in Subs : MovesOn(t)
  <2>1. task'[s] = v /\ \A t \in Subs \ {s} : task'[t] = task[t]
    BY <1>2, Zenon DEF SubTypes, Track
  <2> QED
    BY <1>2, <2>1 DEF Settled
<1>3. ASSUME WorkInv, NEW s \in Subs, Submission(s) PROVE \A t \in Subs : MovesOn(t)
  <2>0. SubTypes /\ SubInv(s)
    BY <1>3, Zenon DEF WorkInv
  <2> HIDE DEF MovesOn
  <2>1. CASE MarkPending(s)
    <3>1. task[s] = "none" /\ Track(s, "PENDING")
      BY <2>0, <2>1 DEF MarkPending, Step, SubInv
    <3> QED
      BY <1>2, <2>0, <3>1
  <2>2. CASE SubmitFails(s) \/ (Admit(s) /\ closed)
    <3>1. task[s] = "PENDING" /\ Mark(s, "FAILED")
      BY <2>0, <2>2 DEF SubmitFails, Admit, Step, SubInv, Early
    <3>2. Track(s, "FAILED") /\ "FAILED" \in Settled
      BY <3>1, Zenon DEF Mark, Settled
    <3> QED
      BY <1>2, <2>0, <3>1, <3>2
  <2>3. CASE \/ Refuse(s) \/ (Admit(s) /\ ~closed) \/ SubmitChecks(s) \/ Acquire(s) \/ Launch(s)
             \/ (\E cause \in {"context", "shutdown"} : Unpark(s, cause))
             \/ (\E ok \in BOOLEAN : SubmitExternal(s, ok)) \/ FinishSubmission(s)
    <3>1. task' = task
      BY <2>3, Zenon DEF Refuse, Admit, SubmitChecks, Acquire, Launch, Unpark, SubmitExternal,
         FinishSubmission
    <3> QED
      BY <1>1, <3>1
  <2> QED
    BY <1>3, <2>1, <2>2, <2>3 DEF Submission
<1>4. ASSUME WorkInv, NEW s \in Subs, Handling(s) \/ Evict(s) PROVE \A t \in Subs : MovesOn(t)
  <2>0. SubTypes /\ SubInv(s)
    BY <1>4, Zenon DEF WorkInv
  <2> HIDE DEF MovesOn
  <2>1. CASE MarkRunning(s)
    <3>1. task[s] = "PENDING" /\ Mark(s, "RUNNING")
      BY <2>0, <2>1 DEF MarkRunning, Progress, SubInv
    <3>2. Track(s, "RUNNING")
      BY <3>1, Zenon DEF Mark
    <3> QED
      BY <1>2, <2>0, <3>1, <3>2
  <2>2. CASE \E status \in Settled : Return(s, status)
    <3>1. PICK v \in Settled : task[s] = "RUNNING" /\ Mark(s, v)
      BY <2>0, <2>2 DEF Return, Progress, SubInv
    <3>2. Track(s, v)
      BY <3>1, Zenon DEF Mark
    <3> QED
      BY <1>2, <2>0, <3>1, <3>2
  <2>3. CASE Evict(s)
    BY <1>2, <2>0, <2>3 DEF Evict
  <2>4. CASE ReleaseSlot(s) \/ Leave(s)
    <3>1. task' = task
      BY <2>4, Zenon DEF ReleaseSlot, Leave
    <3> QED
      BY <1>1, <3>1
  <2> QED
    BY <1>4, <2>1, <2>2, <2>3, <2>4 DEF Handling
<1>5. ASSUME WorkInv, NEW c \in Callers, Shutdown(c) \/ Expire(c) PROVE \A t \in Subs : MovesOn(t)
  BY <1>1, <1>5, ShutdownLeavesWork
<1>6. ASSUME IInv, [Next]_vars PROVE \A t \in Subs : MovesOn(t)
  <2>1. CASE UNCHANGED vars
    BY <1>1, <2>1 DEF vars
  <2> HIDE DEF MovesOn
  <2> QED
    BY <1>3, <1>4, <1>5, <1>6, <2>1 DEF Next, IInv
<1>7. IInv /\ [Next]_vars => [\A s \in Subs : MovesOn(s)]_vars
  BY <1>6, Zenon
<1> QED
  BY <1>7, InitIInv, StepIInv, PTL DEF Spec, OutcomeIsFinal
=============================================================================
