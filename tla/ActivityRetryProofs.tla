------------------------- MODULE ActivityRetryProofs -------------------------
(***************************************************************************)
(* What the activity claim and the retry timer guarantee, for every number *)
(* of concurrent calls, every policy and any number of faults.             *)
(*                                                                         *)
(* OneBodyAtATime is not inductive.  BodyHoldsClaim is the reason it       *)
(* holds: a call that executes or persists is the one the claim names.     *)
(* That a call never exceeds the attempts of its policy (OpenHistory) is   *)
(* needed for type correctness.                                            *)
(***************************************************************************)
EXTENDS ActivityRetry, TLAPS

Records == {NoActivity} \cup ActivityRecord

Timers == {NoTimer} \cup TimerRecord

Answers == {"none", "pending", "result", "conflict"}

Body == {"exec", "put_final", "put_retry", "backoff"}

(* Places where the call carries a record that is not terminal. *)
Running ==
  {"consult", "arm", "verify", "claim1", "claim2", "lost1", "lost2", "busy1", "busy2",
   "refresh", "exec", "put_retry", "backoff", "unlock", "put_prepared"}

Labels == Running \cup {"idle", "put_final", "cleanup", "put_fired", "release", "return"}

Open(r) == ~ Terminal(r) => r.attempts < MaxAttempts

OpenHistory ==
  /\ Open(activity)
  /\ \A c \in Callers : Open(hand[c]) /\ (pc[c] \in Running => ~ Terminal(hand[c]))

BodyHoldsClaim == UseClaims => \A c \in Callers : pc[c] \in Body => claim = c

RetryInv == TypeOK /\ OpenHistory /\ BodyHoldsClaim

(* The arithmetic of the clock and of deadlines. *)
LEMMA Later ==
  ASSUME NEW n \in Nat
  PROVE  n >= n /\ n + 1 \in Nat /\ n + 1 >= n /\ \A m \in Nat : m > n => m # 0
  OBVIOUS

LEMMA RecordFacts ==
  ASSUME NEW r \in Records
  PROVE  /\ r.attempts \in 0..MaxAttempts /\ r.delay \in Nat /\ r.next \in Nat
         /\ r.status \in {"NONE", "RETRYING", "COMPLETED", "FAILED"}
  BY AttemptsArePositive DEF Records, NoActivity, ActivityRecord

LEMMA TimerFacts ==
  ASSUME NEW t \in Timers
  PROVE  t.at \in Nat /\ t.dur \in Nat /\ t.status \in {"NONE", "SCHEDULED", "FIRED"}
  BY DEF Timers, NoTimer, TimerRecord

LEMMA NoActivityFacts == NoActivity \in Records /\ Open(NoActivity) /\ ~ Terminal(NoActivity)
  BY AttemptsArePositive DEF Records, NoActivity, Open, Terminal

LEMMA NoTimerFacts == NoTimer \in Timers
  BY Zenon DEF Timers

LEMMA ScheduledType ==
  ASSUME NEW at \in Nat, NEW dur \in Nat
  PROVE  Scheduled(at, dur) \in Timers
  BY Zenon DEF Scheduled, Timers, TimerRecord

(* What a call makes of a record and a timer is a timer to write or to      *)
(* await.                                                                   *)
LEMMA VerdictType ==
  ASSUME NEW r \in Records, NEW t \in Timers
  PROVE  Verdict(r, t).timer \in Timers
  <1>1. Scheduled(r.next, r.delay) \in Timers
    BY RecordFacts, ScheduledType, Zenon
  <1>2. Scheduled(t.at, t.dur) \in Timers
    BY TimerFacts, ScheduledType, Zenon
  <1>3. /\ Put(r.next, r.delay).timer \in Timers
        /\ Await(t).timer \in Timers
        /\ Conflict.timer \in Timers
        /\ Prepared(t).timer \in Timers
    BY <1>1, <1>2, NoTimerFacts, Zenon DEF Put, Await, Conflict, Prepared
  <1>4. CASE r.next # 0
    BY <1>3, <1>4, Zenon DEF Verdict
  <1>5. CASE r.next = 0
    BY <1>3, <1>5, Zenon DEF Verdict
  <1> QED BY <1>4, <1>5, Zenon

(* The type invariant in the vocabulary of this module. *)
LEMMA TypeFacts ==
  TypeOK <=> /\ scenario \in Scenarios
             /\ activity \in Records /\ timer \in Timers
             /\ claim \in {"free", "leaked"} \cup Callers
             /\ workflow \in {"IN_PROGRESS", "TERMINAL"} /\ clock \in Nat
             /\ pc \in [Callers -> Labels] /\ hand \in [Callers -> Records]
             /\ draft \in [Callers -> Timers] /\ failed \in [Callers -> BOOLEAN]
             /\ answer \in [Callers -> Answers] /\ faults \in Nat
  <1>1. Labels = {"idle", "consult", "arm", "verify", "claim1", "claim2", "lost1", "lost2",
                  "busy1", "busy2", "refresh", "exec", "put_final", "put_retry", "backoff",
                  "unlock", "put_prepared", "cleanup", "put_fired", "release", "return"}
    BY DEF Labels, Running
  <1> QED BY <1>1, Zenon DEF TypeOK, Records, Timers, Answers

LEMMA RetryStarts == Init => RetryInv
  <1> SUFFICES ASSUME Init PROVE RetryInv
    OBVIOUS
  <1>1. TypeOK
    BY NoActivityFacts, NoTimerFacts, TypeFacts, Zenon DEF Init, Labels, Answers
  <1>2. OpenHistory
    BY NoActivityFacts, Zenon DEF Init, OpenHistory, Running
  <1>3. BodyHoldsClaim
    BY Zenon DEF Init, BodyHoldsClaim, Body
  <1> QED BY <1>1, <1>2, <1>3, Zenon DEF RetryInv

(* A step of one call: it takes the claim only when it is free, gives up    *)
(* only its own, and is in the body only with the claim.                    *)
LEMMA CallStep ==
  ASSUME RetryInv, NEW c \in Callers,
         scenario' = scenario, clock' \in Nat, faults' \in Nat,
         activity' \in {activity, hand[c]}, timer' \in Timers,
         workflow' \in {"IN_PROGRESS", "TERMINAL"},
         claim' \in {"free", "leaked"} \cup Callers, claim' = claim \/ claim \in {"free", c},
         NEW l \in Labels, pc' = [pc EXCEPT ![c] = l],
         hand' \in [Callers -> Records], draft' \in [Callers -> Timers],
         failed' \in [Callers -> BOOLEAN], answer' \in [Callers -> Answers],
         \A d \in Callers \ {c} : hand'[d] = hand[d],
         Open(hand'[c]), l \in Running => ~ Terminal(hand'[c]),
         UseClaims /\ l \in Body => claim' = c
  PROVE  RetryInv'
  <1>0. TypeOK /\ OpenHistory /\ BodyHoldsClaim
    BY Zenon DEF RetryInv
  <1>1. pc \in [Callers -> Labels] /\ hand \in [Callers -> Records] /\ activity \in Records
        /\ scenario \in Scenarios
    BY <1>0, TypeFacts, Zenon
  <1>2. pc' \in [Callers -> Labels] /\ pc'[c] = l /\ \A d \in Callers \ {c} : pc'[d] = pc[d]
    BY <1>1, Zenon
  <1>3. activity' \in Records
    BY <1>1
  <1>4. TypeOK'
    <2>1. scenario' \in Scenarios
      BY <1>1, Zenon
    <2> QED BY <2>1, <1>2, <1>3, TypeFacts DEF TypeOK, Records, Timers, Answers, Labels, Running
  <1>5. OpenHistory'
    <2>1. Open(activity')
      BY <1>0, Zenon DEF OpenHistory
    <2>2. ASSUME NEW d \in Callers
          PROVE  Open(hand'[d]) /\ (pc'[d] \in Running => ~ Terminal(hand'[d]))
      BY <1>0, <1>2, Zenon DEF OpenHistory
    <2> QED BY <2>1, <2>2, Zenon DEF OpenHistory, Open, Terminal
  <1>6. BodyHoldsClaim'
    <2> SUFFICES ASSUME UseClaims, NEW d \in Callers, pc'[d] \in Body PROVE claim' = d
      BY Zenon DEF BodyHoldsClaim
    <2>1. CASE d = c
      BY <2>1, <1>2, Zenon
    <2>2. CASE d # c
      <3>1. claim = d
        BY <2>2, <1>0, <1>2, Zenon DEF BodyHoldsClaim
      <3> QED BY <3>1, <2>2, ClaimValuesDistinct, Zenon
    <2> QED BY <2>1, <2>2, Zenon
  <1> QED BY <1>4, <1>5, <1>6, Zenon DEF RetryInv

(* CallStep for the many steps that leave the call's record and the history  *)
(* alone.                                                                    *)
LEMMA PlainStep ==
  ASSUME RetryInv, NEW c \in Callers,
         UNCHANGED <<scenario, activity, workflow, clock, hand, failed>>, faults' \in Nat,
         timer' \in Timers, draft' \in [Callers -> Timers],
         answer' = answer \/ \E a \in Answers : Answer(c, a),
         claim' \in {"free", "leaked"} \cup Callers, claim' = claim \/ claim \in {"free", c},
         NEW l \in Labels, Goto(c, l),
         l \in Running => ~ Terminal(hand[c]),
         UseClaims /\ l \in Body => claim' = c
  PROVE  RetryInv'
  <1>1. /\ TypeOK /\ OpenHistory
        /\ workflow \in {"IN_PROGRESS", "TERMINAL"} /\ clock \in Nat
        /\ hand \in [Callers -> Records] /\ failed \in [Callers -> BOOLEAN]
        /\ answer \in [Callers -> Answers]
    BY TypeFacts, Zenon DEF RetryInv
  <1>2. answer' \in [Callers -> Answers]
    BY <1>1, Zenon DEF Answer
  <1>3. pc' = [pc EXCEPT ![c] = l]
    BY Zenon DEF Goto
  <1>4. Open(hand[c])
    BY <1>1, Zenon DEF OpenHistory
  <1> QED BY <1>1, <1>2, <1>3, <1>4, CallStep, Zenon

LEMMA EnterStep ==
  ASSUME RetryInv, NEW c \in Callers, Enter(c, activity),
         UNCHANGED <<scenario, store, draft, faults>>
  PROVE  RetryInv'
  <1>1. /\ TypeOK /\ OpenHistory /\ activity \in Records /\ timer \in Timers
        /\ claim \in {"free", "leaked"} \cup Callers
        /\ workflow \in {"IN_PROGRESS", "TERMINAL"} /\ clock \in Nat /\ faults \in Nat
        /\ hand \in [Callers -> Records] /\ failed \in [Callers -> BOOLEAN]
        /\ answer \in [Callers -> Answers] /\ draft \in [Callers -> Timers]
    BY TypeFacts, Zenon DEF RetryInv
  <1>2. /\ hand' \in [Callers -> Records] /\ hand'[c] = activity
        /\ \A d \in Callers \ {c} : hand'[d] = hand[d]
        /\ failed' \in [Callers -> BOOLEAN]
    BY <1>1, Zenon DEF Enter
  <1>3. answer' \in [Callers -> Answers]
    BY <1>1, Zenon DEF Enter, Answer, Answers
  <1>4. PICK l \in Labels : /\ pc' = [pc EXCEPT ![c] = l]
                            /\ l \in Running => ~ Terminal(activity)
                            /\ UseClaims /\ l \in Body => claim = c
    <2>1. CASE Terminal(activity)
      <3>1. Goto(c, "cleanup") \/ Goto(c, "release")
        BY <2>1, Zenon DEF Enter
      <3> QED BY <3>1 DEF Goto, Labels, Running, Body
    <2>2. CASE ~ Terminal(activity)
      <3>1. \/ Goto(c, "consult") \/ Goto(c, "claim1")
            \/ Goto(c, "exec") /\ (UseClaims => claim = c)
        BY <2>2, Zenon DEF Enter, Holds
      <3> QED BY <3>1, <2>2 DEF Goto, Labels, Running, Body
    <2> QED BY <2>1, <2>2, Zenon
  <1>5. Open(hand'[c])
    BY <1>1, <1>2, Zenon DEF OpenHistory
  <1>6. UNCHANGED <<activity, timer, claim, workflow, clock, draft, faults, scenario>>
    BY Zenon DEF store
  <1> QED BY <1>1, <1>2, <1>3, <1>4, <1>5, <1>6, CallStep, Zenon

LEMMA ClockStep ==
  ASSUME RetryInv, clock' \in Nat,
         UNCHANGED <<scenario, activity, timer, workflow, calls, faults>>,
         claim' = claim \/ (claim = "leaked" /\ claim' = "free")
  PROVE  RetryInv'
  <1>1. UNCHANGED <<scenario, activity, timer, workflow, pc, hand, draft, failed, answer, faults>>
    BY Zenon DEF calls
  <1>2. TypeOK'
    BY <1>1, Zenon DEF RetryInv, TypeOK
  <1>3. OpenHistory'
    BY <1>1, Zenon DEF RetryInv, OpenHistory, Open, Terminal
  <1>4. BodyHoldsClaim'
    BY <1>1, ClaimValuesDistinct, Zenon DEF RetryInv, BodyHoldsClaim
  <1> QED BY <1>2, <1>3, <1>4, Zenon DEF RetryInv

(* Outcomes of a store call are charged to the faults. *)
LEMMA ChargeType ==
  ASSUME faults \in Nat, NEW o, Charge(o)
  PROVE  faults' \in Nat
  BY DEF Charge

(* After the timer is settled the call leaves with a pending answer, goes    *)
(* for the claim, or enters the body with it.                                *)
LEMMA SettledStep ==
  ASSUME RetryInv, NEW c \in Callers, NEW at \in Nat, Settled(c, at), pc[c] \in Running,
         UNCHANGED <<scenario, activity, claim, workflow, clock, hand, failed>>, faults' \in Nat,
         timer' \in Timers, draft' \in [Callers -> Timers]
  PROVE  RetryInv'
  <1>1. /\ TypeOK /\ OpenHistory /\ claim \in {"free", "leaked"} \cup Callers
    BY TypeFacts, Zenon DEF RetryInv
  <1>2. ~ Terminal(hand[c])
    BY <1>1, Zenon DEF OpenHistory
  <1>3. answer' = answer \/ \E a \in Answers : Answer(c, a)
    BY Zenon DEF Settled, Answers
  <1>4. PICK l \in Labels : Goto(c, l) /\ (UseClaims /\ l \in Body => claim = c)
    BY DEF Settled, Labels, Running, Body, Holds
  <1> QED BY <1>1, <1>2, <1>3, <1>4, PlainStep, Zenon

LEMMA ConsultStep ==
  ASSUME RetryInv, NEW c \in Callers, Consult(c), UNCHANGED scenario
  PROVE  RetryInv'
  <1>0. /\ TypeOK /\ OpenHistory /\ BodyHoldsClaim /\ activity \in Records /\ timer \in Timers
        /\ claim \in {"free", "leaked"} \cup Callers
        /\ workflow \in {"IN_PROGRESS", "TERMINAL"} /\ clock \in Nat /\ faults \in Nat
        /\ hand \in [Callers -> Records] /\ failed \in [Callers -> BOOLEAN]
        /\ answer \in [Callers -> Answers] /\ draft \in [Callers -> Timers]
    BY TypeFacts, Zenon DEF RetryInv
  <1> DEFINE v == Verdict(hand[c], timer)
  <1>1. v.timer \in Timers /\ v.timer.at \in Nat
    BY <1>0, VerdictType, TimerFacts, Zenon
  <1>2. pc[c] \in Running /\ ~ Terminal(hand[c])
    BY <1>0, Zenon DEF Consult, OpenHistory, Running
  <1>3. UNCHANGED <<scenario, activity, timer, claim, workflow, clock, hand, failed, faults>>
    BY Zenon DEF Consult, store
  <1> HIDE DEF v
  <1>4. CASE Goto(c, "release") /\ Answer(c, "conflict") /\ UNCHANGED draft
    BY <1>0, <1>3, <1>4, PlainStep, Zenon DEF Labels, Running, Body, Answers
  <1>5. CASE Goto(c, "arm") /\ UNCHANGED answer /\ draft' = [draft EXCEPT ![c] = v.timer]
    <2>1. draft' \in [Callers -> Timers]
      BY <1>0, <1>1, <1>5, Zenon
    <2> QED BY <2>1, <1>0, <1>2, <1>3, <1>5, PlainStep, Zenon DEF Labels, Running, Body
  <1>6. CASE Settled(c, v.timer.at) /\ UNCHANGED draft
    BY <1>0, <1>1, <1>2, <1>3, <1>6, SettledStep, Zenon
  <1> QED BY <1>4, <1>5, <1>6, Zenon DEF Consult, v

LEMMA ArmStep ==
  ASSUME RetryInv, NEW c \in Callers, Arm(c), UNCHANGED scenario
  PROVE  RetryInv'
  <1>0. /\ TypeOK /\ OpenHistory /\ BodyHoldsClaim /\ activity \in Records /\ timer \in Timers
        /\ claim \in {"free", "leaked"} \cup Callers
        /\ workflow \in {"IN_PROGRESS", "TERMINAL"} /\ clock \in Nat /\ faults \in Nat
        /\ hand \in [Callers -> Records] /\ failed \in [Callers -> BOOLEAN]
        /\ answer \in [Callers -> Answers] /\ draft \in [Callers -> Timers]
    BY TypeFacts, Zenon DEF RetryInv
  <1>1. pc[c] \in Running /\ ~ Terminal(hand[c])
    BY <1>0, Zenon DEF Arm, OpenHistory, Running
  <1>2. draft[c] \in Timers /\ draft[c].at \in Nat
    BY <1>0, TimerFacts, Zenon
  <1>3. PICK o \in Outcomes :
          /\ Charge(o) /\ timer' = IF o = "failed" THEN timer ELSE draft[c]
          /\ IF o = "ok" THEN Settled(c, draft[c].at) ELSE Goto(c, "verify") /\ UNCHANGED answer
    BY Zenon DEF Arm
  <1>4. /\ UNCHANGED <<scenario, activity, claim, workflow, clock, hand, draft, failed>>
        /\ faults' \in Nat /\ timer' \in Timers
    BY <1>0, <1>2, <1>3, ChargeType, Zenon DEF Arm
  <1>5. CASE Settled(c, draft[c].at)
    BY <1>0, <1>1, <1>2, <1>4, <1>5, SettledStep, Zenon
  <1>6. CASE Goto(c, "verify") /\ UNCHANGED answer
    BY <1>0, <1>1, <1>4, <1>6, PlainStep, Zenon DEF Labels, Running, Body
  <1> QED BY <1>3, <1>5, <1>6, Zenon

LEMMA VerifyStep ==
  ASSUME RetryInv, NEW c \in Callers, Verify(c), UNCHANGED scenario
  PROVE  RetryInv'
  <1>0. /\ TypeOK /\ OpenHistory /\ BodyHoldsClaim /\ activity \in Records /\ timer \in Timers
        /\ claim \in {"free", "leaked"} \cup Callers
        /\ workflow \in {"IN_PROGRESS", "TERMINAL"} /\ clock \in Nat /\ faults \in Nat
        /\ hand \in [Callers -> Records] /\ failed \in [Callers -> BOOLEAN]
        /\ answer \in [Callers -> Answers] /\ draft \in [Callers -> Timers]
    BY TypeFacts, Zenon DEF RetryInv
  <1>1. pc[c] \in Running
    BY Zenon DEF Verify, Running
  <1>2. draft[c].at \in Nat
    BY <1>0, TimerFacts, Zenon
  <1>3. UNCHANGED <<scenario, activity, timer, claim, workflow, clock, hand, draft, failed, faults>>
    BY Zenon DEF Verify, store
  <1>4. CASE Settled(c, draft[c].at)
    BY <1>0, <1>1, <1>2, <1>3, <1>4, SettledStep, Zenon
  <1>5. CASE Goto(c, "release") /\ Answer(c, "pending")
    BY <1>0, <1>3, <1>5, PlainStep, Zenon DEF Labels, Running, Body, Answers
  <1> QED BY <1>4, <1>5, Zenon DEF Verify

LEMMA GiveUpStep ==
  ASSUME RetryInv, NEW c \in Callers, GiveUp(c), UNCHANGED scenario
  PROVE  RetryInv'
  <1>0. /\ TypeOK /\ OpenHistory /\ BodyHoldsClaim /\ activity \in Records /\ timer \in Timers
        /\ claim \in {"free", "leaked"} \cup Callers
        /\ workflow \in {"IN_PROGRESS", "TERMINAL"} /\ clock \in Nat /\ faults \in Nat
        /\ hand \in [Callers -> Records] /\ failed \in [Callers -> BOOLEAN]
        /\ answer \in [Callers -> Answers] /\ draft \in [Callers -> Timers]
    BY TypeFacts, Zenon DEF RetryInv
  <1>1. /\ UNCHANGED <<activity, timer, claim, workflow, clock, hand, draft, failed>>
        /\ faults' \in Nat /\ Goto(c, "release") /\ Answer(c, "pending")
    BY <1>0 DEF GiveUp, store
  <1> QED BY <1>0, <1>1, PlainStep, Zenon DEF Labels, Running, Body, Answers

LEMMA TryCreateClaimStep ==
  ASSUME RetryInv, NEW c \in Callers, TryCreateClaim(c), UNCHANGED scenario
  PROVE  RetryInv'
  <1>0. /\ TypeOK /\ OpenHistory /\ BodyHoldsClaim /\ activity \in Records /\ timer \in Timers
        /\ claim \in {"free", "leaked"} \cup Callers
        /\ workflow \in {"IN_PROGRESS", "TERMINAL"} /\ clock \in Nat /\ faults \in Nat
        /\ hand \in [Callers -> Records] /\ failed \in [Callers -> BOOLEAN]
        /\ answer \in [Callers -> Answers] /\ draft \in [Callers -> Timers]
    BY TypeFacts, Zenon DEF RetryInv
  <1>1. ~ Terminal(hand[c])
    BY <1>0, Zenon DEF TryCreateClaim, OpenHistory, Running
  <1>2. UNCHANGED <<activity, timer, workflow, clock, hand, draft, failed>>
    BY Zenon DEF TryCreateClaim
  <1>3. CASE claim # "free"
    <2>1. UNCHANGED <<claim, answer, faults>> /\ (Goto(c, "lost1") \/ Goto(c, "lost2"))
      BY <1>3, Zenon DEF TryCreateClaim
    <2> QED BY <2>1, <1>0, <1>1, <1>2, PlainStep, Zenon DEF Labels, Running, Body
  <1>4. CASE claim = "free"
    <2>1. PICK o \in Outcomes :
            /\ Charge(o)
            /\ claim' = CASE o = "ok" -> c [] o = "lost" -> "leaked" [] OTHER -> claim
            /\ IF o = "ok" THEN Goto(c, "refresh") /\ UNCHANGED answer
                           ELSE Goto(c, "return") /\ Answer(c, "pending")
      BY <1>4, Zenon DEF TryCreateClaim
    <2>2. faults' \in Nat
      BY <1>0, <2>1, ChargeType, Zenon
    <2>3. claim' \in {"free", "leaked"} \cup Callers
      BY <2>1, <1>4, Zenon DEF Outcomes
    <2>4. answer' = answer \/ \E a \in Answers : Answer(c, a)
      BY <2>1, Zenon DEF Answers
    <2>5. CASE Goto(c, "refresh")
      BY <2>2, <2>3, <2>4, <2>5, <1>0, <1>1, <1>2, <1>4, PlainStep, Zenon DEF Labels, Running,
         Body
    <2>6. CASE Goto(c, "return")
      BY <2>2, <2>3, <2>4, <2>6, <1>0, <1>1, <1>2, <1>4, PlainStep, Zenon DEF Labels, Running,
         Body
    <2> QED BY <2>1, <2>5, <2>6, Zenon
  <1> QED BY <1>3, <1>4, Zenon

LEMMA LostClaimStep ==
  ASSUME RetryInv, NEW c \in Callers, LostClaim(c), UNCHANGED scenario
  PROVE  RetryInv'
  <1>0. /\ TypeOK /\ OpenHistory /\ BodyHoldsClaim /\ activity \in Records /\ timer \in Timers
        /\ claim \in {"free", "leaked"} \cup Callers
        /\ workflow \in {"IN_PROGRESS", "TERMINAL"} /\ clock \in Nat /\ faults \in Nat
        /\ hand \in [Callers -> Records] /\ failed \in [Callers -> BOOLEAN]
        /\ answer \in [Callers -> Answers] /\ draft \in [Callers -> Timers]
    BY TypeFacts, Zenon DEF RetryInv
  <1>1. ~ Terminal(hand[c])
    BY <1>0, Zenon DEF LostClaim, OpenHistory, Running
  <1>2. UNCHANGED <<store, draft, faults>>
    BY Zenon DEF LostClaim
  <1>3. CASE Enter(c, activity)
    BY <1>2, <1>3, EnterStep, Zenon
  <1>4. CASE (Goto(c, "busy1") \/ Goto(c, "busy2")) /\ UNCHANGED <<hand, failed, answer>>
    <2>1. UNCHANGED <<activity, timer, claim, workflow, clock>>
      BY <1>2, Zenon DEF store
    <2> QED BY <2>1, <1>0, <1>1, <1>2, <1>4, PlainStep, Zenon DEF Labels, Running, Body
  <1> QED BY <1>3, <1>4, Zenon DEF LostClaim

LEMMA ClaimBusyStep ==
  ASSUME RetryInv, NEW c \in Callers, ClaimBusy(c), UNCHANGED scenario
  PROVE  RetryInv'
  <1>0. /\ TypeOK /\ OpenHistory /\ BodyHoldsClaim /\ activity \in Records /\ timer \in Timers
        /\ claim \in {"free", "leaked"} \cup Callers
        /\ workflow \in {"IN_PROGRESS", "TERMINAL"} /\ clock \in Nat /\ faults \in Nat
        /\ hand \in [Callers -> Records] /\ failed \in [Callers -> BOOLEAN]
        /\ answer \in [Callers -> Answers] /\ draft \in [Callers -> Timers]
    BY TypeFacts, Zenon DEF RetryInv
  <1>1. ~ Terminal(hand[c])
    BY <1>0, Zenon DEF ClaimBusy, OpenHistory, Running
  <1>2. UNCHANGED <<activity, timer, claim, workflow, clock, hand, draft, failed, faults>>
    BY Zenon DEF ClaimBusy, store
  <1>3. \/ Goto(c, "claim2") /\ UNCHANGED answer
        \/ Goto(c, "return") /\ Answer(c, "pending")
    BY Zenon DEF ClaimBusy
  <1>4. answer' = answer \/ \E a \in Answers : Answer(c, a)
    BY <1>3, Zenon DEF Answers
  <1>5. CASE Goto(c, "claim2")
    BY <1>0, <1>1, <1>2, <1>4, <1>5, PlainStep, Zenon DEF Labels, Running, Body
  <1>6. CASE Goto(c, "return")
    BY <1>0, <1>1, <1>2, <1>4, <1>6, PlainStep, Zenon DEF Labels, Running, Body
  <1> QED BY <1>3, <1>5, <1>6, Zenon

(* The attempt a call is about to make is within the policy, and so are the *)
(* records of its outcomes.                                                  *)
LEMMA AttemptType ==
  ASSUME TypeOK, OpenHistory, NEW c \in Callers, pc[c] = "exec"
  PROVE  LET n == hand[c].attempts + 1
         IN  /\ n \in 1..MaxAttempts
             /\ \A s \in {"COMPLETED", "FAILED"} :
                  LET r == Record(s, n, 0, 0) IN r \in Records /\ Open(r)
             /\ n < MaxAttempts =>
                  \A ra \in scenario.retryAfters :
                    LET d == IF ra > Interval[n] THEN ra ELSE Interval[n]
                        r == Record("RETRYING", n, d, IF Durable(d) THEN clock + d ELSE 0)
                    IN  r \in Records /\ Open(r) /\ ~ Terminal(r)
  <1> DEFINE n == hand[c].attempts + 1
  <1>1. hand[c] \in Records /\ clock \in Nat /\ scenario \in Scenarios
    BY TypeFacts, Zenon
  <1>2. hand[c].attempts < MaxAttempts
    BY Zenon DEF OpenHistory, Open, Running
  <1>3. n \in 1..MaxAttempts
    BY <1>1, <1>2, RecordFacts, AttemptsArePositive
  <1> HIDE DEF n
  <1>4. ASSUME NEW s \in {"COMPLETED", "FAILED"}
        PROVE  Record(s, n, 0, 0) \in Records /\ Open(Record(s, n, 0, 0))
    BY <1>3, Zenon DEF Record, Records, ActivityRecord, Open, Terminal
  <1>5. ASSUME n < MaxAttempts, NEW d \in Nat, NEW at \in Nat
        PROVE  LET r == Record("RETRYING", n, d, at) IN r \in Records /\ Open(r) /\ ~ Terminal(r)
    BY <1>3, <1>5, Zenon DEF Record, Records, ActivityRecord, Open, Terminal
  <1>6. ASSUME n < MaxAttempts, NEW ra \in scenario.retryAfters
        PROVE  LET d == IF ra > Interval[n] THEN ra ELSE Interval[n]
                   r == Record("RETRYING", n, d, IF Durable(d) THEN clock + d ELSE 0)
               IN  r \in Records /\ Open(r) /\ ~ Terminal(r)
    <2> DEFINE d == IF ra > Interval[n] THEN ra ELSE Interval[n]
    <2>1. n \in 1..(MaxAttempts - 1)
      BY <1>3, <1>6, AttemptsArePositive
    <2>2. Interval[n] \in Nat /\ ra \in Nat
      BY <1>1, <2>1, <1>6, ScenariosAreSound, Zenon DEF Interval
    <2>3. d \in Nat
      BY <2>2, Zenon
    <2> HIDE DEF d
    <2>4. (IF Durable(d) THEN clock + d ELSE 0) \in Nat
      BY <1>1, <2>3
    <2> QED BY <1>5, <1>6, <2>3, <2>4, Zenon DEF d
  <1> QED BY <1>3, <1>4, <1>6, Zenon DEF n

(* The call keeps the claim, or leaves it behind.                            *)
LEMMA AbandonType ==
  ASSUME TypeOK, NEW c \in Callers, Abandon(c)
  PROVE  /\ claim' \in {"free", "leaked"} \cup Callers
         /\ claim' = claim \/ claim \in {"free", c}
  BY Zenon DEF TypeOK, Abandon, Holds

LEMMA ExecuteStep ==
  ASSUME RetryInv, NEW c \in Callers, Execute(c), UNCHANGED scenario
  PROVE  RetryInv'
  <1>0. /\ TypeOK /\ OpenHistory /\ BodyHoldsClaim /\ activity \in Records /\ timer \in Timers
        /\ claim \in {"free", "leaked"} \cup Callers
        /\ workflow \in {"IN_PROGRESS", "TERMINAL"} /\ clock \in Nat /\ faults \in Nat
        /\ hand \in [Callers -> Records] /\ failed \in [Callers -> BOOLEAN]
        /\ answer \in [Callers -> Answers] /\ draft \in [Callers -> Timers]
    BY TypeFacts, Zenon DEF RetryInv
  <1> DEFINE n == hand[c].attempts + 1
  <1>1. /\ UseClaims => claim = c
        /\ UNCHANGED <<activity, timer, claim, workflow, clock, draft, answer, faults>>
    BY <1>0, Zenon DEF Execute, BodyHoldsClaim, Body, store
  <1>2. PICK r \in Records, l \in Labels, f \in BOOLEAN :
          /\ hand' = [hand EXCEPT ![c] = r] /\ Open(r)
          /\ l \in Running => ~ Terminal(r)
          /\ Goto(c, l)
          /\ failed' = failed \/ failed' = [failed EXCEPT ![c] = f]
    <2>0. pc[c] = "exec"
      BY Zenon DEF Execute
    <2> HIDE DEF n
    <2>1. CASE /\ \E s \in {"COMPLETED", "FAILED"} :
                     hand' = [hand EXCEPT ![c] = Record(s, n, 0, 0)]
               /\ Goto(c, "put_final")
               /\ UNCHANGED failed
      <3>1. PICK s \in {"COMPLETED", "FAILED"} : hand' = [hand EXCEPT ![c] = Record(s, n, 0, 0)]
        BY <2>1, Zenon
      <3>2. Record(s, n, 0, 0) \in Records /\ Open(Record(s, n, 0, 0))
        BY <1>0, <2>0, AttemptType, Zenon DEF n
      <3>3. "put_final" \in Labels /\ "put_final" \notin Running
        BY Zenon DEF Labels, Running
      <3> QED BY <2>1, <3>1, <3>2, <3>3, Zenon
    <2>2. CASE /\ n < MaxAttempts
               /\ \E ra \in scenario.retryAfters :
                    LET d == IF ra > Interval[n] THEN ra ELSE Interval[n]
                    IN  /\ hand' = [hand EXCEPT ![c] =
                             Record("RETRYING", n, d, IF Durable(d) THEN clock + d ELSE 0)]
                        /\ Goto(c, IF Durable(d) THEN "consult" ELSE "put_retry")
                        /\ failed' = [failed EXCEPT ![c] = Durable(d)]
      <3>1. PICK ra \in scenario.retryAfters :
                    LET d == IF ra > Interval[n] THEN ra ELSE Interval[n]
                    IN  /\ hand' = [hand EXCEPT ![c] =
                             Record("RETRYING", n, d, IF Durable(d) THEN clock + d ELSE 0)]
                        /\ Goto(c, IF Durable(d) THEN "consult" ELSE "put_retry")
                        /\ failed' = [failed EXCEPT ![c] = Durable(d)]
        BY <2>2, Zenon
      <3> DEFINE d == IF ra > Interval[n] THEN ra ELSE Interval[n]
                 r == Record("RETRYING", n, d, IF Durable(d) THEN clock + d ELSE 0)
                 l == IF Durable(d) THEN "consult" ELSE "put_retry"
      <3>2. r \in Records /\ Open(r) /\ ~ Terminal(r)
        BY <1>0, <2>0, <2>2, AttemptType, Zenon DEF n
      <3>3. l \in Labels /\ Durable(d) \in BOOLEAN
        BY Zenon DEF Labels, Running, Durable
      <3>4. hand' = [hand EXCEPT ![c] = r] /\ Goto(c, l) /\ failed' = [failed EXCEPT ![c] = Durable(d)]
        BY <3>1, Zenon
      <3> HIDE DEF r, l, d
      <3> QED BY <3>2, <3>3, <3>4, Zenon
    <2> QED BY <2>1, <2>2, Zenon DEF Execute, n
  <1>3. /\ hand' \in [Callers -> Records] /\ hand'[c] = r
        /\ \A d \in Callers \ {c} : hand'[d] = hand[d]
        /\ failed' \in [Callers -> BOOLEAN]
    BY <1>0, <1>2, Zenon
  <1>4. pc' = [pc EXCEPT ![c] = l]
    BY <1>2, Zenon DEF Goto
  <1> HIDE DEF n
  <1> QED BY <1>0, <1>1, <1>2, <1>3, <1>4, CallStep, Zenon

LEMMA PutFinalStep ==
  ASSUME RetryInv, NEW c \in Callers, PutFinal(c), UNCHANGED scenario
  PROVE  RetryInv'
  <1>0. /\ TypeOK /\ OpenHistory /\ BodyHoldsClaim /\ activity \in Records /\ timer \in Timers
        /\ claim \in {"free", "leaked"} \cup Callers
        /\ workflow \in {"IN_PROGRESS", "TERMINAL"} /\ clock \in Nat /\ faults \in Nat
        /\ hand \in [Callers -> Records] /\ failed \in [Callers -> BOOLEAN]
        /\ answer \in [Callers -> Answers] /\ draft \in [Callers -> Timers]
    BY TypeFacts, Zenon DEF RetryInv
  <1>1. PICK o \in Outcomes :
          /\ Charge(o)
          /\ activity' = IF o = "failed" THEN activity ELSE hand[c]
          /\ IF o = "ok"
               THEN /\ Goto(c, IF MayHaveTimer THEN "cleanup" ELSE "release")
                    /\ Answer(c, "result") /\ UNCHANGED claim
               ELSE Goto(c, "return") /\ Answer(c, "pending") /\ Abandon(c)
    BY Zenon DEF PutFinal
  <1>2. UNCHANGED <<timer, workflow, clock, hand, draft, failed>> /\ faults' \in Nat
    BY <1>0, <1>1, ChargeType, Zenon DEF PutFinal
  <1>3. answer' \in [Callers -> Answers]
    BY <1>0, <1>1, Zenon DEF Answer, Answers
  <1>4. /\ claim' \in {"free", "leaked"} \cup Callers
        /\ claim' = claim \/ claim \in {"free", c}
    BY <1>0, <1>1, AbandonType, Zenon
  <1>5. PICK l \in {"cleanup", "release", "return"} : pc' = [pc EXCEPT ![c] = l]
    BY <1>1, Zenon DEF Goto
  <1>6. l \in Labels /\ l \notin Running /\ l \notin Body
    BY <1>5, Zenon DEF Labels, Running, Body
  <1>7. Open(hand[c]) /\ activity' \in {activity, hand[c]}
    BY <1>0, <1>1, Zenon DEF OpenHistory
  <1> QED BY <1>0, <1>2, <1>3, <1>4, <1>5, <1>6, <1>7, CallStep, Zenon

LEMMA PutRetryStep ==
  ASSUME RetryInv, NEW c \in Callers, PutRetry(c), UNCHANGED scenario
  PROVE  RetryInv'
  <1>0. /\ TypeOK /\ OpenHistory /\ BodyHoldsClaim /\ activity \in Records /\ timer \in Timers
        /\ claim \in {"free", "leaked"} \cup Callers
        /\ workflow \in {"IN_PROGRESS", "TERMINAL"} /\ clock \in Nat /\ faults \in Nat
        /\ hand \in [Callers -> Records] /\ failed \in [Callers -> BOOLEAN]
        /\ answer \in [Callers -> Answers] /\ draft \in [Callers -> Timers]
    BY TypeFacts, Zenon DEF RetryInv
  <1>1. PICK o \in Outcomes :
          /\ Charge(o)
          /\ activity' = IF o = "failed" THEN activity ELSE hand[c]
          /\ draft' = [draft EXCEPT ![c] =
               IF o = "ok" THEN Scheduled(clock + hand[c].delay, hand[c].delay) ELSE @]
          /\ IF o = "ok" THEN Goto(c, "backoff") /\ UNCHANGED <<answer, claim>>
                         ELSE Goto(c, "return") /\ Answer(c, "pending") /\ Abandon(c)
    BY Zenon DEF PutRetry
  <1>2. UNCHANGED <<timer, workflow, clock, hand, failed>> /\ faults' \in Nat
    BY <1>0, <1>1, ChargeType, Zenon DEF PutRetry
  <1>3. answer' \in [Callers -> Answers]
    BY <1>0, <1>1, Zenon DEF Answer, Answers
  <1>4. /\ claim' \in {"free", "leaked"} \cup Callers
        /\ claim' = claim \/ claim \in {"free", c}
    BY <1>0, <1>1, AbandonType, Zenon
  <1>5. Scheduled(clock + hand[c].delay, hand[c].delay) \in Timers
    BY <1>0, RecordFacts, ScheduledType
  <1>6. draft' \in [Callers -> Timers]
    BY <1>0, <1>1, <1>5, Zenon
  <1>7. Open(hand[c]) /\ ~ Terminal(hand[c]) /\ activity' \in {activity, hand[c]}
    BY <1>0, <1>1, Zenon DEF OpenHistory, PutRetry, Running
  <1>8. UseClaims => claim = c
    BY <1>0, Zenon DEF PutRetry, BodyHoldsClaim, Body
  <1>9. PICK l \in {"backoff", "return"} :
          pc' = [pc EXCEPT ![c] = l] /\ (l = "backoff" => claim' = claim)
    BY <1>1, Zenon DEF Goto
  <1>10. l \in Labels /\ (l \in Body => l = "backoff")
    BY <1>9, Zenon DEF Labels, Running, Body
  <1> QED BY <1>0, <1>2, <1>3, <1>4, <1>6, <1>7, <1>8, <1>9, <1>10, CallStep, Zenon

LEMMA BackoffStep ==
  ASSUME RetryInv, NEW c \in Callers, Backoff(c), UNCHANGED scenario
  PROVE  RetryInv'
  <1>0. /\ TypeOK /\ OpenHistory /\ BodyHoldsClaim /\ activity \in Records /\ timer \in Timers
        /\ claim \in {"free", "leaked"} \cup Callers
        /\ workflow \in {"IN_PROGRESS", "TERMINAL"} /\ clock \in Nat /\ faults \in Nat
        /\ hand \in [Callers -> Records] /\ failed \in [Callers -> BOOLEAN]
        /\ answer \in [Callers -> Answers] /\ draft \in [Callers -> Timers]
    BY TypeFacts, Zenon DEF RetryInv
  <1>1. ~ Terminal(hand[c]) /\ (UseClaims => claim = c)
    BY <1>0, Zenon DEF Backoff, OpenHistory, Running, BodyHoldsClaim, Body
  <1>2. /\ UNCHANGED <<activity, timer, claim, workflow, clock, hand, draft, failed>>
        /\ faults' \in Nat
    BY <1>0 DEF Backoff, store
  <1>3. CASE Goto(c, "exec") /\ UNCHANGED answer
    BY <1>0, <1>1, <1>2, <1>3, PlainStep, Zenon DEF Labels, Running, Body
  <1>4. CASE Goto(c, "release") /\ Answer(c, "pending")
    BY <1>0, <1>1, <1>2, <1>4, PlainStep, Zenon DEF Labels, Running, Body, Answers
  <1> QED BY <1>3, <1>4, Zenon DEF Backoff

LEMMA UnlockStep ==
  ASSUME RetryInv, NEW c \in Callers, Unlock(c), UNCHANGED scenario
  PROVE  RetryInv'
  <1>0. /\ TypeOK /\ OpenHistory /\ BodyHoldsClaim /\ activity \in Records /\ timer \in Timers
        /\ claim \in {"free", "leaked"} \cup Callers
        /\ workflow \in {"IN_PROGRESS", "TERMINAL"} /\ clock \in Nat /\ faults \in Nat
        /\ hand \in [Callers -> Records] /\ failed \in [Callers -> BOOLEAN]
        /\ answer \in [Callers -> Answers] /\ draft \in [Callers -> Timers]
    BY TypeFacts, Zenon DEF RetryInv
  <1>1. ~ Terminal(hand[c])
    BY <1>0, Zenon DEF Unlock, OpenHistory, Running
  <1>2. UNCHANGED <<activity, timer, workflow, clock, hand, draft, failed>>
    BY Zenon DEF Unlock
  <1>3. /\ claim' \in {"free", "leaked"} \cup Callers
        /\ claim' = claim \/ claim = c
        /\ faults' \in Nat
        /\ answer' = answer \/ \E a \in Answers : Answer(c, a)
        /\ Goto(c, "put_prepared") \/ Goto(c, "return")
    <2>1. CASE Holds(c)
      <3>1. PICK o \in Outcomes :
              /\ Charge(o)
              /\ claim' = IF o = "failed" THEN "leaked" ELSE "free"
              /\ IF o = "ok" THEN Goto(c, "put_prepared") /\ UNCHANGED answer
                             ELSE Goto(c, "return") /\ Answer(c, "pending")
        BY <2>1, Zenon DEF Unlock
      <3>2. faults' \in Nat
        BY <1>0, <3>1, ChargeType, Zenon
      <3> QED BY <2>1, <3>1, <3>2, Zenon DEF Holds, Answers
    <2>2. CASE ~ Holds(c)
      BY <1>0, <2>2, Zenon DEF Unlock
    <2> QED BY <2>1, <2>2, Zenon
  <1>4. CASE Goto(c, "put_prepared")
    BY <1>0, <1>1, <1>2, <1>3, <1>4, PlainStep DEF Labels, Running, Body
  <1>5. CASE Goto(c, "return")
    BY <1>0, <1>1, <1>2, <1>3, <1>5, PlainStep, Zenon DEF Labels, Running, Body
  <1> QED BY <1>3, <1>4, <1>5, Zenon

LEMMA PutPreparedStep ==
  ASSUME RetryInv, NEW c \in Callers, PutPrepared(c), UNCHANGED scenario
  PROVE  RetryInv'
  <1>0. /\ TypeOK /\ OpenHistory /\ BodyHoldsClaim /\ activity \in Records /\ timer \in Timers
        /\ claim \in {"free", "leaked"} \cup Callers
        /\ workflow \in {"IN_PROGRESS", "TERMINAL"} /\ clock \in Nat /\ faults \in Nat
        /\ hand \in [Callers -> Records] /\ failed \in [Callers -> BOOLEAN]
        /\ answer \in [Callers -> Answers] /\ draft \in [Callers -> Timers]
    BY TypeFacts, Zenon DEF RetryInv
  <1>1. /\ UNCHANGED <<timer, claim, workflow, clock, hand, draft, failed>>
        /\ faults' \in Nat /\ activity' \in {activity, hand[c]}
    BY <1>0, ChargeType, Zenon DEF PutPrepared
  <1>2. answer' \in [Callers -> Answers] /\ pc' = [pc EXCEPT ![c] = "return"]
    BY <1>0, Zenon DEF PutPrepared, Answer, Answers, Goto
  <1>3. "return" \in Labels /\ "return" \notin Running /\ "return" \notin Body
    BY Zenon DEF Labels, Running, Body
  <1>4. Open(hand[c])
    BY <1>0, Zenon DEF OpenHistory
  <1> QED BY <1>0, <1>1, <1>2, <1>3, <1>4, CallStep, Zenon

LEMMA CleanupStep ==
  ASSUME RetryInv, NEW c \in Callers, Cleanup(c), UNCHANGED scenario
  PROVE  RetryInv'
  <1>0. /\ TypeOK /\ OpenHistory /\ BodyHoldsClaim /\ activity \in Records /\ timer \in Timers
        /\ claim \in {"free", "leaked"} \cup Callers
        /\ workflow \in {"IN_PROGRESS", "TERMINAL"} /\ clock \in Nat /\ faults \in Nat
        /\ hand \in [Callers -> Records] /\ failed \in [Callers -> BOOLEAN]
        /\ answer \in [Callers -> Answers] /\ draft \in [Callers -> Timers]
    BY TypeFacts, Zenon DEF RetryInv
  <1>1. UNCHANGED <<activity, timer, claim, workflow, clock, hand, failed, answer, faults>>
    BY Zenon DEF Cleanup, store
  <1>2. timer.status = "SCHEDULED" => [timer EXCEPT !.status = "FIRED"] \in Timers
    BY <1>0 DEF Timers, NoTimer, TimerRecord
  <1>3. draft' \in [Callers -> Timers] /\ (Goto(c, "put_fired") \/ Goto(c, "release"))
    BY <1>0, <1>2, Zenon DEF Cleanup
  <1>4. PICK l \in {"put_fired", "release"} : Goto(c, l)
    BY <1>3, Zenon
  <1>5. l \in Labels /\ l \notin Running /\ l \notin Body
    BY <1>4, Zenon DEF Labels, Running, Body
  <1> QED BY <1>0, <1>1, <1>3, <1>4, <1>5, PlainStep, Zenon

LEMMA PutFiredStep ==
  ASSUME RetryInv, NEW c \in Callers, PutFired(c), UNCHANGED scenario
  PROVE  RetryInv'
  <1>0. /\ TypeOK /\ OpenHistory /\ BodyHoldsClaim /\ activity \in Records /\ timer \in Timers
        /\ claim \in {"free", "leaked"} \cup Callers
        /\ workflow \in {"IN_PROGRESS", "TERMINAL"} /\ clock \in Nat /\ faults \in Nat
        /\ hand \in [Callers -> Records] /\ failed \in [Callers -> BOOLEAN]
        /\ answer \in [Callers -> Answers] /\ draft \in [Callers -> Timers]
    BY TypeFacts, Zenon DEF RetryInv
  <1>1. /\ UNCHANGED <<activity, claim, workflow, clock, hand, draft, failed, answer>>
        /\ Goto(c, "release")
    BY Zenon DEF PutFired
  <1>2. faults' \in Nat /\ timer' \in Timers
    BY <1>0, ChargeType, Zenon DEF PutFired
  <1>3. "release" \in Labels /\ "release" \notin Running /\ "release" \notin Body
    BY Zenon DEF Labels, Running, Body
  <1> QED BY <1>0, <1>1, <1>2, <1>3, PlainStep, Zenon

LEMMA ReleaseStep ==
  ASSUME RetryInv, NEW c \in Callers, Release(c), UNCHANGED scenario
  PROVE  RetryInv'
  <1>0. /\ TypeOK /\ OpenHistory /\ BodyHoldsClaim /\ activity \in Records /\ timer \in Timers
        /\ claim \in {"free", "leaked"} \cup Callers
        /\ workflow \in {"IN_PROGRESS", "TERMINAL"} /\ clock \in Nat /\ faults \in Nat
        /\ hand \in [Callers -> Records] /\ failed \in [Callers -> BOOLEAN]
        /\ answer \in [Callers -> Answers] /\ draft \in [Callers -> Timers]
    BY TypeFacts, Zenon DEF RetryInv
  <1>1. UNCHANGED <<activity, timer, workflow, clock, hand, draft, failed>> /\ Goto(c, "return")
    BY Zenon DEF Release
  <1>2. /\ claim' \in {"free", "leaked"} \cup Callers
        /\ claim' = claim \/ claim = c
        /\ faults' \in Nat
        /\ answer' = answer \/ \E a \in Answers : Answer(c, a)
    <2>1. CASE Holds(c)
      <3>1. PICK o \in Outcomes :
              /\ Charge(o)
              /\ claim' = IF o = "failed" THEN "leaked" ELSE "free"
              /\ Answer(c, IF o = "ok" THEN answer[c] ELSE "pending")
        BY <2>1, Zenon DEF Release
      <3>2. faults' \in Nat
        BY <1>0, <3>1, ChargeType, Zenon
      <3>3. (IF o = "ok" THEN answer[c] ELSE "pending") \in Answers
        BY <1>0, Zenon DEF Answers
      <3> QED BY <2>1, <3>1, <3>2, <3>3, Zenon DEF Holds
    <2>2. CASE ~ Holds(c)
      BY <1>0, <2>2, Zenon DEF Release
    <2> QED BY <2>1, <2>2, Zenon
  <1>3. "return" \in Labels /\ "return" \notin Running /\ "return" \notin Body
    BY Zenon DEF Labels, Running, Body
  <1> QED BY <1>0, <1>1, <1>2, <1>3, PlainStep, Zenon

LEMMA ReturnStep ==
  ASSUME RetryInv, NEW c \in Callers, Return(c), UNCHANGED scenario
  PROVE  RetryInv'
  <1>0. /\ TypeOK /\ OpenHistory /\ BodyHoldsClaim /\ activity \in Records /\ timer \in Timers
        /\ claim \in {"free", "leaked"} \cup Callers
        /\ workflow \in {"IN_PROGRESS", "TERMINAL"} /\ clock \in Nat /\ faults \in Nat
        /\ hand \in [Callers -> Records] /\ failed \in [Callers -> BOOLEAN]
        /\ answer \in [Callers -> Answers] /\ draft \in [Callers -> Timers]
    BY TypeFacts, Zenon DEF RetryInv
  <1>1. UNCHANGED <<activity, timer, claim, clock>> /\ pc' = [pc EXCEPT ![c] = "idle"]
    BY Zenon DEF Return, Goto
  <1>2. workflow' \in {"IN_PROGRESS", "TERMINAL"} /\ faults' \in Nat
    BY <1>0, ChargeType, Zenon DEF Return
  <1>3. /\ hand' \in [Callers -> Records] /\ hand'[c] = NoActivity
        /\ \A d \in Callers \ {c} : hand'[d] = hand[d]
    BY <1>0, NoActivityFacts, Zenon DEF Return, Forget
  <1>4. draft' \in [Callers -> Timers]
    BY <1>0, NoTimerFacts, Zenon DEF Return, Forget
  <1>5. failed' \in [Callers -> BOOLEAN] /\ answer' \in [Callers -> Answers]
    BY <1>0, Zenon DEF Return, Forget, Answer, Answers
  <1>6. "idle" \in Labels /\ "idle" \notin Running /\ "idle" \notin Body
    BY Zenon DEF Labels, Running, Body
  <1> QED BY <1>0, <1>1, <1>2, <1>3, <1>4, <1>5, <1>6, NoActivityFacts, CallStep, Zenon

LEMMA CrashStep ==
  ASSUME RetryInv, Crash, UNCHANGED scenario
  PROVE  RetryInv'
  <1>0. /\ TypeOK /\ OpenHistory /\ BodyHoldsClaim /\ activity \in Records /\ timer \in Timers
        /\ claim \in {"free", "leaked"} \cup Callers
        /\ workflow \in {"IN_PROGRESS", "TERMINAL"} /\ clock \in Nat /\ faults \in Nat
        /\ hand \in [Callers -> Records] /\ failed \in [Callers -> BOOLEAN]
        /\ answer \in [Callers -> Answers] /\ draft \in [Callers -> Timers]
    BY TypeFacts, Zenon DEF RetryInv
  <1>1. TypeOK'
    <2>1. /\ activity' \in Records /\ timer' \in Timers
          /\ workflow' \in {"IN_PROGRESS", "TERMINAL"} /\ clock' \in Nat
          /\ claim' \in {"free", "leaked"} \cup Callers /\ faults' \in Nat
          /\ scenario' \in Scenarios
      BY <1>0, TypeFacts DEF Crash
    <2>2. pc' \in [Callers -> Labels] /\ answer' \in [Callers -> Answers]
      BY Zenon DEF Crash, Labels, Answers
    <2>3. hand' \in [Callers -> Records] /\ draft' \in [Callers -> Timers]
      BY NoActivityFacts, NoTimerFacts, Zenon DEF Crash
    <2>4. failed' \in [Callers -> BOOLEAN]
      BY Zenon DEF Crash
    <2> QED BY <2>1, <2>2, <2>3, <2>4, Zenon DEF TypeOK, Records, Timers, Answers, Labels, Running
  <1>2. OpenHistory'
    <2>1. activity' = activity
      BY Zenon DEF Crash
    <2>2. \A c \in Callers : hand'[c] = NoActivity /\ pc'[c] = "idle"
      BY Zenon DEF Crash
    <2> QED BY <1>0, <2>1, <2>2, NoActivityFacts, Zenon DEF OpenHistory, Open, Terminal, Running
  <1>3. BodyHoldsClaim'
    BY Zenon DEF BodyHoldsClaim, Body, Crash
  <1> QED BY <1>1, <1>2, <1>3, Zenon DEF RetryInv

LEMMA RetryInvariant == RetryInv /\ [Next]_vars => RetryInv'
  <1> SUFFICES ASSUME RetryInv, [Next]_vars PROVE RetryInv'
    OBVIOUS
  <1>1. CASE UNCHANGED vars
    <2>1. UNCHANGED <<scenario, activity, timer, claim, workflow, clock, calls, faults>>
      BY <1>1, Zenon DEF vars, store
    <2>2. clock \in Nat
      BY TypeFacts, Zenon DEF RetryInv
    <2> QED BY <2>1, <2>2, ClockStep, Zenon
  <1>2. CASE Next
    <2>0. UNCHANGED scenario
      BY <1>2, Zenon DEF Next
    <2>1. ASSUME NEW c \in Callers, Call(c) PROVE RetryInv'
      BY <2>0, <2>1, EnterStep, Zenon DEF Call
    <2>2. ASSUME NEW c \in Callers, Step(c) PROVE RetryInv'
      <3>1. CASE Refresh(c)
        BY <2>0, <3>1, EnterStep, Zenon DEF Refresh
      <3>2. CASE Consult(c) \/ Arm(c) \/ Verify(c)
        BY <2>0, <3>2, ConsultStep, ArmStep, VerifyStep, Zenon
      <3>3. CASE TryCreateClaim(c) \/ LostClaim(c) \/ ClaimBusy(c)
        BY <2>0, <3>3, TryCreateClaimStep, LostClaimStep, ClaimBusyStep, Zenon
      <3>4. CASE Execute(c) \/ PutFinal(c) \/ PutRetry(c) \/ Backoff(c)
        BY <2>0, <3>4, ExecuteStep, PutFinalStep, PutRetryStep, BackoffStep, Zenon
      <3>5. CASE Unlock(c) \/ PutPrepared(c) \/ Cleanup(c) \/ PutFired(c) \/ Release(c)
        BY <2>0, <3>5, UnlockStep, PutPreparedStep, CleanupStep, PutFiredStep, ReleaseStep,
           Zenon
      <3> QED BY <2>2, <3>1, <3>2, <3>3, <3>4, <3>5, Zenon DEF Step
    <2>3. ASSUME NEW c \in Callers, GiveUp(c) \/ Return(c) PROVE RetryInv'
      BY <2>0, <2>3, GiveUpStep, ReturnStep, Zenon
    <2>4. CASE Crash
      BY <2>0, <2>4, CrashStep, Zenon
    <2>5. CASE OperatorRelease
      <3>1. clock \in Nat
        BY TypeFacts, Zenon DEF RetryInv
      <3> QED BY <2>0, <2>5, <3>1, ClockStep, Zenon DEF OperatorRelease
    <2>6. CASE Tick
      <3>1. clock' \in Nat
        BY <2>6, TypeFacts DEF RetryInv, Tick
      <3> QED BY <2>0, <2>6, <3>1, ClockStep, Zenon DEF Tick
    <2> QED BY <1>2, <2>1, <2>2, <2>3, <2>4, <2>5, <2>6, Zenon DEF Next
  <1> QED BY <1>1, <1>2, Zenon

-----------------------------------------------------------------------------
(* Type correctness, in particular that no record has more attempts than     *)
(* the policy allows, whatever the number of calls, the intervals, the       *)
(* retry_after floors and the faults.                                        *)
THEOREM TypeCorrect == Spec => []TypeOK
  <1>1. RetryInv => TypeOK
    BY Zenon DEF RetryInv
  <1> QED BY <1>1, RetryStarts, RetryInvariant, PTL DEF Spec

(* With claims, two calls never execute the activity, or persist what it     *)
(* did, at the same time, for any number of concurrent calls and through     *)
(* any number of crashes, lost answers and operator releases.                *)
THEOREM BodiesAreExclusive == Spec => []OneBodyAtATime
  <1>1. RetryInv => OneBodyAtATime
    BY Zenon DEF RetryInv, BodyHoldsClaim, OneBodyAtATime, InBody, Body
  <1> QED BY <1>1, RetryStarts, RetryInvariant, PTL DEF Spec

-----------------------------------------------------------------------------
(* In-process backoff: while the claim is held, the record the holder has in *)
(* hand is the stored one, or the stored one plus the attempt just made.     *)
InProcessOnly == UseClaims /\ \A s \in Scenarios : s.threshold = 0

DurablePlaces ==
  {"consult", "arm", "verify", "unlock", "put_prepared", "cleanup", "put_fired"}

UpToDate(c) ==
  /\ pc[c] \notin DurablePlaces
  /\ pc[c] \in Body => ~ Terminal(activity)
  /\ pc[c] \in {"exec", "backoff"} => hand[c].attempts = activity.attempts
  /\ pc[c] \in {"put_final", "put_retry"} => hand[c].attempts = activity.attempts + 1

HolderUpToDate == \A c \in Callers : UpToDate(c)

LEMMA NoDurableBackoff ==
  ASSUME InProcessOnly, TypeOK
  PROVE  ~ MayHaveTimer /\ \A d : ~ Durable(d)
  BY DEF InProcessOnly, TypeOK, MayHaveTimer, Durable, Threshold

(* What one call does to the others: it changes the record only in the       *)
(* body, where it is alone.                                                  *)
LEMMA OthersUpToDate ==
  ASSUME InProcessOnly, RetryInv, HolderUpToDate, NEW c \in Callers,
         activity' = activity \/ pc[c] \in Body,
         \A d \in Callers \ {c} : pc'[d] = pc[d] /\ hand'[d] = hand[d],
         UpToDate(c)'
  PROVE  HolderUpToDate'
  <1> SUFFICES ASSUME NEW d \in Callers PROVE UpToDate(d)'
    BY Zenon DEF HolderUpToDate
  <1>1. CASE d = c
    BY <1>1, Zenon
  <1>2. CASE d # c /\ activity' = activity
    BY <1>2 DEF HolderUpToDate, UpToDate
  <1>3. CASE d # c /\ pc[c] \in Body
    <2>1. pc[d] \notin Body
      BY <1>3, Zenon DEF RetryInv, BodyHoldsClaim, InProcessOnly
    <2>2. pc'[d] = pc[d] /\ UpToDate(d)
      BY <1>3, Zenon DEF HolderUpToDate
    <2> QED BY <2>1, <2>2, Zenon DEF UpToDate, Body
  <1> QED BY <1>1, <1>2, <1>3, Zenon

LEMMA OthersKept ==
  ASSUME TypeOK, NEW c \in Callers, NEW l, Goto(c, l)
  PROVE  pc'[c] = l /\ \A d \in Callers \ {c} : pc'[d] = pc[d]
  BY Zenon DEF TypeOK, Goto

(* A call that goes to a place outside the body, and leaves the records      *)
(* alone unless it was in the body.                                          *)
LEMMA OutsideBody ==
  ASSUME InProcessOnly, RetryInv, HolderUpToDate, NEW c \in Callers,
         activity' = activity \/ pc[c] \in Body,
         \A d \in Callers \ {c} : hand'[d] = hand[d],
         NEW l \in Labels, Goto(c, l), l \notin Body, l \notin DurablePlaces
  PROVE  HolderUpToDate'
  <1>1. pc'[c] = l /\ \A d \in Callers \ {c} : pc'[d] = pc[d]
    BY OthersKept, Zenon DEF RetryInv
  <1>2. UpToDate(c)'
    BY <1>1, Zenon DEF UpToDate, Body
  <1> QED BY <1>1, <1>2, OthersUpToDate, Zenon

LEMMA EnterUpToDate ==
  ASSUME InProcessOnly, RetryInv, HolderUpToDate, NEW c \in Callers, Enter(c, activity),
         activity' = activity
  PROVE  HolderUpToDate'
  <1>0. TypeOK /\ ~ MayHaveTimer
    BY NoDurableBackoff, Zenon DEF RetryInv
  <1>1. /\ hand'[c] = activity /\ \A d \in Callers \ {c} : hand'[d] = hand[d]
    BY <1>0, Zenon DEF Enter, TypeOK
  <1>2. CASE Goto(c, "release") \/ Goto(c, "claim1")
    <2>1. PICK l \in {"release", "claim1"} : Goto(c, l)
      BY <1>2, Zenon
    <2>2. l \in Labels /\ l \notin Body /\ l \notin DurablePlaces
      BY <2>1, Zenon DEF Labels, Running, Body, DurablePlaces
    <2> QED BY <1>1, <2>1, <2>2, OutsideBody, Zenon
  <1>3. CASE Goto(c, "exec") /\ ~ Terminal(activity)
    <2>1. pc'[c] = "exec" /\ \A d \in Callers \ {c} : pc'[d] = pc[d]
      BY <1>0, <1>3, OthersKept, Zenon
    <2>2. UpToDate(c)'
      BY <1>1, <1>3, <2>1, Zenon DEF UpToDate, Body, DurablePlaces, Terminal
    <2> QED BY <1>1, <2>1, <2>2, OthersUpToDate
  <1> QED BY <1>0, <1>2, <1>3, Zenon DEF Enter

LEMMA ExecuteUpToDate ==
  ASSUME InProcessOnly, RetryInv, HolderUpToDate, NEW c \in Callers, Execute(c)
  PROVE  HolderUpToDate'
  <1> DEFINE n == hand[c].attempts + 1
  <1>0. TypeOK /\ (\A d : ~ Durable(d)) /\ activity' = activity /\ pc[c] = "exec"
    BY NoDurableBackoff, Zenon DEF RetryInv, Execute, store
  <1>1. hand[c].attempts = activity.attempts /\ ~ Terminal(activity)
    BY <1>0, Zenon DEF HolderUpToDate, UpToDate, Body
  <1>2. PICK l \in {"put_final", "put_retry"} :
          /\ Goto(c, l) /\ hand'[c].attempts = n
          /\ \A d \in Callers \ {c} : hand'[d] = hand[d]
    <2>1. ASSUME NEW s, NEW d, NEW at, hand' = [hand EXCEPT ![c] = Record(s, n, d, at)]
          PROVE  hand'[c].attempts = n /\ \A e \in Callers \ {c} : hand'[e] = hand[e]
      BY <1>0, <2>1, Zenon DEF Record, TypeOK
    <2>2. CASE \E s \in {"COMPLETED", "FAILED"} :
                 hand' = [hand EXCEPT ![c] = Record(s, n, 0, 0)] /\ Goto(c, "put_final")
      BY <2>1, <2>2, Zenon
    <2>3. CASE \E ra \in scenario.retryAfters :
                 LET d == IF ra > Interval[n] THEN ra ELSE Interval[n]
                 IN  /\ hand' = [hand EXCEPT ![c] = Record("RETRYING", n, d, 0)]
                     /\ Goto(c, "put_retry")
      BY <2>1, <2>3, Zenon
    <2> QED BY <1>0, <2>2, <2>3 DEF Execute
  <1>3. pc'[c] = l /\ \A d \in Callers \ {c} : pc'[d] = pc[d]
    BY <1>0, <1>2, OthersKept, Zenon
  <1>4. UpToDate(c)'
    BY <1>0, <1>1, <1>2, <1>3, Zenon DEF UpToDate, Body, DurablePlaces, Terminal
  <1> QED BY <1>0, <1>2, <1>3, <1>4, OthersUpToDate, Zenon

LEMMA PutRetryUpToDate ==
  ASSUME InProcessOnly, RetryInv, HolderUpToDate, NEW c \in Callers, PutRetry(c)
  PROVE  HolderUpToDate'
  <1>0. TypeOK /\ hand' = hand /\ pc[c] = "put_retry" /\ pc[c] \in Body
    BY Zenon DEF RetryInv, PutRetry, Body
  <1>1. CASE Goto(c, "return")
    BY <1>0, <1>1, OutsideBody, Zenon DEF Labels, Running, Body, DurablePlaces
  <1>2. CASE Goto(c, "backoff") /\ activity' = hand[c]
    <2>1. pc'[c] = "backoff" /\ \A d \in Callers \ {c} : pc'[d] = pc[d]
      BY <1>0, <1>2, OthersKept, Zenon
    <2>2. ~ Terminal(hand[c])
      BY <1>0, Zenon DEF RetryInv, OpenHistory, Running
    <2>3. UpToDate(c)'
      BY <1>0, <1>2, <2>1, <2>2, Zenon DEF UpToDate, Body, DurablePlaces, Terminal
    <2> QED BY <1>0, <2>1, <2>3, OthersUpToDate, Zenon
  <1> QED BY <1>1, <1>2, Zenon DEF PutRetry, Outcomes

LEMMA BackoffUpToDate ==
  ASSUME InProcessOnly, RetryInv, HolderUpToDate, NEW c \in Callers, Backoff(c)
  PROVE  HolderUpToDate'
  <1>0. TypeOK /\ hand' = hand /\ activity' = activity /\ pc[c] = "backoff"
    BY Zenon DEF RetryInv, Backoff, store
  <1>1. CASE Goto(c, "release")
    BY <1>0, <1>1, OutsideBody, Zenon DEF Labels, Running, Body, DurablePlaces
  <1>2. CASE Goto(c, "exec")
    <2>1. pc'[c] = "exec" /\ \A d \in Callers \ {c} : pc'[d] = pc[d]
      BY <1>0, <1>2, OthersKept, Zenon
    <2>2. UpToDate(c)'
      BY <1>0, <2>1, Zenon DEF HolderUpToDate, UpToDate, Body, DurablePlaces, Terminal
    <2> QED BY <1>0, <2>1, <2>2, OthersUpToDate, Zenon
  <1> QED BY <1>1, <1>2, Zenon DEF Backoff

(* The steps to a place outside the body. *)
LEMMA OtherStepsUpToDate ==
  ASSUME InProcessOnly, RetryInv, HolderUpToDate, NEW c \in Callers,
         \/ TryCreateClaim(c) \/ (LostClaim(c) /\ ~ Terminal(activity)) \/ ClaimBusy(c)
         \/ GiveUp(c) \/ PutFinal(c) \/ Release(c) \/ Return(c)
  PROVE  HolderUpToDate'
  <1>0. TypeOK /\ ~ MayHaveTimer
    BY NoDurableBackoff, Zenon DEF RetryInv
  <1> DEFINE Outside ==
        {"refresh", "lost1", "lost2", "busy1", "busy2", "claim2", "release", "return", "idle"}
  <1>1. ASSUME NEW l \in Outside PROVE l \in Labels /\ l \notin Body /\ l \notin DurablePlaces
    BY Zenon DEF Labels, Running, Body, DurablePlaces
  <1>2. activity' = activity \/ pc[c] \in Body
    BY Zenon DEF TryCreateClaim, LostClaim, ClaimBusy, GiveUp, PutFinal, Release, Return, store,
       Body
  <1>3. \A d \in Callers \ {c} : hand'[d] = hand[d]
    <2>1. CASE Return(c)
      BY <1>0, <2>1, Zenon DEF Return, Forget, TypeOK
    <2>2. CASE ~ Return(c)
      BY <2>2, Zenon DEF TryCreateClaim, LostClaim, ClaimBusy, GiveUp, PutFinal, Release
    <2> QED BY <2>1, <2>2, Zenon
  <1>4. \E l \in Outside : Goto(c, l)
    <2>1. CASE TryCreateClaim(c)
      BY <2>1, Zenon DEF TryCreateClaim
    <2>2. CASE PutFinal(c)
      BY <1>0, <2>2, Zenon DEF PutFinal
    <2>3. CASE LostClaim(c) /\ ~ Terminal(activity)
      BY <2>3, Zenon DEF LostClaim
    <2>4. CASE ClaimBusy(c)
      BY <2>4, Zenon DEF ClaimBusy
    <2>5. CASE GiveUp(c) \/ Release(c) \/ Return(c)
      BY <2>5, Zenon DEF GiveUp, Release, Return
    <2> QED BY <2>1, <2>2, <2>3, <2>4, <2>5, Zenon
  <1> HIDE DEF Outside
  <1> QED BY <1>1, <1>2, <1>3, <1>4, OutsideBody, Zenon

(* The steps at places a call without durable backoff never reaches. *)
LEMMA DurableStepsDisabled ==
  ASSUME HolderUpToDate, NEW c \in Callers
  PROVE  ~ (\/ Consult(c) \/ Arm(c) \/ Verify(c)
            \/ Unlock(c) \/ PutPrepared(c) \/ Cleanup(c) \/ PutFired(c))
  <1>1. pc[c] \notin DurablePlaces
    BY Zenon DEF HolderUpToDate, UpToDate
  <1> QED BY <1>1, Zenon DEF DurablePlaces, Consult, Arm, Verify, Unlock, PutPrepared, Cleanup, PutFired

LEMMA UpToDateInvariant ==
  ASSUME InProcessOnly, RetryInv, HolderUpToDate, [Next]_vars
  PROVE  HolderUpToDate'
  <1>1. ASSUME UNCHANGED <<activity, pc, hand>> PROVE HolderUpToDate'
    BY <1>1, Zenon DEF HolderUpToDate, UpToDate, Terminal
  <1>2. CASE UNCHANGED vars \/ OperatorRelease \/ Tick
    BY <1>1, <1>2, Zenon DEF vars, store, calls, OperatorRelease, Tick
  <1>3. CASE Crash
    <2>1. \A c \in Callers : pc'[c] = "idle"
      BY <1>3, Zenon DEF Crash
    <2> QED BY <2>1, Zenon DEF HolderUpToDate, UpToDate, Body, DurablePlaces
  <1>4. ASSUME NEW c \in Callers, Call(c) \/ Refresh(c) \/ (LostClaim(c) /\ Terminal(activity))
        PROVE  HolderUpToDate'
    BY <1>4, EnterUpToDate, Zenon DEF Call, Refresh, LostClaim, store
  <1>5. ASSUME NEW c \in Callers, Execute(c) \/ PutRetry(c) \/ Backoff(c) PROVE HolderUpToDate'
    BY <1>5, ExecuteUpToDate, PutRetryUpToDate, BackoffUpToDate, Zenon
  <1>6. ASSUME NEW c \in Callers,
               \/ TryCreateClaim(c) \/ (LostClaim(c) /\ ~ Terminal(activity)) \/ ClaimBusy(c)
               \/ GiveUp(c) \/ PutFinal(c) \/ Release(c) \/ Return(c)
        PROVE  HolderUpToDate'
    BY <1>6, OtherStepsUpToDate, Zenon
  <1> QED BY <1>2, <1>3, <1>4, <1>5, <1>6, DurableStepsDisabled, Zenon DEF Next, Step

(* Without durable backoff the claim also protects the record: however many  *)
(* calls, crashes, lost answers and operator releases there are, a terminal  *)
(* record is never replaced and the attempt history never shrinks.  (With    *)
(* durable backoff the claim is released before the RETRYING record is       *)
(* written, and this is lost.)                                               *)
THEOREM InProcessRetriesNeverRegress ==
  ASSUME InProcessOnly
  PROVE  Spec => RecordNeverRegresses
  <1>1. Init => HolderUpToDate
    BY Zenon DEF Init, HolderUpToDate, UpToDate, Body, DurablePlaces
  <1>2. RetryInv /\ HolderUpToDate /\ [Next]_vars => HolderUpToDate'
    BY UpToDateInvariant, Zenon
  <1>3. RetryInv /\ HolderUpToDate /\ [Next]_vars =>
          [/\ Terminal(activity) => activity' = activity
           /\ activity'.attempts >= activity.attempts]_vars
    <2> SUFFICES ASSUME RetryInv, HolderUpToDate, [Next]_vars
                 PROVE  \/ UNCHANGED vars
                        \/ /\ Terminal(activity) => activity' = activity
                           /\ activity'.attempts >= activity.attempts
      OBVIOUS
    <2>0. activity \in Records /\ activity.attempts \in Nat
      BY TypeFacts, RecordFacts, AttemptsArePositive DEF RetryInv
    <2>1. CASE activity' = activity
      BY <2>0, <2>1
    <2>2. ASSUME NEW c \in Callers, PutFinal(c) \/ PutRetry(c), activity' # activity
          PROVE  ~ Terminal(activity) /\ activity'.attempts >= activity.attempts
      <3>1. activity' = hand[c] /\ pc[c] \in {"put_final", "put_retry"}
        BY <2>2, Zenon DEF PutFinal, PutRetry
      <3>2. UpToDate(c)
        BY Zenon DEF HolderUpToDate
      <3>3. ~ Terminal(activity) /\ hand[c].attempts = activity.attempts + 1
        BY <3>1, <3>2, Zenon DEF UpToDate, Body
      <3> QED BY <2>0, <3>1, <3>3
    <2>3. ASSUME activity' # activity
          PROVE  UNCHANGED vars \/ \E c \in Callers : PutFinal(c) \/ PutRetry(c)
      <3>1. ASSUME NEW c \in Callers, Call(c) \/ Step(c) \/ GiveUp(c) \/ Return(c)
            PROVE  PutFinal(c) \/ PutRetry(c)
        BY <2>3, <3>1, DurableStepsDisabled
           DEF Call, Step, GiveUp, Return, TryCreateClaim, LostClaim, ClaimBusy, Refresh,
               Execute, Backoff, Release, store
      <3> QED BY <2>3, <3>1, Zenon DEF Next, Crash, OperatorRelease, Tick
    <2> QED BY <2>1, <2>2, <2>3, Zenon
  <1> QED BY <1>1, <1>2, <1>3, RetryStarts, RetryInvariant, PTL DEF Spec, RecordNeverRegresses

-----------------------------------------------------------------------------
(* Durable backoff, one call at a time.  RetryKeepsWake is not inductive:    *)
(* that the timer already stands where the record is about to point has to   *)
(* be known at every step between the two writes.  With in-process backoff   *)
(* there is no timer at all, however many calls there are.                   *)
Alone(s) == \A c, d \in s.callers : c = d

AllDurable(s) == s.threshold > 0 => \A n \in 1..(MaxAttempts - 1) : s.interval[n] >= s.threshold

Timerless ==
  Threshold = 0 =>
    /\ timer = NoTimer /\ activity.next = 0
    /\ \A c \in Callers : /\ pc[c] \notin DurablePlaces
                          /\ hand[c].next = 0 /\ answer[c] # "conflict"

(* The timer belongs to the recorded backoff, or to the one after the next   *)
(* attempt.                                                                  *)
Matches ==
  ~ Terminal(activity) /\ timer # NoTimer =>
    \/ activity.next # 0 /\ timer.at = activity.next /\ timer.dur = activity.delay
    \/ timer.at > activity.next /\ FitsNextAttempt(activity, timer)

Kept ==
  /\ RetryKeepsWake
  /\ Terminal(activity) => activity.next = 0
  /\ timer.status = "FIRED" => Terminal(activity)
  /\ ~ MayHaveTimer => timer = NoTimer
  /\ AllDurable(scenario) => Matches

(* The call brings the outcome of the attempt after the recorded ones. *)
Continues(c) == ~ Terminal(activity) /\ hand[c].attempts = activity.attempts + 1

Looking == {"claim1", "claim2", "lost1", "lost2", "busy1", "busy2", "exec", "backoff"}

Publishing == {"arm", "verify", "unlock", "put_prepared"}

(* A backoff being published: first the timer, then the record. *)
Backed(c) ==
  /\ Continues(c) /\ Durable(hand[c].delay) /\ hand[c].delay >= Interval[hand[c].attempts]
  /\ hand[c].next > activity.next
  /\ pc[c] = "consult" => timer.at < hand[c].next
  /\ pc[c] \in {"arm", "verify"} =>
       draft[c] = Scheduled(hand[c].next, hand[c].delay)
  /\ pc[c] \in {"unlock", "put_prepared"} => timer = Scheduled(hand[c].next, hand[c].delay)

Place(c) ==
  /\ pc[c] # "idle" => c \in scenario.callers
  /\ pc[c] \in Looking => ~ failed[c] /\ hand[c] = activity
  /\ pc[c] \in Publishing => failed[c]
  /\ pc[c] \in Publishing \cup {"consult"} => IF failed[c] THEN Backed(c) ELSE hand[c] = activity
  /\ pc[c] \in Body => ~ failed[c] /\ timer.at <= clock
  /\ pc[c] \in {"put_final", "put_retry"} => Continues(c) /\ hand[c].next = 0
  /\ pc[c] = "put_final" => Terminal(hand[c])
  /\ pc[c] = "put_retry" =>
       ~ Durable(hand[c].delay) /\ hand[c].delay >= Interval[hand[c].attempts]
  /\ pc[c] \in {"cleanup", "put_fired"} => Terminal(activity)
  /\ pc[c] = "put_fired" => timer.status = "SCHEDULED"
  /\ AllDurable(scenario) => answer[c] # "conflict"

AloneInv == Alone(scenario) => Kept /\ \A c \in Callers : Place(c)

LEMMA StoreFacts ==
  ASSUME RetryInv
  PROVE  /\ TypeOK /\ OpenHistory /\ scenario \in Scenarios
         /\ activity \in Records /\ activity.next \in Nat /\ activity.attempts \in 0..MaxAttempts
         /\ timer \in Timers /\ timer.at \in Nat /\ clock \in Nat
         /\ Threshold \in Nat /\ MaxAttempts \in Nat \ {0}
         /\ pc \in [Callers -> Labels] /\ hand \in [Callers -> Records]
         /\ draft \in [Callers -> Timers] /\ failed \in [Callers -> BOOLEAN]
         /\ answer \in [Callers -> Answers]
         /\ \A c \in Callers : /\ hand[c] \in Records /\ hand[c].next \in Nat /\ hand[c].delay \in Nat
                               /\ hand[c].attempts \in 0..MaxAttempts
  <1>1. /\ TypeOK /\ OpenHistory /\ scenario \in Scenarios /\ activity \in Records /\ timer \in Timers
        /\ clock \in Nat /\ pc \in [Callers -> Labels] /\ hand \in [Callers -> Records]
        /\ draft \in [Callers -> Timers] /\ failed \in [Callers -> BOOLEAN]
        /\ answer \in [Callers -> Answers]
    BY TypeFacts, Zenon DEF RetryInv
  <1>2. Threshold \in Nat /\ MaxAttempts \in Nat \ {0}
    BY <1>1, ScenariosAreSound, AttemptsArePositive, Zenon DEF Threshold
  <1>3. activity.next \in Nat /\ activity.attempts \in 0..MaxAttempts /\ timer.at \in Nat
    BY <1>1, RecordFacts, TimerFacts, Zenon
  <1>4. ASSUME NEW c \in Callers
        PROVE  /\ hand[c] \in Records /\ hand[c].next \in Nat /\ hand[c].delay \in Nat
               /\ hand[c].attempts \in 0..MaxAttempts
    <2>1. hand[c] \in Records
      BY <1>1, Zenon
    <2> QED BY <2>1, RecordFacts, Zenon
  <1> QED BY <1>1, <1>2, <1>3, <1>4, Zenon

(* What Verdict makes of a record and a timer. *)
LEMMA AwaitsTheTimer ==
  ASSUME NEW r \in Records, NEW t \in Timers, Verdict(r, t).do = "await"
  PROVE  Verdict(r, t).timer = t
  <1>1. Prepared(t).do = "await" => Prepared(t).timer = t
    BY Zenon DEF Prepared, Await, Put
  <1>2. Await(t).timer = t /\ Conflict.do # "await" /\ Put(r.next, r.delay).do # "await"
    BY Zenon DEF Await, Conflict, Put
  <1>3. CASE r.next # 0
    <2>1. \/ Verdict(r, t) = Put(r.next, r.delay) \/ Verdict(r, t) = Prepared(t)
          \/ Verdict(r, t) = Conflict \/ Verdict(r, t) = Await(t)
      BY <1>3 DEF Verdict
    <2> QED BY <1>1, <1>2, <2>1, Zenon
  <1>4. CASE r.next = 0
    <2>1. \/ Verdict(r, t) = Prepared(t) \/ Verdict(r, t) = Conflict \/ Verdict(r, t) = Await(t)
      BY <1>4, Zenon DEF Verdict
    <2> QED BY <1>1, <1>2, <2>1, Zenon
  <1> QED BY <1>3, <1>4, Zenon

LEMMA ArmsNewBackoff ==
  ASSUME NEW r \in Records, NEW t \in Timers, t.at < r.next
  PROVE  Verdict(r, t).do = "put" /\ Verdict(r, t).timer = Scheduled(r.next, r.delay)
  <1>1. r.next \in Nat /\ t.at \in Nat
    BY RecordFacts, TimerFacts, Zenon
  <1>2. r.next # 0 /\ ~ (t.at > r.next) /\ t.at # r.next
    BY <1>1
  <1>3. t # Scheduled(r.next, r.delay)
    BY <1>2 DEF Scheduled
  <1>4. Verdict(r, t) = Put(r.next, r.delay)
    BY <1>2, <1>3, Zenon DEF Verdict
  <1> QED BY <1>4 DEF Put

(* A stored record that is read again finds its timer in place. *)
LEMMA FindsItsTimer ==
  ASSUME RetryInv, Kept, ~ Terminal(activity)
  PROVE  /\ Verdict(activity, timer).do # "put"
         /\ AllDurable(scenario) => Verdict(activity, timer).do # "conflict"
  <1>0. /\ activity \in Records /\ timer \in Timers /\ activity.next \in Nat /\ timer.at \in Nat
        /\ timer.status \in {"NONE", "SCHEDULED", "FIRED"} /\ timer.dur \in Nat
    BY StoreFacts, TimerFacts, Zenon
  <1> USE <1>0
  <1>1. timer.status # "FIRED"
    BY Zenon DEF Kept
  <1>2. Prepared(timer) = Await(timer) /\ Await(timer).do = "await" /\ Conflict.do = "conflict"
    BY <1>1, Zenon DEF Prepared, Await, Conflict
  <1>3. CASE activity.next # 0
    <2>1. timer.status = "SCHEDULED" /\ timer.at >= activity.next /\ timer # NoTimer
      BY <1>3 DEF Kept, RetryKeepsWake, NoTimer
    <2>2. CASE timer.at > activity.next
      <3>0. timer.at # activity.next /\ timer # Scheduled(activity.next, activity.delay)
        BY <2>2 DEF Scheduled
      <3>1. Verdict(activity, timer) = IF FitsNextAttempt(activity, timer) THEN Prepared(timer) ELSE Conflict
        BY <1>3, <2>1, <2>2, <3>0, Zenon DEF Verdict
      <3>2. AllDurable(scenario) => FitsNextAttempt(activity, timer)
        BY <2>1, <2>2 DEF Kept, Matches
      <3> QED BY <1>2, <3>1, <3>2, Zenon
    <2>3. CASE timer.at = activity.next
      <3>1. CASE timer.dur # activity.delay
        <4>0. ~ (timer.at > activity.next) /\ timer # Scheduled(activity.next, activity.delay)
          BY <2>3, <3>1 DEF Scheduled
        <4>1. Verdict(activity, timer) = Conflict
          BY <1>3, <2>1, <2>3, <3>1, <4>0 DEF Verdict
        <4>2. ~ AllDurable(scenario)
          BY <2>1, <2>3, <3>1 DEF Kept, Matches
        <4> QED BY <1>2, <4>1, <4>2, Zenon
      <3>2. CASE timer.dur = activity.delay
        <4>1. timer = Scheduled(activity.next, activity.delay)
          BY <2>1, <2>3, <3>2, Zenon DEF Timers, TimerRecord, Scheduled
        <4>2. Verdict(activity, timer) = Await(timer)
          BY <1>3, <2>1, <2>3, <3>2, <4>1 DEF Verdict
        <4> QED BY <1>2, <4>2, Zenon
      <3> QED BY <3>1, <3>2, Zenon
    <2> QED BY <2>1, <2>2, <2>3
  <1>4. CASE activity.next = 0
    <2>1. CASE timer = NoTimer
      BY <1>2, <1>4, <2>1, Zenon DEF Verdict
    <2>2. CASE timer # NoTimer /\ FitsNextAttempt(activity, timer)
      <3>1. activity = NoActivity => timer.dur >= Interval[1] /\ timer.dur >= Threshold
        BY <2>2 DEF FitsNextAttempt, NoActivity
      <3>2. Verdict(activity, timer) = Prepared(timer)
        BY <1>4, <2>2, <3>1, Zenon DEF Verdict
      <3> QED BY <1>2, <3>2, Zenon
    <2>3. CASE timer # NoTimer /\ ~ FitsNextAttempt(activity, timer)
      <3>1. ~ AllDurable(scenario)
        BY <1>4, <2>3, Zenon DEF Kept, Matches
      <3>2. Verdict(activity, timer) = Prepared(timer) \/ Verdict(activity, timer) = Conflict
        BY <1>4, <2>3, Zenon DEF Verdict
      <3> QED BY <1>2, <3>1, <3>2, Zenon
    <2> QED BY <2>1, <2>2, <2>3, Zenon
  <1> QED BY <1>3, <1>4, Zenon

(* Only one call ever stands anywhere, so that a step is right when it is    *)
(* for the call that takes it.                                               *)
LEMMA OneCallSteps ==
  ASSUME RetryInv, Alone(scenario), AloneInv, UNCHANGED scenario,
         NEW c \in Callers, c \in scenario.callers,
         \A d \in Callers \ {c} : pc'[d] = pc[d] /\ answer'[d] = answer[d],
         Kept', Place(c)'
  PROVE  AloneInv'
  <1> SUFFICES ASSUME NEW d \in Callers PROVE Place(d)'
    BY Zenon DEF AloneInv
  <1>1. CASE d = c
    BY <1>1, Zenon
  <1>2. CASE d # c
    <2>1. Place(d) /\ d \notin scenario.callers
      BY <1>2, Zenon DEF AloneInv, Alone
    <2>2. pc[d] = "idle" /\ (AllDurable(scenario) => answer[d] # "conflict")
      BY <2>1, Zenon DEF Place
    <2>3. pc'[d] = "idle" /\ (AllDurable(scenario') => answer'[d] # "conflict")
      BY <1>2, <2>2, Zenon
    <2> QED BY <2>3, Zenon DEF Place, Looking, Publishing, Body
  <1> QED BY <1>1, <1>2, Zenon

LEMMA KeptAlong ==
  ASSUME Kept, UNCHANGED <<scenario, activity, timer>>
  PROVE  Kept'
  BY Zenon DEF Kept, RetryKeepsWake, Terminal, MayHaveTimer, Threshold, Matches,
     FitsNextAttempt, Interval

(* The call of a step, what it answers and where it goes. *)
LEMMA StepFacts ==
  ASSUME RetryInv, Alone(scenario), AloneInv, NEW c \in Callers
  PROVE  /\ Kept /\ Place(c) /\ (pc[c] # "idle" => c \in scenario.callers)
         /\ \A l : Goto(c, l) => pc'[c] = l /\ \A d \in Callers \ {c} : pc'[d] = pc[d]
         /\ \A a : Answer(c, a) => answer'[c] = a /\ \A d \in Callers \ {c} : answer'[d] = answer[d]
  <1>1. Kept /\ Place(c) /\ (pc[c] # "idle" => c \in scenario.callers)
    BY Zenon DEF AloneInv, Place
  <1>2. pc \in [Callers -> Labels] /\ answer \in [Callers -> Answers]
    BY StoreFacts, Zenon
  <1> QED BY <1>1, <1>2, Zenon DEF Goto, Answer

(* The call leaves. *)
LEMMA Leaving ==
  ASSUME RetryInv, Alone(scenario), AloneInv, UNCHANGED scenario, NEW c \in Callers, pc[c] # "idle",
         NEW l \in {"release", "return", "refresh", "idle"}, Goto(c, l), Kept',
         UNCHANGED answer \/ \E a \in {"none", "pending", "result"} : Answer(c, a)
  PROVE  AloneInv'
  <1>1. /\ c \in scenario.callers /\ pc'[c] = l /\ \A d \in Callers \ {c} : pc'[d] = pc[d]
        /\ Place(c)
    BY StepFacts, Zenon
  <1>2. /\ answer'[c] \in {answer[c], "none", "pending", "result"}
        /\ \A d \in Callers \ {c} : answer'[d] = answer[d]
    BY StepFacts, Zenon
  <1>3. AllDurable(scenario') => answer'[c] # "conflict"
    BY <1>1, <1>2, Zenon DEF Place
  <1>4. Place(c)'
    BY <1>1, <1>3, Zenon DEF Place, Looking, Publishing, Body
  <1> QED BY <1>1, <1>2, <1>4, OneCallSteps, Zenon

(* The call goes on with the record it has read. *)
LEMMA GoingOn ==
  ASSUME RetryInv, Alone(scenario), AloneInv, UNCHANGED <<scenario, activity, timer, clock>>,
         NEW c \in Callers, c \in scenario.callers,
         NEW l \in Looking \cup {"consult"}, Goto(c, l), l \in Body => timer.at <= clock,
         hand'[c] = activity, failed'[c] = FALSE,
         UNCHANGED answer \/ Answer(c, "none")
  PROVE  AloneInv'
  <1>1. /\ pc'[c] = l /\ \A d \in Callers \ {c} : pc'[d] = pc[d]
        /\ Kept /\ Place(c)
    BY StepFacts, Zenon
  <1>2. /\ answer'[c] \in {answer[c], "none"}
        /\ \A d \in Callers \ {c} : answer'[d] = answer[d]
    BY StepFacts, Zenon
  <1>3. AllDurable(scenario') => answer'[c] # "conflict"
    BY <1>1, <1>2, Zenon DEF Place
  <1>4. Place(c)'
    BY <1>1, <1>3, Zenon DEF Place, Looking, Publishing, Body
  <1>5. Kept'
    BY <1>1, KeptAlong, Zenon
  <1> QED BY <1>1, <1>2, <1>4, <1>5, OneCallSteps

LEMMA EnterAlone ==
  ASSUME RetryInv, Alone(scenario), AloneInv, UNCHANGED <<scenario, store>>,
         NEW c \in Callers, c \in scenario.callers, Enter(c, activity)
  PROVE  AloneInv'
  <1>0. /\ hand \in [Callers -> Records] /\ failed \in [Callers -> BOOLEAN]
        /\ timer.at \in Nat /\ clock \in Nat
    BY StoreFacts, Zenon
  <1>1. hand'[c] = activity /\ failed'[c] = FALSE
    BY <1>0, Zenon DEF Enter
  <1>2. UNCHANGED <<scenario, activity, timer, clock>>
    BY Zenon DEF store
  <1>3. Kept'
    BY <1>2, StepFacts, KeptAlong, Zenon
  <1>4. CASE Terminal(activity)
    <2>1. PICK l \in {"cleanup", "release"} : Goto(c, l)
      BY <1>4, Zenon DEF Enter
    <2>2. /\ pc'[c] = l /\ answer'[c] = "result"
          /\ \A d \in Callers \ {c} : pc'[d] = pc[d] /\ answer'[d] = answer[d]
      BY <1>4, <2>1, StepFacts, Zenon DEF Enter
    <2>3. Terminal(activity')
      BY <1>2, <1>4, Zenon
    <2>4. Place(c)'
      BY <2>2, <2>3, Zenon DEF Place, Looking, Publishing, Body, Terminal
    <2> QED BY <1>3, <2>2, <2>4, OneCallSteps, Zenon
  <1>5. CASE ~ Terminal(activity)
    <2>1. PICK l \in {"consult", "claim1", "exec"} : Goto(c, l) /\ (l = "exec" => ~ MayHaveTimer)
      BY <1>5, Zenon DEF Enter
    <2>2. l = "exec" => timer.at = 0
      BY <2>1, StepFacts DEF Kept, NoTimer
    <2>3. l \in Looking \cup {"consult"} /\ (l \in Body => timer.at <= clock)
      BY <1>0, <2>1, <2>2 DEF Looking, Body
    <2> QED BY <1>1, <1>2, <1>5, <2>1, <2>3, GoingOn, Zenon DEF Enter
  <1> QED BY <1>4, <1>5, Zenon

(* The call knows the instant to wait for. *)
LEMMA SettledAlone ==
  ASSUME RetryInv, Alone(scenario), AloneInv, UNCHANGED <<scenario, activity, clock, hand, failed>>,
         NEW c \in Callers, pc[c] \in {"consult", "arm", "verify"}, NEW at, Settled(c, at), Kept',
         failed[c] => timer' = Scheduled(hand[c].next, hand[c].delay),
         ~ failed[c] => timer' = timer /\ at = timer.at
  PROVE  AloneInv'
  <1>0. /\ Place(c) /\ c \in scenario.callers /\ pc[c] # "idle"
        /\ timer.at \in Nat /\ clock \in Nat
    BY StepFacts, StoreFacts, Zenon
  <1> USE <1>0
  <1>1. CASE failed[c]
    <2>1. Backed(c)
      BY <1>1, Zenon DEF Place, Publishing
    <2>2. /\ pc'[c] = "unlock" /\ answer'[c] = answer[c] /\ failed'[c]
          /\ \A d \in Callers \ {c} : pc'[d] = pc[d] /\ answer'[d] = answer[d]
      BY <1>1, StepFacts, Zenon DEF Settled
    <2>3. Backed(c)'
      BY <1>1, <2>1, <2>2 DEF Backed, Continues, Terminal, Durable, Threshold, Interval, Scheduled
    <2>4. AllDurable(scenario') => answer'[c] # "conflict"
      BY <2>2, Zenon DEF Place
    <2>5. Place(c)'
      BY <2>2, <2>3, <2>4 DEF Place, Looking, Publishing, Body
    <2> QED BY <2>2, <2>5, OneCallSteps, Zenon
  <1>2. CASE ~ failed[c] /\ clock < at
    <2>1. Goto(c, "release") /\ Answer(c, "pending")
      BY <1>2, Zenon DEF Settled
    <2> QED BY <2>1, Leaving, Zenon
  <1>3. CASE ~ failed[c] /\ ~ (clock < at)
    <2>1. PICK l \in {"claim1", "exec"} : Goto(c, l) /\ UNCHANGED answer
      BY <1>3, Zenon DEF Settled
    <2>2. pc[c] = "consult" /\ hand[c] = activity
      BY <1>3, Zenon DEF Place, Publishing
    <2>3. l \in Looking \cup {"consult"} /\ timer.at <= clock
      BY <1>3, <2>1 DEF Looking
    <2>4. UNCHANGED <<scenario, activity, timer, clock>> /\ hand'[c] = activity /\ failed'[c] = FALSE
      BY <1>3, <2>2, StoreFacts
    <2> QED BY <2>1, <2>3, <2>4, GoingOn, Zenon
  <1> QED BY <1>1, <1>2, <1>3

LEMMA ConsultAlone ==
  ASSUME RetryInv, Alone(scenario), AloneInv, UNCHANGED scenario, NEW c \in Callers, Consult(c)
  PROVE  AloneInv'
  <1>0. /\ Place(c) /\ Kept /\ c \in scenario.callers /\ pc[c] = "consult"
        /\ hand[c] \in Records /\ timer \in Timers /\ draft \in [Callers -> Timers]
        /\ UNCHANGED <<activity, timer, clock, hand, failed>>
    BY StepFacts, StoreFacts, Zenon DEF Consult, store
  <1> USE <1>0
  <1>1. Kept'
    BY KeptAlong, Zenon
  <1> DEFINE v == Verdict(hand[c], timer)
  <1>2. v.do = "await" => v.timer = timer
    BY AwaitsTheTimer, Zenon
  <1>3. CASE failed[c]
    <2>1. Backed(c) /\ timer.at < hand[c].next
      BY <1>3, Zenon DEF Place, Publishing, Backed
    <2>2. v.do = "put" /\ v.timer = Scheduled(hand[c].next, hand[c].delay)
      BY <2>1, ArmsNewBackoff, Zenon
    <2>3. Goto(c, "arm") /\ UNCHANGED answer /\ draft' = [draft EXCEPT ![c] = v.timer]
      BY <2>2, Zenon DEF Consult
    <2>4. /\ pc'[c] = "arm" /\ answer'[c] = answer[c] /\ failed'[c]
          /\ draft'[c] = Scheduled(hand[c].next, hand[c].delay)
          /\ \A d \in Callers \ {c} : pc'[d] = pc[d] /\ answer'[d] = answer[d]
      BY <1>3, <2>2, <2>3, StepFacts
    <2> HIDE DEF v
    <2>5. Backed(c)'
      BY <2>1, <2>4, Zenon DEF Backed, Continues, Terminal, Durable, Threshold, Interval,
         Scheduled
    <2>6. AllDurable(scenario') => answer'[c] # "conflict"
      BY <2>4, Zenon DEF Place
    <2>7. Place(c)'
      BY <2>4, <2>5, <2>6, ZenonT(20) DEF Place, Looking, Publishing, Body
    <2> QED BY <1>1, <2>4, <2>7, OneCallSteps
  <1>4. CASE ~ failed[c]
    <2>1. hand[c] = activity /\ ~ Terminal(activity)
      BY <1>4, StoreFacts, Zenon DEF Place, Publishing, OpenHistory, Running
    <2>2. v.do # "put" /\ (AllDurable(scenario) => v.do # "conflict")
      BY <2>1, FindsItsTimer, Zenon
    <2>3. CASE v.do = "conflict"
      <3>1. Goto(c, "release") /\ Answer(c, "conflict") /\ ~ AllDurable(scenario)
        BY <2>2, <2>3, Zenon DEF Consult
      <3>2. /\ pc'[c] = "release"
            /\ \A d \in Callers \ {c} : pc'[d] = pc[d] /\ answer'[d] = answer[d]
        BY <3>1, StepFacts
      <3>3. ~ AllDurable(scenario')
        BY <3>1, Zenon
      <3>4. Place(c)'
        BY <3>2, <3>3 DEF Place, Looking, Publishing, Body
      <3> QED BY <1>1, <3>2, <3>4, OneCallSteps
    <2>4. CASE v.do = "await"
      <3>1. Settled(c, v.timer.at)
        BY <2>4 DEF Consult
      <3> QED BY <1>1, <1>2, <1>4, <2>4, <3>1, SettledAlone
    <2> QED BY <2>2, <2>3, <2>4 DEF Consult
  <1> QED BY <1>3, <1>4, Zenon

(* The timer is written: it is later than everything before. *)
LEMMA ArmedIsKept ==
  ASSUME RetryInv, Kept, NEW c \in Callers, UNCHANGED <<scenario, activity>>,
         pc[c] \in Running, Backed(c), timer' = Scheduled(hand[c].next, hand[c].delay)
  PROVE  Kept'
  <1>0. /\ hand[c].next \in Nat /\ hand[c].delay \in Nat /\ activity.next \in Nat
        /\ hand[c].attempts \in 0..MaxAttempts /\ Threshold \in Nat /\ MaxAttempts \in Nat \ {0}
        /\ activity.attempts \in 0..MaxAttempts
        /\ Open(hand[c]) /\ ~ Terminal(hand[c])
    BY StoreFacts, Zenon DEF OpenHistory
  <1> USE <1>0
  <1>1. /\ ~ Terminal(activity) /\ hand[c].attempts = activity.attempts + 1
        /\ Durable(hand[c].delay) /\ hand[c].delay >= Interval[hand[c].attempts]
        /\ hand[c].next > activity.next
    BY Zenon DEF Backed, Continues
  <1>2. /\ timer'.status = "SCHEDULED" /\ timer'.at = hand[c].next /\ timer'.dur = hand[c].delay
    BY Zenon DEF Scheduled
  <1>3. hand[c].attempts < MaxAttempts /\ Threshold > 0 /\ hand[c].delay >= Threshold
    BY <1>1, Zenon DEF Open, Durable
  <1>4. MayHaveTimer'
    BY <1>1, <1>3 DEF MayHaveTimer, Threshold
  <1>5. RetryKeepsWake'
    BY <1>1, <1>2 DEF RetryKeepsWake
  <1>6. FitsNextAttempt(activity, timer)'
    BY <1>1, <1>2, <1>3 DEF FitsNextAttempt, Interval, Threshold
  <1>7. Matches'
    BY <1>1, <1>2, <1>6 DEF Matches
  <1>8. Terminal(activity') => activity'.next = 0
    BY <1>1, Zenon DEF Terminal
  <1> QED BY <1>2, <1>4, <1>5, <1>7, <1>8 DEF Kept

LEMMA ArmAlone ==
  ASSUME RetryInv, Alone(scenario), AloneInv, UNCHANGED scenario, NEW c \in Callers,
         Arm(c) \/ Verify(c)
  PROVE  AloneInv'
  <1>0. /\ Place(c) /\ Kept /\ c \in scenario.callers /\ pc[c] \in {"arm", "verify"}
        /\ UNCHANGED <<activity, clock, hand, draft, failed>>
    BY StepFacts, Zenon DEF Arm, Verify, store
  <1> USE <1>0
  <1>1. failed[c] /\ Backed(c) /\ draft[c] = Scheduled(hand[c].next, hand[c].delay)
    BY Zenon DEF Place, Publishing, Backed
  <1>2. timer' \in {timer, draft[c]}
    BY Zenon DEF Arm, Verify, store
  <1>3. Kept'
    <2>1. CASE timer' = timer
      BY <2>1, KeptAlong, Zenon
    <2>2. CASE timer' = draft[c]
      BY <1>1, <2>2, ArmedIsKept DEF Running
    <2> QED BY <1>2, <2>1, <2>2
  <1>4. CASE Settled(c, draft[c].at) /\ timer' = draft[c]
    BY <1>1, <1>3, <1>4, SettledAlone
  <1>5. CASE Goto(c, "release") /\ Answer(c, "pending")
    BY <1>3, <1>5, Leaving
  <1>6. CASE Goto(c, "verify") /\ UNCHANGED answer
    <2>1. /\ pc'[c] = "verify" /\ answer'[c] = answer[c] /\ failed'[c]
          /\ \A d \in Callers \ {c} : pc'[d] = pc[d] /\ answer'[d] = answer[d]
      BY <1>1, <1>6, StepFacts
    <2>2. Backed(c)'
      BY <1>1, <2>1 DEF Backed, Continues, Terminal, Durable, Threshold, Interval, Scheduled
    <2>3. AllDurable(scenario') => answer'[c] # "conflict"
      BY <2>1, Zenon DEF Place
    <2>4. Place(c)'
      BY <2>1, <2>2, <2>3 DEF Place, Looking, Publishing, Body
    <2> QED BY <1>3, <2>1, <2>4, OneCallSteps
  <1>7. CASE Arm(c)
    BY <1>4, <1>6, <1>7 DEF Arm, Outcomes
  <1>8. CASE Verify(c)
    BY <1>4, <1>5, <1>8 DEF Verify, store
  <1> QED BY <1>7, <1>8

LEMMA ClaimingAlone ==
  ASSUME RetryInv, Alone(scenario), AloneInv, UNCHANGED scenario, NEW c \in Callers,
         TryCreateClaim(c) \/ (LostClaim(c) /\ ~ Terminal(activity)) \/ ClaimBusy(c)
  PROVE  AloneInv'
  <1>0. /\ Place(c) /\ Kept /\ c \in scenario.callers
        /\ pc[c] \in {"claim1", "claim2", "lost1", "lost2", "busy1", "busy2"}
        /\ UNCHANGED <<activity, timer, clock, hand, failed>>
    BY StepFacts, Zenon DEF TryCreateClaim, LostClaim, ClaimBusy, store
  <1> USE <1>0
  <1>1. hand'[c] = activity /\ failed'[c] = FALSE
    BY StoreFacts, Zenon DEF Place, Looking
  <1>2. Kept'
    BY KeptAlong, Zenon
  <1>3. \/ \E l \in {"lost1", "lost2", "busy1", "busy2", "claim2"} : Goto(c, l) /\ UNCHANGED answer
        \/ Goto(c, "refresh") /\ UNCHANGED answer
        \/ Goto(c, "return") /\ Answer(c, "pending")
    BY Zenon DEF TryCreateClaim, LostClaim, ClaimBusy
  <1>4. CASE \E l \in {"lost1", "lost2", "busy1", "busy2", "claim2"} : Goto(c, l) /\ UNCHANGED answer
    <2>1. PICK l \in {"lost1", "lost2", "busy1", "busy2", "claim2"} : Goto(c, l) /\ UNCHANGED answer
      BY <1>4, Zenon
    <2>2. l \in Looking \cup {"consult"} /\ l \notin Body
      BY <2>1, Zenon DEF Looking, Body
    <2> QED BY <1>1, <2>1, <2>2, GoingOn, Zenon
  <1>5. CASE Goto(c, "refresh") /\ UNCHANGED answer
    BY <1>2, <1>5, Leaving, Zenon
  <1>6. CASE Goto(c, "return") /\ Answer(c, "pending")
    BY <1>2, <1>6, Leaving
  <1> QED BY <1>3, <1>4, <1>5, <1>6

(* The attempt has an outcome: it is the next one, and its backoff reaches   *)
(* beyond the wake that led to it.                                           *)
LEMMA ExecuteAlone ==
  ASSUME RetryInv, Alone(scenario), AloneInv, UNCHANGED scenario, NEW c \in Callers, Execute(c)
  PROVE  AloneInv'
  <1>0. /\ Place(c) /\ Kept /\ c \in scenario.callers /\ pc[c] = "exec"
        /\ UNCHANGED <<activity, timer, clock, answer>>
        /\ hand \in [Callers -> Records] /\ failed \in [Callers -> BOOLEAN]
        /\ clock \in Nat /\ timer.at \in Nat /\ activity.next \in Nat /\ Threshold \in Nat
        /\ hand[c].attempts \in 0..MaxAttempts
    BY StepFacts, StoreFacts, Zenon DEF Execute, store
  <1> USE <1>0
  <1>1. hand[c] = activity /\ ~ failed[c] /\ timer.at <= clock /\ ~ Terminal(activity)
    BY StoreFacts, Zenon DEF Place, Looking, Body, OpenHistory, Running
  <1>2. Kept'
    BY KeptAlong, Zenon
  <1>3. AllDurable(scenario') => answer'[c] # "conflict"
    BY Zenon DEF Place
  <1> DEFINE n == hand[c].attempts + 1
  <1>4. activity.next <= clock
    BY <1>1 DEF Kept, RetryKeepsWake
  <1>5. ASSUME NEW s \in {"COMPLETED", "FAILED"}, hand' = [hand EXCEPT ![c] = Record(s, n, 0, 0)],
               Goto(c, "put_final"), UNCHANGED failed
        PROVE  AloneInv'
    <2>1. hand'[c] = Record(s, n, 0, 0) /\ ~ failed'[c]
      BY <1>1, <1>5
    <2>2. pc'[c] = "put_final" /\ \A d \in Callers \ {c} : pc'[d] = pc[d]
      BY <1>5, StepFacts
    <2>3. Terminal(hand'[c]) /\ hand'[c].next = 0 /\ hand'[c].attempts = activity.attempts + 1
      BY <1>1, <1>5, <2>1 DEF Record, Terminal
    <2>4. Continues(c)'
      BY <1>1, <2>3, Zenon DEF Continues, Terminal
    <2>5. Place(c)'
      BY <1>1, <1>3, <2>1, <2>2, <2>3, <2>4, Zenon DEF Place, Looking, Publishing, Body, Terminal
    <2> QED BY <1>2, <2>2, <2>5, OneCallSteps
  <1>6. ASSUME n < MaxAttempts, NEW ra \in scenario.retryAfters, NEW d,
               d = IF ra > Interval[n] THEN ra ELSE Interval[n],
               hand' = [hand EXCEPT ![c] =
                          Record("RETRYING", n, d, IF Durable(d) THEN clock + d ELSE 0)],
               Goto(c, IF Durable(d) THEN "consult" ELSE "put_retry"),
               failed' = [failed EXCEPT ![c] = Durable(d)]
        PROVE  AloneInv'
    <2>0. d \in Nat /\ Interval[n] \in Nat /\ d >= Interval[n]
      <3>1. n \in 1..(MaxAttempts - 1)
        BY <1>6, AttemptsArePositive
      <3>2. Interval[n] \in Nat /\ ra \in Nat
        BY <3>1, StoreFacts, ScenariosAreSound DEF Interval
      <3> HIDE DEF n
      <3> QED BY <1>6, <3>2
    <2>1. /\ hand'[c] = Record("RETRYING", n, d, IF Durable(d) THEN clock + d ELSE 0)
          /\ failed'[c] = Durable(d)
      BY <1>6, Zenon
    <2>2. /\ pc'[c] = IF Durable(d) THEN "consult" ELSE "put_retry"
          /\ \A e \in Callers \ {c} : pc'[e] = pc[e]
      BY <1>6, StepFacts
    <2>3. /\ hand'[c].attempts = n /\ hand'[c].delay = d
          /\ hand'[c].next = IF Durable(d) THEN clock + d ELSE 0
      BY <2>1 DEF Record
    <2>4. Continues(c)'
      BY <1>1, <2>3 DEF Continues, Terminal
    <2>5. /\ Durable(hand[c].delay)' <=> Durable(d)
          /\ hand'[c].delay >= Interval'[hand'[c].attempts]
      BY <2>0, <2>3 DEF Durable, Threshold, Interval
    <2>6. CASE Durable(d)
      <3>0. d > 0
        BY <2>0, <2>6 DEF Durable
      <3>1. hand'[c].next = clock + d /\ d > 0 /\ pc'[c] = "consult" /\ failed'[c]
        BY <2>1, <2>2, <2>3, <2>6, <3>0, ZenonT(20)
      <3>2. hand'[c].next > activity'.next /\ timer'.at < hand'[c].next
        BY <1>1, <1>4, <2>0, <3>1
      <3>3. Backed(c)'
        BY <2>4, <2>5, <2>6, <3>1, <3>2, Zenon DEF Backed
      <3>4. Place(c)'
        BY <1>3, <3>1, <3>3, Zenon DEF Place, Looking, Publishing, Body
      <3> QED BY <1>2, <2>2, <3>4, OneCallSteps, ZenonT(20)
    <2>7. CASE ~ Durable(d)
      <3>1. hand'[c].next = 0 /\ pc'[c] = "put_retry" /\ ~ failed'[c] /\ ~ Durable(hand[c].delay)'
        BY <2>1, <2>2, <2>3, <2>5, <2>7, Zenon
      <3>2. Place(c)'
        BY <1>1, <1>3, <2>4, <2>5, <3>1, ZenonT(20) DEF Place, Looking, Publishing, Body
      <3> QED BY <1>2, <2>2, <3>2, OneCallSteps
    <2> QED BY <2>6, <2>7, Zenon
  <1> QED BY <1>5, <1>6, ZenonT(20) DEF Execute

(* A record that follows the stored one replaces it. *)
LEMMA PutFinalAlone ==
  ASSUME RetryInv, Alone(scenario), AloneInv, UNCHANGED scenario, NEW c \in Callers, PutFinal(c)
  PROVE  AloneInv'
  <1>0. /\ Place(c) /\ Kept /\ c \in scenario.callers /\ pc[c] = "put_final"
        /\ UNCHANGED <<timer, clock, hand, failed>>
    BY StepFacts, Zenon DEF PutFinal
  <1> USE <1>0
  <1>1. Terminal(hand[c]) /\ hand[c].next = 0
    BY Zenon DEF Place
  <1>2. ASSUME activity' = hand[c] PROVE Kept'
    <2>1. Terminal(activity') /\ activity'.next = 0
      BY <1>1, <1>2
    <2>2. RetryKeepsWake' /\ Matches'
      BY <2>1, Zenon DEF RetryKeepsWake, Matches, Terminal
    <2> QED BY <2>1, <2>2, Zenon DEF Kept, MayHaveTimer, Threshold, Terminal
  <1>3. Kept'
    BY <1>2, KeptAlong DEF PutFinal
  <1>4. CASE Goto(c, "cleanup") /\ Answer(c, "result") /\ activity' = hand[c]
    <2>1. /\ pc'[c] = "cleanup" /\ answer'[c] = "result"
          /\ \A d \in Callers \ {c} : pc'[d] = pc[d] /\ answer'[d] = answer[d]
      BY <1>4, StepFacts
    <2>2. Terminal(activity')
      BY <1>1, <1>4, Zenon
    <2>3. Place(c)'
      BY <2>1, <2>2 DEF Place, Looking, Publishing, Body, Terminal
    <2> QED BY <1>3, <2>1, <2>3, OneCallSteps
  <1>5. CASE Goto(c, "release") /\ Answer(c, "result")
    BY <1>3, <1>5, Leaving
  <1>6. CASE Goto(c, "return") /\ Answer(c, "pending")
    BY <1>3, <1>6, Leaving
  <1> QED BY <1>4, <1>5, <1>6, Zenon DEF PutFinal

LEMMA PutRetryAlone ==
  ASSUME RetryInv, Alone(scenario), AloneInv, UNCHANGED scenario, NEW c \in Callers, PutRetry(c)
  PROVE  AloneInv'
  <1>0. /\ Place(c) /\ Kept /\ c \in scenario.callers /\ pc[c] = "put_retry"
        /\ UNCHANGED <<timer, clock, hand, failed>>
        /\ hand[c].attempts \in 0..MaxAttempts /\ activity.attempts \in 0..MaxAttempts
        /\ hand[c].delay \in Nat /\ Threshold \in Nat /\ MaxAttempts \in Nat \ {0}
        /\ Open(hand[c]) /\ ~ Terminal(hand[c]) /\ scenario \in Scenarios
    BY StepFacts, StoreFacts, Zenon DEF PutRetry, OpenHistory, Running
  <1> USE <1>0
  <1>1. /\ Continues(c) /\ hand[c].next = 0 /\ ~ failed[c] /\ timer.at <= clock
        /\ ~ Durable(hand[c].delay) /\ hand[c].delay >= Interval[hand[c].attempts]
    BY Zenon DEF Place, Body
  <1>2. AllDurable(scenario) => timer = NoTimer
    <2> SUFFICES ASSUME AllDurable(scenario), Threshold > 0 PROVE FALSE
      BY Zenon DEF Kept, MayHaveTimer
    <2>1. hand[c].attempts \in 1..(MaxAttempts - 1)
      BY <1>1 DEF Open, Continues
    <2>2. Interval[hand[c].attempts] >= Threshold /\ Interval[hand[c].attempts] \in Nat
      BY <2>1, ScenariosAreSound, ZenonT(20) DEF AllDurable, Interval, Threshold
    <2> QED BY <1>1, <2>2 DEF Durable
  <1>3. ASSUME activity' = hand[c] PROVE Kept'
    <2>1. RetryKeepsWake'
      BY <1>1, <1>3, Zenon DEF RetryKeepsWake
    <2>2. AllDurable(scenario') => Matches'
      BY <1>2, Zenon DEF Matches, NoTimer
    <2>3. timer'.status # "FIRED"
      BY <1>1, Zenon DEF Kept, Continues
    <2> QED BY <1>1, <1>3, <2>1, <2>2, <2>3, Zenon DEF Kept, MayHaveTimer, Threshold
  <1>4. Kept'
    BY <1>3, KeptAlong, Zenon DEF PutRetry
  <1>5. CASE Goto(c, "backoff") /\ UNCHANGED answer /\ activity' = hand[c]
    <2>1. /\ pc'[c] = "backoff" /\ answer'[c] = answer[c]
          /\ \A d \in Callers \ {c} : pc'[d] = pc[d] /\ answer'[d] = answer[d]
      BY <1>5, StepFacts
    <2>2. hand'[c] = activity' /\ ~ failed'[c] /\ timer'.at <= clock'
      BY <1>1, <1>5, Zenon
    <2>3. AllDurable(scenario') => answer'[c] # "conflict"
      BY <2>1, Zenon DEF Place
    <2>4. Place(c)'
      BY <2>1, <2>2, <2>3, Zenon DEF Place, Looking, Publishing, Body
    <2> QED BY <1>4, <2>1, <2>4, OneCallSteps, ZenonT(20)
  <1>6. CASE Goto(c, "return") /\ Answer(c, "pending")
    BY <1>4, <1>6, Leaving
  <1> QED BY <1>5, <1>6, ZenonT(20) DEF PutRetry

LEMMA PutPreparedAlone ==
  ASSUME RetryInv, Alone(scenario), AloneInv, UNCHANGED scenario, NEW c \in Callers, PutPrepared(c)
  PROVE  AloneInv'
  <1>0. /\ Place(c) /\ Kept /\ c \in scenario.callers /\ pc[c] = "put_prepared"
        /\ UNCHANGED timer /\ ~ Terminal(hand[c]) /\ hand[c].next \in Nat
    BY StepFacts, StoreFacts, Zenon DEF PutPrepared, OpenHistory, Running
  <1> USE <1>0
  <1>1. Backed(c) /\ timer = Scheduled(hand[c].next, hand[c].delay)
    BY Zenon DEF Place, Publishing, Backed
  <1>2. ASSUME activity' = hand[c] PROVE Kept'
    <2>1. timer'.status = "SCHEDULED" /\ timer'.at = activity'.next /\ timer'.dur = activity'.delay
      BY <1>1, <1>2, Zenon DEF Scheduled
    <2>2. RetryKeepsWake'
      BY <1>2, <2>1 DEF RetryKeepsWake
    <2>3. activity'.next # 0
      BY <1>1, <1>2, StoreFacts, Later, Zenon DEF Backed
    <2>4. Matches'
      BY <2>1, <2>3 DEF Matches
    <2>5. ~ Terminal(activity')
      BY <1>2
    <2> QED BY <2>1, <2>2, <2>4, <2>5 DEF Kept, MayHaveTimer, Threshold, Terminal
  <1>3. Kept'
    BY <1>2, KeptAlong DEF PutPrepared
  <1> QED BY <1>3, Leaving DEF PutPrepared

LEMMA OtherStepsAlone ==
  ASSUME RetryInv, Alone(scenario), AloneInv, UNCHANGED scenario, NEW c \in Callers,
         \/ GiveUp(c) \/ Backoff(c) \/ Unlock(c) \/ Cleanup(c) \/ PutFired(c) \/ Release(c) \/ Return(c)
  PROVE  AloneInv'
  <1>0. /\ Place(c) /\ Kept /\ (pc[c] # "idle" => c \in scenario.callers)
        /\ hand \in [Callers -> Records] /\ timer \in Timers
    BY StepFacts, StoreFacts, Zenon
  <1> USE <1>0
  <1>1. ASSUME GiveUp(c) \/ Release(c) \/ Return(c) PROVE AloneInv'
    <2>1. UNCHANGED <<activity, timer>> /\ pc[c] # "idle"
      BY <1>1, Zenon DEF GiveUp, Release, Return, store
    <2>2. Kept'
      BY <2>1, KeptAlong, ZenonT(20)
    <2>3. CASE GiveUp(c)
      BY <2>1, <2>2, <2>3, Leaving, ZenonT(20) DEF GiveUp
    <2>4. CASE Return(c)
      BY <2>1, <2>2, <2>4, Leaving, ZenonT(20) DEF Return, Forget
    <2>5. CASE Release(c) /\ (UNCHANGED answer \/ \E a \in {"none", "pending", "result"} : Answer(c, a))
      BY <2>1, <2>2, <2>5, Leaving, ZenonT(20) DEF Release
    <2>6. CASE Release(c) /\ Answer(c, answer[c])
      <3>1. UNCHANGED answer
        BY <2>6, StoreFacts DEF Answer
      <3> QED BY <2>1, <2>2, <2>6, <3>1, Leaving, ZenonT(20) DEF Release
    <2> QED BY <1>1, <2>3, <2>4, <2>5, <2>6, Zenon DEF Release
  <1>2. ASSUME Backoff(c) PROVE AloneInv'
    <2>1. UNCHANGED <<activity, timer, clock, hand, failed>> /\ pc[c] = "backoff"
      BY <1>2, Zenon DEF Backoff, store
    <2>2. hand'[c] = activity /\ failed'[c] = FALSE /\ timer.at <= clock
      BY <2>1, StoreFacts, ZenonT(20) DEF Place, Looking, Body
    <2>3. CASE Goto(c, "exec") /\ UNCHANGED answer
      <3>1. "exec" \in Looking \cup {"consult"}
        BY Zenon DEF Looking
      <3> QED BY <2>1, <2>2, <2>3, <3>1, GoingOn, Zenon
    <2>4. CASE Goto(c, "release") /\ Answer(c, "pending")
      <3>1. Kept'
        BY <2>1, KeptAlong
      <3> QED BY <2>1, <2>4, <3>1, Leaving
    <2> QED BY <1>2, <2>3, <2>4, Zenon DEF Backoff
  <1>3. ASSUME Unlock(c) PROVE AloneInv'
    <2>1. UNCHANGED <<activity, timer, clock, hand, draft, failed>> /\ pc[c] = "unlock"
      BY <1>3, Zenon DEF Unlock
    <2>2. Kept'
      BY <2>1, KeptAlong, ZenonT(20)
    <2>3. CASE Goto(c, "put_prepared") /\ UNCHANGED answer
      <3>1. /\ pc'[c] = "put_prepared" /\ answer'[c] = answer[c]
            /\ \A d \in Callers \ {c} : pc'[d] = pc[d] /\ answer'[d] = answer[d]
        BY <2>3, StepFacts, Zenon
      <3>2. failed[c] /\ Backed(c)
        BY <2>1, Zenon DEF Place, Publishing
      <3>3. failed'[c]
        BY <2>1, <3>2
      <3>4. Backed(c)'
        BY <2>1, <3>1, <3>2, Zenon DEF Backed, Continues, Terminal, Durable, Threshold, Interval, Scheduled
      <3>5. AllDurable(scenario') => answer'[c] # "conflict"
        BY <3>1, Zenon DEF Place
      <3>6. Place(c)'
        BY <2>1, <3>1, <3>3, <3>4, <3>5, ZenonT(20) DEF Place, Looking, Publishing, Body
      <3> QED BY <2>1, <2>2, <3>1, <3>6, OneCallSteps, ZenonT(20)
    <2>4. CASE Goto(c, "return") /\ Answer(c, "pending")
      BY <2>1, <2>2, <2>4, Leaving
    <2> QED BY <1>3, <2>3, <2>4, Zenon DEF Unlock
  <1>4. ASSUME Cleanup(c) PROVE AloneInv'
    <2>1. UNCHANGED <<activity, timer, answer>> /\ pc[c] = "cleanup"
      BY <1>4, Zenon DEF Cleanup, store
    <2>2. Kept'
      BY <2>1, KeptAlong, Zenon
    <2>3. CASE timer.status = "SCHEDULED"
      <3>1. /\ pc'[c] = "put_fired" /\ answer'[c] = answer[c]
            /\ \A d \in Callers \ {c} : pc'[d] = pc[d] /\ answer'[d] = answer[d]
        BY <1>4, <2>1, <2>3, StepFacts DEF Cleanup
      <3>2. Terminal(activity')
        BY <2>1, Zenon DEF Place
      <3>3. AllDurable(scenario') => answer'[c] # "conflict"
        BY <3>1, ZenonT(20) DEF Place
      <3>4. Place(c)'
        BY <2>1, <2>3, <3>1, <3>2, <3>3, Zenon DEF Place, Looking, Publishing, Body, Terminal
      <3> QED BY <2>1, <2>2, <3>1, <3>4, OneCallSteps
    <2>4. CASE timer.status # "SCHEDULED"
      BY <1>4, <2>1, <2>2, <2>4, Leaving DEF Cleanup
    <2> QED BY <2>3, <2>4
  <1>5. ASSUME PutFired(c) PROVE AloneInv'
    <2>1. UNCHANGED <<activity, answer>> /\ pc[c] = "put_fired" /\ Goto(c, "release")
      BY <1>5, Zenon DEF PutFired
    <2>2. Terminal(activity) /\ timer.status = "SCHEDULED"
      BY <2>1, Zenon DEF Place
    <2>3. activity'.next = 0 /\ Terminal(activity')
      BY <2>1, <2>2, Zenon DEF Kept
    <2>4. MayHaveTimer'
      BY <2>2 DEF Kept, NoTimer, MayHaveTimer, Threshold
    <2>5. RetryKeepsWake' /\ Matches'
      BY <2>3, Zenon DEF RetryKeepsWake, Matches
    <2>6. Kept'
      BY <2>3, <2>4, <2>5 DEF Kept
    <2> QED BY <2>1, <2>6, Leaving
  <1> QED BY <1>1, <1>2, <1>3, <1>4, <1>5

(* Time and the clean-up of claims change nothing a call relies on. *)
LEMMA WorldAlone ==
  ASSUME RetryInv, Alone(scenario), AloneInv, UNCHANGED <<scenario, activity, timer, calls>>,
         clock' \in Nat, clock' >= clock
  PROVE  AloneInv'
  <1>0. UNCHANGED <<pc, hand, draft, failed, answer>> /\ timer.at \in Nat /\ clock \in Nat
    BY StoreFacts, Zenon DEF calls
  <1> USE <1>0
  <1>1. Kept'
    BY KeptAlong, Zenon DEF AloneInv
  <1>2. ASSUME NEW c \in Callers PROVE Place(c)'
    <2>1. Place(c)
      BY Zenon DEF AloneInv
    <2>2. timer.at <= clock => timer'.at <= clock'
      OBVIOUS
    <2>3. Continues(c) = Continues(c)' /\ Durable(hand[c].delay) = Durable(hand[c].delay)'
      BY Zenon DEF Continues, Terminal, Durable, Threshold
    <2>4. Backed(c) => Backed(c)'
      BY <2>3, Zenon DEF Backed, Interval, Scheduled
    <2>5. Interval' = Interval
      BY Zenon DEF Interval
    <2>6. pc[c] \in Body => ~ failed'[c] /\ timer'.at <= clock'
      BY <2>1, <2>2, Zenon DEF Place
    <2> QED BY <2>1, <2>3, <2>4, <2>5, <2>6, ZenonT(20) DEF Place, Terminal
  <1> QED BY <1>1, <1>2, Zenon DEF AloneInv

LEMMA CrashAlone ==
  ASSUME RetryInv, Alone(scenario), AloneInv, UNCHANGED scenario, Crash
  PROVE  AloneInv'
  <1>1. Kept'
    BY KeptAlong, Zenon DEF AloneInv, Crash
  <1>2. ASSUME NEW c \in Callers PROVE Place(c)'
    <2>1. pc'[c] = "idle" /\ answer'[c] = "none"
      BY Zenon DEF Crash
    <2> QED BY <2>1, Zenon DEF Place, Looking, Publishing, Body
  <1> QED BY <1>1, <1>2, Zenon DEF AloneInv

LEMMA AloneStarts == Init => AloneInv
  <1> SUFFICES ASSUME Init PROVE AloneInv
    OBVIOUS
  <1>1. Kept
    BY Zenon DEF Init, Kept, RetryKeepsWake, NoActivity, NoTimer, Terminal, Matches
  <1>2. ASSUME NEW c \in Callers PROVE Place(c)
    <2>1. pc[c] = "idle" /\ answer[c] = "none"
      BY Zenon DEF Init
    <2> QED BY <2>1, Zenon DEF Place, Looking, Publishing, Body
  <1> QED BY <1>1, <1>2, Zenon DEF AloneInv

LEMMA AloneInvariant == RetryInv /\ AloneInv /\ [Next]_vars => AloneInv'
  <1> SUFFICES ASSUME RetryInv, AloneInv, [Next]_vars, Alone(scenario)' PROVE AloneInv'
    BY Zenon DEF AloneInv
  <1>1. UNCHANGED scenario
    BY Zenon DEF Next, vars
  <1>2. Alone(scenario) /\ clock \in Nat
    BY <1>1, StoreFacts, Zenon
  <1>3. CASE UNCHANGED vars \/ OperatorRelease \/ Tick
    <2>1. UNCHANGED <<activity, timer, calls>> /\ clock' \in Nat /\ clock' >= clock
      BY <1>2, <1>3, Later, Zenon DEF vars, store, OperatorRelease, Tick
    <2> QED BY <1>1, <1>2, <2>1, WorldAlone
  <1>4. CASE Crash
    BY <1>1, <1>2, <1>4, CrashAlone
  <1>5. ASSUME NEW c \in Callers, Call(c) \/ Refresh(c) \/ (LostClaim(c) /\ Terminal(activity))
        PROVE  AloneInv'
    <2>1. c \in scenario.callers
      BY <1>2, <1>5, StepFacts, Zenon DEF Call, Refresh, LostClaim
    <2> QED BY <1>1, <1>2, <1>5, <2>1, EnterAlone, ZenonT(20) DEF Call, Refresh, LostClaim
  <1>6. ASSUME NEW c \in Callers,
               \/ TryCreateClaim(c) \/ (LostClaim(c) /\ ~ Terminal(activity)) \/ ClaimBusy(c)
               \/ Consult(c) \/ Arm(c) \/ Verify(c)
        PROVE  AloneInv'
    BY <1>1, <1>2, <1>6, ClaimingAlone, ConsultAlone, ArmAlone
  <1>7. ASSUME NEW c \in Callers, Execute(c) \/ PutFinal(c) \/ PutRetry(c) \/ PutPrepared(c)
        PROVE  AloneInv'
    BY <1>1, <1>2, <1>7, ExecuteAlone, PutFinalAlone, PutRetryAlone, PutPreparedAlone
  <1>8. ASSUME NEW c \in Callers,
               \/ GiveUp(c) \/ Backoff(c) \/ Unlock(c) \/ Cleanup(c) \/ PutFired(c)
               \/ Release(c) \/ Return(c)
        PROVE  AloneInv'
    BY <1>1, <1>2, <1>8, OtherStepsAlone
  <1> QED BY <1>3, <1>4, <1>5, <1>6, <1>7, <1>8 DEF Next, Step

(* Without a threshold no step reaches a timer. *)
LEMMA TimerlessInvariant == RetryInv /\ Timerless /\ [Next]_vars => Timerless'
  <1> SUFFICES ASSUME RetryInv, Timerless, [Next]_vars, Threshold' = 0 PROVE Timerless'
    BY Zenon DEF Timerless
  <1> DEFINE Stays(c) == pc[c] \notin DurablePlaces /\ hand[c].next = 0 /\ answer[c] # "conflict"
  <1>0. /\ UNCHANGED scenario /\ Threshold = 0 /\ ~ MayHaveTimer /\ \A d : ~ Durable(d)
        /\ timer = NoTimer /\ activity.next = 0 /\ \A c \in Callers : Stays(c)
        /\ pc \in [Callers -> Labels] /\ hand \in [Callers -> Records] /\ answer \in [Callers -> Answers]
    <2>1. UNCHANGED scenario
      BY Zenon DEF Next, vars
    <2>2. Threshold = 0
      BY <2>1, Zenon DEF Threshold
    <2> QED BY <2>1, <2>2, StoreFacts DEF Timerless, MayHaveTimer, Durable
  <1> USE <1>0
  <1>1. ASSUME UNCHANGED <<activity, timer, pc, hand, answer>> PROVE Timerless'
    BY <1>1, Zenon DEF Timerless
  <1>2. CASE UNCHANGED vars \/ OperatorRelease \/ Tick
    BY <1>1, <1>2 DEF vars, store, calls, OperatorRelease, Tick
  <1>3. CASE Crash
    BY <1>3, Zenon DEF Crash, Timerless, NoActivity, DurablePlaces
  <1>4. ASSUME NEW c \in Callers, timer' = timer, activity'.next = 0,
               \A d \in Callers \ {c} : pc'[d] = pc[d] /\ hand'[d] = hand[d] /\ answer'[d] = answer[d],
               Stays(c)'
        PROVE  Timerless'
    <2>1. ASSUME NEW d \in Callers PROVE Stays(d)'
      BY <1>4, Zenon
    <2> QED BY <1>4, <2>1, Zenon DEF Timerless
  <1>5. ASSUME NEW c \in Callers, timer' = timer, activity'.next = 0,
               NEW l \in Labels \ DurablePlaces, Goto(c, l),
               UNCHANGED answer \/ \E a \in {"none", "pending", "result"} : Answer(c, a),
               \A d \in Callers \ {c} : hand'[d] = hand[d], hand'[c].next = 0
        PROVE  Timerless'
    <2>1. pc'[c] = l /\ \A d \in Callers \ {c} : pc'[d] = pc[d]
      BY <1>5, Zenon DEF Goto
    <2>2. answer'[c] # "conflict" /\ \A d \in Callers \ {c} : answer'[d] = answer[d]
      BY <1>5, ZenonT(20) DEF Answer
    <2>3. Stays(c)'
      BY <1>5, <2>1, <2>2, ZenonT(20)
    <2> HIDE DEF Stays
    <2> QED BY <1>4, <1>5, <2>1, <2>2, <2>3, Zenon
  <1>6. ASSUME NEW c \in Callers, Call(c) \/ Refresh(c) \/ (LostClaim(c) /\ Terminal(activity))
        PROVE  Timerless'
    <2>1. Enter(c, activity) /\ UNCHANGED <<activity, timer>>
      BY <1>6, Zenon DEF Call, Refresh, LostClaim, store
    <2>2. /\ \A d \in Callers \ {c} : hand'[d] = hand[d]
          /\ hand'[c].next = 0
      BY <2>1, Zenon DEF Enter
    <2>3. PICK l \in {"release", "claim1", "exec"} : Goto(c, l)
      BY <2>1, Zenon DEF Enter
    <2>4. l \in Labels \ DurablePlaces
      BY <2>3 DEF Labels, Running, DurablePlaces
    <2>5. \E a \in {"none", "pending", "result"} : Answer(c, a)
      BY <2>1, Zenon DEF Enter
    <2> QED BY <1>5, <2>1, <2>2, <2>3, <2>4, <2>5
  <1>7. ASSUME NEW c \in Callers, Execute(c) PROVE Timerless'
    <2>1. UNCHANGED <<activity, timer, answer>>
      BY <1>7, Zenon DEF Execute, store
    <2>2. ASSUME NEW s, NEW n, NEW d, hand' = [hand EXCEPT ![c] = Record(s, n, d, 0)]
          PROVE  hand'[c].next = 0 /\ \A e \in Callers \ {c} : hand'[e] = hand[e]
      BY <2>2, Zenon DEF Record
    <2>3. /\ hand'[c].next = 0 /\ \A e \in Callers \ {c} : hand'[e] = hand[e]
          /\ \E l \in {"put_final", "put_retry"} : Goto(c, l)
      <3>1. \/ /\ \E s, n : hand' = [hand EXCEPT ![c] = Record(s, n, 0, 0)]
               /\ Goto(c, "put_final")
            \/ /\ \E s, n, d : hand' = [hand EXCEPT ![c] = Record(s, n, d, 0)]
               /\ Goto(c, "put_retry")
        BY <1>7, ZenonT(20) DEF Execute
      <3> QED BY <2>2, <3>1, Zenon
    <2>4. {"put_final", "put_retry"} \subseteq Labels \ DurablePlaces
      BY Zenon DEF Labels, Running, DurablePlaces
    <2> QED BY <1>5, <2>1, <2>3, <2>4
  <1>8. ASSUME NEW c \in Callers,
               \/ TryCreateClaim(c) \/ (LostClaim(c) /\ ~ Terminal(activity)) \/ ClaimBusy(c)
               \/ GiveUp(c) \/ Backoff(c) \/ PutFinal(c) \/ PutRetry(c) \/ Release(c) \/ Return(c)
        PROVE  Timerless'
    <2> DEFINE Outside ==
          {"refresh", "lost1", "lost2", "busy1", "busy2", "claim2", "release", "return", "idle",
           "exec", "backoff"}
    <2>1. Outside \subseteq Labels \ DurablePlaces
      BY DEF Labels, Running, DurablePlaces
    <2>2. timer' = timer
      BY <1>8 DEF TryCreateClaim, LostClaim, ClaimBusy, GiveUp, Backoff, PutFinal, PutRetry, Release,
                  Return, store
    <2>3. activity'.next = 0
      <3>1. activity' = activity \/ activity' = hand[c]
        BY <1>8 DEF TryCreateClaim, LostClaim, ClaimBusy, GiveUp, Backoff, PutFinal, PutRetry, Release,
                    Return, store
      <3> QED BY <3>1, Zenon
    <2>4. hand'[c].next = 0 /\ \A d \in Callers \ {c} : hand'[d] = hand[d]
      <3>1. CASE Return(c)
        BY <3>1, Zenon DEF Return, Forget, NoActivity
      <3>2. CASE hand' = hand
        BY <3>2, Zenon
      <3> QED BY <1>8, <3>1, <3>2 DEF TryCreateClaim, LostClaim, ClaimBusy, GiveUp, Backoff, PutFinal,
                                      PutRetry, Release
    <2>5. \E l \in Outside : Goto(c, l)
      <3>1. CASE TryCreateClaim(c) \/ ClaimBusy(c)
        BY <3>1, Zenon DEF TryCreateClaim, ClaimBusy
      <3>2. CASE LostClaim(c) /\ ~ Terminal(activity)
        BY <3>2, Zenon DEF LostClaim
      <3>3. CASE PutFinal(c) \/ PutRetry(c)
        BY <3>3 DEF PutFinal, PutRetry
      <3>4. CASE GiveUp(c) \/ Backoff(c) \/ Release(c) \/ Return(c)
        BY <3>4, ZenonT(20) DEF GiveUp, Backoff, Release, Return
      <3> QED BY <1>8, <3>1, <3>2, <3>3, <3>4
    <2>6. UNCHANGED answer \/ Answer(c, answer[c]) \/ \E a \in {"none", "pending", "result"} : Answer(c, a)
      <3>1. CASE TryCreateClaim(c) \/ ClaimBusy(c) \/ GiveUp(c) \/ Backoff(c)
        BY <3>1, Zenon DEF TryCreateClaim, ClaimBusy, GiveUp, Backoff
      <3>2. CASE LostClaim(c) /\ ~ Terminal(activity)
        BY <3>2 DEF LostClaim
      <3>3. CASE PutFinal(c) \/ PutRetry(c)
        BY <3>3 DEF PutFinal, PutRetry
      <3>4. CASE Return(c)
        BY <3>4, Zenon DEF Return, Forget
      <3>5. CASE Release(c)
        BY <3>5, Zenon DEF Release
      <3> QED BY <1>8, <3>1, <3>2, <3>3, <3>4, <3>5
    <2>7. UNCHANGED answer \/ \E a \in {"none", "pending", "result"} : Answer(c, a)
      <3>1. Answer(c, answer[c]) => UNCHANGED answer
        BY Zenon DEF Answer
      <3> QED BY <2>6, <3>1
    <2> HIDE DEF Outside
    <2> QED BY <1>5, <2>1, <2>2, <2>3, <2>4, <2>5, <2>7, Zenon
  <1>9. ASSUME NEW c \in Callers
        PROVE  ~ (\/ Consult(c) \/ Arm(c) \/ Verify(c)
                  \/ Unlock(c) \/ PutPrepared(c) \/ Cleanup(c) \/ PutFired(c))
    BY Zenon DEF DurablePlaces, Consult, Arm, Verify, Unlock, PutPrepared, Cleanup, PutFired
  <1> QED BY <1>2, <1>3, <1>6, <1>7, <1>8, <1>9 DEF Next, Step

LEMMA TimerlessStarts == Init => Timerless
  BY DEF Init, Timerless, NoActivity, DurablePlaces

DurableInv == RetryInv /\ Timerless /\ AloneInv

LEMMA DurableAlways == Spec => []DurableInv
  <1>1. Init => DurableInv
    BY RetryStarts, TimerlessStarts, AloneStarts DEF DurableInv
  <1>2. DurableInv /\ [Next]_vars => DurableInv'
    BY RetryInvariant, TimerlessInvariant, AloneInvariant DEF DurableInv
  <1> QED BY <1>1, <1>2, PTL DEF Spec

-----------------------------------------------------------------------------
(* The policies and schedules these results are about: several calls of one  *)
(* activity at the same time only without durable backoff.                   *)
Sequential == \A s \in Scenarios : s.threshold = 0 \/ Alone(s)

(* A durable RETRYING record always has its wake, through every crash, lost  *)
(* answer and cancellation between the two writes of a backoff, for every    *)
(* policy and any number of attempts and faults.                             *)
THEOREM WakesAreKept ==
  ASSUME Sequential
  PROVE  Spec => []RetryKeepsWake
  <1>1. DurableInv => RetryKeepsWake
    <2> SUFFICES ASSUME DurableInv PROVE RetryKeepsWake
      OBVIOUS
    <2>1. Threshold = 0 \/ Alone(scenario)
      BY StoreFacts, Zenon DEF DurableInv, Sequential, Threshold
    <2>2. CASE Threshold = 0
      BY <2>2 DEF DurableInv, Timerless, RetryKeepsWake
    <2>3. CASE Alone(scenario)
      BY <2>3, Zenon DEF DurableInv, AloneInv, Kept
    <2> QED BY <2>1, <2>2, <2>3
  <1> QED BY <1>1, DurableAlways, PTL

(* When every backoff of a policy is durable, or none is, an activity is     *)
(* never rejected for a timer that does not fit its record.                  *)
THEOREM OnePolicyNeverConflicts ==
  ASSUME Sequential, \A s \in Scenarios : AllDurable(s)
  PROVE  Spec => []NeverConflicts
  <1>1. DurableInv => NeverConflicts
    <2> SUFFICES ASSUME DurableInv, NEW c \in Callers PROVE answer[c] # "conflict"
      BY Zenon DEF NeverConflicts
    <2>1. (Threshold = 0 \/ Alone(scenario)) /\ AllDurable(scenario)
      BY StoreFacts, Zenon DEF DurableInv, Sequential, Threshold
    <2>2. CASE Threshold = 0
      BY <2>2, Zenon DEF DurableInv, Timerless
    <2>3. CASE Alone(scenario)
      BY <2>1, <2>3, Zenon DEF DurableInv, AloneInv, Place
    <2> QED BY <2>1, <2>2, <2>3
  <1> QED BY <1>1, DurableAlways, PTL

(* No attempt starts before the instant of a prepared retry timer, also when *)
(* the RETRYING record of that timer was never written.                      *)
THEOREM NoAttemptIsEarly ==
  ASSUME Sequential
  PROVE  Spec => NoEarlyAttempt
  <1>1. DurableInv /\ DurableInv' /\ [Next]_vars =>
          [\A c \in Callers : pc[c] # "exec" /\ pc'[c] = "exec" => timer.at <= clock]_vars
    <2> SUFFICES ASSUME DurableInv, DurableInv', [Next]_vars, NEW c \in Callers,
                        pc[c] # "exec", pc'[c] = "exec"
                 PROVE  timer.at <= clock
      OBVIOUS
    <2>0. (Threshold = 0 \/ Alone(scenario)) /\ clock \in Nat /\ timer.at \in Nat
          /\ pc \in [Callers -> Labels]
      BY StoreFacts, Zenon DEF DurableInv, Sequential, Threshold
    <2>1. CASE Threshold = 0
      BY <2>0, <2>1 DEF DurableInv, Timerless, NoTimer
    <2>2. CASE Alone(scenario)
      <3>1. UNCHANGED scenario
        BY Zenon DEF Next, vars
      <3>2. Place(c)'
        BY <2>2, <3>1 DEF DurableInv, AloneInv
      <3>3. timer'.at <= clock'
        BY <3>2, Zenon DEF Place, Body
      <3>4. timer' = timer /\ clock' = clock
        <4>1. ASSUME NEW d \in Callers,
                     \/ Call(d) \/ Consult(d) \/ Verify(d) \/ GiveUp(d) \/ TryCreateClaim(d)
                     \/ LostClaim(d) \/ ClaimBusy(d) \/ Refresh(d) \/ Execute(d) \/ PutFinal(d)
                     \/ PutRetry(d) \/ Backoff(d) \/ Unlock(d) \/ PutPrepared(d) \/ Cleanup(d)
                     \/ Release(d) \/ Return(d)
              PROVE  timer' = timer /\ clock' = clock
          BY <4>1, Zenon DEF Call, Consult, Verify, GiveUp, TryCreateClaim, LostClaim, ClaimBusy, Refresh,
                      Execute, PutFinal, PutRetry, Backoff, Unlock, PutPrepared, Cleanup, Release,
                      Return, store
        <4>2. ASSUME NEW d \in Callers, PutFired(d) PROVE FALSE
          <5>1. pc'[c] # "exec"
            BY <2>0, <4>2, Zenon DEF PutFired, Goto
          <5> QED BY <5>1, Zenon
        <4>3. ASSUME NEW d \in Callers, Arm(d) PROVE FALSE
          <5>1. failed[d]
            BY <2>2, <4>3, ZenonT(20) DEF DurableInv, AloneInv, Place, Arm, Publishing
          <5>2. \E l \in {"unlock", "verify"} : Goto(d, l)
            BY <4>3, <5>1, Zenon DEF Arm, Settled
          <5>3. pc'[c] # "exec"
            BY <2>0, <5>2, Zenon DEF Goto
          <5> QED BY <5>3, Zenon
        <4>4. ~ Crash /\ ~ OperatorRelease /\ ~ Tick /\ ~ UNCHANGED vars
          BY Zenon DEF Crash, OperatorRelease, Tick, calls, vars
        <4> QED BY <4>1, <4>2, <4>3, <4>4, ZenonT(20) DEF Next, Step
      <3> QED BY <3>3, <3>4
    <2> QED BY <2>0, <2>1, <2>2
  <1> QED BY <1>1, DurableAlways, PTL DEF Spec, NoEarlyAttempt

(* Called once at a time, an activity keeps its history also with durable    *)
(* backoff, which releases the claim before the RETRYING record is written:  *)
(* a terminal record stays and no attempt is forgotten, with or without      *)
(* claims.                                                                   *)
THEOREM SequentialRetriesNeverRegress ==
  ASSUME \A s \in Scenarios : Alone(s)
  PROVE  Spec => RecordNeverRegresses
  <1>1. DurableInv /\ [Next]_vars =>
          [/\ Terminal(activity) => activity' = activity
           /\ activity'.attempts >= activity.attempts]_vars
    <2> SUFFICES ASSUME DurableInv, [Next]_vars
                 PROVE  /\ Terminal(activity) => activity' = activity
                        /\ activity'.attempts >= activity.attempts
      OBVIOUS
    <2>0. Alone(scenario) /\ activity.attempts \in Nat
      BY StoreFacts DEF DurableInv
    <2>1. CASE activity' = activity
      BY <2>0, <2>1
    <2>2. ASSUME NEW c \in Callers, PutFinal(c) \/ PutRetry(c) \/ PutPrepared(c), activity' = hand[c]
          PROVE  ~ Terminal(activity) /\ activity'.attempts >= activity.attempts
      <3>1. pc[c] \in {"put_final", "put_retry", "put_prepared"} /\ Place(c)
        BY <2>0, <2>2, Zenon DEF PutFinal, PutRetry, PutPrepared, DurableInv, AloneInv
      <3>2. Continues(c)
        BY <3>1, Zenon DEF Place, Publishing, Backed
      <3> QED BY <2>0, <2>2, <3>2 DEF Continues
    <2>3. activity' = activity \/ \E c \in Callers : /\ PutFinal(c) \/ PutRetry(c) \/ PutPrepared(c)
                                                     /\ activity' = hand[c]
      <3>1. ASSUME NEW c \in Callers, Call(c) \/ Step(c) \/ GiveUp(c) \/ Return(c)
            PROVE  \/ activity' = activity
                   \/ (PutFinal(c) \/ PutRetry(c) \/ PutPrepared(c)) /\ activity' = hand[c]
        BY <3>1, Zenon DEF Call, Step, GiveUp, Return, Consult, Arm, Verify, TryCreateClaim, LostClaim,
                    ClaimBusy, Refresh, Execute, PutFinal, PutRetry, Backoff, Unlock, PutPrepared,
                    Cleanup, PutFired, Release, store
      <3> QED BY <3>1, ZenonT(20) DEF Next, Crash, OperatorRelease, Tick, vars, store
    <2> QED BY <2>1, <2>2, <2>3
  <1> QED BY <1>1, DurableAlways, PTL DEF Spec, RecordNeverRegresses
=============================================================================
