--------------------------- MODULE TimerRegister ---------------------------
(***************************************************************************)
(* What core/go/storage promises about timers, seen by a reader of the     *)
(* Store interface: each timer is one register.  A call fixes the value it *)
(* writes when it opens (a record for PutTimer, Absent for DeleteTimer),   *)
(* takes effect at most once while it is open, and may end at any moment,  *)
(* with or without its effect, because the process behind it may crash or  *)
(* its store operation may fail.                                           *)
(***************************************************************************)
CONSTANTS Timers, Procs, Values, Absent, NoTimer

VARIABLES reg, call

registerVars == <<reg, call>>

NoCall == [st |-> "idle", timer |-> NoTimer, val |-> Absent]

OpenCall(t, v) == [st |-> "open", timer |-> t, val |-> v]

Effective == [st |-> "effective", timer |-> NoTimer, val |-> Absent]

Init ==
  /\ reg \in [Timers -> Values \cup {Absent}]
  /\ call = [p \in Procs |-> NoCall]

Open(p, t, v) ==
  /\ call[p] = NoCall
  /\ call' = [call EXCEPT ![p] = OpenCall(t, v)]
  /\ UNCHANGED reg

Effect(p) ==
  /\ call[p].st = "open"
  /\ reg' = [reg EXCEPT ![call[p].timer] = call[p].val]
  /\ call' = [call EXCEPT ![p] = Effective]

End(p) ==
  /\ call[p] # NoCall
  /\ call' = [call EXCEPT ![p] = NoCall]
  /\ UNCHANGED reg

Next ==
  \E p \in Procs :
    \/ \E t \in Timers, v \in Values \cup {Absent} : Open(p, t, v)
    \/ Effect(p)
    \/ End(p)

Spec == Init /\ [][Next]_registerVars
=============================================================================
