----------------------------- MODULE MCDrivers ------------------------------
(***************************************************************************)
(* The retry of an activity, and the two adapters that invoke runs again:  *)
(* the backfill and the background workers.  Each is checked on its own:   *)
(* part says which of them a behaviour is about, the others rest in their  *)
(* initial state, where no fair action of theirs is enabled.               *)
(***************************************************************************)
EXTENDS MCActivityRetry, Backfill, Workers

CONSTANTS r1, r2, r3, o1, a1, a2, p1, p2, t1, t2, t3

VARIABLE part

(* Nobody calls the activity. *)
AtRest == Case({}, Short, 0, {}, 0, 0)

RetryScenarios == DurableOrFanout \cup {AtRest}

(* Three runs of which two may be in flight; two runs one after the other,   *)
(* beside somebody else's, with a fault; two concurrent runs with one; and   *)
(* two runs that halt on the first error.                                    *)
MCRuns == {r1, r2, r3}
MCOthers == {o1}
BackfillOf(ids, n, halt, others, faulty) ==
  [runIDs |-> ids, concurrency |-> n, halt |-> halt, others |-> others,
   setbacks |-> faulty]

MCBackfills == {BackfillOf(<<r1, r2, r3>>, 2, TRUE, {}, 0), BackfillOf(<<r1, r2>>, 1, FALSE, {o1}, 1),
            BackfillOf(<<r1, r2>>, 2, FALSE, {}, 1), BackfillOf(<<r1, r2>>, 1, TRUE, {}, 0)}

(* The first timer of every scan is one whose dispatch fails. *)
MCStarters == {a1, a2}
MCStoppers == {p1, p2}
MCConfigs == {{"timer_scanner"}, {"cron", "janitor"}}
MCWakes == <<t1, t2, t3>>
MCBad == {t1}

MCInit ==
  /\ Init /\ BackfillInit /\ WorkersInit
  /\ part \in {"retry", "backfill", "workers"}
  /\ (scenario # AtRest) = (part = "retry")
  /\ part # "backfill" => Len(backfill.runIDs) = 3
  /\ part # "workers" => cfg = {"timer_scanner"}

MCNext ==
  /\ \/ part = "retry" /\ Next /\ UNCHANGED <<backfillVars, workersVars>>
     \/ part = "backfill" /\ BackfillNext /\ UNCHANGED <<vars, workersVars>>
     \/ part = "workers" /\ WorkersNext /\ UNCHANGED <<vars, backfillVars>>
  /\ UNCHANGED part

MCVars == <<part, vars, backfillVars, workersVars>>

MCSpec ==
  /\ MCInit /\ [][MCNext]_MCVars
  /\ Fairness /\ BackfillFairness /\ WorkersFairness
=============================================================================
