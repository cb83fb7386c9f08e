----------------------------- MODULE MCCronRuns -----------------------------
(* Two schedulers and a worker, with one store instance for all of them or   *)
(* with two.                                                                 *)
EXTENDS CronRuns

CONSTANTS s1, s2, w

MCStores == {"A", "B"}
MCLayouts == {[p \in Processes |-> "A"], [p \in Processes |-> IF p = s1 THEN "A" ELSE "B"]}
=============================================================================
