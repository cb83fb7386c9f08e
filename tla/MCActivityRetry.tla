-------------------------- MODULE MCActivityRetry --------------------------
(* Instances of ActivityRetry for TLC. *)
EXTENDS ActivityRetry

CONSTANTS c1, c2

Short == <<1, 1>>      \* every backoff in process unless retry_after lengthens it
Long == <<2, 2>>       \* every backoff durable under a threshold of 2

Case(callers, interval, threshold, retryAfters, maxTime, maxFaults) ==
  [callers |-> callers, interval |-> interval, threshold |-> threshold,
   retryAfters |-> retryAfters, maxTime |-> maxTime, maxFaults |-> maxFaults]

(* One call at a time with durable backoff; two calls with backoff in process. *)
DurableOrFanout ==
  {Case({c1}, Long, 2, {0, 3}, 16, 3), Case({c1, c2}, Short, 0, {0}, 5, 3)}

(* The backoffs of one policy on either side of its durable threshold. *)
MixedBackoff == {Case({c1}, Short, 2, {0, 2}, 5, 1)}

(* Two calls with durable backoff. *)
DurableFanout == {Case({c1, c2}, Long, 2, {0}, 4, 0)}

(* One call and one failure. *)
DurableSingle == {Case({c1}, Long, 2, {0}, 4, 1)}
=============================================================================
