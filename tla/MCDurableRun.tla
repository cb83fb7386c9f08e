---------------------------- MODULE MCDurableRun ----------------------------
(* Instances of DurableRun for TLC. *)
EXTENDS DurableRun, TLC

SleepPollManualSleep == <<"sleep", "poll", "manual", "sleep">>
SleepPoll == <<"sleep", "poll">>
ZeroLast == <<1, 1, 0, 0>>    \* the last sleep is due at once
OneEach == <<1, 1>>
InvocationSymmetry == Permutations(Invocations)
=============================================================================
