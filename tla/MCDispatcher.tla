---------------------------- MODULE MCDispatcher ----------------------------
(* A dispatcher with one slot, two DoAsync calls and two Shutdown calls. *)
EXTENDS Dispatcher

CONSTANTS s1, s2, c1, c2

MCSubs == {s1, s2}
MCCallers == {c1, c2}
MCQueues == {"inprocess", "external"}
=============================================================================
