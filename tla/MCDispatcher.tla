---------------------------- MODULE MCDispatcher ----------------------------
(***************************************************************************)
(* Three calls, two of them of a function that may be registered or not;   *)
(* one gives no callback if it does not wait.                              *)
(***************************************************************************)
EXTENDS DispatcherProps

CONSTANTS c1, c2, c3

MCCalls == {c1, c2, c3}
MCSilent == {c3}
MCIndex == [c \in MCCalls |-> IF c = c2 THEN None ELSE "i1"]
=============================================================================
