---------------------------- MODULE MCSsidManager ----------------------------
(***************************************************************************)
(* The store of networks TLC checks: its networks and passwords differ in  *)
(* their names only, and all the properties are safety properties.         *)
(***************************************************************************)
EXTENDS SsidManagerProps, TLC

Symmetry == Permutations(Networks) \cup Permutations(Passwords)
=============================================================================
