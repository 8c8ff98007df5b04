---------------------------- MODULE MCAmigaLoop ----------------------------
EXTENDS AmigaLoop

(* The second and the third configuration allow one session more *)
MCSlots == <<2, 3, 3>>

(* Bound: while a configuration changes, and after it did, one session at  *)
(* a time is enough to have pointers into an old one                       *)
OneWhileReloading == fresh # {} \/ current > 1 => Cardinality(Active) <= 1
=============================================================================
