---------------------------- MODULE MCOwnership ----------------------------
(* Small instances of Ownership for TLC. *)
EXTENDS Ownership

CONSTANTS m1, m2

AnyWant == SUBSET Mac
SettledWant == {{m1}}
=============================================================================
