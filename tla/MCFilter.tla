------------------------------ MODULE MCFilter ------------------------------
(* Filter on small instances: every address behind the one port. *)
EXTENDS Filter, TLC

CONSTANTS m1, m2, p1
OneHome == [m \in Mac |-> p1]
AnyMac == Permutations(Mac)
=============================================================================
