----------------------------- MODULE MCNetlink ------------------------------
(* Netlink with interchangeable entries. *)
EXTENDS Netlink, TLC

CONSTANTS a, b, v
AnyItem == Permutations(Item)
=============================================================================
