----------------------------- MODULE MCTopology -----------------------------
(* Topology on small hosts: a card with two virtual functions (1; 2, 3), a   *)
(* second card (4), two bridges (5, 6), a VLAN interface (7) and a bond (8). *)
EXTENDS Cards

Cards4 == {1, 2, 3, 4}
Kinds == [i \in Iface |-> IF i \in Cards4 THEN "card" ELSE IF i \in {5, 6} THEN "bridge"
                          ELSE IF i = 7 THEN "vlan" ELSE "bond"]

\* Card 4 has nothing to do with the functions, or is the card's other port.
TwoCards == [i \in Iface |-> IF i \in {2, 3} THEN {1} ELSE {}]
TwoPorts == [i \in Iface |-> IF i \in {2, 3} THEN {1, 4} ELSE {}]

\* The physical function before its functions, between them, and after them,
\* and the VLAN interface before and after all of them.
Orders == {[i \in Iface |-> 10 + i],
           [i \in Iface |-> 10 + (IF i = 1 THEN 3 ELSE IF i = 3 THEN 1 ELSE i)],
           [i \in Iface |-> 10 + (IF i = 1 THEN 7 ELSE IF i = 7 THEN 1 ELSE i)]}
OneOrder == {[i \in Iface |-> 10 + i]}

\* Whatever is enslaved or stacked, in no circle.
Over(w) == {<<i, j>> \in Iface \X Iface : w.parent[i] = j \/ w.master[j] = i}
Circular(w) == \E S \in (SUBSET Iface) \ {{}} : \A i \in S : \E j \in S : <<i, j>> \in Over(w)

AllWirings ==
  {w \in {[master |-> [i \in Iface |-> CASE i = 1 -> a [] i = 2 -> b [] i = 3 -> c
                                         [] i = 7 -> d [] i = 8 -> e [] OTHER -> 0],
           parent |-> [i \in Iface |-> IF i = 7 THEN v ELSE 0]] :
             a \in {0, 5, 6, 8}, b \in {0, 5, 6, 8}, c \in {0, 5, 6},
             d \in {0, 5, 6}, e \in {0, 5, 6}, v \in {0, 2, 5, 6, 8}} :
     ~Circular(w)}
Straight == [master |-> [i \in Iface |-> IF i \in {1, 2} THEN 5 ELSE 0],
             parent |-> [i \in Iface |-> 0]]

\* A physical function that holds 3, functions that hold 2 unless trusted and
\* then as many as the firmware likes, and a card the table does not know.
Driver == [c \in Cards |-> IF c = 1 THEN "pf" ELSE IF c \in VFs THEN "vf" ELSE "other"]
Numbers == [v \in VFs |-> v]
Rows3 == {[driver |-> "pf", role |-> "pf", holds |-> 3],
          [driver |-> "vf", role |-> "vf", holds |-> 2],
          [driver |-> "vf", role |-> "trusted", holds |-> 0]}

\* The hypotheses of the theorems hold of these hosts.
ASSUME Hypotheses == Calm /\ Wired /\ Bonded /\ TrustHelps /\ Numbered
=============================================================================
