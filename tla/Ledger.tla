------------------------------- MODULE Ledger -------------------------------
(***************************************************************************)
(* What the ownership protocol of sriov-mac-sync promises, and nothing of  *)
(* how it keeps it.                                                        *)
(*                                                                         *)
(* `claims` is what the ownership note names; `held` is what this program  *)
(* has put into the card's unicast filter and not yet taken out.  An entry *)
(* is put only under a claim, and a claim is let go only for addresses the *)
(* card no longer holds for us - so every entry of ours stays on record    *)
(* and something (a pass, --flush) can still take it back out.             *)
(***************************************************************************)
CONSTANT Mac        \* unicast addresses
VARIABLES claims,   \* addresses named by the note
          held      \* addresses in the card that this program put there

vars == <<claims, held>>

Init == claims = {} /\ held = {}

\* The note changes: what it newly names is not yet in the card, what it no
\* longer names is not in the card any more.
Account == \E S \in SUBSET Mac :
             /\ held \subseteq S
             /\ claims' = S
             /\ UNCHANGED held

\* An entry goes into the card under a claim.
Put == \E m \in claims : held' = held \cup {m} /\ UNCHANGED claims

\* An entry leaves the card; the claim outlives it until it is accounted for.
Take == \E m \in held : held' = held \ {m} /\ UNCHANGED claims

Next == Account \/ Put \/ Take

Spec == Init /\ [][Next]_vars
=============================================================================
