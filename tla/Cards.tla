------------------------------- MODULE Cards --------------------------------
(***************************************************************************)
(* What each card holds (src/drivers.rs: filter_of), as the daemon works   *)
(* it out of a reading: for an uplink, the interface that holds its        *)
(* filter; for a bond, the smallest among its members; for a virtual       *)
(* function, what the driver does with or without the PF's trust, which    *)
(* the PF is asked about (src/daemon.rs: apply_card_limits).               *)
(*                                                                         *)
(* What a driver does past its number shapes messages only and is left     *)
(* out, and so is an operator's --max, which the numbers yield to.         *)
(***************************************************************************)
EXTENDS Topology

CONSTANTS
  DriverOf,   \* the driver of each card
  Number,     \* which of its physical function's VFs each VF is
  Table,      \* TABLE: [driver, role, holds]; 0 where firmware decides
  Locked,     \* LOCKED_UNTRUSTED
  Assumed     \* DEFAULT_MAX_MACS

ASSUME Drivers ==
  /\ \A r \in Table : r.role \in {"any", "pf", "vf", "trusted"} /\ r.holds \in Nat
  /\ \A r \in Table : r.role = "trusted" => \E q \in Table : q.driver = r.driver /\ q.role = "vf"
  /\ \A r, q \in Table : r.driver = q.driver /\ r # q => r.role # q.role /\ "any" \notin {r.role, q.role}
  /\ DOMAIN DriverOf = Cards /\ DOMAIN Number = VFs /\ Assumed \in Nat \ {0}
  /\ \A r \in Table : r.holds <= Assumed

Least(S) == CHOOSE n \in S : \A m \in S : n <= m

\* filter_of: the row of a driver for a role, at most one.
Rows(d, role) == {r \in Table : r.driver = d /\ r.role \in {"any", role}}

FilterOf(d, vf, trusted) ==
  IF ~vf THEN Rows(d, "pf")
  ELSE IF trusted /\ Rows(d, "trusted") # {} THEN Rows(d, "trusted")
  ELSE Rows(d, "vf")

TrustMatters(d) == d \in Locked \/ \E r \in Table : r.driver = d /\ r.role = "trusted"

\* judge: the PF is asked only where it matters, the lowest of them where there
\* are several, and by the function's number; no answer is no trust.
Judge(t, i, answers, trusted) ==
  LET d == DriverOf[t.driver[i]]
      vf == t.vf[i] \/ t.pfs[i] # {}
      asked == IF t.pfs[i] = {} THEN {} ELSE {Least(t.pfs[i])} \cap answers
      told == \E pf \in asked, v \in trusted : v \in VFsOf(pf) /\ Number[v] = Number[t.driver[i]]
  IN  FilterOf(d, vf, vf /\ TrustMatters(d) /\ told)

\* card_filter: its own driver's, or those of whatever a bond or a VLAN under
\* it leads to.
CardFilters(t, i, answers, trusted) ==
  LET inside == [j \in t.links |-> IF t.driver[j] # Nobody THEN {} ELSE Slaves(t, j) \cup Below(t, j)]
      members == IF t.driver[i] # Nobody THEN {i}
                 ELSE IF IsBridge(t, i) THEN {}
                 ELSE Flood(Slaves(t, i), inside) \cap t.links
  IN  UNION {Judge(t, j, answers, trusted) : j \in {j \in members : t.driver[j] # Nobody}}

\* Mutant: the largest of them.
CardHoldsMost(t, i, answers, trusted) ==
  LET known == {r.holds : r \in CardFilters(t, i, answers, trusted)} \ {0}
  IN  IF known = {} THEN Assumed ELSE CHOOSE n \in known : \A m \in known : m <= n

CardHolds(t, i, answers, trusted) ==
  LET known == {r.holds : r \in CardFilters(t, i, answers, trusted)} \ {0}
  IN  IF known = {} THEN Assumed ELSE Least(known)

\* filter_carriers: an uplink that is not in the reading stands for itself.
Carriers(t, devs) == {IF d \in t.links THEN FilterCarrier(t, d) ELSE d : d \in devs}

\* apply_card_limits: max_macs_per_card; a card that is not in the reading
\* keeps the number it had, if it had one.
CardLimits(t, devs, last, answers, trusted) ==
  [c \in {c \in Carriers(t, devs) : c \in t.links \/ c \in DOMAIN last} |->
     IF c \in t.links THEN CardHolds(t, c, answers, trusted) ELSE last[c]]

-----------------------------------------------------------------------------
(* Properties *)

\* What the card really does for the function it is, with the trust it has.
Really(c, trusted) ==
  {r.holds : r \in FilterOf(DriverOf[c], c \in VFs, c \in trusted)} \ {0}

\* The number the valve works with is the card's own or less: through VLANs
\* and bonds, with whatever functions are trusted and whichever PF does not
\* answer, no card that takes a share of an uplink's entries is driven past
\* the number its driver is known to hold.
LimitsAreHeld ==
  Undisturbed => \A trusted \in SUBSET VFs, answers \in SUBSET (Cards \ VFs) :
    LET limits == CardLimits(topo, {p[1] : p \in pairs}, <<>>, answers, trusted)
    IN  \A p \in pairs : \A c \in CardsAt(topo, p[1]) : \A n \in Really(c, trusted) :
          limits[FilterCarrier(topo, p[1])] <= n

-----------------------------------------------------------------------------
(* What theorems rest on                                                    *)

\* TrustHelps, as in the table: a function that is trusted holds what firmware
\* decides, or no less than one that is not.
TrustHelps ==
  \A r, q \in Table : r.driver = q.driver /\ r.role = "trusted" /\ q.role = "vf" /\ r.holds # 0 =>
    q.holds # 0 /\ q.holds <= r.holds

\* Numbered: a physical function knows its functions by their numbers.
Numbered == \A p \in Iface : \A v, w \in VFsOf(p) : Number[v] = Number[w] => v = w
=============================================================================
