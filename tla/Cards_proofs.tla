---------------------------- MODULE Cards_proofs ----------------------------
(***************************************************************************)
(* That the number the valve works with is one the card really holds, or   *)
(* less: what is worked out from a reading is never more than the least of *)
(* what the cards in front of an uplink hold.                              *)
(***************************************************************************)
EXTENDS Cards, Topology_proofs

-----------------------------------------------------------------------------
(* One card *)

LEMMA LeastFacts ==
  ASSUME NEW S \in SUBSET Nat, S # {}
  PROVE  Least(S) \in S /\ \A n \in S : Least(S) <= n
BY NaturalMinimum DEF Least

\* Whoever is told that a card is trusted has been told so of that card.
LEMMA ToldIsTrue ==
  ASSUME Numbered, NEW t, Host(t), NEW c \in VFs \cap t.links, NEW answers, NEW trusted \in SUBSET VFs,
         NEW pf \in {Least(t.pfs[c])} \cap answers, NEW v \in trusted, v \in VFsOf(pf), Number[v] = Number[c]
  PROVE  c \in trusted
<1>1. t.pfs[c] = Physfn[c] /\ Physfn[c] # {} /\ Physfn[c] \subseteq Iface
  BY Interfaces, NoCard DEF Host, VFs
<1>2. Physfn[c] \in SUBSET Nat
  BY <1>1, Interfaces
<1>3. pf \in Physfn[c]
  BY <1>1, <1>2, LeastFacts
<1>4. c \in VFsOf(pf) /\ pf \in Iface
  BY <1>1, <1>3 DEF VFsOf
<1> QED BY <1>4 DEF Numbered

\* The rows a card is judged by hold no more than it really does.
LEMMA JudgedSafely ==
  ASSUME TrustHelps, Numbered, NEW t, Host(t), NEW c \in Cards \cap t.links,
         NEW answers, NEW trusted \in SUBSET VFs, NEW n \in Really(c, trusted)
  PROVE  \E r \in Judge(t, c, answers, trusted) : r.holds # 0 /\ r.holds <= n
<1>1. PICK d : d = DriverOf[c]
  OBVIOUS
<1>2. PICK r \in FilterOf(d, c \in VFs, c \in trusted) : n = r.holds /\ r.holds # 0
  BY <1>1 DEF Really
<1>3. r \in Table /\ r.driver = d /\ r.holds \in Nat
  BY <1>2, Drivers DEF FilterOf, Rows
<1>4. r.holds <= n
  BY <1>2, <1>3
<1>5. t.driver[c] = c /\ t.pfs[c] = Physfn[c] /\ t.vf[c] = (c \in VFs)
  BY DEF Host
<1>6. (t.vf[c] \/ t.pfs[c] # {}) <=> c \in VFs
  BY <1>5, NoCard DEF VFs
<1>7. PICK asked : asked = IF t.pfs[c] = {} THEN {} ELSE {Least(t.pfs[c])} \cap answers
  OBVIOUS
<1>8. PICK told : told = \E pf \in asked, v \in trusted : v \in VFsOf(pf) /\ Number[v] = Number[c]
  OBVIOUS
<1>9. Judge(t, c, answers, trusted)
        = FilterOf(d, (t.vf[c] \/ t.pfs[c] # {}),
                      (t.vf[c] \/ t.pfs[c] # {}) /\ TrustMatters(d) /\ told)
  BY <1>1, <1>5, <1>7, <1>8 DEF Judge
<1>10. CASE c \notin VFs
  <2>1. r \in Rows(d, "pf")
    BY <1>2, <1>10 DEF FilterOf
  <2>2. Judge(t, c, answers, trusted) = Rows(d, "pf")
    BY <1>6, <1>9, <1>10 DEF FilterOf
  <2> QED BY <2>1, <2>2, <1>2, <1>4
<1>11. CASE c \in VFs
  <2>1. told => c \in trusted
    BY <1>7, <1>8, <1>11, ToldIsTrue
  <2>2. CASE Rows(d, "trusted") = {} \/ c \notin trusted
    <3>1. r \in Rows(d, "vf")
      BY <1>2, <1>11, <2>2 DEF FilterOf
    <3>2. Judge(t, c, answers, trusted) = Rows(d, "vf")
      BY <1>6, <1>9, <1>11, <2>1, <2>2 DEF FilterOf
    <3> QED BY <3>1, <3>2, <1>2, <1>4
  <2>3. CASE Rows(d, "trusted") # {} /\ c \in trusted
    <3>1. r \in Rows(d, "trusted")
      BY <1>2, <1>11, <2>3 DEF FilterOf
    <3>2. CASE Judge(t, c, answers, trusted) = Rows(d, "trusted")
      BY <3>1, <3>2, <1>2, <1>4
    <3>3. CASE Judge(t, c, answers, trusted) = Rows(d, "vf")
      <4>1. CASE r.role = "any"
        BY <3>1, <3>3, <4>1, <1>2, <1>4 DEF Rows
      <4>2. CASE r.role = "trusted"
        <5>1. PICK q \in Table : q.driver = d /\ q.role = "vf"
          BY <4>2, <1>3, Drivers
        <5>2. q \in Rows(d, "vf") /\ q.holds # 0 /\ q.holds <= r.holds
          BY <5>1, <4>2, <1>2, <1>3 DEF TrustHelps, Rows
        <5> QED BY <5>2, <3>3, <1>2
      <4> QED BY <3>1, <4>1, <4>2 DEF Rows
    <3>4. \/ Judge(t, c, answers, trusted) = Rows(d, "trusted")
          \/ Judge(t, c, answers, trusted) = Rows(d, "vf")
      BY <1>6, <1>9, <1>11 DEF FilterOf
    <3> QED BY <3>2, <3>3, <3>4
  <2> QED BY <2>2, <2>3
<1> QED BY <1>10, <1>11

-----------------------------------------------------------------------------
(* The cards in front of an uplink *)

LEMMA CarrierIsThere ==
  ASSUME NEW t, Host(t), NEW u \in t.links, CouldBeUplink(t, u)
  PROVE  FilterCarrier(t, u) \in t.links
<1> SUFFICES ASSUME FilterCarrier(t, u) \notin t.links PROVE FALSE
  OBVIOUS
<1>1. u \in Iface
  BY DEF Host
<1>2. PICK f \in Iface : f = FilterCarrier(t, u) /\ f \in Chain(t, u) /\ f \notin t.links
  BY <1>1, CarrierFacts
<1>3. t.below[u] # Nobody
  <2>1. t.below[u] = Nobody => f = u
    BY <1>1, <1>2, ChainStep
  <2> QED BY <2>1, <1>2
<1>4. t.numvfs[u] = 0 /\ t.pfs[u] = {}
  <2>1. u \notin Cards
    BY <1>3, CardIsLow
  <2> QED BY <2>1, <1>1 DEF Host
<1>5. Functions(t, u) # {}
  BY <1>4 DEF CouldBeUplink
<1>6. Inside(t, f) \subseteq {f}
  <2>1. \A i \in {f} \cap t.links : Ends(t, i) \subseteq {f}
    BY <1>2
  <2> QED BY <1>2, <2>1, InsideFacts
<1> QED BY <1>2, <1>5, <1>6 DEF Functions, PhysicalFunctions

\* What is inside the interface that holds the filter is judged.
LEMMA MembersJudged ==
  ASSUME NEW t, Host(t), BondsOf(t), NEW f \in t.links, t.below[f] = Nobody,
         NEW c \in Cards, c \in Inside(t, f), NEW answers, NEW trusted
  PROVE  c \in t.links /\ Judge(t, c, answers, trusted) \subseteq CardFilters(t, f, answers, trusted)
<1>1. f \in Iface /\ c \in Iface /\ t.links \subseteq Iface
  BY NoCard DEF Host
<1>2. c = f \/ (t.master[c] = f /\ Kind[f] = "bond" /\ c \in t.links)
  BY <1>1, InsideABond
<1>3. t.driver[c] # Nobody /\ c \in t.links
  BY <1>1, <1>2, NoCard DEF Host
<1>4. PICK inside : inside = [j \in t.links |-> IF t.driver[j] # Nobody THEN {} ELSE Slaves(t, j) \cup Below(t, j)]
  OBVIOUS
<1>5. PICK members : members = IF t.driver[f] # Nobody THEN {f}
                               ELSE IF IsBridge(t, f) THEN {}
                               ELSE Flood(Slaves(t, f), inside) \cap t.links
  OBVIOUS
<1>6. CardFilters(t, f, answers, trusted)
        = UNION {Judge(t, j, answers, trusted) : j \in {j \in members : t.driver[j] # Nobody}}
  BY <1>4, <1>5 DEF CardFilters
<1>7. c \in members
  <2>1. CASE c = f
    BY <2>1, <1>3, <1>5
  <2>2. CASE t.master[c] = f /\ Kind[f] = "bond"
    <3>1. f \notin Cards /\ ~IsBridge(t, f)
      BY <2>2 DEF Cards, IsBridge
    <3>2. t.driver[f] = Nobody
      BY <3>1, <1>1 DEF Host
    <3>3. c \in Slaves(t, f) /\ Slaves(t, f) \subseteq Iface
      BY <2>2, <1>1, <1>3 DEF Slaves
    <3>4. Edges(inside)
      <4>1. \A j \in t.links : Slaves(t, j) \cup Below(t, j) \subseteq Iface
        BY <1>1, HostTyped
      <4> QED BY <4>1, <1>1, <1>4 DEF Edges
    <3>5. Slaves(t, f) \subseteq Flood(Slaves(t, f), inside)
      BY <3>3, <3>4, FloodFacts
    <3> QED BY <3>1, <3>2, <3>3, <3>5, <1>3, <1>5
  <2> QED BY <2>1, <2>2, <1>2
<1> QED BY <1>3, <1>6, <1>7

\* The least of what is judged is no more than any card really holds.
LEMMA HoldsSafely ==
  ASSUME TrustHelps, Numbered, NEW t, Host(t), BondsOf(t), NEW f \in t.links, t.below[f] = Nobody,
         NEW c \in Cards, c \in Inside(t, f),
         NEW answers, NEW trusted \in SUBSET VFs, NEW n \in Really(c, trusted)
  PROVE  CardHolds(t, f, answers, trusted) <= n
<1>1. c \in t.links /\ Judge(t, c, answers, trusted) \subseteq CardFilters(t, f, answers, trusted)
  BY MembersJudged
<1>2. PICK r \in Judge(t, c, answers, trusted) : r.holds # 0 /\ r.holds <= n
  BY <1>1, JudgedSafely
<1>3. PICK known : known = {q.holds : q \in CardFilters(t, f, answers, trusted)} \ {0}
  OBVIOUS
<1>4. \A q \in CardFilters(t, f, answers, trusted) : q.holds \in Nat
  <2>1. \A j : Judge(t, j, answers, trusted) \subseteq Table
    BY DEF Judge, FilterOf, Rows
  <2>2. CardFilters(t, f, answers, trusted) \subseteq Table
    BY <2>1 DEF CardFilters
  <2> QED BY <2>2, Drivers
<1>5. known \in SUBSET Nat /\ r.holds \in known
  BY <1>1, <1>2, <1>3, <1>4
<1>6. Least(known) \in Nat /\ Least(known) <= r.holds
  BY <1>5, LeastFacts
<1>7. n \in Nat
  BY Drivers DEF Really, FilterOf, Rows
<1>8. CardHolds(t, f, answers, trusted) = Least(known)
  BY <1>3, <1>5 DEF CardHolds
<1> QED BY <1>2, <1>5, <1>6, <1>7, <1>8

LEMMA HostLimits ==
  ASSUME TrustHelps, Numbered, NEW t, Host(t), BondsOf(t), NEW p \in Autodetect(t),
         NEW answers, NEW trusted \in SUBSET VFs,
         NEW c \in CardsAt(t, p[1]), NEW n \in Really(c, trusted)
  PROVE  CardLimits(t, {q[1] : q \in Autodetect(t)}, <<>>, answers, trusted)[FilterCarrier(t, p[1])] <= n
<1>1. PICK u \in t.links : u = p[1] /\ u \in Iface /\ CouldBeUplink(t, u)
  BY PairFacts
<1>2. PICK f \in t.links : f = FilterCarrier(t, u)
  BY <1>1, CarrierIsThere
<1>3. t.below[f] = Nobody
  BY <1>1, <1>2, CarrierFacts
<1>4. c \in Cards /\ c \in Inside(t, f)
  BY <1>1, <1>2, CardsAreInside
<1>5. PICK devs : devs = {q[1] : q \in Autodetect(t)}
  OBVIOUS
<1>6. f \in Carriers(t, devs)
  BY <1>1, <1>2, <1>5 DEF Carriers
<1>7. CardLimits(t, devs, <<>>, answers, trusted)[f] = CardHolds(t, f, answers, trusted)
  BY <1>6 DEF CardLimits
<1>8. CardHolds(t, f, answers, trusted) <= n
  BY <1>3, <1>4, HoldsSafely
<1> QED BY <1>1, <1>2, <1>5, <1>7, <1>8

\* Through VLANs and bonds, whatever is trusted and whichever physical function
\* does not answer, no card that takes a share of an uplink's entries is
\* driven past the number its driver is known to hold (apply_card_limits,
\* card_filter, drivers::filter_of).
THEOREM CardsAreSpared ==
  ASSUME Calm, Wired, Bonded, TrustHelps, Numbered
  PROVE  Spec => []LimitsAreHeld
<1>1. IInv /\ ReadOff => LimitsAreHeld
  <2> SUFFICES ASSUME IInv, ReadOff, Undisturbed,
                      NEW trusted \in SUBSET VFs, NEW answers \in SUBSET (Cards \ VFs),
                      NEW p \in pairs, NEW c \in CardsAt(topo, p[1]), NEW n \in Really(c, trusted)
               PROVE  CardLimits(topo, {q[1] : q \in pairs}, <<>>, answers, trusted)
                        [FilterCarrier(topo, p[1])] <= n
    BY DEF LimitsAreHeld
  <2>1. Host(topo) /\ BondsOf(topo)
    BY ReadingIsHost, ReadingHasBonds DEF IInv, Inv
  <2>2. pairs = Autodetect(topo)
    BY DEF ReadOff
  <2>3. p \in Autodetect(topo)
    BY <2>2
  <2> HIDE DEF Undisturbed
  <2> QED BY <2>1, <2>2, <2>3, HostLimits
<1> QED BY <1>1, ReadOffHolds, PTL
=============================================================================
