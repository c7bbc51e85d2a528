------------------------------ MODULE Topology ------------------------------
(***************************************************************************)
(* A reading of the interfaces (Topology::from_links), what it is asked    *)
(* for, and the pairs that autodetect makes of it.                         *)
(*                                                                         *)
(* A reading is a dump from the kernel, all interfaces at one moment, and  *)
(* then a few files per card under its NAME, one at a time, while names    *)
(* change.  What the files say of a card is kept for good (device_facts)   *)
(* and checked against later readings.  The walks over the graph are       *)
(* operators on a reading t.  Interfaces are their kernel indices, names   *)
(* are numbers in the order of the names; 0 is no interface.               *)
(***************************************************************************)
EXTENDS Integers, FiniteSets

CONSTANTS
  Iface,     \* interfaces
  Kind,      \* what each of them is: "card", "vlan", "bond", "bridge"
  Physfn,    \* the interfaces of the physical function behind each VF
  Names,     \* names
  Order,     \* the names there may be at the start: functions from Iface
  Movable,   \* interfaces that may be renamed
  Freed,     \* those whose former names others may get
  Late,      \* interfaces of cards that may appear only later
  Wirings,   \* what is enslaved to what and stacked on what: [master, parent]
  Plain,     \* bound: the one that is read once a name has changed
  Burst      \* bound: renames during one reading

Nobody == 0
Cards == {i \in Iface : Kind[i] = "card"}
VFs == {i \in Cards : Physfn[i] # {}}
VFsOf(p) == {v \in VFs : p \in Physfn[v]}

ASSUME Interfaces ==
  /\ Iface \subseteq Nat \ {0} /\ IsFiniteSet(Iface) /\ Names \subseteq Nat
  /\ Kind \in [Iface -> {"card", "vlan", "bond", "bridge"}]
  /\ Physfn \in [Iface -> SUBSET Iface]
  /\ \A v \in VFs : Physfn[v] \subseteq Cards \ VFs
  /\ Movable \subseteq Iface /\ Freed \subseteq Iface /\ Late \subseteq Cards \ VFs
  /\ \A n \in Order : n \in [Iface -> Names] /\ \A i, j \in Iface : n[i] = n[j] => i = j
  /\ \A w \in Wirings \cup {Plain} : w \in [master : [Iface -> Iface \cup {Nobody}],
                                            parent : [Iface -> Iface \cup {Nobody}]]
  /\ Burst \in Nat

VARIABLES
  here,    \* the interfaces there are
  name,    \* the name of each
  retired, \* the names nobody may get any more
  moves,   \* how many renames there have been in the running reading
  at,      \* how far the reading is
  cur,     \* the card it is at
  dump,    \* the names and the interfaces in its dump
  got,     \* what it has of each card: [numvfs, facts]
  file,    \* the facts it has just read
  kept, facts,  \* FACTS: the cards with an entry, and what it says
  topo,    \* the reading that has just been made
  pairs    \* the pairs it makes

kernel == <<here, name, retired>>
reading == <<at, cur, dump, got, file>>
cache == <<kept, facts>>
vars == <<kernel, moves, reading, cache, topo, pairs>>

\* Facts are whether there is a driver, whether the card is a VF, and the
\* names of the interfaces of its physical function.
NoFacts == [driver |-> Nobody, vf |-> FALSE, pfs |-> {}]
Facts == [driver : Cards \cup {Nobody}, vf : BOOLEAN, pfs : SUBSET Names]
Unread == [numvfs |-> 0, facts |-> NoFacts]
NoReading == [links |-> {}]

TypeOK ==
  /\ here \subseteq Iface /\ name \in [Iface -> Names]
  /\ retired \subseteq Names
  /\ moves \in 0 .. Burst
  /\ at \in {"idle", "check", "numvfs", "facts", "recheck", "read"}
  /\ cur \in Cards \cup {Nobody}
  /\ dump \in [name : [Iface -> Names], here : SUBSET Iface]
  /\ got \in [Cards -> [numvfs : Nat, facts : Facts]]
  /\ file \in Facts /\ kept \subseteq Cards /\ facts \in [Cards -> Facts]
  /\ topo.links \subseteq Iface
  /\ pairs \subseteq Iface \X Iface

-----------------------------------------------------------------------------
(* Walks over a reading                                                     *)

\* flood, leads_to, bridge_above, filter_carrier: whatever the edges lead to,
\* the roots included; an interface that is not in the reading leads nowhere.
Grown(next, found) == found \cup UNION {next[i] : i \in found \cap DOMAIN next}

Flood(roots, next) ==
  LET grown[n \in 0 .. Cardinality(Iface)] ==
        IF n = 0 THEN roots ELSE Grown(next, grown[n - 1])
  IN  grown[Cardinality(Iface)]

\* What assemble works out from the other side.
Uppers(t, i) == {j \in t.links : i \in t.lowers[j]}
Slaves(t, i) == {j \in t.links : t.master[j] = i}

IsBridge(t, i) == i \in t.links /\ Kind[i] = "bridge"
Bridges(t) == {b \in t.links : Kind[b] = "bridge"}

StackedAbove(t, root) == Flood({root}, [i \in t.links |-> Uppers(t, i)])
SubtreeOf(t, root) == Flood({root}, [i \in t.links |-> t.lowers[i]])

Below(t, i) == IF t.below[i] = Nobody THEN {} ELSE {t.below[i]}

Chain(t, dev) == Flood({dev}, [i \in t.links |-> Below(t, i)])

FilterCarrier(t, dev) == CHOOSE c \in Chain(t, dev) : c \notin t.links \/ t.below[c] = Nobody

\* A VF names its function's interfaces, one that hands out VFs is its own,
\* and a bond or a VLAN is looked through - never a bridge.
Inside(t, dev) ==
  Flood({dev}, [i \in t.links |-> IF t.pfs[i] # {} \/ t.numvfs[i] > 0 \/ IsBridge(t, i) THEN {}
                                  ELSE Slaves(t, i) \cup Below(t, i)])

Own(t, i) == IF t.pfs[i] # {} THEN t.pfs[i] ELSE IF t.numvfs[i] > 0 THEN {i} ELSE {}

PhysicalFunctions(t, dev) == UNION {Own(t, i) : i \in Inside(t, dev) \cap t.links}

\* bridge_above: the bridge at the end of the masters and its port; nothing,
\* or the one pair.
Masters(t, dev) ==
  Flood({dev}, [i \in t.links |-> IF t.master[i] = Nobody \/ IsBridge(t, t.master[i]) THEN {}
                                  ELSE {t.master[i]}])

BridgeAbove(t, dev) ==
  {<<t.master[c], c>> : c \in {c \in Masters(t, dev) \cap t.links : IsBridge(t, t.master[c])}}

\* reach: the bridges stacked on a bridge.
StackedBridges(t, bridge) ==
  {b \in Bridges(t) \ {bridge} : t.lowers[b] \cap StackedAbove(t, bridge) # {}}

StackedRelated(t, a, b) ==
  a = b \/ b \in StackedBridges(t, a) \/ a \in StackedBridges(t, b)

\* classify: whether an address that bridge master has learnt on port i is
\* behind the bridge of a pair whose uplink enters at port.
IsBehind(t, bridge, port, i, master) ==
  IF master = bridge THEN i # port
  ELSE master \in StackedBridges(t, bridge) /\ i \notin StackedAbove(t, bridge)

Functions(t, dev) == PhysicalFunctions(t, FilterCarrier(t, dev))

\* Mutant: only the ports of the bridge itself.
SiblingsHere(t, dev, bridge, port) ==
  {i \in t.links \ {port, dev} : /\ t.master[i] = bridge
                                 /\ Functions(t, i) \cap Functions(t, dev) # {}}

\* anatomy: the other ports that face the same eSwitch.
Siblings(t, dev, bridge, port) ==
  {i \in t.links \ {port, dev} :
     /\ t.master[i] \in {bridge} \cup StackedBridges(t, bridge)
     /\ Functions(t, i) \cap Functions(t, dev) # {}}

\* Mutant: not the functions bound on the host.
ExcludedPfs(t, dev, port) == SubtreeOf(t, port) \cup {dev} \cup Functions(t, dev)

\* exclusions: the interfaces whose own addresses are never registered for a
\* pair, because they are on the wire side or belong to the same card.
Excluded(t, dev, port) ==
  SubtreeOf(t, port) \cup {dev} \cup Functions(t, dev)
    \cup {v \in t.links : t.pfs[v] \cap Functions(t, dev) # {}}

-----------------------------------------------------------------------------
(* autodetect                                                               *)

CouldBeUplink(t, i) ==
  \/ t.numvfs[i] > 0 \/ t.pfs[i] # {}
  \/ t.below[i] # Nobody /\ Functions(t, i) # {}

\* The interfaces that could be an uplink and end up in a bridge.
Candidates(t) == {i \in t.links : CouldBeUplink(t, i) /\ BridgeAbove(t, i) # {}}

BridgeOf(t, i) == (CHOOSE p \in BridgeAbove(t, i) : TRUE)[1]
PortOf(t, i) == (CHOOSE p \in BridgeAbove(t, i) : TRUE)[2]

\* A PF that is itself in this bridge, or in one stacked above or below it.
PfCarries(t, i) ==
  \E pf \in Functions(t, i) \ {i} : \E p \in BridgeAbove(t, pf) :
    StackedRelated(t, p[1], BridgeOf(t, i))

\* Mutant: only the very same bridge counts.
SameSegmentBridge(t, i, j) ==
  BridgeOf(t, i) = BridgeOf(t, j) /\ Functions(t, i) \cap Functions(t, j) # {}

\* Whether one that has been taken leaves no room for another.
SameSegment(t, i, j) ==
  /\ StackedRelated(t, BridgeOf(t, i), BridgeOf(t, j))
  /\ Functions(t, i) \cap Functions(t, j) # {}

Free(t) == {i \in Candidates(t) : ~PfCarries(t, i)}

\* In the order of the names, whoever meets nobody that was taken before.
Autodetect(t) ==
  LET taken[n \in Names] ==
        \E i \in Free(t) : /\ t.name[i] = n
                          /\ \A j \in Free(t) : t.name[j] < n /\ taken[t.name[j]] => ~SameSegment(t, i, j)
  IN  {<<i, BridgeOf(t, i)>> : i \in {i \in Free(t) : taken[t.name[i]]}}

-----------------------------------------------------------------------------
(* The reading                                                              *)

Init ==
  /\ here = Iface \ Late
  /\ name \in Order
  /\ retired = {}
  /\ moves = 0
  /\ at = "idle" /\ cur = Nobody /\ dump = [name |-> name, here |-> {}]
  /\ got = [c \in Cards |-> Unread] /\ file = NoFacts
  /\ kept = {} /\ facts = [c \in Cards |-> NoFacts]
  /\ topo = NoReading /\ pairs = {}

\* The interface a name leads to in /sys now, or none.
Directory(n) ==
  IF \E i \in here : name[i] = n THEN CHOOSE i \in here : name[i] = n ELSE Nobody

\* The cards after cur in the dump, and the first of those that are left.
Later(c) == {d \in Cards \cap dump.here : d > c}

Go(left) ==
  \/ left = {} /\ at' = "read" /\ cur' = Nobody
  \/ \E c \in left : (\A d \in left : c <= d) /\ at' = "check" /\ cur' = c

Dump ==
  /\ at = "idle"
  /\ dump' = [name |-> name, here |-> here]
  /\ Go(Cards \cap here)
  /\ got' = [c \in Cards |-> Unread]
  /\ moves' = 0 /\ topo' = NoReading /\ pairs' = {}
  /\ UNCHANGED <<kernel, file, cache>>

\* has_device: whether the directory is this interface's; the card is left
\* out of this reading where it is not.
Check ==
  /\ at = "check"
  /\ IF Directory(dump.name[cur]) = cur THEN at' = "numvfs" /\ UNCHANGED cur ELSE Go(Later(cur))
  /\ UNCHANGED <<kernel, moves, dump, got, file, cache, topo, pairs>>

\* A kept name that is not in the dump, or a VF whose function had none.
Stale(f) ==
  \/ \E n \in f.pfs : ~\E i \in dump.here : dump.name[i] = n
  \/ f.vf /\ f.pfs = {}

\* sriov_numvfs, read every time, and the facts that are kept.
ReadVfs ==
  /\ at = "numvfs"
  /\ LET dir == Directory(dump.name[cur])
         vfs == IF dir = Nobody THEN 0 ELSE Cardinality(VFsOf(dir))
     IN  IF cur \notin kept \/ Stale(facts[cur])
         THEN /\ at' = "facts"
              /\ got' = [got EXCEPT ![cur].numvfs = vfs]
              /\ UNCHANGED cur
         ELSE /\ got' = [got EXCEPT ![cur] = [numvfs |-> vfs, facts |-> facts[cur]]]
              /\ Go(Later(cur))
  /\ UNCHANGED <<kernel, moves, dump, file, cache, topo, pairs>>

\* Mutant: indices where names belong.
ReadFactsIndices ==
  /\ at = "facts" /\ at' = "recheck"
  /\ file' = [driver |-> cur, vf |-> cur \in VFs, pfs |-> Physfn[cur]]
  /\ UNCHANGED <<kernel, moves, cur, dump, got, cache, topo, pairs>>

\* The driver and the physical function of whoever has the directory now.
ReadFacts ==
  /\ at = "facts" /\ at' = "recheck"
  /\ LET dir == Directory(dump.name[cur])
     IN  file' = IF dir \notin Cards THEN NoFacts
                 ELSE [driver |-> dir, vf |-> dir \in VFs,
                       pfs |-> {name[p] : p \in Physfn[dir] \cap here}]
  /\ UNCHANGED <<kernel, moves, cur, dump, got, cache, topo, pairs>>

\* Mutant: what was read is kept without asking again.
RecheckNothing ==
  /\ at = "recheck"
  /\ kept' = kept \cup {cur} /\ facts' = [facts EXCEPT ![cur] = file]
  /\ got' = [got EXCEPT ![cur].facts = file]
  /\ file' = NoFacts /\ Go(Later(cur))
  /\ UNCHANGED <<kernel, moves, dump, topo, pairs>>

\* device_facts: kept only if the directory is still this interface's.
Recheck ==
  /\ at = "recheck"
  /\ IF Directory(dump.name[cur]) = cur
     THEN /\ kept' = kept \cup {cur} /\ facts' = [facts EXCEPT ![cur] = file]
          /\ got' = [got EXCEPT ![cur].facts = file]
     ELSE UNCHANGED <<cache, got>>
  /\ file' = NoFacts /\ Go(Later(cur))
  /\ UNCHANGED <<kernel, moves, dump, topo, pairs>>

\* What a dump of this wiring and what was read of the cards amount to: names
\* turned into indices, ports among the lowers of their master, and only
\* VLANs handing their filter down.
Assembled(w) ==
  LET named(S) == {i \in dump.here : dump.name[i] \in S}
      parents(i) == IF Kind[i] = "vlan" /\ w.parent[i] # Nobody THEN {w.parent[i]} ELSE {}
  IN  [links |-> dump.here, name |-> dump.name,
       master |-> w.master,
       lowers |-> [i \in Iface |-> parents(i) \cup {j \in dump.here : w.master[j] = i}],
       below |-> [i \in Iface |-> IF Kind[i] = "vlan" THEN w.parent[i] ELSE Nobody],
       numvfs |-> [i \in Iface |-> IF i \in Cards THEN got[i].numvfs ELSE 0],
       driver |-> [i \in Iface |-> IF i \in Cards THEN got[i].facts.driver ELSE Nobody],
       vf |-> [i \in Iface |-> i \in Cards /\ got[i].facts.vf],
       pfs |-> [i \in Iface |-> IF i \in Cards THEN named(got[i].facts.pfs) ELSE {}]]

\* Bound: other wirings are read only while all names are what they were.
Read == IF name \in Order /\ retired = {} /\ here = Iface THEN Wirings ELSE {Plain}

\* The pairs are resolved from the reading (resolve_pairs, with none configured).
Assemble ==
  /\ at = "read" /\ at' = "idle"
  /\ \E w \in Read :
       /\ topo' = Assembled(w)
       /\ pairs' = Autodetect(topo')
  /\ dump' = [name |-> name, here |-> {}] /\ got' = [c \in Cards |-> Unread]
  /\ UNCHANGED <<kernel, moves, cur, file, cache>>

-----------------------------------------------------------------------------
(* The kernel                                                               *)

\* An interface gets a name that nobody has, while the reading is under way or
\* between two.
Rename(i, n) ==
  /\ i \in here /\ n \notin retired /\ \A j \in Iface : name[j] # n
  /\ at = "idle" \/ moves < Burst
  /\ name' = [name EXCEPT ![i] = n]
  /\ retired' = IF i \in Freed THEN retired ELSE retired \cup {name[i]}
  /\ moves' = IF at = "idle" THEN moves ELSE moves + 1
  /\ topo' = NoReading /\ pairs' = {}
  /\ UNCHANGED <<here, reading, cache>>

\* A second interface of a function appears, such as the other port of a card.
Arrive(i) ==
  /\ at = "idle" /\ i \notin here
  /\ here' = here \cup {i}
  /\ topo' = NoReading /\ pairs' = {}
  /\ UNCHANGED <<name, retired, moves, reading, cache>>

Next ==
  \/ Dump \/ Check \/ ReadVfs \/ ReadFacts \/ Recheck \/ Assemble
  \/ \E i \in Movable, n \in Names : Rename(i, n)
  \/ \E i \in Late : Arrive(i)

Spec == Init /\ [][Next]_vars

-----------------------------------------------------------------------------
(* Properties *)

\* The cards a frame at an interface has come from if no bridge has forwarded
\* it, and whether two of them are functions of one card: what goes into the
\* one and is meant for the other is switched inside the card.
CardsAt(t, i) ==
  Flood({i}, [j \in t.links |-> IF IsBridge(t, j) THEN {} ELSE t.lowers[j]]) \cap Cards
FunctionOf(c) == IF c \in VFs THEN Physfn[c] ELSE {c}
OneSwitch(t, i, j) ==
  \E c \in CardsAt(t, i), d \in CardsAt(t, j) : FunctionOf(c) \cap FunctionOf(d) # {}

\* What a pair takes for a guest's: an address a bridge has learnt on a port,
\* or on a guest's (Nobody), that is neither wire nor a sibling's.
Claims(t, p, i, master) ==
  LET port == PortOf(t, p[1])
  IN  /\ IsBehind(t, p[2], port, i, master)
      /\ i \notin Siblings(t, p[1], p[2], port)

Learns(t) == {l \in (t.links \cup {Nobody}) \X t.links :
                IsBridge(t, l[2]) /\ (l[1] = Nobody \/ t.master[l[1]] = l[2])}

Undisturbed == topo.links # {} /\ moves = 0

\* "Read once per index" and "the directory has to answer for this index after
\* the reads as well as before": whatever was renamed while the cards were
\* first read, a later reading during which nothing is renamed has each card's
\* own driver, its own number of functions and its own physical function.
UndisturbedIsRight ==
  Undisturbed => \A c \in Cards \cap topo.links :
    /\ topo.driver[c] = c /\ topo.vf[c] = (c \in VFs)
    /\ topo.numvfs[c] = Cardinality(VFsOf(c))
    /\ topo.pfs[c] = Physfn[c] \cap topo.links

\* "Two vports of one eSwitch must not both claim a bridge's addresses": no
\* address is learnt anywhere that two pairs on functions of one card take for
\* their guest's.
OneClaim ==
  Undisturbed => \A p, q \in pairs : p # q /\ OneSwitch(topo, p[1], q[1]) =>
    ~\E l \in Learns(topo) : Claims(topo, p, l[1], l[2]) /\ Claims(topo, q, l[1], l[2])

\* Invariant 1, and "what a bridge learns there came off the same cable": an
\* address learnt on a port that leads, through whatever bonds and VLANs, to a
\* function of the pair's own card is nobody's guest.
WireStaysOut ==
  Undisturbed => \A p \in pairs, l \in Learns(topo) :
    l[1] # Nobody /\ Claims(topo, p, l[1], l[2]) => ~OneSwitch(topo, p[1], l[1])

\* Invariant 2 as far as interfaces go: every function of a pair's card that is
\* bound on the host has its own address among the exclusions.
FunctionsAreExcluded ==
  Undisturbed => \A p \in pairs : \A c \in Cards \cap topo.links :
    OneSwitch(topo, p[1], c) => c \in Excluded(topo, p[1], PortOf(topo, p[1]))

-----------------------------------------------------------------------------
(* What theorems rest on                                                    *)

\* Calm: the interfaces of a physical function are there from the start and
\* their former names go to nobody, and a reading meets one rename at most.
Calm == Burst <= 1 /\ \A v \in VFs : Physfn[v] \cap (Freed \cup Late) = {}

\* Wired, as the kernel has it: only bonds and bridges have ports, and no VLAN
\* interface stands on itself, not even through others.
Wired ==
  \A w \in Wirings \cup {Plain} :
    /\ \A i \in Iface : w.master[i] # Nobody => Kind[w.master[i]] \in {"bond", "bridge"}
    /\ ~\E S \in (SUBSET Iface) \ {{}} : \A i \in S : Kind[i] = "vlan" /\ w.parent[i] \in S

\* Bonded: bonds are made of cards, and a member with no functions to it has no
\* VLAN interface beside the bond's.
Bonded ==
  \A w \in Wirings \cup {Plain} : \A j \in Iface :
    w.master[j] # Nobody /\ Kind[w.master[j]] = "bond" =>
      /\ j \in Cards
      /\ j \in VFs \/ VFsOf(j) # {} \/ \A v \in Iface : Kind[v] = "vlan" => w.parent[v] # j

\* Unbraided: no bridge is stacked on two that are not stacked on each other.
Unbraided ==
  Undisturbed => \A a, b \in Bridges(topo) :
    StackedBridges(topo, a) \cap StackedBridges(topo, b) # {} => StackedRelated(topo, a, b)
=============================================================================
