--------------------------- MODULE Topology_proofs ---------------------------
(***************************************************************************)
(* That a reading of the interfaces says of each card what the card is,    *)
(* although it is read under names that change hands while it is read.     *)
(***************************************************************************)
EXTENDS Topology, FiniteSetTheorems, WellFoundedInduction, TLAPS

-----------------------------------------------------------------------------
(* Floods *)

LEMMA NaturalMinimum ==
  ASSUME NEW T \in SUBSET Nat, T # {}
  PROVE  \E x \in T : \A y \in T : x <= y
<1> DEFINE R == {ss \in Nat \X Nat : ss[1] < ss[2]}
<1>1. IsWellFoundedOn(R, Nat)
  BY NatLessThanWellFounded DEF OpToRel
<1> HIDE DEF R
<1>2. PICK x \in T : \A y \in T : ~(<<y, x>> \in R)
  BY <1>1, WFMin
<1>3. ASSUME NEW y \in T PROVE x <= y
  <2>1. x \in Nat /\ y \in Nat
    OBVIOUS
  <2>2. y < x => <<y, x>> \in R
    BY <2>1 DEF R
  <2> QED BY <1>2, <2>1, <2>2
<1> QED BY <1>3

\* Induction, for a set of numbers.
LEMMA Induction ==
  ASSUME NEW N \in Nat, NEW T, 0 \in T, \A n \in 0 .. N : n # N /\ n \in T => n + 1 \in T
  PROVE  \A n \in 0 .. N : n \in T
<1> SUFFICES ASSUME NEW m \in 0 .. N, m \notin T PROVE FALSE
  OBVIOUS
<1>1. PICK x \in (0 .. N) \ T : \A y \in (0 .. N) \ T : x <= y
  <2>1. (0 .. N) \ T \in SUBSET Nat /\ (0 .. N) \ T # {}
    OBVIOUS
  <2> QED BY <2>1, NaturalMinimum
<1>2. x # 0 /\ x - 1 \in 0 .. N /\ x - 1 # N /\ (x - 1) + 1 = x /\ ~(x <= x - 1)
  BY <1>1
<1>3. x - 1 \in T
  BY <1>1, <1>2
<1> QED BY <1>1, <1>2, <1>3

\* The layers of a flood, as many as are asked for.
Layered(roots, next, N, g) ==
  /\ g \in [0 .. N -> SUBSET Iface]
  /\ g[0] = roots
  /\ \A n \in 0 .. N : n # 0 => g[n] = Grown(next, g[n - 1])

Edges(next) == DOMAIN next \subseteq Iface /\ \A i \in DOMAIN next : next[i] \subseteq Iface

LEMMA GrownTyped ==
  ASSUME NEW next, Edges(next), NEW S \in SUBSET Iface
  PROVE  Grown(next, S) \in SUBSET Iface
BY DEF Grown, Edges

LEMMA LayersExist ==
  ASSUME NEW roots \in SUBSET Iface, NEW next, Edges(next), NEW N \in Nat
  PROVE  \E g : Layered(roots, next, N, g)
<1> DEFINE T == {k \in 0 .. N : \E g : Layered(roots, next, k, g)}
<1>1. 0 \in T
  <2>1. Layered(roots, next, 0, [n \in 0 .. 0 |-> roots])
    BY DEF Layered
  <2> QED BY <2>1
<1>2. ASSUME NEW k \in 0 .. N, k # N, k \in T PROVE k + 1 \in T
  <2>1. PICK g : Layered(roots, next, k, g)
    BY <1>2
  <2>2. k \in Nat /\ k + 1 \in 0 .. N /\ k \in 0 .. k
    BY <1>2
  <2>3. PICK h : h = [n \in 0 .. k + 1 |-> IF n = k + 1 THEN Grown(next, g[k]) ELSE g[n]]
    OBVIOUS
  <2>4. g[k] \in SUBSET Iface /\ Grown(next, g[k]) \in SUBSET Iface
    BY <2>1, <2>2, GrownTyped DEF Layered
  <2>5. ASSUME NEW n \in 0 .. k + 1
        PROVE  /\ h[n] \in SUBSET Iface
               /\ n = 0 => h[n] = roots
               /\ n # 0 => h[n] = Grown(next, h[n - 1])
    <3>1. CASE n = k + 1
      <4>1. n # 0 /\ n - 1 = k /\ k # k + 1 /\ k \in 0 .. k + 1
        BY <2>2, <3>1
      <4>2. h[n] = Grown(next, g[k]) /\ h[k] = g[k]
        BY <2>3, <3>1, <4>1
      <4> QED BY <2>4, <4>1, <4>2
    <3>2. CASE n # k + 1
      <4>1. n \in 0 .. k /\ (n # 0 => n - 1 \in 0 .. k /\ n - 1 # k + 1 /\ n - 1 \in 0 .. k + 1)
        BY <2>2, <3>2
      <4>2. h[n] = g[n] /\ (n # 0 => h[n - 1] = g[n - 1])
        BY <2>3, <3>2, <4>1
      <4> QED BY <2>1, <4>1, <4>2 DEF Layered
    <3> QED BY <3>1, <3>2
  <2>6. h = [n \in 0 .. k + 1 |-> h[n]] /\ 0 \in 0 .. k + 1
    BY <2>2, <2>3
  <2>7. Layered(roots, next, k + 1, h)
    BY <2>5, <2>6 DEF Layered
  <2> QED BY <2>2, <2>7
<1> HIDE DEF T
<1>3. \A k \in 0 .. N : k \in T
  BY <1>1, <1>2, Induction
<1> QED BY <1>3 DEF T

LEMMA FloodLayers ==
  ASSUME NEW roots \in SUBSET Iface, NEW next, Edges(next)
  PROVE  \E g : /\ Layered(roots, next, Cardinality(Iface), g)
                /\ Flood(roots, next) = g[Cardinality(Iface)]
<1>1. PICK N : N = Cardinality(Iface) /\ N \in Nat
  BY FS_CardinalityType, Interfaces
<1>2. PICK g : g = CHOOSE f : f = [n \in 0 .. N |-> IF n = 0 THEN roots ELSE Grown(next, f[n - 1])]
  OBVIOUS
<1>3. Flood(roots, next) = g[N]
  BY <1>1, <1>2 DEF Flood
<1>4. PICK h : Layered(roots, next, N, h)
  BY <1>1, LayersExist
<1>5. h = [n \in 0 .. N |-> IF n = 0 THEN roots ELSE Grown(next, h[n - 1])]
  BY <1>4 DEF Layered
<1>6. g = [n \in 0 .. N |-> IF n = 0 THEN roots ELSE Grown(next, g[n - 1])]
  BY <1>2, <1>5
<1>7. Layered(roots, next, N, g)
  <2>1. g[0] = roots /\ \A n \in 0 .. N : n # 0 => g[n] = Grown(next, g[n - 1])
    BY <1>1, <1>6
  <2> DEFINE T == {k \in 0 .. N : g[k] \in SUBSET Iface}
  <2>2. 0 \in T
    BY <1>1, <2>1
  <2>3. ASSUME NEW k \in 0 .. N, k # N, k \in T PROVE k + 1 \in T
    <3>1. k + 1 \in 0 .. N /\ k + 1 # 0 /\ (k + 1) - 1 = k
      BY <1>1, <2>3
    <3>2. g[k + 1] = Grown(next, g[k])
      BY <2>1, <3>1
    <3> QED BY <2>3, <3>1, <3>2, GrownTyped
  <2> HIDE DEF T
  <2>4. \A k \in 0 .. N : k \in T
    BY <1>1, <2>2, <2>3, Induction
  <2>5. g = [n \in 0 .. N |-> g[n]]
    BY <1>6
  <2> QED BY <2>1, <2>4, <2>5 DEF Layered, T
<1> QED BY <1>1, <1>3, <1>7

\* A flood is the least set that has its roots and all that the edges lead to.
LEMMA FloodFacts ==
  ASSUME NEW roots \in SUBSET Iface, NEW next, Edges(next)
  PROVE  /\ roots \subseteq Flood(roots, next) /\ Flood(roots, next) \subseteq Iface
         /\ \A i \in Flood(roots, next) \cap DOMAIN next : next[i] \subseteq Flood(roots, next)
         /\ \A C : roots \subseteq C /\ (\A i \in C \cap DOMAIN next : next[i] \subseteq C)
                     => Flood(roots, next) \subseteq C
<1>1. PICK N : N = Cardinality(Iface) /\ N \in Nat
  BY FS_CardinalityType, Interfaces
<1>2. PICK g : Layered(roots, next, N, g) /\ Flood(roots, next) = g[N]
  BY <1>1, FloodLayers
<1>3. ASSUME NEW k \in 0 .. N, k # N
      PROVE  k + 1 \in 0 .. N /\ g[k + 1] = Grown(next, g[k])
  <2>1. k + 1 \in 0 .. N /\ k + 1 # 0 /\ (k + 1) - 1 = k
    BY <1>1, <1>3
  <2> QED BY <1>2, <2>1 DEF Layered
<1>4. N \in 0 .. N /\ g[N] \subseteq Iface
  BY <1>1, <1>2 DEF Layered
<1>5. roots \subseteq g[N]
  <2> DEFINE T == {k \in 0 .. N : roots \subseteq g[k]}
  <2>1. 0 \in T
    BY <1>1, <1>2 DEF Layered
  <2>2. \A k \in 0 .. N : k # N /\ k \in T => k + 1 \in T
    BY <1>3 DEF Grown
  <2> HIDE DEF T
  <2>3. N \in T
    BY <1>1, <1>4, <2>1, <2>2, Induction
  <2> QED BY <2>3 DEF T
<1>6. ASSUME NEW C, roots \subseteq C, \A i \in C \cap DOMAIN next : next[i] \subseteq C
      PROVE  g[N] \subseteq C
  <2> DEFINE T == {k \in 0 .. N : g[k] \subseteq C}
  <2>1. 0 \in T
    BY <1>1, <1>2, <1>6 DEF Layered
  <2>2. \A k \in 0 .. N : k # N /\ k \in T => k + 1 \in T
    BY <1>3, <1>6 DEF Grown
  <2> HIDE DEF T
  <2>3. N \in T
    BY <1>1, <1>4, <2>1, <2>2, Induction
  <2> QED BY <2>3 DEF T
<1>7. Grown(next, g[N]) = g[N]
  <2> DEFINE T == {k \in 0 .. N : Grown(next, g[k]) = g[k] \/ k <= Cardinality(g[k])}
  <2>1. \A k \in 0 .. N : /\ g[k] \subseteq Iface /\ IsFiniteSet(g[k])
                          /\ Cardinality(g[k]) \in Nat /\ Cardinality(g[k]) <= N
                          /\ Cardinality(g[k]) = N => g[k] = Iface
    <3> SUFFICES ASSUME NEW k \in 0 .. N
                 PROVE  /\ g[k] \subseteq Iface /\ IsFiniteSet(g[k])
                        /\ Cardinality(g[k]) \in Nat /\ Cardinality(g[k]) <= N
                        /\ Cardinality(g[k]) = N => g[k] = Iface
      OBVIOUS
    <3>1. g[k] \in SUBSET Iface
      BY <1>2 DEF Layered
    <3> QED BY <3>1, <1>1, Interfaces, FS_Subset, FS_CardinalityType
  <2>2. 0 \in T
    BY <1>1, <2>1
  <2>3. ASSUME NEW k \in 0 .. N, k # N, k \in T PROVE k + 1 \in T
    <3>1. k + 1 \in 0 .. N /\ g[k + 1] = Grown(next, g[k])
      BY <1>3, <2>3
    <3>2. CASE Grown(next, g[k]) = g[k]
      BY <3>1, <3>2
    <3>3. CASE Grown(next, g[k]) # g[k] /\ k <= Cardinality(g[k])
      <4>1. g[k] \subseteq g[k + 1] /\ g[k] # g[k + 1]
        BY <3>1, <3>3 DEF Grown
      <4>2. Cardinality(g[k]) <= Cardinality(g[k + 1]) /\ Cardinality(g[k]) # Cardinality(g[k + 1])
        BY <4>1, <3>1, <2>1, FS_Subset
      <4>3. Cardinality(g[k]) \in Nat /\ Cardinality(g[k + 1]) \in Nat
        BY <3>1, <2>1
      <4>4. k + 1 <= Cardinality(g[k + 1])
        BY <4>2, <4>3, <3>3, <1>1
      <4> QED BY <4>4, <3>1
    <3> QED BY <2>3, <3>2, <3>3
  <2> HIDE DEF T
  <2>4. N \in T
    BY <1>1, <1>4, <2>2, <2>3, Induction
  <2>5. CASE N <= Cardinality(g[N])
    <3>1. g[N] = Iface
      BY <2>5, <2>1, <1>1, <1>4
    <3> QED BY <3>1 DEF Grown, Edges
  <2> QED BY <2>4, <2>5 DEF T
<1>8. \A i \in g[N] \cap DOMAIN next : next[i] \subseteq g[N]
  BY <1>7 DEF Grown
<1> QED BY <1>2, <1>4, <1>5, <1>6, <1>8

-----------------------------------------------------------------------------
(* The pairs *)

LEMMA PairsTyped ==
  ASSUME NEW t, t.links \subseteq Iface
  PROVE  Autodetect(t) \subseteq Iface \X Iface
<1>1. ASSUME NEW i, NEW p \in BridgeAbove(t, i) PROVE p[1] \in Iface
  BY <1>1 DEF BridgeAbove, IsBridge
<1>2. ASSUME NEW i \in Candidates(t) PROVE i \in Iface /\ BridgeOf(t, i) \in Iface
  BY <1>1, <1>2 DEF Candidates, BridgeOf
<1>3. ASSUME NEW p \in Autodetect(t) PROVE \E i \in Candidates(t) : p = <<i, BridgeOf(t, i)>>
  BY DEF Autodetect, Free
<1> QED BY <1>2, <1>3

-----------------------------------------------------------------------------
(* The inductive invariant *)

\* No two interfaces share a name, and the card at hand is one of the dump's.
TInv ==
  /\ TypeOK
  /\ \A i, j \in Iface : name[i] = name[j] => i = j
  /\ Iface \ Late \subseteq here
  /\ at \in {"check", "numvfs", "facts", "recheck"} => cur \in Cards \cap dump.here

\* The dump is still true, and no name that is worn is retired.
Still ==
  /\ at # "idle" /\ moves = 0 => dump.name = name /\ dump.here = here
  /\ \A i \in Iface : name[i] \notin retired

\* Facts of card c that name its physical function's interfaces as they are
\* called, or by a name that nobody will wear again.
Sound(f, c) ==
  /\ f.driver = c /\ f.vf = (c \in VFs)
  /\ \A n \in f.pfs : n \in retired \/ \E p \in Physfn[c] : name[p] = n
  /\ \A p \in Physfn[c] : name[p] \in f.pfs \/ \E n \in f.pfs : n \in retired

Exact(f, c) == f.driver = c /\ f.vf = (c \in VFs) /\ f.pfs = {name[p] : p \in Physfn[c]}

KeptIsSound ==
  /\ \A c \in kept : Sound(facts[c], c)
  /\ at = "recheck" /\ Directory(dump.name[cur]) = cur => Sound(file, cur)

\* What a reading that no rename has met so far has of card c.
Right(c) == got[c].numvfs = Cardinality(VFsOf(c)) /\ Exact(got[c].facts, c)

SoFar ==
  at # "idle" /\ moves = 0 =>
    /\ \A c \in Cards \cap here : at = "read" \/ c < cur => Right(c)
    /\ at \in {"facts", "recheck"} => got[cur].numvfs = Cardinality(VFsOf(cur))
    /\ at = "recheck" => Exact(file, cur)

Inv == Still /\ KeptIsSound /\ SoFar /\ UndisturbedIsRight
IInv == TInv /\ Inv

-----------------------------------------------------------------------------
(* Directories and counts *)

LEMMA NoCard == Nobody \notin Iface /\ Cards \subseteq Iface /\ VFs \subseteq Cards
BY Interfaces DEF Nobody, Cards, VFs

LEMMA DirectoryFacts ==
  ASSUME TInv, NEW n
  PROVE  /\ Directory(n) \in here \cup {Nobody}
         /\ \A i \in here : name[i] = n => Directory(n) = i
         /\ Directory(n) # Nobody => name[Directory(n)] = n
<1>0. here \subseteq Iface /\ \A i, j \in Iface : name[i] = name[j] => i = j
  BY DEF TInv, TypeOK
<1>1. CASE \E i \in here : name[i] = n
  <2>1. Directory(n) = CHOOSE i \in here : name[i] = n
    BY <1>1 DEF Directory
  <2>2. Directory(n) \in here /\ name[Directory(n)] = n
    BY <1>1, <2>1
  <2> QED BY <1>0, <2>2
<1>2. CASE ~\E i \in here : name[i] = n
  BY <1>2 DEF Directory
<1> QED BY <1>1, <1>2

LEMMA CountTyped ==
  ASSUME NEW p
  PROVE  Cardinality(VFsOf(p)) \in Nat
<1>1. VFsOf(p) \subseteq Iface
  BY NoCard DEF VFsOf
<1> QED BY <1>1, FS_Subset, FS_CardinalityType, Interfaces

-----------------------------------------------------------------------------
(* Types *)

LEMMA TypedInit ==
  ASSUME Init
  PROVE  TInv
<1>1. name \in [Iface -> Names] /\ \A i, j \in Iface : name[i] = name[j] => i = j
  BY Interfaces DEF Init
<1>2. NoFacts \in Facts /\ Unread \in [numvfs : Nat, facts : Facts]
  BY DEF NoFacts, Facts, Unread
<1>3. here = Iface \ Late /\ at = "idle" /\ moves = 0 /\ topo.links = {}
  BY DEF Init, NoReading
<1>4. /\ retired \subseteq Names /\ cur \in Cards \cup {Nobody} /\ kept \subseteq Cards /\ pairs = {}
      /\ dump \in [name : [Iface -> Names], here : SUBSET Iface]
      /\ got \in [Cards -> [numvfs : Nat, facts : Facts]]
      /\ file \in Facts /\ facts \in [Cards -> Facts]
  BY <1>1, <1>2 DEF Init
<1> QED BY <1>1, <1>3, <1>4, Interfaces DEF TInv, TypeOK

\* The step to the next card, or to the end.
LEMMA GoFacts ==
  ASSUME NEW left, Go(left)
  PROVE  \/ at' = "read" /\ cur' = Nobody /\ left = {}
         \/ at' = "check" /\ cur' \in left /\ \A c \in left : cur' <= c
BY DEF Go

LEMMA TypedDump ==
  ASSUME TInv, Dump
  PROVE  TInv'
<1>1. /\ dump' = [name |-> name, here |-> here] /\ Go(Cards \cap here)
      /\ got' = [c \in Cards |-> Unread] /\ moves' = 0 /\ topo' = NoReading /\ pairs' = {}
      /\ UNCHANGED <<here, name, retired, file, kept, facts>>
  BY DEF Dump, kernel, cache
<1>2. Unread \in [numvfs : Nat, facts : Facts] /\ NoReading.links = {}
  BY DEF NoFacts, Facts, Unread, NoReading
<1>3. /\ at' \in {"read", "check"} /\ cur' \in Cards \cup {Nobody}
      /\ at' = "check" => cur' \in Cards \cap here
  BY <1>1, GoFacts
<1>4. dump' \in [name : [Iface -> Names], here : SUBSET Iface] /\ dump'.here = here
  BY <1>1 DEF TInv, TypeOK
<1>5. got' \in [Cards -> [numvfs : Nat, facts : Facts]]
  BY <1>1, <1>2
<1>6. moves' \in 0 .. Burst
  BY <1>1, Interfaces
<1> QED BY <1>1, <1>2, <1>3, <1>4, <1>5, <1>6 DEF TInv, TypeOK

\* What a step at a card leaves alone, and where it leads.
AtCard ==
  /\ UNCHANGED <<here, name, retired, moves, dump, topo, pairs>>
  /\ \/ at' \in {"check", "numvfs", "facts", "recheck"} /\ cur' = cur
     \/ at' = "check" /\ cur' \in Later(cur)
     \/ at' = "read" /\ cur' = Nobody

LEMMA AtCardFacts ==
  ASSUME Check \/ ReadVfs \/ ReadFacts \/ Recheck
  PROVE  AtCard /\ at \in {"check", "numvfs", "facts", "recheck"}
<1>1. UNCHANGED <<here, name, retired, moves, dump, topo, pairs>>
  BY DEF Check, ReadVfs, ReadFacts, Recheck, kernel
<1>2. CASE Go(Later(cur))
  BY <1>1, <1>2, GoFacts DEF AtCard, Check, ReadVfs, ReadFacts, Recheck
<1>3. CASE ~Go(Later(cur))
  BY <1>1, <1>3 DEF AtCard, Check, ReadVfs, ReadFacts, Recheck
<1> QED BY <1>2, <1>3

LEMMA TypedAtCard ==
  ASSUME TInv, Check \/ ReadVfs \/ ReadFacts \/ Recheck
  PROVE  TInv'
<1>1. /\ UNCHANGED <<here, name, retired, moves, dump, topo, pairs>>
      /\ at' \in {"check", "numvfs", "facts", "recheck", "read"} /\ cur' \in Cards \cup {Nobody}
      /\ at' # "read" => cur' \in Cards \cap dump'.here
      /\ cur \in Cards
  BY AtCardFacts DEF AtCard, Later, TInv, TypeOK
<1>2. /\ got \in [Cards -> [numvfs : Nat, facts : Facts]]
      /\ file \in Facts /\ kept \subseteq Cards /\ facts \in [Cards -> Facts]
      /\ NoFacts \in Facts
  BY DEF TInv, TypeOK, NoFacts, Facts
<1>3. /\ got' \in [Cards -> [numvfs : Nat, facts : Facts]]
      /\ file' \in Facts /\ kept' \subseteq Cards /\ facts' \in [Cards -> Facts]
  <2>1. CASE Check
    BY <2>1, <1>2 DEF Check, cache
  <2>2. CASE ReadVfs
    <3>1. PICK vfs \in Nat :
            \/ got' = [got EXCEPT ![cur].numvfs = vfs]
            \/ got' = [got EXCEPT ![cur] = [numvfs |-> vfs, facts |-> facts[cur]]]
      <4>1. 0 \in Nat /\ Cardinality(VFsOf(Directory(dump.name[cur]))) \in Nat
        BY CountTyped
      <4> QED BY <4>1, <2>2 DEF ReadVfs
    <3>2. UNCHANGED <<file, kept, facts>>
      BY <2>2 DEF ReadVfs, cache
    <3>3. got[cur] \in [numvfs : Nat, facts : Facts] /\ facts[cur] \in Facts
      BY <1>1, <1>2
    <3>4. /\ [got[cur] EXCEPT !.numvfs = vfs] \in [numvfs : Nat, facts : Facts]
          /\ [numvfs |-> vfs, facts |-> facts[cur]] \in [numvfs : Nat, facts : Facts]
      BY <3>3
    <3>5. got' \in [Cards -> [numvfs : Nat, facts : Facts]]
      BY <3>1, <3>4, <1>1, <1>2
    <3> QED BY <3>2, <3>5, <1>2
  <2>3. CASE ReadFacts
    <3>1. UNCHANGED <<got, kept, facts>>
      BY <2>3 DEF ReadFacts, cache
    <3>2. PICK dir : /\ dir = Directory(dump.name[cur])
                     /\ file' = IF dir \notin Cards THEN NoFacts
                                ELSE [driver |-> dir, vf |-> dir \in VFs,
                                      pfs |-> {name[p] : p \in Physfn[dir] \cap here}]
      BY <2>3 DEF ReadFacts
    <3>3. {name[p] : p \in Physfn[dir] \cap here} \subseteq Names
      BY DEF TInv, TypeOK
    <3>4. file' \in Facts
      BY <3>2, <3>3, <1>2 DEF Facts
    <3> QED BY <3>1, <3>4, <1>2
  <2>4. CASE Recheck
    <3>1. /\ file' = NoFacts
          /\ \/ /\ kept' = kept \cup {cur} /\ facts' = [facts EXCEPT ![cur] = file]
                /\ got' = [got EXCEPT ![cur].facts = file]
             \/ UNCHANGED <<kept, facts, got>>
      BY <2>4 DEF Recheck, cache
    <3>2. [got[cur] EXCEPT !.facts = file] \in [numvfs : Nat, facts : Facts]
      BY <1>1, <1>2
    <3>3. got' \in [Cards -> [numvfs : Nat, facts : Facts]]
      BY <3>1, <3>2, <1>1, <1>2
    <3> QED BY <3>1, <3>3, <1>1, <1>2
  <2> QED BY <2>1, <2>2, <2>3, <2>4
<1> QED BY <1>1, <1>3 DEF TInv, TypeOK

LEMMA TypedAssemble ==
  ASSUME TInv, Assemble
  PROVE  TInv'
<1>1. /\ dump' = [name |-> name, here |-> {}] /\ got' = [c \in Cards |-> Unread]
      /\ at' = "idle" /\ UNCHANGED <<here, name, retired, moves, cur, file, kept, facts>>
  BY DEF Assemble, kernel, cache
<1>2. PICK w \in Read : topo' = Assembled(w) /\ pairs' = Autodetect(topo')
  BY DEF Assemble
<1>3. topo'.links = dump.here
  BY <1>2 DEF Assembled
<1>4. topo'.links \subseteq Iface
  BY <1>3 DEF TInv, TypeOK
<1>5. pairs' \subseteq Iface \X Iface
  BY <1>2, <1>4, PairsTyped
<1>6. Unread \in [numvfs : Nat, facts : Facts]
  BY DEF NoFacts, Facts, Unread
<1>7. got' \in [Cards -> [numvfs : Nat, facts : Facts]]
  BY <1>1, <1>6
<1> QED BY <1>1, <1>4, <1>5, <1>7 DEF TInv, TypeOK

LEMMA TypedKernel ==
  ASSUME TInv, (\E i \in Movable, n \in Names : Rename(i, n)) \/ \E i \in Late : Arrive(i)
  PROVE  TInv'
<1>1. UNCHANGED <<at, cur, dump, got, file, kept, facts>> /\ topo'.links = {} /\ pairs' = {}
  BY DEF Rename, Arrive, reading, cache, NoReading
<1>2. CASE \E i \in Movable, n \in Names : Rename(i, n)
  <2>1. PICK i \in Movable, n \in Names : Rename(i, n)
    BY <1>2
  <2>2. /\ i \in Iface /\ name' = [name EXCEPT ![i] = n] /\ here' = here
        /\ \A j \in Iface : name[j] # n
        /\ retired' \subseteq retired \cup {name[i]}
    BY <2>1 DEF Rename, TInv, TypeOK
  <2>3. moves' \in 0 .. Burst
    BY <2>1, Interfaces DEF Rename, TInv, TypeOK
  <2>4. name' \in [Iface -> Names] /\ retired' \subseteq Names
        /\ \A j, k \in Iface : name'[j] = name'[k] => j = k
    BY <2>2 DEF TInv, TypeOK
  <2> QED BY <1>1, <2>2, <2>3, <2>4 DEF TInv, TypeOK
<1>3. CASE \E i \in Late : Arrive(i)
  BY <1>1, <1>3, Interfaces, NoCard DEF Arrive, TInv, TypeOK
<1> QED BY <1>2, <1>3

LEMMA TypedStep ==
  ASSUME TInv, [Next]_vars
  PROVE  TInv'
<1>1. CASE UNCHANGED vars
  BY <1>1 DEF vars, kernel, reading, cache, TInv, TypeOK
<1>2. CASE Next
  BY <1>2, TypedDump, TypedAtCard, TypedAssemble, TypedKernel DEF Next
<1> QED BY <1>1, <1>2

\* Every variable has its type, on hosts with any interfaces, cards and
\* renames: what autodetect pairs are two interfaces of the reading.
THEOREM TypeCorrect == Spec => []TypeOK
<1>1. Init => TInv
  BY TypedInit
<1>2. TInv /\ [Next]_vars => TInv'
  BY TypedStep
<1>3. TInv => TypeOK
  BY DEF TInv
<1> QED BY <1>1, <1>2, <1>3, PTL DEF Spec

-----------------------------------------------------------------------------
(* The invariant *)

LEMMA FunctionsAreHere ==
  ASSUME TInv, Calm, NEW c \in Cards
  PROVE  Physfn[c] \subseteq here /\ Physfn[c] \subseteq Iface /\ Physfn[c] \cap Freed = {}
<1>1. Physfn[c] \subseteq Iface
  BY NoCard, Interfaces
<1>2. CASE c \in VFs
  BY <1>1, <1>2 DEF Calm, TInv
<1>3. CASE c \notin VFs
  BY <1>3 DEF VFs
<1> QED BY <1>1, <1>2, <1>3

\* A rename retires the name that facts may have.
LEMMA SoundRenamed ==
  ASSUME TInv, Calm, NEW i \in Movable, NEW n \in Names, Rename(i, n),
         NEW f, NEW c \in Cards, Sound(f, c)
  PROVE  Sound(f, c)'
<1>1. /\ name' = [name EXCEPT ![i] = n] /\ name \in [Iface -> Names] /\ i \in Iface
      /\ retired' = IF i \in Freed THEN retired ELSE retired \cup {name[i]}
  BY Interfaces DEF Rename, TInv, TypeOK
<1>2. Physfn[c] \subseteq Iface /\ Physfn[c] \cap Freed = {}
  BY FunctionsAreHere
<1>3. \A m \in f.pfs : m \in retired' \/ \E p \in Physfn[c] : name'[p] = m
  BY <1>1, <1>2 DEF Sound
<1>4. \A p \in Physfn[c] : name'[p] \in f.pfs \/ \E m \in f.pfs : m \in retired'
  BY <1>1, <1>2 DEF Sound
<1> QED BY <1>3, <1>4 DEF Sound

LEMMA RenameInv ==
  ASSUME IInv, Calm, NEW i \in Movable, NEW n \in Names, Rename(i, n)
  PROVE  Inv'
<1>0. /\ TInv /\ Still /\ KeptIsSound
      /\ name \in [Iface -> Names] /\ i \in Iface /\ kept \subseteq Cards /\ here \subseteq Iface
      /\ \A j, k \in Iface : name[j] = name[k] => j = k
      /\ moves \in Nat
  BY Interfaces DEF IInv, Inv, TInv, TypeOK
<1>1. /\ name' = [name EXCEPT ![i] = n] /\ n \notin retired /\ \A j \in Iface : name[j] # n
      /\ i \in here
      /\ retired' \subseteq retired \cup {name[i]}
      /\ at = "idle" \/ moves = 0
      /\ at # "idle" => moves' # 0
      /\ topo'.links = {}
      /\ UNCHANGED <<here, at, cur, dump, got, file, kept, facts>>
  BY <1>0, Interfaces DEF Rename, reading, cache, NoReading, Calm
<1>2. Still'
  BY <1>0, <1>1 DEF Still
<1>3. \A c \in kept' : Sound(facts[c], c)'
  <2> SUFFICES ASSUME NEW c \in kept PROVE Sound(facts[c], c)'
    BY <1>1
  <2>1. PICK f : f = facts[c]
    OBVIOUS
  <2>2. Sound(f, c)'
    BY <2>1, <1>0, SoundRenamed DEF KeptIsSound
  <2> QED BY <2>1, <2>2, <1>1 DEF Sound
<1>4. ASSUME at = "recheck", Directory(dump.name[cur])' = cur PROVE Sound(file, cur)'
  <2>1. cur \in Cards \cap dump.here
    BY <1>0, <1>4 DEF TInv
  <2>2. dump.name = name /\ dump.here = here
    BY <1>0, <1>1, <1>4 DEF Still
  <2>3. Directory(dump.name[cur]) = cur
    BY <1>0, <2>1, <2>2, DirectoryFacts
  <2>4. PICK f : f = file
    OBVIOUS
  <2>5. PICK c \in Cards : c = cur
    BY <2>1
  <2>6. Sound(f, c)'
    BY <2>3, <2>4, <2>5, <1>0, <1>4, SoundRenamed DEF KeptIsSound
  <2> QED BY <2>4, <2>5, <2>6, <1>1 DEF Sound
<1>5. KeptIsSound'
  BY <1>1, <1>3, <1>4 DEF KeptIsSound
<1>6. SoFar' /\ UndisturbedIsRight'
  BY <1>1 DEF SoFar, UndisturbedIsRight, Undisturbed
<1> QED BY <1>2, <1>5, <1>6 DEF Inv

LEMMA ArriveInv ==
  ASSUME IInv, NEW i \in Late, Arrive(i)
  PROVE  Inv'
<1>1. /\ at = "idle" /\ UNCHANGED <<name, retired, moves, at, cur, dump, got, file, kept, facts>>
      /\ topo'.links = {}
  BY DEF Arrive, reading, cache, NoReading
<1>2. Still' /\ KeptIsSound'
  BY <1>1 DEF IInv, Inv, Still, KeptIsSound, Sound
<1>3. SoFar' /\ UndisturbedIsRight'
  BY <1>1 DEF SoFar, UndisturbedIsRight, Undisturbed
<1> QED BY <1>2, <1>3 DEF Inv

LEMMA DumpInv ==
  ASSUME IInv, Dump
  PROVE  Inv'
<1>0. TInv /\ Still /\ KeptIsSound /\ here \subseteq Iface
  BY DEF IInv, Inv, TInv, TypeOK
<1>1. /\ dump' = [name |-> name, here |-> here] /\ Go(Cards \cap here)
      /\ topo'.links = {}
      /\ UNCHANGED <<here, name, retired, file, kept, facts>>
  BY DEF Dump, kernel, cache, NoReading
<1>2. \/ at' = "read" /\ Cards \cap here = {}
      \/ at' = "check" /\ cur' \in Cards \cap here /\ \A c \in Cards \cap here : cur' <= c
  BY <1>1, GoFacts
<1>3. Still'
  BY <1>0, <1>1 DEF Still
<1>4. KeptIsSound'
  BY <1>0, <1>1, <1>2 DEF KeptIsSound, Sound
<1>5. SoFar'
  <2>1. Cards \subseteq Nat
    BY NoCard, Interfaces
  <2>2. ASSUME NEW c \in Cards \cap here PROVE at' = "check" /\ ~(c < cur')
    <3>1. at' = "check" /\ cur' \in Nat /\ c \in Nat /\ cur' <= c
      BY <1>2, <2>1
    <3> QED BY <3>1
  <2> QED BY <2>2, <1>1, <1>2 DEF SoFar
<1>6. UndisturbedIsRight'
  BY <1>1 DEF UndisturbedIsRight, Undisturbed
<1> QED BY <1>3, <1>4, <1>5, <1>6 DEF Inv

LEMMA AssembleInv ==
  ASSUME IInv, Calm, Assemble
  PROVE  Inv'
<1>0. /\ TInv /\ Still /\ KeptIsSound /\ SoFar
      /\ here \subseteq Iface /\ \A i, j \in Iface : name[i] = name[j] => i = j
  BY DEF IInv, Inv, TInv, TypeOK
<1>1. /\ at = "read" /\ at' = "idle" /\ UNCHANGED <<here, name, retired, moves, kept, facts>>
      /\ \E w \in Read : topo' = Assembled(w)
  BY DEF Assemble, kernel, cache
<1>2. Still' /\ KeptIsSound' /\ SoFar'
  BY <1>0, <1>1 DEF Still, KeptIsSound, SoFar, Sound
<1>3. PICK w \in Read : topo' = Assembled(w)
  BY <1>1
<1>4. /\ topo'.links = dump.here
      /\ \A c \in Cards : /\ topo'.driver[c] = got[c].facts.driver
                          /\ topo'.numvfs[c] = got[c].numvfs
                          /\ topo'.pfs[c] = {i \in dump.here : dump.name[i] \in got[c].facts.pfs}
  BY <1>3, NoCard DEF Assembled
<1>5. topo'.vf = [i \in Iface |-> i \in Cards /\ got[i].facts.vf]
  BY <1>3 DEF Assembled
<1>6. ASSUME moves = 0, NEW c \in Cards \cap dump.here
      PROVE  /\ topo'.driver[c] = c /\ topo'.vf[c] = (c \in VFs) /\ topo'.numvfs[c] = Cardinality(VFsOf(c))
             /\ topo'.pfs[c] = Physfn[c] \cap dump.here
  <2>1. dump.name = name /\ dump.here = here /\ Right(c)
    BY <1>0, <1>1, <1>6 DEF Still, SoFar
  <2>2. Physfn[c] \subseteq here
    BY <1>0, FunctionsAreHere
  <2>3. {i \in here : name[i] \in {name[p] : p \in Physfn[c]}} = Physfn[c] \cap here
    BY <1>0, <2>2
  <2>4. topo'.vf[c] = (c \in VFs)
    <3>1. topo'.vf[c] = (c \in Cards /\ got[c].facts.vf)
      BY <1>5, NoCard
    <3>2. got[c].facts.vf = (c \in VFs) /\ got[c].facts.vf \in BOOLEAN
      <4>1. got \in [Cards -> [numvfs : Nat, facts : Facts]]
        BY DEF IInv, TInv, TypeOK
      <4> QED BY <2>1, <4>1 DEF Right, Exact, Facts
    <3>3. CASE c \in VFs
      BY <3>1, <3>2, <3>3
    <3>4. CASE c \notin VFs
      <4>1. got[c].facts.vf = FALSE /\ (c \in VFs) = FALSE
        BY <3>2, <3>4
      <4>2. (c \in Cards /\ got[c].facts.vf) = FALSE
        BY <4>1
      <4> QED BY <3>1, <4>1, <4>2
    <3> QED BY <3>3, <3>4
  <2> QED BY <1>4, <2>1, <2>3, <2>4 DEF Right, Exact
<1>7. UndisturbedIsRight'
  BY <1>1, <1>4, <1>6 DEF UndisturbedIsRight, Undisturbed
<1> QED BY <1>2, <1>7 DEF Inv

\* In a reading that no rename has met, the card at hand answers.
LEMMA Answers ==
  ASSUME IInv, at \in {"check", "numvfs", "facts", "recheck"}
  PROVE  /\ cur \in Cards /\ cur \in Nat
         /\ moves = 0 => Directory(dump.name[cur]) = cur /\ dump.here = here /\ dump.name = name
<1>1. TInv /\ Still /\ cur \in Cards \cap dump.here
  BY DEF IInv, Inv, TInv
<1>2. cur \in Nat
  BY <1>1, NoCard, Interfaces
<1>3. moves = 0 => dump.here = here /\ dump.name = name
  BY <1>1 DEF Still
<1> QED BY <1>1, <1>2, <1>3, DirectoryFacts

\* A step at a card disturbs neither the dump nor the last reading.
LEMMA AtCardStill ==
  ASSUME IInv, AtCard, at # "idle"
  PROVE  Still' /\ UndisturbedIsRight'
<1>1. UNCHANGED <<here, name, retired, moves, dump, topo>>
  BY DEF AtCard
<1>2. Still'
  BY <1>1 DEF IInv, Inv, Still
<1>3. UndisturbedIsRight'
  BY <1>1 DEF IInv, Inv, UndisturbedIsRight, Undisturbed
<1> QED BY <1>2, <1>3

\* On to the next card, the one at hand being done.
LEMMA MovedOn ==
  ASSUME IInv, AtCard, at \in {"check", "numvfs", "facts", "recheck"}, Go(Later(cur)),
         \A c \in Cards \ {cur} : got'[c] = got[c],
         moves = 0 => \A c \in Cards : c = cur => Right(c)'
  PROVE  SoFar'
<1> SUFFICES ASSUME moves = 0 PROVE SoFar'
  BY DEF AtCard, SoFar
<1>1. /\ cur \in Nat /\ dump.here = here /\ Cards \subseteq Nat /\ UNCHANGED <<here, name>>
      /\ \A c \in Cards \cap here : c < cur => Right(c)
  BY Answers, NoCard, Interfaces DEF IInv, Inv, SoFar, AtCard
<1>2. \/ at' = "read" /\ Later(cur) = {}
      \/ at' = "check" /\ cur' \in Later(cur) /\ \A c \in Later(cur) : cur' <= c
  BY GoFacts
<1>3. ASSUME NEW c \in Cards \cap here, at' = "read" \/ c < cur' PROVE Right(c)'
  <2>1. ~(c > cur)
    <3>1. CASE c > cur
      <4>1. c \in Later(cur)
        BY <1>1, <3>1 DEF Later
      <4>2. at' = "check" /\ cur' <= c /\ cur' \in Nat
        BY <4>1, <1>1, <1>2 DEF Later
      <4> QED BY <4>2, <1>1, <1>3
    <3> QED BY <3>1
  <2>2. CASE c = cur
    BY <2>2
  <2>3. CASE c # cur
    <3>1. c < cur
      BY <2>1, <2>3, <1>1
    <3>2. Right(c) /\ got'[c] = got[c]
      BY <3>1, <2>3, <1>1
    <3> QED BY <3>2, <1>1 DEF Right, Exact
  <2> QED BY <2>2, <2>3
<1> QED BY <1>1, <1>2, <1>3 DEF SoFar

LEMMA CheckInv ==
  ASSUME IInv, Check
  PROVE  Inv'
<1>0. TInv /\ KeptIsSound /\ SoFar /\ at = "check" /\ AtCard
  BY AtCardFacts DEF IInv, Inv, Check
<1>1. UNCHANGED <<here, name, retired, moves, dump, got, file, kept, facts>>
  BY DEF Check, kernel, cache
<1>2. Still' /\ UndisturbedIsRight'
  BY <1>0, AtCardStill
<1>3. KeptIsSound'
  <2>1. at' # "recheck"
    BY <1>0, GoFacts DEF Check
  <2> QED BY <2>1, <1>0, <1>1 DEF KeptIsSound, Sound
<1>4. SoFar'
  <2>1. CASE Directory(dump.name[cur]) = cur
    <3>1. at' = "numvfs" /\ cur' = cur
      BY <2>1 DEF Check
    <3> QED BY <3>1, <1>0, <1>1 DEF SoFar, Right, Exact
  <2>2. CASE Directory(dump.name[cur]) # cur
    <3>1. Go(Later(cur))
      BY <2>2 DEF Check
    <3>2. moves # 0
      BY <2>2, <1>0, Answers
    <3>3. \A c \in Cards \ {cur} : got'[c] = got[c]
      BY <1>1
    <3> QED BY <3>1, <3>2, <3>3, <1>0, MovedOn
  <2> QED BY <2>1, <2>2
<1> QED BY <1>2, <1>3, <1>4 DEF Inv

LEMMA ReadVfsInv ==
  ASSUME IInv, Calm, ReadVfs
  PROVE  Inv'
<1>0. /\ TInv /\ Still /\ KeptIsSound /\ SoFar /\ at = "numvfs" /\ AtCard
      /\ got \in [Cards -> [numvfs : Nat, facts : Facts]] /\ here \subseteq Iface
  BY AtCardFacts DEF IInv, Inv, ReadVfs, TInv, TypeOK
<1>1. UNCHANGED <<here, name, retired, moves, dump, file, kept, facts>>
  BY DEF ReadVfs, kernel, cache
<1>2. Still' /\ UndisturbedIsRight'
  BY <1>0, AtCardStill
<1>3. KeptIsSound'
  <2>1. at' # "recheck"
    BY GoFacts DEF ReadVfs
  <2> QED BY <2>1, <1>0, <1>1 DEF KeptIsSound, Sound
<1>4. PICK vfs : /\ vfs = IF Directory(dump.name[cur]) = Nobody THEN 0
                          ELSE Cardinality(VFsOf(Directory(dump.name[cur])))
                 /\ IF cur \notin kept \/ Stale(facts[cur])
                    THEN /\ at' = "facts" /\ got' = [got EXCEPT ![cur].numvfs = vfs] /\ cur' = cur
                    ELSE /\ got' = [got EXCEPT ![cur] = [numvfs |-> vfs, facts |-> facts[cur]]]
                         /\ Go(Later(cur))
  BY DEF ReadVfs
<1>5. cur \in Cards /\ (moves = 0 => vfs = Cardinality(VFsOf(cur)) /\ dump.here = here /\ dump.name = name)
  BY <1>0, <1>4, Answers, NoCard
<1>6. CASE cur \notin kept \/ Stale(facts[cur])
  <2>1. at' = "facts" /\ got' = [got EXCEPT ![cur].numvfs = vfs] /\ cur' = cur
    BY <1>4, <1>6
  <2>2. got'[cur].numvfs = vfs /\ \A c \in Cards \ {cur} : got'[c] = got[c]
    BY <2>1, <1>0, <1>5
  <2>3. \A c \in Cards : c < cur => c # cur
    BY NoCard, Interfaces, <1>5
  <2>4. SoFar'
    BY <2>1, <2>2, <2>3, <1>0, <1>1, <1>5 DEF SoFar, Right, Exact
  <2> QED BY <2>4, <1>2, <1>3 DEF Inv
<1>7. CASE cur \in kept /\ ~Stale(facts[cur])
  <2>1. got' = [got EXCEPT ![cur] = [numvfs |-> vfs, facts |-> facts[cur]]] /\ Go(Later(cur))
    BY <1>4, <1>7
  <2>2. /\ got'[cur] = [numvfs |-> vfs, facts |-> facts[cur]]
        /\ \A c \in Cards \ {cur} : got'[c] = got[c]
    BY <2>1, <1>0, <1>5
  <2>3. ASSUME moves = 0 PROVE Exact(facts[cur], cur)
    <3>1. Sound(facts[cur], cur)
      BY <1>0, <1>7 DEF KeptIsSound
    <3>2. \A n \in facts[cur].pfs : n \notin retired
      BY <2>3, <1>0, <1>5, <1>7 DEF Stale, Still
    <3> QED BY <3>1, <3>2 DEF Sound, Exact
  <2>4. moves = 0 => \A c \in Cards : c = cur => Right(c)'
    BY <2>2, <2>3, <1>1, <1>5 DEF Right, Exact
  <2>5. SoFar'
    BY <2>1, <2>2, <2>4, <1>0, MovedOn
  <2> QED BY <2>5, <1>2, <1>3 DEF Inv
<1> QED BY <1>6, <1>7

LEMMA ReadFactsInv ==
  ASSUME IInv, Calm, ReadFacts
  PROVE  Inv'
<1>0. TInv /\ KeptIsSound /\ SoFar /\ at = "facts" /\ AtCard
  BY AtCardFacts DEF IInv, Inv, ReadFacts
<1>1. UNCHANGED <<here, name, retired, moves, dump, cur, got, kept, facts>> /\ at' = "recheck"
  BY DEF ReadFacts, kernel, cache
<1>2. Still' /\ UndisturbedIsRight'
  BY <1>0, AtCardStill
<1>3. cur \in Cards /\ (moves = 0 => Directory(dump.name[cur]) = cur)
  BY <1>0, Answers
<1>4. ASSUME Directory(dump.name[cur]) = cur
      PROVE  file'.driver = cur /\ file'.vf = (cur \in VFs) /\ file'.pfs = {name[p] : p \in Physfn[cur]}
  <2>1. file' = [driver |-> cur, vf |-> cur \in VFs, pfs |-> {name[p] : p \in Physfn[cur] \cap here}]
    BY <1>3, <1>4 DEF ReadFacts
  <2>2. Physfn[cur] \subseteq here
    BY <1>0, <1>3, FunctionsAreHere
  <2> QED BY <2>1, <2>2
<1>5. KeptIsSound'
  <2>1. \A c \in kept' : Sound(facts[c], c)'
    BY <1>0, <1>1 DEF KeptIsSound, Sound
  <2>2. Directory(dump.name[cur])' = Directory(dump.name[cur])
    BY <1>1 DEF Directory
  <2>3. Directory(dump.name[cur]) = cur => Sound(file, cur)'
    BY <1>1, <1>4 DEF Sound
  <2> QED BY <2>1, <2>2, <2>3, <1>1 DEF KeptIsSound
<1>6. SoFar'
  BY <1>0, <1>1, <1>3, <1>4 DEF SoFar, Right, Exact
<1> QED BY <1>2, <1>5, <1>6 DEF Inv

LEMMA RecheckInv ==
  ASSUME IInv, Recheck
  PROVE  Inv'
<1>0. /\ TInv /\ KeptIsSound /\ SoFar /\ at = "recheck" /\ AtCard /\ Go(Later(cur))
      /\ got \in [Cards -> [numvfs : Nat, facts : Facts]] /\ facts \in [Cards -> Facts] /\ kept \subseteq Cards
  BY AtCardFacts DEF IInv, Inv, Recheck, TInv, TypeOK
<1>1. UNCHANGED <<here, name, retired, moves, dump>> /\ at' # "recheck"
  BY <1>0, GoFacts DEF Recheck, kernel
<1>2. Still' /\ UndisturbedIsRight'
  BY <1>0, AtCardStill
<1>3. cur \in Cards /\ (moves = 0 => Directory(dump.name[cur]) = cur)
  BY <1>0, Answers
<1>4. CASE Directory(dump.name[cur]) = cur
  <2>1. /\ kept' = kept \cup {cur} /\ facts' = [facts EXCEPT ![cur] = file]
        /\ got' = [got EXCEPT ![cur].facts = file]
    BY <1>4 DEF Recheck
  <2>2. /\ facts'[cur] = file /\ \A c \in Cards \ {cur} : facts'[c] = facts[c] /\ got'[c] = got[c]
        /\ got'[cur].facts = file /\ got'[cur].numvfs = got[cur].numvfs
    BY <2>1, <1>0, <1>3
  <2>3. Sound(file, cur)
    BY <1>0, <1>4 DEF KeptIsSound
  <2>4. \A c \in kept' : Sound(facts[c], c)'
    BY <2>1, <2>2, <2>3, <1>0, <1>1 DEF KeptIsSound, Sound
  <2>5. KeptIsSound'
    BY <2>4, <1>1 DEF KeptIsSound
  <2>6. moves = 0 => \A c \in Cards : c = cur => Right(c)'
    BY <2>2, <1>0, <1>1 DEF SoFar, Right, Exact
  <2>7. SoFar'
    BY <2>2, <2>6, <1>0, MovedOn
  <2> QED BY <2>5, <2>7, <1>2 DEF Inv
<1>5. CASE Directory(dump.name[cur]) # cur
  <2>1. UNCHANGED <<kept, facts, got>>
    BY <1>5 DEF Recheck, cache
  <2>2. KeptIsSound'
    BY <2>1, <1>0, <1>1 DEF KeptIsSound, Sound
  <2>3. moves # 0
    BY <1>3, <1>5
  <2>4. \A c \in Cards \ {cur} : got'[c] = got[c]
    BY <2>1
  <2>5. SoFar'
    BY <2>3, <2>4, <1>0, MovedOn
  <2> QED BY <2>2, <2>5, <1>2 DEF Inv
<1> QED BY <1>4, <1>5

LEMMA InitInv ==
  ASSUME Init
  PROVE  IInv
<1>1. TInv
  BY TypedInit
<1>2. at = "idle" /\ retired = {} /\ kept = {} /\ topo.links = {}
  BY DEF Init, NoReading
<1>3. Still /\ KeptIsSound /\ SoFar /\ UndisturbedIsRight
  BY <1>2 DEF Still, KeptIsSound, SoFar, UndisturbedIsRight, Undisturbed
<1> QED BY <1>1, <1>3 DEF IInv, Inv

LEMMA StepInv ==
  ASSUME IInv, Calm, [Next]_vars
  PROVE  IInv'
<1>1. TInv'
  BY TypedStep DEF IInv
<1>2. CASE UNCHANGED vars
  <2>1. UNCHANGED <<here, name, retired, moves, at, cur, dump, got, file, kept, facts, topo>>
    BY <1>2 DEF vars, kernel, reading, cache
  <2>2. Still' /\ KeptIsSound' /\ SoFar'
    BY <2>1 DEF IInv, Inv, Still, KeptIsSound, SoFar, Sound, Right, Exact, Directory
  <2>3. UndisturbedIsRight'
    BY <2>1 DEF IInv, Inv, UndisturbedIsRight, Undisturbed
  <2> QED BY <1>1, <2>2, <2>3 DEF IInv, Inv
<1>3. CASE Next
  <2>1. CASE Dump \/ Assemble
    BY <2>1, <1>1, DumpInv, AssembleInv DEF IInv
  <2>2. CASE Check \/ ReadVfs \/ ReadFacts \/ Recheck
    BY <2>2, <1>1, CheckInv, ReadVfsInv, ReadFactsInv, RecheckInv DEF IInv
  <2>3. CASE \E i \in Movable, n \in Names : Rename(i, n)
    BY <2>3, <1>1, RenameInv DEF IInv
  <2>4. CASE \E i \in Late : Arrive(i)
    BY <2>4, <1>1, ArriveInv DEF IInv
  <2> QED BY <1>3, <2>1, <2>2, <2>3, <2>4 DEF Next
<1> QED BY <1>2, <1>3

\* The invariant is inductive where physical functions are calm.
THEOREM Inductive ==
  ASSUME Calm
  PROVE  Spec => []IInv
<1>1. Init => IInv
  BY InitInv
<1>2. IInv /\ [Next]_vars => IInv'
  BY StepInv
<1> QED BY <1>1, <1>2, PTL DEF Spec

\* Whatever was renamed while the cards were first read and their facts kept
\* for good, a reading that no rename meets has each card's own driver, number
\* of functions and physical function (device_facts' two checks of the index,
\* and the facts read again when a name in them resolves no more).
THEOREM CardsAreRight ==
  ASSUME Calm
  PROVE  Spec => []UndisturbedIsRight
<1>1. IInv => UndisturbedIsRight
  BY DEF IInv, Inv
<1> QED BY <1>1, Inductive, PTL
-----------------------------------------------------------------------------
(* What a reading amounts to *)

\* A reading made of wiring w.
Made(t, w) ==
  /\ t.links \subseteq Iface /\ t.master = w.master
  /\ t.lowers = [i \in Iface |->
       (IF Kind[i] = "vlan" /\ w.parent[i] # Nobody THEN {w.parent[i]} ELSE {})
         \cup {j \in t.links : w.master[j] = i}]
  /\ t.below = [i \in Iface |-> IF Kind[i] = "vlan" THEN w.parent[i] ELSE Nobody]
  /\ \A i \in Iface \ Cards : t.numvfs[i] = 0 /\ t.pfs[i] = {} /\ t.driver[i] = Nobody

\* The reading is one of a wiring, whoever there is from the start is in it,
\* and the pairs are made of it.
ReadOff ==
  Undisturbed => /\ Iface \ Late \subseteq topo.links /\ pairs = Autodetect(topo)
                 /\ topo.name = name
                 /\ \E w \in Wirings \cup {Plain} : Made(topo, w)

LEMMA AssembledMade ==
  ASSUME TypeOK, NEW w
  PROVE  /\ Made(Assembled(w), w)
         /\ Assembled(w).links = dump.here /\ Assembled(w).name = dump.name
<1>1. dump.here \subseteq Iface
  BY DEF TypeOK
<1>2. PICK t : t = Assembled(w)
  OBVIOUS
<1>3. /\ t.links = dump.here /\ t.name = dump.name /\ t.master = w.master
      /\ t.lowers = [i \in Iface |->
           (IF Kind[i] = "vlan" /\ w.parent[i] # Nobody THEN {w.parent[i]} ELSE {})
             \cup {j \in dump.here : w.master[j] = i}]
      /\ t.below = [i \in Iface |-> IF Kind[i] = "vlan" THEN w.parent[i] ELSE Nobody]
  BY <1>2 DEF Assembled
<1>4. \A i \in Iface \ Cards : t.numvfs[i] = 0 /\ t.pfs[i] = {} /\ t.driver[i] = Nobody
  BY <1>2 DEF Assembled
<1> QED BY <1>1, <1>2, <1>3, <1>4 DEF Made

LEMMA ReadOffStep ==
  ASSUME IInv, ReadOff, [Next]_vars
  PROVE  ReadOff'
<1>1. CASE UNCHANGED <<name, moves, topo, pairs>>
  BY <1>1 DEF ReadOff, Undisturbed
<1>2. CASE topo' = NoReading
  BY <1>2 DEF ReadOff, Undisturbed, NoReading
<1>3. CASE Assemble
  <2>1. /\ at = "read" /\ UNCHANGED <<name, moves>> /\ TypeOK /\ Still /\ Iface \ Late \subseteq here
    BY <1>3 DEF Assemble, IInv, Inv, TInv, kernel
  <2>2. PICK w \in Read : topo' = Assembled(w) /\ pairs' = Autodetect(topo')
    BY <1>3 DEF Assemble
  <2>3. w \in Wirings \cup {Plain}
    BY <2>2 DEF Read
  <2>4. Made(topo', w) /\ topo'.links = dump.here /\ topo'.name = dump.name
    BY <2>1, <2>2, AssembledMade
  <2>5. moves = 0 => dump.here = here /\ dump.name = name
    BY <2>1 DEF Still
  <2> QED BY <2>1, <2>2, <2>3, <2>4, <2>5 DEF ReadOff, Undisturbed
<1>4. CASE Check \/ ReadVfs \/ ReadFacts \/ Recheck
  <2>1. UNCHANGED <<name, moves, topo, pairs>>
    BY <1>4, AtCardFacts DEF AtCard
  <2> QED BY <2>1, <1>1
<1>5. CASE Dump \/ (\E i \in Movable, n \in Names : Rename(i, n)) \/ \E i \in Late : Arrive(i)
  <2>1. topo' = NoReading
    BY <1>5 DEF Dump, Rename, Arrive
  <2> QED BY <2>1, <1>2
<1>6. CASE UNCHANGED vars
  BY <1>6, <1>1 DEF vars, kernel
<1> QED BY <1>3, <1>4, <1>5, <1>6 DEF Next

-----------------------------------------------------------------------------
(* What a reading that no rename has met is like *)

Host(t) ==
  /\ t.links \subseteq Iface /\ Iface \ Late \subseteq t.links
  /\ \A i \in Iface : /\ t.master[i] \in Iface \cup {Nobody} /\ t.below[i] \in Iface \cup {Nobody}
                      /\ t.lowers[i] = Below(t, i) \cup Slaves(t, i)
                      /\ t.below[i] # Nobody => Kind[i] = "vlan"
                      /\ t.master[i] # Nobody => Kind[t.master[i]] \in {"bond", "bridge"}
  /\ ~\E S \in (SUBSET Iface) \ {{}} : \A i \in S : t.below[i] \in S
  /\ \A i \in Iface \ Cards : t.numvfs[i] = 0 /\ t.pfs[i] = {} /\ t.driver[i] = Nobody
  /\ \A c \in Cards \cap t.links : /\ t.numvfs[c] = Cardinality(VFsOf(c)) /\ t.pfs[c] = Physfn[c]
                                  /\ t.driver[c] = c /\ t.vf[c] = (c \in VFs)

LEMMA MadeIsHost ==
  ASSUME Wired, NEW w \in Wirings \cup {Plain}, NEW t, Made(t, w)
  PROVE  /\ \A i \in Iface : /\ t.master[i] \in Iface \cup {Nobody} /\ t.below[i] \in Iface \cup {Nobody}
                             /\ t.lowers[i] = Below(t, i) \cup Slaves(t, i)
                             /\ t.below[i] # Nobody => Kind[i] = "vlan"
                             /\ t.master[i] # Nobody => Kind[t.master[i]] \in {"bond", "bridge"}
         /\ ~\E S \in (SUBSET Iface) \ {{}} : \A i \in S : t.below[i] \in S
<1>1. /\ w.master \in [Iface -> Iface \cup {Nobody}] /\ w.parent \in [Iface -> Iface \cup {Nobody}]
      /\ Nobody \notin Iface
  BY Interfaces, NoCard
<1>2. ASSUME NEW i \in Iface
      PROVE  /\ t.master[i] = w.master[i]
             /\ t.below[i] = IF Kind[i] = "vlan" THEN w.parent[i] ELSE Nobody
             /\ t.lowers[i] = (IF Kind[i] = "vlan" /\ w.parent[i] # Nobody THEN {w.parent[i]} ELSE {})
                                \cup {j \in t.links : w.master[j] = i}
  BY DEF Made
<1>3. ASSUME NEW i \in Iface PROVE t.lowers[i] = Below(t, i) \cup Slaves(t, i)
  <2>1. Slaves(t, i) = {j \in t.links : w.master[j] = i}
    BY DEF Slaves, Made
  <2> QED BY <2>1, <1>2 DEF Below
<1>4. ASSUME NEW S \in (SUBSET Iface) \ {{}}, \A i \in S : t.below[i] \in S PROVE FALSE
  <2>1. \A i \in S : Kind[i] = "vlan" /\ w.parent[i] \in S
    BY <1>1, <1>2, <1>4
  <2> QED BY <2>1 DEF Wired
<1> QED BY <1>1, <1>2, <1>3, <1>4 DEF Wired

LEMMA ReadingIsHost ==
  ASSUME Calm, Wired, UndisturbedIsRight, ReadOff, Undisturbed
  PROVE  Host(topo)
<1>1. PICK w \in Wirings \cup {Plain} : Made(topo, w)
  BY DEF ReadOff
<1>2. /\ topo.links \subseteq Iface /\ Iface \ Late \subseteq topo.links
      /\ \A i \in Iface \ Cards : topo.numvfs[i] = 0 /\ topo.pfs[i] = {} /\ topo.driver[i] = Nobody
  BY <1>1 DEF Made, ReadOff
<1>3. ASSUME NEW c \in Cards \cap topo.links
      PROVE  /\ topo.numvfs[c] = Cardinality(VFsOf(c)) /\ topo.pfs[c] = Physfn[c]
             /\ topo.driver[c] = c /\ topo.vf[c] = (c \in VFs)
  <2>1. Physfn[c] \subseteq Iface \ Late
    <3>1. CASE c \in VFs
      <4>1. Physfn[c] \subseteq Cards \ VFs
        BY <3>1, Interfaces
      <4>2. Physfn[c] \cap Late = {}
        BY <3>1 DEF Calm
      <4> QED BY <4>1, <4>2, NoCard
    <3>2. CASE c \notin VFs
      BY <3>2, NoCard DEF VFs
    <3> QED BY <3>1, <3>2
  <2>2. /\ topo.numvfs[c] = Cardinality(VFsOf(c)) /\ topo.pfs[c] = Physfn[c] \cap topo.links
        /\ topo.driver[c] = c /\ topo.vf[c] = (c \in VFs)
    BY DEF UndisturbedIsRight
  <2>3. Physfn[c] \cap topo.links = Physfn[c]
    BY <2>1, <1>2
  <2> QED BY <2>2, <2>3
<1> QED BY <1>1, <1>2, <1>3, MadeIsHost DEF Host

-----------------------------------------------------------------------------
(* Walks over such a reading *)

LEMMA HostTyped ==
  ASSUME NEW t, Host(t), NEW i \in Iface
  PROVE  /\ Below(t, i) \subseteq Iface /\ Slaves(t, i) \subseteq t.links
         /\ t.lowers[i] \subseteq Iface
BY Interfaces DEF Host, Below, Slaves

\* A card has no ports and stands on nothing.
LEMMA CardIsLow ==
  ASSUME NEW t, Host(t), NEW c \in Cards
  PROVE  /\ c \in Iface /\ t.below[c] = Nobody /\ Below(t, c) = {} /\ Slaves(t, c) = {}
         /\ t.lowers[c] = {} /\ ~IsBridge(t, c)
<1>1. c \in Iface /\ Kind[c] = "card"
  BY DEF Cards
<1>2. t.below[c] = Nobody
  BY <1>1 DEF Host
<1>3. Slaves(t, c) = {}
  BY <1>1, NoCard DEF Host, Slaves
<1> QED BY <1>1, <1>2, <1>3 DEF Host, Below, IsBridge

LEMMA ChainFacts ==
  ASSUME NEW t, Host(t), NEW x \in Iface
  PROVE  /\ x \in Chain(t, x) /\ Chain(t, x) \subseteq Iface
         /\ \A i \in Chain(t, x) \cap t.links : Below(t, i) \subseteq Chain(t, x)
         /\ \A C : x \in C /\ (\A i \in C \cap t.links : Below(t, i) \subseteq C) => Chain(t, x) \subseteq C
<1>1. PICK next : next = [i \in t.links |-> Below(t, i)]
  OBVIOUS
<1>2. DOMAIN next = t.links /\ (\A i \in t.links : next[i] = Below(t, i)) /\ t.links \subseteq Iface
  BY <1>1 DEF Host
<1>3. Edges(next)
  <2>1. \A i \in t.links : Below(t, i) \subseteq Iface
    BY <1>2, HostTyped
  <2> QED BY <1>2, <2>1 DEF Edges
<1>4. Chain(t, x) = Flood({x}, next)
  BY <1>1 DEF Chain
<1>5. {x} \in SUBSET Iface
  OBVIOUS
<1> QED BY <1>2, <1>3, <1>4, <1>5, FloodFacts

\* One step down the chain, or its end.
LEMMA ChainStep ==
  ASSUME NEW t, Host(t), NEW x \in Iface
  PROVE  /\ x \notin t.links \/ t.below[x] = Nobody => Chain(t, x) = {x}
         /\ t.below[x] # Nobody => /\ t.below[x] \in Iface
                                   /\ Chain(t, x) \subseteq {x} \cup Chain(t, t.below[x])
<1>1. t.below[x] \in Iface \cup {Nobody}
  BY DEF Host
<1>2. ASSUME x \notin t.links \/ t.below[x] = Nobody PROVE Chain(t, x) = {x}
  <2>1. \A i \in {x} \cap t.links : Below(t, i) \subseteq {x}
    BY <1>2 DEF Below
  <2>2. Chain(t, x) \subseteq {x}
    BY <2>1, ChainFacts
  <2> QED BY <2>2, ChainFacts
<1>3. ASSUME t.below[x] # Nobody PROVE Chain(t, x) \subseteq {x} \cup Chain(t, t.below[x])
  <2>1. PICK b : b = t.below[x] /\ b \in Iface
    BY <1>1, <1>3
  <2>2. PICK C : C = {x} \cup Chain(t, b)
    OBVIOUS
  <2>3. ASSUME NEW i \in C \cap t.links PROVE Below(t, i) \subseteq C
    <3>1. b \in Chain(t, b) /\ \A j \in Chain(t, b) \cap t.links : Below(t, j) \subseteq Chain(t, b)
      BY <2>1, ChainFacts
    <3>2. CASE i = x
      BY <2>1, <2>2, <3>1, <3>2 DEF Below
    <3>3. CASE i \in Chain(t, b)
      BY <2>2, <2>3, <3>1, <3>3
    <3> QED BY <2>2, <2>3, <3>2, <3>3
  <2>4. Chain(t, x) \subseteq C
    BY <2>2, <2>3, ChainFacts
  <2> QED BY <2>1, <2>2, <2>4
<1> QED BY <1>1, <1>2, <1>3

\* There is an interface that holds the filter, at an end of the chain.
LEMMA CarrierFacts ==
  ASSUME NEW t, Host(t), NEW x \in Iface
  PROVE  /\ FilterCarrier(t, x) \in Chain(t, x) /\ FilterCarrier(t, x) \in Iface
         /\ FilterCarrier(t, x) \notin t.links \/ t.below[FilterCarrier(t, x)] = Nobody
<1>1. \E c \in Chain(t, x) : c \notin t.links \/ t.below[c] = Nobody
  <2>1. SUFFICES ASSUME \A c \in Chain(t, x) : c \in t.links /\ t.below[c] # Nobody
                 PROVE  FALSE
    OBVIOUS
  <2>2. \A i \in Chain(t, x) : t.below[i] \in Chain(t, x)
    BY <2>1, ChainFacts DEF Below
  <2>3. x \in Chain(t, x) /\ Chain(t, x) \subseteq Iface
    BY ChainFacts
  <2>4. Chain(t, x) \in (SUBSET Iface) \ {{}}
    BY <2>3
  <2> QED BY <2>2, <2>4 DEF Host
<1>2. /\ FilterCarrier(t, x) \in Chain(t, x)
      /\ FilterCarrier(t, x) \notin t.links \/ t.below[FilterCarrier(t, x)] = Nobody
  BY <1>1 DEF FilterCarrier
<1>3. Chain(t, x) \subseteq Iface
  BY ChainFacts
<1> QED BY <1>2, <1>3

\* What frames at an interface can have passed, short of a bridge.
Reach(t, x) == Flood({x}, [j \in t.links |-> IF IsBridge(t, j) THEN {} ELSE t.lowers[j]])

\* The end of an edge that an interface in the reading has.
Ends(t, i) == IF t.pfs[i] # {} \/ t.numvfs[i] > 0 \/ IsBridge(t, i) THEN {}
              ELSE Slaves(t, i) \cup Below(t, i)

LEMMA ReachFacts ==
  ASSUME NEW t, Host(t), NEW x \in Iface
  PROVE  /\ x \in Reach(t, x) /\ Reach(t, x) \subseteq Iface
         /\ \A C : x \in C /\ (\A i \in C \cap t.links : ~IsBridge(t, i) => t.lowers[i] \subseteq C)
                     => Reach(t, x) \subseteq C
<1>1. PICK next : next = [j \in t.links |-> IF IsBridge(t, j) THEN {} ELSE t.lowers[j]]
  OBVIOUS
<1>2. /\ DOMAIN next = t.links /\ t.links \subseteq Iface
      /\ \A i \in t.links : next[i] = IF IsBridge(t, i) THEN {} ELSE t.lowers[i]
  BY <1>1 DEF Host
<1>3. Edges(next)
  <2>1. \A i \in t.links : t.lowers[i] \subseteq Iface
    BY <1>2, HostTyped
  <2> QED BY <1>2, <2>1 DEF Edges
<1>4. Reach(t, x) = Flood({x}, next)
  BY <1>1 DEF Reach
<1>5. {x} \in SUBSET Iface
  OBVIOUS
<1>6. /\ x \in Reach(t, x) /\ Reach(t, x) \subseteq Iface
      /\ \A C : {x} \subseteq C /\ (\A i \in C \cap DOMAIN next : next[i] \subseteq C)
                  => Reach(t, x) \subseteq C
  BY <1>3, <1>4, <1>5, FloodFacts
<1>7. ASSUME NEW C, x \in C, \A i \in C \cap t.links : ~IsBridge(t, i) => t.lowers[i] \subseteq C
      PROVE  Reach(t, x) \subseteq C
  <2>1. \A i \in C \cap DOMAIN next : next[i] \subseteq C
    BY <1>2, <1>7
  <2> QED BY <1>6, <1>7, <2>1
<1> QED BY <1>6, <1>7

LEMMA InsideFacts ==
  ASSUME NEW t, Host(t), NEW x \in Iface
  PROVE  /\ x \in Inside(t, x) /\ Inside(t, x) \subseteq Iface
         /\ \A i \in Inside(t, x) \cap t.links : Ends(t, i) \subseteq Inside(t, x)
         /\ \A C : x \in C /\ (\A i \in C \cap t.links : Ends(t, i) \subseteq C) => Inside(t, x) \subseteq C
<1>1. PICK next : next = [i \in t.links |-> Ends(t, i)]
  OBVIOUS
<1>2. DOMAIN next = t.links /\ (\A i \in t.links : next[i] = Ends(t, i)) /\ t.links \subseteq Iface
  BY <1>1 DEF Host
<1>3. Edges(next)
  <2>1. \A i \in t.links : Ends(t, i) \subseteq Iface
    BY <1>2, HostTyped DEF Ends
  <2> QED BY <1>2, <2>1 DEF Edges
<1>4. Inside(t, x) = Flood({x}, next)
  BY <1>1 DEF Inside, Ends
<1>5. {x} \in SUBSET Iface
  OBVIOUS
<1> QED BY <1>2, <1>3, <1>4, <1>5, FloodFacts

\* Whatever frames have passed on the way to an uplink is on its chain or
\* inside the interface that holds its filter; a card is always the latter.
LEMMA CardsAreInside ==
  ASSUME NEW t, Host(t), NEW x \in Iface, NEW a \in CardsAt(t, x)
  PROVE  a \in Cards /\ a \in Inside(t, FilterCarrier(t, x))
<1>1. PICK f \in Iface : /\ f = FilterCarrier(t, x) /\ f \in Chain(t, x)
                         /\ f \notin t.links \/ t.below[f] = Nobody
  BY CarrierFacts
<1>2. PICK U : U = {y \in Chain(t, x) : f \in Chain(t, y)}
  OBVIOUS
<1>3. x \in U /\ U \subseteq Iface
  BY <1>1, <1>2, ChainFacts
\* Where the chain is at its end, or goes on.
<1>4. ASSUME NEW i \in U \cap t.links
      PROVE  i = f \/ (t.below[i] # Nobody /\ t.below[i] \in U)
  <2>1. CASE t.below[i] = Nobody
    <3>1. Chain(t, i) = {i}
      BY <2>1, <1>3, ChainStep
    <3> QED BY <3>1, <1>2
  <2>2. CASE t.below[i] # Nobody
    <3>1. /\ t.below[i] \in Iface /\ Chain(t, i) \subseteq {i} \cup Chain(t, t.below[i])
      BY <2>2, <1>3, ChainStep
    <3>2. t.below[i] \in Chain(t, x)
      <4>1. Below(t, i) \subseteq Chain(t, x)
        BY <1>2, ChainFacts
      <4> QED BY <4>1, <2>2 DEF Below
    <3> QED BY <3>1, <3>2, <2>2, <1>2
  <2> QED BY <2>1, <2>2
<1>5. PICK C : C = U \cup Inside(t, f)
  OBVIOUS
<1>6. f \in Inside(t, f) /\ Inside(t, f) \subseteq Iface
      /\ \A i \in Inside(t, f) \cap t.links : Ends(t, i) \subseteq Inside(t, f)
  BY InsideFacts
<1>7. ASSUME NEW i \in C \cap t.links, ~IsBridge(t, i) PROVE t.lowers[i] \subseteq C
  <2>0. i \in Iface /\ t.lowers[i] = Below(t, i) \cup Slaves(t, i)
    BY <1>3, <1>5, <1>6, <1>7 DEF Host
  <2>1. CASE i \in Inside(t, f)
    <3>1. CASE i \in Cards
      BY <3>1, CardIsLow
    <3>2. CASE i \notin Cards
      <4>1. t.numvfs[i] = 0 /\ t.pfs[i] = {}
        BY <3>2, <2>0 DEF Host
      <4>2. Ends(t, i) = Slaves(t, i) \cup Below(t, i)
        BY <4>1, <1>7 DEF Ends
      <4> QED BY <4>2, <2>0, <2>1, <1>5, <1>6, <1>7
    <3> QED BY <3>1, <3>2
  <2>2. CASE i \in U /\ i # f
    <3>1. t.below[i] # Nobody /\ t.below[i] \in U
      BY <2>2, <1>4, <1>7
    <3>2. Slaves(t, i) = {}
      <4>1. Kind[i] = "vlan" /\ i # Nobody
        BY <3>1, <2>0, NoCard DEF Host
      <4> QED BY <4>1, <2>0 DEF Host, Slaves
    <3> QED BY <3>1, <3>2, <2>0, <1>5 DEF Below
  <2> QED BY <2>1, <2>2, <1>5, <1>6, <1>7
<1>8. a \in C /\ a \in Cards
  <2>1. Reach(t, x) \subseteq C
    BY <1>3, <1>5, <1>7, ReachFacts
  <2> QED BY <2>1 DEF CardsAt, Reach
<1>9. a \in U => a = f
  <2>1. t.below[a] = Nobody /\ a \in Iface
    BY <1>8, CardIsLow
  <2>2. Chain(t, a) = {a}
    BY <2>1, ChainStep
  <2> QED BY <2>2, <1>2
<1> QED BY <1>1, <1>5, <1>6, <1>8, <1>9

\* A card's own frames come from nowhere else.
LEMMA CardsAtCard ==
  ASSUME NEW t, Host(t), NEW c \in Cards
  PROVE  CardsAt(t, c) = {c}
<1>1. c \in Iface /\ t.lowers[c] = {}
  BY CardIsLow
<1>2. Reach(t, c) \subseteq {c} /\ c \in Reach(t, c)
  BY <1>1, ReachFacts
<1> QED BY <1>2 DEF CardsAt, Reach

\* Whoever has functions of its card in front of it faces them all.
LEMMA FunctionsFaced ==
  ASSUME NEW t, Host(t), NEW x \in Iface, NEW a \in CardsAt(t, x), a \in t.links,
         a \in VFs \/ VFsOf(a) # {}
  PROVE  FunctionOf(a) \subseteq Functions(t, x)
<1>1. a \in Cards /\ a \in Inside(t, FilterCarrier(t, x)) \cap t.links
  BY CardsAreInside
<1>2. t.numvfs[a] = Cardinality(VFsOf(a)) /\ t.pfs[a] = Physfn[a]
  BY <1>1 DEF Host
<1>3. FunctionOf(a) \subseteq Own(t, a)
  <2>1. CASE a \in VFs
    <3>1. Physfn[a] # {}
      BY <2>1 DEF VFs
    <3> QED BY <2>1, <3>1, <1>2 DEF FunctionOf, Own
  <2>2. CASE a \notin VFs
    <3>1. Physfn[a] = {} /\ VFsOf(a) # {}
      BY <2>2, <1>1 DEF VFs
    <3>2. IsFiniteSet(VFsOf(a))
      <4>1. VFsOf(a) \subseteq Iface
        BY NoCard DEF VFsOf
      <4> QED BY <4>1, FS_Subset, Interfaces
    <3>3. Cardinality(VFsOf(a)) \in Nat /\ Cardinality(VFsOf(a)) # 0
      BY <3>1, <3>2, FS_EmptySet, FS_CardinalityType
    <3>4. Own(t, a) = {a}
      BY <3>1, <3>3, <1>2 DEF Own
    <3> QED BY <2>2, <3>4 DEF FunctionOf
  <2> QED BY <2>1, <2>2
<1> QED BY <1>1, <1>3 DEF Functions, PhysicalFunctions

LEMMA SubtreeFacts ==
  ASSUME NEW t, Host(t), NEW x \in Iface
  PROVE  /\ x \in SubtreeOf(t, x) /\ SubtreeOf(t, x) \subseteq Iface
         /\ \A i \in SubtreeOf(t, x) \cap t.links : t.lowers[i] \subseteq SubtreeOf(t, x)
         /\ \A C : x \in C /\ (\A i \in C \cap t.links : t.lowers[i] \subseteq C) => SubtreeOf(t, x) \subseteq C
<1>1. PICK next : next = [i \in t.links |-> t.lowers[i]]
  OBVIOUS
<1>2. DOMAIN next = t.links /\ (\A i \in t.links : next[i] = t.lowers[i]) /\ t.links \subseteq Iface
  BY <1>1 DEF Host
<1>3. Edges(next)
  <2>1. \A i \in t.links : t.lowers[i] \subseteq Iface
    BY <1>2, HostTyped
  <2> QED BY <1>2, <2>1 DEF Edges
<1>4. SubtreeOf(t, x) = Flood({x}, next)
  BY <1>1 DEF SubtreeOf
<1>5. {x} \in SUBSET Iface
  OBVIOUS
<1>6. /\ x \in SubtreeOf(t, x) /\ SubtreeOf(t, x) \subseteq Iface
      /\ \A i \in SubtreeOf(t, x) \cap DOMAIN next : next[i] \subseteq SubtreeOf(t, x)
      /\ \A C : {x} \subseteq C /\ (\A i \in C \cap DOMAIN next : next[i] \subseteq C)
                  => SubtreeOf(t, x) \subseteq C
  BY <1>3, <1>4, <1>5, FloodFacts
<1>7. ASSUME NEW C, x \in C, \A i \in C \cap t.links : t.lowers[i] \subseteq C
      PROVE  SubtreeOf(t, x) \subseteq C
  <2>1. \A i \in C \cap DOMAIN next : next[i] \subseteq C
    BY <1>2, <1>7
  <2> QED BY <1>6, <1>7, <2>1
<1> QED BY <1>2, <1>6, <1>7

LEMMA SubtreesNest ==
  ASSUME NEW t, Host(t), NEW x \in Iface, NEW y \in SubtreeOf(t, x)
  PROVE  y \in Iface /\ SubtreeOf(t, y) \subseteq SubtreeOf(t, x)
<1>1. /\ y \in Iface
      /\ \A i \in SubtreeOf(t, x) \cap t.links : t.lowers[i] \subseteq SubtreeOf(t, x)
  BY SubtreeFacts
<1> QED BY <1>1, SubtreeFacts

\* What frames at an interface have passed is below it.
LEMMA CardsAreBelow ==
  ASSUME NEW t, Host(t), NEW x \in Iface
  PROVE  CardsAt(t, x) \subseteq SubtreeOf(t, x)
<1>1. PICK C : C = SubtreeOf(t, x)
  OBVIOUS
<1>2. x \in C /\ \A i \in C \cap t.links : t.lowers[i] \subseteq C
  BY <1>1, SubtreeFacts
<1>3. Reach(t, x) \subseteq C
  BY <1>2, ReachFacts
<1> QED BY <1>1, <1>3 DEF CardsAt, Reach

MastersOf(t, i) ==
  IF t.master[i] = Nobody \/ IsBridge(t, t.master[i]) THEN {} ELSE {t.master[i]}

LEMMA MastersFacts ==
  ASSUME NEW t, Host(t), NEW x \in Iface
  PROVE  /\ x \in Masters(t, x) /\ Masters(t, x) \subseteq Iface
         /\ \A i \in Masters(t, x) \cap t.links : MastersOf(t, i) \subseteq Masters(t, x)
         /\ \A C : x \in C /\ (\A i \in C \cap t.links : MastersOf(t, i) \subseteq C) => Masters(t, x) \subseteq C
<1>1. PICK next : next = [i \in t.links |-> MastersOf(t, i)]
  OBVIOUS
<1>2. DOMAIN next = t.links /\ (\A i \in t.links : next[i] = MastersOf(t, i)) /\ t.links \subseteq Iface
  BY <1>1 DEF Host
<1>3. Edges(next)
  <2>1. \A i \in t.links : MastersOf(t, i) \subseteq Iface
    BY <1>2 DEF MastersOf, Host
  <2> QED BY <1>2, <2>1 DEF Edges
<1>4. Masters(t, x) = Flood({x}, next)
  BY <1>1 DEF Masters, MastersOf
<1>5. {x} \in SUBSET Iface
  OBVIOUS
<1> QED BY <1>2, <1>3, <1>4, <1>5, FloodFacts

\* Whoever is enslaved, through whatever masters, is below them.
LEMMA BelowItsMasters ==
  ASSUME NEW t, Host(t), NEW x \in t.links, NEW m \in Masters(t, x), m \in t.links
  PROVE  x \in SubtreeOf(t, m)
<1>0. x \in Iface /\ t.links \subseteq Iface
  BY DEF Host
<1>1. PICK C : C = {y \in Iface : y \in t.links => x \in SubtreeOf(t, y)}
  OBVIOUS
<1>2. x \in C
  BY <1>0, <1>1, SubtreeFacts
<1>3. ASSUME NEW i \in C \cap t.links PROVE MastersOf(t, i) \subseteq C
  <2>1. CASE t.master[i] = Nobody
    BY <2>1 DEF MastersOf
  <2>2. CASE t.master[i] # Nobody
    <3>1. PICK n \in Iface : n = t.master[i]
      BY <1>0, <2>2 DEF Host
    <3>2. ASSUME n \in t.links PROVE x \in SubtreeOf(t, n)
      <4>1. i \in t.lowers[n]
        BY <1>0, <3>1 DEF Host, Slaves
      <4>2. i \in SubtreeOf(t, n)
        BY <3>2, <4>1, SubtreeFacts
      <4> QED BY <4>2, <1>1, <1>3, SubtreesNest
    <3> QED BY <3>1, <3>2, <1>1 DEF MastersOf
  <2> QED BY <2>1, <2>2
<1>4. Masters(t, x) \subseteq C
  BY <1>0, <1>2, <1>3, MastersFacts
<1> QED BY <1>1, <1>4

\* A pair's uplink could be one, and enters its bridge at its port.
LEMMA PairFacts ==
  ASSUME NEW t, Host(t), NEW p \in Autodetect(t)
  PROVE  /\ p[1] \in t.links /\ p[1] \in Iface /\ CouldBeUplink(t, p[1])
         /\ PortOf(t, p[1]) \in Masters(t, p[1]) \cap t.links
         /\ t.master[PortOf(t, p[1])] = p[2] /\ IsBridge(t, p[2])
<1>1. PICK i \in Candidates(t) : p = <<i, BridgeOf(t, i)>>
  BY DEF Autodetect, Free
<1>2. PICK q \in BridgeAbove(t, i) : q = CHOOSE r \in BridgeAbove(t, i) : TRUE
  BY <1>1 DEF Candidates
<1>3. PortOf(t, i) = q[2] /\ BridgeOf(t, i) = q[1]
  BY <1>2 DEF PortOf, BridgeOf
<1>4. PICK c \in Masters(t, i) \cap t.links : IsBridge(t, t.master[c]) /\ q = <<t.master[c], c>>
  <2>1. q \in {<<t.master[c], c>> : c \in {c \in Masters(t, i) \cap t.links : IsBridge(t, t.master[c])}}
    BY DEF BridgeAbove
  <2> QED BY <2>1
<1>5. q[1] = t.master[c] /\ q[2] = c /\ p[1] = i /\ p[2] = q[1]
  BY <1>1, <1>3, <1>4
<1>6. i \in t.links /\ i \in Iface /\ CouldBeUplink(t, i)
  BY <1>1 DEF Candidates, Host
<1> QED BY <1>3, <1>4, <1>5, <1>6

\* Two cards whose functions meet, and are not one, are both in front of an
\* eSwitch, and the one that is reached is in the reading.
LEMMA MeetingCards ==
  ASSUME Calm, NEW t, Host(t), NEW a \in Cards, NEW c \in Cards,
         FunctionOf(a) \cap FunctionOf(c) # {}, a # c
  PROVE  a \in t.links /\ (a \in VFs \/ VFsOf(a) # {})
<1>1. Iface \ Late \subseteq t.links /\ a \in Iface
  BY NoCard DEF Host
<1>2. CASE a \in VFs
  BY <1>1, <1>2, Interfaces
<1>3. CASE a \notin VFs
  <2>1. c \in VFs /\ a \in Physfn[c]
    BY <1>3 DEF FunctionOf
  <2>2. c \in VFsOf(a) /\ a \notin Late
    BY <2>1 DEF VFsOf, Calm
  <2> QED BY <1>1, <2>2
<1> QED BY <1>2, <1>3

LEMMA HostExcludes ==
  ASSUME Calm, NEW t, Host(t), NEW p \in Autodetect(t), NEW c \in Cards \cap t.links,
         OneSwitch(t, p[1], c)
  PROVE  c \in Excluded(t, p[1], PortOf(t, p[1]))
<1>1. PICK u \in Iface, port \in Iface :
        /\ u = p[1] /\ port = PortOf(t, u) /\ u \in t.links
        /\ port \in Masters(t, u) \cap t.links
  BY PairFacts DEF Host
<1>2. PICK a \in CardsAt(t, u) : FunctionOf(a) \cap FunctionOf(c) # {}
  BY <1>1, CardsAtCard DEF OneSwitch
<1>3. a \in Cards
  BY <1>2, CardsAreInside
<1>4. CASE a = c
  <2>1. a \in SubtreeOf(t, u)
    BY <1>2, CardsAreBelow
  <2>2. u \in SubtreeOf(t, port)
    BY <1>1, BelowItsMasters
  <2>3. a \in SubtreeOf(t, port)
    BY <2>1, <2>2, SubtreesNest
  <2> QED BY <2>3, <1>1, <1>4 DEF Excluded
<1>5. CASE a # c
  <2>1. FunctionOf(a) \subseteq Functions(t, u)
    BY <1>2, <1>3, <1>5, MeetingCards, FunctionsFaced
  <2>2. CASE c \in VFs
    <3>1. t.pfs[c] = Physfn[c]
      BY DEF Host
    <3> QED BY <2>1, <2>2, <3>1, <1>1, <1>2 DEF Excluded, FunctionOf
  <2>3. CASE c \notin VFs
    BY <2>1, <2>3, <1>1, <1>2 DEF Excluded, FunctionOf
  <2> QED BY <2>2, <2>3
<1> QED BY <1>4, <1>5

LEMMA ReadOffHolds ==
  ASSUME Calm
  PROVE  Spec => [](IInv /\ ReadOff)
<1>1. Init => IInv /\ ReadOff
  <2>1. Init => ReadOff
    BY DEF Init, ReadOff, Undisturbed, NoReading
  <2> QED BY <2>1, InitInv
<1>2. (IInv /\ ReadOff) /\ [Next]_vars => (IInv /\ ReadOff)'
  BY StepInv, ReadOffStep
<1> QED BY <1>1, <1>2, PTL DEF Spec

\* Every function of a pair's card that is bound on the host, another port or
\* another function whose address a guest must not lose to the daemon, is
\* among the exclusions (exclusions: the wire side of the port, the physical
\* functions, and the functions of these).
THEOREM HostIsExcluded ==
  ASSUME Calm, Wired
  PROVE  Spec => []FunctionsAreExcluded
<1>1. IInv /\ ReadOff => FunctionsAreExcluded
  <2> SUFFICES ASSUME IInv, ReadOff, Undisturbed, NEW p \in pairs, NEW c \in Cards \cap topo.links,
                      OneSwitch(topo, p[1], c)
               PROVE  c \in Excluded(topo, p[1], PortOf(topo, p[1]))
    BY DEF FunctionsAreExcluded
  <2>1. Host(topo)
    BY ReadingIsHost DEF IInv, Inv
  <2>2. p \in Autodetect(topo)
    BY DEF ReadOff
  <2> QED BY <2>1, <2>2, HostExcludes
<1> QED BY <1>1, ReadOffHolds, PTL

-----------------------------------------------------------------------------
(* What a pair takes for a guest's *)

BondsOf(t) ==
  \A j \in Iface : t.master[j] # Nobody /\ Kind[t.master[j]] = "bond" =>
    j \in Cards /\ (j \in VFs \/ VFsOf(j) # {} \/ \A v \in Iface : t.below[v] # j)

LEMMA ReadingHasBonds ==
  ASSUME Bonded, ReadOff, Undisturbed
  PROVE  BondsOf(topo)
<1>1. PICK w \in Wirings \cup {Plain} : Made(topo, w)
  BY DEF ReadOff
<1>2. Nobody \notin Iface /\ topo.master = w.master
      /\ \A i \in Iface : topo.below[i] = IF Kind[i] = "vlan" THEN w.parent[i] ELSE Nobody
  BY <1>1, NoCard DEF Made
<1>3. ASSUME NEW j \in Iface, topo.master[j] # Nobody, Kind[topo.master[j]] = "bond"
      PROVE  j \in Cards /\ (j \in VFs \/ VFsOf(j) # {} \/ \A v \in Iface : topo.below[v] # j)
  BY <1>2, <1>3 DEF Bonded
<1> QED BY <1>3 DEF BondsOf

\* Inside whatever holds a filter there is itself and, if it is a bond, its
\* members.
LEMMA InsideABond ==
  ASSUME NEW t, Host(t), BondsOf(t), NEW f \in Iface, f \notin t.links \/ t.below[f] = Nobody,
         NEW a \in Inside(t, f)
  PROVE  a = f \/ (t.master[a] = f /\ Kind[f] = "bond" /\ a \in Cards \cap t.links)
<1>1. PICK C : C = {f} \cup {j \in t.links : t.master[j] = f /\ Kind[f] = "bond" /\ j \in Cards}
  OBVIOUS
<1>2. ASSUME NEW i \in C \cap t.links PROVE Ends(t, i) \subseteq C
  <2>1. CASE i \in Cards
    <3>1. Ends(t, i) = {}
      BY <2>1, CardIsLow DEF Ends
    <3> QED BY <3>1
  <2>2. CASE i \notin Cards
    <3>1. i = f /\ Below(t, f) = {} /\ f # Nobody
      BY <1>1, <1>2, <2>2, NoCard DEF Below
    <3>2. CASE IsBridge(t, f)
      BY <3>1, <3>2 DEF Ends
    <3>3. CASE ~IsBridge(t, f)
      <4>1. ASSUME NEW j \in Slaves(t, f) PROVE j \in C
        <5>1. j \in Iface /\ j \in t.links /\ t.master[j] = f
          BY DEF Slaves, Host
        <5>2. Kind[f] = "bond"
          BY <5>1, <3>1, <3>3, <1>2 DEF Host, IsBridge
        <5> QED BY <5>1, <5>2, <3>1, <1>1 DEF BondsOf
      <4> QED BY <4>1, <3>1 DEF Ends
    <3> QED BY <3>2, <3>3
  <2> QED BY <2>1, <2>2
<1>3. Inside(t, f) \subseteq C
  BY <1>1, <1>2, InsideFacts
<1> QED BY <1>1, <1>3

\* An interface that is reached only as itself leads to what it is.
LEMMA ChainEnters ==
  ASSUME NEW t, Host(t), NEW x \in Iface, NEW a \in Chain(t, x), a # x
  PROVE  \E v \in Iface : t.below[v] = a
<1> SUFFICES ASSUME \A v \in Iface : t.below[v] # a PROVE FALSE
  OBVIOUS
<1>1. PICK C : C = Chain(t, x) \ {a}
  OBVIOUS
<1>2. x \in C /\ C \subseteq Iface
  BY <1>1, ChainFacts
<1>3. ASSUME NEW i \in C \cap t.links PROVE Below(t, i) \subseteq C
  <2>1. Below(t, i) \subseteq Chain(t, x)
    BY <1>1, ChainFacts
  <2>2. a \notin Below(t, i)
    BY <1>2 DEF Below
  <2> QED BY <2>1, <2>2, <1>1
<1>4. Chain(t, x) \subseteq C
  BY <1>2, <1>3, ChainFacts
<1> QED BY <1>1, <1>4

\* A plain card makes nothing an uplink.
LEMMA PlainCard ==
  ASSUME NEW t, Host(t), NEW a \in Cards, a \notin VFs, VFsOf(a) = {}
  PROVE  /\ PhysicalFunctions(t, a) = {}
         /\ a \in t.links => ~CouldBeUplink(t, a)
<1>1. a \in Iface /\ Physfn[a] = {} /\ t.below[a] = Nobody
  BY CardIsLow DEF VFs
<1>2. Inside(t, a) \subseteq {a}
  <2>1. Ends(t, a) = {}
    BY CardIsLow DEF Ends
  <2> QED BY <1>1, <2>1, InsideFacts
<1>3. a \in t.links => t.numvfs[a] = 0 /\ t.pfs[a] = {}
  BY <1>1, FS_EmptySet DEF Host
<1>4. PhysicalFunctions(t, a) = {}
  <2>1. \A i \in Inside(t, a) \cap t.links : Own(t, i) = {}
    BY <1>2, <1>3 DEF Own
  <2> QED BY <2>1 DEF PhysicalFunctions
<1> QED BY <1>1, <1>3, <1>4 DEF CouldBeUplink

\* An uplink whose frames pass a plain card has it as a member of its bond, and
\* is an uplink for the sake of others.
LEMMA PlainMember ==
  ASSUME NEW t, Host(t), BondsOf(t), NEW u \in t.links, CouldBeUplink(t, u),
         NEW a \in CardsAt(t, u), a \notin VFs, VFsOf(a) = {}
  PROVE  /\ Functions(t, u) # {}
         /\ t.master[a] = FilterCarrier(t, u) /\ Kind[FilterCarrier(t, u)] = "bond"
<1>0. u \in Iface
  BY DEF Host
<1>1. a \in Cards /\ a \in Inside(t, FilterCarrier(t, u))
  BY <1>0, CardsAreInside
<1>2. PICK f \in Iface : /\ f = FilterCarrier(t, u) /\ (f \notin t.links \/ t.below[f] = Nobody)
  BY <1>0, CarrierFacts
<1>3. Functions(t, u) # {}
  <2>1. u \notin Cards
    <3>1. u \in Cards => a = u
      BY CardsAtCard
    <3> QED BY <3>1, <1>1, PlainCard
  <2> QED BY <2>1, <1>0 DEF CouldBeUplink, Host
<1>4. a # f
  BY <1>1, <1>2, <1>3, PlainCard DEF Functions
<1> QED BY <1>1, <1>2, <1>3, <1>4, InsideABond

\* Two ways to one eSwitch have a function in common that both are known by,
\* or end in one plain card.
LEMMA OneSwitchShared ==
  ASSUME Calm, NEW t, Host(t), NEW u \in t.links, NEW i \in t.links, OneSwitch(t, u, i)
  PROVE  \/ Functions(t, u) \cap Functions(t, i) # {}
         \/ \E a \in CardsAt(t, u) \cap CardsAt(t, i) : a \notin VFs /\ VFsOf(a) = {}
<1>0. u \in Iface /\ i \in Iface
  BY DEF Host
<1>1. PICK a \in CardsAt(t, u), d \in CardsAt(t, i) : FunctionOf(a) \cap FunctionOf(d) # {}
  BY DEF OneSwitch
<1>2. a \in Cards /\ d \in Cards
  BY <1>0, <1>1, CardsAreInside
<1>3. CASE a # d
  <2>1. FunctionOf(a) \subseteq Functions(t, u)
    BY <1>0, <1>1, <1>2, <1>3, MeetingCards, FunctionsFaced
  <2>2. FunctionOf(d) \subseteq Functions(t, i)
    <3>1. FunctionOf(d) \cap FunctionOf(a) # {} /\ d # a
      BY <1>1, <1>3
    <3>2. d \in t.links /\ (d \in VFs \/ VFsOf(d) # {})
      BY <3>1, <1>2, MeetingCards
    <3> QED BY <3>2, <1>0, <1>1, FunctionsFaced
  <2> QED BY <2>1, <2>2, <1>1
<1>4. CASE a = d /\ (a \in VFs \/ VFsOf(a) # {})
  <2>1. a \in t.links
    <3>1. Iface \ Late \subseteq t.links /\ a \in Iface
      BY <1>2, NoCard DEF Host
    <3>2. a \notin Late
      BY <1>2, <1>4, Interfaces DEF VFsOf, Calm
    <3> QED BY <3>1, <3>2
  <2>2. FunctionOf(a) \subseteq Functions(t, u)
    BY <1>0, <1>1, <1>4, <2>1, FunctionsFaced
  <2>3. FunctionOf(a) \subseteq Functions(t, i)
    BY <1>0, <1>1, <1>4, <2>1, FunctionsFaced
  <2> QED BY <2>2, <2>3, <1>1
<1> QED BY <1>1, <1>3, <1>4

\* Two uplinks on one eSwitch have a function in common.
LEMMA UplinksMeet ==
  ASSUME Calm, NEW t, Host(t), BondsOf(t), NEW u \in t.links, NEW v \in t.links,
         CouldBeUplink(t, u), CouldBeUplink(t, v), OneSwitch(t, u, v)
  PROVE  Functions(t, u) \cap Functions(t, v) # {}
<1>1. ASSUME NEW a \in CardsAt(t, u) \cap CardsAt(t, v), a \notin VFs, VFsOf(a) = {}
      PROVE  Functions(t, u) \cap Functions(t, v) # {}
  <2>1. Functions(t, u) # {} /\ FilterCarrier(t, u) = FilterCarrier(t, v)
    BY <1>1, PlainMember
  <2> QED BY <2>1 DEF Functions
<1> QED BY <1>1, OneSwitchShared

\* So have an uplink and a port of a bridge.
LEMMA OneSwitchShows ==
  ASSUME Calm, NEW t, Host(t), BondsOf(t), NEW u \in t.links, CouldBeUplink(t, u),
         NEW i \in t.links, IsBridge(t, t.master[i]), OneSwitch(t, u, i)
  PROVE  Functions(t, u) \cap Functions(t, i) # {}
<1>0. u \in Iface /\ i \in Iface
  BY DEF Host
<1>1. ASSUME NEW a \in CardsAt(t, u) \cap CardsAt(t, i), a \notin VFs, VFsOf(a) = {}
      PROVE  Functions(t, u) \cap Functions(t, i) # {}
  <2>1. a \in Cards /\ a \in Inside(t, FilterCarrier(t, i))
    BY <1>0, CardsAreInside
  <2>2. PICK g \in Iface : /\ g = FilterCarrier(t, i) /\ (g \notin t.links \/ t.below[g] = Nobody)
                           /\ g \in Chain(t, i)
    BY <1>0, CarrierFacts
  <2>3. /\ Functions(t, u) # {}
        /\ t.master[a] = FilterCarrier(t, u) /\ Kind[t.master[a]] = "bond"
    BY <1>1, PlainMember
  <2>4. a # g
    <3>1. SUFFICES ASSUME a = g PROVE FALSE
      OBVIOUS
    <3>2. a # i
      BY <2>3 DEF IsBridge
    <3>3. \E v \in Iface : t.below[v] = a
      BY <3>1, <3>2, <2>2, <1>0, ChainEnters
    <3>4. a \in Iface /\ t.master[a] # Nobody
      BY <2>1, <2>3, <1>0, CarrierFacts, NoCard
    <3> QED BY <3>3, <3>4, <2>3, <1>1 DEF BondsOf
  <2>5. g = FilterCarrier(t, u)
    BY <2>1, <2>2, <2>3, <2>4, InsideABond
  <2> QED BY <2>2, <2>3, <2>5 DEF Functions
<1> QED BY <1>1, OneSwitchShared

LEMMA HostKeepsOut ==
  ASSUME Calm, NEW t, Host(t), BondsOf(t), NEW p \in Autodetect(t), NEW l \in Learns(t),
         l[1] # Nobody, Claims(t, p, l[1], l[2])
  PROVE  ~OneSwitch(t, p[1], l[1])
<1>1. PICK u \in t.links, port \in t.links :
        /\ u = p[1] /\ port = PortOf(t, u) /\ CouldBeUplink(t, u)
        /\ port \in Masters(t, u) /\ t.master[port] = p[2]
  BY PairFacts
<1>2. PICK i \in t.links : i = l[1] /\ t.master[i] = l[2] /\ IsBridge(t, t.master[i])
  BY DEF Learns
<1>3. IsBehind(t, p[2], port, i, t.master[i]) /\ i \notin Siblings(t, u, p[2], port)
  BY <1>1, <1>2 DEF Claims
<1>4. t.master[i] \in {p[2]} \cup StackedBridges(t, p[2]) /\ i # port
  <2>1. t.master[i] = p[2] \/ t.master[i] \in StackedBridges(t, p[2])
    BY <1>3 DEF IsBehind
  <2>2. p[2] \notin StackedBridges(t, p[2])
    BY DEF StackedBridges
  <2>3. t.master[i] = p[2] => i # port
    BY <1>3 DEF IsBehind
  <2> QED BY <2>1, <2>2, <2>3, <1>1
<1>5. i # u
  <2>1. SUFFICES ASSUME i = u PROVE FALSE
    OBVIOUS
  <2>2. MastersOf(t, u) = {} /\ u \in Iface
    BY <2>1, <1>2 DEF MastersOf, Host
  <2>3. Masters(t, u) \subseteq {u}
    BY <2>2, MastersFacts
  <2> QED BY <2>1, <2>3, <1>1, <1>4
<1>6. Functions(t, i) \cap Functions(t, u) = {}
  BY <1>3, <1>4, <1>5 DEF Siblings
<1> QED BY <1>1, <1>2, <1>6, OneSwitchShows

\* An address learnt on a port that leads, through whatever bonds and VLANs,
\* to a function of the pair's own card is nobody's guest (anatomy's
\* siblings, classify).
THEOREM WireIsNoGuest ==
  ASSUME Calm, Wired, Bonded
  PROVE  Spec => []WireStaysOut
<1>1. IInv /\ ReadOff => WireStaysOut
  <2> SUFFICES ASSUME IInv, ReadOff, Undisturbed, NEW p \in pairs, NEW l \in Learns(topo),
                      l[1] # Nobody, Claims(topo, p, l[1], l[2])
               PROVE  ~OneSwitch(topo, p[1], l[1])
    BY DEF WireStaysOut
  <2>1. Host(topo) /\ BondsOf(topo)
    BY ReadingIsHost, ReadingHasBonds DEF IInv, Inv
  <2>2. p \in Autodetect(topo)
    BY DEF ReadOff
  <2> QED BY <2>1, <2>2, HostKeepsOut
<1> QED BY <1>1, ReadOffHolds, PTL

-----------------------------------------------------------------------------
(* Two pairs on one card *)

LEMMA Bounded ==
  ASSUME NEW F, IsFiniteSet(F), NEW nm, \A i \in F : nm[i] \in Nat
  PROVE  \E b \in Nat : \A i \in F : nm[i] < b
<1>1. PICK k \in Nat : ExistsSurjection(1 .. k, F)
  BY FS_NatSurjection
<1>2. PICK g \in [1 .. k -> F] : \A i \in F : \E m \in 1 .. k : g[m] = i
  BY <1>1 DEF ExistsSurjection, Surjection
<1> DEFINE T == {m \in 0 .. k : \E b \in Nat : \A i \in 1 .. m : nm[g[i]] < b}
<1>3. 0 \in T
  OBVIOUS
<1>4. ASSUME NEW m \in 0 .. k, m # k, m \in T PROVE m + 1 \in T
  <2>1. PICK b \in Nat : \A i \in 1 .. m : nm[g[i]] < b
    BY <1>4
  <2>2. m + 1 \in 1 .. k /\ m + 1 \in 0 .. k /\ \A i \in 1 .. m + 1 : i = m + 1 \/ i \in 1 .. m
    BY <1>4
  <2>3. \A i \in 1 .. k : nm[g[i]] \in Nat
    BY <1>2
  <2>4. PICK c \in Nat : b <= c /\ nm[g[m + 1]] < c
    <3>1. PICK n \in Nat : n = nm[g[m + 1]]
      BY <2>2, <2>3
    <3>2. b + n + 1 \in Nat /\ b <= b + n + 1 /\ n < b + n + 1
      OBVIOUS
    <3> QED BY <3>1, <3>2
  <2>5. ASSUME NEW i \in 1 .. m PROVE nm[g[i]] < c
    <3>1. PICK n \in Nat : n = nm[g[i]]
      BY <2>3, <1>4
    <3> QED BY <3>1, <2>1, <2>4
  <2>6. \A i \in 1 .. m + 1 : nm[g[i]] < c
    BY <2>2, <2>4, <2>5
  <2> QED BY <2>2, <2>6
<1> HIDE DEF T
<1>5. \A m \in 0 .. k : m \in T
  BY <1>3, <1>4, Induction
<1>6. k \in 0 .. k
  OBVIOUS
<1>7. PICK b \in Nat : \A i \in 1 .. k : nm[g[i]] < b
  BY <1>5, <1>6 DEF T
<1> QED BY <1>2, <1>7

\* Names that are an order of the interfaces.
Named(t) == /\ t.name \in [Iface -> Names]
            /\ \A i, j \in Iface : t.name[i] = t.name[j] => i = j

\* Whoever is taken meets nobody that was taken before.
LEMMA TakenMeets ==
  ASSUME NEW t, Host(t), Named(t)
  PROVE  \A p, q \in Autodetect(t) :
           /\ p[2] = BridgeOf(t, p[1])
           /\ t.name[q[1]] < t.name[p[1]] => ~SameSegment(t, p[1], q[1])
<1>1. PICK F \in SUBSET Iface : F = Free(t)
  <2>1. Free(t) \subseteq Iface
    BY DEF Free, Candidates, Host
  <2> QED BY <2>1
<1>2. PICK nm \in [Iface -> Names] : nm = t.name
  BY DEF Named
<1>3. PICK b \in Nat : \A i \in F : nm[i] < b
  <2>1. IsFiniteSet(F)
    BY FS_Subset, Interfaces
  <2>2. \A i \in F : nm[i] \in Nat
    BY Interfaces
  <2> QED BY <2>1, <2>2, Bounded
\* What it takes to be taken, given the names that are.
<1> DEFINE Fits(G, n) == \E i \in F : /\ nm[i] = n
                                      /\ \A j \in F : nm[j] < n /\ nm[j] \in G => ~SameSegment(t, i, j)
<1>4. \E G \in SUBSET Nat : \A n \in Nat : n < b => (n \in G <=> Fits(G, n))
  <2> DEFINE T == {k \in 0 .. b : \E G \in SUBSET Nat :
                     /\ \A n \in G : n < k
                     /\ \A n \in Nat : n < k => (n \in G <=> Fits(G, n))}
  <2>1. 0 \in T
    <3>1. {} \in SUBSET Nat /\ (\A n \in Nat : ~(n < 0)) /\ 0 \in 0 .. b
      BY <1>3
    <3>2. \E G \in SUBSET Nat : /\ \A n \in G : n < 0
                                /\ \A n \in Nat : n < 0 => (n \in G <=> Fits(G, n))
      <4> HIDE DEF Fits
      <4> WITNESS {} \in SUBSET Nat
      <4> QED BY <3>1
    <3> QED BY <3>1, <3>2
  <2>2. ASSUME NEW k \in 0 .. b, k # b, k \in T PROVE k + 1 \in T
    <3>1. PICK G \in SUBSET Nat : /\ \A n \in G : n < k
                                  /\ \A n \in Nat : n < k => (n \in G <=> Fits(G, n))
      BY <2>2
    <3>2. PICK H : H = G \cup {n \in {k} : Fits(G, n)}
      OBVIOUS
    <3>3. k \in Nat /\ k + 1 \in 0 .. b /\ \A n \in Nat : n < k + 1 <=> n < k \/ n = k
      BY <2>2, <1>3
    <3>4. H \in SUBSET Nat /\ \A n \in H : n < k + 1
      BY <3>1, <3>2, <3>3
    <3>5. \A n \in Nat : n < k => (n \in H <=> n \in G)
      BY <3>2, <3>3
    <3>6. \A n \in Nat : n < k + 1 => (Fits(H, n) <=> Fits(G, n))
      <4> SUFFICES ASSUME NEW n \in Nat, n < k + 1 PROVE Fits(H, n) <=> Fits(G, n)
        OBVIOUS
      <4>1. ASSUME NEW j \in F PROVE nm[j] \in Nat /\ (nm[j] < n => nm[j] < k)
        <5>1. nm[j] \in Nat
          BY Interfaces
        <5>2. n = k \/ n < k
          BY <3>3
        <5> QED BY <5>1, <5>2, <3>3
      <4>2. \A j \in F : nm[j] < n => (nm[j] \in H <=> nm[j] \in G)
        BY <4>1, <3>5
      <4> QED BY <4>2
    <3>7. k \in H <=> Fits(G, k)
      BY <3>1, <3>2, <3>3
    <3>8. \A n \in Nat : n < k + 1 => (n \in H <=> Fits(H, n))
      <4> HIDE DEF Fits
      <4> QED BY <3>1, <3>3, <3>5, <3>6, <3>7
    <3> QED BY <3>3, <3>4, <3>8
  <2> HIDE DEF T
  <2>3. b \in T
    BY <1>3, <2>1, <2>2, Induction
  <2> QED BY <2>3 DEF T
<1>5. PICK G \in SUBSET Nat : \A n \in Nat : n < b => (n \in G <=> Fits(G, n))
  BY <1>4
<1>6. PICK h : h = [n \in Names |-> Fits(G, n)]
  OBVIOUS
<1>7. \A i \in F : nm[i] \in Names /\ nm[i] \in Nat /\ nm[i] < b
  BY <1>3, <1>2, Interfaces
<1>8. ASSUME NEW n \in Names, n < b PROVE h[n] <=> n \in G
  <2>1. n \in Nat
    BY Interfaces
  <2>2. h[n] <=> Fits(G, n)
    <3> HIDE DEF Fits
    <3> QED BY <1>6, Zenon
  <2> HIDE DEF Fits
  <2> QED BY <1>5, <1>8, <2>1, <2>2
<1>9. \A j \in F : h[nm[j]] <=> nm[j] \in G
  BY <1>7, <1>8
<1>10. h = [n \in Names |-> \E i \in F : /\ nm[i] = n
                                        /\ \A j \in F : nm[j] < n /\ h[nm[j]] => ~SameSegment(t, i, j)]
  BY <1>6, <1>9, Zenon
<1>11. PICK g : /\ g = CHOOSE f : f = [n \in Names |-> \E i \in F :
                     nm[i] = n /\ \A j \in F : nm[j] < n /\ f[nm[j]] => ~SameSegment(t, i, j)]
                /\ g = [n \in Names |-> \E i \in F :
                     nm[i] = n /\ \A j \in F : nm[j] < n /\ g[nm[j]] => ~SameSegment(t, i, j)]
  BY <1>10
<1>12. Autodetect(t) = {<<i, BridgeOf(t, i)>> : i \in {i \in F : g[nm[i]]}}
  BY <1>1, <1>2, <1>11 DEF Autodetect
<1>13. ASSUME NEW i \in F, NEW j \in F, g[nm[i]], g[nm[j]], nm[j] < nm[i]
       PROVE  ~SameSegment(t, i, j)
  <2>1. nm[i] \in Names
    BY <1>7
  <2>2. \E k \in F : nm[k] = nm[i] /\ \A l \in F : nm[l] < nm[i] /\ g[nm[l]] => ~SameSegment(t, k, l)
    BY <1>11, <1>13, <2>1
  <2>3. PICK k \in F : nm[k] = nm[i] /\ ~SameSegment(t, k, j)
    BY <1>13, <2>2
  <2>4. k = i
    BY <2>3, <1>2 DEF Named
  <2> QED BY <2>3, <2>4
<1> QED BY <1>2, <1>12, <1>13

LEMMA HostClaimsOnce ==
  ASSUME Calm, NEW t, Host(t), BondsOf(t), Named(t), NEW p \in Autodetect(t), NEW q \in Autodetect(t),
         p # q, OneSwitch(t, p[1], q[1]),
         \A a, b \in Bridges(t) :
           StackedBridges(t, a) \cap StackedBridges(t, b) # {} => StackedRelated(t, a, b)
  PROVE  ~\E l \in Learns(t) : Claims(t, p, l[1], l[2]) /\ Claims(t, q, l[1], l[2])
<1>1. PICK u \in t.links, v \in t.links : u = p[1] /\ v = q[1] /\ CouldBeUplink(t, u) /\ CouldBeUplink(t, v)
  BY PairFacts
<1>2. u \in Iface /\ v \in Iface /\ t.name[u] \in Nat /\ t.name[v] \in Nat
  BY Interfaces DEF Host, Named
<1>3. u # v
  <2>1. \E i : p = <<i, BridgeOf(t, i)>>
    BY DEF Autodetect
  <2>2. \E i : q = <<i, BridgeOf(t, i)>>
    BY DEF Autodetect
  <2> QED BY <2>1, <2>2, <1>1
<1>4. Functions(t, u) \cap Functions(t, v) # {}
  BY <1>1, UplinksMeet
<1>5. ~StackedRelated(t, p[2], q[2])
  <2>1. t.name[u] # t.name[v]
    BY <1>2, <1>3 DEF Named
  <2>2. ~SameSegment(t, u, v) \/ ~SameSegment(t, v, u)
    BY <2>1, <1>1, <1>2, TakenMeets
  <2>3. p[2] = BridgeOf(t, u) /\ q[2] = BridgeOf(t, v)
    BY <1>1, TakenMeets
  <2> QED BY <2>2, <2>3, <1>4 DEF SameSegment, StackedRelated
<1>6. p[2] \in Bridges(t) /\ q[2] \in Bridges(t)
  BY PairFacts DEF IsBridge, Bridges
<1>7. ASSUME NEW l \in Learns(t), Claims(t, p, l[1], l[2]), Claims(t, q, l[1], l[2])
      PROVE  FALSE
  <2>1. l[2] = p[2] \/ l[2] \in StackedBridges(t, p[2])
    BY <1>7 DEF Claims, IsBehind
  <2>2. l[2] = q[2] \/ l[2] \in StackedBridges(t, q[2])
    BY <1>7 DEF Claims, IsBehind
  <2> QED BY <2>1, <2>2, <1>5, <1>6 DEF StackedRelated
<1> QED BY <1>7

\* No address is taken for a guest's by two pairs on functions of one card, as
\* long as no bridge is stacked on both of their bridges (autodetect's
\* same-segment test, with the functions of invariant 2).
THEOREM OneClaimEach ==
  ASSUME Calm, Wired, Bonded
  PROVE  Spec /\ []Unbraided => []OneClaim
<1>1. IInv /\ ReadOff /\ Unbraided => OneClaim
  <2> SUFFICES ASSUME IInv, ReadOff, Unbraided, Undisturbed, NEW p \in pairs, NEW q \in pairs,
                      p # q, OneSwitch(topo, p[1], q[1])
               PROVE  ~\E l \in Learns(topo) :
                         Claims(topo, p, l[1], l[2]) /\ Claims(topo, q, l[1], l[2])
    BY DEF OneClaim
  <2>1. Host(topo) /\ BondsOf(topo)
    BY ReadingIsHost, ReadingHasBonds DEF IInv, Inv
  <2>2. Named(topo)
    BY DEF ReadOff, Named, IInv, TInv, TypeOK
  <2>3. p \in Autodetect(topo) /\ q \in Autodetect(topo)
    BY DEF ReadOff
  <2>4. \A a, b \in Bridges(topo) :
          StackedBridges(topo, a) \cap StackedBridges(topo, b) # {} => StackedRelated(topo, a, b)
    BY DEF Unbraided
  <2> QED BY <2>1, <2>2, <2>3, <2>4, HostClaimsOnce
<1> QED BY <1>1, ReadOffHolds, PTL
=============================================================================
