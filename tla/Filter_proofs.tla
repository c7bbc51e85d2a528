---------------------------- MODULE Filter_proofs ----------------------------
(***************************************************************************)
(* Proofs about Filter.                                                    *)
(***************************************************************************)
EXTENDS Filter, FiniteSetTheorems, WellFoundedInduction, TLAPS

-----------------------------------------------------------------------------
(* The operators the decisions are made of *)

\* The later of two readings of the clock is one of them and not before either.
LEMMA LaterFacts ==
  ASSUME NEW s \in Int, NEW t \in Int
  PROVE  /\ Later(s, t) \in Int
         /\ Later(s, t) >= s /\ Later(s, t) >= t
         /\ Later(s, t) \in {s, t}
  BY DEF Later

\* A non-empty set of numbers that are not above a bound has a greatest one.
LEMMA Greatest ==
  ASSUME NEW b \in Nat, NEW S, S \subseteq -1 .. b, S # {}
  PROVE  \E t \in S : \A s \in S : s <= t
<1> DEFINE Down == {d \in Nat : b - d \in S}
           Less == OpToRel(<, Nat)
<1>1. Down \subseteq Nat /\ Down # {}
  <2>1. PICK s \in S : TRUE
    OBVIOUS
  <2>2. b - s \in Nat /\ b - (b - s) = s
    BY <2>1
  <2> QED BY <2>1, <2>2
<1>2. \E d \in Down : \A e \in Down : ~(<<e, d>> \in Less)
  <2> HIDE DEF Down
  <2> QED BY <1>1, NatLessThanWellFounded, WFMin
<1>3. PICK d \in Down : \A e \in Down : ~(<<e, d>> \in Less)
  BY <1>2
<1>4. \A e \in Down : ~(e < d)
  BY <1>3 DEF OpToRel
<1>5. \A s \in S : s <= b - d
  <2> TAKE s \in S
  <2>1. b - s \in Nat /\ b - (b - s) = s
    OBVIOUS
  <2>2. ~(b - s < d)
    BY <2>1, <1>4
  <2> QED BY <2>1, <2>2
<1> QED BY <1>5

\* The newest stamp of a memory is a stamp, and none of it is newer.
LEMMA NewestFacts ==
  ASSUME NEW mem \in Memory, Mac # {}
  PROVE  /\ Newest(mem) \in Stamp \cup {Unknown}
         /\ \A m \in Mac : mem[m] <= Newest(mem)
<1> DEFINE S == {mem[m] : m \in Mac}
<1>1. S \subseteq -1 .. MaxStamp /\ S # {}
  BY FilterConstants DEF Memory, Stamp, Unknown
<1>2. PICK t \in S : \A s \in S : s <= t
  <2> HIDE DEF S
  <2> QED BY <1>1, Greatest, FilterConstants
<1>3. t \in Stamp \cup {Unknown}
  BY <1>1 DEF Stamp, Unknown
<1>4. (\A m \in Mac : mem[m] <= t) /\ (\E m \in Mac : mem[m] = t)
  BY <1>2
<1> QED BY <1>3, <1>4 DEF Newest

\* Forgetting leaves a memory.
LEMMA ForgetFacts ==
  ASSUME NEW mem \in Memory, NEW S
  PROVE  /\ Forget(mem, S) \in Memory
         /\ \A m \in S \cap Mac : Forget(mem, S)[m] = Unknown
         /\ \A m \in Mac \ S : Forget(mem, S)[m] = mem[m]
  BY DEF Forget, Memory

\* Stamping leaves a memory that no stamp of has gone back.
LEMMA SeenFacts ==
  ASSUME NEW mem \in Memory, NEW S, NEW stamp \in Stamp
  PROVE  /\ Seen(mem, S, stamp) \in Memory
         /\ \A m \in S \cap Mac : Seen(mem, S, stamp)[m] >= stamp
         /\ \A m \in Mac : Seen(mem, S, stamp)[m] >= mem[m]
         /\ \A m \in Mac \ S : Seen(mem, S, stamp)[m] = mem[m]
         /\ \A m \in Mac : m \in S \/ mem[m] # Unknown => Seen(mem, S, stamp)[m] # Unknown
<1>1. \A m \in Mac : mem[m] \in Int /\ mem[m] \in Stamp \cup {Unknown}
  BY FilterConstants DEF Memory, Stamp, Unknown
<1>2. stamp \in Int
  BY DEF Stamp
<1>3. \A m \in Mac : /\ Later(mem[m], stamp) \in Stamp \cup {Unknown}
                     /\ Later(mem[m], stamp) >= stamp /\ Later(mem[m], stamp) >= mem[m]
                     /\ Later(mem[m], stamp) # Unknown
  <2> TAKE m \in Mac
  <2> DEFINE v == mem[m]
  <2>1. v \in -1 .. MaxStamp /\ stamp \in 0 .. MaxStamp
    BY <1>1, FilterConstants DEF Stamp, Unknown
  <2> HIDE DEF v
  <2>2. Later(v, stamp) \in 0 .. MaxStamp /\ Later(v, stamp) >= stamp /\ Later(v, stamp) >= v
    BY <2>1, FilterConstants DEF Later
  <2>3. Later(v, stamp) # -1
    BY <2>2
  <2> QED BY <2>2, <2>3 DEF v, Stamp, Unknown
<1>4. \A m \in Mac : Seen(mem, S, stamp)[m]
                       = IF m \in S THEN Later(mem[m], stamp) ELSE mem[m]
  BY DEF Seen
<1>5. \A m \in Mac : mem[m] >= mem[m]
  BY <1>1
<1>6. Seen(mem, S, stamp) \in Memory
  BY <1>1, <1>3 DEF Seen, Memory
<1> QED BY <1>1, <1>3, <1>4, <1>5, <1>6

\* What is read of the memory file is a memory, whatever the clock says.
LEMMA LoadPortsType ==
  ASSUME file \in Memory, now \in Stamp, NEW L
  PROVE  LoadPorts(L) \in Memory
<1> DEFINE read == Forget(file, {m \in Mac : Home[m] \notin L})
           ahead == Later(Newest(read) - now, 0)
<1>1. read \in Memory
  BY ForgetFacts
<1> HIDE DEF read
<1>2. ASSUME NEW m \in Mac, read[m] # Unknown
      PROVE  Later(read[m] - ahead, 0) \in Stamp
  <2>1. Newest(read) - now \in Int
    BY <1>1, NewestFacts DEF Stamp, Unknown
  <2>2. ahead \in Int /\ ahead >= 0
    BY <2>1, LaterFacts
  <2> HIDE DEF ahead
  <2>3. read[m] \in Stamp
    BY <1>1, <1>2 DEF Memory
  <2>4. read[m] - ahead \in Int /\ read[m] - ahead <= MaxStamp
    BY <2>2, <2>3, FilterConstants DEF Stamp
  <2> DEFINE d == read[m] - ahead
  <2>5. d \in Int /\ d <= MaxStamp
    BY <2>4
  <2> HIDE DEF d
  <2>6. Later(d, 0) \in 0 .. MaxStamp
    BY <2>5, FilterConstants DEF Later
  <2> QED BY <2>6 DEF d, Stamp
<1>3. LoadPorts(L) = [m \in Mac |-> IF read[m] = Unknown THEN Unknown
                                     ELSE Later(read[m] - ahead, 0)]
  BY DEF LoadPorts, read
<1> QED BY <1>2, <1>3 DEF Memory

LEMMA PassPortsType ==
  ASSUME file \in Memory, ports \in Memory, now \in Stamp, NEW L
  PROVE  PassPorts(L) \in Memory
  BY LoadPortsType DEF PassPorts

\* What the file is held to say.
Memos == [Mac -> {"none", "loud", "quiet"}]

LEMMA MemoType ==
  ASSUME NEW mem, NEW L, NEW stamp
  PROVE  Memo(mem, L, stamp) \in Memos
  BY DEF Memo, Memos

LEMMA PassMemoType ==
  ASSUME written \in Memos, NEW L
  PROVE  PassMemo(L) \in Memos
  BY MemoType DEF PassMemo

\* Writing the memory file, or not, leaves a file and an idea of it.
LEMMA SavePortsType ==
  ASSUME file \in Memory, NEW memo \in Memos, NEW mem \in Memory, NEW L, NEW stamp,
         SavePorts(memo, mem, L, stamp)
  PROVE  file' \in Memory /\ written' \in Memos
<1>1. NoMemo \in Memos
  BY DEF NoMemo, Memos
<1>2. Forget(mem, {m \in Mac : Home[m] \notin L}) \in Memory
  BY ForgetFacts
<1> QED BY <1>1, <1>2, MemoType DEF SavePorts

-----------------------------------------------------------------------------
(* The steps that write, without the nesting of their choices *)

\* What a pass decides to write.
PassChoice(readable, owned, skip, shed, noted, put, failed) ==
  LET wanted == PassWanted(owned, skip)
  IN  /\ readable \in Readings /\ owned = (IF readable THEN note ELSE {})
      /\ skip = (IF PassAsks(owned) THEN vf ELSE known)
      /\ shed \in Longest(PassKept(owned, skip), PassPorts(snap.live), PassOver(owned, wanted))
      /\ failed \in Choices("delete", owned \ (wanted \ shed))
      /\ noted \subseteq (wanted \ shed) \ snap.card /\ put \subseteq noted
      /\ ~readable => noted = {}
      /\ readable /\ "add" \notin Faults => put = (wanted \ shed) \ snap.card
      /\ PassWrites(readable, owned, skip, wanted \ shed, noted, put, failed)

LEMMA PassSteps ==
  ASSUME PassApply
  PROVE  /\ at = "dumped" /\ at' = "idle" /\ stale' = FALSE /\ loaded' = TRUE
         /\ snap' = Idle /\ theirs' = {} /\ UNCHANGED <<world, events>>
         /\ \E readable, owned, skip, shed, noted, put, failed :
              PassChoice(readable, owned, skip, shed, noted, put, failed)
<1>1. PICK readable \in Readings :
     LET owned == IF readable THEN note ELSE {}
         skip == IF PassAsks(owned) THEN vf ELSE known
         wanted == PassWanted(owned, skip)
     IN  \E shed \in Longest(PassKept(owned, skip), PassPorts(snap.live),
                             PassOver(owned, wanted)) :
         LET want == wanted \ shed
             new == want \ snap.card
         IN  \E failed \in Choices("delete", owned \ want) :
             \/ /\ readable
                /\ \E unput \in Choices("add", new) :
                     PassWrites(readable, owned, skip, want, new, new \ unput, failed)
             \/ /\ ~readable \/ "add" \in Faults
                /\ PassWrites(readable, owned, skip, want, {}, {}, failed)
  BY Zenon DEF PassApply
<1> DEFINE owned == IF readable THEN note ELSE {}
           skip == IF PassAsks(owned) THEN vf ELSE known
           wanted == PassWanted(owned, skip)
           want(shed) == wanted \ shed
           new(shed) == want(shed) \ snap.card
<1>2. PICK shed \in Longest(PassKept(owned, skip), PassPorts(snap.live), PassOver(owned, wanted)) :
        \E failed \in Choices("delete", owned \ want(shed)) :
        \/ /\ readable
           /\ \E unput \in Choices("add", new(shed)) :
                PassWrites(readable, owned, skip, want(shed), new(shed), new(shed) \ unput, failed)
        \/ /\ ~readable \/ "add" \in Faults
           /\ PassWrites(readable, owned, skip, want(shed), {}, {}, failed)
  BY <1>1, Zenon
<1>3. PICK failed \in Choices("delete", owned \ want(shed)) :
        \/ /\ readable
           /\ \E unput \in Choices("add", new(shed)) :
                PassWrites(readable, owned, skip, want(shed), new(shed), new(shed) \ unput, failed)
        \/ /\ ~readable \/ "add" \in Faults
           /\ PassWrites(readable, owned, skip, want(shed), {}, {}, failed)
  BY <1>2, Zenon
<1>4. CASE /\ readable
           /\ \E unput \in Choices("add", new(shed)) :
                PassWrites(readable, owned, skip, want(shed), new(shed), new(shed) \ unput, failed)
  <2>1. PICK unput \in Choices("add", new(shed)) :
          PassWrites(readable, owned, skip, want(shed), new(shed), new(shed) \ unput, failed)
    BY <1>4
  <2>2. "add" \notin Faults => new(shed) \ unput = new(shed)
    BY <2>1 DEF Choices
  <2>3. PassChoice(readable, owned, skip, shed, new(shed), new(shed) \ unput, failed)
    <3>1. /\ readable \in Readings /\ readable = TRUE
          /\ owned = (IF readable THEN note ELSE {})
          /\ skip = (IF PassAsks(owned) THEN vf ELSE known)
      BY <1>1, <1>4
    <3> HIDE DEF owned, skip
    <3> QED BY <1>2, <1>3, <2>1, <2>2, <3>1 DEF PassChoice
  <2> QED BY <2>3, Zenon DEF PassApply
<1>5. CASE /\ ~readable \/ "add" \in Faults
           /\ PassWrites(readable, owned, skip, want(shed), {}, {}, failed)
  <2>1. PassChoice(readable, owned, skip, shed, {}, {}, failed)
    BY <1>2, <1>3, <1>5 DEF PassChoice
  <2> QED BY <2>1, Zenon DEF PassApply
<1> QED BY <1>3, <1>4, <1>5

\* What a batch decides to write.
BatchChoice(dropped, noted, put) ==
  /\ BatchWrites(dropped, noted, put)
  /\ noted \subseteq FastAdd /\ put \subseteq noted
  /\ \/ \E shed \in Longest(Sheddable(BatchMemory), BatchMemory, BatchOver) :
          dropped \subseteq shed /\ ("delete" \notin Faults => dropped = shed)
     \/ "read" \in Faults /\ dropped = {}

LEMMA BatchSteps ==
  ASSUME BatchCommit
  PROVE  /\ at = "decided" /\ at' = "idle" /\ snap' = Idle /\ theirs' = {}
         /\ UNCHANGED <<world, events, loaded, wire, passedAt, lastPassAt, driver>>
         /\ \E dropped, noted, put : BatchChoice(dropped, noted, put)
<1>1. CASE "read" \in Faults /\ BatchWrites({}, {}, {})
  <2>1. BatchChoice({}, {}, {})
    BY <1>1 DEF BatchChoice
  <2> QED BY <2>1, Zenon DEF BatchCommit
<1>2. CASE \E shed \in Longest(Sheddable(BatchMemory), BatchMemory, BatchOver) :
           \E failed \in Choices("delete", shed) :
           \/ \E unput \in Choices("add", FastAdd) :
                BatchWrites(shed \ failed, FastAdd, FastAdd \ unput)
           \/ "add" \in Faults /\ BatchWrites(shed \ failed, {}, {})
  <2>1. PICK shed \in Longest(Sheddable(BatchMemory), BatchMemory, BatchOver) :
           \E failed \in Choices("delete", shed) :
           \/ \E unput \in Choices("add", FastAdd) :
                BatchWrites(shed \ failed, FastAdd, FastAdd \ unput)
           \/ "add" \in Faults /\ BatchWrites(shed \ failed, {}, {})
    BY <1>2, Zenon
  <2>2. PICK failed \in Choices("delete", shed) :
           \/ \E unput \in Choices("add", FastAdd) :
                BatchWrites(shed \ failed, FastAdd, FastAdd \ unput)
           \/ "add" \in Faults /\ BatchWrites(shed \ failed, {}, {})
    BY <2>1, Zenon
  <2>3. "delete" \notin Faults => shed \ failed = shed
    BY <2>2 DEF Choices
  <2>4. \E noted, put : BatchChoice(shed \ failed, noted, put)
    <3>1. CASE "add" \in Faults /\ BatchWrites(shed \ failed, {}, {})
      <4>1. BatchChoice(shed \ failed, {}, {})
        BY <2>1, <2>3, <3>1 DEF BatchChoice
      <4> QED BY <4>1, Zenon
    <3>2. CASE \E unput \in Choices("add", FastAdd) :
                 BatchWrites(shed \ failed, FastAdd, FastAdd \ unput)
      <4>1. PICK unput \in Choices("add", FastAdd) :
              BatchWrites(shed \ failed, FastAdd, FastAdd \ unput)
        BY <3>2
      <4>2. BatchChoice(shed \ failed, FastAdd, FastAdd \ unput)
        BY <2>1, <2>3, <4>1 DEF BatchChoice
      <4> QED BY <4>2, Zenon
    <3> QED BY <2>2, <3>1, <3>2
  <2> QED BY <2>4, Zenon DEF BatchCommit
<1> QED BY <1>1, <1>2, Zenon DEF BatchCommit

-----------------------------------------------------------------------------
(* Types *)

Snapshots == [fdb : [Mac -> SUBSET Places], live : SUBSET Port, card : SUBSET Mac,
              heard : SUBSET (Mac \X Places), carried : BOOLEAN]

\* A pass begins where the clock, or the nudge, leaves it a stamp, and keeps it.
Typed ==
  /\ TypeOK
  /\ at = "dumped" => lastPassAt + 1 <= MaxStamp

LEMMA IdleType ==
  Idle \in Snapshots
  BY DEF Idle, Snapshots, Places

LEMMA StampType ==
  ASSUME Typed, at = "dumped"
  PROVE  PassStamp \in Stamp
<1>1. now \in Stamp /\ lastPassAt + 1 \in Stamp
  BY FilterConstants DEF Typed, TypeOK, Stamp
<1> QED BY <1>1, LaterFacts DEF PassStamp, Later

LEMMA TypedInit ==
  ASSUME Init
  PROVE  Typed
<1>1. Blank \in Memory /\ NoMemo \in Memos
  BY DEF Blank, Memory, NoMemo, Memos
<1>2. 0 \in Stamp /\ 1 \in Stamp /\ 0 \in 0 .. MaxForeign
  BY FilterConstants DEF Stamp
<1>3. /\ fdb \in [Mac -> SUBSET Places]
      /\ guest \in [Mac -> {"no", "registered", "seen", "away"}]
  BY DEF Init
<1> QED BY <1>1, <1>2, <1>3, IdleType DEF Init, Typed, TypeOK, Snapshots, Memos

LEMMA TypedPassDump ==
  ASSUME Typed, PassDump
  PROVE  Typed'
<1>1. snap' \in Snapshots
  BY DEF PassDump, Typed, TypeOK, Snapshots
<1>2. lastPassAt + 1 <= MaxStamp
  BY FilterConstants DEF PassDump, PassStamp, Later, Typed, TypeOK, Stamp
<1> QED BY <1>1, <1>2
        DEF Typed, TypeOK, PassDump, Snapshots, world, events, disk, carried, driver

LEMMA TypedPassRefused ==
  ASSUME Typed, PassRefused
  PROVE  Typed'
<1>1. PassPorts(snap.live) \in Memory /\ PassMemo(snap.live) \in Memos
  BY PassPortsType, PassMemoType DEF Typed, TypeOK, Memos
<1>2. PassStamp \in Stamp
  BY StampType DEF PassRefused
<1>3. /\ ports' \in Memory /\ loaded' \in BOOLEAN /\ written' \in Memos /\ lastPassAt' \in Stamp
  BY <1>1, <1>2 DEF PassRefused, Typed, TypeOK, Memos
<1>4. /\ at' = "idle" /\ stale' = TRUE /\ snap' = Idle /\ theirs' = {}
      /\ UNCHANGED <<world, events, card, note, file, carried, known, guest>>
  BY DEF PassRefused
<1> QED BY <1>3, <1>4, IdleType
        DEF Typed, TypeOK, Snapshots, Memos, world, events, carried

LEMMA TypedPassApply ==
  ASSUME Typed, PassApply
  PROVE  Typed'
<1>1. PICK readable, owned, skip, shed, noted, put, failed :
        PassChoice(readable, owned, skip, shed, noted, put, failed)
  BY PassSteps, Zenon
<1>2. /\ at = "dumped" /\ at' = "idle" /\ stale' = FALSE /\ loaded' = TRUE
      /\ snap' = Idle /\ theirs' = {} /\ UNCHANGED <<world, events>>
  BY PassSteps
<1> DEFINE want == PassWanted(owned, skip) \ shed
<1>3. /\ owned \subseteq Mac /\ skip \subseteq Mac
      /\ noted \subseteq want /\ put \subseteq noted
      /\ PassWrites(readable, owned, skip, want, noted, put, failed)
  BY <1>1 DEF PassChoice, Typed, TypeOK
<1>4. want \subseteq Mac /\ PassKept(owned, skip) \subseteq Mac
  BY <1>3, FilterConstants DEF PassWanted, PassKept, Desired, Behind, Survivors
<1>5. PassPorts(snap.live) \in Memory /\ PassMemo(snap.live) \in Memos
  BY PassPortsType, PassMemoType DEF Typed, TypeOK, Memos
<1>6. PassStamp \in Stamp
  BY <1>2, StampType
<1> HIDE DEF want
<1> DEFINE dropped == owned \ (want \cup failed)
           after == Forget(Seen(Forget(PassPorts(snap.live), failed),
                                Behind(snap.fdb, snap.live), PassStamp),
                           Mac \ ((owned \cup put) \ dropped))
<1>7. after \in Memory
  BY <1>5, <1>6, ForgetFacts, SeenFacts
<1>8. /\ card' = (card \cup put) \ dropped /\ note' = (note \cup noted) \ dropped
      /\ quiet' = PassKept(owned, skip) \cap want /\ wire' = OnWire(snap.fdb)
      /\ known' = skip /\ lastPassAt' = PassStamp
  BY <1>3 DEF PassWrites
<1>9. /\ ports' \in Memory /\ passedAt' \in Stamp
      /\ file' \in Memory /\ written' \in Memos
      /\ guest' \in [Mac -> {"no", "registered", "seen", "away"}]
  <2>1. CASE ~readable
    BY <1>3, <1>5, <2>1 DEF PassWrites, Typed, TypeOK
  <2>2. CASE readable
    <3>1. /\ ports' = after /\ passedAt' = PassStamp
          /\ SavePorts(PassMemo(snap.live), after, snap.live, PassStamp)
      BY <1>3, <2>2 DEF PassWrites
    <3>2. guest' \in [Mac -> {"no", "registered", "seen", "away"}]
      BY <1>3, <2>2 DEF PassWrites, Typed, TypeOK
    <3> HIDE DEF after
    <3>3. file' \in Memory /\ written' \in Memos
      BY <1>5, <1>7, <3>1, SavePortsType DEF Typed, TypeOK
    <3> QED BY <1>6, <1>7, <3>1, <3>2, <3>3
  <2> QED BY <2>1, <2>2
<1>10. OnWire(snap.fdb) \subseteq Mac
  BY DEF OnWire
<1> HIDE DEF dropped
<1> QED BY <1>2, <1>3, <1>4, <1>6, <1>8, <1>9, <1>10, IdleType
        DEF Typed, TypeOK, Snapshots, Memos, world, events

LEMMA FastAddType ==
  FastAdd \subseteq Mac
  BY DEF FastAdd, HeardBehind

LEMMA TypedBatchTake ==
  ASSUME Typed, BatchTake
  PROVE  Typed'
<1>1. Later(now - Ageing, 0) \in Stamp
  BY FilterConstants DEF Later, Typed, TypeOK, Stamp
<1>2. ports' \in Memory
  BY <1>1, SeenFacts DEF BatchTake, DateTheSilence, Typed, TypeOK
<1>3. [Idle EXCEPT !.live = live, !.heard = learns, !.carried = ~stale] \in Snapshots
  BY DEF Typed, TypeOK, Idle, Snapshots
<1>4. /\ known' \subseteq Mac /\ stale' \in BOOLEAN /\ snap' \in Snapshots /\ theirs' \subseteq Mac
      /\ at' \in {"idle", "taken"}
  BY <1>3 DEF BatchTake, driver, Typed, TypeOK, Snapshots
<1>5. /\ learns' = {} /\ gone' = {}
      /\ UNCHANGED <<world, card, note, disk, loaded, carried, lastPassAt, guest>>
  BY DEF BatchTake
<1> QED BY <1>2, <1>4, <1>5
        DEF Typed, TypeOK, Snapshots, world, disk, carried

LEMMA TypedBatchReflect ==
  ASSUME Typed, BatchReflect
  PROVE  Typed'
<1>1. PICK readable \in Readings :
     LET ours == IF readable THEN note \cap HeardOnWire ELSE {}
     IN  \E failed \in Choices("delete", ours) :
         /\ card' = card \ (ours \ failed) /\ note' = note \ (ours \ failed)
         /\ ports' = Forget(ports, Evicted(ours, failed))
         /\ quiet' = quiet \ Evicted(ours, failed)
         /\ wire' = wire \cup ((ours \ failed) \cap card)
         /\ IF ours # {} /\ loaded THEN SavePorts(written, ports', snap.live, passedAt)
                                  ELSE UNCHANGED disk
         /\ guest' = [m \in Mac |-> IF m \in Elsewhere(ours) THEN "away" ELSE guest[m]]
  BY Zenon DEF BatchReflect
<1> DEFINE ours == IF readable THEN note \cap HeardOnWire ELSE {}
<1>2. PICK failed \in Choices("delete", ours) :
         /\ card' = card \ (ours \ failed) /\ note' = note \ (ours \ failed)
         /\ ports' = Forget(ports, Evicted(ours, failed))
         /\ quiet' = quiet \ Evicted(ours, failed)
         /\ wire' = wire \cup ((ours \ failed) \cap card)
         /\ IF ours # {} /\ loaded THEN SavePorts(written, ports', snap.live, passedAt)
                                  ELSE UNCHANGED disk
         /\ guest' = [m \in Mac |-> IF m \in Elsewhere(ours) THEN "away" ELSE guest[m]]
  BY <1>1, Zenon
<1> HIDE DEF ours
<1>3. ports' \in Memory
  BY <1>2, ForgetFacts DEF Typed, TypeOK
<1>4. file' \in Memory /\ written' \in Memos
  <2>1. file \in Memory /\ written \in Memos
    BY DEF Typed, TypeOK, Memos
  <2> QED BY <1>2, <1>3, <2>1, SavePortsType DEF disk
<1>5. /\ card' \subseteq Mac /\ note' \subseteq Mac /\ quiet' \subseteq Mac /\ wire' \subseteq Mac
      /\ guest' \in [Mac -> {"no", "registered", "seen", "away"}]
  BY <1>2 DEF Typed, TypeOK
<1>6. /\ at' = "reflected"
      /\ UNCHANGED <<world, events, loaded, passedAt, lastPassAt, driver, snap, theirs>>
  BY DEF BatchReflect
<1> QED BY <1>3, <1>4, <1>5, <1>6
        DEF Typed, TypeOK, Memos, world, events, driver

LEMMA TypedBatchDecide ==
  ASSUME Typed, BatchDecide
  PROVE  Typed'
<1>1. snap' \in Snapshots
  <2>1. [snap EXCEPT !.card = card] \in Snapshots
    BY DEF Typed, TypeOK, Snapshots
  <2> QED BY <2>1, IdleType DEF BatchDecide
<1>2. at' \in {"idle", "decided"} /\ known' \subseteq Mac /\ stale' \in BOOLEAN /\ theirs' \subseteq Mac
  BY DEF BatchDecide, driver, Typed, TypeOK
<1>3. UNCHANGED <<world, events, card, note, disk, ports, loaded, carried, lastPassAt, guest>>
  BY DEF BatchDecide
<1> QED BY <1>1, <1>2, <1>3
        DEF Typed, TypeOK, Snapshots, world, events, disk, carried

LEMMA BatchMemoryType ==
  ASSUME Typed
  PROVE  BatchMemory \in Memory
  BY SeenFacts DEF BatchMemory, Typed, TypeOK

LEMMA TypedBatchCommit ==
  ASSUME Typed, BatchCommit
  PROVE  Typed'
<1>1. PICK dropped, noted, put : BatchChoice(dropped, noted, put)
  BY BatchSteps
<1>2. /\ at = "decided" /\ at' = "idle" /\ snap' = Idle /\ theirs' = {}
      /\ UNCHANGED <<world, events, loaded, wire, passedAt, lastPassAt, driver>>
  BY BatchSteps
<1>3. noted \subseteq Mac /\ put \subseteq Mac
  BY <1>1, FastAddType DEF BatchChoice
<1>4. /\ ports' = Forget(BatchMemory, dropped) /\ quiet' = quiet \ dropped
      /\ card' = (card \ dropped) \cup put /\ note' = (note \ dropped) \cup noted
      /\ IF dropped # {} THEN SavePorts(written, ports', snap.live, passedAt)
                        ELSE UNCHANGED disk
  BY <1>1 DEF BatchChoice, BatchWrites
<1>5. ports' \in Memory
  BY <1>4, BatchMemoryType, ForgetFacts
<1>6. file' \in Memory /\ written' \in Memos
  <2>1. file \in Memory /\ written \in Memos
    BY DEF Typed, TypeOK, Memos
  <2> QED BY <1>4, <1>5, <2>1, SavePortsType DEF disk
<1>7. guest' \in [Mac -> {"no", "registered", "seen", "away"}]
  BY <1>1 DEF BatchChoice, BatchWrites, Typed, TypeOK
<1> QED BY <1>2, <1>3, <1>4, <1>5, <1>6, <1>7, IdleType
        DEF Typed, TypeOK, Memos, Snapshots, world, events, driver

\* The world's steps and the process's death.
LEMMA TypedRest ==
  ASSUME Typed, UNCHANGED vars \/ (Next /\ ~Pass /\ ~Batch)
  PROVE  Typed'
<1>1. CASE UNCHANGED vars
  BY <1>1 DEF Typed, TypeOK, vars, world, events, disk, carried, driver
<1>2. CASE Crash
  <2>1. Blank \in Memory /\ NoMemo \in Memos /\ 0 \in Stamp
    BY FilterConstants DEF Blank, Memory, NoMemo, Memos, Stamp
  <2>2. guest' \in [Mac -> {"no", "registered", "seen", "away"}]
    BY <1>2 DEF Crash, Typed, TypeOK
  <2> QED BY <1>2, <2>1, <2>2, IdleType DEF Crash, Typed, TypeOK, Snapshots, Memos, world
<1>3. ASSUME NEW m \in Mac, VfChange(m) PROVE Typed'
  BY <1>3 DEF VfChange, Typed, TypeOK, events, disk, carried, driver
<1>4. ASSUME NEW m \in Mac, NEW place \in Places, Appear(m, place) PROVE Typed'
  <2>1. fdb' \in [Mac -> SUBSET Places] /\ learns' \subseteq Mac \X Places
    BY <1>4 DEF Appear, Typed, TypeOK
  <2>2. guest' \in [Mac -> {"no", "registered", "seen", "away"}]
    BY <1>4 DEF Appear, Typed, TypeOK
  <2> QED BY <1>4, <2>1, <2>2 DEF Appear, Typed, TypeOK, disk, carried, driver
<1>5. ASSUME NEW m \in Mac, NEW place \in Places, Age(m, place) PROVE Typed'
  BY <1>5 DEF Age, Typed, TypeOK, disk, carried, driver
<1>6. ASSUME NEW p \in Port, Unplug(p) PROVE Typed'
  <2>1. fdb' \in [Mac -> SUBSET Places] /\ gone' \subseteq Mac
    BY <1>6 DEF Unplug, Typed, TypeOK
  <2>2. guest' \in [Mac -> {"no", "registered", "seen", "away"}]
    BY <1>6 DEF Unplug, Typed, TypeOK
  <2> QED BY <1>6, <2>1, <2>2 DEF Unplug, Typed, TypeOK, disk, carried, driver
<1>7. CASE LinkMessage \/ Foreign \/ DriverReset
  BY <1>7 DEF LinkMessage, Foreign, DriverReset, Typed, TypeOK, world, events, disk, carried, driver
<1>8. CASE Tick
  BY <1>8, FilterConstants DEF Tick, Typed, TypeOK, Stamp, events, disk, carried, driver
<1> QED BY <1>1, <1>2, <1>3, <1>4, <1>5, <1>6, <1>7, <1>8 DEF Next

LEMMA TypedStep ==
  ASSUME Typed, [Next]_vars
  PROVE  Typed'
  BY TypedPassDump, TypedPassRefused, TypedPassApply, TypedBatchTake, TypedBatchReflect,
     TypedBatchDecide, TypedBatchCommit, TypedRest DEF Pass, Batch

\* Every variable keeps its type, whatever goes wrong: no pass runs past the
\* clock's bound, and what is read back of the memory file is a memory.
THEOREM TypeCorrect == Spec => []TypeOK
<1>1. Init => Typed
  BY TypedInit
<1>2. Typed /\ [Next]_vars => Typed'
  BY TypedStep
<1>3. Typed => TypeOK
  BY DEF Typed
<1> QED BY <1>1, <1>2, <1>3, PTL DEF Spec

-----------------------------------------------------------------------------
(* What the virtual functions own *)

\* The driver does not clear its list under a running pass or batch.
Steady == "flap" \notin Faults

\* What the functions have owned throughout is still theirs; a batch with a
\* fresh answer knows of all of it; and a batch that has decided on a carried
\* one knows of it too, or adds nothing to the card.
Watched ==
  /\ theirs \subseteq vf
  /\ at \in {"taken", "reflected", "decided"} /\ ~snap.carried => theirs \subseteq known
  /\ at = "decided" => theirs \subseteq known \/ FastAdd \subseteq card

LEMMA WatchedStep ==
  ASSUME Typed, Watched, Steady, [Next]_vars
  PROVE  Watched'
<1>1. CASE UNCHANGED vars
  BY <1>1 DEF Watched, vars, world, carried, driver, FastAdd, HeardBehind, HeardOnWire
<1>2. CASE PassDump \/ PassRefused \/ PassApply \/ BatchCommit \/ Crash
  <2>1. theirs' \subseteq vf' /\ at' \in {"idle", "dumped"}
    BY <1>2, PassSteps, BatchSteps DEF PassDump, PassRefused, Crash, world
  <2> QED BY <2>1 DEF Watched
<1>3. CASE BatchTake
  <2>1. vf' = vf
    BY <1>3 DEF BatchTake, world
  <2>2. CASE UNCHANGED <<driver, at, snap, theirs>>
    <3>1. at = "idle"
      BY <1>3 DEF BatchTake
    <3> QED BY <2>1, <2>2, <3>1 DEF Watched
  <2>3. CASE /\ known' = (IF stale THEN vf ELSE known)
             /\ at' = "taken" /\ theirs' = vf
             /\ snap' = [Idle EXCEPT !.live = live, !.heard = learns, !.carried = ~stale]
    <3>1. snap'.carried = ~stale
      BY <2>3 DEF Idle
    <3> QED BY <2>1, <2>3, <3>1 DEF Watched, Typed, TypeOK
  <2> QED BY <1>3, <2>2, <2>3 DEF BatchTake
<1>4. CASE BatchReflect
  BY <1>4 DEF BatchReflect, Watched, world, driver
<1>5. CASE BatchDecide
  <2>1. PICK readable \in Readings :
     LET cands == FastAdd \cup (known \cap (HeardBehind \cup HeardOnWire))
         would == cands \ (card \cap (IF readable THEN note ELSE {}))
     IN  \/ /\ ~snap.carried \/ would = {}
            /\ at' = "decided" /\ snap' = [snap EXCEPT !.card = card]
            /\ UNCHANGED <<driver, theirs>>
         \/ /\ snap.carried /\ would # {}
            /\ at' = "decided" /\ snap' = [snap EXCEPT !.card = card]
            /\ known' = vf /\ stale' = FALSE
            /\ UNCHANGED theirs
         \/ /\ snap.carried /\ would # {} /\ "refuse" \in Faults
            /\ at' = "idle" /\ snap' = Idle /\ theirs' = {}
            /\ stale' = TRUE
            /\ UNCHANGED known
    BY <1>5, Zenon DEF BatchDecide
  <2>2. at = "reflected" /\ vf' = vf /\ card' = card /\ wire' = wire
    BY <1>5 DEF BatchDecide, world, carried
  <2>3. snap' = [snap EXCEPT !.card = card]
          => snap'.heard = snap.heard /\ snap'.live = snap.live /\ snap'.carried = snap.carried
    BY DEF Typed, TypeOK
  <2>4. CASE /\ at' = "idle" /\ theirs' = {}
    BY <2>4 DEF Watched
  <2>5. CASE /\ at' = "decided" /\ snap' = [snap EXCEPT !.card = card]
             /\ known' = vf /\ theirs' = theirs
    BY <2>2, <2>5 DEF Watched
  <2>6. CASE /\ ~snap.carried
             /\ at' = "decided" /\ snap' = [snap EXCEPT !.card = card]
             /\ known' = known /\ theirs' = theirs
    BY <2>2, <2>6 DEF Watched
  <2>7. CASE /\ FastAdd \subseteq card /\ snap.carried
             /\ at' = "decided" /\ snap' = [snap EXCEPT !.card = card]
             /\ known' = known /\ theirs' = theirs
    <3>1. FastAdd' = FastAdd
      BY <2>2, <2>3, <2>7 DEF FastAdd, HeardBehind, HeardOnWire
    <3> QED BY <2>2, <2>3, <2>7, <3>1 DEF Watched
  <2> QED BY <2>1, <2>4, <2>5, <2>6, <2>7 DEF driver
<1>6. ASSUME NEW m \in Mac, VfChange(m) PROVE Watched'
  <2>1. theirs' \subseteq theirs /\ theirs' \subseteq vf'
    BY <1>6 DEF VfChange, Watched
  <2>2. UNCHANGED <<known, at, snap, card, wire>>
    BY <1>6 DEF VfChange, driver, carried
  <2>3. FastAdd' = FastAdd
    BY <2>2 DEF FastAdd, HeardBehind, HeardOnWire
  <2> QED BY <2>1, <2>2, <2>3 DEF Watched
<1>7. ASSUME \/ \E m \in Mac : \E place \in Places : Appear(m, place) \/ Age(m, place)
             \/ \E p \in Port : Unplug(p)
             \/ LinkMessage \/ Foreign \/ Tick
      PROVE  Watched'
  <2>1. UNCHANGED <<theirs, vf, known, at, snap, card, wire>>
    BY <1>7 DEF Appear, Age, Unplug, LinkMessage, Foreign, Tick, world, driver, carried
  <2>2. FastAdd' = FastAdd
    BY <2>1 DEF FastAdd, HeardBehind, HeardOnWire
  <2> QED BY <2>1, <2>2 DEF Watched
<1>8. CASE DriverReset
  BY <1>8 DEF DriverReset, Steady, Watched, world, driver
<1> QED BY <1>1, <1>2, <1>3, <1>4, <1>5, <1>6, <1>7, <1>8 DEF Next, Pass, Batch

\* Where the driver was asked nothing of a function's is wanted; where the
\* carried answer stood, the pass adds nothing and keeps what it kept.
LEMMA PassNeverTakes ==
  ASSUME Typed, Watched, PassApply
  PROVE  ((card' \ card) \cup (quiet' \ quiet)) \cap theirs = {}
<1>1. PICK readable, owned, skip, shed, noted, put, failed :
        PassChoice(readable, owned, skip, shed, noted, put, failed)
  BY PassSteps, Zenon
<1>2. /\ skip = (IF PassAsks(owned) THEN vf ELSE known)
      /\ put \subseteq PassWanted(owned, skip) \ snap.card
      /\ card' \subseteq card \cup put /\ quiet' \subseteq PassKept(owned, skip)
  BY <1>1 DEF PassChoice, PassWrites
<1>3. PassWanted(owned, skip) \cap skip = {} /\ PassKept(owned, skip) \cap skip = {}
  BY DEF PassWanted, PassKept, Survivors, Desired
<1>4. CASE PassAsks(owned)
  BY <1>2, <1>3, <1>4 DEF Watched
<1>5. CASE ~PassAsks(owned)
  BY <1>2, <1>5 DEF PassAsks
<1> QED BY <1>4, <1>5

\* "A carried answer decides nothing that grows a filter": nothing that a
\* virtual function has owned since the pass or batch began is put on the card
\* or becomes a keep, whatever else fails, as long as the driver keeps its
\* list while the daemon is at work.
THEOREM FunctionsAreLeftAlone ==
  ASSUME Steady
  PROVE  Spec => NeverTakesVf
<1>1. Init => Typed /\ Watched
  BY TypedInit DEF Init, Watched
<1>2. Typed /\ Watched /\ [Next]_vars => (Typed /\ Watched)'
  BY TypedStep, WatchedStep
<1>3. Typed /\ Watched /\ [Next]_vars
        => [((card' \ card) \cup (quiet' \ quiet)) \cap theirs = {}]_vars
  <2> SUFFICES ASSUME Typed, Watched, Next
               PROVE  ((card' \ card) \cup (quiet' \ quiet)) \cap theirs = {}
    OBVIOUS
  <2>1. CASE PassApply
    BY <2>1, PassNeverTakes
  <2>2. CASE BatchCommit
    <3>1. PICK dropped, noted, put : BatchChoice(dropped, noted, put)
      BY <2>2, BatchSteps
    <3>2. card' \subseteq card \cup FastAdd /\ quiet' \subseteq quiet
      BY <3>1 DEF BatchChoice, BatchWrites
    <3>3. FastAdd \cap known = {}
      BY DEF FastAdd
    <3> QED BY <2>2, <3>2, <3>3, BatchSteps DEF Watched
  <2>3. CASE BatchReflect
    BY <2>3 DEF BatchReflect
  <2>4. CASE ~PassApply /\ ~BatchCommit /\ ~BatchReflect
    <3>1. card' \subseteq card /\ quiet' \subseteq quiet
      BY <2>4 DEF Next, Pass, Batch, PassDump, PassRefused, BatchTake, BatchDecide, Crash,
                  VfChange, Appear, Age, Unplug, LinkMessage, Foreign, DriverReset, Tick, carried
    <3> QED BY <3>1
  <2> QED BY <2>1, <2>2, <2>3, <2>4
<1> QED BY <1>1, <1>2, <1>3, PTL DEF Spec, NeverTakesVf

-----------------------------------------------------------------------------
(* The clock *)

\* No two passes fall into one reading of the clock.
Paced == "quick" \notin Faults

\* No pass's stamp is ahead of the clock, and a running one's will not be.
Clocked ==
  /\ passedAt <= now /\ lastPassAt <= now
  /\ at = "dumped" => lastPassAt < now

LEMMA ClockedStep ==
  ASSUME Typed, Clocked, Paced, [Next]_vars
  PROVE  Clocked'
<1> now \in Nat /\ passedAt \in Nat /\ lastPassAt \in Nat
  BY DEF Typed, TypeOK, Stamp
<1>1. CASE PassDump
  BY <1>1 DEF PassDump, Paced, Clocked, world, carried
<1>2. CASE at = "dumped" /\ (PassRefused \/ PassApply)
  <2>1. PassStamp = now
    BY <1>2 DEF PassStamp, Later, Clocked
  <2>2. at' = "idle" /\ now' = now
    BY <1>2, PassSteps DEF PassRefused, world
  <2>3. lastPassAt' \in {lastPassAt, PassStamp} /\ passedAt' \in {passedAt, PassStamp}
    <3>1. CASE PassRefused
      BY <3>1 DEF PassRefused, carried
    <3>2. CASE PassApply
      <4>1. PICK readable, owned, skip, shed, noted, put, failed :
              PassChoice(readable, owned, skip, shed, noted, put, failed)
        BY <3>2, PassSteps, Zenon
      <4> QED BY <4>1 DEF PassChoice, PassWrites
    <3> QED BY <1>2, <3>1, <3>2
  <2> QED BY <2>1, <2>2, <2>3 DEF Clocked
<1>3. CASE Tick
  BY <1>3 DEF Tick, Clocked, carried
<1>4. CASE Crash
  BY <1>4 DEF Crash, Clocked, world
<1>5. CASE BatchCommit
  BY <1>5, BatchSteps DEF Clocked, world
<1>6. CASE BatchTake \/ BatchReflect \/ BatchDecide
  BY <1>6 DEF BatchTake, BatchReflect, BatchDecide, Clocked, world, carried
<1>7. ASSUME \/ UNCHANGED vars
             \/ \E m \in Mac : VfChange(m) \/ \E place \in Places : Appear(m, place) \/ Age(m, place)
             \/ \E p \in Port : Unplug(p)
             \/ LinkMessage \/ Foreign \/ DriverReset
      PROVE  Clocked'
  <2>1. UNCHANGED <<now, passedAt, lastPassAt, at>>
    BY <1>7 DEF VfChange, Appear, Age, Unplug, LinkMessage, Foreign, DriverReset, vars, world, carried
  <2> QED BY <2>1 DEF Clocked
<1> QED BY <1>1, <1>2, <1>3, <1>4, <1>5, <1>6, <1>7, PassSteps
        DEF Next, Pass, Batch, PassRefused

\* Who has just spoken is not to be surrendered.
LEMMA SpeakersAreSafe ==
  ASSUME Typed, Clocked, loaded
  PROVE  /\ Sheddable(BatchMemory) \cap FastAdd = {}
         /\ \A m \in FastAdd : BatchMemory[m] # Unknown
<1>1. now \in Stamp /\ ports \in Memory /\ passedAt \in Nat
  BY DEF Typed, TypeOK, Stamp
<1>2. \A m \in FastAdd : BatchMemory[m] >= now /\ BatchMemory[m] \in Int
  <2>1. BatchMemory = Seen(ports, FastAdd, now)
    BY DEF BatchMemory
  <2>2. \A m \in FastAdd : Seen(ports, FastAdd, now)[m] >= now
    BY <1>1, SeenFacts, FastAddType
  <2>3. \A m \in Mac : BatchMemory[m] \in Int
    BY BatchMemoryType DEF Memory, Stamp, Unknown
  <2> QED BY <2>1, <2>2, <2>3, FastAddType
<1>3. \A m \in FastAdd : ~(BatchMemory[m] < passedAt) /\ BatchMemory[m] # -1
  <2> now \in Nat /\ passedAt <= now
    BY <1>1 DEF Clocked, Stamp
  <2> TAKE m \in FastAdd
  <2> DEFINE b == BatchMemory[m]
  <2>1. b \in Int /\ b >= now
    BY <1>2
  <2> HIDE DEF b
  <2>2. ~(b < passedAt) /\ b # -1
    BY <1>1, <2>1
  <2> QED BY <2>2 DEF b
<1> QED BY <1>3 DEF Sheddable, Unknown

\* The n longest silent of a set are of that set, and n of them or all.
LEMMA LongestFacts ==
  ASSUME NEW S \in SUBSET Mac, NEW mem, NEW n, NEW T \in Longest(S, mem, n)
  PROVE  T \subseteq S /\ (Cardinality(T) = n \/ T = S)
<1>1. T \subseteq S /\ Cardinality(T) \in {n, Cardinality(S)}
  BY DEF Longest, AtMost
<1>2. IsFiniteSet(S)
  BY FilterConstants, FS_Subset
<1> QED BY <1>1, <1>2, FS_Subset

\* "An address this batch registers can never be its own victim": what has
\* just spoken keeps its memory through the making of room, as long as no two
\* passes fall into one reading of the clock.
THEOREM SpeakersStay ==
  ASSUME Paced
  PROVE  Spec => SpeakersAreRemembered
<1>1. Init => Typed /\ Clocked
  <2>1. Init => Clocked
    BY DEF Init, Clocked
  <2> QED BY <2>1, TypedInit
<1>2. Typed /\ Clocked /\ [Next]_vars => (Typed /\ Clocked)'
  BY TypedStep, ClockedStep
<1>3. Typed /\ Clocked /\ [Next]_vars
        => [BatchCommit => \A m \in FastAdd : loaded => ports'[m] # Unknown]_vars
  <2> SUFFICES ASSUME Typed, Clocked, BatchCommit, NEW m \in FastAdd, loaded
               PROVE  ports'[m] # Unknown
    OBVIOUS
  <2>1. PICK dropped, noted, put : BatchChoice(dropped, noted, put)
    BY BatchSteps
  <2>2. dropped \subseteq Sheddable(BatchMemory)
    <3>1. Sheddable(BatchMemory) \in SUBSET Mac
      BY DEF Sheddable, Typed, TypeOK
    <3> QED BY <2>1, <3>1, LongestFacts DEF BatchChoice
  <2>3. ports' = Forget(BatchMemory, dropped)
    BY <2>1 DEF BatchChoice, BatchWrites
  <2>4. m \in Mac \ dropped /\ BatchMemory[m] # Unknown
    BY <2>2, SpeakersAreSafe, FastAddType
  <2> QED BY <2>3, <2>4, ForgetFacts, BatchMemoryType
<1> QED BY <1>1, <1>2, <1>3, PTL DEF Spec, SpeakersAreRemembered

-----------------------------------------------------------------------------
(* The valve *)

\* Nothing is refused, unreadable or cleared, and passes are paced. The driver
\* may still not answer, the memory file not be written, and the process die.
Smooth == Faults \cap {"read", "add", "delete", "reset", "flap", "quick"} = {}

\* The card is as a pass or batch has read it, the keeps are on it, and there
\* are none before the first pass.
Fitting ==
  /\ at \in {"dumped", "decided"} => snap.card = card
  /\ quiet \subseteq card
  /\ ~loaded => quiet = {}

LEMMA FittingStep ==
  ASSUME Typed, Fitting, Smooth, [Next]_vars
  PROVE  Fitting'
<1>1. CASE PassApply
  <2>1. PICK readable, owned, skip, shed, noted, put, failed :
          PassChoice(readable, owned, skip, shed, noted, put, failed)
    BY <1>1, PassSteps, Zenon
  <2>2. readable
    BY <2>1, Zenon DEF PassChoice, Readings, Smooth
  <2>3. put = (PassWanted(owned, skip) \ shed) \ snap.card
    BY <2>1, <2>2 DEF PassChoice, Smooth
  <2>4. /\ card' = (card \cup put) \ (owned \ ((PassWanted(owned, skip) \ shed) \cup failed))
        /\ quiet' = PassKept(owned, skip) \cap (PassWanted(owned, skip) \ shed)
    BY <2>1 DEF PassChoice, PassWrites
  <2>5. at = "dumped" /\ at' = "idle" /\ loaded' = TRUE
    BY <1>1, PassSteps
  <2> QED BY <2>3, <2>4, <2>5 DEF Fitting
<1>2. CASE BatchCommit
  <2>1. PICK dropped, noted, put : BatchChoice(dropped, noted, put)
    BY <1>2, BatchSteps
  <2>2. card' = (card \ dropped) \cup put /\ quiet' = quiet \ dropped
    BY <2>1 DEF BatchChoice, BatchWrites
  <2>3. at' = "idle" /\ loaded' = loaded
    BY <1>2, BatchSteps
  <2> QED BY <2>2, <2>3 DEF Fitting
<1>3. CASE PassDump
  <2>1. snap'.card = card /\ card' = card /\ quiet' = quiet /\ loaded' = loaded
    BY <1>3 DEF PassDump, carried
  <2> QED BY <2>1 DEF Fitting
<1>4. CASE PassRefused \/ Crash
  BY <1>4 DEF PassRefused, Crash, Fitting, carried
<1>5. CASE BatchTake
  BY <1>5 DEF BatchTake, Fitting, carried
<1>6. CASE BatchReflect
  <2>1. at' = "reflected" /\ loaded' = loaded
    BY <1>6 DEF BatchReflect
  <2>2. \E ours : quiet' = quiet \ ours /\ card \ ours \subseteq card'
    BY <1>6 DEF BatchReflect, Evicted
  <2> QED BY <2>1, <2>2 DEF Fitting
<1>7. CASE BatchDecide
  <2>1. at' = "decided" => snap'.card = card
    BY <1>7 DEF BatchDecide, Typed, TypeOK
  <2>2. at' \in {"decided", "idle"} /\ card' = card /\ quiet' = quiet /\ loaded' = loaded
    BY <1>7 DEF BatchDecide, carried
  <2> QED BY <2>1, <2>2 DEF Fitting
<1>8. ASSUME \/ UNCHANGED vars
             \/ \E m \in Mac : VfChange(m) \/ \E place \in Places : Appear(m, place) \/ Age(m, place)
             \/ \E p \in Port : Unplug(p)
             \/ LinkMessage \/ Foreign \/ Tick
      PROVE  Fitting'
  <2>1. UNCHANGED <<at, snap, card, quiet, loaded>>
    BY <1>8 DEF VfChange, Appear, Age, Unplug, LinkMessage, Foreign, Tick, vars, carried
  <2> QED BY <2>1 DEF Fitting
<1>9. ~DriverReset
  BY DEF DriverReset, Smooth
<1> QED BY <1>1, <1>2, <1>3, <1>4, <1>5, <1>6, <1>7, <1>8, <1>9 DEF Next, Pass, Batch

\* Cardinalities of sets of addresses.
LEMMA Counts ==
  ASSUME NEW A \in SUBSET Mac, NEW B \in SUBSET Mac, NEW S \in SUBSET A,
         NEW C \in SUBSET ((A \ S) \cup B)
  PROVE  /\ Cardinality(A) \in Nat /\ Cardinality(B) \in Nat /\ Cardinality(S) \in Nat
         /\ Cardinality(C) \in Nat
         /\ Cardinality(C) <= Cardinality(A) - Cardinality(S) + Cardinality(B)
<1>1. IsFiniteSet(A) /\ IsFiniteSet(B)
  BY FilterConstants, FS_Subset
<1>2. IsFiniteSet(S) /\ A \cap S = S
  BY <1>1, FS_Subset
<1>3. IsFiniteSet(A \ S) /\ Cardinality(A \ S) = Cardinality(A) - Cardinality(S)
  BY <1>1, <1>2, FS_Difference
<1>4. /\ IsFiniteSet((A \ S) \cup B) /\ IsFiniteSet((A \ S) \cap B)
      /\ Cardinality((A \ S) \cup B)
           = Cardinality(A \ S) + Cardinality(B) - Cardinality((A \ S) \cap B)
  BY <1>1, <1>3, FS_Union, FS_Intersection
<1>5. IsFiniteSet(C) /\ Cardinality(C) <= Cardinality((A \ S) \cup B)
  BY <1>4, FS_Subset
<1>6. /\ Cardinality(A) \in Nat /\ Cardinality(B) \in Nat /\ Cardinality(S) \in Nat
      /\ Cardinality(C) \in Nat /\ Cardinality((A \ S) \cap B) \in Nat
  BY <1>1, <1>2, <1>4, <1>5, FS_CardinalityType
<1> QED BY <1>3, <1>4, <1>5, <1>6

\* A pass that leaves the card above its allowance has surrendered every keep.
LEMMA PassOutranks ==
  ASSUME Typed, Fitting, Smooth, PassApply, Cardinality(card') + foreign > Allowed
  PROVE  Sheddable(ports)' \cap card' = {}
<1>1. PICK readable, owned, skip, shed, noted, put, failed :
        PassChoice(readable, owned, skip, shed, noted, put, failed)
  BY PassSteps, Zenon
<1> DEFINE A == PassWanted(owned, skip)
           B == snap.card \ (A \cup owned)
           K == PassKept(owned, skip)
<1>2. snap.card = card
  BY PassSteps DEF Fitting
<1>3. A \subseteq Mac /\ B \subseteq Mac /\ K \subseteq A /\ K \subseteq owned /\ K \subseteq Mac
  BY <1>1, FilterConstants
     DEF PassChoice, PassWanted, PassKept, Desired, Behind, Survivors, Typed, TypeOK
<1>4. /\ shed \in Longest(K, PassPorts(snap.live), PassOver(owned, A))
      /\ put \subseteq (A \ shed) \ snap.card
      /\ card' = (card \cup put) \ (owned \ ((A \ shed) \cup failed))
      /\ quiet' = K \cap (A \ shed)
  BY <1>1 DEF PassChoice, PassWrites
<1>5. failed = {}
  BY <1>1 DEF PassChoice, Choices, Smooth
<1>6. PassOver(owned, A) = Later(Cardinality(A) + foreign + Cardinality(B) - Allowed, 0)
  BY DEF PassOver
<1>7. shed \subseteq K /\ (Cardinality(shed) = PassOver(owned, A) \/ shed = K)
  <2> HIDE DEF A, B, K
  <2> QED BY <1>3, <1>4, LongestFacts
<1> HIDE DEF A, K
<1>8. card' \subseteq (A \ shed) \cup B
  BY <1>2, <1>3, <1>4, <1>5, <1>7
<1>9. CASE shed = K
  BY <1>4, <1>9 DEF Sheddable
<1>10. CASE Cardinality(shed) = PassOver(owned, A)
  <2> HIDE DEF B
  <2>1. /\ Cardinality(A) \in Nat /\ Cardinality(B) \in Nat /\ Cardinality(shed) \in Nat
        /\ Cardinality(card') \in Nat
        /\ Cardinality(card') <= Cardinality(A) - Cardinality(shed) + Cardinality(B)
    BY <1>3, <1>7, <1>8, Counts
  <2>2. foreign \in Nat /\ Allowed \in Int
    BY FilterConstants DEF Typed, TypeOK, Allowed, Reserve
  <2>3. Cardinality(shed) >= Cardinality(A) + foreign + Cardinality(B) - Allowed
    BY <1>6, <1>10, <2>1, <2>2 DEF Later
  <2> QED BY <2>1, <2>2, <2>3
<1> QED BY <1>7, <1>9, <1>10

\* A batch that leaves the card above its allowance has surrendered every keep
\* that has not spoken since the last pass.
LEMMA BatchOutranks ==
  ASSUME Typed, Clocked, Fitting, Smooth, BatchCommit, FastAdd # {},
         Cardinality(card') + foreign > Allowed
  PROVE  Sheddable(ports)' \cap card' = {}
<1>1. PICK dropped, noted, put : BatchChoice(dropped, noted, put)
  BY BatchSteps
<1>2. dropped \in Longest(Sheddable(BatchMemory), BatchMemory, BatchOver)
  BY <1>1 DEF BatchChoice, Smooth
<1>3. Sheddable(BatchMemory) \subseteq quiet /\ quiet \subseteq card /\ card \subseteq Mac
  BY DEF Sheddable, Fitting, Typed, TypeOK
<1>4. /\ dropped \subseteq Sheddable(BatchMemory)
      /\ Cardinality(dropped) = BatchOver \/ dropped = Sheddable(BatchMemory)
  BY <1>2, <1>3, LongestFacts
<1>5. dropped \cap FastAdd = {}
  BY <1>3, <1>4, SpeakersAreSafe DEF Fitting
<1>6. /\ card' = (card \ dropped) \cup put /\ put \subseteq FastAdd
      /\ quiet' = quiet \ dropped /\ ports' = Forget(BatchMemory, dropped)
      /\ passedAt' = passedAt
  BY <1>1, BatchSteps DEF BatchChoice, BatchWrites
<1>7. CASE dropped = Sheddable(BatchMemory)
  <2>1. \A m \in quiet \ dropped : ports'[m] = BatchMemory[m]
    BY <1>3, <1>6, ForgetFacts, BatchMemoryType
  <2> QED BY <1>6, <1>7, <2>1 DEF Sheddable
<1>8. CASE Cardinality(dropped) = BatchOver
  <2> DEFINE A == card \cup FastAdd
  <2>1. snap.card = card
    BY BatchSteps DEF Fitting
  <2>2. BatchOver = Later(Cardinality(A) + foreign - Allowed, 0)
    BY <2>1 DEF BatchOver
  <2>3. A \subseteq Mac /\ dropped \subseteq A /\ card' \subseteq (A \ dropped) \cup {}
    BY <1>3, <1>4, <1>5, <1>6, FastAddType
  <2> HIDE DEF A
  <2>4. /\ Cardinality(A) \in Nat /\ Cardinality(dropped) \in Nat /\ Cardinality(card') \in Nat
        /\ Cardinality(card') <= Cardinality(A) - Cardinality(dropped) + Cardinality({})
    BY <2>3, Counts
  <2>5. Cardinality({}) = 0
    BY FS_EmptySet
  <2>6. foreign \in Nat /\ Allowed \in Int
    BY FilterConstants DEF Typed, TypeOK, Allowed, Reserve
  <2>7. Cardinality(dropped) >= Cardinality(A) + foreign - Allowed
    BY <1>8, <2>2, <2>4, <2>6 DEF Later
  <2> QED BY <2>4, <2>5, <2>6, <2>7
<1> QED BY <1>4, <1>7, <1>8

\* New learns outrank the quiet: a pass, or a batch that registers, leaves the
\* card above its allowance only when no keep is left on it that its valve
\* could have surrendered - for every size of the card, every share of it that
\* is other people's, and although the driver may refuse to answer, the memory
\* file may not be written and the daemon may die at any moment.
THEOREM ValvesMakeRoom ==
  ASSUME Smooth
  PROVE  Spec => NewOutranksQuiet
<1> Paced
  BY DEF Smooth, Paced
<1> DEFINE Inv == Typed /\ Clocked /\ Fitting
<1>1. Init => Inv
  <2>1. Init => Clocked
    BY DEF Init, Clocked
  <2>2. Init => Fitting
    BY DEF Init, Fitting
  <2> QED BY <2>1, <2>2, TypedInit
<1>2. Inv /\ [Next]_vars => Inv'
  BY TypedStep, ClockedStep, FittingStep
<1>3. Inv /\ [Next]_vars
        => [/\ PassApply \/ (BatchCommit /\ FastAdd # {})
            /\ Cardinality(card') + foreign > Allowed
            => Sheddable(ports)' \cap card' = {}]_vars
  BY PassOutranks, BatchOutranks
<1> QED BY <1>1, <1>2, <1>3, PTL DEF Spec, NewOutranksQuiet

-----------------------------------------------------------------------------
(* The memory of guests *)

\* The driver answers and the memory file can be written.
Recorded == "refuse" \notin Faults /\ "save" \notin Faults

\* There is room for all addresses and for other people's entries.
Roomy == Cardinality(Mac) + MaxForeign <= Allowed

Batching == {"taken", "reflected", "decided"}

\* What the file is held to say is what it says, of the ports that live on;
\* the note has every entry of the card; ports only go; and no batch comes
\* before the first pass.
Grounds ==
  /\ ~loaded => written = NoMemo
  /\ loaded => \A m \in Mac : written[m] # "none" => file[m] # Unknown
  /\ loaded /\ written # NoMemo =>
       \A m \in Mac : written[m] = "none" => file[m] = Unknown \/ Home[m] \notin live
  /\ card \subseteq note
  /\ at = "dumped" => live \subseteq snap.live
  /\ at \in Batching => loaded

\* A guest is noted and remembered, a seen one in the file too; nothing has
\* been learnt, told or snapshot that speaks against it.
Vouched(m) ==
  /\ "wire" \notin fdb[m] /\ <<m, "wire">> \notin learns
  /\ m \notin vf /\ m \notin known /\ Home[m] \in live
  /\ m \in note
  /\ m \in Pinned \/ (IF loaded THEN ports[m] ELSE file[m]) # Unknown
  /\ guest[m] = "seen" => m \in Pinned \/ file[m] # Unknown
  /\ ~loaded => guest[m] = "seen"
  /\ at = "dumped" => "wire" \notin snap.fdb[m] /\ Home[m] \in snap.live
  /\ at \in Batching => <<m, "wire">> \notin snap.heard /\ Home[m] \in snap.live

\* What has gone to the wire is nowhere behind the bridge, and forgotten: in
\* the process, and in the file unless its port is gone.
Departed(m) ==
  /\ m \notin Pinned /\ "behind" \notin fdb[m] /\ <<m, "behind">> \notin learns
  /\ loaded => ports[m] = Unknown
  /\ file[m] = Unknown \/ Home[m] \notin live
  /\ at = "dumped" => /\ "behind" \notin snap.fdb[m]
                      /\ file[m] = Unknown \/ Home[m] \notin snap.live
  /\ at \in Batching => <<m, "behind">> \notin snap.heard

Guests == \A m \in Mac : guest[m] \in {"registered", "seen"} => Vouched(m)
Movers == \A m \in Mac : guest[m] = "away" => Departed(m)

\* What a pass reads of the file is what it says of the ports it has found.
LEMMA LoadFacts ==
  ASSUME file \in Memory, now \in Stamp, NEW L, NEW m \in Mac
  PROVE  LoadPorts(L)[m] # Unknown <=> file[m] # Unknown /\ Home[m] \in L
<1> DEFINE read == Forget(file, {k \in Mac : Home[k] \notin L})
           ahead == Later(Newest(read) - now, 0)
<1>1. read \in Memory /\ (read[m] # Unknown <=> file[m] # Unknown /\ Home[m] \in L)
  BY ForgetFacts
<1>2. LoadPorts(L)[m] = IF read[m] = Unknown THEN Unknown ELSE Later(read[m] - ahead, 0)
  BY DEF LoadPorts
<1> HIDE DEF read
<1>3. read[m] # Unknown => Later(read[m] - ahead, 0) # Unknown
  <2> SUFFICES ASSUME read[m] # Unknown PROVE Later(read[m] - ahead, 0) # Unknown
    OBVIOUS
  <2>1. Newest(read) - now \in Int
    BY <1>1, NewestFacts DEF Stamp, Unknown
  <2>2. ahead \in Int
    BY <2>1, LaterFacts
  <2> HIDE DEF ahead
  <2> DEFINE d == read[m] - ahead
  <2>3. d \in Int
    BY <1>1, <2>2 DEF Memory, Stamp, Unknown
  <2> HIDE DEF d
  <2>4. Later(d, 0) # -1
    BY <2>3 DEF Later
  <2> QED BY <2>4 DEF d, Unknown
<1> QED BY <1>1, <1>2, <1>3

\* So is what it then holds the file to say.
LEMMA PassMemoFacts ==
  ASSUME Typed, Grounds, NEW L, live \subseteq L, NEW m \in Mac
  PROVE  /\ PassMemo(L)[m] # "none" => file[m] # Unknown
         /\ PassMemo(L) # NoMemo /\ PassMemo(L)[m] = "none"
              => file[m] = Unknown \/ Home[m] \notin live
<1>1. CASE loaded
  BY <1>1 DEF PassMemo, Grounds
<1>2. CASE ~loaded /\ LoadPorts(L) = Blank
  BY <1>2 DEF PassMemo, Grounds, NoMemo
<1>3. CASE ~loaded /\ LoadPorts(L) # Blank
  <2> DEFINE mem == LoadPorts(L)
  <2>1. PassMemo(L) = Memo(mem, L, Newest(mem))
    BY <1>3 DEF PassMemo
  <2>2. mem[m] # Unknown <=> file[m] # Unknown /\ Home[m] \in L
    BY LoadFacts DEF Typed, TypeOK
  <2> HIDE DEF mem
  <2>3. PassMemo(L)[m] = "none" <=> mem[m] = Unknown \/ Home[m] \notin L
    BY <2>1 DEF Memo
  <2> QED BY <2>2, <2>3
<1> QED BY <1>1, <1>2, <1>3

\* Writing the memory down, or finding it written: the file has what is
\* remembered under a living port and nothing that is forgotten, but for the
\* lines of dead ports, and is held to say that.
LEMMA SaveFacts ==
  ASSUME Recorded, file \in Memory, NEW memo \in Memos, NEW mem \in Memory, NEW L, NEW stamp,
         SavePorts(memo, mem, L, stamp),
         \A m \in Mac : memo[m] # "none" => file[m] # Unknown,
         memo # NoMemo => \A m \in Mac : memo[m] = "none" => file[m] = Unknown \/ Home[m] \notin live,
         NEW m \in Mac
  PROVE  /\ written'[m] # "none" => file'[m] # Unknown
         /\ written' # NoMemo /\ written'[m] = "none" => file'[m] = Unknown \/ Home[m] \notin live
         /\ mem[m] # Unknown /\ Home[m] \in L => file'[m] # Unknown
         /\ mem[m] = Unknown => file'[m] = Unknown \/ Home[m] \notin live
<1> DEFINE keys == Memo(mem, L, stamp)
           kept == Forget(mem, {k \in Mac : Home[k] \notin L})
<1>1. keys[m] = "none" <=> mem[m] = Unknown \/ Home[m] \notin L
  BY DEF Memo
<1>2. kept[m] = Unknown <=> mem[m] = Unknown \/ Home[m] \notin L
  BY ForgetFacts
<1>3. \/ /\ keys = memo /\ (file = Blank <=> keys = NoMemo)
         /\ written' = memo /\ file' = file
      \/ /\ file' = kept /\ written' = keys
  BY Zenon DEF SavePorts, Recorded
<1> HIDE DEF keys, kept
<1>4. CASE /\ keys = memo /\ (file = Blank <=> keys = NoMemo)
           /\ written' = memo /\ file' = file
  <2>1. keys = NoMemo => file[m] = Unknown
    BY <1>4 DEF Blank
  <2> QED BY <1>1, <1>4, <2>1
<1>5. CASE file' = kept /\ written' = keys
  BY <1>1, <1>2, <1>5
<1> QED BY <1>3, <1>4, <1>5

-----------------------------------------------------------------------------
(* A pass and its guests *)

\* Where there is room for all a valve takes nothing.
LEMMA NothingToSpare ==
  ASSUME Typed, Roomy, NEW A \in SUBSET Mac, NEW B \in SUBSET Mac, A \cap B = {},
         NEW K \in SUBSET Mac, NEW mem,
         NEW T \in Longest(K, mem, Later(Cardinality(A) + foreign + Cardinality(B) - Allowed, 0))
  PROVE  T = {}
<1>1. IsFiniteSet(A) /\ IsFiniteSet(B) /\ IsFiniteSet(K)
  BY FilterConstants, FS_Subset
<1>2. Cardinality(A \cup B) = Cardinality(A) + Cardinality(B)
  <2>1. Cardinality(A \cup B) = Cardinality(A) + Cardinality(B) - Cardinality(A \cap B)
    BY <1>1, FS_Union
  <2>2. Cardinality(A \cap B) = 0
    BY FS_EmptySet
  <2>3. Cardinality(A) \in Nat /\ Cardinality(B) \in Nat
    BY <1>1, FS_CardinalityType
  <2> QED BY <2>1, <2>2, <2>3
<1>3. Cardinality(A \cup B) <= Cardinality(Mac)
  BY FilterConstants, FS_Subset
<1>4. /\ Cardinality(A) \in Nat /\ Cardinality(B) \in Nat /\ Cardinality(Mac) \in Nat
      /\ Cardinality(K) \in Nat /\ foreign \in Nat /\ foreign <= MaxForeign
      /\ Allowed \in Int /\ MaxForeign \in Nat
  BY <1>1, FilterConstants, FS_CardinalityType DEF Typed, TypeOK, Allowed, Reserve
<1>5. Later(Cardinality(A) + foreign + Cardinality(B) - Allowed, 0) = 0
  BY <1>2, <1>3, <1>4 DEF Later, Roomy
<1>6. T \in Longest(K, mem, 0)
  BY <1>5
<1>7. T \subseteq K /\ Cardinality(T) = AtMost(0, K)
  BY <1>6 DEF Longest
<1>8. AtMost(0, K) = 0
  BY <1>4 DEF AtMost
<1> QED BY <1>1, <1>7, <1>8, FS_Subset, FS_EmptySet

\* What a pass drops none of: a guest it has on its note is wanted.
LEMMA GuestsAreWanted ==
  ASSUME Typed, Grounds, at = "dumped", NEW m \in Mac, Vouched(m), NEW owned, m \in owned,
         NEW skip, m \notin skip
  PROVE  m \in PassWanted(owned, skip)
<1>1. "wire" \notin snap.fdb[m] /\ Home[m] \in snap.live
  BY DEF Vouched
<1>2. m \notin OnWire(snap.fdb)
  BY <1>1 DEF OnWire
<1>3. m \in Pinned \/ PassPorts(snap.live)[m] # Unknown
  <2>1. CASE loaded
    BY <2>1 DEF Vouched, PassPorts
  <2>2. CASE ~loaded
    BY <1>1, <2>2, LoadFacts DEF Vouched, PassPorts, Typed, TypeOK
  <2> QED BY <2>1, <2>2
<1>4. CASE m \in Desired(snap.fdb, snap.live, skip)
  BY <1>4 DEF PassWanted
<1>5. CASE m \notin Desired(snap.fdb, snap.live, skip)
  <2>1. m \notin Pinned
    BY <1>2, <1>5 DEF Desired
  <2>2. m \in PassKept(owned, skip)
    BY <1>1, <1>2, <1>3, <1>5, <2>1 DEF PassKept, Survivors
  <2> QED BY <2>2 DEF PassWanted
<1> QED BY <1>4, <1>5

\* And what has departed is not wanted.
LEMMA MoversAreNotWanted ==
  ASSUME Typed, Grounds, at = "dumped", NEW m \in Mac, Departed(m), NEW owned, NEW skip
  PROVE  /\ m \notin PassWanted(owned, skip) /\ m \notin PassKept(owned, skip)
         /\ PassPorts(snap.live)[m] = Unknown /\ m \notin Behind(snap.fdb, snap.live)
<1>1. m \notin Behind(snap.fdb, snap.live)
  BY DEF Behind, Departed
<1>2. PassPorts(snap.live)[m] = Unknown
  BY LoadFacts DEF Departed, PassPorts, Typed, TypeOK
<1>3. m \notin PassKept(owned, skip)
  BY <1>2 DEF PassKept, Survivors
<1> QED BY <1>1, <1>2, <1>3 DEF PassWanted, Desired, Departed

\* What a pass remembers: of what it still owns, what has spoken and what it
\* remembered already, unless its removal has failed.
LEMMA AfterFacts ==
  ASSUME NEW mem \in Memory, NEW failed, NEW spoken, NEW stamp \in Stamp, NEW out, NEW m \in Mac
  PROVE  LET after == Forget(Seen(Forget(mem, failed), spoken, stamp), out)
         IN  /\ m \in out => after[m] = Unknown
             /\ m \notin out /\ m \in spoken => after[m] # Unknown
             /\ m \notin out \cup failed /\ mem[m] # Unknown => after[m] # Unknown
             /\ m \notin spoken /\ (mem[m] = Unknown \/ m \in failed) => after[m] = Unknown
<1> DEFINE a == Forget(mem, failed)
           b == Seen(a, spoken, stamp)
           after == Forget(b, out)
<1>1. /\ a \in Memory /\ (m \in failed => a[m] = Unknown)
      /\ m \notin failed => a[m] = mem[m]
  BY ForgetFacts
<1> HIDE DEF a
<1>2. /\ b \in Memory /\ (m \in spoken \/ a[m] # Unknown => b[m] # Unknown)
      /\ m \notin spoken => b[m] = a[m]
  BY <1>1, SeenFacts
<1> HIDE DEF b
<1>3. (m \in out => after[m] = Unknown) /\ (m \notin out => after[m] = b[m])
  BY <1>2, ForgetFacts
<1> QED BY <1>1, <1>2, <1>3 DEF a, b

\* What a pass leaves, for each address, of what it has read and decided.
PassLeaves(owned, skip, want, put, failed) ==
  LET kept == owned \ (owned \ (want \cup failed)) IN
  /\ owned = note /\ skip \in {vf, known} /\ put \subseteq want \ snap.card
  /\ failed \subseteq owned \ want /\ ("delete" \notin Faults => failed = {})
  /\ card' = (card \cup put) \ (owned \ (want \cup failed))
  /\ kept \cup put \subseteq note' /\ card' \subseteq note'
  /\ known' = skip /\ guest' = [m \in Mac |->
                 IF m \in Innocent(want \cap Behind(snap.fdb, snap.live) \cap card') THEN "seen"
                 ELSE IF m \in Innocent(put) THEN "registered"
                 ELSE IF m \in Elsewhere(owned \cap OnWire(snap.fdb)) THEN "away"
                 ELSE guest[m]]
  /\ \A m \in Mac :
       /\ m \notin kept \cup put => ports'[m] = Unknown
       /\ m \in kept \cup put /\ m \in Behind(snap.fdb, snap.live) => ports'[m] # Unknown
       /\ m \in (kept \cup put) \ failed /\ PassPorts(snap.live)[m] # Unknown
            => ports'[m] # Unknown
       /\ /\ m \notin Behind(snap.fdb, snap.live)
          /\ PassPorts(snap.live)[m] = Unknown \/ m \in failed
          => ports'[m] = Unknown
       /\ ports'[m] # Unknown /\ Home[m] \in snap.live => file'[m] # Unknown
       /\ ports'[m] = Unknown => file'[m] = Unknown \/ Home[m] \notin live

\* A pass that could not read the note leaves all but its carried answer and
\* what it has loaded of the file.
PassLooks(skip) ==
  /\ skip \in {vf, known} /\ known' = skip
  /\ UNCHANGED <<card, note, file, guest>> /\ ports' = PassPorts(snap.live)

LEMMA PassOutcome ==
  ASSUME Typed, Grounds, Recorded, PassApply
  PROVE  /\ \/ \E skip : PassLooks(skip)
            \/ \E owned, skip, shed, put, failed :
                 /\ shed \in Longest(PassKept(owned, skip), PassPorts(snap.live),
                                     PassOver(owned, PassWanted(owned, skip)))
                 /\ PassLeaves(owned, skip, PassWanted(owned, skip) \ shed, put, failed)
         /\ \A m \in Mac : /\ written'[m] # "none" => file'[m] # Unknown
                           /\ written' # NoMemo /\ written'[m] = "none"
                                => file'[m] = Unknown \/ Home[m] \notin live
         /\ card' \subseteq note'
<1>1. PICK readable, owned, skip, shed, noted, put, failed :
        PassChoice(readable, owned, skip, shed, noted, put, failed)
  BY PassSteps, Zenon
<1> DEFINE want == PassWanted(owned, skip) \ shed
           dropped == owned \ (want \cup failed)
           after == Forget(Seen(Forget(PassPorts(snap.live), failed),
                                Behind(snap.fdb, snap.live), PassStamp),
                           Mac \ ((owned \cup put) \ dropped))
<1>2. at = "dumped" /\ live \subseteq snap.live
  BY PassSteps DEF Grounds
<1>3. /\ owned = (IF readable THEN note ELSE {}) /\ skip \in {vf, known}
      /\ shed \in Longest(PassKept(owned, skip), PassPorts(snap.live),
                          PassOver(owned, PassWanted(owned, skip)))
      /\ failed \in Choices("delete", owned \ want)
      /\ noted \subseteq want \ snap.card /\ put \subseteq noted /\ (~readable => noted = {})
      /\ PassWrites(readable, owned, skip, want, noted, put, failed)
  BY <1>1 DEF PassChoice
<1>4. /\ PassPorts(snap.live) \in Memory /\ PassMemo(snap.live) \in Memos
      /\ PassStamp \in Stamp /\ file \in Memory
  BY <1>2, PassPortsType, PassMemoType, StampType DEF Typed, TypeOK, Memos
<1>5. \A m \in Mac :
        /\ PassMemo(snap.live)[m] # "none" => file[m] # Unknown
        /\ PassMemo(snap.live) # NoMemo /\ PassMemo(snap.live)[m] = "none"
             => file[m] = Unknown \/ Home[m] \notin live
  BY <1>2, PassMemoFacts
<1>6. failed \subseteq owned \ want /\ ("delete" \notin Faults => failed = {})
  BY <1>3 DEF Choices
<1> HIDE DEF want
<1>7. /\ card' = (card \cup put) \ dropped /\ note' = (note \cup noted) \ dropped
      /\ known' = skip
  BY <1>3 DEF PassWrites
<1>8. card' \subseteq note'
  BY <1>3, <1>7 DEF Grounds
<1>9. CASE ~readable
  <2>1. ports' = PassPorts(snap.live) /\ written' = PassMemo(snap.live) /\ UNCHANGED <<file, guest>>
    BY <1>3, <1>9 DEF PassWrites
  <2>2. UNCHANGED <<card, note>>
    BY <1>3, <1>7, <1>9
  <2>3. PassLooks(skip)
    BY <1>3, <1>7, <2>1, <2>2 DEF PassLooks
  <2> QED BY <1>5, <1>8, <2>1, <2>3
<1>10. CASE readable
  <2>1. /\ ports' = after
        /\ SavePorts(PassMemo(snap.live), after, snap.live, PassStamp)
        /\ guest' = [m \in Mac |->
              IF m \in Innocent(want \cap Behind(snap.fdb, snap.live) \cap card') THEN "seen"
              ELSE IF m \in Innocent(put) THEN "registered"
              ELSE IF m \in Elsewhere(owned \cap OnWire(snap.fdb)) THEN "away"
              ELSE guest[m]]
    BY <1>3, <1>10 DEF PassWrites
  <2> DEFINE out == Mac \ ((owned \cup put) \ dropped)
             kept == owned \ dropped
  <2>2. after \in Memory
    BY <1>4, ForgetFacts, SeenFacts
  <2>3. \A m \in Mac :
          /\ m \in out => after[m] = Unknown
          /\ m \notin out /\ m \in Behind(snap.fdb, snap.live) => after[m] # Unknown
          /\ m \notin out \cup failed /\ PassPorts(snap.live)[m] # Unknown => after[m] # Unknown
          /\ m \notin Behind(snap.fdb, snap.live) /\ (PassPorts(snap.live)[m] = Unknown \/ m \in failed)
               => after[m] = Unknown
    <3> HIDE DEF dropped
    <3> QED BY <1>4, AfterFacts
  <2> HIDE DEF after
  <2>4. \A m \in Mac :
          /\ written'[m] # "none" => file'[m] # Unknown
          /\ written' # NoMemo /\ written'[m] = "none" => file'[m] = Unknown \/ Home[m] \notin live
          /\ after[m] # Unknown /\ Home[m] \in snap.live => file'[m] # Unknown
          /\ after[m] = Unknown => file'[m] = Unknown \/ Home[m] \notin live
    BY <1>4, <1>5, <2>1, <2>2, SaveFacts
  <2>5. kept \cup put \subseteq note' /\ owned = note
    BY <1>3, <1>7, <1>10
  <2>6. \A m \in Mac : m \in out <=> m \notin kept \cup put
    BY <1>3
  <2>7. PassLeaves(owned, skip, want, put, failed)
    <3>1. \A m \in Mac :
       /\ m \notin kept \cup put => ports'[m] = Unknown
       /\ m \in kept \cup put /\ m \in Behind(snap.fdb, snap.live) => ports'[m] # Unknown
       /\ m \in (kept \cup put) \ failed /\ PassPorts(snap.live)[m] # Unknown
            => ports'[m] # Unknown
       /\ /\ m \notin Behind(snap.fdb, snap.live)
          /\ PassPorts(snap.live)[m] = Unknown \/ m \in failed
          => ports'[m] = Unknown
       /\ ports'[m] # Unknown /\ Home[m] \in snap.live => file'[m] # Unknown
       /\ ports'[m] = Unknown => file'[m] = Unknown \/ Home[m] \notin live
      <4> HIDE DEF out, kept
      <4> QED BY <2>1, <2>3, <2>4, <2>6
    <3>2. put \subseteq want \ snap.card
      BY <1>3
    <3> QED BY <1>3, <1>6, <1>7, <1>8, <2>1, <2>5, <3>1, <3>2 DEF PassLeaves
  <2> QED BY <1>3, <1>8, <2>4, <2>7 DEF want
<1> QED BY <1>9, <1>10, <1>1 DEF PassChoice, Readings

-----------------------------------------------------------------------------
(* The steps of a pass *)

LEMMA GroundsPass ==
  ASSUME Typed, Grounds, Recorded, PassApply
  PROVE  Grounds'
<1>1. /\ \A m \in Mac : /\ written'[m] # "none" => file'[m] # Unknown
                        /\ written' # NoMemo /\ written'[m] = "none"
                             => file'[m] = Unknown \/ Home[m] \notin live
      /\ card' \subseteq note'
  BY PassOutcome
<1>2. live' = live /\ loaded' = TRUE /\ at' = "idle"
  BY PassSteps DEF world
<1> QED BY <1>1, <1>2 DEF Grounds, Batching

LEMMA MoversPass ==
  ASSUME Typed, Grounds, Recorded, Movers, PassApply
  PROVE  Movers'
<1>1. at = "dumped" /\ at' = "idle" /\ loaded' = TRUE /\ UNCHANGED <<world, events>>
  BY PassSteps
<1> SUFFICES ASSUME NEW m \in Mac, guest'[m] = "away" PROVE Departed(m)'
  BY DEF Movers
<1>2. SUFFICES /\ m \notin Pinned /\ "behind" \notin fdb[m] /\ <<m, "behind">> \notin learns
               /\ ports'[m] = Unknown
               /\ file'[m] = Unknown \/ Home[m] \notin live
  BY <1>1 DEF Departed, world, events, Batching
<1>3. guest[m] = "away" => /\ Departed(m)
                           /\ PassPorts(snap.live)[m] = Unknown
                           /\ m \notin Behind(snap.fdb, snap.live)
  BY <1>1, MoversAreNotWanted DEF Movers
<1>4. CASE \E skip : PassLooks(skip)
  BY <1>3, <1>4 DEF PassLooks, Departed
<1>5. ASSUME NEW owned, NEW skip, NEW shed, NEW put, NEW failed,
             PassLeaves(owned, skip, PassWanted(owned, skip) \ shed, put, failed)
      PROVE  /\ m \notin Pinned /\ "behind" \notin fdb[m] /\ <<m, "behind">> \notin learns
             /\ ports'[m] = Unknown
             /\ file'[m] = Unknown \/ Home[m] \notin live
  <2> DEFINE want == PassWanted(owned, skip) \ shed
             kept == owned \ (owned \ (want \cup failed))
  <2>1. guest[m] = "away" \/ m \in Elsewhere(owned \cap OnWire(snap.fdb))
    BY <1>5 DEF PassLeaves
  <2>2. /\ m \notin kept \cup put => ports'[m] = Unknown
        /\ /\ m \notin Behind(snap.fdb, snap.live)
           /\ PassPorts(snap.live)[m] = Unknown \/ m \in failed
           => ports'[m] = Unknown
        /\ ports'[m] = Unknown => file'[m] = Unknown \/ Home[m] \notin live
        /\ put \subseteq want
    BY <1>5 DEF PassLeaves
  <2>3. CASE guest[m] = "away"
    BY <1>3, <2>2, <2>3 DEF Departed
  <2>4. CASE m \in Elsewhere(owned \cap OnWire(snap.fdb))
    <3>1. /\ m \notin Pinned /\ "behind" \notin fdb[m] /\ <<m, "behind">> \notin learns
          /\ m \notin Behind(snap.fdb, snap.live) /\ m \in OnWire(snap.fdb)
      BY <2>4 DEF Elsewhere, Behind
    <3>2. m \notin want
      BY <3>1 DEF PassWanted, PassKept, Desired, Survivors
    <3> QED BY <2>2, <3>1, <3>2
  <2> QED BY <2>1, <2>3, <2>4
<1> QED BY <1>4, <1>5, PassOutcome, Zenon

LEMMA GuestsPass ==
  ASSUME Typed, Grounds, Recorded, Roomy, Guests, PassApply
  PROVE  /\ Guests'
         /\ \A m \in Mac : guest[m] \in {"registered", "seen"} => ~Unregistered(m)
<1>1. at = "dumped" /\ at' = "idle" /\ loaded' = TRUE /\ UNCHANGED <<world, events>>
  BY PassSteps
<1>2. CASE \E skip : PassLooks(skip)
  <2>1. PICK skip : PassLooks(skip)
    BY <1>2
  <2>2. ASSUME NEW m \in Mac, guest'[m] \in {"registered", "seen"} PROVE Vouched(m)'
    <3>1. Vouched(m)
      BY <2>1, <2>2 DEF PassLooks, Guests
    <3>2. m \in Pinned \/ ports'[m] # Unknown
      <4>1. CASE loaded
        BY <2>1, <3>1, <4>1 DEF PassLooks, PassPorts, Vouched
      <4>2. CASE ~loaded
        <5>1. Home[m] \in snap.live /\ (m \in Pinned \/ file[m] # Unknown)
          BY <1>1, <3>1, <4>2 DEF Vouched
        <5>2. PassPorts(snap.live) = LoadPorts(snap.live)
          BY <4>2 DEF PassPorts
        <5> QED BY <2>1, <5>1, <5>2, LoadFacts DEF PassLooks, Typed, TypeOK
      <4> QED BY <4>1, <4>2
    <3> QED BY <1>1, <2>1, <3>1, <3>2 DEF PassLooks, Vouched, world, events, Batching
  <2>3. card' = card
    BY <2>1 DEF PassLooks
  <2> QED BY <2>2, <2>3 DEF Guests, Unregistered
<1>3. ASSUME NEW owned, NEW skip, NEW shed, NEW put, NEW failed,
             shed \in Longest(PassKept(owned, skip), PassPorts(snap.live),
                              PassOver(owned, PassWanted(owned, skip))),
             PassLeaves(owned, skip, PassWanted(owned, skip) \ shed, put, failed)
      PROVE  /\ Guests'
             /\ \A m \in Mac : guest[m] \in {"registered", "seen"} => ~Unregistered(m)
  <2> DEFINE want == PassWanted(owned, skip)
             kept == owned \ (owned \ (want \cup failed))
             rest == snap.card \ (want \cup owned)
  <2>1. owned = note /\ skip \in {vf, known}
    BY <1>3 DEF PassLeaves
  <2>2. /\ want \subseteq Mac /\ rest \subseteq Mac /\ want \cap rest = {}
        /\ PassKept(owned, skip) \subseteq Mac
    BY <2>1, FilterConstants DEF PassWanted, PassKept, Desired, Behind, Survivors, Typed, TypeOK
  <2>3. shed = {}
    <3>1. PassOver(owned, want) = Later(Cardinality(want) + foreign + Cardinality(rest) - Allowed, 0)
      BY DEF PassOver
    <3> HIDE DEF want, rest
    <3>2. shed \in Longest(PassKept(owned, skip), PassPorts(snap.live),
                           Later(Cardinality(want) + foreign + Cardinality(rest) - Allowed, 0))
      BY <1>3, <3>1 DEF want
    <3> QED BY <2>2, <3>2, NothingToSpare
  <2>4. PassLeaves(owned, skip, want, put, failed)
    <3>1. want \ shed = want
      BY <2>3
    <3> QED BY <1>3, <3>1
  <2> HIDE DEF want
  <2>5. /\ put \subseteq want /\ failed \subseteq owned \ want
        /\ card' = (card \cup put) \ (owned \ (want \cup failed))
        /\ kept \cup put \subseteq note' /\ known' = skip
    BY <2>4 DEF PassLeaves
  <2>6. \A m \in Mac : guest[m] \in {"registered", "seen"} => m \in want /\ Vouched(m)
    <3> TAKE m \in Mac
    <3> HAVE guest[m] \in {"registered", "seen"}
    <3>1. Vouched(m)
      BY DEF Guests
    <3>2. m \in owned /\ m \notin skip
      BY <2>1, <3>1 DEF Vouched
    <3> QED BY <1>1, <3>1, <3>2, GuestsAreWanted DEF want
  <2>7. \A m \in Mac : guest[m] \in {"registered", "seen"} => ~Unregistered(m)
    BY <2>5, <2>6 DEF Unregistered
  <2>8. ASSUME NEW m \in Mac, guest'[m] \in {"registered", "seen"} PROVE Vouched(m)'
    <3>1. /\ guest'[m] = "seen" \/ guest'[m] = "registered"
          /\ \/ guest'[m] = guest[m]
             \/ /\ guest'[m] = "seen"
                /\ m \in Innocent(want \cap Behind(snap.fdb, snap.live) \cap card')
             \/ guest'[m] = "registered" /\ m \in Innocent(put)
      BY <2>4, <2>8 DEF PassLeaves
    <3>2. /\ m \in want /\ m \in kept \cup put
          /\ "wire" \notin fdb[m] /\ <<m, "wire">> \notin learns /\ m \notin vf /\ Home[m] \in live
          /\ m \notin skip
          /\ guest'[m] = "seen" => Home[m] \in snap.live
      <4>1. CASE guest'[m] = guest[m]
        <5>1. Vouched(m) /\ m \in want
          BY <2>6, <2>8, <4>1
        <5> QED BY <1>1, <2>1, <5>1 DEF Vouched
      <4>2. CASE m \in Innocent(want \cap Behind(snap.fdb, snap.live) \cap card')
        <5>1. m \notin skip
          BY <4>2 DEF Innocent, want, PassWanted, PassKept, Desired, Survivors
        <5>2. m \in kept \cup put
          BY <2>1, <2>5, <4>2 DEF Innocent, Grounds
        <5> QED BY <4>2, <5>1, <5>2 DEF Innocent, Behind
      <4>3. CASE guest'[m] = "registered" /\ m \in Innocent(put)
        <5>1. m \in want
          BY <2>5, <4>3 DEF Innocent
        <5>2. m \notin skip
          BY <5>1 DEF want, PassWanted, PassKept, Desired, Survivors
        <5> QED BY <4>3, <5>1, <5>2 DEF Innocent
      <4> QED BY <3>1, <4>1, <4>2, <4>3
    <3>3. m \in Pinned \/ ports'[m] # Unknown
      <4>1. \/ m \in Pinned \/ m \in Behind(snap.fdb, snap.live)
            \/ PassPorts(snap.live)[m] # Unknown
        BY <3>2 DEF want, PassWanted, PassKept, Desired, Survivors
      <4>2. m \notin failed
        BY <2>5, <3>2
      <4> QED BY <2>4, <3>2, <4>1, <4>2 DEF PassLeaves
    <3>4. guest'[m] = "seen" => m \in Pinned \/ file'[m] # Unknown
      BY <2>4, <3>2, <3>3 DEF PassLeaves
    <3> QED BY <1>1, <2>5, <3>2, <3>3, <3>4 DEF Vouched, world, events, Batching
  <2> QED BY <2>7, <2>8 DEF Guests
<1> QED BY <1>2, <1>3, PassOutcome, Zenon

-----------------------------------------------------------------------------
(* The steps of a batch *)

LEMMA BatchTakeSteps ==
  ASSUME Typed, Recorded, BatchTake
  PROVE  /\ at = "idle" /\ loaded /\ learns' = {}
         /\ UNCHANGED <<world, card, note, disk, loaded, carried, lastPassAt, guest>>
         /\ \A m \in Mac : ports'[m] = Unknown <=> ports[m] = Unknown
         /\ known' \in {vf, known}
         /\ \/ at' = "idle"
            \/ at' = "taken" /\ snap'.live = live /\ snap'.heard = learns
<1>1. /\ at = "idle" /\ loaded /\ learns' = {} /\ known' \in {vf, known}
      /\ UNCHANGED <<world, card, note, disk, loaded, carried, lastPassAt, guest>>
  BY DEF BatchTake, Recorded, driver
<1>2. \A m \in Mac : ports'[m] = Unknown <=> ports[m] = Unknown
  <2>1. Later(now - Ageing, 0) \in Stamp
    BY FilterConstants DEF Later, Typed, TypeOK, Stamp
  <2>2. ports' = Seen(ports, {k \in gone : ports[k] # Unknown}, Later(now - Ageing, 0))
    BY DEF BatchTake, DateTheSilence
  <2> QED BY <2>1, <2>2, SeenFacts DEF Typed, TypeOK
<1>3. \/ at' = "idle"
      \/ at' = "taken" /\ snap'.live = live /\ snap'.heard = learns
  BY DEF BatchTake, Idle
<1> QED BY <1>1, <1>2, <1>3

\* A reflection takes ours that were heard on the wire out of the memory, and
\* out of the card and the note where the card lets them go.
ReflectLeaves(ours, failed) ==
  /\ ours \subseteq note \cap HeardOnWire /\ failed \subseteq ours
  /\ card' = card \ (ours \ failed) /\ note' = note \ (ours \ failed)
  /\ ports' = Forget(ports, ours)
  /\ IF ours # {} /\ loaded THEN SavePorts(written, ports', snap.live, passedAt)
                            ELSE UNCHANGED disk
  /\ guest' = [m \in Mac |-> IF m \in Elsewhere(ours) THEN "away" ELSE guest[m]]

LEMMA ReflectSteps ==
  ASSUME BatchReflect
  PROVE  /\ at = "taken" /\ at' = "reflected"
         /\ UNCHANGED <<world, events, loaded, passedAt, lastPassAt, driver, snap, theirs>>
         /\ \E ours, failed : ReflectLeaves(ours, failed)
<1>1. PICK readable \in Readings :
     LET ours == IF readable THEN note \cap HeardOnWire ELSE {}
     IN  \E failed \in Choices("delete", ours) :
         /\ card' = card \ (ours \ failed) /\ note' = note \ (ours \ failed)
         /\ ports' = Forget(ports, Evicted(ours, failed))
         /\ quiet' = quiet \ Evicted(ours, failed)
         /\ wire' = wire \cup ((ours \ failed) \cap card)
         /\ IF ours # {} /\ loaded THEN SavePorts(written, ports', snap.live, passedAt)
                                  ELSE UNCHANGED disk
         /\ guest' = [m \in Mac |-> IF m \in Elsewhere(ours) THEN "away" ELSE guest[m]]
  BY Zenon DEF BatchReflect
<1> DEFINE ours == IF readable THEN note \cap HeardOnWire ELSE {}
<1>2. PICK failed \in Choices("delete", ours) :
         /\ card' = card \ (ours \ failed) /\ note' = note \ (ours \ failed)
         /\ ports' = Forget(ports, Evicted(ours, failed))
         /\ quiet' = quiet \ Evicted(ours, failed)
         /\ wire' = wire \cup ((ours \ failed) \cap card)
         /\ IF ours # {} /\ loaded THEN SavePorts(written, ports', snap.live, passedAt)
                                  ELSE UNCHANGED disk
         /\ guest' = [m \in Mac |-> IF m \in Elsewhere(ours) THEN "away" ELSE guest[m]]
  BY <1>1, Zenon
<1>3. ours \subseteq note \cap HeardOnWire
  OBVIOUS
<1> HIDE DEF ours
<1>4. ReflectLeaves(ours, failed)
  BY <1>2, <1>3 DEF ReflectLeaves, Choices, Evicted
<1> QED BY <1>4, Zenon DEF BatchReflect

\* The memory file across a step of a batch that may have written it.
LEMMA BatchSaves ==
  ASSUME Typed, Grounds, Recorded, loaded, NEW mem \in Memory,
         \/ SavePorts(written, mem, snap.live, passedAt)
         \/ UNCHANGED disk
  PROVE  \A m \in Mac :
           /\ written'[m] # "none" => file'[m] # Unknown
           /\ written' # NoMemo /\ written'[m] = "none" => file'[m] = Unknown \/ Home[m] \notin live
           /\ file[m] # Unknown /\ mem[m] # Unknown /\ Home[m] \in snap.live => file'[m] # Unknown
           /\ mem[m] = Unknown /\ (SavePorts(written, mem, snap.live, passedAt)
                                     \/ file[m] = Unknown \/ Home[m] \notin live)
                => file'[m] = Unknown \/ Home[m] \notin live
<1>1. file \in Memory /\ written \in Memos
  BY DEF Typed, TypeOK, Memos
<1>2. /\ \A m \in Mac : written[m] # "none" => file[m] # Unknown
      /\ written # NoMemo => \A m \in Mac : written[m] = "none" => file[m] = Unknown \/ Home[m] \notin live
  BY DEF Grounds
<1>3. CASE SavePorts(written, mem, snap.live, passedAt)
  BY <1>1, <1>2, <1>3, SaveFacts
<1>4. CASE UNCHANGED disk /\ ~SavePorts(written, mem, snap.live, passedAt)
  <2>1. file' = file /\ written' = written
    BY <1>4 DEF disk
  <2> QED BY <1>2, <1>4, <2>1
<1> QED BY <1>3, <1>4

LEMMA GroundsBatch ==
  ASSUME Typed, Grounds, Recorded, Batch
  PROVE  Grounds'
<1>1. CASE BatchTake
  <2>1. UNCHANGED <<live, loaded, written, file, card, note>>
    BY <1>1, BatchTakeSteps DEF world, disk
  <2>2. at' \in {"idle", "taken"} /\ loaded
    BY <1>1, BatchTakeSteps
  <2> QED BY <2>1, <2>2 DEF Grounds
<1>2. CASE BatchReflect
  <2>1. PICK ours, failed : ReflectLeaves(ours, failed)
    BY <1>2, ReflectSteps
  <2>2. at' = "reflected" /\ loaded /\ loaded' = loaded /\ live' = live
    BY <1>2, ReflectSteps DEF Grounds, Batching, world
  <2>3. ports' \in Memory
    BY <2>1, ForgetFacts DEF ReflectLeaves, Typed, TypeOK
  <2>4. SavePorts(written, ports', snap.live, passedAt) \/ UNCHANGED disk
    BY <2>1 DEF ReflectLeaves
  <2>5. \A m \in Mac :
           /\ written'[m] # "none" => file'[m] # Unknown
           /\ written' # NoMemo /\ written'[m] = "none" => file'[m] = Unknown \/ Home[m] \notin live
    BY <2>2, <2>3, <2>4, BatchSaves
  <2>6. card' \subseteq note'
    BY <2>1 DEF ReflectLeaves, Grounds
  <2> QED BY <2>2, <2>5, <2>6 DEF Grounds
<1>3. CASE BatchDecide
  <2>1. UNCHANGED <<live, loaded, written, file, card, note>> /\ loaded /\ at' # "dumped"
    BY <1>3 DEF BatchDecide, world, disk, Grounds, Batching
  <2> QED BY <2>1 DEF Grounds
<1>4. CASE BatchCommit
  <2>1. PICK dropped, noted, put : BatchChoice(dropped, noted, put)
    BY <1>4, BatchSteps
  <2>2. at' = "idle" /\ loaded /\ loaded' = loaded /\ live' = live
    BY <1>4, BatchSteps DEF Grounds, Batching, world
  <2>3. ports' \in Memory
    BY <1>4, TypedBatchCommit DEF Typed, TypeOK
  <2>4. SavePorts(written, ports', snap.live, passedAt) \/ UNCHANGED disk
    BY <2>1 DEF BatchChoice, BatchWrites
  <2>5. \A m \in Mac :
           /\ written'[m] # "none" => file'[m] # Unknown
           /\ written' # NoMemo /\ written'[m] = "none" => file'[m] = Unknown \/ Home[m] \notin live
    BY <2>2, <2>3, <2>4, BatchSaves
  <2>6. card' \subseteq note'
    BY <2>1 DEF BatchChoice, BatchWrites, Grounds
  <2> QED BY <2>2, <2>5, <2>6 DEF Grounds, Batching
<1> QED BY <1>1, <1>2, <1>3, <1>4 DEF Batch

LEMMA MoversBatch ==
  ASSUME Typed, Grounds, Recorded, Movers, Batch
  PROVE  Movers'
<1> SUFFICES ASSUME NEW m \in Mac, guest'[m] = "away" PROVE Departed(m)'
  BY DEF Movers
<1>1. CASE BatchTake
  <2>1. /\ UNCHANGED <<fdb, live, file, guest>> /\ at = "idle" /\ loaded /\ loaded' /\ learns' = {}
        /\ (ports'[m] = Unknown <=> ports[m] = Unknown)
        /\ \/ at' = "idle"
           \/ at' = "taken" /\ snap'.heard = learns
    BY <1>1, BatchTakeSteps DEF world, disk
  <2>2. Departed(m)
    BY <2>1 DEF Movers
  <2> QED BY <2>1, <2>2 DEF Departed, Batching
<1>2. CASE BatchReflect
  <2>1. PICK ours, failed : ReflectLeaves(ours, failed)
    BY <1>2, ReflectSteps
  <2>2. /\ at = "taken" /\ at' = "reflected" /\ loaded /\ loaded' = loaded
        /\ UNCHANGED <<fdb, live, learns, snap>>
    BY <1>2, ReflectSteps DEF Grounds, Batching, world, events
  <2>3. ports' \in Memory /\ ports' = Forget(ports, ours)
    BY <2>1, ForgetFacts DEF ReflectLeaves, Typed, TypeOK
  <2>4. SavePorts(written, ports', snap.live, passedAt) \/ UNCHANGED disk
    BY <2>1 DEF ReflectLeaves
  <2>5. ports'[m] = Unknown /\ (SavePorts(written, ports', snap.live, passedAt)
                                  \/ file[m] = Unknown \/ Home[m] \notin live)
          => file'[m] = Unknown \/ Home[m] \notin live
    BY <2>2, <2>3, <2>4, BatchSaves
  <2>6. guest[m] = "away" \/ m \in Elsewhere(ours)
    BY <2>1 DEF ReflectLeaves
  <2>7. CASE guest[m] = "away"
    <3>1. Departed(m)
      BY <2>7 DEF Movers
    <3>2. ports'[m] = Unknown
      BY <2>2, <2>3, <3>1, ForgetFacts DEF Departed, Typed, TypeOK
    <3> QED BY <2>2, <2>5, <3>1, <3>2 DEF Departed, Batching
  <2>8. CASE m \in Elsewhere(ours)
    <3>1. m \in ours /\ m \notin Pinned /\ "behind" \notin fdb[m]
          /\ <<m, "behind">> \notin learns /\ <<m, "behind">> \notin snap.heard
      BY <2>8 DEF Elsewhere
    <3>2. ports'[m] = Unknown
      BY <2>3, <3>1, ForgetFacts DEF Typed, TypeOK
    <3>3. SavePorts(written, ports', snap.live, passedAt)
      BY <2>1, <2>2, <3>1 DEF ReflectLeaves
    <3> QED BY <2>2, <2>5, <3>1, <3>2, <3>3 DEF Departed, Batching
  <2> QED BY <2>6, <2>7, <2>8
<1>3. CASE BatchDecide
  <2>1. /\ UNCHANGED <<fdb, live, learns, file, ports, loaded, guest>> /\ at = "reflected"
        /\ \/ at' = "decided" /\ snap'.heard = snap.heard
           \/ at' = "idle"
    BY <1>3 DEF BatchDecide, world, events, disk, Typed, TypeOK
  <2>2. Departed(m)
    BY <2>1 DEF Movers
  <2> QED BY <2>1, <2>2 DEF Departed, Batching
<1>4. CASE BatchCommit
  <2>1. PICK dropped, noted, put : BatchChoice(dropped, noted, put)
    BY <1>4, BatchSteps
  <2>2. /\ at = "decided" /\ at' = "idle" /\ loaded /\ loaded' = loaded
        /\ UNCHANGED <<fdb, live, learns>>
    BY <1>4, BatchSteps DEF Grounds, Batching, world, events
  <2>3. /\ ports' = Forget(BatchMemory, dropped) /\ guest[m] = "away"
        /\ SavePorts(written, ports', snap.live, passedAt) \/ UNCHANGED disk
    BY <2>1 DEF BatchChoice, BatchWrites
  <2>4. Departed(m)
    BY <2>3 DEF Movers
  <2>5. m \notin FastAdd
    BY <2>2, <2>4 DEF Departed, Batching, FastAdd, HeardBehind
  <2>6. BatchMemory[m] = Unknown
    <3>1. BatchMemory = Seen(ports, FastAdd, now)
      BY <2>2 DEF BatchMemory
    <3>2. Seen(ports, FastAdd, now)[m] = ports[m]
      BY <2>5, SeenFacts DEF Typed, TypeOK
    <3> QED BY <2>2, <2>4, <3>1, <3>2 DEF Departed
  <2>7. ports'[m] = Unknown /\ ports' \in Memory
    BY <2>3, <2>6, BatchMemoryType, ForgetFacts
  <2>8. file'[m] = Unknown \/ Home[m] \notin live
    BY <2>2, <2>3, <2>4, <2>7, BatchSaves DEF Departed
  <2> QED BY <2>2, <2>4, <2>7, <2>8 DEF Departed, Batching
<1> QED BY <1>1, <1>2, <1>3, <1>4 DEF Batch

LEMMA GuestsBatch ==
  ASSUME Typed, Grounds, Recorded, Roomy, Guests, Batch
  PROVE  /\ Guests'
         /\ \A m \in Mac : guest[m] \in {"registered", "seen"} => ~Unregistered(m)
<1> SUFFICES ASSUME NEW m \in Mac
             PROVE  /\ guest'[m] \in {"registered", "seen"} => Vouched(m)'
                    /\ guest[m] \in {"registered", "seen"} => ~Unregistered(m)
  BY DEF Guests
<1>1. CASE BatchTake
  <2>1. /\ UNCHANGED <<fdb, live, vf, file, note, card, guest>> /\ loaded /\ loaded' /\ learns' = {}
        /\ at = "idle" /\ known' \in {vf, known}
        /\ (ports'[m] = Unknown <=> ports[m] = Unknown)
        /\ \/ at' = "idle"
           \/ at' = "taken" /\ snap'.heard = learns /\ snap'.live = live
    BY <1>1, BatchTakeSteps DEF world, disk
  <2>2. guest[m] \in {"registered", "seen"} => Vouched(m)
    BY DEF Guests
  <2> QED BY <2>1, <2>2 DEF Vouched, Batching, Unregistered
<1>2. CASE BatchReflect
  <2>1. PICK ours, failed : ReflectLeaves(ours, failed)
    BY <1>2, ReflectSteps
  <2>2. /\ at = "taken" /\ at' = "reflected" /\ loaded /\ loaded' = loaded
        /\ UNCHANGED <<fdb, live, vf, learns, known, snap>>
    BY <1>2, ReflectSteps DEF Grounds, Batching, world, events, driver
  <2>3. ports' \in Memory /\ ports' = Forget(ports, ours)
    BY <2>1, ForgetFacts DEF ReflectLeaves, Typed, TypeOK
  <2>4. SavePorts(written, ports', snap.live, passedAt) \/ UNCHANGED disk
    BY <2>1 DEF ReflectLeaves
  <2>5. file[m] # Unknown /\ ports'[m] # Unknown /\ Home[m] \in snap.live => file'[m] # Unknown
    BY <2>2, <2>3, <2>4, BatchSaves
  <2>6. ASSUME guest[m] \in {"registered", "seen"}
        PROVE  Vouched(m) /\ m \notin ours /\ ports'[m] = ports[m]
    <3>1. Vouched(m)
      BY <2>6 DEF Guests
    <3>2. m \notin ours
      BY <2>1, <2>2, <3>1 DEF ReflectLeaves, HeardOnWire, Vouched, Batching
    <3> QED BY <2>3, <3>1, <3>2, ForgetFacts DEF Typed, TypeOK
  <2>7. guest[m] \in {"registered", "seen"} => ~Unregistered(m)
    BY <2>1, <2>6 DEF ReflectLeaves, Unregistered
  <2>8. ASSUME guest'[m] \in {"registered", "seen"} PROVE Vouched(m)'
    <3>1. guest'[m] = guest[m]
      BY <2>1, <2>8 DEF ReflectLeaves
    <3>2. m \in note => m \in note' \/ m \in ours
      BY <2>1 DEF ReflectLeaves
    <3>3. Vouched(m) /\ m \notin ours /\ ports'[m] = ports[m]
      BY <2>6, <2>8, <3>1
    <3>4. m \in Pinned \/ ports'[m] # Unknown
      BY <2>2, <3>3 DEF Vouched
    <3>5. guest'[m] = "seen" => m \in Pinned \/ file'[m] # Unknown
      BY <2>2, <2>5, <3>1, <3>3, <3>4 DEF Vouched, Batching
    <3> QED BY <2>2, <3>1, <3>2, <3>3, <3>4, <3>5 DEF Vouched, Batching
  <2> QED BY <2>7, <2>8
<1>3. CASE BatchDecide
  <2>1. /\ UNCHANGED <<fdb, live, vf, learns, file, note, card, ports, loaded, guest>>
        /\ at = "reflected" /\ known' \in {vf, known}
        /\ \/ at' = "decided" /\ snap'.heard = snap.heard /\ snap'.live = snap.live
           \/ at' = "idle"
    BY <1>3 DEF BatchDecide, world, events, disk, driver, Typed, TypeOK
  <2>2. guest[m] \in {"registered", "seen"} => Vouched(m)
    BY DEF Guests
  <2> QED BY <2>1, <2>2 DEF Vouched, Batching, Unregistered
<1>4. CASE BatchCommit
  <2>1. PICK dropped, noted, put : BatchChoice(dropped, noted, put)
    BY <1>4, BatchSteps
  <2>2. /\ at = "decided" /\ at' = "idle" /\ loaded /\ loaded' = loaded
        /\ UNCHANGED <<fdb, live, vf, learns, known>>
    BY <1>4, BatchSteps DEF Grounds, Batching, world, events, driver
  <2>3. dropped = {}
    <3>1. ASSUME NEW shed \in Longest(Sheddable(BatchMemory), BatchMemory, BatchOver)
          PROVE  shed = {}
      <4> DEFINE A == IF FastAdd = {} THEN {}
                      ELSE (IF snap.carried THEN snap.card ELSE card) \cup FastAdd
      <4>1. A \subseteq Mac /\ Sheddable(BatchMemory) \subseteq Mac
        BY FastAddType DEF Typed, TypeOK, Sheddable
      <4>2. Cardinality({}) = 0 /\ foreign \in Nat
        BY FS_EmptySet DEF Typed, TypeOK
      <4>3. CASE FastAdd = {}
        <5>1. BatchOver = 0
          BY <4>3 DEF BatchOver
        <5>2. shed \subseteq Sheddable(BatchMemory)
              /\ Cardinality(shed) = AtMost(0, Sheddable(BatchMemory))
          BY <5>1 DEF Longest
        <5>3. IsFiniteSet(Sheddable(BatchMemory)) /\ IsFiniteSet(shed)
          BY <4>1, <5>2, FilterConstants, FS_Subset
        <5>4. AtMost(0, Sheddable(BatchMemory)) = 0
          BY <5>3, FS_CardinalityType DEF AtMost
        <5> QED BY <5>2, <5>3, <5>4, FS_EmptySet
      <4>4. CASE FastAdd # {}
        <5>1. BatchOver = Later(Cardinality(A) + foreign + Cardinality({}) - Allowed, 0)
          <6>1. Cardinality(A) \in Nat /\ Allowed \in Int
            BY <4>1, FilterConstants, FS_Subset, FS_CardinalityType DEF Allowed, Reserve
          <6>2. BatchOver = Later(Cardinality(A) + foreign - Allowed, 0)
            BY <4>4 DEF BatchOver
          <6>3. Cardinality(A) + foreign + Cardinality({}) - Allowed = Cardinality(A) + foreign - Allowed
            BY <4>2, <6>1
          <6> QED BY <6>2, <6>3
        <5> HIDE DEF A
        <5>2. shed \in Longest(Sheddable(BatchMemory), BatchMemory,
                               Later(Cardinality(A) + foreign + Cardinality({}) - Allowed, 0))
          BY <5>1
        <5> QED BY <4>1, <5>2, NothingToSpare
      <4> QED BY <4>3, <4>4
    <3> QED BY <2>1, <3>1 DEF BatchChoice
  <2>4. /\ ports' = Forget(BatchMemory, dropped) /\ card \subseteq card' /\ note \cup noted \subseteq note'
        /\ UNCHANGED disk
        /\ guest'[m] = IF m \in Innocent(put) /\ guest[m] = "no" THEN "registered" ELSE guest[m]
    BY <2>1, <2>3 DEF BatchChoice, BatchWrites
  <2>5. ports'[m] = BatchMemory[m]
    BY <2>3, <2>4, BatchMemoryType, ForgetFacts
  <2>6. m \in FastAdd \/ ports[m] # Unknown => ports'[m] # Unknown
    <3>1. BatchMemory = Seen(ports, FastAdd, now)
      BY <2>2 DEF BatchMemory
    <3> QED BY <2>5, <3>1, SeenFacts DEF Typed, TypeOK
  <2>7. guest[m] \in {"registered", "seen"} => ~Unregistered(m)
    BY <2>4 DEF Unregistered
  <2>8. ASSUME guest'[m] \in {"registered", "seen"} PROVE Vouched(m)'
    <3>1. CASE guest[m] \in {"registered", "seen"}
      <4>1. Vouched(m) /\ guest'[m] = guest[m]
        BY <2>4, <3>1 DEF Guests
      <4>2. m \in Pinned \/ ports'[m] # Unknown
        BY <2>2, <2>6, <4>1 DEF Vouched
      <4>3. m \in note' /\ file' = file
        BY <2>4, <4>1 DEF Vouched, disk
      <4> QED BY <2>2, <4>1, <4>2, <4>3 DEF Vouched, Batching
    <3>2. CASE guest[m] \notin {"registered", "seen"}
      <4>1. guest'[m] = "registered" /\ m \in Innocent(put)
        BY <2>4, <2>8, <3>2
      <4>2. m \in FastAdd /\ m \in noted
        BY <2>1, <4>1 DEF Innocent, BatchChoice
      <4>3. m \notin known
        BY <4>2 DEF FastAdd
      <4> QED BY <2>2, <2>4, <2>6, <4>1, <4>2, <4>3 DEF Vouched, Innocent, Batching
    <3> QED BY <3>1, <3>2
  <2> QED BY <2>7, <2>8
<1> QED BY <1>1, <1>2, <1>3, <1>4 DEF Batch

-----------------------------------------------------------------------------
(* The steps of the world, and the process's death *)

LEMMA GroundsRest ==
  ASSUME Typed, Grounds, Recorded, UNCHANGED vars \/ (Next /\ ~PassApply /\ ~Batch)
  PROVE  Grounds'
<1>1. CASE PassDump
  <2>1. /\ UNCHANGED <<live, loaded, written, file, card, note>>
        /\ at' = "dumped" /\ snap'.live = live
    BY <1>1 DEF PassDump, world, disk
  <2> QED BY <2>1 DEF Grounds, Batching
<1>2. ~PassRefused
  BY DEF PassRefused, Recorded
<1>3. CASE Crash
  BY <1>3 DEF Crash, Grounds, Batching, world
<1>4. ASSUME \/ UNCHANGED vars
             \/ \E m \in Mac : VfChange(m) \/ \E place \in Places : Appear(m, place) \/ Age(m, place)
             \/ \E p \in Port : Unplug(p)
             \/ LinkMessage \/ Foreign \/ DriverReset \/ Tick
      PROVE  Grounds'
  <2>1. /\ UNCHANGED <<loaded, written, file, note, at, snap>>
        /\ live' \subseteq live /\ card' \subseteq card
    BY <1>4 DEF VfChange, Appear, Age, Unplug, LinkMessage, Foreign, DriverReset, Tick,
                vars, world, disk, events, carried, driver
  <2> QED BY <2>1 DEF Grounds
<1> QED BY <1>1, <1>2, <1>3, <1>4 DEF Next, Pass

LEMMA MoversRest ==
  ASSUME Typed, Grounds, Recorded, Movers, UNCHANGED vars \/ (Next /\ ~PassApply /\ ~Batch)
  PROVE  Movers'
<1> SUFFICES ASSUME NEW m \in Mac, guest'[m] = "away" PROVE Departed(m)'
  BY DEF Movers
<1>1. CASE PassDump
  <2>1. /\ UNCHANGED <<fdb, live, learns, file, ports, loaded, guest>>
        /\ at' = "dumped" /\ snap'.live = live /\ snap'.fdb = fdb
    BY <1>1 DEF PassDump, world, events, disk
  <2>2. Departed(m)
    BY <2>1 DEF Movers
  <2> QED BY <2>1, <2>2 DEF Departed, Batching
<1>2. ~PassRefused
  BY DEF PassRefused, Recorded
<1>3. CASE Crash
  <2>1. UNCHANGED <<fdb, live, file>> /\ learns' = {} /\ loaded' = FALSE /\ at' = "idle"
        /\ guest[m] = "away"
    BY <1>3 DEF Crash, world, Typed, TypeOK
  <2>2. Departed(m)
    BY <2>1 DEF Movers
  <2> QED BY <2>1, <2>2 DEF Departed, Batching
<1>4. ASSUME NEW k \in Mac, NEW place \in Places, Appear(k, place) PROVE Departed(m)'
  <2>1. UNCHANGED <<live, loaded, file, ports, at, snap>>
    BY <1>4 DEF Appear, disk
  <2>2. CASE m = k
    <3>1. guest[m] = "away" /\ place = "wire"
      BY <1>4, <2>2 DEF Appear, Typed, TypeOK
    <3>2. Departed(m)
      BY <3>1 DEF Movers
    <3>3. "behind" \notin fdb'[m] /\ <<m, "behind">> \notin learns'
      BY <1>4, <2>2, <3>1, <3>2 DEF Appear, Departed, Typed, TypeOK
    <3> QED BY <2>1, <3>2, <3>3 DEF Departed
  <2>3. CASE m # k
    <3>1. guest[m] = "away" /\ fdb'[m] = fdb[m] /\ (<<m, "behind">> \in learns' <=> <<m, "behind">> \in learns)
      BY <1>4, <2>3 DEF Appear, Typed, TypeOK
    <3> QED BY <2>1, <3>1 DEF Departed, Movers
  <2> QED BY <2>2, <2>3
<1>5. ASSUME \/ UNCHANGED vars
             \/ \E k \in Mac : VfChange(k) \/ \E place \in Places : Age(k, place)
             \/ \E p \in Port : Unplug(p)
             \/ LinkMessage \/ Foreign \/ DriverReset \/ Tick
      PROVE  Departed(m)'
  <2>1. /\ UNCHANGED <<loaded, file, ports, learns, at, snap>> /\ live' \subseteq live
    BY <1>5 DEF VfChange, Age, Unplug, LinkMessage, Foreign, DriverReset, Tick,
                vars, world, disk, events, carried, driver
  <2>2. fdb'[m] \subseteq fdb[m]
    BY <1>5 DEF VfChange, Age, Unplug, LinkMessage, Foreign, DriverReset, Tick,
                vars, world, Typed, TypeOK
  <2>3. guest[m] = "away"
    BY <1>5 DEF VfChange, Age, Unplug, LinkMessage, Foreign, DriverReset, Tick,
                vars, Typed, TypeOK
  <2> QED BY <2>1, <2>2, <2>3 DEF Departed, Movers
<1> QED BY <1>1, <1>2, <1>3, <1>4, <1>5 DEF Next, Pass

LEMMA GuestsRest ==
  ASSUME Typed, Grounds, Recorded, Guests, UNCHANGED vars \/ (Next /\ ~PassApply /\ ~Batch)
  PROVE  Guests'
<1> SUFFICES ASSUME NEW m \in Mac, guest'[m] \in {"registered", "seen"} PROVE Vouched(m)'
  BY DEF Guests
<1>1. CASE PassDump
  <2>1. /\ UNCHANGED <<fdb, live, vf, learns, file, note, ports, known, loaded, guest>>
        /\ at' = "dumped" /\ snap'.live = live /\ snap'.fdb = fdb
    BY <1>1 DEF PassDump, world, events, disk, driver
  <2>2. Vouched(m)
    BY <2>1 DEF Guests
  <2> QED BY <2>1, <2>2 DEF Vouched, Batching
<1>2. ~PassRefused
  BY DEF PassRefused, Recorded
<1>3. CASE Crash
  <2>1. UNCHANGED <<fdb, live, vf, file, note>> /\ learns' = {} /\ known' = {}
        /\ loaded' = FALSE /\ at' = "idle" /\ guest[m] = "seen" /\ guest'[m] = "seen"
    BY <1>3 DEF Crash, world, Typed, TypeOK
  <2>2. Vouched(m)
    BY <2>1 DEF Guests
  <2> QED BY <2>1, <2>2 DEF Vouched, Batching
<1>4. ASSUME NEW k \in Mac, NEW place \in Places, Appear(k, place) PROVE Vouched(m)'
  <2>1. UNCHANGED <<live, vf, loaded, file, note, ports, known, at, snap>>
    BY <1>4 DEF Appear, disk, driver
  <2>2. CASE m = k
    <3>1. guest'[m] = guest[m] /\ place = "behind"
      BY <1>4, <2>2 DEF Appear, Typed, TypeOK, Places
    <3>2. Vouched(m)
      BY <3>1 DEF Guests
    <3>3. "wire" \notin fdb'[m] /\ <<m, "wire">> \notin learns'
      BY <1>4, <2>2, <3>1, <3>2 DEF Appear, Vouched, Typed, TypeOK
    <3> QED BY <2>1, <3>1, <3>2, <3>3 DEF Vouched
  <2>3. CASE m # k
    <3>1. guest'[m] = guest[m] /\ fdb'[m] = fdb[m] /\ (<<m, "wire">> \in learns' <=> <<m, "wire">> \in learns)
      BY <1>4, <2>3 DEF Appear, Typed, TypeOK
    <3> QED BY <2>1, <3>1 DEF Vouched, Guests
  <2> QED BY <2>2, <2>3
<1>5. ASSUME NEW k \in Mac, VfChange(k) PROVE Vouched(m)'
  <2>1. UNCHANGED <<fdb, live, learns, loaded, file, note, ports, known, at, snap>>
    BY <1>5 DEF VfChange, disk, events, driver
  <2>2. m # k /\ guest'[m] = guest[m]
    BY <1>5 DEF VfChange, Typed, TypeOK
  <2>3. m \in vf' <=> m \in vf
    BY <1>5, <2>2 DEF VfChange
  <2> QED BY <2>1, <2>2, <2>3 DEF Vouched, Guests
<1>6. ASSUME NEW p \in Port, Unplug(p) PROVE Vouched(m)'
  <2>1. UNCHANGED <<vf, learns, loaded, file, note, ports, known, at, snap>> /\ live' = live \ {p}
    BY <1>6 DEF Unplug, disk, driver
  <2>2. Home[m] # p /\ guest'[m] = guest[m] /\ fdb'[m] \subseteq fdb[m]
    BY <1>6 DEF Unplug, Typed, TypeOK
  <2> QED BY <2>1, <2>2 DEF Vouched, Guests
<1>7. ASSUME \/ UNCHANGED vars
             \/ \E k \in Mac : \E place \in Places : Age(k, place)
             \/ LinkMessage \/ Foreign \/ DriverReset \/ Tick
      PROVE  Vouched(m)'
  <2>1. UNCHANGED <<live, vf, learns, loaded, file, note, ports, known, at, snap, guest>>
    BY <1>7 DEF Age, LinkMessage, Foreign, DriverReset, Tick, vars, world, disk, events, driver
  <2>2. fdb'[m] \subseteq fdb[m]
    BY <1>7 DEF Age, LinkMessage, Foreign, DriverReset, Tick, vars, world, Typed, TypeOK
  <2> QED BY <2>1, <2>2 DEF Vouched, Guests
<1> QED BY <1>1, <1>2, <1>3, <1>4, <1>5, <1>6, <1>7 DEF Next, Pass

LEMMA GroundsStep ==
  ASSUME Typed, Grounds, Recorded, [Next]_vars
  PROVE  Grounds'
  BY GroundsPass, GroundsBatch, GroundsRest

LEMMA GroundsInit ==
  ASSUME Init
  PROVE  Grounds /\ Movers /\ Guests
  BY DEF Init, Grounds, Movers, Guests, Batching

\* Ageing is not news about the device: a registered guest that neither the
\* wire nor a function has claimed, and whose port lives on, keeps its entry
\* through silence - and, once a pass has seen it, through restarts - for any
\* number of addresses the card has room for, although writes, removals and
\* readings of the note fail and the driver clears its list.
THEOREM GuestsStay ==
  ASSUME Recorded, Roomy
  PROVE  Spec => RegisteredStays
<1> DEFINE Inv == Typed /\ Grounds /\ Guests
<1>1. Init => Inv
  BY TypedInit, GroundsInit
<1>2. Inv /\ [Next]_vars => Inv'
  BY TypedStep, GroundsStep, GuestsPass, GuestsBatch, GuestsRest
<1>3. Inv /\ [Next]_vars
        => [Pass \/ Batch => \A m \in Mac : guest[m] \in {"registered", "seen"}
                                              => ~Unregistered(m)]_vars
  <2>1. PassDump \/ PassRefused => card' = card
    BY DEF PassDump, PassRefused
  <2>2. card' = card => \A m \in Mac : ~Unregistered(m)
    BY DEF Unregistered
  <2> QED BY <2>1, <2>2, GuestsPass, GuestsBatch DEF Pass
<1> QED BY <1>1, <1>2, <1>3, PTL DEF Spec, RegisteredStays

\* What the wire took out does not come back through the memory: an address of
\* ours that was found on the wire, and nowhere behind the bridge, is neither
\* registered nor kept again until it is learnt behind the bridge, whatever the
\* wire's evidence does and although its removal fails and the daemon dies.
THEOREM MoversStayOut ==
  ASSUME Recorded
  PROVE  Spec => AwayStaysOut
<1> DEFINE Inv == Typed /\ Grounds /\ Movers
<1>1. Init => Inv
  BY TypedInit, GroundsInit
<1>2. Inv /\ [Next]_vars => Inv'
  BY TypedStep, GroundsStep, MoversPass, MoversBatch, MoversRest
<1>3. Inv /\ [Next]_vars
        => [\A m \in (card' \ card) \cup (quiet' \ quiet) : guest[m] # "away"]_vars
  <2> SUFFICES ASSUME Inv, Next, NEW m \in (card' \ card) \cup (quiet' \ quiet),
                      guest[m] = "away"
               PROVE  FALSE
    OBVIOUS
  <2>1. m \in Mac
    BY TypedStep DEF Typed, TypeOK
  <2>2. Departed(m)
    BY <2>1 DEF Movers
  <2>3. CASE PassApply
    <3>1. PICK readable, owned, skip, shed, noted, put, failed :
            PassChoice(readable, owned, skip, shed, noted, put, failed)
      BY <2>3, PassSteps, Zenon
    <3>2. m \in PassWanted(owned, skip) \/ m \in PassKept(owned, skip)
      BY <3>1 DEF PassChoice, PassWrites
    <3> QED BY <2>1, <2>2, <2>3, <3>2, PassSteps, MoversAreNotWanted
  <2>4. CASE BatchCommit
    <3>1. PICK dropped, noted, put : BatchChoice(dropped, noted, put)
      BY <2>4, BatchSteps
    <3>2. m \in FastAdd
      BY <3>1 DEF BatchChoice, BatchWrites
    <3>3. at = "decided"
      BY <2>4, BatchSteps
    <3> QED BY <2>2, <3>2, <3>3 DEF FastAdd, HeardBehind, Departed, Batching
  <2>5. CASE BatchReflect
    BY <2>5 DEF BatchReflect
  <2>6. CASE ~PassApply /\ ~BatchCommit /\ ~BatchReflect
    <3>1. card' \subseteq card /\ quiet' \subseteq quiet
      BY <2>6 DEF Next, Pass, Batch, PassDump, PassRefused, BatchTake, BatchDecide, Crash,
                  VfChange, Appear, Age, Unplug, LinkMessage, Foreign, DriverReset, Tick, carried
    <3> QED BY <3>1
  <2> QED BY <2>3, <2>4, <2>5, <2>6
<1> QED BY <1>1, <1>2, <1>3, PTL DEF Spec, AwayStaysOut
=============================================================================
