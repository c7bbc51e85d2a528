------------------------------- MODULE Filter -------------------------------
(***************************************************************************)
(* What a pass (reconcile) and a batch (fast_apply) decide for one uplink: *)
(* which addresses belong into its filter, which that have fallen silent   *)
(* are kept and which of them are surrendered when room runs short, and    *)
(* when the driver has to be asked about the virtual functions first.      *)
(*                                                                         *)
(* The forwarding table, the functions and the clock move between the      *)
(* steps of a pass or batch.  Writing the card and the note is one step    *)
(* here; what happens inside it is in Ownership, when passes run is in     *)
(* Daemon.  The addresses that are never registered whatever happens (the  *)
(* host's own, multicast, the operator's exclusions) are not in Mac.       *)
(***************************************************************************)
EXTENDS Integers, FiniteSets

CONSTANTS
  Mac,        \* addresses
  Port,       \* bridge ports other than the uplink's, as interface indices
  Home,       \* the port each address is behind when it is behind one
  Pinned,     \* addresses pinned by configuration (extra)
  Limit,      \* limit_of the card
  Ageing,     \* the bridge's ageing time
  MaxForeign, \* bound: other people's entries in the card
  MaxStamp,   \* bound: the boot clock, and so the number of passes
  World,      \* what the world does, see AllWorld
  Faults      \* what goes wrong, see AllFaults

\* "wire"    an address is learnt on the uplink's own port
\* "vf"      a virtual function takes an address or gives it up, silently
\* "unplug"  a port goes, and its index with it
\* "foreign" somebody else fills the card or empties it
\* "link"    a link message says that a function may have changed
AllWorld == {"wire", "vf", "unplug", "foreign", "link"}

\* "read"   the note cannot be read
\* "add"    the note refuses a batch, or the card an address
\* "delete" the card refuses to let an address go
\* "save"   the memory file cannot be written
\* "refuse" the driver does not answer
\* "reset"  the driver clears its list while the daemon waits
\* "flap"   the driver clears its list at any time
\* "crash"  the daemon dies and is started again
\* "quick"  two passes start within one reading of the clock
AllFaults == {"read", "add", "delete", "save", "refuse", "reset", "flap",
              "crash", "quick"}

ASSUME FilterConstants ==
  /\ Home \in [Mac -> Port] /\ Pinned \subseteq Mac /\ IsFiniteSet(Mac)
  /\ Limit \in Nat \ {0} /\ Ageing \in Nat /\ MaxForeign \in Nat /\ MaxStamp \in Nat \ {0}
  /\ World \subseteq AllWorld /\ Faults \subseteq AllFaults

VARIABLES
  fdb,        \* per address, where the bridges hold it: "behind" a port, on the "wire"
  live,       \* ports that exist and lead to the bridge
  vf,         \* addresses the virtual functions own
  foreign,    \* how many entries of the card are other people's
  now,        \* the boot clock
  learns,     \* notifications: <<address, place>>
  gone,       \* notifications: addresses a bridge has forgotten
  card,       \* our addresses in the card
  note,       \* our addresses on the note
  file,       \* the memory file: per address its stamp, or Unknown
  written,    \* ports_written: what the file was last known to say
  ports,      \* carried_ports
  loaded,     \* ports_loaded
  quiet, wire, passedAt,   \* carried: the last pass's keeps, wire set and stamp
  lastPassAt, \* last_pass_at
  known, stale,            \* carried_vf, vf_stale
  at,         \* what the daemon is doing
  snap,       \* what the running pass or batch has read
  theirs,     \* history: what the functions have owned since then throughout
  guest       \* history: what has become of each address

world == <<fdb, live, vf, foreign, now>>
events == <<learns, gone>>
disk == <<file, written>>
carried == <<quiet, wire, passedAt>>
driver == <<known, stale>>
vars == <<world, events, card, note, disk, ports, loaded, carried, lastPassAt, driver,
          at, snap, theirs, guest>>

Places == {"behind", "wire"}
Unknown == -1
Stamp == 0 .. MaxStamp
Memory == [Mac -> Stamp \cup {Unknown}]
Blank == [m \in Mac |-> Unknown]
NoMemo == [m \in Mac |-> "none"]

Idle == [fdb |-> [m \in Mac |-> {}], live |-> {}, card |-> {}, heard |-> {}, carried |-> FALSE]

TypeOK ==
  /\ fdb \in [Mac -> SUBSET Places] /\ live \subseteq Port /\ vf \subseteq Mac
  /\ foreign \in 0 .. MaxForeign /\ now \in Stamp
  /\ learns \subseteq Mac \X Places /\ gone \subseteq Mac
  /\ card \subseteq Mac /\ note \subseteq Mac
  /\ file \in Memory /\ written \in [Mac -> {"none", "loud", "quiet"}]
  /\ ports \in Memory /\ loaded \in BOOLEAN
  /\ quiet \subseteq Mac /\ wire \subseteq Mac
  /\ passedAt \in Stamp /\ lastPassAt \in Stamp
  /\ known \subseteq Mac /\ stale \in BOOLEAN
  /\ at \in {"idle", "dumped", "taken", "reflected", "decided"}
  /\ snap \in [fdb : [Mac -> SUBSET Places], live : SUBSET Port, card : SUBSET Mac,
               heard : SUBSET (Mac \X Places), carried : BOOLEAN]
  /\ theirs \subseteq Mac /\ guest \in [Mac -> {"no", "registered", "seen", "away"}]

Init ==
  /\ fdb = [m \in Mac |-> {}] /\ live = Port /\ vf = {} /\ foreign = 0 /\ now = 1
  /\ learns = {} /\ gone = {}
  /\ card = {} /\ note = {}
  /\ file = Blank /\ written = NoMemo
  /\ ports = Blank /\ loaded = FALSE
  /\ quiet = {} /\ wire = {} /\ passedAt = 0 /\ lastPassAt = 0
  /\ known = {} /\ stale = TRUE
  /\ at = "idle" /\ snap = Idle
  /\ theirs = {} /\ guest = [m \in Mac |-> "no"]

-----------------------------------------------------------------------------
(* What the decisions are made of *)

Later(s, t) == IF s < t THEN t ELSE s
AtMost(n, S) == IF n < Cardinality(S) THEN n ELSE Cardinality(S)

Reserve == IF Limit - 1 < 4 THEN Limit - 1 ELSE 4
Allowed == Limit - Reserve

\* What of a set a fault can hit.
Choices(fault, S) == IF fault \in Faults THEN SUBSET S ELSE {{}}

\* Whether the note can be read.
Readings == {TRUE, "read" \notin Faults}

OnWire(f) == {m \in Mac : "wire" \in f[m]}
Behind(f, L) == {m \in Mac : "behind" \in f[m] /\ Home[m] \in L}

\* desired: learnt behind the bridge or pinned, and neither out on the wire
\* nor a function's own.
Desired(f, L, skip) == (Behind(f, L) \cup Pinned) \ (skip \cup OnWire(f))

\* quiet_survivors: ours, not vouched for by the bridge any more, but the port
\* remembered for them lives on.
Survivors(f, L, skip, mem, owned) ==
  {m \in owned \ (Desired(f, L, skip) \cup OnWire(f) \cup skip) :
     mem[m] # Unknown /\ Home[m] \in L}

\* Mutant: only what is remembered already is stamped.
SeenAgain(mem, S, stamp) ==
  [m \in Mac |-> IF m \in S /\ mem[m] # Unknown THEN Later(mem[m], stamp) ELSE mem[m]]

\* note_seen: forward only.
Seen(mem, S, stamp) == [m \in Mac |-> IF m \in S THEN Later(mem[m], stamp) ELSE mem[m]]

Forget(mem, S) == [m \in Mac |-> IF m \in S THEN Unknown ELSE mem[m]]

\* Mutant: the valve stops one short.
LongestButOne(S, mem, n) ==
  {T \in SUBSET S : /\ Cardinality(T) = AtMost(Later(n - 1, 0), S)
                    /\ \A m \in T, k \in S \ T : mem[m] <= mem[k]}

\* The n longest silent of a set, by their raw stamps; the address, which
\* breaks a tie, is any.
Longest(S, mem, n) ==
  {T \in SUBSET S : /\ Cardinality(T) = AtMost(n, S)
                    /\ \A m \in T, k \in S \ T : mem[m] <= mem[k]}

\* save_ports: rewritten when who is remembered, or who is quiet, has changed
\* since it was last known to have been written, or the file is not there.
Memo(mem, L, stamp) ==
  [m \in Mac |-> IF mem[m] = Unknown \/ Home[m] \notin L THEN "none"
                 ELSE IF mem[m] < stamp THEN "quiet" ELSE "loud"]

SavePorts(memo, mem, L, stamp) ==
  LET keys == Memo(mem, L, stamp)
      holds == keys = memo /\ (file = Blank <=> keys = NoMemo)
  IN  \/ /\ holds
         /\ written' = memo /\ UNCHANGED file
      \/ /\ ~holds
         /\ file' = Forget(mem, {m \in Mac : Home[m] \notin L}) /\ written' = keys
      \/ /\ ~holds /\ "save" \in Faults
         /\ written' = NoMemo /\ UNCHANGED file

\* load_ports: the lines whose port is still there, shifted back together
\* where the file is ahead of the clock.
Newest(mem) == CHOOSE t \in Stamp \cup {Unknown} :
                 (\A m \in Mac : mem[m] <= t) /\ (\E m \in Mac : mem[m] = t)

LoadPorts(L) ==
  LET read == Forget(file, {m \in Mac : Home[m] \notin L})
      ahead == Later(Newest(read) - now, 0)
  IN  [m \in Mac |-> IF read[m] = Unknown THEN Unknown ELSE Later(read[m] - ahead, 0)]

\* Mutant: the file is not read.
PassPortsUnread(L) == ports

\* The memory as a pass finds it, and what that says of the file.
PassPorts(L) == IF loaded THEN ports ELSE LoadPorts(L)

PassMemo(L) ==
  IF loaded \/ LoadPorts(L) = Blank THEN written
  ELSE Memo(LoadPorts(L), L, Newest(LoadPorts(L)))

\* Of a set, the addresses that are behind their port for all the daemon has
\* been told or could ask: nothing speaks against registering them.
Innocent(S) == {m \in S : /\ "wire" \notin fdb[m] /\ <<m, "wire">> \notin learns
                          /\ m \notin vf /\ Home[m] \in live}

\* Of a set, those that nothing says are behind the bridge.
Elsewhere(S) == {m \in S \ Pinned : /\ "behind" \notin fdb[m] \cup snap.fdb[m]
                                    /\ <<m, "behind">> \notin learns \cup snap.heard}

-----------------------------------------------------------------------------
(* A pass: reconcile *)

\* The boot clock, nudged where two passes fall into one of its readings.
PassStamp == Later(now, lastPassAt + 1)

\* The interfaces and the forwarding table.
PassDump ==
  /\ at = "idle" /\ at' = "dumped"
  /\ PassStamp <= MaxStamp
  /\ now > lastPassAt \/ "quick" \in Faults
  /\ snap' = [fdb |-> fdb, live |-> live, card |-> card, heard |-> {}, carried |-> FALSE]
  /\ theirs' = vf
  /\ UNCHANGED <<world, events, card, note, disk, ports, loaded, carried, lastPassAt,
                 driver, guest>>

\* wanted_with_keeps: the keeps, and all that the filter should hold, for an
\* answer of the driver.
PassKept(owned, skip) == Survivors(snap.fdb, snap.live, skip, PassPorts(snap.live), owned)

PassWanted(owned, skip) == Desired(snap.fdb, snap.live, skip) \cup PassKept(owned, skip)

\* Mutant: a carried answer is good for anything.
PassAsksOnceStale(owned) == stale

\* Whether the driver is asked: where the carried answer may not be believed,
\* and where it would decide on an addition or on a new keep.
PassAsks(owned) ==
  stale \/ ~(PassKept(owned, known) \subseteq quiet) \/ ~(PassWanted(owned, known) \subseteq snap.card)

\* The pass goes no further when the driver does not answer.
PassRefused ==
  /\ at = "dumped" /\ at' = "idle"
  /\ "refuse" \in Faults
  /\ \E readable \in Readings : PassAsks(IF readable THEN note ELSE {})
  /\ \/ stale /\ UNCHANGED <<ports, loaded, written, lastPassAt>>
     \/ /\ ~stale
        /\ ports' = PassPorts(snap.live) /\ written' = PassMemo(snap.live)
        /\ loaded' = TRUE /\ lastPassAt' = PassStamp
  /\ stale' = TRUE
  /\ snap' = Idle /\ theirs' = {}
  /\ UNCHANGED <<world, events, card, note, file, carried, known, guest>>

\* How far what the pass would leave on the card is above the allowance.
PassOver(owned, wanted) ==
  Later(Cardinality(wanted) + foreign + Cardinality(snap.card \ (wanted \cup owned)) - Allowed, 0)

\* The execution: put are the additions the card took, noted those on the
\* note, and failed the removals that the card refused.
PassWrites(readable, owned, skip, want, noted, put, failed) ==
  LET spoken == Behind(snap.fdb, snap.live)
      mem == PassPorts(snap.live)
      dropped == owned \ (want \cup failed)
      after == Forget(Seen(Forget(mem, failed), spoken, PassStamp),
                      Mac \ ((owned \cup put) \ dropped))
  IN  /\ card' = (card \cup put) \ dropped
      /\ note' = (note \cup noted) \ dropped
      /\ quiet' = PassKept(owned, skip) \cap want /\ wire' = OnWire(snap.fdb)
      /\ known' = skip /\ lastPassAt' = PassStamp
      /\ \/ /\ readable
            /\ ports' = after /\ passedAt' = PassStamp
            /\ SavePorts(PassMemo(snap.live), after, snap.live, PassStamp)
            /\ guest' = [m \in Mac |->
                 IF m \in Innocent(want \cap spoken \cap card') THEN "seen"
                 ELSE IF m \in Innocent(put) THEN "registered"
                 ELSE IF m \in Elsewhere(owned \cap OnWire(snap.fdb)) THEN "away"
                 ELSE guest[m]]
         \/ /\ ~readable
            /\ ports' = mem /\ written' = PassMemo(snap.live)
            /\ UNCHANGED <<passedAt, file, guest>>

\* The pass decides and executes, for a reading of the note that succeeded or
\* not, the surrendered keeps (shed), additions that the note or the card
\* refuses and removals that fail.
PassApply ==
  /\ at = "dumped" /\ at' = "idle"
  /\ \E readable \in Readings :
     LET owned == IF readable THEN note ELSE {}
         skip == IF PassAsks(owned) THEN vf ELSE known
         wanted == PassWanted(owned, skip)
     IN  \E shed \in Longest(PassKept(owned, skip), PassPorts(snap.live),
                             PassOver(owned, wanted)) :
         LET want == wanted \ shed
             new == want \ snap.card
         IN  \E failed \in Choices("delete", owned \ want) :
             \/ /\ readable
                /\ \E unput \in Choices("add", new) :
                     PassWrites(readable, owned, skip, want, new, new \ unput, failed)
             \/ /\ ~readable \/ "add" \in Faults
                /\ PassWrites(readable, owned, skip, want, {}, {}, failed)
  /\ stale' = FALSE /\ loaded' = TRUE
  /\ snap' = Idle /\ theirs' = {}
  /\ UNCHANGED <<world, events>>

-----------------------------------------------------------------------------
(* A batch of notifications: fast_apply *)

HeardOnWire == {m \in Mac : <<m, "wire">> \in snap.heard}
HeardBehind == {m \in Mac : <<m, "behind">> \in snap.heard /\ Home[m] \in snap.live}

\* fast_add: what the batch would register. The wire, in this batch or as the
\* last pass saw it, has the last word.
FastAdd == HeardBehind \ (known \cup wire \cup HeardOnWire)

\* Mutant: an ageing time ahead.
DateTheSilenceAhead ==
  Seen(ports, {m \in gone : ports[m] # Unknown}, now + Ageing)

\* date_the_silence: who has just been forgotten spoke one ageing time ago.
DateTheSilence ==
  Seen(ports, {m \in gone : ports[m] # Unknown}, Later(now - Ageing, 0))

\* Deletions are dated; learns are judged with the carried answer of the
\* driver, or with a new one where that may not be believed. A batch comes
\* before the first pass only if that was refused.
BatchTake ==
  /\ at = "idle" /\ (learns # {} \/ gone # {})
  /\ loaded \/ "refuse" \in Faults
  /\ ports' = DateTheSilence
  /\ learns' = {} /\ gone' = {}
  /\ \/ /\ learns = {} \/ (stale /\ "refuse" \in Faults)
        /\ UNCHANGED <<driver, at, snap, theirs>>
     \/ /\ learns # {}
        /\ known' = (IF stale THEN vf ELSE known) /\ stale' = FALSE
        /\ at' = "taken" /\ theirs' = vf
        /\ snap' = [Idle EXCEPT !.live = live, !.heard = learns, !.carried = ~stale]
  /\ UNCHANGED <<world, card, note, disk, loaded, carried, lastPassAt, guest>>

\* Mutant: a failed removal keeps its memory.
EvictedRemoved(ours, failed) == ours \ failed

\* The memory goes with the entry, and where the removal failed too: that is
\* what has it tried again.
Evicted(ours, failed) == ours

\* Ours that have been learnt on the wire are taken out, and out of the
\* memory, which is written down.
BatchReflect ==
  /\ at = "taken" /\ at' = "reflected"
  /\ \E readable \in Readings :
     LET ours == IF readable THEN note \cap HeardOnWire ELSE {}
     IN  \E failed \in Choices("delete", ours) :
         /\ card' = card \ (ours \ failed) /\ note' = note \ (ours \ failed)
         /\ ports' = Forget(ports, Evicted(ours, failed))
         /\ quiet' = quiet \ Evicted(ours, failed)
         /\ wire' = wire \cup ((ours \ failed) \cap card)
         /\ IF ours # {} /\ loaded THEN SavePorts(written, ports', snap.live, passedAt)
                                  ELSE UNCHANGED disk
         /\ guest' = [m \in Mac |-> IF m \in Elsewhere(ours) THEN "away" ELSE guest[m]]
  /\ UNCHANGED <<world, events, loaded, passedAt, lastPassAt, driver, snap, theirs>>

\* A carried answer decides nothing that grows the filter: what would be new,
\* on the card as it is read back, has the driver asked. An address refused
\* only by the carried answer counts as new.
BatchDecide ==
  /\ at = "reflected"
  /\ \E readable \in Readings :
     LET cands == FastAdd \cup (known \cap (HeardBehind \cup HeardOnWire))
         would == cands \ (card \cap (IF readable THEN note ELSE {}))
     IN  \/ /\ ~snap.carried \/ would = {}
            /\ at' = "decided" /\ snap' = [snap EXCEPT !.card = card]
            /\ UNCHANGED <<driver, theirs>>
         \/ /\ snap.carried /\ would # {}
            /\ at' = "decided" /\ snap' = [snap EXCEPT !.card = card]
            /\ known' = vf /\ stale' = FALSE
            /\ UNCHANGED theirs
         \/ /\ snap.carried /\ would # {} /\ "refuse" \in Faults
            /\ at' = "idle" /\ snap' = Idle /\ theirs' = {}
            /\ stale' = TRUE
            /\ UNCHANGED known
  /\ UNCHANGED <<world, events, card, note, disk, ports, loaded, carried, lastPassAt, guest>>

\* Mutant: whoever was quiet at the last pass is.
SheddableWhoeverWas(mem) == quiet

\* What the valve may take in a batch: the last pass's keeps that have not
\* been heard of since.
Sheddable(mem) == {m \in quiet : mem[m] # Unknown /\ mem[m] < passedAt}

\* Speakers are stamped.
BatchMemory == IF loaded THEN Seen(ports, FastAdd, now) ELSE ports

\* A fresh answer's batch reads the card back only when it commits.
BatchOver ==
  LET present == IF snap.carried THEN snap.card ELSE card
  IN  IF FastAdd = {} THEN 0
      ELSE Later(Cardinality(present \cup FastAdd) + foreign - Allowed, 0)

\* Keeps are surrendered where the card has no room (shed_keeps), then the
\* note and the card take the additions, or refuse them.
BatchWrites(dropped, noted, put) ==
  /\ ports' = Forget(BatchMemory, dropped) /\ quiet' = quiet \ dropped
  /\ card' = (card \ dropped) \cup put
  /\ note' = (note \ dropped) \cup noted
  /\ IF dropped # {} THEN SavePorts(written, ports', snap.live, passedAt)
                    ELSE UNCHANGED disk
  /\ guest' = [m \in Mac |-> IF m \in Innocent(put) /\ guest[m] = "no"
                             THEN "registered" ELSE guest[m]]

BatchCommit ==
  /\ at = "decided" /\ at' = "idle"
  /\ \/ \E shed \in Longest(Sheddable(BatchMemory), BatchMemory, BatchOver) :
        \E failed \in Choices("delete", shed) :
        \/ \E unput \in Choices("add", FastAdd) :
             BatchWrites(shed \ failed, FastAdd, FastAdd \ unput)
        \/ "add" \in Faults /\ BatchWrites(shed \ failed, {}, {})
     \/ "read" \in Faults /\ BatchWrites({}, {}, {})
  /\ snap' = Idle /\ theirs' = {}
  /\ UNCHANGED <<world, events, loaded, wire, passedAt, lastPassAt, driver>>

-----------------------------------------------------------------------------
(* The bridge, the functions, the driver, the clock *)

\* A bridge learns an address: moved from where it was, or in one more VLAN.
Appear(m, place) ==
  /\ place \notin fdb[m]
  /\ place = "behind" => Home[m] \in live
  /\ place = "wire" => "wire" \in World
  /\ \E f \in {{place}, fdb[m] \cup {place}} : fdb' = [fdb EXCEPT ![m] = f]
  /\ learns' = learns \cup {<<m, place>>}
  /\ guest' = [guest EXCEPT ![m] = IF (@ = "away") = (place = "wire") THEN @
                                                                         ELSE "no"]
  /\ UNCHANGED <<live, vf, foreign, now, gone, card, note, disk, ports, loaded, carried,
                 lastPassAt, driver, at, snap, theirs>>

\* A bridge forgets an address.
Age(m, place) ==
  /\ place \in fdb[m]
  /\ fdb' = [fdb EXCEPT ![m] = @ \ {place}]
  /\ gone' = gone \cup {m}
  /\ UNCHANGED <<live, vf, foreign, now, learns, card, note, disk, ports, loaded, carried,
                 lastPassAt, driver, at, snap, theirs, guest>>

Unplug(p) ==
  /\ p \in live /\ "unplug" \in World
  /\ live' = live \ {p}
  /\ fdb' = [m \in Mac |-> IF Home[m] = p THEN fdb[m] \ {"behind"} ELSE fdb[m]]
  /\ gone' = gone \cup {m \in Mac : Home[m] = p /\ "behind" \in fdb[m]}
  /\ guest' = [m \in Mac |-> IF Home[m] = p /\ guest[m] # "away" THEN "no" ELSE guest[m]]
  /\ UNCHANGED <<vf, foreign, now, learns, card, note, disk, ports, loaded, carried,
                 lastPassAt, driver, at, snap, theirs>>

VfChange(m) ==
  /\ "vf" \in World
  /\ vf' = IF m \in vf THEN vf \ {m} ELSE vf \cup {m}
  /\ theirs' = theirs \ {m}
  /\ guest' = [guest EXCEPT ![m] = IF @ = "away" THEN @ ELSE "no"]
  /\ UNCHANGED <<fdb, live, foreign, now, events, card, note, disk, ports, loaded, carried,
                 lastPassAt, driver, at, snap>>

LinkMessage ==
  /\ at = "idle" /\ "link" \in World
  /\ stale' = TRUE
  /\ UNCHANGED <<world, events, card, note, disk, ports, loaded, carried, lastPassAt, known,
                 at, snap, theirs, guest>>

Foreign ==
  /\ at = "idle" /\ "foreign" \in World
  /\ foreign' \in 0 .. MaxForeign
  /\ UNCHANGED <<fdb, live, vf, now, events, card, note, disk, ports, loaded, carried,
                 lastPassAt, driver, at, snap, theirs, guest>>

DriverReset ==
  /\ (at = "idle" /\ "reset" \in Faults) \/ "flap" \in Faults
  /\ card' = {}
  /\ UNCHANGED <<world, events, note, disk, ports, loaded, carried, lastPassAt, driver,
                 at, snap, theirs, guest>>

Tick ==
  /\ now < MaxStamp /\ now' = now + 1
  /\ UNCHANGED <<fdb, live, vf, foreign, events, card, note, disk, ports, loaded, carried,
                 lastPassAt, driver, at, snap, theirs, guest>>

\* The process dies and a new one begins (Syncer::new): the card, the note and
\* the memory file are what is left.  What a batch registered and no pass has
\* seen since is in nobody's memory then, so the history forgets it too.
Crash ==
  /\ "crash" \in Faults
  /\ learns' = {} /\ gone' = {}
  /\ written' = NoMemo /\ ports' = Blank /\ loaded' = FALSE
  /\ quiet' = {} /\ wire' = {} /\ passedAt' = 0 /\ lastPassAt' = 0
  /\ known' = {} /\ stale' = TRUE
  /\ at' = "idle" /\ snap' = Idle /\ theirs' = {}
  /\ guest' = [m \in Mac |-> IF guest[m] = "registered" THEN "no" ELSE guest[m]]
  /\ UNCHANGED <<world, card, note, file>>

Pass == PassDump \/ PassRefused \/ PassApply
Batch == BatchTake \/ BatchReflect \/ BatchDecide \/ BatchCommit

Next ==
  \/ Pass \/ Batch \/ Crash
  \/ \E m \in Mac : VfChange(m) \/ \E place \in Places : Appear(m, place) \/ Age(m, place)
  \/ \E p \in Port : Unplug(p)
  \/ LinkMessage \/ Foreign \/ DriverReset \/ Tick

Spec == Init /\ [][Next]_vars

-----------------------------------------------------------------------------
(* Properties *)

\* "A carried answer decides nothing that grows a filter" (reconcile,
\* fast_apply): nothing that a virtual function has owned since the pass or
\* batch began is put on the card, or becomes a keep, whether or not the
\* change of ownership was announced.
NeverTakesVf ==
  [][((card' \ card) \cup (quiet' \ quiet)) \cap theirs = {}]_vars

\* Ageing is not news about the device (quiet_survivors): a guest that was
\* registered, and that neither the wire nor a function has claimed and whose
\* port lives on, is never unregistered by the daemon while the card has room -
\* and, once a pass has seen it, not after a restart either: the memory file
\* (save_ports, load_ports) makes an update invisible to a quiet guest.
Unregistered(m) == m \in card /\ m \notin card'

RegisteredStays ==
  [][Pass \/ Batch => \A m \in Mac : guest[m] \in {"registered", "seen"} => ~Unregistered(m)]_vars

\* "An address this batch registers can never be its own victim" (shed_keeps):
\* making room never takes the entry, or the memory, of one that has just
\* spoken.
SpeakersAreRemembered ==
  [][BatchCommit => \A m \in FastAdd : loaded => ports'[m] # Unknown]_vars

\* New learns outrank the quiet (press_at_pass, shed_keeps): a pass or batch
\* that leaves the card above its allowance leaves no keep on it that the
\* valve could have surrendered.
NewOutranksQuiet ==
  [][/\ PassApply \/ (BatchCommit /\ FastAdd # {})
     /\ Cardinality(card') + foreign > Allowed
     => Sheddable(ports)' \cap card' = {}]_vars

\* What the wire took out does not come back through the memory (fast_apply,
\* reconcile): an address of ours that was found on the wire and nowhere
\* behind the bridge is neither registered again nor kept, until it is learnt
\* behind the bridge again - though the wire's evidence fades, a removal
\* fails, or the daemon is restarted.
AwayStaysOut ==
  [][\A m \in (card' \ card) \cup (quiet' \ quiet) : guest[m] # "away"]_vars
=============================================================================
