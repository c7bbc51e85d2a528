------------------------------- MODULE Rename -------------------------------
\* Notes under renames: what a note is found by (a name) and what it is about
\* (an interface), and how the two are kept together while interfaces are
\* renamed, leave, and wear names others wore before them.
\*
\* Source: src/src/sync/mod.rs (orphaned, drop_orphans, renamed_target,
\* noted_link, follow_rename, unregister_all, the re-used name in reconcile,
\* flush) and src/src/sync/notes.rs (note_index, recorded_index, noted_index,
\* remove_note, migrate_note, noted_devices).
\*
\* A registration, a removal, a migration and a flush's visit of one note are
\* each one step here (the windows inside them are Ownership's), except that the
\* process may die between a migration's writes; and each of them may fail.
\* Names are numbers, for they are swept, locked and flushed in order, and 0 is
\* "none" of names and of interfaces.  The uplinks are autodetected; with
\* configured pairs nothing is ever orphaned.
EXTENDS Integers, FiniteSets, FiniteSetsExt

CONSTANTS Iface,       \* interface indices, never re-used within a boot
          Name,        \* interface names
          Mac,
          Patient,     \* the process waits out orphan_grace (the daemon does)
          Reuse,       \* a rename may take a name under which another's note
                       \* still stands (a new interface always may)
          Burst,       \* naming changes between two passes' readings
          Overlap,     \* naming changes and flushes may overlap
          Faults       \* \subseteq {"crash", "delete", "refuse", "record",
                       \*            "flush", "beside"}

ASSUME RenameAssumption ==
  /\ 0 \notin Iface /\ IsFiniteSet(Iface)
  /\ Name \subseteq Nat \ {0} /\ IsFiniteSet(Name)
  /\ Patient \in BOOLEAN /\ Reuse \in BOOLEAN /\ Overlap \in BOOLEAN
  /\ Burst \in Nat

VARIABLES
  name,     \* the name each interface wears; 0: not yet, or no more
  spent,    \* the indices the kernel has given out
  up,       \* the interfaces that sit under a bridge
  mine,     \* per interface, the entries this program added
  others,   \* per interface, the entries somebody else added
  ever,     \* per interface, the entries it was ever asked to take by us
  file,     \* per name: the note and its interface record
  cidx,     \* Syncer::indices, the process's copy of the records
  absent,   \* Syncer::absent_since, without its times
  pairs,    \* Syncer::pairs, as names
  pc,       \* "idle" | "sweep" | "pairs"
  rd,       \* the reading in use: who wears what, who is an uplink
  todo,     \* the names this sweep or this pair loop still has to visit
  at,       \* the pair being worked on, 0 when none is
  held,     \* its owned_before
  moves,    \* naming changes since the last pass's reading
  fl,       \* the --flush process: its reading, the notes it still visits
  exposed   \* history: the interfaces between which a refused migration has
            \* left the note of the one under the name of the other

world == <<name, spent, up>>
card == <<mine, others, ever>>
proc == <<cidx, absent, pairs>>
pass == <<pc, rd, todo, at, held>>
more == <<fl, exposed>>
vars == <<name, spent, up, mine, others, ever, file, cidx, absent, pairs,
          pc, rd, todo, at, held, moves, fl, exposed>>

NoFile == [there |-> FALSE, macs |-> {}, idx |-> 0]
NoRead == [name |-> [i \in Iface |-> 0], up |-> {}]
NoFlush == [name |-> NoRead.name, todo |-> {}]
Reading == [name |-> name, up |-> up]

\* Topology::get and Topology::at over a reading.
Wearer(r, n) == IF \E i \in Iface : r.name[i] = n
                  THEN CHOOSE i \in Iface : r.name[i] = n ELSE 0
NameAt(r, i) == IF i = 0 THEN 0 ELSE r.name[i]

\* autodetect, redone by every pass: the uplinks of its reading.
PairsOf(r) == {r.name[i] : i \in r.up} \ {0}

\* noted_devices: every name with a note.
Noted == {n \in Name : file[n].there}

\* recorded_index: what this process stamped, else the file; c is its copy.
Recorded(c, n) == IF c[n] # 0 THEN c[n] ELSE file[n].idx

\* noted_link: the interface found by name and held against the record.
NotedLink(r, c, n) ==
  LET i == Wearer(r, n) IN IF Recorded(c, n) \in {0, i} THEN i ELSE 0

\* renamed_target: where the recorded interface lives now, 0 if nowhere else.
RenamedTarget(r, n) ==
  LET new == NameAt(r, file[n].idx) IN IF new = n THEN 0 ELSE new

\* What a --flush takes a note's entries out of: it has stamped nothing itself
\* and goes by the name, or else by the record.
Reached(r, n) ==
  LET link == NotedLink(r, [k \in Name |-> 0], n)
  IN  IF link # 0 THEN link
      ELSE IF RenamedTarget(r, n) # 0 THEN file[n].idx ELSE 0

\* load_owned's effect on the record's copy: it goes with a missing note.
Evict(c, n) == IF file[n].there THEN c ELSE [c EXCEPT ![n] = 0]

Init ==
  /\ name \in [Iface -> Name \cup {0}]
  /\ \A i, j \in Iface : name[i] = name[j] /\ name[i] # 0 => i = j
  /\ spent = {i \in Iface : name[i] # 0}
  /\ up = spent
  /\ mine = [i \in Iface |-> {}]
  /\ others = [i \in Iface |-> {}]
  /\ ever = [i \in Iface |-> {}]
  /\ file = [n \in Name |-> NoFile]
  /\ cidx = [n \in Name |-> 0]
  /\ absent = {} /\ pairs = PairsOf(Reading)
  /\ pc = "idle" /\ rd = NoRead /\ todo = {} /\ at = 0 /\ held = {}
  /\ moves = 0 /\ fl = NoFlush /\ exposed = {}

-----------------------------------------------------------------------------
\* The world: the kernel's links, and what others put into the filters.

\* No flush is at work, and none has left the process believing in a record
\* that went with its note, or lines without one.
Followable ==
  /\ fl = NoFlush
  /\ \A n \in Name : file[n].macs # {} => file[n].idx # 0
  /\ \A n \in Name : cidx[n] \in {0, file[n].idx}

Renaming == moves < Burst /\ (Overlap \/ Followable) /\ moves' = moves + 1

Free(n) == \A j \in Iface : name[j] # n

Rename(i, n) ==
  /\ Renaming
  /\ name[i] # 0 /\ Free(n)
  /\ Reuse \/ ~file[n].there \/ file[n].idx = i
  /\ name' = [name EXCEPT ![i] = n]
  /\ UNCHANGED <<spent, up, card, file, proc, pass, more>>

Appear(i, n) ==
  /\ Renaming
  /\ i \notin spent /\ Free(n)
  /\ name' = [name EXCEPT ![i] = n]
  /\ spent' = spent \cup {i}
  /\ up' = up \cup {i}
  /\ UNCHANGED <<card, file, proc, pass, more>>

\* A unicast filter does not outlive its netdev.
Depart(i) ==
  /\ Renaming
  /\ name[i] # 0
  /\ name' = [name EXCEPT ![i] = 0]
  /\ up' = up \ {i}
  /\ mine' = [mine EXCEPT ![i] = {}]
  /\ others' = [others EXCEPT ![i] = {}]
  /\ UNCHANGED <<spent, ever, file, proc, pass, more>>

\* Nothing asks who is under a bridge while a pass runs, which has its reading.
Rebridge(i) ==
  /\ pc = "idle" /\ name[i] # 0
  /\ up' = IF i \in up THEN up \ {i} ELSE up \cup {i}
  /\ UNCHANGED <<name, spent, card, file, proc, pass, moves, more>>

ForeignAdd(i, m) ==
  /\ name[i] # 0 /\ m \notin mine[i] \cup others[i]
  /\ others' = [others EXCEPT ![i] = @ \cup {m}]
  /\ UNCHANGED <<world, mine, ever, file, proc, pass, moves, more>>

-----------------------------------------------------------------------------
\* Taking addresses out of a card: unregister_all and retire.  What is not
\* there counts as gone (ENOENT); "kept" are the removals that failed.

Kept(macs) == IF "delete" \in Faults THEN SUBSET macs ELSE {{}}

TakeOut(i, macs) ==
  /\ mine' = [j \in Iface |-> IF j = i THEN mine[j] \ macs ELSE mine[j]]
  /\ others' = [j \in Iface |-> IF j = i THEN others[j] \ macs ELSE others[j]]
  /\ UNCHANGED ever

\* A pass over the uplinks takes a reading, redoes the autodetection and, in
\* drop_orphans, lists the notes whose names are no uplinks; of those the ones
\* that waited long enough are due.
Due ==
  LET gone == Noted \ PairsOf(Reading)
  IN  IF Patient THEN SUBSET (gone \cap absent) ELSE {gone}

PassBegin ==
  /\ pc = "idle"
  /\ fl = NoFlush \/ "beside" \in Faults
  /\ rd' = Reading
  /\ pairs' = PairsOf(Reading)
  /\ absent' = Noted \ PairsOf(Reading)
  /\ todo' \in Due
  /\ pc' = "sweep"
  /\ moves' = 0
  /\ UNCHANGED <<world, card, file, cidx, at, held, more>>

Sweeping(n) == pc = "sweep" /\ todo # {} /\ n = Min(todo)

\* No record beside the note: a rename cannot be told from a departure, and
\* the note is left as it is.
NoRecord(n) == NotedLink(rd, cidx, n) = 0 /\ file[n].idx = 0 /\ file[n].macs # {}

-----------------------------------------------------------------------------
\* Writing to a note: what the files and this process's copies of the records
\* are afterwards.  "refuse": a note cannot be read, or not be written to, and
\* then as a rule its record neither; "record": a record cannot be written
\* although the note can.

\* note_index: written when this process (whose copies are c) does not already
\* know it, and known only when written.
StampedName(f, c, n, i) == [f EXCEPT ![n].idx = n]

Stamped(f, c, n, i) == IF c[n] = i THEN f ELSE [f EXCEPT ![n].idx = i]

Recordings(c, n, i, fails) ==
  {[file |-> Stamped(file, c, n, i), cidx |-> [c EXCEPT ![n] = i]]}
    \cup (IF fails THEN {[file |-> file, cidx |-> c]} ELSE {})

Appended(f, n, macs) ==
  [f EXCEPT ![n].macs = @ \cup macs, ![n].there = TRUE]

\* note_index and then append_owned_locked, which took the lines, ...
Taken(c, n, i, macs) ==
  LET fails == \/ "record" \in Faults
               \/ "refuse" \in Faults /\ macs \subseteq file[n].macs
  IN  {[file |-> Appended(s.file, n, macs), cidx |-> Evict(s.cidx, n)] :
         s \in Recordings(c, n, i, fails)}

\* ... or which did not: the note could not be read, or not be added to.
Refused(c, n, i) ==
  IF "refuse" \in Faults
    THEN UNION {{[s EXCEPT !.cidx = Evict(@, n)], [s EXCEPT !.cidx[n] = 0]} :
                  s \in Recordings(c, n, i, TRUE)}
    ELSE {}

Leaves(o) == file' = o.file /\ cidx' = o.cidx

-----------------------------------------------------------------------------
\* follow_rename and migrate_note: the note of old goes to new, interface i, ...

FollowMoves(old, new, i) ==
  IF file[old].macs = {}
    THEN /\ file' = [file EXCEPT ![old] = NoFile]
         /\ cidx' = [cidx EXCEPT ![old] = 0]
    ELSE \E o \in Taken(cidx, new, i, file[old].macs) :
           /\ file' = [o.file EXCEPT ![old] = NoFile]
           /\ cidx' = [o.cidx EXCEPT ![old] = 0]

\* ... or it stays, because it cannot be read or new's would not take it.
FollowWaits(old, new, i) ==
  /\ "refuse" \in Faults
  /\ \/ Leaves([file |-> file, cidx |-> [cidx EXCEPT ![old] = 0]])
     \/ file[old].macs # {} /\ \E o \in Refused(cidx, new, i) : Leaves(o)

\* What a death between the writes of migrate_note leaves: the record, then
\* the lines under both names, then the old note gone.
MigrateUnlinksFirst(old, new, i) ==
  LET stamped == Stamped(file, cidx, new, i) IN {stamped, [stamped EXCEPT ![old] = NoFile]}

MigrateCut(old, new, i) ==
  {o.file : o \in Recordings(cidx, new, i, "refuse" \in Faults)}
    \cup UNION {{o.file, [o.file EXCEPT ![old] = NoFile]} : o \in Taken(cidx, new, i, file[old].macs)}

Dead ==
  /\ cidx' = [n \in Name |-> 0]
  /\ absent' = {} /\ pairs' = {}
  /\ pc' = "idle" /\ rd' = NoRead /\ todo' = {} /\ at' = 0 /\ held' = {}

Renamed(n) == ~NoRecord(n) /\ NotedLink(rd, cidx, n) = 0 /\ RenamedTarget(rd, n) # 0

SweepFollows(n) ==
  LET new == RenamedTarget(rd, n) IN
  /\ Sweeping(n) /\ Renamed(n)
  /\ FollowMoves(n, new, file[n].idx) \/ FollowWaits(n, new, file[n].idx)
  /\ todo' = todo \ {n}
  /\ UNCHANGED <<world, card, absent, pairs, pc, rd, at, held, moves, more>>

\* unregister_all for a note under its lock, with what becomes of the note:
\* gone when everything came out of the card, else rewritten with what is left,
\* or as it was.  Interface 0: nothing to take out of.
Settled(n, i, c) ==
  \E kept \in IF i = 0 THEN {{}} ELSE Kept(file[n].macs) :
    /\ TakeOut(i, file[n].macs \ kept)
    /\ \/ /\ kept = {}
          /\ file' = [file EXCEPT ![n] = NoFile]
          /\ c = 0
       \/ /\ kept # {}
          /\ file' = [file EXCEPT ![n].macs = kept]
          /\ c = cidx[n]
       \/ /\ kept # {} /\ "refuse" \in Faults
          /\ UNCHANGED file
          /\ c = cidx[n]

\* A device that is an uplink no more: what the note names comes out of the
\* card where the interface is still there, and the note goes when all did.
\* One without a record, or that cannot be read, is left alone.
SweepSettles(n) ==
  /\ Sweeping(n) /\ ~Renamed(n)
  /\ \/ /\ ~NoRecord(n)
        /\ \E c \in {0, cidx[n]} :
             /\ Settled(n, NotedLink(rd, cidx, n), c)
             /\ cidx' = [cidx EXCEPT ![n] = c]
     \/ /\ NoRecord(n)
        /\ UNCHANGED <<card, file, cidx>>
     \/ /\ "refuse" \in Faults
        /\ cidx' = [cidx EXCEPT ![n] = 0]
        /\ UNCHANGED <<card, file>>
  /\ todo' = todo \ {n}
  /\ UNCHANGED <<world, absent, pairs, pc, rd, at, held, moves, more>>

SweepDone ==
  /\ pc = "sweep" /\ todo = {}
  /\ pc' = "pairs"
  /\ todo' = pairs
  /\ UNCHANGED <<world, card, file, proc, rd, at, held, moves, more>>

-----------------------------------------------------------------------------
\* The pair loop: the order of the pairs is the reading's, not the names'.

Visiting(n) == pc = "pairs" /\ at = 0 /\ n \in todo
ReusedUnasked(n, i) == FALSE

Reused(n, i) == Recorded(cidx, n) \notin {0, i}

\* The note is another interface's that wore the name: it follows that one,
\* or goes where that one went, ...
PairReused(n) ==
  LET i == Wearer(rd, n)
      new == RenamedTarget(rd, n)
  IN
  /\ Visiting(n) /\ i \in rd.up /\ Reused(n, i)
  /\ \/ /\ new # 0
        /\ FollowMoves(n, new, file[n].idx)
     \/ /\ new = 0
        /\ file' = [file EXCEPT ![n] = NoFile]
        /\ cidx' = [cidx EXCEPT ![n] = 0]
  /\ UNCHANGED <<world, card, absent, pairs, pc, rd, todo, at, held, moves, more>>

\* ... or it cannot, and this pass leaves the pair alone: the note stays where
\* it is, and the pair is one that batches answer.
PairWaits(n) ==
  LET i == Wearer(rd, n)
      new == RenamedTarget(rd, n)
  IN
  /\ Visiting(n) /\ i \in rd.up /\ Reused(n, i) /\ new # 0
  /\ FollowWaits(n, new, file[n].idx)
  /\ todo' = todo \ {n}
  /\ exposed' = exposed \cup {i, file[n].idx}
  /\ UNCHANGED <<world, card, absent, pairs, pc, rd, at, held, moves, fl>>

\* load_owned; the writing half follows in PairWrites.
PairOpens(n) ==
  /\ Visiting(n) /\ Wearer(rd, n) \in rd.up /\ ~Reused(n, Wearer(rd, n))
  /\ \/ /\ cidx' = Evict(cidx, n)
        /\ held' = file[n].macs
     \/ /\ "refuse" \in Faults
        /\ cidx' = [cidx EXCEPT ![n] = 0]
        /\ held' = {}
  /\ at' = n
  /\ todo' = todo \ {n}
  /\ UNCHANGED <<world, card, file, absent, pairs, pc, rd, moves, more>>

\* note_index and register_batch_locked for the pair at hand: what they leave,
\* and the addresses the note took.
PairStores(n, i, add) ==
  IF add = {} /\ held = {} THEN {[file |-> file, cidx |-> cidx, put |-> {}]}
  ELSE IF add = {}
    THEN {[file |-> o.file, cidx |-> o.cidx, put |-> {}] :
            o \in Recordings(cidx, n, i, "record" \in Faults \/ "refuse" \in Faults)}
    ELSE {[file |-> o.file, cidx |-> o.cidx, put |-> add] : o \in Taken(cidx, n, i, add)}
           \cup {[file |-> o.file, cidx |-> o.cidx, put |-> {}] : o \in Refused(cidx, n, i)}

\* ... and retire: out leaves the card, and the note unless it cannot be
\* rewritten.  An interface that is gone takes nothing and gives nothing.
PairWrites(want) ==
  LET n == at
      i == Wearer(rd, n)
      stale == held \ want
  IN
  /\ pc = "pairs" /\ at # 0
  /\ \E o \in PairStores(n, i, want \ (mine[i] \cup others[i])),
        kept \in (IF name[i] = 0 THEN {stale} ELSE Kept(stale)) :
       LET out == stale \ kept
       IN /\ \E off \in {out} \cup (IF "refuse" \in Faults THEN {{}} ELSE {}) :
               file' = [o.file EXCEPT ![n].macs = @ \ off]
          /\ cidx' = o.cidx
          /\ mine' = [mine EXCEPT ![i] = IF name[i] = 0 THEN @ ELSE (@ \cup o.put) \ out]
          /\ others' = [others EXCEPT ![i] = @ \ out]
          /\ ever' = [ever EXCEPT ![i] = @ \cup o.put]
  /\ at' = 0
  /\ held' = {}
  /\ UNCHANGED <<world, absent, pairs, pc, rd, todo, moves, more>>

PassDone ==
  /\ pc = "pairs" /\ at = 0 /\ todo = {}
  /\ pc' = "idle"
  /\ rd' = NoRead
  /\ UNCHANGED <<world, card, file, proc, todo, at, held, moves, more>>

-----------------------------------------------------------------------------
\* A batch: a fresh reading, but the pairs of the last pass, and the record
\* stamped without asking whose it was.

Answering(n) == pc = "idle" /\ n \in pairs /\ Wearer(Reading, n) \in up

FastRegisters(n, m) ==
  LET i == Wearer(Reading, n)
      new == {m} \ others[i]
  IN
  /\ Answering(n) /\ m \notin mine[i]
  /\ \E c \in {cidx, Evict(cidx, n)} :
       \/ /\ \E o \in Taken(c, n, i, new) : Leaves(o)
          /\ mine' = [mine EXCEPT ![i] = @ \cup new]
          /\ ever' = [ever EXCEPT ![i] = @ \cup new]
       \/ /\ \E o \in Refused(c, n, i) : Leaves(o)
          /\ UNCHANGED <<mine, ever>>
  /\ UNCHANGED <<world, others, absent, pairs, pass, moves, more>>

\* What was heard on the wire and is on the note comes out, of the note too
\* unless it cannot be rewritten.
FastReflects(n, m) ==
  /\ Answering(n) /\ m \in file[n].macs
  /\ TakeOut(Wearer(Reading, n), {m})
  /\ \/ file' = [file EXCEPT ![n].macs = @ \ {m}]
     \/ "refuse" \in Faults /\ UNCHANGED file
  /\ UNCHANGED <<world, proc, pass, moves, more>>

-----------------------------------------------------------------------------
\* --flush, a second process: it reads the topology, lists the notes, and empties
\* them one by one, each under its lock.

Down == pc = "idle" /\ pairs = {} /\ cidx = [n \in Name |-> 0]

FlushBegins ==
  /\ "flush" \in Faults /\ fl = NoFlush /\ Noted # {}
  /\ Down \/ "beside" \in Faults
  /\ Overlap \/ pc = "idle" \/ moves = 0
  /\ fl' = [name |-> name, todo |-> Noted]
  /\ UNCHANGED <<world, card, file, proc, pass, moves, exposed>>

FlushVisits(n) ==
  /\ fl.todo # {} /\ n = Min(fl.todo)
  /\ \/ \E c \in {0, cidx[n]} : Settled(n, Reached(fl, n), c)
     \/ "refuse" \in Faults /\ UNCHANGED <<card, file>>
  /\ fl' = IF fl.todo = {n} THEN NoFlush ELSE [fl EXCEPT !.todo = @ \ {n}]
  /\ UNCHANGED <<world, proc, pass, moves, exposed>>

-----------------------------------------------------------------------------
\* The process dies, possibly between the writes of a migration, and another
\* is started later: only the files remain.

Crash ==
  /\ "crash" \in Faults
  /\ Dead
  /\ \/ UNCHANGED file
     \/ \E n \in Name :
          /\ \/ Sweeping(n) /\ Renamed(n)
             \/ Visiting(n) /\ Wearer(rd, n) \in rd.up /\ Reused(n, Wearer(rd, n))
                /\ RenamedTarget(rd, n) # 0
          /\ file[n].macs # {}
          /\ file' \in MigrateCut(n, RenamedTarget(rd, n), file[n].idx)
  /\ UNCHANGED <<world, card, moves, more>>

Next ==
  \/ \E i \in Iface, n \in Name : Rename(i, n) \/ Appear(i, n)
  \/ \E i \in Iface : Depart(i) \/ Rebridge(i)
  \/ \E i \in Iface, m \in Mac : ForeignAdd(i, m)
  \/ PassBegin \/ SweepDone \/ PassDone
  \/ \E n \in Name : SweepFollows(n) \/ SweepSettles(n)
  \/ \E n \in Name : PairReused(n) \/ PairWaits(n) \/ PairOpens(n)
  \/ \E want \in SUBSET Mac : PairWrites(want)
  \/ \E n \in Name, m \in Mac : FastRegisters(n, m) \/ FastReflects(n, m)
  \/ FlushBegins \/ Crash
  \/ \E n \in Name : FlushVisits(n)

Spec == Init /\ [][Next]_vars

-----------------------------------------------------------------------------
\* Every variable has its type, and no two interfaces share a name.
TypeOK ==
  /\ name \in [Iface -> Name \cup {0}]
  /\ \A i, j \in Iface : name[i] = name[j] /\ name[i] # 0 => i = j
  /\ spent \subseteq Iface /\ up \subseteq spent
  /\ mine \in [Iface -> SUBSET Mac] /\ others \in [Iface -> SUBSET Mac]
  /\ ever \in [Iface -> SUBSET Mac]
  /\ file \in [Name -> [there : BOOLEAN, macs : SUBSET Mac,
                         idx : Iface \cup {0}]]
  /\ cidx \in [Name -> Iface \cup {0}]
  /\ absent \subseteq Name /\ pairs \subseteq Name
  /\ pc \in {"idle", "sweep", "pairs"}
  /\ todo \subseteq Name /\ at \in Name \cup {0} /\ held \subseteq Mac
  /\ moves \in 0 .. Burst
  /\ fl.todo \subseteq Name /\ exposed \subseteq Iface

\* An entry this program added has a line on record that leads back to it:
\* a --flush that started now would take it out of the very interface it is in
\* (notes.rs:3).  Whatever was renamed, migrated, re-used, refused, flushed or
\* cut short, nothing of ours is out of reach - but of two interfaces one of
\* which a refused migration left with the other's note under its name.
OnRecord ==
  \A i \in Iface \ exposed : \A m \in mine[i] :
    \E n \in Name : m \in file[n].macs /\ Reached(Reading, n) = i

\* A name's new wearer finds the old one's note under it (mod.rs:811-814):
\* what another put into a filter is never taken out by us on the strength of
\* a line about another interface, with the same exception.
OthersStay ==
  [][\A i \in Iface \ exposed :
       name'[i] # 0 => others[i] \ ever[i] \subseteq others'[i]]_vars
=============================================================================
