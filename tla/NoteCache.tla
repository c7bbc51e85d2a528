----------------------------- MODULE NoteCache ------------------------------
(***************************************************************************)
(* The file of one ownership note and the copy of it the daemon keeps      *)
(* (src/sync/notes.rs).  Checking the copy costs a stat: it is believed    *)
(* while the file's inode, size and timestamp are those it was read under. *)
(* Other processes - a --once, a --flush, a --check - write the same file, *)
(* and looking at it takes no lock.                                        *)
(*                                                                         *)
(* A file's lines are its set, and a write that did not finish leaves a    *)
(* tail behind them.  Timestamps come from a clock that advances every     *)
(* Coarse instants, the moment of a reading from the exact one.            *)
(***************************************************************************)
EXTENDS Integers, FiniteSets

CONSTANTS
  Mac,
  Coarse,    \* instants in a tick of the file system's clock
  MaxTime,   \* bound: instants
  Ops,       \* bound: changes the daemon makes
  Writes,    \* bound: writes of other processes
  Tears,     \* bound: writes that stop in the middle of a line
  Faults     \* what goes wrong, see AllFaults

\* "read"   the file cannot be read for a moment
\* "unnote" the same, at the reading unnote_locked makes
\* "write"  a temporary, or its rename, fails
\* "whole"  a torn line may lack only its newline
\* "lock"   the lock is not to be had, and writing goes on without
\* "inodes" the number of a file that is gone may be given to the next
AllFaults == {"read", "unnote", "write", "whole", "lock", "inodes"}

\* What a tail may be that is no address.
None == "none"
Part == "part"

ASSUME NoteCacheConstants ==
  /\ IsFiniteSet(Mac) /\ None \notin Mac /\ Part \notin Mac
  /\ Coarse \in Nat \ {0} /\ MaxTime \in Nat /\ Ops \in Nat /\ Writes \in Nat /\ Tears \in Nat
  /\ Faults \subseteq AllFaults

VARIABLES
  file,     \* [ino, set, tail, mtime]; no file has inode 0
  fresh,    \* the inode the next file gets
  now,      \* the time
  cache,    \* notes[dev]: [ino, len, mtime, set, read_at]; none has inode 0
  unread,   \* said.unreadable: the last reading failed
  locked,   \* the daemon holds the lock
  at, op,   \* what the daemon is doing: its step, [kind, mac] of the operation
  then,     \* the step after the look at the note that is under way
  before,   \* the stat before a reading: [ino, len, mtime]
  got,      \* what was read, then what the note was found to say
  goal,     \* the set to be written
  was,      \* the size the copy had when appending began; -1 for no copy
  ok,       \* what the operation answers
  ops, writes, tears

disk == <<file, fresh>>
vars == <<disk, now, cache, unread, locked, at, op, then, before, got, goal, was, ok, ops, writes, tears>>

NoFile == [ino |-> 0, set |-> {}, tail |-> None, mtime |-> 0]
NoCopy == [ino |-> 0, len |-> 0, mtime |-> 0, set |-> {}, read_at |-> 0]
NoStat == [ino |-> 0, len |-> 0, mtime |-> 0]
Idle == [kind |-> "look", mac |-> None]
Kinds == {"append", "unnote", "merge"}

\* A line and its newline; a torn one has lost the newline, or more.
TailSize(t) == IF t = None THEN 0 ELSE IF t = Part THEN 1 ELSE 2
Size(f) == 3 * Cardinality(f.set) + TailSize(f.tail)

\* read_owned: a line that lacks only its newline reads as one.
Content(f) == f.set \cup ({f.tail} \cap Mac)

Stat(f) == [ino |-> f.ino, len |-> IF f.ino = 0 THEN 0 ELSE Size(f), mtime |-> f.mtime]
Tick == now - (now % Coarse)

File == [ino : Nat, set : SUBSET Mac, tail : Mac \cup {None, Part}, mtime : 0 .. MaxTime]
Sized == [ino : Nat, len : Nat, mtime : 0 .. MaxTime]

TypeOK ==
  /\ file \in File /\ (file.ino = 0 => file = NoFile)
  /\ fresh \in Nat /\ now \in 0 .. MaxTime
  /\ cache \in [ino : Nat, len : Nat, mtime : 0 .. MaxTime, set : SUBSET Mac,
                read_at : 0 .. MaxTime]
  /\ unread \in BOOLEAN /\ locked \in BOOLEAN /\ ok \in BOOLEAN
  /\ locked => op.kind \in Kinds
  /\ at \in {"idle", "stat", "read", "again", "work", "compare", "put", "remember", "done"}
  /\ then \in {"idle", "work", "compare"}
  /\ op \in [kind : {"look"} \cup Kinds, mac : Mac \cup {None}]
  /\ before \in Sized /\ got \subseteq Mac /\ goal \subseteq Mac /\ was \in Int
  /\ ops \in 0 .. Ops /\ writes \in 0 .. Writes /\ tears \in 0 .. Tears

Init ==
  /\ file \in {NoFile} \cup {[ino |-> 1, set |-> S, tail |-> None, mtime |-> 0] : S \in SUBSET Mac}
  /\ fresh = 2 /\ now = 0
  /\ cache = NoCopy /\ unread = FALSE /\ locked = FALSE
  /\ at = "idle" /\ op = Idle /\ then = "idle" /\ before = NoStat /\ got = {} /\ goal = {} /\ was = -1 /\ ok = TRUE
  /\ ops = 0 /\ writes = 0 /\ tears = 0

\* A file put in place by renaming a temporary onto it, or made by an append.
\* On the tmpfs that /run is, an inode number is not used twice.
Made(S) ==
  \E ino \in {fresh} \cup (IF "inodes" \in Faults THEN 1 .. fresh ELSE {}) :
    /\ ino # file.ino
    /\ file' = [ino |-> ino, set |-> S, tail |-> None, mtime |-> Tick]
    /\ fresh' = fresh + 1

-----------------------------------------------------------------------------
(* Looking: with_owned                                                      *)

\* Mutant: the same inode is enough.
IsStillInode(c, f) == c.ino = f.ino

\* Note::is_still
IsStill(c, f) ==
  /\ c.ino = f.ino /\ c.len = Size(f) /\ c.mtime = f.mtime
  /\ c.mtime < c.read_at

Usable == file.ino # 0 /\ cache.ino # 0 /\ IsStill(cache, file)

\* remember, the stat being s
Copy(s, S) ==
  [ino |-> s.ino, len |-> s.len, mtime |-> s.mtime, set |-> S, read_at |-> now]

\* The daemon looks at the note, or begins to change it under the lock.
Look ==
  /\ at = "idle" /\ at' = "stat" /\ then' = "idle"
  /\ UNCHANGED <<disk, now, cache, unread, locked, op, before, got, goal, was, ok, ops, writes, tears>>

Lock(kind, mac) ==
  /\ at = "idle" /\ ops < Ops /\ ops' = ops + 1
  /\ op' = [kind |-> kind, mac |-> mac] /\ ok' = FALSE
  /\ locked' \in {TRUE, "lock" \notin Faults}
  \* unnote_locked asks whether the note is readable before it reads it
  /\ at' = IF kind = "merge" THEN "work" ELSE IF kind = "unnote" /\ unread THEN "done" ELSE "stat"
  /\ then' = "work"
  /\ UNCHANGED <<disk, now, cache, unread, before, got, goal, was, writes, tears>>

LookStats ==
  /\ at = "stat"
  /\ \/ Usable /\ got' = cache.set /\ at' = then /\ UNCHANGED before
     \/ ~Usable /\ before' = Stat(file) /\ at' = "read" /\ UNCHANGED got
  /\ UNCHANGED <<disk, now, cache, unread, locked, op, then, goal, was, ok, ops, writes, tears>>

\* read_owned: no file reads as an empty note.
Reads ==
  \/ got' = Content(file) /\ unread' = FALSE
  \/ /\ IF op.kind = "unnote" THEN "unnote" \in Faults ELSE "read" \in Faults
     /\ file.ino # 0
     /\ got' = {} /\ unread' = TRUE

LookReads ==
  /\ at = "read" /\ at' = "again"
  /\ Reads
  /\ UNCHANGED <<disk, now, cache, locked, op, then, before, goal, was, ok, ops, writes, tears>>

\* Mutant: the file is taken not to have moved.
SteadyAlways == file.ino # 0

Steady == before.ino # 0 /\ file.ino # 0 /\ before = Stat(file)

LookAgain ==
  /\ at = "again" /\ at' = then
  /\ cache' = IF ~unread /\ Steady THEN Copy(Stat(file), got) ELSE NoCopy
  /\ UNCHANGED <<disk, now, unread, locked, op, then, before, got, goal, was, ok, ops, writes, tears>>

-----------------------------------------------------------------------------
(* Changing: append_owned_locked, unnote_locked, save_owned_merged          *)

\* A line at the end, after what an unfinished write left has been cut off;
\* the write may stop in its middle.
AppendWrites ==
  /\ at = "work" /\ op.kind = "append"
  /\ was' = IF cache.ino = 0 THEN -1 ELSE cache.len
  /\ \/ /\ unread \/ op.mac \in got
        /\ ok' = ~unread /\ at' = "done"
        /\ UNCHANGED <<disk, cache, goal, tears>>
     \/ /\ ~unread /\ op.mac \notin got
        /\ IF file.ino = 0 THEN Made({op.mac})
           ELSE /\ file' = [file EXCEPT !.set = @ \cup {op.mac}, !.tail = None, !.mtime = Tick]
                /\ UNCHANGED fresh
        /\ goal' = got \cup {op.mac} /\ at' = "remember"
        /\ UNCHANGED <<cache, ok, tears>>
     \/ /\ ~unread /\ op.mac \notin got
        /\ tears < Tears /\ tears' = tears + 1
        /\ file.ino # 0
        /\ \E t \in {Part} \cup (IF "whole" \in Faults THEN {op.mac} ELSE {}) :
             file' = [file EXCEPT !.tail = t, !.mtime = Tick]
        /\ cache' = NoCopy /\ at' = "done"
        /\ UNCHANGED <<fresh, goal, ok>>
  /\ UNCHANGED <<now, unread, locked, op, then, before, got, ops, writes>>

\* The size tells whether the file was still the one the copy was of.
AppendRemembers ==
  /\ at = "remember" /\ op.kind = "append"
  /\ cache' = IF file.ino = 0 \/ (was # -1 /\ Size(file) # was + 3) THEN NoCopy
              ELSE Copy(Stat(file), goal)
  /\ ok' = TRUE /\ at' = "done"
  /\ UNCHANGED <<disk, now, unread, locked, op, then, before, got, goal, was, ops, writes, tears>>

\* save_owned_merged reads the file itself, and applies what changed: one
\* address more, or one less.
MergeReads ==
  /\ at = "work" /\ op.kind = "merge"
  /\ Reads
  /\ goal' \in {got' \cup {op.mac}, got' \ {op.mac}}
  /\ at' = "put"
  /\ UNCHANGED <<disk, now, cache, locked, op, then, before, was, ok, ops, writes, tears>>

\* Nothing to take out, or the rest is to be written.
UnnoteWorks ==
  /\ at = "work" /\ op.kind = "unnote"
  /\ goal' = got \ {op.mac}
  /\ \/ op.mac \notin got /\ ok' = TRUE /\ at' = "done"
     \/ op.mac \in got /\ at' = "put" /\ UNCHANGED ok
  /\ UNCHANGED <<disk, now, cache, unread, locked, op, then, before, got, was, ops, writes, tears>>

\* Mutant: a note that could not be read is replaced all the same.
RefusesNever == FALSE

\* write_owned: a note that cannot be read is not replaced.
Refuses == unread

\* write_owned compares with what is there before it writes.
WriteBegins ==
  /\ at = "put" /\ then' = "compare"
  /\ \/ Refuses /\ ok' = FALSE /\ at' = "done"
     \/ ~Refuses /\ at' = "stat" /\ UNCHANGED ok
  /\ UNCHANGED <<disk, now, cache, unread, locked, op, before, got, goal, was, ops, writes, tears>>

WritePuts ==
  /\ at = "compare"
  /\ \/ got = goal /\ ok' = TRUE /\ at' = "done" /\ UNCHANGED <<disk, cache>>
     \/ got # goal /\ Made(goal) /\ at' = "remember" /\ UNCHANGED <<cache, ok>>
     \/ /\ got # goal /\ "write" \in Faults
        /\ cache' = NoCopy /\ ok' = FALSE /\ at' = "done" /\ UNCHANGED disk
  /\ UNCHANGED <<now, unread, locked, op, then, before, got, goal, was, ops, writes, tears>>

WriteRemembers ==
  /\ at = "remember" /\ op.kind # "append"
  /\ cache' = IF file.ino = 0 THEN NoCopy ELSE Copy(Stat(file), goal)
  /\ ok' = TRUE /\ at' = "done"
  /\ UNCHANGED <<disk, now, unread, locked, op, then, before, got, goal, was, ops, writes, tears>>

\* Mutant: the lock is not given back.
UnlockNot ==
  /\ at = "done" /\ at' = "idle"
  /\ op' = Idle /\ then' = "idle" /\ got' = {} /\ goal' = {} /\ was' = -1 /\ before' = NoStat
  /\ UNCHANGED <<disk, now, cache, unread, locked, ok, ops, writes, tears>>

Unlock ==
  /\ at = "done" /\ at' = "idle" /\ locked' = FALSE
  /\ op' = Idle /\ then' = "idle" /\ got' = {} /\ goal' = {} /\ was' = -1 /\ before' = NoStat
  /\ UNCHANGED <<disk, now, cache, unread, ok, ops, writes, tears>>

\* remove_note: the last line went, or a sweep settled the note.
Forget ==
  /\ at = "idle" /\ ops < Ops /\ ops' = ops + 1
  /\ file' = NoFile /\ cache' = NoCopy
  /\ UNCHANGED <<fresh, now, unread, locked, at, op, then, before, got, goal, was, ok, writes, tears>>

-----------------------------------------------------------------------------
(* Other processes, and time                                                *)

\* They take the lock too.
Elsewhere ==
  /\ ~locked
  /\ writes < Writes /\ writes' = writes + 1
  /\ UNCHANGED <<now, cache, unread, locked, at, op, then, before, got, goal, was, ok, ops>>

OtherReplaces ==
  /\ Elsewhere
  /\ \E S \in SUBSET Mac : Made(S)
  /\ UNCHANGED tears

OtherAppends ==
  /\ Elsewhere /\ file.ino # 0
  /\ \E m \in Mac \ Content(file) :
       file' = [file EXCEPT !.set = @ \cup {m}, !.tail = None, !.mtime = Tick]
  /\ UNCHANGED <<fresh, tears>>

OtherTears ==
  /\ Elsewhere /\ file.ino # 0
  /\ tears < Tears /\ tears' = tears + 1
  /\ \E t \in {Part} \cup (IF "whole" \in Faults THEN Mac \ Content(file) ELSE {}) :
       file' = [file EXCEPT !.tail = t, !.mtime = Tick]
  /\ UNCHANGED fresh

OtherRemoves ==
  /\ Elsewhere /\ file.ino # 0
  /\ file' = NoFile
  /\ UNCHANGED <<fresh, tears>>

Advance ==
  /\ now < MaxTime /\ now' = now + 1
  /\ UNCHANGED <<disk, cache, unread, locked, at, op, then, before, got, goal, was, ok, ops, writes, tears>>

Own == Look \/ (\E kind \in Kinds, mac \in Mac : Lock(kind, mac))
       \/ LookStats \/ LookReads \/ LookAgain
       \/ AppendWrites \/ AppendRemembers \/ MergeReads \/ UnnoteWorks
       \/ WriteBegins \/ WritePuts \/ WriteRemembers \/ Unlock \/ Forget
Other == OtherReplaces \/ OtherAppends \/ OtherTears \/ OtherRemoves

Next == Own \/ Other \/ Advance

Spec == Init /\ [][Next]_vars

-----------------------------------------------------------------------------
(* Properties *)

\* "A daemon believing a remembered copy would go on owning entries somebody
\* has since taken": a copy that would be believed now says what the file says,
\* whatever others wrote between the stats and the reading it was made from.
CacheIsTruth == Usable => cache.set = Content(file)

\* "Unreadable is not removed", and a line once written is on record: an
\* operation that answers yes has done what it was asked - the line that was
\* appended is there to be read, the line that was taken back is not.
AnswersAreTrue ==
  at = "done" /\ ok =>
    /\ op.kind = "append" => op.mac \in Content(file)
    /\ op.kind = "unnote" => op.mac \notin Content(file)

\* "Whatever else has been added meanwhile stays": a write of the daemon
\* loses no other line than the one it is about, however stale its copy and
\* even when the note could not be read a moment ago.
LinesSurvive ==
  [][Own /\ file'.ino # 0 => Content(file) \ {op.mac} \subseteq Content(file') \cup {file.tail}]_vars
=============================================================================
