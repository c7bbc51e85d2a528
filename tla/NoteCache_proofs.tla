-------------------------- MODULE NoteCache_proofs ---------------------------
(***************************************************************************)
(* That the copy of a note is believed only while it says what the file    *)
(* says, that the daemon's answers about a note are true and that it loses *)
(* no line of others, for any set of addresses, any clock and any number   *)
(* of writes by whatever processes.                                        *)
(***************************************************************************)
EXTENDS NoteCache, FiniteSetTheorems, TLAPS

-----------------------------------------------------------------------------
(* The inductive invariant *)

\* Of the faults, those the code relies on not to happen: that the number of a
\* file is not given to another, that writers take turns, and that a line torn
\* but for its newline is not torn again into another of its length.
Turns == "inodes" \notin Faults /\ "lock" \notin Faults
OneTear == "whole" \in Faults => Tears <= 1

Typed ==
  /\ TypeOK
  /\ fresh > 0
  /\ op.kind \in Kinds => op.mac \in Mac

\* Which operation may be at which step, and that it has the lock.
Control ==
  /\ at = "idle" => op.kind = "look" /\ then = "idle"
  /\ op.kind = "look" => at \in {"idle", "stat", "read", "again"} /\ then = "idle"
  /\ op.kind \in Kinds => locked /\ then \in {"work", "compare"} /\ (at # "done" => ~ok)
  /\ at \in {"work", "put"} => then = "work"
  /\ at = "compare" => then = "compare"
  /\ then = "compare" \/ at = "put" => op.kind \in {"unnote", "merge"}

\* What a torn write may have left.
Torn ==
  /\ tears = 0 => file.tail = None
  /\ "whole" \notin Faults => file.tail \notin Mac

\* A stat s of a file that may have been written since, the file being f now
\* and n the next number: it is the number of no file to come, and while it is
\* that of f, f has only grown.
Older(s, f, n) == s.ino < n /\ (s.ino # 0 /\ s.ino = f.ino => s.len <= Size(f))

\* A reading under that stat is true for as long as the stat is.
Holds(s, S, f, n) ==
  Older(s, f, n) /\ (s.ino # 0 /\ s.ino = f.ino /\ s.len = Size(f) => S = Content(f))

Copies ==
  /\ file.ino < fresh
  /\ Holds(cache, cache.set, file, fresh)
  /\ at = "read" => Older(before, file, fresh)
  /\ at = "again" => Older(before, file, fresh) /\ (~unread => Holds(before, got, file, fresh))

\* Under the lock, a look ends with what the file says and a copy of it.
Looked ==
  /\ op.kind \in Kinds /\ at \in {"read", "again"} => before = Stat(file)
  /\ op.kind \in Kinds /\ at = "again" /\ ~unread => got = Content(file)
  /\ (at = "work" /\ op.kind # "merge") \/ at = "compare" =>
       (~unread => /\ got = Content(file)
                   /\ IF file.ino = 0 THEN cache.ino = 0
                      ELSE cache.ino = file.ino /\ cache.len = Size(file))

\* What a note that could not be read is taken for where one is taken back.
Unread ==
  op.kind = "unnote" /\ unread /\ at # "done" =>
    /\ "unnote" \in Faults
    /\ then = "work" => at \in {"again", "work"} /\ got = {}

\* What is to be written keeps the lines of others.
Aim ==
  (at = "put" /\ ~unread) \/ (then = "compare" /\ at \in {"stat", "read", "again", "compare"}) =>
    /\ Content(file) \ {op.mac} \subseteq goal
    /\ op.kind = "unnote" => op.mac \notin goal

\* What has been written, as it is going to be remembered.
Written ==
  at = "remember" =>
    /\ file.ino # 0 /\ file.tail = None
    /\ op.kind = "append" => op.mac \in file.set /\ (was = -1 \/ Size(file) = was + 3 => goal = file.set)
    /\ op.kind # "append" => goal = file.set
    /\ op.kind = "unnote" => op.mac \notin goal

Answered == "unnote" \notin Faults => AnswersAreTrue

Inv == Control /\ Torn /\ Copies /\ Looked /\ Unread /\ Aim /\ Written /\ Answered
IInv == Typed /\ Inv

-----------------------------------------------------------------------------
(* Sizes and times *)

LEMMA Constants ==
  /\ Coarse \in Nat /\ Coarse > 0 /\ MaxTime \in Nat /\ Ops \in Nat /\ Writes \in Nat /\ Tears \in Nat
  /\ IsFiniteSet(Mac) /\ None \notin Mac /\ Part \notin Mac /\ None # Part
BY NoteCacheConstants DEF None, Part

LEMMA TickTyped ==
  ASSUME now \in 0 .. MaxTime
  PROVE  Tick \in 0 .. MaxTime
<1>1. now \in Nat /\ now % Coarse \in Nat /\ now % Coarse <= now
  BY Constants
<1> QED BY <1>1, Constants DEF Tick

\* How many lines a file has, and that one more is one more.
LEMMA Counting ==
  ASSUME NEW S \in SUBSET Mac
  PROVE  /\ Cardinality(S) \in Nat
         /\ \A m \in Mac : m \notin S => Cardinality(S \cup {m}) = Cardinality(S) + 1
<1>1. IsFiniteSet(S)
  BY Constants, FS_Subset
<1> QED BY <1>1, FS_CardinalityType, FS_AddElement

LEMMA SizeTyped ==
  ASSUME NEW f \in File
  PROVE  Size(f) \in Nat /\ Content(f) \subseteq Mac /\ Stat(f) \in Sized
<1>1. f.set \in SUBSET Mac /\ f.ino \in Nat /\ f.mtime \in 0 .. MaxTime
  BY DEF File
<1>2. Cardinality(f.set) \in Nat
  BY <1>1, Counting
<1>3. TailSize(f.tail) \in 0 .. 2
  BY DEF TailSize
<1>4. Size(f) \in Nat
  BY <1>2, <1>3 DEF Size
<1> QED BY <1>1, <1>4 DEF Content, Stat, Sized

\* A line at the end makes the file larger, a line that lacks something
\* too, where there was no such line before it.
LEMMA Grows ==
  ASSUME NEW f \in File, NEW m \in Mac, m \notin f.set, NEW t
  PROVE  /\ Size([f EXCEPT !.set = @ \cup {m}, !.tail = None, !.mtime = t])
              = 3 * Cardinality(f.set) + 3
         /\ 3 * Cardinality(f.set) + 3 > Size(f)
<1>1. f.set \in SUBSET Mac
  BY DEF File
<1>2. Cardinality(f.set) \in Nat /\ Cardinality(f.set \cup {m}) = Cardinality(f.set) + 1
  BY <1>1, Counting
<1>3. TailSize(f.tail) \in 0 .. 2 /\ TailSize(None) = 0
  BY DEF TailSize
<1>4. [f EXCEPT !.set = @ \cup {m}, !.tail = None, !.mtime = t].set = f.set \cup {m}
      /\ [f EXCEPT !.set = @ \cup {m}, !.tail = None, !.mtime = t].tail = None
  BY DEF File
<1> QED BY <1>2, <1>3, <1>4 DEF Size

-----------------------------------------------------------------------------
(* Types *)

LEMMA TypeInit == Init => Typed
<1> SUFFICES ASSUME Init PROVE Typed
  OBVIOUS
<1>1. file \in File /\ (file.ino = 0 => file = NoFile)
  BY Constants DEF Init, File, NoFile
<1>2. /\ cache \in [ino : Nat, len : Nat, mtime : 0 .. MaxTime, set : SUBSET Mac,
                    read_at : 0 .. MaxTime]
      /\ before \in Sized
  BY Constants DEF Init, NoCopy, NoStat, Sized
<1>3. op \in [kind : {"look"} \cup Kinds, mac : Mac \cup {None}] /\ op.kind \notin Kinds
  BY DEF Init, Idle, Kinds
<1>4. fresh = 2 /\ now = 0 /\ ops = 0 /\ writes = 0 /\ tears = 0 /\ was = -1 /\ got = {} /\ goal = {}
      /\ unread = FALSE /\ locked = FALSE /\ ok = TRUE /\ at = "idle" /\ then = "idle"
  BY DEF Init
<1>5. 0 \in 0 .. MaxTime /\ 0 \in 0 .. Ops /\ 0 \in 0 .. Writes /\ 0 \in 0 .. Tears /\ -1 \in Int
  BY Constants
<1>6. fresh \in Nat /\ fresh > 0 /\ was \in Int
  BY <1>4
<1> QED BY <1>1, <1>2, <1>3, <1>4, <1>5, <1>6 DEF Typed, TypeOK

LEMMA MadeTyped ==
  ASSUME Typed, NEW S \in SUBSET Mac, Made(S)
  PROVE  /\ file' \in File /\ file'.ino # 0 /\ fresh' \in Nat /\ fresh' = fresh + 1
         /\ file'.set = S /\ file'.tail = None
         /\ "inodes" \notin Faults => file'.ino = fresh
<1>1. PICK ino \in {fresh} \cup (IF "inodes" \in Faults THEN 1 .. fresh ELSE {}) :
        file' = [ino |-> ino, set |-> S, tail |-> None, mtime |-> Tick] /\ fresh' = fresh + 1
  BY DEF Made
<1>2. fresh \in Nat /\ fresh > 0 /\ Tick \in 0 .. MaxTime
  BY TickTyped DEF Typed, TypeOK
<1>3. ino \in Nat /\ ino # 0 /\ ("inodes" \notin Faults => ino = fresh)
  BY <1>1, <1>2
<1> QED BY <1>1, <1>2, <1>3 DEF File

LEMMA CopyTyped ==
  ASSUME TypeOK, NEW S \in SUBSET Mac
  PROVE  /\ Copy(Stat(file), S) \in [ino : Nat, len : Nat, mtime : 0 .. MaxTime, set : SUBSET Mac,
                                     read_at : 0 .. MaxTime]
         /\ NoCopy \in [ino : Nat, len : Nat, mtime : 0 .. MaxTime, set : SUBSET Mac,
                        read_at : 0 .. MaxTime]
<1>1. Stat(file) \in Sized /\ now \in 0 .. MaxTime /\ 0 \in 0 .. MaxTime
  BY SizeTyped, Constants DEF TypeOK
<1> QED BY <1>1 DEF Copy, NoCopy, Sized

LEMMA ReadsTyped ==
  ASSUME TypeOK, Reads
  PROVE  got' \in SUBSET Mac /\ unread' \in BOOLEAN
BY SizeTyped DEF Reads, TypeOK

LEMMA OwnTyped == Typed /\ Own => Typed'
<1> SUFFICES ASSUME Typed, Own PROVE Typed'
  OBVIOUS
<1> USE Constants
<1>0. /\ \A S \in SUBSET Mac :
           /\ Copy(Stat(file), S) \in [ino : Nat, len : Nat, mtime : 0 .. MaxTime, set : SUBSET Mac,
                                       read_at : 0 .. MaxTime]
      /\ NoCopy \in [ino : Nat, len : Nat, mtime : 0 .. MaxTime, set : SUBSET Mac,
                     read_at : 0 .. MaxTime]
      /\ Stat(file) \in Sized /\ Content(file) \subseteq Mac /\ Size(file) \in Nat
  BY CopyTyped, SizeTyped DEF Typed, TypeOK
<1>1. CASE Look
  BY <1>1 DEF Look, Typed, TypeOK, disk
<1>2. ASSUME NEW kind \in Kinds, NEW mac \in Mac, Lock(kind, mac) PROVE Typed'
  <2>1. op' \in [kind : {"look"} \cup Kinds, mac : Mac \cup {None}]
        /\ op'.kind \in Kinds /\ op'.mac \in Mac
    BY <1>2 DEF Lock
  <2>2. locked' \in BOOLEAN
    BY <1>2, Zenon DEF Lock
  <2>3. ops' \in 0 .. Ops /\ then' = "work" /\ ok' = FALSE
    BY <1>2 DEF Lock, Typed, TypeOK
  <2>4. at' \in {"work", "done", "stat"}
    BY <1>2 DEF Lock
  <2> QED BY <1>2, <2>1, <2>2, <2>3, <2>4 DEF Lock, Typed, TypeOK, disk
<1>3. CASE LookStats
  <2>1. got' \subseteq Mac /\ before' \in Sized /\ at' \in {"idle", "work", "compare", "read"}
    BY <1>0, <1>3 DEF LookStats, Typed, TypeOK
  <2> QED BY <1>3, <2>1 DEF LookStats, Typed, TypeOK, disk
<1>4. CASE LookReads
  BY <1>4, ReadsTyped DEF LookReads, Typed, TypeOK, disk
<1>5. CASE LookAgain
  <2>1. cache' \in [ino : Nat, len : Nat, mtime : 0 .. MaxTime, set : SUBSET Mac,
                    read_at : 0 .. MaxTime]
    BY <1>0, <1>5 DEF LookAgain, Typed, TypeOK
  <2> QED BY <1>5, <2>1 DEF LookAgain, Typed, TypeOK, disk
<1>6. CASE AppendWrites
  <2>1. op.mac \in Mac /\ at = "work" /\ was' \in Int
    <3>1. op.mac \in Mac /\ at = "work"
      BY <1>6 DEF AppendWrites, Typed, Kinds
    <3>2. was' = (IF cache.ino = 0 THEN -1 ELSE cache.len) /\ cache.len \in Nat
      BY <1>6 DEF AppendWrites, Typed, TypeOK
    <3> QED BY <3>1, <3>2
  <2>2. at' \in {"done", "remember"} /\ ok' \in BOOLEAN /\ goal' \subseteq Mac
    BY <1>6, <2>1 DEF AppendWrites, Typed, TypeOK
  <2>3. /\ file' \in File /\ (file'.ino = 0 => file' = NoFile) /\ fresh' \in Nat /\ fresh' > 0
        /\ cache' \in [ino : Nat, len : Nat, mtime : 0 .. MaxTime, set : SUBSET Mac,
                       read_at : 0 .. MaxTime]
        /\ tears' \in 0 .. Tears
    <3>1. CASE UNCHANGED <<disk, cache, goal, tears>>
      BY <3>1 DEF Typed, TypeOK, disk
    <3>2. CASE /\ IF file.ino = 0 THEN Made({op.mac})
                  ELSE /\ file' = [file EXCEPT !.set = @ \cup {op.mac}, !.tail = None, !.mtime = Tick]
                       /\ UNCHANGED fresh
               /\ UNCHANGED <<cache, ok, tears>>
      <4>1. CASE Made({op.mac})
        BY <2>1, <3>2, <4>1, MadeTyped DEF Typed, TypeOK
      <4>2. CASE /\ file.ino # 0
                 /\ file' = [file EXCEPT !.set = @ \cup {op.mac}, !.tail = None, !.mtime = Tick]
                 /\ UNCHANGED fresh
        <5>1. Tick \in 0 .. MaxTime
          BY TickTyped DEF Typed, TypeOK
        <5>2. file' \in File /\ file'.ino = file.ino
          BY <2>1, <4>2, <5>1 DEF Typed, TypeOK, File
        <5> QED BY <3>2, <4>2, <5>2 DEF Typed, TypeOK
      <4> QED BY <3>2, <4>1, <4>2
    <3>3. CASE /\ tears < Tears /\ tears' = tears + 1
               /\ file.ino # 0
               /\ \E t \in {Part} \cup (IF "whole" \in Faults THEN {op.mac} ELSE {}) :
                    file' = [file EXCEPT !.tail = t, !.mtime = Tick]
               /\ cache' = NoCopy /\ UNCHANGED fresh
      <4>1. PICK t \in Mac \cup {None, Part} : file' = [file EXCEPT !.tail = t, !.mtime = Tick]
        BY <2>1, <3>3
      <4>2. Tick \in 0 .. MaxTime
        BY TickTyped DEF Typed, TypeOK
      <4>3. file' \in File /\ file'.ino = file.ino
        BY <4>1, <4>2 DEF Typed, TypeOK, File
      <4>4. tears' \in 0 .. Tears
        BY <3>3 DEF Typed, TypeOK
      <4> QED BY <1>0, <3>3, <4>3, <4>4 DEF Typed, TypeOK
    <3> QED BY <1>6, <3>1, <3>2, <3>3 DEF AppendWrites
  <2> QED BY <1>6, <2>1, <2>2, <2>3 DEF AppendWrites, Typed, TypeOK
<1>7. CASE AppendRemembers \/ WriteRemembers
  <2>1. cache' \in [ino : Nat, len : Nat, mtime : 0 .. MaxTime, set : SUBSET Mac,
                    read_at : 0 .. MaxTime]
    BY <1>0, <1>7 DEF AppendRemembers, WriteRemembers, Typed, TypeOK
  <2>2. /\ ok' = TRUE /\ at' = "done"
        /\ UNCHANGED <<disk, now, unread, locked, op, then, before, got, goal, was, ops, writes, tears>>
    BY <1>7 DEF AppendRemembers, WriteRemembers
  <2> QED BY <2>1, <2>2 DEF Typed, TypeOK, disk
<1>8. CASE MergeReads
  <2>1. op.mac \in Mac /\ got' \in SUBSET Mac /\ unread' \in BOOLEAN
    BY <1>8, ReadsTyped DEF MergeReads, Typed, Kinds
  <2>2. goal' \subseteq Mac
    BY <1>8, <2>1 DEF MergeReads
  <2> QED BY <1>8, <2>1, <2>2 DEF MergeReads, Typed, TypeOK, disk
<1>9. CASE UnnoteWorks
  <2>1. goal' \subseteq Mac
    BY <1>9 DEF UnnoteWorks, Typed, TypeOK
  <2> QED BY <1>9, <2>1 DEF UnnoteWorks, Typed, TypeOK, disk
<1>10. CASE WriteBegins
  BY <1>10 DEF WriteBegins, Typed, TypeOK, disk
<1>11. CASE WritePuts
  <2>1. /\ file' \in File /\ (file'.ino = 0 => file' = NoFile) /\ fresh' \in Nat /\ fresh' > 0
        /\ cache' \in [ino : Nat, len : Nat, mtime : 0 .. MaxTime, set : SUBSET Mac,
                       read_at : 0 .. MaxTime]
        /\ at' \in {"done", "remember"} /\ ok' \in BOOLEAN
    <3>1. CASE Made(goal) /\ at' = "remember" /\ UNCHANGED <<cache, ok>>
      BY <3>1, MadeTyped DEF Typed, TypeOK
    <3>2. CASE UNCHANGED disk /\ cache' \in {cache, NoCopy} /\ at' = "done" /\ ok' \in BOOLEAN
      BY <1>0, <3>2 DEF Typed, TypeOK, disk
    <3> QED BY <1>11, <3>1, <3>2 DEF WritePuts
  <2> QED BY <1>11, <2>1 DEF WritePuts, Typed, TypeOK
<1>12. CASE Unlock
  <2>1. op' \in [kind : {"look"} \cup Kinds, mac : Mac \cup {None}] /\ op'.kind \notin Kinds
    BY <1>12 DEF Unlock, Idle, Kinds
  <2>2. before' \in Sized /\ was' \in Int
    BY <1>12 DEF Unlock, NoStat, Sized
  <2> QED BY <1>12, <2>1, <2>2 DEF Unlock, Typed, TypeOK, disk
<1>13. CASE Forget
  <2>1. NoFile \in File
    BY DEF NoFile, File
  <2> QED BY <1>0, <1>13, <2>1 DEF Forget, Typed, TypeOK
<1> QED BY <1>1, <1>2, <1>3, <1>4, <1>5, <1>6, <1>7, <1>8, <1>9, <1>10, <1>11, <1>12, <1>13 DEF Own

LEMMA OtherTyped == Typed /\ (Other \/ Advance) => Typed'
<1> SUFFICES ASSUME Typed, Other \/ Advance PROVE Typed'
  OBVIOUS
<1> USE Constants
<1>1. CASE OtherReplaces
  <2>1. PICK S \in SUBSET Mac : Made(S)
    BY <1>1 DEF OtherReplaces
  <2> QED BY <1>1, <2>1, MadeTyped DEF OtherReplaces, Elsewhere, Typed, TypeOK
<1>2. CASE OtherAppends
  <2>1. PICK m \in Mac : file' = [file EXCEPT !.set = @ \cup {m}, !.tail = None, !.mtime = Tick]
    BY <1>2 DEF OtherAppends
  <2>2. Tick \in 0 .. MaxTime
    BY TickTyped DEF Typed, TypeOK
  <2>3. file' \in File /\ file'.ino = file.ino
    BY <2>1, <2>2 DEF Typed, TypeOK, File
  <2> QED BY <1>2, <2>3 DEF OtherAppends, Elsewhere, Typed, TypeOK
<1>3. CASE OtherTears
  <2>1. PICK t \in Mac \cup {None, Part} : file' = [file EXCEPT !.tail = t, !.mtime = Tick]
    BY <1>3 DEF OtherTears
  <2>2. Tick \in 0 .. MaxTime
    BY TickTyped DEF Typed, TypeOK
  <2>3. file' \in File /\ file'.ino = file.ino
    BY <2>1, <2>2 DEF Typed, TypeOK, File
  <2> QED BY <1>3, <2>3 DEF OtherTears, Elsewhere, Typed, TypeOK
<1>4. CASE OtherRemoves
  <2>1. NoFile \in File
    BY DEF NoFile, File
  <2> QED BY <1>4, <2>1 DEF OtherRemoves, Elsewhere, Typed, TypeOK
<1>5. CASE Advance
  BY <1>5 DEF Advance, Typed, TypeOK, disk
<1> QED BY <1>1, <1>2, <1>3, <1>4, <1>5 DEF Other

-----------------------------------------------------------------------------
(* Files *)

\* What a write does to the file f of next number n: it is a new one, it is
\* gone, or it is larger, unless it says the same.
Grown(f, n, g, k) ==
  \/ g = f /\ k = n
  \/ g.ino = n /\ k = n + 1
  \/ g.ino = 0 /\ k = n
  \/ /\ g.ino = f.ino /\ k = n
     /\ Size(g) > Size(f) \/ (Size(g) = Size(f) /\ Content(g) = Content(f))

LEMMA StillOlder ==
  ASSUME NEW f \in File, NEW g \in File, NEW n \in Nat, NEW k \in Nat, n > 0, f.ino < n,
         Grown(f, n, g, k), NEW s, s.ino \in Nat, s.len \in Nat, Older(s, f, n)
  PROVE  /\ g.ino < k /\ Older(s, g, k)
         /\ \A S : Holds(s, S, f, n) => Holds(s, S, g, k)
<1>1. Size(f) \in Nat /\ Size(g) \in Nat /\ f.ino \in Nat /\ g.ino \in Nat
  BY SizeTyped DEF File
<1>2. CASE g = f /\ k = n
  BY <1>2
<1>3. CASE g.ino = n /\ k = n + 1
  BY <1>1, <1>3 DEF Older, Holds
<1>4. CASE g.ino = 0 /\ k = n
  BY <1>1, <1>4 DEF Older, Holds
<1>5. CASE /\ g.ino = f.ino /\ k = n
           /\ Size(g) > Size(f) \/ (Size(g) = Size(f) /\ Content(g) = Content(f))
  BY <1>1, <1>5 DEF Older, Holds
<1> QED BY <1>2, <1>3, <1>4, <1>5 DEF Grown

LEMMA Stated ==
  ASSUME Typed
  PROVE  /\ file \in File /\ fresh \in Nat /\ fresh > 0 /\ file.ino \in Nat
         /\ cache.ino \in Nat /\ cache.len \in Nat /\ before.ino \in Nat /\ before.len \in Nat
         /\ Size(file) \in Nat /\ Content(file) \subseteq Mac
         /\ file.ino = 0 => Content(file) = {}
<1>1. NoFile.tail = None /\ NoFile.set = {}
  BY DEF NoFile
<1>2. Content(NoFile) = {}
  BY <1>1, Constants DEF Content
<1> QED BY <1>2, SizeTyped DEF Typed, TypeOK, File, Sized

LEMMA CopiesStay ==
  ASSUME Typed, Typed', Copies, Grown(file, fresh, file', fresh'),
         UNCHANGED <<cache, before, got, unread, at>>
  PROVE  Copies'
<1>1. /\ file \in File /\ fresh \in Nat /\ fresh > 0 /\ file.ino \in Nat
      /\ cache.ino \in Nat /\ cache.len \in Nat /\ before.ino \in Nat /\ before.len \in Nat
  BY Stated
<1>2. file' \in File /\ fresh' \in Nat
  BY DEF Typed, TypeOK
<1>3. file'.ino < fresh' /\ Holds(cache, cache.set, file', fresh')
  BY <1>1, <1>2, StillOlder DEF Copies, Holds
<1>4. at = "read" => Older(before, file', fresh')
  BY <1>1, <1>2, StillOlder DEF Copies
<1>5. at = "again" => /\ Older(before, file', fresh')
                      /\ ~unread => Holds(before, got, file', fresh')
  BY <1>1, <1>2, StillOlder DEF Copies
<1> QED BY <1>3, <1>4, <1>5 DEF Copies

LEMMA AppendGrows ==
  ASSUME Typed, NEW m \in Mac, m \notin Content(file),
         file' = [file EXCEPT !.set = @ \cup {m}, !.tail = None, !.mtime = Tick], fresh' = fresh
  PROVE  /\ Grown(file, fresh, file', fresh')
         /\ file'.ino = file.ino /\ file'.set = file.set \cup {m} /\ file'.tail = None
         /\ Size(file') = Size(file) + 3 => file.tail = None
<1>1. file \in File /\ m \notin file.set /\ file.set \in SUBSET Mac
  BY DEF Typed, TypeOK, Content, File
<1>2. file'.ino = file.ino /\ file'.set = file.set \cup {m} /\ file'.tail = None
  BY <1>1 DEF File
<1>3. /\ Size(file') = 3 * Cardinality(file.set) + 3
      /\ 3 * Cardinality(file.set) + 3 > Size(file)
  BY <1>1, Grows
<1>4. Size(file') = Size(file) + 3 => file.tail = None
  <2>1. Cardinality(file.set) \in Nat
    BY <1>1, Counting
  <2>2. file.tail # None => TailSize(file.tail) \in {1, 2}
    BY DEF TailSize
  <2> QED BY <1>3, <2>1, <2>2 DEF Size
<1> QED BY <1>2, <1>3, <1>4 DEF Grown

LEMMA TearGrows ==
  ASSUME Typed, Torn, OneTear, tears < Tears,
         NEW t \in {Part} \cup (IF "whole" \in Faults THEN Mac ELSE {}),
         file' = [file EXCEPT !.tail = t, !.mtime = Tick], fresh' = fresh
  PROVE  /\ Grown(file, fresh, file', fresh')
         /\ file'.ino = file.ino /\ file'.set = file.set /\ file'.tail = t
         /\ "whole" \notin Faults => t \notin Mac
<1>1. file \in File /\ file.set \in SUBSET Mac /\ file.tail \in Mac \cup {None, Part}
  BY DEF Typed, TypeOK, File
<1>2. file'.ino = file.ino /\ file'.set = file.set /\ file'.tail = t
  BY <1>1 DEF File
<1>3. Cardinality(file.set) \in Nat
  BY <1>1, Counting
<1>4. "whole" \notin Faults => t = Part
  OBVIOUS
<1>5. file.tail = None \/ (file.tail = Part /\ t = Part)
  <2>1. CASE "whole" \in Faults
    BY <2>1, Constants DEF Torn, OneTear, Typed, TypeOK
  <2>2. CASE "whole" \notin Faults
    BY <1>1, <1>4, <2>2 DEF Torn
  <2> QED BY <2>1, <2>2
<1>6. CASE file.tail = None
  <2>1. TailSize(file.tail) = 0 /\ TailSize(t) \in {1, 2}
    BY <1>6, Constants DEF TailSize
  <2>2. Size(file') > Size(file)
    BY <1>2, <1>3, <2>1 DEF Size
  <2> QED BY <1>2, <1>4, <2>2, Constants DEF Grown
<1>7. CASE file.tail = Part /\ t = Part
  <2>1. Size(file') = Size(file) /\ Content(file') = Content(file)
    BY <1>2, <1>7 DEF Size, Content
  <2> QED BY <1>2, <1>4, <2>1, Constants DEF Grown
<1> QED BY <1>5, <1>6, <1>7

-----------------------------------------------------------------------------
(* Every step keeps the invariant *)

LEMMA InvInit == Init => IInv
<1> SUFFICES ASSUME Init PROVE IInv
  OBVIOUS
<1>1. Typed
  BY TypeInit
<1>2. /\ at = "idle" /\ then = "idle" /\ op.kind = "look" /\ tears = 0 /\ fresh = 2
      /\ cache.ino = 0 /\ file.tail = None /\ file.ino < fresh
  BY DEF Init, Idle, NoCopy, NoFile
<1>3. Control /\ Torn
  BY <1>2, Constants DEF Control, Torn, Kinds
<1>4. Copies
  BY <1>2 DEF Copies, Holds, Older
<1>5. Looked /\ Unread /\ Aim /\ Written /\ Answered
  BY <1>2 DEF Looked, Unread, Aim, Written, Answered, AnswersAreTrue, Kinds
<1> QED BY <1>1, <1>3, <1>4, <1>5 DEF IInv, Inv

\* Another process writes only while the daemon at most looks.
LEMMA OtherInv == Turns /\ OneTear /\ IInv /\ Typed' /\ (Other \/ Advance) => Inv'
<1> SUFFICES ASSUME Turns, OneTear, IInv, Typed', Other \/ Advance PROVE Inv'
  OBVIOUS
<1>1. CASE Advance
  <2>1. UNCHANGED <<file, fresh, cache, unread, locked, at, op, then, before, got, goal, was, ok, tears>>
    BY <1>1 DEF Advance, disk
  <2> QED BY <2>1 DEF IInv, Inv, Control, Torn, Copies, Looked, Unread, Aim, Written, Answered,
                      AnswersAreTrue, Older, Holds
<1>2. CASE Other
  <2>1. ~locked /\ UNCHANGED <<cache, unread, locked, at, op, then, before, got, goal, was, ok>>
    BY <1>2 DEF Other, OtherReplaces, OtherAppends, OtherTears, OtherRemoves, Elsewhere
  <2>2. op.kind = "look" /\ at \in {"idle", "stat", "read", "again"} /\ then = "idle"
    BY <2>1 DEF IInv, Inv, Control, Typed, TypeOK
  <2>3. Grown(file, fresh, file', fresh') /\ Torn'
    <3>0. tears \in Nat
      BY Constants DEF IInv, Typed, TypeOK
    <3>1. CASE OtherReplaces
      BY <3>1, MadeTyped, Constants DEF OtherReplaces, IInv, Turns, Grown, Torn
    <3>2. CASE OtherAppends
      <4>1. PICK m \in Mac \ Content(file) :
              file' = [file EXCEPT !.set = @ \cup {m}, !.tail = None, !.mtime = Tick]
        BY <3>2 DEF OtherAppends
      <4>2. fresh' = fresh
        BY <3>2 DEF OtherAppends
      <4> QED BY <4>1, <4>2, AppendGrows, Constants DEF IInv, Torn
    <3>3. CASE OtherTears
      <4>1. PICK t \in {Part} \cup (IF "whole" \in Faults THEN Mac \ Content(file) ELSE {}) :
              file' = [file EXCEPT !.tail = t, !.mtime = Tick]
        BY <3>3 DEF OtherTears
      <4>2. fresh' = fresh /\ tears < Tears /\ tears' = tears + 1
        BY <3>3 DEF OtherTears
      <4>3. t \in {Part} \cup (IF "whole" \in Faults THEN Mac ELSE {})
        BY <4>1
      <4>4. Grown(file, fresh, file', fresh') /\ file'.tail = t /\ ("whole" \notin Faults => t \notin Mac)
        BY <4>1, <4>2, <4>3, TearGrows DEF IInv, Inv
      <4> QED BY <3>0, <4>2, <4>4 DEF Torn
    <3>4. CASE OtherRemoves
      <4>1. file' = NoFile /\ fresh' = fresh
        BY <3>4 DEF OtherRemoves
      <4>2. file'.ino = 0 /\ file'.tail = None
        BY <4>1 DEF NoFile
      <4> QED BY <4>1, <4>2, Constants DEF Grown, Torn
    <3> QED BY <1>2, <3>1, <3>2, <3>3, <3>4 DEF Other
  <2>4. Copies'
    BY <2>1, <2>3, CopiesStay DEF IInv, Inv
  <2>5. Control'
    BY <2>1 DEF IInv, Inv, Control
  <2>6. Looked' /\ Unread' /\ Aim' /\ Written' /\ Answered'
    BY <2>1, <2>2 DEF Looked, Unread, Aim, Written, Answered, AnswersAreTrue, Kinds
  <2> QED BY <2>3, <2>4, <2>5, <2>6 DEF Inv
<1> QED BY <1>1, <1>2

LEMMA LookInv ==
  ASSUME Turns, IInv, Typed', Look \/ (\E kind \in Kinds, mac \in Mac : Lock(kind, mac))
  PROVE  Inv'
<1>1. /\ at = "idle" /\ UNCHANGED <<file, fresh, cache, unread, before, got, goal, was, tears>>
      /\ op.kind = "look"
  BY DEF Look, Lock, disk, IInv, Inv, Control
<1>2. Torn' /\ Copies'
  BY <1>1 DEF Look, Lock, IInv, Inv, Torn, Copies
<1>3. CASE Look
  <2>1. at' = "stat" /\ then' = "idle" /\ op'.kind = "look" /\ locked' = locked
    BY <1>1, <1>3 DEF Look
  <2> QED BY <1>2, <2>1 DEF Inv, Control, Looked, Unread, Aim, Written, Answered, AnswersAreTrue, Kinds
<1>4. ASSUME NEW kind \in Kinds, NEW mac \in Mac, Lock(kind, mac) PROVE Inv'
  <2>1. /\ op'.kind = kind /\ op'.mac = mac /\ then' = "work" /\ ok' = FALSE
        /\ at' = IF kind = "merge" THEN "work" ELSE IF kind = "unnote" /\ unread THEN "done" ELSE "stat"
    BY <1>4 DEF Lock
  <2>2. locked' = TRUE
    BY <1>4, Zenon DEF Lock, Turns
  <2>3. Control'
    BY <2>1, <2>2 DEF Control, Kinds
  <2>4. Looked' /\ Unread' /\ Aim' /\ Written'
    BY <1>1, <2>1 DEF Looked, Unread, Aim, Written
  <2>5. Answered'
    BY <2>1 DEF Answered, AnswersAreTrue
  <2> QED BY <1>2, <2>3, <2>4, <2>5 DEF Inv
<1> QED BY <1>3, <1>4

LEMMA LookStatsInv == IInv /\ Typed' /\ LookStats => Inv'
<1> SUFFICES ASSUME IInv, Typed', LookStats PROVE Inv'
  OBVIOUS
<1>1. at = "stat" /\ UNCHANGED <<file, fresh, cache, unread, locked, op, then, goal, was, ok, tears>>
  BY DEF LookStats, disk
<1>2. Torn' /\ (at' = then \/ at' = "read")
  BY <1>1 DEF LookStats, IInv, Inv, Torn
<1>3. Control'
  BY <1>1, <1>2 DEF IInv, Inv, Control, Typed, TypeOK, Kinds
<1>4. Written' /\ Answered'
  BY <1>1, <1>2 DEF IInv, Typed, TypeOK, Written, Answered, AnswersAreTrue
<1>5. Unread' /\ Aim'
  BY <1>1, <1>2 DEF IInv, Inv, Typed, TypeOK, Unread, Aim, Control
<1>6. CASE Usable /\ got' = cache.set /\ at' = then
  <2>1. got' = Content(file) /\ file.ino # 0 /\ cache.ino = file.ino /\ cache.len = Size(file)
    BY <1>6 DEF Usable, IsStill, IInv, Inv, Copies, Holds
  <2>2. Looked'
    BY <1>1, <1>6, <2>1 DEF Looked, IInv, Typed, TypeOK
  <2>3. Copies'
    BY <1>1, <1>6 DEF Copies, IInv, Inv, Typed, TypeOK
  <2> QED BY <1>2, <1>3, <1>4, <1>5, <2>2, <2>3 DEF Inv
<1>7. CASE before' = Stat(file) /\ at' = "read"
  <2>1. Looked'
    BY <1>1, <1>7 DEF Looked
  <2>2. Older(Stat(file), file, fresh)
    BY Stated DEF Older, Stat, IInv, Inv, Copies
  <2>3. Copies'
    BY <1>1, <1>7, <2>2 DEF Copies, IInv, Inv
  <2> QED BY <1>2, <1>3, <1>4, <1>5, <2>1, <2>3 DEF Inv
<1> QED BY <1>6, <1>7 DEF LookStats

LEMMA LookReadsInv == IInv /\ Typed' /\ LookReads => Inv'
<1> SUFFICES ASSUME IInv, Typed', LookReads PROVE Inv'
  OBVIOUS
<1>1. /\ at = "read" /\ at' = "again" /\ Reads
      /\ UNCHANGED <<file, fresh, cache, locked, op, then, before, goal, was, ok, tears>>
  BY DEF LookReads, disk
<1>2. ~unread' => got' = Content(file)
  BY <1>1 DEF Reads
<1>3. Control' /\ Torn'
  BY <1>1 DEF IInv, Inv, Control, Torn
<1>4. Copies'
  BY <1>1, <1>2 DEF IInv, Inv, Copies, Holds
<1>5. Looked' /\ Aim' /\ Written' /\ Answered'
  BY <1>1, <1>2 DEF IInv, Inv, Looked, Aim, Written, Answered, AnswersAreTrue
<1>6. Unread'
  BY <1>1 DEF Reads, Unread
<1> QED BY <1>3, <1>4, <1>5, <1>6 DEF Inv

LEMMA LookAgainInv == IInv /\ Typed' /\ LookAgain => Inv'
<1> SUFFICES ASSUME IInv, Typed', LookAgain PROVE Inv'
  OBVIOUS
<1>1. /\ at = "again" /\ at' = then
      /\ UNCHANGED <<file, fresh, unread, locked, op, then, before, got, goal, was, ok, tears>>
  BY DEF LookAgain, disk
<1>2. Control' /\ Torn'
  BY <1>1 DEF IInv, Inv, Control, Torn, Typed, TypeOK, Kinds
<1>3. Unread' /\ Aim' /\ Written' /\ Answered'
  BY <1>1 DEF IInv, Inv, Typed, TypeOK, Unread, Aim, Written, Answered, AnswersAreTrue
<1>4. CASE ~unread /\ Steady /\ cache' = Copy(Stat(file), got)
  <2>1. cache'.ino = file.ino /\ cache'.len = Size(file) /\ cache'.set = got /\ file.ino # 0
    BY <1>4 DEF Steady, Copy, Stat
  <2>2. got = Content(file)
    BY <1>1, <1>4 DEF IInv, Inv, Copies, Holds, Steady, Stat
  <2>3. Holds(cache', got, file, fresh)
    BY <2>1, <2>2, Stated DEF Holds, Older, IInv, Inv, Copies
  <2>4. Copies'
    BY <1>1, <2>1, <2>3 DEF Copies, IInv, Inv, Typed, TypeOK
  <2>5. Looked'
    BY <1>1, <2>1, <2>2 DEF Looked, IInv, Typed, TypeOK
  <2> QED BY <1>2, <1>3, <2>4, <2>5 DEF Inv
<1>5. CASE (unread \/ ~Steady) /\ cache' = NoCopy
  <2>1. cache'.ino = 0
    BY <1>5 DEF NoCopy
  <2>2. Copies'
    BY <1>1, <2>1, Stated DEF Copies, Holds, Older, IInv, Inv, Typed, TypeOK
  <2>3. op.kind \in Kinds /\ ~unread => got = Content(file) /\ file.ino = 0
    BY <1>1, <1>5 DEF IInv, Inv, Looked, Steady, Stat
  <2>4. at' # "idle" => op.kind \in Kinds
    BY <1>1 DEF IInv, Inv, Control, Typed, TypeOK, Kinds
  <2>5. Looked'
    BY <1>1, <2>1, <2>3, <2>4 DEF Looked, IInv, Typed, TypeOK
  <2> QED BY <1>2, <1>3, <2>2, <2>5 DEF Inv
<1> QED BY <1>4, <1>5 DEF LookAgain

\* At the end of an operation nothing but its answer and the copy is left.
LEMMA DoneInv ==
  ASSUME IInv, at' = "done", op.kind \in Kinds, locked' = locked, op' = op,
         then' \in {"work", "compare"}, then' = "compare" => op.kind \in {"unnote", "merge"},
         Torn', file'.ino < fresh', Holds(cache', cache'.set, file', fresh'), Answered'
  PROVE  Inv'
<1>1. Control'
  BY DEF IInv, Inv, Control, Kinds
<1>2. Copies' /\ Looked' /\ Unread' /\ Aim' /\ Written'
  BY DEF Copies, Looked, Unread, Aim, Written
<1> QED BY <1>1, <1>2 DEF Inv

LEMMA NoCopyHolds ==
  ASSUME NEW c, c = NoCopy, NEW f, NEW n \in Nat, n > 0
  PROVE  Holds(c, c.set, f, n)
BY DEF NoCopy, Holds, Older

LEMMA AppendWritesInv == Turns /\ OneTear /\ IInv /\ Typed' /\ AppendWrites => Inv'
<1> SUFFICES ASSUME Turns, OneTear, IInv, Typed', AppendWrites PROVE Inv'
  OBVIOUS
<1>1. /\ at = "work" /\ op.kind = "append" /\ then = "work" /\ op.kind \in Kinds /\ op.mac \in Mac /\ ~ok
      /\ was' = (IF cache.ino = 0 THEN -1 ELSE cache.len) /\ locked
      /\ UNCHANGED <<unread, locked, op, then, before, got>>
  BY DEF AppendWrites, IInv, Inv, Control, Typed, Kinds
<1>2. ~unread => /\ got = Content(file)
                 /\ IF file.ino = 0 THEN cache.ino = 0
                    ELSE cache.ino = file.ino /\ cache.len = Size(file)
  BY <1>1 DEF IInv, Inv, Looked
<1>3. /\ file \in File /\ fresh \in Nat /\ fresh > 0 /\ file.ino \in Nat
      /\ cache.ino \in Nat /\ cache.len \in Nat
      /\ file.ino = 0 => Content(file) = {}
  BY Stated DEF IInv
<1>4. CASE /\ unread \/ op.mac \in got
           /\ ok' = ~unread /\ at' = "done" /\ UNCHANGED <<disk, cache, goal, tears>>
  <2>1. Answered'
    BY <1>1, <1>2, <1>4 DEF Answered, AnswersAreTrue, disk
  <2>2. Torn' /\ file'.ino < fresh' /\ Holds(cache', cache'.set, file', fresh')
    BY <1>4 DEF IInv, Inv, Torn, Copies, disk
  <2> QED BY <1>1, <1>4, <2>1, <2>2, DoneInv
<1>5. CASE /\ ~unread /\ op.mac \notin got
           /\ IF file.ino = 0 THEN Made({op.mac})
              ELSE /\ file' = [file EXCEPT !.set = @ \cup {op.mac}, !.tail = None, !.mtime = Tick]
                   /\ UNCHANGED fresh
           /\ goal' = got \cup {op.mac} /\ at' = "remember" /\ UNCHANGED <<cache, ok, tears>>
  <2>1. /\ Grown(file, fresh, file', fresh') /\ file'.ino # 0 /\ file'.tail = None
        /\ op.mac \in file'.set
        /\ was' = -1 \/ Size(file') = was' + 3 => goal' = file'.set
    <3>1. CASE file.ino = 0
      <4>1. /\ file'.ino = fresh /\ fresh' = fresh + 1 /\ file'.set = {op.mac} /\ file'.tail = None
            /\ file'.ino # 0
        BY <1>1, <1>5, <3>1, MadeTyped DEF Turns, IInv
      <4>2. goal' = {op.mac}
        BY <1>2, <1>3, <1>5, <3>1
      <4> QED BY <4>1, <4>2 DEF Grown
    <3>2. CASE file.ino # 0
      <4>1. /\ file' = [file EXCEPT !.set = @ \cup {op.mac}, !.tail = None, !.mtime = Tick]
            /\ fresh' = fresh
        BY <1>5, <3>2
      <4>2. op.mac \notin Content(file)
        BY <1>2, <1>5
      <4>3. /\ Grown(file, fresh, file', fresh')
            /\ file'.ino = file.ino /\ file'.set = file.set \cup {op.mac} /\ file'.tail = None
            /\ Size(file') = Size(file) + 3 => file.tail = None
        BY <1>1, <4>1, <4>2, AppendGrows DEF IInv
      <4>4. was' = Size(file) /\ was' # -1
        BY <1>1, <1>2, <1>3, <1>5, <3>2
      <4>5. file.tail = None => Content(file) = file.set
        BY Constants DEF Content
      <4> QED BY <1>2, <1>5, <3>2, <4>3, <4>4, <4>5
    <3> QED BY <3>1, <3>2
  <2>2. Control' /\ Torn'
    BY <1>1, <1>5, <2>1, Constants DEF IInv, Inv, Control, Torn, Kinds
  <2>3. file' \in File /\ fresh' \in Nat
    BY DEF Typed, TypeOK
  <2>4. file'.ino < fresh' /\ Holds(cache, cache.set, file', fresh')
    <3>1. /\ file.ino < fresh /\ Holds(cache, cache.set, file, fresh)
          /\ Older(cache, file, fresh)
      BY DEF IInv, Inv, Copies, Holds
    <3> QED BY <1>3, <2>1, <2>3, <3>1, StillOlder
  <2>5. Copies'
    BY <1>5, <2>4 DEF Copies
  <2>6. Looked' /\ Unread' /\ Aim' /\ Answered'
    BY <1>1, <1>5 DEF Looked, Unread, Aim, Answered, AnswersAreTrue
  <2>7. Written'
    BY <1>1, <2>1 DEF Written
  <2> QED BY <2>2, <2>5, <2>6, <2>7 DEF Inv
<1>6. CASE /\ tears < Tears /\ tears' = tears + 1
           /\ \E t \in {Part} \cup (IF "whole" \in Faults THEN {op.mac} ELSE {}) :
                file' = [file EXCEPT !.tail = t, !.mtime = Tick]
           /\ cache' = NoCopy /\ at' = "done" /\ UNCHANGED <<fresh, goal, ok>>
  <2>1. PICK t \in {Part} \cup (IF "whole" \in Faults THEN Mac ELSE {}) :
          file' = [file EXCEPT !.tail = t, !.mtime = Tick]
    BY <1>1, <1>6
  <2>2. file'.ino = file.ino /\ file'.tail = t /\ ("whole" \notin Faults => t \notin Mac)
    BY <1>6, <2>1, TearGrows DEF IInv, Inv
  <2>3. Torn'
    <3>1. tears' # 0
      BY <1>6, Constants DEF IInv, Typed, TypeOK
    <3> QED BY <2>2, <3>1 DEF Torn
  <2>4. file'.ino < fresh' /\ Holds(cache', cache'.set, file', fresh')
    <3>1. Holds(cache', cache'.set, file', fresh')
      BY <1>3, <1>6, NoCopyHolds
    <3> QED BY <1>6, <2>2, <3>1 DEF IInv, Inv, Copies
  <2>5. Answered'
    BY <1>1, <1>6 DEF Answered, AnswersAreTrue
  <2> QED BY <1>1, <1>6, <2>3, <2>4, <2>5, DoneInv
<1> QED BY <1>4, <1>5, <1>6 DEF AppendWrites

LEMMA RemembersInv == IInv /\ Typed' /\ (AppendRemembers \/ WriteRemembers) => Inv'
<1> SUFFICES ASSUME IInv, Typed', AppendRemembers \/ WriteRemembers PROVE Inv'
  OBVIOUS
<1>1. /\ at = "remember" /\ at' = "done" /\ ok' = TRUE
      /\ UNCHANGED <<file, fresh, locked, op, then, tears>>
  BY DEF AppendRemembers, WriteRemembers, disk
<1>2. /\ op.kind \in Kinds /\ then \in {"work", "compare"}
      /\ then = "compare" => op.kind \in {"unnote", "merge"}
  BY <1>1 DEF IInv, Inv, Control, Typed, TypeOK
<1>3. Content(file) = file.set
  BY <1>1, Constants DEF IInv, Inv, Written, Content
<1>4. Answered'
  BY <1>1, <1>3 DEF IInv, Inv, Written, Answered, AnswersAreTrue
<1>5. Torn' /\ file'.ino < fresh'
  BY <1>1 DEF IInv, Inv, Torn, Copies
<1>6. cache' = NoCopy \/ (cache' = Copy(Stat(file), goal) /\ goal = Content(file) /\ file.ino # 0)
  BY <1>1, <1>3 DEF AppendRemembers, WriteRemembers, IInv, Inv, Written
<1>7. Holds(cache', cache'.set, file', fresh')
  <2>1. CASE cache' = NoCopy
    BY <1>1, <2>1, Stated, NoCopyHolds DEF IInv
  <2>2. CASE cache' = Copy(Stat(file), goal) /\ goal = Content(file) /\ file.ino # 0
    <3>1. cache'.ino = file.ino /\ cache'.len = Size(file) /\ cache'.set = Content(file)
      BY <2>2 DEF Copy, Stat
    <3> QED BY <1>1, <3>1, Stated DEF Holds, Older, IInv, Inv, Copies
  <2> QED BY <1>6, <2>1, <2>2
<1> QED BY <1>1, <1>2, <1>4, <1>5, <1>7, DoneInv

LEMMA MergeReadsInv == IInv /\ Typed' /\ MergeReads => Inv'
<1> SUFFICES ASSUME IInv, Typed', MergeReads PROVE Inv'
  OBVIOUS
<1>1. /\ at = "work" /\ op.kind = "merge" /\ Reads /\ at' = "put"
      /\ goal' \in {got' \cup {op.mac}, got' \ {op.mac}}
      /\ UNCHANGED <<file, fresh, cache, locked, op, then, before, was, ok, tears>>
  BY DEF MergeReads, disk
<1>2. Control' /\ Torn' /\ Copies'
  BY <1>1 DEF IInv, Inv, Control, Torn, Copies, Kinds
<1>3. ~unread' => got' = Content(file)
  BY <1>1 DEF Reads
<1>4. Aim'
  BY <1>1, <1>2, <1>3 DEF Aim
<1>5. Looked' /\ Unread' /\ Written' /\ Answered'
  BY <1>1 DEF Looked, Unread, Written, Answered, AnswersAreTrue
<1> QED BY <1>2, <1>4, <1>5 DEF Inv

LEMMA UnnoteWorksInv == IInv /\ Typed' /\ UnnoteWorks => Inv'
<1> SUFFICES ASSUME IInv, Typed', UnnoteWorks PROVE Inv'
  OBVIOUS
<1>1. /\ at = "work" /\ op.kind = "unnote" /\ goal' = got \ {op.mac} /\ then = "work"
      /\ op.kind \in Kinds
      /\ UNCHANGED <<file, fresh, cache, unread, locked, op, then, before, got, was, tears>>
  BY DEF UnnoteWorks, disk, IInv, Inv, Control, Kinds
<1>2. ~unread => got = Content(file)
  BY <1>1 DEF IInv, Inv, Looked
<1>3. unread => got = {} /\ "unnote" \in Faults
  BY <1>1 DEF IInv, Inv, Unread
<1>4. Torn' /\ file'.ino < fresh' /\ Holds(cache', cache'.set, file', fresh')
  BY <1>1 DEF IInv, Inv, Torn, Copies
<1>5. CASE op.mac \notin got /\ ok' = TRUE /\ at' = "done"
  <2>1. Answered'
    BY <1>1, <1>2, <1>3, <1>5 DEF Answered, AnswersAreTrue
  <2> QED BY <1>1, <1>4, <1>5, <2>1, DoneInv
<1>6. CASE op.mac \in got /\ at' = "put" /\ ok' = ok
  <2>1. ~unread
    BY <1>3, <1>6
  <2>2. Control' /\ Copies'
    BY <1>1, <1>4, <1>6 DEF IInv, Inv, Control, Copies, Kinds
  <2>3. Looked' /\ Unread' /\ Written' /\ Answered'
    BY <1>1, <1>6, <2>1 DEF Looked, Unread, Written, Answered, AnswersAreTrue
  <2>4. Aim'
    BY <1>1, <1>2, <2>1 DEF Aim
  <2> QED BY <1>4, <2>2, <2>3, <2>4 DEF Inv
<1> QED BY <1>5, <1>6 DEF UnnoteWorks

LEMMA WriteBeginsInv == IInv /\ Typed' /\ WriteBegins => Inv'
<1> SUFFICES ASSUME IInv, Typed', WriteBegins PROVE Inv'
  OBVIOUS
<1>1. /\ at = "put" /\ then' = "compare"
      /\ UNCHANGED <<file, fresh, cache, unread, locked, op, before, got, goal, was, tears>>
  BY DEF WriteBegins, disk
<1>2. op.kind \in {"unnote", "merge"} /\ op.kind \in Kinds /\ op.kind # "look"
  BY <1>1 DEF IInv, Inv, Control, Kinds
<1>3. Torn' /\ file'.ino < fresh' /\ Holds(cache', cache'.set, file', fresh')
  BY <1>1 DEF IInv, Inv, Torn, Copies
<1>4. CASE ok' = FALSE /\ at' = "done"
  <2>1. Answered'
    BY <1>4 DEF Answered, AnswersAreTrue
  <2> QED BY <1>1, <1>2, <1>3, <1>4, <2>1, DoneInv
<1>5. CASE ~Refuses /\ at' = "stat" /\ ok' = ok
  <2>1. Control' /\ Copies'
    BY <1>1, <1>2, <1>3, <1>5 DEF IInv, Inv, Control, Copies
  <2>2. Looked' /\ Unread' /\ Written' /\ Answered'
    BY <1>1, <1>5 DEF Looked, Unread, Written, Answered, AnswersAreTrue, Refuses
  <2>3. Aim'
    BY <1>1, <1>5 DEF IInv, Inv, Aim, Refuses
  <2> QED BY <1>3, <2>1, <2>2, <2>3 DEF Inv
<1> QED BY <1>4, <1>5 DEF WriteBegins

LEMMA WritePutsInv == Turns /\ IInv /\ Typed' /\ WritePuts => Inv'
<1> SUFFICES ASSUME Turns, IInv, Typed', WritePuts PROVE Inv'
  OBVIOUS
<1>1. /\ at = "compare" /\ then = "compare"
      /\ UNCHANGED <<unread, locked, op, then, before, got, goal, was, tears>>
  BY DEF WritePuts, IInv, Inv, Control
<1>2. op.kind \in {"unnote", "merge"} /\ op.kind \in Kinds /\ op.kind # "look"
  BY <1>1 DEF IInv, Inv, Control, Kinds
<1>3. op.kind = "unnote" => op.mac \notin goal
  BY <1>1 DEF IInv, Inv, Aim
<1>4. CASE got = goal /\ ok' = TRUE /\ at' = "done" /\ UNCHANGED <<disk, cache>>
  <2>1. op.kind = "unnote" /\ "unnote" \notin Faults => got = Content(file)
    BY <1>1 DEF IInv, Inv, Looked, Unread
  <2>2. Answered'
    BY <1>1, <1>2, <1>3, <1>4, <2>1 DEF Answered, AnswersAreTrue, disk
  <2>3. Torn' /\ file'.ino < fresh' /\ Holds(cache', cache'.set, file', fresh')
    BY <1>1, <1>4 DEF IInv, Inv, Torn, Copies, disk
  <2> QED BY <1>1, <1>2, <1>4, <2>2, <2>3, DoneInv
<1>5. CASE Made(goal) /\ at' = "remember" /\ UNCHANGED <<cache, ok>>
  <2>1. /\ file'.ino # 0 /\ fresh' = fresh + 1 /\ file'.set = goal /\ file'.tail = None
        /\ file'.ino = fresh
    BY <1>5, MadeTyped DEF Turns, IInv, Typed, TypeOK
  <2>2. /\ file \in File /\ fresh \in Nat /\ fresh > 0 /\ file.ino \in Nat
        /\ cache.ino \in Nat /\ cache.len \in Nat
    BY Stated DEF IInv
  <2>3. file' \in File /\ fresh' \in Nat
    BY DEF Typed, TypeOK
  <2>4. file'.ino < fresh' /\ Holds(cache, cache.set, file', fresh')
    <3>1. /\ file.ino < fresh /\ Holds(cache, cache.set, file, fresh)
          /\ Older(cache, file, fresh)
      BY DEF IInv, Inv, Copies, Holds
    <3>2. Grown(file, fresh, file', fresh')
      BY <2>1 DEF Grown
    <3> QED BY <2>2, <2>3, <3>1, <3>2, StillOlder
  <2>5. Copies' /\ Torn'
    BY <1>5, <2>1, <2>4, Constants DEF Copies, Torn
  <2>6. Control'
    BY <1>1, <1>2, <1>5 DEF IInv, Inv, Control
  <2>7. Looked' /\ Aim' /\ Answered'
    BY <1>5 DEF Looked, Aim, Answered, AnswersAreTrue
  <2>8. Unread'
    BY <1>1, <1>5 DEF IInv, Inv, Unread
  <2>9. Written'
    BY <1>1, <1>2, <1>3, <2>1 DEF Written
  <2> QED BY <2>5, <2>6, <2>7, <2>8, <2>9 DEF Inv
<1>6. CASE cache' = NoCopy /\ ok' = FALSE /\ at' = "done" /\ UNCHANGED disk
  <2>1. Answered'
    BY <1>6 DEF Answered, AnswersAreTrue
  <2>2. file' = file /\ fresh' = fresh
    BY <1>6 DEF disk
  <2>3. Holds(cache', cache'.set, file', fresh')
    BY <1>6, <2>2, Stated, NoCopyHolds DEF IInv
  <2>4. Torn' /\ file'.ino < fresh'
    BY <1>1, <2>2 DEF IInv, Inv, Torn, Copies
  <2> QED BY <1>1, <1>2, <1>6, <2>1, <2>3, <2>4, DoneInv
<1> QED BY <1>4, <1>5, <1>6 DEF WritePuts

LEMMA IdleInv == IInv /\ Typed' /\ (Unlock \/ Forget) => Inv'
<1> SUFFICES ASSUME IInv, Typed', Unlock \/ Forget PROVE Inv'
  OBVIOUS
<1>1. at' = "idle" /\ op'.kind = "look" /\ then' = "idle" /\ fresh' = fresh /\ tears' = tears
  BY DEF Unlock, Forget, Idle, disk, IInv, Inv, Control
<1>2. fresh \in Nat /\ fresh > 0
  BY Stated DEF IInv
<1>3. Torn' /\ file'.ino < fresh' /\ Holds(cache', cache'.set, file', fresh')
  <2>1. CASE Unlock
    BY <2>1 DEF Unlock, IInv, Inv, Torn, Copies, disk
  <2>2. CASE Forget
    <3>1. file'.ino = 0 /\ file'.tail = None
      BY <2>2 DEF Forget, NoFile
    <3>2. Holds(cache', cache'.set, file', fresh')
      BY <1>1, <1>2, <2>2, NoCopyHolds DEF Forget
    <3> QED BY <1>1, <1>2, <3>1, <3>2, Constants DEF Torn
  <2> QED BY <2>1, <2>2
<1>4. Control'
  BY <1>1 DEF Control, Kinds
<1>5. Copies' /\ Looked' /\ Unread' /\ Aim' /\ Written' /\ Answered'
  BY <1>1, <1>3 DEF Copies, Looked, Unread, Aim, Written, Answered, AnswersAreTrue, Kinds
<1> QED BY <1>3, <1>4, <1>5 DEF Inv

LEMMA InvNext == Turns /\ OneTear /\ IInv /\ [Next]_vars => IInv'
<1> SUFFICES ASSUME Turns, OneTear, IInv, [Next]_vars PROVE IInv'
  OBVIOUS
<1>1. CASE Own
  <2>1. Typed'
    BY <1>1, OwnTyped DEF IInv
  <2>2. Inv'
    BY <1>1, <2>1, LookInv, LookStatsInv, LookReadsInv, LookAgainInv, AppendWritesInv, RemembersInv,
       MergeReadsInv, UnnoteWorksInv, WriteBeginsInv, WritePutsInv, IdleInv DEF Own
  <2> QED BY <2>1, <2>2 DEF IInv
<1>2. CASE Other \/ Advance
  BY <1>2, OtherTyped, OtherInv DEF IInv
<1>3. CASE UNCHANGED vars
  BY <1>3 DEF vars, disk, IInv, Typed, TypeOK, Inv, Control, Torn, Copies, Looked, Unread, Aim,
              Written, Answered, AnswersAreTrue, Older, Holds
<1> QED BY <1>1, <1>2, <1>3 DEF Next

-----------------------------------------------------------------------------
(* Theorems *)

\* Whatever goes wrong, what the daemon keeps of a note has its type: a file
\* that is not there is never taken for one that says something, and the lock
\* is held only by an operation that changes the note (notes.rs as a whole).
THEOREM TypeCorrect == Spec => []TypeOK
<1>1. Init => Typed
  BY TypeInit
<1>2. Typed /\ [Next]_vars => Typed'
  <2> SUFFICES ASSUME Typed, [Next]_vars PROVE Typed'
    OBVIOUS
  <2>1. CASE UNCHANGED vars
    BY <2>1 DEF vars, disk, Typed, TypeOK
  <2> QED BY <2>1, OwnTyped, OtherTyped DEF Next
<1>3. Typed => TypeOK
  BY DEF Typed
<1> QED BY <1>1, <1>2, <1>3, PTL DEF Spec

\* The invariant holds throughout where file numbers are not used twice,
\* writers take turns, and a torn line is not torn into another of its length.
THEOREM Inductive ==
  ASSUME Turns, OneTear
  PROVE  Spec => []IInv
<1>1. Init => IInv
  BY InvInit
<1>2. IInv /\ [Next]_vars => IInv'
  BY InvNext
<1> QED BY <1>1, <1>2, PTL DEF Spec

\* A copy that would be believed says what the file says, whatever others
\* wrote between the stats and the reading it was made from, and also when
\* they wrote in the same tick of the clock (Note::is_still, with_owned,
\* append_owned_locked).
THEOREM CopiesAreTrue ==
  ASSUME Turns, OneTear
  PROVE  Spec => []CacheIsTruth
<1>1. IInv => CacheIsTruth
  BY DEF IInv, Inv, Copies, Holds, CacheIsTruth, Usable, IsStill
<1> QED BY <1>1, Inductive, PTL

\* An operation that answers yes has done what it was asked, where the one
\* reading that decides what is taken back does not fail (append_owned_locked,
\* unnote_locked).
THEOREM AnswersHold ==
  ASSUME Turns, OneTear, "unnote" \notin Faults
  PROVE  Spec => []AnswersAreTrue
<1>1. IInv => AnswersAreTrue
  BY DEF IInv, Inv, Answered
<1> QED BY <1>1, Inductive, PTL

\* No write of the daemon loses a line of others, however stale its copy and
\* whichever reading failed (write_owned, save_owned_merged).
THEOREM LinesStay ==
  ASSUME Turns, OneTear
  PROVE  Spec => LinesSurvive
<1> DEFINE Keeps == Own /\ file'.ino # 0
                      => Content(file) \ {op.mac} \subseteq Content(file') \cup {file.tail}
<1>1. IInv /\ [Next]_vars => [Keeps]_vars
  <2> SUFFICES ASSUME IInv, Own, file'.ino # 0
               PROVE  Content(file) \ {op.mac} \subseteq Content(file') \cup {file.tail}
    OBVIOUS
  <2>1. CASE file' = file
    BY <2>1
  <2>2. CASE Forget
    BY <2>2 DEF Forget, NoFile
  <2>3. CASE AppendWrites
    <3>1. file.set \subseteq file'.set \/ file' = file
      <4>1. file.ino = 0 => file.set = {}
        BY DEF IInv, Typed, TypeOK, NoFile
      <4>2. CASE file.ino = 0
        BY <4>1, <4>2
      <4>3. CASE file.ino # 0
        <5>1. file \in File
          BY DEF IInv, Typed, TypeOK
        <5>2. CASE file' = [file EXCEPT !.set = @ \cup {op.mac}, !.tail = None, !.mtime = Tick]
          BY <5>1, <5>2 DEF File
        <5>3. CASE \E t : file' = [file EXCEPT !.tail = t, !.mtime = Tick]
          BY <5>1, <5>3 DEF File
        <5> QED BY <2>3, <4>3, <5>2, <5>3 DEF AppendWrites, disk
      <4> QED BY <4>2, <4>3
    <3> QED BY <3>1 DEF Content
  <2>4. CASE WritePuts
    <3>1. file' = file \/ file'.set = goal
      BY <2>4, MadeTyped DEF WritePuts, disk, IInv, Typed, TypeOK
    <3>2. Content(file) \ {op.mac} \subseteq goal
      BY <2>4 DEF WritePuts, IInv, Inv, Control, Aim
    <3> QED BY <3>1, <3>2 DEF Content
  <2>5. file' = file \/ Forget \/ AppendWrites \/ WritePuts
    BY DEF Own, Look, Lock, LookStats, LookReads, LookAgain, AppendRemembers, MergeReads, UnnoteWorks,
           WriteBegins, WriteRemembers, Unlock, disk
  <2> QED BY <2>1, <2>2, <2>3, <2>4, <2>5
<1>2. Spec => []IInv
  BY Inductive
<1>3. Spec => [][Keeps]_vars
  BY <1>1, <1>2, PTL DEF Spec
<1> QED BY <1>3 DEF LinesSurvive
=============================================================================
