---------------------------- MODULE Rename_proofs ----------------------------
(***************************************************************************)
(* That what we put into a card has a line that leads back to it, and that *)
(* no line leads to what others put there, for any interfaces, names and   *)
(* addresses: although notes refuse to be read and written, the process    *)
(* dies between the writes of a migration, and removals fail.              *)
(***************************************************************************)
EXTENDS Rename, FiniteSetTheorems, TLAPS

-----------------------------------------------------------------------------
(* The inductive invariant *)

\* What the code relies on: no interface is renamed to a name under which
\* another's note stands, one naming change at most falls between two
\* readings, a record is written where the note beside it is, and a --flush
\* runs while no daemon does.
Calm == ~Reuse /\ Burst <= 1 /\ "record" \notin Faults /\ "beside" \notin Faults

Names == [Iface -> Name \cup {0}]
Notes == [there : BOOLEAN, macs : SUBSET Mac, idx : Iface \cup {0}]
Copy == [Name -> Iface \cup {0}]
Apart(f) == \A i, j \in Iface : f[i] = f[j] /\ f[i] # 0 => i = j

\* No interface wears a name before the kernel has given out its index.
Typed ==
  /\ TypeOK
  /\ rd \in [name : Names, up : SUBSET Iface] /\ Apart(rd.name)
  /\ \A i \in Iface : name[i] # 0 \/ rd.name[i] # 0 => i \in spent
  /\ fl \in [name : Names, todo : SUBSET Name] /\ Apart(fl.name)

\* A pair at hand has a wearer in the reading.
Handed == at # 0 => pc = "pairs" /\ Wearer(rd, at) \in Iface

TInv == Typed /\ Handed

\* The process's copy of a record is the record.
Copies == \A n \in Name : cidx[n] # 0 => file[n].idx = cidx[n]

\* A note that has lines has a record, of an interface that was asked to take
\* them, and the filter of an interface goes with it.
Filed ==
  /\ \A n \in Name : file[n].macs # {} => file[n].there /\ file[n].idx # 0
  /\ \A n \in Name : file[n].idx # 0 =>
       /\ file[n].idx \in spent
       /\ file[n].idx \in exposed \/ file[n].macs \subseteq ever[file[n].idx]
  /\ \A i \in Iface : name[i] = 0 => mine[i] = {}

\* The note of name n has lines of another interface than i, ...
Strange(n, i) ==
  n # 0 /\ file[n].macs # {} /\ file[n].idx # i /\ ~({i, file[n].idx} \subseteq exposed)

\* ... or is one that i may write to.
Held(n, i) == file[n].idx \in {0, i} \/ {i, file[n].idx} \subseteq exposed

\* No record names interface i.
Unknown(i) == \A n \in Name : file[n].idx # i

\* Only who has just come finds another's note under its name.
Newcomers ==
  \A i \in Iface : Strange(name[i], i) =>
    Unknown(i) /\ (pc # "idle" => rd.name[i] \in {0, name[i]})

\* While a pass runs, at most one interface has another name than in its
\* reading; who is on record and not in the reading is gone; and the notes
\* that the pairs have been through are their wearers'.
Passing ==
  pc # "idle" =>
    /\ pairs = PairsOf(rd)
    /\ moves = 0 => name = rd.name
    /\ \A i, j \in Iface : name[i] # rd.name[i] /\ name[j] # rd.name[j] => i = j
    /\ \A i \in Iface : Strange(rd.name[i], i) => Unknown(i)
    /\ \A i \in Iface : rd.name[i] = 0 /\ ~Unknown(i) => name[i] = 0

Visited ==
  /\ pc # "pairs" => at = 0
  /\ pc = "pairs" => todo \subseteq pairs
  /\ at # 0 => /\ at \in pairs \ todo /\ held \subseteq file[at].macs
               /\ file[at].idx \in {0, Wearer(rd, at)}
  /\ pc = "pairs" => \A n \in pairs \ todo : Held(n, Wearer(rd, n))

\* Between passes, the name of a pair is its last wearer's, whose note it has.
Resting ==
  pc = "idle" =>
    /\ moves = 0 => \A n \in pairs : \E i \in Iface : name[i] = n
    /\ \A i \in Iface : name[i] \in pairs => Held(name[i], i)

\* A flush has the machine to itself, and who is on record and not in its
\* reading is gone.
Flushing ==
  fl.todo # {} =>
    /\ Down
    /\ \A n \in Name : file[n].idx # 0 => fl.name[file[n].idx] # 0 \/ name[file[n].idx] = 0

\* What is ours is in a note that is recorded as the interface's it is in.
OnFile ==
  \A i \in Iface \ exposed : \A m \in mine[i] :
    \E n \in Name : m \in file[n].macs /\ file[n].idx = i

Inv == Copies /\ Filed /\ Newcomers /\ Passing /\ Visited /\ Resting /\ Flushing /\ OnFile
IInv == TInv /\ Inv

-----------------------------------------------------------------------------
(* Readings *)

LEMMA Zero == 0 \notin Iface /\ 0 \notin Name
BY RenameAssumption

LEMMA WearerFacts ==
  ASSUME NEW r, r.name \in Names, Apart(r.name), NEW n \in Name
  PROVE  /\ Wearer(r, n) \in Iface \cup {0}
         /\ \A i \in Iface : r.name[i] = n => Wearer(r, n) = i
         /\ Wearer(r, n) # 0 => r.name[Wearer(r, n)] = n
<1>1. CASE \E i \in Iface : r.name[i] = n
  <2>1. Wearer(r, n) = CHOOSE i \in Iface : r.name[i] = n
    BY <1>1 DEF Wearer
  <2>2. Wearer(r, n) \in Iface /\ r.name[Wearer(r, n)] = n
    BY <1>1, <2>1
  <2>3. \A i \in Iface : r.name[i] = n => Wearer(r, n) = i
    BY <2>2, Zero DEF Apart
  <2> QED BY <2>2, <2>3
<1>2. CASE ~\E i \in Iface : r.name[i] = n
  BY <1>2 DEF Wearer
<1> QED BY <1>1, <1>2

LEMMA ReadingTyped ==
  ASSUME Typed
  PROVE  /\ Reading \in [name : Names, up : SUBSET Iface] /\ Apart(Reading.name)
         /\ Reading.name = name /\ Reading.up = up
BY DEF Typed, TypeOK, Reading, Names, Apart

LEMMA NameAtTyped ==
  ASSUME NEW r, r.name \in Names, NEW i \in Iface \cup {0}
  PROVE  /\ NameAt(r, i) \in Name \cup {0}
         /\ NameAt(r, i) # 0 => i \in Iface /\ NameAt(r, i) = r.name[i]
BY DEF NameAt, Names

LEMMA TargetTyped ==
  ASSUME Typed, NEW r, r.name \in Names, NEW n \in Name
  PROVE  /\ RenamedTarget(r, n) \in Name \cup {0}
         /\ RenamedTarget(r, n) # 0 =>
              file[n].idx \in Iface /\ r.name[file[n].idx] = RenamedTarget(r, n) /\ RenamedTarget(r, n) # n
         /\ RenamedTarget(r, n) = 0 /\ file[n].idx # 0 => r.name[file[n].idx] \in {0, n}
<1>1. file[n].idx \in Iface \cup {0}
  BY DEF Typed, TypeOK
<1> QED BY <1>1, NameAtTyped, Zero DEF RenamedTarget, NameAt

LEMMA PairsTyped ==
  ASSUME NEW r \in [name : Names, up : SUBSET Iface]
  PROVE  PairsOf(r) \subseteq Name
BY DEF PairsOf, Names

-----------------------------------------------------------------------------
(* What is written to the notes *)

LEMMA NotesTyped ==
  ASSUME Typed
  PROVE  file \in [Name -> Notes] /\ NoFile \in Notes /\ cidx \in Copy
BY DEF Typed, TypeOK, Notes, NoFile, Copy

\* What is known of a process's copies c of the records.
Agreeing(c) == c \in Copy /\ \A k \in Name : c[k] # 0 => cidx[k] = c[k]

\* Note n has taken the lines macs, and perhaps the record of i.
Puts(f, d, n, i, macs) ==
  /\ f \in [Name -> Notes] /\ d \in Copy
  /\ \A k \in Name \ {n} : f[k] = file[k]
  /\ f[n].macs = file[n].macs \cup macs
  /\ f[n].idx \in {file[n].idx, i}
  /\ f[n].there \/ (f[n].there = file[n].there /\ macs = {})
  /\ Copies => \A k \in Name : d[k] # 0 => f[k].idx = d[k]

LEMMA RecordingFacts ==
  ASSUME Typed, NEW c, Agreeing(c), NEW n \in Name, NEW i \in Iface, NEW fails \in BOOLEAN,
         NEW o \in Recordings(c, n, i, fails)
  PROVE  /\ Puts(o.file, o.cidx, n, i, {})
         /\ o.file[n].there = file[n].there
         /\ ~fails /\ Copies => o.file[n].idx = i
<1>0. file \in [Name -> Notes] /\ c \in Copy /\ i # 0 /\ \A k \in Name : c[k] # 0 => cidx[k] = c[k]
  BY NotesTyped, Zero DEF Agreeing
<1>1. CASE o = [file |-> Stamped(file, c, n, i), cidx |-> [c EXCEPT ![n] = i]]
  <2>1. o.cidx \in Copy /\ o.cidx[n] = i /\ \A k \in Name \ {n} : o.cidx[k] = c[k]
    BY <1>0, <1>1 DEF Copy
  <2>2. CASE c[n] = i
    <3>1. o.file = file
      BY <1>1, <2>2 DEF Stamped
    <3>2. Copies => file[n].idx = i
      BY <2>2, <1>0 DEF Copies
    <3>3. Copies => \A k \in Name : o.cidx[k] # 0 => file[k].idx = o.cidx[k]
      BY <2>1, <3>2, <1>0 DEF Copies
    <3> QED BY <1>0, <2>1, <3>1, <3>2, <3>3 DEF Puts
  <2>3. CASE c[n] # i
    <3>1. o.file = [file EXCEPT ![n].idx = i]
      BY <1>1, <2>3 DEF Stamped
    <3>2. /\ o.file \in [Name -> Notes] /\ \A k \in Name \ {n} : o.file[k] = file[k]
          /\ o.file[n].idx = i /\ o.file[n].macs = file[n].macs /\ o.file[n].there = file[n].there
      BY <1>0, <3>1 DEF Notes
    <3>3. Copies => \A k \in Name : o.cidx[k] # 0 => o.file[k].idx = o.cidx[k]
      BY <2>1, <3>2, <1>0 DEF Copies
    <3> QED BY <2>1, <3>2, <3>3 DEF Puts
  <2> QED BY <2>2, <2>3
<1>2. CASE o = [file |-> file, cidx |-> c] /\ fails
  BY <1>0, <1>2 DEF Puts, Copies
<1> QED BY <1>1, <1>2 DEF Recordings

\* A copy that is forgotten with a note that is missing.
LEMMA EvictFacts ==
  ASSUME NEW c \in Copy, NEW n \in Name
  PROVE  /\ Evict(c, n) \in Copy /\ \A k \in Name : Evict(c, n)[k] \in {0, c[k]}
         /\ [c EXCEPT ![n] = 0] \in Copy /\ \A k \in Name : [c EXCEPT ![n] = 0][k] \in {0, c[k]}
BY DEF Evict, Copy

LEMMA TakenFacts ==
  ASSUME Typed, NEW c, Agreeing(c), NEW n \in Name, NEW i \in Iface, NEW macs \in SUBSET Mac,
         NEW o \in Taken(c, n, i, macs)
  PROVE  /\ Puts(o.file, o.cidx, n, i, macs)
         /\ o.file[n].there
         /\ Copies /\ "record" \notin Faults => o.file[n].idx = i \/ macs \subseteq file[n].macs
<1> DEFINE fails == \/ "record" \in Faults
                    \/ "refuse" \in Faults /\ macs \subseteq file[n].macs
<1>1. PICK s \in Recordings(c, n, i, fails) :
        o = [file |-> Appended(s.file, n, macs), cidx |-> Evict(s.cidx, n)]
  BY DEF Taken
<1>2. /\ Puts(s.file, s.cidx, n, i, {})
      /\ ~fails /\ Copies => s.file[n].idx = i
  <2>1. fails \in BOOLEAN
    OBVIOUS
  <2> HIDE DEF fails
  <2> QED BY <2>1, <1>1, RecordingFacts
<1>3. /\ s.file \in [Name -> Notes] /\ s.cidx \in Copy
      /\ \A k \in Name \ {n} : s.file[k] = file[k]
      /\ s.file[n].macs = file[n].macs /\ s.file[n].idx \in {file[n].idx, i}
      /\ Copies => \A k \in Name : s.cidx[k] # 0 => s.file[k].idx = s.cidx[k]
  BY <1>2 DEF Puts
<1>4. /\ o.file \in [Name -> Notes] /\ \A k \in Name \ {n} : o.file[k] = s.file[k]
      /\ o.file[n].macs = s.file[n].macs \cup macs /\ o.file[n].there /\ o.file[n].idx = s.file[n].idx
  BY <1>1, <1>3 DEF Appended, Notes
<1>5. o.cidx \in Copy /\ \A k \in Name : o.cidx[k] \in {0, s.cidx[k]}
  BY <1>1, <1>3, EvictFacts
<1>6. Copies => \A k \in Name : o.cidx[k] # 0 => o.file[k].idx = o.cidx[k]
  <2>1. \A k \in Name : o.file[k].idx = s.file[k].idx
    BY <1>4
  <2> QED BY <2>1, <1>3, <1>5
<1>7. Puts(o.file, o.cidx, n, i, macs)
  <2>1. \A k \in Name \ {n} : o.file[k] = file[k]
    BY <1>3, <1>4
  <2>2. /\ o.file[n].macs = file[n].macs \cup macs
        /\ o.file[n].idx \in {file[n].idx, i}
    BY <1>3, <1>4
  <2> QED BY <2>1, <2>2, <1>4, <1>5, <1>6 DEF Puts
<1>8. Copies /\ "record" \notin Faults => o.file[n].idx = i \/ macs \subseteq file[n].macs
  <2>1. "record" \notin Faults => ~fails \/ macs \subseteq file[n].macs
    OBVIOUS
  <2> HIDE DEF fails
  <2> QED BY <2>1, <1>2, <1>4
<1> QED BY <1>4, <1>7, <1>8

LEMMA RefusedFacts ==
  ASSUME Typed, NEW c, Agreeing(c), NEW n \in Name, NEW i \in Iface, NEW o \in Refused(c, n, i)
  PROVE  Puts(o.file, o.cidx, n, i, {}) /\ o.file[n].there = file[n].there
<1>1. PICK s \in Recordings(c, n, i, TRUE) :
        o \in {[s EXCEPT !.cidx = Evict(@, n)], [s EXCEPT !.cidx[n] = 0]}
  BY DEF Refused
<1>2. Puts(s.file, s.cidx, n, i, {}) /\ s.file[n].there = file[n].there
  BY <1>1, RecordingFacts
<1>3. s = [file |-> s.file, cidx |-> s.cidx]
  BY <1>1 DEF Recordings
<1>4. /\ s.file \in [Name -> Notes] /\ s.cidx \in Copy
      /\ \A k \in Name \ {n} : s.file[k] = file[k]
      /\ s.file[n].macs = file[n].macs /\ s.file[n].idx \in {file[n].idx, i}
      /\ Copies => \A k \in Name : s.cidx[k] # 0 => s.file[k].idx = s.cidx[k]
  BY <1>2 DEF Puts
<1>5. o.file = s.file /\ o.cidx \in {Evict(s.cidx, n), [s.cidx EXCEPT ![n] = 0]}
  BY <1>1, <1>3
<1>6. o.cidx \in Copy /\ \A k \in Name : o.cidx[k] \in {0, s.cidx[k]}
  <2>1. PICK d \in Copy : d = s.cidx
    BY <1>4
  <2>2. CASE o.cidx = Evict(d, n)
    BY <2>1, <2>2, EvictFacts
  <2>3. CASE o.cidx = [d EXCEPT ![n] = 0]
    BY <2>1, <2>3, EvictFacts
  <2> QED BY <1>5, <2>1, <2>2, <2>3
<1>7. Copies => \A k \in Name : o.cidx[k] # 0 => o.file[k].idx = o.cidx[k]
  BY <1>4, <1>5, <1>6
<1> QED BY <1>2, <1>4, <1>5, <1>6, <1>7 DEF Puts

\* What is known of the process's own copies, and of those of a process that
\* has looked at a missing note.
LEMMA OwnCopies ==
  ASSUME Typed, NEW n \in Name
  PROVE  Agreeing(cidx) /\ Agreeing(Evict(cidx, n))
<1>1. cidx \in Copy
  BY NotesTyped
<1>2. Evict(cidx, n) \in Copy /\ \A k \in Name : Evict(cidx, n)[k] \in {0, cidx[k]}
  BY <1>1, EvictFacts
<1> QED BY <1>1, <1>2 DEF Agreeing

\* A note is left with fewer lines or none.
Lessened(k) ==
  \/ file'[k] = NoFile
  \/ /\ file'[k].idx = file[k].idx /\ file'[k].macs \subseteq file[k].macs
     /\ file'[k].macs # {} => file'[k].there

\* A note is its wearer's, by a reading, and has lines of that interface only.
Rewritten(r, k) ==
  \E i \in Iface : /\ r.name[i] = k
                   /\ file'[k].idx = i
                   /\ i \in exposed' \/ file'[k].macs \subseteq ever'[i]
                   /\ file'[k].macs # {} => file'[k].there

\* What follows where every note is one or the other: nobody becomes strange
\* to the note of the own name, and nobody new is on record.
LEMMA Writes ==
  ASSUME Typed, Filed,
         NEW r \in [name : Names, up : SUBSET Iface], Apart(r.name),
         \A i \in Iface : r.name[i] # 0 => i \in spent,
         \A i, j \in Iface : name[i] # r.name[i] /\ name[j] # r.name[j] => i = j,
         \A i \in Iface : Strange(name[i], i) => Unknown(i) /\ r.name[i] \in {0, name[i]},
         file' \in [Name -> Notes], name' = name, spent' = spent,
         \A i \in Iface : ever[i] \subseteq ever'[i], exposed \subseteq exposed',
         \A k \in Name : Lessened(k) \/ Rewritten(r, k)
  PROVE  /\ \A i \in Iface : Strange(name[i], i)' => Unknown(i)' /\ r.name[i] \in {0, name[i]}
         /\ (\A i \in Iface : Strange(r.name[i], i) => Unknown(i))
              => \A i \in Iface : (/\ r.name[i] # 0 /\ file'[r.name[i]].macs # {} /\ file'[r.name[i]].idx # i
                                   /\ ~({i, file'[r.name[i]].idx} \subseteq exposed')) => Unknown(i)'
         /\ \A i \in Iface : r.name[i] = 0 /\ ~Unknown(i)' => ~Unknown(i)
         /\ \A n \in Name : file'[n].macs # {} => file'[n].there /\ file'[n].idx # 0
         /\ \A n \in Name : file'[n].idx # 0 =>
              /\ file'[n].idx \in spent'
              /\ file'[n].idx \in exposed' \/ file'[n].macs \subseteq ever'[file'[n].idx]
<1>0. name \in Names /\ r.name \in Names /\ Apart(name) /\ file \in [Name -> Notes]
  BY NotesTyped DEF Typed, TypeOK, Names, Apart
<1>1. ASSUME NEW k \in Name, NEW i \in Iface, file'[k].idx = i
      PROVE  file[k].idx = i \/ r.name[i] = k
  BY <1>1, Zero DEF Lessened, Rewritten, NoFile
<1>2. ASSUME NEW k \in Name, NEW i \in Iface, file'[k].macs # {}, file'[k].idx # i,
             ~({i, file'[k].idx} \subseteq exposed')
      PROVE  Strange(k, i) \/ r.name[i] # k
  <2>1. CASE Lessened(k)
    BY <2>1, <1>2, Zero DEF Lessened, Strange, NoFile
  <2>2. CASE Rewritten(r, k)
    BY <2>2, <1>2, Zero DEF Rewritten, Apart
  <2> QED BY <2>1, <2>2
<1>3. ASSUME NEW i \in Iface, Unknown(i), NEW n \in Name, r.name[i] \in {0, n}, file'[n].idx # i
      PROVE  Unknown(i)'
  <2> SUFFICES ASSUME NEW k \in Name, file'[k].idx = i PROVE FALSE
    BY DEF Unknown
  <2> QED BY <1>1, <1>3, Zero DEF Unknown
<1>4. ASSUME NEW i \in Iface, Strange(name[i], i)'
      PROVE  Unknown(i)' /\ r.name[i] \in {0, name[i]}
  <2>1. /\ name[i] \in Name /\ file'[name[i]].macs # {} /\ file'[name[i]].idx # i
        /\ ~({i, file'[name[i]].idx} \subseteq exposed')
    BY <1>0, <1>4 DEF Strange, Names
  <2>2. Strange(name[i], i)
    <3>1. CASE Lessened(name[i])
      BY <3>1, <2>1, Zero DEF Lessened, Strange, NoFile
    <3>2. CASE Rewritten(r, name[i])
      <4>1. PICK j \in Iface : r.name[j] = name[i] /\ file'[name[i]].idx = j
        BY <3>2 DEF Rewritten
      <4>2. j # i /\ name[j] # r.name[j]
        BY <4>1, <2>1, <1>0, Zero DEF Apart
      <4>3. name[i] # r.name[i]
        BY <4>1, <4>2, <2>1, Zero DEF Apart
      <4> QED BY <4>2, <4>3
    <3> QED BY <2>1, <3>1, <3>2
  <2>3. Unknown(i) /\ r.name[i] \in {0, name[i]}
    BY <2>2
  <2> QED BY <2>1, <2>3, <1>3
<1>5. ASSUME \A i \in Iface : Strange(r.name[i], i) => Unknown(i),
             NEW i \in Iface, r.name[i] # 0, file'[r.name[i]].macs # {}, file'[r.name[i]].idx # i,
             ~({i, file'[r.name[i]].idx} \subseteq exposed')
      PROVE  Unknown(i)'
  <2>1. r.name[i] \in Name
    BY <1>0, <1>5 DEF Names
  <2>2. Strange(r.name[i], i)
    BY <2>1, <1>2, <1>5
  <2> QED BY <2>1, <2>2, <1>3, <1>5
<1>6. ASSUME NEW i \in Iface, r.name[i] = 0, ~Unknown(i)' PROVE ~Unknown(i)
  BY <1>1, <1>6, Zero DEF Unknown
<1>7. ASSUME NEW n \in Name
      PROVE  /\ file'[n].macs # {} => file'[n].there /\ file'[n].idx # 0
             /\ file'[n].idx # 0 =>
                  /\ file'[n].idx \in spent'
                  /\ file'[n].idx \in exposed' \/ file'[n].macs \subseteq ever'[file'[n].idx]
  <2>1. CASE file'[n] = NoFile
    BY <2>1 DEF NoFile
  <2>2. CASE /\ file'[n].idx = file[n].idx /\ file'[n].macs \subseteq file[n].macs
             /\ file'[n].macs # {} => file'[n].there
    <3>1. file[n].idx # 0 => file[n].idx \in Iface
      BY <1>0 DEF Notes
    <3> QED BY <2>2, <3>1 DEF Filed
  <2>3. CASE Rewritten(r, n)
    BY <2>3, Zero DEF Rewritten
  <2> QED BY <2>1, <2>2, <2>3 DEF Lessened
<1> QED BY <1>4, <1>5, <1>6, <1>7

\* What a migration, whole, refused or cut short, makes of the notes.
Migrated(f, old, new, i) ==
  /\ f \in [Name -> Notes]
  /\ \A k \in Name \ {old, new} : f[k] = file[k]
  /\ f[old] \in {file[old], NoFile}
  /\ f[new].idx \in {file[new].idx, i}
  /\ \/ /\ f[new] = file[new]
        /\ f[old] = file[old] \/ file[old].macs = {}
     \/ f[old] = file[old] /\ f[new].macs = file[new].macs /\ f[new].there = file[new].there
     \/ /\ f[new].macs = file[new].macs \cup file[old].macs /\ f[new].there
        /\ Copies /\ "record" \notin Faults => f[new].idx = i \/ file[old].macs \subseteq file[new].macs

\* The lines are taken, and then the old note goes or, in a death, stays.
LEMMA TakenMigrates ==
  ASSUME Typed, NEW old \in Name, NEW new \in Name, old # new, NEW i \in Iface,
         NEW o \in Taken(cidx, new, i, file[old].macs),
         NEW f, f \in {o.file, [o.file EXCEPT ![old] = NoFile]}
  PROVE  /\ Migrated(f, old, new, i)
         /\ [o.cidx EXCEPT ![old] = 0] \in Copy
         /\ Copies /\ f[old] = NoFile =>
              \A k \in Name : [o.cidx EXCEPT ![old] = 0][k] # 0 => f[k].idx = [o.cidx EXCEPT ![old] = 0][k]
<1>0. file \in [Name -> Notes] /\ NoFile \in Notes /\ file[old].macs \in SUBSET Mac
  BY NotesTyped DEF Notes
<1>1. /\ Puts(o.file, o.cidx, new, i, file[old].macs)
      /\ o.file[new].there
      /\ Copies /\ "record" \notin Faults => o.file[new].idx = i \/ file[old].macs \subseteq file[new].macs
  BY <1>0, OwnCopies, TakenFacts
<1>2. /\ o.file \in [Name -> Notes] /\ o.cidx \in Copy
      /\ \A k \in Name \ {new} : o.file[k] = file[k]
      /\ o.file[new].macs = file[new].macs \cup file[old].macs
      /\ o.file[new].idx \in {file[new].idx, i}
      /\ Copies => \A k \in Name : o.cidx[k] # 0 => o.file[k].idx = o.cidx[k]
  BY <1>1 DEF Puts
<1>3. /\ f \in [Name -> Notes] /\ f[old] \in {file[old], NoFile}
      /\ \A k \in Name \ {old} : f[k] = o.file[k]
  <2>1. CASE f = o.file
    BY <1>2, <2>1
  <2>2. CASE f = [o.file EXCEPT ![old] = NoFile]
    BY <1>0, <1>2, <2>2
  <2> QED BY <2>1, <2>2
<1>4. Migrated(f, old, new, i)
  BY <1>1, <1>2, <1>3 DEF Migrated
<1>5. [o.cidx EXCEPT ![old] = 0] \in Copy
  BY <1>2, EvictFacts
<1> QED BY <1>2, <1>3, <1>4, <1>5 DEF Copy

LEMMA FollowFacts ==
  ASSUME Typed, NEW old \in Name, NEW new \in Name, old # new, NEW i \in Iface,
         FollowMoves(old, new, i) \/ FollowWaits(old, new, i)
  PROVE  Migrated(file', old, new, i) /\ cidx' \in Copy /\ (Copies => Copies')
<1>0. file \in [Name -> Notes] /\ NoFile \in Notes /\ cidx \in Copy
  BY NotesTyped
<1>1. CASE file' = [file EXCEPT ![old] = NoFile] /\ cidx' = [cidx EXCEPT ![old] = 0] /\ file[old].macs = {}
  <2>1. Migrated(file', old, new, i)
    BY <1>0, <1>1 DEF Migrated
  <2>2. cidx' \in Copy /\ (Copies => Copies')
    BY <1>0, <1>1 DEF Copy, Copies
  <2> QED BY <2>1, <2>2
<1>2. ASSUME NEW o \in Taken(cidx, new, i, file[old].macs),
             file' = [o.file EXCEPT ![old] = NoFile], cidx' = [o.cidx EXCEPT ![old] = 0]
      PROVE  Migrated(file', old, new, i) /\ cidx' \in Copy /\ (Copies => Copies')
  <2>1. PICK f : f = [o.file EXCEPT ![old] = NoFile]
    OBVIOUS
  <2>2. /\ Migrated(f, old, new, i)
        /\ [o.cidx EXCEPT ![old] = 0] \in Copy
        /\ Copies /\ f[old] = NoFile =>
             \A k \in Name : [o.cidx EXCEPT ![old] = 0][k] # 0 => f[k].idx = [o.cidx EXCEPT ![old] = 0][k]
    <3>1. f \in {o.file, [o.file EXCEPT ![old] = NoFile]}
      BY <2>1
    <3> QED BY <3>1, TakenMigrates
  <2>3. f[old] = NoFile
    <3>1. o.file \in [Name -> Notes]
      <4>1. file[old].macs \in SUBSET Mac
        BY <1>0 DEF Notes
      <4>2. Puts(o.file, o.cidx, new, i, file[old].macs)
        BY <4>1, OwnCopies, TakenFacts
      <4> QED BY <4>2 DEF Puts
    <3> QED BY <2>1, <3>1
  <2> QED BY <1>2, <2>1, <2>2, <2>3 DEF Copies
<1>3. CASE file' = file /\ cidx' = [cidx EXCEPT ![old] = 0]
  <2>1. Migrated(file', old, new, i)
    BY <1>0, <1>3 DEF Migrated
  <2>2. cidx' \in Copy /\ (Copies => Copies')
    BY <1>0, <1>3 DEF Copy, Copies
  <2> QED BY <2>1, <2>2
<1>4. ASSUME NEW o \in Refused(cidx, new, i), file' = o.file, cidx' = o.cidx
      PROVE  Migrated(file', old, new, i) /\ cidx' \in Copy /\ (Copies => Copies')
  <2>1. Puts(o.file, o.cidx, new, i, {}) /\ o.file[new].there = file[new].there
    BY OwnCopies, RefusedFacts
  <2>2. Migrated(file', old, new, i)
    BY <1>4, <2>1 DEF Puts, Migrated
  <2> QED BY <1>4, <2>1, <2>2 DEF Puts, Copies
<1> QED BY <1>1, <1>2, <1>3, <1>4 DEF FollowMoves, FollowWaits, Leaves

LEMMA CutFacts ==
  ASSUME Typed, NEW old \in Name, NEW new \in Name, old # new, NEW i \in Iface, NEW f \in MigrateCut(old, new, i)
  PROVE  Migrated(f, old, new, i)
<1>1. CASE \E o \in Recordings(cidx, new, i, "refuse" \in Faults) : f = o.file
  <2>1. PICK o \in Recordings(cidx, new, i, TRUE) : f = o.file
    BY <1>1 DEF Recordings
  <2>2. Puts(o.file, o.cidx, new, i, {}) /\ o.file[new].there = file[new].there
    BY OwnCopies, RecordingFacts
  <2>3. /\ f \in [Name -> Notes] /\ \A k \in Name \ {new} : f[k] = file[k]
        /\ f[new].macs = file[new].macs /\ f[new].there = file[new].there
        /\ f[new].idx \in {file[new].idx, i}
    BY <2>1, <2>2 DEF Puts
  <2> QED BY <2>3 DEF Migrated
<1>2. CASE \E o \in Taken(cidx, new, i, file[old].macs) : f \in {o.file, [o.file EXCEPT ![old] = NoFile]}
  <2>1. PICK o \in Taken(cidx, new, i, file[old].macs) : f \in {o.file, [o.file EXCEPT ![old] = NoFile]}
    BY <1>2
  <2>2. /\ Migrated(f, old, new, i)
        /\ [o.cidx EXCEPT ![old] = 0] \in Copy
    BY <2>1, TakenMigrates
  <2> QED BY <2>2
<1>3. f \in {o.file : o \in Recordings(cidx, new, i, "refuse" \in Faults)}
        \/ f \in UNION {{o.file, [o.file EXCEPT ![old] = NoFile]} : o \in Taken(cidx, new, i, file[old].macs)}
  BY Zenon DEF MigrateCut
<1> QED BY <1>1, <1>2, <1>3

\* What unregister_all makes of note n, of interface i, with "kept" left.
Emptied(n, i, kept) ==
  /\ kept \subseteq file[n].macs /\ (i = 0 => kept = {})
  /\ TakeOut(i, file[n].macs \ kept)
  /\ file' \in [Name -> Notes] /\ \A k \in Name \ {n} : file'[k] = file[k]
  /\ \/ file'[n] = NoFile /\ kept = {}
     \/ /\ file'[n].there = file[n].there /\ file'[n].idx = file[n].idx
        /\ kept \subseteq file'[n].macs /\ file'[n].macs \subseteq file[n].macs

LEMMA SettledFacts ==
  ASSUME Typed, NEW n \in Name, NEW i, NEW c, Settled(n, i, c)
  PROVE  /\ \E kept \in SUBSET Mac : Emptied(n, i, kept)
         /\ c = 0 \/ (c = cidx[n] /\ file'[n].idx = file[n].idx)
<1>0. file \in [Name -> Notes] /\ NoFile \in Notes /\ file[n] \in Notes /\ file[n].macs \in SUBSET Mac
  BY NotesTyped DEF Notes
<1>1. PICK kept \in IF i = 0 THEN {{}} ELSE Kept(file[n].macs) :
        /\ TakeOut(i, file[n].macs \ kept)
        /\ \/ kept = {} /\ file' = [file EXCEPT ![n] = NoFile] /\ c = 0
           \/ kept # {} /\ file' = [file EXCEPT ![n].macs = kept] /\ c = cidx[n]
           \/ kept # {} /\ file' = file /\ c = cidx[n]
  BY DEF Settled
<1>2. kept \subseteq file[n].macs /\ (i = 0 => kept = {})
  BY <1>1 DEF Kept
<1>3. CASE kept = {} /\ file' = [file EXCEPT ![n] = NoFile] /\ c = 0
  <2>1. Emptied(n, i, kept)
    BY <1>0, <1>1, <1>2, <1>3 DEF Emptied
  <2> QED BY <1>3, <2>1
<1>4. CASE file' = [file EXCEPT ![n].macs = kept] /\ c = cidx[n]
  <2>1. /\ file' \in [Name -> Notes] /\ \A k \in Name \ {n} : file'[k] = file[k]
        /\ file'[n].there = file[n].there /\ file'[n].idx = file[n].idx /\ file'[n].macs = kept
    BY <1>0, <1>2, <1>4 DEF Notes
  <2>2. Emptied(n, i, kept) /\ kept \in SUBSET Mac
    BY <1>0, <1>1, <1>2, <2>1 DEF Emptied
  <2> QED BY <1>4, <2>1, <2>2
<1>5. CASE file' = file /\ c = cidx[n]
  <2>1. Emptied(n, i, kept) /\ kept \in SUBSET Mac
    BY <1>0, <1>1, <1>2, <1>5 DEF Emptied
  <2> QED BY <1>5, <2>1
<1> QED BY <1>1, <1>3, <1>4, <1>5

-----------------------------------------------------------------------------
(* Types *)

\* What the kernel and others do.
World ==
  \E i \in Iface :
    \/ \E n \in Name : Rename(i, n) \/ Appear(i, n)
    \/ Depart(i) \/ Rebridge(i)
    \/ \E m \in Mac : ForeignAdd(i, m)

LEMMA WorldFacts ==
  ASSUME World
  PROVE  /\ UNCHANGED <<file, cidx, absent, pairs, pc, rd, todo, at, held, fl, exposed>>
         /\ \/ UNCHANGED <<moves, name, spent>>
            \/ moves < Burst /\ moves' = moves + 1
BY DEF World, Rename, Appear, Depart, Rebridge, ForeignAdd, Renaming, card, proc, pass, world, more

LEMMA TypedWorld ==
  ASSUME TInv, World
  PROVE  TInv'
<1>1. PICK i \in Iface : \/ \E n \in Name : Rename(i, n) \/ Appear(i, n)
                         \/ Depart(i) \/ Rebridge(i)
                         \/ \E m \in Mac : ForeignAdd(i, m)
  BY DEF World
<1>2. Handed'
  BY WorldFacts DEF TInv, Handed, Wearer
<1>3. /\ name' \in [Iface -> Name \cup {0}] /\ Apart(name')
      /\ spent' \subseteq Iface /\ up' \subseteq spent'
      /\ \A j \in Iface : name'[j] # 0 \/ rd.name[j] # 0 => j \in spent'
  <2>1. CASE Depart(i)
    BY <2>1, Zero DEF TInv, Typed, TypeOK, Apart, Depart
  <2>2. CASE Rebridge(i) \/ \E m \in Mac : ForeignAdd(i, m)
    BY <2>2, Zero DEF TInv, Typed, TypeOK, Apart, Rebridge, ForeignAdd, world
  <2>3. ASSUME NEW n \in Name, Rename(i, n) \/ Appear(i, n)
        PROVE  /\ name' = [name EXCEPT ![i] = n] /\ Free(n)
               /\ spent' = spent \cup {i} /\ up' \in {up, up \cup {i}}
    BY <2>3 DEF TInv, Typed, TypeOK, Rename, Appear
  <2>4. CASE \E n \in Name : Rename(i, n) \/ Appear(i, n)
    <3>1. PICK n \in Name : /\ name' = [name EXCEPT ![i] = n] /\ Free(n)
                            /\ spent' = spent \cup {i} /\ up' \in {up, up \cup {i}}
      BY <2>3, <2>4
    <3>2. name' \in [Iface -> Name \cup {0}] /\ spent' \subseteq Iface /\ up' \subseteq spent'
      BY <3>1 DEF TInv, Typed, TypeOK
    <3>3. Apart(name')
      BY <3>1 DEF TInv, Typed, TypeOK, Apart, Free
    <3>4. \A j \in Iface : name'[j] # 0 \/ rd.name[j] # 0 => j \in spent'
      BY <3>1 DEF TInv, Typed, TypeOK
    <3> QED BY <3>2, <3>3, <3>4
  <2> QED BY <1>1, <2>1, <2>2, <2>4
<1>4. /\ mine' \in [Iface -> SUBSET Mac] /\ others' \in [Iface -> SUBSET Mac]
      /\ ever' \in [Iface -> SUBSET Mac]
  <2>1. CASE Depart(i)
    BY <2>1 DEF TInv, Typed, TypeOK, Depart
  <2>2. CASE \E m \in Mac : ForeignAdd(i, m)
    BY <2>2 DEF TInv, Typed, TypeOK, ForeignAdd
  <2>3. CASE Rebridge(i) \/ \E n \in Name : Rename(i, n) \/ Appear(i, n)
    BY <2>3 DEF TInv, Typed, TypeOK, Rename, Appear, Rebridge, card
  <2> QED BY <1>1, <2>1, <2>2, <2>3
<1>5. moves' \in 0 .. Burst
  BY WorldFacts, RenameAssumption DEF TInv, Typed, TypeOK
<1> QED BY <1>2, <1>3, <1>4, <1>5, WorldFacts DEF TInv, Typed, TypeOK, Apart

LEMMA TypedPass ==
  ASSUME TInv, PassBegin \/ SweepDone \/ PassDone
  PROVE  TInv'
<1>1. /\ UNCHANGED <<name, spent, up, mine, others, ever, file, cidx, at, held, fl, exposed>>
      /\ at = 0 /\ pc' \in {"idle", "sweep", "pairs"} /\ moves' \in 0 .. Burst
  BY RenameAssumption DEF PassBegin, SweepDone, PassDone, world, card, proc, more, TInv, Handed, Typed, TypeOK
<1>2. /\ rd' \in [name : Names, up : SUBSET Iface] /\ Apart(rd'.name)
      /\ \A i \in Iface : name'[i] # 0 \/ rd'.name[i] # 0 => i \in spent'
  <2>1. CASE rd' = rd
    BY <1>1, <2>1 DEF TInv, Typed
  <2>2. CASE rd' = Reading
    BY <1>1, <2>2, ReadingTyped DEF TInv, Typed
  <2>3. CASE rd' = NoRead
    BY <1>1, <2>3, Zero DEF TInv, Typed, NoRead, Names, Apart
  <2> QED BY <2>1, <2>2, <2>3 DEF PassBegin, SweepDone, PassDone
<1>3. absent' \subseteq Name /\ pairs' \subseteq Name /\ todo' \subseteq Name
  <2>1. Noted \subseteq Name /\ PairsOf(Reading) \subseteq Name
    BY ReadingTyped, PairsTyped DEF Noted, TInv
  <2>2. CASE PassBegin
    BY <2>1, <2>2 DEF PassBegin, Due
  <2> QED BY <2>2 DEF PassBegin, SweepDone, PassDone, proc, TInv, Typed, TypeOK
<1> QED BY <1>1, <1>2, <1>3 DEF TInv, Typed, TypeOK, Handed, Apart

LEMMA TargetNew ==
  ASSUME Typed, NEW n \in Name, RenamedTarget(rd, n) # 0
  PROVE  /\ RenamedTarget(rd, n) \in Name /\ n # RenamedTarget(rd, n)
         /\ file[n].idx \in Iface /\ rd.name[file[n].idx] = RenamedTarget(rd, n)
<1>1. rd.name \in Names
  BY DEF Typed
<1> QED BY <1>1, TargetTyped

\* follow_rename by the reading in use, whether it moves the note or waits.
Follows(n) ==
  /\ RenamedTarget(rd, n) # 0
  /\ \/ FollowMoves(n, RenamedTarget(rd, n), file[n].idx)
     \/ FollowWaits(n, RenamedTarget(rd, n), file[n].idx)

LEMMA FollowsFacts ==
  ASSUME Typed, NEW n \in Name, Follows(n)
  PROVE  /\ \E new \in Name, i \in Iface :
              n # new /\ i = file[n].idx /\ rd.name[i] = new /\ Migrated(file', n, new, i)
         /\ file' \in [Name -> Notes] /\ cidx' \in Copy /\ (Copies => Copies')
<1>1. PICK new \in Name, i \in Iface :
        new = RenamedTarget(rd, n) /\ i = file[n].idx /\ n # new /\ rd.name[i] = new
  BY TargetNew DEF Follows
<1>2. FollowMoves(n, new, i) \/ FollowWaits(n, new, i)
  BY <1>1 DEF Follows
<1>3. Migrated(file', n, new, i) /\ cidx' \in Copy /\ (Copies => Copies')
  BY <1>1, <1>2, FollowFacts
<1> QED BY <1>1, <1>3 DEF Migrated

LEMMA TakenTyped ==
  ASSUME TInv, NEW i, NEW macs, TakeOut(i, macs)
  PROVE  mine' \in [Iface -> SUBSET Mac] /\ others' \in [Iface -> SUBSET Mac] /\ ever' = ever
BY DEF TInv, Typed, TypeOK, TakeOut

LEMMA TypedSweep ==
  ASSUME TInv, NEW n \in Name, SweepFollows(n) \/ SweepSettles(n)
  PROVE  TInv'
<1>1. /\ UNCHANGED <<name, spent, up, absent, pairs, pc, rd, at, held, moves, fl, exposed>>
      /\ todo' \subseteq Name
  BY DEF SweepFollows, SweepSettles, world, card, more, TInv, Typed, TypeOK
<1>2. /\ file' \in [Name -> Notes] /\ cidx' \in Copy
      /\ mine' \in [Iface -> SUBSET Mac] /\ others' \in [Iface -> SUBSET Mac] /\ ever' = ever
  <2>0. file \in [Name -> Notes] /\ cidx \in Copy
    BY NotesTyped DEF TInv
  <2>1. CASE SweepFollows(n)
    <3>1. Follows(n) /\ UNCHANGED card
      BY <2>1 DEF SweepFollows, Renamed, Follows
    <3> QED BY <3>1, FollowsFacts DEF TInv, Typed, TypeOK, card
  <2>2. ASSUME NEW i, NEW c \in {0, cidx[n]}, Settled(n, i, c), cidx' = [cidx EXCEPT ![n] = c]
        PROVE  /\ file' \in [Name -> Notes] /\ cidx' \in Copy
               /\ mine' \in [Iface -> SUBSET Mac] /\ others' \in [Iface -> SUBSET Mac] /\ ever' = ever
    <3>1. PICK kept \in SUBSET Mac : Emptied(n, i, kept)
      BY <2>2, SettledFacts DEF TInv
    <3>2. TakeOut(i, file[n].macs \ kept) /\ file' \in [Name -> Notes]
      BY <3>1 DEF Emptied
    <3>3. cidx' \in Copy
      BY <2>0, <2>2 DEF Copy
    <3> QED BY <3>2, <3>3, TakenTyped
  <2>3. CASE UNCHANGED <<card, file>> /\ cidx' \in {cidx, [cidx EXCEPT ![n] = 0]}
    BY <2>0, <2>3 DEF Copy, card, TInv, Typed, TypeOK
  <2>4. CASE SweepSettles(n)
    BY <2>2, <2>3, <2>4 DEF SweepSettles
  <2> QED BY <2>1, <2>4
<1> QED BY <1>1, <1>2 DEF TInv, Typed, TypeOK, Handed, Apart, Notes, Copy

LEMMA TypedReused ==
  ASSUME TInv, NEW n \in Name, PairReused(n) \/ PairWaits(n)
  PROVE  TInv'
<1>1. /\ UNCHANGED <<name, spent, up, mine, others, ever, absent, pairs, pc, rd, at, held, moves, fl>>
      /\ todo' \subseteq Name /\ exposed' \subseteq Iface
  <2>1. CASE PairReused(n)
    BY <2>1 DEF PairReused, world, card, more, TInv, Typed, TypeOK
  <2>2. CASE PairWaits(n)
    <3>1. /\ UNCHANGED <<name, spent, up, mine, others, ever, absent, pairs, pc, rd, at, held, moves, fl>>
          /\ todo' \subseteq Name
      BY <2>2 DEF PairWaits, world, card, TInv, Typed, TypeOK
    <3>2. exposed' = exposed \cup {Wearer(rd, n), file[n].idx} /\ Wearer(rd, n) \in rd.up
          /\ RenamedTarget(rd, n) # 0
      BY <2>2 DEF PairWaits
    <3> QED BY <3>1, <3>2, TargetNew DEF TInv, Typed, TypeOK
  <2> QED BY <2>1, <2>2
<1>2. file' \in [Name -> Notes] /\ cidx' \in Copy
  <2>0. file \in [Name -> Notes] /\ NoFile \in Notes /\ cidx \in Copy
    BY NotesTyped DEF TInv
  <2>1. CASE Follows(n)
    BY <2>1, FollowsFacts DEF TInv
  <2>2. CASE file' = [file EXCEPT ![n] = NoFile] /\ cidx' = [cidx EXCEPT ![n] = 0]
    BY <2>0, <2>2 DEF Copy
  <2> QED BY <2>1, <2>2 DEF PairReused, PairWaits, Follows
<1> QED BY <1>1, <1>2 DEF TInv, Typed, TypeOK, Handed, Apart, Notes, Copy

LEMMA TypedOpens ==
  ASSUME TInv, NEW n \in Name, PairOpens(n)
  PROVE  TInv'
<1>1. /\ UNCHANGED <<name, spent, up, mine, others, ever, file, absent, pairs, pc, rd, moves, fl, exposed>>
      /\ pc = "pairs" /\ at' = n /\ todo' = todo \ {n} /\ held' \in {{}, file[n].macs}
      /\ cidx' \in {Evict(cidx, n), [cidx EXCEPT ![n] = 0]}
      /\ Wearer(rd, n) \in rd.up
  BY DEF PairOpens, Visiting, world, card, more
<1>2. file[n].macs \subseteq Mac /\ Wearer(rd, n) \in Iface
  BY <1>1 DEF TInv, Typed, TypeOK
<1>3. cidx' \in Copy
  <2>1. cidx \in Copy
    BY NotesTyped DEF TInv
  <2>2. Evict(cidx, n) \in Copy
    BY <2>1, EvictFacts
  <2>3. [cidx EXCEPT ![n] = 0] \in Copy
    BY <2>1 DEF Copy
  <2> QED BY <1>1, <2>2, <2>3
<1>4. held' \subseteq Mac /\ at' \in Name \cup {0} /\ todo' \subseteq Name
  BY <1>1, <1>2 DEF TInv, Typed, TypeOK
<1>5. Handed'
  BY <1>1, <1>2 DEF Handed
<1> QED BY <1>1, <1>3, <1>4, <1>5 DEF TInv, Typed, TypeOK, Apart, Copy

\* What PairWrites does to the note, the record's copy and the card.
PairWritten(put, out) ==
  LET i == Wearer(rd, at) IN
  /\ pc = "pairs" /\ at \in Name /\ i \in Iface
  /\ UNCHANGED <<name, spent, up, absent, pairs, pc, rd, todo, moves, fl, exposed>>
  /\ at' = 0 /\ held' = {}
  /\ name[i] = 0 => out = {}
  /\ file' \in [Name -> Notes] /\ \A k \in Name \ {at} : file'[k] = file[k]
  /\ (file[at].macs \cup put) \ out \subseteq file'[at].macs
  /\ file'[at].macs \subseteq file[at].macs \cup put
  /\ file'[at].there \/ (file'[at].there = file[at].there /\ put = {})
  /\ file'[at].idx \in {file[at].idx, i}
  /\ Copies /\ "record" \notin Faults => file'[at].idx = i \/ put \subseteq file[at].macs
  /\ cidx' \in Copy /\ (Copies => Copies')
  /\ mine' \in [Iface -> SUBSET Mac] /\ others' \in [Iface -> SUBSET Mac]
  /\ ever' \in [Iface -> SUBSET Mac]
  /\ \A j \in Iface \ {i} : mine'[j] = mine[j] /\ others'[j] = others[j] /\ ever'[j] = ever[j]
  /\ mine'[i] = IF name[i] = 0 THEN mine[i] ELSE (mine[i] \cup put) \ out
  /\ others'[i] = others[i] \ out /\ ever'[i] = ever[i] \cup put

LEMMA StoresFacts ==
  ASSUME Typed, NEW n \in Name, NEW i \in Iface, NEW add \in SUBSET Mac, NEW o \in PairStores(n, i, add)
  PROVE  /\ Puts(o.file, o.cidx, n, i, o.put)
         /\ o.put \in {{}, add}
         /\ Copies /\ "record" \notin Faults => o.file[n].idx = i \/ o.put \subseteq file[n].macs
<1>1. CASE o = [file |-> file, cidx |-> cidx, put |-> {}]
  <2>1. Puts(o.file, o.cidx, n, i, {})
    BY <1>1, NotesTyped DEF Puts, Copies
  <2> QED BY <1>1, <2>1
<1>2. ASSUME NEW fails, NEW s \in Recordings(cidx, n, i, fails),
             o = [file |-> s.file, cidx |-> s.cidx, put |-> {}]
      PROVE  Puts(o.file, o.cidx, n, i, o.put)
  <2>1. PICK z \in Recordings(cidx, n, i, TRUE) : z = s
    BY DEF Recordings
  <2>2. Puts(z.file, z.cidx, n, i, {})
    BY OwnCopies, RecordingFacts
  <2> QED BY <1>2, <2>1, <2>2
<1>3. ASSUME NEW s \in Taken(cidx, n, i, add), o = [file |-> s.file, cidx |-> s.cidx, put |-> add]
      PROVE  /\ Puts(o.file, o.cidx, n, i, o.put)
             /\ Copies /\ "record" \notin Faults => o.file[n].idx = i \/ add \subseteq file[n].macs
  <2>1. /\ Puts(s.file, s.cidx, n, i, add)
        /\ Copies /\ "record" \notin Faults => s.file[n].idx = i \/ add \subseteq file[n].macs
    BY OwnCopies, TakenFacts
  <2> QED BY <1>3, <2>1
<1>4. ASSUME NEW s \in Refused(cidx, n, i), o = [file |-> s.file, cidx |-> s.cidx, put |-> {}]
      PROVE  Puts(o.file, o.cidx, n, i, o.put)
  <2>1. Puts(s.file, s.cidx, n, i, {})
    BY OwnCopies, RefusedFacts
  <2> QED BY <1>4, <2>1
<1>5. \/ o = [file |-> file, cidx |-> cidx, put |-> {}]
      \/ \E s \in Recordings(cidx, n, i, "record" \in Faults \/ "refuse" \in Faults) :
           o = [file |-> s.file, cidx |-> s.cidx, put |-> {}]
      \/ \E s \in Taken(cidx, n, i, add) : o = [file |-> s.file, cidx |-> s.cidx, put |-> add]
      \/ \E s \in Refused(cidx, n, i) : o = [file |-> s.file, cidx |-> s.cidx, put |-> {}]
  BY DEF PairStores
<1>6. CASE \E s \in Recordings(cidx, n, i, "record" \in Faults \/ "refuse" \in Faults) :
             o = [file |-> s.file, cidx |-> s.cidx, put |-> {}]
  BY <1>2, <1>6
<1>7. CASE \E s \in Taken(cidx, n, i, add) : o = [file |-> s.file, cidx |-> s.cidx, put |-> add]
  BY <1>3, <1>7
<1>8. CASE \E s \in Refused(cidx, n, i) : o = [file |-> s.file, cidx |-> s.cidx, put |-> {}]
  BY <1>4, <1>8
<1> QED BY <1>1, <1>5, <1>6, <1>7, <1>8

LEMMA WritesFacts ==
  ASSUME TInv, NEW want \in SUBSET Mac, PairWrites(want)
  PROVE  \E put \in SUBSET want, out \in SUBSET (held \ want) : PairWritten(put, out)
<1>a. at \in Name /\ Wearer(rd, at) \in Iface
  BY DEF PairWrites, TInv, Typed, TypeOK, Handed
<1>b. PICK n \in Name : n = at
  BY <1>a
<1>c. PICK i \in Iface : i = Wearer(rd, at)
  BY <1>a
<1>d. PICK add \in SUBSET want : add = want \ (mine[i] \cup others[i])
  OBVIOUS
<1>1. PICK o \in PairStores(n, i, add), kept \in (IF name[i] = 0 THEN {held \ want} ELSE Kept(held \ want)) :
       LET out == (held \ want) \ kept
       IN /\ \E off \in {out} \cup (IF "refuse" \in Faults THEN {{}} ELSE {}) :
               file' = [o.file EXCEPT ![n].macs = @ \ off]
          /\ cidx' = o.cidx
          /\ mine' = [mine EXCEPT ![i] = IF name[i] = 0 THEN @ ELSE (@ \cup o.put) \ out]
          /\ others' = [others EXCEPT ![i] = @ \ out]
          /\ ever' = [ever EXCEPT ![i] = @ \cup o.put]
  BY <1>b, <1>c, <1>d DEF PairWrites
<1>2. PICK out \in SUBSET (held \ want) : out = (held \ want) \ kept
  OBVIOUS
<1>3. PICK off \in {{}, out} : file' = [o.file EXCEPT ![n].macs = @ \ off]
  BY <1>1, <1>2
<1>4. /\ Puts(o.file, o.cidx, n, i, o.put)
      /\ o.put \in {{}, add}
      /\ Copies /\ "record" \notin Faults => o.file[n].idx = i \/ o.put \subseteq file[n].macs
  BY StoresFacts DEF TInv
<1>5. PICK put \in SUBSET want : put = o.put
  BY <1>4
<1>6. /\ pc = "pairs" /\ n \in Name /\ i \in Iface
      /\ UNCHANGED <<name, spent, up, absent, pairs, pc, rd, todo, moves, fl, exposed>> /\ at' = 0 /\ held' = {}
      /\ (name[i] = 0 => out = {})
  BY <1>1, <1>2 DEF PairWrites, world, more
<1>7. /\ mine' \in [Iface -> SUBSET Mac] /\ others' \in [Iface -> SUBSET Mac]
      /\ ever' \in [Iface -> SUBSET Mac]
      /\ \A j \in Iface \ {i} : mine'[j] = mine[j] /\ others'[j] = others[j] /\ ever'[j] = ever[j]
      /\ mine'[i] = IF name[i] = 0 THEN mine[i] ELSE (mine[i] \cup put) \ out
      /\ others'[i] = others[i] \ out /\ ever'[i] = ever[i] \cup put
  <2>1. /\ mine' = [mine EXCEPT ![i] = IF name[i] = 0 THEN @ ELSE (@ \cup put) \ out]
        /\ others' = [others EXCEPT ![i] = @ \ out]
        /\ ever' = [ever EXCEPT ![i] = @ \cup put]
    BY <1>1, <1>2, <1>5
  <2> QED BY <2>1 DEF TInv, Typed, TypeOK
<1>8. /\ o.file \in [Name -> Notes] /\ o.cidx \in Copy
      /\ \A k \in Name \ {n} : o.file[k] = file[k]
      /\ o.file[n].macs = file[n].macs \cup put
      /\ o.file[n].idx \in {file[n].idx, i}
      /\ o.file[n].there \/ (o.file[n].there = file[n].there /\ put = {})
      /\ Copies => \A k \in Name : o.cidx[k] # 0 => o.file[k].idx = o.cidx[k]
  BY <1>4, <1>5 DEF Puts
<1>9. /\ file' \in [Name -> Notes] /\ \A k \in Name \ {n} : file'[k] = o.file[k]
      /\ file'[n].macs = o.file[n].macs \ off /\ file'[n].there = o.file[n].there
      /\ file'[n].idx = o.file[n].idx
  BY <1>3, <1>8 DEF Notes
<1>10. /\ file' \in [Name -> Notes] /\ \A k \in Name \ {n} : file'[k] = file[k]
       /\ (file[n].macs \cup put) \ out \subseteq file'[n].macs
       /\ file'[n].macs \subseteq file[n].macs \cup put
       /\ file'[n].there \/ (file'[n].there = file[n].there /\ put = {})
       /\ file'[n].idx \in {file[n].idx, i}
  BY <1>8, <1>9
<1>11. Copies /\ "record" \notin Faults => file'[n].idx = i \/ put \subseteq file[n].macs
  BY <1>4, <1>5, <1>9
<1>12. cidx' \in Copy /\ (Copies => Copies')
  <2>1. \A k \in Name : file'[k].idx = o.file[k].idx
    BY <1>9
  <2> QED BY <1>1, <1>8, <2>1 DEF Copies
<1>13. PairWritten(put, out)
  BY <1>b, <1>c, <1>6, <1>7, <1>10, <1>11, <1>12 DEF PairWritten
<1> QED BY <1>13

LEMMA TypedWrites ==
  ASSUME TInv, NEW want \in SUBSET Mac, PairWrites(want)
  PROVE  TInv'
<1>0. PICK put \in SUBSET want, out \in SUBSET (held \ want) : PairWritten(put, out)
  BY WritesFacts
<1>1. /\ UNCHANGED <<name, spent, up, absent, pairs, pc, rd, todo, moves, fl, exposed>>
      /\ at' = 0 /\ held' = {}
      /\ file' \in [Name -> Notes] /\ cidx' \in Copy
      /\ mine' \in [Iface -> SUBSET Mac] /\ others' \in [Iface -> SUBSET Mac]
      /\ ever' \in [Iface -> SUBSET Mac]
  BY <1>0 DEF PairWritten
<1> QED BY <1>1 DEF TInv, Typed, TypeOK, Handed, Apart, Notes, Copy

LEMMA AnsweringFacts ==
  ASSUME TInv, NEW n \in Name, Answering(n)
  PROVE  Wearer(Reading, n) \in Iface /\ name[Wearer(Reading, n)] = n /\ pc = "idle" /\ n \in pairs
<1>1. Wearer(Reading, n) \in up /\ up \subseteq Iface /\ pc = "idle" /\ n \in pairs
  BY DEF TInv, Typed, TypeOK, Answering
<1>2. Reading.name = name /\ Reading \in [name : Names, up : SUBSET Iface] /\ Apart(Reading.name)
  BY ReadingTyped DEF TInv
<1> QED BY <1>1, <1>2, WearerFacts, Zero

\* What FastRegisters and FastReflects do to the note, the record's copy and
\* the card.
Registered(n, i, put) ==
  /\ pc = "idle" /\ n \in pairs /\ name[i] = n
  /\ UNCHANGED <<name, spent, up, others, absent, pairs, pc, rd, todo, at, held, moves, fl, exposed>>
  /\ Puts(file', cidx', n, i, put)
  /\ Copies /\ "record" \notin Faults => file'[n].idx = i \/ put \subseteq file[n].macs
  /\ mine' \in [Iface -> SUBSET Mac] /\ ever' \in [Iface -> SUBSET Mac]
  /\ \A j \in Iface \ {i} : mine'[j] = mine[j] /\ ever'[j] = ever[j]
  /\ mine'[i] = mine[i] \cup put /\ ever'[i] = ever[i] \cup put

Reflected(n, m, i) ==
  /\ pc = "idle" /\ n \in pairs /\ name[i] = n /\ m \in file[n].macs
  /\ UNCHANGED <<name, spent, up, ever, cidx, absent, pairs, pc, rd, todo, at, held, moves, fl, exposed>>
  /\ TakeOut(i, {m})
  /\ file' \in [Name -> Notes] /\ \A k \in Name \ {n} : file'[k] = file[k]
  /\ file'[n].there = file[n].there /\ file'[n].idx = file[n].idx
  /\ file'[n].macs \in {file[n].macs, file[n].macs \ {m}}

LEMMA RegistersFacts ==
  ASSUME TInv, NEW n \in Name, NEW m \in Mac, FastRegisters(n, m)
  PROVE  \E i \in Iface, put \in SUBSET Mac : Registered(n, i, put)
<1>1. Wearer(Reading, n) \in Iface /\ name[Wearer(Reading, n)] = n /\ pc = "idle" /\ n \in pairs
  BY AnsweringFacts DEF FastRegisters
<1>2. PICK i \in Iface : i = Wearer(Reading, n)
  BY <1>1
<1>3. {m} \ others[i] \in SUBSET Mac
  OBVIOUS
<1>4. PICK add \in SUBSET Mac : add = {m} \ others[i]
  BY <1>3
<1>5. /\ UNCHANGED <<name, spent, up, others, absent, pairs, pc, rd, todo, at, held, moves, fl, exposed>>
      /\ mine \in [Iface -> SUBSET Mac] /\ ever \in [Iface -> SUBSET Mac]
  BY DEF FastRegisters, world, pass, more, TInv, Typed, TypeOK
<1>6. PICK c \in {cidx, Evict(cidx, n)} :
       \/ /\ \E o \in Taken(c, n, i, add) : Leaves(o)
          /\ mine' = [mine EXCEPT ![i] = @ \cup add] /\ ever' = [ever EXCEPT ![i] = @ \cup add]
       \/ /\ \E o \in Refused(c, n, i) : Leaves(o)
          /\ UNCHANGED <<mine, ever>>
  BY <1>2, <1>4 DEF FastRegisters
<1>7. Agreeing(c)
  BY OwnCopies DEF TInv
<1>8. ASSUME NEW o \in Taken(c, n, i, add), Leaves(o),
             mine' = [mine EXCEPT ![i] = @ \cup add], ever' = [ever EXCEPT ![i] = @ \cup add]
      PROVE  Registered(n, i, add)
  <2>1. /\ Puts(o.file, o.cidx, n, i, add)
        /\ Copies /\ "record" \notin Faults => o.file[n].idx = i \/ add \subseteq file[n].macs
    BY <1>7, TakenFacts DEF TInv
  <2> QED BY <1>1, <1>2, <1>5, <1>8, <2>1 DEF Registered, Leaves
<1>9. ASSUME NEW o \in Refused(c, n, i), Leaves(o), UNCHANGED <<mine, ever>>
      PROVE  Registered(n, i, {})
  <2>1. Puts(o.file, o.cidx, n, i, {})
    BY <1>7, RefusedFacts DEF TInv
  <2> QED BY <1>1, <1>2, <1>5, <1>9, <2>1 DEF Registered, Leaves
<1>10. Registered(n, i, add) \/ Registered(n, i, {})
  BY <1>6, <1>8, <1>9
<1> QED BY <1>10

LEMMA ReflectsFacts ==
  ASSUME TInv, NEW n \in Name, NEW m \in Mac, FastReflects(n, m)
  PROVE  \E i \in Iface : Reflected(n, m, i)
<1>1. Wearer(Reading, n) \in Iface /\ name[Wearer(Reading, n)] = n /\ pc = "idle" /\ n \in pairs
  BY AnsweringFacts DEF FastReflects
<1>2. PICK i \in Iface : i = Wearer(Reading, n)
  BY <1>1
<1>3. file' \in {file, [file EXCEPT ![n].macs = @ \ {m}]} /\ TakeOut(i, {m}) /\ m \in file[n].macs
  BY <1>2 DEF FastReflects
<1>4. file \in [Name -> Notes]
  BY NotesTyped DEF TInv
<1>5. /\ file' \in [Name -> Notes] /\ \A k \in Name \ {n} : file'[k] = file[k]
      /\ file'[n].there = file[n].there /\ file'[n].idx = file[n].idx
      /\ file'[n].macs \in {file[n].macs, file[n].macs \ {m}}
  BY <1>3, <1>4 DEF Notes
<1>6. UNCHANGED <<name, spent, up, ever, cidx, absent, pairs, pc, rd, todo, at, held, moves, fl, exposed>>
  BY DEF FastReflects, TakeOut, world, proc, pass, more
<1> QED BY <1>1, <1>2, <1>3, <1>5, <1>6 DEF Reflected

LEMMA TypedFast ==
  ASSUME TInv, NEW n \in Name, NEW m \in Mac, FastRegisters(n, m) \/ FastReflects(n, m)
  PROVE  TInv'
<1>1. CASE FastRegisters(n, m)
  <2>1. PICK i \in Iface, put \in SUBSET Mac : Registered(n, i, put)
    BY <1>1, RegistersFacts
  <2>2. file' \in [Name -> Notes] /\ cidx' \in Copy
    BY <2>1 DEF Registered, Puts
  <2> QED BY <2>1, <2>2 DEF Registered, TInv, Typed, TypeOK, Handed, Apart, Notes, Copy
<1>2. CASE FastReflects(n, m)
  <2>1. PICK i \in Iface : Reflected(n, m, i)
    BY <1>2, ReflectsFacts
  <2>2. mine' \in [Iface -> SUBSET Mac] /\ others' \in [Iface -> SUBSET Mac]
    BY <2>1, TakenTyped DEF Reflected
  <2> QED BY <2>1, <2>2 DEF Reflected, TInv, Typed, TypeOK, Handed, Apart, Notes
<1> QED BY <1>1, <1>2

\* A flush's visit of the first note on its list.
Visits(n) ==
  /\ fl.todo # {}
  /\ \/ \E kept \in SUBSET Mac : Emptied(n, Reached(fl, n), kept)
     \/ UNCHANGED <<card, file>>
  /\ fl'.todo \subseteq fl.todo /\ (fl'.todo # {} => fl'.name = fl.name)
  /\ fl' \in [name : Names, todo : SUBSET Name] /\ Apart(fl'.name)
  /\ UNCHANGED <<name, spent, up, ever, cidx, absent, pairs, pc, rd, todo, at, held, moves, exposed>>

LEMMA VisitsFacts ==
  ASSUME TInv, NEW n \in Name, FlushVisits(n)
  PROVE  Visits(n)
<1>1. /\ \/ \E c \in {0, cidx[n]} : Settled(n, Reached(fl, n), c)
         \/ UNCHANGED <<card, file>>
      /\ fl' = IF fl.todo = {n} THEN NoFlush ELSE [fl EXCEPT !.todo = @ \ {n}]
      /\ UNCHANGED <<name, spent, up, cidx, absent, pairs, pc, rd, todo, at, held, moves, exposed>>
  BY DEF FlushVisits, world, proc, pass
<1>2. /\ \/ \E kept \in SUBSET Mac : Emptied(n, Reached(fl, n), kept)
         \/ UNCHANGED <<card, file>>
      /\ ever' = ever
  <2>1. ASSUME NEW c, Settled(n, Reached(fl, n), c)
        PROVE  (\E kept \in SUBSET Mac : Emptied(n, Reached(fl, n), kept)) /\ ever' = ever
    <3>1. PICK kept \in SUBSET Mac : Emptied(n, Reached(fl, n), kept)
      BY <2>1, SettledFacts DEF TInv
    <3> QED BY <3>1 DEF Emptied, TakeOut
  <2> QED BY <1>1, <2>1 DEF card
<1>3. /\ fl'.todo \subseteq fl.todo /\ (fl'.todo # {} => fl'.name = fl.name)
      /\ fl' \in [name : Names, todo : SUBSET Name] /\ Apart(fl'.name)
  <2>1. CASE fl' = NoFlush
    BY <2>1 DEF NoFlush, NoRead, Names, Apart
  <2>2. CASE fl' = [fl EXCEPT !.todo = @ \ {n}]
    BY <2>2 DEF TInv, Typed
  <2> QED BY <1>1, <2>1, <2>2
<1> QED BY <1>1, <1>2, <1>3 DEF Visits, FlushVisits

LEMMA TypedFlush ==
  ASSUME TInv, FlushBegins \/ \E n \in Name : FlushVisits(n)
  PROVE  TInv'
<1>1. CASE FlushBegins
  <2>1. fl' \in [name : Names, todo : SUBSET Name] /\ Apart(fl'.name)
    BY <1>1 DEF FlushBegins, Noted, TInv, Typed, TypeOK, Names, Apart
  <2>2. UNCHANGED <<name, spent, up, mine, others, ever, file, cidx, absent, pairs, pc, rd, todo, at, held,
                    moves, exposed>>
    BY <1>1 DEF FlushBegins, world, card, proc, pass
  <2> QED BY <2>1, <2>2 DEF TInv, Typed, TypeOK, Handed, Apart
<1>2. CASE \E n \in Name : FlushVisits(n)
  <2>1. PICK n \in Name : Visits(n)
    BY <1>2, VisitsFacts
  <2>2. /\ fl' \in [name : Names, todo : SUBSET Name] /\ Apart(fl'.name)
        /\ UNCHANGED <<name, spent, up, ever, cidx, absent, pairs, pc, rd, todo, at, held, moves, exposed>>
    BY <2>1 DEF Visits
  <2>3. /\ file' \in [Name -> Notes]
        /\ mine' \in [Iface -> SUBSET Mac] /\ others' \in [Iface -> SUBSET Mac]
    <3>1. CASE \E kept \in SUBSET Mac : Emptied(n, Reached(fl, n), kept)
      <4>1. PICK kept \in SUBSET Mac : Emptied(n, Reached(fl, n), kept)
        BY <3>1
      <4> QED BY <4>1, TakenTyped DEF Emptied
    <3>2. CASE UNCHANGED <<card, file>>
      BY <3>2, NotesTyped DEF card, TInv, Typed, TypeOK
    <3> QED BY <2>1, <3>1, <3>2 DEF Visits
  <2> QED BY <2>2, <2>3 DEF TInv, Typed, TypeOK, Handed, Apart, Notes
<1> QED BY <1>1, <1>2

\* What a death leaves of the notes.
LEMMA CrashFacts ==
  ASSUME TInv, Crash
  PROVE  /\ UNCHANGED <<name, spent, up, mine, others, ever, moves, fl, exposed>>
         /\ cidx' = [n \in Name |-> 0] /\ absent' = {} /\ pairs' = {}
         /\ pc' = "idle" /\ rd' = NoRead /\ todo' = {} /\ at' = 0 /\ held' = {}
         /\ \/ UNCHANGED file
            \/ \E n \in Name : \E new \in Name \ {n}, i \in Iface :
                 /\ pc # "idle" /\ i = file[n].idx /\ rd.name[i] = new
                 /\ Migrated(file', n, new, i)
<1>1. /\ UNCHANGED <<name, spent, up, mine, others, ever, moves, fl, exposed>>
      /\ cidx' = [n \in Name |-> 0] /\ absent' = {} /\ pairs' = {}
      /\ pc' = "idle" /\ rd' = NoRead /\ todo' = {} /\ at' = 0 /\ held' = {}
  BY DEF Crash, Dead, world, card, more
<1>2. ASSUME NEW n \in Name, pc # "idle", RenamedTarget(rd, n) # 0,
             file' \in MigrateCut(n, RenamedTarget(rd, n), file[n].idx)
      PROVE  \E new \in Name \ {n}, i \in Iface :
                 /\ pc # "idle" /\ i = file[n].idx /\ rd.name[i] = new
                 /\ Migrated(file', n, new, i)
  <2>1. PICK new \in Name \ {n}, i \in Iface :
          new = RenamedTarget(rd, n) /\ i = file[n].idx /\ rd.name[i] = new
    BY <1>2, TargetNew DEF TInv
  <2>2. Migrated(file', n, new, i)
    BY <1>2, <2>1, CutFacts DEF TInv
  <2> QED BY <1>2, <2>1, <2>2
<1>3. \/ UNCHANGED file
      \/ \E n \in Name : /\ pc # "idle" /\ RenamedTarget(rd, n) # 0
                         /\ file' \in MigrateCut(n, RenamedTarget(rd, n), file[n].idx)
  BY DEF Crash, Sweeping, Visiting, Renamed
<1> QED BY <1>1, <1>2, <1>3

LEMMA TypedCrash ==
  ASSUME TInv, Crash
  PROVE  TInv'
<1>1. file' \in [Name -> Notes]
  <2>1. CASE UNCHANGED file
    BY <2>1, NotesTyped DEF TInv
  <2> QED BY <2>1, CrashFacts DEF Migrated
<1>2. /\ cidx' \in Copy
      /\ rd' \in [name : Names, up : SUBSET Iface] /\ Apart(rd'.name)
      /\ \A i \in Iface : rd'.name[i] = 0
  BY CrashFacts DEF Copy, NoRead, Names, Apart
<1> QED BY <1>1, <1>2, CrashFacts DEF TInv, Typed, TypeOK, Handed, Apart, Notes, Copy

LEMMA TypedInit ==
  ASSUME Init
  PROVE  TInv
<1>1. PairsOf(Reading) \subseteq Name
  BY Zero DEF Init, PairsOf, Reading
<1>2. /\ rd \in [name : Names, up : SUBSET Iface] /\ Apart(rd.name)
      /\ fl \in [name : Names, todo : SUBSET Name] /\ Apart(fl.name)
      /\ file \in [Name -> Notes]
  BY DEF Init, NoRead, NoFlush, NoFile, Names, Apart, Notes
<1>3. \A i \in Iface : name[i] # 0 \/ rd.name[i] # 0 => i \in spent
  BY DEF Init, NoRead
<1> QED BY <1>1, <1>2, <1>3, RenameAssumption DEF Init, TInv, Typed, TypeOK, Handed, Notes

LEMMA TypedStep ==
  ASSUME TInv, [Next]_vars
  PROVE  TInv'
<1>1. CASE UNCHANGED vars
  BY <1>1 DEF vars, TInv, Typed, TypeOK, Handed, Wearer, Apart
<1>2. CASE Next
  <2>1. CASE World
    BY <2>1, TypedWorld
  <2>2. CASE PassBegin \/ SweepDone \/ PassDone
    BY <2>2, TypedPass
  <2>3. CASE \E n \in Name : SweepFollows(n) \/ SweepSettles(n)
    BY <2>3, TypedSweep
  <2>4. CASE \E n \in Name : PairReused(n) \/ PairWaits(n) \/ PairOpens(n)
    BY <2>4, TypedReused, TypedOpens
  <2>5. CASE \E want \in SUBSET Mac : PairWrites(want)
    BY <2>5, TypedWrites
  <2>6. CASE \E n \in Name, m \in Mac : FastRegisters(n, m) \/ FastReflects(n, m)
    BY <2>6, TypedFast
  <2>7. CASE FlushBegins \/ (\E n \in Name : FlushVisits(n)) \/ Crash
    BY <2>7, TypedFlush, TypedCrash
  <2> QED BY <1>2, <2>1, <2>2, <2>3, <2>4, <2>5, <2>6, <2>7 DEF Next, World
<1> QED BY <1>1, <1>2

\* Every variable has its type, whatever is renamed, refused, flushed or cut
\* short, and however often: two interfaces never share a name in what the
\* kernel or a reading has, and a note is never looked for under the name
\* "none".
THEOREM TypeCorrect == Spec => []TypeOK
<1>1. Init => TInv
  BY TypedInit
<1>2. TInv /\ [Next]_vars => TInv'
  BY TypedStep
<1>3. TInv => TypeOK
  BY DEF TInv, Typed
<1> QED BY <1>1, <1>2, <1>3, PTL DEF Spec

-----------------------------------------------------------------------------
(* The invariant: what the kernel does *)

\* The one interface a step of the kernel is about, and what becomes of it.
Renames(i) ==
  /\ \A j \in Iface \ {i} : name'[j] = name[j]
  /\ \/ name'[i] = name[i] /\ spent' = spent
     \/ name[i] # 0 /\ name'[i] = 0 /\ spent' = spent /\ mine'[i] = {}
     \/ \E n \in Name : /\ name'[i] = n /\ Free(n)
                        /\ \/ name[i] # 0 /\ spent' = spent /\ (~file[n].there \/ file[n].idx = i)
                           \/ i \notin spent /\ spent' = spent \cup {i}

LEMMA WorldRenames ==
  ASSUME TInv, Calm, World
  PROVE  /\ \E i \in Iface : Renames(i)
         /\ ever' = ever /\ \A j \in Iface : mine'[j] \subseteq mine[j]
<1>1. PICK i \in Iface : \/ \E n \in Name : Rename(i, n) \/ Appear(i, n)
                         \/ Depart(i) \/ Rebridge(i)
                         \/ \E m \in Mac : ForeignAdd(i, m)
  BY DEF World
<1>2. CASE \E n \in Name : Rename(i, n)
  <2>1. PICK n \in Name : Rename(i, n)
    BY <1>2
  <2>2. /\ name' = [name EXCEPT ![i] = n] /\ UNCHANGED <<spent, mine, ever>> /\ Free(n) /\ name[i] # 0
        /\ ~file[n].there \/ file[n].idx = i
    BY <2>1 DEF Rename, card, Calm
  <2> QED BY <2>2 DEF Renames, TInv, Typed, TypeOK
<1>3. CASE \E n \in Name : Appear(i, n)
  <2>1. PICK n \in Name : Appear(i, n)
    BY <1>3
  <2> QED BY <2>1 DEF Appear, card, Renames, TInv, Typed, TypeOK
<1>4. CASE Depart(i)
  BY <1>4 DEF Depart, Renames, TInv, Typed, TypeOK
<1>5. CASE Rebridge(i) \/ \E m \in Mac : ForeignAdd(i, m)
  BY <1>5 DEF Rebridge, ForeignAdd, Renames, card, world
<1> QED BY <1>1, <1>2, <1>3, <1>4, <1>5

LEMMA WorldInv ==
  ASSUME IInv, Calm, World
  PROVE  Inv'
<1>0. /\ TInv /\ Filed /\ Newcomers /\ Passing /\ Visited /\ Resting /\ Flushing /\ OnFile /\ Copies
      /\ name \in Names /\ rd.name \in Names /\ Apart(name) /\ Apart(rd.name) /\ pairs \subseteq Name
      /\ \A i \in Iface : rd.name[i] # 0 => i \in spent
  BY DEF IInv, Inv, TInv, Typed, TypeOK, Names, Apart
<1>1. /\ UNCHANGED <<file, cidx, absent, pairs, pc, rd, todo, at, held, fl, exposed>>
      /\ \/ UNCHANGED <<moves, name, spent>>
         \/ moves = 0 /\ moves' = 1
  BY WorldFacts, RenameAssumption DEF Calm, IInv, TInv, Typed, TypeOK
<1>2. PICK i \in Iface : Renames(i)
  BY <1>0, WorldRenames
<1>3. ever' = ever /\ \A j \in Iface : mine'[j] \subseteq mine[j]
  BY <1>0, WorldRenames
<1>4. Filed'
  BY <1>0, <1>1, <1>2, <1>3, Zero DEF Filed, Renames
<1>5. Newcomers'
  <2> SUFFICES ASSUME NEW j \in Iface, Strange(name'[j], j)
               PROVE  Unknown(j) /\ (pc # "idle" => rd.name[j] \in {0, name'[j]})
    BY <1>1 DEF Newcomers, Strange, Unknown
  <2>1. CASE name'[j] = name[j]
    BY <2>1, <1>0 DEF Newcomers
  <2>2. CASE name'[j] # name[j]
    <3>1. j = i /\ name'[i] # 0
      BY <2>2, <1>2 DEF Renames, Strange
    <3>2. PICK n \in Name : /\ name'[i] = n
                            /\ \/ ~file[n].there \/ file[n].idx = i
                               \/ i \notin spent
      BY <3>1, <2>2, <1>2 DEF Renames
    <3>3. i \notin spent
      BY <3>1, <3>2, <1>0 DEF Strange, Filed
    <3>4. Unknown(i) /\ rd.name[i] = 0
      BY <3>3, <1>0, Zero DEF Unknown, Filed
    <3> QED BY <3>1, <3>4
  <2> QED BY <2>1, <2>2
<1>6. Passing'
  <2> SUFFICES ASSUME pc # "idle"
               PROVE  /\ moves' = 0 => name' = rd.name
                      /\ \A j, k \in Iface : name'[j] # rd.name[j] /\ name'[k] # rd.name[k] => j = k
                      /\ \A j \in Iface : rd.name[j] = 0 /\ ~Unknown(j) => name'[j] = 0
    BY <1>0, <1>1 DEF Passing, Strange, Unknown
  <2>1. moves' = 0 => name' = rd.name
    BY <1>0, <1>1 DEF Passing
  <2>2. ASSUME NEW j \in Iface, NEW k \in Iface, name'[j] # rd.name[j], name'[k] # rd.name[k]
        PROVE  j = k
    <3>1. CASE UNCHANGED name
      BY <3>1, <2>2, <1>0 DEF Passing
    <3>2. CASE moves = 0
      BY <3>2, <2>2, <1>0, <1>2 DEF Passing, Renames
    <3> QED BY <3>1, <3>2, <1>1
  <2>3. ASSUME NEW j \in Iface, rd.name[j] = 0, ~Unknown(j) PROVE name'[j] = 0
    <3>1. name[j] = 0 /\ j \in spent
      BY <2>3, <1>0, Zero DEF Passing, Unknown, Filed
    <3> QED BY <3>1, <1>2 DEF Renames
  <2> QED BY <2>1, <2>2, <2>3
<1>7. Visited'
  BY <1>0, <1>1 DEF Visited, Held, Wearer
<1>8. Resting'
  <2> SUFFICES ASSUME pc = "idle"
               PROVE  /\ moves' = 0 => \A n \in pairs : \E j \in Iface : name'[j] = n
                      /\ \A j \in Iface : name'[j] \in pairs => Held(name'[j], j)
    BY <1>1 DEF Resting, Held
  <2>1. CASE UNCHANGED name
    BY <2>1, <1>0, <1>1 DEF Resting
  <2>2. CASE moves = 0 /\ moves' = 1
    <3>1. ASSUME NEW j \in Iface, name'[j] \in pairs PROVE name'[j] = name[j]
      <4>1. \E k \in Iface : name[k] = name'[j]
        BY <2>2, <3>1, <1>0 DEF Resting
      <4> QED BY <4>1, <3>1, <1>0, <1>2, Zero DEF Renames, Free
    <3> QED BY <2>2, <3>1, <1>0 DEF Resting
  <2> QED BY <2>1, <2>2, <1>1
<1>9. OnFile' /\ Copies'
  BY <1>0, <1>1, <1>3 DEF OnFile, Copies
<1>10. Flushing'
  <2> SUFFICES ASSUME fl.todo # {}, NEW n \in Name, file[n].idx # 0
               PROVE  fl.name[file[n].idx] # 0 \/ name'[file[n].idx] = 0
    BY <1>0, <1>1 DEF Flushing, Down
  <2>1. PICK j \in Iface : j = file[n].idx
    BY <1>0 DEF TInv, Typed, TypeOK
  <2>2. j \in spent /\ (fl.name[j] # 0 \/ name[j] = 0)
    BY <2>1, <1>0 DEF Filed, Flushing
  <2>3. name[j] = 0 => name'[j] = 0
    BY <2>2, <1>2, <2>1 DEF Renames
  <2> QED BY <2>1, <2>2, <2>3
<1> QED BY <1>4, <1>5, <1>6, <1>7, <1>8, <1>9, <1>10 DEF Inv

-----------------------------------------------------------------------------
(* The invariant: the course of a pass *)

LEMMA PassInv ==
  ASSUME IInv, Calm, PassBegin \/ SweepDone \/ PassDone
  PROVE  Inv'
<1>0. /\ TInv /\ Filed /\ Newcomers /\ Passing /\ Visited /\ Resting /\ Flushing /\ OnFile /\ Copies
      /\ name \in Names /\ rd.name \in Names /\ Apart(name) /\ Apart(rd.name) /\ pairs \subseteq Name
      /\ rd \in [name : Names, up : SUBSET Iface]
  BY DEF IInv, Inv, TInv, Typed, TypeOK, Names, Apart
<1>1. /\ UNCHANGED <<name, spent, up, mine, others, ever, file, cidx, at, held, fl, exposed>>
      /\ at = 0
  BY <1>0 DEF PassBegin, SweepDone, PassDone, world, card, proc, more, Visited
<1>2. Filed' /\ OnFile' /\ Copies' /\ Flushing'
  <2>1. Filed' /\ OnFile' /\ Copies'
    BY <1>0, <1>1 DEF Filed, OnFile, Copies
  <2>2. fl.todo = {}
    BY <1>0 DEF PassBegin, SweepDone, PassDone, Calm, NoFlush, Flushing, Down
  <2>3. Flushing'
    BY <2>2, <1>1 DEF Flushing
  <2> QED BY <2>1, <2>3
<1>3. CASE PassBegin
  <2>1. /\ rd' = Reading /\ pairs' = PairsOf(Reading) /\ pc' = "sweep" /\ moves' = 0
        /\ Reading.name = name
    BY <1>3, <1>0, ReadingTyped DEF PassBegin, TInv
  <2>2. Newcomers'
    BY <2>1, <1>0, <1>1 DEF Newcomers, Strange, Unknown
  <2>3. Passing'
    BY <2>1, <1>0, <1>1 DEF Passing, Newcomers, Strange, Unknown
  <2> QED BY <1>1, <1>2, <2>1, <2>2, <2>3 DEF Inv, Visited, Resting
<1>4. CASE SweepDone
  <2>1. pc = "sweep" /\ pc' = "pairs" /\ todo' = pairs /\ UNCHANGED <<pairs, rd, moves>>
    BY <1>4 DEF SweepDone, proc
  <2>2. Newcomers' /\ Passing'
    BY <2>1, <1>0, <1>1 DEF Newcomers, Passing, Strange, Unknown
  <2> QED BY <1>1, <1>2, <2>1, <2>2 DEF Inv, Visited, Resting
<1>5. CASE PassDone
  <2>1. /\ pc = "pairs" /\ pc' = "idle" /\ todo = {} /\ UNCHANGED <<pairs, moves>>
        /\ pairs = PairsOf(rd)
    BY <1>5, <1>0 DEF PassDone, proc, Passing
  <2>2. Newcomers'
    BY <2>1, <1>0, <1>1 DEF Newcomers, Strange, Unknown
  <2>3. ASSUME NEW n \in pairs PROVE \E k \in Iface : rd.name[k] = n /\ Held(n, k)
    <3>1. PICK k \in Iface : rd.name[k] = n
      BY <2>1, <2>3, <1>0 DEF PairsOf
    <3>2. Wearer(rd, n) = k
      BY <3>1, <1>0, WearerFacts
    <3> QED BY <3>1, <3>2, <2>1, <1>0 DEF Visited
  <2>4. moves = 0 => \A n \in pairs : \E i \in Iface : name[i] = n
    BY <2>1, <2>3, <1>0 DEF Passing
  <2>5. ASSUME NEW i \in Iface, name[i] \in pairs PROVE Held(name[i], i)
    <3>1. PICK k \in Iface : rd.name[k] = name[i] /\ Held(name[i], k)
      BY <2>3, <2>5
    <3>2. name[i] # 0
      BY <2>5, <1>0, Zero
    <3>3. CASE k # i
      <4>1. name[k] # rd.name[k] /\ name[i] # rd.name[i]
        BY <3>1, <3>2, <3>3, <1>0 DEF Apart
      <4> QED BY <4>1, <3>3, <2>1, <1>0 DEF Passing
    <3> QED BY <3>1, <3>3
  <2>6. Resting'
    BY <2>1, <2>4, <2>5, <1>1 DEF Resting, Held
  <2> QED BY <1>1, <1>2, <2>1, <2>2, <2>6 DEF Inv, Visited, Passing
<1> QED BY <1>3, <1>4, <1>5

-----------------------------------------------------------------------------
(* The invariant: what is written *)

\* The record decides, whether this process has a copy of it or not.
LEMMA LinkFacts ==
  ASSUME TInv, NEW r, r.name \in Names, Apart(r.name), NEW c, NEW n \in Name,
         c[n] # 0 => file[n].idx = c[n]
  PROVE  /\ Recorded(c, n) = file[n].idx
         /\ NotedLink(r, c, n) \in Iface \cup {0}
         /\ NotedLink(r, c, n) # 0 => NotedLink(r, c, n) = Wearer(r, n) /\ file[n].idx \in {0, Wearer(r, n)}
         /\ NotedLink(r, c, n) = 0 /\ file[n].idx # 0 => r.name[file[n].idx] # n
<1>1. Recorded(c, n) = file[n].idx
  BY DEF Recorded
<1>2. file[n].idx \in Iface \cup {0}
  BY DEF TInv, Typed, TypeOK
<1>3. /\ Wearer(r, n) \in Iface \cup {0}
      /\ \A i \in Iface : r.name[i] = n => Wearer(r, n) = i
  BY WearerFacts
<1>4. NotedLink(r, c, n) = IF file[n].idx \in {0, Wearer(r, n)} THEN Wearer(r, n) ELSE 0
  BY <1>1 DEF NotedLink
<1> QED BY <1>1, <1>2, <1>3, <1>4

\* A pass that writes: the notes it has been through stay their wearers'.
PassWrites ==
  /\ pc # "idle" /\ UNCHANGED <<name, spent, rd, pairs, pc, moves>>
  /\ file' \in [Name -> Notes]
  /\ \A i \in Iface : ever[i] \subseteq ever'[i]
  /\ exposed \subseteq exposed'
  /\ \A k \in Name : Lessened(k) \/ Rewritten(rd, k)

LEMMA PassWritesInv ==
  ASSUME IInv, PassWrites, \A i \in Iface : name[i] = 0 => mine'[i] = {}
  PROVE  Filed' /\ Newcomers' /\ Passing' /\ Resting'
<1>0. /\ TInv /\ Filed /\ Newcomers /\ Passing /\ Typed
      /\ rd.name \in Names /\ Apart(rd.name) /\ rd \in [name : Names, up : SUBSET Iface]
      /\ \A i \in Iface : rd.name[i] # 0 => i \in spent
  BY DEF IInv, Inv, TInv, Typed
<1>1. /\ \A i, j \in Iface : name[i] # rd.name[i] /\ name[j] # rd.name[j] => i = j
      /\ \A i \in Iface : Strange(name[i], i) => Unknown(i) /\ rd.name[i] \in {0, name[i]}
      /\ \A i \in Iface : Strange(rd.name[i], i) => Unknown(i)
  BY <1>0 DEF Passing, Newcomers, PassWrites
<1>2. /\ \A i \in Iface : Strange(name[i], i)' => Unknown(i)' /\ rd.name[i] \in {0, name[i]}
      /\ \A i \in Iface : (/\ rd.name[i] # 0 /\ file'[rd.name[i]].macs # {} /\ file'[rd.name[i]].idx # i
                            /\ ~({i, file'[rd.name[i]].idx} \subseteq exposed')) => Unknown(i)'
      /\ \A i \in Iface : rd.name[i] = 0 /\ ~Unknown(i)' => ~Unknown(i)
      /\ \A n \in Name : file'[n].macs # {} => file'[n].there /\ file'[n].idx # 0
      /\ \A n \in Name : file'[n].idx # 0 =>
           /\ file'[n].idx \in spent'
           /\ file'[n].idx \in exposed' \/ file'[n].macs \subseteq ever'[file'[n].idx]
  BY <1>0, <1>1, Writes DEF PassWrites
<1>3. Filed'
  BY <1>2 DEF Filed, PassWrites
<1>4. Newcomers'
  BY <1>2 DEF Newcomers, PassWrites
<1>5. Passing'
  <2>1. \A i \in Iface : Strange(rd.name[i], i)' => Unknown(i)'
    BY <1>2 DEF Strange, PassWrites
  <2> QED BY <2>1, <1>0, <1>2 DEF Passing, PassWrites
<1> QED BY <1>3, <1>4, <1>5 DEF Resting, PassWrites

LEMMA StillFlushing ==
  ASSUME IInv, pc # "idle", fl' = fl
  PROVE  Flushing'
BY DEF IInv, Inv, Flushing, Down

\* follow_rename, whole, refused or cut short, of the note of n to new, where
\* interface i lives by the reading.
LEMMA MigratesFacts ==
  ASSUME IInv, Calm, pc # "idle", NEW n \in Name, NEW new \in Name, NEW i \in Iface,
         n # new, i = file[n].idx, rd.name[i] = new, Migrated(file', n, new, i),
         UNCHANGED <<mine, ever>>, exposed \subseteq exposed'
  PROVE  /\ \A k \in Name : Lessened(k) \/ Rewritten(rd, k)
         /\ \A k \in Name : \A j : j = Wearer(rd, k) /\ Held(k, j) => Held(k, j)'
         /\ OnFile'
<1>0. /\ TInv /\ Filed /\ Passing /\ OnFile /\ Copies /\ "record" \notin Faults
      /\ rd \in [name : Names, up : SUBSET Iface] /\ Apart(rd.name)
      /\ file \in [Name -> Notes] /\ ever \in [Iface -> SUBSET Mac] /\ mine \in [Iface -> SUBSET Mac]
  BY NotesTyped DEF IInv, Inv, TInv, Typed, TypeOK, Calm
<1>1. /\ file' \in [Name -> Notes]
      /\ \A k \in Name \ {n, new} : file'[k] = file[k]
      /\ file'[n] \in {file[n], NoFile}
      /\ \/ /\ file'[new] = file[new]
            /\ file'[n] = file[n] \/ file[n].macs = {}
         \/ /\ file'[n] = file[n] /\ file'[new].macs = file[new].macs /\ file'[new].there = file[new].there
            /\ file'[new].idx \in {file[new].idx, i}
         \/ /\ file'[new].macs = file[new].macs \cup file[n].macs /\ file'[new].there
            /\ \/ file'[new].idx = i
               \/ file'[new].idx = file[new].idx /\ file[n].macs \subseteq file[new].macs
  BY <1>0 DEF Migrated
<1>2. file[new].macs = {} \/ file[new].idx = i \/ {i, file[new].idx} \subseteq exposed
  BY <1>0, Zero DEF Passing, Strange, Unknown
<1>3. /\ i # 0
      /\ i \in exposed' \/ file[n].macs \subseteq ever[i]
      /\ i \in exposed' \/ file[new].macs \subseteq ever[i]
  BY <1>0, <1>2, Zero DEF Filed
<1>4. Wearer(rd, new) = i
  BY <1>0, WearerFacts
<1>5. \A k \in Name : file[k].macs # {} => file[k].there
  BY <1>0 DEF Filed
<1>6. Lessened(n) /\ \A k \in Name \ {n, new} : Lessened(k)
  BY <1>1, <1>5 DEF Lessened
<1>7. Lessened(new) \/ Rewritten(rd, new)
  <2>1. CASE file'[new].idx = file[new].idx /\ file'[new].macs \subseteq file[new].macs
    BY <2>1, <1>1, <1>5 DEF Lessened
  <2>2. CASE file'[new].idx = i /\ file'[new].macs \subseteq file[new].macs \cup file[n].macs
    BY <2>2, <1>1, <1>3, <1>5 DEF Rewritten
  <2> QED BY <2>1, <2>2, <1>1
<1>8. ASSUME NEW k \in Name, NEW j, j = Wearer(rd, k), Held(k, j) PROVE Held(k, j)'
  <2>1. file'[k].idx \in {file[k].idx, 0} \/ (k = new /\ file'[k].idx = i)
    BY <1>1 DEF NoFile
  <2>2. file[k].idx \in {0, j} \/ {j, file[k].idx} \subseteq exposed
    BY <1>8 DEF Held
  <2>3. file'[k].idx \in {0, j} \/ {j, file'[k].idx} \subseteq exposed'
    BY <2>1, <2>2, <1>4, <1>8
  <2> QED BY <2>3 DEF Held
<1>9. ASSUME NEW j \in Iface \ exposed', NEW m \in mine[j]
      PROVE  \E k \in Name : m \in file'[k].macs /\ file'[k].idx = j
  <2>1. PICK k \in Name : m \in file[k].macs /\ file[k].idx = j
    BY <1>0, <1>9 DEF OnFile
  <2>2. CASE k \notin {n, new}
    BY <2>1, <2>2, <1>1
  <2>3. CASE k = new
    <3>1. file[new].idx = i
      BY <2>1, <2>3, <1>2, <1>9
    <3> QED BY <3>1, <2>1, <2>3, <1>1
  <2>4. CASE k = n
    <3>1. CASE file'[n] = file[n]
      BY <3>1, <2>1, <2>4
    <3>2. CASE file'[n] # file[n]
      <4>1. /\ file'[new].macs = file[new].macs \cup file[n].macs
            /\ \/ file'[new].idx = i
               \/ file'[new].idx = file[new].idx /\ file[n].macs \subseteq file[new].macs
        BY <3>2, <2>1, <2>4, <1>1
      <4>2. file'[new].idx = i
        BY <4>1, <2>1, <2>4, <1>2, <1>9
      <4> QED BY <4>1, <4>2, <2>1, <2>4
    <3> QED BY <3>1, <3>2
  <2> QED BY <2>2, <2>3, <2>4
<1>10. OnFile'
  BY <1>9 DEF OnFile
<1> QED BY <1>6, <1>7, <1>8, <1>10

LEMMA FollowInv ==
  ASSUME IInv, Calm, NEW n \in Name, Follows(n), pc # "idle",
         UNCHANGED <<name, spent, mine, ever, pairs, rd, pc, moves, fl>>, exposed \subseteq exposed'
  PROVE  /\ Copies' /\ Filed' /\ Newcomers' /\ Passing' /\ Resting' /\ Flushing' /\ OnFile'
         /\ \A k \in Name : \A j : j = Wearer(rd, k) /\ Held(k, j) => Held(k, j)'
<1>1. PICK new \in Name, i \in Iface :
        n # new /\ i = file[n].idx /\ rd.name[i] = new /\ Migrated(file', n, new, i)
  BY FollowsFacts DEF IInv, TInv
<1>2. /\ \A k \in Name : Lessened(k) \/ Rewritten(rd, k)
      /\ \A k \in Name : \A j : j = Wearer(rd, k) /\ Held(k, j) => Held(k, j)'
      /\ OnFile'
  BY <1>1, MigratesFacts
<1>3. PassWrites
  BY <1>1, <1>2 DEF PassWrites, Migrated, IInv, TInv, Typed, TypeOK
<1>4. \A j \in Iface : name[j] = 0 => mine'[j] = {}
  BY DEF IInv, Inv, Filed
<1>5. Copies'
  BY FollowsFacts DEF IInv, TInv, Inv
<1> QED BY <1>2, <1>3, <1>4, <1>5, PassWritesInv, StillFlushing

LEMMA SweepFollowsInv ==
  ASSUME IInv, Calm, NEW n \in Name, SweepFollows(n)
  PROVE  Inv'
<1>1. /\ Follows(n)
      /\ pc = "sweep" /\ UNCHANGED <<name, spent, mine, ever, pairs, rd, pc, at, moves, fl, exposed>>
  BY DEF SweepFollows, Sweeping, Renamed, world, card, more, Follows
<1>2. Copies' /\ Filed' /\ Newcomers' /\ Passing' /\ Resting' /\ Flushing' /\ OnFile'
  BY <1>1, FollowInv
<1>3. Visited'
  BY <1>1 DEF IInv, Inv, Visited
<1> QED BY <1>2, <1>3 DEF Inv

\* Lines that go, go with the entries they are about.
LEMMA EmptiedFacts ==
  ASSUME IInv, NEW n \in Name, NEW i \in Iface \cup {0}, NEW kept \in SUBSET Mac, Emptied(n, i, kept),
         exposed' = exposed,
         i # 0 => file[n].idx \in {0, i},
         i = 0 /\ file[n].idx # 0 => mine[file[n].idx] = {}
  PROVE  /\ \A k \in Name : Lessened(k)
         /\ \A j \in Iface : mine'[j] \subseteq mine[j]
         /\ file' \in [Name -> Notes] /\ ever' = ever
         /\ OnFile'
<1>0. Filed /\ OnFile
  BY DEF IInv, Inv
<1>1. /\ kept \subseteq file[n].macs
      /\ file' \in [Name -> Notes] /\ \A k \in Name \ {n} : file'[k] = file[k]
      /\ \/ file'[n] = NoFile /\ kept = {}
         \/ /\ file'[n].there = file[n].there /\ file'[n].idx = file[n].idx
            /\ kept \subseteq file'[n].macs /\ file'[n].macs \subseteq file[n].macs
      /\ \A j \in Iface : mine'[j] = IF j = i THEN mine[j] \ (file[n].macs \ kept) ELSE mine[j]
      /\ ever' = ever
  BY DEF Emptied, TakeOut
<1>2. \A k \in Name : Lessened(k)
  <2>1. \A k \in Name : file[k].macs # {} => file[k].there
    BY <1>0 DEF Filed
  <2> QED BY <2>1, <1>1 DEF Lessened
<1>3. ASSUME NEW j \in Iface \ exposed, NEW m \in mine'[j]
      PROVE  \E k \in Name : m \in file'[k].macs /\ file'[k].idx = j
  <2>1. m \in mine[j]
    BY <1>1
  <2>2. PICK k \in Name : m \in file[k].macs /\ file[k].idx = j
    BY <2>1, <1>0 DEF OnFile
  <2>3. CASE k # n
    BY <2>2, <2>3, <1>1
  <2>4. CASE k = n
    <3>1. i = j
      BY <2>1, <2>2, <2>4, Zero
    <3>2. m \in kept
      BY <3>1, <2>2, <2>4, <1>1
    <3> QED BY <3>2, <2>2, <2>4, <1>1
  <2> QED BY <2>3, <2>4
<1>4. OnFile'
  BY <1>3 DEF OnFile
<1> QED BY <1>1, <1>2, <1>4

LEMMA SweepSettlesInv ==
  ASSUME IInv, NEW n \in Name, SweepSettles(n)
  PROVE  Inv'
<1>0. /\ TInv /\ Typed /\ Copies /\ Filed /\ Newcomers /\ Passing /\ Visited /\ Resting /\ OnFile
      /\ rd.name \in Names /\ Apart(rd.name)
      /\ file[n].idx \in Iface \cup {0}
  BY DEF IInv, Inv, TInv, Typed, TypeOK
<1>1. /\ pc = "sweep" /\ pc # "idle" /\ ~Renamed(n)
      /\ UNCHANGED <<name, spent, pairs, rd, pc, at, moves, fl, exposed>>
  BY DEF SweepSettles, Sweeping, world, more
<1>2. Visited' /\ Flushing'
  BY <1>0, <1>1, StillFlushing DEF Visited
<1>3. ASSUME ~NoRecord(n), NEW c \in {0, cidx[n]}, Settled(n, NotedLink(rd, cidx, n), c),
             cidx' = [cidx EXCEPT ![n] = c]
      PROVE  Copies' /\ Filed' /\ Newcomers' /\ Passing' /\ Resting' /\ OnFile'
  <2>1. PICK i : i = NotedLink(rd, cidx, n)
    OBVIOUS
  <2>2. /\ i \in Iface \cup {0}
        /\ i # 0 => file[n].idx \in {0, i}
        /\ i = 0 /\ file[n].idx # 0 => rd.name[file[n].idx] # n
    BY <1>0, <2>1, LinkFacts DEF Copies
  <2>3. i = 0 /\ file[n].idx # 0 => mine[file[n].idx] = {}
    <3> SUFFICES ASSUME i = 0, file[n].idx # 0 PROVE mine[file[n].idx] = {}
      OBVIOUS
    <3>1. RenamedTarget(rd, n) = 0
      BY <1>1, <1>3, <2>1 DEF Renamed
    <3>2. rd.name[file[n].idx] \in {0, n}
      BY <3>1, <1>0, TargetTyped
    <3>3. name[file[n].idx] = 0
      BY <3>2, <1>0, <1>1, <2>2 DEF Passing, Unknown
    <3> QED BY <3>3, <1>0 DEF Filed
  <2>4. PICK kept \in SUBSET Mac : Emptied(n, i, kept)
    BY <2>1, <1>0, <1>3, SettledFacts
  <2>5. /\ \A k \in Name : Lessened(k)
        /\ \A j \in Iface : mine'[j] \subseteq mine[j]
        /\ file' \in [Name -> Notes] /\ ever' = ever
        /\ OnFile'
    BY <2>2, <2>3, <2>4, <1>1, EmptiedFacts
  <2>6. Filed' /\ Newcomers' /\ Passing' /\ Resting'
    <3>1. PassWrites
      BY <2>5, <1>1 DEF PassWrites
    <3>2. \A j \in Iface : name[j] = 0 => mine'[j] = {}
      BY <2>5, <1>0 DEF Filed
    <3> QED BY <3>1, <3>2, PassWritesInv
  <2>7. Copies'
    <3>1. c = 0 \/ (c = cidx[n] /\ file'[n].idx = file[n].idx)
      BY <1>0, <1>3, SettledFacts
    <3>2. \A k \in Name \ {n} : file'[k] = file[k]
      BY <2>4 DEF Emptied
    <3>3. cidx'[n] = c /\ \A k \in Name \ {n} : cidx'[k] = cidx[k]
      BY <1>0, <1>3, NotesTyped DEF Copy
    <3> QED BY <3>1, <3>2, <3>3, <1>0 DEF Copies
  <2> QED BY <2>5, <2>6, <2>7
<1>4. CASE UNCHANGED <<card, file>> /\ cidx' \in {cidx, [cidx EXCEPT ![n] = 0]}
  <2>1. Copies'
    BY <1>0, <1>4, NotesTyped DEF Copies, Copy
  <2>2. UNCHANGED <<name, spent, mine, ever, file, pairs, rd, pc, moves, exposed>>
    BY <1>1, <1>4 DEF card
  <2> QED BY <1>0, <1>1, <1>2, <2>1, <2>2 DEF Inv, Filed, Newcomers, Passing, Resting, OnFile, Strange, Held, Unknown
<1> QED BY <1>2, <1>3, <1>4 DEF SweepSettles, Inv

LEMMA PairReusedInv ==
  ASSUME IInv, Calm, NEW n \in Name, PairReused(n)
  PROVE  Inv'
<1>0. /\ TInv /\ Typed /\ Copies /\ Filed /\ Passing /\ Visited /\ OnFile
      /\ rd.name \in Names /\ Apart(rd.name)
      /\ file \in [Name -> Notes] /\ NoFile \in Notes
      /\ file[n].idx \in Iface \cup {0} /\ pairs \subseteq Name
  BY NotesTyped DEF IInv, Inv, TInv, Typed, TypeOK
<1>1. /\ pc = "pairs" /\ pc # "idle" /\ at = 0 /\ Reused(n, Wearer(rd, n))
      /\ UNCHANGED <<name, spent, mine, ever, pairs, rd, pc, todo, at, held, moves, fl, exposed>>
  BY DEF PairReused, Visiting, world, card, more
<1>2. CASE Follows(n)
  <2>1. /\ Copies' /\ Filed' /\ Newcomers' /\ Passing' /\ Resting' /\ Flushing' /\ OnFile'
        /\ \A k \in Name : \A j : j = Wearer(rd, k) /\ Held(k, j) => Held(k, j)'
    BY <1>1, <1>2, FollowInv
  <2>2. Visited'
    <3>1. ASSUME NEW k \in pairs \ todo, NEW j, j = Wearer(rd, k) PROVE Held(k, j)'
      BY <3>1, <2>1, <1>0, <1>1 DEF Visited
    <3>2. \A k \in pairs \ todo : Held(k, Wearer(rd, k))'
      BY <3>1, <1>1 DEF Held, Wearer
    <3> QED BY <3>2, <1>0, <1>1 DEF Visited
  <2> QED BY <2>1, <2>2 DEF Inv
<1>3. CASE /\ RenamedTarget(rd, n) = 0
           /\ file' = [file EXCEPT ![n] = NoFile] /\ cidx' = [cidx EXCEPT ![n] = 0]
  <2>1. /\ file' \in [Name -> Notes] /\ file'[n] = NoFile /\ \A k \in Name \ {n} : file'[k] = file[k]
        /\ cidx'[n] = 0 /\ \A k \in Name \ {n} : cidx'[k] = cidx[k]
    BY <1>0, <1>3, NotesTyped DEF Copy
  <2>2. PassWrites
    <3>1. \A k \in Name : Lessened(k)
      BY <2>1, <1>0 DEF Lessened, Filed
    <3> QED BY <3>1, <2>1, <1>1 DEF PassWrites
  <2>3. Filed' /\ Newcomers' /\ Passing' /\ Resting' /\ Flushing'
    BY <2>2, <1>0, <1>1, PassWritesInv, StillFlushing DEF Filed
  <2>4. file[n].idx # 0 /\ file[n].idx # Wearer(rd, n)
    BY <1>0, <1>1 DEF Reused, Recorded, Copies
  <2>5. mine[file[n].idx] = {}
    <3>1. rd.name[file[n].idx] \in {0, n}
      BY <1>0, <1>3, <2>4, TargetTyped
    <3>2. rd.name[file[n].idx] # n
      BY <1>0, <2>4, WearerFacts
    <3>3. name[file[n].idx] = 0
      BY <3>1, <3>2, <2>4, <1>0, <1>1 DEF Passing, Unknown
    <3> QED BY <3>3, <2>4, <1>0 DEF Filed
  <2>6. OnFile'
    BY <2>1, <2>5, <1>0, <1>1 DEF OnFile
  <2>7. Copies'
    BY <2>1, <1>0 DEF Copies
  <2>8. Visited'
    BY <2>1, <1>0, <1>1 DEF Visited, Held, Wearer, NoFile
  <2> QED BY <2>3, <2>6, <2>7, <2>8 DEF Inv
<1> QED BY <1>2, <1>3 DEF PairReused, Follows

LEMMA PairWaitsInv ==
  ASSUME IInv, Calm, NEW n \in Name, PairWaits(n)
  PROVE  Inv'
<1>0. /\ TInv /\ Typed /\ Visited /\ pairs \subseteq Name
  BY DEF IInv, Inv, TInv, Typed, TypeOK
<1>1. /\ pc = "pairs" /\ pc # "idle" /\ at = 0 /\ n \in todo /\ Follows(n)
      /\ UNCHANGED <<name, spent, mine, ever, pairs, rd, pc, at, held, moves, fl>>
      /\ todo' = todo \ {n}
      /\ exposed' = exposed \cup {Wearer(rd, n), file[n].idx}
  BY DEF PairWaits, Visiting, world, card, Follows
<1>2. /\ Copies' /\ Filed' /\ Newcomers' /\ Passing' /\ Resting' /\ Flushing' /\ OnFile'
      /\ \A k \in Name : \A j : j = Wearer(rd, k) /\ Held(k, j) => Held(k, j)'
  BY <1>1, FollowInv
<1>3. file'[n].idx \in {file[n].idx, 0}
  <2>1. PICK new \in Name, i \in Iface : n # new /\ Migrated(file', n, new, i)
    BY <1>0, <1>1, FollowsFacts
  <2> QED BY <2>1 DEF Migrated, NoFile
<1>4. ASSUME NEW k \in pairs \ todo', NEW j, j = Wearer(rd, k) PROVE Held(k, j)'
  <2>1. CASE k = n
    BY <2>1, <1>1, <1>3, <1>4 DEF Held
  <2>2. CASE k # n
    BY <2>2, <1>0, <1>1, <1>2, <1>4 DEF Visited
  <2> QED BY <2>1, <2>2
<1>5. Visited'
  <2>1. \A k \in pairs \ todo' : Held(k, Wearer(rd, k))'
    BY <1>4, <1>1 DEF Held, Wearer
  <2> QED BY <2>1, <1>0, <1>1 DEF Visited
<1> QED BY <1>2, <1>5 DEF Inv

LEMMA PairOpensInv ==
  ASSUME IInv, NEW n \in Name, PairOpens(n)
  PROVE  Inv'
<1>0. /\ Typed /\ Copies /\ Filed /\ Newcomers /\ Passing /\ Visited /\ Resting /\ OnFile
      /\ cidx \in Copy
  BY NotesTyped DEF IInv, Inv, TInv
<1>1. /\ pc = "pairs" /\ pc # "idle" /\ n \in todo /\ ~Reused(n, Wearer(rd, n))
      /\ held' \subseteq file[n].macs /\ at' = n /\ todo' = todo \ {n}
      /\ cidx' \in {Evict(cidx, n), [cidx EXCEPT ![n] = 0]}
      /\ UNCHANGED <<name, spent, mine, ever, file, pairs, rd, pc, moves, fl, exposed>>
  BY DEF PairOpens, Visiting, world, card, more
<1>2. file[n].idx \in {0, Wearer(rd, n)}
  BY <1>0, <1>1 DEF Reused, Recorded, Copies
<1>3. Visited'
  BY <1>0, <1>1, <1>2 DEF Visited, Held, Wearer
<1>4. \A k \in Name : cidx'[k] \in {0, cidx[k]}
  BY <1>0, <1>1 DEF Evict, Copy
<1>5. Copies'
  BY <1>0, <1>1, <1>4 DEF Copies
<1>6. Filed' /\ Newcomers' /\ Passing' /\ Resting' /\ OnFile'
  BY <1>0, <1>1 DEF Filed, Newcomers, Passing, Resting, OnFile, Strange, Held, Unknown
<1> QED BY <1>1, <1>3, <1>5, <1>6, StillFlushing DEF Inv

LEMMA PairWritesInv ==
  ASSUME IInv, Calm, NEW want \in SUBSET Mac, PairWrites(want)
  PROVE  Inv'
<1>0. /\ TInv /\ Copies /\ Filed /\ Passing /\ Visited /\ OnFile /\ "record" \notin Faults
      /\ rd.name \in Names /\ Apart(rd.name)
      /\ file \in [Name -> Notes] /\ mine \in [Iface -> SUBSET Mac] /\ ever \in [Iface -> SUBSET Mac]
      /\ pairs \subseteq Name
  BY NotesTyped DEF IInv, Inv, TInv, Typed, TypeOK, Calm
<1>1. PICK put \in SUBSET want, out \in SUBSET (held \ want) : PairWritten(put, out)
  BY <1>0, WritesFacts
<1>2. at \in Name /\ Wearer(rd, at) \in Iface
  BY <1>1 DEF PairWritten
<1>3. PICK i \in Iface : i = Wearer(rd, at)
  BY <1>2
<1>4. PICK n \in Name : n = at
  BY <1>2
<1>5. /\ pc = "pairs" /\ pc # "idle" /\ UNCHANGED <<name, spent, pairs, rd, pc, todo, moves, fl, exposed>>
      /\ at' = 0 /\ held' = {}
      /\ name[i] = 0 => out = {}
      /\ file' \in [Name -> Notes] /\ \A k \in Name \ {n} : file'[k] = file[k]
      /\ (file[n].macs \cup put) \ out \subseteq file'[n].macs
      /\ file'[n].macs \subseteq file[n].macs \cup put
      /\ file'[n].there \/ (file'[n].there = file[n].there /\ put = {})
      /\ file'[n].idx \in {file[n].idx, i}
      /\ file'[n].idx = i \/ put \subseteq file[n].macs
      /\ \A j \in Iface \ {i} : mine'[j] = mine[j] /\ ever'[j] = ever[j]
      /\ mine'[i] = IF name[i] = 0 THEN mine[i] ELSE (mine[i] \cup put) \ out
      /\ ever'[i] = ever[i] \cup put
  BY <1>0, <1>1, <1>3, <1>4 DEF PairWritten
<1>6. Copies'
  BY <1>0, <1>1 DEF PairWritten
<1>7. file[n].idx \in {0, i} /\ rd.name[i] = n
  <2>1. at # 0
    BY <1>2, Zero
  <2>2. rd.name[i] = n
    BY <1>0, <1>3, <1>4, WearerFacts, Zero
  <2> QED BY <2>1, <2>2, <1>0, <1>3, <1>4 DEF Visited
<1>8. /\ file'[n].macs # {} => file'[n].there
      /\ file'[n].macs # {} => file'[n].idx = i
      /\ i \in exposed \/ file'[n].macs \subseteq ever'[i]
  <2>1. /\ file[n].macs # {} => file[n].there /\ file[n].idx = i
        /\ i \in exposed \/ file[n].macs \subseteq ever[i]
    BY <1>0, <1>7, Zero DEF Filed
  <2>2. file'[n].macs # {} => file'[n].there
    BY <2>1, <1>5
  <2>3. file'[n].macs # {} => file'[n].idx = i
    BY <2>1, <1>5
  <2>4. i \in exposed \/ file'[n].macs \subseteq ever'[i]
    BY <2>1, <1>5
  <2> QED BY <2>2, <2>3, <2>4
<1>9. \A k \in Name : Lessened(k) \/ Rewritten(rd, k)
  <2>1. \A k \in Name \ {n} : Lessened(k)
    BY <1>0, <1>5 DEF Lessened, Filed
  <2>2. CASE file'[n].idx = i
    BY <2>1, <2>2, <1>5, <1>7, <1>8 DEF Rewritten
  <2>3. CASE file'[n].idx # i
    <3>1. file'[n].macs = {} /\ file'[n].idx = file[n].idx
      BY <2>3, <1>5, <1>8
    <3> QED BY <2>1, <3>1 DEF Lessened
  <2> QED BY <2>2, <2>3
<1>10. Filed' /\ Newcomers' /\ Passing' /\ Resting' /\ Flushing'
  <2>1. \A j \in Iface : ever[j] \subseteq ever'[j]
    BY <1>5
  <2>2. PassWrites
    BY <2>1, <1>5, <1>9 DEF PassWrites
  <2>3. \A j \in Iface : name[j] = 0 => mine'[j] = {}
    BY <1>0, <1>5 DEF Filed
  <2> QED BY <1>5, <2>2, <2>3, PassWritesInv, StillFlushing
<1>11. OnFile'
  <2> SUFFICES ASSUME NEW j \in Iface \ exposed, NEW m \in mine'[j]
               PROVE  \E k \in Name : m \in file'[k].macs /\ file'[k].idx = j
    BY <1>5 DEF OnFile
  <2>1. CASE m \in mine[j]
    <3>1. PICK k \in Name : m \in file[k].macs /\ file[k].idx = j
      BY <2>1, <1>0 DEF OnFile
    <3>2. CASE k # n
      BY <3>1, <3>2, <1>5
    <3>3. CASE k = n
      <4>1. j = i
        BY <3>1, <3>3, <1>7, Zero
      <4>2. m \notin out
        BY <4>1, <1>5
      <4> QED BY <3>1, <3>3, <4>1, <4>2, <1>5, <1>8
    <3> QED BY <3>2, <3>3
  <2>2. CASE m \notin mine[j]
    <3>1. j = i /\ m \in put /\ m \notin out
      BY <2>2, <1>5
    <3> QED BY <3>1, <1>5, <1>8
  <2> QED BY <2>1, <2>2
<1>12. Visited'
  <2>1. Held(n, i)'
    BY <1>5, <1>7 DEF Held
  <2>2. \A k \in (pairs \ todo) \ {n} : Held(k, Wearer(rd, k))'
    BY <1>0, <1>5 DEF Visited, Held, Wearer
  <2>3. Wearer(rd, n)' = i
    BY <1>3, <1>4, <1>5 DEF Wearer
  <2>4. \A k \in pairs \ todo : Held(k, Wearer(rd, k))'
    BY <2>1, <2>2, <2>3 DEF Held
  <2> QED BY <2>4, <1>0, <1>5 DEF Visited
<1> QED BY <1>6, <1>10, <1>11, <1>12 DEF Inv


-----------------------------------------------------------------------------
(* The invariant: batches, flushes and deaths *)

\* What a --flush takes a note's entries out of is what the note is about, and
\* nothing only where that is not in its reading.
LEMMA ReachedFacts ==
  ASSUME TInv, NEW r, r.name \in Names, Apart(r.name), NEW n \in Name
  PROVE  /\ Reached(r, n) \in Iface \cup {0}
         /\ Reached(r, n) # 0 => file[n].idx \in {0, Reached(r, n)}
         /\ Reached(r, n) = 0 /\ file[n].idx # 0 => r.name[file[n].idx] = 0
<1>1. PICK c : c = [k \in Name |-> 0]
  OBVIOUS
<1>2. PICK link : link = NotedLink(r, c, n)
  OBVIOUS
<1>3. /\ link \in Iface \cup {0}
      /\ link # 0 => file[n].idx \in {0, link}
      /\ link = 0 /\ file[n].idx # 0 => r.name[file[n].idx] # n
  <2>1. c[n] # 0 => file[n].idx = c[n]
    BY <1>1
  <2> QED BY <1>2, <2>1, LinkFacts
<1>4. Reached(r, n) = IF link # 0 THEN link ELSE IF RenamedTarget(r, n) # 0 THEN file[n].idx ELSE 0
  BY <1>1, <1>2 DEF Reached
<1>5. /\ RenamedTarget(r, n) # 0 => file[n].idx \in Iface
      /\ RenamedTarget(r, n) = 0 /\ file[n].idx # 0 => r.name[file[n].idx] \in {0, n}
  BY TargetTyped DEF TInv
<1> QED BY <1>3, <1>4, <1>5, Zero

\* Writes between passes: the name of a pair stays its last wearer's.
IdleWrites ==
  /\ pc = "idle" /\ UNCHANGED <<name, spent, pairs, pc, at, moves, exposed>>
  /\ file' \in [Name -> Notes]
  /\ \A i \in Iface : ever[i] \subseteq ever'[i]
  /\ \A k \in Name : Lessened(k) \/ Rewritten(Reading, k)

LEMMA IdleWritesInv ==
  ASSUME IInv, IdleWrites, \A i \in Iface : name[i] = 0 => mine'[i] = {}
  PROVE  Filed' /\ Newcomers' /\ Passing' /\ Visited' /\ Resting'
<1>0. /\ Typed /\ Filed /\ Newcomers /\ Visited /\ Resting
      /\ name \in Names /\ Apart(name) /\ pairs \subseteq Name
      /\ \A i \in Iface : name[i] # 0 => i \in spent
  BY DEF IInv, Inv, TInv, Typed, TypeOK, Names, Apart
<1>1. PICK r \in [name : Names, up : SUBSET Iface] : r = Reading /\ r.name = name
  BY <1>0, ReadingTyped
<1>2. /\ Apart(r.name) /\ \A i \in Iface : r.name[i] # 0 => i \in spent
      /\ \A i, j \in Iface : name[i] # r.name[i] /\ name[j] # r.name[j] => i = j
      /\ \A i \in Iface : Strange(name[i], i) => Unknown(i) /\ r.name[i] \in {0, name[i]}
      /\ \A k \in Name : Lessened(k) \/ Rewritten(r, k)
      /\ exposed \subseteq exposed'
  BY <1>0, <1>1 DEF Newcomers, IdleWrites
<1>3. /\ \A i \in Iface : Strange(name[i], i)' => Unknown(i)' /\ r.name[i] \in {0, name[i]}
      /\ (\A i \in Iface : Strange(r.name[i], i) => Unknown(i))
           => \A i \in Iface : (/\ r.name[i] # 0 /\ file'[r.name[i]].macs # {} /\ file'[r.name[i]].idx # i
                                /\ ~({i, file'[r.name[i]].idx} \subseteq exposed')) => Unknown(i)'
      /\ \A i \in Iface : r.name[i] = 0 /\ ~Unknown(i)' => ~Unknown(i)
      /\ \A n \in Name : file'[n].macs # {} => file'[n].there /\ file'[n].idx # 0
      /\ \A n \in Name : file'[n].idx # 0 =>
           /\ file'[n].idx \in spent'
           /\ file'[n].idx \in exposed' \/ file'[n].macs \subseteq ever'[file'[n].idx]
  BY <1>0, <1>1, <1>2, Writes DEF IdleWrites
<1>4. Filed' /\ Newcomers'
  BY <1>3 DEF Filed, Newcomers, IdleWrites
<1>5. Passing' /\ Visited'
  BY <1>0 DEF Passing, Visited, IdleWrites
<1>6. ASSUME NEW i \in Iface, name[i] \in pairs PROVE Held(name[i], i)'
  <2>1. name[i] \in Name /\ Held(name[i], i)
    BY <1>0, <1>6 DEF Resting, IdleWrites
  <2>2. file'[name[i]].idx \in {0, i} \/ {i, file'[name[i]].idx} \subseteq exposed
    <3>1. CASE Lessened(name[i])
      BY <2>1, <3>1 DEF Lessened, NoFile, Held
    <3>2. CASE Rewritten(r, name[i])
      BY <2>1, <3>2, <1>0, <1>1, Zero DEF Rewritten, Apart
    <3> QED BY <2>1, <3>1, <3>2, <1>2
  <2> QED BY <2>2 DEF Held, IdleWrites
<1>7. Resting'
  BY <1>0, <1>6 DEF Resting, IdleWrites, Held
<1> QED BY <1>4, <1>5, <1>7

\* No flush is at work where there are pairs.
LEMMA NoneFlushing ==
  ASSUME IInv, NEW n \in pairs, fl' = fl
  PROVE  Flushing'
BY DEF IInv, Inv, Flushing, Down

LEMMA RegistersInv ==
  ASSUME IInv, Calm, NEW n \in Name, NEW i \in Iface, NEW put \in SUBSET Mac, Registered(n, i, put)
  PROVE  Inv'
<1>0. /\ TInv /\ Typed /\ Filed /\ Resting /\ OnFile /\ Copies /\ "record" \notin Faults
      /\ Reading.name = name
  BY ReadingTyped DEF IInv, Inv, TInv, Calm
<1>1. /\ pc = "idle" /\ n \in pairs /\ name[i] = n
      /\ UNCHANGED <<name, spent, pairs, pc, at, moves, fl, exposed>>
      /\ file' \in [Name -> Notes] /\ \A k \in Name \ {n} : file'[k] = file[k]
      /\ file'[n].macs = file[n].macs \cup put /\ file'[n].idx \in {file[n].idx, i}
      /\ file'[n].there \/ (file'[n].there = file[n].there /\ put = {})
      /\ file'[n].idx = i \/ put \subseteq file[n].macs
      /\ \A j \in Iface \ {i} : mine'[j] = mine[j] /\ ever'[j] = ever[j]
      /\ mine'[i] = mine[i] \cup put /\ ever'[i] = ever[i] \cup put
      /\ Copies'
  BY <1>0 DEF Registered, Puts, Copies
<1>2. Held(n, i) /\ i # 0
  BY <1>1, <1>0, Zero DEF Resting
<1>3. /\ file[n].macs # {} => file[n].there /\ (i \notin exposed => file[n].idx = i)
      /\ i \in exposed \/ file[n].macs \subseteq ever[i]
  BY <1>2, <1>0, Zero DEF Filed, Held
<1>4. IdleWrites
  <2>1. \A k \in Name \ {n} : Lessened(k)
    BY <1>1, <1>0 DEF Lessened, Filed
  <2>2. Lessened(n) \/ Rewritten(Reading, n)
    <3>1. file'[n].macs # {} => file'[n].there
      BY <1>1, <1>3
    <3>2. CASE file'[n].idx = i
      <4>1. i \in exposed' \/ file'[n].macs \subseteq ever'[i]
        BY <1>1, <1>3
      <4> QED BY <3>1, <3>2, <4>1, <1>0, <1>1 DEF Rewritten
    <3>3. CASE file'[n].idx # i
      BY <3>1, <3>3, <1>1 DEF Lessened
    <3> QED BY <3>2, <3>3
  <2>3. \A j \in Iface : ever[j] \subseteq ever'[j]
    BY <1>1
  <2> QED BY <2>1, <2>2, <2>3, <1>1 DEF IdleWrites
<1>5. \A j \in Iface : name[j] = 0 => mine'[j] = {}
  BY <1>1, <1>0, Zero DEF Filed
<1>6. OnFile'
  <2> SUFFICES ASSUME NEW j \in Iface \ exposed, NEW m \in mine'[j]
               PROVE  \E k \in Name : m \in file'[k].macs /\ file'[k].idx = j
    BY <1>1 DEF OnFile
  <2>1. CASE m \in mine[j]
    <3>1. PICK k \in Name : m \in file[k].macs /\ file[k].idx = j
      BY <2>1, <1>0 DEF OnFile
    <3>2. k = n => j = i
      BY <3>1, <1>2, Zero DEF Held
    <3> QED BY <3>1, <3>2, <1>1
  <2>2. CASE m \notin mine[j]
    <3>1. j = i /\ m \in put
      BY <2>2, <1>1
    <3>2. file'[n].idx = i
      BY <3>1, <1>1, <1>3
    <3> QED BY <3>1, <3>2, <1>1
  <2> QED BY <2>1, <2>2
<1>7. Flushing'
  BY <1>1, NoneFlushing
<1> QED BY <1>1, <1>4, <1>5, <1>6, <1>7, IdleWritesInv DEF Inv

LEMMA ReflectsInv ==
  ASSUME IInv, NEW n \in Name, NEW m \in Mac, NEW i \in Iface, Reflected(n, m, i)
  PROVE  Inv'
<1>0. TInv /\ Filed /\ Resting /\ OnFile /\ Copies
  BY DEF IInv, Inv
<1>1. /\ pc = "idle" /\ n \in pairs /\ name[i] = n
      /\ UNCHANGED <<name, spent, ever, cidx, pairs, pc, at, moves, fl, exposed>>
      /\ file' \in [Name -> Notes] /\ \A k \in Name \ {n} : file'[k] = file[k]
      /\ file'[n].there = file[n].there /\ file'[n].idx = file[n].idx
      /\ file'[n].macs \in {file[n].macs, file[n].macs \ {m}}
      /\ \A j \in Iface : mine'[j] = IF j = i THEN mine[j] \ {m} ELSE mine[j]
  BY DEF Reflected, TakeOut
<1>2. Held(n, i)
  BY <1>1, <1>0 DEF Resting
<1>3. IdleWrites
  BY <1>1, <1>0 DEF IdleWrites, Lessened, Filed
<1>4. \A j \in Iface : name[j] = 0 => mine'[j] = {}
  BY <1>1, <1>0 DEF Filed
<1>5. OnFile'
  <2> SUFFICES ASSUME NEW j \in Iface \ exposed, NEW a \in mine'[j]
               PROVE  \E k \in Name : a \in file'[k].macs /\ file'[k].idx = j
    BY <1>1 DEF OnFile
  <2>1. a \in mine[j] /\ (j = i => a # m)
    BY <1>1
  <2>2. PICK k \in Name : a \in file[k].macs /\ file[k].idx = j
    BY <2>1, <1>0 DEF OnFile
  <2>3. k = n => j = i
    BY <2>2, <1>2, Zero DEF Held
  <2> QED BY <2>1, <2>2, <2>3, <1>1
<1>6. Copies' /\ Flushing'
  <2>1. \A k \in Name : file'[k].idx = file[k].idx
    BY <1>1
  <2> QED BY <2>1, <1>0, <1>1, NoneFlushing DEF Copies
<1> QED BY <1>3, <1>4, <1>5, <1>6, IdleWritesInv DEF Inv

LEMMA FastInv ==
  ASSUME IInv, Calm, NEW n \in Name, NEW m \in Mac, FastRegisters(n, m) \/ FastReflects(n, m)
  PROVE  Inv'
<1>1. CASE FastRegisters(n, m)
  <2>1. PICK i \in Iface, put \in SUBSET Mac : Registered(n, i, put)
    BY <1>1, RegistersFacts DEF IInv
  <2> QED BY <2>1, RegistersInv
<1>2. CASE FastReflects(n, m)
  <2>1. PICK i \in Iface : Reflected(n, m, i)
    BY <1>2, ReflectsFacts DEF IInv
  <2> QED BY <2>1, ReflectsInv
<1> QED BY <1>1, <1>2

\* Steps that leave all this alone.
LEMMA StillInv ==
  ASSUME Inv,
         UNCHANGED <<name, spent, mine, ever, file, cidx, pairs, pc, rd, todo, at, held, moves, exposed>>
  PROVE  Copies' /\ Filed' /\ Newcomers' /\ Passing' /\ Visited' /\ Resting' /\ OnFile'
<1>1. Copies' /\ Filed' /\ OnFile'
  BY DEF Inv, Copies, Filed, OnFile
<1>2. Newcomers'
  BY DEF Inv, Newcomers, Strange, Unknown
<1>3. Passing'
  BY DEF Inv, Passing, Strange, Unknown
<1>4. Visited'
  BY DEF Inv, Visited, Held, Wearer
<1>5. Resting'
  BY DEF Inv, Resting, Held
<1> QED BY <1>1, <1>2, <1>3, <1>4, <1>5

LEMMA FlushBeginsInv ==
  ASSUME IInv, Calm, FlushBegins
  PROVE  Inv'
<1>1. /\ Down /\ fl' = [name |-> name, todo |-> Noted]
      /\ UNCHANGED <<name, spent, up, mine, others, ever, file, cidx, absent, pairs, pc, rd, todo, at, held,
                     moves, exposed>>
  BY DEF FlushBegins, Calm, world, card, proc, pass
<1>2. Flushing'
  <2>1. fl'.name = name
    BY <1>1
  <2> QED BY <1>1, <2>1 DEF Flushing, Down
<1>3. Copies' /\ Filed' /\ Newcomers' /\ Passing' /\ Visited' /\ Resting' /\ OnFile'
  BY <1>1, StillInv DEF IInv, Inv
<1> QED BY <1>2, <1>3 DEF Inv

LEMMA FlushVisitsInv ==
  ASSUME IInv, NEW n \in Name, FlushVisits(n)
  PROVE  Inv'
<1>0. /\ TInv /\ Filed /\ Flushing
      /\ fl.name \in Names /\ Apart(fl.name) /\ file[n].idx \in Iface \cup {0}
  BY DEF IInv, Inv, TInv, Typed, TypeOK
<1>1. Visits(n)
  BY VisitsFacts DEF IInv
<1>2. /\ fl.todo # {} /\ Down
      /\ fl'.todo # {} => fl'.name = fl.name
      /\ UNCHANGED <<name, spent, ever, cidx, pairs, pc, at, moves, exposed>>
  BY <1>0, <1>1 DEF Visits, Flushing
<1>3. CASE \E kept \in SUBSET Mac : Emptied(n, Reached(fl, n), kept)
  <2>1. PICK kept \in SUBSET Mac : Emptied(n, Reached(fl, n), kept)
    BY <1>3
  <2>2. PICK i \in Iface \cup {0} : /\ i = Reached(fl, n)
                                    /\ i # 0 => file[n].idx \in {0, i}
                                    /\ i = 0 /\ file[n].idx # 0 => fl.name[file[n].idx] = 0
    BY <1>0, ReachedFacts
  <2>3. i = 0 /\ file[n].idx # 0 => mine[file[n].idx] = {}
    BY <2>2, <1>0, <1>2 DEF Flushing, Filed
  <2>4. /\ \A k \in Name : Lessened(k)
        /\ \A j \in Iface : mine'[j] \subseteq mine[j]
        /\ file' \in [Name -> Notes] /\ ever' = ever
        /\ OnFile'
    BY <2>1, <2>2, <2>3, <1>2, EmptiedFacts
  <2>5. Filed' /\ Newcomers' /\ Passing' /\ Visited' /\ Resting'
    <3>1. IdleWrites
      BY <2>4, <1>2 DEF IdleWrites, Down
    <3>2. \A j \in Iface : name[j] = 0 => mine'[j] = {}
      BY <2>4, <1>0 DEF Filed
    <3> QED BY <3>1, <3>2, IdleWritesInv
  <2>6. Copies'
    BY <1>2 DEF Copies, Down
  <2>7. Flushing'
    <3>1. \A k \in Name : file'[k].idx # 0 => file'[k].idx = file[k].idx
      BY <2>4 DEF Lessened, NoFile
    <3> QED BY <3>1, <1>0, <1>2 DEF Flushing, Down
  <2> QED BY <2>4, <2>5, <2>6, <2>7 DEF Inv
<1>4. CASE UNCHANGED <<card, file>>
  <2>1. Flushing'
    BY <1>4, <1>0, <1>2 DEF Flushing, Down
  <2>2. UNCHANGED <<name, spent, mine, ever, file, cidx, pairs, pc, rd, todo, at, held, moves, exposed>>
    BY <1>1, <1>4 DEF Visits, card
  <2>3. Copies' /\ Filed' /\ Newcomers' /\ Passing' /\ Visited' /\ Resting' /\ OnFile'
    BY <2>2, StillInv DEF IInv, Inv
  <2> QED BY <2>1, <2>3 DEF Inv
<1> QED BY <1>1, <1>3, <1>4 DEF Visits

LEMMA CrashInv ==
  ASSUME IInv, Calm, Crash
  PROVE  Inv'
<1>0. /\ TInv /\ Typed /\ Filed /\ Newcomers /\ Passing /\ Flushing /\ OnFile
      /\ rd \in [name : Names, up : SUBSET Iface] /\ Apart(rd.name)
      /\ \A i \in Iface : rd.name[i] # 0 => i \in spent
  BY DEF IInv, Inv, TInv, Typed
<1>1. /\ UNCHANGED <<name, spent, mine, ever, moves, fl, exposed>>
      /\ cidx' = [n \in Name |-> 0] /\ pairs' = {} /\ pc' = "idle" /\ at' = 0
      /\ \/ UNCHANGED file
         \/ \E n \in Name : \E new \in Name \ {n}, i \in Iface :
              /\ pc # "idle" /\ i = file[n].idx /\ rd.name[i] = new
              /\ Migrated(file', n, new, i)
  BY <1>0, CrashFacts
<1>2. Passing' /\ Visited' /\ Resting' /\ Copies'
  <2>1. Passing' /\ Visited' /\ Copies'
    BY <1>1 DEF Passing, Visited, Copies
  <2>2. pairs' = {}
    BY <1>1
  <2>3. Resting'
    BY <2>2 DEF Resting
  <2> QED BY <2>1, <2>3
<1>3. CASE UNCHANGED file
  <2>1. Filed' /\ Newcomers' /\ OnFile'
    BY <1>0, <1>1, <1>3 DEF Filed, Newcomers, Strange, Unknown, OnFile
  <2>2. Flushing'
    BY <1>0, <1>1, <1>3 DEF Flushing, Down
  <2> QED BY <1>2, <2>1, <2>2 DEF Inv
<1>4. CASE ~UNCHANGED file
  <2>1. PICK n \in Name, new \in Name, i \in Iface :
              /\ n # new /\ pc # "idle" /\ i = file[n].idx /\ rd.name[i] = new
              /\ Migrated(file', n, new, i)
    BY <1>1, <1>4
  <2>2. (\A k \in Name : Lessened(k) \/ Rewritten(rd, k)) /\ OnFile'
    <3>1. /\ \A k \in Name : Lessened(k) \/ Rewritten(rd, k)
          /\ \A k \in Name : \A j : j = Wearer(rd, k) /\ Held(k, j) => Held(k, j)'
          /\ OnFile'
      <4>1. UNCHANGED <<mine, ever>> /\ exposed \subseteq exposed'
        BY <1>1
      <4> QED BY <2>1, <4>1, MigratesFacts
    <3> QED BY <3>1
  <2>3. /\ \A j, k \in Iface : name[j] # rd.name[j] /\ name[k] # rd.name[k] => j = k
        /\ \A j \in Iface : Strange(name[j], j) => Unknown(j) /\ rd.name[j] \in {0, name[j]}
    BY <1>0, <2>1 DEF Passing, Newcomers
  <2>4. /\ \A j \in Iface : Strange(name[j], j)' => Unknown(j)' /\ rd.name[j] \in {0, name[j]}
        /\ (\A j \in Iface : Strange(rd.name[j], j) => Unknown(j))
             => \A j \in Iface : (/\ rd.name[j] # 0 /\ file'[rd.name[j]].macs # {} /\ file'[rd.name[j]].idx # j
                                  /\ ~({j, file'[rd.name[j]].idx} \subseteq exposed')) => Unknown(j)'
        /\ \A j \in Iface : rd.name[j] = 0 /\ ~Unknown(j)' => ~Unknown(j)
        /\ \A k \in Name : file'[k].macs # {} => file'[k].there /\ file'[k].idx # 0
        /\ \A k \in Name : file'[k].idx # 0 =>
             /\ file'[k].idx \in spent'
             /\ file'[k].idx \in exposed' \/ file'[k].macs \subseteq ever'[file'[k].idx]
    <3>1. /\ file' \in [Name -> Notes] /\ name' = name /\ spent' = spent /\ exposed \subseteq exposed'
          /\ \A j \in Iface : ever[j] \subseteq ever'[j]
      BY <1>1, <2>1 DEF Migrated
    <3> QED BY <1>0, <2>2, <2>3, <3>1, Writes
  <2>5. Filed' /\ Newcomers'
    BY <1>0, <1>1, <2>4 DEF Filed, Newcomers
  <2>6. Flushing'
    BY <2>1, <1>1, StillFlushing
  <2> QED BY <1>2, <2>2, <2>5, <2>6 DEF Inv
<1> QED BY <1>3, <1>4

LEMMA InitInv ==
  ASSUME Init
  PROVE  IInv
<1>1. TInv
  BY TypedInit
<1>2. /\ \A n \in Name : file[n] = NoFile /\ cidx[n] = 0
      /\ \A i \in Iface : mine[i] = {}
      /\ pc = "idle" /\ at = 0 /\ pairs = PairsOf(Reading) /\ fl = NoFlush
  BY DEF Init
<1>3. /\ Copies /\ Filed /\ Newcomers /\ Passing /\ Visited /\ OnFile /\ Flushing
  <2>1. Copies /\ Filed /\ Passing /\ Visited /\ OnFile /\ Flushing
    BY <1>2 DEF Copies, Filed, Passing, Visited, OnFile, Flushing, NoFile, NoFlush
  <2>2. \A i \in Iface : name[i] # 0 => file[name[i]].macs = {}
    <3>1. \A i \in Iface : name[i] # 0 => name[i] \in Name
      BY <1>1 DEF TInv, Typed, TypeOK
    <3> QED BY <3>1, <1>2 DEF NoFile
  <2>3. Newcomers
    BY <2>2 DEF Newcomers, Strange
  <2> QED BY <2>1, <2>3
<1>4. pairs \subseteq Name /\ \A n \in pairs : \E i \in Iface : name[i] = n
  BY <1>1, <1>2 DEF TInv, Typed, TypeOK, PairsOf, Reading
<1>5. Resting
  BY <1>2, <1>4 DEF Resting, NoFile, Held
<1> QED BY <1>1, <1>3, <1>5 DEF IInv, Inv

LEMMA StepInv ==
  ASSUME IInv, Calm, [Next]_vars
  PROVE  IInv'
<1>1. TInv'
  BY TypedStep DEF IInv
<1>2. CASE UNCHANGED vars
  <2>1. UNCHANGED <<name, spent, mine, ever, file, cidx, pairs, pc, rd, todo, at, held, moves, fl, exposed>>
    BY <1>2 DEF vars
  <2>2. Flushing'
    BY <2>1 DEF IInv, Inv, Flushing, Down
  <2> QED BY <1>1, <2>1, <2>2, StillInv DEF IInv, Inv
<1>3. CASE Next
  <2>1. CASE World
    BY <2>1, <1>1, WorldInv DEF IInv
  <2>2. CASE PassBegin \/ SweepDone \/ PassDone
    BY <2>2, <1>1, PassInv DEF IInv
  <2>3. CASE \E n \in Name : SweepFollows(n) \/ SweepSettles(n)
    BY <2>3, <1>1, SweepFollowsInv, SweepSettlesInv DEF IInv
  <2>4. CASE \E n \in Name : PairReused(n) \/ PairWaits(n) \/ PairOpens(n)
    BY <2>4, <1>1, PairReusedInv, PairWaitsInv, PairOpensInv DEF IInv
  <2>5. CASE \E want \in SUBSET Mac : PairWrites(want)
    BY <2>5, <1>1, PairWritesInv DEF IInv
  <2>6. CASE \E n \in Name, m \in Mac : FastRegisters(n, m) \/ FastReflects(n, m)
    BY <2>6, <1>1, FastInv DEF IInv
  <2>7. CASE FlushBegins \/ (\E n \in Name : FlushVisits(n)) \/ Crash
    BY <2>7, <1>1, FlushBeginsInv, FlushVisitsInv, CrashInv DEF IInv
  <2> QED BY <1>3, <2>1, <2>2, <2>3, <2>4, <2>5, <2>6, <2>7 DEF Next, World
<1> QED BY <1>2, <1>3

\* Under Calm the invariant is inductive: each note that has lines is recorded
\* as the interface's they are about, only a newcomer finds another's note
\* under its name, and only an interface that is gone is on record and not in
\* the reading - of the interfaces no refused migration has crossed.
THEOREM Inductive ==
  ASSUME Calm
  PROVE  Spec => []IInv
<1>1. Init => IInv
  BY InitInv
<1>2. IInv /\ [Next]_vars => IInv'
  BY StepInv
<1> QED BY <1>1, <1>2, PTL DEF Spec

LEMMA InReach ==
  ASSUME IInv
  PROVE  OnRecord
<1>0. TInv /\ Filed /\ OnFile /\ Reading.name \in Names /\ Apart(Reading.name) /\ Reading.name = name
  BY ReadingTyped DEF IInv, Inv, TInv
<1> SUFFICES ASSUME NEW i \in Iface \ exposed, NEW m \in mine[i]
             PROVE  \E n \in Name : m \in file[n].macs /\ Reached(Reading, n) = i
  BY DEF OnRecord
<1>1. PICK n \in Name : m \in file[n].macs /\ file[n].idx = i
  BY <1>0 DEF OnFile
<1>2. PICK k : k = Reached(Reading, n)
  OBVIOUS
<1>3. /\ k # 0 => file[n].idx \in {0, k}
      /\ k = 0 /\ file[n].idx # 0 => name[file[n].idx] = 0
  BY <1>0, <1>2, ReachedFacts
<1>4. name[i] # 0 /\ i # 0
  BY <1>0, Zero DEF Filed
<1> QED BY <1>1, <1>2, <1>3, <1>4

\* What this program added to a card is out of nobody's reach: a --flush that
\* started now would find a line that leads to the very interface it is in,
\* however many interfaces come, go and are renamed between the passes,
\* although notes refuse to be read or written, migrations are refused or cut
\* short by a death, and removals fail (notes.rs:3).
THEOREM AllOnRecord ==
  ASSUME Calm
  PROVE  Spec => []OnRecord
BY InReach, Inductive, PTL

-----------------------------------------------------------------------------
(* What others put into a filter *)

\* A note that interface i may write to has lines of that interface only.
LEMMA OwnLines ==
  ASSUME IInv, NEW n \in Name, NEW i \in Iface \ exposed, Held(n, i)
  PROVE  file[n].macs \subseteq ever[i]
<1>1. file[n].idx \in {0, i}
  BY DEF Held
<1>2. file[n].macs # {} => file[n].idx = i
  BY <1>1 DEF IInv, Inv, Filed
<1>3. file[n].idx = i => file[n].macs \subseteq ever[i]
  BY Zero DEF IInv, Inv, Filed
<1> QED BY <1>2, <1>3

Stays == \A i \in Iface \ exposed : name'[i] # 0 => others[i] \ ever[i] \subseteq others'[i]

LEMMA TakeOutStays ==
  ASSUME IInv, NEW n \in Name, NEW i \in Iface \cup {0}, i # 0 => Held(n, i),
         NEW macs \in SUBSET file[n].macs, TakeOut(i, macs)
  PROVE  Stays
<1>1. others \in [Iface -> SUBSET Mac]
  BY DEF IInv, TInv, Typed, TypeOK
<1>2. i \in Iface \ exposed => macs \subseteq ever[i]
  BY OwnLines, Zero
<1> QED BY <1>1, <1>2, Zero DEF TakeOut, Stays

LEMMA WorldStays ==
  ASSUME IInv, World
  PROVE  Stays
<1>0. others \in [Iface -> SUBSET Mac] /\ name \in [Iface -> Name \cup {0}]
  BY DEF IInv, TInv, Typed, TypeOK
<1>1. PICK i \in Iface : \/ \E n \in Name : Rename(i, n) \/ Appear(i, n)
                         \/ Depart(i) \/ Rebridge(i)
                         \/ \E m \in Mac : ForeignAdd(i, m)
  BY DEF World
<1>2. CASE Rebridge(i) \/ \E n \in Name : Rename(i, n) \/ Appear(i, n)
  BY <1>2 DEF Rebridge, Rename, Appear, card, Stays
<1>3. CASE Depart(i)
  BY <1>0, <1>3 DEF Depart, Stays
<1>4. CASE \E m \in Mac : ForeignAdd(i, m)
  BY <1>0, <1>4 DEF ForeignAdd, Stays
<1> QED BY <1>1, <1>2, <1>3, <1>4

LEMMA SettlesStays ==
  ASSUME IInv, NEW n \in Name, SweepSettles(n)
  PROVE  Stays
<1>0. TInv /\ Typed /\ Copies /\ rd.name \in Names /\ Apart(rd.name)
  BY DEF IInv, Inv, TInv, Typed
<1>1. CASE UNCHANGED card
  BY <1>1 DEF card, Stays
<1>2. ASSUME NEW c, Settled(n, NotedLink(rd, cidx, n), c) PROVE Stays
  <2>1. PICK i \in Iface \cup {0} : /\ i = NotedLink(rd, cidx, n)
                                    /\ i # 0 => file[n].idx \in {0, i}
    BY <1>0, LinkFacts DEF Copies
  <2>2. PICK kept \in SUBSET Mac : Emptied(n, i, kept)
    BY <1>0, <1>2, <2>1, SettledFacts
  <2>3. TakeOut(i, file[n].macs \ kept)
    BY <2>2 DEF Emptied
  <2>4. i # 0 => Held(n, i)
    BY <2>1 DEF Held
  <2>5. PICK macs \in SUBSET file[n].macs : macs = file[n].macs \ kept
    OBVIOUS
  <2> QED BY <2>3, <2>4, <2>5, TakeOutStays
<1> QED BY <1>1, <1>2 DEF SweepSettles, card

LEMMA PairWritesStays ==
  ASSUME IInv, NEW want \in SUBSET Mac, PairWrites(want)
  PROVE  Stays
<1>0. TInv /\ Visited
  BY DEF IInv, Inv
<1>1. PICK put \in SUBSET want, out \in SUBSET (held \ want) : PairWritten(put, out)
  BY <1>0, WritesFacts
<1>2. /\ pc = "pairs" /\ at \in Name /\ at # 0 /\ Wearer(rd, at) \in Iface
      /\ \A j \in Iface : others'[j] = IF j = Wearer(rd, at) THEN others[j] \ out ELSE others[j]
  BY <1>1, Zero DEF PairWritten
<1>3. PICK n \in Name, i \in Iface : n = at /\ i = Wearer(rd, at)
  BY <1>2
<1>4. held \subseteq file[n].macs /\ Held(n, i)
  BY <1>0, <1>2, <1>3 DEF Visited, Held
<1>5. i \notin exposed => out \subseteq ever[i]
  BY <1>4, OwnLines
<1> QED BY <1>2, <1>3, <1>5 DEF Stays

LEMMA FastStays ==
  ASSUME IInv, NEW n \in Name, NEW m \in Mac, FastRegisters(n, m) \/ FastReflects(n, m)
  PROVE  Stays
<1>0. TInv /\ Resting
  BY DEF IInv, Inv
<1>1. CASE FastRegisters(n, m)
  BY <1>1 DEF FastRegisters, Stays
<1>2. CASE FastReflects(n, m)
  <2>1. PICK i \in Iface : Reflected(n, m, i)
    BY <1>0, <1>2, ReflectsFacts
  <2>2. Held(n, i) /\ TakeOut(i, {m}) /\ {m} \in SUBSET file[n].macs
    BY <2>1, <1>0 DEF Reflected, Resting
  <2>3. PICK macs \in SUBSET file[n].macs : macs = {m}
    BY <2>2
  <2> QED BY <2>2, <2>3, TakeOutStays
<1> QED BY <1>1, <1>2

LEMMA FlushStays ==
  ASSUME IInv, NEW n \in Name, FlushVisits(n)
  PROVE  Stays
<1>0. TInv /\ fl.name \in Names /\ Apart(fl.name)
  BY DEF IInv, TInv, Typed
<1>1. PICK i \in Iface \cup {0} : i = Reached(fl, n) /\ (i # 0 => file[n].idx \in {0, i})
  BY <1>0, ReachedFacts
<1>2. CASE \E kept \in SUBSET Mac : Emptied(n, i, kept)
  <2>1. PICK kept \in SUBSET Mac : Emptied(n, i, kept)
    BY <1>2
  <2>2. PICK macs \in SUBSET file[n].macs : macs = file[n].macs \ kept
    OBVIOUS
  <2>3. TakeOut(i, macs) /\ (i # 0 => Held(n, i))
    BY <1>1, <2>1, <2>2 DEF Emptied, Held
  <2> QED BY <2>3, TakeOutStays
<1>3. CASE UNCHANGED card
  BY <1>3 DEF card, Stays
<1>4. (\E kept \in SUBSET Mac : Emptied(n, i, kept)) \/ UNCHANGED card
  BY <1>0, <1>1, VisitsFacts DEF Visits
<1> QED BY <1>2, <1>3, <1>4

\* Nothing that another put into a filter, and that this program was never
\* asked to put there itself, is taken out while the interface is there: no
\* line is followed to an interface it is not about (mod.rs:811-814), but
\* between two of which a refused migration left the note of the one under the
\* name of the other.
THEOREM OthersAreLeft ==
  ASSUME Calm
  PROVE  Spec => OthersStay
<1>1. ASSUME IInv, [Next]_vars PROVE [Stays]_vars
  <2>1. CASE UNCHANGED vars
    BY <2>1
  <2>2. CASE Next
    <3>1. CASE World
      BY <3>1, <1>1, WorldStays
    <3>2. CASE PassBegin \/ SweepDone \/ PassDone
      BY <3>2 DEF PassBegin, SweepDone, PassDone, card, Stays
    <3>3. CASE \E n \in Name : SweepFollows(n) \/ SweepSettles(n)
      <4>1. CASE \E n \in Name : SweepFollows(n)
        BY <4>1 DEF SweepFollows, card, Stays
      <4> QED BY <3>3, <4>1, <1>1, SettlesStays
    <3>4. CASE \E n \in Name : PairReused(n) \/ PairWaits(n) \/ PairOpens(n)
      BY <3>4 DEF PairReused, PairWaits, PairOpens, card, Stays
    <3>5. CASE \E want \in SUBSET Mac : PairWrites(want)
      BY <3>5, <1>1, PairWritesStays
    <3>6. CASE \E n \in Name, m \in Mac : FastRegisters(n, m) \/ FastReflects(n, m)
      BY <3>6, <1>1, FastStays
    <3>7. CASE \E n \in Name : FlushVisits(n)
      BY <3>7, <1>1, FlushStays
    <3>8. CASE FlushBegins \/ Crash
      BY <3>8 DEF FlushBegins, Crash, card, Stays
    <3> QED BY <2>2, <3>1, <3>2, <3>3, <3>4, <3>5, <3>6, <3>7, <3>8 DEF Next, World
  <2> QED BY <1>1, <2>1, <2>2
<1>2. IInv /\ [Next]_vars =>
        [\A i \in Iface \ exposed : name'[i] # 0 => others[i] \ ever[i] \subseteq others'[i]]_vars
  BY <1>1 DEF Stays
<1> QED BY <1>2, Inductive, PTL DEF OthersStay, Spec
=============================================================================
