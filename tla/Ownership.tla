------------------------------ MODULE Ownership ------------------------------
(***************************************************************************)
(* The ownership protocol of sriov-mac-sync for one uplink: the note on    *)
(* disk (src/sync/notes.rs), the card's unicast filter, the flock that     *)
(* guards the note, and every process that writes them:                    *)
(*                                                                         *)
(*   Daemons  run full passes (Syncer::reconcile) and event batches        *)
(*            (Syncer::fast_apply), one at a time;                         *)
(*   Onces    a --once by hand: a full pass in a process of its own;       *)
(*   Flushes  a --flush by hand (Syncer::flush);                           *)
(*   Checks   a --check by hand (main.rs: check).                          *)
(*                                                                         *)
(* Every system call on the card is one step, because other processes, the *)
(* operator and the driver act between two of them.  A section that reads  *)
(* and rewrites the note under the lock is one step where only the note is *)
(* touched: whoever else writes it needs the same lock.                    *)
(*                                                                         *)
(* What a pass wants is left open (any set of Wants): which addresses are  *)
(* wanted is not this protocol's business, that no answer can strand an    *)
(* entry is.                                                               *)
(***************************************************************************)
EXTENDS Naturals, FiniteSets

CONSTANTS
  Mac,       \* registerable addresses
  Daemons, Onces, Flushes, Checks,   \* processes
  Probe,     \* the address --check derives from the uplink's own
  Wants,     \* what a pass may come to want
  Faults     \* which failures happen, see AllFaults

Proc == Daemons \cup Onces \cup Flushes \cup Checks
Passers == Daemons \cup Onces

\* "crash"   a process dies between two steps, the kernel drops its lock
\* "read"    the note cannot be read (an I/O error, not its absence)
\* "write"   the temporary or the rename of put_file fails
\* "append"  an append stops short: some of the lines are in the file
\* "torn"    an append stops between an address and its newline
\* "add"     the card refuses an addition, "delete" a removal
\* "ack"     the kernel did it, the acknowledgement never arrived
\* "foreign" somebody else adds and removes entries of their own
\* "reset"   one of our entries leaves the card unasked: a driver that
\*           clears its list on link-down, an operator's bridge fdb del
AllFaults == {"crash", "read", "write", "append", "torn", "add", "delete",
              "ack", "foreign", "reset"}

ASSUME Constants ==
  /\ Probe \in Mac
  /\ Wants \subseteq SUBSET Mac
  /\ Faults \subseteq AllFaults

ASSUME DistinctRoles ==
  /\ Daemons \cap Onces = {} /\ Passers \cap Flushes = {}
  /\ Passers \cap Checks = {} /\ Flushes \cap Checks = {}

VARIABLES
  lines,     \* the note: addresses on finished lines
  open,      \* at most one address on a last line that has no newline
  card,      \* Mac -> who put the entry there ("ours" is this program)
  lock,      \* the processes holding the note's flock: at most one
  (* Per process: what it is doing, and its local variables. *)
  at,        \* the stage it has reached
  op,        \* what its lock sections are run for
  seen,      \* `present`: the card as dumped
  before,    \* `owned_before`: the note as read
  want,      \* what should be in the card; in a batch, what to register
  owned,     \* `owned`
  todo,      \* what the loop over the card has still to do
  fresh,     \* the lines this section appended
  settle,    \* what this section takes off the note: `unclaim`, `dropped`
  quiet      \* `carried.quiet`: the keeps of the last pass

disk == <<lines, open>>
locals == <<op, seen, before, want, owned, todo, fresh, settle>>
vars == <<disk, card, lock, at, locals, quiet>>

-----------------------------------------------------------------------------
(* State *)

Origin == {"absent", "ours", "foreign"}

\* In "adding", "deleting" and "flushing" a process holds the lock;
\* "register", "retire" and "merge" are about to take it.
Stage == {"idle", "dumped", "room", "register", "adding", "stale", "retire",
          "deleting", "merge", "flushing", "probing", "taking", "forgetting"}
Locked == {"adding", "deleting", "flushing"}

\* A pass, the reflection half or the shedding half of an event batch.
Purpose == {"pass", "reflect", "shed"}

Sets == [Proc -> SUBSET Mac]
Nothing == [p \in Proc |-> {}]

TypeOK ==
  /\ lines \subseteq Mac /\ open \subseteq Mac
  /\ card \in [Mac -> Origin]
  /\ lock \subseteq Proc
  /\ at \in [Proc -> Stage] /\ op \in [Proc -> Purpose]
  /\ seen \in Sets /\ before \in Sets /\ want \in Sets /\ owned \in Sets
  /\ todo \in Sets /\ fresh \in Sets /\ settle \in Sets /\ quiet \in Sets

Idle ==
  /\ lock = {}
  /\ at = [p \in Proc |-> "idle"] /\ op = [p \in Proc |-> "pass"]
  /\ seen = Nothing /\ before = Nothing /\ want = Nothing /\ owned = Nothing
  /\ todo = Nothing /\ fresh = Nothing /\ settle = Nothing /\ quiet = Nothing

Init ==
  /\ lines = {} /\ open = {}
  /\ card = [m \in Mac |-> "absent"]
  /\ Idle

Ours == {m \in Mac : card[m] = "ours"}
OnCard == {m \in Mac : card[m] # "absent"}

\* read_owned: every line that parses, the unfinished last one included when
\* only its newline is missing.
Noted == lines \cup open

Go(p, stage) == at' = [at EXCEPT ![p] = stage]

\* The operation is over and its local variables with it.
Finish(p) ==
  /\ Go(p, "idle")
  /\ op' = [op EXCEPT ![p] = "pass"]
  /\ seen' = [seen EXCEPT ![p] = {}]
  /\ before' = [before EXCEPT ![p] = {}]
  /\ want' = [want EXCEPT ![p] = {}]
  /\ owned' = [owned EXCEPT ![p] = {}]
  /\ todo' = [todo EXCEPT ![p] = {}]
  /\ fresh' = [fresh EXCEPT ![p] = {}]
  /\ settle' = [settle EXCEPT ![p] = {}]

-----------------------------------------------------------------------------
(* The note *)

\* What a look at the note can yield; {} is the could-not-tell set.
Readings == {Noted} \cup IF "read" \in Faults THEN {{}} ELSE {}

\* write_owned of a set computed from a read under the same lock.  A note
\* that already says so is not rewritten; one that could not be read, or that
\* cannot be replaced, stays as it is.
Rewrite(S) ==
  \/ S # Noted /\ lines' = S /\ open' = {}
  \/ /\ S = Noted \/ Faults \cap {"read", "write"} # {}
     /\ UNCHANGED disk

\* append_owned_locked when it answers Some: nothing is written when every
\* address is already named; otherwise finish_the_last_line cuts a line
\* without its newline before the new lines go behind it.
Append(new) ==
  \/ new = {} /\ UNCHANGED disk
  \/ new # {} /\ lines' = lines \cup new /\ open' = {}

\* append_owned_locked when it answers None: the note could not be read or
\* opened, or the write stopped part of the way.
AppendRefused(new) ==
  \/ /\ "read" \in Faults \/ ("append" \in Faults /\ new # {})
     /\ UNCHANGED disk
  \/ /\ "append" \in Faults
     /\ \E S \in SUBSET new : S # new /\ lines' = lines \cup S
     /\ open' = {}
  \/ /\ "torn" \in Faults
     /\ \E m \in new : \E S \in SUBSET (new \ {m}) :
          lines' = lines \cup S /\ open' = {m}

-----------------------------------------------------------------------------
(* The card: set_self_fdb with NLM_F_CREATE|NLM_F_EXCL, and its deletion *)

Holds(m, who) == card' = [card EXCEPT ![m] = who]
NextMac(p, m) == m \in todo[p] /\ todo' = [todo EXCEPT ![p] = @ \ {m}]

-----------------------------------------------------------------------------
(* Registering: register_batch_locked *)

\* Mutant of RegisterNote: the card before the note.
RegisterCardFirst(p) ==
  /\ at[p] = "register" /\ Go(p, "adding")
  /\ lock = {} /\ lock' = {p}
  /\ fresh' = [fresh EXCEPT ![p] = todo[p] \ Noted]
  /\ settle' = [settle EXCEPT ![p] = {}]
  /\ UNCHANGED <<disk, card, op, seen, before, want, owned, todo, quiet>>

\* Note first: the lock, the intent on record, then the card.
RegisterNote(p) ==
  /\ at[p] = "register" /\ Go(p, "adding")
  /\ lock = {} /\ lock' = {p}
  /\ Append(todo[p] \ Noted)
  /\ fresh' = [fresh EXCEPT ![p] = todo[p] \ Noted]
  /\ settle' = [settle EXCEPT ![p] = {}]
  /\ UNCHANGED <<card, op, seen, before, want, owned, todo, quiet>>

\* Mutant of Registered: a pass goes on to a stage nobody handles.
RegisteredNowhere(p) ==
  \/ /\ op[p] = "pass" /\ Go(p, "done")
     /\ UNCHANGED locals
  \/ op[p] # "pass" /\ Finish(p)

\* Where the caller goes on: a pass to its stale loop, a batch home.
Registered(p) ==
  \/ /\ op[p] = "pass" /\ Go(p, "stale")
     /\ fresh' = [fresh EXCEPT ![p] = {}]
     /\ settle' = [settle EXCEPT ![p] = {}]
     /\ UNCHANGED <<op, seen, before, want, owned, todo>>
  \/ op[p] # "pass" /\ Finish(p)

\* A note that refuses the batch keeps the card untouched.
RegisterRefused(p) ==
  /\ at[p] = "register"
  /\ lock = {}
  /\ AppendRefused(todo[p] \ Noted)
  /\ Registered(p)
  /\ UNCHANGED <<card, lock, quiet>>

AddOk(p, m) ==
  /\ at[p] = "adding" /\ NextMac(p, m)
  /\ card[m] = "absent" /\ Holds(m, "ours")
  /\ owned' = [owned EXCEPT ![p] = @ \cup {m}]
  /\ UNCHANGED <<disk, lock, at, op, seen, before, want, fresh, settle, quiet>>

\* Mutant of AddExists: every refused address is taken off the note, the
\* ones this call did not put there included.
AddExistsUnclaimsAll(p, m) ==
  /\ at[p] = "adding" /\ NextMac(p, m)
  /\ card[m] # "absent"
  /\ settle' = [settle EXCEPT ![p] = @ \cup {m}]
  /\ UNCHANGED <<disk, card, lock, at, op, seen, before, want, owned, fresh, quiet>>

\* EEXIST: somebody else's since the dump.  This call's own line comes back
\* out; a line that predates it was ours all along.
AddExists(p, m) ==
  /\ at[p] = "adding" /\ NextMac(p, m)
  /\ card[m] # "absent"
  /\ settle' = [settle EXCEPT ![p] = @ \cup ({m} \cap fresh[p])]
  /\ UNCHANGED <<disk, card, lock, at, op, seen, before, want, owned, fresh, quiet>>

\* Any other answer: the line stays, for the retry.
AddFails(p, m) ==
  /\ at[p] = "adding" /\ NextMac(p, m)
  /\ \/ "add" \in Faults /\ UNCHANGED card
     \/ "ack" \in Faults /\ Holds(m, IF card[m] = "absent" THEN "ours" ELSE card[m])
  /\ UNCHANGED <<disk, lock, at, op, seen, before, want, owned, fresh, settle, quiet>>

\* unnote_locked for what turned out to be somebody else's, then the unlock.
RegisterEnd(p) ==
  /\ at[p] = "adding" /\ todo[p] = {}
  /\ Rewrite(Noted \ settle[p])
  /\ lock' = {}
  /\ Registered(p)
  /\ UNCHANGED <<card, quiet>>

-----------------------------------------------------------------------------
(* Removing: retire, and the loop --flush shares *)

\* Mutant of RetireLock: the removal does not take the note's lock.
RetireUnlocked(p) ==
  /\ at[p] = "retire" /\ Go(p, "deleting")
  /\ settle' = [settle EXCEPT ![p] = {}]
  /\ UNCHANGED <<disk, card, lock, op, seen, before, want, owned, todo, fresh, quiet>>

RetireLock(p) ==
  /\ at[p] = "retire" /\ Go(p, "deleting")
  /\ lock = {} /\ lock' = {p}
  /\ settle' = [settle EXCEPT ![p] = {}]
  /\ UNCHANGED <<disk, card, op, seen, before, want, owned, todo, fresh, quiet>>

\* Mutant of DeleteOk: an address that is not there does not count as gone.
DeleteOkPresent(p, m) ==
  /\ at[p] \in {"deleting", "flushing"} /\ NextMac(p, m)
  /\ Holds(m, "absent")
  /\ settle' = [settle EXCEPT ![p] = IF card[m] = "absent" THEN @ ELSE @ \cup {m}]
  /\ UNCHANGED <<disk, lock, at, op, seen, before, want, owned, fresh, quiet>>

\* Deleted, or ENOENT: it was not there.
DeleteOk(p, m) ==
  /\ at[p] \in {"deleting", "flushing"} /\ NextMac(p, m)
  /\ Holds(m, "absent")
  /\ settle' = [settle EXCEPT ![p] = @ \cup {m}]
  /\ UNCHANGED <<disk, lock, at, op, seen, before, want, owned, fresh, quiet>>

DeleteFails(p, m) ==
  /\ at[p] \in {"deleting", "flushing"} /\ NextMac(p, m)
  /\ \/ "delete" \in Faults /\ UNCHANGED card
     \/ "ack" \in Faults /\ Holds(m, "absent")
  /\ UNCHANGED <<disk, lock, at, op, seen, before, want, owned, fresh, settle, quiet>>

\* forget_locked - a fresh read less what the card let go - and the unlock.
\* Then a pass looks whether there is a difference to merge, a batch goes from
\* its reflection to measuring its room, from shedding to registering.
RetireEnd(p) ==
  /\ at[p] = "deleting" /\ todo[p] = {}
  /\ Rewrite(Noted \ settle[p])
  /\ lock' = {}
  /\ owned' = [owned EXCEPT ![p] = @ \ settle[p]]
  /\ settle' = [settle EXCEPT ![p] = {}]
  /\ \/ op[p] = "pass" /\ Go(p, "merge") /\ UNCHANGED <<todo, quiet>>
     \/ op[p] = "reflect" /\ Go(p, "room") /\ UNCHANGED <<todo, quiet>>
     \/ /\ op[p] = "shed" /\ Go(p, "register")
        /\ todo' = [todo EXCEPT ![p] = want[p]]
        /\ quiet' = [quiet EXCEPT ![p] = @ \ settle[p]]
  /\ UNCHANGED <<card, op, seen, before, want, fresh>>

-----------------------------------------------------------------------------
(* A full pass: reconcile *)

\* The dump of the forwarding table a pass starts with.
PassDump(p) ==
  /\ p \in Passers
  /\ at[p] = "idle" /\ Go(p, "dumped")
  /\ seen' = [seen EXCEPT ![p] = OnCard]
  /\ UNCHANGED <<disk, card, lock, op, before, want, owned, todo, fresh, settle, quiet>>

\* The note read, what is wanted decided, the keeps among it remembered.
PassRead(p) ==
  /\ at[p] = "dumped" /\ seen' = [seen EXCEPT ![p] = {}]
  /\ \E note \in Readings, w \in Wants :
       /\ before' = [before EXCEPT ![p] = note]
       /\ owned' = [owned EXCEPT ![p] = note]
       /\ want' = [want EXCEPT ![p] = w]
       /\ todo' = [todo EXCEPT ![p] = w \ seen[p]]
       /\ Go(p, IF w \subseteq seen[p] THEN "stale" ELSE "register")
       /\ \E kept \in SUBSET (w \cap note) : quiet' = [quiet EXCEPT ![p] = kept]
  /\ UNCHANGED <<disk, card, lock, op, fresh, settle>>

\* Mutant of PassStale: a pass only adds.
PassStaleKeepsAll(p) ==
  /\ at[p] = "stale" /\ Go(p, "merge")
  /\ todo' = [todo EXCEPT ![p] = {}]
  /\ UNCHANGED <<disk, card, lock, op, seen, before, want, owned, fresh, settle, quiet>>

\* Mutant of PassStale: whatever the card holds and is not wanted is retired.
PassStaleWhoever(p) ==
  /\ at[p] = "stale"
  /\ LET stale == (owned[p] \cup OnCard) \ want[p]
     IN  /\ Go(p, IF stale = {} THEN "merge" ELSE "retire")
         /\ todo' = [todo EXCEPT ![p] = stale]
  /\ UNCHANGED <<disk, card, lock, op, seen, before, want, owned, fresh, settle, quiet>>

\* What is owned and no longer wanted is to be retired.
PassStale(p) ==
  /\ at[p] = "stale"
  /\ LET stale == owned[p] \ want[p]
     IN  /\ Go(p, IF stale = {} THEN "merge" ELSE "retire")
         /\ todo' = [todo EXCEPT ![p] = stale]
  /\ UNCHANGED <<disk, card, lock, op, seen, before, want, owned, fresh, settle, quiet>>

\* save_owned_merged: the difference this pass made, against a fresh read,
\* in a lock section of its own.
Merge(p) ==
  /\ at[p] = "merge" /\ owned[p] # before[p]
  /\ lock = {}
  /\ Rewrite((Noted \cup (owned[p] \ before[p])) \ (before[p] \ owned[p]))
  /\ Finish(p)
  /\ UNCHANGED <<card, lock, quiet>>

\* A pass that changed nothing does not look at the note again.
PassDone(p) ==
  /\ at[p] = "merge" /\ owned[p] = before[p]
  /\ Finish(p)
  /\ UNCHANGED <<disk, card, lock, quiet>>

-----------------------------------------------------------------------------
(* An event batch: fast_apply *)

\* What of ours was learnt on the uplink's port comes out first; what was
\* learnt behind the bridge is to be registered.  Within a batch the wire has
\* the last word, so the two are disjoint.
BatchRead(p) ==
  /\ p \in Daemons /\ at[p] = "idle"
  /\ \E note \in Readings, w \in Wants :
     \E ours \in SUBSET (note \ w), learnt \in SUBSET w :
       /\ ours \cup learnt # {}
       /\ Go(p, IF ours # {} THEN "retire" ELSE "room")
       /\ want' = [want EXCEPT ![p] = learnt]
       /\ todo' = [todo EXCEPT ![p] = ours]
       /\ quiet' = [quiet EXCEPT ![p] = @ \ ours]
  /\ op' = [op EXCEPT ![p] = "reflect"]
  /\ UNCHANGED <<disk, card, lock, seen, before, owned, fresh, settle>>

\* The room is measured; short of it the pass's keeps are surrendered, never
\* one this very batch has heard from.
BatchRoom(p) ==
  /\ at[p] = "room" /\ want[p] # {}
  /\ \E shed \in SUBSET (quiet[p] \ want[p]) :
       /\ Go(p, IF shed # {} THEN "retire" ELSE "register")
       /\ todo' = [todo EXCEPT ![p] = IF shed # {} THEN shed ELSE want[p]]
  /\ op' = [op EXCEPT ![p] = "shed"]
  /\ UNCHANGED <<disk, card, lock, seen, before, want, owned, fresh, settle, quiet>>

BatchDone(p) ==
  /\ at[p] = "room" /\ want[p] = {}
  /\ Finish(p)
  /\ UNCHANGED <<disk, card, lock, quiet>>

-----------------------------------------------------------------------------
(* --flush *)

\* Mutant of FlushLock: a flush reads and deletes beside a batch.
FlushUnlocked(p) ==
  /\ p \in Flushes
  /\ at[p] = "idle" /\ Go(p, "flushing")
  /\ Noted # {}
  /\ owned' = [owned EXCEPT ![p] = Noted]
  /\ todo' = [todo EXCEPT ![p] = Noted]
  /\ settle' = [settle EXCEPT ![p] = {}]
  /\ UNCHANGED <<disk, card, lock, op, seen, before, want, fresh, quiet>>

\* Read under the lock; an unreadable note is left alone.
FlushLock(p) ==
  /\ p \in Flushes
  /\ at[p] = "idle" /\ Go(p, "flushing")
  /\ lock = {} /\ lock' = {p}
  /\ Noted # {}
  /\ owned' = [owned EXCEPT ![p] = Noted]
  /\ todo' = [todo EXCEPT ![p] = Noted]
  /\ settle' = [settle EXCEPT ![p] = {}]
  /\ UNCHANGED <<disk, card, op, seen, before, want, fresh, quiet>>

\* Everything gone: the note is unlinked.  Otherwise what could not be
\* removed stays on record, or the whole note when it cannot be rewritten.
FlushEnd(p) ==
  /\ at[p] = "flushing" /\ todo[p] = {}
  /\ Rewrite(owned[p] \ settle[p])
  /\ lock' = {}
  /\ Finish(p)
  /\ UNCHANGED <<card, quiet>>

-----------------------------------------------------------------------------
(* --check: the note under the lock, the card outside it *)

CheckNote(p) ==
  /\ p \in Checks /\ at[p] = "idle"
  /\ lock = {}
  /\ \/ Append({Probe} \ Noted) /\ Go(p, "probing")
     \/ AppendRefused({Probe} \ Noted) /\ UNCHANGED at
  /\ UNCHANGED <<card, lock, locals, quiet>>

\* EEXIST counts as accepted; any other refusal takes the line back.
CheckAdd(p) ==
  /\ at[p] = "probing"
  /\ \/ /\ Go(p, "taking")
        /\ Holds(Probe, IF card[Probe] = "absent" THEN "ours" ELSE card[Probe])
     \/ /\ Go(p, "forgetting")
        /\ \/ "add" \in Faults /\ UNCHANGED card
           \/ /\ "ack" \in Faults
              /\ Holds(Probe, IF card[Probe] = "absent" THEN "ours" ELSE card[Probe])
  /\ UNCHANGED <<disk, lock, locals, quiet>>

\* Only a deletion that succeeded forgets the line: ENOENT is an error here.
CheckTake(p) ==
  /\ at[p] = "taking"
  /\ \/ /\ Go(p, "forgetting")
        /\ card[Probe] # "absent" /\ Holds(Probe, "absent")
     \/ /\ Go(p, "idle")
        /\ \/ card[Probe] = "absent" /\ UNCHANGED card
           \/ "delete" \in Faults /\ UNCHANGED card
           \/ "ack" \in Faults /\ Holds(Probe, "absent")
  /\ UNCHANGED <<disk, lock, locals, quiet>>

\* Mutant of CheckForget: the note is emptied instead of losing one line.
CheckForgetAll(p) ==
  /\ at[p] = "forgetting" /\ Go(p, "idle")
  /\ lock = {}
  /\ Rewrite({})
  /\ UNCHANGED <<card, lock, locals, quiet>>

\* drop_line_locked: one line out, the rest as they were.
CheckForget(p) ==
  /\ at[p] = "forgetting" /\ Go(p, "idle")
  /\ lock = {}
  /\ Rewrite(Noted \ {Probe})
  /\ UNCHANGED <<card, lock, locals, quiet>>

-----------------------------------------------------------------------------
(* The environment *)

\* A process dies; flock goes with its descriptor, its memory with it.
Crash(p) ==
  /\ "crash" \in Faults
  /\ at[p] # "idle" \/ quiet[p] # {}
  /\ lock' = lock \ {p}
  /\ Finish(p)
  /\ quiet' = [quiet EXCEPT ![p] = {}]
  /\ UNCHANGED <<disk, card>>

ForeignAdd(m) ==
  /\ "foreign" \in Faults
  /\ card[m] = "absent" /\ Holds(m, "foreign")
  /\ UNCHANGED <<disk, lock, at, locals, quiet>>

ForeignRemove(m) ==
  /\ "foreign" \in Faults
  /\ card[m] = "foreign" /\ Holds(m, "absent")
  /\ UNCHANGED <<disk, lock, at, locals, quiet>>

DriverReset(m) ==
  /\ "reset" \in Faults
  /\ card[m] = "ours" /\ Holds(m, "absent")
  /\ UNCHANGED <<disk, lock, at, locals, quiet>>

-----------------------------------------------------------------------------
Register(p) == \/ RegisterNote(p) \/ RegisterRefused(p) \/ RegisterEnd(p)
               \/ \E m \in Mac : AddOk(p, m) \/ AddExists(p, m) \/ AddFails(p, m)
Retire(p) == \/ RetireLock(p) \/ RetireEnd(p)
             \/ \E m \in Mac : DeleteOk(p, m) \/ DeleteFails(p, m)
Pass(p) == PassDump(p) \/ PassRead(p) \/ PassStale(p) \/ Merge(p) \/ PassDone(p)
Batch(p) == BatchRead(p) \/ BatchRoom(p) \/ BatchDone(p)
Flush(p) == FlushLock(p) \/ FlushEnd(p)
Check(p) == CheckNote(p) \/ CheckAdd(p) \/ CheckTake(p) \/ CheckForget(p)

Step(p) == Register(p) \/ Retire(p) \/ Pass(p) \/ Batch(p) \/ Flush(p) \/ Check(p)

Environment == \/ \E p \in Proc : Crash(p)
               \/ \E m \in Mac : ForeignAdd(m) \/ ForeignRemove(m) \/ DriverReset(m)

Next == (\E p \in Proc : Step(p)) \/ Environment

Spec == Init /\ [][Next]_vars

-----------------------------------------------------------------------------
(* Properties *)

\* Invariant 3 of src/sync/mod.rs and the opening sentence of notes.rs: an
\* entry this program put into the card always has a line on record, whatever
\* process dies, whichever write fails - or nothing will ever take it out.
NoOrphan == Ours \subseteq Noted

\* The other half of invariant 3, "only what this daemon registered is ever
\* removed": no pass, batch or flush takes an entry out of the card that the
\* note does not name at that moment, though the removal loops of retire and
\* flush work from lists read earlier, and the shedder from memory.
RemovesOnlyNoted ==
  [][\A m \in Mac : card[m] # "absent" /\ card'[m] = "absent" =>
        m \in Noted \/ ForeignRemove(m) \/ DriverReset(m)]_vars

\* "--flush promises to remove every address this daemon registered": in the
\* step in which a flush has deleted all it read and says so, the card holds
\* nothing of ours - whatever a daemon registers beside it.
FlushIsClean ==
  [][\A p \in Flushes :
       /\ at[p] = "flushing" /\ todo[p] = {}
       /\ settle[p] = owned[p]
       /\ at'[p] = "idle"
       => Ours = {}]_vars

\* A --check that is over has left nothing on the card that no note names: "a
\* check killed between the two then leaves an entry the next pass heals"
\* (note_check_probe).
ChecksLeaveNoOrphan == (\A p \in Checks : at[p] = "idle") => NoOrphan

\* A finished line never goes while the card holds the entry it names for us,
\* whatever a --check beside the daemon does and wherever an append tears.
\* Three lines are outside this: the probe's own (ChecksLeaveNoOrphan), one
\* without its newline (NoOrphan with "torn"), and the one a registration has
\* only just written for an address that turns out to be in the card.
FinishedLinesStay ==
  [][\A m \in lines \ lines' :
       m = Probe \/ card[m] # "ours" \/ \E p \in Proc : m \in fresh[p]]_vars

\* The protocol implements the ledger: the note may be rewritten in any way
\* that keeps every entry of ours named, the card gains an entry of ours only
\* under a line that names it.
L == INSTANCE Ledger WITH claims <- Noted, held <- Ours
Accounted == L!Spec

-----------------------------------------------------------------------------
(* Why NoOrphan holds: the inductive invariant.                             *)

\* The lock is held by exactly the process that is in a locked section.
LockInv ==
  /\ \A p \in Proc : p \in lock <=> at[p] \in Locked
  /\ \A p, q \in lock : p = q

\* Each kind of process is only ever in the stages of its own code.
RoleInv ==
  \A p \in Proc :
    /\ p \in Flushes => at[p] \in {"idle", "flushing"}
    /\ p \in Passers => at[p] \notin {"flushing", "probing", "taking", "forgetting"}

\* While a batch is being added, what is still to come is on record, what was
\* put on record for it is not ours yet, and what will be taken off the
\* record is not ours at all.
AddInv ==
  \A p \in Proc : at[p] = "adding" =>
    /\ todo[p] \subseteq lines
    /\ todo[p] \cap fresh[p] \cap Ours = {}
    /\ settle[p] \cap Ours = {}
    /\ settle[p] \cap todo[p] = {}

\* While entries are being deleted, what the note will forget is off the card,
\* and the list a flush works from is the note as it stands.
DeleteInv ==
  \A p \in Proc :
    /\ at[p] \in {"deleting", "flushing"} => settle[p] \cap Ours = {}
    /\ at[p] = "flushing" => owned[p] = lines

\* What a merge is going to take off the note is off the card.
MergeInv ==
  \A p \in Proc :
    /\ \/ at[p] = "stale"
       \/ op[p] = "pass" /\ at[p] \in {"register", "adding", "retire", "deleting"}
       => before[p] \subseteq owned[p]
    /\ at[p] = "merge" => (before[p] \ owned[p]) \cap Ours = {}

\* The circumstances: no --check, and no append that stops between an address
\* and its newline; and either a single process that passes (the daemon, or a
\* --once alone), or any number of them that want the same, as processes do on
\* a network at rest.  Any number of flushes.
Untorn == Checks = {} /\ "torn" \notin Faults
OnePasser == Untorn /\ \A p, q \in Passers : p = q
OneMind == Untorn /\ \A v, w \in Wants : v = w
Orderly == OnePasser \/ OneMind

\* Nobody adds what somebody's merge is going to take off the note.
NoRival ==
  \A p, q \in Proc : at[p] = "adding" /\ at[q] = "merge" =>
    todo[p] \cap (before[q] \ owned[q]) = {}

\* Why processes of one mind are no rivals: what they register is wanted by all
\* of them, what a pass retires by none.
Agreed == UNION Wants

MindInv ==
  \A p \in Proc :
    /\ want[p] \subseteq Agreed
    /\ at[p] \in {"register", "adding"} => todo[p] \subseteq Agreed
    /\ \/ at[p] = "stale"
       \/ op[p] = "pass" /\ at[p] \in {"register", "adding"}
       => Agreed \subseteq want[p]
    /\ op[p] = "pass" /\ at[p] \in {"retire", "deleting"} => todo[p] \cap Agreed = {}
    /\ op[p] = "pass" /\ at[p] = "deleting" => settle[p] \cap Agreed = {}
    /\ at[p] = "merge" => (before[p] \ owned[p]) \cap Agreed = {}

\* Every finished line stays finished unless an append is torn, and with the
\* parts above the invariant is preserved by every step.
Inv == TypeOK /\ open = {} /\ NoOrphan /\ LockInv /\ RoleInv /\ AddInv /\ DeleteInv /\ MergeInv

-----------------------------------------------------------------------------
(* Why finished lines stay: what a --check may do beside one passing process. *)

\* The circumstances: one process that passes, beside any number of flushes
\* and checks, whatever fails.
OneWriter == \A p, q \in Passers : p = q

\* What is taken off the note is gone from the card, but for the probe, which
\* a --check writes without the lock; or it is this batch's own line.
TakenOff ==
  \A p \in Proc :
    /\ at[p] = "adding" => settle[p] \subseteq fresh[p]
    /\ at[p] \in {"deleting", "flushing"} => settle[p] \cap Ours \subseteq {Probe}
    /\ at[p] = "flushing" => owned[p] = Noted
    /\ \/ at[p] = "stale"
       \/ op[p] = "pass" /\ at[p] \in {"register", "adding", "retire", "deleting"}
       => before[p] \subseteq owned[p]
    /\ at[p] = "merge" => (before[p] \ owned[p]) \cap Ours \subseteq {Probe}

CheckRole == \A p \in Checks : at[p] \in {"idle", "probing", "taking", "forgetting"}

LineInv == TypeOK /\ LockInv /\ RoleInv /\ CheckRole /\ TakenOff

-----------------------------------------------------------------------------
(* Why a process that is alone with the card removes what is on record only. *)

\* The circumstances: one process that passes and no other of ours; others may
\* write the card, and anything fails but an append before its newline.
Alone == OnePasser /\ Flushes = {}

\* Or whoever NoOrphan allows, on a card that nobody else writes: what it holds
\* is then ours, and on record.
Unshared == Orderly /\ "foreign" \notin Faults
AllOurs == \A m \in Mac : card[m] # "foreign"

\* A process that is about nothing, or has just read, is in a pass; what a
\* section takes off the note is over with it.
Begun ==
  \A p \in Proc :
    /\ at[p] \in {"idle", "dumped", "stale", "merge"} => op[p] = "pass"
    /\ at[p] \notin Locked => settle[p] = {}

\* A pass keeps what it wants, and what it owns is on record until its stale
\* loop; what it takes off the record it does not want.
PassListed ==
  \A p \in Proc : op[p] = "pass" =>
    /\ at[p] \in {"register", "adding", "stale", "retire", "deleting", "merge"} =>
         quiet[p] \subseteq want[p]
    /\ at[p] \in {"register", "adding", "stale"} => owned[p] \subseteq lines
    /\ at[p] \in {"register", "adding", "stale", "retire", "deleting"} =>
         before[p] \subseteq owned[p]
    /\ at[p] \in {"retire", "deleting"} => (todo[p] \cup settle[p]) \cap want[p] = {}
    /\ at[p] = "merge" => (before[p] \ owned[p]) \cap want[p] = {}

\* While a batch is added, what is owned is neither this batch's to settle nor
\* still to come with a line of its own.
AddListed ==
  \A p \in Proc : at[p] = "adding" =>
    /\ todo[p] \subseteq lines /\ settle[p] \subseteq fresh[p]
    /\ fresh[p] \cap quiet[p] = {} /\ settle[p] \cap todo[p] = {}
    /\ op[p] = "pass" => (settle[p] \cup (todo[p] \cap fresh[p])) \cap owned[p] = {}

\* What is about to be removed is on record; so are the keeps, and but for the
\* shedder's they are not what is removed.
KeepListed ==
  \A p \in Proc :
    /\ quiet[p] \subseteq lines
    /\ at[p] \in {"retire", "deleting"} =>
         /\ todo[p] \subseteq lines
         /\ op[p] # "shed" => (todo[p] \cup settle[p]) \cap quiet[p] = {}

AloneInv ==
  TypeOK /\ open = {} /\ LockInv /\ RoleInv /\ Begun /\ PassListed /\ AddListed /\ KeepListed

-----------------------------------------------------------------------------
(* Why, on a network at rest, several processes remove what is on record    *)
(* only, whatever the card and the note held when they came up.              *)

\* The circumstances: passes of one mind, of which one daemon's at most, and
\* nobody else who writes the card - though others may have written it before.
AtRest == OneMind /\ "foreign" \notin Faults /\ \A p, q \in Daemons : p = q

Foreign == {m \in Mac : card[m] = "foreign"}

\* What a process has listed and nobody wants is on record or has left the
\* card for good.
ListsHold(p) ==
  /\ \/ at[p] = "stale"
     \/ op[p] = "pass" /\ at[p] \in {"register", "adding"}
     => (owned[p] \ Agreed) \cap OnCard \subseteq lines
  /\ at[p] \in {"retire", "deleting"} /\ op[p] # "shed" =>
       todo[p] \cap Agreed = {} /\ todo[p] \cap OnCard \subseteq lines
  /\ at[p] = "flushing" => todo[p] \subseteq owned[p]

\* What a process takes off the note, but for a line it has just put there, is
\* out of the card.
LetGo(p) ==
  /\ at[p] \in {"deleting", "flushing"} => settle[p] \cap OnCard = {}
  /\ at[p] = "merge" => (before[p] \ owned[p]) \cap OnCard = {}

\* A pass adds what its dump did not have: the card takes it.
DumpHolds(p) ==
  /\ at[p] = "dumped" => Foreign \subseteq seen[p]
  /\ op[p] = "pass" /\ at[p] \in {"register", "adding"} => todo[p] \cap Foreign = {}
  /\ op[p] = "pass" /\ at[p] = "adding" => settle[p] = {}
  /\ at[p] = "adding" => settle[p] \subseteq Agreed
  /\ op[p] # "pass" \/ at[p] = "room" => p \in Daemons
  /\ at[p] \in {"idle", "dumped", "stale", "merge"} => op[p] = "pass"

\* The daemon's keeps are on record while they are in the card; what a batch
\* finds taken by others is none of them.
KeepsHold(p) == p \in Daemons =>
  /\ quiet[p] \cap OnCard \subseteq lines
  /\ at[p] \in {"retire", "deleting"} /\ op[p] = "shed" => todo[p] \subseteq quiet[p]
  /\ at[p] = "adding" /\ op[p] # "pass" =>
       /\ settle[p] \cap quiet[p] = {}
       /\ todo[p] \cap fresh[p] \cap quiet[p] \cap OnCard = {}

Rest(p) == ListsHold(p) /\ LetGo(p) /\ DumpHolds(p) /\ KeepsHold(p)
RestInv == \A p \in Proc : Rest(p)

-----------------------------------------------------------------------------
(* The scheduling under which the notes settle.  No process stops between   *)
(* two steps of one; the kernel wakes whoever waits for the flock at every  *)
(* release; and batches do not starve passes, because the loop runs a due   *)
(* pass before it looks for events (src/daemon.rs: run).                    *)

Acquire(p) == RegisterNote(p) \/ RegisterRefused(p) \/ RetireLock(p) \/ Merge(p)

Fairness == \A p \in Passers :
  WF_vars(Step(p)) /\ SF_vars(Acquire(p)) /\ SF_vars(PassDump(p))

\* Any state a crash, a refused addition or a cleared card can have left
\* behind: lines without entries, never an entry of ours without its line.
Aftermath ==
  /\ lines \in SUBSET Mac /\ open = {}
  /\ card \in [Mac -> Origin]
  /\ Ours \subseteq lines
  /\ Idle

RecoverySpec == Aftermath /\ [][Next]_vars /\ Fairness

\* A line that names nothing in the card does not stay so: the add is retried
\* while the address is wanted, the removal's ENOENT settles the note once it
\* is not (register_batch_locked).
LinesHeal == \A m \in Mac :
  (m \in Noted /\ card[m] = "absent") ~> (m \notin Noted \/ card[m] # "absent")

\* With a network that has come to rest - every pass wants the same set -
\* daemon and --once processes converge rather than fight: for good, the
\* wanted addresses are in the card and nothing else of ours is, on the card
\* or on record.
Converges ==
  \A w \in Wants : Wants = {w} => <>[](/\ w \subseteq OnCard
                                      /\ Ours \subseteq w
                                      /\ Noted \subseteq w)
=============================================================================
