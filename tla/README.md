# sriov-mac-sync: a TLA+ model

`sriov-mac-sync` keeps the unicast filter of an SR-IOV uplink in step with the
bridge above it. A card's embedded switch delivers a frame from a virtual
function to the uplink only if the destination is in the uplink's filter; the
daemon therefore registers every address that a bridge has learnt behind the
uplink, and takes it out again when it moves to the wire.

Four promises carry the program (the invariants of `src/src/sync/mod.rs` and
`docs/internals.md`), and this project is organised around them:

1. what is out on the wire is not in the filter;
2. a virtual function's own address is never registered, even though the
   driver's answer about the functions is expensive and therefore carried;
3. every entry this program put into a card is on record in a note, so that a
   pass or `--flush` can take it out - and only such entries are ever removed;
4. a guest that has fallen silent is not unregistered as long as its port lives
   and the card has room.

There is no timer: everything happens because of a notification, a failure or a
signal.

## Inventory

| part | source | state | operations | interacts with |
|---|---|---|---|---|
| ownership protocol | `sync/mod.rs`, `sync/notes.rs`, `main.rs` (check) | the card, the note file, its lock | register_batch_locked, retire, save_owned_merged, flush, the probe of `--check` | any number of processes over one note file |
| daemon loop | `daemon.rs`, `main.rs` (signals), `netlink.rs` (wait, recv_events) | Schedule (due, last_pass, trigger), failure count, vf_stale, signal flags and pipe | daemon_loop, run_pass, handle_batch, Live::wait, Live::pause | calls reconcile and fast_apply |
| filter decisions | `sync/mod.rs` | carried (quiet, wire, passed_at), carried_ports, carried_vf, the memory file | reconcile, fast_apply and their helpers | reads the bridge and the driver, writes through the ownership protocol |
| rename, orphans | `sync/mod.rs`, `sync/notes.rs` | absent_since, the recorded index | drop_orphans, follow_rename, migrate_note | moves notes and carried state between names |
| note cache | `sync/notes.rs` | the last reading and the file's identity | with_owned, remember | under every reading of a note |
| topology | `topology.rs` | one reading; the device facts cached per index | from_links, anatomy, reach, classify, autodetect, physical_functions | gives "behind" and "wire" |
| card limits | `daemon.rs`, `drivers.rs` | max_macs_per_card | apply_card_limits, judge, card_filter | the valve's limit |
| netlink | `netlink.rs` | sequence numbers, buffers | run_dump, request_one, set_self_fdb, parsers, noise filter | everything |
| configuration, status, hash | `main.rs`, `hash.rs` | - | parsing, printing | - |

What is hard here: several processes over one file and one card with a lock
that a crash releases; crashes between the note's write and the card's; reads
outside the lock; a driver answer that goes stale without an announcement;
memory that must survive a restart but must not revive what the wire took out;
a card at its limit; notes found by a name that interfaces take and leave;
directories read by name while names change; answers that arrive after the
question has been given up; a loop in which a failed pass, a lost notification or a
signal must neither be forgotten nor turn into a spin. `PROJECT.json` lists
these as hazards, each with its line and the properties that would catch it.

## Modules

    Ledger              what the ownership protocol promises
    Ownership           the protocol: note, card, lock, processes, crashes
    Ownership_proofs    its theorems
    Daemon              the loop: schedule, waits, signals, losses
    Daemon_proofs       its theorems
    Filter              what a pass and a batch decide; the memory file
    Filter_proofs       its theorems
    Rename              notes under renames, departures and re-used names
    Rename_proofs       its theorems
    NoteCache           the file of a note and the copy a process keeps of it
    NoteCache_proofs    its theorems
    Topology            a reading of the interfaces, and the pairs made of it
    Topology_proofs     its theorems
    Cards               the limits of the cards in a reading (extends Topology)
    Cards_proofs        its theorems
    Netlink             dumps, questions and changes over one socket
    Netlink_proofs      its theorems
    MC*                 instances for TLC

The modules look at the same program from several sides and each takes the
others' part as an abstraction: `Ownership` lets the wanted set be anything
(`Wants`) and interleaves every write; `Filter` decides the wanted set and writes
in one step; `Daemon` knows neither and schedules. `Rename` has what `Ownership`
leaves out, several interfaces and names, and makes one registration or removal
one step. Beneath them, `NoteCache` justifies that a reading of the note is the
file's content, `Netlink` that a dump or an answer is one moment's truth or a
refusal, and `Topology` gives the verdicts `Filter` calls behind, wire and a
function's own, and `Cards` its `Limit`.

### Ownership

State: `card` says per address whether the entry is absent, ours or somebody
else's; `lines` and `open` are the note (finished lines, and a last line without
its newline); the lock; and per process a stage and the sets its local
variables hold. A pass dumps, reads the note, registers (`RegisterNote`, then
one `Add*` per address, then `RegisterEnd`), retires what is stale
(`RetireLock`, one `Delete*` per address, `RetireEnd`) and merges. A batch
reflects, sheds and registers. A flush and a check have their own steps. One
`set_self_fdb` or one file write is one step, so another process can come
between any two, except where the lock forbids it. Faults are chosen by the
constant `Faults`: crash anywhere, unreadable note, failed rewrite, refused or
torn append, refused add or delete, an acknowledgement that is lost, other
people's writes, and a driver that clears its list.

A crash followed by somebody adding the same address by hand makes that entry
look like ours; the code cannot tell either, and `RemovesOnlyNoted` therefore
speaks of the note and not of who put an entry there.

### Daemon

State: `due`, `since` (the last pass), `trigger`, the failure count and brake,
the queue of notification kinds, `lost`, the signal flags and the pipe, and
whether the carried driver answer is stale (`stale`) and really out of date
(`answer`). Every branch of `daemon_loop` is an action. Time is counted in ticks;
`Floor`, `Settle`, `Retry` and `Grace` stand for 200 ms, 5 s
(`AGEING_SETTLE`), 5 s (`RETRY_AFTER`) and the daemon's orphan grace of 60 s, and the
proofs hold for any values. `unseen`/`seen` follow a
notification from its announcement to the completed pass that read the state
after it; `last` remembers whether a pass was the last thing that happened.

### Filter

One uplink that is its own card. State: where the bridges hold each address
(`fdb`: behind a port, on the wire, or both in different VLANs), the ports, the
functions' addresses, other people's entries; the pending notifications; the
card, the note and the memory file; and what the process carries. A pass is
`PassDump` (the reading) and `PassApply` (asking the driver if need be, deciding,
writing, remembering) or `PassRefused`; a batch is `BatchTake`, `BatchReflect`,
`BatchDecide`, `BatchCommit`; what the last steps of the two write is
`PassWrites` and `BatchWrites`. The world moves between these steps. Asking the
driver and writing are one step in a pass because a change of the functions
after the answer has the same effect before and after the write. Events lost on
the way are `Daemon`'s subject; here a batch may come arbitrarily late.

A pass stamp is `max(clock, previous + 1)`; whether two passes can fall into one
reading of the clock is a fault (`"quick"`). `theirs` (what the functions have
owned since the pass or batch began) and `guest` (what has become of an address:
registered, seen by a pass, moved away) are history
variables. `Pinned` is empty in the runs.

### Rename

State: the names interfaces wear, which of them sit under a bridge, what we and
others put into each one's filter; per name the note and its interface record;
what the process has: its copy of the records, the absences it has seen
(`absent_since`), its pairs, and the pass under way; and a `--flush` (`fl`): its own
reading, and the notes it still has to visit. A pass reads (`PassBegin`),
sweeps the noted names in order - `NoRecord`, `SweepFollows` (a rename: the note
migrates, or waits), `SweepSettles` (no uplink any more, after the grace) - and then
visits its pairs: where the record names another interface `PairReused`, or `PairWaits`
if the migration is refused, else `PairOpens` and `PairWrites`. A batch
(`FastRegisters`, `FastReflects`) works from the pairs of the last pass. A flush
(`FlushBegins`, `FlushVisits`) settles one note per step, beside the daemon.
Interfaces are renamed, leave and appear between any of these steps, and change
bridges between passes.

Everything that writes may fail. With the fault `"refuse"` a note cannot be read, or
not be written to: `migrate_note` then answers false in one of two ways (`FollowWaits`), a
registration is held back with the record written or not (`Refused`), and what was taken out of the
card stays on the note. With `"record"` the record alone cannot be written
(`Recordings`), and the lines go ahead without it. `"delete"` are removals the card
refuses, `"crash"` deaths, also between the writes of a migration (`MigrateCut`),
`"flush"` a flush while no daemon runs, and `"beside"` one at any time. `Reached` is
what a flush that started now would make of a note; OnRecord is stated with it.
`exposed` is a history variable: the two interfaces of which, after a refused migration,
one has the other's note under its name (src/src/sync/mod.rs:1965). The uplinks are
autodetected.

### NoteCache

State: the file (inode, lines, an unfinished tail, the time of its last write in
ticks of a coarse clock) and the copy with the identity it was read under. A look
is two stats around a reading (`LookStats`, `LookReads`, `LookAgain`), each a step of
its own; `append_owned_locked`, `unnote_locked` and `save_owned_merged` are a look under the
lock followed by the write and by what is remembered of it. Others replace,
append to, tear and remove the file, under the lock, between any two steps.

### Topology and Cards

A reading is one dump and then, card by card, the directory's index, its number
of functions, its facts and its index again, all found by name, while interfaces
are renamed. Facts are kept for good per index and read again when a name in
them no longer resolves. What is asked of a reading - `reach`, `anatomy`, `autodetect`,
`exclusions`, `filter_carrier` - is operators, and the properties compare them with
reachability over the interfaces as they really are (`CardsAt`, `OneSwitch`).
`Cards` adds the driver table, a virtual function's trust and a physical function
that may not answer. One run has the renames in a plain wiring and every
wiring of the small host at rest (`Plain`, `Wirings`).

### Netlink

State: the kernel's table and functions, its dump under way, the queue of the
socket, answers still to come, and the request in hand: its sequence number,
attempts, buffer. A dump is `DumpSend`, then its messages as they are read, until
`DumpDone`, `DumpFailed`, an interruption or a buffer that is too small, which drain
the queue and try again up to `ATTEMPTS`. `truth` is a history variable: what the
kernel answered to the request in hand, each time it was asked.

## Runs

| run | question | instance |
|---|---|---|
| own_daemon_flush | daemon beside `--flush`: NoOrphan, FlushIsClean, Inv, implements Ledger | 2 addresses, all faults but torn |
| own_check | `--check` costs nobody a finished line | daemon + check, torn appends |
| own_converge | Converges: two passers settle on the wanted set; LinesHeal: a line without an entry is retried or settled; RemovesOnlyNoted: only noted addresses are taken out on the way | from any aftermath |
| loop_safety | distrust, pass rate, brake | all kinds of notification and fault |
| loop_answers | every announced change is answered by a later completed pass; a termination signal ends the loop | refused passes, failed waits, losses |
| fil_guest | guests stay through silence and restart, functions' addresses stay out, what moved to the wire stays out | 1 address, roomy card; crash, unreadable note, refused adds and removals, driver reset |
| fil_valve | the pressure valve, in the pass and in the batch | 2 addresses, 1 usable slot, other people's entries, refused questions, failed saves, a port that goes |
| ren_follow | OnRecord: every entry of ours has a line that leads a flush back to it; OthersStay: a re-used name costs its new wearer nothing | 2 interfaces, 2 names; crash, refused notes and migrations, failed removals, a `--flush` beside the daemon |
| topo_read | facts are a card's own; no two pairs claim an address; the cable's addresses are no guest's; functions are excluded; limits are held | 4 cards (2 of them functions of one), 2 bridges, a VLAN, a bond, every wiring, 3 orders of names |
| net_answers | DumpIsWhole, AnswerIsOwn, AckIsOwn | 2 entries, 1 function, 2 attempts, 3 requests; late and extra answers, failures, strangers |
| note_cache | CacheIsTruth, AnswersAreTrue, LinesSurvive | 2 addresses, 2 operations beside 2 writes and a torn one, 2 instants to a tick |
| own_merge_race | expected to fail: see Disagreements | daemon + `--once` |

Bounds. In `Ownership` two addresses are enough to have one address's
line endangered by the other's append, merge or flush, and two processes to
have every race of two. In `Daemon` the durations are 1 and 2 ticks: what counts is
their order, and the proofs cover all values. In `Filter` addresses interact only
through the capacity and through whether the driver is asked; runs about one
address's fate use one, the valve uses two and a card with one usable slot.
`MaxStamp` = 3 leaves room for a pass that sees, one that keeps and one that
surrenders, with a clock that may stand still for many steps; `Ageing` = 1.
In `Rename` two interfaces and two names are what a swap, a re-used name and a
migration onto a name that is taken need; one naming change may fall between
two readings of passes (`Burst`; two are under Disagreements), and a rename does not
take a name under which another's note stands (`Reuse`; a new interface may). Names do
not change while a flush is at work, or after one has left the process with a record
that is no more (`Overlap`, `Followable`), and a flush begins where no name has changed since the
pass's reading; what happens otherwise is under Disagreements.
An interface changes bridges only between passes (`Rebridge`): a pass does not ask again
who is under one. The run has 1.2 million states up to the exchange of the interfaces. With `Overlap` and no
`"beside"`, and with three interfaces under `{"refuse", "crash"}`, TLC finds no
violation either, of the properties or of the invariant behind the proofs. In
`Topology` one rename falls into a reading (`Burst`), and a name given up by the
first card goes to nobody (`Freed`). `Netlink`'s three requests are a question, one
that is answered by its predecessor's late answer, and one more; a second
attempt at each is the retry under the same number. `NoteCache`'s two instants
to a tick make a write and a reading share a timestamp, and three instants have
a tick pass.

Fairness. `Daemon`: weak fairness of the loop's own progress and of the clock (a
process that is scheduled) but of no failure - a poll that fails wakes the loop,
and fairness of it would hide a lost wake-up -, strong fairness of a pass's beginning and of its completion: a kernel that is
asked again and again does answer some time - nothing else could make a
guarantee out of a retry. `Ownership`: weak fairness of each passer's steps,
strong fairness of taking the lock (`flock` queues, and holders leave) and of
the dump (a daemon that stays up passes again). The other modules have no
liveness: their clocks, renames or requests are bounded.

### Disagreements

One run shows the code doing what a comment says it does not (`findings` in
`PROJECT.json` quotes the lines):

* own_merge_race: the merge after `retire` is a lock section of its own; a
  `--once` between the two loses its line, and its entry is an orphan.

The same modules, with the constants changed as said, show more of the kind:

* own_check with NoOrphan between checks: a pass between a
  check's note and its card write settles the line through ENOENT, and a check
  that is killed then leaves an orphan (`note_check_probe` says a pass heals it).
* own_daemon_flush with `"torn"`: a line torn exactly before its newline counts
  as a line until the next append cuts it away; its entry is then an orphan.
  `NoteCache` shows the same file with `"whole"` and two tears.
* RemovesOnlyNoted beside a flush or a check, where others write the card as well:
  what a batch retires was read before the lock; after the other process it may be
  somebody else's entry.
* loop_safety with an uplink that has left its bridge (`"away"`): nothing schedules
  the pass that ends an orphan's grace - `uplink = "away" ~> (uplink = "here" \/ ~noted \/ stop)`
  fails -, so on a quiet host a bridge that was taken apart is not tidied
  (src/src/main.rs:953 has it "tidied within a minute").
* fil_guest without `Crash`'s forgetting of what is only "registered": the port a batch
  records for a new guest is not written down (src/src/sync/mod.rs:2662), and a
  restart before the next pass forgets it (the comment at 2810 has the port noted
  for the sake of a daemon that dies before the next dump).
* fil_valve with `"quick"`: a pass stamp ahead of the clock lets a batch surrender
  the address it registers, which `shed_keeps` says can never happen. With
  `"read"`, a pass or batch that cannot read its note leaves the card as it is, its
  keeps included, and NewOutranksQuiet fails.
* fil_guest with `"refuse"`: a reflection before the first completed pass leaves
  the file's memory alone (`save_ports` returns), and a removal that failed there
  comes back as a keep. With `"flap"`: between a batch's reading back the card and
  its additions the driver clears its list, and an address that counted as
  present is put back on the carried answer.
* ren_follow with `Burst` = 2: the batch stamps the note of a name as its own
  interface's without asking whose it was (src/src/sync/mod.rs:2703), and the
  entries of the one before are off the record; OthersStay fails likewise with
  `Reuse` and two addresses. Configured pairs, which no pass recomputes, have the
  same window from one renaming on.
* ren_follow without `exposed`: where the pair loop cannot move another interface's note
  (`continue; // waits`, src/src/sync/mod.rs:1965) the pair is left in the list, and the next
  batch loads the note by the name alone: a reflection takes the new
  wearer's foreign entry out on the strength of the old one's line (2470), and a
  registration stamps the note as the new wearer's (2703), which puts the old one's
  entries out of a flush's reach. One naming change is enough. docs/internals.md:213
  says that every path that acts on a note found by name first holds the recorded
  index against the interface, and that a note is never applied to the newcomer. Who is in no such
  pair is not touched, and this is what OnRecord and OthersStay say.
* ren_follow with `"record"`: OnRecord and OthersStay fail, as the lines go into a note
  that has no record or the former one; src/src/sync/notes.rs:158 calls the record
  best-effort, and says what is lost with it. (Line 159 has a failed write
  cached; lines 168-183 do not cache it, and the model follows the code.)
* ren_follow with `Overlap`: a flush removes a note with its record; a daemon that has
  stamped it before does not write the record again, as its copy still says so
  (src/src/sync/notes.rs:162), and a line it appends then has none beside it. The name
  leads to the interface, until it is renamed: then the note is left alone
  for want of a record, and OnRecord fails. A flush that has listed its notes and whose reading is
  older than an interface counts that interface's entries as gone and removes their note (src/src/sync/mod.rs:2867).
* topo_read with `Physfn <- TwoPorts`: the cached list of a function's interfaces
  is read again only when a name in it is gone or it is empty
  (src/src/topology.rs:478), so the second port of a card that appears later is
  missing from it (the comment at 185 has the names checked against the reading). With
  `Freed` and `Movable` including the first card, a name that changes hands keeps
  the list resolving to the wrong card; with `Burst` = 2, a rename away and back
  between the two checks keeps "no driver, no function"; and the number of
  functions is not checked again after it is read.
* topo_read with a third bridge that has a VLAN of each of the other two among its
  ports, and a function of the card in each of those: `stacked_related` compares the two
  pairs' bridges with each other only (src/src/topology.rs:848), and neither is stacked
  on the other; both pairs are taken, and both claim what the third bridge learns,
  which src/src/topology.rs:842 says must not be. OneClaim fails in the first reading; the
  proof of it came upon this, and its hypothesis `Unbraided` excludes it.
* topo_read, stronger statements that fail: an interface `autodetect` skips because
  another carries its segment is not always carried by it
  (`\A i \in Candidates(topo) : \E p \in pairs : OneSwitch(p[1], i) /\ Claims(p, Nobody, BridgeOf(topo, i))`),
  WireStaysOut through a second bridge that is joined to the first by a leg of the
  card, and a card whose driver could not be read in one pass has the assumed
  limit for that pass.
* note_cache with `"unnote"`: `unnote_locked` asks whether the note was readable before
  it reads it (src/src/sync/notes.rs:858), and reports a line as taken back
  that is there; with `"inodes"` (an inode number re-used within a tick, at the same
  size) a copy outlives its file; with `"lock"` a line is lost, which `locked` says.

One more is plain from `Daemon` without a run of its own: a pass is done whatever
the card refused it (`PassDone`), and a pass that is done leaves nothing due, so
a refused addition or removal is retried by the next event's pass, not by a
timer (src/src/sync/mod.rs:1452 says that it "keeps its line and is retried").

## Proofs

TLAPS checks these for every value of the constants. The assumptions on the
constants are the named `ASSUME`s of the modules: finite sets of addresses and
entries, durations and bounds that are naturals in order, faults and kinds that are
among the listed ones, a clock that starts at 1. Whatever a theorem needs beyond
them is a named operator in its module and is listed here with the reason. Every
inductive invariant was checked by TLC, as an invariant of a run, before it was
proved.

* `Ownership_proofs`: `TypeCorrect` without further hypotheses. With `Orderly` - no
  check, no torn line, any number of flushes, and one daemon or `--once` (`OnePasser`)
  or any number of them that want the same (`OneMind`) - `InvHolds`, and from it
  `NoOrphanEver`, `ImplementsLedger`, `FlushLeavesNothing`; `NoOrphanAfterwards` has the
  same from any state a crash can leave. `NoOrphan`
  alone is not inductive: an add in progress must know that its address is on
  the note and that no other process has the lock (`LockInv`, `AddInv`), a
  removal that what it will forget is out of the card (`DeleteInv`), and the
  merge that what it takes off is gone (`MergeInv`). The lock says nothing of the
  last: it was let go between the removal and the merge. What is needed is that nobody
  adds in between what the merge will take off the note (`NoRival`), which is so
  where one process passes, and where those that do want the same: what one
  registers all want, what a pass retires nobody does (`MindInv`). own_merge_race
  shows that two that want different things make an orphan.
  - `FinishedLinesAreKept` (FinishedLinesStay) under `OneWriter`: one passer beside any
    number of flushes and checks, and any fault, torn appends included. A check
    writes the card without the lock, so NoOrphan and what it rests on are not to be had;
    `LineInv` asks less of a section: what it takes off the note is off the card, but for
    the probe, or its own line of a moment ago (`TakenOff`).
  - `OnlyNotedIsRemoved` (RemovesOnlyNoted) under `Alone` - one passer, others'
    programs beside it - or under `Unshared` - whoever is `Orderly`, and nobody else
    writes the card; a flush and others' programs together make it false
    (Disagreements). Unshared it follows from
    NoOrphan, what the card holds being ours (`AllOurs`). Alone it cannot: an entry on
    record may be somebody else's. `AloneInv` follows the lists instead: what is
    owned, kept or to be removed was read from the note and its lines are still there
    (`PassListed`, `KeepListed`), because all that a section takes off is its own fresh
    line, which is in none of these lists (`AddListed`), or what it has just removed.
  - `OnlyNotedAtRest` (the same, of own_converge's `RecoverySpec`) under `AtRest`: one mind, at
    most one daemon, nobody else who writes the card now, whatever it held when
    they came up. Several processes then work from lists of their own, and what is
    listed may be off the record by now; but what nobody wants and has left the card does not come
    back (`ListsHold`, `LetGo`), and of what is wanted only the daemon's keeps are ever
    removed, whose lines no other process takes off: a pass adds only what its dump
    did not have, and so takes no line of its own back (`DumpHolds`, `KeepsHold`). A
    second daemon's batch could.
* `Daemon_proofs`: `TypeCorrect`, `DistrustHolds` (inductive as it stands),
  `PaceHolds` and from it `PassesPaced`, `BrakeHolds` and from it `RecoveryPaced`. The
  pass rate needs `PaceInv`: a deadline ahead keeps the floor and one that does
  not belongs to an urgent pass that no batch can rename before it starts. `tried`
  is a history variable, the time since a pass last ended or was refused; that
  `last_pass` keeps to it is part of the invariant. The
  brake needs `BrakeInv`: pause and time since the last pass add up.
* `Netlink_proofs`: `TypeCorrect`, `DumpsAreWhole`, `AnswersAreOwn`, `AcksAreOwn`, all
  without hypotheses. Not even the types are inductive alone: what a dump collects
  are entries of the table only because nothing else under its number is read
  from the queue. The argument of `Inductive`: the number grows with every request, so
  what is queued or late under an older number is never current (`Numbered`,
  `Order`); the kernel begins a dump only when the socket's queue has been drained
  and has at most one message of it ahead (`Dumping`: what is read, queued and
  left is the table, unless an interruption is flagged); a question asked again
  under its own number is answered twice, but both answers are true and only a
  trailer, which comes after its answer, can be left over (`Asking`); a change is
  one message under a number of its own (`Setting`).
* `NoteCache_proofs`: `TypeCorrect` without hypotheses. With `Turns` (writers take
  the lock and a file's number is not re-used, the two things the code relies on
  and cannot see) and `OneTear` (at most one line torn exactly before its
  newline) `CopiesAreTrue` and `LinesStay`, and `AnswersHold` where moreover the
  reading inside `unnote_locked` does not fail; each hypothesis excludes what is
  under Disagreements. `CacheIsTruth` is not inductive alone: it needs that a
  process between two stats holds what the file was when its inode and size were
  seen (`Looked`, `Unread`), that within one inode a file only grows, so that the
  two identify its contents except for a torn tail that was cut away (`Torn`,
  `Copies`), and that a write under the lock is to the file that was read (`Aim`,
  `Written`). `OneTear` came out of the proof: with two, a second line of the same
  length torn within one tick gives the file the size, the time and the number of
  the copy, and TLC shows CacheIsTruth violated.
* `Rename_proofs`: `TypeCorrect` without hypotheses. `AllOnRecord` and `OthersAreLeft`
  under `Calm`, for any number of interfaces and names, with migrations refused or
  cut by a death, failed removals and unreadable notes. `Calm` has four parts, and Disagreements shows
  what happens without each: no interface is renamed to a name under which another's note stands;
  at most one naming change falls between two readings; a record can be written where
  its note can (`"record"`); and a flush runs while no daemon does (`"beside"`). The last is
  wider in ren_follow, where a flush also runs beside the daemon. Names may change
  during a flush in the theorems (`Overlap` is free). Both properties except the interfaces
  in `exposed`.
  OnRecord is not inductive: a note can be let go of, or re-recorded, only if the
  lines in it are not some third interface's. The invariant says whose lines a note has:
  the process's copy of a record is the record (`Copies`); a record is of an interface that was
  asked to take every line beside it, and is only missing where there are no lines
  (`Filed`); who wears a name under which
  there are another's lines has just come and is itself on no record, so that
  nothing of its own is under another name (`Newcomers`); in a pass at most one
  interface has moved on from the reading, and an interface on record that the
  reading does not have is gone, filter and all (`Passing`), and the same of a flush's reading
  (`Flushing`); the notes the pair loop
  has been through are their wearers' (`Visited`), and between passes so is the note
  of every pair, which is what makes a batch that stamps without asking harmless
  (`Resting`) - each but for `exposed`; and what is ours is in a note recorded as its
  interface's (`OnFile`), from which OnRecord follows (`InReach`): on record under a name, a flush finds the
  interface by the name or by the record. The deaths need no special care: each prefix
  of a migration's writes already satisfies it, and a migration that is refused is one
  of these prefixes.
* `Filter_proofs`. All of it holds for any addresses, ports, card sizes and
  readings of the clock.
  - `TypeCorrect`, without hypotheses, with the running pass's stamp below its
    bound as a strengthening.
  - `FunctionsAreLeftAlone` (NeverTakesVf) where the driver does not clear its list
    between deciding and writing (`Steady`). Invariant `Watched`: what is known to
    belong to a function since the step began is known to the carried answer, or
    what is added is in the card already.
  - `SpeakersStay` (SpeakersAreRemembered) where no two passes fall into one reading
    of the clock (`Paced`). Invariant `Clocked`: no stamp is ahead of the clock.
  - `ValvesMakeRoom` (NewOutranksQuiet) where nothing that frees or fills the card
    fails (`Smooth`): a removal that the card refuses leaves it overfull whatever the
    valve chose. Invariants `Clocked` and `Fitting` (the keeps are in the card, and the
    card is as it was read); the rest is counting.
  - `GuestsStay` (RegisteredStays) on a card with room for everybody (`Roomy`; the
    valve surrenders guests by design) and `MoversStayOut` (AwayStaysOut), both where
    the driver answers and the memory file can be written (`Recorded`). Crashes, refused
    additions and removals, unreadable notes and resets are allowed. Invariants
    `Grounds` (file and memory agree on what matters to a restart), `Guests` (what a guest's port
    memory says at each stage) and `Movers` (one that has left is in no memory).
    Without `Recorded` a batch that comes before the first completed pass writes nothing
    to the file (Disagreements), and what it removed or moved is still in it.

* `Topology_proofs`. The hypotheses are at the end of `Topology`; all of them are
  about the host, and `MCTopology` has TLC check that they hold of the hosts of
  the runs.
  - `TypeCorrect`, without hypotheses.
  - `CardsAreRight` (UndisturbedIsRight) under `Calm`: the interfaces of a physical
    function are there from the start, their former names go to nobody, and a
    reading meets one rename at most; each of these is under Disagreements. The
    property speaks of a reading no rename met but is carried by what earlier,
    disturbed readings kept, so it is not inductive. The invariant (`Inductive`):
    facts that are kept name a card's physical function as it is called or by
    a name nobody will wear again, which the next reading notices (`KeptIsSound`,
    where one rename cannot get past both checks of the directory); and an
    undisturbed reading has the right facts of the cards it has been through
    (`Still`, `SoFar`).
  - `HostIsExcluded` (FunctionsAreExcluded) under `Calm` and `Wired`, `WireIsNoGuest`
    (WireStaysOut) under these and `Bonded`. `ReadOff` says what the pairs and the
    reading are of: some wiring of the host, with every card's facts right. From
    there it is graph theory. A walk (`Flood`) is defined by a recursive function on a
    number of layers; `FloodFacts` shows it to be the least set that has its roots and
    is closed under its edges, by induction over sets of numbers, for which the
    library's well-foundedness of `<` is enough: no operator has to be handed to a
    theorem. `ChainFacts`, `CarrierFacts`, `InsideFacts`, `MastersFacts` and
    `SubtreesNest` then say what each of the walks finds, and `CardsAreInside` and
    `FunctionsFaced` that the walk the code takes down from an interface meets the
    cards that `CardsAt` finds. `Wired` is the kernel's: only bonds and
    bridges have ports, and no VLAN interface stands on itself. `Bonded` - bonds
    are made of cards, and a member without functions carries no VLAN beside the
    bond's - is needed because `physical_functions` does not count such a member as a
    card of its own, and a VLAN on it, bridged, would face the pair's card unseen.
  - `OneClaimEach` (OneClaim) under the same and `Unbraided`, which excludes the third
    bridge of Disagreements and nothing else: no bridge is stacked on two that are not
    stacked on each other. It is a condition on the readings, hence
    `Spec /\ []Unbraided => []OneClaim`; in topo_read there are two bridges and it
    always holds. `TakenMeets` says what the order of the names does: of two that share
    a segment and a card the later is not taken.
* `Cards_proofs`: `CardsAreSpared` (LimitsAreHeld) from `ReadOff`, under `Calm`, `Wired`,
  `Bonded`, and two facts about data: `TrustHelps`, that a trusted function holds no
  less than an untrusted one (of the table in src/src/drivers.rs the one trusted
  row with a number is bnxt_en's, 4 like its untrusted one), and
  `Numbered`, that a physical function has one function to a number. A function that is
  not told trusted although it is only gets the smaller number (`ToldIsTrue`,
  `JudgedSafely`); a bond gets the smallest of those of all the cards `CardsAt` finds in
  it (`MembersJudged`, `HoldsSafely`).

Only model-checked:

* everything temporal under fairness (LinesHeal, Converges, ChangesAreAnswered,
  StopIsHeeded), which is outside the prover's reach, and with it ENABLED.

Every other property of the passing runs is stated by a theorem, under the
hypotheses given above.

## Not modelled, and the plan

* Several uplinks on one card (VLANs of one function). `Filter` has one uplink that
  is its own card, and a sister uplink is to it one more owner of foreign entries.
  By the code, each uplink of a pass measures the one dump and each of a batch the
  one read-back (src/src/sync/mod.rs:2077, 2672), and surrenders only its own keeps: what a
  sister adds in the same pass counts from the next one on.
* Of renames: the port memory that moves with a note and the clean-up of memory
  files whose note is gone; pairs that are configured; an unlink that fails in
  `remove_note`; a record that is there but cannot be read. Of a flush beside the daemon: the gap between its
  reading and its list of notes, its death between two visits or within one, and that it may
  fall between a stamp and the append the stamp precedes (`Ownership` has the windows
  of a registration, with one name).
* Of the loop: `DRAIN_CAP` (src/src/netlink.rs:910). A batch of `Daemon` is the whole queue;
  in the code it is at most 256 datagrams, and the rest is the next wake's batch.
* Of the exclusions: a function that is missing from a reading because a rename met
  it. FunctionsAreExcluded speaks of undisturbed readings.
* Of the topology: pairs from the configuration, and why an interface was
  skipped. Of the card limits: the operator's own number, the messages, and the
  numbers of the table.
* Configuration and command line parsing, status output and journal wording: no
  state depends on them. The address hasher, for which sets and functions stand.
  Byte formats of netlink messages and the classic BPF program of the noise
  filter: pure conversions without state, whose inputs are bytes.

Next are the hypotheses: FinishedLinesStay for several passers beside a check; the
guest's and the mover's theorems of `Filter` with a memory file that cannot always be
written; and OneClaim and WireStaysOut without `Bonded`, where the code counts a
member without functions as no card.
