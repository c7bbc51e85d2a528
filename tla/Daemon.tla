------------------------------- MODULE Daemon -------------------------------
(***************************************************************************)
(* The daemon's loop (src/daemon.rs: daemon_loop) and its schedule: when a *)
(* pass runs, what a batch of notifications buys, what a failed wait, lost *)
(* notifications, a refused pass and the two signals do to it, and which   *)
(* driver answer about the virtual functions the next pass may believe.    *)
(*                                                                         *)
(* There is no timer: a pass is bought by an event, a failure or the       *)
(* operator.  Deadlines are kept as the time left and the last pass as the *)
(* time since, both capped, so time needs no bound.  What a pass and a     *)
(* batch do to the filter is in Ownership and Filter.                      *)
(***************************************************************************)
EXTENDS Integers

CONSTANTS
  Floor,     \* 200 ms: the least distance of a pass a batch bought
  Settle,    \* AGEING_SETTLE: what a deletions-only batch may wait
  Retry,     \* RETRY_AFTER
  Grace,     \* orphan_grace
  Kinds,     \* what is announced, see AllKinds
  Claims,    \* the claims to a pass that are watched, see AllClaims
  Faults     \* what else happens, see AllFaults

\* "refuse"  the kernel will not describe interfaces, table or functions
\* "wait"    poll fails
\* "lost"    the kernel drops notifications (ENOBUFS), or one outgrows the
\*           buffer
\* "away"    the device stops being an uplink, and becomes one again
AllFaults == {"refuse", "wait", "lost", "away"}

\* A notification is about an address of ours or one to register ("learn"),
\* somebody else's address ("others"), an address the bridge forgot ("age"),
\* an interface ("link"), or one that carries virtual functions ("vf").
AllKinds == {"learn", "others", "age", "link", "vf"}
NewNeigh == {"learn", "others"}
Links == {"link", "vf"}

\* What a pass has to answer: the operator's knock too, and nothing that is
\* somebody else's.
AllClaims == (AllKinds \ {"others"}) \cup {"operator"}

ASSUME Durations ==
  /\ Floor \in Nat \ {0} /\ Settle \in Nat /\ Retry \in Nat /\ Grace \in Nat \ {0}
  /\ Floor <= Settle /\ Floor <= Retry

ASSUME Choices == Kinds \subseteq AllKinds /\ Claims \subseteq AllClaims /\ Faults \subseteq AllFaults

Triggers == {"start", "operator", "recovery", "lost events",
             "interface change", "forwarding change"}

\* Those that no batch asks for.
Urgent == {"start", "operator", "recovery", "lost events"}

VARIABLES
  at,        \* where the loop is
  due,       \* time left to the deadline, or Never
  since,     \* time since last_pass
  tried,     \* time since a pass last ended, well or not (history)
  trigger,   \* why the due pass runs
  failures,  \* wait_failures
  pause,     \* what is left of the brake
  last,      \* whether there is an earlier reading of the interfaces
  queue,     \* notifications not yet drained
  lost,      \* the socket holds an error instead
  stop, hup, pipe,   \* STOPPING, RESYNC, a byte in the stop pipe
  stale,     \* vf_stale
  answer,    \* the carried driver answer, against the announced changes
  unseen,    \* claims no pass has read
  seen,      \* those the running pass has read
  uplink,    \* whether the noted device is an uplink
  absent,    \* time since it was first missed (absent_since), or Never
  noted      \* whether it has a note

schedule == <<due, since, tried, trigger>>
signals == <<stop, hup, pipe>>
vf == <<stale, answer>>
orphan == <<uplink, absent, noted>>
vars == <<at, schedule, failures, pause, last, queue, lost, signals, vf, unseen, seen,
          orphan>>

Never == -1
Longest == IF Settle < Retry THEN Retry ELSE Settle

Stage == {"top", "operator", "due", "passing", "done", "polling", "recv",
          "paused", "stopped"}

TypeOK ==
  /\ at \in Stage
  /\ due \in (0 .. Longest) \cup {Never} /\ since \in 0 .. Longest /\ tried \in 0 .. Longest
  /\ trigger \in Triggers
  /\ failures \in 0 .. 2 /\ pause \in 0 .. Retry
  /\ queue \subseteq AllKinds
  /\ last \in BOOLEAN /\ lost \in BOOLEAN /\ stop \in BOOLEAN /\ hup \in BOOLEAN /\ pipe \in BOOLEAN
  /\ stale \in BOOLEAN /\ noted \in BOOLEAN
  /\ answer \in {"current", "outdated"}
  /\ unseen \subseteq Claims /\ seen \subseteq Claims
  /\ uplink \in {"here", "away"}
  /\ absent \in (0 .. Grace) \cup {Never}

Init ==
  /\ at = "top"
  /\ due = 0 /\ since = 0 /\ tried = 0 /\ trigger = "start"
  /\ failures = 0 /\ pause = 0
  /\ last = FALSE /\ queue = {} /\ lost = FALSE
  /\ stop = FALSE /\ hup = FALSE /\ pipe = FALSE
  /\ stale = TRUE /\ answer = "outdated"
  /\ unseen = {} /\ seen = {}
  /\ uplink = "here" /\ absent = Never /\ noted = TRUE

-----------------------------------------------------------------------------
(* Schedule *)

Completed == since' = 0 /\ tried' = 0 /\ due' = Never /\ UNCHANGED trigger

\* Mutant: an attempt that failed does not count for the pacing.
RetrySoonUnpaced == tried' = 0 /\ due' = Retry /\ UNCHANGED <<since, trigger>>

\* Mutant: a refused pass is dropped.
RetrySoonDropped == since' = 0 /\ tried' = 0 /\ due' = Never /\ UNCHANGED trigger

RetrySoon == since' = 0 /\ tried' = 0 /\ due' = Retry /\ UNCHANGED trigger

AtOnce(why) == due' = 0 /\ trigger' = why /\ UNCHANGED <<since, tried>>

\* (last_pass + wait).max(now), from now.
Deadline(wait) == IF since < wait THEN wait - since ELSE 0

\* The earlier deadline stands, the newer reason names it.
BringForward(d, why) ==
  /\ due' = IF due # Never /\ due < d THEN due ELSE d
  /\ trigger' = why
  /\ UNCHANGED <<since, tried>>

-----------------------------------------------------------------------------
(* The loop *)

Stop ==
  /\ at = "top" /\ stop
  /\ at' = "stopped"
  /\ UNCHANGED <<schedule, failures, pause, last, queue, lost, signals, vf, unseen, seen, orphan>>

Top ==
  /\ at = "top" /\ ~stop
  /\ at' = "operator"
  /\ UNCHANGED <<schedule, failures, pause, last, queue, lost, signals, vf, unseen, seen, orphan>>

\* SIGHUP: now, and believe nothing.  The flag is consumed on read.
Operator ==
  /\ at = "operator" /\ at' = "due"
  /\ hup' = FALSE
  /\ \/ hup /\ AtOnce("operator") /\ stale' = TRUE
     \/ ~hup /\ UNCHANGED <<schedule, stale>>
  /\ UNCHANGED <<failures, pause, last, queue, lost, stop, pipe, answer, unseen, seen, orphan>>

NotDue ==
  /\ at = "due" /\ due # 0
  /\ at' = "polling"
  /\ UNCHANGED <<schedule, failures, pause, last, queue, lost, signals, vf, unseen, seen, orphan>>

\* orphaned: the first pass that misses a device starts its grace, a pass
\* that sees it again ends it, one after the grace takes its note.
Orphaned ==
  \/ uplink = "here" /\ absent' = Never /\ noted' = TRUE
  \/ uplink = "away" /\ noted /\ absent = Never /\ absent' = 0 /\ UNCHANGED noted
  \/ uplink = "away" /\ absent \in 0 .. (Grace - 1) /\ UNCHANGED <<absent, noted>>
  \/ uplink = "away" /\ absent = Grace /\ absent' = Never /\ noted' = FALSE
  \/ uplink = "away" /\ ~noted /\ UNCHANGED <<absent, noted>>

\* run_pass as far as its readings: interfaces, forwarding table and - unless
\* the carried answer may be used and nothing is to be added - the driver.
PassBegin ==
  /\ at = "due" /\ due = 0
  /\ at' = "passing"
  /\ seen' = unseen /\ unseen' = {}
  /\ stale' = FALSE
  /\ \/ ~stale /\ UNCHANGED answer
     \/ answer' = "current"
  /\ Orphaned
  /\ last' = TRUE
  /\ UNCHANGED <<schedule, failures, pause, queue, lost, signals, uplink>>

\* Fails closed: on the readings, or later on the question a growing pass
\* puts to the driver, which it distrusts the carried answer for.
PassRefused ==
  /\ "refuse" \in Faults
  /\ \/ at = "due" /\ due = 0 /\ UNCHANGED stale /\ last' \in {last, TRUE}
     \/ at = "passing" /\ stale' = TRUE /\ UNCHANGED last
  /\ at' = "top"
  /\ RetrySoon
  /\ unseen' = unseen \cup seen /\ seen' = {}
  /\ UNCHANGED <<failures, pause, queue, lost, signals, answer, orphan>>

\* A pass that ran is done, whatever the card refused it.
PassDone ==
  /\ at = "passing" /\ at' = "done"
  /\ Completed
  /\ UNCHANGED <<failures, pause, last, queue, lost, signals, vf, unseen, seen, orphan>>

Rest ==
  /\ at = "done" /\ at' = "polling"
  /\ seen' = {}
  /\ UNCHANGED <<schedule, failures, pause, last, queue, lost, signals, vf, unseen, orphan>>

\* A byte in the stop pipe cuts the wait short and is drained.
WaitSignalled ==
  /\ at = "polling" /\ pipe
  /\ at' = "top" /\ pipe' = FALSE /\ failures' = 0
  /\ UNCHANGED <<schedule, pause, last, queue, lost, stop, hup, vf, unseen, seen, orphan>>

WaitTimedOut ==
  /\ at = "polling" /\ ~pipe /\ queue = {} /\ ~lost
  /\ due = 0
  /\ at' = "top" /\ failures' = 0
  /\ UNCHANGED <<schedule, pause, last, queue, lost, signals, vf, unseen, seen, orphan>>

WaitReady ==
  /\ at = "polling" /\ ~pipe
  /\ queue # {} \/ lost
  /\ at' = "recv" /\ failures' = 0
  /\ UNCHANGED <<schedule, pause, last, queue, lost, signals, vf, unseen, seen, orphan>>

\* Mutant: the wait fails and every failure buys a prompt pass.
WaitFailedUnbraked ==
  /\ at = "polling" /\ "wait" \in Faults
  /\ failures' = IF failures = 2 THEN 2 ELSE failures + 1
  /\ at' = "top" /\ AtOnce("recovery") /\ stale' = TRUE
  /\ UNCHANGED <<pause, last, queue, lost, signals, answer, unseen, seen, orphan>>

\* The first failure buys a prompt pass, from the second on the brake comes
\* first.
WaitFailed ==
  /\ at = "polling" /\ "wait" \in Faults
  /\ \/ /\ failures = 0 /\ failures' = 1
        /\ at' = "top" /\ AtOnce("recovery") /\ stale' = TRUE
        /\ UNCHANGED pause
     \/ /\ failures > 0
        /\ at' = "paused" /\ pause' = Retry
        /\ UNCHANGED <<failures, schedule, stale>>
  /\ UNCHANGED <<last, queue, lost, signals, answer, unseen, seen, orphan>>

\* The brake polls the stop pipe: a SIGHUP's byte is drained and the wait
\* goes on, a stop ends it.
PauseDrained ==
  /\ at = "paused" /\ pause > 0 /\ pipe /\ pipe' = FALSE
  /\ pause' = IF stop THEN 0 ELSE pause
  /\ UNCHANGED <<at, schedule, failures, last, queue, lost, stop, hup, vf, unseen, seen, orphan>>

PauseOver ==
  /\ at = "paused" /\ pause = 0
  /\ at' = "top" /\ AtOnce("recovery") /\ stale' = TRUE
  /\ failures' = 2
  /\ UNCHANGED <<pause, last, queue, lost, signals, answer, unseen, seen, orphan>>

\* Mutant: the lost notifications buy a pass that believes what it carries.
RecvLostTrusting ==
  /\ at = "recv" /\ lost /\ lost' = FALSE
  /\ \E left \in SUBSET queue : queue' = left
  /\ at' = "top" /\ AtOnce("lost events") /\ UNCHANGED stale
  /\ UNCHANGED <<failures, pause, last, signals, answer, unseen, seen, orphan>>

\* An error while draining: what was drained before it is gone with it.
RecvLost ==
  /\ at = "recv" /\ lost /\ lost' = FALSE
  /\ \E left \in SUBSET queue : queue' = left
  /\ at' = "top" /\ AtOnce("lost events") /\ stale' = TRUE
  /\ UNCHANGED <<failures, pause, last, signals, answer, unseen, seen, orphan>>

-----------------------------------------------------------------------------
(* A batch: handle_batch *)

\* What the batch makes of the carried answer.  A message about an interface
\* with functions spends it, and so does any interface message when there is
\* no reading to judge it by; a batch that registers asks where it may not
\* believe, and one whose question fails leaves the answer distrusted.
BatchAsks(batch, read, answered) ==
  LET spent == stale \/ "vf" \in batch \/ (~read /\ batch \cap Links # {})
      asks == read /\ batch \cap NewNeigh # {}
  IN  \/ asks /\ (spent \/ "learn" \in batch) /\ stale' = FALSE /\ answer' = "current"
      \/ asks /\ ~answered /\ stale' = TRUE /\ UNCHANGED answer
      \/ ~(asks /\ spent) /\ stale' = spent /\ UNCHANGED answer

\* Link changes, registrations and reflections want a pass now, deletions
\* when convenient; a batch of somebody else's entries wants none.  Work that
\* could not be done is the pass's.
Urgency(batch, read, answered) ==
  IF batch \cap {"learn", "link", "vf"} # {} \/ ~read \/ ~answered THEN "now"
  ELSE IF "age" \in batch THEN "convenient" ELSE "nothing"

\* The whole queue is one batch.  A batch that could register or that changed
\* an interface reads the interfaces first, the others make do with the last
\* reading; that reading and the questions to the driver can be refused.
Batch ==
  /\ at = "recv" /\ ~lost /\ queue # {}
  /\ \E read \in BOOLEAN, answered \in BOOLEAN, filling \in BOOLEAN :
       /\ \/ queue \subseteq {"age"} /\ read = last /\ UNCHANGED last
          \/ ~(queue \subseteq {"age"}) /\ read /\ last' = TRUE
          \/ ~(queue \subseteq {"age"}) /\ ~read /\ "refuse" \in Faults /\ UNCHANGED last
       /\ ~answered => "refuse" \in Faults /\ read /\ queue \cap NewNeigh # {}
       /\ BatchAsks(queue, read, answered)
       /\ LET urgency == Urgency(queue, read, answered)
              wait == IF urgency = "now" \/ filling THEN Floor ELSE Settle
          IN  \/ urgency = "nothing" /\ UNCHANGED schedule
              \/ /\ urgency # "nothing"
                 /\ BringForward(Deadline(wait),
                      IF queue \subseteq Links THEN "interface change"
                                               ELSE "forwarding change")
  /\ queue' = {} /\ at' = "top"
  /\ UNCHANGED <<failures, pause, lost, signals, unseen, seen, orphan>>

-----------------------------------------------------------------------------
(* The world *)

\* The network changes and the kernel announces it - or drops the
\* announcement for want of room.
Announce(k) ==
  /\ \/ queue' = queue \cup {k} /\ UNCHANGED lost
     \/ "lost" \in Faults /\ lost' = TRUE /\ UNCHANGED queue
  /\ unseen' = unseen \cup ({k} \cap Claims)
  /\ UNCHANGED <<at, schedule, failures, pause, last, signals, stale, seen, absent, noted>>

Change(k) ==
  /\ Announce(k)
  /\ answer' = IF k = "vf" THEN "outdated" ELSE answer
  /\ UNCHANGED uplink

UplinkMoves ==
  /\ "away" \in Faults
  /\ uplink' = IF uplink = "here" THEN "away" ELSE "here"
  /\ Announce("link")
  /\ UNCHANGED answer

\* note_signal: the flag, then the byte.  One step: the handler runs on the
\* loop's own thread.
Hangup ==
  /\ hup' = TRUE /\ pipe' = TRUE
  /\ unseen' = unseen \cup ({"operator"} \cap Claims)
  /\ UNCHANGED <<at, schedule, failures, pause, last, queue, lost, stop, vf, seen, orphan>>

\* Mutant: the flag without the byte.
TerminateSilently ==
  /\ ~stop /\ stop' = TRUE
  /\ UNCHANGED <<at, schedule, failures, pause, last, queue, lost, hup, pipe, vf, unseen, seen, orphan>>

Terminate ==
  /\ ~stop /\ stop' = TRUE /\ pipe' = TRUE
  /\ UNCHANGED <<at, schedule, failures, pause, last, queue, lost, hup, vf, unseen, seen, orphan>>

\* Mutant: a time left that does not stop at zero.
SoonerUnsaturated(t) == t - 1

Sooner(t) == IF t > 0 THEN t - 1 ELSE t
Later(t, most) == IF t # Never /\ t < most THEN t + 1 ELSE t

Tick ==
  /\ due' = Sooner(due) /\ pause' = Sooner(pause)
  /\ since' = Later(since, Longest) /\ tried' = Later(tried, Longest)
  /\ absent' = Later(absent, Grace)
  /\ <<due, pause, since, absent>>' # <<due, pause, since, absent>>
  /\ UNCHANGED <<at, trigger, failures, last, queue, lost, signals, vf, unseen, seen, uplink, noted>>

Progress == \/ Stop \/ Top \/ Operator \/ NotDue
            \/ PassBegin \/ PassDone \/ Rest
            \/ WaitSignalled \/ WaitTimedOut \/ WaitReady
            \/ PauseDrained \/ PauseOver
            \/ RecvLost \/ Batch

Failure == PassRefused \/ WaitFailed

Loop == Progress \/ Failure

World == \/ \E k \in Kinds : Change(k)
         \/ UplinkMoves
         \/ Hangup \/ Terminate \/ Tick

Next == Loop \/ World

Spec == Init /\ [][Next]_vars

\* Time passes, the loop goes on, and a kernel that is asked again and again
\* does answer: nothing here heals a kernel that never does.  No failure is
\* owed: a wait that fails is a way out of it that nothing may count on.
Fairness == WF_vars(Progress) /\ WF_vars(Tick) /\ SF_vars(PassBegin) /\ SF_vars(PassDone)

FairSpec == Spec /\ Fairness

-----------------------------------------------------------------------------
(* Properties *)

\* The carried driver answer is not believed once a change to it has been
\* announced and the announcement taken - or lost: every path that drops a
\* notification, judges it, or fails while asking leaves vf_stale set
\* (invariant 2 rests on it, src/sync/mod.rs: carried_vf_for).
OutdatedIsDistrusted == answer = "outdated" => stale \/ "vf" \in queue \/ lost

\* "Answered with a bounded pass rate": a pass sooner than 200 ms after the
\* last, or after the last attempt at one, is never a batch's - however the
\* batches rename and bring forward what is due.
PassesArePaced ==
  [][at = "due" /\ at' \in {"passing", "top"} /\ tried < Floor => trigger \in Urgent]_vars

\* What makes it so: last_pass counts the attempts too, a deadline ahead is far enough from the last pass, and
\* one that has come without being so is an urgent pass on its way, with no
\* wait - and so no batch that could rename it - in between.
PaceInv ==
  /\ tried = since
  /\ due > 0 => since + due >= Floor
  /\ due = 0 /\ since < Floor =>
       trigger \in Urgent /\ at \in {"top", "operator", "due", "passing", "stopped"}

\* A wait that keeps failing does not become a hot loop of whole-table dumps:
\* from the second failure in a row on, the retry pace lies between passes,
\* whatever signals arrive during the brake.
RecoveryIsPaced ==
  [][at = "due" /\ at' = "passing" /\ failures = 2 /\ trigger = "recovery"
       => tried >= Retry]_vars

\* What makes it so: the brake and the time since the last pass add up to the
\* retry pace unless a stop has cut the brake, and then the top of the loop
\* stops.
BrakeInv ==
  /\ at = "paused" => since + pause >= Retry \/ stop
  /\ at = "recv" => failures = 0
  /\ /\ failures = 2 /\ trigger = "recovery" /\ due # Never
     /\ at \in {"top", "operator", "due", "passing"}
     => since + due >= Retry \/ (at = "top" /\ stop)

\* Whatever the network announces, the kernel fails to announce or the
\* operator asks for, a completed pass has read the state after it - through
\* refused passes, storms that keep bringing deadlines, and losses.
ChangesAreAnswered ==
  \A k \in Claims : k \in unseen ~> (at = "done" /\ k \in seen) \/ stop

\* A stop is heeded wherever it lands: between the check and the poll, in a
\* wait without end, or in the brake.
StopIsHeeded == stop ~> at = "stopped"
=============================================================================
