---------------------------- MODULE Daemon_proofs ----------------------------
(***************************************************************************)
(* What the loop keeps for every choice of its four durations, whatever is *)
(* announced and whatever fails.  All four arguments are inductive.        *)
(***************************************************************************)
EXTENDS Daemon, TLAPS

LEMMA LongestIsLongest ==
  /\ Longest \in Nat /\ Floor <= Longest /\ Settle <= Longest /\ Retry <= Longest
BY Durations DEF Longest

(***************************************************************************)
(* Type correctness.                                                       *)
(***************************************************************************)

\* What every step of the schedule keeps to.
LEMMA ScheduleTyped ==
  ASSUME TypeOK,
         \/ UNCHANGED schedule
         \/ Completed
         \/ RetrySoon
         \/ \E why \in Triggers : AtOnce(why)
         \/ \E wait \in {Floor, Settle}, why \in Triggers : BringForward(Deadline(wait), why)
  PROVE  due' \in (0 .. Longest) \cup {Never} /\ since' \in 0 .. Longest
           /\ tried' \in 0 .. Longest /\ trigger' \in Triggers
<1> USE LongestIsLongest, Durations DEF TypeOK
<1>1. CASE UNCHANGED schedule
  BY <1>1 DEF schedule
<1>2. CASE Completed \/ RetrySoon
  BY <1>2 DEF Completed, RetrySoon
<1>3. CASE \E why \in Triggers : AtOnce(why)
  BY <1>3 DEF AtOnce
<1>4. ASSUME NEW wait \in {Floor, Settle}, NEW why \in Triggers,
             BringForward(Deadline(wait), why)
      PROVE  due' \in (0 .. Longest) \cup {Never} /\ since' \in 0 .. Longest
               /\ tried' \in 0 .. Longest /\ trigger' \in Triggers
  <2>1. Deadline(wait) \in 0 .. Longest
    BY DEF Deadline
  <2> QED BY <1>4, <2>1 DEF BringForward
<1> QED BY <1>1, <1>2, <1>3, <1>4

LEMMA TickTyped ==
  ASSUME TypeOK, Tick
  PROVE  TypeOK'
<1> USE LongestIsLongest, Durations DEF TypeOK
<1>1. due' \in (0 .. Longest) \cup {Never}
  BY DEF Tick, Sooner, Never
<1>2. pause' \in 0 .. Retry
  BY DEF Tick, Sooner
<1>3. since' \in 0 .. Longest /\ tried' \in 0 .. Longest
  BY DEF Tick, Later
<1>4. absent' \in (0 .. Grace) \cup {Never}
  BY DEF Tick, Later, Never
<1> QED BY <1>1, <1>2, <1>3, <1>4 DEF Tick, signals, vf

LEMMA BatchTyped ==
  ASSUME TypeOK, Batch
  PROVE  TypeOK'
<1> USE DEF TypeOK
<1>1. PICK read \in BOOLEAN, answered \in BOOLEAN, filling \in BOOLEAN :
        /\ BatchAsks(queue, read, answered)
        /\ LET urgency == Urgency(queue, read, answered)
               wait == IF urgency = "now" \/ filling THEN Floor ELSE Settle
           IN  \/ urgency = "nothing" /\ UNCHANGED schedule
               \/ /\ urgency # "nothing"
                  /\ BringForward(Deadline(wait),
                       IF queue \subseteq Links THEN "interface change"
                                                ELSE "forwarding change")
  BY DEF Batch
<1>2. stale' \in BOOLEAN /\ answer' \in {"current", "outdated"}
  BY <1>1, Zenon DEF BatchAsks
<1>3. \/ UNCHANGED schedule
      \/ \E wait \in {Floor, Settle}, why \in Triggers : BringForward(Deadline(wait), why)
  BY <1>1 DEF Triggers
<1>4. due' \in (0 .. Longest) \cup {Never} /\ since' \in 0 .. Longest
        /\ tried' \in 0 .. Longest /\ trigger' \in Triggers
  BY <1>3, ScheduleTyped
<1> QED BY <1>2, <1>4 DEF Batch, Stage, signals, orphan

LEMMA LoopTyped ==
  ASSUME TypeOK, Loop
  PROVE  TypeOK'
<1> USE Durations DEF TypeOK, Stage, signals, vf, orphan
<1>1. CASE Stop \/ Top \/ NotDue
  BY <1>1 DEF Stop, Top, NotDue, schedule
<1>2. CASE Operator
  <2>1. due' \in (0 .. Longest) \cup {Never} /\ since' \in 0 .. Longest
          /\ tried' \in 0 .. Longest /\ trigger' \in Triggers
    BY <1>2, ScheduleTyped DEF Operator, Triggers
  <2> QED BY <1>2, <2>1 DEF Operator
<1>3. CASE PassBegin
  <2>a. absent' \in (0 .. Grace) \cup {Never}
    BY <1>3 DEF PassBegin, Orphaned
  <2>b. noted' \in BOOLEAN
    BY <1>3, Zenon DEF PassBegin, Orphaned
  <2>1. absent' \in (0 .. Grace) \cup {Never} /\ noted' \in BOOLEAN
    BY <2>a, <2>b
  <2>2. stale' \in BOOLEAN /\ answer' \in {"current", "outdated"}
    BY <1>3 DEF PassBegin
  <2> QED BY <1>3, <2>1, <2>2 DEF PassBegin, schedule
<1>4. CASE PassRefused
  <2>1. due' \in (0 .. Longest) \cup {Never} /\ since' \in 0 .. Longest
          /\ tried' \in 0 .. Longest /\ trigger' \in Triggers
    BY <1>4, ScheduleTyped DEF PassRefused
  <2>2. stale' \in BOOLEAN /\ last' \in BOOLEAN
    BY <1>4, Zenon DEF PassRefused
  <2> QED BY <1>4, <2>1, <2>2 DEF PassRefused
<1>5. CASE PassDone
  <2>1. due' \in (0 .. Longest) \cup {Never} /\ since' \in 0 .. Longest
          /\ tried' \in 0 .. Longest /\ trigger' \in Triggers
    BY <1>5, ScheduleTyped DEF PassDone
  <2> QED BY <1>5, <2>1 DEF PassDone
<1>6. CASE Rest \/ WaitSignalled \/ WaitTimedOut \/ WaitReady
  <2>1. failures' \in 0 .. 2
    BY <1>6 DEF Rest, WaitSignalled, WaitTimedOut, WaitReady
  <2>2. /\ pipe' \in BOOLEAN /\ seen' \subseteq Claims
        /\ at' \in Stage
    BY <1>6 DEF Rest, WaitSignalled, WaitTimedOut, WaitReady
  <2> QED BY <1>6, <2>1, <2>2 DEF Rest, WaitSignalled, WaitTimedOut, WaitReady, schedule
<1>7. CASE WaitFailed
  <2>1. due' \in (0 .. Longest) \cup {Never} /\ since' \in 0 .. Longest
          /\ tried' \in 0 .. Longest /\ trigger' \in Triggers
    BY <1>7, ScheduleTyped DEF WaitFailed, Triggers
  <2>2. failures' \in 0 .. 2 /\ pause' \in 0 .. Retry
    BY <1>7 DEF WaitFailed
  <2>3. stale' \in BOOLEAN /\ at' \in Stage
    BY <1>7 DEF WaitFailed
  <2> QED BY <1>7, <2>1, <2>2, <2>3 DEF WaitFailed
<1>8. CASE PauseDrained
  <2>1. pause' \in 0 .. Retry
    BY <1>8 DEF PauseDrained
  <2> QED BY <1>8, <2>1 DEF PauseDrained, schedule
<1>9. CASE PauseOver
  <2>1. due' \in (0 .. Longest) \cup {Never} /\ since' \in 0 .. Longest
          /\ tried' \in 0 .. Longest /\ trigger' \in Triggers
    BY <1>9, ScheduleTyped DEF PauseOver, Triggers
  <2>2. failures' \in 0 .. 2
    BY <1>9 DEF PauseOver
  <2> QED BY <1>9, <2>1, <2>2 DEF PauseOver
<1>10. CASE RecvLost
  <2>1. due' \in (0 .. Longest) \cup {Never} /\ since' \in 0 .. Longest
          /\ tried' \in 0 .. Longest /\ trigger' \in Triggers
    BY <1>10, ScheduleTyped DEF RecvLost, Triggers
  <2>2. queue' \subseteq AllKinds
    BY <1>10 DEF RecvLost
  <2> QED BY <1>10, <2>1, <2>2 DEF RecvLost
<1> QED
  BY <1>1, <1>2, <1>3, <1>4, <1>5, <1>6, <1>7, <1>8, <1>9, <1>10, BatchTyped DEF Loop, Progress, Failure

LEMMA WorldTyped ==
  ASSUME TypeOK, World
  PROVE  TypeOK'
<1> USE Durations DEF TypeOK, schedule, signals, vf, orphan
<1>1. ASSUME NEW k \in Kinds, Change(k) PROVE TypeOK'
  <2>1. queue' \subseteq AllKinds /\ unseen' \subseteq Claims
    BY <1>1, Choices DEF Change, Announce
  <2>2. lost' \in BOOLEAN
    BY <1>1, Zenon DEF Change, Announce
  <2>3. answer' \in {"current", "outdated"} /\ uplink' \in {"here", "away"}
    BY <1>1 DEF Change
  <2> QED BY <1>1, <2>1, <2>2, <2>3 DEF Change, Announce
<1>2. CASE UplinkMoves
  <2>1. /\ queue' \subseteq AllKinds /\ unseen' \subseteq Claims
        /\ uplink' \in {"here", "away"}
    BY <1>2 DEF UplinkMoves, Announce, AllKinds
  <2>2. lost' \in BOOLEAN
    BY <1>2, Zenon DEF UplinkMoves, Announce
  <2> QED BY <1>2, <2>1, <2>2 DEF UplinkMoves, Announce
<1>3. CASE Hangup
  BY <1>3 DEF Hangup
<1>4. CASE Terminate
  BY <1>4 DEF Terminate
<1> QED BY <1>1, <1>2, <1>3, <1>4, TickTyped DEF World

\* The loop is in a place of its code and every time it keeps is within its
\* cap, for any four durations.
THEOREM TypeCorrect == Spec => []TypeOK
<1>1. Init => TypeOK
  <2> SUFFICES ASSUME Init PROVE TypeOK
    OBVIOUS
  <2>1. /\ due \in (0 .. Longest) \cup {Never} /\ since \in 0 .. Longest /\ tried \in 0 .. Longest
        /\ failures \in 0 .. 2 /\ pause \in 0 .. Retry
    BY LongestIsLongest, Durations DEF Init
  <2> QED BY <2>1 DEF Init, TypeOK, Stage, Triggers
<1>2. TypeOK /\ [Next]_vars => TypeOK'
  <2>1. CASE UNCHANGED vars
    BY <2>1 DEF vars, TypeOK, schedule, signals, vf, orphan
  <2> QED BY <2>1, LoopTyped, WorldTyped DEF Next
<1> QED BY <1>1, <1>2, PTL DEF Spec

(***************************************************************************)
(* The driver answer: invariant 2's footing.                               *)
(***************************************************************************)

LEMMA BatchDistrusts ==
  ASSUME TypeOK, OutdatedIsDistrusted, Batch
  PROVE  OutdatedIsDistrusted'
<1>1. PICK read \in BOOLEAN, answered \in BOOLEAN : BatchAsks(queue, read, answered)
  BY DEF Batch
<1>2. CASE stale' = TRUE \/ answer' = "current"
  BY <1>2 DEF OutdatedIsDistrusted
<1>3. CASE /\ stale' = (stale \/ "vf" \in queue \/ (~read /\ queue \cap Links # {}))
           /\ UNCHANGED answer
  BY <1>3 DEF OutdatedIsDistrusted, Batch
<1> QED BY <1>1, <1>2, <1>3 DEF BatchAsks

LEMMA LoopDistrusts ==
  ASSUME TypeOK, OutdatedIsDistrusted, Loop
  PROVE  OutdatedIsDistrusted'
<1> USE DEF OutdatedIsDistrusted
<1>1. CASE Stop \/ Top \/ NotDue \/ PassDone \/ Rest
  BY <1>1 DEF Stop, Top, NotDue, PassDone, Rest, vf
<1>2. CASE WaitSignalled \/ WaitTimedOut \/ WaitReady \/ PauseDrained
  BY <1>2 DEF WaitSignalled, WaitTimedOut, WaitReady, PauseDrained, vf
<1>3. CASE Operator
  BY <1>3 DEF Operator
<1>4. CASE PassBegin
  <2>1. CASE ~stale /\ UNCHANGED answer
    BY <1>4, <2>1 DEF PassBegin
  <2>2. CASE answer' = "current"
    BY <2>2
  <2> QED BY <1>4, <2>1, <2>2 DEF PassBegin
<1>5. CASE PassRefused
  <2>1. stale' = stale \/ stale' = TRUE
    BY <1>5 DEF PassRefused
  <2> QED BY <1>5, <2>1 DEF PassRefused
<1>6. CASE WaitFailed \/ PauseOver
  BY <1>6 DEF WaitFailed, PauseOver
<1>7. CASE RecvLost
  BY <1>7 DEF RecvLost
<1> QED
  BY <1>1, <1>2, <1>3, <1>4, <1>5, <1>6, <1>7, BatchDistrusts DEF Loop, Progress, Failure

LEMMA WorldDistrusts ==
  ASSUME TypeOK, OutdatedIsDistrusted, World
  PROVE  OutdatedIsDistrusted'
<1> USE DEF OutdatedIsDistrusted
<1>1. ASSUME NEW k \in Kinds, Change(k) PROVE OutdatedIsDistrusted'
  BY <1>1 DEF Change, Announce
<1>2. CASE UplinkMoves
  BY <1>2 DEF UplinkMoves, Announce
<1>3. CASE Hangup \/ Terminate \/ Tick
  BY <1>3 DEF Hangup, Terminate, Tick, vf
<1> QED BY <1>1, <1>2, <1>3 DEF World

\* No path through the loop - not a refused pass, a batch whose reading or
\* question failed, a brake, a lost notification - lets a pass or a batch
\* believe a driver answer that an announced change has overtaken.
THEOREM DistrustHolds == Spec => []OutdatedIsDistrusted
<1>1. Init => OutdatedIsDistrusted
  BY DEF Init, OutdatedIsDistrusted
<1>2. TypeOK /\ OutdatedIsDistrusted /\ [Next]_vars => OutdatedIsDistrusted'
  <2>1. CASE UNCHANGED vars
    BY <2>1 DEF vars, OutdatedIsDistrusted, vf
  <2> QED BY <2>1, LoopDistrusts, WorldDistrusts DEF Next
<1> QED BY <1>1, <1>2, TypeCorrect, PTL DEF Spec

(***************************************************************************)
(* The pacing.                                                             *)
(***************************************************************************)

LEMMA TickPaced ==
  ASSUME TypeOK, Tick
  PROVE  /\ PaceInv => PaceInv'
         /\ BrakeInv => BrakeInv'
<1> USE LongestIsLongest, Durations
<1>1. /\ since' = IF since < Longest THEN since + 1 ELSE since
      /\ tried' = IF tried < Longest THEN tried + 1 ELSE tried
      /\ due' = IF due > 0 THEN due - 1 ELSE due
      /\ pause' = IF pause > 0 THEN pause - 1 ELSE pause
  BY DEF Tick, Sooner, Later, TypeOK, Never
<1>2. UNCHANGED <<at, trigger, failures, stop>>
  BY DEF Tick, signals
<1>3. due \in Int /\ since \in Int /\ pause \in Int /\ since <= Longest /\ since >= 0
      /\ due >= -1 /\ pause >= 0
  BY DEF TypeOK, Never
<1>4. PaceInv => PaceInv'
  BY <1>1, <1>2, <1>3 DEF PaceInv
<1>5. BrakeInv => BrakeInv'
  BY <1>1, <1>2, <1>3 DEF BrakeInv, Never
<1> QED BY <1>4, <1>5

LEMMA BatchPaced ==
  ASSUME TypeOK, PaceInv, Batch
  PROVE  PaceInv'
<1> USE LongestIsLongest, Durations DEF TypeOK, PaceInv
<1>1. PICK wait \in {Floor, Settle}, why \in Triggers :
        UNCHANGED schedule \/ BringForward(Deadline(wait), why)
  BY DEF Batch, Triggers
<1>2. CASE UNCHANGED schedule
  BY <1>2 DEF schedule, Batch
<1>3. CASE BringForward(Deadline(wait), why)
  <2>1. Deadline(wait) \in Nat /\ since + Deadline(wait) >= Floor
    BY DEF Deadline
  <2>a. due \in Int /\ since \in Int /\ due >= -1
    BY DEF Never
  <2>b. at = "recv"
    BY DEF Batch
  <2>2. due \in Int /\ since \in Int /\ (due = 0 => since >= Floor) /\ due >= -1
    BY <2>a, <2>b
  <2>3. since' = since /\ tried' = tried /\ due' = IF due # Never /\ due < Deadline(wait) THEN due ELSE Deadline(wait)
    BY <1>3 DEF BringForward
  <2>4. CASE due # Never /\ due < Deadline(wait)
    BY <2>2, <2>3, <2>4 DEF Never
  <2>5. CASE ~(due # Never /\ due < Deadline(wait))
    BY <2>1, <2>2, <2>3, <2>5
  <2> QED BY <2>4, <2>5
<1> QED BY <1>1, <1>2, <1>3

LEMMA AtOncePaced ==
  ASSUME PaceInv, NEW why \in Urgent, AtOnce(why), at' \in {"top", "operator", "due"}
  PROVE  PaceInv'
<1>1. due' = 0 /\ trigger' \in Urgent /\ tried' = since'
  BY DEF AtOnce, PaceInv
<1>2. ~(due' > 0)
  BY <1>1
<1> QED BY <1>1, <1>2 DEF PaceInv

LEMMA LoopPaced ==
  ASSUME TypeOK, PaceInv, Loop
  PROVE  PaceInv'
<1> USE DEF PaceInv
<1>a. due \in Int /\ since \in Int
  BY LongestIsLongest DEF TypeOK, Never
<1>b. due' \in Int /\ since' \in Int /\ Floor \in Int
  BY LoopTyped, LongestIsLongest, Durations DEF TypeOK, Never
<1> USE <1>a, <1>b
<1>1. CASE Stop \/ Top
  BY <1>1 DEF Stop, Top, schedule
<1>2. CASE NotDue
  BY <1>2 DEF NotDue, schedule
<1>3. CASE Operator
  <2>1. CASE hup
    <3>1. AtOnce("operator") /\ at' = "due"
      BY <1>3, <2>1 DEF Operator
    <3> QED BY <3>1, AtOncePaced DEF Urgent
  <2>2. CASE ~hup
    BY <1>3, <2>2 DEF Operator, schedule
  <2> QED BY <2>1, <2>2
<1>4. CASE PassBegin
  BY <1>4 DEF PassBegin, schedule
<1>5. CASE PassRefused
  BY <1>5, Durations DEF PassRefused, RetrySoon
<1>6. CASE PassDone
  BY <1>6 DEF PassDone, Completed, Never
<1>7. CASE Rest \/ WaitSignalled \/ WaitTimedOut \/ WaitReady
  BY <1>7 DEF Rest, WaitSignalled, WaitTimedOut, WaitReady, schedule
<1>8. CASE WaitFailed
  <2>1. CASE AtOnce("recovery") /\ at' = "top"
    BY <2>1, AtOncePaced DEF Urgent
  <2>2. CASE UNCHANGED schedule /\ at = "polling"
    BY <2>2 DEF schedule
  <2> QED BY <1>8, <2>1, <2>2 DEF WaitFailed
<1>9. CASE PauseDrained
  BY <1>9 DEF PauseDrained, schedule
<1>10. CASE PauseOver \/ RecvLost
  <2>1. at' = "top" /\ (AtOnce("recovery") \/ AtOnce("lost events"))
    BY <1>10 DEF PauseOver, RecvLost
  <2> QED BY <2>1, AtOncePaced DEF Urgent
<1> QED
  BY <1>1, <1>2, <1>3, <1>4, <1>5, <1>6, <1>7, <1>8, <1>9, <1>10, BatchPaced DEF Loop, Progress, Failure

\* A deadline ahead keeps the floor, and one that does not is an urgent pass
\* already on its way: no batch can have renamed it.
THEOREM PaceHolds == Spec => []PaceInv
<1>1. Init => PaceInv
  BY DEF Init, PaceInv, Urgent
<1>2. TypeOK /\ PaceInv /\ [Next]_vars => PaceInv'
  <2> SUFFICES ASSUME TypeOK, PaceInv, [Next]_vars PROVE PaceInv'
    OBVIOUS
  <2>1. CASE World /\ ~Tick
    BY <2>1 DEF World, Change, UplinkMoves, Announce, Hangup, Terminate, schedule, PaceInv
  <2>2. CASE UNCHANGED vars
    BY <2>2 DEF vars, schedule, PaceInv
  <2> QED BY <2>1, <2>2, LoopPaced, TickPaced DEF Next
<1> QED BY <1>1, <1>2, TypeCorrect, PTL DEF Spec

\* "Event storms are answered with a bounded pass rate": for any durations, a
\* pass nearer than the floor to the last attempt is never a batch's.
THEOREM PassesPaced == Spec => PassesArePaced
<1>1. TypeOK /\ PaceInv /\ [Next]_vars =>
        [at = "due" /\ at' \in {"passing", "top"} /\ tried < Floor => trigger \in Urgent]_vars
  <2> SUFFICES ASSUME TypeOK, PaceInv, Next, at = "due", at' \in {"passing", "top"},
                      tried < Floor
               PROVE  trigger \in Urgent
    BY DEF vars
  <2>1. due = 0
    BY DEF Next, Loop, Progress, Failure, World, Stop, Top, Operator, NotDue, PassBegin, PassRefused, PassDone,
       Rest, WaitSignalled, WaitTimedOut, WaitReady, WaitFailed, PauseDrained, PauseOver,
       RecvLost, Batch, Change, UplinkMoves, Announce, Hangup, Terminate, Tick
  <2> QED BY <2>1 DEF PaceInv
<1> QED BY <1>1, TypeCorrect, PaceHolds, PTL DEF Spec, PassesArePaced

(***************************************************************************)
(* The brake.                                                              *)
(***************************************************************************)

LEMMA LoopBraked ==
  ASSUME TypeOK, BrakeInv, Loop
  PROVE  BrakeInv'
<1> USE Durations DEF BrakeInv, TypeOK
<1>1. CASE Stop \/ Top
  BY <1>1 DEF Stop, Top, schedule, signals
<1>2. CASE NotDue
  BY <1>2 DEF NotDue
<1>3. CASE Operator
  BY <1>3 DEF Operator, AtOnce, schedule
<1>4. CASE PassBegin
  BY <1>4 DEF PassBegin, schedule, signals
<1>5. CASE PassRefused
  BY <1>5 DEF PassRefused, RetrySoon
<1>6. CASE PassDone \/ Rest
  BY <1>6 DEF PassDone, Rest
<1>7. CASE WaitSignalled \/ WaitTimedOut \/ WaitReady
  BY <1>7 DEF WaitSignalled, WaitTimedOut, WaitReady
<1>8. CASE WaitFailed
  BY <1>8 DEF WaitFailed, schedule
<1>9. CASE PauseDrained
  BY <1>9, LongestIsLongest DEF PauseDrained, schedule
<1>10. CASE PauseOver
  BY <1>10 DEF PauseOver, AtOnce, signals
<1>11. CASE RecvLost
  BY <1>11 DEF RecvLost, AtOnce
<1>12. CASE Batch
  <2>1. at = "recv" /\ at' = "top" /\ failures' = failures
    BY <1>12 DEF Batch
  <2> QED BY <2>1
<1> QED
  BY <1>1, <1>2, <1>3, <1>4, <1>5, <1>6, <1>7, <1>8, <1>9, <1>10, <1>11, <1>12 DEF Loop, Progress, Failure

\* The brake and the pause since the last pass add up to the retry pace.
THEOREM BrakeHolds == Spec => []BrakeInv
<1>1. Init => BrakeInv
  BY DEF Init, BrakeInv
<1>2. TypeOK /\ BrakeInv /\ [Next]_vars => BrakeInv'
  <2> SUFFICES ASSUME TypeOK, BrakeInv, [Next]_vars PROVE BrakeInv'
    OBVIOUS
  <2>1. CASE World /\ ~Tick
    <3>1. UNCHANGED <<at, due, since, trigger, failures, pause>> /\ (stop => stop')
      BY <2>1 DEF World, Change, UplinkMoves, Announce, Hangup, Terminate, schedule, signals
    <3> QED BY <3>1 DEF BrakeInv
  <2>2. CASE UNCHANGED vars
    BY <2>2 DEF vars, schedule, signals, BrakeInv
  <2> QED BY <2>1, <2>2, LoopBraked, TickPaced DEF Next
<1> QED BY <1>1, <1>2, TypeCorrect, PTL DEF Spec

\* A wait that keeps failing never becomes a hot loop of dumps: for any
\* durations, the retry pace lies before every recovery pass from the second
\* failure on.
THEOREM RecoveryPaced == Spec => RecoveryIsPaced
<1>1. TypeOK /\ PaceInv /\ BrakeInv /\ [Next]_vars =>
        [at = "due" /\ at' = "passing" /\ failures = 2 /\ trigger = "recovery"
           => tried >= Retry]_vars
  <2> SUFFICES ASSUME TypeOK, PaceInv, BrakeInv, Next, at = "due", at' = "passing",
                      failures = 2, trigger = "recovery"
               PROVE  tried >= Retry
    BY DEF vars
  <2>1. due = 0
    BY DEF Next, Loop, Progress, Failure, World, Stop, Top, Operator, NotDue, PassBegin, PassRefused, PassDone,
       Rest, WaitSignalled, WaitTimedOut, WaitReady, WaitFailed, PauseDrained, PauseOver,
       RecvLost, Batch, Change, UplinkMoves, Announce, Hangup, Terminate, Tick
  <2>2. since \in Int /\ Retry \in Int
    BY Durations, LongestIsLongest DEF TypeOK
  <2>3. tried = since
    BY DEF PaceInv
  <2> QED BY <2>1, <2>2, <2>3 DEF BrakeInv, Never
<1> QED BY <1>1, TypeCorrect, PaceHolds, BrakeHolds, PTL DEF Spec, RecoveryIsPaced
=============================================================================
