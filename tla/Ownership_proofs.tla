-------------------------- MODULE Ownership_proofs --------------------------
EXTENDS Ownership, TLAPS

(***************************************************************************)
(* Type correctness, for any set of processes and any faults.              *)
(***************************************************************************)

LEMMA FinishType ==
  ASSUME TypeOK, NEW p \in Proc, Finish(p)
  PROVE  /\ at' \in [Proc -> Stage] /\ op' \in [Proc -> Purpose]
         /\ seen' \in Sets /\ before' \in Sets /\ want' \in Sets /\ owned' \in Sets
         /\ todo' \in Sets /\ fresh' \in Sets /\ settle' \in Sets
  BY DEF TypeOK, Finish, Go, Sets, Stage, Purpose

LEMMA RewriteType ==
  ASSUME TypeOK, NEW S \in SUBSET Mac, Rewrite(S)
  PROVE  lines' \subseteq Mac /\ open' \subseteq Mac
  BY DEF TypeOK, Rewrite, disk

LEMMA AppendType ==
  ASSUME TypeOK, NEW S \in SUBSET Mac, Append(S) \/ AppendRefused(S)
  PROVE  lines' \subseteq Mac /\ open' \subseteq Mac
  BY DEF TypeOK, Append, AppendRefused, disk

LEMMA RegisteredType ==
  ASSUME TypeOK, NEW p \in Proc, Registered(p)
  PROVE  /\ at' \in [Proc -> Stage] /\ op' \in [Proc -> Purpose]
         /\ seen' \in Sets /\ before' \in Sets /\ want' \in Sets /\ owned' \in Sets
         /\ todo' \in Sets /\ fresh' \in Sets /\ settle' \in Sets
<1>1. CASE op[p] # "pass" /\ Finish(p)
  BY <1>1, FinishType
<1>2. CASE ~(op[p] # "pass" /\ Finish(p))
  BY <1>2 DEF Registered, TypeOK, Go, Sets, Stage
<1> QED BY <1>1, <1>2

LEMMA RegisterTyped ==
  ASSUME TypeOK, NEW p \in Proc, Register(p)
  PROVE  TypeOK'
<1> USE DEF TypeOK, disk
<1>1. CASE RegisterNote(p)
  <2>1. lines' \subseteq Mac /\ open' \subseteq Mac
    BY <1>1, AppendType DEF RegisterNote, Sets
  <2> QED
    BY <1>1, <2>1 DEF RegisterNote, Go, Sets, Stage
<1>2. CASE RegisterRefused(p)
  <2>1. lines' \subseteq Mac /\ open' \subseteq Mac
    BY <1>2, AppendType DEF RegisterRefused, Sets
  <2> QED
    BY <1>2, <2>1, RegisteredType DEF RegisterRefused
<1>3. CASE RegisterEnd(p)
  <2>1. lines' \subseteq Mac /\ open' \subseteq Mac
    BY <1>3, RewriteType DEF RegisterEnd, Noted
  <2> QED
    BY <1>3, <2>1, RegisteredType DEF RegisterEnd
<1>4. ASSUME NEW m \in Mac, AddOk(p, m) PROVE TypeOK'
  BY <1>4 DEF AddOk, NextMac, Holds, Origin, Sets
<1>5. ASSUME NEW m \in Mac, AddExists(p, m) PROVE TypeOK'
  BY <1>5 DEF AddExists, NextMac, Sets
<1>6. ASSUME NEW m \in Mac, AddFails(p, m) PROVE TypeOK'
  BY <1>6 DEF AddFails, NextMac, Holds, Origin, Sets
<1> QED
  BY <1>1, <1>2, <1>3, <1>4, <1>5, <1>6 DEF Register

LEMMA RetireTyped ==
  ASSUME TypeOK, NEW p \in Proc, Retire(p)
  PROVE  TypeOK'
<1> USE DEF TypeOK, disk
<1>1. CASE RetireLock(p)
  BY <1>1 DEF RetireLock, Go, Sets, Stage
<1>2. CASE RetireEnd(p)
  <2>1. lines' \subseteq Mac /\ open' \subseteq Mac
    BY <1>2, RewriteType DEF RetireEnd, Noted
  <2>2. at' \in [Proc -> Stage]
    BY <1>2 DEF RetireEnd, Go, Stage
  <2>3. owned' \in Sets /\ settle' \in Sets
    BY <1>2 DEF RetireEnd, Sets
  <2>4. todo' \in Sets /\ quiet' \in Sets
    BY <1>2 DEF RetireEnd, Sets
  <2>5. /\ UNCHANGED <<card, op, seen, before, want, fresh>>
        /\ lock' = {}
    BY <1>2 DEF RetireEnd
  <2> QED
    BY <2>1, <2>2, <2>3, <2>4, <2>5
<1>3. ASSUME NEW m \in Mac, DeleteOk(p, m) PROVE TypeOK'
  BY <1>3 DEF DeleteOk, NextMac, Holds, Origin, Sets
<1>4. ASSUME NEW m \in Mac, DeleteFails(p, m) PROVE TypeOK'
  BY <1>4 DEF DeleteFails, NextMac, Holds, Origin, Sets
<1> QED
  BY <1>1, <1>2, <1>3, <1>4 DEF Retire

LEMMA PassTyped ==
  ASSUME TypeOK, NEW p \in Proc, Pass(p)
  PROVE  TypeOK'
<1> USE DEF TypeOK, disk
<1>1. CASE PassDump(p)
  BY <1>1 DEF PassDump, Go, Sets, Stage, OnCard
<1>2. CASE PassRead(p)
  <2>1. PICK note \in Readings, w \in Wants :
          /\ before' = [before EXCEPT ![p] = note]
          /\ owned' = [owned EXCEPT ![p] = note]
          /\ want' = [want EXCEPT ![p] = w]
          /\ todo' = [todo EXCEPT ![p] = w \ seen[p]]
          /\ Go(p, IF w \subseteq seen[p] THEN "stale" ELSE "register")
          /\ \E kept \in SUBSET (w \cap note) : quiet' = [quiet EXCEPT ![p] = kept]
    BY <1>2 DEF PassRead
  <2>2. note \in SUBSET Mac /\ w \in SUBSET Mac
    BY Constants DEF Readings, Noted
  <2>3. at' \in [Proc -> Stage]
    BY <2>1 DEF Go, Stage
  <2>4. before' \in Sets /\ owned' \in Sets /\ want' \in Sets /\ todo' \in Sets
    BY <2>1, <2>2 DEF Sets
  <2>5. quiet' \in Sets
    BY <2>1, <2>2 DEF Sets
  <2>6. seen' \in Sets
    BY <1>2 DEF PassRead, Sets
  <2> QED
    BY <1>2, <2>3, <2>4, <2>5, <2>6 DEF PassRead
<1>3. CASE PassStale(p)
  BY <1>3 DEF PassStale, Go, Sets, Stage
<1>4. CASE Merge(p)
  <2>1. (Noted \cup (owned[p] \ before[p])) \ (before[p] \ owned[p]) \in SUBSET Mac
    BY DEF Noted, Sets
  <2>2. lines' \subseteq Mac /\ open' \subseteq Mac
    BY <1>4, <2>1, RewriteType DEF Merge
  <2> QED
    BY <1>4, <2>2, FinishType DEF Merge
<1>5. CASE PassDone(p)
  BY <1>5, FinishType DEF PassDone
<1> QED
  BY <1>1, <1>2, <1>3, <1>4, <1>5 DEF Pass

LEMMA BatchTyped ==
  ASSUME TypeOK, NEW p \in Proc, Batch(p)
  PROVE  TypeOK'
<1> USE DEF TypeOK, disk
<1>1. CASE BatchRead(p)
  <2>0. PICK note \in Readings, w \in Wants :
          \E ours \in SUBSET (note \ w), learnt \in SUBSET w :
            /\ Go(p, IF ours # {} THEN "retire" ELSE "room")
            /\ want' = [want EXCEPT ![p] = learnt]
            /\ todo' = [todo EXCEPT ![p] = ours]
            /\ quiet' = [quiet EXCEPT ![p] = @ \ ours]
    BY <1>1 DEF BatchRead
  <2>1. PICK ours \in SUBSET (note \ w), learnt \in SUBSET w :
          /\ Go(p, IF ours # {} THEN "retire" ELSE "room")
          /\ want' = [want EXCEPT ![p] = learnt]
          /\ todo' = [todo EXCEPT ![p] = ours]
          /\ quiet' = [quiet EXCEPT ![p] = @ \ ours]
    BY <2>0
  <2>2. note \in SUBSET Mac /\ w \in SUBSET Mac
    BY Constants DEF Readings, Noted
  <2>3. at' \in [Proc -> Stage]
    BY <2>1 DEF Go, Stage
  <2>4. want' \in Sets /\ todo' \in Sets /\ quiet' \in Sets
    BY <2>1, <2>2 DEF Sets
  <2>5. op' \in [Proc -> Purpose]
    BY <1>1 DEF BatchRead, Purpose
  <2> QED
    BY <1>1, <2>3, <2>4, <2>5 DEF BatchRead
<1>2. CASE BatchRoom(p)
  <2>1. PICK shed \in SUBSET (quiet[p] \ want[p]) :
          /\ Go(p, IF shed # {} THEN "retire" ELSE "register")
          /\ todo' = [todo EXCEPT ![p] = IF shed # {} THEN shed ELSE want[p]]
    BY <1>2 DEF BatchRoom
  <2>2. at' \in [Proc -> Stage]
    BY <2>1 DEF Go, Stage
  <2>3. todo' \in Sets
    <3>1. shed \in SUBSET Mac /\ want[p] \in SUBSET Mac
      BY DEF Sets
    <3> QED
      BY <2>1, <3>1 DEF Sets
  <2>4. op' \in [Proc -> Purpose]
    BY <1>2 DEF BatchRoom, Purpose
  <2> QED
    BY <1>2, <2>2, <2>3, <2>4 DEF BatchRoom
<1>3. CASE BatchDone(p)
  BY <1>3, FinishType DEF BatchDone
<1> QED
  BY <1>1, <1>2, <1>3 DEF Batch

LEMMA FlushTyped ==
  ASSUME TypeOK, NEW p \in Proc, Flush(p)
  PROVE  TypeOK'
<1> USE DEF TypeOK, disk
<1>1. CASE FlushLock(p)
  BY <1>1 DEF FlushLock, Go, Sets, Stage, Noted
<1>2. CASE FlushEnd(p)
  <2>1. lines' \subseteq Mac /\ open' \subseteq Mac
    BY <1>2, RewriteType DEF FlushEnd, Sets
  <2> QED
    BY <1>2, <2>1, FinishType DEF FlushEnd
<1> QED
  BY <1>1, <1>2 DEF Flush

LEMMA CheckTyped ==
  ASSUME TypeOK, NEW p \in Proc, Check(p)
  PROVE  TypeOK'
<1> USE Constants DEF TypeOK, disk, locals
<1>1. CASE CheckNote(p)
  <2>1. lines' \subseteq Mac /\ open' \subseteq Mac
    BY <1>1, AppendType DEF CheckNote
  <2> QED
    BY <1>1, <2>1 DEF CheckNote, Go, Stage
<1>2. CASE CheckAdd(p)
  BY <1>2 DEF CheckAdd, Go, Stage, Holds, Origin
<1>3. CASE CheckTake(p)
  BY <1>3 DEF CheckTake, Go, Stage, Holds, Origin
<1>4. CASE CheckForget(p)
  <2>1. lines' \subseteq Mac /\ open' \subseteq Mac
    BY <1>4, RewriteType DEF CheckForget, Noted
  <2> QED
    BY <1>4, <2>1 DEF CheckForget, Go, Stage
<1> QED
  BY <1>1, <1>2, <1>3, <1>4 DEF Check

LEMMA EnvironmentTyped ==
  ASSUME TypeOK, Environment
  PROVE  TypeOK'
<1> USE DEF TypeOK, disk, locals
<1>1. ASSUME NEW p \in Proc, Crash(p) PROVE TypeOK'
  BY <1>1, FinishType DEF Crash, Sets
<1>2. ASSUME NEW m \in Mac, ForeignAdd(m) \/ ForeignRemove(m) \/ DriverReset(m)
      PROVE TypeOK'
  BY <1>2 DEF ForeignAdd, ForeignRemove, DriverReset, Holds, Origin
<1> QED
  BY <1>1, <1>2 DEF Environment

LEMMA StepTyped == TypeOK /\ [Next]_vars => TypeOK'
<1> SUFFICES ASSUME TypeOK, [Next]_vars PROVE TypeOK'
  OBVIOUS
<1>1. ASSUME NEW p \in Proc, Step(p) PROVE TypeOK'
  BY <1>1, RegisterTyped, RetireTyped, PassTyped, BatchTyped, FlushTyped, CheckTyped
     DEF Step
<1>2. CASE UNCHANGED vars
  BY <1>2 DEF vars, disk, locals, TypeOK
<1> QED
  BY <1>1, <1>2, EnvironmentTyped DEF Next

\* The note holds addresses, the card says for each address whose entry it is,
\* and every process is in a stage of its code - for any number of processes
\* and any combination of faults.
THEOREM TypeCorrect == Spec => []TypeOK
<1>1. Init => TypeOK
  BY DEF Init, Idle, TypeOK, Nothing, Sets, Stage, Purpose, Origin
<1> QED
  BY <1>1, StepTyped, PTL DEF Spec

(***************************************************************************)
(* No orphan: the inductive invariant is preserved.                        *)
(***************************************************************************)

LEMMA RegisterNoteInv ==
  ASSUME Untorn, Inv, NEW p \in Proc, RegisterNote(p)
  PROVE  Inv'
<1> USE DEF Inv, TypeOK, Sets, disk, RegisterNote, Go, Append, Noted
<1>1. TypeOK'
  BY RegisterTyped DEF Register
<1>2. open' = {} /\ lines \subseteq lines' /\ todo[p] \subseteq lines' /\ Ours' = Ours
  BY DEF Ours
<1>3. NoOrphan'
  BY <1>2 DEF NoOrphan
<1>4. LockInv'
  BY DEF LockInv, Locked
<1>5. RoleInv'
  BY DEF RoleInv
<1>6. AddInv'
  BY <1>2 DEF AddInv, LockInv, Locked, NoOrphan
<1>7. DeleteInv'
  BY <1>2 DEF DeleteInv, LockInv, Locked
<1>8. MergeInv'
  BY <1>2 DEF MergeInv
<1> QED
  BY <1>1, <1>2, <1>3, <1>4, <1>5, <1>6, <1>7, <1>8

LEMMA AddOkInv ==
  ASSUME Untorn, NoRival, Inv, NEW p \in Proc, NEW m \in Mac, AddOk(p, m)
  PROVE  Inv'
<1> USE DEF Inv, TypeOK, Sets, disk, AddOk, NextMac, Holds, Noted
<1>1. TypeOK'
  BY RegisterTyped DEF Register
<1>2. Ours' = Ours \cup {m}
  BY DEF Ours, Origin
<1>3. NoOrphan'
  BY <1>2 DEF NoOrphan, AddInv
<1>4. LockInv' /\ RoleInv'
  BY DEF LockInv, RoleInv
<1>6. AddInv'
  BY <1>2 DEF AddInv, LockInv, Locked
<1>7. DeleteInv'
  BY <1>2 DEF DeleteInv, LockInv, Locked
<1>8. MergeInv'
  BY <1>2 DEF MergeInv, NoRival
<1> QED
  BY <1>1, <1>2, <1>3, <1>4, <1>6, <1>7, <1>8

LEMMA AddExistsInv ==
  ASSUME Untorn, Inv, NEW p \in Proc, NEW m \in Mac, AddExists(p, m)
  PROVE  Inv'
<1> USE DEF Inv, TypeOK, Sets, disk, AddExists, NextMac, Noted
<1>1. TypeOK'
  BY RegisterTyped DEF Register
<1>2. Ours' = Ours
  BY DEF Ours
<1>3. NoOrphan' /\ LockInv' /\ RoleInv'
  BY <1>2 DEF NoOrphan, LockInv, RoleInv
<1>4. AddInv'
  BY <1>2 DEF AddInv
<1>5. DeleteInv'
  BY <1>2 DEF DeleteInv
<1>6. MergeInv'
  BY <1>2 DEF MergeInv
<1> QED
  BY <1>1, <1>2, <1>3, <1>4, <1>5, <1>6

LEMMA AddFailsInv ==
  ASSUME Untorn, NoRival, Inv, NEW p \in Proc, NEW m \in Mac, AddFails(p, m)
  PROVE  Inv'
<1> USE DEF Inv, TypeOK, Sets, disk, AddFails, NextMac, Holds, Noted
<1>1. TypeOK'
  BY RegisterTyped DEF Register
<1>2. Ours' \subseteq Ours \cup {m}
  BY DEF Ours, Origin
<1>3. NoOrphan'
  BY <1>2 DEF NoOrphan, AddInv
<1>4. LockInv' /\ RoleInv'
  BY DEF LockInv, RoleInv
<1>5. AddInv'
  BY <1>2 DEF AddInv, LockInv, Locked
<1>6. DeleteInv'
  BY <1>2 DEF DeleteInv, LockInv, Locked
<1>7. MergeInv'
  BY <1>2 DEF MergeInv, NoRival
<1> QED
  BY <1>1, <1>2, <1>3, <1>4, <1>5, <1>6, <1>7

\* What a finished operation leaves behind holds no claim on anything.
LEMMA FinishFacts ==
  ASSUME TypeOK, NEW p \in Proc, Finish(p)
  PROVE  /\ at' = [at EXCEPT ![p] = "idle"]
         /\ \A q \in Proc : q # p =>
              /\ at'[q] = at[q] /\ op'[q] = op[q] /\ before'[q] = before[q]
              /\ owned'[q] = owned[q] /\ todo'[q] = todo[q]
              /\ fresh'[q] = fresh[q] /\ settle'[q] = settle[q]
  BY DEF TypeOK, Sets, Finish, Go

\* Registered moves only the process itself: to its stale loop, or home.
LEMMA RegisteredFacts ==
  ASSUME TypeOK, NEW p \in Proc, Registered(p)
  PROVE  /\ at' \in [Proc -> Stage] /\ at'[p] \in {"stale", "idle"}
         /\ at'[p] = "stale" => /\ op[p] = "pass" /\ before'[p] = before[p]
                                /\ owned'[p] = owned[p]
         /\ \A q \in Proc : q # p =>
              /\ at'[q] = at[q] /\ op'[q] = op[q] /\ before'[q] = before[q]
              /\ owned'[q] = owned[q] /\ todo'[q] = todo[q]
              /\ fresh'[q] = fresh[q] /\ settle'[q] = settle[q]
<1>1. CASE op[p] # "pass" /\ Finish(p)
  BY <1>1, FinishFacts, FinishType DEF TypeOK
<1>2. CASE ~(op[p] # "pass" /\ Finish(p))
  BY <1>2 DEF Registered, Go, TypeOK, Sets, Stage
<1> QED
  BY <1>1, <1>2

LEMMA RegisterRefusedInv ==
  ASSUME Untorn, Inv, NEW p \in Proc, RegisterRefused(p)
  PROVE  Inv'
<1> USE DEF Inv, TypeOK, Sets, disk, RegisterRefused, Noted
<1>1. TypeOK'
  BY RegisterTyped DEF Register
<1>2. open' = {} /\ lines \subseteq lines'
  BY DEF AppendRefused, Untorn
<1>3. Ours' = Ours
  BY DEF Ours
<1>4. NoOrphan'
  BY <1>2, <1>3 DEF NoOrphan
<1>5. LockInv'
  BY RegisteredFacts DEF LockInv, Locked
<1>6. RoleInv'
  BY RegisteredFacts DEF RoleInv
<1>7. AddInv'
  BY <1>2, <1>3, RegisteredFacts DEF AddInv, LockInv, Locked
<1>8. DeleteInv'
  BY <1>2, <1>3, RegisteredFacts DEF DeleteInv, LockInv, Locked
<1>9. MergeInv'
  BY <1>3, RegisteredFacts DEF MergeInv
<1> QED
  BY <1>1, <1>2, <1>3, <1>4, <1>5, <1>6, <1>7, <1>8, <1>9

LEMMA RegisterEndInv ==
  ASSUME Untorn, Inv, NEW p \in Proc, RegisterEnd(p)
  PROVE  Inv'
<1> USE DEF Inv, TypeOK, Sets, disk, RegisterEnd, Noted
<1>1. TypeOK'
  BY RegisterTyped DEF Register
<1>2. open' = {} /\ lines \ settle[p] \subseteq lines'
  BY DEF Rewrite
<1>3. Ours' = Ours
  BY DEF Ours
<1>4. NoOrphan'
  BY <1>2, <1>3 DEF NoOrphan, AddInv
<1>5. LockInv'
  BY RegisteredFacts DEF LockInv, Locked
<1>6. RoleInv'
  BY RegisteredFacts DEF RoleInv
<1>7. AddInv'
  BY <1>2, <1>3, RegisteredFacts DEF AddInv, LockInv, Locked
<1>8. DeleteInv'
  BY <1>2, <1>3, RegisteredFacts DEF DeleteInv, LockInv, Locked
<1>9. MergeInv'
  BY <1>3, RegisteredFacts DEF MergeInv
<1> QED
  BY <1>1, <1>2, <1>3, <1>4, <1>5, <1>6, <1>7, <1>8, <1>9

LEMMA RetireLockInv ==
  ASSUME Untorn, Inv, NEW p \in Proc, RetireLock(p)
  PROVE  Inv'
<1> USE DEF Inv, TypeOK, Sets, disk, RetireLock, Go, Noted
<1>1. TypeOK'
  BY RetireTyped DEF Retire
<1>2. Ours' = Ours
  BY DEF Ours
<1>3. NoOrphan' /\ RoleInv'
  BY <1>2 DEF NoOrphan, RoleInv
<1>4. LockInv'
  BY DEF LockInv, Locked
<1>5. AddInv'
  BY <1>2 DEF AddInv
<1>6. DeleteInv'
  BY <1>2 DEF DeleteInv
<1>7. MergeInv'
  BY <1>2 DEF MergeInv
<1> QED
  BY <1>1, <1>2, <1>3, <1>4, <1>5, <1>6, <1>7

LEMMA DeleteOkInv ==
  ASSUME Untorn, Inv, NEW p \in Proc, NEW m \in Mac, DeleteOk(p, m)
  PROVE  Inv'
<1> USE DEF Inv, TypeOK, Sets, disk, DeleteOk, NextMac, Holds, Noted
<1>1. TypeOK'
  BY RetireTyped DEF Retire
<1>2. Ours' = Ours \ {m}
  BY DEF Ours, Origin
<1>3. NoOrphan' /\ LockInv' /\ RoleInv'
  BY <1>2 DEF NoOrphan, LockInv, RoleInv
<1>4. AddInv'
  BY <1>2 DEF AddInv
<1>5. DeleteInv'
  BY <1>2 DEF DeleteInv
<1>6. MergeInv'
  BY <1>2 DEF MergeInv
<1> QED
  BY <1>1, <1>2, <1>3, <1>4, <1>5, <1>6

LEMMA DeleteFailsInv ==
  ASSUME Untorn, Inv, NEW p \in Proc, NEW m \in Mac, DeleteFails(p, m)
  PROVE  Inv'
<1> USE DEF Inv, TypeOK, Sets, disk, DeleteFails, NextMac, Holds, Noted
<1>1. TypeOK'
  BY RetireTyped DEF Retire
<1>2. Ours' \subseteq Ours
  BY DEF Ours, Origin
<1>3. NoOrphan' /\ LockInv' /\ RoleInv'
  BY <1>2 DEF NoOrphan, LockInv, RoleInv
<1>4. AddInv'
  BY <1>2 DEF AddInv
<1>5. DeleteInv'
  BY <1>2 DEF DeleteInv
<1>6. MergeInv'
  BY <1>2 DEF MergeInv
<1> QED
  BY <1>1, <1>2, <1>3, <1>4, <1>5, <1>6

LEMMA RetireEndInv ==
  ASSUME Untorn, Inv, NEW p \in Proc, RetireEnd(p)
  PROVE  Inv'
<1> USE DEF Inv, TypeOK, Sets, disk, RetireEnd, Go, Noted
<1>1. TypeOK'
  BY RetireTyped DEF Retire
<1>2. open' = {} /\ lines \ settle[p] \subseteq lines'
  BY DEF Rewrite
<1>3. Ours' = Ours
  BY DEF Ours
<1>4. at'[p] \in {"merge", "room", "register"} /\ \A q \in Proc : q # p => at'[q] = at[q]
  OBVIOUS
<1>5. NoOrphan'
  BY <1>2, <1>3 DEF NoOrphan, DeleteInv
<1>6. LockInv'
  BY <1>4 DEF LockInv, Locked
<1>7. RoleInv'
  BY <1>4 DEF RoleInv
<1>8. AddInv'
  BY <1>3, <1>4 DEF AddInv, LockInv, Locked
<1>9. DeleteInv'
  BY <1>3, <1>4 DEF DeleteInv, LockInv, Locked
<1>10. MergeInv'
  BY <1>3, <1>4 DEF MergeInv, DeleteInv
<1> QED
  BY <1>1, <1>2, <1>3, <1>4, <1>5, <1>6, <1>7, <1>8, <1>9, <1>10

LEMMA PassDumpInv ==
  ASSUME Untorn, Inv, NEW p \in Proc, PassDump(p)
  PROVE  Inv'
<1> USE DEF Inv, TypeOK, Sets, disk, PassDump, Go, Noted
<1>1. TypeOK'
  BY PassTyped DEF Pass
<1>2. Ours' = Ours
  BY DEF Ours
<1>3. NoOrphan'
  BY <1>2 DEF NoOrphan
<1>4. LockInv' /\ RoleInv'
  BY DistinctRoles DEF LockInv, RoleInv, Locked, Passers
<1>5. AddInv' /\ DeleteInv' /\ MergeInv'
  BY <1>2 DEF AddInv, DeleteInv, MergeInv
<1> QED
  BY <1>1, <1>2, <1>3, <1>4, <1>5

LEMMA PassReadInv ==
  ASSUME Untorn, Inv, NEW p \in Proc, PassRead(p)
  PROVE  Inv'
<1> USE DEF Inv, TypeOK, Sets, disk, PassRead, Go, Noted
<1>1. TypeOK'
  BY PassTyped DEF Pass
<1>2. Ours' = Ours
  BY DEF Ours
<1>3. at'[p] \in {"stale", "register"} /\ before'[p] = owned'[p]
  OBVIOUS
<1>4. \A q \in Proc : q # p => at'[q] = at[q] /\ before'[q] = before[q] /\ owned'[q] = owned[q] /\ todo'[q] = todo[q]
  OBVIOUS
<1>5. NoOrphan'
  BY <1>2 DEF NoOrphan
<1>6. LockInv' /\ RoleInv'
  BY <1>3, <1>4 DEF LockInv, RoleInv, Locked
<1>7. AddInv'
  BY <1>2, <1>3, <1>4 DEF AddInv
<1>8. DeleteInv'
  BY <1>2, <1>3, <1>4 DEF DeleteInv
<1>9. MergeInv'
  BY <1>2, <1>3, <1>4 DEF MergeInv
<1> QED
  BY <1>1, <1>2, <1>3, <1>4, <1>5, <1>6, <1>7, <1>8, <1>9

LEMMA PassStaleInv ==
  ASSUME Untorn, Inv, NEW p \in Proc, PassStale(p)
  PROVE  Inv'
<1> USE DEF Inv, TypeOK, Sets, disk, PassStale, Go, Noted
<1>1. TypeOK'
  BY PassTyped DEF Pass
<1>2. Ours' = Ours
  BY DEF Ours
<1>3. at'[p] \in {"merge", "retire"} /\ \A q \in Proc : q # p => at'[q] = at[q] /\ todo'[q] = todo[q]
  OBVIOUS
<1>4. NoOrphan'
  BY <1>2 DEF NoOrphan
<1>5. LockInv' /\ RoleInv'
  BY <1>3 DEF LockInv, RoleInv, Locked
<1>6. AddInv' /\ DeleteInv'
  BY <1>2, <1>3 DEF AddInv, DeleteInv
<1>7. MergeInv'
  BY <1>2, <1>3 DEF MergeInv
<1> QED
  BY <1>1, <1>2, <1>3, <1>4, <1>5, <1>6, <1>7

LEMMA MergeStepInv ==
  ASSUME Untorn, Inv, NEW p \in Proc, Merge(p)
  PROVE  Inv'
<1> USE DEF Inv, TypeOK, Sets, disk, Merge, Noted
<1>1. TypeOK'
  BY PassTyped DEF Pass
<1>2. Ours' = Ours
  BY DEF Ours
<1>3. open' = {} /\ lines \ (before[p] \ owned[p]) \subseteq lines'
  BY DEF Rewrite
<1>4. NoOrphan'
  BY <1>2, <1>3 DEF NoOrphan, MergeInv
<1>5. LockInv' /\ RoleInv'
  BY FinishFacts DEF LockInv, RoleInv, Locked
<1>6. AddInv'
  BY <1>2, FinishFacts DEF AddInv, LockInv, Locked
<1>7. DeleteInv'
  BY <1>2, FinishFacts DEF DeleteInv, LockInv, Locked
<1>8. MergeInv'
  BY <1>2, FinishFacts DEF MergeInv
<1> QED
  BY <1>1, <1>2, <1>3, <1>4, <1>5, <1>6, <1>7, <1>8

LEMMA PassDoneInv ==
  ASSUME Untorn, Inv, NEW p \in Proc, PassDone(p)
  PROVE  Inv'
<1> USE DEF Inv, TypeOK, Sets, disk, PassDone, Noted
<1>1. TypeOK'
  BY PassTyped DEF Pass
<1>2. Ours' = Ours
  BY DEF Ours
<1>3. NoOrphan'
  BY <1>2 DEF NoOrphan
<1>4. LockInv' /\ RoleInv'
  BY FinishFacts DEF LockInv, RoleInv, Locked
<1>5. AddInv'
  BY <1>2, FinishFacts DEF AddInv, LockInv, Locked
<1>6. DeleteInv'
  BY <1>2, FinishFacts DEF DeleteInv, LockInv, Locked
<1>7. MergeInv'
  BY <1>2, FinishFacts DEF MergeInv
<1> QED
  BY <1>1, <1>2, <1>3, <1>4, <1>5, <1>6, <1>7

LEMMA BatchReadInv ==
  ASSUME Untorn, Inv, NEW p \in Proc, BatchRead(p)
  PROVE  Inv'
<1> USE DEF Inv, TypeOK, Sets, disk, BatchRead, Go, Noted
<1>1. TypeOK'
  BY BatchTyped DEF Batch
<1>2. Ours' = Ours
  BY DEF Ours
<1>3. /\ at'[p] \in {"retire", "room"} /\ op'[p] = "reflect"
      /\ \A q \in Proc : q # p => at'[q] = at[q] /\ op'[q] = op[q] /\ todo'[q] = todo[q]
  OBVIOUS
<1>4. NoOrphan'
  BY <1>2 DEF NoOrphan
<1>5. LockInv'
  BY <1>3 DEF LockInv, Locked
<1>6. RoleInv'
  BY <1>3, DistinctRoles DEF RoleInv, Passers
<1>7. AddInv' /\ DeleteInv'
  BY <1>2, <1>3 DEF AddInv, DeleteInv
<1>8. MergeInv'
  BY <1>2, <1>3 DEF MergeInv
<1> QED
  BY <1>1, <1>2, <1>3, <1>4, <1>5, <1>6, <1>7, <1>8

LEMMA BatchRoomInv ==
  ASSUME Untorn, Inv, NEW p \in Proc, BatchRoom(p)
  PROVE  Inv'
<1> USE DEF Inv, TypeOK, Sets, disk, BatchRoom, Go, Noted
<1>1. TypeOK'
  BY BatchTyped DEF Batch
<1>2. Ours' = Ours
  BY DEF Ours
<1>3. /\ at'[p] \in {"retire", "register"} /\ op'[p] = "shed"
      /\ \A q \in Proc : q # p => at'[q] = at[q] /\ op'[q] = op[q] /\ todo'[q] = todo[q]
  OBVIOUS
<1>4. NoOrphan'
  BY <1>2 DEF NoOrphan
<1>5. LockInv' /\ RoleInv'
  BY <1>3 DEF LockInv, RoleInv, Locked
<1>6. AddInv' /\ DeleteInv'
  BY <1>2, <1>3 DEF AddInv, DeleteInv
<1>7. MergeInv'
  BY <1>2, <1>3 DEF MergeInv
<1> QED
  BY <1>1, <1>2, <1>3, <1>4, <1>5, <1>6, <1>7

LEMMA BatchDoneInv ==
  ASSUME Untorn, Inv, NEW p \in Proc, BatchDone(p)
  PROVE  Inv'
<1> USE DEF Inv, TypeOK, Sets, disk, BatchDone, Noted
<1>1. TypeOK'
  BY BatchTyped DEF Batch
<1>2. Ours' = Ours
  BY DEF Ours
<1>3. NoOrphan'
  BY <1>2 DEF NoOrphan
<1>4. LockInv' /\ RoleInv'
  BY FinishFacts DEF LockInv, RoleInv, Locked
<1>5. AddInv'
  BY <1>2, FinishFacts DEF AddInv, LockInv, Locked
<1>6. DeleteInv'
  BY <1>2, FinishFacts DEF DeleteInv, LockInv, Locked
<1>7. MergeInv'
  BY <1>2, FinishFacts DEF MergeInv
<1> QED
  BY <1>1, <1>2, <1>3, <1>4, <1>5, <1>6, <1>7

LEMMA FlushLockInv ==
  ASSUME Untorn, Inv, NEW p \in Proc, FlushLock(p)
  PROVE  Inv'
<1> USE DEF Inv, TypeOK, Sets, disk, FlushLock, Go, Noted
<1>1. TypeOK'
  BY FlushTyped DEF Flush
<1>2. Ours' = Ours
  BY DEF Ours
<1>3. NoOrphan'
  BY <1>2 DEF NoOrphan
<1>4. LockInv'
  BY DEF LockInv, Locked
<1>5. RoleInv'
  BY DistinctRoles DEF RoleInv
<1>6. AddInv' /\ DeleteInv'
  BY <1>2 DEF AddInv, DeleteInv
<1>7. MergeInv'
  BY <1>2 DEF MergeInv
<1> QED
  BY <1>1, <1>2, <1>3, <1>4, <1>5, <1>6, <1>7

LEMMA FlushEndInv ==
  ASSUME Untorn, Inv, NEW p \in Proc, FlushEnd(p)
  PROVE  Inv'
<1> USE DEF Inv, TypeOK, Sets, disk, FlushEnd, Noted
<1>1. TypeOK'
  BY FlushTyped DEF Flush
<1>2. Ours' = Ours
  BY DEF Ours
<1>3. open' = {} /\ owned[p] \ settle[p] \subseteq lines'
  BY DEF Rewrite, DeleteInv
<1>4. NoOrphan'
  BY <1>2, <1>3 DEF NoOrphan, DeleteInv
<1>5. LockInv' /\ RoleInv'
  BY FinishFacts DEF LockInv, RoleInv, Locked
<1>6. AddInv'
  BY <1>2, FinishFacts DEF AddInv, LockInv, Locked
<1>7. DeleteInv'
  BY <1>2, FinishFacts DEF DeleteInv, LockInv, Locked
<1>8. MergeInv'
  BY <1>2, FinishFacts DEF MergeInv
<1> QED
  BY <1>1, <1>2, <1>3, <1>4, <1>5, <1>6, <1>7, <1>8

LEMMA CrashInv ==
  ASSUME Untorn, Inv, NEW p \in Proc, Crash(p)
  PROVE  Inv'
<1> USE DEF Inv, TypeOK, Sets, disk, Crash, Noted
<1>1. TypeOK'
  BY EnvironmentTyped DEF Environment
<1>2. Ours' = Ours
  BY DEF Ours
<1>3. NoOrphan'
  BY <1>2 DEF NoOrphan
<1>4. LockInv' /\ RoleInv'
  BY FinishFacts DEF LockInv, RoleInv, Locked
<1>5. AddInv'
  BY <1>2, FinishFacts DEF AddInv
<1>6. DeleteInv'
  BY <1>2, FinishFacts DEF DeleteInv
<1>7. MergeInv'
  BY <1>2, FinishFacts DEF MergeInv
<1> QED
  BY <1>1, <1>2, <1>3, <1>4, <1>5, <1>6, <1>7

\* Nobody but this program makes an entry "ours".
LEMMA OthersInv ==
  ASSUME Inv, NEW m \in Mac, ForeignAdd(m) \/ ForeignRemove(m) \/ DriverReset(m)
  PROVE  Inv'
<1> USE DEF Inv, TypeOK, Sets, disk, locals, ForeignAdd, ForeignRemove, DriverReset, Holds, Noted
<1>1. TypeOK'
  BY EnvironmentTyped DEF Environment
<1>2. Ours' \subseteq Ours
  BY DEF Ours, Origin
<1>3. NoOrphan' /\ LockInv' /\ RoleInv'
  BY <1>2 DEF NoOrphan, LockInv, RoleInv
<1>4. AddInv' /\ DeleteInv' /\ MergeInv'
  BY <1>2 DEF AddInv, DeleteInv, MergeInv
<1> QED
  BY <1>1, <1>2, <1>3, <1>4

\* Where there is no --check, no process is in one.
LEMMA UncheckedStep ==
  ASSUME Untorn, Inv, NEW p \in Proc
  PROVE  ~Check(p)
<1>1. at[p] \notin {"probing", "taking", "forgetting"} /\ p \notin Checks
  BY DEF Inv, RoleInv, Untorn, Proc, Passers
<1> QED
  BY <1>1 DEF Check, CheckNote, CheckAdd, CheckTake, CheckForget

LEMMA InvPreserved ==
  ASSUME Untorn, NoRival, Inv, [Next]_vars
  PROVE  Inv'
<1>1. ASSUME NEW p \in Proc, Register(p) PROVE Inv'
  BY <1>1, RegisterNoteInv, RegisterRefusedInv, RegisterEndInv, AddOkInv,
     AddExistsInv, AddFailsInv DEF Register
<1>2. ASSUME NEW p \in Proc, Retire(p) PROVE Inv'
  BY <1>2, RetireLockInv, RetireEndInv, DeleteOkInv, DeleteFailsInv DEF Retire
<1>3. ASSUME NEW p \in Proc, Pass(p) PROVE Inv'
  BY <1>3, PassDumpInv, PassReadInv, PassStaleInv, MergeStepInv, PassDoneInv DEF Pass
<1>4. ASSUME NEW p \in Proc, Batch(p) PROVE Inv'
  BY <1>4, BatchReadInv, BatchRoomInv, BatchDoneInv DEF Batch
<1>5. ASSUME NEW p \in Proc, Flush(p) PROVE Inv'
  BY <1>5, FlushLockInv, FlushEndInv DEF Flush
<1>6. ASSUME NEW p \in Proc, Check(p) PROVE FALSE
  BY <1>6, UncheckedStep
<1>7. CASE Environment
  BY <1>7, CrashInv, OthersInv DEF Environment
<1>8. CASE UNCHANGED vars
  BY <1>8 DEF vars, disk, locals, Inv, TypeOK, NoOrphan, Ours, Noted, LockInv, RoleInv,
     AddInv, DeleteInv, MergeInv
<1> QED
  BY <1>1, <1>2, <1>3, <1>4, <1>5, <1>6, <1>7, <1>8 DEF Next, Step

LEMMA InitInv == Init => Inv
<1> SUFFICES ASSUME Init PROVE Inv
  OBVIOUS
<1>1. TypeOK
  BY DEF Init, Idle, TypeOK, Nothing, Sets, Stage, Purpose, Origin
<1>2. Ours = {}
  BY DEF Init, Ours
<1> QED
  BY <1>1, <1>2 DEF Init, Idle, Inv, NoOrphan, LockInv, RoleInv, AddInv, DeleteInv,
     MergeInv, Locked

(***************************************************************************)
(* Processes of one mind are no rivals.                                    *)
(***************************************************************************)

\* A finished operation has no lists left.
LEMMA MindFinish ==
  ASSUME TypeOK, MindInv, NEW p \in Proc, Finish(p)
  PROVE  MindInv'
<1>1. at'[p] = "idle" /\ want'[p] = {}
  BY DEF Finish, Go, TypeOK, Sets
<1>2. \A q \in Proc : q # p => want'[q] = want[q]
  BY DEF Finish, TypeOK, Sets
<1> QED
  BY <1>1, <1>2, FinishFacts DEF MindInv, Agreed

\* A step that leaves the lists of the others alone is judged by its own.
LEMMA MindRegister ==
  ASSUME Inv, MindInv, NEW p \in Proc, Register(p)
  PROVE  MindInv'
<1> USE DEF Inv, TypeOK, Sets
<1>1. CASE RegisterNote(p)
  BY <1>1 DEF RegisterNote, Go, MindInv, Agreed
<1>2. CASE op[p] # "pass" /\ Finish(p)
  BY <1>2, MindFinish
<1>3. ASSUME Registered(p), ~(op[p] # "pass" /\ Finish(p)), at[p] \in {"register", "adding"}
      PROVE  MindInv'
  BY <1>3 DEF Registered, Go, MindInv, Agreed
<1>4. ASSUME NEW m \in Mac, AddOk(p, m) \/ AddExists(p, m) \/ AddFails(p, m)
      PROVE  MindInv'
  <2>1. /\ at[p] = "adding" /\ UNCHANGED <<at, op, want, before>>
        /\ todo' = [todo EXCEPT ![p] = @ \ {m}]
        /\ \A q \in Proc : q # p => owned'[q] = owned[q] /\ settle'[q] = settle[q]
    BY <1>4 DEF AddOk, AddExists, AddFails, NextMac
  <2> QED BY <2>1 DEF MindInv, Agreed
<1> QED
  BY <1>1, <1>2, <1>3, <1>4 DEF Register, RegisterRefused, RegisterEnd

LEMMA MindRetire ==
  ASSUME Inv, MindInv, NEW p \in Proc, Retire(p)
  PROVE  MindInv'
<1> USE DEF Inv, TypeOK, Sets
<1>1. CASE RetireLock(p)
  BY <1>1 DEF RetireLock, Go, MindInv, Agreed
<1>2. ASSUME NEW m \in Mac, DeleteOk(p, m) \/ DeleteFails(p, m)
      PROVE  MindInv'
  <2>1. /\ at[p] \in {"deleting", "flushing"} /\ UNCHANGED <<at, op, want, before, owned>>
        /\ m \in todo[p] /\ todo' = [todo EXCEPT ![p] = @ \ {m}]
        /\ settle'[p] \subseteq settle[p] \cup {m}
        /\ \A q \in Proc : q # p => settle'[q] = settle[q]
    BY <1>2 DEF DeleteOk, DeleteFails, NextMac
  <2> QED BY <2>1 DEF MindInv, Agreed
<1>3. CASE RetireEnd(p)
  <2>1. /\ at[p] = "deleting" /\ UNCHANGED <<op, want, before>>
        /\ owned' = [owned EXCEPT ![p] = @ \ settle[p]]
        /\ \/ op[p] = "pass" /\ at' = [at EXCEPT ![p] = "merge"] /\ UNCHANGED todo
           \/ op[p] = "reflect" /\ at' = [at EXCEPT ![p] = "room"] /\ UNCHANGED todo
           \/ /\ op[p] = "shed" /\ at' = [at EXCEPT ![p] = "register"]
              /\ todo' = [todo EXCEPT ![p] = want[p]]
        /\ settle' = [settle EXCEPT ![p] = {}]
    BY <1>3 DEF RetireEnd, Go
  <2>2. op[p] = "pass" => (before[p] \ owned'[p]) \cap Agreed = {}
    BY <2>1 DEF MindInv, MergeInv
  <2> QED BY <2>1, <2>2 DEF MindInv, Agreed
<1> QED BY <1>1, <1>2, <1>3 DEF Retire

LEMMA MindPass ==
  ASSUME OneMind, Inv, MindInv, NEW p \in Proc, Pass(p)
  PROVE  MindInv'
<1> USE DEF Inv, TypeOK, Sets
<1>1. CASE PassDump(p)
  BY <1>1 DEF PassDump, Go, MindInv, Agreed
<1>2. CASE PassRead(p)
  <2>1. PICK note \in Readings, w \in Wants :
          /\ want' = [want EXCEPT ![p] = w]
          /\ todo' = [todo EXCEPT ![p] = w \ seen[p]]
          /\ Go(p, IF w \subseteq seen[p] THEN "stale" ELSE "register")
    BY <1>2 DEF PassRead
  <2>2. w = Agreed /\ Agreed' = Agreed
    BY DEF OneMind, Agreed
  <2>3. /\ at[p] = "dumped" /\ at'[p] \in {"stale", "register"} /\ want'[p] = Agreed
        /\ todo'[p] \subseteq Agreed
        /\ \A q \in Proc : q # p => /\ at'[q] = at[q] /\ want'[q] = want[q] /\ todo'[q] = todo[q]
                                    /\ before'[q] = before[q] /\ owned'[q] = owned[q]
        /\ UNCHANGED <<op, settle>>
    BY <1>2, <2>1, <2>2 DEF PassRead, Go
  <2> QED BY <2>2, <2>3 DEF MindInv
<1>3. CASE PassStale(p)
  <2>1. /\ at[p] = "stale" /\ at'[p] \in {"merge", "retire"}
        /\ todo'[p] = owned[p] \ want[p]
        /\ at'[p] = "merge" => owned[p] \subseteq want[p]
        /\ \A q \in Proc : q # p => at'[q] = at[q] /\ todo'[q] = todo[q]
        /\ UNCHANGED <<op, before, want, owned, settle>>
    BY <1>3 DEF PassStale, Go
  <2>2. todo'[p] \cap Agreed = {} /\ before[p] \ owned[p] = {}
    BY <2>1 DEF MindInv, MergeInv
  <2> QED BY <2>1, <2>2 DEF MindInv, Agreed
<1>4. CASE Merge(p) \/ PassDone(p)
  BY <1>4, MindFinish DEF Merge, PassDone
<1> QED BY <1>1, <1>2, <1>3, <1>4 DEF Pass

LEMMA MindBatch ==
  ASSUME Inv, MindInv, NEW p \in Proc, Batch(p)
  PROVE  MindInv'
<1> USE DEF Inv, TypeOK, Sets
<1>1. CASE BatchRead(p)
  <2>1. PICK w \in Wants : \E learnt \in SUBSET w : want' = [want EXCEPT ![p] = learnt]
    BY <1>1 DEF BatchRead
  <2>2. want'[p] \subseteq Agreed
    BY <2>1 DEF Agreed
  <2>3. /\ at'[p] \in {"retire", "room"} /\ op'[p] = "reflect"
        /\ \A q \in Proc : q # p => /\ at'[q] = at[q] /\ op'[q] = op[q] /\ todo'[q] = todo[q]
                                    /\ want'[q] = want[q]
        /\ UNCHANGED <<before, owned, settle>>
    BY <1>1, <2>1 DEF BatchRead, Go
  <2> QED BY <2>2, <2>3 DEF MindInv, Agreed
<1>2. CASE BatchRoom(p)
  <2>1. /\ at'[p] \in {"retire", "register"} /\ op'[p] = "shed"
        /\ at'[p] = "register" => todo'[p] = want[p]
        /\ \A q \in Proc : q # p => at'[q] = at[q] /\ op'[q] = op[q] /\ todo'[q] = todo[q]
        /\ UNCHANGED <<want, before, owned, settle>>
    BY <1>2 DEF BatchRoom, Go
  <2> QED BY <2>1 DEF MindInv, Agreed
<1>3. CASE BatchDone(p)
  BY <1>3, MindFinish DEF BatchDone
<1> QED BY <1>1, <1>2, <1>3 DEF Batch

LEMMA MindPreserved == OneMind /\ Inv /\ MindInv /\ [Next]_vars => MindInv'
<1> SUFFICES ASSUME OneMind, Inv, MindInv, [Next]_vars PROVE MindInv'
  OBVIOUS
<1> USE DEF Inv, TypeOK, Sets
<1>1. ASSUME NEW p \in Proc, Flush(p) PROVE MindInv'
  <2>1. CASE FlushLock(p)
    BY <2>1 DEF FlushLock, Go, MindInv, Agreed
  <2>2. CASE FlushEnd(p)
    BY <2>2, MindFinish DEF FlushEnd
  <2> QED BY <1>1, <2>1, <2>2 DEF Flush
<1>2. ASSUME NEW p \in Proc, Check(p) PROVE FALSE
  BY <1>2, UncheckedStep DEF OneMind
<1>3. CASE Environment
  <2>1. ASSUME NEW p \in Proc, Crash(p) PROVE MindInv'
    BY <2>1, MindFinish DEF Crash
  <2>2. ASSUME NEW m \in Mac, ForeignAdd(m) \/ ForeignRemove(m) \/ DriverReset(m)
        PROVE  MindInv'
    BY <2>2 DEF ForeignAdd, ForeignRemove, DriverReset, locals, MindInv, Agreed
  <2> QED BY <1>3, <2>1, <2>2 DEF Environment
<1>4. CASE UNCHANGED vars
  BY <1>4 DEF vars, locals, MindInv, Agreed
<1> QED
  BY <1>1, <1>2, <1>3, <1>4, MindRegister, MindRetire, MindPass, MindBatch DEF Next, Step

\* What is added is wanted by everybody, what a merge takes off the note by
\* nobody; and a process that is alone is not at two stages.
LEMMA MindsMeet == MindInv => NoRival
  BY DEF MindInv, NoRival

LEMMA OneIsNoRival == OnePasser /\ RoleInv => NoRival
<1> SUFFICES ASSUME OnePasser, RoleInv PROVE NoRival
  OBVIOUS
<1>1. ASSUME NEW p \in Proc, at[p] \in {"adding", "merge"} PROVE p \in Passers
  BY <1>1 DEF RoleInv, OnePasser, Untorn, Proc, Passers
<1> QED BY <1>1 DEF OnePasser, NoRival

\* The strengthening of NoOrphan that each step preserves: who may hold the
\* lock, and what a process holding it in the middle of an add, a removal or a
\* merge has already read, written and still owes the note.
THEOREM InvHolds == Orderly => (Spec => []Inv)
<1>1. CASE OnePasser
  <2>1. Inv /\ [Next]_vars => Inv'
    BY <1>1, InvPreserved, OneIsNoRival DEF OnePasser, Inv
  <2> QED
    BY <2>1, InitInv, PTL DEF Spec
<1>2. CASE OneMind
  <2>1. Init => MindInv
    BY DEF Init, Idle, Nothing, MindInv
  <2>2. Inv /\ MindInv /\ [Next]_vars => Inv' /\ MindInv'
    BY <1>2, InvPreserved, MindPreserved, MindsMeet DEF OneMind
  <2> QED
    BY <2>1, <2>2, InitInv, PTL DEF Spec
<1> QED
  BY <1>1, <1>2 DEF Orderly

\* Invariant 3: with one daemon (or one --once), or any number that want the
\* same, beside any number of flushes, whatever crashes, fails or meddles, no
\* entry of ours is ever without its line on record.
THEOREM NoOrphanEver == Orderly => (Spec => []NoOrphan)
<1> SUFFICES ASSUME Orderly PROVE Spec => []NoOrphan
  OBVIOUS
<1>1. Inv => NoOrphan
  BY DEF Inv
<1> QED
  BY <1>1, InvHolds, PTL

(***************************************************************************)
(* The protocol implements the ledger.                                     *)
(***************************************************************************)

\* A step that leaves our entries alone and ends without an orphan is a
\* stutter or a rewrite of the ledger.
LEMMA NoteStep ==
  ASSUME NoOrphan', TypeOK', Ours' = Ours
  PROVE  [L!Next]_(L!vars)
  BY DEF NoOrphan, TypeOK, Noted, L!Next, L!Account, L!vars

\* A step that leaves the note alone and adds at most one noted entry.
LEMMA PutStep ==
  ASSUME NEW m \in Noted, Noted' = Noted, Ours' = Ours \cup {m} \/ Ours' = Ours
  PROVE  [L!Next]_(L!vars)
  BY DEF L!Next, L!Put, L!vars

\* A step that leaves the note alone and takes at most one entry out.
LEMMA TakeStep ==
  ASSUME NEW m, Noted' = Noted, Ours' = Ours \ {m} \/ Ours' = Ours
  PROVE  [L!Next]_(L!vars)
<1>1. CASE m \in Ours
  BY <1>1 DEF L!Next, L!Take, L!vars
<1>2. CASE m \notin Ours
  BY <1>2 DEF L!vars
<1> QED
  BY <1>1, <1>2

LEMMA StepImplements ==
  ASSUME Untorn, Inv, Inv', [Next]_vars
  PROVE  [L!Next]_(L!vars)
<1> USE DEF Inv
<1>1. ASSUME Ours' = Ours PROVE [L!Next]_(L!vars)
  BY <1>1, NoteStep
<1>2. ASSUME NEW p \in Proc, NEW m \in Mac, AddOk(p, m) \/ AddFails(p, m)
      PROVE  [L!Next]_(L!vars)
  <2>1. Noted' = Noted /\ m \in Noted
    BY <1>2 DEF AddOk, AddFails, NextMac, Noted, disk, AddInv
  <2>2. Ours' = Ours \cup {m} \/ Ours' = Ours
    BY <1>2 DEF AddOk, AddFails, Holds, Ours, TypeOK, Origin
  <2> QED
    BY <2>1, <2>2, PutStep
<1>3. ASSUME NEW p \in Proc, NEW m \in Mac, DeleteOk(p, m) \/ DeleteFails(p, m)
      PROVE  [L!Next]_(L!vars)
  <2>1. Noted' = Noted
    BY <1>3 DEF DeleteOk, DeleteFails, Noted, disk
  <2>2. Ours' = Ours \ {m} \/ Ours' = Ours
    BY <1>3 DEF DeleteOk, DeleteFails, Holds, Ours, TypeOK, Origin
  <2> QED
    BY <2>1, <2>2, TakeStep
<1>4. ASSUME NEW m \in Mac, ForeignAdd(m) \/ ForeignRemove(m) \/ DriverReset(m)
      PROVE  [L!Next]_(L!vars)
  <2>1. Noted' = Noted
    BY <1>4 DEF ForeignAdd, ForeignRemove, DriverReset, Noted, disk
  <2>2. Ours' = Ours \ {m} \/ Ours' = Ours
    BY <1>4 DEF ForeignAdd, ForeignRemove, DriverReset, Holds, Ours, TypeOK, Origin
  <2> QED
    BY <2>1, <2>2, TakeStep
<1>5. CASE UNCHANGED card
  BY <1>1, <1>5 DEF Ours
<1>6. ASSUME NEW p \in Proc, Step(p), ~UNCHANGED card PROVE [L!Next]_(L!vars)
  <2>1. ~Check(p)
    BY UncheckedStep
  <2>2. ~Pass(p) /\ ~Batch(p) /\ ~Flush(p)
    BY <1>6 DEF Pass, PassDump, PassRead, PassStale, Merge, PassDone, Batch, BatchRead,
       BatchRoom, BatchDone, Flush, FlushLock, FlushEnd
  <2>3. CASE Register(p)
    BY <1>2, <1>6, <2>3 DEF Register, RegisterNote, RegisterRefused, RegisterEnd, AddExists
  <2>4. CASE Retire(p)
    BY <1>3, <1>6, <2>4 DEF Retire, RetireLock, RetireEnd
  <2> QED
    BY <1>6, <2>1, <2>2, <2>3, <2>4 DEF Step
<1>7. CASE Environment
  BY <1>4, <1>5, <1>7 DEF Environment, Crash
<1>8. CASE UNCHANGED vars
  BY <1>5, <1>8 DEF vars
<1> QED
  BY <1>5, <1>6, <1>7, <1>8 DEF Next

\* Every behaviour of the protocol is one of the ledger: entries go in under a
\* claim only, and a claim is let go only for what the card no longer holds.
THEOREM ImplementsLedger == Orderly => (Spec => Accounted)
<1> SUFFICES ASSUME Orderly PROVE Spec => Accounted
  OBVIOUS
<1>1. Init => L!Init
  BY DEF Init, L!Init, Noted, Ours
<1>2. Inv /\ Inv' /\ [Next]_vars => [L!Next]_(L!vars)
  BY StepImplements DEF Orderly, OnePasser, OneMind
<1> QED
  BY <1>1, <1>2, InvHolds, PTL DEF Spec, Accounted, L!Spec

(***************************************************************************)
(* What --flush promises.                                                  *)
(***************************************************************************)

\* A flush that has deleted all it read and ends says so truthfully: the list
\* it read under the lock is still the whole note, and the note names
\* everything of ours.
THEOREM FlushLeavesNothing == Orderly => (Spec => FlushIsClean)
<1> SUFFICES ASSUME Orderly PROVE Spec => FlushIsClean
  OBVIOUS
<1>1. ASSUME Inv, NEW p \in Flushes, at[p] = "flushing", settle[p] = owned[p]
      PROVE  Ours = {}
  <2>1. p \in Proc
    BY DEF Proc
  <2>2. owned[p] = lines /\ settle[p] \cap Ours = {}
    BY <1>1, <2>1 DEF Inv, DeleteInv
  <2>3. Ours \subseteq lines
    BY <1>1 DEF Inv, NoOrphan, Noted
  <2> QED
    BY <1>1, <2>2, <2>3
<1>2. Inv => [\A p \in Flushes :
                /\ at[p] = "flushing" /\ todo[p] = {}
                /\ settle[p] = owned[p]
                /\ at'[p] = "idle"
                => Ours = {}]_vars
  BY <1>1
<1> QED
  BY <1>2, InvHolds, PTL DEF FlushIsClean

(***************************************************************************)
(* A finished line stays while the card holds its entry, --check included. *)
(***************************************************************************)

\* What a write of the note makes of it: an append only adds lines.
LEMMA AppendKeeps ==
  ASSUME NEW S, Append(S) \/ AppendRefused(S)
  PROVE  lines \subseteq lines'
  BY DEF Append, AppendRefused, disk

LEMMA RewriteKeeps ==
  ASSUME NEW S, Rewrite(S)
  PROVE  lines \cap S \subseteq lines'
  BY DEF Rewrite, disk

\* Only the holder of the lock, or somebody who finds it free, writes the note.
LEMMA LineRegister ==
  ASSUME OneWriter, LineInv, NEW p \in Proc, Register(p)
  PROVE  LineInv'
<1> USE DEF LineInv, TypeOK, Sets, disk
<1>1. TypeOK'
  BY RegisterTyped
<1>2. CASE RegisterNote(p)
  <2>1. Ours' = Ours /\ \A q \in Proc : at[q] = "flushing" => FALSE
    BY <1>2 DEF RegisterNote, Ours, LockInv, Locked
  <2>2. LockInv' /\ RoleInv' /\ CheckRole'
    BY <1>2 DEF RegisterNote, Go, LockInv, Locked, RoleInv, CheckRole
  <2>3. TakenOff'
    BY <1>2, <2>1 DEF RegisterNote, Go, TakenOff, LockInv, Locked
  <2> QED BY <1>1, <2>2, <2>3
<1>3. CASE RegisterRefused(p)
  <2>1. Ours' = Ours /\ \A q \in Proc : at[q] \notin Locked
    BY <1>3 DEF RegisterRefused, Ours, LockInv
  <2>2. LockInv' /\ RoleInv' /\ CheckRole'
    <3>1. LockInv'
      BY <1>3, <2>1, RegisteredFacts DEF RegisterRefused, LockInv, Locked
    <3>2. RoleInv'
      BY <1>3, <2>1, RegisteredFacts DEF RegisterRefused, RoleInv
    <3>3. CheckRole'
      BY <1>3, <2>1, RegisteredFacts DEF RegisterRefused, CheckRole, Proc
    <3> QED BY <3>1, <3>2, <3>3
  <2>3. TakenOff'
    BY <1>3, <2>1, RegisteredFacts DEF RegisterRefused, TakenOff, Locked
  <2> QED BY <1>1, <2>2, <2>3
<1>4. CASE RegisterEnd(p)
  <2>1. Ours' = Ours /\ \A q \in Proc : q # p => at[q] \notin Locked
    BY <1>4 DEF RegisterEnd, Ours, LockInv, Locked
  <2>2. LockInv' /\ RoleInv' /\ CheckRole'
    <3>1. LockInv'
      BY <1>4, <2>1, RegisteredFacts DEF RegisterEnd, LockInv, Locked
    <3>2. RoleInv'
      BY <1>4, <2>1, RegisteredFacts DEF RegisterEnd, RoleInv
    <3>3. CheckRole'
      BY <1>4, <2>1, RegisteredFacts DEF RegisterEnd, CheckRole, Proc
    <3> QED BY <3>1, <3>2, <3>3
  <2>3. TakenOff'
    BY <1>4, <2>1, RegisteredFacts DEF RegisterEnd, TakenOff, Locked
  <2> QED BY <1>1, <2>2, <2>3
<1>5. ASSUME NEW m \in Mac, AddOk(p, m) \/ AddFails(p, m) PROVE LineInv'
  <2>1. Ours' \subseteq Ours \cup {m} /\ at[p] = "adding" /\ at' = at /\ op' = op
    BY <1>5 DEF AddOk, AddFails, NextMac, Holds, Ours, Origin
  <2>2. \A q \in Proc : q # p => at[q] \notin Locked /\ at[q] # "merge"
    BY <2>1, DistinctRoles DEF LockInv, Locked, RoleInv, CheckRole, OneWriter, Proc, Passers
  <2>3. LockInv' /\ RoleInv' /\ CheckRole'
    BY <1>5 DEF AddOk, AddFails, NextMac, LockInv, RoleInv, CheckRole
  <2>4. TakenOff'
    BY <1>5, <2>1, <2>2 DEF AddOk, AddFails, NextMac, TakenOff, Locked, Noted
  <2> QED BY <1>5, <2>3, <2>4, RegisterTyped DEF Register
<1>6. ASSUME NEW m \in Mac, AddExists(p, m) PROVE LineInv'
  <2>1. Ours' = Ours
    BY <1>6 DEF AddExists, Ours
  <2>2. LockInv' /\ RoleInv' /\ CheckRole'
    BY <1>6 DEF AddExists, NextMac, LockInv, RoleInv, CheckRole
  <2>3. TakenOff'
    BY <1>6, <2>1 DEF AddExists, NextMac, TakenOff, Noted
  <2> QED BY <1>6, <2>2, <2>3, RegisterTyped DEF Register
<1> QED
  BY <1>1, <1>2, <1>3, <1>4, <1>5, <1>6 DEF Register

LEMMA LineRetire ==
  ASSUME LineInv, NEW p \in Proc, Retire(p)
  PROVE  LineInv'
<1> USE DEF LineInv, TypeOK, Sets, disk
<1>1. TypeOK'
  BY RetireTyped
<1>2. CASE RetireLock(p)
  <2>1. Ours' = Ours
    BY <1>2 DEF RetireLock, Ours
  <2>2. LockInv' /\ RoleInv' /\ CheckRole'
    BY <1>2 DEF RetireLock, Go, LockInv, Locked, RoleInv, CheckRole
  <2>3. TakenOff'
    BY <1>2, <2>1 DEF RetireLock, Go, TakenOff, Noted
  <2> QED BY <1>1, <2>2, <2>3
<1>3. CASE RetireEnd(p)
  <2>1. Ours' = Ours /\ \A q \in Proc : q # p => at[q] \notin Locked
    BY <1>3 DEF RetireEnd, Ours, LockInv, Locked
  <2>2. /\ at'[p] \in {"merge", "room", "register"} /\ at[p] = "deleting"
        /\ at'[p] = "merge" => op[p] = "pass"
        /\ at'[p] = "register" => op[p] = "shed"
        /\ \A q \in Proc : q # p => at'[q] = at[q]
    BY <1>3 DEF RetireEnd, Go
  <2>3. LockInv' /\ RoleInv' /\ CheckRole'
    <3>1. LockInv'
      BY <1>3, <2>1, <2>2 DEF RetireEnd, LockInv, Locked
    <3>2. RoleInv'
      BY <1>3, <2>1, <2>2 DEF RetireEnd, RoleInv
    <3>3. CheckRole'
      BY <1>3, <2>1, <2>2 DEF RetireEnd, CheckRole, Proc
    <3> QED BY <3>1, <3>2, <3>3
  <2>4. TakenOff'
    BY <1>3, <2>1, <2>2 DEF RetireEnd, TakenOff, Locked
  <2> QED BY <1>1, <2>3, <2>4
<1>4. ASSUME NEW m \in Mac, DeleteOk(p, m) \/ DeleteFails(p, m) PROVE LineInv'
  <2>1. Ours' \subseteq Ours /\ (DeleteOk(p, m) => m \notin Ours')
    BY <1>4 DEF DeleteOk, DeleteFails, Holds, Ours, Origin
  <2>2. LockInv' /\ RoleInv' /\ CheckRole'
    BY <1>4 DEF DeleteOk, DeleteFails, NextMac, LockInv, RoleInv, CheckRole
  <2>3. TakenOff'
    BY <1>4, <2>1 DEF DeleteOk, DeleteFails, NextMac, TakenOff, Noted
  <2> QED BY <1>4, <2>2, <2>3, RetireTyped DEF Retire
<1> QED
  BY <1>1, <1>2, <1>3, <1>4 DEF Retire

LEMMA LinePass ==
  ASSUME LineInv, NEW p \in Proc, Pass(p) \/ Batch(p)
  PROVE  LineInv'
<1> USE DEF LineInv, TypeOK, Sets, disk
<1>1. TypeOK' /\ Ours' = Ours
  BY PassTyped, BatchTyped DEF Pass, Batch, PassDump, PassRead, PassStale, Merge, PassDone,
     BatchRead, BatchRoom, BatchDone, Ours
<1>2. CASE PassDump(p) \/ BatchRead(p)
  <2>1. /\ p \in Passers /\ at'[p] \in {"dumped", "retire", "room"}
        /\ at'[p] = "retire" => op'[p] = "reflect"
        /\ \A q \in Proc : q # p => at'[q] = at[q] /\ op'[q] = op[q]
    BY <1>2 DEF PassDump, BatchRead, Go, Passers
  <2>2. p \notin Flushes /\ p \notin Checks /\ at[p] = "idle"
    BY <1>2, <2>1, DistinctRoles DEF PassDump, BatchRead
  <2>3. UNCHANGED <<disk, lock, before, owned, fresh, settle>>
    BY <1>2 DEF PassDump, BatchRead
  <2>4. LockInv' /\ RoleInv' /\ CheckRole'
    <3>1. LockInv'
      BY <2>1, <2>2, <2>3 DEF LockInv, Locked
    <3>2. RoleInv'
      BY <2>1, <2>2, <2>3 DEF RoleInv
    <3>3. CheckRole'
      BY <2>1, <2>2, <2>3 DEF CheckRole, Proc
    <3> QED BY <3>1, <3>2, <3>3
  <2>5. TakenOff'
    BY <1>1, <2>1, <2>2, <2>3 DEF TakenOff, Noted
  <2> QED BY <1>1, <2>4, <2>5
<1>3. CASE PassRead(p)
  <2>1. /\ at[p] = "dumped" /\ at'[p] \in {"stale", "register"} /\ before'[p] = owned'[p]
        /\ \A q \in Proc : q # p => at'[q] = at[q] /\ before'[q] = before[q] /\ owned'[q] = owned[q]
    BY <1>3 DEF PassRead, Go
  <2>2. UNCHANGED <<disk, lock, op, fresh, settle>>
    BY <1>3 DEF PassRead
  <2>3. LockInv' /\ RoleInv' /\ CheckRole'
    <3>1. LockInv'
      BY <2>1, <2>2 DEF LockInv, Locked
    <3>2. RoleInv'
      BY <2>1, <2>2 DEF RoleInv
    <3>3. CheckRole'
      BY <2>1, <2>2 DEF CheckRole, Proc
    <3> QED BY <3>1, <3>2, <3>3
  <2>4. TakenOff'
    BY <1>1, <2>1, <2>2 DEF TakenOff, Noted
  <2> QED BY <1>1, <2>3, <2>4
<1>4. CASE PassStale(p) \/ BatchRoom(p)
  <2>1. /\ at[p] \in {"stale", "room"} /\ at'[p] \in {"merge", "retire", "register"}
        /\ at'[p] = "merge" => at[p] = "stale"
        /\ at'[p] \in {"register", "retire"} => op'[p] = "shed" \/ at[p] = "stale"
        /\ \A q \in Proc : q # p => at'[q] = at[q] /\ op'[q] = op[q]
    BY <1>4 DEF PassStale, BatchRoom, Go
  <2>2. UNCHANGED <<disk, lock, before, owned, fresh, settle>>
    BY <1>4 DEF PassStale, BatchRoom
  <2>3. LockInv' /\ RoleInv' /\ CheckRole'
    <3>1. LockInv'
      BY <2>1, <2>2 DEF LockInv, Locked
    <3>2. RoleInv'
      BY <2>1, <2>2 DEF RoleInv
    <3>3. CheckRole'
      BY <2>1, <2>2 DEF CheckRole, Proc
    <3> QED BY <3>1, <3>2, <3>3
  <2>4. TakenOff'
    <3>1. at'[p] = "merge" => before[p] \subseteq owned[p]
      BY <2>1 DEF TakenOff
    <3>2. at[p] = "stale" => before[p] \subseteq owned[p]
      BY DEF TakenOff
    <3> QED BY <1>1, <2>1, <2>2, <3>1, <3>2 DEF TakenOff, Noted
  <2> QED BY <1>1, <2>3, <2>4
<1>5. CASE Merge(p) \/ PassDone(p) \/ BatchDone(p)
  <2>1. Finish(p) /\ at[p] \in {"merge", "room"} /\ UNCHANGED lock
    BY <1>5 DEF Merge, PassDone, BatchDone
  <2>2. UNCHANGED disk \/ \A q \in Proc : at[q] \notin Locked
    BY <1>5 DEF Merge, PassDone, BatchDone, LockInv
  <2>3. LockInv' /\ RoleInv' /\ CheckRole'
    <3>1. LockInv'
      BY <2>1, FinishFacts DEF LockInv, Locked
    <3>2. RoleInv'
      BY <2>1, FinishFacts DEF RoleInv
    <3>3. CheckRole'
      BY <2>1, FinishFacts DEF CheckRole, Proc
    <3> QED BY <3>1, <3>2, <3>3
  <2>4. TakenOff'
    BY <1>1, <2>1, <2>2, FinishFacts DEF TakenOff, Locked, Noted
  <2> QED BY <1>1, <2>3, <2>4
<1> QED
  BY <1>2, <1>3, <1>4, <1>5 DEF Pass, Batch

LEMMA LineFlush ==
  ASSUME LineInv, NEW p \in Proc, Flush(p)
  PROVE  LineInv'
<1> USE DEF LineInv, TypeOK, Sets, disk
<1>1. TypeOK' /\ Ours' = Ours
  BY FlushTyped DEF Flush, FlushLock, FlushEnd, Ours
<1>2. CASE FlushLock(p)
  <2>1. LockInv' /\ RoleInv' /\ CheckRole'
    BY <1>2, DistinctRoles DEF FlushLock, Go, LockInv, Locked, RoleInv, CheckRole
  <2>2. TakenOff'
    BY <1>1, <1>2 DEF FlushLock, Go, TakenOff, Noted
  <2> QED BY <1>1, <2>1, <2>2
<1>3. CASE FlushEnd(p)
  <2>1. \A q \in Proc : q # p => at[q] \notin Locked
    BY <1>3 DEF FlushEnd, LockInv, Locked
  <2>2. LockInv' /\ RoleInv' /\ CheckRole'
    <3>1. LockInv'
      BY <1>3, <2>1, FinishFacts DEF FlushEnd, LockInv, Locked
    <3>2. RoleInv'
      BY <1>3, <2>1, FinishFacts DEF FlushEnd, RoleInv
    <3>3. CheckRole'
      BY <1>3, <2>1, FinishFacts DEF FlushEnd, CheckRole, Proc
    <3> QED BY <3>1, <3>2, <3>3
  <2>3. TakenOff'
    BY <1>1, <1>3, <2>1, FinishFacts DEF FlushEnd, TakenOff, Locked
  <2> QED BY <1>1, <2>2, <2>3
<1> QED BY <1>2, <1>3 DEF Flush

\* A check adds and removes nothing but the probe.
LEMMA LineCheck ==
  ASSUME LineInv, NEW p \in Proc, Check(p)
  PROVE  LineInv'
<1> USE DEF LineInv, TypeOK, Sets, disk, locals
<1>1. TypeOK'
  BY CheckTyped
<1>2. Ours' \subseteq Ours \cup {Probe}
  BY Constants DEF Check, CheckNote, CheckAdd, CheckTake, CheckForget, Holds, Ours, Origin
<1>3. p \in Checks /\ at[p] \notin Locked
  BY DEF Check, CheckNote, CheckAdd, CheckTake, CheckForget, RoleInv, CheckRole, Locked,
     Proc, Passers
<1>4. /\ at' \in [Proc -> Stage] /\ at'[p] \in {"idle", "probing", "taking", "forgetting"}
      /\ \A q \in Proc : q # p => at'[q] = at[q]
      /\ UNCHANGED <<lock, op, before, owned, fresh, settle>>
  BY <1>1, <1>3 DEF Check, CheckNote, CheckAdd, CheckTake, CheckForget, Go, CheckRole
<1>5. UNCHANGED disk \/ \A q \in Proc : at[q] \notin Locked
  BY DEF Check, CheckNote, CheckAdd, CheckTake, CheckForget, LockInv
<1>6. LockInv'
  BY <1>3, <1>4 DEF LockInv, Locked
<1>7. RoleInv' /\ CheckRole'
  <2>1. RoleInv'
    BY <1>3, <1>4, DistinctRoles DEF RoleInv
  <2>2. CheckRole'
    BY <1>3, <1>4 DEF CheckRole, Proc
  <2> QED BY <2>1, <2>2
<1>8. TakenOff'
  BY <1>2, <1>4, <1>5 DEF TakenOff, Locked, Noted
<1> QED BY <1>1, <1>6, <1>7, <1>8

LEMMA LineEnvironment ==
  ASSUME LineInv, Environment
  PROVE  LineInv'
<1> USE DEF LineInv, TypeOK, Sets, disk, locals
<1>1. TypeOK'
  BY EnvironmentTyped
<1>2. ASSUME NEW p \in Proc, Crash(p) PROVE LineInv'
  <2>1. Ours' = Ours /\ UNCHANGED disk /\ Finish(p) /\ lock' = lock \ {p}
    BY <1>2 DEF Crash, Ours
  <2>2. LockInv' /\ RoleInv' /\ CheckRole'
    <3>1. LockInv'
      BY <2>1, FinishFacts DEF LockInv, Locked
    <3>2. RoleInv'
      BY <2>1, FinishFacts DEF RoleInv
    <3>3. CheckRole'
      BY <2>1, FinishFacts DEF CheckRole, Proc
    <3> QED BY <3>1, <3>2, <3>3
  <2>3. TakenOff'
    BY <2>1, FinishFacts DEF TakenOff, Noted
  <2> QED BY <1>1, <2>2, <2>3
<1>3. ASSUME NEW m \in Mac, ForeignAdd(m) \/ ForeignRemove(m) \/ DriverReset(m)
      PROVE  LineInv'
  <2>1. Ours' \subseteq Ours /\ UNCHANGED <<disk, lock, at, locals>>
    BY <1>3 DEF ForeignAdd, ForeignRemove, DriverReset, Holds, Ours, Origin
  <2>2. LockInv' /\ RoleInv' /\ CheckRole' /\ TakenOff'
    BY <2>1 DEF LockInv, RoleInv, CheckRole, TakenOff, Noted
  <2> QED BY <1>1, <2>2
<1> QED BY <1>2, <1>3 DEF Environment

LEMMA LineStep ==
  ASSUME OneWriter, LineInv, [Next]_vars
  PROVE  LineInv'
<1>1. CASE UNCHANGED vars
  BY <1>1 DEF vars, disk, locals, LineInv, TypeOK, LockInv, RoleInv, CheckRole, TakenOff, Ours,
     Noted
<1>2. CASE Next
  BY <1>2, LineRegister, LineRetire, LinePass, LineFlush, LineCheck, LineEnvironment
     DEF Next, Step
<1> QED BY <1>1, <1>2

LEMMA LineInit == Init => LineInv
<1> SUFFICES ASSUME Init PROVE LineInv
  OBVIOUS
<1>1. TypeOK
  BY DEF Init, Idle, TypeOK, Nothing, Sets, Stage, Purpose, Origin
<1>2. Ours = {} /\ lock = {} /\ \A p \in Proc : at[p] = "idle"
  BY DEF Init, Idle, Ours
<1> QED
  BY <1>1, <1>2 DEF LineInv, LockInv, RoleInv, CheckRole, TakenOff, Locked, Proc

\* What a step takes off the note is off the card, is the probe's, or was this
\* batch's own line.
LEMMA LineLost ==
  ASSUME LineInv, Next, NEW m \in lines \ lines'
  PROVE  m = Probe \/ card[m] # "ours" \/ \E p \in Proc : m \in fresh[p]
<1> USE DEF LineInv
<1>1. m \in Mac /\ (card[m] = "ours" => m \in Ours)
  BY DEF TypeOK, Ours
<1>2. lines' # lines
  OBVIOUS
<1>3. PICK p \in Proc : Step(p)
  BY <1>2 DEF Next, Environment, Crash, ForeignAdd, ForeignRemove, DriverReset, disk
<1>4. CASE Register(p)
  <2>1. RegisterEnd(p)
    BY <1>4, AppendKeeps DEF Register, RegisterNote, RegisterRefused, AddOk, AddExists, AddFails, disk
  <2>2. m \in settle[p]
    BY <2>1, RewriteKeeps DEF RegisterEnd, Noted
  <2> QED BY <2>1, <2>2 DEF RegisterEnd, TakenOff
<1>5. CASE Retire(p)
  <2>1. RetireEnd(p)
    BY <1>5 DEF Retire, RetireLock, DeleteOk, DeleteFails, disk
  <2>2. m \in settle[p]
    BY <2>1, RewriteKeeps DEF RetireEnd, Noted
  <2> QED BY <1>1, <2>1, <2>2 DEF RetireEnd, TakenOff
<1>6. CASE Pass(p) \/ Batch(p)
  <2>1. Merge(p)
    BY <1>6 DEF Pass, Batch, PassDump, PassRead, PassStale, PassDone, BatchRead, BatchRoom,
       BatchDone, disk
  <2>2. m \in before[p] \ owned[p]
    BY <2>1, RewriteKeeps DEF Merge, Noted
  <2> QED BY <1>1, <2>1, <2>2 DEF Merge, TakenOff
<1>7. CASE Flush(p)
  <2>1. FlushEnd(p)
    BY <1>7 DEF Flush, FlushLock, disk
  <2>2. m \in settle[p]
    BY <2>1, RewriteKeeps DEF FlushEnd, TakenOff, Noted
  <2> QED BY <1>1, <2>1, <2>2 DEF FlushEnd, TakenOff
<1>8. CASE Check(p)
  <2>1. CheckForget(p)
    BY <1>8, AppendKeeps DEF Check, CheckNote, CheckAdd, CheckTake, disk
  <2> QED BY <2>1, RewriteKeeps DEF CheckForget, Noted
<1> QED BY <1>3, <1>4, <1>5, <1>6, <1>7, <1>8 DEF Step

\* A finished line stays while the card holds the entry it names for us, with
\* any number of checks and flushes beside one passing process, whatever
\* fails: appends may tear anywhere, also before the newline (drop_line_locked,
\* forget_locked, unnote_locked, save_owned_merged).
THEOREM FinishedLinesAreKept == OneWriter => (Spec => FinishedLinesStay)
<1> SUFFICES ASSUME OneWriter PROVE Spec => FinishedLinesStay
  OBVIOUS
<1>1. LineInv /\ [Next]_vars => LineInv'
  BY LineStep
<1>2. LineInv /\ [Next]_vars =>
        [\A m \in lines \ lines' :
           m = Probe \/ card[m] # "ours" \/ \E p \in Proc : m \in fresh[p]]_vars
  BY LineLost
<1> QED
  BY <1>1, <1>2, LineInit, PTL DEF Spec, FinishedLinesStay

(***************************************************************************)
(* A process that is alone with the card removes what is on record only.   *)
(***************************************************************************)

LEMMA OneProcess ==
  ASSUME Alone
  PROVE  Proc = Passers /\ \A p, q \in Proc : p = q
  BY DEF Alone, OnePasser, Untorn, Proc, Passers

\* Without torn appends the last line always has its newline.
LEMMA ClosedNote ==
  ASSUME Alone, open = {}, NEW S, Append(S) \/ AppendRefused(S) \/ Rewrite(S)
  PROVE  open' = {}
  BY DEF Alone, OnePasser, Untorn, Append, AppendRefused, Rewrite, disk

\* The next stage of a registration, as far as its lists are concerned.
LEMMA RegisteredLists ==
  ASSUME TypeOK, NEW p \in Proc, Registered(p)
  PROVE  /\ op'[p] = "pass" /\ settle'[p] = {}
         /\ \/ op[p] = "pass" /\ at'[p] = "stale" /\ UNCHANGED <<want, before, owned>>
            \/ at'[p] = "idle"
<1>1. CASE op[p] # "pass" /\ Finish(p)
  BY <1>1 DEF Finish, Go, TypeOK, Sets
<1>2. CASE ~(op[p] # "pass" /\ Finish(p))
  BY <1>2 DEF Registered, Go, TypeOK, Sets
<1> QED BY <1>1, <1>2

LEMMA AloneRegisterNote ==
  ASSUME Alone, AloneInv, NEW p \in Proc, RegisterNote(p)
  PROVE  AloneInv'
<1> USE DEF AloneInv, TypeOK, Sets, RegisterNote, Go, Noted
<1>1. TypeOK' /\ open' = {} /\ lines \subseteq lines' /\ todo[p] \subseteq lines'
  BY RegisterTyped, ClosedNote, AppendKeeps DEF Register, Append, disk
<1>2. LockInv' /\ RoleInv'
  BY DEF LockInv, Locked, RoleInv
<1>3. PassListed'
  BY <1>1, OneProcess DEF PassListed
<1>4. AddListed'
  BY <1>1, OneProcess DEF AddListed, PassListed, KeepListed
<1>5. KeepListed' /\ Begun'
  BY <1>1, OneProcess DEF KeepListed, Begun, Locked
<1> QED BY <1>1, <1>2, <1>3, <1>4, <1>5

LEMMA AloneRegisterRefused ==
  ASSUME Alone, AloneInv, NEW p \in Proc, RegisterRefused(p)
  PROVE  AloneInv'
<1> USE DEF AloneInv, TypeOK, Sets, RegisterRefused, Noted
<1>1. TypeOK' /\ open' = {} /\ lines \subseteq lines'
  BY RegisterTyped, ClosedNote, AppendKeeps DEF Register
<1>2. LockInv'
  BY RegisteredFacts DEF LockInv, Locked
<1>3. RoleInv'
  BY RegisteredFacts DEF RoleInv
<1>4. PassListed'
  BY <1>1, OneProcess, RegisteredLists DEF PassListed
<1>5. AddListed' /\ KeepListed' /\ Begun'
  BY <1>1, OneProcess, RegisteredLists DEF AddListed, KeepListed, Begun
<1> QED BY <1>1, <1>2, <1>3, <1>4, <1>5

LEMMA AloneAdd ==
  ASSUME Alone, AloneInv, NEW p \in Proc, NEW m \in Mac,
         AddOk(p, m) \/ AddExists(p, m) \/ AddFails(p, m)
  PROVE  AloneInv'
<1> USE DEF AloneInv, TypeOK, Sets, NextMac
<1>1. TypeOK'
  BY RegisterTyped DEF Register
<1>2. at[p] = "adding" /\ UNCHANGED <<disk, lock, at, op, before, want, fresh, quiet>>
  BY DEF AddOk, AddExists, AddFails
<1>3. LockInv' /\ RoleInv' /\ open' = {} /\ lines' = lines
  BY <1>2 DEF LockInv, RoleInv, disk
<1>4. /\ todo'[p] = todo[p] \ {m} /\ m \in todo[p]
      /\ \/ owned'[p] = owned[p] \cup {m} /\ settle'[p] = settle[p]
         \/ owned'[p] = owned[p] /\ settle'[p] = settle[p] \cup ({m} \cap fresh[p])
         \/ owned'[p] = owned[p] /\ settle'[p] = settle[p]
  BY DEF AddOk, AddExists, AddFails
<1>5. PassListed'
  BY <1>2, <1>3, <1>4, OneProcess DEF PassListed, AddListed
<1>6. AddListed'
  BY <1>2, <1>3, <1>4, OneProcess DEF AddListed
<1>7. KeepListed' /\ Begun'
  BY <1>2, <1>3, OneProcess DEF KeepListed, Begun, Locked
<1> QED BY <1>1, <1>3, <1>5, <1>6, <1>7

LEMMA AloneRegisterEnd ==
  ASSUME Alone, AloneInv, NEW p \in Proc, RegisterEnd(p)
  PROVE  AloneInv'
<1> USE DEF AloneInv, TypeOK, Sets, RegisterEnd, Noted
<1>1. TypeOK'
  BY RegisterTyped DEF Register
<1>7. open' = {} /\ lines \ settle[p] \subseteq lines'
  BY ClosedNote, RewriteKeeps
<1>2. LockInv'
  BY RegisteredFacts DEF LockInv, Locked
<1>3. RoleInv'
  BY RegisteredFacts DEF RoleInv
<1>4. quiet[p] \subseteq lines' /\ (op[p] = "pass" => owned[p] \subseteq lines')
  BY <1>7 DEF AddListed, KeepListed, PassListed
<1>5. PassListed'
  BY <1>4, OneProcess, RegisteredLists DEF PassListed
<1>6. AddListed' /\ KeepListed' /\ Begun'
  BY <1>4, OneProcess, RegisteredLists DEF AddListed, KeepListed, Begun
<1> QED BY <1>1, <1>2, <1>3, <1>5, <1>6, <1>7

LEMMA AloneRetireLock ==
  ASSUME Alone, AloneInv, NEW p \in Proc, RetireLock(p)
  PROVE  AloneInv'
<1> USE DEF AloneInv, TypeOK, Sets, RetireLock, Go, disk
<1>1. TypeOK' /\ open' = {} /\ lines' = lines
  BY RetireTyped DEF Retire
<1>2. LockInv' /\ RoleInv'
  BY DEF LockInv, Locked, RoleInv
<1>3. settle[p] = {} /\ settle'[p] = {}
  BY DEF Begun, Locked
<1>4. PassListed' /\ AddListed' /\ KeepListed' /\ Begun'
  BY <1>1, <1>3, OneProcess DEF PassListed, AddListed, KeepListed, Begun, Locked
<1> QED BY <1>1, <1>2, <1>4

LEMMA AloneDelete ==
  ASSUME Alone, AloneInv, NEW p \in Proc, NEW m \in Mac, DeleteOk(p, m) \/ DeleteFails(p, m)
  PROVE  AloneInv'
<1> USE DEF AloneInv, TypeOK, Sets, NextMac
<1>1. TypeOK'
  BY RetireTyped DEF Retire
<1>2. at[p] \in {"deleting", "flushing"} /\ UNCHANGED <<disk, lock, at, op, before, want, owned, fresh, quiet>>
  BY DEF DeleteOk, DeleteFails
<1>3. LockInv' /\ RoleInv' /\ open' = {} /\ lines' = lines
  BY <1>2 DEF LockInv, RoleInv, disk
<1>4. at[p] = "deleting"
  BY <1>2, OneProcess DEF RoleInv
<1>5. m \in todo[p] /\ todo'[p] = todo[p] \ {m} /\ settle'[p] \in {settle[p], settle[p] \cup {m}}
  BY DEF DeleteOk, DeleteFails
<1>6. PassListed'
  BY <1>2, <1>3, <1>4, <1>5, OneProcess DEF PassListed
<1>7. AddListed' /\ KeepListed' /\ Begun'
  BY <1>2, <1>3, <1>4, <1>5, OneProcess DEF AddListed, KeepListed, Begun, Locked
<1> QED BY <1>1, <1>3, <1>6, <1>7

LEMMA AloneRetireEnd ==
  ASSUME Alone, AloneInv, NEW p \in Proc, RetireEnd(p)
  PROVE  AloneInv'
<1> USE DEF AloneInv, TypeOK, Sets, RetireEnd, Go, Noted
<1>1. TypeOK'
  BY RetireTyped DEF Retire
<1>7. open' = {} /\ lines \ settle[p] \subseteq lines'
  BY ClosedNote, RewriteKeeps
<1>2. /\ at'[p] \in {"merge", "room", "register"} /\ at' \in [Proc -> Stage]
      /\ at'[p] = "merge" <=> op[p] = "pass"
      /\ at'[p] = "register" => op[p] = "shed"
      /\ op' = op /\ want' = want /\ before' = before /\ settle'[p] = {}
      /\ owned'[p] = owned[p] \ settle[p]
      /\ IF op[p] = "shed" THEN quiet'[p] = quiet[p] \ settle[p] ELSE quiet' = quiet
  BY <1>1 DEF Purpose
<1>3. LockInv' /\ RoleInv'
  BY <1>2 DEF LockInv, Locked, RoleInv
<1>4. PassListed'
  BY <1>2, OneProcess DEF PassListed
<1>5. AddListed'
  BY <1>2, OneProcess DEF AddListed
<1>6. KeepListed' /\ Begun'
  BY <1>2, <1>7, OneProcess DEF KeepListed, Begun
<1> QED BY <1>1, <1>3, <1>4, <1>5, <1>6, <1>7

LEMMA AlonePassReads ==
  ASSUME Alone, AloneInv, NEW p \in Proc, PassDump(p) \/ PassRead(p)
  PROVE  AloneInv'
<1> USE DEF AloneInv, TypeOK, Sets, Go, disk
<1>1. TypeOK' /\ open' = {} /\ lines' = lines
  BY PassTyped DEF Pass, PassDump, PassRead
<1>2. CASE PassDump(p)
  <2>1. LockInv' /\ RoleInv'
    BY <1>2, DistinctRoles DEF PassDump, LockInv, Locked, RoleInv, Passers
  <2>2. PassListed' /\ AddListed' /\ KeepListed' /\ Begun'
    BY <1>1, <1>2, OneProcess DEF PassDump, PassListed, AddListed, KeepListed, Begun, Locked
  <2> QED BY <1>1, <2>1, <2>2
<1>3. CASE PassRead(p)
  <2>1. /\ at[p] = "dumped" /\ at'[p] \in {"stale", "register"}
        /\ before'[p] = owned'[p] /\ owned'[p] \subseteq lines
        /\ quiet'[p] \subseteq want'[p] \cap owned'[p]
    BY <1>3, Constants DEF PassRead, Readings, Noted
  <2>2. UNCHANGED lock
    BY <1>3 DEF PassRead
  <2>3. LockInv' /\ RoleInv'
    BY <2>1, <2>2, OneProcess DEF LockInv, Locked, RoleInv
  <2>5. op'[p] = "pass" /\ settle'[p] = {}
    BY <1>3 DEF PassRead, Begun, Locked
  <2>4. PassListed' /\ AddListed' /\ KeepListed' /\ Begun'
    BY <1>1, <2>1, <2>5, OneProcess DEF PassListed, AddListed, KeepListed, Begun
  <2> QED BY <1>1, <2>3, <2>4
<1> QED BY <1>2, <1>3

LEMMA AlonePassWorks ==
  ASSUME Alone, AloneInv, NEW p \in Proc, PassStale(p) \/ Merge(p) \/ PassDone(p)
  PROVE  AloneInv'
<1> USE DEF AloneInv, TypeOK, Sets
<1>1. TypeOK'
  BY PassTyped DEF Pass
<1>2. CASE PassStale(p)
  <2>1. /\ at[p] = "stale" /\ at'[p] \in {"merge", "retire"}
        /\ todo'[p] = owned[p] \ want[p]
        /\ at'[p] = "merge" => owned[p] \subseteq want[p]
        /\ UNCHANGED <<disk, lock, op, before, want, owned, fresh, settle, quiet>>
    BY <1>2 DEF PassStale, Go
  <2>2. LockInv' /\ RoleInv' /\ open' = {} /\ lines' = lines
    BY <2>1, OneProcess DEF LockInv, Locked, RoleInv, disk
  <2>3. op[p] = "pass" /\ settle[p] = {}
    BY <2>1 DEF Begun, Locked
  <2>4. PassListed'
    BY <2>1, <2>2, <2>3, OneProcess DEF PassListed
  <2>5. AddListed' /\ KeepListed' /\ Begun'
    BY <2>1, <2>2, <2>3, OneProcess DEF AddListed, KeepListed, PassListed, Begun
  <2> QED BY <1>1, <2>2, <2>4, <2>5
<1>3. CASE Merge(p) \/ PassDone(p)
  <2>1. Finish(p) /\ at[p] = "merge" /\ UNCHANGED <<lock, quiet>> /\ at'[p] = "idle"
    BY <1>3 DEF Merge, PassDone, Finish, Go
  <2>2. open' = {} /\ lines \ (before[p] \ owned[p]) \subseteq lines'
    BY <1>3, ClosedNote, RewriteKeeps DEF Merge, PassDone, disk, Noted
  <2>3. LockInv' /\ RoleInv'
    BY <2>1, OneProcess DEF LockInv, Locked, RoleInv
  <2>5. op'[p] = "pass" /\ settle'[p] = {} /\ quiet[p] \subseteq lines'
    BY <2>1, <2>2 DEF Finish, Begun, Locked, PassListed, KeepListed
  <2>4. PassListed' /\ AddListed' /\ KeepListed' /\ Begun'
    BY <2>1, <2>2, <2>5, OneProcess DEF PassListed, AddListed, KeepListed, Begun
  <2> QED BY <1>1, <2>2, <2>3, <2>4
<1> QED BY <1>2, <1>3

LEMMA AloneBatch ==
  ASSUME Alone, AloneInv, NEW p \in Proc, Batch(p)
  PROVE  AloneInv'
<1> USE DEF AloneInv, TypeOK, Sets, disk
<1>1. TypeOK'
  BY BatchTyped
<1>2. CASE BatchRead(p)
  <2>1. PICK note \in Readings, w \in Wants :
        \E ours \in SUBSET (note \ w), learnt \in SUBSET w :
          /\ Go(p, IF ours # {} THEN "retire" ELSE "room")
          /\ want' = [want EXCEPT ![p] = learnt]
          /\ todo' = [todo EXCEPT ![p] = ours]
          /\ quiet' = [quiet EXCEPT ![p] = @ \ ours]
    BY <1>2 DEF BatchRead
  <2>2. PICK ours \in SUBSET (note \ w), learnt \in SUBSET w :
          /\ Go(p, IF ours # {} THEN "retire" ELSE "room")
          /\ want' = [want EXCEPT ![p] = learnt]
          /\ todo' = [todo EXCEPT ![p] = ours]
          /\ quiet' = [quiet EXCEPT ![p] = @ \ ours]
    BY <2>1
  <2>3. ours \subseteq lines
    BY DEF Readings, Noted
  <2>4. /\ at[p] = "idle" /\ at'[p] \in {"retire", "room"}
        /\ op'[p] = "reflect" /\ todo'[p] = ours /\ quiet'[p] = quiet[p] \ ours
        /\ UNCHANGED <<disk, card, lock, seen, before, owned, fresh, settle>>
    BY <1>2, <2>2 DEF BatchRead, Go
  <2>5. settle[p] = {}
    BY <2>4 DEF Begun, Locked
  <2>6. LockInv' /\ RoleInv' /\ open' = {} /\ lines' = lines
    <3>1. p \in Passers /\ at'[p] \notin Locked /\ at[p] \notin Locked
      BY <2>4, OneProcess DEF Locked
    <3>2. LockInv' /\ open' = {} /\ lines' = lines
      BY <2>4, <3>1, OneProcess DEF LockInv
    <3>3. RoleInv'
      BY <2>4, <3>1, OneProcess, DistinctRoles DEF RoleInv
    <3> QED BY <3>2, <3>3
  <2>7. PassListed' /\ AddListed'
    BY <2>4, OneProcess DEF PassListed, AddListed
  <2>8. KeepListed' /\ Begun'
    BY <2>3, <2>4, <2>5, OneProcess DEF KeepListed, Begun
  <2> QED BY <1>1, <2>6, <2>7, <2>8
<1>3. CASE BatchRoom(p)
  <2>1. PICK shed \in SUBSET (quiet[p] \ want[p]) :
          /\ Go(p, IF shed # {} THEN "retire" ELSE "register")
          /\ todo' = [todo EXCEPT ![p] = IF shed # {} THEN shed ELSE want[p]]
    BY <1>3 DEF BatchRoom
  <2>2. /\ at[p] = "room" /\ op'[p] = "shed"
        /\ \/ at'[p] = "retire" /\ todo'[p] = shed
           \/ at'[p] = "register"
        /\ UNCHANGED <<disk, card, lock, seen, before, want, owned, fresh, settle, quiet>>
    BY <1>3, <2>1 DEF BatchRoom, Go
  <2>3. settle[p] = {} /\ quiet[p] \subseteq lines
    BY <2>2 DEF Begun, Locked, KeepListed
  <2>4. LockInv' /\ RoleInv' /\ open' = {} /\ lines' = lines
    BY <2>2, OneProcess DEF LockInv, Locked, RoleInv
  <2>5. PassListed' /\ AddListed'
    BY <2>2, OneProcess DEF PassListed, AddListed
  <2>6. KeepListed' /\ Begun'
    BY <2>1, <2>2, <2>3, OneProcess DEF KeepListed, Begun
  <2> QED BY <1>1, <2>4, <2>5, <2>6
<1>4. CASE BatchDone(p)
  <2>1. /\ at[p] = "room" /\ at'[p] = "idle" /\ op'[p] = "pass" /\ settle'[p] = {}
        /\ UNCHANGED <<disk, lock, quiet>>
    BY <1>4 DEF BatchDone, Finish, Go
  <2>2. LockInv' /\ RoleInv' /\ open' = {} /\ lines' = lines
    BY <2>1, OneProcess DEF LockInv, Locked, RoleInv
  <2>3. PassListed' /\ AddListed' /\ KeepListed' /\ Begun'
    BY <2>1, <2>2, OneProcess DEF PassListed, AddListed, KeepListed, Begun
  <2> QED BY <1>1, <2>2, <2>3
<1> QED BY <1>2, <1>3, <1>4 DEF Batch

LEMMA AloneEnvironment ==
  ASSUME Alone, AloneInv, Environment
  PROVE  AloneInv'
<1> USE DEF AloneInv, TypeOK, Sets, disk, locals
<1>1. TypeOK'
  BY EnvironmentTyped
<1>2. ASSUME NEW p \in Proc, Crash(p)
      PROVE  AloneInv'
  <2>1. /\ at'[p] = "idle" /\ op'[p] = "pass" /\ settle'[p] = {} /\ quiet'[p] = {}
        /\ lock' = lock \ {p} /\ UNCHANGED disk
    BY <1>2 DEF Crash, Finish, Go
  <2>2. LockInv' /\ RoleInv' /\ open' = {} /\ lines' = lines
    BY <2>1, OneProcess DEF LockInv, Locked, RoleInv
  <2>3. PassListed' /\ AddListed' /\ KeepListed' /\ Begun'
    BY <2>1, <2>2, OneProcess DEF PassListed, AddListed, KeepListed, Begun
  <2> QED BY <1>1, <2>2, <2>3
<1>3. ASSUME NEW m \in Mac, ForeignAdd(m) \/ ForeignRemove(m) \/ DriverReset(m)
      PROVE  AloneInv'
  <2>1. UNCHANGED <<disk, lock, at, locals, quiet>>
    BY <1>3 DEF ForeignAdd, ForeignRemove, DriverReset
  <2> QED
    BY <1>1, <2>1 DEF LockInv, RoleInv, PassListed, AddListed, KeepListed, Begun
<1> QED BY <1>2, <1>3 DEF Environment

LEMMA AloneStep == Alone /\ AloneInv /\ [Next]_vars => AloneInv'
<1> SUFFICES ASSUME Alone, AloneInv, [Next]_vars PROVE AloneInv'
  OBVIOUS
<1>1. ASSUME NEW p \in Proc, Step(p) PROVE AloneInv'
  <2>1. CASE Register(p)
    BY <2>1, AloneRegisterNote, AloneRegisterRefused, AloneAdd, AloneRegisterEnd DEF Register
  <2>2. CASE Retire(p)
    BY <2>2, AloneRetireLock, AloneDelete, AloneRetireEnd DEF Retire
  <2>3. CASE Pass(p)
    BY <2>3, AlonePassReads, AlonePassWorks DEF Pass
  <2>4. ~Flush(p) /\ ~Check(p)
    <3>1. p \notin Flushes /\ p \notin Checks
      BY DEF Alone, OnePasser, Untorn
    <3>2. at[p] \notin {"flushing", "probing", "taking", "forgetting"}
      BY <3>1 DEF AloneInv, RoleInv, Proc, Passers
    <3> QED BY <3>1, <3>2 DEF Flush, Check, FlushLock, FlushEnd, CheckNote, CheckAdd, CheckTake,
               CheckForget
  <2> QED BY <1>1, <2>1, <2>2, <2>3, <2>4, AloneBatch DEF Step
<1>2. CASE UNCHANGED vars
  BY <1>2 DEF vars, disk, locals, AloneInv, TypeOK, LockInv, RoleInv, PassListed, AddListed,
     KeepListed, Begun
<1> QED BY <1>1, <1>2, AloneEnvironment DEF Next

LEMMA AloneInit == Init => AloneInv
<1> SUFFICES ASSUME Init PROVE AloneInv
  OBVIOUS
<1>1. TypeOK
  BY DEF Init, Idle, TypeOK, Nothing, Sets, Stage, Purpose, Origin
<1> QED
  BY <1>1 DEF Init, Idle, Nothing, AloneInv, LockInv, Locked, RoleInv, PassListed, AddListed,
     KeepListed, Begun

\* What leaves the card by the environment is somebody else's doing.
LEMMA OthersRemove ==
  ASSUME TypeOK, Environment, NEW m \in Mac, card[m] # "absent", card'[m] = "absent"
  PROVE  ForeignRemove(m) \/ DriverReset(m)
<1> USE DEF TypeOK, Holds
<1>1. ~ \E p \in Proc : Crash(p)
  BY DEF Crash
<1>2. PICK n \in Mac : ForeignAdd(n) \/ ForeignRemove(n) \/ DriverReset(n)
  BY <1>1 DEF Environment
<1>3. n = m
  BY <1>2 DEF ForeignAdd, ForeignRemove, DriverReset
<1>4. ~ForeignAdd(n)
  BY <1>3 DEF ForeignAdd
<1> QED BY <1>2, <1>3, <1>4

\* The program's own removals happen in one place, from the list of the section.
LEMMA OwnRemoval ==
  ASSUME TypeOK, NEW p \in Proc, Step(p), ~Check(p),
         NEW m \in Mac, card[m] # "absent", card'[m] = "absent"
  PROVE  m \in todo[p] /\ at[p] \in {"deleting", "flushing"}
<1> USE DEF TypeOK, Holds
<1>1. card' # card
  OBVIOUS
<1>2. ~Pass(p) /\ ~Batch(p) /\ ~Flush(p)
  BY <1>1 DEF Pass, Batch, Flush, PassDump, PassRead, PassStale, Merge, PassDone,
     BatchRead, BatchRoom, BatchDone, FlushLock, FlushEnd
<1>3. ~Register(p)
  <2>1. ~RegisterNote(p) /\ ~RegisterRefused(p) /\ ~RegisterEnd(p)
    BY <1>1 DEF RegisterNote, RegisterRefused, RegisterEnd
  <2>2. ASSUME NEW n \in Mac, AddOk(p, n) \/ AddExists(p, n) \/ AddFails(p, n)
        PROVE  FALSE
    BY <2>2 DEF AddOk, AddExists, AddFails
  <2> QED BY <2>1, <2>2 DEF Register
<1>4. Retire(p)
  BY <1>2, <1>3 DEF Step
<1>5. PICK n \in Mac : DeleteOk(p, n) \/ DeleteFails(p, n)
  BY <1>1, <1>4 DEF Retire, RetireLock, RetireEnd
<1> QED BY <1>5 DEF DeleteOk, DeleteFails, NextMac

LEMMA AloneRemoves ==
  ASSUME Alone, AloneInv, Next, NEW m \in Mac, card[m] # "absent", card'[m] = "absent"
  PROVE  m \in Noted \/ ForeignRemove(m) \/ DriverReset(m)
<1> USE DEF AloneInv
<1>1. CASE Environment
  BY <1>1, OthersRemove
<1>2. ASSUME NEW p \in Proc, Step(p)
      PROVE  m \in Noted
  <2>1. p \notin Flushes /\ p \notin Checks
    BY DEF Alone, OnePasser, Untorn
  <2>2. at[p] \notin {"flushing", "probing", "taking", "forgetting"}
    BY <2>1 DEF RoleInv, Proc, Passers
  <2>3. ~Check(p)
    BY <2>1, <2>2 DEF Check, CheckNote, CheckAdd, CheckTake, CheckForget
  <2> QED BY <1>2, <2>2, <2>3, OwnRemoval DEF KeepListed, Noted
<1> QED BY <1>1, <1>2 DEF Next

\* What nobody else writes, nobody else has an entry in.
LEMMA OursStep == TypeOK /\ Unshared /\ AllOurs /\ [Next]_vars => AllOurs'
<1> SUFFICES ASSUME TypeOK, Unshared, AllOurs, Next, card' # card PROVE AllOurs'
  BY DEF AllOurs, vars
<1> USE DEF TypeOK, AllOurs, Holds
<1>1. CASE Environment
  <2>1. ASSUME NEW m \in Mac, ForeignAdd(m) \/ ForeignRemove(m) \/ DriverReset(m)
        PROVE  AllOurs'
    BY <2>1 DEF ForeignAdd, ForeignRemove, DriverReset, Unshared
  <2> QED BY <1>1, <2>1 DEF Environment, Crash
<1>2. ASSUME NEW p \in Proc, Step(p)
      PROVE  AllOurs'
  <2>1. CASE Register(p)
    <3>1. PICK m \in Mac : AddOk(p, m) \/ AddFails(p, m)
      BY <2>1 DEF Register, RegisterNote, RegisterRefused, RegisterEnd, AddExists
    <3> QED BY <3>1 DEF AddOk, AddFails
  <2>2. CASE Retire(p)
    <3>1. PICK m \in Mac : DeleteOk(p, m) \/ DeleteFails(p, m)
      BY <2>2 DEF Retire, RetireLock, RetireEnd
    <3> QED BY <3>1 DEF DeleteOk, DeleteFails
  <2>3. CASE Check(p)
    BY <2>3, Constants DEF Check, CheckNote, CheckAdd, CheckTake, CheckForget
  <2>4. ~Pass(p) /\ ~Batch(p) /\ ~Flush(p)
    BY DEF Pass, Batch, Flush, PassDump, PassRead, PassStale, Merge, PassDone, BatchRead,
       BatchRoom, BatchDone, FlushLock, FlushEnd
  <2> QED BY <1>2, <2>1, <2>2, <2>3, <2>4 DEF Step
<1> QED BY <1>1, <1>2 DEF Next

LEMMA OursRemoves ==
  ASSUME TypeOK, NoOrphan, AllOurs, NEW m \in Mac, card[m] # "absent"
  PROVE  m \in Noted
  BY DEF TypeOK, NoOrphan, AllOurs, Ours, Origin

\* "Only what this daemon registered is ever removed": an entry leaves the card
\* only while the note names it, or by somebody else's hand - whatever fails but
\* an append before its newline, with one process that passes and others'
\* programs beside it, or on a card nobody else writes with one process or many
\* of one mind, beside flushes by hand (retire, forget_locked, flush, the
\* shedder of fast_apply).
THEOREM OnlyNotedIsRemoved == Alone \/ Unshared => (Spec => RemovesOnlyNoted)
<1> DEFINE Removal ==
      \A m \in Mac : card[m] # "absent" /\ card'[m] = "absent" =>
        m \in Noted \/ ForeignRemove(m) \/ DriverReset(m)
<1>1. CASE Alone
  <2>1. AloneInv /\ [Next]_vars => AloneInv'
    BY <1>1, AloneStep
  <2>2. AloneInv /\ [Next]_vars => [Removal]_vars
    BY <1>1, AloneRemoves
  <2> QED
    BY <2>1, <2>2, AloneInit, PTL DEF Spec, RemovesOnlyNoted
<1>2. CASE Unshared
  <2>1. Spec => []Inv
    BY <1>2, InvHolds DEF Unshared
  <2>2. Init => AllOurs
    BY DEF Init, AllOurs
  <2>3. Inv /\ AllOurs /\ [Next]_vars => AllOurs'
    BY <1>2, OursStep DEF Inv
  <2>4. Inv /\ AllOurs /\ [Next]_vars => [Removal]_vars
    BY OursRemoves DEF Inv
  <2> QED
    BY <2>1, <2>2, <2>3, <2>4, PTL DEF Spec, RemovesOnlyNoted
<1> QED BY <1>1, <1>2

(***************************************************************************)
(* On a network at rest, several processes remove what is on record only.  *)
(***************************************************************************)

\* What a step of one process may do to the card and to the note, as far as
\* the others depend on it.
LEMMA RestOthers ==
  ASSUME AtRest, Inv, MindInv, RestInv, NEW p \in Proc, NEW q \in Proc, p # q,
         at'[q] = at[q], op'[q] = op[q], seen'[q] = seen[q], before'[q] = before[q],
         owned'[q] = owned[q], todo'[q] = todo[q], fresh'[q] = fresh[q],
         settle'[q] = settle[q], quiet'[q] = quiet[q],
         Foreign' \subseteq Foreign,
         \A m \in OnCard' \ OnCard : m \in lines' /\ m \in Agreed /\ at[p] = "adding",
         \A m \in (lines \ lines') \cap OnCard' : m \in Agreed /\ p \in Daemons
  PROVE  Rest(q)'
<1> USE DEF RestInv, Rest
<1>1. at[p] = "adding" => at[q] \notin Locked
  BY DEF Inv, LockInv, Locked
<1>2. ListsHold(q)'
  BY DEF ListsHold, Agreed
<1>3. LetGo(q)'
  BY <1>1 DEF LetGo, MindInv, Agreed, Locked
<1>4. DumpHolds(q)'
  BY DEF DumpHolds, Agreed
<1>5. KeepsHold(q)'
  BY <1>1 DEF KeepsHold, AtRest, Locked
<1> QED BY <1>2, <1>3, <1>4, <1>5

LEMMA RestRegisterNote ==
  ASSUME AtRest, Inv, MindInv, RestInv, NEW p \in Proc, RegisterNote(p)
  PROVE  RestInv'
<1> USE DEF Inv, TypeOK, Sets, RegisterNote, Go
<1>1. lines \subseteq lines' /\ OnCard' = OnCard /\ Foreign' = Foreign
  BY AppendKeeps DEF OnCard, Foreign
<1>2. Rest(p)'
  <2>1. fresh'[p] \cap lines = {} /\ settle'[p] = {}
    BY DEF Noted
  <2>2. ListsHold(p)' /\ LetGo(p)' /\ DumpHolds(p)'
    BY <1>1, <2>1 DEF RestInv, Rest, ListsHold, LetGo, DumpHolds, Agreed
  <2>3. KeepsHold(p)'
    BY <1>1, <2>1 DEF RestInv, Rest, KeepsHold
  <2> QED BY <2>2, <2>3 DEF Rest
<1>3. ASSUME NEW q \in Proc, p # q PROVE Rest(q)'
  BY <1>1, <1>3, RestOthers
<1> QED BY <1>2, <1>3 DEF RestInv

\* What a registration leaves behind, refused or done.
LEMMA RestRegistered ==
  ASSUME AtRest, Inv, MindInv, RestInv, NEW p \in Proc, at[p] \in {"register", "adding"},
         Registered(p), UNCHANGED <<card, quiet>>,
         \A m \in (lines \ lines') \cap OnCard :
           m \in Agreed /\ p \in Daemons /\ m \notin quiet[p]
  PROVE  RestInv'
<1> USE DEF Inv, TypeOK, Sets
<1>1. OnCard' = OnCard /\ Foreign' = Foreign
  BY DEF OnCard, Foreign
<1>2. Rest(p)'
  <2>1. ListsHold(p)' /\ LetGo(p)' /\ DumpHolds(p)'
    BY <1>1, RegisteredLists DEF RestInv, Rest, ListsHold, LetGo, DumpHolds, Agreed
  <2>2. KeepsHold(p)'
    BY <1>1, RegisteredLists DEF RestInv, Rest, KeepsHold
  <2> QED BY <2>1, <2>2 DEF Rest
<1>3. ASSUME NEW q \in Proc, p # q PROVE Rest(q)'
  <2>1. seen'[q] = seen[q]
    BY <1>3 DEF Registered, Finish
  <2> QED BY <1>1, <1>3, <2>1, RegisteredFacts, RestOthers
<1> QED BY <1>2, <1>3 DEF RestInv

LEMMA RestRegisterOver ==
  ASSUME AtRest, Inv, MindInv, RestInv, NEW p \in Proc, RegisterRefused(p) \/ RegisterEnd(p)
  PROVE  RestInv'
<1>1. CASE RegisterRefused(p)
  <2>1. lines \subseteq lines'
    BY <1>1, AppendKeeps DEF RegisterRefused
  <2> QED BY <1>1, <2>1, RestRegistered DEF RegisterRefused
<1>2. CASE RegisterEnd(p)
  <2>1. lines \ settle[p] \subseteq lines'
    BY <1>2, RewriteKeeps DEF RegisterEnd, Noted
  <2>2. settle[p] \subseteq Agreed /\ (settle[p] # {} => op[p] # "pass")
    BY <1>2 DEF RegisterEnd, RestInv, Rest, DumpHolds
  <2>3. settle[p] # {} => p \in Daemons /\ settle[p] \cap quiet[p] = {}
    BY <1>2, <2>2 DEF RegisterEnd, RestInv, Rest, DumpHolds, KeepsHold
  <2> QED BY <1>2, <2>1, <2>2, <2>3, RestRegistered DEF RegisterEnd
<1> QED BY <1>1, <1>2

LEMMA RestAdd ==
  ASSUME AtRest, Inv, MindInv, RestInv, NEW p \in Proc, NEW m \in Mac,
         AddOk(p, m) \/ AddExists(p, m) \/ AddFails(p, m)
  PROVE  RestInv'
<1> USE DEF Inv, TypeOK, Sets
<1>1. /\ at[p] = "adding" /\ m \in todo[p]
      /\ todo' = [todo EXCEPT ![p] = @ \ {m}]
      /\ UNCHANGED <<disk, lock, at, op, seen, before, want, fresh, quiet>>
  BY DEF AddOk, AddExists, AddFails, NextMac
<1>2. m \in lines /\ m \in Agreed
  BY <1>1 DEF AddInv, MindInv
<1>3. OnCard' \subseteq OnCard \cup {m} /\ Foreign' \subseteq Foreign
  BY DEF AddOk, AddExists, AddFails, Holds, OnCard, Foreign, Origin
<1>4. /\ owned'[p] \subseteq owned[p] \cup {m}
      /\ \/ settle'[p] = settle[p]
         \/ settle'[p] = settle[p] \cup {m} /\ m \in fresh[p] /\ m \in OnCard
  <2>1. CASE AddOk(p, m)
    BY <2>1 DEF AddOk
  <2>2. CASE AddExists(p, m)
    <3>1. card[m] # "absent" /\ owned' = owned
      BY <2>2 DEF AddExists
    <3>2. settle'[p] = settle[p] \cup ({m} \cap fresh[p])
      BY <2>2 DEF AddExists
    <3> QED BY <3>1, <3>2 DEF OnCard
  <2>3. CASE AddFails(p, m)
    BY <2>3 DEF AddFails
  <2> QED BY <2>1, <2>2, <2>3
<1>5. m \in fresh[p] /\ m \in OnCard => op[p] # "pass"
  <2>1. m \in OnCard => m \in Ours \/ m \in Foreign
    BY DEF OnCard, Ours, Foreign, Origin
  <2> QED BY <1>1, <2>1 DEF AddInv, RestInv, Rest, DumpHolds
<1>6. Rest(p)'
  <2>1. ListsHold(p)' /\ LetGo(p)'
    BY <1>1, <1>2, <1>3, <1>4 DEF RestInv, Rest, ListsHold, LetGo, Agreed, disk
  <2>2. DumpHolds(p)'
    BY <1>1, <1>2, <1>3, <1>4, <1>5 DEF RestInv, Rest, DumpHolds, Agreed
  <2>3. KeepsHold(p)'
    BY <1>1, <1>2, <1>3, <1>4, <1>5 DEF RestInv, Rest, KeepsHold, disk
  <2> QED BY <2>1, <2>2, <2>3 DEF Rest
<1>7. ASSUME NEW q \in Proc, p # q PROVE Rest(q)'
  <2>1. owned'[q] = owned[q] /\ settle'[q] = settle[q]
    BY <1>7 DEF AddOk, AddExists, AddFails
  <2> QED BY <1>1, <1>2, <1>3, <1>7, <2>1, RestOthers DEF disk
<1> QED BY <1>6, <1>7 DEF RestInv

LEMMA RestRetireLock ==
  ASSUME AtRest, Inv, MindInv, RestInv, NEW p \in Proc, RetireLock(p)
  PROVE  RestInv'
<1> USE DEF Inv, TypeOK, Sets, RetireLock, Go, disk
<1>1. lines' = lines /\ OnCard' = OnCard /\ Foreign' = Foreign
  BY DEF OnCard, Foreign
<1>2. Rest(p)'
  BY <1>1 DEF RestInv, Rest, ListsHold, LetGo, DumpHolds, KeepsHold, Agreed
<1>3. ASSUME NEW q \in Proc, p # q PROVE Rest(q)'
  BY <1>1, <1>3, RestOthers
<1> QED BY <1>2, <1>3 DEF RestInv

LEMMA RestDelete ==
  ASSUME AtRest, Inv, MindInv, RestInv, NEW p \in Proc, NEW m \in Mac,
         DeleteOk(p, m) \/ DeleteFails(p, m)
  PROVE  RestInv'
<1> USE DEF Inv, TypeOK, Sets
<1>1. /\ at[p] \in {"deleting", "flushing"}
      /\ todo' = [todo EXCEPT ![p] = @ \ {m}]
      /\ UNCHANGED <<disk, lock, at, op, seen, before, want, owned, fresh, quiet>>
  BY DEF DeleteOk, DeleteFails, NextMac
<1>2. OnCard' \subseteq OnCard /\ Foreign' \subseteq Foreign
  BY DEF DeleteOk, DeleteFails, Holds, OnCard, Foreign
<1>3. \/ settle'[p] = settle[p]
      \/ settle'[p] = settle[p] \cup {m} /\ m \notin OnCard'
  <2>1. CASE DeleteOk(p, m)
    <3>1. settle'[p] = settle[p] \cup {m} /\ card'[m] = "absent"
      BY <2>1 DEF DeleteOk, Holds
    <3> QED BY <3>1 DEF OnCard
  <2>2. CASE DeleteFails(p, m)
    BY <2>2 DEF DeleteFails
  <2> QED BY <2>1, <2>2
<1>4. Rest(p)'
  BY <1>1, <1>2, <1>3 DEF RestInv, Rest, ListsHold, LetGo, DumpHolds, KeepsHold, Agreed, disk
<1>5. ASSUME NEW q \in Proc, p # q PROVE Rest(q)'
  <2>1. settle'[q] = settle[q]
    BY <1>5 DEF DeleteOk, DeleteFails
  <2> QED BY <1>1, <1>2, <1>5, <2>1, RestOthers DEF disk
<1> QED BY <1>4, <1>5 DEF RestInv

LEMMA RestRetireEnd ==
  ASSUME AtRest, Inv, MindInv, RestInv, NEW p \in Proc, RetireEnd(p)
  PROVE  RestInv'
<1> USE DEF Inv, TypeOK, Sets
<1>1. /\ at[p] = "deleting" /\ UNCHANGED <<card, op, seen, want, before, fresh>>
      /\ owned' = [owned EXCEPT ![p] = @ \ settle[p]]
      /\ \/ op[p] = "pass" /\ at' = [at EXCEPT ![p] = "merge"] /\ UNCHANGED <<todo, quiet>>
         \/ op[p] = "reflect" /\ at' = [at EXCEPT ![p] = "room"] /\ UNCHANGED <<todo, quiet>>
         \/ /\ op[p] = "shed" /\ at' = [at EXCEPT ![p] = "register"]
            /\ todo' = [todo EXCEPT ![p] = want[p]]
            /\ quiet' = [quiet EXCEPT ![p] = @ \ settle[p]]
      /\ settle' = [settle EXCEPT ![p] = {}]
  BY DEF RetireEnd, Go
<1>2. OnCard' = OnCard /\ Foreign' = Foreign
  BY <1>1 DEF OnCard, Foreign
<1>3. (lines \ lines') \cap OnCard = {}
  <2>1. lines \ settle[p] \subseteq lines'
    BY RewriteKeeps DEF RetireEnd, Noted
  <2> QED BY <1>1, <2>1 DEF RestInv, Rest, LetGo
<1>4. Rest(p)'
  <2>1. ListsHold(p)' /\ DumpHolds(p)'
    BY <1>1, <1>2, <1>3 DEF RestInv, Rest, ListsHold, DumpHolds, Agreed
  <2>2. LetGo(p)'
    BY <1>1, <1>2 DEF RestInv, Rest, LetGo, MergeInv
  <2>3. KeepsHold(p)'
    BY <1>1, <1>2, <1>3 DEF RestInv, Rest, KeepsHold
  <2> QED BY <2>1, <2>2, <2>3 DEF Rest
<1>5. ASSUME NEW q \in Proc, p # q PROVE Rest(q)'
  BY <1>1, <1>2, <1>3, <1>5, RestOthers
<1> QED BY <1>4, <1>5 DEF RestInv

\* What an operation that is over leaves behind.
LEMMA RestFinish ==
  ASSUME AtRest, Inv, MindInv, RestInv, NEW p \in Proc, Finish(p), UNCHANGED card,
         quiet'[p] \subseteq quiet[p], \A q \in Proc : q # p => quiet'[q] = quiet[q],
         (lines \ lines') \cap OnCard = {}
  PROVE  RestInv'
<1> USE DEF Inv, TypeOK, Sets
<1>1. OnCard' = OnCard /\ Foreign' = Foreign
  BY DEF OnCard, Foreign
<1>2. at'[p] = "idle" /\ op'[p] = "pass"
  BY DEF Finish, Go
<1>3. Rest(p)'
  BY <1>1, <1>2 DEF RestInv, Rest, ListsHold, LetGo, DumpHolds, KeepsHold
<1>4. ASSUME NEW q \in Proc, p # q PROVE Rest(q)'
  <2>1. seen'[q] = seen[q]
    BY <1>4 DEF Finish
  <2> QED BY <1>1, <1>4, <2>1, FinishFacts, RestOthers
<1> QED BY <1>3, <1>4 DEF RestInv

LEMMA RestPass ==
  ASSUME AtRest, Inv, MindInv, RestInv, NEW p \in Proc, Pass(p)
  PROVE  RestInv'
<1> USE DEF Inv, TypeOK, Sets, Go
<1>1. card' = card /\ OnCard' = OnCard /\ Foreign' = Foreign
  BY DEF Pass, PassDump, PassRead, PassStale, Merge, PassDone, OnCard, Foreign
<1>2. CASE PassDump(p)
  <2>1. lines' = lines /\ at[p] = "idle" /\ at'[p] = "dumped" /\ seen'[p] = OnCard /\ op'[p] = op[p] /\ quiet' = quiet
    BY <1>2 DEF PassDump, disk
  <2>2. Foreign \subseteq OnCard
    BY DEF Foreign, OnCard
  <2>3. Rest(p)'
    BY <1>1, <2>1, <2>2 DEF RestInv, Rest, ListsHold, LetGo, DumpHolds, KeepsHold
  <2>4. ASSUME NEW q \in Proc, p # q PROVE Rest(q)'
    BY <1>1, <1>2, <2>1, <2>4, RestOthers DEF PassDump
  <2> QED BY <2>3, <2>4 DEF RestInv
<1>3. CASE PassRead(p)
  <2>1. PICK note \in Readings, w \in Wants :
          /\ owned' = [owned EXCEPT ![p] = note]
          /\ todo' = [todo EXCEPT ![p] = w \ seen[p]]
          /\ Go(p, IF w \subseteq seen[p] THEN "stale" ELSE "register")
          /\ \E kept \in SUBSET (w \cap note) : quiet' = [quiet EXCEPT ![p] = kept]
    BY <1>3 DEF PassRead
  <2>2. note \subseteq lines
    BY DEF Readings, Noted
  <2>3. /\ at[p] = "dumped" /\ at'[p] \in {"stale", "register"} /\ lines' = lines /\ op' = op
        /\ owned'[p] \subseteq lines /\ todo'[p] = w \ seen[p] /\ quiet'[p] \subseteq lines
    BY <1>3, <2>1, <2>2 DEF PassRead, disk
  <2>4. Rest(p)'
    BY <1>1, <2>3 DEF RestInv, Rest, ListsHold, LetGo, DumpHolds, KeepsHold
  <2>5. ASSUME NEW q \in Proc, p # q PROVE Rest(q)'
    <3>1. quiet'[q] = quiet[q] /\ at'[q] = at[q] /\ owned'[q] = owned[q] /\ todo'[q] = todo[q]
      BY <2>1, <2>5
    <3>2. /\ op'[q] = op[q] /\ seen'[q] = seen[q] /\ before'[q] = before[q]
          /\ fresh'[q] = fresh[q] /\ settle'[q] = settle[q]
      BY <1>3, <2>5 DEF PassRead
    <3> QED BY <1>1, <2>3, <2>5, <3>1, <3>2, RestOthers
  <2> QED BY <2>4, <2>5 DEF RestInv
<1>4. CASE PassStale(p)
  <2>1. /\ at[p] = "stale" /\ at'[p] \in {"merge", "retire"} /\ lines' = lines
        /\ todo' = [todo EXCEPT ![p] = owned[p] \ want[p]]
        /\ at'[p] = "merge" => owned[p] \subseteq want[p]
        /\ UNCHANGED <<op, seen, before, want, owned, fresh, settle, quiet>>
    BY <1>4 DEF PassStale, disk
  <2>2. todo'[p] \subseteq owned[p] \ Agreed /\ before[p] \ owned[p] = {}
    BY <2>1 DEF MindInv, MergeInv
  <2>3. op[p] # "shed"
    BY <2>1 DEF RestInv, Rest, DumpHolds
  <2>4. Rest(p)'
    BY <1>1, <2>1, <2>2, <2>3 DEF RestInv, Rest, ListsHold, LetGo, DumpHolds, KeepsHold, Agreed
  <2>5. ASSUME NEW q \in Proc, p # q PROVE Rest(q)'
    BY <1>1, <1>4, <2>1, <2>5, RestOthers DEF PassStale
  <2> QED BY <2>4, <2>5 DEF RestInv
<1>5. CASE Merge(p) \/ PassDone(p)
  <2>1. Finish(p) /\ at[p] = "merge" /\ quiet' = quiet
    BY <1>5 DEF Merge, PassDone
  <2>2. (lines \ lines') \cap OnCard = {}
    <3>1. CASE Merge(p)
      <4>1. lines \ (before[p] \ owned[p]) \subseteq lines'
        BY <3>1, RewriteKeeps DEF Merge, Noted
      <4> QED BY <2>1, <4>1 DEF RestInv, Rest, LetGo
    <3>2. CASE PassDone(p)
      BY <3>2 DEF PassDone, disk
    <3> QED BY <1>5, <3>1, <3>2
  <2> QED BY <1>1, <2>1, <2>2, RestFinish
<1> QED BY <1>2, <1>3, <1>4, <1>5 DEF Pass

LEMMA RestBatch ==
  ASSUME AtRest, Inv, MindInv, RestInv, NEW p \in Proc, Batch(p)
  PROVE  RestInv'
<1> USE DEF Inv, TypeOK, Sets, Go
<1>1. lines' = lines /\ card' = card /\ OnCard' = OnCard /\ Foreign' = Foreign
  BY DEF Batch, BatchRead, BatchRoom, BatchDone, OnCard, Foreign, disk
<1>2. CASE BatchRead(p)
  <2>1. PICK note \in Readings, w \in Wants : \E ours \in SUBSET (note \ w) :
          /\ at' = [at EXCEPT ![p] = IF ours # {} THEN "retire" ELSE "room"]
          /\ todo' = [todo EXCEPT ![p] = ours]
          /\ quiet' = [quiet EXCEPT ![p] = @ \ ours]
    BY <1>2 DEF BatchRead
  <2>2. PICK ours \in SUBSET (note \ w) :
          /\ at' = [at EXCEPT ![p] = IF ours # {} THEN "retire" ELSE "room"]
          /\ todo' = [todo EXCEPT ![p] = ours]
          /\ quiet' = [quiet EXCEPT ![p] = @ \ ours]
    BY <2>1
  <2>3. ours \subseteq lines /\ ours \cap Agreed = {}
    BY DEF Readings, Noted, AtRest, OneMind, Agreed
  <2>4. /\ p \in Daemons /\ op' = [op EXCEPT ![p] = "reflect"]
        /\ UNCHANGED <<seen, before, owned, fresh, settle>>
    BY <1>2 DEF BatchRead
  <2>5. at'[p] \in {"retire", "room"} /\ todo'[p] = ours /\ quiet'[p] = quiet[p] \ ours
    BY <2>2
  <2>6. Rest(p)'
    BY <1>1, <2>3, <2>4, <2>5 DEF RestInv, Rest, ListsHold, LetGo, DumpHolds, KeepsHold, Agreed
  <2>7. ASSUME NEW q \in Proc, p # q PROVE Rest(q)'
    BY <1>1, <2>2, <2>4, <2>7, RestOthers
  <2> QED BY <2>6, <2>7 DEF RestInv
<1>3. CASE BatchRoom(p)
  <2>1. PICK shed \in SUBSET (quiet[p] \ want[p]) :
          /\ at' = [at EXCEPT ![p] = IF shed # {} THEN "retire" ELSE "register"]
          /\ todo' = [todo EXCEPT ![p] = IF shed # {} THEN shed ELSE want[p]]
    BY <1>3 DEF BatchRoom
  <2>2. /\ at[p] = "room" /\ op' = [op EXCEPT ![p] = "shed"]
        /\ UNCHANGED <<seen, before, owned, fresh, settle, quiet>>
    BY <1>3 DEF BatchRoom
  <2>3. \/ at'[p] = "retire" /\ todo'[p] \subseteq quiet[p]
        \/ at'[p] = "register"
    BY <2>1
  <2>4. p \in Daemons
    BY <2>2 DEF RestInv, Rest, DumpHolds
  <2>5. Rest(p)'
    <3>1. op'[p] = "shed" /\ KeepsHold(p)
      BY <2>2 DEF RestInv, Rest
    <3>2. ListsHold(p)' /\ LetGo(p)' /\ DumpHolds(p)'
      BY <2>3, <2>4, <3>1 DEF ListsHold, LetGo, DumpHolds
    <3>3. KeepsHold(p)'
      BY <1>1, <2>2, <2>3, <3>1 DEF KeepsHold
    <3> QED BY <3>2, <3>3 DEF Rest
  <2>6. ASSUME NEW q \in Proc, p # q PROVE Rest(q)'
    BY <1>1, <2>1, <2>2, <2>6, RestOthers
  <2> QED BY <2>5, <2>6 DEF RestInv
<1>4. CASE BatchDone(p)
  BY <1>1, <1>4, RestFinish DEF BatchDone
<1> QED BY <1>2, <1>3, <1>4 DEF Batch

LEMMA RestFlush ==
  ASSUME AtRest, Inv, MindInv, RestInv, NEW p \in Proc, Flush(p)
  PROVE  RestInv'
<1> USE DEF Inv, TypeOK, Sets, Go
<1>1. CASE FlushLock(p)
  <2>1. lines' = lines /\ OnCard' = OnCard /\ Foreign' = Foreign
    BY <1>1 DEF FlushLock, OnCard, Foreign, disk
  <2>2. /\ at'[p] = "flushing" /\ todo'[p] = owned'[p] /\ settle'[p] = {}
        /\ op' = op /\ quiet' = quiet /\ at[p] = "idle"
    BY <1>1 DEF FlushLock
  <2>3. Rest(p)'
    BY <2>1, <2>2 DEF RestInv, Rest, ListsHold, LetGo, DumpHolds, KeepsHold
  <2>4. ASSUME NEW q \in Proc, p # q PROVE Rest(q)'
    BY <1>1, <2>1, <2>2, <2>4, RestOthers DEF FlushLock
  <2> QED BY <2>3, <2>4 DEF RestInv
<1>2. CASE FlushEnd(p)
  <2>1. lines \cap (owned[p] \ settle[p]) \subseteq lines' /\ at[p] = "flushing"
    BY <1>2, RewriteKeeps DEF FlushEnd
  <2>2. (lines \ lines') \cap OnCard = {}
    BY <2>1 DEF RestInv, Rest, LetGo, DeleteInv
  <2> QED BY <1>2, <2>2, RestFinish DEF FlushEnd
<1> QED BY <1>1, <1>2 DEF Flush

LEMMA RestStep == AtRest /\ Inv /\ MindInv /\ RestInv /\ [Next]_vars => RestInv'
<1> SUFFICES ASSUME AtRest, Inv, MindInv, RestInv, [Next]_vars PROVE RestInv'
  OBVIOUS
<1>1. ASSUME NEW p \in Proc, Register(p) PROVE RestInv'
  BY <1>1, RestRegisterNote, RestRegisterOver, RestAdd DEF Register
<1>2. ASSUME NEW p \in Proc, Retire(p) PROVE RestInv'
  BY <1>2, RestRetireLock, RestDelete, RestRetireEnd DEF Retire
<1>3. ASSUME NEW p \in Proc, Check(p) PROVE FALSE
  BY <1>3, UncheckedStep DEF AtRest, OneMind
<1>4. CASE Environment
  <2>1. ASSUME NEW p \in Proc, Crash(p) PROVE RestInv'
    <3>1. quiet'[p] = {} /\ \A q \in Proc : q # p => quiet'[q] = quiet[q]
      BY <2>1 DEF Crash, Inv, TypeOK, Sets
    <3> QED BY <2>1, <3>1, RestFinish DEF Crash, disk
  <2>2. ASSUME NEW m \in Mac, ForeignAdd(m) \/ ForeignRemove(m) \/ DriverReset(m)
        PROVE  RestInv'
    <3>1. DriverReset(m)
      BY <2>2 DEF ForeignAdd, ForeignRemove, AtRest
    <3>2. OnCard' \subseteq OnCard /\ Foreign' \subseteq Foreign
      BY <3>1 DEF DriverReset, Holds, OnCard, Foreign, Inv, TypeOK
    <3>3. UNCHANGED <<disk, at, locals, quiet>>
      BY <3>1 DEF DriverReset
    <3> QED BY <3>2, <3>3 DEF RestInv, Rest, ListsHold, LetGo, DumpHolds, KeepsHold, Agreed, disk, locals
  <2> QED BY <1>4, <2>1, <2>2 DEF Environment
<1>5. CASE UNCHANGED vars
  BY <1>5 DEF vars, disk, locals, RestInv, Rest, ListsHold, LetGo, DumpHolds, KeepsHold, Agreed,
     OnCard, Foreign
<1> QED
  BY <1>1, <1>2, <1>3, <1>4, <1>5, RestPass, RestBatch, RestFlush DEF Next, Step

\* Whatever the note and the card held when the processes came up, as long as
\* what is ours was on record.
LEMMA RestInit == Aftermath => Inv /\ MindInv /\ RestInv
<1> SUFFICES ASSUME Aftermath PROVE Inv /\ MindInv /\ RestInv
  OBVIOUS
<1>1. TypeOK
  BY DEF Aftermath, Idle, TypeOK, Nothing, Sets, Stage, Purpose
<1>2. Inv
  BY <1>1 DEF Aftermath, Idle, Nothing, Inv, NoOrphan, Noted, LockInv, Locked, RoleInv, AddInv,
     DeleteInv, MergeInv
<1>3. MindInv /\ RestInv
  BY DEF Aftermath, Idle, Nothing, MindInv, RestInv, Rest, ListsHold, LetGo, DumpHolds, KeepsHold
<1> QED BY <1>2, <1>3

LEMMA RestRemoves ==
  ASSUME AtRest, Inv, RestInv, Next, NEW m \in Mac, card[m] # "absent", card'[m] = "absent"
  PROVE  m \in Noted \/ ForeignRemove(m) \/ DriverReset(m)
<1> USE DEF Inv
<1>1. CASE Environment
  BY <1>1, OthersRemove
<1>2. ASSUME NEW p \in Proc, Step(p)
      PROVE  m \in Noted
  <2>1. m \in todo[p] /\ at[p] \in {"deleting", "flushing"}
    BY <1>2, OwnRemoval, UncheckedStep DEF AtRest, OneMind
  <2>2. m \in OnCard
    BY DEF OnCard
  <2>3. CASE at[p] = "flushing"
    BY <2>1, <2>3 DEF RestInv, Rest, ListsHold, DeleteInv, Noted
  <2>4. CASE at[p] = "deleting" /\ op[p] # "shed"
    BY <2>1, <2>2, <2>4 DEF RestInv, Rest, ListsHold, Noted
  <2>5. CASE at[p] = "deleting" /\ op[p] = "shed"
    BY <2>1, <2>2, <2>5 DEF RestInv, Rest, DumpHolds, KeepsHold, Noted
  <2> QED BY <2>1, <2>3, <2>4, <2>5
<1> QED BY <1>1, <1>2 DEF Next

\* The same for a daemon and any number of --once and --flush processes on a
\* network at rest, from any state a crash can have left: only what is on
\* record at that moment is taken out, though each works from a list of its own.
THEOREM OnlyNotedAtRest == AtRest => (RecoverySpec => RemovesOnlyNoted)
<1> SUFFICES ASSUME AtRest PROVE RecoverySpec => RemovesOnlyNoted
  OBVIOUS
<1>1. Inv /\ MindInv /\ RestInv /\ [Next]_vars => (Inv /\ MindInv /\ RestInv)'
  BY InvPreserved, MindPreserved, MindsMeet, RestStep DEF AtRest, OneMind
<1>2. Inv /\ RestInv /\ [Next]_vars =>
        [\A m \in Mac : card[m] # "absent" /\ card'[m] = "absent" =>
           m \in Noted \/ ForeignRemove(m) \/ DriverReset(m)]_vars
  BY RestRemoves
<1> QED
  BY <1>1, <1>2, RestInit, PTL DEF RecoverySpec, RemovesOnlyNoted

\* No crash, however often, and no start on what it has left makes an orphan.
THEOREM NoOrphanAfterwards == Orderly => (RecoverySpec => []NoOrphan)
<1>1. Inv => NoOrphan
  BY DEF Inv
<1>2. CASE OnePasser
  <2>1. Inv /\ [Next]_vars => Inv'
    BY <1>2, InvPreserved, OneIsNoRival DEF OnePasser, Inv
  <2> QED
    BY <1>1, <2>1, RestInit, PTL DEF RecoverySpec
<1>3. CASE OneMind
  <2>1. Inv /\ MindInv /\ [Next]_vars => Inv' /\ MindInv'
    BY <1>3, InvPreserved, MindPreserved, MindsMeet DEF OneMind
  <2> QED
    BY <1>1, <2>1, RestInit, PTL DEF RecoverySpec
<1> QED
  BY <1>2, <1>3 DEF Orderly
=============================================================================
