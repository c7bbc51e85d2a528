------------------------------ MODULE Netlink -------------------------------
(***************************************************************************)
(* The socket the daemon asks the kernel through (src/netlink.rs): dumps   *)
(* of a table that changes while it is dumped, single questions whose      *)
(* answer may outgrow the buffer, and the acknowledged changes to a card's *)
(* list.  Everything arrives on one queue, and answers to what has been    *)
(* given up on arrive there too.                                           *)
(*                                                                         *)
(* The kernel handles a request while it is sent and produces the next     *)
(* part of a dump when the last has been read; an answer may also come     *)
(* late.  A datagram carries one message.                                  *)
(***************************************************************************)
EXTENDS Integers, Sequences

CONSTANTS
  Item,      \* entries of the table
  Vf,        \* virtual functions
  Attempts,  \* ATTEMPTS
  Ceiling,   \* CEILING, as a size of datagrams; the buffer starts at 1
  MaxSeq,    \* bound: requests sent
  Faults     \* what goes wrong, see AllFaults

\* "late"    an answer comes later, perhaps after the deadline
\* "trailer" the kernel ends a single answer as it ends a dump
\* "fails"   the kernel gives up, or refuses
\* "stray"   somebody else on the host sends to the socket
AllFaults == {"late", "trailer", "fails", "stray"}

ASSUME NetlinkConstants ==
  /\ Attempts \in Nat \ {0} /\ Ceiling \in Nat \ {0} /\ MaxSeq \in Nat
  /\ Faults \subseteq AllFaults

VARIABLES
  table,    \* the forwarding entries
  vfs,      \* the functions of the interface that is asked about
  there,    \* whether there is such an interface
  cb,       \* the kernel's dump under way: [on, seq, left, changed]
  queue,    \* datagrams to be read
  late,     \* datagrams that are still to come
  at,       \* what the daemon waits for
  seq,      \* the sequence number of the last request
  tries,    \* attempts at the running request
  cap,      \* the size of the buffer
  out,      \* what has been collected
  last,     \* the last request and what it returned: [op, ok, data, code]
  truth     \* history: the kernel's answers to the last request: [said, code]

kernel == <<table, vfs, there>>
vars == <<kernel, cb, queue, late, at, seq, tries, cap, out, last, truth>>

Payload == Item \cup Vf
Sizes == 1 .. Ceiling + 1
Codes == {"ok", "no", "gone", "exists", "none"}
NoDump == [on |-> FALSE, seq |-> 0, left |-> {}, changed |-> FALSE]
Unsaid == [said |-> {}, code |-> "no"]
Nothing == [op |-> "none", ok |-> FALSE, data |-> {}, code |-> "ok"]

\* What the kernel sends. An acknowledgement is an error whose code is "ok".
Msg(s, kind, data, code, intr, size) ==
  [ours |-> TRUE, seq |-> s, kind |-> kind, data |-> data, code |-> code, intr |-> intr,
   size |-> size]

Datagram == [ours : BOOLEAN, seq : 0 .. MaxSeq, kind : {"item", "done", "error"},
             data : SUBSET Payload, code : Codes, intr : BOOLEAN, size : Sizes]

TypeOK ==
  /\ table \subseteq Item /\ vfs \subseteq Vf /\ there \in BOOLEAN
  /\ cb \in [on : BOOLEAN, seq : 0 .. MaxSeq, left : SUBSET Item, changed : BOOLEAN]
  /\ queue \in Seq(Datagram) /\ late \subseteq Datagram
  /\ at \in {"idle", "dump", "dumping", "ask", "asking", "setting"}
  /\ seq \in 0 .. MaxSeq /\ tries \in 0 .. Attempts
  /\ cap \in 1 .. Ceiling
  /\ out \subseteq Item
  /\ last \in [op : {"none", "dump", "one", "set"}, ok : BOOLEAN, data : SUBSET Payload, code : Codes]
  /\ truth \in [said : SUBSET SUBSET Payload, code : Codes]

Init ==
  /\ table \in SUBSET Item /\ vfs \in SUBSET Vf /\ there = TRUE
  /\ cb = NoDump /\ queue = <<>> /\ late = {}
  /\ at = "idle" /\ seq = 0 /\ tries = 0 /\ cap = 1 /\ out = {}
  /\ last = Nothing /\ truth = Unsaid

-----------------------------------------------------------------------------
(* Reading                                                                  *)

Head1 == Head(queue)
Reads(stage) == at = stage /\ queue # <<>>
Fits == Head1.size <= cap

\* recv_flags: only the kernel is listened to.
Heard == Head1.ours

\* Mutant: whatever comes is the answer.
AnsweredAnyhow == TRUE

\* Netlink asks callers to check: a message of another request is passed over.
Answered == Head1.seq = seq

Return(op, ok, data, code) ==
  /\ at' = "idle" /\ tries' = 0
  /\ last' = [op |-> op, ok |-> ok, data |-> data, code |-> code]

\* A failure; what was collected is dropped with it.
Fail(op, code) == Return(op, FALSE, {}, code) /\ out' = {}

\* Mutant: only the datagram itself goes.
DrainOne == queue' = (IF queue = <<>> THEN <<>> ELSE Tail(queue)) /\ UNCHANGED cb

\* drain: everything that is queued, and with it the rest of a dump, which the
\* kernel produces as it is read.
Drain == queue' = <<>> /\ cb' = NoDump

\* Another attempt where there is one left.
Again(op, stage) ==
  IF tries < Attempts THEN at' = stage /\ out' = {} /\ UNCHANGED <<tries, last>>
  ELSE Fail(op, "no")

\* A datagram that is not for us or not for this request.
Skip(stage) ==
  /\ Reads(stage)
  /\ ~Heard \/ (Fits /\ ~Answered)
  /\ queue' = Tail(queue)
  /\ UNCHANGED <<kernel, cb, late, at, seq, tries, cap, out, last, truth>>

\* Mutant: a buffer of any size is allocated.
AllowedAny == TRUE

Allowed == Head1.size <= Ceiling

\* The datagram outgrew the buffer: what else there is of the answer is thrown
\* away, the buffer grows, and the question is asked again.
TooBig(op, stage, again) ==
  /\ Reads(stage) /\ Heard /\ ~Fits
  /\ Drain
  /\ IF Allowed THEN cap' = Head1.size /\ Again(op, again)
     ELSE Fail(op, "no") /\ UNCHANGED cap
  /\ UNCHANGED <<kernel, late, seq, truth>>

\* recv_deadline: nothing, or not all, has come in time.
TimedOut(op, stage) ==
  /\ at = stage
  /\ Fail(op, "no")
  /\ IF op = "dump" THEN Drain ELSE UNCHANGED <<queue, cb>>
  /\ UNCHANGED <<kernel, late, seq, cap, truth>>

-----------------------------------------------------------------------------
(* A dump: dump_into, run_dump                                              *)

Begin(stage) ==
  /\ at = "idle" /\ at' = stage
  /\ seq + Attempts <= MaxSeq
  /\ last' = Nothing /\ out' = {} /\ tries' = 0
  /\ UNCHANGED <<kernel, cb, queue, late, seq, cap, truth>>

\* Every attempt has a number of its own and starts from nothing.
DumpSend ==
  /\ at = "dump" /\ at' = "dumping"
  /\ seq' = seq + 1 /\ tries' = tries + 1
  /\ out' = {}
  /\ cb' = [on |-> TRUE, seq |-> seq', left |-> table, changed |-> FALSE]
  /\ truth' = Unsaid
  /\ UNCHANGED <<kernel, queue, late, cap, last>>

\* Mutant: the flag is not looked at.
InterruptedNever == FALSE

Interrupted == Head1.intr

DumpInterrupted ==
  /\ Reads("dumping") /\ Heard /\ Fits /\ Answered /\ Interrupted
  /\ Drain /\ Again("dump", "dump")
  /\ UNCHANGED <<kernel, late, seq, cap, truth>>

DumpItems ==
  /\ Reads("dumping") /\ Heard /\ Fits /\ Answered /\ ~Interrupted
  /\ Head1.kind = "item"
  /\ out' = out \cup Head1.data /\ queue' = Tail(queue)
  /\ UNCHANGED <<kernel, cb, late, at, seq, tries, cap, last, truth>>

DumpDone ==
  /\ Reads("dumping") /\ Heard /\ Fits /\ Answered /\ ~Interrupted
  /\ Head1.kind = "done" /\ Head1.code = "ok"
  /\ Return("dump", TRUE, out, "ok") /\ out' = {}
  /\ queue' = Tail(queue)
  /\ UNCHANGED <<kernel, cb, late, seq, cap, truth>>

\* The end of a dump carries the code of a kernel that gave up partway, and an
\* error is bad news whatever it says.
DumpFailed ==
  /\ Reads("dumping") /\ Heard /\ Fits /\ Answered /\ ~Interrupted
  /\ Head1.kind = "error" \/ (Head1.kind = "done" /\ Head1.code # "ok")
  /\ Drain /\ Fail("dump", "no")
  /\ UNCHANGED <<kernel, late, seq, cap, truth>>

-----------------------------------------------------------------------------
(* The kernel's side of single requests                                     *)

\* What is sent is queued, or comes later where that is possible.
Replies(replies) ==
  \/ queue' = queue \o replies /\ UNCHANGED late
  \/ /\ "late" \in Faults /\ Len(replies) = 1 /\ late = {}
     /\ late' = {replies[1]} /\ UNCHANGED queue

\* A question about the interface: its functions, perhaps with an end after
\* them; for an interface that is gone an error, or just the end.
KernelAnswers(s, before) ==
  \/ /\ there
     /\ \E size \in Sizes, trailer \in {FALSE, "trailer" \in Faults} :
          Replies(<<Msg(s, "item", vfs, "ok", FALSE, size)>>
                    \o IF trailer THEN <<Msg(s, "done", {}, "ok", FALSE, 1)>> ELSE <<>>)
     /\ truth' = [truth EXCEPT !.said = before \cup {vfs}]
  \/ /\ ~there
     /\ \E kind \in {"error", "done"} :
          Replies(<<Msg(s, kind, {}, IF kind = "error" THEN "gone" ELSE "ok", FALSE, 1)>>)
     /\ truth' = [truth EXCEPT !.said = before \cup {{}}]
  \/ /\ "fails" \in Faults
     /\ \E kind \in {"error", "done"} : Replies(<<Msg(s, kind, {}, "no", FALSE, 1)>>)
     /\ truth' = [truth EXCEPT !.said = before]

\* An entry is added to the list or taken out, and that is acknowledged.
KernelSets(s, x, add) ==
  LET code == IF add THEN IF x \in table THEN "exists" ELSE "ok"
              ELSE IF x \in table THEN "ok" ELSE "none"
  IN  \/ /\ table' = IF add THEN table \cup {x} ELSE table \ {x}
         /\ Replies(<<Msg(s, "error", {}, code, FALSE, 1)>>)
         /\ truth' = [Unsaid EXCEPT !.code = code]
      \/ /\ "fails" \in Faults
         /\ Replies(<<Msg(s, "error", {}, "no", FALSE, 1)>>)
         /\ truth' = Unsaid
         /\ UNCHANGED table

-----------------------------------------------------------------------------
(* A single question: vf_info_of, request_one_grown, request_one_into       *)

\* The attempts at one question share its number.
AskSend ==
  /\ at = "ask" /\ at' = "asking"
  /\ seq' = IF tries = 0 THEN seq + 1 ELSE seq
  /\ tries' = tries + 1
  /\ KernelAnswers(seq', IF tries = 0 THEN {} ELSE truth.said)
  /\ UNCHANGED <<kernel, cb, cap, out, last>>

\* The first message with this number is the answer; the end of a dump and an
\* interface that is gone are answers without any function.
AskAnswered ==
  /\ Reads("asking") /\ Heard /\ Fits /\ Answered
  /\ \/ Head1.kind = "item" /\ Return("one", TRUE, Head1.data, "ok")
     \/ Head1.kind # "item" /\ Head1.code \in {"ok", "gone"} /\ Return("one", TRUE, {}, "ok")
     \/ Head1.kind # "item" /\ Head1.code = "no" /\ Return("one", FALSE, {}, "no")
  /\ queue' = Tail(queue)
  /\ UNCHANGED <<kernel, cb, late, seq, cap, out, truth>>

-----------------------------------------------------------------------------
(* A change to a card's list: set_self_fdb                                  *)

SetSend(x, add) ==
  /\ at = "idle" /\ at' = "setting"
  /\ seq < MaxSeq /\ seq' = seq + 1
  /\ KernelSets(seq', x, add)
  /\ last' = Nothing
  /\ UNCHANGED <<vfs, there, cb, tries, cap, out>>

\* Only an acknowledgement counts; the datagram is cut to a buffer of its own.
SetAcked ==
  /\ Reads("setting") /\ Heard /\ Answered
  /\ Head1.kind = "error"
  /\ Return("set", Head1.code = "ok", {}, Head1.code)
  /\ queue' = Tail(queue)
  /\ UNCHANGED <<kernel, cb, late, seq, cap, out, truth>>

SetSkip ==
  /\ Reads("setting") /\ (~Heard \/ ~Answered)
  /\ queue' = Tail(queue)
  /\ UNCHANGED <<kernel, cb, late, at, seq, tries, cap, out, last, truth>>

-----------------------------------------------------------------------------
(* The kernel and the rest of the host                                      *)

\* The next part of the dump, when there is nothing else to read: entries not
\* visited yet, or the end, flagged once the table has changed under it.
KernelDumps ==
  /\ cb.on /\ queue = <<>>
  /\ \/ \E X \in SUBSET cb.left \ {{}}, size \in Sizes :
          /\ queue' = <<Msg(cb.seq, "item", X, "ok", cb.changed, size)>>
          /\ cb' = [cb EXCEPT !.left = @ \ X]
          /\ UNCHANGED truth
     \/ /\ cb.left = {}
        /\ queue' = <<Msg(cb.seq, "done", {}, "ok", cb.changed, 1)>>
        /\ cb' = NoDump
        /\ truth' = [Unsaid EXCEPT !.said = {table}]
     \/ /\ "fails" \in Faults
        /\ \E kind \in {"done", "error"} :
             queue' = <<Msg(cb.seq, kind, {}, "no", cb.changed, 1)>>
        /\ cb' = NoDump
        /\ UNCHANGED truth
  /\ UNCHANGED <<kernel, late, at, seq, tries, cap, out, last>>

\* An entry comes or goes while a dump is under way; one that comes is met by
\* the dump or not.
TableChanges(x) ==
  /\ cb.on
  /\ table' = IF x \in table THEN table \ {x} ELSE table \cup {x}
  /\ \E left \in IF x \in table THEN {cb.left \ {x}} ELSE {cb.left, cb.left \cup {x}} :
       cb' = [cb EXCEPT !.left = left, !.changed = TRUE]
  /\ UNCHANGED <<vfs, there, queue, late, at, seq, tries, cap, out, last, truth>>

VfsChange(v) ==
  /\ at \in {"ask", "asking"}
  /\ vfs' = IF v \in vfs THEN vfs \ {v} ELSE vfs \cup {v}
  /\ UNCHANGED <<table, there, cb, queue, late, at, seq, tries, cap, out, last, truth>>

\* The interface that is asked about goes, or another comes with its index.
InterfaceMoves ==
  /\ at \in {"idle", "ask"} /\ there' = ~there
  /\ UNCHANGED <<table, vfs, cb, queue, late, at, seq, tries, cap, out, last, truth>>

Deliver ==
  \E d \in late :
    /\ queue' = Append(queue, d) /\ late' = late \ {d}
    /\ UNCHANGED <<kernel, cb, at, seq, tries, cap, out, last, truth>>

\* Somebody else's datagram: an end to whatever is being asked.
Stray ==
  /\ "stray" \in Faults /\ at # "idle" /\ queue = <<>>
  /\ \E kind \in {"done", "error"} :
       queue' = Append(queue, [Msg(seq, kind, {}, "ok", FALSE, 1) EXCEPT !.ours = FALSE])
  /\ UNCHANGED <<kernel, cb, late, at, seq, tries, cap, out, last, truth>>

Dump == Begin("dump") \/ DumpSend \/ DumpInterrupted \/ DumpItems \/ DumpDone \/ DumpFailed
        \/ Skip("dumping") \/ TooBig("dump", "dumping", "dump") \/ TimedOut("dump", "dumping")
Ask == Begin("ask") \/ AskSend \/ AskAnswered
       \/ Skip("asking") \/ TooBig("one", "asking", "ask") \/ TimedOut("one", "asking")
Set == (\E x \in Item, add \in BOOLEAN : SetSend(x, add)) \/ SetAcked \/ SetSkip
       \/ TimedOut("set", "setting")
World == KernelDumps \/ (\E x \in Item : TableChanges(x)) \/ (\E v \in Vf : VfsChange(v))
         \/ InterfaceMoves \/ Deliver \/ Stray

Next == Dump \/ Ask \/ Set \/ World

Spec == Init /\ [][Next]_vars

-----------------------------------------------------------------------------
(* Properties *)

\* "An empty dump reads as an empty table, which ends with every entry
\* removed": a dump that is believed is the table as it was when the kernel
\* came to the end of this very attempt - not a part of it, nor one put
\* together from two moments, nor what an abandoned attempt left behind.
DumpIsWhole ==
  last.op = "dump" /\ last.ok => last.data \in truth.said

\* "Reading that as empty is how a VF list loses its exclusions": an answer
\* that is believed is one the kernel gave to this question, at one of the
\* times it was asked under its one number.
AnswerIsOwn ==
  last.op = "one" /\ last.ok => last.data \in truth.said

\* "Every call after would judge itself by its predecessor's answer": a change
\* is booked as what the kernel did with this change, late acknowledgements of
\* others notwithstanding.
AckIsOwn ==
  last.op = "set" /\ last.code # "no" => last.code = truth.code
=============================================================================
