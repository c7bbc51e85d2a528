--------------------------- MODULE Netlink_proofs ---------------------------
(***************************************************************************)
(* That the daemon believes only what the kernel said to the request in    *)
(* hand, for any table, any number of attempts and requests and whatever   *)
(* comes late, is cut short or is sent by somebody else.                   *)
(***************************************************************************)
EXTENDS Netlink, SequenceTheorems, TLAPS

-----------------------------------------------------------------------------
(* The inductive invariant *)

\* Attempts and numbers do not run out under way: Begin has seen to it.
Budget ==
  /\ at \in {"ask", "dump"} => tries < Attempts
  /\ at \in {"asking", "dumping"} => tries > 0
  /\ at = "ask" /\ tries = 0 => seq < MaxSeq
  /\ at \in {"dump", "dumping"} => seq + (Attempts - tries) <= MaxSeq

Typed == TypeOK /\ Budget

\* An answer of the kernel under the number in use.
Current(d) == d.ours /\ d.seq = seq

\* Nothing is answered before it is asked.
Numbered ==
  /\ \A i \in 1 .. Len(queue) : queue[i].ours => queue[i].seq <= seq
  /\ \A d \in late : d.seq <= seq

\* A result stands until the next request begins, and the kernel is at no
\* other dump than the daemon.
Order ==
  /\ at # "idle" => last = Nothing
  /\ cb.on => at = "dumping" /\ cb.seq = seq

\* What of a dump has been sent and not been read.
Pending ==
  IF queue # <<>> /\ Current(Head1) /\ Head1.kind = "item" THEN Head1.data ELSE {}

\* While a dump is read: one message of it at most is on its way, and it is
\* the next to be read. What has been read, what is on its way and what the
\* kernel has left are the table, unless the flag will say otherwise.
Dumping ==
  at = "dumping" =>
    /\ \A d \in late : ~Current(d)
    /\ \A i \in 2 .. Len(queue) : ~Current(queue[i])
    /\ Pending \subseteq Item
    /\ queue # <<>> /\ Current(Head1) /\ Head1.kind # "item" => ~cb.on
    /\ cb.on /\ ~cb.changed => (out \cup Pending) \cup cb.left = table
    /\ /\ queue # <<>> /\ Current(Head1)
       /\ Head1.kind = "done" /\ Head1.code = "ok" /\ ~Head1.intr
       => out \in truth.said

\* What a message says as the answer to a question is among the answers.
Says(d, said) ==
  /\ d.kind = "item" => d.data \in said
  /\ d.kind # "item" /\ d.code \in {"ok", "gone"} => {} \in said

Good(d) == Current(d) => Says(d, truth.said)

\* While a question is asked, under its one number: every answer is one the
\* kernel gave, except for the end after an answer, which comes after it.
Asking ==
  at = "asking" \/ (at = "ask" /\ tries > 0) =>
    /\ \A d \in late : Good(d)
    /\ \A i \in 1 .. Len(queue) :
         \/ Good(queue[i])
         \/ \E j \in 1 .. i - 1 : Current(queue[j]) /\ queue[j].kind = "item"

\* While a change is made: its acknowledgement says what was done.
Setting ==
  at = "setting" =>
    /\ \A d \in late : Current(d) => d.code = truth.code
    /\ \A i \in 1 .. Len(queue) : Current(queue[i]) => queue[i].code = truth.code

Results == DumpIsWhole /\ AnswerIsOwn /\ AckIsOwn

Inv == Numbered /\ Order /\ Dumping /\ Asking /\ Setting /\ Results
IInv == Typed /\ Inv

-----------------------------------------------------------------------------
(* Queues *)

LEMMA Reading ==
  ASSUME NEW S, NEW q \in Seq(S), q # <<>>
  PROVE  /\ Len(q) \in Nat \ {0} /\ Head(q) = q[1] /\ Head(q) \in S
         /\ Tail(q) \in Seq(S) /\ Len(Tail(q)) = Len(q) - 1
         /\ \A i \in 1 .. Len(q) - 1 : Tail(q)[i] = q[i + 1]
BY HeadTailProperties, EmptySeq

LEMMA Queueing ==
  ASSUME NEW S, NEW q \in Seq(S), NEW d \in S
  PROVE  /\ Append(q, d) \in Seq(S) /\ Len(Append(q, d)) = Len(q) + 1
         /\ \A i \in 1 .. Len(q) : Append(q, d)[i] = q[i]
         /\ Append(q, d)[Len(q) + 1] = d
BY AppendProperties

LEMMA Sending ==
  ASSUME NEW S, NEW q \in Seq(S), NEW r \in Seq(S)
  PROVE  /\ q \o r \in Seq(S) /\ Len(q \o r) = Len(q) + Len(r)
         /\ Len(q) \in Nat /\ Len(r) \in Nat
         /\ \A i \in 1 .. Len(q) : (q \o r)[i] = q[i]
         /\ \A i \in 1 .. Len(r) : (q \o r)[Len(q) + i] = r[i]
<1>1. Len(q) \in Nat /\ Len(r) \in Nat
  BY LenProperties
<1> QED BY <1>1, ConcatProperties

-----------------------------------------------------------------------------
(* Types *)

LEMMA MsgTyped ==
  ASSUME NEW s \in 0 .. MaxSeq, NEW kind \in {"item", "done", "error"},
         NEW data \in SUBSET Payload, NEW code \in Codes, NEW intr \in BOOLEAN,
         NEW size \in Sizes
  PROVE  Msg(s, kind, data, code, intr, size) \in Datagram
BY DEF Msg, Datagram

LEMMA Sized == 1 \in Sizes /\ 0 .. MaxSeq \subseteq Nat
BY NetlinkConstants DEF Sizes

\* The queue after a datagram has been read or thrown away.
LEMMA ReadTyped ==
  ASSUME TypeOK
  PROVE  /\ <<>> \in Seq(Datagram)
         /\ queue # <<>> => Head1 \in Datagram /\ Tail(queue) \in Seq(Datagram)
BY Reading, EmptySeq DEF TypeOK, Head1

\* Where a reply goes: to the end of the queue, or to what comes later.
Sent(d) ==
  \/ queue' = Append(queue, d) /\ late' = late
  \/ queue' = queue /\ late' = {d}

LEMMA RepliesOne ==
  ASSUME TypeOK, NEW d \in Datagram, Replies(<<d>>)
  PROVE  Sent(d)
<1>1. queue \o <<d>> = Append(queue, d)
  BY AppendIsConcat DEF TypeOK
<1>2. <<d>>[1] = d
  OBVIOUS
<1> QED BY <1>1, <1>2 DEF Replies, Sent

LEMMA RepliesTwo ==
  ASSUME TypeOK, NEW d \in Datagram, NEW e \in Datagram, Replies(<<d>> \o <<e>>)
  PROVE  queue' = Append(Append(queue, d), e) /\ late' = late
<1>1. <<d>> \in Seq(Datagram) /\ <<e>> \in Seq(Datagram) /\ Len(<<d>>) = 1 /\ Len(<<e>>) = 1
  OBVIOUS
<1>2. Len(<<d>> \o <<e>>) = 2
  BY <1>1, Sending
<1>3. queue \o (<<d>> \o <<e>>) = (queue \o <<d>>) \o <<e>>
  BY <1>1, ConcatAssociative DEF TypeOK
<1>4. queue \o <<d>> = Append(queue, d) /\ Append(queue, d) \in Seq(Datagram)
  BY AppendIsConcat, Queueing DEF TypeOK
<1>5. Append(queue, d) \o <<e>> = Append(Append(queue, d), e)
  BY <1>4, AppendIsConcat
<1>6. queue' = queue \o (<<d>> \o <<e>>) /\ late' = late
  <2>1. Len(<<d>> \o <<e>>) # 1
    BY <1>2
  <2> HIDE <1>2
  <2> QED BY <2>1, Zenon DEF Replies
<1> QED BY <1>3, <1>4, <1>5, <1>6

\* A kernel that is asked sends a true answer, and after one with functions
\* perhaps an end.
LEMMA Asked ==
  ASSUME TypeOK, NEW s \in 0 .. MaxSeq, NEW before \in SUBSET SUBSET Payload,
         KernelAnswers(s, before)
  PROVE  /\ truth' \in [said : SUBSET SUBSET Payload, code : Codes]
         /\ before \subseteq truth'.said
         /\ \E d \in Datagram :
              /\ d.ours /\ d.seq = s /\ Says(d, truth'.said)
              /\ \/ Sent(d)
                 \/ /\ d.kind = "item" /\ late' = late
                    /\ \E e \in Datagram :
                         /\ e.ours /\ e.seq = s
                         /\ queue' = Append(Append(queue, d), e)
<1> DEFINE T == [said : SUBSET SUBSET Payload, code : Codes]
           I(size) == Msg(s, "item", vfs, "ok", FALSE, size)
           E(kind, code) == Msg(s, kind, {}, code, FALSE, 1)
<1>1. /\ truth \in T /\ vfs \in SUBSET Payload /\ {} \in SUBSET Payload
      /\ FALSE \in BOOLEAN /\ 1 \in Sizes
      /\ "ok" \in Codes /\ "no" \in Codes /\ "gone" \in Codes
  BY Sized DEF TypeOK, Payload, Codes
<1>2. \A size \in Sizes : I(size) \in Datagram
  BY <1>1, MsgTyped
<1>3. \A kind \in {"done", "error"}, code \in {"ok", "no", "gone"} : E(kind, code) \in Datagram
  BY <1>1, MsgTyped
<1>4. \A X \in SUBSET SUBSET Payload :
        /\ [truth EXCEPT !.said = X] \in T
        /\ [truth EXCEPT !.said = X].said = X
  BY <1>1
<1>5. CASE /\ \E size \in Sizes, trailer \in {FALSE, "trailer" \in Faults} :
                Replies(<<I(size)>> \o IF trailer THEN <<E("done", "ok")>> ELSE <<>>)
           /\ truth' = [truth EXCEPT !.said = before \cup {vfs}]
  <2>1. PICK size \in Sizes, trailer \in {FALSE, "trailer" \in Faults} :
          Replies(<<I(size)>> \o IF trailer THEN <<E("done", "ok")>> ELSE <<>>)
    BY <1>5
  <2>2. truth' \in T /\ truth'.said = before \cup {vfs}
    BY <1>1, <1>4, <1>5
  <2>3. I(size).ours /\ I(size).seq = s /\ I(size).kind = "item" /\ I(size).data = vfs
    BY DEF Msg
  <2>4. Says(I(size), truth'.said)
    BY <2>2, <2>3 DEF Says
  <2>5. CASE trailer
    <3>1. Replies(<<I(size)>> \o <<E("done", "ok")>>)
      BY <2>1, <2>5
    <3>2. I(size) \in Datagram /\ E("done", "ok") \in Datagram
      BY <1>2, <1>3
    <3>3. queue' = Append(Append(queue, I(size)), E("done", "ok")) /\ late' = late
      BY <3>1, <3>2, RepliesTwo
    <3>4. E("done", "ok").ours /\ E("done", "ok").seq = s
      BY DEF Msg
    <3> HIDE DEF I, E
    <3> QED BY <2>2, <2>3, <2>4, <3>2, <3>3, <3>4
  <2>6. CASE ~trailer
    <3>1. I(size) \in Datagram
      BY <1>2
    <3>2. Sent(I(size))
      <4> HIDE DEF I
      <4>1. <<I(size)>> \in Seq(Datagram)
        BY <3>1
      <4>2. <<I(size)>> \o <<>> = <<I(size)>>
        BY <4>1, ConcatEmptySeq
      <4> QED BY <2>1, <2>6, <3>1, <4>2, RepliesOne
    <3> HIDE DEF I, E
    <3> QED BY <2>2, <2>3, <2>4, <3>1, <3>2
  <2> QED BY <2>5, <2>6
<1>6. ASSUME NEW kind \in {"error", "done"}, NEW code \in {"ok", "no", "gone"},
             NEW X \in SUBSET SUBSET Payload, before \subseteq X,
             code = "no" \/ {} \in X,
             Replies(<<E(kind, code)>>), truth' = [truth EXCEPT !.said = X]
      PROVE  /\ truth' \in T /\ before \subseteq truth'.said
             /\ \E d \in Datagram : d.ours /\ d.seq = s /\ Says(d, truth'.said) /\ Sent(d)
  <2>1. truth' \in T /\ truth'.said = X
    BY <1>4, <1>6
  <2>2. E(kind, code) \in Datagram
    BY <1>3
  <2>3. E(kind, code).ours /\ E(kind, code).seq = s /\ Says(E(kind, code), X)
    BY <1>6 DEF Msg, Says
  <2>4. Sent(E(kind, code))
    BY <1>6, <2>2, RepliesOne
  <2> HIDE DEF E
  <2> QED BY <1>6, <2>1, <2>2, <2>3, <2>4
<1>7. CASE /\ \E kind \in {"error", "done"} :
                Replies(<<E(kind, IF kind = "error" THEN "gone" ELSE "ok")>>)
           /\ truth' = [truth EXCEPT !.said = before \cup {{}}]
  <2>1. PICK kind \in {"error", "done"} :
          Replies(<<E(kind, IF kind = "error" THEN "gone" ELSE "ok")>>)
    BY <1>7
  <2>2. PICK code \in {"ok", "no", "gone"} : code = IF kind = "error" THEN "gone" ELSE "ok"
    OBVIOUS
  <2>3. before \cup {{}} \in SUBSET SUBSET Payload
    BY <1>1
  <2> HIDE DEF E
  <2> QED BY <1>6, <1>7, <2>1, <2>2, <2>3
<1>8. CASE /\ \E kind \in {"error", "done"} : Replies(<<E(kind, "no")>>)
           /\ truth' = [truth EXCEPT !.said = before]
  <2> HIDE DEF E
  <2> QED BY <1>6, <1>8
<1> QED BY <1>5, <1>7, <1>8 DEF KernelAnswers

\* A change is acknowledged as what it came to.
LEMMA Changed ==
  ASSUME TypeOK, NEW s \in 0 .. MaxSeq, NEW x \in Item, NEW add \in BOOLEAN,
         KernelSets(s, x, add)
  PROVE  /\ table' \subseteq Item
         /\ truth' \in [said : SUBSET SUBSET Payload, code : Codes]
         /\ \E d \in Datagram : d.ours /\ d.seq = s /\ d.code = truth'.code /\ Sent(d)
<1> DEFINE E(code) == Msg(s, "error", {}, code, FALSE, 1)
           done == IF add THEN IF x \in table THEN "exists" ELSE "ok"
                   ELSE IF x \in table THEN "ok" ELSE "none"
<1>1. {} \in SUBSET Payload /\ FALSE \in BOOLEAN /\ 1 \in Sizes /\ done \in Codes /\ "no" \in Codes
  BY Sized DEF Codes
<1>2. PICK code \in Codes :
        Replies(<<E(code)>>) /\ truth' = [Unsaid EXCEPT !.code = code] /\ table' \subseteq Item
  <2>1. CASE /\ table' = IF add THEN table \cup {x} ELSE table \ {x}
             /\ Replies(<<E(done)>>) /\ truth' = [Unsaid EXCEPT !.code = done]
    <3>1. table' \subseteq Item
      BY <2>1 DEF TypeOK
    <3> HIDE DEF E, done
    <3> QED BY <1>1, <2>1, <3>1
  <2>2. CASE Replies(<<E("no")>>) /\ truth' = Unsaid /\ UNCHANGED table
    <3>1. Unsaid = [Unsaid EXCEPT !.code = "no"]
      BY DEF Unsaid
    <3> HIDE DEF E
    <3> QED BY <1>1, <2>2, <3>1 DEF TypeOK
  <2> HIDE DEF E
  <2> QED BY <2>1, <2>2 DEF KernelSets, E
<1>3. E(code) \in Datagram
  BY <1>1, MsgTyped
<1>4. Sent(E(code))
  BY <1>2, <1>3, RepliesOne
<1>5. E(code).ours /\ E(code).seq = s /\ E(code).code = code
  BY DEF Msg
<1>6. truth' \in [said : SUBSET SUBSET Payload, code : Codes] /\ truth'.code = code
  BY <1>2 DEF Unsaid
<1> HIDE DEF E
<1> QED BY <1>2, <1>3, <1>4, <1>5, <1>6

LEMMA SentTyped ==
  ASSUME TypeOK, NEW d \in Datagram, Sent(d)
  PROVE  queue' \in Seq(Datagram) /\ late' \subseteq Datagram
<1>1. queue \in Seq(Datagram) /\ late \subseteq Datagram
  BY DEF TypeOK
<1>2. Append(queue, d) \in Seq(Datagram)
  BY <1>1, Queueing
<1> QED BY <1>1, <1>2 DEF Sent

LEMMA Constants ==
  /\ Attempts \in Nat /\ Attempts > 0 /\ Ceiling \in Nat /\ Ceiling > 0 /\ MaxSeq \in Nat
  /\ Item \subseteq Payload /\ Vf \subseteq Payload
BY NetlinkConstants DEF Payload

LEMMA NothingTyped ==
  /\ Nothing \in [op : {"none", "dump", "one", "set"}, ok : BOOLEAN, data : SUBSET Payload,
                  code : Codes]
  /\ NoDump \in [on : BOOLEAN, seq : 0 .. MaxSeq, left : SUBSET Item, changed : BOOLEAN]
  /\ Unsaid \in [said : SUBSET SUBSET Payload, code : Codes]
BY Constants DEF Nothing, NoDump, Unsaid, Codes

-----------------------------------------------------------------------------
(* Every step keeps the types *)

LEMMA TypeInit == Init => Typed
BY Constants, NothingTyped, EmptySeq DEF Init, Typed, TypeOK, Budget

LEMMA ReturnTyped ==
  ASSUME NEW op \in {"dump", "one", "set"}, NEW ok \in BOOLEAN, NEW data \in SUBSET Payload,
         NEW code \in Codes, Return(op, ok, data, code)
  PROVE  last' \in [op : {"none", "dump", "one", "set"}, ok : BOOLEAN, data : SUBSET Payload,
                    code : Codes]
BY DEF Return

LEMMA AgainTyped ==
  ASSUME Typed, NEW op \in {"dump", "one"},
         NEW stage \in {"dump", "ask"}, at \in {"dumping", "asking"},
         (stage = "dump") <=> (at = "dumping"), Again(op, stage), seq' = seq
  PROVE  /\ at' \in {"idle", stage} /\ out' = {} /\ tries' \in 0 .. Attempts /\ Budget'
         /\ last' \in [op : {"none", "dump", "one", "set"}, ok : BOOLEAN, data : SUBSET Payload,
                       code : Codes]
<1>1. CASE tries < Attempts /\ at' = stage /\ out' = {} /\ tries' = tries /\ last' = last
  BY <1>1, Constants DEF Typed, TypeOK, Budget
<1>2. CASE Fail(op, "no")
  <2>1. {} \in SUBSET Payload /\ FALSE \in BOOLEAN /\ "no" \in Codes
    BY DEF Codes
  <2>2. Return(op, FALSE, {}, "no") /\ out' = {}
    BY <1>2 DEF Fail
  <2>3. last' \in [op : {"none", "dump", "one", "set"}, ok : BOOLEAN, data : SUBSET Payload,
                   code : Codes]
    BY <2>1, <2>2, ReturnTyped
  <2>4. at' = "idle" /\ tries' = 0
    BY <2>2 DEF Return
  <2>5. Budget'
    BY <2>4 DEF Budget
  <2> QED BY <2>2, <2>3, <2>4, <2>5, Constants
<1> QED BY <1>1, <1>2 DEF Again

LEMMA FailTyped ==
  ASSUME Typed, NEW op \in {"dump", "one", "set"}, Fail(op, "no")
  PROVE  /\ at' = "idle" /\ out' = {} /\ tries' \in 0 .. Attempts /\ Budget'
         /\ last' \in [op : {"none", "dump", "one", "set"}, ok : BOOLEAN, data : SUBSET Payload,
                       code : Codes]
<1>1. {} \in SUBSET Payload /\ FALSE \in BOOLEAN /\ "no" \in Codes
  BY DEF Codes
<1>2. Return(op, FALSE, {}, "no") /\ out' = {}
  BY DEF Fail
<1>3. last' \in [op : {"none", "dump", "one", "set"}, ok : BOOLEAN, data : SUBSET Payload,
                 code : Codes]
  BY <1>1, <1>2, ReturnTyped
<1>4. at' = "idle" /\ tries' = 0
  BY <1>2 DEF Return
<1>5. Budget'
  BY <1>4 DEF Budget
<1> QED BY <1>2, <1>3, <1>4, <1>5, Constants

LEMMA SkipTyped ==
  ASSUME Typed, NEW stage, Skip(stage)
  PROVE  Typed'
BY ReadTyped DEF Skip, Reads, Typed, TypeOK, Budget, kernel

LEMMA TooBigTyped ==
  ASSUME Typed, TooBig("dump", "dumping", "dump") \/ TooBig("one", "asking", "ask")
  PROVE  Typed'
<1>1. /\ at \in {"dumping", "asking"} /\ Drain /\ queue # <<>> /\ ~Fits
      /\ UNCHANGED <<kernel, late, seq, truth>>
      /\ \/ Allowed /\ cap' = Head1.size
         \/ cap' = cap
  BY DEF TooBig, Reads
<1>2. cap' \in 1 .. Ceiling
  <2>1. Head1 \in Datagram
    BY <1>1, ReadTyped DEF Typed
  <2> QED BY <1>1, <2>1, Constants DEF Allowed, Datagram, Sizes, Typed, TypeOK
<1>3. /\ at' \in {"idle", "dump", "ask"} /\ out' = {} /\ tries' \in 0 .. Attempts /\ Budget'
      /\ last' \in [op : {"none", "dump", "one", "set"}, ok : BOOLEAN, data : SUBSET Payload,
                    code : Codes]
  <2>1. CASE Fail("dump", "no") \/ Fail("one", "no")
    BY <2>1, FailTyped
  <2>2. CASE at = "dumping" /\ Again("dump", "dump")
    BY <1>1, <2>2, AgainTyped
  <2>3. CASE at = "asking" /\ Again("one", "ask")
    BY <1>1, <2>3, AgainTyped
  <2> QED BY <2>1, <2>2, <2>3 DEF TooBig, Reads
<1> QED BY <1>1, <1>2, <1>3, ReadTyped, NothingTyped DEF Drain, Typed, TypeOK, kernel

LEMMA TimedOutTyped ==
  ASSUME Typed, NEW op \in {"dump", "one", "set"}, NEW stage, TimedOut(op, stage)
  PROVE  Typed'
<1>1. Fail(op, "no") /\ (Drain \/ UNCHANGED <<queue, cb>>)
      /\ UNCHANGED <<kernel, late, seq, cap, truth>>
  BY DEF TimedOut
<1> QED BY <1>1, FailTyped, ReadTyped, NothingTyped DEF Drain, Typed, TypeOK, kernel

LEMMA DumpTyped == Typed /\ Dumping /\ Dump => Typed'
<1> SUFFICES ASSUME Typed, Dumping, Dump PROVE Typed'
  OBVIOUS
<1> USE NothingTyped, Constants
<1>1. CASE Begin("dump")
  BY <1>1 DEF Begin, Typed, TypeOK, Budget, kernel
<1>2. CASE DumpSend
  <2>1. seq' \in 0 .. MaxSeq /\ tries' \in 0 .. Attempts
    BY <1>2 DEF DumpSend, Typed, TypeOK, Budget
  <2>2. cb' \in [on : BOOLEAN, seq : 0 .. MaxSeq, left : SUBSET Item, changed : BOOLEAN]
    BY <1>2, <2>1 DEF DumpSend, Typed, TypeOK
  <2>3. TypeOK'
    BY <1>2, <2>1, <2>2 DEF DumpSend, Typed, TypeOK, kernel
  <2>4. Budget'
    BY <1>2 DEF DumpSend, Typed, TypeOK, Budget
  <2> QED BY <2>3, <2>4 DEF Typed
<1>3. CASE DumpInterrupted
  <2>1. at = "dumping" /\ Again("dump", "dump") /\ seq' = seq
    BY <1>3 DEF DumpInterrupted, Reads
  <2>2. /\ at' \in {"idle", "dump"} /\ out' = {} /\ tries' \in 0 .. Attempts /\ Budget'
        /\ last' \in [op : {"none", "dump", "one", "set"}, ok : BOOLEAN, data : SUBSET Payload,
                      code : Codes]
    BY <2>1, AgainTyped
  <2> QED BY <1>3, <2>2, ReadTyped DEF DumpInterrupted, Drain, Typed, TypeOK, kernel
<1>4. CASE DumpItems
  <2>1. Head1.data \subseteq Item
    BY <1>4 DEF DumpItems, Dumping, Pending, Reads, Heard, Answered, Current
  <2> QED BY <1>4, <2>1, ReadTyped DEF DumpItems, Reads, Typed, TypeOK, Budget, kernel
<1>5. CASE DumpDone
  <2>1. Return("dump", TRUE, out, "ok") /\ TRUE \in BOOLEAN /\ "ok" \in Codes
        /\ out \in SUBSET Payload
    BY <1>5 DEF DumpDone, Codes, Typed, TypeOK
  <2>2. last' \in [op : {"none", "dump", "one", "set"}, ok : BOOLEAN, data : SUBSET Payload,
                   code : Codes]
    BY <2>1, ReturnTyped
  <2>3. at' = "idle" /\ tries' = 0
    BY <2>1 DEF Return
  <2> QED BY <1>5, <2>2, <2>3, ReadTyped DEF DumpDone, Reads, Typed, TypeOK, Budget, kernel
<1>6. CASE DumpFailed
  <2>1. Fail("dump", "no")
    BY <1>6 DEF DumpFailed
  <2> QED BY <1>6, <2>1, FailTyped, ReadTyped DEF DumpFailed, Drain, Typed, TypeOK, kernel
<1>7. CASE Skip("dumping")
  BY <1>7, SkipTyped
<1>8. CASE TooBig("dump", "dumping", "dump")
  BY <1>8, TooBigTyped
<1>9. CASE TimedOut("dump", "dumping")
  BY <1>9, TimedOutTyped
<1> QED BY <1>1, <1>2, <1>3, <1>4, <1>5, <1>6, <1>7, <1>8, <1>9 DEF Dump

LEMMA AskTyped == Typed /\ Ask => Typed'
<1> SUFFICES ASSUME Typed, Ask PROVE Typed'
  OBVIOUS
<1> USE NothingTyped, Constants
<1>1. CASE Begin("ask")
  BY <1>1 DEF Begin, Typed, TypeOK, Budget, kernel
<1>2. CASE AskSend
  <2> DEFINE before == IF tries = 0 THEN {} ELSE truth.said
  <2>1. seq' \in 0 .. MaxSeq /\ tries' \in 0 .. Attempts /\ before \in SUBSET SUBSET Payload
    BY <1>2 DEF AskSend, Typed, TypeOK, Budget
  <2>2. TypeOK /\ KernelAnswers(seq', before)
    BY <1>2 DEF AskSend, Typed
  <2> HIDE DEF before
  <2>3. PICK d \in Datagram :
          /\ d.ours /\ d.seq = seq' /\ Says(d, truth'.said)
          /\ \/ Sent(d)
             \/ /\ d.kind = "item" /\ late' = late
                /\ \E e \in Datagram :
                     /\ e.ours /\ e.seq = seq'
                     /\ queue' = Append(Append(queue, d), e)
    BY <2>1, <2>2, Asked
  <2>4. queue \in Seq(Datagram) /\ late \subseteq Datagram
    BY <2>2 DEF TypeOK
  <2>5. queue' \in Seq(Datagram) /\ late' \subseteq Datagram
    <3>1. CASE Sent(d)
      BY <2>2, <3>1, SentTyped
    <3>2. CASE late' = late /\ \E e \in Datagram : queue' = Append(Append(queue, d), e)
      <4>1. PICK e \in Datagram : queue' = Append(Append(queue, d), e)
        BY <3>2
      <4>2. Append(queue, d) \in Seq(Datagram)
        BY <2>4, Queueing
      <4>3. Append(Append(queue, d), e) \in Seq(Datagram)
        BY <4>2, Queueing
      <4> QED BY <2>4, <3>2, <4>1, <4>3
    <3> QED BY <2>3, <3>1, <3>2
  <2>6. truth' \in [said : SUBSET SUBSET Payload, code : Codes]
    BY <2>1, <2>2, Asked
  <2>7. TypeOK'
    BY <1>2, <2>1, <2>5, <2>6 DEF AskSend, Typed, TypeOK, kernel
  <2>8. Budget'
    BY <1>2 DEF AskSend, Typed, TypeOK, Budget
  <2> QED BY <2>7, <2>8 DEF Typed
<1>3. CASE AskAnswered
  <2>1. Head1 \in Datagram /\ Tail(queue) \in Seq(Datagram)
    BY <1>3, ReadTyped DEF AskAnswered, Reads, Typed
  <2>2. \E ok \in BOOLEAN, data \in SUBSET Payload, code \in Codes : Return("one", ok, data, code)
    <3>1. Head1.data \in SUBSET Payload /\ {} \in SUBSET Payload /\ TRUE \in BOOLEAN
          /\ FALSE \in BOOLEAN /\ "ok" \in Codes /\ "no" \in Codes
      BY <2>1 DEF Datagram, Codes
    <3> QED BY <1>3, <3>1 DEF AskAnswered
  <2>3. last' \in [op : {"none", "dump", "one", "set"}, ok : BOOLEAN, data : SUBSET Payload,
                   code : Codes]
    BY <2>2, ReturnTyped
  <2>4. at' = "idle" /\ tries' = 0
    BY <2>2 DEF Return
  <2> QED BY <1>3, <2>1, <2>3, <2>4 DEF AskAnswered, Typed, TypeOK, Budget, kernel
<1>4. CASE Skip("asking")
  BY <1>4, SkipTyped
<1>5. CASE TooBig("one", "asking", "ask")
  BY <1>5, TooBigTyped
<1>6. CASE TimedOut("one", "asking")
  BY <1>6, TimedOutTyped
<1> QED BY <1>1, <1>2, <1>3, <1>4, <1>5, <1>6 DEF Ask

LEMMA SetTyped == Typed /\ Set => Typed'
<1> SUFFICES ASSUME Typed, Set PROVE Typed'
  OBVIOUS
<1> USE NothingTyped, Constants
<1>1. ASSUME NEW x \in Item, NEW add \in BOOLEAN, SetSend(x, add) PROVE Typed'
  <2>1. seq' \in 0 .. MaxSeq /\ TypeOK /\ KernelSets(seq', x, add)
    BY <1>1 DEF SetSend, Typed, TypeOK
  <2>2. /\ table' \subseteq Item
        /\ truth' \in [said : SUBSET SUBSET Payload, code : Codes]
        /\ \E d \in Datagram : Sent(d)
    BY <2>1, Changed
  <2>3. queue' \in Seq(Datagram) /\ late' \subseteq Datagram
    BY <2>1, <2>2, SentTyped
  <2> QED BY <1>1, <2>1, <2>2, <2>3 DEF SetSend, Typed, TypeOK, Budget
<1>2. CASE SetAcked
  <2>1. Head1 \in Datagram /\ Tail(queue) \in Seq(Datagram)
    BY <1>2, ReadTyped DEF SetAcked, Reads, Typed
  <2>2. /\ (Head1.code = "ok") \in BOOLEAN /\ {} \in SUBSET Payload /\ Head1.code \in Codes
        /\ Return("set", Head1.code = "ok", {}, Head1.code)
    BY <1>2, <2>1 DEF SetAcked, Datagram
  <2>3. last' \in [op : {"none", "dump", "one", "set"}, ok : BOOLEAN, data : SUBSET Payload,
                   code : Codes]
    BY <2>2, ReturnTyped
  <2>4. at' = "idle" /\ tries' = 0
    BY <2>2 DEF Return
  <2> QED BY <1>2, <2>1, <2>3, <2>4 DEF SetAcked, Typed, TypeOK, Budget, kernel
<1>3. CASE SetSkip
  BY <1>3, ReadTyped DEF SetSkip, Reads, Typed, TypeOK, Budget, kernel
<1>4. CASE TimedOut("set", "setting")
  BY <1>4, TimedOutTyped
<1> QED BY <1>1, <1>2, <1>3, <1>4 DEF Set

LEMMA WorldTyped == Typed /\ World => Typed'
<1> SUFFICES ASSUME Typed, World PROVE Typed'
  OBVIOUS
<1> USE NothingTyped, Constants
<1>1. CASE KernelDumps
  <2> DEFINE C == [on : BOOLEAN, seq : 0 .. MaxSeq, left : SUBSET Item, changed : BOOLEAN]
             T == [said : SUBSET SUBSET Payload, code : Codes]
  <2>1. cb \in C /\ truth \in T /\ table \in SUBSET Payload /\ 1 \in Sizes
        /\ {} \in SUBSET Payload /\ "ok" \in Codes /\ "no" \in Codes
    BY Sized DEF Typed, TypeOK, Codes
  <2>2. \A d \in Datagram : <<d>> \in Seq(Datagram)
    OBVIOUS
  <2>3. cb' \in C /\ truth' \in T /\ \E d \in Datagram : queue' = <<d>>
    <3>1. ASSUME NEW X \in SUBSET cb.left, NEW size \in Sizes,
                 queue' = <<Msg(cb.seq, "item", X, "ok", cb.changed, size)>>,
                 cb' = [cb EXCEPT !.left = @ \ X], truth' = truth
          PROVE  cb' \in C /\ truth' \in T /\ \E d \in Datagram : queue' = <<d>>
      <4>1. X \in SUBSET Payload
        BY <2>1
      <4>2. Msg(cb.seq, "item", X, "ok", cb.changed, size) \in Datagram
        BY <2>1, <4>1, MsgTyped
      <4>3. cb' \in C
        BY <2>1, <3>1
      <4> QED BY <2>1, <3>1, <4>2, <4>3
    <3>2. CASE /\ queue' = <<Msg(cb.seq, "done", {}, "ok", cb.changed, 1)>>
               /\ cb' = NoDump /\ truth' = [Unsaid EXCEPT !.said = {table}]
      <4>1. Msg(cb.seq, "done", {}, "ok", cb.changed, 1) \in Datagram
        BY <2>1, MsgTyped
      <4> QED BY <2>1, <3>2, <4>1
    <3>3. CASE /\ \E kind \in {"done", "error"} :
                    queue' = <<Msg(cb.seq, kind, {}, "no", cb.changed, 1)>>
               /\ cb' = NoDump /\ truth' = truth
      <4>1. \A kind \in {"done", "error"} : Msg(cb.seq, kind, {}, "no", cb.changed, 1) \in Datagram
        BY <2>1, MsgTyped
      <4> QED BY <2>1, <3>3, <4>1
    <3> QED BY <1>1, <3>1, <3>2, <3>3 DEF KernelDumps
  <2>4. queue' \in Seq(Datagram)
    BY <2>2, <2>3
  <2> QED BY <1>1, <2>3, <2>4 DEF KernelDumps, Typed, TypeOK, Budget, kernel
<1>2. ASSUME NEW x \in Item, TableChanges(x) PROVE Typed'
  <2>1. table' \subseteq Item
    BY <1>2 DEF TableChanges, Typed, TypeOK
  <2>2. PICK left \in IF x \in table THEN {cb.left \ {x}} ELSE {cb.left, cb.left \cup {x}} :
          cb' = [cb EXCEPT !.left = left, !.changed = TRUE]
    BY <1>2 DEF TableChanges
  <2>3. left \in SUBSET Item
    BY <2>2 DEF Typed, TypeOK
  <2>4. cb' \in [on : BOOLEAN, seq : 0 .. MaxSeq, left : SUBSET Item, changed : BOOLEAN]
    BY <2>2, <2>3 DEF Typed, TypeOK
  <2> QED BY <1>2, <2>1, <2>4 DEF TableChanges, Typed, TypeOK, Budget
<1>3. ASSUME NEW v \in Vf, VfsChange(v) PROVE Typed'
  <2>1. vfs' \subseteq Vf
    BY <1>3 DEF VfsChange, Typed, TypeOK
  <2> QED BY <1>3, <2>1 DEF VfsChange, Typed, TypeOK, Budget
<1>4. CASE InterfaceMoves
  BY <1>4 DEF InterfaceMoves, Typed, TypeOK, Budget
<1>5. CASE Deliver
  <2>1. PICK d \in late : queue' = Append(queue, d) /\ late' = late \ {d}
    BY <1>5 DEF Deliver
  <2>2. queue' \in Seq(Datagram) /\ late' \subseteq Datagram
    BY <2>1, Queueing DEF Typed, TypeOK
  <2> QED BY <1>5, <2>2 DEF Deliver, Typed, TypeOK, Budget, kernel
<1>6. CASE Stray
  <2>1. PICK kind \in {"done", "error"} :
          queue' = Append(queue, [Msg(seq, kind, {}, "ok", FALSE, 1) EXCEPT !.ours = FALSE])
    BY <1>6 DEF Stray
  <2>2. Msg(seq, kind, {}, "ok", FALSE, 1) \in Datagram
    <3>1. "ok" \in Codes /\ {} \in SUBSET Payload /\ 1 \in Sizes /\ seq \in 0 .. MaxSeq
      BY Sized DEF Codes, Typed, TypeOK
    <3> QED BY <3>1, MsgTyped
  <2>3. [Msg(seq, kind, {}, "ok", FALSE, 1) EXCEPT !.ours = FALSE] \in Datagram
    BY <2>2 DEF Datagram
  <2>4. queue' \in Seq(Datagram)
    <3> HIDE DEF Datagram
    <3> QED BY <2>1, <2>3, Queueing DEF Typed, TypeOK
  <2> QED BY <1>6, <2>4 DEF Stray, Typed, TypeOK, Budget, kernel
<1> QED BY <1>1, <1>2, <1>3, <1>4, <1>5, <1>6 DEF World

-----------------------------------------------------------------------------
(* Every step keeps the invariant *)

LEMMA Queued ==
  ASSUME TypeOK
  PROVE  /\ queue \in Seq(Datagram) /\ Len(queue) \in Nat /\ seq \in Nat
         /\ \A i \in 1 .. Len(queue) : queue[i] \in Datagram /\ queue[i].seq \in Nat
         /\ \A d \in late : d \in Datagram /\ d.seq \in Nat
<1>1. queue \in Seq(Datagram) /\ Len(queue) \in Nat /\ seq \in Nat
  BY LenProperties, Constants DEF TypeOK
<1>2. \A i \in 1 .. Len(queue) : queue[i] \in Datagram
  BY <1>1, ElementOfSeq
<1>3. \A d \in Datagram : d.seq \in Nat
  BY Constants DEF Datagram
<1> QED BY <1>1, <1>2, <1>3 DEF TypeOK

\* Reading the head of the queue.
LEMMA Popped ==
  ASSUME TypeOK, Numbered, queue # <<>>, queue' = Tail(queue), late' = late, seq' = seq
  PROVE  /\ Numbered' /\ Head1 = queue[1] /\ Len(queue) \in Nat \ {0} /\ Len(queue') = Len(queue) - 1
         /\ \A i \in 1 .. Len(queue') : queue'[i] = queue[i + 1]
<1>1. queue \in Seq(Datagram)
  BY DEF TypeOK
<1>2. /\ Len(queue) \in Nat \ {0} /\ Head(queue) = queue[1] /\ Len(queue') = Len(queue) - 1
      /\ \A i \in 1 .. Len(queue) - 1 : queue'[i] = queue[i + 1]
  BY <1>1, Reading
<1>3. Numbered'
  BY <1>2 DEF Numbered
<1> QED BY <1>2, <1>3 DEF Head1

\* Nothing of the request in hand on the queue: nothing is pending.
LEMMA NonePending ==
  ASSUME TypeOK', \A i \in 1 .. Len(queue') : ~(queue'[i].ours /\ queue'[i].seq = seq')
  PROVE  /\ \A i \in 2 .. Len(queue') : ~Current(queue[i])'
         /\ Pending' = {} /\ ~(queue' # <<>> /\ Current(Head1)')
<1>1. queue' \in Seq(Datagram)
  BY DEF TypeOK
<1>2. Len(queue') \in Nat
  BY <1>1, LenProperties
<1>3. queue' # <<>> => Len(queue') > 0 /\ Head(queue') = queue'[1]
  BY <1>1, Reading
<1> QED BY <1>2, <1>3 DEF Pending, Current, Head1

LEMMA ResultsStand ==
  ASSUME Results, last' = last, truth' = truth
  PROVE  Results'
BY DEF Results, DumpIsWhole, AnswerIsOwn, AckIsOwn

LEMMA NoResults ==
  ASSUME last' = Nothing \/ (last'.ok = FALSE /\ last'.code = "no")
  PROVE  Results'
BY DEF Results, DumpIsWhole, AnswerIsOwn, AckIsOwn, Nothing

LEMMA Failed ==
  ASSUME NEW op, Fail(op, "no")
  PROVE  at' = "idle" /\ Results'
<1>1. at' = "idle" /\ last' = [op |-> op, ok |-> FALSE, data |-> {}, code |-> "no"]
  BY DEF Fail, Return
<1> QED BY <1>1, NoResults

LEMMA Repeated ==
  ASSUME Inv, NEW op, NEW stage, at # "idle", Again(op, stage), truth' = truth
  PROVE  /\ at' # "idle" => last' = Nothing
         /\ Results' /\ (at' = "idle" \/ (at' = stage /\ tries' = tries))
<1>1. CASE at' = stage /\ tries' = tries /\ last' = last
  BY <1>1, ResultsStand DEF Inv, Order
<1>2. CASE Fail(op, "no")
  BY <1>2, Failed
<1> QED BY <1>1, <1>2 DEF Again

LEMMA Drained ==
  ASSUME Typed', Numbered, Drain, late' = late, seq' = seq
  PROVE  /\ Numbered' /\ ~cb'.on /\ Len(queue') = 0
BY EmptySeq DEF Drain, Numbered, NoDump

LEMMA InvInit == Init => IInv
<1> SUFFICES ASSUME Init PROVE IInv
  OBVIOUS
<1>1. Typed
  BY TypeInit
<1>2. queue = <<>> /\ Len(queue) = 0 /\ late = {} /\ at = "idle" /\ last = Nothing /\ ~cb.on
  BY EmptySeq DEF Init, NoDump
<1> QED BY <1>1, <1>2 DEF IInv, Inv, Numbered, Order, Dumping, Asking, Setting, Results,
                          DumpIsWhole, AnswerIsOwn, AckIsOwn, Nothing

\* Passed over: neither a part of the dump nor an answer nor an acknowledgement
\* is lost.
LEMMA SkipInv ==
  ASSUME IInv, Typed', queue # <<>>, ~Current(Head1), queue' = Tail(queue),
         UNCHANGED <<table, cb, late, at, seq, tries, out, last, truth>>
  PROVE  Inv'
<1>1. /\ Numbered' /\ Head1 = queue[1] /\ Len(queue) \in Nat \ {0} /\ Len(queue') = Len(queue) - 1
      /\ \A i \in 1 .. Len(queue') : queue'[i] = queue[i + 1]
  BY Popped DEF IInv, Inv, Typed
<1>2. Order' /\ Results'
  BY ResultsStand DEF IInv, Inv, Order
<1>3. Dumping'
  <2> SUFFICES ASSUME at = "dumping" PROVE Dumping'
    BY DEF Dumping
  <2>1. \A i \in 1 .. Len(queue') : ~(queue'[i].ours /\ queue'[i].seq = seq')
    BY <1>1 DEF IInv, Inv, Dumping, Current
  <2>2. /\ \A i \in 2 .. Len(queue') : ~Current(queue[i])'
        /\ Pending' = {} /\ ~(queue' # <<>> /\ Current(Head1)')
    BY <2>1, NonePending DEF Typed
  <2>3. Pending = {}
    BY DEF Pending
  <2>4. \A d \in late' : ~Current(d)'
    BY DEF IInv, Inv, Dumping, Current
  <2> QED BY <2>2, <2>3, <2>4 DEF IInv, Inv, Dumping
<1>4. Asking'
  <2> SUFFICES ASSUME at = "asking" \/ (at = "ask" /\ tries > 0) PROVE Asking'
    BY DEF Asking
  <2>1. \A d \in late' : Good(d)'
    BY DEF IInv, Inv, Asking, Good, Current
  <2>2. ASSUME NEW i \in 1 .. Len(queue')
        PROVE  Good(queue[i])' \/ \E j \in 1 .. i - 1 : (Current(queue[j]) /\ queue[j].kind = "item")'
    <3>1. i + 1 \in 1 .. Len(queue) /\ queue'[i] = queue[i + 1]
      BY <1>1
    <3>2. CASE Good(queue[i + 1])
      BY <3>1, <3>2 DEF Good, Current
    <3>3. CASE \E j \in 1 .. i : Current(queue[j]) /\ queue[j].kind = "item"
      <4>1. PICK j \in 1 .. i : Current(queue[j]) /\ queue[j].kind = "item"
        BY <3>3
      <4>2. j # 1
        BY <1>1, <4>1
      <4>3. j - 1 \in 1 .. i - 1 /\ queue'[j - 1] = queue[j]
        BY <1>1, <4>1, <4>2
      <4> QED BY <4>1, <4>3 DEF Current
    <3>4. (i + 1) - 1 = i
      OBVIOUS
    <3> QED BY <3>1, <3>2, <3>3, <3>4 DEF IInv, Inv, Asking
  <2> QED BY <2>1, <2>2 DEF Asking
<1>5. Setting'
  BY <1>1 DEF IInv, Inv, Setting, Current
<1> QED BY <1>1, <1>2, <1>3, <1>4, <1>5 DEF Inv

\* A request that is over, with nothing of a dump left at the kernel.
LEMMA OverInv ==
  ASSUME Numbered', ~cb'.on, at' = "idle", Results'
  PROVE  Inv'
BY DEF Inv, Order, Dumping, Asking, Setting

LEMMA BeginInv ==
  ASSUME IInv, NEW stage \in {"dump", "ask"}, Begin(stage)
  PROVE  Inv'
<1>1. at = "idle" /\ at' = stage /\ last' = Nothing /\ tries' = 0
      /\ UNCHANGED <<cb, queue, late, seq, truth>>
  BY DEF Begin
<1>2. Numbered' /\ Order'
  BY <1>1 DEF IInv, Inv, Numbered, Order
<1>3. Results'
  BY <1>1, NoResults
<1> QED BY <1>1, <1>2, <1>3 DEF Inv, Dumping, Asking, Setting

LEMMA TooBigInv ==
  ASSUME IInv, Typed', TooBig("dump", "dumping", "dump") \/ TooBig("one", "asking", "ask")
  PROVE  Inv'
<1>1. at \in {"dumping", "asking"} /\ Drain /\ late' = late /\ seq' = seq /\ truth' = truth
  BY DEF TooBig, Reads
<1>2. Numbered' /\ ~cb'.on /\ Len(queue') = 0
  BY <1>1, Drained DEF IInv, Inv
<1>3. CASE at' = "idle" /\ Results'
  BY <1>2, <1>3, OverInv
<1>4. CASE Results' /\ last' = Nothing /\ at = "dumping" /\ at' = "dump"
  BY <1>2, <1>4 DEF Inv, Order, Dumping, Asking, Setting
<1>5. CASE Results' /\ last' = Nothing /\ at = "asking" /\ at' = "ask"
  <2>1. Asking'
    BY <1>1, <1>2, <1>5 DEF IInv, Inv, Asking, Good, Current
  <2> QED BY <1>2, <1>5, <2>1 DEF Inv, Order, Dumping, Setting
<1>6. CASE Fail("dump", "no") \/ Fail("one", "no")
  BY <1>3, <1>6, Failed
<1>7. CASE at = "dumping" /\ Again("dump", "dump")
  BY <1>1, <1>3, <1>4, <1>7, Repeated DEF IInv
<1>8. CASE at = "asking" /\ Again("one", "ask")
  BY <1>1, <1>3, <1>5, <1>8, Repeated DEF IInv
<1> QED BY <1>6, <1>7, <1>8 DEF TooBig, Reads

LEMMA TimedOutInv ==
  ASSUME IInv, Typed', \/ TimedOut("dump", "dumping") \/ TimedOut("one", "asking")
                       \/ TimedOut("set", "setting")
  PROVE  Inv'
<1>1. /\ Fail("dump", "no") \/ Fail("one", "no") \/ Fail("set", "no")
      /\ late' = late /\ seq' = seq
      /\ Drain \/ (at \in {"asking", "setting"} /\ queue' = queue /\ cb' = cb)
  BY DEF TimedOut
<1>2. at' = "idle" /\ Results'
  BY <1>1, Failed
<1>3. Numbered' /\ ~cb'.on
  <2>1. CASE Drain
    BY <1>1, <2>1, Drained DEF IInv, Inv
  <2>2. CASE at \in {"asking", "setting"} /\ queue' = queue /\ cb' = cb
    BY <1>1, <2>2 DEF IInv, Inv, Numbered, Order
  <2> QED BY <1>1, <2>1, <2>2
<1> QED BY <1>2, <1>3, OverInv

LEMMA DumpInv == IInv /\ Typed' /\ Dump => Inv'
<1> SUFFICES ASSUME IInv, Typed', Dump PROVE Inv'
  OBVIOUS
<1>1. CASE Begin("dump")
  BY <1>1, BeginInv
<1>2. CASE DumpSend
  <2>1. /\ at = "dump" /\ at' = "dumping" /\ seq' = seq + 1 /\ out' = {} /\ truth' = Unsaid
        /\ cb' = [on |-> TRUE, seq |-> seq', left |-> table, changed |-> FALSE]
        /\ UNCHANGED <<table, queue, late, last>>
    BY <1>2 DEF DumpSend, kernel
  <2>2. /\ queue \in Seq(Datagram) /\ Len(queue) \in Nat /\ seq \in Nat
        /\ \A i \in 1 .. Len(queue) : queue[i] \in Datagram /\ queue[i].seq \in Nat
        /\ \A d \in late : d \in Datagram /\ d.seq \in Nat
    BY Queued DEF IInv, Typed
  <2>3. Numbered'
    BY <2>1, <2>2 DEF IInv, Inv, Numbered
  <2>4. Order' /\ Results'
    <3>1. last' = Nothing
      BY <2>1 DEF IInv, Inv, Order
    <3> QED BY <2>1, <3>1, NoResults DEF Order
  <2>5. \A i \in 1 .. Len(queue') : ~(queue'[i].ours /\ queue'[i].seq = seq')
    BY <2>1, <2>2 DEF IInv, Inv, Numbered
  <2>6. \A d \in late' : ~Current(d)'
    BY <2>1, <2>2 DEF IInv, Inv, Numbered, Current
  <2>7. Dumping'
    BY <2>1, <2>5, <2>6, NonePending DEF Typed, Dumping
  <2> QED BY <2>1, <2>3, <2>4, <2>7 DEF Inv, Asking, Setting
<1>3. CASE DumpInterrupted
  <2>1. at = "dumping" /\ Drain /\ Again("dump", "dump") /\ UNCHANGED <<late, seq, truth>>
    BY <1>3 DEF DumpInterrupted, Reads
  <2>2. Numbered' /\ ~cb'.on /\ Len(queue') = 0
    BY <2>1, Drained DEF IInv, Inv
  <2>3. /\ at' # "idle" => last' = Nothing
        /\ Results' /\ (at' = "idle" \/ at' = "dump")
    BY <2>1, Repeated DEF IInv
  <2> QED BY <2>2, <2>3 DEF Inv, Order, Dumping, Asking, Setting
<1>4. CASE DumpItems
  <2>1. /\ at = "dumping" /\ queue # <<>> /\ Current(Head1) /\ Head1.kind = "item"
        /\ out' = out \cup Head1.data /\ queue' = Tail(queue)
        /\ UNCHANGED <<table, cb, late, at, seq, last, truth>>
    BY <1>4 DEF DumpItems, Reads, Heard, Answered, Current, kernel
  <2>2. /\ Numbered' /\ Head1 = queue[1] /\ Len(queue) \in Nat \ {0}
        /\ Len(queue') = Len(queue) - 1
        /\ \A i \in 1 .. Len(queue') : queue'[i] = queue[i + 1]
    BY <2>1, Popped DEF IInv, Inv, Typed
  <2>3. Order' /\ Results'
    BY <2>1, ResultsStand DEF IInv, Inv, Order
  <2>4. \A i \in 1 .. Len(queue') : ~(queue'[i].ours /\ queue'[i].seq = seq')
    BY <2>1, <2>2 DEF IInv, Inv, Dumping, Current
  <2>5. /\ \A i \in 2 .. Len(queue') : ~Current(queue[i])'
        /\ Pending' = {} /\ ~(queue' # <<>> /\ Current(Head1)')
    BY <2>4, NonePending DEF Typed
  <2>6. Pending = Head1.data
    BY <2>1 DEF Pending
  <2>7. \A d \in late' : ~Current(d)'
    BY <2>1 DEF IInv, Inv, Dumping, Current
  <2>8. cb'.on /\ ~cb'.changed => (out' \cup Pending') \cup cb'.left = table'
    BY <2>1, <2>5, <2>6 DEF IInv, Inv, Dumping
  <2>9. Dumping'
    BY <2>5, <2>7, <2>8 DEF Dumping
  <2> QED BY <2>1, <2>2, <2>3, <2>9 DEF Inv, Asking, Setting
<1>5. CASE DumpDone
  <2>1. /\ at = "dumping" /\ queue # <<>> /\ Current(Head1)
        /\ Head1.kind = "done" /\ Head1.code = "ok" /\ ~Head1.intr
        /\ queue' = Tail(queue) /\ UNCHANGED <<cb, late, seq, truth>>
        /\ at' = "idle" /\ last' = [op |-> "dump", ok |-> TRUE, data |-> out, code |-> "ok"]
    BY <1>5 DEF DumpDone, Reads, Heard, Answered, Interrupted, Current, Return
  <2>2. Numbered'
    BY <2>1, Popped DEF IInv, Inv, Typed
  <2>3. ~cb'.on /\ out \in truth.said
    BY <2>1 DEF IInv, Inv, Dumping
  <2>4. Results'
    BY <2>1, <2>3 DEF Results, DumpIsWhole, AnswerIsOwn, AckIsOwn
  <2> QED BY <2>1, <2>2, <2>3, <2>4, OverInv
<1>6. CASE DumpFailed
  <2>1. Drain /\ Fail("dump", "no") /\ late' = late /\ seq' = seq
    BY <1>6 DEF DumpFailed
  <2> QED BY <2>1, Drained, Failed, OverInv DEF IInv, Inv
<1>7. CASE Skip("dumping")
  BY <1>7, SkipInv DEF Skip, Reads, Heard, Answered, Current, kernel
<1>8. CASE TooBig("dump", "dumping", "dump")
  BY <1>8, TooBigInv
<1>9. CASE TimedOut("dump", "dumping")
  BY <1>9, TimedOutInv
<1> QED BY <1>1, <1>2, <1>3, <1>4, <1>5, <1>6, <1>7, <1>8, <1>9 DEF Dump

\* A datagram is added at the end of the queue.
LEMMA Pushed ==
  ASSUME TypeOK, NEW d \in Datagram, queue' = Append(queue, d)
  PROVE  /\ Len(queue) \in Nat /\ Len(queue') = Len(queue) + 1
         /\ \A i \in 1 .. Len(queue) : queue'[i] = queue[i]
         /\ queue'[Len(queue) + 1] = d
<1>1. queue \in Seq(Datagram) /\ Len(queue) \in Nat
  BY LenProperties DEF TypeOK
<1> QED BY <1>1, Queueing

\* What is on the queue and what comes later after a reply has been sent: what
\* was there, at its place, and the reply.
LEMMA SentWhere ==
  ASSUME TypeOK, NEW d \in Datagram, Sent(d)
  PROVE  /\ \A c \in late' : c \in late \/ c = d
         /\ \A i \in 1 .. Len(queue') :
              (i \in 1 .. Len(queue) /\ queue'[i] = queue[i]) \/ queue'[i] = d
         /\ \A i \in 1 .. Len(queue) : queue'[i] = queue[i]
<1>1. CASE queue' = Append(queue, d) /\ late' = late
  BY <1>1, Pushed
<1>2. CASE queue' = queue /\ late' = {d}
  BY <1>2
<1> QED BY <1>1, <1>2 DEF Sent

LEMMA AskInv == IInv /\ Typed' /\ Ask => Inv'
<1> SUFFICES ASSUME IInv, Typed', Ask PROVE Inv'
  OBVIOUS
<1>1. CASE Begin("ask")
  BY <1>1, BeginInv
<1>2. CASE AskSend
  <2> DEFINE before == IF tries = 0 THEN {} ELSE truth.said
  <2>1. /\ at = "ask" /\ at' = "asking" /\ cb' = cb /\ last' = last
        /\ seq' = (IF tries = 0 THEN seq + 1 ELSE seq) /\ TypeOK
        /\ KernelAnswers(seq', before)
    BY <1>2 DEF AskSend, IInv, Typed
  <2>2. /\ queue \in Seq(Datagram) /\ Len(queue) \in Nat /\ seq \in Nat
        /\ \A i \in 1 .. Len(queue) : queue[i] \in Datagram /\ queue[i].seq \in Nat
        /\ \A d \in late : d \in Datagram /\ d.seq \in Nat
    BY <2>1, Queued
  <2>3. before \in SUBSET SUBSET Payload /\ seq' \in 0 .. MaxSeq
    BY <2>1 DEF TypeOK, Typed
  <2> HIDE DEF before
  <2>4. before \subseteq truth'.said
    BY <2>1, <2>3, Asked
  <2>5. PICK d \in Datagram :
          /\ d.ours /\ d.seq = seq' /\ Says(d, truth'.said)
          /\ \/ Sent(d)
             \/ /\ d.kind = "item" /\ late' = late
                /\ \E e \in Datagram :
                     /\ e.ours /\ e.seq = seq'
                     /\ queue' = Append(Append(queue, d), e)
    BY <2>1, <2>3, Asked
  <2>6. tries \in Nat
    BY <2>1, Constants DEF TypeOK
  <2>7. /\ \A c \in late' : c \in late \/ c = d
        /\ \A i \in 1 .. Len(queue) : queue'[i] = queue[i]
        /\ \A i \in 1 .. Len(queue') :
             \/ i \in 1 .. Len(queue) /\ queue'[i] = queue[i]
             \/ queue'[i] = d
             \/ /\ queue'[i].ours /\ queue'[i].seq = seq'
                /\ i - 1 \in 1 .. i - 1 /\ queue'[i - 1] = d /\ d.kind = "item"
    <3>1. CASE Sent(d)
      BY <2>1, <3>1, SentWhere
    <3>2. CASE /\ d.kind = "item" /\ late' = late
               /\ \E e \in Datagram : /\ e.ours /\ e.seq = seq'
                                      /\ queue' = Append(Append(queue, d), e)
      <4>1. PICK e \in Datagram : e.ours /\ e.seq = seq' /\ queue' = Append(Append(queue, d), e)
        BY <3>2
      <4> DEFINE q == Append(queue, d)
      <4>2. /\ q \in Seq(Datagram) /\ Len(q) = Len(queue) + 1
            /\ \A i \in 1 .. Len(queue) : q[i] = queue[i]
            /\ q[Len(queue) + 1] = d
        BY <2>2, Queueing
      <4> HIDE DEF q
      <4>3. /\ Len(Append(q, e)) = Len(q) + 1
            /\ \A i \in 1 .. Len(q) : Append(q, e)[i] = q[i]
            /\ Append(q, e)[Len(q) + 1] = e
        BY <4>2, Queueing
      <4>4. queue' = Append(q, e)
        BY <4>1 DEF q
      <4>5. /\ Len(queue') = Len(queue) + 2
            /\ \A i \in 1 .. Len(queue) : queue'[i] = queue[i]
            /\ queue'[Len(queue) + 1] = d /\ queue'[Len(queue) + 2] = e
        BY <2>2, <4>2, <4>3, <4>4
      <4>6. ASSUME NEW i \in 1 .. Len(queue')
            PROVE  \/ i \in 1 .. Len(queue) /\ queue'[i] = queue[i]
                   \/ queue'[i] = d
                   \/ /\ queue'[i].ours /\ queue'[i].seq = seq'
                      /\ i - 1 \in 1 .. i - 1 /\ queue'[i - 1] = d /\ d.kind = "item"
        <5>1. CASE i \in 1 .. Len(queue)
          BY <4>5, <5>1
        <5>2. CASE i = Len(queue) + 1
          BY <4>5, <5>2
        <5>3. CASE i = Len(queue) + 2
          <6>1. queue'[i] = e /\ i - 1 = Len(queue) + 1 /\ i - 1 \in 1 .. i - 1
            BY <2>2, <4>5, <5>3
          <6> QED BY <3>2, <4>1, <4>5, <6>1
        <5> QED BY <2>2, <4>5, <5>1, <5>2, <5>3
      <4> QED BY <3>2, <4>5, <4>6
    <3> QED BY <2>5, <3>1, <3>2
  <2>8. Numbered'
    BY <2>1, <2>2, <2>5, <2>6, <2>7 DEF IInv, Inv, Numbered
  <2>9. Order' /\ Results'
    <3>1. last' = Nothing /\ ~cb'.on
      BY <2>1 DEF IInv, Inv, Order
    <3> QED BY <3>1, NoResults DEF Order
  <2>10. ASSUME NEW c \in Datagram, c.seq <= seq \/ ~c.ours, tries > 0 => Good(c)
         PROVE  Good(c)'
    <3>1. CASE tries = 0
      <4>1. c.seq \in Nat
        BY Constants DEF Datagram
      <4> QED BY <2>1, <2>2, <2>10, <3>1, <4>1 DEF Good, Current
    <3>2. CASE tries > 0
      <4>1. seq' = seq /\ truth.said \subseteq truth'.said
        BY <2>1, <2>4, <2>6, <3>2 DEF before
      <4> QED BY <2>10, <3>2, <4>1 DEF Good, Current, Says
    <3> QED BY <2>6, <3>1, <3>2
  <2>11. Good(d)'
    BY <2>5 DEF Good, Current
  <2>12. \A c \in late' : Good(c)'
    <3> SUFFICES ASSUME NEW c \in late' PROVE Good(c)'
      OBVIOUS
    <3>1. CASE c \in late
      BY <2>1, <2>2, <2>10, <3>1 DEF IInv, Inv, Asking, Numbered
    <3>2. CASE c = d
      BY <2>11, <3>2 DEF Good, Current
    <3> QED BY <2>7, <3>1, <3>2
  <2>13. ASSUME NEW i \in 1 .. Len(queue')
         PROVE  Good(queue[i])'
                \/ \E j \in 1 .. i - 1 : (Current(queue[j]) /\ queue[j].kind = "item")'
    <3>1. CASE i \in 1 .. Len(queue) /\ queue'[i] = queue[i]
      <4>1. CASE tries > 0 => Good(queue[i])
        <5>1. queue[i] \in Datagram /\ (queue[i].seq <= seq \/ ~queue[i].ours)
          BY <2>2, <3>1 DEF IInv, Inv, Numbered
        <5> QED BY <2>10, <3>1, <4>1, <5>1 DEF Good, Current
      <4>2. CASE /\ tries > 0
                 /\ \E j \in 1 .. i - 1 : Current(queue[j]) /\ queue[j].kind = "item"
        <5>1. seq' = seq
          BY <2>1, <2>6, <4>2
        <5>2. PICK j \in 1 .. i - 1 : Current(queue[j]) /\ queue[j].kind = "item"
          BY <4>2
        <5>3. queue'[j] = queue[j]
          BY <2>2, <2>7, <3>1, <5>2
        <5> QED BY <5>1, <5>2, <5>3 DEF Current
      <4> QED BY <2>1, <3>1, <4>1, <4>2 DEF IInv, Inv, Asking
    <3>2. CASE queue'[i] = d
      BY <2>11, <3>2 DEF Good, Current
    <3>3. CASE i - 1 \in 1 .. i - 1 /\ queue'[i - 1] = d /\ d.kind = "item"
      BY <2>5, <3>3 DEF Current
    <3> QED BY <2>7, <3>1, <3>2, <3>3
  <2>14. Asking'
    BY <2>12, <2>13 DEF Asking
  <2> QED BY <2>1, <2>8, <2>9, <2>14 DEF Inv, Dumping, Setting
<1>3. CASE AskAnswered
  <2>1. /\ at = "asking" /\ queue # <<>> /\ Current(Head1)
        /\ queue' = Tail(queue) /\ UNCHANGED <<cb, late, seq, truth>>
    BY <1>3 DEF AskAnswered, Reads, Heard, Answered, Current
  <2>2. /\ Numbered' /\ Head1 = queue[1] /\ Len(queue) \in Nat \ {0}
    BY <2>1, Popped DEF IInv, Inv, Typed
  <2>3. Says(Head1, truth.said)
    <3>1. 1 \in 1 .. Len(queue) /\ 1 .. (1 - 1) = {}
      BY <2>2
    <3>2. Good(queue[1])
      BY <2>1, <3>1 DEF IInv, Inv, Asking
    <3> QED BY <2>1, <2>2, <3>2 DEF Good
  <2>4. at' = "idle" /\ Results'
    <3>1. \/ Head1.kind = "item" /\ Return("one", TRUE, Head1.data, "ok")
          \/ Head1.kind # "item" /\ Head1.code \in {"ok", "gone"} /\ Return("one", TRUE, {}, "ok")
          \/ Return("one", FALSE, {}, "no")
      BY <1>3 DEF AskAnswered
    <3>2. /\ at' = "idle" /\ last'.op = "one"
          /\ last'.ok => last'.data \in truth.said
      <4>1. CASE Head1.kind = "item" /\ Return("one", TRUE, Head1.data, "ok")
        BY <2>3, <4>1 DEF Return, Says
      <4>2. CASE Head1.kind # "item" /\ Head1.code \in {"ok", "gone"} /\ Return("one", TRUE, {}, "ok")
        BY <2>3, <4>2 DEF Return, Says
      <4>3. CASE Return("one", FALSE, {}, "no")
        BY <4>3 DEF Return
      <4> QED BY <3>1, <4>1, <4>2, <4>3
    <3> QED BY <2>1, <3>2 DEF Results, DumpIsWhole, AnswerIsOwn, AckIsOwn
  <2>5. ~cb'.on
    BY <2>1 DEF IInv, Inv, Order
  <2> QED BY <2>2, <2>4, <2>5, OverInv
<1>4. CASE Skip("asking")
  BY <1>4, SkipInv DEF Skip, Reads, Heard, Answered, Current, kernel
<1>5. CASE TooBig("one", "asking", "ask")
  BY <1>5, TooBigInv
<1>6. CASE TimedOut("one", "asking")
  BY <1>6, TimedOutInv
<1> QED BY <1>1, <1>2, <1>3, <1>4, <1>5, <1>6 DEF Ask

LEMMA SetInv == IInv /\ Typed' /\ Set => Inv'
<1> SUFFICES ASSUME IInv, Typed', Set PROVE Inv'
  OBVIOUS
<1>1. ASSUME NEW x \in Item, NEW add \in BOOLEAN, SetSend(x, add) PROVE Inv'
  <2>1. /\ at = "idle" /\ at' = "setting" /\ cb' = cb /\ last' = Nothing
        /\ seq' = seq + 1 /\ TypeOK /\ KernelSets(seq', x, add)
    BY <1>1 DEF SetSend, IInv, Typed
  <2>2. /\ queue \in Seq(Datagram) /\ Len(queue) \in Nat /\ seq \in Nat
        /\ \A i \in 1 .. Len(queue) : queue[i] \in Datagram /\ queue[i].seq \in Nat
        /\ \A d \in late : d \in Datagram /\ d.seq \in Nat
    BY <2>1, Queued
  <2>3. seq' \in 0 .. MaxSeq
    BY DEF Typed, TypeOK
  <2>4. PICK d \in Datagram : d.ours /\ d.seq = seq' /\ d.code = truth'.code /\ Sent(d)
    BY <2>1, <2>3, Changed
  <2>5. /\ \A c \in late' : c \in late \/ c = d
        /\ \A i \in 1 .. Len(queue') :
             (i \in 1 .. Len(queue) /\ queue'[i] = queue[i]) \/ queue'[i] = d
    BY <2>1, <2>4, SentWhere
  <2>6. Numbered'
    BY <2>1, <2>2, <2>4, <2>5 DEF IInv, Inv, Numbered
  <2>7. Order' /\ Results'
    BY <2>1, NoResults DEF IInv, Inv, Order
  <2>8. Setting'
    BY <2>1, <2>2, <2>4, <2>5 DEF IInv, Inv, Numbered, Setting, Current
  <2> QED BY <2>1, <2>6, <2>7, <2>8 DEF Inv, Dumping, Asking
<1>2. CASE SetAcked
  <2>1. /\ at = "setting" /\ queue # <<>> /\ Current(Head1)
        /\ queue' = Tail(queue) /\ UNCHANGED <<cb, late, seq, truth>>
        /\ at' = "idle" /\ last' = [op |-> "set", ok |-> (Head1.code = "ok"), data |-> {},
                                    code |-> Head1.code]
    BY <1>2 DEF SetAcked, Reads, Heard, Answered, Current, Return
  <2>2. Numbered' /\ Head1 = queue[1] /\ Len(queue) \in Nat \ {0}
    BY <2>1, Popped DEF IInv, Inv, Typed
  <2>3. Head1.code = truth.code /\ ~cb'.on
    BY <2>1, <2>2 DEF IInv, Inv, Setting, Order
  <2>4. Results'
    BY <2>1, <2>3 DEF Results, DumpIsWhole, AnswerIsOwn, AckIsOwn
  <2> QED BY <2>1, <2>2, <2>3, <2>4, OverInv
<1>3. CASE SetSkip
  BY <1>3, SkipInv DEF SetSkip, Reads, Heard, Answered, Current, kernel
<1>4. CASE TimedOut("set", "setting")
  BY <1>4, TimedOutInv
<1> QED BY <1>1, <1>2, <1>3, <1>4 DEF Set

\* Something comes in that is no part of the dump, a good answer and a true
\* acknowledgement, each where such a thing is waited for.
LEMMA ArrivalInv ==
  ASSUME IInv, Typed', NEW d \in Datagram, d.ours => d.seq <= seq,
         at = "dumping" => ~Current(d), Good(d) \/ ~(at = "asking" \/ (at = "ask" /\ tries > 0)),
         at = "setting" => (Current(d) => d.code = truth.code),
         queue' = Append(queue, d), late' \subseteq late,
         UNCHANGED <<table, cb, at, seq, tries, out, last, truth>>
  PROVE  Inv'
<1>1. /\ Len(queue) \in Nat /\ Len(queue') = Len(queue) + 1
      /\ \A i \in 1 .. Len(queue) : queue'[i] = queue[i]
      /\ queue'[Len(queue) + 1] = d
  BY Pushed DEF IInv, Typed
<1>2. Numbered' /\ Order' /\ Results'
  <2>1. Numbered'
    BY <1>1 DEF IInv, Inv, Numbered
  <2> QED BY <2>1, ResultsStand DEF IInv, Inv, Order
<1>3. Dumping'
  <2> SUFFICES ASSUME at = "dumping" PROVE Dumping'
    BY DEF Dumping
  <2>1. \A c \in late' : ~Current(c)'
    BY DEF IInv, Inv, Dumping, Current
  <2>2. CASE queue = <<>>
    <3>1. \A i \in 1 .. Len(queue') : ~(queue'[i].ours /\ queue'[i].seq = seq')
      BY <1>1, <2>2, EmptySeq DEF Current
    <3>2. Pending = {}
      BY <2>2 DEF Pending
    <3> QED BY <2>1, <3>1, <3>2, NonePending DEF Typed, IInv, Inv, Dumping
  <2>3. CASE queue # <<>>
    <3>1. queue \in Seq(Datagram) /\ queue' \in Seq(Datagram) /\ queue' # <<>>
      <4>1. queue \in Seq(Datagram) /\ queue' \in Seq(Datagram)
        BY DEF IInv, Typed, TypeOK
      <4>2. Len(queue') # 0
        BY <1>1
      <4> QED BY <4>1, <4>2, EmptySeq
    <3>2. Len(queue) \in Nat \ {0} /\ Head(queue) = queue[1] /\ Head(queue') = queue'[1]
      BY <2>3, <3>1, Reading
    <3>3. Head1' = Head1
      BY <1>1, <3>2 DEF Head1
    <3>4. Pending' = Pending
      BY <2>3, <3>1, <3>3 DEF Pending, Current
    <3>5. \A i \in 2 .. Len(queue') : ~Current(queue[i])'
      BY <1>1, <3>2 DEF IInv, Inv, Dumping, Current
    <3>6. Current(Head1)' <=> Current(Head1)
      BY <3>3 DEF Current
    <3> QED BY <2>1, <2>3, <3>3, <3>4, <3>5, <3>6 DEF IInv, Inv, Dumping
  <2> QED BY <2>2, <2>3
<1>4. Asking'
  <2> SUFFICES ASSUME at = "asking" \/ (at = "ask" /\ tries > 0) PROVE Asking'
    BY DEF Asking
  <2>1. \A c \in late' : Good(c)'
    BY DEF IInv, Inv, Asking, Good, Current
  <2>2. ASSUME NEW i \in 1 .. Len(queue')
        PROVE  Good(queue[i])' \/ \E j \in 1 .. i - 1 : (Current(queue[j]) /\ queue[j].kind = "item")'
    <3>1. CASE i = Len(queue) + 1
      BY <1>1, <3>1 DEF Good, Current
    <3>2. CASE i \in 1 .. Len(queue)
      <4>1. CASE Good(queue[i])
        BY <1>1, <3>2, <4>1 DEF Good, Current
      <4>2. CASE \E j \in 1 .. i - 1 : Current(queue[j]) /\ queue[j].kind = "item"
        <5>1. PICK j \in 1 .. i - 1 : Current(queue[j]) /\ queue[j].kind = "item"
          BY <4>2
        <5>2. queue'[j] = queue[j]
          BY <1>1, <3>2, <5>1
        <5> QED BY <5>1, <5>2 DEF Current
      <4> QED BY <3>2, <4>1, <4>2 DEF IInv, Inv, Asking
    <3> QED BY <1>1, <3>1, <3>2
  <2> QED BY <2>1, <2>2 DEF Asking
<1>5. Setting'
  BY <1>1 DEF IInv, Inv, Setting, Current
<1> QED BY <1>2, <1>3, <1>4, <1>5 DEF Inv

LEMMA WorldInv == IInv /\ Typed' /\ World => Inv'
<1> SUFFICES ASSUME IInv, Typed', World PROVE Inv'
  OBVIOUS
<1>1. CASE KernelDumps
  <2>1. /\ cb.on /\ queue = <<>> /\ at = "dumping" /\ cb.seq = seq /\ last' = last /\ last = Nothing
        /\ UNCHANGED <<table, late, at, seq, tries, out>>
    BY <1>1 DEF KernelDumps, kernel, IInv, Inv, Order
  <2>2. seq \in Nat
    BY Queued DEF IInv, Typed
  <2>3. Pending = {} /\ (~cb.changed => out \cup cb.left = table)
    BY <2>1 DEF Pending, IInv, Inv, Dumping
  <2>4. PICK m : queue' = <<m>> /\ m.ours /\ m.seq = seq
    BY <1>1, <2>1 DEF KernelDumps, Msg
  <2>5. Len(queue') = 1 /\ queue'[1] = m /\ Head1' = m /\ queue' # <<>> /\ Current(Head1)'
    <3>1. Len(<<m>>) = 1 /\ <<m>>[1] = m /\ Head(<<m>>) = m /\ <<m>> # <<>>
      OBVIOUS
    <3> QED BY <2>1, <2>4, <3>1 DEF Head1, Current
  <2>6. Numbered'
    BY <2>1, <2>2, <2>4, <2>5 DEF IInv, Inv, Numbered
  <2>7. Results'
    BY <2>1, NoResults
  <2>8. \A d \in late' : ~Current(d)'
    BY <2>1 DEF IInv, Inv, Dumping, Current
  <2>9. Order' /\ Dumping'
    <3> USE DEF Msg
    <3>1. ASSUME NEW X \in SUBSET cb.left, NEW size \in Sizes,
                 queue' = <<Msg(cb.seq, "item", X, "ok", cb.changed, size)>>,
                 cb' = [cb EXCEPT !.left = @ \ X], truth' = truth
          PROVE  Order' /\ Dumping'
      <4>1. m.kind = "item" /\ m.data = X
        BY <2>4, <3>1
      <4>2. Pending' = X
        BY <2>5, <4>1 DEF Pending
      <4>3. cb'.on = cb.on /\ cb'.seq = cb.seq /\ cb'.changed = cb.changed /\ cb'.left = cb.left \ X
        BY <3>1 DEF IInv, Typed, TypeOK
      <4>4. X \subseteq Item
        BY DEF IInv, Typed, TypeOK
      <4>5. ~cb'.changed => (out' \cup Pending') \cup cb'.left = table'
        BY <2>1, <2>3, <4>2, <4>3
      <4> QED BY <2>1, <2>5, <2>8, <4>1, <4>2, <4>3, <4>4, <4>5 DEF Order, Dumping
    <3>2. CASE /\ cb.left = {}
               /\ queue' = <<Msg(cb.seq, "done", {}, "ok", cb.changed, 1)>>
               /\ cb' = NoDump /\ truth' = [Unsaid EXCEPT !.said = {table}]
      <4>1. m.kind = "done" /\ m.intr = cb.changed
        BY <2>4, <3>2
      <4>2. Pending' = {} /\ ~cb'.on /\ truth'.said = {table}
        BY <2>5, <3>2, <4>1 DEF Pending, NoDump, Unsaid
      <4>3. ~m.intr => out' \in truth'.said
        BY <2>1, <2>3, <3>2, <4>1, <4>2
      <4> QED BY <2>1, <2>5, <2>8, <4>2, <4>3 DEF Order, Dumping
    <3>3. CASE /\ \E kind \in {"done", "error"} :
                    queue' = <<Msg(cb.seq, kind, {}, "no", cb.changed, 1)>>
               /\ cb' = NoDump
      <4>1. m.kind # "item" /\ m.code = "no"
        BY <2>4, <3>3
      <4>2. Pending' = {} /\ ~cb'.on
        BY <2>5, <3>3, <4>1 DEF Pending, NoDump
      <4> QED BY <2>1, <2>5, <2>8, <4>1, <4>2 DEF Order, Dumping
    <3> HIDE DEF Msg
    <3> QED BY <1>1, <3>1, <3>2, <3>3 DEF KernelDumps
  <2> QED BY <2>1, <2>6, <2>7, <2>9 DEF Inv, Asking, Setting
<1>2. ASSUME NEW x \in Item, TableChanges(x) PROVE Inv'
  <2>1. /\ cb.on /\ at = "dumping" /\ cb.seq = seq
        /\ UNCHANGED <<queue, late, at, seq, tries, out, last, truth>>
    BY <1>2 DEF TableChanges, IInv, Inv, Order
  <2>2. cb'.on /\ cb'.seq = cb.seq /\ cb'.changed
    <3>1. PICK left : cb' = [cb EXCEPT !.left = left, !.changed = TRUE]
      BY <1>2 DEF TableChanges
    <3> QED BY <2>1, <3>1 DEF IInv, Typed, TypeOK
  <2>3. Numbered' /\ Order' /\ Results'
    BY <2>1, <2>2, ResultsStand DEF IInv, Inv, Numbered, Order
  <2>4. Pending' = Pending /\ Head1' = Head1 /\ (Current(Head1)' <=> Current(Head1))
    BY <2>1 DEF Pending, Head1, Current
  <2>5. (\A d \in late' : ~Current(d)') /\ (\A i \in 2 .. Len(queue') : ~Current(queue[i])')
    BY <2>1 DEF IInv, Inv, Dumping, Current
  <2>6. Dumping'
    BY <2>1, <2>2, <2>4, <2>5 DEF IInv, Inv, Dumping
  <2> QED BY <2>1, <2>3, <2>6 DEF Inv, Asking, Setting
<1>3. CASE (\E v \in Vf : VfsChange(v)) \/ InterfaceMoves
  <2>1. at # "dumping" /\ UNCHANGED <<cb, queue, late, at, seq, tries, last, truth>>
    BY <1>3 DEF VfsChange, InterfaceMoves
  <2>2. Numbered' /\ Order' /\ Results'
    BY <2>1, ResultsStand DEF IInv, Inv, Numbered, Order
  <2>3. Asking' /\ Setting'
    BY <2>1 DEF IInv, Inv, Asking, Setting, Good, Current
  <2> QED BY <2>1, <2>2, <2>3 DEF Inv, Dumping
<1>4. CASE Deliver
  <2>1. PICK d \in late : /\ queue' = Append(queue, d) /\ late' = late \ {d}
                          /\ UNCHANGED <<kernel, cb, at, seq, tries, cap, out, last, truth>>
    BY <1>4 DEF Deliver
  <2>2. d \in Datagram
    BY <2>1, Queued DEF IInv, Typed
  <2>3. d.seq <= seq /\ (at = "dumping" => ~Current(d))
        /\ (Good(d) \/ ~(at = "asking" \/ (at = "ask" /\ tries > 0)))
        /\ (at = "setting" => (Current(d) => d.code = truth.code))
    BY <2>1 DEF IInv, Inv, Numbered, Dumping, Asking, Setting
  <2>4. late' \subseteq late /\ UNCHANGED <<table, cb, at, seq, tries, out, last, truth>>
    BY <2>1 DEF kernel
  <2> QED BY <2>1, <2>2, <2>3, <2>4, ArrivalInv
<1>5. CASE Stray
  <2>1. PICK kind \in {"done", "error"} :
          queue' = Append(queue, [Msg(seq, kind, {}, "ok", FALSE, 1) EXCEPT !.ours = FALSE])
    BY <1>5 DEF Stray
  <2> DEFINE d == [Msg(seq, kind, {}, "ok", FALSE, 1) EXCEPT !.ours = FALSE]
  <2>2. Msg(seq, kind, {}, "ok", FALSE, 1) \in Datagram
    <3>1. "ok" \in Codes /\ {} \in SUBSET Payload /\ 1 \in Sizes /\ seq \in 0 .. MaxSeq
      BY Sized DEF Codes, IInv, Typed, TypeOK
    <3> QED BY <3>1, MsgTyped
  <2>3. d \in Datagram /\ ~d.ours
    BY <2>2 DEF Datagram
  <2>4. ~Current(d) /\ Good(d)
    BY <2>3 DEF Current, Good
  <2>5. queue' = Append(queue, d) /\ late' \subseteq late
        /\ UNCHANGED <<table, cb, at, seq, tries, out, last, truth>>
    BY <1>5, <2>1 DEF Stray, kernel
  <2> HIDE DEF d
  <2> QED BY <2>3, <2>4, <2>5, ArrivalInv
<1> QED BY <1>1, <1>2, <1>3, <1>4, <1>5 DEF World

-----------------------------------------------------------------------------
(* Theorems *)

LEMMA Stuttering == IInv /\ UNCHANGED vars => IInv'
BY DEF IInv, Typed, TypeOK, Budget, Inv, Numbered, Order, Dumping, Pending, Asking, Setting,
       Results, Good, Says, Current, Head1, DumpIsWhole, AnswerIsOwn, AckIsOwn, vars, kernel

\* The invariant holds throughout, for any table, any number of attempts, any
\* ceiling of the buffer and whatever comes late, is cut short or comes from
\* somebody else (Netlink of netlink.rs as a whole).
THEOREM Inductive == Spec => []IInv
<1>1. Init => IInv
  BY InvInit
<1>2. IInv /\ [Next]_vars => IInv'
  <2> SUFFICES ASSUME IInv, [Next]_vars PROVE IInv'
    OBVIOUS
  <2>1. CASE Dump
    BY <2>1, DumpTyped, DumpInv DEF IInv, Inv
  <2>2. CASE Ask
    BY <2>2, AskTyped, AskInv DEF IInv
  <2>3. CASE Set
    BY <2>3, SetTyped, SetInv DEF IInv
  <2>4. CASE World
    BY <2>4, WorldTyped, WorldInv DEF IInv
  <2>5. CASE UNCHANGED vars
    BY <2>5, Stuttering
  <2> QED BY <2>1, <2>2, <2>3, <2>4, <2>5 DEF Next
<1> QED BY <1>1, <1>2, PTL DEF Spec

\* What the daemon keeps between and during requests has its type: the buffer
\* never outgrows CEILING, attempts never exceed ATTEMPTS, and what a dump
\* collects is entries of the table only, although answers to other questions
\* are read from the same queue (request_one_grown, dump_into).
THEOREM TypeCorrect == Spec => []TypeOK
<1>1. IInv => TypeOK
  BY DEF IInv, Typed
<1> QED BY <1>1, Inductive, PTL

\* A dump that is believed is the whole table as it was when the kernel came
\* to the end of that very attempt (run_dump, dump_into).
THEOREM DumpsAreWhole == Spec => []DumpIsWhole
<1>1. IInv => DumpIsWhole
  BY DEF IInv, Inv, Results
<1> QED BY <1>1, Inductive, PTL

\* An answer that is believed was given to this question, under its number
\* (vf_info_of, request_one_grown, request_one_into).
THEOREM AnswersAreOwn == Spec => []AnswerIsOwn
<1>1. IInv => AnswerIsOwn
  BY DEF IInv, Inv, Results
<1> QED BY <1>1, Inductive, PTL

\* A change is booked as what the kernel did with that change, whatever
\* acknowledgements of earlier ones come late (set_self_fdb).
THEOREM AcksAreOwn == Spec => []AckIsOwn
<1>1. IInv => AckIsOwn
  BY DEF IInv, Inv, Results
<1> QED BY <1>1, Inductive, PTL
=============================================================================
