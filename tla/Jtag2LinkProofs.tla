--------------------------- MODULE Jtag2LinkProofs ---------------------------
(***************************************************************************)
(* Proofs about Jtag2Link, for every retry limit, every wrap-around limit  *)
(* above 1 and any number of exchanges: type correctness, that the         *)
(* comparison of sequence numbers in recv is sound, and that in the        *)
(* process that ends at the first exception (avarice) Jtag2Link implements *)
(* RequestReply: every step of the command layer, of the line and of the   *)
(* emulator is a step of RequestReply or none.                             *)
(***************************************************************************)
EXTENDS Jtag2Link, TLAPS

-----------------------------------------------------------------------------
(* Queues.                                                                 *)

\* The tail of a queue is the queue without its head, moved down by one.
LEMMA TailOfQueue ==
  ASSUME NEW S, NEW q \in Seq(S), q # <<>>
  PROVE  /\ Tail(q) \in Seq(S)
         /\ Head(q) \in S
         /\ Head(q) = q[1]
         /\ Len(q) \in Nat \ {0}
         /\ Len(Tail(q)) = Len(q) - 1
         /\ \A i \in 1 .. Len(q) - 1 : Tail(q)[i] = q[i + 1]
  OBVIOUS

\* Appending adds one element at the end.
LEMMA AppendToQueue ==
  ASSUME NEW S, NEW q \in Seq(S), NEW e \in S
  PROVE  /\ Append(q, e) \in Seq(S)
         /\ Len(q) \in Nat
         /\ Len(Append(q, e)) = Len(q) + 1
         /\ \A i \in 1 .. Len(q) : Append(q, e)[i] = q[i]
         /\ Append(q, e)[Len(q) + 1] = e
  OBVIOUS

\* The next number is another number, and different numbers have different
\* successors, however the wrap falls.
LEMMA NextSeqFacts ==
  /\ \A s \in SeqNumbers : NextSeq(s) \in SeqNumbers /\ NextSeq(s) # s
  /\ \A s, t \in SeqNumbers : NextSeq(s) = NextSeq(t) => s = t
  BY LinkAssumption DEF NextSeq, SeqNumbers

-----------------------------------------------------------------------------
(* Type correctness.                                                       *)

\* Sending a frame keeps the types of the line and of the call record.
LEMMA TransmitType ==
  ASSUME TypeOK, NEW seq \in SeqNumbers, NEW x \in Nat,
         NEW c \in [busy : BOOLEAN, kind : Kinds, tries : 0 .. MaxTries, rate : 1 .. Rates],
         Transmit(seq, x, c)
  PROVE  toIce' \in Seq(Request) /\ call' = c
<1>1. [seq |-> seq, x |-> x] \in Request
  BY DEF Request
<1> QED
  BY <1>1, AppendToQueue DEF Transmit, TypeOK

\* One more attempt stays within the limits of attempts and bit rates.
LEMMA ResendType ==
  ASSUME TypeOK, NEW seq \in SeqNumbers, NEW x \in Nat, Resend(seq, x)
  PROVE  /\ toIce' \in Seq(Request)
         /\ call' \in [busy : BOOLEAN, kind : Kinds, tries : 0 .. MaxTries, rate : 1 .. Rates]
         /\ stage' = stage
<1> DEFINE next == [busy |-> TRUE, kind |-> "sync", tries |-> 1, rate |-> call.rate + 1]
           again == [call EXCEPT !.tries = @ + 1]
           C == [busy : BOOLEAN, kind : Kinds, tries : 0 .. MaxTries, rate : 1 .. Rates]
<1>0. call \in C
  BY DEF TypeOK
<1>1. CASE call.kind = "sync" /\ call.tries = SyncTries
  <2>1. call.rate < Rates /\ Transmit(seq, x, next)
    BY <1>1 DEF Resend
  <2>2. next \in C
    BY <1>0, <2>1, LinkAssumption DEF Kinds
  <2> QED
    BY <2>1, <2>2, TransmitType DEF Resend
<1>2. CASE ~(call.kind = "sync" /\ call.tries = SyncTries)
  <2>1. call.tries < MaxTries /\ Transmit(seq, x, again)
    BY <1>2 DEF Resend
  <2>2. again \in C
    BY <1>0, <2>1, LinkAssumption DEF Kinds
  <2> QED
    BY <2>1, <2>2, TransmitType DEF Resend
<1> QED
  BY <1>1, <1>2

\* Returning to the caller and throwing end the call in a known stage.
LEMMA LeaveType ==
  ASSUME TypeOK, Throw \/ \E ok \in BOOLEAN : Return(ok)
  PROVE  /\ toIce' \in Seq(Request)
         /\ call' \in [busy : BOOLEAN, kind : Kinds, tries : 0 .. MaxTries, rate : 1 .. Rates]
         /\ stage' \in Stages
<1>1. NoCall \in [busy : BOOLEAN, kind : Kinds, tries : 0 .. MaxTries, rate : 1 .. Rates]
  BY LinkAssumption DEF NoCall, Kinds
<1>2. \A s \in Stages : CatchStage(s) \in Stages
  BY DEF CatchStage, Stages
<1>3. \A s \in Stages, ok \in BOOLEAN : StagesAfter(s, ok) \subseteq Stages
  BY <1>2 DEF StagesAfter, Stages, LiveStages
<1> QED
  BY <1>1, <1>2, <1>3 DEF Throw, Return, TypeOK

LEMMA InitType == Init => TypeOK
  BY LinkAssumption DEF Init, TypeOK, SeqNumbers, Stages, LiveStages, NoCall, Kinds

\* Receiving a reply, whole or cut short.
LEMMA AcceptType ==
  ASSUME TypeOK, NEW r \in Responses, NEW intact \in BOOLEAN,
         Accept(r, intact), Conclude(r)
  PROVE  TypeOK'
<1>1. /\ toHost' \in Seq(Reply \cup {Event})
      /\ Head(toHost) \in Reply \cup {Event}
  BY TailOfQueue DEF Accept, TypeOK
<1>2. NextSeq(command_sequence) \in SeqNumbers
  BY NextSeqFacts DEF TypeOK
<1>3. Head(toHost).x \in Nat
  BY <1>1 DEF Reply, Event
<1>4. got' \in [x : Nat, want : Nat, rsp : Responses \cup {"none"}, intact : BOOLEAN]
  BY <1>3 DEF Accept, TypeOK
<1>5. /\ toIce' \in Seq(Request)
      /\ call' \in [busy : BOOLEAN, kind : Kinds, tries : 0 .. MaxTries, rate : 1 .. Rates]
      /\ stage' \in Stages
  <2>1. CASE Resend(NextSeq(command_sequence), xid + 1)
    <3>1. xid + 1 \in Nat
      BY DEF TypeOK
    <3> QED
      BY <2>1, <3>1, <1>2, ResendType DEF TypeOK
  <2>2. CASE Throw
    BY <2>2, LeaveType
  <2>3. CASE Return(TRUE)
    BY <2>3, LeaveType
  <2>4. CASE Return(FALSE)
    BY <2>4, LeaveType
  <2> QED
    BY <2>1, <2>2, <2>3, <2>4 DEF Conclude
<1> QED
  BY <1>1, <1>2, <1>4, <1>5 DEF Accept, TypeOK

LEMMA NextType == TypeOK /\ [Next]_vars => TypeOK'
<1> SUFFICES ASSUME TypeOK, [Next]_vars PROVE TypeOK'
  OBVIOUS
<1>1. CASE StartCall
  <2>1. PICK k \in KindsOf(stage) :
          Transmit(command_sequence, xid,
                   [busy |-> TRUE, kind |-> k, tries |-> 1, rate |-> 1])
    BY <1>1 DEF StartCall
  <2>2. KindsOf(stage) \subseteq Kinds
    BY DEF KindsOf, Kinds, TypeOK, Stages, LiveStages
  <2>3. [busy |-> TRUE, kind |-> k, tries |-> 1, rate |-> 1]
          \in [busy : BOOLEAN, kind : Kinds, tries : 0 .. MaxTries, rate : 1 .. Rates]
    BY <2>2, LinkAssumption
  <2>4. toIce' \in Seq(Request)
        /\ call' = [busy |-> TRUE, kind |-> k, tries |-> 1, rate |-> 1]
    BY <2>1, <2>3, TransmitType DEF TypeOK
  <2> QED
    BY <1>1, <2>3, <2>4 DEF StartCall, TypeOK
<1>2. CASE Advance
  BY <1>2 DEF Advance, TypeOK, Stages, LiveStages
<1>3. CASE NoAnswer
  <2>1. toHost' \in Seq(Reply \cup {Event})
    <3>1. toHost' = toHost \/ (toHost # <<>> /\ toHost' = Tail(toHost))
      BY <1>3 DEF NoAnswer
    <3>2. toHost \in Seq(Reply \cup {Event})
      BY DEF TypeOK
    <3>3. CASE toHost # <<>> /\ toHost' = Tail(toHost)
      BY <3>2, <3>3, TailOfQueue
    <3> QED
      BY <3>1, <3>2, <3>3
  <2>2. CASE Resend(command_sequence, xid) /\ UNCHANGED <<xid, answers>>
    BY <1>3, <2>1, <2>2, ResendType DEF NoAnswer, TypeOK
  <2>3. CASE Throw /\ xid' = xid + 1 /\ answers' = {}
    BY <1>3, <2>1, <2>3, LeaveType DEF NoAnswer, TypeOK
  <2> QED
    BY <1>3, <2>2, <2>3 DEF NoAnswer
<1>4. CASE Discard
  BY <1>4, TailOfQueue DEF Discard, TypeOK
<1>5. CASE Receive
  BY <1>5, AcceptType DEF Receive
<1>6. CASE ReceiveCut
  BY <1>6, AcceptType DEF ReceiveCut
<1>7. CASE Crash
  <2>1. toHost' \in Seq(Reply \cup {Event})
    BY <1>7, TailOfQueue DEF Crash, TypeOK
  <2>2. call' \in [busy : BOOLEAN, kind : Kinds, tries : 0 .. MaxTries, rate : 1 .. Rates]
    BY <1>7, LinkAssumption DEF Crash, NoCall, Kinds
  <2> QED
    BY <1>7, <2>1, <2>2 DEF Crash, TypeOK, Stages
<1>8. CASE LoseRequest \/ LoseReply
  <2>1. CASE LoseRequest
    <3>1. toIce' \in Seq(Request)
      BY <2>1, TailOfQueue DEF LoseRequest, TypeOK
    <3> QED
      BY <2>1, <3>1 DEF LoseRequest, TypeOK
  <2>2. CASE LoseReply
    <3>1. toHost' \in Seq(Reply \cup {Event})
      BY <2>2, TailOfQueue DEF LoseReply, TypeOK
    <3> QED
      BY <2>2, <3>1 DEF LoseReply, TypeOK
  <2> QED
    BY <1>8, <2>1, <2>2
<1>9. CASE IceAnswer
  <2>1. /\ toIce' \in Seq(Request)
        /\ Head(toIce) \in Request
    BY <1>9, TailOfQueue DEF IceAnswer, TypeOK
  <2>2. PICK r \in Responses :
          /\ toHost' = Append(toHost, [seq |-> Head(toIce).seq, x |-> Head(toIce).x, rsp |-> r])
          /\ answers' = IF Head(toIce).x = xid THEN answers \cup {r} ELSE answers
    BY <1>9 DEF IceAnswer
  <2>3. [seq |-> Head(toIce).seq, x |-> Head(toIce).x, rsp |-> r] \in Reply \cup {Event}
    BY <2>1 DEF Request, Reply
  <2>4. toHost' \in Seq(Reply \cup {Event})
    BY <2>2, <2>3, AppendToQueue DEF TypeOK
  <2> QED
    BY <1>9, <2>1, <2>2, <2>4 DEF IceAnswer, TypeOK
<1>10. CASE IceEvent
  BY <1>10, AppendToQueue DEF IceEvent, TypeOK
<1>11. CASE UNCHANGED vars
  BY <1>11 DEF vars, TypeOK
<1> QED
  BY <1>1, <1>2, <1>3, <1>4, <1>5, <1>6, <1>7, <1>8, <1>9, <1>10, <1>11
     DEF Next, Host, Environment, Exited

\* Every variable keeps its type: in particular command_sequence never takes
\* the number of event frames, and no retry loop passes its limit.
THEOREM TypeCorrect == Spec => []TypeOK
<1> QED
  BY InitType, NextType, PTL DEF Spec

-----------------------------------------------------------------------------
(* The line.  Each lemma says that one thing that happens to the two queues *)
(* keeps at most two exchanges on the line, in order.                       *)

\* A frame on the line is of the exchange x or of the one before.
LEMMA FrameAge ==
  ASSUME NEW seq, NEW x \in Nat \ {0}, NEW f, FrameOK(f, seq, x)
  PROVE  f.x \in {x - 1, x} /\ f.x \in Nat /\ f.x <= x
  BY DEF FrameOK

\* A request of the current exchange is sent.
LEMMA PipeSend ==
  ASSUME NEW reqs \in Seq(Request), NEW reps \in Seq(Reply \cup {Event}),
         NEW seq \in SeqNumbers, NEW x \in Nat \ {0},
         PipeOK(reqs, reps, seq, x)
  PROVE  PipeOK(Append(reqs, [seq |-> seq, x |-> x]), reps, seq, x)
<1> DEFINE e == [seq |-> seq, x |-> x]
           q == Append(reqs, e)
<1>1. e \in Request
  BY DEF Request
<1>2. /\ Len(reqs) \in Nat
      /\ Len(q) = Len(reqs) + 1
      /\ \A i \in 1 .. Len(reqs) : q[i] = reqs[i]
      /\ q[Len(reqs) + 1] = e
  BY <1>1, AppendToQueue
<1>3. FrameOK(e, seq, x)
  BY DEF FrameOK
<1> HIDE DEF e, q
<1>4. e.x = x
  BY DEF e
<1>5. \A i \in 1 .. Len(q) : FrameOK(q[i], seq, x)
  BY <1>2, <1>3 DEF PipeOK
<1>6. \A i, j \in 1 .. Len(q) : i < j => q[i].x <= q[j].x
  <2> SUFFICES ASSUME NEW i \in 1 .. Len(q), NEW j \in 1 .. Len(q), i < j
               PROVE  q[i].x <= q[j].x
    OBVIOUS
  <2>1. CASE j \in 1 .. Len(reqs)
    BY <1>2, <2>1 DEF PipeOK
  <2>2. CASE j = Len(reqs) + 1
    BY <1>2, <1>4, <1>5, <2>2, FrameAge
  <2> QED
    BY <1>2, <2>1, <2>2
<1>7. \A i \in 1 .. Len(reps) : reps[i].x <= x
  <2> SUFFICES ASSUME NEW i \in 1 .. Len(reps) PROVE reps[i].x <= x
    OBVIOUS
  <2>1. CASE reps[i] = Event
    BY <2>1 DEF Event
  <2>2. CASE FrameOK(reps[i], seq, x)
    BY <2>2, FrameAge
  <2> QED
    BY <2>1, <2>2 DEF PipeOK
<1>8. \A i \in 1 .. Len(reps), j \in 1 .. Len(q) : reps[i].x <= q[j].x
  BY <1>2, <1>4, <1>7 DEF PipeOK
<1>9. PipeOK(q, reps, seq, x)
  BY <1>5, <1>6, <1>8 DEF PipeOK
<1> QED
  BY <1>9 DEF q, e

\* The oldest reply leaves the line: read, damaged or lost.
LEMMA PipeDropReply ==
  ASSUME NEW reqs \in Seq(Request), NEW reps \in Seq(Reply \cup {Event}),
         NEW seq \in SeqNumbers, NEW x \in Nat \ {0},
         PipeOK(reqs, reps, seq, x), reps # <<>>
  PROVE  PipeOK(reqs, Tail(reps), seq, x)
<1>1. /\ Len(reps) \in Nat \ {0}
      /\ Len(Tail(reps)) = Len(reps) - 1
      /\ \A i \in 1 .. Len(reps) - 1 : Tail(reps)[i] = reps[i + 1]
  BY TailOfQueue
<1> QED
  BY <1>1 DEF PipeOK

\* The oldest request is lost on its way.
LEMMA PipeDropRequest ==
  ASSUME NEW reqs \in Seq(Request), NEW reps \in Seq(Reply \cup {Event}),
         NEW seq \in SeqNumbers, NEW x \in Nat \ {0},
         PipeOK(reqs, reps, seq, x), reqs # <<>>
  PROVE  PipeOK(Tail(reqs), reps, seq, x)
<1>1. /\ Len(reqs) \in Nat \ {0}
      /\ Len(Tail(reqs)) = Len(reqs) - 1
      /\ \A i \in 1 .. Len(reqs) - 1 : Tail(reqs)[i] = reqs[i + 1]
  BY TailOfQueue
<1> QED
  BY <1>1 DEF PipeOK

\* The emulator answers the oldest request.
LEMMA PipeAnswer ==
  ASSUME NEW reqs \in Seq(Request), NEW reps \in Seq(Reply \cup {Event}),
         NEW seq \in SeqNumbers, NEW x \in Nat \ {0}, NEW r \in Responses,
         PipeOK(reqs, reps, seq, x), reqs # <<>>
  PROVE  PipeOK(Tail(reqs),
                Append(reps, [seq |-> Head(reqs).seq, x |-> Head(reqs).x, rsp |-> r]),
                seq, x)
<1> DEFINE e == [seq |-> Head(reqs).seq, x |-> Head(reqs).x, rsp |-> r]
           p == Append(reps, e)
           q == Tail(reqs)
<1>1. /\ Len(reqs) \in Nat \ {0}
      /\ Len(q) = Len(reqs) - 1
      /\ \A i \in 1 .. Len(reqs) - 1 : q[i] = reqs[i + 1]
      /\ Head(reqs) = reqs[1]
      /\ Head(reqs) \in Request
  BY TailOfQueue
<1>2. e \in Reply \cup {Event}
  BY <1>1 DEF Request, Reply
<1>3. /\ Len(reps) \in Nat
      /\ Len(p) = Len(reps) + 1
      /\ \A i \in 1 .. Len(reps) : p[i] = reps[i]
      /\ p[Len(reps) + 1] = e
  BY <1>2, AppendToQueue
<1>4. e.x = reqs[1].x /\ e.seq = reqs[1].seq
  BY <1>1
<1> HIDE DEF e, p, q
<1>5. FrameOK(e, seq, x)
  BY <1>1, <1>4 DEF PipeOK, FrameOK
<1>6. \A i \in 1 .. Len(p) : p[i] = Event \/ FrameOK(p[i], seq, x)
  BY <1>3, <1>5 DEF PipeOK
<1>7. \A i \in 1 .. Len(q) : FrameOK(q[i], seq, x)
  BY <1>1 DEF PipeOK
<1>8. \A i, j \in 1 .. Len(q) : i < j => q[i].x <= q[j].x
  BY <1>1 DEF PipeOK
<1>9. \A i \in 1 .. Len(reps) : reps[i].x <= e.x
  BY <1>1, <1>4 DEF PipeOK
<1>10. \A i, j \in 1 .. Len(p) : i < j => p[j] = Event \/ p[i].x <= p[j].x
  BY <1>3, <1>9 DEF PipeOK
<1>11. \A j \in 1 .. Len(q) : e.x <= q[j].x
  BY <1>1, <1>4 DEF PipeOK
<1>12. \A i \in 1 .. Len(p), j \in 1 .. Len(q) : p[i].x <= q[j].x
  <2> SUFFICES ASSUME NEW i \in 1 .. Len(p), NEW j \in 1 .. Len(q)
               PROVE  p[i].x <= q[j].x
    OBVIOUS
  <2>1. CASE i \in 1 .. Len(reps)
    <3>1. j + 1 \in 1 .. Len(reqs) /\ q[j] = reqs[j + 1] /\ p[i] = reps[i]
      BY <1>1, <1>3, <2>1
    <3> QED
      BY <2>1, <3>1 DEF PipeOK
  <2>2. CASE i = Len(reps) + 1
    BY <1>3, <1>11, <2>2
  <2> QED
    BY <1>3, <2>1, <2>2
<1>13. PipeOK(q, p, seq, x)
  BY <1>6, <1>7, <1>8, <1>10, <1>12 DEF PipeOK
<1> QED
  BY <1>13 DEF p, q, e

\* An event joins the line.
LEMMA PipeEvent ==
  ASSUME NEW reqs \in Seq(Request), NEW reps \in Seq(Reply \cup {Event}),
         NEW seq \in SeqNumbers, NEW x \in Nat \ {0},
         PipeOK(reqs, reps, seq, x)
  PROVE  PipeOK(reqs, Append(reps, Event), seq, x)
<1> DEFINE p == Append(reps, Event)
<1>1. /\ Len(reps) \in Nat
      /\ Len(p) = Len(reps) + 1
      /\ \A i \in 1 .. Len(reps) : p[i] = reps[i]
      /\ p[Len(reps) + 1] = Event
  <2>1. Event \in Reply \cup {Event}
    OBVIOUS
  <2> QED
    BY <2>1, AppendToQueue
<1>2. \A j \in 1 .. Len(reqs) : 0 <= reqs[j].x
  <2>1. \A j \in 1 .. Len(reqs) : reqs[j] \in Request
    OBVIOUS
  <2>2. \A f \in Request : 0 <= f.x
    BY DEF Request
  <2> QED
    BY <2>1, <2>2
<1>3. Event.x = 0
  BY DEF Event
<1> HIDE DEF p
<1>4. PipeOK(reqs, p, seq, x)
  <2>1. \A i \in 1 .. Len(p) : p[i] = Event \/ FrameOK(p[i], seq, x)
    BY <1>1 DEF PipeOK
  <2>2. \A i, j \in 1 .. Len(p) : i < j => p[j] = Event \/ p[i].x <= p[j].x
    BY <1>1 DEF PipeOK
  <2>3. \A i \in 1 .. Len(p), j \in 1 .. Len(reqs) : p[i].x <= reqs[j].x
    BY <1>1, <1>2, <1>3 DEF PipeOK
  <2> QED
    BY <2>1, <2>2, <2>3 DEF PipeOK
<1> QED
  BY <1>4 DEF p

\* The oldest reply carries the awaited number: then it is of the current
\* exchange, so is everything behind it, and the next number is free.
LEMMA PipeAccept ==
  ASSUME NEW reqs \in Seq(Request), NEW reps \in Seq(Reply \cup {Event}),
         NEW seq \in SeqNumbers, NEW x \in Nat \ {0},
         PipeOK(reqs, reps, seq, x), reps # <<>>, Head(reps).seq = seq
  PROVE  /\ Head(reps).x = x
         /\ PipeOK(reqs, Tail(reps), NextSeq(seq), x + 1)
<1> DEFINE p == Tail(reps)
           h == Head(reps)
<1>1. /\ Len(reps) \in Nat \ {0}
      /\ Len(p) = Len(reps) - 1
      /\ \A i \in 1 .. Len(reps) - 1 : p[i] = reps[i + 1]
      /\ h = reps[1]
      /\ h \in Reply \cup {Event}
  BY TailOfQueue
<1>2. NextSeq(seq) # seq
  BY NextSeqFacts
<1>3. h # Event
  BY DEF Event, SeqNumbers
<1> HIDE DEF p, h
<1>4. h.seq = seq
  BY DEF h
<1>5. FrameOK(h, seq, x)
  BY <1>1, <1>3 DEF PipeOK
<1>6. h.x = x
  BY <1>2, <1>4, <1>5 DEF FrameOK
<1>7. \A i \in 1 .. Len(reqs) : reqs[i].x = x - 1 + 1 /\ reqs[i].seq = seq
  <2> SUFFICES ASSUME NEW i \in 1 .. Len(reqs) PROVE reqs[i].x = x /\ reqs[i].seq = seq
    OBVIOUS
  <2>1. x <= reqs[i].x
    BY <1>1, <1>6 DEF PipeOK
  <2>2. FrameOK(reqs[i], seq, x)
    BY DEF PipeOK
  <2> QED
    BY <2>1, <2>2 DEF FrameOK
<1>8. \A i \in 1 .. Len(p) : p[i] = Event \/ (p[i].x = x /\ p[i].seq = seq)
  <2> SUFFICES ASSUME NEW i \in 1 .. Len(p), p[i] # Event
               PROVE  p[i].x = x /\ p[i].seq = seq
    OBVIOUS
  <2>1. p[i] = reps[i + 1] /\ 1 \in 1 .. Len(reps) /\ i + 1 \in 1 .. Len(reps) /\ 1 < i + 1
    BY <1>1
  <2>2. x <= p[i].x
    BY <1>1, <1>6, <2>1 DEF PipeOK
  <2>3. FrameOK(p[i], seq, x)
    BY <2>1 DEF PipeOK
  <2> QED
    BY <2>2, <2>3 DEF FrameOK
<1>9. \A f : f.x = x /\ f.seq = seq => FrameOK(f, NextSeq(seq), x + 1)
  BY DEF FrameOK
<1>10. \A i \in 1 .. Len(reqs) : FrameOK(reqs[i], NextSeq(seq), x + 1)
  BY <1>7, <1>9
<1>11. \A i \in 1 .. Len(p) : p[i] = Event \/ FrameOK(p[i], NextSeq(seq), x + 1)
  BY <1>8, <1>9
<1>12. Event.x = 0
  BY DEF Event
<1>13. \A i, j \in 1 .. Len(p) : i < j => p[j] = Event \/ p[i].x <= p[j].x
  BY <1>8, <1>12
<1>14. \A i \in 1 .. Len(p), j \in 1 .. Len(reqs) : p[i].x <= reqs[j].x
  BY <1>7, <1>8, <1>12
<1>15. \A i, j \in 1 .. Len(reqs) : i < j => reqs[i].x <= reqs[j].x
  BY DEF PipeOK
<1>16. PipeOK(reqs, p, NextSeq(seq), x + 1)
  BY <1>10, <1>11, <1>13, <1>14, <1>15 DEF PipeOK
<1> QED
  BY <1>6, <1>16 DEF p, h

-----------------------------------------------------------------------------
(* The comparison of numbers is sound.                                     *)

\* An exception out of a call ends the part of the life of the object in
\* which the numbers can be relied on.
LEMMA ThrowEndsSync == ASSUME Throw PROVE ~Synced'
  BY DEF Throw, CatchStage, Synced, LiveStages

\* No step enters that part again.
LEMMA SyncedBefore ==
  ASSUME TypeOK, [Next]_vars, Synced'
  PROVE  Synced
<1> SUFFICES ASSUME ~Synced PROVE FALSE
  OBVIOUS
<1>1. stage \in Stages /\ stage \notin LiveStages /\ stage' \in Stages
  BY NextType DEF TypeOK, Synced
<1>2. stage \in {"restore", "signoff", "exited"} /\ (Frontend = "avarice" => stage = "exited")
  BY <1>1 DEF Synced, Stages
<1>3. stage' = stage \/ stage' \in {"signoff", "exited"}
  <2>1. CASE UNCHANGED stage
    BY <2>1
  <2>2. CASE Throw
    BY <1>2, <2>2 DEF Throw, CatchStage
  <2>3. ASSUME NEW ok \in BOOLEAN, Return(ok) PROVE stage' \in {"signoff", "exited"}
    <3>1. stage' \in StagesAfter(stage, ok)
      BY <2>3 DEF Return
    <3>2. CASE stage = "restore"
      BY <3>1, <3>2 DEF StagesAfter
    <3>3. CASE stage = "signoff"
      BY <3>1, <3>3 DEF StagesAfter
    <3>4. CASE stage = "exited"
      BY <3>1, <3>4 DEF StagesAfter, CatchStage
    <3> QED
      BY <1>2, <3>2, <3>3, <3>4
  <2>4. CASE Advance
    BY <1>2, <2>4 DEF Advance
  <2>5. CASE Crash
    BY <2>5 DEF Crash
  <2>6. ASSUME NEW r \in Responses, Conclude(r)
        PROVE  UNCHANGED stage \/ Throw \/ Return(TRUE) \/ Return(FALSE)
    BY <2>6 DEF Conclude, Resend
  <2>7. CASE NoAnswer
    BY <2>1, <2>2, <2>7 DEF NoAnswer, Resend
  <2>8. CASE Receive
    BY <2>1, <2>2, <2>3, <2>6, <2>8 DEF Receive
  <2>9. CASE ReceiveCut
    BY <2>1, <2>2, <2>3, <2>6, <2>9 DEF ReceiveCut
  <2> QED
    BY <2>1, <2>4, <2>5, <2>7, <2>8, <2>9
       DEF Next, Host, Environment, StartCall, Discard, LoseRequest, LoseReply,
           IceAnswer, IceEvent, Exited, vars
<1>4. Frontend = "avarice" => stage' = "exited"
  <2> SUFFICES ASSUME Frontend = "avarice" PROVE stage' = "exited"
    OBVIOUS
  <2>0. stage = "exited"
    BY <1>2
  <2>1. \A ok \in BOOLEAN : StagesAfter("exited", ok) = {"exited"}
    BY DEF StagesAfter, CatchStage
  <2>2. ASSUME NEW r \in Responses, Conclude(r)
        PROVE  UNCHANGED stage \/ Throw \/ Return(TRUE) \/ Return(FALSE)
    BY <2>2 DEF Conclude, Resend
  <2>3. Throw \/ Return(TRUE) \/ Return(FALSE) => stage' = "exited"
    <3>1. Throw => stage' = "exited"
      BY <2>0 DEF Throw, CatchStage
    <3>2. ASSUME NEW ok \in BOOLEAN, Return(ok) PROVE stage' = "exited"
      <4>1. stage' \in StagesAfter("exited", ok)
        BY <2>0, <3>2 DEF Return
      <4> QED
        BY <2>1, <4>1
    <3> QED
      BY <3>1, <3>2
  <2> QED
    BY <2>0, <2>2, <2>3
       DEF Next, Host, Environment, StartCall, Discard, LoseRequest, LoseReply,
           IceAnswer, IceEvent, Exited, vars, Advance, Crash, NoAnswer, Resend,
           Receive, ReceiveCut
<1> QED
  BY <1>1, <1>2, <1>3, <1>4 DEF Synced, LiveStages

LEMMA InitLink == Init => LinkInv
  BY DEF Init, LinkInv, PipeOK

\* Accepting a reply, whatever the retry loop makes of it.
LEMMA AcceptLink ==
  ASSUME TypeOK, PipeOK(toIce, toHost, command_sequence, xid),
         NEW r \in Responses, NEW intact \in BOOLEAN,
         Accept(r, intact), Conclude(r)
  PROVE  LinkInv'
<1>1. /\ Head(toHost).x = xid
      /\ PipeOK(toIce, Tail(toHost), NextSeq(command_sequence), xid + 1)
  BY PipeAccept DEF Accept, TypeOK
<1>2. /\ toHost' = Tail(toHost)
      /\ command_sequence' = NextSeq(command_sequence)
      /\ xid' = xid + 1
      /\ got'.x = got'.want
  BY <1>1 DEF Accept
<1>3. PipeOK(toIce, toHost', command_sequence', xid')
  BY <1>1, <1>2
<1>4. CASE UNCHANGED toIce
  BY <1>2, <1>3, <1>4 DEF LinkInv
<1>5. CASE Resend(NextSeq(command_sequence), xid + 1)
  <2>1. toIce' = Append(toIce, [seq |-> command_sequence', x |-> xid'])
    BY <1>2, <1>5 DEF Resend, Transmit
  <2>2. TypeOK'
    BY AcceptType
  <2>3. PipeOK(toIce', toHost', command_sequence', xid')
    BY <1>3, <2>1, <2>2, PipeSend DEF TypeOK
  <2> QED
    BY <1>2, <2>3 DEF LinkInv
<1> QED
  BY <1>4, <1>5 DEF Conclude, Return, Throw

LEMMA NextLink == TypeOK /\ LinkInv /\ [Next]_vars => LinkInv'
<1> SUFFICES ASSUME TypeOK, LinkInv, [Next]_vars, Synced' PROVE LinkInv'
  BY DEF LinkInv
<1>0. TypeOK' /\ Synced
  BY NextType, SyncedBefore
<1>P. PipeOK(toIce, toHost, command_sequence, xid) /\ got.x = got.want
  BY <1>0 DEF LinkInv
<1>T. /\ toIce \in Seq(Request)
      /\ toHost \in Seq(Reply \cup {Event})
      /\ command_sequence \in SeqNumbers
      /\ xid \in Nat \ {0}
  BY DEF TypeOK
<1>1. CASE StartCall
  <2>1. toIce' = Append(toIce, [seq |-> command_sequence, x |-> xid])
    BY <1>1 DEF StartCall, Transmit
  <2>2. PipeOK(toIce', toHost, command_sequence, xid)
    BY <1>P, <1>T, <2>1, PipeSend
  <2> QED
    BY <1>1, <1>P, <2>2 DEF StartCall, LinkInv
<1>2. CASE Advance
  BY <1>2, <1>P DEF Advance, LinkInv
<1>3. CASE NoAnswer
  <2>1. PipeOK(toIce, toHost', command_sequence, xid) /\ toHost' \in Seq(Reply \cup {Event})
    <3>1. toHost' = toHost \/ (toHost # <<>> /\ toHost' = Tail(toHost))
      BY <1>3 DEF NoAnswer
    <3>2. CASE toHost # <<>> /\ toHost' = Tail(toHost)
      BY <1>P, <1>T, <3>2, PipeDropReply, TailOfQueue
    <3> QED
      BY <1>P, <1>T, <3>1, <3>2
  <2>2. Resend(command_sequence, xid) /\ UNCHANGED <<xid, answers>>
    BY <1>3, ThrowEndsSync DEF NoAnswer
  <2>3. toIce' = Append(toIce, [seq |-> command_sequence, x |-> xid])
    BY <2>2 DEF Resend, Transmit
  <2>4. PipeOK(toIce', toHost', command_sequence, xid)
    BY <1>T, <2>1, <2>3, PipeSend
  <2> QED
    BY <1>3, <1>P, <2>2, <2>4 DEF NoAnswer, LinkInv
<1>4. CASE Discard
  <2>1. PipeOK(toIce, toHost', command_sequence, xid)
    BY <1>4, <1>P, <1>T, PipeDropReply DEF Discard
  <2> QED
    BY <1>4, <1>P, <2>1 DEF Discard, LinkInv
<1>5. CASE Receive
  BY <1>5, <1>P, AcceptLink DEF Receive
<1>6. CASE ReceiveCut
  BY <1>6, <1>P, AcceptLink DEF ReceiveCut
<1>7. CASE Crash
  BY <1>7 DEF Crash, LinkInv, Synced, LiveStages
<1>8. CASE LoseRequest
  <2>1. PipeOK(toIce', toHost, command_sequence, xid)
    BY <1>8, <1>P, <1>T, PipeDropRequest DEF LoseRequest
  <2> QED
    BY <1>8, <1>P, <2>1 DEF LoseRequest, LinkInv
<1>9. CASE LoseReply
  <2>1. PipeOK(toIce, toHost', command_sequence, xid)
    BY <1>9, <1>P, <1>T, PipeDropReply DEF LoseReply
  <2> QED
    BY <1>9, <1>P, <2>1 DEF LoseReply, LinkInv
<1>10. CASE IceAnswer
  <2>1. PICK r \in Responses :
          toHost' = Append(toHost, [seq |-> Head(toIce).seq, x |-> Head(toIce).x, rsp |-> r])
    BY <1>10 DEF IceAnswer
  <2>2. PipeOK(toIce', toHost', command_sequence, xid)
    BY <1>10, <1>P, <1>T, <2>1, PipeAnswer DEF IceAnswer
  <2> QED
    BY <1>10, <1>P, <2>2 DEF IceAnswer, LinkInv
<1>11. CASE IceEvent
  <2>1. PipeOK(toIce, toHost', command_sequence, xid)
    BY <1>11, <1>P, <1>T, PipeEvent DEF IceEvent
  <2> QED
    BY <1>11, <1>P, <2>1 DEF IceEvent, LinkInv
<1>12. CASE UNCHANGED vars
  BY <1>12, <1>P DEF vars, LinkInv
<1> QED
  BY <1>1, <1>2, <1>3, <1>4, <1>5, <1>6, <1>7, <1>8, <1>9, <1>10, <1>11, <1>12
     DEF Next, Host, Environment, Exited

\* The frames on the line are of at most two exchanges, in order, and the two
\* numbers in use tell them apart.
THEOREM LinkInvariant == Spec => []LinkInv
<1>1. Init => TypeOK /\ LinkInv
  BY InitType, InitLink
<1>2. TypeOK /\ LinkInv /\ [Next]_vars => (TypeOK /\ LinkInv)'
  BY NextType, NextLink
<1> QED
  BY <1>1, <1>2, PTL DEF Spec

\* recv never takes the late answer to an earlier request for the reply to the
\* present one: jtag2io.cc's comparison with command_sequence is sound across
\* retries, losses, events and the wrap-around, until a call is abandoned.
THEOREM ReplySound == Spec => []ReplyAnswersExchange
<1>1. LinkInv => ReplyAnswersExchange
  BY DEF LinkInv, ReplyAnswersExchange
<1> QED
  BY <1>1, LinkInvariant, PTL

-----------------------------------------------------------------------------
(* The invariant that relates the line to the abstract answers: an answer  *)
(* that is on its way for the open exchange is one the emulator has given, *)
(* and with no exchange open nothing is on its way for the next one.       *)

Credit(reqs, reps, busy, x, given) ==
  /\ ~busy => given = {}
  /\ \A i \in 1 .. Len(reqs) : reqs[i].x = x => busy
  /\ \A i \in 1 .. Len(reps) : reps[i].x = x => busy /\ reps[i].rsp \in given

CreditInv ==
  /\ Credit(toIce, toHost, call.busy, xid, answers)
  /\ stage = "exited" => ~call.busy

\* Nothing on the line is of an exchange yet to come.
Past(reqs, reps, x) ==
  /\ \A i \in 1 .. Len(reqs) : reqs[i].x \in Nat /\ reqs[i].x <= x
  /\ \A i \in 1 .. Len(reps) : reps[i].x \in Nat /\ reps[i].x <= x

LEMMA PipePast ==
  ASSUME NEW reqs, NEW reps, NEW seq, NEW x \in Nat \ {0}, PipeOK(reqs, reps, seq, x)
  PROVE  Past(reqs, reps, x)
<1>1. \A i \in 1 .. Len(reqs) : reqs[i].x \in Nat /\ reqs[i].x <= x
  BY FrameAge DEF PipeOK
<1>2. \A i \in 1 .. Len(reps) : reps[i].x \in Nat /\ reps[i].x <= x
  <2> SUFFICES ASSUME NEW i \in 1 .. Len(reps) PROVE reps[i].x \in Nat /\ reps[i].x <= x
    OBVIOUS
  <2>1. CASE reps[i] = Event
    BY <2>1 DEF Event
  <2>2. CASE FrameOK(reps[i], seq, x)
    BY <2>2, FrameAge
  <2> QED
    BY <2>1, <2>2 DEF PipeOK
<1> QED
  BY <1>1, <1>2 DEF Past

\* A new exchange begins with nothing on the line and nothing given.
LEMMA CreditNew ==
  ASSUME NEW reqs, NEW reps, NEW x \in Nat, Past(reqs, reps, x), NEW busy \in BOOLEAN
  PROVE  Credit(reqs, reps, busy, x + 1, {})
  BY DEF Past, Credit

\* A request of the open exchange joins the line.
LEMMA CreditSend ==
  ASSUME NEW reqs \in Seq(Request), NEW reps, NEW before \in BOOLEAN, NEW given,
         NEW seq \in SeqNumbers, NEW x \in Nat, Credit(reqs, reps, before, x, given)
  PROVE  Credit(Append(reqs, [seq |-> seq, x |-> x]), reps, TRUE, x, given)
<1>1. [seq |-> seq, x |-> x] \in Request
  BY DEF Request
<1> QED
  BY <1>1, AppendToQueue DEF Credit

\* A frame leaves the line.
LEMMA CreditDropReply ==
  ASSUME NEW reqs, NEW reps \in Seq(Reply \cup {Event}), NEW busy, NEW x, NEW given,
         Credit(reqs, reps, busy, x, given), reps # <<>>
  PROVE  Credit(reqs, Tail(reps), busy, x, given)
  BY TailOfQueue DEF Credit

LEMMA CreditDropRequest ==
  ASSUME NEW reqs \in Seq(Request), NEW reps, NEW busy, NEW x, NEW given,
         Credit(reqs, reps, busy, x, given), reqs # <<>>
  PROVE  Credit(Tail(reqs), reps, busy, x, given)
  BY TailOfQueue DEF Credit

LEMMA PastTail ==
  ASSUME NEW reqs, NEW reps \in Seq(Reply \cup {Event}), NEW x, Past(reqs, reps, x), reps # <<>>
  PROVE  Past(reqs, Tail(reps), x)
  BY TailOfQueue DEF Past

\* A frame is added behind the others.
LEMMA CreditReply ==
  ASSUME NEW reqs, NEW reps \in Seq(Reply \cup {Event}), NEW busy, NEW x, NEW given,
         NEW more, given \subseteq more, ~busy => more = {},
         NEW f \in Reply \cup {Event}, f.x = x => busy /\ f.rsp \in more,
         Credit(reqs, reps, busy, x, given)
  PROVE  Credit(reqs, Append(reps, f), busy, x, more)
<1>1. /\ Len(reps) \in Nat
      /\ Len(Append(reps, f)) = Len(reps) + 1
      /\ \A i \in 1 .. Len(reps) : Append(reps, f)[i] = reps[i]
      /\ Append(reps, f)[Len(reps) + 1] = f
  BY AppendToQueue
<1> QED
  BY <1>1 DEF Credit

-----------------------------------------------------------------------------
(* The steps.                                                              *)

StepOK == CreditInv' /\ [Abstract!Next]_(Abstract!vars)

\* While avarice runs, the line is as LinkInv has it.
LEMMA LinePast ==
  ASSUME TypeOK, LinkInv, Frontend = "avarice", stage # "exited"
  PROVE  /\ PipeOK(toIce, toHost, command_sequence, xid)
         /\ Past(toIce, toHost, xid)
  BY PipePast DEF TypeOK, LinkInv, Synced

\* Nothing the abstract module sees has changed.
LEMMA Stutter ==
  ASSUME UNCHANGED <<call, answers, got>>
  PROVE  [Abstract!Next]_(Abstract!vars)
  BY DEF Abstract!vars

\* An exchange ends without an answer.
LEMMA GivenUp ==
  ASSUME call.busy, ~call'.busy, answers' = {}, UNCHANGED got, call'.busy \in BOOLEAN
  PROVE  [Abstract!Next]_(Abstract!vars)
  BY DEF Abstract!Next, Abstract!GiveUp

LEMMA StepStart ==
  ASSUME TypeOK, CreditInv, StartCall
  PROVE  StepOK
<1>1. PICK k \in KindsOf(stage) :
        Transmit(command_sequence, xid, [busy |-> TRUE, kind |-> k, tries |-> 1, rate |-> 1])
  BY DEF StartCall
<1>2. /\ toIce' = Append(toIce, [seq |-> command_sequence, x |-> xid])
      /\ call'.busy = TRUE /\ ~call.busy
      /\ UNCHANGED <<stage, toHost, xid, answers, got>>
  BY <1>1 DEF StartCall, Transmit
<1>3. stage # "exited"
  BY <1>1 DEF KindsOf
<1>4. answers = {}
  BY <1>2 DEF CreditInv, Credit
<1>5. Credit(toIce', toHost', TRUE, xid', answers')
  BY <1>2, CreditSend DEF TypeOK, CreditInv
<1>6. Abstract!Open
  BY <1>2, <1>4 DEF Abstract!Open
<1> QED
  BY <1>2, <1>3, <1>5, <1>6 DEF StepOK, CreditInv, Abstract!Next

\* The exchange stays open: a request of it is sent once more.
LEMMA ResendOpen ==
  ASSUME TypeOK, call.busy, NEW seq \in SeqNumbers, NEW x \in Nat, Resend(seq, x)
  PROVE  /\ toIce' = Append(toIce, [seq |-> seq, x |-> x])
         /\ call'.busy = TRUE
         /\ stage' = stage
  BY DEF Resend, Transmit, TypeOK

LEMMA ThrowCloses ==
  ASSUME Throw \/ \E ok \in BOOLEAN : Return(ok)
  PROVE  toIce' = toIce /\ call'.busy = FALSE
  BY DEF Throw, Return, NoCall

\* Nothing came in time: one more attempt, or the end of the exchange.
LEMMA StepNoAnswer ==
  ASSUME TypeOK, CreditInv, LinkInv, Frontend = "avarice", NoAnswer
  PROVE  StepOK
<1>1. call.busy /\ stage # "exited" /\ UNCHANGED <<command_sequence, got>>
  BY DEF NoAnswer, CreditInv
<1>2. toHost' = toHost \/ (toHost # <<>> /\ toHost' = Tail(toHost))
  BY DEF NoAnswer
<1>3. Past(toIce, toHost', xid) /\ Credit(toIce, toHost', call.busy, xid, answers)
  <2>1. /\ Past(toIce, toHost, xid) /\ Credit(toIce, toHost, call.busy, xid, answers)
        /\ toHost \in Seq(Reply \cup {Event})
    BY <1>1, LinePast DEF TypeOK, CreditInv
  <2>2. CASE toHost' = toHost
    BY <2>1, <2>2
  <2>3. CASE toHost # <<>> /\ toHost' = Tail(toHost)
    BY <2>1, <2>3, PastTail, CreditDropReply
  <2> QED
    BY <1>2, <2>2, <2>3
<1>5. CASE Resend(command_sequence, xid) /\ UNCHANGED <<xid, answers>>
  <2>1. /\ toIce' = Append(toIce, [seq |-> command_sequence, x |-> xid])
        /\ call'.busy = TRUE /\ stage' = stage
    BY <1>1, <1>5, ResendOpen DEF TypeOK
  <2>2. Credit(toIce', toHost', TRUE, xid, answers)
    BY <1>1, <1>3, <2>1, CreditSend DEF TypeOK
  <2>3. [Abstract!Next]_(Abstract!vars)
    BY <1>1, <1>5, <2>1 DEF Abstract!vars, TypeOK
  <2> QED
    BY <1>1, <1>5, <2>1, <2>2, <2>3 DEF StepOK, CreditInv
<1>6. CASE Throw /\ xid' = xid + 1 /\ answers' = {}
  <2>1. toIce' = toIce /\ call'.busy = FALSE
    BY <1>6, ThrowCloses
  <2>2. Credit(toIce', toHost', FALSE, xid', answers')
    BY <1>3, <1>6, <2>1, CreditNew DEF TypeOK
  <2> QED
    BY <1>1, <1>6, <2>1, <2>2, GivenUp DEF StepOK, CreditInv
<1> QED
  BY <1>5, <1>6 DEF NoAnswer

LEMMA StepDiscard ==
  ASSUME TypeOK, CreditInv, Discard
  PROVE  StepOK
<1>1. Credit(toIce, toHost', call.busy, xid, answers)
  BY CreditDropReply DEF Discard, TypeOK, CreditInv
<1> QED
  BY <1>1, Stutter DEF Discard, StepOK, CreditInv

\* A frame with the awaited number ends the exchange; it is of this exchange,
\* and so one the emulator has given.  The next one may begin at once.
LEMMA StepAccept ==
  ASSUME TypeOK, CreditInv, LinkInv, Frontend = "avarice",
         NEW r \in Responses, NEW intact \in BOOLEAN,
         Accept(r, intact), Conclude(r),
         intact => Head(toHost).rsp = r
  PROVE  StepOK
<1>1. /\ call.busy /\ stage # "exited"
      /\ toHost # <<>> /\ toHost' = Tail(toHost)
      /\ xid' = xid + 1 /\ answers' = {}
      /\ got'.rsp = r /\ got'.intact = intact
      /\ Head(toHost).seq = command_sequence
  BY DEF Accept, CreditInv
<1>2. Past(toIce, toHost', xid)
  BY <1>1, LinePast, PastTail DEF TypeOK
<1>3. Head(toHost).rsp \in answers
  <2>1. Head(toHost).x = xid
    BY <1>1, LinePast, PipeAccept DEF TypeOK
  <2>2. Head(toHost) = toHost[1] /\ 1 \in 1 .. Len(toHost)
    BY <1>1, TailOfQueue DEF TypeOK
  <2> QED
    BY <2>1, <2>2 DEF CreditInv, Credit
<1>4. call'.busy \in BOOLEAN
  BY AcceptType DEF TypeOK
<1>5. CreditInv'
  <2>1. CASE Resend(NextSeq(command_sequence), xid + 1)
    <3>1. NextSeq(command_sequence) \in SeqNumbers /\ xid + 1 \in Nat
      BY NextSeqFacts DEF TypeOK
    <3>2. /\ toIce' = Append(toIce, [seq |-> NextSeq(command_sequence), x |-> xid + 1])
          /\ call'.busy = TRUE /\ stage' = stage
      BY <1>1, <2>1, <3>1, ResendOpen
    <3>3. Credit(toIce, toHost', TRUE, xid + 1, {})
      BY <1>2, CreditNew DEF TypeOK
    <3>4. Credit(toIce', toHost', TRUE, xid + 1, {})
      BY <3>1, <3>2, <3>3, CreditSend DEF TypeOK
    <3> QED
      BY <1>1, <3>2, <3>4 DEF CreditInv
  <2>2. CASE Throw \/ \E ok \in BOOLEAN : Return(ok)
    <3>1. toIce' = toIce /\ call'.busy = FALSE
      BY <2>2, ThrowCloses
    <3>2. Credit(toIce', toHost', FALSE, xid', answers')
      BY <1>1, <1>2, <3>1, CreditNew DEF TypeOK
    <3> QED
      BY <3>1, <3>2 DEF CreditInv
  <2> QED
    BY <2>1, <2>2 DEF Conclude
<1>6. Abstract!Answer
  <2>1. CASE intact
    BY <1>1, <1>3, <1>4, <2>1 DEF Abstract!Answer
  <2>2. CASE ~intact
    BY <1>1, <1>3, <1>4, <2>2 DEF Abstract!Answer
  <2> QED
    BY <2>1, <2>2
<1> QED
  BY <1>5, <1>6 DEF StepOK, Abstract!Next

\* recv reads through a null pointer: the process ends.
LEMMA StepCrash ==
  ASSUME TypeOK, CreditInv, LinkInv, Frontend = "avarice", Crash
  PROVE  StepOK
<1>1. /\ call.busy /\ stage # "exited" /\ call'.busy = FALSE
      /\ toHost # <<>> /\ toHost' = Tail(toHost) /\ toIce' = toIce
      /\ xid' = xid + 1 /\ answers' = {} /\ UNCHANGED got
  BY DEF Crash, CreditInv, NoCall
<1>2. Past(toIce, toHost', xid)
  BY <1>1, LinePast, PastTail DEF TypeOK
<1>3. Credit(toIce', toHost', FALSE, xid', answers')
  BY <1>1, <1>2, CreditNew DEF TypeOK
<1> QED
  BY <1>1, <1>3, GivenUp DEF StepOK, CreditInv

LEMMA StepHost ==
  ASSUME TypeOK, CreditInv, LinkInv, Frontend = "avarice", Host
  PROVE  StepOK
<1>1. CASE NoAnswer
  BY <1>1, StepNoAnswer
<1>2. CASE Discard
  BY <1>2, StepDiscard
<1>3. CASE Receive
  <2>1. PICK r \in Responses : Head(toHost).rsp = r /\ Accept(r, TRUE) /\ Conclude(r)
    BY <1>3 DEF Receive
  <2> QED
    BY <2>1, StepAccept
<1>4. CASE ReceiveCut
  <2>1. PICK r \in Responses : Accept(r, FALSE) /\ Conclude(r)
    BY <1>4 DEF ReceiveCut
  <2> QED
    BY <2>1, StepAccept
<1>5. CASE Crash
  BY <1>5, StepCrash
<1> QED
  BY <1>1, <1>2, <1>3, <1>4, <1>5 DEF Host

\* The emulator answers the oldest request, whichever exchange it is of.
LEMMA StepIceAnswer ==
  ASSUME TypeOK, CreditInv, IceAnswer
  PROVE  StepOK
<1> DEFINE q == Head(toIce)
           reply(r) == [seq |-> q.seq, x |-> q.x, rsp |-> r]
<1>1. PICK r \in Responses :
        /\ toHost' = Append(toHost, reply(r))
        /\ answers' = IF q.x = xid THEN answers \cup {r} ELSE answers
  BY DEF IceAnswer
<1>2. /\ toIce # <<>> /\ toIce' = Tail(toIce)
      /\ UNCHANGED <<command_sequence, stage, call, xid, got>>
  BY DEF IceAnswer
<1>3. q \in Request /\ q = toIce[1] /\ 1 \in 1 .. Len(toIce)
  BY <1>2, TailOfQueue DEF TypeOK
<1>4. reply(r) \in Reply \cup {Event}
  BY <1>3 DEF Request, Reply
<1>5. q.x = xid => call.busy
  BY <1>3 DEF CreditInv, Credit
<1>6. ~call.busy => answers' = {}
  BY <1>1, <1>5 DEF CreditInv, Credit
<1>7. reply(r).x = xid => call.busy /\ reply(r).rsp \in answers'
  BY <1>1, <1>5
<1>8. Credit(toIce', toHost, call.busy, xid, answers)
  BY <1>2, CreditDropRequest DEF TypeOK, CreditInv
<1>9. answers \subseteq answers'
  BY <1>1
<1> HIDE DEF reply
<1>10. Credit(toIce', toHost', call.busy, xid, answers')
  BY <1>1, <1>4, <1>6, <1>7, <1>8, <1>9, CreditReply DEF TypeOK
<1>11. CASE q.x = xid
  <2>1. Abstract!Perform
    BY <1>1, <1>2, <1>5, <1>11 DEF Abstract!Perform
  <2> QED
    BY <1>2, <1>10, <2>1 DEF StepOK, CreditInv, Abstract!Next
<1>12. CASE q.x # xid
  BY <1>1, <1>2, <1>10, <1>12, Stutter DEF StepOK, CreditInv
<1> QED
  BY <1>11, <1>12

LEMMA StepLine ==
  ASSUME TypeOK, CreditInv, LoseRequest \/ LoseReply \/ IceEvent
  PROVE  StepOK
<1>1. CASE LoseRequest
  <2>1. Credit(toIce', toHost, call.busy, xid, answers)
    BY <1>1, CreditDropRequest DEF LoseRequest, TypeOK, CreditInv
  <2> QED
    BY <1>1, <2>1, Stutter DEF LoseRequest, StepOK, CreditInv
<1>2. CASE LoseReply
  <2>1. Credit(toIce, toHost', call.busy, xid, answers)
    BY <1>2, CreditDropReply DEF LoseReply, TypeOK, CreditInv
  <2> QED
    BY <1>2, <2>1, Stutter DEF LoseReply, StepOK, CreditInv
<1>3. CASE IceEvent
  <2>1. Event.x = 0 /\ Event \in Reply \cup {Event} /\ xid # 0
    BY DEF Event, TypeOK
  <2>2. Credit(toIce, toHost', call.busy, xid, answers)
    BY <1>3, <2>1, CreditReply DEF IceEvent, TypeOK, CreditInv, Credit
  <2> QED
    BY <1>3, <2>2, Stutter DEF IceEvent, StepOK, CreditInv
<1> QED
  BY <1>1, <1>2, <1>3

LEMMA StepNext ==
  Frontend = "avarice" /\ TypeOK /\ LinkInv /\ CreditInv /\ [Next]_vars => StepOK
<1> SUFFICES ASSUME Frontend = "avarice", TypeOK, LinkInv, CreditInv, [Next]_vars
             PROVE  StepOK
  OBVIOUS
<1>1. CASE StartCall
  BY <1>1, StepStart
<1>2. CASE Advance
  BY <1>2, Stutter DEF Advance, StepOK, CreditInv
<1>3. CASE Host
  BY <1>3, StepHost
<1>4. CASE Environment
  BY <1>4, StepIceAnswer, StepLine DEF Environment
<1>5. CASE UNCHANGED vars
  BY <1>5, Stutter DEF vars, StepOK, CreditInv
<1> QED
  BY <1>1, <1>2, <1>3, <1>4, <1>5 DEF Next, Exited

\* In a process that ends at the first exception, the command layer (jtag2io.cc)
\* keeps what RequestReply promises its callers: whatever is lost, late,
\* damaged or asked for again, an answer handed over is one the emulator gave
\* in the exchange that was waiting for it.
THEOREM LinkImplements ==
  ASSUME Frontend = "avarice"
  PROVE  Spec => ImplementsRequestReply
<1>1. Init => CreditInv /\ Abstract!Init
  BY DEF Init, NoCall, CreditInv, Credit, Abstract!Init
<1>2. TypeOK /\ LinkInv /\ CreditInv /\ [Next]_vars => CreditInv' /\ [Abstract!Next]_(Abstract!vars)
  BY StepNext DEF StepOK
<1> QED
  BY <1>1, <1>2, TypeCorrect, LinkInvariant, PTL DEF Spec, ImplementsRequestReply, Abstract!Spec
=============================================================================
