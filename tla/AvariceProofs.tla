---------------------------- MODULE AvariceProofs ----------------------------
(***************************************************************************)
(* Proofs about Avarice and the command layer of the mkI driver below it,  *)
(* for any command lines, emulators, bit rates, bounds and faults.  An     *)
(* answer, which carries no number, is never taken for that of another     *)
(* request, as nothing of an earlier one is left when a request is sent.   *)
(* GDB's breakpoints are in the lists and these in the comparators.  What  *)
(* a step of main turns on, one of its later calls turns off again; so the *)
(* program is stopped and out of programming mode between the steps, and   *)
(* GDB is given what is in memory.  A page that a download writes is read  *)
(* and compared by a call behind it, so that what is past a download is    *)
(* there.                                                                  *)
(***************************************************************************)
EXTENDS Avarice, FiniteSetTheorems, FunctionTheorems, SequenceTheorems, TLAPS

-----------------------------------------------------------------------------
(* The invariant: the line holds the last request, or its answer, or part  *)
(* of it; between the calls of the driver no request is under way.         *)

AnswerTo(q, s) ==
  \/ s = <<>>
  \/ \E t : s = <<t>> /\ t.of = q
  \/ \E t, u : s = <<t, u>> /\ t.of = q /\ u.of = q

\* A call is a record of these four fields.
Record(c) == c = [phase |-> c.phase, q |-> c.q, tries |-> c.tries, rate |-> c.rate]

LineInv ==
  /\ Record(call)
  /\ ~InCall => toIce = <<>>
  /\ InCall => \/ toIce = <<>> /\ AnswerTo(Sent, toHost)
               \/ toIce = <<Sent>> /\ toHost = <<>>
  /\ AnswerOwn

LEMMA LineImplies ==
  ASSUME LineInv
  PROVE  AnswerOwn /\ OnlyLast
<1>1. CASE InCall /\ toIce = <<>>
  <2>1. \A i \in DOMAIN toHost : toHost[i].of = Sent
    BY <1>1 DEF LineInv, AnswerTo
  <2> QED
    BY <1>1, <2>1 DEF LineInv, OnlyLast
<1>2. CASE InCall /\ toIce = <<Sent>> /\ toHost = <<>>
  BY <1>2 DEF LineInv, OnlyLast
<1>3. CASE ~InCall
  BY <1>3 DEF LineInv, OnlyLast
<1> QED
  BY <1>1, <1>2, <1>3 DEF LineInv

-----------------------------------------------------------------------------
(* Records and tuples.                                                     *)

LEMMA RecordFacts ==
  ASSUME NEW c, Record(c), NEW v
  PROVE  /\ LET d == [c EXCEPT !.phase = v]
            IN  Record(d) /\ d.phase = v /\ d.q = c.q /\ d.tries = c.tries /\ d.rate = c.rate
         /\ LET d == [c EXCEPT !.q = v]
            IN  Record(d) /\ d.phase = c.phase /\ d.q = v /\ d.tries = c.tries /\ d.rate = c.rate
         /\ LET d == [c EXCEPT !.tries = v]
            IN  Record(d) /\ d.phase = c.phase /\ d.q = c.q /\ d.tries = v /\ d.rate = c.rate
         /\ LET d == [c EXCEPT !.rate = v]
            IN  Record(d) /\ d.phase = c.phase /\ d.q = c.q /\ d.tries = c.tries /\ d.rate = v
  BY DEF Record

LEMMA TupleFacts ==
  ASSUME NEW a, NEW b
  PROVE  /\ <<a>> \o <<b>> = <<a, b>>
         /\ <<a>> \o <<>> = <<a>>
         /\ <<>> \o <<a, b>> = <<a, b>>
         /\ <<>> \o <<a>> = <<a>>
         /\ Append(<<>>, a) = <<a>>
<1>1. /\ <<a>> \in Seq({a, b}) /\ <<b>> \in Seq({a, b}) /\ <<a, b>> \in Seq({a, b})
      /\ <<>> \in Seq({a, b})
  OBVIOUS
<1>2. <<a>> \o <<b>> = <<a, b>>
  <2> DEFINE s == <<a>> \o <<b>>
             t == <<a, b>>
  <2>1. s \in Seq({a, b}) /\ Len(s) = 2 /\ s[1] = a /\ s[2] = b
    BY <1>1
  <2>2. t \in Seq({a, b}) /\ Len(t) = 2 /\ t[1] = a /\ t[2] = b
    BY <1>1
  <2> HIDE DEF s, t
  <2>3. \A i \in 1 .. 2 : i = 1 \/ i = 2
    OBVIOUS
  <2>4. s = t
    BY <2>1, <2>2, <2>3
  <2> QED
    BY <2>4 DEF s, t
<1>3. <<a>> \o <<>> = <<a>>
  BY <1>1
<1>4. <<>> \o <<a, b>> = <<a, b>>
  BY <1>1
<1>5. <<>> \o <<a>> = <<a>>
  BY <1>1
<1>6. Append(<<>>, a) = <<a>>
  BY <1>1
<1> QED
  BY <1>2, <1>3, <1>4, <1>5, <1>6

-----------------------------------------------------------------------------
(* Sending.                                                                *)

\* The request that a call in this phase has sent last.
SentBy(c) ==
  CASE c.phase \in {"command", "body"} -> c.q
    [] c.phase = "resync" -> Sync
    [] c.phase = "wake" -> Wake
    [] OTHER -> Stop

\* What is received before a request is sent is thrown away, so that only the
\* request itself is on the line.
LEMMA TransmitKeeps ==
  ASSUME LineInv, toIce = <<>>, NEW q, NEW c, Transmit(q, c),
         Record(c), c.phase \in Phases, SentBy(c) = q, AnswerOwn'
  PROVE  LineInv'
<1>1. call' = c /\ toIce' = <<q>> /\ toHost' = <<>>
  BY DEF Transmit
<1>2. Sent' = q
  BY <1>1 DEF Sent, SentBy
<1> QED
  BY <1>1, <1>2 DEF LineInv, InCall

LEMMA FailKeeps ==
  ASSUME LineInv, toIce = <<>>, Fail, AnswerOwn'
  PROVE  LineInv'
<1>1. Record(call') /\ call'.phase = "failed" /\ toIce' = <<>>
  BY DEF Fail, LineInv, Record
<1> QED
  BY <1>1 DEF LineInv, InCall, Phases

\* One more attempt sends the command, a blank or the sign-on.
LEMMA AgainKeeps ==
  ASSUME LineInv, toIce = <<>>, NEW q, NEW phase, Again(q, phase), AnswerOwn',
         \/ phase = "command" /\ q = call.q
         \/ phase = "resync" /\ q = Sync
         \/ phase = "hush" /\ q = Stop
  PROVE  LineInv'
<1>1. CASE call.tries < MaxTries
  <2> DEFINE c == [call EXCEPT !.phase = phase, !.tries = @ + 1]
  <2>1. Transmit(q, c)
    BY <1>1 DEF Again
  <2>2. Record(c) /\ c.phase = phase /\ c.q = call.q
    <3> DEFINE d == [call EXCEPT !.phase = phase]
    <3>1. Record(d) /\ d.phase = phase /\ d.q = call.q
      BY RecordFacts DEF LineInv
    <3>2. c = [d EXCEPT !.tries = call.tries + 1]
      OBVIOUS
    <3> HIDE DEF d
    <3> DEFINE e == [d EXCEPT !.tries = call.tries + 1]
    <3>3. Record(e) /\ e.phase = d.phase /\ e.q = d.q
      BY <3>1, RecordFacts, ZenonT(60)
    <3> QED
      BY <3>1, <3>2, <3>3
  <2> HIDE DEF c
  <2>3. c.phase \in Phases /\ SentBy(c) = q
    BY <2>2 DEF Phases, SentBy
  <2> QED
    BY <2>1, <2>2, <2>3, TransmitKeeps
<1>2. CASE ~(call.tries < MaxTries)
  BY <1>2, FailKeeps DEF Again
<1> QED
  BY <1>1, <1>2

LEMMA AttemptKeeps ==
  ASSUME LineInv, toIce = <<>>, NEW i, NEW tries, Attempt(i, tries), AnswerOwn'
  PROVE  LineInv'
<1> DEFINE c == [Idle EXCEPT !.phase = "wake", !.tries = tries, !.rate = i]
<1>1. Transmit(Wake, c)
  BY DEF Attempt
<1>2. Record(c) /\ c.phase = "wake"
  <2> DEFINE d == [Idle EXCEPT !.phase = "wake"]
             e == [d EXCEPT !.tries = tries]
  <2>1. Record(Idle)
    BY DEF Idle, Record
  <2>2. Record(d) /\ d.phase = "wake"
    BY <2>1, RecordFacts
  <2>3. c = [e EXCEPT !.rate = i]
    OBVIOUS
  <2> HIDE DEF d
  <2>4. Record(e) /\ e.phase = "wake"
    BY <2>2, RecordFacts, ZenonT(60)
  <2> HIDE DEF e
  <2> DEFINE f == [e EXCEPT !.rate = i]
  <2>5. Record(f) /\ f.phase = e.phase
    BY <2>4, RecordFacts
  <2> QED
    BY <2>3, <2>4, <2>5
<1> HIDE DEF c
<1>3. c.phase \in Phases /\ SentBy(c) = Wake
  BY <1>2 DEF Phases, SentBy
<1> QED
  BY <1>1, <1>2, <1>3, TransmitKeeps

LEMMA NextAttemptKeeps ==
  ASSUME LineInv, toIce = <<>>, NextAttempt, AnswerOwn'
  PROVE  LineInv'
  BY AttemptKeeps, FailKeeps DEF NextAttempt

\* After Wake the emulator is asked to sign on.
LEMMA SignKeeps ==
  ASSUME LineInv, toIce = <<>>, Transmit(Stop, [call EXCEPT !.phase = "sign"]), AnswerOwn'
  PROVE  LineInv'
<1> DEFINE c == [call EXCEPT !.phase = "sign"]
<1>1. Record(c) /\ c.phase = "sign"
  BY DEF LineInv, Record
<1>2. Transmit(Stop, c)
  OBVIOUS
<1> HIDE DEF c
<1>3. c.phase \in Phases /\ SentBy(c) = Stop
  BY <1>1 DEF Phases, SentBy
<1> QED
  BY <1>1, <1>2, <1>3, TransmitKeeps

-----------------------------------------------------------------------------
(* Receiving.                                                              *)

\* While there is something to read, there is no request on its way.
LEMMA HeadFacts ==
  ASSUME LineInv, InCall, toHost # <<>>
  PROVE  /\ toIce = <<>>
         /\ Head(toHost).of = Sent
         /\ AnswerTo(Sent, Tail(toHost))
<1>1. toIce = <<>> /\ AnswerTo(Sent, toHost)
  BY DEF LineInv
<1>2. CASE \E t : toHost = <<t>> /\ t.of = Sent
  BY <1>1, <1>2 DEF AnswerTo
<1>3. CASE \E t, u : toHost = <<t, u>> /\ t.of = Sent /\ u.of = Sent
  <2>1. PICK t, u : toHost = <<t, u>> /\ t.of = Sent /\ u.of = Sent
    BY <1>3
  <2>2. Head(toHost) = t /\ Tail(toHost) = <<u>>
    BY <2>1
  <2> QED
    BY <1>1, <2>1, <2>2 DEF AnswerTo
<1> QED
  BY <1>1, <1>2, <1>3 DEF AnswerTo

\* The first byte has been read, the rest belongs to the same request.
LEMMA AwaitKeeps ==
  ASSUME LineInv, toHost # <<>>, toHost' = Tail(toHost), AnswerOwn', NEW phase, Await(phase),
         \/ call.phase = "command" /\ phase = "body"
         \/ call.phase = "hush" /\ phase = "hushBody"
         \/ call.phase = "sign" /\ phase = "signBody"
  PROVE  LineInv'
<1>1. Record(call') /\ call'.phase = phase /\ call'.q = call.q /\ toIce' = toIce
  BY DEF Await, LineInv, Record
<1>2. InCall /\ InCall'
  BY <1>1 DEF InCall, Phases
<1>3. Sent' = Sent
  BY <1>1 DEF Sent
<1>4. toIce = <<>> /\ AnswerTo(Sent, Tail(toHost))
  BY <1>2, HeadFacts
<1> QED
  BY <1>1, <1>2, <1>3, <1>4 DEF LineInv

\* A command ends with the answer to itself.
LEMMA ReturnKeeps ==
  ASSUME LineInv, toHost # <<>>, call.phase \in {"command", "body"}, Return(Head(toHost))
  PROVE  LineInv'
<1>1. InCall /\ Sent = call.q
  BY DEF InCall, Phases, Sent
<1>2. toIce = <<>> /\ Head(toHost).of = call.q
  BY <1>1, HeadFacts
<1>3. Record(call') /\ call'.phase = "done" /\ toIce' = <<>>
  BY <1>2 DEF Return, LineInv, Record
<1>4. got'.of = got'.want
  BY <1>2 DEF Return
<1> QED
  BY <1>3, <1>4 DEF LineInv, InCall, Phases, AnswerOwn

LEMMA HostKeeps ==
  ASSUME LineInv, Host
  PROVE  LineInv'
<1>1. CASE Timeout
  <2>1. toIce = <<>> /\ AnswerOwn'
    BY <1>1 DEF Timeout, Nothing, LineInv, AnswerOwn
  <2>2. CASE call.phase \in {"command", "resync"}
    BY <1>1, <2>1, <2>2, AgainKeeps DEF Timeout
  <2>3. CASE call.phase \in {"hush", "hushBody"}
    BY <1>1, <2>1, <2>3, AgainKeeps DEF Timeout
  <2>4. CASE call.phase = "body"
    BY <1>1, <2>1, <2>4, FailKeeps DEF Timeout
  <2>5. CASE call.phase = "wake"
    BY <1>1, <2>1, <2>5, SignKeeps DEF Timeout
  <2>6. CASE call.phase \in {"sign", "signBody"}
    BY <1>1, <2>1, <2>6, NextAttemptKeeps DEF Timeout
  <2> QED
    BY <1>1, <2>2, <2>3, <2>4, <2>5, <2>6 DEF Timeout
<1>2. CASE FirstOk
  <2>1. toHost # <<>> /\ call.phase \in Phases
    BY <1>2 DEF FirstOk, Phases
  <2>2. toIce = <<>>
    BY <2>1, HeadFacts DEF InCall
  <2>3. UNCHANGED got => AnswerOwn'
    BY DEF LineInv, AnswerOwn
  <2>4. CASE call.phase = "command" /\ HasBody(call.q) /\ Await("body") /\ toHost' = Tail(toHost) /\ UNCHANGED got
    BY <2>1, <2>3, <2>4, AwaitKeeps
  <2>5. CASE call.phase = "command" /\ ~HasBody(call.q) /\ Return(Head(toHost)) /\ toHost' = Tail(toHost)
    BY <2>1, <2>5, ReturnKeeps
  <2>6. CASE call.phase = "resync" /\ Again(call.q, "command") /\ UNCHANGED got
    BY <2>2, <2>3, <2>6, AgainKeeps
  <2>7. CASE call.phase = "hush" /\ Await("hushBody") /\ toHost' = Tail(toHost) /\ UNCHANGED got
    BY <2>1, <2>3, <2>7, AwaitKeeps
  <2>8. CASE call.phase = "wake" /\ Transmit(Stop, [call EXCEPT !.phase = "sign"]) /\ UNCHANGED got
    BY <2>2, <2>3, <2>8, SignKeeps
  <2>9. CASE call.phase = "sign" /\ Await("signBody") /\ toHost' = Tail(toHost) /\ UNCHANGED got
    BY <2>1, <2>3, <2>9, AwaitKeeps
  <2> QED
    BY <1>2, <2>4, <2>5, <2>6, <2>7, <2>8, <2>9 DEF FirstOk
<1>3. CASE FirstInfo
  <2>1. toHost # <<>> /\ call.phase \in Phases /\ AnswerOwn'
    BY <1>3 DEF FirstInfo, Phases, LineInv, AnswerOwn
  <2>2. toIce = <<>>
    BY <2>1, HeadFacts DEF InCall
  <2>3. CASE Again(Stop, "hush") \/ Again(Sync, "resync") \/ Again(call.q, "command")
    BY <2>1, <2>2, <2>3, AgainKeeps
  <2>4. CASE Transmit(Stop, [call EXCEPT !.phase = "sign"])
    BY <2>1, <2>2, <2>4, SignKeeps
  <2>5. CASE call.phase = "sign" /\ Await("signBody") /\ toHost' = Tail(toHost)
    BY <2>1, <2>5, AwaitKeeps
  <2> QED
    BY <1>3, <2>3, <2>4, <2>5 DEF FirstInfo
<1>4. CASE FirstOther
  <2>1. toHost # <<>> /\ call.phase \in Phases /\ AnswerOwn'
    BY <1>4 DEF FirstOther, Phases, LineInv, AnswerOwn
  <2>2. toIce = <<>>
    BY <2>1, HeadFacts DEF InCall
  <2>3. CASE Again(Sync, "resync") \/ Again(call.q, "command")
    BY <2>1, <2>2, <2>3, AgainKeeps
  <2>4. CASE Transmit(Stop, [call EXCEPT !.phase = "sign"])
    BY <2>1, <2>2, <2>4, SignKeeps
  <2>5. CASE NextAttempt
    BY <2>1, <2>2, <2>5, NextAttemptKeeps
  <2> QED
    BY <1>4, <2>3, <2>4, <2>5 DEF FirstOther
<1>5. CASE Body
  <2>1. toHost # <<>> /\ call.phase \in Phases
    BY <1>5 DEF Body, Phases
  <2>2. toIce = <<>>
    BY <2>1, HeadFacts DEF InCall
  <2>3. UNCHANGED got => AnswerOwn'
    BY DEF LineInv, AnswerOwn
  <2>4. CASE call.phase = "body" /\ Return(Head(toHost))
    BY <2>1, <2>4, ReturnKeeps
  <2>5. CASE Again(call.q, "command") /\ UNCHANGED got
    BY <2>2, <2>3, <2>5, AgainKeeps
  <2>6. CASE call' = [call EXCEPT !.phase = "done"] /\ UNCHANGED <<toIce, got>>
    <3>1. Record(call') /\ call'.phase = "done" /\ toIce' = <<>>
      BY <2>2, <2>6 DEF LineInv, Record
    <3> QED
      BY <2>3, <2>6, <3>1 DEF LineInv, InCall, Phases
  <2>7. CASE NextAttempt /\ UNCHANGED got
    BY <2>2, <2>3, <2>7, NextAttemptKeeps
  <2> QED
    BY <1>5, <2>4, <2>5, <2>6, <2>7 DEF Body
<1> QED
  BY <1>1, <1>2, <1>3, <1>4, <1>5 DEF Host

-----------------------------------------------------------------------------
(* The emulator and the line.                                              *)

LEMMA TakesKeeps ==
  ASSUME LineInv, toIce # <<>>, toIce' = Tail(toIce), UNCHANGED <<call, got>>,
         AnswerTo(Head(toIce), toHost') \/ toHost # <<>>
  PROVE  LineInv'
<1>1. InCall /\ toIce = <<Sent>> /\ toHost = <<>>
  BY DEF LineInv
<1>2. Head(toIce) = Sent /\ toIce' = <<>>
  BY <1>1
<1>3. Sent' = Sent /\ (InCall' <=> InCall)
  BY DEF Sent, InCall
<1> QED
  BY <1>1, <1>2, <1>3 DEF LineInv, AnswerOwn

\* Whatever the emulator makes of a request, the tokens name that request.
LEMMA AnswerFacts ==
  ASSUME NEW q, NEW o, NEW info, info.of = q
  PROVE  /\ AnswerTo(q, Answer(q, o))
         /\ AnswerTo(q, <<info>> \o Tail(Answer(q, o)))
<1> DEFINE first == Token("ok", q, TRUE, <<>>)
           second == Token("body", q, o.ack, o.bytes)
<1>1. first.of = q /\ second.of = q
  BY DEF Token
<1>2. Answer(q, o) = IF HasBody(q) THEN <<first, second>> ELSE <<first>>
  <2>1. Answer(q, o) = <<first>> \o (IF HasBody(q) THEN <<second>> ELSE <<>>)
    BY Zenon DEF Answer
  <2> HIDE DEF first, second
  <2> QED
    BY <2>1, TupleFacts
<1> HIDE DEF first, second
<1>3. Tail(Answer(q, o)) = IF HasBody(q) THEN <<second>> ELSE <<>>
  BY <1>2
<1>4. <<info>> \o Tail(Answer(q, o)) = IF HasBody(q) THEN <<info, second>> ELSE <<info>>
  BY <1>3, TupleFacts
<1> QED
  BY <1>1, <1>2, <1>4 DEF AnswerTo

LEMMA IceKeeps ==
  ASSUME LineInv, Ice \/ Fault
  PROVE  LineInv'
<1> DEFINE q == Head(toIce)
<1>1. toIce # <<>> /\ toIce' = Tail(toIce) /\ UNCHANGED <<call, got>>
  BY DEF Ice, IceAnswers, IceDeaf, Fault
<1>2. toHost = <<>>
  BY <1>1 DEF LineInv
<1> HIDE DEF q
<1>3. \A k, ack, bytes : Token(k, q, ack, bytes).of = q
  BY DEF Token
<1>5. AnswerTo(q, toHost')
  <2>1. CASE IceAnswers
    <3>1. PICK o : toHost' = <<>> \o Answer(q, o)
      BY <1>2, <2>1 DEF IceAnswers, q
    <3>2. AnswerTo(q, Answer(q, o))
      BY <1>3, AnswerFacts
    <3> QED
      BY <3>1, <3>2 DEF AnswerTo
  <2>2. CASE IceDeaf
    <3>1. toHost' = <<>> \/ toHost' = Append(<<>>, Token("error", q, FALSE, <<>>))
      BY <1>2, <2>2, Zenon DEF IceDeaf, q
    <3> DEFINE t == Token("error", q, FALSE, <<>>)
    <3>2. t.of = q
      BY <1>3
    <3>3. toHost' = <<>> \/ toHost' = Append(<<>>, t)
      BY <3>1
    <3> HIDE DEF t
    <3>4. Append(<<>>, t) = <<t>>
      BY TupleFacts
    <3> QED
      BY <3>2, <3>3, <3>4 DEF AnswerTo
  <2>3. CASE Fault
    <3> DEFINE info == Token("info", q, FALSE, <<>>)
    <3>1. \/ toHost' = <<>> \o <<>>
          \/ \E k, ack : toHost' = <<>> \o <<Token(k, q, ack, <<>>)>>
          \/ \E o : toHost' = <<>> \o Answer(q, o)
          \/ \E o : toHost' = <<>> \o (<<info>> \o Tail(Answer(q, o)))
      BY <1>2, <2>3 DEF Fault, Faulty, q
    <3>2. info.of = q
      BY <1>3
    <3> HIDE DEF info
    <3>3. \A o : AnswerTo(q, Answer(q, o)) /\ AnswerTo(q, <<info>> \o Tail(Answer(q, o)))
      BY <3>2, AnswerFacts
    <3>4. \A s : AnswerTo(q, s) => AnswerTo(q, <<>> \o s)
      BY TupleFacts DEF AnswerTo
    <3>5. AnswerTo(q, <<>>) /\ \A k, ack : AnswerTo(q, <<Token(k, q, ack, <<>>)>>)
      BY <1>3 DEF AnswerTo
    <3> QED
      BY <3>1, <3>3, <3>4, <3>5
  <2> QED
    BY <2>1, <2>2, <2>3 DEF Ice
<1> QED
  BY <1>1, <1>5, TakesKeeps DEF q

-----------------------------------------------------------------------------
(* main.                                                                   *)

LEMMA InitLine == Init => LineInv
<1> SUFFICES ASSUME Init PROVE LineInv
  OBVIOUS
<1>1. LinkInit(Boxes)
  BY Zenon DEF Init
<1>2. call = Idle /\ toIce = <<>> /\ got = NoAnswer
  BY <1>1 DEF LinkInit
<1> QED
  BY <1>2 DEF LineInv, Record, Idle, InCall, Phases, AnswerOwn, NoAnswer

\* Between calls nothing is on its way to the emulator.
LEMMA IdleKeeps ==
  ASSUME LineInv, ~InCall, call' = Idle, UNCHANGED toIce, AnswerOwn'
  PROVE  LineInv'
<1>1. Record(call') /\ call'.phase = "idle"
  BY DEF Record, Idle
<1> QED
  BY <1>1 DEF LineInv, InCall, Phases

LEMMA BeginKeeps ==
  ASSUME LineInv, NEW q, Begin(q)
  PROVE  LineInv'
<1> DEFINE c == [Idle EXCEPT !.phase = "command", !.q = q, !.tries = 1]
<1>1. Transmit(q, c) /\ toIce = <<>> /\ AnswerOwn'
  BY DEF Begin, LineInv, InCall, Phases, AnswerOwn
<1>2. Record(c) /\ c.phase = "command" /\ c.q = q
  <2> DEFINE d == [Idle EXCEPT !.phase = "command"]
             e == [d EXCEPT !.q = q]
  <2>1. Record(Idle)
    BY DEF Idle, Record
  <2>2. Record(d) /\ d.phase = "command"
    BY <2>1, RecordFacts
  <2>3. c = [e EXCEPT !.tries = 1]
    OBVIOUS
  <2> HIDE DEF d
  <2>4. Record(e) /\ e.phase = "command" /\ e.q = q
    BY <2>2, RecordFacts, ZenonT(60)
  <2> HIDE DEF e
  <2> DEFINE f == [e EXCEPT !.tries = 1]
  <2>5. Record(f) /\ f.phase = e.phase /\ f.q = e.q
    BY <2>4, RecordFacts
  <2> QED
    BY <2>3, <2>4, <2>5
<1> HIDE DEF c
<1>3. c.phase \in Phases /\ SentBy(c) = q
  BY <1>2 DEF Phases, SentBy
<1> QED
  BY <1>1, <1>2, <1>3, TransmitKeeps

LEMMA LineNext == LineInv /\ [Next]_vars => LineInv'
<1> SUFFICES ASSUME LineInv, [Next]_vars PROVE LineInv'
  OBVIOUS
<1>1. ASSUME UNCHANGED linkVars
      PROVE  LineInv'
  BY <1>1 DEF linkVars, LineInv, InCall, Sent, AnswerOwn
<1>2. CASE GetOption \/ EndOfOptions \/ ConfigureMkII \/ Connect \/ NextStep \/ Check
  BY <1>1, <1>2 DEF GetOption, EndOfOptions, ConfigureMkII, Connect, NextStep, Check
<1>3. CASE StartCall
  BY <1>3, BeginKeeps DEF StartCall
<1>4. CASE StartSync
  <2>1. Attempt(1, 1) /\ toIce = <<>> /\ AnswerOwn'
    BY <1>4 DEF StartSync, startJtagLink, LineInv, InCall, Phases, AnswerOwn
  <2> QED
    BY <2>1, AttemptKeeps
<1>5. CASE Answered
  <2>1. ~InCall /\ call' = Idle /\ UNCHANGED toIce /\ AnswerOwn'
    BY <1>5 DEF Answered, InCall, Phases, NoAnswer, AnswerOwn
  <2> QED
    BY <2>1, IdleKeeps
<1>6. CASE Dies
  <2>1. ~InCall /\ call' = Idle /\ UNCHANGED toIce /\ AnswerOwn'
    BY <1>6 DEF Dies, InCall, Phases, AnswerOwn, LineInv
  <2> QED
    BY <2>1, IdleKeeps
<1>7. CASE Driver
  BY <1>7, HostKeeps DEF Driver
<1>8. CASE Box
  BY <1>8, IceKeeps DEF Box
<1>9. CASE GdbAccess \/ \E b \in Breakpoints : Insert(b) \/ Remove(b)
  BY <1>1, <1>9 DEF GdbAccess, Insert, Remove
<1>10. CASE Stays \/ UNCHANGED vars
  BY <1>1, <1>10 DEF Stays, vars
<1> QED
  BY <1>2, <1>3, <1>4, <1>5, <1>6, <1>7, <1>8, <1>9, <1>10 DEF Next, Process

-----------------------------------------------------------------------------
(* The theorem.                                                            *)

\* Requests are repeated, answers are lost, cut, damaged or preceded by an
\* info, and nothing on the line is numbered: still a command ends with the
\* answer to itself (jtagio.cc sendJtagCommand, doJtagCommand).
THEOREM AnswersSound == Spec => [](AnswerOwn /\ OnlyLast)
<1>1. LineInv => AnswerOwn /\ OnlyLast
  BY LineImplies
<1> QED
  BY <1>1, InitLine, LineNext, PTL DEF Spec

-----------------------------------------------------------------------------
(* The fields of the records of main and of the emulator.                  *)

Shape ==
  /\ DOMAIN drv = {"programmingEnabled", "assigned", "device", "is_xmega", "bp", "kept", "verified"}
  /\ DOMAIN gdb = {"accesses", "breaks", "set", "right"}

LEMMA InitShape == Init => Shape
  BY DEF Init, Shape

LEMMA ShapeNext == Shape /\ [Next]_vars => Shape'
<1> SUFFICES ASSUME Shape, [Next]_vars PROVE Shape'
  OBVIOUS
<1>1. CASE UNCHANGED <<drv, gdb>>
  BY <1>1 DEF Shape
<1>2. CASE EndOfOptions \/ ConfigureMkII
  BY <1>2 DEF EndOfOptions, ConfigureMkII, Quit, Shape
<1>3. CASE NextStep
  BY <1>3 DEF NextStep, Shape
<1>4. CASE StartCall
  BY <1>4 DEF StartCall, Flagged, Shape
<1>5. CASE Check
  BY <1>5 DEF Check, Quit, Shape
<1>6. CASE Answered
  BY <1>6 DEF Answered, Then, Proceed, Goes, Quit, Shape
<1>7. CASE GdbAccess
  BY <1>7 DEF GdbAccess, Shape
<1>8. ASSUME NEW b \in Breakpoints, Insert(b) \/ Remove(b)
      PROVE  Shape'
  BY <1>8 DEF Insert, Remove, Shape
<1> QED
  BY <1>1, <1>2, <1>3, <1>4, <1>5, <1>6, <1>7, <1>8
  DEF Next, Process, GetOption, Connect, StartSync, Dies, Driver, Box, Stays, vars, Quit

-----------------------------------------------------------------------------
(* The breakpoints.                                                        *)

Entries == {At(b.addr, b.type) : b \in Breakpoints}
CodeEntries == {e \in Entries : e.type = "CODE"}
DataEntries == {e \in Entries : e.type # "CODE"}

ListsOK(bp) ==
  /\ bp = [code |-> bp.code, data |-> bp.data]
  /\ bp.code \in Seq(CodeEntries) /\ bp.data \in Seq(DataEntries)
  /\ Len(bp.code) + Len(bp.data) <= MAX_BREAKPOINTS
  /\ Len(bp.data) <= MAX_BREAKPOINTS_DATA

LEMMA ListsFit ==
  ASSUME ListsOK(drv.bp)
  PROVE  BreakpointsFit
<1> DEFINE c == drv.bp.code
           d == drv.bp.data
           slots == updateBreakpoints(drv.bp)
           n == Len(c)
           k == Len(d)
           start == IF n > 2 THEN n ELSE 2
           Of(l) == Cardinality({i \in 1 .. 4 : slots[i] # <<>> /\ \E j \in DOMAIN l : slots[i] = <<l[j]>>})
<1>1. /\ n + k <= 4 /\ k <= 2 /\ n \in Nat /\ k \in Nat
      /\ DOMAIN c = 1 .. n /\ DOMAIN d = 1 .. k
      /\ \A j \in 1 .. n : c[j].type = "CODE"
      /\ \A j \in 1 .. k : d[j].type # "CODE"
  <2>1. c \in Seq(CodeEntries) /\ d \in Seq(DataEntries) /\ n + k <= 4 /\ k <= 2
    BY DEF ListsOK, MAX_BREAKPOINTS, MAX_BREAKPOINTS_DATA
  <2> HIDE DEF c, d
  <2>2. /\ n \in Nat /\ k \in Nat /\ DOMAIN c = 1 .. n /\ DOMAIN d = 1 .. k
        /\ \A j \in 1 .. n : c[j] \in CodeEntries
        /\ \A j \in 1 .. k : d[j] \in DataEntries
    BY <2>1
  <2> QED
    BY <2>1, <2>2 DEF CodeEntries, DataEntries
<1>2. start \in Nat /\ start >= 2 /\ start >= n /\ start + k <= 4
  <2> HIDE DEF n, k
  <2> QED
    BY <1>1
<1>3. \A i \in 1 .. 4 : slots[i] = IF i <= n THEN <<c[i]>>
                                   ELSE IF i > start /\ i - start <= k THEN <<d[i - start]>> ELSE <<>>
  BY DEF updateBreakpoints
<1> HIDE DEF c, d, slots, n, k, start
<1>4. \A j \in 1 .. n : slots[j] = <<c[j]>> /\ j \in 1 .. 4
  BY <1>1, <1>2, <1>3
<1>5. \A j \in 1 .. k : slots[start + j] = <<d[j]>> /\ start + j \in 1 .. 4
  <2> TAKE j \in 1 .. k
  <2>1. start + j \in 1 .. 4 /\ ~(start + j <= n) /\ start + j > start /\ (start + j) - start = j
    BY <1>1, <1>2
  <2> QED
    BY <2>1, <1>1, <1>3
<1>6. \A e, f : <<e>> = <<f>> => e = f
  <2> TAKE e, f
  <2> HAVE <<e>> = <<f>>
  <2>1. <<e>>[1] = e /\ <<f>>[1] = f
    OBVIOUS
  <2> QED
    BY <2>1
<1>7. {i \in 1 .. 4 : slots[i] # <<>> /\ \E j \in DOMAIN c : slots[i] = <<c[j]>>} = 1 .. n
  <2>1. ASSUME NEW i \in 1 .. 4, slots[i] # <<>>, NEW j \in 1 .. n, slots[i] = <<c[j]>>
        PROVE  i \in 1 .. n
    <3>1. CASE ~(i <= n)
      <4>1. i > start /\ i - start <= k /\ slots[i] = <<d[i - start]>>
        BY <1>3, <2>1, <3>1
      <4>2. i - start \in 1 .. k
        BY <4>1, <1>1, <1>2
      <4>3. d[i - start] = c[j]
        BY <4>1, <2>1, <1>6
      <4> QED
        BY <4>2, <4>3, <1>1, <2>1
    <3> QED
      BY <3>1, <1>1
  <2>2. \A i \in 1 .. n : slots[i] # <<>>
    BY <1>4
  <2> QED
    BY <2>1, <2>2, <1>1, <1>4
<1>8. {i \in 1 .. 4 : slots[i] # <<>> /\ \E j \in DOMAIN d : slots[i] = <<d[j]>>} = start + 1 .. start + k
  <2>1. ASSUME NEW i \in 1 .. 4, slots[i] # <<>>, NEW j \in 1 .. k, slots[i] = <<d[j]>>
        PROVE  i \in start + 1 .. start + k
    <3>1. CASE i <= n
      <4>1. c[i] = d[j]
        BY <1>3, <2>1, <3>1, <1>6
      <4> QED
        BY <4>1, <1>1, <2>1, <3>1
    <3>2. CASE ~(i <= n)
      <4>1. i > start /\ i - start <= k
        BY <1>3, <2>1, <3>2
      <4> QED
        BY <4>1, <1>1, <1>2
    <3> QED
      BY <3>1, <3>2
  <2>2. ASSUME NEW i \in start + 1 .. start + k
        PROVE  i \in 1 .. 4 /\ slots[i] # <<>> /\ \E j \in DOMAIN d : slots[i] = <<d[j]>>
    <3>1. i - start \in 1 .. k /\ start + (i - start) = i
      BY <1>1, <1>2, <2>2
    <3>2. slots[i] = <<d[i - start]>> /\ i \in 1 .. 4
      BY <3>1, <1>5
    <3> QED
      BY <3>1, <3>2, <1>1
  <2> QED
    BY <2>1, <2>2, <1>1
<1>9. Of(c) = n /\ Of(d) = k
  <2>1. Cardinality(1 .. n) = n
    BY <1>1, FS_Interval
  <2>2. Cardinality(start + 1 .. start + k) = k
    <3>1. Cardinality(start + 1 .. start + k) = IF start + 1 > start + k THEN 0 ELSE (start + k) - (start + 1) + 1
      BY <1>1, <1>2, FS_Interval
    <3> QED
      BY <3>1, <1>1, <1>2
  <2> QED
    BY <2>1, <2>2, <1>7, <1>8
<1>10. \A i \in 1 .. 2 : slots[i] # <<>> => slots[i][1].type = "CODE"
  BY <1>1, <1>2, <1>3
<1> HIDE DEF Of
<1>11. Of(c) + Of(d) = n + k
  BY <1>9
<1>12. \A j \in DOMAIN c : \E i \in 1 .. 4 : slots[i] = <<c[j]>>
  BY <1>1, <1>4
<1>13. \A j \in DOMAIN d : \E i \in 1 .. 4 : slots[i] = <<d[j]>>
  BY <1>1, <1>5
<1> QED
  BY <1>10, <1>11, <1>12, <1>13, Zenon DEF BreakpointsFit, Of, c, d, slots, n, k

\* How often an entry is in a list.
Count(l, e) == Cardinality({i \in DOMAIN l : l[i] = e})

LEMMA CountFacts ==
  ASSUME NEW S, NEW l \in Seq(S), NEW e
  PROVE  IsFiniteSet({i \in DOMAIN l : l[i] = e})
<1>1. DOMAIN l = 1 .. Len(l) /\ Len(l) \in Nat
  OBVIOUS
<1>2. IsFiniteSet(1 .. Len(l))
  BY <1>1, FS_Interval
<1> QED
  BY <1>1, <1>2, FS_Subset

LEMMA AppendCount ==
  ASSUME NEW S, NEW l \in Seq(S), NEW x \in S, NEW e
  PROVE  Count(Append(l, x), e) = IF x = e THEN Count(l, e) + 1 ELSE Count(l, e)
<1> DEFINE A == {i \in DOMAIN l : l[i] = e}
           m == Append(l, x)
           B == {i \in DOMAIN m : m[i] = e}
           n == Len(l) + 1
<1>1. IsFiniteSet(A)
  BY CountFacts
<1>2. /\ Len(l) \in Nat /\ DOMAIN l = 1 .. Len(l) /\ DOMAIN m = 1 .. n
      /\ m[n] = x /\ \A i \in 1 .. Len(l) : m[i] = l[i]
  OBVIOUS
<1>3. n \notin A
  BY <1>2
<1> HIDE DEF m
<1>4. B = IF x = e THEN A \cup {n} ELSE A
  <2>1. \A i \in 1 .. n : i = n \/ i \in 1 .. Len(l)
    BY <1>2
  <2>2. n \in 1 .. n /\ \A i \in 1 .. Len(l) : i \in 1 .. n
    BY <1>2
  <2> HIDE DEF n
  <2> QED
    BY <1>2, <2>1, <2>2
<1> HIDE DEF A, B, n
<1>5. Cardinality(A \cup {n}) = Cardinality(A) + 1
  BY <1>1, <1>3, FS_AddElement
<1>6. Cardinality(B) = IF x = e THEN Cardinality(A) + 1 ELSE Cardinality(A)
  BY <1>4, <1>5
<1> QED
  BY <1>6, Zenon DEF Count, A, B, m

\* A list without the entry number f.
Without(l, f) == [i \in 1 .. Len(l) - 1 |-> IF i < f THEN l[i] ELSE l[i + 1]]

LEMMA WithoutFacts ==
  ASSUME NEW S, NEW l \in Seq(S), NEW f \in 1 .. Len(l)
  PROVE  Without(l, f) \in Seq(S) /\ Len(Without(l, f)) = Len(l) - 1
<1>1. Len(l) \in Nat /\ Len(l) - 1 \in Nat
  OBVIOUS
<1>2. \A i \in 1 .. Len(l) - 1 : (IF i < f THEN l[i] ELSE l[i + 1]) \in S
  <2> TAKE i \in 1 .. Len(l) - 1
  <2>1. i \in 1 .. Len(l) /\ i + 1 \in 1 .. Len(l)
    BY <1>1
  <2> QED
    BY <2>1
<1>3. Without(l, f) \in [1 .. Len(l) - 1 -> S]
  BY <1>2 DEF Without
<1> QED
  BY <1>1, <1>3

LEMMA WithoutCount ==
  ASSUME NEW S, NEW l \in Seq(S), NEW f \in 1 .. Len(l), NEW e
  PROVE  Count(Without(l, f), e) = IF l[f] = e THEN Count(l, e) - 1 ELSE Count(l, e)
<1> DEFINE A == {i \in DOMAIN l : l[i] = e}
           m == Without(l, f)
           B == {i \in DOMAIN m : m[i] = e}
           n == Len(l)
           g == [i \in B |-> IF i < f THEN i ELSE i + 1]
<1>1. IsFiniteSet(A)
  BY CountFacts
<1>2. /\ n \in Nat /\ DOMAIN l = 1 .. n /\ DOMAIN m = 1 .. n - 1
      /\ \A i \in 1 .. n - 1 : m[i] = IF i < f THEN l[i] ELSE l[i + 1]
  BY DEF Without
<1> HIDE DEF m, n
<1>3. f \in 1 .. n
  BY DEF n
<1>4. ExistsBijection(B, A \ {f})
  <2>1. g \in [B -> A \ {f}]
    <3> SUFFICES ASSUME NEW i \in B PROVE (IF i < f THEN i ELSE i + 1) \in A \ {f}
      OBVIOUS
    <3>1. i \in 1 .. n - 1 /\ m[i] = e
      BY <1>2
    <3>2. CASE i < f
      <4>1. i \in 1 .. n /\ l[i] = e /\ i # f
        BY <3>1, <3>2, <1>2, <1>3
      <4> QED
        BY <4>1, <3>2, <1>2
    <3>3. CASE ~(i < f)
      <4>1. i + 1 \in 1 .. n /\ l[i + 1] = e /\ i + 1 # f
        BY <3>1, <3>3, <1>2, <1>3
      <4> QED
        BY <4>1, <3>3, <1>2
    <3> QED
      BY <3>2, <3>3
  <2>2. \A i, j \in B : g[i] = g[j] => i = j
    <3> TAKE i, j \in B
    <3>1. i \in Int /\ j \in Int /\ f \in Int
      BY <1>2, <1>3
    <3>2. g[i] = (IF i < f THEN i ELSE i + 1) /\ g[j] = (IF j < f THEN j ELSE j + 1)
      OBVIOUS
    <3> HIDE DEF g
    <3> QED
      BY <3>1, <3>2
  <2>3. \A a \in A \ {f} : \E i \in B : g[i] = a
    <3> TAKE a \in A \ {f}
    <3>1. a \in 1 .. n /\ a # f /\ l[a] = e
      BY <1>2
    <3>2. CASE a < f
      <4>1. a \in 1 .. n - 1 /\ m[a] = e
        BY <3>1, <3>2, <1>2, <1>3
      <4>2. a \in B /\ g[a] = a
        BY <4>1, <3>2, <1>2
      <4> QED
        BY <4>2
    <3>3. CASE ~(a < f)
      <4>1. a - 1 \in 1 .. n - 1 /\ ~(a - 1 < f) /\ (a - 1) + 1 = a
        BY <3>1, <3>3, <1>2, <1>3
      <4>2. m[a - 1] = e
        BY <4>1, <3>1, <1>2
      <4>3. a - 1 \in B /\ g[a - 1] = a
        BY <4>1, <4>2, <1>2
      <4> QED
        BY <4>3
    <3> QED
      BY <3>2, <3>3
  <2> HIDE DEF g
  <2>4. g \in Bijection(B, A \ {f})
    BY <2>1, <2>2, <2>3 DEF Bijection, Injection, Surjection, IsInjective
  <2> QED
    BY <2>4 DEF ExistsBijection
<1> HIDE DEF A, B, g
<1>5. IsFiniteSet(A \ {f}) /\ Cardinality(A \ {f}) = IF f \in A THEN Cardinality(A) - 1 ELSE Cardinality(A)
  BY <1>1, FS_RemoveElement
<1>6. ExistsBijection(A \ {f}, B)
  BY <1>4, Fun_ExistsBijSymmetric
<1>7. Cardinality(B) = Cardinality(A \ {f})
  BY <1>5, <1>6, FS_Bijection
<1>8. f \in A <=> l[f] = e
  BY <1>2, <1>3 DEF A
<1>9. Cardinality(B) = IF l[f] = e THEN Cardinality(A) - 1 ELSE Cardinality(A)
  BY <1>5, <1>7, <1>8
<1> QED
  BY <1>9, Zenon DEF Count, A, B, m

-----------------------------------------------------------------------------
(* What GDB sets and removes.                                              *)

\* The breakpoints in a set that have the same entry.
Same(set, b) == {c \in set : c.type = b.type /\ At(c.addr, c.type) = At(b.addr, b.type)}
Kept(bp, set) ==
  \A b \in Breakpoints : Count(bp[List(b.type)], At(b.addr, b.type)) = Cardinality(Same(set, b))

LEMMA KeptIs == BreakpointsKept <=> Kept(drv.bp, gdb.set)
  BY Zenon DEF BreakpointsKept, Kept, Count, Same

\* The list an entry belongs to.
Into(type) == IF type = "CODE" THEN CodeEntries ELSE DataEntries

LEMMA ListFacts ==
  ASSUME NEW bp, ListsOK(bp), NEW b \in Breakpoints
  PROVE  /\ bp[List(b.type)] \in Seq(Into(b.type))
         /\ At(b.addr, b.type) \in Into(b.type)
         /\ List(b.type) \in {"code", "data"}
         /\ DOMAIN bp = {"code", "data"}
<1>1. DOMAIN bp = {"code", "data"} /\ bp["code"] = bp.code /\ bp["data"] = bp.data
  BY DEF ListsOK
<1>2. At(b.addr, b.type) \in Entries /\ At(b.addr, b.type).type = b.type
  BY DEF Entries, At
<1> QED
  BY <1>1, <1>2 DEF ListsOK, Into, List, CodeEntries, DataEntries

\* One list is replaced by another one of the same entries.
WithList(bp, type, l) == [bp EXCEPT ![List(type)] = l]
LEMMA Replaced ==
  ASSUME NEW bp, ListsOK(bp), NEW type, NEW l \in Seq(Into(type)),
         \/ Len(l) <= Len(bp[List(type)])
         \/ Len(l) = Len(bp[List(type)]) + 1 /\ CanAdd(bp, type)
  PROVE  /\ ListsOK(WithList(bp, type, l))
         /\ \A t : WithList(bp, type, l)[List(t)] = IF List(t) = List(type) THEN l ELSE bp[List(t)]
<1>1. /\ bp = [code |-> bp.code, data |-> bp.data]
      /\ bp.code \in Seq(CodeEntries) /\ bp.data \in Seq(DataEntries)
      /\ Len(bp.code) + Len(bp.data) <= 4 /\ Len(bp.data) <= 2
  BY DEF ListsOK, MAX_BREAKPOINTS, MAX_BREAKPOINTS_DATA
<1>2. Len(bp.code) \in Nat /\ Len(bp.data) \in Nat /\ Len(l) \in Nat
  BY <1>1
<1> DEFINE c == bp.code
           d == bp.data
<1>0. bp = [code |-> c, data |-> d] /\ bp["code"] = c /\ bp["data"] = d
  BY <1>1
<1> HIDE DEF c, d
<1>3. CASE type = "CODE"
  <2>1. List(type) = "code" /\ Into(type) = CodeEntries
    BY <1>3 DEF List, Into
  <2>2. [bp EXCEPT !["code"] = l] = [code |-> l, data |-> bp.data]
    BY <1>0
  <2>3. Len(l) + Len(bp.data) <= 4
    BY <1>1, <1>2, <1>3, <2>1 DEF CanAdd, MAX_BREAKPOINTS
  <2> QED
    BY <1>1, <2>1, <2>2, <2>3 DEF WithList, ListsOK, List, MAX_BREAKPOINTS, MAX_BREAKPOINTS_DATA
<1>4. CASE type # "CODE"
  <2>1. List(type) = "data" /\ Into(type) = DataEntries
    BY <1>4 DEF List, Into
  <2>2. [bp EXCEPT !["data"] = l] = [code |-> bp.code, data |-> l]
    BY <1>0
  <2>3. Len(bp.code) + Len(l) <= 4 /\ Len(l) <= 2
    <3>1. CASE Len(l) <= Len(bp.data)
      BY <1>1, <1>2, <3>1
    <3>2. CASE Len(l) = Len(bp.data) + 1 /\ CanAdd(bp, type)
      <4>1. Len(bp.code) + Len(bp.data) # 4 /\ Len(bp.data) # 2
        BY <1>4, <3>2 DEF CanAdd, MAX_BREAKPOINTS, MAX_BREAKPOINTS_DATA
      <4>2. Len(bp.code) + Len(bp.data) <= 4 /\ Len(bp.data) <= 2 /\ Len(l) = Len(bp.data) + 1
        BY <1>1, <3>2
      <4> DEFINE n == Len(bp.code)
                 k == Len(bp.data)
                 h == Len(l)
      <4>3. n \in Nat /\ k \in Nat /\ n + k # 4 /\ k # 2 /\ n + k <= 4 /\ k <= 2 /\ h = k + 1
        BY <1>2, <4>1, <4>2
      <4> HIDE DEF n, k, h
      <4>4. n + h <= 4 /\ h <= 2
        BY <4>3
      <4> QED
        BY <4>4 DEF n, h
    <3> QED
      BY <2>1, <3>1, <3>2
  <2> QED
    BY <1>1, <2>1, <2>2, <2>3 DEF WithList, ListsOK, List, MAX_BREAKPOINTS, MAX_BREAKPOINTS_DATA
<1> QED
  BY <1>3, <1>4

\* Two breakpoints that do not share their entry are told apart by it, in
\* whatever list.
LEMMA AddKeeps ==
  ASSUME NEW bp, ListsOK(bp), NEW set, IsFiniteSet(set), Kept(bp, set),
         NEW b \in Breakpoints, b \notin set, CanAdd(bp, b.type)
  PROVE  LET new == addBreakpoint(bp, b.addr, b.type)
         IN  ListsOK(new) /\ Kept(new, set \cup {b})
<1> DEFINE new == addBreakpoint(bp, b.addr, b.type)
           l == bp[List(b.type)]
           e == At(b.addr, b.type)
<1>1. l \in Seq(Into(b.type)) /\ e \in Into(b.type)
  BY ListFacts
<1>2. new = WithList(bp, b.type, Append(l, e))
  BY DEF addBreakpoint, WithList
<1>3. Append(l, e) \in Seq(Into(b.type)) /\ Len(Append(l, e)) = Len(l) + 1
  BY <1>1
<1>4. ListsOK(new) /\ \A t : new[List(t)] = IF List(t) = List(b.type) THEN Append(l, e) ELSE bp[List(t)]
  <2> DEFINE m == Append(l, e)
             type == b.type
  <2>1. m \in Seq(Into(type)) /\ Len(m) = Len(bp[List(type)]) + 1 /\ new = WithList(bp, type, m) /\ CanAdd(bp, type)
    BY <1>2, <1>3
  <2> HIDE DEF m, new, type
  <2>2. /\ ListsOK(WithList(bp, type, m))
        /\ \A t : WithList(bp, type, m)[List(t)] = IF List(t) = List(type) THEN m ELSE bp[List(t)]
    BY <2>1, Replaced
  <2> QED
    BY <2>1, <2>2 DEF m, type
<1> HIDE DEF new
<1>5. ASSUME NEW c \in Breakpoints
      PROVE  Count(new[List(c.type)], At(c.addr, c.type)) = Cardinality(Same(set \cup {b}, c))
  <2> DEFINE s == At(c.addr, c.type)
  <2>1. Count(bp[List(c.type)], s) = Cardinality(Same(set, c))
    BY DEF Kept
  <2>2. IsFiniteSet(Same(set, c))
    BY FS_Subset DEF Same
  <2>3. Count(Append(l, e), s) = IF e = s THEN Count(l, s) + 1 ELSE Count(l, s)
    BY <1>1, AppendCount
  <2>4. e = s => b.type = c.type
    BY DEF At
  <2>5. CASE e = s
    <3>1. Same(set \cup {b}, c) = Same(set, c) \cup {b} /\ b \notin Same(set, c)
      BY <2>4, <2>5 DEF Same
    <3>2. Cardinality(Same(set \cup {b}, c)) = Cardinality(Same(set, c)) + 1
      BY <2>2, <3>1, FS_AddElement
    <3> QED
      BY <1>4, <2>1, <2>3, <2>4, <2>5, <3>2
  <2>6. CASE e # s
    <3>1. Same(set \cup {b}, c) = Same(set, c)
      BY <2>6 DEF Same
    <3>2. List(c.type) = List(b.type) => bp[List(c.type)] = l
      OBVIOUS
    <3> QED
      BY <1>4, <2>1, <2>3, <2>6, <3>1, <3>2
  <2> QED
    BY <2>5, <2>6
<1> QED
  BY <1>4, <1>5 DEF Kept, new

Less == {p \in Nat \X Nat : p[1] < p[2]}

\* A set of numbers that is not empty has a least one.
LEMMA Least ==
  ASSUME NEW T, T \subseteq Nat, T # {}
  PROVE  \E x \in T : \A y \in T : x <= y
<1>1. IsWellFoundedOn(Less, Nat)
  BY NatLessThanWellFounded DEF OpToRel, Less
<1>2. PICK x \in T : \A y \in T : ~(<<y, x>> \in Less)
  BY <1>1, WFMin
<1>3. ASSUME NEW y \in T PROVE x <= y
  <2>1. ~(<<y, x>> \in Less) /\ x \in Nat /\ y \in Nat
    BY <1>2
  <2> QED
    BY <2>1 DEF Less
<1> QED
  BY <1>3

\* The first entry like it is there, and it is the one that goes.
LEMMA FirstLike ==
  ASSUME NEW S, NEW l \in Seq(S), NEW e, \E i \in DOMAIN l : l[i] = e
  PROVE  LET f == CHOOSE i \in DOMAIN l : l[i] = e /\ \A j \in 1 .. i - 1 : l[j] # e
         IN  f \in 1 .. Len(l) /\ l[f] = e
<1> DEFINE T == {i \in DOMAIN l : l[i] = e}
<1>1. DOMAIN l = 1 .. Len(l) /\ Len(l) \in Nat
  OBVIOUS
<1>2. T \subseteq Nat /\ T # {}
  BY <1>1
<1>3. PICK i \in T : \A y \in T : i <= y
  BY <1>2, Least
<1>4. \A j \in 1 .. i - 1 : l[j] # e
  <2> SUFFICES ASSUME NEW j \in 1 .. i - 1, l[j] = e PROVE FALSE
    OBVIOUS
  <2>1. i \in 1 .. Len(l)
    BY <1>1, <1>3
  <2>2. j \in 1 .. Len(l) /\ ~(i <= j)
    BY <1>1, <2>1
  <2> QED
    BY <1>1, <1>3, <2>2
<1>5. \E k \in DOMAIN l : l[k] = e /\ \A j \in 1 .. k - 1 : l[j] # e
  BY <1>3, <1>4
<1> QED
  BY <1>1, <1>5

LEMMA DeleteKeeps ==
  ASSUME NEW bp, ListsOK(bp), NEW set, IsFiniteSet(set), Kept(bp, set),
         NEW b \in Breakpoints, b \in set, Found(bp, b.addr, b.type)
  PROVE  LET new == deleteBreakpoint(bp, b.addr, b.type)
         IN  ListsOK(new) /\ Kept(new, set \ {b})
<1> DEFINE new == deleteBreakpoint(bp, b.addr, b.type)
           l == bp[List(b.type)]
           e == At(b.addr, b.type)
           f == CHOOSE i \in DOMAIN l : l[i] = e /\ \A j \in 1 .. i - 1 : l[j] # e
<1>1. l \in Seq(Into(b.type)) /\ e \in Into(b.type)
  BY ListFacts
<1>2. f \in 1 .. Len(l) /\ l[f] = e
  <2>1. \E i \in DOMAIN l : l[i] = e
    BY DEF Found
  <2> HIDE DEF l, e
  <2> QED
    BY <1>1, <2>1, FirstLike, ZenonT(40)
<1>3. new = WithList(bp, b.type, Without(l, f))
  BY DEF deleteBreakpoint, Without, WithList
<1> HIDE DEF f
<1>4. Without(l, f) \in Seq(Into(b.type)) /\ Len(Without(l, f)) = Len(l) - 1
  BY <1>1, <1>2, WithoutFacts
<1>5. Len(Without(l, f)) <= Len(l)
  BY <1>1, <1>4
<1>6. ListsOK(new) /\ \A t : new[List(t)] = IF List(t) = List(b.type) THEN Without(l, f) ELSE bp[List(t)]
  <2> DEFINE m == Without(l, f)
             type == b.type
  <2>1. m \in Seq(Into(type)) /\ Len(m) <= Len(bp[List(type)]) /\ new = WithList(bp, type, m)
    BY <1>3, <1>4, <1>5
  <2> HIDE DEF m, new, type
  <2>2. /\ ListsOK(WithList(bp, type, m))
        /\ \A t : WithList(bp, type, m)[List(t)] = IF List(t) = List(type) THEN m ELSE bp[List(t)]
    BY <2>1, Replaced
  <2> QED
    BY <2>1, <2>2 DEF m, type
<1> HIDE DEF new
<1>7. ASSUME NEW c \in Breakpoints
      PROVE  Count(new[List(c.type)], At(c.addr, c.type)) = Cardinality(Same(set \ {b}, c))
  <2> DEFINE s == At(c.addr, c.type)
  <2>1. Count(bp[List(c.type)], s) = Cardinality(Same(set, c))
    BY DEF Kept
  <2>2. IsFiniteSet(Same(set, c))
    BY FS_Subset DEF Same
  <2>3. Count(Without(l, f), s) = IF e = s THEN Count(l, s) - 1 ELSE Count(l, s)
    BY <1>1, <1>2, WithoutCount
  <2>4. e = s => b.type = c.type
    BY DEF At
  <2>5. CASE e = s
    <3>1. Same(set \ {b}, c) = Same(set, c) \ {b} /\ b \in Same(set, c)
      BY <2>4, <2>5 DEF Same
    <3>2. Cardinality(Same(set \ {b}, c)) = Cardinality(Same(set, c)) - 1
      BY <2>2, <3>1, FS_RemoveElement
    <3> QED
      BY <1>6, <2>1, <2>3, <2>4, <2>5, <3>2
  <2>6. CASE e # s
    <3>1. Same(set \ {b}, c) = Same(set, c)
      BY <2>6 DEF Same
    <3>2. List(c.type) = List(b.type) => bp[List(c.type)] = l
      OBVIOUS
    <3> QED
      BY <1>6, <2>1, <2>3, <2>6, <3>1, <3>2
  <2> QED
    BY <2>5, <2>6
<1> QED
  BY <1>6, <1>7 DEF Kept, new

-----------------------------------------------------------------------------
(* The breakpoints of a session.                                           *)

\* GDB sets breakpoints in a session only.
BreakInv ==
  /\ Shape
  /\ ListsOK(drv.bp)
  /\ IsFiniteSet(gdb.set)
  /\ main \notin {"session", "died"} => gdb.set = {}
  /\ Kept(drv.bp, gdb.set)

NoBreakpoints == [code |-> <<>>, data |-> <<>>]

LEMMA NoneKept == ListsOK(NoBreakpoints) /\ Kept(NoBreakpoints, {}) /\ IsFiniteSet({})
<1> DEFINE bp == NoBreakpoints
<1>1. bp.code = <<>> /\ bp.data = <<>> /\ bp = [code |-> <<>>, data |-> <<>>]
  BY DEF NoBreakpoints
<1>2. ListsOK(bp)
  BY <1>1 DEF ListsOK, MAX_BREAKPOINTS, MAX_BREAKPOINTS_DATA
<1>3. \A b \in Breakpoints : bp[List(b.type)] = <<>>
  BY <1>1 DEF List
<1>4. \A e : Count(<<>>, e) = 0
  <2> TAKE e
  <2>1. {i \in DOMAIN <<>> : <<>>[i] = e} = {}
    OBVIOUS
  <2> QED
    BY <2>1, FS_EmptySet DEF Count
<1>5. \A b : Cardinality(Same({}, b)) = 0
  BY FS_EmptySet DEF Same
<1> HIDE DEF bp
<1> QED
  BY <1>2, <1>3, <1>4, <1>5, FS_EmptySet DEF Kept, bp

LEMMA InitBreak == Init => BreakInv
<1> SUFFICES ASSUME Init PROVE BreakInv
  OBVIOUS
<1>1. Shape
  BY InitShape
<1>2. drv.bp = NoBreakpoints /\ gdb.set = {}
  <2>1. PICK b \in BOOLEAN :
          drv = [programmingEnabled |-> b, assigned |-> FALSE, device |-> "", is_xmega |-> FALSE,
                 bp |-> [code |-> <<>>, data |-> <<>>], kept |-> Null, verified |-> TRUE]
    BY Zenon DEF Init
  <2>2. gdb = [accesses |-> 0, breaks |-> 0, set |-> {}, right |-> TRUE]
    BY Zenon DEF Init
  <2> QED
    BY <2>1, <2>2 DEF NoBreakpoints
<1> QED
  BY <1>1, <1>2, NoneKept DEF BreakInv

LEMMA BreakNext == BreakInv /\ [Next]_vars => BreakInv'
<1> SUFFICES ASSUME BreakInv, [Next]_vars PROVE BreakInv'
  OBVIOUS
<1>0. Shape /\ Shape'
  BY ShapeNext DEF BreakInv
<1>1. ASSUME drv'.bp = drv.bp, gdb'.set = gdb.set, main \notin {"session", "died"} \/ main' \in {"session", "died"}
      PROVE  BreakInv'
  <2>1. Kept(drv'.bp, gdb'.set) /\ ListsOK(drv'.bp) /\ IsFiniteSet(gdb'.set)
    BY <1>1 DEF BreakInv
  <2>2. main' \notin {"session", "died"} => gdb'.set = {}
    BY <1>1 DEF BreakInv
  <2> QED
    BY <1>0, <2>1, <2>2 DEF BreakInv, Kept
<1>2. CASE EndOfOptions \/ ConfigureMkII
  <2>1. drv'.bp = drv.bp
    BY <1>0, <1>2 DEF EndOfOptions, ConfigureMkII, Quit, Shape
  <2>2. gdb' = gdb /\ main \notin {"session", "died"}
    BY <1>2 DEF EndOfOptions, ConfigureMkII, Quit
  <2> QED
    BY <1>1, <2>1, <2>2
<1>3. CASE NextStep
  <2>1. main \in StepSet /\ gdb' = gdb
    BY <1>3 DEF NextStep, StepSet
  <2>2. main \notin {"session", "died"}
    BY <2>1 DEF StepSet, Steps
  <2>3. CASE main = "init"
    <3>1. drv'.bp = NoBreakpoints
      BY <1>0, <1>3, <2>3 DEF NextStep, Shape, NoBreakpoints
    <3>2. gdb.set = {}
      BY <2>2 DEF BreakInv
    <3> QED
      BY <1>0, <2>1, <3>1, <3>2, NoneKept DEF BreakInv
  <2>4. CASE main # "init"
    BY <1>1, <1>3, <2>1, <2>2, <2>4 DEF NextStep
  <2> QED
    BY <2>3, <2>4
<1>4. CASE StartCall
  <2>1. drv'.bp = drv.bp
    BY <1>0, <1>4 DEF StartCall, Flagged, Shape
  <2> QED
    BY <1>1, <1>4, <2>1 DEF StartCall
<1>5. CASE Check
  BY <1>1, <1>5 DEF Check, Quit
<1>6. CASE Answered
  <2>1. drv'.bp = drv.bp /\ gdb'.set = gdb.set
    BY <1>0, <1>6 DEF Answered, Then, Proceed, Goes, Quit, Shape
  <2>2. main' = main \/ main' = "died"
    BY <1>6 DEF Answered, Then, Proceed, Goes, Quit
  <2> QED
    BY <1>1, <2>1, <2>2
<1>7. CASE GdbAccess
  <2>1. gdb'.set = gdb.set
    BY <1>0, <1>7 DEF GdbAccess, Shape
  <2> QED
    BY <1>1, <1>7, <2>1 DEF GdbAccess
<1>8. ASSUME NEW b \in Breakpoints, Insert(b)
      PROVE  BreakInv'
  <2>1. main' = "session" /\ b \notin gdb.set /\ CanAdd(drv.bp, b.type)
    BY <1>8 DEF Insert, Ready
  <2>2. drv'.bp = addBreakpoint(drv.bp, b.addr, b.type) /\ gdb'.set = gdb.set \cup {b}
    BY <1>0, <1>8 DEF Insert, Shape
  <2>3. ListsOK(drv'.bp) /\ Kept(drv'.bp, gdb'.set)
    BY <2>1, <2>2, AddKeeps DEF BreakInv
  <2>4. IsFiniteSet(gdb'.set)
    BY <2>2, FS_AddElement DEF BreakInv
  <2> QED
    BY <1>0, <2>1, <2>3, <2>4 DEF BreakInv
<1>9. ASSUME NEW b \in Breakpoints, Remove(b)
      PROVE  BreakInv'
  <2>1. main' = "session" /\ b \in gdb.set /\ Found(drv.bp, b.addr, b.type)
    BY <1>9 DEF Remove, Ready
  <2>2. drv'.bp = deleteBreakpoint(drv.bp, b.addr, b.type) /\ gdb'.set = gdb.set \ {b}
    BY <1>0, <1>9 DEF Remove, Shape
  <2>3. ListsOK(drv'.bp) /\ Kept(drv'.bp, gdb'.set)
    BY <2>1, <2>2, DeleteKeeps DEF BreakInv
  <2>4. IsFiniteSet(gdb'.set)
    BY <2>2, FS_RemoveElement DEF BreakInv
  <2> QED
    BY <1>0, <2>1, <2>3, <2>4 DEF BreakInv
<1>10. CASE GetOption \/ Connect \/ StartSync \/ Dies \/ Driver \/ Box \/ Stays \/ UNCHANGED vars
  BY <1>1, <1>10 DEF GetOption, Connect, StartSync, Dies, Driver, Box, Stays, vars, Quit
<1> QED
  BY <1>2, <1>3, <1>4, <1>5, <1>6, <1>7, <1>8, <1>9, <1>10 DEF Next, Process

\* addBreakpoint takes no more than updateBreakpoints can place, each entry in
\* a comparator of its own, and what GDB has set, removed and set again is in
\* the lists, once for each of its addresses (jtagbp.cc:39 to 290).
THEOREM BreakpointsSound == Spec => []BreakpointsPlaced
<1>1. BreakInv => BreakpointsPlaced
  BY ListsFit, KeptIs DEF BreakInv, BreakpointsPlaced
<1> QED
  BY <1>1, InitBreak, BreakNext, PTL DEF Spec

-----------------------------------------------------------------------------
(* Sequences of calls.                                                     *)

IsSeq(s) == s \in Seq({s[i] : i \in DOMAIN s})

LEMMA SeqFacts ==
  ASSUME NEW s, IsSeq(s)
  PROVE  /\ Len(s) \in Nat /\ DOMAIN s = 1 .. Len(s)
         /\ s # <<>> => Len(s) >= 1 /\ Head(s) = s[1]
         /\ s = <<>> => Len(s) = 0
<1> DEFINE S == {s[i] : i \in DOMAIN s}
<1>1. s \in Seq(S)
  BY DEF IsSeq
<1> HIDE DEF S
<1> QED
  BY <1>1

LEMMA MakeSeq ==
  ASSUME NEW n \in Nat, NEW s, DOMAIN s = 1 .. n, s = [i \in 1 .. n |-> s[i]]
  PROVE  IsSeq(s) /\ Len(s) = n
<1> DEFINE S == {s[i] : i \in DOMAIN s}
<1>1. \A i \in 1 .. n : s[i] \in S
  OBVIOUS
<1> HIDE DEF S
<1>2. s \in [1 .. n -> S]
  BY <1>1
<1>3. s \in Seq(S) /\ Len(s) = n
  BY <1>2
<1> QED
  BY <1>3 DEF IsSeq, S

LEMMA SeqIsSeq ==
  ASSUME NEW S, NEW s \in Seq(S)
  PROVE  IsSeq(s)
<1>1. Len(s) \in Nat /\ DOMAIN s = 1 .. Len(s) /\ s \in [1 .. Len(s) -> S]
  BY LenProperties
<1>2. s = [i \in 1 .. Len(s) |-> s[i]]
  BY <1>1
<1> QED
  BY <1>1, <1>2, MakeSeq

LEMMA ConcatFacts ==
  ASSUME NEW s, NEW t, IsSeq(s), IsSeq(t)
  PROVE  /\ IsSeq(s \o t)
         /\ Len(s \o t) = Len(s) + Len(t)
         /\ \A i \in 1 .. Len(s) : (s \o t)[i] = s[i]
         /\ \A i \in 1 .. Len(t) : (s \o t)[Len(s) + i] = t[i]
         /\ \A i \in 1 .. Len(s) + Len(t) :
              i \in 1 .. Len(s) \/ \E j \in 1 .. Len(t) : i = Len(s) + j
<1> DEFINE S == {s[i] : i \in DOMAIN s} \cup {t[i] : i \in DOMAIN t}
           u == s \o t
<1>1. s \in Seq(S) /\ t \in Seq(S)
  <2>1. s \in Seq({s[i] : i \in DOMAIN s}) /\ t \in Seq({t[i] : i \in DOMAIN t})
    BY DEF IsSeq
  <2>2. {s[i] : i \in DOMAIN s} \subseteq S /\ {t[i] : i \in DOMAIN t} \subseteq S
    OBVIOUS
  <2> HIDE DEF S
  <2> QED
    BY <2>1, <2>2, SeqMonotonic
<1> HIDE DEF S
<1>2. u \in Seq(S) /\ Len(u) = Len(s) + Len(t) /\ DOMAIN u = 1 .. Len(u) /\ Len(u) \in Nat
  BY <1>1
<1>3. \A i \in 1 .. Len(s) : u[i] = s[i]
  BY <1>1
<1>4. \A i \in 1 .. Len(t) : u[Len(s) + i] = t[i]
  BY <1>1
<1>6. Len(s) \in Nat /\ Len(t) \in Nat
  BY <1>1
<1>7. \A i \in 1 .. Len(s) + Len(t) : i \in 1 .. Len(s) \/ \E j \in 1 .. Len(t) : i = Len(s) + j
  <2> SUFFICES ASSUME NEW i \in 1 .. Len(s) + Len(t), i \notin 1 .. Len(s)
               PROVE  \E j \in 1 .. Len(t) : i = Len(s) + j
    OBVIOUS
  <2>1. i - Len(s) \in 1 .. Len(t) /\ i = Len(s) + (i - Len(s))
    BY <1>6
  <2> QED
    BY <2>1
<1> HIDE DEF u
<1>8. IsSeq(u)
  BY <1>2, SeqIsSeq
<1> QED
  BY <1>2, <1>3, <1>4, <1>7, <1>8 DEF u

LEMMA TailFacts ==
  ASSUME NEW s, IsSeq(s), s # <<>>
  PROVE  /\ IsSeq(Tail(s))
         /\ Len(Tail(s)) = Len(s) - 1
         /\ \A i \in 1 .. Len(s) - 1 : Tail(s)[i] = s[i + 1]
<1> DEFINE S == {s[i] : i \in DOMAIN s}
           u == Tail(s)
<1>1. s \in Seq(S)
  BY DEF IsSeq
<1> HIDE DEF S
<1>2. u \in Seq(S) /\ Len(u) = Len(s) - 1 /\ DOMAIN u = 1 .. Len(u) /\ Len(u) \in Nat
      /\ \A i \in 1 .. Len(s) - 1 : u[i] = s[i + 1]
  BY <1>1
<1> HIDE DEF u
<1>4. IsSeq(u)
  BY <1>2, SeqIsSeq
<1> QED
  BY <1>2, <1>4 DEF u

LEMMA SingleFacts ==
  ASSUME NEW a
  PROVE  IsSeq(<<a>>) /\ Len(<<a>>) = 1 /\ DOMAIN <<a>> = {1} /\ <<a>>[1] = a
<1>1. DOMAIN <<a>> = {1} /\ <<a>>[1] = a /\ Len(<<a>>) = 1
  OBVIOUS
<1>2. <<a>> \in Seq({<<a>>[i] : i \in DOMAIN <<a>>})
  OBVIOUS
<1> QED
  BY <1>1, <1>2 DEF IsSeq

LEMMA EmptyFacts == IsSeq(<<>>) /\ Len(<<>>) = 0 /\ DOMAIN <<>> = {}
  BY DEF IsSeq

-----------------------------------------------------------------------------
(* What the calls of a step have to be followed by, by its kind: switches  *)
(* of the target that they turn on, its programming mode and that its      *)
(* program runs, have to be turned off; what is read to be compared has to *)
(* be compared; a write to a memory has to be followed by the reading of   *)
(* an address of it.  Of the two last kinds something has to be there.     *)

On(k, q) == IF k = "mode" THEN q.cmd = "a3"
            ELSE q.cmd = "G" \/ (q.cmd = "q" /\ q.item = "JTAGID_BYTE0")
Off(k, q) == IF k = "mode" THEN q.cmd = "a4" ELSE q.cmd = "F"
TurnsOn(k, t) == t.op = "cmd" /\ On(k, t.q)
TurnsOff(k, t) == t.op = "cmd" /\ Off(k, t.q)

IsVerify(t) == t.op = "read" /\ t.then = "verify"
IsWhere(t) == t.op = "cmd" /\ t.q.cmd = "W"
IsWhat(t) == t.op = "cmd" /\ t.q.cmd = "h"
Writes(t, m) == (t.op = "write" /\ (t.m = m \/ t.m \notin Memories)) \/ (IsWhere(t) /\ Memory(t.q.space) = m)

Switch(switch) == [kind |-> "switch", switch |-> switch]
Comparison == [kind |-> "check"]
Reading(m, a) == [kind |-> "page", m |-> m, a |-> a]
Telling(item) == [kind |-> "size", item |-> item]
Filling == [kind |-> "what"]

Opens(k, t) ==
  \/ k.kind = "switch" /\ TurnsOn(k.switch, t)
  \/ k.kind = "check" /\ IsVerify(t)
  \/ k.kind = "page" /\ Writes(t, k.m)
Closes(k, t) ==
  \/ k.kind = "switch" /\ TurnsOff(k.switch, t)
  \/ k.kind = "check" /\ t.op = "check" /\ t.what = "verified"
  \/ k.kind = "page" /\ IsVerify(t) /\ t.m = k.m /\ k.a \in t.addr .. t.addr + PageSize - 1
  \/ k.kind = "size" /\ t.op = "cmd" /\ t.q.cmd = "B" /\ t.q.item = k.item
  \/ k.kind = "what" /\ IsWhat(t)

Followed(k, s) == \A i \in DOMAIN s : Opens(k, s[i]) => \E j \in DOMAIN s : i < j /\ Closes(k, s[j])
Reaches(k, s) == \E i \in DOMAIN s : Closes(k, s[i])

LEMMA ReachesConcat ==
  ASSUME NEW s, NEW t, IsSeq(s), IsSeq(t), NEW k
  PROVE  Reaches(k, s \o t) <=> Reaches(k, s) \/ Reaches(k, t)
<1> DEFINE u == s \o t
           n == Len(s)
           m == Len(t)
<1>1. /\ n \in Nat /\ m \in Nat /\ DOMAIN s = 1 .. n /\ DOMAIN t = 1 .. m
      /\ DOMAIN u = 1 .. n + m
      /\ \A i \in 1 .. n : u[i] = s[i]
      /\ \A i \in 1 .. m : u[n + i] = t[i]
      /\ \A i \in 1 .. n + m : i \in 1 .. n \/ \E j \in 1 .. m : i = n + j
  <2>1. IsSeq(u) /\ Len(u) = n + m
    BY ConcatFacts
  <2> QED
    BY <2>1, ConcatFacts, SeqFacts
<1>2. \A i \in 1 .. n : i \in 1 .. n + m
  BY <1>1
<1>3. \A i \in 1 .. m : n + i \in 1 .. n + m
  BY <1>1
<1> HIDE DEF u, n, m
<1>4. ASSUME Reaches(k, u) PROVE Reaches(k, s) \/ Reaches(k, t)
  <2>1. PICK i \in 1 .. n + m : Closes(k, u[i])
    BY <1>1, <1>4 DEF Reaches
  <2>2. CASE i \in 1 .. n
    BY <1>1, <2>1, <2>2 DEF Reaches
  <2>3. ASSUME NEW j \in 1 .. m, i = n + j PROVE Reaches(k, t)
    BY <1>1, <2>1, <2>3 DEF Reaches
  <2> QED
    BY <1>1, <2>2, <2>3
<1>5. ASSUME Reaches(k, s) PROVE Reaches(k, u)
  BY <1>1, <1>2, <1>5 DEF Reaches
<1>6. ASSUME Reaches(k, t) PROVE Reaches(k, u)
  BY <1>1, <1>3, <1>6 DEF Reaches
<1> QED
  BY <1>4, <1>5, <1>6 DEF u

\* What is followed stays so in front of or behind something that is; what
\* ends with the one is followed whatever is in front of it.
LEMMA FollowedConcat ==
  ASSUME NEW s, NEW t, IsSeq(s), IsSeq(t), NEW k, Followed(k, t), Followed(k, s) \/ Reaches(k, t)
  PROVE  Followed(k, s \o t)
<1> DEFINE u == s \o t
           n == Len(s)
           m == Len(t)
<1>1. /\ n \in Nat /\ m \in Nat /\ DOMAIN s = 1 .. n /\ DOMAIN t = 1 .. m
      /\ DOMAIN u = 1 .. n + m
      /\ \A i \in 1 .. n : u[i] = s[i]
      /\ \A i \in 1 .. m : u[n + i] = t[i]
      /\ \A i \in 1 .. n + m : i \in 1 .. n \/ \E j \in 1 .. m : i = n + j
  <2>1. IsSeq(u) /\ Len(u) = n + m
    BY ConcatFacts
  <2> QED
    BY <2>1, ConcatFacts, SeqFacts
<1>2. \A i \in 1 .. n : i \in 1 .. n + m /\ \A j \in 1 .. m : i < n + j
  BY <1>1
<1>3. \A i \in 1 .. m : n + i \in 1 .. n + m /\ \A j \in 1 .. m : i < j => n + i < n + j
  BY <1>1
<1> HIDE DEF u, n, m
<1>4. ASSUME NEW i \in 1 .. n + m, Opens(k, u[i])
      PROVE  \E j \in 1 .. n + m : i < j /\ Closes(k, u[j])
  <2>1. CASE i \in 1 .. n
    <3>1. CASE Followed(k, s)
      <4>1. PICK j \in 1 .. n : i < j /\ Closes(k, s[j])
        BY <1>1, <1>4, <2>1, <3>1 DEF Followed
      <4> QED
        BY <1>1, <1>2, <4>1
    <3>2. CASE Reaches(k, t)
      <4>1. PICK j \in 1 .. m : Closes(k, t[j])
        BY <1>1, <3>2 DEF Reaches
      <4> QED
        BY <1>1, <1>2, <1>3, <2>1, <4>1
    <3> QED
      BY <3>1, <3>2
  <2>2. ASSUME NEW j \in 1 .. m, i = n + j PROVE \E l \in 1 .. n + m : i < l /\ Closes(k, u[l])
    <3>1. PICK l \in 1 .. m : j < l /\ Closes(k, t[l])
      BY <1>1, <1>4, <2>2 DEF Followed
    <3> QED
      BY <1>1, <1>3, <2>2, <3>1
  <2> QED
    BY <1>1, <2>1, <2>2
<1> QED
  BY <1>1, <1>4 DEF Followed, u

LEMMA FollowedTail ==
  ASSUME NEW s, IsSeq(s), s # <<>>, NEW k
  PROVE  /\ Followed(k, s) => Followed(k, Tail(s))
         /\ Reaches(k, s) <=> Closes(k, Head(s)) \/ Reaches(k, Tail(s))
         /\ Followed(k, s) /\ Opens(k, Head(s)) => Reaches(k, Tail(s))
<1> DEFINE u == Tail(s)
           n == Len(s)
<1>1. /\ n \in Nat /\ n >= 1 /\ DOMAIN s = 1 .. n /\ Head(s) = s[1]
      /\ DOMAIN u = 1 .. n - 1
      /\ \A i \in 1 .. n - 1 : u[i] = s[i + 1]
  <2>1. IsSeq(u) /\ Len(u) = n - 1
    BY TailFacts
  <2> QED
    BY <2>1, TailFacts, SeqFacts
<1>2. \A i \in 1 .. n : i = 1 \/ (i - 1 \in 1 .. n - 1 /\ u[i - 1] = s[i])
  <2> SUFFICES ASSUME NEW i \in 1 .. n, i # 1 PROVE i - 1 \in 1 .. n - 1 /\ u[i - 1] = s[i]
    OBVIOUS
  <2>1. i - 1 \in 1 .. n - 1 /\ (i - 1) + 1 = i
    BY <1>1
  <2> QED
    BY <1>1, <2>1
<1>3. \A i \in 1 .. n - 1 : i + 1 \in 1 .. n /\ \A j \in 1 .. n : i + 1 < j => i < j - 1 /\ j # 1
  BY <1>1
<1>4. 1 \in 1 .. n
  BY <1>1
<1> HIDE DEF u, n
<1>5. ASSUME Followed(k, s) PROVE Followed(k, u)
  <2>1. ASSUME NEW i \in 1 .. n - 1, Opens(k, u[i])
        PROVE  \E j \in 1 .. n - 1 : i < j /\ Closes(k, u[j])
    <3>1. PICK j \in 1 .. n : i + 1 < j /\ Closes(k, s[j])
      BY <1>1, <1>3, <1>5, <2>1 DEF Followed
    <3> QED
      BY <1>2, <1>3, <3>1
  <2> QED
    BY <1>1, <2>1 DEF Followed
<1>6. Reaches(k, s) => Closes(k, s[1]) \/ Reaches(k, u)
  BY <1>1, <1>2 DEF Reaches
<1>7. Closes(k, s[1]) \/ Reaches(k, u) => Reaches(k, s)
  BY <1>1, <1>3, <1>4 DEF Reaches
<1>8. ASSUME Followed(k, s), Opens(k, s[1]) PROVE Reaches(k, u)
  <2>1. PICK j \in 1 .. n : 1 < j /\ Closes(k, s[j])
    BY <1>1, <1>4, <1>8 DEF Followed
  <2>2. j # 1
    BY <2>1
  <2> QED
    BY <1>1, <1>2, <2>1, <2>2 DEF Reaches
<1> QED
  BY <1>1, <1>5, <1>6, <1>7, <1>8 DEF u

\* Whatever is turned on is turned off again.
Closed(k, s) == \A i \in DOMAIN s : TurnsOn(k, s[i]) => \E j \in DOMAIN s : i < j /\ TurnsOff(k, s[j])
HasOff(k, s) == \E i \in DOMAIN s : TurnsOff(k, s[i])

LEMMA Switching ==
  ASSUME NEW k, NEW s
  PROVE  /\ Closed(k, s) <=> Followed(Switch(k), s)
         /\ HasOff(k, s) <=> Reaches(Switch(k), s)
<1>1. \A t : (Opens(Switch(k), t) <=> TurnsOn(k, t)) /\ (Closes(Switch(k), t) <=> TurnsOff(k, t))
  BY DEF Opens, Closes, Switch
<1> QED
  BY <1>1 DEF Closed, HasOff, Followed, Reaches

LEMMA HasOffConcat ==
  ASSUME NEW s, NEW t, IsSeq(s), IsSeq(t), NEW k
  PROVE  HasOff(k, s \o t) <=> HasOff(k, s) \/ HasOff(k, t)
  BY Switching, ReachesConcat

LEMMA ClosedConcat ==
  ASSUME NEW s, NEW t, IsSeq(s), IsSeq(t), NEW k, Closed(k, t), Closed(k, s) \/ HasOff(k, t)
  PROVE  Closed(k, s \o t)
  BY Switching, FollowedConcat

LEMMA ClosedTail ==
  ASSUME NEW s, IsSeq(s), s # <<>>, NEW k
  PROVE  /\ Closed(k, s) => Closed(k, Tail(s))
         /\ HasOff(k, s) <=> TurnsOff(k, Head(s)) \/ HasOff(k, Tail(s))
         /\ Closed(k, s) /\ TurnsOn(k, Head(s)) => HasOff(k, Tail(s))
<1>1. (Opens(Switch(k), Head(s)) <=> TurnsOn(k, Head(s))) /\ (Closes(Switch(k), Head(s)) <=> TurnsOff(k, Head(s)))
  BY DEF Opens, Closes, Switch
<1> QED
  BY <1>1, Switching, FollowedTail

-----------------------------------------------------------------------------
(* The steps of main: whatever they turn on they turn off again, but for   *)
(* the last one, which lets the program run.                               *)

Commands == {"B", "q", "descriptor", "F", "G", "x", "S", "SE", " ", "1", "a3", "a4", "a5", "R", "W", "h"}

StepItem(t) ==
  \/ t.op = "cmd" /\ t.q.cmd \in Commands /\ t.then \in {"next", "rate", "device"}
  \/ t.op = "read" /\ t.then \in {"keep", "unlock", "ocden", "verify"}
  \/ t.op \in {"write", "sync", "check"}

\* A step begins without the two commands a write is made of.
CallItem(t) == StepItem(t) /\ ~IsWhere(t) /\ ~IsWhat(t)
CallCommands == Commands \ {"W", "h"}

Block(s) == IsSeq(s) /\ \A i \in DOMAIN s : CallItem(s[i])
\* Closed as far as the running program is concerned, or in both ways.
RunBlock(s) == Block(s) /\ Closed("run", s)
FullBlock(s) == RunBlock(s) /\ Closed("mode", s)

LEMMA BlockConcat ==
  ASSUME NEW s, NEW t, Block(s), Block(t)
  PROVE  Block(s \o t)
<1> DEFINE u == s \o t
           n == Len(s)
           m == Len(t)
<1>1. /\ n \in Nat /\ m \in Nat /\ DOMAIN s = 1 .. n /\ DOMAIN t = 1 .. m
      /\ IsSeq(u) /\ DOMAIN u = 1 .. n + m
      /\ \A i \in 1 .. n : u[i] = s[i]
      /\ \A i \in 1 .. m : u[n + i] = t[i]
      /\ \A i \in 1 .. n + m : i \in 1 .. n \/ \E j \in 1 .. m : i = n + j
  <2>0. IsSeq(s) /\ IsSeq(t)
    BY DEF Block
  <2>1. IsSeq(u) /\ Len(u) = n + m
    BY <2>0, ConcatFacts
  <2> QED
    BY <2>0, <2>1, ConcatFacts, SeqFacts
<1> HIDE DEF u, n, m
<1>2. \A i \in 1 .. n + m : CallItem(u[i])
  BY <1>1 DEF Block
<1> QED
  BY <1>1, <1>2 DEF Block, u

LEMMA RunConcat ==
  ASSUME NEW s, NEW t, RunBlock(s), RunBlock(t)
  PROVE  RunBlock(s \o t)
  BY BlockConcat, ClosedConcat DEF RunBlock, Block

LEMMA FullConcat ==
  ASSUME NEW s, NEW t, FullBlock(s), FullBlock(t)
  PROVE  FullBlock(s \o t)
  BY RunConcat, ClosedConcat DEF FullBlock, RunBlock, Block

\* One call.
LEMMA OneBlock ==
  ASSUME NEW a, CallItem(a)
  PROVE  /\ Block(<<a>>)
         /\ ~TurnsOn("run", a) => RunBlock(<<a>>)
         /\ ~TurnsOn("run", a) /\ ~TurnsOn("mode", a) => FullBlock(<<a>>)
         /\ \A k : HasOff(k, <<a>>) <=> TurnsOff(k, a)
  BY SingleFacts DEF Block, RunBlock, FullBlock, Closed, HasOff

LEMMA NoCalls == FullBlock(<<>>) /\ \A k : ~HasOff(k, <<>>)
  BY EmptyFacts DEF FullBlock, RunBlock, Block, Closed, HasOff

\* Calls that are no commands.
LEMMA ManyBlock ==
  ASSUME NEW n \in Nat, NEW s, DOMAIN s = 1 .. n, s = [i \in 1 .. n |-> s[i]],
         \A i \in 1 .. n : CallItem(s[i]) /\ ~TurnsOn("run", s[i]) /\ ~TurnsOn("mode", s[i])
  PROVE  FullBlock(s)
<1>1. IsSeq(s)
  BY MakeSeq
<1> QED
  BY <1>1 DEF FullBlock, RunBlock, Block, Closed

\* Commands that turn nothing on.
Harmless(q) == q.cmd \in CallCommands \ {"a3", "G", "q"} \/ (q.cmd = "q" /\ q.item # "JTAGID_BYTE0")

LEMMA DoBlock ==
  ASSUME NEW q
  PROVE  /\ q.cmd = "a3" => RunBlock(<<Do(q)>>)
         /\ Harmless(q) => FullBlock(<<Do(q)>>)
         /\ q.cmd \in CallCommands => Block(<<Do(q)>>)
         /\ \A k : HasOff(k, <<Do(q)>>) <=> Off(k, q)
<1>1. (q.cmd \in CallCommands => CallItem(Do(q))) /\ Do(q).op = "cmd" /\ Do(q).q = q
  BY DEF Do, CallItem, StepItem, CallCommands, IsWhere, IsWhat
<1>0. (q.cmd = "a3" => q.cmd \in CallCommands) /\ (Harmless(q) => q.cmd \in CallCommands)
  BY DEF CallCommands, Commands, Harmless
<1> HIDE DEF Do
<1>2. /\ q.cmd = "a3" => ~TurnsOn("run", Do(q))
      /\ Harmless(q) => ~TurnsOn("run", Do(q)) /\ ~TurnsOn("mode", Do(q))
      /\ \A k : TurnsOff(k, Do(q)) <=> Off(k, q)
  BY <1>1 DEF TurnsOn, TurnsOff, On, Harmless
<1>3. q.cmd \in CallCommands => Block(<<Do(q)>>)
  BY <1>1, OneBlock
<1>4. q.cmd = "a3" => RunBlock(<<Do(q)>>)
  BY <1>0, <1>1, <1>2, OneBlock
<1>5. Harmless(q) => FullBlock(<<Do(q)>>)
  BY <1>0, <1>1, <1>2, OneBlock
<1>6. \A k : HasOff(k, <<Do(q)>>) <=> TurnsOff(k, Do(q))
  BY SingleFacts DEF HasOff
<1> QED
  BY <1>2, <1>3, <1>4, <1>5, <1>6

LEMMA DoThenBlock ==
  ASSUME NEW q, Harmless(q), NEW then \in {"rate", "device"}
  PROVE  FullBlock(<<DoThen(q, then)>>)
<1>1. CallItem(DoThen(q, then)) /\ DoThen(q, then).op = "cmd" /\ DoThen(q, then).q = q
  BY DEF DoThen, CallItem, StepItem, IsWhere, IsWhat, Harmless, CallCommands, Commands
<1>2. ~TurnsOn("run", DoThen(q, then)) /\ ~TurnsOn("mode", DoThen(q, then))
  BY <1>1 DEF TurnsOn, On, Harmless
<1> QED
  BY <1>1, <1>2, OneBlock

LEMMA OtherBlock ==
  /\ \A m, addr, bytes : FullBlock(<<jtagWrite(m, addr, bytes)>>)
  /\ \A m, addr, n : \A then \in {"keep", "unlock", "ocden", "verify"} : FullBlock(<<jtagRead(m, addr, n, then)>>)
  /\ \A what, bytes : FullBlock(<<check(what, bytes)>>)
  /\ FullBlock(<<[op |-> "sync"]>>)
<1>1. ASSUME NEW a, StepItem(a), a.op # "cmd"
      PROVE  FullBlock(<<a>>)
  BY <1>1, OneBlock DEF TurnsOn, CallItem, IsWhere, IsWhat
<1>2. ASSUME NEW m, NEW addr, NEW bytes
      PROVE  FullBlock(<<jtagWrite(m, addr, bytes)>>)
  BY <1>1 DEF jtagWrite, StepItem
<1>3. ASSUME NEW m, NEW addr, NEW n, NEW then \in {"keep", "unlock", "ocden", "verify"}
      PROVE  FullBlock(<<jtagRead(m, addr, n, then)>>)
  BY <1>1 DEF jtagRead, StepItem
<1>4. ASSUME NEW what, NEW bytes
      PROVE  FullBlock(<<check(what, bytes)>>)
  BY <1>1 DEF check, StepItem
<1>5. FullBlock(<<[op |-> "sync"]>>)
  BY <1>1 DEF StepItem
<1> QED
  BY <1>2, <1>3, <1>4, <1>5

\* Entering and leaving programming mode, stopping and resetting the program.
LEMMA SwitchBlocks ==
  /\ RunBlock(enableProgramming)
  /\ FullBlock(disableProgramming) /\ HasOff("mode", disableProgramming)
  /\ FullBlock(interruptProgram) /\ HasOff("run", interruptProgram)
<1>1. \A c : Simple(c).cmd = c
  BY DEF Simple
<1>2. Harmless(Simple("a4")) /\ Off("mode", Simple("a4")) /\ Harmless(Simple("F")) /\ Off("run", Simple("F"))
  BY <1>1 DEF Harmless, CallCommands, Commands, Off
<1> QED
  BY <1>1, <1>2, DoBlock DEF enableProgramming, disableProgramming, interruptProgram

\* What is done between the two.
LEMMA ProgrammingBlock ==
  ASSUME NEW s, RunBlock(s)
  PROVE  FullBlock(s \o disableProgramming)
  BY SwitchBlocks, RunConcat, ClosedConcat DEF FullBlock, RunBlock, Block

LEMMA ParameterBlock ==
  /\ \A item, value : FullBlock(<<Do(setJtagParameter(item, value))>>)
  /\ \A item : item # "JTAGID_BYTE0" => FullBlock(<<Do(getJtagParameter(item))>>)
<1>1. \A item, value : Harmless(setJtagParameter(item, value))
  BY DEF Harmless, CallCommands, Commands, setJtagParameter
<1>2. \A item : item # "JTAGID_BYTE0" => Harmless(getJtagParameter(item))
  BY DEF Harmless, CallCommands, Commands, getJtagParameter
<1> QED
  BY <1>1, <1>2, DoBlock

LEMMA TwoCalls == \A a, b : <<a, b>> = <<a>> \o <<b>>
  BY TupleFacts
LEMMA ThreeCalls == \A a, b, c : <<a, b, c>> = <<a>> \o <<b>> \o <<c>>
<1> TAKE a, b, c
<1> DEFINE s == <<a, b>> \o <<c>>
           t == <<a, b, c>>
<1>1. <<a, b>> \in Seq({a, b, c}) /\ <<c>> \in Seq({a, b, c}) /\ Len(<<a, b>>) = 2 /\ Len(<<c>>) = 1
      /\ <<a, b>>[1] = a /\ <<a, b>>[2] = b /\ <<c>>[1] = c
  OBVIOUS
<1>2. s \in Seq({a, b, c}) /\ Len(s) = 3 /\ s[1] = a /\ s[2] = b /\ s[3] = c
  BY <1>1
<1>3. t \in Seq({a, b, c}) /\ Len(t) = 3 /\ t[1] = a /\ t[2] = b /\ t[3] = c
  OBVIOUS
<1>4. \A i \in 1 .. 3 : i = 1 \/ i = 2 \/ i = 3
  OBVIOUS
<1> HIDE DEF s, t
<1>5. s = t
  BY <1>2, <1>3, <1>4, SeqEqual
<1> QED
  BY <1>5, TwoCalls DEF s, t
LEMMA FourCalls == \A a, b, c, d : <<a, b, c, d>> = <<a>> \o <<b>> \o <<c>> \o <<d>>
<1> TAKE a, b, c, d
<1> DEFINE s == <<a, b, c>> \o <<d>>
           t == <<a, b, c, d>>
<1>1. <<a, b, c>> \in Seq({a, b, c, d}) /\ <<d>> \in Seq({a, b, c, d}) /\ Len(<<a, b, c>>) = 3 /\ Len(<<d>>) = 1
      /\ <<a, b, c>>[1] = a /\ <<a, b, c>>[2] = b /\ <<a, b, c>>[3] = c /\ <<d>>[1] = d
  OBVIOUS
<1>2. s \in Seq({a, b, c, d}) /\ Len(s) = 4 /\ s[1] = a /\ s[2] = b /\ s[3] = c /\ s[4] = d
  BY <1>1
<1>3. t \in Seq({a, b, c, d}) /\ Len(t) = 4 /\ t[1] = a /\ t[2] = b /\ t[3] = c /\ t[4] = d
  OBVIOUS
<1>4. \A i \in 1 .. 4 : i = 1 \/ i = 2 \/ i = 3 \/ i = 4
  OBVIOUS
<1> HIDE DEF s, t
<1>5. s = t
  BY <1>2, <1>3, <1>4, SeqEqual
<1> QED
  <2>1. <<a, b, c>> = <<a>> \o <<b>> \o <<c>>
    BY ThreeCalls, SMT
  <2> QED
    BY <1>5, <2>1, Zenon DEF s, t

LEMMA ResetBlock == \A s, possible_nSRST : FullBlock(resetProgram(s, possible_nSRST))
<1> TAKE s, possible_nSRST
<1>1. FullBlock(<<Do(Simple("x"))>>)
  BY DoBlock DEF Harmless, CallCommands, Commands, Simple
<1> DEFINE a == Do(setJtagParameter("EXTERNAL_RESET", 1))
           b == Do(Simple("x"))
           c == Do(setJtagParameter("EXTERNAL_RESET", 0))
<1>2. FullBlock(<<a>>) /\ FullBlock(<<b>>) /\ FullBlock(<<c>>)
  BY <1>1, ParameterBlock
<1> HIDE DEF a, b, c
<1>3. FullBlock(<<a, b, c>>)
  <2>1. FullBlock(<<a>> \o <<b>>)
    BY <1>2, FullConcat, Zenon
  <2>2. FullBlock(<<a>> \o <<b>> \o <<c>>)
    BY <1>2, <2>1, FullConcat, Zenon
  <2>3. <<a, b, c>> = <<a>> \o <<b>> \o <<c>>
    BY ThreeCalls, SMT
  <2> QED
    BY <2>2, <2>3, Zenon
<1> QED
  BY <1>2, <1>3 DEF resetProgram, a, b, c
\* Something that is closed by what follows it.
LEMMA Stopped ==
  ASSUME NEW s, Block(s), Closed("mode", s)
  PROVE  FullBlock(s \o interruptProgram) /\ HasOff("run", s \o interruptProgram)
<1> DEFINE t == interruptProgram
<1>1. FullBlock(t) /\ HasOff("run", t)
  BY SwitchBlocks
<1> HIDE DEF t
<1>2. Block(t) /\ IsSeq(s) /\ IsSeq(t) /\ Closed("run", t) /\ Closed("mode", t)
  BY <1>1 DEF FullBlock, RunBlock, Block
<1>3. Block(s \o t)
  BY <1>2, BlockConcat
<1>4. Closed("run", s \o t) /\ Closed("mode", s \o t) /\ HasOff("run", s \o t)
  BY <1>1, <1>2, ClosedConcat, HasOffConcat
<1> QED
  BY <1>3, <1>4 DEF FullBlock, RunBlock, t

LEMMA InOrderFacts ==
  ASSUME NEW n \in Int, NEW S \in SUBSET (1 .. n)
  PROVE  \E k \in Nat : DOMAIN InOrder(S) = 1 .. k
<1>1. IsFiniteSet(S)
  <2>1. IsFiniteSet(1 .. n)
    BY FS_Interval
  <2> QED
    BY <2>1, FS_Subset
<1>2. Cardinality(S) \in Nat
  BY <1>1, FS_CardinalityType
<1> QED
  BY <1>2 DEF InOrder

LEMMA ChainBlock == \A s : FullBlock(configDaisyChain(s))
<1> TAKE s
<1> DEFINE used == InOrder({i \in 1 .. 4 : s.dchain[i] > 0})
           c == configDaisyChain(s)
<1>1. PICK k \in Nat : DOMAIN used = 1 .. k
  <2> DEFINE S == {i \in 1 .. 4 : s.dchain[i] > 0}
  <2>1. S \in SUBSET (1 .. 4) /\ 4 \in Int
    OBVIOUS
  <2> HIDE DEF S
  <2>2. \E k \in Nat : DOMAIN InOrder(S) = 1 .. k
    BY <2>1, InOrderFacts
  <2> QED
    BY <2>2 DEF S
<1>2. c = [i \in DOMAIN used |-> Do(setJtagParameter(ChainItems[used[i]], s.dchain[used[i]]))]
  BY DEF configDaisyChain
<1> HIDE DEF used, c
<1>3. DOMAIN c = 1 .. k /\ c = [i \in 1 .. k |-> c[i]]
  BY <1>1, <1>2
<1>4. ASSUME NEW i \in 1 .. k
      PROVE  CallItem(c[i]) /\ ~TurnsOn("run", c[i]) /\ ~TurnsOn("mode", c[i])
  <2>1. PICK item, value : c[i] = Do(setJtagParameter(item, value))
    BY <1>1, <1>2
  <2>2. c[i].op = "cmd" /\ c[i].then = "next" /\ c[i].q.cmd = "B"
    BY <2>1 DEF Do, setJtagParameter
  <2> QED
    BY <2>2 DEF CallItem, StepItem, IsWhere, IsWhat, Commands, TurnsOn, On
<1>5. FullBlock(c)
  BY <1>3, <1>4, ManyBlock
<1> QED
  BY <1>5 DEF c

LEMMA ConfigBlock == \A s : FullBlock(deviceAutoConfig(s)) /\ HasOff("run", deviceAutoConfig(s))
<1> TAKE s
<1> DEFINE a == configDaisyChain(s)
           b == <<Do(getJtagParameter("JTAGID_BYTE0"))>>
           c == a \o b \o interruptProgram
           d == Do(getJtagParameter("JTAGID_BYTE1"))
           e == Do(getJtagParameter("JTAGID_BYTE2"))
           f == DoThen(getJtagParameter("JTAGID_BYTE3"), "device")
           g == <<d, e, f>>
<1>1. FullBlock(a)
  BY ChainBlock
<1>2. Block(b) /\ Closed("mode", b)
  <2> DEFINE q == getJtagParameter("JTAGID_BYTE0")
             x == Do(q)
  <2>1. Block(<<Do(q)>>)
    BY DoBlock DEF CallCommands, Commands, getJtagParameter
  <2>2. x.op = "cmd" /\ x.q.cmd = "q"
    BY DEF getJtagParameter, Do
  <2> HIDE DEF x
  <2>3. Closed("mode", <<x>>)
    BY <2>2, SingleFacts DEF Closed, TurnsOn, On
  <2> QED
    BY <2>1, <2>3 DEF x
<1>3. FullBlock(<<d>>) /\ FullBlock(<<e>>) /\ FullBlock(<<f>>)
  <2>1. Harmless(getJtagParameter("JTAGID_BYTE3"))
    BY DEF Harmless, CallCommands, Commands, getJtagParameter
  <2> QED
    BY <2>1, ParameterBlock, DoThenBlock
<1> HIDE DEF a, b, d, e, f
<1>4. FullBlock(c) /\ HasOff("run", c)
  <2>1. Block(a \o b) /\ Closed("mode", a \o b)
    BY <1>1, <1>2, BlockConcat, ClosedConcat DEF FullBlock, RunBlock, Block
  <2> QED
    BY <2>1, Stopped
<1>5. FullBlock(g)
  <2>1. g = <<d>> \o <<e>> \o <<f>>
    BY ThreeCalls, SMT
  <2>2. FullBlock(<<d>> \o <<e>>)
    BY <1>3, FullConcat, Zenon
  <2>3. FullBlock(<<d>> \o <<e>> \o <<f>>)
    BY <1>3, <2>2, FullConcat, Zenon
  <2> QED
    BY <2>1, <2>3, Zenon
<1> HIDE DEF c, g
<1>6. FullBlock(c \o g)
  BY <1>4, <1>5, FullConcat
<1>7. HasOff("run", c \o g)
  BY <1>4, <1>5, HasOffConcat DEF FullBlock, RunBlock, Block
<1>8. deviceAutoConfig(s) = c \o g
  BY Zenon DEF deviceAutoConfig, a, b, c, d, e, f, g
<1> QED
  BY <1>6, <1>7, <1>8

LEMMA InitBlock == \A s : FullBlock(initJtagBox(s)) /\ HasOff("run", initJtagBox(s))
<1> TAKE s
<1> DEFINE a == [op |-> "sync"]
           b == DoThen(setJtagParameter("BITRATE", 115200), "rate")
           c == Do(getJtagParameter("HW_VERSION"))
           d == Do(getJtagParameter("SW_VERSION"))
           e == <<a, b, c, d>>
           f == e \o interruptProgram
           g == deviceAutoConfig(s)
<1>1. FullBlock(<<a>>)
  BY OtherBlock
<1>2. FullBlock(<<b>>)
  <2> DEFINE q == setJtagParameter("BITRATE", 115200)
  <2>1. Harmless(q)
    BY SMT DEF Harmless, CallCommands, Commands, setJtagParameter
  <2>2. b = DoThen(q, "rate")
    BY SMT
  <2> HIDE DEF b, q
  <2> QED
    BY <2>1, <2>2, DoThenBlock
<1>3. FullBlock(<<c>>) /\ FullBlock(<<d>>)
  BY ParameterBlock
<1> HIDE DEF a, b, c, d
<1>4. FullBlock(e)
  <2>1. e = <<a>> \o <<b>> \o <<c>> \o <<d>>
    BY FourCalls, SMT
  <2>2. FullBlock(<<a>> \o <<b>>)
    BY <1>1, <1>2, FullConcat, Zenon
  <2>3. FullBlock(<<a>> \o <<b>> \o <<c>>)
    BY <1>3, <2>2, FullConcat, Zenon
  <2>4. FullBlock(<<a>> \o <<b>> \o <<c>> \o <<d>>)
    BY <1>3, <2>3, FullConcat, Zenon
  <2> QED
    BY <2>1, <2>4, Zenon
<1> HIDE DEF e
<1>5. FullBlock(f)
  BY <1>4, Stopped DEF FullBlock, RunBlock
<1>6. FullBlock(g) /\ HasOff("run", g)
  BY ConfigBlock
<1> HIDE DEF f, g
<1>7. FullBlock(f \o g) /\ HasOff("run", f \o g)
  BY <1>5, <1>6, FullConcat, HasOffConcat DEF FullBlock, RunBlock, Block
<1>8. initJtagBox(s) = f \o g
  BY SMT DEF initJtagBox, a, b, c, d, e, f, g
<1> QED
  BY <1>7, <1>8

LEMMA EraseBlock == FullBlock(eraseSteps)
<1>1. FullBlock(<<Do(Simple("a5"))>>)
  BY DoBlock DEF Harmless, CallCommands, Commands, Simple
<1>2. RunBlock(enableProgramming \o <<Do(Simple("a5"))>>)
  BY <1>1, SwitchBlocks, RunConcat DEF FullBlock
<1> QED
  BY <1>2, ProgrammingBlock DEF eraseSteps

LEMMA ReadBitsBlock == \A m, n : FullBlock(ReadBits(m, n))
<1> TAKE m, n
<1> DEFINE a == <<jtagRead(m, 0, n, "keep")>>
           b == <<check("kept", <<>>)>>
<1>1. FullBlock(a) /\ FullBlock(b)
  BY OtherBlock
<1> HIDE DEF a, b
<1>2. RunBlock(enableProgramming \o a)
  BY <1>1, SwitchBlocks, RunConcat DEF FullBlock
<1>3. FullBlock(enableProgramming \o a \o disableProgramming)
  BY <1>2, ProgrammingBlock
<1>4. FullBlock(enableProgramming \o a \o disableProgramming \o b)
  BY <1>1, <1>3, FullConcat
<1> QED
  BY <1>4 DEF ReadBits, a, b

LEMMA WriteBitsBlock == \A m, n, bytes : FullBlock(WriteBits(m, n, bytes))
<1> TAKE m, n, bytes
<1> DEFINE a == jtagWrite(m, 0, bytes)
           b == jtagRead(m, 0, n, "keep")
           c == <<check("same", bytes)>>
           d == <<check("never", <<>>)>>
           e == <<a, b>>
<1>1. FullBlock(<<a>>) /\ FullBlock(<<b>>) /\ FullBlock(c) /\ FullBlock(d)
  BY OtherBlock
<1> HIDE DEF a, b, c, d
<1>2. FullBlock(e)
  BY <1>1, TwoCalls, FullConcat
<1> HIDE DEF e
<1>3. RunBlock(enableProgramming \o e)
  BY <1>2, SwitchBlocks, RunConcat DEF FullBlock
<1>4. FullBlock(enableProgramming \o e \o disableProgramming)
  BY <1>3, ProgrammingBlock
<1>5. FullBlock(enableProgramming \o e \o disableProgramming \o c)
  BY <1>1, <1>4, FullConcat
<1>6. WriteBits(m, n, bytes) = IF bytes = <<>> THEN d ELSE enableProgramming \o e \o disableProgramming \o c
  BY Zenon DEF WriteBits, a, b, c, d, e
<1> QED
  BY <1>1, <1>5, <1>6

LEMMA DebugBlock == \A s : FullBlock(initJtagOnChipDebugging(s))
<1> TAKE s
<1> DEFINE a == <<Do(setJtagParameter("CLOCK", JtagClock(s.jtagBitrate)))>>
           b == jtagRead("lock", 0, 1, "unlock")
           c == jtagRead("fuse", 0, 3, "ocden")
           d == <<b, c>>
           e == resetProgram(s, FALSE)
           f == <<Do(setJtagParameter("TIMERS_RUNNING", 0))>>
           g == resetProgram(s, TRUE)
<1>1. FullBlock(a) /\ FullBlock(<<b>>) /\ FullBlock(<<c>>) /\ FullBlock(e) /\ FullBlock(f) /\ FullBlock(g)
  BY OtherBlock, ParameterBlock, ResetBlock
<1> HIDE DEF a, b, c, e, f, g
<1>2. FullBlock(d)
  BY <1>1, TwoCalls, FullConcat
<1> HIDE DEF d
<1>3. RunBlock(a \o enableProgramming \o d)
  <2>1. RunBlock(a) /\ RunBlock(d) /\ RunBlock(enableProgramming)
    BY <1>1, <1>2, SwitchBlocks DEF FullBlock
  <2>2. RunBlock(a \o enableProgramming)
    BY <2>1, RunConcat
  <2> QED
    BY <2>1, <2>2, RunConcat
<1>4. FullBlock(a \o enableProgramming \o d \o disableProgramming)
  BY <1>3, ProgrammingBlock
<1>5. FullBlock(a \o enableProgramming \o d \o disableProgramming \o e)
  BY <1>1, <1>4, FullConcat
<1>6. FullBlock(a \o enableProgramming \o d \o disableProgramming \o e \o f)
  BY <1>1, <1>5, FullConcat
<1>7. FullBlock(a \o enableProgramming \o d \o disableProgramming \o e \o f \o g)
  BY <1>1, <1>6, FullConcat
<1>8. initJtagOnChipDebugging(s) = a \o enableProgramming \o d \o disableProgramming \o e \o f \o g
  BY Zenon DEF initJtagOnChipDebugging, a, b, c, d, e, f, g
<1> QED
  BY <1>7, <1>8

-----------------------------------------------------------------------------
(* The download.                                                           *)

LEMMA PageSizeFact == PageSize \in Nat /\ PageSize > 0
  BY BoxAssumption

\* An image that is not empty has a first and a last address.
LEMMA Ends ==
  ASSUME NEW n \in Nat, NEW T, T \subseteq 0 .. n - 1, T # {}
  PROVE  /\ LowestOf(T) \in T /\ \A y \in T : LowestOf(T) <= y
         /\ HighestOf(T) \in T /\ \A y \in T : y <= HighestOf(T)
<1>0. T \subseteq Nat
  OBVIOUS
<1>1. \E x \in T : \A y \in T : x <= y
  BY <1>0, Least
<1>2. \E x \in T : \A y \in T : y <= x
  <2> DEFINE U == {n - y : y \in T}
  <2>1. U \subseteq Nat /\ U # {}
    OBVIOUS
  <2>2. PICK u \in U : \A v \in U : u <= v
    BY <2>1, Least
  <2>3. PICK x \in T : u = n - x
    OBVIOUS
  <2>4. \A y \in T : n - x <= n - y
    BY <2>2, <2>3
  <2>5. \A y \in T : y <= x
    BY <2>4
  <2> QED
    BY <2>5
<1> QED
  BY <1>1, <1>2 DEF LowestOf, HighestOf

LEMMA ImageSizeFact == MAX_IMAGE_SIZE \in Nat
  BY SMT DEF MAX_IMAGE_SIZE

LEMMA PagesFacts ==
  ASSUME NEW img, DOMAIN img \subseteq 0 .. MAX_IMAGE_SIZE - 1, DOMAIN img # {}
  PROVE  \E n \in Int : DOMAIN Pages(img) = 1 .. n
<1> DEFINE lo == LowestOf(DOMAIN img)
           hi == HighestOf(DOMAIN img)
<1>1. lo \in Int /\ hi \in Int
  <2> DEFINE T == DOMAIN img
  <2>1. T \subseteq 0 .. MAX_IMAGE_SIZE - 1 /\ T # {}
    OBVIOUS
  <2> HIDE DEF T
  <2>2. LowestOf(T) \in T /\ HighestOf(T) \in T
    BY <2>1, Ends, ImageSizeFact
  <2>3. T \subseteq Int
    BY <2>1, ImageSizeFact
  <2> QED
    BY <2>2, <2>3 DEF T
<1> HIDE DEF lo, hi
<1>2. \A x \in Int : Page(x) \in Int
  <2> TAKE x \in Int
  <2>1. x % PageSize \in Int
    BY PageSizeFact
  <2> QED
    BY <2>1 DEF Page
<1>3. Page(hi) - Page(lo) \in Int
  BY <1>1, <1>2
<1>4. (Page(hi) - Page(lo)) \div PageSize \in Int
  BY <1>3, PageSizeFact
<1>5. 1 + (Page(hi) - Page(lo)) \div PageSize \in Int
  BY <1>4
<1>6. DOMAIN Pages(img) = 1 .. 1 + (Page(hi) - Page(lo)) \div PageSize
  BY DEF Pages, lo, hi
<1> QED
  BY <1>5, <1>6

LEMMA ImageBlock ==
  ASSUME NEW img, DOMAIN img \subseteq 0 .. MAX_IMAGE_SIZE - 1, NEW m, NEW program, NEW verify
  PROVE  FullBlock(jtag_flash_image(img, m, program, verify))
<1>1. CASE DOMAIN img = {}
  BY <1>1, NoCalls DEF jtag_flash_image
<1>2. CASE DOMAIN img # {}
  <2> DEFINE pages == Pages(img)
             used == InOrder({i \in DOMAIN pages : ~pageIsEmpty(img, m, pages[i])})
             writes == [k \in DOMAIN used |-> jtagWrite(m, pages[used[k]], PageBuffer(img, pages[used[k]]))]
             reads == [i \in DOMAIN pages |-> jtagRead(m, pages[i], PageSize, "verify")]
             c == <<check("verified", <<>>)>>
  <2>1. PICK n \in Int : DOMAIN pages = 1 .. n
    BY <1>2, PagesFacts
  <2>2. PICK k \in Nat : DOMAIN used = 1 .. k
    <3>1. {i \in DOMAIN pages : ~pageIsEmpty(img, m, pages[i])} \in SUBSET (1 .. n)
      BY <2>1
    <3> QED
      BY <3>1, InOrderFacts
  <2>3. jtag_flash_image(img, m, program, verify)
          = (IF program THEN writes ELSE <<>>) \o (IF verify THEN reads \o c ELSE <<>>)
    BY <1>2 DEF jtag_flash_image
  <2> HIDE DEF pages, used
  <2>4. FullBlock(writes)
    <3>1. DOMAIN writes = 1 .. k /\ writes = [i \in 1 .. k |-> writes[i]]
      BY <2>2
    <3>2. ASSUME NEW i \in 1 .. k
          PROVE  CallItem(writes[i]) /\ ~TurnsOn("run", writes[i]) /\ ~TurnsOn("mode", writes[i])
      <4>1. writes[i].op = "write"
        BY <2>2 DEF jtagWrite
      <4> HIDE DEF writes
      <4> QED
        BY <4>1 DEF CallItem, StepItem, IsWhere, IsWhat, TurnsOn
    <3> HIDE DEF writes
    <3> QED
      BY <3>1, <3>2, ManyBlock
  <2>5. FullBlock(reads)
    <3>1. PICK l \in Nat : 1 .. n = 1 .. l
      <4>1. CASE n \in Nat
        BY <4>1
      <4>2. CASE n \notin Nat
        <5>1. 1 .. n = 1 .. 0
          BY <4>2
        <5> QED
          BY <5>1
      <4> QED
        BY <4>1, <4>2
    <3>2. DOMAIN reads = 1 .. l /\ reads = [i \in 1 .. l |-> reads[i]]
      BY <2>1, <3>1
    <3>3. ASSUME NEW i \in 1 .. l
          PROVE  CallItem(reads[i]) /\ ~TurnsOn("run", reads[i]) /\ ~TurnsOn("mode", reads[i])
      <4>1. reads[i].op = "read" /\ reads[i].then = "verify"
        BY <2>1, <3>1, <3>3 DEF jtagRead
      <4> HIDE DEF reads
      <4> QED
        BY <4>1 DEF CallItem, StepItem, IsWhere, IsWhat, TurnsOn
    <3> HIDE DEF reads
    <3> QED
      BY <3>2, <3>3, ManyBlock
  <2>6. FullBlock(c)
    BY OtherBlock
  <2> HIDE DEF writes, reads, c
  <2>7. FullBlock(IF program THEN writes ELSE <<>>)
    BY <2>4, NoCalls
  <2>8. FullBlock(IF verify THEN reads \o c ELSE <<>>)
    BY <2>5, <2>6, NoCalls, FullConcat
  <2> QED
    BY <2>3, <2>7, <2>8, FullConcat
<1> QED
  BY <1>1, <1>2

LEMMA DownloadBlock == \A s, device : FullBlock(downloadToTarget(s, device))
<1> TAKE s, device
<1>1. CASE s.text["f"] \notin DOMAIN Files
  BY <1>1, OtherBlock DEF downloadToTarget
<1>2. CASE s.text["f"] \in DOMAIN Files
  <2> DEFINE fl == Files[s.text["f"]]["flash"]
             ee == Files[s.text["f"]]["eeprom"]
             a == PageSizes(ByName(device))
             b == jtag_flash_image(fl, "flash", Program(s), Verify(s))
             c == jtag_flash_image(ee, "eeprom", Program(s), Verify(s))
             d == resetProgram(s, FALSE)
  <2>1. FullBlock(a)
    <3> DEFINE x == Do(setJtagParameter("FLASH_PAGESIZE_LOW", ByName(device).flash_page_size % 256))
               y == Do(setJtagParameter("FLASH_PAGESIZE_HIGH", ByName(device).flash_page_size \div 256))
               z == Do(setJtagParameter("EEPROM_PAGESIZE", ByName(device).eeprom_page_size))
    <3>1. FullBlock(<<x>>) /\ FullBlock(<<y>>) /\ FullBlock(<<z>>)
      BY ParameterBlock
    <3>2. a = <<x, y, z>>
      BY Zenon DEF PageSizes
    <3> HIDE DEF x, y, z, a
    <3>3. a = <<x>> \o <<y>> \o <<z>>
      BY <3>2, ThreeCalls, SMT
    <3>4. FullBlock(<<x>> \o <<y>>)
      BY <3>1, FullConcat, Zenon
    <3>5. FullBlock(<<x>> \o <<y>> \o <<z>>)
      BY <3>1, <3>4, FullConcat, Zenon
    <3> QED
      BY <3>3, <3>5, Zenon
  <2>2. FullBlock(b) /\ FullBlock(c)
    <3>1. DOMAIN fl \subseteq 0 .. MAX_IMAGE_SIZE - 1 /\ DOMAIN ee \subseteq 0 .. MAX_IMAGE_SIZE - 1
      BY <1>2, AvariceAssumption
    <3> QED
      BY <3>1, ImageBlock
  <2>3. FullBlock(d)
    BY ResetBlock
  <2>4. downloadToTarget(s, device) = a \o enableProgramming \o b \o c \o disableProgramming \o d
    BY <1>2, Zenon DEF downloadToTarget
  <2> HIDE DEF a, b, c, d
  <2>5. RunBlock(a \o enableProgramming \o b \o c)
    <3>1. RunBlock(a) /\ RunBlock(b) /\ RunBlock(c) /\ RunBlock(enableProgramming)
      BY <2>1, <2>2, SwitchBlocks DEF FullBlock
    <3>2. RunBlock(a \o enableProgramming)
      BY <3>1, RunConcat
    <3>3. RunBlock(a \o enableProgramming \o b)
      BY <3>1, <3>2, RunConcat
    <3> QED
      BY <3>1, <3>3, RunConcat
  <2>6. FullBlock(a \o enableProgramming \o b \o c \o disableProgramming)
    BY <2>5, ProgrammingBlock
  <2> QED
    BY <2>3, <2>4, <2>6, FullConcat
<1> QED
  BY <1>1, <1>2

-----------------------------------------------------------------------------
(* All steps.                                                              *)

LEMMA ResumeBlock == Block(<<Do(Simple("G"))>>) /\ Closed("mode", <<Do(Simple("G"))>>)
<1> DEFINE x == Do(Simple("G"))
<1>1. Block(<<x>>)
  BY DoBlock DEF CallCommands, Commands, Simple
<1>2. x.op = "cmd" /\ x.q.cmd = "G"
  BY DEF Do, Simple
<1> HIDE DEF x
<1>3. Closed("mode", <<x>>)
  BY <1>2, SingleFacts DEF Closed, TurnsOn, On
<1> QED
  BY <1>1, <1>3 DEF x

LEMMA CallsFacts ==
  ASSUME NEW s, NEW p \in StepSet
  PROVE  /\ Block(Calls(s, p))
         /\ Closed("mode", Calls(s, p))
         /\ p # "resume" => Closed("run", Calls(s, p))
         /\ p = "init" => HasOff("run", Calls(s, p))
<1>1. CASE p = "init"
  <2>1. Calls(s, p) = initJtagBox(s)
    BY <1>1 DEF Calls
  <2> QED
    BY <2>1, InitBlock DEF FullBlock, RunBlock
<1>2. CASE p = "resume"
  <2>1. Calls(s, p) = <<Do(Simple("G"))>>
    BY <1>2 DEF Calls
  <2> QED
    BY <1>2, <2>1, ResumeBlock
<1>3. CASE p \notin {"init", "resume"}
  <2>1. FullBlock(Calls(s, p))
    <3>0. p \in {"erase", "readFuses", "readLockBits", "writeFuses", "initOCD", "download", "writeLockBits"}
      BY <1>3 DEF StepSet, Steps
    <3>1. Calls(s, p) = <<>> \/ FullBlock(Calls(s, p))
      <4> DEFINE a == eraseSteps
                 b == ReadBits("fuse", 3)
                 c == ReadBits("lock", 1)
                 d == WriteBits("fuse", 3, FuseText[s.text["W"]])
                 e == initJtagOnChipDebugging(s)
                 f == downloadToTarget(s, drv.device)
                 g == <<check("never", <<>>)>>
                 h == WriteBits("lock", 1, LockText[s.text["L"]])
      <4>1. /\ FullBlock(a) /\ FullBlock(b) /\ FullBlock(c) /\ FullBlock(d) /\ FullBlock(e)
            /\ FullBlock(f) /\ FullBlock(g) /\ FullBlock(h)
        BY EraseBlock, ReadBitsBlock, WriteBitsBlock, DebugBlock, DownloadBlock, OtherBlock
      <4>2. ASSUME p = "erase" PROVE Calls(s, p) = a \/ Calls(s, p) = <<>>
        BY <4>2 DEF Calls
      <4>3. ASSUME p = "readFuses" PROVE Calls(s, p) = b \/ Calls(s, p) = <<>>
        BY <4>3 DEF Calls
      <4>4. ASSUME p = "readLockBits" PROVE Calls(s, p) = c \/ Calls(s, p) = <<>>
        BY <4>4 DEF Calls
      <4>5. ASSUME p = "writeFuses" PROVE Calls(s, p) = d \/ Calls(s, p) = <<>>
        BY <4>5 DEF Calls
      <4>6. ASSUME p = "initOCD" PROVE Calls(s, p) = e \/ Calls(s, p) = <<>>
        BY <4>6 DEF Calls
      <4>7. ASSUME p = "download" PROVE Calls(s, p) = f \/ Calls(s, p) = g \/ Calls(s, p) = <<>>
        <5>1. CASE s.text["f"] # "" /\ ~FileMissing(s)
          BY <4>7, <5>1 DEF Calls
        <5>2. CASE s.text["f"] = "" /\ FileMissing(s)
          BY <4>7, <5>2 DEF Calls
        <5>3. CASE s.text["f"] # "" /\ FileMissing(s)
          BY <5>3 DEF FileMissing
        <5>4. CASE s.text["f"] = "" /\ ~FileMissing(s)
          BY <4>7, <5>4 DEF Calls
        <5> QED
          BY <5>1, <5>2, <5>3, <5>4
      <4>8. ASSUME p = "writeLockBits" PROVE Calls(s, p) = h \/ Calls(s, p) = <<>>
        BY <4>8 DEF Calls
      <4> HIDE DEF a, b, c, d, e, f, g, h
      <4> QED
        BY <3>0, <4>1, <4>2, <4>3, <4>4, <4>5, <4>6, <4>7, <4>8
    <3> QED
      BY <3>1, NoCalls
  <2> QED
    BY <1>3, <2>1 DEF FullBlock, RunBlock
<1> QED
  BY <1>1, <1>2, <1>3

-----------------------------------------------------------------------------
(* The emulator: what a request may change, and what its answer says.      *)

BoxFields == {"rate", "sync", "dead", "running", "progmode", "pending", "params", "device", "id", "mem"}
BoxInv == DOMAIN ice = BoxFields

\* The request q has set its parameter.
ParameterSet(b, q) == q.item \in DOMAIN b.params \ {"BITRATE"} => b.params[q.item] = q.value

\* What an answer says of the emulator b, with the commands r refused, is so.
Says(b, r, of, ack, bytes) ==
  /\ of.cmd = "a3" /\ ack => b.progmode
  /\ of.cmd = "a4" /\ ack => ~b.progmode
  /\ of.cmd = "F" => IF ack THEN ~b.running ELSE "F" \in r
  /\ of.cmd = "R" /\ ack => bytes = Contents(b, of.space, of.addr, of.n)
  /\ of.cmd = "B" /\ ack => ParameterSet(b, of)
  /\ of.cmd = "descriptor" /\ ack => b.device = of.value.name

\* Emulators in the same mode with the same memory, parameters and device.
Alike(a, b) ==
  /\ a.progmode = b.progmode /\ a.running = b.running /\ a.mem = b.mem /\ a.params = b.params
  /\ a.device = b.device /\ a.id = b.id

\* From the state b to the state a with the request q.
Switches(q, b, a) ==
  /\ DOMAIN a = BoxFields
  /\ a.progmode => b.progmode \/ On("mode", q)
  /\ a.running => b.running \/ On("run", q)
  /\ q.cmd = "a4" => ~a.progmode
  /\ q.cmd = "F" => ~a.running
  /\ q.cmd = "R" => Alike(a, b)
  /\ q.cmd = "a3" => a.progmode
  /\ q.cmd = "B" => ParameterSet(a, q)
  /\ a.id = b.id /\ a.device = IF q.cmd = "descriptor" THEN q.value.name ELSE b.device

LEMMA OutcomeFacts ==
  ASSUME NEW b, DOMAIN b = BoxFields, NEW q, q.cmd \in Commands, NEW o \in Outcomes(b, q)
  PROVE  /\ o = [ice |-> o.ice, ack |-> o.ack, bytes |-> o.bytes]
         /\ Switches(q, b, o.ice)
         /\ q.cmd = "F" => o.ack
         /\ q.cmd = "R" /\ o.ack => o.bytes = Contents(b, q.space, q.addr, q.n)
<1> USE DEF Does, Refuses, BoxFields, Switches, On, Alike
<1>1. CASE q.cmd = "B"
  <2> DEFINE a == IF q.item = "BITRATE" THEN [b EXCEPT !.rate = q.value]
                  ELSE [b EXCEPT !.params = [b.params EXCEPT ![q.item] = q.value]]
  <2>1. o = Does(a, TRUE, <<>>)
    BY <1>1 DEF Outcomes
  <2>2. DOMAIN a = BoxFields /\ a.progmode = b.progmode /\ a.running = b.running /\ a.id = b.id /\ a.device = b.device
    OBVIOUS
  <2>3. ParameterSet(a, q)
    BY DEF ParameterSet
  <2> HIDE DEF a
  <2> QED
    BY <1>1, <2>1, <2>2, <2>3
<1>2. CASE q.cmd = "q"
  BY <1>2 DEF Outcomes
<1>3. CASE q.cmd = "descriptor"
  <2> DEFINE d == q.value.name
             l == q.value.dev_desc1.flash_pg_sz % 256
             h == q.value.dev_desc1.flash_pg_sz \div 256
             e == q.value.dev_desc1.eeprom_pg_sz
             a == [b EXCEPT !.device = d, !.params["FLASH_PAGESIZE_LOW"] = l,
                            !.params["FLASH_PAGESIZE_HIGH"] = h, !.params["EEPROM_PAGESIZE"] = e]
  <2>1. o = Does(a, TRUE, <<>>)
    BY <1>3, SMT DEF Outcomes
  <2> HIDE DEF d, l, h, e
  <2>2. DOMAIN a = BoxFields /\ a.progmode = b.progmode /\ a.running = b.running /\ a.id = b.id /\ a.device = d
    OBVIOUS
  <2> HIDE DEF a
  <2> QED
    BY <1>3, <2>1, <2>2 DEF d
<1>4. CASE q.cmd = "F"
  BY <1>4 DEF Outcomes
<1>5. CASE q.cmd = "G"
  BY <1>5 DEF Outcomes
<1>6. CASE q.cmd \in {"x", "S", "SE", " ", "1"}
  <2>1. o = Does(b, TRUE, <<>>)
    <3>1. CASE q.cmd = "x" \/ q.cmd = "S"
      BY <3>1 DEF Outcomes
    <3>2. CASE q.cmd = "SE" \/ q.cmd = " "
      BY <3>2 DEF Outcomes
    <3>3. CASE q.cmd = "1"
      BY <3>3 DEF Outcomes
    <3> QED
      BY <1>6, <3>1, <3>2, <3>3
  <2> QED
    BY <1>6, <2>1
<1>7. CASE q.cmd = "a3"
  BY <1>7 DEF Outcomes
<1>8. CASE q.cmd = "a4"
  BY <1>8 DEF Outcomes
<1>9. CASE q.cmd = "a5"
  BY <1>9 DEF Outcomes
<1>10. CASE q.cmd = "R"
  BY <1>10 DEF Outcomes
<1>11. CASE q.cmd = "W"
  BY <1>11 DEF Outcomes
<1>12. CASE q.cmd = "h"
  <2> DEFINE w == b.pending
             done == [b EXCEPT !.pending = NoWrite]
             wrote == [done EXCEPT !.mem = Put(done.mem, w, q.bytes)]
  <2>1. o = Refuses(done) \/ o = Does(wrote, TRUE, <<>>)
    BY <1>12 DEF Outcomes
  <2>2. DOMAIN done = BoxFields /\ done.progmode = b.progmode /\ done.running = b.running /\ done.id = b.id /\ done.device = b.device
    OBVIOUS
  <2>3. /\ DOMAIN wrote = BoxFields /\ wrote.progmode = done.progmode /\ wrote.running = done.running
        /\ wrote.id = done.id /\ wrote.device = done.device
    BY <2>2
  <2> HIDE DEF done, wrote
  <2> QED
    BY <1>12, <2>1, <2>2, <2>3
<1> QED
  BY <1>1, <1>2, <1>3, <1>4, <1>5, <1>6, <1>7, <1>8, <1>9, <1>10, <1>11, <1>12 DEF Commands

LEMMA SaysAfter ==
  ASSUME NEW b, DOMAIN b = BoxFields, NEW q, q.cmd \in Commands, NEW o \in Outcomes(b, q),
         NEW a, Alike(a, o.ice), NEW r
  PROVE  Says(a, r, q, o.ack, o.bytes)
<1>1. /\ Switches(q, b, o.ice)
      /\ q.cmd = "F" => o.ack
      /\ q.cmd = "R" /\ o.ack => o.bytes = Contents(b, q.space, q.addr, q.n)
  BY OutcomeFacts
<1>2. q.cmd = "R" => a.mem = b.mem /\ a.progmode = b.progmode
  BY <1>1 DEF Switches, Alike
<1>3. q.cmd = "R" => Contents(a, q.space, q.addr, q.n) = Contents(b, q.space, q.addr, q.n)
  BY <1>2 DEF Contents
<1>4. /\ q.cmd = "a3" => a.progmode
      /\ q.cmd = "a4" => ~a.progmode
      /\ q.cmd = "F" => ~a.running
      /\ q.cmd = "B" => ParameterSet(a, q)
      /\ q.cmd = "descriptor" => a.device = q.value.name
  BY <1>1 DEF Switches, Alike, ParameterSet
<1> QED
  BY <1>1, <1>3, <1>4 DEF Says

\* The tokens on the way to the driver are honest, and what follows another
\* one is the rest of an answer.
Honest(b, r, t) == t.k = "body" => Says(b, r, t.of, t.ack, t.bytes)
HostOK(b, r, s) ==
  \/ s = <<>>
  \/ \E t : s = <<t>> /\ Honest(b, r, t)
  \/ \E t, u : s = <<t, u>> /\ Honest(b, r, t) /\ u.k = "body" /\ Honest(b, r, u)

LEMMA OneToken ==
  ASSUME NEW b, NEW r, NEW k, NEW q, NEW ack, NEW bytes, k # "body"
  PROVE  /\ HostOK(b, r, <<Token(k, q, ack, bytes)>>)
         /\ HostOK(b, r, Append(<<>>, Token(k, q, ack, bytes)))
         /\ HostOK(b, r, <<>> \o <<Token(k, q, ack, bytes)>>)
<1> DEFINE t == Token(k, q, ack, bytes)
<1>1. Honest(b, r, t)
  BY DEF Honest, Token
<1> HIDE DEF t
<1>2. Append(<<>>, t) = <<t>> /\ <<>> \o <<t>> = <<t>>
  BY TupleFacts
<1> QED
  BY <1>1, <1>2 DEF HostOK, t

LEMMA AnswerHonest ==
  ASSUME NEW b, NEW r, NEW q, NEW o, Says(b, r, q, o.ack, o.bytes)
  PROVE  /\ HostOK(b, r, <<>> \o Answer(q, o))
         /\ \A ack : HostOK(b, r, <<>> \o (<<Token("info", q, ack, <<>>)>> \o Tail(Answer(q, o))))
<1> DEFINE first == Token("ok", q, TRUE, <<>>)
           second == Token("body", q, o.ack, o.bytes)
<1>1. Honest(b, r, first) /\ second.k = "body" /\ Honest(b, r, second)
  BY DEF Token, Honest
<1>2. Answer(q, o) = IF HasBody(q) THEN <<first, second>> ELSE <<first>>
  <2>1. Answer(q, o) = <<first>> \o (IF HasBody(q) THEN <<second>> ELSE <<>>)
    BY Zenon DEF Answer
  <2> HIDE DEF first, second
  <2> QED
    BY <2>1, TupleFacts
<1> HIDE DEF first, second
<1>3. HostOK(b, r, <<>> \o Answer(q, o))
  <2>1. <<>> \o <<first, second>> = <<first, second>> /\ <<>> \o <<first>> = <<first>>
    BY TupleFacts
  <2> QED
    BY <1>1, <1>2, <2>1 DEF HostOK
<1>4. ASSUME NEW ack
      PROVE  HostOK(b, r, <<>> \o (<<Token("info", q, ack, <<>>)>> \o Tail(Answer(q, o))))
  <2> DEFINE info == Token("info", q, ack, <<>>)
  <2>1. Honest(b, r, info)
    BY DEF Token, Honest
  <2> HIDE DEF info
  <2>2. Tail(Answer(q, o)) = IF HasBody(q) THEN <<second>> ELSE <<>>
    BY <1>2
  <2>3. <<>> \o (<<info>> \o Tail(Answer(q, o))) = IF HasBody(q) THEN <<info, second>> ELSE <<info>>
    BY <2>2, TupleFacts
  <2> QED
    BY <1>1, <2>1, <2>3 DEF HostOK, info
<1> QED
  BY <1>3, <1>4

\* What any request may do, whether it is heard, answered or lost.
Moves(q, b, a) ==
  /\ DOMAIN a = BoxFields
  /\ a.progmode => b.progmode \/ On("mode", q)
  /\ a.running => b.running \/ On("run", q)
  /\ a.id = b.id /\ a.device \in {b.device} \cup (IF q.cmd = "descriptor" THEN {q.value.name} ELSE {})

LEMMA TookAlike ==
  ASSUME NEW b, DOMAIN b = BoxFields, NEW q, NEW a \in Took([b EXCEPT !.sync = TRUE], q)
  PROVE  DOMAIN a = BoxFields /\ Alike(a, b)
<1> DEFINE c == [b EXCEPT !.sync = TRUE]
<1>1. DOMAIN c = BoxFields /\ Alike(c, b)
  BY DEF Alike, BoxFields
<1> HIDE DEF c
<1>2. a = c \/ a = [c EXCEPT !.pending = NoWrite]
  BY DEF Took, c
<1> QED
  BY <1>1, <1>2 DEF Alike, BoxFields

LEMMA BoxStep ==
  ASSUME LineInv, BoxInv, Ice \/ Fault, InCall => Sent.cmd \in Commands
  PROVE  /\ InCall /\ toHost = <<>> /\ UNCHANGED <<call, got>> /\ refused \subseteq refused'
         /\ Moves(Sent, ice, ice')
         /\ HostOK(ice', refused', toHost')
<1> DEFINE q == Head(toIce)
<1>1. toIce # <<>> /\ UNCHANGED <<call, got>>
  BY DEF Ice, IceAnswers, IceDeaf, Fault
<1>2. InCall /\ toIce = <<Sent>> /\ toHost = <<>>
  BY <1>1 DEF LineInv
<1>3. q = Sent
  BY <1>2
<1>4. q.cmd \in Commands /\ DOMAIN ice = BoxFields
  BY <1>2, <1>3 DEF BoxInv
<1> HIDE DEF q
<1>5. CASE IceAnswers
  <2>1. PICK o \in Outcomes(ice, q) : /\ ice' \in Took([o.ice EXCEPT !.sync = TRUE], q)
                                      /\ toHost' = toHost \o Answer(q, o)
                                      /\ refused \subseteq refused'
    BY <1>5 DEF IceAnswers, q
  <2>2. Switches(q, ice, o.ice)
    BY <1>4, OutcomeFacts
  <2>3. DOMAIN ice' = BoxFields /\ Alike(ice', o.ice)
    BY <2>1, <2>2, TookAlike DEF Switches
  <2>4. Says(ice', refused', q, o.ack, o.bytes)
    BY <1>4, <2>3, SaysAfter
  <2>5. HostOK(ice', refused', toHost')
    BY <1>2, <2>1, <2>4, AnswerHonest
  <2>6. Moves(q, ice, ice')
    BY <2>2, <2>3 DEF Switches, Moves, Alike
  <2> QED
    BY <1>1, <1>2, <1>3, <2>1, <2>5, <2>6
<1>6. CASE IceDeaf
  <2>1. /\ toHost' = <<>> \/ toHost' = Append(<<>>, Token("error", q, FALSE, <<>>))
        /\ refused' = refused
        /\ \E s \in BOOLEAN : ice' = [ice EXCEPT !.sync = s]
    BY <1>2, <1>6, Zenon DEF IceDeaf, q
  <2>2. HostOK(ice', refused', toHost')
    <3>1. HostOK(ice', refused', <<>>)
      BY DEF HostOK
    <3>2. HostOK(ice', refused', Append(<<>>, Token("error", q, FALSE, <<>>)))
      BY OneToken
    <3> QED
      BY <2>1, <3>1, <3>2
  <2>3. Moves(q, ice, ice')
    BY <1>4, <2>1 DEF Moves, BoxFields
  <2> QED
    BY <1>1, <1>2, <1>3, <2>1, <2>2, <2>3
<1>7. CASE Fault
  <2>1. refused \subseteq refused'
    BY <1>7 DEF Fault, Faulty
  <2> DEFINE Info == Token("info", q, FALSE, <<>>)
  <2>2. \/ ice' = ice /\ toHost' = <<>> \o <<>>
        \/ \E k : k # "body" /\ ice' = ice /\ toHost' = <<>> \o <<Token(k, q, FALSE, <<>>)>>
        \/ ice' = [ice EXCEPT !.dead = TRUE] /\ toHost' = <<>> \o <<>>
        \/ \E o \in Outcomes(ice, q) :
             /\ ice' = o.ice
             /\ \/ toHost' = <<>> \o <<>>
                \/ toHost' = <<>> \o <<Token("ok", q, TRUE, <<>>)>>
                \/ toHost' = <<>> \o (<<Info>> \o Tail(Answer(q, o)))
        \/ /\ ice' = ice \/ ice' = [ice EXCEPT !.pending = NoWrite] \/ ice' = [ice EXCEPT !.pending = ice.pending]
           /\ toHost' = <<>> \o Answer(q, Refuses(ice))
           /\ q.cmd = "F" => "F" \in refused'
    BY <1>2, <1>7 DEF Fault, Faulty, q, Overlooked
  <2>3. <<>> \o <<>> = <<>>
    OBVIOUS
  <2>4. ASSUME ice' = ice
        PROVE  Moves(q, ice, ice')
    BY <1>4, <2>4 DEF Moves
  <2>5. CASE ice' = ice /\ toHost' = <<>> \o <<>>
    BY <1>1, <1>2, <1>3, <2>1, <2>3, <2>4, <2>5 DEF HostOK
  <2>6. ASSUME NEW k, k # "body", ice' = ice, toHost' = <<>> \o <<Token(k, q, FALSE, <<>>)>>
        PROVE  Moves(q, ice, ice') /\ HostOK(ice', refused', toHost')
    BY <2>4, <2>6, OneToken
  <2>7. CASE ice' = [ice EXCEPT !.dead = TRUE] /\ toHost' = <<>> \o <<>>
    <3>1. Moves(q, ice, ice')
      BY <1>4, <2>7 DEF Moves, BoxFields
    <3> QED
      BY <1>1, <1>2, <1>3, <2>1, <2>3, <2>7, <3>1 DEF HostOK
  <2>8. ASSUME NEW o \in Outcomes(ice, q), ice' = o.ice,
               \/ toHost' = <<>> \o <<>>
               \/ toHost' = <<>> \o <<Token("ok", q, TRUE, <<>>)>>
               \/ toHost' = <<>> \o (<<Info>> \o Tail(Answer(q, o)))
        PROVE  Moves(q, ice, ice') /\ HostOK(ice', refused', toHost')
    <3>1. Switches(q, ice, o.ice)
      BY <1>4, OutcomeFacts
    <3>2. Moves(q, ice, ice')
      BY <2>8, <3>1 DEF Switches, Moves
    <3>3. Says(ice', refused', q, o.ack, o.bytes)
      BY <1>4, <2>8, SaysAfter DEF Alike
    <3>4. CASE toHost' = <<>> \o <<>>
      BY <2>3, <3>2, <3>4 DEF HostOK
    <3>5. CASE toHost' = <<>> \o <<Token("ok", q, TRUE, <<>>)>>
      BY <3>2, <3>5, OneToken
    <3>6. CASE toHost' = <<>> \o (<<Info>> \o Tail(Answer(q, o)))
      BY <3>2, <3>3, <3>6, AnswerHonest
    <3> QED
      BY <2>8, <3>4, <3>5, <3>6
  <2>9. ASSUME ice' = ice \/ ice' = [ice EXCEPT !.pending = NoWrite] \/ ice' = [ice EXCEPT !.pending = ice.pending],
               toHost' = <<>> \o Answer(q, Refuses(ice)),
               q.cmd = "F" => "F" \in refused'
        PROVE  Moves(q, ice, ice') /\ HostOK(ice', refused', toHost')
    <3>1. Moves(q, ice, ice')
      BY <1>4, <2>9 DEF Moves, BoxFields
    <3>2. Says(ice', refused', q, FALSE, <<>>)
      BY <2>9 DEF Says
    <3>3. Refuses(ice).ack = FALSE /\ Refuses(ice).bytes = <<>>
      BY DEF Refuses, Does
    <3>4. HostOK(ice', refused', <<>> \o Answer(q, Refuses(ice)))
      BY <3>2, <3>3, AnswerHonest
    <3> QED
      BY <2>9, <3>1, <3>4
  <2> QED
    BY <1>1, <1>2, <1>3, <2>1, <2>2, <2>5, <2>6, <2>7, <2>8, <2>9
<1> QED
  BY <1>5, <1>6, <1>7 DEF Ice

-----------------------------------------------------------------------------
(* What is left of the step of main.                                       *)

GdbItem(t) ==
  \/ t.op = "cmd" /\ t.q.cmd \in Commands /\ t.then = "next"
  \/ t.op = "write"
  \/ \E r \in GdbReads : t = jtagRead(r.m, r.addr, r.n, "gdb")
Item(p, t) == IF p = "session" THEN GdbItem(t) ELSE StepItem(t)

TodoOK(p, s) ==
  /\ IsSeq(s)
  /\ p \notin StepSet \cup {"session"} => s = <<>>
  /\ \A i \in DOMAIN s : Item(p, s[i])
  /\ Closed("mode", s)
  /\ p # "resume" => Closed("run", s)
  /\ p = "session" => ~HasOff("mode", s)

TodoInv == TodoOK(main, todo)

LEMMA EmptyTodo == \A p : TodoOK(p, <<>>)
  BY EmptyFacts DEF TodoOK, Closed, HasOff

LEMMA BlockTodo ==
  ASSUME NEW p \in StepSet, NEW s, Block(s), Closed("mode", s), p # "resume" => Closed("run", s)
  PROVE  TodoOK(p, s)
<1>1. p # "session"
  BY DEF StepSet, Steps
<1> QED
  BY <1>1 DEF TodoOK, Item, Block, CallItem

LEMMA TodoTail ==
  ASSUME NEW p, NEW s, TodoOK(p, s), s # <<>>
  PROVE  TodoOK(p, Tail(s)) /\ Item(p, Head(s)) /\ p \in StepSet \cup {"session"}
<1>1. IsSeq(s) /\ IsSeq(Tail(s)) /\ Len(Tail(s)) = Len(s) - 1
  BY TailFacts DEF TodoOK
<1>2. Len(s) \in Nat /\ Len(s) >= 1 /\ DOMAIN s = 1 .. Len(s) /\ Head(s) = s[1]
      /\ DOMAIN Tail(s) = 1 .. Len(s) - 1
      /\ \A i \in 1 .. Len(s) - 1 : Tail(s)[i] = s[i + 1]
  BY <1>1, SeqFacts, TailFacts
<1>3. \A i \in 1 .. Len(s) - 1 : i + 1 \in 1 .. Len(s)
  BY <1>2
<1>4. \A i \in DOMAIN Tail(s) : Item(p, Tail(s)[i])
  BY <1>2, <1>3 DEF TodoOK
<1>5. 1 \in DOMAIN s
  BY <1>2
<1>6. Item(p, Head(s))
  BY <1>2, <1>5 DEF TodoOK
<1>7. p \in StepSet \cup {"session"}
  BY DEF TodoOK
<1>8. \A k : (Closed(k, s) => Closed(k, Tail(s))) /\ (HasOff(k, Tail(s)) => HasOff(k, s))
  BY <1>1, ClosedTail
<1> QED
  BY <1>1, <1>4, <1>6, <1>7, <1>8 DEF TodoOK

\* Calls put in front of what is left.
LEMMA TodoMore ==
  ASSUME NEW p \in StepSet \cup {"session"}, NEW s, TodoOK(p, s), NEW more, IsSeq(more),
         \A i \in DOMAIN more : Item(p, more[i]),
         Closed("mode", more), Closed("run", more), ~HasOff("mode", more)
  PROVE  TodoOK(p, more \o s)
<1> DEFINE u == more \o s
           n == Len(more)
           l == Len(s)
<1>1. /\ n \in Nat /\ l \in Nat /\ DOMAIN more = 1 .. n /\ DOMAIN s = 1 .. l
      /\ IsSeq(u) /\ DOMAIN u = 1 .. n + l
      /\ \A i \in 1 .. n : u[i] = more[i]
      /\ \A i \in 1 .. l : u[n + i] = s[i]
      /\ \A i \in 1 .. n + l : i \in 1 .. n \/ \E j \in 1 .. l : i = n + j
  <2>0. IsSeq(s)
    BY DEF TodoOK
  <2>1. IsSeq(u) /\ Len(u) = n + l
    BY <2>0, ConcatFacts
  <2> QED
    BY <2>0, <2>1, ConcatFacts, SeqFacts
<1>2. /\ Closed("mode", u)
      /\ Closed("run", s) => Closed("run", u)
      /\ ~HasOff("mode", s) => ~HasOff("mode", u)
  BY ClosedConcat, HasOffConcat DEF TodoOK
<1> HIDE DEF u, n, l
<1>3. \A i \in 1 .. n + l : Item(p, u[i])
  BY <1>1 DEF TodoOK
<1>4. TodoOK(p, u)
  BY <1>1, <1>2, <1>3 DEF TodoOK
<1> QED
  BY <1>4 DEF u

-----------------------------------------------------------------------------
(* The call under way is the first of todo.                                *)

OnCommand == {"command", "body", "resync", "hush", "hushBody", "done", "failed"}
OnSync == {"wake", "sign", "signBody", "done", "failed"}

\* The flag of the driver follows the commands it sends.
FlagOK(d, q) ==
  /\ On("mode", q) => d.assigned /\ d.programmingEnabled
  /\ Off("mode", q) => d.assigned /\ ~d.programmingEnabled

CallOf(t, d, c, answer) ==
  \/ t.op = "cmd" /\ c.q = t.q /\ FlagOK(d, c.q) /\ c.phase \in OnCommand
     /\ (c.phase = "done" => answer.want = c.q)
  \/ t.op = "read" /\ c.q = ReadRequest(t.m, t.addr, t.n, d.programmingEnabled) /\ c.phase \in OnCommand
     /\ (c.phase = "done" => answer.want = c.q)
  \/ t.op = "sync" /\ c.phase \in OnSync

CallInv ==
  /\ call.phase # "idle" => todo # <<>> /\ CallOf(Head(todo), drv, call, got)
  /\ call.phase # "done" => got = NoAnswer

RestOK(b, r, s) == s = <<>> \/ \E u : s = <<u>> /\ u.k = "body" /\ Honest(b, r, u)
AnswerInv ==
  /\ HostOK(ice, refused, toHost)
  /\ call.phase = "body" => toIce = <<>> /\ RestOK(ice, refused, toHost)
  /\ call.phase = "done" => Says(ice, refused, got.of, got.ack, got.bytes)

Fresh == \A b \in Boxes : ~b.progmode
Active == StepSet \cup {"options", "connect", "session"}
SwitchInv ==
  /\ main \in Active /\ ~HasOff("mode", todo) =>
       /\ drv.assigned \/ Fresh => ~ice.progmode
       /\ drv.assigned => ~drv.programmingEnabled
  /\ main \in StepSet \cup {"session"} /\ main # "resume" /\ ~HasOff("run", todo) =>
       ~ice.running \/ "F" \in refused

ReadInv ==
  /\ main \notin {"session", "died"} => gdb.right
  /\ GdbReadsMemory

\* The request on the line is one of the emulator's.
LEMMA KnownRequest ==
  ASSUME TodoInv, CallInv
  PROVE  InCall => Sent.cmd \in Commands
<1> SUFFICES ASSUME InCall PROVE Sent.cmd \in Commands
  OBVIOUS
<1>1. call.phase \in Phases /\ call.phase # "idle"
  BY DEF InCall, Phases
<1>2. Sent \in {Sync, Wake, Stop} \/ (call.phase \in {"command", "body"} /\ Sent = call.q)
  BY DEF Sent
<1>3. CASE Sent \in {Sync, Wake, Stop}
  <2>1. Sync.cmd \in Commands /\ Wake.cmd \in Commands /\ Stop.cmd \in Commands
    BY DEF Sync, Wake, Stop, Commands
  <2> QED
    BY <1>3, <2>1
<1>4. CASE call.phase \in {"command", "body"} /\ Sent = call.q
  <2>1. todo # <<>> /\ CallOf(Head(todo), drv, call, got)
    BY <1>1 DEF CallInv
  <2>2. Item(main, Head(todo))
    BY <2>1, TodoTail DEF TodoInv
  <2>3. CASE Head(todo).op = "cmd" /\ call.q = Head(todo).q
    <3>1. ~\E r \in GdbReads : Head(todo) = jtagRead(r.m, r.addr, r.n, "gdb")
      BY <2>3 DEF jtagRead
    <3>2. Head(todo).q.cmd \in Commands
      BY <2>2, <2>3, <3>1 DEF Item, GdbItem, StepItem
    <3> QED
      BY <1>4, <2>3, <3>2
  <2>4. CASE call.q = ReadRequest(Head(todo).m, Head(todo).addr, Head(todo).n, drv.programmingEnabled)
    BY <1>4, <2>4 DEF ReadRequest, Commands
  <2>5. ~(call.phase \in OnSync)
    BY <1>4 DEF OnSync
  <2> QED
    BY <2>1, <2>3, <2>4, <2>5 DEF CallOf
<1> QED
  BY <1>2, <1>3, <1>4

-----------------------------------------------------------------------------
(* What is made of an answer.                                              *)

More(s) == FullBlock(s) /\ ~HasOff("mode", s) /\ ~HasOff("run", s)

LEMMA MoreFacts ==
  /\ More(<<>>)
  /\ \A row : More(<<Do(setDeviceDescriptor(row))>>)
  /\ \A m, addr, bytes : More(<<jtagWrite(m, addr, bytes)>>)
<1>1. More(<<>>)
  BY NoCalls DEF More
<1>2. ASSUME NEW row PROVE More(<<Do(setDeviceDescriptor(row))>>)
  <2> DEFINE q == setDeviceDescriptor(row)
  <2>1. q.cmd = "descriptor"
    BY DEF setDeviceDescriptor
  <2> HIDE DEF q
  <2>2. Harmless(q) /\ ~Off("mode", q) /\ ~Off("run", q)
    BY <2>1 DEF Harmless, CallCommands, Commands, Off
  <2>3. More(<<Do(q)>>)
    BY <2>2, DoBlock DEF More
  <2> QED
    BY <2>3 DEF q
<1>3. ASSUME NEW m, NEW addr, NEW bytes PROVE More(<<jtagWrite(m, addr, bytes)>>)
  <2> DEFINE a == jtagWrite(m, addr, bytes)
  <2>1. a.op = "write"
    BY DEF jtagWrite
  <2>2. FullBlock(<<a>>)
    BY OtherBlock
  <2> HIDE DEF a
  <2>3. ~HasOff("mode", <<a>>) /\ ~HasOff("run", <<a>>)
    BY <2>1, SingleFacts DEF HasOff, TurnsOff
  <2> QED
    BY <2>2, <2>3 DEF More, a
<1> QED
  BY <1>1, <1>2, <1>3

\* main dies, or goes on with what is left, behind at most one more call.
Died == main' = "died" /\ todo' = <<>> /\ UNCHANGED <<drv, gdb>>
GoesOn ==
  /\ main' = main
  /\ \E more : More(more) /\ (main = "session" => more = <<>>) /\ todo' = more \o Tail(todo)
  /\ drv'.assigned = drv.assigned /\ drv'.programmingEnabled = drv.programmingEnabled

LEMMA ProceedGoes ==
  ASSUME NEW d, NEW more, Proceed(d, more), More(more), main = "session" => more = <<>>,
         d.assigned = drv.assigned, d.programmingEnabled = drv.programmingEnabled
  PROVE  GoesOn /\ gdb' = gdb
  BY DEF Proceed, Goes, GoesOn

LEMMA ThenFacts ==
  ASSUME Shape, todo # <<>>, Item(main, Head(todo)), Head(todo).op \in {"cmd", "read"}, Then(Head(todo))
  PROVE  \/ Died
         \/ GoesOn /\ (Head(todo).op = "cmd" \/ main # "session" => gdb' = gdb)
<1> DEFINE t == Head(todo)
<1>1. CASE main = "session"
  <2>1. t.then \in {"next", "gdb"} /\ (t.op = "cmd" => t.then = "next")
    BY <1>1 DEF Item, GdbItem, jtagRead
  <2> HIDE DEF t
  <2>2. CASE t.then = "next"
    <3>1. Proceed(drv, <<>>)
      BY <2>2 DEF Then, t
    <3> QED
      BY <3>1, MoreFacts, ProceedGoes
  <2>3. CASE t.then = "gdb"
    <3>1. Goes /\ drv' = drv /\ todo' = Tail(todo)
      BY <2>3, Zenon DEF Then, t
    <3>2. GoesOn
      <4>1. IsSeq(<<>>) /\ <<>> \o Tail(todo) = Tail(todo)
        BY DEF IsSeq
      <4> QED
        BY <3>1, <4>1, MoreFacts DEF GoesOn, Goes
    <3> QED
      BY <1>1, <2>1, <2>3, <3>2 DEF t
  <2> QED
    BY <2>1, <2>2, <2>3
<1>2. CASE main # "session"
  <2>1. t.then \in {"next", "rate", "device", "keep", "unlock", "ocden", "verify"}
    BY <1>2 DEF Item, StepItem
  <2> HIDE DEF t
  <2>2. ASSUME Quit("died") PROVE Died
    BY <2>2 DEF Quit, Died
  <2>3. CASE t.then \in {"next", "rate"}
    <3>1. Proceed(drv, <<>>)
      BY <2>3 DEF Then, t
    <3> QED
      BY <3>1, MoreFacts, ProceedGoes
  <2>4. CASE t.then = "device"
    <3>1. \/ Quit("died")
          \/ \E row : Proceed([drv EXCEPT !.device = row.name], <<Do(setDeviceDescriptor(row))>>)
      BY <2>4, Zenon DEF Then, t
    <3>2. ASSUME NEW row, Proceed([drv EXCEPT !.device = row.name], <<Do(setDeviceDescriptor(row))>>)
          PROVE  GoesOn /\ gdb' = gdb
      <4> DEFINE d == [drv EXCEPT !.device = row.name]
      <4>1. d.assigned = drv.assigned /\ d.programmingEnabled = drv.programmingEnabled
        BY DEF Shape
      <4> HIDE DEF d
      <4> QED
        BY <1>2, <3>2, <4>1, MoreFacts, ProceedGoes DEF d
    <3> QED
      BY <2>2, <3>1, <3>2
  <2>5. CASE t.then \in {"unlock", "ocden"}
    <3>1. \/ Quit("died") \/ Proceed(drv, <<>>)
          \/ \E m, addr, bytes : Proceed(drv, <<jtagWrite(m, addr, bytes)>>)
      <4>1. CASE t.then = "unlock"
        BY <4>1, Zenon DEF Then, t
      <4>2. CASE t.then = "ocden"
        BY <4>2, Zenon DEF Then, t
      <4> QED
        BY <2>5, <4>1, <4>2
    <3> QED
      BY <1>2, <2>2, <3>1, MoreFacts, ProceedGoes
  <2>6. CASE t.then \in {"keep", "verify"}
    <3>1. \/ Quit("died")
          \/ \E k : Proceed([drv EXCEPT !.kept = k], <<>>)
          \/ \E v : Proceed([drv EXCEPT !.verified = v], <<>>)
      <4>1. CASE t.then = "keep"
        BY <4>1, Zenon DEF Then, t
      <4>2. CASE t.then = "verify"
        BY <4>2, Zenon DEF Then, t
      <4> QED
        BY <2>6, <4>1, <4>2
    <3>2. \A k : /\ [drv EXCEPT !.kept = k].assigned = drv.assigned
                 /\ [drv EXCEPT !.kept = k].programmingEnabled = drv.programmingEnabled
      BY DEF Shape
    <3>3. \A k : /\ [drv EXCEPT !.verified = k].assigned = drv.assigned
                 /\ [drv EXCEPT !.verified = k].programmingEnabled = drv.programmingEnabled
      BY DEF Shape
    <3>4. ASSUME NEW d, Proceed(d, <<>>),
                 d.assigned = drv.assigned, d.programmingEnabled = drv.programmingEnabled
          PROVE  GoesOn /\ gdb' = gdb
      BY <3>4, MoreFacts, ProceedGoes
    <3> QED
      BY <2>2, <3>1, <3>2, <3>3, <3>4
  <2> QED
    BY <2>1, <2>3, <2>4, <2>5, <2>6
<1> QED
  BY <1>1, <1>2

\* The call that is answered is the first one of todo, and a command that is
\* checked was acknowledged.
LEMMA AnsweredFacts ==
  ASSUME Shape, TodoInv, CallInv, Answered
  PROVE  /\ todo # <<>> /\ call.phase = "done" /\ CallOf(Head(todo), drv, call, got)
         /\ Item(main, Head(todo)) /\ main \in StepSet \cup {"session"}
         /\ \/ Died
            \/ /\ GoesOn
               /\ Head(todo).op # "read" \/ main # "session" => gdb' = gdb
               /\ Head(todo).op = "cmd" /\ Checked(Head(todo).q) => got.ack
<1> DEFINE t == Head(todo)
<1>1. call.phase = "done"
  BY DEF Answered
<1>2. todo # <<>> /\ CallOf(t, drv, call, got)
  BY <1>1 DEF CallInv
<1>3. Item(main, t) /\ main \in StepSet \cup {"session"}
  BY <1>2, TodoTail DEF TodoInv
<1>4. t.op \in {"cmd", "read", "sync"}
  BY <1>2 DEF CallOf
<1> HIDE DEF t
<1>5. CASE t.op = "sync"
  <2>1. Proceed(drv, <<>>)
    BY <1>5 DEF Answered, t
  <2>2. GoesOn /\ gdb' = gdb
    BY <2>1, MoreFacts, ProceedGoes
  <2> QED
    BY <1>1, <1>2, <1>3, <1>5, <2>2 DEF t
<1>6. CASE t.op # "sync" /\ Quit("died")
  BY <1>1, <1>2, <1>3, <1>6 DEF Quit, Died, t
<1>7. CASE t.op # "sync" /\ Then(t) /\ (t.op = "cmd" /\ Checked(t.q) => got.ack)
  BY <1>1, <1>2, <1>3, <1>4, <1>7, ThenFacts DEF t
<1>8. \/ t.op = "sync" \/ Quit("died") \/ (Then(t) /\ (t.op = "cmd" /\ Checked(t.q) => got.ack))
  BY DEF Answered, t
<1> QED
  BY <1>5, <1>6, <1>7, <1>8

-----------------------------------------------------------------------------
(* The steps keep the shape of what is left.                               *)

LEMMA StepFacts ==
  /\ "init" \in StepSet /\ "session" \notin StepSet /\ "died" \notin StepSet
  /\ \A p \in {"options", "usage", "connect", "configured", "ended", "died"} : p \notin StepSet \cup {"session"}
  /\ \A p \in StepSet : p # "resume" => After(p) \in StepSet
<1>1. StepSet = {"init", "erase", "readFuses", "readLockBits", "writeFuses", "initOCD", "download",
                 "writeLockBits", "resume"}
  BY DEF StepSet, Steps
<1>2. ASSUME NEW p \in StepSet, p # "resume"
      PROVE  After(p) \in StepSet
  <2> DEFINE i == CHOOSE i \in 1 .. Len(Steps) - 1 : Steps[i] = p
  <2>1. \E j \in 1 .. Len(Steps) - 1 : Steps[j] = p
    BY <1>2 DEF StepSet, Steps
  <2>2. i \in 1 .. Len(Steps) - 1
    BY <2>1
  <2>3. Len(Steps) = 9
    BY DEF Steps
  <2>4. After(p) = Steps[i + 1]
    BY DEF After
  <2> HIDE DEF i
  <2>5. i + 1 \in 1 .. Len(Steps)
    BY <2>2, <2>3
  <2> QED
    BY <2>4, <2>5 DEF StepSet
<1> QED
  BY <1>1, <1>2

\* A write is two commands.
LEMMA TwoCommands ==
  ASSUME NEW p, NEW q, NEW r, q.cmd = "W", r.cmd = "h"
  PROVE  LET s == <<Do(q), Do(r)>>
         IN  /\ IsSeq(s) /\ \A i \in DOMAIN s : Item(p, s[i])
             /\ \A k : Closed(k, s) /\ ~HasOff(k, s)
             /\ \A t : Head(s \o t) = Do(q) /\ s \o t # <<>>
<1> DEFINE a == Do(q)
           b == Do(r)
           s == <<a, b>>
<1>1. /\ a.op = "cmd" /\ b.op = "cmd" /\ a.q = q /\ b.q = r
      /\ a.then = "next" /\ b.then = "next"
  BY DEF Do
<1>2. Item(p, a) /\ Item(p, b)
  BY <1>1 DEF Item, GdbItem, StepItem, Commands
<1>3. \A k : /\ ~TurnsOn(k, a) /\ ~TurnsOn(k, b)
             /\ ~TurnsOff(k, a) /\ ~TurnsOff(k, b)
  BY <1>1 DEF TurnsOn, TurnsOff, On, Off
<1> HIDE DEF a, b
<1>4. DOMAIN s = {1, 2} /\ s[1] = a /\ s[2] = b
  OBVIOUS
<1>5. IsSeq(s)
  <2>1. s \in Seq({a, b})
    OBVIOUS
  <2> QED
    BY <2>1, SeqIsSeq
<1>6. \A t : Head(s \o t) = a /\ s \o t # <<>>
  OBVIOUS
<1> HIDE DEF s
<1>7. \A i \in DOMAIN s : Item(p, s[i])
  BY <1>2, <1>4
<1>8. \A k : Closed(k, s) /\ ~HasOff(k, s)
  BY <1>3, <1>4 DEF Closed, HasOff
<1> QED
  BY <1>5, <1>6, <1>7, <1>8 DEF a, b, s

LEMMA InitTodo == Init => TodoInv
<1> SUFFICES ASSUME Init PROVE TodoInv
  OBVIOUS
<1>1. todo = <<>>
  BY Zenon DEF Init
<1> QED
  BY <1>1, EmptyTodo DEF TodoInv

LEMMA StartCallFacts ==
  ASSUME StartCall
  PROVE  LET t == Head(todo)
             pe == drv.programmingEnabled
         IN  /\ call.phase = "idle" /\ todo # <<>> /\ UNCHANGED <<main, gdb, ice, got, refused>>
             /\ \/ t.op = "cmd" /\ Begin(t.q) /\ drv' = Flagged(drv, t.q) /\ todo' = todo
                \/ t.op = "read" /\ Begin(ReadRequest(t.m, t.addr, t.n, pe)) /\ UNCHANGED <<drv, todo>>
                \/ /\ t.op = "write" /\ drv' = drv
                   /\ \E q, r : /\ q.cmd = "W" /\ r.cmd = "h" /\ q.space = Space(t.m, pe)
                                /\ Begin(q) /\ todo' = <<Do(q), Do(r)>> \o Tail(todo)
<1> DEFINE t == Head(todo)
           pe == drv.programmingEnabled
           w == WriteRequests(t.m, t.addr, t.bytes, pe)
<1>1. w[1].cmd = "W" /\ w[2].cmd = "h" /\ w[1].space = Space(t.m, pe)
  BY DEF WriteRequests
<1>2. call.phase = "idle" /\ todo # <<>> /\ UNCHANGED <<main, gdb>>
  BY DEF StartCall, Free
<1>3. \/ t.op = "cmd" /\ Begin(t.q) /\ drv' = Flagged(drv, t.q) /\ todo' = todo
      \/ t.op = "read" /\ Begin(ReadRequest(t.m, t.addr, t.n, pe)) /\ UNCHANGED <<drv, todo>>
      \/ t.op = "write" /\ Begin(w[1]) /\ todo' = <<Do(w[1]), Do(w[2])>> \o Tail(todo) /\ drv' = drv
  BY DEF StartCall
<1>4. UNCHANGED <<ice, got, refused>>
  BY <1>3 DEF Begin
<1> HIDE DEF t, pe, w
<1>5. ASSUME t.op = "write", Begin(w[1]), todo' = <<Do(w[1]), Do(w[2])>> \o Tail(todo), drv' = drv
      PROVE  \E q, r : /\ q.cmd = "W" /\ r.cmd = "h" /\ q.space = Space(t.m, pe)
                       /\ Begin(q) /\ todo' = <<Do(q), Do(r)>> \o Tail(todo)
  BY <1>1, <1>5
<1> QED
  BY <1>2, <1>3, <1>4, <1>5 DEF t, pe

LEMMA TodoNext == Shape /\ TodoInv /\ CallInv /\ [Next]_vars => TodoInv'
<1> SUFFICES ASSUME Shape, TodoInv, CallInv, [Next]_vars PROVE TodoInv'
  OBVIOUS
<1> USE DEF TodoInv
<1>1. ASSUME UNCHANGED <<main, todo>>
      PROVE  TodoInv'
  BY <1>1
<1>2. ASSUME NEW where, Quit(where)
      PROVE  TodoInv'
  BY <1>2, EmptyTodo DEF Quit
<1>3. CASE GetOption \/ EndOfOptions \/ ConfigureMkII
  <2>1. main \in {"options", "connect"}
    BY <1>3 DEF GetOption, EndOfOptions, ConfigureMkII
  <2>2. todo = <<>>
    BY <2>1, StepFacts DEF TodoOK
  <2>3. todo' = <<>>
    BY <1>3, <2>2, Zenon DEF GetOption, EndOfOptions, ConfigureMkII, Quit
  <2> QED
    BY <2>3, EmptyTodo
<1>4. CASE Connect
  <2>1. CASE main' = "init" /\ todo' = Calls(opts, "init")
    <3>1. TodoOK("init", Calls(opts, "init"))
      BY CallsFacts, BlockTodo, StepFacts
    <3> QED
      BY <2>1, <3>1
  <2> QED
    BY <1>2, <1>4, <2>1 DEF Connect
<1>5. CASE NextStep
  <2>1. CASE main' \in {"ended", "session"}
    <3>1. todo' = <<>>
      BY <1>5, <2>1 DEF NextStep
    <3> QED
      BY <3>1, EmptyTodo
  <2>2. CASE main' \notin {"ended", "session"}
    <3>1. main' = After(main) /\ main # "resume" /\ main \in StepSet /\ todo' = Calls(opts, main')
      BY <1>5, <2>2, Zenon DEF NextStep, StepSet
    <3>2. PICK p \in StepSet : p = main'
      BY <3>1, StepFacts
    <3>3. TodoOK(p, Calls(opts, p))
      BY CallsFacts, BlockTodo
    <3> QED
      BY <3>1, <3>2, <3>3
  <2> QED
    BY <2>1, <2>2
<1>6. CASE StartCall
  <2>1. todo # <<>> /\ main' = main /\ (\/ todo' = todo
                        \/ \E q, r : /\ q.cmd = "W" /\ r.cmd = "h"
                                     /\ todo' = <<Do(q), Do(r)>> \o Tail(todo))
    BY <1>6, StartCallFacts
  <2>2. ASSUME NEW q, NEW r, q.cmd = "W", r.cmd = "h", todo' = <<Do(q), Do(r)>> \o Tail(todo)
        PROVE  TodoInv'
    <3> DEFINE s == <<Do(q), Do(r)>>
    <3>1. TodoOK(main, Tail(todo)) /\ main \in StepSet \cup {"session"}
      BY <2>1, TodoTail
    <3>2. /\ IsSeq(s) /\ \A i \in DOMAIN s : Item(main, s[i])
          /\ \A k : Closed(k, s) /\ ~HasOff(k, s)
      BY <2>2, TwoCommands
    <3>3. todo' = s \o Tail(todo)
      BY <2>2
    <3> HIDE DEF s
    <3>4. TodoOK(main, s \o Tail(todo))
      BY <3>1, <3>2, TodoMore
    <3> QED
      BY <2>1, <3>3, <3>4
  <2> QED
    BY <1>1, <2>1, <2>2
<1>7. CASE Check
  <2>1. CASE todo' = Tail(todo) /\ main' = main /\ todo # <<>>
    BY <2>1, TodoTail
  <2> QED
    BY <1>2, <1>7, <2>1 DEF Check
<1>8. CASE Answered
  <2>1. CASE Died
    BY <2>1, EmptyTodo DEF Died
  <2>2. CASE GoesOn
    <3>1. todo # <<>> /\ main \in StepSet \cup {"session"}
      BY <1>8, AnsweredFacts
    <3>2. TodoOK(main, Tail(todo))
      BY <3>1, TodoTail
    <3>3. PICK more : More(more) /\ (main = "session" => more = <<>>) /\ todo' = more \o Tail(todo)
      BY <2>2 DEF GoesOn
    <3>4. IsSeq(more) /\ Closed("mode", more) /\ Closed("run", more) /\ ~HasOff("mode", more)
      BY <3>3 DEF More, FullBlock, RunBlock, Block
    <3>5. \A i \in DOMAIN more : Item(main, more[i])
      <4>1. CASE main = "session"
        BY <3>3, <4>1, EmptyFacts
      <4>2. CASE main # "session"
        BY <3>3, <4>2 DEF More, FullBlock, RunBlock, Block, CallItem, Item
      <4> QED
        BY <4>1, <4>2
    <3>6. TodoOK(main, more \o Tail(todo))
      BY <3>1, <3>2, <3>4, <3>5, TodoMore
    <3> QED
      BY <2>2, <3>3, <3>6 DEF GoesOn
  <2> QED
    BY <1>8, <2>1, <2>2, AnsweredFacts
<1>9. CASE Dies
  BY <1>2, <1>9 DEF Dies
<1>10. CASE GdbAccess
  <2>1. main' = "session"
    BY <1>10 DEF GdbAccess, Ready
  <2>2. \/ todo' = <<>>
        \/ \E r \in GdbReads : todo' = <<jtagRead(r.m, r.addr, r.n, "gdb")>>
        \/ \E m, addr, bytes : todo' = <<jtagWrite(m, addr, bytes)>>
        \/ todo' = <<Do(Simple("1"))>>
    BY <1>10, Zenon DEF GdbAccess
  <2>3. ASSUME NEW a, GdbItem(a), ~TurnsOn("mode", a), ~TurnsOn("run", a), ~TurnsOff("mode", a), todo' = <<a>>
        PROVE  TodoInv'
    <3>1. TodoOK("session", <<a>>)
      BY <2>3, SingleFacts DEF TodoOK, Item, Closed, HasOff
    <3> QED
      BY <2>1, <2>3, <3>1
  <2>4. CASE todo' = <<>>
    BY <2>4, EmptyTodo
  <2>5. ASSUME NEW r \in GdbReads, todo' = <<jtagRead(r.m, r.addr, r.n, "gdb")>>
        PROVE  TodoInv'
    <3> DEFINE a == jtagRead(r.m, r.addr, r.n, "gdb")
    <3>1. GdbItem(a) /\ a.op = "read"
      BY DEF GdbItem, jtagRead
    <3> HIDE DEF a
    <3>2. ~TurnsOn("mode", a) /\ ~TurnsOn("run", a) /\ ~TurnsOff("mode", a)
      BY <3>1 DEF TurnsOn, TurnsOff
    <3> QED
      BY <2>3, <2>5, <3>1, <3>2 DEF a
  <2>6. ASSUME NEW m, NEW addr, NEW bytes, todo' = <<jtagWrite(m, addr, bytes)>>
        PROVE  TodoInv'
    <3> DEFINE a == jtagWrite(m, addr, bytes)
    <3>1. GdbItem(a) /\ a.op = "write"
      BY DEF GdbItem, jtagWrite
    <3> HIDE DEF a
    <3>2. ~TurnsOn("mode", a) /\ ~TurnsOn("run", a) /\ ~TurnsOff("mode", a)
      BY <3>1 DEF TurnsOn, TurnsOff
    <3> QED
      BY <2>3, <2>6, <3>1, <3>2 DEF a
  <2>7. CASE todo' = <<Do(Simple("1"))>>
    <3> DEFINE a == Do(Simple("1"))
    <3>1. a.op = "cmd" /\ a.q.cmd = "1" /\ a.then = "next"
      BY DEF Do, Simple
    <3> HIDE DEF a
    <3>2. GdbItem(a) /\ ~TurnsOn("mode", a) /\ ~TurnsOn("run", a) /\ ~TurnsOff("mode", a)
      BY <3>1 DEF TurnsOn, TurnsOff, On, Off, GdbItem, Commands
    <3> QED
      BY <2>3, <2>7, <3>2 DEF a
  <2> QED
    BY <2>2, <2>4, <2>5, <2>6, <2>7
<1>11. ASSUME NEW b \in Breakpoints, Insert(b) \/ Remove(b)
       PROVE  TodoInv'
  BY <1>1, <1>11 DEF Insert, Remove
<1>12. CASE StartSync \/ Driver \/ Box \/ Stays \/ UNCHANGED vars
  BY <1>1, <1>12 DEF StartSync, Driver, Box, Stays, vars
<1> QED
  BY <1>3, <1>4, <1>5, <1>6, <1>7, <1>8, <1>9, <1>10, <1>11, <1>12 DEF Next, Process

-----------------------------------------------------------------------------
(* The steps keep the call that is under way.                              *)

LEMMA AgainFacts ==
  ASSUME Record(call), NEW q, NEW phase, Again(q, phase)
  PROVE  call'.q = call.q /\ call'.phase \in {phase, "failed"}
<1>1. CASE call.tries < MaxTries
  <2> DEFINE d == [call EXCEPT !.phase = phase]
             e == [d EXCEPT !.tries = call.tries + 1]
  <2>1. call' = e
    BY <1>1 DEF Again, Transmit
  <2>2. Record(d) /\ d.phase = phase /\ d.q = call.q
    BY RecordFacts
  <2> HIDE DEF d
  <2>3. Record(e) /\ e.phase = d.phase /\ e.q = d.q
    BY <2>2, RecordFacts, ZenonT(60)
  <2> QED
    BY <2>1, <2>2, <2>3
<1>2. CASE ~(call.tries < MaxTries)
  BY <1>2 DEF Again, Fail, Record
<1> QED
  BY <1>1, <1>2

LEMMA FailFacts ==
  ASSUME Record(call), Fail
  PROVE  call'.q = call.q /\ call'.phase = "failed"
  BY DEF Record, Fail

LEMMA PhaseFacts ==
  ASSUME Record(call), NEW phase, call' = [call EXCEPT !.phase = phase]
  PROVE  call'.q = call.q /\ call'.phase = phase
  BY DEF Record

LEMMA HostOnCommand ==
  ASSUME Record(call), Host, call.phase \in {"command", "body", "resync", "hush", "hushBody"}
  PROVE  /\ call'.q = call.q /\ call'.phase \in OnCommand
         /\ call'.phase = "done" => got'.want = call.q
         /\ call'.phase # "done" => got' = got
<1>1. ASSUME NEW q, NEW phase \in OnCommand \ {"done"}, Again(q, phase), UNCHANGED got
      PROVE  /\ call'.q = call.q /\ call'.phase \in OnCommand \ {"done"}
             /\ got' = got
  BY <1>1, AgainFacts DEF OnCommand
<1>2. ASSUME NEW phase \in OnCommand \ {"done"}, Await(phase), UNCHANGED got
      PROVE  /\ call'.q = call.q /\ call'.phase \in OnCommand \ {"done"}
             /\ got' = got
  BY <1>2, PhaseFacts DEF Await
<1>3. ASSUME Fail, UNCHANGED got
      PROVE  /\ call'.q = call.q /\ call'.phase \in OnCommand \ {"done"}
             /\ got' = got
  BY <1>3, FailFacts DEF OnCommand
<1>4. ASSUME NEW token, Return(token)
      PROVE  call'.q = call.q /\ call'.phase = "done" /\ got'.want = call.q
  BY <1>4, PhaseFacts DEF Return
<1>5. {"command", "body", "resync", "hush", "hushBody"} \subseteq OnCommand \ {"done"} /\ "done" \in OnCommand
  BY DEF OnCommand
<1>6. CASE Timeout
  BY <1>1, <1>3, <1>5, <1>6 DEF Timeout
<1>7. CASE FirstOk
  BY <1>1, <1>2, <1>4, <1>5, <1>7 DEF FirstOk
<1>8. CASE FirstInfo
  BY <1>1, <1>5, <1>8 DEF FirstInfo
<1>9. CASE FirstOther
  BY <1>1, <1>5, <1>9 DEF FirstOther
<1>10. CASE Body
  BY <1>1, <1>4, <1>5, <1>10 DEF Body
<1> QED
  BY <1>6, <1>7, <1>8, <1>9, <1>10 DEF Host

LEMMA AttemptFacts ==
  ASSUME NEW i, NEW tries, Attempt(i, tries)
  PROVE  call'.phase = "wake"
<1> DEFINE d == [Idle EXCEPT !.phase = "wake"]
           e == [d EXCEPT !.tries = tries]
           f == [e EXCEPT !.rate = i]
<1>1. Record(Idle)
  BY DEF Idle, Record
<1>2. Record(d) /\ d.phase = "wake"
  BY <1>1, RecordFacts, ZenonT(60)
<1>3. call' = f
  BY DEF Attempt, Transmit
<1> HIDE DEF d
<1>4. Record(e) /\ e.phase = "wake"
  BY <1>2, RecordFacts, ZenonT(60)
<1> HIDE DEF e
<1>5. Record(f) /\ f.phase = e.phase
  BY <1>4, RecordFacts
<1> QED
  BY <1>3, <1>4, <1>5

LEMMA HostOnSync ==
  ASSUME Record(call), Host, call.phase \in {"wake", "sign", "signBody"}
  PROVE  call'.phase \in OnSync /\ got' = got
<1>1. ASSUME NextAttempt
      PROVE  call'.phase \in OnSync
  BY <1>1, AttemptFacts, FailFacts DEF NextAttempt, OnSync
<1>2. ASSUME NEW q, Transmit(q, [call EXCEPT !.phase = "sign"])
      PROVE  call'.phase \in OnSync
  BY <1>2, PhaseFacts DEF Transmit, OnSync
<1>3. ASSUME NEW phase \in OnSync, call' = [call EXCEPT !.phase = phase]
      PROVE  call'.phase \in OnSync
  BY <1>3, PhaseFacts
<1>4. "signBody" \in OnSync /\ "done" \in OnSync
  BY DEF OnSync
<1>6. CASE Timeout
  BY <1>1, <1>2, <1>6 DEF Timeout
<1>7. CASE FirstOk
  BY <1>2, <1>3, <1>4, <1>7 DEF FirstOk, Await
<1>8. CASE FirstInfo
  BY <1>2, <1>3, <1>4, <1>8 DEF FirstInfo, Await
<1>9. CASE FirstOther
  BY <1>1, <1>2, <1>9 DEF FirstOther
<1>10. CASE Body
  BY <1>1, <1>3, <1>4, <1>10 DEF Body
<1> QED
  BY <1>6, <1>7, <1>8, <1>9, <1>10 DEF Host

LEMMA HostActive == Host => call.phase \in {"command", "body", "resync", "hush", "hushBody", "wake", "sign", "signBody"}
  BY DEF Host, Timeout, FirstOk, FirstInfo, FirstOther, Body

LEMMA HostLeaves == Host => UNCHANGED <<ice, refused>>
  BY DEF Host, Timeout, FirstOk, FirstInfo, FirstOther, Body

LEMMA BeginFacts ==
  ASSUME NEW q, Begin(q)
  PROVE  call'.phase = "command" /\ call'.q = q /\ got' = got /\ toHost' = <<>>
<1> DEFINE d == [Idle EXCEPT !.phase = "command"]
           e == [d EXCEPT !.q = q]
           f == [e EXCEPT !.tries = 1]
<1>1. Record(Idle)
  BY DEF Idle, Record
<1>2. Record(d) /\ d.phase = "command"
  BY <1>1, RecordFacts
<1>3. call' = f /\ got' = got /\ toHost' = <<>>
  BY DEF Begin, Transmit
<1> HIDE DEF d
<1>4. Record(e) /\ e.phase = "command" /\ e.q = q
  BY <1>2, RecordFacts, ZenonT(60)
<1> HIDE DEF e
<1>5. Record(f) /\ f.phase = e.phase /\ f.q = e.q
  BY <1>4, RecordFacts, ZenonT(40)
<1> QED
  BY <1>3, <1>4, <1>5

LEMMA InitBox == Init => BoxInv /\ CallInv /\ AnswerInv
<1> SUFFICES ASSUME Init PROVE BoxInv /\ CallInv /\ AnswerInv
  OBVIOUS
<1>1. LinkInit(Boxes)
  BY Zenon DEF Init
<1>2. ice \in Boxes /\ call = Idle /\ toHost = <<>> /\ got = NoAnswer
  BY <1>1 DEF LinkInit
<1>3. BoxInv
  BY <1>2, AvariceAssumption DEF BoxInv, BoxFields
<1>4. call.phase = "idle"
  BY <1>2 DEF Idle
<1> QED
  BY <1>2, <1>3, <1>4 DEF CallInv, AnswerInv, HostOK

LEMMA BoxNext == LineInv /\ BoxInv /\ TodoInv /\ CallInv /\ [Next]_vars => BoxInv'
<1> SUFFICES ASSUME LineInv, BoxInv, TodoInv, CallInv, [Next]_vars PROVE BoxInv'
  OBVIOUS
<1>1. ASSUME ice' = ice
      PROVE  BoxInv'
  BY <1>1 DEF BoxInv
<1>2. CASE Box
  BY <1>2, BoxStep, KnownRequest DEF Box, Moves, BoxInv
<1>3. CASE Driver
  BY <1>1, <1>3, HostLeaves DEF Driver
<1>4. CASE StartCall
  BY <1>1, <1>4, StartCallFacts
<1>5. CASE StartSync
  BY <1>1, <1>5 DEF StartSync, startJtagLink
<1>6. CASE GetOption \/ EndOfOptions \/ ConfigureMkII \/ Connect \/ NextStep \/ Check \/ Answered \/ Dies
           \/ GdbAccess \/ (\E b \in Breakpoints : Insert(b) \/ Remove(b)) \/ Stays \/ UNCHANGED vars
  BY <1>1, <1>6 DEF GetOption, EndOfOptions, ConfigureMkII, Connect, NextStep, Check, Answered, Dies,
                    GdbAccess, Insert, Remove, Stays, vars, linkVars
<1> QED
  BY <1>2, <1>3, <1>4, <1>5, <1>6 DEF Next, Process

\* Between calls nothing is under way.
LEMMA NoneKeeps ==
  ASSUME CallInv, call.phase = "idle", UNCHANGED <<call, got>>
  PROVE  CallInv'
  BY DEF CallInv

LEMMA CallNext == LineInv /\ TodoInv /\ CallInv /\ Shape /\ [Next]_vars => CallInv'
<1> SUFFICES ASSUME LineInv, TodoInv, CallInv, Shape, [Next]_vars PROVE CallInv'
  OBVIOUS
<1>0. Record(call)
  BY DEF LineInv
<1>1. ASSUME UNCHANGED <<call, got, todo, drv>>
      PROVE  CallInv'
  BY <1>1 DEF CallInv
<1>2. CASE GetOption \/ EndOfOptions \/ ConfigureMkII \/ Connect
  <2>1. main \in {"options", "connect"} /\ UNCHANGED linkVars
    BY <1>2 DEF GetOption, EndOfOptions, ConfigureMkII, Connect
  <2>2. call.phase = "idle"
    BY <2>1, StepFacts DEF TodoInv, TodoOK, CallInv
  <2> QED
    BY <2>1, <2>2, NoneKeeps DEF linkVars
<1>3. CASE NextStep \/ Check \/ GdbAccess \/ \E b \in Breakpoints : Insert(b) \/ Remove(b)
  <2>1. call.phase = "idle" /\ UNCHANGED linkVars
    BY <1>3 DEF NextStep, Check, GdbAccess, Insert, Remove, Ready, Free
  <2> QED
    BY <2>1, NoneKeeps DEF linkVars
<1>4. CASE StartCall
  <2> DEFINE t == Head(todo)
             pe == drv.programmingEnabled
  <2>1. call.phase = "idle" /\ todo # <<>> /\ got' = got
    BY <1>4, StartCallFacts
  <2>2. got' = NoAnswer
    BY <2>1 DEF CallInv
  <2>3. ASSUME NEW q, Begin(q), NEW u, u = Head(todo'), todo' # <<>>,
               \/ u.op = "cmd" /\ q = u.q /\ FlagOK(drv', q)
               \/ u.op = "read" /\ q = ReadRequest(u.m, u.addr, u.n, drv'.programmingEnabled)
        PROVE  CallInv'
    <3>1. call'.phase = "command" /\ call'.q = q
      BY <2>3, BeginFacts
    <3>2. CallOf(u, drv', call', got')
      BY <2>3, <3>1 DEF CallOf, OnCommand
    <3> QED
      BY <2>2, <2>3, <3>1, <3>2 DEF CallInv
  <2>4. CASE t.op = "cmd" /\ Begin(t.q) /\ drv' = Flagged(drv, t.q) /\ todo' = todo
    <3>1. FlagOK(drv', t.q)
      BY <2>4 DEF FlagOK, Flagged, On, Off, Shape
    <3> QED
      BY <2>1, <2>3, <2>4, <3>1
  <2>5. CASE t.op = "read" /\ Begin(ReadRequest(t.m, t.addr, t.n, pe)) /\ UNCHANGED <<drv, todo>>
    BY <2>1, <2>3, <2>5
  <2>6. ASSUME t.op = "write", drv' = drv, NEW q, NEW r, q.cmd = "W", r.cmd = "h",
               Begin(q), todo' = <<Do(q), Do(r)>> \o Tail(todo)
        PROVE  CallInv'
    <3>1. Head(todo') = Do(q) /\ todo' # <<>>
      BY <2>6, TwoCommands
    <3>2. Do(q).op = "cmd" /\ Do(q).q = q
      BY DEF Do
    <3>3. FlagOK(drv', q)
      BY <2>6 DEF FlagOK, On, Off
    <3> QED
      BY <2>3, <2>6, <3>1, <3>2, <3>3
  <2> QED
    BY <1>4, <2>4, <2>5, <2>6, StartCallFacts
<1>5. CASE StartSync
  <2>1. /\ Attempt(1, 1) /\ call.phase = "idle" /\ UNCHANGED <<got, todo, drv>>
        /\ todo # <<>> /\ Head(todo).op = "sync"
    BY <1>5 DEF StartSync, startJtagLink
  <2>2. call'.phase = "wake"
    BY <2>1, AttemptFacts
  <2> QED
    BY <2>1, <2>2 DEF CallInv, CallOf, OnSync
<1>6. CASE Answered \/ Dies
  <2>1. call'.phase = "idle" /\ got' = NoAnswer
    BY <1>6 DEF Answered, Dies, CallInv, Idle
  <2> QED
    BY <2>1 DEF CallInv
<1>7. CASE Driver
  <2>1. Host /\ UNCHANGED <<todo, drv>>
    BY <1>7 DEF Driver
  <2>2. todo # <<>> /\ CallOf(Head(todo), drv, call, got) /\ got = NoAnswer
    BY <2>1, HostActive DEF CallInv
  <2>3. CASE call.phase \in {"command", "body", "resync", "hush", "hushBody"}
    <3>1. /\ call'.q = call.q /\ call'.phase \in OnCommand
          /\ call'.phase = "done" => got'.want = call.q
          /\ call'.phase # "done" => got' = got
      BY <1>0, <2>1, <2>3, HostOnCommand
    <3>2. ~(call.phase \in OnSync)
      BY <2>3 DEF OnSync
    <3>3. CallOf(Head(todo), drv, call', got')
      BY <2>2, <3>1, <3>2 DEF CallOf
    <3> QED
      BY <2>1, <2>2, <3>1, <3>3 DEF CallInv
  <2>4. CASE call.phase \in {"wake", "sign", "signBody"}
    <3>1. call'.phase \in OnSync /\ got' = got
      BY <1>0, <2>1, <2>4, HostOnSync
    <3>2. ~(call.phase \in OnCommand)
      BY <2>4 DEF OnCommand
    <3>3. CallOf(Head(todo), drv, call', got')
      BY <2>2, <3>1, <3>2 DEF CallOf
    <3> QED
      BY <2>1, <2>2, <3>1, <3>3 DEF CallInv
  <2> QED
    BY <2>1, <2>3, <2>4, HostActive
<1>8. CASE Box
  <2>1. UNCHANGED <<call, got, todo, drv>>
    BY <1>8 DEF Box, Ice, IceAnswers, IceDeaf, Fault
  <2> QED
    BY <1>1, <2>1
<1>9. CASE Stays \/ UNCHANGED vars
  BY <1>1, <1>9 DEF Stays, vars, linkVars
<1> QED
  BY <1>2, <1>3, <1>4, <1>5, <1>6, <1>7, <1>8, <1>9 DEF Next, Process

-----------------------------------------------------------------------------
(* The steps keep the answers honest.                                      *)

LEMMA HonestTail ==
  ASSUME NEW b, NEW r, NEW s, HostOK(b, r, s), s # <<>>
  PROVE  /\ HostOK(b, r, Tail(s)) /\ RestOK(b, r, Tail(s))
         /\ Honest(b, r, Head(s))
<1>1. ASSUME NEW t, s = <<t>>, Honest(b, r, t)
      PROVE  HostOK(b, r, Tail(s)) /\ RestOK(b, r, Tail(s)) /\ Honest(b, r, Head(s))
  <2>1. Tail(s) = <<>> /\ Head(s) = t
    BY <1>1
  <2> QED
    BY <1>1, <2>1 DEF HostOK, RestOK
<1>2. ASSUME NEW t, NEW u, s = <<t, u>>, Honest(b, r, t), u.k = "body", Honest(b, r, u)
      PROVE  HostOK(b, r, Tail(s)) /\ RestOK(b, r, Tail(s)) /\ Honest(b, r, Head(s))
  <2>1. Tail(s) = <<u>> /\ Head(s) = t
    BY <1>2
  <2> QED
    BY <1>2, <2>1 DEF HostOK, RestOK
<1> QED
  BY <1>1, <1>2 DEF HostOK

LEMMA AnswerHost ==
  ASSUME LineInv, CallInv, AnswerInv, Host
  PROVE  AnswerInv'
<1>0. UNCHANGED <<ice, refused>> /\ Record(call) /\ call.phase \in Phases /\ got = NoAnswer
  BY HostLeaves, HostActive DEF LineInv, Phases, CallInv
<1>1. ASSUME toHost' = <<>>, call'.phase \notin {"body", "done"}
      PROVE  AnswerInv'
  BY <1>1 DEF AnswerInv, HostOK
<1>2. ASSUME NEW q, NEW phase, phase \notin {"body", "done"}, Again(q, phase)
      PROVE  AnswerInv'
  <2>1. toHost' = <<>>
    BY <1>2 DEF Again, Transmit, Fail
  <2> QED
    BY <1>0, <1>1, <1>2, <2>1, AgainFacts
<1>3. ASSUME NEW q, Transmit(q, [call EXCEPT !.phase = "sign"])
      PROVE  AnswerInv'
  BY <1>0, <1>1, <1>3, PhaseFacts DEF Transmit
<1>4. ASSUME Fail
      PROVE  AnswerInv'
  BY <1>0, <1>1, <1>4, FailFacts DEF Fail
<1>5. ASSUME NextAttempt
      PROVE  AnswerInv'
  <2>1. ASSUME NEW i, NEW tries, Attempt(i, tries)
        PROVE  AnswerInv'
    BY <1>1, <2>1, AttemptFacts DEF Attempt, Transmit
  <2> QED
    BY <1>4, <1>5, <2>1 DEF NextAttempt
<1>6. ASSUME toHost # <<>>
      PROVE  /\ HostOK(ice, refused, Tail(toHost)) /\ RestOK(ice, refused, Tail(toHost))
             /\ Honest(ice, refused, Head(toHost))
             /\ toIce = <<>> /\ Head(toHost).of = Sent
  BY <1>0, <1>6, HonestTail, HeadFacts DEF AnswerInv, InCall
<1>7. ASSUME NEW phase, phase # "done", toHost # <<>>, Await(phase), toHost' = Tail(toHost)
      PROVE  AnswerInv'
  BY <1>0, <1>6, <1>7, PhaseFacts DEF Await, AnswerInv
<1>8. ASSUME toHost # <<>>, toHost' = Tail(toHost), Return(Head(toHost)),
             Says(ice, refused, Head(toHost).of, Head(toHost).ack, Head(toHost).bytes)
      PROVE  AnswerInv'
  <2>1. call'.phase = "done"
    BY <1>0, <1>8, PhaseFacts DEF Return
  <2>2. got'.of = Head(toHost).of /\ got'.ack = Head(toHost).ack /\ got'.bytes = Head(toHost).bytes
    BY <1>8 DEF Return
  <2> QED
    BY <1>0, <1>6, <1>8, <2>1, <2>2 DEF AnswerInv
<1>9. CASE Timeout
  BY <1>2, <1>3, <1>4, <1>5, <1>9 DEF Timeout
<1>10. CASE FirstOk
  <2>1. toHost # <<>>
    BY <1>10 DEF FirstOk
  <2>2. CASE call.phase = "command" /\ ~HasBody(call.q) /\ Return(Head(toHost)) /\ toHost' = Tail(toHost)
    <3>1. Head(toHost).of = call.q
      BY <1>6, <2>1, <2>2 DEF Sent
    <3>2. Says(ice, refused, Head(toHost).of, Head(toHost).ack, Head(toHost).bytes)
      BY <2>2, <3>1 DEF HasBody, Says
    <3> QED
      BY <1>8, <2>1, <2>2, <3>2
  <2> QED
    BY <1>2, <1>3, <1>7, <1>10, <2>1, <2>2 DEF FirstOk
<1>11. CASE FirstInfo
  BY <1>2, <1>3, <1>7, <1>11 DEF FirstInfo
<1>12. CASE FirstOther
  BY <1>2, <1>3, <1>5, <1>12 DEF FirstOther
<1>13. CASE Body
  <2>1. toHost # <<>>
    BY <1>13 DEF Body
  <2>2. CASE call.phase = "body" /\ Return(Head(toHost)) /\ toHost' = Tail(toHost)
    <3>1. PICK u : toHost = <<u>> /\ u.k = "body" /\ Honest(ice, refused, u)
      BY <2>1, <2>2 DEF AnswerInv, RestOK
    <3>2. Head(toHost) = u
      BY <3>1
    <3>3. Says(ice, refused, Head(toHost).of, Head(toHost).ack, Head(toHost).bytes)
      BY <3>1, <3>2 DEF Honest
    <3> QED
      BY <1>8, <2>1, <2>2, <3>3
  <2>3. CASE call' = [call EXCEPT !.phase = "done"] /\ toHost' = Tail(toHost) /\ UNCHANGED <<toIce, got>>
    <3>1. call'.phase = "done"
      BY <1>0, <2>3, PhaseFacts
    <3>2. got'.of.cmd = " "
      BY <1>0, <2>3 DEF NoAnswer, Sync
    <3>3. Says(ice, refused, got'.of, got'.ack, got'.bytes)
      BY <3>2 DEF Says
    <3> QED
      BY <1>0, <1>6, <2>1, <2>3, <3>1, <3>3 DEF AnswerInv
  <2> QED
    BY <1>2, <1>5, <1>13, <2>2, <2>3 DEF Body
<1> QED
  BY <1>9, <1>10, <1>11, <1>12, <1>13 DEF Host

LEMMA AnswerNext ==
  LineInv /\ BoxInv /\ TodoInv /\ CallInv /\ AnswerInv /\ [Next]_vars => AnswerInv'
<1> SUFFICES ASSUME LineInv, BoxInv, TodoInv, CallInv, AnswerInv, [Next]_vars PROVE AnswerInv'
  OBVIOUS
<1>1. ASSUME UNCHANGED linkVars
      PROVE  AnswerInv'
  BY <1>1 DEF linkVars, AnswerInv
<1>2. CASE Driver
  BY <1>2, AnswerHost DEF Driver
<1>3. CASE Box
  <2>1. /\ InCall /\ UNCHANGED <<call, got>> /\ HostOK(ice', refused', toHost')
    BY <1>3, BoxStep, KnownRequest DEF Box
  <2>2. call.phase # "done" /\ call.phase # "body"
    <3>1. toIce # <<>>
      BY <1>3 DEF Box, Ice, IceAnswers, IceDeaf, Fault
    <3> QED
      BY <2>1, <3>1 DEF AnswerInv, InCall, Phases
  <2> QED
    BY <2>1, <2>2 DEF AnswerInv
<1>4. CASE StartCall
  <2>1. \E q : Begin(q)
    BY <1>4, StartCallFacts
  <2>2. call'.phase = "command" /\ toHost' = <<>>
    BY <2>1, BeginFacts
  <2> QED
    BY <2>2 DEF AnswerInv, HostOK
<1>5. CASE StartSync
  <2>1. Attempt(1, 1)
    BY <1>5 DEF StartSync, startJtagLink
  <2>2. call'.phase = "wake" /\ toHost' = <<>>
    BY <2>1, AttemptFacts DEF Attempt, Transmit
  <2> QED
    BY <2>2 DEF AnswerInv, HostOK
<1>6. CASE Answered \/ Dies
  <2>1. call'.phase = "idle" /\ UNCHANGED <<ice, refused>> /\ UNCHANGED toIce
        /\ (toHost' = toHost \/ toHost' = <<>>)
    BY <1>6 DEF Answered, Dies, Idle
  <2> QED
    BY <2>1 DEF AnswerInv, HostOK
<1>7. CASE GetOption \/ EndOfOptions \/ ConfigureMkII \/ Connect \/ NextStep \/ Check
           \/ GdbAccess \/ (\E b \in Breakpoints : Insert(b) \/ Remove(b)) \/ Stays \/ UNCHANGED vars
  BY <1>1, <1>7 DEF GetOption, EndOfOptions, ConfigureMkII, Connect, NextStep, Check,
                    GdbAccess, Insert, Remove, Stays, vars
<1> QED
  BY <1>2, <1>3, <1>4, <1>5, <1>6, <1>7 DEF Next, Process

-----------------------------------------------------------------------------
(* The steps leave the target as main takes it to be.                      *)

\* An answer to the call at the head of todo says what it says.
LEMMA AnswerSays ==
  ASSUME LineInv, AnswerInv, call.phase = "done", CallOf(Head(todo), drv, call, got),
         Head(todo).op \in {"cmd", "read"}
  PROVE  /\ Says(ice, refused, call.q, got.ack, got.bytes)
         /\ Head(todo).op = "cmd" => call.q = Head(todo).q /\ FlagOK(drv, call.q)
         /\ Head(todo).op = "read" =>
              call.q = ReadRequest(Head(todo).m, Head(todo).addr, Head(todo).n, drv.programmingEnabled)
<1>1. got.want = call.q
  BY DEF CallOf
<1>2. got.of = call.q
  BY <1>1 DEF LineInv, AnswerOwn
<1>3. Says(ice, refused, got.of, got.ack, got.bytes)
  BY DEF AnswerInv
<1> QED
  BY <1>2, <1>3 DEF CallOf

LEMMA InitSwitch == Init => SwitchInv /\ ReadInv
<1> SUFFICES ASSUME Init PROVE SwitchInv /\ ReadInv
  OBVIOUS
<1>1. LinkInit(Boxes) /\ main = "options" /\ gdb = [accesses |-> 0, breaks |-> 0, set |-> {}, right |-> TRUE]
  BY Zenon DEF Init
<1>2. \E b \in BOOLEAN :
        drv = [programmingEnabled |-> b, assigned |-> FALSE, device |-> "", is_xmega |-> FALSE,
               bp |-> [code |-> <<>>, data |-> <<>>], kept |-> Null, verified |-> TRUE]
  BY Zenon DEF Init
<1>3. drv.assigned = FALSE /\ gdb.right = TRUE
  <2>1. \A b \in BOOLEAN :
          [programmingEnabled |-> b, assigned |-> FALSE, device |-> "", is_xmega |-> FALSE,
           bp |-> [code |-> <<>>, data |-> <<>>], kept |-> Null, verified |-> TRUE].assigned = FALSE
    OBVIOUS
  <2>2. drv.assigned = FALSE
    BY <1>2, <2>1, Zenon
  <2> QED
    BY <1>1, <2>2
<1>4. Fresh => ~ice.progmode
  BY <1>1 DEF Fresh, LinkInit
<1>5. main \notin StepSet \cup {"session"}
  BY <1>1, StepFacts
<1> QED
  BY <1>3, <1>4, <1>5 DEF SwitchInv, ReadInv, GdbReadsMemory

\* A call that turns something on is followed by one that turns it off.
LEMMA OnIsClosed ==
  ASSUME TodoInv, CallInv, InCall, NEW k \in {"mode", "run"}, On(k, Sent), k = "run" => main # "resume"
  PROVE  HasOff(k, todo)
<1>1. call.phase \in Phases /\ call.phase # "idle"
  BY DEF InCall, Phases
<1>2. todo # <<>> /\ CallOf(Head(todo), drv, call, got) /\ Item(main, Head(todo))
  BY <1>1, TodoTail DEF CallInv, TodoInv
<1>3. Sync.cmd = " " /\ Wake.cmd = "SE" /\ Stop.cmd = "S"
  BY DEF Sync, Wake, Stop
<1>4. ~On(k, Sync) /\ ~On(k, Wake) /\ ~On(k, Stop)
  BY <1>3 DEF On
<1>5. call.phase \in {"command", "body"} /\ Sent = call.q
  BY <1>4 DEF Sent
<1>6. Head(todo).op = "cmd" /\ call.q = Head(todo).q
  <2>1. ~On(k, ReadRequest(Head(todo).m, Head(todo).addr, Head(todo).n, drv.programmingEnabled))
    BY DEF On, ReadRequest
  <2>2. call.phase \notin OnSync
    BY <1>5 DEF OnSync
  <2> QED
    BY <1>2, <1>5, <2>1, <2>2 DEF CallOf
<1>7. TurnsOn(k, Head(todo))
  BY <1>5, <1>6 DEF TurnsOn
<1>8. Closed(k, todo) /\ IsSeq(todo)
  BY DEF TodoInv, TodoOK
<1> QED
  BY <1>2, <1>7, <1>8, ClosedTail

LEMMA OffFacts ==
  ASSUME TodoInv, NEW k
  PROVE  /\ todo # <<>> => (HasOff(k, todo) <=> TurnsOff(k, Head(todo)) \/ HasOff(k, Tail(todo)))
         /\ todo = <<>> => ~HasOff(k, todo)
         /\ IsSeq(todo)
  BY ClosedTail, EmptyFacts DEF TodoInv, TodoOK, HasOff

SwitchFacts(p, s, d, b, r) ==
  /\ p \in Active /\ ~HasOff("mode", s) =>
       /\ d.assigned \/ Fresh => ~b.progmode
       /\ d.assigned => ~d.programmingEnabled
  /\ p \in StepSet \cup {"session"} /\ p # "resume" /\ ~HasOff("run", s) =>
       ~b.running \/ "F" \in r

LEMMA SwitchIs ==
  /\ SwitchInv <=> SwitchFacts(main, todo, drv, ice, refused)
  /\ SwitchInv' <=> SwitchFacts(main', todo', drv', ice', refused')
  BY DEF SwitchInv, SwitchFacts, Fresh

LEMMA SwitchDone ==
  ASSUME Shape, LineInv, TodoInv, CallInv, AnswerInv, SwitchInv, Answered
  PROVE  SwitchInv'
<1> DEFINE t == Head(todo)
<1>1. /\ todo # <<>> /\ call.phase = "done" /\ CallOf(t, drv, call, got)
      /\ main \in StepSet \cup {"session"} /\ UNCHANGED <<ice, refused>>
  BY AnsweredFacts DEF Answered
<1>2. CASE Died
  <2>1. main' \notin Active /\ main' \notin StepSet \cup {"session"}
    BY <1>2, StepFacts DEF Died, Active
  <2> QED
    BY <2>1, SwitchIs DEF SwitchFacts
<1>3. CASE GoesOn /\ (t.op = "cmd" /\ Checked(t.q) => got.ack)
  <2>1. PICK more : More(more) /\ todo' = more \o Tail(todo)
    BY <1>3 DEF GoesOn
  <2>2. IsSeq(more) /\ IsSeq(Tail(todo)) /\ ~HasOff("mode", more) /\ ~HasOff("run", more)
    BY <1>1, <2>1, TailFacts DEF More, FullBlock, RunBlock, Block, TodoInv, TodoOK
  <2>3. /\ HasOff("mode", todo') <=> HasOff("mode", Tail(todo))
        /\ HasOff("run", todo') <=> HasOff("run", Tail(todo))
    BY <2>1, <2>2, HasOffConcat
  <2>4. /\ HasOff("mode", todo) <=> TurnsOff("mode", t) \/ HasOff("mode", todo')
        /\ HasOff("run", todo) <=> TurnsOff("run", t) \/ HasOff("run", todo')
    BY <1>1, <2>3, OffFacts
  <2>5. main' = main /\ drv'.assigned = drv.assigned /\ drv'.programmingEnabled = drv.programmingEnabled
    BY <1>3 DEF GoesOn
  <2>6. ASSUME TurnsOff("mode", t)
        PROVE  ~ice.progmode /\ drv.assigned /\ ~drv.programmingEnabled
    <3>1. t.op = "cmd" /\ Off("mode", t.q) /\ t.q.cmd = "a4"
      BY <2>6 DEF TurnsOff, Off
    <3>2. Says(ice, refused, t.q, got.ack, got.bytes) /\ FlagOK(drv, t.q)
      BY <1>1, <3>1, AnswerSays
    <3>3. got.ack
      BY <1>3, <3>1 DEF Checked
    <3> QED
      BY <3>1, <3>2, <3>3 DEF Says, FlagOK
  <2>7. ASSUME TurnsOff("run", t)
        PROVE  ~ice.running \/ "F" \in refused
    <3>1. t.op = "cmd" /\ t.q.cmd = "F"
      BY <2>7 DEF TurnsOff, Off
    <3>2. Says(ice, refused, t.q, got.ack, got.bytes)
      BY <1>1, <3>1, AnswerSays
    <3> QED
      BY <3>1, <3>2 DEF Says
  <2> HIDE DEF t
  <2>8. SwitchFacts(main', todo', drv', ice', refused')
    BY <1>1, <2>4, <2>5, <2>6, <2>7, SwitchIs DEF SwitchFacts
  <2> QED
    BY <2>8, SwitchIs
<1> QED
  BY <1>2, <1>3, AnsweredFacts

LEMMA SwitchNext ==
  Shape /\ LineInv /\ BoxInv /\ TodoInv /\ CallInv /\ AnswerInv /\ SwitchInv /\ [Next]_vars => SwitchInv'
<1> SUFFICES ASSUME Shape, LineInv, BoxInv, TodoInv, CallInv, AnswerInv, SwitchInv, [Next]_vars
             PROVE  SwitchInv'
  OBVIOUS
<1>1. SwitchFacts(main, todo, drv, ice, refused)
  BY SwitchIs
<1>2. ASSUME UNCHANGED <<main, todo, ice, refused>>,
             drv'.assigned = drv.assigned, drv'.programmingEnabled = drv.programmingEnabled
      PROVE  SwitchInv'
  BY <1>1, <1>2, SwitchIs DEF SwitchFacts
<1>3. ASSUME main' \notin Active
      PROVE  SwitchInv'
  BY <1>3, SwitchIs DEF SwitchFacts, Active
<1>4. "usage" \notin Active /\ "died" \notin Active /\ "configured" \notin Active /\ "ended" \notin Active
  BY StepFacts DEF Active
<1>5. CASE GetOption \/ EndOfOptions
  <2>1. main \in {"options"} /\ UNCHANGED linkVars
    BY <1>5 DEF GetOption, EndOfOptions
  <2>2. CASE Quit("usage")
    BY <1>3, <1>4, <2>2 DEF Quit
  <2>3. CASE ~Quit("usage")
    <3>1. UNCHANGED <<todo, ice, refused>> /\ main' \in {"options", "connect"}
      BY <1>5, <2>1, <2>3 DEF GetOption, EndOfOptions, linkVars
    <3>2. drv'.assigned = drv.assigned /\ drv'.programmingEnabled = drv.programmingEnabled
      BY <1>5, <2>3 DEF GetOption, EndOfOptions, Shape
    <3>3. main' \notin StepSet \cup {"session"} /\ main \in Active
      BY <2>1, <3>1, StepFacts DEF Active
    <3> QED
      BY <1>1, <3>1, <3>2, <3>3, SwitchIs DEF SwitchFacts
  <2> QED
    BY <2>2, <2>3
<1>6. CASE ConfigureMkII
  <2>1. main' = "configured" \/ main' = "died"
    BY <1>6 DEF ConfigureMkII, Quit
  <2> QED
    BY <1>3, <1>4, <2>1
<1>7. CASE Connect
  <2>1. CASE Quit("died")
    BY <1>3, <1>4, <2>1 DEF Quit
  <2>2. CASE main' = "init" /\ todo' = Calls(opts, "init") /\ UNCHANGED drv
    <3>1. main = "connect" /\ UNCHANGED <<ice, refused>>
      BY <1>7 DEF Connect, linkVars
    <3>2. main \in Active /\ main \notin StepSet \cup {"session"}
      BY <3>1, StepFacts DEF Active
    <3>3. ~HasOff("mode", todo)
      BY <3>2, OffFacts DEF TodoInv, TodoOK
    <3>4. HasOff("run", todo')
      BY <2>2, CallsFacts, StepFacts
    <3> QED
      BY <1>1, <2>2, <3>1, <3>2, <3>3, <3>4, SwitchIs DEF SwitchFacts
  <2> QED
    BY <1>7, <2>1, <2>2 DEF Connect
<1>8. CASE NextStep
  <2>1. main \in StepSet /\ todo = <<>> /\ UNCHANGED <<ice, refused>>
    BY <1>8 DEF NextStep, StepSet, linkVars
  <2>2. main = "resume" => main' = "ended"
    BY <1>8 DEF NextStep
  <2>3. drv'.assigned = drv.assigned /\ drv'.programmingEnabled = drv.programmingEnabled
    BY <1>8 DEF NextStep, Shape
  <2>4. ~HasOff("mode", todo) /\ ~HasOff("run", todo) /\ main \in Active
    BY <2>1, OffFacts DEF Active
  <2>5. CASE main = "resume"
    BY <1>3, <1>4, <2>2, <2>5
  <2>6. CASE main # "resume"
    BY <1>1, <2>1, <2>3, <2>4, <2>6, SwitchIs DEF SwitchFacts
  <2> QED
    BY <2>5, <2>6
<1>9. CASE StartCall
  <2> DEFINE t == Head(todo)
  <2>1. todo # <<>> /\ UNCHANGED <<main, ice, refused>> /\ IsSeq(todo)
    BY <1>9, StartCallFacts, OffFacts
  <2>2. CASE t.op = "cmd" /\ drv' = Flagged(drv, t.q) /\ todo' = todo
    <3>1. CASE t.q.cmd \notin {"a3", "a4"}
      BY <1>2, <2>1, <2>2, <3>1 DEF Flagged
    <3>2. CASE t.q.cmd \in {"a3", "a4"}
      <4>1. TurnsOn("mode", t) \/ TurnsOff("mode", t)
        BY <2>2, <3>2 DEF TurnsOn, TurnsOff, On, Off
      <4>2. HasOff("mode", todo)
        BY <2>1, <4>1, ClosedTail DEF TodoInv, TodoOK
      <4> QED
        BY <1>1, <2>1, <2>2, <4>2, SwitchIs DEF SwitchFacts
    <3> QED
      BY <3>1, <3>2
  <2>3. CASE t.op = "read" /\ UNCHANGED <<drv, todo>>
    BY <1>2, <2>1, <2>3
  <2>4. ASSUME t.op = "write", drv' = drv, NEW q, NEW r, q.cmd = "W", r.cmd = "h",
               todo' = <<Do(q), Do(r)>> \o Tail(todo)
        PROVE  SwitchInv'
    <3> DEFINE s == <<Do(q), Do(r)>>
    <3>1. IsSeq(s) /\ \A k : ~HasOff(k, s)
      BY <2>4, TwoCommands
    <3>2. todo' = s \o Tail(todo) /\ IsSeq(Tail(todo))
      BY <2>1, <2>4, TailFacts
    <3> HIDE DEF s
    <3>3. \A k : HasOff(k, todo') <=> HasOff(k, Tail(todo))
      BY <3>1, <3>2, HasOffConcat
    <3>4. \A k : ~TurnsOff(k, t)
      BY <2>4 DEF TurnsOff
    <3>5. \A k : HasOff(k, todo') <=> HasOff(k, todo)
      BY <2>1, <3>3, <3>4, OffFacts
    <3> QED
      BY <1>1, <2>1, <2>4, <3>5, SwitchIs DEF SwitchFacts
  <2> QED
    BY <1>9, <2>2, <2>3, <2>4, StartCallFacts
<1>10. CASE StartSync
  BY <1>2, <1>10 DEF StartSync, startJtagLink
<1>11. CASE Check
  <2>1. CASE Quit("died")
    BY <1>3, <1>4, <2>1 DEF Quit
  <2>2. CASE todo' = Tail(todo) /\ UNCHANGED <<main, drv>>
    <3>1. todo # <<>> /\ Head(todo).op = "check" /\ UNCHANGED <<ice, refused>>
      BY <1>11 DEF Check, linkVars
    <3>2. \A k : ~TurnsOff(k, Head(todo))
      BY <3>1 DEF TurnsOff
    <3>3. \A k : HasOff(k, todo') <=> HasOff(k, todo)
      BY <2>2, <3>1, <3>2, OffFacts
    <3> QED
      BY <1>1, <2>2, <3>1, <3>3, SwitchIs DEF SwitchFacts
  <2> QED
    BY <1>11, <2>1, <2>2 DEF Check
<1>12. CASE Answered
  BY <1>12, SwitchDone
<1>13. CASE Dies
  BY <1>3, <1>4, <1>13 DEF Dies, Quit
<1>14. CASE Driver
  BY <1>2, <1>14, HostLeaves DEF Driver
<1>15. CASE Box
  <2>1. /\ InCall /\ refused \subseteq refused' /\ Moves(Sent, ice, ice')
        /\ UNCHANGED <<main, todo, drv>>
    BY <1>15, BoxStep, KnownRequest DEF Box
  <2>2. ~HasOff("mode", todo) /\ ice'.progmode => ice.progmode
    BY <2>1, OnIsClosed DEF Moves
  <2>3. ~HasOff("run", todo) /\ main # "resume" /\ ice'.running => ice.running
    BY <2>1, OnIsClosed DEF Moves
  <2> QED
    BY <1>1, <2>1, <2>2, <2>3, SwitchIs DEF SwitchFacts
<1>16. CASE GdbAccess
  <2>1. main = "session" /\ todo = <<>> /\ UNCHANGED <<main, drv, ice, refused>>
    BY <1>16 DEF GdbAccess, Ready, linkVars
  <2>2. ~HasOff("mode", todo) /\ ~HasOff("run", todo)
    BY <2>1, OffFacts
  <2> QED
    BY <1>1, <2>1, <2>2, SwitchIs DEF SwitchFacts
<1>17. ASSUME NEW b \in Breakpoints, Insert(b) \/ Remove(b)
       PROVE  SwitchInv'
  <2>1. drv'.assigned = drv.assigned /\ drv'.programmingEnabled = drv.programmingEnabled
    BY <1>17 DEF Insert, Remove, Shape
  <2> QED
    BY <1>2, <1>17, <2>1 DEF Insert, Remove, linkVars
<1>18. CASE Stays \/ UNCHANGED vars
  BY <1>2, <1>18 DEF Stays, vars, linkVars
<1> QED
  BY <1>5, <1>6, <1>7, <1>8, <1>9, <1>10, <1>11, <1>12, <1>13, <1>14, <1>15, <1>16, <1>17, <1>18
  DEF Next, Process

-----------------------------------------------------------------------------
(* What GDB reads.                                                         *)

ReadsBack(b, m, addr, n, pe) ==
  LET q == ReadRequest(m, addr, n, pe)
  IN  ReadResult(m, addr, n, pe, Contents(b, q.space, q.addr, q.n))
        = [i \in 1 .. n |-> b.mem[m][addr + i - 1]]

\* Outside programming mode words of flash come with their high byte first;
\* the driver swaps the bytes; it leaves out what lies before and behind.
LEMMA ReadBack ==
  ASSUME NEW b, NEW m \in Memories, NEW addr \in Nat, NEW n \in Nat,
         NEW pe, b.progmode <=> pe
  PROVE  ReadsBack(b, m, addr, n, pe)
<1> DEFINE q == ReadRequest(m, addr, n, pe)
           result == [i \in 1 .. n |-> b.mem[m][addr + i - 1]]
<1>1. CASE m # "flash"
  <2>1. q.space = m /\ q.addr = addr /\ q.n = n
    BY <1>1 DEF ReadRequest, Space, Locations
  <2>2. m \in {"eeprom", "fuse", "lock"}
    BY <1>1 DEF Memories
  <2>3. Memory(m) = m
    BY <2>2 DEF Memory
  <2>4. Cells(m, addr, n) = [i \in 1 .. n |-> addr + i - 1]
    BY <2>2 DEF Cells
  <2> HIDE DEF q
  <2>5. Contents(b, m, addr, n) = [i \in 1 .. n |-> b.mem[m][addr + i - 1]]
    BY <1>1, <2>3, <2>4 DEF Contents
  <2> QED
    BY <1>1, <2>1, <2>5 DEF ReadResult, q, ReadsBack
<1>2. CASE m = "flash"
  <2> DEFINE a == addr \div 2
             k == addr % 2
             l == Locations(m, addr, n)
             space == IF pe THEN "prog" ELSE "run"
             c == Contents(b, space, a, l)
             s == IF pe THEN c ELSE swapBytes(c)
             u == SubSeq(s, 1 + k, n + k)
             Byte(i) == b.mem[m][2 * a + i - 1]
  <2>1. q.space = space /\ q.addr = a /\ q.n = l
    BY <1>2 DEF ReadRequest, Space
  <2>2. a \in Nat /\ k \in {0, 1} /\ addr = 2 * a + k
    OBVIOUS
  <2>3. l \in Nat /\ n + k <= 2 * l
    <3>1. CASE k = 1
      BY <1>2, <3>1 DEF Locations
    <3>2. CASE k = 0
      BY <1>2, <3>2 DEF Locations
    <3> QED
      BY <2>2, <3>1, <3>2
  <2> HIDE DEF a, k, l
  <2>4. /\ pe => c = [i \in 1 .. 2 * l |-> b.mem["flash"][2 * a + i - 1]]
        /\ ~pe => c = [i \in 1 .. 2 * l |-> b.mem["flash"][2 * a + (IF i % 2 = 1 THEN i ELSE i - 2)]]
    <3>1. Memory(space) = "flash" /\ Space("flash", b.progmode) = space
      BY DEF Memory, Space
    <3>2. ASSUME pe PROVE c = [i \in 1 .. 2 * l |-> b.mem["flash"][2 * a + i - 1]]
      <4> DEFINE d == [i \in 1 .. 2 * l |-> 2 * a + i - 1]
      <4>1. Cells(space, a, l) = d
        BY <3>2 DEF Cells
      <4>2. c = [i \in DOMAIN d |-> b.mem["flash"][d[i]]]
        BY <3>1, <4>1 DEF Contents
      <4> QED
        BY <4>2
    <3>3. ASSUME ~pe
          PROVE  c = [i \in 1 .. 2 * l |-> b.mem["flash"][2 * a + (IF i % 2 = 1 THEN i ELSE i - 2)]]
      <4> DEFINE d == [i \in 1 .. 2 * l |-> 2 * a + (IF i % 2 = 1 THEN i ELSE i - 2)]
      <4>1. Cells(space, a, l) = d
        BY <3>3 DEF Cells
      <4>2. c = [i \in DOMAIN d |-> b.mem["flash"][d[i]]]
        BY <3>1, <4>1 DEF Contents
      <4> QED
        BY <4>2
    <3> QED
      BY <3>2, <3>3
  <2> HIDE DEF space
  <2>5. DOMAIN s = 1 .. 2 * l /\ s = [i \in 1 .. 2 * l |-> s[i]]
        /\ \A i \in 1 .. 2 * l : s[i] = Byte(i)
    <3>1. DOMAIN c = 1 .. 2 * l /\ c = [i \in 1 .. 2 * l |-> c[i]]
      BY <2>4
    <3>2. DOMAIN s = 1 .. 2 * l /\ s = [i \in 1 .. 2 * l |-> s[i]]
      <4>1. CASE pe
        BY <3>1, <4>1
      <4>2. CASE ~pe
        BY <3>1, <4>2 DEF swapBytes
      <4> QED
        BY <4>1, <4>2
    <3>3. ASSUME NEW i \in 1 .. 2 * l
          PROVE  s[i] = Byte(i)
      <4>1. CASE pe
        BY <1>2, <2>4, <4>1
      <4>2. CASE ~pe
        <5>1. s[i] = IF i % 2 = 1 THEN c[i + 1] ELSE c[i - 1]
          BY <3>1, <4>2 DEF swapBytes
        <5> HIDE DEF s
        <5>2. CASE i % 2 = 1
          <6>1. i + 1 \in 1 .. 2 * l /\ (i + 1) % 2 # 1 /\ 2 * a + ((i + 1) - 2) = 2 * a + i - 1
            BY <2>2, <2>3, <5>2
          <6>2. c[i + 1] = b.mem["flash"][2 * a + ((i + 1) - 2)]
            BY <2>4, <4>2, <6>1
          <6> QED
            BY <1>2, <5>1, <5>2, <6>1, <6>2
        <5>3. CASE i % 2 # 1
          <6>1. i - 1 \in 1 .. 2 * l /\ (i - 1) % 2 = 1 /\ 2 * a + (i - 1) = 2 * a + i - 1
            BY <2>2, <2>3, <5>3
          <6>2. c[i - 1] = b.mem["flash"][2 * a + (i - 1)]
            BY <2>4, <4>2, <6>1
          <6> QED
            BY <1>2, <5>1, <5>3, <6>1, <6>2
        <5> QED
          BY <5>2, <5>3
      <4> QED
        BY <4>1, <4>2
    <3> QED
      BY <3>2, <3>3
  <2> HIDE DEF c, s
  <2>6. PICK S : s \in Seq(S) /\ Len(s) = 2 * l
    <3>1. IsSeq(s) /\ Len(s) = 2 * l
      BY <2>3, <2>5, MakeSeq
    <3> QED
      BY <3>1 DEF IsSeq
  <2>7. 1 + k \in 1 .. Len(s) + 1 /\ n + k \in (1 + k) - 1 .. Len(s) /\ (n + k) - (1 + k) + 1 = n
    BY <2>2, <2>3, <2>6
  <2>8. /\ u \in Seq(S) /\ Len(u) = n
        /\ \A i \in 1 .. n : u[i] = s[(1 + k) + i - 1]
    BY <2>6, <2>7, SubSeqProperties
  <2>9. \A i \in 1 .. n : u[i] = b.mem[m][addr + i - 1]
    <3> TAKE i \in 1 .. n
    <3>1. (1 + k) + i - 1 \in 1 .. 2 * l /\ 2 * a + ((1 + k) + i - 1) - 1 = addr + i - 1
      BY <2>2, <2>3
    <3> QED
      BY <2>5, <2>8, <3>1
  <2> HIDE DEF u
  <2>10. u = [i \in 1 .. n |-> u[i]]
    BY <2>8, LenProperties
  <2>11. u = result
    BY <2>9, <2>10
  <2> HIDE DEF q
  <2>12. ReadResult(m, addr, n, pe, c) = u
    BY <1>2 DEF ReadResult, s, u, k
  <2> QED
    BY <2>1, <2>11, <2>12 DEF q, c, ReadsBack
<1> QED
  BY <1>1, <1>2

LEMMA ReadNext ==
  Shape /\ LineInv /\ TodoInv /\ CallInv /\ AnswerInv /\ SwitchInv /\ ReadInv /\ [Next]_vars => ReadInv'
<1> SUFFICES ASSUME Shape, LineInv, TodoInv, CallInv, AnswerInv, SwitchInv, ReadInv, [Next]_vars
             PROVE  ReadInv'
  OBVIOUS
<1>0. /\ ReadInv <=> (main \notin {"session", "died"} => gdb.right) /\ (drv.assigned => gdb.right)
      /\ ReadInv' <=> (main' \notin {"session", "died"} => gdb'.right) /\ (drv'.assigned => gdb'.right)
  BY DEF ReadInv, GdbReadsMemory
<1>1. ASSUME gdb' = gdb, drv'.assigned => drv.assigned \/ main \notin {"session", "died"},
             main' \in {"session", "died"} \/ main \notin {"session", "died"}
      PROVE  ReadInv'
  BY <1>0, <1>1
<1>2. ASSUME NEW where, Quit(where), where = "died" \/ main \notin {"session", "died"}
      PROVE  ReadInv'
  BY <1>1, <1>2 DEF Quit
<1>3. CASE GetOption \/ EndOfOptions \/ ConfigureMkII \/ Connect
  <2>1. main \notin {"session", "died"} /\ gdb' = gdb
    BY <1>3, Zenon DEF GetOption, EndOfOptions, ConfigureMkII, Connect, Quit
  <2> QED
    BY <1>1, <2>1
<1>4. CASE NextStep
  <2>1. main \notin {"session", "died"} /\ gdb' = gdb
    BY <1>4, StepFacts, Zenon DEF NextStep, StepSet
  <2> QED
    BY <1>1, <2>1
<1>5. CASE StartCall
  <2>1. todo # <<>> /\ UNCHANGED <<main, gdb>>
    BY <1>5, StartCallFacts
  <2>2. main \in StepSet \cup {"session"} /\ Item(main, Head(todo))
    BY <2>1, TodoTail DEF TodoInv
  <2>3. CASE main # "session"
    <3>1. main \notin {"session", "died"}
      BY <2>2, <2>3, StepFacts
    <3> QED
      BY <1>1, <2>1, <3>1
  <2>4. CASE main = "session"
    <3>1. ~HasOff("mode", todo) /\ Closed("mode", todo) /\ IsSeq(todo)
      BY <2>4 DEF TodoInv, TodoOK
    <3>2. ~TurnsOn("mode", Head(todo)) /\ ~TurnsOff("mode", Head(todo))
      BY <2>1, <3>1, ClosedTail
    <3>3. drv' = drv
      BY <1>5, <3>2, StartCallFacts DEF Flagged, TurnsOn, TurnsOff, On, Off
    <3> QED
      BY <1>1, <2>1, <2>4, <3>3
  <2> QED
    BY <2>3, <2>4
<1>6. CASE Answered
  <2> DEFINE t == Head(todo)
  <2>1. /\ todo # <<>> /\ call.phase = "done" /\ CallOf(t, drv, call, got)
        /\ Item(main, t) /\ main \in StepSet \cup {"session"}
    BY <1>6, AnsweredFacts
  <2>2. CASE Died
    BY <1>1, <2>2 DEF Died
  <2>3. CASE GoesOn /\ gdb' = gdb
    <3>1. main' = main /\ drv'.assigned = drv.assigned
      BY <2>3 DEF GoesOn
    <3>2. main' \in {"session", "died"} \/ main \notin {"session", "died"}
      BY <3>1
    <3> QED
      BY <1>1, <2>3, <3>1, <3>2
  <2>4. CASE GoesOn /\ t.op = "read" /\ main = "session"
    <3>1. main' = main /\ drv'.assigned = drv.assigned
      BY <2>4 DEF GoesOn
    <3>2. PICK r \in GdbReads : t = jtagRead(r.m, r.addr, r.n, "gdb")
      BY <2>1, <2>4, Zenon DEF Item, GdbItem
    <3>3. t.then = "gdb" /\ t.m = r.m /\ t.addr = r.addr /\ t.n = r.n
      BY <3>2 DEF jtagRead
    <3>4. r.m \in Memories /\ r.addr \in Nat /\ r.n \in Nat
      BY AvariceAssumption
    <3>5. Says(ice, refused, call.q, got.ack, got.bytes)
          /\ call.q = ReadRequest(t.m, t.addr, t.n, drv.programmingEnabled)
      BY <2>1, <2>4, AnswerSays
    <3>6. gdb'.right = (ReadBytes(t) \in {Null, [i \in 1 .. t.n |-> ice.mem[t.m][t.addr + i - 1]]})
      <4>1. Then(t)
        BY <1>6, <2>4 DEF Answered
      <4> HIDE DEF t
      <4>2. gdb' = [gdb EXCEPT !.right =
                     ReadBytes(t) \in {Null, [i \in 1 .. t.n |-> ice.mem[t.m][t.addr + i - 1]]}]
        BY <3>3, <4>1, Zenon DEF Then
      <4> QED
        BY <4>2 DEF Shape
    <3> HIDE DEF t
    <3>7. ASSUME drv.assigned
          PROVE  ReadBytes(t) \in {Null, [i \in 1 .. t.n |-> ice.mem[t.m][t.addr + i - 1]]}
      <4>1. ~ice.progmode /\ ~drv.programmingEnabled
        BY <2>4, <3>7 DEF SwitchInv, Active, TodoInv, TodoOK
      <4>2. CASE ~got.ack
        BY <4>2 DEF ReadBytes
      <4>3. CASE got.ack
        <5>1. call.q.cmd = "R"
          BY <3>5 DEF ReadRequest
        <5>2. got.bytes = Contents(ice, call.q.space, call.q.addr, call.q.n)
          BY <3>5, <4>3, <5>1 DEF Says
        <5>3. ReadResult(t.m, t.addr, t.n, drv.programmingEnabled, got.bytes)
                = [i \in 1 .. t.n |-> ice.mem[t.m][t.addr + i - 1]]
          <6> DEFINE pe == drv.programmingEnabled
                     m == r.m
                     addr == r.addr
                     n == r.n
          <6>1. ~pe /\ m \in Memories /\ addr \in Nat /\ n \in Nat
            BY <3>4, <4>1
          <6>2. /\ call.q = ReadRequest(m, addr, n, pe)
                /\ t.m = m /\ t.addr = addr /\ t.n = n
            BY <3>3, <3>5
          <6> HIDE DEF pe, m, addr, n
          <6>3. ReadsBack(ice, m, addr, n, pe)
            BY <4>1, <6>1, ReadBack
          <6>4. ReadResult(m, addr, n, pe, got.bytes) = [i \in 1 .. n |-> ice.mem[m][addr + i - 1]]
            BY <5>2, <6>2, <6>3 DEF ReadsBack
          <6> QED
            BY <6>2, <6>4 DEF pe
        <5> QED
          BY <4>3, <5>3 DEF ReadBytes
      <4> QED
        BY <4>2, <4>3
    <3> QED
      BY <1>0, <2>4, <3>1, <3>6, <3>7
  <2> QED
    BY <1>6, <2>2, <2>3, <2>4, AnsweredFacts
<1>7. CASE Check
  <2>1. gdb' = gdb /\ (main' = main \/ main' = "died") /\ drv' = drv
    BY <1>7 DEF Check, Quit
  <2> QED
    BY <1>1, <2>1
<1>8. CASE Dies
  BY <1>2, <1>8 DEF Dies
<1>9. CASE GdbAccess
  <2>1. gdb'.right = TRUE
    BY <1>9 DEF GdbAccess, Shape
  <2> QED
    BY <1>0, <2>1
<1>10. ASSUME NEW b \in Breakpoints, Insert(b) \/ Remove(b)
       PROVE  ReadInv'
  <2>1. main' = main /\ gdb'.right = gdb.right /\ drv'.assigned = drv.assigned
    BY <1>10 DEF Insert, Remove, Shape
  <2> QED
    BY <1>0, <2>1
<1>11. CASE StartSync \/ Driver \/ Box \/ Stays \/ UNCHANGED vars
  <2>1. UNCHANGED <<main, gdb, drv>>
    BY <1>11 DEF StartSync, Driver, Box, Stays, vars
  <2> QED
    BY <1>1, <2>1
<1> QED
  BY <1>3, <1>4, <1>5, <1>6, <1>7, <1>8, <1>9, <1>10, <1>11 DEF Next, Process

-----------------------------------------------------------------------------
(* A download in its order: a page is read and compared behind every write *)
(* to its memory.                                                          *)

Images == {"flash", "eeprom"}
DownloadKinds == {Comparison, Filling} \cup {Telling(x) : x \in SizeItems}

\* A command is sent first that turns on programming mode.
Prepared(s) == \E i \in DOMAIN s : TurnsOn("mode", s[i]) /\ \A j \in 1 .. i : s[j].op = "cmd"

\* The rest of a download is in order for the address a of the memory m.
Follows(s, m, a) == Followed(Comparison, s) /\ Followed(Reading(m, a), s)

\* Calls that have nothing to do with a download.
PlainItem(t) ==
  \/ t.op = "cmd" /\ t.q.cmd \notin {"W", "h", "B"}
  \/ t.op = "write" /\ t.m = "lock"
  \/ t.op = "read" /\ t.then = "keep"
  \/ t.op = "check" /\ t.what # "verified"
Plain(s) == IsSeq(s) /\ \A i \in DOMAIN s : PlainItem(s[i])

LEMMA PlainFacts ==
  ASSUME NEW s, Plain(s)
  PROVE  /\ \A m \in Images : \A a : Follows(s, m, a) /\ ~Reaches(Reading(m, a), s)
         /\ \A k \in DownloadKinds : ~Reaches(k, s)
<1>1. ASSUME NEW t, PlainItem(t)
      PROVE  /\ ~IsVerify(t) /\ ~IsWhere(t) /\ ~IsWhat(t) /\ ~(t.op = "check" /\ t.what = "verified")
             /\ ~(t.op = "cmd" /\ t.q.cmd = "B")
             /\ \A m \in Images : ~Writes(t, m)
  BY <1>1 DEF PlainItem, IsVerify, IsWhere, IsWhat, Writes, Images, Memories
<1>2. \A i \in DOMAIN s : \A m \in Images : \A a :
        ~Opens(Comparison, s[i]) /\ ~Opens(Reading(m, a), s[i]) /\ ~Closes(Reading(m, a), s[i])
  BY <1>1 DEF Plain, Opens, Closes, Comparison, Reading
<1>3. \A i \in DOMAIN s : \A k \in DownloadKinds : ~Closes(k, s[i])
  BY <1>1 DEF Plain, Closes, DownloadKinds, Comparison, Filling, Telling
<1> QED
  BY <1>2, <1>3 DEF Follows, Followed, Reaches

LEMMA PlainConcat ==
  ASSUME NEW s, NEW t, Plain(s), Plain(t)
  PROVE  Plain(s \o t)
<1> DEFINE u == s \o t
           n == Len(s)
           m == Len(t)
<1>1. /\ DOMAIN s = 1 .. n /\ DOMAIN t = 1 .. m
      /\ IsSeq(u) /\ DOMAIN u = 1 .. n + m
      /\ \A i \in 1 .. n : u[i] = s[i]
      /\ \A i \in 1 .. m : u[n + i] = t[i]
      /\ \A i \in 1 .. n + m : i \in 1 .. n \/ \E j \in 1 .. m : i = n + j
  <2>1. IsSeq(s) /\ IsSeq(t)
    BY DEF Plain
  <2>2. IsSeq(u) /\ Len(u) = n + m
    BY <2>1, ConcatFacts
  <2> QED
    BY <2>1, <2>2, ConcatFacts, SeqFacts
<1> HIDE DEF u, n, m
<1>2. \A i \in 1 .. n + m : PlainItem(u[i])
  BY <1>1 DEF Plain
<1> QED
  BY <1>1, <1>2 DEF Plain, u

LEMMA PlainDo ==
  /\ \A q : q.cmd \notin {"W", "h", "B"} => Plain(<<Do(q)>>)
  /\ Plain(enableProgramming) /\ Plain(disableProgramming)
  /\ \A s : Plain(resetProgram(s, FALSE))
<1>1. \A q : q.cmd \notin {"W", "h", "B"} => Plain(<<Do(q)>>)
  <2> TAKE q
  <2>1. q.cmd \notin {"W", "h", "B"} => PlainItem(Do(q))
    BY DEF PlainItem, Do
  <2> QED
    BY <2>1, SingleFacts DEF Plain
<1>2. Simple("a3").cmd = "a3" /\ Simple("a4").cmd = "a4" /\ Simple("x").cmd = "x"
  BY DEF Simple
<1>3. \A s : resetProgram(s, FALSE) = <<Do(Simple("x"))>>
  BY DEF resetProgram
<1> HIDE DEF Do, Simple
<1> QED
  BY <1>1, <1>2, <1>3 DEF enableProgramming, disableProgramming

LEMMA FollowsConcat ==
  ASSUME NEW s, NEW t, IsSeq(s), IsSeq(t), NEW m, NEW a, Follows(s, m, a), Follows(t, m, a)
  PROVE  Follows(s \o t, m, a)
  BY FollowedConcat DEF Follows

-----------------------------------------------------------------------------
(* The pages of an image.                                                  *)

\* An address is in its page.
LEMMA PageFacts ==
  ASSUME NEW a \in Nat
  PROVE  /\ a \div PageSize \in Nat /\ Page(a) = PageSize * (a \div PageSize)
         /\ Page(a) \in Nat /\ Page(a) <= a /\ a <= Page(a) + PageSize - 1
<1>1. /\ a = PageSize * (a \div PageSize) + (a % PageSize)
      /\ a \div PageSize \in Nat /\ a % PageSize \in 0 .. PageSize - 1
  BY PageSizeFact
<1>2. Page(a) = PageSize * (a \div PageSize)
  BY <1>1, PageSizeFact DEF Page
<1>3. a % PageSize <= a
  BY PageSizeFact
<1> QED
  BY <1>1, <1>2, <1>3, PageSizeFact DEF Page

\* Each address is in one of the pages.
LEMMA PagesCover ==
  ASSUME NEW img, DOMAIN img \subseteq 0 .. MAX_IMAGE_SIZE - 1, NEW a \in DOMAIN img
  PROVE  \E i \in DOMAIN Pages(img) : a \in Pages(img)[i] .. Pages(img)[i] + PageSize - 1
<1> DEFINE T == DOMAIN img
           lo == LowestOf(T)
           hi == HighestOf(T)
           n == (Page(hi) - Page(lo)) \div PageSize
           k == a \div PageSize - lo \div PageSize
<1>1. /\ a \in Nat /\ lo \in Nat /\ hi \in Nat /\ lo <= a /\ a <= hi
  <2>1. T \subseteq 0 .. MAX_IMAGE_SIZE - 1 /\ T # {} /\ a \in T
    OBVIOUS
  <2>2. lo \in T /\ hi \in T /\ lo <= a /\ a <= hi
    BY <2>1, Ends, ImageSizeFact
  <2> QED
    BY <2>1, <2>2, ImageSizeFact
<1>2. Pages(img) = [i \in 1 .. 1 + n |-> Page(lo) + (i - 1) * PageSize]
  BY DEF Pages
<1> HIDE DEF T, lo, hi
<1>3. \A x, y \in Nat : x <= y => x \div PageSize <= y \div PageSize
  <2> SUFFICES ASSUME NEW x \in Nat, NEW y \in Nat, x <= y, x \div PageSize > y \div PageSize PROVE FALSE
    BY PageFacts
  <2>1. x \div PageSize >= y \div PageSize + 1
    BY PageFacts
  <2> DEFINE p == x \div PageSize
             q == y \div PageSize
  <2>2. p \in Nat /\ q \in Nat /\ p >= q + 1
    BY <2>1, PageFacts
  <2>3. Page(x) = PageSize * p /\ Page(y) = PageSize * q /\ Page(x) <= x /\ y <= Page(y) + PageSize - 1
        /\ Page(x) \in Nat /\ Page(y) \in Nat
    BY PageFacts
  <2> HIDE DEF p, q
  <2>4. PageSize * p >= PageSize * q + PageSize
    BY <2>2, PageSizeFact
  <2> QED
    BY <2>3, <2>4, PageSizeFact
<1>4. k \in Nat /\ Page(a) = Page(lo) + k * PageSize
  <2> DEFINE p == a \div PageSize
             q == lo \div PageSize
  <2>1. p \in Nat /\ q \in Nat /\ q <= p /\ Page(a) = PageSize * p /\ Page(lo) = PageSize * q /\ k = p - q
    BY <1>1, <1>3, PageFacts
  <2> HIDE DEF p, q, k
  <2> QED
    BY <2>1, PageSizeFact
<1>5. n = hi \div PageSize - lo \div PageSize
  <2> DEFINE p == hi \div PageSize
             q == lo \div PageSize
  <2>1. p \in Nat /\ q \in Nat /\ Page(hi) = PageSize * p /\ Page(lo) = PageSize * q
    BY <1>1, PageFacts
  <2> HIDE DEF p, q
  <2>2. Page(hi) - Page(lo) = PageSize * (p - q) /\ p - q \in Int
    BY <2>1, PageSizeFact
  <2>3. (PageSize * (p - q)) \div PageSize = p - q
    BY <2>2, PageSizeFact
  <2> QED
    BY <2>2, <2>3 DEF p, q
<1>6. n \in Int /\ k <= n
  BY <1>1, <1>3, <1>5, PageFacts
<1> HIDE DEF n, k
<1>7. 1 + k \in DOMAIN Pages(img)
  BY <1>2, <1>4, <1>6
<1>8. Pages(img)[1 + k] = Page(a)
  BY <1>2, <1>4, <1>6
<1> QED
  BY <1>1, <1>7, <1>8, PageFacts, PageSizeFact

-----------------------------------------------------------------------------
(* The calls for an image: a comparison follows the pages that are read,   *)
(* and each byte is read behind the last page that is written.             *)

LEMMA EmptyPlain == Plain(<<>>)
  BY EmptyFacts DEF Plain

LEMMA ImageFollows ==
  ASSUME NEW img, DOMAIN img \subseteq 0 .. MAX_IMAGE_SIZE - 1, NEW m \in Images, NEW program, NEW verify
  PROVE  LET s == jtag_flash_image(img, m, program, verify)
         IN  /\ IsSeq(s) /\ ~Reaches(Filling, s)
             /\ verify => \A l \in Images : \A a : (l = m => a \in DOMAIN img) =>
                            Follows(s, l, a) /\ (l = m => Reaches(Reading(l, a), s))
<1>1. CASE DOMAIN img = {}
  <2>1. jtag_flash_image(img, m, program, verify) = <<>>
    BY <1>1 DEF jtag_flash_image
  <2>2. Filling \in DownloadKinds
    BY DEF DownloadKinds
  <2> QED
    BY <1>1, <2>1, <2>2, EmptyPlain, PlainFacts, EmptyFacts
<1>2. CASE DOMAIN img # {}
  <2> DEFINE pages == Pages(img)
             used == InOrder({i \in DOMAIN pages : ~pageIsEmpty(img, m, pages[i])})
             writes == [k \in DOMAIN used |-> jtagWrite(m, pages[used[k]], PageBuffer(img, pages[used[k]]))]
             reads == [i \in DOMAIN pages |-> jtagRead(m, pages[i], PageSize, "verify")]
             c == <<check("verified", <<>>)>>
  <2>1. PICK n \in Int : DOMAIN pages = 1 .. n
    BY <1>2, PagesFacts
  <2>2. PICK k \in Nat : DOMAIN used = 1 .. k
    <3>1. {i \in DOMAIN pages : ~pageIsEmpty(img, m, pages[i])} \in SUBSET (1 .. n)
      BY <2>1
    <3> QED
      BY <3>1, InOrderFacts
  <2>3. jtag_flash_image(img, m, program, verify)
          = (IF program THEN writes ELSE <<>>) \o (IF verify THEN reads \o c ELSE <<>>)
    BY <1>2 DEF jtag_flash_image
  <2>0. \A a \in DOMAIN img : \E i \in DOMAIN pages : a \in pages[i] .. pages[i] + PageSize - 1
    BY PagesCover
  <2> HIDE DEF pages, used
  <2>4. IsSeq(writes) /\ \A i \in DOMAIN writes : writes[i].op = "write" /\ writes[i].m = m
    <3>1. DOMAIN writes = 1 .. k /\ writes = [i \in 1 .. k |-> writes[i]]
      BY <2>2
    <3>2. \A i \in DOMAIN writes : writes[i].op = "write" /\ writes[i].m = m
      BY DEF jtagWrite
    <3> HIDE DEF writes
    <3> QED
      BY <3>1, <3>2, MakeSeq
  <2>5. /\ IsSeq(reads)
        /\ DOMAIN reads = DOMAIN pages
        /\ \A i \in DOMAIN pages : IsVerify(reads[i]) /\ reads[i].m = m /\ reads[i].addr = pages[i]
    <3>1. PICK l \in Nat : 1 .. n = 1 .. l
      <4>1. CASE n \in Nat
        BY <4>1
      <4>2. CASE n \notin Nat
        <5>1. 1 .. n = 1 .. 0
          BY <4>2
        <5> QED
          BY <5>1
      <4> QED
        BY <4>1, <4>2
    <3>2. DOMAIN reads = 1 .. l /\ reads = [i \in 1 .. l |-> reads[i]]
      BY <2>1, <3>1
    <3>3. DOMAIN reads = DOMAIN pages
          /\ \A i \in DOMAIN pages : IsVerify(reads[i]) /\ reads[i].m = m /\ reads[i].addr = pages[i]
      BY DEF jtagRead, IsVerify
    <3> HIDE DEF reads
    <3> QED
      BY <3>2, <3>3, MakeSeq
  <2>6. IsSeq(c) /\ DOMAIN c = {1} /\ c[1].op = "check" /\ c[1].what = "verified"
    BY SingleFacts DEF check
  <2> HIDE DEF writes, reads, c
  <2>7. /\ \A l, a : Followed(Comparison, writes) /\ (l \in Images \ {m} => Followed(Reading(l, a), writes))
        /\ ~Reaches(Filling, writes)
    BY <2>4 DEF Followed, Reaches, Opens, Closes, IsVerify, IsWhere, IsWhat, Writes, Comparison, Reading, Filling,
                Images, Memories
  <2>8. /\ \A l, a : Followed(Reading(l, a), reads)
        /\ \A a \in DOMAIN img : Reaches(Reading(m, a), reads)
        /\ ~Reaches(Filling, reads)
    BY <2>0, <2>5 DEF Followed, Reaches, Opens, Closes, IsVerify, IsWhere, IsWhat, Writes, Reading, Filling
  <2>9. /\ Followed(Comparison, c) /\ Reaches(Comparison, c) /\ ~Reaches(Filling, c)
        /\ \A l, a : Followed(Reading(l, a), c)
    BY <2>6 DEF Followed, Reaches, Opens, Closes, IsVerify, IsWhere, IsWhat, Writes, Comparison, Reading, Filling
  <2> DEFINE r == reads \o c
  <2>10. /\ IsSeq(r) /\ Followed(Comparison, r) /\ ~Reaches(Filling, r)
         /\ \A l, a : Followed(Reading(l, a), r)
         /\ \A a \in DOMAIN img : Reaches(Reading(m, a), r)
    BY <2>5, <2>6, <2>8, <2>9, ConcatFacts, FollowedConcat, ReachesConcat
  <2>11. IsSeq(<<>>) /\ ~Reaches(Filling, <<>>) /\ \A key : Followed(key, <<>>)
    BY EmptyFacts DEF Reaches, Followed
  <2> HIDE DEF r
  <2> DEFINE w == IF program THEN writes ELSE <<>>
             v == IF verify THEN r ELSE <<>>
  <2>12. IsSeq(w) /\ IsSeq(v) /\ ~Reaches(Filling, w) /\ ~Reaches(Filling, v)
    BY <2>4, <2>7, <2>10, <2>11
  <2>13. \A l, a : Followed(Comparison, w) /\ (l \in Images \ {m} => Followed(Reading(l, a), w))
    BY <2>7, <2>11
  <2>14. verify => v = r
    OBVIOUS
  <2>15. jtag_flash_image(img, m, program, verify) = w \o v
    BY <2>3 DEF r
  <2> HIDE DEF w, v
  <2>16. IsSeq(w \o v) /\ ~Reaches(Filling, w \o v)
    BY <2>12, ConcatFacts, ReachesConcat
  <2>17. ASSUME verify, NEW l \in Images, NEW a, l = m => a \in DOMAIN img
         PROVE  Follows(w \o v, l, a) /\ (l = m => Reaches(Reading(l, a), w \o v))
    <3>1. Followed(Comparison, w \o v)
      BY <2>10, <2>12, <2>13, <2>14, <2>17, FollowedConcat
    <3>2. l = m => Reaches(Reading(l, a), v) /\ Reaches(Reading(l, a), w \o v)
      BY <2>10, <2>12, <2>14, <2>17, ReachesConcat
    <3>3. Followed(Reading(l, a), v)
      BY <2>10, <2>14, <2>17
    <3>4. Followed(Reading(l, a), w) \/ Reaches(Reading(l, a), v)
      BY <2>13, <3>2
    <3>5. Followed(Reading(l, a), w \o v)
      BY <2>12, <3>3, <3>4, FollowedConcat
    <3> QED
      BY <3>1, <3>2, <3>5 DEF Follows
  <2> QED
    BY <2>15, <2>16, <2>17
<1> QED
  BY <1>1, <1>2

-----------------------------------------------------------------------------
(* The whole download.                                                     *)

\* The sizes of the pages are sent.
LEMMA SizesFollow ==
  ASSUME NEW row
  PROVE  LET s == PageSizes(row)
         IN  /\ IsSeq(s) /\ \A i \in DOMAIN s : s[i].op = "cmd"
             /\ \A x \in SizeItems : Reaches(Telling(x), s)
             /\ ~Reaches(Filling, s) /\ \A m, a : Follows(s, m, a)
<1> DEFINE x == Do(setJtagParameter("FLASH_PAGESIZE_LOW", row.flash_page_size % 256))
           y == Do(setJtagParameter("FLASH_PAGESIZE_HIGH", row.flash_page_size \div 256))
           z == Do(setJtagParameter("EEPROM_PAGESIZE", row.eeprom_page_size))
           s == <<x, y, z>>
<1>1. /\ x.op = "cmd" /\ x.q.cmd = "B" /\ x.q.item = "FLASH_PAGESIZE_LOW"
      /\ y.op = "cmd" /\ y.q.cmd = "B" /\ y.q.item = "FLASH_PAGESIZE_HIGH"
      /\ z.op = "cmd" /\ z.q.cmd = "B" /\ z.q.item = "EEPROM_PAGESIZE"
  BY DEF Do, setJtagParameter
<1>2. PageSizes(row) = <<x, y, z>>
  BY Zenon DEF PageSizes
<1> HIDE DEF x, y, z
<1>3. DOMAIN s = {1, 2, 3} /\ s[1] = x /\ s[2] = y /\ s[3] = z
  OBVIOUS
<1>4. IsSeq(s)
  <2>1. s \in Seq({x, y, z})
    OBVIOUS
  <2> QED
    BY <2>1, SeqIsSeq
<1> HIDE DEF s
<1>5. \A i \in DOMAIN s : s[i].op = "cmd" /\ s[i].q.cmd = "B"
  BY <1>1, <1>3
<1>6. \A item \in SizeItems : Reaches(Telling(item), s)
  BY <1>1, <1>3 DEF SizeItems, Reaches, Closes, Telling
<1>7. ~Reaches(Filling, s) /\ \A m, a : Follows(s, m, a)
  BY <1>5 DEF Reaches, Follows, Followed, Opens, Closes, IsVerify, IsWhere, IsWhat, Writes, Filling, Comparison, Reading
<1> QED
  BY <1>2, <1>4, <1>5, <1>6, <1>7 DEF s

LEMMA PreparedConcat ==
  ASSUME NEW s, NEW t, IsSeq(s), IsSeq(t), Prepared(s)
  PROVE  Prepared(s \o t)
<1> DEFINE u == s \o t
           n == Len(s)
           m == Len(t)
<1>1. /\ n \in Nat /\ m \in Nat /\ DOMAIN s = 1 .. n
      /\ DOMAIN u = 1 .. n + m
      /\ \A i \in 1 .. n : u[i] = s[i]
  <2>1. IsSeq(u) /\ Len(u) = n + m
    BY ConcatFacts
  <2> QED
    BY <2>1, ConcatFacts, SeqFacts
<1> HIDE DEF u, n, m
<1>2. PICK i \in 1 .. n : TurnsOn("mode", s[i]) /\ \A j \in 1 .. i : s[j].op = "cmd"
  BY <1>1 DEF Prepared
<1>3. i \in 1 .. n + m /\ \A j \in 1 .. i : j \in 1 .. n
  BY <1>1
<1>4. TurnsOn("mode", u[i]) /\ \A j \in 1 .. i : u[j].op = "cmd"
  BY <1>1, <1>2, <1>3
<1>5. Prepared(u)
  BY <1>1, <1>3, <1>4 DEF Prepared
<1> QED
  BY <1>5 DEF u

\* Commands, the last of which turns on programming mode.
LEMMA PreparedFirst ==
  ASSUME NEW s, IsSeq(s), \A i \in DOMAIN s : s[i].op = "cmd"
  PROVE  Prepared(s \o enableProgramming)
<1> DEFINE x == Do(Simple("a3"))
           t == <<x>>
           u == s \o t
           n == Len(s)
<1>1. x.op = "cmd" /\ TurnsOn("mode", x)
  BY DEF Do, Simple, TurnsOn, On
<1> HIDE DEF x
<1>2. IsSeq(t) /\ Len(t) = 1 /\ t[1] = x
  BY SingleFacts
<1> HIDE DEF t
<1>3. /\ n \in Nat /\ DOMAIN s = 1 .. n /\ DOMAIN u = 1 .. n + 1
      /\ \A i \in 1 .. n : u[i] = s[i]
      /\ u[n + 1] = x
  <2>1. IsSeq(u) /\ Len(u) = n + Len(t)
    BY <1>2, ConcatFacts
  <2>2. 1 \in 1 .. Len(t) /\ Len(u) = n + 1
    BY <1>2, <2>1
  <2> QED
    BY <1>2, <2>1, <2>2, ConcatFacts, SeqFacts
<1>4. \A j \in 1 .. n + 1 : j \in 1 .. n \/ j = n + 1
  BY <1>3
<1> HIDE DEF u, n
<1>5. n + 1 \in DOMAIN u /\ \A j \in 1 .. n + 1 : u[j].op = "cmd"
  BY <1>1, <1>3, <1>4
<1>6. Prepared(u)
  BY <1>1, <1>3, <1>5 DEF Prepared
<1> QED
  BY <1>6 DEF enableProgramming, u, t, x

LEMMA DownloadFollows ==
  ASSUME NEW s, NEW device, s.text["f"] \in DOMAIN Files
  PROVE  LET todo_ == downloadToTarget(s, device)
             f == Files[s.text["f"]]
         IN  /\ IsSeq(todo_) /\ Prepared(todo_) /\ ~Reaches(Filling, todo_)
             /\ \A x \in SizeItems : Reaches(Telling(x), todo_)
             /\ Verify(s) => \A m \in Images : \A a \in DOMAIN f[m] :
                               Follows(todo_, m, a) /\ Reaches(Reading(m, a), todo_)
<1> DEFINE f == Files[s.text["f"]]
           a == PageSizes(ByName(device))
           e == enableProgramming
           b == jtag_flash_image(f["flash"], "flash", Program(s), Verify(s))
           c == jtag_flash_image(f["eeprom"], "eeprom", Program(s), Verify(s))
           d == disableProgramming
           r == resetProgram(s, FALSE)
<1>1. downloadToTarget(s, device) = a \o e \o b \o c \o d \o r
  BY Zenon DEF downloadToTarget
<1>2. \A m \in Images : DOMAIN f[m] \subseteq 0 .. MAX_IMAGE_SIZE - 1
  BY AvariceAssumption DEF Images
<1>3. "flash" \in Images /\ "eeprom" \in Images /\ "flash" # "eeprom" /\ \A m \in Images : m = "flash" \/ m = "eeprom"
  BY DEF Images
<1>4. /\ IsSeq(a) /\ \A i \in DOMAIN a : a[i].op = "cmd"
      /\ \A x \in SizeItems : Reaches(Telling(x), a)
      /\ ~Reaches(Filling, a) /\ \A m, x : Follows(a, m, x)
  BY SizesFollow
<1>5. /\ IsSeq(b) /\ ~Reaches(Filling, b)
      /\ Verify(s) => \A m \in Images : \A x \in DOMAIN f[m] :
                        Follows(b, m, x) /\ (m = "flash" => Reaches(Reading(m, x), b))
  BY <1>2, <1>3, ImageFollows
<1>6. /\ IsSeq(c) /\ ~Reaches(Filling, c)
      /\ Verify(s) => \A m \in Images : \A x \in DOMAIN f[m] :
                        Follows(c, m, x) /\ (m = "eeprom" => Reaches(Reading(m, x), c))
  BY <1>2, <1>3, ImageFollows
<1>7. \A t : Plain(t) => /\ IsSeq(t) /\ ~Reaches(Filling, t)
                         /\ \A m \in Images : \A x : Follows(t, m, x)
  BY PlainFacts DEF Plain, DownloadKinds
<1>8. Plain(d) /\ Plain(r) /\ Plain(e) /\ Prepared(a \o e)
  BY <1>4, PlainDo, PreparedFirst
<1> HIDE DEF a, b, c, d, e, r, f
<1> DEFINE ae == a \o e
           aeb == ae \o b
           aebc == aeb \o c
           aebcd == aebc \o d
           all == aebcd \o r
           Good(t) == /\ IsSeq(t) /\ Prepared(t) /\ ~Reaches(Filling, t)
                      /\ \A x \in SizeItems : Reaches(Telling(x), t)
                      /\ Verify(s) => \A m \in Images : \A x \in DOMAIN f[m] : Follows(t, m, x)
<1>9. Good(ae)
  BY <1>4, <1>7, <1>8, ConcatFacts, ReachesConcat, FollowsConcat
<1>10. ASSUME NEW t, Good(t), NEW u, IsSeq(u), ~Reaches(Filling, u),
              Verify(s) => \A m \in Images : \A x \in DOMAIN f[m] : Follows(u, m, x)
       PROVE  Good(t \o u)
  BY <1>10, ConcatFacts, ReachesConcat, FollowsConcat, PreparedConcat
<1> HIDE DEF ae
<1>11. Good(aeb)
  BY <1>5, <1>9, <1>10
<1>12. Verify(s) => \A x \in DOMAIN f["flash"] : Reaches(Reading("flash", x), aeb)
  BY <1>3, <1>5, <1>9, ReachesConcat
<1> HIDE DEF aeb
<1>13. Good(aebc)
  BY <1>6, <1>10, <1>11
<1>14. Verify(s) => \A m \in Images : \A x \in DOMAIN f[m] : Reaches(Reading(m, x), aebc)
  BY <1>3, <1>6, <1>11, <1>12, ReachesConcat
<1> HIDE DEF aebc
<1>15. Good(aebcd)
  BY <1>7, <1>8, <1>10, <1>13
<1>16. Verify(s) => \A m \in Images : \A x \in DOMAIN f[m] : Reaches(Reading(m, x), aebcd)
  BY <1>7, <1>8, <1>13, <1>14, ReachesConcat
<1> HIDE DEF aebcd
<1>17. Good(all)
  BY <1>7, <1>8, <1>10, <1>15
<1>18. Verify(s) => \A m \in Images : \A x \in DOMAIN f[m] : Reaches(Reading(m, x), all)
  BY <1>7, <1>8, <1>15, <1>16, ReachesConcat
<1>19. downloadToTarget(s, device) = all
  BY <1>1 DEF ae, aeb, aebc, aebcd
<1> HIDE DEF all
<1> QED
  BY <1>17, <1>18, <1>19 DEF f

-----------------------------------------------------------------------------
(* What a request leaves as it is.                                         *)

\* From the state b to the state a with the request q: the mode, the memory,
\* the parameters and the part of a write that waits.
Leaves(q, b, a) ==
  /\ DOMAIN a.mem = DOMAIN b.mem /\ DOMAIN a.params = DOMAIN b.params
  /\ q.cmd \notin {"a3", "a4"} => a.progmode = b.progmode
  /\ q.cmd \notin {"h", "a5"} => a.mem = b.mem
  /\ q.cmd = "h" => \A m \in DOMAIN b.mem :
       a.mem[m] = b.mem[m] \/ (b.pending # NoWrite /\ m = Memory(b.pending.space) /\ Open(b, b.pending.space))
  /\ q.cmd \notin {"B", "descriptor"} => a.params = b.params
  /\ q.cmd = "B" => \A x \in DOMAIN b.params : x # q.item => a.params[x] = b.params[x]
  /\ a.pending \in {b.pending, NoWrite} \/ (q.cmd = "W" /\ a.pending = q)

LEMMA AlikeLeaves ==
  ASSUME NEW q, NEW b, NEW a, Alike(a, b), a.pending \in {b.pending, NoWrite} \/ (q.cmd = "W" /\ a.pending = q)
  PROVE  Leaves(q, b, a)
  BY DEF Alike, Leaves

LEMMA OutcomeLeaves ==
  ASSUME NEW b, DOMAIN b = BoxFields, NEW q, q.cmd \in Commands, NEW o \in Outcomes(b, q)
  PROVE  /\ Leaves(q, b, o.ice)
         /\ q.cmd = "W" => o.ice.pending = q
<1> USE DEF Does, Refuses, BoxFields
<1>0. ASSUME NEW a, DOMAIN a.mem = DOMAIN b.mem, DOMAIN a.params = DOMAIN b.params, a.pending = b.pending,
             q.cmd \notin {"a3", "a4"} => a.progmode = b.progmode,
             q.cmd # "a5" => a.mem = b.mem,
             q.cmd # "descriptor" => \A x \in DOMAIN b.params : (q.cmd = "B" => x # q.item) => a.params[x] = b.params[x],
             q.cmd \notin {"B", "descriptor"} => a.params = b.params
      PROVE  Leaves(q, b, a)
  BY <1>0 DEF Leaves
<1>1. CASE q.cmd = "B"
  <2> DEFINE p == [b.params EXCEPT ![q.item] = q.value]
             a == IF q.item = "BITRATE" THEN [b EXCEPT !.rate = q.value] ELSE [b EXCEPT !.params = p]
  <2>1. o = Does(a, TRUE, <<>>)
    BY <1>1 DEF Outcomes
  <2>2. DOMAIN p = DOMAIN b.params /\ \A x \in DOMAIN b.params : x # q.item => p[x] = b.params[x]
    OBVIOUS
  <2> HIDE DEF p
  <2>3. /\ a.mem = b.mem /\ a.pending = b.pending /\ a.progmode = b.progmode
        /\ a.params = b.params \/ a.params = p
    OBVIOUS
  <2> HIDE DEF a
  <2> QED
    BY <1>0, <1>1, <2>1, <2>2, <2>3
<1>2. CASE q.cmd = "descriptor"
  <2> DEFINE d == q.value.name
             l == q.value.dev_desc1.flash_pg_sz % 256
             h == q.value.dev_desc1.flash_pg_sz \div 256
             e == q.value.dev_desc1.eeprom_pg_sz
             a == [b EXCEPT !.device = d, !.params["FLASH_PAGESIZE_LOW"] = l,
                            !.params["FLASH_PAGESIZE_HIGH"] = h, !.params["EEPROM_PAGESIZE"] = e]
  <2>1. o = Does(a, TRUE, <<>>)
    BY <1>2, SMT DEF Outcomes
  <2> HIDE DEF d, l, h, e
  <2>2. a.mem = b.mem /\ a.pending = b.pending /\ a.progmode = b.progmode /\ DOMAIN a.params = DOMAIN b.params
    OBVIOUS
  <2> HIDE DEF a
  <2> QED
    BY <1>0, <1>2, <2>1, <2>2
<1>3. CASE q.cmd \in {"q", "F", "G", "a3", "a4"}
  <2>1. /\ o.ice.mem = b.mem /\ o.ice.pending = b.pending /\ o.ice.params = b.params
        /\ q.cmd \notin {"a3", "a4"} => o.ice.progmode = b.progmode
    <3>1. CASE q.cmd = "q"
      BY <3>1 DEF Outcomes
    <3>2. CASE q.cmd = "F"
      BY <3>2 DEF Outcomes
    <3>3. CASE q.cmd = "G"
      BY <3>3 DEF Outcomes
    <3>4. CASE q.cmd = "a3"
      BY <3>4 DEF Outcomes
    <3>5. CASE q.cmd = "a4"
      BY <3>5 DEF Outcomes
    <3> QED
      BY <1>3, <3>1, <3>2, <3>3, <3>4, <3>5
  <2> QED
    BY <1>0, <1>3, <2>1
<1>4. CASE q.cmd \in {"x", "S", "SE", " ", "1", "R"}
  <2>1. o.ice = b
    <3>0. Does(b, TRUE, <<>>).ice = b
      OBVIOUS
    <3>1. ASSUME o = Does(b, TRUE, <<>>) PROVE o.ice = b
      BY <3>0, <3>1, Zenon
    <3>2. CASE q.cmd = "x" \/ q.cmd = "S"
      <4>1. o = Does(b, TRUE, <<>>)
        BY <3>2 DEF Outcomes
      <4> QED
        BY <3>1, <4>1
    <3>3. CASE q.cmd = "SE" \/ q.cmd = " "
      <4>1. o = Does(b, TRUE, <<>>)
        BY <3>3 DEF Outcomes
      <4> QED
        BY <3>1, <4>1
    <3>4. CASE q.cmd = "1"
      BY <3>4 DEF Outcomes
    <3>5. CASE q.cmd = "R"
      BY <3>5 DEF Outcomes
    <3> QED
      BY <1>4, <3>2, <3>3, <3>4, <3>5
  <2> QED
    BY <1>0, <1>4, <2>1
<1>5. CASE q.cmd = "a5"
  <2> DEFINE a == [b EXCEPT !.mem = ChipErased(b.mem)]
  <2>1. o.ice = b \/ o.ice = a
    BY <1>5 DEF Outcomes
  <2>2. DOMAIN ChipErased(b.mem) = DOMAIN b.mem
    BY DEF ChipErased
  <2>3. a.mem = ChipErased(b.mem) /\ a.pending = b.pending /\ a.progmode = b.progmode /\ a.params = b.params
    OBVIOUS
  <2> HIDE DEF a
  <2> QED
    BY <1>0, <1>5, <2>1, <2>2, <2>3
<1>6. CASE q.cmd = "W"
  <2>1. o.ice = [b EXCEPT !.pending = q]
    BY <1>6 DEF Outcomes
  <2> QED
    BY <1>6, <2>1 DEF Leaves
<1>7. CASE q.cmd = "h"
  <2> DEFINE w == b.pending
             done == [b EXCEPT !.pending = NoWrite]
             put == Put(done.mem, w, q.bytes)
             wrote == [done EXCEPT !.mem = put]
  <2>1. o.ice = done \/ (w # NoWrite /\ Open(b, w.space) /\ o.ice = wrote)
    BY <1>7 DEF Outcomes
  <2>2. /\ DOMAIN done = BoxFields /\ done.mem = b.mem /\ done.params = b.params /\ done.progmode = b.progmode
        /\ done.pending = NoWrite
    OBVIOUS
  <2>3. DOMAIN put = DOMAIN b.mem /\ \A m \in DOMAIN b.mem : m # Memory(w.space) => put[m] = b.mem[m]
    BY <2>2 DEF Put
  <2> HIDE DEF put, done
  <2>4. /\ wrote.mem = put /\ wrote.params = b.params /\ wrote.progmode = b.progmode
        /\ wrote.pending = NoWrite
    BY <2>2
  <2> HIDE DEF wrote
  <2>5. CASE o.ice = done
    BY <1>7, <2>2, <2>5 DEF Leaves
  <2>6. CASE w # NoWrite /\ Open(b, w.space) /\ o.ice = wrote
    BY <1>7, <2>3, <2>4, <2>6 DEF Leaves
  <2> QED
    BY <1>7, <2>1, <2>5, <2>6
<1> QED
  BY <1>1, <1>2, <1>3, <1>4, <1>5, <1>6, <1>7 DEF Commands

\* Of the two parts of a write the first one waits if it was acknowledged.
LEMMA BoxLeaves ==
  ASSUME LineInv, BoxInv, Ice \/ Fault, InCall => Sent.cmd \in Commands
  PROVE  /\ Leaves(Sent, ice, ice')
         /\ Sent.cmd = "W" /\ toHost' # <<>> /\ Head(toHost').k = "ok" => ice'.pending = Sent
<1> DEFINE q == Head(toIce)
<1>1. toIce # <<>>
  BY DEF Ice, IceAnswers, IceDeaf, Fault
<1>2. InCall /\ toIce = <<Sent>> /\ toHost = <<>>
  BY <1>1 DEF LineInv
<1>3. q = Sent
  BY <1>2
<1>4. q.cmd \in Commands /\ DOMAIN ice = BoxFields
  BY <1>2, <1>3 DEF BoxInv
<1> HIDE DEF q
<1>5. CASE IceAnswers
  <2>1. PICK o \in Outcomes(ice, q) : ice' \in Took([o.ice EXCEPT !.sync = TRUE], q)
    BY <1>5 DEF IceAnswers, q
  <2> DEFINE b == o.ice
             c == [b EXCEPT !.sync = TRUE]
  <2>2. DOMAIN b = BoxFields /\ Leaves(q, ice, b) /\ (q.cmd = "W" => b.pending = q)
    BY <1>4, OutcomeFacts, OutcomeLeaves DEF Switches
  <2> HIDE DEF b
  <2>3. DOMAIN ice' = BoxFields /\ Alike(ice', b)
    BY <2>1, <2>2, TookAlike DEF b
  <2>4. c.pending = b.pending /\ DOMAIN c = BoxFields
    BY <2>2 DEF BoxFields
  <2>5. ice'.pending = b.pending \/ (q.cmd # "W" /\ ice'.pending = NoWrite)
    <3> HIDE DEF c
    <3>1. ice' = c \/ (q.cmd # "W" /\ ice' = [c EXCEPT !.pending = NoWrite])
      BY <2>1 DEF Took, c, b
    <3> QED
      BY <2>4, <3>1 DEF BoxFields
  <2>6. Leaves(q, ice, ice')
    BY <2>2, <2>3, <2>5 DEF Leaves, Alike
  <2> QED
    BY <1>3, <2>2, <2>5, <2>6
<1>6. CASE IceDeaf
  <2>1. /\ toHost' = <<>> \/ toHost' = Append(<<>>, Token("error", q, FALSE, <<>>))
        /\ \E s \in BOOLEAN : ice' = [ice EXCEPT !.sync = s]
    BY <1>2, <1>6, Zenon DEF IceDeaf, q
  <2>2. Alike(ice', ice) /\ ice'.pending = ice.pending
    BY <1>4, <2>1 DEF Alike, BoxFields
  <2>3. toHost' # <<>> => Head(toHost').k # "ok"
    BY <2>1 DEF Token
  <2> QED
    BY <1>3, <2>2, <2>3, AlikeLeaves
<1>7. CASE Fault
  <2> DEFINE Info == Token("info", q, FALSE, <<>>)
             OK == Token("ok", q, TRUE, <<>>)
  <2>1. \/ ice' = ice /\ toHost' = <<>> \o <<>>
        \/ \E k : k # "ok" /\ ice' = ice /\ toHost' = <<>> \o <<Token(k, q, FALSE, <<>>)>>
        \/ ice' = [ice EXCEPT !.dead = TRUE] /\ toHost' = <<>> \o <<>>
        \/ \E o \in Outcomes(ice, q) :
             /\ ice' = o.ice
             /\ \/ toHost' = <<>> \o <<>>
                \/ HasBody(q) /\ toHost' = <<>> \o <<OK>>
                \/ toHost' = <<>> \o (<<Info>> \o Tail(Answer(q, o)))
        \/ /\ HasBody(q)
           /\ ice' = ice \/ ice' = [ice EXCEPT !.pending = NoWrite] \/ ice' = [ice EXCEPT !.pending = ice.pending]
    BY <1>2, <1>7 DEF Fault, Faulty, q
  <2>2. <<>> \o <<>> = <<>> /\ (HasBody(q) => q.cmd # "W")
    <3>1. <<>> \o <<>> = <<>>
      OBVIOUS
    <3>2. HasBody(q) => q.cmd # "W"
      BY DEF HasBody
    <3> QED
      BY <3>1, <3>2
  <2>3. CASE ice' = ice /\ toHost' = <<>> \o <<>>
    BY <1>3, <2>2, <2>3, AlikeLeaves DEF Alike
  <2>4. ASSUME NEW k, k # "ok", ice' = ice, toHost' = <<>> \o <<Token(k, q, FALSE, <<>>)>>
        PROVE  Leaves(q, ice, ice') /\ Head(toHost').k # "ok"
    <3>1. Leaves(q, ice, ice')
      BY <2>4, AlikeLeaves DEF Alike
    <3> DEFINE t == Token(k, q, FALSE, <<>>)
    <3>2. t.k = k
      BY DEF Token
    <3>3. toHost' = <<>> \o <<t>>
      BY <2>4
    <3> HIDE DEF t
    <3>4. Head(toHost') = t
      BY <3>3
    <3> QED
      BY <2>4, <3>1, <3>2, <3>4
  <2>5. CASE ice' = [ice EXCEPT !.dead = TRUE] /\ toHost' = <<>> \o <<>>
    <3>1. Alike(ice', ice) /\ ice'.pending = ice.pending
      BY <1>4, <2>5 DEF Alike, BoxFields
    <3> QED
      BY <1>3, <2>2, <2>5, <3>1, AlikeLeaves
  <2>6. ASSUME NEW o \in Outcomes(ice, q), ice' = o.ice,
               \/ toHost' = <<>> \o <<>>
               \/ HasBody(q) /\ toHost' = <<>> \o <<OK>>
               \/ toHost' = <<>> \o (<<Info>> \o Tail(Answer(q, o)))
        PROVE  Leaves(q, ice, ice') /\ (q.cmd = "W" => ice'.pending = q)
    BY <1>4, <2>6, OutcomeLeaves
  <2>7. ASSUME ice' = ice \/ ice' = [ice EXCEPT !.pending = NoWrite] \/ ice' = [ice EXCEPT !.pending = ice.pending]
        PROVE  Leaves(q, ice, ice')
    <3>1. Alike(ice', ice) /\ ice'.pending \in {ice.pending, NoWrite}
      BY <1>4, <2>7 DEF Alike, BoxFields
    <3> QED
      BY <3>1, AlikeLeaves
  <2> QED
    BY <1>3, <2>1, <2>2, <2>3, <2>4, <2>5, <2>6, <2>7
<1> QED
  BY <1>5, <1>6, <1>7 DEF Ice

-----------------------------------------------------------------------------
(* The parts of the emulator, and the part of a write that waits in it.    *)

PartsInv ==
  /\ DOMAIN ice.mem = Memories /\ SizeItems \cup ResetItems \subseteq DOMAIN ice.params
  /\ gdb.accesses \in Nat

\* What waits after the first part of a write is that part.
PendInv ==
  /\ call.phase = "command" /\ call.q.cmd = "W" /\ toHost # <<>> /\ Head(toHost).k = "ok" =>
       ice.pending \in {call.q, NoWrite}
  /\ call.phase = "body" => call.q.cmd # "W"
  /\ call.phase = "done" /\ got.want.cmd = "W" => ice.pending \in {got.want, NoWrite}

LEMMA InitParts == Init => PartsInv /\ PendInv
<1> SUFFICES ASSUME Init PROVE PartsInv /\ PendInv
  OBVIOUS
<1>1. LinkInit(Boxes) /\ gdb = [accesses |-> 0, breaks |-> 0, set |-> {}, right |-> TRUE]
  BY Zenon DEF Init
<1>2. ice \in Boxes /\ call.phase = "idle"
  BY <1>1 DEF LinkInit, Idle
<1>3. gdb.accesses = 0
  BY <1>1
<1> QED
  BY <1>2, <1>3, AvariceAssumption DEF PartsInv, PendInv

\* How much GDB has done.
LEMMA AccessesNext ==
  ASSUME Shape, [Next]_vars
  PROVE  gdb'.accesses = gdb.accesses \/ (GdbAccess /\ gdb'.accesses = gdb.accesses + 1)
<1>1. ASSUME gdb' = gdb
      PROVE  gdb'.accesses = gdb.accesses
  BY <1>1
<1>2. CASE GdbAccess
  BY <1>2 DEF GdbAccess, Shape
<1>3. ASSUME NEW b \in Breakpoints, Insert(b) \/ Remove(b)
      PROVE  gdb'.accesses = gdb.accesses
  BY <1>3 DEF Insert, Remove, Shape
<1>4. CASE Answered
  <2>1. ASSUME NEW t, Then(t), t.then = "gdb"
        PROVE  gdb'.accesses = gdb.accesses
    <3>1. \E x : gdb' = [gdb EXCEPT !.right = x]
      BY <2>1, Zenon DEF Then
    <3> QED
      BY <3>1 DEF Shape
  <2>2. ASSUME NEW t, Then(t), t.then # "gdb"
        PROVE  gdb' = gdb
    <3>1. CASE t.then \in {"device", "unlock", "ocden", "keep", "verify"}
      <4>1. CASE t.then = "device"
        BY <2>2, <4>1, Zenon DEF Then, Quit, Proceed
      <4>2. CASE t.then = "unlock"
        BY <2>2, <4>2, Zenon DEF Then, Quit, Proceed
      <4>3. CASE t.then = "ocden"
        BY <2>2, <4>3, Zenon DEF Then, Quit, Proceed
      <4>4. CASE t.then = "keep"
        BY <2>2, <4>4, Zenon DEF Then, Quit, Proceed
      <4>5. CASE t.then = "verify"
        BY <2>2, <4>5, Zenon DEF Then, Quit, Proceed
      <4> QED
        BY <3>1, <4>1, <4>2, <4>3, <4>4, <4>5
    <3>2. CASE t.then \notin {"device", "unlock", "ocden", "keep", "verify"}
      <4>1. Proceed(drv, <<>>)
        BY <2>2, <3>2 DEF Then
      <4> QED
        BY <4>1 DEF Proceed
    <3> QED
      BY <3>1, <3>2
  <2>3. \/ Proceed(drv, <<>>) \/ Quit("died") \/ Then(Head(todo))
    BY <1>4 DEF Answered
  <2> QED
    BY <2>1, <2>2, <2>3 DEF Proceed, Quit
<1>5. CASE GetOption \/ EndOfOptions \/ ConfigureMkII \/ Connect
  BY <1>1, <1>5, Zenon DEF GetOption, EndOfOptions, ConfigureMkII, Connect, Quit
<1>6. CASE NextStep \/ StartCall \/ StartSync
  <2>1. gdb' = gdb
    <3>1. CASE NextStep
      BY <3>1, Zenon DEF NextStep
    <3>2. CASE StartCall
      BY <3>2, Zenon DEF StartCall
    <3>3. CASE StartSync
      BY <3>3, Zenon DEF StartSync
    <3> QED
      BY <1>6, <3>1, <3>2, <3>3
  <2> QED
    BY <1>1, <2>1
<1>7. CASE Check \/ Dies \/ Driver \/ Box \/ Stays \/ UNCHANGED vars
  <2>1. gdb' = gdb
    BY <1>7 DEF Check, Dies, Driver, Box, Stays, Quit, vars
  <2> QED
    BY <1>1, <2>1
<1> QED
  BY <1>2, <1>3, <1>4, <1>5, <1>6, <1>7 DEF Next, Process

LEMMA IceOnly == [Next]_vars => ice' = ice \/ Box
<1> SUFFICES ASSUME [Next]_vars, ~Box PROVE ice' = ice
  OBVIOUS
<1>1. CASE Driver
  BY <1>1, HostLeaves DEF Driver
<1>2. CASE StartCall
  BY <1>2, StartCallFacts
<1>3. CASE StartSync
  BY <1>3 DEF StartSync, startJtagLink
<1>4. CASE GetOption \/ EndOfOptions \/ ConfigureMkII \/ Connect \/ NextStep \/ Check \/ Answered \/ Dies
           \/ GdbAccess \/ (\E b \in Breakpoints : Insert(b) \/ Remove(b)) \/ Stays \/ UNCHANGED vars
  BY <1>4 DEF GetOption, EndOfOptions, ConfigureMkII, Connect, NextStep, Check, Answered, Dies,
              GdbAccess, Insert, Remove, Stays, vars, linkVars
<1> QED
  BY <1>1, <1>2, <1>3, <1>4 DEF Next, Process

LEMMA PartsNext == Shape /\ LineInv /\ BoxInv /\ TodoInv /\ CallInv /\ PartsInv /\ [Next]_vars => PartsInv'
<1> SUFFICES ASSUME Shape, LineInv, BoxInv, TodoInv, CallInv, PartsInv, [Next]_vars PROVE PartsInv'
  OBVIOUS
<1>1. gdb'.accesses \in Nat
  BY AccessesNext DEF PartsInv
<1>2. CASE ice' = ice
  BY <1>1, <1>2 DEF PartsInv
<1>3. CASE ice' # ice
  <2>1. Box
    BY <1>3, IceOnly
  <2>2. Leaves(Sent, ice, ice')
    BY <2>1, BoxLeaves, KnownRequest DEF Box
  <2> QED
    BY <1>1, <2>2 DEF PartsInv, Leaves
<1> QED
  BY <1>2, <1>3

\* Only a call of a command changes anything.
LEMMA SentIs ==
  ASSUME CallInv, InCall, Sent.cmd \notin {" ", "S", "SE", "R"}
  PROVE  /\ call.phase \in {"command", "body"} /\ Sent = call.q
         /\ todo # <<>> /\ Head(todo).op = "cmd" /\ Sent = Head(todo).q
<1>1. call.phase \in Phases /\ call.phase # "idle"
  BY DEF InCall, Phases
<1>2. todo # <<>> /\ CallOf(Head(todo), drv, call, got)
  BY <1>1 DEF CallInv
<1>3. Sync.cmd = " " /\ Wake.cmd = "SE" /\ Stop.cmd = "S"
  BY DEF Sync, Wake, Stop
<1>4. call.phase \in {"command", "body"} /\ Sent = call.q
  BY <1>3 DEF Sent
<1>5. call.q # ReadRequest(Head(todo).m, Head(todo).addr, Head(todo).n, drv.programmingEnabled)
  <2>1. ReadRequest(Head(todo).m, Head(todo).addr, Head(todo).n, drv.programmingEnabled).cmd = "R"
    BY DEF ReadRequest
  <2> QED
    BY <1>4, <2>1
<1>6. call.phase \notin OnSync
  BY <1>4 DEF OnSync
<1> QED
  BY <1>2, <1>4, <1>5, <1>6 DEF CallOf

LEMMA PendHost ==
  ASSUME LineInv, CallInv, PendInv, Host
  PROVE  PendInv'
<1>0. ice' = ice /\ Record(call) /\ call.phase \in Phases /\ got = NoAnswer
  BY HostLeaves, HostActive DEF LineInv, Phases, CallInv
<1>1. ASSUME toHost' = <<>>, call'.phase \notin {"body", "done"}
      PROVE  PendInv'
  BY <1>1 DEF PendInv
<1>2. ASSUME NEW q, NEW phase, phase \notin {"body", "done"}, Again(q, phase)
      PROVE  PendInv'
  <2>1. toHost' = <<>>
    BY <1>2 DEF Again, Transmit, Fail
  <2> QED
    BY <1>0, <1>1, <1>2, <2>1, AgainFacts
<1>3. ASSUME NEW q, Transmit(q, [call EXCEPT !.phase = "sign"])
      PROVE  PendInv'
  BY <1>0, <1>1, <1>3, PhaseFacts DEF Transmit
<1>4. ASSUME Fail
      PROVE  PendInv'
  BY <1>0, <1>1, <1>4, FailFacts DEF Fail
<1>5. ASSUME NextAttempt
      PROVE  PendInv'
  <2>1. ASSUME NEW i, NEW tries, Attempt(i, tries)
        PROVE  PendInv'
    BY <1>1, <2>1, AttemptFacts DEF Attempt, Transmit
  <2> QED
    BY <1>4, <1>5, <2>1 DEF NextAttempt
<1>6. ASSUME NEW phase, phase \notin {"command", "done"}, Await(phase), phase = "body" => HasBody(call.q)
      PROVE  PendInv'
  <2>1. call'.phase = phase /\ call'.q = call.q
    BY <1>0, <1>6, PhaseFacts DEF Await
  <2>2. HasBody(call.q) => call.q.cmd # "W"
    BY DEF HasBody
  <2> QED
    BY <1>6, <2>1, <2>2 DEF PendInv
<1>7. ASSUME NEW token, Return(token), call.q.cmd = "W" => ice.pending \in {call.q, NoWrite}
      PROVE  PendInv'
  <2>1. call'.phase = "done"
    BY <1>0, <1>7, PhaseFacts DEF Return
  <2>2. got'.want = call.q
    BY <1>7 DEF Return
  <2> QED
    BY <1>0, <1>7, <2>1, <2>2 DEF PendInv
<1>8. CASE Timeout
  BY <1>2, <1>3, <1>4, <1>5, <1>8 DEF Timeout
<1>9. CASE FirstOk
  <2>1. ASSUME call.phase = "command", Return(Head(toHost))
        PROVE  PendInv'
    BY <1>7, <1>9, <2>1 DEF FirstOk, PendInv
  <2> QED
    BY <1>2, <1>3, <1>6, <1>9, <2>1 DEF FirstOk
<1>10. CASE FirstInfo
  BY <1>2, <1>3, <1>6, <1>10 DEF FirstInfo
<1>11. CASE FirstOther
  BY <1>2, <1>3, <1>5, <1>11 DEF FirstOther
<1>12. CASE Body
  <2>1. CASE call.phase = "body" /\ Return(Head(toHost))
    BY <1>7, <2>1 DEF PendInv
  <2>2. CASE call' = [call EXCEPT !.phase = "done"] /\ got' = got
    <3>1. call'.phase = "done"
      BY <1>0, <2>2, PhaseFacts
    <3>2. got'.want.cmd = " "
      BY <1>0, <2>2 DEF NoAnswer, Sync
    <3> QED
      BY <3>1, <3>2 DEF PendInv
  <2> QED
    BY <1>2, <1>5, <1>12, <2>1, <2>2 DEF Body
<1> QED
  BY <1>8, <1>9, <1>10, <1>11, <1>12 DEF Host

LEMMA PendNext ==
  LineInv /\ BoxInv /\ TodoInv /\ CallInv /\ AnswerInv /\ PendInv /\ [Next]_vars => PendInv'
<1> SUFFICES ASSUME LineInv, BoxInv, TodoInv, CallInv, AnswerInv, PendInv, [Next]_vars PROVE PendInv'
  OBVIOUS
<1>1. ASSUME UNCHANGED linkVars
      PROVE  PendInv'
  BY <1>1 DEF linkVars, PendInv
<1>2. CASE Driver
  BY <1>2, PendHost DEF Driver
<1>3. CASE Box
  <2>1. InCall /\ UNCHANGED <<call, got>> /\ (Sent.cmd = "W" /\ toHost' # <<>> /\ Head(toHost').k = "ok" => ice'.pending = Sent)
    BY <1>3, BoxStep, BoxLeaves, KnownRequest DEF Box
  <2>2. call.phase # "done"
    BY <2>1 DEF InCall, Phases
  <2>3. call.phase = "command" => Sent = call.q
    BY DEF Sent
  <2> QED
    BY <2>1, <2>2, <2>3 DEF PendInv
<1>4. CASE StartCall
  <2>1. \E q : Begin(q)
    BY <1>4, StartCallFacts
  <2>2. call'.phase = "command" /\ toHost' = <<>>
    BY <2>1, BeginFacts
  <2> QED
    BY <2>2 DEF PendInv
<1>5. CASE StartSync
  <2>1. Attempt(1, 1)
    BY <1>5 DEF StartSync, startJtagLink
  <2>2. call'.phase = "wake"
    BY <2>1, AttemptFacts DEF Attempt, Transmit
  <2> QED
    BY <2>2 DEF PendInv
<1>6. CASE Answered \/ Dies
  <2>1. call'.phase = "idle"
    BY <1>6 DEF Answered, Dies, Idle
  <2> QED
    BY <2>1 DEF PendInv
<1>7. CASE GetOption \/ EndOfOptions \/ ConfigureMkII \/ Connect \/ NextStep \/ Check
           \/ GdbAccess \/ (\E b \in Breakpoints : Insert(b) \/ Remove(b)) \/ Stays \/ UNCHANGED vars
  BY <1>1, <1>7 DEF GetOption, EndOfOptions, ConfigureMkII, Connect, NextStep, Check,
                    GdbAccess, Insert, Remove, Stays, vars
<1> QED
  BY <1>2, <1>3, <1>4, <1>5, <1>6, <1>7 DEF Next, Process

-----------------------------------------------------------------------------
(* The flag of the driver and the mode of the target.                      *)

\* The mode is being changed.
Changing == call.phase # "idle" /\ Head(todo).op = "cmd" /\ Head(todo).q.cmd \in {"a3", "a4"}

\* The one is the other, as soon as the flag has been given a value.
ModeInv ==
  /\ main \in {"options", "connect"} => ~drv.assigned
  /\ main \in StepSet \cup {"session"} /\ drv.assigned => (ice.progmode <=> drv.programmingEnabled) \/ Changing

LEMMA InitMode == Init => ModeInv
<1> SUFFICES ASSUME Init PROVE ModeInv
  OBVIOUS
<1>1. main = "options"
  BY Zenon DEF Init
<1>2. \E b \in BOOLEAN :
        drv = [programmingEnabled |-> b, assigned |-> FALSE, device |-> "", is_xmega |-> FALSE,
               bp |-> [code |-> <<>>, data |-> <<>>], kept |-> Null, verified |-> TRUE]
  BY Zenon DEF Init
<1>3. ~drv.assigned
  <2>1. \A b \in BOOLEAN :
          [programmingEnabled |-> b, assigned |-> FALSE, device |-> "", is_xmega |-> FALSE,
           bp |-> [code |-> <<>>, data |-> <<>>], kept |-> Null, verified |-> TRUE].assigned = FALSE
    OBVIOUS
  <2> QED
    BY <1>2, <2>1, Zenon
<1> QED
  BY <1>1, <1>3, StepFacts DEF ModeInv

LEMMA ModeNext ==
  Shape /\ LineInv /\ BoxInv /\ TodoInv /\ CallInv /\ AnswerInv /\ ModeInv /\ [Next]_vars => ModeInv'
<1> SUFFICES ASSUME Shape, LineInv, BoxInv, TodoInv, CallInv, AnswerInv, ModeInv, [Next]_vars
             PROVE  ModeInv'
  OBVIOUS
<1>1. ASSUME main' \notin StepSet \cup {"session", "options", "connect"}
      PROVE  ModeInv'
  BY <1>1 DEF ModeInv
<1>2. "usage" \notin StepSet /\ "died" \notin StepSet /\ "configured" \notin StepSet /\ "ended" \notin StepSet
  BY StepFacts
<1>3. ASSUME NEW where \in {"usage", "died", "configured", "ended"}, main' = where
      PROVE  ModeInv'
  BY <1>1, <1>2, <1>3
<1>4. ASSUME main \in {"options", "connect"}, drv'.assigned = drv.assigned
      PROVE  ModeInv'
  BY <1>4 DEF ModeInv
<1>5. ASSUME main \in StepSet \cup {"session"}, main' \in StepSet \cup {"session"}, ice' = ice,
             drv'.assigned = drv.assigned, drv'.programmingEnabled = drv.programmingEnabled, Changing => Changing'
      PROVE  ModeInv'
  BY <1>5, StepFacts DEF ModeInv
<1>6. ASSUME main \notin StepSet \cup {"session", "options", "connect"}, main' = main
      PROVE  ModeInv'
  BY <1>1, <1>6
<1>7. ASSUME main' = main, ice' = ice,
             drv'.assigned = drv.assigned, drv'.programmingEnabled = drv.programmingEnabled, Changing => Changing'
      PROVE  ModeInv'
  BY <1>4, <1>5, <1>6, <1>7
<1>8. CASE GetOption \/ EndOfOptions \/ ConfigureMkII \/ Connect
  <2>1. main \in {"options", "connect"}
    BY <1>8 DEF GetOption, EndOfOptions, ConfigureMkII, Connect
  <2>2. drv'.assigned = drv.assigned
    BY <1>8 DEF GetOption, EndOfOptions, ConfigureMkII, Connect, Quit, Shape
  <2> QED
    BY <1>4, <2>1, <2>2
<1>9. CASE NextStep
  <2>1. main \in StepSet /\ call.phase = "idle" /\ ice' = ice
    BY <1>9 DEF NextStep, Free, linkVars, StepSet
  <2>2. drv'.assigned = drv.assigned /\ drv'.programmingEnabled = drv.programmingEnabled
    BY <1>9 DEF NextStep, Shape
  <2>3. main' \in {"ended", "session"} \/ (main # "resume" /\ main' = After(main))
    BY <1>9, Zenon DEF NextStep
  <2>4. main' = "ended" \/ main' \in StepSet \cup {"session"}
    BY <2>1, <2>3, StepFacts
  <2> QED
    BY <1>3, <1>5, <2>1, <2>2, <2>4 DEF Changing
<1>10. CASE StartCall
  <2>1. call.phase = "idle" /\ ice' = ice /\ main' = main /\ todo # <<>> /\ (\E q : Begin(q))
    BY <1>10, StartCallFacts
  <2>2. call'.phase # "idle" /\ ~Changing
    BY <2>1, BeginFacts DEF Changing
  <2>3. CASE UNCHANGED drv
    BY <1>7, <2>1, <2>2, <2>3
  <2>4. CASE Head(todo).op = "cmd" /\ todo' = todo /\ drv' = Flagged(drv, Head(todo).q)
    <3>1. CASE Head(todo).q.cmd \in {"a3", "a4"}
      <4>1. Changing'
        BY <2>2, <2>4, <3>1 DEF Changing
      <4>2. main \in StepSet \cup {"session"}
        BY <2>1, TodoTail DEF TodoInv
      <4> QED
        BY <2>1, <4>1, <4>2, StepFacts DEF ModeInv
    <3>2. CASE Head(todo).q.cmd \notin {"a3", "a4"}
      BY <2>3, <2>4, <3>2 DEF Flagged
    <3> QED
      BY <3>1, <3>2
  <2> QED
    BY <1>10, <2>3, <2>4, StartCallFacts
<1>11. CASE StartSync
  <2>1. ~Changing /\ UNCHANGED <<ice, main, drv>>
    BY <1>11 DEF StartSync, startJtagLink, Changing
  <2> QED
    BY <1>7, <2>1
<1>12. CASE Check \/ GdbAccess \/ \E b \in Breakpoints : Insert(b) \/ Remove(b)
  <2>1. ~Changing /\ ice' = ice
    BY <1>12 DEF Check, GdbAccess, Insert, Remove, Ready, Free, Changing, linkVars
  <2>2. drv'.assigned = drv.assigned /\ drv'.programmingEnabled = drv.programmingEnabled
    BY <1>12 DEF Check, GdbAccess, Insert, Remove, Quit, Shape
  <2>3. main' = main \/ main' = "died"
    BY <1>12 DEF Check, GdbAccess, Insert, Remove, Quit
  <2> QED
    BY <1>3, <1>7, <2>1, <2>2, <2>3
<1>13. CASE Answered
  <2> DEFINE t == Head(todo)
  <2>1. /\ todo # <<>> /\ call.phase = "done" /\ CallOf(t, drv, call, got)
        /\ main \in StepSet \cup {"session"} /\ ice' = ice
    BY <1>13, AnsweredFacts DEF Answered
  <2>2. CASE Died
    BY <1>3, <2>2 DEF Died
  <2>3. CASE GoesOn /\ (t.op = "cmd" /\ Checked(t.q) => got.ack)
    <3>1. main' = main /\ drv'.assigned = drv.assigned /\ drv'.programmingEnabled = drv.programmingEnabled
      BY <2>3 DEF GoesOn
    <3>2. CASE ~Changing
      BY <1>7, <2>1, <3>1, <3>2
    <3>3. CASE Changing
      <4>1. t.op = "cmd" /\ t.q.cmd \in {"a3", "a4"}
        BY <3>3 DEF Changing
      <4>2. Says(ice, refused, t.q, got.ack, got.bytes) /\ FlagOK(drv, t.q) /\ got.ack
        BY <2>1, <2>3, <4>1, AnswerSays DEF Checked
      <4>3. ice.progmode <=> drv.programmingEnabled
        BY <4>1, <4>2 DEF Says, FlagOK, On, Off
      <4> QED
        BY <2>1, <3>1, <4>3, StepFacts DEF ModeInv
    <3> QED
      BY <3>2, <3>3
  <2> QED
    BY <1>13, <2>2, <2>3, AnsweredFacts
<1>14. CASE Dies
  BY <1>3, <1>14 DEF Dies, Quit
<1>15. CASE Driver
  <2>1. UNCHANGED <<main, todo, drv, ice>> /\ Host
    BY <1>15, HostLeaves DEF Driver
  <2>2. call'.phase # "idle"
    <3>1. Record(call)
      BY DEF LineInv
    <3>2. "idle" \notin OnCommand /\ "idle" \notin OnSync
      BY DEF OnCommand, OnSync
    <3> QED
      BY <2>1, <3>1, <3>2, HostActive, HostOnCommand, HostOnSync
  <2> QED
    BY <1>7, <2>1, <2>2 DEF Changing
<1>16. CASE Box
  <2>1. InCall /\ UNCHANGED <<main, todo, drv, call>> /\ Leaves(Sent, ice, ice')
    BY <1>16, BoxStep, BoxLeaves, KnownRequest DEF Box
  <2>2. call.phase # "idle"
    BY <2>1 DEF InCall, Phases
  <2>3. CASE Sent.cmd \in {"a3", "a4"}
    <3>1. Head(todo).op = "cmd" /\ Sent = Head(todo).q
      BY <2>1, <2>3, SentIs
    <3>2. Changing /\ Changing'
      BY <2>1, <2>2, <2>3, <3>1 DEF Changing
    <3> QED
      BY <2>1, <3>2 DEF ModeInv
  <2>4. CASE Sent.cmd \notin {"a3", "a4"}
    <3>1. ice'.progmode = ice.progmode
      BY <2>1, <2>4 DEF Leaves
    <3> QED
      BY <2>1, <3>1 DEF ModeInv, Changing
  <2> QED
    BY <2>3, <2>4
<1>17. CASE Stays \/ UNCHANGED vars
  BY <1>17 DEF Stays, vars, linkVars, ModeInv, Changing
<1> QED
  BY <1>8, <1>9, <1>10, <1>11, <1>12, <1>13, <1>14, <1>15, <1>16, <1>17 DEF Next, Process

-----------------------------------------------------------------------------
(* The calls from the download on.                                         *)

SizeOf(item, device) ==
  CASE item = "FLASH_PAGESIZE_LOW" -> ByName(device).flash_page_size % 256
    [] item = "FLASH_PAGESIZE_HIGH" -> ByName(device).flash_page_size \div 256
    [] OTHER -> ByName(device).eeprom_page_size

LateSteps == {"download", "writeLockBits", "resume", "session"}
LateCommands == {"a3", "a4", "x", "G", "W", "h", "1"}

\* Which memory a step writes.
Aims(p, m) ==
  /\ p = "download" => m \in Images
  /\ p = "writeLockBits" => m = "lock"
  /\ p # "resume"

\* A download tells the emulator the sizes of the pages of the device, and
\* nothing else about it; it alone compares.
LateItem(p, device, t) ==
  \/ t.op = "cmd" /\ t.then = "next" /\ t.q.cmd \in LateCommands /\ (IsWhere(t) => Aims(p, Memory(t.q.space)))
  \/ t.op = "write" /\ Aims(p, t.m)
  \/ t.op = "read" /\ t.then \in {"keep", "gdb"}
  \/ t.op = "check" /\ t.what # "verified"
  \/ /\ p = "download"
     /\ \/ /\ t.op = "cmd" /\ t.then = "next" /\ t.q.cmd = "B" /\ t.q.item \in SizeItems
           /\ t.q.value = SizeOf(t.q.item, device)
        \/ t.op = "read" /\ t.then = "verify" /\ t.m \in Images /\ t.addr \in Nat /\ t.n = PageSize
        \/ t.op = "check"
Late(p, device, s) == IsSeq(s) /\ \A i \in DOMAIN s : LateItem(p, device, s[i])

LEMMA LateConcat ==
  ASSUME NEW p, NEW device, NEW s, NEW t, Late(p, device, s), Late(p, device, t)
  PROVE  Late(p, device, s \o t)
<1> DEFINE u == s \o t
           n == Len(s)
           m == Len(t)
<1>1. /\ DOMAIN s = 1 .. n /\ DOMAIN t = 1 .. m
      /\ IsSeq(u) /\ DOMAIN u = 1 .. n + m
      /\ \A i \in 1 .. n : u[i] = s[i]
      /\ \A i \in 1 .. m : u[n + i] = t[i]
      /\ \A i \in 1 .. n + m : i \in 1 .. n \/ \E j \in 1 .. m : i = n + j
  <2>1. IsSeq(s) /\ IsSeq(t)
    BY DEF Late
  <2>2. IsSeq(u) /\ Len(u) = n + m
    BY <2>1, ConcatFacts
  <2> QED
    BY <2>1, <2>2, ConcatFacts, SeqFacts
<1> HIDE DEF u, n, m
<1>2. \A i \in 1 .. n + m : LateItem(p, device, u[i])
  BY <1>1 DEF Late
<1> QED
  BY <1>1, <1>2 DEF Late, u

LEMMA LateTail ==
  ASSUME NEW p, NEW device, NEW s, Late(p, device, s), s # <<>>
  PROVE  LateItem(p, device, Head(s)) /\ Late(p, device, Tail(s))
<1>1. IsSeq(s) /\ IsSeq(Tail(s)) /\ Len(Tail(s)) = Len(s) - 1
  BY TailFacts DEF Late
<1>2. /\ Len(s) \in Nat /\ Len(s) >= 1 /\ DOMAIN s = 1 .. Len(s) /\ Head(s) = s[1]
      /\ DOMAIN Tail(s) = 1 .. Len(s) - 1
      /\ \A i \in 1 .. Len(s) - 1 : Tail(s)[i] = s[i + 1]
  BY <1>1, SeqFacts, TailFacts
<1>3. 1 \in 1 .. Len(s) /\ \A i \in 1 .. Len(s) - 1 : i + 1 \in 1 .. Len(s)
  BY <1>2
<1> QED
  BY <1>1, <1>2, <1>3 DEF Late

LEMMA LateSingle ==
  /\ \A p, device : Late(p, device, <<>>)
  /\ \A p, device, q : q.cmd \in LateCommands \ {"W"} => Late(p, device, <<Do(q)>>)
  /\ \A p, device, t : LateItem(p, device, t) => Late(p, device, <<t>>)
<1>1. \A p, device : Late(p, device, <<>>)
  BY EmptyFacts DEF Late
<1>2. \A p, device, q : q.cmd \in LateCommands \ {"W"} => Late(p, device, <<Do(q)>>)
  <2> TAKE p, device, q
  <2>1. q.cmd \in LateCommands \ {"W"} => LateItem(p, device, Do(q))
    BY DEF LateItem, Do, IsWhere
  <2> QED
    BY <2>1, SingleFacts DEF Late
<1>3. \A p, device, t : LateItem(p, device, t) => Late(p, device, <<t>>)
  BY SingleFacts DEF Late
<1> QED
  BY <1>1, <1>2, <1>3

LEMMA LateSwitches ==
  ASSUME NEW p, NEW device
  PROVE  /\ Late(p, device, enableProgramming) /\ Late(p, device, disableProgramming)
         /\ \A s : Late(p, device, resetProgram(s, FALSE))
         /\ Late(p, device, <<Do(Simple("G"))>>)
<1>1. \A c \in {"a3", "a4", "x", "G"} : Simple(c).cmd \in LateCommands \ {"W"}
  BY DEF Simple, LateCommands
<1>2. \A s : resetProgram(s, FALSE) = <<Do(Simple("x"))>>
  BY DEF resetProgram
<1>3. /\ Late(p, device, <<Do(Simple("a3"))>>) /\ Late(p, device, <<Do(Simple("a4"))>>)
      /\ Late(p, device, <<Do(Simple("x"))>>) /\ Late(p, device, <<Do(Simple("G"))>>)
  BY <1>1, LateSingle
<1> HIDE DEF Do, Simple
<1> QED
  BY <1>2, <1>3, Zenon DEF enableProgramming, disableProgramming

LEMMA LateSizes ==
  ASSUME NEW device
  PROVE  Late("download", device, PageSizes(ByName(device)))
<1> DEFINE row == ByName(device)
           x == Do(setJtagParameter("FLASH_PAGESIZE_LOW", row.flash_page_size % 256))
           y == Do(setJtagParameter("FLASH_PAGESIZE_HIGH", row.flash_page_size \div 256))
           z == Do(setJtagParameter("EEPROM_PAGESIZE", row.eeprom_page_size))
           s == <<x, y, z>>
<1>1. LateItem("download", device, x)
  BY DEF LateItem, Do, setJtagParameter, SizeItems, SizeOf
<1>2. LateItem("download", device, y)
  BY DEF LateItem, Do, setJtagParameter, SizeItems, SizeOf
<1>3. LateItem("download", device, z)
  BY DEF LateItem, Do, setJtagParameter, SizeItems, SizeOf
<1>4. PageSizes(row) = <<x, y, z>>
  BY Zenon DEF PageSizes
<1> HIDE DEF x, y, z, row
<1>5. DOMAIN s = {1, 2, 3} /\ s[1] = x /\ s[2] = y /\ s[3] = z
  OBVIOUS
<1>6. IsSeq(s)
  <2>1. s \in Seq({x, y, z})
    OBVIOUS
  <2> QED
    BY <2>1, SeqIsSeq
<1> HIDE DEF s
<1>7. \A i \in DOMAIN s : LateItem("download", device, s[i])
  BY <1>1, <1>2, <1>3, <1>5
<1>8. Late("download", device, s)
  BY <1>6, <1>7 DEF Late
<1> QED
  BY <1>4, <1>8 DEF s, row

LEMMA PagesNat ==
  ASSUME NEW img, DOMAIN img \subseteq 0 .. MAX_IMAGE_SIZE - 1, DOMAIN img # {}
  PROVE  \E n \in Nat : DOMAIN Pages(img) = 1 .. n /\ \A i \in 1 .. n : Pages(img)[i] \in Nat
<1> DEFINE T == DOMAIN img
           lo == LowestOf(T)
           p == Page(lo)
<1>1. lo \in Nat
  <2>1. T \subseteq 0 .. MAX_IMAGE_SIZE - 1 /\ T # {}
    OBVIOUS
  <2> HIDE DEF T
  <2>2. lo \in T
    BY <2>1, Ends, ImageSizeFact
  <2>3. T \subseteq Nat
    BY <2>1, ImageSizeFact
  <2> HIDE DEF lo
  <2> QED
    BY <2>2, <2>3
<1>2. p \in Nat
  BY <1>1, PageFacts
<1>3. PICK k \in Int : DOMAIN Pages(img) = 1 .. k
  BY PagesFacts
<1>4. PICK n \in Nat : 1 .. k = 1 .. n
  <2>1. CASE k \in Nat
    BY <2>1
  <2>2. CASE k \notin Nat
    <3>1. 1 .. k = 1 .. 0
      BY <2>2
    <3> QED
      BY <3>1
  <2> QED
    BY <2>1, <2>2
<1>5. ASSUME NEW i \in 1 .. n
      PROVE  Pages(img)[i] \in Nat
  <2>1. Pages(img)[i] = p + (i - 1) * PageSize
    BY <1>3, <1>4 DEF Pages
  <2>2. i - 1 \in Nat
    OBVIOUS
  <2>3. (i - 1) * PageSize \in Nat
    BY <2>2, PageSizeFact
  <2> HIDE DEF p
  <2> QED
    BY <1>2, <2>1, <2>3
<1> QED
  BY <1>3, <1>4, <1>5

LEMMA LateImage ==
  ASSUME NEW device, NEW img, DOMAIN img \subseteq 0 .. MAX_IMAGE_SIZE - 1, NEW m \in Images, NEW program, NEW verify
  PROVE  Late("download", device, jtag_flash_image(img, m, program, verify))
<1>1. CASE DOMAIN img = {}
  BY <1>1, LateSingle DEF jtag_flash_image
<1>2. CASE DOMAIN img # {}
  <2> DEFINE pages == Pages(img)
             used == InOrder({i \in DOMAIN pages : ~pageIsEmpty(img, m, pages[i])})
             writes == [k \in DOMAIN used |-> jtagWrite(m, pages[used[k]], PageBuffer(img, pages[used[k]]))]
             reads == [i \in DOMAIN pages |-> jtagRead(m, pages[i], PageSize, "verify")]
             c == <<check("verified", <<>>)>>
  <2>1. PICK n \in Nat : DOMAIN pages = 1 .. n /\ \A i \in 1 .. n : pages[i] \in Nat
    BY <1>2, PagesNat
  <2>2. PICK k \in Nat : DOMAIN used = 1 .. k
    <3>1. {i \in DOMAIN pages : ~pageIsEmpty(img, m, pages[i])} \in SUBSET (1 .. n)
      BY <2>1
    <3>2. n \in Int
      OBVIOUS
    <3> HIDE DEF used
    <3>3. \E k \in Nat : DOMAIN InOrder({i \in DOMAIN pages : ~pageIsEmpty(img, m, pages[i])}) = 1 .. k
      BY <3>1, <3>2, InOrderFacts
    <3> QED
      BY <3>3 DEF used
  <2>3. jtag_flash_image(img, m, program, verify)
          = (IF program THEN writes ELSE <<>>) \o (IF verify THEN reads \o c ELSE <<>>)
    BY <1>2 DEF jtag_flash_image
  <2> HIDE DEF pages, used
  <2>4. Late("download", device, writes)
    <3>1. DOMAIN writes = 1 .. k /\ writes = [i \in 1 .. k |-> writes[i]]
      BY <2>2
    <3>2. \A i \in 1 .. k : LateItem("download", device, writes[i])
      BY <2>2 DEF jtagWrite, LateItem, Aims
    <3> HIDE DEF writes
    <3> QED
      BY <3>1, <3>2, MakeSeq DEF Late
  <2>5. Late("download", device, reads)
    <3>1. DOMAIN reads = 1 .. n /\ reads = [i \in 1 .. n |-> reads[i]]
      BY <2>1
    <3>2. \A i \in 1 .. n : LateItem("download", device, reads[i])
      BY <2>1 DEF jtagRead, LateItem
    <3> HIDE DEF reads
    <3> QED
      BY <3>1, <3>2, MakeSeq DEF Late
  <2>6. Late("download", device, c)
    <3>1. check("verified", <<>>).op = "check"
      BY DEF check
    <3>2. LateItem("download", device, check("verified", <<>>))
      BY <3>1 DEF LateItem
    <3> QED
      BY <3>2, LateSingle
  <2> HIDE DEF writes, reads, c
  <2>7. Late("download", device, IF program THEN writes ELSE <<>>)
    BY <2>4, LateSingle
  <2>8. Late("download", device, IF verify THEN reads \o c ELSE <<>>)
    BY <2>5, <2>6, LateSingle, LateConcat
  <2> QED
    BY <2>3, <2>7, <2>8, LateConcat
<1> QED
  BY <1>1, <1>2

LEMMA LateDownload == \A s, device : Late("download", device, downloadToTarget(s, device))
<1> TAKE s, device
<1>1. CASE s.text["f"] \notin DOMAIN Files
  <2>1. downloadToTarget(s, device) = <<check("never", <<>>)>>
    BY <1>1 DEF downloadToTarget
  <2>2. LateItem("download", device, check("never", <<>>))
    BY DEF check, LateItem
  <2> QED
    BY <2>1, <2>2, LateSingle
<1>2. CASE s.text["f"] \in DOMAIN Files
  <2> DEFINE fl == Files[s.text["f"]]["flash"]
             ee == Files[s.text["f"]]["eeprom"]
             a == PageSizes(ByName(device))
             b == jtag_flash_image(fl, "flash", Program(s), Verify(s))
             c == jtag_flash_image(ee, "eeprom", Program(s), Verify(s))
             d == resetProgram(s, FALSE)
  <2>1. Late("download", device, a) /\ Late("download", device, d) /\ Late("download", device, enableProgramming) /\ Late("download", device, disableProgramming)
    BY LateSizes, LateSwitches
  <2>2. Late("download", device, b) /\ Late("download", device, c)
    <3>1. DOMAIN fl \subseteq 0 .. MAX_IMAGE_SIZE - 1 /\ DOMAIN ee \subseteq 0 .. MAX_IMAGE_SIZE - 1
      BY <1>2, AvariceAssumption
    <3>2. "flash" \in Images /\ "eeprom" \in Images
      BY DEF Images
    <3> QED
      BY <3>1, <3>2, LateImage
  <2>3. downloadToTarget(s, device) = a \o enableProgramming \o b \o c \o disableProgramming \o d
    BY <1>2, Zenon DEF downloadToTarget
  <2> HIDE DEF a, b, c, d
  <2> QED
    BY <2>1, <2>2, <2>3, LateConcat
<1> QED
  BY <1>1, <1>2

\* What is written to the lock bits has nothing to do with the download.
LEMMA LateLockBits ==
  ASSUME NEW p, Aims(p, "lock"), NEW device, NEW bytes
  PROVE  Late(p, device, WriteBits("lock", 1, bytes)) /\ Plain(WriteBits("lock", 1, bytes))
<1> DEFINE n == check("never", <<>>)
           e == enableProgramming
           w == jtagWrite("lock", 0, bytes)
           r == jtagRead("lock", 0, 1, "keep")
           d == disableProgramming
           c == check("same", bytes)
<1>1. LateItem(p, device, n) /\ LateItem(p, device, c) /\ PlainItem(n) /\ PlainItem(c)
  BY DEF check, PlainItem, LateItem
<1>2. LateItem(p, device, w) /\ PlainItem(w)
  BY DEF jtagWrite, PlainItem, LateItem
<1>3. LateItem(p, device, r) /\ PlainItem(r)
  BY DEF jtagRead, PlainItem, LateItem
<1>4. /\ bytes = <<>> => WriteBits("lock", 1, bytes) = <<n>>
      /\ bytes # <<>> => WriteBits("lock", 1, bytes) = e \o <<w, r>> \o d \o <<c>>
  BY Zenon DEF WriteBits
<1> HIDE DEF n, e, w, r, d, c
<1>5. \A t : /\ LateItem(p, device, t) => Late(p, device, <<t>>)
             /\ PlainItem(t) => Plain(<<t>>)
  BY SingleFacts DEF Late, Plain
<1>6. <<w, r>> = <<w>> \o <<r>>
  BY TwoCalls
<1>7. Late(p, device, <<w>>) /\ Late(p, device, <<r>>) /\ Plain(<<w>>) /\ Plain(<<r>>)
  BY <1>2, <1>3, <1>5
<1>8. Late(p, device, <<w, r>>) /\ Plain(<<w, r>>)
  BY <1>6, <1>7, LateConcat, PlainConcat
<1>9. Late(p, device, <<n>>) /\ Late(p, device, <<c>>) /\ Plain(<<n>>) /\ Plain(<<c>>)
  BY <1>1, <1>5
<1>10. Late(p, device, e) /\ Late(p, device, d) /\ Plain(e) /\ Plain(d)
  BY LateSwitches, PlainDo DEF e, d
<1>11. Late(p, device, e \o <<w, r>> \o d \o <<c>>)
  BY <1>8, <1>9, <1>10, LateConcat
<1>12. Plain(e \o <<w, r>> \o d \o <<c>>)
  BY <1>8, <1>9, <1>10, PlainConcat
<1> QED
  BY <1>4, <1>9, <1>11, <1>12

LEMMA LateCalls ==
  ASSUME NEW s, NEW p \in {"download", "writeLockBits", "resume"}
  PROVE  /\ Late(p, drv.device, Calls(s, p))
         /\ p # "download" => Plain(Calls(s, p))
         /\ p = "download" /\ s.text["f"] # "" => Calls(s, p) = downloadToTarget(s, drv.device)
<1> DEFINE f == downloadToTarget(s, drv.device)
           n == check("never", <<>>)
           h == WriteBits("lock", 1, LockText[s.text["L"]])
           g == Do(Simple("G"))
<1>1. p = "resume" => Calls(s, p) = <<g>>
  BY DEF Calls
<1>2. p = "writeLockBits" => Calls(s, p) = h \/ Calls(s, p) = <<>>
  BY DEF Calls
<1>3. p = "download" => Calls(s, p) = f \/ Calls(s, p) = <<n>> \/ Calls(s, p) = <<>>
  <2>1. CASE s.text["f"] # "" /\ ~FileMissing(s)
    BY <2>1 DEF Calls
  <2>2. CASE s.text["f"] = "" /\ FileMissing(s)
    BY <2>2 DEF Calls
  <2>3. CASE s.text["f"] # "" /\ FileMissing(s)
    BY <2>3 DEF FileMissing
  <2>4. CASE s.text["f"] = "" /\ ~FileMissing(s)
    BY <2>4 DEF Calls
  <2> QED
    BY <2>1, <2>2, <2>3, <2>4
<1>4. p = "download" /\ s.text["f"] # "" => Calls(s, p) = f
  <2>1. s.text["f"] # "" => ~FileMissing(s)
    BY DEF FileMissing
  <2> QED
    BY <2>1 DEF Calls
<1>5. LateItem(p, drv.device, n) /\ Simple("G").cmd = "G"
  BY DEF check, Simple, LateItem
<1>6. Plain(<<g>>)
  BY <1>5, PlainDo
<1>7. Late(p, drv.device, <<g>>)
  BY LateSwitches
<1> HIDE DEF n, g
<1>8. Late(p, drv.device, <<n>>) /\ Late(p, drv.device, <<>>) /\ Plain(<<>>)
  BY <1>5, LateSingle, EmptyPlain
<1>9. (p = "download" => Late(p, drv.device, f)) /\ (p = "writeLockBits" => Late(p, drv.device, h) /\ Plain(h))
  BY LateDownload, LateLockBits DEF Aims
<1> HIDE DEF f, h
<1> QED
  BY <1>1, <1>2, <1>3, <1>4, <1>6, <1>7, <1>8, <1>9 DEF f

LateInv == main \in LateSteps => Late(main, drv.device, todo)

\* What is made of an answer, from the download on.
LateGoes(t) ==
  /\ main' = main /\ opts' = opts /\ todo' = Tail(todo)
  /\ drv'.device = drv.device /\ drv'.assigned = drv.assigned
  /\ drv'.programmingEnabled = drv.programmingEnabled
  /\ t.op = "cmd" /\ Checked(t.q) => got.ack
  /\ t.op = "read" /\ t.then = "verify" =>
       got.ack /\ drv'.verified = (drv.verified /\ Verified(Files[opts.text["f"]][t.m], t.addr, ReadBytes(t)))
  /\ ~(t.op = "read" /\ t.then = "verify") => drv'.verified = drv.verified

LEMMA LateAnswered ==
  ASSUME Shape, TodoInv, CallInv, LateInv, main \in LateSteps, Answered
  PROVE  main' = "died" \/ LateGoes(Head(todo))
<1> DEFINE t == Head(todo)
<1>1. /\ todo # <<>> /\ CallOf(t, drv, call, got)
  BY AnsweredFacts
<1>2. LateItem(main, drv.device, t)
  BY <1>1, LateTail DEF LateInv
<1>3. t.op \in {"cmd", "read"}
  BY <1>1, <1>2 DEF CallOf, LateItem
<1>4. /\ t.op = "cmd" => t.then = "next"
      /\ t.op = "read" => t.then \in {"keep", "gdb", "verify"}
  BY <1>2 DEF LateItem
<1>5. Quit("died") \/ (Then(t) /\ (t.op = "cmd" /\ Checked(t.q) => got.ack))
  BY <1>3 DEF Answered
<1>6. <<>> \o Tail(todo) = Tail(todo)
  <2>1. IsSeq(<<>>) /\ <<>> \o Tail(todo) = Tail(todo)
    BY DEF IsSeq
  <2> QED
    BY <2>1
<1>7. Quit("died") => main' = "died"
  BY DEF Quit
<1> HIDE DEF t
<1>8. ASSUME NEW d, Proceed(d, <<>>)
      PROVE  main' = main /\ opts' = opts /\ todo' = Tail(todo) /\ drv' = d
  BY <1>6, <1>8 DEF Proceed, Goes
<1>9. CASE t.then = "next" /\ Then(t) /\ (t.op = "cmd" /\ Checked(t.q) => got.ack)
  <2>1. Proceed(drv, <<>>)
    BY <1>9 DEF Then
  <2> QED
    BY <1>8, <1>9, <2>1 DEF LateGoes, t
<1>10. CASE t.op = "read" /\ t.then = "gdb" /\ Then(t)
  <2>1. Goes /\ drv' = drv /\ todo' = Tail(todo)
    BY <1>10, Zenon DEF Then
  <2> QED
    BY <1>10, <2>1 DEF LateGoes, Goes, t
<1>11. CASE t.op = "read" /\ t.then = "keep" /\ Then(t)
  <2>1. Proceed([drv EXCEPT !.kept = ReadBytes(t)], <<>>)
    BY <1>11, Zenon DEF Then
  <2> DEFINE d == [drv EXCEPT !.kept = ReadBytes(t)]
  <2>2. /\ d.device = drv.device /\ d.assigned = drv.assigned
        /\ d.programmingEnabled = drv.programmingEnabled /\ d.verified = drv.verified
    BY DEF Shape
  <2> HIDE DEF d
  <2>3. main' = main /\ opts' = opts /\ todo' = Tail(todo) /\ drv' = d
    BY <1>8, <2>1 DEF d
  <2> QED
    BY <1>11, <2>2, <2>3 DEF LateGoes, t
<1>12. CASE t.op = "read" /\ t.then = "verify" /\ Then(t)
  <2> DEFINE v == drv.verified /\ Verified(Files[opts.text["f"]][t.m], t.addr, ReadBytes(t))
             d == [drv EXCEPT !.verified = v]
  <2>1. Quit("died") \/ (ReadBytes(t) # Null /\ Proceed(d, <<>>))
    BY <1>12, Zenon DEF Then
  <2>2. CASE ReadBytes(t) # Null /\ Proceed(d, <<>>)
    <3>1. got.ack
      BY <2>2 DEF ReadBytes
    <3> HIDE DEF v
    <3>2. /\ d.device = drv.device /\ d.assigned = drv.assigned
          /\ d.programmingEnabled = drv.programmingEnabled /\ d.verified = v
      BY DEF Shape
    <3> HIDE DEF d
    <3>3. main' = main /\ opts' = opts /\ todo' = Tail(todo) /\ drv' = d
      BY <1>8, <2>2
    <3> QED
      BY <1>12, <3>1, <3>2, <3>3 DEF LateGoes, t, v
  <2> QED
    BY <1>7, <2>1, <2>2
<1> QED
  BY <1>3, <1>4, <1>5, <1>7, <1>9, <1>10, <1>11, <1>12 DEF t

LEMMA LateFacts ==
  /\ \A p \in LateSteps : p \in StepSet \cup {"session"}
  /\ \A p \in {"options", "usage", "connect", "configured", "ended", "died", "init"} : p \notin LateSteps
  /\ After("download") = "writeLockBits" /\ After("writeLockBits") = "resume"
  /\ \A p \in StepSet : /\ p # "resume" /\ After(p) \in LateSteps => After(p) \in {"download", "writeLockBits", "resume"}
                        /\ p # "resume" /\ After(p) = "writeLockBits" => p = "download"
                        /\ p # "resume" /\ After(p) = "resume" => p = "writeLockBits"
<1>1. StepSet = {"init", "erase", "readFuses", "readLockBits", "writeFuses", "initOCD", "download",
                 "writeLockBits", "resume"}
  BY DEF StepSet, Steps
<1>2. \A p \in LateSteps : p \in StepSet \cup {"session"}
  BY <1>1 DEF LateSteps
<1>3. \A p \in {"options", "usage", "connect", "configured", "ended", "died", "init"} : p \notin LateSteps
  BY DEF LateSteps
<1>4. ASSUME NEW p, NEW n \in 1 .. 8, Steps[n] = p
      PROVE  After(p) = Steps[n + 1]
  <2> DEFINE i == CHOOSE i \in 1 .. Len(Steps) - 1 : Steps[i] = p
  <2>1. Len(Steps) = 9
    BY DEF Steps
  <2>2. i \in 1 .. 8 /\ Steps[i] = p
    BY <1>4, <2>1
  <2>3. After(p) = Steps[i + 1]
    BY DEF After
  <2> HIDE DEF i
  <2>4. i = n
    BY <1>4, <2>2 DEF Steps
  <2> QED
    BY <2>3, <2>4
<1>5. /\ Steps[1] = "init" /\ Steps[2] = "erase" /\ Steps[3] = "readFuses" /\ Steps[4] = "readLockBits"
      /\ Steps[5] = "writeFuses" /\ Steps[6] = "initOCD" /\ Steps[7] = "download"
      /\ Steps[8] = "writeLockBits" /\ Steps[9] = "resume"
  BY DEF Steps
<1> HIDE DEF Steps
<1>6. /\ After("init") = "erase" /\ After("erase") = "readFuses" /\ After("readFuses") = "readLockBits"
      /\ After("readLockBits") = "writeFuses" /\ After("writeFuses") = "initOCD" /\ After("initOCD") = "download"
      /\ After("download") = "writeLockBits" /\ After("writeLockBits") = "resume"
  <2>1. 1 + 1 = 2 /\ 2 + 1 = 3 /\ 3 + 1 = 4 /\ 4 + 1 = 5 /\ 5 + 1 = 6 /\ 6 + 1 = 7 /\ 7 + 1 = 8 /\ 8 + 1 = 9
    OBVIOUS
  <2>2. 1 \in 1 .. 8 /\ 2 \in 1 .. 8 /\ 3 \in 1 .. 8 /\ 4 \in 1 .. 8 /\ 5 \in 1 .. 8 /\ 6 \in 1 .. 8 /\ 7 \in 1 .. 8 /\ 8 \in 1 .. 8
    OBVIOUS
  <2> QED
    BY <1>4, <1>5, <2>1, <2>2
<1>7. ASSUME NEW p \in StepSet, p # "resume"
      PROVE  /\ After(p) \in LateSteps => After(p) \in {"download", "writeLockBits", "resume"}
             /\ After(p) = "writeLockBits" => p = "download"
             /\ After(p) = "resume" => p = "writeLockBits"
  BY <1>1, <1>6, <1>7 DEF LateSteps
<1> QED
  BY <1>2, <1>3, <1>6, <1>7

LEMMA InitLate == Init => LateInv
<1> SUFFICES ASSUME Init PROVE LateInv
  OBVIOUS
<1>1. main = "options"
  BY Zenon DEF Init
<1> QED
  BY <1>1, LateFacts DEF LateInv

LEMMA LateNext == Shape /\ TodoInv /\ CallInv /\ LateInv /\ [Next]_vars => LateInv'
<1> SUFFICES ASSUME Shape, TodoInv, CallInv, LateInv, [Next]_vars PROVE LateInv'
  OBVIOUS
<1>1. ASSUME main' \notin LateSteps
      PROVE  LateInv'
  BY <1>1 DEF LateInv
<1>2. ASSUME NEW where \in {"options", "usage", "connect", "configured", "ended", "died", "init"}, main' = where
      PROVE  LateInv'
  BY <1>1, <1>2, LateFacts
<1>3. ASSUME main' = main, drv'.device = drv.device,
             main \in LateSteps => Late(main, drv.device, todo')
      PROVE  LateInv'
  BY <1>3 DEF LateInv
<1>4. ASSUME main' = main, drv'.device = drv.device, todo' = todo
      PROVE  LateInv'
  BY <1>3, <1>4 DEF LateInv
<1>5. CASE GetOption \/ EndOfOptions \/ ConfigureMkII \/ Connect
  <2>1. main = "options" \/ main = "connect"
    BY <1>5, Zenon DEF GetOption, EndOfOptions, ConfigureMkII, Connect
  <2>2. main' \in {main, "usage", "connect", "configured", "died", "init"}
    BY <1>5 DEF GetOption, EndOfOptions, ConfigureMkII, Connect, Quit
  <2> QED
    BY <1>2, <2>1, <2>2
<1>6. CASE NextStep
  <2>1. main \in StepSet /\ drv'.device = drv.device
    BY <1>6 DEF NextStep, Shape, StepSet
  <2>2. \/ main' = "ended"
        \/ main' = "session" /\ todo' = <<>>
        \/ main # "resume" /\ main' = After(main) /\ (main' \in StepSet => todo' = Calls(opts, main'))
    <3>1. "ended" \notin StepSet /\ "session" \notin StepSet
      BY StepFacts
    <3> QED
      BY <1>6, <3>1, Zenon DEF NextStep
  <2>3. CASE main' = "session" /\ todo' = <<>>
    BY <2>1, <2>3, LateSingle DEF LateInv
  <2>4. CASE main # "resume" /\ main' = After(main) /\ main' \in LateSteps /\ (main' \in StepSet => todo' = Calls(opts, main'))
    <3>1. main' \in {"download", "writeLockBits", "resume"} /\ main' \in StepSet
      BY <2>1, <2>4, LateFacts, StepFacts
    <3>2. Late(main', drv.device, Calls(opts, main'))
      BY <3>1, LateCalls
    <3> QED
      BY <2>1, <2>4, <3>1, <3>2 DEF LateInv
  <2> QED
    BY <1>1, <1>2, <2>2, <2>3, <2>4
<1>7. CASE StartCall
  <2>1. main' = main /\ todo # <<>>
    BY <1>7, StartCallFacts
  <2>2. CASE todo' = todo /\ (drv' = drv \/ \E q : drv' = Flagged(drv, q))
    <3>1. \A q : Flagged(drv, q).device = drv.device
      BY DEF Flagged, Shape
    <3>2. drv'.device = drv.device
      BY <2>2, <3>1
    <3> QED
      BY <1>4, <2>1, <2>2, <3>2
  <2>3. ASSUME drv' = drv, NEW q, NEW r, q.cmd = "W", r.cmd = "h", todo' = <<Do(q), Do(r)>> \o Tail(todo),
               Head(todo).op = "write", q.space = Space(Head(todo).m, drv.programmingEnabled)
        PROVE  LateInv'
    <3> DEFINE x == <<Do(q)>>
               y == <<Do(r)>>
    <3>1. <<Do(q), Do(r)>> = x \o y
      BY TwoCalls
    <3>2. ASSUME main \in LateSteps
          PROVE  Late(main, drv.device, todo')
      <4>0. Aims(main, Memory(q.space))
        <5>1. LateItem(main, drv.device, Head(todo))
          BY <2>1, <3>2, LateTail DEF LateInv
        <5>2. Aims(main, Head(todo).m)
          BY <2>3, <5>1 DEF LateItem
        <5> QED
          BY <2>3, <5>2 DEF Aims, Images, Space, Memory
      <4>1. Late(main, drv.device, x) /\ Late(main, drv.device, y)
        <5>1. Do(q).op = "cmd" /\ Do(q).q = q /\ Do(q).then = "next"
          BY DEF Do
        <5>2. LateItem(main, drv.device, Do(q))
          BY <2>3, <4>0, <5>1 DEF LateItem, LateCommands
        <5>3. Late(main, drv.device, x)
          BY <5>2, LateSingle
        <5> QED
          BY <2>3, <5>3, LateSingle DEF LateCommands
      <4>2. Late(main, drv.device, Tail(todo))
        BY <2>1, <3>2, LateTail DEF LateInv
      <4> HIDE DEF x, y
      <4>3. Late(main, drv.device, x \o y)
        BY <4>1, LateConcat
      <4> QED
        BY <2>3, <3>1, <4>2, <4>3, LateConcat
    <3> QED
      BY <1>3, <2>1, <2>3, <3>2
  <2> QED
    BY <1>7, <2>2, <2>3, StartCallFacts
<1>8. CASE Answered
  <2>1. CASE main \in LateSteps
    <3>1. main' = "died" \/ LateGoes(Head(todo))
      BY <1>8, <2>1, LateAnswered
    <3>2. todo # <<>>
      BY <1>8, AnsweredFacts
    <3>3. CASE LateGoes(Head(todo))
      <4>1. Late(main, drv.device, Tail(todo))
        BY <2>1, <3>2, LateTail DEF LateInv
      <4> QED
        BY <1>3, <3>3, <4>1 DEF LateGoes
    <3> QED
      BY <1>2, <3>1, <3>3
  <2>2. CASE main \notin LateSteps
    <3>1. main' = main \/ main' = "died"
      BY <1>8, AnsweredFacts DEF Died, GoesOn
    <3> QED
      BY <1>1, <1>2, <2>2, <3>1
  <2> QED
    BY <2>1, <2>2
<1>9. CASE Check
  <2>1. CASE Quit("died")
    BY <1>2, <2>1 DEF Quit
  <2>2. CASE todo' = Tail(todo) /\ UNCHANGED <<main, drv>>
    <3>1. todo # <<>>
      BY <1>9 DEF Check
    <3>2. main \in LateSteps => Late(main, drv.device, Tail(todo))
      BY <3>1, LateTail DEF LateInv
    <3> QED
      BY <1>3, <2>2, <3>2
  <2> QED
    BY <1>9, <2>1, <2>2, Zenon DEF Check
<1>10. CASE Dies
  BY <1>2, <1>10 DEF Dies, Quit
<1>11. CASE GdbAccess
  <2>1. main = "session" /\ main' = main /\ drv' = drv
    BY <1>11 DEF GdbAccess, Ready
  <2>2. \/ todo' = <<>> \/ todo' = <<Do(Simple("1"))>>
        \/ \E r \in GdbReads : todo' = <<jtagRead(r.m, r.addr, r.n, "gdb")>>
        \/ \E w \in GdbWrites : todo' = <<jtagWrite(w.m, w.addr, w.bytes)>>
    BY <1>11, Zenon DEF GdbAccess
  <2>3. Simple("1").cmd = "1" /\ "1" \in LateCommands \ {"W"}
    BY DEF Simple, LateCommands
  <2>4. \A m, addr, n : LateItem(main, drv.device, jtagRead(m, addr, n, "gdb"))
    BY DEF LateItem, jtagRead
  <2>5. \A m, addr, bytes : LateItem(main, drv.device, jtagWrite(m, addr, bytes))
    BY <2>1 DEF LateItem, jtagWrite, Aims
  <2>6. Late(main, drv.device, todo')
    <3>1. CASE todo' = <<>> \/ todo' = <<Do(Simple("1"))>>
      BY <2>3, <3>1, LateSingle
    <3>2. CASE \E r \in GdbReads : todo' = <<jtagRead(r.m, r.addr, r.n, "gdb")>>
      BY <2>4, <3>2, LateSingle
    <3>3. CASE \E w \in GdbWrites : todo' = <<jtagWrite(w.m, w.addr, w.bytes)>>
      BY <2>5, <3>3, LateSingle
    <3> QED
      BY <2>2, <3>1, <3>2, <3>3
  <2> QED
    BY <1>3, <2>1, <2>6
<1>12. ASSUME NEW b \in Breakpoints, Insert(b) \/ Remove(b)
       PROVE  LateInv'
  <2>1. main' = main /\ todo' = todo /\ drv'.device = drv.device
    BY <1>12 DEF Insert, Remove, Shape
  <2> QED
    BY <1>4, <2>1
<1>13. CASE StartSync \/ Driver \/ Box \/ Stays \/ UNCHANGED vars
  <2>1. UNCHANGED <<main, todo, drv>>
    BY <1>13 DEF StartSync, Driver, Box, Stays, vars
  <2> QED
    BY <1>4, <2>1
<1> QED
  BY <1>5, <1>6, <1>7, <1>8, <1>9, <1>10, <1>11, <1>12, <1>13 DEF Next, Process

-----------------------------------------------------------------------------
(* The file in the target.                                                 *)

SizesOK(s, device, b) == \A x \in SizeItems : Reaches(Telling(x), s) \/ b.params[x] = SizeOf(x, device)

\* The byte will be compared, or has been: if it is not there, the comparison
\* of the results is still to come.
ByteOK(f, s, v, b, m, a) ==
  /\ Follows(s, m, a)
  /\ Reaches(Reading(m, a), s) \/ (v /\ b.mem[m][a] = f[m][a]) \/ (~v /\ Reaches(Comparison, s))

\* The second part of a write is the next call, or the one behind the first part.
Filled(s) == \A i \in DOMAIN s : IsWhat(s[i]) => i = 1 \/ (i = 2 /\ IsWhere(s[1]))

\* What is still to be written is for a memory that will be read from.
PendingOK(f, s, b) ==
  s # <<>> /\ IsWhat(Head(s)) /\ b.pending # NoWrite =>
    \A m \in Images : m = Memory(b.pending.space) => \A a \in DOMAIN f[m] : Reaches(Reading(m, a), s)

ImageOK(f, s, d, b) ==
  /\ \A m \in Images : \A a \in DOMAIN f[m] : ByteOK(f, s, d.verified, b, m, a)
  /\ d.assigned \/ Prepared(s)
  /\ Filled(s)
  /\ PendingOK(f, s, b)

\* A call is done.
LEMMA ImageTail ==
  ASSUME NEW f, NEW s, IsSeq(s), s # <<>>, NEW d, NEW e, NEW b, ImageOK(f, s, d, b),
         IsVerify(Head(s)) => /\ e.verified => d.verified
                              /\ e.verified => \A m \in Images : \A a \in DOMAIN f[m] :
                                   Closes(Reading(m, a), Head(s)) => b.mem[m][a] = f[m][a],
         ~IsVerify(Head(s)) => (e.verified <=> d.verified),
         Closes(Comparison, Head(s)) => d.verified,
         d.assigned => e.assigned,
         TurnsOn("mode", Head(s)) => d.assigned,
         IsWhere(Head(s)) => b.pending \in {Head(s).q, NoWrite}
  PROVE  ImageOK(f, Tail(s), e, b)
<1> DEFINE t == Head(s)
           u == Tail(s)
           n == Len(s)
<1>1. /\ n \in Nat /\ n >= 1 /\ DOMAIN s = 1 .. n /\ t = s[1]
      /\ DOMAIN u = 1 .. n - 1
      /\ \A i \in 1 .. n - 1 : u[i] = s[i + 1]
  <2>1. IsSeq(u) /\ Len(u) = n - 1
    BY TailFacts
  <2> QED
    BY <2>1, TailFacts, SeqFacts
<1>2. \A k : /\ Followed(k, s) => Followed(k, u)
             /\ Reaches(k, s) <=> Closes(k, t) \/ Reaches(k, u)
             /\ Followed(k, s) /\ Opens(k, t) => Reaches(k, u)
  BY FollowedTail
<1>3. /\ \A m, a : Closes(Reading(m, a), t) => IsVerify(t)
      /\ IsVerify(t) => Opens(Comparison, t)
      /\ \A m, a : Writes(t, m) => Opens(Reading(m, a), t)
  BY DEF Closes, Opens, Reading, Comparison
<1>4. ASSUME NEW m \in Images, NEW a \in DOMAIN f[m]
      PROVE  ByteOK(f, u, e.verified, b, m, a)
  <2>1. ByteOK(f, s, d.verified, b, m, a)
    BY DEF ImageOK
  <2>2. Follows(u, m, a)
    BY <1>2, <2>1 DEF ByteOK, Follows
  <2>3. CASE IsVerify(t)
    <3>1. Reaches(Comparison, u)
      BY <1>2, <1>3, <2>1, <2>3 DEF ByteOK, Follows
    <3>2. CASE Closes(Reading(m, a), t)
      <4>1. e.verified => b.mem[m][a] = f[m][a]
        BY <2>3, <3>2
      <4> QED
        BY <2>2, <3>1, <4>1 DEF ByteOK
    <3>3. CASE ~Closes(Reading(m, a), t)
      <4>1. e.verified => d.verified
        BY <2>3
      <4>2. Reaches(Reading(m, a), u) \/ (d.verified /\ b.mem[m][a] = f[m][a]) \/ ~d.verified
        BY <1>2, <2>1, <3>3 DEF ByteOK
      <4> QED
        BY <2>2, <3>1, <4>1, <4>2 DEF ByteOK
    <3> QED
      BY <3>2, <3>3
  <2>4. CASE ~IsVerify(t)
    <3>1. (e.verified <=> d.verified) /\ ~Closes(Reading(m, a), t)
      BY <1>3, <2>4
    <3>2. ~d.verified /\ Reaches(Comparison, s) => Reaches(Comparison, u)
      BY <1>2
    <3> QED
      BY <1>2, <2>1, <2>2, <3>1, <3>2 DEF ByteOK
  <2> QED
    BY <2>3, <2>4
<1>5. e.assigned \/ Prepared(u)
  <2>1. CASE Prepared(s) /\ ~TurnsOn("mode", t)
    <3>1. PICK i \in 1 .. n : TurnsOn("mode", s[i]) /\ \A j \in 1 .. i : s[j].op = "cmd"
      BY <1>1, <2>1 DEF Prepared
    <3>2. i # 1
      BY <1>1, <2>1, <3>1
    <3>3. i - 1 \in 1 .. n - 1 /\ u[i - 1] = s[i]
      <4>1. i - 1 \in 1 .. n - 1 /\ (i - 1) + 1 = i
        BY <1>1, <3>2
      <4> QED
        BY <1>1, <4>1
    <3>4. ASSUME NEW j \in 1 .. i - 1
          PROVE  u[j].op = "cmd"
      <4>1. j \in 1 .. n - 1 /\ j + 1 \in 1 .. i
        BY <1>1
      <4> QED
        BY <1>1, <3>1, <4>1
    <3> QED
      BY <1>1, <3>1, <3>3, <3>4 DEF Prepared
  <2> QED
    BY <2>1 DEF ImageOK
<1>6. Filled(s)
  BY DEF ImageOK
<1>7. ASSUME NEW i \in 1 .. n - 1, IsWhat(u[i])
      PROVE  i = 1 /\ IsWhere(t)
  <2>1. i + 1 \in 1 .. n /\ i + 1 # 1
    BY <1>1
  <2>2. IsWhat(s[i + 1])
    BY <1>1, <1>7
  <2>3. i + 1 = 2 /\ IsWhere(s[1])
    BY <1>1, <1>6, <2>1, <2>2 DEF Filled
  <2> QED
    BY <1>1, <2>3
<1>8. Filled(u)
  BY <1>1, <1>7 DEF Filled
<1>9. PendingOK(f, u, b)
  <2> SUFFICES ASSUME u # <<>>, IsWhat(Head(u)), b.pending # NoWrite,
                      NEW m \in Images, m = Memory(b.pending.space), NEW a \in DOMAIN f[m]
               PROVE  Reaches(Reading(m, a), u)
    BY DEF PendingOK
  <2>1. 1 \in DOMAIN u /\ Head(u) = u[1]
    <3>1. IsSeq(u)
      BY TailFacts
    <3> HIDE DEF u
    <3> QED
      BY <3>1, SeqFacts
  <2>2. IsWhere(t)
    BY <1>1, <1>7, <2>1
  <2>3. b.pending = t.q
    BY <2>2
  <2>4. Writes(t, m)
    BY <2>2, <2>3 DEF Writes
  <2>5. Followed(Reading(m, a), s)
    BY DEF ImageOK, ByteOK, Follows
  <2> QED
    BY <1>2, <1>3, <2>4, <2>5
<1> QED
  BY <1>4, <1>5, <1>8, <1>9 DEF ImageOK

\* Behind the last call come others that have nothing to do with it.
LEMMA ImagePlain ==
  ASSUME NEW f, NEW s, Plain(s), NEW d, NEW b, ImageOK(f, <<>>, d, b)
  PROVE  ImageOK(f, s, d, b)
<1>1. \A k : ~Reaches(k, <<>>)
  BY EmptyFacts DEF Reaches
<1>2. d.assigned
  <2>1. ~Prepared(<<>>)
    BY EmptyFacts DEF Prepared
  <2> QED
    BY <2>1 DEF ImageOK
<1>3. \A m \in Images : \A a \in DOMAIN f[m] : d.verified /\ b.mem[m][a] = f[m][a]
  BY <1>1 DEF ImageOK, ByteOK
<1>4. \A m \in Images : \A a : Follows(s, m, a)
  BY PlainFacts
<1>5. \A i \in DOMAIN s : ~IsWhat(s[i])
  <2>1. \A t : PlainItem(t) => ~IsWhat(t)
    BY DEF PlainItem, IsWhat
  <2> QED
    BY <2>1 DEF Plain
<1>6. Filled(s)
  BY <1>5 DEF Filled
<1>7. PendingOK(f, s, b)
  <2>1. s # <<>> => 1 \in DOMAIN s /\ Head(s) = s[1]
    BY SeqFacts DEF Plain
  <2> QED
    BY <1>5, <2>1 DEF PendingOK
<1> QED
  BY <1>2, <1>3, <1>4, <1>6, <1>7 DEF ImageOK, ByteOK

\* A driver that knows more.
LEMMA ImageDriver ==
  ASSUME NEW f, NEW s, NEW d, NEW e, NEW b, ImageOK(f, s, d, b), e.verified = d.verified, d.assigned => e.assigned
  PROVE  ImageOK(f, s, e, b)
  BY DEF ImageOK

\* A write is made of its two parts.
LEMMA ImageWrite ==
  ASSUME NEW f, NEW s, IsSeq(s), s # <<>>, NEW d, NEW b, ImageOK(f, s, d, b), Head(s).op = "write",
         NEW q, NEW r, q.cmd = "W", r.cmd = "h", \A m \in Images : Memory(q.space) = m => Writes(Head(s), m)
  PROVE  /\ ImageOK(f, <<Do(q), Do(r)>> \o Tail(s), d, b)
         /\ \A x : Reaches(Telling(x), s) => Reaches(Telling(x), <<Do(q), Do(r)>> \o Tail(s))
<1> DEFINE t == Head(s)
           u == Tail(s)
           x == <<Do(q), Do(r)>>
           y == x \o u
           n == Len(s)
<1>1. /\ n \in Nat /\ n >= 1 /\ DOMAIN s = 1 .. n /\ t = s[1] /\ IsSeq(u)
      /\ DOMAIN u = 1 .. n - 1 /\ Len(u) = n - 1
      /\ \A i \in 1 .. n - 1 : u[i] = s[i + 1]
  <2>1. IsSeq(u) /\ Len(u) = n - 1
    BY TailFacts
  <2> QED
    BY <2>1, TailFacts, SeqFacts
<1>2. /\ Do(q).op = "cmd" /\ Do(q).q = q /\ Do(r).op = "cmd" /\ Do(r).q = r
  BY DEF Do
<1>3. IsSeq(x) /\ DOMAIN x = 1 .. 2 /\ Len(x) = 2 /\ x[1] = Do(q) /\ x[2] = Do(r)
  <2> DEFINE a == Do(q)
             c == Do(r)
  <2> HIDE DEF a, c
  <2>1. <<a, c>> \in Seq({a, c}) /\ DOMAIN <<a, c>> = 1 .. 2 /\ Len(<<a, c>>) = 2
        /\ <<a, c>>[1] = a /\ <<a, c>>[2] = c
    OBVIOUS
  <2>2. IsSeq(<<a, c>>)
    BY <2>1, SeqIsSeq
  <2> QED
    BY <2>1, <2>2 DEF a, c
<1> HIDE DEF x
<1>4. /\ IsSeq(y) /\ DOMAIN y = 1 .. 2 + (n - 1) /\ y[1] = Do(q) /\ y[2] = Do(r)
      /\ \A i \in 1 .. n - 1 : y[2 + i] = u[i]
  <2> HIDE DEF u, n
  <2>0. IsSeq(x) /\ IsSeq(u)
    BY <1>1, <1>3
  <2>5. /\ IsSeq(y) /\ Len(y) = Len(x) + Len(u)
        /\ \A i \in 1 .. Len(x) : y[i] = x[i]
        /\ \A i \in 1 .. Len(u) : y[Len(x) + i] = u[i]
    BY <2>0, ConcatFacts
  <2> HIDE DEF y
  <2>1. IsSeq(y) /\ Len(y) = 2 + (n - 1)
    BY <1>1, <1>3, <2>5
  <2>2. DOMAIN y = 1 .. 2 + (n - 1)
    BY <2>1, SeqFacts
  <2>3. y[1] = x[1] /\ y[2] = x[2]
    BY <1>3, <2>5
  <2>4. \A i \in 1 .. n - 1 : y[2 + i] = u[i]
    BY <1>1, <1>3, <2>5
  <2> QED
    BY <1>3, <2>1, <2>2, <2>3, <2>4
<1>5. \A k : /\ Followed(k, s) => Followed(k, u)
             /\ Reaches(k, s) <=> Closes(k, t) \/ Reaches(k, u)
             /\ Followed(k, s) /\ Opens(k, t) => Reaches(k, u)
  BY FollowedTail
<1>6. \A k : Reaches(k, y) <=> Reaches(k, x) \/ Reaches(k, u)
  BY <1>1, <1>3, ReachesConcat
<1>7. \A k : Followed(k, u) /\ (Followed(k, x) \/ Reaches(k, u)) => Followed(k, y)
  BY <1>1, <1>3, FollowedConcat
<1>8. /\ \A m, a : ~Closes(Reading(m, a), t) /\ ~Closes(Reading(m, a), Do(q)) /\ ~Closes(Reading(m, a), Do(r))
      /\ ~Closes(Comparison, t) /\ ~Closes(Comparison, Do(q)) /\ ~Closes(Comparison, Do(r))
      /\ \A z : ~Closes(Telling(z), t)
  BY <1>2 DEF Closes, Reading, Comparison, Telling, IsVerify
<1>9. /\ ~Opens(Comparison, Do(q)) /\ ~Opens(Comparison, Do(r))
      /\ \A m, a : /\ Opens(Reading(m, a), Do(q)) <=> Memory(q.space) = m
                   /\ ~Opens(Reading(m, a), Do(r))
                   /\ Opens(Reading(m, a), t) <=> Writes(t, m)
  BY <1>2 DEF Opens, Reading, Comparison, IsVerify, Writes, IsWhere
<1> HIDE DEF t, u, y
<1>10. \A k : (Closes(k, Do(q)) \/ Closes(k, Do(r))) <=> Reaches(k, x)
  BY <1>3 DEF Reaches
<1>11. \A k : ~Opens(k, Do(q)) /\ ~Opens(k, Do(r)) => Followed(k, x)
  BY <1>3 DEF Followed
<1>12. ASSUME NEW m \in Images, NEW a \in DOMAIN f[m]
       PROVE  ByteOK(f, y, d.verified, b, m, a)
  <2>1. ByteOK(f, s, d.verified, b, m, a)
    BY DEF ImageOK
  <2>2. Reaches(Reading(m, a), y) <=> Reaches(Reading(m, a), s)
    BY <1>5, <1>6, <1>8, <1>10
  <2>3. Reaches(Comparison, y) <=> Reaches(Comparison, s)
    BY <1>5, <1>6, <1>8, <1>10
  <2>4. Followed(Comparison, y)
    BY <1>5, <1>7, <1>9, <1>11, <2>1 DEF ByteOK, Follows
  <2>5. Followed(Reading(m, a), s)
    BY <2>1 DEF ByteOK, Follows
  <2>6. Followed(Reading(m, a), y)
    <3>1. CASE Memory(q.space) = m
      <4>1. Writes(t, m)
        BY <3>1 DEF t
      <4>2. Reaches(Reading(m, a), u)
        BY <1>5, <1>9, <2>5, <4>1
      <4> QED
        BY <1>5, <1>7, <2>5, <4>2
    <3>2. CASE Memory(q.space) # m
      BY <1>5, <1>7, <1>9, <1>11, <2>5, <3>2
    <3> QED
      BY <3>1, <3>2
  <2> QED
    BY <2>1, <2>2, <2>3, <2>4, <2>6 DEF ByteOK, Follows
<1>13. d.assigned
  <2>1. ~Prepared(s)
    <3>1. SUFFICES ASSUME NEW i \in 1 .. n, \A j \in 1 .. i : s[j].op = "cmd" PROVE FALSE
      BY <1>1 DEF Prepared
    <3>2. 1 \in 1 .. i
      BY <1>1
    <3> QED
      BY <1>1, <3>1, <3>2 DEF t
  <2> QED
    BY <2>1 DEF ImageOK
<1>14. Filled(y)
  <2>1. Filled(s) /\ ~IsWhere(s[1])
    BY <1>1 DEF ImageOK, IsWhere, t
  <2>2. ASSUME NEW i \in 1 .. n - 1
        PROVE  ~IsWhat(y[2 + i])
    <3>1. i + 1 \in 1 .. n /\ i + 1 # 1
      BY <1>1
    <3>2. y[2 + i] = s[i + 1]
      BY <1>1, <1>4
    <3> QED
      BY <1>1, <2>1, <3>1, <3>2 DEF Filled
  <2>3. IsWhere(y[1])
    BY <1>2, <1>4 DEF IsWhere
  <2>4. \A i \in 1 .. 2 + (n - 1) : i = 1 \/ i = 2 \/ \E j \in 1 .. n - 1 : i = 2 + j
    <3> TAKE i \in 1 .. 2 + (n - 1)
    <3>1. i = 1 \/ i = 2 \/ (i - 2 \in 1 .. n - 1 /\ i = 2 + (i - 2))
      BY <1>1
    <3> QED
      BY <3>1
  <2> QED
    BY <1>4, <2>2, <2>3, <2>4 DEF Filled
<1>15. PendingOK(f, y, b)
  <2>1. y # <<>> => Head(y) = y[1]
    BY <1>4, SeqFacts
  <2>2. ~IsWhat(y[1])
    BY <1>2, <1>4 DEF IsWhat
  <2> QED
    BY <2>1, <2>2 DEF PendingOK
<1>16. \A z : Reaches(Telling(z), s) => Reaches(Telling(z), y)
  BY <1>5, <1>6, <1>8
<1>17. ImageOK(f, y, d, b)
  BY <1>12, <1>13, <1>14, <1>15 DEF ImageOK
<1> QED
  BY <1>16, <1>17 DEF y, x, u

\* What the emulator does with a request keeps the bytes that have been
\* compared, or are not going to be read.
LEMMA ImageBox ==
  ASSUME NEW f, NEW s, s # <<>>, NEW d, NEW b, NEW c, ImageOK(f, s, d, b), NEW q, Leaves(q, b, c),
         DOMAIN b.mem = Memories, q.cmd # "a5", q.cmd \in {"W", "h"} => Head(s).op = "cmd" /\ Head(s).q = q
  PROVE  ImageOK(f, s, d, c)
<1>1. q.cmd = "h" => IsWhat(Head(s))
  BY DEF IsWhat
<1>2. q.cmd = "W" => ~IsWhat(Head(s))
  BY DEF IsWhat
<1>3. Images \subseteq Memories
  BY DEF Images, Memories
<1>4. ASSUME NEW m \in Images, NEW a \in DOMAIN f[m]
      PROVE  ByteOK(f, s, d.verified, c, m, a)
  <2>1. ByteOK(f, s, d.verified, b, m, a)
    BY DEF ImageOK
  <2>2. c.mem[m] = b.mem[m] \/ (q.cmd = "h" /\ b.pending # NoWrite /\ m = Memory(b.pending.space))
    <3>1. CASE q.cmd # "h"
      BY <3>1 DEF Leaves
    <3>2. CASE q.cmd = "h"
      BY <1>3, <3>2 DEF Leaves
    <3> QED
      BY <3>1, <3>2
  <2>3. q.cmd = "h" /\ b.pending # NoWrite /\ m = Memory(b.pending.space) => Reaches(Reading(m, a), s)
    BY <1>1 DEF ImageOK, PendingOK
  <2> QED
    BY <2>1, <2>2, <2>3 DEF ByteOK
<1>5. PendingOK(f, s, c)
  <2>1. c.pending \in {b.pending, NoWrite} \/ (q.cmd = "W" /\ c.pending = q)
    BY DEF Leaves
  <2>2. PendingOK(f, s, b)
    BY DEF ImageOK
  <2> QED
    BY <1>2, <2>1, <2>2 DEF PendingOK
<1> QED
  BY <1>4, <1>5 DEF ImageOK

\* The sizes of the pages are kept, or set, by what the emulator does.
LEMMA SizesBox ==
  ASSUME NEW s, IsSeq(s), s # <<>>, NEW device, NEW b, NEW c, SizesOK(s, device, b), NEW q, Leaves(q, b, c),
         SizeItems \subseteq DOMAIN b.params, q.cmd # "descriptor",
         q.cmd = "B" => Head(s).op = "cmd" /\ Head(s).q = q
  PROVE  SizesOK(s, device, c)
<1> SUFFICES ASSUME NEW x \in SizeItems, ~Reaches(Telling(x), s) PROVE c.params[x] = SizeOf(x, device)
  BY DEF SizesOK
<1>1. b.params[x] = SizeOf(x, device)
  BY DEF SizesOK
<1>2. ~Closes(Telling(x), Head(s))
  BY FollowedTail
<1>3. q.cmd = "B" => q.item # x
  BY <1>2 DEF Closes, Telling
<1>4. c.params[x] = b.params[x]
  BY <1>3 DEF Leaves
<1> QED
  BY <1>1, <1>4

LEMMA SizesTail ==
  ASSUME NEW s, IsSeq(s), s # <<>>, NEW device, NEW b, SizesOK(s, device, b),
         \A x \in SizeItems : Closes(Telling(x), Head(s)) => b.params[x] = SizeOf(x, device)
  PROVE  SizesOK(Tail(s), device, b)
<1>1. \A k : Reaches(k, s) <=> Closes(k, Head(s)) \/ Reaches(k, Tail(s))
  BY FollowedTail
<1> QED
  BY <1>1 DEF SizesOK

\* What is true of the target from the download on.  A file that is not there
\* ends it.
FileOK(o, s, d, b, accesses) ==
  /\ o.text["f"] \in DOMAIN Files
  /\ SizesOK(s, d.device, b)
  /\ Verify(o) /\ accesses = 0 => ImageOK(Files[o.text["f"]], s, d, b)

Behind == LateSteps \cup {"ended"}
NoFile == main = "download" /\ todo = <<check("never", <<>>)>>
FileInv == main \in Behind /\ opts.text["f"] # "" => NoFile \/ FileOK(opts, todo, drv, ice, gdb.accesses)

LEMMA FileDriver ==
  ASSUME NEW o, NEW s, NEW d, NEW e, NEW b, NEW n, FileOK(o, s, d, b, n),
         e.device = d.device, e.verified = d.verified, d.assigned => e.assigned
  PROVE  FileOK(o, s, e, b, n)
  BY ImageDriver DEF FileOK

LEMMA NoFileHead == NoFile => todo # <<>> /\ Head(todo) = check("never", <<>>) /\ Head(todo).op = "check"
<1> DEFINE c == check("never", <<>>)
<1>1. c.op = "check"
  BY DEF check
<1> HIDE DEF c
<1>2. <<c>> # <<>> /\ Head(<<c>>) = c
  OBVIOUS
<1> QED
  BY <1>1, <1>2 DEF NoFile, c

\* What the program has to keep within a step.
LEMMA FileKeeps ==
  ASSUME FileInv, main' = main, opts' = opts, NoFile => todo' = todo,
         main \in Behind /\ opts.text["f"] # "" /\ ~NoFile /\ FileOK(opts, todo, drv, ice, gdb.accesses) =>
           FileOK(opts, todo', drv', ice', gdb'.accesses)
  PROVE  FileInv'
  BY DEF FileInv, NoFile

LEMMA BehindFacts ==
  /\ \A p \in {"options", "usage", "connect", "configured", "died", "init"} : p \notin Behind
  /\ LateSteps \subseteq Behind /\ (\A p \in Behind : p \in LateSteps \/ p = "ended")
  BY LateFacts DEF Behind

LEMMA FileStart ==
  ASSUME Shape, TodoInv, FileInv, StartCall
  PROVE  FileInv'
<1> DEFINE t == Head(todo)
           w == WriteRequests(t.m, t.addr, t.bytes, drv.programmingEnabled)
<1>1. /\ todo # <<>> /\ main' = main /\ gdb' = gdb /\ ice' = ice
      /\ opts' = opts /\ t.op # "check"
  BY StartCallFacts DEF StartCall
<1>2. ~NoFile
  BY <1>1, NoFileHead
<1>3. CASE todo' = todo /\ (drv' = drv \/ \E q : drv' = Flagged(drv, q))
  <2>1. \A q : /\ Flagged(drv, q).device = drv.device /\ Flagged(drv, q).verified = drv.verified
               /\ drv.assigned => Flagged(drv, q).assigned
    BY DEF Flagged, Shape
  <2>2. drv'.device = drv.device /\ drv'.verified = drv.verified /\ (drv.assigned => drv'.assigned)
    BY <1>3, <2>1
  <2> QED
    BY <1>1, <1>2, <1>3, <2>2, FileKeeps, FileDriver
<1>4. CASE t.op = "write" /\ todo' = <<Do(w[1]), Do(w[2])>> \o Tail(todo) /\ drv' = drv
  <2>1. w[1].cmd = "W" /\ w[2].cmd = "h" /\ w[1].space = Space(t.m, drv.programmingEnabled)
    BY DEF WriteRequests
  <2>2. \A m \in Images : Memory(w[1].space) = m => Writes(t, m)
    <3> HIDE DEF w, t
    <3>1. ASSUME NEW m \in Images, Memory(w[1].space) = m
          PROVE  t.m = m \/ t.m \notin Memories
      BY <2>1, <3>1 DEF Space, Memory, Memories, Images
    <3> QED
      BY <1>4, <3>1 DEF Writes
  <2>3. IsSeq(todo)
    BY DEF TodoInv, TodoOK
  <2> DEFINE q == w[1]
             r == w[2]
  <2> HIDE DEF w, q, r
  <2>4. /\ q.cmd = "W" /\ r.cmd = "h" /\ (\A m \in Images : Memory(q.space) = m => Writes(t, m))
        /\ todo' = <<Do(q), Do(r)>> \o Tail(todo)
    BY <1>4, <2>1, <2>2 DEF q, r
  <2>5. ASSUME FileOK(opts, todo, drv, ice, gdb.accesses), NEW f, ImageOK(f, todo, drv, ice)
        PROVE  ImageOK(f, todo', drv, ice)
    BY <1>1, <1>4, <2>3, <2>4, <2>5, ImageWrite
  <2>6. ASSUME FileOK(opts, todo, drv, ice, gdb.accesses)
        PROVE  FileOK(opts, todo', drv, ice, gdb.accesses)
    <3>1. \A x : Reaches(Telling(x), todo) => Reaches(Telling(x), todo')
      <4> SUFFICES ASSUME NEW x, Reaches(Telling(x), todo) PROVE Reaches(Telling(x), todo')
        OBVIOUS
      <4>1. ~Closes(Telling(x), t)
        BY <1>4 DEF Closes, Telling
      <4>2. Reaches(Telling(x), Tail(todo))
        BY <1>1, <2>3, <4>1, FollowedTail
      <4>3. IsSeq(<<Do(q), Do(r)>>)
        <5> DEFINE a == Do(q)
                   c == Do(r)
        <5> HIDE DEF a, c
        <5>1. <<a, c>> \in Seq({a, c})
          OBVIOUS
        <5> QED
          BY <5>1, SeqIsSeq DEF a, c
      <4> QED
        BY <1>1, <2>3, <2>4, <4>2, <4>3, TailFacts, ReachesConcat
    <3>2. SizesOK(todo', drv.device, ice)
      BY <2>6, <3>1 DEF FileOK, SizesOK
    <3> QED
      BY <2>5, <2>6, <3>2 DEF FileOK
  <2> QED
    BY <1>1, <1>2, <1>4, <2>6, FileKeeps
<1>5. \/ todo' = todo /\ (drv' = drv \/ \E q : drv' = Flagged(drv, q))
      \/ t.op = "write" /\ todo' = <<Do(w[1]), Do(w[2])>> \o Tail(todo) /\ drv' = drv
  BY DEF StartCall
<1> QED
  BY <1>3, <1>4, <1>5

LEMMA FileCheck ==
  ASSUME TodoInv, FileInv, Check
  PROVE  FileInv'
<1> DEFINE t == Head(todo)
<1>1. todo # <<>> /\ t.op = "check" /\ IsSeq(todo) /\ ice' = ice
  BY DEF Check, TodoInv, TodoOK, linkVars
<1>2. CASE Quit("died")
  BY <1>2, BehindFacts DEF Quit, FileInv
<1>3. CASE Holds(t) /\ todo' = Tail(todo) /\ UNCHANGED <<opts, main, drv, gdb>>
  <2>1. ~NoFile
    <3>1. check("never", <<>>).what = "never"
      BY DEF check
    <3> QED
      BY <1>3, <3>1, NoFileHead DEF Holds
  <2>2. ~IsVerify(t) /\ ~TurnsOn("mode", t) /\ ~IsWhere(t) /\ \A x : ~Closes(Telling(x), t)
    BY <1>1 DEF IsVerify, TurnsOn, IsWhere, Closes, Telling
  <2>3. Closes(Comparison, t) => drv.verified
    <3>1. Closes(Comparison, t) => t.what = "verified"
      BY DEF Closes, Comparison
    <3> QED
      BY <1>3, <3>1 DEF Holds
  <2> HIDE DEF t
  <2>4. ASSUME FileOK(opts, todo, drv, ice, gdb.accesses)
        PROVE  FileOK(opts, Tail(todo), drv, ice, gdb.accesses)
    <3>1. SizesOK(Tail(todo), drv.device, ice)
      BY <1>1, <2>2, <2>4, SizesTail DEF FileOK, t
    <3>2. ASSUME NEW f, ImageOK(f, todo, drv, ice)
          PROVE  ImageOK(f, Tail(todo), drv, ice)
      BY <1>1, <2>2, <2>3, <3>2, ImageTail DEF t
    <3> QED
      BY <2>4, <3>1, <3>2 DEF FileOK
  <2> QED
    BY <1>1, <1>3, <2>1, <2>4, FileKeeps
<1>4. Quit("died") \/ (Holds(t) /\ todo' = Tail(todo) /\ UNCHANGED <<opts, main, drv, gdb>>)
  BY DEF Check
<1> QED
  BY <1>2, <1>3, <1>4

LEMMA FileBox ==
  ASSUME LineInv, BoxInv, TodoInv, CallInv, PartsInv, LateInv, FileInv, Box
  PROVE  FileInv'
<1> DEFINE t == Head(todo)
<1>1. ~Over /\ (Ice \/ Fault) /\ UNCHANGED <<opts, main, todo, drv, gdb>>
  BY DEF Box
<1>2. InCall /\ Leaves(Sent, ice, ice')
  BY <1>1, BoxStep, BoxLeaves, KnownRequest
<1>3. todo # <<>> /\ IsSeq(todo)
  BY <1>2 DEF CallInv, InCall, Phases, TodoInv, TodoOK
<1>4. Sent.cmd \in {" ", "S", "SE", "R"} \/ (t.op = "cmd" /\ Sent = t.q)
  BY <1>2, SentIs
<1>5. ASSUME main \in Behind
      PROVE  /\ Sent.cmd # "a5" /\ Sent.cmd # "descriptor"
             /\ Sent.cmd \in {"W", "h", "B"} => t.op = "cmd" /\ t.q = Sent
  <2>1. main \in LateSteps
    BY <1>1, <1>5, BehindFacts DEF Over
  <2>2. LateItem(main, drv.device, t)
    BY <1>3, <2>1, LateTail DEF LateInv
  <2>3. t.op = "cmd" => t.q.cmd \in LateCommands \cup {"B"}
    BY <2>2 DEF LateItem
  <2> HIDE DEF t
  <2> QED
    BY <1>4, <2>3 DEF LateCommands
<1>6. ASSUME main \in Behind, FileOK(opts, todo, drv, ice, gdb.accesses)
      PROVE  FileOK(opts, todo, drv, ice', gdb.accesses)
  <2> HIDE DEF t
  <2>1. SizesOK(todo, drv.device, ice')
    BY <1>2, <1>3, <1>5, <1>6, SizesBox DEF PartsInv, FileOK, t
  <2>2. ASSUME NEW f, ImageOK(f, todo, drv, ice)
        PROVE  ImageOK(f, todo, drv, ice')
    BY <1>2, <1>3, <1>5, <1>6, <2>2, ImageBox DEF PartsInv, t
  <2> QED
    BY <1>6, <2>1, <2>2 DEF FileOK
<1> QED
  BY <1>1, <1>6, FileKeeps

\* The bytes of a page that is found right are in memory.
LEMMA PageIsThere ==
  ASSUME LineInv, TodoInv, CallInv, AnswerInv, ModeInv, main \in LateSteps, call.phase = "done",
         CallOf(Head(todo), drv, call, got), LateItem(main, drv.device, Head(todo)), IsVerify(Head(todo)),
         got.ack, drv.assigned, NEW img, Verified(img, Head(todo).addr, ReadBytes(Head(todo))),
         NEW a \in DOMAIN img, a \in Head(todo).addr .. Head(todo).addr + PageSize - 1
  PROVE  ice.mem[Head(todo).m][a] = img[a]
<1> DEFINE t == Head(todo)
           pe == drv.programmingEnabled
<1>1. t.op = "read" /\ t.m \in Memories /\ t.addr \in Nat /\ t.n = PageSize
  <2>1. t.op = "read" /\ t.m \in Images /\ t.addr \in Nat /\ t.n = PageSize
    BY DEF IsVerify, LateItem
  <2> QED
    BY <2>1 DEF Images, Memories
<1>2. ice.progmode <=> pe
  <2>1. main \in StepSet \cup {"session"}
    BY LateFacts
  <2> QED
    BY <1>1, <2>1 DEF ModeInv, Changing
<1>3. /\ Says(ice, refused, call.q, got.ack, got.bytes)
      /\ call.q = ReadRequest(t.m, t.addr, t.n, pe)
  BY <1>1, AnswerSays
<1>4. got.bytes = Contents(ice, call.q.space, call.q.addr, call.q.n)
  <2>1. call.q.cmd = "R"
    BY <1>3 DEF ReadRequest
  <2> QED
    BY <1>3, <2>1 DEF Says
<1>5. ReadBytes(t) = ReadResult(t.m, t.addr, t.n, pe, got.bytes)
  BY DEF ReadBytes
<1>6. PageSize \in Nat
  BY PageSizeFact
<1>7. Verified(img, t.addr, ReadBytes(t)) /\ a \in t.addr .. t.addr + PageSize - 1
  OBVIOUS
<1> DEFINE m == t.m
           addr == t.addr
           n == t.n
<1> HIDE DEF t, pe
<1>8. m \in Memories /\ addr \in Nat /\ n \in Nat /\ n = PageSize
  BY <1>1, <1>6
<1>9. ReadsBack(ice, m, addr, n, pe)
  <2> HIDE DEF m, addr, n
  <2> QED
    BY <1>2, <1>8, ReadBack
<1>10. ReadBytes(t) = [i \in 1 .. n |-> ice.mem[m][addr + i - 1]]
  <2>1. call.q = ReadRequest(m, addr, n, pe) /\ ReadBytes(t) = ReadResult(m, addr, n, pe, got.bytes)
    BY <1>3, <1>5
  <2> HIDE DEF m, addr, n
  <2> QED
    BY <1>4, <1>9, <2>1 DEF ReadsBack
<1> DEFINE i == a - addr + 1
<1> HIDE DEF m, addr, n
<1>11. a \in addr .. addr + PageSize - 1 /\ Verified(img, addr, ReadBytes(t))
  BY <1>7 DEF addr
<1>12. i \in 1 .. n /\ addr + i - 1 = a
  BY <1>6, <1>8, <1>11
<1> HIDE DEF i
<1>13. img[addr + i - 1] = ReadBytes(t)[i]
  BY <1>8, <1>11, <1>12 DEF Verified
<1>14. ReadBytes(t)[i] = ice.mem[m][addr + i - 1]
  BY <1>10, <1>12
<1> QED
  BY <1>12, <1>13, <1>14 DEF m, t

LEMMA FileAnswered ==
  ASSUME Shape, LineInv, TodoInv, CallInv, AnswerInv, PartsInv, PendInv, ModeInv, LateInv, FileInv, Answered
  PROVE  FileInv'
<1> DEFINE t == Head(todo)
<1>1. /\ todo # <<>> /\ call.phase = "done" /\ CallOf(t, drv, call, got)
      /\ main \in StepSet \cup {"session"}
      /\ main' = main \/ main' = "died"
  BY AnsweredFacts DEF Died, GoesOn
<1>2. IsSeq(todo) /\ ice' = ice
  BY DEF TodoInv, TodoOK, Answered
<1>3. t.op \in {"cmd", "read", "sync"}
  BY <1>1 DEF CallOf
<1>4. ~NoFile
  BY <1>3, NoFileHead
<1>5. CASE main' \notin Behind
  BY <1>5 DEF FileInv
<1>6. CASE main' \in Behind
  <2>1. main' = main /\ main \in LateSteps
    BY <1>1, <1>6, BehindFacts, StepFacts
  <2>2. LateItem(main, drv.device, t)
    BY <1>1, <2>1, LateTail DEF LateInv
  <2>3. LateGoes(t)
    BY <1>6, <2>1, LateAnswered, BehindFacts
  <2>4. /\ opts' = opts /\ todo' = Tail(todo)
        /\ drv'.device = drv.device /\ drv'.assigned = drv.assigned
    BY <2>3 DEF LateGoes
  <2>5. gdb'.accesses = gdb.accesses
    <3>1. ~GdbAccess
      BY <1>1 DEF GdbAccess, Ready, Free
    <3> QED
      BY <3>1, AccessesNext DEF Next, Process
  <2>6. t.op = "cmd" => /\ Says(ice, refused, t.q, got.ack, got.bytes)
                        /\ FlagOK(drv, t.q)
                        /\ t.q.cmd = "W" => ice.pending \in {t.q, NoWrite}
    <3> SUFFICES ASSUME t.op = "cmd"
                 PROVE  /\ Says(ice, refused, t.q, got.ack, got.bytes)
                        /\ FlagOK(drv, t.q)
                        /\ t.q.cmd = "W" => ice.pending \in {t.q, NoWrite}
      OBVIOUS
    <3>1. /\ Says(ice, refused, t.q, got.ack, got.bytes) /\ FlagOK(drv, t.q)
      BY <1>1, AnswerSays
    <3>2. got.want = t.q
      BY <1>1 DEF CallOf
    <3> QED
      BY <1>1, <3>1, <3>2 DEF PendInv
  <2> HIDE DEF t
  <2>7. ASSUME NEW x \in SizeItems, Closes(Telling(x), t)
        PROVE  ice.params[x] = SizeOf(x, drv.device)
    <3>1. t.op = "cmd" /\ t.q.cmd = "B" /\ t.q.item = x
      BY <2>7 DEF Closes, Telling
    <3>2. t.q.value = SizeOf(x, drv.device)
      BY <2>2, <3>1 DEF LateItem, LateCommands
    <3>3. got.ack
      BY <2>3, <3>1 DEF LateGoes, Checked
    <3>4. ParameterSet(ice, t.q)
      BY <2>6, <3>1, <3>3 DEF Says
    <3>5. x \in DOMAIN ice.params \ {"BITRATE"}
      BY DEF PartsInv, SizeItems
    <3> QED
      BY <3>1, <3>2, <3>4, <3>5 DEF ParameterSet
  <2>8. ASSUME FileOK(opts, todo, drv, ice, gdb.accesses)
        PROVE  SizesOK(Tail(todo), drv'.device, ice)
    BY <1>1, <1>2, <2>4, <2>7, <2>8, SizesTail DEF FileOK, t
  <2>9. ASSUME ImageOK(Files[opts.text["f"]], todo, drv, ice)
        PROVE  ImageOK(Files[opts.text["f"]], Tail(todo), drv', ice)
    <3> DEFINE f == Files[opts.text["f"]]
    <3>1. ASSUME IsVerify(t), drv'.verified
          PROVE  /\ drv.verified
                 /\ \A m \in Images : \A a \in DOMAIN f[m] : Closes(Reading(m, a), t) => ice.mem[m][a] = f[m][a]
      <4>1. /\ got.ack /\ drv.verified
            /\ Verified(f[t.m], t.addr, ReadBytes(t))
        BY <2>3, <3>1 DEF LateGoes, IsVerify
      <4>2. drv.assigned
        <5>1. ~Prepared(todo)
          <6> SUFFICES ASSUME NEW i \in DOMAIN todo, \A j \in 1 .. i : todo[j].op = "cmd" PROVE FALSE
            BY DEF Prepared
          <6>1. 1 \in 1 .. i /\ t = todo[1]
            BY <1>1, <1>2, SeqFacts DEF t
          <6> QED
            BY <3>1, <6>1 DEF IsVerify
        <5> QED
          BY <2>9, <5>1 DEF ImageOK
      <4> HIDE DEF f
      <4>3. ASSUME NEW m \in Images, NEW a \in DOMAIN f[m], Closes(Reading(m, a), t)
            PROVE  ice.mem[m][a] = f[m][a]
        <5>1. t.m = m /\ a \in t.addr .. t.addr + PageSize - 1
          BY <4>3 DEF Closes, Reading
        <5> DEFINE img == f[m]
        <5>2. Verified(img, t.addr, ReadBytes(t)) /\ a \in DOMAIN img
          BY <4>1, <5>1
        <5> HIDE DEF img
        <5>3. ice.mem[t.m][a] = img[a]
          BY <1>1, <2>1, <2>2, <3>1, <4>1, <4>2, <5>1, <5>2, PageIsThere DEF t
        <5> QED
          BY <5>1, <5>3 DEF img
      <4> QED
        BY <4>1, <4>3
    <3>2. ASSUME ~IsVerify(t)
          PROVE  drv'.verified <=> drv.verified
      BY <2>3, <3>2 DEF LateGoes, IsVerify
    <3>3. ~Closes(Comparison, t)
      BY <1>3 DEF Closes, Comparison, t
    <3>4. TurnsOn("mode", t) => drv.assigned
      BY <2>6 DEF TurnsOn, FlagOK
    <3>5. IsWhere(t) => ice.pending \in {t.q, NoWrite}
      BY <2>6 DEF IsWhere
    <3> HIDE DEF f
    <3>6. ImageOK(f, todo, drv, ice)
      BY <2>9 DEF f
    <3>7. ImageOK(f, Tail(todo), drv', ice)
      BY <1>1, <1>2, <2>4, <3>1, <3>2, <3>3, <3>4, <3>5, <3>6, ImageTail DEF t
    <3> QED
      BY <3>7 DEF f
  <2>10. FileOK(opts, todo, drv, ice, gdb.accesses) => FileOK(opts, todo', drv', ice', gdb'.accesses)
    BY <1>2, <2>4, <2>5, <2>8, <2>9 DEF FileOK
  <2> QED
    BY <1>4, <2>1, <2>4, <2>10, FileKeeps
<1> QED
  BY <1>5, <1>6

-----------------------------------------------------------------------------
(* The rows of the table of devices: their names, and the sizes of pages.  *)

Names ==
  <<"atmega16", "atmega162", "atmega169", "atmega323", "atmega32", "atmega64", "atmega128",
    "at90can128", "atmega164p", "atmega324p", "atmega644", "atmega325", "atmega3250", "atmega645",
    "atmega6450", "atmega329", "atmega3290", "atmega649", "atmega6490", "atmega640", "atmega1280",
    "atmega1281", "atmega2560", "atmega2561", "atmega48", "atmega88", "atmega168", "attiny13",
    "attiny2313", "at90pwm2", "at90pwm3", "at90pwm2b", "at90pwm3b", "attiny24", "attiny44",
    "attiny84", "attiny25", "attiny45", "attiny85", "attiny261", "attiny461", "attiny861",
    "atmega32c1", "atmega32m1", "at90can32", "at90can64", "at90pwm216", "at90pwm316",
    "at90usb1287", "at90usb162", "at90usb646", "at90usb647", "atmega1284p", "atmega165",
    "atmega165p", "atmega168p", "atmega16hva", "atmega3250p", "atmega325p", "atmega328p",
    "atmega3290p", "atmega329p", "atmega32hvb", "atmega32u4", "atmega406", "atmega48p",
    "atmega644p", "atmega88p", "attiny167", "attiny43u", "attiny48", "attiny88",
    "atxmega128a1revd", "atxmega128a1", "atmega128rfa1">>

RowOK(row, name) ==
  /\ row.name = name /\ row.flash_page_size \in Nat
  /\ name \notin TooLarge => /\ row.flash_page_size \in 1 .. MAX_FLASH_PAGE_SIZE
                            /\ row.eeprom_page_size \in 1 .. MAX_EEPROM_PAGE_SIZE

LEMMA DistinctNames == \A i, j \in 1 .. 75 : Names[i] = Names[j] => i = j
  BY SMTT(60) DEF Names

LEMMA RowsOK ==
  /\ Len(deviceDefinitions) = 75
  /\ \A i \in 1 .. 75 : RowOK(deviceDefinitions[i], Names[i])
<1>1. /\ RowOK(atmega16, "atmega16") /\ RowOK(atmega162, "atmega162") /\ RowOK(atmega169, "atmega169")
      /\ RowOK(atmega323, "atmega323") /\ RowOK(atmega32, "atmega32") /\ RowOK(atmega64, "atmega64")
      /\ RowOK(atmega128, "atmega128") /\ RowOK(at90can128, "at90can128") /\ RowOK(atmega164p, "atmega164p")
      /\ RowOK(atmega324p, "atmega324p") /\ RowOK(atmega644, "atmega644") /\ RowOK(atmega325, "atmega325")
      /\ RowOK(atmega3250, "atmega3250") /\ RowOK(atmega645, "atmega645") /\ RowOK(atmega6450, "atmega6450")
  BY DEF atmega16, atmega162, atmega169, atmega323, atmega32, atmega64, atmega128, at90can128,
         atmega164p, atmega324p, atmega644, atmega325, atmega3250, atmega645, atmega6450, Device,
         RowOK, TooLarge, MAX_FLASH_PAGE_SIZE, MAX_EEPROM_PAGE_SIZE
<1>2. /\ RowOK(atmega329, "atmega329") /\ RowOK(atmega3290, "atmega3290") /\ RowOK(atmega649, "atmega649")
      /\ RowOK(atmega6490, "atmega6490") /\ RowOK(atmega640, "atmega640") /\ RowOK(atmega1280, "atmega1280")
      /\ RowOK(atmega1281, "atmega1281") /\ RowOK(atmega2560, "atmega2560") /\ RowOK(atmega2561, "atmega2561")
      /\ RowOK(atmega48, "atmega48") /\ RowOK(atmega88, "atmega88") /\ RowOK(atmega168, "atmega168")
      /\ RowOK(attiny13, "attiny13") /\ RowOK(attiny2313, "attiny2313") /\ RowOK(at90pwm2, "at90pwm2")
  BY DEF atmega329, atmega3290, atmega649, atmega6490, atmega640, atmega1280, atmega1281,
         atmega2560, atmega2561, atmega48, atmega88, atmega168, attiny13, attiny2313, at90pwm2,
         Device, RowOK, TooLarge, MAX_FLASH_PAGE_SIZE, MAX_EEPROM_PAGE_SIZE
<1>3. /\ RowOK(at90pwm3, "at90pwm3") /\ RowOK(at90pwm2b, "at90pwm2b") /\ RowOK(at90pwm3b, "at90pwm3b")
      /\ RowOK(attiny24, "attiny24") /\ RowOK(attiny44, "attiny44") /\ RowOK(attiny84, "attiny84")
      /\ RowOK(attiny25, "attiny25") /\ RowOK(attiny45, "attiny45") /\ RowOK(attiny85, "attiny85")
      /\ RowOK(attiny261, "attiny261") /\ RowOK(attiny461, "attiny461") /\ RowOK(attiny861, "attiny861")
      /\ RowOK(atmega32c1, "atmega32c1") /\ RowOK(atmega32m1, "atmega32m1") /\ RowOK(at90can32, "at90can32")
  BY DEF at90pwm3, at90pwm2b, at90pwm3b, attiny24, attiny44, attiny84, attiny25, attiny45,
         attiny85, attiny261, attiny461, attiny861, atmega32c1, atmega32m1, at90can32, Device,
         RowOK, TooLarge, MAX_FLASH_PAGE_SIZE, MAX_EEPROM_PAGE_SIZE
<1>4. /\ RowOK(at90can64, "at90can64") /\ RowOK(at90pwm216, "at90pwm216") /\ RowOK(at90pwm316, "at90pwm316")
      /\ RowOK(at90usb1287, "at90usb1287") /\ RowOK(at90usb162, "at90usb162") /\ RowOK(at90usb646, "at90usb646")
      /\ RowOK(at90usb647, "at90usb647") /\ RowOK(atmega1284p, "atmega1284p") /\ RowOK(atmega165, "atmega165")
      /\ RowOK(atmega165p, "atmega165p") /\ RowOK(atmega168p, "atmega168p") /\ RowOK(atmega16hva, "atmega16hva")
      /\ RowOK(atmega3250p, "atmega3250p") /\ RowOK(atmega325p, "atmega325p") /\ RowOK(atmega328p, "atmega328p")
  BY DEF at90can64, at90pwm216, at90pwm316, at90usb1287, at90usb162, at90usb646, at90usb647,
         atmega1284p, atmega165, atmega165p, atmega168p, atmega16hva, atmega3250p, atmega325p,
         atmega328p, Device, RowOK, TooLarge, MAX_FLASH_PAGE_SIZE, MAX_EEPROM_PAGE_SIZE
<1>5. /\ RowOK(atmega3290p, "atmega3290p") /\ RowOK(atmega329p, "atmega329p") /\ RowOK(atmega32hvb, "atmega32hvb")
      /\ RowOK(atmega32u4, "atmega32u4") /\ RowOK(atmega406, "atmega406") /\ RowOK(atmega48p, "atmega48p")
      /\ RowOK(atmega644p, "atmega644p") /\ RowOK(atmega88p, "atmega88p") /\ RowOK(attiny167, "attiny167")
      /\ RowOK(attiny43u, "attiny43u") /\ RowOK(attiny48, "attiny48") /\ RowOK(attiny88, "attiny88")
      /\ RowOK(atxmega128a1revd, "atxmega128a1revd") /\ RowOK(atxmega128a1, "atxmega128a1") /\ RowOK(atmega128rfa1, "atmega128rfa1")
  BY DEF atmega3290p, atmega329p, atmega32hvb, atmega32u4, atmega406, atmega48p, atmega644p,
         atmega88p, attiny167, attiny43u, attiny48, attiny88, atxmega128a1revd, atxmega128a1,
         atmega128rfa1, Device, RowOK, TooLarge, MAX_FLASH_PAGE_SIZE, MAX_EEPROM_PAGE_SIZE
<1>6. Len(deviceDefinitions) = 75
  BY SMTT(60) DEF deviceDefinitions
<1>7. \A i \in 1 .. 75 : RowOK(deviceDefinitions[i], Names[i])
  BY <1>1, <1>2, <1>3, <1>4, <1>5, SMTT(60) DEF deviceDefinitions, Names
<1> QED
  BY <1>6, <1>7

HasSize(row) == row.flash_page_size \in Nat

\* What a search finds.
LEMMA FoundRow ==
  ASSUME NEW S \in SUBSET Rows
  PROVE  \/ S = {} /\ First(S) = Terminator
         \/ \E i \in S : First(S) = deviceDefinitions[i]
<1>1. CASE S = {}
  BY <1>1 DEF First
<1>2. CASE S # {}
  <2>0. Rows = 1 .. 75
    BY RowsOK DEF Rows
  <2>1. S \subseteq Nat
    BY <2>0
  <2>2. PICK i \in S : \A j \in S : i <= j
    BY <1>2, <2>1, Least
  <2> DEFINE c == CHOOSE x \in S : \A j \in S : x <= j
  <2>3. c \in S
    BY <2>2
  <2>4. First(S) = deviceDefinitions[c]
    BY <1>2 DEF First
  <2> HIDE DEF c
  <2> QED
    BY <2>3, <2>4
<1> QED
  BY <1>1, <1>2

LEMMA RowSizes == \A name : HasSize(ByName(name))
<1> TAKE name
<1> DEFINE S == {i \in Rows : deviceDefinitions[i].name = name}
<1>1. HasSize(Terminator)
  BY DEF Terminator, Device, HasSize
<1>2. \A i \in S : HasSize(deviceDefinitions[i])
  BY RowsOK DEF Rows, RowOK, HasSize
<1>3. S \in SUBSET Rows /\ ByName(name) = First(S)
  BY DEF ByName
<1> HIDE DEF S
<1> QED
  BY <1>1, <1>2, <1>3, FoundRow

\* The row of a name is known by it; any row that is known is found by its name.
LEMMA KnownRows ==
  /\ \A name : Known(ByName(name)) => ByName(name).name = name
  /\ \A id : Known(ById(id)) => ById(id).device_id = id /\ ByName(ById(id).name) = ById(id)
  /\ \A name : Known(ByName(name)) /\ name \notin TooLarge =>
                 /\ ByName(name).flash_page_size \in 1 .. MAX_FLASH_PAGE_SIZE
                 /\ ByName(name).eeprom_page_size \in 1 .. MAX_EEPROM_PAGE_SIZE
<1>0. /\ Rows = 1 .. 75
      /\ \A i \in 1 .. 75 : RowOK(deviceDefinitions[i], Names[i])
  BY RowsOK DEF Rows
<1>1. ASSUME NEW name, Known(ByName(name))
      PROVE  \E i \in 1 .. 75 : ByName(name) = deviceDefinitions[i] /\ Names[i] = name
  <2> DEFINE S == {i \in Rows : deviceDefinitions[i].name = name}
  <2>1. S \in SUBSET Rows /\ ByName(name) = First(S)
    BY DEF ByName
  <2>2. \A i \in S : i \in 1 .. 75 /\ Names[i] = name
    BY <1>0 DEF RowOK
  <2> HIDE DEF S
  <2> QED
    BY <1>1, <2>1, <2>2, FoundRow DEF Known
<1>2. ASSUME NEW id, Known(ById(id))
      PROVE  \E i \in 1 .. 75 : ById(id) = deviceDefinitions[i] /\ deviceDefinitions[i].device_id = id
  <2> DEFINE S == {i \in Rows : deviceDefinitions[i].device_id = id}
  <2>1. S \in SUBSET Rows /\ ById(id) = First(S)
    BY DEF ById
  <2>2. \A i \in S : i \in 1 .. 75 /\ deviceDefinitions[i].device_id = id
    BY <1>0
  <2> HIDE DEF S
  <2> QED
    BY <1>2, <2>1, <2>2, FoundRow DEF Known
<1>3. ASSUME NEW i \in 1 .. 75
      PROVE  ByName(Names[i]) = deviceDefinitions[i]
  <2> DEFINE S == {j \in Rows : deviceDefinitions[j].name = Names[i]}
  <2>1. S \in SUBSET Rows /\ ByName(Names[i]) = First(S)
    BY DEF ByName
  <2>2. S = {i}
    BY <1>0, DistinctNames DEF RowOK
  <2> HIDE DEF S
  <2> QED
    BY <2>1, <2>2, FoundRow
<1>4. ASSUME NEW name, Known(ByName(name))
      PROVE  ByName(name).name = name
  BY <1>0, <1>1, <1>4 DEF RowOK
<1>5. ASSUME NEW id, Known(ById(id))
      PROVE  ById(id).device_id = id /\ ByName(ById(id).name) = ById(id)
  <2>1. PICK i \in 1 .. 75 : ById(id) = deviceDefinitions[i] /\ deviceDefinitions[i].device_id = id
    BY <1>2, <1>5
  <2>2. ById(id).name = Names[i]
    BY <1>0, <2>1 DEF RowOK
  <2> QED
    BY <1>3, <2>1, <2>2
<1>6. ASSUME NEW name, Known(ByName(name)), name \notin TooLarge
      PROVE  /\ ByName(name).flash_page_size \in 1 .. MAX_FLASH_PAGE_SIZE
             /\ ByName(name).eeprom_page_size \in 1 .. MAX_EEPROM_PAGE_SIZE
  BY <1>0, <1>1, <1>6 DEF RowOK
<1> QED
  BY <1>4, <1>5, <1>6

LEMMA FirstCall == \A s : IsSeq(s) /\ s # <<>> => 1 \in DOMAIN s /\ Head(s) = s[1]
<1> SUFFICES ASSUME NEW s, IsSeq(s), s # <<>> PROVE 1 \in DOMAIN s /\ Head(s) = s[1]
  OBVIOUS
<1>1. Len(s) \in Nat /\ DOMAIN s = 1 .. Len(s) /\ Len(s) >= 1 /\ Head(s) = s[1]
  BY SeqFacts
<1> QED
  BY <1>1

LEMMA DownloadFacts ==
  /\ "download" \in StepSet
  /\ Later("download") => main \in {"writeLockBits", "resume", "session", "ended"}
<1>1. StepSet = {"init", "erase", "readFuses", "readLockBits", "writeFuses", "initOCD", "download",
                 "writeLockBits", "resume"}
  BY DEF StepSet, Steps
<1> DEFINE i == CHOOSE i \in 1 .. Len(Steps) : Steps[i] = "download"
<1>2. Len(Steps) = 9 /\ Steps[7] = "download" /\ Steps[8] = "writeLockBits" /\ Steps[9] = "resume"
  BY DEF Steps
<1>3. i \in 1 .. 9 /\ Steps[i] = "download"
  <2>1. 7 \in 1 .. Len(Steps) /\ Steps[7] = "download"
    BY <1>2
  <2>2. i \in 1 .. Len(Steps) /\ Steps[i] = "download"
    BY <2>1
  <2> QED
    BY <1>2, <2>2
<1>4. Later("download") <=> main \in {Steps[j] : j \in i + 1 .. Len(Steps)} \cup {"session", "ended"}
  BY DEF Later
<1> HIDE DEF i
<1>5. i = 7
  BY <1>3 DEF Steps
<1>6. \A j \in i + 1 .. Len(Steps) : j = 8 \/ j = 9
  BY <1>2, <1>5
<1> QED
  BY <1>1, <1>2, <1>4, <1>6

\* A step of main is done.
LEMMA FileStep ==
  ASSUME Shape, TodoInv, LateInv, FileInv, NextStep
  PROVE  FileInv'
<1> SUFFICES ASSUME main' \in Behind, opts.text["f"] # ""
             PROVE  NoFile' \/ FileOK(opts, todo', drv', ice', gdb'.accesses)
  BY DEF NextStep, FileInv
<1>1. /\ main \in StepSet /\ todo = <<>> /\ gdb' = gdb /\ ice' = ice
      /\ drv'.device = drv.device /\ drv'.verified = drv.verified /\ drv'.assigned = drv.assigned
  BY DEF NextStep, StepSet, linkVars, Shape
<1>2. \/ main = "resume" /\ main' = "ended" /\ todo' = <<>>
      \/ main = "writeLockBits" /\ main' = "session" /\ todo' = <<>>
      \/ main # "resume" /\ main' = After(main) /\ (main' \in StepSet => todo' = Calls(opts, main'))
  <2>1. "ended" \notin StepSet /\ "session" \notin StepSet
    BY StepFacts
  <2> QED
    BY <2>1, Zenon DEF NextStep
<1>3. CASE main' = "download"
  <2>1. todo' = downloadToTarget(opts, drv.device)
    <3>1. main' \in StepSet
      BY <1>3, DownloadFacts
    <3>2. main' # "ended" /\ main' # "session"
      BY <1>3
    <3> QED
      BY <1>2, <1>3, <3>1, <3>2, LateCalls
  <2>2. CASE opts.text["f"] \notin DOMAIN Files
    <3>1. todo' = <<check("never", <<>>)>>
      BY <2>1, <2>2 DEF downloadToTarget
    <3> QED
      BY <1>3, <3>1 DEF NoFile
  <2>3. CASE opts.text["f"] \in DOMAIN Files
    <3> DEFINE s == downloadToTarget(opts, drv.device)
               f == Files[opts.text["f"]]
    <3>1. /\ IsSeq(s) /\ Prepared(s) /\ ~Reaches(Filling, s)
          /\ \A x \in SizeItems : Reaches(Telling(x), s)
          /\ Verify(opts) => \A m \in Images : \A a \in DOMAIN f[m] :
                               Follows(s, m, a) /\ Reaches(Reading(m, a), s)
      BY <2>3, DownloadFollows
    <3> HIDE DEF s, f
    <3>2. \A i \in DOMAIN s : ~IsWhat(s[i])
      <4>1. \A t : IsWhat(t) => Closes(Filling, t)
        BY DEF Closes, Filling
      <4> QED
        BY <3>1, <4>1 DEF Reaches
    <3>3. PendingOK(f, s, ice)
      <4>0. IsSeq(s)
        BY <3>1
      <4>1. s # <<>> => 1 \in DOMAIN s /\ Head(s) = s[1]
        BY <4>0, FirstCall
      <4> QED
        BY <3>2, <4>1 DEF PendingOK
    <3>4. Verify(opts) => ImageOK(f, s, drv, ice)
      BY <3>1, <3>2, <3>3 DEF ImageOK, ByteOK, Filled
    <3>5. SizesOK(s, drv.device, ice)
      BY <3>1 DEF SizesOK
    <3>6. FileOK(opts, s, drv, ice, gdb.accesses)
      BY <2>3, <3>4, <3>5 DEF FileOK, f
    <3> QED
      BY <1>1, <2>1, <3>6, FileDriver DEF s
  <2> QED
    BY <2>2, <2>3
<1>4. CASE main' # "download"
  <2>1. \/ main \in {"resume", "writeLockBits"} /\ todo' = <<>>
        \/ main \in {"download", "writeLockBits"} /\ main' \in {"writeLockBits", "resume"} /\ todo' = Calls(opts, main')
    <3>1. CASE main # "resume" /\ main' = After(main) /\ (main' \in StepSet => todo' = Calls(opts, main'))
      <4>1. main' \in StepSet
        BY <1>1, <3>1, StepFacts
      <4>2. main' \in LateSteps
        BY <4>1, StepFacts, BehindFacts
      <4>3. main' \in {"writeLockBits", "resume"}
        BY <1>1, <1>4, <3>1, <4>2, LateFacts
      <4>4. main \in {"download", "writeLockBits"}
        BY <1>1, <3>1, <4>3, LateFacts
      <4> QED
        BY <3>1, <4>1, <4>3, <4>4
    <3> QED
      BY <1>2, <3>1
  <2>2. Plain(todo')
    <3>1. CASE todo' = <<>>
      BY <3>1, EmptyPlain
    <3>2. CASE main' \in {"writeLockBits", "resume"} /\ todo' = Calls(opts, main')
      BY <3>2, LateCalls
    <3> QED
      BY <2>1, <3>1, <3>2
  <2>3. main \in Behind /\ ~NoFile
    <3>1. main \in LateSteps
      BY <2>1 DEF LateSteps
    <3> QED
      BY <1>1, <3>1, BehindFacts, NoFileHead
  <2>4. FileOK(opts, <<>>, drv, ice, gdb.accesses)
    BY <1>1, <2>3 DEF FileInv
  <2>5. SizesOK(todo', drv.device, ice)
    <3>1. \A k : ~Reaches(k, <<>>)
      BY EmptyFacts DEF Reaches
    <3> QED
      BY <2>4, <3>1 DEF FileOK, SizesOK
  <2>6. ASSUME NEW f, ImageOK(f, <<>>, drv, ice)
        PROVE  ImageOK(f, todo', drv, ice)
    BY <2>2, <2>6, ImagePlain
  <2>7. FileOK(opts, todo', drv, ice, gdb.accesses)
    BY <2>4, <2>5, <2>6 DEF FileOK
  <2> QED
    BY <1>1, <2>7, FileDriver
<1> QED
  BY <1>3, <1>4

LEMMA InitFile == Init => FileInv
<1> SUFFICES ASSUME Init PROVE FileInv
  OBVIOUS
<1>1. main = "options"
  BY Zenon DEF Init
<1> QED
  BY <1>1, BehindFacts DEF FileInv

LEMMA FileNext ==
  /\ Shape /\ LineInv /\ BoxInv /\ TodoInv /\ CallInv /\ AnswerInv
  /\ PartsInv /\ PendInv /\ ModeInv /\ LateInv /\ FileInv /\ [Next]_vars
  => FileInv'
<1> SUFFICES ASSUME Shape, LineInv, BoxInv, TodoInv, CallInv, AnswerInv,
                    PartsInv, PendInv, ModeInv, LateInv, FileInv, [Next]_vars
             PROVE  FileInv'
  OBVIOUS
<1>1. CASE NextStep
  BY <1>1, FileStep
<1>2. CASE StartCall
  BY <1>2, FileStart
<1>3. CASE Check
  BY <1>3, FileCheck
<1>4. CASE Answered
  BY <1>4, FileAnswered
<1>5. CASE Box
  BY <1>5, FileBox
<1>6. ASSUME NEW where \in {"options", "usage", "connect", "configured", "died", "init"}, main' = where
      PROVE  FileInv'
  BY <1>6, BehindFacts DEF FileInv
<1>7. CASE GetOption \/ EndOfOptions \/ ConfigureMkII \/ Connect
  <2>1. main = "options" \/ main = "connect"
    BY <1>7, Zenon DEF GetOption, EndOfOptions, ConfigureMkII, Connect
  <2>2. main' \in {main, "usage", "connect", "configured", "died", "init"}
    BY <1>7 DEF GetOption, EndOfOptions, ConfigureMkII, Connect, Quit
  <2> QED
    BY <1>6, <2>1, <2>2
<1>8. CASE Dies
  BY <1>6, <1>8 DEF Dies, Quit
<1>9. CASE GdbAccess
  <2>1. /\ main = "session" /\ todo = <<>> /\ UNCHANGED <<main, opts, drv, ice>>
        /\ gdb'.accesses = gdb.accesses + 1
    BY <1>9 DEF GdbAccess, Ready, linkVars, Shape
  <2>2. gdb'.accesses # 0
    BY <2>1 DEF PartsInv
  <2>3. ~NoFile
    BY <2>1, NoFileHead
  <2>4. \A k : ~Reaches(k, <<>>)
    BY EmptyFacts DEF Reaches
  <2>5. FileOK(opts, todo, drv, ice, gdb.accesses) => FileOK(opts, todo', drv, ice, gdb'.accesses)
    BY <2>1, <2>2, <2>4 DEF FileOK, SizesOK
  <2> QED
    BY <2>1, <2>3, <2>5, FileKeeps
<1>10. ASSUME NEW b \in Breakpoints, Insert(b) \/ Remove(b)
       PROVE  FileInv'
  <2>1. /\ UNCHANGED <<main, opts, todo, ice>> /\ gdb'.accesses = gdb.accesses
        /\ drv'.device = drv.device /\ drv'.verified = drv.verified /\ drv'.assigned = drv.assigned
    BY <1>10 DEF Insert, Remove, linkVars, Shape
  <2> QED
    BY <2>1, FileDriver, FileKeeps
<1>11. CASE StartSync \/ Driver \/ Stays \/ UNCHANGED vars
  <2>1. UNCHANGED <<main, opts, todo, drv, gdb>>
    BY <1>11 DEF StartSync, Driver, Stays, vars
  <2>2. ice' = ice
    BY <1>11, HostLeaves DEF StartSync, startJtagLink, Driver, Stays, vars, linkVars
  <2> QED
    BY <2>1, <2>2, FileKeeps
<1> QED
  BY <1>1, <1>2, <1>3, <1>4, <1>5, <1>7, <1>8, <1>9, <1>10, <1>11 DEF Next, Process

-----------------------------------------------------------------------------
(* The theorems.                                                           *)

TargetInv == Shape /\ LineInv /\ BoxInv /\ TodoInv /\ CallInv /\ AnswerInv /\ SwitchInv /\ ReadInv

LEMMA InitTarget == Init => TargetInv
  BY InitShape, InitLine, InitTodo, InitBox, InitSwitch DEF TargetInv

LEMMA TargetNext == TargetInv /\ [Next]_vars => TargetInv'
<1> SUFFICES ASSUME TargetInv, [Next]_vars PROVE TargetInv'
  OBVIOUS
<1>1. Shape /\ LineInv /\ BoxInv /\ TodoInv /\ CallInv /\ AnswerInv /\ SwitchInv /\ ReadInv
  BY DEF TargetInv
<1>2. Shape' /\ LineInv'
  BY <1>1, ShapeNext, LineNext
<1>3. BoxInv' /\ TodoInv' /\ CallInv'
  BY <1>1, BoxNext, TodoNext, CallNext
<1>4. AnswerInv' /\ SwitchInv' /\ ReadInv'
  BY <1>1, AnswerNext, SwitchNext, ReadNext
<1> QED
  BY <1>2, <1>3, <1>4 DEF TargetInv

\* What GDB is given for the memory it asks for is what is in memory,
\* from odd addresses too, whether the words come swapped or not, whatever is
\* lost, damaged or refused on the way (jtagrw.cc:53 to 163); provided the flag
\* that decides about it has been given a value.
THEOREM ReadsSound == Spec => []GdbReadsMemory
<1>1. TargetInv => GdbReadsMemory
  BY DEF TargetInv, ReadInv
<1> QED
  BY <1>1, InitTarget, TargetNext, PTL DEF Spec

\* Between the steps of main the program of the target is stopped, unless the
\* emulator refused to stop it, and the target is not in programming mode,
\* although the step before may have turned on the one or the other (main.cc,
\* jtagio.cc:327, jtagprog.cc:38 to 60); if it was not in programming mode when
\* avarice was started.
THEOREM StepsSound ==
  ASSUME \A b \in Boxes : ~b.progmode
  PROVE  Spec => []StoppedBetweenSteps
<1>1. TargetInv => StoppedBetweenSteps
  <2> SUFFICES ASSUME TargetInv, SetUp, main # "ended", todo = <<>>
               PROVE  /\ ~ice.progmode /\ (drv.assigned => ~drv.programmingEnabled)
                      /\ "F" \notin refused /\ main # "resume" => ~ice.running
    BY DEF StoppedBetweenSteps
  <2>1. main \in StepSet \cup {"session"}
    BY DEF SetUp
  <2>2. ~HasOff("mode", todo) /\ ~HasOff("run", todo)
    BY OffFacts DEF TargetInv
  <2>3. SwitchInv /\ Fresh
    BY DEF TargetInv, Fresh
  <2> QED
    BY <2>1, <2>2, <2>3 DEF SwitchInv, Active
<1> QED
  BY <1>1, InitTarget, TargetNext, PTL DEF Spec

\* The whole of what is needed for the download.
DownloadInv == TargetInv /\ PartsInv /\ PendInv /\ ModeInv /\ LateInv /\ FileInv

LEMMA InitDownload == Init => DownloadInv
  BY InitTarget, InitParts, InitMode, InitLate, InitFile DEF DownloadInv

LEMMA DownloadNext == DownloadInv /\ [Next]_vars => DownloadInv'
<1> SUFFICES ASSUME DownloadInv, [Next]_vars PROVE DownloadInv'
  OBVIOUS
<1>1. /\ Shape /\ LineInv /\ BoxInv /\ TodoInv /\ CallInv /\ AnswerInv
      /\ PartsInv /\ PendInv /\ ModeInv /\ LateInv /\ FileInv
  BY DEF DownloadInv, TargetInv
<1>2. TargetInv'
  BY TargetNext DEF DownloadInv
<1>3. PartsInv' /\ PendInv'
  BY <1>1, PartsNext, PendNext
<1>4. ModeInv' /\ LateInv' /\ FileInv'
  BY <1>1, ModeNext, LateNext, FileNext
<1> QED
  BY <1>2, <1>3, <1>4 DEF DownloadInv

\* Behind the download nothing is left to be told or compared.
LEMMA NothingLeft ==
  ASSUME NEW p, p # "download", NEW device, NEW s, Late(p, device, s)
  PROVE  /\ \A x \in SizeItems : ~Reaches(Telling(x), s)
         /\ \A m, a : ~Reaches(Reading(m, a), s)
         /\ ~Reaches(Comparison, s)
<1>1. ASSUME NEW t, LateItem(p, device, t)
      PROVE  /\ \A x \in SizeItems : ~Closes(Telling(x), t)
             /\ \A m, a : ~Closes(Reading(m, a), t)
             /\ ~Closes(Comparison, t)
  BY <1>1 DEF LateItem, LateCommands, Closes, Telling, Reading, Comparison, IsVerify
<1> QED
  BY <1>1 DEF Late, Reaches

\* A size is sent as two bytes.
LEMMA TwoBytes == \A n \in Nat : (n % 256) + 256 * (n \div 256) = n
  OBVIOUS

\* Past a download the emulator has been told the page sizes of the device, and,
\* if the target was to be verified, the file is in it, in the order of its
\* bytes, even if writes were refused and whatever was lost or damaged on the
\* way (jtagprog.cc:237 to 328, jtaggeneric.cc:184 to 286).
THEOREM DownloadCorrect == Spec => []DownloadSound
<1>1. DownloadInv => DownloadSound
  <2> SUFFICES ASSUME DownloadInv, Later("download"), opts.text["f"] # ""
               PROVE  /\ Verify(opts) /\ gdb.accesses = 0 =>
                           \A m \in Images : \A a \in DOMAIN Files[opts.text["f"]][m] :
                             ice.mem[m][a] = Files[opts.text["f"]][m][a]
                      /\ ice.params["FLASH_PAGESIZE_LOW"] + 256 * ice.params["FLASH_PAGESIZE_HIGH"]
                           = ByName(drv.device).flash_page_size
                      /\ ice.params["EEPROM_PAGESIZE"] = ByName(drv.device).eeprom_page_size
    BY DEF DownloadSound, VerifySound, PagesAsTable, Images
  <2>1. main \in {"writeLockBits", "resume", "session", "ended"}
    BY DownloadFacts
  <2>2. FileOK(opts, todo, drv, ice, gdb.accesses)
    <3>1. main \in Behind /\ main # "download"
      BY <2>1 DEF Behind, LateSteps
    <3> QED
      BY <3>1 DEF DownloadInv, FileInv, NoFile
  <2>3. /\ \A x \in SizeItems : ~Reaches(Telling(x), todo)
        /\ \A m, a : ~Reaches(Reading(m, a), todo)
        /\ ~Reaches(Comparison, todo)
    <3>1. Late(main, drv.device, todo)
      <4>1. CASE main = "ended"
        <5>1. todo = <<>>
          BY <4>1, StepFacts DEF DownloadInv, TargetInv, TodoInv, TodoOK
        <5> QED
          BY <5>1, LateSingle
      <4>2. CASE main # "ended"
        BY <2>1, <4>2 DEF DownloadInv, LateInv, LateSteps
      <4> QED
        BY <4>1, <4>2
    <3> QED
      BY <2>1, <3>1, NothingLeft
  <2>4. \A x \in SizeItems : ice.params[x] = SizeOf(x, drv.device)
    BY <2>2, <2>3 DEF FileOK, SizesOK
  <2>5. ASSUME Verify(opts), gdb.accesses = 0,
               NEW m \in Images, NEW a \in DOMAIN Files[opts.text["f"]][m]
        PROVE  ice.mem[m][a] = Files[opts.text["f"]][m][a]
    <3>1. ByteOK(Files[opts.text["f"]], todo, drv.verified, ice, m, a)
      BY <2>2, <2>5 DEF FileOK, ImageOK
    <3> QED
      BY <2>3, <3>1 DEF ByteOK
  <2> DEFINE n == ByName(drv.device).flash_page_size
  <2>6. /\ ice.params["FLASH_PAGESIZE_LOW"] = n % 256
        /\ ice.params["FLASH_PAGESIZE_HIGH"] = n \div 256
        /\ ice.params["EEPROM_PAGESIZE"] = ByName(drv.device).eeprom_page_size
    BY <2>4 DEF SizeItems, SizeOf
  <2>7. n \in Nat
    BY RowSizes DEF HasSize
  <2> HIDE DEF n
  <2>8. (n % 256) + 256 * (n \div 256) = n
    BY <2>7, TwoBytes
  <2> QED
    BY <2>5, <2>6, <2>8 DEF n
<1> QED
  BY <1>1, InitDownload, DownloadNext, PTL DEF Spec
=============================================================================
