----------------------------- MODULE Jtag2Link ------------------------------
(***************************************************************************)
(* The command layer of the JTAG ICE mkII driver (jtag2io.cc): numbered    *)
(* request frames, the wait for the reply that carries the same number,    *)
(* the retry loops built on it, the sign-on that opens a session and the   *)
(* destructor that closes it.                                              *)
(*                                                                         *)
(* A frame is its sequence number; its payload is a class of response.     *)
(* The two directions of the line are queues: frames may be lost or arrive *)
(* damaged, late (after the host's timeout), or twice (because the host    *)
(* retried), but never out of order.  The emulator is external.            *)
(*                                                                         *)
(* xid, answers and got are history variables: the code has no such state. *)
(* xid numbers the exchanges, an exchange being the sends that share one   *)
(* value of command_sequence inside one call.                              *)
(***************************************************************************)
EXTENDS Integers, Sequences

CONSTANTS
  EventSeq,      \* 0xffff: the number of event frames, and the wrap-around limit
  MaxTries,      \* MAX_JTAG_COMM_ATTEMPS (10)
  SyncTries,     \* MAX_JTAG_SYNC_ATTEMPS (3)
  Rates,         \* how many bit rates startJtagLink tries (5)
  ApplyNsrst,    \* apply_nSRST: one more parameter is set after sign-on
  Frontend,      \* "avarice" (main.cc) or "manuel" (main2.cc, jsjtag.cc)
  Faults,        \* subset of {"crc", "cut"}: damage beyond the loss of frames
  MaxExchanges,  \* bound on the exchanges a program starts
  MaxEvents      \* bound on the event frames queued at one time

ASSUME LinkAssumption ==
  /\ EventSeq \in Nat /\ EventSeq > 1
  /\ MaxTries \in Nat \ {0}
  /\ SyncTries \in 1 .. MaxTries
  /\ Rates \in Nat \ {0}
  /\ ApplyNsrst \in BOOLEAN
  /\ Frontend \in {"avarice", "manuel"}
  /\ Faults \subseteq {"crc", "cut"}
  /\ MaxExchanges \in Nat
  /\ MaxEvents \in Nat

VARIABLES
  command_sequence,  \* number of the next request
  stage,             \* where the life of the jtag2 object has got to
  call,              \* the retry loop in progress
  toIce, toHost,     \* frames in flight
  xid, answers, got  \* history

vars == <<command_sequence, stage, call, toIce, toHost, xid, answers, got>>

\* RSP_OK; any other code in [RSP_OK, RSP_FAILED); RSP_FAILED and above.
Responses == {"ok", "data", "failed"}

\* Sign-on, then the parameters startJtagLink sets, the rest of initJtagBox,
\* the session proper, and the two commands of the destructor.
LiveStages == {"sync", "nsrst", "mode", "init", "open"}
Stages == LiveStages \cup {"restore", "signoff", "exited"}

Kinds == {"sync", "do", "simple"}

SeqNumbers == 0 .. EventSeq - 1

Request == [seq : SeqNumbers, x : Nat]
Reply == [seq : SeqNumbers, x : Nat, rsp : Responses]
\* An event answers no exchange: exchanges count from 1.
Event == [seq |-> EventSeq, x |-> 0, rsp |-> "event"]

TypeOK ==
  /\ command_sequence \in SeqNumbers
  /\ stage \in Stages
  /\ call \in [busy : BOOLEAN, kind : Kinds, tries : 0 .. MaxTries, rate : 1 .. Rates]
  /\ toIce \in Seq(Request)
  /\ toHost \in Seq(Reply \cup {Event})
  /\ xid \in Nat \ {0}
  /\ answers \subseteq Responses
  /\ got \in [x : Nat, want : Nat, rsp : Responses \cup {"none"}, intact : BOOLEAN]

NoCall == [busy |-> FALSE, kind |-> "sync", tries |-> 0, rate |-> 1]

Init ==
  /\ command_sequence = 0
  /\ stage = "sync"
  /\ call = NoCall
  /\ toIce = <<>>
  /\ toHost = <<>>
  /\ xid = 1
  /\ answers = {}
  /\ got = [x |-> 0, want |-> 0, rsp |-> "none", intact |-> TRUE]

-----------------------------------------------------------------------------
(* The host: calls.                                                        *)

\* Mutants: the wrap is left out; the number is never advanced.
NextSeq_NoWrap(s) == s + 1
NextSeq_Forgotten(s) == s

\* recv: "if (++command_sequence == 0xffff) command_sequence = 0".
NextSeq(s) == IF s + 1 = EventSeq THEN 0 ELSE s + 1

\* sendFrame, with the attempt counted by sendJtagCommand.
Transmit(seq, x, c) ==
  /\ toIce' = Append(toIce, [seq |-> seq, x |-> x])
  /\ call' = c

\* Which helper the code of each stage calls; the JavaScript or GDB command
\* of a session may use either.
KindsOf(s) == CASE s = "sync" -> {"sync"}
                [] s \in {"nsrst", "mode", "restore"} -> {"do"}
                [] s = "signoff" -> {"simple"}
                [] s \in {"init", "open"} -> {"do", "simple"}
                [] OTHER -> {}

StartCall ==
  /\ ~call.busy
  /\ stage \in {"init", "open"} => xid < MaxExchanges
  /\ \E k \in KindsOf(stage) :
       Transmit(command_sequence, xid,
                [busy |-> TRUE, kind |-> k, tries |-> 1, rate |-> 1])
  /\ UNCHANGED <<command_sequence, stage, toHost, xid, answers, got>>

\* initJtagBox has returned, or the program deletes the jtag2 object.
Advance ==
  /\ ~call.busy
  /\ \/ stage = "init" /\ stage' = "open"
     \/ stage = "open" /\ stage' = "restore"
  /\ UNCHANGED <<command_sequence, call, toIce, toHost, xid, answers, got>>

\* Where an exception leads.  Only createJtag of the JavaScript console
\* catches one and deletes the object; everywhere else the process ends.  The
\* destructor does nothing before signedIn is set.
CatchStage(s) == IF s = "init" /\ Frontend = "manuel" THEN "restore" ELSE "exited"

Throw ==
  /\ call' = NoCall
  /\ stage' = CatchStage(stage)
  /\ UNCHANGED toIce

\* The stages that may follow when the call returns ok.  A caller that gets
\* FALSE from doJtagCommand either raises its own exception or goes on.
StagesAfter(s, ok) ==
  CASE s = "sync"    -> {IF ApplyNsrst THEN "nsrst" ELSE "mode"}
    [] s = "nsrst"   -> {IF ok THEN "mode" ELSE CatchStage(s)}
    [] s = "mode"    -> {IF ok THEN "init" ELSE CatchStage(s)}
    [] s = "restore" -> {"signoff"}
    [] s = "signoff" -> {"exited"}
    [] OTHER         -> IF ok THEN {s} ELSE {s, CatchStage(s)}

Return(ok) ==
  /\ call' = NoCall
  /\ stage' \in StagesAfter(stage, ok)
  /\ UNCHANGED toIce

\* Mutant: the attempt is not counted.
Resend_Uncounted(seq, x) == UNCHANGED stage /\ Transmit(seq, x, call)

\* One more attempt, with the sequence number and exchange given; at the next
\* bit rate once a sign-on has used up its attempts at this one.
Resend(seq, x) ==
  /\ UNCHANGED stage
  /\ IF call.kind = "sync" /\ call.tries = SyncTries
       THEN /\ call.rate < Rates
            /\ Transmit(seq, x, [busy |-> TRUE, kind |-> "sync", tries |-> 1, rate |-> call.rate + 1])
       ELSE /\ call.tries < MaxTries
            /\ Transmit(seq, x, [call EXCEPT !.tries = @ + 1])

Exhausted == IF call.kind = "sync"
               THEN call.tries = SyncTries /\ call.rate = Rates
               ELSE call.tries = MaxTries

-----------------------------------------------------------------------------
(* The host: what recv makes of the line.                                  *)

\* recvFrame returned 0 (nothing came in time, whether or not a frame is
\* still on its way) or -1 (a frame failed its CRC).
NoAnswer ==
  /\ call.busy
  /\ \/ UNCHANGED toHost
     \/ "crc" \in Faults /\ toHost # <<>> /\ toHost' = Tail(toHost)
  /\ \/ Resend(command_sequence, xid) /\ UNCHANGED <<xid, answers>>
     \/ Exhausted /\ Throw /\ xid' = xid + 1 /\ answers' = {}
  /\ UNCHANGED <<command_sequence, got>>

\* A frame whose number is not the awaited one: an event or a late answer.
\* The wait starts again and no attempt is counted.
Discard ==
  /\ call.busy
  /\ toHost # <<>>
  /\ Head(toHost).seq # command_sequence
  /\ toHost' = Tail(toHost)
  /\ UNCHANGED <<command_sequence, stage, call, toIce, xid, answers, got>>

\* Mutant: the number of the frame is not compared.
Accept_Unmatched(r, intact) ==
  /\ call.busy /\ toHost # <<>>
  /\ toHost' = Tail(toHost)
  /\ command_sequence' = NextSeq(command_sequence)
  /\ got' = [x |-> Head(toHost).x, want |-> xid, rsp |-> r, intact |-> intact]
  /\ xid' = xid + 1 /\ answers' = {}

\* recv's side of accepting the head of the line, read as response r.
Accept(r, intact) ==
  /\ call.busy
  /\ toHost # <<>>
  /\ Head(toHost).seq = command_sequence
  /\ toHost' = Tail(toHost)
  /\ command_sequence' = NextSeq(command_sequence)
  /\ got' = [x |-> Head(toHost).x, want |-> xid, rsp |-> r, intact |-> intact]
  /\ xid' = xid + 1
  /\ answers' = {}

\* The positive responses each retry loop takes: doSimpleJtagCommand exactly
\* RSP_OK, the sign-on its own response; any other one raises an exception.
Accepted == CASE call.kind = "sync" -> {"data"}
              [] call.kind = "simple" -> {"ok"}
              [] call.kind = "do" -> {"ok", "data"}

\* What the retry loops do with the response.  After a negative one
\* doJtagCommand returns false; the other two send again.
Conclude(r) ==
  \/ r \in Accepted /\ Return(TRUE)
  \/ r \in {"ok", "data"} \ Accepted /\ Throw
  \/ r = "failed" /\ call.kind = "do" /\ Return(FALSE)
  \/ r = "failed" /\ call.kind # "do" /\ Resend(NextSeq(command_sequence), xid + 1)
  \/ r = "failed" /\ call.kind # "do" /\ Exhausted /\ Throw

Receive == \E r \in Responses :
             /\ toHost # <<>> /\ Head(toHost).rsp = r
             /\ Accept(r, TRUE)
             /\ Conclude(r)

\* The bytes stop inside the payload or the CRC: recvFrame leaves its loop and
\* returns the announced length with a buffer that was only partly filled.
ReceiveCut == /\ "cut" \in Faults
              /\ \E r \in Responses : Accept(r, FALSE) /\ Conclude(r)

\* The bytes stop after the length and before the token: a length is returned
\* without a buffer, and recv reads or moves through the null pointer.
Crash ==
  /\ "cut" \in Faults
  /\ call.busy
  /\ toHost # <<>>
  /\ Head(toHost).seq \in {command_sequence, EventSeq}
  /\ stage' = "exited"
  /\ call' = NoCall
  /\ toHost' = Tail(toHost)
  /\ xid' = xid + 1
  /\ answers' = {}
  /\ UNCHANGED <<command_sequence, toIce, got>>

-----------------------------------------------------------------------------
(* The line and the emulator.                                              *)

\* Lost to noise, to a wrong bit rate, or to the endpoint reset that the
\* fourth unanswered attempt on USB asks for.
LoseRequest ==
  /\ toIce # <<>>
  /\ toIce' = Tail(toIce)
  /\ UNCHANGED <<command_sequence, stage, call, toHost, xid, answers, got>>

LoseReply ==
  /\ toHost # <<>>
  /\ toHost' = Tail(toHost)
  /\ UNCHANGED <<command_sequence, stage, call, toIce, xid, answers, got>>

IceAnswer ==
  /\ toIce # <<>>
  /\ toIce' = Tail(toIce)
  /\ LET q == Head(toIce)
     IN  \E r \in Responses :
           /\ toHost' = Append(toHost, [seq |-> q.seq, x |-> q.x, rsp |-> r])
           /\ answers' = IF q.x = xid THEN answers \cup {r} ELSE answers
  /\ UNCHANGED <<command_sequence, stage, call, xid, got>>

IceEvent ==
  /\ Len(SelectSeq(toHost, LAMBDA f : f = Event)) < MaxEvents
  /\ toHost' = Append(toHost, Event)
  /\ UNCHANGED <<command_sequence, stage, call, toIce, xid, answers, got>>

\* The process is gone.
Exited == stage = "exited" /\ UNCHANGED vars

-----------------------------------------------------------------------------
Host == NoAnswer \/ Discard \/ Receive \/ ReceiveCut \/ Crash

Environment == stage # "exited" /\ (LoseRequest \/ LoseReply \/ IceAnswer \/ IceEvent)

Next == StartCall \/ Advance \/ Host \/ Environment \/ Exited

Spec == Init /\ [][Next]_vars

\* The host is one thread that blocks only in a read with a timeout; nothing
\* is assumed of the emulator, of the line, or of when a session ends.
Destroying == stage \in {"restore", "signoff"} /\ StartCall
FairSpec == Spec /\ WF_vars(Host) /\ WF_vars(Destroying)

-----------------------------------------------------------------------------
(* Properties.                                                             *)

Abstract == INSTANCE RequestReply
              WITH waiting <- call.busy,
                   result <- [rsp |-> got.rsp, intact |-> got.intact]

\* A reply is handed to the caller only if the emulator gave it to the request
\* the caller is waiting on: jtag2io.cc recv matches frames by number only,
\* across retries, late answers, events and the wrap-around at 0xffff.
ImplementsRequestReply == Abstract!Spec

\* The stages before a call has been abandoned.
Synced == \/ stage \in LiveStages
          \/ Frontend = "avarice" /\ stage # "exited"

\* Never more than two exchanges share the line, so that even two sequence
\* numbers would tell them apart: the one the host waits in and the one before
\* it, the older frames before the newer, numbered with command_sequence and the
\* number before it.
FrameOK(f, seq, x) == \/ f.x = x /\ f.seq = seq
                      \/ f.x = x - 1 /\ NextSeq(f.seq) = seq

PipeOK(reqs, reps, seq, x) ==
  /\ \A i \in 1 .. Len(reqs) : FrameOK(reqs[i], seq, x)
  /\ \A i \in 1 .. Len(reps) : reps[i] = Event \/ FrameOK(reps[i], seq, x)
  /\ \A i, j \in 1 .. Len(reqs) : i < j => reqs[i].x <= reqs[j].x
  /\ \A i, j \in 1 .. Len(reps) : i < j => reps[j] = Event \/ reps[i].x <= reps[j].x
  /\ \A i \in 1 .. Len(reps), j \in 1 .. Len(reqs) : reps[i].x <= reqs[j].x

\* LinkInv: what keeps recv's comparison of numbers sound, see PipeOK.
LinkInv == Synced => /\ PipeOK(toIce, toHost, command_sequence, xid)
                     /\ got.x = got.want

\* The reply recv accepted last was given to the exchange it was waiting in,
\* in every stage up to an abandoned call.
ReplyAnswersExchange == Synced => got.x = got.want

\* The same with no exception, as recv's comment has it ("until we get the
\* reply we are expecting"): broken when ~jtag2 runs after a thrown call.
ReplyIsExpected == got.x = got.want

\* A call ends, by returning or by throwing, once the emulator stops sending
\* events: the attempts are counted and the late answers run out.
CallEnds == (<>[][~IceEvent]_vars) => (call.busy ~> ~call.busy)
=============================================================================
