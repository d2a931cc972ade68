------------------------------ MODULE Jtag1Link ------------------------------
(***************************************************************************)
(* The command layer of the JTAG ICE mkI driver (jtagio.cc).  Requests and *)
(* answers carry no numbers.  What keeps an answer from being taken for    *)
(* another one is that everything received is thrown away before a request *)
(* is sent, and that the driver, when it has lost track, sends single      *)
(* blanks until one of them is answered.                                   *)
(*                                                                         *)
(* The emulator answers a request with a first byte, ok, and the rest, if  *)
(* there is one; instead of or before it there may come an "IDR dirty"     *)
(* info, when the program on the target has written a byte for the host.   *)
(* Requests and answers may be lost, cut or damaged, but are not late: a   *)
(* timeout means that nothing is on its way.  (The code has no means       *)
(* against late answers.)                                                  *)
(*                                                                         *)
(* A token on toHost remembers in "of" the request it answers; got, faults *)
(* and refused are history.                                                *)
(***************************************************************************)
EXTENDS Jtag1Box

CONSTANTS
  Bitrates,      \* the bit rates tried, in their order
  MaxTries,      \* MAX_JTAG_COMM_ATTEMPS (10)
  SyncTries,     \* MAX_JTAG_SYNC_ATTEMPS (3)
  MaxFaults      \* bound on the faults of the line and the emulator

ASSUME Link1Assumption ==
  /\ Bitrates # <<>>
  /\ MaxTries \in Nat /\ MaxTries > 2
  /\ SyncTries \in 1 .. MaxTries
  /\ MaxFaults \in Nat

VARIABLES
  hostRate,       \* bit rate of the PC's serial port
  ice,            \* the emulator and the target
  call,           \* the command in progress
  toIce, toHost,  \* the line
  got,            \* the answer a command ended with, and the request it answers
  faults,         \* how many faults there have been
  refused         \* the commands among Overlooked that were refused

linkVars == <<hostRate, ice, call, toIce, toHost, got, faults, refused>>

Sync == [cmd |-> " "]    \* a single blank
Stop == [cmd |-> "S"]    \* "S  ", the sign-on
Wake == [cmd |-> "SE"]   \* "SE  "

\* The loops a call may be in: doJtagCommand sends its command, blanks, or the
\* sign-on that quietens a target that talks; synchroniseAt sends Wake and
\* then, through checkForEmulator, the sign-on.  Body: the first byte is there.
Phases == {"command", "body", "resync", "hush", "hushBody", "wake", "sign", "signBody"}
Idle == [phase |-> "idle", q |-> Sync, tries |-> 0, rate |-> 1]

\* The request that was sent last.
Sent == CASE call.phase \in {"command", "body"} -> call.q
          [] call.phase = "resync" -> Sync
          [] call.phase = "wake" -> Wake
          [] OTHER -> Stop

NoAnswer == [of |-> Sync, want |-> Sync, ack |-> TRUE, bytes |-> <<>>]

LinkInit(boxes) ==
  /\ hostRate = 19200
  /\ ice \in boxes
  /\ call = Idle
  /\ toIce = <<>> /\ toHost = <<>>
  /\ got = NoAnswer
  /\ faults = 0 /\ refused = {}

-----------------------------------------------------------------------------
(* The host.                                                               *)

\* Mutant: what has been received before is kept.
Transmit_NoFlush(q, c) ==
  /\ toIce' = Append(toIce, q)
  /\ call' = c
  /\ UNCHANGED toHost

\* sendJtagCommand up to the wait for the first byte.
Transmit(q, c) ==
  /\ toHost' = <<>>
  /\ toIce' = Append(toIce, q)
  /\ call' = c

Fail == call' = [call EXCEPT !.phase = "failed"] /\ toHost' = <<>> /\ UNCHANGED toIce

\* Mutants: the loop makes an attempt more; an attempt is not counted.
Again_OneMore(q, phase) ==
  IF call.tries <= MaxTries
    THEN Transmit(q, [call EXCEPT !.phase = phase, !.tries = @ + 1])
    ELSE Fail
Again_Uncounted(q, phase) ==
  IF call.tries < MaxTries THEN Transmit(q, [call EXCEPT !.phase = phase]) ELSE Fail

\* One more attempt of doJtagCommand, whatever it is that is sent.
Again(q, phase) ==
  IF call.tries < MaxTries
    THEN Transmit(q, [call EXCEPT !.phase = phase, !.tries = @ + 1])
    ELSE Fail

Begin(q) ==
  /\ call.phase = "idle"
  /\ Transmit(q, [Idle EXCEPT !.phase = "command", !.q = q, !.tries = 1])
  /\ UNCHANGED <<ice, got, faults, refused>>

\* A pass of the loop of synchroniseAt at the bit rate number i.
Attempt(i, tries) ==
  /\ hostRate' = Bitrates[i]
  /\ Transmit(Wake, [Idle EXCEPT !.phase = "wake", !.tries = tries, !.rate = i])

startJtagLink ==
  /\ call.phase = "idle"
  /\ Attempt(1, 1)
  /\ UNCHANGED <<ice, got, faults, refused>>

NextAttempt ==
  IF call.tries < SyncTries THEN Attempt(call.rate, call.tries + 1)
  ELSE IF call.rate < Len(Bitrates) THEN Attempt(call.rate + 1, 1)
  ELSE Fail /\ UNCHANGED hostRate

\* What has been received is the answer to the command.
Return(token) ==
  /\ call' = [call EXCEPT !.phase = "done"]
  /\ got' = [of |-> token.of, want |-> call.q, ack |-> token.ack, bytes |-> token.bytes]
  /\ UNCHANGED toIce

Await(phase) == call' = [call EXCEPT !.phase = phase] /\ UNCHANGED toIce

Nothing == toIce = <<>> /\ toHost = <<>>

\* Nothing comes in time, or not all of it.
Timeout ==
  /\ Nothing
  /\ CASE call.phase \in {"command", "resync"} -> Again(Sync, "resync") /\ UNCHANGED hostRate
       [] call.phase \in {"hush", "hushBody"} -> Again(call.q, "command") /\ UNCHANGED hostRate
       [] call.phase = "body" -> Fail /\ UNCHANGED hostRate
       [] call.phase = "wake" -> Transmit(Stop, [call EXCEPT !.phase = "sign"]) /\ UNCHANGED hostRate
       [] call.phase \in {"sign", "signBody"} -> NextAttempt
       [] OTHER -> FALSE
  /\ UNCHANGED <<ice, got, faults, refused>>

\* The first byte is a JTAG_R_OK.
FirstOk ==
  /\ toHost # <<>> /\ Head(toHost).k = "ok"
  /\ \/ /\ call.phase = "command" /\ HasBody(call.q)
        /\ Await("body") /\ toHost' = Tail(toHost) /\ UNCHANGED got
     \/ /\ call.phase = "command" /\ ~HasBody(call.q)
        /\ Return(Head(toHost)) /\ toHost' = Tail(toHost)
     \/ call.phase = "resync" /\ Again(call.q, "command") /\ UNCHANGED got
     \/ call.phase = "hush" /\ Await("hushBody") /\ toHost' = Tail(toHost) /\ UNCHANGED got
     \/ call.phase = "wake" /\ Transmit(Stop, [call EXCEPT !.phase = "sign"]) /\ UNCHANGED got
     \/ call.phase = "sign" /\ Await("signBody") /\ toHost' = Tail(toHost) /\ UNCHANGED got
  /\ UNCHANGED <<hostRate, ice, faults, refused>>

\* It is an info.  checkForEmulator takes it for an OK, as it asks only whether
\* the result is send_failed.
FirstInfo ==
  /\ toHost # <<>> /\ Head(toHost).k = "info"
  /\ \/ call.phase = "command" /\ Again(Stop, "hush")
     \/ call.phase = "resync" /\ Again(Sync, "resync")
     \/ call.phase = "hush" /\ Again(call.q, "command")
     \/ call.phase = "wake" /\ Transmit(Stop, [call EXCEPT !.phase = "sign"])
     \/ call.phase = "sign" /\ Await("signBody") /\ toHost' = Tail(toHost)
  /\ UNCHANGED <<hostRate, ice, got, faults, refused>>

\* It is anything else.
FirstOther ==
  /\ toHost # <<>> /\ Head(toHost).k \notin {"ok", "info"}
  /\ CASE call.phase \in {"command", "resync"} -> Again(Sync, "resync") /\ UNCHANGED hostRate
       [] call.phase = "hush" -> Again(call.q, "command") /\ UNCHANGED hostRate
       [] call.phase = "wake" -> Transmit(Stop, [call EXCEPT !.phase = "sign"]) /\ UNCHANGED hostRate
       [] call.phase = "sign" -> NextAttempt
       [] OTHER -> FALSE
  /\ UNCHANGED <<ice, got, faults, refused>>

\* getJtagResponse finds the rest of an answer; after Stop only its arrival
\* counts, or, for the sign-on, that it is the emulator's name.
Body ==
  /\ toHost # <<>>
  /\ \/ /\ call.phase = "body"
        /\ Return(Head(toHost)) /\ toHost' = Tail(toHost) /\ UNCHANGED hostRate
     \/ /\ call.phase = "hushBody" /\ Again(call.q, "command") /\ UNCHANGED <<got, hostRate>>
     \/ /\ call.phase = "signBody" /\ Head(toHost).k = "body" /\ Head(toHost).of = Stop /\ Head(toHost).ack
        /\ call' = [call EXCEPT !.phase = "done"]
        /\ toHost' = Tail(toHost) /\ UNCHANGED <<toIce, got, hostRate>>
     \/ /\ call.phase = "signBody" /\ ~(Head(toHost).k = "body" /\ Head(toHost).of = Stop /\ Head(toHost).ack)
        /\ NextAttempt /\ UNCHANGED got
  /\ UNCHANGED <<ice, faults, refused>>

Host == Timeout \/ FirstOk \/ FirstInfo \/ FirstOther \/ Body

-----------------------------------------------------------------------------
(* The line and the emulator, external.                                    *)

Token(k, q, ack, bytes) == [k |-> k, of |-> q, ack |-> ack, bytes |-> bytes]
Answer(q, o) ==
  <<Token("ok", q, TRUE, <<>>)>>
  \o (IF HasBody(q) THEN <<Token("body", q, o.ack, o.bytes)>> ELSE <<>>)

\* Another command between the two parts of a write may make the emulator
\* forget the first one.
Took(b, q) == IF q.cmd \in {"W", "h"} THEN {b} ELSE {b, [b EXCEPT !.pending = NoWrite]}

\* Only Wake and a blank bring the emulator back in step.
InStep(q) == ice.sync \/ q \in {Wake, Sync}
Hears(q) == ~ice.dead /\ hostRate = ice.rate /\ InStep(q)

IceAnswers ==
  /\ toIce # <<>>
  /\ LET q == Head(toIce)
     IN  /\ Hears(q)
         /\ \E o \in Outcomes(ice, q) :
              /\ ice' \in Took([o.ice EXCEPT !.sync = TRUE], q)
              /\ toHost' = toHost \o Answer(q, o)
              /\ refused' = IF o.ack \/ ~Overlooked(q) THEN refused ELSE refused \cup {q.cmd}
  /\ toIce' = Tail(toIce)
  /\ UNCHANGED <<hostRate, call, got, faults>>

\* Out of step, or at another bit rate, bytes are noise.
IceDeaf ==
  /\ toIce # <<>> /\ ~Hears(Head(toIce))
  /\ toIce' = Tail(toIce)
  /\ toHost' = IF ~ice.dead /\ hostRate = ice.rate
                 THEN Append(toHost, Token("error", Head(toIce), FALSE, <<>>)) ELSE toHost
  /\ \E s \in BOOLEAN : (s => ice.sync) /\ ice' = [ice EXCEPT !.sync = s]
  /\ UNCHANGED <<hostRate, call, got, faults, refused>>

\* Faults: the request is lost or damaged; the answer, or the rest of it, is
\* lost; an info comes first or instead; the command is refused; the
\* emulator goes dead.
Faulty(q, b, answer) ==
  /\ ice' = b
  /\ toHost' = toHost \o answer
  /\ UNCHANGED refused

Fault ==
  /\ faults < MaxFaults
  /\ toIce # <<>>
  /\ LET q == Head(toIce)
         info == <<Token("info", q, FALSE, <<>>)>>
     IN  /\ Hears(q)
         /\ \/ Faulty(q, ice, <<>>)
            \/ Faulty(q, ice, <<Token("error", q, FALSE, <<>>)>>)
            \/ Faulty(q, [ice EXCEPT !.dead = TRUE], <<>>)
            \/ ice.running /\ Faulty(q, ice, info)
            \/ \E o \in Outcomes(ice, q) :
                 \/ Faulty(q, o.ice, <<>>)
                 \/ HasBody(q) /\ Faulty(q, o.ice, <<Token("ok", q, TRUE, <<>>)>>)
                 \/ ice.running /\ Faulty(q, o.ice, info \o Tail(Answer(q, o)))
            \/ /\ HasBody(q)
               /\ ice' = [ice EXCEPT !.pending = IF q.cmd = "h" THEN NoWrite ELSE @]
               /\ toHost' = toHost \o Answer(q, Refuses(ice))
               /\ refused' = IF Overlooked(q) THEN refused \cup {q.cmd} ELSE refused
  /\ toIce' = Tail(toIce)
  /\ faults' = faults + 1
  /\ UNCHANGED <<hostRate, call, got>>

Ice == IceAnswers \/ IceDeaf

-----------------------------------------------------------------------------
(* Properties.                                                             *)

\* The answer a command ends with is the emulator's answer to that command,
\* although it carries no number: jtagio.cc sendJtagCommand discards what came
\* before, and doJtagCommand never asks again while an answer may still come.
AnswerOwn == got.of = got.want

\* The strengthening the proof uses: all that is on the line belongs to the
\* request sent last, and the emulator has nothing left to take once it has
\* answered.
InCall == call.phase \in Phases
OnlyLast ==
  /\ Len(toIce) <= 1
  /\ toHost # <<>> => toIce = <<>>
  /\ InCall => /\ \A i \in DOMAIN toIce : toIce[i] = Sent
               /\ \A i \in DOMAIN toHost : toHost[i].of = Sent
  /\ ~InCall => toIce = <<>>
=============================================================================
