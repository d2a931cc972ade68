------------------------------ MODULE UsbDaemon ------------------------------
(***************************************************************************)
(* The mkII driver on USB: the driver process (jtag2io.cc, jtag2run.cc),   *)
(* the daemon it forks to talk to the device (jtag2usb.cc usb_daemon), and *)
(* the two socket pairs between them, one for data and one for the         *)
(* one-letter requests r (read once), p (start polling) and c (reset the   *)
(* endpoints).                                                             *)
(*                                                                         *)
(* The device sends frames in one or more packets.  A frame is an answer   *)
(* to the numbered request n, the report that the program stopped, or an   *)
(* event that does not stop the program.  The driver process runs one      *)
(* call at a time: go starts the program, other stands for every other     *)
(* command.  Payloads and the refusal of commands are left to Jtag2Link;   *)
(* here a timeout strikes between frames only.                             *)
(***************************************************************************)
EXTENDS Integers, Sequences

CONSTANTS
  MaxTries,     \* MAX_JTAG_COMM_ATTEMPS (10)
  ResetAfter,   \* an endpoint reset is asked for after this many tries (3)
  MaxPackets,   \* most packets of an answer
  MaxCalls,     \* bound on the calls of the driver
  MaxInfos      \* bound on the events that do not stop the program

ASSUME DaemonAssumption ==
  /\ MaxTries \in Nat \ {0}
  /\ ResetAfter \in Nat
  /\ MaxPackets \in Nat \ {0}
  /\ MaxCalls \in Nat
  /\ MaxInfos \in Nat

VARIABLES
  frontend,      \* "avarice": go is jtagContinue; "manuel": go is resumeProgram
  host,          \* the driver process
  calls,         \* calls so far, the number of the current request
  toUsb, ctrl,   \* the socket pairs, driver to daemon
  toHost,        \* and back
  daemon,
  usbOut, usbIn, \* the device's endpoints
  device,
  breakpoint     \* what pollDevice has told its caller

vars == <<frontend, host, calls, toUsb, ctrl, toHost, daemon, usbOut, usbIn, device, breakpoint>>
hostVars == <<frontend, host, calls, toUsb, ctrl, toHost, breakpoint>>
deviceVars == <<usbOut, usbIn, device>>

Commands == {"go", "other"}
Requests == [cmd : Commands, n : 0 .. MaxCalls]
FrameKinds == {"answer", "stop", "info"}
\* left: how many packets of the frame are still to come.
Packets == [kind : FrameKinds, n : 0 .. MaxCalls, first : BOOLEAN, left : 0 .. MaxPackets - 1]

TypeOK ==
  /\ frontend \in {"avarice", "manuel"}
  /\ host \in [pc : {"idle", "send", "recv", "poll", "dead"}, looping : BOOLEAN, cmd : Commands,
               tries : 0 .. MaxTries]
  /\ calls \in 0 .. MaxCalls
  /\ toUsb \in Seq(Requests) /\ usbOut \in Seq(Requests)
  /\ ctrl \in Seq({"r", "p", "c"})
  /\ toHost \in Seq(Packets) /\ usbIn \in Seq(Packets)
  /\ daemon \in [at : {"select", "read", "more"}, polling : BOOLEAN, left : 0 .. MaxPackets - 1]
  /\ device \in [running : BOOLEAN, unsent : Seq(Packets), infos : 0 .. MaxInfos]
  /\ breakpoint \in BOOLEAN

\* createJtag of the JavaScript console has just started polling.
Init ==
  /\ frontend \in {"avarice", "manuel"}
  /\ host = [pc |-> "idle", looping |-> FALSE, cmd |-> "other", tries |-> 0]
  /\ calls = 0
  /\ toUsb = <<>>
  /\ ctrl = IF frontend = "manuel" THEN <<"p">> ELSE <<>>
  /\ toHost = <<>>
  /\ daemon = [at |-> "select", polling |-> FALSE, left |-> 0]
  /\ usbOut = <<>> /\ usbIn = <<>>
  /\ device = [running |-> FALSE, unsent |-> <<>>, infos |-> 0]
  /\ breakpoint = FALSE

-----------------------------------------------------------------------------
(* The driver process.                                                     *)

\* A whole frame is in the socket, and what is left without it.
FrameReady == toHost # <<>> /\ Head(toHost).left < Len(toHost)
AfterFrame == SubSeq(toHost, Head(toHost).left + 2, Len(toHost))

\* sendJtagCommand: the request, and recvFrame's r, which the daemon takes after it
\* in any case.
Request(c, n) ==
  /\ toUsb' = Append(toUsb, [cmd |-> c, n |-> n])
  /\ ctrl' = Append(ctrl, "r")

StartCall(c) ==
  /\ host.pc = "idle" /\ ~host.looping
  /\ calls < MaxCalls
  /\ calls' = calls + 1
  /\ host' = [host EXCEPT !.pc = "recv", !.cmd = c, !.tries = 1]
  /\ Request(c, calls')
  /\ UNCHANGED <<toHost, breakpoint>>

\* recvFrame timed out.  Only doJtagCommand asks for a reset, before it tries again.
Retry ==
  /\ host.pc = "recv" /\ toHost = <<>>
  /\ host' = [host EXCEPT !.pc = "send"]
  /\ ctrl' = IF host.cmd # "go" /\ host.tries > ResetAfter THEN Append(ctrl, "c") ELSE ctrl
  /\ UNCHANGED <<calls, toUsb, toHost, breakpoint>>

\* Another attempt, or an exception that ends the process.
Resend ==
  /\ host.pc = "send"
  /\ IF host.tries = MaxTries
       THEN host' = [host EXCEPT !.pc = "dead"] /\ UNCHANGED <<toUsb, ctrl>>
       ELSE host' = [host EXCEPT !.pc = "recv", !.tries = @ + 1] /\ Request(host.cmd, calls)
  /\ UNCHANGED <<calls, toHost, breakpoint>>

Answered == FrameReady /\ Head(toHost).kind = "answer" /\ Head(toHost).n = calls

\* jtagContinue goes on to eventLoop, which starts polling and never returns.
CallReturns ==
  /\ host.pc = "recv" /\ Answered
  /\ toHost' = AfterFrame
  /\ IF frontend = "avarice" /\ host.cmd = "go"
       THEN /\ host' = [host EXCEPT !.pc = "idle", !.looping = TRUE]
            /\ ctrl' = Append(ctrl, "p")
       ELSE host' = [host EXCEPT !.pc = "idle"] /\ UNCHANGED ctrl
  /\ UNCHANGED <<calls, toUsb, breakpoint>>

\* recv throws an event or a late answer away and calls recvFrame again.
CallDiscards ==
  /\ host.pc = "recv" /\ FrameReady /\ ~Answered
  /\ toHost' = AfterFrame
  /\ ctrl' = Append(ctrl, "r")
  /\ UNCHANGED <<host, calls, toUsb, breakpoint>>

\* pollDevice finds the socket readable and calls recvFrame, which sends r
\* although the frame is there already.
PollStarts ==
  /\ host.pc = "idle" /\ toHost # <<>>
  /\ host' = [host EXCEPT !.pc = "poll"]
  /\ ctrl' = Append(ctrl, "r")
  /\ UNCHANGED <<calls, toUsb, toHost, breakpoint>>

PollReturns ==
  /\ host.pc = "poll" /\ FrameReady
  /\ breakpoint' = (breakpoint \/ Head(toHost).kind = "stop")
  /\ toHost' = AfterFrame
  /\ host' = [host EXCEPT !.pc = "idle"]
  /\ UNCHANGED <<calls, toUsb, ctrl>>

Waiting == Retry \/ Resend \/ CallReturns \/ CallDiscards \/ PollStarts \/ PollReturns

HostStep == /\ (\E c \in Commands : StartCall(c)) \/ Waiting
            /\ UNCHANGED <<frontend, daemon, deviceVars>>

-----------------------------------------------------------------------------
(* The daemon.  Data for the device goes before control requests.          *)

Forward ==
  /\ daemon.at = "select" /\ toUsb # <<>>
  /\ usbOut' = Append(usbOut, Head(toUsb))
  /\ toUsb' = Tail(toUsb)
  /\ UNCHANGED <<ctrl, toHost, daemon, usbIn, device>>

\* Mutant: a read request leaves the daemon where it was.
Control_ReadIgnored ==
  /\ daemon.at = "select" /\ toUsb = <<>> /\ ctrl # <<>>
  /\ ctrl' = Tail(ctrl)
  /\ daemon' = [daemon EXCEPT !.polling = Head(ctrl) = "p",
                              !.at = IF Head(ctrl) = "p" THEN "read" ELSE "select"]
  /\ UNCHANGED <<toUsb, toHost, usbOut, usbIn, device>>

\* Mutant: a request is looked at in the middle of a frame.
Control_MidFrame ==
  /\ daemon.at \in {"select", "more"} /\ toUsb = <<>> /\ ctrl # <<>>
  /\ ctrl' = Tail(ctrl)
  /\ daemon' = [daemon EXCEPT !.polling = Head(ctrl) = "p",
                              !.at = IF @ = "more" THEN @ ELSE "read"]
  /\ IF Head(ctrl) = "c"
       THEN usbIn' = <<>> /\ usbOut' = <<>> /\ device' = [device EXCEPT !.unsent = <<>>]
       ELSE UNCHANGED deviceVars
  /\ UNCHANGED <<toUsb, toHost>>

\* Mutant: the reset leaves the device at the frame it was sending.
Control_InputOnly ==
  /\ daemon.at = "select" /\ toUsb = <<>> /\ ctrl # <<>>
  /\ ctrl' = Tail(ctrl)
  /\ daemon' = [daemon EXCEPT !.polling = Head(ctrl) = "p", !.at = "read"]
  /\ usbIn' = IF Head(ctrl) = "c" THEN <<>> ELSE usbIn
  /\ UNCHANGED <<toUsb, toHost, usbOut, device>>

\* A reset drops what the device has not handed over, and the frame it is at.
Control ==
  /\ daemon.at = "select" /\ toUsb = <<>> /\ ctrl # <<>>
  /\ ctrl' = Tail(ctrl)
  /\ LET cmd == Head(ctrl) IN
       /\ daemon' = [daemon EXCEPT
                       !.polling = (cmd = "p" \/ (@ /\ cmd = "c")),
                       !.at = IF cmd = "c" /\ ~daemon.polling THEN "select" ELSE "read"]
       /\ IF cmd = "c"
            THEN usbIn' = <<>> /\ usbOut' = <<>> /\ device' = [device EXCEPT !.unsent = <<>>]
            ELSE UNCHANGED deviceVars
  /\ UNCHANGED <<toUsb, toHost>>

\* The wait for a request timed out and the daemon polls.
SelectTimeout ==
  /\ daemon.at = "select" /\ daemon.polling
  /\ toUsb = <<>> /\ ctrl = <<>>
  /\ daemon' = [daemon EXCEPT !.at = "read"]
  /\ UNCHANGED <<toUsb, ctrl, toHost, deviceVars>>

\* The first packet of a frame, whose header says how many are to follow.
Read ==
  /\ daemon.at = "read" /\ usbIn # <<>>
  /\ toHost' = Append(toHost, Head(usbIn))
  /\ usbIn' = Tail(usbIn)
  /\ daemon' = [at |-> IF Head(usbIn).left > 0 THEN "more" ELSE "select",
                polling |-> FALSE, left |-> Head(usbIn).left]
  /\ UNCHANGED <<toUsb, ctrl, usbOut, device>>

ReadTimeout ==
  /\ daemon.at = "read" /\ usbIn = <<>>
  /\ daemon' = [daemon EXCEPT !.at = "select"]
  /\ UNCHANGED <<toUsb, ctrl, toHost, deviceVars>>

\* Mutant: the loop counts one packet too many.
ReadMore_Late ==
  /\ daemon.at = "more" /\ usbIn # <<>>
  /\ toHost' = Append(toHost, Head(usbIn))
  /\ usbIn' = Tail(usbIn)
  /\ daemon' = [daemon EXCEPT !.left = @ - 1, !.at = IF daemon.left = 0 THEN "select" ELSE "more"]
  /\ UNCHANGED <<toUsb, ctrl, usbOut, device>>

\* The rest of the frame, for as long as it takes; nothing else is looked at.
ReadMore ==
  /\ daemon.at = "more" /\ usbIn # <<>>
  /\ toHost' = Append(toHost, Head(usbIn))
  /\ usbIn' = Tail(usbIn)
  /\ daemon' = [daemon EXCEPT !.left = @ - 1, !.at = IF daemon.left = 1 THEN "select" ELSE "more"]
  /\ UNCHANGED <<toUsb, ctrl, usbOut, device>>

DaemonStep == /\ Forward \/ Control \/ SelectTimeout \/ Read \/ ReadTimeout \/ ReadMore
              /\ UNCHANGED <<frontend, host, calls, breakpoint>>

-----------------------------------------------------------------------------
(* The device.                                                             *)

Frame(kind, n, packets) ==
  [i \in 1 .. packets |-> [kind |-> kind, n |-> n, first |-> i = 1, left |-> packets - i]]

Answer ==
  /\ device.unsent = <<>> /\ usbOut # <<>>
  /\ usbOut' = Tail(usbOut)
  /\ \E k \in 1 .. MaxPackets :
       device' = [device EXCEPT !.unsent = Frame("answer", Head(usbOut).n, k),
                                !.running = @ \/ Head(usbOut).cmd = "go"]
  /\ UNCHANGED usbIn

Stop ==
  /\ device.unsent = <<>> /\ device.running
  /\ device' = [device EXCEPT !.unsent = Frame("stop", 0, 1), !.running = FALSE]
  /\ UNCHANGED <<usbOut, usbIn>>

Info ==
  /\ device.unsent = <<>> /\ device.infos < MaxInfos
  /\ device' = [device EXCEPT !.unsent = Frame("info", 0, 1), !.infos = @ + 1]
  /\ UNCHANGED <<usbOut, usbIn>>

SendPacket ==
  /\ device.unsent # <<>>
  /\ usbIn' = Append(usbIn, Head(device.unsent))
  /\ device' = [device EXCEPT !.unsent = Tail(@)]
  /\ UNCHANGED usbOut

DeviceStep == (Answer \/ Stop \/ Info \/ SendPacket) /\ UNCHANGED <<hostVars, daemon>>

\* The process has died of its exception; everything else may go on.
Dead == host.pc = "dead" /\ UNCHANGED vars
Quiet == host.pc = "idle" /\ UNCHANGED vars

Next == HostStep \/ DaemonStep \/ DeviceStep \/ Dead \/ Quiet

Spec == Init /\ [][Next]_vars

\* Two processes that loop, and a device that finishes the frame it has begun.
\* Nothing is assumed of when calls are made or the program stops.
FairSpec == /\ Spec
            /\ WF_vars(DaemonStep)
            /\ WF_vars(Waiting /\ UNCHANGED <<frontend, daemon, deviceVars>>)
            /\ WF_vars(SendPacket /\ UNCHANGED <<hostVars, daemon>>)

-----------------------------------------------------------------------------
(* Properties.                                                             *)

\* The frames of a sequence of packets, in order, by their first packets.
Frames(s) ==
  LET Upto[i \in 0 .. Len(s)] ==
        IF i = 0 THEN <<>>
        ELSE IF s[i].first THEN Append(Upto[i - 1], <<s[i].kind, s[i].n>>)
        ELSE Upto[i - 1]
  IN  Upto[Len(s)]

\* Frames reach recvFrame in the order they were sent, none twice, whatever
\* the order in which the daemon gets round to data, requests and reads.
Channel == INSTANCE FrameChannel WITH
  Kinds <- FrameKinds \X (0 .. MaxCalls),
  q <- Frames(toHost \o usbIn \o device.unsent)

ImplementsChannel == Channel!Spec

\* Between the device and the driver there are only whole frames: no reset,
\* whenever it is asked for, cuts one short; and once usb_daemon selects again,
\* the last frame it handed over has its last packet, so that it does not turn
\* to data or requests in the middle.
WholeFrames ==
  LET all == toHost \o usbIn \o device.unsent IN
    /\ \A i \in 1 .. Len(all) :
         /\ ~all[i].first => i > 1 /\ all[i - 1].left = all[i].left + 1
         /\ all[i].left > 0 => i < Len(all) /\ ~all[i + 1].first
    /\ daemon.at # "more" => toHost = <<>> \/ toHost[Len(toHost)].left = 0

\* A frame that waits at the endpoint when recvFrame asks for it is handed
\* over, unless a reset drops it, although the daemon forgets a read request
\* when the read times out.
ReadServed == (usbIn # <<>> /\ \E i \in DOMAIN ctrl : ctrl[i] = "r")
                ~> (toHost # <<>> \/ usbIn = <<>> \/ host.pc = "dead")
=============================================================================
