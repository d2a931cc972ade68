------------------------------ MODULE GdbRemote ------------------------------
(***************************************************************************)
(* The GDB stub of avarice (remote.cc): packets with their checksums and   *)
(* acknowledgements, the commands of talkToGdb, and what they do to a      *)
(* driver for either emulator (jtagrun.cc, jtag2run.cc).                   *)
(*                                                                         *)
(* A packet is one token of the connection, and so is an acknowledgement   *)
(* or the interrupt character.  Queries are the commands that change       *)
(* nothing here: registers, memory other than flash, status, unknown ones. *)
(* GDB is external: it sends one command at a time, acknowledges every     *)
(* good packet, repeats a command that was refused or not acknowledged, and *)
(* takes the first packet after the acknowledgement for the answer.        *)
(*                                                                         *)
(* In both drivers the wait for the program to stop is not in order.  That *)
(* of the mkII has no exit, and jtagContinue of the mkI returns at once,   *)
(* without a value and without having started the program.                 *)
(*                                                                         *)
(* done, asked and image are history: the commands carried out, the code   *)
(* breakpoints GDB was told are set, and which of them the driver had room *)
(* for (held), and the bytes GDB was told are written.                     *)
(***************************************************************************)
EXTENDS Integers, Sequences

CONSTANTS
  Commands,       \* what GDB may send
  FlashSize,
  Addresses,      \* where breakpoints may be, and interrupts return to
  MaxCommands,    \* bounds on commands, interrupts by the user, and packets
  MaxInterrupts,  \* damaged on their way
  MaxDamage

Ops == {"query", "kill", "reset", "hup", "write", "step", "cont", "detach", "insert",
        "remove", "badtype"}
FlashAddrs == 0 .. FlashSize - 1

ASSUME RemoteAssumption ==
  /\ FlashSize \in Nat
  /\ MaxCommands \in Nat /\ MaxInterrupts \in Nat /\ MaxDamage \in Nat
  /\ \A c \in Commands :
       /\ c.op \in Ops
       /\ c.op \in {"insert", "remove"} => c.addr \in Addresses
       /\ c.op = "write" => /\ c.len \in Nat \ {0}
                            /\ c.addr .. c.addr + c.len - 1 \subseteq FlashAddrs

VARIABLES
  box,                 \* the emulator: "mkI" or "mkII"
  gdb,                 \* GDB's side of the protocol
  toStub, toGdb,       \* the connection
  stub,                \* where talkToGdb is, and the packet putpacket waits with
  orphan,              \* the static variables of the M command
  flash,
  bps,                 \* code breakpoints in the driver's table
  program,             \* the target: "stopped" or "running"
  interrupts, damage,  \* counted against their bounds
  done, asked, image

vars == <<box, gdb, toStub, toGdb, stub, orphan, flash, bps, program, interrupts, damage,
          done, asked, image>>
target == <<flash, bps, program, asked, image>>
others == <<box, gdb, interrupts, damage>>

Ack == [k |-> "ack"]
Nak == [k |-> "nak"]
Break == [k |-> "break"]
Command(n, c) == [k |-> "command", n |-> n, cmd |-> c, bad |-> FALSE]
Reply(n) == [k |-> "reply", n |-> n, bad |-> FALSE]
Text == [k |-> "text", bad |-> FALSE]
IsPacket(t) == t.k \in {"command", "reply", "text"}
NoPacket == [k |-> "none"]

Junk == -1
None == -1

-----------------------------------------------------------------------------
(* Packets: getpacket and putpacket.  stub.out is the packet that putpacket *)
(* waits with for its acknowledgement, stub.pc is where it returns to.      *)

At(l) == stub.pc = l /\ stub.out = NoPacket

Put(p, l) ==
  /\ toGdb' = Append(toGdb, p)
  /\ stub' = [stub EXCEPT !.out = p, !.pc = l]

\* Everything but the start of a packet.
Skip ==
  /\ At("getpacket") /\ toStub # <<>> /\ Head(toStub).k # "command"
  /\ toStub' = Tail(toStub)
  /\ UNCHANGED <<others, toGdb, stub, orphan, target, done>>

\* Mutants: the checksum is not compared; a damaged packet is refused before
\* GDB is told why.
GetPacket_Unchecked ==
  /\ At("getpacket") /\ toStub # <<>> /\ Head(toStub).k = "command"
  /\ toStub' = Tail(toStub)
  /\ toGdb' = Append(toGdb, Ack) /\ stub' = [stub EXCEPT !.pc = "exec", !.cmd = Head(toStub)]
  /\ UNCHANGED <<others, orphan, target, done>>

GetPacket_NakFirst ==
  /\ At("getpacket") /\ toStub # <<>> /\ Head(toStub).k = "command"
  /\ toStub' = Tail(toStub)
  /\ IF Head(toStub).bad
       THEN toGdb' = toGdb \o <<Nak, Text>> /\ stub' = [stub EXCEPT !.out = Text]
       ELSE toGdb' = Append(toGdb, Ack) /\ stub' = [stub EXCEPT !.pc = "exec", !.cmd = Head(toStub)]
  /\ UNCHANGED <<others, orphan, target, done>>

GetPacket ==
  /\ At("getpacket") /\ toStub # <<>> /\ Head(toStub).k = "command"
  /\ toStub' = Tail(toStub)
  /\ IF Head(toStub).bad
       THEN Put(Text, "bad2")
       ELSE toGdb' = Append(toGdb, Ack) /\ stub' = [stub EXCEPT !.pc = "exec", !.cmd = Head(toStub)]
  /\ UNCHANGED <<others, orphan, target, done>>

\* Three texts, each acknowledged, and then the refusal.
BadChecksum ==
  /\ \/ At("bad2") /\ Put(Text, "bad3")
     \/ At("bad3") /\ Put(Text, "nak")
     \/ At("nak") /\ toGdb' = Append(toGdb, Nak) /\ stub' = [stub EXCEPT !.pc = "getpacket"]
  /\ UNCHANGED <<others, toStub, orphan, target, done>>

Acknowledged ==
  /\ stub.out # NoPacket /\ toStub # <<>> /\ Head(toStub) = Ack
  /\ toStub' = Tail(toStub)
  /\ stub' = [stub EXCEPT !.out = NoPacket]
  /\ UNCHANGED <<others, toGdb, orphan, target, done>>

\* Mutant: any character ends the wait.
Retransmit_Not ==
  /\ stub.out # NoPacket /\ toStub # <<>> /\ Head(toStub) # Ack
  /\ toStub' = Tail(toStub)
  /\ stub' = [stub EXCEPT !.out = NoPacket]
  /\ UNCHANGED <<others, toGdb, orphan, target, done>>

\* Any other character makes putpacket send once more, whatever it means.
Retransmit ==
  /\ stub.out # NoPacket /\ toStub # <<>> /\ Head(toStub) # Ack
  /\ toStub' = Tail(toStub)
  /\ toGdb' = Append(toGdb, stub.out)
  /\ UNCHANGED <<others, stub, orphan, target, done>>

\* Mutant: only getpacket notices that GDB has gone.
Eof_Idle ==
  /\ gdb.pc = "closed" /\ toStub = <<>> /\ At("getpacket")
  /\ stub' = [stub EXCEPT !.pc = "exit", !.out = NoPacket]
  /\ program' = "running"
  /\ UNCHANGED <<others, toStub, toGdb, orphan, flash, bps, asked, image, done>>

\* getDebugChar: the program is resumed, which may fail, the driver deleted, and
\* the process ends.
Eof ==
  /\ gdb.pc = "closed" /\ toStub = <<>>
  /\ stub.pc = "getpacket" \/ stub.out # NoPacket
  /\ \E e \in {"exit", "dead"} : stub' = [stub EXCEPT !.pc = e, !.out = NoPacket]
  /\ \/ program' = "running"
     \/ (box = "mkI" \/ stub'.pc = "dead") /\ program' = program
  /\ UNCHANGED <<others, toStub, toGdb, orphan, flash, bps, asked, image, done>>

Packets == Skip \/ GetPacket \/ BadChecksum \/ Acknowledged \/ Retransmit \/ Eof

-----------------------------------------------------------------------------
(* Commands.  Each begins with Begins(op), which is talkToGdb's switch, and  *)
(* last_cmd.                                                                 *)

Cmd == stub.cmd.cmd
Begins(op) == /\ At("exec") /\ Cmd.op = op
              /\ done' = Append(done, [n |-> stub.cmd.n, bad |-> stub.cmd.bad])
              /\ orphan' = [orphan EXCEPT !.after = FALSE]

Answers == Put(Reply(stub.cmd.n), "getpacket")
GoTo(l) == stub' = [stub EXCEPT !.pc = l] /\ toGdb' = toGdb

\* A query for the I/O registers repeats a read that fails.
Query ==
  /\ Begins("query")
  /\ Answers \/ GoTo("loop")
  /\ UNCHANGED <<others, toStub, target>>

\* No reply, neither to k nor to R.
Kill == Begins("kill") /\ GoTo("getpacket") /\ UNCHANGED <<others, toStub, target>>

\* resetProgram of the mkII waits in eventLoop, unless it uses debugWire.
Reset ==
  /\ Begins("reset")
  /\ \/ box = "mkII" /\ GoTo("loop")
     \/ GoTo("getpacket")
     \/ Put(Text, "getpacket")
  /\ UNCHANGED <<others, toStub, target>>

\* C01
Hup ==
  /\ Begins("hup")
  /\ (box = "mkII" /\ GoTo("loop")) \/ Answers
  /\ UNCHANGED <<others, toStub, target>>

\* M, for flash: a byte left over from an M before it goes ahead of the data.
\* hex2mem fills the buffer from there on with as many bytes as it has room
\* for in all, and last_orphan is taken from behind its last byte: what is
\* found there may by chance be right.
Odd(n) == n % 2 = 1
Lead == Odd(Cmd.addr) /\ orphan.after /\ orphan.pending
From == IF Lead THEN Cmd.addr - 1 ELSE Cmd.addr
Length == IF Lead THEN Cmd.len + 1 ELSE Cmd.len
Whole == Length - (Length % 2)
Data(a) == IF a < Cmd.addr THEN orphan.byte ELSE stub.cmd.n
jtagWriteOk == box = "mkI" /\ Whole # 0 => ~Odd(From)

Write ==
  /\ At("exec") /\ Cmd.op = "write"
  /\ done' = Append(done, [n |-> stub.cmd.n, bad |-> stub.cmd.bad])
  /\ \E b \in {Junk, stub.cmd.n} :
       orphan' = IF Odd(Length)
                   THEN [after |-> TRUE, pending |-> TRUE, byte |-> b, at |-> Cmd.addr + Cmd.len - 1]
                   ELSE [orphan EXCEPT !.after = TRUE, !.pending = FALSE, !.at = None]
  /\ \/ /\ jtagWriteOk
        /\ flash' = [a \in FlashAddrs |-> IF a \in From .. From + Whole - 1 THEN Data(a)
                                           ELSE flash[a]]
        /\ image' = [a \in FlashAddrs |-> IF a \in Cmd.addr .. Cmd.addr + Cmd.len - 1
                                           THEN stub.cmd.n ELSE image[a]]
     \/ UNCHANGED <<flash, image>>
  /\ Answers
  /\ UNCHANGED <<others, toStub, bps, program, asked>>

\* Z.  Where the layout has no room for the breakpoint the mkII switches its entry
\* off again and answers OK all the same.
Granted == /\ bps' = bps \cup {Cmd.addr}
           /\ asked' = [told |-> asked.told \cup {Cmd.addr}, held |-> asked.held \cup {Cmd.addr}]
NotGranted == UNCHANGED <<bps, asked>>
ToldOnly == /\ box = "mkII"
            /\ bps' = bps
            /\ asked' = [told |-> asked.told \cup {Cmd.addr}, held |-> asked.held]

Insert ==
  /\ Begins("insert") /\ Answers
  /\ Granted \/ NotGranted \/ ToldOnly
  /\ UNCHANGED <<others, toStub, flash, program, image>>

\* z
Remove ==
  /\ Begins("remove") /\ Answers
  /\ bps' = bps \ {Cmd.addr}
  /\ asked' = [told |-> asked.told \ {Cmd.addr}, held |-> asked.held \ {Cmd.addr}]
  /\ UNCHANGED <<others, toStub, flash, program, image>>

\* A type of breakpoint the stub does not know: exit(1).
BadType ==
  /\ Begins("badtype") /\ GoTo("exit")
  /\ UNCHANGED <<others, toStub, target>>

\* resumeProgram of the mkI may be refused, and GDB told so.
Detach ==
  /\ Begins("detach") /\ Answers
  /\ program' = "running" \/ (box = "mkI" /\ program' = program)
  /\ UNCHANGED <<others, toStub, flash, bps, asked, image>>

\* s and c, with an address or without: the mkI may refuse the address, which
\* is said and no more.
Resume(op) ==
  /\ Begins(op)
  /\ GoTo(op) \/ (box = "mkI" /\ Put(Text, op))
  /\ UNCHANGED <<others, toStub, target>>

\* Where an undefined value is returned, either.
Continue ==
  /\ At("cont")
  /\ IF box = "mkII"
       THEN GoTo("loop") /\ program' = "running"
       ELSE /\ \E r \in BOOLEAN : stub' = [stub EXCEPT !.pc = "status", !.result = r]
            /\ toGdb' = toGdb /\ program' = program
  /\ UNCHANGED <<others, toStub, orphan, flash, bps, asked, image, done>>

SingleStep ==
  /\ At("step")
  /\ GoTo(IF box = "mkII" THEN "loop" ELSE "stepped") \/ Put(Text, "stepped")
  /\ UNCHANGED <<others, toStub, orphan, target, done>>

\* The step ended in the interrupt vectors, or anywhere else.  Mutant: the
\* breakpoint at the return address is taken for granted to be new.
Stepped_NeedBP ==
  /\ At("stepped")
  /\ \E a \in Addresses : stub' = [stub EXCEPT !.pc = "interrupt", !.ret = a, !.needBP = TRUE]
  /\ UNCHANGED <<others, toStub, toGdb, orphan, target, done>>

Stepped ==
  /\ At("stepped")
  /\ \/ stub' = [stub EXCEPT !.pc = "status", !.result = TRUE]
     \/ \E a \in Addresses :
          stub' = [stub EXCEPT !.pc = "interrupt", !.ret = a, !.needBP = a \notin bps]
  /\ UNCHANGED <<others, toStub, toGdb, orphan, target, done>>

\* handleInterrupt: a breakpoint at the return address, unless there is one.  One
\* that is refused ends the step; of one it has only no room for the mkII does not
\* tell.
AddReturn ==
  /\ At("interrupt")
  /\ \/ stub' = [stub EXCEPT !.pc = "excursion"]
        /\ \/ bps' = IF stub.needBP THEN bps \cup {stub.ret} ELSE bps
           \/ box = "mkII" /\ bps' = bps
     \/ /\ stub.needBP
        /\ stub' = [stub EXCEPT !.pc = "status", !.result = FALSE]
        /\ bps' = bps
  /\ UNCHANGED <<others, toStub, toGdb, orphan, flash, program, asked, image, done>>

\* jtagContinue, and the breakpoint is taken away.  On the mkI the program has
\* not run, so that the stack pointer is what it was, and with TRUE for a result
\* nothing will be different in the next round.
RunHandler ==
  /\ At("excursion")
  /\ IF box = "mkII"
       THEN GoTo("loop") /\ program' = "running" /\ bps' = bps
       ELSE /\ \E r \in BOOLEAN :
                 stub' = [stub EXCEPT !.pc = IF r /\ stub.needBP THEN "loop" ELSE "status",
                                      !.result = r]
            /\ bps' = IF stub.needBP THEN bps \ {stub.ret} ELSE bps
            /\ toGdb' = toGdb /\ program' = program
  /\ UNCHANGED <<others, toStub, orphan, flash, asked, image, done>>

\* repStatus
Status ==
  /\ At("status") /\ Answers
  /\ program' = IF stub.result THEN program ELSE "stopped"
  /\ UNCHANGED <<others, toStub, orphan, flash, bps, asked, image, done>>

\* The driver, or a write to a connection that is closed, ends the process.
Dies ==
  /\ \/ stub.out = NoPacket /\ stub.pc \in {"step", "cont", "stepped", "interrupt", "excursion", "status"}
     \/ At("exec") /\ Cmd.op # "kill"
     \/ /\ gdb.pc = "closed" /\ stub.pc \notin {"exit", "loop", "dead"}
        /\ toStub # <<>> \/ (stub.out = NoPacket /\ stub.pc # "getpacket")
  /\ stub' = [stub EXCEPT !.pc = "dead", !.out = NoPacket]
  /\ UNCHANGED <<others, toStub, toGdb, orphan, target, done>>

TalkToGdb ==
  \/ Query \/ Kill \/ Reset \/ Hup \/ Write \/ Insert \/ Remove \/ BadType \/ Detach
  \/ Resume("step") \/ Resume("cont") \/ Continue \/ SingleStep \/ Stepped \/ AddReturn
  \/ RunHandler \/ Status \/ Dies

-----------------------------------------------------------------------------
(* GDB and the connection.                                                  *)

Gdb(g) == gdb' = g /\ UNCHANGED <<box, stub, orphan, target, done>>

\* After k or D it goes away.  A breakpoint is inserted once and removed once.
GdbSend(c) ==
  /\ gdb.pc = "idle" /\ gdb.n < MaxCommands
  /\ gdb.n > 0 => gdb.cmd.op \notin {"kill", "detach"}
  /\ c.op = "insert" => c.addr \notin asked.told
  /\ c.op = "remove" => c.addr \in asked.told
  /\ Gdb([pc |-> "ack", n |-> gdb.n + 1, cmd |-> c])
  /\ toStub' = Append(toStub, Command(gdb.n + 1, c))
  /\ UNCHANGED <<toGdb, interrupts, damage>>

\* A packet is acknowledged or refused, whichever it is.
Said(t) == IF t.bad THEN Nak ELSE Ack

GdbTake ==
  /\ gdb.pc \in {"ack", "reply"} /\ toGdb # <<>>
  /\ toGdb' = Tail(toGdb)
  /\ LET t == Head(toGdb) IN
       /\ Gdb([gdb EXCEPT !.pc = CASE gdb.pc = "ack" /\ t = Ack ->
                                        IF gdb.cmd.op \in {"kill", "reset"} THEN "idle" ELSE "reply"
                                   [] gdb.pc = "reply" /\ t.k = "reply" /\ ~t.bad -> "idle"
                                   [] OTHER -> @])
       /\ toStub' = IF IsPacket(t) THEN Append(toStub, Said(t))
                    ELSE IF gdb.pc = "ack" /\ t = Nak THEN Append(toStub, Command(gdb.n, gdb.cmd))
                    ELSE toStub
  /\ UNCHANGED <<interrupts, damage>>

\* No acknowledgement has come for long enough that the stub waits as well.
GdbTimeout ==
  /\ gdb.pc = "ack" /\ toStub = <<>> /\ toGdb = <<>> /\ At("getpacket")
  /\ toStub' = <<Command(gdb.n, gdb.cmd)>>
  /\ Gdb(gdb)
  /\ UNCHANGED <<toGdb, interrupts, damage>>

GdbInterrupt ==
  /\ gdb.pc = "reply" /\ gdb.cmd.op \in {"step", "cont"} /\ interrupts < MaxInterrupts
  /\ interrupts' = interrupts + 1
  /\ toStub' = Append(toStub, Break)
  /\ Gdb(gdb)
  /\ UNCHANGED <<toGdb, damage>>

GdbCloses ==
  /\ gdb.pc # "closed"
  /\ Gdb([gdb EXCEPT !.pc = "closed"])
  /\ UNCHANGED <<toStub, toGdb, interrupts, damage>>

Damaged(q) == {[q EXCEPT ![i].bad = TRUE] : i \in {j \in DOMAIN q : IsPacket(q[j])}}

Damage ==
  /\ damage < MaxDamage
  /\ damage' = damage + 1
  /\ \/ toStub' \in Damaged(toStub) /\ toGdb' = toGdb
     \/ toGdb' \in Damaged(toGdb) /\ toStub' = toStub
  /\ Gdb(gdb)
  /\ UNCHANGED interrupts

External ==
  (\E c \in Commands : GdbSend(c)) \/ GdbTake \/ GdbTimeout \/ GdbInterrupt \/ GdbCloses \/ Damage

Over == stub.pc \in {"exit", "loop", "dead"}
Ended == Over /\ UNCHANGED vars

Init ==
  /\ box \in {"mkI", "mkII"}
  /\ gdb = [pc |-> "idle", n |-> 0, cmd |-> [op |-> "query"]]
  /\ toStub = <<>> /\ toGdb = <<>>
  /\ stub = [pc |-> "getpacket", cmd |-> Command(0, gdb.cmd), out |-> NoPacket, result |-> FALSE,
             ret |-> None, needBP |-> FALSE]
  /\ orphan = [after |-> FALSE, pending |-> FALSE, byte |-> Junk, at |-> None]
  /\ flash = [a \in FlashAddrs |-> 0]
  /\ bps = {}
  /\ program = "stopped"
  /\ interrupts = 0 /\ damage = 0
  /\ done = <<>> /\ asked = [told |-> {}, held |-> {}] /\ image = flash

Next == Packets \/ TalkToGdb \/ External \/ Ended

Spec == Init /\ [][Next]_vars

\* The stub waits only for GDB, and GDB reads what it is waiting for.
FairSpec == Spec /\ WF_vars(Packets) /\ WF_vars(TalkToGdb) /\ WF_vars(GdbTake \/ GdbTimeout)

-----------------------------------------------------------------------------
(* Properties.                                                              *)

\* Every command of GDB's is carried out once, undamaged and in its turn, and
\* one that has an answer has been when GDB takes a packet for it, whatever was
\* damaged or repeated.
ExecutedOnce ==
  /\ \A i \in DOMAIN done : done[i].n = i /\ ~done[i].bad
  /\ gdb.pc = "idle" /\ gdb.cmd.op \notin {"kill", "reset"} => Len(done) = gdb.n

\* putpacket takes any character for a reason to send again; it never takes a
\* command for one, as GDB has none to send while the stub waits: but when R
\* fails the stub says so, and GDB, which expects no reply, may have gone on.
NoCommandEaten ==
  [][/\ stub.out # NoPacket /\ toStub # <<>> /\ toStub' = Tail(toStub)
     /\ Head(toStub).k = "command"
     => Cmd.op = "reset"]_vars

\* Between commands the breakpoints are those GDB asked for and the driver had room
\* for: the one that handleInterrupt adds is gone, and one of GDB's at its place is
\* not.  With the mkI these are all that GDB was told are set; the mkII tells GDB so
\* of breakpoints that it does not hold, but holds none GDB does not know of.
BreakpointsKept ==
  /\ stub.pc # "excursion" /\ ~Over => bps = asked.held
  /\ asked.held \subseteq asked.told
  /\ box = "mkI" => asked.held = asked.told

\* A command is answered, unless GDB goes, or the process does, or the driver
\* never returns, or the user interrupts and a packet is damaged: then an
\* acknowledgement of a repeated packet may stand for one that was refused.
Answered ==
  gdb.pc \in {"ack", "reply"} ~>
    gdb.pc \in {"idle", "closed"} \/ Over \/ (interrupts > 0 /\ damage > 0)

\* When GDB has gone the stub ends, wherever it is, unless the driver never
\* returns.
ServerEnds == gdb.pc = "closed" ~> Over

\* A program that was loaded from its beginning to its end is in flash, but
\* for a last odd byte that the next M is to write.
Loaded == \A a, b \in FlashAddrs : a < b => 0 < image[a] /\ image[a] <= image[b]
LoadStored ==
  Loaded => \A a \in FlashAddrs : flash[a] = image[a] \/ (orphan.pending /\ orphan.at = a)
=============================================================================
