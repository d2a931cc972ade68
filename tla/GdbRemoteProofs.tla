--------------------------- MODULE GdbRemoteProofs ---------------------------
(***************************************************************************)
(* Proofs about GdbRemote, for any commands, addresses and bounds, for     *)
(* either emulator, and whatever is damaged, repeated or interrupted:      *)
(*                                                                         *)
(*  - the breakpoint that handleInterrupt adds for its own purposes never  *)
(*    stays, and never takes one of GDB's with it;                         *)
(*  - every command of GDB's is carried out once and in its turn;          *)
(*  - putpacket takes none of them for a refusal of its packet.            *)
(***************************************************************************)
EXTENDS GdbRemote, TLAPS

-----------------------------------------------------------------------------
(* Breakpoints.  While handleInterrupt is on its excursion the table has *)
(* one more breakpoint than GDB's if there was none at the return address, *)
(* and needBP tells; but the mkII may have had no room for it.             *)

Record(s) == s = [pc |-> s.pc, cmd |-> s.cmd, out |-> s.out, result |-> s.result, ret |-> s.ret,
                  needBP |-> s.needBP]

Excursion == stub.pc = "excursion"

\* What of GDB's breakpoints the driver holds.
HeldIsTold ==
  /\ asked.held \subseteq asked.told
  /\ box = "mkI" => asked.held = asked.told

TableInv ==
  /\ Record(stub)
  /\ stub.needBP \in BOOLEAN
  /\ ~Excursion /\ ~Over => bps = asked.held
  /\ stub.pc = "interrupt" => (stub.needBP <=> stub.ret \notin bps)
  /\ Excursion => /\ stub.needBP <=> stub.ret \notin asked.held
                  /\ \/ bps = asked.held \cup (IF stub.needBP THEN {stub.ret} ELSE {})
                     \/ box = "mkII" /\ bps = asked.held
  /\ Excursion \/ stub.pc = "interrupt" => stub.out = NoPacket
  /\ HeldIsTold

-----------------------------------------------------------------------------
(* Records.                                                                *)

Like(t, s) == Record(t) /\ t.needBP = s.needBP

LEMMA RecordFacts ==
  ASSUME NEW s, Record(s), NEW v, NEW t
  PROVE  /\ t = [s EXCEPT !.pc = v] => Like(t, s) /\ t.pc = v /\ t.out = s.out /\ t.ret = s.ret
         /\ t = [s EXCEPT !.out = v] => Like(t, s) /\ t.pc = s.pc /\ t.ret = s.ret
         /\ t = [s EXCEPT !.cmd = v] => Like(t, s) /\ t.pc = s.pc
         /\ t = [s EXCEPT !.result = v] => Like(t, s) /\ t.pc = s.pc
         /\ t = [s EXCEPT !.ret = v] => Like(t, s) /\ t.pc = s.pc /\ t.out = s.out /\ t.ret = v
         /\ t = [s EXCEPT !.needBP = v] => Record(t) /\ t.needBP = v /\ t.pc = s.pc /\ t.out = s.out /\ t.ret = s.ret
  BY DEF Record, Like

\* What the assignments to two fields make of the stub.
LEMMA StubFacts ==
  ASSUME Record(stub), NEW l, NEW p, NEW t
  PROVE  /\ t = [stub EXCEPT !.pc = l] => Like(t, stub) /\ t.pc = l
         /\ t = [stub EXCEPT !.out = p, !.pc = l] => Like(t, stub) /\ t.pc = l
         /\ t = [stub EXCEPT !.pc = l, !.out = p] => Like(t, stub) /\ t.pc = l
         /\ t = [stub EXCEPT !.pc = l, !.cmd = p] => Like(t, stub) /\ t.pc = l
         /\ t = [stub EXCEPT !.pc = l, !.result = p] => Like(t, stub) /\ t.pc = l
<1> DEFINE a == [stub EXCEPT !.pc = l]
           b == [stub EXCEPT !.out = p]
<1>1. Like(a, stub) /\ a.pc = l
  BY RecordFacts
<1>2. Like(b, stub)
  BY RecordFacts
<1>3. Record(a) /\ Record(b)
  BY <1>1, <1>2 DEF Like
<1> HIDE DEF a, b
<1>4. t = [b EXCEPT !.pc = l] => Like(t, b) /\ t.pc = l
  BY <1>3, RecordFacts
<1>5. t = [a EXCEPT !.out = p] => Like(t, a) /\ t.pc = a.pc
  BY <1>3, RecordFacts
<1>6. t = [a EXCEPT !.cmd = p] => Like(t, a) /\ t.pc = a.pc
  BY <1>3, RecordFacts
<1>7. t = [a EXCEPT !.result = p] => Like(t, a) /\ t.pc = a.pc
  BY <1>3, RecordFacts
<1>8. t = a => Like(t, stub) /\ t.pc = l
  BY <1>1
<1>9. \A c \in {a, b} : Like(t, c) => Like(t, stub)
  BY <1>1, <1>2 DEF Like
<1> USE DEF a, b
<1>10. t = [stub EXCEPT !.pc = l] => Like(t, stub) /\ t.pc = l
  BY <1>8
<1>11. t = [stub EXCEPT !.out = p, !.pc = l] => Like(t, stub) /\ t.pc = l
  <2>1. t = [b EXCEPT !.pc = l] => Like(t, stub) /\ t.pc = l
    <3> HIDE DEF a, b
    <3> QED
      BY <1>4, <1>9
  <2> QED
    BY <2>1, Zenon
<1> HIDE DEF a, b
<1>12. /\ t = [a EXCEPT !.out = p] => Like(t, stub) /\ t.pc = l
       /\ t = [a EXCEPT !.cmd = p] => Like(t, stub) /\ t.pc = l
       /\ t = [a EXCEPT !.result = p] => Like(t, stub) /\ t.pc = l
  BY <1>1, <1>5, <1>6, <1>7, <1>9
<1> QED
  BY <1>10, <1>11, <1>12, Zenon DEF a

-----------------------------------------------------------------------------
(* The steps.                                                              *)

LEMMA InitTable == Init => TableInv
<1> SUFFICES ASSUME Init PROVE TableInv
  OBVIOUS
<1>1. stub = [pc |-> "getpacket", cmd |-> Command(0, gdb.cmd), out |-> NoPacket, result |-> FALSE,
              ret |-> None, needBP |-> FALSE]
  BY Zenon DEF Init
<1>2. bps = {} /\ asked = [told |-> {}, held |-> {}]
  BY Zenon DEF Init
<1> QED
  BY <1>1, <1>2 DEF TableInv, Record, Excursion, HeldIsTold

LEMMA StubKept ==
  ASSUME TableInv, UNCHANGED <<box, stub, bps, asked>>
  PROVE  TableInv'
  BY DEF TableInv, Excursion, Over, HeldIsTold

\* The table is left alone, or changed as GDB is told.
HeldKept ==
  /\ bps = asked.held => bps' = asked.held'
  /\ HeldIsTold => HeldIsTold'

LEMMA TableKept ==
  ASSUME UNCHANGED <<box, bps, asked>>
  PROVE  HeldKept
  BY DEF HeldKept, HeldIsTold

\* Everything but handleInterrupt.
LEMMA Moves ==
  ASSUME TableInv, ~Excursion, Record(stub'), stub'.needBP = stub.needBP,
         stub'.pc \notin {"interrupt", "excursion"},
         Over => Over',
         HeldKept
  PROVE  TableInv'
  BY DEF TableInv, Excursion, Over, Like, HeldKept, HeldIsTold

LEMMA PacketsKeep ==
  ASSUME TableInv, Packets
  PROVE  TableInv'
<1>1. Record(stub)
  BY DEF TableInv
<1>2. CASE Skip \/ Retransmit
  BY <1>2, StubKept DEF Skip, Retransmit, target, others
<1>3. CASE GetPacket
  <2>1. stub.pc = "getpacket" /\ UNCHANGED <<box, bps, asked>>
    BY <1>3 DEF GetPacket, At, target, others
  <2>2. Like(stub', stub) /\ stub'.pc \in {"bad2", "exec"}
    BY <1>1, <1>3, StubFacts DEF GetPacket, Put
  <2> QED
    BY <2>1, <2>2, TableKept, Moves DEF Excursion, Over, Like
<1>4. CASE BadChecksum
  <2>1. stub.pc \in {"bad2", "bad3", "nak"} /\ UNCHANGED <<box, bps, asked>>
    BY <1>4 DEF BadChecksum, At, target, others
  <2>2. Like(stub', stub) /\ stub'.pc \in {"bad3", "nak", "getpacket"}
    BY <1>1, <1>4, StubFacts DEF BadChecksum, Put
  <2> QED
    BY <2>1, <2>2, TableKept, Moves DEF Excursion, Over, Like
<1>5. CASE Acknowledged
  <2>1. stub.out # NoPacket /\ stub' = [stub EXCEPT !.out = NoPacket] /\ UNCHANGED <<box, bps, asked>>
    BY <1>5 DEF Acknowledged, target, others
  <2>2. Like(stub', stub) /\ stub'.pc = stub.pc
    BY <1>1, <2>1, RecordFacts
  <2>3. stub.pc \notin {"interrupt", "excursion"}
    BY <2>1 DEF TableInv, Excursion
  <2> QED
    BY <2>1, <2>2, <2>3, TableKept, Moves DEF Excursion, Over, Like
<1>6. CASE Eof
  <2>1. /\ stub.pc = "getpacket" \/ stub.out # NoPacket
        /\ \E e \in {"exit", "dead"} : stub' = [stub EXCEPT !.pc = e, !.out = NoPacket]
        /\ UNCHANGED <<box, bps, asked>>
    BY <1>6 DEF Eof, others
  <2>2. Like(stub', stub) /\ stub'.pc \in {"exit", "dead"}
    BY <1>1, <2>1, StubFacts
  <2>3. ~Excursion
    BY <2>1 DEF TableInv, Excursion
  <2> QED
    BY <2>1, <2>2, <2>3, TableKept, Moves DEF Excursion, Over, Like
<1> QED
  BY <1>2, <1>3, <1>4, <1>5, <1>6 DEF Packets

\* A command, from exec to where its answer is on its way or its work begins.
LEMMA CommandKeeps ==
  ASSUME TableInv, stub.pc = "exec", HeldKept, NEW l,
         l \notin {"interrupt", "excursion"},
         GoTo(l) \/ \E p : Put(p, l)
  PROVE  TableInv'
<1>1. Record(stub) /\ ~Excursion /\ ~Over
  BY DEF TableInv, Excursion, Over
<1>2. Like(stub', stub) /\ stub'.pc = l
  BY <1>1, StubFacts DEF GoTo, Put
<1> QED
  BY <1>1, <1>2, Moves DEF Like

LEMMA TalkKeeps ==
  ASSUME TableInv, TalkToGdb
  PROVE  TableInv'
<1>1. Record(stub)
  BY DEF TableInv
<1>2. CASE Query \/ Kill \/ Reset \/ Hup \/ BadType
  <2>1. stub.pc = "exec" /\ UNCHANGED <<box, bps, asked>>
    BY <1>2 DEF Query, Kill, Reset, Hup, BadType, Begins, At, target, others
  <2>2. \E l \in {"getpacket", "loop", "exit"} : GoTo(l) \/ \E p : Put(p, l)
    BY <1>2 DEF Query, Kill, Reset, Hup, BadType, Answers
  <2> QED
    BY <2>1, <2>2, TableKept, CommandKeeps
<1>3. CASE Write \/ Detach
  <2>1. stub.pc = "exec" /\ UNCHANGED <<box, bps, asked>>
    BY <1>3 DEF Write, Detach, Begins, At, others
  <2>2. \E p : Put(p, "getpacket")
    BY <1>3 DEF Write, Detach, Answers
  <2> QED
    BY <2>1, <2>2, TableKept, CommandKeeps
<1>4. CASE Insert \/ Remove
  <2>1. stub.pc = "exec" /\ box' = box
    BY <1>4 DEF Insert, Remove, Begins, At, others
  <2>2. HeldKept
    <3>1. CASE NotGranted
      BY <2>1, <3>1, TableKept DEF NotGranted
    <3>2. CASE Granted \/ ToldOnly
      BY <2>1, <3>2 DEF Granted, ToldOnly, HeldKept, HeldIsTold
    <3>3. CASE Remove
      BY <2>1, <3>3 DEF Remove, HeldKept, HeldIsTold
    <3> QED
      BY <1>4, <3>1, <3>2, <3>3 DEF Insert
  <2>3. \E p : Put(p, "getpacket")
    BY <1>4 DEF Insert, Remove, Answers
  <2> QED
    BY <2>1, <2>2, <2>3, CommandKeeps
<1>5. CASE Resume("step") \/ Resume("cont")
  <2>1. stub.pc = "exec" /\ UNCHANGED <<box, bps, asked>>
    BY <1>5 DEF Resume, Begins, At, target, others
  <2>2. \E l \in {"step", "cont"} : GoTo(l) \/ \E p : Put(p, l)
    BY <1>5 DEF Resume
  <2> QED
    BY <2>1, <2>2, TableKept, CommandKeeps
<1>6. CASE Continue \/ SingleStep \/ Status
  <2>1. stub.pc \in {"cont", "step", "status"} /\ UNCHANGED <<box, bps, asked>>
    BY <1>6 DEF Continue, SingleStep, Status, At, target, others
  <2>2. /\ Like(stub', stub)
        /\ stub'.pc \in {"loop", "status", "stepped", "getpacket"}
    <3>1. CASE \E r \in BOOLEAN : stub' = [stub EXCEPT !.pc = "status", !.result = r]
      <4>1. Like(stub', stub) /\ stub'.pc = "status"
        BY <1>1, <3>1, StubFacts, Zenon
      <4> QED
        BY <4>1
    <3>2. CASE \E l \in {"loop", "stepped", "getpacket"} : GoTo(l) \/ \E p : Put(p, l)
      BY <1>1, <3>2, StubFacts DEF GoTo, Put
    <3> QED
      BY <1>6, <3>1, <3>2 DEF Continue, SingleStep, Status, Answers
  <2> QED
    BY <2>1, <2>2, TableKept, Moves DEF Excursion, Over, Like
<1>7. CASE Stepped
  <2>1. stub.pc = "stepped" /\ stub.out = NoPacket /\ UNCHANGED <<box, bps, asked>> /\ bps = asked.held
    BY <1>7 DEF Stepped, At, target, others, TableInv, Excursion, Over
  <2>2. CASE stub' = [stub EXCEPT !.pc = "status", !.result = TRUE]
    <3>1. Like(stub', stub) /\ stub'.pc = "status"
      <4> DEFINE u == [stub EXCEPT !.pc = "status"]
      <4>1. Like(u, stub) /\ u.pc = "status"
        BY <1>1, RecordFacts
      <4>2. stub' = [u EXCEPT !.result = TRUE]
        BY <2>2
      <4> HIDE DEF u
      <4>3. Like(stub', u) /\ stub'.pc = u.pc
        BY <4>1, <4>2 DEF Like, Record
      <4> QED
        BY <4>1, <4>3 DEF Like
    <3> QED
      BY <2>1, <3>1, TableKept, Moves DEF Excursion, Over, Like
  <2>3. ASSUME NEW a \in Addresses, stub' = [stub EXCEPT !.pc = "interrupt", !.ret = a, !.needBP = a \notin bps]
        PROVE  TableInv'
    <3> DEFINE t == [stub EXCEPT !.pc = "interrupt"]
               u == [t EXCEPT !.ret = a]
    <3>1. Record(t) /\ t.pc = "interrupt" /\ t.out = stub.out
      BY <1>1, RecordFacts DEF Like
    <3>2. stub' = [u EXCEPT !.needBP = a \notin bps]
      BY <2>3
    <3> HIDE DEF t
    <3>3. Record(u) /\ u.pc = "interrupt" /\ u.out = stub.out /\ u.ret = a
      BY <3>1, RecordFacts DEF Like
    <3> HIDE DEF u
    <3>4. PICK b : b = (a \notin bps)
      OBVIOUS
    <3>5. b \in BOOLEAN /\ (b <=> a \notin bps)
      BY <3>4
    <3>6. stub' = [u EXCEPT !.needBP = b]
      BY <3>2, <3>4
    <3>7. /\ Record(stub') /\ stub'.pc = u.pc /\ stub'.out = u.out /\ stub'.ret = u.ret
          /\ stub'.needBP = b
      BY <3>3, <3>6, RecordFacts
    <3> QED
      BY <2>1, <3>3, <3>5, <3>7 DEF TableInv, Excursion, Over, HeldIsTold
  <2> QED
    BY <1>7, <2>2, <2>3 DEF Stepped
<1>8. CASE AddReturn
  <2>1. /\ stub.pc = "interrupt" /\ stub.out = NoPacket /\ UNCHANGED <<box, asked>>
        /\ bps = asked.held /\ HeldIsTold
        /\ stub.needBP <=> stub.ret \notin bps
    BY <1>8 DEF AddReturn, At, TableInv, Excursion, Over, others
  <2>2. CASE /\ stub' = [stub EXCEPT !.pc = "excursion"]
             /\ \/ bps' = IF stub.needBP THEN bps \cup {stub.ret} ELSE bps
                \/ box = "mkII" /\ bps' = bps
    <3>1. /\ Like(stub', stub) /\ stub'.pc = "excursion"
          /\ stub'.ret = stub.ret /\ stub'.out = stub.out
      BY <1>1, <2>2, RecordFacts
    <3> QED
      BY <2>1, <2>2, <3>1 DEF TableInv, Excursion, Over, Like, HeldIsTold
  <2>3. CASE stub' = [stub EXCEPT !.pc = "status", !.result = FALSE] /\ bps' = bps
    <3>1. Like(stub', stub) /\ stub'.pc = "status"
      <4> DEFINE u == [stub EXCEPT !.pc = "status"]
      <4>1. Like(u, stub) /\ u.pc = "status"
        BY <1>1, RecordFacts
      <4>2. stub' = [u EXCEPT !.result = FALSE]
        BY <2>3
      <4> HIDE DEF u
      <4>3. Like(stub', u) /\ stub'.pc = u.pc
        BY <4>1, <4>2 DEF Like, Record
      <4> QED
        BY <4>1, <4>3 DEF Like
    <3> QED
      BY <2>1, <2>3, <3>1, TableKept, Moves DEF Excursion, Over, Like
  <2> QED
    BY <1>8, <2>2, <2>3 DEF AddReturn
<1>9. CASE RunHandler
  <2>1. /\ Excursion /\ UNCHANGED <<box, asked>> /\ HeldIsTold
        /\ stub.needBP <=> stub.ret \notin asked.held
        /\ \/ bps = asked.held \cup (IF stub.needBP THEN {stub.ret} ELSE {})
           \/ box = "mkII" /\ bps = asked.held
    BY <1>9 DEF RunHandler, At, TableInv, Excursion, others
  <2>2. CASE box = "mkII"
    <3>1. stub' = [stub EXCEPT !.pc = "loop"]
      BY <1>9, <2>2 DEF RunHandler, GoTo
    <3>2. Like(stub', stub) /\ stub'.pc = "loop"
      BY <1>1, <3>1, RecordFacts
    <3> QED
      BY <2>1, <3>2 DEF TableInv, Excursion, Over, Like, HeldIsTold
  <2>3. CASE box # "mkII"
    <3>1. bps' = asked.held
      BY <1>9, <2>1, <2>3 DEF RunHandler
    <3>2. PICK r \in BOOLEAN :
            stub' = [stub EXCEPT !.pc = IF r /\ stub.needBP THEN "loop" ELSE "status", !.result = r]
      BY <1>9, <2>3 DEF RunHandler
    <3>3. Like(stub', stub) /\ stub'.pc \in {"loop", "status"}
      <4> DEFINE l == IF r /\ stub.needBP THEN "loop" ELSE "status"
      <4>1. l \in {"loop", "status"}
        OBVIOUS
      <4>2. stub' = [stub EXCEPT !.pc = l, !.result = r]
        BY <3>2
      <4> HIDE DEF l
      <4>3. Like(stub', stub) /\ stub'.pc = l
        BY <1>1, <4>2, StubFacts, ZenonT(60)
      <4> QED
        BY <4>1, <4>3
    <3> QED
      BY <2>1, <3>1, <3>3 DEF TableInv, Excursion, Over, Like, HeldIsTold
  <2> QED
    BY <2>2, <2>3
<1>10. CASE Dies
  <2>1. stub' = [stub EXCEPT !.pc = "dead", !.out = NoPacket]
    BY <1>10 DEF Dies
  <2>2. Like(stub', stub) /\ stub'.pc = "dead"
    BY <1>1, <2>1, StubFacts, ZenonT(60)
  <2>3. UNCHANGED <<box, asked>>
    BY <1>10 DEF Dies, target, others
  <2> QED
    BY <2>2, <2>3 DEF TableInv, Excursion, Over, Like, HeldIsTold
<1> QED
  BY <1>2, <1>3, <1>4, <1>5, <1>6, <1>7, <1>8, <1>9, <1>10 DEF TalkToGdb

LEMMA TableNext == TableInv /\ [Next]_vars => TableInv'
<1> SUFFICES ASSUME TableInv, [Next]_vars PROVE TableInv'
  OBVIOUS
<1>1. CASE External
  <2>1. UNCHANGED <<box, stub, target>>
    BY <1>1 DEF External, GdbSend, GdbTake, GdbTimeout, GdbInterrupt, GdbCloses, Damage, Gdb
  <2> QED
    BY <2>1, StubKept DEF target
<1>2. CASE Ended \/ UNCHANGED vars
  BY <1>2, StubKept DEF Ended, vars, target, others
<1> QED
  BY <1>1, <1>2, PacketsKeep, TalkKeeps DEF Next

-----------------------------------------------------------------------------
(* The theorem.                                                            *)

\* A step into an interrupt handler makes the stub set a breakpoint at the
\* return address, run there and take it away (remote.cc handleInterrupt,
\* jtagrun.cc): whenever it is ready for GDB the table is what GDB asked for and the
\* driver had room for (jtagbp.cc and jtag2bp.cc addBreakpoint), which with the mkI
\* is all that GDB was told is set.
THEOREM BreakpointsSound == Spec => []BreakpointsKept
<1>1. TableInv => BreakpointsKept
  BY DEF TableInv, Excursion, BreakpointsKept, HeldIsTold
<1> QED
  BY <1>1, InitTable, TableNext, PTL DEF Spec

-----------------------------------------------------------------------------
(* Packets and queues.                                                     *)

Cmds == Commands \cup {[op |-> "query"]}
CommandTokens == [k : {"command"}, n : Nat, cmd : Cmds, bad : BOOLEAN]
ReplyTokens == [k : {"reply"}, n : Nat, bad : BOOLEAN]
TextTokens == [k : {"text"}, bad : BOOLEAN]
Tokens == {Ack, Nak, Break} \cup CommandTokens \cup ReplyTokens \cup TextTokens

Verdict(t) == t.k \in {"ack", "nak"}

NoCommand(q) == \A i \in 1 .. Len(q) : q[i].k # "command"
NoVerdict(q) == \A i \in 1 .. Len(q) : ~Verdict(q[i])
OneCommand(q, n) ==
  \A i \in 1 .. Len(q) : q[i].k = "command" =>
    q[i].n = n /\ \A j \in 1 .. Len(q) : q[j].k = "command" => j = i
OneVerdict(q, k) ==
  \A i \in 1 .. Len(q) : Verdict(q[i]) =>
    q[i].k = k /\ \A j \in 1 .. Len(q) : Verdict(q[j]) => j = i

\* Answers are to commands carried out, to this one, and to this one once it is
\* acknowledged.
RepliesUpTo(q, d) == \A i \in 1 .. Len(q) : q[i].k = "reply" => q[i].n <= d
RepliesTo(q, n) == \A i \in 1 .. Len(q) : q[i].k = "reply" => q[i].n = n
RepliesAfter(q, n) ==
  \A i, j \in 1 .. Len(q) : i < j /\ q[i].k = "ack" /\ q[j].k = "reply" => q[j].n = n

\* What is on its way, by its kind.
LEMMA TokenFacts ==
  /\ Ack \in Tokens /\ Nak \in Tokens /\ Break \in Tokens /\ Text \in Tokens
  /\ Ack.k = "ack" /\ Nak.k = "nak" /\ Break.k = "break" /\ Text.k = "text"
  /\ \A n \in Nat : Reply(n) \in Tokens /\ Reply(n).k = "reply" /\ Reply(n).n = n
  /\ \A n \in Nat, c \in Cmds :
       Command(n, c) \in CommandTokens /\ Command(n, c).k = "command" /\ Command(n, c).n = n
  /\ CommandTokens \subseteq Tokens
  /\ \A t \in Tokens : /\ t.k \in {"ack", "nak", "break", "command", "reply", "text"}
                       /\ t.k = "ack" => t = Ack
                       /\ t.k = "nak" => t = Nak
                       /\ t.k = "command" => t \in CommandTokens
                       /\ t.k = "reply" => t.n \in Nat
                       /\ IsPacket(t) => t.bad \in BOOLEAN
<1>1. \A t \in CommandTokens : t.k = "command" /\ t.bad \in BOOLEAN
  BY DEF CommandTokens
<1>2. \A t \in ReplyTokens : t.k = "reply" /\ t.n \in Nat /\ t.bad \in BOOLEAN
  BY DEF ReplyTokens
<1>3. \A t \in TextTokens : t.k = "text" /\ t.bad \in BOOLEAN
  BY DEF TextTokens
<1>4. Ack.k = "ack" /\ Nak.k = "nak" /\ Break.k = "break" /\ Text.k = "text"
  BY DEF Ack, Nak, Break, Text
<1>5. \A n \in Nat : Reply(n) \in ReplyTokens /\ Reply(n).k = "reply" /\ Reply(n).n = n
  BY DEF Reply, ReplyTokens
<1>6. \A n \in Nat, c \in Cmds :
        Command(n, c) \in CommandTokens /\ Command(n, c).k = "command" /\ Command(n, c).n = n
  BY DEF Command, CommandTokens
<1>7. Text \in TextTokens
  BY DEF Text, TextTokens
<1>8. \A t \in Tokens : t \in {Ack, Nak, Break} \/ t \in CommandTokens \/ t \in ReplyTokens \/ t \in TextTokens
  BY DEF Tokens
<1>9. /\ Ack \in Tokens /\ Nak \in Tokens /\ Break \in Tokens
      /\ CommandTokens \subseteq Tokens /\ ReplyTokens \subseteq Tokens /\ TextTokens \subseteq Tokens
  BY DEF Tokens
<1> QED
  BY <1>1, <1>2, <1>3, <1>4, <1>5, <1>6, <1>7, <1>8, <1>9 DEF IsPacket

\* One more at the end of a queue, and one fewer at its head.
LEMMA Longer ==
  ASSUME NEW S, NEW q \in Seq(S), NEW e \in S
  PROVE  /\ Append(q, e) \in Seq(S)
         /\ Len(q) \in Nat
         /\ Len(Append(q, e)) = Len(q) + 1
         /\ \A i \in 1 .. Len(q) : Append(q, e)[i] = q[i]
         /\ Append(q, e)[Len(q) + 1] = e
  OBVIOUS

LEMMA Shorter ==
  ASSUME NEW S, NEW q \in Seq(S), q # <<>>
  PROVE  /\ Tail(q) \in Seq(S)
         /\ Head(q) \in S
         /\ Head(q) = q[1]
         /\ Len(q) \in Nat \ {0}
         /\ Len(Tail(q)) = Len(q) - 1
         /\ \A i \in 1 .. Len(q) - 1 : Tail(q)[i] = q[i + 1]
  OBVIOUS

\* To GDB's commands: nothing is added that is one, or the first one is.
Fewer(q, u) ==
  /\ NoCommand(q) => NoCommand(u)
  /\ \A n : OneCommand(q, n) => OneCommand(u, n)

LEMMA CommandAppended ==
  ASSUME NEW q \in Seq(Tokens), NEW t \in Tokens
  PROVE  /\ t.k # "command" => Fewer(q, Append(q, t))
         /\ t.k = "command" /\ NoCommand(q) => OneCommand(Append(q, t), t.n)
<1> DEFINE u == Append(q, t)
<1>1. /\ Len(q) \in Nat
      /\ Len(u) = Len(q) + 1
      /\ \A i \in 1 .. Len(q) : u[i] = q[i]
      /\ u[Len(q) + 1] = t
  BY Longer
<1> HIDE DEF u
<1>2. \A i \in 1 .. Len(u) : i \in 1 .. Len(q) \/ i = Len(q) + 1
  BY <1>1
<1>3. t.k # "command" => (NoCommand(q) => NoCommand(u)) /\ \A n : OneCommand(q, n) => OneCommand(u, n)
  <2> SUFFICES ASSUME t.k # "command"
               PROVE  (NoCommand(q) => NoCommand(u)) /\ \A n : OneCommand(q, n) => OneCommand(u, n)
    OBVIOUS
  <2>1. \A i \in 1 .. Len(u) : u[i].k = "command" => i \in 1 .. Len(q) /\ u[i] = q[i]
    BY <1>1, <1>2
  <2> QED
    BY <2>1 DEF NoCommand, OneCommand
<1>4. t.k = "command" /\ NoCommand(q) => OneCommand(u, t.n)
  <2> SUFFICES ASSUME t.k = "command", NoCommand(q)
               PROVE  OneCommand(u, t.n)
    OBVIOUS
  <2>1. \A i \in 1 .. Len(u) : u[i].k = "command" => i = Len(q) + 1
    BY <1>1, <1>2 DEF NoCommand
  <2> QED
    BY <1>1, <2>1 DEF OneCommand
<1> QED
  BY <1>3, <1>4 DEF Fewer, u

LEMMA CommandDropped ==
  ASSUME NEW q \in Seq(Tokens), q # <<>>
  PROVE  /\ Fewer(q, Tail(q))
         /\ Head(q).k = "command" => \A n : OneCommand(q, n) => NoCommand(Tail(q)) /\ Head(q).n = n
<1> DEFINE u == Tail(q)
<1>1. /\ Head(q) = q[1]
      /\ Len(q) \in Nat \ {0}
      /\ Len(u) = Len(q) - 1
      /\ \A i \in 1 .. Len(q) - 1 : u[i] = q[i + 1]
  BY Shorter
<1> HIDE DEF u
<1>2. \A i \in 1 .. Len(u) : i + 1 \in 1 .. Len(q) /\ u[i] = q[i + 1] /\ i + 1 # 1 /\ i \in Int
  BY <1>1
<1>3. 1 \in 1 .. Len(q)
  BY <1>1
<1>4. NoCommand(q) => NoCommand(u)
  BY <1>2 DEF NoCommand
<1>5. ASSUME NEW n, OneCommand(q, n)
      PROVE  OneCommand(u, n)
  <2> SUFFICES ASSUME NEW i \in 1 .. Len(u), u[i].k = "command"
               PROVE  u[i].n = n /\ \A j \in 1 .. Len(u) : u[j].k = "command" => j = i
    BY DEF OneCommand
  <2>1. i + 1 \in 1 .. Len(q) /\ q[i + 1].k = "command"
    BY <1>2
  <2>2. u[i].n = n /\ \A j \in 1 .. Len(q) : q[j].k = "command" => j = i + 1
    BY <1>2, <1>5, <2>1 DEF OneCommand
  <2>3. \A j \in 1 .. Len(u) : u[j].k = "command" => j + 1 = i + 1
    BY <1>2, <2>2
  <2> QED
    BY <1>2, <2>2, <2>3
<1>6. ASSUME NEW n, OneCommand(q, n), q[1].k = "command"
      PROVE  NoCommand(u) /\ q[1].n = n
  <2>1. q[1].n = n /\ \A j \in 1 .. Len(q) : q[j].k = "command" => j = 1
    BY <1>3, <1>6 DEF OneCommand
  <2> QED
    BY <1>2, <2>1 DEF NoCommand
<1> QED
  BY <1>1, <1>4, <1>5, <1>6 DEF Fewer, u

\* To what GDB is told: an answer or a text is added, or the verdict on a command.
SameVerdicts(q, u) ==
  /\ NoVerdict(q) <=> NoVerdict(u)
  /\ \A k : OneVerdict(q, k) => OneVerdict(u, k)

LEMMA AnswerAppended ==
  ASSUME NEW q \in Seq(Tokens), NEW t \in Tokens, ~Verdict(t)
  PROVE  LET u == Append(q, t) IN
         /\ SameVerdicts(q, u)
         /\ \A d : RepliesUpTo(q, d) /\ (t.k = "reply" => t.n <= d) => RepliesUpTo(u, d)
         /\ \A n : RepliesTo(q, n) /\ (t.k = "reply" => t.n = n) => RepliesTo(u, n)
         /\ \A n : RepliesAfter(q, n) /\ (t.k = "reply" => t.n = n \/ OneVerdict(q, "nak"))
                     => RepliesAfter(u, n)
<1> DEFINE u == Append(q, t)
<1>1. /\ Len(q) \in Nat
      /\ Len(u) = Len(q) + 1
      /\ \A i \in 1 .. Len(q) : u[i] = q[i]
      /\ u[Len(q) + 1] = t
  BY Longer
<1> HIDE DEF u
<1>2. /\ \A i \in 1 .. Len(u) : i \in 1 .. Len(q) \/ i = Len(q) + 1
      /\ \A i \in 1 .. Len(q) : i \in 1 .. Len(u)
  BY <1>1
<1>3. \A i \in 1 .. Len(u) : Verdict(u[i]) => i \in 1 .. Len(q) /\ u[i] = q[i]
  BY <1>1, <1>2
<1>4. SameVerdicts(q, u)
  <2>1. NoVerdict(q) <=> NoVerdict(u)
    BY <1>1, <1>2, <1>3 DEF NoVerdict
  <2>2. ASSUME NEW k, OneVerdict(q, k) PROVE OneVerdict(u, k)
    BY <1>3, <2>2 DEF OneVerdict
  <2> QED
    BY <2>1, <2>2 DEF SameVerdicts
<1>5. ASSUME NEW d, RepliesUpTo(q, d), t.k = "reply" => t.n <= d PROVE RepliesUpTo(u, d)
  BY <1>1, <1>2, <1>5 DEF RepliesUpTo
<1>6. ASSUME NEW n, RepliesTo(q, n), t.k = "reply" => t.n = n PROVE RepliesTo(u, n)
  BY <1>1, <1>2, <1>6 DEF RepliesTo
<1>7. ASSUME NEW n, RepliesAfter(q, n), t.k = "reply" => t.n = n \/ OneVerdict(q, "nak")
      PROVE  RepliesAfter(u, n)
  <2> SUFFICES ASSUME NEW i \in 1 .. Len(u), NEW j \in 1 .. Len(u),
                      i < j, u[i].k = "ack", u[j].k = "reply"
               PROVE  u[j].n = n
    BY DEF RepliesAfter
  <2>1. i \in 1 .. Len(q) /\ u[i] = q[i] /\ Verdict(q[i])
    BY <1>3 DEF Verdict
  <2>2. CASE j \in 1 .. Len(q)
    BY <1>1, <1>7, <2>1, <2>2 DEF RepliesAfter
  <2>3. CASE j = Len(q) + 1
    BY <1>1, <1>7, <2>1, <2>3 DEF OneVerdict
  <2> QED
    BY <1>2, <2>2, <2>3
<1> QED
  BY <1>4, <1>5, <1>6, <1>7 DEF u

\* The verdict, with none before it, is the only one.
LEMMA VerdictAppended ==
  ASSUME NEW q \in Seq(Tokens), NEW t \in Tokens, Verdict(t), NoVerdict(q)
  PROVE  LET u == Append(q, t) IN
         /\ ~NoVerdict(u) /\ OneVerdict(u, t.k)
         /\ \A d : RepliesUpTo(q, d) => RepliesUpTo(u, d)
         /\ \A n : RepliesAfter(u, n)
<1> DEFINE u == Append(q, t)
<1>1. /\ Len(q) \in Nat
      /\ Len(u) = Len(q) + 1
      /\ \A i \in 1 .. Len(q) : u[i] = q[i]
      /\ u[Len(q) + 1] = t
  BY Longer
<1> HIDE DEF u
<1>2. /\ \A i \in 1 .. Len(u) : i \in 1 .. Len(q) \/ i = Len(q) + 1
      /\ Len(q) + 1 \in 1 .. Len(u)
  BY <1>1
<1>3. \A i \in 1 .. Len(u) : Verdict(u[i]) => i = Len(q) + 1
  BY <1>1, <1>2 DEF NoVerdict
<1>4. ~NoVerdict(u) /\ OneVerdict(u, t.k)
  BY <1>1, <1>2, <1>3 DEF NoVerdict, OneVerdict
<1>5. ASSUME NEW d, RepliesUpTo(q, d) PROVE RepliesUpTo(u, d)
  BY <1>1, <1>2, <1>5 DEF RepliesUpTo, Verdict
<1>6. ASSUME NEW n PROVE RepliesAfter(u, n)
  <2> SUFFICES ASSUME NEW i \in 1 .. Len(u), NEW j \in 1 .. Len(u), i < j, u[i].k = "ack"
               PROVE  FALSE
    BY DEF RepliesAfter
  <2>1. i = Len(q) + 1
    BY <1>3 DEF Verdict
  <2> QED
    BY <1>1, <2>1
<1> QED
  BY <1>4, <1>5, <1>6 DEF u

\* GDB takes the first.
LEMMA Taken ==
  ASSUME NEW q \in Seq(Tokens), q # <<>>
  PROVE  LET u == Tail(q) t == Head(q) IN
         /\ NoVerdict(q) => NoVerdict(u)
         /\ \A k : OneVerdict(q, k) => OneVerdict(u, k)
         /\ \A d : RepliesUpTo(q, d) => RepliesUpTo(u, d) /\ (t.k = "reply" => t.n <= d)
         /\ \A n : RepliesTo(q, n) => RepliesTo(u, n) /\ (t.k = "reply" => t.n = n)
         /\ \A n : RepliesAfter(q, n) => RepliesAfter(u, n) /\ (t.k = "ack" => RepliesTo(u, n))
         /\ Verdict(t) => \A k : OneVerdict(q, k) => NoVerdict(u) /\ t.k = k
         /\ NoVerdict(u) /\ ~Verdict(t) => NoVerdict(q)
<1> DEFINE u == Tail(q)
           t == Head(q)
<1>1. /\ t = q[1]
      /\ Len(q) \in Nat \ {0}
      /\ Len(u) = Len(q) - 1
      /\ \A i \in 1 .. Len(q) - 1 : u[i] = q[i + 1]
  BY Shorter
<1> HIDE DEF u, t
<1>2. /\ \A i \in 1 .. Len(u) : i + 1 \in 1 .. Len(q) /\ u[i] = q[i + 1] /\ i + 1 # 1 /\ i \in Int
      /\ 1 \in 1 .. Len(q)
  BY <1>1
<1>3. NoVerdict(q) => NoVerdict(u)
  BY <1>2 DEF NoVerdict
<1>4. ASSUME NEW k, OneVerdict(q, k) PROVE OneVerdict(u, k)
  <2> SUFFICES ASSUME NEW i \in 1 .. Len(u), Verdict(u[i])
               PROVE  u[i].k = k /\ \A j \in 1 .. Len(u) : Verdict(u[j]) => j = i
    BY DEF OneVerdict
  <2>1. i + 1 \in 1 .. Len(q) /\ Verdict(q[i + 1])
    BY <1>2
  <2>2. u[i].k = k /\ \A j \in 1 .. Len(q) : Verdict(q[j]) => j = i + 1
    BY <1>2, <1>4, <2>1 DEF OneVerdict
  <2>3. \A j \in 1 .. Len(u) : Verdict(u[j]) => j + 1 = i + 1
    BY <1>2, <2>2
  <2> QED
    BY <1>2, <2>2, <2>3
<1>5. ASSUME NEW d, RepliesUpTo(q, d) PROVE RepliesUpTo(u, d) /\ (t.k = "reply" => t.n <= d)
  BY <1>1, <1>2, <1>5 DEF RepliesUpTo
<1>6. ASSUME NEW n, RepliesTo(q, n) PROVE RepliesTo(u, n) /\ (t.k = "reply" => t.n = n)
  BY <1>1, <1>2, <1>6 DEF RepliesTo
<1>7. ASSUME NEW n, RepliesAfter(q, n) PROVE RepliesAfter(u, n) /\ (t.k = "ack" => RepliesTo(u, n))
  <2>1. RepliesAfter(u, n)
    <3> SUFFICES ASSUME NEW i \in 1 .. Len(u), NEW j \in 1 .. Len(u),
                        i < j, u[i].k = "ack", u[j].k = "reply"
                 PROVE  u[j].n = n
      BY DEF RepliesAfter
    <3>1. i + 1 < j + 1 /\ q[i + 1].k = "ack" /\ q[j + 1].k = "reply"
      BY <1>2
    <3> QED
      BY <1>2, <1>7, <3>1 DEF RepliesAfter
  <2>2. ASSUME t.k = "ack", NEW j \in 1 .. Len(u), u[j].k = "reply" PROVE u[j].n = n
    <3>1. 1 < j + 1 /\ q[1].k = "ack" /\ q[j + 1].k = "reply"
      BY <1>1, <1>2, <2>2
    <3> QED
      BY <1>2, <1>7, <3>1 DEF RepliesAfter
  <2> QED
    BY <2>1, <2>2 DEF RepliesTo
<1>8. ASSUME Verdict(t), NEW k, OneVerdict(q, k) PROVE NoVerdict(u) /\ t.k = k
  <2>1. t.k = k /\ \A j \in 1 .. Len(q) : Verdict(q[j]) => j = 1
    BY <1>1, <1>2, <1>8 DEF OneVerdict
  <2> QED
    BY <1>2, <2>1 DEF NoVerdict
<1>9. ASSUME NoVerdict(u), ~Verdict(t) PROVE NoVerdict(q)
  <2> SUFFICES ASSUME NEW i \in 1 .. Len(q) PROVE ~Verdict(q[i])
    BY DEF NoVerdict
  <2>1. CASE i = 1
    BY <1>1, <1>9, <2>1
  <2>2. CASE i # 1
    <3>1. i - 1 \in 1 .. Len(u) /\ q[i] = u[i - 1]
      BY <1>1, <2>2
    <3> QED
      BY <1>9, <3>1 DEF NoVerdict
  <2> QED
    BY <2>1, <2>2
<1> QED
  BY <1>3, <1>4, <1>5, <1>6, <1>7, <1>8, <1>9 DEF u, t

\* Damage leaves every packet what it is and where it is.
Alike(q, u) ==
  /\ u \in Seq(Tokens) /\ Len(u) = Len(q)
  /\ \A i \in 1 .. Len(q) : /\ u[i].k = q[i].k
                            /\ q[i].k \in {"command", "reply"} => u[i].n = q[i].n
                            /\ q[i].k = "command" => u[i].cmd = q[i].cmd

LEMMA DamagedAlike ==
  ASSUME NEW q \in Seq(Tokens), NEW u \in Damaged(q)
  PROVE  Alike(q, u)
<1>1. PICK i \in DOMAIN q : IsPacket(q[i]) /\ u = [q EXCEPT ![i].bad = TRUE]
  BY DEF Damaged
<1> DEFINE t == [q[i] EXCEPT !.bad = TRUE]
<1>2. u = [q EXCEPT ![i] = t]
  BY <1>1
<1>3. i \in 1 .. Len(q) /\ q[i] \in Tokens /\ DOMAIN q = 1 .. Len(q)
  BY <1>1
<1>4. q[i] \in CommandTokens \cup ReplyTokens \cup TextTokens
  BY <1>1, <1>3 DEF Tokens, IsPacket, Ack, Nak, Break
<1>5. /\ t \in Tokens /\ t.k = q[i].k /\ (q[i].k \in {"command", "reply"} => t.n = q[i].n)
      /\ q[i].k = "command" => t.cmd = q[i].cmd
  <2>1. CASE q[i] \in CommandTokens
    <3>1. t \in CommandTokens /\ t.k = q[i].k /\ t.n = q[i].n /\ t.cmd = q[i].cmd
      BY <2>1 DEF CommandTokens
    <3> QED
      BY <3>1 DEF Tokens
  <2>2. CASE q[i] \in ReplyTokens
    <3>1. t \in ReplyTokens /\ t.k = q[i].k /\ t.n = q[i].n /\ q[i].k # "command"
      BY <2>2 DEF ReplyTokens
    <3> QED
      BY <3>1 DEF Tokens
  <2>3. CASE q[i] \in TextTokens
    <3>1. t \in TextTokens /\ t.k = q[i].k /\ q[i].k = "text"
      BY <2>3 DEF TextTokens
    <3> QED
      BY <3>1 DEF Tokens
  <2> QED
    BY <1>4, <2>1, <2>2, <2>3
<1> HIDE DEF t
<1>6. u \in Seq(Tokens) /\ Len(u) = Len(q)
  BY <1>2, <1>3, <1>5
<1>7. \A j \in 1 .. Len(q) : u[j] = IF j = i THEN t ELSE q[j]
  BY <1>2, <1>3
<1> QED
  BY <1>5, <1>6, <1>7 DEF Alike

\* So that what is said of queues here is true of a damaged one.
LEMMA AlikeFacts ==
  ASSUME NEW q, NEW u, Alike(q, u)
  PROVE  /\ Fewer(q, u) /\ SameVerdicts(q, u)
         /\ \A d : RepliesUpTo(q, d) => RepliesUpTo(u, d)
         /\ \A n : RepliesTo(q, n) => RepliesTo(u, n)
         /\ \A n : RepliesAfter(q, n) => RepliesAfter(u, n)
<1>1. Fewer(q, u)
  <2>1. NoCommand(q) => NoCommand(u)
    BY DEF Alike, NoCommand
  <2>2. ASSUME NEW n, OneCommand(q, n) PROVE OneCommand(u, n)
    BY <2>2 DEF Alike, OneCommand
  <2> QED
    BY <2>1, <2>2 DEF Fewer
<1>2. SameVerdicts(q, u)
  <2>1. NoVerdict(q) <=> NoVerdict(u)
    BY DEF Alike, NoVerdict, Verdict
  <2>2. ASSUME NEW k, OneVerdict(q, k) PROVE OneVerdict(u, k)
    BY <2>2 DEF Alike, OneVerdict, Verdict
  <2> QED
    BY <2>1, <2>2 DEF SameVerdicts
<1>3. ASSUME NEW d, RepliesUpTo(q, d) PROVE RepliesUpTo(u, d)
  BY <1>3 DEF Alike, RepliesUpTo
<1>4. ASSUME NEW n, RepliesTo(q, n) PROVE RepliesTo(u, n)
  BY <1>4 DEF Alike, RepliesTo
<1>5. ASSUME NEW n, RepliesAfter(q, n) PROVE RepliesAfter(u, n)
  BY <1>5 DEF Alike, RepliesAfter
<1> QED
  BY <1>1, <1>2, <1>3, <1>4, <1>5

-----------------------------------------------------------------------------
(* The invariant of the protocol.                                          *)

\* The number of the last good command that getpacket has returned.
Had == stub.cmd.n
Refusing == stub.pc \in {"bad2", "bad3", "nak"}

Shapes ==
  /\ toStub \in Seq(Tokens) /\ toGdb \in Seq(Tokens)
  /\ done \in Seq([n : Nat, bad : BOOLEAN])
  /\ gdb \in [pc : {"idle", "ack", "reply", "closed"}, n : Nat, cmd : Cmds]
  /\ Record(stub) /\ stub.cmd \in CommandTokens
  /\ stub.out = NoPacket \/ stub.out \in Tokens

\* Commands are carried out in turn, the last good one when talkToGdb gets to it.
InTurn ==
  /\ \A i \in 1 .. Len(done) : done[i].n = i /\ ~done[i].bad
  /\ Len(done) <= Had /\ Had <= gdb.n /\ gdb.n <= Had + 1
  /\ stub.pc = "exec" => stub.out = NoPacket /\ Had = Len(done) + 1 /\ ~stub.cmd.bad
  /\ stub.pc # "exec" /\ ~Over => Had = Len(done)
  /\ Over => stub.out = NoPacket

\* putpacket waits with a text or the answer to that command.
Waiting ==
  stub.out # NoPacket => /\ ~Verdict(stub.out)
                         /\ stub.out.k = "reply" => stub.out.n = Had

\* Until GDB's command is acknowledged it is in one place at most, on its way, being
\* refused, or refused; and then there is one acknowledgement of it, behind which
\* there are only answers to it.
OnePlace ==
  /\ OneCommand(toStub, gdb.n)
  /\ OneVerdict(toGdb, IF Had = gdb.n THEN "ack" ELSE "nak")
  /\ Had = gdb.n => NoCommand(toStub) /\ ~Refusing
  /\ NoCommand(toStub) \/ (NoVerdict(toGdb) /\ ~Refusing)
  /\ ~Refusing \/ NoVerdict(toGdb)

Told ==
  /\ RepliesUpTo(toGdb, Len(done)) /\ RepliesAfter(toGdb, gdb.n)
  /\ gdb.pc \in {"idle", "reply"} => Had = gdb.n /\ NoVerdict(toGdb)
  /\ gdb.pc = "reply" => RepliesTo(toGdb, gdb.n)
  /\ gdb.pc = "ack" /\ Had = gdb.n => ~NoVerdict(toGdb)
  /\ gdb.pc = "idle" /\ gdb.cmd.op \notin {"kill", "reset"} => Len(done) = gdb.n

TurnInv == Shapes /\ InTurn /\ Waiting /\ OnePlace /\ Told

\* The numbers of commands, and what else a proof needs of the types.
LEMMA Numbers ==
  ASSUME Shapes
  PROVE  /\ Had \in Nat /\ gdb.n \in Nat /\ Len(done) \in Nat
         /\ gdb.cmd \in Cmds /\ stub.cmd.bad \in BOOLEAN
         /\ gdb.pc \in {"idle", "ack", "reply", "closed"}
  BY DEF Shapes, Had, CommandTokens

\* What a step of the stub leaves in place.
LEMMA Kept ==
  ASSUME TurnInv, Shapes', InTurn', Waiting', gdb' = gdb, Had' = Had,
         Len(done) <= Len(done'),
         Fewer(toStub, toStub'), Refusing' => Refusing,
         SameVerdicts(toGdb, toGdb'),
         RepliesUpTo(toGdb', Len(done')), RepliesAfter(toGdb', gdb.n),
         gdb.pc = "reply" => RepliesTo(toGdb', gdb.n)
  PROVE  TurnInv'
<1>1. OnePlace'
  BY DEF TurnInv, OnePlace, Fewer, SameVerdicts
<1>2. Told'
  <2>1. Len(done) \in Nat /\ Len(done') \in Nat /\ Had \in Nat /\ gdb.n \in Nat
    BY Numbers DEF TurnInv, Shapes
  <2>2. Len(done') <= gdb.n
    BY <2>1 DEF InTurn
  <2>3. Len(done) = gdb.n => Len(done') = gdb.n
    BY <2>1, <2>2
  <2> QED
    BY <2>3 DEF TurnInv, Told, SameVerdicts
<1> QED
  BY <1>1, <1>2 DEF TurnInv

\* A step that changes nothing the invariant speaks of.
LEMMA TurnKept ==
  ASSUME TurnInv, UNCHANGED <<gdb, stub, toStub, toGdb, done>>
  PROVE  TurnInv'
  BY DEF TurnInv, Shapes, InTurn, Waiting, OnePlace, Told, Had, Refusing, Over

\* The stub goes on, and says nothing.
LEMMA Silent ==
  ASSUME TurnInv, UNCHANGED <<gdb, toGdb, done>>, toStub' \in Seq(Tokens), Fewer(toStub, toStub'),
         Record(stub'), stub'.cmd = stub.cmd, stub'.out \in {stub.out, NoPacket},
         stub'.pc # "exec", stub.pc # "exec" \/ Over', Over => Over',
         Over' => stub'.out = NoPacket, Refusing' => Refusing
  PROVE  TurnInv'
<1>1. Shapes'
  BY DEF TurnInv, Shapes
<1>2. Had' = Had
  BY DEF Had
<1>3. InTurn'
  BY <1>2 DEF TurnInv, InTurn
<1>4. Waiting'
  BY <1>2 DEF TurnInv, Waiting
<1>5. Len(done) <= Len(done')
  BY Numbers DEF TurnInv
<1>6. SameVerdicts(toGdb, toGdb')
  BY DEF SameVerdicts
<1> QED
  BY <1>1, <1>2, <1>3, <1>4, <1>5, <1>6, Kept DEF TurnInv, Told

\* It sends a text or an answer.
LEMMA Speaks ==
  ASSUME TurnInv, UNCHANGED <<gdb, done>>, toStub' \in Seq(Tokens), Fewer(toStub, toStub'),
         Record(stub'), stub'.cmd = stub.cmd, NEW p \in Tokens, stub'.out = p, p # NoPacket,
         ~Verdict(p), p.k = "reply" => p.n = Had, toGdb' = Append(toGdb, p),
         stub.pc # "exec", ~Over, stub'.pc # "exec", ~Over', Refusing' => Refusing
  PROVE  TurnInv'
<1>1. Had' = Had /\ Had \in Nat /\ gdb.n \in Nat /\ Len(done) \in Nat /\ Had = Len(done)
  BY Numbers DEF Had, TurnInv, InTurn
<1>2. toGdb \in Seq(Tokens) /\ toGdb' \in Seq(Tokens)
  BY Longer DEF TurnInv, Shapes
<1>3. Shapes'
  BY <1>2 DEF TurnInv, Shapes
<1>4. InTurn'
  BY <1>1 DEF TurnInv, InTurn
<1>5. Waiting'
  BY <1>1 DEF Waiting
<1>6. /\ SameVerdicts(toGdb, toGdb')
      /\ \A d : RepliesUpTo(toGdb, d) /\ (p.k = "reply" => p.n <= d) => RepliesUpTo(toGdb', d)
      /\ \A n : RepliesTo(toGdb, n) /\ (p.k = "reply" => p.n = n) => RepliesTo(toGdb', n)
      /\ \A n : RepliesAfter(toGdb, n) /\ (p.k = "reply" => p.n = n \/ OneVerdict(toGdb, "nak"))
                  => RepliesAfter(toGdb', n)
  BY <1>2, AnswerAppended
<1>7. RepliesUpTo(toGdb', Len(done'))
  <2>1. p.k = "reply" => p.n <= Len(done)
    BY <1>1
  <2> QED
    BY <1>6, <2>1 DEF TurnInv, Told
<1>8. RepliesAfter(toGdb', gdb.n)
  <2>1. p.k = "reply" => p.n = gdb.n \/ OneVerdict(toGdb, "nak")
    BY DEF TurnInv, OnePlace
  <2> QED
    BY <1>6, <2>1 DEF TurnInv, Told
<1>9. gdb.pc = "reply" => RepliesTo(toGdb', gdb.n)
  BY <1>6 DEF TurnInv, Told
<1>10. Len(done) <= Len(done')
  BY <1>1
<1> QED
  BY <1>1, <1>3, <1>4, <1>5, <1>6, <1>7, <1>8, <1>9, <1>10, Kept

-----------------------------------------------------------------------------
(* The stub's fields.                                                      *)

Is(t, l, c, o) == Record(t) /\ t.pc = l /\ t.cmd = c /\ t.out = o

\* An assignment to one field.
LEMMA OneField ==
  ASSUME NEW s, NEW l, NEW c, NEW o, Is(s, l, c, o), NEW v, NEW t
  PROVE  /\ t = [s EXCEPT !.pc = v] => Is(t, v, c, o)
         /\ t = [s EXCEPT !.cmd = v] => Is(t, l, v, o)
         /\ t = [s EXCEPT !.out = v] => Is(t, l, c, v)
         /\ t = [s EXCEPT !.result = v] => Is(t, l, c, o)
         /\ t = [s EXCEPT !.ret = v] => Is(t, l, c, o)
         /\ t = [s EXCEPT !.needBP = v] => Is(t, l, c, o)
  BY DEF Record, Is

\* And those the stub makes.
LEMMA Fields ==
  ASSUME Record(stub), NEW l, NEW v, NEW t
  PROVE  /\ t = [stub EXCEPT !.pc = l] => Is(t, l, stub.cmd, stub.out)
         /\ t = [stub EXCEPT !.out = v] => Is(t, stub.pc, stub.cmd, v)
         /\ t = [stub EXCEPT !.out = v, !.pc = l] => Is(t, l, stub.cmd, v)
         /\ t = [stub EXCEPT !.pc = l, !.out = v] => Is(t, l, stub.cmd, v)
         /\ t = [stub EXCEPT !.pc = l, !.cmd = v] => Is(t, l, v, stub.out)
         /\ t = [stub EXCEPT !.pc = l, !.result = v] => Is(t, l, stub.cmd, stub.out)
<1> DEFINE c == stub.cmd
           o == stub.out
           a == [stub EXCEPT !.pc = l]
           b == [stub EXCEPT !.out = v]
<1>1. Is(stub, stub.pc, c, o)
  BY DEF Is
<1> HIDE DEF c, o
<1>2. Is(a, l, c, o) /\ Is(b, stub.pc, c, v)
  BY <1>1, OneField
<1>3. t = [b EXCEPT !.pc = l] => Is(t, l, c, v)
  <2> HIDE DEF b
  <2> QED
    BY <1>2, OneField
<1>4. /\ t = [a EXCEPT !.out = v] => Is(t, l, c, v)
      /\ t = [a EXCEPT !.cmd = v] => Is(t, l, v, o)
      /\ t = [a EXCEPT !.result = v] => Is(t, l, c, o)
  <2> HIDE DEF a
  <2> QED
    BY <1>2, OneField
<1> QED
  BY <1>2, <1>3, <1>4, Zenon DEF a, b, c, o

\* A step into an interrupt: the address to return to, and whether a breakpoint
\* is needed there.
LEMMA SteppedInto ==
  ASSUME Record(stub), NEW l, NEW r, NEW b \in BOOLEAN, NEW t,
         t = [stub EXCEPT !.pc = l, !.ret = r, !.needBP = b]
  PROVE  Is(t, l, stub.cmd, stub.out)
<1> DEFINE c == stub.cmd
           o == stub.out
           a == [stub EXCEPT !.pc = l]
           d == [a EXCEPT !.ret = r]
<1>1. Is(stub, stub.pc, c, o)
  BY DEF Is
<1>2. t = [d EXCEPT !.needBP = b]
  BY Zenon
<1> HIDE DEF c, o
<1>3. Is(a, l, c, o)
  BY <1>1, OneField
<1> HIDE DEF a
<1>4. Is(d, l, c, o)
  BY <1>3, OneField
<1> HIDE DEF d
<1>5. Is(t, l, c, o)
  BY <1>2, <1>4, OneField
<1> QED
  BY <1>5 DEF c, o

-----------------------------------------------------------------------------
(* The steps of the stub.                                                  *)

\* Answers to what has been carried out stay so.
LEMMA LaterToo ==
  ASSUME NEW q \in Seq(Tokens), NEW d \in Nat, RepliesUpTo(q, d)
  PROVE  RepliesUpTo(q, d + 1)
<1> SUFFICES ASSUME NEW i \in 1 .. Len(q), q[i].k = "reply" PROVE q[i].n <= d + 1
  BY DEF RepliesUpTo
<1>1. q[i].n <= d
  BY DEF RepliesUpTo
<1>2. q[i] \in Tokens
  OBVIOUS
<1>3. q[i].n \in Nat
  BY <1>2, TokenFacts
<1> QED
  BY <1>1, <1>3

\* A command is carried out, and answered or not.
LEMMA Carried ==
  ASSUME TurnInv, stub.pc = "exec", UNCHANGED <<gdb, toStub>>,
         done' = Append(done, [n |-> stub.cmd.n, bad |-> stub.cmd.bad]),
         stub'.cmd = stub.cmd, Record(stub'), stub'.pc # "exec", ~Refusing',
         \/ toGdb' = toGdb /\ stub'.out = NoPacket
         \/ /\ ~Over' /\ stub'.out \in {Reply(stub.cmd.n), Text}
            /\ toGdb' = Append(toGdb, stub'.out)
  PROVE  TurnInv'
<1>1. /\ Had \in Nat /\ gdb.n \in Nat /\ Len(done) \in Nat /\ ~stub.cmd.bad /\ stub.cmd.bad \in BOOLEAN
      /\ Had = Len(done) + 1 /\ Had' = Had
  BY Numbers DEF Had, TurnInv, InTurn
<1>2. toGdb \in Seq(Tokens) /\ done \in Seq([n : Nat, bad : BOOLEAN])
  BY DEF TurnInv, Shapes
<1>3. [n |-> stub.cmd.n, bad |-> stub.cmd.bad] \in [n : Nat, bad : BOOLEAN]
  BY <1>1 DEF Had
<1>4. /\ done' \in Seq([n : Nat, bad : BOOLEAN]) /\ Len(done') = Len(done) + 1
      /\ \A i \in 1 .. Len(done) : done'[i] = done[i]
      /\ done'[Len(done) + 1] = [n |-> stub.cmd.n, bad |-> stub.cmd.bad]
  BY <1>2, <1>3, Longer
<1>5. \A i \in 1 .. Len(done') : done'[i].n = i /\ ~done'[i].bad
  <2> SUFFICES ASSUME NEW i \in 1 .. Len(done') PROVE done'[i].n = i /\ ~done'[i].bad
    OBVIOUS
  <2>1. CASE i \in 1 .. Len(done)
    BY <1>4, <2>1 DEF TurnInv, InTurn
  <2>2. CASE i = Len(done) + 1
    BY <1>1, <1>4, <2>2 DEF Had
  <2> QED
    BY <1>1, <1>4, <2>1, <2>2
<1>6. Over' => stub'.out = NoPacket
  OBVIOUS
<1>7. InTurn'
  BY <1>1, <1>4, <1>5, <1>6 DEF TurnInv, InTurn
<1>8. /\ Reply(stub.cmd.n) \in Tokens /\ Reply(stub.cmd.n).k = "reply" /\ Reply(stub.cmd.n).n = Had
      /\ Text \in Tokens /\ Text.k = "text"
  BY <1>1, TokenFacts DEF Had
<1>9. stub'.out = NoPacket \/ stub'.out \in Tokens
  BY <1>8
<1>10. stub'.out # NoPacket => ~Verdict(stub'.out) /\ (stub'.out.k = "reply" => stub'.out.n = Had)
  BY <1>8 DEF Verdict
<1>11. Waiting'
  BY <1>1, <1>10 DEF Waiting
<1>12. RepliesUpTo(toGdb, Len(done'))
  BY <1>1, <1>2, <1>4, LaterToo DEF TurnInv, Told
<1>13. /\ toGdb' \in Seq(Tokens) /\ SameVerdicts(toGdb, toGdb')
       /\ RepliesUpTo(toGdb', Len(done')) /\ RepliesAfter(toGdb', gdb.n)
       /\ gdb.pc = "reply" => RepliesTo(toGdb', gdb.n)
  <2>1. CASE toGdb' = toGdb
    BY <1>2, <1>12, <2>1 DEF TurnInv, Told, SameVerdicts
  <2>2. CASE stub'.out \in {Reply(stub.cmd.n), Text} /\ toGdb' = Append(toGdb, stub'.out)
    <3> DEFINE p == stub'.out
    <3>1. p \in Tokens /\ ~Verdict(p) /\ (p.k = "reply" => p.n = Had)
      BY <1>8, <2>2 DEF Verdict
    <3>2. toGdb' = Append(toGdb, p)
      BY <2>2
    <3> HIDE DEF p
    <3>3. /\ toGdb' \in Seq(Tokens)
          /\ SameVerdicts(toGdb, toGdb')
          /\ \A d : RepliesUpTo(toGdb, d) /\ (p.k = "reply" => p.n <= d) => RepliesUpTo(toGdb', d)
          /\ \A n : RepliesTo(toGdb, n) /\ (p.k = "reply" => p.n = n) => RepliesTo(toGdb', n)
          /\ \A n : RepliesAfter(toGdb, n) /\ (p.k = "reply" => p.n = n \/ OneVerdict(toGdb, "nak"))
                      => RepliesAfter(toGdb', n)
      BY <1>2, <3>1, <3>2, AnswerAppended, Longer
    <3>4. p.k = "reply" => p.n <= Len(done')
      BY <1>1, <1>4, <3>1
    <3>5. p.k = "reply" => p.n = gdb.n \/ OneVerdict(toGdb, "nak")
      BY <3>1 DEF TurnInv, OnePlace
    <3>6. gdb.pc = "reply" => (p.k = "reply" => p.n = gdb.n)
      BY <3>1 DEF TurnInv, Told
    <3> QED
      BY <1>12, <3>3, <3>4, <3>5, <3>6 DEF TurnInv, Told
  <2> QED
    BY <2>1, <2>2
<1>14. Shapes'
  BY <1>4, <1>9, <1>13 DEF TurnInv, Shapes
<1>15. Fewer(toStub, toStub')
  BY DEF Fewer
<1> QED
  BY <1>1, <1>4, <1>7, <1>11, <1>13, <1>14, <1>15, Kept

\* A good command is taken: it is the only one, and GDB is told.
LEMMA TakesCommand ==
  ASSUME TurnInv, At("getpacket"), toStub # <<>>, Head(toStub).k = "command",
         UNCHANGED <<gdb, done>>, toStub' = Tail(toStub), ~Head(toStub).bad,
         toGdb' = Append(toGdb, Ack), stub' = [stub EXCEPT !.pc = "exec", !.cmd = Head(toStub)]
  PROVE  TurnInv'
<1> DEFINE t == Head(toStub)
<1>1. /\ Had \in Nat /\ gdb.n \in Nat /\ Len(done) \in Nat
      /\ toStub \in Seq(Tokens) /\ toGdb \in Seq(Tokens) /\ Record(stub)
  BY Numbers DEF TurnInv, Shapes
<1>2. /\ t \in Tokens /\ t = toStub[1] /\ 1 \in 1 .. Len(toStub) /\ toStub' \in Seq(Tokens)
  BY <1>1, Shorter
<1>3. t \in CommandTokens
  BY <1>2, TokenFacts
<1>4. NoCommand(toStub') /\ t.n = gdb.n
  BY <1>1, CommandDropped DEF TurnInv, OnePlace
<1>5. NoVerdict(toGdb) /\ ~Refusing /\ Had # gdb.n
  BY <1>2 DEF NoCommand, TurnInv, OnePlace
<1>6. stub.pc = "getpacket" /\ stub.out = NoPacket
  BY DEF At
<1>7. Record(stub') /\ stub'.pc = "exec" /\ stub'.cmd = t /\ stub'.out = NoPacket
  <2>1. Is(stub', "exec", t, stub.out)
    BY <1>1, Fields, Zenon
  <2> QED
    BY <1>6, <2>1 DEF Is
<1>8. Had' = gdb.n /\ gdb'.n = gdb.n
  BY <1>4, <1>7 DEF Had
<1>9. Had = Len(done) /\ gdb.n = Had + 1
  <2>1. Had = Len(done) /\ Had <= gdb.n /\ gdb.n <= Had + 1
    BY <1>6 DEF TurnInv, InTurn, Over
  <2> QED
    BY <1>1, <1>5, <2>1
<1>10. InTurn'
  BY <1>1, <1>7, <1>8, <1>9 DEF TurnInv, InTurn, Over
<1>11. Waiting'
  BY <1>7 DEF Waiting
<1>12. toGdb' \in Seq(Tokens) /\ Verdict(Ack) /\ Ack \in Tokens /\ Ack.k = "ack"
  BY <1>1, TokenFacts, Longer DEF Verdict
<1>13. /\ ~NoVerdict(toGdb') /\ OneVerdict(toGdb', "ack")
       /\ \A d : RepliesUpTo(toGdb, d) => RepliesUpTo(toGdb', d)
       /\ \A n : RepliesAfter(toGdb', n)
  BY <1>1, <1>5, <1>12, VerdictAppended
<1>14. ~Refusing'
  BY <1>7 DEF Refusing
<1>15. OneCommand(toStub', gdb.n)
  BY <1>1, CommandDropped DEF Fewer, TurnInv, OnePlace
<1>16. OnePlace'
  BY <1>4, <1>8, <1>13, <1>14, <1>15 DEF OnePlace
<1>17. gdb.pc \notin {"idle", "reply"}
  BY <1>5 DEF TurnInv, Told
<1>18. Told'
  BY <1>8, <1>13, <1>17 DEF TurnInv, Told
<1>19. Shapes'
  BY <1>2, <1>3, <1>7, <1>12 DEF TurnInv, Shapes
<1> QED
  BY <1>10, <1>11, <1>16, <1>18, <1>19 DEF TurnInv

\* A damaged command is going to be refused.
LEMMA Refuses ==
  ASSUME TurnInv, At("getpacket"), toStub # <<>>, Head(toStub).k = "command",
         UNCHANGED <<gdb, done>>, toStub' = Tail(toStub), Put(Text, "bad2")
  PROVE  TurnInv'
<1>1. /\ Had \in Nat /\ gdb.n \in Nat /\ Len(done) \in Nat
      /\ toStub \in Seq(Tokens) /\ toGdb \in Seq(Tokens) /\ Record(stub)
  BY Numbers DEF TurnInv, Shapes
<1>2. Head(toStub) = toStub[1] /\ 1 \in 1 .. Len(toStub) /\ toStub' \in Seq(Tokens)
  BY <1>1, Shorter
<1>3. NoCommand(toStub') /\ OneCommand(toStub', gdb.n)
  BY <1>1, CommandDropped DEF Fewer, TurnInv, OnePlace
<1>4. NoVerdict(toGdb) /\ ~Refusing /\ Had # gdb.n
  BY <1>2 DEF NoCommand, TurnInv, OnePlace
<1>5. stub.pc = "getpacket"
  BY DEF At
<1>6. Is(stub', "bad2", stub.cmd, Text) /\ toGdb' = Append(toGdb, Text)
  BY <1>1, Fields DEF Put
<1>7. Had' = Had /\ gdb'.n = gdb.n /\ Had = Len(done)
  BY <1>5, <1>6 DEF Is, Had, TurnInv, InTurn, Over
<1>8. InTurn'
  BY <1>6, <1>7 DEF Is, TurnInv, InTurn, Over
<1>9. Text \in Tokens /\ Text.k = "text" /\ ~Verdict(Text) /\ Text # NoPacket
  BY TokenFacts DEF Verdict, NoPacket
<1>10. Waiting'
  BY <1>6, <1>9 DEF Is, Waiting
<1>11. /\ toGdb' \in Seq(Tokens) /\ SameVerdicts(toGdb, toGdb')
       /\ \A d : RepliesUpTo(toGdb, d) => RepliesUpTo(toGdb', d)
       /\ \A n : RepliesAfter(toGdb, n) => RepliesAfter(toGdb', n)
  BY <1>1, <1>6, <1>9, AnswerAppended, Longer
<1>12. OnePlace'
  BY <1>3, <1>4, <1>7, <1>11 DEF SameVerdicts, TurnInv, OnePlace
<1>13. gdb.pc \notin {"idle", "reply"}
  BY <1>4 DEF TurnInv, Told
<1>14. Told'
  BY <1>4, <1>7, <1>11, <1>13 DEF TurnInv, Told
<1>15. Shapes'
  BY <1>2, <1>6, <1>9, <1>11 DEF Is, TurnInv, Shapes
<1> QED
  BY <1>8, <1>10, <1>12, <1>14, <1>15 DEF TurnInv

\* And is.
LEMMA Refused ==
  ASSUME TurnInv, At("nak"), UNCHANGED <<gdb, toStub, done>>,
         toGdb' = Append(toGdb, Nak), stub' = [stub EXCEPT !.pc = "getpacket"]
  PROVE  TurnInv'
<1>1. /\ Had \in Nat /\ gdb.n \in Nat /\ Len(done) \in Nat
      /\ toStub \in Seq(Tokens) /\ toGdb \in Seq(Tokens) /\ Record(stub)
  BY Numbers DEF TurnInv, Shapes
<1>2. stub.pc = "nak" /\ stub.out = NoPacket /\ Refusing
  BY DEF At, Refusing
<1>3. NoCommand(toStub) /\ NoVerdict(toGdb) /\ Had # gdb.n
  BY <1>2 DEF TurnInv, OnePlace
<1>4. Is(stub', "getpacket", stub.cmd, NoPacket)
  BY <1>1, <1>2, Fields
<1>5. Had' = Had /\ gdb'.n = gdb.n /\ Had = Len(done) /\ ~Refusing'
  BY <1>2, <1>4 DEF Is, Had, TurnInv, InTurn, Over, Refusing
<1>6. InTurn'
  BY <1>4, <1>5 DEF Is, TurnInv, InTurn, Over
<1>7. Waiting'
  BY <1>4 DEF Is, Waiting
<1>8. toGdb' \in Seq(Tokens) /\ Verdict(Nak) /\ Nak \in Tokens /\ Nak.k = "nak"
  BY <1>1, TokenFacts, Longer DEF Verdict
<1>9. /\ OneVerdict(toGdb', "nak")
      /\ \A d : RepliesUpTo(toGdb, d) => RepliesUpTo(toGdb', d)
      /\ \A n : RepliesAfter(toGdb', n)
  BY <1>1, <1>3, <1>8, VerdictAppended
<1>10. OnePlace'
  BY <1>3, <1>5, <1>9 DEF TurnInv, OnePlace
<1>11. gdb.pc \notin {"idle", "reply"}
  BY <1>3 DEF TurnInv, Told
<1>12. Told'
  BY <1>3, <1>5, <1>9, <1>11 DEF TurnInv, Told
<1>13. Shapes'
  BY <1>1, <1>4, <1>8 DEF Is, TurnInv, Shapes
<1> QED
  BY <1>6, <1>7, <1>10, <1>12, <1>13 DEF TurnInv

\* getpacket, putpacket, and the end of the connection.
LEMMA PacketsInTurn ==
  ASSUME TurnInv, Packets
  PROVE  TurnInv'
<1>1. /\ Record(stub) /\ toStub \in Seq(Tokens)
      /\ stub.out = NoPacket \/ stub.out \in Tokens
      /\ UNCHANGED <<gdb, done>>
  BY DEF TurnInv, Shapes, Packets, Skip, GetPacket, BadChecksum, Acknowledged, Retransmit, Eof, others
<1>2. toStub # <<>> => Tail(toStub) \in Seq(Tokens) /\ Fewer(toStub, Tail(toStub))
  BY <1>1, Shorter, CommandDropped
<1>3. Fewer(toStub, toStub)
  BY DEF Fewer
<1>4. stub.out # NoPacket => stub.pc # "exec" /\ ~Over
  BY DEF TurnInv, InTurn
<1>5. Text \in Tokens /\ Text.k = "text" /\ ~Verdict(Text) /\ Text # NoPacket
  BY TokenFacts DEF Verdict, NoPacket
<1>6. CASE Skip
  <2>1. /\ stub.pc = "getpacket" /\ stub' = stub /\ toStub # <<>> /\ toStub' = Tail(toStub)
        /\ toGdb' = toGdb
    BY <1>6 DEF Skip, At
  <2> QED
    BY <1>1, <1>2, <2>1, Silent DEF Over, Refusing
<1>7. CASE GetPacket
  <2>1. /\ At("getpacket") /\ toStub # <<>> /\ Head(toStub).k = "command" /\ toStub' = Tail(toStub)
    BY <1>7 DEF GetPacket
  <2>2. CASE Head(toStub).bad
    BY <1>1, <1>7, <2>1, <2>2, Refuses DEF GetPacket
  <2>3. CASE ~Head(toStub).bad
    BY <1>1, <1>7, <2>1, <2>3, TakesCommand DEF GetPacket
  <2> QED
    BY <2>2, <2>3
<1>8. CASE BadChecksum
  <2>1. toStub' = toStub
    BY <1>8 DEF BadChecksum
  <2>2. CASE At("nak") /\ toGdb' = Append(toGdb, Nak) /\ stub' = [stub EXCEPT !.pc = "getpacket"]
    BY <1>1, <2>1, <2>2, Refused
  <2>3. CASE (At("bad2") /\ Put(Text, "bad3")) \/ (At("bad3") /\ Put(Text, "nak"))
    <3>1. /\ stub.pc \in {"bad2", "bad3"} /\ toGdb' = Append(toGdb, Text)
          /\ \E l \in {"bad3", "nak"} : stub' = [stub EXCEPT !.out = Text, !.pc = l]
      BY <2>3 DEF At, Put
    <3>2. PICK l \in {"bad3", "nak"} : stub' = [stub EXCEPT !.out = Text, !.pc = l]
      BY <3>1
    <3>3. Is(stub', l, stub.cmd, Text)
      BY <1>1, <3>2, Fields, Zenon
    <3> QED
      BY <1>1, <1>3, <1>5, <2>1, <3>1, <3>3, Speaks DEF Is, Over, Refusing
  <2> QED
    BY <1>8, <2>2, <2>3 DEF BadChecksum
<1>9. CASE Acknowledged
  <2>1. /\ stub.out # NoPacket /\ toStub # <<>> /\ toStub' = Tail(toStub) /\ toGdb' = toGdb
        /\ stub' = [stub EXCEPT !.out = NoPacket]
    BY <1>9 DEF Acknowledged
  <2>2. Is(stub', stub.pc, stub.cmd, NoPacket)
    BY <1>1, <2>1, Fields, Zenon
  <2> QED
    BY <1>1, <1>2, <1>4, <2>1, <2>2, Silent DEF Is, Over, Refusing
<1>10. CASE Retransmit
  <2>1. /\ stub.out # NoPacket /\ toStub # <<>> /\ toStub' = Tail(toStub) /\ stub' = stub
        /\ toGdb' = Append(toGdb, stub.out)
    BY <1>10 DEF Retransmit
  <2>2. stub.out \in Tokens /\ ~Verdict(stub.out) /\ (stub.out.k = "reply" => stub.out.n = Had)
    BY <1>1, <2>1 DEF TurnInv, Waiting
  <2> QED
    BY <1>1, <1>2, <1>4, <2>1, <2>2, Speaks DEF Over, Refusing
<1>11. CASE Eof
  <2>1. /\ stub.pc = "getpacket" \/ stub.out # NoPacket
        /\ \E e \in {"exit", "dead"} : stub' = [stub EXCEPT !.pc = e, !.out = NoPacket]
        /\ toStub' = toStub /\ toGdb' = toGdb
    BY <1>11 DEF Eof
  <2>2. PICK e \in {"exit", "dead"} : stub' = [stub EXCEPT !.pc = e, !.out = NoPacket]
    BY <2>1
  <2>3. Is(stub', e, stub.cmd, NoPacket)
    BY <1>1, <2>2, Fields, Zenon
  <2> QED
    BY <1>1, <1>3, <1>4, <2>1, <2>3, Silent DEF Is, Over, Refusing
<1> QED
  BY <1>6, <1>7, <1>8, <1>9, <1>10, <1>11 DEF Packets

\* A command that begins, in its five ways.
LEMMA BeginsInTurn ==
  ASSUME TurnInv, At("exec"), UNCHANGED <<gdb, toStub>>,
         done' = Append(done, [n |-> stub.cmd.n, bad |-> stub.cmd.bad]),
         NEW l, l \notin {"exec", "bad2", "bad3", "nak"},
         \/ GoTo(l)
         \/ /\ l \notin {"exit", "loop", "dead"}
            /\ Put(Text, l) \/ Put(Reply(stub.cmd.n), l)
  PROVE  TurnInv'
<1>1. Record(stub) /\ stub.pc = "exec" /\ stub.out = NoPacket
  BY DEF TurnInv, Shapes, At
<1>2. CASE GoTo(l)
  <2>1. Is(stub', l, stub.cmd, NoPacket) /\ toGdb' = toGdb
    BY <1>1, <1>2, Fields DEF GoTo
  <2> QED
    BY <1>1, <2>1, Carried DEF Is, Refusing
<1>3. ASSUME NEW p \in {Text, Reply(stub.cmd.n)}, Put(p, l), l \notin {"exit", "loop", "dead"}
      PROVE  TurnInv'
  <2>1. Is(stub', l, stub.cmd, p) /\ toGdb' = Append(toGdb, p)
    BY <1>1, <1>3, Fields DEF Put
  <2> QED
    BY <1>1, <1>3, <2>1, Carried DEF Is, Refusing, Over
<1> QED
  BY <1>2, <1>3

\* All of talkToGdb.
LEMMA TalkInTurn ==
  ASSUME TurnInv, TalkToGdb
  PROVE  TurnInv'
<1>1. /\ Record(stub) /\ toStub \in Seq(Tokens) /\ stub.cmd.n \in Nat
      /\ UNCHANGED <<gdb, toStub>>
  BY Numbers DEF TurnInv, Shapes, Had, TalkToGdb, Query, Kill, Reset, Hup, Write, Insert, Remove,
                 BadType, Detach, Resume, Continue, SingleStep, Stepped, AddReturn, RunHandler,
                 Status, Dies, others
<1>2. Fewer(toStub, toStub)
  BY DEF Fewer
<1>3. /\ Text \in Tokens /\ Text.k = "text" /\ ~Verdict(Text) /\ Text # NoPacket
      /\ LET r == Reply(stub.cmd.n) IN r \in Tokens /\ ~Verdict(r) /\ r # NoPacket /\ r.n = Had
  BY <1>1, TokenFacts DEF Verdict, NoPacket, Had
<1>4. CASE Query \/ Kill \/ Reset \/ Hup \/ Write \/ Insert \/ Remove \/ BadType \/ Detach
           \/ Resume("step") \/ Resume("cont")
  <2>1. /\ At("exec") /\ done' = Append(done, [n |-> stub.cmd.n, bad |-> stub.cmd.bad])
    BY <1>4 DEF Query, Kill, Reset, Hup, Write, Insert, Remove, BadType, Detach, Resume, Begins
  <2>2. \/ \E l \in {"loop", "getpacket", "exit", "step", "cont"} : GoTo(l)
        \/ \E l \in {"getpacket", "step", "cont"} : Put(Text, l) \/ Put(Reply(stub.cmd.n), l)
    BY <1>4 DEF Query, Kill, Reset, Hup, Write, Insert, Remove, BadType, Detach, Resume, Answers
  <2> QED
    BY <1>1, <2>1, <2>2, BeginsInTurn
<1>5. CASE Dies
  <2>1. /\ toGdb' = toGdb /\ done' = done /\ stub' = [stub EXCEPT !.pc = "dead", !.out = NoPacket]
    BY <1>5 DEF Dies
  <2>2. Is(stub', "dead", stub.cmd, NoPacket)
    BY <1>1, <2>1, Fields, Zenon
  <2> QED
    BY <1>1, <1>2, <2>1, <2>2, Silent DEF Is, Over, Refusing
<1>6. CASE Continue \/ SingleStep \/ Stepped \/ AddReturn \/ RunHandler \/ Status
  <2>1. /\ stub.pc \in {"cont", "step", "stepped", "interrupt", "excursion", "status"}
        /\ stub.out = NoPacket /\ done' = done
    BY <1>6 DEF Continue, SingleStep, Stepped, AddReturn, RunHandler, Status, At
  <2>2. ASSUME NEW l \in {"loop", "stepped", "status", "interrupt", "excursion"},
               Is(stub', l, stub.cmd, stub.out), toGdb' = toGdb
        PROVE  TurnInv'
    BY <1>1, <1>2, <2>1, <2>2, Silent DEF Is, Over, Refusing
  <2>3. ASSUME NEW l \in {"stepped", "getpacket"}, NEW p \in {Text, Reply(stub.cmd.n)}, Put(p, l)
        PROVE  TurnInv'
    <3>1. Is(stub', l, stub.cmd, p) /\ toGdb' = Append(toGdb, p)
      BY <1>1, <2>3, Fields DEF Put
    <3>2. p \in Tokens /\ p # NoPacket /\ ~Verdict(p) /\ (p.k = "reply" => p.n = Had)
      BY <1>3
    <3> QED
      BY <1>1, <1>2, <2>1, <3>1, <3>2, Speaks DEF Is, Over, Refusing
  <2>4. ASSUME NEW l \in {"loop", "stepped"}, GoTo(l)
        PROVE  TurnInv'
    <3>1. Is(stub', l, stub.cmd, stub.out) /\ toGdb' = toGdb
      BY <1>1, <2>4, Fields DEF GoTo
    <3> QED
      BY <2>2, <3>1
  <2>5. ASSUME NEW l \in {"status", "loop"}, NEW r \in BOOLEAN,
               stub' = [stub EXCEPT !.pc = l, !.result = r], toGdb' = toGdb
        PROVE  TurnInv'
    <3>1. Is(stub', l, stub.cmd, stub.out)
      BY <1>1, <2>5, Fields, Zenon
    <3> QED
      BY <2>2, <2>5, <3>1
  <2>6. CASE Continue
    <3>1. CASE box = "mkII"
      BY <1>6, <2>4, <2>6, <3>1 DEF Continue
    <3>2. CASE box # "mkII"
      BY <1>6, <2>5, <2>6, <3>2 DEF Continue
    <3> QED
      BY <3>1, <3>2
  <2>7. CASE SingleStep
    BY <2>3, <2>4, <2>7 DEF SingleStep
  <2>8. CASE Stepped
    <3>1. toGdb' = toGdb
      BY <2>8 DEF Stepped
    <3>2. CASE stub' = [stub EXCEPT !.pc = "status", !.result = TRUE]
      BY <2>5, <3>1, <3>2
    <3>3. ASSUME NEW a \in Addresses,
                 stub' = [stub EXCEPT !.pc = "interrupt", !.ret = a, !.needBP = a \notin bps]
          PROVE  TurnInv'
      <4>1. PICK b : b = (a \notin bps)
        OBVIOUS
      <4>2. b \in BOOLEAN
        BY <4>1
      <4>3. stub' = [stub EXCEPT !.pc = "interrupt", !.ret = a, !.needBP = b]
        BY <3>3, <4>1
      <4>4. Is(stub', "interrupt", stub.cmd, stub.out)
        BY <1>1, <4>2, <4>3, SteppedInto
      <4> QED
        BY <2>2, <3>1, <4>4
    <3> QED
      BY <2>8, <3>2, <3>3 DEF Stepped
  <2>9. CASE AddReturn
    <3>1. toGdb' = toGdb
      BY <2>9 DEF AddReturn
    <3>2. CASE stub' = [stub EXCEPT !.pc = "excursion"]
      <4>1. Is(stub', "excursion", stub.cmd, stub.out)
        BY <1>1, <3>2, Fields, Zenon
      <4> QED
        BY <2>2, <3>1, <4>1
    <3>3. CASE stub' = [stub EXCEPT !.pc = "status", !.result = FALSE]
      BY <2>5, <3>1, <3>3
    <3> QED
      BY <2>9, <3>2, <3>3 DEF AddReturn
  <2>10. CASE RunHandler
    <3>1. CASE box = "mkII"
      BY <2>4, <2>10, <3>1 DEF RunHandler
    <3>2. CASE box # "mkII"
      <4>1. toGdb' = toGdb
        BY <2>10, <3>2 DEF RunHandler
      <4>2. PICK r \in BOOLEAN :
              stub' = [stub EXCEPT !.pc = IF r /\ stub.needBP THEN "loop" ELSE "status", !.result = r]
        BY <2>10, <3>2 DEF RunHandler
      <4> DEFINE l == IF r /\ stub.needBP THEN "loop" ELSE "status"
      <4>3. l \in {"status", "loop"}
        OBVIOUS
      <4>4. stub' = [stub EXCEPT !.pc = l, !.result = r]
        BY <4>2
      <4> HIDE DEF l
      <4> QED
        BY <2>5, <4>1, <4>3, <4>4
    <3> QED
      BY <3>1, <3>2
  <2>11. CASE Status
    BY <2>3, <2>11 DEF Status, Answers
  <2> QED
    BY <1>6, <2>6, <2>7, <2>8, <2>9, <2>10, <2>11
<1> QED
  BY <1>4, <1>5, <1>6 DEF TalkToGdb

-----------------------------------------------------------------------------
(* The steps of GDB and the connection.                                    *)

\* Commands of GDB's are commands.
LEMMA Sent ==
  ASSUME Shapes, NEW c \in Cmds, NEW n \in Nat
  PROVE  Command(n, c) \in Tokens /\ Command(n, c).k = "command" /\ Command(n, c).n = n
  BY TokenFacts

\* GDB sends the next command when it has the answer to the last one.
LEMMA SendInTurn ==
  ASSUME TurnInv, NEW c \in Commands, GdbSend(c)
  PROVE  TurnInv'
<1>1. /\ Had \in Nat /\ gdb.n \in Nat /\ Len(done) \in Nat /\ Shapes
      /\ toStub \in Seq(Tokens) /\ toGdb \in Seq(Tokens)
  BY Numbers DEF TurnInv, Shapes
<1>2. gdb.pc = "idle" /\ UNCHANGED <<stub, done, toGdb>>
  BY DEF GdbSend, Gdb
<1>3. Had = gdb.n /\ NoVerdict(toGdb) /\ NoCommand(toStub) /\ ~Refusing
  BY <1>2 DEF TurnInv, Told, OnePlace
<1>4. gdb' = [pc |-> "ack", n |-> gdb.n + 1, cmd |-> c] /\ c \in Cmds
  BY DEF GdbSend, Gdb, Cmds
<1>5. gdb'.pc = "ack" /\ gdb'.n = gdb.n + 1
  BY <1>4
<1>6. gdb' \in [pc : {"idle", "ack", "reply", "closed"}, n : Nat, cmd : Cmds]
  BY <1>1, <1>4
<1> DEFINE t == Command(gdb.n + 1, c)
<1>7. t \in Tokens /\ t.k = "command" /\ t.n = gdb.n + 1
  BY <1>1, <1>4, Sent
<1>8. toStub' = Append(toStub, t)
  BY DEF GdbSend
<1> HIDE DEF t
<1>9. OneCommand(toStub', gdb'.n) /\ toStub' \in Seq(Tokens)
  BY <1>1, <1>3, <1>5, <1>7, <1>8, CommandAppended, Longer
<1>10. Had' = Had /\ ~Refusing'
  BY <1>2, <1>3 DEF Had, Refusing
<1>11. Had' # gdb'.n /\ OneVerdict(toGdb, "nak") /\ RepliesAfter(toGdb, gdb'.n)
  BY <1>1, <1>3, <1>5, <1>10 DEF NoVerdict, OneVerdict, RepliesAfter, Verdict
<1>12. OnePlace'
  BY <1>2, <1>3, <1>9, <1>10, <1>11 DEF OnePlace
<1>13. Told'
  BY <1>2, <1>5, <1>11 DEF TurnInv, Told
<1>14. InTurn'
  BY <1>1, <1>2, <1>3, <1>5, <1>10 DEF TurnInv, InTurn, Over
<1>15. Shapes' /\ Waiting'
  BY <1>2, <1>6, <1>9, <1>10 DEF TurnInv, Shapes, Waiting
<1> QED
  BY <1>12, <1>13, <1>14, <1>15 DEF TurnInv

\* GDB takes the next packet or character, and may say something to it.
LEMMA TakeInTurn ==
  ASSUME TurnInv, GdbTake
  PROVE  TurnInv'
<1> DEFINE t == Head(toGdb)
           u == Tail(toGdb)
<1>1. /\ Had \in Nat /\ gdb.n \in Nat /\ Len(done) \in Nat /\ Shapes /\ gdb.cmd \in Cmds
      /\ toStub \in Seq(Tokens) /\ toGdb \in Seq(Tokens)
      /\ gdb \in [pc : {"idle", "ack", "reply", "closed"}, n : Nat, cmd : Cmds]
  BY Numbers DEF TurnInv, Shapes
<1>2. gdb.pc \in {"ack", "reply"} /\ toGdb # <<>> /\ toGdb' = u /\ UNCHANGED <<stub, done>>
  BY DEF GdbTake, Gdb
<1>3. PICK l : /\ gdb' = [gdb EXCEPT !.pc = l]
               /\ l = CASE gdb.pc = "ack" /\ t = Ack ->
                              IF gdb.cmd.op \in {"kill", "reset"} THEN "idle" ELSE "reply"
                        [] gdb.pc = "reply" /\ t.k = "reply" /\ ~t.bad -> "idle"
                        [] OTHER -> gdb.pc
  BY DEF GdbTake, Gdb
<1>4. \/ gdb.pc = "ack" /\ t = Ack /\ l \in {"idle", "reply"}
         /\ (l = "idle" => gdb.cmd.op \in {"kill", "reset"})
      \/ gdb.pc = "reply" /\ t.k = "reply" /\ l = "idle"
      \/ l = gdb.pc /\ ~(gdb.pc = "ack" /\ t = Ack)
  BY <1>2, <1>3
<1>5. gdb' \in [pc : {"idle", "ack", "reply", "closed"}, n : Nat, cmd : Cmds]
      /\ gdb'.pc = l /\ gdb'.n = gdb.n /\ gdb'.cmd = gdb.cmd
  <2>1. l \in {"idle", "ack", "reply", "closed"}
    BY <1>2, <1>4
  <2> QED
    BY <1>1, <1>3, <2>1
<1>6. PICK q : /\ toStub' = q
               /\ q = IF IsPacket(t) THEN Append(toStub, Said(t))
                      ELSE IF gdb.pc = "ack" /\ t = Nak THEN Append(toStub, Command(gdb.n, gdb.cmd))
                      ELSE toStub
  BY DEF GdbTake
<1>7. t \in Tokens /\ u \in Seq(Tokens)
  BY <1>1, <1>2, Shorter
<1>8. /\ t.k = "ack" => t = Ack
      /\ Ack.k = "ack" /\ Nak.k = "nak"
      /\ Ack \in Tokens /\ Nak \in Tokens
  BY <1>7, TokenFacts
<1>9. /\ NoVerdict(toGdb) => NoVerdict(u)
      /\ \A k : OneVerdict(toGdb, k) => OneVerdict(u, k)
      /\ \A d : RepliesUpTo(toGdb, d) => RepliesUpTo(u, d) /\ (t.k = "reply" => t.n <= d)
      /\ \A n : RepliesTo(toGdb, n) => RepliesTo(u, n) /\ (t.k = "reply" => t.n = n)
      /\ \A n : RepliesAfter(toGdb, n) => RepliesAfter(u, n) /\ (t.k = "ack" => RepliesTo(u, n))
      /\ Verdict(t) => \A k : OneVerdict(toGdb, k) => NoVerdict(u) /\ t.k = k
      /\ NoVerdict(u) /\ ~Verdict(t) => NoVerdict(toGdb)
  BY <1>1, <1>2, Taken
<1> HIDE DEF t, u
<1>10. Had' = Had /\ (Refusing' <=> Refusing)
  BY <1>2 DEF Had, Refusing
\* Where GDB's command is.
<1>11. CASE gdb.pc = "ack" /\ t = Nak
  <2>1. Verdict(t) /\ NoVerdict(u) /\ Had # gdb.n
    BY <1>8, <1>9, <1>11 DEF Verdict, TurnInv, OnePlace
  <2>2. ~NoVerdict(toGdb)
    <3>1. t = toGdb[1] /\ 1 \in 1 .. Len(toGdb)
      BY <1>1, <1>2, Shorter DEF t
    <3> QED
      BY <2>1, <3>1 DEF NoVerdict
  <2>3. NoCommand(toStub) /\ ~Refusing
    BY <2>2 DEF TurnInv, OnePlace
  <2>4. ~IsPacket(t)
    BY <1>8, <1>11 DEF IsPacket
  <2>5. Command(gdb.n, gdb.cmd) \in Tokens /\ Command(gdb.n, gdb.cmd).k = "command"
        /\ Command(gdb.n, gdb.cmd).n = gdb.n
    BY <1>1, Sent
  <2>6. q = Append(toStub, Command(gdb.n, gdb.cmd))
    BY <1>6, <1>11, <2>4
  <2>7. q \in Seq(Tokens) /\ OneCommand(q, gdb.n)
    BY <1>1, <2>3, <2>5, <2>6, CommandAppended, Longer
  <2>8. OneVerdict(u, IF Had = gdb.n THEN "ack" ELSE "nak")
    BY <1>9 DEF TurnInv, OnePlace
  <2>9. OnePlace'
    BY <1>2, <1>5, <1>6, <1>10, <2>1, <2>3, <2>7, <2>8 DEF OnePlace
  <2>10. Told'
    <3>1. t # Ack
      BY <1>8, <1>11
    <3>2. l = "ack"
      BY <1>4, <1>11, <3>1
    <3> QED
      BY <1>2, <1>5, <1>9, <1>10, <2>1, <3>2 DEF TurnInv, Told
  <2>11. InTurn'
    BY <1>2, <1>5, <1>10 DEF TurnInv, InTurn, Over
  <2>12. Shapes' /\ Waiting'
    BY <1>2, <1>5, <1>6, <1>7, <1>10, <2>7 DEF TurnInv, Shapes, Waiting
  <2> QED
    BY <2>9, <2>10, <2>11, <2>12 DEF TurnInv
<1>12. CASE ~(gdb.pc = "ack" /\ t = Nak)
  <2>1. q \in Seq(Tokens) /\ Fewer(toStub, q)
    <3>1. CASE IsPacket(t)
      <4>1. Said(t) \in Tokens /\ Said(t).k # "command"
        BY <1>8 DEF Said
      <4> QED
        BY <1>1, <1>6, <3>1, <4>1, CommandAppended, Longer
    <3>2. CASE ~IsPacket(t)
      <4>1. q = toStub
        BY <1>6, <1>12, <3>2
      <4> QED
        BY <1>1, <4>1 DEF Fewer
    <3> QED
      BY <3>1, <3>2
  <2>2. OnePlace'
    <3>1. OneVerdict(u, IF Had = gdb.n THEN "ack" ELSE "nak")
      BY <1>9 DEF TurnInv, OnePlace
    <3> QED
      BY <1>2, <1>5, <1>6, <1>9, <1>10, <2>1, <3>1 DEF TurnInv, OnePlace, Fewer
  <2>3. RepliesUpTo(u, Len(done)) /\ RepliesAfter(u, gdb.n)
    BY <1>9 DEF TurnInv, Told
  <2>4. ASSUME gdb.pc = "ack", t = Ack PROVE Told'
    <3>1. Verdict(t) /\ NoVerdict(u) /\ Had = gdb.n
      BY <1>8, <1>9, <2>4 DEF Verdict, TurnInv, OnePlace
    <3>2. RepliesTo(u, gdb.n)
      BY <1>8, <1>9, <2>4 DEF TurnInv, Told
    <3>3. l \in {"idle", "reply"} /\ (l = "idle" => gdb.cmd.op \in {"kill", "reset"})
      BY <1>4, <2>4
    <3> QED
      BY <1>2, <1>5, <1>10, <2>3, <3>1, <3>2, <3>3 DEF Told
  <2>5. ASSUME gdb.pc = "ack", t # Ack PROVE Told'
    <3>1. l = "ack"
      BY <1>4, <2>5
    <3>2. Had = gdb.n => ~NoVerdict(u)
      <4> SUFFICES ASSUME Had = gdb.n, NoVerdict(u) PROVE FALSE
        OBVIOUS
      <4>1. ~NoVerdict(toGdb) /\ OneVerdict(toGdb, "ack")
        BY <2>5 DEF TurnInv, Told, OnePlace
      <4>2. Verdict(t)
        BY <1>9, <4>1
      <4>3. t.k = "ack"
        BY <1>9, <4>1, <4>2
      <4> QED
        BY <1>8, <2>5, <4>3
    <3> QED
      BY <1>2, <1>5, <1>10, <2>3, <3>1, <3>2 DEF Told
  <2>6. ASSUME gdb.pc = "reply" PROVE Told'
    <3>1. Had = gdb.n /\ NoVerdict(u) /\ RepliesTo(u, gdb.n)
      BY <1>9, <2>6 DEF TurnInv, Told
    <3>2. t.k = "reply" => Len(done) = gdb.n
      <4> SUFFICES ASSUME t.k = "reply" PROVE Len(done) = gdb.n
        OBVIOUS
      <4>1. t.n = gdb.n /\ t.n <= Len(done)
        BY <1>9, <2>6 DEF TurnInv, Told
      <4>2. Len(done) <= Had
        BY DEF TurnInv, InTurn
      <4> QED
        BY <1>1, <3>1, <4>1, <4>2
    <3>3. l = "reply" \/ (l = "idle" /\ t.k = "reply")
      BY <1>4, <2>6
    <3> QED
      BY <1>2, <1>5, <1>10, <2>3, <3>1, <3>2, <3>3 DEF Told
  <2>7. Told'
    BY <1>2, <2>4, <2>5, <2>6
  <2>8. InTurn'
    BY <1>2, <1>5, <1>10 DEF TurnInv, InTurn, Over
  <2>9. Shapes' /\ Waiting'
    BY <1>2, <1>5, <1>6, <1>7, <1>10, <2>1 DEF TurnInv, Shapes, Waiting
  <2> QED
    BY <2>2, <2>7, <2>8, <2>9 DEF TurnInv
<1> QED
  BY <1>11, <1>12

\* GDB repeats its command, which was lost: it is nowhere else.
LEMMA RepeatInTurn ==
  ASSUME TurnInv, GdbTimeout
  PROVE  TurnInv'
<1>1. /\ Had \in Nat /\ gdb.n \in Nat /\ Shapes /\ gdb.cmd \in Cmds
  BY Numbers DEF TurnInv, Shapes
<1>2. /\ gdb.pc = "ack" /\ toStub = <<>> /\ toGdb = <<>> /\ stub.pc = "getpacket"
      /\ UNCHANGED <<gdb, stub, toGdb, done>>
  BY DEF GdbTimeout, Gdb, At
<1>3. NoVerdict(toGdb) /\ NoCommand(toStub)
  BY <1>2 DEF NoVerdict, NoCommand
<1>4. Had # gdb.n
  BY <1>2, <1>3 DEF TurnInv, Told
<1>5. Had' = Had /\ ~Refusing'
  BY <1>2 DEF Had, Refusing
<1> DEFINE t == Command(gdb.n, gdb.cmd)
<1>6. t \in Tokens /\ t.k = "command" /\ t.n = gdb.n
  BY <1>1, Sent
<1>7. toStub' = Append(toStub, t) /\ toStub \in Seq(Tokens)
  BY <1>2 DEF GdbTimeout, TurnInv, Shapes
<1> HIDE DEF t
<1>8. OneCommand(toStub', gdb.n) /\ toStub' \in Seq(Tokens)
  BY <1>3, <1>6, <1>7, CommandAppended, Longer
<1>9. OnePlace'
  BY <1>2, <1>3, <1>4, <1>5, <1>8 DEF TurnInv, OnePlace
<1>10. Told' /\ InTurn'
  BY <1>2, <1>5 DEF TurnInv, Told, InTurn, Over
<1>11. Shapes' /\ Waiting'
  BY <1>2, <1>5, <1>8 DEF TurnInv, Shapes, Waiting
<1> QED
  BY <1>9, <1>10, <1>11 DEF TurnInv

\* What is on its way to the stub besides commands, and what is damaged.
LEMMA OnTheWay ==
  ASSUME TurnInv, UNCHANGED <<gdb, stub, done>>,
         toStub' \in Seq(Tokens), Fewer(toStub, toStub'),
         toGdb' = toGdb \/ Alike(toGdb, toGdb')
  PROVE  TurnInv'
<1>1. Had' = Had /\ (Refusing' <=> Refusing) /\ Len(done) \in Nat
  BY Numbers DEF Had, Refusing, TurnInv
<1>2. /\ toGdb' \in Seq(Tokens) /\ SameVerdicts(toGdb, toGdb')
      /\ RepliesUpTo(toGdb', Len(done)) /\ RepliesAfter(toGdb', gdb.n)
      /\ gdb.pc = "reply" => RepliesTo(toGdb', gdb.n)
  <2>1. CASE toGdb' = toGdb
    BY <2>1 DEF TurnInv, Shapes, Told, SameVerdicts
  <2>2. CASE Alike(toGdb, toGdb')
    <3>1. toGdb' \in Seq(Tokens)
      BY <2>2 DEF Alike
    <3> QED
      BY <2>2, <3>1, AlikeFacts DEF TurnInv, Told
  <2> QED
    BY <2>1, <2>2
<1>3. Shapes' /\ InTurn' /\ Waiting'
  BY <1>1, <1>2 DEF TurnInv, Shapes, InTurn, Waiting, Over
<1>4. Len(done) <= Len(done')
  BY <1>1
<1> QED
  BY <1>1, <1>2, <1>3, <1>4, Kept

\* GDB goes away.
LEMMA ClosedInTurn ==
  ASSUME TurnInv, GdbCloses
  PROVE  TurnInv'
<1>1. /\ gdb' = [gdb EXCEPT !.pc = "closed"] /\ UNCHANGED <<stub, done, toStub, toGdb>>
      /\ gdb \in [pc : {"idle", "ack", "reply", "closed"}, n : Nat, cmd : Cmds]
  BY DEF GdbCloses, Gdb, TurnInv, Shapes
<1>2. /\ gdb' \in [pc : {"idle", "ack", "reply", "closed"}, n : Nat, cmd : Cmds]
      /\ gdb'.pc = "closed" /\ gdb'.n = gdb.n
  BY <1>1
<1>3. Had' = Had /\ (Refusing' <=> Refusing)
  BY <1>1 DEF Had, Refusing
<1>4. Shapes' /\ Waiting'
  BY <1>1, <1>2, <1>3 DEF TurnInv, Shapes, Waiting
<1>5. InTurn' /\ OnePlace'
  BY <1>1, <1>2, <1>3 DEF TurnInv, InTurn, OnePlace, Over
<1>6. Told'
  BY <1>1, <1>2, <1>3 DEF TurnInv, Told
<1> QED
  BY <1>4, <1>5, <1>6 DEF TurnInv

\* All of GDB and the connection.
LEMMA ExternalInTurn ==
  ASSUME TurnInv, External
  PROVE  TurnInv'
<1>1. toStub \in Seq(Tokens) /\ toGdb \in Seq(Tokens)
  BY DEF TurnInv, Shapes
<1>2. CASE \E c \in Commands : GdbSend(c)
  BY <1>2, SendInTurn
<1>3. CASE GdbInterrupt
  <2>1. /\ UNCHANGED <<gdb, stub, done, toGdb>> /\ toStub' = Append(toStub, Break)
    BY <1>3 DEF GdbInterrupt, Gdb
  <2>2. toStub' \in Seq(Tokens) /\ Fewer(toStub, toStub')
    <3>1. Break \in Tokens /\ Break.k = "break"
      BY TokenFacts
    <3> HIDE DEF Break
    <3> QED
      BY <1>1, <2>1, <3>1, CommandAppended, Longer
  <2> QED
    BY <2>1, <2>2, OnTheWay
<1>4. CASE Damage
  <2>1. /\ UNCHANGED <<gdb, stub, done>>
        /\ \/ toStub' \in Damaged(toStub) /\ toGdb' = toGdb
           \/ toGdb' \in Damaged(toGdb) /\ toStub' = toStub
    BY <1>4 DEF Damage, Gdb
  <2>2. CASE toStub' \in Damaged(toStub) /\ toGdb' = toGdb
    <3>1. Alike(toStub, toStub')
      BY <1>1, <2>2, DamagedAlike
    <3>2. toStub' \in Seq(Tokens) /\ Fewer(toStub, toStub')
      BY <3>1, AlikeFacts DEF Alike
    <3> QED
      BY <2>1, <2>2, <3>2, OnTheWay
  <2>3. CASE toGdb' \in Damaged(toGdb) /\ toStub' = toStub
    <3>1. Alike(toGdb, toGdb')
      BY <1>1, <2>3, DamagedAlike
    <3>2. toStub' \in Seq(Tokens) /\ Fewer(toStub, toStub')
      BY <1>1, <2>3 DEF Fewer
    <3> QED
      BY <2>1, <3>1, <3>2, OnTheWay
  <2> QED
    BY <2>1, <2>2, <2>3
<1> QED
  BY <1>2, <1>3, <1>4, TakeInTurn, RepeatInTurn, ClosedInTurn DEF External

-----------------------------------------------------------------------------
(* The theorem.                                                            *)

\* It holds at first.
LEMMA InitInTurn == Init => TurnInv
<1> SUFFICES ASSUME Init PROVE TurnInv
  OBVIOUS
<1>1. /\ gdb = [pc |-> "idle", n |-> 0, cmd |-> [op |-> "query"]]
      /\ toStub = <<>> /\ toGdb = <<>> /\ done = <<>>
      /\ stub = [pc |-> "getpacket", cmd |-> Command(0, gdb.cmd), out |-> NoPacket, result |-> FALSE,
                 ret |-> None, needBP |-> FALSE]
  BY Zenon DEF Init
<1>2. gdb.cmd \in Cmds /\ gdb.n = 0 /\ gdb.pc = "idle"
  BY <1>1 DEF Cmds
<1> DEFINE c == Command(0, gdb.cmd)
<1>3. c \in CommandTokens /\ c.n = 0
  BY <1>2, TokenFacts
<1> HIDE DEF c
<1>4. /\ Record(stub) /\ stub.pc = "getpacket" /\ stub.cmd = c /\ stub.out = NoPacket
  BY <1>1 DEF Record, c
<1>5. Shapes
  BY <1>1, <1>2, <1>3, <1>4 DEF Shapes
<1>6. Had = 0 /\ ~Refusing /\ ~Over
  BY <1>3, <1>4 DEF Had, Refusing, Over
<1>7. InTurn /\ Waiting
  BY <1>1, <1>2, <1>4, <1>6 DEF InTurn, Waiting
<1>8. OnePlace
  BY <1>1, <1>2, <1>6 DEF OnePlace, OneCommand, OneVerdict, NoCommand, NoVerdict
<1>9. Told
  BY <1>1, <1>2, <1>6 DEF Told, RepliesUpTo, RepliesAfter, NoVerdict
<1> QED
  BY <1>5, <1>7, <1>8, <1>9 DEF TurnInv

\* And every step keeps it.
LEMMA InTurnNext == TurnInv /\ [Next]_vars => TurnInv'
<1>1. Ended \/ UNCHANGED vars => UNCHANGED <<gdb, stub, toStub, toGdb, done>>
  BY DEF Ended, vars
<1> QED
  BY <1>1, TurnKept, PacketsInTurn, TalkInTurn, ExternalInTurn DEF Next

\* Whatever is damaged on its way, refused, repeated or interrupted, talkToGdb
\* carries every command of GDB's out once, undamaged and in its turn, and when
\* GDB takes a packet for an answer its command has been (remote.cc getpacket,
\* putpacket, talkToGdb).
THEOREM CommandsInTurn == Spec => []ExecutedOnce
<1>1. TurnInv => ExecutedOnce
  <2> SUFFICES ASSUME TurnInv PROVE ExecutedOnce
    OBVIOUS
  <2>1. DOMAIN done = 1 .. Len(done)
    BY DEF TurnInv, Shapes
  <2> QED
    BY <2>1 DEF TurnInv, InTurn, Told, ExecutedOnce
<1> QED
  BY <1>1, InitInTurn, InTurnNext, PTL DEF Spec

-----------------------------------------------------------------------------
(* Acknowledgements.  While putpacket waits, a command of GDB's is behind  *)
(* the acknowledgement that ends the wait: GDB has taken the answer, and   *)
(* acknowledged it, before it sends the next command.                      *)

RepliesBefore(q, n) == \A i \in 1 .. Len(q) : q[i].k = "reply" => q[i].n < n
FromGdb(q, c) == \A i \in 1 .. Len(q) : q[i].k = "command" => q[i].cmd = c
HasAck(q) == \E i \in 1 .. Len(q) : q[i] = Ack
AckFirst(q) == \A i \in 1 .. Len(q) : q[i].k = "command" => \E j \in 1 .. i - 1 : q[j] = Ack

\* Between a command and its answer.
Working == stub.pc \in {"exec", "step", "cont", "stepped", "interrupt", "excursion", "status"}

\* The command last taken is GDB's as long as it is the last, and so is the next.
SameCommand ==
  /\ Had = gdb.n => Cmd = gdb.cmd
  /\ FromGdb(toStub, gdb.cmd)
  /\ gdb.n = 0 => gdb.cmd.op # "kill"

\* GDB waits as long as the stub works on its command, unless it expects no answer.
Busy ==
  /\ Working /\ Cmd.op # "reset" =>
       Had = gdb.n /\ (gdb.pc = "idle" => gdb.cmd.op = "kill") /\ RepliesBefore(toGdb, Had)
  /\ Working /\ stub.out # NoPacket => stub.out.k # "reply"

\* The wait for an acknowledgement ends before a command is read.
Acks ==
  stub.out # NoPacket /\ Cmd.op # "reset" =>
    /\ gdb.pc = "idle" /\ gdb.cmd.op # "kill" => HasAck(toStub)
    /\ AckFirst(toStub)

\* When GDB is to repeat its command the stub is there to take it.
AtEase ==
  ~NoVerdict(toGdb) /\ Had # gdb.n => stub.out = NoPacket /\ (stub.pc = "getpacket" \/ Over)

AckInv == SameCommand /\ Busy /\ Acks /\ AtEase

\* One more on its way to the stub, and one fewer.
LEMMA Pushed ==
  ASSUME NEW q \in Seq(Tokens), NEW t \in Tokens
  PROVE  LET u == Append(q, t) IN
         /\ \A c : FromGdb(q, c) /\ (t.k = "command" => t.cmd = c) => FromGdb(u, c)
         /\ \A c : NoCommand(q) /\ (t.k = "command" => t.cmd = c) => FromGdb(u, c)
         /\ HasAck(q) \/ t = Ack => HasAck(u)
         /\ AckFirst(q) /\ t.k # "command" => AckFirst(u)
         /\ NoCommand(q) /\ HasAck(q) => AckFirst(u)
<1> DEFINE u == Append(q, t)
<1>1. /\ Len(q) \in Nat
      /\ Len(u) = Len(q) + 1
      /\ \A i \in 1 .. Len(q) : u[i] = q[i]
      /\ u[Len(q) + 1] = t
  BY Longer
<1> HIDE DEF u
<1>2. /\ \A i \in 1 .. Len(u) : i \in 1 .. Len(q) \/ i = Len(q) + 1
      /\ \A i \in 1 .. Len(q) : i \in 1 .. Len(u) /\ i \in 1 .. (Len(q) + 1) - 1
      /\ Len(q) + 1 \in 1 .. Len(u)
  BY <1>1
<1>3. ASSUME NEW c, FromGdb(q, c) \/ NoCommand(q), t.k = "command" => t.cmd = c PROVE FromGdb(u, c)
  BY <1>1, <1>2, <1>3 DEF FromGdb, NoCommand
<1>4. HasAck(q) \/ t = Ack => HasAck(u)
  BY <1>1, <1>2 DEF HasAck
<1>5. ASSUME AckFirst(q), t.k # "command" PROVE AckFirst(u)
  <2> SUFFICES ASSUME NEW i \in 1 .. Len(u), u[i].k = "command"
               PROVE  \E j \in 1 .. i - 1 : u[j] = Ack
    BY DEF AckFirst
  <2>1. i \in 1 .. Len(q) /\ q[i].k = "command"
    BY <1>1, <1>2, <1>5
  <2>2. PICK j \in 1 .. i - 1 : q[j] = Ack
    BY <1>5, <2>1 DEF AckFirst
  <2>3. j \in 1 .. Len(q)
    BY <1>1, <2>1
  <2> QED
    BY <1>1, <2>2, <2>3
<1>6. ASSUME NoCommand(q), HasAck(q) PROVE AckFirst(u)
  <2> SUFFICES ASSUME NEW i \in 1 .. Len(u), u[i].k = "command"
               PROVE  \E j \in 1 .. i - 1 : u[j] = Ack
    BY DEF AckFirst
  <2>1. i = Len(q) + 1
    BY <1>1, <1>2, <1>6 DEF NoCommand
  <2>2. PICK j \in 1 .. Len(q) : q[j] = Ack
    BY <1>6 DEF HasAck
  <2> QED
    BY <1>1, <1>2, <2>1, <2>2
<1> QED
  BY <1>3, <1>4, <1>5, <1>6 DEF u

\* A character is read, which ends the wait or not.
LEMMA Popped ==
  ASSUME NEW q \in Seq(Tokens), q # <<>>
  PROVE  LET u == Tail(q) IN
         /\ \A c : FromGdb(q, c) => FromGdb(u, c)
         /\ Head(q) # Ack /\ HasAck(q) => HasAck(u)
         /\ Head(q) # Ack /\ AckFirst(q) => AckFirst(u)
         /\ AckFirst(q) => Head(q).k # "command"
<1> DEFINE u == Tail(q)
<1>1. /\ Head(q) = q[1]
      /\ Len(q) \in Nat \ {0}
      /\ Len(u) = Len(q) - 1
      /\ \A i \in 1 .. Len(q) - 1 : u[i] = q[i + 1]
  BY Shorter
<1> HIDE DEF u
<1>2. \A i \in 1 .. Len(u) : i + 1 \in 1 .. Len(q) /\ u[i] = q[i + 1] /\ i \in Int
  BY <1>1
<1>3. \A c : FromGdb(q, c) => FromGdb(u, c)
  BY <1>2 DEF FromGdb
<1>4. ASSUME Head(q) # Ack, NEW n \in Int, NEW j \in 1 .. n - 1, q[j] = Ack, n - 1 <= Len(q)
      PROVE  j - 1 \in 1 .. (n - 1) - 1 /\ j - 1 \in 1 .. Len(u) /\ u[j - 1] = Ack
  BY <1>1, <1>4
<1>5. ASSUME Head(q) # Ack, HasAck(q) PROVE HasAck(u)
  <2>1. PICK j \in 1 .. Len(q) : q[j] = Ack
    BY <1>5 DEF HasAck
  <2>2. j \in 1 .. (Len(q) + 1) - 1 /\ Len(q) + 1 \in Int /\ (Len(q) + 1) - 1 <= Len(q)
    BY <1>1
  <2> QED
    BY <1>4, <1>5, <2>1, <2>2 DEF HasAck
<1>6. ASSUME Head(q) # Ack, AckFirst(q) PROVE AckFirst(u)
  <2> SUFFICES ASSUME NEW i \in 1 .. Len(u), u[i].k = "command"
               PROVE  \E j \in 1 .. i - 1 : u[j] = Ack
    BY DEF AckFirst
  <2>1. i + 1 \in 1 .. Len(q) /\ q[i + 1].k = "command" /\ i + 1 \in Int
    BY <1>2
  <2>2. PICK j \in 1 .. (i + 1) - 1 : q[j] = Ack
    BY <1>6, <2>1 DEF AckFirst
  <2>3. (i + 1) - 1 <= Len(q) /\ (i + 1) - 1 = i
    BY <1>1, <2>1
  <2>4. j - 1 \in 1 .. i - 1 /\ u[j - 1] = Ack
    BY <1>4, <1>6, <2>1, <2>2, <2>3
  <2> QED
    BY <2>4
<1>7. AckFirst(q) => Head(q).k # "command"
  BY <1>1 DEF AckFirst
<1> QED
  BY <1>3, <1>5, <1>6, <1>7 DEF u

\* Where there is no command there is nothing to say of it.
LEMMA PutAside ==
  ASSUME NEW q, NoCommand(q)
  PROVE  AckFirst(q) /\ \A c : FromGdb(q, c)
  BY DEF NoCommand, AckFirst, FromGdb

\* Answers to earlier commands, and queues to GDB.
LEMMA Earlier ==
  ASSUME NEW q \in Seq(Tokens), NEW n
  PROVE  /\ \A t \in Tokens : RepliesBefore(q, n) /\ t.k # "reply" => RepliesBefore(Append(q, t), n)
         /\ q # <<>> => (RepliesBefore(q, n) => RepliesBefore(Tail(q), n) /\ (Head(q).k = "reply" => Head(q).n < n))
         /\ \A u : Alike(q, u) /\ RepliesBefore(q, n) => RepliesBefore(u, n)
<1>1. ASSUME NEW t \in Tokens, RepliesBefore(q, n), t.k # "reply" PROVE RepliesBefore(Append(q, t), n)
  <2> DEFINE u == Append(q, t)
  <2>1. /\ Len(q) \in Nat
        /\ Len(u) = Len(q) + 1
        /\ \A i \in 1 .. Len(q) : u[i] = q[i]
        /\ u[Len(q) + 1] = t
    BY Longer
  <2> HIDE DEF u
  <2>2. \A i \in 1 .. Len(u) : i \in 1 .. Len(q) \/ i = Len(q) + 1
    BY <2>1
  <2>3. RepliesBefore(u, n)
    BY <1>1, <2>1, <2>2 DEF RepliesBefore
  <2> QED
    BY <2>3 DEF u
<1>2. ASSUME q # <<>>, RepliesBefore(q, n)
      PROVE  RepliesBefore(Tail(q), n) /\ (Head(q).k = "reply" => Head(q).n < n)
  <2> DEFINE u == Tail(q)
  <2>1. /\ Head(q) = q[1]
        /\ Len(q) \in Nat \ {0}
        /\ Len(u) = Len(q) - 1
        /\ \A i \in 1 .. Len(q) - 1 : u[i] = q[i + 1]
    BY <1>2, Shorter
  <2> HIDE DEF u
  <2>2. /\ \A i \in 1 .. Len(u) : i + 1 \in 1 .. Len(q) /\ u[i] = q[i + 1]
        /\ 1 \in 1 .. Len(q)
    BY <2>1
  <2>3. RepliesBefore(u, n)
    BY <1>2, <2>2 DEF RepliesBefore
  <2> QED
    BY <1>2, <2>1, <2>2, <2>3 DEF RepliesBefore, u
<1>3. ASSUME NEW u, Alike(q, u), RepliesBefore(q, n) PROVE RepliesBefore(u, n)
  BY <1>3 DEF Alike, RepliesBefore
<1> QED
  BY <1>1, <1>2, <1>3

\* Damage neither makes an acknowledgement nor takes one away.
LEMMA AlikeToo ==
  ASSUME NEW q, NEW u, Alike(q, u)
  PROVE  /\ \A c : FromGdb(q, c) => FromGdb(u, c)
         /\ HasAck(q) => HasAck(u)
         /\ AckFirst(q) => AckFirst(u)
<1>1. \A c : FromGdb(q, c) => FromGdb(u, c)
  BY DEF Alike, FromGdb
<1>2. \A i \in 1 .. Len(q) : q[i] = Ack => u[i] = Ack
  <2> SUFFICES ASSUME NEW i \in 1 .. Len(q), q[i] = Ack PROVE u[i] = Ack
    OBVIOUS
  <2>1. u[i] \in Tokens /\ u[i].k = q[i].k
    BY DEF Alike
  <2>2. u[i].k = "ack"
    BY <2>1, TokenFacts
  <2> QED
    BY <2>1, <2>2, TokenFacts
<1>3. Len(u) = Len(q) /\ Len(q) \in Nat /\ \A i \in 1 .. Len(q) : u[i].k = q[i].k
  BY DEF Alike
<1>4. HasAck(q) => HasAck(u)
  BY <1>2, <1>3 DEF HasAck
<1>5. ASSUME AckFirst(q) PROVE AckFirst(u)
  <2> SUFFICES ASSUME NEW i \in 1 .. Len(u), u[i].k = "command"
               PROVE  \E j \in 1 .. i - 1 : u[j] = Ack
    BY DEF AckFirst
  <2>1. PICK j \in 1 .. i - 1 : q[j] = Ack
    BY <1>3, <1>5 DEF AckFirst
  <2>2. j \in 1 .. Len(q)
    BY <1>3
  <2> QED
    BY <1>2, <2>1, <2>2
<1> QED
  BY <1>1, <1>4, <1>5

-----------------------------------------------------------------------------
(* The steps again.                                                        *)

\* What both kinds of steps need of the first invariant.
LEMMA TurnFacts ==
  ASSUME TurnInv
  PROVE  /\ Had \in Nat /\ gdb.n \in Nat /\ Len(done) \in Nat /\ Shapes
         /\ toStub \in Seq(Tokens) /\ toGdb \in Seq(Tokens) /\ Record(stub)
         /\ Over \/ stub.pc = "exec" => stub.out = NoPacket
         /\ stub.out # NoPacket => stub.out \in Tokens /\ ~Verdict(stub.out)
         /\ Had = gdb.n => NoCommand(toStub) /\ ~Refusing
         /\ Refusing => NoCommand(toStub) /\ NoVerdict(toGdb) /\ Had # gdb.n
         /\ gdb.pc \in {"idle", "reply"} => Had = gdb.n
  BY Numbers DEF TurnInv, Shapes, InTurn, Waiting, OnePlace, Told

\* The stub reads a character, or goes on, and sends nothing.
LEMMA QuietAcks ==
  ASSUME TurnInv, AckInv, UNCHANGED <<gdb, toGdb>>, stub'.cmd = stub.cmd,
         \/ toStub' = toStub /\ stub'.out \in {stub.out, NoPacket}
         \/ toStub # <<>> /\ toStub' = Tail(toStub) /\ stub'.out = NoPacket,
         Working' => Working,
         stub'.pc = stub.pc \/ Over' \/ (stub.pc # "getpacket" /\ ~Over),
         Over' => stub'.out = NoPacket
  PROVE  AckInv'
<1>1. Had' = Had /\ Cmd' = Cmd
  BY DEF Had, Cmd
<1>2. SameCommand'
  <2>1. FromGdb(toStub', gdb.cmd)
    BY TurnFacts, Popped DEF AckInv, SameCommand
  <2> QED
    BY <1>1, <2>1 DEF AckInv, SameCommand
<1>3. Busy'
  BY <1>1 DEF AckInv, Busy
<1>4. Acks'
  BY <1>1 DEF AckInv, Acks
<1>5. AtEase'
  BY <1>1 DEF AckInv, AtEase, Over
<1> QED
  BY <1>2, <1>3, <1>4, <1>5 DEF AckInv

\* It sends a text or an answer, at work or to refuse a packet.
LEMMA SpeaksAcks ==
  ASSUME TurnInv, AckInv, UNCHANGED <<gdb, toStub>>, stub'.cmd = stub.cmd, NEW p \in Tokens,
         stub'.out = p, ~Verdict(p), toGdb' = Append(toGdb, p), Working \/ Refusing,
         Working' => Working /\ p.k # "reply"
  PROVE  AckInv'
<1>1. Had' = Had /\ Cmd' = Cmd
  BY DEF Had, Cmd
<1>2. SameCommand'
  BY <1>1 DEF AckInv, SameCommand
<1>3. Busy'
  <2>1. Working' => (RepliesBefore(toGdb, Had) => RepliesBefore(toGdb', Had))
    BY TurnFacts, Earlier
  <2> QED
    BY <1>1, <2>1 DEF AckInv, Busy
<1>4. Acks'
  <2> SUFFICES ASSUME Cmd.op # "reset"
               PROVE  (gdb.pc = "idle" => gdb.cmd.op = "kill") /\ AckFirst(toStub)
    BY <1>1 DEF Acks
  <2>1. CASE Working
    <3>1. NoCommand(toStub)
      BY <2>1, TurnFacts DEF AckInv, Busy
    <3> QED
      BY <2>1, <3>1, PutAside DEF AckInv, Busy
  <2>2. CASE Refusing
    BY <2>2, TurnFacts, PutAside
  <2> QED
    BY <2>1, <2>2
<1>5. AtEase'
  <2>1. NoVerdict(toGdb) => NoVerdict(toGdb')
    BY TurnFacts, AnswerAppended DEF SameVerdicts
  <2>2. ~(stub.pc = "getpacket" \/ Over)
    BY DEF Working, Refusing, Over
  <2> QED
    BY <1>1, <2>1, <2>2 DEF AckInv, AtEase
<1> QED
  BY <1>2, <1>3, <1>4, <1>5 DEF AckInv

\* getpacket, putpacket, and the end of the connection.
LEMMA PacketsAcks ==
  ASSUME TurnInv, AckInv, Packets
  PROVE  AckInv'
<1>1. /\ Record(stub) /\ UNCHANGED gdb
      /\ toStub \in Seq(Tokens) /\ toGdb \in Seq(Tokens)
  BY TurnFacts DEF Packets, Skip, GetPacket, BadChecksum, Acknowledged, Retransmit, Eof, others
<1>2. Text \in Tokens /\ Text.k = "text" /\ ~Verdict(Text)
  BY TokenFacts DEF Verdict
<1>3. CASE Skip
  <2>1. /\ stub.out = NoPacket /\ stub' = stub /\ toStub # <<>> /\ toStub' = Tail(toStub)
        /\ toGdb' = toGdb
    BY <1>3 DEF Skip, At
  <2>2. Working' => Working
    BY <2>1 DEF Working
  <2> QED
    BY <1>1, <2>1, <2>2, QuietAcks
<1>4. CASE GetPacket
  <2>1. /\ stub.pc = "getpacket" /\ stub.out = NoPacket /\ toStub # <<>> /\ toStub' = Tail(toStub)
        /\ Head(toStub).k = "command" /\ At("getpacket")
    BY <1>4 DEF GetPacket, At
  <2>2. Head(toStub) = toStub[1] /\ 1 \in 1 .. Len(toStub)
    BY <1>1, <2>1, Shorter
  <2>3. Had # gdb.n
    BY <2>1, <2>2, TurnFacts DEF NoCommand
  <2>4. FromGdb(toStub', gdb.cmd) /\ Head(toStub).cmd = gdb.cmd
    <3>1. FromGdb(toStub, gdb.cmd)
      BY DEF AckInv, SameCommand
    <3> QED
      BY <1>1, <2>1, <2>2, <3>1, Popped DEF FromGdb
  <2>5. NoCommand(toStub') /\ Head(toStub).n = gdb.n
    BY <1>1, <2>1, CommandDropped DEF TurnInv, OnePlace
  <2>6. gdb.pc \notin {"idle", "reply"}
    BY <2>3, TurnFacts
  <2>7. CASE Head(toStub).bad
    <3>1. Is(stub', "bad2", stub.cmd, Text) /\ toGdb' = Append(toGdb, Text)
      BY <1>1, <1>4, <2>7, Fields DEF GetPacket, Put
    <3>2. Had' = Had /\ Cmd' = Cmd /\ ~Working'
      BY <3>1 DEF Is, Had, Cmd, Working
    <3>3. NoVerdict(toGdb')
      <4>1. NoVerdict(toGdb)
        BY <2>1, <2>2 DEF NoCommand, TurnInv, OnePlace
      <4> QED
        BY <1>1, <1>2, <3>1, <4>1, AnswerAppended DEF SameVerdicts
    <3>4. SameCommand' /\ Busy'
      BY <1>1, <2>4, <3>2 DEF AckInv, SameCommand, Busy
    <3>5. Acks' /\ AtEase'
      BY <1>1, <2>5, <2>6, <3>3, PutAside DEF Acks, AtEase
    <3> QED
      BY <3>4, <3>5 DEF AckInv
  <2>8. CASE ~Head(toStub).bad
    <3>1. /\ stub' = [stub EXCEPT !.pc = "exec", !.cmd = Head(toStub)]
          /\ toGdb' = Append(toGdb, Ack)
      BY <1>4, <2>8 DEF GetPacket
    <3>2. Is(stub', "exec", Head(toStub), NoPacket)
      <4>1. Is(stub', "exec", Head(toStub), stub.out)
        BY <1>1, <3>1, Fields, Zenon
      <4> QED
        BY <2>1, <4>1
    <3>3. Had' = gdb.n /\ Cmd' = gdb.cmd /\ stub'.out = NoPacket
      BY <2>4, <2>5, <3>2 DEF Is, Had, Cmd
    <3>4. SameCommand'
      BY <1>1, <2>4, <3>3 DEF AckInv, SameCommand
    <3>5. RepliesBefore(toGdb', gdb.n)
      <4>1. Len(done) < gdb.n
        BY <2>3, TurnFacts DEF TurnInv, InTurn
      <4>2. RepliesBefore(toGdb, gdb.n)
        <5> SUFFICES ASSUME NEW i \in 1 .. Len(toGdb), toGdb[i].k = "reply" PROVE toGdb[i].n < gdb.n
          BY DEF RepliesBefore
        <5>1. toGdb[i] \in Tokens
          BY <1>1
        <5>2. toGdb[i].n <= Len(done) /\ toGdb[i].n \in Nat
          BY <5>1, TokenFacts DEF TurnInv, Told, RepliesUpTo
        <5> QED
          BY <4>1, <5>2, TurnFacts
      <4> QED
        BY <1>1, <3>1, <4>2, Earlier, TokenFacts
    <3>6. Busy'
      BY <1>1, <2>6, <3>3, <3>5 DEF Busy
    <3>7. Acks' /\ AtEase'
      BY <1>1, <3>3 DEF Acks, AtEase
    <3> QED
      BY <3>4, <3>6, <3>7 DEF AckInv
  <2> QED
    BY <2>7, <2>8
<1>5. CASE BadChecksum
  <2>1. toStub' = toStub
    BY <1>5 DEF BadChecksum
  <2>2. CASE At("nak") /\ toGdb' = Append(toGdb, Nak) /\ stub' = [stub EXCEPT !.pc = "getpacket"]
    <3>1. Is(stub', "getpacket", stub.cmd, NoPacket)
      <4>1. Is(stub', "getpacket", stub.cmd, stub.out)
        BY <1>1, <2>2, Fields, Zenon
      <4> QED
        BY <2>2, <4>1 DEF At
    <3>2. Had' = Had /\ Cmd' = Cmd /\ ~Working' /\ stub'.out = NoPacket /\ stub'.pc = "getpacket"
      BY <3>1 DEF Is, Had, Cmd, Working
    <3>3. SameCommand' /\ Busy'
      BY <1>1, <2>1, <3>2 DEF AckInv, SameCommand, Busy
    <3>4. Acks' /\ AtEase'
      BY <3>2 DEF Acks, AtEase
    <3> QED
      BY <3>3, <3>4 DEF AckInv
  <2>3. CASE (At("bad2") /\ Put(Text, "bad3")) \/ (At("bad3") /\ Put(Text, "nak"))
    <3>1. PICK l \in {"bad3", "nak"} : Put(Text, l)
      BY <2>3
    <3>2. Is(stub', l, stub.cmd, Text) /\ toGdb' = Append(toGdb, Text)
      BY <1>1, <3>1, Fields DEF Put
    <3>3. Refusing /\ ~Working'
      BY <2>3, <3>2 DEF At, Is, Refusing, Working
    <3> QED
      BY <1>1, <1>2, <2>1, <3>2, <3>3, SpeaksAcks DEF Is
  <2> QED
    BY <1>5, <2>2, <2>3 DEF BadChecksum
<1>6. CASE Acknowledged
  <2>1. /\ toStub # <<>> /\ toStub' = Tail(toStub) /\ toGdb' = toGdb
        /\ stub' = [stub EXCEPT !.out = NoPacket]
    BY <1>6 DEF Acknowledged
  <2>2. Is(stub', stub.pc, stub.cmd, NoPacket)
    BY <1>1, <2>1, Fields, Zenon
  <2>3. Working' => Working
    BY <2>2 DEF Is, Working
  <2> QED
    BY <1>1, <2>1, <2>2, <2>3, QuietAcks DEF Is
<1>7. CASE Retransmit
  <2>1. /\ stub.out # NoPacket /\ toStub # <<>> /\ toStub' = Tail(toStub) /\ stub' = stub
        /\ toGdb' = Append(toGdb, stub.out) /\ Head(toStub) # Ack
    BY <1>7 DEF Retransmit
  <2>2. Had' = Had /\ Cmd' = Cmd /\ (Working' <=> Working)
    BY <2>1 DEF Had, Cmd, Working
  <2>3. stub.out \in Tokens /\ ~Verdict(stub.out)
    BY <2>1, TurnFacts
  <2>4. SameCommand'
    BY <1>1, <2>1, <2>2, Popped DEF AckInv, SameCommand
  <2>5. Busy'
    <3>1. Working => (RepliesBefore(toGdb, Had) => RepliesBefore(toGdb', Had))
      BY <1>1, <2>1, <2>3, Earlier DEF AckInv, Busy
    <3> QED
      BY <1>1, <2>1, <2>2, <3>1 DEF AckInv, Busy
  <2>6. Acks'
    BY <1>1, <2>1, <2>2, Popped DEF AckInv, Acks
  <2>7. AtEase'
    <3>1. NoVerdict(toGdb) => NoVerdict(toGdb')
      BY <1>1, <2>1, <2>3, AnswerAppended DEF SameVerdicts
    <3> QED
      BY <1>1, <2>1, <2>2, <3>1 DEF AckInv, AtEase
  <2> QED
    BY <2>4, <2>5, <2>6, <2>7 DEF AckInv
<1>8. CASE Eof
  <2>1. /\ \E e \in {"exit", "dead"} : stub' = [stub EXCEPT !.pc = e, !.out = NoPacket]
        /\ toStub' = toStub /\ toGdb' = toGdb
    BY <1>8 DEF Eof
  <2>2. PICK e \in {"exit", "dead"} : stub' = [stub EXCEPT !.pc = e, !.out = NoPacket]
    BY <2>1
  <2>3. Is(stub', e, stub.cmd, NoPacket)
    BY <1>1, <2>2, Fields, Zenon
  <2>4. ~Working' /\ Over'
    BY <2>3 DEF Is, Working, Over
  <2> QED
    BY <1>1, <2>1, <2>3, <2>4, QuietAcks DEF Is
<1> QED
  BY <1>3, <1>4, <1>5, <1>6, <1>7, <1>8 DEF Packets

\* All of talkToGdb.
LEMMA TalkAcks ==
  ASSUME TurnInv, AckInv, TalkToGdb
  PROVE  AckInv'
<1>1. /\ Record(stub) /\ stub.cmd.n \in Nat /\ UNCHANGED <<gdb, toStub>>
  BY TurnFacts DEF Had, TalkToGdb, Query, Kill, Reset, Hup, Write, Insert, Remove, BadType, Detach,
                   Resume, Continue, SingleStep, Stepped, AddReturn, RunHandler, Status, Dies, others
<1>2. /\ Text \in Tokens /\ Text.k = "text" /\ ~Verdict(Text)
      /\ Reply(stub.cmd.n) \in Tokens /\ ~Verdict(Reply(stub.cmd.n))
  BY <1>1, TokenFacts DEF Verdict
<1>3. CASE Dies
  <2>1. toGdb' = toGdb /\ stub' = [stub EXCEPT !.pc = "dead", !.out = NoPacket]
    BY <1>3 DEF Dies
  <2>2. Is(stub', "dead", stub.cmd, NoPacket)
    BY <1>1, <2>1, Fields, Zenon
  <2>3. ~Working' /\ Over'
    BY <2>2 DEF Is, Working, Over
  <2> QED
    BY <1>1, <2>1, <2>2, <2>3, QuietAcks DEF Is
<1>4. CASE ~Dies
  <2>1. Working /\ stub.out = NoPacket
    BY <1>4 DEF TalkToGdb, Query, Kill, Reset, Hup, Write, Insert, Remove, BadType, Detach,
                Resume, Begins, Continue, SingleStep, Stepped, AddReturn, RunHandler, Status, At,
                Working
  <2>2. ASSUME NEW l, Is(stub', l, stub.cmd, stub.out), toGdb' = toGdb
        PROVE  AckInv'
    <3>1. stub.pc # "getpacket" /\ ~Over
      BY <2>1 DEF Working, Over
    <3> QED
      BY <1>1, <2>1, <2>2, <3>1, QuietAcks DEF Is
  <2>3. ASSUME NEW l, NEW p, Put(p, l), p = Text \/ (p = Reply(stub.cmd.n) /\ l = "getpacket")
        PROVE  AckInv'
    <3>1. Is(stub', l, stub.cmd, p) /\ toGdb' = Append(toGdb, p)
      BY <1>1, <2>3, Fields DEF Put
    <3>2. Working' => p.k # "reply"
      BY <1>2, <2>3, <3>1 DEF Is, Working
    <3> QED
      BY <1>1, <1>2, <2>1, <2>3, <3>1, <3>2, SpeaksAcks DEF Is
  <2>4. ASSUME NEW l, GoTo(l)
        PROVE  AckInv'
    <3>1. Is(stub', l, stub.cmd, stub.out) /\ toGdb' = toGdb
      BY <1>1, <2>4, Fields DEF GoTo
    <3> QED
      BY <2>2, <3>1
  <2>5. ASSUME NEW l, NEW r, stub' = [stub EXCEPT !.pc = l, !.result = r], toGdb' = toGdb
        PROVE  AckInv'
    <3>1. Is(stub', l, stub.cmd, stub.out)
      BY <1>1, <2>5, Fields, Zenon
    <3> QED
      BY <2>2, <2>5, <3>1
  <2>6. CASE Query \/ Kill \/ Reset \/ Hup \/ Write \/ Insert \/ Remove \/ BadType \/ Detach
             \/ Resume("step") \/ Resume("cont") \/ SingleStep \/ Status
    <3>1. \/ \E l : GoTo(l) \/ Put(Text, l)
          \/ Put(Reply(stub.cmd.n), "getpacket")
      BY <2>6 DEF Query, Kill, Reset, Hup, Write, Insert, Remove, BadType, Detach, Resume,
                  SingleStep, Status, Answers
    <3> QED
      BY <2>3, <2>4, <3>1
  <2>7. CASE Continue
    <3>1. CASE box = "mkII"
      BY <2>4, <2>7, <3>1 DEF Continue
    <3>2. CASE box # "mkII"
      <4>1. /\ toGdb' = toGdb
            /\ \E r \in BOOLEAN : stub' = [stub EXCEPT !.pc = "status", !.result = r]
        BY <2>7, <3>2 DEF Continue
      <4> QED
        BY <2>5, <4>1
    <3> QED
      BY <3>1, <3>2
  <2>8. CASE Stepped
    <3>1. toGdb' = toGdb
      BY <2>8 DEF Stepped
    <3>2. CASE stub' = [stub EXCEPT !.pc = "status", !.result = TRUE]
      <4>1. PICK r \in BOOLEAN : stub' = [stub EXCEPT !.pc = "status", !.result = r]
        BY <3>2
      <4> QED
        BY <2>5, <3>1, <4>1
    <3>3. ASSUME NEW a \in Addresses,
                 stub' = [stub EXCEPT !.pc = "interrupt", !.ret = a, !.needBP = a \notin bps]
          PROVE  AckInv'
      <4>1. PICK b : b = (a \notin bps)
        OBVIOUS
      <4>2. b \in BOOLEAN
        BY <4>1
      <4>3. stub' = [stub EXCEPT !.pc = "interrupt", !.ret = a, !.needBP = b]
        BY <3>3, <4>1
      <4>4. Is(stub', "interrupt", stub.cmd, stub.out)
        BY <1>1, <4>2, <4>3, SteppedInto
      <4> QED
        BY <2>2, <3>1, <4>4
    <3> QED
      BY <2>8, <3>2, <3>3 DEF Stepped
  <2>9. CASE AddReturn
    <3>1. toGdb' = toGdb
      BY <2>9 DEF AddReturn
    <3>2. CASE stub' = [stub EXCEPT !.pc = "excursion"]
      <4>1. Is(stub', "excursion", stub.cmd, stub.out)
        BY <1>1, <3>2, Fields, Zenon
      <4> QED
        BY <2>2, <3>1, <4>1
    <3>3. CASE stub' = [stub EXCEPT !.pc = "status", !.result = FALSE]
      <4>1. PICK r \in BOOLEAN : stub' = [stub EXCEPT !.pc = "status", !.result = r]
        BY <3>3
      <4> QED
        BY <2>5, <3>1, <4>1
    <3> QED
      BY <2>9, <3>2, <3>3 DEF AddReturn
  <2>10. CASE RunHandler
    <3>1. CASE box = "mkII"
      BY <2>4, <2>10, <3>1 DEF RunHandler
    <3>2. CASE box # "mkII"
      <4>1. toGdb' = toGdb
        BY <2>10, <3>2 DEF RunHandler
      <4>2. PICK r \in BOOLEAN :
              stub' = [stub EXCEPT !.pc = IF r /\ stub.needBP THEN "loop" ELSE "status", !.result = r]
        BY <2>10, <3>2 DEF RunHandler
      <4> DEFINE l == IF r /\ stub.needBP THEN "loop" ELSE "status"
      <4>3. stub' = [stub EXCEPT !.pc = l, !.result = r]
        BY <4>2
      <4> HIDE DEF l
      <4> QED
        BY <2>5, <4>1, <4>3
    <3> QED
      BY <3>1, <3>2
  <2> QED
    BY <1>4, <2>6, <2>7, <2>8, <2>9, <2>10 DEF TalkToGdb
<1> QED
  BY <1>3, <1>4

\* GDB sends a command behind the acknowledgement of the last answer.
LEMMA SendAcks ==
  ASSUME TurnInv, AckInv, NEW c \in Commands, GdbSend(c)
  PROVE  AckInv'
<1>1. /\ Had \in Nat /\ gdb.n \in Nat /\ Shapes /\ toStub \in Seq(Tokens) /\ c \in Cmds
  BY TurnFacts DEF Cmds
<1>2. gdb.pc = "idle" /\ UNCHANGED <<stub, toGdb>>
  BY DEF GdbSend, Gdb
<1>3. Had = gdb.n /\ NoVerdict(toGdb) /\ NoCommand(toStub)
  BY <1>2 DEF TurnInv, Told, OnePlace
<1>4. gdb' = [pc |-> "ack", n |-> gdb.n + 1, cmd |-> c]
  BY DEF GdbSend, Gdb
<1>5. gdb'.pc = "ack" /\ gdb'.n = gdb.n + 1 /\ gdb'.cmd = c
  BY <1>4
<1>6. gdb.cmd.op # "kill"
  BY <1>1 DEF GdbSend, AckInv, SameCommand
<1> DEFINE t == Command(gdb.n + 1, c)
<1>7. t \in Tokens /\ t.k = "command" /\ t.cmd = c
  BY <1>1, Sent DEF Command
<1>8. toStub' = Append(toStub, t)
  BY DEF GdbSend
<1> HIDE DEF t
<1>9. Had' = Had /\ Cmd' = Cmd /\ (Working' <=> Working)
  BY <1>2 DEF Had, Cmd, Working
<1>10. SameCommand'
  <2>1. FromGdb(toStub', c)
    BY <1>1, <1>3, <1>7, <1>8, Pushed
  <2> QED
    BY <1>1, <1>3, <1>5, <1>9, <2>1 DEF SameCommand
<1>11. Busy'
  <2>1. ~(Working /\ Cmd.op # "reset")
    BY <1>2, <1>6 DEF AckInv, Busy
  <2> QED
    BY <1>2, <1>9, <2>1 DEF AckInv, Busy
<1>12. Acks'
  <2>1. stub.out # NoPacket /\ Cmd.op # "reset" => AckFirst(toStub')
    BY <1>1, <1>2, <1>3, <1>6, <1>7, <1>8, Pushed DEF AckInv, Acks
  <2> QED
    BY <1>2, <1>5, <1>9, <2>1 DEF Acks
<1>13. AtEase'
  BY <1>2, <1>3 DEF AtEase
<1> QED
  BY <1>10, <1>11, <1>12, <1>13 DEF AckInv

\* It takes an answer and acknowledges it in one step.
LEMMA TakeAcks ==
  ASSUME TurnInv, AckInv, GdbTake
  PROVE  AckInv'
<1> DEFINE t == Head(toGdb)
           u == Tail(toGdb)
<1>1. /\ Had \in Nat /\ gdb.n \in Nat /\ Shapes /\ gdb.cmd \in Cmds
      /\ toStub \in Seq(Tokens) /\ toGdb \in Seq(Tokens)
      /\ gdb \in [pc : {"idle", "ack", "reply", "closed"}, n : Nat, cmd : Cmds]
  BY TurnFacts DEF Shapes
<1>2. gdb.pc \in {"ack", "reply"} /\ toGdb # <<>> /\ toGdb' = u /\ UNCHANGED stub
  BY DEF GdbTake, Gdb
<1>3. PICK l : /\ gdb' = [gdb EXCEPT !.pc = l]
               /\ l = CASE gdb.pc = "ack" /\ t = Ack ->
                              IF gdb.cmd.op \in {"kill", "reset"} THEN "idle" ELSE "reply"
                        [] gdb.pc = "reply" /\ t.k = "reply" /\ ~t.bad -> "idle"
                        [] OTHER -> gdb.pc
  BY DEF GdbTake, Gdb
<1>4. l = "idle" => \/ gdb.pc = "ack" /\ t = Ack /\ gdb.cmd.op \in {"kill", "reset"}
                    \/ gdb.pc = "reply" /\ t.k = "reply" /\ ~t.bad
  BY <1>2, <1>3
<1>5. gdb'.pc = l /\ gdb'.n = gdb.n /\ gdb'.cmd = gdb.cmd
  BY <1>1, <1>3
<1>6. toStub' = IF IsPacket(t) THEN Append(toStub, Said(t))
                ELSE IF gdb.pc = "ack" /\ t = Nak THEN Append(toStub, Command(gdb.n, gdb.cmd))
                ELSE toStub
  BY DEF GdbTake
<1>7. t \in Tokens /\ u \in Seq(Tokens) /\ t = toGdb[1] /\ 1 \in 1 .. Len(toGdb)
  BY <1>1, <1>2, Shorter
<1>8. NoVerdict(toGdb) => NoVerdict(u)
  BY <1>1, <1>2, Taken
<1>9. /\ \A n : RepliesBefore(toGdb, n) => RepliesBefore(u, n) /\ (t.k = "reply" => t.n < n)
  BY <1>1, <1>2, Earlier
<1>10. /\ gdb.pc = "ack" /\ t = Ack => Had = gdb.n
       /\ gdb.pc = "ack" /\ t = Nak => Had # gdb.n /\ ~NoVerdict(toGdb)
       /\ gdb.pc = "reply" => Had = gdb.n /\ (t.k = "reply" => t.n = gdb.n)
  <2>1. /\ Ack.k = "ack" /\ Nak.k = "nak"
    BY TokenFacts
  <2>2. /\ t \in {Ack, Nak} => t.k = (IF Had = gdb.n THEN "ack" ELSE "nak") /\ ~NoVerdict(toGdb)
    BY <1>7, <2>1 DEF TurnInv, OnePlace, OneVerdict, NoVerdict, Verdict
  <2>3. gdb.pc = "reply" => Had = gdb.n /\ (t.k = "reply" => t.n = gdb.n)
    BY <1>7 DEF TurnInv, Told, RepliesTo
  <2> QED
    BY <2>1, <2>2, <2>3
<1> HIDE DEF t, u
<1>11. Had' = Had /\ Cmd' = Cmd /\ (Working' <=> Working)
  BY <1>2 DEF Had, Cmd, Working
<1>12. SameCommand'
  <2>1. FromGdb(toStub, gdb.cmd)
    BY DEF AckInv, SameCommand
  <2>2. FromGdb(toStub', gdb.cmd)
    <3>1. CASE IsPacket(t)
      <4>1. Said(t) \in Tokens /\ Said(t).k # "command"
        BY TokenFacts DEF Said
      <4> QED
        BY <1>1, <1>6, <2>1, <3>1, <4>1, Pushed
    <3>2. CASE ~IsPacket(t)
      <4>1. Command(gdb.n, gdb.cmd) \in Tokens /\ Command(gdb.n, gdb.cmd).cmd = gdb.cmd
        BY <1>1, Sent DEF Command
      <4>2. toStub' = Append(toStub, Command(gdb.n, gdb.cmd)) \/ toStub' = toStub
        BY <1>6, <3>2
      <4> QED
        BY <1>1, <2>1, <4>1, <4>2, Pushed
    <3> QED
      BY <3>1, <3>2
  <2> QED
    BY <1>5, <1>11, <2>2 DEF AckInv, SameCommand
<1>13. Busy'
  <2>1. ASSUME Working, Cmd.op # "reset"
        PROVE  Had = gdb.n /\ (l = "idle" => gdb.cmd.op = "kill") /\ RepliesBefore(u, Had)
    <3>1. Had = gdb.n /\ RepliesBefore(toGdb, Had) /\ Cmd = gdb.cmd
      BY <2>1 DEF AckInv, Busy, SameCommand
    <3>2. ~(gdb.pc = "reply" /\ t.k = "reply")
      BY <1>1, <1>9, <1>10, <3>1
    <3> QED
      BY <1>4, <1>9, <2>1, <3>1, <3>2
  <2> QED
    BY <1>2, <1>5, <1>11, <2>1 DEF AckInv, Busy
<1>14. Acks'
  <2> SUFFICES ASSUME stub.out # NoPacket, Cmd.op # "reset"
               PROVE  /\ l = "idle" /\ gdb.cmd.op # "kill" => HasAck(toStub')
                      /\ AckFirst(toStub')
    BY <1>2, <1>5, <1>11 DEF Acks
  <2>1. AckFirst(toStub)
    BY DEF AckInv, Acks
  <2>2. ~(gdb.pc = "ack" /\ t = Nak)
    BY <1>10 DEF AckInv, AtEase
  <2>3. toStub' = IF IsPacket(t) THEN Append(toStub, Said(t)) ELSE toStub
    BY <1>6, <2>2
  <2>4. Said(t) \in Tokens /\ Said(t).k # "command"
    BY TokenFacts DEF Said
  <2>5. AckFirst(toStub')
    BY <1>1, <2>1, <2>3, <2>4, Pushed
  <2>6. ASSUME l = "idle", gdb.cmd.op # "kill" PROVE HasAck(toStub')
    <3>1. ~(gdb.pc = "ack" /\ t = Ack /\ gdb.cmd.op \in {"kill", "reset"})
      BY <1>10, <2>6 DEF AckInv, SameCommand
    <3>2. t.k = "reply" /\ ~t.bad
      BY <1>4, <2>6, <3>1
    <3>3. toStub' = Append(toStub, Ack)
      BY <2>3, <3>2 DEF IsPacket, Said
    <3> QED
      BY <1>1, <3>3, Pushed, TokenFacts
  <2> QED
    BY <2>5, <2>6
<1>15. AtEase'
  BY <1>2, <1>5, <1>8, <1>11 DEF AckInv, AtEase, Over
<1> QED
  BY <1>12, <1>13, <1>14, <1>15 DEF AckInv

\* What else is on its way, or damaged, or left.
LEMMA OnTheWayAcks ==
  ASSUME TurnInv, AckInv, UNCHANGED stub,
         gdb' = gdb \/ gdb' = [gdb EXCEPT !.pc = "closed"],
         \/ toStub' = toStub \/ Alike(toStub, toStub')
         \/ \E t \in Tokens : toStub' = Append(toStub, t) /\ t.k # "command",
         toGdb' = toGdb \/ Alike(toGdb, toGdb')
  PROVE  AckInv'
<1>1. toStub \in Seq(Tokens) /\ toGdb \in Seq(Tokens)
      /\ gdb \in [pc : {"idle", "ack", "reply", "closed"}, n : Nat, cmd : Cmds]
  BY TurnFacts DEF Shapes
<1>2. gdb'.pc \in {gdb.pc, "closed"} /\ gdb'.n = gdb.n /\ gdb'.cmd = gdb.cmd
  BY <1>1
<1>3. Had' = Had /\ Cmd' = Cmd /\ (Working' <=> Working)
  BY DEF Had, Cmd, Working
<1>4. /\ \A c : FromGdb(toStub, c) => FromGdb(toStub', c)
      /\ HasAck(toStub) => HasAck(toStub')
      /\ AckFirst(toStub) => AckFirst(toStub')
  <2>1. CASE \E t \in Tokens : toStub' = Append(toStub, t) /\ t.k # "command"
    BY <1>1, <2>1, Pushed
  <2> QED
    BY <2>1, AlikeToo
<1>5. /\ \A n : RepliesBefore(toGdb, n) => RepliesBefore(toGdb', n)
      /\ NoVerdict(toGdb) => NoVerdict(toGdb')
  BY <1>1, Earlier, AlikeFacts DEF SameVerdicts
<1>6. SameCommand' /\ Busy'
  BY <1>2, <1>3, <1>4, <1>5 DEF AckInv, SameCommand, Busy
<1>7. Acks' /\ AtEase'
  BY <1>2, <1>3, <1>4, <1>5 DEF AckInv, Acks, AtEase, Over
<1> QED
  BY <1>6, <1>7 DEF AckInv

\* All of GDB and the connection.
LEMMA ExternalAcks ==
  ASSUME TurnInv, AckInv, External
  PROVE  AckInv'
<1>1. toStub \in Seq(Tokens) /\ toGdb \in Seq(Tokens) /\ Shapes /\ gdb.n \in Nat
  BY TurnFacts
<1>2. CASE \E c \in Commands : GdbSend(c)
  BY <1>2, SendAcks
<1>3. CASE GdbTimeout
  <2>1. /\ stub.pc = "getpacket" /\ stub.out = NoPacket /\ toStub = <<>> /\ toGdb = <<>>
        /\ UNCHANGED <<gdb, stub, toGdb>> /\ toStub' = Append(toStub, Command(gdb.n, gdb.cmd))
    BY <1>3 DEF GdbTimeout, Gdb, At
  <2>2. Had' = Had /\ Cmd' = Cmd /\ ~Working' /\ NoVerdict(toGdb')
    BY <2>1 DEF Had, Cmd, Working, NoVerdict
  <2>3. gdb.cmd \in Cmds
    BY <1>1, Numbers
  <2>4. Command(gdb.n, gdb.cmd) \in Tokens /\ Command(gdb.n, gdb.cmd).cmd = gdb.cmd
    BY <1>1, <2>3, Sent DEF Command
  <2>5. SameCommand'
    BY <1>1, <2>1, <2>2, <2>4, Pushed DEF AckInv, SameCommand
  <2>6. Busy' /\ Acks' /\ AtEase'
    BY <2>1, <2>2 DEF Busy, Acks, AtEase
  <2> QED
    BY <2>5, <2>6 DEF AckInv
<1>4. CASE GdbInterrupt
  <2>1. UNCHANGED <<gdb, stub, toGdb>> /\ toStub' = Append(toStub, Break)
    BY <1>4 DEF GdbInterrupt, Gdb
  <2>2. \E t \in Tokens : toStub' = Append(toStub, t) /\ t.k # "command"
    BY <2>1, TokenFacts
  <2> QED
    BY <2>1, <2>2, OnTheWayAcks
<1>5. CASE GdbCloses
  BY <1>5, OnTheWayAcks DEF GdbCloses, Gdb
<1>6. CASE Damage
  BY <1>1, <1>6, DamagedAlike, OnTheWayAcks DEF Damage, Gdb
<1> QED
  BY <1>2, <1>3, <1>4, <1>5, <1>6, TakeAcks DEF External

\* It holds at first.
LEMMA InitAcks == Init => AckInv
<1> SUFFICES ASSUME Init PROVE AckInv
  OBVIOUS
<1>1. /\ gdb = [pc |-> "idle", n |-> 0, cmd |-> [op |-> "query"]]
      /\ toStub = <<>> /\ toGdb = <<>>
      /\ stub = [pc |-> "getpacket", cmd |-> Command(0, gdb.cmd), out |-> NoPacket, result |-> FALSE,
                 ret |-> None, needBP |-> FALSE]
  BY Zenon DEF Init
<1>2. gdb.n = 0 /\ gdb.cmd.op = "query"
  BY <1>1
<1> DEFINE c == Command(0, gdb.cmd)
<1>3. c.cmd = gdb.cmd
  BY DEF Command
<1> HIDE DEF c
<1>4. stub.pc = "getpacket" /\ stub.cmd = c /\ stub.out = NoPacket
  BY <1>1 DEF c
<1>5. Cmd = gdb.cmd /\ ~Working
  BY <1>3, <1>4 DEF Cmd, Working
<1> QED
  BY <1>1, <1>2, <1>4, <1>5 DEF AckInv, SameCommand, Busy, Acks, AtEase, FromGdb, NoVerdict

\* And every step keeps it.
LEMMA AcksNext == TurnInv /\ AckInv /\ [Next]_vars => AckInv'
<1> SUFFICES ASSUME TurnInv, AckInv, [Next]_vars PROVE AckInv'
  OBVIOUS
<1>1. CASE Ended \/ UNCHANGED vars
  BY <1>1, OnTheWayAcks DEF Ended, vars
<1> QED
  BY <1>1, PacketsAcks, TalkAcks, ExternalAcks DEF Next

\* putpacket sends again for any character that is not an acknowledgement; it
\* takes no command of GDB's for one, unless R failed (remote.cc putpacket, 404,
\* and talkToGdb, 492).
THEOREM NoCommandTaken == Spec => NoCommandEaten
<1>1. TurnInv /\ AckInv => (stub.out # NoPacket /\ toStub # <<>> /\ Head(toStub).k = "command"
                            => Cmd.op = "reset")
  BY TurnFacts, Popped DEF AckInv, Acks
<1>2. TurnInv /\ AckInv =>
        [/\ stub.out # NoPacket /\ toStub # <<>> /\ toStub' = Tail(toStub)
         /\ Head(toStub).k = "command"
         => Cmd.op = "reset"]_vars
  BY <1>1
<1> QED
  BY <1>2, InitInTurn, InTurnNext, InitAcks, AcksNext, PTL DEF Spec, NoCommandEaten
=============================================================================
