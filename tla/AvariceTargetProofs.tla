------------------------- MODULE AvariceTargetProofs -------------------------
(***************************************************************************)
(* Proofs about what avarice makes of its command line, on the invariants  *)
(* of AvariceProofs, for any command lines, emulators, bit rates, bounds   *)
(* and faults.  Driver and descriptor are those the command line and the   *)
(* emulator call for.  Where a step that writes fuses or lock bits is says *)
(* what it has done, so that it leaves in the target what it was asked for.*)
(***************************************************************************)
EXTENDS AvariceProofs, TLAPS

-----------------------------------------------------------------------------
(* The kinds of steps.                                                     *)

\* A call of a step is begun or done.
Calling == main \in StepSet \cup {"session"} /\ todo # <<>> /\ UNCHANGED <<argv, given, opts, main, ice, refused>>
Passed == Check /\ Holds(Head(todo)) /\ todo' = Tail(todo) /\ UNCHANGED drv
\* The program ends, or nothing but the breakpoints or the line changes.
StopsShort == main \in StepSet \cup {"session"} /\ main' = "died" /\ UNCHANGED <<argv, given, opts, drv, ice, refused>>
Still ==
  /\ UNCHANGED <<argv, given, opts, main, todo, ice, refused>>
  /\ drv'.device = drv.device /\ drv'.assigned = drv.assigned /\ drv'.kept = drv.kept
  /\ drv'.programmingEnabled = drv.programmingEnabled

LEMMA StepKinds ==
  ASSUME Shape, TodoInv, CallInv, [Next]_vars
  PROVE  \/ GetOption \/ EndOfOptions \/ ConfigureMkII \/ Connect \/ NextStep \/ GdbAccess
         \/ StopsShort
         \/ Calling /\ (StartCall \/ Passed \/ (Answered /\ GoesOn))
         \/ Box
         \/ Still
<1>1. CASE StartCall
  <2>1. todo # <<>> /\ UNCHANGED <<argv, given, opts, main, ice, refused>>
    BY <1>1, StartCallFacts DEF StartCall
  <2> QED
    BY <1>1, <2>1, TodoTail DEF Calling, TodoInv
<1>2. CASE Check
  <2>1. todo # <<>> /\ UNCHANGED <<argv, given, opts, ice, refused>>
    BY <1>2 DEF Check, Quit, linkVars
  <2>2. main \in StepSet \cup {"session"}
    BY <2>1, TodoTail DEF TodoInv
  <2>3. \/ Holds(Head(todo)) /\ todo' = Tail(todo) /\ UNCHANGED <<main, drv>>
        \/ main' = "died" /\ UNCHANGED drv
    BY <1>2, Zenon DEF Check, Quit
  <2> QED
    BY <1>2, <2>1, <2>2, <2>3 DEF Calling, Passed, StopsShort
<1>3. CASE Answered
  <2>1. todo # <<>> /\ main \in StepSet \cup {"session"} /\ (Died \/ GoesOn)
    BY <1>3, AnsweredFacts
  <2>2. UNCHANGED <<argv, given, opts>>
    <3>1. ASSUME Then(Head(todo)) PROVE Goes \/ Quit("died")
      BY <3>1 DEF Then, Proceed
    <3>2. Goes \/ Quit("died")
      BY <1>3, <3>1 DEF Answered, Proceed
    <3> QED
      BY <3>2 DEF Goes, Quit
  <2>3. UNCHANGED <<ice, refused>>
    BY <1>3 DEF Answered
  <2> QED
    BY <1>3, <2>1, <2>2, <2>3 DEF Calling, StopsShort, Died, GoesOn
<1>4. CASE Dies
  <2>1. main' = "died" /\ UNCHANGED <<argv, given, opts, drv, ice, refused>> /\ call.phase # "idle"
    BY <1>4 DEF Dies, Quit
  <2> QED
    BY <2>1, TodoTail DEF CallInv, TodoInv, StopsShort
<1>5. ASSUME NEW b \in Breakpoints, Insert(b) \/ Remove(b)
      PROVE  Still
  BY <1>5 DEF Insert, Remove, linkVars, Shape, Still
<1>6. CASE StartSync \/ Driver \/ Stays \/ UNCHANGED vars
  BY <1>6, HostLeaves DEF StartSync, startJtagLink, Driver, Stays, vars, linkVars, Still
<1> QED
  BY <1>1, <1>2, <1>3, <1>4, <1>5, <1>6 DEF Next, Process

-----------------------------------------------------------------------------
(* The protocol: what the options make of it one by one, and what follows  *)
(* from all of them at once.                                               *)

\* The options from the last -1 on, of the first n.
Counting(g, n) == {i \in 1 .. n : \A j \in 1 .. n : j >= i => g[j].opt # "1"}
ProtocolUpTo(g, n) ==
  CASE \E i \in Counting(g, n) : g[i].opt = "w" -> "MKII_DW"
    [] (\E i \in Counting(g, n) : g[i].opt \in {"2", "g"}) /\ ~\E i \in Counting(g, n) : g[i].opt = "w" -> "MKII"
    [] OTHER -> "MKI"

LEMMA ProtocolIs ==
  ASSUME NEW g, IsSeq(g)
  PROVE  ProtocolUpTo(g, Len(g)) = ProtocolOf(g) /\ ProtocolUpTo(g, 0) = "MKI"
<1>1. DOMAIN g = 1 .. Len(g)
  BY SeqFacts
<1>2. Counting(g, Len(g)) = {i \in DOMAIN g : \A j \in DOMAIN g : j >= i => g[j].opt # "1"}
  BY <1>1 DEF Counting
<1>3. ProtocolUpTo(g, Len(g)) = ProtocolOf(g)
  BY <1>2, Zenon DEF ProtocolUpTo, ProtocolOf
<1>4. Counting(g, 0) = {}
  BY DEF Counting
<1> QED
  BY <1>3, <1>4 DEF ProtocolUpTo

LEMMA ProtocolStep ==
  ASSUME NEW g, NEW n \in Nat
  PROVE  ProtocolUpTo(g, n + 1) = Protocol(ProtocolUpTo(g, n), g[n + 1].opt)
<1> DEFINE c == Counting(g, n)
           d == Counting(g, n + 1)
           o == g[n + 1].opt
           W == \E i \in c : g[i].opt = "w"
           T == \E i \in c : g[i].opt \in {"2", "g"}
<1>1. 1 .. n + 1 = (1 .. n) \cup {n + 1} /\ \A i \in 1 .. n : n + 1 >= i /\ n + 1 # i
  OBVIOUS
<1>2. o = "1" => d = {}
  BY <1>1 DEF Counting
<1>3. o # "1" => d = c \cup {n + 1}
  BY <1>1 DEF Counting
<1>4. ProtocolUpTo(g, n) = IF W THEN "MKII_DW" ELSE IF T THEN "MKII" ELSE "MKI"
  BY DEF ProtocolUpTo
<1>5. /\ (\E i \in d : g[i].opt = "w") <=> o # "1" /\ (W \/ o = "w")
      /\ (\E i \in d : g[i].opt \in {"2", "g"}) <=> o # "1" /\ (T \/ o \in {"2", "g"})
  <2>1. CASE o = "1"
    BY <1>2, <2>1
  <2>2. CASE o # "1"
    <3> HIDE DEF c, d
    <3> QED
      BY <1>3, <2>2
  <2> QED
    BY <2>1, <2>2
<1> HIDE DEF c, W, T, o
<1>6. ProtocolUpTo(g, n + 1) = IF o # "1" /\ (W \/ o = "w") THEN "MKII_DW"
                               ELSE IF o # "1" /\ (T \/ o \in {"2", "g"}) THEN "MKII" ELSE "MKI"
  BY <1>5 DEF ProtocolUpTo
<1>7. Protocol(ProtocolUpTo(g, n), o) =
        IF o = "1" THEN "MKI"
        ELSE IF o \in {"2", "g"} THEN IF ProtocolUpTo(g, n) = "MKII_DW" THEN "MKII_DW" ELSE "MKII"
        ELSE IF o = "w" THEN "MKII_DW" ELSE ProtocolUpTo(g, n)
  BY DEF Protocol
<1> QED
  BY <1>4, <1>6, <1>7 DEF o

\* The options that are left are the last ones of those given; the protocol is
\* what those in front of them make it.
OptionsInv ==
  /\ "protocol" \in DOMAIN opts
  /\ main = "options" =>
       /\ DOMAIN argv = {"options", "port"} /\ IsSeq(given.options) /\ IsSeq(argv.options)
       /\ \E n \in Nat :
            /\ Len(given.options) = n + Len(argv.options)
            /\ \A i \in 1 .. Len(argv.options) : argv.options[i] = given.options[n + i]
            /\ opts.protocol = ProtocolUpTo(given.options, n)
  /\ ProtocolAsGiven

LEMMA InitOptions == Init => OptionsInv
<1> SUFFICES ASSUME Init PROVE OptionsInv
  OBVIOUS
<1>1. main = "options" /\ argv \in CommandLines /\ given = argv /\ opts = Defaults
  BY Zenon DEF Init
<1>2. DOMAIN argv = {"options", "port"} /\ IsSeq(argv.options)
  BY <1>1, AvariceAssumption DEF IsSeq
<1>3. "protocol" \in DOMAIN opts /\ opts.protocol = "MKI"
  BY <1>1 DEF Defaults
<1>4. Len(argv.options) = 0 + Len(argv.options) /\ \A i \in 1 .. Len(argv.options) : argv.options[i] = argv.options[0 + i]
  BY <1>2, SeqFacts
<1>5. opts.protocol = ProtocolUpTo(given.options, 0)
  BY <1>1, <1>2, <1>3, ProtocolIs
<1> QED
  BY <1>1, <1>2, <1>3, <1>4, <1>5 DEF OptionsInv, ProtocolAsGiven

LEMMA OptionsNext == Shape /\ TodoInv /\ CallInv /\ OptionsInv /\ [Next]_vars => OptionsInv'
<1> SUFFICES ASSUME Shape, TodoInv, CallInv, OptionsInv, [Next]_vars PROVE OptionsInv'
  OBVIOUS
<1>1. ASSUME UNCHANGED <<opts, given>>, main' = "usage" \/ (main' = main /\ argv' = argv)
             \/ (main' # "options" /\ main \notin {"options", "usage"})
      PROVE  OptionsInv'
  BY <1>1 DEF OptionsInv, ProtocolAsGiven
<1>2. CASE GetOption
  <2>0. main = "options" /\ argv.options # <<>>
    BY <1>2 DEF GetOption
  <2>1. CASE Quit("usage")
    BY <1>1, <2>1 DEF Quit
  <2>2. CASE /\ opts' = HandleOption(opts, Head(argv.options))
             /\ argv' = [argv EXCEPT !.options = Tail(argv.options)] /\ UNCHANGED <<given, main>>
    <3> DEFINE a == argv.options
               g == given.options
    <3>1. PICK n \in Nat :
            /\ Len(g) = n + Len(a)
            /\ \A i \in 1 .. Len(a) : a[i] = g[n + i]
            /\ opts.protocol = ProtocolUpTo(g, n)
      BY <2>0 DEF OptionsInv
    <3>2. DOMAIN argv = {"options", "port"} /\ IsSeq(g) /\ IsSeq(a) /\ "protocol" \in DOMAIN opts
      BY <2>0 DEF OptionsInv
    <3>3. DOMAIN argv' = {"options", "port"} /\ argv'.options = Tail(a)
      BY <2>2, <3>2
    <3>4. /\ "protocol" \in DOMAIN opts'
          /\ opts'.protocol = Protocol(opts.protocol, Head(a).opt)
      BY <2>2, <3>2 DEF HandleOption
    <3> HIDE DEF a
    <3>5. IsSeq(Tail(a)) /\ Len(Tail(a)) = Len(a) - 1 /\ Head(a) = a[1] /\ Len(a) \in Nat /\ Len(a) >= 1
          /\ \A i \in 1 .. Len(a) - 1 : Tail(a)[i] = a[i + 1]
      BY <2>0, <3>2, TailFacts, SeqFacts DEF a
    <3>6. Head(a) = g[n + 1]
      BY <3>1, <3>5
    <3>7. \A i \in 1 .. Len(Tail(a)) : Tail(a)[i] = g[(n + 1) + i]
      <4> TAKE i \in 1 .. Len(Tail(a))
      <4>1. i + 1 \in 1 .. Len(a) /\ Tail(a)[i] = a[i + 1] /\ n + (i + 1) = (n + 1) + i
        BY <3>5
      <4> QED
        BY <3>1, <4>1
    <3>8. opts'.protocol = ProtocolUpTo(g, n + 1)
      BY <3>1, <3>4, <3>6, ProtocolStep
    <3>9. n + 1 \in Nat /\ Len(g) = (n + 1) + Len(Tail(a))
      <4>1. PICK k, l, j : k = Len(g) /\ l = Len(a) /\ j = Len(Tail(a))
        OBVIOUS
      <4>2. k = n + l /\ j = l - 1 /\ l \in Nat
        BY <3>1, <3>5, <4>1
      <4>3. k = (n + 1) + j
        BY <4>2
      <4> QED
        BY <4>1, <4>3
    <3> QED
      BY <2>0, <2>2, <3>2, <3>3, <3>4, <3>5, <3>7, <3>8, <3>9 DEF OptionsInv, ProtocolAsGiven
  <2> QED
    BY <1>2, <2>1, <2>2 DEF GetOption
<1>3. CASE EndOfOptions
  <2>0. main = "options" /\ argv.options = <<>>
    BY <1>3 DEF EndOfOptions
  <2>1. CASE Quit("usage")
    BY <1>1, <2>1 DEF Quit
  <2>2. CASE main' = "connect" /\ given' = given /\ \E port : opts' = Complete([opts EXCEPT !.port = port], JTAG_DEV)
    <3>1. opts.protocol = ProtocolOf(given.options)
      <4>1. PICK n \in Nat : Len(given.options) = n + 0 /\ opts.protocol = ProtocolUpTo(given.options, n)
        BY <2>0, SeqFacts DEF OptionsInv
      <4>2. IsSeq(given.options) /\ n = Len(given.options)
        BY <2>0, <4>1 DEF OptionsInv
      <4> QED
        BY <4>1, <4>2, ProtocolIs
    <3>2. ASSUME NEW s, "protocol" \in DOMAIN s
          PROVE  "protocol" \in DOMAIN Complete(s, JTAG_DEV) /\ Complete(s, JTAG_DEV).protocol = s.protocol
      BY <3>2 DEF Complete
    <3>3. ASSUME NEW port
          PROVE  /\ "protocol" \in DOMAIN [opts EXCEPT !.port = port]
                 /\ [opts EXCEPT !.port = port].protocol = opts.protocol
      BY DEF OptionsInv
    <3>4. opts'.protocol = opts.protocol /\ "protocol" \in DOMAIN opts'
      BY <2>2, <3>2, <3>3
    <3> QED
      BY <2>2, <3>1, <3>4 DEF OptionsInv, ProtocolAsGiven
  <2> QED
    BY <1>3, <2>1, <2>2, Zenon DEF EndOfOptions
<1>4. CASE UNCHANGED <<opts, given, argv, main>>
  BY <1>1, <1>4
<1>5. CASE ConfigureMkII \/ Connect
  <2>1. main = "connect" /\ UNCHANGED <<opts, given>> /\ main' # "options"
    BY <1>5 DEF ConfigureMkII, Connect, Quit
  <2> QED
    BY <1>1, <2>1
<1>6. CASE NextStep
  <2>1. main \in StepSet /\ UNCHANGED <<opts, given>>
    BY <1>6 DEF NextStep, StepSet
  <2>2. main' \in StepSet \cup {"ended", "session"}
    BY <1>6, <2>1, StepFacts, Zenon DEF NextStep
  <2> QED
    BY <1>1, <2>1, <2>2, StepFacts
<1>7. CASE StopsShort
  <2>1. main \notin {"options", "usage"} /\ main' # "options"
    BY <1>7, StepFacts DEF StopsShort
  <2> QED
    BY <1>1, <1>7, <2>1 DEF StopsShort
<1>8. CASE Calling \/ Box \/ Still \/ GdbAccess
  BY <1>4, <1>8 DEF Calling, Box, Still, GdbAccess
<1> QED
  BY <1>2, <1>3, <1>5, <1>6, <1>7, <1>8, StepKinds

-----------------------------------------------------------------------------
(* The device: the last call of initJtagBox asks for the rest of the id; no *)
(* other one chooses a device, and no later step tells the emulator one.   *)

Asking == DoThen(getJtagParameter("JTAGID_BYTE3"), "device")
Describing(t) == t.op = "cmd" /\ t.q.cmd = "descriptor"
InitItem(t) == t.op = "sync" \/ (t.op = "cmd" /\ t.then \in {"next", "rate"} /\ t.q.cmd \in {"B", "q", "F"})

InitItems(s) == IsSeq(s) /\ \A i \in 1 .. Len(s) : InitItem(s[i])
Asks(s) ==
  /\ IsSeq(s) /\ s # <<>>
  /\ \A i \in 1 .. Len(s) : IF i = Len(s) THEN s[i] = Asking ELSE InitItem(s[i])

LEMMA AsksConcat ==
  ASSUME NEW s, NEW t, InitItems(s)
  PROVE  /\ InitItems(t) => InitItems(s \o t)
         /\ Asks(t) => Asks(s \o t)
<1> DEFINE u == s \o t
           n == Len(s)
           m == Len(t)
<1>1. CASE IsSeq(t)
  <2>1. /\ n \in Nat /\ m \in Nat
        /\ IsSeq(u) /\ Len(u) = n + m
        /\ \A i \in 1 .. n : u[i] = s[i]
        /\ \A i \in 1 .. m : u[n + i] = t[i]
        /\ \A i \in 1 .. n + m : i \in 1 .. n \/ \E j \in 1 .. m : i = n + j
    <3>1. IsSeq(s)
      BY DEF InitItems
    <3> HIDE DEF u
    <3>2. n \in Nat /\ m \in Nat
      BY <1>1, <3>1, SeqFacts
    <3>3. IsSeq(u) /\ Len(u) = n + m
      BY <1>1, <3>1, ConcatFacts DEF u
    <3> QED
      BY <1>1, <3>1, <3>2, <3>3, ConcatFacts DEF u
  <2>2. t # <<>> => m >= 1
    BY <1>1, SeqFacts
  <2> HIDE DEF u, n, m
  <2>3. InitItems(t) => InitItems(u)
    BY <2>1 DEF InitItems, n, m
  <2>4. ASSUME Asks(t) PROVE Asks(u)
    <3>1. m >= 1
      BY <2>2, <2>4 DEF Asks
    <3>2. u # <<>>
      BY <2>1, <3>1, EmptyFacts
    <3>3. ASSUME NEW i \in 1 .. n + m
          PROVE  IF i = n + m THEN u[i] = Asking ELSE InitItem(u[i])
      <4>1. CASE i \in 1 .. n
        <5>1. InitItem(u[i]) /\ i # n + m
          BY <2>1, <3>1, <4>1 DEF InitItems, n
        <5> QED
          BY <5>1
      <4>2. ASSUME NEW j \in 1 .. m, i = n + j
            PROVE  IF i = n + m THEN u[i] = Asking ELSE InitItem(u[i])
        <5>1. u[i] = t[j] /\ (i = n + m <=> j = m)
          BY <2>1, <4>2
        <5>2. IF j = m THEN t[j] = Asking ELSE InitItem(t[j])
          BY <2>4 DEF Asks, m
        <5> QED
          BY <5>1, <5>2
      <4> QED
        BY <2>1, <4>1, <4>2
    <3> QED
      BY <2>1, <3>2, <3>3 DEF Asks
  <2> QED
    BY <2>3, <2>4 DEF u
<1>2. CASE ~IsSeq(t)
  BY <1>2 DEF Asks, InitItems
<1> QED
  BY <1>1, <1>2

LEMMA AsksTail ==
  ASSUME NEW s, Asks(s)
  PROVE  \/ Head(s) = Asking /\ Tail(s) = <<>>
         \/ InitItem(Head(s)) /\ Asks(Tail(s))
<1> DEFINE u == Tail(s)
           n == Len(s)
<1>1. /\ n \in Nat /\ n >= 1 /\ Head(s) = s[1]
      /\ IsSeq(u) /\ Len(u) = n - 1
      /\ \A i \in 1 .. n - 1 : u[i] = s[i + 1]
  BY SeqFacts, TailFacts DEF Asks
<1>0. \A i \in 1 .. n : IF i = n THEN s[i] = Asking ELSE InitItem(s[i])
  BY DEF Asks
<1> HIDE DEF u, n
<1>2. CASE n = 1
  <2>1. Len(u) = 0
    BY <1>1, <1>2
  <2>2. u = <<>>
    BY <1>1, <2>1, SeqFacts
  <2>3. s[1] = Asking
    BY <1>0, <1>1, <1>2
  <2> QED
    BY <1>1, <2>2, <2>3 DEF u
<1>3. CASE n # 1
  <2>1. InitItem(s[1])
    BY <1>0, <1>1, <1>3
  <2>2. u # <<>>
    <3>1. Len(u) # 0
      BY <1>1, <1>3
    <3> QED
      BY <3>1, EmptyFacts
  <2>3. ASSUME NEW i \in 1 .. n - 1
        PROVE  IF i = n - 1 THEN u[i] = Asking ELSE InitItem(u[i])
    <3>1. i + 1 \in 1 .. n /\ (i + 1 = n <=> i = n - 1) /\ u[i] = s[i + 1]
      BY <1>1
    <3>2. IF i + 1 = n THEN s[i + 1] = Asking ELSE InitItem(s[i + 1])
      BY <1>0, <3>1
    <3> QED
      BY <3>1, <3>2
  <2>4. Asks(u)
    BY <1>1, <2>2, <2>3 DEF Asks
  <2> QED
    BY <1>1, <2>1, <2>4 DEF u
<1> QED
  BY <1>2, <1>3

LEMMA AsksSingle ==
  /\ InitItems(<<>>) /\ Asks(<<Asking>>)
  /\ \A t : InitItem(t) => InitItems(<<t>>)
<1>1. InitItems(<<>>)
  BY EmptyFacts DEF InitItems
<1>2. Asks(<<Asking>>)
  <2>1. \A a : <<a>> # <<>>
    OBVIOUS
  <2> QED
    BY <2>1, SingleFacts DEF Asks
<1>3. \A t : InitItem(t) => InitItems(<<t>>)
  BY SingleFacts DEF InitItems
<1> QED
  BY <1>1, <1>2, <1>3

LEMMA ChainItem == \A s : InitItems(configDaisyChain(s))
<1> TAKE s
<1> DEFINE S == {i \in 1 .. 4 : s.dchain[i] > 0}
           used == InOrder(S)
           c == configDaisyChain(s)
<1>1. S \in SUBSET (1 .. 4) /\ 4 \in Int
  OBVIOUS
<1> HIDE DEF S
<1>2. PICK n \in Nat : DOMAIN used = 1 .. n
  BY <1>1, InOrderFacts
<1>3. c = [i \in DOMAIN used |-> Do(setJtagParameter(ChainItems[used[i]], s.dchain[used[i]]))]
  BY DEF configDaisyChain, S
<1>4. \A item, value : InitItem(Do(setJtagParameter(item, value)))
  BY DEF Do, setJtagParameter, InitItem
<1> HIDE DEF used, c
<1>5. DOMAIN c = 1 .. n /\ c = [i \in 1 .. n |-> c[i]]
  BY <1>2, <1>3
<1>6. IsSeq(c) /\ Len(c) = n
  BY <1>5, MakeSeq
<1>7. \A i \in 1 .. n : InitItem(c[i])
  BY <1>2, <1>3, <1>4
<1> QED
  BY <1>6, <1>7 DEF InitItems, c

LEMMA InitAsks == \A s : Asks(initJtagBox(s))
<1> TAKE s
<1> DEFINE a == [op |-> "sync"]
           b == DoThen(setJtagParameter("BITRATE", 115200), "rate")
           c == Do(getJtagParameter("HW_VERSION"))
           d == Do(getJtagParameter("SW_VERSION"))
           f == Do(Simple("F"))
           x == Do(getJtagParameter("JTAGID_BYTE0"))
           y == Do(getJtagParameter("JTAGID_BYTE1"))
           z == Do(getJtagParameter("JTAGID_BYTE2"))
           ch == configDaisyChain(s)
<1>1. initJtagBox(s) = <<a, b, c, d>> \o interruptProgram \o deviceAutoConfig(s)
  BY DEF initJtagBox
<1>2. deviceAutoConfig(s) = ch \o <<x>> \o interruptProgram \o <<y, z, Asking>>
  BY Zenon DEF deviceAutoConfig, Asking
<1>3. interruptProgram = <<f>>
  BY Zenon DEF interruptProgram
<1>4. InitItem(a) /\ InitItem(b) /\ InitItem(c) /\ InitItem(d) /\ InitItem(f)
      /\ InitItem(x) /\ InitItem(y) /\ InitItem(z)
  <2>1. InitItem(a)
    BY DEF InitItem
  <2>2. InitItem(b)
    BY DEF InitItem, DoThen, setJtagParameter
  <2>3. \A item : InitItem(Do(getJtagParameter(item)))
    BY DEF InitItem, Do, getJtagParameter
  <2>4. InitItem(f)
    BY DEF InitItem, Do, Simple
  <2> QED
    BY <2>1, <2>2, <2>3, <2>4
<1>5. InitItems(ch)
  BY ChainItem
<1> HIDE DEF a, b, c, d, f, x, y, z, ch, Asking
<1>6. <<a, b, c, d>> = <<a>> \o <<b>> \o <<c>> \o <<d>>
  BY FourCalls
<1>13. <<y, z, Asking>> = <<y>> \o <<z>> \o <<Asking>>
  BY ThreeCalls
<1>7. InitItems(<<a, b, c, d>>) /\ InitItems(<<f>>) /\ InitItems(<<x>>)
  BY <1>4, <1>6, AsksSingle, AsksConcat
<1>8. Asks(<<y, z, Asking>>)
  <2>1. InitItems(<<y>> \o <<z>>)
    BY <1>4, AsksSingle, AsksConcat
  <2> QED
    BY <1>13, <2>1, AsksSingle, AsksConcat
<1>9. InitItems(ch \o <<x>> \o <<f>>)
  BY <1>5, <1>7, AsksConcat
<1>10. Asks(ch \o <<x>> \o <<f>> \o <<y, z, Asking>>)
  BY <1>8, <1>9, AsksConcat
<1>11. Asks(deviceAutoConfig(s))
  BY <1>2, <1>3, <1>10
<1>12. InitItems(<<a, b, c, d>> \o <<f>>)
  BY <1>7, AsksConcat
<1> QED
  BY <1>1, <1>3, <1>11, <1>12, AsksConcat

\* The calls of the steps from the second one on leave the device alone.
FixedItem(t) == t.op = "cmd" => t.then # "device" /\ t.q.cmd # "descriptor"
Fixed(s) == IsSeq(s) /\ \A i \in DOMAIN s : FixedItem(s[i])

LEMMA FixedConcat ==
  ASSUME NEW s, NEW t, Fixed(s), Fixed(t)
  PROVE  Fixed(s \o t)
<1> DEFINE u == s \o t
           n == Len(s)
           m == Len(t)
<1>1. /\ DOMAIN s = 1 .. n /\ DOMAIN t = 1 .. m
      /\ IsSeq(u) /\ DOMAIN u = 1 .. n + m
      /\ \A i \in 1 .. n : u[i] = s[i]
      /\ \A i \in 1 .. m : u[n + i] = t[i]
      /\ \A i \in 1 .. n + m : i \in 1 .. n \/ \E j \in 1 .. m : i = n + j
  <2>1. IsSeq(s) /\ IsSeq(t)
    BY DEF Fixed
  <2>2. IsSeq(u) /\ Len(u) = n + m
    BY <2>1, ConcatFacts
  <2> QED
    BY <2>1, <2>2, ConcatFacts, SeqFacts
<1> HIDE DEF u, n, m
<1>2. \A i \in 1 .. n + m : FixedItem(u[i])
  BY <1>1 DEF Fixed
<1> QED
  BY <1>1, <1>2 DEF Fixed, u

LEMMA FixedTail ==
  ASSUME NEW s, Fixed(s), s # <<>>
  PROVE  FixedItem(Head(s)) /\ Fixed(Tail(s))
<1>1. IsSeq(s) /\ IsSeq(Tail(s)) /\ Len(Tail(s)) = Len(s) - 1
  BY TailFacts DEF Fixed
<1>2. /\ Len(s) \in Nat /\ Len(s) >= 1 /\ DOMAIN s = 1 .. Len(s) /\ Head(s) = s[1]
      /\ DOMAIN Tail(s) = 1 .. Len(s) - 1
      /\ \A i \in 1 .. Len(s) - 1 : Tail(s)[i] = s[i + 1]
  BY <1>1, SeqFacts, TailFacts
<1>3. 1 \in 1 .. Len(s) /\ \A i \in 1 .. Len(s) - 1 : i + 1 \in 1 .. Len(s)
  BY <1>2
<1> QED
  BY <1>1, <1>2, <1>3 DEF Fixed

LEMMA FixedSingle ==
  /\ Fixed(<<>>)
  /\ \A q : q.cmd # "descriptor" => Fixed(<<Do(q)>>)
  /\ \A m, addr, n, then : Fixed(<<jtagRead(m, addr, n, then)>>)
  /\ \A m, addr, bytes : Fixed(<<jtagWrite(m, addr, bytes)>>)
  /\ \A what, bytes : Fixed(<<check(what, bytes)>>)
<1>1. Fixed(<<>>)
  BY EmptyFacts DEF Fixed
<1>2. \A t : FixedItem(t) => Fixed(<<t>>)
  BY SingleFacts DEF Fixed
<1>3. \A q : q.cmd # "descriptor" => FixedItem(Do(q))
  BY DEF Do, FixedItem
<1>4. \A m, addr, n, then : FixedItem(jtagRead(m, addr, n, then))
  BY DEF jtagRead, FixedItem
<1>5. \A m, addr, bytes : FixedItem(jtagWrite(m, addr, bytes))
  BY DEF jtagWrite, FixedItem
<1>6. \A what, bytes : FixedItem(check(what, bytes))
  BY DEF check, FixedItem
<1> QED
  BY <1>1, <1>2, <1>3, <1>4, <1>5, <1>6

LEMMA FixedSwitches ==
  /\ Fixed(enableProgramming) /\ Fixed(disableProgramming)
  /\ \A item, value : Fixed(<<Do(setJtagParameter(item, value))>>)
  /\ \A s, possible_nSRST : Fixed(resetProgram(s, possible_nSRST))
<1>1. \A c \in {"a3", "a4", "x"} : Fixed(<<Do(Simple(c))>>)
  BY FixedSingle DEF Simple
<1>2. \A item, value : Fixed(<<Do(setJtagParameter(item, value))>>)
  <2>1. \A item, value : setJtagParameter(item, value).cmd # "descriptor"
    BY DEF setJtagParameter
  <2> QED
    BY <2>1, FixedSingle
<1>3. ASSUME NEW s, NEW possible_nSRST
      PROVE  Fixed(resetProgram(s, possible_nSRST))
  <2> DEFINE a == Do(setJtagParameter("EXTERNAL_RESET", 1))
             b == Do(Simple("x"))
             c == Do(setJtagParameter("EXTERNAL_RESET", 0))
  <2>1. resetProgram(s, possible_nSRST) = <<a, b, c>> \/ resetProgram(s, possible_nSRST) = <<b>>
    BY Zenon DEF resetProgram
  <2>2. Fixed(<<a>>) /\ Fixed(<<b>>) /\ Fixed(<<c>>)
    BY <1>1, <1>2
  <2> HIDE DEF a, b, c
  <2>3. Fixed(<<a>> \o <<b>> \o <<c>>)
    BY <2>2, FixedConcat
  <2>4. <<a, b, c>> = <<a>> \o <<b>> \o <<c>>
    BY ThreeCalls
  <2> QED
    BY <2>1, <2>2, <2>3, <2>4
<1> QED
  BY <1>1, <1>2, <1>3 DEF enableProgramming, disableProgramming

LEMMA FixedBits ==
  ASSUME NEW m, NEW n, NEW bytes
  PROVE  Fixed(ReadBits(m, n)) /\ Fixed(WriteBits(m, n, bytes))
<1> DEFINE e == enableProgramming
           d == disableProgramming
           r == <<jtagRead(m, 0, n, "keep")>>
           w == jtagWrite(m, 0, bytes)
           v == jtagRead(m, 0, n, "keep")
           k == <<check("kept", <<>>)>>
           c == <<check("same", bytes)>>
           x == <<check("never", <<>>)>>
<1>1. /\ Fixed(e) /\ Fixed(d) /\ Fixed(r) /\ Fixed(<<w>>) /\ Fixed(<<v>>) /\ Fixed(k) /\ Fixed(c) /\ Fixed(x)
  BY FixedSwitches, FixedSingle
<1>2. ReadBits(m, n) = e \o r \o d \o k
  BY DEF ReadBits
<1>3. WriteBits(m, n, bytes) = x \/ WriteBits(m, n, bytes) = e \o <<w, v>> \o d \o c
  BY Zenon DEF WriteBits
<1> HIDE DEF e, d, r, w, v, k, c, x
<1>4. <<w, v>> = <<w>> \o <<v>>
  BY TwoCalls
<1>5. Fixed(<<w, v>>)
  BY <1>1, <1>4, FixedConcat
<1>6. Fixed(e \o r \o d \o k) /\ Fixed(e \o <<w, v>> \o d \o c)
  BY <1>1, <1>5, FixedConcat
<1> QED
  BY <1>1, <1>2, <1>3, <1>6

LEMMA FixedDebug == \A s : Fixed(initJtagOnChipDebugging(s))
<1> TAKE s
<1> DEFINE a == <<Do(setJtagParameter("CLOCK", JtagClock(s.jtagBitrate)))>>
           e == enableProgramming
           l == jtagRead("lock", 0, 1, "unlock")
           f == jtagRead("fuse", 0, 3, "ocden")
           d == disableProgramming
           x == resetProgram(s, FALSE)
           t == <<Do(setJtagParameter("TIMERS_RUNNING", 0))>>
           y == resetProgram(s, TRUE)
<1>1. /\ Fixed(a) /\ Fixed(e) /\ Fixed(<<l>>) /\ Fixed(<<f>>) /\ Fixed(d) /\ Fixed(x) /\ Fixed(t) /\ Fixed(y)
  BY FixedSwitches, FixedSingle
<1>2. initJtagOnChipDebugging(s) = a \o e \o <<l, f>> \o d \o x \o t \o y
  BY DEF initJtagOnChipDebugging
<1> HIDE DEF a, e, l, f, d, x, t, y
<1>3. <<l, f>> = <<l>> \o <<f>>
  BY TwoCalls
<1>4. Fixed(<<l, f>>)
  BY <1>1, <1>3, FixedConcat
<1>5. Fixed(a \o e \o <<l, f>> \o d \o x \o t \o y)
  BY <1>1, <1>4, FixedConcat
<1> QED
  BY <1>2, <1>5

Early == {"erase", "readFuses", "readLockBits", "writeFuses", "initOCD"}

LEMMA FixedCalls == \A s : \A p \in Early : Fixed(Calls(s, p))
<1> SUFFICES ASSUME NEW s, NEW p \in Early PROVE Fixed(Calls(s, p))
  OBVIOUS
<1> DEFINE a == eraseSteps
           b == ReadBits("fuse", 3)
           c == ReadBits("lock", 1)
           d == WriteBits("fuse", 3, FuseText[s.text["W"]])
           e == initJtagOnChipDebugging(s)
<1>1. Fixed(a)
  <2>1. Fixed(<<Do(Simple("a5"))>>)
    BY FixedSingle DEF Simple
  <2> QED
    BY <2>1, FixedSwitches, FixedConcat DEF eraseSteps
<1>2. Fixed(b) /\ Fixed(c) /\ Fixed(d) /\ Fixed(e) /\ Fixed(<<>>)
  BY FixedBits, FixedDebug, FixedSingle
<1>3. /\ p = "erase" => Calls(s, p) = a \/ Calls(s, p) = <<>>
      /\ p = "readFuses" => Calls(s, p) = b \/ Calls(s, p) = <<>>
      /\ p = "readLockBits" => Calls(s, p) = c \/ Calls(s, p) = <<>>
      /\ p = "writeFuses" => Calls(s, p) = d \/ Calls(s, p) = <<>>
      /\ p = "initOCD" => Calls(s, p) = e \/ Calls(s, p) = <<>>
  BY DEF Calls
<1> HIDE DEF a, b, c, d, e
<1> QED
  BY <1>1, <1>2, <1>3 DEF Early

\* An answer that is no device's: at most a write is put in front of what is
\* left.
LEMMA OtherAnswers ==
  ASSUME Shape, TodoInv, CallInv, Answered, main' # "died",
         Head(todo).op = "sync" \/ Head(todo).then # "device"
  PROVE  /\ drv'.device = drv.device
         /\ \/ todo' = Tail(todo)
            \/ Head(todo).op = "read" /\ \E m, addr, bytes : todo' = <<jtagWrite(m, addr, bytes)>> \o Tail(todo)
<1> DEFINE t == Head(todo)
<1>1. CallOf(t, drv, call, got) /\ Item(main, t)
  BY AnsweredFacts
<1>2. t.op \in {"cmd", "read", "sync"}
  BY <1>1 DEF CallOf
<1>3. <<>> \o Tail(todo) = Tail(todo)
  <2>1. IsSeq(<<>>) /\ <<>> \o Tail(todo) = Tail(todo)
    BY DEF IsSeq
  <2> QED
    BY <2>1
<1>4. \/ t.op = "sync" /\ Proceed(drv, <<>>)
      \/ t.op # "sync" /\ Then(t)
  <2>1. ~Quit("died")
    BY DEF Quit
  <2> QED
    BY <2>1 DEF Answered
<1>5. t.op # "sync" => t.then \in {"next", "rate", "keep", "unlock", "ocden", "verify", "gdb"}
  BY <1>1, <1>2 DEF Item, GdbItem, StepItem, jtagRead
<1>6. t.op = "cmd" => t.then \in {"next", "rate"}
  BY <1>1, <1>5 DEF Item, GdbItem, StepItem, jtagRead
<1>0. ~Quit("died")
  BY DEF Quit
<1> HIDE DEF t
<1>7. CASE Proceed(drv, <<>>)
  BY <1>3, <1>7 DEF Proceed
<1>8. CASE Then(t) /\ t.then \in {"next", "rate"}
  <2>1. Proceed(drv, <<>>)
    BY <1>8 DEF Then
  <2> QED
    BY <1>7, <2>1
<1>9. CASE t.op # "sync" /\ Then(t) /\ t.then \in {"unlock", "ocden"}
  <2>1. \/ Proceed(drv, <<>>)
        \/ \E m, addr, bytes : Proceed(drv, <<jtagWrite(m, addr, bytes)>>)
    <3>1. CASE t.then = "unlock"
      BY <1>0, <1>9, <3>1, Zenon DEF Then
    <3>2. CASE t.then = "ocden"
      BY <1>0, <1>9, <3>2, Zenon DEF Then
    <3> QED
      BY <1>9, <3>1, <3>2
  <2>2. ASSUME NEW m, NEW addr, NEW bytes, Proceed(drv, <<jtagWrite(m, addr, bytes)>>)
        PROVE  drv' = drv /\ todo' = <<jtagWrite(m, addr, bytes)>> \o Tail(todo)
    BY <2>2 DEF Proceed
  <2>3. t.op = "read"
    BY <1>2, <1>6, <1>9
  <2> QED
    BY <1>7, <2>1, <2>2, <2>3 DEF t
<1>10. CASE Then(t) /\ t.then \in {"keep", "verify"}
  <2>1. \/ \E k : Proceed([drv EXCEPT !.kept = k], <<>>)
        \/ \E v : Proceed([drv EXCEPT !.verified = v], <<>>)
    <3>1. CASE t.then = "keep"
      BY <1>10, <3>1, Zenon DEF Then
    <3>2. CASE t.then = "verify"
      BY <1>0, <1>10, <3>2, Zenon DEF Then
    <3> QED
      BY <1>10, <3>1, <3>2
  <2>2. \A k, v : [drv EXCEPT !.kept = k].device = drv.device /\ [drv EXCEPT !.verified = v].device = drv.device
    BY DEF Shape
  <2>3. ASSUME NEW d, Proceed(d, <<>>) PROVE drv' = d /\ todo' = Tail(todo)
    BY <1>3, <2>3 DEF Proceed
  <2>4. CASE \E k : Proceed([drv EXCEPT !.kept = k], <<>>)
    <3>1. PICK k : Proceed([drv EXCEPT !.kept = k], <<>>)
      BY <2>4
    <3>2. drv' = [drv EXCEPT !.kept = k] /\ todo' = Tail(todo)
      BY <2>3, <3>1
    <3> QED
      BY <2>2, <3>2
  <2>5. CASE \E v : Proceed([drv EXCEPT !.verified = v], <<>>)
    <3>1. PICK v : Proceed([drv EXCEPT !.verified = v], <<>>)
      BY <2>5
    <3>2. drv' = [drv EXCEPT !.verified = v] /\ todo' = Tail(todo)
      BY <2>3, <3>1
    <3> QED
      BY <2>2, <3>2
  <2> QED
    BY <2>1, <2>4, <2>5
<1>11. CASE Then(t) /\ t.then = "gdb"
  BY <1>11, Zenon DEF Then
<1> QED
  BY <1>4, <1>5, <1>7, <1>8, <1>9, <1>10, <1>11

Descriptor == Do(setDeviceDescriptor(ByName(drv.device)))

\* The driver goes by the row of the device it was told of, or found.
Chosen ==
  /\ ByName(drv.device).name = drv.device
  /\ "MKII_ONLY" \notin ByName(drv.device).device_flags
  /\ IF opts.text["P"] # "" THEN drv.device = opts.text["P"] ELSE ByName(drv.device).device_id = ice.id

\* initJtagBox chooses a device last and tells the emulator about it; then
\* they agree.
DeviceInv ==
  /\ main = "init" => \/ Asks(todo)
                      \/ Chosen /\ (todo = <<Descriptor>> \/ (todo = <<>> /\ ice.device = drv.device))
  /\ main \in Early => Fixed(todo)
  /\ SetUp => Chosen /\ ice.device = drv.device
  /\ main = "configured" => Known(ByName(drv.device))

LEMMA DeviceFacts ==
  /\ Early \subseteq StepSet /\ "init" \notin Early
  /\ \A p \in Early \cup LateSteps : p # "init"
  /\ SetUp <=> main \in Early \cup LateSteps \cup {"ended"}
  /\ SetUp' <=> main' \in Early \cup LateSteps \cup {"ended"}
  /\ \A p \in {"options", "usage", "connect", "configured", "died"} : p \notin Early \cup LateSteps \cup {"init", "ended"}
<1>1. StepSet = {"init", "erase", "readFuses", "readLockBits", "writeFuses", "initOCD", "download",
                 "writeLockBits", "resume"}
  BY DEF StepSet, Steps
<1> QED
  BY <1>1 DEF Early, LateSteps, SetUp

LEMMA RowChosen ==
  ASSUME NEW s, NEW id, NEW row, row = Row(s, id), Known(row)
  PROVE  /\ ByName(row.name) = row
         /\ IF s.text["P"] # "" THEN row.name = s.text["P"] ELSE row.device_id = id
<1>1. CASE s.text["P"] # ""
  <2>1. row = ByName(s.text["P"])
    BY <1>1 DEF Row
  <2>2. row.name = s.text["P"]
    BY <2>1, KnownRows
  <2> QED
    BY <1>1, <2>1, <2>2
<1>2. CASE s.text["P"] = ""
  <2>1. row = ById(id)
    BY <1>2 DEF Row
  <2> QED
    BY <1>2, <2>1, KnownRows
<1> QED
  BY <1>1, <1>2

\* The answer after which the driver knows the device.
LEMMA DeviceChosen ==
  ASSUME Shape, Answered, main' # "died", todo = <<Asking>>
  PROVE  opts' = opts /\ Chosen' /\ todo' = <<Descriptor'>>
<1> DEFINE row == Row(opts, ice.id)
<1>1. Asking.op = "cmd" /\ Asking.then = "device"
  BY DEF Asking, DoThen
<1>2. Head(todo) = Asking /\ Tail(todo) = <<>>
  OBVIOUS
<1>3. ~Quit("died") /\ ice' = ice
  BY DEF Quit, Answered
<1>4. Then(Asking)
  BY <1>1, <1>2, <1>3 DEF Answered
<1>5. Supported(row) /\ Proceed([drv EXCEPT !.device = row.name], <<Do(setDeviceDescriptor(row))>>)
  BY <1>1, <1>3, <1>4, Zenon DEF Then
<1> HIDE DEF row
<1>6. opts' = opts /\ drv' = [drv EXCEPT !.device = row.name] /\ todo' = <<Do(setDeviceDescriptor(row))>> \o Tail(todo)
  BY <1>5 DEF Proceed, Goes
<1>7. drv'.device = row.name
  BY <1>6 DEF Shape
<1>8. Known(row) /\ "MKII_ONLY" \notin row.device_flags
  BY <1>5 DEF Supported
<1>9. /\ ByName(row.name) = row
      /\ IF opts.text["P"] # "" THEN row.name = opts.text["P"] ELSE row.device_id = ice.id
  BY <1>8, RowChosen DEF row
<1>10. todo' = <<Do(setDeviceDescriptor(row))>>
  <2> DEFINE d == Do(setDeviceDescriptor(row))
  <2>1. todo' = <<d>> \o <<>>
    BY <1>2, <1>6
  <2> HIDE DEF d
  <2>2. <<d>> \o <<>> = <<d>>
    OBVIOUS
  <2> QED
    BY <2>1, <2>2 DEF d
<1>11. Chosen'
  BY <1>3, <1>6, <1>7, <1>8, <1>9 DEF Chosen
<1> QED
  BY <1>6, <1>7, <1>9, <1>10, <1>11 DEF Descriptor

LEMMA InitDevice == Init => DeviceInv
<1> SUFFICES ASSUME Init PROVE DeviceInv
  OBVIOUS
<1>1. main = "options"
  BY Zenon DEF Init
<1> QED
  BY <1>1, DeviceFacts DEF DeviceInv

\* A call of the first step.
LEMMA DeviceInit ==
  ASSUME Shape, LineInv, TodoInv, CallInv, AnswerInv, DeviceInv, main = "init", Calling,
         StartCall \/ Passed \/ (Answered /\ GoesOn)
  PROVE  DeviceInv'
<1>0. UNCHANGED <<opts, main, ice>> /\ todo # <<>>
  BY DEF Calling
<1>1. ASSUME Asks(todo') PROVE DeviceInv'
  BY <1>0, <1>1, DeviceFacts DEF DeviceInv
<1>2. ASSUME Chosen', todo' = <<Descriptor'>> \/ (todo' = <<>> /\ ice'.device = drv'.device)
      PROVE  DeviceInv'
  BY <1>0, <1>2, DeviceFacts DEF DeviceInv
<1>3. CASE Asks(todo)
  <2>0. \/ Head(todo) = Asking /\ Tail(todo) = <<>>
        \/ InitItem(Head(todo)) /\ Asks(Tail(todo))
    BY <1>3, AsksTail
  <2>1. Asking.op = "cmd"
    BY DEF Asking, DoThen
  <2>2. Head(todo).op \in {"cmd", "sync"}
    BY <2>0, <2>1 DEF InitItem
  <2>3. CASE StartCall
    <3>1. todo' = todo
      BY <2>2, <2>3, StartCallFacts
    <3> QED
      BY <1>1, <1>3, <3>1
  <2>4. CASE Passed
    <3>1. Head(todo).op = "check"
      BY <2>4 DEF Passed, Check
    <3> QED
      BY <2>2, <3>1
  <2>5. CASE Answered /\ GoesOn
    <3>1. main' # "died"
      BY <1>0
    <3>2. CASE Head(todo) = Asking /\ Tail(todo) = <<>>
      <4>1. todo = <<Asking>>
        <5>1. IsSeq(todo)
          BY DEF TodoInv, TodoOK
        <5>2. Len(todo) = 1 /\ todo[1] = Asking
          <6>1. Len(Tail(todo)) = Len(todo) - 1 /\ Len(Tail(todo)) = 0 /\ Len(todo) \in Nat
            BY <1>0, <3>2, <5>1, TailFacts, SeqFacts
          <6> QED
            BY <1>0, <3>2, <5>1, <6>1, SeqFacts
        <5> HIDE DEF Asking
        <5>3. IsSeq(<<Asking>>) /\ Len(<<Asking>>) = 1 /\ <<Asking>>[1] = Asking
          BY SingleFacts
        <5>4. todo = Append(<<>>, Asking)
          <6> DEFINE S == {todo[i] : i \in DOMAIN todo}
          <6>1. todo \in Seq(S)
            BY <5>1 DEF IsSeq
          <6> HIDE DEF S
          <6> QED
            BY <5>2, <6>1
        <5> QED
          BY <5>4, TupleFacts
      <4> QED
        BY <1>2, <2>5, <3>1, <4>1, DeviceChosen
    <3>3. CASE InitItem(Head(todo)) /\ Asks(Tail(todo))
      <4>1. Head(todo).op = "sync" \/ Head(todo).then # "device"
        BY <3>3 DEF InitItem
      <4>2. todo' = Tail(todo)
        BY <2>2, <2>5, <3>1, <4>1, OtherAnswers
      <4> QED
        BY <1>1, <3>3, <4>2
    <3> QED
      BY <2>0, <3>2, <3>3
  <2> QED
    BY <2>3, <2>4, <2>5
<1>4. CASE Chosen /\ todo = <<Descriptor>>
  <2>1. Head(todo) = Descriptor /\ Tail(todo) = <<>>
    BY <1>4
  <2>2. Descriptor.op = "cmd" /\ Descriptor.then = "next" /\ Descriptor.q.cmd = "descriptor"
        /\ Descriptor.q.value = ByName(drv.device)
    BY DEF Descriptor, Do, setDeviceDescriptor
  <2>3. CASE StartCall
    <3>1. todo' = todo /\ drv' = Flagged(drv, Descriptor.q)
      BY <2>1, <2>2, <2>3, StartCallFacts
    <3>2. drv'.device = drv.device
      BY <3>1 DEF Flagged, Shape
    <3>3. Chosen' /\ Descriptor' = Descriptor
      BY <1>0, <1>4, <3>2 DEF Chosen, Descriptor
    <3> QED
      BY <1>2, <1>4, <3>1, <3>3
  <2>4. CASE Passed
    <3>1. Head(todo).op = "check"
      BY <2>4 DEF Passed, Check
    <3> QED
      BY <2>1, <2>2, <3>1
  <2>5. CASE Answered /\ GoesOn
    <3>1. main' # "died"
      BY <1>0
    <3>2. drv'.device = drv.device /\ todo' = <<>>
      BY <2>1, <2>2, <2>5, <3>1, OtherAnswers
    <3>3. got.ack /\ call.phase = "done" /\ CallOf(Head(todo), drv, call, got)
      <4>1. Checked(Descriptor.q)
        BY <2>2 DEF Checked
      <4>2. ~Died
        BY <3>1 DEF Died
      <4> QED
        BY <2>1, <2>2, <2>5, <4>1, <4>2, AnsweredFacts
    <3>4. Says(ice, refused, Descriptor.q, got.ack, got.bytes)
      BY <2>1, <2>2, <3>3, AnswerSays
    <3>5. ice.device = ByName(drv.device).name
      BY <2>2, <3>3, <3>4 DEF Says
    <3>6. Chosen' /\ ice'.device = drv'.device
      BY <1>0, <1>4, <3>2, <3>5 DEF Chosen
    <3> QED
      BY <1>2, <3>2, <3>6
  <2> QED
    BY <2>3, <2>4, <2>5
<1> QED
  BY <1>0, <1>3, <1>4 DEF DeviceInv

LEMMA DeviceNext ==
  /\ Shape /\ LineInv /\ BoxInv /\ TodoInv /\ CallInv /\ AnswerInv /\ LateInv /\ DeviceInv
  /\ [Next]_vars
  => DeviceInv'
<1> SUFFICES ASSUME Shape, LineInv, BoxInv, TodoInv, CallInv, AnswerInv, LateInv, DeviceInv, [Next]_vars
             PROVE  DeviceInv'
  OBVIOUS
<1>1. ASSUME main' \in {"options", "usage", "connect", "died"}
      PROVE  DeviceInv'
  BY <1>1, DeviceFacts DEF DeviceInv
<1>2. ASSUME UNCHANGED <<main, opts>>, ice'.id = ice.id, SetUp => ice'.device = ice.device,
             main = "init" /\ todo = <<>> => ice'.device = ice.device,
             drv'.device = drv.device, todo' = todo \/ (main # "init" /\ (main \in Early => Fixed(todo')))
      PROVE  DeviceInv'
  <2>1. SetUp' <=> SetUp
    BY <1>2 DEF SetUp
  <2>2. (Chosen' <=> Chosen) /\ Descriptor' = Descriptor
    BY <1>2 DEF Chosen, Descriptor
  <2> QED
    BY <1>2, <2>1, <2>2, DeviceFacts DEF DeviceInv
<1>3. CASE GetOption \/ EndOfOptions
  <2>1. main' \in {"options", "usage", "connect"}
    BY <1>3 DEF GetOption, EndOfOptions, Quit
  <2> QED
    BY <1>1, <2>1
<1>4. CASE ConfigureMkII
  <2> DEFINE row == Row(opts, ice.id)
             d == [drv EXCEPT !.device = row.name, !.is_xmega = IF opts.text["P"] # "" THEN row.is_xmega ELSE drv.is_xmega]
  <2>1. main' = "died" \/ (Known(row) /\ drv' = d /\ main' = "configured")
    BY <1>4 DEF ConfigureMkII, Quit
  <2>2. d.device = row.name
    BY DEF Shape
  <2>3. Known(row) => ByName(row.name) = row
    BY RowChosen
  <2> HIDE DEF d, row
  <2>4. CASE Known(row) /\ drv' = d /\ main' = "configured"
    <3>1. Known(ByName(drv'.device))
      BY <2>2, <2>3, <2>4
    <3> QED
      BY <2>4, <3>1, DeviceFacts DEF DeviceInv
  <2> QED
    BY <1>1, <2>1, <2>4
<1>5. CASE Connect
  <2>1. main' = "died" \/ (main' = "init" /\ todo' = Calls(opts, "init"))
    BY <1>5 DEF Connect, Quit
  <2>2. Calls(opts, "init") = initJtagBox(opts)
    BY DEF Calls
  <2> QED
    BY <1>1, <2>1, <2>2, InitAsks, DeviceFacts DEF DeviceInv
<1>6. CASE NextStep
  <2>0. main \in StepSet /\ drv'.device = drv.device /\ UNCHANGED <<opts, ice>> /\ todo = <<>>
    BY <1>6 DEF NextStep, Shape, StepSet, linkVars
  <2>1. \/ main' \in {"ended", "session"}
        \/ main' \in StepSet /\ todo' = Calls(opts, main')
    <3>1. "ended" \notin StepSet /\ "session" \notin StepSet
      BY StepFacts
    <3> QED
      BY <1>6, <2>0, <3>1, StepFacts, Zenon DEF NextStep
  <2>2. Chosen /\ ice.device = drv.device
    <3>1. ~Asks(todo) /\ <<Descriptor>> # <<>>
      BY <2>0 DEF Asks
    <3>2. main # "init" => SetUp
      BY <2>0 DEF SetUp
    <3> QED
      BY <2>0, <3>1, <3>2 DEF DeviceInv
  <2>3. Chosen' /\ ice'.device = drv'.device
    BY <2>0, <2>2 DEF Chosen
  <2>4. main' = "init" => Asks(todo')
    <3>1. Calls(opts, "init") = initJtagBox(opts)
      BY DEF Calls
    <3> QED
      BY <2>1, <3>1, InitAsks
  <2>5. main' \in Early => Fixed(todo')
    <3>1. main' \in Early => main' \notin {"ended", "session"}
      BY DEF Early
    <3> QED
      BY <2>1, <3>1, FixedCalls
  <2>6. main' # "configured"
    BY <2>1, StepFacts
  <2> QED
    BY <2>3, <2>4, <2>5, <2>6 DEF DeviceInv
<1>7. CASE GdbAccess
  <2>1. UNCHANGED <<main, opts, ice, drv>> /\ main = "session"
    BY <1>7 DEF GdbAccess, Ready, linkVars
  <2>2. main # "init" /\ main \notin Early
    BY <2>1 DEF Early
  <2> QED
    BY <1>2, <2>1, <2>2
<1>8. CASE StopsShort
  BY <1>1, <1>8 DEF StopsShort
<1>9. CASE Calling /\ (StartCall \/ Passed \/ (Answered /\ GoesOn))
  <2>0. UNCHANGED <<opts, main, ice>> /\ todo # <<>> /\ main \in StepSet \cup {"session"}
    BY <1>9 DEF Calling
  <2>1. CASE main = "init"
    BY <1>9, <2>1, DeviceInit
  <2>2. CASE main # "init"
    <3>0. main \in Early \cup LateSteps
      BY <2>0, <2>2 DEF StepSet, Steps, Early, LateSteps
    <3>1. FixedItem(Head(todo)) /\ (main \in Early => Fixed(Tail(todo)))
      <4>1. CASE main \in Early
        BY <2>0, <4>1, FixedTail DEF DeviceInv
      <4>2. CASE main \in LateSteps
        <5>1. LateItem(main, drv.device, Head(todo))
          BY <2>0, <4>2, LateTail DEF LateInv
        <5>2. FixedItem(Head(todo))
          BY <5>1 DEF LateItem, FixedItem, LateCommands
        <5>3. main \notin Early
          BY <4>2 DEF Early, LateSteps
        <5> QED
          BY <5>2, <5>3
      <4> QED
        BY <3>0, <4>1, <4>2
    <3>2. ASSUME drv'.device = drv.device, todo' = todo \/ (main \in Early => Fixed(todo'))
          PROVE  DeviceInv'
      BY <1>2, <2>0, <2>2, <3>2
    <3>3. CASE StartCall
      <4>1. \A q : Flagged(drv, q).device = drv.device
        BY DEF Flagged, Shape
      <4>2. CASE todo' = todo /\ (drv' = drv \/ \E q : drv' = Flagged(drv, q))
        BY <3>2, <4>1, <4>2
      <4>3. ASSUME drv' = drv, NEW q, NEW r, q.cmd = "W", r.cmd = "h", todo' = <<Do(q), Do(r)>> \o Tail(todo)
            PROVE  DeviceInv'
        <5> DEFINE x == <<Do(q)>>
                   y == <<Do(r)>>
        <5>1. <<Do(q), Do(r)>> = x \o y
          BY TwoCalls
        <5>2. Fixed(x) /\ Fixed(y)
          BY <4>3, FixedSingle
        <5> HIDE DEF x, y
        <5>3. main \in Early => Fixed(x \o y \o Tail(todo))
          BY <3>1, <5>2, FixedConcat
        <5> QED
          BY <3>2, <4>3, <5>1, <5>3
      <4> QED
        BY <3>3, <4>2, <4>3, StartCallFacts
    <3>4. CASE Passed
      BY <3>1, <3>2, <3>4 DEF Passed
    <3>5. CASE Answered /\ GoesOn
      <4>1. main' # "died"
        BY <2>0, StepFacts
      <4>2. Head(todo).op = "sync" \/ Head(todo).then # "device"
        <5>1. Item(main, Head(todo)) /\ CallOf(Head(todo), drv, call, got)
          BY <3>5, AnsweredFacts
        <5>2. Head(todo).op = "read" => Head(todo).then # "device"
          BY <5>1 DEF Item, GdbItem, StepItem, jtagRead
        <5> QED
          BY <3>1, <5>1, <5>2 DEF FixedItem, CallOf
      <4>3. /\ drv'.device = drv.device
            /\ \/ todo' = Tail(todo)
               \/ \E m, addr, bytes : todo' = <<jtagWrite(m, addr, bytes)>> \o Tail(todo)
        BY <3>5, <4>1, <4>2, OtherAnswers
      <4>4. main \in Early => Fixed(todo')
        BY <3>1, <4>3, FixedSingle, FixedConcat
      <4> QED
        BY <3>2, <4>3, <4>4
    <3> QED
      BY <1>9, <3>3, <3>4, <3>5
  <2> QED
    BY <2>1, <2>2
<1>10. CASE Box
  <2>0. UNCHANGED <<main, opts, drv, todo>> /\ ~Over
    BY <1>10 DEF Box
  <2>1. InCall /\ Moves(Sent, ice, ice')
    BY <1>10, BoxStep, KnownRequest DEF Box
  <2>2. ice'.id = ice.id
    BY <2>1 DEF Moves
  <2>3. ASSUME ice'.device # ice.device
        PROVE  todo # <<>> /\ Head(todo).op = "cmd" /\ Head(todo).q.cmd = "descriptor"
    <3>1. Sent.cmd = "descriptor"
      BY <2>1, <2>3 DEF Moves
    <3> QED
      BY <2>1, <3>1, SentIs
  <2>4. SetUp => ice'.device = ice.device
    <3> SUFFICES ASSUME SetUp, ice'.device # ice.device PROVE FALSE
      OBVIOUS
    <3>1. main \in Early \cup LateSteps
      BY <2>0, DeviceFacts DEF Over
    <3>2. ~FixedItem(Head(todo))
      BY <2>3 DEF FixedItem
    <3>3. CASE main \in Early
      BY <2>3, <3>2, <3>3, FixedTail DEF DeviceInv
    <3>4. CASE main \in LateSteps
      <4>1. LateItem(main, drv.device, Head(todo))
        BY <2>3, <3>4, LateTail DEF LateInv
      <4> QED
        BY <3>2, <4>1 DEF LateItem, FixedItem, LateCommands
    <3> QED
      BY <3>1, <3>3, <3>4
  <2> QED
    BY <1>2, <2>0, <2>2, <2>3, <2>4
<1>11. CASE Still
  BY <1>2, <1>11 DEF Still
<1> QED
  BY <1>3, <1>4, <1>5, <1>6, <1>7, <1>8, <1>9, <1>10, <1>11, StepKinds

-----------------------------------------------------------------------------
(* What is left in the target: two commands in front of others.            *)

LEMMA TailEvery ==
  ASSUME NEW s, IsSeq(s), s # <<>>
  PROVE  /\ Head(s) = s[1] /\ 1 \in DOMAIN s
         /\ \A i \in DOMAIN Tail(s) : i + 1 \in DOMAIN s /\ Tail(s)[i] = s[i + 1] /\ i \in Nat /\ i >= 1
<1>1. /\ Len(s) \in Nat /\ Len(s) >= 1 /\ Head(s) = s[1] /\ Len(Tail(s)) = Len(s) - 1 /\ IsSeq(Tail(s))
      /\ \A i \in 1 .. Len(s) - 1 : Tail(s)[i] = s[i + 1]
  BY SeqFacts, TailFacts
<1>2. DOMAIN s = 1 .. Len(s) /\ DOMAIN Tail(s) = 1 .. Len(s) - 1
  BY <1>1, SeqFacts
<1> QED
  BY <1>1, <1>2

\* Two calls in front of others.
LEMMA PairFacts ==
  ASSUME NEW a, NEW b, NEW s, IsSeq(s), NEW u, u = <<a, b>> \o s
  PROVE  /\ IsSeq(u) /\ u # <<>> /\ Head(u) = a /\ u[1] = a /\ u[2] = b /\ Len(u) >= 2
         /\ \A i \in DOMAIN u : i = 1 \/ i = 2 \/ (i - 2 \in DOMAIN s /\ u[i] = s[i - 2])
         /\ Tail(u) = <<b>> \o s
<1> DEFINE p == <<a, b>>
           l == Len(s)
<1>1. p \in Seq({a, b}) /\ Len(p) = 2 /\ p[1] = a /\ p[2] = b
  OBVIOUS
<1>2. IsSeq(p)
  BY <1>1, SeqIsSeq
<1>3. Tail(u) = <<b>> \o s /\ Head(u) = a
  <2>1. s \in Seq({s[i] : i \in DOMAIN s})
    BY DEF IsSeq
  <2> DEFINE S == {s[i] : i \in DOMAIN s} \cup {a, b}
  <2>2. s \in Seq(S) /\ <<a>> \in Seq(S) /\ <<b>> \in Seq(S)
    <3>1. {s[i] : i \in DOMAIN s} \subseteq S /\ a \in S /\ b \in S
      OBVIOUS
    <3> HIDE DEF S
    <3> QED
      BY <2>1, <3>1, SeqMonotonic
  <2> HIDE DEF S
  <2>3. <<a, b>> \o s = <<a>> \o (<<b>> \o s)
    <3>1. <<a, b>> = <<a>> \o <<b>>
      BY TwoCalls
    <3> QED
      BY <2>2, <3>1, ConcatAssociative
  <2>4. <<b>> \o s \in Seq(S)
    BY <2>2, ConcatProperties
  <2>5. Tail(<<a>> \o (<<b>> \o s)) = <<b>> \o s /\ Head(<<a>> \o (<<b>> \o s)) = a
    BY <2>2, <2>4
  <2> QED
    BY <2>3, <2>5
<1>4. /\ IsSeq(u) /\ Len(u) = 2 + l /\ l \in Nat /\ DOMAIN s = 1 .. l /\ DOMAIN u = 1 .. 2 + l
      /\ \A i \in 1 .. 2 : u[i] = p[i]
      /\ \A i \in 1 .. l : u[2 + i] = s[i]
  <2> HIDE DEF p
  <2>1. IsSeq(p \o s) /\ Len(p \o s) = 2 + l
        /\ (\A i \in 1 .. 2 : (p \o s)[i] = p[i]) /\ (\A i \in 1 .. l : (p \o s)[2 + i] = s[i])
    <3>1. Len(p) = 2
      BY <1>1
    <3>2. /\ IsSeq(p \o s) /\ Len(p \o s) = Len(p) + Len(s)
          /\ (\A i \in 1 .. Len(p) : (p \o s)[i] = p[i]) /\ (\A i \in 1 .. Len(s) : (p \o s)[Len(p) + i] = s[i])
      BY <1>2, ConcatFacts
    <3> QED
      BY <3>1, <3>2
  <2>2. u = p \o s
    BY DEF p
  <2> QED
    BY <2>1, <2>2, SeqFacts
<1>5. u # <<>>
  <2>1. u = <<>> => Len(u) = 0
    BY <1>4, SeqFacts
  <2> HIDE DEF l
  <2> QED
    BY <1>4, <2>1
<1>6. u[1] = a /\ u[2] = b /\ Len(u) >= 2
  BY <1>1, <1>4
<1> HIDE DEF l, p
<1>7. \A i \in DOMAIN u : i = 1 \/ i = 2 \/ (i - 2 \in DOMAIN s /\ u[i] = s[i - 2])
  <2> SUFFICES ASSUME NEW i \in 1 .. 2 + l, i # 1, i # 2 PROVE i - 2 \in DOMAIN s /\ u[i] = s[i - 2]
    BY <1>4
  <2>1. i - 2 \in 1 .. l /\ 2 + (i - 2) = i
    BY <1>4
  <2> QED
    BY <1>4, <2>1
<1> QED
  BY <1>2, <1>3, <1>4, <1>5, <1>6, <1>7

-----------------------------------------------------------------------------
(* The pairs of a write.                                                   *)

LEMMA FilledTail ==
  ASSUME NEW s, IsSeq(s), s # <<>>, Filled(s)
  PROVE  /\ Filled(Tail(s))
         /\ ~IsWhere(Head(s)) => \A i \in DOMAIN Tail(s) : ~IsWhat(Tail(s)[i])
<1>1. /\ Head(s) = s[1] /\ 1 \in DOMAIN s
      /\ \A i \in DOMAIN Tail(s) : i + 1 \in DOMAIN s /\ Tail(s)[i] = s[i + 1] /\ i \in Nat /\ i >= 1
  BY TailEvery
<1>2. ASSUME NEW i \in DOMAIN Tail(s), IsWhat(Tail(s)[i])
      PROVE  i = 1 /\ IsWhere(Head(s))
  BY <1>1, <1>2 DEF Filled
<1> QED
  BY <1>2 DEF Filled

LEMMA FilledPair ==
  ASSUME NEW q, NEW r, q.cmd = "W", r.cmd = "h", NEW s, IsSeq(s), \A i \in DOMAIN s : ~IsWhat(s[i])
  PROVE  Filled(<<Do(q), Do(r)>> \o s) /\ ~IsWhat(Head(<<Do(q), Do(r)>> \o s))
<1>1. IsWhere(Do(q)) /\ ~IsWhat(Do(q))
  BY DEF Do, IsWhere, IsWhat
<1>2. PICK a, b, u : a = Do(q) /\ b = Do(r) /\ u = <<a, b>> \o s
  OBVIOUS
<1>3. /\ u[1] = a /\ Head(u) = a
      /\ \A i \in DOMAIN u : i = 1 \/ i = 2 \/ (i - 2 \in DOMAIN s /\ u[i] = s[i - 2])
  BY <1>2, PairFacts
<1>4. Filled(u) /\ ~IsWhat(Head(u))
  BY <1>1, <1>2, <1>3 DEF Filled
<1> QED
  BY <1>2, <1>4

\* From the download on a write fills what its first part has said, and it is
\* for the memory its step writes.
AimInv ==
  main \in LateSteps =>
    /\ Filled(todo)
    /\ todo # <<>> /\ IsWhat(Head(todo)) /\ ice.pending # NoWrite => Aims(main, Memory(ice.pending.space))

LEMMA InitAim == Init => AimInv
<1> SUFFICES ASSUME Init PROVE AimInv
  OBVIOUS
<1>1. main = "options"
  BY Zenon DEF Init
<1> QED
  BY <1>1, LateFacts DEF AimInv

LEMMA AimNext ==
  /\ Shape /\ LineInv /\ BoxInv /\ TodoInv /\ CallInv /\ PendInv /\ LateInv /\ AimInv /\ [Next]_vars
  => AimInv'
<1> SUFFICES ASSUME Shape, LineInv, BoxInv, TodoInv, CallInv, PendInv, LateInv, AimInv, [Next]_vars, main' \in LateSteps
             PROVE  /\ Filled(todo')
                    /\ todo' # <<>> /\ IsWhat(Head(todo')) /\ ice'.pending # NoWrite
                         => Aims(main', Memory(ice'.pending.space))
  BY DEF AimInv
<1>0. IsSeq(todo)
  BY DEF TodoInv, TodoOK
<1>1. ASSUME IsSeq(todo'), \A i \in DOMAIN todo' : ~IsWhat(todo'[i])
      PROVE  Filled(todo') /\ (todo' # <<>> => ~IsWhat(Head(todo')))
  BY <1>1, FirstCall DEF Filled
<1>2. CASE GetOption \/ EndOfOptions \/ ConfigureMkII \/ Connect \/ StopsShort
  <2>1. main' \in {"options", "usage", "connect", "configured", "died", "init"}
    <3>1. CASE GetOption \/ EndOfOptions \/ ConfigureMkII \/ Connect
      <4>1. main = "options" \/ main = "connect"
        BY <3>1, Zenon DEF GetOption, EndOfOptions, ConfigureMkII, Connect
      <4> QED
        BY <3>1, <4>1 DEF GetOption, EndOfOptions, ConfigureMkII, Connect, Quit
    <3>2. CASE StopsShort
      BY <3>2 DEF StopsShort
    <3> QED
      BY <1>2, <3>1, <3>2
  <2> QED
    BY <2>1, LateFacts
<1>3. CASE NextStep
  <2>1. todo' = <<>> \/ (main' \in StepSet /\ todo' = Calls(opts, main'))
    <3>1. main \in StepSet
      BY <1>3 DEF NextStep, StepSet
    <3>2. main' \in {"ended", "session"} \/ main' \in StepSet
      BY <1>3, <3>1, StepFacts, Zenon DEF NextStep
    <3> QED
      BY <1>3, <3>2, Zenon DEF NextStep
  <2>2. ASSUME main' \in StepSet PROVE Block(Calls(opts, main'))
    BY <2>2, CallsFacts
  <2>3. Block(<<>>)
    BY NoCalls DEF FullBlock, RunBlock
  <2>4. Block(todo')
    BY <2>1, <2>2, <2>3
  <2> QED
    BY <1>1, <2>4 DEF Block, CallItem
<1>4. CASE Calling /\ StartCall
  <2>1. /\ todo # <<>> /\ main' = main /\ ice' = ice
    BY <1>4 DEF Calling
  <2>2. CASE todo' = todo
    BY <2>1, <2>2 DEF AimInv
  <2>3. ASSUME Head(todo).op = "write", NEW q, NEW r, q.cmd = "W", r.cmd = "h", todo' = <<Do(q), Do(r)>> \o Tail(todo)
        PROVE  Filled(todo') /\ ~IsWhat(Head(todo'))
    <3>1. ~IsWhere(Head(todo)) /\ Filled(todo)
      BY <2>1, <2>3 DEF IsWhere, AimInv
    <3>2. IsSeq(Tail(todo)) /\ \A i \in DOMAIN Tail(todo) : ~IsWhat(Tail(todo)[i])
      BY <1>0, <2>1, <3>1, FilledTail, TailFacts
    <3> QED
      BY <2>3, <3>2, FilledPair
  <2> QED
    BY <1>4, <2>2, <2>3, StartCallFacts
<1>5. ASSUME todo # <<>>, main \in LateSteps, main' = main, todo' = Tail(todo), ice' = ice,
             IsWhere(Head(todo)) => ice.pending \in {Head(todo).q, NoWrite}
      PROVE  /\ Filled(todo')
             /\ todo' # <<>> /\ IsWhat(Head(todo')) /\ ice'.pending # NoWrite
                  => Aims(main', Memory(ice'.pending.space))
  <2>1. Filled(todo') /\ (~IsWhere(Head(todo)) => \A i \in DOMAIN todo' : ~IsWhat(todo'[i])) /\ IsSeq(todo')
    BY <1>0, <1>5, FilledTail, TailFacts DEF AimInv
  <2>2. ASSUME IsWhere(Head(todo)) PROVE Aims(main, Memory(Head(todo).q.space))
    <3>1. LateItem(main, drv.device, Head(todo))
      BY <1>5, LateTail DEF LateInv
    <3> QED
      BY <2>2, <3>1 DEF LateItem, IsWhere
  <2>3. CASE IsWhere(Head(todo))
    BY <1>5, <2>1, <2>2, <2>3
  <2>4. CASE ~IsWhere(Head(todo))
    BY <1>1, <2>1, <2>4
  <2> QED
    BY <2>3, <2>4
<1>6. CASE Calling /\ Passed
  <2>1. ~IsWhere(Head(todo)) /\ todo' = Tail(todo) /\ todo # <<>> /\ main' = main /\ ice' = ice
    BY <1>6 DEF Calling, Passed, Check, IsWhere
  <2> QED
    BY <1>5, <2>1
<1>7. CASE Calling /\ Answered /\ GoesOn
  <2>1. main' = main /\ todo # <<>> /\ ice' = ice
    BY <1>7 DEF Calling
  <2>2. LateGoes(Head(todo))
    BY <1>7, <2>1, LateAnswered, LateFacts
  <2>3. ASSUME IsWhere(Head(todo)) PROVE ice.pending \in {Head(todo).q, NoWrite}
    <3>1. call.phase = "done" /\ CallOf(Head(todo), drv, call, got)
      BY <1>7, AnsweredFacts
    <3>2. Head(todo).op = "cmd" /\ Head(todo).q.cmd = "W"
      BY <2>3 DEF IsWhere
    <3>3. got.want = Head(todo).q
      BY <3>1, <3>2 DEF CallOf
    <3> QED
      BY <3>1, <3>2, <3>3 DEF PendInv
  <2> QED
    BY <1>5, <2>1, <2>2, <2>3 DEF LateGoes
<1>8. CASE Box
  <2>1. UNCHANGED <<main, todo>> /\ InCall /\ Leaves(Sent, ice, ice')
    BY <1>8, BoxStep, BoxLeaves, KnownRequest DEF Box
  <2>2. ASSUME todo # <<>>, IsWhat(Head(todo)) PROVE ice'.pending \in {ice.pending, NoWrite}
    <3>1. Sent.cmd # "W"
      <4> SUFFICES ASSUME Sent.cmd = "W" PROVE FALSE
        OBVIOUS
      <4>1. Sent = Head(todo).q
        BY <2>1, SentIs
      <4> QED
        BY <2>2, <4>1 DEF IsWhat
    <3> QED
      BY <2>1, <3>1 DEF Leaves
  <2> QED
    BY <2>1, <2>2 DEF AimInv
<1>9. CASE GdbAccess
  <2>1. \/ todo' = <<>>
        \/ \E t : todo' = <<t>> /\ ~IsWhat(t)
    <3>1. \/ todo' = <<>> \/ todo' = <<Do(Simple("1"))>>
          \/ \E r \in GdbReads : todo' = <<jtagRead(r.m, r.addr, r.n, "gdb")>>
          \/ \E w \in GdbWrites : todo' = <<jtagWrite(w.m, w.addr, w.bytes)>>
      BY <1>9, Zenon DEF GdbAccess
    <3>2. ~IsWhat(Do(Simple("1")))
      BY DEF IsWhat, Do, Simple
    <3>3. \A m, a, n : ~IsWhat(jtagRead(m, a, n, "gdb")) /\ ~IsWhat(jtagWrite(m, a, n))
      BY DEF IsWhat, jtagRead, jtagWrite
    <3> QED
      BY <3>1, <3>2, <3>3
  <2>2. IsSeq(todo') /\ \A i \in DOMAIN todo' : ~IsWhat(todo'[i])
    BY <2>1, SingleFacts, EmptyFacts
  <2> QED
    BY <1>1, <2>2
<1>10. CASE Still
  BY <1>10 DEF Still, AimInv
<1> QED
  BY <1>2, <1>3, <1>4, <1>6, <1>7, <1>8, <1>9, <1>10, StepKinds

\* What the emulator keeps from the download on.
LEMMA LateBox ==
  ASSUME LineInv, BoxInv, TodoInv, CallInv, PartsInv, LateInv, AimInv, Box, main \in LateSteps
  PROVE  /\ \A m \in {"fuse", "lock"} :
              ice'.mem[m] = ice.mem[m] \/ (m = "lock" /\ main = "writeLockBits") \/ (main = "session" /\ ice.progmode)
         /\ \A x \in ResetItems : ice'.params[x] = ice.params[x]
         /\ refused \subseteq refused'
<1>1. InCall /\ Leaves(Sent, ice, ice') /\ refused \subseteq refused' /\ UNCHANGED <<main, todo, drv>>
  BY BoxStep, BoxLeaves, KnownRequest DEF Box
<1>2. ASSUME Sent.cmd \in {"h", "a5", "B", "descriptor"}
      PROVE  /\ todo # <<>> /\ Head(todo).op = "cmd" /\ Sent = Head(todo).q
             /\ LateItem(main, drv.device, Head(todo))
  <2>1. todo # <<>> /\ Head(todo).op = "cmd" /\ Sent = Head(todo).q
    BY <1>1, <1>2, SentIs
  <2> QED
    BY <2>1, LateTail DEF LateInv
<1>3. ASSUME Sent.cmd \in {"a5", "descriptor"} PROVE FALSE
  BY <1>2, <1>3 DEF LateItem, LateCommands
<1>4. ASSUME NEW m \in {"fuse", "lock"}, ice'.mem[m] # ice.mem[m]
      PROVE  (m = "lock" /\ main = "writeLockBits") \/ (main = "session" /\ ice.progmode)
  <2>1. m \in DOMAIN ice.mem
    BY DEF PartsInv, Memories
  <2>2. Sent.cmd = "h"
    BY <1>1, <1>3, <1>4 DEF Leaves
  <2>3. ice.pending # NoWrite /\ m = Memory(ice.pending.space) /\ Open(ice, ice.pending.space)
    BY <1>1, <1>4, <2>1, <2>2 DEF Leaves
  <2>4. todo # <<>> /\ IsWhat(Head(todo))
    BY <1>2, <2>2 DEF IsWhat
  <2>5. Aims(main, m)
    BY <2>3, <2>4 DEF AimInv
  <2>6. main = "session" => ice.progmode
    BY <1>4, <2>3 DEF Memory, Open
  <2> QED
    BY <1>4, <2>5, <2>6 DEF Aims, Images, LateSteps
<1>5. ASSUME NEW x \in ResetItems PROVE ice'.params[x] = ice.params[x]
  <2>1. x \in DOMAIN ice.params
    BY DEF PartsInv
  <2>2. CASE Sent.cmd = "B"
    <3>1. Sent.item \in SizeItems
      BY <1>2, <2>2 DEF LateItem, LateCommands
    <3>2. x # Sent.item
      BY <1>5, <3>1 DEF ResetItems, SizeItems
    <3> QED
      BY <1>1, <2>1, <2>2, <3>2 DEF Leaves
  <2>3. CASE Sent.cmd # "B"
    BY <1>1, <1>3, <2>3 DEF Leaves
  <2> QED
    BY <2>2, <2>3
<1> QED
  BY <1>1, <1>4, <1>5

-----------------------------------------------------------------------------
(* The calls of the steps that write fuses and lock bits.                  *)

Bits(b, m, addr, n) == [i \in 1 .. n |-> b.mem[m][addr + i - 1]]

\* What the driver makes of a read of fuses or lock bits.
LEMMA BitsRead ==
  ASSUME LineInv, AnswerInv, CallInv, todo # <<>>, call.phase = "done", CallOf(Head(todo), drv, call, got),
         NEW m \in {"fuse", "lock"}, NEW addr \in Nat, NEW n \in Nat, NEW then, Head(todo) = jtagRead(m, addr, n, then)
  PROVE  ReadBytes(Head(todo)) \in {Null, Bits(ice, m, addr, n)}
<1> DEFINE t == Head(todo)
<1>1. t.op = "read" /\ t.m = m /\ t.addr = addr /\ t.n = n
  BY DEF jtagRead
<1>2. /\ Says(ice, refused, call.q, got.ack, got.bytes)
      /\ call.q = ReadRequest(m, addr, n, drv.programmingEnabled)
  BY <1>1, AnswerSays
<1>3. call.q.cmd = "R" /\ call.q.space = m /\ call.q.addr = addr /\ call.q.n = n
  BY <1>2 DEF ReadRequest, Space, Locations
<1>4. got.ack => got.bytes = Contents(ice, m, addr, n)
  BY <1>2, <1>3 DEF Says
<1>5. Contents(ice, m, addr, n) = Bits(ice, m, addr, n)
  <2>1. Memory(m) = m /\ m # "flash"
    BY DEF Memory
  <2>2. Cells(m, addr, n) = [i \in 1 .. n |-> addr + i - 1]
    BY DEF Cells
  <2> QED
    BY <2>1, <2>2 DEF Contents, Bits
<1>6. ReadBytes(t) = IF got.ack THEN got.bytes ELSE Null
  BY <1>1 DEF ReadBytes, ReadResult
<1> QED
  BY <1>4, <1>5, <1>6

\* The answers of these steps.
LEMMA BitsAnswered ==
  ASSUME Shape, TodoInv, CallInv, Answered, main' # "died", Head(todo).op \in {"cmd", "read"}
  PROVE  LET t == Head(todo)
         IN  /\ t.op = "cmd" /\ Checked(t.q) => got.ack
             /\ t.then = "next" => drv' = drv /\ todo' = Tail(todo)
             /\ t.then = "keep" => drv' = [drv EXCEPT !.kept = ReadBytes(t)] /\ todo' = Tail(todo)
             /\ t.then = "unlock" =>
                  /\ drv' = drv /\ ReadBytes(t) # Null
                  /\ \/ ReadBytes(t) = <<1>> /\ todo' = Tail(todo)
                     \/ todo' = <<jtagWrite("lock", 0, <<1>>)>> \o Tail(todo)
             /\ t.then = "ocden" =>
                  /\ drv' = drv /\ ReadBytes(t) # Null
                  /\ \/ ReadBytes(t)[2] = 0 /\ todo' = Tail(todo)
                     \/ todo' = <<jtagWrite("fuse", 1, <<0>>)>> \o Tail(todo)
<1> DEFINE t == Head(todo)
<1>1. ~Quit("died")
  BY DEF Quit
<1>2. Then(t) /\ (t.op = "cmd" /\ Checked(t.q) => got.ack)
  BY <1>1 DEF Answered
<1> HIDE DEF t
<1>3. <<>> \o Tail(todo) = Tail(todo)
  <2>1. IsSeq(<<>>) /\ <<>> \o Tail(todo) = Tail(todo)
    BY DEF IsSeq
  <2> QED
    BY <2>1
<1>4. ASSUME NEW d, NEW more, Proceed(d, more)
      PROVE  drv' = d /\ todo' = more \o Tail(todo)
  BY <1>4 DEF Proceed
<1>5. ASSUME t.then = "next" PROVE drv' = drv /\ todo' = Tail(todo)
  <2>1. Proceed(drv, <<>>)
    BY <1>2, <1>5 DEF Then
  <2> QED
    BY <1>3, <1>4, <2>1
<1>6. ASSUME t.then = "keep" PROVE drv' = [drv EXCEPT !.kept = ReadBytes(t)] /\ todo' = Tail(todo)
  <2>1. Proceed([drv EXCEPT !.kept = ReadBytes(t)], <<>>)
    BY <1>2, <1>6, Zenon DEF Then
  <2> QED
    BY <1>3, <1>4, <2>1
<1>7. ASSUME t.then = "unlock"
      PROVE  /\ drv' = drv /\ ReadBytes(t) # Null
             /\ \/ ReadBytes(t) = <<1>> /\ todo' = Tail(todo)
                \/ todo' = <<jtagWrite("lock", 0, <<1>>)>> \o Tail(todo)
  <2>1. /\ ReadBytes(t) # Null
        /\ Proceed(drv, IF ReadBytes(t) = <<1>> THEN <<>> ELSE <<jtagWrite("lock", 0, <<1>>)>>)
    BY <1>1, <1>2, <1>7, Zenon DEF Then
  <2> DEFINE w == <<jtagWrite("lock", 0, <<1>>)>>
             b == ReadBytes(t)
  <2> HIDE DEF w, b
  <2>2. Proceed(drv, IF b = <<1>> THEN <<>> ELSE w)
    BY <2>1 DEF b, w
  <2>3. drv' = drv /\ ((b = <<1>> /\ todo' = Tail(todo)) \/ todo' = w \o Tail(todo))
    BY <1>3, <1>4, <2>2
  <2> QED
    BY <2>1, <2>3 DEF b, w
<1>8. ASSUME t.then = "ocden"
      PROVE  /\ drv' = drv /\ ReadBytes(t) # Null
             /\ \/ ReadBytes(t)[2] = 0 /\ todo' = Tail(todo)
                \/ todo' = <<jtagWrite("fuse", 1, <<0>>)>> \o Tail(todo)
  <2>1. /\ ReadBytes(t) # Null
        /\ Proceed(drv, IF ReadBytes(t)[2] = 0 THEN <<>> ELSE <<jtagWrite("fuse", 1, <<0>>)>>)
    BY <1>1, <1>2, <1>8, Zenon DEF Then
  <2> DEFINE w == <<jtagWrite("fuse", 1, <<0>>)>>
             b == ReadBytes(t)
  <2> HIDE DEF w, b
  <2>2. Proceed(drv, IF b[2] = 0 THEN <<>> ELSE w)
    BY <2>1 DEF b, w
  <2>3. drv' = drv /\ ((b[2] = 0 /\ todo' = Tail(todo)) \/ todo' = w \o Tail(todo))
    BY <1>3, <1>4, <2>2
  <2> QED
    BY <2>1, <2>3 DEF b, w
<1> QED
  BY <1>2, <1>5, <1>6, <1>7, <1>8 DEF t

-----------------------------------------------------------------------------
(* The second part of a write: what its answer says.                       *)

\* An answer that ends the call with a result is there.
HasAnswer ==
  \/ call.phase = "command" /\ toHost # <<>> /\ Head(toHost).k = "ok" /\ Tail(toHost) # <<>>
  \/ call.phase = "body" /\ toHost # <<>>
  \/ call.phase = "done"

LEMMA AnswerThere ==
  ASSUME LineInv, CallInv, Host, call.phase \in OnCommand, HasBody(call.q), HasAnswer'
  PROVE  HasAnswer
<1>0. Record(call)
  BY DEF LineInv
<1>1. ASSUME toHost' = <<>>, call'.phase # "done"
      PROVE  ~HasAnswer'
  BY <1>1 DEF HasAnswer
<1>2. ASSUME NEW q, NEW phase, phase # "done", Again(q, phase)
      PROVE  ~HasAnswer'
  <2>1. toHost' = <<>>
    BY <1>2 DEF Again, Transmit, Fail
  <2>2. call'.phase \in {phase, "failed"}
    BY <1>0, <1>2, AgainFacts
  <2> QED
    BY <1>1, <1>2, <2>1, <2>2
<1>3. ASSUME NEW phase, phase \notin {"command", "body", "done"}, Await(phase)
      PROVE  ~HasAnswer'
  BY <1>0, <1>3, PhaseFacts DEF HasAnswer, Await
<1>4. ASSUME Fail
      PROVE  ~HasAnswer'
  BY <1>0, <1>1, <1>4, FailFacts DEF Fail
<1>5. call.phase \in {"command", "body", "resync", "hush", "hushBody"}
  BY HostActive DEF OnCommand
<1>6. CASE Timeout
  BY <1>2, <1>4, <1>5, <1>6 DEF Timeout
<1>7. CASE FirstOk
  <2>1. CASE call.phase = "command" /\ Await("body") /\ toHost' = Tail(toHost)
    <3>1. call'.phase = "body"
      BY <1>0, <2>1, PhaseFacts DEF Await
    <3> QED
      BY <1>7, <2>1, <3>1 DEF HasAnswer, FirstOk
  <2> QED
    BY <1>2, <1>3, <1>5, <1>7, <2>1 DEF FirstOk
<1>8. CASE FirstInfo
  BY <1>2, <1>5, <1>8 DEF FirstInfo
<1>9. CASE FirstOther
  BY <1>2, <1>5, <1>9 DEF FirstOther
<1>10. CASE Body
  <2>1. CASE call.phase = "body"
    BY <1>10, <2>1 DEF HasAnswer, Body
  <2> QED
    BY <1>2, <1>5, <1>10, <2>1 DEF Body
<1> QED
  BY <1>6, <1>7, <1>8, <1>9, <1>10 DEF Host

LEMMA AnswerComes ==
  ASSUME LineInv, CallInv, [Next]_vars, ~Box, todo # <<>>, IsWhat(Head(todo)), HasAnswer'
  PROVE  HasAnswer
<1>1. CASE Driver
  <2>1. call.phase # "idle" /\ Host
    BY <1>1, HostActive DEF Driver
  <2>2. CallOf(Head(todo), drv, call, got)
    BY <2>1 DEF CallInv
  <2>3. call.phase \in OnCommand /\ HasBody(call.q)
    BY <2>2 DEF CallOf, IsWhat, HasBody
  <2> QED
    BY <2>1, <2>3, AnswerThere
<1>2. CASE StartCall
  <2>1. \E q : Begin(q)
    BY <1>2, StartCallFacts
  <2>2. call'.phase = "command" /\ toHost' = <<>>
    BY <2>1, BeginFacts
  <2> QED
    BY <2>2 DEF HasAnswer
<1>3. CASE StartSync
  <2>1. Attempt(1, 1)
    BY <1>3 DEF StartSync, startJtagLink
  <2>2. call'.phase = "wake"
    BY <2>1, AttemptFacts
  <2> QED
    BY <2>2 DEF HasAnswer
<1>4. CASE Answered \/ Dies
  <2>1. call'.phase = "idle"
    BY <1>4 DEF Answered, Dies, Idle
  <2> QED
    BY <2>1 DEF HasAnswer
<1>5. CASE GetOption \/ EndOfOptions \/ ConfigureMkII \/ Connect \/ NextStep \/ Check
           \/ GdbAccess \/ (\E b \in Breakpoints : Insert(b) \/ Remove(b)) \/ Stays \/ UNCHANGED vars
  <2>1. UNCHANGED linkVars
    BY <1>5 DEF GetOption, EndOfOptions, ConfigureMkII, Connect, NextStep, Check,
                GdbAccess, Insert, Remove, Stays, vars
  <2> QED
    BY <2>1 DEF linkVars, HasAnswer
<1> QED
  BY <1>1, <1>2, <1>3, <1>4, <1>5 DEF Next, Process

-----------------------------------------------------------------------------
(* Where a step is: what is left of its calls, and in front of that what is *)
(* left of a write of fuses or lock bits.                                   *)

Rest(all, k) == SubSeq(all, k + 1, Len(all))

LEMMA RestFacts ==
  ASSUME NEW all, IsSeq(all), NEW k \in 0 .. Len(all)
  PROVE  /\ IsSeq(Rest(all, k)) /\ Rest(all, 0) = all
         /\ k = Len(all) <=> Rest(all, k) = <<>>
         /\ k < Len(all) => Head(Rest(all, k)) = all[k + 1] /\ Tail(Rest(all, k)) = Rest(all, k + 1)
<1> DEFINE S == {all[i] : i \in DOMAIN all}
           n == Len(all)
           r == SubSeq(all, k + 1, n)
<1>1. all \in Seq(S) /\ n \in Nat /\ DOMAIN all = 1 .. n /\ \A i \in 1 .. n : all[i] \in S
  BY SeqFacts DEF IsSeq
<1>2. SubSeq(all, 1, n) = all
  <2> HIDE DEF S
  <2> QED
    BY <1>1, SubSeqFull
<1>3. r \in Seq(S) /\ Len(r) = IF k + 1 <= n THEN n - k ELSE 0
  <2> HIDE DEF S, n
  <2>1. k + 1 \in Int /\ n \in Int /\ (\A i \in k + 1 .. n : all[i] \in S) /\ n - (k + 1) + 1 = n - k
    BY <1>1 DEF n
  <2> QED
    BY <2>1, SubSeqProperties
<1>4. ASSUME k < n
      PROVE  Head(r) = all[k + 1] /\ Tail(r) = SubSeq(all, k + 1 + 1, n)
  <2>1. k + 1 \in 1 .. n /\ n \in k + 1 .. n
    BY <1>1, <1>4
  <2> HIDE DEF S
  <2> QED
    BY <1>1, <2>1, HeadTailOfSubSeq
<1>5. k = n => r = <<>>
  BY <1>1, SubSeqEmpty
<1>6. IsSeq(r) /\ (r = <<>> => Len(r) = 0)
  BY <1>3, SeqIsSeq, SeqFacts
<1>7. r = <<>> => k = n
  <2>1. k \in 0 .. n
    OBVIOUS
  <2> HIDE DEF r, n
  <2> QED
    BY <1>1, <1>3, <1>6, <2>1
<1>8. Rest(all, k) = r /\ Rest(all, k + 1) = SubSeq(all, k + 1 + 1, n) /\ Rest(all, 0) = SubSeq(all, 1, n)
  BY DEF Rest
<1> HIDE DEF r, n
<1>9. (k < n => Head(r) = all[k + 1] /\ Tail(r) = Rest(all, k + 1)) /\ IsSeq(r) /\ (k = n <=> r = <<>>)
  BY <1>4, <1>5, <1>6, <1>7, <1>8
<1> QED
  BY <1>2, <1>8, <1>9 DEF n

\* The bits of a write, and its two commands.
BitsOf(m, addr, bytes) == [m |-> m, addr |-> addr, bytes |-> bytes]
Where(w) == [cmd |-> "W", space |-> w.m, n |-> Len(w.bytes), addr |-> w.addr]
What(w) == [cmd |-> "h", bytes |-> w.bytes]
Written(w) == jtagWrite(w.m, w.addr, w.bytes)

\* What is left of a write; its second part finds the first one, or none.
LastPart(w, more) == more = <<Do(What(w))>>
Busy(w, more, b) ==
  /\ w.m \in {"fuse", "lock"}
  /\ \/ more = <<Written(w)>>
     \/ more = <<Do(Where(w)), Do(What(w))>>
     \/ LastPart(w, more) /\ b.pending \in {Where(w), NoWrite}

\* Its first call, and what follows.
Begins(w, more, b, s, u) ==
  \/ Head(s) = Written(w) /\ more = <<Written(w)>> /\ Tail(s) = u
  \/ Head(s) = Do(Where(w)) /\ more = <<Do(Where(w)), Do(What(w))>> /\ Tail(s) = <<Do(What(w))>> \o u
  \/ Head(s) = Do(What(w)) /\ LastPart(w, more) /\ Tail(s) = u /\ b.pending \in {Where(w), NoWrite}

LEMMA BusyFacts ==
  ASSUME NEW w, NEW more, NEW b, Busy(w, more, b), NEW u, IsSeq(u), NEW s, s = more \o u
  PROVE  s # <<>> /\ Begins(w, more, b, s, u)
<1>1. ASSUME NEW a
      PROVE  <<a>> \o u # <<>> /\ Head(<<a>> \o u) = a /\ Tail(<<a>> \o u) = u
  <2>1. PICK S : S = {u[i] : i \in DOMAIN u} \cup {a}
    OBVIOUS
  <2>2. u \in Seq(S) /\ <<a>> \in Seq(S)
    <3>1. {u[i] : i \in DOMAIN u} \subseteq S /\ a \in S
      BY <2>1
    <3> QED
      BY <3>1, SeqMonotonic DEF IsSeq
  <2>3. Len(<<a>> \o u) = 1 + Len(u) /\ Len(u) \in Nat /\ <<a>> \o u \in Seq(S)
    BY <2>2, ConcatProperties, LenProperties
  <2>4. <<a>> \o u # <<>>
    BY <2>2, <2>3, EmptySeq
  <2> QED
    BY <2>2, <2>3, <2>4
<1>2. ASSUME NEW a, more = <<a>>
      PROVE  s # <<>> /\ Head(s) = a /\ Tail(s) = u
  BY <1>1, <1>2
<1>3. ASSUME more = <<Written(w)>>
      PROVE  s # <<>> /\ Head(s) = Written(w) /\ Tail(s) = u
  BY <1>2, <1>3
<1>4. ASSUME LastPart(w, more)
      PROVE  s # <<>> /\ Head(s) = Do(What(w)) /\ Tail(s) = u
  BY <1>2, <1>4 DEF LastPart
<1>5. ASSUME more = <<Do(Where(w)), Do(What(w))>>
      PROVE  s # <<>> /\ Head(s) = Do(Where(w)) /\ Tail(s) = <<Do(What(w))>> \o u
  <2>1. PICK a, c : a = Do(Where(w)) /\ c = Do(What(w))
    OBVIOUS
  <2>2. s = <<a, c>> \o u
    BY <1>5, <2>1
  <2> QED
    BY <2>1, <2>2, PairFacts
<1> QED
  BY <1>3, <1>4, <1>5 DEF Busy, Begins

\* How it begins.
LEMMA BitsStart ==
  ASSUME StartCall, NEW w, w.m \in {"fuse", "lock"}, Head(todo) = Written(w)
  PROVE  drv' = drv /\ todo' = <<Do(Where(w)), Do(What(w))>> \o Tail(todo)
<1> DEFINE t == Head(todo)
           v == WriteRequests(t.m, t.addr, t.bytes, drv.programmingEnabled)
<1>1. t.op = "write" /\ t.m = w.m /\ t.addr = w.addr /\ t.bytes = w.bytes
  BY DEF Written, jtagWrite
<1>2. v[1] = Where(w) /\ v[2] = What(w)
  BY <1>1 DEF WriteRequests, Where, What, Space, Locations
<1>3. drv' = drv /\ todo' = <<Do(v[1]), Do(v[2])>> \o Tail(todo)
  <2> HIDE DEF v
  <2> QED
    BY <1>1 DEF StartCall, v
<1> QED
  BY <1>2, <1>3

\* How it goes on, and that it ends with an answer.
LEMMA BusyGoes ==
  ASSUME Shape, TodoInv, CallInv, PendInv, Calling, StartCall \/ Passed \/ (Answered /\ GoesOn),
         NEW w, NEW more, Busy(w, more, ice), NEW u, IsSeq(u), todo = more \o u
  PROVE  /\ drv' = drv
         /\ \/ \E left : Busy(w, left, ice') /\ todo' = left \o u /\ (LastPart(w, left) => ~HasAnswer')
            \/ LastPart(w, more) /\ HasAnswer /\ todo' = u
<1>0. \/ Head(todo) = Written(w) /\ more = <<Written(w)>> /\ Tail(todo) = u
      \/ /\ Head(todo) = Do(Where(w)) /\ more = <<Do(Where(w)), Do(What(w))>>
         /\ Tail(todo) = <<Do(What(w))>> \o u
      \/ Head(todo) = Do(What(w)) /\ LastPart(w, more) /\ Tail(todo) = u /\ ice.pending \in {Where(w), NoWrite}
  <2>1. Begins(w, more, ice, todo, u)
    BY BusyFacts
  <2> QED
    BY <2>1, Zenon DEF Begins
<1> DEFINE t == Head(todo)
           a == Do(Where(w))
           c == Do(What(w))
<1>1. /\ todo # <<>> /\ w.m \in {"fuse", "lock"} /\ ice' = ice
      /\ \/ t = Written(w) /\ more = <<Written(w)>> /\ Tail(todo) = u
         \/ t = a /\ more = <<a, c>> /\ Tail(todo) = <<c>> \o u
         \/ t = c /\ LastPart(w, more) /\ Tail(todo) = u /\ ice.pending \in {Where(w), NoWrite}
  <2>1. todo # <<>> /\ ice' = ice
    BY DEF Calling
  <2>2. w.m \in {"fuse", "lock"}
    BY DEF Busy
  <2> QED
    BY <1>0, <2>1, <2>2, Zenon
<1>2. /\ Written(w).op = "write" /\ a.op = "cmd" /\ a.q = Where(w) /\ a.then = "next" /\ Where(w).cmd = "W"
      /\ c.op = "cmd" /\ c.q = What(w) /\ c.then = "next" /\ What(w).cmd = "h"
  BY DEF Written, jtagWrite, Do, Where, What
<1>3. ~LastPart(w, <<a, c>>)
  <2> HIDE DEF a, c
  <2>1. Len(<<a, c>>) = 2 /\ Len(<<c>>) = 1
    OBVIOUS
  <2> QED
    BY <2>1 DEF LastPart, c
<1> HIDE DEF t, a, c
<1>4. CASE StartCall
  <2>1. CASE t = Written(w)
    <3>1. drv' = drv /\ todo' = <<a, c>> \o u
      <4>1. Tail(todo) = u
        BY <1>1, <1>2, <2>1
      <4>2. drv' = drv /\ todo' = <<Do(Where(w)), Do(What(w))>> \o Tail(todo)
        BY <1>1, <1>4, <2>1, BitsStart DEF t
      <4> QED
        BY <4>1, <4>2 DEF a, c
    <3>2. Busy(w, <<a, c>>, ice')
      BY <1>1 DEF Busy, a, c
    <3> QED
      BY <1>3, <3>1, <3>2
  <2>2. CASE t # Written(w)
    <3>1. t.op = "cmd" /\ t.q.cmd \in {"W", "h"}
      BY <1>1, <1>2, <2>2
    <3>2. Begin(t.q) /\ drv' = Flagged(drv, t.q) /\ todo' = todo
      BY <1>4, <3>1, StartCallFacts DEF t
    <3>3. drv' = drv
      BY <3>1, <3>2 DEF Flagged
    <3>4. ~HasAnswer'
      <4>1. call'.phase = "command" /\ toHost' = <<>>
        BY <3>2, BeginFacts
      <4> QED
        BY <4>1 DEF HasAnswer
    <3>5. Busy(w, more, ice') /\ todo' = more \o u
      BY <1>1, <3>2
    <3> QED
      BY <3>3, <3>4, <3>5
  <2> QED
    BY <2>1, <2>2
<1>5. CASE Passed
  <2>1. t.op = "check"
    BY <1>5 DEF Passed, Check, t
  <2> QED
    BY <1>1, <1>2, <2>1
<1>6. CASE Answered /\ GoesOn
  <2>1. call.phase = "done" /\ CallOf(t, drv, call, got) /\ main' # "died"
    BY <1>6, AnsweredFacts, StepFacts DEF Calling, t
  <2>2. t.op = "cmd" /\ t.then = "next"
    BY <1>1, <1>2, <2>1 DEF CallOf
  <2>3. drv' = drv /\ todo' = Tail(todo)
    BY <1>6, <2>1, <2>2, BitsAnswered DEF t
  <2>4. HasAnswer /\ ~HasAnswer'
    <3>1. call' = Idle
      BY <1>6 DEF Answered
    <3> QED
      BY <2>1, <3>1 DEF HasAnswer, Idle
  <2>5. CASE t = a
    <3>1. Tail(todo) = <<c>> \o u
      <4>1. a # c
        BY <1>2
      <4> QED
        BY <1>1, <1>2, <2>5, <4>1
    <3>2. got.want = Where(w)
      BY <1>2, <2>1, <2>5 DEF CallOf
    <3>3. ice.pending \in {Where(w), NoWrite}
      BY <1>2, <2>1, <3>2 DEF PendInv
    <3>4. Busy(w, <<c>>, ice')
      BY <1>1, <3>3 DEF Busy, LastPart, c
    <3> QED
      BY <2>3, <2>4, <3>1, <3>4
  <2>6. CASE t # a
    BY <1>1, <1>2, <2>2, <2>3, <2>4, <2>6
  <2> QED
    BY <2>5, <2>6
<1> QED
  BY <1>4, <1>5, <1>6

-----------------------------------------------------------------------------
(* The second part of a write reaches the emulator.                        *)

\* What waits in it is written.
Lands(b, a, bytes) == b.pending # NoWrite /\ a.mem = Put(b.mem, b.pending, bytes)

LEMMA LandsOutcome ==
  ASSUME NEW b, DOMAIN b = BoxFields, NEW q, q.cmd = "h", NEW o \in Outcomes(b, q)
  PROVE  /\ DOMAIN o.ice = BoxFields
         /\ o.ice.mem = b.mem \/ Lands(b, o.ice, q.bytes)
         /\ o.ack => Lands(b, o.ice, q.bytes)
<1> DEFINE w == b.pending
           done == [b EXCEPT !.pending = NoWrite]
           put == Put(done.mem, w, q.bytes)
           wrote == [done EXCEPT !.mem = put]
<1>1. \/ o = Does(done, FALSE, <<>>)
      \/ w # NoWrite /\ o = Does(wrote, TRUE, <<>>)
  BY DEF Outcomes, Refuses
<1>2. DOMAIN done = BoxFields /\ done.mem = b.mem
  BY DEF BoxFields
<1>3. "mem" \in BoxFields
  BY DEF BoxFields
<1> HIDE DEF done
<1>4. put = Put(b.mem, w, q.bytes)
  BY <1>2
<1> HIDE DEF put
<1>5. wrote.mem = put /\ DOMAIN wrote = BoxFields
  BY <1>2, <1>3
<1> HIDE DEF wrote
<1>6. Does(done, FALSE, <<>>).ice = done /\ Does(done, FALSE, <<>>).ack = FALSE /\ Does(wrote, TRUE, <<>>).ice = wrote
  BY DEF Does
<1>7. CASE o = Does(done, FALSE, <<>>)
  BY <1>2, <1>6, <1>7
<1>8. CASE w # NoWrite /\ o = Does(wrote, TRUE, <<>>)
  <2>1. Lands(b, o.ice, q.bytes)
    BY <1>4, <1>5, <1>6, <1>8 DEF Lands
  <2> QED
    BY <1>5, <1>6, <1>8, <2>1
<1> QED
  BY <1>1, <1>7, <1>8

LEMMA BoxLands ==
  ASSUME LineInv, BoxInv, Ice \/ Fault, InCall => Sent.cmd \in Commands, Sent.cmd = "h"
  PROVE  /\ ice'.mem = ice.mem \/ Lands(ice, ice', Sent.bytes)
         /\ toHost' # <<>> /\ Head(toHost').k = "ok" /\ Tail(toHost') # <<>> =>
              "h" \in refused' \/ Lands(ice, ice', Sent.bytes)
<1> DEFINE q == Head(toIce)
<1>1. toIce # <<>>
  BY DEF Ice, IceAnswers, IceDeaf, Fault
<1>2. InCall /\ toIce = <<Sent>> /\ toHost = <<>>
  BY <1>1 DEF LineInv
<1>3. q = Sent
  BY <1>2
<1>4. q.cmd = "h" /\ DOMAIN ice = BoxFields /\ Overlooked(q)
  BY <1>2, <1>3 DEF BoxInv, Overlooked
<1>5. ASSUME NEW b, NEW a, Lands(ice, b, q.bytes), a.mem = b.mem
      PROVE  Lands(ice, a, q.bytes)
  BY <1>5 DEF Lands
<1> HIDE DEF q
<1>6. CASE IceAnswers
  <2>1. PICK o \in Outcomes(ice, q) :
           /\ ice' \in Took([o.ice EXCEPT !.sync = TRUE], q)
           /\ refused' = IF o.ack \/ ~Overlooked(q) THEN refused ELSE refused \cup {q.cmd}
    BY <1>6, Zenon DEF IceAnswers, q
  <2>2. DOMAIN o.ice = BoxFields /\ (o.ice.mem = ice.mem \/ Lands(ice, o.ice, q.bytes))
        /\ (o.ack => Lands(ice, o.ice, q.bytes))
    BY <1>4, LandsOutcome
  <2>3. ice'.mem = o.ice.mem
    <3>1. ice' = [o.ice EXCEPT !.sync = TRUE]
      BY <1>4, <2>1 DEF Took
    <3> QED
      BY <2>2, <3>1 DEF BoxFields
  <2>4. o.ack \/ "h" \in refused'
    BY <1>4, <2>1
  <2>5. ice'.mem = ice.mem \/ Lands(ice, ice', q.bytes)
    BY <1>5, <2>2, <2>3
  <2>6. "h" \in refused' \/ Lands(ice, ice', q.bytes)
    BY <1>5, <2>2, <2>3, <2>4
  <2> QED
    BY <1>3, <2>5, <2>6
<1>7. CASE IceDeaf
  <2>1. /\ toHost' = <<>> \/ toHost' = Append(<<>>, Token("error", q, FALSE, <<>>))
        /\ \E s \in BOOLEAN : ice' = [ice EXCEPT !.sync = s]
    BY <1>2, <1>7, Zenon DEF IceDeaf, q
  <2>2. ice'.mem = ice.mem
    BY <1>4, <2>1 DEF BoxFields
  <2>3. toHost' # <<>> => Head(toHost').k # "ok"
    BY <2>1 DEF Token
  <2> QED
    BY <2>2, <2>3
<1>8. CASE Fault
  <2> DEFINE Info == Token("info", q, FALSE, <<>>)
             OK == Token("ok", q, TRUE, <<>>)
  <2>1. \/ ice' = ice /\ toHost' = <<>> \o <<>>
        \/ ice' = ice /\ toHost' = <<>> \o <<Token("error", q, FALSE, <<>>)>>
        \/ ice' = [ice EXCEPT !.dead = TRUE] /\ toHost' = <<>> \o <<>>
        \/ ice' = ice /\ toHost' = <<>> \o <<Info>>
        \/ \E o \in Outcomes(ice, q) :
             /\ ice' = o.ice
             /\ \/ toHost' = <<>> \o <<>>
                \/ toHost' = <<>> \o <<OK>>
                \/ toHost' = <<>> \o (<<Info>> \o Tail(Answer(q, o)))
        \/ /\ ice' = [ice EXCEPT !.pending = IF q.cmd = "h" THEN NoWrite ELSE @]
           /\ refused' = IF Overlooked(q) THEN refused \cup {q.cmd} ELSE refused
    BY <1>2, <1>8 DEF Fault, Faulty, q
  <2>2. /\ Info.k = "info" /\ Token("error", q, FALSE, <<>>).k = "error"
        /\ [ice EXCEPT !.dead = TRUE].mem = ice.mem
    BY <1>4 DEF Token, BoxFields
  <2> DEFINE Err == Token("error", q, FALSE, <<>>)
  <2>3. Err.k = "error"
    BY <2>2
  <2> HIDE DEF Info, OK, Err
  <2>4. ~(toHost' # <<>> /\ Head(toHost').k = "ok" /\ Tail(toHost') # <<>>)
        \/ "h" \in refused'
    <3>1. CASE toHost' = <<>> \o <<>>
      BY <3>1
    <3>2. CASE toHost' = <<>> \o <<Err>>
      BY <2>3, <3>2
    <3>3. CASE toHost' = <<>> \o <<Info>>
      BY <2>2, <3>3
    <3>4. CASE toHost' = <<>> \o <<OK>>
      BY <3>4
    <3>5. ASSUME NEW o, toHost' = <<>> \o (<<Info>> \o Tail(Answer(q, o)))
          PROVE  Head(toHost').k # "ok"
      <4>1. HasBody(q)
        BY <1>4 DEF HasBody
      <4>2. PICK x, y : x = Token("ok", q, TRUE, <<>>) /\ y = Token("body", q, o.ack, o.bytes)
        OBVIOUS
      <4>3. Answer(q, o) = <<x>> \o <<y>>
        BY <4>1, <4>2 DEF Answer
      <4>4. Tail(<<x>> \o <<y>>) = <<y>> /\ <<>> \o (<<Info>> \o <<y>>) = <<Info, y>>
        <5>1. <<x>> \o <<y>> = <<x, y>> /\ <<Info>> \o <<y>> = <<Info, y>> /\ <<>> \o <<Info, y>> = <<Info, y>>
          BY TupleFacts
        <5>2. Tail(<<x, y>>) = <<y>>
          OBVIOUS
        <5>3. Tail(<<x>> \o <<y>>) = <<y>>
          BY <5>1, <5>2, Zenon
        <5> QED
          BY <5>1, <5>3, Zenon
      <4>5. Head(toHost') = Info
        BY <3>5, <4>3, <4>4
      <4> QED
        BY <2>2, <4>5
    <3>6. refused' = (IF Overlooked(q) THEN refused \cup {q.cmd} ELSE refused) => "h" \in refused'
      BY <1>4
    <3> QED
      BY <2>1, <3>1, <3>2, <3>3, <3>4, <3>5, <3>6 DEF Err
  <2>5. ice'.mem = ice.mem \/ Lands(ice, ice', q.bytes)
    <3>1. ASSUME NEW o \in Outcomes(ice, q), ice' = o.ice
          PROVE  ice'.mem = ice.mem \/ Lands(ice, ice', q.bytes)
      BY <1>4, <3>1, LandsOutcome
    <3>2. ASSUME ice' = [ice EXCEPT !.pending = IF q.cmd = "h" THEN NoWrite ELSE @]
          PROVE  ice'.mem = ice.mem
      BY <1>4, <3>2 DEF BoxFields
    <3> QED
      BY <2>1, <2>2, <3>1, <3>2
  <2> QED
    BY <1>3, <2>4, <2>5
<1> QED
  BY <1>6, <1>7, <1>8 DEF Ice

\* What a step of the emulator does to a call that is about to be answered.
LEMMA BoxTouches ==
  ASSUME LineInv, BoxInv, TodoInv, CallInv, AnswerInv, Box
  PROVE  LET t == Head(todo)
         IN  /\ todo # <<>> /\ UNCHANGED <<argv, given, opts, main, todo, drv>> /\ refused \subseteq refused'
             /\ IsWhat(t) => /\ ice'.mem = ice.mem \/ Lands(ice, ice', t.q.bytes)
                             /\ HasAnswer' => "h" \in refused' \/ Lands(ice, ice', t.q.bytes)
             /\ ~(t.op = "cmd" /\ t.q.cmd \in {"h", "a5"}) => ice'.mem = ice.mem
             /\ ~(t.op = "cmd" /\ t.q.cmd \in {"B", "descriptor"}) => ice'.params = ice.params
             /\ t.op = "cmd" /\ t.q.cmd = "B" =>
                  \A x \in DOMAIN ice.params : x # t.q.item => ice'.params[x] = ice.params[x]
             /\ ~IsWhere(t) => ice'.pending \in {ice.pending, NoWrite}
<1> DEFINE t == Head(todo)
<1>1. /\ InCall /\ Leaves(Sent, ice, ice') /\ refused \subseteq refused' /\ call' = call
      /\ UNCHANGED <<argv, given, opts, main, todo, drv>> /\ todo # <<>> /\ CallOf(t, drv, call, got)
  <2>1. Ice \/ Fault
    BY DEF Box
  <2>2. InCall /\ Leaves(Sent, ice, ice') /\ refused \subseteq refused' /\ call' = call
    BY <2>1, BoxStep, BoxLeaves, KnownRequest
  <2>3. call.phase # "idle"
    BY <2>2 DEF InCall, Phases
  <2> QED
    BY <2>2, <2>3 DEF CallInv, Box
<1>2. ASSUME Sent.cmd \in {"h", "a5", "B", "descriptor", "W"}
      PROVE  t.op = "cmd" /\ Sent = t.q
  BY <1>1, <1>2, SentIs
<1>3. ASSUME IsWhat(t)
      PROVE  /\ ice'.mem = ice.mem \/ Lands(ice, ice', t.q.bytes)
             /\ HasAnswer' => "h" \in refused' \/ Lands(ice, ice', t.q.bytes)
  <2>1. CASE Sent.cmd = "h"
    <3>1. Sent = t.q
      BY <1>2, <2>1
    <3>2. Ice \/ Fault
      BY DEF Box
    <3>3. /\ ice'.mem = ice.mem \/ Lands(ice, ice', Sent.bytes)
          /\ toHost' # <<>> /\ Head(toHost').k = "ok" /\ Tail(toHost') # <<>> =>
              "h" \in refused' \/ Lands(ice, ice', Sent.bytes)
      BY <2>1, <3>2, KnownRequest, BoxLands
    <3>4. HasAnswer' => toHost' # <<>> /\ Head(toHost').k = "ok" /\ Tail(toHost') # <<>>
      <4>1. call.phase # "body"
        <5>1. toIce # <<>>
          BY DEF Box, Ice, IceAnswers, IceDeaf, Fault
        <5> QED
          BY <5>1 DEF AnswerInv
      <4>2. call.phase # "done"
        BY <1>1 DEF InCall, Phases
      <4> QED
        BY <1>1, <4>1, <4>2 DEF HasAnswer
    <3> QED
      BY <3>1, <3>3, <3>4
  <2>2. CASE Sent.cmd # "h"
    <3>1. Sent.cmd # "a5"
      BY <1>2, <1>3 DEF IsWhat
    <3>2. ice'.mem = ice.mem
      BY <1>1, <2>2, <3>1 DEF Leaves
    <3>3. ~HasAnswer'
      <4>1. t.op = "cmd" /\ t.q.cmd = "h"
        BY <1>3 DEF IsWhat
      <4>2. call.q = t.q
        BY <1>1, <4>1 DEF CallOf
      <4>3. call.phase \notin {"command", "body", "done"}
        BY <1>1, <2>2, <4>1, <4>2 DEF Sent, InCall, Phases
      <4> QED
        BY <1>1, <4>3 DEF HasAnswer
    <3> QED
      BY <3>2, <3>3
  <2> QED
    BY <2>1, <2>2
<1>4. ~(t.op = "cmd" /\ t.q.cmd \in {"h", "a5"}) => ice'.mem = ice.mem
  BY <1>1, <1>2 DEF Leaves
<1>5. ~(t.op = "cmd" /\ t.q.cmd \in {"B", "descriptor"}) => ice'.params = ice.params
  BY <1>1, <1>2 DEF Leaves
<1>6. ASSUME t.op = "cmd", t.q.cmd = "B", NEW x \in DOMAIN ice.params, x # t.q.item
      PROVE  ice'.params[x] = ice.params[x]
  <2>1. CASE Sent.cmd = "B"
    BY <1>1, <1>2, <1>6, <2>1 DEF Leaves
  <2>2. CASE Sent.cmd # "B"
    <3>1. Sent.cmd # "descriptor"
      BY <1>2, <1>6
    <3> QED
      BY <1>1, <2>2, <3>1 DEF Leaves
  <2> QED
    BY <2>1, <2>2
<1>7. ~IsWhere(t) => ice'.pending \in {ice.pending, NoWrite}
  BY <1>1, <1>2 DEF Leaves, IsWhere
<1> HIDE DEF t
<1> QED
  BY <1>1, <1>3, <1>4, <1>5, <1>6, <1>7 DEF t

LEMMA BusyBox ==
  ASSUME LineInv, BoxInv, TodoInv, CallInv, AnswerInv, Box,
         NEW w, NEW more, Busy(w, more, ice), NEW u, IsSeq(u), todo = more \o u
  PROVE  LET put == Put(ice.mem, Where(w), w.bytes)
         IN  /\ Busy(w, more, ice') /\ ice'.params = ice.params
             /\ ice'.mem = ice.mem \/ ice'.mem = put
             /\ LastPart(w, more) /\ HasAnswer' => "h" \in refused' \/ ice'.mem = put
<1> DEFINE t == Head(todo)
           put == Put(ice.mem, Where(w), w.bytes)
<1>1. Begins(w, more, ice, todo, u) /\ w.m \in {"fuse", "lock"}
  BY BusyFacts DEF Busy
<1>2. /\ Written(w).op = "write"
      /\ Do(Where(w)).op = "cmd" /\ Do(Where(w)).q = Where(w) /\ Where(w).cmd = "W"
      /\ Do(What(w)).op = "cmd" /\ Do(What(w)).q = What(w) /\ What(w).cmd = "h" /\ What(w).bytes = w.bytes
  BY DEF Written, jtagWrite, Do, Where, What
<1>3. ice'.params = ice.params
  <2>1. ~(t.op = "cmd" /\ t.q.cmd \in {"B", "descriptor"})
    BY <1>1, <1>2 DEF Begins
  <2> QED
    BY <2>1, BoxTouches
<1>4. CASE LastPart(w, more)
  <2>1. t = Do(What(w)) /\ ice.pending \in {Where(w), NoWrite}
    <3>1. more # <<Written(w)>>
      <4>1. <<Written(w)>>[1].op = "write" /\ <<Do(What(w))>>[1].op = "cmd"
        BY <1>2
      <4> QED
        BY <1>4, <4>1 DEF LastPart
    <3>2. more # <<Do(Where(w)), Do(What(w))>>
      <4>1. PICK a, c : a = Do(Where(w)) /\ c = Do(What(w))
        OBVIOUS
      <4>2. Len(<<a, c>>) = 2 /\ Len(<<c>>) = 1
        OBVIOUS
      <4> QED
        BY <1>4, <4>1, <4>2 DEF LastPart
    <3> QED
      BY <1>1, <3>1, <3>2, Zenon DEF Begins
  <2>2. IsWhat(t) /\ ~IsWhere(t) /\ t.q.bytes = w.bytes
    BY <1>2, <2>1 DEF IsWhat, IsWhere
  <2>3. ASSUME Lands(ice, ice', t.q.bytes) PROVE ice'.mem = put
    BY <2>1, <2>2, <2>3 DEF Lands
  <2>4. ice'.pending \in {ice.pending, NoWrite}
    BY <2>2, BoxTouches
  <2>5. Busy(w, more, ice')
    BY <1>1, <1>4, <2>1, <2>4 DEF Busy
  <2>6. /\ ice'.mem = ice.mem \/ ice'.mem = put
        /\ HasAnswer' => "h" \in refused' \/ ice'.mem = put
    <3> HIDE DEF t, put
    <3>1. /\ ice'.mem = ice.mem \/ Lands(ice, ice', t.q.bytes)
          /\ HasAnswer' => "h" \in refused' \/ Lands(ice, ice', t.q.bytes)
      BY <2>2, BoxTouches DEF t
    <3> QED
      BY <2>3, <3>1
  <2> HIDE DEF put
  <2> QED
    BY <1>3, <2>5, <2>6 DEF put
<1>5. CASE ~LastPart(w, more)
  <2>1. t = Written(w) \/ t = Do(Where(w))
    BY <1>1, <1>5 DEF Begins
  <2>2. ~(t.op = "cmd" /\ t.q.cmd \in {"h", "a5"})
    BY <1>2, <2>1
  <2>3. ice'.mem = ice.mem
    BY <2>2, BoxTouches
  <2>4. Busy(w, more, ice')
    BY <1>5 DEF Busy
  <2> QED
    BY <1>3, <1>5, <2>3, <2>4
<1> QED
  BY <1>4, <1>5

\* A call that is not part of a write.
LEMMA CallGoes ==
  ASSUME Shape, TodoInv, CallInv, Calling, StartCall \/ Passed \/ (Answered /\ GoesOn),
         Head(todo).op \in {"cmd", "read"}
  PROVE  \/ todo' = todo /\ drv'.kept = drv.kept /\ (drv.assigned => drv'.assigned)
         \/ /\ Answered /\ main' # "died" /\ call.phase = "done" /\ CallOf(Head(todo), drv, call, got)
            /\ Head(todo).op = "cmd" => FlagOK(drv, Head(todo).q)
<1>1. CASE StartCall
  <2>1. CASE Head(todo).op = "cmd"
    <3>1. drv' = Flagged(drv, Head(todo).q) /\ todo' = todo
      BY <1>1, <2>1, StartCallFacts
    <3>2. drv'.kept = drv.kept /\ (drv.assigned => drv'.assigned)
      BY <3>1 DEF Flagged, Shape
    <3> QED
      BY <3>1, <3>2
  <2>2. CASE Head(todo).op = "read"
    BY <1>1, <2>2, StartCallFacts
  <2> QED
    BY <2>1, <2>2
<1>2. CASE Passed
  BY <1>2 DEF Passed, Check
<1>3. CASE Answered /\ GoesOn
  <2>1. call.phase = "done" /\ CallOf(Head(todo), drv, call, got) /\ main' # "died"
    BY <1>3, AnsweredFacts, StepFacts DEF Calling
  <2>2. Head(todo).op = "cmd" => FlagOK(drv, Head(todo).q)
    BY <2>1 DEF CallOf
  <2> QED
    BY <1>3, <2>1, <2>2
<1> QED
  BY <1>1, <1>2, <1>3

-----------------------------------------------------------------------------
(* writeFuses and writeLockBits.                                           *)

EnterCall == Do(Simple("a3"))
LeaveCall == Do(Simple("a4"))
Never == check("never", <<>>)

\* A call or two behind others.
Behind1(u, s, a) == IsSeq(u) /\ Len(u) = Len(s) + 1 /\ u[Len(s) + 1] = a /\ \A i \in 1 .. Len(s) : u[i] = s[i]
Behind2(u, s, a, b) ==
  /\ IsSeq(u) /\ Len(u) = Len(s) + 2 /\ u[Len(s) + 1] = a /\ u[Len(s) + 2] = b
  /\ \A i \in 1 .. Len(s) : u[i] = s[i]

LEMMA JoinedOne ==
  ASSUME NEW s, IsSeq(s), NEW a, NEW t, t = <<a>>
  PROVE  Behind1(s \o t, s, a)
<1>2. IsSeq(t) /\ Len(t) = 1 /\ t[1] = a
  BY SingleFacts
<1>3. PICK u : u = s \o t
  OBVIOUS
<1>4. IsSeq(u) /\ Len(u) = Len(s) + Len(t) /\ (\A i \in 1 .. Len(s) : u[i] = s[i])
      /\ \A i \in 1 .. Len(t) : u[Len(s) + i] = t[i]
  BY <1>2, <1>3, ConcatFacts
<1>5. 1 \in 1 .. Len(t)
  BY <1>2
<1> QED
  BY <1>2, <1>3, <1>4, <1>5 DEF Behind1

LEMMA JoinedTwo ==
  ASSUME NEW s, IsSeq(s), NEW a, NEW b, NEW t, t = <<a, b>>
  PROVE  Behind2(s \o t, s, a, b)
<1>2. IsSeq(t) /\ Len(t) = 2 /\ t[1] = a /\ t[2] = b
  <2>1. <<a, b>> \in Seq({a, b}) /\ Len(<<a, b>>) = 2 /\ <<a, b>>[1] = a /\ <<a, b>>[2] = b
    OBVIOUS
  <2> QED
    BY <2>1, SeqIsSeq
<1>3. PICK u : u = s \o t
  OBVIOUS
<1>4. IsSeq(u) /\ Len(u) = Len(s) + Len(t) /\ (\A i \in 1 .. Len(s) : u[i] = s[i])
      /\ \A i \in 1 .. Len(t) : u[Len(s) + i] = t[i]
  BY <1>2, <1>3, ConcatFacts
<1>5. 1 \in 1 .. Len(t) /\ 2 \in 1 .. Len(t)
  BY <1>2
<1> QED
  BY <1>2, <1>3, <1>4, <1>5 DEF Behind2

LEMMA WriteCalls ==
  ASSUME NEW m, NEW n, NEW bytes, bytes # <<>>
  PROVE  LET all == WriteBits(m, n, bytes)
         IN  /\ IsSeq(all) /\ Len(all) = 5
             /\ all[1] = EnterCall /\ all[2] = jtagWrite(m, 0, bytes) /\ all[3] = jtagRead(m, 0, n, "keep")
             /\ all[4] = LeaveCall /\ all[5] = check("same", bytes)
<1>1. PICK a, b, c, d, e : /\ a = EnterCall /\ b = jtagWrite(m, 0, bytes) /\ c = jtagRead(m, 0, n, "keep")
                           /\ d = LeaveCall /\ e = check("same", bytes)
  OBVIOUS
<1>2. PICK s, t, u, v : s = <<a>> /\ t = <<b, c>> /\ u = <<d>> /\ v = <<e>>
  OBVIOUS
<1>3. WriteBits(m, n, bytes) = s \o t \o u \o v
  BY <1>1, <1>2 DEF WriteBits, enableProgramming, disableProgramming, EnterCall, LeaveCall
<1>4. IsSeq(s) /\ Len(s) = 1 /\ s[1] = a
  BY <1>2, SingleFacts
<1>5. PICK x : x = s \o t
  OBVIOUS
<1>6. IsSeq(x) /\ Len(x) = 3 /\ x[1] = a /\ x[2] = b /\ x[3] = c
  <2>1. Behind2(x, s, b, c)
    BY <1>2, <1>4, <1>5, JoinedTwo
  <2> QED
    BY <1>4, <2>1 DEF Behind2
<1>7. PICK y : y = x \o u
  OBVIOUS
<1>8. IsSeq(y) /\ Len(y) = 4 /\ y[1] = a /\ y[2] = b /\ y[3] = c /\ y[4] = d
  <2>1. Behind1(y, x, d)
    BY <1>2, <1>6, <1>7, JoinedOne
  <2> QED
    BY <1>6, <2>1 DEF Behind1
<1>9. PICK z : z = y \o v
  OBVIOUS
<1>10. IsSeq(z) /\ Len(z) = 5 /\ z[1] = a /\ z[2] = b /\ z[3] = c /\ z[4] = d /\ z[5] = e
  <2>1. Behind1(z, y, e)
    BY <1>2, <1>8, <1>9, JoinedOne
  <2> QED
    BY <1>8, <2>1 DEF Behind1
<1>11. WriteBits(m, n, bytes) = z
  BY <1>3, <1>5, <1>7, <1>9
<1> QED
  BY <1>1, <1>10, <1>11

-----------------------------------------------------------------------------
(* A write of one of these bytes.                                          *)

PutIn(mem, m, c, bytes) ==
  [mem EXCEPT ![m] = [a \in Addrs(m) |->
     IF \E i \in DOMAIN c : c[i] = a THEN Stored(m, mem[m][a], bytes[CHOOSE i \in DOMAIN c : c[i] = a])
     ELSE mem[m][a]]]

LEMMA PutBit ==
  ASSUME NEW mem, DOMAIN mem = Memories, NEW m \in {"fuse", "lock"}, NEW addr \in Addrs(m), NEW x,
         NEW put, put = Put(mem, Where(BitsOf(m, addr, <<x>>)), <<x>>)
  PROVE  /\ put[m][addr] = x
         /\ \A a \in Addrs(m) : a # addr => put[m][a] = mem[m][a]
         /\ \A l \in Memories : l # m => put[l] = mem[l]
<1> DEFINE w == Where(BitsOf(m, addr, <<x>>))
           c == [i \in 1 .. 1 |-> addr + i - 1]
           new == [a \in Addrs(m) |->
                     IF \E i \in DOMAIN c : c[i] = a
                       THEN Stored(m, mem[m][a], <<x>>[CHOOSE i \in DOMAIN c : c[i] = a])
                       ELSE mem[m][a]]
<1>1. w.space = m /\ w.addr = addr /\ w.n = 1
  <2>1. Len(<<x>>) = 1
    OBVIOUS
  <2> QED
    BY <2>1 DEF Where, BitsOf
<1>2. Memory(m) = m /\ m # "flash" /\ m \in Memories
  BY DEF Memory, Memories
<1>3. Cells(m, addr, 1) = c
  BY <1>2 DEF Cells
<1>4. put = [mem EXCEPT ![m] = new]
  <2>1. Put(mem, w, <<x>>) = PutIn(mem, Memory(w.space), Cells(w.space, w.addr, w.n), <<x>>)
    <3> HIDE DEF w
    <3>1. Memory(w.space) \in DOMAIN mem
      BY <1>1, <1>2
    <3> QED
      BY <3>1 DEF Put, PutIn
  <2>2. put = PutIn(mem, m, c, <<x>>)
    <3> HIDE DEF w, c
    <3>1. put = Put(mem, w, <<x>>)
      BY DEF w
    <3> QED
      BY <1>1, <1>2, <1>3, <2>1, <3>1
  <2> QED
    BY <2>2 DEF PutIn
<1>5. addr \in Int
  BY DEF Addrs
<1>6. DOMAIN c = {1} /\ c[1] = addr
  BY <1>5
<1>7. new[addr] = x
  <2>1. (CHOOSE i \in DOMAIN c : c[i] = addr) = 1
    BY <1>6
  <2>2. new[addr] = Stored(m, mem[m][addr], <<x>>[1])
    <3> HIDE DEF c
    <3> QED
      BY <1>6, <2>1
  <2> QED
    BY <1>2, <2>2 DEF Stored
<1>8. \A a \in Addrs(m) : a # addr => new[a] = mem[m][a]
  <2> HIDE DEF c
  <2> QED
    BY <1>6
<1> HIDE DEF new
<1> QED
  BY <1>2, <1>4, <1>7, <1>8

Unlocking == BitsOf("lock", 0, <<1>>)
Enabling == BitsOf("fuse", 1, <<0>>)

\* What the two writes of a session do.
LEMMA PutUnlocked ==
  ASSUME NEW mem, DOMAIN mem = Memories, NEW put, put = Put(mem, Where(Unlocking), Unlocking.bytes)
  PROVE  put["lock"][0] = 1 /\ put["fuse"] = mem["fuse"]
<1>1. Unlocking.bytes = <<1>> /\ "lock" \in {"fuse", "lock"} /\ 0 \in Addrs("lock") /\ "fuse" \in Memories
  BY DEF Unlocking, BitsOf, Addrs, Memories
<1>2. put = Put(mem, Where(BitsOf("lock", 0, <<1>>)), <<1>>)
  BY <1>1 DEF Unlocking
<1> QED
  BY <1>1, <1>2, PutBit

LEMMA PutEnabled ==
  ASSUME NEW mem, DOMAIN mem = Memories, NEW put, put = Put(mem, Where(Enabling), Enabling.bytes)
  PROVE  /\ put["fuse"][0] = mem["fuse"][0] /\ put["fuse"][1] = 0 /\ put["fuse"][2] = mem["fuse"][2]
         /\ put["lock"] = mem["lock"]
<1>1. Enabling.bytes = <<0>> /\ "fuse" \in {"fuse", "lock"} /\ "lock" \in Memories
  BY DEF Enabling, BitsOf, Memories
<1>2. 0 \in Addrs("fuse") /\ 1 \in Addrs("fuse") /\ 2 \in Addrs("fuse")
  BY DEF Addrs
<1>3. put = Put(mem, Where(BitsOf("fuse", 1, <<0>>)), <<0>>)
  BY <1>1 DEF Enabling
<1> QED
  BY <1>1, <1>2, <1>3, PutBit

-----------------------------------------------------------------------------
(* Where a write of all the bytes is: before its k'th call, or within the  *)
(* second one.                                                             *)

BitsStep(m, n, bytes, k) ==
  LET all == WriteBits(m, n, bytes)
  IN  /\ \/ todo = Rest(all, k)
         \/ k = 2 /\ \E more : Busy(BitsOf(m, 0, bytes), more, ice) /\ todo = more \o Rest(all, 2)
      /\ k >= 1 => drv.assigned
      /\ k \in {3, 4} => drv.kept \in {Null, Bits(ice, m, 0, n)}
      /\ k = 5 => \A i \in 1 .. n : ice.mem[m][i - 1] = bytes[i]

BitsAt(m, n, bytes) == IF bytes = <<>> THEN todo = <<Never>> ELSE \E k \in 0 .. 5 : BitsStep(m, n, bytes, k)

LEMMA BitsStarted ==
  ASSUME NEW m, NEW n, NEW bytes
  PROVE  todo' = WriteBits(m, n, bytes) => BitsAt(m, n, bytes)'
<1>1. CASE bytes = <<>>
  BY <1>1 DEF WriteBits, BitsAt, Never
<1>2. CASE bytes # <<>>
  <2>1. PICK all : all = WriteBits(m, n, bytes)
    OBVIOUS
  <2>2. IsSeq(all) /\ Len(all) = 5
    BY <1>2, <2>1, WriteCalls
  <2>3. Rest(all, 0) = all
    <3>1. 0 \in 0 .. Len(all)
      BY <2>2
    <3> QED
      BY <2>2, <3>1, RestFacts
  <2>4. todo' = WriteBits(m, n, bytes) => BitsStep(m, n, bytes, 0)'
    BY <2>1, <2>3 DEF BitsStep
  <2> QED
    BY <1>2, <2>4 DEF BitsAt
<1> QED
  BY <1>1, <1>2

\* What its calls are.
CallIs(m, n, bytes, k, r, next) ==
  /\ IsSeq(r)
  /\ r = <<>> <=> k = 5
  /\ k < 5 => Tail(r) = next
  /\ k = 0 => Head(r) = EnterCall
  /\ k = 1 => Head(r) = jtagWrite(m, 0, bytes)
  /\ k = 2 => Head(r) = jtagRead(m, 0, n, "keep")
  /\ k = 3 => Head(r) = LeaveCall
  /\ k = 4 => Head(r) = check("same", bytes)

LEMMA BitsCall ==
  ASSUME NEW m, NEW n, NEW bytes, bytes # <<>>, NEW k \in 0 .. 5
  PROVE  CallIs(m, n, bytes, k, Rest(WriteBits(m, n, bytes), k), Rest(WriteBits(m, n, bytes), k + 1))
<1>1. PICK all : all = WriteBits(m, n, bytes)
  OBVIOUS
<1>2. /\ IsSeq(all) /\ Len(all) = 5
      /\ all[1] = EnterCall /\ all[2] = jtagWrite(m, 0, bytes) /\ all[3] = jtagRead(m, 0, n, "keep")
      /\ all[4] = LeaveCall /\ all[5] = check("same", bytes)
  BY <1>1, WriteCalls
<1>3. k \in 0 .. Len(all)
  BY <1>2
<1>4. /\ IsSeq(Rest(all, k))
      /\ k = Len(all) <=> Rest(all, k) = <<>>
      /\ k < Len(all) => Head(Rest(all, k)) = all[k + 1] /\ Tail(Rest(all, k)) = Rest(all, k + 1)
  BY <1>2, <1>3, RestFacts
<1> QED
  BY <1>1, <1>2, <1>4 DEF CallIs

\* Its kinds of calls.
LEMMA CallKinds ==
  /\ EnterCall.op = "cmd" /\ EnterCall.q = Simple("a3") /\ EnterCall.then = "next" /\ EnterCall.q.cmd = "a3"
  /\ LeaveCall.op = "cmd" /\ LeaveCall.q = Simple("a4") /\ LeaveCall.then = "next" /\ LeaveCall.q.cmd = "a4"
  /\ \A m, addr, bytes : jtagWrite(m, addr, bytes).op = "write"
  /\ \A m, addr, n, then : jtagRead(m, addr, n, then).op = "read" /\ jtagRead(m, addr, n, then).then = then
  /\ \A what, bytes : /\ check(what, bytes).op = "check" /\ check(what, bytes).what = what
                      /\ check(what, bytes).bytes = bytes
BY DEF EnterCall, LeaveCall, Do, Simple, jtagWrite, jtagRead, check

LEMMA BitsGoes ==
  ASSUME Shape, LineInv, TodoInv, CallInv, AnswerInv, PendInv, Calling,
         StartCall \/ Passed \/ (Answered /\ GoesOn),
         NEW m \in {"fuse", "lock"}, NEW n \in Nat, NEW bytes, BitsAt(m, n, bytes)
  PROVE  BitsAt(m, n, bytes)'
<1>0. todo # <<>> /\ ice' = ice
  BY DEF Calling
<1>1. CASE bytes = <<>>
  <2>1. todo = <<Never>> /\ Head(todo) = Never
    BY <1>1 DEF BitsAt
  <2>2. Never.op = "check" /\ Never.what = "never"
    BY DEF Never, check
  <2>3. ~StartCall
    BY <2>1, <2>2 DEF StartCall
  <2>4. ~Passed
    BY <2>1, <2>2 DEF Passed, Holds
  <2>5. ~Answered
    BY <2>1, <2>2, AnsweredFacts DEF CallOf
  <2> QED
    BY <2>3, <2>4, <2>5
<1>2. ASSUME bytes # <<>>, NEW k \in 0 .. 5, BitsStep(m, n, bytes, k)
      PROVE  \E j \in 0 .. 5 : BitsStep(m, n, bytes, j)'
  <2>1. PICK all : all = WriteBits(m, n, bytes)
    OBVIOUS
  <2>2. PICK w : w = BitsOf(m, 0, bytes)
    OBVIOUS
  <2>3. /\ \/ todo = Rest(all, k)
           \/ k = 2 /\ \E more : Busy(w, more, ice) /\ todo = more \o Rest(all, 2)
        /\ k >= 1 => drv.assigned
        /\ k \in {3, 4} => drv.kept \in {Null, Bits(ice, m, 0, n)}
        /\ k = 5 => \A i \in 1 .. n : ice.mem[m][i - 1] = bytes[i]
    BY <1>2, <2>1, <2>2, Zenon DEF BitsStep
  <2>4. ASSUME NEW j \in 0 .. 5,
               \/ todo' = Rest(all, j)
               \/ j = 2 /\ \E more : Busy(w, more, ice') /\ todo' = more \o Rest(all, 2),
               j >= 1 => drv'.assigned,
               j \in {3, 4} => drv'.kept \in {Null, Bits(ice, m, 0, n)},
               j = 5 => \A i \in 1 .. n : ice.mem[m][i - 1] = bytes[i]
        PROVE  \E l \in 0 .. 5 : BitsStep(m, n, bytes, l)'
    <3>1. Bits(ice', m, 0, n) = Bits(ice, m, 0, n)
      BY <1>0
    <3>2. BitsStep(m, n, bytes, j)'
      BY <1>0, <2>1, <2>2, <2>4, <3>1 DEF BitsStep
    <3> QED
      BY <3>2
  <2>5. ASSUME NEW more, k = 2, Busy(w, more, ice), todo = more \o Rest(all, 2)
        PROVE  \E l \in 0 .. 5 : BitsStep(m, n, bytes, l)'
    <3>1. IsSeq(Rest(all, 2))
      <4>1. CallIs(m, n, bytes, k, Rest(all, k), Rest(all, k + 1))
        BY <1>2, <2>1, BitsCall
      <4> QED
        BY <2>5, <4>1 DEF CallIs
    <3>2. /\ drv' = drv
          /\ \/ \E left : Busy(w, left, ice') /\ todo' = left \o Rest(all, 2)
             \/ todo' = Rest(all, 2)
      BY <2>5, <3>1, BusyGoes
    <3> QED
      BY <2>3, <2>4, <2>5, <3>2
  <2>6. CASE todo = Rest(all, k)
    <3>1. /\ k # 5 /\ Tail(todo) = Rest(all, k + 1)
          /\ k = 0 => Head(todo) = EnterCall
          /\ k = 1 => Head(todo) = jtagWrite(m, 0, bytes)
          /\ k = 2 => Head(todo) = jtagRead(m, 0, n, "keep")
          /\ k = 3 => Head(todo) = LeaveCall
          /\ k = 4 => Head(todo) = check("same", bytes)
      <4>1. CallIs(m, n, bytes, k, Rest(all, k), Rest(all, k + 1))
        BY <1>2, <2>1, BitsCall
      <4>2. PICK r : r = Rest(all, k) /\ CallIs(m, n, bytes, k, r, Rest(all, k + 1))
        BY <4>1
      <4>3. todo = r
        BY <2>6, <4>2
      <4>4. k # 5 /\ k < 5
        BY <1>0, <1>2, <4>2, <4>3 DEF CallIs
      <4> QED
        BY <4>2, <4>3, <4>4 DEF CallIs
    <3>2. ASSUME todo' = todo, drv'.kept = drv.kept, drv.assigned => drv'.assigned
          PROVE  \E l \in 0 .. 5 : BitsStep(m, n, bytes, l)'
      BY <2>3, <2>4, <2>6, <3>1, <3>2
    <3>3. CASE k \in {0, 3}
      <4>1. Head(todo).op = "cmd" /\ Head(todo).then = "next"
            /\ (k = 0 => Head(todo).q.cmd = "a3")
        BY <3>1, <3>3, CallKinds
      <4>2. CASE todo' = todo /\ drv'.kept = drv.kept /\ (drv.assigned => drv'.assigned)
        BY <3>2, <4>2
      <4>3. CASE Answered /\ main' # "died" /\ FlagOK(drv, Head(todo).q)
        <5>1. drv' = drv /\ todo' = Tail(todo)
          BY <4>1, <4>3, BitsAnswered
        <5>2. k = 0 => drv.assigned
          BY <4>1, <4>3 DEF FlagOK, On
        <5> QED
          BY <2>3, <2>4, <3>1, <3>3, <5>1, <5>2
      <4> QED
        BY <4>1, <4>2, <4>3, CallGoes
    <3>4. CASE k = 1
      <4>1. Head(todo).op = "write" /\ Head(todo) = Written(w) /\ w.m \in {"fuse", "lock"}
        BY <2>2, <3>1, <3>4, CallKinds DEF Written, BitsOf
      <4>2. StartCall
        <5>1. ~Passed
          BY <4>1 DEF Passed, Check
        <5>2. ~Answered
          BY <4>1, AnsweredFacts DEF CallOf
        <5> QED
          BY <5>1, <5>2
      <4>3. drv' = drv /\ todo' = <<Do(Where(w)), Do(What(w))>> \o Rest(all, 2)
        <5>1. Tail(todo) = Rest(all, 2)
          BY <3>1, <3>4
        <5>2. drv' = drv /\ todo' = <<Do(Where(w)), Do(What(w))>> \o Tail(todo)
          <6>1. ASSUME NEW v, v.m \in {"fuse", "lock"}, Head(todo) = Written(v)
                PROVE  drv' = drv /\ todo' = <<Do(Where(v)), Do(What(v))>> \o Tail(todo)
            BY <4>2, <6>1, BitsStart
          <6> QED
            BY <4>1, <6>1
        <5> QED
          BY <5>1, <5>2
      <4>4. Busy(w, <<Do(Where(w)), Do(What(w))>>, ice')
        BY <4>1 DEF Busy
      <4>5. \E more : Busy(w, more, ice') /\ todo' = more \o Rest(all, 2)
        BY <4>3, <4>4
      <4> QED
        <5>1. drv'.assigned /\ 2 \in 0 .. 5
          BY <2>3, <3>4, <4>3
        <5>2. BitsStep(m, n, bytes, 2)'
          <6>1. \E more : Busy(BitsOf(m, 0, bytes), more, ice') /\ todo' = more \o Rest(WriteBits(m, n, bytes), 2)
            BY <2>1, <2>2, <4>5
          <6>2. PICK j \in 0 .. 5 : j = 2
            BY <5>1
          <6>3. j >= 1 /\ j \notin {3, 4} /\ j # 5
            BY <6>2
          <6>4. BitsStep(m, n, bytes, j)'
            BY <5>1, <6>1, <6>2, <6>3 DEF BitsStep
          <6> QED
            BY <6>2, <6>4
        <5> QED
          BY <5>1, <5>2
    <3>5. CASE k = 2
      <4>1. Head(todo).op = "read" /\ Head(todo).then = "keep"
        BY <3>1, <3>5, CallKinds
      <4>2. CASE todo' = todo /\ drv'.kept = drv.kept /\ (drv.assigned => drv'.assigned)
        BY <3>2, <4>2
      <4>3. CASE Answered /\ main' # "died" /\ call.phase = "done" /\ CallOf(Head(todo), drv, call, got)
        <5>1. drv' = [drv EXCEPT !.kept = ReadBytes(Head(todo))] /\ todo' = Tail(todo)
          BY <4>1, <4>3, BitsAnswered
        <5>2. ReadBytes(Head(todo)) \in {Null, Bits(ice, m, 0, n)}
          BY <1>0, <3>1, <3>5, <4>3, BitsRead
        <5>3. drv'.assigned = drv.assigned /\ drv'.kept = ReadBytes(Head(todo))
          BY <5>1 DEF Shape
        <5> QED
          BY <2>3, <2>4, <3>1, <3>5, <5>1, <5>2, <5>3
      <4> QED
        BY <4>1, <4>2, <4>3, CallGoes
    <3>6. CASE k = 4
      <4>1. Head(todo).op = "check" /\ Head(todo).what = "same" /\ Head(todo).bytes = bytes
        BY <3>1, <3>6, CallKinds
      <4>2. Passed
        <5>1. ~StartCall
          BY <4>1 DEF StartCall
        <5>2. ~Answered
          BY <4>1, AnsweredFacts DEF CallOf
        <5> QED
          BY <5>1, <5>2
      <4>3. drv' = drv /\ todo' = Tail(todo) /\ drv.kept = bytes
        BY <4>1, <4>2 DEF Passed, Holds
      <4>4. bytes = Bits(ice, m, 0, n)
        BY <1>2, <2>3, <3>6, <4>3 DEF Null
      <4>5. \A i \in 1 .. n : ice.mem[m][i - 1] = bytes[i]
        BY <4>4 DEF Bits
      <4> QED
        BY <2>3, <2>4, <3>1, <3>6, <4>3, <4>5
    <3> QED
      BY <3>1, <3>3, <3>4, <3>5, <3>6
  <2> QED
    BY <2>3, <2>5, <2>6
<1> QED
  BY <1>1, <1>2 DEF BitsAt

LEMMA BitsBox ==
  ASSUME LineInv, BoxInv, TodoInv, CallInv, AnswerInv, Box,
         NEW m \in {"fuse", "lock"}, NEW n \in Nat, NEW bytes, BitsAt(m, n, bytes)
  PROVE  BitsAt(m, n, bytes)'
<1>0. todo # <<>> /\ todo' = todo /\ drv' = drv
  BY BoxTouches
<1>1. CASE bytes = <<>>
  BY <1>0, <1>1 DEF BitsAt
<1>2. ASSUME bytes # <<>>, NEW k \in 0 .. 5, BitsStep(m, n, bytes, k)
      PROVE  BitsStep(m, n, bytes, k)'
  <2>1. PICK all : all = WriteBits(m, n, bytes)
    OBVIOUS
  <2>2. PICK w : w = BitsOf(m, 0, bytes)
    OBVIOUS
  <2>3. /\ \/ todo = Rest(all, k)
           \/ k = 2 /\ \E more : Busy(w, more, ice) /\ todo = more \o Rest(all, 2)
        /\ k >= 1 => drv.assigned
        /\ k \in {3, 4} => drv.kept \in {Null, Bits(ice, m, 0, n)}
    BY <1>2, <2>1, <2>2, Zenon DEF BitsStep
  <2>4. CallIs(m, n, bytes, k, Rest(all, k), Rest(all, k + 1))
    BY <1>2, <2>1, BitsCall
  <2>5. ASSUME NEW more, k = 2, Busy(w, more, ice), todo = more \o Rest(all, 2)
        PROVE  Busy(w, more, ice')
    <3>1. IsSeq(Rest(all, 2))
      BY <2>4, <2>5 DEF CallIs
    <3> QED
      BY <2>5, <3>1, BusyBox
  <2>6. \/ todo' = Rest(all, k)
        \/ k = 2 /\ \E more : Busy(w, more, ice') /\ todo' = more \o Rest(all, 2)
    <3>1. CASE todo = Rest(all, k)
      BY <1>0, <3>1
    <3>2. ASSUME k = 2, NEW more, Busy(w, more, ice), todo = more \o Rest(all, 2)
          PROVE  k = 2 /\ \E left : Busy(w, left, ice') /\ todo' = left \o Rest(all, 2)
      BY <1>0, <2>5, <3>2
    <3> QED
      BY <2>3, <3>1, <3>2
  <2>7. k \notin {0, 1, 2} => k # 5 /\ ice'.mem = ice.mem
    <3>1. ASSUME k \notin {0, 1, 2}
          PROVE  k # 5 /\ ~(Head(todo).op = "cmd" /\ Head(todo).q.cmd \in {"h", "a5"})
      <4>1. todo = Rest(all, k)
        BY <2>3, <3>1
      <4>2. k # 5 /\ Head(todo) \in {LeaveCall, check("same", bytes)}
        BY <1>0, <1>2, <2>4, <3>1, <4>1 DEF CallIs
      <4> QED
        BY <4>2, CallKinds
    <3> QED
      BY <3>1, BoxTouches
  <2>8. k \in {3, 4} => drv'.kept \in {Null, Bits(ice', m, 0, n)}
    BY <1>0, <2>3, <2>7 DEF Bits
  <2>9. \/ todo' = Rest(WriteBits(m, n, bytes), k)
        \/ k = 2 /\ \E more : Busy(BitsOf(m, 0, bytes), more, ice') /\ todo' = more \o Rest(WriteBits(m, n, bytes), 2)
    BY <2>1, <2>2, <2>6
  <2>10. k # 5
    BY <2>7
  <2>11. k >= 1 => drv'.assigned
    BY <1>0, <2>3
  <2> QED
    BY <2>8, <2>9, <2>10, <2>11 DEF BitsStep
<1> QED
  BY <1>1, <1>2 DEF BitsAt

\* When it is done.
BitsThere(m, n, bytes) == drv.assigned /\ \A i \in 1 .. n : ice.mem[m][i - 1] = bytes[i]

LEMMA BitsDone ==
  ASSUME NEW m, NEW n, NEW bytes, BitsAt(m, n, bytes), todo = <<>>
  PROVE  BitsThere(m, n, bytes)
<1>1. bytes # <<>>
  BY DEF BitsAt
<1>2. PICK k \in 0 .. 5 : BitsStep(m, n, bytes, k)
  BY <1>1 DEF BitsAt
<1>3. CallIs(m, n, bytes, k, Rest(WriteBits(m, n, bytes), k), Rest(WriteBits(m, n, bytes), k + 1))
  BY <1>1, BitsCall
<1>4. ASSUME NEW more, NEW w, Busy(w, more, ice), IsSeq(Rest(WriteBits(m, n, bytes), 2))
      PROVE  more \o Rest(WriteBits(m, n, bytes), 2) # <<>>
  BY <1>4, BusyFacts
<1>5. todo = Rest(WriteBits(m, n, bytes), k)
  <2>1. ASSUME k = 2, NEW more, Busy(BitsOf(m, 0, bytes), more, ice), todo = more \o Rest(WriteBits(m, n, bytes), 2)
        PROVE  FALSE
    <3>1. IsSeq(Rest(WriteBits(m, n, bytes), 2))
      BY <1>3, <2>1 DEF CallIs
    <3> QED
      BY <1>4, <2>1, <3>1
  <2> QED
    BY <1>2, <2>1 DEF BitsStep
<1>6. k = 5
  BY <1>3, <1>5 DEF CallIs
<1> QED
  BY <1>2, <1>6 DEF BitsStep, BitsThere

-----------------------------------------------------------------------------
(* initJtagOnChipDebugging.                                                *)

ClockCall(s) == Do(setJtagParameter("CLOCK", JtagClock(s.jtagBitrate)))
LockCall == jtagRead("lock", 0, 1, "unlock")
FuseCall == jtagRead("fuse", 0, 3, "ocden")
ResetCall == Do(Simple("x"))
TimersCall == Do(setJtagParameter("TIMERS_RUNNING", 0))
HoldCall == Do(setJtagParameter("EXTERNAL_RESET", 1))
ReleaseCall == Do(setJtagParameter("EXTERNAL_RESET", 0))

\* Its calls, the last of which depend on -R.
LastCall(s) == IF Has(s, "R") THEN 10 ELSE 8
DebugIs(s, all) ==
  /\ IsSeq(all) /\ Len(all) = LastCall(s)
  /\ all[1] = ClockCall(s) /\ all[2] = EnterCall /\ all[3] = LockCall /\ all[4] = FuseCall /\ all[5] = LeaveCall
  /\ all[6] = ResetCall /\ all[7] = TimersCall
  /\ IF Has(s, "R") THEN all[8] = HoldCall /\ all[9] = ResetCall /\ all[10] = ReleaseCall
     ELSE all[8] = ResetCall

LEMMA DebugCalls ==
  ASSUME NEW s
  PROVE  DebugIs(s, initJtagOnChipDebugging(s))
<1>1. PICK a, b, c, d, e, f, g : /\ a = ClockCall(s) /\ b = EnterCall /\ c = LockCall /\ d = FuseCall /\ e = LeaveCall
                                 /\ f = ResetCall /\ g = TimersCall
  OBVIOUS
<1>2. PICK t1, t2, t3, t4, t5, t6 : t1 = <<a>> /\ t2 = <<b>> /\ t3 = <<c, d>> /\ t4 = <<e>> /\ t5 = <<f>> /\ t6 = <<g>>
  OBVIOUS
<1>3. PICK r : r = resetProgram(s, TRUE)
  OBVIOUS
<1>4. initJtagOnChipDebugging(s) = t1 \o t2 \o t3 \o t4 \o t5 \o t6 \o r
  <2>1. resetProgram(s, FALSE) = t5
    BY <1>1, <1>2 DEF resetProgram, ResetCall
  <2>2. enableProgramming = t2 /\ disableProgramming = t4
    BY <1>1, <1>2 DEF enableProgramming, disableProgramming, EnterCall, LeaveCall
  <2> QED
    BY <1>1, <1>2, <1>3, <2>1, <2>2 DEF initJtagOnChipDebugging, ClockCall, LockCall, FuseCall, TimersCall
<1>5. IsSeq(t1) /\ Len(t1) = 1 /\ t1[1] = a
  BY <1>2, SingleFacts
<1>6. PICK x2 : x2 = t1 \o t2
  OBVIOUS
<1>7. IsSeq(x2) /\ Len(x2) = 2 /\ x2[1] = a /\ x2[2] = b
  <2>1. Behind1(x2, t1, b)
    BY <1>2, <1>5, <1>6, JoinedOne
  <2> QED
    BY <1>5, <2>1 DEF Behind1
<1>8. PICK x4 : x4 = x2 \o t3
  OBVIOUS
<1>9. IsSeq(x4) /\ Len(x4) = 4 /\ x4[1] = a /\ x4[2] = b /\ x4[3] = c /\ x4[4] = d
  <2>1. Behind2(x4, x2, c, d)
    BY <1>2, <1>7, <1>8, JoinedTwo
  <2> QED
    BY <1>7, <2>1 DEF Behind2
<1>10. PICK x5 : x5 = x4 \o t4
  OBVIOUS
<1>11. IsSeq(x5) /\ Len(x5) = 5 /\ x5[1] = a /\ x5[2] = b /\ x5[3] = c /\ x5[4] = d /\ x5[5] = e
  <2>1. Behind1(x5, x4, e)
    BY <1>2, <1>9, <1>10, JoinedOne
  <2> QED
    BY <1>9, <2>1 DEF Behind1
<1>12. PICK x6 : x6 = x5 \o t5
  OBVIOUS
<1>13. IsSeq(x6) /\ Len(x6) = 6 /\ x6[1] = a /\ x6[2] = b /\ x6[3] = c /\ x6[4] = d /\ x6[5] = e /\ x6[6] = f
  <2>1. Behind1(x6, x5, f)
    BY <1>2, <1>11, <1>12, JoinedOne
  <2> QED
    BY <1>11, <2>1 DEF Behind1
<1>14. PICK x7 : x7 = x6 \o t6
  OBVIOUS
<1>15. /\ IsSeq(x7) /\ Len(x7) = 7
       /\ x7[1] = a /\ x7[2] = b /\ x7[3] = c /\ x7[4] = d /\ x7[5] = e /\ x7[6] = f /\ x7[7] = g
  <2>1. Behind1(x7, x6, g)
    BY <1>2, <1>13, <1>14, JoinedOne
  <2> QED
    BY <1>13, <2>1 DEF Behind1
<1>16. initJtagOnChipDebugging(s) = x7 \o r
  BY <1>4, <1>6, <1>8, <1>10, <1>12, <1>14
<1>17. CASE ~Has(s, "R")
  <2>1. PICK y : y = x7 \o r
    OBVIOUS
  <2>2. r = <<f>>
    BY <1>1, <1>3, <1>17 DEF resetProgram, ResetCall
  <2>3. Behind1(y, x7, f)
    BY <1>15, <2>1, <2>2, JoinedOne
  <2>4. /\ IsSeq(y) /\ Len(y) = 8
        /\ y[1] = a /\ y[2] = b /\ y[3] = c /\ y[4] = d /\ y[5] = e /\ y[6] = f /\ y[7] = g /\ y[8] = f
    BY <1>15, <2>3 DEF Behind1
  <2>5. DebugIs(s, y)
    BY <1>1, <1>17, <2>4 DEF DebugIs, LastCall
  <2> QED
    BY <1>16, <2>1, <2>5
<1>18. CASE Has(s, "R")
  <2>1. PICK h, l : h = HoldCall /\ l = ReleaseCall
    OBVIOUS
  <2>2. r = <<h, f, l>>
    BY <1>1, <1>3, <1>18, <2>1 DEF resetProgram, ResetCall, HoldCall, ReleaseCall
  <2>3. PICK u, v : u = <<h, f>> /\ v = <<l>>
    OBVIOUS
  <2>4. r = u \o v
    <3>1. <<h, f, l>> = <<h>> \o <<f>> \o <<l>> /\ <<h, f>> = <<h>> \o <<f>>
      BY ThreeCalls, TwoCalls
    <3> QED
      BY <2>2, <2>3, <3>1
  <2>5. IsSeq(u) /\ IsSeq(v)
    <3>1. <<h, f>> \in Seq({h, f})
      OBVIOUS
    <3> QED
      BY <2>3, <3>1, SeqIsSeq, SingleFacts
  <2>6. x7 \o r = (x7 \o u) \o v
    <3>1. PICK S : S = {x7[i] : i \in DOMAIN x7} \cup {u[i] : i \in DOMAIN u} \cup {v[i] : i \in DOMAIN v}
      OBVIOUS
    <3>2. x7 \in Seq(S) /\ u \in Seq(S) /\ v \in Seq(S)
      <4>1. /\ {x7[i] : i \in DOMAIN x7} \subseteq S /\ {u[i] : i \in DOMAIN u} \subseteq S
            /\ {v[i] : i \in DOMAIN v} \subseteq S
        BY <3>1
      <4> QED
        BY <1>15, <2>5, <4>1, SeqMonotonic DEF IsSeq
    <3> QED
      BY <2>4, <3>2, ConcatAssociative
  <2>7. PICK y : y = x7 \o u
    OBVIOUS
  <2>8. Behind2(y, x7, h, f)
    BY <1>15, <2>3, <2>7, JoinedTwo
  <2>9. /\ IsSeq(y) /\ Len(y) = 9
        /\ y[1] = a /\ y[2] = b /\ y[3] = c /\ y[4] = d /\ y[5] = e /\ y[6] = f /\ y[7] = g
        /\ y[8] = h /\ y[9] = f
    BY <1>15, <2>8 DEF Behind2
  <2>10. PICK z : z = y \o v
    OBVIOUS
  <2>11. Behind1(z, y, l)
    BY <2>3, <2>9, <2>10, JoinedOne
  <2>12. /\ IsSeq(z) /\ Len(z) = 10
         /\ z[1] = a /\ z[2] = b /\ z[3] = c /\ z[4] = d /\ z[5] = e /\ z[6] = f /\ z[7] = g
         /\ z[8] = h /\ z[9] = f /\ z[10] = l
    BY <2>9, <2>11 DEF Behind1
  <2>13. DebugIs(s, z)
    BY <1>1, <1>18, <2>1, <2>12 DEF DebugIs, LastCall
  <2> QED
    BY <1>16, <2>6, <2>7, <2>10, <2>13
<1> QED
  BY <1>17, <1>18

\* Unlocked, enabled, unless a write was refused.
Unlocked == "h" \in refused \/ ice.mem["lock"][0] = 1
Enabled == "h" \in refused \/ ice.mem["fuse"][1] = 0

\* A write that will have done so when it has its answer.
Writing(w, rest, done) ==
  \E more : Busy(w, more, ice) /\ todo = more \o rest /\ (LastPart(w, more) /\ HasAnswer => done)

\* Where the step is: before its k'th call, or within a write in front of it.
DebugStep(s, k) ==
  LET all == initJtagOnChipDebugging(s)
  IN  /\ \/ todo = Rest(all, k) /\ (k >= 3 => Unlocked) /\ (k >= 4 => Enabled)
         \/ k = 3 /\ Writing(Unlocking, Rest(all, 3), Unlocked)
         \/ k = 4 /\ Unlocked /\ Writing(Enabling, Rest(all, 4), Enabled)
      /\ k >= 2 => drv.assigned
      /\ k >= 7 => ice.params["TIMERS_RUNNING"] = 0
      /\ k = 10 => ice.params["EXTERNAL_RESET"] = 0

DebugAt(s) == \E k \in 0 .. LastCall(s) : DebugStep(s, k)

\* The calls that follow when they are answered, and touch no memory.
Quiet(t) == t.op = "cmd" /\ t.then = "next" /\ t.q.cmd \notin {"h", "a5", "W", "descriptor"}

\* Its k'th call.
DebugCallIs(s, k, r, next) ==
  /\ IsSeq(r)
  /\ r = <<>> <=> k = LastCall(s)
  /\ k < LastCall(s) =>
       /\ Tail(r) = next
       /\ k = 2 => Head(r) = LockCall
       /\ k = 3 => Head(r) = FuseCall
       /\ k \notin {2, 3} => Quiet(Head(r))
       /\ k = 1 => Head(r).q.cmd = "a3"
       /\ k = 6 => Head(r) = TimersCall
       /\ k >= 7 /\ Head(r).q.cmd = "B" => Head(r).q.item = "EXTERNAL_RESET"
       /\ k = 9 => Head(r) = ReleaseCall

LEMMA QuietCalls ==
  /\ \A item, value : LET t == Do(setJtagParameter(item, value))
                      IN  Quiet(t) /\ t.q.cmd = "B" /\ t.q.item = item /\ t.q.value = value
  /\ Quiet(EnterCall) /\ EnterCall.q.cmd = "a3" /\ Quiet(LeaveCall) /\ Quiet(ResetCall) /\ ResetCall.q.cmd = "x"
BY DEF Quiet, Do, setJtagParameter, Simple, EnterCall, LeaveCall, ResetCall

LEMMA DebugCall ==
  ASSUME NEW s, NEW k \in 0 .. LastCall(s)
  PROVE  LET all == initJtagOnChipDebugging(s)
         IN  DebugCallIs(s, k, Rest(all, k), Rest(all, k + 1))
<1>1. PICK all : all = initJtagOnChipDebugging(s)
  OBVIOUS
<1>2. DebugIs(s, all)
  BY <1>1, DebugCalls
<1>3. IsSeq(all) /\ Len(all) = LastCall(s) /\ LastCall(s) \in {8, 10}
  BY <1>2 DEF DebugIs, LastCall
<1>4. /\ IsSeq(Rest(all, k))
      /\ k = Len(all) <=> Rest(all, k) = <<>>
      /\ k < Len(all) => Head(Rest(all, k)) = all[k + 1] /\ Tail(Rest(all, k)) = Rest(all, k + 1)
  <2>1. k \in 0 .. Len(all)
    BY <1>3
  <2> QED
    BY <1>3, <2>1, RestFacts
<1>5. /\ Quiet(ClockCall(s)) /\ Quiet(EnterCall) /\ EnterCall.q.cmd = "a3" /\ Quiet(LeaveCall)
      /\ Quiet(ResetCall) /\ ResetCall.q.cmd = "x" /\ Quiet(TimersCall)
      /\ Quiet(HoldCall) /\ HoldCall.q.item = "EXTERNAL_RESET"
      /\ Quiet(ReleaseCall) /\ ReleaseCall.q.item = "EXTERNAL_RESET"
  BY QuietCalls DEF ClockCall, TimersCall, HoldCall, ReleaseCall
<1>6. ASSUME k < LastCall(s), NEW t, t = all[k + 1]
      PROVE  /\ k = 2 => t = LockCall
             /\ k = 3 => t = FuseCall
             /\ k \notin {2, 3} => Quiet(t)
             /\ k = 1 => t.q.cmd = "a3"
             /\ k = 6 => t = TimersCall
             /\ k >= 7 /\ t.q.cmd = "B" => t.q.item = "EXTERNAL_RESET"
             /\ k = 9 => t = ReleaseCall
  <2>1. k \in 0 .. 9
    BY <1>3, <1>6
  <2>2. CASE k \in 0 .. 6
    BY <1>2, <1>5, <1>6, <2>2 DEF DebugIs
  <2>3. CASE k \in 7 .. 9
    <3>1. Has(s, "R") \/ k = 7
      BY <1>6, <2>3 DEF LastCall
    <3>2. /\ k = 7 => t \in {HoldCall, ResetCall}
          /\ k = 8 => t = ResetCall
          /\ k = 9 => t = ReleaseCall
      BY <1>2, <1>6, <2>3, <3>1 DEF DebugIs
    <3> QED
      BY <1>5, <2>3, <3>2
  <2> QED
    BY <2>1, <2>2, <2>3
<1>7. k < LastCall(s) => k < Len(all)
  BY <1>3
<1>8. DebugCallIs(s, k, Rest(all, k), Rest(all, k + 1))
  BY <1>3, <1>4, <1>6, <1>7 DEF DebugCallIs
<1> QED
  BY <1>1, <1>8

LEMMA DebugStarted ==
  ASSUME NEW s
  PROVE  todo' = initJtagOnChipDebugging(s) => DebugAt(s)'
<1>1. PICK all : all = initJtagOnChipDebugging(s)
  OBVIOUS
<1>2. IsSeq(all) /\ Len(all) = LastCall(s) /\ LastCall(s) \in {8, 10}
  BY <1>1, DebugCalls DEF DebugIs, LastCall
<1>3. Rest(all, 0) = all /\ 0 \in 0 .. LastCall(s)
  <2>1. 0 \in 0 .. Len(all) /\ 0 \in 0 .. LastCall(s)
    BY <1>2
  <2> QED
    BY <1>2, <2>1, RestFacts
<1>4. todo' = all => DebugStep(s, 0)'
  BY <1>1, <1>3 DEF DebugStep
<1> QED
  BY <1>1, <1>3, <1>4 DEF DebugAt

\* A write begins with its first call.
LEMMA WritingStarts ==
  ASSUME NEW w, w.m \in {"fuse", "lock"}, NEW more, more = <<Written(w)>>, NEW b
  PROVE  Busy(w, more, b) /\ ~LastPart(w, more)
<1>1. Written(w).op = "write" /\ Do(What(w)).op = "cmd"
  BY DEF Written, jtagWrite, Do
<1>2. <<Written(w)>>[1] = Written(w) /\ <<Do(What(w))>>[1] = Do(What(w))
  OBVIOUS
<1> QED
  BY <1>1, <1>2 DEF LastPart, Busy

\* One of its calls is answered, or given.
LEMMA DebugQuiet ==
  ASSUME Shape, LineInv, TodoInv, CallInv, AnswerInv, PartsInv, Calling,
         StartCall \/ Passed \/ (Answered /\ GoesOn), Quiet(Head(todo))
  PROVE  /\ drv.assigned => drv'.assigned
         /\ \/ todo' = todo
            \/ /\ todo' = Tail(todo)
               /\ Head(todo).q.cmd = "a3" => drv'.assigned
               /\ Head(todo).q.cmd = "B" /\ Head(todo).q.item \in ResetItems =>
                    ice.params[Head(todo).q.item] = Head(todo).q.value
<1>1. Head(todo).op = "cmd" /\ Head(todo).then = "next"
  BY DEF Quiet
<1>2. CASE todo' = todo /\ drv'.kept = drv.kept /\ (drv.assigned => drv'.assigned)
  BY <1>2
<1>3. CASE Answered /\ main' # "died" /\ call.phase = "done" /\ CallOf(Head(todo), drv, call, got)
           /\ FlagOK(drv, Head(todo).q)
  <2>1. drv' = drv /\ todo' = Tail(todo) /\ (Checked(Head(todo).q) => got.ack)
    BY <1>1, <1>3, BitsAnswered
  <2>2. Head(todo).q.cmd = "a3" => drv'.assigned
    BY <1>3, <2>1 DEF FlagOK, On
  <2>3. ASSUME Head(todo).q.cmd = "B", Head(todo).q.item \in ResetItems
        PROVE  ice.params[Head(todo).q.item] = Head(todo).q.value
    <3>1. Says(ice, refused, call.q, got.ack, got.bytes) /\ call.q = Head(todo).q
      BY <1>1, <1>3, AnswerSays
    <3>2. ParameterSet(ice, Head(todo).q)
      BY <2>1, <2>3, <3>1 DEF Says, Checked
    <3>3. Head(todo).q.item \in DOMAIN ice.params \ {"BITRATE"}
      BY <2>3 DEF PartsInv, ResetItems
    <3> QED
      BY <3>2, <3>3 DEF ParameterSet
  <2> QED
    BY <2>1, <2>2, <2>3
<1> QED
  BY <1>1, <1>2, <1>3, CallGoes

\* The two reads, and what is made of them.
LEMMA DebugReads ==
  ASSUME Shape, LineInv, TodoInv, CallInv, AnswerInv, PartsInv, Calling,
         StartCall \/ Passed \/ (Answered /\ GoesOn), NEW rest, Tail(todo) = rest
  PROVE  /\ Head(todo) = LockCall =>
              /\ drv.assigned => drv'.assigned
              /\ \/ todo' = todo
                 \/ todo' = rest /\ Unlocked
                 \/ todo' = <<Written(Unlocking)>> \o rest
         /\ Head(todo) = FuseCall =>
              /\ drv.assigned => drv'.assigned
              /\ \/ todo' = todo
                 \/ todo' = rest /\ Enabled
                 \/ todo' = <<Written(Enabling)>> \o rest
<1>0. /\ Written(Unlocking) = jtagWrite("lock", 0, <<1>>) /\ Written(Enabling) = jtagWrite("fuse", 1, <<0>>)
      /\ todo # <<>>
  BY DEF Written, Unlocking, Enabling, BitsOf, Calling
<1>1. CASE todo' = todo /\ drv'.kept = drv.kept /\ (drv.assigned => drv'.assigned)
  BY <1>1
<1>2. ASSUME Head(todo) = LockCall, Answered, main' # "died", call.phase = "done",
             CallOf(Head(todo), drv, call, got)
      PROVE  drv' = drv /\ ((todo' = rest /\ Unlocked) \/ todo' = <<Written(Unlocking)>> \o rest)
  <2>1. Head(todo).op = "read" /\ Head(todo).then = "unlock"
    BY <1>2, CallKinds DEF LockCall
  <2>2. /\ drv' = drv /\ ReadBytes(Head(todo)) # Null
        /\ \/ ReadBytes(Head(todo)) = <<1>> /\ todo' = Tail(todo)
           \/ todo' = <<jtagWrite("lock", 0, <<1>>)>> \o Tail(todo)
    BY <1>2, <2>1, BitsAnswered
  <2>3. ReadBytes(Head(todo)) \in {Null, Bits(ice, "lock", 0, 1)}
    <3>1. Head(todo) = jtagRead("lock", 0, 1, "unlock") /\ 0 \in Nat /\ 1 \in Nat /\ "lock" \in {"fuse", "lock"}
      BY <1>2 DEF LockCall
    <3> QED
      BY <1>0, <1>2, <3>1, BitsRead
  <2>4. ASSUME ReadBytes(Head(todo)) = << 1 >>
        PROVE  Unlocked
    <3>1. Bits(ice, "lock", 0, 1) = <<1>>
      BY <2>2, <2>3, <2>4
    <3>2. Bits(ice, "lock", 0, 1)[1] = ice.mem["lock"][0]
      BY DEF Bits
    <3> QED
      BY <3>1, <3>2 DEF Unlocked
  <2> QED
    BY <1>0, <2>2, <2>4
<1>3. ASSUME Head(todo) = FuseCall, Answered, main' # "died", call.phase = "done",
             CallOf(Head(todo), drv, call, got)
      PROVE  drv' = drv /\ ((todo' = rest /\ Enabled) \/ todo' = <<Written(Enabling)>> \o rest)
  <2>1. Head(todo).op = "read" /\ Head(todo).then = "ocden"
    BY <1>3, CallKinds DEF FuseCall
  <2>2. /\ drv' = drv /\ ReadBytes(Head(todo)) # Null
        /\ \/ ReadBytes(Head(todo))[2] = 0 /\ todo' = Tail(todo)
           \/ todo' = <<jtagWrite("fuse", 1, <<0>>)>> \o Tail(todo)
    BY <1>3, <2>1, BitsAnswered
  <2>3. ReadBytes(Head(todo)) \in {Null, Bits(ice, "fuse", 0, 3)}
    <3>1. Head(todo) = jtagRead("fuse", 0, 3, "ocden") /\ 0 \in Nat /\ 3 \in Nat /\ "fuse" \in {"fuse", "lock"}
      BY <1>3 DEF FuseCall
    <3> QED
      BY <1>0, <1>3, <3>1, BitsRead
  <2>4. ASSUME ReadBytes(Head(todo))[2] = 0
        PROVE  Enabled
    <3>1. Bits(ice, "fuse", 0, 3)[2] = 0
      BY <2>2, <2>3, <2>4
    <3>2. Bits(ice, "fuse", 0, 3)[2] = ice.mem["fuse"][1]
      BY DEF Bits
    <3> QED
      BY <3>1, <3>2 DEF Enabled
  <2> QED
    BY <1>0, <2>2, <2>4
<1>4. ASSUME Head(todo) \in {LockCall, FuseCall}
      PROVE  \/ todo' = todo /\ drv'.kept = drv.kept /\ (drv.assigned => drv'.assigned)
             \/ Answered /\ main' # "died" /\ call.phase = "done" /\ CallOf(Head(todo), drv, call, got)
  <2>1. Head(todo).op = "read"
    BY <1>4, CallKinds DEF LockCall, FuseCall
  <2> QED
    BY <2>1, CallGoes
<1> QED
  BY <1>1, <1>2, <1>3, <1>4

LEMMA DebugGoes ==
  ASSUME Shape, LineInv, TodoInv, CallInv, AnswerInv, PartsInv, PendInv, Calling,
         StartCall \/ Passed \/ (Answered /\ GoesOn), NEW s, DebugAt(s)
  PROVE  DebugAt(s)'
<1>1. PICK k \in 0 .. LastCall(s) : DebugStep(s, k)
  BY DEF DebugAt
<1>2. PICK all : all = initJtagOnChipDebugging(s)
  OBVIOUS
<1>3. /\ \/ todo = Rest(all, k) /\ (k >= 3 => Unlocked) /\ (k >= 4 => Enabled)
         \/ k = 3 /\ Writing(Unlocking, Rest(all, 3), Unlocked)
         \/ k = 4 /\ Unlocked /\ Writing(Enabling, Rest(all, 4), Enabled)
      /\ k >= 2 => drv.assigned
      /\ k >= 7 => ice.params["TIMERS_RUNNING"] = 0
      /\ k = 10 => ice.params["EXTERNAL_RESET"] = 0
  BY <1>1, <1>2 DEF DebugStep
<1>4. todo # <<>> /\ ice' = ice /\ refused' = refused /\ (Unlocked' <=> Unlocked) /\ (Enabled' <=> Enabled)
  BY DEF Calling, Unlocked, Enabled
<1>5. LastCall(s) \in {8, 10}
  BY DEF LastCall
<1>6. ASSUME NEW j \in 0 .. LastCall(s),
             \/ todo' = Rest(all, j) /\ (j >= 3 => Unlocked) /\ (j >= 4 => Enabled)
             \/ j = 3 /\ Writing(Unlocking, Rest(all, 3), Unlocked)'
             \/ j = 4 /\ Unlocked /\ Writing(Enabling, Rest(all, 4), Enabled)',
             j >= 2 => drv'.assigned,
             j >= 7 => ice.params["TIMERS_RUNNING"] = 0,
             j = 10 => ice.params["EXTERNAL_RESET"] = 0
      PROVE  DebugAt(s)'
  <2>1. DebugStep(s, j)'
    BY <1>2, <1>4, <1>6 DEF DebugStep
  <2> QED
    BY <2>1 DEF DebugAt
<1>7. IsSeq(Rest(all, k))
  BY <1>2, DebugCall DEF DebugCallIs
<1>8. ASSUME NEW w, NEW rest, IsSeq(rest), NEW more, Busy(w, more, ice), todo = more \o rest
      PROVE  /\ drv' = drv
             /\ \/ \E left : Busy(w, left, ice') /\ todo' = left \o rest /\ ~(LastPart(w, left) /\ HasAnswer')
                \/ LastPart(w, more) /\ HasAnswer /\ todo' = rest
  BY <1>8, BusyGoes
<1>9. CASE k = 3 /\ Writing(Unlocking, Rest(all, 3), Unlocked)
  <2>1. PICK more : /\ Busy(Unlocking, more, ice) /\ todo = more \o Rest(all, 3)
                    /\ LastPart(Unlocking, more) /\ HasAnswer => Unlocked
    BY <1>9 DEF Writing
  <2>2. IsSeq(Rest(all, 3)) /\ 3 \in 0 .. LastCall(s)
    BY <1>7, <1>9
  <2>3. /\ drv' = drv
        /\ \/ \E left : Busy(Unlocking, left, ice') /\ todo' = left \o Rest(all, 3)
                        /\ ~(LastPart(Unlocking, left) /\ HasAnswer')
           \/ Unlocked /\ todo' = Rest(all, 3)
    BY <1>8, <2>1, <2>2
  <2>4. Writing(Unlocking, Rest(all, 3), Unlocked)' \/ (Unlocked /\ todo' = Rest(all, 3))
    BY <2>3 DEF Writing
  <2>5. drv'.assigned
    BY <1>3, <1>9, <2>3
  <2>6. k = 3 /\ k \in 0 .. LastCall(s)
    BY <1>9
  <2> QED
    BY <1>6, <2>4, <2>5, <2>6
<1>10. CASE k = 4 /\ Unlocked /\ Writing(Enabling, Rest(all, 4), Enabled)
  <2>1. PICK more : /\ Busy(Enabling, more, ice) /\ todo = more \o Rest(all, 4)
                    /\ LastPart(Enabling, more) /\ HasAnswer => Enabled
    BY <1>10 DEF Writing
  <2>2. IsSeq(Rest(all, 4)) /\ 4 \in 0 .. LastCall(s)
    BY <1>7, <1>10
  <2>3. /\ drv' = drv
        /\ \/ \E left : Busy(Enabling, left, ice') /\ todo' = left \o Rest(all, 4)
                        /\ ~(LastPart(Enabling, left) /\ HasAnswer')
           \/ Enabled /\ todo' = Rest(all, 4)
    BY <1>8, <2>1, <2>2
  <2>4. Writing(Enabling, Rest(all, 4), Enabled)' \/ (Enabled /\ todo' = Rest(all, 4))
    BY <2>3 DEF Writing
  <2>5. drv'.assigned
    BY <1>3, <1>10, <2>3
  <2>6. k = 4 /\ k \in 0 .. LastCall(s) /\ Unlocked
    BY <1>10
  <2> QED
    BY <1>6, <2>4, <2>5, <2>6
<1>11. CASE todo = Rest(all, k) /\ (k >= 3 => Unlocked) /\ (k >= 4 => Enabled)
  <2>1. DebugCallIs(s, k, Rest(all, k), Rest(all, k + 1))
    BY <1>2, DebugCall
  <2>2. /\ k < LastCall(s) /\ k + 1 \in 0 .. LastCall(s) /\ Tail(todo) = Rest(all, k + 1)
        /\ k = 2 => Head(todo) = LockCall
        /\ k = 3 => Head(todo) = FuseCall
        /\ k \notin {2, 3} => Quiet(Head(todo))
        /\ k = 1 => Head(todo).q.cmd = "a3"
        /\ k = 6 => Head(todo) = TimersCall
        /\ k = 9 => Head(todo) = ReleaseCall
    <3>1. PICK r : r = Rest(all, k)
      OBVIOUS
    <3>2. DebugCallIs(s, k, r, Rest(all, k + 1)) /\ todo = r
      BY <1>11, <2>1, <3>1
    <3>3. k # LastCall(s)
      BY <1>4, <3>2 DEF DebugCallIs
    <3>4. k < LastCall(s) /\ k + 1 \in 0 .. LastCall(s)
      BY <1>5, <3>3
    <3> QED
      BY <3>2, <3>4 DEF DebugCallIs
  <2>3. ASSUME todo' = todo, drv.assigned => drv'.assigned
        PROVE  DebugAt(s)'
    BY <1>3, <1>6, <1>11, <2>3
  <2>4. CASE k \notin {2, 3}
    <3>1. /\ drv.assigned => drv'.assigned
          /\ \/ todo' = todo
             \/ /\ todo' = Tail(todo)
                /\ Head(todo).q.cmd = "a3" => drv'.assigned
                /\ Head(todo).q.cmd = "B" /\ Head(todo).q.item \in ResetItems =>
                     ice.params[Head(todo).q.item] = Head(todo).q.value
      BY <2>2, <2>4, DebugQuiet
    <3>2. CASE todo' = Tail(todo) /\ todo' # todo
      <4>1. todo' = Rest(all, k + 1) /\ (k + 1 >= 3 => Unlocked) /\ (k + 1 >= 4 => Enabled)
        BY <1>11, <2>2, <2>4, <3>2
      <4>2. k + 1 >= 2 => drv'.assigned
        BY <1>3, <2>2, <3>1, <3>2
      <4>3. k = 6 => ice.params["TIMERS_RUNNING"] = 0
        <5>1. TimersCall.q.cmd = "B" /\ TimersCall.q.item = "TIMERS_RUNNING" /\ TimersCall.q.value = 0
          BY QuietCalls DEF TimersCall
        <5> QED
          BY <2>2, <3>1, <3>2, <5>1 DEF ResetItems
      <4>4. k = 9 => ice.params["EXTERNAL_RESET"] = 0
        <5>1. ReleaseCall.q.cmd = "B" /\ ReleaseCall.q.item = "EXTERNAL_RESET" /\ ReleaseCall.q.value = 0
          BY QuietCalls DEF ReleaseCall
        <5> QED
          BY <2>2, <3>1, <3>2, <5>1 DEF ResetItems
      <4>5. PICK j : j = k + 1
        OBVIOUS
      <4>6. /\ j \in 0 .. LastCall(s) /\ todo' = Rest(all, j) /\ (j >= 3 => Unlocked) /\ (j >= 4 => Enabled)
            /\ j >= 2 => drv'.assigned
            /\ j >= 7 => ice.params["TIMERS_RUNNING"] = 0
            /\ j = 10 => ice.params["EXTERNAL_RESET"] = 0
        BY <1>3, <2>2, <4>1, <4>2, <4>3, <4>4, <4>5
      <4> QED
        BY <1>6, <4>6
    <3> QED
      BY <2>3, <3>1, <3>2
  <2>5. CASE k = 2
    <3>1. Tail(todo) = Rest(all, 3) /\ drv.assigned /\ 3 \in 0 .. LastCall(s) /\ Head(todo) = LockCall
      BY <1>3, <1>5, <2>2, <2>5
    <3>2. /\ drv'.assigned
          /\ \/ todo' = todo
             \/ todo' = Rest(all, 3) /\ Unlocked
             \/ todo' = <<Written(Unlocking)>> \o Rest(all, 3)
      BY <3>1, DebugReads
    <3>3. CASE todo' = <<Written(Unlocking)>> \o Rest(all, 3)
      <4>1. Unlocking.m \in {"fuse", "lock"}
        BY DEF Unlocking, BitsOf
      <4>2. PICK more : more = <<Written(Unlocking)>>
        OBVIOUS
      <4>5. Busy(Unlocking, more, ice') /\ todo' = more \o Rest(all, 3) /\ ~LastPart(Unlocking, more)
        BY <3>3, <4>1, <4>2, WritingStarts
      <4>3. Writing(Unlocking, Rest(all, 3), Unlocked)'
        BY <4>5 DEF Writing
      <4>4. DebugStep(s, 3)'
        BY <1>2, <3>2, <4>3 DEF DebugStep
      <4> QED
        BY <3>1, <4>4 DEF DebugAt
    <3>4. CASE todo' = Rest(all, 3) /\ Unlocked
      <4>1. DebugStep(s, 3)'
        BY <1>2, <1>4, <3>2, <3>4 DEF DebugStep
      <4> QED
        BY <3>1, <4>1 DEF DebugAt
    <3> QED
      BY <2>3, <3>2, <3>3, <3>4
  <2>6. CASE k = 3
    <3>1. /\ Tail(todo) = Rest(all, 4) /\ drv.assigned /\ 4 \in 0 .. LastCall(s) /\ Head(todo) = FuseCall
          /\ Unlocked'
      BY <1>3, <1>4, <1>5, <1>11, <2>2, <2>6
    <3>2. /\ drv'.assigned
          /\ \/ todo' = todo
             \/ todo' = Rest(all, 4) /\ Enabled
             \/ todo' = <<Written(Enabling)>> \o Rest(all, 4)
      BY <3>1, DebugReads
    <3>3. CASE todo' = <<Written(Enabling)>> \o Rest(all, 4)
      <4>1. Enabling.m \in {"fuse", "lock"}
        BY DEF Enabling, BitsOf
      <4>2. PICK more : more = <<Written(Enabling)>>
        OBVIOUS
      <4>5. Busy(Enabling, more, ice') /\ todo' = more \o Rest(all, 4) /\ ~LastPart(Enabling, more)
        BY <3>3, <4>1, <4>2, WritingStarts
      <4>3. Writing(Enabling, Rest(all, 4), Enabled)'
        BY <4>5 DEF Writing
      <4>4. DebugStep(s, 4)'
        BY <1>2, <3>1, <3>2, <4>3 DEF DebugStep
      <4> QED
        BY <3>1, <4>4 DEF DebugAt
    <3>4. CASE todo' = Rest(all, 4) /\ Enabled
      <4>1. DebugStep(s, 4)'
        BY <1>2, <1>4, <3>1, <3>2, <3>4 DEF DebugStep
      <4> QED
        BY <3>1, <4>1 DEF DebugAt
    <3> QED
      BY <2>3, <3>2, <3>3, <3>4
  <2> QED
    BY <2>4, <2>5, <2>6
<1> QED
  BY <1>3, <1>9, <1>10, <1>11

\* What a step of the emulator may do to the fuses.
FusesOr(a, b) ==
  \/ a = b
  \/ a[0] = b[0] /\ a[2] = b[2] /\ a[1] = 0

LEMMA DebugBox ==
  ASSUME LineInv, BoxInv, TodoInv, CallInv, AnswerInv, PartsInv, Box, NEW s, DebugAt(s)
  PROVE  DebugAt(s)' /\ FusesOr(ice'.mem["fuse"], ice.mem["fuse"])
<1>1. PICK k \in 0 .. LastCall(s) : DebugStep(s, k)
  BY DEF DebugAt
<1>2. PICK all : all = initJtagOnChipDebugging(s)
  OBVIOUS
<1>3. /\ \/ todo = Rest(all, k) /\ (k >= 3 => Unlocked) /\ (k >= 4 => Enabled)
         \/ k = 3 /\ Writing(Unlocking, Rest(all, 3), Unlocked)
         \/ k = 4 /\ Unlocked /\ Writing(Enabling, Rest(all, 4), Enabled)
      /\ k >= 2 => drv.assigned
      /\ k >= 7 => ice.params["TIMERS_RUNNING"] = 0
      /\ k = 10 => ice.params["EXTERNAL_RESET"] = 0
  BY <1>1, <1>2 DEF DebugStep
<1>4. todo # <<>> /\ todo' = todo /\ drv' = drv /\ refused \subseteq refused' /\ DOMAIN ice.mem = Memories
  BY BoxTouches DEF PartsInv
<1>5. IsSeq(Rest(all, k)) /\ DebugCallIs(s, k, Rest(all, k), Rest(all, k + 1))
  BY <1>2, DebugCall DEF DebugCallIs
<1>6. CASE todo = Rest(all, k) /\ (k >= 3 => Unlocked) /\ (k >= 4 => Enabled)
  <2>1. /\ k < LastCall(s)
        /\ k = 2 => Head(todo) = LockCall
        /\ k = 3 => Head(todo) = FuseCall
        /\ k \notin {2, 3} => Quiet(Head(todo))
        /\ k >= 7 /\ Head(todo).q.cmd = "B" => Head(todo).q.item = "EXTERNAL_RESET"
    <3>1. PICK r : r = Rest(all, k)
      OBVIOUS
    <3>2. DebugCallIs(s, k, r, Rest(all, k + 1)) /\ todo = r
      BY <1>5, <1>6, <3>1
    <3>3. k # LastCall(s)
      BY <1>4, <3>2 DEF DebugCallIs
    <3>4. k < LastCall(s)
      BY <3>3 DEF LastCall
    <3> QED
      BY <3>2, <3>4 DEF DebugCallIs
  <2>2. Head(todo).op = "read" \/ Quiet(Head(todo))
    BY <2>1, CallKinds DEF LockCall, FuseCall
  <2>3. ice'.mem = ice.mem
    <3>1. ~(Head(todo).op = "cmd" /\ Head(todo).q.cmd \in {"h", "a5"})
      BY <2>2 DEF Quiet
    <3> QED
      BY <3>1, BoxTouches
  <2>4. k >= 7 => ice'.params["TIMERS_RUNNING"] = 0
    <3>1. ASSUME k >= 7
          PROVE  ice'.params["TIMERS_RUNNING"] = ice.params["TIMERS_RUNNING"]
      <4>1. Quiet(Head(todo)) /\ "TIMERS_RUNNING" \in DOMAIN ice.params
        BY <2>1, <3>1 DEF PartsInv, ResetItems
      <4>2. CASE Head(todo).q.cmd = "B"
        <5>1. Head(todo).op = "cmd" /\ "TIMERS_RUNNING" # Head(todo).q.item
          BY <2>1, <3>1, <4>1, <4>2 DEF Quiet
        <5> QED
          BY <4>1, <4>2, <5>1, BoxTouches
      <4>3. CASE Head(todo).q.cmd # "B"
        <5>1. ~(Head(todo).op = "cmd" /\ Head(todo).q.cmd \in {"B", "descriptor"})
          BY <4>1, <4>3 DEF Quiet
        <5>2. ice'.params = ice.params
          BY <5>1, BoxTouches
        <5> QED
          BY <5>2
      <4> QED
        BY <4>2, <4>3
    <3> QED
      BY <1>3, <3>1
  <2>5. k # 10
    BY <2>1 DEF LastCall
  <2>6. (Unlocked => Unlocked') /\ (Enabled => Enabled')
    BY <1>4, <2>3 DEF Unlocked, Enabled
  <2>7. DebugStep(s, k)'
    BY <1>2, <1>3, <1>4, <1>6, <2>4, <2>5, <2>6 DEF DebugStep
  <2> QED
    BY <2>3, <2>7 DEF DebugAt, FusesOr
<1>7. CASE k = 3 /\ Writing(Unlocking, Rest(all, 3), Unlocked)
  <2>1. PICK more : /\ Busy(Unlocking, more, ice) /\ todo = more \o Rest(all, 3)
                    /\ LastPart(Unlocking, more) /\ HasAnswer => Unlocked
    BY <1>7 DEF Writing
  <2>2. IsSeq(Rest(all, 3))
    BY <1>5, <1>7
  <2>3. PICK put : put = Put(ice.mem, Where(Unlocking), Unlocking.bytes)
    OBVIOUS
  <2>4. /\ Busy(Unlocking, more, ice') /\ ice'.params = ice.params
        /\ ice'.mem = ice.mem \/ ice'.mem = put
        /\ LastPart(Unlocking, more) /\ HasAnswer' => "h" \in refused' \/ ice'.mem = put
    BY <2>1, <2>2, <2>3, BusyBox
  <2>5. put["lock"][0] = 1 /\ put["fuse"] = ice.mem["fuse"]
    BY <1>4, <2>3, PutUnlocked
  <2>6. LastPart(Unlocking, more) /\ HasAnswer' => Unlocked'
    BY <2>4, <2>5 DEF Unlocked
  <2>7. Writing(Unlocking, Rest(all, 3), Unlocked)'
    BY <1>4, <2>1, <2>4, <2>6 DEF Writing
  <2>8. DebugStep(s, k)'
    BY <1>2, <1>3, <1>4, <1>7, <2>7 DEF DebugStep
  <2> QED
    BY <2>4, <2>5, <2>8 DEF DebugAt, FusesOr
<1>8. CASE k = 4 /\ Unlocked /\ Writing(Enabling, Rest(all, 4), Enabled)
  <2>1. PICK more : /\ Busy(Enabling, more, ice) /\ todo = more \o Rest(all, 4)
                    /\ LastPart(Enabling, more) /\ HasAnswer => Enabled
    BY <1>8 DEF Writing
  <2>2. IsSeq(Rest(all, 4))
    BY <1>5, <1>8
  <2>3. PICK put : put = Put(ice.mem, Where(Enabling), Enabling.bytes)
    OBVIOUS
  <2>4. /\ Busy(Enabling, more, ice') /\ ice'.params = ice.params
        /\ ice'.mem = ice.mem \/ ice'.mem = put
        /\ LastPart(Enabling, more) /\ HasAnswer' => "h" \in refused' \/ ice'.mem = put
    BY <2>1, <2>2, <2>3, BusyBox
  <2>5. /\ put["fuse"][0] = ice.mem["fuse"][0] /\ put["fuse"][1] = 0 /\ put["fuse"][2] = ice.mem["fuse"][2]
        /\ put["lock"] = ice.mem["lock"]
    BY <1>4, <2>3, PutEnabled
  <2>6. LastPart(Enabling, more) /\ HasAnswer' => Enabled'
    BY <2>4, <2>5 DEF Enabled
  <2>7. Writing(Enabling, Rest(all, 4), Enabled)'
    BY <1>4, <2>1, <2>4, <2>6 DEF Writing
  <2>8. Unlocked'
    BY <1>4, <1>8, <2>4, <2>5 DEF Unlocked
  <2>9. DebugStep(s, k)'
    BY <1>2, <1>3, <1>4, <1>8, <2>7, <2>8 DEF DebugStep
  <2> QED
    BY <2>4, <2>5, <2>9 DEF DebugAt, FusesOr
<1> QED
  BY <1>3, <1>6, <1>7, <1>8

\* When it is done.
LEMMA DebugDone ==
  ASSUME NEW s, DebugAt(s), todo = <<>>
  PROVE  /\ drv.assigned /\ Unlocked /\ Enabled /\ ice.params["TIMERS_RUNNING"] = 0
         /\ Has(s, "R") => ice.params["EXTERNAL_RESET"] = 0
<1>1. PICK k \in 0 .. LastCall(s) : DebugStep(s, k)
  BY DEF DebugAt
<1>2. PICK all : all = initJtagOnChipDebugging(s)
  OBVIOUS
<1>3. DebugCallIs(s, k, Rest(all, k), Rest(all, k + 1))
  BY <1>2, DebugCall
<1>4. ASSUME NEW w, NEW rest, IsSeq(rest), Writing(w, rest, TRUE) PROVE FALSE
  <2>1. PICK more : Busy(w, more, ice) /\ todo = more \o rest
    BY <1>4 DEF Writing
  <2>2. todo # <<>>
    BY <1>4, <2>1, BusyFacts
  <2> QED
    BY <2>2
<1>5. ~Writing(Unlocking, Rest(all, k), Unlocked) /\ ~Writing(Enabling, Rest(all, k), Enabled)
  <2>1. IsSeq(Rest(all, k))
    BY <1>3 DEF DebugCallIs
  <2>2. /\ Writing(Unlocking, Rest(all, k), Unlocked) => Writing(Unlocking, Rest(all, k), TRUE)
        /\ Writing(Enabling, Rest(all, k), Enabled) => Writing(Enabling, Rest(all, k), TRUE)
    BY DEF Writing
  <2> QED
    BY <1>4, <2>1, <2>2
<1>6. /\ todo = Rest(all, k) /\ (k >= 3 => Unlocked) /\ (k >= 4 => Enabled)
      /\ k >= 2 => drv.assigned
      /\ k >= 7 => ice.params["TIMERS_RUNNING"] = 0
      /\ k = 10 => ice.params["EXTERNAL_RESET"] = 0
  BY <1>1, <1>2, <1>5 DEF DebugStep
<1>7. k = LastCall(s)
  BY <1>3, <1>6 DEF DebugCallIs
<1> QED
  BY <1>6, <1>7 DEF LastCall

-----------------------------------------------------------------------------
(* The steps of main that set fuses, lock bits and on-chip debugging.      *)

LEMMA BitsStill ==
  ASSUME UNCHANGED <<todo, ice>>, drv'.assigned = drv.assigned, drv'.kept = drv.kept,
         NEW m, NEW n, NEW bytes, BitsAt(m, n, bytes)
  PROVE  BitsAt(m, n, bytes)'
<1>1. ASSUME NEW k \in 0 .. 5, BitsStep(m, n, bytes, k)
      PROVE  BitsStep(m, n, bytes, k)'
  <2>1. Bits(ice', m, 0, n) = Bits(ice, m, 0, n)
    OBVIOUS
  <2> QED
    BY <1>1, <2>1 DEF BitsStep
<1> QED
  BY <1>1 DEF BitsAt

\* No answer comes but from the emulator.
LEMMA DebugStill ==
  ASSUME LineInv, CallInv, [Next]_vars, ~Box, UNCHANGED <<todo, ice, refused>>, drv'.assigned = drv.assigned,
         NEW s, DebugAt(s)
  PROVE  DebugAt(s)'
<1>1. (Unlocked' <=> Unlocked) /\ (Enabled' <=> Enabled)
  BY DEF Unlocked, Enabled
<1>2. PICK k \in 0 .. LastCall(s) : DebugStep(s, k)
  BY DEF DebugAt
<1>3. PICK all : all = initJtagOnChipDebugging(s)
  OBVIOUS
<1>4. IsSeq(Rest(all, k))
  BY <1>3, DebugCall DEF DebugCallIs
<1>5. ASSUME NEW w, NEW more, Busy(w, more, ice), todo = more \o Rest(all, k), LastPart(w, more), HasAnswer'
      PROVE  HasAnswer
  <2>1. todo # <<>> /\ Head(todo) = Do(What(w))
    <3>1. PICK u : u = Rest(all, k)
      OBVIOUS
    <3>2. PICK S : S = {u[i] : i \in DOMAIN u} \cup {Do(What(w))}
      OBVIOUS
    <3>3. PICK a : a = Do(What(w))
      OBVIOUS
    <3>4. IsSeq(u) /\ todo = <<a>> \o u
      BY <1>4, <1>5, <3>1, <3>3 DEF LastPart
    <3>5. u \in Seq(S) /\ a \in S
      <4>1. {u[i] : i \in DOMAIN u} \subseteq S /\ a \in S
        BY <3>2, <3>3
      <4> QED
        BY <3>4, <4>1, SeqMonotonic DEF IsSeq
    <3>6. <<a>> \o u # <<>> /\ Head(<<a>> \o u) = a
      <4>1. <<a>> \in Seq(S) /\ Len(<<a>>) = 1 /\ <<a>>[1] = a
        BY <3>5
      <4>2. <<a>> \o u \in Seq(S) /\ Len(<<a>> \o u) = 1 + Len(u) /\ Len(u) \in Nat
        BY <3>5, <4>1, ConcatProperties, LenProperties
      <4>3. (<<a>> \o u)[1] = a
        BY <3>5, <4>1, <4>2
      <4> QED
        BY <4>2, <4>3
    <3> QED
      BY <3>3, <3>4, <3>6
  <2>2. IsWhat(Head(todo))
    BY <2>1 DEF IsWhat, Do, What
  <2> QED
    BY <1>5, <2>1, <2>2, AnswerComes
<1>6. /\ k = 3 /\ Writing(Unlocking, Rest(all, 3), Unlocked) => Writing(Unlocking, Rest(all, 3), Unlocked)'
      /\ k = 4 /\ Writing(Enabling, Rest(all, 4), Enabled) => Writing(Enabling, Rest(all, 4), Enabled)'
  <2>1. ASSUME k = 3, Writing(Unlocking, Rest(all, 3), Unlocked)
        PROVE  Writing(Unlocking, Rest(all, 3), Unlocked)'
    <3>1. PICK more : /\ Busy(Unlocking, more, ice) /\ todo = more \o Rest(all, 3)
                      /\ LastPart(Unlocking, more) /\ HasAnswer => Unlocked
      BY <2>1 DEF Writing
    <3>2. LastPart(Unlocking, more) /\ HasAnswer' => Unlocked'
      BY <1>1, <1>5, <2>1, <3>1
    <3> QED
      BY <3>1, <3>2 DEF Writing
  <2>2. ASSUME k = 4, Writing(Enabling, Rest(all, 4), Enabled)
        PROVE  Writing(Enabling, Rest(all, 4), Enabled)'
    <3>1. PICK more : /\ Busy(Enabling, more, ice) /\ todo = more \o Rest(all, 4)
                      /\ LastPart(Enabling, more) /\ HasAnswer => Enabled
      BY <2>2 DEF Writing
    <3>2. LastPart(Enabling, more) /\ HasAnswer' => Enabled'
      BY <1>1, <1>5, <2>2, <3>1
    <3> QED
      BY <3>1, <3>2 DEF Writing
  <2> QED
    BY <2>1, <2>2
<1>7. DebugStep(s, k)'
  BY <1>1, <1>2, <1>3, <1>6 DEF DebugStep
<1> QED
  BY <1>7 DEF DebugAt

Debugs(s) == gdbServerMode(s) /\ ~Has(s, "C")

\* What is there, and that the driver knows the mode of the target.
FusesAre(s) ==
  LET f == FuseText[s.text["W"]]
  IN  /\ drv.assigned
      /\ ice.mem["fuse"][0] = f[1] /\ ice.mem["fuse"][2] = f[3]
      /\ ice.mem["fuse"][1] \in {f[2]} \cup (IF gdbServerMode(s) THEN {0} ELSE {})
LocksAre(s) == drv.assigned /\ ice.mem["lock"][0] = LockText[s.text["L"]][1]
DebugReady(s) ==
  /\ drv.assigned /\ Enabled /\ ice.params["TIMERS_RUNNING"] = 0
  /\ Has(s, "R") => ice.params["EXTERNAL_RESET"] = 0
  /\ s.text["L"] = "" => Unlocked

Asked(s) ==
  /\ main = "writeFuses" /\ s.text["W"] # "" => BitsAt("fuse", 3, FuseText[s.text["W"]])
  /\ main \in {"initOCD"} \cup Behind /\ s.text["W"] # "" => FusesAre(s)
  /\ main = "initOCD" => IF Debugs(s) THEN DebugAt(s) ELSE todo = <<>>
  /\ main \in Behind /\ Debugs(s) => DebugReady(s)
  /\ main = "writeLockBits" =>
       IF s.text["L"] # "" THEN BitsAt("lock", 1, LockText[s.text["L"]]) ELSE todo = <<>>
  /\ main \in {"resume", "session", "ended"} /\ s.text["L"] # "" => LocksAre(s)
  /\ main = "session" => gdbServerMode(s)

\* The settings are those of the command line.
AskedInv == \E s : s = opts /\ Asked(s)

\* The places of main it is about.
LEMMA AskedSteps ==
  /\ \A p \in {"options", "usage", "connect", "configured", "died", "init", "erase", "readFuses", "readLockBits"} :
       p \notin {"writeFuses", "initOCD"} \cup Behind
  /\ {"writeFuses", "initOCD"} \cap Behind = {}
  /\ Behind = {"download", "writeLockBits", "resume", "session", "ended"}
  /\ \A p \in StepSet \ {"resume"} :
       /\ After(p) = "writeFuses" => p = "readLockBits"
       /\ After(p) = "initOCD" => p = "writeFuses"
       /\ After(p) = "download" => p = "initOCD"
       /\ After(p) = "writeLockBits" => p = "download"
       /\ After(p) = "resume" => p = "writeLockBits"
       /\ After(p) \notin {"session", "ended"}
<1>1. StepSet = {"init", "erase", "readFuses", "readLockBits", "writeFuses", "initOCD", "download",
                 "writeLockBits", "resume"}
  BY DEF StepSet, Steps
<1>2. /\ After("init") = "erase" /\ After("erase") = "readFuses" /\ After("readFuses") = "readLockBits"
      /\ After("readLockBits") = "writeFuses" /\ After("writeFuses") = "initOCD" /\ After("initOCD") = "download"
      /\ After("download") = "writeLockBits" /\ After("writeLockBits") = "resume"
  BY DEF After, Steps
<1>3. Behind = {"download", "writeLockBits", "resume", "session", "ended"}
  BY DEF Behind, LateSteps
<1> QED
  BY <1>1, <1>2, <1>3

LEMMA AskedKept ==
  ASSUME ice' = ice, refused' = refused, drv.assigned => drv'.assigned, NEW s
  PROVE  /\ FusesAre(s) => FusesAre(s)'
         /\ DebugReady(s) => DebugReady(s)'
         /\ LocksAre(s) => LocksAre(s)'
<1>1. (Unlocked' <=> Unlocked) /\ (Enabled' <=> Enabled)
  BY DEF Unlocked, Enabled
<1>2. FusesAre(s) => FusesAre(s)'
  BY DEF FusesAre
<1>3. DebugReady(s) => DebugReady(s)'
  BY <1>1 DEF DebugReady
<1>4. LocksAre(s) => LocksAre(s)'
  BY DEF LocksAre
<1> QED
  BY <1>2, <1>3, <1>4

LEMMA AskedCalling ==
  ASSUME Shape, LineInv, TodoInv, CallInv, AnswerInv, PartsInv, PendInv, Calling,
         StartCall \/ Passed \/ (Answered /\ GoesOn), NEW s, Asked(s)
  PROVE  Asked(s)'
<1>1. main' = main /\ ice' = ice /\ refused' = refused /\ todo # <<>>
  BY DEF Calling
<1>2. drv.assigned => drv'.assigned
  <2>1. CASE StartCall
    <3>1. \A q : drv.assigned => Flagged(drv, q).assigned
      BY DEF Flagged, Shape
    <3>2. drv' = drv \/ \E q : drv' = Flagged(drv, q)
      BY <2>1, StartCallFacts
    <3> QED
      BY <3>1, <3>2
  <2>2. CASE Passed
    BY <2>2 DEF Passed
  <2>3. CASE Answered /\ GoesOn
    BY <2>3 DEF GoesOn
  <2> QED
    BY <2>1, <2>2, <2>3
<1>3. /\ FusesAre(s) => FusesAre(s)'
      /\ DebugReady(s) => DebugReady(s)'
      /\ LocksAre(s) => LocksAre(s)'
  BY <1>1, <1>2, AskedKept
<1>4. main = "writeFuses" /\ s.text["W"] # "" => BitsAt("fuse", 3, FuseText[s.text["W"]])'
  <2> SUFFICES ASSUME main = "writeFuses", s.text["W"] # ""
               PROVE  BitsAt("fuse", 3, FuseText[s.text["W"]])'
    OBVIOUS
  <2>1. PICK b : b = FuseText[s.text["W"]]
    OBVIOUS
  <2>2. BitsAt("fuse", 3, b)
    BY <2>1 DEF Asked
  <2>3. BitsAt("fuse", 3, b)'
    BY <2>2, BitsGoes
  <2> QED
    BY <2>1, <2>3
<1>5. main = "writeLockBits" => s.text["L"] # "" /\ BitsAt("lock", 1, LockText[s.text["L"]])'
  <2> SUFFICES ASSUME main = "writeLockBits"
               PROVE  s.text["L"] # "" /\ BitsAt("lock", 1, LockText[s.text["L"]])'
    OBVIOUS
  <2>0. s.text["L"] # ""
    BY <1>1 DEF Asked
  <2>1. PICK b : b = LockText[s.text["L"]]
    OBVIOUS
  <2>2. BitsAt("lock", 1, b)
    BY <2>0, <2>1 DEF Asked
  <2>3. BitsAt("lock", 1, b)'
    BY <2>2, BitsGoes
  <2> QED
    BY <2>0, <2>1, <2>3
<1>6. main = "initOCD" => Debugs(s) /\ DebugAt(s)'
  <2> SUFFICES ASSUME main = "initOCD" PROVE Debugs(s) /\ DebugAt(s)'
    OBVIOUS
  <2>1. Debugs(s) /\ DebugAt(s)
    BY <1>1 DEF Asked
  <2> QED
    BY <2>1, DebugGoes
<1> QED
  BY <1>1, <1>3, <1>4, <1>5, <1>6 DEF Asked

LEMMA AskedStill ==
  ASSUME LineInv, CallInv, [Next]_vars, ~Box, Still, NEW s, Asked(s)
  PROVE  Asked(s)'
<1>1. /\ UNCHANGED <<main, todo, ice, refused>>
      /\ drv'.assigned = drv.assigned /\ drv'.kept = drv.kept
  BY DEF Still
<1>2. /\ FusesAre(s) => FusesAre(s)'
      /\ DebugReady(s) => DebugReady(s)'
      /\ LocksAre(s) => LocksAre(s)'
  BY <1>1, AskedKept
<1>3. \A m, n, bytes : BitsAt(m, n, bytes) => BitsAt(m, n, bytes)'
  BY <1>1, BitsStill
<1>4. DebugAt(s) => DebugAt(s)'
  BY <1>1, DebugStill
<1>5. PICK f, l : f = FuseText[s.text["W"]] /\ l = LockText[s.text["L"]]
  OBVIOUS
<1>6. /\ BitsAt("fuse", 3, f) => BitsAt("fuse", 3, f)'
      /\ BitsAt("lock", 1, l) => BitsAt("lock", 1, l)'
  BY <1>3
<1> QED
  BY <1>1, <1>2, <1>4, <1>5, <1>6 DEF Asked

LEMMA AskedBox ==
  ASSUME LineInv, BoxInv, TodoInv, CallInv, AnswerInv, SwitchInv, PartsInv, LateInv, AimInv, Box,
         NEW s, Asked(s)
  PROVE  Asked(s)'
<1>1. todo # <<>> /\ UNCHANGED <<main, todo, drv>> /\ refused \subseteq refused' /\ main # "ended"
  BY BoxTouches DEF Box, Over
<1>2. CASE main = "writeFuses"
  <2>1. PICK b : b = FuseText[s.text["W"]]
    OBVIOUS
  <2>2. s.text["W"] # "" => BitsAt("fuse", 3, b)
    BY <1>2, <2>1 DEF Asked
  <2>3. s.text["W"] # "" => BitsAt("fuse", 3, b)'
    BY <2>2, BitsBox
  <2> QED
    BY <1>1, <1>2, <2>1, <2>3, AskedSteps DEF Asked
<1>3. CASE main = "initOCD"
  <2>1. Debugs(s) /\ DebugAt(s) /\ (s.text["W"] # "" => FusesAre(s))
    BY <1>1, <1>3 DEF Asked
  <2>2. DebugAt(s)' /\ FusesOr(ice'.mem["fuse"], ice.mem["fuse"])
    BY <2>1, DebugBox
  <2>3. FusesAre(s) => FusesAre(s)'
    BY <1>1, <2>1, <2>2 DEF FusesAre, FusesOr, Debugs
  <2> QED
    BY <1>1, <1>3, <2>1, <2>2, <2>3, AskedSteps DEF Asked
<1>4. CASE main \in LateSteps
  <2>1. /\ \A m \in {"fuse", "lock"} :
              ice'.mem[m] = ice.mem[m] \/ (m = "lock" /\ main = "writeLockBits") \/ (main = "session" /\ ice.progmode)
        /\ \A x \in ResetItems : ice'.params[x] = ice.params[x]
    BY <1>4, LateBox
  <2>2. main = "session" /\ drv.assigned => ~ice.progmode
    <3>1. main = "session" => ~HasOff("mode", todo) /\ main \in Active
      BY DEF TodoInv, TodoOK, Active
    <3> QED
      BY <3>1 DEF SwitchInv
  <2>3. drv.assigned => /\ ice'.mem["fuse"] = ice.mem["fuse"]
                        /\ main # "writeLockBits" => ice'.mem["lock"] = ice.mem["lock"]
    BY <2>1, <2>2
  <2>4. FusesAre(s) => FusesAre(s)'
    BY <1>1, <2>3 DEF FusesAre
  <2>5. main # "writeLockBits" /\ LocksAre(s) => LocksAre(s)'
    BY <1>1, <2>3 DEF LocksAre
  <2>6. ice'.params["EXTERNAL_RESET"] = ice.params["EXTERNAL_RESET"]
        /\ ice'.params["TIMERS_RUNNING"] = ice.params["TIMERS_RUNNING"]
    BY <2>1 DEF ResetItems
  <2>7. main = "writeLockBits" => s.text["L"] # ""
    BY <1>1 DEF Asked
  <2>8. DebugReady(s) => DebugReady(s)'
    <3> SUFFICES ASSUME DebugReady(s) PROVE DebugReady(s)'
      OBVIOUS
    <3>1. Enabled'
      BY <1>1, <2>3 DEF DebugReady, Enabled
    <3>2. s.text["L"] = "" => Unlocked'
      BY <1>1, <2>3, <2>7 DEF DebugReady, Unlocked
    <3> QED
      BY <1>1, <2>6, <3>1, <3>2 DEF DebugReady
  <2>9. main = "writeLockBits" => BitsAt("lock", 1, LockText[s.text["L"]])'
    <3>1. PICK b : b = LockText[s.text["L"]]
      OBVIOUS
    <3>2. main = "writeLockBits" => BitsAt("lock", 1, b)
      BY <2>7, <3>1 DEF Asked
    <3> QED
      BY <3>1, <3>2, BitsBox
  <2>10. main \notin {"writeFuses", "initOCD"} /\ main \in Behind
    BY <1>4, AskedSteps DEF LateSteps
  <2> QED
    BY <1>1, <2>4, <2>5, <2>7, <2>8, <2>9, <2>10 DEF Asked
<1>5. CASE main \notin {"writeFuses", "initOCD"} \cup Behind
  BY <1>1, <1>5, AskedSteps DEF Asked
<1> QED
  BY <1>1, <1>2, <1>3, <1>4, <1>5, BehindFacts

LEMMA AskedCalls ==
  ASSUME NEW s
  PROVE  /\ s.text["W"] # "" => Calls(s, "writeFuses") = WriteBits("fuse", 3, FuseText[s.text["W"]])
         /\ Calls(s, "initOCD") = IF Debugs(s) THEN initJtagOnChipDebugging(s) ELSE <<>>
         /\ Calls(s, "writeLockBits") =
              IF s.text["L"] # "" THEN WriteBits("lock", 1, LockText[s.text["L"]]) ELSE <<>>
<1> DEFINE w == WriteBits("fuse", 3, FuseText[s.text["W"]])
           d == initJtagOnChipDebugging(s)
           l == WriteBits("lock", 1, LockText[s.text["L"]])
<1>1. s.text["W"] # "" => Calls(s, "writeFuses") = w
  BY DEF Calls
<1>2. Calls(s, "initOCD") = IF Debugs(s) THEN d ELSE <<>>
  <2>1. CASE Debugs(s)
    BY <2>1 DEF Calls, Debugs
  <2>2. CASE ~Debugs(s)
    BY <2>2 DEF Calls, Debugs
  <2> QED
    BY <2>1, <2>2
<1>3. Calls(s, "writeLockBits") = IF s.text["L"] # "" THEN l ELSE <<>>
  <2>1. CASE s.text["L"] # ""
    BY <2>1 DEF Calls
  <2>2. CASE s.text["L"] = ""
    BY <2>2 DEF Calls
  <2> QED
    BY <2>1, <2>2
<1> QED
  BY <1>1, <1>2, <1>3

\* What is there, byte by byte.
LEMMA ThereFacts ==
  /\ \A b : BitsThere("fuse", 3, b) =>
       drv.assigned /\ ice.mem["fuse"][0] = b[1] /\ ice.mem["fuse"][1] = b[2] /\ ice.mem["fuse"][2] = b[3]
  /\ \A b : BitsThere("lock", 1, b) => drv.assigned /\ ice.mem["lock"][0] = b[1]
<1>1. /\ 1 \in 1 .. 3 /\ 2 \in 1 .. 3 /\ 3 \in 1 .. 3 /\ 1 \in 1 .. 1
      /\ 1 - 1 = 0 /\ 2 - 1 = 1 /\ 3 - 1 = 2
  OBVIOUS
<1> QED
  BY <1>1 DEF BitsThere

\* A step of main is done.
LEMMA AskedStep ==
  ASSUME Shape, NextStep, NEW s, s = opts, Asked(s)
  PROVE  Asked(s)'
<1>1. /\ main \in StepSet /\ todo = <<>> /\ UNCHANGED <<ice, refused>> /\ drv'.assigned = drv.assigned
  BY DEF NextStep, StepSet, linkVars, Shape
<1>2. \/ main = "resume" /\ main' = "ended" /\ todo' = <<>>
      \/ main = "writeLockBits" /\ gdbServerMode(s) /\ main' = "session" /\ todo' = <<>>
      \/ main # "resume" /\ main' = After(main) /\ main' \in StepSet /\ todo' = Calls(s, main')
  <2>1. "ended" \notin StepSet /\ "session" \notin StepSet
    BY StepFacts
  <2>2. main # "resume" => After(main) \in StepSet
    BY <1>1, StepFacts
  <2>3. \/ main = "resume" /\ main' = "ended" /\ todo' = <<>>
        \/ main = "writeLockBits" /\ gdbServerMode(s) /\ main' = "session" /\ todo' = <<>>
        \/ main # "resume" /\ main' = After(main) /\ (main' \in StepSet => todo' = Calls(s, main'))
    BY <2>1, Zenon DEF NextStep
  <2> QED
    BY <2>2, <2>3
<1>3. /\ FusesAre(s) => FusesAre(s)'
      /\ DebugReady(s) => DebugReady(s)'
      /\ LocksAre(s) => LocksAre(s)'
  BY <1>1, AskedKept
\* What the step that is done leaves behind.
<1>4. main = "writeFuses" /\ s.text["W"] # "" => FusesAre(s)
  <2> SUFFICES ASSUME main = "writeFuses", s.text["W"] # "" PROVE FusesAre(s)
    OBVIOUS
  <2>1. PICK b : b = FuseText[s.text["W"]]
    OBVIOUS
  <2>2. BitsAt("fuse", 3, b)
    BY <2>1 DEF Asked
  <2>3. BitsThere("fuse", 3, b)
    BY <1>1, <2>2, BitsDone
  <2> QED
    BY <2>1, <2>3, ThereFacts DEF FusesAre
<1>5. main = "initOCD" /\ Debugs(s) => DebugReady(s)
  BY <1>1, DebugDone DEF Asked, DebugReady
<1>6. main = "writeLockBits" /\ s.text["L"] # "" => LocksAre(s)
  <2> SUFFICES ASSUME main = "writeLockBits", s.text["L"] # "" PROVE LocksAre(s)
    OBVIOUS
  <2>1. PICK b : b = LockText[s.text["L"]]
    OBVIOUS
  <2>2. BitsAt("lock", 1, b)
    BY <2>1 DEF Asked
  <2>3. BitsThere("lock", 1, b)
    BY <1>1, <2>2, BitsDone
  <2> QED
    BY <2>1, <2>3, ThereFacts DEF LocksAre
<1>7. \/ main' = "ended" /\ main = "resume" /\ todo' = <<>>
      \/ main' = "session" /\ main = "writeLockBits" /\ gdbServerMode(s) /\ todo' = <<>>
      \/ main' = "resume" /\ main = "writeLockBits"
      \/ main' = "writeLockBits" /\ main = "download" /\ todo' = Calls(s, "writeLockBits")
      \/ main' = "download" /\ main = "initOCD"
      \/ main' = "initOCD" /\ main = "writeFuses" /\ todo' = Calls(s, "initOCD")
      \/ main' = "writeFuses" /\ todo' = Calls(s, "writeFuses")
      \/ main' \notin {"writeFuses", "initOCD"} \cup Behind
  <2>1. \/ main = "resume" /\ main' = "ended" /\ todo' = <<>>
        \/ main = "writeLockBits" /\ gdbServerMode(s) /\ main' = "session" /\ todo' = <<>>
        \/ main \in StepSet \ {"resume"} /\ main' = After(main) /\ todo' = Calls(s, main')
    BY <1>1, <1>2
  <2> QED
    BY <2>1, AskedSteps
<1>8. /\ main' = "writeFuses" /\ s.text["W"] # "" => BitsAt("fuse", 3, FuseText[s.text["W"]])'
      /\ main' = "initOCD" => IF Debugs(s) THEN DebugAt(s)' ELSE todo' = <<>>
      /\ main' = "writeLockBits" =>
           IF s.text["L"] # "" THEN BitsAt("lock", 1, LockText[s.text["L"]])' ELSE todo' = <<>>
  <2>0. "ended" # "writeFuses" /\ {"writeFuses", "initOCD", "writeLockBits"} \cap {"ended", "session", "resume", "download"} = {}
    OBVIOUS
  <2>1. /\ main' = "writeFuses" => todo' = Calls(s, "writeFuses")
        /\ main' = "initOCD" => todo' = Calls(s, "initOCD")
        /\ main' = "writeLockBits" => todo' = Calls(s, "writeLockBits")
    BY <1>7, AskedSteps
  <2>2. PICK f, l : f = FuseText[s.text["W"]] /\ l = LockText[s.text["L"]]
    OBVIOUS
  <2>3. main' = "writeFuses" /\ s.text["W"] # "" => BitsAt("fuse", 3, f)'
    <3>1. main' = "writeFuses" /\ s.text["W"] # "" => todo' = WriteBits("fuse", 3, f)
      BY <2>1, <2>2, AskedCalls
    <3> QED
      BY <3>1, BitsStarted
  <2>4. main' = "initOCD" => IF Debugs(s) THEN DebugAt(s)' ELSE todo' = <<>>
    <3>1. main' = "initOCD" => todo' = IF Debugs(s) THEN initJtagOnChipDebugging(s) ELSE <<>>
      BY <2>1, AskedCalls
    <3> QED
      BY <3>1, DebugStarted
  <2>5. main' = "writeLockBits" => IF s.text["L"] # "" THEN BitsAt("lock", 1, l)' ELSE todo' = <<>>
    <3>1. main' = "writeLockBits" =>
            todo' = IF s.text["L"] # "" THEN WriteBits("lock", 1, l) ELSE <<>>
      BY <2>1, <2>2, AskedCalls
    <3> QED
      BY <3>1, BitsStarted
  <2> QED
    BY <2>2, <2>3, <2>4, <2>5
<1>9. /\ main' \in {"initOCD"} \cup Behind /\ s.text["W"] # "" => FusesAre(s)'
      /\ main' \in Behind /\ Debugs(s) => DebugReady(s)'
      /\ main' \in {"resume", "session", "ended"} /\ s.text["L"] # "" => LocksAre(s)'
  BY <1>3, <1>4, <1>5, <1>6, <1>7, AskedSteps DEF Asked
<1>10. main' = "session" => gdbServerMode(s)
  BY <1>7, AskedSteps
<1> QED
  BY <1>8, <1>9, <1>10 DEF Asked

LEMMA InitAsked == Init => AskedInv
<1> SUFFICES ASSUME Init PROVE AskedInv
  OBVIOUS
<1>1. main = "options"
  BY Zenon DEF Init
<1>2. PICK s : s = opts
  OBVIOUS
<1>3. Asked(s)
  BY <1>1, AskedSteps DEF Asked
<1> QED
  BY <1>2, <1>3 DEF AskedInv

LEMMA AskedNext ==
  /\ Shape /\ LineInv /\ BoxInv /\ TodoInv /\ CallInv /\ AnswerInv /\ SwitchInv
  /\ PartsInv /\ PendInv /\ LateInv /\ AimInv /\ AskedInv /\ [Next]_vars
  => AskedInv'
<1> SUFFICES ASSUME Shape, LineInv, BoxInv, TodoInv, CallInv, AnswerInv, SwitchInv,
                    PartsInv, PendInv, LateInv, AimInv, AskedInv, [Next]_vars
             PROVE  AskedInv'
  OBVIOUS
<1>1. PICK s : s = opts /\ Asked(s)
  BY DEF AskedInv
<1>2. ASSUME opts' = opts, Asked(s)' PROVE AskedInv'
  BY <1>1, <1>2 DEF AskedInv
<1>3. ASSUME main' \notin {"writeFuses", "initOCD"} \cup Behind PROVE AskedInv'
  <2>1. PICK r : r = opts'
    OBVIOUS
  <2>2. Asked(r)'
    BY <1>3, AskedSteps DEF Asked
  <2> QED
    BY <2>1, <2>2 DEF AskedInv
<1>4. CASE Box
  BY <1>1, <1>2, <1>4, AskedBox DEF Box
<1>5. CASE ~Box /\ Still
  BY <1>1, <1>2, <1>5, AskedStill DEF Still
<1>6. CASE NextStep
  BY <1>1, <1>2, <1>6, AskedStep DEF NextStep
<1>7. CASE Calling /\ (StartCall \/ Passed \/ (Answered /\ GoesOn))
  BY <1>1, <1>2, <1>7, AskedCalling DEF Calling
<1>8. CASE GetOption \/ EndOfOptions \/ ConfigureMkII \/ Connect
  <2>1. main = "options" \/ main = "connect"
    BY <1>8, Zenon DEF GetOption, EndOfOptions, ConfigureMkII, Connect
  <2>2. main' \in {main, "usage", "connect", "configured", "died", "init"}
    BY <1>8 DEF GetOption, EndOfOptions, ConfigureMkII, Connect, Quit
  <2> QED
    BY <1>3, <2>1, <2>2, AskedSteps
<1>9. CASE StopsShort
  BY <1>3, <1>9, AskedSteps DEF StopsShort
<1>10. CASE GdbAccess
  <2>1. main = "session" /\ UNCHANGED <<main, opts, drv, ice, refused>>
    BY <1>10 DEF GdbAccess, Ready, linkVars
  <2>2. /\ FusesAre(s) => FusesAre(s)'
        /\ DebugReady(s) => DebugReady(s)'
        /\ LocksAre(s) => LocksAre(s)'
    BY <2>1, AskedKept
  <2>3. Asked(s)'
    BY <1>1, <2>1, <2>2 DEF Asked
  <2> QED
    BY <1>2, <2>1, <2>3
<1> QED
  BY <1>4, <1>5, <1>6, <1>7, <1>8, <1>9, <1>10, StepKinds

\* What is behind the writing of fuses, and behind that of lock bits.
LEMMA WrittenFacts ==
  /\ Later("writeFuses") => main \in {"initOCD"} \cup Behind
  /\ Later("writeLockBits") => main \in {"resume", "session", "ended"}
<1> DEFINE i == CHOOSE i \in 1 .. Len(Steps) : Steps[i] = "writeFuses"
           k == CHOOSE k \in 1 .. Len(Steps) : Steps[k] = "writeLockBits"
<1>1. /\ Len(Steps) = 9 /\ Steps[5] = "writeFuses" /\ Steps[6] = "initOCD" /\ Steps[7] = "download"
      /\ Steps[8] = "writeLockBits" /\ Steps[9] = "resume"
  BY DEF Steps
<1>2. i \in 1 .. 9 /\ Steps[i] = "writeFuses" /\ k \in 1 .. 9 /\ Steps[k] = "writeLockBits"
  <2>1. 5 \in 1 .. Len(Steps) /\ 8 \in 1 .. Len(Steps)
    BY <1>1
  <2>2. i \in 1 .. Len(Steps) /\ Steps[i] = "writeFuses"
    BY <1>1, <2>1
  <2>3. k \in 1 .. Len(Steps) /\ Steps[k] = "writeLockBits"
    BY <1>1, <2>1
  <2> QED
    BY <1>1, <2>2, <2>3
<1>3. /\ Later("writeFuses") <=> main \in {Steps[j] : j \in i + 1 .. Len(Steps)} \cup {"session", "ended"}
      /\ Later("writeLockBits") <=> main \in {Steps[j] : j \in k + 1 .. Len(Steps)} \cup {"session", "ended"}
  BY DEF Later
<1> HIDE DEF i, k
<1>4. i = 5 /\ k = 8
  BY <1>2 DEF Steps
<1>5. /\ \A j \in i + 1 .. Len(Steps) : j \in {6, 7, 8, 9}
      /\ \A j \in k + 1 .. Len(Steps) : j = 9
  BY <1>1, <1>4
<1> QED
  BY <1>1, <1>3, <1>5, AskedSteps

-----------------------------------------------------------------------------
(* The theorems.                                                           *)

\* Driver and device are what the command line and the emulator call for: with
\* a mkI the emulator has the descriptor of a device it knows, the one named
\* or the one found, whatever was lost, cut or refused on the way (main.cc:308
\* to 408, jtagio.cc:308 to 420).
THEOREM ConfiguredSound == Spec => []ConfiguredAsGiven
<1>1. Init => /\ Shape /\ LineInv /\ BoxInv /\ TodoInv /\ CallInv /\ AnswerInv /\ LateInv
              /\ OptionsInv /\ DeviceInv
  BY InitShape, InitLine, InitBox, InitTodo, InitLate, InitOptions, InitDevice
<1>2. /\ Shape /\ LineInv /\ BoxInv /\ TodoInv /\ CallInv /\ AnswerInv /\ LateInv /\ OptionsInv /\ DeviceInv
      /\ [Next]_vars
      => /\ Shape' /\ LineInv' /\ BoxInv' /\ TodoInv' /\ CallInv' /\ AnswerInv' /\ LateInv'
         /\ OptionsInv' /\ DeviceInv'
  BY ShapeNext, LineNext, BoxNext, TodoNext, CallNext, AnswerNext, LateNext, OptionsNext, DeviceNext
<1>3. OptionsInv /\ DeviceInv => ConfiguredAsGiven
  <2>1. DeviceInv => RightDevice
    BY DEF DeviceInv, RightDevice, Chosen
  <2>2. DeviceInv => PageFitsCache
    BY KnownRows DEF DeviceInv, PageFitsCache
  <2> QED
    BY <2>1, <2>2 DEF OptionsInv, ConfiguredAsGiven
<1> QED
  BY <1>1, <1>2, <1>3, PTL DEF Spec

\* Past the step that writes them fuses and lock bits are what the command line
\* asks for, whatever the emulator refuses, what is lost or damaged on the way,
\* and what the steps behind do; and a session that is to debug finds the
\* program unlocked, on-chip debugging enabled, timers and reset released,
\* unless a write was refused (main.cc:548 to 590, jtaggeneric.cc:288 to 386,
\* jtagio.cc:423 to 486).
THEOREM TargetSound == Spec => []TargetAsAsked
<1>1. Init => DownloadInv /\ AimInv /\ AskedInv
  BY InitDownload, InitAim, InitAsked
<1>2. DownloadInv /\ AimInv /\ AskedInv /\ [Next]_vars => DownloadInv' /\ AimInv' /\ AskedInv'
  <2> SUFFICES ASSUME DownloadInv, AimInv, AskedInv, [Next]_vars
               PROVE  DownloadInv' /\ AimInv' /\ AskedInv'
    OBVIOUS
  <2>1. /\ Shape /\ LineInv /\ BoxInv /\ TodoInv /\ CallInv /\ AnswerInv /\ SwitchInv
        /\ PartsInv /\ PendInv /\ LateInv
    BY DEF DownloadInv, TargetInv
  <2> QED
    BY <2>1, DownloadNext, AimNext, AskedNext
<1>3. AskedInv => TargetAsAsked
  <2> SUFFICES ASSUME AskedInv PROVE TargetAsAsked
    OBVIOUS
  <2>1. PICK s : s = opts /\ Asked(s)
    BY DEF AskedInv
  <2>2. ReadyToDebug
    <3> SUFFICES ASSUME main = "session", ~Has(s, "C"), "h" \notin refused
                 PROVE  /\ ice.mem["fuse"][1] = 0
                        /\ s.text["L"] = "" => ice.mem["lock"][0] = 1
                        /\ ice.params["TIMERS_RUNNING"] = 0
                        /\ Has(s, "R") => ice.params["EXTERNAL_RESET"] = 0
      BY <2>1 DEF ReadyToDebug
    <3>1. DebugReady(s)
      BY <2>1, AskedSteps DEF Asked, Debugs
    <3> QED
      BY <3>1 DEF DebugReady, Enabled, Unlocked
  <2>3. FusesAsAsked
    BY <2>1, WrittenFacts DEF FusesAsAsked, Asked, FusesAre
  <2>4. LockBitsAsAsked
    BY <2>1, WrittenFacts DEF LockBitsAsAsked, Asked, LocksAre
  <2> QED
    BY <2>2, <2>3, <2>4 DEF TargetAsAsked
<1> QED
  BY <1>1, <1>2, <1>3, PTL DEF Spec
=============================================================================
