------------------------------- MODULE Avarice -------------------------------
(***************************************************************************)
(* avarice from its command line to a session (main.cc): the settings      *)
(* choose a driver and a device; with the mkI, the steps of main and the   *)
(* functions they call (jtagio.cc, jtagrw.cc, jtagprog.cc, jtaggeneric.cc) *)
(* are sequences of commands on Jtag1Link.  With a mkII the model ends     *)
(* when the device is configured; Jtag2Link and Jtag2Memory go on there.   *)
(*                                                                         *)
(* todo is what is left of the step main is in: the calls of the driver    *)
(* that follow each other, each with what is made of its answer.  given    *)
(* and gdb.right are history.                                              *)
(***************************************************************************)
EXTENDS CommandLine, DeviceTable, Jtag1Link

CONSTANTS
  CommandLines,  \* sequences of options, each with its positional argument or ""
  JTAG_DEV,      \* the environment variable, or ""
  Boxes,         \* emulators and targets at the start
  Files,         \* by name: what libbfd finds for flash and for EEPROM
  FuseText,      \* by text of -W: the three bytes, or <<>>
  LockText,      \* by text of -L: the byte, or <<>>
  GdbReads,      \* what GDB reads: memory, address, count
  GdbWrites,     \* what it writes: memory, address, bytes
  Breakpoints,   \* addresses and types of breakpoints
  MaxAccesses,   \* bounds on what GDB does
  MaxBreaks

MAX_IMAGE_SIZE == 1000000

\* The parameters for the sizes of pages.
SizeItems == {"FLASH_PAGESIZE_LOW", "FLASH_PAGESIZE_HIGH", "EEPROM_PAGESIZE"}
\* Those for the target in reset and when it is stopped.
ResetItems == {"EXTERNAL_RESET", "TIMERS_RUNNING"}

\* A command line is a sequence; images have a size; a box is a record of the
\* emulator and the target.
ASSUME AvariceAssumption ==
  /\ \A c \in CommandLines : /\ DOMAIN c = {"options", "port"}
                             /\ c.options \in Seq({c.options[i] : i \in DOMAIN c.options})
  /\ \A f \in DOMAIN Files : \A m \in {"flash", "eeprom"} : DOMAIN Files[f][m] \subseteq 0 .. MAX_IMAGE_SIZE - 1
  /\ \A b \in Boxes : DOMAIN b = {"rate", "sync", "dead", "running", "progmode", "pending", "params",
                                 "device", "id", "mem"}
  /\ \A b \in Boxes : DOMAIN b.mem = Memories /\ SizeItems \cup ResetItems \subseteq DOMAIN b.params
  /\ \A r \in GdbReads : r.m \in Memories /\ r.addr \in Nat /\ r.n \in Nat

VARIABLES
  argv,     \* what is left of the command line
  given,    \* all of it
  opts,     \* the settings
  main,     \* where main is
  todo,
  drv,      \* the driver object
  gdb       \* how much GDB has done, and what it knows

vars == <<linkVars, argv, given, opts, main, todo, drv, gdb>>

Null == <<>>

Init ==
  /\ LinkInit(Boxes)
  /\ argv \in CommandLines
  /\ given = argv
  /\ opts = Defaults
  /\ main = "options"
  /\ todo = <<>>
  \* programmingEnabled is not initialised.
  /\ \E b \in BOOLEAN :
       drv = [programmingEnabled |-> b, assigned |-> FALSE, device |-> "", is_xmega |-> FALSE,
              bp |-> [code |-> <<>>, data |-> <<>>], kept |-> Null, verified |-> TRUE]
  /\ gdb = [accesses |-> 0, breaks |-> 0, set |-> {}, right |-> TRUE]

-----------------------------------------------------------------------------
(* The options.                                                            *)

Quit(where) == main' = where /\ todo' = <<>> /\ UNCHANGED <<argv, given, opts, drv, gdb>>

GetOption ==
  /\ main = "options" /\ argv.options # <<>>
  /\ LET o == Head(argv.options)
     IN  IF OptionOK(o)
           THEN /\ opts' = HandleOption(opts, o)
                /\ argv' = [argv EXCEPT !.options = Tail(@)]
                /\ UNCHANGED <<given, main, todo, drv, gdb>>
           ELSE Quit("usage")
  /\ UNCHANGED linkVars

\* The positional argument, the defaults, and what the constructor is told.
EndOfOptions ==
  /\ main = "options" /\ argv.options = <<>>
  /\ IF argv.port = "" \/ PortOK(argv.port)
       THEN /\ opts' = Complete([opts EXCEPT !.port = IF argv.port = "" THEN NoNumber
                                                      ELSE PortParts[argv.port]], JTAG_DEV)
            /\ drv' = [drv EXCEPT !.is_xmega = opts.protocol = "MKII" /\ Has(opts, "x")]
            /\ main' = "connect"
            /\ UNCHANGED <<argv, given, todo, gdb>>
       ELSE Quit("usage")
  /\ UNCHANGED linkVars

-----------------------------------------------------------------------------
(* The device.                                                             *)

\* Mutant: the row of the device found, whatever the command line says.
Row_Detected(s, id) == ById(id)

\* By its name if there is one, whatever the device says it is.
Row(s, id) == IF s.text["P"] # "" THEN ByName(s.text["P"]) ELSE ById(id)

Supported(row) == Known(row) /\ "MKII_ONLY" \notin row.device_flags

\* initJtagBox and deviceAutoConfig of the mkII.  The row decides about xmega
\* only if it was named.
ConfigureMkII ==
  /\ main = "connect" /\ opts.protocol # "MKI"
  /\ LET row == Row(opts, ice.id)
     IN  IF Known(row)
           THEN /\ drv' = [drv EXCEPT !.device = row.name,
                                      !.is_xmega = IF opts.text["P"] # "" THEN row.is_xmega ELSE @]
                /\ main' = "configured"
                /\ UNCHANGED <<argv, given, opts, todo, gdb>>
           ELSE Quit("died")
  /\ UNCHANGED linkVars

-----------------------------------------------------------------------------
(* The steps of main with the mkI, as sequences of calls.                  *)

Do(q) == [op |-> "cmd", q |-> q, then |-> "next"]
DoThen(q, then) == [op |-> "cmd", q |-> q, then |-> then]
jtagRead(m, addr, n, then) == [op |-> "read", m |-> m, addr |-> addr, n |-> n, then |-> then]
jtagWrite(m, addr, bytes) == [op |-> "write", m |-> m, addr |-> addr, bytes |-> bytes]
check(what, bytes) == [op |-> "check", what |-> what, bytes |-> bytes]

enableProgramming == <<Do(Simple("a3"))>>
disableProgramming == <<Do(Simple("a4"))>>
interruptProgram == <<Do(Simple("F"))>>

\* -R: the reset line is held around the reset.
resetProgram(s, possible_nSRST) ==
  IF possible_nSRST /\ Has(s, "R")
    THEN <<Do(setJtagParameter("EXTERNAL_RESET", 1)), Do(Simple("x")),
           Do(setJtagParameter("EXTERNAL_RESET", 0))>>
    ELSE <<Do(Simple("x"))>>

\* The elements of a finite set of numbers, from the least to the greatest.
InOrder(S) ==
  [i \in 1 .. Cardinality(S) |-> CHOOSE x \in S : Cardinality({y \in S : y < x}) = i - 1]

ChainItems == <<"UNITS_BEFORE", "UNITS_AFTER", "BIT_BEFORE", "BIT_AFTER">>
configDaisyChain(s) ==
  LET used == InOrder({i \in 1 .. 4 : s.dchain[i] > 0})
  IN  [i \in DOMAIN used |-> Do(setJtagParameter(ChainItems[used[i]], s.dchain[used[i]]))]

\* Reading the first byte of the id resumes the program.  Mutant: it is not
\* interrupted again.
deviceAutoConfig_Running(s) ==
  configDaisyChain(s) \o <<Do(getJtagParameter("JTAGID_BYTE0"))>>
  \o <<Do(getJtagParameter("JTAGID_BYTE1")), Do(getJtagParameter("JTAGID_BYTE2")),
       DoThen(getJtagParameter("JTAGID_BYTE3"), "device")>>
deviceAutoConfig(s) ==
  configDaisyChain(s) \o <<Do(getJtagParameter("JTAGID_BYTE0"))>> \o interruptProgram
  \o <<Do(getJtagParameter("JTAGID_BYTE1")), Do(getJtagParameter("JTAGID_BYTE2")),
       DoThen(getJtagParameter("JTAGID_BYTE3"), "device")>>

initJtagBox(s) ==
  <<[op |-> "sync"], DoThen(setJtagParameter("BITRATE", 115200), "rate"),
    Do(getJtagParameter("HW_VERSION")), Do(getJtagParameter("SW_VERSION"))>>
  \o interruptProgram \o deviceAutoConfig(s)

eraseSteps == enableProgramming \o <<Do(Simple("a5"))>> \o disableProgramming

\* jtagReadFuses, jtagReadLockBits.
ReadBits(m, n) ==
  enableProgramming \o <<jtagRead(m, 0, n, "keep")>> \o disableProgramming \o <<check("kept", <<>>)>>

\* jtagWriteFuses, jtagWriteLockBits: a bad text is noticed first; what has
\* been written is read again.  Mutant: it is not compared.
WriteBits_Trusting(m, n, bytes) ==
  IF bytes = <<>> THEN <<check("never", <<>>)>>
  ELSE enableProgramming \o <<jtagWrite(m, 0, bytes)>> \o disableProgramming
WriteBits(m, n, bytes) ==
  IF bytes = <<>> THEN <<check("never", <<>>)>>
  ELSE enableProgramming \o <<jtagWrite(m, 0, bytes), jtagRead(m, 0, n, "keep")>>
       \o disableProgramming \o <<check("same", bytes)>>

\* The JTAG clock, in kHz: the fastest below the rate asked for, but never
\* less than 125.
JtagClock(bitrate) ==
  CASE bitrate >= 1000000 -> 1000
    [] bitrate >= 500000 /\ bitrate < 1000000 -> 500
    [] bitrate >= 250000 /\ bitrate < 500000 -> 250
    [] OTHER -> 125

initJtagOnChipDebugging(s) ==
  <<Do(setJtagParameter("CLOCK", JtagClock(s.jtagBitrate)))>>
  \o enableProgramming
  \o <<jtagRead("lock", 0, 1, "unlock"), jtagRead("fuse", 0, 3, "ocden")>>
  \o disableProgramming
  \o resetProgram(s, FALSE) \o <<Do(setJtagParameter("TIMERS_RUNNING", 0))>> \o resetProgram(s, TRUE)

-----------------------------------------------------------------------------
(* downloadToTarget.                                                       *)

LowestOf(S) == CHOOSE x \in S : \A y \in S : x <= y
HighestOf(S) == CHOOSE x \in S : \A y \in S : y <= x

\* The pages from the first to the last address of an image, in order.
Pages(img) ==
  LET first == Page(LowestOf(DOMAIN img))
      last == HighestOf(DOMAIN img)
  IN  [i \in 1 .. 1 + (Page(last) - first) \div PageSize |-> first + (i - 1) * PageSize]

pageIsEmpty(img, m, page) ==
  \A a \in page .. page + PageSize - 1 : a \in DOMAIN img => m = "flash" /\ img[a] = 1

PageBuffer(img, page) ==
  [i \in 1 .. PageSize |-> IF page + i - 1 \in DOMAIN img THEN img[page + i - 1] ELSE 0]

jtag_flash_image(img, m, program, verify) ==
  LET pages == Pages(img)
      used == InOrder({i \in DOMAIN pages : ~pageIsEmpty(img, m, pages[i])})
      writes == [k \in DOMAIN used |-> jtagWrite(m, pages[used[k]], PageBuffer(img, pages[used[k]]))]
      reads == [i \in DOMAIN pages |-> jtagRead(m, pages[i], PageSize, "verify")]
  IN  IF DOMAIN img = {} THEN <<>>
      ELSE (IF program THEN writes ELSE <<>>)
           \o (IF verify THEN reads \o <<check("verified", <<>>)>> ELSE <<>>)

PageSizes(row) ==
  <<Do(setJtagParameter("FLASH_PAGESIZE_LOW", row.flash_page_size % 256)),
    Do(setJtagParameter("FLASH_PAGESIZE_HIGH", row.flash_page_size \div 256)),
    Do(setJtagParameter("EEPROM_PAGESIZE", row.eeprom_page_size))>>

\* Followed by the reset of main.  A file that is not there is noticed first.
downloadToTarget(s, device) ==
  LET f == Files[s.text["f"]]
  IN  IF s.text["f"] \notin DOMAIN Files THEN <<check("never", <<>>)>>
      ELSE PageSizes(ByName(device)) \o enableProgramming
           \o jtag_flash_image(f["flash"], "flash", Program(s), Verify(s))
           \o jtag_flash_image(f["eeprom"], "eeprom", Program(s), Verify(s))
           \o disableProgramming \o resetProgram(s, FALSE)

-----------------------------------------------------------------------------
(* main.                                                                   *)

Steps == <<"init", "erase", "readFuses", "readLockBits", "writeFuses", "initOCD", "download",
           "writeLockBits", "resume">>
After(p) == LET i == CHOOSE i \in 1 .. Len(Steps) - 1 : Steps[i] = p IN Steps[i + 1]

\* The calls of a step, none if the command line does not ask for it.
Calls(s, p) ==
  CASE p = "init" -> initJtagBox(s)
    [] p = "erase" /\ Has(s, "e") -> eraseSteps
    [] p = "readFuses" /\ Has(s, "r") -> ReadBits("fuse", 3)
    [] p = "readLockBits" /\ Has(s, "l") -> ReadBits("lock", 1)
    [] p = "writeFuses" /\ s.text["W"] # "" -> WriteBits("fuse", 3, FuseText[s.text["W"]])
    [] p = "initOCD" /\ gdbServerMode(s) /\ ~Has(s, "C") -> initJtagOnChipDebugging(s)
    [] p = "download" /\ s.text["f"] # "" -> downloadToTarget(s, drv.device)
    [] p = "download" /\ FileMissing(s) -> <<check("never", <<>>)>>
    [] p = "writeLockBits" /\ s.text["L"] # "" -> WriteBits("lock", 1, LockText[s.text["L"]])
    [] p = "resume" -> <<Do(Simple("G"))>>
    [] OTHER -> <<>>

Free == call.phase = "idle"

\* Over USB, tcflush fails before the first command is sent.
Connect ==
  /\ main = "connect" /\ opts.protocol = "MKI"
  /\ IF is_usb(opts) THEN Quit("died")
     ELSE /\ main' = "init" /\ todo' = Calls(opts, "init")
          /\ UNCHANGED <<argv, given, opts, drv, gdb>>
  /\ UNCHANGED linkVars

\* The step is done.  initJtagBox ends with deleteAllBreakpoints.
NextStep ==
  /\ main \in {Steps[i] : i \in 1 .. Len(Steps)} /\ todo = <<>> /\ Free
  /\ drv' = IF main = "init" THEN [drv EXCEPT !.bp = [code |-> <<>>, data |-> <<>>]] ELSE drv
  /\ main' = IF main = "resume" THEN "ended"
             ELSE IF main = "writeLockBits" /\ gdbServerMode(opts) THEN "session"
             ELSE After(main)
  /\ todo' = IF main' \in {"ended", "session"} THEN <<>> ELSE Calls(opts, main')
  /\ UNCHANGED <<linkVars, argv, given, opts, gdb>>

\* enableProgramming and disableProgramming set the flag before they send.
Flagged(d, q) == IF q.cmd \in {"a3", "a4"}
                   THEN [d EXCEPT !.programmingEnabled = q.cmd = "a3", !.assigned = TRUE] ELSE d

\* The next call of the step.  A write is two commands.
StartCall ==
  /\ Free /\ todo # <<>> /\ Head(todo).op \in {"cmd", "read", "write"}
  /\ LET t == Head(todo)
         pe == drv.programmingEnabled
         w == WriteRequests(t.m, t.addr, t.bytes, pe)
     IN  \/ /\ t.op = "cmd"
            /\ Begin(t.q) /\ drv' = Flagged(drv, t.q) /\ todo' = todo
         \/ /\ t.op = "read"
            /\ Begin(ReadRequest(t.m, t.addr, t.n, pe)) /\ UNCHANGED <<drv, todo>>
         \/ /\ t.op = "write"
            /\ Begin(w[1]) /\ todo' = <<Do(w[1]), Do(w[2])>> \o Tail(todo) /\ drv' = drv
  /\ UNCHANGED <<hostRate, argv, given, opts, main, gdb>>

StartSync ==
  /\ Free /\ todo # <<>> /\ Head(todo).op = "sync"
  /\ startJtagLink
  /\ UNCHANGED <<argv, given, opts, main, todo, drv, gdb>>

Holds(c) == CASE c.what = "kept" -> drv.kept # Null
              [] c.what = "same" -> drv.kept = c.bytes
              [] c.what = "verified" -> drv.verified
              [] c.what = "never" -> FALSE

Check ==
  /\ Free /\ todo # <<>> /\ Head(todo).op = "check"
  /\ IF Holds(Head(todo))
       THEN todo' = Tail(todo) /\ UNCHANGED <<argv, given, opts, main, drv, gdb>>
       ELSE Quit("died")
  /\ UNCHANGED linkVars

-----------------------------------------------------------------------------
(* What is made of an answer.                                              *)

\* The bytes a read has found, or the null pointer.
ReadBytes(t) == IF got.ack THEN ReadResult(t.m, t.addr, t.n, drv.programmingEnabled, got.bytes) ELSE Null

Goes == main' = main /\ UNCHANGED <<argv, given, opts>>
Proceed(d, more) == Goes /\ drv' = d /\ todo' = more \o Tail(todo) /\ gdb' = gdb

\* Mutant: a page is verified if any of its bytes is right.
Verified_Any(img, page, b) ==
  \E i \in 1 .. PageSize : page + i - 1 \in DOMAIN img /\ img[page + i - 1] = b[i]
Verified(img, page, b) ==
  \A i \in 1 .. PageSize : page + i - 1 \in DOMAIN img => img[page + i - 1] = b[i]

Then(t) ==
  CASE t.then = "device" ->
         LET row == Row(opts, ice.id)
         IN  IF Supported(row)
               THEN Proceed([drv EXCEPT !.device = row.name], <<Do(setDeviceDescriptor(row))>>)
               ELSE Quit("died")
    [] t.then = "unlock" ->
         IF ReadBytes(t) = Null THEN Quit("died")
         ELSE Proceed(drv, IF ReadBytes(t) = <<1>> THEN <<>> ELSE <<jtagWrite("lock", 0, <<1>>)>>)
    [] t.then = "ocden" ->
         IF ReadBytes(t) = Null THEN Quit("died")
         ELSE Proceed(drv, IF ReadBytes(t)[2] = 0 THEN <<>> ELSE <<jtagWrite("fuse", 1, <<0>>)>>)
    [] t.then = "keep" -> Proceed([drv EXCEPT !.kept = ReadBytes(t)], <<>>)
    [] t.then = "verify" ->
         IF ReadBytes(t) = Null THEN Quit("died")
         ELSE Proceed([drv EXCEPT !.verified =
                         @ /\ Verified(Files[opts.text["f"]][t.m], t.addr, ReadBytes(t))], <<>>)
    [] t.then = "gdb" ->
         /\ Goes /\ drv' = drv /\ todo' = Tail(todo)
         /\ gdb' = [gdb EXCEPT !.right =
              ReadBytes(t) \in {Null, [i \in 1 .. t.n |-> ice.mem[t.m][t.addr + i - 1]]}]
    [] OTHER -> Proceed(drv, <<>>)

\* The command is answered.  changeBitRate has the PC follow the emulator.
\* Mutant: it does not.
NewRate_Old(t) == UNCHANGED hostRate
NewRate(t) == IF t.op = "cmd" /\ t.then = "rate" THEN hostRate' = 115200 ELSE UNCHANGED hostRate

Answered ==
  /\ call.phase = "done"
  /\ LET t == Head(todo)
     IN  IF t.op = "sync" THEN Proceed(drv, <<>>) /\ UNCHANGED hostRate
         ELSE IF t.op = "cmd" /\ Checked(t.q) /\ ~got.ack THEN Quit("died") /\ UNCHANGED hostRate
         ELSE Then(t) /\ NewRate(t)
  /\ call' = Idle
  /\ got' = NoAnswer
  /\ UNCHANGED <<ice, toIce, toHost, faults, refused>>

\* An exception; initJtagBox has a handler, which ends the program too.
Dies ==
  /\ call.phase = "failed"
  /\ Quit("died")
  /\ call' = Idle
  /\ UNCHANGED <<hostRate, ice, toIce, toHost, got, faults, refused>>

-----------------------------------------------------------------------------
(* A session with GDB.                                                     *)

Ready == main = "session" /\ todo = <<>> /\ Free

GdbAccess ==
  /\ Ready /\ gdb.accesses < MaxAccesses
  /\ \/ \E r \in GdbReads :
          todo' = IF CanRead(r.m, r.addr, r.n) THEN <<jtagRead(r.m, r.addr, r.n, "gdb")>> ELSE <<>>
     \/ \E w \in GdbWrites :
          todo' = IF CanWrite(w.m, w.addr, w.bytes) THEN <<jtagWrite(w.m, w.addr, w.bytes)>> ELSE <<>>
     \/ todo' = <<Do(Simple("1"))>>
  /\ gdb' = [gdb EXCEPT !.accesses = @ + 1, !.right = TRUE]
  /\ UNCHANGED <<linkVars, argv, given, opts, main, drv>>

\* gdb.set is what GDB was told is set.
Insert(b) ==
  /\ Ready /\ gdb.breaks < MaxBreaks /\ b \notin gdb.set
  /\ CanAdd(drv.bp, b.type)
  /\ drv' = [drv EXCEPT !.bp = addBreakpoint(@, b.addr, b.type)]
  /\ gdb' = [gdb EXCEPT !.breaks = @ + 1, !.set = @ \cup {b}]
  /\ UNCHANGED <<linkVars, argv, given, opts, main, todo>>

Remove(b) ==
  /\ Ready /\ gdb.breaks < MaxBreaks /\ b \in gdb.set
  /\ Found(drv.bp, b.addr, b.type)
  /\ drv' = [drv EXCEPT !.bp = deleteBreakpoint(@, b.addr, b.type)]
  /\ gdb' = [gdb EXCEPT !.breaks = @ + 1, !.set = @ \ {b}]
  /\ UNCHANGED <<linkVars, argv, given, opts, main, todo>>

-----------------------------------------------------------------------------
Over == main \in {"usage", "died", "ended", "configured"}
Stays == (Over \/ Ready) /\ UNCHANGED vars

Driver == Host /\ UNCHANGED <<argv, given, opts, main, todo, drv, gdb>>
Box == ~Over /\ (Ice \/ Fault) /\ UNCHANGED <<argv, given, opts, main, todo, drv, gdb>>

Process == GetOption \/ EndOfOptions \/ ConfigureMkII \/ Connect \/ NextStep \/ StartCall \/ StartSync
            \/ Check \/ Answered \/ Dies \/ Driver

Next == \/ Process
        \/ Box
        \/ GdbAccess \/ (\E b \in Breakpoints : Insert(b) \/ Remove(b))
        \/ Stays

Spec == Init /\ [][Next]_vars

\* The process runs as long as it can, and the serial line delivers what it
\* does not lose.  GDB need not do anything.
FairSpec == Spec /\ WF_vars(Process) /\ WF_vars(Box)

-----------------------------------------------------------------------------
(* Properties.                                                             *)

StepSet == {Steps[i] : i \in 1 .. Len(Steps)}
TypeOK ==
  /\ main \in {"options", "usage", "connect", "configured", "session", "ended", "died"} \cup StepSet
  /\ opts.protocol \in {"MKI", "MKII", "MKII_DW"} /\ opts.flags \subseteq FlagOptions
  /\ hostRate \in {19200} \cup {Bitrates[i] : i \in DOMAIN Bitrates}
  /\ call.phase \in Phases \cup {"idle", "done", "failed"} /\ call.tries \in 0 .. MaxTries
  /\ ice.rate \in {Bitrates[i] : i \in DOMAIN Bitrates}
  /\ \A m \in Memories : ice.mem[m] \in [Addrs(m) -> Bytes]
  /\ drv.programmingEnabled \in BOOLEAN /\ drv.verified \in BOOLEAN
  /\ faults \in 0 .. MaxFaults /\ refused \subseteq {"F", "x", "h"}

\* The box is set up; a step, the session or the end has been reached.
SetUp == main \in (StepSet \ {"init"}) \cup {"session", "ended"}
Later(p) == LET i == CHOOSE i \in 1 .. Len(Steps) : Steps[i] = p
            IN  main \in {Steps[j] : j \in i + 1 .. Len(Steps)} \cup {"session", "ended"}

\* The protocol does not depend on how options that do not matter to it are
\* mixed in: what main.cc:308 to 408 makes of them one by one is what follows
\* the last -1, with -w before -2 and -g.
ProtocolAsGiven ==
  main \notin {"options", "usage"} => opts.protocol = ProtocolOf(given.options)

\* The emulator has the descriptor of the row the driver goes by, which is the
\* device found unless the command line names another, and one the mkI knows.
RightDevice ==
  SetUp => /\ ice.device = drv.device
           /\ "MKII_ONLY" \notin ByName(drv.device).device_flags
           /\ IF opts.text["P"] # "" THEN drv.device = opts.text["P"]
              ELSE ByName(drv.device).device_id = ice.id

\* A page of the device fits into the page caches of the mkII driver
\* (jtag2.h:139 to 142), which jtag2rw.cc fills unseen.  The ATxmega rows are
\* the exception.
MAX_FLASH_PAGE_SIZE == 256
MAX_EEPROM_PAGE_SIZE == 16
TooLarge == {"atxmega128a1revd", "atxmega128a1"}
PageFitsCache ==
  main = "configured" /\ drv.device \notin TooLarge =>
    /\ ByName(drv.device).flash_page_size \in 1 .. MAX_FLASH_PAGE_SIZE
    /\ ByName(drv.device).eeprom_page_size \in 1 .. MAX_EEPROM_PAGE_SIZE

\* Driver and device are what the command line and the emulator call for, and
\* their tables fit.
ConfiguredAsGiven == ProtocolAsGiven /\ RightDevice /\ PageFitsCache

\* While main works on the target its program is stopped, although
\* reading the id resumes it (jtagio.cc:327), and between two steps it is not
\* in programming mode; unless the emulator refused to stop it, which
\* interruptProgram reports to nobody.
StoppedBetweenSteps ==
  SetUp /\ main # "ended" /\ todo = <<>> /\ Free =>
    /\ ~ice.progmode /\ (drv.assigned => ~drv.programmingEnabled)
    /\ "F" \notin refused /\ main # "resume" => ~ice.running

\* A session that was not started with -C finds the program unlocked and
\* on-chip debugging enabled, and the reset line and the timers released,
\* unless a write was refused, which jtagWrite does not notice.
ReadyToDebug ==
  main = "session" /\ ~Has(opts, "C") /\ "h" \notin refused =>
    /\ ice.mem["fuse"][1] = 0
    /\ opts.text["L"] = "" => ice.mem["lock"][0] = 1
    /\ ice.params["TIMERS_RUNNING"] = 0
    /\ Has(opts, "R") => ice.params["EXTERNAL_RESET"] = 0

\* Fuses and lock bits end up as the command line has them, whatever the steps
\* in between do to them and whatever the emulator refuses (main.cc:560, 592),
\* but for OCDEN, which a session enables.
FusesAsAsked ==
  Later("writeFuses") /\ opts.text["W"] # "" =>
    LET f == FuseText[opts.text["W"]]
    IN  /\ ice.mem["fuse"][0] = f[1] /\ ice.mem["fuse"][2] = f[3]
        /\ ice.mem["fuse"][1] \in {f[2]} \cup (IF gdbServerMode(opts) THEN {0} ELSE {})

LockBitsAsAsked ==
  Later("writeLockBits") /\ opts.text["L"] # "" =>
    ice.mem["lock"][0] = LockText[opts.text["L"]][1]

\* The target is left as the command line asks for it.
TargetAsAsked == ReadyToDebug /\ FusesAsAsked /\ LockBitsAsAsked

\* Whoever asks for verification and gets past it has the file in the target,
\* in the order of its bytes, even if writes were refused.
VerifySound ==
  Later("download") /\ opts.text["f"] # "" /\ Verify(opts) /\ gdb.accesses = 0 =>
    \A m \in {"flash", "eeprom"} :
      LET img == Files[opts.text["f"]][m]
      IN  \A a \in DOMAIN img : ice.mem[m][a] = img[a]

\* The emulator was told the page sizes of the table before it programmed,
\* although the descriptor it got first may have others (devdescr.cc).
PagesAsTable ==
  Later("download") /\ opts.text["f"] # "" =>
    /\ ice.params["FLASH_PAGESIZE_LOW"] + 256 * ice.params["FLASH_PAGESIZE_HIGH"]
         = ByName(drv.device).flash_page_size
    /\ ice.params["EEPROM_PAGESIZE"] = ByName(drv.device).eeprom_page_size

\* What is past a download has been done with the right pages and is there.
DownloadSound == VerifySound /\ PagesAsTable

\* Without a fault avarice stops short for reasons of its user only: whatever
\* state the emulator is found in, whatever is asked of it.
Reason(s) ==
  \/ is_usb(s) /\ s.protocol = "MKI"
  \/ IF s.protocol = "MKI" THEN ~Supported(Row(s, ice.id)) ELSE ~Known(Row(s, ice.id))
  \/ s.text["W"] # "" /\ FuseText[s.text["W"]] = <<>>
  \/ s.text["L"] # "" /\ LockText[s.text["L"]] = <<>>
  \/ FileMissing(s) \/ (s.text["f"] # "" /\ s.text["f"] \notin DOMAIN Files)
  \/ Verify(s) /\ ~(Has(s, "e") /\ Program(s))
DiesForAReason == main = "died" /\ faults = 0 => Reason(opts)

\* GDB reads what is in memory, from odd addresses too, whether the words come
\* swapped or not (jtagrw.cc:143 to 150); provided programmingEnabled has
\* been given a value, which with -C alone it has not.
GdbReadsMemory == drv.assigned => gdb.right

\* What addBreakpoint accepts, updateBreakpoints can place: each entry in a
\* comparator of its own, data not in one for code only (jtagbp.cc), of the four
\* both of them count on.  That there are but three, as jtag1.h:33 says, is not
\* what the code does.
BreakpointsFit ==
  LET slots == updateBreakpoints(drv.bp)
      Of(l) == Cardinality({i \in 1 .. 4 : slots[i] # <<>> /\ \E j \in DOMAIN l : slots[i] = <<l[j]>>})
      Placed(e) == \E i \in 1 .. 4 : slots[i] = <<e>>
  IN  /\ \A j \in DOMAIN drv.bp.code : Placed(drv.bp.code[j])
      /\ \A j \in DOMAIN drv.bp.data : Placed(drv.bp.data[j])
      /\ Of(drv.bp.code) + Of(drv.bp.data) = Len(drv.bp.code) + Len(drv.bp.data)
      /\ \A i \in 1 .. 2 : slots[i] # <<>> => slots[i][1].type = "CODE"

\* The lists are what GDB has set, also where two of its addresses are in one
\* word: each of them has an entry, until it is removed.
BreakpointsKept ==
  \A b \in Breakpoints :
    Cardinality({i \in DOMAIN drv.bp[List(b.type)] : drv.bp[List(b.type)][i] = At(b.addr, b.type)})
      = Cardinality({c \in gdb.set : c.type = b.type /\ At(c.addr, c.type) = At(b.addr, b.type)})

\* GDB's breakpoints are in the lists, and the lists in the four comparators.
BreakpointsPlaced == BreakpointsFit /\ BreakpointsKept

\* avarice gets to its session, or ends: attempts are counted in the
\* loops that send blanks and quieten the target too (jtagio.cc:170 to 187).
Settles == <>(Over \/ main = "session") /\ []<>(Over \/ Ready)
=============================================================================
