------------------------------ MODULE Jtag1Box ------------------------------
(***************************************************************************)
(* The commands of the JTAG ICE mkI: how the driver puts an access to      *)
(* memory into them and reads their answers (jtagrw.cc, jtagprog.cc,       *)
(* jtagrun.cc, jtagmisc.cc), and, external, what the emulator does with    *)
(* the target when it gets one.                                            *)
(*                                                                         *)
(* A byte is one bit, 1 is erased, as in Jtag2Memory; so are fuse bytes,   *)
(* of which the second one is the high fuse with OCDEN (1: disabled), and  *)
(* the lock bits (1: unlocked).  Bytes on the line are sequences.  A page  *)
(* has PageSize bytes whatever the device; the page sizes of the device    *)
(* tables are only told to the emulator.                                   *)
(***************************************************************************)
EXTENDS Integers, Sequences, FiniteSets

CONSTANTS
  PageSize,      \* bytes of a page
  FlashSize,
  EepromSize,
  MaxLocations   \* 256: words of flash, or bytes of another memory, in an access

Memories == {"flash", "eeprom", "fuse", "lock"}
Addrs(m) == 0 .. (CASE m = "flash" -> FlashSize [] m = "eeprom" -> EepromSize
                    [] m = "fuse" -> 3 [] m = "lock" -> 1) - 1

ASSUME BoxAssumption ==
  /\ PageSize \in Nat \ {0} /\ PageSize % 2 = 0
  /\ FlashSize \in Nat /\ FlashSize % PageSize = 0
  /\ EepromSize \in Nat /\ EepromSize % PageSize = 0
  /\ MaxLocations \in Nat /\ MaxLocations >= 3 /\ MaxLocations >= PageSize

Bytes == {0, 1}
Page(addr) == addr - (addr % PageSize)

-----------------------------------------------------------------------------
(* The driver: requests and what is made of the answers.                   *)

setJtagParameter(item, value) == [cmd |-> "B", item |-> item, value |-> value]
getJtagParameter(item) == [cmd |-> "q", item |-> item]
Simple(cmd) == [cmd |-> cmd]
setDeviceDescriptor(d) == [cmd |-> "descriptor", value |-> d]

\* memorySpace and programmingEnabled: flash has two spaces, one for each mode.
Space(m, programmingEnabled) ==
  IF m = "flash" THEN IF programmingEnabled THEN "prog" ELSE "run" ELSE m

\* For an even number of bytes.
swapBytes(b) == [i \in DOMAIN b |-> IF i % 2 = 1 THEN b[i + 1] ELSE b[i - 1]]

\* Words of flash from the even address on, or bytes.
Locations(m, addr, n) ==
  IF m = "flash" THEN IF addr % 2 = 1 THEN (n + 2) \div 2 ELSE (n + 1) \div 2 ELSE n

CanRead(m, addr, n) == Locations(m, addr, n) <= MaxLocations

ReadRequest(m, addr, n, programmingEnabled) ==
  [cmd |-> "R", space |-> Space(m, programmingEnabled), n |-> Locations(m, addr, n),
   addr |-> IF m = "flash" THEN addr \div 2 ELSE addr]

\* Mutant: the bytes are never swapped.
ReadResult_Unswapped(m, addr, n, programmingEnabled, response) ==
  IF m # "flash" THEN response ELSE SubSeq(response, 1 + (addr % 2), n + (addr % 2))
ReadResult(m, addr, n, programmingEnabled, response) ==
  IF m # "flash" THEN response
  ELSE LET b == IF programmingEnabled THEN response ELSE swapBytes(response)
       IN  SubSeq(b, 1 + (addr % 2), n + (addr % 2))

\* Flash is written from even addresses only; the callers give an even number
\* of bytes.
CanWrite(m, addr, bytes) ==
  /\ m = "flash" => addr % 2 = 0
  /\ Locations(m, addr, Len(bytes)) <= MaxLocations

\* A write has two parts: where, and what.
WriteRequests(m, addr, bytes, programmingEnabled) ==
  <<[cmd |-> "W", space |-> Space(m, programmingEnabled), n |-> Locations(m, addr, Len(bytes)),
     addr |-> IF m = "flash" THEN addr \div 2 ELSE addr],
    [cmd |-> "h", bytes |-> IF m = "flash" /\ ~programmingEnabled THEN swapBytes(bytes) ELSE bytes]>>

\* A command is answered with an OK at once and, unless it has no more to say,
\* with the rest and a code for success later.
HasBody(q) == q.cmd \notin {"W", "G", " "}

\* Where the caller throws if that code is not OK.  A refused read is a null
\* pointer; of the others the callers, or jtagWrite itself, look away.
Checked(q) == q.cmd \in {"B", "q", "descriptor", "a3", "a4", "a5"}
Overlooked(q) == q.cmd \in {"F", "x", "h"}

-----------------------------------------------------------------------------
(* The emulator and the target, external.  pending is the first part of a  *)
(* write, params the parameters that have been set.                        *)

NoWrite == [cmd |-> "none"]
Memory(space) == IF space \in {"prog", "run"} THEN "flash" ELSE space

\* Flash is read and written in the space of the mode the target is in; fuses
\* and lock bits in programming mode only.
Open(ice, space) ==
  CASE space = "prog" -> ice.progmode
    [] space = "run" -> ~ice.progmode
    [] space \in {"fuse", "lock"} -> ice.progmode
    [] OTHER -> TRUE

\* The bytes of an access in the order of the line: outside programming mode
\* words come with their high byte first.
Cells(space, addr, n) ==
  CASE space = "prog" -> [i \in 1 .. 2 * n |-> 2 * addr + i - 1]
    [] space = "run" -> [i \in 1 .. 2 * n |-> 2 * addr + (IF i % 2 = 1 THEN i ELSE i - 2)]
    [] OTHER -> [i \in 1 .. n |-> addr + i - 1]

Within(space, addr, n) ==
  LET c == Cells(space, addr, n) IN \A i \in DOMAIN c : c[i] \in Addrs(Memory(space))

Contents(ice, space, addr, n) ==
  LET c == Cells(IF Memory(space) = "flash" THEN Space("flash", ice.progmode) ELSE space, addr, n)
  IN  [i \in DOMAIN c |-> ice.mem[Memory(space)][c[i]]]

Stored(m, old, new) == IF m = "flash" /\ old = 0 THEN 0 ELSE new

Put(mem, w, bytes) ==
  LET m == Memory(w.space)
      c == Cells(w.space, w.addr, w.n)
  IN  [mem EXCEPT ![m] = [a \in Addrs(m) |->
         IF \E i \in DOMAIN c : c[i] = a
           THEN Stored(m, @[a], bytes[CHOOSE i \in DOMAIN c : c[i] = a])
           ELSE @[a]]]

ChipErased(mem) ==
  [mem EXCEPT !["flash"] = [a \in Addrs("flash") |-> 1],
              !["eeprom"] = [a \in Addrs("eeprom") |-> 1],
              !["lock"] = [a \in {0} |-> 1]]

Does(ice, ack, bytes) == [ice |-> ice, ack |-> ack, bytes |-> bytes]
Refuses(ice) == Does(ice, FALSE, <<>>)

\* What may become of a request that the emulator got whole.  Whether flash
\* can be written outside programming mode is not known (jtagrw.cc:203), nor
\* whether it can be read in the space of the other mode.
Outcomes(ice, q) ==
  CASE q.cmd = "B" ->
         {Does(IF q.item = "BITRATE" THEN [ice EXCEPT !.rate = q.value]
               ELSE [ice EXCEPT !.params = [@ EXCEPT ![q.item] = q.value]], TRUE, <<>>)}
    [] q.cmd = "q" ->
         {Does(IF q.item = "JTAGID_BYTE0" THEN [ice EXCEPT !.running = TRUE] ELSE ice, TRUE, <<>>)}
    [] q.cmd = "descriptor" ->
         {Does([ice EXCEPT !.device = q.value.name,
                           !.params["FLASH_PAGESIZE_LOW"] = q.value.dev_desc1.flash_pg_sz % 256,
                           !.params["FLASH_PAGESIZE_HIGH"] = q.value.dev_desc1.flash_pg_sz \div 256,
                           !.params["EEPROM_PAGESIZE"] = q.value.dev_desc1.eeprom_pg_sz], TRUE, <<>>)}
    [] q.cmd = "F" -> {Does([ice EXCEPT !.running = FALSE], TRUE, <<>>)}
    [] q.cmd = "G" -> {Does([ice EXCEPT !.running = TRUE], TRUE, <<>>)}
    [] q.cmd \in {"x", "S", "SE", " ", "1"} -> {Does(ice, TRUE, <<>>)}
    [] q.cmd = "a3" -> {Does([ice EXCEPT !.progmode = TRUE], TRUE, <<>>)}
    [] q.cmd = "a4" -> {Does([ice EXCEPT !.progmode = FALSE], TRUE, <<>>)}
    [] q.cmd = "a5" -> IF ice.progmode THEN {Does([ice EXCEPT !.mem = ChipErased(@)], TRUE, <<>>)}
                       ELSE {Refuses(ice)}
    [] q.cmd = "R" ->
         IF ~Within(q.space, q.addr, q.n) \/ (~Open(ice, q.space) /\ q.space \in {"fuse", "lock"})
           THEN {Refuses(ice)}
           ELSE {Does(ice, TRUE, Contents(ice, q.space, q.addr, q.n))}
                \cup (IF Open(ice, q.space) THEN {} ELSE {Refuses(ice)})
    [] q.cmd = "W" -> {Does([ice EXCEPT !.pending = q], TRUE, <<>>)}
    [] q.cmd = "h" ->
         LET w == ice.pending
             done == [ice EXCEPT !.pending = NoWrite]
         IN  IF w = NoWrite THEN {Refuses(done)}
             ELSE IF Open(ice, w.space) /\ Within(w.space, w.addr, w.n)
               THEN {Does([done EXCEPT !.mem = Put(@, w, q.bytes)], TRUE, <<>>)}
                    \cup (IF w.space = "run" THEN {Refuses(done)} ELSE {})
             ELSE {Refuses(done)}

-----------------------------------------------------------------------------
(* Breakpoints (jtagbp.cc): two lists, of code by words and of data, and   *)
(* the four comparators the code counts on, two of them for code only.     *)
(* jtag1.h:33 and doc/avarice.1 speak of three in all, which the limits    *)
(* below do not.                                                           *)

MAX_BREAKPOINTS == 4
MAX_BREAKPOINTS_CODE == 4
MAX_BREAKPOINTS_DATA == 2

CanAdd(bp, type) ==
  /\ Len(bp.code) + Len(bp.data) # MAX_BREAKPOINTS
  /\ IF type = "CODE" THEN Len(bp.code) # MAX_BREAKPOINTS_CODE ELSE Len(bp.data) # MAX_BREAKPOINTS_DATA

List(type) == IF type = "CODE" THEN "code" ELSE "data"
At(addr, type) == [address |-> IF type = "CODE" THEN addr \div 2 ELSE addr, type |-> type]

addBreakpoint(bp, addr, type) == [bp EXCEPT ![List(type)] = Append(@, At(addr, type))]

\* The first entry like it.
Found(bp, addr, type) == \E i \in DOMAIN bp[List(type)] : bp[List(type)][i] = At(addr, type)
\* Mutant: every entry like it.
deleteBreakpoint_All(bp, addr, type) ==
  [bp EXCEPT ![List(type)] = SelectSeq(@, LAMBDA e : e # At(addr, type))]
deleteBreakpoint(bp, addr, type) ==
  LET l == bp[List(type)]
      first == CHOOSE i \in DOMAIN l : /\ l[i] = At(addr, type)
                                       /\ \A j \in 1 .. i - 1 : l[j] # At(addr, type)
  IN  [bp EXCEPT ![List(type)] = [i \in 1 .. Len(l) - 1 |-> IF i < first THEN l[i] ELSE l[i + 1]]]

\* updateBreakpoints: code goes to Z0, Z1, X and Y in this order, data to what
\* is left of X and Y.  The result says for each comparator what it is to
\* hold.  (jtagContinue, which calls it, is compiled out.)
Slots == <<"Z0", "Z1", "X", "Y">>
updateBreakpoints(bp) ==
  LET code == Len(bp.code)
      \* Data entries start at X, or behind the code entries if these reach X.
      start == IF code > 2 THEN code ELSE 2
      entry(i) == IF i <= code THEN <<bp.code[i]>>
                  ELSE IF i > start /\ i - start <= Len(bp.data) THEN <<bp.data[i - start]>>
                  ELSE <<>>
  IN  [i \in 1 .. 4 |-> entry(i)]
=============================================================================
