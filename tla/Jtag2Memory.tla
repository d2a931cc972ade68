----------------------------- MODULE Jtag2Memory -----------------------------
(***************************************************************************)
(* Memory access and programming through the JTAG ICE mkII: jtagRead and   *)
(* jtagWrite with their page caches (jtag2rw.cc), the programming mode and *)
(* the download of a file (jtag2prog.cc, jtaggeneric.cc), as main.cc calls *)
(* them one after the other in avarice, or as a script of the console      *)
(* does in any order.                                                      *)
(*                                                                         *)
(* A byte is one bit: 1 is erased (0xff), 0 is anything else.  Fuses and   *)
(* lock bits are one bit each: 1 is OCD disabled, and unlocked.  The       *)
(* target is external: writing flash clears bits, erasing sets them.       *)
(* A command may always be refused; the exception that follows is caught   *)
(* by none of the callers here and ends the process (Dies).                *)
(*                                                                         *)
(* last, job.before, assigned and touched are history.                     *)
(***************************************************************************)
EXTENDS Integers, Sequences, FiniteSets

CONSTANTS
  PageSize,       \* flash_page_size and eeprom_page_size of the device
  FlashSize,
  EepromSize,
  LoadThreshold,  \* the 4 of "larger than 4 bytes" in jtagWrite
  InitialFlash,   \* contents the flash may have at the start
  Files,          \* what may be downloaded: its flash and EEPROM images
  Reads,          \* what a debugger or a script reads: memory, address, count
  Writes          \* what it writes
  
Bytes == {0, 1}
FlashAddrs == 0 .. FlashSize - 1
EepromAddrs == 0 .. EepromSize - 1
Memories == {"flash", "eeprom", "fuse", "lock"}
Addrs(m) == CASE m = "flash" -> FlashAddrs [] m = "eeprom" -> EepromAddrs [] OTHER -> {0}

ASSUME MemoryAssumption ==
  /\ PageSize \in Nat \ {0} /\ LoadThreshold \in Nat
  /\ FlashSize \in Nat /\ FlashSize % PageSize = 0
  /\ EepromSize \in Nat /\ EepromSize % PageSize = 0
  /\ InitialFlash \subseteq [FlashAddrs -> Bytes]
  /\ \A f \in Files : /\ DOMAIN f = {"flash", "eeprom"}
                      /\ DOMAIN f["flash"] \subseteq FlashAddrs
                      /\ DOMAIN f["eeprom"] \subseteq EepromAddrs
                      /\ \A m \in DOMAIN f : \A a \in DOMAIN f[m] : f[m][a] \in Bytes
  /\ \A r \in Reads \cup Writes : /\ r.m \in Memories /\ r.addr \in Nat /\ r.n \in Nat \ {0}
                                  /\ r.addr .. r.addr + r.n - 1 \subseteq Addrs(r.m)

VARIABLES
  frontend,     \* "avarice" or "manuel"
  useDebugWire,
  server,       \* gdbServerMode and, with it, capture: "none", "attach", "capture"
  pos,          \* where main is
  sys,          \* the driver object and the target
  job,          \* downloadToTarget in progress
  last          \* the last read or write: what it was, and whether it was right

vars == <<frontend, useDebugWire, server, pos, sys, job, last>>

Erased == 1
None == -1
Junk == -1

Base(a) == a - (a % PageSize)
PageAt(mem, base) == [i \in 0 .. PageSize - 1 |-> mem[base + i]]
LowestOf(S) == CHOOSE x \in S : \A y \in S : x <= y
HighestOf(S) == CHOOSE x \in S : \A y \in S : y <= x

-----------------------------------------------------------------------------
(* The programming mode and erasure: operators from driver and target to   *)
(* driver and target.  progmode is the target's side of it.                *)

enableProgramming(s) ==
  IF useDebugWire THEN s
  ELSE [s EXCEPT !.programmingEnabled = TRUE, !.progmode = TRUE, !.assigned = TRUE]

\* Mutant: the flag stays set.
disableProgramming_Sticky(s) == IF useDebugWire THEN s ELSE [s EXCEPT !.progmode = FALSE]

disableProgramming(s) ==
  IF useDebugWire THEN s
  ELSE [s EXCEPT !.programmingEnabled = FALSE, !.progmode = FALSE, !.assigned = TRUE]

\* The EEPROM goes too unless a fuse saves it; the caches are left alone.
eraseProgramMemory(s) ==
  [s EXCEPT !.mem["flash"] = [a \in FlashAddrs |-> Erased],
            !.mem["eeprom"] = IF s.eesave THEN @ ELSE [a \in EepromAddrs |-> Erased],
            !.mem["lock"] = [a \in {0} |-> 1],
            !.touched = [m \in {"flash", "eeprom"} |-> IF m = "eeprom" /\ s.eesave THEN @[m] ELSE TRUE]]

eraseProgramPage(s, base) ==
  [s EXCEPT !.mem["flash"] = [a \in FlashAddrs |-> IF Base(a) = base THEN Erased ELSE @[a]],
            !.touched["flash"] = @ \/ s.cache["flash"].base = base]

-----------------------------------------------------------------------------
(* jtagRead and jtagWrite.                                                 *)

memorySpace(s, m) ==
  CASE m = "flash" -> IF useDebugWire \/ s.programmingEnabled THEN "FLASH_PAGE" ELSE "SPM"
    [] m = "eeprom" -> IF ~useDebugWire /\ s.programmingEnabled THEN "EEPROM_PAGE" ELSE "EEPROM"
    [] m = "fuse" -> "FUSE_BITS"
    [] m = "lock" -> "LOCK_BITS"

Paged(space) == space \in {"FLASH_PAGE", "EEPROM_PAGE"}
needProgmode(space) == Paged(space) \/ space \in {"FUSE_BITS", "LOCK_BITS"}

\* Around an access that needs programming mode; the second is left out when
\* the mode was on before.
Enter(s, space) ==
  IF needProgmode(space) /\ ~s.programmingEnabled THEN enableProgramming(s) ELSE s

\* Mutant: the mode is always left.
Leave_Always(s, space, was) == IF needProgmode(space) THEN disableProgramming(s) ELSE s
Leave(s, space, was) ==
  IF needProgmode(space) /\ ~was THEN disableProgramming(s) ELSE s

\* Whether the target answers at all: programming mode is needed for what is
\* read by pages and for fuses, which debugWire cannot read.
Answers(s, space) ==
  /\ needProgmode(space) => s.progmode \/ useDebugWire
  /\ useDebugWire => space \notin {"FUSE_BITS", "LOCK_BITS"}

\* The cached page, or else the target's.  Mutant: any cached page will do.
Fetched_AnyPage(s, m, base) ==
  IF s.cache[m].base # None THEN s.cache[m].data ELSE PageAt(s.mem[m], base)
Fetched(s, m, base) ==
  IF s.cache[m].base = base THEN s.cache[m].data ELSE PageAt(s.mem[m], base)

\* The first chunk ends with its page; offset is not reset for the following
\* ones, so that they are copied from beyond the page they are in (Junk).
ReadPages(s, m, addr, n) ==
  LET base == Base(addr)
      offset == addr - base
      first == LowestOf({n, PageSize - offset})
      Chunk(i) == IF i < first THEN 0 ELSE 1 + (i - first) \div PageSize
      Page(c) == IF c = 0 THEN Fetched(s, m, base) ELSE PageAt(s.mem[m], base + c * PageSize)
      At(i) == offset + (IF i < first THEN i ELSE (i - first) % PageSize)
      end == Chunk(n - 1)
  IN  [bytes |-> [i \in 0 .. n - 1 |-> IF At(i) < PageSize THEN Page(Chunk(i))[At(i)] ELSE Junk],
       sys |-> IF end = 0 /\ s.cache[m].base = base THEN s
               ELSE [s EXCEPT !.cache[m] = [base |-> base + end * PageSize, data |-> Page(end)],
                              !.touched[m] = FALSE]]

\* An even number of bytes from an even address, moved down by one if the
\* address was odd: the last one is then left over from before the move.
ReadSpm(s, addr, n) ==
  LET even == n + (n % 2)
      Response(i) == s.mem["flash"][(addr - (addr % 2)) + i]
  IN  [bytes |-> [i \in 0 .. n - 1 |-> IF i + (addr % 2) < even THEN Response(i + (addr % 2))
                                       ELSE Response(i - 1)],
       sys |-> s]

ReadPlain(s, m, addr, n) ==
  [bytes |-> [i \in 0 .. n - 1 |-> s.mem[m][addr + i]], sys |-> s]

jtagRead(s, m, addr, n) ==
  LET space == memorySpace(s, m)
      r == IF Paged(space) THEN ReadPages(Enter(s, space), m, addr, n)
           ELSE IF space = "SPM" THEN ReadSpm(s, addr, n)
           ELSE ReadPlain(Enter(s, space), m, addr, n)
  IN  [bytes |-> r.bytes, sys |-> Leave(r.sys, space, s.programmingEnabled),
       answered |-> Answers(Enter(s, space), space)]

\* What the target makes of a write.
Stored(m, old, new) == IF m = "flash" /\ old = 0 THEN 0 ELSE new

Store(s, m, addr, bytes) ==
  LET n == Cardinality(DOMAIN bytes)
      where == addr .. addr + n - 1
      mem == [a \in Addrs(m) |-> IF a \in where THEN Stored(m, s.mem[m][a], bytes[a - addr])
                                 ELSE s.mem[m][a]]
  IN  IF m \in {"flash", "eeprom"}
        THEN [s EXCEPT !.mem[m] = mem,
                       !.touched[m] = @ \/ \E a \in where : Base(a) = s.cache[m].base]
        ELSE [s EXCEPT !.mem[m] = mem]

\* The first block of a GDB load: erase the chip.
IsLoad(space, addr, n) == space = "SPM" /\ addr = 0 /\ n > LoadThreshold

\* answered is FALSE too when the check of the number of bytes throws.
jtagWrite(s, m, addr, bytes) ==
  LET space == memorySpace(s, m)
      n == Cardinality(DOMAIN bytes)
      begin == IF IsLoad(space, addr, n) THEN eraseProgramMemory(s) ELSE s
      at == IF Paged(space) THEN Base(addr) ELSE addr
  IN  [sys |-> Leave(Store(Enter(begin, space), m, at, bytes), space, s.programmingEnabled),
       answered |-> Answers(Enter(s, space), space) /\ (Paged(space) => n = PageSize)]

-----------------------------------------------------------------------------
(* main.                                                                   *)

NoJob == [part |-> "none"]
NoCache == [base |-> None, data |-> [i \in 0 .. PageSize - 1 |-> Junk]]
NoAccess == [op |-> "none", right |-> TRUE, stale |-> FALSE, placed |-> TRUE]

Steps == <<"erase", "readFuses", "readLockBits", "writeFuses", "initOCD", "download",
           "writeLockBits", "session">>
After(p) == LET i == CHOOSE i \in 1 .. Len(Steps) - 1 : Steps[i] = p IN Steps[i + 1]

Goes(p) == frontend = "avarice" /\ pos = p /\ pos' = After(p)

\* No constructor sets programmingEnabled: it is any value until it is assigned.
Init ==
  /\ frontend \in {"avarice", "manuel"}
  /\ useDebugWire \in BOOLEAN /\ (frontend = "manuel" => ~useDebugWire)
  /\ server \in {"none", "attach", "capture"} /\ (frontend = "manuel" => server = "none")
  /\ pos = IF frontend = "avarice" THEN "erase" ELSE "session"
  /\ \E flash \in InitialFlash, fuse \in Bytes, lock \in Bytes, eesave \in BOOLEAN,
         garbage \in BOOLEAN :
       sys = [programmingEnabled |-> garbage, assigned |-> FALSE, progmode |-> FALSE, eesave |-> eesave,
              mem |-> [flash |-> flash, eeprom |-> [a \in EepromAddrs |-> Erased],
                       fuse |-> [a \in {0} |-> fuse], lock |-> [a \in {0} |-> lock]],
              cache |-> [flash |-> NoCache, eeprom |-> NoCache],
              touched |-> [m \in {"flash", "eeprom"} |-> FALSE]]
  /\ job = NoJob
  /\ last = NoAccess

\* What the command line does not ask for.
Skip ==
  /\ \E p \in {"erase", "readFuses", "readLockBits", "writeFuses", "download", "writeLockBits"} : Goes(p)
  /\ UNCHANGED <<frontend, useDebugWire, server, sys, job, last>>

\* Under debugWire the wish is ignored.
Erase ==
  /\ Goes("erase")
  /\ sys' = IF useDebugWire THEN sys
            ELSE disableProgramming(eraseProgramMemory(enableProgramming(sys)))
  /\ UNCHANGED <<frontend, useDebugWire, server, job, last>>

\* jtagReadFuses, jtagReadLockBits
ReadBits(p, m) ==
  /\ Goes(p)
  /\ LET r == jtagRead(enableProgramming(sys), m, 0, 1)
     IN  r.answered /\ sys' = disableProgramming(r.sys)
  /\ UNCHANGED <<frontend, useDebugWire, server, job, last>>

\* jtagWriteFuses, jtagWriteLockBits: written, read again and compared.
WriteBits(p, m, v) ==
  /\ Goes(p)
  /\ LET w == jtagWrite(enableProgramming(sys), m, 0, [i \in {0} |-> v])
         r == jtagRead(w.sys, m, 0, 1)
     IN  /\ w.answered /\ r.answered /\ r.bytes[0] = v
         /\ sys' = disableProgramming(r.sys)
  /\ UNCHANGED <<frontend, useDebugWire, server, job, last>>

\* Unlock, and enable on-chip debugging, where they are not; then reset, which
\* waits for an event in a loop without an end, except under debugWire.
Ensure(s, m, v) ==
  LET r == jtagRead(s, m, 0, 1)
  IN  IF r.bytes[0] = v THEN r.sys ELSE jtagWrite(r.sys, m, 0, [i \in {0} |-> v]).sys

InitJtagOnChipDebugging ==
  /\ frontend = "avarice" /\ pos = "initOCD"
  /\ IF server # "attach" \/ useDebugWire
       THEN pos' = After(pos) /\ sys' = sys
       ELSE /\ sys' = disableProgramming(Ensure(Ensure(enableProgramming(sys), "lock", 1), "fuse", 0))
            /\ pos' = "stuck"
  /\ UNCHANGED <<frontend, useDebugWire, server, job, last>>

-----------------------------------------------------------------------------
(* downloadToTarget: flash, then EEPROM; each is programmed page by page,  *)
(* then verified page by page.                                             *)

HasData(f, m) == DOMAIN f[m] # {}
FirstPage(img) == Base(LowestOf(DOMAIN img))
LastAddress(img) == 1 + HighestOf(DOMAIN img)

\* Mutant: unused bytes count.
pageIsEmpty_Unused(img, m, addr) ==
  \A a \in addr .. addr + PageSize - 1 : m = "flash" /\ a \in DOMAIN img /\ img[a] = Erased

pageIsEmpty(img, m, addr) ==
  \A a \in addr .. addr + PageSize - 1 : a \in DOMAIN img => m = "flash" /\ img[a] = Erased

\* Bytes of a page that the file does not have are 0x00 (initImage).  Mutant:
\* they are not initialised.
PageBuffer_Raw(img, addr) ==
  [i \in 0 .. PageSize - 1 |-> IF addr + i \in DOMAIN img THEN img[addr + i] ELSE Junk]
PageBuffer(img, addr) ==
  [i \in 0 .. PageSize - 1 |-> IF addr + i \in DOMAIN img THEN img[addr + i] ELSE 0]

StartImage(j, m) ==
  IF m = "done" THEN [j EXCEPT !.part = m]
  ELSE [j EXCEPT !.part = m, !.phase = "program", !.addr = FirstPage(j.file[m])]

Following(f, part) ==
  IF part = "begin" /\ HasData(f, "flash") THEN "flash"
  ELSE IF part # "eeprom" /\ HasData(f, "eeprom") THEN "eeprom"
  ELSE "done"

StartDownload(f, program, verify) ==
  /\ frontend = "avarice" /\ pos = "download"
  /\ program \/ verify
  /\ pos' = "downloading"
  /\ sys' = enableProgramming(sys)
  /\ job' = StartImage([part |-> "begin", phase |-> "program", addr |-> 0, file |-> f,
                        program |-> program, verify |-> verify, verified |-> TRUE,
                        before |-> [m \in {"flash", "eeprom"} |-> sys.mem[m]]],
                       Following(f, "begin"))
  /\ UNCHANGED <<frontend, useDebugWire, server, last>>

\* The loops of jtag_flash_image are in the middle of an image, or at its end.
Image == job.file[job.part]
In(phase) == pos = "downloading" /\ job.part \in {"flash", "eeprom"} /\ job.phase = phase

\* Mutant: the page with the last byte of the image is left out.
More_Short == job.addr + PageSize < LastAddress(Image)
More == job.addr < LastAddress(Image)

ProgramPage ==
  /\ In("program") /\ job.program /\ More
  /\ IF pageIsEmpty(Image, job.part, job.addr)
       THEN sys' = sys
       ELSE LET w == jtagWrite(sys, job.part, job.addr, PageBuffer(Image, job.addr))
            IN  w.answered /\ sys' = w.sys
  /\ job' = [job EXCEPT !.addr = @ + PageSize]
  /\ UNCHANGED <<frontend, useDebugWire, server, pos, last>>

EndProgram ==
  /\ In("program") /\ (job.program => ~More)
  /\ job' = [job EXCEPT !.phase = "verify", !.addr = FirstPage(Image), !.verified = TRUE]
  /\ UNCHANGED <<frontend, useDebugWire, server, pos, sys, last>>

VerifyPage ==
  /\ In("verify") /\ job.verify /\ More
  /\ LET r == jtagRead(sys, job.part, job.addr, PageSize)
     IN  /\ r.answered /\ sys' = r.sys
         /\ job' = [job EXCEPT !.addr = @ + PageSize,
                               !.verified = @ /\ \A i \in 0 .. PageSize - 1 :
                                  job.addr + i \in DOMAIN Image => Image[job.addr + i] = r.bytes[i]]
  /\ UNCHANGED <<frontend, useDebugWire, server, pos, last>>

\* Without verified, the check throws.
EndImage ==
  /\ In("verify") /\ (job.verify => ~More /\ job.verified)
  /\ job' = StartImage(job, Following(job.file, job.part))
  /\ UNCHANGED <<frontend, useDebugWire, server, pos, sys, last>>

EndDownload ==
  /\ pos = "downloading" /\ job.part = "done"
  /\ sys' = disableProgramming(sys)
  /\ pos' = "reset"
  /\ UNCHANGED <<frontend, useDebugWire, server, job, last>>

ResetProgram ==
  /\ pos = "reset"
  /\ pos' = IF useDebugWire THEN After("download") ELSE "stuck"
  /\ job' = NoJob
  /\ UNCHANGED <<frontend, useDebugWire, server, sys, last>>

-----------------------------------------------------------------------------
(* The session: what GDB or a script asks for.                             *)

InSession == pos = "session" /\ (frontend = "avarice" => server # "none")

\* Whether an access is free of the two hazards of placement, and whether it
\* is answered from a page that has changed since it was cached.
Placed(space, addr, n) ==
  CASE Paged(space) -> Base(addr) = Base(addr + n - 1)
    [] space = "SPM" -> addr % 2 = 0 \/ n % 2 = 1
    [] OTHER -> TRUE
Stale(space, m, addr) ==
  Paged(space) /\ sys.cache[m].base = Base(addr) /\ sys.touched[m]

Read(q) ==
  /\ InSession
  /\ LET r == jtagRead(sys, q.m, q.addr, q.n)
         space == memorySpace(sys, q.m)
     IN  /\ r.answered /\ sys' = r.sys
         /\ last' = [op |-> "read", placed |-> Placed(space, q.addr, q.n),
                     stale |-> Stale(space, q.m, q.addr),
                     right |-> \A i \in 0 .. q.n - 1 : r.bytes[i] = sys.mem[q.m][q.addr + i]]
  /\ UNCHANGED <<frontend, useDebugWire, server, pos, job>>

Write(q, bytes) ==
  /\ InSession
  /\ LET w == jtagWrite(sys, q.m, q.addr, bytes)
     IN  w.answered /\ sys' = w.sys
  /\ last' = [NoAccess EXCEPT !.op = "write"]
  /\ UNCHANGED <<frontend, useDebugWire, server, pos, job>>

\* The methods that only scripts call: enableProgramming and the like.
Script(s) ==
  /\ frontend = "manuel" /\ pos = "session"
  /\ sys' = s
  /\ last' = NoAccess
  /\ UNCHANGED <<frontend, useDebugWire, server, pos, job>>

\* The program runs when it is not being programmed, and writes its EEPROM.
ProgramWrites(a) ==
  /\ InSession /\ ~sys.progmode
  /\ sys' = [sys EXCEPT !.mem["eeprom"][a] = 1 - @,
                        !.touched["eeprom"] = @ \/ sys.cache["eeprom"].base = Base(a)]
  /\ last' = NoAccess
  /\ UNCHANGED <<frontend, useDebugWire, server, pos, job>>

Finish ==
  /\ pos = "session" /\ ~InSession
  /\ pos' = "exit"
  /\ UNCHANGED <<frontend, useDebugWire, server, sys, job, last>>

\* A refusal, or a check of the driver's.
Dies ==
  /\ pos \notin {"exit", "stuck", "dead"}
  /\ pos' = "dead"
  /\ UNCHANGED <<frontend, useDebugWire, server, sys, job, last>>

Main ==
  \/ Skip \/ Erase
  \/ ReadBits("readFuses", "fuse")
  \/ ReadBits("readLockBits", "lock")
  \/ \E v \in Bytes : WriteBits("writeFuses", "fuse", v)
  \/ InitJtagOnChipDebugging
  \/ \E f \in Files, program \in BOOLEAN, verify \in BOOLEAN : StartDownload(f, program, verify)
  \/ ProgramPage \/ EndProgram \/ VerifyPage \/ EndImage \/ EndDownload \/ ResetProgram
  \/ \E v \in Bytes : WriteBits("writeLockBits", "lock", v)
  \/ Finish

Next ==
  \/ Main
  \/ \E q \in Reads : Read(q)
  \/ \E q \in Writes : \E bytes \in [0 .. q.n - 1 -> Bytes] : Write(q, bytes)
  \/ Script(enableProgramming(sys))
  \/ Script(disableProgramming(sys))
  \/ Script(eraseProgramMemory(sys))
  \/ \E a \in FlashAddrs : Script(eraseProgramPage(sys, Base(a)))
  \/ \E a \in EepromAddrs : ProgramWrites(a)
  \/ Dies

Spec == Init /\ [][Next]_vars

-----------------------------------------------------------------------------
(* Properties.                                                             *)

PageBases(m) == {Base(a) : a \in Addrs(m)}

\* The shape of the state: a cache holds a whole page of the memory it is for.
TypeOK ==
  /\ sys.programmingEnabled \in BOOLEAN /\ sys.progmode \in BOOLEAN
  /\ \A m \in Memories : sys.mem[m] \in [Addrs(m) -> Bytes]
  /\ \A m \in {"flash", "eeprom"} :
       \/ sys.cache[m] = NoCache
       \/ /\ sys.cache[m].base \in PageBases(m)
          /\ sys.cache[m].data \in [0 .. PageSize - 1 -> Bytes]
  /\ job # NoJob => job.part \in {"flash", "eeprom", "done"}
  /\ pos \in {Steps[i] : i \in 1 .. Len(Steps)} \cup {"downloading", "reset", "stuck", "exit", "dead"}

\* Once assigned, programmingEnabled is what the target believes, and avarice never leaves the
\* target in programming mode when it starts the program or serves GDB:
\* enableProgramming and disableProgramming are called in many nested places.
ModesAgree ==
  /\ IF sys.assigned THEN sys.programmingEnabled = sys.progmode ELSE ~sys.progmode
  /\ frontend = "avarice" /\ pos \notin {"downloading", "dead"} => ~sys.progmode

\* jtagRead and jtagWrite leave the programming mode as they find it, so that
\* a script that enabled it need not do so again before each page.
ModeRestored ==
  [][last' # last /\ last'.op \in {"read", "write"} => sys'.progmode = sys.progmode]_vars

\* A read within one page, or of words, returns what is in the target unless
\* the page was written, erased or changed by the program after it was cached;
\* and avarice reads by pages only while it programs, so that GDB never sees an
\* old page over JTAG, although the caches are never invalidated.
ReadCurrent ==
  /\ last.op = "read" /\ last.placed
  /\ ~last.stale \/ (frontend = "avarice" /\ ~useDebugWire)
  => last.right

\* jtagRead reads the target's memory, as its declaration says.
ReadIsMemory == last.op = "read" /\ last.placed => last.right

Holds(m) == \A a \in DOMAIN job.file[m] : sys.mem[m][a] = job.file[m][a]
Downloaded == pos = "reset"

\* A download that was verified and goes on has the file in the target, however
\* the pages and the caches came to be.
VerifySound == Downloaded /\ job.verify => Holds("flash") /\ Holds("eeprom")

WasErased == \A a \in DOMAIN job.file["flash"] :
               \A b \in FlashAddrs : Base(b) = Base(a) => job.before["flash"][b] = Erased

\* Without verification, too, a file is in the target if the pages it has bytes
\* in were erased: skipping what is 0xff leaves nothing out.
ProgramComplete ==
  Downloaded /\ job.program => Holds("eeprom") /\ (WasErased => Holds("flash"))

\* What other passes put into other pages stays: programming does not erase.
OtherPagesKept ==
  Downloaded => \A m \in {"flash", "eeprom"} : \A a \in Addrs(m) :
    (\A b \in DOMAIN job.file[m] : Base(b) # Base(a)) => sys.mem[m][a] = job.before[m][a]

\* A download puts the file where it belongs and nothing anywhere else.
ProgramSound == ProgramComplete /\ OtherPagesKept
=============================================================================
