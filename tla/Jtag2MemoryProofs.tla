-------------------------- MODULE Jtag2MemoryProofs --------------------------
(***************************************************************************)
(* Proofs about Jtag2Memory, for every size of the pages and the memories, *)
(* every file and every access.                                            *)
(*                                                                         *)
(* The inductive invariant has two halves.  MemoryInv relates the flag of  *)
(* the driver to the target's programming mode, and each cached page to    *)
(* the memory it was read from; it needs no more than itself.  DownloadInv *)
(* follows a download through its two images: what the loop over the pages *)
(* has passed, what is still as it was, and that nothing stale can be in   *)
(* the cache while it is verified.                                         *)
(*                                                                         *)
(* Operators on the driver and the target (jtagRead, Store, ...) are never *)
(* expanded in the proofs about steps: a lemma for each says what it       *)
(* changes, as a named relation of the states before and after.            *)
(***************************************************************************)
EXTENDS Jtag2Memory, FiniteSetTheorems, WellFoundedInduction, TLAPS

-----------------------------------------------------------------------------
(* Pages.                                                                  *)

\* A page has at least one byte.
LEMMA PageSizeFact == PageSize \in Nat /\ PageSize > 0
  BY MemoryAssumption

\* The remainder is the only one.
LEMMA Remainder ==
  ASSUME NEW a \in Int, NEW q \in Int, NEW r \in 0 .. PageSize - 1, a = PageSize * q + r
  PROVE  a % PageSize = r
  BY PageSizeFact

\* An address is in the page that Base gives.
LEMMA BaseFacts ==
  ASSUME NEW a \in Int
  PROVE  /\ Base(a) \in Int /\ Base(a) <= a /\ a < Base(a) + PageSize
         /\ a \in Nat => Base(a) \in Nat
<1>1. a % PageSize \in 0 .. PageSize - 1
  BY PageSizeFact
<1>2. a \in Nat => a % PageSize <= a
  BY PageSizeFact
<1> QED
  BY <1>1, <1>2, PageSizeFact DEF Base

\* A page is where its first address says.
LEMMA InPage ==
  ASSUME NEW b \in Int, b % PageSize = 0, NEW a \in Int
  PROVE  Base(a) = b <=> b <= a /\ a < b + PageSize
<1>1. ASSUME b <= a, a < b + PageSize
      PROVE  Base(a) = b
  <2>1. b = PageSize * (b \div PageSize) + 0
    BY PageSizeFact
  <2>2. a = PageSize * (b \div PageSize) + (a - b) /\ b \div PageSize \in Int
    BY <2>1, PageSizeFact
  <2>3. a - b \in 0 .. PageSize - 1
    BY <1>1, PageSizeFact
  <2>4. a % PageSize = a - b
    BY <2>2, <2>3, Remainder
  <2> QED
    BY <2>4 DEF Base
<1> QED
  BY <1>1, BaseFacts

\* Base gives the first address of a page.
LEMMA BaseAligned ==
  ASSUME NEW a \in Int
  PROVE  Base(a) % PageSize = 0 /\ Base(Base(a)) = Base(a)
<1>1. a = PageSize * (a \div PageSize) + (a % PageSize) /\ a \div PageSize \in Int
  BY PageSizeFact
<1>2. Base(a) = PageSize * (a \div PageSize) + 0
  BY <1>1, PageSizeFact DEF Base
<1>3. Base(a) % PageSize = 0
  BY <1>1, <1>2, PageSizeFact
<1>4. Base(a) \in Int
  BY BaseFacts
<1> QED
  BY <1>3, <1>4, PageSizeFact DEF Base

\* Pages follow each other at the distance of their size.
LEMMA NextPage ==
  ASSUME NEW b \in Int, b % PageSize = 0, NEW k \in Int
  PROVE  b + k * PageSize \in Int /\ (b + k * PageSize) % PageSize = 0
<1>1. b = PageSize * (b \div PageSize) /\ b \div PageSize \in Int
  BY PageSizeFact
<1> DEFINE q == b \div PageSize
<1>2. q \in Int /\ q + k \in Int /\ k * PageSize \in Int /\ 0 \in 0 .. PageSize - 1
  BY <1>1, PageSizeFact
<1>3. b = PageSize * q
  BY <1>1
<1> HIDE DEF q
<1>4. PageSize * (q + k) = PageSize * q + k * PageSize
  BY <1>2, PageSizeFact
<1>5. b + k * PageSize = PageSize * (q + k) + 0
  BY <1>2, <1>3, <1>4, PageSizeFact
<1> QED
  BY <1>2, <1>5, Remainder

\* Memories are made of whole pages.
LEMMA WholePages ==
  ASSUME NEW size \in Nat, size % PageSize = 0, NEW a \in 0 .. size - 1
  PROVE  Base(a) \in Nat /\ Base(a) + PageSize <= size
<1>1. size = PageSize * (size \div PageSize) /\ size \div PageSize \in Int
  BY PageSizeFact
<1>2. Base(a) = PageSize * (a \div PageSize) /\ a \div PageSize \in Int
  BY PageSizeFact DEF Base
<1>3. a \div PageSize < size \div PageSize
  BY <1>1, PageSizeFact
<1>4. (a \div PageSize) + 1 <= size \div PageSize
  BY <1>1, <1>2, <1>3
<1>5. PageSize * ((a \div PageSize) + 1) <= PageSize * (size \div PageSize)
  BY <1>1, <1>2, <1>4, PageSizeFact
<1>6. PageSize * ((a \div PageSize) + 1) = Base(a) + PageSize
  BY <1>2, PageSizeFact
<1> QED
  BY <1>1, <1>5, <1>6, BaseFacts

-----------------------------------------------------------------------------
(* The driver and the target.                                              *)

Cached == {"flash", "eeprom"}

Shape(s) ==
  /\ s = [programmingEnabled |-> s.programmingEnabled, assigned |-> s.assigned,
          progmode |-> s.progmode, eesave |-> s.eesave, mem |-> s.mem,
          cache |-> s.cache, touched |-> s.touched]
  /\ s.mem = [m \in Memories |-> s.mem[m]]
  /\ s.cache = [m \in Cached |-> s.cache[m]]
  /\ s.touched \in [Cached -> BOOLEAN]

SameModes(s, t) ==
  /\ t.programmingEnabled = s.programmingEnabled
  /\ t.progmode = s.progmode
  /\ t.assigned = s.assigned

\* enableProgramming changes the modes and nothing else, unless under debugWire.
LEMMA EnableFacts ==
  ASSUME NEW s, Shape(s)
  PROVE  LET t == enableProgramming(s)
         IN  /\ Shape(t)
             /\ t.mem = s.mem /\ t.cache = s.cache /\ t.touched = s.touched /\ t.eesave = s.eesave
             /\ IF useDebugWire THEN SameModes(s, t)
                ELSE t.programmingEnabled = TRUE /\ t.progmode = TRUE /\ t.assigned = TRUE
  BY DEF enableProgramming, Shape, SameModes

\* disableProgramming likewise.
LEMMA DisableFacts ==
  ASSUME NEW s, Shape(s)
  PROVE  LET t == disableProgramming(s)
         IN  /\ Shape(t)
             /\ t.mem = s.mem /\ t.cache = s.cache /\ t.touched = s.touched /\ t.eesave = s.eesave
             /\ IF useDebugWire THEN SameModes(s, t)
                ELSE t.programmingEnabled = FALSE /\ t.progmode = FALSE /\ t.assigned = TRUE
  BY DEF disableProgramming, Shape, SameModes

\* What erasing the chip changes, and that it marks the pages that are cached.
LEMMA EraseFacts ==
  ASSUME NEW s, Shape(s)
  PROVE  LET t == eraseProgramMemory(s)
         IN  /\ Shape(t)
             /\ t.cache = s.cache /\ t.eesave = s.eesave /\ SameModes(s, t)
             /\ t.mem["flash"] = [a \in FlashAddrs |-> Erased] /\ t.mem["fuse"] = s.mem["fuse"]
             /\ t.mem["eeprom"] = IF s.eesave THEN s.mem["eeprom"] ELSE [a \in EepromAddrs |-> Erased]
             /\ t.mem["lock"] = [a \in {0} |-> 1]
             /\ t.touched["flash"] = TRUE
             /\ t.touched["eeprom"] = IF s.eesave THEN s.touched["eeprom"] ELSE TRUE
<1> DEFINE flash == [a \in FlashAddrs |-> Erased]
           eeprom == IF s.eesave THEN s.mem["eeprom"] ELSE [a \in EepromAddrs |-> Erased]
           lock == [a \in {0} |-> 1]
           touch == [m \in Cached |-> IF m = "eeprom" /\ s.eesave THEN s.touched[m] ELSE TRUE]
           t == eraseProgramMemory(s)
<1>1. t = [s EXCEPT !.mem["flash"] = flash, !.mem["eeprom"] = eeprom, !.mem["lock"] = lock,
                    !.touched = touch]
  <2>1. eeprom = IF s.eesave THEN [s EXCEPT !.mem["flash"] = flash].mem["eeprom"]
                 ELSE [a \in EepromAddrs |-> Erased]
    BY DEF Shape, Memories
  <2> QED
    BY <2>1, Zenon DEF eraseProgramMemory, Cached
<1>2. touch \in [Cached -> BOOLEAN] /\ touch["flash"] = TRUE
      /\ touch["eeprom"] = IF s.eesave THEN s.touched["eeprom"] ELSE TRUE
  BY DEF Shape, Cached
<1> HIDE DEF flash, eeprom, lock, touch, t
<1>3. /\ Shape(t)
      /\ t.cache = s.cache /\ t.eesave = s.eesave /\ SameModes(s, t)
      /\ t.mem["flash"] = flash /\ t.mem["fuse"] = s.mem["fuse"]
      /\ t.mem["eeprom"] = eeprom /\ t.mem["lock"] = lock
      /\ t.touched = touch
  BY <1>1, <1>2 DEF Shape, SameModes, Memories, Cached
<1> QED
  BY <1>2, <1>3 DEF flash, eeprom, lock, t

\* What erasing a page changes.
LEMMA ErasePageFacts ==
  ASSUME NEW s, Shape(s), NEW base
  PROVE  LET t == eraseProgramPage(s, base)
         IN  /\ Shape(t)
             /\ t.cache = s.cache /\ t.eesave = s.eesave /\ SameModes(s, t)
             /\ t.mem["flash"] = [a \in FlashAddrs |-> IF Base(a) = base THEN Erased ELSE s.mem["flash"][a]]
             /\ \A m \in Memories \ {"flash"} : t.mem[m] = s.mem[m]
             /\ t.touched["flash"] = (s.touched["flash"] \/ s.cache["flash"].base = base)
             /\ t.touched["eeprom"] = s.touched["eeprom"]
<1> DEFINE touch == s.touched["flash"] \/ s.cache["flash"].base = base
           page == [a \in FlashAddrs |-> IF Base(a) = base THEN Erased ELSE s.mem["flash"][a]]
           t == eraseProgramPage(s, base)
<1>1. t = [s EXCEPT !.mem["flash"] = page, !.touched["flash"] = touch]
  BY DEF eraseProgramPage
<1>2. touch \in BOOLEAN
  OBVIOUS
<1> HIDE DEF touch, page, t
<1>3. /\ Shape(t)
      /\ t.cache = s.cache /\ t.eesave = s.eesave /\ SameModes(s, t)
      /\ t.mem["flash"] = page
      /\ \A m \in Memories \ {"flash"} : t.mem[m] = s.mem[m]
      /\ t.touched["flash"] = touch
      /\ t.touched["eeprom"] = s.touched["eeprom"]
  BY <1>1, <1>2 DEF Shape, SameModes, Memories, Cached
<1> QED
  BY <1>3 DEF touch, page, t

\* What Store and ProgramWrites change: one memory, and perhaps its mark.
Changed(s, t, m, mem, touch) ==
  /\ Shape(t)
  /\ t.cache = s.cache /\ t.eesave = s.eesave /\ SameModes(s, t)
  /\ t.mem[m] = mem
  /\ \A k \in Memories \ {m} : t.mem[k] = s.mem[k]
  /\ \A k \in Cached : t.touched[k] = IF k = m THEN touch ELSE s.touched[k]

\* A change of one memory is Changed.
LEMMA ChangeFacts ==
  ASSUME NEW s, Shape(s), NEW m \in Memories, NEW mem, NEW touch \in BOOLEAN, NEW t,
         t = IF m \in Cached THEN [s EXCEPT !.mem[m] = mem, !.touched[m] = touch]
             ELSE [s EXCEPT !.mem[m] = mem]
  PROVE  Changed(s, t, m, mem, touch)
<1> USE DEF Changed
<1>1. CASE m \in Cached
  BY <1>1 DEF Shape, SameModes, Memories, Cached
<1>2. CASE m \notin Cached
  BY <1>2 DEF Shape, SameModes, Memories, Cached
<1> QED
  BY <1>1, <1>2

\* What a write makes of the memory, and whether it marks the cached page.
Written(addr, bytes) == addr .. addr + Cardinality(DOMAIN bytes) - 1
NewMem(s, m, addr, bytes) ==
  [a \in Addrs(m) |-> IF a \in Written(addr, bytes) THEN Stored(m, s.mem[m][a], bytes[a - addr])
                     ELSE s.mem[m][a]]
NewTouch(s, m, addr, bytes) ==
  s.touched[m] \/ \E a \in Written(addr, bytes) : Base(a) = s.cache[m].base

\* What the target makes of a write is Changed, too.
LEMMA StoreFacts ==
  ASSUME NEW s, Shape(s), NEW m \in Memories, NEW addr, NEW bytes
  PROVE  Changed(s, Store(s, m, addr, bytes), m, NewMem(s, m, addr, bytes), NewTouch(s, m, addr, bytes))
<1> DEFINE mem == NewMem(s, m, addr, bytes)
           touch == NewTouch(s, m, addr, bytes)
           t == Store(s, m, addr, bytes)
<1>1. t = IF m \in Cached THEN [s EXCEPT !.mem[m] = mem, !.touched[m] = touch]
          ELSE [s EXCEPT !.mem[m] = mem]
  BY Zenon DEF Store, Cached, NewMem, NewTouch, Written
<1>2. touch \in BOOLEAN
  BY DEF NewTouch
<1> HIDE DEF mem, touch, t
<1>3. Changed(s, t, m, mem, touch)
  BY <1>1, <1>2, ChangeFacts
<1> QED
  BY <1>3 DEF mem, touch, t

-----------------------------------------------------------------------------
(* The caches.  A cached page is what was in the target when it was read,  *)
(* so that it is what is there now unless touched says otherwise.          *)

CacheGood(s, m) ==
  \/ s.cache[m] = NoCache
  \/ /\ s.cache[m].base \in PageBases(m)
     /\ s.cache[m].data \in [0 .. PageSize - 1 -> Bytes]
     /\ ~s.touched[m] => s.cache[m].data = PageAt(s.mem[m], s.cache[m].base)

Good(s) ==
  /\ Shape(s)
  /\ \A m \in Memories : s.mem[m] \in [Addrs(m) -> Bytes]
  /\ \A m \in Cached : CacheGood(s, m)

\* A page with an address of a memory lies in that memory.
LEMMA MemoryPages ==
  ASSUME NEW m \in Cached, NEW a \in Addrs(m)
  PROVE  /\ a \in Nat /\ Base(a) \in Nat /\ Base(a) % PageSize = 0
         /\ \A i \in 0 .. PageSize - 1 : Base(a) + i \in Addrs(m) /\ Base(Base(a) + i) = Base(a)
<1> DEFINE size == IF m = "flash" THEN FlashSize ELSE EepromSize
<1>1. Addrs(m) = 0 .. size - 1 /\ size \in Nat /\ size % PageSize = 0
  BY MemoryAssumption DEF Cached, Addrs, FlashAddrs, EepromAddrs
<1> HIDE DEF size
<1>2. Base(a) \in Nat /\ Base(a) + PageSize <= size
  BY <1>1, WholePages
<1>3. Base(a) % PageSize = 0
  BY <1>1, BaseAligned
<1>4. ASSUME NEW i \in 0 .. PageSize - 1
      PROVE  Base(a) + i \in Addrs(m) /\ Base(Base(a) + i) = Base(a)
  BY <1>1, <1>2, <1>3, InPage, PageSizeFact
<1> QED
  BY <1>1, <1>2, <1>3, <1>4

\* What is at an address of a page of one of the two memories.
LEMMA PageFacts ==
  ASSUME NEW m \in Cached, NEW base \in PageBases(m), NEW mem \in [Addrs(m) -> Bytes]
  PROVE  /\ PageAt(mem, base) \in [0 .. PageSize - 1 -> Bytes]
         /\ base \in Nat /\ base # None
<1>1. PICK a \in Addrs(m) : base = Base(a)
  BY DEF PageBases
<1>2. base \in Nat /\ \A i \in 0 .. PageSize - 1 : base + i \in Addrs(m)
  BY <1>1, MemoryPages
<1> QED
  BY <1>2 DEF PageAt, None

\* A page is the same in two memories that agree on its addresses.
LEMMA SamePage ==
  ASSUME NEW m \in Cached, NEW base \in PageBases(m), NEW mem, NEW new,
         \A a \in Addrs(m) : Base(a) = base => new[a] = mem[a]
  PROVE  PageAt(new, base) = PageAt(mem, base)
<1>1. PICK a \in Addrs(m) : base = Base(a)
  BY DEF PageBases
<1>2. \A i \in 0 .. PageSize - 1 : base + i \in Addrs(m) /\ Base(base + i) = base
  BY <1>1, MemoryPages
<1> QED
  BY <1>2 DEF PageAt

\* A change of one memory marks the page that is cached of it.
LEMMA ChangeGood ==
  ASSUME NEW s, Good(s), NEW t, NEW m \in Memories, NEW touch,
         NEW mem \in [Addrs(m) -> Bytes], Changed(s, t, m, mem, touch),
         m \in Cached => /\ s.touched[m] => touch
                         /\ \A a \in Addrs(m) : mem[a] # s.mem[m][a] /\ Base(a) = s.cache[m].base => touch
  PROVE  Good(t)
<1>1. Shape(t) /\ t.cache = s.cache
  BY DEF Changed
<1>2. \A k \in Memories : t.mem[k] = IF k = m THEN mem ELSE s.mem[k]
  BY DEF Changed
<1>3. \A k \in Memories : t.mem[k] \in [Addrs(k) -> Bytes]
  BY <1>2 DEF Good
<1>4. ASSUME NEW k \in Cached
      PROVE  CacheGood(t, k)
  <2>0. k \in Memories /\ CacheGood(s, k) /\ t.cache[k] = s.cache[k]
    BY <1>1 DEF Cached, Memories, Good
  <2>1. CASE k = m /\ ~touch /\ s.cache[k] # NoCache
    <3>1. t.mem[k] = mem /\ ~s.touched[k] /\ s.cache[k].base \in PageBases(k)
          /\ s.cache[k].data = PageAt(s.mem[k], s.cache[k].base)
      BY <1>2, <2>0, <2>1 DEF CacheGood
    <3>2. \A a \in Addrs(m) : Base(a) = s.cache[m].base => mem[a] = s.mem[m][a]
      BY <2>1
    <3>3. PageAt(mem, s.cache[k].base) = PageAt(s.mem[k], s.cache[k].base)
      BY <2>1, <3>1, <3>2, SamePage
    <3> QED
      BY <2>0, <2>1, <3>1, <3>3 DEF CacheGood
  <2>2. CASE k = m /\ touch
    <3>1. t.touched[k]
      BY <2>2 DEF Changed
    <3> QED
      BY <2>0, <3>1 DEF CacheGood
  <2>3. CASE k # m
    <3>1. t.touched[k] = s.touched[k] /\ t.mem[k] = s.mem[k]
      BY <2>0, <2>3 DEF Changed
    <3> QED
      BY <2>0, <3>1 DEF CacheGood
  <2>4. CASE s.cache[k] = NoCache
    BY <2>0, <2>4 DEF CacheGood
  <2> QED
    BY <2>1, <2>2, <2>3, <2>4
<1> QED
  BY <1>1, <1>3, <1>4 DEF Good

\* After a write each cached page is current or marked.
LEMMA StoreGood ==
  ASSUME NEW s, Good(s), NEW m \in Memories, NEW addr \in Int, NEW n \in Nat,
         NEW bytes \in [0 .. n - 1 -> Bytes]
  PROVE  Good(Store(s, m, addr, bytes))
<1> DEFINE mem == NewMem(s, m, addr, bytes)
           touch == NewTouch(s, m, addr, bytes)
           t == Store(s, m, addr, bytes)
<1>1. Changed(s, t, m, mem, touch)
  BY StoreFacts DEF Good
<1>2. Cardinality(DOMAIN bytes) = n
  BY FS_Interval
<1>3. \A a \in Addrs(m) : a \in Int
  BY MemoryAssumption DEF Addrs, FlashAddrs, EepromAddrs, Memories
<1>4. mem \in [Addrs(m) -> Bytes]
  <2>1. \A a \in Addrs(m) : a \in Written(addr, bytes) => a - addr \in 0 .. n - 1
    BY <1>2, <1>3 DEF Written
  <2> QED
    BY <2>1 DEF Good, Stored, Bytes, NewMem
<1>5. \A a \in Addrs(m) : mem[a] # s.mem[m][a] /\ Base(a) = s.cache[m].base => touch
  BY DEF NewMem, NewTouch
<1>6. s.touched[m] => touch
  BY DEF NewTouch
<1> HIDE DEF mem, touch, t
<1>7. Good(t)
  BY <1>1, <1>4, <1>5, <1>6, ChangeGood
<1> QED
  BY <1>7 DEF t

\* So it is after the chip is erased,
LEMMA EraseGood ==
  ASSUME NEW s, Good(s)
  PROVE  Good(eraseProgramMemory(s))
<1> DEFINE t == eraseProgramMemory(s)
<1>1. /\ Shape(t) /\ t.cache = s.cache
      /\ t.mem["flash"] = [a \in FlashAddrs |-> Erased] /\ t.mem["fuse"] = s.mem["fuse"]
      /\ t.mem["eeprom"] = IF s.eesave THEN s.mem["eeprom"] ELSE [a \in EepromAddrs |-> Erased]
      /\ t.mem["lock"] = [a \in {0} |-> 1]
      /\ t.touched["flash"] = TRUE
      /\ t.touched["eeprom"] = IF s.eesave THEN s.touched["eeprom"] ELSE TRUE
  BY EraseFacts DEF Good
<1> HIDE DEF t
<1>2. \A m \in Memories : t.mem[m] \in [Addrs(m) -> Bytes]
  BY <1>1 DEF Good, Memories, Addrs, Bytes, Erased
<1>3. CacheGood(t, "flash")
  BY <1>1 DEF Good, CacheGood, Cached
<1>4. CacheGood(t, "eeprom")
  BY <1>1 DEF Good, CacheGood, Cached
<1> QED
  BY <1>1, <1>2, <1>3, <1>4 DEF Good, Cached, t

\* and after a page is.
LEMMA ErasePageGood ==
  ASSUME NEW s, Good(s), NEW base
  PROVE  Good(eraseProgramPage(s, base))
<1> DEFINE t == eraseProgramPage(s, base)
           mem == [a \in FlashAddrs |-> IF Base(a) = base THEN Erased ELSE s.mem["flash"][a]]
           touch == s.touched["flash"] \/ s.cache["flash"].base = base
<1>1. Changed(s, t, "flash", mem, touch)
  BY ErasePageFacts DEF Good, Changed, Cached
<1>2. mem \in [Addrs("flash") -> Bytes]
  BY DEF Good, Memories, Addrs, Bytes, Erased
<1>3. \A a \in Addrs("flash") : mem[a] # s.mem["flash"][a] /\ Base(a) = s.cache["flash"].base => touch
  BY DEF Addrs
<1>4. s.touched["flash"] => touch
  OBVIOUS
<1> HIDE DEF t, mem, touch
<1>5. Good(t)
  BY <1>1, <1>2, <1>3, <1>4, ChangeGood DEF Memories
<1> QED
  BY <1>5 DEF t

\* The modes are nothing to the memories.
LEMMA ModeGood ==
  ASSUME NEW s, Good(s), NEW t, Shape(t), t.mem = s.mem, t.cache = s.cache, t.touched = s.touched
  PROVE  Good(t)
  BY DEF Good, CacheGood

\* Entering and leaving programming mode leaves the caches good.
LEMMA EnterGood ==
  ASSUME NEW s, Good(s), NEW space
  PROVE  Good(enableProgramming(s)) /\ Good(disableProgramming(s)) /\ Good(Enter(s, space))
<1>1. Good(enableProgramming(s))
  BY EnableFacts, ModeGood DEF Good
<1>2. Good(disableProgramming(s))
  BY DisableFacts, ModeGood DEF Good
<1> QED
  BY <1>1, <1>2 DEF Enter

-----------------------------------------------------------------------------
(* Reading.                                                                *)

\* The chunk that jtagRead begins with.
LEMMA LowestOfTwo ==
  ASSUME NEW a \in Int, NEW b \in Int
  PROVE  LowestOf({a, b}) = IF a <= b THEN a ELSE b
<1> DEFINE low(x) == x \in {a, b} /\ \A y \in {a, b} : x <= y
<1>1. low(IF a <= b THEN a ELSE b)
  OBVIOUS
<1>2. \A x : low(x) => x = IF a <= b THEN a ELSE b
  OBVIOUS
<1> QED
  BY <1>1, <1>2 DEF LowestOf

\* Filling the cache of one memory.
Filled(s, t, m, page) ==
  /\ Shape(t)
  /\ t.mem = s.mem /\ t.eesave = s.eesave /\ SameModes(s, t)
  /\ t.cache[m] = page /\ ~t.touched[m]
  /\ \A k \in Cached \ {m} : t.cache[k] = s.cache[k] /\ t.touched[k] = s.touched[k]

\* A page that is read takes the place of the one that was cached.
LEMMA FillFacts ==
  ASSUME NEW s, Shape(s), NEW m \in Cached, NEW page, NEW t,
         t = [s EXCEPT !.cache[m] = page, !.touched[m] = FALSE]
  PROVE  Filled(s, t, m, page)
  BY DEF Filled, Shape, SameModes, Memories, Cached

\* The page that the last address is in is the last one that is read.
LEMMA LastPage ==
  ASSUME NEW addr \in Nat, NEW n \in Nat \ {0},
         Base(addr) + PageSize - addr < n
  PROVE  LET first == Base(addr) + PageSize - addr
             end == 1 + (n - 1 - first) \div PageSize
         IN  end \in Nat /\ end # 0 /\ Base(addr + n - 1) = Base(addr) + end * PageSize
<1> DEFINE x == n - 1 - (Base(addr) + PageSize - addr)
           k == x \div PageSize
           r == x % PageSize
<1>1. Base(addr) \in Int /\ Base(addr) % PageSize = 0
  BY BaseFacts, BaseAligned
<1>2. x \in Nat
  BY <1>1, PageSizeFact
<1>3. x = n - 1 - (Base(addr) + PageSize - addr)
  OBVIOUS
<1> HIDE DEF x
<1>4. k \in Nat /\ x = PageSize * k + r /\ r \in 0 .. PageSize - 1
  BY <1>2, PageSizeFact
<1> HIDE DEF r, k
<1> DEFINE whole == PageSize * k
<1>5. whole \in Int /\ (1 + k) * PageSize = PageSize + whole /\ x = whole + r
  BY <1>4, PageSizeFact
<1> HIDE DEF whole
<1>6. 1 + k \in Int
  BY <1>4
<1>7. Base(addr) + (1 + k) * PageSize \in Int /\ (Base(addr) + (1 + k) * PageSize) % PageSize = 0
  BY <1>1, <1>6, NextPage
<1>8. Base(addr) + (1 + k) * PageSize <= addr + n - 1
      /\ addr + n - 1 < Base(addr) + (1 + k) * PageSize + PageSize
  BY <1>1, <1>2, <1>3, <1>4, <1>5, PageSizeFact
<1>9. Base(addr + n - 1) = Base(addr) + (1 + k) * PageSize
  BY <1>7, <1>8, InPage
<1> QED
  BY <1>4, <1>9 DEF k, x

\* What is fetched is a page of bytes: the target's unless the cached one is marked.
LEMMA FetchedGood ==
  ASSUME NEW s, Good(s), NEW m \in Cached, NEW base \in PageBases(m)
  PROVE  /\ Fetched(s, m, base) \in [0 .. PageSize - 1 -> Bytes]
         /\ (s.cache[m].base = base /\ s.touched[m]) \/ Fetched(s, m, base) = PageAt(s.mem[m], base)
<1>1. s.mem[m] \in [Addrs(m) -> Bytes] /\ CacheGood(s, m)
  BY DEF Good, Cached, Memories
<1>2. PageAt(s.mem[m], base) \in [0 .. PageSize - 1 -> Bytes] /\ base # None
  BY <1>1, PageFacts
<1> QED
  BY <1>1, <1>2 DEF Fetched, CacheGood, NoCache

\* Reading by pages: the target stays, the last page read is cached, and what
\* lies within one page is what was fetched.
PageRead(s, t, m) ==
  /\ Good(t)
  /\ t.mem = s.mem /\ t.eesave = s.eesave /\ SameModes(s, t)
  /\ \A k \in Cached \ {m} : t.cache[k] = s.cache[k] /\ t.touched[k] = s.touched[k]
  /\ (t.cache[m] = s.cache[m] /\ t.touched[m] = s.touched[m]) \/ ~t.touched[m]

\* The chunks of a read by pages.
LEMMA ReadPagesFacts ==
  ASSUME NEW s, Good(s), NEW m \in Cached, NEW addr \in Addrs(m), NEW n \in Nat \ {0},
         addr + n - 1 \in Addrs(m)
  PROVE  LET r == ReadPages(s, m, addr, n)
         IN  /\ PageRead(s, r.sys, m)
             /\ Base(addr + n - 1) = Base(addr) =>
                  \A i \in 0 .. n - 1 : r.bytes[i] = Fetched(s, m, Base(addr))[addr - Base(addr) + i]
<1> DEFINE base == Base(addr)
           offset == addr - base
           first == LowestOf({n, PageSize - offset})
           Chunk(i) == IF i < first THEN 0 ELSE 1 + (i - first) \div PageSize
           Page(c) == IF c = 0 THEN Fetched(s, m, base) ELSE PageAt(s.mem[m], base + c * PageSize)
           At(i) == offset + (IF i < first THEN i ELSE (i - first) % PageSize)
           end == Chunk(n - 1)
           bytes == [i \in 0 .. n - 1 |-> IF At(i) < PageSize THEN Page(Chunk(i))[At(i)] ELSE Junk]
           t == IF end = 0 /\ s.cache[m].base = base THEN s
                ELSE [s EXCEPT !.cache[m] = [base |-> base + end * PageSize, data |-> Page(end)],
                               !.touched[m] = FALSE]
<1>1. ReadPages(s, m, addr, n) = [bytes |-> bytes, sys |-> t]
  BY Zenon DEF ReadPages
<1>2. addr \in Nat /\ base \in Nat /\ base <= addr /\ addr < base + PageSize /\ base \in PageBases(m)
  BY MemoryPages, BaseFacts DEF PageBases
<1>3. first = IF n <= PageSize - offset THEN n ELSE PageSize - offset
  BY <1>2, LowestOfTwo, PageSizeFact
<1> HIDE DEF first
<1>4. CASE n <= base + PageSize - addr
  <2>1. first = n /\ end = 0
    BY <1>2, <1>3, <1>4, PageSizeFact
  <2>2. \A i \in 0 .. n - 1 : bytes[i] = Fetched(s, m, base)[addr - base + i]
    <3> SUFFICES ASSUME NEW i \in 0 .. n - 1
                 PROVE  bytes[i] = Fetched(s, m, base)[addr - base + i]
      OBVIOUS
    <3>1. i < first
      BY <2>1
    <3>2. At(i) = addr - base + i /\ At(i) < PageSize
      BY <1>2, <1>4, <3>1, PageSizeFact
    <3>3. Page(Chunk(i)) = Fetched(s, m, base)
      BY <3>1
    <3> HIDE DEF At, Page, Chunk
    <3> QED
      BY <3>2, <3>3
  <2>3. base + end * PageSize = base /\ Page(end) = Fetched(s, m, base)
    BY <1>2, <2>1, PageSizeFact
  <2>4. CASE s.cache[m].base = base
    <3>1. t = s
      BY <2>1, <2>4
    <3> HIDE DEF t, bytes
    <3>2. PageRead(s, t, m)
      BY <3>1 DEF PageRead, SameModes
    <3> QED
      BY <1>1, <2>2, <3>2
  <2>5. CASE s.cache[m].base # base
    <3> DEFINE page == [base |-> base, data |-> Fetched(s, m, base)]
    <3>1. t = [s EXCEPT !.cache[m] = page, !.touched[m] = FALSE]
      BY <2>3, <2>5, Zenon
    <3> HIDE DEF t, bytes, page
    <3>2. Filled(s, t, m, page)
      BY <3>1, FillFacts DEF Good
    <3>3. page.base \in PageBases(m) /\ page.data \in [0 .. PageSize - 1 -> Bytes]
          /\ page.data = PageAt(s.mem[m], page.base)
      BY <1>2, <2>5, FetchedGood DEF page
    <3>4. \A k \in Cached : CacheGood(t, k)
      BY <3>2, <3>3 DEF Good, CacheGood, Filled
    <3>5. PageRead(s, t, m)
      BY <3>2, <3>4 DEF PageRead, Good, Filled
    <3> QED
      BY <1>1, <2>2, <3>5
  <2> QED
    BY <2>4, <2>5
<1>5. CASE base + PageSize - addr < n
  <2>1. first = base + PageSize - addr /\ ~(n - 1 < first)
    BY <1>2, <1>3, <1>5, PageSizeFact
  <2>2. end = 1 + (n - 1 - (base + PageSize - addr)) \div PageSize
    BY <2>1
  <2>3. end # 0 /\ Base(addr + n - 1) = base + end * PageSize
    BY <1>2, <1>5, <2>2, LastPage
  <2>4. base + end * PageSize \in PageBases(m)
    BY <2>3 DEF PageBases
  <2>5. Base(addr + n - 1) # base
    <3>1. base % PageSize = 0 /\ addr + n - 1 \in Int /\ ~(addr + n - 1 < base + PageSize)
      BY <1>2, <1>5, BaseAligned, PageSizeFact
    <3> QED
      BY <1>2, <3>1, InPage
  <2> DEFINE page == [base |-> base + end * PageSize, data |-> PageAt(s.mem[m], base + end * PageSize)]
  <2>6. t = [s EXCEPT !.cache[m] = page, !.touched[m] = FALSE]
    BY <2>3, Zenon
  <2>7. s.mem[m] \in [Addrs(m) -> Bytes]
    BY DEF Good, Cached, Memories
  <2>8. page.base \in PageBases(m) /\ page.data \in [0 .. PageSize - 1 -> Bytes]
        /\ page.data = PageAt(s.mem[m], page.base)
    BY <2>4, <2>7, PageFacts
  <2> HIDE DEF t, bytes, page, end
  <2>9. Filled(s, t, m, page)
    BY <2>6, FillFacts DEF Good
  <2>10. \A k \in Cached : CacheGood(t, k)
    BY <2>8, <2>9 DEF Good, CacheGood, Filled
  <2>11. PageRead(s, t, m)
    BY <2>9, <2>10 DEF PageRead, Good, Filled
  <2> QED
    BY <1>1, <2>5, <2>11
<1> QED
  BY <1>2, <1>4, <1>5, PageSizeFact

-----------------------------------------------------------------------------
(* jtagRead and jtagWrite.                                                 *)

\* What enableProgramming and disableProgramming keep true of the flag.
Modes(s) ==
  /\ s.programmingEnabled \in BOOLEAN /\ s.progmode \in BOOLEAN
  /\ IF s.assigned THEN s.programmingEnabled = s.progmode ELSE ~s.progmode
  /\ useDebugWire => ~s.assigned

\* A call that leaves the programming mode as it finds it.
ModesKept(s, t) ==
  /\ Modes(t)
  /\ t.progmode = s.progmode
  /\ s.progmode => SameModes(s, t)

\* Enter and Leave restore the mode, whatever was done between them.
LEMMA LeaveFacts ==
  ASSUME NEW s, Shape(s), Modes(s), NEW space, NEW t, Shape(t), SameModes(Enter(s, space), t)
  PROVE  LET u == Leave(t, space, s.programmingEnabled)
         IN  /\ Shape(u) /\ ModesKept(s, u)
             /\ u.mem = t.mem /\ u.cache = t.cache /\ u.touched = t.touched /\ u.eesave = t.eesave
<1> DEFINE u == Leave(t, space, s.programmingEnabled)
<1>1. CASE needProgmode(space) /\ ~s.programmingEnabled
  <2>1. u = disableProgramming(t)
    BY <1>1 DEF Leave
  <2>2. Enter(s, space) = enableProgramming(s)
    BY <1>1 DEF Enter
  <2> HIDE DEF u
  <2>3. /\ Shape(u)
        /\ u.mem = t.mem /\ u.cache = t.cache /\ u.touched = t.touched /\ u.eesave = t.eesave
        /\ IF useDebugWire THEN SameModes(t, u)
           ELSE u.programmingEnabled = FALSE /\ u.progmode = FALSE /\ u.assigned = TRUE
    BY <2>1, DisableFacts
  <2>4. ~s.progmode
    BY <1>1 DEF Modes
  <2>5. CASE useDebugWire
    <3>1. SameModes(s, u)
      BY <2>2, <2>3, <2>5, EnableFacts DEF SameModes
    <3>2. ModesKept(s, u)
      BY <3>1 DEF ModesKept, SameModes, Modes
    <3> QED
      BY <2>3, <3>2 DEF u
  <2>6. CASE ~useDebugWire
    <3>1. ModesKept(s, u)
      BY <2>3, <2>4, <2>6 DEF ModesKept, Modes
    <3> QED
      BY <2>3, <3>1 DEF u
  <2> QED
    BY <2>5, <2>6
<1>2. CASE ~(needProgmode(space) /\ ~s.programmingEnabled)
  <2>1. u = t /\ Enter(s, space) = s
    BY <1>2 DEF Leave, Enter
  <2> HIDE DEF u
  <2>2. ModesKept(s, u)
    BY <2>1 DEF ModesKept, SameModes, Modes
  <2> QED
    BY <2>1, <2>2 DEF u
<1> QED
  BY <1>1, <1>2

\* Entering programming mode changes no memory and no cache.
LEMMA EnterFacts ==
  ASSUME NEW s, Good(s), NEW space
  PROVE  LET t == Enter(s, space)
         IN  /\ Good(t)
             /\ t.mem = s.mem /\ t.cache = s.cache /\ t.touched = s.touched /\ t.eesave = s.eesave
<1>1. Good(Enter(s, space))
  BY EnterGood
<1> QED
  BY <1>1, EnableFacts DEF Enter, Good

\* Words are read from where they are, an odd byte before them or after them.
LEMMA SpmFacts ==
  ASSUME NEW s, NEW addr \in Nat, NEW n \in Nat \ {0}, addr % 2 = 0 \/ n % 2 = 1
  PROVE  \A i \in 0 .. n - 1 : ReadSpm(s, addr, n).bytes[i] = s.mem["flash"][addr + i]
<1> SUFFICES ASSUME NEW i \in 0 .. n - 1
             PROVE  ReadSpm(s, addr, n).bytes[i] = s.mem["flash"][addr + i]
  OBVIOUS
<1> DEFINE even == n + (n % 2)
           Response(j) == s.mem["flash"][(addr - (addr % 2)) + j]
<1>1. ReadSpm(s, addr, n).bytes[i] = IF i + (addr % 2) < even THEN Response(i + (addr % 2)) ELSE Response(i - 1)
  BY DEF ReadSpm
<1>2. addr % 2 \in {0, 1} /\ n % 2 \in {0, 1}
  OBVIOUS
<1>3. i + (addr % 2) < even
  BY <1>2
<1>4. (addr - (addr % 2)) + (i + (addr % 2)) = addr + i
  BY <1>2
<1> QED
  BY <1>1, <1>3, <1>4

\* jtagRead as a whole: what it leaves alone, and when its bytes are the memory's.
LEMMA ReadFacts ==
  ASSUME NEW s, Good(s), Modes(s), NEW m \in Memories, NEW addr, NEW n \in Nat \ {0},
         addr \in Addrs(m), addr + n - 1 \in Addrs(m)
  PROVE  LET r == jtagRead(s, m, addr, n)
             space == memorySpace(s, m)
         IN  /\ Good(r.sys) /\ ModesKept(s, r.sys)
             /\ r.sys.mem = s.mem
             /\ \A k \in Cached \ {m} : r.sys.cache[k] = s.cache[k] /\ r.sys.touched[k] = s.touched[k]
             /\ m \in Cached => \/ r.sys.cache[m] = s.cache[m] /\ r.sys.touched[m] = s.touched[m]
                                \/ ~r.sys.touched[m]
             /\ /\ Placed(space, addr, n)
                /\ Paged(space) => ~(s.cache[m].base = Base(addr) /\ s.touched[m])
                => \A i \in 0 .. n - 1 : r.bytes[i] = s.mem[m][addr + i]
<1> DEFINE space == memorySpace(s, m)
           e == Enter(s, space)
           p == IF Paged(space) THEN ReadPages(e, m, addr, n)
                ELSE IF space = "SPM" THEN ReadSpm(s, addr, n)
                ELSE ReadPlain(e, m, addr, n)
           r == jtagRead(s, m, addr, n)
           u == Leave(p.sys, space, s.programmingEnabled)
<1>1. r = [bytes |-> p.bytes, sys |-> u, answered |-> Answers(e, space)]
  BY Zenon DEF jtagRead
<1>2. /\ Good(e) /\ e.mem = s.mem /\ e.cache = s.cache /\ e.touched = s.touched
  BY EnterFacts
<1>3. SameModes(e, e) /\ SameModes(s, s)
  BY DEF SameModes
<1>4. addr \in Nat
  BY MemoryAssumption DEF Addrs, FlashAddrs, EepromAddrs, Memories
<1>5. space = "SPM" => m = "flash" /\ e = s
  BY DEF memorySpace, Enter, needProgmode, Paged, Memories
<1>6. Paged(space) => m \in Cached
  BY DEF memorySpace, Paged, Memories, Cached
<1>7. /\ SameModes(e, p.sys) /\ Good(p.sys) /\ p.sys.mem = s.mem
      /\ \A k \in Cached \ {m} : p.sys.cache[k] = s.cache[k] /\ p.sys.touched[k] = s.touched[k]
      /\ m \in Cached => \/ p.sys.cache[m] = s.cache[m] /\ p.sys.touched[m] = s.touched[m]
                         \/ ~p.sys.touched[m]
  <2>1. CASE Paged(space)
    <3>1. PageRead(e, ReadPages(e, m, addr, n).sys, m)
      BY <1>2, <1>6, <2>1, ReadPagesFacts
    <3> QED
      BY <1>2, <2>1, <3>1 DEF PageRead
  <2>2. CASE ~Paged(space)
    <3>1. p.sys = e
      BY <1>5, <2>2 DEF ReadSpm, ReadPlain
    <3> QED
      BY <1>2, <1>3, <3>1
  <2> QED
    BY <2>1, <2>2
<1>8. ASSUME Placed(space, addr, n),
             Paged(space) => ~(s.cache[m].base = Base(addr) /\ s.touched[m]),
             NEW i \in 0 .. n - 1
      PROVE  p.bytes[i] = s.mem[m][addr + i]
  <2>1. CASE Paged(space)
    <3>1. Base(addr) = Base(addr + n - 1)
      BY <1>8, <2>1 DEF Placed, Paged
    <3>2. p.bytes[i] = Fetched(e, m, Base(addr))[addr - Base(addr) + i]
      BY <1>2, <1>6, <2>1, <3>1, ReadPagesFacts
    <3>3. Base(addr) \in PageBases(m)
      BY DEF PageBases
    <3>4. Fetched(e, m, Base(addr)) = PageAt(s.mem[m], Base(addr))
      BY <1>2, <1>6, <1>8, <2>1, <3>3, FetchedGood
    <3>5. addr - Base(addr) + i \in 0 .. PageSize - 1
      BY <1>4, <3>1, BaseFacts, PageSizeFact
    <3>6. Base(addr) + (addr - Base(addr) + i) = addr + i
      BY <1>4, BaseFacts
    <3> QED
      BY <3>2, <3>4, <3>5, <3>6 DEF PageAt
  <2>2. CASE space = "SPM"
    <3>1. addr % 2 = 0 \/ n % 2 = 1
      BY <1>8, <2>2 DEF Placed, Paged
    <3>2. p.bytes = ReadSpm(s, addr, n).bytes
      BY <2>2 DEF Paged
    <3> HIDE DEF p, space
    <3> QED
      BY <1>4, <1>5, <2>2, <3>1, <3>2, SpmFacts
  <2>3. CASE ~Paged(space) /\ space # "SPM"
    BY <1>2, <2>3 DEF ReadPlain
  <2> QED
    BY <2>1, <2>2, <2>3
<1>9. Good(u) /\ ModesKept(s, u) /\ u.mem = p.sys.mem /\ u.cache = p.sys.cache /\ u.touched = p.sys.touched
  <2> HIDE DEF p, e, space
  <2>1. Shape(s) /\ Shape(p.sys) /\ SameModes(Enter(s, space), p.sys)
    BY <1>7 DEF Good, e
  <2>2. Shape(u) /\ ModesKept(s, u) /\ u.mem = p.sys.mem /\ u.cache = p.sys.cache /\ u.touched = p.sys.touched
    BY <2>1, LeaveFacts
  <2> QED
    BY <1>7, <2>2, ModeGood
<1> HIDE DEF p, e, space, u, r
<1>10. r.bytes = p.bytes /\ r.sys = u
  BY <1>1
<1>11. /\ Good(r.sys) /\ ModesKept(s, r.sys)
       /\ r.sys.mem = s.mem
       /\ \A k \in Cached \ {m} : r.sys.cache[k] = s.cache[k] /\ r.sys.touched[k] = s.touched[k]
       /\ m \in Cached => \/ r.sys.cache[m] = s.cache[m] /\ r.sys.touched[m] = s.touched[m]
                          \/ ~r.sys.touched[m]
  BY <1>7, <1>9, <1>10
<1>12. /\ Placed(space, addr, n)
       /\ Paged(space) => ~(s.cache[m].base = Base(addr) /\ s.touched[m])
       => \A i \in 0 .. n - 1 : r.bytes[i] = s.mem[m][addr + i]
  BY <1>8, <1>10
<1> QED
  BY <1>11, <1>12, Zenon DEF r, space

\* What has become of s, as t, when bytes were written.
Wrote(s, t, m, addr, bytes) ==
  /\ Good(t) /\ ModesKept(s, t) /\ t.cache = s.cache
  /\ memorySpace(s, m) # "SPM" =>
       LET u == Store(s, m, IF Paged(memorySpace(s, m)) THEN Base(addr) ELSE addr, bytes)
       IN  t.mem = u.mem /\ t.touched = u.touched

\* jtagWrite as a whole.
LEMMA WriteFacts ==
  ASSUME NEW s, Good(s), Modes(s), NEW m \in Memories, NEW addr, NEW n \in Nat \ {0},
         addr \in Addrs(m), NEW bytes \in [0 .. n - 1 -> Bytes]
  PROVE  Wrote(s, jtagWrite(s, m, addr, bytes).sys, m, addr, bytes)
<1> DEFINE space == memorySpace(s, m)
           at == IF Paged(space) THEN Base(addr) ELSE addr
           begin == IF IsLoad(space, addr, Cardinality(DOMAIN bytes)) THEN eraseProgramMemory(s) ELSE s
           e == Enter(begin, space)
           t == Store(e, m, at, bytes)
           u == Leave(t, space, s.programmingEnabled)
           w == jtagWrite(s, m, addr, bytes)
<1>1. w.sys = u
  BY DEF jtagWrite
<1>2. Good(begin) /\ SameModes(s, begin) /\ begin.cache = s.cache /\ (space # "SPM" => begin = s)
  BY EraseGood, EraseFacts DEF IsLoad, SameModes, Good
<1>3. at \in Int
  BY MemoryAssumption, BaseFacts DEF Addrs, FlashAddrs, EepromAddrs, Memories
<1> HIDE DEF at, begin, space, u, w
<1>4. Good(e) /\ e.mem = begin.mem /\ e.cache = s.cache /\ e.touched = begin.touched
  BY <1>2, EnterFacts
<1>5. SameModes(Enter(s, space), e)
  BY <1>2, EnableFacts DEF Enter, SameModes, Good
<1> HIDE DEF e
<1>6. Good(t)
  BY <1>3, <1>4, StoreGood
<1>7. SameModes(e, t) /\ t.cache = s.cache
  BY <1>4, StoreFacts DEF Changed, Good
<1>8. SameModes(Enter(s, space), t)
  BY <1>5, <1>7 DEF SameModes
<1>9. space # "SPM" => LET v == Store(s, m, at, bytes) IN t.mem = v.mem /\ t.touched = v.touched
  <2> SUFFICES ASSUME space # "SPM"
               PROVE  LET v == Store(s, m, at, bytes) IN t.mem = v.mem /\ t.touched = v.touched
    OBVIOUS
  <2>1. e.mem = s.mem /\ e.cache = s.cache /\ e.touched = s.touched
    BY <1>2, <1>4
  <2> DEFINE v == Store(s, m, at, bytes)
  <2>2. Shape(t) /\ Shape(v)
    BY <1>4, StoreFacts DEF Changed, Good
  <2>3. /\ NewMem(e, m, at, bytes) = NewMem(s, m, at, bytes)
        /\ NewTouch(e, m, at, bytes) = NewTouch(s, m, at, bytes)
    BY <2>1 DEF NewMem, NewTouch
  <2>4. /\ Changed(e, t, m, NewMem(s, m, at, bytes), NewTouch(s, m, at, bytes))
        /\ Changed(s, v, m, NewMem(s, m, at, bytes), NewTouch(s, m, at, bytes))
    BY <1>4, <2>3, StoreFacts DEF Good
  <2> HIDE DEF t, v
  <2> QED
    BY <2>1, <2>2, <2>4 DEF Shape, Changed, v
<1> HIDE DEF t
<1>10. /\ Shape(u) /\ ModesKept(s, u)
       /\ u.mem = t.mem /\ u.cache = t.cache /\ u.touched = t.touched /\ u.eesave = t.eesave
  BY <1>6, <1>8, LeaveFacts DEF Good, u
<1>11. Good(u)
  BY <1>6, <1>10, ModeGood
<1>12. /\ Good(w.sys) /\ ModesKept(s, w.sys) /\ w.sys.cache = s.cache
       /\ space # "SPM" => LET v == Store(s, m, at, bytes) IN w.sys.mem = v.mem /\ w.sys.touched = v.touched
  BY <1>1, <1>7, <1>9, <1>10, <1>11
<1> QED
  BY <1>12, Zenon DEF w, at, space, Wrote

-----------------------------------------------------------------------------
(* The inductive invariant.                                                *)

Positions == {Steps[i] : i \in 1 .. Len(Steps)} \cup {"downloading", "reset", "stuck", "exit", "dead"}
BeforeDownload == {"erase", "readFuses", "readLockBits", "writeFuses", "initOCD", "download"}

JobRecord(j) ==
  j = [part |-> j.part, phase |-> j.phase, addr |-> j.addr, file |-> j.file, program |-> j.program,
       verify |-> j.verify, verified |-> j.verified, before |-> j.before]
JobShape(j) ==
  /\ JobRecord(j)
  /\ j.part \in {"flash", "eeprom", "done"} /\ j.phase \in {"program", "verify"}
  /\ j.file \in Files /\ j.verified \in BOOLEAN

MemoryInv ==
  /\ frontend \in {"avarice", "manuel"}
  /\ pos \in Positions
  /\ Good(sys) /\ Modes(sys)
  /\ frontend = "avarice" /\ pos \notin {"downloading", "dead"} => ~sys.progmode
  /\ pos = "downloading" => frontend = "avarice" /\ JobShape(job) /\ (useDebugWire \/ sys.progmode)
  /\ job = NoJob \/ JobShape(job)
  /\ ReadCurrent

\* No page of a file is lost or misplaced in the memory m: OthersKept,
\* Complete if the file was programmed, and Holds if it was verified.
OthersKept(m) ==
  \A a \in Addrs(m) : (\A b \in DOMAIN job.file[m] : Base(b) # Base(a)) => sys.mem[m][a] = job.before[m][a]
Sure(m) == job.program /\ (m = "flash" => WasErased)
Done(m) == OthersKept(m) /\ (Sure(m) \/ job.verify => Holds(m))

\* The loop over the pages of one image: what it has passed, and what is still
\* as it was.
Passed(m) == \A a \in DOMAIN job.file[m] : a < job.addr => sys.mem[m][a] = job.file[m][a]
Programming(m) ==
  /\ OthersKept(m)
  /\ Sure(m) => Passed(m)
  /\ \A a \in Addrs(m) : a >= job.addr => sys.mem[m][a] = job.before[m][a]
  /\ sys.cache[m] = NoCache
Verifying(m) ==
  /\ OthersKept(m)
  /\ Sure(m) => Holds(m)
  /\ job.verify /\ job.verified => Passed(m)
  /\ sys.cache[m] = NoCache \/ ~sys.touched[m]
Underway(m) ==
  /\ HasData(job.file, m)
  /\ job.addr \in Nat /\ job.addr % PageSize = 0
  /\ IF job.phase = "program" THEN Programming(m) ELSE Verifying(m)
Untouched(m) == sys.mem[m] = job.before[m] /\ sys.cache[m] = NoCache

Downloading ==
  \/ job.part = "flash" /\ Underway("flash") /\ Untouched("eeprom")
  \/ job.part = "eeprom" /\ Done("flash") /\ Underway("eeprom")
  \/ job.part = "done" /\ Done("flash") /\ Done("eeprom")

DownloadInv ==
  /\ frontend = "avarice" /\ pos \in BeforeDownload => \A m \in Cached : sys.cache[m] = NoCache
  /\ pos = "downloading" => Downloading
  /\ pos = "reset" => frontend = "avarice" /\ JobShape(job) /\ Done("flash") /\ Done("eeprom")

-----------------------------------------------------------------------------
(* The steps of main.                                                      *)

\* The steps of main lead forward.
LEMMA AfterFacts ==
  ASSUME NEW p \in {"erase", "readFuses", "readLockBits", "writeFuses", "initOCD", "download", "writeLockBits"}
  PROVE  /\ After(p) \in Positions \ {"downloading", "reset", "dead"}
         /\ After(p) \in BeforeDownload => p \in BeforeDownload
         /\ p = "download" => After(p) = "writeLockBits"
<1>1. Len(Steps) = 8 /\ Steps[1] = "erase" /\ Steps[2] = "readFuses" /\ Steps[3] = "readLockBits"
      /\ Steps[4] = "writeFuses" /\ Steps[5] = "initOCD" /\ Steps[6] = "download"
      /\ Steps[7] = "writeLockBits" /\ Steps[8] = "session"
  BY DEF Steps
<1>2. 1 .. Len(Steps) - 1 = {1, 2, 3, 4, 5, 6, 7} /\ 1 .. Len(Steps) = {1, 2, 3, 4, 5, 6, 7, 8}
  BY <1>1
<1> DEFINE i == CHOOSE i \in 1 .. Len(Steps) - 1 : Steps[i] = p
<1>3. \E j \in 1 .. Len(Steps) - 1 : Steps[j] = p
  BY <1>1, <1>2
<1>4. i \in 1 .. Len(Steps) - 1 /\ Steps[i] = p /\ After(p) = Steps[i + 1]
  BY <1>3 DEF After
<1> HIDE DEF i
<1>5. After(p) \in {Steps[2], Steps[3], Steps[4], Steps[5], Steps[6], Steps[7], Steps[8]}
      /\ (i = 7 => After(p) = Steps[8])
  BY <1>2, <1>4
<1>6. After(p) \in {Steps[j] : j \in 1 .. Len(Steps)}
  BY <1>2, <1>5
<1>7. p = "writeLockBits" => i = 7
  BY <1>1, <1>2, <1>4
<1>8. p = "download" => i = 6
  BY <1>1, <1>2, <1>4
<1> QED
  BY <1>1, <1>4, <1>5, <1>6, <1>7, <1>8 DEF Positions, BeforeDownload

\* The two mode switches of the driver.
LEMMA ModeFacts ==
  ASSUME NEW s, Good(s), Modes(s)
  PROVE  /\ Good(enableProgramming(s)) /\ Good(disableProgramming(s))
         /\ Modes(enableProgramming(s)) /\ Modes(disableProgramming(s))
         /\ enableProgramming(s).cache = s.cache /\ enableProgramming(s).mem = s.mem
         /\ disableProgramming(s).cache = s.cache /\ disableProgramming(s).mem = s.mem
         /\ useDebugWire \/ enableProgramming(s).progmode
         /\ ~disableProgramming(s).progmode
<1>1. Shape(s)
  BY DEF Good
<1>2. Good(enableProgramming(s)) /\ Good(disableProgramming(s))
  BY EnterGood
<1> DEFINE t == enableProgramming(s)
           u == disableProgramming(s)
<1>3. /\ t.cache = s.cache /\ t.mem = s.mem
      /\ IF useDebugWire THEN SameModes(s, t)
         ELSE t.programmingEnabled = TRUE /\ t.progmode = TRUE /\ t.assigned = TRUE
  BY <1>1, EnableFacts
<1>4. /\ u.cache = s.cache /\ u.mem = s.mem
      /\ IF useDebugWire THEN SameModes(s, u)
         ELSE u.programmingEnabled = FALSE /\ u.progmode = FALSE /\ u.assigned = TRUE
  BY <1>1, DisableFacts
<1> HIDE DEF t, u
<1>5. Modes(t) /\ (useDebugWire \/ t.progmode)
  BY <1>3 DEF Modes, SameModes
<1>6. Modes(u) /\ ~u.progmode
  BY <1>4 DEF Modes, SameModes
<1> QED
  BY <1>2, <1>3, <1>4, <1>5, <1>6 DEF t, u

\* Fuses and lock bits.
Bits == {"fuse", "lock"}

\* Reading fuses or lock bits.
LEMMA ReadBitsFacts ==
  ASSUME NEW s, Good(s), Modes(s), NEW m \in Bits
  PROVE  LET r == jtagRead(s, m, 0, 1)
         IN  Good(r.sys) /\ Modes(r.sys) /\ r.sys.cache = s.cache /\ r.sys.mem = s.mem
<1>1. m \in Memories /\ m \notin Cached /\ 0 \in Addrs(m) /\ 0 + 1 - 1 \in Addrs(m)
  BY DEF Bits, Memories, Cached, Addrs
<1> DEFINE t == jtagRead(s, m, 0, 1).sys
<1>2. /\ Good(t) /\ ModesKept(s, t) /\ t.mem = s.mem
      /\ \A k \in Cached \ {m} : t.cache[k] = s.cache[k]
  BY <1>1, ReadFacts
<1> HIDE DEF t
<1>3. t.cache = s.cache
  BY <1>1, <1>2 DEF Good, Shape
<1> QED
  BY <1>2, <1>3 DEF ModesKept, t

\* Writing them.
LEMMA WriteBitsFacts ==
  ASSUME NEW s, Good(s), Modes(s), NEW m \in Bits, NEW v \in Bytes
  PROVE  LET w == jtagWrite(s, m, 0, [i \in {0} |-> v])
         IN  Good(w.sys) /\ Modes(w.sys) /\ w.sys.cache = s.cache
<1>1. m \in Memories /\ 0 \in Addrs(m)
  BY DEF Bits, Memories, Addrs
<1> DEFINE bytes == [i \in {0} |-> v]
           w == jtagWrite(s, m, 0, bytes)
           n == 1
<1>2. bytes \in [0 .. n - 1 -> Bytes] /\ n \in Nat \ {0}
  OBVIOUS
<1> HIDE DEF bytes, n
<1>3. Wrote(s, w.sys, m, 0, bytes)
  BY <1>1, <1>2, WriteFacts
<1> QED
  BY <1>3 DEF ModesKept, bytes, Wrote

\* Setting them where they are not as wanted.
LEMMA EnsureFacts ==
  ASSUME NEW s, Good(s), Modes(s), NEW m \in Bits, NEW v \in Bytes
  PROVE  LET t == Ensure(s, m, v) IN Good(t) /\ Modes(t) /\ t.cache = s.cache
<1> DEFINE r == jtagRead(s, m, 0, 1)
<1>1. Good(r.sys) /\ Modes(r.sys) /\ r.sys.cache = s.cache
  BY ReadBitsFacts
<1>2. Ensure(s, m, v) = IF r.bytes[0] = v THEN r.sys ELSE jtagWrite(r.sys, m, 0, [i \in {0} |-> v]).sys
  BY DEF Ensure
<1> HIDE DEF r
<1>3. LET w == jtagWrite(r.sys, m, 0, [i \in {0} |-> v])
      IN  Good(w.sys) /\ Modes(w.sys) /\ w.sys.cache = r.sys.cache
  BY <1>1, WriteBitsFacts
<1> QED
  BY <1>1, <1>2, <1>3

\* A step of main that ends in or out of programming mode: what is left of
\* the invariant.
LEMMA MainKeeps ==
  ASSUME MemoryInv, UNCHANGED <<frontend, useDebugWire, last>>,
         Good(sys'), Modes(sys'), pos' \in Positions,
         job' = NoJob \/ JobShape(job'),
         frontend = "avarice" /\ pos' \notin {"downloading", "dead"} => ~sys'.progmode,
         pos' = "downloading" => frontend = "avarice" /\ JobShape(job') /\ (useDebugWire \/ sys'.progmode)
  PROVE  MemoryInv'
<1>1. Modes(sys)'
  BY DEF Modes
<1>2. ReadCurrent'
  BY DEF MemoryInv, ReadCurrent
<1>3. Good(sys)' /\ (job' = NoJob \/ JobShape(job)')
  BY DEF Good, Shape, CacheGood, JobShape, JobRecord
<1> QED
  BY <1>1, <1>2, <1>3 DEF MemoryInv

\* Bytes a script or a debugger reads and writes lie within the memory.
LEMMA AccessFacts ==
  ASSUME NEW q \in Reads \cup Writes
  PROVE  /\ q.m \in Memories /\ q.n \in Nat \ {0}
         /\ q.addr \in Addrs(q.m) /\ q.addr + q.n - 1 \in Addrs(q.m)
<1>1. /\ q.m \in Memories /\ q.n \in Nat \ {0}
      /\ q.addr .. q.addr + q.n - 1 \subseteq Addrs(q.m)
  BY MemoryAssumption
<1>2. q.addr \in Int
  BY MemoryAssumption
<1> QED
  BY <1>1, <1>2

\* What the steps before and after the download have in common.
SettingUp ==
  /\ MemoryInv'
  /\ sys'.cache = sys.cache
  /\ pos' \notin {"downloading", "reset"}
  /\ pos' \in BeforeDownload => pos \in BeforeDownload

\* Every such step keeps the invariant and the caches.
LEMMA SetupKeeps ==
  ASSUME MemoryInv,
         \/ Skip \/ Erase
         \/ ReadBits("readFuses", "fuse")
         \/ ReadBits("readLockBits", "lock")
         \/ \E v \in Bytes : WriteBits("writeFuses", "fuse", v)
         \/ InitJtagOnChipDebugging
         \/ \E v \in Bytes : WriteBits("writeLockBits", "lock", v)
         \/ Finish
  PROVE  SettingUp
<1> DEFINE p1 == {"erase", "readFuses", "readLockBits", "writeFuses", "initOCD", "download", "writeLockBits"}
<1>0. Good(sys) /\ Modes(sys) /\ (frontend = "avarice" /\ pos \in p1 => ~sys.progmode)
      /\ (job = NoJob \/ JobShape(job)) /\ pos \in Positions
  BY DEF MemoryInv
<1>1. ASSUME Skip PROVE SettingUp
  <2>1. PICK p \in p1 : Goes(p)
    BY <1>1 DEF Skip
  <2>2. frontend = "avarice" /\ pos \in p1 /\ pos' \in Positions \ {"downloading", "reset", "dead"}
        /\ (pos' \in BeforeDownload => pos \in BeforeDownload)
    BY <2>1, AfterFacts DEF Goes
  <2> QED
    BY <1>0, <1>1, <2>2, MainKeeps DEF SettingUp, Skip
<1>2. ASSUME Erase PROVE SettingUp
  <2>1. pos \in p1 /\ frontend = "avarice" /\ pos' \in Positions \ {"downloading", "reset", "dead"}
        /\ (pos' \in BeforeDownload => pos \in BeforeDownload)
    BY <1>2, AfterFacts DEF Erase, Goes
  <2> DEFINE e == enableProgramming(sys)
             t == eraseProgramMemory(e)
  <2>2. Good(e) /\ Modes(e) /\ e.cache = sys.cache
    BY <1>0, ModeFacts
  <2> HIDE DEF e
  <2>3. Good(t) /\ Modes(t) /\ t.cache = sys.cache
    BY <2>2, EraseGood, EraseFacts DEF Modes, SameModes, Good
  <2> HIDE DEF t
  <2>4. Good(disableProgramming(t)) /\ Modes(disableProgramming(t)) /\ ~disableProgramming(t).progmode
        /\ disableProgramming(t).cache = sys.cache
    BY <2>3, ModeFacts
  <2>5. sys' = IF useDebugWire THEN sys ELSE disableProgramming(t)
    BY <1>2 DEF Erase, t, e
  <2>6. Good(sys') /\ Modes(sys') /\ ~sys'.progmode /\ sys'.cache = sys.cache
    BY <1>0, <2>1, <2>4, <2>5
  <2> QED
    BY <1>0, <1>2, <2>1, <2>6, MainKeeps DEF SettingUp, Erase
<1>3. ASSUME NEW p \in p1, NEW m \in Bits, ReadBits(p, m)
      PROVE  SettingUp
  <2>1. pos \in p1 /\ frontend = "avarice" /\ pos' \in Positions \ {"downloading", "reset", "dead"}
        /\ (pos' \in BeforeDownload => pos \in BeforeDownload)
    BY <1>3, AfterFacts DEF ReadBits, Goes
  <2> DEFINE e == enableProgramming(sys)
             t == jtagRead(e, m, 0, 1).sys
  <2>2. Good(e) /\ Modes(e) /\ e.cache = sys.cache
    BY <1>0, ModeFacts
  <2> HIDE DEF e
  <2>3. Good(t) /\ Modes(t) /\ t.cache = sys.cache
    BY <2>2, ReadBitsFacts
  <2>4. sys' = disableProgramming(t)
    BY <1>3, Zenon DEF ReadBits, e
  <2> HIDE DEF t
  <2>5. Good(sys') /\ Modes(sys') /\ ~sys'.progmode /\ sys'.cache = sys.cache
    BY <2>3, <2>4, ModeFacts
  <2> QED
    BY <1>0, <1>3, <2>1, <2>5, MainKeeps DEF SettingUp, ReadBits
<1>4. ASSUME NEW p \in p1, NEW m \in Bits, NEW v \in Bytes, WriteBits(p, m, v)
      PROVE  SettingUp
  <2>1. pos \in p1 /\ frontend = "avarice" /\ pos' \in Positions \ {"downloading", "reset", "dead"}
        /\ (pos' \in BeforeDownload => pos \in BeforeDownload)
    BY <1>4, AfterFacts DEF WriteBits, Goes
  <2> DEFINE e == enableProgramming(sys)
             w == jtagWrite(e, m, 0, [i \in {0} |-> v]).sys
             t == jtagRead(w, m, 0, 1).sys
  <2>2. Good(e) /\ Modes(e) /\ e.cache = sys.cache
    BY <1>0, ModeFacts
  <2> HIDE DEF e
  <2>3. Good(w) /\ Modes(w) /\ w.cache = sys.cache
    BY <2>2, WriteBitsFacts
  <2> HIDE DEF w
  <2>4. Good(t) /\ Modes(t) /\ t.cache = sys.cache
    BY <2>3, ReadBitsFacts
  <2>5. sys' = disableProgramming(t)
    BY <1>4, Zenon DEF WriteBits, e, w
  <2> HIDE DEF t
  <2>6. Good(sys') /\ Modes(sys') /\ ~sys'.progmode /\ sys'.cache = sys.cache
    BY <2>4, <2>5, ModeFacts
  <2> QED
    BY <1>0, <1>4, <2>1, <2>6, MainKeeps DEF SettingUp, WriteBits
<1>5. ASSUME InitJtagOnChipDebugging PROVE SettingUp
  <2>1. pos = "initOCD" /\ frontend = "avarice" /\ After(pos) \in Positions \ {"downloading", "reset", "dead"}
        /\ (After(pos) \in BeforeDownload => pos \in BeforeDownload)
    BY <1>5, AfterFacts DEF InitJtagOnChipDebugging
  <2> DEFINE e == enableProgramming(sys)
             l == Ensure(e, "lock", 1)
             t == Ensure(l, "fuse", 0)
  <2>2. Good(e) /\ Modes(e) /\ e.cache = sys.cache
    BY <1>0, ModeFacts
  <2> HIDE DEF e
  <2>3. Good(l) /\ Modes(l) /\ l.cache = sys.cache
    BY <2>2, EnsureFacts DEF Bits, Bytes
  <2> HIDE DEF l
  <2>4. Good(t) /\ Modes(t) /\ t.cache = sys.cache
    BY <2>3, EnsureFacts DEF Bits, Bytes
  <2> HIDE DEF t
  <2>5. Good(disableProgramming(t)) /\ Modes(disableProgramming(t)) /\ ~disableProgramming(t).progmode
        /\ disableProgramming(t).cache = sys.cache
    BY <2>4, ModeFacts
  <2>6. \/ pos' = After(pos) /\ sys' = sys
        \/ pos' = "stuck" /\ sys' = disableProgramming(t)
    BY <1>5, <2>1 DEF InitJtagOnChipDebugging, t, l, e
  <2>7. Good(sys') /\ Modes(sys') /\ ~sys'.progmode /\ sys'.cache = sys.cache
    BY <1>0, <2>1, <2>5, <2>6
  <2>8. pos' \in Positions \ {"downloading", "reset", "dead"}
        /\ (pos' \in BeforeDownload => pos \in BeforeDownload)
    BY <2>1, <2>6 DEF Positions, BeforeDownload
  <2> QED
    BY <1>0, <1>5, <2>1, <2>7, <2>8, MainKeeps DEF SettingUp, InitJtagOnChipDebugging
<1>6. ASSUME Finish PROVE SettingUp
  <2>1. pos' = "exit" /\ pos = "session" /\ "exit" \in Positions \ BeforeDownload
    BY <1>6 DEF Finish, Positions, BeforeDownload
  <2>2. frontend = "avarice" => ~sys.progmode
    BY <2>1 DEF MemoryInv
  <2> QED
    BY <1>0, <1>6, <2>1, <2>2, MainKeeps DEF SettingUp, Finish
<1> QED
  BY <1>1, <1>2, <1>3, <1>4, <1>5, <1>6 DEF Bits

-----------------------------------------------------------------------------
(* The session.                                                            *)

\* The flag is right when the target answers, so that avarice, which has left
\* the programming mode, does not read by pages unless it is under debugWire.
LEMMA NoPages ==
  ASSUME MemoryInv, frontend = "avarice", ~useDebugWire, ~sys.progmode, NEW m \in Memories,
         Answers(Enter(sys, memorySpace(sys, m)), memorySpace(sys, m))
  PROVE  ~Paged(memorySpace(sys, m))
<1> SUFFICES ASSUME Paged(memorySpace(sys, m))
             PROVE  FALSE
  OBVIOUS
<1>1. sys.programmingEnabled
  BY DEF memorySpace, Paged, Memories
<1>2. Enter(sys, memorySpace(sys, m)) = sys
  BY <1>1 DEF Enter
<1> QED
  BY <1>2 DEF Answers, needProgmode

\* A read by GDB or a script.
LEMMA ReadKeeps ==
  ASSUME MemoryInv, NEW q \in Reads, Read(q)
  PROVE  MemoryInv' /\ sys'.progmode = sys.progmode
<1> DEFINE r == jtagRead(sys, q.m, q.addr, q.n)
           space == memorySpace(sys, q.m)
<1>0. /\ Good(sys) /\ Modes(sys) /\ pos \in Positions /\ (job = NoJob \/ JobShape(job))
      /\ pos = "session" /\ pos' = pos /\ (frontend = "avarice" => ~sys.progmode)
      /\ UNCHANGED <<frontend, useDebugWire, job>>
  BY DEF MemoryInv, Read, InSession
<1>1. /\ q.m \in Memories /\ q.n \in Nat \ {0}
      /\ q.addr \in Addrs(q.m) /\ q.addr + q.n - 1 \in Addrs(q.m)
  BY AccessFacts
<1>2. /\ Good(r.sys) /\ ModesKept(sys, r.sys)
      /\ /\ Placed(space, q.addr, q.n)
         /\ Paged(space) => ~(sys.cache[q.m].base = Base(q.addr) /\ sys.touched[q.m])
         => \A i \in 0 .. q.n - 1 : r.bytes[i] = sys.mem[q.m][q.addr + i]
  BY <1>0, <1>1, ReadFacts
<1>3. sys' = r.sys /\ r.answered /\
      last' = [op |-> "read", placed |-> Placed(space, q.addr, q.n),
               stale |-> Stale(space, q.m, q.addr),
               right |-> \A i \in 0 .. q.n - 1 : r.bytes[i] = sys.mem[q.m][q.addr + i]]
  BY Zenon DEF Read
<1>4. r.answered => Answers(Enter(sys, space), space)
  BY DEF jtagRead
<1>5. frontend = "avarice" /\ ~useDebugWire => ~Paged(space)
  BY <1>0, <1>1, <1>3, <1>4, NoPages
<1> HIDE DEF r, space
<1>6. /\ last'.placed = Placed(space, q.addr, q.n)
      /\ last'.stale = Stale(space, q.m, q.addr)
      /\ last'.right = (\A i \in 0 .. q.n - 1 : r.bytes[i] = sys.mem[q.m][q.addr + i])
  BY <1>3, Zenon
<1>7. last'.placed /\ (~last'.stale \/ (frontend = "avarice" /\ ~useDebugWire)) => last'.right
  BY <1>2, <1>5, <1>6 DEF Stale
<1>8. ReadCurrent'
  BY <1>0, <1>7 DEF ReadCurrent
<1>9. Good(sys)' /\ Modes(sys)' /\ sys'.progmode = sys.progmode
  BY <1>0, <1>2, <1>3 DEF ModesKept, Modes
<1> QED
  BY <1>0, <1>8, <1>9 DEF MemoryInv, JobShape, JobRecord

\* The rest of the session says nothing of reading.
LEMMA SessionKeeps ==
  ASSUME MemoryInv, pos = "session", UNCHANGED <<frontend, useDebugWire, pos, job>>,
         Good(sys'), Modes(sys'), last'.op # "read",
         frontend = "avarice" => sys'.progmode = sys.progmode
  PROVE  MemoryInv'
<1>1. ReadCurrent'
  BY DEF ReadCurrent
<1>2. Good(sys)' /\ Modes(sys)'
  BY DEF Modes
<1> QED
  BY <1>1, <1>2 DEF MemoryInv, JobShape, JobRecord

\* A write by GDB or a script.
LEMMA WriteKeeps ==
  ASSUME MemoryInv, NEW q \in Writes, NEW bytes \in [0 .. q.n - 1 -> Bytes], Write(q, bytes)
  PROVE  MemoryInv' /\ sys'.progmode = sys.progmode
<1> DEFINE t == jtagWrite(sys, q.m, q.addr, bytes).sys
<1>0. Good(sys) /\ Modes(sys)
  BY DEF MemoryInv
<1>1. /\ q.m \in Memories /\ q.n \in Nat \ {0} /\ q.addr \in Addrs(q.m)
  BY AccessFacts
<1>2. Wrote(sys, t, q.m, q.addr, bytes)
  BY <1>0, <1>1, WriteFacts
<1>3. sys' = t /\ last' = [NoAccess EXCEPT !.op = "write"]
  BY Zenon DEF Write
<1> HIDE DEF t
<1>4. Good(sys') /\ Modes(sys') /\ sys'.progmode = sys.progmode /\ last'.op # "read"
  BY <1>2, <1>3 DEF Wrote, ModesKept, NoAccess
<1> QED
  BY <1>4, SessionKeeps DEF Write, InSession

\* A method that only scripts call,
LEMMA ScriptKeeps ==
  ASSUME MemoryInv, NEW s, Good(s), Modes(s), Script(s)
  PROVE  MemoryInv' /\ last'.op = "none"
  BY SessionKeeps DEF Script, NoAccess

\* each of them.
LEMMA ScriptsKeep ==
  ASSUME MemoryInv,
         \/ Script(enableProgramming(sys))
         \/ Script(disableProgramming(sys))
         \/ Script(eraseProgramMemory(sys))
         \/ \E a \in FlashAddrs : Script(eraseProgramPage(sys, Base(a)))
  PROVE  MemoryInv' /\ last'.op = "none"
<1>0. Good(sys) /\ Modes(sys)
  BY DEF MemoryInv
<1>1. ASSUME NEW s, Good(s), SameModes(sys, s)
      PROVE  Modes(s)
  BY <1>0, <1>1 DEF Modes, SameModes
<1>2. Good(enableProgramming(sys)) /\ Modes(enableProgramming(sys))
      /\ Good(disableProgramming(sys)) /\ Modes(disableProgramming(sys))
  BY <1>0, ModeFacts
<1>3. Good(eraseProgramMemory(sys)) /\ Modes(eraseProgramMemory(sys))
  BY <1>0, <1>1, EraseGood, EraseFacts DEF Good
<1>4. ASSUME NEW b
      PROVE  Good(eraseProgramPage(sys, b)) /\ Modes(eraseProgramPage(sys, b))
  BY <1>0, <1>1, ErasePageGood, ErasePageFacts DEF Good
<1> QED
  BY <1>2, <1>3, <1>4, ScriptKeeps

\* The program writes its EEPROM behind the caches.
LEMMA ProgramWritesKeeps ==
  ASSUME MemoryInv, NEW a \in EepromAddrs, ProgramWrites(a)
  PROVE  MemoryInv' /\ last'.op = "none"
<1> DEFINE mem == [sys.mem["eeprom"] EXCEPT ![a] = 1 - @]
           touch == sys.touched["eeprom"] \/ sys.cache["eeprom"].base = Base(a)
<1>0. Good(sys) /\ Modes(sys) /\ pos = "session"
  BY DEF MemoryInv, ProgramWrites, InSession
<1>1. sys.mem["eeprom"] \in [EepromAddrs -> Bytes]
  BY <1>0 DEF Good, Memories, Addrs
<1>2. mem \in [Addrs("eeprom") -> Bytes] /\ \A b \in Addrs("eeprom") : b # a => mem[b] = sys.mem["eeprom"][b]
  BY <1>1 DEF Addrs, Bytes
<1>3. sys' = [sys EXCEPT !.mem["eeprom"] = mem, !.touched["eeprom"] = touch]
  BY DEF ProgramWrites
<1>4. touch \in BOOLEAN /\ (sys.touched["eeprom"] => touch) /\ (sys.cache["eeprom"].base = Base(a) => touch)
  OBVIOUS
<1> HIDE DEF mem, touch
<1>5. Changed(sys, sys', "eeprom", mem, touch)
  <2> DEFINE m == "eeprom"
  <2>1. Shape(sys) /\ m \in Memories /\ m \in Cached
    BY <1>0 DEF Good, Memories, Cached
  <2>2. sys' = [sys EXCEPT !.mem[m] = mem, !.touched[m] = touch]
    BY <1>3
  <2> HIDE DEF m
  <2>3. Changed(sys, sys', m, mem, touch)
    BY <1>4, <2>1, <2>2, ChangeFacts
  <2> QED
    BY <2>3 DEF m
<1>6. \A b \in Addrs("eeprom") : mem[b] # sys.mem["eeprom"][b] /\ Base(b) = sys.cache["eeprom"].base => touch
  BY <1>2, <1>4
<1>7. Good(sys')
  BY <1>0, <1>2, <1>4, <1>5, <1>6, ChangeGood DEF Memories
<1>8. Modes(sys') /\ sys'.progmode = sys.progmode
  BY <1>0, <1>5 DEF Changed, SameModes, Modes
<1>9. last'.op = "none"
  BY DEF ProgramWrites, NoAccess
<1> QED
  BY <1>0, <1>7, <1>8, <1>9, SessionKeeps DEF ProgramWrites

-----------------------------------------------------------------------------
(* The download, as far as the modes and the caches go.                    *)

SameFile(j, k) ==
  k.file = j.file /\ k.program = j.program /\ k.verify = j.verify /\ k.before = j.before

\* An image is begun at its first page.
LEMMA StartImageFacts ==
  ASSUME NEW j, JobRecord(j), NEW m \in {"flash", "eeprom", "done"}
  PROVE  LET k == StartImage(j, m)
         IN  /\ JobRecord(k) /\ SameFile(j, k) /\ k.part = m /\ k.verified = j.verified
             /\ k.phase = IF m = "done" THEN j.phase ELSE "program"
             /\ m # "done" => k.addr = FirstPage(j.file[m])
<1> DEFINE first == FirstPage(j.file[m])
           k == StartImage(j, m)
<1>1. k = IF m = "done" THEN [j EXCEPT !.part = m]
          ELSE [j EXCEPT !.part = m, !.phase = "program", !.addr = first]
  BY DEF StartImage
<1> HIDE DEF first, k
<1>2. /\ JobRecord(k) /\ SameFile(j, k) /\ k.part = m /\ k.verified = j.verified
      /\ k.phase = IF m = "done" THEN j.phase ELSE "program"
      /\ m # "done" => k.addr = first
  BY <1>1 DEF JobRecord, SameFile
<1> QED
  BY <1>2 DEF first, k

\* The same job, elsewhere in the image.
Moved(j, k, phase, a) ==
  /\ JobRecord(k) /\ SameFile(j, k)
  /\ k.part = j.part /\ k.phase = phase /\ k.addr = a

\* The loop that programs goes on to the next page,
LEMMA JobMoves ==
  ASSUME NEW j, JobRecord(j), NEW a, NEW k, k = [j EXCEPT !.addr = a]
  PROVE  Moved(j, k, j.phase, a) /\ k.verified = j.verified
  BY DEF JobRecord, SameFile, Moved

\* so does the one that verifies,
LEMMA JobVerifies ==
  ASSUME NEW j, JobRecord(j), NEW a, NEW b \in BOOLEAN, NEW k,
         k = [j EXCEPT !.addr = a, !.verified = b]
  PROVE  Moved(j, k, j.phase, a) /\ k.verified = b
  BY DEF JobRecord, SameFile, Moved

\* and between them it begins again.
LEMMA JobTurns ==
  ASSUME NEW j, JobRecord(j), NEW a, NEW k,
         k = [j EXCEPT !.phase = "verify", !.addr = a, !.verified = TRUE]
  PROVE  Moved(j, k, "verify", a) /\ k.verified = TRUE
  BY DEF JobRecord, SameFile, Moved

\* What each step of the download makes of the job.
LEMMA JobSteps ==
  ASSUME pos = "downloading" => JobShape(job)
  PROVE  /\ ProgramPage => /\ JobShape(job') /\ SameFile(job, job') /\ job'.part = job.part
                           /\ job'.phase = job.phase /\ job'.addr = job.addr + PageSize
         /\ EndProgram => /\ JobShape(job') /\ SameFile(job, job') /\ job'.part = job.part
                          /\ job'.phase = "verify" /\ job'.addr = FirstPage(Image)
         /\ VerifyPage => /\ JobShape(job') /\ SameFile(job, job') /\ job'.part = job.part
                          /\ job'.phase = job.phase /\ job'.addr = job.addr + PageSize
                          /\ LET r == jtagRead(sys, job.part, job.addr, PageSize)
                             IN  job'.verified =>
                                   /\ job.verified
                                   /\ \A i \in 0 .. PageSize - 1 :
                                        job.addr + i \in DOMAIN Image => Image[job.addr + i] = r.bytes[i]
         /\ EndImage => /\ JobShape(job') /\ SameFile(job, job')
                        /\ job'.part = Following(job.file, job.part)
                        /\ job'.part # "done" => /\ job'.phase = "program"
                                                 /\ job'.addr = FirstPage(job.file[job'.part])
<1>1. ASSUME ProgramPage
      PROVE  /\ JobShape(job') /\ SameFile(job, job') /\ job'.part = job.part
             /\ job'.phase = job.phase /\ job'.addr = job.addr + PageSize
  <2>1. JobShape(job) /\ job' = [job EXCEPT !.addr = job.addr + PageSize]
    BY <1>1 DEF ProgramPage, In
  <2> DEFINE a == job.addr + PageSize
  <2> HIDE DEF a
  <2>2. job' = [job EXCEPT !.addr = a] /\ JobRecord(job)
    BY <2>1 DEF a, JobShape
  <2>3. Moved(job, job', job.phase, a) /\ job'.verified = job.verified
    BY <2>2, JobMoves
  <2> QED
    BY <2>1, <2>3 DEF JobShape, SameFile, Moved, a
<1>2. ASSUME EndProgram
      PROVE  /\ JobShape(job') /\ SameFile(job, job') /\ job'.part = job.part
             /\ job'.phase = "verify" /\ job'.addr = FirstPage(Image)
  <2> DEFINE first == FirstPage(Image)
  <2>1. JobShape(job) /\ job' = [job EXCEPT !.phase = "verify", !.addr = first, !.verified = TRUE]
    BY <1>2 DEF EndProgram, In
  <2> HIDE DEF first
  <2>2. JobRecord(job)
    BY <2>1 DEF JobShape
  <2>3. Moved(job, job', "verify", first) /\ job'.verified = TRUE
    BY <2>1, <2>2, JobTurns
  <2> QED
    BY <2>1, <2>3 DEF JobShape, SameFile, Moved, first
<1>3. ASSUME VerifyPage
      PROVE  /\ JobShape(job') /\ SameFile(job, job') /\ job'.part = job.part
             /\ job'.phase = job.phase /\ job'.addr = job.addr + PageSize
             /\ LET r == jtagRead(sys, job.part, job.addr, PageSize)
                IN  job'.verified =>
                      /\ job.verified
                      /\ \A i \in 0 .. PageSize - 1 :
                           job.addr + i \in DOMAIN Image => Image[job.addr + i] = r.bytes[i]
  <2> DEFINE r == jtagRead(sys, job.part, job.addr, PageSize)
             match == \A i \in 0 .. PageSize - 1 :
                        job.addr + i \in DOMAIN Image => Image[job.addr + i] = r.bytes[i]
             ok == job.verified /\ match
  <2>1. JobShape(job) /\ job' = [job EXCEPT !.addr = job.addr + PageSize, !.verified = ok]
    BY <1>3, Zenon DEF VerifyPage, In
  <2>2. ok \in BOOLEAN /\ (ok => job.verified /\ match)
    OBVIOUS
  <2> DEFINE a == job.addr + PageSize
  <2>a. job' = [job EXCEPT !.addr = a, !.verified = ok] /\ JobRecord(job)
    BY <2>1 DEF JobShape
  <2> HIDE DEF ok, match, a
  <2>b. Moved(job, job', job.phase, a) /\ job'.verified = ok
    BY <2>2, <2>a, JobVerifies
  <2>3. /\ JobRecord(job') /\ SameFile(job, job') /\ job'.part = job.part /\ job'.phase = job.phase
        /\ job'.addr = job.addr + PageSize /\ job'.verified = ok
    BY <2>b DEF Moved, a
  <2>4. JobShape(job')
    BY <2>1, <2>2, <2>3 DEF JobShape, SameFile
  <2>5. job'.verified => job.verified /\ match
    BY <2>2, <2>3
  <2> QED
    BY <2>3, <2>4, <2>5, Zenon DEF match
<1>4. ASSUME EndImage
      PROVE  /\ JobShape(job') /\ SameFile(job, job')
             /\ job'.part = Following(job.file, job.part)
             /\ job'.part # "done" => /\ job'.phase = "program"
                                      /\ job'.addr = FirstPage(job.file[job'.part])
  <2> DEFINE m == Following(job.file, job.part)
  <2>1. JobShape(job) /\ job' = StartImage(job, m)
    BY <1>4 DEF EndImage, In
  <2>2. m \in {"flash", "eeprom", "done"}
    BY DEF Following
  <2> HIDE DEF m
  <2>3. /\ JobRecord(job') /\ SameFile(job, job') /\ job'.part = m /\ job'.verified = job.verified
        /\ job'.phase = IF m = "done" THEN job.phase ELSE "program"
        /\ m # "done" => job'.addr = FirstPage(job.file[m])
    BY <2>1, <2>2, StartImageFacts DEF JobShape
  <2> QED
    BY <2>1, <2>2, <2>3 DEF JobShape, SameFile, m
<1> QED
  BY <1>1, <1>2, <1>3, <1>4, Zenon

\* What downloadToTarget begins with.
LEMMA StartDownloadFacts ==
  ASSUME NEW f \in Files, NEW program \in BOOLEAN, NEW verify \in BOOLEAN,
         StartDownload(f, program, verify)
  PROVE  /\ JobShape(job') /\ job'.part = Following(f, "begin")
         /\ job'.file = f /\ job'.program = program /\ job'.verify = verify
         /\ \A m \in {"flash", "eeprom"} : job'.before[m] = sys.mem[m]
         /\ job'.part # "done" => job'.phase = "program" /\ job'.addr = FirstPage(f[job'.part])
<1> DEFINE before == [m \in {"flash", "eeprom"} |-> sys.mem[m]]
           j == [part |-> "begin", phase |-> "program", addr |-> 0, file |-> f,
                 program |-> program, verify |-> verify, verified |-> TRUE, before |-> before]
           m == Following(f, "begin")
<1>1. job' = StartImage(j, m)
  BY Zenon DEF StartDownload
<1>2. m \in {"flash", "eeprom", "done"}
  BY DEF Following
<1>3. \A k \in {"flash", "eeprom"} : before[k] = sys.mem[k]
  OBVIOUS
<1> HIDE DEF before, m
<1>4. JobRecord(j) /\ j.phase = "program" /\ j.file = f /\ j.program = program /\ j.verify = verify
      /\ j.before = before /\ j.verified = TRUE
  BY DEF JobRecord
<1> HIDE DEF j
<1>5. /\ JobRecord(job') /\ SameFile(j, job') /\ job'.part = m /\ job'.verified = TRUE
      /\ job'.phase = IF m = "done" THEN j.phase ELSE "program"
      /\ m # "done" => job'.addr = FirstPage(f[m])
  BY <1>1, <1>2, <1>4, StartImageFacts
<1> QED
  BY <1>2, <1>3, <1>4, <1>5 DEF JobShape, SameFile, m

-----------------------------------------------------------------------------
(* Where an image begins and ends.                                         *)

Less == {p \in Nat \X Nat : p[1] < p[2]}

\* A set of numbers that is not empty has a least one.
LEMMA Least ==
  ASSUME NEW T, T \subseteq Nat, T # {}
  PROVE  \E x \in T : \A y \in T : x <= y
<1>1. IsWellFoundedOn(Less, Nat)
  BY NatLessThanWellFounded DEF OpToRel, Less
<1>2. PICK x \in T : \A y \in T : ~(<<y, x>> \in Less)
  BY <1>1, WFMin
<1>3. ASSUME NEW y \in T PROVE x <= y
  <2>1. ~(<<y, x>> \in Less) /\ x \in Nat /\ y \in Nat
    BY <1>2
  <2> QED
    BY <2>1 DEF Less
<1> QED
  BY <1>3

\* A set of addresses that is not empty has a first and a last one.
LEMMA Ends ==
  ASSUME NEW n \in Nat, NEW T, T \subseteq 0 .. n - 1, T # {}
  PROVE  /\ LowestOf(T) \in T /\ \A y \in T : LowestOf(T) <= y
         /\ HighestOf(T) \in T /\ \A y \in T : y <= HighestOf(T)
<1>0. T \subseteq Nat
  OBVIOUS
<1>1. \E x \in T : \A y \in T : x <= y
  BY <1>0, Least
<1>2. \E x \in T : \A y \in T : y <= x
  <2> DEFINE U == {n - y : y \in T}
  <2>1. U \subseteq Nat /\ U # {}
    OBVIOUS
  <2>2. PICK u \in U : \A v \in U : u <= v
    BY <2>1, Least
  <2>3. PICK x \in T : u = n - x
    OBVIOUS
  <2>4. \A y \in T : n - x <= n - y
    BY <2>2, <2>3
  <2>5. \A y \in T : y <= x
    BY <2>4
  <2> QED
    BY <2>5
<1> QED
  BY <1>1, <1>2 DEF LowestOf, HighestOf

\* The bytes of an image lie between its first page and its last address.
LEMMA ImageFacts ==
  ASSUME NEW f \in Files, NEW m \in Cached, HasData(f, m)
  PROVE  /\ FirstPage(f[m]) \in Nat /\ FirstPage(f[m]) % PageSize = 0
         /\ \A a \in DOMAIN f[m] : FirstPage(f[m]) <= a
         /\ \A a \in DOMAIN f[m] : a \in Addrs(m) /\ a \in Nat /\ f[m][a] \in Bytes /\ a < LastAddress(f[m])
         /\ LastAddress(f[m]) - 1 \in Addrs(m)
<1> DEFINE T == DOMAIN f[m]
           n == IF m = "flash" THEN FlashSize ELSE EepromSize
<1>1. T # {} /\ T \subseteq Addrs(m) /\ Addrs(m) = 0 .. n - 1 /\ n \in Nat
      /\ \A a \in T : f[m][a] \in Bytes
  BY MemoryAssumption DEF HasData, Cached, Addrs, FlashAddrs, EepromAddrs
<1> HIDE DEF T, n
<1>2. /\ LowestOf(T) \in T /\ \A y \in T : LowestOf(T) <= y
      /\ HighestOf(T) \in T /\ \A y \in T : y <= HighestOf(T)
  BY <1>1, Ends
<1>3. Base(LowestOf(T)) \in Nat /\ Base(LowestOf(T)) <= LowestOf(T) /\ Base(LowestOf(T)) % PageSize = 0
  BY <1>1, <1>2, BaseFacts, BaseAligned
<1>4. FirstPage(f[m]) = Base(LowestOf(T)) /\ LastAddress(f[m]) = 1 + HighestOf(T)
  BY DEF FirstPage, LastAddress, T
<1>5. \A a \in T : a \in Addrs(m) /\ a \in Nat /\ f[m][a] \in Bytes /\ a < 1 + HighestOf(T) /\ Base(LowestOf(T)) <= a
  BY <1>1, <1>2, <1>3
<1>6. HighestOf(T) \in Addrs(m) /\ HighestOf(T) \in Nat
  BY <1>1, <1>2
<1> QED
  BY <1>3, <1>4, <1>5, <1>6 DEF T

\* While there is more, the next page is in the memory; then all is behind.
LEMMA MoreFacts ==
  ASSUME JobShape(job), job.part \in Cached, Underway(job.part)
  PROVE  /\ More => /\ job.addr \in Addrs(job.part) /\ job.addr + PageSize - 1 \in Addrs(job.part)
                    /\ Base(job.addr) = job.addr
                    /\ Base(job.addr + PageSize - 1) = job.addr
                    /\ \A i \in 0 .. PageSize - 1 : job.addr + i \in Addrs(job.part)
         /\ ~More => \A a \in DOMAIN Image : a < job.addr
         /\ job.addr + PageSize \in Nat /\ (job.addr + PageSize) % PageSize = 0
<1> DEFINE m == job.part
           f == job.file
           last1 == LastAddress(f[m]) - 1
<1>1. f \in Files /\ HasData(f, m) /\ job.addr \in Nat /\ job.addr % PageSize = 0
  BY DEF JobShape, Underway
<1>2. /\ last1 \in Addrs(m)
      /\ \A a \in DOMAIN f[m] : a \in Nat /\ a < LastAddress(f[m])
  BY <1>1, ImageFacts
<1>3. LastAddress(f[m]) = last1 + 1 /\ last1 \in Nat
  <2>1. last1 \in Nat
    BY <1>2, MemoryPages
  <2>2. HighestOf(DOMAIN f[m]) \in Nat
    BY <1>1, Ends, MemoryAssumption DEF HasData, Cached, FlashAddrs, EepromAddrs
  <2> QED
    BY <2>1, <2>2 DEF LastAddress
<1> HIDE DEF last1
<1>4. ASSUME More
      PROVE  /\ job.addr \in Addrs(m) /\ Base(job.addr) = job.addr
             /\ \A i \in 0 .. PageSize - 1 : job.addr + i \in Addrs(m) /\ Base(job.addr + i) = job.addr
  <2>1. job.addr <= last1
    BY <1>1, <1>3, <1>4 DEF More, Image
  <2>2. job.addr \in Addrs(m)
    BY <1>1, <1>2, <2>1, MemoryAssumption DEF Addrs, FlashAddrs, EepromAddrs, Cached
  <2>3. Base(job.addr) = job.addr
    BY <1>1 DEF Base
  <2> QED
    BY <2>2, <2>3, MemoryPages
<1>5. PageSize - 1 \in 0 .. PageSize - 1 /\ job.addr + (PageSize - 1) = job.addr + PageSize - 1
  BY <1>1, PageSizeFact
<1>6. ~More => \A a \in DOMAIN Image : a < job.addr
  BY <1>1, <1>2, <1>3 DEF More, Image
<1> DEFINE k == 1
<1>7. k \in Int /\ k * PageSize = PageSize
  BY PageSizeFact
<1> HIDE DEF k
<1>8. job.addr + PageSize \in Nat /\ (job.addr + PageSize) % PageSize = 0
  BY <1>1, <1>7, NextPage, PageSizeFact
<1> QED
  BY <1>4, <1>5, <1>6, <1>8

-----------------------------------------------------------------------------
(* The download, as far as the contents go.                                *)

\* What a step leaves alone is as finished,
LEMMA DoneStays ==
  ASSUME NEW m \in Cached, Done(m), SameFile(job, job'), sys'.mem[m] = sys.mem[m]
  PROVE  Done(m)'
  BY DEF Done, SameFile, OthersKept, Sure, WasErased, Holds

\* or as untouched, as it was.
LEMMA UntouchedStays ==
  ASSUME NEW m \in Cached, Untouched(m), SameFile(job, job'), sys'.mem[m] = sys.mem[m],
         sys'.cache[m] = sys.cache[m]
  PROVE  Untouched(m)'
  BY DEF Untouched, SameFile

\* An image that is begun with, and one that is not there.
LEMMA Begins ==
  ASSUME NEW m \in Cached, Untouched(m)', JobShape(job'), HasData(job'.file, m),
         job'.phase = "program", job'.addr = FirstPage(job'.file[m])
  PROVE  Underway(m)'
<1>1. /\ job'.addr \in Nat /\ job'.addr % PageSize = 0
      /\ \A a \in DOMAIN job'.file[m] : ~(a < job'.addr)
  BY ImageFacts DEF JobShape
<1>2. sys'.mem[m] = job'.before[m] /\ sys'.cache[m] = NoCache
  BY DEF Untouched
<1>3. OthersKept(m)' /\ Passed(m)'
  BY <1>1, <1>2 DEF OthersKept, Passed
<1>4. Programming(m)'
  BY <1>2, <1>3 DEF Programming
<1> QED
  BY <1>1, <1>4 DEF Underway

\* An image that is not there.
LEMMA Absent ==
  ASSUME NEW m \in Cached, Untouched(m)', ~HasData(job'.file, m)
  PROVE  Done(m)'
  BY DEF Untouched, HasData, Done, OthersKept, Holds

\* The state in the loop over the pages of one of the two images.
Looping(phase) ==
  /\ pos = "downloading" /\ JobShape(job) /\ job.phase = phase
  /\ job.part \in Cached /\ Underway(job.part)
  /\ Good(sys) /\ Modes(sys) /\ (useDebugWire \/ sys.progmode)

\* What a step of the loop leaves alone.
Beside(m) ==
  /\ Good(sys') /\ ModesKept(sys, sys')
  /\ \A k \in Cached \ {m} : sys'.mem[k] = sys.mem[k] /\ sys'.cache[k] = sys.cache[k]

\* The download reads and writes flash by pages, not by words.
LEMMA ByPages ==
  ASSUME NEW phase, Looping(phase)
  PROVE  memorySpace(sys, job.part) # "SPM"
<1>1. useDebugWire \/ sys.programmingEnabled
  BY DEF Looping, Modes
<1> QED
  BY <1>1 DEF Looping, memorySpace, Cached

\* The buffer of a page has the bytes of the file in their places.
LEMMA BufferFacts ==
  ASSUME NEW phase, Looping(phase)
  PROVE  /\ PageBuffer(Image, job.addr) \in [0 .. PageSize - 1 -> Bytes]
         /\ \A a \in DOMAIN Image : job.addr <= a /\ a < job.addr + PageSize =>
              PageBuffer(Image, job.addr)[a - job.addr] = Image[a]
<1>1. job.file \in Files /\ HasData(job.file, job.part) /\ job.addr \in Nat
  BY DEF Looping, JobShape, Underway
<1>2. \A a \in DOMAIN Image : a \in Nat /\ Image[a] \in Bytes
  BY <1>1, ImageFacts DEF Looping, Image
<1>3. PageBuffer(Image, job.addr) \in [0 .. PageSize - 1 -> Bytes]
  BY <1>2 DEF PageBuffer, Bytes
<1>4. ASSUME NEW a \in DOMAIN Image, job.addr <= a, a < job.addr + PageSize
      PROVE  PageBuffer(Image, job.addr)[a - job.addr] = Image[a]
  <2>1. a - job.addr \in 0 .. PageSize - 1 /\ job.addr + (a - job.addr) = a
    BY <1>1, <1>2, <1>4, PageSizeFact
  <2> QED
    BY <2>1 DEF PageBuffer
<1> QED
  BY <1>3, <1>4

\* A page that is written becomes what the memory makes of the buffer.
LEMMA WritePage ==
  ASSUME Looping("program"), ProgramPage, ~pageIsEmpty(Image, job.part, job.addr)
  PROVE  /\ Beside(job.part) /\ sys'.cache = sys.cache
         /\ \A a \in Addrs(job.part) :
              sys'.mem[job.part][a] =
                IF job.addr <= a /\ a < job.addr + PageSize
                  THEN Stored(job.part, sys.mem[job.part][a], PageBuffer(Image, job.addr)[a - job.addr])
                  ELSE sys.mem[job.part][a]
<1> DEFINE m == job.part
           buf == PageBuffer(Image, job.addr)
           t == jtagWrite(sys, m, job.addr, buf).sys
           at == IF Paged(memorySpace(sys, m)) THEN Base(job.addr) ELSE job.addr
           u == Store(sys, m, at, buf)
<1>1. buf \in [0 .. PageSize - 1 -> Bytes] /\ PageSize \in Nat \ {0}
  BY BufferFacts, PageSizeFact
<1>2. m \in Memories /\ m \in Cached /\ Good(sys) /\ Modes(sys) /\ Shape(sys)
  BY DEF Looping, Cached, Memories, Good
<1>3. job.addr \in Addrs(m) /\ Base(job.addr) = job.addr /\ job.addr \in Nat
  BY MoreFacts DEF ProgramPage, Looping, Underway
<1>4. sys' = t
  BY DEF ProgramPage
<1>5. at = job.addr
  BY <1>3
<1>6. Cardinality(DOMAIN buf) = PageSize
  BY <1>1, FS_Interval
<1>7. memorySpace(sys, m) # "SPM"
  BY ByPages
<1> HIDE DEF buf, m
<1>8. Wrote(sys, t, m, job.addr, buf)
  BY <1>1, <1>2, <1>3, WriteFacts
<1> HIDE DEF at, t
<1>9. /\ Good(t) /\ ModesKept(sys, t) /\ t.cache = sys.cache /\ t.mem = u.mem
  BY <1>7, <1>8 DEF Wrote, at
<1>10. Changed(sys, u, m, NewMem(sys, m, at, buf), NewTouch(sys, m, at, buf))
  BY <1>2, StoreFacts
<1> HIDE DEF u
<1>11. /\ t.mem[m] = NewMem(sys, m, at, buf)
       /\ \A k \in Cached \ {m} : t.mem[k] = sys.mem[k]
  BY <1>9, <1>10 DEF Changed, Cached, Memories
<1>12. ASSUME NEW a \in Addrs(m)
       PROVE  NewMem(sys, m, at, buf)[a] =
                IF job.addr <= a /\ a < job.addr + PageSize
                  THEN Stored(m, sys.mem[m][a], buf[a - job.addr]) ELSE sys.mem[m][a]
  <2>1. a \in Nat
    BY <1>2, MemoryPages
  <2>2. a \in Written(at, buf) <=> job.addr <= a /\ a < job.addr + PageSize
    BY <1>3, <1>5, <1>6, <2>1, PageSizeFact DEF Written
  <2> QED
    BY <1>5, <2>2 DEF NewMem
<1> QED
  BY <1>4, <1>9, <1>11, <1>12 DEF Beside, m, buf

\* What programming a page means for each address of the memory.
LEMMA PageProgrammed ==
  ASSUME Looping("program"), ProgramPage
  PROVE  /\ Beside(job.part) /\ sys'.cache = sys.cache
         /\ \A a \in Addrs(job.part) :
              /\ ~(job.addr <= a /\ a < job.addr + PageSize) => sys'.mem[job.part][a] = sys.mem[job.part][a]
              /\ (\A b \in DOMAIN Image : Base(b) # Base(a)) => sys'.mem[job.part][a] = sys.mem[job.part][a]
              /\ /\ Sure(job.part) /\ a \in DOMAIN Image
                 /\ job.addr <= a /\ a < job.addr + PageSize
                 => sys'.mem[job.part][a] = Image[a]
<1> DEFINE m == job.part
           Here(a) == job.addr <= a /\ a < job.addr + PageSize
<1>1. m \in Cached /\ JobShape(job) /\ Good(sys) /\ Modes(sys) /\ Programming(m)
  BY DEF Looping, Underway
<1>2. job.addr \in Nat /\ job.addr % PageSize = 0 /\ Image = job.file[m] /\ job.file \in Files
  BY DEF Looping, Underway, Image, JobShape
<1>3. \A a \in Addrs(m) : a \in Nat
  BY <1>1, MemoryPages
\* A file is put where the memory is erased, if it is flash.
<1>4. ASSUME Sure(m), m = "flash", NEW a \in Addrs(m), a \in DOMAIN Image, Here(a)
      PROVE  sys.mem[m][a] = Erased
  <2>1. WasErased /\ a \in FlashAddrs /\ a >= job.addr
    BY <1>2, <1>3, <1>4 DEF Sure, Addrs
  <2>2. job.before["flash"][a] = Erased
    BY <1>2, <1>4, <2>1 DEF WasErased
  <2> QED
    BY <1>1, <1>4, <2>1, <2>2 DEF Programming
<1>5. CASE pageIsEmpty(Image, m, job.addr)
  <2>1. sys' = sys
    BY <1>5 DEF ProgramPage
  <2>2. Beside(m)
    BY <1>1, <2>1 DEF Beside, ModesKept, SameModes
  <2>3. ASSUME Sure(m), NEW a \in Addrs(m), a \in DOMAIN Image, Here(a)
        PROVE  sys'.mem[m][a] = Image[a]
    <3>1. a \in job.addr .. job.addr + PageSize - 1
      BY <1>2, <1>3, <2>3, PageSizeFact
    <3>2. m = "flash" /\ Image[a] = Erased
      BY <1>5, <2>3, <3>1 DEF pageIsEmpty
    <3> QED
      BY <1>4, <2>1, <2>3, <3>2
  <2> QED
    BY <2>1, <2>2, <2>3
<1>6. CASE ~pageIsEmpty(Image, m, job.addr)
  <2>1. /\ Beside(m) /\ sys'.cache = sys.cache
        /\ \A a \in Addrs(m) :
             sys'.mem[m][a] = IF Here(a) THEN Stored(m, sys.mem[m][a], PageBuffer(Image, job.addr)[a - job.addr])
                              ELSE sys.mem[m][a]
    BY <1>6, WritePage
  <2>2. PICK b \in DOMAIN Image : b \in job.addr .. job.addr + PageSize - 1
    BY <1>6 DEF pageIsEmpty
  <2>3. Base(b) = job.addr
    BY <1>2, <2>2, InPage, PageSizeFact
  <2>4. ASSUME NEW a \in Addrs(m), Here(a)
        PROVE  Base(b) = Base(a)
    BY <1>2, <1>3, <2>3, <2>4, InPage
  <2>5. ASSUME Sure(m), NEW a \in Addrs(m), a \in DOMAIN Image, Here(a)
        PROVE  sys'.mem[m][a] = Image[a]
    <3>1. sys'.mem[m][a] = Stored(m, sys.mem[m][a], Image[a])
      BY <2>1, <2>5, BufferFacts
    <3>2. m = "flash" => sys.mem[m][a] = 1
      BY <1>4, <2>5 DEF Erased
    <3> QED
      BY <3>1, <3>2 DEF Stored
  <2> QED
    BY <2>1, <2>4, <2>5
<1> QED
  BY <1>5, <1>6

\* The loop that programs a page.
LEMMA ProgramKeeps ==
  ASSUME Looping("program"), ProgramPage, NEW m, m = job.part
  PROVE  Underway(m)'
<1>1. /\ m \in Cached /\ JobShape(job) /\ Programming(m) /\ HasData(job.file, m)
      /\ job.addr \in Nat /\ job.phase = "program" /\ Image = job.file[m]
  BY DEF Looping, Underway, Image
<1>2. SameFile(job, job') /\ job'.phase = "program" /\ job'.addr = job.addr + PageSize
  BY <1>1, JobSteps
<1>3. job'.addr \in Nat /\ job'.addr % PageSize = 0
  BY <1>1, <1>2, MoreFacts DEF Looping
<1>4. /\ sys'.cache = sys.cache
      /\ \A a \in Addrs(m) :
           /\ ~(job.addr <= a /\ a < job.addr + PageSize) => sys'.mem[m][a] = sys.mem[m][a]
           /\ (\A b \in DOMAIN job.file[m] : Base(b) # Base(a)) => sys'.mem[m][a] = sys.mem[m][a]
           /\ /\ Sure(m) /\ a \in DOMAIN job.file[m]
              /\ job.addr <= a /\ a < job.addr + PageSize
              => sys'.mem[m][a] = job.file[m][a]
  BY <1>1, PageProgrammed
<1>5. \A a \in DOMAIN job.file[m] : a \in Addrs(m)
  BY <1>1, ImageFacts DEF JobShape
<1>6. \A a \in Addrs(m) : a \in Nat
  BY <1>1, MemoryPages
<1>7. OthersKept(m)'
  BY <1>1, <1>2, <1>4 DEF OthersKept, Programming, SameFile
<1>8. Sure(m)' => Sure(m)
  BY <1>2 DEF Sure, WasErased, SameFile
<1>9. Sure(m)' => Passed(m)'
  <2> SUFFICES ASSUME Sure(m), NEW a \in DOMAIN job.file[m], a < job.addr + PageSize
               PROVE  sys'.mem[m][a] = job.file[m][a]
    BY <1>2, <1>8 DEF Passed, SameFile
  <2>1. a \in Addrs(m) /\ a \in Nat
    BY <1>5, <1>6
  <2>2. CASE a < job.addr
    BY <1>1, <1>4, <2>1, <2>2 DEF Programming, Passed
  <2>3. CASE job.addr <= a
    BY <1>4, <2>1, <2>3
  <2> QED
    BY <1>1, <2>1, <2>2, <2>3
<1>10. \A a \in Addrs(m) : a >= job'.addr => sys'.mem[m][a] = job'.before[m][a]
  BY <1>1, <1>2, <1>4, <1>6, PageSizeFact DEF Programming, SameFile
<1>11. sys'.cache[m] = NoCache
  BY <1>1, <1>4 DEF Programming
<1>12. Programming(m)'
  BY <1>7, <1>9, <1>10, <1>11 DEF Programming
<1> QED
  BY <1>1, <1>2, <1>3, <1>12 DEF Underway, HasData, SameFile

\* The turn from programming to verifying.
LEMMA TurnKeeps ==
  ASSUME Looping("program"), EndProgram, NEW m, m = job.part
  PROVE  Underway(m)'
<1>1. /\ m \in Cached /\ JobShape(job) /\ Programming(m) /\ HasData(job.file, m)
      /\ job.file \in Files /\ Image = job.file[m] /\ sys' = sys
  BY DEF Looping, Underway, Image, JobShape, EndProgram
<1>2. SameFile(job, job') /\ job'.phase = "verify" /\ job'.addr = FirstPage(job.file[m])
  BY <1>1, JobSteps DEF Looping
<1>3. /\ job'.addr \in Nat /\ job'.addr % PageSize = 0
      /\ \A a \in DOMAIN job.file[m] : a \in Nat /\ job'.addr <= a
  BY <1>1, <1>2, ImageFacts
<1>4. job.program => \A a \in DOMAIN job.file[m] : a < job.addr
  BY <1>1, MoreFacts DEF Looping, EndProgram
<1>5. Sure(m) => Holds(m)
  BY <1>1, <1>4 DEF Programming, Passed, Holds, Sure
<1>6. Passed(m)'
  BY <1>2, <1>3 DEF Passed, SameFile
<1>7. OthersKept(m)' /\ (Sure(m)' => Holds(m)')
  BY <1>1, <1>2, <1>5 DEF Programming, OthersKept, Sure, WasErased, Holds, SameFile
<1>8. sys'.cache[m] = NoCache
  BY <1>1 DEF Programming
<1>9. Verifying(m)'
  BY <1>6, <1>7, <1>8 DEF Verifying
<1> QED
  BY <1>1, <1>2, <1>3, <1>9 DEF Underway, HasData, SameFile

\* A page that is verified is read from the target, or from the page that is
\* cached, which nothing has changed since this download began.
LEMMA VerifyKeeps ==
  ASSUME Looping("verify"), VerifyPage, NEW m, m = job.part
  PROVE  Underway(m)' /\ Beside(m) /\ sys'.mem = sys.mem
<1> DEFINE r == jtagRead(sys, m, job.addr, PageSize)
           space == memorySpace(sys, m)
<1>1. /\ m \in Cached /\ m \in Memories /\ JobShape(job) /\ Verifying(m) /\ HasData(job.file, m)
      /\ Good(sys) /\ Modes(sys)
      /\ job.addr \in Nat /\ job.phase = "verify" /\ Image = job.file[m] /\ PageSize \in Nat \ {0}
  BY PageSizeFact DEF Looping, Underway, Image, Cached, Memories
<1>2. /\ SameFile(job, job') /\ job'.phase = "verify" /\ job'.addr = job.addr + PageSize
      /\ job'.verified => /\ job.verified
                          /\ \A i \in 0 .. PageSize - 1 :
                               job.addr + i \in DOMAIN job.file[m] => job.file[m][job.addr + i] = r.bytes[i]
  BY <1>1, JobSteps
<1>3. job'.addr \in Nat /\ job'.addr % PageSize = 0
  BY <1>1, <1>2, MoreFacts DEF Looping
<1>4. /\ job.addr \in Addrs(m) /\ job.addr + PageSize - 1 \in Addrs(m)
      /\ Base(job.addr) = job.addr /\ Base(job.addr + PageSize - 1) = job.addr
  BY <1>1, MoreFacts DEF Looping, VerifyPage
<1>5. sys' = r.sys
  BY DEF VerifyPage
<1>6. space # "SPM"
  BY ByPages
<1>7. Placed(space, job.addr, PageSize)
  BY <1>4, <1>6 DEF Placed
<1>8. ~(sys.cache[m].base = Base(job.addr) /\ sys.touched[m])
  BY <1>1, <1>4 DEF Verifying, NoCache, None
<1> HIDE DEF r
<1>9. /\ Good(r.sys) /\ ModesKept(sys, r.sys)
      /\ r.sys.mem = sys.mem
      /\ \A k \in Cached \ {m} : r.sys.cache[k] = sys.cache[k] /\ r.sys.touched[k] = sys.touched[k]
      /\ \/ r.sys.cache[m] = sys.cache[m] /\ r.sys.touched[m] = sys.touched[m]
         \/ ~r.sys.touched[m]
      /\ \A i \in 0 .. PageSize - 1 : r.bytes[i] = sys.mem[m][job.addr + i]
  BY <1>1, <1>4, <1>7, <1>8, ReadFacts DEF r
<1>10. Beside(m) /\ sys'.mem = sys.mem
  BY <1>5, <1>9 DEF Beside
<1>11. OthersKept(m)' /\ (Sure(m)' => Holds(m)')
  BY <1>1, <1>2, <1>10 DEF Verifying, OthersKept, Sure, WasErased, Holds, SameFile
<1>12. job'.verify /\ job'.verified => Passed(m)'
  <2> SUFFICES ASSUME job.verify, job'.verified, NEW a \in DOMAIN job.file[m], a < job.addr + PageSize
               PROVE  sys.mem[m][a] = job.file[m][a]
    BY <1>2, <1>10 DEF Passed, SameFile
  <2>1. a \in Nat
    BY <1>1, ImageFacts DEF JobShape
  <2>2. CASE a < job.addr
    BY <1>1, <1>2, <2>2 DEF Verifying, Passed
  <2>3. CASE job.addr <= a
    <3>1. a - job.addr \in 0 .. PageSize - 1 /\ job.addr + (a - job.addr) = a
      BY <1>1, <2>1, <2>3
    <3> QED
      BY <1>2, <1>9, <3>1
  <2> QED
    BY <1>1, <2>1, <2>2, <2>3
<1>13. sys'.cache[m] = NoCache \/ ~sys'.touched[m]
  BY <1>1, <1>5, <1>9 DEF Verifying
<1>14. Verifying(m)'
  BY <1>11, <1>12, <1>13 DEF Verifying
<1> QED
  BY <1>1, <1>2, <1>3, <1>10, <1>14 DEF Underway, HasData, SameFile

\* An image is left when it is programmed, and verified if that was asked for.
LEMMA EndImageDone ==
  ASSUME Looping("verify"), EndImage, NEW m, m = job.part
  PROVE  Done(m)'
<1>1. /\ m \in Cached /\ JobShape(job) /\ Verifying(m) /\ Image = job.file[m] /\ sys' = sys
  BY DEF Looping, Underway, Image, EndImage
<1>2. SameFile(job, job')
  BY JobSteps DEF Looping
<1>3. job.verify => Holds(m)
  <2> SUFFICES ASSUME job.verify
               PROVE  Holds(m)
    OBVIOUS
  <2>1. Passed(m) /\ \A a \in DOMAIN job.file[m] : a < job.addr
    BY <1>1, MoreFacts DEF Looping, EndImage, Verifying
  <2> QED
    BY <2>1 DEF Passed, Holds
<1>4. Done(m)
  BY <1>1, <1>3 DEF Done, Verifying
<1> QED
  BY <1>1, <1>2, <1>4, DoneStays

-----------------------------------------------------------------------------
(* The invariants are inductive.                                           *)

\* Within an image the other one stays as it is.
LEMMA LoopStays ==
  ASSUME pos = "downloading", Downloading, job.part \in Cached, Underway(job.part)',
         Beside(job.part), SameFile(job, job'), job'.part = job.part
  PROVE  Downloading'
<1>1. CASE job.part = "flash"
  <2>1. Untouched("eeprom") /\ sys'.mem["eeprom"] = sys.mem["eeprom"] /\ sys'.cache["eeprom"] = sys.cache["eeprom"]
    BY <1>1 DEF Downloading, Beside, Cached
  <2>2. Untouched("eeprom")'
    BY <2>1, UntouchedStays DEF Cached
  <2> QED
    BY <1>1, <2>2 DEF Downloading
<1>2. CASE job.part = "eeprom"
  <2>1. Done("flash") /\ sys'.mem["flash"] = sys.mem["flash"]
    BY <1>2 DEF Downloading, Beside, Cached
  <2>2. Done("flash")'
    BY <2>1, DoneStays DEF Cached
  <2> QED
    BY <1>2, <2>2 DEF Downloading
<1> QED
  BY <1>1, <1>2 DEF Cached

\* From one image to the next, or to the end.
LEMMA NextImage ==
  ASSUME pos = "downloading", Downloading, Looping("verify"), EndImage
  PROVE  Downloading'
<1>1. /\ JobShape(job') /\ SameFile(job, job') /\ job'.part = Following(job.file, job.part)
      /\ job'.part # "done" => job'.phase = "program" /\ job'.addr = FirstPage(job.file[job'.part])
      /\ sys' = sys /\ job'.file = job.file
  BY JobSteps DEF Looping, EndImage, SameFile
<1>2. CASE job.part = "flash"
  <2>1. Done("flash")'
    BY <1>2, EndImageDone
  <2>2. Untouched("eeprom")'
    BY <1>1, <1>2, UntouchedStays DEF Downloading, Cached
  <2>3. CASE HasData(job.file, "eeprom")
    <3>1. job'.part = "eeprom"
      BY <1>1, <1>2, <2>3 DEF Following
    <3>2. Underway("eeprom")'
      BY <1>1, <2>2, <2>3, <3>1, Begins DEF Cached
    <3> QED
      BY <2>1, <3>1, <3>2 DEF Downloading
  <2>4. CASE ~HasData(job.file, "eeprom")
    <3>1. job'.part = "done"
      BY <1>1, <1>2, <2>4 DEF Following
    <3>2. Done("eeprom")'
      BY <1>1, <2>2, <2>4, Absent DEF Cached
    <3> QED
      BY <2>1, <3>1, <3>2 DEF Downloading
  <2> QED
    BY <2>3, <2>4
<1>3. CASE job.part = "eeprom"
  <2>1. Done("eeprom")'
    BY <1>3, EndImageDone
  <2>2. Done("flash")'
    BY <1>1, <1>3, DoneStays DEF Downloading, Cached
  <2>3. job'.part = "done"
    BY <1>1, <1>3 DEF Following
  <2> QED
    BY <2>1, <2>2, <2>3 DEF Downloading
<1> QED
  BY <1>2, <1>3 DEF Looping, Cached

\* The download begins with nothing cached and nothing written.
LEMMA FirstImage ==
  ASSUME MemoryInv, DownloadInv, NEW f \in Files, NEW program \in BOOLEAN, NEW verify \in BOOLEAN,
         StartDownload(f, program, verify)
  PROVE  Downloading'
<1>1. /\ JobShape(job') /\ job'.part = Following(f, "begin")
      /\ job'.file = f
      /\ \A m \in Cached : job'.before[m] = sys.mem[m]
      /\ job'.part # "done" => job'.phase = "program" /\ job'.addr = FirstPage(f[job'.part])
  BY StartDownloadFacts DEF Cached
<1>2. sys'.cache = sys.cache /\ sys'.mem = sys.mem
  BY ModeFacts DEF StartDownload, MemoryInv
<1>3. \A m \in Cached : sys.cache[m] = NoCache
  BY DEF DownloadInv, StartDownload, BeforeDownload
<1>4. ASSUME NEW m \in Cached
      PROVE  Untouched(m)'
  BY <1>1, <1>2, <1>3 DEF Untouched
<1>5. ASSUME NEW m \in Cached
      PROVE  /\ HasData(f, m) /\ job'.part = m => Underway(m)'
             /\ ~HasData(f, m) => Done(m)'
  <2>1. ASSUME HasData(f, m), job'.part = m
        PROVE  Underway(m)'
    BY <1>1, <1>4, <2>1, Begins DEF Cached
  <2>2. ASSUME ~HasData(f, m)
        PROVE  Done(m)'
    BY <1>1, <1>4, <2>2, Absent
  <2> QED
    BY <2>1, <2>2
<1> QED
  BY <1>1, <1>4, <1>5 DEF Following, Downloading, Cached

\* The invariant holds at the start.
LEMMA InitKeeps ==
  ASSUME Init
  PROVE  MemoryInv /\ DownloadInv
<1>1. PICK flash \in InitialFlash, fuse \in Bytes, lock \in Bytes, eesave \in BOOLEAN, garbage \in BOOLEAN :
        sys = [programmingEnabled |-> garbage, assigned |-> FALSE, progmode |-> FALSE, eesave |-> eesave,
               mem |-> [flash |-> flash, eeprom |-> [a \in EepromAddrs |-> Erased],
                        fuse |-> [a \in {0} |-> fuse], lock |-> [a \in {0} |-> lock]],
               cache |-> [flash |-> NoCache, eeprom |-> NoCache],
               touched |-> [m \in {"flash", "eeprom"} |-> FALSE]]
  BY DEF Init
<1>2. /\ sys.mem = [flash |-> flash, eeprom |-> [a \in EepromAddrs |-> Erased],
                    fuse |-> [a \in {0} |-> fuse], lock |-> [a \in {0} |-> lock]]
      /\ sys.cache = [flash |-> NoCache, eeprom |-> NoCache]
      /\ sys.touched = [m \in {"flash", "eeprom"} |-> FALSE]
      /\ sys.assigned = FALSE /\ sys.progmode = FALSE /\ sys.programmingEnabled \in BOOLEAN
      /\ sys = [programmingEnabled |-> sys.programmingEnabled, assigned |-> sys.assigned,
                progmode |-> sys.progmode, eesave |-> sys.eesave, mem |-> sys.mem,
                cache |-> sys.cache, touched |-> sys.touched]
  BY <1>1
<1>3. /\ sys.mem["flash"] = flash /\ sys.mem["eeprom"] = [a \in EepromAddrs |-> Erased]
      /\ sys.mem["fuse"] = [a \in {0} |-> fuse] /\ sys.mem["lock"] = [a \in {0} |-> lock]
      /\ sys.mem = [m \in Memories |-> sys.mem[m]]
  BY <1>2 DEF Memories
<1>4. sys.cache = [m \in Cached |-> sys.cache[m]] /\ \A m \in Cached : sys.cache[m] = NoCache
  BY <1>2 DEF Cached
<1>5. sys.touched \in [Cached -> BOOLEAN]
  BY <1>2 DEF Cached
<1>6. Shape(sys)
  BY <1>2, <1>3, <1>4, <1>5 DEF Shape
<1>7. flash \in [FlashAddrs -> Bytes]
  BY MemoryAssumption
<1>8. \A m \in Memories : sys.mem[m] \in [Addrs(m) -> Bytes]
  <2>1. sys.mem["flash"] \in [Addrs("flash") -> Bytes]
    BY <1>3, <1>7 DEF Addrs
  <2>2. sys.mem["eeprom"] \in [Addrs("eeprom") -> Bytes]
    BY <1>3 DEF Addrs, Bytes, Erased
  <2>3. sys.mem["fuse"] \in [Addrs("fuse") -> Bytes] /\ sys.mem["lock"] \in [Addrs("lock") -> Bytes]
    BY <1>3 DEF Addrs
  <2> QED
    BY <2>1, <2>2, <2>3 DEF Memories
<1>9. Good(sys) /\ Modes(sys)
  BY <1>2, <1>4, <1>6, <1>8 DEF Good, CacheGood, Modes
<1>10. pos \in {"erase", "session"} /\ pos \in Positions
  <2>1. Len(Steps) = 8 /\ Steps[1] = "erase" /\ Steps[8] = "session"
    BY DEF Steps
  <2> QED
    BY <2>1 DEF Init, Positions
<1>11. ReadCurrent
  BY DEF Init, ReadCurrent, NoAccess
<1>12. MemoryInv
  BY <1>2, <1>9, <1>10, <1>11 DEF MemoryInv, Init
<1> QED
  BY <1>4, <1>10, <1>12 DEF DownloadInv

\* The steps of the download that program and verify keep the modes.
LEMMA LoopKeeps ==
  ASSUME MemoryInv, DownloadInv, ProgramPage \/ EndProgram \/ VerifyPage \/ EndImage
  PROVE  MemoryInv' /\ Downloading' /\ pos' = "downloading"
<1>0. /\ pos = "downloading" /\ pos' = pos /\ pos \in Positions /\ Downloading
      /\ UNCHANGED <<frontend, useDebugWire, last>> /\ job.part \in Cached
  BY DEF ProgramPage, EndProgram, VerifyPage, EndImage, In, MemoryInv, DownloadInv, Cached
<1>1. /\ frontend = "avarice" /\ JobShape(job) /\ (useDebugWire \/ sys.progmode)
      /\ Good(sys) /\ Modes(sys)
  BY <1>0 DEF MemoryInv
<1>2. Underway(job.part)
  BY <1>0 DEF Downloading, Cached
<1>3. ASSUME job.phase = "program" PROVE Looping("program")
  BY <1>0, <1>1, <1>2, <1>3 DEF Looping
<1>4. ASSUME job.phase = "verify" PROVE Looping("verify")
  BY <1>0, <1>1, <1>2, <1>4 DEF Looping
<1>5. ASSUME Good(sys'), ModesKept(sys, sys'), JobShape(job')
      PROVE  MemoryInv'
  BY <1>0, <1>1, <1>5, MainKeeps DEF ModesKept
<1>6. ASSUME sys' = sys
      PROVE  Beside(job.part) /\ Good(sys') /\ ModesKept(sys, sys')
  BY <1>1, <1>6 DEF Beside, ModesKept, SameModes
<1>7. CASE ProgramPage
  <2>1. Looping("program")
    BY <1>3, <1>7 DEF ProgramPage, In
  <2>2. Underway(job.part)' /\ JobShape(job') /\ SameFile(job, job') /\ job'.part = job.part
    <3>1. JobShape(job') /\ SameFile(job, job') /\ job'.part = job.part
      BY <1>1, <1>7, JobSteps
    <3>2. Underway(job.part)'
      BY <1>7, <2>1, <3>1, ProgramKeeps
    <3> QED
      BY <3>1, <3>2
  <2>3. Beside(job.part)
    BY <1>7, <2>1, PageProgrammed
  <2> QED
    BY <1>0, <1>5, <2>2, <2>3, LoopStays DEF Beside
<1>8. CASE EndProgram
  <2>1. Looping("program") /\ sys' = sys
    BY <1>3, <1>8 DEF EndProgram, In
  <2>2. JobShape(job') /\ SameFile(job, job') /\ job'.part = job.part
    BY <1>1, <1>8, JobSteps
  <2>3. Underway(job.part)'
    BY <1>8, <2>1, <2>2, TurnKeeps
  <2> QED
    BY <1>0, <1>5, <1>6, <2>1, <2>2, <2>3, LoopStays
<1>9. CASE VerifyPage
  <2>1. Looping("verify")
    BY <1>4, <1>9 DEF VerifyPage, In
  <2>2. JobShape(job') /\ SameFile(job, job') /\ job'.part = job.part
    BY <1>1, <1>9, JobSteps
  <2>3. Underway(job.part)' /\ Beside(job.part)
    BY <1>9, <2>1, <2>2, VerifyKeeps
  <2> QED
    BY <1>0, <1>5, <2>2, <2>3, LoopStays DEF Beside
<1>10. CASE EndImage
  <2>1. Looping("verify") /\ sys' = sys
    BY <1>4, <1>10 DEF EndImage, In
  <2>2. JobShape(job')
    BY <1>1, <1>10, JobSteps
  <2>3. Downloading'
    BY <1>0, <1>10, <2>1, NextImage
  <2> QED
    BY <1>0, <1>5, <1>6, <2>1, <2>2, <2>3
<1> QED
  BY <1>7, <1>8, <1>9, <1>10

\* Every step keeps it.
LEMMA NextKeeps ==
  ASSUME MemoryInv, DownloadInv, [Next]_vars
  PROVE  MemoryInv' /\ DownloadInv'
<1>0. /\ Good(sys) /\ Modes(sys) /\ pos \in Positions /\ (job = NoJob \/ JobShape(job))
      /\ (frontend = "avarice" /\ pos \notin {"downloading", "dead"} => ~sys.progmode)
      /\ {"downloading", "reset", "stuck", "dead"} \subseteq Positions
  BY DEF MemoryInv, Positions
<1>1. ASSUME \/ Skip \/ Erase
             \/ ReadBits("readFuses", "fuse")
             \/ ReadBits("readLockBits", "lock")
             \/ \E v \in Bytes : WriteBits("writeFuses", "fuse", v)
             \/ InitJtagOnChipDebugging
             \/ \E v \in Bytes : WriteBits("writeLockBits", "lock", v)
             \/ Finish
      PROVE  MemoryInv' /\ DownloadInv'
  <2>1. SettingUp
    BY <1>1, SetupKeeps
  <2>2. frontend' = frontend
    BY <1>1 DEF Skip, Erase, ReadBits, WriteBits, InitJtagOnChipDebugging, Finish
  <2> QED
    BY <2>1, <2>2 DEF SettingUp, DownloadInv
<1>2. ASSUME NEW f \in Files, NEW program \in BOOLEAN, NEW verify \in BOOLEAN,
             StartDownload(f, program, verify)
      PROVE  MemoryInv' /\ DownloadInv'
  <2>1. Downloading' /\ JobShape(job')
    BY <1>2, FirstImage, StartDownloadFacts
  <2>2. Good(sys') /\ Modes(sys') /\ (useDebugWire \/ sys'.progmode)
    BY <1>0, <1>2, ModeFacts DEF StartDownload
  <2>3. pos' = "downloading" /\ frontend = "avarice" /\ UNCHANGED <<frontend, useDebugWire, last>>
    BY <1>2 DEF StartDownload
  <2>4. MemoryInv'
    BY <1>0, <2>1, <2>2, <2>3, MainKeeps
  <2> QED
    BY <2>1, <2>3, <2>4 DEF DownloadInv, BeforeDownload
<1>3. ASSUME ProgramPage \/ EndProgram \/ VerifyPage \/ EndImage
      PROVE  MemoryInv' /\ DownloadInv'
  BY <1>3, LoopKeeps DEF DownloadInv, BeforeDownload
<1>4. ASSUME EndDownload
      PROVE  MemoryInv' /\ DownloadInv'
  <2>1. /\ pos = "downloading" /\ pos' = "reset" /\ job.part = "done" /\ job' = job
        /\ sys' = disableProgramming(sys) /\ UNCHANGED <<frontend, useDebugWire, last>>
    BY <1>4 DEF EndDownload
  <2>2. JobShape(job) /\ frontend = "avarice" /\ Done("flash") /\ Done("eeprom")
    BY <2>1 DEF MemoryInv, DownloadInv, Downloading
  <2>3. Good(sys') /\ Modes(sys') /\ ~sys'.progmode /\ sys'.mem = sys.mem
    BY <1>0, <2>1, ModeFacts
  <2>4. MemoryInv'
    BY <1>0, <2>1, <2>2, <2>3, MainKeeps
  <2>5. Done("flash")' /\ Done("eeprom")'
    BY <2>1, <2>2, <2>3, DoneStays DEF Cached, SameFile
  <2>6. JobShape(job)'
    BY <2>1, <2>2 DEF JobShape, JobRecord
  <2> QED
    BY <2>1, <2>2, <2>4, <2>5, <2>6 DEF DownloadInv, BeforeDownload
<1>5. ASSUME ResetProgram
      PROVE  MemoryInv' /\ DownloadInv'
  <2>1. /\ pos = "reset" /\ pos' \in {"writeLockBits", "stuck"} /\ job' = NoJob
        /\ sys' = sys /\ UNCHANGED <<frontend, useDebugWire, last>>
    BY <1>5, AfterFacts DEF ResetProgram
  <2>2. pos' \in Positions
    BY <1>0, <1>5, <2>1, AfterFacts DEF ResetProgram
  <2>3. MemoryInv'
    BY <1>0, <2>1, <2>2, MainKeeps
  <2> QED
    BY <2>1, <2>3 DEF DownloadInv, BeforeDownload
<1>6. ASSUME NEW q \in Reads, Read(q)
      PROVE  MemoryInv' /\ DownloadInv'
  BY <1>6, ReadKeeps DEF Read, InSession, DownloadInv, BeforeDownload
<1>7. ASSUME NEW q \in Writes, NEW bytes \in [0 .. q.n - 1 -> Bytes], Write(q, bytes)
      PROVE  MemoryInv' /\ DownloadInv'
  BY <1>7, WriteKeeps DEF Write, InSession, DownloadInv, BeforeDownload
<1>8. ASSUME \/ Script(enableProgramming(sys))
             \/ Script(disableProgramming(sys))
             \/ Script(eraseProgramMemory(sys))
             \/ \E a \in FlashAddrs : Script(eraseProgramPage(sys, Base(a)))
      PROVE  MemoryInv' /\ DownloadInv'
  <2>1. pos = "session" /\ pos' = pos
    BY <1>8 DEF Script
  <2> QED
    BY <1>8, <2>1, ScriptsKeep DEF DownloadInv, BeforeDownload
<1>9. ASSUME NEW a \in EepromAddrs, ProgramWrites(a)
      PROVE  MemoryInv' /\ DownloadInv'
  BY <1>9, ProgramWritesKeeps DEF ProgramWrites, InSession, DownloadInv, BeforeDownload
<1>10. ASSUME Dies
       PROVE  MemoryInv' /\ DownloadInv'
  <2>1. pos' = "dead" /\ sys' = sys /\ job' = job /\ UNCHANGED <<frontend, useDebugWire, last>>
    BY <1>10 DEF Dies
  <2>2. MemoryInv'
    BY <1>0, <2>1, MainKeeps
  <2> QED
    BY <2>1, <2>2 DEF DownloadInv, BeforeDownload
<1>11. ASSUME UNCHANGED vars
       PROVE  MemoryInv' /\ DownloadInv'
  <2>1. sys' = sys /\ job' = job /\ pos' = pos /\ UNCHANGED <<frontend, useDebugWire, last>>
    BY <1>11 DEF vars
  <2>2. MemoryInv'
    BY <1>0, <2>1, MainKeeps DEF MemoryInv
  <2>3. ASSUME NEW m \in Cached
        PROVE  /\ Done(m)' = Done(m) /\ Untouched(m)' = Untouched(m)
               /\ Underway(m)' = Underway(m)
    <3>1. OthersKept(m)' = OthersKept(m) /\ Sure(m)' = Sure(m) /\ Holds(m)' = Holds(m) /\ Passed(m)' = Passed(m)
      BY <2>1 DEF OthersKept, Sure, WasErased, Holds, Passed
    <3>2. Programming(m)' = Programming(m) /\ Verifying(m)' = Verifying(m)
      BY <2>1, <3>1 DEF Programming, Verifying
    <3> QED
      BY <2>1, <3>1, <3>2 DEF Done, Untouched, Underway
  <2>4. Downloading' = Downloading
    BY <2>1, <2>3 DEF Downloading, Cached
  <2>5. JobShape(job)' = JobShape(job)
    BY <2>1 DEF JobShape, JobRecord
  <2> QED
    BY <2>1, <2>2, <2>3, <2>4, <2>5 DEF DownloadInv, Cached
<1> QED
  BY <1>1, <1>2, <1>3, <1>4, <1>5, <1>6, <1>7, <1>8, <1>9, <1>10, <1>11 DEF Next, Main

-----------------------------------------------------------------------------
(* The theorems.                                                           *)

\* The shape of the state, the two halves of the programming mode, what the
\* caches and the last read are worth, and how far a download has come:
\* everything the properties follow from, for every device and every file.
THEOREM MemoryInvariant == Spec => [](MemoryInv /\ DownloadInv)
<1>1. Init => MemoryInv /\ DownloadInv
  BY InitKeeps
<1>2. (MemoryInv /\ DownloadInv) /\ [Next]_vars => (MemoryInv /\ DownloadInv)'
  BY NextKeeps
<1> QED
  BY <1>1, <1>2, PTL DEF Spec

\* jtagRead and jtagWrite keep the caches, the memories and main in shape: a
\* cache is empty or holds a whole page of the memory it is for.
THEOREM TypeCorrect == Spec => []TypeOK
<1>1. MemoryInv => TypeOK
  <2> SUFFICES ASSUME MemoryInv
               PROVE  TypeOK
    OBVIOUS
  <2>1. Good(sys) /\ Modes(sys) /\ (job = NoJob \/ JobShape(job)) /\ pos \in Positions
    BY DEF MemoryInv
  <2>2. job # NoJob => job.part \in {"flash", "eeprom", "done"}
    BY <2>1 DEF JobShape
  <2>3. ASSUME NEW m \in Cached
        PROVE  \/ sys.cache[m] = NoCache
               \/ /\ sys.cache[m].base \in PageBases(m)
                  /\ sys.cache[m].data \in [0 .. PageSize - 1 -> Bytes]
    BY <2>1 DEF Good, CacheGood
  <2> QED
    BY <2>1, <2>2, <2>3 DEF TypeOK, Good, Modes, Positions, Cached
<1> QED
  BY <1>1, MemoryInvariant, PTL

\* enableProgramming and disableProgramming, called in many nested places of
\* jtagRead, jtagWrite, jtagReadFuses and their like: the flag, once it is
\* assigned, is what the target believes, and avarice leaves the programming
\* mode before anything runs.
THEOREM ModesSound == Spec => []ModesAgree
<1>1. MemoryInv => ModesAgree
  BY DEF MemoryInv, Modes, ModesAgree
<1> QED
  BY <1>1, MemoryInvariant, PTL

\* jtagRead and jtagWrite leave the target in the programming mode, or out of
\* it, as they found it.
THEOREM ModeKept == Spec => ModeRestored
<1> DEFINE A == last' # last /\ last'.op \in {"read", "write"} => sys'.progmode = sys.progmode
<1>1. ASSUME MemoryInv, [Next]_vars
      PROVE  [A]_vars
  <2>1. ASSUME Main \/ Dies \/ UNCHANGED vars
        PROVE  last' = last
    BY <2>1 DEF Main, Dies, vars, Skip, Erase, ReadBits, WriteBits, InitJtagOnChipDebugging,
                StartDownload, ProgramPage, EndProgram, VerifyPage, EndImage, EndDownload,
                ResetProgram, Finish
  <2>2. ASSUME NEW q \in Reads, Read(q)
        PROVE  sys'.progmode = sys.progmode
    BY <1>1, <2>2, ReadKeeps
  <2>3. ASSUME NEW q \in Writes, NEW bytes \in [0 .. q.n - 1 -> Bytes], Write(q, bytes)
        PROVE  sys'.progmode = sys.progmode
    BY <1>1, <2>3, WriteKeeps
  <2>4. ASSUME \/ Script(enableProgramming(sys))
               \/ Script(disableProgramming(sys))
               \/ Script(eraseProgramMemory(sys))
               \/ \E a \in FlashAddrs : Script(eraseProgramPage(sys, Base(a)))
        PROVE  last'.op = "none"
    BY <1>1, <2>4, ScriptsKeep
  <2>5. ASSUME NEW a \in EepromAddrs, ProgramWrites(a)
        PROVE  last'.op = "none"
    BY <1>1, <2>5, ProgramWritesKeeps
  <2> QED
    BY <1>1, <2>1, <2>2, <2>3, <2>4, <2>5 DEF Next
<1> QED
  BY <1>1, MemoryInvariant, PTL DEF Spec, ModeRestored

\* The page caches of jtagRead: a read that stays within its page returns what
\* is in the target unless that page was changed after it was cached, and what
\* avarice reads over JTAG is always what is there.
THEOREM ReadsSound == Spec => []ReadCurrent
<1>1. MemoryInv => ReadCurrent
  BY DEF MemoryInv
<1> QED
  BY <1>1, MemoryInvariant, PTL

\* jtag_flash_image: a download that was verified and not ended by the check
\* has put every byte of the file into the target.
THEOREM VerifiedIsThere == Spec => []VerifySound
<1>1. DownloadInv => VerifySound
  BY DEF DownloadInv, VerifySound, Downloaded, Done
<1> QED
  BY <1>1, MemoryInvariant, PTL

\* jtag_flash_image without verification: what it programs by whole pages, the
\* empty ones left out, is the file where the file has bytes, and nothing in
\* the pages it has none in.
THEOREM ProgrammedIsThere == Spec => []ProgramSound
<1>1. DownloadInv => ProgramSound
  <2> SUFFICES ASSUME DownloadInv, pos = "reset"
               PROVE  ProgramSound
    BY DEF ProgramSound, ProgramComplete, OtherPagesKept, Downloaded
  <2>1. Done("flash") /\ Done("eeprom")
    BY DEF DownloadInv
  <2>2. ProgramComplete
    BY <2>1 DEF Done, Sure, ProgramComplete
  <2>3. OtherPagesKept
    BY <2>1 DEF Done, OthersKept, OtherPagesKept
  <2> QED
    BY <2>2, <2>3 DEF ProgramSound
<1> QED
  BY <1>1, MemoryInvariant, PTL

=============================================================================
