----------------------- MODULE Jtag2BreakpointsProofs ------------------------
(***************************************************************************)
(* Proofs about Jtag2Breakpoints, for any length of the array and any      *)
(* requests: type correctness, and, without range breakpoints, that table  *)
(* and emulator agree and that a running program stops where it was asked  *)
(* to.  The layout is a loop over the list, so its facts are proved by     *)
(* induction over the entries, with a least entry that breaks them.  And   *)
(* about JsBindings, which extends it, for any number of calls of init():  *)
(* the pointers of the scripts and of the main loop are never those of a   *)
(* deleted driver, nor of one without a daemon, and what scripts do to the *)
(* breakpoints keeps the table and the emulator in agreement, with the     *)
(* list that scripts read.                                                 *)
(***************************************************************************)
EXTENDS JsBindings, WellFoundedInduction, TLAPS

-----------------------------------------------------------------------------
(* Induction over the entries of a table.                                  *)

Less == {p \in Nat \X Nat : p[1] < p[2]}

\* A set of numbers that is not empty has a least element.
LEMMA Least ==
  ASSUME NEW T, T \subseteq Nat, T # {}
  PROVE  \E x \in T : \A y \in T : x <= y
<1>1. IsWellFoundedOn(Less, Nat)
  BY NatLessThanWellFounded DEF OpToRel, Less
<1>2. PICK x \in T : \A y \in T : ~(<<y, x>> \in Less)
  BY <1>1, WFMin
<1>3. ASSUME NEW y \in T PROVE x <= y
  <2>1. ~(<<y, x>> \in Less) /\ x \in Nat /\ y \in Nat
    BY <1>2
  <2> QED
    BY <2>1 DEF Less
<1> QED
  BY <1>3

\* A set that has 0, and with each number below m the next one, has those up to m.
LEMMA UpTo ==
  ASSUME NEW m \in Nat, NEW S, 0 \in S, \A n \in 0 .. m - 1 : n \in S => n + 1 \in S
  PROVE  \A n \in 0 .. m : n \in S
<1> DEFINE T == {n \in 0 .. m : n \notin S}
<1> SUFFICES ASSUME T # {} PROVE FALSE
  OBVIOUS
<1>1. PICK x \in T : \A y \in T : x <= y
  <2>1. T \subseteq Nat
    OBVIOUS
  <2> QED
    BY <2>1, Least
<1>2. x \in 0 .. m /\ x # 0 /\ x \notin S
  BY <1>1
<1>3. x - 1 \in S
  BY <1>1, <1>2
<1> QED
  BY <1>2, <1>3

-----------------------------------------------------------------------------
(* Tables.                                                                 *)

Entries == [address : Nat, mask_pointer : Indices, type : Types,
            masked : BOOLEAN, enabled : BOOLEAN, last : BOOLEAN,
            icestatus : BOOLEAN, toremove : BOOLEAN, toadd : BOOLEAN,
            bpnum : {Software} \cup Slots]

\* The last place of the array is never used.
Final(e) == e.last /\ ~e.enabled /\ ~e.toremove /\ ~e.icestatus

Tables == {t \in [Indices -> Entries] : Final(t[MaxTotal - 1])}

\* The array has room for at least one breakpoint and the end of the list.
LEMMA Bounds == MaxTotal \in Nat /\ MaxTotal > 1 /\ MaxTotal - 1 \in Indices /\ 0 \in Indices
  BY BreakpointsAssumption DEF Indices

\* The end is the first entry marked last.
LEMMA EndFacts ==
  ASSUME NEW t \in Tables
  PROVE  End(t) \in Indices /\ t[End(t)].last /\ \A j \in Indices : j < End(t) => ~t[j].last
<1> DEFINE T == {i \in Indices : t[i].last}
<1>1. MaxTotal - 1 \in T /\ T \subseteq Nat
  BY Bounds DEF Tables, Indices, Final
<1>2. PICK x \in T : \A y \in T : x <= y
  BY <1>1, Least
<1>3. x \in Indices /\ t[x].last /\ \A j \in Indices : j < x => ~t[j].last
  BY <1>2 DEF Indices
<1> QED
  BY <1>3 DEF End

\* There is one such entry only.
LEMMA EndUnique ==
  ASSUME NEW t \in Tables, NEW e \in Indices, t[e].last,
         \A j \in Indices : j < e => ~t[j].last
  PROVE  End(t) = e
<1>1. ~(End(t) < e) /\ ~(e < End(t)) /\ End(t) \in Indices
  BY EndFacts
<1> QED
  BY <1>1 DEF Indices

\* What leaves the marks alone leaves the end where it is.
LEMMA EndSame ==
  ASSUME NEW t \in Tables, NEW u \in Tables, \A i \in Indices : u[i].last = t[i].last
  PROVE  End(u) = End(t)
  BY EndFacts, EndUnique

\* The entries in use are those below the end of the list.
LEMMA LiveFacts ==
  ASSUME NEW t \in Tables
  PROVE  /\ Live(t) \subseteq Indices
         /\ End(t) \notin Live(t)
         /\ End(t) \in Nat
         /\ \A i \in Indices : i \in Live(t) <=> i < End(t)
  BY EndFacts, Bounds DEF Live, Indices

-----------------------------------------------------------------------------
(* The loops of layoutBreakpoints.                                         *)

Layouts == [t : Tables, free : SUBSET Slots, room : BOOLEAN, stop : BOOLEAN]

\* The steps of a loop over a table.
LEMMA DataLoop ==
  ASSUME NEW t \in Tables, NEW s
  PROVE  \E f : /\ f[0] = s
                /\ \A n \in 1 .. End(t) : f[n] = PlaceData(f[n - 1], n - 1)
                /\ LayoutData(t, s) = f[End(t)]
<1> DEFINE e == End(t)
           Run(f, m) == f = [n \in 0 .. m |-> IF n = 0 THEN s ELSE PlaceData(f[n - 1], n - 1)]
           S == {m \in 0 .. e : \E f : Run(f, m)}
<1>0. e \in Nat
  BY LiveFacts
<1>1. 0 \in S
  <2>1. Run([n \in 0 .. 0 |-> s], 0)
    OBVIOUS
  <2> HIDE DEF Run
  <2> QED
    BY <1>0, <2>1
<1>2. ASSUME NEW m \in 0 .. e - 1, m \in S PROVE m + 1 \in S
  <2>1. PICK g : Run(g, m)
    BY <1>2
  <2> DEFINE f == [n \in 0 .. m + 1 |-> IF n = m + 1 THEN PlaceData(g[m], m) ELSE g[n]]
  <2>2. \A n \in 0 .. m + 1 : f[n] = IF n = 0 THEN s ELSE PlaceData(f[n - 1], n - 1)
    BY <1>0, <2>1
  <2>3. Run(f, m + 1)
    BY <2>2
  <2> HIDE DEF Run, f
  <2> QED
    BY <1>0, <2>3
<1>3. \E f : Run(f, e)
  <2>1. \A n \in 0 .. e : n \in S
    <3> HIDE DEF S, e
    <3> QED
      BY <1>0, <1>1, <1>2, UpTo
  <2> QED
    BY <1>0, <2>1
<1> DEFINE h == CHOOSE f : f = [n \in 0 .. e |-> IF n = 0 THEN s
                                              ELSE PlaceData(f[n - 1], n - 1)]
<1>4. h = [n \in 0 .. e |-> IF n = 0 THEN s ELSE PlaceData(h[n - 1], n - 1)]
  BY <1>3
<1>5. LayoutData(t, s) = h[e]
  BY DEF LayoutData
<1> HIDE DEF h
<1>6. h[0] = s /\ \A n \in 1 .. e : h[n] = PlaceData(h[n - 1], n - 1)
  BY <1>0, <1>4
<1> QED
  BY <1>5, <1>6

\* And so is the second loop of layoutBreakpoints.
LEMMA CodeLoop ==
  ASSUME NEW t \in Tables, NEW s
  PROVE  \E f : /\ f[0] = s
                /\ \A n \in 1 .. End(t) : f[n] = PlaceCode(f[n - 1], n - 1)
                /\ LayoutCode(t, s) = f[End(t)]
<1> DEFINE e == End(t)
           Run(f, m) == f = [n \in 0 .. m |-> IF n = 0 THEN s ELSE PlaceCode(f[n - 1], n - 1)]
           S == {m \in 0 .. e : \E f : Run(f, m)}
<1>0. e \in Nat
  BY LiveFacts
<1>1. 0 \in S
  <2>1. Run([n \in 0 .. 0 |-> s], 0)
    OBVIOUS
  <2> HIDE DEF Run
  <2> QED
    BY <1>0, <2>1
<1>2. ASSUME NEW m \in 0 .. e - 1, m \in S PROVE m + 1 \in S
  <2>1. PICK g : Run(g, m)
    BY <1>2
  <2> DEFINE f == [n \in 0 .. m + 1 |-> IF n = m + 1 THEN PlaceCode(g[m], m) ELSE g[n]]
  <2>2. \A n \in 0 .. m + 1 : f[n] = IF n = 0 THEN s ELSE PlaceCode(f[n - 1], n - 1)
    BY <1>0, <2>1
  <2>3. Run(f, m + 1)
    BY <2>2
  <2> HIDE DEF Run, f
  <2> QED
    BY <1>0, <2>3
<1>3. \E f : Run(f, e)
  <2>1. \A n \in 0 .. e : n \in S
    <3> HIDE DEF S, e
    <3> QED
      BY <1>0, <1>1, <1>2, UpTo
  <2> QED
    BY <1>0, <2>1
<1> DEFINE h == CHOOSE f : f = [n \in 0 .. e |-> IF n = 0 THEN s
                                              ELSE PlaceCode(f[n - 1], n - 1)]
<1>4. h = [n \in 0 .. e |-> IF n = 0 THEN s ELSE PlaceCode(h[n - 1], n - 1)]
  BY <1>3
<1>5. LayoutCode(t, s) = h[e]
  BY DEF LayoutCode
<1> HIDE DEF h
<1>6. h[0] = s /\ \A n \in 1 .. e : h[n] = PlaceCode(h[n - 1], n - 1)
  BY <1>0, <1>4
<1> QED
  BY <1>5, <1>6

-----------------------------------------------------------------------------
(* Edits keep a table a table.                                             *)

\* Flags of an entry.
LEMMA FlagOff ==
  ASSUME NEW e \in Entries, NEW b \in BOOLEAN, NEW c \in BOOLEAN
  PROVE  /\ [e EXCEPT !.enabled = b, !.toadd = c] \in Entries
         /\ Final(e) /\ ~b => Final([e EXCEPT !.enabled = b, !.toadd = c])
  BY DEF Entries, Final

\* An entry is replaced by one with the same mark, or by the end of the list.
LEMMA SetEntry ==
  ASSUME NEW t \in Tables, NEW i \in Indices, NEW e \in Entries,
         i = MaxTotal - 1 => Final(e)
  PROVE  [t EXCEPT ![i] = e] \in Tables
  BY Bounds DEF Tables

\* layoutBreakpoints writes the slot of an entry.
LEMMA SlotType ==
  ASSUME NEW t \in Tables, NEW i \in Indices, NEW b \in {Software} \cup Slots
  PROVE  [t EXCEPT ![i] = [@ EXCEPT !.bpnum = b]] \in Tables
<1>1. [t[i] EXCEPT !.bpnum = b] \in Entries /\ (Final(t[i]) => Final([t[i] EXCEPT !.bpnum = b]))
  BY DEF Tables, Entries, Final
<1>2. i = MaxTotal - 1 => Final(t[i])
  BY DEF Tables
<1> QED
  BY <1>1, <1>2, SetEntry

\* An entry without room is turned off.
LEMMA DisableType ==
  ASSUME NEW t \in Tables, NEW i \in Indices
  PROVE  Disable(t, i) \in Tables
<1> DEFINE e == [t[i] EXCEPT !.enabled = FALSE, !.toadd = FALSE]
<1>1. e \in Entries /\ (Final(t[i]) => Final(e))
  <2>1. t[i] \in Entries
    BY DEF Tables
  <2> QED
    BY <2>1, FlagOff
<1>2. i = MaxTotal - 1 => Final(t[i])
  BY DEF Tables
<1>3. Disable(t, i) = [t EXCEPT ![i] = e]
  BY DEF Disable
<1> HIDE DEF e
<1> QED
  BY <1>1, <1>2, <1>3, SetEntry

\* The lowest slot of those that are left is one of them.
LEMMA LowestIn ==
  ASSUME NEW S, S \subseteq Slots, S # {}
  PROVE  Lowest(S) \in S
<1>1. S \subseteq Nat
  BY DEF Slots, CodeSlot, FirstData, MaskSlot
<1>2. PICK x \in S : \A y \in S : x <= y
  BY <1>1, Least
<1> QED
  BY <1>2 DEF Lowest

\* Only the three slots are ever given out.
LEMMA FreeSlotsType ==
  ASSUME NEW t
  PROVE  FreeSlots(t) \subseteq Slots
  BY DEF FreeSlots

\* The first loop leaves a table, whatever the entry is.
LEMMA PlaceDataType ==
  ASSUME NEW s \in Layouts, NEW i \in Indices
  PROVE  PlaceData(s, i) \in Layouts
<1> DEFINE e == s.t[i]
           both == {FirstData, MaskSlot} \subseteq s.free
           left == IF e.masked THEN s.free \ {MaskSlot} ELSE s.free
           data == left \cap {FirstData, MaskSlot}
           marked == IF e.masked
                       THEN [s.t EXCEPT ![e.mask_pointer] = [@ EXCEPT !.bpnum = MaskSlot]]
                       ELSE s.t
           off == Disable(Disable(s.t, e.mask_pointer), i)
           set == [marked EXCEPT ![i] = [@ EXCEPT !.bpnum = Lowest(data)]]
<1>1. s.t \in Tables /\ s.free \subseteq Slots /\ e.mask_pointer \in Indices
  BY DEF Layouts, Tables, Entries
<1>2. off \in Tables
  BY <1>1, DisableType
<1>3. marked \in Tables
  BY <1>1, SlotType DEF Slots
<1>4. data # {} => Lowest(data) \in Slots /\ set \in Tables
  <2> SUFFICES ASSUME data # {} PROVE Lowest(data) \in Slots /\ set \in Tables
    OBVIOUS
  <2>1. data \subseteq Slots
    BY <1>1
  <2>2. Lowest(data) \in Slots
    <3> HIDE DEF data
    <3> QED
      BY <2>1, LowestIn
  <2> HIDE DEF data, marked
  <2> QED
    BY <1>3, <2>2, SlotType
<1>5. left \ {Lowest(data)} \subseteq Slots
  BY <1>1
<1>6. \/ PlaceData(s, i) = s
      \/ PlaceData(s, i) = [s EXCEPT !.t = off, !.room = FALSE]
      \/ PlaceData(s, i) = [s EXCEPT !.room = FALSE, !.stop = TRUE]
      \/ data # {} /\ PlaceData(s, i) = [s EXCEPT !.t = set, !.free = left \ {Lowest(data)}]
  BY DEF PlaceData
<1> HIDE DEF off, set, left, data
<1> QED
  BY <1>2, <1>4, <1>5, <1>6 DEF Layouts

\* So does the second.
LEMMA PlaceCodeType ==
  ASSUME NEW s \in Layouts, NEW i \in Indices
  PROVE  PlaceCode(s, i) \in Layouts
<1> DEFINE slot == IF s.free # {} THEN Lowest(s.free) ELSE Software
           set == [s.t EXCEPT ![i] = [@ EXCEPT !.bpnum = slot]]
<1>1. s.t \in Tables /\ s.free \subseteq Slots
  BY DEF Layouts
<1>2. slot \in {Software} \cup Slots
  BY <1>1, LowestIn
<1>3. set \in Tables
  <2> HIDE DEF slot
  <2> QED
    BY <1>1, <1>2, SlotType
<1>4. \/ PlaceCode(s, i) = s
      \/ PlaceCode(s, i) = [s EXCEPT !.room = FALSE, !.stop = TRUE]
      \/ PlaceCode(s, i) = [s EXCEPT !.t = set, !.free = s.free \ {slot}]
  BY DEF PlaceCode
<1> HIDE DEF set, slot
<1> QED
  BY <1>1, <1>3, <1>4 DEF Layouts

\* layoutBreakpoints yields a table.
LEMMA LayoutType ==
  ASSUME NEW t \in Tables
  PROVE  Layout(t) \in Layouts
<1> DEFINE e == End(t)
           start == [t |-> t, free |-> FreeSlots(t), room |-> TRUE, stop |-> FALSE]
<1>0. e \in Indices /\ e \in Nat /\ 0 .. e - 1 \subseteq Indices
  BY EndFacts, Bounds DEF Indices
<1>1. start \in Layouts
  BY FreeSlotsType DEF Layouts
<1>2. ASSUME NEW s \in Layouts PROVE LayoutData(t, s) \in Layouts
  <2>1. PICK f : /\ f[0] = s
                 /\ \A n \in 1 .. e : f[n] = PlaceData(f[n - 1], n - 1)
                 /\ LayoutData(t, s) = f[e]
    BY DataLoop
  <2> DEFINE S == {n \in 0 .. e : f[n] \in Layouts}
  <2>2. 0 \in S
    BY <1>0, <1>2, <2>1
  <2>3. ASSUME NEW n \in 0 .. e - 1, n \in S PROVE n + 1 \in S
    <3>1. f[n + 1] = PlaceData(f[n], n) /\ f[n] \in Layouts /\ n \in Indices
      BY <1>0, <2>1, <2>3
    <3> QED
      BY <1>0, <3>1, PlaceDataType
  <2>4. \A n \in 0 .. e : n \in S
    <3> HIDE DEF S, e
    <3> QED
      BY <1>0, <2>2, <2>3, UpTo
  <2> QED
    BY <1>0, <2>1, <2>4
<1>3. ASSUME NEW s \in Layouts PROVE LayoutCode(t, s) \in Layouts
  <2>1. PICK f : /\ f[0] = s
                 /\ \A n \in 1 .. e : f[n] = PlaceCode(f[n - 1], n - 1)
                 /\ LayoutCode(t, s) = f[e]
    BY CodeLoop
  <2> DEFINE S == {n \in 0 .. e : f[n] \in Layouts}
  <2>2. 0 \in S
    BY <1>0, <1>3, <2>1
  <2>3. ASSUME NEW n \in 0 .. e - 1, n \in S PROVE n + 1 \in S
    <3>1. f[n + 1] = PlaceCode(f[n], n) /\ f[n] \in Layouts /\ n \in Indices
      BY <1>0, <2>1, <2>3
    <3> QED
      BY <1>0, <3>1, PlaceCodeType
  <2>4. \A n \in 0 .. e : n \in S
    <3> HIDE DEF S, e
    <3> QED
      BY <1>0, <2>2, <2>3, UpTo
  <2> QED
    BY <1>0, <2>1, <2>4
<1>4. LayoutData(t, start) \in Layouts
  BY <1>1, <1>2
<1>5. [LayoutData(t, start) EXCEPT !.stop = FALSE] \in Layouts
  <2> HIDE DEF start
  <2> QED
    BY <1>4 DEF Layouts
<1>6. LayoutCode(t, [LayoutData(t, start) EXCEPT !.stop = FALSE]) \in Layouts
  BY <1>3, <1>5
<1> QED
  BY <1>6 DEF Layout

-----------------------------------------------------------------------------
(* The requests keep it too.                                               *)

\* The search ends at a match or at the end of the list.
LEMMA FindFacts ==
  ASSUME NEW t \in Tables, NEW a, NEW ty
  PROVE  /\ Find(t, a, ty) \in Indices
         /\ Find(t, a, ty) <= End(t)
         /\ \/ Find(t, a, ty) \in Live(t) /\ Matches(t[Find(t, a, ty)], a, ty)
            \/ /\ Find(t, a, ty) = End(t)
               /\ \A i \in Live(t) : ~Matches(t[i], a, ty)
<1> DEFINE T == {i \in Live(t) : Matches(t[i], a, ty)}
<1>1. Live(t) \subseteq Indices /\ End(t) \in Indices /\ Live(t) \subseteq Nat
      /\ End(t) \in Nat /\ \A i \in Live(t) : i < End(t)
  BY EndFacts, LiveFacts DEF Indices
<1>2. CASE T # {}
  <2>1. T \subseteq Nat
    BY <1>1
  <2>2. PICK x \in T : \A y \in T : x <= y
    BY <1>2, <2>1, Least
  <2>3. /\ Find(t, a, ty) \in Live(t)
        /\ Matches(t[Find(t, a, ty)], a, ty)
    BY <2>2 DEF Find
  <2> QED
    BY <1>1, <2>3
<1>3. CASE T = {}
  BY <1>1, <1>3 DEF Find
<1> QED
  BY <1>2, <1>3

\* The entry found for a request is the old one, or one that is off.
LEMMA EntryFacts ==
  ASSUME NEW t \in Tables, NEW a, NEW ty
  PROVE  /\ Entry(t, a, ty) \in Indices
         /\ \/ Entry(t, a, ty) = Find(t, a, ty)
            \/ /\ Find(t, a, ty) = MaxTotal - 1
               /\ ~t[Entry(t, a, ty)].enabled /\ ~t[Entry(t, a, ty)].toremove
<1> DEFINE T == {j \in Indices : ~t[j].enabled /\ ~t[j].toremove}
<1>1. MaxTotal - 1 \in T /\ T \subseteq Nat
  BY Bounds DEF Tables, Final, Indices
<1>2. PICK x \in T : \A y \in T : x <= y
  BY <1>1, Least
<1>3. \A k \in Indices : k < x => t[k].enabled \/ t[k].toremove
  BY <1>2 DEF Indices
<1>4. Find(t, a, ty) \in Indices /\ ~(Find(t, a, ty) < MaxTotal - 1) => Find(t, a, ty) = MaxTotal - 1
  BY Bounds DEF Indices
<1>5. CASE Find(t, a, ty) < MaxTotal - 1
  BY <1>5, FindFacts DEF Entry
<1>6. CASE ~(Find(t, a, ty) < MaxTotal - 1)
  <2>1. PICK j \in Indices : /\ j = Entry(t, a, ty)
                             /\ ~t[j].enabled /\ ~t[j].toremove
    BY <1>2, <1>3, <1>6 DEF Entry
  <2> QED
    BY <1>4, <1>6, <2>1, FindFacts
<1> QED
  BY <1>5, <1>6

\* What an edit writes into an entry.
LEMMA WriteEntry ==
  ASSUME NEW e \in Entries
  PROVE  /\ \A a \in Nat, ty \in Types, b, c \in BOOLEAN :
              /\ [e EXCEPT !.last = b, !.enabled = c, !.masked = FALSE, !.address = a,
                           !.type = ty] \in Entries
              /\ [e EXCEPT !.last = b, !.enabled = c, !.address = a, !.type = ty,
                           !.masked = FALSE] \in Entries
         /\ \A p \in Indices : [e EXCEPT !.mask_pointer = p] \in Entries
         /\ \A b \in BOOLEAN : /\ [e EXCEPT !.masked = b] \in Entries
                               /\ [e EXCEPT !.enabled = b] \in Entries
         /\ \A b, c \in BOOLEAN : /\ [e EXCEPT !.last = b, !.enabled = c] \in Entries
                                  /\ [e EXCEPT !.toadd = b, !.toremove = c] \in Entries
<1>1. ASSUME NEW a \in Nat, NEW ty \in Types, NEW b \in BOOLEAN, NEW c \in BOOLEAN
      PROVE  [e EXCEPT !.last = b, !.enabled = c, !.masked = FALSE, !.address = a,
                       !.type = ty] \in Entries
  BY <1>1 DEF Entries
<1>2. ASSUME NEW a \in Nat, NEW ty \in Types, NEW b \in BOOLEAN, NEW c \in BOOLEAN
      PROVE  [e EXCEPT !.last = b, !.enabled = c, !.address = a, !.type = ty,
                       !.masked = FALSE] \in Entries
  BY <1>2 DEF Entries
<1>3. \A p \in Indices : [e EXCEPT !.mask_pointer = p] \in Entries
  BY DEF Entries
<1>4. \A b \in BOOLEAN : [e EXCEPT !.masked = b] \in Entries /\ [e EXCEPT !.enabled = b] \in Entries
  BY DEF Entries
<1>5. ASSUME NEW b \in BOOLEAN, NEW c \in BOOLEAN
      PROVE  /\ [e EXCEPT !.last = b, !.enabled = c] \in Entries
             /\ [e EXCEPT !.toadd = b, !.toremove = c] \in Entries
  BY <1>5 DEF Entries
<1> QED
  BY <1>1, <1>2, <1>3, <1>4, <1>5

\* The entry is filled in, and the list grows inside the array.
LEMMA ClaimType ==
  ASSUME NEW t \in Tables, NEW i \in Indices, NEW a \in Nat, NEW ty \in Types,
         i < MaxTotal - 1
  PROVE  Claim(t, i, a, ty) \in Tables
<1> DEFINE f == [t[i + 1] EXCEPT !.last = TRUE, !.enabled = FALSE, !.address = 0,
                                 !.type = "NONE", !.masked = FALSE]
           grown == IF t[i].last THEN [t EXCEPT ![i + 1] = f] ELSE t
           e == [grown[i] EXCEPT !.last = FALSE, !.enabled = TRUE, !.masked = FALSE,
                                 !.address = a, !.type = ty]
<1>1. i + 1 \in Indices /\ i \in Indices /\ i # MaxTotal - 1
  BY Bounds DEF Indices
<1>2. t[i] \in Entries /\ t[i + 1] \in Entries
  BY <1>1 DEF Tables
<1>3. f \in Entries /\ (Final(t[i + 1]) => Final(f))
  <2>1. "NONE" \in Types
    BY DEF Types
  <2>2. f \in Entries
    BY <1>2, <2>1, WriteEntry, Bounds
  <2>3. Final(t[i + 1]) => Final(f)
    BY <1>2 DEF Entries, Final
  <2> QED
    BY <2>2, <2>3
<1>4. grown \in Tables
  <2>1. i + 1 = MaxTotal - 1 => Final(f)
    BY <1>3 DEF Tables
  <2> HIDE DEF f
  <2> QED
    BY <1>1, <1>3, <2>1, SetEntry
<1>5. grown[i] \in Entries
  <2> HIDE DEF grown
  <2> QED
    BY <1>4 DEF Tables
<1>6. e \in Entries
  <2> HIDE DEF grown
  <2> QED
    BY <1>5, WriteEntry, Bounds
<1>7. Claim(t, i, a, ty) = [grown EXCEPT ![i] = e]
  BY DEF Claim
<1> HIDE DEF grown, e
<1> QED
  BY <1>1, <1>4, <1>6, <1>7, SetEntry

\* The end of addBreakpoint keeps the table a table.
LEMMA FinishType ==
  ASSUME NEW t \in Tables, NEW i \in Indices, i < MaxTotal - 1
  PROVE  Finish(t, i) \in Tables
<1> DEFINE new == ~t[i].icestatus
           e == [t[i] EXCEPT !.toadd = new, !.toremove = FALSE]
           flagged == [t EXCEPT ![i] = e]
           laid == Layout(flagged)
           off == Disable(laid.t, i)
<1>1. e \in Entries
  <2>1. t[i] \in Entries /\ new \in BOOLEAN
    BY DEF Tables
  <2> HIDE DEF new
  <2> QED
    BY <2>1, WriteEntry, Bounds
<1>2. flagged \in Tables
  <2>1. i # MaxTotal - 1
    BY Bounds DEF Indices
  <2> HIDE DEF e
  <2> QED
    BY <1>1, <2>1, SetEntry
<1>3. laid.t \in Tables
  <2> HIDE DEF flagged
  <2> QED
    BY <1>2, LayoutType DEF Layouts
<1>4. off \in Tables
  <2> HIDE DEF laid
  <2> QED
    BY <1>3, DisableType
<1>5. off[i].mask_pointer \in Indices
  <2> HIDE DEF off
  <2> QED
    BY <1>4 DEF Tables, Entries
<1>6. Disable(off, off[i].mask_pointer) \in Tables
  <2> HIDE DEF off
  <2> QED
    BY <1>4, <1>5, DisableType
<1>7. Finish(t, i) \in {laid.t, off, Disable(off, off[i].mask_pointer)}
  BY DEF Finish
<1> HIDE DEF laid, off
<1> QED
  BY <1>3, <1>4, <1>6, <1>7

\* So does all of it, without a range.
LEMMA AddPlainType ==
  ASSUME NEW t \in Tables, NEW a \in Nat, NEW ty \in Types
  PROVE  AddPlain(t, a, ty).t \in Tables
<1> DEFINE i == Entry(t, a, ty)
           u == Claim(t, i, a, ty)
<1>1. CASE i = MaxTotal - 1
  BY <1>1 DEF AddPlain
<1>2. CASE i # MaxTotal - 1
  <2>1. i \in Indices /\ i < MaxTotal - 1
    BY <1>2, EntryFacts, Bounds DEF Indices
  <2>2. u \in Tables
    <3> HIDE DEF i
    <3> QED
      BY <2>1, ClaimType
  <2>3. Finish(u, i) \in Tables
    <3> HIDE DEF i, u
    <3> QED
      BY <2>1, <2>2, FinishType
  <2> QED
    BY <1>2, <2>3 DEF AddPlain
<1> QED
  BY <1>1, <1>2

\* A refused range ends the list in the middle, which is still a list.
LEMMA CutType ==
  ASSUME NEW t \in Tables, NEW i \in Indices, i < MaxTotal - 1
  PROVE  Cut(t, i) \in Tables
<1> DEFINE e == [t[i] EXCEPT !.last = TRUE, !.enabled = FALSE]
<1>1. e \in Entries
  <2>1. t[i] \in Entries
    BY DEF Tables
  <2> QED
    BY <2>1, WriteEntry, Bounds
<1>2. i # MaxTotal - 1
  BY Bounds DEF Indices
<1>3. Cut(t, i) = [t EXCEPT ![i] = e]
  BY DEF Cut
<1> HIDE DEF e
<1> QED
  BY <1>1, <1>2, <1>3, SetEntry

\* With a range, accepted or refused in either of its two ways.
LEMMA AddRangeType ==
  ASSUME NEW t \in Tables, NEW a \in Nat, NEW ty \in Types, NEW n \in Nat, a + n < MaskBase
  PROVE  AddRange(t, a, ty, n).t \in Tables
<1> DEFINE i == Entry(t, a, ty)
           u == Claim(t, i, a, ty)
           e == [u[i] EXCEPT !.masked = TRUE]
           v == [u EXCEPT ![i] = e]
           mask == MaskBase - n
           inner == AddPlain(v, mask, "DATA_MASK")
           w == inner.t
           p == MaskPointer(w, i, mask)
           f == [w[i] EXCEPT !.mask_pointer = p]
           linked == [w EXCEPT ![i] = f]
<1>1. CASE i = MaxTotal - 1
  BY <1>1 DEF AddRange
<1>2. CASE i # MaxTotal - 1
  <2>1. i \in Indices /\ i < MaxTotal - 1
    BY <1>2, EntryFacts, Bounds DEF Indices
  <2>2. u \in Tables
    <3> HIDE DEF i
    <3> QED
      BY <2>1, ClaimType
  <2>3. v \in Tables
    <3>1. e \in Entries
      <4>1. u[i] \in Entries
        <5> HIDE DEF u, i
        <5> QED
          BY <2>1, <2>2 DEF Tables
      <4> HIDE DEF u, i
      <4> QED
        BY <4>1, WriteEntry, Bounds
    <3> HIDE DEF e, u, i
    <3> QED
      BY <1>2, <2>1, <2>2, <3>1, SetEntry
  <2>4. mask \in Nat /\ "DATA_MASK" \in Types
    BY BreakpointsAssumption DEF Types
  <2>5. w \in Tables
    <3> HIDE DEF v, mask
    <3> QED
      BY <2>3, <2>4, AddPlainType
  <2>6. p \in Indices
    <3> DEFINE T == {j \in Live(w) : w[j].type = "DATA_MASK"}
    <3>0. Live(w) \subseteq Indices /\ Indices \subseteq Nat /\ End(w) \in Indices
      <4> HIDE DEF w
      <4> QED
        BY <2>5, LiveFacts, EndFacts DEF Indices
    <3>1. CASE w[i].address = mask /\ T # {}
      <4>1. PICK x \in T : \A y \in T : x <= y
        <5>1. T \subseteq Nat
          BY <3>0
        <5> HIDE DEF T
        <5> QED
          BY <3>1, <5>1, Least
      <4> HIDE DEF w, mask, i
      <4>2. p \in Live(w)
        BY <3>1, <4>1 DEF MaskPointer
      <4> QED
        BY <3>0, <4>2
    <3>2. CASE ~(w[i].address = mask /\ T # {})
      <4> HIDE DEF w, mask, i
      <4> QED
        BY <3>0, <3>2 DEF MaskPointer
    <3> QED
      BY <3>1, <3>2
  <2>7. linked \in Tables
    <3>1. f \in Entries
      <4>1. w[i] \in Entries
        <5> HIDE DEF w, i
        <5> QED
          BY <2>1, <2>5 DEF Tables
      <4> HIDE DEF w, p, i
      <4> QED
        BY <2>6, <4>1, WriteEntry
    <3> HIDE DEF f, w, i
    <3> QED
      BY <1>2, <2>1, <2>5, <3>1, SetEntry
  <2>8. Cut(u, i) \in Tables /\ Cut(w, i) \in Tables /\ Finish(linked, i) \in Tables
    <3> HIDE DEF linked, w, u, i
    <3> QED
      BY <2>1, <2>2, <2>5, <2>7, CutType, FinishType
  <2>9. AddRange(t, a, ty, n).t \in {Cut(u, i), Cut(w, i), Finish(linked, i)}
    <3> USE <1>2
    <3> QED
      BY DEF AddRange
  <2> QED
    BY <2>8, <2>9
<1> QED
  BY <1>1, <1>2

\* Any request to add.
LEMMA AddType ==
  ASSUME NEW t \in Tables, NEW q \in Requests
  PROVE  addBreakpoint(t, q.address, q.type, q.length).t \in Tables
<1> DEFINE i == Find(t, q.address, q.type)
           e == [t[i] EXCEPT !.enabled = TRUE]
           found == IF i \in Live(t) THEN [t EXCEPT ![i] = e] ELSE t
<1>0. q.address \in Nat /\ q.type \in Types /\ q.length \in Nat /\ q.address + q.length < MaskBase
  BY BreakpointsAssumption DEF Types, DataTypes
<1>1. found \in Tables
  <2>1. CASE i \in Live(t)
    <3>1. i \in Indices /\ i # MaxTotal - 1
      BY <2>1, LiveFacts, EndFacts, Bounds DEF Indices
    <3>2. e \in Entries
      <4>1. t[i] \in Entries
        <5> HIDE DEF i
        <5> QED
          BY <3>1 DEF Tables
      <4> HIDE DEF i
      <4> QED
        BY <4>1, WriteEntry
    <3> HIDE DEF e, i
    <3> QED
      BY <2>1, <3>1, <3>2, SetEntry
  <2>2. CASE i \notin Live(t)
    BY <2>2
  <2> QED
    BY <2>1, <2>2
<1>2. addBreakpoint(t, q.address, q.type, q.length)
        \in {AddRange(found, q.address, q.type, q.length), AddPlain(found, q.address, q.type)}
  BY DEF addBreakpoint
<1> HIDE DEF found
<1>3. /\ AddRange(found, q.address, q.type, q.length).t \in Tables
      /\ AddPlain(found, q.address, q.type).t \in Tables
  BY <1>0, <1>1, AddRangeType, AddPlainType
<1> QED
  BY <1>2, <1>3

\* Any request to delete: the entry behind the list may be looked at.
LEMMA DeleteType ==
  ASSUME NEW t \in Tables, NEW a, NEW ty
  PROVE  deleteBreakpoint(t, a, ty).t \in Tables
<1> DEFINE i == Find(t, a, ty)
           e == [t[i] EXCEPT !.enabled = FALSE, !.toadd = FALSE, !.toremove = t[i].icestatus]
           flagged == [t EXCEPT ![i] = e]
<1>1. i \in Indices
  BY FindFacts
<1>2. e \in Entries /\ (i = MaxTotal - 1 => Final(e))
  <2>1. t[i] \in Entries /\ (i = MaxTotal - 1 => Final(t[i]))
    BY <1>1 DEF Tables
  <2>2. ASSUME NEW b \in BOOLEAN
        PROVE  LET f == [t[i] EXCEPT !.enabled = FALSE, !.toadd = FALSE, !.toremove = b]
               IN  f \in Entries /\ (Final(t[i]) /\ ~b => Final(f))
    <3> HIDE DEF i
    <3> QED
      BY <2>1 DEF Entries, Final
  <2>3. t[i].icestatus \in BOOLEAN /\ (Final(t[i]) => ~t[i].icestatus)
    BY <2>1 DEF Entries, Final
  <2> QED
    BY <2>1, <2>2, <2>3
<1>3. flagged \in Tables
  <2> HIDE DEF e, i
  <2> QED
    BY <1>1, <1>2, SetEntry
<1>4. Layout(flagged).t \in Tables
  <2> HIDE DEF flagged
  <2> QED
    BY <1>3, LayoutType DEF Layouts
<1>5. deleteBreakpoint(t, a, ty).t \in {t, Layout(flagged).t}
  BY DEF deleteBreakpoint
<1> HIDE DEF flagged
<1> QED
  BY <1>4, <1>5

\* And all of them at once.
LEMMA DeleteAllType ==
  ASSUME NEW t \in Tables
  PROVE  deleteAllBreakpoints(t) \in Tables
<1>1. ASSUME NEW e \in Entries, NEW b \in BOOLEAN
      PROVE  [e EXCEPT !.enabled = FALSE, !.toremove = b] \in Entries
  BY DEF Entries
<1>2. ASSUME NEW i \in Indices PROVE deleteAllBreakpoints(t)[i] \in Entries
  <2>1. t[i] \in Entries
    BY DEF Tables
  <2> DEFINE b == t[i].toremove \/ (t[i].enabled /\ t[i].icestatus)
  <2>2. b \in BOOLEAN
    BY <2>1 DEF Entries
  <2>3. deleteAllBreakpoints(t)[i] = IF i \in Live(t)
                                       THEN [t[i] EXCEPT !.enabled = FALSE, !.toremove = b]
                                       ELSE t[i]
    BY DEF deleteAllBreakpoints
  <2> HIDE DEF b
  <2> QED
    BY <1>1, <2>1, <2>2, <2>3
<1>3. MaxTotal - 1 \notin Live(t)
  BY LiveFacts, EndFacts, Bounds DEF Indices
<1>4. Final(deleteAllBreakpoints(t)[MaxTotal - 1])
  BY <1>3, Bounds DEF deleteAllBreakpoints, Tables
<1>5. deleteAllBreakpoints(t) = [i \in Indices |-> deleteAllBreakpoints(t)[i]]
  BY DEF deleteAllBreakpoints
<1> QED
  BY <1>2, <1>4, <1>5 DEF Tables

-----------------------------------------------------------------------------
(* What layoutBreakpoints does to a table without range breakpoints.       *)

\* Nothing but slots changes.
Slotted(t, u) == \A i \in Indices : u[i] = [t[i] EXCEPT !.bpnum = u[i].bpnum]

Pending(t) == {i \in Live(t) : t[i].enabled /\ t[i].toadd}

\* Every entry of P has a slot of its own out of the free ones, or is a software
\* breakpoint, which only code may be.
Placed(t, u, P, used) ==
  /\ \A i \in P : u[i].bpnum \in used \/ (u[i].bpnum = Software /\ t[i].type = "CODE")
  /\ \A i, j \in P : i # j /\ u[i].bpnum # Software => u[i].bpnum # u[j].bpnum

\* A layout in progress, when the entries of P have been placed.
LayInv(s, t, P) ==
  /\ s \in Layouts
  /\ Slotted(t, s.t)
  /\ \A i \in Indices \ P : s.t[i] = t[i]
  /\ s.free \subseteq FreeSlots(t)
  /\ s.stop => ~s.room
  /\ s.room => Placed(t, s.t, P, FreeSlots(t) \ s.free)

\* An entry that is passed over, because of its flags or for want of room.
LEMMA PassOver ==
  ASSUME NEW s, NEW t \in Tables, NEW P, NEW i, LayInv(s, t, P)
  PROVE  /\ ~s.room => LayInv(s, t, P \cup {i})
         /\ LayInv([s EXCEPT !.room = FALSE, !.stop = TRUE], t, P \cup {i})
<1>1. s \in Layouts
  BY DEF LayInv
<1>2. ~s.room => LayInv(s, t, P \cup {i})
  BY DEF LayInv
<1> DEFINE u == [s EXCEPT !.room = FALSE, !.stop = TRUE]
<1>3. u \in Layouts /\ u.t = s.t /\ u.free = s.free /\ u.room = FALSE /\ u.stop = TRUE
  BY <1>1 DEF Layouts
<1> HIDE DEF u
<1>4. LayInv(u, t, P \cup {i})
  BY <1>3 DEF LayInv
<1> QED
  BY <1>2, <1>4 DEF u

\* An entry that is given a slot.
LEMMA PlaceOne ==
  ASSUME NEW s, NEW t \in Tables, NEW P \in SUBSET Indices, LayInv(s, t, P),
         NEW i \in Indices, i \notin P,
         NEW b, b \in s.free \/ (b = Software /\ t[i].type = "CODE"),
         NEW f, f = s.free \ {b}
  PROVE  LayInv([s EXCEPT !.t = [s.t EXCEPT ![i] = [@ EXCEPT !.bpnum = b]], !.free = f],
                t, P \cup {i})
<1> DEFINE x == [s.t EXCEPT ![i] = [@ EXCEPT !.bpnum = b]]
           u == [s EXCEPT !.t = x, !.free = f]
<1>1. s \in Layouts /\ s.t \in Tables /\ s.free \subseteq Slots /\ s.free \subseteq FreeSlots(t)
  BY DEF LayInv, Layouts
<1>2. b \in {Software} \cup Slots /\ f \subseteq Slots
  BY <1>1
<1>3. x \in Tables
  BY <1>1, <1>2, SlotType
<1>4. u \in Layouts /\ u.t = x /\ u.free = f /\ u.room = s.room /\ u.stop = s.stop
  <2> HIDE DEF x
  <2> QED
    BY <1>1, <1>2, <1>3 DEF Layouts
<1>5. /\ x[i] = [s.t[i] EXCEPT !.bpnum = b]
      /\ \A j \in Indices : j # i => x[j] = s.t[j]
      /\ s.t[i] \in Entries
  BY <1>1 DEF Tables
<1>6. x[i].bpnum = b
  BY <1>5 DEF Entries
<1> HIDE DEF x, u
<1>7. Slotted(t, x)
  <2>1. s.t[i] = [t[i] EXCEPT !.bpnum = s.t[i].bpnum] /\ t[i] \in Entries
    BY DEF LayInv, Slotted, Tables
  <2>2. x[i] = [t[i] EXCEPT !.bpnum = x[i].bpnum]
    BY <1>5, <1>6, <2>1 DEF Entries
  <2> QED
    BY <1>5, <2>2 DEF LayInv, Slotted
<1>8. \A j \in Indices \ (P \cup {i}) : x[j] = t[j]
  BY <1>5 DEF LayInv
<1>9. s.room => Placed(t, x, P \cup {i}, FreeSlots(t) \ f)
  <2> SUFFICES ASSUME s.room PROVE Placed(t, x, P \cup {i}, FreeSlots(t) \ f)
    OBVIOUS
  <2>1. Placed(t, s.t, P, FreeSlots(t) \ s.free)
    BY DEF LayInv
  <2>2. ASSUME NEW j \in P PROVE /\ x[j].bpnum = s.t[j].bpnum
                                 /\ x[j].bpnum # b \/ b = Software
                                 /\ x[j].bpnum \in FreeSlots(t) \ f
                                    \/ (x[j].bpnum = Software /\ t[j].type = "CODE")
    <3>1. x[j].bpnum = s.t[j].bpnum
      BY <1>5
    <3>2. \/ s.t[j].bpnum \in FreeSlots(t) \ s.free
          \/ s.t[j].bpnum = Software /\ t[j].type = "CODE"
      BY <2>1 DEF Placed
    <3>3. Software \notin Slots
      BY DEF Software, Slots, CodeSlot, FirstData, MaskSlot
    <3> QED
      BY <1>1, <3>1, <3>2, <3>3
  <2>3. b \in FreeSlots(t) \ f \/ (b = Software /\ t[i].type = "CODE")
    BY <1>1
  <2>4. \A j, k \in P : j # k /\ s.t[j].bpnum # Software => s.t[j].bpnum # s.t[k].bpnum
    BY <2>1 DEF Placed
  <2> QED
    BY <1>6, <2>2, <2>3, <2>4 DEF Placed
<1>10. LayInv(u, t, P \cup {i})
  BY <1>1, <1>4, <1>7, <1>8, <1>9 DEF LayInv
<1> QED
  BY <1>10 DEF u, x

\* The entries that have had their turn.
DataBefore(t, n) == {i \in Pending(t) : i < n /\ t[i].type \in DataTypes}
CodeBefore(t, n) == {i \in Pending(t) : i < n /\ t[i].type = "CODE"}

\* A layout in progress has changed slots only, so it sees the same entries.
LEMMA SameFlags ==
  ASSUME NEW t \in Tables, NEW u \in Tables, Slotted(t, u), NEW i \in Indices
  PROVE  /\ u[i].enabled = t[i].enabled /\ u[i].toadd = t[i].toadd /\ u[i].type = t[i].type
         /\ u[i].masked = t[i].masked /\ u[i].icestatus = t[i].icestatus
         /\ u[i].toremove = t[i].toremove /\ u[i].last = t[i].last
         /\ u[i].address = t[i].address
<1>1. t[i] \in Entries /\ u[i] = [t[i] EXCEPT !.bpnum = u[i].bpnum]
  BY DEF Slotted, Tables
<1> DEFINE e == [t[i] EXCEPT !.bpnum = u[i].bpnum]
<1>2. /\ e.enabled = t[i].enabled /\ e.toadd = t[i].toadd /\ e.type = t[i].type
      /\ e.masked = t[i].masked
  BY <1>1 DEF Entries
<1>3. /\ e.icestatus = t[i].icestatus /\ e.toremove = t[i].toremove
      /\ e.last = t[i].last /\ e.address = t[i].address
  BY <1>1 DEF Entries
<1>4. u[i] = e
  BY <1>1
<1> HIDE DEF e
<1> QED
  BY <1>2, <1>3, <1>4

\* One turn of the first loop adds one entry to those placed, or passes over it.
LEMMA DataStep ==
  ASSUME NEW s, NEW t \in Tables, NEW i \in Live(t), ~t[i].masked,
         LayInv(s, t, DataBefore(t, i))
  PROVE  LayInv(PlaceData(s, i), t, DataBefore(t, i + 1))
<1> DEFINE P == DataBefore(t, i)
           e == s.t[i]
           data == s.free \cap {FirstData, MaskSlot}
           turn == e.enabled /\ e.toadd /\ e.type \in DataTypes
           set == [s.t EXCEPT ![i] = [@ EXCEPT !.bpnum = Lowest(data)]]
<1>0. /\ i \in Indices /\ i \in Nat /\ Live(t) \subseteq Nat /\ Live(t) \subseteq Indices
      /\ s \in Layouts /\ s.t \in Tables /\ Slotted(t, s.t) /\ s.free \subseteq Slots
  BY LiveFacts DEF LayInv, Layouts, Indices
<1>1. ~e.masked /\ turn = (t[i].enabled /\ t[i].toadd /\ t[i].type \in DataTypes)
  BY <1>0, SameFlags
<1>2. DataBefore(t, i + 1) = IF turn THEN P \cup {i} ELSE P
  BY <1>0, <1>1 DEF DataBefore, Pending
<1>3. PlaceData(s, i) =
        IF s.stop \/ ~turn THEN s
        ELSE IF data = {} THEN [s EXCEPT !.room = FALSE, !.stop = TRUE]
        ELSE [s EXCEPT !.t = set, !.free = s.free \ {Lowest(data)}]
  BY <1>1 DEF PlaceData
<1>4. P \in SUBSET Indices /\ i \notin P
  BY <1>0 DEF DataBefore, Pending
<1>5. data \subseteq Slots
  BY <1>0
<1>5a. LayInv(s, t, P)
  OBVIOUS
<1> HIDE DEF turn, data, P
<1>5b. /\ ~s.room => LayInv(s, t, P \cup {i})
       /\ LayInv([s EXCEPT !.room = FALSE, !.stop = TRUE], t, P \cup {i})
  BY <1>5a, PassOver
<1>6. CASE ~turn
  BY <1>2, <1>3, <1>5a, <1>6
<1>7. CASE turn /\ s.stop
  <2>1. ~s.room
    BY <1>7 DEF LayInv
  <2> QED
    BY <1>2, <1>3, <1>5b, <1>7, <2>1
<1>8. CASE turn /\ ~s.stop /\ data = {}
  BY <1>2, <1>3, <1>5b, <1>8
<1>9. CASE turn /\ ~s.stop /\ data # {}
  <2>1. Lowest(data) \in s.free
    <3>1. Lowest(data) \in data
      BY <1>5, <1>9, LowestIn
    <3> QED
      BY <3>1 DEF data
  <2>2. LayInv([s EXCEPT !.t = set, !.free = s.free \ {Lowest(data)}], t, P \cup {i})
    <3> HIDE DEF e
    <3> QED
      BY <1>0, <1>4, <1>5a, <2>1, PlaceOne
  <2> QED
    BY <1>2, <1>3, <1>9, <2>2
<1> QED
  BY <1>6, <1>7, <1>8, <1>9

\* One turn of the second.
LEMMA CodeStep ==
  ASSUME NEW s, NEW t \in Tables, NEW i \in Live(t), NEW D \in SUBSET Indices, i \in D =>
         t[i].type # "CODE", LayInv(s, t, D \cup CodeBefore(t, i))
  PROVE  LayInv(PlaceCode(s, i), t, D \cup CodeBefore(t, i + 1))
<1> DEFINE P == D \cup CodeBefore(t, i)
           e == s.t[i]
           turn == e.enabled /\ e.toadd /\ e.type = "CODE"
           slot == IF s.free # {} THEN Lowest(s.free) ELSE Software
           set == [s.t EXCEPT ![i] = [@ EXCEPT !.bpnum = slot]]
<1>0. /\ i \in Indices /\ i \in Nat /\ Live(t) \subseteq Nat /\ Live(t) \subseteq Indices
      /\ s \in Layouts /\ s.t \in Tables /\ Slotted(t, s.t) /\ s.free \subseteq Slots
  BY LiveFacts DEF LayInv, Layouts, Indices
<1>1. turn = (t[i].enabled /\ t[i].toadd /\ t[i].type = "CODE")
  BY <1>0, SameFlags
<1>2. CodeBefore(t, i + 1) = IF turn THEN CodeBefore(t, i) \cup {i} ELSE CodeBefore(t, i)
  BY <1>0, <1>1 DEF CodeBefore, Pending
<1>3. PlaceCode(s, i) =
        IF s.stop \/ ~turn THEN s
        ELSE IF s.free = {} /\ ~SoftwareBPs THEN [s EXCEPT !.room = FALSE, !.stop = TRUE]
        ELSE [s EXCEPT !.t = set, !.free = s.free \ {slot}]
  BY DEF PlaceCode
<1>4. P \in SUBSET Indices /\ (turn => i \notin P)
  <2>1. CodeBefore(t, i) \subseteq Indices /\ i \notin CodeBefore(t, i)
    BY <1>0 DEF CodeBefore, Pending
  <2>2. turn => i \notin D
    BY <1>1
  <2> QED
    BY <2>1, <2>2
<1>5. turn => D \cup CodeBefore(t, i + 1) = P \cup {i}
  BY <1>2
<1>5a. ~turn => D \cup CodeBefore(t, i + 1) = P
  BY <1>2
<1>5b. LayInv(s, t, P)
  OBVIOUS
<1>5c. slot \in s.free \/ (slot = Software /\ s.free = {})
  BY <1>0, LowestIn
<1> HIDE DEF P, slot
<1>5d. /\ ~s.room => LayInv(s, t, P \cup {i})
       /\ LayInv([s EXCEPT !.room = FALSE, !.stop = TRUE], t, P \cup {i})
  BY <1>5b, PassOver
<1>6. CASE ~turn
  <2> HIDE DEF turn
  <2> QED
    BY <1>3, <1>5a, <1>5b, <1>6
<1>7. CASE turn /\ s.stop
  <2>1. ~s.room
    BY <1>7 DEF LayInv
  <2> HIDE DEF turn
  <2> QED
    BY <1>3, <1>5, <1>5d, <1>7, <2>1
<1>8. CASE turn /\ ~s.stop /\ s.free = {} /\ ~SoftwareBPs
  <2> HIDE DEF turn
  <2> QED
    BY <1>3, <1>5, <1>5d, <1>8
<1>9. CASE turn /\ ~s.stop /\ ~(s.free = {} /\ ~SoftwareBPs)
  <2>1. t[i].type = "CODE"
    BY <1>1, <1>9
  <2>2. LayInv([s EXCEPT !.t = set, !.free = s.free \ {slot}], t, P \cup {i})
    <3> HIDE DEF e, turn
    <3> QED
      BY <1>0, <1>4, <1>5b, <1>5c, <1>9, <2>1, PlaceOne
  <2> HIDE DEF turn
  <2> QED
    BY <1>3, <1>5, <1>9, <2>2
<1> QED
  BY <1>6, <1>7, <1>8, <1>9

\* layoutBreakpoints changes the slots of the pending entries only, and if it
\* reports room, they do not clash with one another or with what is installed.
LEMMA LayoutFacts ==
  ASSUME NEW t \in Tables, \A i \in Indices : ~t[i].masked,
         \A i \in Live(t) : t[i].type \in DataTypes \cup {"CODE"}
  PROVE  LayInv(Layout(t), t, Pending(t))
<1> DEFINE e == End(t)
           start == [t |-> t, free |-> FreeSlots(t), room |-> TRUE, stop |-> FALSE]
           data == LayoutData(t, start)
           mid == [data EXCEPT !.stop = FALSE]
           D == DataBefore(t, e)
<1>0. /\ e \in Indices /\ e \in Nat /\ \A i \in 0 .. e - 1 : i \in Live(t)
      /\ Live(t) \subseteq Indices /\ \A i \in Live(t) : i \in Nat /\ i < e
  BY EndFacts, Bounds, LiveFacts DEF Indices, Live
<1>1. LayInv(start, t, DataBefore(t, 0))
  <2>1. DataBefore(t, 0) = {}
    BY <1>0 DEF DataBefore, Pending
  <2>2. start \in Layouts /\ start.t = t /\ start.free = FreeSlots(t) /\ ~start.stop
    BY FreeSlotsType DEF Layouts
  <2>3. Slotted(t, t)
    <3>1. \A i \in Indices : t[i] = [t[i] EXCEPT !.bpnum = t[i].bpnum]
      BY DEF Tables, Entries
    <3> QED
      BY <3>1 DEF Slotted
  <2> HIDE DEF start
  <2> QED
    BY <2>1, <2>2, <2>3 DEF LayInv, Placed
<1>2. LayInv(data, t, D)
  <2> HIDE DEF start
  <2>1. PICK f : /\ f[0] = start
                 /\ \A n \in 1 .. e : f[n] = PlaceData(f[n - 1], n - 1)
                 /\ data = f[e]
    BY DataLoop
  <2> DEFINE S == {n \in 0 .. e : LayInv(f[n], t, DataBefore(t, n))}
  <2>2. 0 \in S
    BY <1>0, <1>1, <2>1
  <2>3. ASSUME NEW n \in 0 .. e - 1, n \in S PROVE n + 1 \in S
    <3>1. f[n + 1] = PlaceData(f[n], n) /\ LayInv(f[n], t, DataBefore(t, n))
      BY <1>0, <2>1, <2>3
    <3>2. n \in Live(t) /\ ~t[n].masked
      BY <1>0
    <3>3. LayInv(f[n + 1], t, DataBefore(t, n + 1))
      BY <3>1, <3>2, DataStep
    <3> QED
      BY <1>0, <3>3
  <2>4. \A n \in 0 .. e : n \in S
    <3> HIDE DEF S, e
    <3> QED
      BY <1>0, <2>2, <2>3, UpTo
  <2> QED
    BY <1>0, <2>1, <2>4
<1> HIDE DEF data
<1>3. D \subseteq Indices /\ \A i \in D : t[i].type # "CODE"
  BY <1>0 DEF DataBefore, Pending, DataTypes
<1> HIDE DEF D
<1>4. LayInv(mid, t, D \cup CodeBefore(t, 0))
  <2>1. CodeBefore(t, 0) = {}
    BY <1>0 DEF CodeBefore, Pending
  <2>2. data \in Layouts
    BY <1>2 DEF LayInv
  <2>3. mid \in Layouts /\ mid.t = data.t /\ mid.free = data.free /\ mid.room = data.room
        /\ ~mid.stop
    BY <2>2 DEF Layouts
  <2> HIDE DEF mid
  <2>4. LayInv(mid, t, D)
    BY <1>2, <2>3 DEF LayInv
  <2> QED
    BY <2>1, <2>4
<1>5. LayInv(LayoutCode(t, mid), t, D \cup CodeBefore(t, e))
  <2> HIDE DEF mid
  <2>1. PICK f : /\ f[0] = mid
                 /\ \A n \in 1 .. e : f[n] = PlaceCode(f[n - 1], n - 1)
                 /\ LayoutCode(t, mid) = f[e]
    BY CodeLoop
  <2> DEFINE S == {n \in 0 .. e : LayInv(f[n], t, D \cup CodeBefore(t, n))}
  <2>2. 0 \in S
    BY <1>0, <1>4, <2>1
  <2>3. ASSUME NEW n \in 0 .. e - 1, n \in S PROVE n + 1 \in S
    <3>1. f[n + 1] = PlaceCode(f[n], n) /\ LayInv(f[n], t, D \cup CodeBefore(t, n))
      BY <1>0, <2>1, <2>3
    <3>2. n \in Live(t)
      BY <1>0
    <3>3. LayInv(f[n + 1], t, D \cup CodeBefore(t, n + 1))
      BY <1>3, <3>1, <3>2, CodeStep
    <3> QED
      BY <1>0, <3>3
  <2>4. \A n \in 0 .. e : n \in S
    <3> HIDE DEF S, e
    <3> QED
      BY <1>0, <2>2, <2>3, UpTo
  <2>5. LayInv(f[e], t, D \cup CodeBefore(t, e))
    <3>1. e \in 0 .. e
      BY <1>0
    <3>2. e \in S
      <4> HIDE DEF S, e
      <4> QED
        BY <2>4, <3>1
    <3> HIDE DEF e
    <3> QED
      BY <3>2
  <2> QED
    BY <2>1, <2>5
<1>6. D \cup CodeBefore(t, e) = Pending(t)
  BY <1>0 DEF D, DataBefore, CodeBefore, Pending
<1>7. Layout(t) = LayoutCode(t, mid)
  BY DEF Layout, data
<1> QED
  BY <1>5, <1>6, <1>7

\* With software breakpoints there is room for any number of code breakpoints.
LEMMA CodeHasRoom ==
  ASSUME NEW t \in Tables, SoftwareBPs, \A i \in Live(t) : t[i].type = "CODE"
  PROVE  Layout(t).room
<1> DEFINE e == End(t)
           start == [t |-> t, free |-> FreeSlots(t), room |-> TRUE, stop |-> FALSE]
           data == LayoutData(t, start)
           mid == [data EXCEPT !.stop = FALSE]
           OK(s) == s \in Layouts /\ s.room /\ \A i \in Live(t) : s.t[i].type = "CODE"
<1>0. /\ e \in Nat /\ \A i \in 0 .. e - 1 : i \in Live(t)
      /\ Live(t) \subseteq Indices
  BY EndFacts, Bounds, LiveFacts DEF Indices, Live
<1>1. OK(start)
  BY FreeSlotsType DEF Layouts
<1>2. OK(data)
  <2> HIDE DEF start
  <2>1. PICK f : /\ f[0] = start
                 /\ \A n \in 1 .. e : f[n] = PlaceData(f[n - 1], n - 1)
                 /\ data = f[e]
    BY DataLoop
  <2> DEFINE S == {n \in 0 .. e : OK(f[n])}
  <2>2. 0 \in S
    BY <1>0, <1>1, <2>1
  <2>3. ASSUME NEW n \in 0 .. e - 1, n \in S PROVE n + 1 \in S
    <3>1. f[n + 1] = PlaceData(f[n], n) /\ OK(f[n]) /\ n \in Live(t)
      BY <1>0, <2>1, <2>3
    <3>2. PlaceData(f[n], n) = f[n]
      BY <3>1 DEF PlaceData, DataTypes
    <3> HIDE DEF OK
    <3> QED
      BY <1>0, <3>1, <3>2
  <2>4. \A n \in 0 .. e : n \in S
    <3> HIDE DEF S, e
    <3> QED
      BY <1>0, <2>2, <2>3, UpTo
  <2> HIDE DEF OK
  <2> QED
    BY <1>0, <2>1, <2>4
<1> HIDE DEF data
<1>3. OK(mid)
  BY <1>2 DEF Layouts
<1>4. OK(LayoutCode(t, mid))
  <2> HIDE DEF mid
  <2>1. PICK f : /\ f[0] = mid
                 /\ \A n \in 1 .. e : f[n] = PlaceCode(f[n - 1], n - 1)
                 /\ LayoutCode(t, mid) = f[e]
    BY CodeLoop
  <2> DEFINE S == {n \in 0 .. e : OK(f[n])}
  <2>2. 0 \in S
    BY <1>0, <1>3, <2>1
  <2>3. ASSUME NEW n \in 0 .. e - 1, n \in S PROVE n + 1 \in S
    <3>1. f[n + 1] = PlaceCode(f[n], n) /\ OK(f[n]) /\ n \in Live(t)
      BY <1>0, <2>1, <2>3
    <3> DEFINE s == f[n]
               slot == IF s.free # {} THEN Lowest(s.free) ELSE Software
               set == [s.t EXCEPT ![n] = [@ EXCEPT !.bpnum = slot]]
    <3>2. \/ PlaceCode(s, n) = s
          \/ PlaceCode(s, n) = [s EXCEPT !.t = set, !.free = s.free \ {slot}]
      BY DEF PlaceCode
    <3>3. PlaceCode(s, n) \in Layouts
      BY <1>0, <3>1, PlaceCodeType
    <3>4. \A i \in Live(t) : set[i].type = "CODE"
      <4>1. s.t \in [Indices -> Entries] /\ s.t[n] \in Entries
        BY <1>0, <3>1 DEF Layouts, Tables
      <4>2. [s.t[n] EXCEPT !.bpnum = slot].type = s.t[n].type
        BY <4>1 DEF Entries
      <4> HIDE DEF slot
      <4> QED
        BY <1>0, <3>1, <4>1, <4>2
    <3>5. OK(PlaceCode(s, n))
      <4> HIDE DEF set, slot
      <4>1. s \in Layouts
        BY <3>1
      <4>2. LET u == [s EXCEPT !.t = set, !.free = s.free \ {slot}]
            IN  u.t = set /\ u.room = s.room
        BY <4>1 DEF Layouts
      <4>3. PlaceCode(s, n).t = s.t \/ PlaceCode(s, n).t = set
        BY <3>2, <4>2
      <4>5. \A i \in Live(t) : PlaceCode(s, n).t[i].type = "CODE"
        BY <3>1, <3>4, <4>3
      <4>4. PlaceCode(s, n).room
        BY <3>1, <3>2, <4>2
      <4> QED
        BY <3>3, <4>4, <4>5
    <3> HIDE DEF OK
    <3> QED
      BY <1>0, <3>1, <3>5
  <2>4. \A n \in 0 .. e : n \in S
    <3> HIDE DEF S, e
    <3> QED
      BY <1>0, <2>2, <2>3, UpTo
  <2> HIDE DEF OK
  <2> QED
    BY <1>0, <2>1, <2>4
<1>5. Layout(t) = LayoutCode(t, mid)
  BY DEF Layout, data
<1> QED
  BY <1>4, <1>5

-----------------------------------------------------------------------------
(* The table as it should be.                                              *)

\* The flags of an entry: one that is pending is not in the emulator, one that
\* is to go is, and nothing is in it that is neither on nor about to go.
Flags(e) ==
  /\ e.toadd => ~e.icestatus
  /\ e.toremove => e.icestatus /\ ~e.enabled
  /\ e.enabled => e.icestatus \/ e.toadd
  /\ e.icestatus => e.enabled \/ e.toremove

\* An entry that nobody asks about.
Unused(e) == e.type = "NONE" /\ ~e.enabled /\ ~e.icestatus /\ ~e.toremove

\* What may be asked for.
Kinds == {q.type : q \in Requests}

\* Nobody asks for a mask.
LEMMA KindsFacts ==
  /\ Kinds \subseteq DataTypes \cup {"CODE"}
  /\ "NONE" \notin Kinds
  /\ Kinds \subseteq Types
<1>1. Kinds \subseteq DataTypes \cup {"CODE"}
  BY BreakpointsAssumption DEF Kinds, DataTypes
<1> QED
  BY <1>1 DEF DataTypes, Types

\* No range breakpoints, the flags in order, the entries behind the list unused,
\* and none twice in it.
Sound(t) ==
  /\ t \in Tables
  /\ \A i \in Indices : ~t[i].masked
  /\ \A i \in Indices : i >= End(t) => Unused(t[i])
  /\ \A i \in Live(t) : Flags(t[i]) /\ t[i].type \in Kinds
  /\ \A i, j \in Live(t) : i # j => t[i].address # t[j].address \/ t[i].type # t[j].type

\* No two of these entries share a slot.
Apart(t, S) ==
  /\ \A i \in S : t[i].bpnum = Software => t[i].type = "CODE"
  /\ \A i, j \in S : i # j /\ t[i].bpnum # Software => t[i].bpnum # t[j].bpnum

\* The entries the emulator has, and those that are on.
Held(t) == {i \in Live(t) : t[i].icestatus}
On(t) == {i \in Live(t) : t[i].enabled}

\* What the table says of the emulator, and what is on.
Inst(t) == {[slot |-> t[i].bpnum, type |-> t[i].type, address |-> t[i].address] : i \in Held(t)}
Ons(t) == {<<t[i].address, t[i].type>> : i \in On(t)}

\* What every sound table is.
LEMMA SoundFacts ==
  ASSUME NEW t, Sound(t)
  PROVE  /\ t \in Tables
         /\ Live(t) \subseteq Indices /\ Indices \subseteq Nat
         /\ End(t) \in Indices /\ End(t) \notin Live(t) /\ Unused(t[End(t)])
         /\ \A i \in Indices : i \in Live(t) <=> i < End(t)
         /\ \A i \in Indices : t[i] \in Entries
<1>1. t \in Tables
  BY DEF Sound
<1>2. Live(t) \subseteq Indices /\ Indices \subseteq Nat
      /\ End(t) \in Indices /\ End(t) \notin Live(t)
      /\ \A i \in Indices : i \in Live(t) <=> i < End(t)
  BY <1>1, LiveFacts, EndFacts DEF Indices
<1>3. \A i \in Indices : t[i] \in Entries
  BY <1>1 DEF Tables
<1>4. End(t) >= End(t)
  BY <1>1, EndFacts DEF Indices
<1>5. Unused(t[End(t)])
  BY <1>2, <1>4 DEF Sound
<1> QED
  BY <1>1, <1>2, <1>3, <1>5

\* The layout of a sound table is one, and says the same of the emulator.
LEMMA LaidSound ==
  ASSUME NEW t, Sound(t)
  PROVE  LET u == Layout(t).t IN
         /\ Sound(u)
         /\ End(u) = End(t) /\ Live(u) = Live(t)
         /\ \A i \in Indices : u[i].address = t[i].address /\ u[i].type = t[i].type
         /\ Inst(u) = Inst(t) /\ Ons(u) = Ons(t)
         /\ Apart(t, Held(t)) => Apart(u, Held(u))
         /\ Apart(t, Held(t)) /\ Layout(t).room => Apart(u, On(u))
<1> DEFINE u == Layout(t).t
           P == Pending(t)
<1>1. LayInv(Layout(t), t, P)
  BY LayoutFacts, KindsFacts DEF Sound
<1>2. t \in Tables /\ u \in Tables /\ Slotted(t, u) /\ \A i \in Indices \ P : u[i] = t[i]
  BY <1>1 DEF LayInv, Layouts, Sound
<1>3. Layout(t).room => Placed(t, u, P, FreeSlots(t))
  BY <1>1 DEF LayInv, Placed
<1> HIDE DEF u
<1>4. \A i \in Indices :
        /\ u[i].enabled = t[i].enabled /\ u[i].toadd = t[i].toadd /\ u[i].type = t[i].type
        /\ u[i].masked = t[i].masked /\ u[i].icestatus = t[i].icestatus
        /\ u[i].toremove = t[i].toremove /\ u[i].last = t[i].last
        /\ u[i].address = t[i].address
  BY <1>2, SameFlags
<1>5. End(u) = End(t) /\ Live(u) = Live(t)
  <2>1. End(u) = End(t)
    BY <1>2, <1>4, EndSame
  <2> QED
    BY <2>1 DEF Live
<1>6. Live(t) \subseteq Indices
  BY SoundFacts
<1>7. Sound(u)
  BY <1>2, <1>4, <1>5, <1>6 DEF Sound, Flags, Unused
<1>8. Held(u) = Held(t) /\ On(u) = On(t)
  BY <1>4, <1>5, <1>6 DEF Held, On
<1>9. \A i \in Held(t) : i \in Indices \ P /\ u[i] = t[i]
  BY <1>2, <1>6 DEF Held, Pending, Sound, Flags
<1>10. Inst(u) = Inst(t)
  BY <1>8, <1>9 DEF Inst
<1>11. Ons(u) = Ons(t)
  <2>1. \A i \in On(t) : u[i].address = t[i].address /\ u[i].type = t[i].type
    BY <1>4, <1>6 DEF On
  <2> QED
    BY <1>8, <2>1 DEF Ons
<1>12. Apart(t, Held(t)) => Apart(u, Held(u))
  BY <1>8, <1>9 DEF Apart
<1>13. ASSUME Apart(t, Held(t)), Layout(t).room PROVE Apart(u, On(u))
  <2>1. ASSUME NEW i \in On(t), i \notin P
        PROVE  i \in Held(t) /\ u[i] = t[i] /\ t[i].bpnum \notin FreeSlots(t)
    <3>1. i \in Live(t) /\ t[i].enabled /\ ~t[i].toadd
      BY <2>1 DEF On, Pending
    <3>2. t[i].icestatus /\ ~t[i].toremove
      BY <3>1 DEF Sound, Flags
    <3> QED
      BY <1>9, <3>1, <3>2 DEF Held, FreeSlots, Stable
  <2>2. ASSUME NEW i \in P
        PROVE  /\ u[i].bpnum \in FreeSlots(t) \/ (u[i].bpnum = Software /\ t[i].type = "CODE")
    BY <1>3, <1>13 DEF Placed
  <2>3. Software \notin FreeSlots(t)
    BY DEF FreeSlots, Software, Slots, CodeSlot, FirstData, MaskSlot
  <2>4. ASSUME NEW i \in On(u), u[i].bpnum = Software PROVE u[i].type = "CODE"
    <3>1. i \in Indices
      BY <1>6, <1>8 DEF On
    <3>2. CASE i \in P
      BY <1>4, <2>2, <2>3, <2>4, <3>1, <3>2
    <3>3. CASE i \notin P
      BY <1>8, <1>13, <2>1, <2>4, <3>3 DEF Apart
    <3> QED
      BY <3>2, <3>3
  <2>5. ASSUME NEW i \in On(u), NEW j \in On(u), i # j, u[i].bpnum # Software
        PROVE  u[i].bpnum # u[j].bpnum
    <3>1. CASE i \in P /\ j \in P
      BY <1>3, <1>13, <2>5, <3>1 DEF Placed
    <3>2. CASE i \in P /\ j \notin P
      BY <1>8, <2>1, <2>2, <2>5, <3>2
    <3>3. CASE i \notin P /\ j \in P
      BY <1>8, <2>1, <2>2, <2>5, <3>3
    <3>4. CASE i \notin P /\ j \notin P
      BY <1>8, <1>13, <2>1, <2>5, <3>4 DEF Apart
    <3> QED
      BY <3>1, <3>2, <3>3, <3>4
  <2> QED
    BY <2>4, <2>5 DEF Apart
<1> QED
  BY <1>4, <1>5, <1>7, <1>10, <1>11, <1>12, <1>13 DEF u

-----------------------------------------------------------------------------
(* addBreakpoint without ranges.                                           *)

\* The entry of a request is filled in, and is pending unless the emulator has it.
Filled(u, t, i, a, ty) ==
  /\ u[i].enabled /\ u[i].toadd = ~t[i].icestatus /\ ~u[i].toremove
  /\ u[i].icestatus = t[i].icestatus /\ ~u[i].masked /\ ~u[i].last
  /\ u[i].address = a /\ u[i].type = ty /\ u[i].bpnum = t[i].bpnum

\* The entry is the old one of this breakpoint, or one that is free, and there is
\* none of this breakpoint.
Chosen(t, i, a, ty) ==
  \/ i \in Live(t) /\ t[i].address = a /\ t[i].type = ty
  \/ /\ i \in Live(t) \/ i = End(t)
     /\ ~t[i].enabled /\ ~t[i].icestatus
     /\ \A j \in Live(t) : t[j].address # a \/ t[j].type # ty

\* The list grows by the entry behind it.
Grown(u, t, i) ==
  /\ \A k \in Indices : k # i /\ (k # i + 1 \/ i \in Live(t)) => u[k] = t[k]
  /\ i = End(t) => /\ i + 1 \in Indices /\ u[i + 1].last
                   /\ Unused(u[i + 1]) /\ ~u[i + 1].masked

\* Filling in the entry of a request leaves the table sound and the emulator told
\* the same, and turns on this breakpoint and no other.
LEMMA FilledSound ==
  ASSUME NEW t, Sound(t), NEW u \in Tables, NEW i \in Indices, NEW a,
         NEW ty \in Kinds,
         Chosen(t, i, a, ty), Filled(u, t, i, a, ty), Grown(u, t, i)
  PROVE  /\ Sound(u) /\ Live(u) = Live(t) \cup {i}
         /\ Inst(u) = Inst(t) /\ Ons(u) = Ons(t) \cup {<<a, ty>>}
         /\ Apart(t, Held(t)) => Apart(u, Held(u))
<1>0. /\ t \in Tables /\ Live(t) \subseteq Indices /\ Indices \subseteq Nat
      /\ End(t) \in Indices /\ End(t) \notin Live(t) /\ Unused(t[End(t)])
      /\ \A k \in Indices : k \in Live(t) <=> k < End(t)
      /\ \A k \in Indices : t[k] \in Entries
      /\ \A k \in Indices : u[k] \in Entries
  BY SoundFacts DEF Tables
<1>0a. /\ \A k \in Live(t) : ~t[k].last
       /\ t[End(t)].last
  BY <1>0, EndFacts
<1>0b. \A k \in Indices : k \in Nat
  BY <1>0
<1>0c. End(t) \in Nat /\ \A k \in Live(t) : k \in Nat /\ k < End(t)
  BY <1>0, LiveFacts DEF Live
<1>1. CASE i \in Live(t)
  <2>1. \A k \in Indices : k # i => u[k] = t[k]
    BY <1>1 DEF Grown
  <2>2. i # End(t)
    BY <1>0, <1>1
  <2>3. End(u) = End(t)
    <3>1. \A k \in Indices : u[k].last = t[k].last
      BY <1>0, <1>0a, <1>1, <2>1 DEF Filled, Entries
    <3> QED
      BY <1>0, <3>1, EndSame
  <2>4. Live(u) = Live(t)
    BY <2>3 DEF Live
  <2>5. Live(u) = Live(t) \cup {i}
    BY <1>1, <2>4
  <2>6. \A k \in Indices : k >= End(u) => k # i /\ Unused(t[k])
    BY <1>0b, <1>0c, <1>1, <2>3 DEF Sound
  <2>7. t[i].icestatus => t[i].address = a /\ t[i].type = ty
    BY DEF Chosen
  <2>8. \A j \in Live(t) : j # i => t[j].address # a \/ t[j].type # ty
    BY <1>1 DEF Chosen, Sound
  <2>9. Sound(u)
    <3>1. \A k \in Indices : ~u[k].masked
      BY <2>1 DEF Filled, Sound
    <3>2. \A k \in Indices : k >= End(u) => Unused(u[k])
      BY <2>1, <2>6
    <3>3. \A k \in Live(u) : Flags(u[k]) /\ u[k].type \in Kinds
      <4> SUFFICES ASSUME NEW k \in Live(u)
                   PROVE  Flags(u[k]) /\ u[k].type \in Kinds
        OBVIOUS
      <4>1. CASE k = i
        BY <1>0, <4>1 DEF Filled, Flags, Entries
      <4>2. CASE k # i
        BY <1>0, <2>1, <2>4, <4>2 DEF Sound
      <4> QED
        BY <4>1, <4>2
    <3>4. \A j, k \in Live(u) : j # k => u[j].address # u[k].address \/ u[j].type # u[k].type
      <4> SUFFICES ASSUME NEW j \in Live(u), NEW k \in Live(u), j # k
                   PROVE  u[j].address # u[k].address \/ u[j].type # u[k].type
        OBVIOUS
      <4>1. CASE j = i
        BY <1>0, <2>1, <2>4, <2>8, <4>1 DEF Filled
      <4>2. CASE k = i
        BY <1>0, <2>1, <2>4, <2>8, <4>2 DEF Filled
      <4>3. CASE j # i /\ k # i
        BY <1>0, <2>1, <2>4, <4>3 DEF Sound
      <4> QED
        BY <4>1, <4>2, <4>3
    <3> QED
      BY <3>1, <3>2, <3>3, <3>4 DEF Sound
  <2>10. Held(u) = Held(t) /\ \A k \in Held(t) : /\ u[k].bpnum = t[k].bpnum
                                                /\ u[k].type = t[k].type
                                                /\ u[k].address = t[k].address
    BY <1>0, <2>1, <2>4, <2>7 DEF Held, Filled
  <2>11. On(u) = On(t) \cup {i}
    BY <1>0, <2>1, <2>4, <2>5 DEF On, Filled
  <2>12. Ons(u) = Ons(t) \cup {<<a, ty>>}
    <3>1. \A k \in On(t) : k # i => u[k].address = t[k].address /\ u[k].type = t[k].type
      BY <1>0, <2>1 DEF On
    <3>2. i \in On(t) => t[i].address = a /\ t[i].type = ty
      BY DEF On, Chosen
    <3>3. u[i].address = a /\ u[i].type = ty
      BY DEF Filled
    <3> QED
      BY <2>11, <3>1, <3>2, <3>3 DEF Ons
  <2>13. Inst(u) = Inst(t)
    BY <2>10 DEF Inst
  <2>14. Apart(t, Held(t)) => Apart(u, Held(u))
    BY <2>10 DEF Apart
  <2> QED
    BY <2>5, <2>9, <2>12, <2>13, <2>14
<1>2. CASE i \notin Live(t)
  <2>1. i = End(t) /\ ~t[i].icestatus /\ ~t[i].enabled
    BY <1>2 DEF Chosen
  <2>2. /\ i + 1 \in Indices /\ u[i + 1].last /\ Unused(u[i + 1]) /\ ~u[i + 1].masked
        /\ \A k \in Indices : k # i /\ k # i + 1 => u[k] = t[k]
    BY <2>1 DEF Grown
  <2>2a. /\ i \in Nat
         /\ \A k \in Live(t) : k \in Indices /\ k \in Nat /\ k < i /\ k # i /\ k # i + 1
    <3>1. i \in Nat /\ \A k \in Live(t) : k \in Nat /\ k < i
      BY <1>0c, <2>1
    <3>2. \A k \in Live(t) : k \in Indices
      BY <1>0
    <3> QED
      BY <3>1, <3>2
  <2>2b. \A k \in Live(t) : u[k] = t[k]
    BY <2>2, <2>2a
  <2>3. End(u) = i + 1
    <3>1. \A k \in Indices : k < i + 1 => ~u[k].last
      <4> SUFFICES ASSUME NEW k \in Indices, k < i + 1 PROVE ~u[k].last
        OBVIOUS
      <4>1. CASE k = i
        BY <4>1 DEF Filled
      <4>2. CASE k # i
        <5>1. k \in Live(t)
          BY <1>0, <1>0b, <2>1, <2>2a, <4>2
        <5> QED
          BY <1>0a, <2>2b, <5>1
      <4> QED
        BY <4>1, <4>2
    <3> QED
      BY <2>2, <3>1, EndUnique
  <2>4. Live(u) = Live(t) \cup {i}
    <3>1. Live(u) = 0 .. i /\ Live(t) = 0 .. i - 1
      BY <2>1, <2>2a, <2>3 DEF Live
    <3> QED
      BY <2>2a, <3>1
  <2>5. \A j \in Live(t) : t[j].address # a \/ t[j].type # ty
    BY <1>2 DEF Chosen
  <2>6. Sound(u)
    <3>1. \A k \in Indices : ~u[k].masked
      BY <2>2 DEF Filled, Sound
    <3>2. \A k \in Indices : k >= End(u) => Unused(u[k])
      <4> SUFFICES ASSUME NEW k \in Indices, k >= i + 1 PROVE Unused(u[k])
        BY <2>3
      <4>1. CASE k = i + 1
        BY <2>2, <4>1
      <4>2. CASE k # i + 1
        <5>1. k # i /\ k >= End(t)
          BY <1>0b, <2>1, <2>2a
        <5> QED
          BY <2>2, <4>2, <5>1 DEF Sound
      <4> QED
        BY <4>1, <4>2
    <3>3. \A k \in Live(u) : Flags(u[k]) /\ u[k].type \in Kinds
      <4> SUFFICES ASSUME NEW k \in Live(u)
                   PROVE  Flags(u[k]) /\ u[k].type \in Kinds
        OBVIOUS
      <4>1. CASE k = i
        BY <1>0, <4>1 DEF Filled, Flags, Entries
      <4>2. CASE k # i
        BY <2>2b, <2>4, <4>2 DEF Sound
      <4> QED
        BY <4>1, <4>2
    <3>4. \A j, k \in Live(u) : j # k => u[j].address # u[k].address \/ u[j].type # u[k].type
      <4> SUFFICES ASSUME NEW j \in Live(u), NEW k \in Live(u), j # k
                   PROVE  u[j].address # u[k].address \/ u[j].type # u[k].type
        OBVIOUS
      <4>1. CASE j = i
        BY <2>2b, <2>4, <2>5, <4>1 DEF Filled
      <4>2. CASE k = i
        BY <2>2b, <2>4, <2>5, <4>2 DEF Filled
      <4>3. CASE j # i /\ k # i
        BY <2>2b, <2>4, <4>3 DEF Sound
      <4> QED
        BY <4>1, <4>2, <4>3
    <3> QED
      BY <3>1, <3>2, <3>3, <3>4 DEF Sound
  <2>7. ~u[i].icestatus /\ u[i].enabled
    BY <2>1 DEF Filled
  <2>8. Held(u) = Held(t)
    BY <1>2, <2>2b, <2>4, <2>7 DEF Held
  <2>9. \A k \in Held(t) : u[k] = t[k]
    BY <2>2b DEF Held
  <2>10. On(u) = On(t) \cup {i} /\ \A k \in On(t) : u[k] = t[k]
    BY <2>2b, <2>4, <2>7 DEF On
  <2>11. Ons(u) = Ons(t) \cup {<<a, ty>>}
    BY <2>10 DEF Ons, Filled
  <2>12. Inst(u) = Inst(t)
    BY <2>8, <2>9 DEF Inst
  <2>13. Apart(t, Held(t)) => Apart(u, Held(u))
    BY <2>8, <2>9 DEF Apart
  <2> QED
    BY <2>4, <2>6, <2>11, <2>12, <2>13
<1> QED
  BY <1>1, <1>2

\* The entry that addBreakpoint takes.
LEMMA EntryChosen ==
  ASSUME NEW t, Sound(t), NEW a, NEW ty \in Kinds
  PROVE  LET i == Find(t, a, ty)
             found == IF i \in Live(t) THEN [t EXCEPT ![i] = [@ EXCEPT !.enabled = TRUE]] ELSE t
             k == Entry(found, a, ty)
         IN  /\ found \in Tables
             /\ k = MaxTotal - 1 => found = t
             /\ k # MaxTotal - 1 =>
                  /\ k \in Indices /\ k < MaxTotal - 1 /\ Chosen(t, k, a, ty)
                  /\ \A j \in Indices : j # k => found[j] = t[j]
                  /\ found[k] = t[k] \/ found[k] = [t[k] EXCEPT !.enabled = TRUE]
<1> DEFINE i == Find(t, a, ty)
           e == [t[i] EXCEPT !.enabled = TRUE]
           found == IF i \in Live(t) THEN [t EXCEPT ![i] = e] ELSE t
           k == Entry(found, a, ty)
<1>0. /\ t \in Tables /\ Live(t) \subseteq Indices /\ Indices \subseteq Nat
      /\ End(t) \in Indices /\ End(t) \notin Live(t) /\ Unused(t[End(t)])
      /\ \A j \in Indices : j \in Live(t) <=> j < End(t)
      /\ \A j \in Indices : t[j] \in Entries
  BY SoundFacts
<1>0a. /\ \A j \in Indices : j \in Nat /\ j <= MaxTotal - 1
       /\ MaxTotal \in Nat
  BY Bounds DEF Indices
<1>1. /\ i \in Indices
      /\ \/ i \in Live(t) /\ Matches(t[i], a, ty)
         \/ i = End(t) /\ \A j \in Live(t) : ~Matches(t[j], a, ty)
  BY <1>0, FindFacts
<1>2. \A j \in Indices : ~t[j].masked
  BY DEF Sound
<1> HIDE DEF i
<1>3. CASE i \in Live(t)
  <2>1. Matches(t[i], a, ty) /\ found = [t EXCEPT ![i] = e]
    BY <1>0, <1>1, <1>3
  <2>2. e \in Entries /\ e.last = t[i].last /\ e.address = t[i].address
        /\ e.type = t[i].type /\ e.masked = t[i].masked
    <3>1. t[i] \in Entries
      BY <1>0, <1>1
    <3>2. e \in Entries
      BY <3>1, WriteEntry
    <3>3. e.last = t[i].last /\ e.address = t[i].address
          /\ e.type = t[i].type /\ e.masked = t[i].masked
      BY <3>1 DEF Entries
    <3> QED
      BY <3>2, <3>3
  <2>3. i < MaxTotal - 1
    BY <1>0, <1>3, Bounds DEF Indices
  <2> HIDE DEF e
  <2>4. found \in Tables
    BY <1>0, <1>1, <2>1, <2>2, <2>3, <1>0a, SetEntry
  <2>5. \A j \in Indices : j # i => found[j] = t[j]
    BY <1>0, <2>1 DEF Tables
  <2>6. found[i] = e
    BY <1>0, <1>1, <2>1 DEF Tables
  <2> HIDE DEF found
  <2>7. Live(found) = Live(t)
    <3>1. \A j \in Indices : found[j].last = t[j].last
      BY <2>2, <2>5, <2>6
    <3>2. End(found) = End(t)
      BY <1>0, <2>4, <3>1, EndSame
    <3> QED
      BY <3>2 DEF Live
  <2>8. \A j \in Live(t) : Matches(found[j], a, ty) <=> j = i
    <3> SUFFICES ASSUME NEW j \in Live(t) PROVE Matches(found[j], a, ty) <=> j = i
      OBVIOUS
    <3>1. CASE j = i
      BY <2>1, <2>2, <2>6, <3>1 DEF Matches
    <3>2. CASE j # i
      BY <1>0, <1>3, <2>1, <2>5, <3>2 DEF Matches, Sound
    <3> QED
      BY <3>1, <3>2
  <2>9. Find(found, a, ty) = i
    BY <1>3, <2>4, <2>7, <2>8, FindFacts
  <2>10. k = i
    BY <2>3, <2>9 DEF Entry
  <2> HIDE DEF k
  <2>11. Chosen(t, k, a, ty)
    BY <1>3, <2>1, <2>10 DEF Chosen, Matches
  <2>12. k \in Indices /\ k < MaxTotal - 1 /\ k # MaxTotal - 1
    BY <1>0a, <1>1, <2>3, <2>10
  <2>13. /\ \A j \in Indices : j # k => found[j] = t[j]
         /\ found[k] = [t[k] EXCEPT !.enabled = TRUE]
    BY <2>5, <2>6, <2>10 DEF e
  <2> QED
    BY <2>4, <2>11, <2>12, <2>13 DEF k, found, e, i
<1>4. CASE i \notin Live(t)
  <2>1. i = End(t) /\ \A j \in Live(t) : ~Matches(t[j], a, ty)
    BY <1>1, <1>4
  <2>2. found = t
    BY <1>4
  <2>3. \A j \in Live(t) : t[j].address # a \/ t[j].type # ty
    BY <1>0, <1>2, <2>1 DEF Matches
  <2>4. k = Entry(t, a, ty)
    BY <2>2
  <2>5. k \in Indices /\ (k = i \/ (i = MaxTotal - 1 /\ ~t[k].enabled /\ ~t[k].toremove))
    BY <1>0, <2>4, EntryFacts DEF i
  <2> HIDE DEF k, found
  <2>6. k # MaxTotal - 1 => k < MaxTotal - 1
    BY <1>0a, <2>5
  <2>7. k # MaxTotal - 1 => Chosen(t, k, a, ty)
    <3>1. CASE k = i
      BY <1>0, <2>1, <2>3, <3>1, KindsFacts DEF Chosen, Unused
    <3>2. CASE i = MaxTotal - 1 /\ ~t[k].enabled /\ ~t[k].toremove
      <4> SUFFICES ASSUME k # MaxTotal - 1 PROVE Chosen(t, k, a, ty)
        OBVIOUS
      <4>1. k \in Live(t)
        BY <1>0, <2>1, <2>5, <2>6, <3>2
      <4>2. ~t[k].icestatus
        BY <3>2, <4>1 DEF Sound, Flags
      <4> QED
        BY <2>3, <3>2, <4>1, <4>2 DEF Chosen
    <3> QED
      BY <2>5, <3>1, <3>2
  <2> QED
    BY <1>0, <2>2, <2>5, <2>6, <2>7 DEF k, found, i
<1> QED
  BY <1>3, <1>4

\* The entry and the one behind it, once they are written.
LEMMA ClaimFilled ==
  ASSUME NEW t, Sound(t), NEW f \in Tables, NEW k \in Indices, k < MaxTotal - 1,
         NEW a \in Nat, NEW ty \in Kinds, Chosen(t, k, a, ty),
         \A j \in Indices : j # k => f[j] = t[j],
         f[k] = t[k] \/ f[k] = [t[k] EXCEPT !.enabled = TRUE]
  PROVE  LET w == Claim(f, k, a, ty)
             u == [w EXCEPT ![k] = [@ EXCEPT !.toadd = ~w[k].icestatus, !.toremove = FALSE]]
         IN  /\ w \in Tables /\ u \in Tables
             /\ Filled(u, t, k, a, ty) /\ Grown(u, t, k)
<1> DEFINE x == [f[k + 1] EXCEPT !.last = TRUE, !.enabled = FALSE, !.address = 0,
                                 !.type = "NONE", !.masked = FALSE]
           grown == IF f[k].last THEN [f EXCEPT ![k + 1] = x] ELSE f
           e == [grown[k] EXCEPT !.last = FALSE, !.enabled = TRUE, !.masked = FALSE,
                                 !.address = a, !.type = ty]
           w == Claim(f, k, a, ty)
           d == [w[k] EXCEPT !.toadd = ~w[k].icestatus, !.toremove = FALSE]
           u == [w EXCEPT ![k] = d]
<1>0. /\ t \in Tables /\ Live(t) \subseteq Indices /\ Indices \subseteq Nat
      /\ End(t) \in Indices /\ End(t) \notin Live(t) /\ Unused(t[End(t)])
      /\ \A j \in Indices : j \in Live(t) <=> j < End(t)
      /\ \A j \in Indices : t[j] \in Entries
  BY SoundFacts
<1>1. k + 1 \in Indices /\ k + 1 # k /\ k # MaxTotal - 1 /\ k \in Nat
  BY Bounds DEF Indices
<1>2. \A j \in Indices : f[j] \in Entries
  BY DEF Tables
<1>3. w = [grown EXCEPT ![k] = e]
  BY DEF Claim
<1>4. grown[k] = f[k]
  BY <1>1 DEF Tables
<1>5. \A j \in Indices : j # k /\ j # k + 1 => grown[j] = t[j]
  BY <1>1 DEF Tables
<1>6. grown[k + 1] = IF f[k].last THEN x ELSE t[k + 1]
  BY <1>1 DEF Tables
<1>7. w \in Tables
  <2>1. ty \in Types
    BY KindsFacts
  <2> QED
    BY <2>1, ClaimType
<1>8. grown \in [Indices -> Entries]
  <2>1. x \in Entries
    BY <1>1, <1>2, WriteEntry, Bounds DEF Types
  <2> HIDE DEF x
  <2> QED
    BY <1>1, <2>1 DEF Tables
<1>9. f[k].last = t[k].last /\ f[k].icestatus = t[k].icestatus /\ f[k].bpnum = t[k].bpnum
  <2>1. t[k] \in Entries
    BY <1>0
  <2>2. LET g == [t[k] EXCEPT !.enabled = TRUE]
        IN  g.last = t[k].last /\ g.icestatus = t[k].icestatus /\ g.bpnum = t[k].bpnum
    BY <2>1 DEF Entries
  <2> QED
    BY <2>2
<1>10. /\ e.last = FALSE /\ e.enabled = TRUE /\ e.masked = FALSE /\ e.address = a /\ e.type = ty
       /\ e.icestatus = t[k].icestatus /\ e.bpnum = t[k].bpnum /\ e \in Entries
  <2>1. grown[k] \in Entries
    BY <1>2, <1>4
  <2>2. ty \in Types
    BY KindsFacts
  <2>3. e \in Entries
    <3> HIDE DEF grown
    <3> QED
      BY <2>1, <2>2, WriteEntry
  <2>4. /\ e.last = FALSE /\ e.enabled = TRUE /\ e.masked = FALSE
        /\ e.address = a /\ e.type = ty
        /\ e.icestatus = grown[k].icestatus /\ e.bpnum = grown[k].bpnum
    <3> HIDE DEF grown
    <3> QED
      BY <2>1 DEF Entries
  <2> QED
    BY <1>4, <1>9, <2>3, <2>4
<1>11. k = End(t) => t[k].last
  BY <1>0, EndFacts
<1>11a. k \in Live(t) => ~t[k].last
  BY <1>0, EndFacts
<1>12. x.last = TRUE /\ x.type = "NONE" /\ x.enabled = FALSE /\ x.masked = FALSE
       /\ x.icestatus = f[k + 1].icestatus /\ x.toremove = f[k + 1].toremove
  BY <1>1, <1>2 DEF Entries
<1>13. k = End(t) => ~t[k + 1].icestatus /\ ~t[k + 1].toremove
  <2>1. k = End(t) => k + 1 >= End(t)
    BY <1>1
  <2> QED
    BY <1>1, <2>1 DEF Sound, Unused
<1> HIDE DEF x, grown, e
<1>14. w[k] = e /\ \A j \in Indices : j # k => w[j] = grown[j]
  BY <1>3, <1>8
<1> HIDE DEF w
<1>15. d \in Entries /\ d.toadd = ~e.icestatus /\ d.toremove = FALSE
       /\ d.last = e.last /\ d.enabled = e.enabled /\ d.masked = e.masked
       /\ d.address = e.address /\ d.type = e.type /\ d.icestatus = e.icestatus
       /\ d.bpnum = e.bpnum
  <2> SUFFICES ASSUME NEW b \in BOOLEAN, b = ~w[k].icestatus
               PROVE  LET g == [w[k] EXCEPT !.toadd = b, !.toremove = FALSE]
                      IN  /\ g \in Entries /\ g.toadd = b /\ g.toremove = FALSE
                          /\ g.last = e.last /\ g.enabled = e.enabled /\ g.masked = e.masked
                          /\ g.address = e.address /\ g.type = e.type
                          /\ g.icestatus = e.icestatus /\ g.bpnum = e.bpnum
    BY <1>14
  <2> QED
    BY <1>10, <1>14 DEF Entries
<1> HIDE DEF d
<1>16. u \in Tables
  BY <1>1, <1>7, <1>15, SetEntry
<1>17. u[k] = d /\ \A j \in Indices : j # k => u[j] = w[j]
  BY <1>7 DEF Tables
<1> HIDE DEF u
<1>18. Filled(u, t, k, a, ty)
  BY <1>10, <1>15, <1>17 DEF Filled
<1>19. Grown(u, t, k)
  <2>1. \A j \in Indices : j # k /\ (j # k + 1 \/ k \in Live(t)) => u[j] = t[j]
    <3> SUFFICES ASSUME NEW j \in Indices, j # k, j # k + 1 \/ k \in Live(t) PROVE u[j] = t[j]
      OBVIOUS
    <3>1. u[j] = grown[j]
      BY <1>14, <1>17
    <3>2. CASE j # k + 1
      BY <1>5, <3>1, <3>2
    <3>3. CASE j = k + 1
      BY <1>6, <1>9, <1>11a, <3>1, <3>3
    <3> QED
      BY <3>2, <3>3
  <2>2. k = End(t) => u[k + 1] = x
    BY <1>1, <1>6, <1>9, <1>11, <1>14, <1>17
  <2>3. k = End(t) => f[k + 1].icestatus = t[k + 1].icestatus
                      /\ f[k + 1].toremove = t[k + 1].toremove
    BY <1>1
  <2> QED
    BY <1>1, <1>12, <1>13, <2>1, <2>2, <2>3 DEF Grown, Unused
<1> QED
  BY <1>7, <1>16, <1>18, <1>19 DEF u, d, w

\* What a breakpoint is on as, and no other entry of a sound table is on as it.
IsOn(t, a, ty) == \E i \in On(t) : t[i].address = a /\ t[i].type = ty

\* A request that is accepted and not refused for want of room adds the
\* breakpoint, and leaves all else as it is.
LEMMA AddSound ==
  ASSUME NEW t, Sound(t), NEW a \in Nat, NEW ty \in Kinds, NEW n,
         ~(n > 1 /\ ty # "CODE")
  PROVE  LET r == addBreakpoint(t, a, ty, n) IN
         /\ ~r.ok => r.t = t
         /\ r.ok /\ IsOn(r.t, a, ty) =>
              /\ Sound(r.t) /\ Inst(r.t) = Inst(t) /\ Ons(r.t) = Ons(t) \cup {<<a, ty>>}
              /\ Apart(t, Held(t)) => Apart(r.t, Held(r.t))
<1> DEFINE i == Find(t, a, ty)
           f == IF i \in Live(t) THEN [t EXCEPT ![i] = [@ EXCEPT !.enabled = TRUE]] ELSE t
           k == Entry(f, a, ty)
           r == addBreakpoint(t, a, ty, n)
           w == Claim(f, k, a, ty)
           u == [w EXCEPT ![k] = [@ EXCEPT !.toadd = ~w[k].icestatus, !.toremove = FALSE]]
           laid == Layout(u)
           off == Disable(laid.t, k)
<1>1. r = AddPlain(f, a, ty)
  BY DEF addBreakpoint
<1>2. /\ f \in Tables
      /\ k = MaxTotal - 1 => f = t
      /\ k # MaxTotal - 1 =>
           /\ k \in Indices /\ k < MaxTotal - 1 /\ Chosen(t, k, a, ty)
           /\ \A j \in Indices : j # k => f[j] = t[j]
           /\ f[k] = t[k] \/ f[k] = [t[k] EXCEPT !.enabled = TRUE]
  BY EntryChosen
<1> HIDE DEF f
<1>3. CASE k = MaxTotal - 1
  <2>1. r = [t |-> f, ok |-> FALSE]
    BY <1>1, <1>3 DEF AddPlain
  <2> QED
    BY <1>2, <1>3, <2>1
<1>4. CASE k # MaxTotal - 1
  <2>1. r = [t |-> Finish(w, k), ok |-> TRUE]
    BY <1>1, <1>4 DEF AddPlain
  <2> HIDE DEF k, r
  <2>2. w \in Tables /\ u \in Tables /\ Filled(u, t, k, a, ty) /\ Grown(u, t, k)
    BY <1>2, <1>4, ClaimFilled
  <2>3. Finish(w, k) = IF laid.room THEN laid.t
                       ELSE IF off[k].masked THEN Disable(off, off[k].mask_pointer) ELSE off
    BY DEF Finish
  <2> HIDE DEF w, u
  <2>4. /\ Sound(u) /\ Live(u) = Live(t) \cup {k}
        /\ Inst(u) = Inst(t) /\ Ons(u) = Ons(t) \cup {<<a, ty>>}
        /\ Apart(t, Held(t)) => Apart(u, Held(u))
    BY <1>2, <1>4, <2>2, FilledSound
  <2>5. /\ Sound(laid.t)
        /\ Live(laid.t) = Live(u)
        /\ \A j \in Indices : laid.t[j].address = u[j].address /\ laid.t[j].type = u[j].type
        /\ Inst(laid.t) = Inst(u) /\ Ons(laid.t) = Ons(u)
        /\ Apart(u, Held(u)) => Apart(laid.t, Held(laid.t))
    BY <2>4, LaidSound
  <2> HIDE DEF laid
  <2>6. CASE laid.room
    <3>1. r.ok /\ r.t = laid.t
      BY <2>1, <2>3, <2>6
    <3> QED
      BY <2>4, <2>5, <3>1 DEF r
  <2>7. CASE ~laid.room
    <3>0. k \in Indices /\ laid.t \in [Indices -> Entries] /\ k \in Live(laid.t)
          /\ Live(laid.t) \subseteq Indices
      BY <1>2, <1>4, <2>4, <2>5, SoundFacts DEF Tables
    <3>1. off[k] = [laid.t[k] EXCEPT !.enabled = FALSE, !.toadd = FALSE]
          /\ \A j \in Indices : j # k => off[j] = laid.t[j]
          /\ laid.t[k] \in Entries
      BY <3>0 DEF Disable
    <3>2. ~off[k].masked /\ ~off[k].enabled /\ off[k].last = laid.t[k].last
          /\ off[k].address = laid.t[k].address /\ off[k].type = laid.t[k].type
      <4>1. LET g == [laid.t[k] EXCEPT !.enabled = FALSE, !.toadd = FALSE]
            IN  /\ g.masked = laid.t[k].masked /\ g.enabled = FALSE /\ g.last = laid.t[k].last
                /\ g.address = laid.t[k].address /\ g.type = laid.t[k].type
        BY <3>1 DEF Entries
      <4>2. ~laid.t[k].masked
        BY <2>5, <3>0 DEF Sound
      <4> QED
        BY <3>1, <4>1, <4>2
    <3>3. r.t = off
      BY <2>1, <2>3, <2>7, <3>2
    <3>4. off \in Tables
      BY <2>5, <3>0, DisableType DEF Sound
    <3> HIDE DEF off
    <3>5. Live(off) = Live(laid.t)
      <4>1. \A j \in Indices : off[j].last = laid.t[j].last
        BY <3>1, <3>2
      <4>2. End(off) = End(laid.t)
        BY <2>5, <3>4, <4>1, EndSame DEF Sound
      <4> QED
        BY <4>2 DEF Live
    <3>6. off[k].address = a /\ off[k].type = ty
      BY <2>2, <2>5, <3>0, <3>2 DEF Filled
    <3>7. ~IsOn(off, a, ty)
      <4> SUFFICES ASSUME NEW j \in On(off), off[j].address = a, off[j].type = ty PROVE FALSE
        BY DEF IsOn
      <4>1. j \in Live(laid.t) /\ j # k
        BY <3>2, <3>5 DEF On
      <4>2. off[j] = laid.t[j]
        BY <3>0, <3>1, <4>1
      <4>3. laid.t[j].address # laid.t[k].address \/ laid.t[j].type # laid.t[k].type
        BY <2>5, <3>0, <4>1 DEF Sound
      <4> QED
        BY <3>2, <3>6, <4>2, <4>3
    <3>8. r.ok
      BY <2>1
    <3> QED
      BY <3>3, <3>7, <3>8 DEF r
  <2> QED
    BY <2>6, <2>7
<1> QED
  BY <1>3, <1>4

-----------------------------------------------------------------------------
(* deleteBreakpoint and deleteAllBreakpoints.                              *)

\* The breakpoint is off, and leaves the emulator with the next update.
LEMMA DeleteSound ==
  ASSUME NEW t, Sound(t), NEW a, NEW ty \in Kinds
  PROVE  LET u == deleteBreakpoint(t, a, ty).t IN
         /\ Sound(u) /\ Inst(u) = Inst(t) /\ Ons(u) = Ons(t) \ {<<a, ty>>}
         /\ Apart(t, Held(t)) => Apart(u, Held(u))
<1> DEFINE i == Find(t, a, ty)
           e == [t[i] EXCEPT !.enabled = FALSE, !.toadd = FALSE, !.toremove = t[i].icestatus]
           v == [t EXCEPT ![i] = e]
           u == deleteBreakpoint(t, a, ty).t
<1>0. /\ t \in Tables /\ Live(t) \subseteq Indices
      /\ End(t) \in Indices /\ End(t) \notin Live(t) /\ Unused(t[End(t)])
      /\ \A j \in Indices : t[j] \in Entries
      /\ \A j \in Indices : ~t[j].masked
  BY SoundFacts DEF Sound
<1>1. /\ i \in Indices
      /\ \/ i \in Live(t) /\ Matches(t[i], a, ty)
         \/ i = End(t) /\ \A j \in Live(t) : ~Matches(t[j], a, ty)
  BY <1>0, FindFacts
<1>2. u = IF ~Matches(t[i], a, ty) THEN t ELSE Layout(v).t
  BY DEF deleteBreakpoint
<1> HIDE DEF i
<1>3. CASE i = End(t)
  <2>1. ~Matches(t[i], a, ty)
    BY <1>0, <1>3, KindsFacts DEF Matches, Unused
  <2>2. <<a, ty>> \notin Ons(t)
    BY <1>0, <1>1, <1>3 DEF Ons, On, Matches
  <2> QED
    BY <1>2, <2>1, <2>2
<1>4. CASE i \in Live(t)
  <2>1. Matches(t[i], a, ty)
    BY <1>0, <1>1, <1>4
  <2>2. t[i].address = a /\ t[i].type = ty /\ t[i] \in Entries
    BY <1>0, <1>1, <2>1 DEF Matches
  <2>3. /\ ~e.enabled /\ ~e.toadd /\ e.toremove = t[i].icestatus
        /\ e.icestatus = t[i].icestatus /\ e.address = a /\ e.type = ty
        /\ e.masked = t[i].masked /\ e.last = t[i].last /\ e.bpnum = t[i].bpnum
        /\ e \in Entries
    <3> SUFFICES ASSUME NEW b \in BOOLEAN, b = t[i].icestatus
                 PROVE  LET g == [t[i] EXCEPT !.enabled = FALSE, !.toadd = FALSE, !.toremove = b]
                        IN  /\ ~g.enabled /\ ~g.toadd /\ g.toremove = t[i].icestatus
                            /\ g.icestatus = t[i].icestatus /\ g.address = a /\ g.type = ty
                            /\ g.masked = t[i].masked /\ g.last = t[i].last
                            /\ g.bpnum = t[i].bpnum /\ g \in Entries
      BY <2>2 DEF Entries
    <3> QED
      BY <2>2 DEF Entries
  <2> HIDE DEF e
  <2>4. v[i] = e /\ \A j \in Indices : j # i => v[j] = t[j]
    BY <1>0, <1>1 DEF Tables
  <2>5. v \in Tables
    <3>1. i # MaxTotal - 1
      BY <1>0, <1>4, Bounds, LiveFacts, EndFacts DEF Indices
    <3> QED
      BY <1>0, <1>1, <2>3, <3>1, SetEntry
  <2> HIDE DEF v
  <2>6. End(v) = End(t) /\ Live(v) = Live(t)
    <3>1. \A j \in Indices : v[j].last = t[j].last
      BY <2>3, <2>4
    <3>2. End(v) = End(t)
      BY <1>0, <2>5, <3>1, EndSame
    <3> QED
      BY <3>2 DEF Live
  <2>7. Sound(v)
    <3>1. \A j \in Indices : ~v[j].masked
      BY <1>0, <1>1, <2>3, <2>4
    <3>2. \A j \in Indices : j >= End(v) => Unused(v[j])
      <4>1. ~(i >= End(t))
        BY <1>1, <1>0, <1>4, LiveFacts DEF Indices
      <4> QED
        BY <2>4, <2>6, <4>1 DEF Sound
    <3>3. \A j \in Live(v) : Flags(v[j]) /\ v[j].type \in Kinds
      <4> SUFFICES ASSUME NEW j \in Live(v)
                   PROVE  Flags(v[j]) /\ v[j].type \in Kinds
        OBVIOUS
      <4>1. CASE j = i
        BY <2>3, <2>4, <4>1 DEF Flags
      <4>2. CASE j # i
        BY <1>0, <2>4, <2>6, <4>2 DEF Sound
      <4> QED
        BY <4>1, <4>2
    <3>4. \A j, k \in Live(v) : j # k => v[j].address # v[k].address \/ v[j].type # v[k].type
      <4>1. \A j \in Live(t) : v[j].address = t[j].address /\ v[j].type = t[j].type
        BY <1>0, <2>2, <2>3, <2>4
      <4> QED
        BY <2>6, <4>1 DEF Sound
    <3> QED
      BY <2>5, <3>1, <3>2, <3>3, <3>4 DEF Sound
  <2>8. Held(v) = Held(t) /\ \A j \in Held(t) : /\ v[j].bpnum = t[j].bpnum
                                               /\ v[j].type = t[j].type
                                               /\ v[j].address = t[j].address
    BY <1>0, <2>2, <2>3, <2>4, <2>6 DEF Held
  <2>9. Inst(v) = Inst(t)
    BY <2>8 DEF Inst
  <2>10. Apart(t, Held(t)) => Apart(v, Held(v))
    BY <2>8 DEF Apart
  <2>11. On(v) = On(t) \ {i} /\ \A j \in On(v) : v[j] = t[j]
    BY <1>0, <2>3, <2>4, <2>6 DEF On
  <2>12. Ons(v) = Ons(t) \ {<<a, ty>>}
    <3>1. \A j \in On(t) : j # i => t[j].address # a \/ t[j].type # ty
      BY <1>4, <2>2 DEF On, Sound
    <3> QED
      BY <2>2, <2>11, <3>1 DEF Ons
  <2>13. LET y == Layout(v).t IN
         /\ Sound(y) /\ Inst(y) = Inst(v) /\ Ons(y) = Ons(v)
         /\ Apart(v, Held(v)) => Apart(y, Held(y))
    BY <2>7, LaidSound
  <2> QED
    BY <1>2, <2>1, <2>9, <2>10, <2>12, <2>13
<1> QED
  BY <1>1, <1>3, <1>4

\* All are off, and those in the emulator leave it with the next update.
LEMMA DeleteAllSound ==
  ASSUME NEW t, Sound(t)
  PROVE  LET u == deleteAllBreakpoints(t) IN
         /\ Sound(u) /\ Inst(u) = Inst(t) /\ Ons(u) = {}
         /\ Apart(t, Held(t)) => Apart(u, Held(u))
<1> DEFINE u == deleteAllBreakpoints(t)
<1>0. /\ t \in Tables /\ Live(t) \subseteq Indices
      /\ End(t) \in Indices /\ End(t) \notin Live(t)
      /\ \A j \in Indices : j \in Live(t) <=> j < End(t)
      /\ \A j \in Indices : t[j] \in Entries
  BY SoundFacts
<1>1. u \in Tables
  BY <1>0, DeleteAllType
<1>2. \A i \in Indices : i \notin Live(t) => u[i] = t[i]
  BY DEF deleteAllBreakpoints
<1>3. ASSUME NEW i \in Live(t)
      PROVE  /\ ~u[i].enabled /\ u[i].toadd = t[i].toadd /\ u[i].icestatus = t[i].icestatus
             /\ u[i].toremove = (t[i].toremove \/ (t[i].enabled /\ t[i].icestatus))
             /\ u[i].address = t[i].address /\ u[i].type = t[i].type
             /\ u[i].masked = t[i].masked /\ u[i].last = t[i].last /\ u[i].bpnum = t[i].bpnum
  <2> DEFINE b == t[i].toremove \/ (t[i].enabled /\ t[i].icestatus)
  <2>1. u[i] = [t[i] EXCEPT !.enabled = FALSE, !.toremove = b]
    BY <1>0 DEF deleteAllBreakpoints
  <2>2. b \in BOOLEAN /\ t[i] \in Entries
    BY <1>0 DEF Entries
  <2>3. b = (t[i].toremove \/ (t[i].enabled /\ t[i].icestatus))
    OBVIOUS
  <2> HIDE DEF b, u
  <2>4. /\ ~u[i].enabled /\ u[i].toremove = b
        /\ u[i].toadd = t[i].toadd /\ u[i].icestatus = t[i].icestatus
        /\ u[i].address = t[i].address /\ u[i].type = t[i].type
        /\ u[i].masked = t[i].masked /\ u[i].last = t[i].last /\ u[i].bpnum = t[i].bpnum
    BY <2>1, <2>2 DEF Entries
  <2> QED
    BY <2>3, <2>4
<1> HIDE DEF u
<1>4. End(u) = End(t) /\ Live(u) = Live(t)
  <2>1. \A j \in Indices : u[j].last = t[j].last
    BY <1>2, <1>3
  <2>2. End(u) = End(t)
    BY <1>0, <1>1, <2>1, EndSame
  <2> QED
    BY <2>2 DEF Live
<1>5. Sound(u)
  <2>1. \A j \in Indices : ~u[j].masked
    BY <1>2, <1>3 DEF Sound
  <2>2. \A j \in Indices : j >= End(u) => Unused(u[j])
    <3>1. \A j \in Indices : j >= End(t) => j \notin Live(t)
      BY <1>0, LiveFacts DEF Indices
    <3> QED
      BY <1>2, <1>4, <3>1 DEF Sound
  <2>3. \A j \in Live(u) : Flags(u[j]) /\ u[j].type \in Kinds
    <3> SUFFICES ASSUME NEW j \in Live(t)
                 PROVE  Flags(u[j]) /\ u[j].type \in Kinds
      BY <1>4
    <3>1. Flags(t[j]) /\ t[j].type \in Kinds
      BY DEF Sound
    <3> QED
      BY <1>3, <3>1 DEF Flags
  <2>4. \A j, k \in Live(u) : j # k => u[j].address # u[k].address \/ u[j].type # u[k].type
    BY <1>3, <1>4 DEF Sound
  <2> QED
    BY <1>1, <2>1, <2>2, <2>3, <2>4 DEF Sound
<1>6. Held(u) = Held(t) /\ \A j \in Held(t) : /\ u[j].bpnum = t[j].bpnum
                                             /\ u[j].type = t[j].type
                                             /\ u[j].address = t[j].address
  BY <1>3, <1>4 DEF Held
<1>7. Inst(u) = Inst(t)
  BY <1>6 DEF Inst
<1>8. Apart(t, Held(t)) => Apart(u, Held(u))
  BY <1>6 DEF Apart
<1>9. Ons(u) = {}
  BY <1>3, <1>4 DEF On, Ons
<1> QED
  BY <1>5, <1>7, <1>8, <1>9 DEF u

-----------------------------------------------------------------------------
(* The commands of an update.                                              *)

\* Writing the flags of one entry that is in use.
Reflagged(t, u, k) ==
  /\ \A j \in Indices : j # k => u[j] = t[j]
  /\ u[k].enabled = t[k].enabled /\ u[k].address = t[k].address /\ u[k].type = t[k].type
  /\ u[k].masked = t[k].masked /\ u[k].last = t[k].last /\ u[k].bpnum = t[k].bpnum

\* What CMND_CLR_BREAK and CMND_SET_BREAK do to the emulator.
Removed(S, e) == {b \in S : b.slot # e.bpnum \/ (b.slot = Software /\ b.address # e.address)}
Added(S, e) == {b \in S : b.slot # e.bpnum \/ b.slot = Software}
                 \cup {[slot |-> e.bpnum, type |-> e.type, address |-> e.address]}

\* What the answers do to the table.
TakenOut(t, u, k) == u = [t EXCEPT ![k] = [@ EXCEPT !.icestatus = FALSE, !.toremove = FALSE]]
PutIn(t, u, k) == u = [t EXCEPT ![k] = [@ EXCEPT !.icestatus = TRUE, !.toadd = FALSE]]

\* A turn of an update loop changes the flags of one entry.
LEMMA ReflaggedSound ==
  ASSUME NEW t, Sound(t), NEW u \in Tables, NEW k \in Live(t), Reflagged(t, u, k), Flags(u[k])
  PROVE  /\ Sound(u) /\ End(u) = End(t) /\ Live(u) = Live(t) /\ On(u) = On(t)
         /\ Ons(u) = Ons(t)
         /\ \A j \in Indices : /\ u[j].bpnum = t[j].bpnum /\ u[j].type = t[j].type
                               /\ u[j].address = t[j].address
         /\ \A S \in SUBSET Indices : Apart(t, S) => Apart(u, S)
<1>0. /\ t \in Tables /\ Live(t) \subseteq Indices /\ Indices \subseteq Nat
      /\ End(t) \in Indices /\ End(t) \notin Live(t)
      /\ \A i \in Indices : i \in Live(t) <=> i < End(t)
  BY SoundFacts
<1>1. \A j \in Indices : /\ u[j].bpnum = t[j].bpnum /\ u[j].type = t[j].type
                         /\ u[j].address = t[j].address /\ u[j].enabled = t[j].enabled
                         /\ u[j].masked = t[j].masked /\ u[j].last = t[j].last
  BY DEF Reflagged
<1>2. End(u) = End(t) /\ Live(u) = Live(t)
  <2>1. End(u) = End(t)
    BY <1>0, <1>1, EndSame
  <2> QED
    BY <2>1 DEF Live
<1>3. Sound(u)
  <2>1. \A j \in Indices : j >= End(u) => Unused(u[j])
    <3>1. \A j \in Indices : j >= End(t) => j \notin Live(t)
      BY <1>0, LiveFacts DEF Indices
    <3> QED
      BY <1>2, <3>1 DEF Sound, Reflagged
  <2>2. \A j \in Live(u) : Flags(u[j]) /\ u[j].type \in Kinds
    <3> SUFFICES ASSUME NEW j \in Live(t)
                 PROVE  Flags(u[j]) /\ u[j].type \in Kinds
      BY <1>2
    <3>1. j \in Indices /\ t[j].type \in Kinds /\ Flags(t[j])
      BY <1>0 DEF Sound
    <3>2. j # k => u[j] = t[j]
      BY <3>1 DEF Reflagged
    <3> QED
      BY <1>1, <3>1, <3>2
  <2>3. \A i, j \in Live(u) : i # j => u[i].address # u[j].address \/ u[i].type # u[j].type
    <3>1. \A i \in Live(t) : u[i].address = t[i].address /\ u[i].type = t[i].type
      BY <1>0, <1>1
    <3> QED
      BY <1>2, <3>1 DEF Sound
  <2>4. \A j \in Indices : ~u[j].masked
    BY <1>1 DEF Sound
  <2> QED
    BY <2>1, <2>2, <2>3, <2>4 DEF Sound
<1>4. On(u) = On(t)
  BY <1>0, <1>1, <1>2 DEF On
<1>5. Ons(u) = Ons(t)
  <2>1. \A i \in On(t) : i \in Indices
    BY <1>0 DEF On
  <2> QED
    BY <1>1, <1>4, <2>1 DEF Ons
<1>6. \A S \in SUBSET Indices : Apart(t, S) => Apart(u, S)
  BY <1>1 DEF Apart
<1> QED
  BY <1>1, <1>2, <1>3, <1>4, <1>5, <1>6

\* A breakpoint that is to go is taken out, and no other.
LEMMA Cleared ==
  ASSUME NEW t, Sound(t), Apart(t, Held(t)), NEW k \in Live(t), t[k].toremove,
         NEW u, TakenOut(t, u, k)
  PROVE  /\ Sound(u) /\ End(u) = End(t) /\ Live(u) = Live(t) /\ On(u) = On(t)
         /\ Ons(u) = Ons(t)
         /\ \A S \in SUBSET Indices : Apart(t, S) => Apart(u, S)
         /\ Apart(u, Held(u))
         /\ Inst(u) = Removed(Inst(t), t[k])
         /\ \A j \in Indices : j # k => u[j] = t[j]
         /\ ~u[k].toremove /\ u[k].toadd = t[k].toadd
<1> DEFINE e == [t[k] EXCEPT !.icestatus = FALSE, !.toremove = FALSE]
<1>0. /\ t \in Tables /\ Live(t) \subseteq Indices /\ End(t) \notin Live(t)
      /\ k \in Indices /\ t[k] \in Entries
  BY SoundFacts
<1>1. t[k].icestatus /\ ~t[k].enabled /\ ~t[k].toadd
  BY DEF Sound, Flags
<1>2. /\ ~e.icestatus /\ ~e.toremove /\ e.toadd = t[k].toadd
      /\ e.enabled = t[k].enabled /\ e.address = t[k].address /\ e.type = t[k].type
      /\ e.masked = t[k].masked /\ e.last = t[k].last /\ e.bpnum = t[k].bpnum /\ e \in Entries
  BY <1>0 DEF Entries
<1> HIDE DEF e
<1>3. u[k] = e /\ \A j \in Indices : j # k => u[j] = t[j]
  BY <1>0 DEF Tables, TakenOut, e
<1>4. u \in Tables
  <2>1. k # MaxTotal - 1
    BY <1>0, LiveFacts, EndFacts, Bounds DEF Indices
  <2>2. u = [t EXCEPT ![k] = e]
    BY DEF TakenOut, e
  <2> QED
    BY <1>0, <1>2, <2>1, <2>2, SetEntry
<1>5. Reflagged(t, u, k) /\ Flags(u[k])
  BY <1>1, <1>2, <1>3 DEF Reflagged, Flags
<1>6. /\ Sound(u) /\ End(u) = End(t) /\ Live(u) = Live(t) /\ On(u) = On(t)
      /\ Ons(u) = Ons(t)
      /\ \A j \in Indices : /\ u[j].bpnum = t[j].bpnum /\ u[j].type = t[j].type
                            /\ u[j].address = t[j].address
      /\ \A S \in SUBSET Indices : Apart(t, S) => Apart(u, S)
  BY <1>4, <1>5, ReflaggedSound
<1>7. Held(u) = Held(t) \ {k} /\ k \in Held(t) /\ Held(t) \subseteq Indices
  BY <1>0, <1>1, <1>2, <1>3, <1>6 DEF Held
<1>8. Apart(u, Held(u))
  <2>1. Apart(u, Held(t))
    BY <1>6, <1>7
  <2> QED
    BY <1>7, <2>1 DEF Apart
<1>9. ASSUME NEW j \in Held(t), j # k
      PROVE  t[j].bpnum # t[k].bpnum \/ (t[j].bpnum = Software /\ t[j].address # t[k].address)
  <2>1. CASE t[j].bpnum # Software
    BY <1>7, <1>9, <2>1 DEF Apart
  <2>2. CASE t[j].bpnum = Software /\ t[k].bpnum = Software
    <3>1. t[j].type = "CODE" /\ t[k].type = "CODE"
      BY <1>7, <2>2 DEF Apart
    <3>2. t[j].address # t[k].address
      BY <1>9, <3>1 DEF Held, Sound
    <3> QED
      BY <2>2, <3>2
  <2>3. CASE t[j].bpnum = Software /\ t[k].bpnum # Software
    BY <2>3
  <2> QED
    BY <2>1, <2>2, <2>3
<1> DEFINE I(i) == [slot |-> t[i].bpnum, type |-> t[i].type, address |-> t[i].address]
           Stays(b) == b.slot # t[k].bpnum \/ (b.slot = Software /\ b.address # t[k].address)
<1>10. Inst(t) = {I(i) : i \in Held(t)}
  BY DEF Inst
<1>11. Inst(u) = {I(i) : i \in Held(t) \ {k}}
  BY <1>6, <1>7 DEF Inst
<1>12. ~Stays(I(k)) /\ \A j \in Held(t) : j # k => Stays(I(j))
  BY <1>9
<1>13. Inst(u) = {b \in Inst(t) : Stays(b)}
  <2> HIDE DEF I, Stays
  <2> QED
    BY <1>10, <1>11, <1>12
<1>14. Inst(u) = Removed(Inst(t), t[k])
  BY <1>13 DEF Removed
<1> QED
  BY <1>2, <1>3, <1>6, <1>8, <1>14

\* A pending breakpoint is put in, and replaces none.
LEMMA Put ==
  ASSUME NEW t, Sound(t), Apart(t, On(t)), \A i \in Live(t) : ~t[i].toremove,
         NEW k \in Live(t), t[k].toadd, t[k].enabled,
         NEW u, PutIn(t, u, k)
  PROVE  /\ Sound(u) /\ End(u) = End(t) /\ Live(u) = Live(t) /\ On(u) = On(t)
         /\ Ons(u) = Ons(t)
         /\ Apart(u, On(u)) /\ Apart(u, Held(u))
         /\ Inst(u) = Added(Inst(t), t[k])
         /\ \A j \in Indices : j # k => u[j] = t[j]
         /\ ~u[k].toremove /\ ~u[k].toadd
<1> DEFINE e == [t[k] EXCEPT !.icestatus = TRUE, !.toadd = FALSE]
<1>0. /\ t \in Tables /\ Live(t) \subseteq Indices /\ End(t) \notin Live(t)
      /\ k \in Indices /\ t[k] \in Entries
  BY SoundFacts
<1>2. /\ e.icestatus /\ ~e.toadd /\ e.toremove = t[k].toremove
      /\ e.enabled = t[k].enabled /\ e.address = t[k].address /\ e.type = t[k].type
      /\ e.masked = t[k].masked /\ e.last = t[k].last /\ e.bpnum = t[k].bpnum /\ e \in Entries
  BY <1>0 DEF Entries
<1> HIDE DEF e
<1>3. u[k] = e /\ \A j \in Indices : j # k => u[j] = t[j]
  BY <1>0 DEF Tables, PutIn, e
<1>4. u \in Tables
  <2>1. k # MaxTotal - 1
    BY <1>0, LiveFacts, EndFacts, Bounds DEF Indices
  <2>2. u = [t EXCEPT ![k] = e]
    BY DEF PutIn, e
  <2> QED
    BY <1>0, <1>2, <2>1, <2>2, SetEntry
<1>5. Reflagged(t, u, k) /\ Flags(u[k])
  BY <1>2, <1>3 DEF Reflagged, Flags
<1>6. /\ Sound(u) /\ End(u) = End(t) /\ Live(u) = Live(t) /\ On(u) = On(t)
      /\ Ons(u) = Ons(t)
      /\ \A j \in Indices : /\ u[j].bpnum = t[j].bpnum /\ u[j].type = t[j].type
                            /\ u[j].address = t[j].address
      /\ \A S \in SUBSET Indices : Apart(t, S) => Apart(u, S)
  BY <1>4, <1>5, ReflaggedSound
<1>7. Held(u) = Held(t) \cup {k} /\ On(t) \subseteq Indices /\ k \in On(t)
  BY <1>0, <1>2, <1>3, <1>6 DEF Held, On
<1>8. Held(t) \subseteq On(t) /\ k \notin Held(t)
  BY DEF Held, On, Sound, Flags
<1>9. Apart(u, On(u)) /\ Apart(u, Held(u))
  <2>1. Apart(u, On(u))
    BY <1>6, <1>7
  <2>2. Held(u) \subseteq On(u)
    BY <1>6, <1>7, <1>8
  <2> QED
    BY <2>1, <2>2 DEF Apart
<1> DEFINE I(i) == [slot |-> t[i].bpnum, type |-> t[i].type, address |-> t[i].address]
           Stays(b) == b.slot # t[k].bpnum \/ b.slot = Software
<1>10. Inst(t) = {I(i) : i \in Held(t)}
  BY DEF Inst
<1>11. Inst(u) = {I(i) : i \in Held(t) \cup {k}}
  <2>1. \A i \in Held(t) \cup {k} : i \in Indices
    BY <1>7, <1>8
  <2> QED
    BY <1>6, <1>7, <2>1 DEF Inst
<1>12. \A j \in Held(t) : Stays(I(j))
  BY <1>7, <1>8 DEF Apart
<1>13. Inst(u) = {b \in Inst(t) : Stays(b)} \cup {I(k)}
  <2> HIDE DEF I, Stays
  <2> QED
    BY <1>10, <1>11, <1>12
<1>14. Inst(u) = Added(Inst(t), t[k])
  BY <1>13 DEF Added
<1> QED
  BY <1>2, <1>3, <1>6, <1>9, <1>14

-----------------------------------------------------------------------------
(* The driver.                                                             *)

\* What is on is what was asked for.
Asked == Ons(bp) = {<<q.address, q.type>> : q \in wanted}

\* An update has dealt with the entries before its loop, and its slots are final.
Planned ==
  /\ pc \in {"clear", "set", "run"} => Apart(bp, On(bp))
  /\ pc \in {"clear", "set"} => at \in Nat /\ at <= End(bp)
  /\ pc = "clear" => \A i \in Live(bp) : i < at => ~bp[i].toremove
  /\ pc \in {"set", "run"} => \A i \in Live(bp) : ~bp[i].toremove
  /\ pc = "set" => \A i \in Live(bp) : i < at => ~(bp[i].toadd /\ bp[i].enabled)
  /\ pc = "run" => \A i \in Live(bp) : ~(bp[i].toadd /\ bp[i].enabled)

\* The table is sound, no slot is held twice, the emulator holds what the table says,
\* the debugger is told the truth, and the update has dealt with what is behind it.
TableInv ==
  /\ Sound(bp)
  /\ Apart(bp, Held(bp))
  /\ ice = Inst(bp)
  /\ Asked
  /\ Planned

\* No request is for a range.
PlainRequests == \A q \in Requests : ~(q.length > 1 /\ q.type # "CODE")

\* What is accepted is on, and an update has room for all that is on: the layout
\* has not failed.
Granted ==
  /\ \A q \in Requests :
       Add(q) /\ addBreakpoint(bp, q.address, q.type, q.length).ok => IsOn(bp', q.address, q.type)
  /\ Update => Layout(bp).room

\* While no update is under way nothing is asked of one.
LEMMA IdlePlanned ==
  ASSUME pc' = "idle"
  PROVE  Planned'
  BY DEF Planned

\* addBreakpoint keeps the invariant, while the layout does not fail.
LEMMA AddKeeps ==
  ASSUME PlainRequests, TableInv, Granted, NEW q \in Requests, Add(q)
  PROVE  TableInv'
<1> DEFINE r == addBreakpoint(bp, q.address, q.type, q.length)
<1>1. /\ q.address \in Nat /\ q.type \in Kinds
      /\ ~(q.length > 1 /\ q.type # "CODE")
  BY BreakpointsAssumption DEF PlainRequests, Kinds
<1>2. /\ ~r.ok => r.t = bp
      /\ r.ok /\ IsOn(r.t, q.address, q.type) =>
           /\ Sound(r.t) /\ Inst(r.t) = Inst(bp)
           /\ Ons(r.t) = Ons(bp) \cup {<<q.address, q.type>>}
           /\ Apart(bp, Held(bp)) => Apart(r.t, Held(r.t))
  BY <1>1, AddSound DEF TableInv
<1>3. r.ok => IsOn(r.t, q.address, q.type)
  BY DEF Granted, Add
<1>4. /\ pc' = "idle" /\ bp' = r.t /\ ice' = ice
      /\ wanted' = IF r.ok THEN {p \in wanted : ~Same(p, q)} \cup {q} ELSE wanted
  BY DEF Add
<1> HIDE DEF r
<1>5. CASE r.ok
  <2>1. Asked'
    BY <1>2, <1>3, <1>4, <1>5 DEF TableInv, Asked, Same
  <2> QED
    BY <1>2, <1>3, <1>4, <1>5, <2>1, IdlePlanned DEF TableInv
<1>6. CASE ~r.ok
  <2>1. bp' = bp /\ wanted' = wanted
    BY <1>2, <1>4, <1>6
  <2> QED
    BY <1>4, <2>1, IdlePlanned DEF TableInv, Asked
<1> QED
  BY <1>5, <1>6

\* deleteBreakpoint keeps it.
LEMMA DeleteKeeps ==
  ASSUME TableInv, NEW q \in Requests, Delete(q)
  PROVE  TableInv'
<1> DEFINE u == deleteBreakpoint(bp, q.address, q.type).t
<1>1. q.type \in Kinds
  BY DEF Kinds
<1>2. /\ Sound(u) /\ Inst(u) = Inst(bp) /\ Ons(u) = Ons(bp) \ {<<q.address, q.type>>}
      /\ Apart(bp, Held(bp)) => Apart(u, Held(u))
  BY <1>1, DeleteSound DEF TableInv
<1>3. /\ pc' = "idle" /\ bp' = u /\ ice' = ice /\ wanted' = {p \in wanted : ~Same(p, q)}
  BY DEF Delete
<1> HIDE DEF u
<1>4. Asked'
  BY <1>2, <1>3 DEF TableInv, Asked, Same
<1> QED
  BY <1>2, <1>3, <1>4, IdlePlanned DEF TableInv

\* deleteAllBreakpoints keeps it.
LEMMA DeleteAllKeeps ==
  ASSUME TableInv, DeleteAll
  PROVE  TableInv'
<1> DEFINE u == deleteAllBreakpoints(bp)
<1>1. /\ Sound(u) /\ Inst(u) = Inst(bp) /\ Ons(u) = {}
      /\ Apart(bp, Held(bp)) => Apart(u, Held(u))
  BY DeleteAllSound DEF TableInv
<1>2. pc' = "idle" /\ bp' = u /\ ice' = ice /\ wanted' = {}
  BY DEF DeleteAll
<1> HIDE DEF u
<1>3. Asked'
  BY <1>1, <1>2 DEF Asked
<1> QED
  BY <1>1, <1>2, <1>3, IdlePlanned DEF TableInv

\* The layout at the start of an update keeps it, and has a slot for all that is on.
LEMMA UpdateKeeps ==
  ASSUME TableInv, Granted, Update
  PROVE  TableInv'
<1> DEFINE u == Layout(bp).t
<1>1. /\ Sound(u)
      /\ End(u) = End(bp) /\ Live(u) = Live(bp)
      /\ Inst(u) = Inst(bp) /\ Ons(u) = Ons(bp)
      /\ Apart(bp, Held(bp)) => Apart(u, Held(u))
      /\ Apart(bp, Held(bp)) /\ Layout(bp).room => Apart(u, On(u))
  BY LaidSound DEF TableInv
<1>2. Layout(bp).room
  BY DEF Granted
<1>3. bp' = u /\ pc' = "clear" /\ at' = 0 /\ ice' = ice /\ wanted' = wanted
  BY DEF Update
<1>4. End(u) \in Nat /\ \A i \in Live(u) : ~(i < 0)
  <2>1. u \in Tables /\ Live(u) \subseteq Indices
    BY <1>1, SoundFacts
  <2> HIDE DEF u
  <2> QED
    BY <2>1, LiveFacts DEF Indices
<1> HIDE DEF u
<1>5. Planned'
  BY <1>1, <1>2, <1>3, <1>4 DEF Planned, TableInv
<1>6. Asked'
  BY <1>1, <1>3 DEF Asked, TableInv
<1> QED
  BY <1>1, <1>3, <1>5, <1>6 DEF TableInv

\* The loop that takes breakpoints out of the emulator keeps it.
LEMMA ClearKeeps ==
  ASSUME TableInv, ClearStep
  PROVE  TableInv'
<1>0. /\ pc = "clear" /\ at \in Nat /\ at <= End(bp) /\ Apart(bp, On(bp))
      /\ \A i \in Live(bp) : i < at => ~bp[i].toremove
      /\ wanted' = wanted
  BY DEF TableInv, Planned, ClearStep
<1>1. /\ Sound(bp) /\ bp \in Tables /\ End(bp) \in Nat /\ Live(bp) \subseteq Nat
      /\ \A i \in Live(bp) : i < End(bp)
      /\ at # End(bp) => at \in Live(bp)
      /\ Live(bp) \subseteq Indices /\ On(bp) \subseteq Indices
  <2>1. Sound(bp) /\ bp \in Tables
    BY SoundFacts DEF TableInv
  <2> QED
    BY <1>0, <2>1, LiveFacts DEF Live, On
<1>2. CASE at = End(bp)
  <2>1. bp' = bp /\ ice' = ice /\ pc' = "set" /\ at' = 0
    BY <1>2 DEF ClearStep
  <2>2. \A i \in Live(bp) : ~bp[i].toremove /\ ~(i < 0)
    BY <1>0, <1>1, <1>2
  <2>3. Planned'
    BY <1>0, <1>1, <2>1, <2>2 DEF Planned
  <2> QED
    BY <1>0, <2>1, <2>3 DEF TableInv, Asked
<1>3. CASE at # End(bp)
  <2>0. at \in Live(bp) /\ pc' = "clear" /\ at' = at + 1 /\ at + 1 <= End(bp)
    BY <1>0, <1>1, <1>3 DEF ClearStep
  <2>1. CASE ~bp[at].toremove
    <3>1. bp' = bp /\ ice' = ice
      BY <1>3, <2>1 DEF ClearStep
    <3>2. \A i \in Live(bp) : i < at + 1 => ~bp[i].toremove
      BY <1>0, <1>1, <2>1
    <3>3. Planned'
      BY <1>0, <2>0, <3>1, <3>2 DEF Planned
    <3> QED
      BY <1>0, <3>1, <3>3 DEF TableInv, Asked
  <2>2. CASE bp[at].toremove
    <3>1. /\ bp' = [bp EXCEPT ![at] = [@ EXCEPT !.icestatus = FALSE, !.toremove = FALSE]]
          /\ ice' = Removed(ice, bp[at])
      BY <1>3, <2>2 DEF ClearStep, Removed
    <3>2. /\ Sound(bp') /\ End(bp') = End(bp) /\ Live(bp') = Live(bp) /\ On(bp') = On(bp)
          /\ Ons(bp') = Ons(bp)
          /\ \A S \in SUBSET Indices : Apart(bp, S) => Apart(bp', S)
          /\ Apart(bp', Held(bp'))
          /\ Inst(bp') = Removed(Inst(bp), bp[at])
          /\ \A j \in Indices : j # at => bp'[j] = bp[j]
          /\ ~bp'[at].toremove
      <4>1. Sound(bp) /\ Apart(bp, Held(bp))
        BY DEF TableInv
      <4> DEFINE u == [bp EXCEPT ![at] = [@ EXCEPT !.icestatus = FALSE, !.toremove = FALSE]]
      <4>0. TakenOut(bp, u, at)
        BY DEF TakenOut
      <4>3. bp' = u
        BY <3>1
      <4> HIDE DEF u
      <4>2. /\ Sound(u) /\ End(u) = End(bp) /\ Live(u) = Live(bp) /\ On(u) = On(bp)
            /\ Ons(u) = Ons(bp)
            /\ \A S \in SUBSET Indices : Apart(bp, S) => Apart(u, S)
            /\ Apart(u, Held(u))
            /\ Inst(u) = Removed(Inst(bp), bp[at])
            /\ \A j \in Indices : j # at => u[j] = bp[j]
            /\ ~u[at].toremove
        BY <2>0, <2>2, <4>1, <4>0, Cleared
      <4> QED
        BY <4>2, <4>3
    <3>3. ice' = Inst(bp')
      BY <3>1, <3>2 DEF TableInv
    <3>4. \A i \in Live(bp') : i < at + 1 => ~bp'[i].toremove
      <4> SUFFICES ASSUME NEW i \in Live(bp), i < at + 1 PROVE ~bp'[i].toremove
        BY <3>2
      <4>1. CASE i = at
        BY <3>2, <4>1
      <4>2. CASE i # at
        <5>1. i \in Indices /\ i < at
          BY <1>0, <1>1, <4>2
        <5> QED
          BY <1>0, <3>2, <4>2, <5>1
      <4> QED
        BY <4>1, <4>2
    <3>5. Apart(bp', On(bp'))
      BY <1>0, <1>1, <3>2
    <3>6. Planned'
      BY <1>0, <2>0, <3>2, <3>4, <3>5 DEF Planned
    <3>7. Asked'
      BY <1>0, <3>2 DEF Asked, TableInv
    <3> QED
      BY <3>2, <3>3, <3>6, <3>7 DEF TableInv
  <2> QED
    BY <2>1, <2>2
<1> QED
  BY <1>2, <1>3

\* The loop that puts them in keeps it: it overwrites no slot that is held.
LEMMA SetKeeps ==
  ASSUME TableInv, SetStep
  PROVE  TableInv'
<1>0. /\ pc = "set" /\ at \in Nat /\ at <= End(bp) /\ Apart(bp, On(bp))
      /\ \A i \in Live(bp) : ~bp[i].toremove
      /\ \A i \in Live(bp) : i < at => ~(bp[i].toadd /\ bp[i].enabled)
      /\ wanted' = wanted
  BY DEF TableInv, Planned, SetStep
<1>1. /\ Sound(bp) /\ bp \in Tables /\ End(bp) \in Nat /\ Live(bp) \subseteq Nat
      /\ \A i \in Live(bp) : i < End(bp)
      /\ at # End(bp) => at \in Live(bp)
      /\ Live(bp) \subseteq Indices
  <2>1. Sound(bp) /\ bp \in Tables
    BY SoundFacts DEF TableInv
  <2> QED
    BY <1>0, <2>1, LiveFacts DEF Live
<1>2. CASE at = End(bp)
  <2>1. bp' = bp /\ ice' = ice /\ pc' = "run" /\ at' = 0
    BY <1>2 DEF SetStep
  <2>2. \A i \in Live(bp) : ~(bp[i].toadd /\ bp[i].enabled)
    BY <1>0, <1>1, <1>2
  <2>3. Planned'
    BY <1>0, <1>1, <2>1, <2>2 DEF Planned
  <2> QED
    BY <1>0, <2>1, <2>3 DEF TableInv, Asked
<1>3. CASE at # End(bp)
  <2>0. at \in Live(bp) /\ pc' = "set" /\ at' = at + 1 /\ at + 1 <= End(bp)
    BY <1>0, <1>1, <1>3 DEF SetStep
  <2>1. CASE ~(bp[at].toadd /\ bp[at].enabled)
    <3>1. bp' = bp /\ ice' = ice
      BY <1>3, <2>1 DEF SetStep
    <3>2. \A i \in Live(bp) : i < at + 1 => ~(bp[i].toadd /\ bp[i].enabled)
      BY <1>0, <1>1, <2>1
    <3>3. Planned'
      BY <1>0, <2>0, <3>1, <3>2 DEF Planned
    <3> QED
      BY <1>0, <3>1, <3>3 DEF TableInv, Asked
  <2>2. CASE bp[at].toadd /\ bp[at].enabled
    <3>1. /\ bp' = [bp EXCEPT ![at] = [@ EXCEPT !.icestatus = TRUE, !.toadd = FALSE]]
          /\ ice' = Added(ice, bp[at])
      BY <1>3, <2>2 DEF SetStep, Added
    <3>2. /\ Sound(bp') /\ End(bp') = End(bp) /\ Live(bp') = Live(bp) /\ On(bp') = On(bp)
          /\ Ons(bp') = Ons(bp)
          /\ Apart(bp', On(bp')) /\ Apart(bp', Held(bp'))
          /\ Inst(bp') = Added(Inst(bp), bp[at])
          /\ \A j \in Indices : j # at => bp'[j] = bp[j]
          /\ ~bp'[at].toremove /\ ~bp'[at].toadd
      <4>1. Sound(bp)
        BY DEF TableInv
      <4> DEFINE u == [bp EXCEPT ![at] = [@ EXCEPT !.icestatus = TRUE, !.toadd = FALSE]]
      <4>0. PutIn(bp, u, at)
        BY DEF PutIn
      <4>3. bp' = u
        BY <3>1
      <4> HIDE DEF u
      <4>2. /\ Sound(u) /\ End(u) = End(bp) /\ Live(u) = Live(bp) /\ On(u) = On(bp)
            /\ Ons(u) = Ons(bp)
            /\ Apart(u, On(u)) /\ Apart(u, Held(u))
            /\ Inst(u) = Added(Inst(bp), bp[at])
            /\ \A j \in Indices : j # at => u[j] = bp[j]
            /\ ~u[at].toremove /\ ~u[at].toadd
        BY <1>0, <2>0, <2>2, <4>1, <4>0, Put
      <4> QED
        BY <4>2, <4>3
    <3>3. ice' = Inst(bp')
      BY <3>1, <3>2 DEF TableInv
    <3>4. \A i \in Live(bp') : /\ ~bp'[i].toremove
                               /\ i < at + 1 => ~(bp'[i].toadd /\ bp'[i].enabled)
      <4> SUFFICES ASSUME NEW i \in Live(bp)
                   PROVE  /\ ~bp'[i].toremove
                          /\ i < at + 1 => ~(bp'[i].toadd /\ bp'[i].enabled)
        BY <3>2
      <4>1. CASE i = at
        BY <3>2, <4>1
      <4>2. CASE i # at
        <5>1. i \in Indices /\ (i < at + 1 => i < at)
          BY <1>0, <1>1, <4>2
        <5> QED
          BY <1>0, <3>2, <4>2, <5>1
      <4> QED
        BY <4>1, <4>2
    <3>6. Planned'
      BY <1>0, <2>0, <3>2, <3>4 DEF Planned
    <3>7. Asked'
      BY <1>0, <3>2 DEF Asked, TableInv
    <3> QED
      BY <3>2, <3>3, <3>6, <3>7 DEF TableInv
  <2> QED
    BY <2>1, <2>2
<1> QED
  BY <1>2, <1>3

-----------------------------------------------------------------------------
(* The theorems: types, for any requests.                                  *)

TypeInv ==
  /\ TypeOK
  /\ bp \in Tables
  /\ pc \in {"clear", "set"} => at <= End(bp)

\* The update loops stay in the list, and the emulator gets what the list says.
LEMMA LoopType ==
  ASSUME TypeInv, ClearStep \/ SetStep
  PROVE  TypeInv'
<1>0. /\ bp \in Tables /\ at <= End(bp) /\ at \in Indices /\ at \in Nat /\ End(bp) \in Nat
      /\ \A i \in Live(bp) : i \in Indices /\ i # MaxTotal - 1
      /\ at # End(bp) => at \in Live(bp) /\ at + 1 <= End(bp) /\ at + 1 \in Indices
      /\ 0 \in Indices
      /\ ice \subseteq [slot : {Software} \cup Slots, type : Types, address : Nat]
  <2>1. bp \in Tables /\ at \in Indices /\ at <= End(bp)
        /\ ice \subseteq [slot : {Software} \cup Slots, type : Types, address : Nat]
    BY DEF TypeInv, TypeOK, ClearStep, SetStep
  <2> QED
    BY <2>1, LiveFacts, EndFacts, Bounds DEF Live, Indices
<1>1. ASSUME NEW k \in Live(bp)
      PROVE  /\ [bp[k] EXCEPT !.icestatus = FALSE, !.toremove = FALSE] \in Entries
             /\ [bp[k] EXCEPT !.icestatus = TRUE, !.toadd = FALSE] \in Entries
             /\ [slot |-> bp[k].bpnum, type |-> bp[k].type, address |-> bp[k].address]
                  \in [slot : {Software} \cup Slots, type : Types, address : Nat]
             /\ [bp[k] EXCEPT !.icestatus = FALSE, !.toremove = FALSE].last = bp[k].last
             /\ [bp[k] EXCEPT !.icestatus = TRUE, !.toadd = FALSE].last = bp[k].last
  <2>1. bp[k] \in Entries
    BY <1>0 DEF Tables
  <2> QED
    BY <2>1 DEF Entries
<1>2. bp' \in Tables /\ End(bp') = End(bp)
  <2>1. CASE bp' = bp
    BY <1>0, <2>1
  <2>2. ASSUME NEW e \in Entries, at # End(bp), bp' = [bp EXCEPT ![at] = e],
               e.last = bp[at].last
        PROVE  bp' \in Tables /\ End(bp') = End(bp)
    <3>1. bp' \in Tables
      BY <1>0, <2>2, SetEntry
    <3>2. \A i \in Indices : bp'[i].last = bp[i].last
      BY <1>0, <2>2 DEF Tables
    <3>3. End(bp') = End(bp)
      BY <1>0, <3>1, <3>2, EndSame
    <3> QED
      BY <3>1, <3>3
  <2>3. \/ bp' = bp
        \/ /\ at # End(bp)
           /\ \E e \in {[bp[at] EXCEPT !.icestatus = FALSE, !.toremove = FALSE],
                        [bp[at] EXCEPT !.icestatus = TRUE, !.toadd = FALSE]} :
                bp' = [bp EXCEPT ![at] = e]
    BY DEF ClearStep, SetStep
  <2> QED
    BY <1>0, <1>1, <2>1, <2>2, <2>3
<1>3. ice' \subseteq [slot : {Software} \cup Slots, type : Types, address : Nat]
  <2>1. CASE ClearStep
    BY <1>0, <2>1 DEF ClearStep
  <2>2. CASE SetStep
    BY <1>0, <1>1, <2>2 DEF SetStep
  <2> QED
    BY <2>1, <2>2
<1>4. pc' \in {"idle", "clear", "set", "run", "dead"} /\ at' \in Indices /\ wanted' = wanted
      /\ at' <= End(bp)
  BY <1>0 DEF ClearStep, SetStep, TypeInv, TypeOK
<1>5. wanted \subseteq Requests
  BY DEF TypeInv, TypeOK
<1>6. bp' \in [Indices -> Entries] /\ bp'[MaxTotal - 1].last
  BY <1>2 DEF Tables, Final
<1> QED
  BY <1>2, <1>3, <1>4, <1>5, <1>6 DEF TypeInv, TypeOK, Entries

\* No step breaks it.
LEMMA TypeNext ==
  ASSUME TypeInv, [Next]_vars
  PROVE  TypeInv'
<1>0. bp \in Tables /\ 0 \in Indices
  BY Bounds DEF TypeInv
<1>1. ASSUME bp' \in Tables, pc' \in {"idle", "clear"}, at' = at \/ at' = 0, pc' = "clear" => at' = 0,
             UNCHANGED ice, wanted' \subseteq Requests
      PROVE  TypeInv'
  <2>1. bp' \in [Indices -> Entries] /\ bp'[MaxTotal - 1].last
    BY <1>1 DEF Tables, Final
  <2>2. pc' = "clear" => at' <= End(bp')
    <3>1. End(bp') \in Nat
      BY <1>1, LiveFacts
    <3> QED
      BY <1>1, <3>1
  <2> QED
    BY <1>0, <1>1, <2>1, <2>2 DEF TypeInv, TypeOK, Entries
<1>2. wanted \subseteq Requests
  BY DEF TypeInv, TypeOK
<1>3. ASSUME NEW q \in Requests, Add(q) PROVE TypeInv'
  <2>1. bp' \in Tables
    BY <1>0, <1>3, AddType DEF Add
  <2>2. wanted' \subseteq Requests
    BY <1>2, <1>3 DEF Add
  <2> QED
    BY <1>1, <1>3, <2>1, <2>2 DEF Add
<1>4. ASSUME NEW q \in Requests, Delete(q) PROVE TypeInv'
  <2>1. bp' \in Tables
    BY <1>0, <1>4, DeleteType DEF Delete
  <2> QED
    BY <1>1, <1>2, <1>4, <2>1 DEF Delete
<1>5. CASE DeleteAll
  <2>1. bp' \in Tables
    BY <1>0, <1>5, DeleteAllType DEF DeleteAll
  <2> QED
    BY <1>1, <1>5, <2>1 DEF DeleteAll
<1>6. CASE Update
  <2>1. bp' \in Tables
    BY <1>0, <1>6, LayoutType DEF Update, Layouts
  <2> QED
    BY <1>1, <1>2, <1>6, <2>1 DEF Update
<1>7. CASE ClearStep \/ SetStep
  BY <1>7, LoopType
<1>8. CASE UpdateFails
  BY <1>8 DEF UpdateFails, TypeInv, TypeOK
<1>9. CASE Stop
  BY <1>9 DEF Stop, TypeInv, TypeOK
<1>10. CASE UNCHANGED vars
  BY <1>10 DEF vars, TypeInv, TypeOK
<1> QED
  BY <1>3, <1>4, <1>5, <1>6, <1>7, <1>8, <1>9, <1>10 DEF Next, Dead

\* The array of a new driver is a table.
LEMMA FreshTable == [i \in Indices |-> default_bp] \in Tables
<1>1. default_bp \in Entries
  BY Bounds DEF default_bp, Entries, Types
<1>2. Final(default_bp)
  BY DEF default_bp, Final
<1> QED
  BY <1>1, <1>2, Bounds DEF Tables

\* The table never runs over its end, for any requests, ranges and refused ones
\* among them: addBreakpoint and updateBreakpoints index it with what they find.
THEOREM TypeCorrect == Spec => []TypeOK
<1>1. Init => TypeInv
  <2> SUFFICES ASSUME Init PROVE TypeInv
    OBVIOUS
  <2>1. bp \in Tables
    BY FreshTable DEF Init
  <2>2. bp \in [Indices -> Entries] /\ bp[MaxTotal - 1].last
    BY <2>1 DEF Tables, Final
  <2> QED
    BY <2>1, <2>2, Bounds DEF Init, TypeInv, TypeOK, Entries
<1>2. TypeInv /\ [Next]_vars => TypeInv'
  BY TypeNext
<1>3. TypeInv => TypeOK
  BY DEF TypeInv
<1> QED
  BY <1>1, <1>2, <1>3, PTL DEF Spec

-----------------------------------------------------------------------------
(* The theorems: table and emulator.                                       *)

\* The table of a new driver.
LEMMA EmptyTable ==
  LET t == [i \in Indices |-> default_bp] IN
    /\ Sound(t) /\ Inst(t) = {} /\ Ons(t) = {} /\ Apart(t, Held(t))
<1> DEFINE t == [i \in Indices |-> default_bp]
<1>1. t \in Tables /\ \A i \in Indices : t[i] = default_bp
  BY FreshTable
<1>2. 0 \in Indices /\ \A j \in Indices : ~(j < 0)
  BY Bounds DEF Indices
<1> HIDE DEF t
<1>3. End(t) = 0
  BY <1>1, <1>2, EndUnique DEF default_bp
<1>4. Live(t) = {}
  BY <1>3 DEF Live
<1>5. Sound(t)
  BY <1>1, <1>4 DEF Sound, Unused, default_bp
<1>6. Held(t) = {} /\ On(t) = {}
  BY <1>4 DEF Held, On
<1>7. Inst(t) = {} /\ Ons(t) = {}
  BY <1>6 DEF Inst, Ons
<1> QED
  BY <1>5, <1>6, <1>7 DEF Apart, t

\* It is where the driver begins.
LEMMA TableInit == Init => TableInv
  BY EmptyTable DEF Init, TableInv, Asked, Planned

\* What happens to the table and the emulator.
LEMMA TableStep ==
  ASSUME PlainRequests, TableInv, Granted,
         \/ \E q \in Requests : Add(q) \/ Delete(q)
         \/ DeleteAll \/ Update \/ ClearStep \/ SetStep \/ UpdateFails \/ Stop
  PROVE  TableInv'
<1>1. ASSUME NEW q \in Requests, Add(q) PROVE TableInv'
  BY <1>1, AddKeeps
<1>2. ASSUME NEW q \in Requests, Delete(q) PROVE TableInv'
  BY <1>2, DeleteKeeps
<1>3. CASE DeleteAll
  BY <1>3, DeleteAllKeeps
<1>4. CASE Update
  BY <1>4, UpdateKeeps
<1>5. CASE ClearStep
  BY <1>5, ClearKeeps
<1>6. CASE SetStep
  BY <1>6, SetKeeps
<1>7. CASE UpdateFails
  BY <1>7 DEF UpdateFails, TableInv, Asked, Planned
<1>8. CASE Stop
  BY <1>8, IdlePlanned DEF Stop, TableInv, Asked
<1> QED
  BY <1>1, <1>2, <1>3, <1>4, <1>5, <1>6, <1>7, <1>8

\* No step breaks the invariant while the layout does not fail.
LEMMA TableNext == PlainRequests /\ TableInv /\ [Next]_vars /\ [Granted]_vars => TableInv'
<1> SUFFICES ASSUME PlainRequests, TableInv, [Next]_vars, [Granted]_vars PROVE TableInv'
  OBVIOUS
<1>1. CASE UNCHANGED vars
  BY <1>1 DEF vars, TableInv, Asked, Planned
<1>2. CASE ~UNCHANGED vars
  <2>1. Granted /\ Next
    BY <1>2
  <2>2. CASE Dead
    BY <1>2, <2>2 DEF Dead
  <2>3. CASE ~Dead
    BY <2>1, <2>3, TableStep DEF Next
  <2> QED
    BY <2>2, <2>3
<1> QED
  BY <1>1, <1>2

\* icestatus tells what the emulator holds.
LEMMA Mirrored == TableInv => IceMirrored
<1> SUFFICES ASSUME TableInv PROVE ice = {Installed(i) : i \in {j \in Live(bp) : bp[j].icestatus}}
  BY DEF IceMirrored
<1> QED
  BY DEF TableInv, Inst, Held, Installed

\* What is in, or about to be, has a slot of its own.
LEMMA Distinct == TableInv => SlotsDistinct
<1> SUFFICES ASSUME TableInv, pc \in {"set", "run"},
                    NEW i \in Live(bp), NEW j \in Live(bp), i # j,
                    bp[i].icestatus \/ (bp[i].enabled /\ bp[i].toadd),
                    bp[j].icestatus \/ (bp[j].enabled /\ bp[j].toadd),
                    bp[i].bpnum # Software
             PROVE  bp[i].bpnum # bp[j].bpnum
  BY DEF SlotsDistinct
<1>1. Apart(bp, On(bp)) /\ ~bp[i].toremove /\ ~bp[j].toremove
  BY DEF TableInv, Planned
<1>2. i \in On(bp) /\ j \in On(bp)
  BY <1>1 DEF TableInv, Sound, Flags, On
<1> QED
  BY <1>1, <1>2 DEF Apart

\* When the program runs, what is on is in the emulator, and nothing else.
LEMMA RunOn ==
  ASSUME TableInv, pc = "run"
  PROVE  Held(bp) = On(bp)
  BY DEF TableInv, Planned, Sound, Flags, Held, On

\* A running program stops where it was asked to.
LEMMA AsTold == TableInv => RunsAsTold
<1> SUFFICES ASSUME TableInv, pc = "run"
             PROVE  /\ \A i \in Live(bp) : bp[i].enabled => Installed(i) \in ice
                    /\ \A b \in ice : /\ \E i \in Live(bp) : bp[i].enabled /\ Installed(i) = b
                                      /\ \E q \in wanted : Same(b, q)
  BY DEF RunsAsTold
<1>1. Held(bp) = On(bp)
  BY RunOn
<1>2. ice = {Installed(i) : i \in On(bp)}
  BY <1>1 DEF TableInv, Inst, Installed
<1>3. \A i \in Live(bp) : bp[i].enabled => Installed(i) \in ice
  BY <1>2 DEF On
<1>4. ASSUME NEW b \in ice
      PROVE  /\ \E i \in Live(bp) : bp[i].enabled /\ Installed(i) = b
             /\ \E q \in wanted : Same(b, q)
  <2>1. PICK i \in On(bp) : b = Installed(i)
    BY <1>2
  <2>2. <<bp[i].address, bp[i].type>> \in Ons(bp)
    BY DEF Ons
  <2>3. PICK q \in wanted : <<bp[i].address, bp[i].type>> = <<q.address, q.type>>
    BY <2>2 DEF TableInv, Asked
  <2>4. Same(b, q)
    BY <2>1, <2>3 DEF Same, Installed
  <2> QED
    BY <2>1, <2>4 DEF On
<1> QED
  BY <1>3, <1>4

\* And nothing that was accepted is missing.
LEMMA WithWanted == TableInv => RunsWithWanted
<1> SUFFICES ASSUME TableInv, pc = "run", NEW q \in wanted
             PROVE  \E b \in ice : Same(b, q)
  BY DEF RunsWithWanted
<1>1. <<q.address, q.type>> \in Ons(bp)
  BY DEF TableInv, Asked
<1>2. PICK i \in On(bp) : <<q.address, q.type>> = <<bp[i].address, bp[i].type>>
  BY <1>1 DEF Ons
<1>3. Installed(i) \in ice
  BY RunOn DEF TableInv, Inst, Installed
<1>4. Same(Installed(i), q)
  BY <1>2 DEF Same, Installed
<1> QED
  BY <1>3, <1>4

\* While the layout never fails, the flags of jtag2bp.cc (enabled, toadd, toremove,
\* icestatus) and the slots agree with the emulator after any sequence of requests
\* and updates, also when the array is full and entries are taken over.
THEOREM TableSound ==
  PlainRequests /\ Spec /\ [][Granted]_vars => [](IceMirrored /\ SlotsDistinct)
<1> SUFFICES ASSUME PlainRequests
             PROVE  Spec /\ [][Granted]_vars => [](IceMirrored /\ SlotsDistinct)
  OBVIOUS
<1>1. TableInv /\ [Next]_vars /\ [Granted]_vars => TableInv'
  BY TableNext
<1>2. TableInv => IceMirrored /\ SlotsDistinct
  BY Mirrored, Distinct
<1> QED
  BY <1>1, <1>2, TableInit, PTL DEF Spec

\* And jtagContinue lets the program run with what was asked for in the emulator and
\* nothing else.
THEOREM RunsSound ==
  PlainRequests /\ Spec /\ [][Granted]_vars => [](RunsAsTold /\ RunsWithWanted)
<1> SUFFICES ASSUME PlainRequests
             PROVE  Spec /\ [][Granted]_vars => [](RunsAsTold /\ RunsWithWanted)
  OBVIOUS
<1>1. TableInv /\ [Next]_vars /\ [Granted]_vars => TableInv'
  BY TableNext
<1>2. TableInv => RunsAsTold /\ RunsWithWanted
  BY AsTold, WithWanted
<1> QED
  BY <1>1, <1>2, TableInit, PTL DEF Spec

\* Code breakpoints on a device with software breakpoints.
OnlyCode == SoftwareBPs /\ \A q \in Requests : q.type = "CODE"

\* layoutBreakpoints has room for any number of them, so addBreakpoint turns on
\* what it accepts.
LEMMA RoomForCode ==
  ASSUME OnlyCode, NEW t, Sound(t)
  PROVE  Layout(t).room
<1>1. Kinds \subseteq {"CODE"}
  BY DEF OnlyCode, Kinds
<1>2. t \in Tables /\ \A i \in Live(t) : t[i].type = "CODE"
  BY <1>1 DEF Sound
<1> QED
  BY <1>2, CodeHasRoom DEF OnlyCode

\* So a code breakpoint that is accepted is on.
LEMMA CodeIsOn ==
  ASSUME OnlyCode, NEW t, Sound(t), NEW a \in Nat, "CODE" \in Kinds, NEW n
  PROVE  LET r == addBreakpoint(t, a, "CODE", n) IN r.ok => IsOn(r.t, a, "CODE")
<1> DEFINE i == Find(t, a, "CODE")
           f == IF i \in Live(t) THEN [t EXCEPT ![i] = [@ EXCEPT !.enabled = TRUE]] ELSE t
           k == Entry(f, a, "CODE")
           r == addBreakpoint(t, a, "CODE", n)
           w == Claim(f, k, a, "CODE")
           u == [w EXCEPT ![k] = [@ EXCEPT !.toadd = ~w[k].icestatus, !.toremove = FALSE]]
<1>1. r = AddPlain(f, a, "CODE")
  BY DEF addBreakpoint
<1>2. /\ f \in Tables
      /\ k # MaxTotal - 1 =>
           /\ k \in Indices /\ k < MaxTotal - 1 /\ Chosen(t, k, a, "CODE")
           /\ \A j \in Indices : j # k => f[j] = t[j]
           /\ f[k] = t[k] \/ f[k] = [t[k] EXCEPT !.enabled = TRUE]
  BY EntryChosen
<1> HIDE DEF f
<1>3. CASE k = MaxTotal - 1
  <2>1. r = [t |-> f, ok |-> FALSE]
    BY <1>1, <1>3 DEF AddPlain
  <2> QED
    BY <2>1
<1>4. CASE k # MaxTotal - 1
  <2>1. r = [t |-> Finish(w, k), ok |-> TRUE]
    BY <1>1, <1>4 DEF AddPlain
  <2> HIDE DEF k, r
  <2>2. w \in Tables /\ u \in Tables /\ Filled(u, t, k, a, "CODE") /\ Grown(u, t, k)
    BY <1>2, <1>4, ClaimFilled
  <2>3. Layout(u).room => Finish(w, k) = Layout(u).t
    BY DEF Finish
  <2> HIDE DEF w, u
  <2>4. Sound(u) /\ Ons(u) = Ons(t) \cup {<<a, "CODE">>}
    BY <1>2, <1>4, <2>2, FilledSound
  <2>5. Layout(u).room /\ Ons(Layout(u).t) = Ons(u)
    BY <2>4, RoomForCode, LaidSound
  <2>6. r.t = Layout(u).t
    BY <2>1, <2>3, <2>5
  <2>7. <<a, "CODE">> \in Ons(r.t)
    BY <2>4, <2>5, <2>6
  <2>8. IsOn(r.t, a, "CODE")
    BY <2>7 DEF Ons, IsOn
  <2> QED
    BY <2>8 DEF r
<1> QED
  BY <1>3, <1>4

\* And the layout does not fail.
LEMMA CodeGranted == OnlyCode /\ TableInv => Granted
<1> SUFFICES ASSUME OnlyCode, TableInv PROVE Granted
  OBVIOUS
<1>1. ASSUME NEW q \in Requests, Add(q), addBreakpoint(bp, q.address, q.type, q.length).ok
      PROVE  IsOn(bp', q.address, q.type)
  <2>1. q.address \in Nat /\ q.type = "CODE" /\ "CODE" \in Kinds
    BY BreakpointsAssumption DEF OnlyCode, Kinds
  <2>2. bp' = addBreakpoint(bp, q.address, q.type, q.length).t
    BY <1>1 DEF Add
  <2> QED
    BY <1>1, <2>1, <2>2, CodeIsOn DEF TableInv
<1>2. Layout(bp).room
  BY RoomForCode DEF TableInv
<1> QED
  BY <1>1, <1>2 DEF Granted

\* Software breakpoints never run out, and with code breakpoints alone nothing has
\* to be assumed of the layout: whatever is set and deleted, when the program runs
\* the emulator stops it at what was asked for and nowhere else.
THEOREM CodeTableSound ==
  OnlyCode /\ Spec => [](IceMirrored /\ SlotsDistinct /\ RunsAsTold /\ RunsWithWanted)
<1> SUFFICES ASSUME OnlyCode
             PROVE  Spec => [](IceMirrored /\ SlotsDistinct /\ RunsAsTold /\ RunsWithWanted)
  OBVIOUS
<1>1. PlainRequests
  BY DEF OnlyCode, PlainRequests
<1>2. TableInv /\ [Next]_vars => TableInv'
  BY <1>1, CodeGranted, TableNext
<1>3. TableInv => IceMirrored /\ SlotsDistinct /\ RunsAsTold /\ RunsWithWanted
  BY Mirrored, Distinct, AsTold, WithWanted
<1> QED
  BY <1>2, <1>3, TableInit, PTL DEF Spec

-----------------------------------------------------------------------------
(* The driver of the scripts, and what they do to the breakpoints.         *)

\* The number of a new driver is that of no other; a daemon has been ready if
\* and only if one holds the device, after which no other gets it.
HandlesInv ==
  /\ made \in Nat
  /\ alive \subseteq 1 .. made
  /\ origJtag \in {None} \cup alive
  /\ theJtagICE = origJtag
  /\ holder \in 0 .. made
  /\ (ready <=> holder # None)
  /\ origJtag # None => holder = origJtag

\* The methods of the driver leave the pointers alone.
LEMMA BoundKeeps ==
  ASSUME HandlesInv, UNCHANGED handles
  PROVE  HandlesInv'
  BY DEF HandlesInv, handles

\* Deleting the driver that failed to open leaves none behind.
LEMMA ReleaseKeeps ==
  ASSUME HandlesInv, made' = made + 1, releaseNativeJtag(made + 1),
         holder' \in 0 .. made + 1, (ready' <=> holder' # None)
  PROVE  HandlesInv'
  BY DEF HandlesInv, releaseNativeJtag, None

\* init(), by what becomes of it.
LEMMA CreateKeeps ==
  ASSUME HandlesInv, createJtag
  PROVE  HandlesInv'
<1>0. made' = made + 1 /\ made \in Nat
  BY DEF createJtag, HandlesInv
<1>1. CASE ConstructorThrows
  BY <1>0, <1>1 DEF ConstructorThrows, HandlesInv, None
<1>2. CASE ReleaseThrows
  BY <1>0, <1>2 DEF ReleaseThrows, HandlesInv, None
<1>3. CASE Opened
  <2>1. /\ holder' = made + 1 /\ holder' # None
        /\ alive' = alive \cup {made + 1}
        /\ origJtag' = made + 1
        /\ theJtagICE' = made + 1
    BY <1>0, <1>3 DEF Opened, None
  <2>2. (ready' <=> holder' # None)
    BY <1>3, <2>1 DEF Opened
  <2>3. alive' \subseteq 1 .. made'
    BY <1>0, <2>1 DEF HandlesInv
  <2> QED
    BY <1>0, <2>1, <2>2, <2>3 DEF HandlesInv
<1>4. CASE SignOnFails
  <2>1. holder' = made + 1 /\ ready' = TRUE /\ releaseNativeJtag(made + 1)
    BY <1>4 DEF SignOnFails
  <2>2. holder' \in 0 .. made + 1 /\ (ready' <=> holder' # None)
    BY <1>0, <2>1 DEF None
  <2> QED
    BY <1>0, <2>1, <2>2, ReleaseKeeps
<1>5. CASE ChildFails
  <2>1. UNCHANGED <<ready, holder>>
    BY <1>5 DEF ChildFails
  <2>2. CASE ready
    <3>1. releaseNativeJtag(made + 1)
      BY <1>5, <2>2 DEF ChildFails
    <3>2. holder' \in 0 .. made + 1 /\ (ready' <=> holder' # None)
      BY <1>0, <2>1 DEF HandlesInv
    <3> QED
      BY <1>0, <3>1, <3>2, ReleaseKeeps
  <2>3. CASE ~ready
    <3>1. UNCHANGED <<origJtag, theJtagICE, alive>>
      BY <1>5, <2>3 DEF ChildFails
    <3> QED
      BY <1>0, <2>1, <3>1 DEF HandlesInv, None
  <2> QED
    BY <2>2, <2>3
<1> QED
  BY <1>1, <1>2, <1>3, <1>4, <1>5 DEF createJtag

\* No step breaks the invariant.
LEMMA HandlesNext == HandlesInv /\ [JsNext]_jsVars => HandlesInv'
<1> SUFFICES ASSUME HandlesInv, [JsNext]_jsVars PROVE HandlesInv'
  OBVIOUS
<1>1. CASE createJtag
  BY <1>1, CreateKeeps
<1>2. CASE Bound
  BY <1>2, BoundKeeps DEF Bound
<1>3. CASE Unavailable
  BY <1>3, BoundKeeps DEF Unavailable, jsVars
<1>4. CASE childhandler
  BY <1>4, BoundKeeps DEF childhandler
<1>5. CASE Stopped
  BY <1>5, BoundKeeps DEF Stopped, jsVars
<1>6. CASE UNCHANGED jsVars
  BY <1>6, BoundKeeps DEF jsVars
<1> QED
  BY <1>1, <1>2, <1>3, <1>4, <1>5, <1>6 DEF JsNext

\* Whatever scripts call, and whatever fails in init(), the object jtag and the
\* main loop have the same driver, one that has not been deleted and whose
\* daemon holds the device, or none (jsjtag.cc createJtag, releaseNativeJtag).
THEOREM HandlesSound == JsSpec => []DriverUsable
<1>1. JsInit => HandlesInv
  BY DEF JsInit, HandlesInv, None
<1>2. HandlesInv => DriverUsable
  BY DEF HandlesInv, DriverUsable, PointersAlive, DriverConnected
<1> QED
  BY <1>1, <1>2, HandlesNext, PTL DEF JsSpec

-----------------------------------------------------------------------------
(* The table under the bindings.                                           *)

\* A new driver begins with an empty table and an emulator without breakpoints.
LEMMA FreshKeeps ==
  ASSUME Fresh, pc' = pc, pc = "idle"
  PROVE  TableInv'
<1>1. bp' = [i \in Indices |-> default_bp] /\ ice' = {} /\ wanted' = {} /\ at' = 0 /\ pc' = "idle"
  BY DEF Fresh
<1> QED
  BY <1>1, EmptyTable, IdlePlanned DEF TableInv, Asked

\* init() makes a new table or leaves the old one.
LEMMA CreateTable ==
  ASSUME TableInv, createJtag
  PROVE  TableInv'
<1>1. pc = "idle"
  BY DEF createJtag
<1>2. ASSUME UNCHANGED <<bp, at, ice, wanted>>, pc' \in {"dead", "hung"}
      PROVE  TableInv'
  BY <1>2 DEF TableInv, Asked, Planned
<1>3. CASE ConstructorThrows \/ Opened \/ SignOnFails
  BY <1>1, <1>3, FreshKeeps DEF ConstructorThrows, Opened, SignOnFails
<1>4. CASE ReleaseThrows
  BY <1>2, <1>4 DEF ReleaseThrows
<1>5. CASE ChildFails
  <2>1. CASE ready
    BY <1>1, <1>5, <2>1, FreshKeeps DEF ChildFails
  <2>2. CASE ~ready
    BY <1>2, <1>5, <2>2 DEF ChildFails
  <2> QED
    BY <2>1, <2>2
<1> QED
  BY <1>3, <1>4, <1>5 DEF createJtag

\* No call of a script and no end of a child breaks the invariant of the table.
LEMMA JsTableNext == PlainRequests /\ TableInv /\ [JsNext]_jsVars /\ [Granted]_vars => TableInv'
<1> SUFFICES ASSUME PlainRequests, TableInv, [JsNext]_jsVars, [Granted]_vars PROVE TableInv'
  OBVIOUS
<1>0. ASSUME UNCHANGED vars PROVE TableInv'
  BY <1>0, TableNext
<1>1. CASE createJtag
  BY <1>1, CreateTable
<1>2. CASE Bound
  BY <1>0, <1>2, TableStep DEF Bound
<1>3. CASE childhandler
  BY <1>3 DEF childhandler, TableInv, Asked, Planned
<1>4. CASE UNCHANGED jsVars
  BY <1>0, <1>4 DEF jsVars
<1> QED
  BY <1>1, <1>2, <1>3, <1>4 DEF JsNext, Unavailable, Stopped

\* The list of a sound table has an entry for each of its breakpoints, and no two
\* that are the same.
LEMMA ListFacts ==
  ASSUME NEW t, Sound(t)
  PROVE  LET list == getBreakpoints(t) IN
         /\ DOMAIN list = 1 .. End(t)
         /\ \A i \in Live(t) : /\ i + 1 \in DOMAIN list
                               /\ list[i + 1] = [address |-> t[i].address, type |-> t[i].type]
         /\ \A i, j \in DOMAIN list : i # j => list[i] # list[j]
<1> DEFINE list == getBreakpoints(t)
<1>1. End(t) \in Nat /\ \A i \in 1 .. End(t) : i - 1 \in Live(t) /\ i \in Int
  BY SoundFacts, EndFacts DEF Live, Indices
<1>2. \A i \in Live(t) : i + 1 \in 1 .. End(t) /\ (i + 1) - 1 = i
  BY <1>1, SoundFacts DEF Live, Indices
<1>3. DOMAIN list = 1 .. End(t)
      /\ \A i \in 1 .. End(t) : list[i] = [address |-> t[i - 1].address, type |-> t[i - 1].type]
  BY DEF getBreakpoints
<1> HIDE DEF list
<1>4. ASSUME NEW i \in DOMAIN list, NEW j \in DOMAIN list, i # j
      PROVE  list[i] # list[j]
  <2>1. i - 1 \in Live(t) /\ j - 1 \in Live(t) /\ i - 1 # j - 1
    BY <1>1, <1>3, <1>4
  <2>2. t[i - 1].address # t[j - 1].address \/ t[i - 1].type # t[j - 1].type
    BY <2>1 DEF Sound
  <2> QED
    BY <1>3, <2>2
<1> QED
  BY <1>2, <1>3, <1>4 DEF list

\* The list shows what is wanted and what is installed.
LEMMA ListSound == TableInv => ListTells
<1> SUFFICES ASSUME TableInv
             PROVE  LET list == getBreakpoints(bp) IN
                      /\ \A q \in wanted \cup ice : \E e \in Range(list) : Same(e, q)
                      /\ \A i, j \in DOMAIN list : i # j => list[i] # list[j]
  BY DEF ListTells
<1> DEFINE list == getBreakpoints(bp)
<1>1. /\ \A i \in Live(bp) : /\ i + 1 \in DOMAIN list
                             /\ list[i + 1] = [address |-> bp[i].address, type |-> bp[i].type]
      /\ \A i, j \in DOMAIN list : i # j => list[i] # list[j]
  BY ListFacts DEF TableInv
<1> HIDE DEF list
<1>2. ASSUME NEW q \in wanted \cup ice
      PROVE  \E i \in Live(bp) : bp[i].address = q.address /\ bp[i].type = q.type
  <2>1. CASE q \in wanted
    <3>1. <<q.address, q.type>> \in Ons(bp)
      BY <2>1 DEF TableInv, Asked
    <3> QED
      BY <3>1 DEF Ons, On
  <2>2. CASE q \in ice
    <3>1. PICK i \in Held(bp) :
            q = [slot |-> bp[i].bpnum, type |-> bp[i].type, address |-> bp[i].address]
      BY <2>2 DEF TableInv, Inst
    <3> QED
      BY <3>1 DEF Held
  <2> QED
    BY <1>2, <2>1, <2>2
<1>3. ASSUME NEW q \in wanted \cup ice
      PROVE  \E e \in Range(list) : Same(e, q)
  <2>1. PICK i \in Live(bp) : bp[i].address = q.address /\ bp[i].type = q.type
    BY <1>2
  <2>2. i + 1 \in DOMAIN list
        /\ list[i + 1] = [address |-> bp[i].address, type |-> bp[i].type]
    BY <1>1
  <2>3. list[i + 1] \in Range(list)
    BY <2>2, Zenon DEF Range
  <2>4. Same(list[i + 1], q)
    BY <2>1, <2>2 DEF Same
  <2> QED
    BY <2>3, <2>4
<1> QED
  BY <1>1, <1>3 DEF list

\* Whatever scripts add, delete and look at, also after a failed init(): while the
\* layout does not fail, the list a script gets (jsjtag.cc getBreakpoints) shows
\* each breakpoint that was accepted or is still in the emulator once, and the
\* program stops at those that were asked for and nowhere else.
THEOREM BindingsSound ==
  PlainRequests /\ JsSpec /\ [][Granted]_vars =>
    [](IceMirrored /\ SlotsDistinct /\ RunsAsTold /\ RunsWithWanted /\ ListTells)
<1> SUFFICES ASSUME PlainRequests
             PROVE  JsSpec /\ [][Granted]_vars =>
                      [](IceMirrored /\ SlotsDistinct /\ RunsAsTold /\ RunsWithWanted /\ ListTells)
  OBVIOUS
<1>1. JsInit => TableInv
  BY TableInit DEF JsInit
<1>2. TableInv /\ [JsNext]_jsVars /\ [Granted]_vars => TableInv'
  BY JsTableNext
<1>3. TableInv => IceMirrored /\ SlotsDistinct /\ RunsAsTold /\ RunsWithWanted /\ ListTells
  BY Mirrored, Distinct, AsTold, WithWanted, ListSound
<1> QED
  BY <1>1, <1>2, <1>3, PTL DEF JsSpec

\* With code breakpoints on a device that has software breakpoints, whatever the
\* layout does.
THEOREM CodeBindingsSound ==
  OnlyCode /\ JsSpec =>
    [](IceMirrored /\ SlotsDistinct /\ RunsAsTold /\ RunsWithWanted /\ ListTells)
<1> SUFFICES ASSUME OnlyCode
             PROVE  JsSpec =>
                      [](IceMirrored /\ SlotsDistinct /\ RunsAsTold /\ RunsWithWanted /\ ListTells)
  OBVIOUS
<1>1. JsInit => TableInv
  BY TableInit DEF JsInit
<1>2. TableInv /\ [JsNext]_jsVars => TableInv'
  BY CodeGranted, JsTableNext DEF OnlyCode, PlainRequests
<1>3. TableInv => IceMirrored /\ SlotsDistinct /\ RunsAsTold /\ RunsWithWanted /\ ListTells
  BY Mirrored, Distinct, AsTold, WithWanted, ListSound
<1> QED
  BY <1>1, <1>2, <1>3, PTL DEF JsSpec
=============================================================================
