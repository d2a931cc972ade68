-------------------------- MODULE Jtag2Breakpoints ---------------------------
(***************************************************************************)
(* The breakpoint table of the JTAG ICE mkII driver (jtag2bp.cc): requests *)
(* of the debugger edit the table, layoutBreakpoints assigns the hardware  *)
(* slots after every edit, and updateBreakpoints brings the emulator into  *)
(* line with the table before the program is resumed.                      *)
(*                                                                         *)
(* An address is a number; the mask of a range breakpoint of n bytes is    *)
(* the address MaskBase - n, apart from the addresses of breakpoints.      *)
(* The emulator's registers and software breakpoints are external: they    *)
(* are what CMND_SET_BREAK and CMND_CLR_BREAK say they are.                *)
(*                                                                         *)
(* wanted is a history variable: what the debugger asked for, was told is   *)
(* set, and has not asked to delete.                                       *)
(***************************************************************************)
EXTENDS Integers, FiniteSets

CONSTANTS
  MaxTotal,     \* MAX_TOTAL_BREAKPOINTS2 (32)
  Requests,     \* what the debugger may ask for: type, address, length
  MaskBase,     \* 2^32
  DebugWire,    \* useDebugWire
  SoftwareBPs   \* FALSE on devices flagged DEVFL_NO_SOFTBP

ASSUME BreakpointsAssumption ==
  /\ MaxTotal \in Nat /\ MaxTotal > 1
  /\ MaskBase \in Nat
  /\ \A q \in Requests : /\ q.type \in {"CODE", "READ_DATA", "WRITE_DATA", "ACCESS_DATA"}
                         /\ q.address \in Nat /\ q.length \in Nat
                         /\ q.address + q.length < MaskBase
  /\ DebugWire \in BOOLEAN
  /\ SoftwareBPs \in BOOLEAN

VARIABLES
  bp,         \* the table
  pc, at,     \* what the driver is doing, and where its update loop is
  ice,        \* the breakpoints the emulator holds
  wanted      \* history

vars == <<bp, pc, at, ice, wanted>>

Indices == 0 .. MaxTotal - 1

DataTypes == {"READ_DATA", "WRITE_DATA", "ACCESS_DATA"}
Types == {"NONE", "CODE", "DATA_MASK"} \cup DataTypes

\* The slots a breakpoint may be put in: 1 for code, FIRST_DATA and DATA_MASK
\* for either.  Slot 0 stands for software breakpoints; slot 4 is never free.
CodeSlot == 1
FirstData == 2
MaskSlot == 3
Slots == {CodeSlot, FirstData, MaskSlot}
Software == 0

\* type and the HAS_MASK bit of the code's bpType are kept apart.
default_bp == [address |-> 0, mask_pointer |-> 0, type |-> "NONE", masked |-> FALSE,
               enabled |-> FALSE, last |-> TRUE, icestatus |-> FALSE,
               toremove |-> FALSE, toadd |-> FALSE, bpnum |-> Software]

-----------------------------------------------------------------------------
(* The table.                                                              *)

\* The list ends at the first entry with last set.
End(t) == CHOOSE i \in Indices : t[i].last /\ \A j \in Indices : j < i => ~t[j].last
Live(t) == 0 .. End(t) - 1

\* The first entry for this address and type, or the end of the list.
Matches(e, address, type) == e.address = address /\ e.type = type /\ ~e.masked

Find(t, address, type) ==
  IF \E i \in Live(t) : Matches(t[i], address, type)
    THEN CHOOSE i \in Live(t) : /\ Matches(t[i], address, type)
                                /\ \A j \in Live(t) : Matches(t[j], address, type) => i <= j
    ELSE End(t)

codeBreakpointAt(t, address) ==
  \E i \in Live(t) : Matches(t[i], address, "CODE") /\ t[i].enabled

Disable(t, i) == [t EXCEPT ![i] = [@ EXCEPT !.enabled = FALSE, !.toadd = FALSE]]

-----------------------------------------------------------------------------
(* layoutBreakpoints: data breakpoints first, then code, in table order.   *)
(* A layout in progress is the table, the slots left, whether there was    *)
(* room so far, and whether a loop was left early.                         *)

Stable(e) == e.enabled /\ ~e.toremove /\ e.icestatus

\* Mutants: the fourth slot is free too; slots in use are not taken out.
FreeSlots_Fourth(t) ==
  (IF DebugWire THEN {} ELSE Slots \cup {4}) \ {t[i].bpnum : i \in {j \in Live(t) : Stable(t[j])}}
FreeSlots_Forgetful(t) == IF DebugWire THEN {} ELSE Slots

FreeSlots(t) ==
  (IF DebugWire THEN {} ELSE Slots) \ {t[i].bpnum : i \in {j \in Live(t) : Stable(t[j])}}

Lowest(S) == CHOOSE n \in S : \A m \in S : n <= m

PlaceData(s, i) ==
  LET e == s.t[i]
      both == {FirstData, MaskSlot} \subseteq s.free
      left == IF e.masked THEN s.free \ {MaskSlot} ELSE s.free
      data == left \cap {FirstData, MaskSlot}
      marked == IF e.masked
                  THEN [s.t EXCEPT ![e.mask_pointer] = [@ EXCEPT !.bpnum = MaskSlot]]
                  ELSE s.t
  IN  IF s.stop \/ ~(e.enabled /\ e.toadd /\ e.type \in DataTypes) THEN s
      ELSE IF e.masked /\ ~both
        THEN [s EXCEPT !.t = Disable(Disable(@, e.mask_pointer), i), !.room = FALSE]
      ELSE IF data = {}
        THEN [s EXCEPT !.room = FALSE, !.stop = TRUE]
      ELSE [s EXCEPT !.t = [marked EXCEPT ![i] = [@ EXCEPT !.bpnum = Lowest(data)]],
                     !.free = left \ {Lowest(data)}]

PlaceCode(s, i) ==
  LET e == s.t[i]
      slot == IF s.free # {} THEN Lowest(s.free) ELSE Software
  IN  IF s.stop \/ ~(e.enabled /\ e.toadd /\ e.type = "CODE") THEN s
      ELSE IF s.free = {} /\ ~SoftwareBPs THEN [s EXCEPT !.room = FALSE, !.stop = TRUE]
      ELSE [s EXCEPT !.t = [s.t EXCEPT ![i] = [@ EXCEPT !.bpnum = slot]],
                     !.free = s.free \ {slot}]

\* The loops over the table.
LayoutData(t, s) ==
  LET f[n \in 0 .. End(t)] == IF n = 0 THEN s ELSE PlaceData(f[n - 1], n - 1) IN f[End(t)]

LayoutCode(t, s) ==
  LET f[n \in 0 .. End(t)] == IF n = 0 THEN s ELSE PlaceCode(f[n - 1], n - 1) IN f[End(t)]

Layout(t) ==
  LET start == [t |-> t, free |-> FreeSlots(t), room |-> TRUE, stop |-> FALSE]
  IN  LayoutCode(t, [LayoutData(t, start) EXCEPT !.stop = FALSE])

-----------------------------------------------------------------------------
(* The requests.  Each yields a table and the value returned.              *)

\* The entry a new breakpoint takes: its old one, the end of the list, or, when
\* the list is full, one that is disabled and not waiting for its removal.
Entry(t, address, type) ==
  LET i == Find(t, address, type) IN
    IF i < MaxTotal - 1 THEN i
    ELSE CHOOSE j \in Indices : /\ ~t[j].enabled /\ ~t[j].toremove
                                /\ \A k \in Indices : k < j => t[k].enabled \/ t[k].toremove

\* The entry is filled in; the list grows if it was its end.
Claim(t, i, address, type) ==
  LET grown == IF t[i].last
                 THEN [t EXCEPT ![i + 1] = [@ EXCEPT !.last = TRUE, !.enabled = FALSE,
                                                     !.address = 0, !.type = "NONE",
                                                     !.masked = FALSE]]
                 ELSE t
  IN  [grown EXCEPT ![i] = [@ EXCEPT !.last = FALSE, !.enabled = TRUE, !.masked = FALSE,
                                     !.address = address, !.type = type]]

\* A range breakpoint that cannot be had ends the list where it stood.
Cut(t, i) == [t EXCEPT ![i] = [@ EXCEPT !.last = TRUE, !.enabled = FALSE]]

\* Mutant: an entry that waits for its removal is added as well.
Finish_Always(t, i) ==
  LET laid == Layout([t EXCEPT ![i] = [@ EXCEPT !.toadd = ~@]])
  IN  IF laid.room THEN laid.t ELSE Disable(laid.t, i)

\* The flags are set, the slots assigned; without room the entry is disabled
\* again, and the value returned is TRUE all the same.
Finish(t, i) ==
  LET new == ~t[i].icestatus
      flagged == [t EXCEPT ![i] = [@ EXCEPT !.toadd = new, !.toremove = FALSE]]
      laid == Layout(flagged)
      off == Disable(laid.t, i)
  IN  IF laid.room THEN laid.t
      ELSE IF off[i].masked THEN Disable(off, off[i].mask_pointer)
      ELSE off

AddPlain(t, address, type) ==
  LET i == Entry(t, address, type) IN
    IF i = MaxTotal - 1
      THEN [t |-> t, ok |-> FALSE]
      ELSE [t |-> Finish(Claim(t, i, address, type), i), ok |-> TRUE]

PowerOfTwo(n) == \E k \in 0 .. n : n = 2 ^ k

\* The entry of the mask is looked for with the address of the breakpoint in
\* place of its own, and so is not found: the pointer is the end of the list.
MaskPointer(t, i, mask) ==
  IF t[i].address = mask /\ \E j \in Live(t) : t[j].type = "DATA_MASK"
    THEN CHOOSE j \in Live(t) : /\ t[j].type = "DATA_MASK"
                                /\ \A k \in Live(t) : t[k].type = "DATA_MASK" => j <= k
    ELSE End(t)

AddRange(t, address, type, length) ==
  LET i == Entry(t, address, type)
      claimed == Claim(t, i, address, type)
      masked == [claimed EXCEPT ![i] = [@ EXCEPT !.masked = TRUE]]
      mask == MaskBase - length
      inner == AddPlain(masked, mask, "DATA_MASK")
      linked == [inner.t EXCEPT ![i] = [@ EXCEPT !.mask_pointer = MaskPointer(inner.t, i, mask)]]
  IN  IF i = MaxTotal - 1 THEN [t |-> t, ok |-> FALSE]
      ELSE IF ~PowerOfTwo(length) \/ address % length # 0
        THEN [t |-> Cut(claimed, i), ok |-> FALSE]
      ELSE IF ~inner.ok THEN [t |-> Cut(inner.t, i), ok |-> FALSE]
      ELSE [t |-> Finish(linked, i), ok |-> TRUE]

addBreakpoint(t, address, type, length) ==
  LET i == Find(t, address, type)
      found == IF i \in Live(t) THEN [t EXCEPT ![i] = [@ EXCEPT !.enabled = TRUE]] ELSE t
  IN  IF length > 1 /\ type # "CODE"
        THEN AddRange(found, address, type, length)
        ELSE AddPlain(found, address, type)

\* Mutant: the emulator is not told.
deleteBreakpoint_TableOnly(t, address, type) ==
  LET i == Find(t, address, type) IN
    IF i \notin Live(t) THEN [t |-> t, ok |-> FALSE]
    ELSE [t |-> Layout(Disable(t, i)).t, ok |-> TRUE]

deleteBreakpoint(t, address, type) ==
  LET i == Find(t, address, type)
      flagged == [t EXCEPT ![i] = [@ EXCEPT !.enabled = FALSE, !.toadd = FALSE,
                                            !.toremove = t[i].icestatus]]
  IN  IF ~Matches(t[i], address, type) THEN [t |-> t, ok |-> FALSE]
      ELSE [t |-> Layout(flagged).t, ok |-> TRUE]

deleteAllBreakpoints(t) ==
  [i \in Indices |->
     IF i \in Live(t)
       THEN [t[i] EXCEPT !.enabled = FALSE,
                         !.toremove = @ \/ (t[i].enabled /\ t[i].icestatus)]
       ELSE t[i]]

-----------------------------------------------------------------------------
(* The driver.                                                             *)

TypeOK ==
  /\ bp \in [Indices -> [address : Nat, mask_pointer : Indices, type : Types,
                         masked : BOOLEAN, enabled : BOOLEAN, last : BOOLEAN,
                         icestatus : BOOLEAN, toremove : BOOLEAN, toadd : BOOLEAN,
                         bpnum : {Software} \cup Slots]]
  /\ bp[MaxTotal - 1].last
  /\ pc \in {"idle", "clear", "set", "run", "dead"}
  /\ at \in Indices
  /\ ice \subseteq [slot : {Software} \cup Slots, type : Types, address : Nat]
  /\ wanted \subseteq Requests

Init == /\ bp = [i \in Indices |-> default_bp]
        /\ pc = "idle"
        /\ at = 0
        /\ ice = {}
        /\ wanted = {}

Same(r, q) == r.type = q.type /\ r.address = q.address

Add(q) ==
  LET r == addBreakpoint(bp, q.address, q.type, q.length) IN
    /\ pc = "idle"
    /\ bp' = r.t
    /\ wanted' = IF r.ok THEN {p \in wanted : ~Same(p, q)} \cup {q} ELSE wanted
    /\ UNCHANGED <<pc, at, ice>>

Delete(q) ==
  /\ pc = "idle"
  /\ bp' = deleteBreakpoint(bp, q.address, q.type).t
  /\ wanted' = {p \in wanted : ~Same(p, q)}
  /\ UNCHANGED <<pc, at, ice>>

DeleteAll ==
  /\ pc = "idle"
  /\ bp' = deleteAllBreakpoints(bp)
  /\ wanted' = {}
  /\ UNCHANGED <<pc, at, ice>>

\* updateBreakpoints, called by jtagContinue.
Update ==
  /\ pc = "idle"
  /\ bp' = Layout(bp).t
  /\ pc' = "clear"
  /\ at' = 0
  /\ UNCHANGED <<ice, wanted>>

\* Mutant: the entry is not marked as gone from the emulator.
ClearStep_Kept ==
  /\ pc = "clear"
  /\ IF at = End(bp) THEN pc' = "set" /\ at' = 0 ELSE pc' = pc /\ at' = at + 1
  /\ IF at # End(bp) /\ bp[at].toremove
       THEN /\ ice' = {b \in ice : b.slot # bp[at].bpnum
                                   \/ (b.slot = Software /\ b.address # bp[at].address)}
            /\ bp' = [bp EXCEPT ![at] = [@ EXCEPT !.toremove = FALSE]]
       ELSE UNCHANGED <<bp, ice>>
  /\ UNCHANGED wanted

\* The first loop: one iteration, or its end.
ClearStep ==
  /\ pc = "clear"
  /\ IF at = End(bp) THEN pc' = "set" /\ at' = 0 ELSE pc' = pc /\ at' = at + 1
  /\ IF at # End(bp) /\ bp[at].toremove
       THEN /\ ice' = {b \in ice : b.slot # bp[at].bpnum
                                   \/ (b.slot = Software /\ b.address # bp[at].address)}
            /\ bp' = [bp EXCEPT ![at] = [@ EXCEPT !.icestatus = FALSE, !.toremove = FALSE]]
       ELSE UNCHANGED <<bp, ice>>
  /\ UNCHANGED wanted

\* The second loop.  The emulator replaces what the slot held.
SetStep ==
  /\ pc = "set"
  /\ IF at = End(bp) THEN pc' = "run" /\ at' = 0 ELSE pc' = pc /\ at' = at + 1
  /\ IF at # End(bp) /\ bp[at].toadd /\ bp[at].enabled
       THEN /\ ice' = {b \in ice : b.slot # bp[at].bpnum \/ b.slot = Software}
                      \cup {[slot |-> bp[at].bpnum, type |-> bp[at].type,
                             address |-> bp[at].address]}
            /\ bp' = [bp EXCEPT ![at] = [@ EXCEPT !.icestatus = TRUE, !.toadd = FALSE]]
       ELSE UNCHANGED <<bp, ice>>
  /\ UNCHANGED wanted

\* The emulator refuses a command, or the link is lost: an exception that
\* nobody catches, between any two commands of an update.
UpdateFails ==
  /\ \/ pc = "clear" /\ at # End(bp) /\ bp[at].toremove
     \/ pc = "set" /\ at # End(bp) /\ bp[at].toadd /\ bp[at].enabled
  /\ pc' = "dead"
  /\ UNCHANGED <<bp, at, ice, wanted>>

\* The program runs and stops again.
Stop == pc = "run" /\ pc' = "idle" /\ UNCHANGED <<bp, at, ice, wanted>>

Dead == pc = "dead" /\ UNCHANGED vars

Next == \/ \E q \in Requests : Add(q) \/ Delete(q)
        \/ DeleteAll \/ Update \/ ClearStep \/ SetStep \/ UpdateFails \/ Stop \/ Dead

Spec == Init /\ [][Next]_vars

-----------------------------------------------------------------------------
(* Properties.                                                             *)

Installed(i) == [slot |-> bp[i].bpnum, type |-> bp[i].type, address |-> bp[i].address]

\* The table knows what the emulator holds: icestatus is set for exactly the
\* breakpoints in it, at the slots in bpnum, whatever was asked for since.
IceMirrored == pc # "dead" => ice = {Installed(i) : i \in {j \in Live(bp) : bp[j].icestatus}}

\* No two breakpoints in the emulator, or on their way into it, share a
\* hardware slot once the layout is final.
SlotsDistinct ==
  pc \in {"set", "run"} =>
    \A i, j \in Live(bp) :
      /\ i # j
      /\ bp[i].icestatus \/ (bp[i].enabled /\ bp[i].toadd)
      /\ bp[j].icestatus \/ (bp[j].enabled /\ bp[j].toadd)
      /\ bp[i].bpnum # Software
      => bp[i].bpnum # bp[j].bpnum

\* When the program runs, the emulator stops it at the enabled breakpoints of
\* the table and nowhere else, which are none that deleteBreakpoint was asked
\* to delete.
RunsAsTold ==
  pc = "run" => /\ \A i \in Live(bp) : bp[i].enabled => Installed(i) \in ice
                /\ \A b \in ice : /\ \E i \in Live(bp) : bp[i].enabled /\ Installed(i) = b
                                  /\ b.type = "DATA_MASK" \/ \E q \in wanted : Same(b, q)

\* What addBreakpoint accepted is in the emulator when the program runs.
RunsWithWanted ==
  pc = "run" => \A q \in wanted : \E b \in ice : Same(b, q)
=============================================================================
