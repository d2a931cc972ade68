---------------------------- MODULE MCJtag2Memory ----------------------------
(* Small instances of Jtag2Memory: three pages of flash and one of EEPROM. *)
EXTENDS Jtag2Memory, TLC

Empty == [flash |-> <<>>, eeprom |-> <<>>]

\* A file with a hole of a page and unused bytes in its last page, one that is
\* partly erased bytes, one for the EEPROM too, and one without data.
MCFiles == {
  [flash |-> (0 :> 0) @@ (1 :> 1) @@ (4 :> 0), eeprom |-> <<>>],
  [flash |-> (1 :> 1) @@ (2 :> 1) @@ (3 :> 1) @@ (5 :> 0), eeprom |-> (0 :> 0) @@ (1 :> 1)],
  [flash |-> <<>>, eeprom |-> (1 :> 0)],
  Empty }

MCInitialFlash == {[a \in 0 .. 5 |-> 1], [a \in 0 .. 5 |-> IF a = 2 THEN 0 ELSE 1]}

Q(m, a, n) == [m |-> m, addr |-> a, n |-> n]
MCReads == {Q("flash", 0, 2), Q("flash", 3, 1), Q("flash", 1, 2), Q("eeprom", 0, 2), Q("lock", 0, 1)}
MCWrites == {Q("flash", 0, 2), Q("flash", 0, 4), Q("flash", 2, 2), Q("eeprom", 0, 2), Q("eeprom", 1, 1)}

\* Whole pages only.
PageReads == {Q("flash", 0, 2)}
PageWrites == {Q("flash", 0, 2)}
=============================================================================
