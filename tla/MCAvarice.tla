------------------------------ MODULE MCAvarice ------------------------------
(* An instance of Avarice: two pages of flash, one of EEPROM; command lines  *)
(* for the order of options, for each option alone, for each device, and     *)
(* some that ask for many steps at once.                                     *)
EXTENDS Avarice, TLC

O(c) == [opt |-> c, text |-> ""]
T(c, t) == [opt |-> c, text |-> t]
Line(o, p) == [options |-> o, port |-> p]

Modes == {O("1"), O("2"), O("g"), O("w"), O("x")}
Others == {O("D"), O("h"), O("k"), O("V"), O("?"), T("j", "usb"), T("B", "fast"), T("c", "bad"), T("c", "wide")}

Orders == {Line(<<a, b, c>>, "") : a \in Modes, b \in Modes, c \in {O("2"), O("g"), T("P", "atmega48")}}
Single == {Line(<<o>>, "") : o \in Modes \cup Others}
Named == {Line(<<O("2"), T("P", deviceDefinitions[i].name)>>, "") : i \in Rows}
Ports == {Line(<<>>, p) : p \in {"", ":4242", ":80", "host"}}

Long == {
  Line(<<T("P", "atmega16"), T("c", "1,0,8,0"), O("e"), T("f", "both"), O("p"), O("v"), T("L", "00")>>, ""),
  Line(<<O("e"), T("f", "flash"), T("W", "990000"), T("B", "1MHz")>>, ":4242"),
  Line(<<O("r"), O("l"), T("f", "flash"), O("v")>>, ""),
  Line(<<O("e"), O("R"), T("P", "atmega128"), T("f", "both"), O("v"), O("p"), T("L", "00")>>, "host:4242"),
  Line(<<T("W", "badfuses")>>, ":4242"),
  Line(<<T("L", "bad")>>, ""),
  Line(<<O("e"), O("p")>>, ""),
  Line(<<T("f", "nofile")>>, ""),
  Line(<<T("P", "nodevice")>>, ""),
  Line(<<T("P", "atmega48")>>, ""),
  Line(<<O("C")>>, ":4242") }

MCCommandLines == Orders \cup Single \cup Named \cup Ports \cup Long

MCRateParts == [t \in {"1MHz", "fast"} |-> IF t = "1MHz" THEN [number |-> 1, unit |-> "M"]
                                           ELSE [number |-> NoNumber, unit |-> ""]]
MCChainParts == [t \in {"1,0,8,0", "bad", "wide"} |->
                   CASE t = "1,0,8,0" -> <<1, 0, 8, 0>> [] t = "bad" -> <<1>> [] OTHER -> <<0, 0, 33, 0>>]
MCPortParts == [t \in {":4242", "host:4242", ":80", "host"} |->
                  CASE t = ":80" -> 80 [] t = "host" -> NoNumber [] OTHER -> 4242]

MCFiles == [f \in {"flash", "both"} |->
  IF f = "flash" THEN [flash |-> (0 :> 0) @@ (1 :> 1) @@ (2 :> 1) @@ (3 :> 0) @@ (5 :> 1), eeprom |-> <<>>]
  ELSE [flash |-> (1 :> 0) @@ (4 :> 1) @@ (6 :> 0), eeprom |-> (1 :> 0) @@ (2 :> 1)]]
MCFuseText == [t \in {"990000", "badfuses"} |-> IF t = "badfuses" THEN <<>> ELSE <<0, 1, 0>>]
MCLockText == [t \in {"00", "bad"} |-> IF t = "bad" THEN <<>> ELSE <<0>>]

MCBitrates == <<115200, 19200, 57600, 38400, 9600>>
Params == {"EXTERNAL_RESET", "UNITS_BEFORE", "UNITS_AFTER", "BIT_BEFORE", "BIT_AFTER", "CLOCK",
           "TIMERS_RUNNING", "FLASH_PAGESIZE_LOW", "FLASH_PAGESIZE_HIGH", "EEPROM_PAGESIZE"}

\* Found at two bit rates, in step or not, with a device the mkI knows, one it
\* does not, and one that is not in the table.
MCBoxes ==
  { [rate |-> found.rate, sync |-> found.sync, dead |-> FALSE, running |-> TRUE, progmode |-> FALSE,
     pending |-> NoWrite, params |-> [p \in Params |-> 7], device |-> "", id |-> id,
     mem |-> [flash |-> [a \in Addrs("flash") |-> IF a \in {2, 3} THEN 1 ELSE 0],
              eeprom |-> [a \in Addrs("eeprom") |-> 1],
              fuse |-> [a \in Addrs("fuse") |-> 1], lock |-> [a \in Addrs("lock") |-> 0]]]
    : found \in {[rate |-> 19200, sync |-> TRUE], [rate |-> 9600, sync |-> FALSE]},
      id \in {\h9602, \h9205, 1} }

Q(m, a, n) == [m |-> m, addr |-> a, n |-> n]
MCGdbReads == {Q("flash", 1, 4), Q("flash", 2, 2), Q("flash", 1, 8), Q("eeprom", 1, 2)}
MCGdbWrites == {[m |-> "flash", addr |-> 2, bytes |-> <<0, 1>>], [m |-> "flash", addr |-> 1, bytes |-> <<0, 0>>],
                [m |-> "eeprom", addr |-> 1, bytes |-> <<0>>]}
MCBreakpoints == {[addr |-> a, type |-> "CODE"] : a \in {0, 1, 2}}
                 \cup {[addr |-> a, type |-> "WRITE_DATA"] : a \in {0, 1, 2}}
=============================================================================
