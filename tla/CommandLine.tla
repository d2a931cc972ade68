----------------------------- MODULE CommandLine -----------------------------
(***************************************************************************)
(* The command line of avarice (main.cc): options in the order they are    *)
(* given, the argument [[host]:port], and what is assumed of what was not  *)
(* said.  getopt is external: it hands out the options one by one.  What   *)
(* sscanf, strtoul and strtol find in a text is a constant; what is made   *)
(* of it is modelled.                                                      *)
(*                                                                         *)
(* An option is a record of its letter and its text; "" is a null pointer. *)
(***************************************************************************)
EXTENDS Integers, Sequences

CONSTANTS
  RateParts,   \* a text of -B: the number in front, and the unit behind it
  ChainParts,  \* a text of -c: the numbers in it
  PortParts    \* a positional argument: the number in it, or NoNumber

NoNumber == -1

\* Options that set a flag, and those whose last text counts.
FlagOptions == {"C", "D", "d", "e", "g", "I", "l", "p", "R", "r", "v", "x"}
TextOptions == {"B", "c", "E", "f", "j", "L", "P", "W"}

\* Help, the list of parts, and the version end the program.
ExitOptions == {"h", "?", "k", "V"}

Defaults ==
  [protocol |-> "MKI", flags |-> {}, text |-> [o \in TextOptions |-> ""],
   jtagBitrate |-> 0, dchain |-> <<0, 0, 0, 0>>, port |-> NoNumber]

\* parseJtagBitrate: a bare number, k or M with anything behind it, or Hz.
RateOK(t) == RateParts[t].number # NoNumber /\ RateParts[t].unit \in {"", "k", "K", "m", "M", "Hz"}
parseJtagBitrate(t) ==
  RateParts[t].number * CASE RateParts[t].unit \in {"k", "K"} -> 1000
                          [] RateParts[t].unit \in {"m", "M"} -> 1000000
                          [] OTHER -> 1

ChainOK(t) ==
  /\ Len(ChainParts[t]) = 4
  /\ ChainParts[t][1] <= ChainParts[t][3] /\ ChainParts[t][2] <= ChainParts[t][4]
  /\ ChainParts[t][3] <= 32 /\ ChainParts[t][4] <= 32

\* -1 always counts; -2 and -g leave debugWire alone.
Protocol(p, opt) ==
  CASE opt = "1" -> "MKI"
    [] opt \in {"2", "g"} -> IF p = "MKII_DW" THEN p ELSE "MKII"
    [] opt = "w" -> "MKII_DW"
    [] OTHER -> p

\* The switch of main, for an option that does not end the program.
OptionOK(o) ==
  /\ o.opt \notin ExitOptions
  /\ o.opt = "B" => RateOK(o.text)
  /\ o.opt = "c" => ChainOK(o.text)

HandleOption(s, o) ==
  [s EXCEPT !.protocol = Protocol(@, o.opt),
            !.flags = @ \cup ({o.opt} \cap FlagOptions),
            !.text = IF o.opt \in TextOptions THEN [@ EXCEPT ![o.opt] = o.text] ELSE @,
            !.jtagBitrate = IF o.opt = "B" THEN parseJtagBitrate(o.text) ELSE @,
            !.dchain = IF o.opt = "c" THEN ChainParts[o.text] ELSE @]

\* Privileged ports are refused.
PortOK(t) == PortParts[t] \in 1024 .. 65535

\* What is assumed in the end; the name of the port is that of the
\* environment's JTAG_DEV, if there is one.
Complete(s, JTAG_DEV) ==
  [s EXCEPT !.jtagBitrate = IF @ = 0 /\ s.protocol \in {"MKI", "MKII"} THEN 250000 ELSE @,
            !.text["j"] = IF @ # "" THEN @
                          ELSE IF JTAG_DEV # "" THEN JTAG_DEV
                          ELSE IF "g" \in s.flags THEN "usb"
                          ELSE "/dev/avrjtag",
            !.text["E"] = IF @ # "" THEN @
                          ELSE "none,run,target_power_on,target_sleep,target_wakeup"]

-----------------------------------------------------------------------------
(* What the rest of main asks of the settings.                             *)

Has(s, flag) == flag \in s.flags
gdbServerMode(s) == s.port # NoNumber
is_usb(s) == s.text["j"] = "usb"

\* A file without -p and -v is programmed.
Program(s) == Has(s, "p") \/ (s.text["f"] # "" /\ ~Has(s, "v"))
Verify(s) == Has(s, "v")

\* Programming or verifying nothing, which is noticed only where the file
\* would be downloaded.
FileMissing(s) == s.text["f"] = "" /\ (Has(s, "p") \/ Has(s, "v"))

\* The protocol of a whole command line, said at once: what follows the last
\* -1 counts, and of that -w before -2 and -g.
ProtocolOf(given) ==
  LET tail == {i \in DOMAIN given : \A j \in DOMAIN given : j >= i => given[j].opt # "1"}
  IN  CASE \E i \in tail : given[i].opt = "w" -> "MKII_DW"
        [] (\E i \in tail : given[i].opt \in {"2", "g"}) /\ ~\E i \in tail : given[i].opt = "w" -> "MKII"
        [] OTHER -> "MKI"
=============================================================================
