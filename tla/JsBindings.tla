----------------------------- MODULE JsBindings ------------------------------
(***************************************************************************)
(* The object jtag of the scripts (jsjtag.cc, jsbreakpoint.cc) in front of *)
(* the breakpoint table of the driver: init() makes a driver and starts    *)
(* its USB daemon (openUSB in jtag2usb.cc), the other methods are passed   *)
(* on while there is one, and the main loop polls it.  An exception out of *)
(* another method than init() ends the process.                            *)
(*                                                                         *)
(* A driver is the number of the call of init() that made it.              *)
(***************************************************************************)
EXTENDS Jtag2Breakpoints, SequencesExt

CONSTANTS
  MaxDrivers    \* bound: calls of init()

ASSUME BindingsAssumption == MaxDrivers \in Nat \ {0}

VARIABLES
  made,         \* calls of init() so far
  origJtag,     \* the driver of the object jtag, or None
  theJtagICE,   \* the driver that main polls, or None
  alive,        \* the drivers that have not been deleted
  ready,        \* the flag of openUSB: a daemon has once said it is ready
  holder,       \* the driver whose daemon has claimed the device, or None
  strays        \* children that are no daemons but consoles of their own

handles == <<made, origJtag, theJtagICE, alive, ready, holder, strays>>
jsVars == <<vars, handles>>

None == 0

-----------------------------------------------------------------------------
(* init().                                                                 *)

\* A table and an emulator nobody has asked anything of yet.
Fresh == /\ bp' = [i \in Indices |-> default_bp]
         /\ ice' = {}
         /\ wanted' = {}
         /\ at' = 0

\* Mutant: nothing is deleted or forgotten.
releaseNativeJtag_Not(pointer) ==
  /\ alive' = alive \cup {made + 1}
  /\ origJtag' = pointer
  /\ theJtagICE' = pointer

\* The driver that the object points to is deleted, if there is one.
releaseNativeJtag(pointer) ==
  /\ alive' = (alive \cup {made + 1}) \ {pointer}
  /\ origJtag' = None
  /\ theJtagICE' = None

\* The constructor throws: the driver in place, if any, is deleted, which signs
\* it off.
ConstructorThrows ==
  /\ alive' = alive \ {origJtag}
  /\ origJtag' = None
  /\ theJtagICE' = None
  /\ pc' = pc
  /\ Fresh
  /\ UNCHANGED <<ready, holder, strays>>

\* Signing off fails: an exception out of the handler.
ReleaseThrows ==
  /\ origJtag # None
  /\ pc' = "dead"
  /\ UNCHANGED <<bp, at, ice, wanted, origJtag, theJtagICE, alive, ready, holder, strays>>

\* The child claims the device and says so, and the emulator answers.
Opened ==
  /\ holder = None
  /\ holder' = made + 1
  /\ ready' = TRUE
  /\ alive' = alive \cup {made + 1}
  /\ origJtag' = made + 1
  /\ theJtagICE' = made + 1
  /\ pc' = pc
  /\ Fresh
  /\ UNCHANGED strays

\* The child claims the device, but the emulator does not sign on.
SignOnFails ==
  /\ holder = None
  /\ holder' = made + 1
  /\ ready' = TRUE
  /\ releaseNativeJtag(made + 1)
  /\ pc' = pc
  /\ Fresh
  /\ UNCHANGED strays

\* There is no device, or another daemon has it: opendev fails in the child,
\* whose copy of createJtag deletes its copy of the driver in place, and so
\* signs it off, and returns to a console of its own.  The parent waits for
\* ever, or, if a daemon has been ready before, does not wait: then nobody
\* answers its sign-on.
ChildFails ==
  /\ strays' = strays + 1
  /\ IF ready
       THEN pc' = pc /\ releaseNativeJtag(made + 1) /\ Fresh
       ELSE pc' = "hung" /\ UNCHANGED <<bp, at, ice, wanted, origJtag, theJtagICE, alive>>
  /\ UNCHANGED <<ready, holder>>

createJtag ==
  /\ pc = "idle"
  /\ made < MaxDrivers
  /\ made' = made + 1
  /\ ConstructorThrows \/ ReleaseThrows \/ Opened \/ SignOnFails \/ ChildFails

-----------------------------------------------------------------------------
(* The other methods.                                                      *)

\* The methods that edit the table, and the update that a script asks for: with
\* no driver they report an error.
Bound == /\ origJtag # None
         /\ \/ \E q \in Requests : Add(q) \/ Delete(q)
            \/ DeleteAll \/ Update \/ ClearStep \/ SetStep \/ UpdateFails \/ Stop
         /\ UNCHANGED handles

\* Mutant: the list ends at the first entry that is off.
getBreakpoints_Enabled(t) ==
  LET off == {i \in Live(t) : ~t[i].enabled}
      n == IF off = {} THEN End(t) ELSE CHOOSE i \in off : \A j \in off : i <= j
  IN  [i \in 1 .. n |-> [address |-> t[i - 1].address, type |-> t[i - 1].type]]

\* The list a script gets: copies of all entries in use, also of those that are
\* disabled, up to the one marked last.
getBreakpoints(t) ==
  [i \in 1 .. End(t) |-> [address |-> t[i - 1].address, type |-> t[i - 1].type]]

\* JS_JTAGICE_AVAILABLE_CHECK: an error for the script, and nothing else.
Unavailable == pc = "idle" /\ origJtag = None /\ UNCHANGED jsVars

\* A child ends: the handler of SIGCHLD ends the process.
childhandler ==
  /\ holder # None \/ strays > 0
  /\ pc # "dead"
  /\ pc' = "dead"
  /\ UNCHANGED <<bp, at, ice, wanted, handles>>

Stopped == pc \in {"dead", "hung"} /\ UNCHANGED jsVars

JsInit == /\ Init
          /\ made = 0
          /\ origJtag = None
          /\ theJtagICE = None
          /\ alive = {}
          /\ ready = FALSE
          /\ holder = None
          /\ strays = 0

JsNext == createJtag \/ Bound \/ Unavailable \/ childhandler \/ Stopped

JsSpec == JsInit /\ [][JsNext]_jsVars

-----------------------------------------------------------------------------
(* Properties.                                                             *)

\* The methods and the main loop use the same driver, and one that exists,
\* whatever has become of earlier ones and of failed calls of init().
PointersAlive == /\ theJtagICE = origJtag
                 /\ origJtag # None => origJtag \in alive

\* A driver the scripts may use has the daemon that holds the device: a failed
\* init() leaves none behind that nobody answers.
DriverConnected == origJtag # None => holder = origJtag

\* A script that gets through to a driver gets through to the emulator, and main
\* polls the same one.
DriverUsable == PointersAlive /\ DriverConnected

\* getBreakpoints shows a script every breakpoint that was accepted and not
\* deleted, and every one the emulator still stops at, once each.
ListTells ==
  origJtag # None /\ pc # "dead" =>
    LET list == getBreakpoints(bp) IN
      /\ \A q \in wanted \cup ice : \E e \in Range(list) : Same(e, q)
      /\ \A i, j \in DOMAIN list : i # j => list[i] # list[j]
=============================================================================
