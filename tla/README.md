# jtag-js in TLA+

jtag-js drives the Atmel JTAG ICE (mkI and mkII) that debugs and programs an
AVR microcontroller. It is a fork of AVaRICE with two front ends: `avarice`
(`main.cc`, `remote.cc`), which serves GDB, and `manuel` (`main2.cc`, `js.cc`,
`jsjtag.cc`), a JavaScript console with a terminal and TCP clients. Paths below
are relative to `src/` in the repository.

## The system

| Part | State | Operations | Talks to |
|---|---|---|---|
| Command line (`main.cc`) | the settings, the place in `main` | the options in their order, the defaults, the choice of driver; then erasure, fuses, lock bits, on-chip debugging, download, session | the driver |
| Device tables (`devdescr.cc`) | none | search by id or by name | both drivers |
| mkI driver (`jtagio.cc`, `jtagrw.cc`, `jtagprog.cc`, `jtagrun.cc`, `jtagbp.cc`) | the port's bit rate, `programmingEnabled`, two lists of breakpoints | `sendJtagCommand`, `doJtagCommand`, `synchroniseAt`, `startJtagLink`, `initJtagBox`, `jtagRead`, `jtagWrite`, `addBreakpoint`, `updateBreakpoints` | the emulator, over a serial line, without sequence numbers |
| mkII command layer (`jtag2io.cc`) | `command_sequence`, `signedIn`, `debug_active` | `sendFrame`, `recvFrame`, `recv`, `sendJtagCommand`, `doJtagCommand`, `doSimpleJtagCommand`, `synchroniseAt`, `startJtagLink`, `initJtagBox`, destructor | the emulator, over a serial line or the USB daemon |
| mkII breakpoints (`jtag2bp.cc`) | the table `bp` | `addBreakpoint`, `deleteBreakpoint`, `deleteAllBreakpoints`, `layoutBreakpoints`, `updateBreakpoints` | GDB stub or script; the command layer |
| USB daemon, event loop (`jtag2usb.cc`, `jtag2run.cc`) | a process of its own with its `polling` flag; two socket pairs | forward, read, poll, reset endpoints; `jtagContinue`, `eventLoop`, `pollDevice`, `startPolling` | the driver process, the device |
| mkII memory and programming (`jtag2rw.cc`, `jtag2prog.cc`) | flash and EEPROM page caches, `programmingEnabled`, device registers | `jtagRead`, `jtagWrite`, `enableProgramming`, `eraseProgramMemory`, `downloadToTarget` | the command layer |
| Flash images, fuses (`jtaggeneric.cc`) | none | `jtag_flash_image`, fuse and lock bits, `timeout_read`, `safewrite` | memory, of either driver |
| JavaScript bindings (`jsjtag.cc`, `jsbreakpoint.cc`) | the native `jtag2` object, twice: for scripts and for `main` | `init()` (`createJtag`, `releaseNativeJtag`), `getBreakpoints`, the methods of the driver; `childhandler` | driver, daemon |
| JavaScript console (`main2.cc`, `tcp2.cc`, `terminal-io.cc`, `thread.hh`, `js.cc`) | listener list, input queues, partial lines, the interpreter | threads for the terminal, the TCP server and each client; the main loop evaluates | the bindings |
| GDB stub (`remote.cc`) | packet buffers, the last command, the byte left over by a write | `getpacket`, `putpacket`, `talkToGdb`, `repStatus` | GDB, the driver |
| Serial port settings, register names, DWARF printer, utilities | | | |

What is hard about it:

- **Numbers and retries.** A mkII request is repeated up to ten times with the
  same number; the answers to the earlier attempts may still arrive, during
  this call or a later one, and numbers wrap around. Correct: a caller gets an
  answer to its own request.
- **No numbers at all.** The mkI numbers nothing. Correct, all the same: what
  came before is thrown away before a request is sent, and when the driver has
  lost track it sends blanks until one is answered.
- **Exceptions.** They abandon a call in the middle and, in one front end, are
  caught by code that deletes the object, whose destructor talks to the
  emulator again; the objects that pointed to it must forget it.
- **The order of options and of steps.** Options overrule each other by their
  order; a dozen steps of `main`, most of them optional, each rely on the state
  the one before it left the emulator and the target in.
- **A table with a memory.** An entry of the breakpoint table may be wanted,
  pending, installed, or pending removal, in any mixture, for three hardware
  slots with different abilities. Correct: when the program runs, the emulator
  stops it where it was asked to.
- **Three processes.** The driver, the USB daemon and the emulator exchange
  requests, frames in pieces, and unsolicited events, and what the daemon reads
  depends on requests that travel beside the data. Correct: frames whole and in
  order, and the stop of the program noticed.
- **Caches.** Pages of flash and EEPROM are cached in the driver and written
  behind the cache.
- **Packets.** GDB's commands and the stub's answers are acknowledged, repeated
  and interrupted on one connection, while the stub is busy with the emulator.
- **Threads.** The console's listeners come and go while the main loop
  evaluates what they sent, under locks that are not recursive everywhere.

`PROJECT.json` lists these hazards one by one, at their lines.

## The modules

| Module | Models | Checked by |
|---|---|---|
| `RequestReply` | what the command layer promises: an answer belongs to the request that waits | as a property of `link_session` |
| `Jtag2Link` | the mkII command layer | `link_session`, `link_abandoned` |
| `Jtag2LinkProofs` | theorems about `Jtag2Link`, the refinement among them | TLAPS |
| `Jtag2Breakpoints`, `MCJtag2Breakpoints` | table, slot layout, update | `bp_table`, `bp_slots` |
| `Jtag2BreakpointsProofs` | theorems about `Jtag2Breakpoints` and `JsBindings` | TLAPS |
| `JsBindings`, `MCJsBindings` | the native objects behind the scripts, `init()` and its failures | `bp_table` |
| `FrameChannel` | what the USB connection promises: frames in order, each at most once | as a property of `usb_frames` |
| `UsbDaemon` | driver process, daemon, device | `usb_frames` |
| `UsbDaemonProofs` | theorems about `UsbDaemon`, the refinement among them | TLAPS |
| `Jtag2Memory`, `MCJtag2Memory` | memory access, page caches, programming mode, downloads, the steps of `main` with a mkII | `memory`, `memory_stale` |
| `Jtag2MemoryProofs` | theorems about `Jtag2Memory` | TLAPS |
| `JsConsole` | main loop, terminal, server and clients of the console | `console`, `console_hang` |
| `JsConsoleProofs` | theorems about `JsConsole` | TLAPS |
| `GdbRemote`, `MCGdbRemote` | packets and commands of the GDB stub, over either driver | `gdb_session`, `gdb_load` |
| `GdbRemoteProofs` | theorems about `GdbRemote` | TLAPS |
| `CommandLine` | options, defaults, what the rest of `main` asks of them | `avarice_mki` |
| `DeviceTable` | the rows of `deviceDefinitions` and the searches | `avarice_mki` |
| `Jtag1Box` | mkI requests and what is made of the answers; the emulator and the target; the breakpoint lists | `avarice_mki` |
| `Jtag1Link` | the mkI command layer and the line | `avarice_mki` |
| `Avarice`, `MCAvarice` | `avarice` from its command line to a session | `avarice_mki` |
| `AvariceProofs` | theorems about `Avarice`, `Jtag1Link` and `Jtag1Box` | TLAPS |
| `AvariceTargetProofs` | theorems about what `Avarice` makes of its command line: device, fuses and lock bits | TLAPS |

`Avarice` EXTENDS `CommandLine`, `DeviceTable` and `Jtag1Link`, which EXTENDS
`Jtag1Box`: with the mkI one specification goes from the first option to the
bytes of the target's memory. With the mkII it ends when the device is
configured; `Jtag2Link` has the link from there on and `Jtag2Memory` the steps.
`JsBindings` EXTENDS `Jtag2Breakpoints`: the scripts' object in front of the
table it hands calls to.

`Jtag2Link` takes the line as two queues that lose frames; `UsbDaemon` shows
that the connection by way of the daemon is such a queue (`FrameChannel`; the
refinement is the theorem `ChannelImplemented`), so that the two modules compose
without a product of their states.
`Jtag2Breakpoints` takes a command as an atomic exchange that is performed or
throws, which is what `RequestReply` promises, and `Jtag2Memory` and `GdbRemote`
do the same. `GdbRemote` keeps of the breakpoints which addresses have one, and
whether the driver had room for it, which `Jtag2Breakpoints` refines into entries
and slots.

An operator whose name ends in `_` and a word (`Accept_Unmatched`) is a variant
of the operator that follows it, with a mistake in it: `PROJECT.json` says which
property notices when the one takes the place of the other. No specification
uses it.

### Jtag2Link

A frame is its sequence number and a class of response (`ok`, any other
positive code, a negative one). `call` is the retry loop in progress with its
count, `stage` says where the `jtag2` object is in its life: sign-on at one bit
rate after the other, the parameters set by `startJtagLink`, the rest of
`initJtagBox`, the session, and the two commands of the destructor.

| Action | Code |
|---|---|
| `StartCall` | `doJtagCommand`, `doSimpleJtagCommand`, `synchroniseAt` up to the first frame sent |
| `NoAnswer` | `recvFrame` times out or finds a bad CRC; the loop sends again or throws |
| `Discard` | `recv` drops an event or a frame with another number and waits anew |
| `Receive` | `recv` accepts; what each of the three loops makes of the response (`Conclude`) |
| `ReceiveCut`, `Crash` | the bytes stop inside a frame |
| `Advance` | `initJtagBox` returns, the object is deleted |
| `LoseRequest`, `LoseReply`, `IceAnswer`, `IceEvent` | the line and the emulator |

`xid`, `answers` and `got` are history: the code has no notion of the exchange
a frame belongs to, which is why the property is worth stating. In the avarice
front end an exception ends the process; in the console `createJtag` catches
the exceptions of the initialisation and runs the destructor.

### Jtag2Breakpoints

The table is modelled entry by entry, with the flags of `breakpoint2`. The
functions that edit it (`addBreakpoint`, `deleteBreakpoint`, `Layout` with its loops `LayoutData` and
`LayoutCode`) are
operators from tables to tables; `Update`, `ClearStep` and `SetStep` are the
loops of `updateBreakpoints`, one command of the emulator per step, any of
which may fail (`UpdateFails`). `ice` is what the emulator holds, `wanted` what
the debugger was told is set.

### JsBindings

A driver is the number of the call of `init()` that made it. `origJtag` and
`theJtagICE` are the two pointers, `alive` the drivers not yet deleted, `ready`
the static flag of `openUSB`, `holder` the driver whose daemon has claimed the
device.

| Action | Code |
|---|---|
| `createJtag` | `init()` (`jsjtag.cc:183`), one disjunct per outcome |
| - `ConstructorThrows`, `ReleaseThrows` | an exception out of the constructor; out of the destructor of the driver in place, which nothing catches |
| - `Opened`, `SignOnFails` | the child claims the device; the emulator answers or not |
| - `ChildFails` | the child cannot claim it, and goes on as a console of its own; the parent waits for good the first time, and not at all once `ready` is set |
| `Bound` | the breakpoint methods and the update, as in `Jtag2Breakpoints` |
| `Unavailable` | `JS_JTAGICE_AVAILABLE_CHECK` |
| `childhandler` | SIGCHLD ends the process |

`getBreakpoints` is the list a script gets, of which `ListTells` says what it
tells.

### UsbDaemon

`host` is the driver process inside `recv` or `pollDevice`, `toUsb`, `ctrl` and
`toHost` are the socket pairs, `daemon` is where the daemon is in its loop and
whether it polls, `usbOut` and `usbIn` are the endpoints. A frame crosses the
last hop in packets, each of which knows how many are to follow, as the header
of the first one says in the code. Data and `r` are written in one step, as the daemon
takes data first in any case; a reset is asked for in a step of its own, so that
it may be carried out before or after the next attempt is on its way.

| Action | Code |
|---|---|
| `StartCall` | `sendJtagCommand`: data, then `r` |
| `Retry`, `Resend` | a timeout, with `c` after the fourth attempt and each later one; then data and `r` again, or the end of the process |
| `CallReturns`, `CallDiscards` | `recv`; `jtagContinue` goes on to `eventLoop`, which sends `p` |
| `PollStarts`, `PollReturns` | `pollDevice` |
| `Forward`, `Control`, `SelectTimeout` | the upper half of the daemon's loop: data first |
| `Read`, `ReadTimeout`, `ReadMore` | the lower half, and its inner loop for the rest of a frame |

### Jtag2Memory

`sys` is the driver object and the target together: `programmingEnabled` and the
two page caches of the one, the memories and the programming mode of the other.
What the driver does are operators from `sys` to `sys`, because the code calls
them inside each other (a read enables programming mode and leaves it again,
inside a download that has enabled it). A byte is one bit, since the code
distinguishes erased bytes from others and verification compares them. The flag
`programmingEnabled` starts with either value, as no constructor sets it
(`jtag.h:108`).

| Action or operator | Code |
|---|---|
| `enableProgramming`, `disableProgramming`, `eraseProgramMemory`, `eraseProgramPage` | the functions of these names (`jtag2prog.cc`) |
| `jtagRead`: `ReadPages`, `ReadSpm`, `ReadPlain` | the three ways to read, chosen by `memorySpace`; `ReadPages` with the caches and the offset that is not reset, `ReadSpm` with the rounding to words |
| `jtagWrite` | erasure on the first block of a GDB load, the check of the page size, the write |
| `Skip`, `Erase`, `ReadBits`, `WriteBits`, `InitJtagOnChipDebugging` | the steps of `main` (`main.cc:522` on), each of which the command line may leave out |
| `StartDownload`, `ProgramPage`, `EndProgram`, `VerifyPage`, `EndImage`, `EndDownload` | `downloadToTarget` and the two loops of `jtag_flash_image` |
| `ResetProgram` | the reset behind a download, which over JTAG waits in a loop without an exit (`pos = "stuck"`) |
| `Read`, `Write` | GDB or a script |
| `Script` | what only scripts may call, in any order |
| `ProgramWrites` | external: the program on the target writes its EEPROM |
| `Dies` | a command is refused, or `check` fails, and the process exits |

### JsConsole

A listener is an object at an address, because the code keeps pointers and an
address can come back with another client. `main`, `server` and `client[c]` are
the program counters of the threads, `lock` is the lock of the listeners with
its owner and level, and `apple` says whether its owner may take it again
(`thread.hh:44`).

What a listener hands to `main` at once is a *text*. A line typed at the terminal
is one; from a connection it is everything up to the last newline of what has been
read (`tcp2.cc:118`), so that lines that come in one read are one text, evaluated
together and answered once. That newline stays at the front of `line`
(`tcp2.cc:123`, `newline`), where a later read without one finds it: an empty text
is queued, which `main` evaluates and answers too, unless it waits for the rest of
a unit. `sent` and `got` are history: of each text whether it completes a unit,
and of each answer the texts it is the result of.

| Action | Code |
|---|---|
| `MainPoll`, `MainLock`, `NextListener`, `MainUnlock` | the loop of `main` (`main2.cc:99`) |
| `TakeText`, `Eval`, `EvalSpeaks`, `EvalQuit` | `pollListener`, with the four ways the evaluation of a unit can go |
| `Accept`, `PushFront`, `Announce` | `TCPServer::doWork` and the constructor of `TCPClient` |
| `Type` | `doWork` of the terminal |
| `Send`, `SendPiece`, `Deliver` | `doWork` of a client: a read with newlines, one without, and what is written |
| `Leave`, `Remove`, `Free`, `EndOfInput` | the ends of these threads, and the destructor |

A thread that prints to a listener that was freed ends the model
(`process = "crashed"`), as nothing can be said of the program from there on.

### GdbRemote

A packet, an acknowledgement and the interrupt character are one token each on
`toStub` and `toGdb`. `stub.pc` is where `talkToGdb` is, and `stub.out` the packet
for whose acknowledgement `putpacket` waits, wherever it was called from; a
character other than `+` makes it send once more. `box` says which driver is
below. Commands are grouped by what they do: queries, registers and data memory
change nothing here.

| Action | Code |
|---|---|
| `Skip`, `GetPacket`, `BadChecksum` | `getpacket`; three texts go to GDB before a damaged packet is refused |
| `Acknowledged`, `Retransmit` | the loop of `putpacket` |
| `Eof` | `getDebugChar` at the end of the connection |
| `Query`, `Kill`, `Reset`, `Hup`, `Write`, `Insert`, `Remove`, `BadType`, `Detach`, `Resume` | the cases of `talkToGdb` |
| `Continue`, `SingleStep`, `Stepped`, `AddReturn`, `RunHandler`, `Status` | `jtagContinue`, `jtagSingleStep`, `singleStep`, `handleInterrupt`, `repStatus` |
| `Dies` | an exception of the driver, which nothing catches |
| `GdbSend`, `GdbTake`, `GdbTimeout`, `GdbInterrupt`, `GdbCloses`, `Damage` | external: GDB, its user and the line |

Neither driver runs a program in good order: `eventLoop` of the mkII never
returns (`stub.pc = "loop"`), and `jtagContinue` of the mkI, most of which is
compiled only under `GDB_FUNCTIONALITY_XXX`, returns an undefined value without
having started anything, which the model chooses. `done`, `asked` and `image`
are history: the commands carried out, the breakpoints GDB was told are set
(`told`) with those of them the driver had room for (`held`), and the bytes GDB
was told are written. `told` and `held` differ for the mkII only, whose
`addBreakpoint` switches an entry without room off again and still returns `true`
(`jtag2bp.cc:311`), which `handleInterrupt` does not notice either.

### Jtag1Link and Jtag1Box

`Jtag1Box` has the mkI's requests: how `jtagRead` and `jtagWrite` turn an access
into words or bytes of a memory space, which byte of the answer is which
(swapped or not, one in front of an odd address), the two lists of breakpoints
and the four comparators; and, external, what the emulator does to the target
on each request (`Outcomes`).

`Jtag1Link` sends them. `call.phase` says in which of the nested loops the
driver waits: for the first byte of an answer (`command`), for its rest
(`body`), for the answer to a blank (`resync`) or to the sign-on that quietens
a talking target (`hush`, `hushBody`), or in the attempts of `startJtagLink`
(`wake`, `sign`, `signBody`).

| Action | Code |
|---|---|
| `Begin` | `doJtagCommand` up to its first `sendJtagCommand` |
| `startJtagLink`, `NextAttempt` | the loops over bit rates and attempts (`synchroniseAt`) |
| `Timeout`, `FirstOk`, `FirstInfo`, `FirstOther` | the cases of `sendJtagCommand` by the first byte, and what the loop it was called from does next |
| `Body` | `getJtagResponse` |
| `IceAnswers`, `IceDeaf` | external: the emulator, in step and at the right bit rate or not |
| `Fault` | external: a request or an answer lost, cut or damaged, an info first or instead, a refusal, an emulator that goes dead |

A token on `toHost` remembers the request it answers. An answer that has not
come in time is taken as lost: the code has no means against a late one, and
with late answers nothing could be said about a protocol without numbers.

### Avarice

`opts` are the settings, `main` the place in `main`, `todo` what is left of its
current step: calls of the driver in their order, each with what is made of its
answer. A step that writes, reads back and compares (`WriteBits`) is such a
sequence, and so are the two loops of `jtag_flash_image`, which is faithful
because nothing in the code decides on further commands but the answers named
in `then`. `drv` is the driver object.

| Action | Code |
|---|---|
| `GetOption`, `EndOfOptions` | the options of `main.cc:295`, the port, the defaults |
| `ConfigureMkII` | `initJtagBox` and `deviceAutoConfig` of the mkII, as far as the table decides |
| `Connect` | the constructor of the mkI driver; over USB its first command cannot be sent |
| `NextStep` | the next of `main`'s steps (`Calls`), of which the command line leaves out most |
| `StartSync`, `StartCall` | the next call of the step |
| `Answered` (`Then`) | the device is looked up, lock bits and OCDEN are decided on, a page is verified, the bit rate of the port follows |
| `Check` | `check` and `jtagCheck`: an exception ends the process |
| `Dies` | attempts have run out |
| `GdbAccess`, `Insert`, `Remove` | a session: memory accesses, interrupt and breakpoints |

## The runs

| Run | Shows | Bounds |
|---|---|---|
| `link_session` | at most two exchanges share the line, in order and with distinct numbers, so that an accepted reply is the right one (`LinkInv`); the layer implements `RequestReply`; a call ends if events do (`CallEnds`) | numbers wrap around at 3, three attempts, two bit rates, 6 exchanges, one event in flight, damaged and cut frames, avarice front end |
| `bp_table` | table, emulator and debugger agree through additions, deletions and updates that take over entries of a full table; a script's list of breakpoints tells all of them; after any failed `init()` scripts and `main` have the same driver, connected, or none (`DriverUsable`) | code breakpoints and watchpoints for two entries, three calls of `init()` |
| `bp_slots` | hardware slots are never shared, and what was accepted is installed | four code breakpoints, three slots |
| `usb_frames` | frames stay whole and in order through resets; a read that is asked for is served | either front end, two calls, answers of up to two packets, a reset at every retry, one event |
| `memory` | the flag of the programming mode is the target's once it has been set; reads are right unless the cached page has changed, and over JTAG avarice never shows GDB an old page; a verified file is in the target, an unverified one too if its pages were erased, and other pages stay | pages of 2 bytes, three of flash and one of EEPROM; four files: with a hole, with erased bytes, with both memories, with no data; flash erased or not; with and without debugWire |
| `console` | the list holds living listeners only, each once, and does not change under the iterator of `main`; each complete unit is answered once, in order, to its sender, and each answer is the result of exactly the texts since the one before, but for those an earlier client at the address has left in front of the first; unless the console ends or hangs | the terminal and two clients at one address, two texts in all of up to two lines each, empty ones too, four kinds of lines, both builds of the lock |
| `gdb_session` | every command is carried out once, undamaged and in order, before it is answered; no command is taken for an acknowledgement, except after a reset that failed; between commands the breakpoints are those of GDB's the driver had room for, with the mkI all that GDB was told are set; a command is answered, and the server ends with GDB, unless the driver does not return | three commands of twelve, one damaged packet, one interrupt, flash of two bytes, one place for breakpoints, either emulator |
| `avarice_mki` | answers without numbers are never confused; protocol and device are those the command line and the emulator call for, and their pages fit; between steps the target is stopped and out of programming mode; fuses, lock bits and debugging end up as asked, a verified file is there; without a fault avarice stops for its user's reasons only; GDB reads what is in memory and its breakpoints fit the comparators; avarice settles | 358 command lines: the protocol options in all orders of three, each option alone, each device by name, and eleven with many steps; six emulators: two bit rates, in step or not, three devices; one fault anywhere; two pages of flash, one of EEPROM; one access and four breakpoint commands by GDB |

Numbers need to wrap around more than once within the bound on exchanges, which
a limit of 3 with 6 exchanges does; two exchanges on the line at once need two
attempts, and a third shows what a further one adds. Four breakpoints are one
more than the slots, so that software breakpoints and reuse occur; addresses
are compared for equality only, and `InOrder` keeps one representative of the
orders in which a roomy table is filled. Three calls of `init()` are one that
succeeds or leaves `ready` set, one that fails behind it, and one after that.
Two packets make a frame that can be cut, two calls a late answer. Three pages
are the first, a hole or an inner one, and the last of a file; a page of two
bytes has a first byte that is not its last, which is what a wrong loop or a
wrong test for emptiness confuses. Two clients and one address let an address
be used again while something of its first client is still about; two lines of
one sender can be answered in the wrong order. Three commands are one before
and one after the one that is damaged or interrupted, and a breakpoint at the
only address meets the one of `handleInterrupt` there; with two damaged packets
and two interrupts (4.5 million states) the safety properties hold as well.
In `avarice_mki` one fault is enough to get into each of the nested loops at
each command of each step; the attempts are the ten and three of the code,
which the fault of a dead emulator exhausts. A page of four bytes has two
words, so that swapping, an odd address and a page boundary are told apart. Of
the four breakpoints two data addresses and two code addresses exist in one word.

Runs that are expected to fail show where the code disagrees with what it says
of itself; the counterexample is the argument.

| Run | Disagreement |
|---|---|
| `link_abandoned` | after an exception the destructor reuses the number of the abandoned exchange and takes its late answer |
| `memory_stale` | nothing invalidates the page caches: a page that was read, written and read again comes from the cache, for a script in programming mode and for GDB under debugWire, although `jtag.h:274` says that target memory is read |
| `gdb_load` | a program that GDB loads in parts that meet at an odd address is not what flash holds: the byte between them is read from behind the buffer, in the code that is there to catch this case (`remote.cc:519`) |
| `console_hang` | an error in a script, or `load`, prints to the listeners while `main` holds their lock, which only a build for Apple may take again |

Other disagreements met on the way have no run of their own.

- Command layer: `recvFrame` promises valid frames and returns one that was cut
  (`jtag2io.cc:188`); when `RESTORE_TARGET` is never answered the destructor is
  left by an exception before the sign-off it means to send in any case
  (`jtag2io.cc:49`); `doSimpleJtagCommand` repeats a refused command, not only
  one that timed out (`jtag2io.cc:376`); events that keep coming keep `recv`
  waiting (`jtag2io.cc:264`), which is the premise of `CallEnds`.
- Breakpoints: adding one again before its removal was sent, with no room for
  another, leaves it in the emulator for good; a range watchpoint is stored
  under a type it is not looked up by; the mask of a range breakpoint is never
  found (`jtag2bp.cc:286`) and a refused range cuts the table (`jtag2bp.cc:258`);
  `addBreakpoint` reports success without room (`jtag2bp.cc:311`), so that GDB is
  told of breakpoints that are not there: `asked.held` of `GdbRemote` is then less
  than `asked.told`, and `BreakpointsKept` speaks of the former.
- Daemon: any frame ends polling, which `eventLoop` asks for once, so that an
  event that does not stop the program hides the stop; in the console `recv`
  throws away the stop that `pollListener` waits for; `eventLoop` does not look
  at what `pollDevice` tells it (`jtag2run.cc:259`).
- Bindings: `ready` is never reset (`jtag2usb.cc:487`), so that a second
  `init()` does not wait for its daemon; a child that cannot claim the device
  returns into the console's code and goes on as a second console, after its
  copy of the handler has signed the first driver off.
- Memory: a read over several pages goes on with the offset of the first one
  (`jtag2rw.cc:187`); an even number of bytes from an odd flash address is one
  byte short (`jtag2rw.cc:115`); unused bytes of a page are written as 0x00
  (`jtaggeneric.cc:219`), so that another pass into the same page finds it
  cleared; `programmingEnabled` has no value before it is first set
  (`jtag.h:108`), so that a GDB that reads first may read the wrong space.
- Device tables: the rows of the ATxmega devices have pages larger than the
  caches they are read into (`jtag2.h:139`); `PageFitsCache` excepts them.
- GDB stub: a text is sent when `R` fails, and the next command may be taken for
  its acknowledgement (`remote.cc:492`; GDB repeats it); after an interrupt an
  acknowledgement may stand for a packet that was refused, which GDB then waits
  for (the exception of `Answered`); the byte that an odd write leaves over is
  dropped if the next command is another one; an unknown type of breakpoint ends
  the process (`remote.cc:903`); neither driver returns from running a program
  as its callers expect (`jtag2run.cc:257`, `jtagrun.cc:204`).
- mkI: `jtagWrite` does not look at the answer to its second command
  (`jtagrw.cc:251`), which is why some properties except refusals; whether the
  program stopped again is asked by nobody (`jtagio.cc:323`); an info is taken
  for a success by `checkForEmulator`; the comparators stay armed when the last
  breakpoint is removed (`jtagbp.cc:251`). `jtag1.h:33` says that there are
  apparently "a total of three hardware breakpoints" and that "we allow up to 3
  breakpoints", and `doc/avarice.1` that there are "only three"; the code allows
  four (`MAX_BREAKPOINTS`, `jtag1.h:56`), and `updateBreakpoints` puts them into
  four comparators. `BreakpointsPlaced` counts on the four the code counts on: it
  says that the code's two limits and its placing agree, not that the emulator has
  a fourth comparator. Were there three, the fourth breakpoint would be accepted,
  and GDB told OK, without a place for it.
- Command line: `-p` or `-v` without `-f` is refused only after erasure and
  fuses (`main.cc:583`); the parameters of the serial port that `jtag.h` says
  are restored on exit are not on most exits.
- Console: `currentIO` stays what it was when its client has gone, and is
  printed to; `listenerBufs` is kept by address, so that a client continues the
  unit of one that left, and its first answer is the result of both, which
  `AnswersInOrder` allows there and nowhere else; lines that come in one read get
  one answer, and pieces without a newline get answers to nothing
  (`tcp2.cc:118` to `123`); a listener that always has a line keeps `main` from
  the others (`main2.cc:61`).

### Fairness

`Jtag2Link!FairSpec` assumes that the host thread takes steps: it blocks only in
a read with a timeout, so that `NoAnswer` is always possible. Nothing is
assumed of the emulator or the line. `UsbDaemon!FairSpec` assumes that the
daemon and the driver loop, which they do without ever blocking for good, and
that the device finishes a frame it has begun; nothing about when calls are
made, answers come or the program stops. `JsConsole!FairSpec` assumes that
`main` goes on whenever it can, as it polls without blocking except on the lock,
and that the thread of a terminal or a client writes what is queued for it.
Nothing is assumed of the users or of the server. `GdbRemote!FairSpec` assumes
that the stub goes on, as it waits for nothing but GDB, and that GDB reads what
it waits for and repeats a command that is not acknowledged; not that it sends
one, goes or stays. `Avarice!FairSpec` assumes that the process goes on, which
waits only in reads with a timeout, and that the line hands a request over or
loses it; a dead emulator, and a GDB that asks for nothing, are allowed.

## The proofs

Each theorem holds for all values of the constants that the named assumption of
its module admits, and therefore for any number of retries, listeners, command
lines and so on; TLC has checked the invariants on the instances above first.

| Theorem | States |
|---|---|
| `Jtag2LinkProofs!TypeCorrect` | `Spec => []TypeOK` |
| `Jtag2LinkProofs!LinkInvariant` | `Spec => []LinkInv` |
| `Jtag2LinkProofs!ReplySound` | `Spec => []ReplyAnswersExchange`, a corollary |
| `Jtag2LinkProofs!LinkImplements` | with `Frontend = "avarice"`: `Spec => ImplementsRequestReply` |
| `Jtag2BreakpointsProofs!TypeCorrect` | `Spec => []TypeOK`, for any requests |
| `Jtag2BreakpointsProofs!TableSound` | `PlainRequests /\ Spec /\ [][Granted]_vars => [](IceMirrored /\ SlotsDistinct)` |
| `Jtag2BreakpointsProofs!RunsSound` | the same hypotheses `=> [](RunsAsTold /\ RunsWithWanted)` |
| `Jtag2BreakpointsProofs!CodeTableSound` | `OnlyCode /\ Spec =>` all four |
| `Jtag2BreakpointsProofs!HandlesSound` | `JsSpec => []DriverUsable` |
| `Jtag2BreakpointsProofs!BindingsSound` | `PlainRequests /\ JsSpec /\ [][Granted]_vars =>` all four and `[]ListTells` |
| `Jtag2BreakpointsProofs!CodeBindingsSound` | `OnlyCode /\ JsSpec =>` the same |
| `Jtag2MemoryProofs!MemoryInvariant` | `Spec => [](MemoryInv /\ DownloadInv)` |
| `Jtag2MemoryProofs!TypeCorrect` | `Spec => []TypeOK` |
| `Jtag2MemoryProofs!ModesSound`, `ModeKept` | `Spec => []ModesAgree`, `Spec => ModeRestored` |
| `Jtag2MemoryProofs!ReadsSound` | `Spec => []ReadCurrent` |
| `Jtag2MemoryProofs!VerifiedIsThere`, `ProgrammedIsThere` | `Spec => []VerifySound`, `Spec => []ProgramSound` |
| `UsbDaemonProofs!WireInvariant` | `Spec => []WireInv` |
| `UsbDaemonProofs!TypeCorrect`, `FramesWhole` | `Spec => []TypeOK`, `Spec => []WholeFrames` |
| `UsbDaemonProofs!ChannelImplemented` | `Spec => ImplementsChannel`: the connection by way of the daemon refines `FrameChannel` |
| `JsConsoleProofs!ListenersSound` | `Spec => []ListenersAlive` |
| `JsConsoleProofs!AnswersSound` | `Spec => []AnswersInOrder` |
| `JsConsoleProofs!IteratorSound` | `Spec => IteratorValid` |
| `JsConsoleProofs!RecursiveLockSound` | `Spec /\ apple => []NeverHangs`: the other half of `console_hang` |
| `GdbRemoteProofs!BreakpointsSound` | `Spec => []BreakpointsKept` |
| `GdbRemoteProofs!CommandsInTurn` | `Spec => []ExecutedOnce` |
| `GdbRemoteProofs!NoCommandTaken` | `Spec => NoCommandEaten` |
| `AvariceProofs!AnswersSound` | `Spec => [](AnswerOwn /\ OnlyLast)` |
| `AvariceProofs!BreakpointsSound` | `Spec => []BreakpointsPlaced` |
| `AvariceProofs!ReadsSound` | `Spec => []GdbReadsMemory` |
| `AvariceProofs!StepsSound` | with emulators found outside programming mode: `Spec => []StoppedBetweenSteps` |
| `AvariceProofs!DownloadCorrect` | `Spec => []DownloadSound` |
| `AvariceTargetProofs!ConfiguredSound` | `Spec => []ConfiguredAsGiven` |
| `AvariceTargetProofs!TargetSound` | `Spec => []TargetAsAsked` |

**The mkII link.** That an accepted reply is the right one is not inductive: it
needs to be known that a frame on the line with the awaited number belongs to
the current exchange. `LinkInv` says so by saying more: frames on the line
belong to the current exchange or the one before it, the older ones ahead of
the newer ones, those of the current exchange numbered `command_sequence` and
those before it with the predecessor. When a reply of the current exchange is
accepted, order says that no frame of the exchange before it is left in front
of what remains, so that there are again at most two. The lemmas are about
`PipeOK` under appending, removing and accepting. A wrap-around limit of 2
suffices (`LinkAssumption`), which says that the 16 bits of the code are ample.

**The refinement.** `RequestReply` may answer a request with anything the server
has given to it. The step that could fail is `Receive`: the response must be
among those given to the open exchange. `CreditInv` carries that: a frame of
the current exchange on the line was given to it, and nothing on the line is of
an exchange yet to come, which follows from `LinkInv`. Every other step is a
step of `RequestReply` or none. The theorem is about the process that ends at
its first exception; `link_abandoned` shows why it is not true of the other.

**The breakpoint table.** The invariant is `TableInv`: the table is `Sound` (the
flags of an entry agree with each other, no breakpoint is in it twice, the
entries behind the list are unused), the entries the emulator holds are `Apart`
(no slot twice), the emulator holds what those entries say, what is enabled is
what the debugger was told is set, and, while an update is under way, all that
is enabled is `Apart` and what its loop has passed is dealt with. None of the
four properties is inductive without the others: `SetStep` overwrites the slot
it is given, so `IceMirrored` needs `SlotsDistinct`; that needs to know that
whatever is installed and not in the layout's way is about to be removed, which
is a fact about the flags; and the flags stay in agreement because an entry is
taken over only when the emulator does not have it.

The layout is a pair of loops over the list. `LayoutFacts` says what they do to
any table: they change slots only, of pending entries only, and, unless they
fail, give out slots that are distinct and that no installed entry keeps. It is
proved by induction over the entries: the library's induction theorems are out
of reach (they take an operator), but the least entry that breaks a fact exists
(`Least`, from the library's well-foundedness of the numbers) and its
predecessor does not break it (`UpTo`). `DataLoop` and `CodeLoop` show first
that the recursive functions of the model are well-defined.

There are two hypotheses, and the code needs both. `PlainRequests` excludes range
breakpoints, whose mask entry is never found and which, refused, cut the list
(the hazard at `jtag2bp.cc:258`). `Granted` says that the layout has not failed:
when it has no slot, `addBreakpoint` disables the entry and reports success, and
if it had just cancelled the pending removal of that entry, it is now disabled
but installed, for good (the hazard at `jtag2bp.cc:298`; TLC finds the three
write watchpoints and the table of five entries that it takes). Without
software breakpoints and with ever more requests the layout does fail, so this
cannot be proved away. `CodeTableSound` shows that it can where the usual
session is: code breakpoints on a device with software breakpoints, of which
there are always enough (`CodeHasRoom`). `TypeCorrect` has neither hypothesis:
whatever is asked for, ranges included, the table is never indexed or written
beyond its end, because its last place stays marked and unused.

**The bindings.** `BindingsSound` carries `TableInv` through the calls of
`init()`, which begin a new table or leave the old one, and adds that the list a
script reads has each breakpoint of a sound table once. `HandlesInv` adds to the property that `ready` is set exactly
when some driver's daemon holds the device: that is what makes a second child
fail, and what decides whether the parent waits.

**The memory.** `MemoryInv` says that a cached page is what is in the target unless
it has been written since (`CacheGood`), that the flag of `enableProgramming`,
once assigned, is the mode the target is in (`Modes`), and that `avarice` is in
programming mode in the middle of a download and nowhere else. `ModeRestored` is
an action property from the same invariant: an access that enters the mode
leaves it again unless it found it. `VerifySound` and `ProgramSound` speak of the
end of a download only; `DownloadInv` is what they are in its middle: the bytes
up to the loop's address are the file's, those behind it are what they were,
nothing outside the file's pages has changed, and the cache the comparison reads
through is empty or current. It needs memories that are whole pages, which is
`MemoryAssumption`, and of which every row of the device table is an example. A
page is one step of the model, so that what it does to each of its bytes is a
set of facts and no loop; that there is a first page which a loop over the
addresses comes to is the least-element argument of the breakpoint table.

**The daemon.** `WireInv` takes the packets in the driver's socket, in the device's
endpoint and still to be sent by the device together: they are whole frames
(`Whole`), so that handing a packet on changes nothing. What could break them is
a reset of the endpoints, a new frame or a poll in the middle of one; `Middle`
says that the daemon has handed over as many packets of a frame as its count
tells it, and a whole number of frames where it is not counting. `WholeFrames` is
the part of it that the driver sees.

`ChannelImplemented` is the refinement. `Frames` makes the queue of `FrameChannel`
of those packets, by a function over their number: first it is shown that there
is such a function (`UptoExists`), then that it distributes over concatenation
(`FramesConcat`), each from the least number for which it fails. So handing a
packet on is no step of the channel, a new frame is `Send` (`FrameIsOne`), the
driver's taking of a frame `Receive` (`FramesAfter`, which needs the frame to be
whole), and a reset keeps the frames whose packets the driver's socket holds:
`Reset`, as by `Middle` the last of them is complete there.

**The console.** `ConsoleInv` has four parts: the shapes; that `main` holds the
lock exactly while it visits and evaluates, once; that each address holds the
object of one connection from its acceptance until it is freed; and that who is
on the list is the terminal or a client put on it and not yet removed. The
last is what `Free` needs: what is freed has been removed. `IteratorSound` then
uses the lock, as every other action that changes the list takes it.

`AnswersSound` follows the texts of a connection through `outq`, the evaluation
and `inq`. `QueueInv` says of each address in use (`Pipe`): its queue holds the
last texts its connection has sent; of those taken out of it, each that completes
a unit has its answer in what the connection was told followed by what is in
`inq`, except the one under evaluation; and these answers are in `Turns`. What
`main` keeps for the address in `listenerBufs` are the texts taken since the last
of these answers, behind what earlier connections may have left there if there is
none yet; `LeftInv` says that connections only ever find texts of earlier ones, and
that a newline is in front of `line` only of a client that has sent a text. Since
the queues are looked up by address, it rests on the part of `ConsoleInv` that an
address holds one connection, and that the visited listener is on the list.

**The GDB stub.** `TableInv` says of the table of breakpoints that it has those
of GDB's there was room for, except on the excursion of `handleInterrupt`, where
it has the return address besides (the mkII may have had no room for it, but does
not come back from there), and that `needBP` tells whether it is to be removed;
and that what the driver holds GDB was told of, and with the mkI the other way
round too.

`ExecutedOnce` needs an account of where GDB's command is. `TurnInv` says that
until it is acknowledged it is in one place at most: on its way to the stub
(`OneCommand`), being refused (`Refusing`), or refused, with the one refusal on
its way to GDB (`OneVerdict`); once the stub has it there is one acknowledgement
instead, and no command. So a retransmission by GDB, after a refusal or a
silence, never makes a second one. That the answer GDB takes is the answer to its
last command is `RepliesAfter`: behind the acknowledgement there are answers to
that command only, however often `putpacket` repeats an earlier one.

`NoCommandTaken` is an action property from a second invariant on top of it,
`AckInv`: GDB acknowledges an answer before it sends its next command, and the
line keeps their order, so that the wait of `putpacket` is over when the command
is read (`AckFirst`); where it is to repeat a command the stub is back in
`getpacket` (`AtEase`). The text about a failed `R` is the exception, as nothing
makes GDB wait for it.

**The mkI link.** `LineInv` says that in a call the line is either empty, with
answers to the request sent last in front of the driver, or holds that request
and nothing else; and that between calls no request is under way. Each of
the phases sends only after it has seen an end of what came before: a timeout,
which here means that nothing is on its way, or a flush. Assumed are
`Link1Assumption` and `BoxAssumption`, and, in the model, that answers are not
late.

**The steps of `avarice`.** `TargetInv` is about the calls that are left of the step
of `main` (`todo`), the call under way and the emulator together.

- `TodoInv`: what a call of a step turns on, a later call of the step turns off
  (`Closed`): programming mode is left again, and after what resumes the program
  (a run, the first byte of the id) it is stopped. This is shown of each
  step's sequence of calls, block by block (`ConcatFacts`, the `FullBlock` lemmas),
  for any files, pages and options; and taking calls off the front keeps it.
- `CallInv`: the call under way is the first of `todo`, so that a call which is
  over has done what it says.
- `AnswerInv`: an answer that is on the line, or has been taken, still says what is
  so, since the emulator does nothing before the next request. This rests on
  `LineInv`: without it the answer could be to another request.
- `SwitchInv`: when no call that turns the mode off is left, the target is out of
  it and so is the driver's flag; when none that stops the program is left, it is
  stopped or the emulator refused. It is inductive because an acknowledged
  command has been carried out; one that is not acknowledged ends the process,
  except the reset and the interrupt, whose refusals are the exception stated.

`StoppedBetweenSteps` is `SwitchInv` between two steps. The hypothesis of
`StepsSound` is one the code needs: nothing tells an emulator to leave programming
mode before the first step that has entered it, so that one found in it
stays there through the steps before. The emulators of `avarice_mki` satisfy it.

`ReadsSound` puts the end of a read next to that. `ReadBack` is the arithmetic:
the byte fetched in front of an odd address and the order of the bytes in a word
meet, provided the mode the request was made in is that of the target; which is
`SwitchInv` again, as a session has no call left that turns the mode on.

`DownloadCorrect` relates what is left of a download to what is already in the
target. Its invariant is `DownloadInv`, `TargetInv` with these parts:

- `FileInv`: each byte of the file either is still to be read and compared
  (`Reading`), or has been found in memory and `verified` still holds, or did not
  compare and the comparison of the results, at which the process dies, is still to
  come. A write to a memory is always followed by the reading of each of its
  bytes (`Follows`), so that a write never spoils what has been compared. Each
  page size is still to be told (`Telling`), or is the one of the row.
- `Prepared` and `ModeInv`: a comparison is made in programming mode because the
  command that turns it on is in front of it, and the flag of the driver, with which
  the bytes are swapped or not, is then the mode of the target.
- `PendInv`: the data of a write go to the place that was acknowledged last.
  The emulator keeps that place (`pending`) between the two parts of a write;
  without this the data could go to a page that has been compared.
- `LateInv`: from the download on nothing but a download compares, tells page sizes
  or sends a descriptor, and nothing erases.

That the sequence of calls of a download is in this order is shown of
`downloadToTarget` for any file (`DownloadFollows`): `PagesCover` puts each address into
one of the pages that are read. What is beyond a download has no call left of
these kinds (`NothingLeft`), so that `FileInv` is then `DownloadSound`; the two
bytes of a page size make the number again since the rows have natural numbers
(`RowSizes`).

`ConfiguredSound` puts together what the code does in three places.

- `OptionsInv`: the protocol that the options have made one by one is what
  `ProtocolUpTo` reads off those taken so far, of which only what follows the last
  `-1` counts (`Counting`). `ProtocolStep` is one option more.
- `DeviceInv`: in `initJtagBox` only the last call chooses a row (`Asks`), and then
  nothing is left but to tell the emulator its descriptor (`Chosen`). Later
  steps have no call of either kind (`Fixed`, `LateInv`). That the emulator has the
  descriptor when the step is over rests on `LineInv` and `AnswerInv`.
- `RowsOK` looks at the rows of the table one by one: their names, by which a row
  that was found by id is found again (`KnownRows`), and their page sizes.

`TargetSound` needs to know where in its calls a step is, and what it has done by
then. `AskedInv` says so for the steps of `main` that set fuses, lock bits and
on-chip debugging, and for what is behind them.

- `BitsAt` is about a write of all the fuses or lock bits: `todo` is what is left
  behind one of its five calls, or that with one of the forms of the write itself in
  front (`Busy`: not begun, both parts, the second part). Behind the read
  `drv.kept` is what is in memory or nothing, so that behind the comparison the memory
  is what the command line asks for. That the data were stored is nowhere assumed: a
  write that was refused, or lost its place, is noticed here.
- `DebugAt` is about `initJtagOnChipDebugging`, whose two writes nobody compares. With
  the read of the lock bits (the fuses) in the past, the program is unlocked
  (debugging enabled), or a write was refused, or the write is under way (`Writing`).
  What is known of one that is under way is that it is carried out or refused
  by the time it has its answer (`HasAnswer`); that it finds the place its first
  part named, or none, is `PendInv`.
- `FusesAre`, `LocksAre` and `DebugReady` are what is then so, and stays so: `LateBox`
  says that from the download on the emulator keeps fuses, the two parameters and, but
  for the step that writes them, the lock bits. A write to a file's pages
  cannot end up in them, as the data of a write from there on follow the place its
  step names (`AimInv`). In a session nothing can be written to fuses at all,
  since the target is out of programming mode (`SwitchInv`).

`BreakpointsSound` is independent of the line: the lists change only in the action
that GDB's command is. `BreakInv` says that they are within the limits of
`addBreakpoint` and have as many entries for a place as GDB has addresses in it;
`ListsFit` shows that the four comparators of `updateBreakpoints` have room for
lists within those limits (three, as `jtag1.h:33` has it, would not).

`AvariceAssumption` says that a command line is a sequence of options and a port,
that images are no longer than the array they are read into (`jtag.h:47`), that a
box is a record of the model's fields with the memories and the parameters for
page sizes, reset and timers the driver uses, and that GDB asks for a number
of bytes of a memory there is.

Not proved, but checked on the instances above:

- liveness (`CallEnds`, `ReadServed`, `Answered`, `ServerEnds`, `Settles`):
  out of the prover's reach;
- `DiesForAReason` of `Avarice`: it says that without a fault nothing is refused,
  nothing times out and every page compares, for each command of each step, and
  would need an account of the emulator, the synchronisation, the line and the
  row of the table at once, with images that fit into the target;
- `TypeOK` of `Avarice`: that a memory keeps its bytes would need each text and
  each file and write of GDB to be assumed of the right length.

## Not modelled

- The settings of the terminal and the serial line, discovery of the device on
  USB and fatal errors of the USB library, signals other than SIGCHLD. The bit
  rate of the port is in `Jtag1Link`.
- Payloads, except for what decides control; the CRC is whether a frame is
  damaged, the descriptors of the device table are told to the emulator as they
  stand in their row, the JTAG ids of its answers are the id they make.
- The registers of the mkI's comparators and the program counter.
- A read of a client that fills its 256 bytes, after which `buf[len] = 0` is
  written behind them (`tcp2.cc:115`).
- What the JavaScript engine computes: `JsConsole` keeps whether a text is
  complete, and whether its evaluation prints or quits. Methods of the bindings
  that pass a call on change nothing that is not modelled with the driver.
- `dwarf.cc`, which prints what libdwarf reads; `ioreg.cc` and
  `jtag_constants.h`, tables of names and codes; vendored getopt, whose results
  `CommandLine` begins with; `thread.cc`, which is not built; the JavaScript
  library.

## The plan

1. `Jtag2Link`, `Jtag2Breakpoints`, `UsbDaemon`, `Jtag2Memory`, `JsConsole`,
   `GdbRemote`: done.
2. `CommandLine`, `DeviceTable`, `Jtag1Box`, `Jtag1Link`, `Avarice`,
   `JsBindings`: done.
3. Theorems about the links, the bindings, the console, the stub, the breakpoint
   table, the memory and the daemon: done.
   Of `Avarice`: the line, the breakpoints, the reads of GDB, the state between
   the steps, the download, the configuration, what is left in the target.
4. Theorem left: `DiesForAReason` of `Avarice`.
5. The comparators of the mkI, should its `jtagContinue` ever run a program;
   range breakpoints within the properties of `bp_table`, should they be mended.
