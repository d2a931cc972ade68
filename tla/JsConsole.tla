------------------------------ MODULE JsConsole ------------------------------
(***************************************************************************)
(* The JavaScript console: the main loop that evaluates what the listeners *)
(* sent (main2.cc, js.cc), the terminal and the TCP server with a thread   *)
(* per client (terminal-io.cc, tcp2.cc), and the lock of the list of       *)
(* listeners (thread.hh).                                                  *)
(*                                                                         *)
(* A listener is an object at an address; clients are allocated and freed, *)
(* and an address may be used again.  What a listener queues for main at   *)
(* once is a text: a line of the terminal, but all the complete lines of a *)
(* read from a connection.  A line leaves the interpreter waiting for more *)
(* (open), or is complete and plain, speaks to all listeners (an error or  *)
(* load), or quits.  Queues have locks of their own, held for a push or a  *)
(* pop only: these are single steps, as are the critical sections of the   *)
(* threads other than main.  What is printed besides the answers is left   *)
(* out, except that the object that prints it has to exist: using a freed  *)
(* one is undefined, and ends the model.                                   *)
(*                                                                         *)
(* An answer is modelled by the texts it is the result of.  sent and got   *)
(* are history: of each text a connection sent whether it completes a unit *)
(* there, and the answers it was told.                                     *)
(***************************************************************************)
EXTENDS Naturals, Sequences, FiniteSets

CONSTANTS
  Terminal,       \* the address of the terminal, a static object
  Heap,           \* addresses a client may be allocated at
  MaxConnections, \* bound on connections
  MaxTexts,       \* bound on the texts of all connections together
  MaxLines,       \* bound on the lines of a text
  Kinds           \* kinds of lines

ASSUME ConsoleAssumption ==
  /\ Terminal \notin Heap
  /\ MaxConnections \in Nat /\ MaxTexts \in Nat /\ MaxLines \in Nat
  /\ Kinds \subseteq {"open", "plain", "speaks", "quit"}

Addresses == Heap \cup {Terminal}
Connections == 0 .. MaxConnections      \* 0 is the terminal's user

VARIABLES
  apple,      \* whether the lock was built to be taken again by its owner
  process,    \* "up", "exited" or "crashed"
  lock,       \* listeners' owner and level
  listeners,  \* the list, as addresses
  heap,       \* which connection's client is at an address
  newline,    \* whether a client's line begins with the end of an earlier one
  outq, inq,  \* outputQueue: texts for main; inputQueue: answers
  bufs,       \* listenerBufs, kept by address
  currentIO,
  running,    \* the terminal's
  main,       \* where main is, and the listener it visits
  server,     \* where the server thread is, and with which client
  client,     \* where each connection's thread is
  sent, got

vars == <<apple, process, lock, listeners, heap, newline, outq, inq, bufs, currentIO, running,
          main, server, client, sent, got>>
objects == <<heap, newline, outq, inq, bufs>>

Nobody == MaxConnections + 1
Alive(a) == heap[a] # Nobody
Up == process = "up"

-----------------------------------------------------------------------------
(* ThreadSynchronization.                                                  *)

NoLock == [owner |-> "none", level |-> 0]

CanLock(thread) == lock.owner = "none" \/ (apple /\ lock.owner = thread)
Locked(thread) == [owner |-> thread, level |-> lock.level + 1]

Unlocked(l) == IF l.level = 1 THEN NoLock ELSE [l EXCEPT !.level = @ - 1]

-----------------------------------------------------------------------------
(* The main loop.                                                          *)

Pass(at) == [pc |-> "visit", at |-> at]

MainPoll ==
  /\ Up /\ main.pc = "poll"
  /\ IF running
       THEN main' = [main EXCEPT !.pc = "lock"] /\ process' = process
       ELSE main' = [main EXCEPT !.pc = "done"] /\ process' = "exited"
  /\ UNCHANGED <<apple, lock, listeners, objects, currentIO, running, server, client, sent, got>>

MainLock ==
  /\ Up /\ main.pc = "lock" /\ CanLock("main")
  /\ lock' = Locked("main")
  /\ main' = Pass(1)
  /\ UNCHANGED <<apple, process, listeners, objects, currentIO, running, server, client, sent, got>>

Visited == listeners[main.at]

\* JS_BufferIsCompilableUnit, of the buffer with the text at its end: a buffer
\* kept from before is open, and a text without lines leaves it so.
Compilable(buf, text) ==
  IF text.kinds = <<>> THEN buf = <<>> ELSE text.kinds[Len(text.kinds)] # "open"

\* pollListener: one text is added to what the listener's address has sent so
\* far; a complete unit is evaluated.
TakeText ==
  /\ Up /\ main.pc = "visit" /\ main.at <= Len(listeners)
  /\ outq[Visited] # <<>>
  /\ LET text == Head(outq[Visited])
     IN  /\ bufs' = [bufs EXCEPT ![Visited] = Append(@, text)]
         /\ main' = [main EXCEPT !.pc = IF Compilable(bufs[Visited], text) THEN "eval" ELSE "visit"]
  /\ outq' = [outq EXCEPT ![Visited] = Tail(@)]
  /\ currentIO' = Visited
  /\ UNCHANGED <<apple, process, lock, listeners, heap, newline, inq, running, server, client, sent, got>>

NextListener ==
  /\ Up /\ main.pc = "visit" /\ main.at <= Len(listeners)
  /\ outq[Visited] = <<>>
  /\ main' = [main EXCEPT !.at = @ + 1]
  /\ UNCHANGED <<apple, process, lock, listeners, objects, currentIO, running, server, client, sent, got>>

MainUnlock ==
  /\ Up /\ main.pc = "visit" /\ main.at > Len(listeners)
  /\ lock' = Unlocked(lock)
  /\ main' = [main EXCEPT !.pc = "poll"]
  /\ UNCHANGED <<apple, process, listeners, objects, currentIO, running, server, client, sent, got>>

Unit == bufs[Visited]

\* What the lines of the unit do.
Says(kind) == \E i \in 1 .. Len(Unit) : \E j \in 1 .. Len(Unit[i].kinds) : Unit[i].kinds[j] = kind

Result == [k \in 1 .. Len(Unit) |-> [by |-> Unit[k].by, n |-> Unit[k].n]]

\* The result goes to the listener, and the unit is forgotten.  Mutant: it goes
\* to the head of the list.
Answer_First ==
  /\ inq' = [inq EXCEPT ![listeners[1]] = Append(@, Result)]
  /\ bufs' = [bufs EXCEPT ![Visited] = <<>>]
  /\ UNCHANGED <<heap, newline, outq>>

Answer ==
  /\ inq' = [inq EXCEPT ![Visited] = Append(@, Result)]
  /\ bufs' = [bufs EXCEPT ![Visited] = <<>>]
  /\ UNCHANGED <<heap, newline, outq>>

Eval ==
  /\ Up /\ main.pc = "eval" /\ ~Says("speaks") /\ ~Says("quit")
  /\ Answer
  /\ main' = [main EXCEPT !.pc = "visit"]
  /\ UNCHANGED <<apple, process, lock, listeners, currentIO, running, server, client, sent, got>>

\* printListeners takes the lock that main holds.  A unit that quits too may have
\* done so before, or be cut short by an error.
EvalSpeaks ==
  /\ Up /\ main.pc = "eval" /\ Says("speaks")
  /\ \/ running' = running
     \/ Says("quit") /\ running' = FALSE
  /\ IF CanLock("main")
       THEN /\ lock' = Unlocked(Locked("main"))
            /\ main' = [main EXCEPT !.pc = "visit"]
            /\ process' = IF \A i \in 1 .. Len(listeners) : Alive(listeners[i]) THEN process ELSE "crashed"
            /\ Answer
       ELSE /\ main' = [main EXCEPT !.pc = "hung"]
            /\ UNCHANGED <<process, lock, objects>>
  /\ UNCHANGED <<apple, listeners, currentIO, server, client, sent, got>>

\* quit: terminal.stop asserts that it was running; the signal that quit sends
\* ends the process at once, or else the main loop does.
EvalQuit ==
  /\ Up /\ main.pc = "eval" /\ Says("quit")
  /\ running' = FALSE
  /\ process' \in IF running /\ ~Says("speaks") THEN {process, "exited"} ELSE {"exited"}
  /\ Answer
  /\ main' = [main EXCEPT !.pc = "visit"]
  /\ UNCHANGED <<apple, lock, listeners, currentIO, server, client, sent, got>>

-----------------------------------------------------------------------------
(* The server.                                                             *)

\* The constructor; what listenerBufs has for the address is not looked at.
Accept(a) ==
  /\ Up /\ server.pc = "accept" /\ a \in Heap /\ ~Alive(a)
  /\ server.c < MaxConnections
  /\ heap' = [heap EXCEPT ![a] = server.c + 1]
  /\ newline' = [newline EXCEPT ![a] = FALSE]
  /\ inq' = [inq EXCEPT ![a] = <<>>]
  /\ outq' = [outq EXCEPT ![a] = <<>>]
  /\ server' = [pc |-> "push", c |-> server.c + 1, a |-> a]
  /\ UNCHANGED <<apple, process, lock, listeners, bufs, currentIO, running, main, client, sent, got>>

\* Mutant: the list is changed without the lock.
PushFront_Unlocked ==
  /\ Up /\ server.pc = "push"
  /\ listeners' = <<server.a>> \o listeners
  /\ server' = [server EXCEPT !.pc = "announce"]
  /\ UNCHANGED <<apple, process, lock, objects, currentIO, running, main, client, sent, got>>

PushFront ==
  /\ Up /\ server.pc = "push" /\ CanLock("server")
  /\ listeners' = <<server.a>> \o listeners
  /\ server' = [server EXCEPT !.pc = "announce"]
  /\ UNCHANGED <<apple, process, lock, objects, currentIO, running, main, client, sent, got>>

\* console->statusOut goes to currentIO, whoever that is; then the client starts.
Announce ==
  /\ Up /\ server.pc = "announce"
  /\ process' = IF Alive(currentIO) THEN process ELSE "crashed"
  /\ client' = [client EXCEPT ![server.c] = "run"]
  /\ server' = [server EXCEPT !.pc = "accept"]
  /\ UNCHANGED <<apple, lock, listeners, objects, currentIO, running, main, sent, got>>

-----------------------------------------------------------------------------
(* Terminal and clients: c is the connection, a its object.                *)

IsAt(c, a) == heap[a] = c /\ client[c] = "run"

\* Mutant: of a text that comes while another waits, only the last is kept.
Queued_Last(q, text) == <<text>>
Queued(q, text) == Append(q, text)

Texts == {t \in Connections \X (1 .. MaxTexts) : t[2] <= Len(sent[t[1]])}

\* Whether what a connection has sent so far leaves main no open unit.
Completed(c) == sent[c][Len(sent[c])]

Queue(c, a, kinds, complete) ==
  /\ Up /\ IsAt(c, a) /\ Cardinality(Texts) < MaxTexts
  /\ sent' = [sent EXCEPT ![c] = Append(@, complete)]
  /\ outq' = [outq EXCEPT ![a] = Queued(@, [by |-> c, n |-> Len(sent[c]) + 1, kinds |-> kinds])]
  /\ UNCHANGED <<apple, process, lock, listeners, heap, inq, bufs, currentIO, running, main, server, client, got>>

\* readline: one line is one text.
Type(a, kind) ==
  /\ running
  /\ Queue(0, a, <<kind>>, kind # "open")
  /\ newline' = newline

\* A read that brings newlines: everything up to the last one is one text, and
\* that newline stays at the front of line.
Send(c, a, kinds) ==
  /\ c # 0
  /\ Queue(c, a, kinds, kinds[Len(kinds)] # "open")
  /\ newline' = [newline EXCEPT ![a] = TRUE]

\* A read without a newline: the one that stayed is found, and what is before
\* it, nothing, is a text.
SendPiece(c, a) ==
  /\ c # 0 /\ newline[a]
  /\ Queue(c, a, <<>>, Completed(c))
  /\ newline' = newline

Deliver(c, a) ==
  /\ Up /\ IsAt(c, a) /\ inq[a] # <<>>
  /\ got' = [got EXCEPT ![c] = Append(@, Head(inq[a]))]
  /\ inq' = [inq EXCEPT ![a] = Tail(@)]
  /\ UNCHANGED <<apple, process, lock, listeners, heap, newline, outq, bufs, currentIO, running, main, server, client, sent>>

\* The connection is closed or a write fails: errorOut goes to currentIO, then
\* the client deletes itself.
Leave(c) ==
  /\ Up /\ c # 0 /\ client[c] = "run"
  /\ process' = IF Alive(currentIO) THEN process ELSE "crashed"
  /\ client' = [client EXCEPT ![c] = "delete"]
  /\ UNCHANGED <<apple, lock, listeners, objects, currentIO, running, main, server, sent, got>>

\* The terminal's thread ends with its input; nothing else learns of it.
EndOfInput ==
  /\ Up /\ client[0] = "run"
  /\ client' = [client EXCEPT ![0] = "gone"]
  /\ UNCHANGED <<apple, process, lock, listeners, objects, currentIO, running, main, server, sent, got>>

Where(c) == CHOOSE a \in Heap : heap[a] = c

\* list::remove, of what is on the list at most once (ListenersAlive).
Without(s, a) ==
  LET i == CHOOSE i \in 1 .. Len(s) : s[i] = a
  IN  IF \E k \in 1 .. Len(s) : s[k] = a
        THEN [j \in 1 .. Len(s) - 1 |-> IF j < i THEN s[j] ELSE s[j + 1]]
        ELSE s

\* Mutant: the destructor does not take the client off the list.
Remove_Not(c) ==
  /\ Up /\ client[c] = "delete" /\ CanLock("client")
  /\ client' = [client EXCEPT ![c] = "free"]
  /\ UNCHANGED <<apple, process, lock, listeners, objects, currentIO, running, main, server, sent, got>>

Remove(c) ==
  /\ Up /\ client[c] = "delete" /\ CanLock("client")
  /\ listeners' = Without(listeners, Where(c))
  /\ client' = [client EXCEPT ![c] = "free"]
  /\ UNCHANGED <<apple, process, lock, objects, currentIO, running, main, server, sent, got>>

Free(c) ==
  /\ Up /\ client[c] = "free"
  /\ heap' = [heap EXCEPT ![Where(c)] = Nobody]
  /\ client' = [client EXCEPT ![c] = "gone"]
  /\ UNCHANGED <<apple, process, lock, listeners, newline, outq, inq, bufs, currentIO, running, main, server, sent, got>>

-----------------------------------------------------------------------------
Init ==
  /\ apple \in BOOLEAN
  /\ process = "up"
  /\ lock = NoLock
  /\ listeners = <<Terminal>>
  /\ heap = [a \in Addresses |-> IF a = Terminal THEN 0 ELSE Nobody]
  /\ newline = [a \in Addresses |-> FALSE]
  /\ outq = [a \in Addresses |-> <<>>]
  /\ inq = [a \in Addresses |-> <<>>]
  /\ bufs = [a \in Addresses |-> <<>>]
  /\ currentIO = Terminal
  /\ running = TRUE
  /\ main = [pc |-> "poll", at |-> 1]
  /\ server = [pc |-> "accept", c |-> 0, a |-> Terminal]
  /\ client = [c \in Connections |-> IF c = 0 THEN "run" ELSE "new"]
  /\ sent = [c \in Connections |-> <<>>]
  /\ got = [c \in Connections |-> <<>>]

Main == MainPoll \/ MainLock \/ TakeText \/ NextListener \/ MainUnlock \/ Eval \/ EvalSpeaks \/ EvalQuit

Talk ==
  \/ \E a \in Addresses, kind \in Kinds : Type(a, kind)
  \/ \E c \in Connections, a \in Addresses, n \in 1 .. MaxLines :
       \E kinds \in [1 .. n -> Kinds] : Send(c, a, kinds)
  \/ \E c \in Connections, a \in Addresses : SendPiece(c, a) \/ Deliver(c, a)

Next ==
  \/ Main
  \/ \E a \in Heap : Accept(a)
  \/ PushFront \/ Announce
  \/ Talk
  \/ \E c \in Connections : Leave(c)
  \/ \E c \in Connections : Remove(c)
  \/ \E c \in Connections : Free(c)
  \/ EndOfInput

Spec == Init /\ [][Next]_vars

\* main never blocks for good but on the lock; threads write what is queued.
FairSpec == Spec /\ WF_vars(Main) /\ \A c \in Connections, a \in Addresses : WF_vars(Deliver(c, a))

-----------------------------------------------------------------------------
(* Properties.                                                             *)

\* Every listener on the list exists, and is on it once: clients delete
\* themselves in threads of their own while main visits the list.
ListenersAlive ==
  \A i, j \in 1 .. Len(listeners) : Alive(listeners[i]) /\ (i # j => listeners[i] # listeners[j])

\* The list does not change under main's iterator, nor is the listener freed that
\* main visits, however evaluation uses the lock in between.
IteratorValid ==
  [][main.pc \in {"visit", "eval"} =>
       /\ listeners' = listeners
       /\ main.at <= Len(listeners) => heap'[Visited] = heap[Visited]]_vars

\* The text number n of a connection completes a unit.
Completes(c, n) == n \in 1 .. Len(sent[c]) /\ sent[c][n]

Last(unit) == unit[Len(unit)]

\* The text that an answer before number i goes up to.
Before(answers, i) == IF i = 1 THEN 0 ELSE Last(answers[i - 1]).n

\* Answers to a connection's units, in its order.  Each is the result of exactly
\* the texts that came after the one before and up to the first that completes a
\* unit; only in front of the very first may be what an earlier connection left
\* at the same address.
InTurn(c, answers) ==
  \A i \in 1 .. Len(answers) :
    LET unit == answers[i]
        first == Before(answers, i) + 1
        last == Last(unit).n
    IN  /\ first <= last /\ last <= Before(answers, i) + Len(unit)
        /\ \A n \in first .. last : Completes(c, n) <=> n = last
        /\ \A k \in 1 .. Len(unit) :
             LET n == last - (Len(unit) - k)
             IN  IF n >= first THEN unit[k].by = c /\ unit[k].n = n ELSE unit[k].by < c /\ i = 1

\* A connection is told the results of its own units, each once, in the order of
\* its texts, and of nobody else's texts, but for what was left of a client that
\* has been at its address before.
AnswersInOrder == \A c \in Connections : InTurn(c, got[c])

Over == ~Up \/ main.pc = "hung"

\* A complete unit is answered unless its sender leaves, or the console ends or
\* hangs.
Answered ==
  \A c \in Connections : \A n \in 1 .. MaxTexts :
    Cardinality({k \in 1 .. MaxTexts : Completes(c, k)}) >= n ~> Len(got[c]) >= n \/ client[c] # "run" \/ Over

\* The main loop never waits for itself: an error in a script, or load, prints to
\* the listeners from inside their lock.
NeverHangs == main.pc # "hung"
=============================================================================
