--------------------------- MODULE JsConsoleProofs ---------------------------
(***************************************************************************)
(* Proofs about JsConsole, for any number of connections, addresses, texts *)
(* and lines: main holds the lock exactly while it goes through the list,  *)
(* so that neither the list changes under its iterator nor the listener it *)
(* visits is freed; every listener on the list exists; and each connection *)
(* is told the results of its own units in the order of its texts.         *)
(***************************************************************************)
EXTENDS JsConsole, SequenceTheorems, TLAPS

-----------------------------------------------------------------------------
(* The invariant.                                                          *)

Threads == {"new", "run", "delete", "free", "gone"}
Steps == {"poll", "lock", "visit", "eval", "hung", "done"}

ShapeInv ==
  /\ listeners \in Seq(Addresses)
  /\ heap \in [Addresses -> Connections \cup {Nobody}]
  /\ client \in [Connections -> Threads]
  /\ server \in [pc : {"accept", "push", "announce"}, c : Connections, a : Addresses]
  /\ main \in [pc : Steps, at : Nat \ {0}]

\* main holds the lock while it visits the listeners and evaluates, and nobody
\* holds it otherwise, as the other threads' critical sections are single steps.
LockInv ==
  lock = IF main.pc \in {"visit", "eval", "hung"} THEN [owner |-> "main", level |-> 1] ELSE NoLock

\* The client that the server is about to put on the list, or to start.
Pending(c) == server.pc # "accept" /\ server.c = c

\* The objects: one per connection, from its acceptance until it is freed.
HeapInv ==
  /\ heap[Terminal] = 0
  /\ \A a, b \in Addresses : heap[a] = heap[b] /\ heap[a] # Nobody => a = b
  /\ \A c \in Connections : c # 0 /\ client[c] \in {"run", "delete", "free"} =>
                              \E a \in Heap : heap[a] = c
  /\ \A c \in Connections : c > server.c => client[c] = "new" /\ \A a \in Addresses : heap[a] # c
  /\ server.pc # "accept" => /\ server.a \in Heap
                             /\ heap[server.a] = server.c
                             /\ client[server.c] = "new"
                             /\ server.c # 0
  /\ client[0] \in {"run", "gone"}

\* Whoever may be on the list: the terminal, and clients that have been put on it
\* and not taken off.
Listed(a) == \/ heap[a] = 0
             \/ /\ heap[a] \in Connections
                /\ \/ client[heap[a]] \in {"run", "delete"}
                   \/ server.pc = "announce" /\ server.c = heap[a]

ListInv ==
  /\ \A i \in 1 .. Len(listeners) : Listed(listeners[i])
  /\ \A i, j \in 1 .. Len(listeners) : i # j => listeners[i] # listeners[j]

ConsoleInv == ShapeInv /\ LockInv /\ HeapInv /\ ListInv

-----------------------------------------------------------------------------
(* Numbers, and lists.                                                     *)

LEMMA NobodyFacts ==
  /\ Nobody \notin Connections
  /\ 0 \in Connections
  /\ \A c \in Connections : c \in Nat /\ c <= MaxConnections
  /\ \A c \in Connections : c < MaxConnections => c + 1 \in Connections
  BY ConsoleAssumption DEF Nobody, Connections

\* Taking off an address leaves the other entries, and each once.
LEMMA WithoutFacts ==
  ASSUME NEW s \in Seq(Addresses), NEW a,
         \A i, j \in 1 .. Len(s) : i # j => s[i] # s[j]
  PROVE  /\ Without(s, a) \in Seq(Addresses)
         /\ \A i \in 1 .. Len(Without(s, a)) :
              /\ Without(s, a)[i] # a
              /\ \E j \in 1 .. Len(s) : Without(s, a)[i] = s[j]
         /\ \A i, j \in 1 .. Len(Without(s, a)) : i # j => Without(s, a)[i] # Without(s, a)[j]
<1>1. CASE ~ \E k \in 1 .. Len(s) : s[k] = a
  BY <1>1 DEF Without
<1>2. CASE \E k \in 1 .. Len(s) : s[k] = a
  <2> DEFINE i == CHOOSE i \in 1 .. Len(s) : s[i] = a
             w == [j \in 1 .. Len(s) - 1 |-> IF j < i THEN s[j] ELSE s[j + 1]]
  <2>1. i \in 1 .. Len(s) /\ s[i] = a
    BY <1>2
  <2>2. Without(s, a) = w
    BY <1>2 DEF Without
  <2> HIDE DEF i
  <2>3. Len(s) \in Nat \ {0}
    BY <2>1
  <2>4. w \in Seq(Addresses) /\ Len(w) = Len(s) - 1
    <3>1. \A j \in 1 .. Len(s) - 1 : w[j] \in Addresses
      BY <2>1, <2>3
    <3> QED
      BY <2>3, <3>1
  <2>5. \A j \in 1 .. Len(s) - 1 : w[j] = IF j < i THEN s[j] ELSE s[j + 1]
    OBVIOUS
  <2> HIDE DEF w
  <2>6. \A j \in 1 .. Len(w) : w[j] # a /\ \E k \in 1 .. Len(s) : w[j] = s[k]
    BY <2>1, <2>3, <2>4, <2>5
  <2>7. \A j, k \in 1 .. Len(w) : j # k => w[j] # w[k]
    BY <2>1, <2>3, <2>4, <2>5
  <2> QED
    BY <2>2, <2>4, <2>6, <2>7
<1> QED
  BY <1>1, <1>2

\* Putting an address in front.
LEMMA FrontFacts ==
  ASSUME NEW s \in Seq(Addresses), NEW a \in Addresses
  PROVE  /\ <<a>> \o s \in Seq(Addresses)
         /\ Len(<<a>> \o s) = Len(s) + 1
         /\ (<<a>> \o s)[1] = a
         /\ \A i \in 2 .. Len(s) + 1 : (<<a>> \o s)[i] = s[i - 1]
  OBVIOUS

-----------------------------------------------------------------------------
(* The steps.                                                              *)

LEMMA InitConsole == Init => ConsoleInv
<1> SUFFICES ASSUME Init PROVE ConsoleInv
  OBVIOUS
<1>1. ShapeInv
  <2>1. Terminal \in Addresses /\ <<Terminal>> \in Seq(Addresses)
    BY DEF Addresses
  <2>2. heap \in [Addresses -> Connections \cup {Nobody}]
    BY NobodyFacts DEF Init
  <2> QED
    BY <2>1, <2>2, NobodyFacts DEF Init, ShapeInv, Threads, Steps
<1>2. LockInv
  BY DEF Init, LockInv
<1>3. HeapInv
  BY ConsoleAssumption, NobodyFacts DEF Init, HeapInv, Addresses
<1>4. ListInv
  BY ConsoleAssumption DEF Init, ListInv, Listed, Addresses
<1> QED
  BY <1>1, <1>2, <1>3, <1>4 DEF ConsoleInv

\* What neither list, objects nor threads notice.
LEMMA ListKept ==
  ASSUME ConsoleInv, UNCHANGED <<listeners, heap, client, server>>
  PROVE  (HeapInv /\ ListInv)'
  BY DEF ConsoleInv, HeapInv, ListInv, Listed

\* The main loop takes the lock once per pass, and once more for the time of an
\* evaluation that prints to the listeners.
LEMMA MainKeeps ==
  ASSUME ConsoleInv, Main
  PROVE  ConsoleInv'
<1>1. UNCHANGED <<listeners, heap, client, server>>
  BY DEF Main, MainPoll, MainLock, TakeText, NextListener, MainUnlock, Eval, EvalSpeaks, EvalQuit,
         Answer, objects
<1>2. main \in [pc : Steps, at : Nat \ {0}] /\ LockInv
  BY DEF ConsoleInv, ShapeInv
<1>3. main' \in [pc : Steps, at : Nat \ {0}] /\ LockInv'
  <2>1. CASE MainPoll
    BY <1>2, <2>1 DEF MainPoll, Steps, LockInv
  <2>2. CASE MainLock
    BY <1>2, <2>2 DEF MainLock, Steps, LockInv, Locked, NoLock, Pass
  <2>3. CASE TakeText
    BY <1>2, <2>3 DEF TakeText, Steps, LockInv
  <2>4. CASE NextListener
    BY <1>2, <2>4 DEF NextListener, Steps, LockInv
  <2>5. CASE MainUnlock
    BY <1>2, <2>5 DEF MainUnlock, Steps, LockInv, Unlocked, NoLock
  <2>6. CASE Eval
    BY <1>2, <2>6 DEF Eval, Steps, LockInv
  <2>7. CASE EvalSpeaks
    BY <1>2, <2>7 DEF EvalSpeaks, Steps, LockInv, Locked, Unlocked
  <2>8. CASE EvalQuit
    BY <1>2, <2>8 DEF EvalQuit, Steps, LockInv
  <2> QED
    BY <2>1, <2>2, <2>3, <2>4, <2>5, <2>6, <2>7, <2>8 DEF Main
<1> QED
  BY <1>1, <1>3, ListKept DEF ConsoleInv, ShapeInv

\* A connection is accepted at a free address, by a number of its own.
LEMMA AcceptKeeps ==
  ASSUME ConsoleInv, NEW a \in Heap, Accept(a)
  PROVE  ConsoleInv'
<1> DEFINE n == server.c + 1
<1>1. /\ server.pc = "accept" /\ heap[a] = Nobody
      /\ heap' = [heap EXCEPT ![a] = n]
      /\ server' = [pc |-> "push", c |-> n, a |-> a]
      /\ server.c \in Connections /\ n \in Connections
      /\ a \in Addresses /\ a # Terminal
      /\ UNCHANGED <<lock, listeners, main, client>>
  BY NobodyFacts, ConsoleAssumption DEF Accept, Alive, ConsoleInv, ShapeInv, Addresses
<1>2. n # 0 /\ n > server.c /\ n \in Nat /\ server.c \in Nat
  BY <1>1, NobodyFacts
<1> HIDE DEF n
<1>3. client[n] = "new" /\ \A b \in Addresses : heap[b] # n
  BY <1>1, <1>2 DEF ConsoleInv, HeapInv
<1>4. /\ heap'[a] = n
      /\ \A b \in Addresses : b # a => heap'[b] = heap[b]
  BY <1>1 DEF ConsoleInv, ShapeInv
<1>5. ShapeInv'
  BY <1>1 DEF ConsoleInv, ShapeInv
<1>6. HeapInv'
  <2>1. heap'[Terminal] = 0
    BY <1>1, <1>4 DEF ConsoleInv, HeapInv, Addresses
  <2>2. \A b, d \in Addresses : heap'[b] = heap'[d] /\ heap'[b] # Nobody => b = d
    BY <1>3, <1>4 DEF ConsoleInv, HeapInv
  <2>3. \A c \in Connections : c # 0 /\ client'[c] \in {"run", "delete", "free"} =>
                                 \E b \in Heap : heap'[b] = c
    <3> SUFFICES ASSUME NEW c \in Connections, c # 0, client'[c] \in {"run", "delete", "free"}
                 PROVE  \E b \in Heap : heap'[b] = c
      OBVIOUS
    <3>1. PICK b \in Heap : heap[b] = c
      BY <1>1 DEF ConsoleInv, HeapInv
    <3>2. b # a
      BY <1>1, <3>1, NobodyFacts
    <3> QED
      BY <1>4, <3>1, <3>2 DEF Addresses
  <2>4. \A c \in Connections : c > n => client'[c] = "new" /\ \A b \in Addresses : heap'[b] # c
    <3> SUFFICES ASSUME NEW c \in Connections, c > n
                 PROVE  client'[c] = "new" /\ \A b \in Addresses : heap'[b] # c
      OBVIOUS
    <3>1. c > server.c /\ c # n
      BY <1>2, NobodyFacts DEF n
    <3> QED
      BY <1>1, <1>4, <3>1 DEF ConsoleInv, HeapInv
  <2>5. client'[0] \in {"run", "gone"}
    BY <1>1 DEF ConsoleInv, HeapInv
  <2> QED
    BY <1>1, <1>2, <1>3, <1>4, <2>1, <2>2, <2>3, <2>4, <2>5 DEF HeapInv
<1>7. ListInv'
  <2>1. \A b \in Addresses : Listed(b) => b # a /\ Listed(b)'
    BY <1>1, <1>4, NobodyFacts DEF Listed
  <2> QED
    BY <1>1, <2>1 DEF ConsoleInv, ShapeInv, ListInv
<1> QED
  BY <1>1, <1>5, <1>6, <1>7 DEF ConsoleInv, LockInv

\* The server puts its client on the list, where it is not yet.
LEMMA PushKeeps ==
  ASSUME ConsoleInv, PushFront
  PROVE  ConsoleInv'
<1>1. /\ server.pc = "push" /\ server' = [server EXCEPT !.pc = "announce"]
      /\ listeners' = <<server.a>> \o listeners
      /\ UNCHANGED <<lock, heap, main, client>>
  BY DEF PushFront, objects
<1>2. /\ server'.pc = "announce" /\ server'.c = server.c /\ server'.a = server.a
      /\ server.a \in Addresses /\ server.c \in Connections
  BY <1>1 DEF ConsoleInv, ShapeInv
<1>3. /\ heap[server.a] = server.c /\ client[server.c] = "new" /\ server.c # 0
  BY <1>1 DEF ConsoleInv, HeapInv
<1>4. ShapeInv'
  BY <1>1, <1>2, FrontFacts DEF ConsoleInv, ShapeInv
<1>5. HeapInv'
  BY <1>1, <1>2 DEF ConsoleInv, HeapInv
<1>6. \A a \in Addresses : Listed(a) => a # server.a /\ Listed(a)'
  BY <1>1, <1>2, <1>3 DEF Listed
<1>7. Listed(server.a)'
  BY <1>1, <1>2, <1>3 DEF Listed
<1>8. ListInv'
  <2>1. /\ Len(listeners) \in Nat /\ Len(listeners') = Len(listeners) + 1
        /\ listeners'[1] = server.a
        /\ \A i \in 2 .. Len(listeners) + 1 : listeners'[i] = listeners[i - 1]
    BY <1>1, <1>2, FrontFacts DEF ConsoleInv, ShapeInv
  <2>2. \A i \in 1 .. Len(listeners) : listeners[i] \in Addresses /\ Listed(listeners[i])
    BY DEF ConsoleInv, ShapeInv, ListInv
  <2>3. \A i \in 1 .. Len(listeners') : Listed(listeners[i])'
    <3> SUFFICES ASSUME NEW i \in 1 .. Len(listeners') PROVE Listed(listeners[i])'
      OBVIOUS
    <3>1. CASE i = 1
      BY <1>2, <1>7, <2>1, <3>1
    <3>2. CASE i # 1
      <4>1. i - 1 \in 1 .. Len(listeners) /\ listeners'[i] = listeners[i - 1]
        BY <2>1, <3>2
      <4> QED
        BY <1>6, <2>2, <4>1
    <3> QED
      BY <3>1, <3>2
  <2>4. \A i, j \in 1 .. Len(listeners') : i # j => listeners'[i] # listeners'[j]
    <3>1. \A i \in 2 .. Len(listeners') :
            i - 1 \in 1 .. Len(listeners) /\ listeners'[i] = listeners[i - 1] /\ listeners'[i] # server.a
      BY <1>6, <2>1, <2>2
    <3>2. \A i, j \in 1 .. Len(listeners) : i # j => listeners[i] # listeners[j]
      BY DEF ConsoleInv, ListInv
    <3> QED
      BY <2>1, <3>1, <3>2
  <2> QED
    BY <2>3, <2>4 DEF ListInv
<1> QED
  BY <1>1, <1>4, <1>5, <1>8 DEF ConsoleInv, LockInv

\* The client's thread starts.
LEMMA AnnounceKeeps ==
  ASSUME ConsoleInv, Announce
  PROVE  ConsoleInv'
<1>1. /\ server.pc = "announce" /\ server' = [server EXCEPT !.pc = "accept"]
      /\ client' = [client EXCEPT ![server.c] = "run"]
      /\ UNCHANGED <<lock, listeners, heap, main>>
  BY DEF Announce, objects
<1>2. /\ server'.pc = "accept" /\ server'.c = server.c
      /\ server.c \in Connections
      /\ client'[server.c] = "run"
      /\ \A c \in Connections : c # server.c => client'[c] = client[c]
  BY <1>1 DEF ConsoleInv, ShapeInv
<1>3. server.a \in Heap /\ heap[server.a] = server.c /\ server.c # 0
  BY <1>1 DEF ConsoleInv, HeapInv
<1>4. ShapeInv'
  BY <1>1, <1>2 DEF ConsoleInv, ShapeInv, Threads
<1>5. HeapInv'
  <2>1. \A c \in Connections : c > server.c => c # server.c
    BY <1>2, NobodyFacts
  <2> QED
    BY <1>1, <1>2, <1>3, <2>1 DEF ConsoleInv, HeapInv
<1>6. \A a \in Addresses : Listed(a) => Listed(a)'
  BY <1>1, <1>2 DEF Listed
<1>7. ListInv'
  BY <1>1, <1>6 DEF ConsoleInv, ShapeInv, ListInv
<1> QED
  BY <1>1, <1>4, <1>5, <1>7 DEF ConsoleInv, LockInv

\* A client's address is where its connection is, and nowhere else.
LEMMA WhereFacts ==
  ASSUME ConsoleInv, NEW c \in Connections, c # 0, client[c] \in {"run", "delete", "free"}
  PROVE  /\ Where(c) \in Heap /\ Where(c) \in Addresses
         /\ heap[Where(c)] = c
         /\ \A a \in Addresses : heap[a] = c => a = Where(c)
<1>1. \E a \in Heap : heap[a] = c
  BY DEF ConsoleInv, HeapInv
<1>2. Where(c) \in Heap /\ heap[Where(c)] = c
  BY <1>1 DEF Where
<1> QED
  BY <1>2, NobodyFacts DEF ConsoleInv, HeapInv, Addresses

\* A client that is on its way out: it has left, but is still on the list.
LEMMA LeaveKeeps ==
  ASSUME ConsoleInv, NEW c \in Connections, Leave(c)
  PROVE  ConsoleInv'
<1>1. /\ client[c] = "run" /\ client' = [client EXCEPT ![c] = "delete"]
      /\ UNCHANGED <<lock, listeners, heap, main, server>>
  BY DEF Leave, objects
<1>2. /\ client'[c] = "delete"
      /\ \A d \in Connections : d # c => client'[d] = client[d]
  BY <1>1 DEF ConsoleInv, ShapeInv
<1>3. ShapeInv'
  BY <1>1, <1>2 DEF ConsoleInv, ShapeInv, Threads
<1>4. HeapInv'
  <2>1. c # 0
    BY <1>1 DEF Leave
  <2>2. client'[0] \in {"run", "gone"}
    BY <1>2, <2>1, NobodyFacts DEF ConsoleInv, HeapInv
  <2> QED
    BY <1>1, <1>2, <2>1, <2>2 DEF ConsoleInv, HeapInv, ShapeInv
<1>5. \A a \in Addresses : Listed(a) => Listed(a)'
  BY <1>1, <1>2 DEF Listed
<1>6. ListInv'
  BY <1>1, <1>5 DEF ConsoleInv, ShapeInv, ListInv
<1> QED
  BY <1>1, <1>3, <1>4, <1>6 DEF ConsoleInv, LockInv

\* It takes itself off the list: whoever is left is somebody else.
LEMMA RemoveKeeps ==
  ASSUME ConsoleInv, NEW c \in Connections, c # 0, Remove(c)
  PROVE  ConsoleInv'
<1>1. /\ client[c] = "delete" /\ client' = [client EXCEPT ![c] = "free"]
      /\ listeners' = Without(listeners, Where(c))
      /\ UNCHANGED <<lock, heap, main, server>>
  BY DEF Remove, objects
<1>2. /\ client'[c] = "free"
      /\ \A d \in Connections : d # c => client'[d] = client[d]
  BY <1>1 DEF ConsoleInv, ShapeInv
<1>3. /\ listeners' \in Seq(Addresses)
      /\ \A i \in 1 .. Len(listeners') : /\ listeners'[i] # Where(c)
                                         /\ \E j \in 1 .. Len(listeners) : listeners'[i] = listeners[j]
      /\ \A i, j \in 1 .. Len(listeners') : i # j => listeners'[i] # listeners'[j]
  BY <1>1, WithoutFacts DEF ConsoleInv, ShapeInv, ListInv
<1>4. ShapeInv'
  BY <1>1, <1>2, <1>3 DEF ConsoleInv, ShapeInv, Threads
<1>5. HeapInv'
  BY <1>1, <1>2 DEF ConsoleInv, HeapInv, ShapeInv
<1>6. \A a \in Addresses : Listed(a) /\ a # Where(c) => Listed(a)'
  <2>1. \A a \in Addresses : a # Where(c) => heap[a] # c
    BY <1>1, WhereFacts
  <2> QED
    BY <1>1, <1>2, <2>1 DEF Listed
<1>7. ListInv'
  <2>1. \A j \in 1 .. Len(listeners) : listeners[j] \in Addresses /\ Listed(listeners[j])
    BY DEF ConsoleInv, ShapeInv, ListInv
  <2> QED
    BY <1>3, <1>6, <2>1 DEF ListInv
<1> QED
  BY <1>1, <1>4, <1>5, <1>7 DEF ConsoleInv, LockInv

\* The object of a client that has taken itself off the list is not on it.
LEMMA FreedUnlisted ==
  ASSUME ConsoleInv, NEW c \in Connections, c # 0, client[c] = "free"
  PROVE  ~Listed(Where(c))
<1>1. heap[Where(c)] = c
  BY WhereFacts
<1>2. ~(server.pc = "announce" /\ server.c = c)
  BY DEF ConsoleInv, HeapInv
<1> QED
  BY <1>1, <1>2 DEF Listed

\* The terminal's user never deletes it.
LEMMA ZeroStays ==
  ASSUME ConsoleInv, NEW c \in Connections, client[c] \in {"delete", "free"} \/ Remove(c) \/ Free(c)
  PROVE  c # 0
  BY DEF ConsoleInv, HeapInv, Remove, Free

LEMMA FreeKeeps ==
  ASSUME ConsoleInv, NEW c \in Connections, c # 0, Free(c)
  PROVE  ConsoleInv'
<1> DEFINE w == Where(c)
<1>1. /\ client[c] = "free" /\ client' = [client EXCEPT ![c] = "gone"]
      /\ heap' = [heap EXCEPT ![w] = Nobody]
      /\ UNCHANGED <<lock, listeners, main, server>>
  BY DEF Free
<1>2. /\ w \in Heap /\ w \in Addresses /\ w # Terminal /\ heap[w] = c
      /\ \A a \in Addresses : heap[a] = c => a = w
  BY <1>1, WhereFacts, ConsoleAssumption
<1>3. ~Listed(w)
  BY <1>1, FreedUnlisted
<1> HIDE DEF w
<1>4. /\ client'[c] = "gone"
      /\ \A d \in Connections : d # c => client'[d] = client[d]
      /\ heap'[w] = Nobody
      /\ \A a \in Addresses : a # w => heap'[a] = heap[a]
  BY <1>1, <1>2 DEF ConsoleInv, ShapeInv
<1>5. ShapeInv'
  BY <1>1, <1>2 DEF ConsoleInv, ShapeInv, Threads
<1>6. HeapInv'
  <2>1. heap'[Terminal] = 0
    BY <1>2, <1>4 DEF ConsoleInv, HeapInv, Addresses
  <2>2. \A a, b \in Addresses : heap'[a] = heap'[b] /\ heap'[a] # Nobody => a = b
    BY <1>4 DEF ConsoleInv, HeapInv
  <2>3. \A d \in Connections : d # 0 /\ client'[d] \in {"run", "delete", "free"} =>
                                 \E a \in Heap : heap'[a] = d
    <3> SUFFICES ASSUME NEW d \in Connections, d # 0, client'[d] \in {"run", "delete", "free"}
                 PROVE  \E a \in Heap : heap'[a] = d
      OBVIOUS
    <3>1. d # c /\ client[d] \in {"run", "delete", "free"}
      BY <1>4
    <3>2. PICK a \in Heap : heap[a] = d
      BY <3>1 DEF ConsoleInv, HeapInv
    <3> QED
      BY <1>2, <1>4, <3>1, <3>2 DEF Addresses
  <2>4. \A d \in Connections : d > server.c =>
          client'[d] = "new" /\ \A a \in Addresses : heap'[a] # d
    BY <1>1, <1>2, <1>4, NobodyFacts DEF ConsoleInv, HeapInv
  <2>5. server.pc # "accept" => /\ server.a \in Heap
                                /\ heap'[server.a] = server.c
                                /\ client'[server.c] = "new"
                                /\ server.c # 0
    BY <1>1, <1>2, <1>4 DEF ConsoleInv, ShapeInv, HeapInv
  <2>6. client'[0] \in {"run", "gone"}
    BY <1>4, NobodyFacts DEF ConsoleInv, HeapInv
  <2> QED
    BY <1>1, <2>1, <2>2, <2>3, <2>4, <2>5, <2>6 DEF HeapInv
<1>7. \A a \in Addresses : Listed(a) => Listed(a)'
  BY <1>1, <1>2, <1>3, <1>4 DEF Listed
<1>8. ListInv'
  BY <1>1, <1>7 DEF ConsoleInv, ShapeInv, ListInv
<1> QED
  BY <1>1, <1>5, <1>6, <1>8 DEF ConsoleInv, LockInv

\* The terminal's thread ends; its object is static.
LEMMA EndKeeps ==
  ASSUME ConsoleInv, EndOfInput
  PROVE  ConsoleInv'
<1>1. /\ client[0] = "run" /\ client' = [client EXCEPT ![0] = "gone"]
      /\ UNCHANGED <<lock, listeners, heap, main, server>>
  BY DEF EndOfInput, objects
<1>2. /\ 0 \in Connections /\ client'[0] = "gone"
      /\ \A d \in Connections : d # 0 => client'[d] = client[d]
  BY <1>1, NobodyFacts DEF ConsoleInv, ShapeInv
<1>3. ShapeInv'
  BY <1>1, <1>2 DEF ConsoleInv, ShapeInv, Threads
<1>4. HeapInv'
  BY <1>1, <1>2, NobodyFacts DEF ConsoleInv, HeapInv, ShapeInv
<1>5. \A a \in Addresses : Listed(a) => Listed(a)'
  BY <1>1, <1>2 DEF Listed
<1>6. ListInv'
  BY <1>1, <1>5 DEF ConsoleInv, ShapeInv, ListInv
<1> QED
  BY <1>1, <1>3, <1>4, <1>6 DEF ConsoleInv, LockInv

\* No step breaks the invariant.
LEMMA ConsoleNext == ConsoleInv /\ [Next]_vars => ConsoleInv'
<1> SUFFICES ASSUME ConsoleInv, [Next]_vars PROVE ConsoleInv'
  OBVIOUS
<1>1. CASE Main
  BY <1>1, MainKeeps
<1>2. CASE \E a \in Heap : Accept(a)
  BY <1>2, AcceptKeeps
<1>3. CASE PushFront
  BY <1>3, PushKeeps
<1>4. CASE Announce
  BY <1>4, AnnounceKeeps
<1>5. CASE Talk
  <2>1. UNCHANGED <<lock, listeners, heap, main, server, client>>
    BY <1>5 DEF Talk, Deliver, Send, SendPiece, Type, Queue
  <2> QED
    BY <2>1, ListKept DEF ConsoleInv, ShapeInv, LockInv
<1>6. CASE \E c \in Connections : Leave(c)
  BY <1>6, LeaveKeeps
<1>7. CASE \E c \in Connections : Remove(c)
  <2>1. PICK c \in Connections : Remove(c)
    BY <1>7
  <2> QED
    BY <2>1, RemoveKeeps, ZeroStays
<1>8. CASE \E c \in Connections : Free(c)
  <2>1. PICK c \in Connections : Free(c)
    BY <1>8
  <2> QED
    BY <2>1, FreeKeeps, ZeroStays
<1>9. CASE EndOfInput
  BY <1>9, EndKeeps
<1>10. CASE UNCHANGED vars
  <2>1. UNCHANGED <<lock, listeners, heap, main, server, client>>
    BY <1>10 DEF vars, objects
  <2> QED
    BY <2>1, ListKept DEF ConsoleInv, ShapeInv, LockInv
<1> QED
  BY <1>1, <1>2, <1>3, <1>4, <1>5, <1>6, <1>7, <1>8, <1>9, <1>10 DEF Next

-----------------------------------------------------------------------------
(* The way of a text through the queues: what a connection has sent is what *)
(* main has taken, and then what waits in outputQueue; what main has taken  *)
(* is what it has answered, and then what it keeps in listenerBufs, behind  *)
(* what an earlier client may have left there; and the answers are those    *)
(* the connection has got, and then what waits in inputQueue.               *)

Text == [by : Connections, n : Nat, kinds : Seq(Kinds)]
Entry == [by : Connections, n : Nat]
Told == Seq(Entry)

CompletesIn(s, n) == n \in 1 .. Len(s) /\ s[n]

\* A buffer or an answer u that ends with the texts first to last of connection
\* c, behind texts of earlier connections that only the start may have.
Own(c, u, first, last, start) ==
  /\ last <= (first - 1) + Len(u)
  /\ \A k \in 1 .. Len(u) :
       LET n == last - (Len(u) - k)
       IN  IF n >= first THEN u[k].by = c /\ u[k].n = n ELSE u[k].by < c /\ start

Turns(c, s, t) ==
  \A i \in 1 .. Len(t) :
    LET first == Before(t, i) + 1
        last == Last(t[i]).n
    IN  /\ t[i] # <<>>
        /\ first <= last
        /\ \A n \in first .. last : CompletesIn(s, n) <=> n = last
        /\ Own(c, t[i], first, last, i = 1)

\* A text without lines completes what the one before it did.
Means(s, n, kinds) ==
  IF kinds = <<>> THEN n > 1 /\ s[n] = s[n - 1] ELSE s[n] = (kinds[Len(kinds)] # "open")

\* The number of the last text that has been answered.
Done(t) == Before(t, Len(t) + 1)

\* The texts after number done and up to taken are what main keeps in b; the last
\* of them completes a unit if main is at it, and none else does.
Keeps(c, s, b, done, taken, at, start) ==
  /\ done <= taken
  /\ Own(c, b, done + 1, taken, start)
  /\ \A n \in done + 1 .. taken : CompletesIn(s, n) <=> (at = "busy" /\ n = taken)
  /\ at = "busy" => done < taken

\* The texts after number taken wait in q.
Waiting(c, s, q, taken) ==
  /\ Len(s) = taken + Len(q)
  /\ \A i \in 1 .. Len(q) : q[i].by = c /\ q[i].n = taken + i /\ Means(s, taken + i, q[i].kinds)

\* s has been sent by c, t was answered, q waits, and b is kept.
Pipe(c, s, t, q, b, at) ==
  /\ Turns(c, s, t)
  /\ \E taken \in Nat : Waiting(c, s, q, taken) /\ Keeps(c, s, b, Done(t), taken, at, Len(t) = 0)

LEMMA LenFacts ==
  ASSUME NEW S, NEW s \in Seq(S)
  PROVE  /\ Len(s) \in Nat
         /\ \A e \in S : /\ Append(s, e) \in Seq(S) /\ Len(Append(s, e)) = Len(s) + 1
                         /\ Append(s, e)[Len(s) + 1] = e
                         /\ \A i \in 1 .. Len(s) : Append(s, e)[i] = s[i]
  OBVIOUS

\* Numbers of answered texts are numbers of texts.
LEMMA DoneFacts ==
  ASSUME NEW c, NEW s \in Seq(BOOLEAN), NEW t \in Seq(Told), Turns(c, s, t)
  PROVE  /\ \A i \in 1 .. Len(t) : Last(t[i]).n \in Nat /\ CompletesIn(s, Last(t[i]).n)
         /\ \A i \in 1 .. Len(t) + 1 : Before(t, i) \in Nat /\ Before(t, i) <= Len(s)
         /\ Done(t) \in Nat
         /\ Len(t) = 0 => Done(t) = 0
         /\ Done(t) # 0 => CompletesIn(s, Done(t))
<1>1. Len(t) \in Nat /\ Len(s) \in Nat
  OBVIOUS
<1>2. \A i \in 1 .. Len(t) : Last(t[i]).n \in Nat
  <2> SUFFICES ASSUME NEW i \in 1 .. Len(t) PROVE Last(t[i]).n \in Nat
    OBVIOUS
  <2>1. t[i] \in Seq(Entry) /\ t[i] # <<>>
    BY DEF Turns, Told
  <2>2. t[i][Len(t[i])] \in Entry
    BY <2>1
  <2> QED
    BY <2>2 DEF Entry, Last
<1>3. \A i \in 1 .. Len(t) + 1 : Before(t, i) \in Nat
  <2> SUFFICES ASSUME NEW i \in 1 .. Len(t) + 1 PROVE Before(t, i) \in Nat
    OBVIOUS
  <2>1. i # 1 => i - 1 \in 1 .. Len(t)
    BY <1>1
  <2> QED
    BY <1>2, <2>1 DEF Before
<1>4. \A i \in 1 .. Len(t) : CompletesIn(s, Last(t[i]).n)
  <2> SUFFICES ASSUME NEW i \in 1 .. Len(t) PROVE CompletesIn(s, Last(t[i]).n)
    OBVIOUS
  <2>1. /\ Before(t, i) + 1 <= Last(t[i]).n
        /\ \A n \in Before(t, i) + 1 .. Last(t[i]).n : CompletesIn(s, n) <=> n = Last(t[i]).n
    BY DEF Turns
  <2>2. Before(t, i) \in Nat /\ Last(t[i]).n \in Nat
    BY <1>1, <1>2, <1>3
  <2>3. Last(t[i]).n \in Before(t, i) + 1 .. Last(t[i]).n
    BY <2>1, <2>2
  <2> QED
    BY <2>1, <2>3
<1>5. \A i \in 1 .. Len(t) + 1 : Before(t, i) # 0 => CompletesIn(s, Before(t, i))
  <2> SUFFICES ASSUME NEW i \in 1 .. Len(t) + 1, Before(t, i) # 0 PROVE CompletesIn(s, Before(t, i))
    OBVIOUS
  <2>1. i # 1 => i - 1 \in 1 .. Len(t)
    BY <1>1
  <2> QED
    BY <1>4, <2>1 DEF Before
<1>6. \A i \in 1 .. Len(t) + 1 : Before(t, i) <= Len(s)
  BY <1>1, <1>3, <1>5 DEF CompletesIn
<1>7. Len(t) + 1 \in 1 .. Len(t) + 1
  BY <1>1
<1>8. Len(t) = 0 => Done(t) = 0
  BY DEF Done, Before
<1> QED
  BY <1>2, <1>3, <1>4, <1>5, <1>6, <1>7, <1>8 DEF Done

\* A text more changes nothing about those before it.
LEMMA TurnsSend ==
  ASSUME NEW c, NEW s \in Seq(BOOLEAN), NEW t \in Seq(Told), NEW e \in BOOLEAN, Turns(c, s, t)
  PROVE  Turns(c, Append(s, e), t)
<1>1. \A n \in 1 .. Len(s) : CompletesIn(Append(s, e), n) <=> CompletesIn(s, n)
  BY LenFacts DEF CompletesIn
<1> SUFFICES ASSUME NEW i \in 1 .. Len(t)
             PROVE  /\ t[i] # <<>>
                    /\ Before(t, i) + 1 <= Last(t[i]).n
                    /\ \A n \in Before(t, i) + 1 .. Last(t[i]).n :
                         CompletesIn(Append(s, e), n) <=> n = Last(t[i]).n
                    /\ Own(c, t[i], Before(t, i) + 1, Last(t[i]).n, i = 1)
  BY DEF Turns
<1>2. /\ t[i] # <<>>
      /\ Before(t, i) + 1 <= Last(t[i]).n
      /\ \A n \in Before(t, i) + 1 .. Last(t[i]).n : CompletesIn(s, n) <=> n = Last(t[i]).n
      /\ Own(c, t[i], Before(t, i) + 1, Last(t[i]).n, i = 1)
  BY DEF Turns
<1>3. /\ Before(t, i) \in Nat /\ Last(t[i]).n \in Nat /\ Last(t[i]).n <= Len(s) /\ Len(s) \in Nat
  <2>1. i \in 1 .. Len(t) + 1 /\ Len(s) \in Nat
    OBVIOUS
  <2>2. Before(t, i) \in Nat
    BY <2>1, DoneFacts
  <2>3. Last(t[i]).n \in Nat /\ CompletesIn(s, Last(t[i]).n)
    BY DoneFacts
  <2>4. Last(t[i]).n \in 1 .. Len(s)
    BY <2>3 DEF CompletesIn
  <2> QED
    BY <2>1, <2>2, <2>3, <2>4
<1>4. \A n \in Before(t, i) + 1 .. Last(t[i]).n : n \in 1 .. Len(s)
  BY <1>3
<1> QED
  BY <1>1, <1>2, <1>4

\* A text more is sent.
LEMMA PipeSend ==
  ASSUME NEW c \in Connections, NEW s \in Seq(BOOLEAN), NEW t \in Seq(Told), NEW q \in Seq(Text),
         NEW b, NEW at, NEW kinds \in Seq(Kinds), NEW e \in BOOLEAN, Pipe(c, s, t, q, b, at),
         IF kinds = <<>> THEN s # <<>> /\ e = s[Len(s)] ELSE e = (kinds[Len(kinds)] # "open")
  PROVE  Pipe(c, Append(s, e), t, Append(q, [by |-> c, n |-> Len(s) + 1, kinds |-> kinds]), b, at)
<1> DEFINE u == Append(s, e)
           l == [by |-> c, n |-> Len(s) + 1, kinds |-> kinds]
           r == Append(q, l)
<1>1. /\ Len(u) = Len(s) + 1 /\ u[Len(s) + 1] = e /\ \A i \in 1 .. Len(s) : u[i] = s[i]
      /\ Len(s) \in Nat
  BY LenFacts
<1>2. l \in Text
  BY <1>1 DEF Text
<1>3. /\ Len(r) = Len(q) + 1 /\ r[Len(q) + 1] = l /\ \A i \in 1 .. Len(q) : r[i] = q[i]
      /\ Len(q) \in Nat
  BY <1>2, LenFacts
<1>4. Turns(c, u, t)
  BY TurnsSend DEF Pipe
<1>5. l.by = c /\ l.n = Len(s) + 1 /\ l.kinds = kinds
  OBVIOUS
<1> HIDE DEF u, l, r
<1>6. PICK taken \in Nat : Waiting(c, s, q, taken) /\ Keeps(c, s, b, Done(t), taken, at, Len(t) = 0)
  BY DEF Pipe
<1>7. Len(s) = taken + Len(q)
  BY <1>6 DEF Waiting
<1>8. Waiting(c, u, r, taken)
  <2> SUFFICES ASSUME NEW i \in 1 .. Len(r)
               PROVE  r[i].by = c /\ r[i].n = taken + i /\ Means(u, taken + i, r[i].kinds)
    BY <1>1, <1>3, <1>7 DEF Waiting
  <2>1. CASE i \in 1 .. Len(q)
    <3>1. r[i] = q[i] /\ q[i].by = c /\ q[i].n = taken + i /\ Means(s, taken + i, q[i].kinds)
      BY <1>3, <1>6, <2>1 DEF Waiting
    <3>2. taken + i \in 1 .. Len(s) /\ (taken + i > 1 => taken + i - 1 \in 1 .. Len(s))
      BY <1>3, <1>7, <2>1
    <3>3. u[taken + i] = s[taken + i] /\ (taken + i > 1 => u[taken + i - 1] = s[taken + i - 1])
      BY <1>1, <3>2
    <3> QED
      BY <3>1, <3>3 DEF Means
  <2>2. CASE i = Len(q) + 1
    <3>1. r[i] = l /\ taken + i = Len(s) + 1
      BY <1>1, <1>3, <1>7, <2>2
    <3>2. CASE kinds = <<>>
      <4>1. Len(s) \in 1 .. Len(s) /\ Len(s) + 1 > 1 /\ (Len(s) + 1) - 1 = Len(s)
        <5>1. Len(s) # 0
          BY <3>2, EmptySeq
        <5> QED
          BY <1>1, <5>1
      <4>2. u[Len(s) + 1] = u[(Len(s) + 1) - 1]
        BY <1>1, <3>2, <4>1
      <4> QED
        BY <1>5, <3>1, <3>2, <4>1, <4>2 DEF Means
    <3>3. CASE kinds # <<>>
      BY <1>1, <1>5, <3>1, <3>3 DEF Means
    <3> QED
      BY <3>2, <3>3
  <2> QED
    BY <1>3, <2>1, <2>2
<1>9. Keeps(c, u, b, Done(t), taken, at, Len(t) = 0)
  <2>1. \A n \in Done(t) + 1 .. taken : CompletesIn(u, n) <=> CompletesIn(s, n)
    <3>1. Done(t) \in Nat
      BY DoneFacts DEF Pipe
    <3>2. \A n \in Done(t) + 1 .. taken : n \in 1 .. Len(s) /\ n \in 1 .. Len(u)
      BY <1>1, <1>3, <1>7, <3>1
    <3> QED
      BY <1>1, <3>2 DEF CompletesIn
  <2> QED
    BY <1>6, <2>1 DEF Keeps
<1>10. Pipe(c, u, t, r, b, at)
  BY <1>4, <1>8, <1>9 DEF Pipe
<1> QED
  BY <1>10 DEF u, l, r

AtUnit(complete) == IF complete THEN "busy" ELSE "idle"

\* main takes a text.
LEMMA PipeTake ==
  ASSUME NEW c \in Connections, NEW s \in Seq(BOOLEAN), NEW t \in Seq(Told), NEW q \in Seq(Text),
         NEW b \in Seq(Text), q # <<>>, Pipe(c, s, t, q, b, "idle")
  PROVE  /\ Head(q).by = c
         /\ Pipe(c, s, t, Tail(q), Append(b, Head(q)), AtUnit(Compilable(b, Head(q))))
<1> DEFINE r == Tail(q)
           l == Head(q)
           d == Append(b, l)
           done == Done(t)
<1>1. /\ Len(q) \in Nat \ {0} /\ Len(r) = Len(q) - 1 /\ l = q[1] /\ l \in Text
      /\ \A i \in 1 .. Len(q) - 1 : r[i] = q[i + 1]
      /\ Len(s) \in Nat
  OBVIOUS
<1>2. /\ Len(b) \in Nat /\ Len(d) = Len(b) + 1 /\ d[Len(b) + 1] = l
      /\ \A k \in 1 .. Len(b) : d[k] = b[k]
      /\ b = <<>> <=> Len(b) = 0
  BY <1>1, LenFacts, EmptySeq
<1>3. /\ Turns(c, s, t) /\ done \in Nat
      /\ Len(t) = 0 => done = 0
      /\ done # 0 => CompletesIn(s, done)
  BY DoneFacts DEF Pipe
<1>4. PICK taken \in Nat : Waiting(c, s, q, taken) /\ Keeps(c, s, b, done, taken, "idle", Len(t) = 0)
  BY DEF Pipe
<1> HIDE DEF r, l, d, done
<1>5. /\ Len(s) = taken + Len(q)
      /\ \A i \in 1 .. Len(q) : q[i].by = c /\ q[i].n = taken + i /\ Means(s, taken + i, q[i].kinds)
  BY <1>4 DEF Waiting
<1>6. /\ done <= taken
      /\ taken <= done + Len(b)
      /\ \A k \in 1 .. Len(b) : LET n == taken - (Len(b) - k)
                                IN  IF n >= done + 1 THEN b[k].by = c /\ b[k].n = n
                                                     ELSE b[k].by < c /\ Len(t) = 0
      /\ \A n \in done + 1 .. taken : ~CompletesIn(s, n)
  <2>1. (done + 1) - 1 = done
    BY <1>3
  <2> QED
    BY <1>4, <2>1 DEF Keeps, Own
<1>7. l.by = c /\ l.n = taken + 1 /\ Means(s, taken + 1, l.kinds)
  BY <1>1, <1>5
<1>8. Waiting(c, s, r, taken + 1)
  <2> SUFFICES ASSUME NEW i \in 1 .. Len(r)
               PROVE  r[i].by = c /\ r[i].n = taken + 1 + i /\ Means(s, taken + 1 + i, r[i].kinds)
    BY <1>1, <1>5 DEF Waiting
  <2>1. i + 1 \in 1 .. Len(q) /\ r[i] = q[i + 1] /\ taken + (i + 1) = taken + 1 + i
    BY <1>1
  <2> QED
    BY <1>5, <2>1
<1>9. CompletesIn(s, taken + 1) <=> Compilable(b, l)
  <2>1. taken + 1 \in 1 .. Len(s)
    BY <1>1, <1>5
  <2>2. CASE l.kinds # <<>>
    BY <1>7, <2>1, <2>2 DEF Means, CompletesIn, Compilable
  <2>3. CASE l.kinds = <<>>
    <3>1. taken > 0 /\ s[taken + 1] = s[taken]
      <4>1. taken + 1 > 1 /\ s[taken + 1] = s[taken + 1 - 1] /\ taken + 1 - 1 = taken
        BY <1>7, <2>3 DEF Means
      <4> QED
        BY <4>1
    <3>2. taken \in 1 .. Len(s)
      BY <2>1, <3>1
    <3>3. CompletesIn(s, taken + 1) <=> CompletesIn(s, taken)
      BY <2>1, <3>1, <3>2 DEF CompletesIn
    <3>4. CASE b = <<>>
      <4>1. taken = done
        BY <1>2, <1>3, <1>6, <3>4
      <4> QED
        BY <1>3, <2>3, <3>1, <3>3, <3>4, <4>1 DEF Compilable
    <3>5. CASE b # <<>>
      <4>1. CASE taken > done
        <5>1. taken \in done + 1 .. taken
          BY <1>3, <4>1
        <5> QED
          BY <1>6, <2>3, <3>3, <3>5, <5>1 DEF Compilable
      <4>2. CASE taken = done
        <5>1. Len(b) \in 1 .. Len(b) /\ taken - (Len(b) - Len(b)) = taken /\ ~(taken >= done + 1)
          BY <1>2, <1>3, <3>5, <4>2
        <5>2. Len(t) = 0
          BY <1>6, <5>1
        <5> QED
          BY <1>3, <3>1, <4>2, <5>2
      <4> QED
        BY <1>3, <1>6, <4>1, <4>2
    <3> QED
      BY <3>4, <3>5
  <2> QED
    BY <2>2, <2>3
<1>10. Own(c, d, done + 1, taken + 1, Len(t) = 0)
  <2>1. taken + 1 <= (done + 1) - 1 + Len(d)
    BY <1>2, <1>3, <1>6
  <2>2. ASSUME NEW k \in 1 .. Len(d)
        PROVE  LET n == taken + 1 - (Len(d) - k)
               IN  IF n >= done + 1 THEN d[k].by = c /\ d[k].n = n ELSE d[k].by < c /\ Len(t) = 0
    <3>1. CASE k \in 1 .. Len(b)
      <4>1. taken + 1 - (Len(d) - k) = taken - (Len(b) - k) /\ d[k] = b[k]
        BY <1>2, <3>1
      <4> QED
        BY <1>6, <3>1, <4>1
    <3>2. CASE k = Len(b) + 1
      <4>1. taken + 1 - (Len(d) - k) = taken + 1 /\ d[k] = l /\ taken + 1 >= done + 1
        BY <1>2, <1>3, <1>6, <3>2
      <4> QED
        BY <1>7, <4>1
    <3> QED
      BY <1>2, <3>1, <3>2
  <2> QED
    BY <2>1, <2>2 DEF Own
<1>11. Keeps(c, s, d, done, taken + 1, AtUnit(Compilable(b, l)), Len(t) = 0)
  <2>1. AtUnit(Compilable(b, l)) = "busy" <=> Compilable(b, l)
    BY DEF AtUnit
  <2>2. \A n \in done + 1 .. taken + 1 : CompletesIn(s, n) <=> (Compilable(b, l) /\ n = taken + 1)
    <3> SUFFICES ASSUME NEW n \in done + 1 .. taken + 1
                 PROVE  CompletesIn(s, n) <=> (Compilable(b, l) /\ n = taken + 1)
      OBVIOUS
    <3>1. CASE n = taken + 1
      BY <1>9, <3>1
    <3>2. CASE n # taken + 1
      <4>1. n \in done + 1 .. taken
        BY <1>3, <3>2
      <4> QED
        BY <1>6, <3>2, <4>1
    <3> QED
      BY <3>1, <3>2
  <2>3. done <= taken + 1 /\ done < taken + 1
    BY <1>3, <1>6
  <2> QED
    BY <1>10, <2>1, <2>2, <2>3 DEF Keeps
<1>12. taken + 1 \in Nat
  OBVIOUS
<1>13. Pipe(c, s, t, r, d, AtUnit(Compilable(b, l)))
  BY <1>3, <1>8, <1>11, <1>12 DEF Pipe, done
<1> QED
  BY <1>7, <1>13 DEF r, l, d

ResultOf(u) == [k \in 1 .. Len(u) |-> [by |-> u[k].by, n |-> u[k].n]]

LEMMA ResultFacts ==
  ASSUME NEW u \in Seq(Text)
  PROVE  /\ ResultOf(u) \in Told
         /\ Len(ResultOf(u)) = Len(u)
         /\ \A k \in 1 .. Len(u) : ResultOf(u)[k].by = u[k].by /\ ResultOf(u)[k].n = u[k].n
<1>1. Len(u) \in Nat /\ \A k \in 1 .. Len(u) : u[k] \in Text
  OBVIOUS
<1>2. \A k \in 1 .. Len(u) : [by |-> u[k].by, n |-> u[k].n] \in Entry
  BY <1>1 DEF Text, Entry
<1>3. ResultOf(u) \in Seq(Entry) /\ Len(ResultOf(u)) = Len(u)
  BY <1>1, <1>2 DEF ResultOf
<1>4. \A k \in 1 .. Len(u) : ResultOf(u)[k] = [by |-> u[k].by, n |-> u[k].n]
  BY DEF ResultOf
<1>5. \A k \in 1 .. Len(u) : ResultOf(u)[k].by = u[k].by /\ ResultOf(u)[k].n = u[k].n
  <2> SUFFICES ASSUME NEW k \in 1 .. Len(u)
               PROVE  ResultOf(u)[k].by = u[k].by /\ ResultOf(u)[k].n = u[k].n
    OBVIOUS
  <2>1. PICK e : e = [by |-> u[k].by, n |-> u[k].n]
    OBVIOUS
  <2>2. e.by = u[k].by /\ e.n = u[k].n
    BY <2>1
  <2>3. ResultOf(u)[k] = e
    BY <1>4, <2>1
  <2> QED
    BY <2>2, <2>3
<1>6. ResultOf(u) \in Told
  BY <1>3 DEF Told
<1> QED
  BY <1>3, <1>5, <1>6

\* The unit is answered.
LEMMA PipeAnswer ==
  ASSUME NEW c \in Connections, NEW s \in Seq(BOOLEAN), NEW t \in Seq(Told), NEW q \in Seq(Text),
         NEW b \in Seq(Text), Pipe(c, s, t, q, b, "busy")
  PROVE  Pipe(c, s, Append(t, ResultOf(b)), q, << >>, "idle")
<1> DEFINE e == ResultOf(b)
           u == Append(t, e)
           done == Done(t)
<1>1. /\ e \in Told /\ Len(e) = Len(b) /\ Len(b) \in Nat
      /\ \A k \in 1 .. Len(b) : e[k].by = b[k].by /\ e[k].n = b[k].n
  BY ResultFacts
<1>2. /\ Len(t) \in Nat /\ Len(u) = Len(t) + 1 /\ u[Len(t) + 1] = e
      /\ \A i \in 1 .. Len(t) : u[i] = t[i]
      /\ u \in Seq(Told)
  BY <1>1, LenFacts
<1>3. /\ Turns(c, s, t) /\ done \in Nat
      /\ Len(t) = 0 => done = 0
  BY DoneFacts DEF Pipe
<1>4. PICK taken \in Nat : Waiting(c, s, q, taken) /\ Keeps(c, s, b, done, taken, "busy", Len(t) = 0)
  BY DEF Pipe
<1>5. \A i \in 1 .. Len(t) + 1 : Before(u, i) = Before(t, i)
  <2> SUFFICES ASSUME NEW i \in 1 .. Len(t) + 1 PROVE Before(u, i) = Before(t, i)
    OBVIOUS
  <2>1. i # 1 => i - 1 \in 1 .. Len(t)
    BY <1>2
  <2> QED
    BY <1>2, <2>1 DEF Before
<1> HIDE DEF e, u
<1>6. Before(u, Len(t) + 1) = done
  BY <1>2, <1>5 DEF Done
<1> HIDE DEF done
<1>7. /\ done < taken
      /\ taken <= done + Len(b)
      /\ \A k \in 1 .. Len(b) : LET n == taken - (Len(b) - k)
                                IN  IF n >= done + 1 THEN b[k].by = c /\ b[k].n = n
                                                     ELSE b[k].by < c /\ Len(t) = 0
      /\ \A n \in done + 1 .. taken : CompletesIn(s, n) <=> n = taken
  <2>1. (done + 1) - 1 = done
    BY <1>3
  <2> QED
    BY <1>4, <2>1 DEF Keeps, Own
<1>8. /\ e # <<>> /\ Last(e).n = taken
  <2>1. Len(b) \in 1 .. Len(b) /\ taken - (Len(b) - Len(b)) = taken /\ taken >= done + 1
    BY <1>1, <1>3, <1>7
  <2>2. b[Len(b)].n = taken
    BY <1>7, <2>1
  <2> QED
    BY <1>1, <2>1, <2>2 DEF Last
<1>9. Own(c, e, done + 1, taken, Len(t) = 0)
  <2>1. taken <= (done + 1) - 1 + Len(e)
    BY <1>1, <1>3, <1>7
  <2> QED
    BY <1>1, <1>7, <2>1 DEF Own
<1>10. Turns(c, s, u)
  <2> SUFFICES ASSUME NEW i \in 1 .. Len(u)
               PROVE  /\ u[i] # <<>>
                      /\ Before(u, i) + 1 <= Last(u[i]).n
                      /\ \A n \in Before(u, i) + 1 .. Last(u[i]).n : CompletesIn(s, n) <=> n = Last(u[i]).n
                      /\ Own(c, u[i], Before(u, i) + 1, Last(u[i]).n, i = 1)
    BY DEF Turns
  <2>1. CASE i \in 1 .. Len(t)
    <3>1. u[i] = t[i] /\ Before(u, i) = Before(t, i)
      BY <1>2, <1>5, <2>1
    <3> QED
      BY <1>3, <2>1, <3>1 DEF Turns
  <2>2. CASE i = Len(t) + 1
    <3>1. u[i] = e /\ Before(u, i) = done /\ Last(u[i]).n = taken /\ ((i = 1) <=> Len(t) = 0)
      BY <1>2, <1>6, <1>8, <2>2
    <3>2. done + 1 <= taken
      BY <1>3, <1>7
    <3>3. Own(c, e, done + 1, taken, i = 1)
      BY <1>9, <3>1 DEF Own
    <3> QED
      BY <1>7, <1>8, <3>1, <3>2, <3>3
  <2> QED
    BY <1>2, <2>1, <2>2
<1>11. Done(u) = taken
  BY <1>2, <1>8 DEF Done, Before
<1>12. Keeps(c, s, << >>, taken, taken, "idle", Len(u) = 0)
  BY DEF Keeps, Own
<1> QED
  BY <1>4, <1>10, <1>11, <1>12 DEF Pipe, u, e

\* What has been delivered so far is the beginning of it.
LEMMA PipeDelivered ==
  ASSUME NEW c \in Connections, NEW s \in Seq(BOOLEAN), NEW g \in Seq(Told), NEW r \in Seq(Told),
         Turns(c, s, g \o r)
  PROVE  Turns(c, s, g)
<1> DEFINE t == g \o r
<1>1. /\ Len(g) \in Nat /\ Len(r) \in Nat /\ Len(t) = Len(g) + Len(r)
      /\ \A i \in 1 .. Len(g) : t[i] = g[i]
  OBVIOUS
<1> HIDE DEF t
<1>2. Turns(c, s, t)
  BY DEF t
<1> SUFFICES ASSUME NEW i \in 1 .. Len(g)
             PROVE  /\ g[i] # <<>>
                    /\ Before(g, i) + 1 <= Last(g[i]).n
                    /\ \A n \in Before(g, i) + 1 .. Last(g[i]).n : CompletesIn(s, n) <=> n = Last(g[i]).n
                    /\ Own(c, g[i], Before(g, i) + 1, Last(g[i]).n, i = 1)
  BY DEF Turns
<1>3. i \in 1 .. Len(t) /\ t[i] = g[i] /\ (i # 1 => i - 1 \in 1 .. Len(g))
  BY <1>1
<1>4. Before(t, i) = Before(g, i)
  BY <1>1, <1>3 DEF Before
<1> QED
  BY <1>2, <1>3, <1>4 DEF Turns

-----------------------------------------------------------------------------
(* The queues of all listeners.                                            *)

QueueShape ==
  /\ sent \in [Connections -> Seq(BOOLEAN)]
  /\ got \in [Connections -> Seq(Told)]
  /\ newline \in [Addresses -> BOOLEAN]
  /\ outq \in [Addresses -> Seq(Text)]
  /\ inq \in [Addresses -> Seq(Told)]
  /\ bufs \in [Addresses -> Seq(Text)]

\* main evaluates what the listener at a sent, or has hung doing so.
Evaluates(a) == main.pc \in {"eval", "hung"} /\ Visited = a

State(a) == IF Evaluates(a) THEN "busy" ELSE "idle"

PipesOK(h, s, g, o, i, b) ==
  \A a \in Addresses : h[a] \in Connections =>
    Pipe(h[a], s[h[a]], g[h[a]] \o i[a], o[a], b[a], State(a))

\* What is kept has been sent by who has been accepted; a line that begins with
\* the end of another has had one.
LeftInv ==
  /\ \A a \in Addresses : \A k \in 1 .. Len(bufs[a]) : bufs[a][k].by <= server.c
  /\ \A a \in Addresses : newline[a] /\ heap[a] \in Connections => sent[heap[a]] # <<>>

QueueInv ==
  /\ QueueShape
  /\ main.pc \in {"eval", "hung"} => main.at <= Len(listeners)
  /\ PipesOK(heap, sent, got, outq, inq, bufs)
  /\ LeftInv
  /\ \A c \in Connections : Turns(c, sent[c], got[c])
  /\ \A c \in Connections : c > server.c => sent[c] = <<>> /\ got[c] = <<>>

\* Nothing sent, nothing told.
LEMMA PipeNew ==
  ASSUME NEW c \in Connections, NEW b \in Seq(Text), \A k \in 1 .. Len(b) : b[k].by < c
  PROVE  Pipe(c, << >>, << >>, << >>, b, "idle")
<1>1. Turns(c, << >>, << >>) /\ Waiting(c, << >>, << >>, 0) /\ Done(<< >>) = 0
  BY DEF Turns, Waiting, Done, Before
<1>2. Len(b) \in Nat
  OBVIOUS
<1>3. Own(c, b, 1, 0, TRUE)
  <2>1. \A k \in 1 .. Len(b) : ~(0 - (Len(b) - k) >= 1)
    BY <1>2
  <2> QED
    BY <1>2, <2>1 DEF Own
<1>4. Keeps(c, << >>, b, 0, 0, "idle", Len(<< >>) = 0)
  <2>1. Len(<< >>) = 0 /\ 0 + 1 = 1
    OBVIOUS
  <2> QED
    BY <1>3, <2>1 DEF Keeps, Own
<1> QED
  BY <1>1, <1>4 DEF Pipe

LEMMA InitQueue == Init => QueueInv
<1> SUFFICES ASSUME Init PROVE QueueInv
  OBVIOUS
<1>1. QueueShape
  BY DEF Init, QueueShape
<1>2. \A c \in Connections : sent[c] = <<>> /\ got[c] = <<>> /\ Turns(c, sent[c], got[c])
  BY DEF Init, Turns
<1>3. PipesOK(heap, sent, got, outq, inq, bufs)
  <2> SUFFICES ASSUME NEW a \in Addresses, heap[a] \in Connections
               PROVE  Pipe(heap[a], sent[heap[a]], got[heap[a]] \o inq[a], outq[a], bufs[a], State(a))
    BY DEF PipesOK
  <2>1. /\ sent[heap[a]] = <<>> /\ got[heap[a]] \o inq[a] = <<>> /\ outq[a] = <<>> /\ State(a) = "idle"
        /\ bufs[a] = <<>>
    BY <1>2 DEF Init, Evaluates, State
  <2>2. bufs[a] \in Seq(Text) /\ \A k \in 1 .. Len(bufs[a]) : bufs[a][k].by < heap[a]
    BY <2>1
  <2>3. Pipe(heap[a], << >>, << >>, << >>, bufs[a], "idle")
    BY <2>2, PipeNew
  <2> QED
    BY <2>1, <2>3
<1>4. LeftInv
  BY DEF Init, LeftInv
<1> QED
  BY <1>1, <1>2, <1>3, <1>4 DEF Init, QueueInv

\* What leaves the front of one sequence for the end of the one before it.
LEMMA InTwoParts ==
  ASSUME NEW s \in Seq(Told), NEW t \in Seq(Told)
  PROVE  /\ t # <<>> => Append(s, Head(t)) \o Tail(t) = s \o t
         /\ \A e \in Told : s \o Append(t, e) = Append(s \o t, e)
<1>1. ASSUME t # <<>> PROVE Append(s, Head(t)) \o Tail(t) = s \o t
  <2>1. Head(t) \in Told /\ Tail(t) \in Seq(Told)
    BY <1>1, HeadTailProperties
  <2>2. <<Head(t)>> \in Seq(Told)
    BY <2>1
  <2>3. Append(s, Head(t)) = s \o <<Head(t)>>
    BY <2>1, AppendIsConcat
  <2>4. t = <<Head(t)>> \o Tail(t)
    <3>1. Len(t) \in Nat \ {0}
      BY <1>1, EmptySeq
    <3>2. 1 \in 1 .. Len(t) /\ Len(t) \in 1 .. Len(t)
      BY <3>1
    <3>3. SubSeq(t, 1, Len(t)) = <<t[1]>> \o SubSeq(t, 1 + 1, Len(t))
      BY <3>2, SubSeqRecursiveFirst
    <3>4. SubSeq(t, 1, Len(t)) = t
      BY SubSeqFull
    <3>5. Tail(t) = SubSeq(t, 2, Len(t))
      BY <1>1, TailIsSubSeq
    <3>6. Head(t) = t[1]
      BY <1>1
    <3> QED
      BY <3>3, <3>4, <3>5, <3>6
  <2>5. (s \o <<Head(t)>>) \o Tail(t) = s \o (<<Head(t)>> \o Tail(t))
    BY <2>1, <2>2, ConcatAssociative
  <2> QED
    BY <2>3, <2>4, <2>5
<1>2. ASSUME NEW e \in Told PROVE s \o Append(t, e) = Append(s \o t, e)
  <2>1. <<e>> \in Seq(Told) /\ s \o t \in Seq(Told)
    BY ConcatProperties
  <2>2. Append(t, e) = t \o <<e>> /\ Append(s \o t, e) = (s \o t) \o <<e>>
    BY <2>1, AppendIsConcat
  <2>3. (s \o t) \o <<e>> = s \o (t \o <<e>>)
    BY <2>1, ConcatAssociative
  <2> QED
    BY <2>2, <2>3
<1> QED
  BY <1>1, <1>2

\* Whoever main visits is a connection's listener.
LEMMA VisitedFacts ==
  ASSUME ConsoleInv, main.at <= Len(listeners)
  PROVE  Visited \in Addresses /\ heap[Visited] \in Connections
<1>1. main.at \in 1 .. Len(listeners) /\ listeners \in Seq(Addresses)
  BY DEF ConsoleInv, ShapeInv
<1>2. Visited \in Addresses /\ Listed(Visited)
  BY <1>1 DEF Visited, ConsoleInv, ListInv
<1> QED
  BY <1>2, NobodyFacts DEF Listed

\* Steps that leave the queues alone.
LEMMA QueuesKept ==
  ASSUME QueueInv, UNCHANGED <<sent, got, outq, inq, bufs, heap, newline>>, server'.c = server.c,
         main'.pc \in {"eval", "hung"} => main'.at <= Len(listeners'),
         \A a \in Addresses : State(a)' = State(a)
  PROVE  QueueInv'
<1>1. PipesOK(heap, sent, got, outq, inq, bufs)'
  BY DEF PipesOK, QueueInv
<1>2. LeftInv'
  BY DEF LeftInv, QueueInv
<1> QED
  BY <1>1, <1>2 DEF QueueInv, QueueShape

\* Steps of main that do neither.
LEMMA QueuesWait ==
  ASSUME QueueInv, UNCHANGED <<sent, got, outq, inq, bufs, heap, newline>>, server'.c = server.c,
         main.pc \notin {"eval", "hung"}, main'.pc \notin {"eval", "hung"}
  PROVE  QueueInv'
<1>1. \A a \in Addresses : State(a)' = State(a)
  BY DEF Evaluates, State
<1> QED
  BY <1>1, QueuesKept

LEMMA QueuesTake ==
  ASSUME ConsoleInv, QueueInv, TakeText
  PROVE  QueueInv'
<1>0. PICK a : a = Visited
  OBVIOUS
<1> DEFINE c == heap[a]
           l == Head(outq[a])
           done == Compilable(bufs[a], l)
<1>1. /\ main.pc = "visit" /\ main.at <= Len(listeners) /\ outq[a] # <<>>
      /\ bufs' = [bufs EXCEPT ![a] = Append(@, l)]
      /\ main' = [main EXCEPT !.pc = IF done THEN "eval" ELSE "visit"]
      /\ outq' = [outq EXCEPT ![a] = Tail(@)]
      /\ UNCHANGED <<sent, got, inq, heap, newline, server, listeners>>
  BY <1>0 DEF TakeText
<1>2. a \in Addresses /\ c \in Connections
  BY <1>0, <1>1, VisitedFacts
<1>3. /\ outq[a] \in Seq(Text) /\ l \in Text /\ bufs[a] \in Seq(Text) /\ inq[a] \in Seq(Told)
      /\ sent[c] \in Seq(BOOLEAN) /\ got[c] \in Seq(Told)
  BY <1>1, <1>2 DEF QueueInv, QueueShape
<1>4. main'.at = main.at /\ Visited' = a /\ (main'.pc \in {"eval", "hung"} <=> done)
  BY <1>0, <1>1 DEF Visited, ConsoleInv, ShapeInv
<1>5. QueueShape'
  <2>1. Tail(outq[a]) \in Seq(Text) /\ Append(bufs[a], l) \in Seq(Text)
    BY <1>1, <1>3
  <2>2. outq' \in [Addresses -> Seq(Text)] /\ bufs' \in [Addresses -> Seq(Text)]
    BY <1>1, <2>1 DEF QueueInv, QueueShape
  <2> QED
    BY <1>1, <2>2 DEF QueueInv, QueueShape
<1>6. /\ outq'[a] = Tail(outq[a]) /\ bufs'[a] = Append(bufs[a], l)
      /\ \A b \in Addresses : b # a => outq'[b] = outq[b] /\ bufs'[b] = bufs[b]
  BY <1>1, <1>2 DEF QueueInv, QueueShape
<1>7. \A b \in Addresses : State(b) = "idle" /\ State(b)' = IF b = a THEN AtUnit(done) ELSE "idle"
  BY <1>0, <1>1, <1>4 DEF Evaluates, State, AtUnit
<1>8. l.by = c /\ Pipe(c, sent[c], got[c] \o inq[a], Tail(outq[a]), Append(bufs[a], l), AtUnit(done))
  <2>1. Pipe(c, sent[c], got[c] \o inq[a], outq[a], bufs[a], "idle")
    BY <1>2, <1>7 DEF QueueInv, PipesOK
  <2>2. got[c] \o inq[a] \in Seq(Told)
    BY <1>3
  <2> QED
    BY <1>1, <1>2, <1>3, <2>1, <2>2, PipeTake
<1> HIDE DEF done
<1>9. PipesOK(heap, sent, got, outq, inq, bufs)'
  <2> SUFFICES ASSUME NEW b \in Addresses, heap[b] \in Connections
               PROVE  Pipe(heap[b], sent[heap[b]], got[heap[b]] \o inq[b], outq'[b], bufs'[b], State(b)')
    BY <1>1 DEF PipesOK
  <2>1. CASE b # a
    <3>1. State(b) = "idle" /\ State(b)' = "idle" /\ outq'[b] = outq[b] /\ bufs'[b] = bufs[b]
      BY <1>6, <1>7, <2>1
    <3>2. Pipe(heap[b], sent[heap[b]], got[heap[b]] \o inq[b], outq[b], bufs[b], State(b))
      BY DEF QueueInv, PipesOK
    <3> QED
      BY <3>1, <3>2
  <2>2. CASE b = a
    <3>1. State(a)' = AtUnit(done)
      BY <1>2, <1>7
    <3> QED
      BY <1>6, <1>8, <2>2, <3>1
  <2> QED
    BY <2>1, <2>2
<1>10. LeftInv'
  <2>1. c <= server.c
    <3>1. ~(c > server.c) /\ server.c \in Connections
      BY <1>2 DEF ConsoleInv, ShapeInv, HeapInv
    <3> QED
      BY <1>2, <3>1, NobodyFacts
  <2>2. \A k \in 1 .. Len(bufs'[a]) : bufs'[a][k].by <= server.c
    <3>1. /\ Len(bufs'[a]) = Len(bufs[a]) + 1 /\ Len(bufs[a]) \in Nat
          /\ bufs'[a][Len(bufs[a]) + 1] = l
          /\ \A k \in 1 .. Len(bufs[a]) : bufs'[a][k] = bufs[a][k]
      BY <1>3, <1>6, LenFacts
    <3> QED
      BY <1>2, <1>8, <2>1, <3>1 DEF QueueInv, LeftInv
  <2> QED
    BY <1>1, <1>6, <2>2 DEF QueueInv, LeftInv
<1> QED
  BY <1>1, <1>4, <1>5, <1>9, <1>10 DEF QueueInv

\* main answers what it has evaluated, and goes on with the same listener.
LEMMA QueuesAnswer ==
  ASSUME ConsoleInv, QueueInv, main.pc = "eval", Answer, main' = [main EXCEPT !.pc = "visit"],
         UNCHANGED <<listeners, server, sent, got>>
  PROVE  QueueInv'
<1>0. PICK a : a = Visited
  OBVIOUS
<1> DEFINE c == heap[a]
           e == ResultOf(bufs[a])
<1>1. /\ inq' = [inq EXCEPT ![a] = Append(@, e)]
      /\ bufs' = [bufs EXCEPT ![a] = <<>>]
      /\ UNCHANGED <<outq, heap, newline>>
  BY <1>0 DEF Answer, Result, ResultOf, Unit
<1>2. a \in Addresses /\ c \in Connections
  BY <1>0, VisitedFacts DEF QueueInv
<1>3. /\ outq[a] \in Seq(Text) /\ inq[a] \in Seq(Told) /\ bufs[a] \in Seq(Text)
      /\ sent[c] \in Seq(BOOLEAN) /\ got[c] \in Seq(Told) /\ got[c] \o inq[a] \in Seq(Told)
  <2>1. /\ outq[a] \in Seq(Text) /\ inq[a] \in Seq(Told) /\ bufs[a] \in Seq(Text)
        /\ sent[c] \in Seq(BOOLEAN) /\ got[c] \in Seq(Told)
    BY <1>2 DEF QueueInv, QueueShape
  <2> QED
    BY <2>1
<1>4. main'.pc = "visit"
  BY DEF ConsoleInv, ShapeInv
<1>5. \A b \in Addresses : State(b)' = "idle" /\ State(b) = IF b = a THEN "busy" ELSE "idle"
  BY <1>0, <1>4 DEF Evaluates, State
<1>6. Pipe(c, sent[c], got[c] \o inq[a], outq[a], bufs[a], "busy")
  <2>1. State(a) = "busy"
    BY <1>2, <1>5
  <2> QED
    BY <1>2, <2>1 DEF QueueInv, PipesOK
<1>7. e \in Told
  BY <1>3, ResultFacts
<1> HIDE DEF e
<1>8. /\ inq'[a] = Append(inq[a], e) /\ bufs'[a] = <<>>
      /\ \A b \in Addresses : b # a => inq'[b] = inq[b] /\ bufs'[b] = bufs[b]
  BY <1>1, <1>2 DEF QueueInv, QueueShape
<1>9. QueueShape'
  <2>1. <<>> \in Seq(Text) /\ Append(inq[a], e) \in Seq(Told)
    BY <1>3, <1>7
  <2>2. inq' \in [Addresses -> Seq(Told)] /\ bufs' \in [Addresses -> Seq(Text)]
    BY <1>1, <2>1 DEF QueueInv, QueueShape
  <2> QED
    BY <1>1, <2>2 DEF QueueInv, QueueShape
<1>10. got[c] \o Append(inq[a], e) = Append(got[c] \o inq[a], e)
  BY <1>3, <1>7, InTwoParts
<1>11. PipesOK(heap, sent, got, outq, inq, bufs)'
  <2> SUFFICES ASSUME NEW b \in Addresses, heap[b] \in Connections
               PROVE  Pipe(heap[b], sent[heap[b]], got[heap[b]] \o inq'[b], outq[b], bufs'[b], "idle")
    BY <1>1, <1>5 DEF PipesOK
  <2>1. CASE b # a
    <3>1. State(b) = "idle"
      BY <1>5, <2>1
    <3> QED
      BY <1>8, <2>1, <3>1 DEF QueueInv, PipesOK
  <2>2. CASE b = a
    <3>1. Pipe(c, sent[c], Append(got[c] \o inq[a], e), outq[a], << >>, "idle")
      BY <1>2, <1>3, <1>6, PipeAnswer DEF e
    <3> QED
      BY <1>8, <1>10, <2>2, <3>1
  <2> QED
    BY <2>1, <2>2
<1>12. LeftInv'
  <2>1. \A b \in Addresses : \A k \in 1 .. Len(bufs'[b]) : bufs'[b][k].by <= server.c
    <3> SUFFICES ASSUME NEW b \in Addresses, NEW k \in 1 .. Len(bufs'[b]) PROVE bufs'[b][k].by <= server.c
      OBVIOUS
    <3>1. b # a
      BY <1>8
    <3> QED
      BY <1>8, <3>1 DEF QueueInv, LeftInv
  <2> QED
    BY <1>1, <2>1 DEF QueueInv, LeftInv
<1> QED
  BY <1>4, <1>9, <1>11, <1>12 DEF QueueInv

LEMMA QueuesMain ==
  ASSUME ConsoleInv, QueueInv, Main
  PROVE  QueueInv'
<1>0. main \in [pc : Steps, at : Nat \ {0}]
  BY DEF ConsoleInv, ShapeInv
<1>1. CASE MainPoll \/ MainLock \/ NextListener \/ MainUnlock
  <2>1. UNCHANGED <<sent, got, outq, inq, bufs, heap, newline, server>>
    BY <1>1 DEF MainPoll, MainLock, NextListener, MainUnlock, objects
  <2>2. main.pc \notin {"eval", "hung"} /\ main'.pc \notin {"eval", "hung"}
    <3>1. CASE MainPoll
      BY <1>0, <3>1 DEF MainPoll
    <3>2. CASE MainLock
      BY <1>0, <3>2 DEF MainLock, Pass
    <3>3. CASE NextListener
      BY <1>0, <3>3 DEF NextListener
    <3>4. CASE MainUnlock
      BY <1>0, <3>4 DEF MainUnlock
    <3> QED
      BY <1>1, <3>1, <3>2, <3>3, <3>4
  <2> QED
    BY <2>1, <2>2, QueuesWait
<1>2. CASE TakeText
  BY <1>2, QueuesTake
<1>3. CASE Eval \/ EvalQuit
  <2>1. /\ main.pc = "eval" /\ Answer /\ main' = [main EXCEPT !.pc = "visit"]
        /\ UNCHANGED <<listeners, server, sent, got>>
    BY <1>3 DEF Eval, EvalQuit
  <2> QED
    BY <2>1, QueuesAnswer
<1>4. CASE EvalSpeaks
  <2>0. main.pc = "eval" /\ UNCHANGED <<listeners, server, sent, got>>
    BY <1>4 DEF EvalSpeaks
  <2>1. CASE CanLock("main")
    <3>1. Answer /\ main' = [main EXCEPT !.pc = "visit"]
      BY <1>4, <2>1 DEF EvalSpeaks
    <3> QED
      BY <2>0, <3>1, QueuesAnswer
  <2>2. CASE ~CanLock("main")
    <3>1. main' = [main EXCEPT !.pc = "hung"] /\ UNCHANGED <<outq, inq, bufs, heap, newline>>
      BY <1>4, <2>2 DEF EvalSpeaks, objects
    <3>2. main'.pc = "hung" /\ main'.at = main.at
      BY <1>0, <3>1
    <3>3. \A a \in Addresses : State(a)' = State(a)
      BY <2>0, <3>2 DEF Evaluates, Visited, State
    <3>4. main'.at <= Len(listeners')
      BY <2>0, <3>2 DEF QueueInv
    <3> QED
      BY <2>0, <3>1, <3>3, <3>4, QueuesKept
  <2> QED
    BY <2>1, <2>2
<1> QED
  BY <1>1, <1>2, <1>3, <1>4 DEF Main

\* The queues of a new client are empty, and it has neither sent nor got anything.
LEMMA QueuesAccept ==
  ASSUME ConsoleInv, QueueInv, NEW a \in Heap, Accept(a)
  PROVE  QueueInv'
<1> DEFINE n == server.c + 1
<1>1. /\ heap[a] = Nobody
      /\ heap' = [heap EXCEPT ![a] = n]
      /\ inq' = [inq EXCEPT ![a] = <<>>] /\ outq' = [outq EXCEPT ![a] = <<>>]
      /\ newline' = [newline EXCEPT ![a] = FALSE]
      /\ server'.c = n
      /\ server.c \in Connections /\ n \in Connections /\ a \in Addresses
      /\ UNCHANGED <<sent, got, bufs, main, listeners>>
  BY NobodyFacts DEF Accept, Alive, ConsoleInv, ShapeInv, Addresses
<1>2. n > server.c /\ n \in Nat /\ server.c \in Nat
  BY <1>1, NobodyFacts
<1> HIDE DEF n
<1>3. sent[n] = <<>> /\ got[n] = <<>>
  BY <1>1, <1>2 DEF QueueInv
<1>4. /\ heap'[a] = n /\ inq'[a] = <<>> /\ outq'[a] = <<>>
      /\ \A b \in Addresses : b # a => heap'[b] = heap[b] /\ inq'[b] = inq[b] /\ outq'[b] = outq[b]
  BY <1>1 DEF ConsoleInv, ShapeInv, QueueInv, QueueShape
<1>5. QueueShape'
  BY <1>1 DEF QueueInv, QueueShape
<1>6. \A b \in Addresses : State(b)' = State(b)
  BY <1>1 DEF Evaluates, Visited, State
<1>7. State(a) = "idle"
  <2>1. main.at <= Len(listeners) => Visited # a
    BY <1>1, VisitedFacts, NobodyFacts
  <2> QED
    BY <2>1 DEF Evaluates, State, QueueInv
<1>8. PipesOK(heap, sent, got, outq, inq, bufs)'
  <2> SUFFICES ASSUME NEW b \in Addresses, heap'[b] \in Connections
               PROVE  Pipe(heap'[b], sent[heap'[b]], got[heap'[b]] \o inq'[b], outq'[b], bufs[b], State(b))
    BY <1>1, <1>6 DEF PipesOK
  <2>1. CASE b = a
    <3>1. got[n] \o inq'[a] = <<>>
      BY <1>3, <1>4
    <3>2. bufs[a] \in Seq(Text) /\ \A k \in 1 .. Len(bufs[a]) : bufs[a][k] \in Text
      BY <1>1 DEF QueueInv, QueueShape
    <3>3. \A k \in 1 .. Len(bufs[a]) : bufs[a][k].by < n
      <4> SUFFICES ASSUME NEW k \in 1 .. Len(bufs[a]) PROVE bufs[a][k].by < n
        OBVIOUS
      <4>1. bufs[a][k].by <= server.c /\ bufs[a][k].by \in Connections
        BY <1>1, <3>2 DEF QueueInv, LeftInv, Text
      <4> QED
        BY <1>2, <4>1, NobodyFacts
    <3>4. Pipe(n, << >>, << >>, << >>, bufs[a], "idle")
      BY <1>1, <3>2, <3>3, PipeNew
    <3> QED
      BY <1>3, <1>4, <1>7, <2>1, <3>1, <3>4
  <2>2. CASE b # a
    BY <1>4, <2>2 DEF QueueInv, PipesOK
  <2> QED
    BY <2>1, <2>2
<1>9. \A c \in Connections : c > server'.c => sent'[c] = <<>> /\ got'[c] = <<>>
  <2>1. \A c \in Connections : c > n => c > server.c
    BY <1>1, <1>2, NobodyFacts
  <2> QED
    BY <1>1, <2>1 DEF QueueInv
<1>10. LeftInv'
  <2>1. \A b \in Addresses : \A k \in 1 .. Len(bufs[b]) : bufs[b][k].by <= server'.c
    <3> SUFFICES ASSUME NEW b \in Addresses, NEW k \in 1 .. Len(bufs[b]) PROVE bufs[b][k].by <= server'.c
      OBVIOUS
    <3>1. bufs[b] \in Seq(Text) /\ bufs[b][k].by <= server.c
      BY DEF QueueInv, QueueShape, LeftInv
    <3>2. bufs[b][k] \in Text
      BY <3>1
    <3>3. bufs[b][k].by \in Nat
      BY <3>2, NobodyFacts DEF Text
    <3> QED
      BY <1>1, <1>2, <3>1, <3>3
  <2>2. \A b \in Addresses : newline'[b] /\ heap'[b] \in Connections => b # a
    BY <1>1 DEF QueueInv, QueueShape
  <2>3. \A b \in Addresses : b # a => newline'[b] = newline[b]
    BY <1>1 DEF QueueInv, QueueShape
  <2> QED
    BY <1>1, <1>4, <2>1, <2>2, <2>3 DEF QueueInv, LeftInv
<1> QED
  BY <1>1, <1>5, <1>8, <1>9, <1>10 DEF QueueInv

\* A text more waits for main.
LEMMA QueuesQueue ==
  ASSUME ConsoleInv, QueueInv, NEW c \in Connections, NEW a \in Addresses,
         NEW kinds \in Seq(Kinds), NEW complete \in BOOLEAN, Queue(c, a, kinds, complete),
         IF kinds = <<>> THEN sent[c] # <<>> /\ complete = sent[c][Len(sent[c])]
                         ELSE complete = (kinds[Len(kinds)] # "open"),
         newline' = newline \/ newline' = [newline EXCEPT ![a] = TRUE]
  PROVE  QueueInv'
<1> DEFINE l == [by |-> c, n |-> Len(sent[c]) + 1, kinds |-> kinds]
<1>1. /\ heap[a] = c /\ client[c] = "run"
      /\ sent' = [sent EXCEPT ![c] = Append(@, complete)]
      /\ outq' = [outq EXCEPT ![a] = Append(@, l)]
      /\ UNCHANGED <<heap, inq, bufs, main, server, got, listeners>>
  BY DEF Queue, IsAt, Queued
<1>2. /\ outq[a] \in Seq(Text) /\ inq[a] \in Seq(Told)
      /\ sent[c] \in Seq(BOOLEAN) /\ got[c] \in Seq(Told)
  BY DEF QueueInv, QueueShape
<1>3. l \in Text /\ got[c] \o inq[a] \in Seq(Told)
  BY <1>2 DEF Text
<1>4. /\ sent'[c] = Append(sent[c], complete) /\ outq'[a] = Append(outq[a], l)
      /\ \A d \in Connections : d # c => sent'[d] = sent[d]
      /\ \A b \in Addresses : b # a => outq'[b] = outq[b]
  BY <1>1 DEF QueueInv, QueueShape
<1>5. QueueShape'
  <2>1. Append(sent[c], complete) \in Seq(BOOLEAN) /\ Append(outq[a], l) \in Seq(Text)
    BY <1>2, <1>3
  <2>2. sent' \in [Connections -> Seq(BOOLEAN)] /\ outq' \in [Addresses -> Seq(Text)]
    BY <1>1, <2>1 DEF QueueInv, QueueShape
  <2> QED
    BY <1>1, <2>2 DEF QueueInv, QueueShape
<1>6. \A b \in Addresses : State(b)' = State(b)
  BY <1>1 DEF Evaluates, Visited, State
<1>7. Pipe(c, sent'[c], got[c] \o inq[a], outq'[a], bufs[a], State(a))
  <2>1. Pipe(c, sent[c], got[c] \o inq[a], outq[a], bufs[a], State(a))
    BY <1>1 DEF QueueInv, PipesOK
  <2>2. Pipe(c, Append(sent[c], complete), got[c] \o inq[a],
             Append(outq[a], [by |-> c, n |-> Len(sent[c]) + 1, kinds |-> kinds]), bufs[a], State(a))
    <3>1. got[c] \o inq[a] \in Seq(Told) /\ outq[a] \in Seq(Text) /\ sent[c] \in Seq(BOOLEAN)
      BY <1>2, <1>3
    <3> QED
      BY <2>1, <3>1, PipeSend, Zenon
  <2> QED
    BY <1>4, <2>2
<1>8. PipesOK(heap, sent, got, outq, inq, bufs)'
  <2> SUFFICES ASSUME NEW b \in Addresses, heap[b] \in Connections
               PROVE  Pipe(heap[b], sent'[heap[b]], got[heap[b]] \o inq[b], outq'[b], bufs[b], State(b))
    BY <1>1, <1>6 DEF PipesOK
  <2>1. CASE b = a
    BY <1>1, <1>7, <2>1
  <2>2. CASE b # a
    <3>1. heap[b] # c
      BY <1>1, <2>2, NobodyFacts DEF ConsoleInv, HeapInv
    <3> QED
      BY <1>4, <2>2, <3>1 DEF QueueInv, PipesOK
  <2> QED
    BY <2>1, <2>2
<1>9. \A d \in Connections : Turns(d, sent'[d], got[d])
  <2> SUFFICES ASSUME NEW d \in Connections PROVE Turns(d, sent'[d], got[d])
    OBVIOUS
  <2>1. CASE d = c
    <3>1. Turns(c, sent'[c], got[c] \o inq[a]) /\ sent'[c] \in Seq(BOOLEAN)
      BY <1>5, <1>7 DEF Pipe, QueueShape
    <3> QED
      BY <1>2, <2>1, <3>1, PipeDelivered
  <2>2. CASE d # c
    BY <1>4, <2>2 DEF QueueInv
  <2> QED
    BY <2>1, <2>2
<1>10. ~(c > server.c)
  BY <1>1 DEF ConsoleInv, HeapInv
<1>11. \A d \in Connections : d > server.c => sent'[d] = <<>> /\ got[d] = <<>>
  BY <1>4, <1>10 DEF QueueInv
<1>12. LeftInv'
  <2>1. Append(sent[c], complete) # <<>>
    <3>1. Len(Append(sent[c], complete)) = Len(sent[c]) + 1 /\ Len(sent[c]) \in Nat
      BY <1>2, LenFacts
    <3>2. Append(sent[c], complete) \in Seq(BOOLEAN) /\ Len(Append(sent[c], complete)) # 0
      BY <1>2, <3>1
    <3> QED
      BY <3>2, EmptySeq
  <2>2. \A b \in Addresses : newline'[b] /\ heap[b] \in Connections => sent'[heap[b]] # <<>>
    <3> SUFFICES ASSUME NEW b \in Addresses, newline'[b], heap[b] \in Connections
                 PROVE  sent'[heap[b]] # <<>>
      OBVIOUS
    <3>1. CASE b = a
      BY <1>1, <1>4, <2>1, <3>1
    <3>2. CASE b # a
      <4>1. newline[b]
        BY <3>2 DEF QueueInv, QueueShape
      <4>2. heap[b] # c
        BY <1>1, <3>2, NobodyFacts DEF ConsoleInv, HeapInv
      <4> QED
        BY <1>4, <4>1, <4>2 DEF QueueInv, LeftInv
    <3> QED
      BY <3>1, <3>2
  <2> QED
    BY <1>1, <2>2 DEF QueueInv, LeftInv
<1> QED
  BY <1>1, <1>5, <1>8, <1>9, <1>11, <1>12 DEF QueueInv

\* An answer that waits is handed out.
LEMMA QueuesDeliver ==
  ASSUME ConsoleInv, QueueInv, NEW c \in Connections, NEW a \in Addresses, Deliver(c, a)
  PROVE  QueueInv'
<1>1. /\ heap[a] = c /\ client[c] = "run" /\ inq[a] # <<>>
      /\ got' = [got EXCEPT ![c] = Append(@, Head(inq[a]))]
      /\ inq' = [inq EXCEPT ![a] = Tail(@)]
      /\ UNCHANGED <<heap, newline, outq, bufs, main, server, sent, listeners>>
  BY DEF Deliver, IsAt
<1>2. /\ inq[a] \in Seq(Told) /\ sent[c] \in Seq(BOOLEAN) /\ got[c] \in Seq(Told)
  BY DEF QueueInv, QueueShape
<1>3. /\ Head(inq[a]) \in Told /\ Tail(inq[a]) \in Seq(Told)
      /\ Append(got[c], Head(inq[a])) \in Seq(Told)
  BY <1>1, <1>2
<1>4. Append(got[c], Head(inq[a])) \o Tail(inq[a]) = got[c] \o inq[a]
  BY <1>1, <1>2, InTwoParts
<1>5. /\ got'[c] = Append(got[c], Head(inq[a])) /\ inq'[a] = Tail(inq[a])
      /\ \A d \in Connections : d # c => got'[d] = got[d]
      /\ \A b \in Addresses : b # a => inq'[b] = inq[b]
  BY <1>1 DEF QueueInv, QueueShape
<1>6. QueueShape'
  <2>1. got' \in [Connections -> Seq(Told)] /\ inq' \in [Addresses -> Seq(Told)]
    BY <1>1, <1>3 DEF QueueInv, QueueShape
  <2> QED
    BY <1>1, <2>1 DEF QueueInv, QueueShape
<1>7. \A b \in Addresses : State(b)' = State(b)
  BY <1>1 DEF Evaluates, Visited, State
<1>8. PipesOK(heap, sent, got, outq, inq, bufs)'
  <2> SUFFICES ASSUME NEW b \in Addresses, heap[b] \in Connections
               PROVE  Pipe(heap[b], sent[heap[b]], got'[heap[b]] \o inq'[b], outq[b], bufs[b], State(b))
    BY <1>1, <1>7 DEF PipesOK
  <2>1. CASE b = a
    <3>1. got'[c] \o inq'[a] = got[c] \o inq[a]
      BY <1>4, <1>5
    <3>2. Pipe(c, sent[c], got[c] \o inq[a], outq[a], bufs[a], State(a))
      BY <1>1 DEF QueueInv, PipesOK
    <3> QED
      BY <1>1, <2>1, <3>1, <3>2
  <2>2. CASE b # a
    <3>1. heap[b] # c
      BY <1>1, <2>2, NobodyFacts DEF ConsoleInv, HeapInv
    <3> QED
      BY <1>5, <2>2, <3>1 DEF QueueInv, PipesOK
  <2> QED
    BY <2>1, <2>2
<1>9. \A d \in Connections : Turns(d, sent[d], got'[d])
  <2> SUFFICES ASSUME NEW d \in Connections PROVE Turns(d, sent[d], got'[d])
    OBVIOUS
  <2>1. CASE d = c
    <3>1. Turns(c, sent[c], got'[c] \o inq'[a])
      BY <1>1, <1>4, <1>5 DEF QueueInv, PipesOK, Pipe
    <3>2. got'[c] \in Seq(Told) /\ inq'[a] \in Seq(Told)
      BY <1>3, <1>5
    <3> QED
      BY <1>2, <2>1, <3>1, <3>2, PipeDelivered
  <2>2. CASE d # c
    BY <1>5, <2>2 DEF QueueInv
  <2> QED
    BY <2>1, <2>2
<1>10. ~(c > server.c)
  BY <1>1 DEF ConsoleInv, HeapInv
<1>11. \A d \in Connections : d > server.c => sent[d] = <<>> /\ got'[d] = <<>>
  BY <1>5, <1>10 DEF QueueInv
<1>12. LeftInv'
  BY <1>1 DEF QueueInv, LeftInv
<1> QED
  BY <1>1, <1>6, <1>8, <1>9, <1>11, <1>12 DEF QueueInv

\* The terminal's lines, a client's reads with a newline, those without, and what
\* is written.
LEMMA QueuesTalk ==
  ASSUME ConsoleInv, QueueInv, Talk
  PROVE  QueueInv'
<1>1. ASSUME NEW a \in Addresses, NEW kind \in Kinds, Type(a, kind)
      PROVE  QueueInv'
  <2>1. <<kind>> \in Seq(Kinds) /\ <<kind>> # <<>> /\ << kind >>[Len(<<kind>>)] = kind
    OBVIOUS
  <2>2. 0 \in Connections /\ (kind # "open") \in BOOLEAN
    BY NobodyFacts
  <2>3. Queue(0, a, <<kind>>, kind # "open") /\ newline' = newline
    BY <1>1 DEF Type
  <2> QED
    BY <2>1, <2>2, <2>3, QueuesQueue
<1>2. ASSUME NEW c \in Connections, NEW a \in Addresses, NEW n \in 1 .. MaxLines,
             NEW kinds \in [1 .. n -> Kinds], Send(c, a, kinds)
      PROVE  QueueInv'
  <2>1. n \in Nat /\ n # 0
    BY ConsoleAssumption
  <2>2. kinds \in Seq(Kinds) /\ Len(kinds) = n
    BY <2>1
  <2>3. kinds # <<>>
    BY <2>1, <2>2
  <2>4. /\ Queue(c, a, kinds, kinds[Len(kinds)] # "open")
        /\ newline' = [newline EXCEPT ![a] = TRUE]
    BY <1>2 DEF Send
  <2>5. (kinds[Len(kinds)] # "open") \in BOOLEAN
    OBVIOUS
  <2> QED
    BY <2>2, <2>3, <2>4, <2>5, QueuesQueue
<1>3. ASSUME NEW c \in Connections, NEW a \in Addresses, SendPiece(c, a)
      PROVE  QueueInv'
  <2>1. newline[a] /\ newline' = newline /\ Queue(c, a, <<>>, sent[c][Len(sent[c])])
    BY <1>3 DEF SendPiece, Completed
  <2>2. heap[a] = c
    BY <2>1 DEF Queue, IsAt
  <2>3. sent[c] # <<>> /\ sent[c] \in Seq(BOOLEAN)
    BY <2>1, <2>2 DEF QueueInv, LeftInv, QueueShape
  <2>4. sent[c][Len(sent[c])] \in BOOLEAN
    BY <2>3
  <2>5. <<>> \in Seq(Kinds)
    OBVIOUS
  <2> QED
    BY <2>1, <2>3, <2>4, <2>5, QueuesQueue
<1> QED
  BY <1>1, <1>2, <1>3, QueuesDeliver DEF Talk

\* What a client leaves behind is nobody's.
LEMMA QueuesFree ==
  ASSUME ConsoleInv, QueueInv, NEW c \in Connections, c # 0, Free(c)
  PROVE  QueueInv'
<1>1. /\ client[c] = "free" /\ heap' = [heap EXCEPT ![Where(c)] = Nobody]
      /\ UNCHANGED <<sent, got, newline, outq, inq, bufs, main, server, listeners>>
  BY DEF Free
<1>2. Where(c) \in Addresses
  BY <1>1, WhereFacts
<1>3. \A b \in Addresses : heap'[b] \in Connections => heap'[b] = heap[b]
  BY <1>1, <1>2, NobodyFacts DEF ConsoleInv, ShapeInv
<1>4. \A b \in Addresses : State(b)' = State(b)
  BY <1>1 DEF Evaluates, Visited, State
<1>5. PipesOK(heap, sent, got, outq, inq, bufs)'
  BY <1>1, <1>3, <1>4 DEF PipesOK, QueueInv
<1>6. LeftInv'
  BY <1>1, <1>3 DEF QueueInv, LeftInv
<1> QED
  BY <1>1, <1>5, <1>6 DEF QueueInv, QueueShape

\* No step breaks it.
LEMMA QueuesNext == ConsoleInv /\ QueueInv /\ [Next]_vars => QueueInv'
<1> SUFFICES ASSUME ConsoleInv, QueueInv, [Next]_vars PROVE QueueInv'
  OBVIOUS
<1>0. ASSUME CanLock("server") \/ CanLock("client") PROVE main.pc \notin {"eval", "hung"}
  BY <1>0 DEF ConsoleInv, LockInv, CanLock
<1>1. CASE Main
  BY <1>1, QueuesMain
<1>2. CASE \E a \in Heap : Accept(a)
  BY <1>2, QueuesAccept
<1>3. CASE PushFront
  <2>1. /\ UNCHANGED <<sent, got, outq, inq, bufs, heap, newline, main>> /\ CanLock("server")
        /\ server' = [server EXCEPT !.pc = "announce"]
    BY <1>3 DEF PushFront, objects
  <2>2. server'.c = server.c
    BY <2>1 DEF ConsoleInv, ShapeInv
  <2> QED
    BY <1>0, <2>1, <2>2, QueuesWait
<1>4. ASSUME UNCHANGED <<sent, got, outq, inq, bufs, heap, newline, main, listeners>>, server'.c = server.c PROVE QueueInv'
  <2>1. \A a \in Addresses : State(a)' = State(a)
    BY <1>4 DEF Evaluates, Visited, State
  <2> QED
    BY <1>4, <2>1, QueuesKept DEF QueueInv
<1>5. CASE Announce
  <2>1. /\ UNCHANGED <<sent, got, outq, inq, bufs, heap, newline, main, listeners>>
        /\ server' = [server EXCEPT !.pc = "accept"]
    BY <1>5 DEF Announce, objects
  <2>2. server'.c = server.c
    BY <2>1 DEF ConsoleInv, ShapeInv
  <2> QED
    BY <1>4, <2>1, <2>2
<1>6. CASE Talk
  BY <1>6, QueuesTalk
<1>7. CASE \E c \in Connections : Leave(c)
  <2>1. UNCHANGED <<sent, got, outq, inq, bufs, heap, newline, main, listeners, server>>
    BY <1>7 DEF Leave, objects
  <2> QED
    BY <1>4, <2>1
<1>8. CASE \E c \in Connections : Remove(c)
  <2>1. UNCHANGED <<sent, got, outq, inq, bufs, heap, newline, main, server>> /\ CanLock("client")
    BY <1>8 DEF Remove, objects
  <2> QED
    BY <1>0, <2>1, QueuesWait
<1>9. CASE \E c \in Connections : Free(c)
  <2>1. PICK c \in Connections : Free(c)
    BY <1>9
  <2> QED
    BY <2>1, QueuesFree, ZeroStays
<1>10. CASE EndOfInput
  <2>1. UNCHANGED <<sent, got, outq, inq, bufs, heap, newline, main, listeners, server>>
    BY <1>10 DEF EndOfInput, objects
  <2> QED
    BY <1>4, <2>1
<1>11. CASE UNCHANGED vars
  <2>1. UNCHANGED <<sent, got, outq, inq, bufs, heap, newline, main, listeners, server>>
    BY <1>11 DEF vars, objects
  <2> QED
    BY <1>4, <2>1
<1> QED
  BY <1>1, <1>2, <1>3, <1>5, <1>6, <1>7, <1>8, <1>9, <1>10, <1>11 DEF Next

-----------------------------------------------------------------------------
(* The theorems.                                                           *)

\* Clients are allocated, put on the list, taken off it and freed by two other
\* threads while main goes through it (main2.cc, tcp2.cc, thread.hh): whatever
\* is on the list exists, and is there once.
THEOREM ListenersSound == Spec => []ListenersAlive
<1>1. ConsoleInv => ListenersAlive
  <2> SUFFICES ASSUME ConsoleInv PROVE ListenersAlive
    OBVIOUS
  <2>1. \A a \in Addresses : Listed(a) => Alive(a)
    BY NobodyFacts DEF Listed, Alive
  <2> QED
    BY <2>1 DEF ConsoleInv, ShapeInv, ListInv, ListenersAlive
<1> QED
  BY <1>1, InitConsole, ConsoleNext, PTL DEF Spec

\* Nobody but main changes the list, or frees the listener main visits, from
\* the time main takes the lock until it gives it back, although evaluating a
\* script may take and give back the lock in between.
THEOREM IteratorSound == Spec => IteratorValid
<1> DEFINE Kept == main.pc \in {"visit", "eval"} =>
                     /\ listeners' = listeners
                     /\ main.at <= Len(listeners) => heap'[Visited] = heap[Visited]
<1>1. ConsoleInv /\ [Next]_vars => Kept
  <2> SUFFICES ASSUME ConsoleInv, [Next]_vars, main.pc \in {"visit", "eval"}
               PROVE  /\ listeners' = listeners
                      /\ main.at <= Len(listeners) => heap'[Visited] = heap[Visited]
    OBVIOUS
  <2>1. ~CanLock("server") /\ ~CanLock("client")
    BY DEF ConsoleInv, LockInv, CanLock
  <2>2. listeners' = listeners
    BY <2>1 DEF Next, Main, MainPoll, MainLock, TakeText, NextListener, MainUnlock, Eval, EvalSpeaks,
                EvalQuit, Accept, PushFront, Announce, Talk, Deliver, Send, SendPiece, Type, Queue, Leave, Remove, Free, EndOfInput, vars
  <2>3. ASSUME main.at <= Len(listeners)
        PROVE  heap'[Visited] = heap[Visited]
    <3>1. Visited \in Addresses /\ Listed(Visited)
      BY <2>3 DEF ConsoleInv, ShapeInv, ListInv, Visited
    <3>2. CASE \E a \in Heap : Accept(a)
      <4>1. PICK a \in Heap : ~Alive(a) /\ heap' = [heap EXCEPT ![a] = server.c + 1]
        BY <3>2 DEF Accept
      <4>2. Visited # a
        BY <3>1, <4>1, NobodyFacts DEF Listed, Alive
      <4> QED
        BY <3>1, <4>1, <4>2 DEF ConsoleInv, ShapeInv
    <3>3. CASE \E c \in Connections : Free(c)
      <4>1. PICK c \in Connections : client[c] = "free" /\ heap' = [heap EXCEPT ![Where(c)] = Nobody]
        BY <3>3 DEF Free
      <4>2. Visited # Where(c)
        BY <3>1, <4>1, FreedUnlisted, ZeroStays
      <4> QED
        BY <3>1, <4>1, <4>2 DEF ConsoleInv, ShapeInv
    <3>4. CASE ~(\E a \in Heap : Accept(a)) /\ ~(\E c \in Connections : Free(c))
      <4>1. heap' = heap
        BY <3>4 DEF Next, Main, MainPoll, MainLock, TakeText, NextListener, MainUnlock, Eval, EvalSpeaks,
                    EvalQuit, PushFront, Announce, Talk, Deliver, Send, SendPiece, Type, Queue, Leave, Remove, EndOfInput, Answer,
                    objects, vars
      <4> QED
        BY <4>1
    <3> QED
      BY <3>2, <3>3, <3>4
  <2> QED
    BY <2>2, <2>3
<1>2. Kept => [main.pc \in {"visit", "eval"} =>
                 /\ listeners' = listeners
                 /\ main.at <= Len(listeners) => heap'[Visited] = heap[Visited]]_vars
  OBVIOUS
<1> QED
  BY <1>1, <1>2, InitConsole, ConsoleNext, PTL DEF Spec, IteratorValid

\* Where the lock is recursive (thread.hh:47, built with __APPLE__), a script
\* that prints to all listeners from inside the main loop never makes it wait
\* for itself; elsewhere TLC finds that it does.
THEOREM RecursiveLockSound == Spec /\ apple => []NeverHangs
<1> DEFINE Apple == apple /\ NeverHangs
<1>1. Init /\ apple => Apple
  BY DEF Init, NeverHangs
<1>2. ConsoleInv /\ Apple /\ [Next]_vars => Apple'
  <2> SUFFICES ASSUME ConsoleInv, Apple, [Next]_vars PROVE Apple'
    OBVIOUS
  <2>1. apple'
    BY DEF Next, Main, MainPoll, MainLock, TakeText, NextListener, MainUnlock, Eval, EvalSpeaks,
           EvalQuit, Accept, PushFront, Announce, Talk, Deliver, Send, SendPiece, Type, Queue, Leave, Remove, Free, EndOfInput, vars
  <2>2. CASE EvalSpeaks
    <3>1. CanLock("main")
      BY <2>2 DEF EvalSpeaks, ConsoleInv, LockInv, CanLock
    <3>2. main'.pc = "visit"
      BY <2>2, <3>1 DEF EvalSpeaks, ConsoleInv, ShapeInv
    <3> QED
      BY <2>1, <3>2 DEF NeverHangs
  <2>3. CASE MainPoll \/ MainLock \/ TakeText \/ NextListener \/ MainUnlock \/ Eval \/ EvalQuit
    <3>1. main'.pc # "hung"
      <4>1. main \in [pc : Steps, at : Nat \ {0}]
        BY DEF ConsoleInv, ShapeInv
      <4>2. CASE MainPoll
        BY <4>1, <4>2 DEF MainPoll
      <4>3. CASE MainLock
        BY <4>1, <4>3 DEF MainLock, Pass
      <4>4. CASE TakeText
        BY <4>1, <4>4 DEF TakeText
      <4>5. CASE NextListener
        BY <4>1, <4>5 DEF NextListener
      <4>6. CASE MainUnlock
        BY <4>1, <4>6 DEF MainUnlock
      <4>7. CASE Eval \/ EvalQuit
        BY <4>1, <4>7 DEF Eval, EvalQuit
      <4> QED
        BY <2>3, <4>2, <4>3, <4>4, <4>5, <4>6, <4>7
    <3> QED
      BY <2>1, <3>1 DEF NeverHangs
  <2>4. CASE ~Main
    <3>1. main' = main
      BY <2>4 DEF Next, Accept, PushFront, Announce, Talk, Deliver, Send, SendPiece, Type, Queue, Leave, Remove, Free,
                  EndOfInput, vars
    <3> QED
      BY <2>1, <3>1 DEF NeverHangs
  <2> QED
    BY <2>2, <2>3, <2>4 DEF Main
<1> QED
  BY <1>1, <1>2, InitConsole, ConsoleNext, PTL DEF Spec

\* Texts and answers pass through two queues, by address, while clients come and
\* go and use an address again (tcp2.cc, main2.cc:60 to 78): each connection is
\* told the results of its own units, each once and in the order of its texts,
\* those without a line (tcp2.cc:118) among them, whatever the others send and
\* whenever they leave.  Only the very first may begin with what an earlier
\* connection left in listenerBufs.
THEOREM AnswersSound == Spec => []AnswersInOrder
<1>1. QueueInv => AnswersInOrder
  <2> SUFFICES ASSUME QueueInv, NEW c \in Connections PROVE InTurn(c, got[c])
    BY DEF AnswersInOrder
  <2> DEFINE t == got[c]
  <2>1. Turns(c, sent[c], t)
    BY DEF QueueInv
  <2>2. \A n : Completes(c, n) <=> CompletesIn(sent[c], n)
    BY DEF Completes, CompletesIn
  <2>3. sent[c] \in Seq(BOOLEAN) /\ t \in Seq(Told)
    BY DEF QueueInv, QueueShape
  <2>4. \A i \in 1 .. Len(t) : (Before(t, i) + 1) - 1 = Before(t, i)
    <3>1. \A i \in 1 .. Len(t) + 1 : Before(t, i) \in Nat
      BY <2>1, <2>3, DoneFacts
    <3>2. Len(t) \in Nat
      BY <2>3
    <3> QED
      BY <3>1, <3>2
  <2> HIDE DEF t
  <2>5. ASSUME NEW i \in 1 .. Len(t)
        PROVE  /\ Before(t, i) + 1 <= Last(t[i]).n /\ Last(t[i]).n <= Before(t, i) + Len(t[i])
               /\ \A n \in Before(t, i) + 1 .. Last(t[i]).n : Completes(c, n) <=> n = Last(t[i]).n
               /\ \A k \in 1 .. Len(t[i]) :
                    LET n == Last(t[i]).n - (Len(t[i]) - k)
                    IN  IF n >= Before(t, i) + 1 THEN t[i][k].by = c /\ t[i][k].n = n
                                                 ELSE t[i][k].by < c /\ i = 1
    BY <2>1, <2>2, <2>4 DEF Turns, Own
  <2> QED
    BY <2>5 DEF InTurn, t
<1> QED
  BY <1>1, InitConsole, ConsoleNext, InitQueue, QueuesNext, PTL DEF Spec
=============================================================================
