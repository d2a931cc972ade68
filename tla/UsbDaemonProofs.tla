--------------------------- MODULE UsbDaemonProofs ---------------------------
(***************************************************************************)
(* Proofs about UsbDaemon, for frames of any number of packets, any number *)
(* of calls, events and retries.                                           *)
(*                                                                         *)
(* WholeFrames is about the packets between device and driver taken        *)
(* together, so that handing a packet on changes nothing; that a reset or  *)
(* a new frame never comes in the middle needs Middle, which says where in *)
(* the middle of a frame the daemon is.  With both, the frames on the line  *)
(* are those of FrameChannel: every step is one of its steps, or none.     *)
(***************************************************************************)
EXTENDS UsbDaemon, SequenceTheorems, WellFoundedInduction, TLAPS

-----------------------------------------------------------------------------
(* Sequences of packets.                                                   *)

Whole(s) ==
  \A i \in 1 .. Len(s) :
    /\ ~s[i].first => i > 1 /\ s[i - 1].left = s[i].left + 1
    /\ s[i].left > 0 => i < Len(s) /\ ~s[i + 1].first

\* The last frame has its last packet.
Complete(s) == s = <<>> \/ s[Len(s)].left = 0

\* The number of packets still to come is a number.
LEMMA PacketFacts ==
  ASSUME NEW p \in Packets
  PROVE  p.left \in Nat /\ p.left <= MaxPackets - 1 /\ p.first \in BOOLEAN
  BY DaemonAssumption DEF Packets

\* Whole frames end with a last packet.
LEMMA WholeEnds ==
  ASSUME NEW s \in Seq(Packets), Whole(s)
  PROVE  Complete(s)
<1> SUFFICES ASSUME s # <<>>
             PROVE  s[Len(s)].left = 0
  BY DEF Complete
<1>1. Len(s) \in 1 .. Len(s) /\ s[Len(s)] \in Packets
  OBVIOUS
<1>2. ~(s[Len(s)].left > 0)
  BY <1>1 DEF Whole
<1> QED
  BY <1>1, <1>2, PacketFacts

\* Whole frames after whole frames,
LEMMA WholeConcat ==
  ASSUME NEW s \in Seq(Packets), NEW t \in Seq(Packets), Whole(s), Whole(t)
  PROVE  Whole(s \o t)
<1> DEFINE u == s \o t
<1>1. u \in Seq(Packets) /\ Len(u) = Len(s) + Len(t) /\ Len(s) \in Nat /\ Len(t) \in Nat
  OBVIOUS
<1>2. \A i \in 1 .. Len(s) : u[i] = s[i]
  OBVIOUS
<1>3. \A i \in 1 .. Len(t) : u[Len(s) + i] = t[i]
  OBVIOUS
<1> HIDE DEF u
<1>4. ASSUME NEW i \in 1 .. Len(u)
      PROVE  /\ ~u[i].first => i > 1 /\ u[i - 1].left = u[i].left + 1
             /\ u[i].left > 0 => i < Len(u) /\ ~u[i + 1].first
  <2>1. CASE i <= Len(s)
    <3>1. i \in 1 .. Len(s) /\ u[i] = s[i]
      BY <1>1, <1>2, <2>1
    <3>2. ~s[i].first => i > 1 /\ s[i - 1].left = s[i].left + 1
      BY <3>1 DEF Whole
    <3>3. s[i].left > 0 => i < Len(s) /\ ~s[i + 1].first
      BY <3>1 DEF Whole
    <3>4. i > 1 => u[i - 1] = s[i - 1]
      BY <1>1, <1>2, <3>1
    <3>5. i < Len(s) => u[i + 1] = s[i + 1]
      BY <1>1, <1>2, <3>1
    <3> QED
      BY <1>1, <3>1, <3>2, <3>3, <3>4, <3>5
  <2>2. CASE i > Len(s)
    <3> DEFINE j == i - Len(s)
    <3>1. j \in 1 .. Len(t) /\ u[i] = t[j] /\ i = Len(s) + j
      BY <1>1, <1>3, <2>2
    <3> HIDE DEF j
    <3>2. ~t[j].first => j > 1 /\ t[j - 1].left = t[j].left + 1
      BY <3>1 DEF Whole
    <3>3. t[j].left > 0 => j < Len(t) /\ ~t[j + 1].first
      BY <3>1 DEF Whole
    <3>4. j > 1 => u[i - 1] = t[j - 1]
      <4> SUFFICES ASSUME j > 1 PROVE u[i - 1] = t[j - 1]
        OBVIOUS
      <4>1. j - 1 \in 1 .. Len(t) /\ i - 1 = Len(s) + (j - 1)
        BY <1>1, <3>1
      <4> QED
        BY <1>3, <4>1
    <3>5. j < Len(t) => u[i + 1] = t[j + 1]
      <4> SUFFICES ASSUME j < Len(t) PROVE u[i + 1] = t[j + 1]
        OBVIOUS
      <4>1. j + 1 \in 1 .. Len(t) /\ i + 1 = Len(s) + (j + 1)
        BY <1>1, <3>1
      <4> QED
        BY <1>3, <4>1
    <3> QED
      BY <1>1, <3>1, <3>2, <3>3, <3>4, <3>5
  <2> QED
    BY <1>1, <2>1, <2>2
<1> QED
  BY <1>4 DEF Whole, u

\* and before them: where a last packet is, the rest begins with a first one.
LEMMA WholeBefore ==
  ASSUME NEW s \in Seq(Packets), NEW t \in Seq(Packets), Whole(s \o t), Complete(s)
  PROVE  Whole(s)
<1> DEFINE u == s \o t
<1>1. u \in Seq(Packets) /\ Len(u) = Len(s) + Len(t) /\ Len(s) \in Nat /\ Len(t) \in Nat
  OBVIOUS
<1>2. \A i \in 1 .. Len(s) : u[i] = s[i]
  OBVIOUS
<1>3. Whole(u)
  OBVIOUS
<1> HIDE DEF u
<1> SUFFICES ASSUME NEW i \in 1 .. Len(s)
             PROVE  /\ ~s[i].first => i > 1 /\ s[i - 1].left = s[i].left + 1
                    /\ s[i].left > 0 => i < Len(s) /\ ~s[i + 1].first
  BY DEF Whole
<1>4. i \in 1 .. Len(u) /\ u[i] = s[i]
  BY <1>1, <1>2
<1>5. /\ ~s[i].first => i > 1 /\ u[i - 1].left = s[i].left + 1
      /\ s[i].left > 0 => ~u[i + 1].first
  BY <1>3, <1>4 DEF Whole
<1>6. i > 1 => u[i - 1] = s[i - 1]
  BY <1>1, <1>2
<1>7. s[i].left > 0 => i < Len(s)
  <2>1. s # <<>>
    BY <1>1
  <2> QED
    BY <1>1, <2>1 DEF Complete
<1>8. i < Len(s) => u[i + 1] = s[i + 1]
  BY <1>1, <1>2
<1> QED
  BY <1>5, <1>6, <1>7, <1>8

\* A frame is whole.
LEMMA FrameWhole ==
  ASSUME NEW kind \in FrameKinds, NEW n \in 0 .. MaxCalls, NEW k \in 1 .. MaxPackets
  PROVE  /\ Frame(kind, n, k) \in Seq(Packets) /\ Frame(kind, n, k) # <<>>
         /\ Whole(Frame(kind, n, k))
<1> DEFINE s == Frame(kind, n, k)
<1>1. s = [i \in 1 .. k |-> [kind |-> kind, n |-> n, first |-> i = 1, left |-> k - i]]
  BY DEF Frame
<1>2. \A i \in 1 .. k : s[i] = [kind |-> kind, n |-> n, first |-> i = 1, left |-> k - i]
  BY <1>1
<1>3. \A i \in 1 .. k : k - i \in 0 .. MaxPackets - 1
  BY DaemonAssumption
<1>4. ASSUME NEW i \in 1 .. k
      PROVE  s[i] \in Packets /\ s[i].left = k - i /\ (s[i].first <=> i = 1)
  <2> DEFINE one == i = 1
             left == k - i
  <2>1. one \in BOOLEAN /\ left \in 0 .. MaxPackets - 1
    BY <1>3
  <2>2. s[i] = [kind |-> kind, n |-> n, first |-> one, left |-> left]
    BY <1>2
  <2> HIDE DEF one, left, s
  <2>3. s[i] \in Packets
    BY <2>1, <2>2 DEF Packets
  <2>4. s[i].left = left /\ s[i].first = one
    BY <2>2
  <2> QED
    BY <2>3, <2>4 DEF one, left
<1>5. k \in Nat /\ s = [i \in 1 .. k |-> s[i]]
  BY <1>1, DaemonAssumption
<1>6. s \in Seq(Packets) /\ Len(s) = k
  BY <1>4, <1>5
<1>7. \A i \in 1 .. k : s[i].left = k - i /\ (s[i].first <=> i = 1)
  BY <1>4
<1> HIDE DEF s
<1>8. Whole(s)
  BY <1>5, <1>6, <1>7 DEF Whole
<1> QED
  BY <1>5, <1>6, <1>8 DEF s

-----------------------------------------------------------------------------
(* The first frame.                                                        *)

Less == {p \in Nat \X Nat : p[1] < p[2]}

\* A set of numbers that is not empty has a least one.
LEMMA Least ==
  ASSUME NEW T, T \subseteq Nat, T # {}
  PROVE  \E x \in T : \A y \in T : x <= y
<1>1. IsWellFoundedOn(Less, Nat)
  BY NatLessThanWellFounded DEF OpToRel, Less
<1>2. PICK x \in T : \A y \in T : ~(<<y, x>> \in Less)
  BY <1>1, WFMin
<1>3. ASSUME NEW y \in T PROVE x <= y
  <2>1. ~(<<y, x>> \in Less) /\ x \in Nat /\ y \in Nat
    BY <1>2
  <2> QED
    BY <2>1 DEF Less
<1> QED
  BY <1>3

\* The packets of the first frame count down.
LEMMA FirstFrame ==
  ASSUME NEW s \in Seq(Packets), Whole(s), s # <<>>
  PROVE  /\ s[1].left < Len(s)
         /\ \A j \in 0 .. s[1].left : s[j + 1].left = s[1].left - j
<1>0. Len(s) \in Nat /\ Len(s) > 0 /\ s[1].left \in Nat /\ \A i \in 1 .. Len(s) : s[i].left \in Nat
  BY PacketFacts
<1> DEFINE ok(j) == j + 1 <= Len(s) /\ s[j + 1].left = s[1].left - j
           T == {j \in 0 .. s[1].left : ~ok(j)}
<1>1. T = {}
  <2> SUFFICES ASSUME T # {}
               PROVE  FALSE
    OBVIOUS
  <2>0. T \subseteq Nat
    BY <1>0
  <2>1. PICK j \in T : \A i \in T : j <= i
    <3> HIDE DEF T
    <3> QED
      BY <2>0, Least
  <2>2. j \in 0 .. s[1].left /\ ~ok(j) /\ j # 0
    BY <1>0, <2>1
  <2>3. ok(j - 1)
    <3>1. j - 1 \notin T
      BY <1>0, <2>1, <2>2
    <3> QED
      BY <1>0, <2>2, <3>1
  <2>4. j \in 1 .. Len(s) /\ s[j].left > 0
    BY <1>0, <2>2, <2>3
  <2>5. j + 1 \in 1 .. Len(s) /\ ~s[j + 1].first
    BY <1>0, <2>4 DEF Whole
  <2>6. s[(j + 1) - 1].left = s[j + 1].left + 1
    BY <2>5 DEF Whole
  <2>7. s[j + 1].left = s[1].left - j
    <3>1. (j + 1) - 1 = j /\ (j - 1) + 1 = j /\ j \in Nat
      BY <1>0, <2>2
    <3>2. s[j].left = s[1].left - (j - 1)
      BY <2>3, <3>1
    <3>3. s[j].left = s[j + 1].left + 1 /\ s[j + 1].left \in Nat
      BY <1>0, <2>5, <2>6, <3>1
    <3>4. \A x, y, z \in Nat : x = z - (j - 1) /\ x = y + 1 => y = z - j
      BY <3>1
    <3>5. s[j].left \in Nat
      BY <1>0, <2>4
    <3> QED
      BY <1>0, <3>2, <3>3, <3>4, <3>5
  <2> QED
    BY <2>2, <2>5, <2>7
<1>2. \A j \in 0 .. s[1].left : ok(j)
  BY <1>1
<1> QED
  BY <1>0, <1>2

\* What is left without it is whole.
LEMMA WholeAfter ==
  ASSUME NEW s \in Seq(Packets), Whole(s), s # <<>>
  PROVE  LET t == SubSeq(s, s[1].left + 2, Len(s))
         IN  t \in Seq(Packets) /\ Whole(t)
<1> DEFINE k == s[1].left + 1
           t == SubSeq(s, k + 1, Len(s))
<1>1. k \in 1 .. Len(s) /\ s[k].left = 0 /\ Len(s) \in Nat
  BY FirstFrame, PacketFacts
<1> HIDE DEF k
<1>2. t \in Seq(Packets) /\ Len(t) = Len(s) - k /\ \A i \in 1 .. Len(s) - k : t[i] = s[k + i]
  BY <1>1
<1> HIDE DEF t
<1>3. ASSUME NEW i \in 1 .. Len(t)
      PROVE  /\ ~t[i].first => i > 1 /\ t[i - 1].left = t[i].left + 1
             /\ t[i].left > 0 => i < Len(t) /\ ~t[i + 1].first
  <2> DEFINE j == k + i
  <2>1. j \in 1 .. Len(s) /\ t[i] = s[j] /\ j > 1
    BY <1>1, <1>2
  <2>2. ~s[j].first => s[j - 1].left = s[j].left + 1
    BY <2>1 DEF Whole
  <2>3. s[j].left > 0 => j < Len(s) /\ ~s[j + 1].first
    BY <2>1 DEF Whole
  <2>4. i > 1 => t[i - 1] = s[j - 1]
    <3> SUFFICES ASSUME i > 1 PROVE t[i - 1] = s[j - 1]
      OBVIOUS
    <3>1. i - 1 \in 1 .. Len(s) - k /\ k + (i - 1) = j - 1
      BY <1>1, <1>2
    <3> QED
      BY <1>2, <3>1
  <2>5. i < Len(t) => t[i + 1] = s[j + 1]
    <3> SUFFICES ASSUME i < Len(t) PROVE t[i + 1] = s[j + 1]
      OBVIOUS
    <3>1. i + 1 \in 1 .. Len(s) - k /\ k + (i + 1) = j + 1
      BY <1>1, <1>2
    <3> QED
      BY <1>2, <3>1
  <2>6. i = 1 => s[j].first
    <3> SUFFICES ASSUME i = 1, ~s[j].first PROVE FALSE
      OBVIOUS
    <3>1. s[k].left = s[j].left + 1
      BY <1>1, <2>2
    <3>2. s[j].left \in Nat
      BY <2>1, PacketFacts
    <3> QED
      BY <1>1, <3>1, <3>2
  <2>7. j < Len(s) => i < Len(t)
    BY <1>1, <1>2
  <2> HIDE DEF j
  <2> QED
    BY <2>1, <2>2, <2>3, <2>4, <2>5, <2>6, <2>7
<1>4. Whole(t)
  BY <1>3 DEF Whole
<1>5. k + 1 = s[1].left + 2
  BY PacketFacts DEF k
<1> QED
  BY <1>2, <1>4, <1>5 DEF t

-----------------------------------------------------------------------------
(* The frames of a sequence of packets.                                    *)

\* What Frames makes of the first packets, one after the other.
Id(p) == <<p.kind, p.n>>
NextFrames(s, f, i) ==
  IF i = 0 THEN <<>> ELSE IF s[i].first THEN Append(f[i - 1], Id(s[i])) ELSE f[i - 1]
Upto(s) == CHOOSE f : f = [i \in 0 .. Len(s) |-> NextFrames(s, f, i)]

FrameIds == FrameKinds \X (0 .. MaxCalls)

LEMMA FramesUpto == ASSUME NEW s PROVE Frames(s) = Upto(s)[Len(s)]
  BY Zenon DEF Frames, Upto, NextFrames, Id

\* What holds of 0, and of a number if it does of the one before, holds of
\* every number up to n.
LEMMA Count ==
  ASSUME NEW n \in Nat, NEW T, 0 \in T, \A i \in 1 .. n : i - 1 \in T => i \in T
  PROVE  \A i \in 0 .. n : i \in T
<1> DEFINE U == {i \in 0 .. n : i \notin T}
<1> SUFFICES ASSUME U # {}
             PROVE  FALSE
  OBVIOUS
<1>1. U \subseteq Nat
  OBVIOUS
<1>2. PICK x \in U : \A y \in U : x <= y
  <2> HIDE DEF U
  <2> QED
    BY <1>1, Least
<1>3. x \in 1 .. n /\ x - 1 \in 0 .. n /\ x - 1 \notin U
  BY <1>2
<1> QED
  BY <1>2, <1>3

\* There is such a function, as one for n packets can be continued.
LEMMA UptoExists ==
  ASSUME NEW s \in Seq(Packets)
  PROVE  \E f : f = [i \in 0 .. Len(s) |-> NextFrames(s, f, i)]
<1> DEFINE T == {n \in 0 .. Len(s) : \E f : f = [i \in 0 .. n |-> NextFrames(s, f, i)]}
<1>0. Len(s) \in Nat
  OBVIOUS
<1>1. 0 \in T
  <2> DEFINE f == [i \in 0 .. 0 |-> <<>>]
  <2>1. \A i \in 0 .. 0 : NextFrames(s, f, i) = <<>>
    BY DEF NextFrames
  <2>2. f = [i \in 0 .. 0 |-> NextFrames(s, f, i)]
    BY <2>1
  <2> HIDE DEF f
  <2>3. \E g : g = [i \in 0 .. 0 |-> NextFrames(s, g, i)]
    BY <2>2
  <2> QED
    BY <1>0, <2>3
<1>2. ASSUME NEW n \in 1 .. Len(s), n - 1 \in T
      PROVE  n \in T
  <2>1. PICK f : f = [i \in 0 .. n - 1 |-> NextFrames(s, f, i)]
    BY <1>2
  <2> DEFINE g == [i \in 0 .. n |-> IF i = n THEN NextFrames(s, f, n) ELSE f[i]]
  <2>2. ASSUME NEW i \in 0 .. n
        PROVE  g[i] = NextFrames(s, g, i)
    <3>1. i # 0 => i - 1 \in 0 .. n /\ i - 1 # n /\ g[i - 1] = f[i - 1]
      BY <1>0
    <3>2. NextFrames(s, g, i) = NextFrames(s, f, i)
      BY <3>1 DEF NextFrames
    <3>3. i # n => i \in 0 .. n - 1
      BY <1>0
    <3>4. i # n => f[i] = NextFrames(s, f, i)
      BY <2>1, <3>3
    <3> QED
      BY <3>2, <3>4
  <2>3. g = [i \in 0 .. n |-> NextFrames(s, g, i)]
    <3> DEFINE h == [i \in 0 .. n |-> NextFrames(s, g, i)]
    <3>1. g = [i \in 0 .. n |-> g[i]]
      OBVIOUS
    <3> HIDE DEF g
    <3> QED
      BY <2>2, <3>1
  <2> HIDE DEF g
  <2>4. \E h : h = [i \in 0 .. n |-> NextFrames(s, h, i)]
    BY <2>3
  <2> QED
    BY <1>0, <2>4
<1>3. \A i \in 0 .. Len(s) : i \in T
  <2> HIDE DEF T
  <2> QED
    BY <1>0, <1>1, <1>2, Count
<1> QED
  BY <1>0, <1>3

LEMMA UptoFacts ==
  ASSUME NEW s \in Seq(Packets)
  PROVE  /\ Upto(s)[0] = <<>>
         /\ \A i \in 1 .. Len(s) : Upto(s)[i] = IF s[i].first THEN Append(Upto(s)[i - 1], Id(s[i]))
                                                ELSE Upto(s)[i - 1]
<1>1. Upto(s) = [i \in 0 .. Len(s) |-> NextFrames(s, Upto(s), i)]
  BY UptoExists DEF Upto
<1>2. Len(s) \in Nat
  OBVIOUS
<1>3. \A i \in 0 .. Len(s) : Upto(s)[i] = NextFrames(s, Upto(s), i)
  BY <1>1
<1>4. 0 \in 0 .. Len(s) /\ \A i \in 1 .. Len(s) : i \in 0 .. Len(s) /\ i # 0
  BY <1>2
<1> QED
  BY <1>3, <1>4 DEF NextFrames

\* It depends on the packets so far only.
LEMMA UptoSame ==
  ASSUME NEW s \in Seq(Packets), NEW t \in Seq(Packets), NEW n \in Nat, n <= Len(s), n <= Len(t),
         \A i \in 1 .. n : s[i] = t[i]
  PROVE  Upto(s)[n] = Upto(t)[n]
<1> DEFINE T == {i \in 0 .. n : Upto(s)[i] = Upto(t)[i]}
<1>0. Len(s) \in Nat /\ Len(t) \in Nat
  OBVIOUS
<1>1. 0 \in T
  BY UptoFacts
<1>2. ASSUME NEW i \in 1 .. n, i - 1 \in T PROVE i \in T
  <2>1. i \in 1 .. Len(s) /\ i \in 1 .. Len(t) /\ s[i] = t[i] /\ Upto(s)[i - 1] = Upto(t)[i - 1]
    BY <1>0, <1>2
  <2>2. Upto(s)[i] = Upto(t)[i]
    BY <2>1, UptoFacts
  <2> QED
    BY <2>2
<1>3. \A i \in 0 .. n : i \in T
  <2> HIDE DEF T
  <2> QED
    BY <1>1, <1>2, Count
<1> QED
  BY <1>3

LEMMA UptoType ==
  ASSUME NEW s \in Seq(Packets)
  PROVE  \A i \in 0 .. Len(s) : Upto(s)[i] \in Seq(FrameIds)
<1> DEFINE T == {i \in 0 .. Len(s) : Upto(s)[i] \in Seq(FrameIds)}
<1>0. Len(s) \in Nat
  OBVIOUS
<1>1. 0 \in T
  <2>1. <<>> \in Seq(FrameIds) /\ 0 \in 0 .. Len(s)
    BY <1>0
  <2>2. Upto(s)[0] \in Seq(FrameIds)
    BY <2>1, UptoFacts
  <2> QED
    BY <2>1, <2>2
<1>2. ASSUME NEW i \in 1 .. Len(s), i - 1 \in T PROVE i \in T
  <2>1. s[i] \in Packets /\ Upto(s)[i - 1] \in Seq(FrameIds)
    BY <1>2
  <2>2. Id(s[i]) \in FrameIds
    BY <2>1 DEF Id, FrameIds, Packets
  <2>3. Append(Upto(s)[i - 1], Id(s[i])) \in Seq(FrameIds)
    BY <2>1, <2>2, AppendProperties
  <2>4. Upto(s)[i] \in Seq(FrameIds)
    BY <2>1, <2>3, UptoFacts
  <2> QED
    BY <2>4
<1>3. \A i \in 0 .. Len(s) : i \in T
  <2> HIDE DEF T
  <2> QED
    BY <1>0, <1>1, <1>2, Count
<1> QED
  BY <1>3

\* Frames are sequences,
LEMMA FramesType ==
  ASSUME NEW s \in Seq(Packets)
  PROVE  Frames(s) \in Seq(FrameIds)
  BY UptoType, FramesUpto

\* none without packets,
LEMMA FramesEmpty == Frames(<<>>) = <<>>
<1>1. <<>> \in Seq(Packets) /\ Len(<<>>) = 0
  OBVIOUS
<1> QED
  BY <1>1, UptoFacts, FramesUpto

\* and a packet begins one or belongs to the last.
LEMMA FramesAppend ==
  ASSUME NEW s \in Seq(Packets), NEW p \in Packets
  PROVE  Frames(Append(s, p)) = IF p.first THEN Append(Frames(s), Id(p)) ELSE Frames(s)
<1> DEFINE t == Append(s, p)
           n == Len(s)
<1>1. n \in Nat /\ t \in Seq(Packets) /\ Len(t) = n + 1 /\ t[n + 1] = p /\ \A i \in 1 .. n : t[i] = s[i]
  BY AppendProperties, LenProperties
<1> HIDE DEF t
<1>2. Upto(t)[n] = Upto(s)[n]
  BY <1>1, UptoSame
<1>3. n + 1 \in 1 .. Len(t) /\ (n + 1) - 1 = n
  BY <1>1
<1>4. Upto(t)[n + 1] = IF p.first THEN Append(Upto(t)[n], Id(p)) ELSE Upto(t)[n]
  BY <1>1, <1>3, UptoFacts
<1> QED
  BY <1>1, <1>2, <1>4, FramesUpto DEF t

\* The frames of two sequences after each other.
LEMMA FramesConcat ==
  ASSUME NEW s \in Seq(Packets), NEW t \in Seq(Packets)
  PROVE  Frames(s \o t) = Frames(s) \o Frames(t)
<1> DEFINE a(n) == SubSeq(t, 1, n)
           T == {n \in 0 .. Len(t) : Frames(s \o a(n)) = Frames(s) \o Frames(a(n))}
<1>0. Len(t) \in Nat
  OBVIOUS
<1>1. 0 \in T
  <2>1. a(0) = <<>>
    BY <1>0
  <2>2. s \o <<>> = s /\ Frames(s) \o <<>> = Frames(s)
    BY FramesType, ConcatEmptySeq
  <2>3. Frames(s \o a(0)) = Frames(s) \o Frames(a(0))
    BY <2>1, <2>2, FramesEmpty
  <2>4. 0 \in 0 .. Len(t)
    BY <1>0
  <2> HIDE DEF a
  <2> QED
    BY <2>3, <2>4
<1>2. ASSUME NEW n \in 1 .. Len(t), n - 1 \in T PROVE n \in T
  <2> DEFINE b == a(n - 1)
             p == t[n]
  <2>1. b \in Seq(Packets) /\ p \in Packets
    BY <1>0
  <2>2. a(n) = Append(b, p)
    <3>1. a(n) \in Seq(Packets) /\ Len(a(n)) = n /\ \A i \in 1 .. n : a(n)[i] = t[i]
      BY <1>0
    <3>2. Len(b) = n - 1 /\ \A i \in 1 .. n - 1 : b[i] = t[i]
      BY <1>0
    <3> HIDE DEF b
    <3>3. /\ Append(b, p) \in Seq(Packets) /\ Len(Append(b, p)) = Len(b) + 1
          /\ Append(b, p)[Len(b) + 1] = p /\ \A i \in 1 .. Len(b) : Append(b, p)[i] = b[i]
      BY <2>1, AppendProperties
    <3>4. (n - 1) + 1 = n /\ \A i \in 1 .. n : i = n \/ i \in 1 .. n - 1
      BY <1>0
    <3>5. \A i \in 1 .. n : Append(b, p)[i] = t[i]
      BY <3>2, <3>3, <3>4
    <3> HIDE DEF a
    <3> QED
      BY <3>1, <3>2, <3>3, <3>4, <3>5, SeqEqual
  <2>3. Frames(s \o b) = Frames(s) \o Frames(b)
    BY <1>2
  <2> HIDE DEF b, p
  <2>4. s \o Append(b, p) = Append(s \o b, p) /\ s \o b \in Seq(Packets)
    BY <2>1
  <2>5. Frames(Append(s \o b, p)) = IF p.first THEN Append(Frames(s \o b), Id(p)) ELSE Frames(s \o b)
    BY <2>1, <2>4, FramesAppend
  <2>6. Frames(Append(b, p)) = IF p.first THEN Append(Frames(b), Id(p)) ELSE Frames(b)
    BY <2>1, FramesAppend
  <2>7. Append(Frames(s) \o Frames(b), Id(p)) = Frames(s) \o Append(Frames(b), Id(p))
    <3>1. Frames(s) \in Seq(FrameIds) /\ Frames(b) \in Seq(FrameIds)
      BY <2>1, FramesType
    <3>2. Id(p) \in FrameIds
      BY <2>1 DEF Id, FrameIds, Packets
    <3> DEFINE x == Id(p)
    <3>3. Append(Frames(s) \o Frames(b), x) = (Frames(s) \o Frames(b)) \o <<x>>
      BY <3>1, <3>2, AppendIsConcat, ConcatProperties
    <3>4. Append(Frames(b), x) = Frames(b) \o <<x>> /\ <<x>> \in Seq(FrameIds)
      BY <3>1, <3>2, AppendIsConcat
    <3>5. (Frames(s) \o Frames(b)) \o <<x>> = Frames(s) \o (Frames(b) \o <<x>>)
      BY <3>1, <3>4, ConcatAssociative
    <3> QED
      BY <3>3, <3>4, <3>5
  <2>8. Frames(s \o Append(b, p)) = Frames(s) \o Frames(Append(b, p))
    BY <2>3, <2>4, <2>5, <2>6, <2>7
  <2>9. Frames(s \o a(n)) = Frames(s) \o Frames(a(n)) /\ n \in 0 .. Len(t)
    <3>1. n \in 0 .. Len(t)
      BY <1>0
    <3> HIDE DEF a
    <3> QED
      BY <2>2, <2>8, <3>1
  <2> HIDE DEF a
  <2> QED
    BY <2>9
<1>3. \A n \in 0 .. Len(t) : n \in T
  <2> HIDE DEF T
  <2> QED
    BY <1>0, <1>1, <1>2, Count
<1>4. a(Len(t)) = t
  BY <1>0
<1>5. Len(t) \in T
  BY <1>0, <1>3
<1> HIDE DEF a
<1> QED
  BY <1>4, <1>5

\* Packets of which the first alone begins a frame are one.
LEMMA FramesOne ==
  ASSUME NEW s \in Seq(Packets), s # <<>>, s[1].first, \A i \in 2 .. Len(s) : ~s[i].first
  PROVE  Frames(s) = <<Id(s[1])>>
<1> DEFINE n == Len(s) - 1
           T == {i \in 0 .. n : Upto(s)[i + 1] = <<Id(s[1])>>}
<1>0. Len(s) \in Nat /\ n \in Nat /\ Len(s) = n + 1 /\ 1 \in 1 .. Len(s)
  OBVIOUS
<1>1. 0 \in T
  <2>1. Upto(s)[1] = Append(Upto(s)[0], Id(s[1]))
    <3>1. ASSUME NEW i \in 1 .. Len(s), s[i].first
          PROVE  Upto(s)[i] = Append(Upto(s)[i - 1], Id(s[i]))
      BY <3>1, UptoFacts
    <3>2. Upto(s)[1] = Append(Upto(s)[1 - 1], Id(s[1]))
      BY <1>0, <3>1
    <3>3. 1 - 1 = 0
      OBVIOUS
    <3> QED
      BY <3>2, <3>3
  <2>3. 0 + 1 = 1
    OBVIOUS
  <2>2. Append(<<>>, Id(s[1])) = <<Id(s[1])>>
    OBVIOUS
  <2> QED
    BY <1>0, <2>1, <2>2, <2>3, UptoFacts
<1>2. ASSUME NEW i \in 1 .. n, i - 1 \in T PROVE i \in T
  <2>1. i + 1 \in 1 .. Len(s) /\ i + 1 \in 2 .. Len(s) /\ (i + 1) - 1 = i /\ (i - 1) + 1 = i /\ i \in 0 .. n
    BY <1>0
  <2>2. Upto(s)[i] = <<Id(s[1])>>
    BY <1>2, <2>1
  <2>3. Upto(s)[i + 1] = Upto(s)[(i + 1) - 1]
    BY <2>1, UptoFacts
  <2> QED
    BY <2>1, <2>2, <2>3
<1>3. \A i \in 0 .. n : i \in T
  <2> HIDE DEF T, n
  <2> QED
    BY <1>0, <1>1, <1>2, Count
<1>4. n \in T
  BY <1>0, <1>3
<1> QED
  BY <1>0, <1>4, FramesUpto

\* The device sends a frame as one,
LEMMA FrameIsOne ==
  ASSUME NEW kind \in FrameKinds, NEW n \in 0 .. MaxCalls, NEW k \in 1 .. MaxPackets
  PROVE  Frames(Frame(kind, n, k)) = <<<<kind, n>>>>
<1> DEFINE s == Frame(kind, n, k)
<1>1. s \in Seq(Packets) /\ s # <<>>
  BY FrameWhole
<1>2. k \in Nat /\ s = [i \in 1 .. k |-> [kind |-> kind, n |-> n, first |-> i = 1, left |-> k - i]]
  BY DaemonAssumption DEF Frame
<1>3. Len(s) = k /\ 1 \in 1 .. k
  BY <1>2, DaemonAssumption
<1>4. \A i \in 1 .. k : s[i] = [kind |-> kind, n |-> n, first |-> i = 1, left |-> k - i]
  BY <1>2
<1>a. ASSUME NEW i \in 1 .. k PROVE s[i].kind = kind /\ s[i].n = n /\ (s[i].first <=> i = 1)
  <2> DEFINE one == i = 1
  <2>1. one \in BOOLEAN
    OBVIOUS
  <2>2. s[i] = [kind |-> kind, n |-> n, first |-> one, left |-> k - i]
    BY <1>4
  <2> HIDE DEF one, s
  <2>3. s[i].kind = kind /\ s[i].n = n /\ s[i].first = one
    BY <2>2
  <2> QED
    BY <2>1, <2>3 DEF one
<1>5. s[1].first /\ s[1].kind = kind /\ s[1].n = n
  BY <1>3, <1>a
<1>6. ASSUME NEW i \in 2 .. k PROVE ~s[i].first
  <2>1. i \in 1 .. k /\ i # 1
    BY <1>2
  <2> QED
    BY <1>a, <2>1
<1> HIDE DEF s
<1>7. Frames(s) = <<Id(s[1])>>
  BY <1>1, <1>3, <1>5, <1>6, FramesOne
<1> QED
  BY <1>5, <1>7 DEF Id, s

\* and the driver takes it as one: without its first frame a sequence of whole
\* frames has the others.
LEMMA FramesAfter ==
  ASSUME NEW s \in Seq(Packets), Whole(s), s # <<>>
  PROVE  Frames(s) # <<>> /\ Frames(SubSeq(s, s[1].left + 2, Len(s))) = Tail(Frames(s))
<1> DEFINE k == s[1].left + 1
           a == SubSeq(s, 1, k)
           b == SubSeq(s, k + 1, Len(s))
<1>1. Len(s) \in Nat /\ k \in 1 .. Len(s) /\ s[1].left + 2 = k + 1 /\ s[1].left \in Nat
  BY FirstFrame, PacketFacts
<1>2. s[1].first
  <2>1. 1 \in 1 .. Len(s)
    BY <1>1
  <2> QED
    BY <2>1 DEF Whole
<1>3. ASSUME NEW i \in 2 .. k PROVE ~s[i].first
  <2> DEFINE j == i - 2
  <2>1. j \in 0 .. s[1].left /\ j + 1 = i - 1 /\ i - 1 \in 1 .. Len(s) /\ (i - 1) + 1 = i /\ j < s[1].left
    BY <1>1
  <2> HIDE DEF j
  <2>2. s[i - 1].left = s[1].left - j
    BY <2>1, FirstFrame, Zenon
  <2>3. s[i - 1].left > 0
    BY <1>1, <2>1, <2>2
  <2> QED
    BY <2>1, <2>3 DEF Whole
<1> HIDE DEF k
<1>4. a \in Seq(Packets) /\ Len(a) = k /\ \A i \in 1 .. k : a[i] = s[i]
  BY <1>1
<1>5. b \in Seq(Packets) /\ Len(b) = Len(s) - k /\ \A i \in 1 .. Len(s) - k : b[i] = s[k + i]
  BY <1>1
<1>6. s = a \o b
  <2> HIDE DEF a, b
  <2>1. /\ a \o b \in Seq(Packets) /\ Len(a \o b) = Len(a) + Len(b)
        /\ \A i \in 1 .. Len(a) + Len(b) : (a \o b)[i] = IF i <= Len(a) THEN a[i] ELSE b[i - Len(a)]
    BY <1>4, <1>5, ConcatProperties
  <2>2. Len(a \o b) = Len(s)
    BY <1>1, <1>4, <1>5, <2>1
  <2>3. ASSUME NEW i \in 1 .. Len(s) PROVE (a \o b)[i] = s[i]
    <3>1. (a \o b)[i] = IF i <= k THEN a[i] ELSE b[i - k]
      <4>1. i \in 1 .. Len(a) + Len(b)
        BY <2>1, <2>2
      <4>2. (a \o b)[i] = IF i <= Len(a) THEN a[i] ELSE b[i - Len(a)]
        BY <2>1, <4>1
      <4> QED
        BY <1>4, <4>2
    <3>2. CASE i <= k
      BY <1>1, <1>4, <3>1, <3>2
    <3>3. CASE ~(i <= k)
      <4>1. i - k \in 1 .. Len(s) - k /\ k + (i - k) = i
        BY <1>1, <3>3
      <4> QED
        BY <1>5, <3>1, <3>3, <4>1
    <3> QED
      BY <3>2, <3>3
  <2> QED
    BY <2>1, <2>2, <2>3, SeqEqual
<1>7. Frames(a) = <<Id(s[1])>>
  <2>1. a[1] = s[1] /\ a # <<>> /\ \A i \in 2 .. Len(a) : ~a[i].first
    BY <1>1, <1>3, <1>4
  <2> HIDE DEF a
  <2> QED
    BY <1>2, <1>4, <2>1, FramesOne
<1> HIDE DEF a, b
<1>8. Frames(s) = <<Id(s[1])>> \o Frames(b) /\ Frames(b) \in Seq(FrameIds)
  BY <1>4, <1>5, <1>6, <1>7, FramesConcat, FramesType
<1>9. ASSUME NEW f \in Seq(FrameIds), NEW x \in FrameIds
      PROVE  <<x>> \o f # <<>> /\ Tail(<<x>> \o f) = f
  <2> DEFINE g == <<x>> \o f
  <2>1. /\ <<x>> \in Seq(FrameIds) /\ Len(<<x>>) = 1 /\ Len(f) \in Nat
        /\ g \in Seq(FrameIds) /\ Len(g) = 1 + Len(f)
        /\ \A i \in 1 .. 1 + Len(f) : g[i] = IF i <= 1 THEN <<x>>[i] ELSE f[i - 1]
    OBVIOUS
  <2> HIDE DEF g
  <2>2. g # <<>> /\ Tail(g) \in Seq(FrameIds) /\ Len(Tail(g)) = Len(f)
        /\ \A i \in 1 .. Len(f) : Tail(g)[i] = g[i + 1]
    BY <2>1
  <2>3. ASSUME NEW i \in 1 .. Len(f) PROVE Tail(g)[i] = f[i]
    <3>1. i + 1 \in 1 .. 1 + Len(f) /\ ~(i + 1 <= 1) /\ (i + 1) - 1 = i
      BY <2>1
    <3> QED
      BY <2>1, <2>2, <3>1
  <2>4. Tail(g) = f
    BY <2>2, <2>3, SeqEqual
  <2> QED
    BY <2>2, <2>4 DEF g
<1>10. Id(s[1]) \in FrameIds
  <2>1. s[1] \in Packets
    BY <1>1
  <2> QED
    BY <2>1 DEF Id, FrameIds, Packets
<1> QED
  BY <1>1, <1>8, <1>9, <1>10 DEF b

-----------------------------------------------------------------------------
(* The inductive invariant.                                                *)

Unsent == device.unsent
All == toHost \o usbIn \o Unsent

\* In the middle of a frame the daemon has handed over as many of its packets
\* as it believes.
Middle ==
  IF daemon.at = "more"
    THEN toHost # <<>> /\ toHost[Len(toHost)].left = daemon.left /\ daemon.left > 0
    ELSE Complete(toHost)

WireInv == TypeOK /\ Whole(All) /\ Middle

\* The records of TypeOK.
Letters == {"r", "p", "c"}
Hosts == [pc : {"idle", "send", "recv", "poll", "dead"}, looping : BOOLEAN, cmd : Commands,
          tries : 0 .. MaxTries]
Daemons == [at : {"select", "read", "more"}, polling : BOOLEAN, left : 0 .. MaxPackets - 1]
Devices == [running : BOOLEAN, unsent : Seq(Packets), infos : 0 .. MaxInfos]

Places == {"idle", "send", "recv", "poll", "dead"}

\* What a call changes of its process.
LEMMA HostFacts ==
  ASSUME NEW h \in Hosts
  PROVE  /\ \A pc \in Places : [h EXCEPT !.pc = pc] \in Hosts
         /\ \A pc \in Places, n \in 0 .. MaxTries : [h EXCEPT !.pc = pc, !.tries = n] \in Hosts
         /\ \A pc \in Places, b \in BOOLEAN : [h EXCEPT !.pc = pc, !.looping = b] \in Hosts
         /\ \A pc \in Places, c \in Commands, n \in 0 .. MaxTries :
              [h EXCEPT !.pc = pc, !.cmd = c, !.tries = n] \in Hosts
  BY DEF Hosts, Places

\* The device has a frame it sends, and finishes it.
LEMMA DeviceFacts ==
  ASSUME NEW d \in Devices, NEW s \in Seq(Packets)
  PROVE  /\ [d EXCEPT !.unsent = s] \in Devices /\ [d EXCEPT !.unsent = s].unsent = s
         /\ \A b \in BOOLEAN : LET t == [d EXCEPT !.unsent = s, !.running = b]
                               IN  t \in Devices /\ t.unsent = s
         /\ \A n \in 0 .. MaxInfos : LET t == [d EXCEPT !.unsent = s, !.infos = n]
                                     IN  t \in Devices /\ t.unsent = s
  BY DEF Devices

\* Nothing is there at the start.
LEMMA InitWire == Init => WireInv
<1> SUFFICES ASSUME Init
             PROVE  WireInv
  OBVIOUS
<1>1. toHost = <<>> /\ usbIn = <<>> /\ device.unsent = <<>>
  BY DEF Init
<1>2. All = <<>>
  BY <1>1 DEF All, Unsent
<1>3. Whole(All)
  BY <1>2 DEF Whole
<1>4. Middle
  BY DEF Init, Middle, Complete
<1>5. host \in Hosts
  BY DaemonAssumption DEF Init, Hosts, Commands
<1>6. daemon \in Daemons
  BY DaemonAssumption DEF Init, Daemons
<1>7. device \in Devices
  <2>1. <<>> \in Seq(Packets) /\ 0 \in 0 .. MaxInfos
    BY DaemonAssumption
  <2> QED
    BY <2>1 DEF Init, Devices
<1>8. ctrl \in Seq(Letters)
  <2>1. <<"p">> \in Seq(Letters) /\ <<>> \in Seq(Letters)
    BY DEF Letters
  <2> QED
    BY <2>1 DEF Init
<1>9. calls \in 0 .. MaxCalls
  BY DaemonAssumption DEF Init
<1>10. TypeOK
  <2>1. <<>> \in Seq(Packets) /\ <<>> \in Seq(Requests)
    OBVIOUS
  <2> QED
    BY <1>1, <1>5, <1>6, <1>7, <1>8, <1>9, <2>1 DEF Init, TypeOK, Hosts, Daemons, Devices, Letters
<1> QED
  BY <1>3, <1>4, <1>10 DEF WireInv

\* TypeOK, with the names of the records.
LEMMA Types ==
  /\ TypeOK => /\ frontend \in {"avarice", "manuel"}
               /\ host \in Hosts /\ daemon \in Daemons /\ device \in Devices
               /\ calls \in 0 .. MaxCalls /\ ctrl \in Seq(Letters)
               /\ toUsb \in Seq(Requests) /\ usbOut \in Seq(Requests)
               /\ toHost \in Seq(Packets) /\ usbIn \in Seq(Packets) /\ device.unsent \in Seq(Packets)
               /\ breakpoint \in BOOLEAN
  /\ /\ frontend' \in {"avarice", "manuel"}
     /\ host' \in Hosts /\ daemon' \in Daemons /\ device' \in Devices
     /\ calls' \in 0 .. MaxCalls /\ ctrl' \in Seq(Letters)
     /\ toUsb' \in Seq(Requests) /\ usbOut' \in Seq(Requests)
     /\ toHost' \in Seq(Packets) /\ usbIn' \in Seq(Packets)
     /\ breakpoint' \in BOOLEAN
     => TypeOK'
  BY DEF TypeOK, Hosts, Daemons, Devices, Letters

\* The driver process keeps the shape of the state,
LEMMA HostType ==
  ASSUME TypeOK, HostStep, toHost' \in Seq(Packets)
  PROVE  TypeOK'
<1>0. /\ UNCHANGED <<frontend, daemon, usbOut, usbIn, device>> /\ MaxTries \in Nat \ {0} /\ MaxCalls \in Nat
      /\ frontend \in {"avarice", "manuel"}
      /\ host \in Hosts /\ daemon \in Daemons /\ device \in Devices
      /\ calls \in 0 .. MaxCalls /\ ctrl \in Seq(Letters)
      /\ toUsb \in Seq(Requests) /\ usbOut \in Seq(Requests)
      /\ usbIn \in Seq(Packets) /\ breakpoint \in BOOLEAN
  BY DaemonAssumption, Types DEF HostStep, deviceVars
<1>a. "r" \in Letters /\ "p" \in Letters /\ "c" \in Letters
  BY DEF Letters
<1>b. host.cmd \in Commands /\ host.tries \in 0 .. MaxTries /\ host.pc \in Places
      /\ {"idle", "send", "recv", "poll", "dead"} = Places
  BY <1>0 DEF Hosts, Places
<1>1. ASSUME NEW c \in Commands, StartCall(c)
      PROVE  TypeOK'
  <2>1. calls' \in 0 .. MaxCalls /\ [cmd |-> c, n |-> calls'] \in Requests
    BY <1>0, <1>1 DEF StartCall, Requests
  <2>2. toUsb' \in Seq(Requests) /\ ctrl' \in Seq(Letters)
    BY <1>0, <1>a, <1>1, <2>1 DEF StartCall, Request
  <2>3. host' \in Hosts
    <3>1. 1 \in 0 .. MaxTries /\ host' = [host EXCEPT !.pc = "recv", !.cmd = c, !.tries = 1]
      BY <1>0, <1>1 DEF StartCall
    <3> QED
      BY <1>0, <1>b, <3>1, HostFacts
  <2> QED
    BY <1>0, <1>1, <2>1, <2>2, <2>3, Types DEF StartCall
<1>2. ASSUME Retry
      PROVE  TypeOK'
  <2>1. host' \in Hosts
    BY <1>0, <1>b, <1>2, HostFacts DEF Retry
  <2>2. ctrl' \in Seq(Letters)
    <3>1. ctrl' = ctrl \/ ctrl' = Append(ctrl, "c")
      BY <1>2 DEF Retry
    <3>2. Append(ctrl, "c") \in Seq(Letters)
      BY <1>0, <1>a
    <3> QED
      BY <1>0, <3>1, <3>2
  <2> QED
    BY <1>0, <1>2, <2>1, <2>2, Types DEF Retry
<1>3. ASSUME CallReturns
      PROVE  TypeOK'
  <2>1. host' \in Hosts
    BY <1>0, <1>b, <1>3, HostFacts DEF CallReturns
  <2>2. ctrl' \in Seq(Letters)
    <3>1. ctrl' = ctrl \/ ctrl' = Append(ctrl, "p")
      BY <1>3 DEF CallReturns
    <3>2. Append(ctrl, "p") \in Seq(Letters)
      BY <1>0, <1>a
    <3> QED
      BY <1>0, <3>1, <3>2
  <2> QED
    BY <1>0, <1>3, <2>1, <2>2, Types DEF CallReturns
<1>4. ASSUME CallDiscards
      PROVE  TypeOK'
  <2>1. ctrl' \in Seq(Letters)
    BY <1>0, <1>a, <1>4 DEF CallDiscards
  <2> QED
    BY <1>0, <1>4, <2>1, Types DEF CallDiscards
<1>5. ASSUME PollStarts
      PROVE  TypeOK'
  <2>1. host' \in Hosts
    BY <1>0, <1>b, <1>5, HostFacts DEF PollStarts
  <2>2. ctrl' \in Seq(Letters)
    BY <1>0, <1>a, <1>5 DEF PollStarts
  <2> QED
    BY <1>0, <1>5, <2>1, <2>2, Types DEF PollStarts
<1>6. ASSUME PollReturns
      PROVE  TypeOK'
  <2>1. host' \in Hosts
    BY <1>0, <1>b, <1>6, HostFacts DEF PollReturns
  <2>2. breakpoint' \in BOOLEAN
    BY <1>6 DEF PollReturns
  <2> QED
    BY <1>0, <1>6, <2>1, <2>2, Types DEF PollReturns
<1>7. ASSUME Resend
      PROVE  TypeOK'
  <2>1. CASE host.tries = MaxTries
    <3>1. host' = [host EXCEPT !.pc = "dead"] /\ UNCHANGED <<toUsb, ctrl>>
      BY <1>7, <2>1 DEF Resend
    <3>2. host' \in Hosts
      BY <1>0, <1>b, <3>1, HostFacts
    <3> QED
      BY <1>0, <1>7, <3>1, <3>2, Types DEF Resend
  <2>2. CASE host.tries # MaxTries
    <3>1. /\ host' = [host EXCEPT !.pc = "recv", !.tries = host.tries + 1]
          /\ toUsb' = Append(toUsb, [cmd |-> host.cmd, n |-> calls]) /\ ctrl' = Append(ctrl, "r")
      BY <1>7, <2>2 DEF Resend, Request
    <3>2. host.tries + 1 \in 0 .. MaxTries /\ [cmd |-> host.cmd, n |-> calls] \in Requests
      BY <1>0, <1>b, <2>2 DEF Requests
    <3>3. host' \in Hosts
      BY <1>0, <1>b, <3>1, <3>2, HostFacts
    <3>4. toUsb' \in Seq(Requests) /\ ctrl' \in Seq(Letters)
      BY <1>0, <1>a, <3>1, <3>2
    <3> QED
      BY <1>0, <1>7, <3>3, <3>4, Types DEF Resend
  <2> QED
    BY <2>1, <2>2
<1> QED
  BY <1>1, <1>2, <1>3, <1>4, <1>5, <1>6, <1>7 DEF HostStep, Waiting

\* so does the daemon, and its count of packets,
LEMMA DaemonType ==
  ASSUME TypeOK, Middle, DaemonStep
  PROVE  TypeOK'
<1>0. /\ UNCHANGED <<frontend, host, calls, breakpoint>> /\ MaxPackets \in Nat \ {0}
      /\ frontend \in {"avarice", "manuel"}
      /\ host \in Hosts /\ daemon \in Daemons /\ device \in Devices
      /\ calls \in 0 .. MaxCalls /\ ctrl \in Seq(Letters)
      /\ toUsb \in Seq(Requests) /\ usbOut \in Seq(Requests)
      /\ toHost \in Seq(Packets) /\ usbIn \in Seq(Packets) /\ breakpoint \in BOOLEAN
  BY DaemonAssumption, Types DEF DaemonStep
<1>1. ASSUME Forward
      PROVE  TypeOK'
  <2>1. usbOut' \in Seq(Requests) /\ toUsb' \in Seq(Requests)
    BY <1>0, <1>1 DEF Forward
  <2> QED
    BY <1>0, <1>1, <2>1, Types DEF Forward
<1>2. ASSUME Control
      PROVE  TypeOK'
  <2>1. daemon' \in Daemons
    <3> DEFINE p == Head(ctrl) = "p" \/ (daemon.polling /\ Head(ctrl) = "c")
               a == IF Head(ctrl) = "c" /\ ~daemon.polling THEN "select" ELSE "read"
    <3>1. daemon' = [daemon EXCEPT !.polling = p, !.at = a]
      BY <1>2 DEF Control
    <3>2. p \in BOOLEAN /\ a \in {"select", "read"}
      OBVIOUS
    <3> HIDE DEF p, a
    <3> QED
      BY <1>0, <3>1, <3>2 DEF Daemons
  <2>2. ctrl' \in Seq(Letters) /\ toUsb' = toUsb /\ toHost' = toHost
    BY <1>0, <1>2 DEF Control
  <2>3. /\ \/ usbIn' = <<>> /\ usbOut' = <<>> /\ device' = [device EXCEPT !.unsent = <<>>]
           \/ usbIn' = usbIn /\ usbOut' = usbOut /\ device' = device
    BY <1>2 DEF Control, deviceVars
  <2>4. <<>> \in Seq(Packets) /\ <<>> \in Seq(Requests)
    OBVIOUS
  <2>5. device' \in Devices
    BY <1>0, <2>3, <2>4 DEF Devices
  <2> QED
    BY <1>0, <2>1, <2>2, <2>3, <2>4, <2>5, Types
<1>3. ASSUME SelectTimeout \/ ReadTimeout
      PROVE  TypeOK'
  <2>1. daemon' \in Daemons
    BY <1>0, <1>3 DEF SelectTimeout, ReadTimeout, Daemons
  <2> QED
    BY <1>0, <1>3, <2>1, Types DEF SelectTimeout, ReadTimeout, deviceVars
<1>4. ASSUME Read
      PROVE  TypeOK'
  <2>1. Head(usbIn) \in Packets /\ usbIn' \in Seq(Packets)
    BY <1>0, <1>4 DEF Read
  <2>2. Head(usbIn).left \in 0 .. MaxPackets - 1
    BY <2>1 DEF Packets
  <2>3. daemon' \in Daemons
    BY <1>4, <2>2 DEF Read, Daemons
  <2>4. toHost' \in Seq(Packets)
    BY <1>0, <1>4, <2>1 DEF Read
  <2> QED
    BY <1>0, <1>4, <2>1, <2>3, <2>4, Types DEF Read
<1>5. ASSUME ReadMore
      PROVE  TypeOK'
  <2>1. Head(usbIn) \in Packets /\ usbIn' \in Seq(Packets)
    BY <1>0, <1>5 DEF ReadMore
  <2>2. daemon.left - 1 \in 0 .. MaxPackets - 1
    BY <1>0, <1>5 DEF ReadMore, Middle, Daemons
  <2>3. daemon' \in Daemons
    BY <1>0, <1>5, <2>2 DEF ReadMore, Daemons
  <2>4. toHost' \in Seq(Packets)
    BY <1>0, <1>5, <2>1 DEF ReadMore
  <2> QED
    BY <1>0, <1>5, <2>1, <2>3, <2>4, Types DEF ReadMore
<1> QED
  BY <1>1, <1>2, <1>3, <1>4, <1>5 DEF DaemonStep

\* and so does the device, which begins a frame when it has sent the last one.
LEMMA DeviceType ==
  ASSUME TypeOK, DeviceStep
  PROVE  /\ TypeOK'
         /\ ~SendPacket => device.unsent = <<>> /\ usbIn' = usbIn /\ Whole(device'.unsent)
<1>0. /\ UNCHANGED <<frontend, host, calls, toUsb, ctrl, toHost, breakpoint, daemon>>
      /\ MaxPackets \in Nat \ {0} /\ MaxInfos \in Nat
      /\ frontend \in {"avarice", "manuel"}
      /\ host \in Hosts /\ daemon \in Daemons /\ device \in Devices
      /\ calls \in 0 .. MaxCalls /\ ctrl \in Seq(Letters)
      /\ toUsb \in Seq(Requests) /\ usbOut \in Seq(Requests)
      /\ toHost \in Seq(Packets) /\ usbIn \in Seq(Packets) /\ device.unsent \in Seq(Packets)
      /\ breakpoint \in BOOLEAN
  BY DaemonAssumption, Types DEF DeviceStep, hostVars
<1>1. ASSUME Answer
      PROVE  TypeOK' /\ device.unsent = <<>> /\ usbIn' = usbIn /\ Whole(device'.unsent)
  <2>1. PICK k \in 1 .. MaxPackets :
          device' = [device EXCEPT !.unsent = Frame("answer", Head(usbOut).n, k),
                                   !.running = @ \/ Head(usbOut).cmd = "go"]
    BY <1>1 DEF Answer
  <2>2. Head(usbOut) \in Requests /\ usbOut' \in Seq(Requests)
    BY <1>0, <1>1 DEF Answer
  <2> DEFINE f == Frame("answer", Head(usbOut).n, k)
             b == device.running \/ Head(usbOut).cmd = "go"
  <2>3. f \in Seq(Packets) /\ b \in BOOLEAN /\ Whole(f)
    BY <2>2, FrameWhole DEF Requests, FrameKinds
  <2>4. device' = [device EXCEPT !.unsent = f, !.running = b]
    BY <2>1
  <2> HIDE DEF f, b
  <2>5. device' \in Devices /\ device'.unsent = f
    BY <1>0, <2>3, <2>4, DeviceFacts
  <2> QED
    BY <1>0, <1>1, <2>2, <2>3, <2>5, Types DEF Answer
<1>2. ASSUME NEW kind \in {"stop", "info"}, NEW b \in BOOLEAN, NEW n \in 0 .. MaxInfos,
             \/ device' = [device EXCEPT !.unsent = Frame(kind, 0, 1), !.running = b]
             \/ device' = [device EXCEPT !.unsent = Frame(kind, 0, 1), !.infos = n],
             device.unsent = <<>>, UNCHANGED <<usbOut, usbIn>>
      PROVE  TypeOK' /\ device.unsent = <<>> /\ usbIn' = usbIn /\ Whole(device'.unsent)
  <2> DEFINE f == Frame(kind, 0, 1)
  <2>1. 1 \in 1 .. MaxPackets /\ 0 \in 0 .. MaxCalls
    BY <1>0, DaemonAssumption
  <2>2. f \in Seq(Packets) /\ Whole(f)
    BY <2>1, FrameWhole DEF FrameKinds
  <2> HIDE DEF f
  <2>3. device' = [device EXCEPT !.unsent = f, !.running = b] \/ device' = [device EXCEPT !.unsent = f, !.infos = n]
    BY <1>2 DEF f
  <2>4. device' \in Devices /\ device'.unsent = f
    <3>1. CASE device' = [device EXCEPT !.unsent = f, !.running = b]
      BY <1>0, <2>2, <3>1, DeviceFacts, ZenonT(60)
    <3>2. CASE device' = [device EXCEPT !.unsent = f, !.infos = n]
      BY <1>0, <2>2, <3>2, DeviceFacts
    <3> QED
      BY <2>3, <3>1, <3>2
  <2> QED
    BY <1>0, <1>2, <2>2, <2>4, Types
<1>3. ASSUME Stop
      PROVE  TypeOK' /\ device.unsent = <<>> /\ usbIn' = usbIn /\ Whole(device'.unsent)
  <2>1. 0 \in 0 .. MaxInfos
    BY <1>0
  <2> QED
    BY <1>2, <1>3, <2>1 DEF Stop
<1>4. ASSUME Info
      PROVE  TypeOK' /\ device.unsent = <<>> /\ usbIn' = usbIn /\ Whole(device'.unsent)
  <2>1. device.infos + 1 \in 0 .. MaxInfos /\ TRUE \in BOOLEAN
    BY <1>0, <1>4 DEF Info, Devices
  <2>2. device' = [device EXCEPT !.unsent = Frame("info", 0, 1), !.infos = device.infos + 1]
    BY <1>4 DEF Info
  <2> QED
    BY <1>2, <1>4, <2>1, <2>2 DEF Info
<1>5. ASSUME SendPacket
      PROVE  TypeOK'
  <2>1. Head(device.unsent) \in Packets /\ Tail(device.unsent) \in Seq(Packets)
    BY <1>0, <1>5 DEF SendPacket
  <2>2. device' \in Devices
    BY <1>0, <1>5, <2>1, DeviceFacts DEF SendPacket
  <2>3. usbIn' \in Seq(Packets)
    BY <1>0, <1>5, <2>1 DEF SendPacket
  <2> QED
    BY <1>0, <1>5, <2>2, <2>3, Types DEF SendPacket
<1> QED
  BY <1>1, <1>3, <1>4, <1>5 DEF DeviceStep

-----------------------------------------------------------------------------
(* What the steps make of the packets.                                     *)

\* Parts of the wire, side by side.
LEMMA Glue ==
  \A s, t, u \in Seq(Packets) : /\ s \o t \in Seq(Packets)
                                /\ (s \o t) \o u = s \o (t \o u)
                                /\ s \o <<>> = s
<1> SUFFICES ASSUME NEW s \in Seq(Packets), NEW t \in Seq(Packets), NEW u \in Seq(Packets)
             PROVE  s \o t \in Seq(Packets) /\ (s \o t) \o u = s \o (t \o u) /\ s \o <<>> = s
  OBVIOUS
<1>1. (s \o t) \o u = s \o (t \o u)
  BY ConcatAssociative
<1>2. s \o <<>> = s
  BY ConcatEmptySeq
<1> QED
  BY <1>1, <1>2

\* What follows the first packets of a sequence is all of what follows them.
LEMMA Cut ==
  ASSUME NEW s \in Seq(Packets), NEW t \in Seq(Packets), NEW k \in 1 .. Len(s)
  PROVE  SubSeq(s \o t, k + 1, Len(s \o t)) = SubSeq(s, k + 1, Len(s)) \o t
<1> DEFINE a == SubSeq(s \o t, k + 1, Len(s \o t))
           b == SubSeq(s, k + 1, Len(s))
<1>1. /\ s \o t \in Seq(Packets) /\ Len(s \o t) = Len(s) + Len(t)
      /\ \A i \in 1 .. Len(s) + Len(t) : (s \o t)[i] = IF i <= Len(s) THEN s[i] ELSE t[i - Len(s)]
      /\ Len(s) \in Nat /\ Len(t) \in Nat
  BY ConcatProperties, LenProperties
<1>2. /\ a \in Seq(Packets) /\ Len(a) = Len(s) + Len(t) - k
      /\ \A i \in 1 .. Len(s) + Len(t) - k : a[i] = (s \o t)[k + i]
  BY <1>1
<1>3. /\ b \in Seq(Packets) /\ Len(b) = Len(s) - k
      /\ \A i \in 1 .. Len(s) - k : b[i] = s[k + i]
  BY <1>1
<1> HIDE DEF a, b
<1> DEFINE c == b \o t
<1>4. /\ c \in Seq(Packets) /\ Len(c) = Len(b) + Len(t)
      /\ \A i \in 1 .. Len(b) + Len(t) : c[i] = IF i <= Len(b) THEN b[i] ELSE t[i - Len(b)]
  BY <1>3, ConcatProperties
<1> HIDE DEF c
<1>5. ASSUME NEW i \in 1 .. Len(a)
      PROVE  a[i] = c[i]
  <2>1. a[i] = (s \o t)[k + i] /\ k + i \in 1 .. Len(s) + Len(t) /\ i \in 1 .. Len(b) + Len(t)
    BY <1>1, <1>2, <1>3
  <2>2. CASE i <= Len(s) - k
    BY <1>1, <1>3, <1>4, <2>1, <2>2
  <2>3. CASE i > Len(s) - k
    <3>1. (k + i) - Len(s) = i - Len(b) /\ ~(k + i <= Len(s)) /\ ~(i <= Len(b))
      BY <1>1, <1>3, <2>3
    <3>2. a[i] = t[(k + i) - Len(s)]
      BY <1>1, <2>1, <3>1
    <3>3. c[i] = t[i - Len(b)]
      BY <1>4, <2>1, <3>1
    <3> QED
      BY <3>1, <3>2, <3>3
  <2>4. i \in Int /\ Len(s) - k \in Int
    BY <1>1, <1>2
  <2> QED
    BY <2>2, <2>3, <2>4
<1>6. Len(a) = Len(c)
  BY <1>1, <1>2, <1>3, <1>4
<1>7. a = c
  BY <1>2, <1>4, <1>5, <1>6, SeqEqual
<1> QED
  BY <1>7 DEF a, b, c

\* The driver takes the first frame.
LEMMA TakeKeeps ==
  ASSUME WireInv, FrameReady, toHost' = AfterFrame, UNCHANGED <<daemon, usbIn, device>>
  PROVE  /\ toHost' \in Seq(Packets) /\ Whole(All)' /\ Middle'
         /\ All # <<>> /\ (All)' = SubSeq(All, All[1].left + 2, Len(All))
<1> DEFINE rest == usbIn \o Unsent
           k == toHost[1].left + 1
<1>1. /\ toHost \in Seq(Packets) /\ usbIn \in Seq(Packets) /\ Unsent \in Seq(Packets)
      /\ toHost # <<>> /\ Head(toHost) = toHost[1] /\ toHost[1] \in Packets
  BY Types DEF WireInv, FrameReady, Unsent
<1>2. rest \in Seq(Packets) /\ All = toHost \o rest
  BY <1>1, Glue DEF All
<1>3. k \in 1 .. Len(toHost) /\ toHost' = SubSeq(toHost, k + 1, Len(toHost)) /\ Len(toHost) \in Nat
  <2>1. Len(toHost) \in Nat /\ toHost[1].left \in Nat /\ toHost[1].left < Len(toHost)
    BY <1>1, PacketFacts DEF FrameReady
  <2>2. (toHost[1].left + 1) + 1 = toHost[1].left + 2
    BY <2>1
  <2>3. toHost' = SubSeq(toHost, k + 1, Len(toHost))
    BY <1>1, <2>2 DEF AfterFrame
  <2> QED
    BY <2>1, <2>3
<1>4. Whole(toHost \o rest)
  BY <1>2 DEF WireInv
<1> HIDE DEF rest
<1>5. /\ toHost \o rest \in Seq(Packets) /\ toHost \o rest # <<>>
      /\ \A i \in 1 .. Len(toHost) : (toHost \o rest)[i] = toHost[i]
  BY <1>1, <1>2
<1>6. toHost[k].left = 0
  <2>1. toHost[1].left \in 0 .. toHost[1].left /\ 1 \in 1 .. Len(toHost)
    BY <1>1, <1>3, PacketFacts
  <2>2. (toHost \o rest)[1] = toHost[1]
    BY <1>5, <2>1
  <2>3. (toHost \o rest)[k].left = toHost[1].left - toHost[1].left
    BY <1>4, <1>5, <2>1, <2>2, FirstFrame, ZenonT(60)
  <2> QED
    BY <1>1, <1>3, <1>5, <2>3, PacketFacts
<1>b. (toHost \o rest)[1].left + 2 = k + 1
  BY <1>1, <1>3, <1>5, PacketFacts
<1>7. Whole(SubSeq(toHost \o rest, k + 1, Len(toHost \o rest)))
  BY <1>4, <1>5, <1>b, WholeAfter
<1> HIDE DEF k
<1>8. toHost' \in Seq(Packets) /\ Len(toHost') = Len(toHost) - k
      /\ \A i \in 1 .. Len(toHost) - k : toHost'[i] = toHost[k + i]
  BY <1>1, <1>3
<1>9. SubSeq(toHost \o rest, k + 1, Len(toHost \o rest)) = toHost' \o rest
  BY <1>1, <1>2, <1>3, Cut, ZenonT(60)
<1>a. (All)' = toHost' \o rest
  <2>1. usbIn' = usbIn /\ Unsent' = Unsent
    BY DEF Unsent
  <2>2. (toHost' \o usbIn) \o Unsent = toHost' \o (usbIn \o Unsent)
    BY <1>1, <1>8, Glue, SMTT(40)
  <2> QED
    BY <2>1, <2>2 DEF All, rest
<1>10. ASSUME Len(toHost) - k > 0
       PROVE  toHost' # <<>> /\ toHost'[Len(toHost')] = toHost[Len(toHost)]
  <2>1. Len(toHost') \in 1 .. Len(toHost) - k /\ k + Len(toHost') = Len(toHost)
    BY <1>3, <1>8, <1>10
  <2>2. toHost' # <<>>
    BY <1>8, <1>10
  <2> QED
    BY <1>8, <2>1, <2>2
<1>11. ASSUME Len(toHost) - k = 0
       PROVE  toHost' = <<>> /\ toHost[Len(toHost)].left = 0
  BY <1>3, <1>6, <1>8, <1>11, EmptySeq
<1>12. Middle'
  <2>0. Middle /\ Len(toHost) - k \in Nat /\ daemon' = daemon
    BY <1>3 DEF WireInv
  <2>1. CASE Len(toHost) - k > 0
    BY <1>1, <1>10, <2>0, <2>1 DEF Middle, Complete
  <2>2. CASE Len(toHost) - k = 0
    BY <1>1, <1>11, <2>0, <2>2 DEF Middle, Complete
  <2> QED
    BY <2>0, <2>1, <2>2
<1>13. All # <<>> /\ (All)' = SubSeq(All, All[1].left + 2, Len(All))
  BY <1>2, <1>5, <1>9, <1>a, <1>b
<1> QED
  BY <1>7, <1>8, <1>9, <1>a, <1>12, <1>13

\* The daemon hands on one packet.
LEMMA HandOn ==
  ASSUME NEW s \in Seq(Packets), NEW t \in Seq(Packets), NEW u \in Seq(Packets), t # <<>>
  PROVE  /\ Append(s, Head(t)) \o Tail(t) \o u = s \o t \o u
         /\ LET v == Append(s, Head(t)) IN v # <<>> /\ v[Len(v)] = t[1]
         /\ Append(s, Head(t)) \o Tail(t) = s \o t
<1> DEFINE v == Append(s, Head(t))
<1>1. Head(t) = t[1] /\ Head(t) \in Packets /\ Tail(t) \in Seq(Packets)
  OBVIOUS
<1>2. v \in Seq(Packets) /\ v # <<>> /\ Len(v) = Len(s) + 1 /\ v[Len(s) + 1] = Head(t)
  BY <1>1, AppendProperties
<1>3. v = s \o <<Head(t)>> /\ <<Head(t)>> \in Seq(Packets)
  BY <1>1, AppendIsConcat
<1>4. <<Head(t)>> \o Tail(t) = t
  <2> DEFINE w == <<Head(t)>> \o Tail(t)
  <2>1. w \in Seq(Packets) /\ Len(w) = 1 + Len(Tail(t))
    BY <1>1, <1>3
  <2>2. Len(Tail(t)) = Len(t) - 1 /\ Len(t) \in Nat /\ \A i \in 1 .. Len(Tail(t)) : Tail(t)[i] = t[i + 1]
    BY HeadTailProperties
  <2>3. \A i \in 1 .. Len(w) : w[i] = t[i]
    BY <1>1, <1>3, <2>1, <2>2
  <2> QED
    BY <2>1, <2>2, <2>3, SeqEqual
<1> HIDE DEF v
<1>5. v \o Tail(t) = s \o t
  BY <1>1, <1>3, <1>4, ConcatAssociative
<1> QED
  BY <1>1, <1>2, <1>5 DEF v

\* The next packet after one that is not the last belongs to the same frame.
LEMMA NextPacket ==
  ASSUME NEW s \in Seq(Packets), NEW t \in Seq(Packets), NEW u \in Seq(Packets),
         Whole(s \o t \o u), s # <<>>, t # <<>>, s[Len(s)].left > 0
  PROVE  t[1].left = s[Len(s)].left - 1
<1> DEFINE v == s \o t \o u
           n == Len(s)
<1>1. v \in Seq(Packets) /\ n \in 1 .. Len(v) /\ n + 1 \in 1 .. Len(v) /\ v[n] = s[n] /\ v[n + 1] = t[1]
  OBVIOUS
<1>2. n \in Nat /\ t[1] \in Packets /\ s[n] \in Packets
  OBVIOUS
<1> HIDE DEF v, n
<1>3. Whole(v) /\ s[n].left > 0
  BY DEF v, n
<1>4. ~v[n + 1].first
  BY <1>1, <1>3 DEF Whole
<1>5. v[(n + 1) - 1].left = v[n + 1].left + 1
  BY <1>1, <1>3, <1>4 DEF Whole
<1>6. (n + 1) - 1 = n /\ t[1].left \in Nat /\ s[n].left \in Nat
  BY <1>2, PacketFacts
<1>7. s[n].left = t[1].left + 1
  BY <1>1, <1>5, <1>6
<1>8. t[1].left = s[n].left - 1
  BY <1>6, <1>7
<1> QED
  BY <1>8 DEF n

LEMMA WireNext == WireInv /\ [Next]_vars => WireInv'
<1> SUFFICES ASSUME WireInv, [Next]_vars
             PROVE  WireInv'
  OBVIOUS
<1>0. /\ TypeOK /\ Whole(All) /\ Middle
      /\ toHost \in Seq(Packets) /\ usbIn \in Seq(Packets) /\ Unsent \in Seq(Packets)
      /\ daemon \in Daemons /\ device \in Devices
  BY Types DEF WireInv, Unsent
<1>1. CASE HostStep
  <2>1. UNCHANGED <<daemon, usbIn, device>>
    BY <1>1 DEF HostStep, deviceVars
  <2>2. CASE CallReturns \/ CallDiscards \/ PollReturns
    <3>1. FrameReady /\ toHost' = AfterFrame
      BY <2>2 DEF CallReturns, CallDiscards, PollReturns, Answered
    <3>2. toHost' \in Seq(Packets) /\ Whole(All)' /\ Middle'
      BY <2>1, <3>1, TakeKeeps
    <3> QED
      BY <1>0, <1>1, <3>2, HostType DEF WireInv
  <2>3. CASE (\E c \in Commands : StartCall(c)) \/ Retry \/ Resend \/ PollStarts
    <3>1. toHost' = toHost
      BY <2>3 DEF StartCall, Retry, Resend, PollStarts
    <3>2. TypeOK'
      BY <1>0, <1>1, <3>1, HostType
    <3> QED
      BY <1>0, <2>1, <3>1, <3>2 DEF WireInv, All, Unsent, Middle, Complete, Whole
  <2> QED
    BY <1>1, <2>2, <2>3 DEF HostStep, Waiting
<1>2. CASE DaemonStep
  <2>0. TypeOK'
    BY <1>0, <1>2, DaemonType
  <2>1. CASE Forward
    BY <1>0, <2>0, <2>1 DEF Forward, WireInv, All, Unsent, Middle, Complete, Whole
  <2>2. CASE Control
    <3>1. daemon.at # "more" /\ daemon'.at # "more" /\ toHost' = toHost
      BY <1>0, <2>2 DEF Control, Daemons
    <3>2. Complete(toHost) /\ Middle'
      BY <1>0, <3>1 DEF Middle, Complete
    <3>3. CASE Head(ctrl) # "c"
      <4>1. usbIn' = usbIn /\ Unsent' = Unsent
        BY <2>2, <3>3 DEF Control, deviceVars, Unsent
      <4>2. (All)' = All
        BY <3>1, <4>1 DEF All
      <4> QED
        BY <1>0, <2>0, <3>2, <4>2 DEF WireInv
    <3>4. CASE Head(ctrl) = "c"
      <4>1. usbIn' = <<>> /\ Unsent' = <<>>
        BY <1>0, <2>2, <3>4 DEF Control, Devices, Unsent
      <4>2. (All)' = toHost
        BY <1>0, <3>1, <4>1 DEF All
      <4>3. All = toHost \o (usbIn \o Unsent) /\ usbIn \o Unsent \in Seq(Packets)
        BY <1>0, Glue DEF All
      <4>4. Whole(toHost)
        BY <1>0, <3>2, <4>3, WholeBefore
      <4> QED
        BY <2>0, <3>2, <4>2, <4>4 DEF WireInv
    <3> QED
      BY <3>3, <3>4
  <2>3. CASE SelectTimeout \/ ReadTimeout
    <3>1. daemon.at # "more" /\ daemon'.at # "more" /\ toHost' = toHost /\ usbIn' = usbIn /\ Unsent' = Unsent
      BY <1>0, <2>3 DEF SelectTimeout, ReadTimeout, deviceVars, Daemons, Unsent
    <3>2. (All)' = All /\ Middle'
      BY <1>0, <3>1 DEF All, Middle, Complete
    <3> QED
      BY <1>0, <2>0, <3>2 DEF WireInv
  <2>4. CASE Read
    <3>1. usbIn # <<>> /\ toHost' = Append(toHost, Head(usbIn)) /\ usbIn' = Tail(usbIn) /\ device' = device /\ Unsent' = Unsent
          /\ daemon' = [at |-> IF Head(usbIn).left > 0 THEN "more" ELSE "select",
                        polling |-> FALSE, left |-> Head(usbIn).left]
      BY <2>4 DEF Read, Unsent
    <3>2. (All)' = All /\ toHost' # <<>> /\ toHost'[Len(toHost')] = usbIn[1]
      BY <1>0, <3>1, HandOn DEF All
    <3>3. Head(usbIn) = usbIn[1] /\ usbIn[1].left \in Nat
      BY <1>0, <3>1, PacketFacts
    <3>4. Middle'
      BY <3>1, <3>2, <3>3 DEF Middle, Complete
    <3> QED
      BY <1>0, <2>0, <3>2, <3>4 DEF WireInv
  <2>5. CASE ReadMore
    <3>1. usbIn # <<>> /\ toHost' = Append(toHost, Head(usbIn)) /\ usbIn' = Tail(usbIn) /\ device' = device /\ Unsent' = Unsent
          /\ daemon.at = "more"
          /\ daemon'.left = daemon.left - 1 /\ daemon'.at = IF daemon.left = 1 THEN "select" ELSE "more"
      BY <1>0, <2>5 DEF ReadMore, Daemons, Unsent
    <3>2. (All)' = All /\ toHost' # <<>> /\ toHost'[Len(toHost')] = usbIn[1]
      BY <1>0, <3>1, HandOn DEF All
    <3>3. toHost # <<>> /\ toHost[Len(toHost)].left = daemon.left /\ daemon.left > 0
      BY <1>0, <3>1 DEF Middle
    <3>4. usbIn[1].left = daemon.left - 1
      BY <1>0, <3>1, <3>3, NextPacket DEF All
    <3>5. daemon.left \in Nat
      BY <1>0, DaemonAssumption DEF Daemons
    <3>6. Middle'
      BY <3>1, <3>2, <3>3, <3>4, <3>5 DEF Middle, Complete
    <3> QED
      BY <1>0, <2>0, <3>2, <3>6 DEF WireInv
  <2> QED
    BY <1>2, <2>1, <2>2, <2>3, <2>4, <2>5 DEF DaemonStep
<1>3. CASE DeviceStep
  <2>0. TypeOK' /\ (~SendPacket => Unsent = <<>> /\ usbIn' = usbIn /\ Whole(Unsent'))
    BY <1>0, <1>3, DeviceType DEF Unsent
  <2>1. toHost' = toHost /\ daemon' = daemon
    BY <1>3 DEF DeviceStep, hostVars
  <2>2. Middle'
    BY <1>0, <2>1 DEF Middle, Complete
  <2>3. CASE SendPacket
    <3>1. Unsent # <<>> /\ usbIn' = Append(usbIn, Head(Unsent)) /\ Unsent' = Tail(Unsent)
      BY <1>0, <2>3 DEF SendPacket, Devices, Unsent
    <3>2. usbIn' \o Unsent' = usbIn \o Unsent
      BY <1>0, <3>1, HandOn
    <3>3. usbIn' \in Seq(Packets) /\ Unsent' \in Seq(Packets)
      BY <1>0, <3>1
    <3>4. (toHost \o usbIn') \o Unsent' = toHost \o (usbIn' \o Unsent')
      BY <1>0, <3>3, Glue, SMTT(40)
    <3>5. (toHost \o usbIn) \o Unsent = toHost \o (usbIn \o Unsent)
      BY <1>0, Glue
    <3>6. (All)' = All
      BY <2>1, <3>2, <3>4, <3>5 DEF All
    <3> QED
      BY <1>0, <2>0, <2>2, <3>6 DEF WireInv
  <2>4. CASE ~SendPacket
    <3>1. All = toHost \o usbIn /\ (All)' = toHost \o usbIn \o Unsent'
      BY <1>0, <2>0, <2>1, <2>4, Glue DEF All
    <3>2. toHost \o usbIn \in Seq(Packets) /\ Unsent' \in Seq(Packets)
      BY <1>0, <2>0, Types, Glue DEF TypeOK, Unsent
    <3>3. Whole((All)')
      BY <1>0, <2>0, <2>4, <3>1, <3>2, WholeConcat
    <3> QED
      BY <2>0, <2>2, <3>3 DEF WireInv
  <2> QED
    BY <2>3, <2>4
<1>4. CASE UNCHANGED vars
  <2>1. TypeOK'
    BY <1>0, <1>4 DEF vars, TypeOK
  <2> QED
    BY <1>0, <1>4, <2>1 DEF vars, WireInv, All, Unsent, Middle, Complete, Whole
<1> QED
  BY <1>1, <1>2, <1>3, <1>4 DEF Next, Dead, Quiet

-----------------------------------------------------------------------------
(* The steps of the channel.                                               *)

Line == Frames(All)

LEMMA Settled == WireInv => All \in Seq(Packets) /\ Whole(All)
<1> SUFFICES ASSUME WireInv
             PROVE  All \in Seq(Packets)
  BY DEF WireInv
<1>1. toHost \in Seq(Packets) /\ usbIn \in Seq(Packets) /\ Unsent \in Seq(Packets)
  BY Types DEF WireInv, Unsent
<1> QED
  BY <1>1, Glue DEF All

\* The device sends a frame, and nothing else of its steps is seen.
LEMMA DeviceSends ==
  ASSUME WireInv, DeviceStep
  PROVE  (All)' = All \/ \E id \in FrameIds : (Line)' = Append(Line, id)
<1>0. /\ TypeOK /\ toHost \in Seq(Packets) /\ usbIn \in Seq(Packets) /\ Unsent \in Seq(Packets)
      /\ usbOut \in Seq(Requests) /\ device \in Devices
  BY Types DEF WireInv, Unsent
<1>1. toHost' = toHost
  BY DEF DeviceStep, hostVars
<1>2. ASSUME NEW kind \in FrameKinds, NEW n \in 0 .. MaxCalls, NEW k \in 1 .. MaxPackets,
             Unsent = <<>>, usbIn' = usbIn, Unsent' = Frame(kind, n, k)
      PROVE  \E id \in FrameIds : (Line)' = Append(Line, id)
  <2> DEFINE f == Frame(kind, n, k)
             id == <<kind, n>>
  <2>1. f \in Seq(Packets) /\ Frames(f) = <<id>>
    BY FrameWhole, FrameIsOne
  <2>2. id \in FrameIds
    BY DEF FrameIds
  <2>3. All = toHost \o usbIn /\ (All)' = (toHost \o usbIn) \o f
    BY <1>0, <1>1, <1>2, Glue DEF All
  <2> HIDE DEF f, id
  <2>4. toHost \o usbIn \in Seq(Packets)
    BY <1>0
  <2>5. Frames((All)') = Frames(All) \o <<id>>
    BY <2>1, <2>3, <2>4, FramesConcat
  <2>6. Frames(All) \in Seq(FrameIds)
    BY <2>3, <2>4, FramesType
  <2>7. Frames((All)') = Append(Frames(All), id)
    BY <2>2, <2>5, <2>6, AppendIsConcat
  <2>8. (Line)' = Frames((All)')
    BY DEF Line
  <2> QED
    BY <2>2, <2>7, <2>8 DEF Line
<1>3. CASE Answer
  <2>1. Unsent = <<>> /\ usbIn' = usbIn /\ Head(usbOut).n \in 0 .. MaxCalls
    <3>1. Head(usbOut) \in Requests
      BY <1>0, <1>3 DEF Answer
    <3>2. Head(usbOut).n \in 0 .. MaxCalls
      BY <3>1 DEF Requests
    <3> QED
      BY <1>3, <3>2 DEF Answer, Unsent
  <2>2. PICK k \in 1 .. MaxPackets :
          device' = [device EXCEPT !.unsent = Frame("answer", Head(usbOut).n, k),
                                   !.running = @ \/ Head(usbOut).cmd = "go"]
    BY <1>3 DEF Answer
  <2>3. Unsent' = Frame("answer", Head(usbOut).n, k)
    BY <1>0, <2>2 DEF Unsent, Devices
  <2> QED
    BY <1>2, <2>1, <2>3 DEF FrameKinds
<1>4. CASE Stop \/ Info
  <2>1. Unsent = <<>> /\ usbIn' = usbIn /\ 0 \in 0 .. MaxCalls /\ 1 \in 1 .. MaxPackets
    BY <1>4, DaemonAssumption DEF Stop, Info, Unsent
  <2>2. Unsent' = Frame("stop", 0, 1) \/ Unsent' = Frame("info", 0, 1)
    BY <1>0, <1>4 DEF Stop, Info, Unsent, Devices
  <2> QED
    BY <1>2, <2>1, <2>2 DEF FrameKinds
<1>5. CASE SendPacket
  <2>1. Unsent # <<>> /\ usbIn' = Append(usbIn, Head(Unsent)) /\ Unsent' = Tail(Unsent)
    BY <1>0, <1>5 DEF SendPacket, Devices, Unsent
  <2>2. usbIn' \o Unsent' = usbIn \o Unsent
    BY <1>0, <2>1, HandOn
  <2>3. usbIn' \in Seq(Packets) /\ Unsent' \in Seq(Packets)
    BY <1>0, <2>1
  <2>4. (toHost \o usbIn') \o Unsent' = toHost \o (usbIn' \o Unsent')
    BY <1>0, <2>3, Glue, SMTT(40)
  <2>5. (toHost \o usbIn) \o Unsent = toHost \o (usbIn \o Unsent)
    BY <1>0, Glue
  <2> QED
    BY <1>1, <2>2, <2>4, <2>5 DEF All
<1> QED
  BY <1>3, <1>4, <1>5 DEF DeviceStep

\* The daemon hands packets on; a reset drops the frames that it has not begun
\* to hand over.
LEMMA DaemonResets ==
  ASSUME WireInv, DaemonStep
  PROVE  (All)' = All \/ \E n \in 0 .. Len(Line) : (Line)' = SubSeq(Line, 1, n)
<1>0. /\ TypeOK /\ toHost \in Seq(Packets) /\ usbIn \in Seq(Packets) /\ Unsent \in Seq(Packets)
      /\ device \in Devices
  BY Types DEF WireInv, Unsent
<1>1. CASE Forward \/ SelectTimeout \/ ReadTimeout \/ (Control /\ Head(ctrl) # "c")
  <2>1. toHost' = toHost /\ usbIn' = usbIn /\ Unsent' = Unsent
    BY <1>1 DEF Forward, SelectTimeout, ReadTimeout, Control, deviceVars, Unsent
  <2> QED
    BY <2>1 DEF All
<1>2. CASE Read \/ ReadMore
  <2>1. usbIn # <<>> /\ toHost' = Append(toHost, Head(usbIn)) /\ usbIn' = Tail(usbIn) /\ Unsent' = Unsent
    BY <1>2 DEF Read, ReadMore, Unsent
  <2> QED
    BY <1>0, <2>1, HandOn DEF All
<1>3. CASE Control /\ Head(ctrl) = "c"
  <2>1. toHost' = toHost /\ usbIn' = <<>> /\ Unsent' = <<>>
    BY <1>0, <1>3 DEF Control, Devices, Unsent
  <2>2. (All)' = toHost
    BY <1>0, <2>1 DEF All
  <2> DEFINE rest == usbIn \o Unsent
             f == Frames(toHost)
             g == Frames(rest)
  <2>3. All = toHost \o rest /\ rest \in Seq(Packets)
    BY <1>0, Glue DEF All
  <2>4. Line = f \o g /\ f \in Seq(FrameIds) /\ g \in Seq(FrameIds)
    <3> HIDE DEF rest
    <3> QED
      BY <1>0, <2>3, FramesConcat, FramesType DEF Line
  <2>5. (Line)' = f
    <3>1. (Line)' = Frames((All)')
      BY DEF Line
    <3> QED
      BY <2>2, <3>1
  <2> HIDE DEF f, g
  <2>6. f = SubSeq(f \o g, 1, Len(f)) /\ Len(f) \in 0 .. Len(f \o g)
    BY <2>4
  <2> QED
    BY <2>4, <2>5, <2>6
<1> QED
  BY <1>1, <1>2, <1>3 DEF DaemonStep

\* The driver takes the first frame.
LEMMA HostReceives ==
  ASSUME WireInv, HostStep
  PROVE  (All)' = All \/ (Line # <<>> /\ (Line)' = Tail(Line))
<1>1. UNCHANGED <<daemon, usbIn, device>>
  BY DEF HostStep, deviceVars
<1>2. CASE CallReturns \/ CallDiscards \/ PollReturns
  <2>1. FrameReady /\ toHost' = AfterFrame
    BY <1>2 DEF CallReturns, CallDiscards, PollReturns, Answered
  <2>2. All # <<>> /\ (All)' = SubSeq(All, All[1].left + 2, Len(All))
    BY <1>1, <2>1, TakeKeeps
  <2>3. Frames(All) # <<>> /\ Frames((All)') = Tail(Frames(All))
    BY <2>2, Settled, FramesAfter
  <2>4. (Line)' = Frames((All)')
    BY DEF Line
  <2> QED
    BY <2>3, <2>4 DEF Line
<1>3. CASE (\E c \in Commands : StartCall(c)) \/ Retry \/ Resend \/ PollStarts
  <2>1. toHost' = toHost /\ Unsent' = Unsent
    BY <1>1, <1>3 DEF StartCall, Retry, Resend, PollStarts, Unsent
  <2> QED
    BY <1>1, <2>1 DEF All
<1> QED
  BY <1>2, <1>3 DEF HostStep, Waiting

\* Every step of driver, daemon and device is one of the channel or none.
LEMMA StepsOfChannel ==
  ASSUME WireInv, [Next]_vars
  PROVE  \/ (Line)' = Line
         \/ \E id \in FrameIds : (Line)' = Append(Line, id)
         \/ Line # <<>> /\ (Line)' = Tail(Line)
         \/ \E n \in 0 .. Len(Line) : (Line)' = SubSeq(Line, 1, n)
<1>1. CASE (All)' = All
  <2>1. (Line)' = Frames((All)')
    BY DEF Line
  <2> QED
    BY <1>1, <2>1 DEF Line
<1>2. CASE HostStep
  BY <1>1, <1>2, HostReceives
<1>3. CASE DaemonStep
  BY <1>1, <1>3, DaemonResets
<1>4. CASE DeviceStep
  BY <1>1, <1>4, DeviceSends
<1>5. CASE UNCHANGED vars
  <2>1. (All)' = All
    BY <1>5 DEF vars, All, Unsent
  <2> QED
    BY <1>1, <2>1
<1> QED
  BY <1>2, <1>3, <1>4, <1>5 DEF Next, Dead, Quiet

-----------------------------------------------------------------------------
(* The theorems.                                                           *)

\* What is between the device and the driver, and where the daemon is in it,
\* for frames of any number of packets.
THEOREM WireInvariant == Spec => []WireInv
<1>1. WireInv /\ [Next]_vars => WireInv'
  BY WireNext
<1> QED
  BY <1>1, InitWire, PTL DEF Spec

\* usb_daemon counts the packets of a frame, doJtagCommand its attempts: none
\* of them leaves its range, whatever is asked for and sent.
THEOREM TypeCorrect == Spec => []TypeOK
<1>1. WireInv => TypeOK
  BY DEF WireInv
<1> QED
  BY <1>1, WireInvariant, PTL

\* usb_daemon reads the rest of a frame before it turns to anything else, so
\* that endpoint resets, requests and other frames fall between frames.
THEOREM FramesWhole == Spec => []WholeFrames
<1>1. WireInv => WholeFrames
  <2> SUFFICES ASSUME WireInv
               PROVE  WholeFrames
    OBVIOUS
  <2>1. Whole(All)
    BY DEF WireInv
  <2>2. All = toHost \o usbIn \o device.unsent
    BY DEF All, Unsent
  <2>3. daemon.at # "more" => toHost = <<>> \/ toHost[Len(toHost)].left = 0
    BY DEF WireInv, Middle, Complete
  <2>4. \A i \in 1 .. Len(All) :
          /\ ~All[i].first => i > 1 /\ All[i - 1].left = All[i].left + 1
          /\ All[i].left > 0 => i < Len(All) /\ ~All[i + 1].first
    BY <2>1 DEF Whole
  <2> HIDE DEF All
  <2> QED
    BY <2>2, <2>3, <2>4, Zenon DEF WholeFrames
<1> QED
  BY <1>1, WireInvariant, PTL

\* The two processes, their socket pairs and the endpoints keep what
\* FrameChannel promises the frame layer: frames reach recvFrame in order and
\* none twice, and a reset of the endpoints drops the most recent ones, whole.
THEOREM ChannelImplemented == Spec => ImplementsChannel
<1>0. Line = Frames(toHost \o usbIn \o device.unsent)
  BY DEF Line, All, Unsent
<1>1. Init => Channel!Init
  <2>1. Init => All = <<>>
    BY DEF Init, All, Unsent
  <2>2. Init => Line = <<>>
    BY <2>1, FramesEmpty DEF Line
  <2> QED
    BY <1>0, <2>2 DEF Channel!Init
<1>2. WireInv /\ [Next]_vars => [Channel!Next]_Line
  <2> SUFFICES ASSUME WireInv, [Next]_vars
               PROVE  [Channel!Next]_Line
    OBVIOUS
  <2>1. CASE \E id \in FrameIds : (Line)' = Append(Line, id)
    BY <1>0, <2>1 DEF Channel!Next, Channel!Send, FrameIds, Line, All, Unsent
  <2>2. CASE Line # <<>> /\ (Line)' = Tail(Line)
    BY <1>0, <2>2 DEF Channel!Next, Channel!Receive, Line, All, Unsent
  <2>3. CASE \E n \in 0 .. Len(Line) : (Line)' = SubSeq(Line, 1, n)
    BY <1>0, <2>3 DEF Channel!Next, Channel!Reset, Line, All, Unsent
  <2> QED
    BY <2>1, <2>2, <2>3, StepsOfChannel
<1>3. WireInv /\ [Next]_vars => [Channel!Next]_(Frames(toHost \o usbIn \o device.unsent))
  BY <1>2 DEF Line, All, Unsent
<1> QED
  BY <1>1, <1>3, WireInvariant, PTL DEF Spec, ImplementsChannel, Channel!Spec

=============================================================================
