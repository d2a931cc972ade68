---------------------------- MODULE FrameChannel -----------------------------
(***************************************************************************)
(* What the USB connection promises the frame layer above it: frames reach *)
(* the host in the order the emulator sent them, each at most once; an     *)
(* endpoint reset drops the most recent ones.  This is the line Jtag2Link  *)
(* assumes; UsbDaemon implements it.                                       *)
(***************************************************************************)
EXTENDS Sequences, Naturals

CONSTANT Kinds

VARIABLE q   \* the frames on their way to the host

Init == q = <<>>

Send == \E k \in Kinds : q' = Append(q, k)

Receive == q # <<>> /\ q' = Tail(q)

Reset == \E n \in 0 .. Len(q) : q' = SubSeq(q, 1, n)

Next == Send \/ Receive \/ Reset

Spec == Init /\ [][Next]_q
=============================================================================
