------------------------- MODULE MCJtag2Breakpoints --------------------------
(***************************************************************************)
(* Requests for the instances of Jtag2Breakpoints that TLC checks.         *)
(***************************************************************************)
EXTENDS Jtag2Breakpoints

Code(addresses) == {[type |-> "CODE", address |-> a, length |-> 1] : a \in addresses}

\* Four code breakpoints: one more than there are hardware slots.
FourCode == Code({2, 4, 6, 8})

\* Addresses are only compared for equality, and with room for every request an
\* entry keeps its address: it is enough to look at tables filled in order.
InOrder == \A i, j \in Live(bp) : i < j => bp[i].address < bp[j].address
=============================================================================
