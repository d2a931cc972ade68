---------------------------- MODULE MCGdbRemote ----------------------------
(***************************************************************************)
(* Sets of commands for GdbRemote.                                         *)
(***************************************************************************)
EXTENDS GdbRemote

Do(op) == [op |-> op]
InsertAt(a) == [op |-> "insert", addr |-> a]
RemoveAt(a) == [op |-> "remove", addr |-> a]
WriteTo(a, n) == [op |-> "write", addr |-> a, len |-> n]

SessionCommands ==
  {Do(op) : op \in {"query", "kill", "reset", "hup", "step", "cont", "detach", "badtype"}}
  \cup {InsertAt(2), RemoveAt(2), WriteTo(0, 1), WriteTo(1, 1)}

\* A program in two parts that meet at an odd address.
LoadCommands == {WriteTo(0, 3), WriteTo(3, 1)}
=============================================================================
