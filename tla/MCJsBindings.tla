---------------------------- MODULE MCJsBindings -----------------------------
(***************************************************************************)
(* Requests for the instance of JsBindings that TLC checks.                *)
(***************************************************************************)
EXTENDS JsBindings

Request(ty, a) == [type |-> ty, address |-> a, length |-> 1]

\* Code breakpoints and watchpoints of a byte.
CodeAndWatches == {Request("CODE", 2), Request("CODE", 4),
                   Request("WRITE_DATA", 2), Request("READ_DATA", 2)}
=============================================================================
