---------------------------- MODULE RequestReply ----------------------------
(***************************************************************************)
(* What the command layer of the mkII driver promises its callers: a call  *)
(* sends one request after another, the emulator performs a request any    *)
(* number of times (a retry may make it do so twice), and an answer is     *)
(* handed to the caller only if the emulator gave it to the request of the *)
(* exchange that is waiting for one.  An answer whose end is lost on the   *)
(* line may be read as any other, but is handed over only where the        *)
(* emulator gave one.  An exchange may also end with no answer.  Sequence  *)
(* numbers, frames, retries and timeouts are details of Jtag2Link, which   *)
(* implements this module.                                                 *)
(***************************************************************************)
CONSTANT Responses

VARIABLES
  waiting,   \* an exchange is open
  answers,   \* the answers the emulator has given in this exchange
  result     \* the answer handed over last, or "none", and whether it is whole

vars == <<waiting, answers, result>>

Init == /\ waiting = FALSE
        /\ answers = {}
        /\ result = [rsp |-> "none", intact |-> TRUE]

Open == ~waiting /\ waiting' = TRUE /\ answers' = {} /\ UNCHANGED result

Perform == /\ waiting
           /\ \E r \in Responses : answers' = answers \cup {r}
           /\ UNCHANGED <<waiting, result>>

\* The answer ends the exchange; the caller is done, or tries again at once.
Answer == /\ waiting
          /\ \/ \E r \in answers : result' = [rsp |-> r, intact |-> TRUE]
             \/ /\ answers # {}
                /\ \E r \in Responses : result' = [rsp |-> r, intact |-> FALSE]
          /\ answers' = {}
          /\ waiting' \in BOOLEAN

GiveUp == /\ waiting
          /\ waiting' = FALSE
          /\ answers' = {}
          /\ UNCHANGED result

Next == Open \/ Perform \/ Answer \/ GiveUp

Spec == Init /\ [][Next]_vars
=============================================================================
