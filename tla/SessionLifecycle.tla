-------------------------- MODULE SessionLifecycle --------------------------
(***************************************************************************)
(* What the backend promises about one session to everything outside its   *)
(* handlers: the status walks draft, ready, in_progress, completed, once;  *)
(* a score appears only on a completed session, and once it is there it is *)
(* replaced only by an explicit retry; a deletion is final.                *)
(***************************************************************************)
EXTENDS Integers

CONSTANT MayRescore  \* do retries of the report occur?

VARIABLES phase, score

NoScore == -1

Init ==
    /\ phase \in {"draft", "ready"}
    /\ score = NoScore

Advance(from, to) == phase = from /\ phase' = to /\ UNCHANGED score

Prepare == Advance("draft", "ready")
Open    == Advance("ready", "in_progress")
Close   == Advance("in_progress", "completed")

Score ==
    /\ phase = "completed"
    /\ score = NoScore \/ MayRescore
    /\ score' \in Nat
    /\ UNCHANGED phase

Remove ==
    /\ phase # "deleted"
    /\ phase' = "deleted"
    /\ score' = NoScore

Next == Prepare \/ Open \/ Close \/ Score \/ Remove

Spec == Init /\ [][Next]_<<phase, score>>
==============================================================================
