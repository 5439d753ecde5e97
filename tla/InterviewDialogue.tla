-------------------------- MODULE InterviewDialogue --------------------------
(***************************************************************************)
(* The conversation a candidate takes part in, as the transcript shows it: *)
(* ask a main question, wait, get an answer, then follow up, move on or    *)
(* close.  Main questions come in order, the first one (the                *)
(* self-introduction) is never followed up, follow-ups per question are    *)
(* limited, and nothing is said after the closing.                         *)
(***************************************************************************)
EXTENDS Integers

CONSTANTS MaxMain,     \* main questions of the longest interview
          MaxFollowUps \* follow-ups on one main question

VARIABLES phase,   \* lobby, waiting (for an answer), deciding, over, gone
          main,    \* main questions asked
          follow   \* follow-ups since the last main question

Init == phase = "lobby" /\ main = 0 /\ follow = 0

(* From the lobby, after an answer, or instead of one (skip). *)
Ask ==
    /\ phase \in {"lobby", "waiting", "deciding"}
    /\ phase = "lobby" <=> main = 0
    /\ main < MaxMain
    /\ phase' = "waiting" /\ main' = main + 1 /\ follow' = 0

Answer ==
    /\ phase = "waiting"
    /\ phase' = "deciding"
    /\ UNCHANGED <<main, follow>>

FollowUp ==
    /\ phase = "deciding"
    /\ main > 1
    /\ follow < MaxFollowUps
    /\ phase' = "waiting" /\ follow' = follow + 1
    /\ UNCHANGED main

Close ==
    /\ phase = "deciding"
    /\ phase' = "over"
    /\ UNCHANGED <<main, follow>>

(* The session and its transcript are deleted. *)
Remove ==
    /\ phase # "gone"
    /\ phase' = "gone" /\ main' = 0 /\ follow' = 0

Next == Ask \/ Answer \/ FollowUp \/ Close \/ Remove

Spec == Init /\ [][Next]_<<phase, main, follow>>
==============================================================================
