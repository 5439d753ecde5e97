----------------------------- MODULE DecideRules -----------------------------
(***************************************************************************)
(* The rules that turn the language model's proposal into the interview's  *)
(* next step: backend/internal/interview/decide.go, with the limits of     *)
(* limits.go and the persona table of llm/prompts.go.  Elapsed time is     *)
(* abstracted to "the 60 minutes are over" (late), the texts to nothing.   *)
(***************************************************************************)
EXTENDS Integers

CONSTANTS
    ModelActions,  \* what the model may answer; "" stands for a failed call
    MaxTurns,      \* MaxTurnsApprox: 30 in the code
    PersonaLimit   \* llm.FollowUpLimit(persona): 1, 2 or 4 in the code

(* "other" is any string outside the contract: the answer is unmarshalled *)
(* into a plain string and never compared with the three legal actions.   *)
Actions == {"follow_up", "next_question", "finish", "", "other"}

ASSUME DecideAssumption ==
    /\ ModelActions \subseteq Actions
    /\ MaxTurns \in Nat \ {0}
    /\ PersonaLimit \in Int

(* MaxFollowUpsPerQuestion, used when a persona has no positive limit. *)
LegacyLimit == 2

FollowUpCap == IF PersonaLimit <= 0 THEN LegacyLimit ELSE PersonaLimit

(* in: the session's question count, the 0-based current question, the    *)
(* follow-ups already asked on it, the turns counted so far, the clock    *)
(* and the model's action.                                                *)
IsLast(in) == in.total > 0 /\ in.qi >= in.total - 1

TurnsOverByIndex(in) == in.qi >= MaxTurns  \* mutant: counts questions
TurnsOver(in) == in.tc >= MaxTurns

OneTooMany(in) == in.fu > FollowUpCap  \* mutant: off by one
FollowUpsOver(in) == in.fu >= FollowUpCap

ModelFirst(in) ==  \* mutant: the limits only replace a failed call
    IF in.action # "" THEN in.action
    ELSE IF TurnsOver(in) \/ in.late \/ IsLast(in) THEN "finish"
    ELSE "next_question"

(* The hard limits come first, then the follow-up limit; a failed call    *)
(* and "next_question" move on, or finish on the last question.  Anything *)
(* else the model said is passed through.                                 *)
ApplyDecideRules(in) ==
    IF TurnsOver(in) \/ in.late THEN "finish"
    ELSE IF FollowUpsOver(in) THEN "next_question"
    ELSE IF in.action \in {"", "next_question"}
         THEN IF IsLast(in) THEN "finish" ELSE "next_question"
         ELSE in.action
==============================================================================
