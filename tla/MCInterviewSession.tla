-------------------------- MODULE MCInterviewSession --------------------------
(* Instances of InterviewSession for TLC. *)
EXTENDS InterviewSession, TLC

CONSTANTS c1, c2, h1, h2

(* What the HTTP callers of the runs may issue. *)
NoRetry     == [c \in {h1} |-> {"start", "end", "delete"}]
Everything  == [c \in {h1} |-> HttpOps]
NoCallers   == [c \in {} |-> {}]
TwoStarters == [c \in {h1, h2} |-> {"start"}]
StartAndEnd == [c \in {h1, h2} |-> IF c = h1 THEN {"start", "end"}
                                   ELSE {"start"}]

Tabs == Permutations({c1, c2})
==============================================================================
