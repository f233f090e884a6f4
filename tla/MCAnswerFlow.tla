---------------------------- MODULE MCAnswerFlow ----------------------------
(* AnswerFlow with three answers about two attributes. *)
EXTENDS AnswerFlow

CONSTANTS a, b

MCAttribute == {a, b}
MCTopic == <<a, b, a>>
=============================================================================
