----------------------------- MODULE MCComposer -----------------------------
(* One page over a conversation that holds a turn when the page is loaded. *)
EXTENDS Composer, TLC

CONSTANTS t1, t2, t3

TwoTurns == {t1, t2}
ThreeTurns == {t1, t2, t3}
MCHistory == <<Prompt(NoTurn), Reply(NoTurn, 1, TRUE)>>
=============================================================================
