--------------------------- MODULE MCChatSession ----------------------------
(* One session over a loaded exchange, with callers that are not gated.      *)
EXTENDS ChatSession, TLC

CONSTANTS t1, t2, t3

MCTurns == {t1, t2, t3}

\* A prompt and its reply are loaded from the store.
MCHistory == <<Prompt(NoTurn), Reply(NoTurn, 1, TRUE)>>

\* nil, an index no slice has, each message of the history, and its end.
MCReplaceFroms == {NoIndex, -1, 0, 1, 2}

\* The turns are interchangeable: no property of this run names one.
MCSymmetry == Permutations(MCTurns)
=============================================================================
