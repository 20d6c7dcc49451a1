----------------------------- MODULE MCTurnJobs -----------------------------
(* One browser session with create and abort requests that race.             *)
EXTENDS TurnJobs, TLC

CONSTANTS t1, t2, a1, a2

TwoTurns == {t1, t2}
OneAbort == {a1}
TwoAborts == {a1, a2}

\* A prompt and its reply are loaded from the store.
MCHistory == <<Prompt(NoTurn), Reply(NoTurn, 1, TRUE)>>

\* nil, the first prompt, a reply (refused), and the end of the history.
MCReplaceFroms == {NoIndex, 0, 1, 2}

AppendOnly == {NoIndex}
AppendOrRestart == {NoIndex, 0}

\* Turns and requests are interchangeable: no safety property names one.
Symmetry2 == Permutations(TwoTurns) \cup Permutations(TwoAborts)
=============================================================================
