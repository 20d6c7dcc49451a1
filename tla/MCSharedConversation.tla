------------------------ MODULE MCSharedConversation ------------------------
(* Two cookies of a user in the server, and the CLI in a process of its own. *)
EXTENDS SharedConversation, TLC

CONSTANTS t1, t2, t3, w1, w2, cli, server, shell

ThreeTurns == {t1, t2, t3}
AllSessions == {w1, w2, cli}
AllProcesses == {server, shell}
MCProcessOf == [s \in Sessions |-> IF s = cli THEN shell ELSE server]

MCHistory == <<Prompt(NoTurn), Reply(NoTurn, 1, TRUE)>>

\* nil, the first prompt, and the positions behind one and two turns.
MCReplaceFroms == {NoIndex, 0, 2, 4}
=============================================================================
