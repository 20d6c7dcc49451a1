-------------------------- MODULE ConversationLog ---------------------------
(***************************************************************************)
(* What a chat session promises of the stored conversation: it changes by  *)
(* whole turns only, each turn changes it at most once, and a turn that    *)
(* was given up never changes it later.                                    *)
(***************************************************************************)
EXTENDS Transcript

VARIABLES
    log,        \* the stored messages
    pending     \* the turns that may still be written

logVars == <<log, pending>>

LogInit == log = History /\ pending = Turns

\* One turn is written after a whole number of turns that are kept.
CommitTurn(t) ==
    /\ t \in pending
    /\ \E keep \in 0..Len(log), parts \in 0..MaxParts, completed \in BOOLEAN :
          /\ keep % 2 = 0
          /\ log' = SubSeq(log, 1, keep) \o <<Prompt(t), Reply(t, parts, completed)>>
    /\ pending' = pending \ {t}

GiveUpTurn(t) ==
    /\ t \in pending
    /\ pending' = pending \ {t}
    /\ UNCHANGED log

LogNext == \E t \in Turns : CommitTurn(t) \/ GiveUpTurn(t)

LogSpec == LogInit /\ [][LogNext]_logVars
=============================================================================
