----------------------------- MODULE Transcript -----------------------------
(***************************************************************************)
(* The messages of a conversation, as chat.Session, the store and the web  *)
(* server exchange them: a prompt of the user, then the assistant's reply. *)
(* The text of a message is abstracted to the turn that produced it, the   *)
(* number of pieces of output the reply holds, and whether the reply       *)
(* carries a completion time.                                              *)
(***************************************************************************)
EXTENDS Integers, Sequences

CONSTANTS
    Turns,      \* the turns a caller may start
    NoTurn,     \* the turn of a message stored before the model starts
    NoIndex,    \* SendOptions.ReplaceFrom = nil
    History,    \* the messages the store holds when the model starts
    MaxParts    \* bound: pieces of output one reply may hold

Message == [role : {"user", "assistant"}, turn : Turns \cup {NoTurn},
            parts : Nat, completed : BOOLEAN]

Prompt(t) == [role |-> "user", turn |-> t, parts |-> 1, completed |-> FALSE]

Reply(t, parts, completed) ==
    [role |-> "assistant", turn |-> t, parts |-> parts, completed |-> completed]

(***************************************************************************)
(* Every prompt is followed by the reply to it, and nothing else is there. *)
(***************************************************************************)
IsTranscript(msgs) ==
    /\ Len(msgs) % 2 = 0
    /\ \A i \in 1..Len(msgs) : (msgs[i].role = "user") <=> (i % 2 = 1)
    /\ \A i \in 1..Len(msgs) :
          i % 2 = 1 => msgs[i + 1].turn = msgs[i].turn

\* Mutant of ValidReplaceFrom: the role of the message is not looked at.
AnyIndexReplaces(msgs, from) == from = NoIndex \/ from \in 0..Len(msgs)

(***************************************************************************)
(* replaceFromIndex: nil appends; an index must name a prompt or the end.  *)
(***************************************************************************)
ValidReplaceFrom(msgs, from) ==
    \/ from = NoIndex
    \/ /\ from \in 0..Len(msgs)
       /\ from < Len(msgs) => msgs[from + 1].role = "user"

KeepFor(msgs, from) == IF from = NoIndex THEN Len(msgs) ELSE from

\* Mutant of WithTurn: the tail a turn replaces is kept.
TailIsKept(msgs, replace, keep, t, reply) == msgs \o <<Prompt(t), reply>>

(***************************************************************************)
(* What a committed turn leaves: the first `keep' messages when the turn   *)
(* replaces a tail, all of them when it appends, then the turn itself.     *)
(***************************************************************************)
WithTurn(msgs, replace, keep, t, reply) ==
    (IF replace THEN SubSeq(msgs, 1, keep) ELSE msgs) \o <<Prompt(t), reply>>

ASSUME TranscriptAssumption ==
    /\ NoTurn \notin Turns
    /\ NoIndex \notin Int
    /\ MaxParts \in Nat
    /\ History \in Seq(Message)
    /\ IsTranscript(History)
    /\ \A i \in 1..Len(History) : History[i].turn = NoTurn
=============================================================================
