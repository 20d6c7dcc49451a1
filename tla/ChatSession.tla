---------------------------- MODULE ChatSession -----------------------------
(***************************************************************************)
(* internal/chat/service.go: one Session, its cached messages, its         *)
(* in-flight flag, the conversation it writes in the store, and the        *)
(* TurnStream of every turn a caller sends.                                *)
(*                                                                         *)
(* An action is one critical section of Session.mu with the caller's local *)
(* steps around it. Callers run concurrently; each follows the protocol of *)
(* its one TurnStream: Send, then Next until an error or until it stops,   *)
(* then perhaps CommitPartial, then Close; CommitStopped only when Send    *)
(* returned an error.                                                      *)
(***************************************************************************)
EXTENDS Transcript

CONSTANTS
    ReplaceFroms,   \* the values of SendOptions.ReplaceFrom callers pass
    StoreMayFail    \* whether a write of the store may return an error

ASSUME SessionAssumption ==
    /\ ReplaceFroms \subseteq Int \cup {NoIndex}
    /\ StoreMayFail \in BOOLEAN

VARIABLES
    messages,   \* Session.messages
    stored,     \* the rows of the conversation in the store, by sequence
    inFlight,   \* Session.inFlight
    phase,      \* where the caller of each turn is in the protocol
    stream      \* the fields of each turn's TurnStream

sessionVars == <<messages, stored, inFlight, phase, stream>>

Phases == {"idle", "opening", "open", "ended", "refused", "closed"}

\* How the telemetry counted a turn: ChatTurnCompleted, ...Cancelled, ...Failed.
Records == {"none", "completed", "cancelled", "failed"}

\* The fields of a TurnStream; `sent' is the kept messages client.Stream was given.
StreamFields ==
    [replace : BOOLEAN, keep : Nat, sent : Seq(Message), parts : 0..MaxParts,
     completed : BOOLEAN, finalized : BOOLEAN, recorded : Records]

TurnStream(replace, keep, sent) ==
    [replace |-> replace, keep |-> keep, sent |-> sent, parts |-> 0,
     completed |-> FALSE, finalized |-> FALSE, recorded |-> "none"]

SessionInit ==
    /\ messages = History
    /\ stored = History
    /\ inFlight = FALSE
    /\ phase = [t \in Turns |-> "idle"]
    /\ stream = [t \in Turns |-> TurnStream(FALSE, 0, <<>>)]

----------------------------------------------------------------------------
(* Helpers of Session and TurnStream. *)

\* recordCompleted, recordCancelled, recordFailed: the first one counts.
Recorded(s, outcome) == IF s.recorded = "none" THEN outcome ELSE s.recorded

Completed(s) == [s EXCEPT !.completed = TRUE]

\* The stream is finalized, by a commit or by abort, and counted.
Over(s, outcome) ==
    [s EXCEPT !.finalized = TRUE, !.recorded = Recorded(s, outcome)]

\* TurnStream.abort: release the session unless the stream was finalized.
InFlightAfterAbort(s) == inFlight /\ s.finalized

\* appendOrReplaceTailLocked: the store first, and the cache when it took it.
StoreTakes(replace, keep) == replace => keep <= Len(stored)

\* Mutant of Commit: the cached tail is not dropped.
CommitKeepsCachedTail(t, replace, keep, reply) ==
    /\ StoreTakes(replace, keep)
    /\ stored' = WithTurn(stored, replace, keep, t, reply)
    /\ messages' = WithTurn(messages, FALSE, keep, t, reply)
    /\ inFlight' = FALSE

Commit(t, replace, keep, reply) ==
    /\ StoreTakes(replace, keep)
    /\ stored' = WithTurn(stored, replace, keep, t, reply)
    /\ messages' = WithTurn(messages, replace, keep, t, reply)
    /\ inFlight' = FALSE

CommitFails(replace, keep) ==
    /\ StoreMayFail \/ ~StoreTakes(replace, keep)
    /\ UNCHANGED <<messages, stored>>

----------------------------------------------------------------------------
(* Send *)

\* Send returns ErrTurnInProgress or ErrInvalidReplaceFrom: nothing was started.
SendRejected(t, from) ==
    /\ phase[t] = "idle"
    /\ inFlight \/ ~ValidReplaceFrom(messages, from)
    /\ phase' = [phase EXCEPT ![t] = "refused"]
    /\ UNCHANGED <<messages, stored, inFlight, stream>>

\* Send takes the session and hands the kept messages to client.Stream.
SendAccepted(t, from) ==
    /\ phase[t] = "idle"
    /\ ~inFlight
    /\ ValidReplaceFrom(messages, from)
    /\ inFlight' = TRUE
    /\ phase' = [phase EXCEPT ![t] = "opening"]
    /\ LET keep == KeepFor(messages, from)
       IN  stream' = [stream EXCEPT
                        ![t] = TurnStream(from # NoIndex, keep, SubSeq(messages, 1, keep))]
    /\ UNCHANGED <<messages, stored>>

StreamOpened(t) ==
    /\ phase[t] = "opening"
    /\ phase' = [phase EXCEPT ![t] = "open"]
    /\ UNCHANGED <<messages, stored, inFlight, stream>>

\* Mutant of StreamRefused: the error path forgets to release the session.
StreamRefusedHeld(t) ==
    /\ phase[t] = "opening"
    /\ phase' = [phase EXCEPT ![t] = "refused"]
    /\ stream' = [stream EXCEPT ![t].recorded = "failed"]
    /\ UNCHANGED <<messages, stored, inFlight>>

\* client.Stream returns an error: counted as failed, whatever the error is.
StreamRefused(t) ==
    /\ phase[t] = "opening"
    /\ phase' = [phase EXCEPT ![t] = "refused"]
    /\ inFlight' = FALSE
    /\ stream' = [stream EXCEPT ![t].recorded = "failed"]
    /\ UNCHANGED <<messages, stored>>

----------------------------------------------------------------------------
(* TurnStream.Next *)

\* A text or reasoning delta, or a finished output item, grows the reply.
NextPart(t) ==
    /\ phase[t] = "open"
    /\ ~stream[t].completed
    /\ stream[t].parts < MaxParts
    /\ stream' = [stream EXCEPT ![t].parts = @ + 1]
    /\ UNCHANGED <<messages, stored, inFlight, phase>>

\* The completed event: the turn is written before the caller hears of it.
\* (A second completed event finds the stream finalized and does nothing.)
NextCompletes(t) ==
    /\ phase[t] = "open"
    /\ ~stream[t].finalized
    /\ Commit(t, stream[t].replace, stream[t].keep, Reply(t, stream[t].parts, TRUE))
    /\ stream' = [stream EXCEPT ![t] = Over(Completed(stream[t]), "completed")]
    /\ UNCHANGED phase

\* Mutant of NextCompletesUnsaved: the turn is counted before it is written.
NextCompletesCountedFirst(t) ==
    /\ phase[t] = "open"
    /\ ~stream[t].finalized
    /\ CommitFails(stream[t].replace, stream[t].keep)
    /\ inFlight' = InFlightAfterAbort(stream[t])
    /\ stream' = [stream EXCEPT ![t] = Over(Completed(stream[t]), "completed")]
    /\ phase' = [phase EXCEPT ![t] = "ended"]

\* The completed event when the store refuses the turn: Next returns its error.
NextCompletesUnsaved(t) ==
    /\ phase[t] = "open"
    /\ ~stream[t].finalized
    /\ CommitFails(stream[t].replace, stream[t].keep)
    /\ inFlight' = InFlightAfterAbort(stream[t])
    /\ stream' = [stream EXCEPT ![t] = Over(Completed(stream[t]), "failed")]
    /\ phase' = [phase EXCEPT ![t] = "ended"]

\* Mutant of NextFails: the session is released by Close only.
NextFailsHeld(t) ==
    /\ phase[t] = "open"
    /\ stream' = [stream EXCEPT ![t].recorded = Recorded(stream[t], "failed")]
    /\ phase' = [phase EXCEPT ![t] = "ended"]
    /\ UNCHANGED <<messages, stored, inFlight>>

\* The provider's stream ends early or reports an error (io.EOF, a transport
\* error, an error event): the stream is aborted at once.
NextFails(t) ==
    /\ phase[t] = "open"
    /\ inFlight' = InFlightAfterAbort(stream[t])
    /\ stream' = [stream EXCEPT ![t] = Over(stream[t], "failed")]
    /\ phase' = [phase EXCEPT ![t] = "ended"]
    /\ UNCHANGED <<messages, stored>>

\* context.Canceled: the stream stays open to a CommitPartial.
NextCancelled(t) ==
    /\ phase[t] = "open"
    /\ stream' = [stream EXCEPT ![t].recorded = Recorded(stream[t], "cancelled")]
    /\ phase' = [phase EXCEPT ![t] = "ended"]
    /\ UNCHANGED <<messages, stored, inFlight>>

----------------------------------------------------------------------------
(* CommitPartial, CommitStopped and Close *)

\* Mutant of PartialCommitted: the stream is not marked as finalized.
PartialCommittedAgain(t) ==
    /\ phase[t] = "ended"
    /\ ~stream[t].finalized
    /\ Commit(t, stream[t].replace, stream[t].keep,
              Reply(t, stream[t].parts, stream[t].completed))
    /\ UNCHANGED <<phase, stream>>

\* finalize(true) on a stream that was not finalized: the partial reply is kept.
PartialCommitted(t) ==
    /\ phase[t] = "ended"
    /\ ~stream[t].finalized
    /\ Commit(t, stream[t].replace, stream[t].keep,
              Reply(t, stream[t].parts, stream[t].completed))
    /\ stream' = [stream EXCEPT ![t].finalized = TRUE]
    /\ UNCHANGED phase

\* finalize(true) on a finalized stream returns nil and writes nothing.
PartialIgnored(t) ==
    /\ phase[t] = "ended"
    /\ stream[t].finalized
    /\ UNCHANGED sessionVars

PartialUnsaved(t) ==
    /\ phase[t] = "ended"
    /\ ~stream[t].finalized
    /\ CommitFails(stream[t].replace, stream[t].keep)
    /\ UNCHANGED <<inFlight, phase, stream>>

\* CommitStopped does not ask who holds the session, and releases it.
StoppedCommitted(t, from) ==
    /\ phase[t] = "refused"
    /\ ValidReplaceFrom(messages, from)
    /\ Commit(t, from # NoIndex, KeepFor(messages, from), Reply(t, 0, FALSE))
    /\ phase' = [phase EXCEPT ![t] = "closed"]
    /\ UNCHANGED stream

StoppedUnsaved(t, from) ==
    /\ phase[t] = "refused"
    /\ \/ ~ValidReplaceFrom(messages, from) /\ UNCHANGED <<messages, stored>>
       \/ CommitFails(from # NoIndex, KeepFor(messages, from))
    /\ phase' = [phase EXCEPT ![t] = "closed"]
    /\ UNCHANGED <<inFlight, stream>>

Close(t) ==
    /\ phase[t] \in {"open", "ended"}
    /\ inFlight' = InFlightAfterAbort(stream[t])
    /\ stream' = [stream EXCEPT ![t] =
                    Over(stream[t], IF stream[t].completed THEN "none" ELSE "cancelled")]
    /\ phase' = [phase EXCEPT ![t] = "closed"]
    /\ UNCHANGED <<messages, stored>>

----------------------------------------------------------------------------
SendStep(t) ==
    \/ \E from \in ReplaceFroms : SendRejected(t, from) \/ SendAccepted(t, from)
    \/ StreamOpened(t)
    \/ StreamRefused(t)

StreamStep(t) ==
    \/ NextPart(t)
    \/ NextCompletes(t)
    \/ NextCompletesUnsaved(t)
    \/ NextFails(t)
    \/ NextCancelled(t)
    \/ PartialCommitted(t)
    \/ PartialIgnored(t)
    \/ PartialUnsaved(t)
    \/ Close(t)

StopStep(t) ==
    \E from \in ReplaceFroms : StoppedCommitted(t, from) \/ StoppedUnsaved(t, from)

SessionNext == \E t \in Turns : SendStep(t) \/ StreamStep(t) \/ StopStep(t)

SessionSpec == SessionInit /\ [][SessionNext]_sessionVars

----------------------------------------------------------------------------
(***************************************************************************)
(* Every variable holds a value of its type; a kept prefix is counted from *)
(* zero, so a negative replace_from never reaches a slice expression.      *)
(***************************************************************************)
SessionTypeOK ==
    /\ messages \in Seq(Message)
    /\ stored \in Seq(Message)
    /\ inFlight \in BOOLEAN
    /\ phase \in [Turns -> Phases]
    /\ stream \in [Turns -> StreamFields]

(***************************************************************************)
(* The cache is the conversation in the store: appendOrReplaceTailLocked   *)
(* changes both or neither, whichever callers commit, stop or fail.        *)
(***************************************************************************)
CacheIsStored == messages = stored

(***************************************************************************)
(* The stored conversation is prompts and their replies in turn, whatever  *)
(* indices callers replace from and however their commits interleave.      *)
(***************************************************************************)
StoredIsTranscript == IsTranscript(stored)

(***************************************************************************)
(* A session in flight is held by a turn that is still on its way: no path *)
(* of Send, Next, CommitPartial or Close leaves the flag behind, which     *)
(* would answer every later Send with ErrTurnInProgress.                   *)
(***************************************************************************)
Holds(t) == phase[t] \in {"opening", "open", "ended"} /\ ~stream[t].finalized

InFlightIsHeld == inFlight => \E t \in Turns : Holds(t)

(***************************************************************************)
(* A turn is counted as completed only in the step that writes its         *)
(* completed reply in the store.                                           *)
(***************************************************************************)
CompletedIsWritten ==
    [][\A t \in Turns :
          stream'[t].recorded = "completed" /\ stream[t].recorded # "completed"
          => /\ stored' # stored
             /\ stored'[Len(stored')] = Reply(t, stream[t].parts, TRUE)]_sessionVars

(***************************************************************************)
(* The session implements the abstract conversation log: each turn is      *)
(* written at most once and as a whole, and never after it was given up.   *)
(***************************************************************************)
Undecided == {t \in Turns : phase[t] \in {"idle", "refused"} \/ Holds(t)}

Log == INSTANCE ConversationLog WITH log <- stored, pending <- Undecided

WritesEachTurnOnce == Log!LogSpec
=============================================================================
