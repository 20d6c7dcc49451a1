--------------------------- MODULE TurnJobsProofs ---------------------------
(***************************************************************************)
(* Proofs about a chat session (ChatSession), for any number of turns, any *)
(* history and any replace_from a caller passes, and about the turns of a  *)
(* browser session that are built on it (TurnJobs), for any number of      *)
(* create and abort requests. The second part needs the invariant of the   *)
(* first at every step, hence one module for both.                         *)
(***************************************************************************)
EXTENDS TurnJobs, TranscriptProofs

(***************************************************************************)
(* Part I. The chat session.                                               *)
(***************************************************************************)

----------------------------------------------------------------------------
(***************************************************************************)
(* The inductive invariant. What a stream will keep of the conversation is *)
(* a whole number of turns: Send checked it against a transcript.          *)
(***************************************************************************)
KeepsWholeTurns == \A t \in Turns : stream[t].replace => stream[t].keep % 2 = 0

SessionInv ==
    /\ SessionTypeOK
    /\ CacheIsStored
    /\ StoredIsTranscript
    /\ KeepsWholeTurns

(***************************************************************************)
(* One commit of whole turns keeps the cache, the store and their shape.   *)
(***************************************************************************)
LEMMA CommitKeepsTranscript ==
    ASSUME SessionInv, NEW t \in Turns, NEW replace \in BOOLEAN, NEW keep \in Nat,
           replace => keep % 2 = 0,
           NEW parts \in Nat, NEW completed \in BOOLEAN,
           Commit(t, replace, keep, Reply(t, parts, completed))
    PROVE  /\ messages' \in Seq(Message)
           /\ stored' \in Seq(Message)
           /\ inFlight' = FALSE
           /\ CacheIsStored'
           /\ StoredIsTranscript'
<1> DEFINE reply == Reply(t, parts, completed)
<1>1. reply \in Message BY DEF Reply, Message
<1>2. /\ messages = stored
      /\ stored \in Seq(Message)
      /\ IsTranscript(stored)
  BY DEF SessionInv, SessionTypeOK, CacheIsStored, StoredIsTranscript
<1>3. /\ replace => keep <= Len(stored)
      /\ stored' = WithTurn(stored, replace, keep, t, reply)
      /\ messages' = WithTurn(messages, replace, keep, t, reply)
      /\ inFlight' = FALSE
  BY DEF Commit, StoreTakes
<1> HIDE DEF reply
<1>4. stored' \in Seq(Message) BY <1>1, <1>2, <1>3, WithTurnType
<1>5. IsTranscript(stored') BY <1>2, <1>3, WithTurnTranscript DEF reply
<1> QED BY <1>2, <1>3, <1>4, <1>5 DEF CacheIsStored, StoredIsTranscript

\* A finalized stream is well typed and keeps its place.
LEMMA OverType ==
    ASSUME NEW s \in StreamFields, NEW outcome \in Records
    PROVE  /\ Over(s, outcome) \in StreamFields
           /\ Over(s, outcome).replace = s.replace
           /\ Over(s, outcome).keep = s.keep
           /\ Over(s, outcome).finalized
<1>1. Recorded(s, outcome) \in Records BY DEF Recorded, StreamFields
<1> QED BY <1>1 DEF Over, StreamFields

\* The stream Send returns is well typed.
LEMMA TurnStreamType ==
    ASSUME NEW replace \in BOOLEAN, NEW keep \in Nat, NEW sent \in Seq(Message)
    PROVE  /\ TurnStream(replace, keep, sent) \in StreamFields
           /\ TurnStream(replace, keep, sent).replace = replace
           /\ TurnStream(replace, keep, sent).keep = keep
BY TranscriptAssumption DEF TurnStream, StreamFields, Records

\* A stream that saw the completed event is well typed.
LEMMA CompletedType ==
    ASSUME NEW s \in StreamFields
    PROVE  /\ Completed(s) \in StreamFields
           /\ Completed(s).replace = s.replace
           /\ Completed(s).keep = s.keep
BY DEF Completed, StreamFields

(***************************************************************************)
(* A stream may change into one with the same place in the conversation.   *)
(***************************************************************************)
LEMMA StreamUpdate ==
    ASSUME SessionTypeOK, KeepsWholeTurns, NEW t \in Turns, NEW s \in StreamFields,
           s.replace => s.keep % 2 = 0,
           stream' = [stream EXCEPT ![t] = s]
    PROVE  stream' \in [Turns -> StreamFields] /\ KeepsWholeTurns'
BY DEF SessionTypeOK, KeepsWholeTurns

\* What abort leaves of the flag is Boolean.
LEMMA InFlightAfterAbortType ==
    ASSUME SessionTypeOK, NEW t \in Turns
    PROVE  InFlightAfterAbort(stream[t]) \in BOOLEAN
BY DEF SessionTypeOK, StreamFields, InFlightAfterAbort

\* The inductive invariant holds when the session is loaded.
LEMMA SessionInvInit == SessionInit => SessionInv
<1> SUFFICES ASSUME SessionInit PROVE SessionInv OBVIOUS
<1> DEFINE s == TurnStream(FALSE, 0, <<>>)
<1>1. s \in StreamFields /\ ~s.replace
  BY TranscriptAssumption DEF TurnStream, StreamFields, Records
<1>2. stream = [t \in Turns |-> s] BY DEF SessionInit
<1> HIDE DEF s
<1>3. SessionTypeOK /\ KeepsWholeTurns
  BY <1>1, <1>2, TranscriptAssumption DEF SessionInit, SessionTypeOK, KeepsWholeTurns, Phases
<1> QED
  BY <1>3, TranscriptAssumption DEF SessionInit, SessionInv, CacheIsStored, StoredIsTranscript

\* Every step of a caller keeps the inductive invariant.
LEMMA SessionInvNext == SessionInv /\ [SessionNext]_sessionVars => SessionInv'
<1> SUFFICES ASSUME SessionInv, [SessionNext]_sessionVars PROVE SessionInv' OBVIOUS
<1> USE TranscriptAssumption, SessionAssumption
<1>0. /\ SessionTypeOK /\ CacheIsStored /\ StoredIsTranscript /\ KeepsWholeTurns
  BY DEF SessionInv
<1>1. ASSUME NEW t \in Turns, NEW from \in ReplaceFroms, SendRejected(t, from)
      PROVE  SessionInv'
  BY <1>0, <1>1 DEF SendRejected, SessionInv, SessionTypeOK, CacheIsStored,
                    StoredIsTranscript, KeepsWholeTurns, Phases
<1>2. ASSUME NEW t \in Turns, NEW from \in ReplaceFroms, SendAccepted(t, from)
      PROVE  SessionInv'
  <2> DEFINE keep == KeepFor(messages, from)
             replace == from # NoIndex
             s == TurnStream(replace, keep, SubSeq(messages, 1, keep))
  <2>1. /\ messages \in Seq(Message) /\ IsTranscript(messages)
        /\ from \in Int \cup {NoIndex}
    BY <1>0 DEF SessionTypeOK, CacheIsStored, StoredIsTranscript
  <2>2. keep \in 0..Len(messages) /\ keep % 2 = 0
    BY <1>2, <2>1, KeptIsEven DEF SendAccepted
  <2>3. SubSeq(messages, 1, keep) \in Seq(Message)
    <3>1. \A i \in 1..keep : messages[i] \in Message BY <2>1, <2>2, ElementOfSeq
    <3> QED BY <2>2, <3>1
  <2>4. replace \in BOOLEAN /\ keep \in Nat BY <2>2
  <2>5. /\ stream' = [stream EXCEPT ![t] = s]
        /\ phase' = [phase EXCEPT ![t] = "opening"]
        /\ inFlight' = TRUE
        /\ UNCHANGED <<messages, stored>>
    BY <1>2 DEF SendAccepted
  <2>6. s \in StreamFields /\ s.keep = keep
    BY <2>3, <2>4, TurnStreamType
  <2> HIDE DEF keep, replace, s
  <2>7. stream' \in [Turns -> StreamFields] /\ KeepsWholeTurns'
    BY <1>0, <2>2, <2>5, <2>6, StreamUpdate
  <2>8. SessionTypeOK' BY <1>0, <2>5, <2>7 DEF SessionTypeOK, Phases
  <2> QED BY <1>0, <2>5, <2>7, <2>8 DEF SessionInv, CacheIsStored, StoredIsTranscript
<1>3. ASSUME NEW t \in Turns, StreamOpened(t) PROVE SessionInv'
  BY <1>0, <1>3 DEF StreamOpened, SessionInv, SessionTypeOK, CacheIsStored,
                    StoredIsTranscript, KeepsWholeTurns, Phases
<1>4. ASSUME NEW t \in Turns, StreamRefused(t) PROVE SessionInv'
  BY <1>0, <1>4 DEF StreamRefused, SessionInv, SessionTypeOK, StreamFields, CacheIsStored,
                    StoredIsTranscript, KeepsWholeTurns, Phases, Records
<1>5. ASSUME NEW t \in Turns, NextPart(t) PROVE SessionInv'
  <2> DEFINE s == [stream[t] EXCEPT !.parts = @ + 1]
  <2>0. stream[t] \in StreamFields /\ stream[t].parts < MaxParts
    BY <1>0, <1>5 DEF NextPart, SessionTypeOK
  <2>1. s \in StreamFields /\ s.replace = stream[t].replace /\ s.keep = stream[t].keep
    <3>1. stream[t].parts + 1 \in 0..MaxParts BY <2>0 DEF StreamFields
    <3> QED BY <2>0, <3>1 DEF StreamFields
  <2>2. stream' = [stream EXCEPT ![t] = s] /\ UNCHANGED <<messages, stored, inFlight, phase>>
    BY <1>5 DEF NextPart
  <2> HIDE DEF s
  <2>3. stream' \in [Turns -> StreamFields] /\ KeepsWholeTurns'
    BY <1>0, <2>1, <2>2, StreamUpdate DEF KeepsWholeTurns
  <2> QED BY <1>0, <2>2, <2>3 DEF SessionInv, SessionTypeOK, CacheIsStored, StoredIsTranscript
<1>6. ASSUME NEW t \in Turns, NextCompletes(t) PROVE SessionInv'
  <2>1. /\ stream[t].replace \in BOOLEAN /\ stream[t].keep \in Nat
        /\ stream[t].replace => stream[t].keep % 2 = 0
        /\ stream[t].parts \in Nat
    BY <1>0 DEF SessionTypeOK, StreamFields, KeepsWholeTurns
  <2>2. /\ messages' \in Seq(Message) /\ stored' \in Seq(Message) /\ inFlight' = FALSE
        /\ CacheIsStored' /\ StoredIsTranscript'
    BY <1>6, <2>1, CommitKeepsTranscript DEF NextCompletes
  <2> DEFINE s == Over(Completed(stream[t]), "completed")
  <2>3. s \in StreamFields /\ s.replace = stream[t].replace /\ s.keep = stream[t].keep
    BY <1>0, OverType, CompletedType DEF SessionTypeOK, Records
  <2>4. stream' = [stream EXCEPT ![t] = s] /\ UNCHANGED phase
    BY <1>6 DEF NextCompletes
  <2> HIDE DEF s
  <2>5. stream' \in [Turns -> StreamFields] /\ KeepsWholeTurns'
    BY <1>0, <2>3, <2>4, StreamUpdate DEF KeepsWholeTurns
  <2>6. SessionTypeOK' BY <1>0, <2>2, <2>4, <2>5 DEF SessionTypeOK
  <2> QED BY <2>2, <2>5, <2>6 DEF SessionInv
<1>7. ASSUME NEW t \in Turns, NextCompletesUnsaved(t) PROVE SessionInv'
  <2> DEFINE s == Over(Completed(stream[t]), "failed")
  <2>1. s \in StreamFields /\ s.replace = stream[t].replace /\ s.keep = stream[t].keep
    BY <1>0, OverType, CompletedType DEF SessionTypeOK, Records
  <2>2. /\ stream' = [stream EXCEPT ![t] = s]
        /\ phase' = [phase EXCEPT ![t] = "ended"]
        /\ inFlight' = InFlightAfterAbort(stream[t])
        /\ UNCHANGED <<messages, stored>>
    BY <1>7 DEF NextCompletesUnsaved, CommitFails
  <2> HIDE DEF s
  <2>3. stream' \in [Turns -> StreamFields] /\ KeepsWholeTurns'
    BY <1>0, <2>1, <2>2, StreamUpdate DEF KeepsWholeTurns
  <2>4. SessionTypeOK'
    BY <1>0, <2>2, <2>3, InFlightAfterAbortType DEF SessionTypeOK, Phases
  <2> QED
    BY <1>0, <2>2, <2>3, <2>4 DEF SessionInv, CacheIsStored, StoredIsTranscript
<1>8. ASSUME NEW t \in Turns, NextFails(t) PROVE SessionInv'
  <2> DEFINE s == Over(stream[t], "failed")
  <2>1. s \in StreamFields /\ s.replace = stream[t].replace /\ s.keep = stream[t].keep
    BY <1>0, OverType, CompletedType DEF SessionTypeOK, Records
  <2>2. /\ stream' = [stream EXCEPT ![t] = s]
        /\ phase' = [phase EXCEPT ![t] = "ended"]
        /\ inFlight' = InFlightAfterAbort(stream[t])
        /\ UNCHANGED <<messages, stored>>
    BY <1>8 DEF NextFails
  <2> HIDE DEF s
  <2>3. stream' \in [Turns -> StreamFields] /\ KeepsWholeTurns'
    BY <1>0, <2>1, <2>2, StreamUpdate DEF KeepsWholeTurns
  <2>4. SessionTypeOK'
    BY <1>0, <2>2, <2>3, InFlightAfterAbortType DEF SessionTypeOK, Phases
  <2> QED
    BY <1>0, <2>2, <2>3, <2>4 DEF SessionInv, CacheIsStored, StoredIsTranscript
<1>9. ASSUME NEW t \in Turns, NextCancelled(t) PROVE SessionInv'
  <2>1. Recorded(stream[t], "cancelled") \in Records
    BY <1>0 DEF Recorded, SessionTypeOK, StreamFields, Records
  <2>2. SessionTypeOK' /\ KeepsWholeTurns'
    BY <1>0, <1>9, <2>1 DEF NextCancelled, SessionTypeOK, StreamFields, Phases, KeepsWholeTurns
  <2> QED
    BY <1>0, <1>9, <2>2 DEF NextCancelled, SessionInv, CacheIsStored, StoredIsTranscript
<1>10. ASSUME NEW t \in Turns, PartialCommitted(t) PROVE SessionInv'
  <2>1. /\ stream[t].replace \in BOOLEAN /\ stream[t].keep \in Nat
        /\ stream[t].replace => stream[t].keep % 2 = 0
        /\ stream[t].parts \in Nat /\ stream[t].completed \in BOOLEAN
    BY <1>0 DEF SessionTypeOK, StreamFields, KeepsWholeTurns
  <2>2. /\ messages' \in Seq(Message) /\ stored' \in Seq(Message) /\ inFlight' = FALSE
        /\ CacheIsStored' /\ StoredIsTranscript'
    BY <1>10, <2>1, CommitKeepsTranscript DEF PartialCommitted
  <2>3. SessionTypeOK' /\ KeepsWholeTurns'
    BY <1>0, <1>10, <2>2 DEF PartialCommitted, SessionTypeOK, StreamFields, KeepsWholeTurns
  <2> QED BY <2>2, <2>3 DEF SessionInv
<1>11. ASSUME NEW t \in Turns, PartialUnsaved(t) PROVE SessionInv'
  BY <1>0, <1>11 DEF PartialUnsaved, CommitFails, SessionInv, SessionTypeOK,
                     CacheIsStored, StoredIsTranscript, KeepsWholeTurns
<1>12. ASSUME NEW t \in Turns, NEW from \in ReplaceFroms, StoppedCommitted(t, from)
       PROVE  SessionInv'
  <2>1. /\ messages \in Seq(Message) /\ IsTranscript(messages)
        /\ from \in Int \cup {NoIndex}
    BY <1>0 DEF SessionTypeOK, CacheIsStored, StoredIsTranscript
  <2>2. KeepFor(messages, from) \in 0..Len(messages) /\ KeepFor(messages, from) % 2 = 0
    BY <1>12, <2>1, KeptIsEven DEF StoppedCommitted
  <2>3. KeepFor(messages, from) \in Nat /\ 0 \in Nat BY <2>2
  <2>4. /\ messages' \in Seq(Message) /\ stored' \in Seq(Message) /\ inFlight' = FALSE
        /\ CacheIsStored' /\ StoredIsTranscript'
    BY <1>12, <2>2, <2>3, CommitKeepsTranscript DEF StoppedCommitted
  <2>5. SessionTypeOK' /\ KeepsWholeTurns'
    BY <1>0, <1>12, <2>4 DEF StoppedCommitted, Phases, SessionTypeOK, KeepsWholeTurns
  <2> QED BY <2>4, <2>5 DEF SessionInv
<1>13. ASSUME NEW t \in Turns, NEW from \in ReplaceFroms, StoppedUnsaved(t, from)
       PROVE  SessionInv'
  BY <1>0, <1>13 DEF StoppedUnsaved, CommitFails, Phases, SessionInv, SessionTypeOK,
                     CacheIsStored, StoredIsTranscript, KeepsWholeTurns
<1>14. ASSUME NEW t \in Turns, Close(t) PROVE SessionInv'
  <2> DEFINE s == Over(stream[t], IF stream[t].completed THEN "none" ELSE "cancelled")
  <2>1. s \in StreamFields /\ s.replace = stream[t].replace /\ s.keep = stream[t].keep
    BY <1>0, OverType, CompletedType DEF SessionTypeOK, Records
  <2>2. /\ stream' = [stream EXCEPT ![t] = s]
        /\ phase' = [phase EXCEPT ![t] = "closed"]
        /\ inFlight' = InFlightAfterAbort(stream[t])
        /\ UNCHANGED <<messages, stored>>
    BY <1>14 DEF Close
  <2> HIDE DEF s
  <2>3. stream' \in [Turns -> StreamFields] /\ KeepsWholeTurns'
    BY <1>0, <2>1, <2>2, StreamUpdate DEF KeepsWholeTurns
  <2>4. SessionTypeOK'
    BY <1>0, <2>2, <2>3, InFlightAfterAbortType DEF SessionTypeOK, Phases
  <2> QED
    BY <1>0, <2>2, <2>3, <2>4 DEF SessionInv, CacheIsStored, StoredIsTranscript
<1>15. CASE UNCHANGED sessionVars
  BY <1>0, <1>15 DEF sessionVars, SessionInv, SessionTypeOK, CacheIsStored,
                     StoredIsTranscript, KeepsWholeTurns
<1> QED
  BY <1>1, <1>2, <1>3, <1>4, <1>5, <1>6, <1>7, <1>8, <1>9, <1>10, <1>11, <1>12,
     <1>13, <1>14, <1>15
  DEF SessionNext, SendStep, StreamStep, StopStep, PartialIgnored

\* The inductive invariant holds in every reachable state.
LEMMA SessionInvHolds == SessionSpec => []SessionInv
BY SessionInvInit, SessionInvNext, PTL DEF SessionSpec

(***************************************************************************)
(* The type invariant holds of every session.                              *)
(***************************************************************************)
THEOREM SessionTypeCorrect == SessionSpec => []SessionTypeOK
<1>1. SessionInv => SessionTypeOK BY DEF SessionInv
<1> QED BY <1>1, SessionInvHolds, PTL

(***************************************************************************)
(* The cached messages are always the stored conversation.                 *)
(***************************************************************************)
THEOREM CacheIsAlwaysStored == SessionSpec => []CacheIsStored
<1>1. SessionInv => CacheIsStored BY DEF SessionInv
<1> QED BY <1>1, SessionInvHolds, PTL

(***************************************************************************)
(* The stored conversation is always prompts and their replies in turn.    *)
(***************************************************************************)
THEOREM StoredIsAlwaysTranscript == SessionSpec => []StoredIsTranscript
<1>1. SessionInv => StoredIsTranscript BY DEF SessionInv
<1> QED BY <1>1, SessionInvHolds, PTL

----------------------------------------------------------------------------
(***************************************************************************)
(* Who holds the session. A step of one turn leaves the others where they  *)
(* were; a step that ends a turn lowers the flag if that turn held it.     *)
(***************************************************************************)
LEMMA OthersHold ==
    ASSUME SessionTypeOK, NEW t \in Turns, NEW u \in Turns, u # t,
           \/ phase' = phase
           \/ \E p \in Phases : phase' = [phase EXCEPT ![t] = p],
           \/ stream' = stream
           \/ \E s \in StreamFields : stream' = [stream EXCEPT ![t] = s]
    PROVE  Holds(u)' <=> Holds(u)
<1>1. phase'[u] = phase[u] BY DEF SessionTypeOK
<1>2. stream'[u] = stream[u] BY DEF SessionTypeOK
<1> QED BY <1>1, <1>2 DEF Holds

\* A session that was just loaded is not in flight.
LEMMA HeldInit == SessionInit => InFlightIsHeld
BY DEF SessionInit, InFlightIsHeld

\* A step that leaves the flag up leaves a turn that holds it.
LEMMA HeldNext ==
    SessionInv /\ InFlightIsHeld /\ [SessionNext]_sessionVars => InFlightIsHeld'
<1> SUFFICES ASSUME SessionInv, InFlightIsHeld, [SessionNext]_sessionVars, inFlight'
             PROVE  \E u \in Turns : Holds(u)'
  BY DEF InFlightIsHeld
<1>0. SessionTypeOK BY DEF SessionInv
<1>1. ASSUME NEW t \in Turns, NEW from \in ReplaceFroms, SendRejected(t, from)
      PROVE  \E u \in Turns : Holds(u)'
  <2>1. PICK u \in Turns : Holds(u) BY <1>1 DEF SendRejected, InFlightIsHeld
  <2>2. Holds(u)' BY <1>0, <1>1, <2>1 DEF SendRejected, Holds, SessionTypeOK
  <2> QED BY <2>2
<1>2. ASSUME NEW t \in Turns, NEW from \in ReplaceFroms, SendAccepted(t, from)
      PROVE  \E u \in Turns : Holds(u)'
  <2>1. Holds(t)' BY <1>0, <1>2 DEF SendAccepted, Holds, SessionTypeOK, TurnStream
  <2> QED BY <2>1
<1>3. ASSUME NEW t \in Turns, StreamOpened(t) PROVE \E u \in Turns : Holds(u)'
  <2>1. PICK u \in Turns : Holds(u) BY <1>3 DEF StreamOpened, InFlightIsHeld
  <2>2. Holds(u)' BY <1>0, <1>3, <2>1 DEF StreamOpened, Holds, SessionTypeOK
  <2> QED BY <2>2
<1>4. ASSUME NEW t \in Turns, StreamRefused(t) PROVE FALSE
  BY <1>4 DEF StreamRefused
<1>5. ASSUME NEW t \in Turns, NextPart(t) PROVE \E u \in Turns : Holds(u)'
  <2>1. PICK u \in Turns : Holds(u) BY <1>5 DEF NextPart, InFlightIsHeld
  <2>2. Holds(u)'
    BY <1>0, <1>5, <2>1 DEF NextPart, Holds, SessionTypeOK, StreamFields
  <2> QED BY <2>2
<1>6. ASSUME NEW t \in Turns, NextCompletes(t) PROVE FALSE
  BY <1>6 DEF NextCompletes, Commit
<1>7. ASSUME NEW t \in Turns, NEW s \in StreamFields, NEW p \in Phases,
             inFlight' = InFlightAfterAbort(stream[t]),
             stream' = [stream EXCEPT ![t] = s], phase' = [phase EXCEPT ![t] = p]
      PROVE  \E u \in Turns : Holds(u)'
  <2>1. inFlight /\ stream[t].finalized BY <1>7 DEF InFlightAfterAbort
  <2>2. PICK u \in Turns : Holds(u) BY <2>1 DEF InFlightIsHeld
  <2>3. u # t BY <2>1, <2>2 DEF Holds
  <2>4. Holds(u)' BY <1>0, <1>7, <2>2, <2>3, OthersHold
  <2> QED BY <2>4
<1>8. ASSUME NEW t \in Turns, NextCompletesUnsaved(t) PROVE \E u \in Turns : Holds(u)'
  <2>1. Over(Completed(stream[t]), "failed") \in StreamFields
    BY <1>0, OverType, CompletedType DEF SessionTypeOK, Records
  <2> QED BY <1>7, <1>8, <2>1 DEF NextCompletesUnsaved, Phases
<1>9. ASSUME NEW t \in Turns, NextFails(t) PROVE \E u \in Turns : Holds(u)'
  <2>1. Over(stream[t], "failed") \in StreamFields
    BY <1>0, OverType DEF SessionTypeOK, Records
  <2> QED BY <1>7, <1>9, <2>1 DEF NextFails, Phases
<1>10. ASSUME NEW t \in Turns, NextCancelled(t) PROVE \E u \in Turns : Holds(u)'
  <2>1. PICK u \in Turns : Holds(u) BY <1>10 DEF NextCancelled, InFlightIsHeld
  <2>2. Holds(u)'
    BY <1>0, <1>10, <2>1 DEF NextCancelled, Holds, SessionTypeOK, StreamFields
  <2> QED BY <2>2
<1>11. ASSUME NEW t \in Turns, PartialCommitted(t) PROVE FALSE
  BY <1>11 DEF PartialCommitted, Commit
<1>12. ASSUME NEW t \in Turns, PartialUnsaved(t) PROVE \E u \in Turns : Holds(u)'
  BY <1>12 DEF PartialUnsaved, InFlightIsHeld, Holds
<1>13. ASSUME NEW t \in Turns, NEW from \in ReplaceFroms, StoppedCommitted(t, from)
       PROVE  FALSE
  BY <1>13 DEF StoppedCommitted, Commit
<1>14. ASSUME NEW t \in Turns, NEW from \in ReplaceFroms, StoppedUnsaved(t, from)
       PROVE  \E u \in Turns : Holds(u)'
  <2>1. PICK u \in Turns : Holds(u) BY <1>14 DEF StoppedUnsaved, InFlightIsHeld
  <2>2. Holds(u)' BY <1>0, <1>14, <2>1 DEF StoppedUnsaved, Holds, SessionTypeOK
  <2> QED BY <2>2
<1>15. ASSUME NEW t \in Turns, Close(t) PROVE \E u \in Turns : Holds(u)'
  <2> DEFINE outcome == IF stream[t].completed THEN "none" ELSE "cancelled"
  <2>1. outcome \in Records BY DEF Records
  <2>2. Over(stream[t], outcome) \in StreamFields
    BY <1>0, <2>1, OverType DEF SessionTypeOK
  <2> QED BY <1>7, <1>15, <2>2 DEF Close, Phases
<1>16. CASE UNCHANGED sessionVars
  BY <1>16 DEF sessionVars, InFlightIsHeld, Holds
<1> QED
  BY <1>1, <1>2, <1>3, <1>4, <1>5, <1>6, <1>8, <1>9, <1>10, <1>11, <1>12, <1>13,
     <1>14, <1>15, <1>16
  DEF SessionNext, SendStep, StreamStep, StopStep, PartialIgnored

(***************************************************************************)
(* The in-flight flag is never left behind by a turn that is over.         *)
(***************************************************************************)
THEOREM InFlightIsAlwaysHeld == SessionSpec => []InFlightIsHeld
BY HeldInit, HeldNext, SessionInvHolds, PTL DEF SessionSpec

----------------------------------------------------------------------------
(***************************************************************************)
(* The session implements the conversation log. A turn that has not got    *)
(* its stream yet was not finalized, so Undecided loses a turn only where  *)
(* the turn is written or given up.                                        *)
(***************************************************************************)
OpeningIsFresh == \A t \in Turns : phase[t] = "opening" => ~stream[t].finalized

\* No stream is being opened when the session is loaded.
LEMMA OpeningInit == SessionInit => OpeningIsFresh
BY DEF SessionInit, OpeningIsFresh

\* A stream that is being opened was never finalized.
LEMMA OpeningNext ==
    SessionInv /\ OpeningIsFresh /\ [SessionNext]_sessionVars => OpeningIsFresh'
<1> SUFFICES ASSUME SessionTypeOK, OpeningIsFresh, [SessionNext]_sessionVars
             PROVE  OpeningIsFresh'
  BY DEF SessionInv
<1>1. ASSUME NEW t \in Turns, NEW from \in ReplaceFroms,
             SendRejected(t, from) \/ StoppedCommitted(t, from) \/ StoppedUnsaved(t, from)
      PROVE  OpeningIsFresh'
  BY <1>1 DEF SendRejected, StoppedCommitted, StoppedUnsaved, OpeningIsFresh, SessionTypeOK
<1>2. ASSUME NEW t \in Turns, NEW from \in ReplaceFroms, SendAccepted(t, from)
      PROVE  OpeningIsFresh'
  BY <1>2 DEF SendAccepted, TurnStream, OpeningIsFresh, SessionTypeOK
<1>3. ASSUME NEW t \in Turns, StreamOpened(t) \/ StreamRefused(t)
      PROVE  OpeningIsFresh'
  BY <1>3 DEF StreamOpened, StreamRefused, OpeningIsFresh, SessionTypeOK, StreamFields
<1>4. ASSUME NEW t \in Turns, NextPart(t) \/ NextCancelled(t)
      PROVE  OpeningIsFresh'
  BY <1>4 DEF NextPart, NextCancelled, OpeningIsFresh, SessionTypeOK, StreamFields
<1>5. ASSUME NEW t \in Turns, NEW s, stream' = [stream EXCEPT ![t] = s],
             phase[t] # "opening", phase'[t] # "opening",
             \A u \in Turns : u # t => phase'[u] = phase[u]
      PROVE  OpeningIsFresh'
  BY <1>5 DEF OpeningIsFresh, SessionTypeOK
<1>6. ASSUME NEW t \in Turns, NextCompletes(t) PROVE OpeningIsFresh'
  BY <1>5, <1>6 DEF NextCompletes
<1>7. ASSUME NEW t \in Turns, NextCompletesUnsaved(t) PROVE OpeningIsFresh'
  BY <1>5, <1>7 DEF NextCompletesUnsaved, SessionTypeOK
<1>8. ASSUME NEW t \in Turns, NextFails(t) PROVE OpeningIsFresh'
  BY <1>5, <1>8 DEF NextFails, SessionTypeOK
<1>9. ASSUME NEW t \in Turns, PartialCommitted(t) PROVE OpeningIsFresh'
  BY <1>9 DEF PartialCommitted, OpeningIsFresh, SessionTypeOK, StreamFields
<1>10. ASSUME NEW t \in Turns, PartialUnsaved(t) PROVE OpeningIsFresh'
  BY <1>10 DEF PartialUnsaved, OpeningIsFresh
<1>11. ASSUME NEW t \in Turns, Close(t) PROVE OpeningIsFresh'
  BY <1>5, <1>11 DEF Close, SessionTypeOK
<1>12. CASE UNCHANGED sessionVars
  BY <1>12 DEF sessionVars, OpeningIsFresh
<1> QED
  BY <1>1, <1>2, <1>3, <1>4, <1>6, <1>7, <1>8, <1>9, <1>10, <1>11, <1>12
  DEF SessionNext, SendStep, StreamStep, StopStep, PartialIgnored

(***************************************************************************)
(* A commit writes the turn after the kept prefix, or after everything.    *)
(***************************************************************************)
LEMMA CommitShape ==
    ASSUME stored \in Seq(Message), NEW t \in Turns, NEW replace \in BOOLEAN, NEW keep \in Nat,
           NEW parts \in Nat, NEW completed \in BOOLEAN,
           Commit(t, replace, keep, Reply(t, parts, completed))
    PROVE  \E n \in 0..Len(stored) :
              /\ replace => n = keep
              /\ ~replace => n = Len(stored)
              /\ stored' = SubSeq(stored, 1, n) \o <<Prompt(t), Reply(t, parts, completed)>>
<1> DEFINE n == IF replace THEN keep ELSE Len(stored)
<1>1. Len(stored) \in Nat OBVIOUS
<1>2. n \in 0..Len(stored) /\ (replace => n = keep) /\ (~replace => n = Len(stored))
  <2>1. CASE replace BY <1>1, <2>1 DEF Commit, StoreTakes
  <2>2. CASE ~replace BY <1>1, <2>2
  <2> QED BY <2>1, <2>2
<1>3. stored' = WithTurn(stored, replace, keep, t, Reply(t, parts, completed))
  BY DEF Commit
<1> HIDE DEF n
<1>5. stored' = SubSeq(stored, 1, n) \o <<Prompt(t), Reply(t, parts, completed)>>
  BY <1>2, <1>3, WithTurnShape
<1> QED BY <1>2, <1>5

(***************************************************************************)
(* A commit of a turn that is undecided, and is decided by it, is a commit *)
(* of the log.                                                             *)
(***************************************************************************)
LEMMA CommitIsLogged ==
    ASSUME SessionInv, NEW t \in Undecided, NEW replace \in BOOLEAN, NEW keep \in Nat,
           replace => keep % 2 = 0,
           NEW parts \in 0..MaxParts, NEW completed \in BOOLEAN,
           Commit(t, replace, keep, Reply(t, parts, completed)),
           Undecided' = Undecided \ {t}
    PROVE  Log!CommitTurn(t)
<1>1. stored \in Seq(Message) /\ Len(stored) % 2 = 0
  BY DEF SessionInv, SessionTypeOK, StoredIsTranscript, IsTranscript
<1>2. t \in Turns /\ parts \in Nat BY TranscriptAssumption DEF Undecided
<1>3. PICK n \in 0..Len(stored) :
         /\ replace => n = keep
         /\ ~replace => n = Len(stored)
         /\ stored' = SubSeq(stored, 1, n) \o <<Prompt(t), Reply(t, parts, completed)>>
  BY <1>1, <1>2, CommitShape
<1>4. n % 2 = 0 BY <1>1, <1>3
<1>5. /\ Log!Prompt(t) = Prompt(t)
      /\ Log!Reply(t, parts, completed) = Reply(t, parts, completed)
  BY DEF Prompt, Reply, Log!Prompt, Log!Reply
<1> QED BY <1>3, <1>4, <1>5 DEF Log!CommitTurn

\* A turn that is decided in a step leaves the undecided ones.
LEMMA Decided ==
    ASSUME SessionTypeOK, NEW t \in Turns, ~(phase'[t] \in {"idle", "refused"} \/ Holds(t)'),
           \A u \in Turns : u # t => phase'[u] = phase[u] /\ stream'[u] = stream[u]
    PROVE  Undecided' = Undecided \ {t}
BY DEF Undecided, Holds

\* A turn that stays as decided as it was changes no undecided turn.
LEMMA StillUndecided ==
    ASSUME SessionTypeOK, NEW t \in Turns,
           (phase'[t] \in {"idle", "refused"} \/ Holds(t)')
             <=> (phase[t] \in {"idle", "refused"} \/ Holds(t)),
           \A u \in Turns : u # t => phase'[u] = phase[u] /\ stream'[u] = stream[u]
    PROVE  Undecided' = Undecided
BY DEF Undecided, Holds

\* The loaded session is the initial conversation log.
LEMMA LoggedInit == SessionInit => Log!LogInit
<1> SUFFICES ASSUME SessionInit PROVE stored = History /\ Undecided = Turns
  BY DEF Log!LogInit
<1> QED BY DEF SessionInit, Undecided

\* Every step of a caller is a step of the log, or none.
LEMMA LoggedNext ==
    SessionInv /\ OpeningIsFresh /\ [SessionNext]_sessionVars
    => [Log!LogNext]_(Log!logVars)
<1> SUFFICES ASSUME SessionInv, OpeningIsFresh, [SessionNext]_sessionVars
             PROVE  \/ \E t \in Turns : Log!CommitTurn(t) \/ Log!GiveUpTurn(t)
                    \/ UNCHANGED <<stored, Undecided>>
  BY DEF Log!LogNext, Log!logVars
<1>0. SessionTypeOK /\ KeepsWholeTurns BY DEF SessionInv
<1> DEFINE Kept == UNCHANGED <<stored, Undecided>>
           GivenUp(t) == Log!GiveUpTurn(t)
<1>1. ASSUME NEW t \in Turns, NEW from \in ReplaceFroms, SendRejected(t, from) PROVE Kept
  BY <1>0, <1>1, StillUndecided DEF SendRejected, Holds, SessionTypeOK
<1>2. ASSUME NEW t \in Turns, NEW from \in ReplaceFroms, SendAccepted(t, from) PROVE Kept
  <2>1. phase'[t] = "opening" /\ ~stream'[t].finalized
    BY <1>0, <1>2 DEF SendAccepted, SessionTypeOK, TurnStream
  <2>2. \A u \in Turns : u # t => phase'[u] = phase[u] /\ stream'[u] = stream[u]
    BY <1>0, <1>2 DEF SendAccepted, SessionTypeOK
  <2> QED BY <1>0, <1>2, <2>1, <2>2, StillUndecided DEF SendAccepted, Holds
<1>3. ASSUME NEW t \in Turns, StreamOpened(t) PROVE Kept
  BY <1>0, <1>3, StillUndecided DEF StreamOpened, Holds, SessionTypeOK
<1>4. ASSUME NEW t \in Turns, StreamRefused(t) PROVE Kept
  <2>1. Holds(t) BY <1>4 DEF StreamRefused, OpeningIsFresh, Holds
  <2> QED BY <1>0, <1>4, <2>1, StillUndecided DEF StreamRefused, SessionTypeOK
<1>5. ASSUME NEW t \in Turns, NextPart(t) PROVE Kept
  <2>1. Holds(t)' <=> Holds(t)
    BY <1>0, <1>5 DEF NextPart, Holds, SessionTypeOK, StreamFields
  <2> QED BY <1>0, <1>5, <2>1, StillUndecided DEF NextPart, SessionTypeOK
<1>6. ASSUME NEW t \in Turns, NEW s \in StreamFields, s.finalized,
             phase[t] \in {"open", "ended"}, phase'[t] \in {"open", "ended", "closed"},
             \A u \in Turns : u # t => phase'[u] = phase[u],
             stream' = [stream EXCEPT ![t] = s]
      PROVE  Undecided' = Undecided \ {t}
  <2>1. stream'[t] = s /\ \A u \in Turns : u # t => stream'[u] = stream[u]
    BY <1>0, <1>6 DEF SessionTypeOK
  <2> QED BY <1>0, <1>6, <2>1, Decided DEF Holds
<1>7. ASSUME NEW t \in Turns, UNCHANGED stored, Undecided' = Undecided \ {t}
      PROVE  GivenUp(t) \/ Kept
  <2>1. CASE t \in Undecided BY <1>7, <2>1 DEF Log!GiveUpTurn
  <2>2. CASE t \notin Undecided BY <1>7, <2>2
  <2> QED BY <2>1, <2>2
<1>8. ASSUME NEW t \in Turns, NextCompletes(t) PROVE Log!CommitTurn(t)
  <2>1. /\ Over(Completed(stream[t]), "completed") \in StreamFields
        /\ Over(Completed(stream[t]), "completed").finalized
    BY <1>0, OverType, CompletedType DEF SessionTypeOK, Records
  <2>2. Undecided' = Undecided \ {t} BY <1>6, <1>8, <2>1 DEF NextCompletes
  <2>3. t \in Undecided BY <1>8 DEF NextCompletes, Undecided, Holds
  <2>4. /\ stream[t].replace \in BOOLEAN /\ stream[t].keep \in Nat
        /\ stream[t].replace => stream[t].keep % 2 = 0
        /\ stream[t].parts \in 0..MaxParts
    BY <1>0 DEF SessionTypeOK, StreamFields, KeepsWholeTurns
  <2> QED BY <1>8, <2>2, <2>3, <2>4, CommitIsLogged DEF NextCompletes
<1>9. ASSUME NEW t \in Turns, NextCompletesUnsaved(t) PROVE GivenUp(t) \/ Kept
  <2>1. /\ Over(Completed(stream[t]), "failed") \in StreamFields
        /\ Over(Completed(stream[t]), "failed").finalized
    BY <1>0, OverType, CompletedType DEF SessionTypeOK, Records
  <2>2. Undecided' = Undecided \ {t}
    BY <1>0, <1>6, <1>9, <2>1 DEF NextCompletesUnsaved, SessionTypeOK
  <2> QED BY <1>7, <1>9, <2>2 DEF NextCompletesUnsaved, CommitFails
<1>10. ASSUME NEW t \in Turns, NextFails(t) PROVE GivenUp(t) \/ Kept
  <2>1. Over(stream[t], "failed") \in StreamFields /\ Over(stream[t], "failed").finalized
    BY <1>0, OverType DEF SessionTypeOK, Records
  <2>2. Undecided' = Undecided \ {t}
    BY <1>0, <1>6, <1>10, <2>1 DEF NextFails, SessionTypeOK
  <2> QED BY <1>7, <1>10, <2>2 DEF NextFails
<1>11. ASSUME NEW t \in Turns, NextCancelled(t) PROVE Kept
  <2>1. Holds(t)' <=> Holds(t)
    BY <1>0, <1>11 DEF NextCancelled, Holds, SessionTypeOK, StreamFields
  <2> QED BY <1>0, <1>11, <2>1, StillUndecided DEF NextCancelled, SessionTypeOK
<1>12. ASSUME NEW t \in Turns, PartialCommitted(t) PROVE Log!CommitTurn(t)
  <2> DEFINE s == [stream[t] EXCEPT !.finalized = TRUE]
  <2>1. s \in StreamFields /\ s.finalized BY <1>0 DEF SessionTypeOK, StreamFields
  <2>2. stream' = [stream EXCEPT ![t] = s] BY <1>12 DEF PartialCommitted
  <2> HIDE DEF s
  <2>3. Undecided' = Undecided \ {t} BY <1>6, <1>12, <2>1, <2>2 DEF PartialCommitted
  <2>4. t \in Undecided BY <1>12 DEF PartialCommitted, Undecided, Holds
  <2>5. /\ stream[t].replace \in BOOLEAN /\ stream[t].keep \in Nat
        /\ stream[t].replace => stream[t].keep % 2 = 0
        /\ stream[t].parts \in 0..MaxParts /\ stream[t].completed \in BOOLEAN
    BY <1>0 DEF SessionTypeOK, StreamFields, KeepsWholeTurns
  <2> QED BY <1>12, <2>3, <2>4, <2>5, CommitIsLogged DEF PartialCommitted
<1>13. ASSUME NEW t \in Turns, PartialUnsaved(t) PROVE Kept
  BY <1>13 DEF PartialUnsaved, CommitFails, Undecided, Holds
<1>14. ASSUME NEW t \in Turns, NEW from \in ReplaceFroms,
              StoppedCommitted(t, from) \/ StoppedUnsaved(t, from)
       PROVE  t \in Undecided /\ Undecided' = Undecided \ {t}
  <2>1. t \in Undecided BY <1>14 DEF StoppedCommitted, StoppedUnsaved, Undecided
  <2>2. phase'[t] = "closed" /\ \A u \in Turns : u # t => phase'[u] = phase[u]
    BY <1>0, <1>14 DEF StoppedCommitted, StoppedUnsaved, SessionTypeOK
  <2>3. UNCHANGED stream BY <1>14 DEF StoppedCommitted, StoppedUnsaved
  <2> QED BY <1>0, <2>1, <2>2, <2>3, Decided DEF Holds
<1>15. ASSUME NEW t \in Turns, NEW from \in ReplaceFroms, StoppedCommitted(t, from)
       PROVE  Log!CommitTurn(t)
  <2>1. /\ messages = stored /\ stored \in Seq(Message) /\ IsTranscript(stored)
        /\ from \in Int \cup {NoIndex}
    BY SessionAssumption DEF SessionInv, SessionTypeOK, CacheIsStored, StoredIsTranscript
  <2>2. KeepFor(messages, from) \in 0..Len(messages) /\ KeepFor(messages, from) % 2 = 0
    BY <1>15, <2>1, KeptIsEven DEF StoppedCommitted
  <2>3. KeepFor(messages, from) \in Nat /\ 0 \in 0..MaxParts
    BY <2>2, TranscriptAssumption
  <2> QED BY <1>14, <1>15, <2>2, <2>3, CommitIsLogged DEF StoppedCommitted
<1>16. ASSUME NEW t \in Turns, NEW from \in ReplaceFroms, StoppedUnsaved(t, from)
       PROVE  GivenUp(t) \/ Kept
  BY <1>7, <1>14, <1>16 DEF StoppedUnsaved, CommitFails
<1>17. ASSUME NEW t \in Turns, Close(t) PROVE GivenUp(t) \/ Kept
  <2> DEFINE outcome == IF stream[t].completed THEN "none" ELSE "cancelled"
  <2>1. outcome \in Records BY DEF Records
  <2>2. Over(stream[t], outcome) \in StreamFields /\ Over(stream[t], outcome).finalized
    BY <1>0, <2>1, OverType DEF SessionTypeOK
  <2>3. Undecided' = Undecided \ {t}
    BY <1>0, <1>6, <1>17, <2>2 DEF Close, SessionTypeOK
  <2> QED BY <1>7, <1>17, <2>3 DEF Close
<1>18. CASE UNCHANGED sessionVars
  BY <1>18 DEF sessionVars, Undecided, Holds
<1> QED
  BY <1>1, <1>2, <1>3, <1>4, <1>5, <1>8, <1>9, <1>10, <1>11, <1>12, <1>13, <1>15,
     <1>16, <1>17, <1>18
  DEF SessionNext, SendStep, StreamStep, StopStep, PartialIgnored, sessionVars, Undecided, Holds

(***************************************************************************)
(* Every behaviour of a session is one of the conversation log: each turn  *)
(* is written at most once, as a whole, and not after it was given up.     *)
(***************************************************************************)
THEOREM SessionImplementsLog == SessionSpec => WritesEachTurnOnce
<1>1. SessionSpec => []OpeningIsFresh
  BY OpeningInit, OpeningNext, SessionInvHolds, PTL DEF SessionSpec
<1>2. SessionSpec => Log!LogInit /\ [][Log!LogNext]_(Log!logVars)
  BY <1>1, LoggedInit, LoggedNext, SessionInvHolds, PTL DEF SessionSpec
<1> QED BY <1>2 DEF WritesEachTurnOnce, Log!LogSpec

----------------------------------------------------------------------------
(***************************************************************************)
(* A turn that may still be written is not in the conversation yet: what   *)
(* the log promises of each turn, seen from the store.                     *)
(***************************************************************************)
Mentions(msgs, t) == \E i \in 1..Len(msgs) : msgs[i].turn = t

UndecidedIsAbsent == \A t \in Undecided : ~Mentions(stored, t)

\* Writing one turn brings no other turn into the conversation.
LEMMA WritesOneTurn ==
    ASSUME stored \in Seq(Message), NEW t \in Turns, NEW u \in Turns, u # t,
           NEW keep \in 0..Len(stored), NEW parts \in Nat, NEW completed \in BOOLEAN,
           stored' = SubSeq(stored, 1, keep) \o <<Prompt(t), Reply(t, parts, completed)>>,
           Mentions(stored', u)
    PROVE  Mentions(stored, u)
<1>1. /\ Len(stored') = keep + 2
      /\ \A i \in 1..keep : stored'[i] = stored[i]
      /\ stored'[keep + 1] = Prompt(t)
      /\ stored'[keep + 2] = Reply(t, parts, completed)
  <2>1. PICK reply \in Message : reply = Reply(t, parts, completed) BY ReplyType
  <2>2. stored' = SubSeq(stored, 1, keep) \o <<Prompt(t), reply>> BY <2>1
  <2>3. /\ stored' \in Seq(Message) /\ Len(stored') = keep + 2
        /\ \A i \in 1..keep : stored'[i] = stored[i]
        /\ stored'[keep + 1] = Prompt(t) /\ stored'[keep + 2] = reply
    BY ONLY <2>2, stored \in Seq(Message), keep \in 0..Len(stored), t \in Turns,
            reply \in Message, TurnAtEnd
  <2> QED BY <2>1, <2>3
<1>2. PICK i \in 1..Len(stored') : stored'[i].turn = u BY DEF Mentions
<1>3. Prompt(t).turn = t /\ Reply(t, parts, completed).turn = t BY DEF Prompt, Reply
<1>4. i # keep + 1 /\ i # keep + 2 BY <1>1, <1>2, <1>3
<1>4a. keep \in Nat /\ i \in 1..(keep + 2) BY <1>1
<1>4b. i \in 1..keep BY <1>4, <1>4a
<1>5. i \in 1..Len(stored) /\ stored[i].turn = u BY <1>1, <1>2, <1>4b
<1> QED BY <1>5 DEF Mentions

\* A commit of the log brings no other turn into the conversation.
LEMMA CommitAddsOneTurn ==
    ASSUME stored \in Seq(Message), NEW t \in Turns, NEW u \in Turns, u # t,
           Log!CommitTurn(t), Mentions(stored', u)
    PROVE  Mentions(stored, u)
<1>1. PICK keep \in 0..Len(stored), parts \in 0..MaxParts, completed \in BOOLEAN :
         stored' = SubSeq(stored, 1, keep)
                      \o <<Log!Prompt(t), Log!Reply(t, parts, completed)>>
  BY DEF Log!CommitTurn
<1>2. /\ Log!Prompt(t) = Prompt(t)
      /\ Log!Reply(t, parts, completed) = Reply(t, parts, completed)
  BY DEF Prompt, Reply, Log!Prompt, Log!Reply
<1>3. parts \in Nat BY TranscriptAssumption
<1>4. stored' = SubSeq(stored, 1, keep) \o <<Prompt(t), Reply(t, parts, completed)>>
  BY <1>1, <1>2
<1> QED BY <1>3, <1>4, WritesOneTurn

\* The history was written before any turn the callers start.
LEMMA AbsentInit == SessionInit => UndecidedIsAbsent
<1> SUFFICES ASSUME SessionInit, NEW t \in Turns, NEW i \in 1..Len(stored), stored[i].turn = t
             PROVE  FALSE
  BY DEF UndecidedIsAbsent, Undecided, Mentions
<1> QED BY TranscriptAssumption DEF SessionInit

\* A step writes a turn that was undecided, and decides it.
LEMMA AbsentNext ==
    SessionInv /\ OpeningIsFresh /\ UndecidedIsAbsent /\ [SessionNext]_sessionVars
    => UndecidedIsAbsent'
<1> SUFFICES ASSUME SessionInv, OpeningIsFresh, UndecidedIsAbsent, [SessionNext]_sessionVars
             PROVE  UndecidedIsAbsent'
  OBVIOUS
<1>0. stored \in Seq(Message) BY DEF SessionInv, SessionTypeOK
<1>1. \/ \E t \in Turns : Log!CommitTurn(t) \/ Log!GiveUpTurn(t)
      \/ UNCHANGED <<stored, Undecided>>
  BY LoggedNext DEF Log!LogNext, Log!logVars
<1>2. ASSUME NEW t \in Turns, Log!CommitTurn(t) PROVE UndecidedIsAbsent'
  <2> SUFFICES ASSUME NEW u \in Undecided', Mentions(stored', u) PROVE FALSE
    BY DEF UndecidedIsAbsent, Mentions
  <2>1. u \in Undecided /\ u # t BY <1>2 DEF Log!CommitTurn
  <2>2. u \in Turns BY <2>1 DEF Undecided
  <2>3. Mentions(stored, u) BY <1>0, <1>2, <2>1, <2>2, CommitAddsOneTurn
  <2> QED BY <2>1, <2>3 DEF UndecidedIsAbsent
<1>3. ASSUME NEW t \in Turns, Log!GiveUpTurn(t) PROVE UndecidedIsAbsent'
  BY <1>3 DEF Log!GiveUpTurn, UndecidedIsAbsent, Mentions
<1>4. CASE UNCHANGED <<stored, Undecided>> BY <1>4 DEF UndecidedIsAbsent, Mentions
<1> QED BY <1>1, <1>2, <1>3, <1>4

LEMMA AbsentHolds == SessionSpec => []UndecidedIsAbsent
<1>1. SessionSpec => []OpeningIsFresh
  BY OpeningInit, OpeningNext, SessionInvHolds, PTL DEF SessionSpec
<1> QED BY <1>1, AbsentInit, AbsentNext, SessionInvHolds, PTL DEF SessionSpec

(***************************************************************************)
(* What a commit leaves at the end of the conversation.                    *)
(***************************************************************************)
LEMMA CommitEndsWithReply ==
    ASSUME stored \in Seq(Message), NEW t \in Turns, NEW replace \in BOOLEAN, NEW keep \in Nat,
           NEW parts \in Nat, NEW completed \in BOOLEAN,
           Commit(t, replace, keep, Reply(t, parts, completed))
    PROVE  /\ stored' \in Seq(Message)
           /\ Len(stored') \in Nat \ {0}
           /\ stored'[Len(stored')] = Reply(t, parts, completed)
<1>1. PICK n \in 0..Len(stored) :
         stored' = SubSeq(stored, 1, n) \o <<Prompt(t), Reply(t, parts, completed)>>
  BY CommitShape
<1>2. PICK reply \in Message : reply = Reply(t, parts, completed) BY ReplyType
<1>3. stored' = SubSeq(stored, 1, n) \o <<Prompt(t), reply>> BY <1>1, <1>2
<1>4. /\ stored' \in Seq(Message) /\ Len(stored') = n + 2
      /\ \A i \in 1..n : stored'[i] = stored[i]
      /\ stored'[n + 1] = Prompt(t) /\ stored'[n + 2] = reply
  BY ONLY <1>3, stored \in Seq(Message), n \in 0..Len(stored), t \in Turns,
          reply \in Message, TurnAtEnd
<1> QED BY <1>2, <1>4

\* A turn becomes completed in the step that saw its completed event.
LEMMA OnlyCompletingCounts ==
    ASSUME SessionInv, [SessionNext]_sessionVars, NEW t \in Turns,
           stream'[t].recorded = "completed", stream[t].recorded # "completed"
    PROVE  NextCompletes(t)
<1>0. stream \in [Turns -> StreamFields] BY DEF SessionInv, SessionTypeOK
<1>1. stream' # stream OBVIOUS
<1>1a. ASSUME NEW u \in Turns, NEW s, s.recorded # "completed",
              stream' = [stream EXCEPT ![u] = s]
       PROVE  FALSE
  BY <1>0, <1>1a
<1>1b. ASSUME NEW u \in Turns, NEW from \in ReplaceFroms, SendAccepted(u, from) PROVE FALSE
  BY <1>1a, <1>1b DEF SendAccepted, TurnStream
<1>1c. ASSUME NEW u \in Turns, NEW from \in ReplaceFroms,
              SendRejected(u, from) \/ StoppedCommitted(u, from) \/ StoppedUnsaved(u, from)
       PROVE  FALSE
  BY <1>1, <1>1c DEF SendRejected, StoppedCommitted, StoppedUnsaved
<1>2. ASSUME NEW u \in Turns, StreamOpened(u) \/ PartialIgnored(u) \/ PartialUnsaved(u)
      PROVE  FALSE
  BY <1>1, <1>2 DEF StreamOpened, PartialIgnored, PartialUnsaved, sessionVars
<1>2a. ASSUME NEW u \in Turns, StreamRefused(u) PROVE FALSE
  BY <1>0, <1>2a DEF StreamRefused, StreamFields
<1>2b. ASSUME NEW u \in Turns, NextPart(u) PROVE FALSE
  BY <1>0, <1>2b DEF NextPart, StreamFields
<1>2c. ASSUME NEW u \in Turns, PartialCommitted(u) PROVE FALSE
  BY <1>0, <1>2c DEF PartialCommitted, StreamFields
<1>3. ASSUME NEW u \in Turns, NEW s \in StreamFields, NEW outcome \in Records,
             outcome # "completed", s.recorded = Recorded(stream[u], outcome),
             stream' = [stream EXCEPT ![u] = s]
      PROVE  FALSE
  BY <1>0, <1>3 DEF Recorded
<1>4. ASSUME NEW u \in Turns, NextCompletes(u) PROVE u = t
  BY <1>0, <1>4 DEF NextCompletes
<1>5. ASSUME NEW u \in Turns, NEW outcome \in Records
      PROVE  /\ Over(stream[u], outcome) \in StreamFields
             /\ Over(stream[u], outcome).recorded = Recorded(stream[u], outcome)
             /\ Over(Completed(stream[u]), outcome) \in StreamFields
             /\ Over(Completed(stream[u]), outcome).recorded = Recorded(stream[u], outcome)
  <2>1. stream[u] \in StreamFields BY <1>0
  <2>2. Over(stream[u], outcome) \in StreamFields
        /\ Over(Completed(stream[u]), outcome) \in StreamFields
    BY <2>1, OverType, CompletedType
  <2> QED BY <2>1, <2>2 DEF Over, Completed, Recorded, StreamFields
<1>6. ASSUME NEW u \in Turns, NextCompletesUnsaved(u) PROVE FALSE
  <2>1. "failed" \in Records BY DEF Records
  <2> QED BY <1>3, <1>5, <1>6, <2>1 DEF NextCompletesUnsaved
<1>7. ASSUME NEW u \in Turns, NextFails(u) PROVE FALSE
  <2>1. "failed" \in Records BY DEF Records
  <2> QED BY <1>3, <1>5, <1>7, <2>1 DEF NextFails
<1>8. ASSUME NEW u \in Turns, NextCancelled(u) PROVE FALSE
  BY <1>0, <1>8 DEF NextCancelled, Recorded, StreamFields
<1>9. ASSUME NEW u \in Turns, Close(u) PROVE FALSE
  <2> DEFINE outcome == IF stream[u].completed THEN "none" ELSE "cancelled"
  <2>1. outcome \in Records /\ outcome # "completed" BY DEF Records
  <2>2. stream' = [stream EXCEPT ![u] = Over(stream[u], outcome)] BY <1>9 DEF Close
  <2> HIDE DEF outcome
  <2> QED BY <1>3, <1>5, <2>1, <2>2
<1>10. CASE UNCHANGED sessionVars BY <1>10 DEF sessionVars
<1> QED
  BY <1>1b, <1>1c, <1>2, <1>2a, <1>2b, <1>2c, <1>4, <1>6, <1>7, <1>8, <1>9, <1>10
  DEF SessionNext, SendStep, StreamStep, StopStep

\* The step that counts a turn as completed writes it.
LEMMA CompletedStep ==
    ASSUME SessionInv, UndecidedIsAbsent, [SessionNext]_sessionVars, NEW t \in Turns,
           stream'[t].recorded = "completed", stream[t].recorded # "completed"
    PROVE  /\ stored' # stored
           /\ stored'[Len(stored')] = Reply(t, stream[t].parts, TRUE)
<1>1. NextCompletes(t) BY OnlyCompletingCounts
<1>2. stored \in Seq(Message) /\ stream[t] \in StreamFields
  BY DEF SessionInv, SessionTypeOK
<1>3. stream[t].replace \in BOOLEAN /\ stream[t].keep \in Nat /\ stream[t].parts \in Nat
  BY <1>2, TranscriptAssumption DEF StreamFields
<1>4. /\ Len(stored') \in Nat \ {0}
      /\ stored'[Len(stored')] = Reply(t, stream[t].parts, TRUE)
  BY <1>1, <1>2, <1>3, CommitEndsWithReply DEF NextCompletes
<1>5. Reply(t, stream[t].parts, TRUE).turn = t BY DEF Reply
<1>6. Mentions(stored', t)
  <2>1. Len(stored') \in 1..Len(stored') BY <1>4
  <2>2. stored'[Len(stored')].turn = t BY <1>4, <1>5
  <2> QED BY <2>1, <2>2 DEF Mentions
<1>7. t \in Undecided BY <1>1 DEF NextCompletes, Undecided, Holds
<1>8. ~Mentions(stored, t) BY <1>7 DEF UndecidedIsAbsent
<1> QED BY <1>4, <1>6, <1>8

(***************************************************************************)
(* The telemetry counts a turn as completed only where its completed reply *)
(* is written, whatever the other callers of the session do.               *)
(***************************************************************************)
THEOREM CompletedIsAlwaysWritten == SessionSpec => CompletedIsWritten
<1>1. SessionSpec => []UndecidedIsAbsent BY AbsentHolds
<1>2. SessionInv /\ UndecidedIsAbsent /\ [SessionNext]_sessionVars
      => [\A t \in Turns :
             stream'[t].recorded = "completed" /\ stream[t].recorded # "completed"
             => /\ stored' # stored
                /\ stored'[Len(stored')] = Reply(t, stream[t].parts, TRUE)]_sessionVars
  BY CompletedStep
<1> QED BY <1>1, <1>2, SessionInvHolds, PTL DEF SessionSpec, CompletedIsWritten

----------------------------------------------------------------------------
(***************************************************************************)
(* Part II. The turns of a browser session.                                *)
(***************************************************************************)

(***************************************************************************)
(* The inductive invariant: where a goroutine is fixes where its           *)
(* TurnStream is, what it published and how the telemetry counted it.      *)
(***************************************************************************)
InStep(t) ==
    /\ job[t].pc # "idle" => job[t].from \in ReplaceFroms
    /\ job[t].pc \in {"idle", "validated", "rejected", "created"} => phase[t] = "idle"
    /\ job[t].pc = "opening" => phase[t] = "opening"
    /\ job[t].pc = "reading" => phase[t] = "open"
    /\ job[t].pc \in {"judging", "stopping", "failing"} => phase[t] \in {"ended", "refused"}
    /\ job[t].pc = "publishing" => phase[t] \in {"open", "ended", "refused", "closed"}
    /\ job[t].pc = "closing" => phase[t] \in {"open", "ended"}
    /\ job[t].pc \in {"finishing", "finished"} => phase[t] \in {"refused", "closed"}

Reported(t) ==
    /\ IsTerminal(t) <=> job[t].pc \in {"closing", "finishing", "finished"}
    /\ IsTerminal(t) => job[t].terminal = job[t].verdict
    /\ job[t].verdict = "none"
         <=> job[t].pc \notin {"publishing", "closing", "finishing", "finished"}
    /\ job[t].done <=> job[t].pc = "finished"

Counted(t) ==
    /\ job[t].pc \in {"idle", "validated", "rejected", "created", "opening", "reading"}
         => stream[t].recorded = "none"
    /\ (stream[t].recorded = "completed") <=> (job[t].verdict = "done")
    /\ job[t].pc \in {"opening", "reading"} => ~stream[t].completed

AnswerAfterDone ==
    \A a \in AbortRequests : abort[a].pc = "answered" => job[abort[a].turn].done

JobInv ==
    /\ TypeOK
    /\ SessionInv
    /\ \A t \in Turns : InStep(t) /\ Reported(t) /\ Counted(t)
    /\ OneTurnRuns
    /\ AnswerAfterDone

----------------------------------------------------------------------------
(***************************************************************************)
(* A job is driven with an index the create request passed, so each step   *)
(* of the server is a step some caller of the session may take.            *)
(***************************************************************************)
LEMMA StepIsSessionStep ==
    ASSUME \A t \in Turns : InStep(t), [Next]_vars
    PROVE  [SessionNext]_sessionVars
<1>1. ASSUME NEW t \in Turns, RunSend(t) PROVE SessionNext
  <2>1. job[t].from \in ReplaceFroms BY <1>1 DEF RunSend, InStep
  <2> QED BY <1>1, <2>1 DEF RunSend, SessionNext, SendStep
<1>2. ASSUME NEW t \in Turns, RunOpen(t) PROVE SessionNext
  BY <1>2 DEF RunOpen, SessionNext, SendStep
<1>3. ASSUME NEW t \in Turns, RunNext(t) PROVE SessionNext
  BY <1>3 DEF RunNext, SessionNext, StreamStep
<1>4. ASSUME NEW t \in Turns, RunStop(t) PROVE SessionNext
  <2>1. job[t].from \in ReplaceFroms BY <1>4 DEF RunStop, InStep
  <2> QED BY <1>4, <2>1 DEF RunStop, SessionNext, StreamStep, StopStep
<1>5. ASSUME NEW t \in Turns, RunClose(t) PROVE SessionNext
  BY <1>5 DEF RunClose, SessionNext, StreamStep
<1>6. ASSUME NEW t \in Turns,
             \/ ValidateCreate(t) \/ Gate(t) \/ RunJudge(t)
             \/ RunFail(t) \/ RunPublish(t) \/ RunFinish(t)
      PROVE  UNCHANGED sessionVars
  BY <1>6 DEF ValidateCreate, Gate, RunJudge, RunFail, RunPublish, RunFinish
<1>7. ASSUME NEW a \in AbortRequests, NEW t \in Turns,
             AbortStep(a) \/ AbortLeave(a) \/ AbortEnter(a, t)
      PROVE  UNCHANGED sessionVars
  BY <1>7 DEF AbortStep, AbortCancel, AbortAnswer, AbortLeave, AbortEnter
<1>7a. ASSUME NEW a \in AbortRequests, AbortStep(a) \/ AbortLeave(a)
       PROVE  UNCHANGED sessionVars
  BY <1>7a DEF AbortStep, AbortCancel, AbortAnswer, AbortLeave
<1>8. CASE UNCHANGED vars BY <1>8 DEF vars
<1> QED
  BY <1>1, <1>2, <1>3, <1>4, <1>5, <1>6, <1>7, <1>7a, <1>8
  DEF Next, ServerStep, ProviderStep

(***************************************************************************)
(* A step of the goroutine or the create handler of one turn, checked for  *)
(* that turn alone.                                                        *)
(***************************************************************************)
LEMMA OneTurnSteps ==
    ASSUME JobInv, NEW t \in Turns, NEW r \in JobFields,
           job' = [job EXCEPT ![t] = r], abort' = abort,
           [SessionNext]_sessionVars,
           \A u \in Turns : u # t => phase'[u] = phase[u] /\ stream'[u] = stream[u],
           InStep(t)', Reported(t)', Counted(t)',
           Running(t)' => Running(t) \/ \A u \in Turns : ~Running(u),
           job[t].done => r.done,
           t \in Registered => t \in Registered'
    PROVE  JobInv'
<1>0. TypeOK /\ SessionInv /\ OneTurnRuns /\ AnswerAfterDone
      /\ \A u \in Turns : InStep(u) /\ Reported(u) /\ Counted(u)
  BY DEF JobInv
<1>1. job \in [Turns -> JobFields] BY <1>0 DEF TypeOK
<1>2. job'[t] = r /\ \A u \in Turns : u # t => job'[u] = job[u] BY <1>1
<1>3. SessionInv' BY <1>0, SessionInvNext
<1>4. Registered \subseteq Registered'
  BY <1>2 DEF Registered
<1>5. TypeOK'
  BY <1>0, <1>1, <1>3, <1>4 DEF TypeOK, SessionInv
<1>6. ASSUME NEW u \in Turns PROVE (InStep(u) /\ Reported(u) /\ Counted(u))'
  <2>1. CASE u # t
    <3>1. job'[u] = job[u] /\ phase'[u] = phase[u] /\ stream'[u] = stream[u]
      BY <1>2, <2>1
    <3> QED BY <1>0, <3>1 DEF InStep, Reported, Counted, IsTerminal
  <2> QED BY <2>1
<1>7. OneTurnRuns'
  <2>1. \A u \in Turns : u # t => (Running(u)' <=> Running(u))
    BY <1>2 DEF Running, Registered, IsTerminal
  <2> QED BY <1>0, <2>1 DEF OneTurnRuns
<1>8. AnswerAfterDone'
  <2> SUFFICES ASSUME NEW a \in AbortRequests, abort[a].pc = "answered"
               PROVE  job'[abort[a].turn].done
    BY DEF AnswerAfterDone
  <2>1. abort[a].turn \in Turns /\ job[abort[a].turn].done
    BY <1>0 DEF AnswerAfterDone, TypeOK, Registered
  <2> QED BY <1>2, <2>1
<1> QED BY <1>3, <1>5, <1>6, <1>7, <1>8 DEF JobInv

\* A server with no request satisfies the invariant.
LEMMA JobInit == Init => JobInv
<1> SUFFICES ASSUME Init PROVE JobInv OBVIOUS
<1>1. SessionInv BY SessionInvInit DEF Init
<1>2. NewJob \in JobFields
  BY DEF NewJob, JobFields, PCs, Verdicts
<1>3. \A t \in Turns : job[t] = NewJob /\ phase[t] = "idle" /\ stream[t] = TurnStream(FALSE, 0, <<>>)
  BY DEF Init, SessionInit
<1>4. TypeOK
  BY <1>1, <1>2 DEF Init, TypeOK, SessionInv, AbortFields
<1>5. ASSUME NEW t \in Turns PROVE InStep(t) /\ Reported(t) /\ Counted(t)
  BY <1>3 DEF InStep, Reported, Counted, IsTerminal, NewJob, TurnStream
<1>6. OneTurnRuns
  <2>1. \A t \in Turns : job[t].pc = "idle" BY DEF Init, NewJob
  <2>2. \A t \in Turns : t \notin Registered BY <2>1 DEF Registered
  <2> QED BY <2>2 DEF OneTurnRuns, Running
<1>7. AnswerAfterDone BY DEF Init, AnswerAfterDone
<1> QED BY <1>1, <1>4, <1>5, <1>6, <1>7 DEF JobInv

(***************************************************************************)
(* What the lemmas below use of the state before a step of turn t.         *)
(***************************************************************************)
LEMMA Before ==
    ASSUME JobInv, NEW t \in Turns
    PROVE  /\ job \in [Turns -> JobFields] /\ job[t] \in JobFields
           /\ phase \in [Turns -> Phases]
           /\ stream \in [Turns -> StreamFields] /\ stream[t] \in StreamFields
           /\ InStep(t) /\ Reported(t) /\ Counted(t)
BY DEF JobInv, TypeOK, SessionTypeOK

\* The validation of a create request.
LEMMA ValidateCreateStep ==
    ASSUME JobInv, NEW t \in Turns, ValidateCreate(t), [SessionNext]_sessionVars
    PROVE  JobInv'
<1>0. /\ job \in [Turns -> JobFields] /\ job[t] \in JobFields
      /\ InStep(t) /\ Reported(t) /\ Counted(t)
  BY Before
<1>1. PICK from \in ReplaceFroms, pc \in {"validated", "rejected"} :
         job' = [job EXCEPT ![t] = [@ EXCEPT !.pc = pc, !.from = from]]
  BY DEF ValidateCreate
<1> DEFINE r == [job[t] EXCEPT !.pc = pc, !.from = from]
<1>2. /\ job' = [job EXCEPT ![t] = r] /\ abort' = abort
      /\ phase' = phase /\ stream' = stream /\ job[t].pc = "idle"
  BY <1>1 DEF ValidateCreate, sessionVars
<1>3. r \in JobFields /\ r.pc = pc /\ r.from = from /\ r.err = job[t].err
      /\ r.verdict = job[t].verdict /\ r.terminal = job[t].terminal /\ r.done = job[t].done
  BY <1>0, SessionAssumption DEF JobFields, PCs
<1> HIDE DEF r
<1>4. job'[t] = r BY <1>0, <1>2
<1>5. (InStep(t) /\ Reported(t) /\ Counted(t))'
  BY <1>0, <1>2, <1>3, <1>4 DEF InStep, Reported, Counted, IsTerminal
<1>6. ~Running(t)' /\ t \notin Registered
  BY <1>2, <1>3, <1>4 DEF Running, Registered
<1> QED BY <1>2, <1>3, <1>5, <1>6, OneTurnSteps

(***************************************************************************)
(* The three ways the goroutine of turn t moves on.                        *)
(***************************************************************************)
Keeps(r, t) ==
    /\ r.from = job[t].from /\ r.terminal = job[t].terminal /\ r.done = job[t].done
    /\ r.abortRequested = job[t].abortRequested /\ r.cancelled = job[t].cancelled

\* It only moves on (Goto).
LEMMA GotoMoves ==
    ASSUME JobInv, NEW t \in Turns, NEW pc \in PCs, Goto(t, pc)
    PROVE  \E r \in JobFields :
              /\ job' = [job EXCEPT ![t] = r] /\ job'[t] = r
              /\ r.pc = pc /\ r.verdict = job[t].verdict /\ r.err = job[t].err /\ Keeps(r, t)
<1>0. job \in [Turns -> JobFields] /\ job[t] \in JobFields BY Before
<1> DEFINE r == [job[t] EXCEPT !.pc = pc]
<1>1. job' = [job EXCEPT ![t] = r] BY DEF Goto
<1>2. r \in JobFields /\ r.pc = pc /\ r.verdict = job[t].verdict /\ r.err = job[t].err /\ Keeps(r, t)
  BY <1>0 DEF JobFields, Keeps
<1> HIDE DEF r
<1> QED BY <1>0, <1>1, <1>2

\* It judges an error (FailWith).
LEMMA FailMoves ==
    ASSUME JobInv, NEW t \in Turns, NEW err \in {"other", "canceled"}, FailWith(t, err)
    PROVE  \E r \in JobFields :
              /\ job' = [job EXCEPT ![t] = r] /\ job'[t] = r
              /\ r.pc = "judging" /\ r.verdict = job[t].verdict /\ r.err = err /\ Keeps(r, t)
<1>0. job \in [Turns -> JobFields] /\ job[t] \in JobFields BY Before
<1> DEFINE r == [job[t] EXCEPT !.pc = "judging", !.err = err]
<1>1. job' = [job EXCEPT ![t] = r] BY DEF FailWith
<1>2. r \in JobFields /\ r.pc = "judging" /\ r.verdict = job[t].verdict /\ r.err = err /\ Keeps(r, t)
  BY <1>0 DEF JobFields, Keeps, PCs
<1> HIDE DEF r
<1> QED BY <1>0, <1>1, <1>2

\* It publishes a verdict (Publish).
LEMMA PublishMoves ==
    ASSUME JobInv, NEW t \in Turns, NEW verdict \in Verdicts, Publish(t, verdict)
    PROVE  \E r \in JobFields :
              /\ job' = [job EXCEPT ![t] = r] /\ job'[t] = r
              /\ r.pc = "publishing" /\ r.verdict = verdict /\ r.err = job[t].err /\ Keeps(r, t)
<1>0. job \in [Turns -> JobFields] /\ job[t] \in JobFields BY Before
<1> DEFINE r == [job[t] EXCEPT !.pc = "publishing", !.verdict = verdict]
<1>1. job' = [job EXCEPT ![t] = r] BY DEF Publish
<1>2. r \in JobFields /\ r.pc = "publishing" /\ r.verdict = verdict /\ r.err = job[t].err /\ Keeps(r, t)
  BY <1>0 DEF JobFields, Keeps, PCs
<1> HIDE DEF r
<1> QED BY <1>0, <1>1, <1>2

(***************************************************************************)
(* A step of a goroutine that ends no turn and registers none.             *)
(***************************************************************************)
LEMMA GoroutineSteps ==
    ASSUME JobInv, NEW t \in Turns, NEW r \in JobFields,
           job' = [job EXCEPT ![t] = r], abort' = abort,
           [SessionNext]_sessionVars,
           \A u \in Turns : u # t => phase'[u] = phase[u] /\ stream'[u] = stream[u],
           InStep(t)', Reported(t)', Counted(t)',
           job[t].pc \notin {"idle", "validated", "rejected", "finished"},
           r.pc \notin {"idle", "validated", "rejected"},
           ~IsTerminal(t) \/ r.terminal # "open"
    PROVE  JobInv'
<1>1. job'[t] = r BY Before
<1>2. t \in Registered /\ t \in Registered' BY <1>1 DEF Registered
<1>3. Running(t)' => Running(t) BY <1>1, <1>2 DEF Running, IsTerminal
<1>4. ~job[t].done BY Before DEF Reported
<1> QED BY <1>2, <1>3, <1>4, OneTurnSteps

\* The gate.
LEMMA GateStep ==
    ASSUME JobInv, NEW t \in Turns, Gate(t), [SessionNext]_sessionVars
    PROVE  JobInv'
<1>0. InStep(t) /\ Reported(t) /\ Counted(t) BY Before
<1> DEFINE pc == IF \A u \in Registered : IsTerminal(u) THEN "created" ELSE "rejected"
<1>1. pc \in {"created", "rejected"} /\ (pc = "created" => \A u \in Turns : ~Running(u))
  BY DEF Running
<1>2. /\ Goto(t, pc) /\ abort' = abort
      /\ phase' = phase /\ stream' = stream /\ job[t].pc = "validated"
  BY DEF Gate, sessionVars
<1> HIDE DEF pc
<1>3. PICK r \in JobFields :
        /\ job' = [job EXCEPT ![t] = r] /\ job'[t] = r
        /\ r.pc = pc /\ r.verdict = job[t].verdict /\ Keeps(r, t)
  BY <1>1, <1>2, GotoMoves DEF PCs
<1>4. (InStep(t) /\ Reported(t) /\ Counted(t))'
  BY <1>0, <1>1, <1>2, <1>3 DEF InStep, Reported, Counted, IsTerminal, Keeps
<1>5. t \notin Registered /\ (Running(t)' => \A u \in Turns : ~Running(u))
  BY <1>1, <1>2, <1>3 DEF Running, Registered
<1>6. job[t].done => r.done BY <1>3 DEF Keeps
<1> QED BY <1>2, <1>3, <1>4, <1>5, <1>6, OneTurnSteps

\* turnJob.run, Send.
LEMMA RunSendStep ==
    ASSUME JobInv, NEW t \in Turns, RunSend(t), [SessionNext]_sessionVars
    PROVE  JobInv'
<1>0. /\ phase \in [Turns -> Phases] /\ stream \in [Turns -> StreamFields]
      /\ InStep(t) /\ Reported(t) /\ Counted(t)
  BY Before
<1>1. job[t].pc = "created" /\ abort' = abort BY DEF RunSend
<1>2. CASE SendAccepted(t, job[t].from) /\ Goto(t, "opening")
  <2>1. PICK r \in JobFields :
          /\ job' = [job EXCEPT ![t] = r] /\ job'[t] = r
          /\ r.pc = "opening" /\ r.verdict = job[t].verdict /\ Keeps(r, t)
    BY <1>2, GotoMoves DEF PCs
  <2>2. /\ phase'[t] = "opening"
        /\ stream'[t].recorded = "none" /\ ~stream'[t].completed
        /\ \A u \in Turns : u # t => phase'[u] = phase[u] /\ stream'[u] = stream[u]
    BY <1>0, <1>2 DEF SendAccepted, TurnStream
  <2>3. (InStep(t) /\ Reported(t) /\ Counted(t))'
    BY <1>0, <1>1, <2>1, <2>2 DEF InStep, Reported, Counted, IsTerminal, Keeps
  <2>4. ~IsTerminal(t) BY <1>0, <1>1 DEF Reported
  <2> QED BY <1>1, <2>1, <2>2, <2>3, <2>4, GoroutineSteps
<1>3. CASE SendRejected(t, job[t].from) /\ FailWith(t, "other")
  <2>1. PICK r \in JobFields :
          /\ job' = [job EXCEPT ![t] = r] /\ job'[t] = r
          /\ r.pc = "judging" /\ r.verdict = job[t].verdict /\ Keeps(r, t)
    BY <1>3, FailMoves
  <2>2. /\ phase'[t] = "refused" /\ stream' = stream
        /\ \A u \in Turns : u # t => phase'[u] = phase[u]
    BY <1>0, <1>3 DEF SendRejected
  <2>3. (InStep(t) /\ Reported(t) /\ Counted(t))'
    BY <1>0, <1>1, <2>1, <2>2 DEF InStep, Reported, Counted, IsTerminal, Keeps
  <2>4. ~IsTerminal(t) BY <1>0, <1>1 DEF Reported
  <2> QED BY <1>1, <2>1, <2>2, <2>3, <2>4, GoroutineSteps
<1> QED BY <1>2, <1>3 DEF RunSend

\* turnJob.run, the call of client.Stream.
LEMMA RunOpenStep ==
    ASSUME JobInv, NEW t \in Turns, RunOpen(t), [SessionNext]_sessionVars
    PROVE  JobInv'
<1>0. /\ phase \in [Turns -> Phases] /\ stream \in [Turns -> StreamFields]
      /\ InStep(t) /\ Reported(t) /\ Counted(t)
  BY Before
<1>1. job[t].pc = "opening" /\ abort' = abort BY DEF RunOpen
<1>2. CASE StreamOpened(t) /\ Goto(t, "reading")
  <2>1. PICK r \in JobFields :
          /\ job' = [job EXCEPT ![t] = r] /\ job'[t] = r
          /\ r.pc = "reading" /\ r.verdict = job[t].verdict /\ Keeps(r, t)
    BY <1>2, GotoMoves DEF PCs
  <2>2. /\ phase'[t] = "open" /\ stream' = stream
        /\ \A u \in Turns : u # t => phase'[u] = phase[u]
    BY <1>0, <1>2 DEF StreamOpened
  <2>3. ~stream[t].completed
    BY <1>0, <1>1 DEF Counted
  <2>4. (InStep(t) /\ Reported(t) /\ Counted(t))'
    BY <1>0, <1>1, <2>1, <2>2, <2>3 DEF InStep, Reported, Counted, IsTerminal, Keeps
  <2>5. ~IsTerminal(t) BY <1>0, <1>1 DEF Reported
  <2> QED BY <1>1, <2>1, <2>2, <2>4, <2>5, GoroutineSteps
<1>3. CASE StreamRefused(t) /\ \E err \in Errors(t) : FailWith(t, err)
  <2>1. PICK r \in JobFields :
          /\ job' = [job EXCEPT ![t] = r] /\ job'[t] = r
          /\ r.pc = "judging" /\ r.verdict = job[t].verdict /\ Keeps(r, t)
    BY <1>3, FailMoves DEF Errors
  <2>2. /\ phase'[t] = "refused" /\ stream'[t].recorded = "failed"
        /\ \A u \in Turns : u # t => phase'[u] = phase[u] /\ stream'[u] = stream[u]
    BY <1>0, <1>3 DEF StreamRefused, StreamFields
  <2>3. (InStep(t) /\ Reported(t) /\ Counted(t))'
    BY <1>0, <1>1, <2>1, <2>2 DEF InStep, Reported, Counted, IsTerminal, Keeps
  <2>4. ~IsTerminal(t) BY <1>0, <1>1 DEF Reported
  <2> QED BY <1>1, <2>1, <2>2, <2>3, <2>4, GoroutineSteps
<1> QED BY <1>2, <1>3 DEF RunOpen

(***************************************************************************)
(* The first outcome a stream is counted with is the one that stays.       *)
(***************************************************************************)
LEMMA OverCounts ==
    ASSUME NEW s \in StreamFields, NEW outcome \in Records
    PROVE  /\ Over(s, outcome).recorded = Recorded(s, outcome)
           /\ Over(Completed(s), outcome).recorded = Recorded(s, outcome)
           /\ Over(s, outcome).completed = s.completed
           /\ Over(s, outcome).finalized
           /\ Over(Completed(s), outcome).finalized
           /\ Over(Completed(s), outcome).completed
           /\ Over(Completed(s), outcome).parts = s.parts
BY DEF Over, Completed, Recorded, StreamFields

\* turnJob.run, TurnStream.Next.
LEMMA RunNextStep ==
    ASSUME JobInv, NEW t \in Turns, RunNext(t), [SessionNext]_sessionVars
    PROVE  JobInv'
<1>0. /\ phase \in [Turns -> Phases] /\ stream \in [Turns -> StreamFields]
      /\ stream[t] \in StreamFields
      /\ job \in [Turns -> JobFields] /\ job[t] \in JobFields
      /\ InStep(t) /\ Reported(t) /\ Counted(t)
  BY Before
<1>1. job[t].pc = "reading" /\ abort' = abort BY DEF RunNext
<1>2. /\ phase[t] = "open" /\ stream[t].recorded = "none" /\ ~stream[t].completed
      /\ ~IsTerminal(t)
  BY <1>0, <1>1 DEF InStep, Counted, Reported
<1>3. ASSUME NEW r \in JobFields, r.pc = "judging", r.verdict = job[t].verdict, Keeps(r, t),
             job' = [job EXCEPT ![t] = r], job'[t] = r,
             phase'[t] = "ended", stream'[t].recorded \in {"failed", "cancelled"},
             \A u \in Turns : u # t => phase'[u] = phase[u] /\ stream'[u] = stream[u]
      PROVE  JobInv'
  <2>1. (InStep(t) /\ Reported(t) /\ Counted(t))'
    BY <1>0, <1>1, <1>3 DEF InStep, Reported, Counted, IsTerminal, Keeps
  <2> QED BY <1>1, <1>2, <1>3, <2>1, GoroutineSteps
<1>4. CASE NextPart(t) /\ UNCHANGED job
  <2>1. /\ phase' = phase
        /\ stream'[t].recorded = stream[t].recorded
        /\ stream'[t].completed = stream[t].completed
        /\ \A u \in Turns : u # t => stream'[u] = stream[u]
    BY <1>0, <1>4 DEF NextPart, StreamFields
  <2>2. (InStep(t) /\ Reported(t) /\ Counted(t))'
    BY <1>0, <1>4, <2>1 DEF InStep, Reported, Counted, IsTerminal
  <2>3. job' = [job EXCEPT ![t] = job[t]] BY <1>0, <1>4
  <2> QED BY <1>0, <1>1, <1>2, <2>1, <2>2, <2>3, GoroutineSteps
<1>5. CASE NextCompletes(t) /\ Publish(t, "done")
  <2>1. PICK r \in JobFields :
          /\ job' = [job EXCEPT ![t] = r] /\ job'[t] = r
          /\ r.pc = "publishing" /\ r.verdict = "done" /\ Keeps(r, t)
    BY <1>5, PublishMoves DEF Verdicts
  <2>2. Recorded(stream[t], "completed") = "completed" BY <1>2 DEF Recorded
  <2>3. /\ phase' = phase /\ stream'[t].recorded = "completed"
        /\ \A u \in Turns : u # t => stream'[u] = stream[u]
    BY <1>0, <1>5, <2>2, OverCounts DEF NextCompletes, Records
  <2>4. (InStep(t) /\ Reported(t) /\ Counted(t))'
    BY <1>0, <1>1, <1>2, <2>1, <2>3 DEF InStep, Reported, Counted, IsTerminal, Keeps
  <2> QED BY <1>1, <1>2, <2>1, <2>3, <2>4, GoroutineSteps
<1>6. CASE NextCompletesUnsaved(t) /\ FailWith(t, "other")
  <2>1. Recorded(stream[t], "failed") = "failed" BY <1>2 DEF Recorded
  <2>2. /\ phase'[t] = "ended" /\ stream'[t].recorded = "failed"
        /\ \A u \in Turns : u # t => phase'[u] = phase[u] /\ stream'[u] = stream[u]
    BY <1>0, <1>6, <2>1, OverCounts DEF NextCompletesUnsaved, Records
  <2> QED BY <1>3, <1>6, <2>2, FailMoves
<1>7. CASE NextFails(t) /\ FailWith(t, "other")
  <2>1. Recorded(stream[t], "failed") = "failed" BY <1>2 DEF Recorded
  <2>2. /\ phase'[t] = "ended" /\ stream'[t].recorded = "failed"
        /\ \A u \in Turns : u # t => phase'[u] = phase[u] /\ stream'[u] = stream[u]
    BY <1>0, <1>7, <2>1, OverCounts DEF NextFails, Records
  <2> QED BY <1>3, <1>7, <2>2, FailMoves
<1>8. CASE NextCancelled(t) /\ FailWith(t, "canceled")
  <2>1. Recorded(stream[t], "cancelled") = "cancelled" BY <1>2 DEF Recorded
  <2>2. /\ phase'[t] = "ended" /\ stream'[t].recorded = "cancelled"
        /\ \A u \in Turns : u # t => phase'[u] = phase[u] /\ stream'[u] = stream[u]
    BY <1>0, <1>8, <2>1 DEF NextCancelled, StreamFields
  <2> QED BY <1>3, <1>8, <2>2, FailMoves
<1> QED BY <1>4, <1>5, <1>6, <1>7, <1>8 DEF RunNext

\* turnJob.run, what an error means.
LEMMA RunJudgeStep ==
    ASSUME JobInv, NEW t \in Turns, RunJudge(t), [SessionNext]_sessionVars
    PROVE  JobInv'
<1>0. InStep(t) /\ Reported(t) /\ Counted(t) BY Before
<1>1. /\ job[t].pc = "judging" /\ abort' = abort /\ phase' = phase /\ stream' = stream
      /\ \E pc \in {"stopping", "failing"} : Goto(t, pc)
  BY DEF RunJudge, sessionVars
<1>2. PICK pc \in {"stopping", "failing"} : Goto(t, pc) BY <1>1
<1>3. PICK r \in JobFields :
        /\ job' = [job EXCEPT ![t] = r] /\ job'[t] = r
        /\ r.pc = pc /\ r.verdict = job[t].verdict /\ Keeps(r, t)
  BY <1>2, GotoMoves DEF PCs
<1>4. (InStep(t) /\ Reported(t) /\ Counted(t))'
  BY <1>0, <1>1, <1>2, <1>3 DEF InStep, Reported, Counted, IsTerminal, Keeps
<1>5. ~IsTerminal(t) BY <1>0, <1>1 DEF Reported
<1> QED BY <1>1, <1>3, <1>4, <1>5, GoroutineSteps

\* emitAbortedAfterCommit.
LEMMA RunStopStep ==
    ASSUME JobInv, NEW t \in Turns, RunStop(t), [SessionNext]_sessionVars
    PROVE  JobInv'
<1>0. /\ phase \in [Turns -> Phases] /\ stream \in [Turns -> StreamFields]
      /\ InStep(t) /\ Reported(t) /\ Counted(t)
  BY Before
<1>1. job[t].pc = "stopping" /\ abort' = abort BY DEF RunStop
<1>2. PICK verdict \in {"aborted", "stream-error"} : Publish(t, verdict) BY DEF RunStop
<1>3. /\ phase'[t] \in {"ended", "closed"} /\ stream'[t].recorded = stream[t].recorded
      /\ \A u \in Turns : u # t => phase'[u] = phase[u] /\ stream'[u] = stream[u]
  <2>1. CASE PartialCommitted(t)
    BY <1>0, <2>1 DEF PartialCommitted, StreamFields
  <2>2. CASE PartialIgnored(t) BY <2>2 DEF PartialIgnored, sessionVars
  <2>3. CASE PartialUnsaved(t) BY <2>3 DEF PartialUnsaved
  <2>4. CASE StoppedCommitted(t, job[t].from) BY <1>0, <2>4 DEF StoppedCommitted
  <2>5. CASE StoppedUnsaved(t, job[t].from) BY <1>0, <2>5 DEF StoppedUnsaved
  <2> QED BY <2>1, <2>2, <2>3, <2>4, <2>5 DEF RunStop
<1>4. PICK r \in JobFields :
        /\ job' = [job EXCEPT ![t] = r] /\ job'[t] = r
        /\ r.pc = "publishing" /\ r.verdict = verdict /\ Keeps(r, t)
  BY <1>2, PublishMoves DEF Verdicts
<1>5. (InStep(t) /\ Reported(t) /\ Counted(t))'
  BY <1>0, <1>1, <1>2, <1>3, <1>4 DEF InStep, Reported, Counted, IsTerminal, Keeps
<1>6. ~IsTerminal(t) BY <1>0, <1>1 DEF Reported
<1> QED BY <1>1, <1>3, <1>4, <1>5, <1>6, GoroutineSteps

\* emitError.
LEMMA RunFailStep ==
    ASSUME JobInv, NEW t \in Turns, RunFail(t), [SessionNext]_sessionVars
    PROVE  JobInv'
<1>0. InStep(t) /\ Reported(t) /\ Counted(t) BY Before
<1>1. job[t].pc = "failing" /\ abort' = abort /\ phase' = phase /\ stream' = stream
  BY DEF RunFail, sessionVars
<1>2. PICK verdict \in {"aborted", "stream-error"} : Publish(t, verdict) BY DEF RunFail
<1>3. PICK r \in JobFields :
        /\ job' = [job EXCEPT ![t] = r] /\ job'[t] = r
        /\ r.pc = "publishing" /\ r.verdict = verdict /\ Keeps(r, t)
  BY <1>2, PublishMoves DEF Verdicts
<1>4. (InStep(t) /\ Reported(t) /\ Counted(t))'
  BY <1>0, <1>1, <1>2, <1>3 DEF InStep, Reported, Counted, IsTerminal, Keeps
<1>5. ~IsTerminal(t) BY <1>0, <1>1 DEF Reported
<1> QED BY <1>1, <1>3, <1>4, <1>5, GoroutineSteps

\* emitTerminal.
LEMMA RunPublishStep ==
    ASSUME JobInv, NEW t \in Turns, RunPublish(t), [SessionNext]_sessionVars
    PROVE  JobInv'
<1>0. /\ job \in [Turns -> JobFields] /\ job[t] \in JobFields
      /\ InStep(t) /\ Reported(t) /\ Counted(t)
  BY Before
<1>1. /\ job[t].pc = "publishing" /\ abort' = abort /\ phase' = phase /\ stream' = stream
      /\ ~IsTerminal(t) /\ job[t].verdict \in Verdicts
  BY <1>0 DEF RunPublish, sessionVars, Reported, JobFields
<1> DEFINE pc == IF phase[t] \in {"open", "ended"} THEN "closing" ELSE "finishing"
           r == [job[t] EXCEPT !.pc = pc, !.terminal = job[t].verdict]
<1>2. pc \in {"closing", "finishing"}
      /\ (pc = "closing" => phase[t] \in {"open", "ended"})
      /\ (pc = "finishing" => phase[t] \in {"refused", "closed"})
  BY <1>0, <1>1 DEF InStep
<1>3. job' = [job EXCEPT ![t] = r] BY <1>1 DEF RunPublish, Ends
<1> HIDE DEF pc
<1>4. r \in JobFields /\ r.pc = pc /\ r.from = job[t].from /\ r.verdict = job[t].verdict
      /\ r.terminal = job[t].verdict /\ r.done = job[t].done
  BY <1>0, <1>1, <1>2 DEF JobFields, PCs
<1> HIDE DEF r
<1>5. job'[t] = r BY <1>0, <1>3
<1>6. job[t].verdict # "open" BY <1>1 DEF Verdicts
<1>7. (InStep(t) /\ Reported(t) /\ Counted(t))'
  BY <1>0, <1>1, <1>2, <1>4, <1>5, <1>6 DEF InStep, Reported, Counted, IsTerminal
<1> QED BY <1>1, <1>2, <1>3, <1>4, <1>6, <1>7, GoroutineSteps

\* The deferred Close.
LEMMA RunCloseStep ==
    ASSUME JobInv, NEW t \in Turns, RunClose(t), [SessionNext]_sessionVars
    PROVE  JobInv'
<1>0. /\ phase \in [Turns -> Phases] /\ stream \in [Turns -> StreamFields]
      /\ stream[t] \in StreamFields
      /\ InStep(t) /\ Reported(t) /\ Counted(t)
  BY Before
<1>1. job[t].pc = "closing" /\ abort' = abort /\ Close(t) /\ Goto(t, "finishing")
  BY DEF RunClose
<1>2. PICK r \in JobFields :
        /\ job' = [job EXCEPT ![t] = r] /\ job'[t] = r
        /\ r.pc = "finishing" /\ r.verdict = job[t].verdict /\ Keeps(r, t)
  BY <1>1, GotoMoves DEF PCs
<1> DEFINE outcome == IF stream[t].completed THEN "none" ELSE "cancelled"
<1>3. outcome \in Records /\ outcome # "completed" BY DEF Records
<1>4. /\ phase' = [phase EXCEPT ![t] = "closed"]
      /\ stream' = [stream EXCEPT ![t] = Over(stream[t], outcome)]
  BY <1>1 DEF Close
<1> HIDE DEF outcome
<1>5. /\ phase'[t] = "closed"
      /\ (stream'[t].recorded = "completed") <=> (stream[t].recorded = "completed")
      /\ \A u \in Turns : u # t => phase'[u] = phase[u] /\ stream'[u] = stream[u]
  BY <1>0, <1>3, <1>4, OverCounts DEF Recorded
<1>6. (InStep(t) /\ Reported(t) /\ Counted(t))'
  BY <1>0, <1>1, <1>2, <1>5 DEF InStep, Reported, Counted, IsTerminal, Keeps
<1>7. IsTerminal(t) /\ r.terminal # "open"
  BY <1>0, <1>1, <1>2 DEF Reported, IsTerminal, Keeps
<1> QED BY <1>1, <1>2, <1>5, <1>6, <1>7, GoroutineSteps

\* The deferred finish.
LEMMA RunFinishStep ==
    ASSUME JobInv, NEW t \in Turns, RunFinish(t), [SessionNext]_sessionVars
    PROVE  JobInv'
<1>0. /\ job \in [Turns -> JobFields] /\ job[t] \in JobFields
      /\ InStep(t) /\ Reported(t) /\ Counted(t)
  BY Before
<1>1. /\ job[t].pc = "finishing" /\ abort' = abort /\ phase' = phase /\ stream' = stream
      /\ IsTerminal(t)
  BY <1>0 DEF RunFinish, sessionVars, Reported
<1> DEFINE r == [job[t] EXCEPT !.pc = "finished", !.done = TRUE, !.terminal = job[t].terminal]
<1>2. job' = [job EXCEPT ![t] = r] BY <1>1 DEF RunFinish, Ends
<1>3. r \in JobFields /\ r.pc = "finished" /\ r.from = job[t].from
      /\ r.verdict = job[t].verdict /\ r.terminal = job[t].terminal /\ r.done
  BY <1>0 DEF JobFields, PCs
<1> HIDE DEF r
<1>4. job'[t] = r BY <1>0, <1>2
<1>5. (InStep(t) /\ Reported(t) /\ Counted(t))'
  BY <1>0, <1>1, <1>3, <1>4 DEF InStep, Reported, Counted, IsTerminal
<1>6. r.terminal # "open" BY <1>1, <1>3 DEF IsTerminal
<1> QED BY <1>1, <1>2, <1>3, <1>5, <1>6, GoroutineSteps

(***************************************************************************)
(* An abort request leaves a goroutine where it is.                        *)
(***************************************************************************)
LEMMA AbortSteps ==
    ASSUME JobInv, UNCHANGED sessionVars,
           job' \in [Turns -> JobFields],
           \A t \in Turns : /\ job'[t].pc = job[t].pc
                            /\ job'[t].verdict = job[t].verdict
                            /\ job'[t].from = job[t].from
                            /\ job'[t].terminal = job[t].terminal
                            /\ job'[t].done = job[t].done,
           NEW a \in AbortRequests, NEW e \in AbortFields, abort' = [abort EXCEPT ![a] = e],
           e.turn \in Registered,
           e.pc = "answered" => job[e.turn].done
    PROVE  JobInv'
<1>0. TypeOK /\ SessionInv /\ OneTurnRuns /\ AnswerAfterDone
      /\ \A u \in Turns : InStep(u) /\ Reported(u) /\ Counted(u)
  BY DEF JobInv
<1>1. SessionInv' BY <1>0, SessionInvNext
<1>2. Registered' = Registered BY DEF Registered
<1>3. \A b \in AbortRequests : abort'[b] = IF b = a THEN e ELSE abort[b]
  BY <1>0 DEF TypeOK
<1>4. TypeOK'
  <2>1. abort' \in [AbortRequests -> AbortFields] BY <1>0 DEF TypeOK
  <2>2. \A b \in AbortRequests : abort'[b].pc # "idle" => abort'[b].turn \in Registered'
    BY <1>0, <1>2, <1>3 DEF TypeOK
  <2> QED BY <1>1, <2>1, <2>2 DEF TypeOK, SessionInv
<1>5. ASSUME NEW u \in Turns PROVE (InStep(u) /\ Reported(u) /\ Counted(u))'
  BY <1>0 DEF InStep, Reported, Counted, IsTerminal, sessionVars
<1>6. OneTurnRuns'
  BY <1>0, <1>2 DEF OneTurnRuns, Running, IsTerminal
<1>7. AnswerAfterDone'
  <2> SUFFICES ASSUME NEW b \in AbortRequests, abort'[b].pc = "answered"
               PROVE  job'[abort'[b].turn].done
    BY DEF AnswerAfterDone
  <2>1. e.turn \in Turns BY DEF Registered
  <2>2. CASE b = a BY <1>3, <2>1, <2>2
  <2>3. CASE b # a
    <3>1. abort[b].turn \in Turns /\ job[abort[b].turn].done
      BY <1>0, <1>3, <2>3 DEF AnswerAfterDone, TypeOK, Registered
    <3> QED BY <1>3, <2>3, <3>1
  <2> QED BY <2>2, <2>3
<1> QED BY <1>1, <1>4, <1>5, <1>6, <1>7 DEF JobInv

\* What an abort request that has a turn may use of it.
LEMMA BeforeAbort ==
    ASSUME JobInv, NEW a \in AbortRequests
    PROVE  /\ job \in [Turns -> JobFields]
           /\ abort \in [AbortRequests -> AbortFields] /\ abort[a] \in AbortFields
           /\ abort[a].pc # "idle" => abort[a].turn \in Registered
BY DEF JobInv, TypeOK

\* The request moves on and the jobs stay as they are.
LEMMA AbortMoves ==
    ASSUME JobInv, NEW a \in AbortRequests, NEW pc \in {"answered", "left"},
           abort[a].pc = "waiting", abort' = [abort EXCEPT ![a].pc = pc],
           pc = "answered" => job[abort[a].turn].done,
           UNCHANGED <<sessionVars, job>>
    PROVE  JobInv'
<1>0. job \in [Turns -> JobFields] /\ abort[a] \in AbortFields
      /\ abort[a].turn \in Registered
  BY BeforeAbort
<1> DEFINE e == [abort[a] EXCEPT !.pc = pc]
<1>1. e \in AbortFields /\ e.pc = pc /\ e.turn = abort[a].turn
  BY <1>0 DEF AbortFields
<1>2. abort' = [abort EXCEPT ![a] = e] OBVIOUS
<1> HIDE DEF e
<1> QED BY <1>0, <1>1, <1>2, AbortSteps

\* turnJob.abort up to its unlock.
LEMMA AbortEnterStep ==
    ASSUME JobInv, NEW a \in AbortRequests, NEW t \in Turns, AbortEnter(a, t)
    PROVE  JobInv'
<1>0. job \in [Turns -> JobFields] /\ job[t] \in JobFields BY Before
<1>1. PICK pc \in {"conflict", "cancelling"} :
         abort' = [abort EXCEPT ![a] = [pc |-> pc, turn |-> t]]
  BY DEF AbortEnter
<1> DEFINE e == [pc |-> pc, turn |-> t]
<1>2. e \in AbortFields /\ e.turn = t /\ e.pc # "answered" BY DEF AbortFields
<1>3. t \in Registered /\ UNCHANGED sessionVars BY DEF AbortEnter
<1>4. abort' = [abort EXCEPT ![a] = e] BY <1>1
<1> HIDE DEF e
<1>5. CASE UNCHANGED job BY <1>0, <1>2, <1>3, <1>4, <1>5, AbortSteps
<1>6. CASE job' = [job EXCEPT ![t].abortRequested = TRUE]
  <2> DEFINE r == [job[t] EXCEPT !.abortRequested = TRUE]
  <2>1. r \in JobFields /\ r.pc = job[t].pc /\ r.verdict = job[t].verdict
        /\ r.from = job[t].from /\ r.terminal = job[t].terminal /\ r.done = job[t].done
    BY <1>0 DEF JobFields
  <2>2. job' = [job EXCEPT ![t] = r] BY <1>6
  <2> HIDE DEF r
  <2>3. job' \in [Turns -> JobFields] BY <1>0, <2>1, <2>2
  <2>4. \A u \in Turns : /\ job'[u].pc = job[u].pc
                         /\ job'[u].verdict = job[u].verdict
                         /\ job'[u].from = job[u].from
                         /\ job'[u].terminal = job[u].terminal
                         /\ job'[u].done = job[u].done
    BY <1>0, <2>1, <2>2
  <2> QED BY <1>2, <1>3, <1>4, <2>3, <2>4, AbortSteps
<1> QED BY <1>5, <1>6 DEF AbortEnter

\* turnJob.abort, the call of cancel.
LEMMA AbortCancelStep ==
    ASSUME JobInv, NEW a \in AbortRequests, AbortCancel(a)
    PROVE  JobInv'
<1> DEFINE t == abort[a].turn
<1>0. abort[a] \in AbortFields /\ t \in Registered BY BeforeAbort DEF AbortCancel
<1>1. t \in Turns BY <1>0 DEF Registered
<1>2. job \in [Turns -> JobFields] /\ job[t] \in JobFields BY <1>1, Before
<1> DEFINE e == [abort[a] EXCEPT !.pc = "waiting"]
           r == [job[t] EXCEPT !.cancelled = TRUE]
<1>3. e \in AbortFields /\ e.pc = "waiting" /\ e.turn = t BY <1>0 DEF AbortFields
<1>4. r \in JobFields /\ r.pc = job[t].pc /\ r.verdict = job[t].verdict
      /\ r.from = job[t].from /\ r.terminal = job[t].terminal /\ r.done = job[t].done
  BY <1>2 DEF JobFields
<1>5. /\ job' = [job EXCEPT ![t] = r] /\ abort' = [abort EXCEPT ![a] = e]
      /\ UNCHANGED sessionVars
  BY DEF AbortCancel
<1> HIDE DEF e, r, t
<1>6. job' \in [Turns -> JobFields] BY <1>2, <1>4, <1>5
<1>7. \A u \in Turns : /\ job'[u].pc = job[u].pc
                       /\ job'[u].verdict = job[u].verdict
                       /\ job'[u].from = job[u].from
                       /\ job'[u].terminal = job[u].terminal
                       /\ job'[u].done = job[u].done
  BY <1>2, <1>4, <1>5
<1>8. e.turn \in Registered /\ (e.pc = "answered" => job[e.turn].done)
  BY <1>0, <1>3
<1> QED BY <1>3, <1>5, <1>6, <1>7, <1>8, AbortSteps

----------------------------------------------------------------------------
\* Every step of the server keeps the invariant.
LEMMA JobInvNext == JobInv /\ [Next]_vars => JobInv'
<1> SUFFICES ASSUME JobInv, [Next]_vars PROVE JobInv' OBVIOUS
<1>1. [SessionNext]_sessionVars BY StepIsSessionStep DEF JobInv
<1>2. CASE UNCHANGED vars
  <2>1. SessionInv' BY <1>1, SessionInvNext DEF JobInv
  <2> QED BY <1>2, <2>1
          DEF JobInv, vars, jobVars, sessionVars, TypeOK, SessionInv, InStep, Reported,
              Counted, OneTurnRuns, Running, Registered, IsTerminal, AnswerAfterDone
<1>3. ASSUME NEW t \in Turns, ValidateCreate(t) \/ ServerStep(t) \/ ProviderStep(t)
      PROVE  JobInv'
  <2>1. CASE ValidateCreate(t) BY <1>1, <2>1, ValidateCreateStep
  <2>2. CASE Gate(t) BY <1>1, <2>2, GateStep
  <2>3. CASE RunSend(t) BY <1>1, <2>3, RunSendStep
  <2>4. CASE RunOpen(t) BY <1>1, <2>4, RunOpenStep
  <2>5. CASE RunNext(t) BY <1>1, <2>5, RunNextStep
  <2>6. CASE RunJudge(t) BY <1>1, <2>6, RunJudgeStep
  <2>7. CASE RunStop(t) BY <1>1, <2>7, RunStopStep
  <2>8. CASE RunFail(t) BY <1>1, <2>8, RunFailStep
  <2>9. CASE RunPublish(t) BY <1>1, <2>9, RunPublishStep
  <2>10. CASE RunClose(t) BY <1>1, <2>10, RunCloseStep
  <2>11. CASE RunFinish(t) BY <1>1, <2>11, RunFinishStep
  <2> QED BY <1>3, <2>1, <2>2, <2>3, <2>4, <2>5, <2>6, <2>7, <2>8, <2>9, <2>10, <2>11
          DEF ServerStep, ProviderStep
<1>4. ASSUME NEW a \in AbortRequests, AbortStep(a) \/ AbortLeave(a) PROVE JobInv'
  <2>1. CASE AbortCancel(a) BY <2>1, AbortCancelStep
  <2>2. CASE AbortAnswer(a) BY <2>2, AbortMoves DEF AbortAnswer
  <2>3. CASE AbortLeave(a) BY <2>3, AbortMoves DEF AbortLeave
  <2> QED BY <1>4, <2>1, <2>2, <2>3 DEF AbortStep
<1>5. ASSUME NEW a \in AbortRequests, NEW t \in Turns, AbortEnter(a, t) PROVE JobInv'
  BY <1>5, AbortEnterStep
<1> QED BY <1>2, <1>3, <1>4, <1>5 DEF Next

\* The invariant holds in every reachable state.
LEMMA JobInvHolds == Spec => []JobInv
BY JobInit, JobInvNext, PTL DEF Spec

----------------------------------------------------------------------------
(***************************************************************************)
(* Type correctness, for any number of create and abort requests.          *)
(***************************************************************************)
THEOREM TypeCorrect == Spec => []TypeOK
<1>1. JobInv => TypeOK BY DEF JobInv
<1> QED BY <1>1, JobInvHolds, PTL

(***************************************************************************)
(* The gate of handleCreateTurn admits one running turn at a time.         *)
(***************************************************************************)
THEOREM OneTurnAlwaysRuns == Spec => []OneTurnRuns
<1>1. JobInv => OneTurnRuns BY DEF JobInv
<1> QED BY <1>1, JobInvHolds, PTL

(***************************************************************************)
(* Every path of turnJob.run publishes a terminal event before finish.     *)
(***************************************************************************)
THEOREM EveryTurnAlwaysReports == Spec => []EveryTurnReports
<1>1. JobInv => EveryTurnReports
  <2> SUFFICES ASSUME JobInv, NEW t \in Turns, job[t].done
               PROVE  job[t].terminal \in Verdicts
    BY DEF EveryTurnReports
  <2>1. job[t] \in JobFields /\ Reported(t) BY Before
  <2> QED BY <2>1 DEF Reported, JobFields
<1> QED BY <1>1, JobInvHolds, PTL

(***************************************************************************)
(* An abort answered 200 names a turn whose event, stream and telemetry    *)
(* are final and agree.                                                    *)
(***************************************************************************)
THEOREM AnsweredIsAlwaysSettled == Spec => []AnsweredIsSettled
<1>1. JobInv => AnsweredIsSettled
  <2> SUFFICES ASSUME JobInv, NEW a \in AbortRequests, abort[a].pc = "answered"
               PROVE  Settled(abort[a].turn)
    BY DEF AnsweredIsSettled
  <2>1. abort[a].turn \in Turns BY BeforeAbort DEF Registered
  <2>2. job[abort[a].turn].done BY DEF JobInv, AnswerAfterDone
  <2>3. InStep(abort[a].turn) /\ Reported(abort[a].turn) /\ Counted(abort[a].turn)
    BY <2>1, Before
  <2> QED BY <2>2, <2>3 DEF Settled, InStep, Reported, Counted
<1> QED BY <1>1, JobInvHolds, PTL

(***************************************************************************)
(* The server's steps are built from the session's, so every theorem about *)
(* a session holds of the server's.                                        *)
(***************************************************************************)
LEMMA ServerIsCaller == Spec => SessionSpec
<1>1. Init => SessionInit BY DEF Init
<1>2. JobInv /\ [Next]_vars => [SessionNext]_sessionVars
  BY StepIsSessionStep DEF JobInv
<1> QED BY <1>1, <1>2, JobInvHolds, PTL DEF Spec, SessionSpec

(***************************************************************************)
(* Whatever requests the server gets, the conversation in the store is     *)
(* whole turns, each written at most once.                                 *)
(***************************************************************************)
THEOREM ServerImplementsLog == Spec => WritesEachTurnOnce
BY ServerIsCaller, SessionImplementsLog, PTL

----------------------------------------------------------------------------
(***************************************************************************)
(* What the turns do to each other. A step of one turn's handler or        *)
(* goroutine leaves the other turns where they are.                        *)
(***************************************************************************)
Acts(t) == ValidateCreate(t) \/ ServerStep(t) \/ ProviderStep(t)

\* The steps that write the conversation.
Writes(t) ==
    \/ RunNext(t) /\ NextCompletes(t) /\ Publish(t, "done")
    \/ RunStop(t) /\ PartialCommitted(t) /\ Publish(t, "aborted")
    \/ RunStop(t) /\ StoppedCommitted(t, job[t].from) /\ Publish(t, "aborted")

\* The handler of another turn changes no job, phase or stream of this one.
LEMMA OthersStay ==
    ASSUME JobInv, NEW t \in Turns, Acts(t), NEW u \in Turns, u # t
    PROVE  job'[u] = job[u] /\ phase'[u] = phase[u] /\ stream'[u] = stream[u]
<1>0. /\ job \in [Turns -> JobFields] /\ phase \in [Turns -> Phases]
      /\ stream \in [Turns -> StreamFields]
  BY Before
<1>1. job'[u] = job[u]
  <2>1. CASE ValidateCreate(t) BY <1>0, <2>1 DEF ValidateCreate
  <2>2. CASE Gate(t) BY <1>0, <2>2 DEF Gate, Goto
  <2>3. CASE RunSend(t) BY <1>0, <2>3 DEF RunSend, Goto, FailWith
  <2>4. CASE RunOpen(t) BY <1>0, <2>4 DEF RunOpen, Goto, FailWith
  <2>5. CASE RunNext(t) BY <1>0, <2>5 DEF RunNext, Publish, FailWith
  <2>6. CASE RunJudge(t) BY <1>0, <2>6 DEF RunJudge, Goto
  <2>7. CASE RunStop(t) BY <1>0, <2>7 DEF RunStop, Publish
  <2>8. CASE RunFail(t) BY <1>0, <2>8 DEF RunFail, Publish
  <2>9. CASE RunPublish(t) BY <1>0, <2>9 DEF RunPublish
  <2>10. CASE RunClose(t) BY <1>0, <2>10 DEF RunClose, Goto
  <2>11. CASE RunFinish(t) BY <1>0, <2>11 DEF RunFinish
  <2> QED BY <2>1, <2>2, <2>3, <2>4, <2>5, <2>6, <2>7, <2>8, <2>9, <2>10, <2>11
          DEF Acts, ServerStep, ProviderStep
<1>2. phase'[u] = phase[u] /\ stream'[u] = stream[u]
  <2>1. CASE UNCHANGED sessionVars BY <2>1 DEF sessionVars
  <2>2. CASE RunSend(t) BY <1>0, <2>2 DEF RunSend, SendAccepted, SendRejected
  <2>3. CASE RunOpen(t) BY <1>0, <2>3 DEF RunOpen, StreamOpened, StreamRefused
  <2>4. CASE RunNext(t)
    BY <1>0, <2>4 DEF RunNext, NextPart, NextCompletes, NextCompletesUnsaved, NextFails, NextCancelled
  <2>5. CASE RunStop(t)
    BY <1>0, <2>5 DEF RunStop, PartialCommitted, PartialIgnored, PartialUnsaved,
                      StoppedCommitted, StoppedUnsaved, sessionVars
  <2>6. CASE RunClose(t) BY <1>0, <2>6 DEF RunClose, Close
  <2> QED BY <2>1, <2>2, <2>3, <2>4, <2>5, <2>6
          DEF Acts, ServerStep, ProviderStep, ValidateCreate, Gate, RunJudge, RunFail,
              RunPublish, RunFinish
<1> QED BY <1>1, <1>2

(***************************************************************************)
(* Only two kinds of step write the conversation, and both are steps of a  *)
(* turn that runs.                                                         *)
(***************************************************************************)
LEMMA OnlyRunningWrites ==
    ASSUME JobInv, NEW t \in Turns, Acts(t)
    PROVE  stored' = stored \/ (Writes(t) /\ Running(t))
<1>0. Reported(t) BY Before
<1>1. CASE UNCHANGED sessionVars BY <1>1 DEF sessionVars
<1>2. CASE RunSend(t) BY <1>2 DEF RunSend, SendAccepted, SendRejected
<1>3. CASE RunOpen(t) BY <1>3 DEF RunOpen, StreamOpened, StreamRefused
<1>4. CASE RunNext(t)
  <2>1. Running(t) BY <1>0, <1>4 DEF RunNext, Running, Registered, Reported
  <2>2. CASE NextCompletes(t) /\ Publish(t, "done") BY <1>4, <2>1, <2>2 DEF Writes
  <2>3. CASE ~(NextCompletes(t) /\ Publish(t, "done"))
    BY <1>4, <2>3 DEF RunNext, NextPart, NextCompletesUnsaved, NextFails, NextCancelled, CommitFails
  <2> QED BY <2>2, <2>3
<1>5. CASE RunStop(t)
  <2>1. Running(t) BY <1>0, <1>5 DEF RunStop, Running, Registered, Reported
  <2>2. CASE PartialCommitted(t) /\ Publish(t, "aborted") BY <1>5, <2>1, <2>2 DEF Writes
  <2>3. CASE StoppedCommitted(t, job[t].from) /\ Publish(t, "aborted")
    BY <1>5, <2>1, <2>3 DEF Writes
  <2>4. CASE PartialIgnored(t) \/ PartialUnsaved(t) \/ StoppedUnsaved(t, job[t].from)
    BY <2>4 DEF PartialIgnored, PartialUnsaved, StoppedUnsaved, CommitFails, sessionVars
  <2> QED BY <1>5, <2>2, <2>3, <2>4 DEF RunStop
<1>6. CASE RunClose(t) BY <1>6 DEF RunClose, Close
<1> QED BY <1>1, <1>2, <1>3, <1>4, <1>5, <1>6
        DEF Acts, ServerStep, ProviderStep, ValidateCreate, Gate, RunJudge, RunFail,
            RunPublish, RunFinish

----------------------------------------------------------------------------
(***************************************************************************)
(* The second inductive invariant. Of a turn that runs and holds the       *)
(* session: what Send kept is still the conversation's beginning, and all  *)
(* of it unless the turn replaces a tail. Of every turn: the verdict tells *)
(* what the store holds of it. Of one that did not let the session go by   *)
(* the time its verdict is published: it is an aborted one that was not    *)
(* saved, since only context.Canceled leaves a stream open.                *)
(***************************************************************************)
Asked(t) ==
    Running(t) /\ Holds(t) =>
        /\ stream[t].keep \in 0..Len(stored)
        /\ stream[t].sent = SubSeq(stored, 1, stream[t].keep)
        /\ ~stream[t].replace => stream[t].keep = Len(stored)

Told(t) ==
    /\ job[t].verdict \in {"none", "stream-error"} => ~Mentions(stored, t)
    /\ job[t].verdict = "done" /\ ~IsTerminal(t) =>
          /\ stored # <<>>
          /\ stored[Len(stored)] = Reply(t, stream[t].parts, TRUE)

Stops(t) ==
    /\ job[t].cancelled \/ job[t].err = "canceled" => job[t].abortRequested
    /\ job[t].pc = "stopping" => job[t].abortRequested
    /\ job[t].pc = "failing" => job[t].err # "canceled"
    /\ job[t].pc \in {"judging", "stopping", "failing"} /\ Holds(t) => job[t].err = "canceled"
    /\ job[t].pc \in {"publishing", "closing"} /\ Holds(t)
          => job[t].verdict = "stream-error" /\ job[t].abortRequested

CancelIsAsked ==
    \A a \in AbortRequests : abort[a].pc = "cancelling" => job[abort[a].turn].abortRequested

OutcomeInv ==
    /\ JobInv
    /\ \A t \in Turns : Asked(t) /\ Told(t) /\ Stops(t)
    /\ CancelIsAsked

\* What a turn that writes leaves: itself, after a prefix, and the session free.
LEMMA WriteLeaves ==
    ASSUME JobInv, NEW t \in Turns, Writes(t)
    PROVE  /\ ~Holds(t)'
           /\ \E n \in 0..Len(stored), parts \in Nat, completed \in BOOLEAN :
                 stored' = SubSeq(stored, 1, n) \o <<Prompt(t), Reply(t, parts, completed)>>
<1>0. /\ stream \in [Turns -> StreamFields] /\ stream[t] \in StreamFields
      /\ phase \in [Turns -> Phases]
      /\ messages \in Seq(Message) /\ stored \in Seq(Message) /\ messages = stored
      /\ IsTranscript(messages) /\ InStep(t)
  BY DEF JobInv, SessionInv, SessionTypeOK, CacheIsStored, StoredIsTranscript
<1>1. /\ stream[t].replace \in BOOLEAN /\ stream[t].keep \in Nat
      /\ stream[t].parts \in Nat /\ stream[t].completed \in BOOLEAN
  BY <1>0, TranscriptAssumption DEF StreamFields
<1>2. CASE NextCompletes(t)
  <2>1. stream'[t].finalized BY <1>0, <1>2, OverCounts DEF NextCompletes, Records
  <2>2. \E n \in 0..Len(stored) :
           stored' = SubSeq(stored, 1, n) \o <<Prompt(t), Reply(t, stream[t].parts, TRUE)>>
    BY <1>0, <1>1, <1>2, CommitShape DEF NextCompletes
  <2> QED BY <1>1, <2>1, <2>2 DEF Holds
<1>3. CASE PartialCommitted(t)
  <2>1. stream'[t].finalized BY <1>0, <1>3 DEF PartialCommitted, StreamFields
  <2>2. \E n \in 0..Len(stored) :
           stored' = SubSeq(stored, 1, n)
                       \o <<Prompt(t), Reply(t, stream[t].parts, stream[t].completed)>>
    BY <1>0, <1>1, <1>3, CommitShape DEF PartialCommitted
  <2> QED BY <1>1, <2>1, <2>2 DEF Holds
<1>4. CASE RunStop(t) /\ StoppedCommitted(t, job[t].from)
  <2>1. phase'[t] = "closed" BY <1>0, <1>4 DEF StoppedCommitted
  <2>2. job[t].from \in Int \cup {NoIndex}
    BY <1>0, <1>4, SessionAssumption DEF RunStop, InStep
  <2>3. KeepFor(messages, job[t].from) \in Nat
    <3>1. ValidReplaceFrom(messages, job[t].from) BY <1>4 DEF StoppedCommitted
    <3>2. KeepFor(messages, job[t].from) \in 0..Len(messages)
      BY <1>0, <2>2, <3>1, KeptIsEven
    <3> QED BY <3>2
  <2>4. \E n \in 0..Len(stored) :
           stored' = SubSeq(stored, 1, n) \o <<Prompt(t), Reply(t, 0, FALSE)>>
    BY <1>0, <1>4, <2>3, CommitShape DEF StoppedCommitted
  <2> QED BY <2>1, <2>4 DEF Holds
<1> QED BY <1>2, <1>3, <1>4 DEF Writes

(***************************************************************************)
(* The turn that writes finds after its context what it was sent.          *)
(***************************************************************************)
LEMMA WriteFollowsContext ==
    ASSUME JobInv, NEW t \in Turns, Asked(t), Writes(t), Running(t), Holds(t)
    PROVE  stored' = stream[t].sent
                        \o <<Prompt(t), Reply(t, stream[t].parts, stream'[t].completed)>>
<1>0. /\ stream \in [Turns -> StreamFields] /\ stream[t] \in StreamFields
      /\ stored \in Seq(Message)
  BY DEF JobInv, SessionInv, SessionTypeOK
<1>1. /\ stream[t].replace \in BOOLEAN /\ stream[t].keep \in Nat
      /\ stream[t].parts \in Nat /\ stream[t].completed \in BOOLEAN
  BY <1>0, TranscriptAssumption DEF StreamFields
<1>2. /\ stream[t].sent = SubSeq(stored, 1, stream[t].keep)
      /\ ~stream[t].replace => stream[t].keep = Len(stored)
  BY DEF Asked
<1>3. ASSUME NEW completed \in BOOLEAN,
             Commit(t, stream[t].replace, stream[t].keep,
                    Reply(t, stream[t].parts, completed))
      PROVE  stored' = stream[t].sent
                          \o <<Prompt(t), Reply(t, stream[t].parts, completed)>>
  <2>1. PICK n \in 0..Len(stored) :
           /\ stream[t].replace => n = stream[t].keep
           /\ ~stream[t].replace => n = Len(stored)
           /\ stored' = SubSeq(stored, 1, n)
                          \o <<Prompt(t), Reply(t, stream[t].parts, completed)>>
    BY <1>0, <1>1, <1>3, CommitShape
  <2>2. n = stream[t].keep BY <1>2, <2>1
  <2> QED BY <1>2, <2>1, <2>2
<1>4. CASE NextCompletes(t)
  <2>1. stream'[t].completed BY <1>0, <1>4, OverCounts DEF NextCompletes, Records
  <2>2. stream'[t].completed = TRUE
    <3>1. Over(Completed(stream[t]), "completed").completed = TRUE
      BY <1>0 DEF Over, Completed, StreamFields
    <3> QED BY <1>0, <1>4, <3>1 DEF NextCompletes
  <2> QED BY <1>3, <1>4, <2>2 DEF NextCompletes
<1>5. CASE PartialCommitted(t)
  <2>1. stream'[t].completed = stream[t].completed
    BY <1>0, <1>5 DEF PartialCommitted, StreamFields
  <2> QED BY <1>1, <1>3, <1>5, <2>1 DEF PartialCommitted
<1>6. CASE StoppedCommitted(t, job[t].from) BY <1>6 DEF StoppedCommitted, Holds
<1> QED BY <1>4, <1>5, <1>6 DEF Writes

\* A turn's own steps, in what the verdict says of the store.
LEMMA ToldStep ==
    ASSUME JobInv, NEW t \in Turns, Told(t), Acts(t)
    PROVE  Told(t)'
<1>0. /\ job \in [Turns -> JobFields] /\ job[t] \in JobFields
      /\ stream \in [Turns -> StreamFields] /\ stream[t] \in StreamFields
      /\ stored \in Seq(Message) /\ Reported(t)
  BY Before DEF JobInv, SessionInv, SessionTypeOK
<1>1. ASSUME stored' = stored, job'[t].verdict \in {"none", "stream-error"}
                                 => job[t].verdict \in {"none", "stream-error"},
             job'[t].verdict = "done" => IsTerminal(t)'
      PROVE  Told(t)'
  BY <1>1 DEF Told, Mentions
<1>2. ASSUME job[t].pc \notin {"publishing", "closing", "finishing", "finished"},
             stored' = stored, job'[t].verdict # "done"
      PROVE  Told(t)'
  BY <1>0, <1>1, <1>2 DEF Reported
<1>3. ASSUME NEW pc \in PCs, Goto(t, pc) PROVE job'[t].verdict = job[t].verdict
  BY <1>3, GotoMoves
<1>4. ASSUME NEW err \in {"other", "canceled"}, FailWith(t, err)
      PROVE  job'[t].verdict = job[t].verdict
  BY <1>4, FailMoves
<1>5. CASE ValidateCreate(t)
  <2>1. job'[t].verdict = job[t].verdict /\ stored' = stored
    BY <1>0, <1>5 DEF ValidateCreate, JobFields, sessionVars
  <2> QED BY <1>0, <1>2, <1>5, <2>1 DEF ValidateCreate, Reported
<1>6. CASE Gate(t)
  <2>1. job'[t].verdict = job[t].verdict /\ stored' = stored
    BY <1>3, <1>6 DEF Gate, PCs, sessionVars
  <2> QED BY <1>0, <1>2, <1>6, <2>1 DEF Gate, Reported
<1>7. CASE RunSend(t)
  <2>1. job'[t].verdict = job[t].verdict
    BY <1>3, <1>4, <1>7 DEF RunSend, PCs
  <2>2. stored' = stored BY <1>7 DEF RunSend, SendAccepted, SendRejected
  <2> QED BY <1>0, <1>2, <1>7, <2>1, <2>2 DEF RunSend, Reported
<1>8. CASE RunOpen(t)
  <2>1. job'[t].verdict = job[t].verdict
    BY <1>3, <1>4, <1>8 DEF RunOpen, PCs, Errors
  <2>2. stored' = stored BY <1>8 DEF RunOpen, StreamOpened, StreamRefused
  <2> QED BY <1>0, <1>2, <1>8, <2>1, <2>2 DEF RunOpen, Reported
<1>9. ASSUME job[t].pc = "reading", stored' = stored, job'[t].verdict = job[t].verdict
      PROVE  Told(t)'
  BY <1>0, <1>2, <1>9 DEF Reported
<1>10. CASE NextCompletes(t) /\ Publish(t, "done")
  <2>1. job'[t].verdict = "done" BY <1>10, PublishMoves DEF Verdicts
  <2>2. stream[t].replace \in BOOLEAN /\ stream[t].keep \in Nat /\ stream[t].parts \in Nat
    BY <1>0, TranscriptAssumption DEF StreamFields
  <2>3. /\ stored' \in Seq(Message) /\ Len(stored') \in Nat \ {0}
        /\ stored'[Len(stored')] = Reply(t, stream[t].parts, TRUE)
    BY <1>0, <1>10, <2>2, CommitEndsWithReply DEF NextCompletes
  <2>4. stream'[t].parts = stream[t].parts
    BY <1>0, <1>10, OverCounts DEF NextCompletes, Records
  <2>5. stored' # <<>> BY <2>3
  <2> QED BY <2>1, <2>3, <2>4, <2>5 DEF Told
<1>11. CASE RunJudge(t)
  <2>1. job'[t].verdict = job[t].verdict /\ stored' = stored
    BY <1>3, <1>11 DEF RunJudge, PCs, sessionVars
  <2> QED BY <1>0, <1>2, <1>11, <2>1 DEF RunJudge, Reported
<1>12. CASE RunStop(t) /\ Publish(t, "aborted")
  <2>1. job'[t].verdict = "aborted" BY <1>12, PublishMoves DEF Verdicts
  <2> QED BY <2>1 DEF Told
<1>13. CASE RunStop(t) /\ (PartialUnsaved(t) \/ StoppedUnsaved(t, job[t].from))
       /\ Publish(t, "stream-error")
  <2>1. job'[t].verdict = "stream-error" BY <1>13, PublishMoves DEF Verdicts
  <2>2. stored' = stored BY <1>13 DEF PartialUnsaved, StoppedUnsaved, CommitFails
  <2> QED BY <1>2, <1>13, <2>1, <2>2 DEF RunStop
<1>14. CASE RunFail(t)
  <2>1. PICK verdict \in {"aborted", "stream-error"} : Publish(t, verdict)
    BY <1>14 DEF RunFail
  <2>2. job'[t].verdict = verdict BY <2>1, PublishMoves DEF Verdicts
  <2>3. stored' = stored BY <1>14 DEF RunFail, sessionVars
  <2> QED BY <1>2, <1>14, <2>1, <2>2, <2>3 DEF RunFail
<1>15. CASE RunPublish(t)
  <2>1. job'[t].verdict = job[t].verdict /\ job'[t].terminal = Ends(t, job[t].verdict)
    BY <1>0, <1>15 DEF RunPublish, JobFields
  <2>2. stored' = stored BY <1>15 DEF RunPublish, sessionVars
  <2>3. job'[t].verdict = "done" => IsTerminal(t)'
    BY <2>1 DEF Ends, IsTerminal
  <2> QED BY <1>1, <2>1, <2>2, <2>3
<1>16. CASE RunClose(t)
  <2>1. job'[t].verdict = job[t].verdict /\ job'[t].terminal = job[t].terminal
    BY <1>16, GotoMoves DEF RunClose, PCs, Keeps
  <2>2. stored' = stored BY <1>16 DEF RunClose, Close
  <2> QED BY <1>0, <1>1, <1>16, <2>1, <2>2 DEF RunClose, Reported, IsTerminal
<1>17. CASE RunFinish(t)
  <2>1. job'[t].verdict = job[t].verdict /\ job'[t].terminal = Ends(t, "silent")
    BY <1>0, <1>17 DEF RunFinish, JobFields
  <2>2. stored' = stored BY <1>17 DEF RunFinish, sessionVars
  <2>3. IsTerminal(t)' BY <2>1 DEF Ends, IsTerminal
  <2> QED BY <1>1, <2>1, <2>2, <2>3
<1>18. CASE RunNext(t)
  <2>1. job[t].pc = "reading" BY <1>18 DEF RunNext
  <2>2. CASE NextPart(t) /\ UNCHANGED job BY <1>9, <2>1, <2>2 DEF NextPart
  <2>3. CASE NextCompletesUnsaved(t) /\ FailWith(t, "other")
    BY <1>4, <1>9, <2>1, <2>3 DEF NextCompletesUnsaved, CommitFails
  <2>4. CASE NextFails(t) /\ FailWith(t, "other") BY <1>4, <1>9, <2>1, <2>4 DEF NextFails
  <2>5. CASE NextCancelled(t) /\ FailWith(t, "canceled")
    BY <1>4, <1>9, <2>1, <2>5 DEF NextCancelled
  <2> QED BY <1>10, <1>18, <2>2, <2>3, <2>4, <2>5 DEF RunNext
<1>19. CASE RunStop(t)
  <2>1. \/ Publish(t, "aborted")
        \/ (PartialUnsaved(t) \/ StoppedUnsaved(t, job[t].from)) /\ Publish(t, "stream-error")
    BY <1>19 DEF RunStop
  <2> QED BY <1>12, <1>13, <1>19, <2>1
<1> QED
  BY <1>5, <1>6, <1>7, <1>8, <1>11, <1>14, <1>15, <1>16, <1>17, <1>18, <1>19
  DEF Acts, ServerStep, ProviderStep

\* A turn's own steps, in who still holds the session when it stops.
LEMMA StopsStep ==
    ASSUME JobInv, NEW t \in Turns, Stops(t), Acts(t)
    PROVE  Stops(t)'
<1>0. /\ job \in [Turns -> JobFields] /\ job[t] \in JobFields
      /\ stream \in [Turns -> StreamFields] /\ stream[t] \in StreamFields
      /\ phase \in [Turns -> Phases] /\ InStep(t)
  BY Before
<1>1. ASSUME NEW r \in JobFields, job'[t] = r, Keeps(r, t), ~Holds(t)',
             r.err = "canceled" => r.abortRequested,
             r.pc \notin {"stopping", "failing"}
      PROVE  Stops(t)'
  BY <1>1 DEF Stops, Keeps
<1>2. ASSUME NEW r \in JobFields, job'[t] = r, Keeps(r, t), r.err = job[t].err,
             r.pc \notin {"stopping", "failing", "judging", "publishing", "closing"}
      PROVE  Stops(t)'
  BY <1>2 DEF Stops, Keeps
<1>3. CASE ValidateCreate(t)
  <2>1. PICK from \in ReplaceFroms, pc \in {"validated", "rejected"} :
           job' = [job EXCEPT ![t] = [@ EXCEPT !.pc = pc, !.from = from]]
    BY <1>3 DEF ValidateCreate
  <2> DEFINE r == [job[t] EXCEPT !.pc = pc, !.from = from]
  <2>2. job' = [job EXCEPT ![t] = r] BY <2>1
  <2>3. /\ r.pc = pc /\ r.err = job[t].err /\ r.cancelled = job[t].cancelled
        /\ r.abortRequested = job[t].abortRequested
    BY <1>0 DEF JobFields
  <2> HIDE DEF r
  <2>4. job'[t] = r BY <1>0, <2>2
  <2> QED BY <2>3, <2>4 DEF Stops
<1>4. CASE Gate(t)
  <2>1. PICK pc \in {"created", "rejected"} : Goto(t, pc) BY <1>4 DEF Gate
  <2>2. PICK r \in JobFields :
          job'[t] = r /\ r.pc = pc /\ r.err = job[t].err /\ Keeps(r, t)
    BY <2>1, GotoMoves DEF PCs
  <2> QED BY <1>2, <2>2
<1>5. CASE SendAccepted(t, job[t].from) /\ Goto(t, "opening")
  <2>1. PICK r \in JobFields :
          job'[t] = r /\ r.pc = "opening" /\ r.err = job[t].err /\ Keeps(r, t)
    BY <1>5, GotoMoves DEF PCs
  <2> QED BY <1>2, <2>1
<1>6. CASE SendRejected(t, job[t].from) /\ FailWith(t, "other")
  <2>1. PICK r \in JobFields :
          job'[t] = r /\ r.pc = "judging" /\ r.err = "other" /\ Keeps(r, t)
    BY <1>6, FailMoves
  <2>2. ~Holds(t)' BY <1>0, <1>6 DEF SendRejected, Holds
  <2> QED BY <1>1, <2>1, <2>2
<1>7. CASE StreamOpened(t) /\ Goto(t, "reading")
  <2>1. PICK r \in JobFields :
          job'[t] = r /\ r.pc = "reading" /\ r.err = job[t].err /\ Keeps(r, t)
    BY <1>7, GotoMoves DEF PCs
  <2> QED BY <1>2, <2>1
<1>8. CASE StreamRefused(t) /\ \E err \in Errors(t) : FailWith(t, err)
  <2>1. PICK err \in Errors(t) : FailWith(t, err) BY <1>8
  <2>2. err \in {"other", "canceled"} /\ (err = "canceled" => job[t].cancelled)
    BY <2>1 DEF Errors
  <2>3. PICK r \in JobFields :
          job'[t] = r /\ r.pc = "judging" /\ r.err = err /\ Keeps(r, t)
    BY <2>1, <2>2, FailMoves
  <2>4. ~Holds(t)' BY <1>0, <1>8 DEF StreamRefused, Holds
  <2>5. r.err = "canceled" => r.abortRequested BY <2>2, <2>3 DEF Stops, Keeps
  <2> QED BY <1>1, <2>3, <2>4, <2>5
<1>9. CASE NextPart(t) /\ UNCHANGED job /\ job[t].pc = "reading"
  BY <1>9 DEF Stops
<1>10. CASE NextCompletes(t) /\ Publish(t, "done")
  <2>1. PICK r \in JobFields :
          job'[t] = r /\ r.pc = "publishing" /\ r.err = job[t].err /\ Keeps(r, t)
    BY <1>10, PublishMoves DEF Verdicts
  <2>2. ~Holds(t)' BY <1>0, <1>10, OverCounts DEF NextCompletes, Holds, Records
  <2>3. r.err = "canceled" => r.abortRequested BY <2>1 DEF Stops, Keeps
  <2> QED BY <1>1, <2>1, <2>2, <2>3
<1>11. CASE (NextCompletesUnsaved(t) \/ NextFails(t)) /\ FailWith(t, "other")
  <2>1. PICK r \in JobFields :
          job'[t] = r /\ r.pc = "judging" /\ r.err = "other" /\ Keeps(r, t)
    BY <1>11, FailMoves
  <2>2. ~Holds(t)'
    BY <1>0, <1>11, OverCounts DEF NextCompletesUnsaved, NextFails, Holds, Records
  <2> QED BY <1>1, <2>1, <2>2
<1>12. CASE NextCancelled(t) /\ job[t].cancelled /\ FailWith(t, "canceled")
  <2>1. PICK r \in JobFields :
          job'[t] = r /\ r.pc = "judging" /\ r.err = "canceled" /\ Keeps(r, t)
    BY <1>12, FailMoves
  <2>2. r.abortRequested BY <1>12, <2>1 DEF Stops, Keeps
  <2> QED BY <2>1, <2>2 DEF Stops
<1>13. CASE RunJudge(t)
  <2>1. PICK pc \in {"stopping", "failing"} :
          /\ Goto(t, pc)
          /\ pc = "stopping" => ShouldAbort(t)
          /\ pc = "failing" => ~ShouldAbort(t)
    BY <1>13 DEF RunJudge
  <2>2. PICK r \in JobFields :
          job'[t] = r /\ r.pc = pc /\ r.err = job[t].err /\ Keeps(r, t)
    BY <2>1, GotoMoves DEF PCs
  <2>3. Holds(t)' <=> Holds(t) BY <1>13 DEF RunJudge, Holds, sessionVars
  <2>4. job[t].pc = "judging" BY <1>13 DEF RunJudge
  <2> QED BY <2>1, <2>2, <2>3, <2>4 DEF Stops, Keeps, ShouldAbort
<1>14. CASE RunStop(t)
  <2>1. job[t].pc = "stopping" /\ job[t].abortRequested BY <1>14 DEF RunStop, Stops
  <2>2. CASE PartialUnsaved(t) /\ Publish(t, "stream-error")
    <3>1. PICK r \in JobFields :
            /\ job'[t] = r /\ r.pc = "publishing" /\ r.verdict = "stream-error"
            /\ r.err = job[t].err /\ Keeps(r, t)
      BY <2>2, PublishMoves DEF Verdicts
    <3> QED BY <2>1, <3>1 DEF Stops, Keeps
  <2>3. ASSUME NEW verdict \in Verdicts, Publish(t, verdict), ~Holds(t)' PROVE Stops(t)'
    <3>1. PICK r \in JobFields :
            job'[t] = r /\ r.pc = "publishing" /\ r.err = job[t].err /\ Keeps(r, t)
      BY <2>3, PublishMoves
    <3> QED BY <1>1, <2>1, <2>3, <3>1 DEF Keeps
  <2>4. PartialCommitted(t) => ~Holds(t)'
    BY <1>0 DEF PartialCommitted, Holds, StreamFields
  <2>5. PartialIgnored(t) => ~Holds(t)' BY DEF PartialIgnored, Holds, sessionVars
  <2>6. StoppedCommitted(t, job[t].from) \/ StoppedUnsaved(t, job[t].from) => ~Holds(t)'
    BY <1>0 DEF StoppedCommitted, StoppedUnsaved, Holds
  <2> QED BY <1>14, <2>2, <2>3, <2>4, <2>5, <2>6 DEF RunStop, Verdicts
<1>15. CASE RunFail(t)
  <2>1. PICK verdict \in Verdicts : Publish(t, verdict) BY <1>15 DEF RunFail, Verdicts
  <2>2. PICK r \in JobFields :
          job'[t] = r /\ r.pc = "publishing" /\ r.err = job[t].err /\ Keeps(r, t)
    BY <2>1, PublishMoves
  <2>3. ~Holds(t) BY <1>15 DEF RunFail, Stops
  <2>4. ~Holds(t)' BY <1>15, <2>3 DEF RunFail, Holds, sessionVars
  <2>5. r.err = "canceled" => r.abortRequested BY <2>2 DEF Stops, Keeps
  <2> QED BY <1>1, <2>2, <2>4, <2>5
<1>16. CASE RunPublish(t)
  <2>1. PICK pc \in {"closing", "finishing"} :
           job' = [job EXCEPT ![t] =
                     [@ EXCEPT !.pc = pc, !.terminal = Ends(t, job[t].verdict)]]
    BY <1>16 DEF RunPublish
  <2> DEFINE r == [job[t] EXCEPT !.pc = pc, !.terminal = Ends(t, job[t].verdict)]
  <2>2. job' = [job EXCEPT ![t] = r] BY <2>1
  <2>3. /\ r.pc = pc /\ r.err = job[t].err /\ r.cancelled = job[t].cancelled
        /\ r.abortRequested = job[t].abortRequested /\ r.verdict = job[t].verdict
    BY <1>0 DEF JobFields
  <2> HIDE DEF r
  <2>4. job'[t] = r BY <1>0, <2>2
  <2>5. (Holds(t)' <=> Holds(t)) /\ job[t].pc = "publishing"
    BY <1>16 DEF RunPublish, Holds, sessionVars
  <2> QED BY <2>1, <2>3, <2>4, <2>5 DEF Stops
<1>17. CASE RunClose(t)
  <2>1. PICK r \in JobFields :
          job'[t] = r /\ r.pc = "finishing" /\ r.err = job[t].err /\ Keeps(r, t)
    BY <1>17, GotoMoves DEF RunClose, PCs
  <2> QED BY <1>2, <2>1
<1>18. CASE RunFinish(t)
  <2> DEFINE r == [job[t] EXCEPT !.pc = "finished", !.done = TRUE,
                                 !.terminal = Ends(t, "silent")]
  <2>1. job' = [job EXCEPT ![t] = r] BY <1>18 DEF RunFinish
  <2>2. /\ r.pc = "finished" /\ r.err = job[t].err /\ r.cancelled = job[t].cancelled
        /\ r.abortRequested = job[t].abortRequested
    BY <1>0 DEF JobFields
  <2> HIDE DEF r
  <2>3. job'[t] = r BY <1>0, <2>1
  <2> QED BY <2>2, <2>3 DEF Stops
<1>19. CASE RunSend(t) BY <1>5, <1>6, <1>19 DEF RunSend
<1>20. CASE RunOpen(t) BY <1>7, <1>8, <1>20 DEF RunOpen
<1>21. CASE RunNext(t) BY <1>9, <1>10, <1>11, <1>12, <1>21 DEF RunNext
<1> QED
  BY <1>3, <1>4, <1>13, <1>14, <1>15, <1>16, <1>17, <1>18, <1>19, <1>20, <1>21
  DEF Acts, ServerStep, ProviderStep

\* A turn's own steps, in what it keeps of the conversation.
LEMMA AskedStep ==
    ASSUME JobInv, NEW t \in Turns, Asked(t), Acts(t)
    PROVE  Asked(t)'
<1>0. /\ job \in [Turns -> JobFields] /\ job[t] \in JobFields
      /\ stream \in [Turns -> StreamFields] /\ stream[t] \in StreamFields
      /\ phase \in [Turns -> Phases] /\ InStep(t)
      /\ messages \in Seq(Message) /\ messages = stored /\ IsTranscript(messages)
  BY Before DEF JobInv, SessionInv, SessionTypeOK, CacheIsStored, StoredIsTranscript
<1>1. ASSUME ~Holds(t)' PROVE Asked(t)' BY <1>1 DEF Asked
<1>2. ASSUME stored' = stored, Running(t), Holds(t),
             stream'[t].keep = stream[t].keep, stream'[t].sent = stream[t].sent,
             stream'[t].replace = stream[t].replace
      PROVE  Asked(t)'
  BY <1>2 DEF Asked
<1>3. ASSUME sessionVars' = sessionVars, Running(t)' => Running(t) \/ ~Holds(t)
      PROVE  Asked(t)'
  BY <1>1, <1>3 DEF Asked, Holds, sessionVars
<1>4. CASE Writes(t) BY <1>1, <1>4, WriteLeaves
<1>5. CASE ValidateCreate(t) \/ Gate(t)
  <2>1. ~Holds(t) BY <1>0, <1>5 DEF ValidateCreate, Gate, InStep, Holds
  <2> QED BY <1>3, <1>5, <2>1 DEF ValidateCreate, Gate
<1>6. CASE RunSend(t)
  <2>1. CASE SendRejected(t, job[t].from)
    <3>1. ~Holds(t)' BY <1>0, <2>1 DEF SendRejected, Holds
    <3> QED BY <1>1, <3>1
  <2>2. CASE SendAccepted(t, job[t].from)
    <3> DEFINE keep == KeepFor(messages, job[t].from)
               replace == job[t].from # NoIndex
               s == TurnStream(replace, keep, SubSeq(messages, 1, keep))
    <3>1. job[t].from \in Int \cup {NoIndex} /\ ValidReplaceFrom(messages, job[t].from)
      BY <1>0, <1>6, <2>2, SessionAssumption DEF RunSend, SendAccepted, InStep
    <3>2. keep \in 0..Len(stored) BY <1>0, <3>1, KeptIsEven
    <3>3. ~replace => keep = Len(stored) BY <1>0 DEF KeepFor
    <3>4. stream'[t] = s BY <1>0, <2>2 DEF SendAccepted
    <3>5. s.keep = keep /\ s.replace = replace /\ s.sent = SubSeq(messages, 1, keep)
      BY DEF TurnStream
    <3>6. stored' = stored BY <2>2 DEF SendAccepted
    <3> HIDE DEF s, keep, replace
    <3> QED BY <1>0, <3>2, <3>3, <3>4, <3>5, <3>6 DEF Asked
  <2> QED BY <1>6, <2>1, <2>2 DEF RunSend
<1>7. CASE RunOpen(t)
  <2>1. CASE StreamRefused(t)
    <3>1. ~Holds(t)' BY <1>0, <2>1 DEF StreamRefused, Holds
    <3> QED BY <1>1, <3>1
  <2>2. CASE StreamOpened(t)
    <3>1. stored' = stored /\ stream' = stream BY <2>2 DEF StreamOpened
    <3>2. Running(t)
      BY <1>7, Before DEF RunOpen, Running, Registered, Reported
    <3>3. Holds(t)' => Holds(t) BY <2>2 DEF StreamOpened, Holds
    <3> QED BY <1>1, <1>2, <3>1, <3>2, <3>3
  <2> QED BY <1>7, <2>1, <2>2 DEF RunOpen
<1>8. ASSUME job[t].pc = "reading" PROVE Running(t)
  BY <1>8, Before DEF Running, Registered, Reported
<1>9. CASE RunNext(t)
  <2>1. CASE NextPart(t)
    <3>1. /\ stored' = stored
          /\ stream'[t].keep = stream[t].keep /\ stream'[t].sent = stream[t].sent
          /\ stream'[t].replace = stream[t].replace
          /\ Holds(t)' <=> Holds(t)
      BY <1>0, <2>1 DEF NextPart, Holds, StreamFields
    <3> QED BY <1>1, <1>2, <1>8, <1>9, <3>1 DEF RunNext
  <2>2. CASE NextCompletesUnsaved(t) \/ NextFails(t)
    <3>1. ~Holds(t)'
      BY <1>0, <2>2, OverCounts DEF NextCompletesUnsaved, NextFails, Holds, Records
    <3> QED BY <1>1, <3>1
  <2>3. CASE NextCancelled(t)
    <3>1. /\ stored' = stored
          /\ stream'[t].keep = stream[t].keep /\ stream'[t].sent = stream[t].sent
          /\ stream'[t].replace = stream[t].replace
          /\ Holds(t)' => Holds(t)
      BY <1>0, <2>3 DEF NextCancelled, Holds, StreamFields
    <3> QED BY <1>1, <1>2, <1>8, <1>9, <3>1 DEF RunNext
  <2>4. CASE NextCompletes(t) /\ Publish(t, "done") BY <1>4, <1>9, <2>4 DEF Writes
  <2> QED BY <1>9, <2>1, <2>2, <2>3, <2>4 DEF RunNext
<1>10. CASE RunStop(t)
  <2>1. CASE PartialIgnored(t)
    <3>1. ~Holds(t)' BY <2>1 DEF PartialIgnored, Holds, sessionVars
    <3> QED BY <1>1, <3>1
  <2>2. CASE PartialUnsaved(t)
    <3>1. Running(t) BY <1>10, Before DEF RunStop, Running, Registered, Reported
    <3>2. stored' = stored /\ stream' = stream BY <2>2 DEF PartialUnsaved, CommitFails
    <3>3. Holds(t)' => Holds(t) BY <2>2 DEF PartialUnsaved, Holds
    <3> QED BY <1>1, <1>2, <3>1, <3>2, <3>3
  <2>3. CASE StoppedUnsaved(t, job[t].from) \/ StoppedCommitted(t, job[t].from)
    <3>1. ~Holds(t)' BY <1>0, <2>3 DEF StoppedUnsaved, StoppedCommitted, Holds
    <3> QED BY <1>1, <3>1
  <2>4. CASE PartialCommitted(t) /\ Publish(t, "aborted") BY <1>4, <1>10, <2>4 DEF Writes
  <2> QED BY <1>10, <2>1, <2>2, <2>3, <2>4 DEF RunStop
<1>11. CASE RunClose(t)
  <2>1. ~Holds(t)' BY <1>0, <1>11 DEF RunClose, Close, Holds
  <2> QED BY <1>1, <2>1
<1>12. CASE RunJudge(t) \/ RunFail(t) \/ RunPublish(t)
  <2>1. Running(t)
    BY <1>12, Before DEF RunJudge, RunFail, RunPublish, Running, Registered, Reported
  <2> QED BY <1>3, <1>12, <2>1 DEF RunJudge, RunFail, RunPublish
<1>13. CASE RunFinish(t)
  <2>1. ~Holds(t) BY <1>0, <1>13 DEF RunFinish, InStep, Holds
  <2> QED BY <1>3, <1>13, <2>1 DEF RunFinish
<1> QED
  BY <1>5, <1>6, <1>7, <1>9, <1>10, <1>11, <1>12, <1>13 DEF Acts, ServerStep, ProviderStep

\* A turn's step, in what the invariant says of another turn.
LEMMA OutcomeOfOthers ==
    ASSUME OutcomeInv, NEW t \in Turns, Acts(t), NEW u \in Turns, u # t
    PROVE  (Asked(u) /\ Told(u) /\ Stops(u))'
<1>0. /\ JobInv /\ OneTurnRuns /\ Reported(u) /\ Asked(u) /\ Told(u) /\ Stops(u)
      /\ stored \in Seq(Message)
  BY DEF OutcomeInv, JobInv, SessionInv, SessionTypeOK
<1>1. job'[u] = job[u] /\ phase'[u] = phase[u] /\ stream'[u] = stream[u]
  BY <1>0, OthersStay
<1>2. /\ (Running(u)' <=> Running(u)) /\ (Holds(u)' <=> Holds(u))
      /\ (IsTerminal(u)' <=> IsTerminal(u))
  BY <1>1 DEF Running, Registered, IsTerminal, Holds
<1>3. stored' = stored \/ (Writes(t) /\ ~Running(u))
  BY <1>0, OnlyRunningWrites DEF OneTurnRuns
<1>4. Mentions(stored', u) => Mentions(stored, u)
  <2>1. CASE stored' = stored BY <2>1
  <2>2. CASE Writes(t)
    <3>1. PICK n \in 0..Len(stored), parts \in Nat, completed \in BOOLEAN :
             stored' = SubSeq(stored, 1, n) \o <<Prompt(t), Reply(t, parts, completed)>>
      BY <1>0, <2>2, WriteLeaves
    <3> QED BY <1>0, <3>1, WritesOneTurn
  <2> QED BY <1>3, <2>1, <2>2
<1>5. job[u].verdict = "done" /\ ~IsTerminal(u) => Running(u)
  BY <1>0 DEF Reported, Running, Registered
<1>6. Asked(u)' BY <1>0, <1>1, <1>2, <1>3 DEF Asked
<1>7. Told(u)' BY <1>0, <1>1, <1>2, <1>3, <1>4, <1>5 DEF Told, Mentions
<1>8. Stops(u)' BY <1>0, <1>1, <1>2 DEF Stops
<1> QED BY <1>6, <1>7, <1>8

\* A turn's own steps do not take an abort request back.
LEMMA AskIsKept ==
    ASSUME JobInv, NEW t \in Turns, Acts(t)
    PROVE  job'[t].abortRequested = job[t].abortRequested
<1>0. job \in [Turns -> JobFields] /\ job[t] \in JobFields BY Before
<1>1. ASSUME NEW pc \in PCs, Goto(t, pc)
      PROVE  job'[t].abortRequested = job[t].abortRequested
  BY <1>1, GotoMoves DEF Keeps
<1>2. ASSUME NEW err \in {"other", "canceled"}, FailWith(t, err)
      PROVE  job'[t].abortRequested = job[t].abortRequested
  BY <1>2, FailMoves DEF Keeps
<1>3. ASSUME NEW verdict \in Verdicts, Publish(t, verdict)
      PROVE  job'[t].abortRequested = job[t].abortRequested
  BY <1>3, PublishMoves DEF Keeps
<1>4. CASE ValidateCreate(t) BY <1>0, <1>4 DEF ValidateCreate, JobFields
<1>5. CASE Gate(t) \/ RunJudge(t) \/ RunClose(t)
  BY <1>1, <1>5 DEF Gate, RunJudge, RunClose, PCs
<1>6. CASE RunSend(t) BY <1>1, <1>2, <1>6 DEF RunSend, PCs
<1>7. CASE RunOpen(t) BY <1>1, <1>2, <1>7 DEF RunOpen, PCs, Errors
<1>8. CASE RunNext(t) BY <1>2, <1>3, <1>8 DEF RunNext, Verdicts
<1>9. CASE RunStop(t) \/ RunFail(t) BY <1>3, <1>9 DEF RunStop, RunFail, Verdicts
<1>10. CASE RunPublish(t) BY <1>0, <1>10 DEF RunPublish, JobFields
<1>11. CASE RunFinish(t) BY <1>0, <1>11 DEF RunFinish, JobFields
<1> QED BY <1>4, <1>5, <1>6, <1>7, <1>8, <1>9, <1>10, <1>11 DEF Acts, ServerStep, ProviderStep

\* A handler that has not been called has written and stopped nothing.
LEMMA OutcomeInit == Init => OutcomeInv
<1> SUFFICES ASSUME Init PROVE OutcomeInv OBVIOUS
<1>1. JobInv BY JobInit
<1>2. stored = History /\ \A t \in Turns : job[t] = NewJob /\ phase[t] = "idle"
  BY DEF Init, SessionInit
<1>3. ASSUME NEW t \in Turns PROVE Asked(t) /\ Told(t) /\ Stops(t)
  <2>1. ~Holds(t) /\ ~Mentions(stored, t)
    <3>1. stored = History /\ phase[t] = "idle" BY <1>2
    <3> QED BY <3>1, TranscriptAssumption DEF Holds, Mentions
  <2>2. /\ job[t].pc = "idle" /\ job[t].verdict = "none" /\ job[t].err = "none"
        /\ ~job[t].cancelled
    BY <1>2 DEF NewJob
  <2> QED BY <2>1, <2>2 DEF Asked, Told, Stops
<1>4. CancelIsAsked BY DEF Init, CancelIsAsked
<1> QED BY <1>1, <1>3, <1>4 DEF OutcomeInv

(***************************************************************************)
(* An abort request raises abortRequested before it cancels the context.   *)
(***************************************************************************)
LEMMA OutcomeAfterAbort ==
    ASSUME OutcomeInv, UNCHANGED sessionVars,
           \A t \in Turns : /\ job'[t].pc = job[t].pc
                            /\ job'[t].verdict = job[t].verdict
                            /\ job'[t].terminal = job[t].terminal
                            /\ job'[t].err = job[t].err
                            /\ job[t].abortRequested => job'[t].abortRequested
                            /\ job'[t].cancelled => job[t].cancelled \/ job[t].abortRequested,
           NEW a \in AbortRequests, NEW e \in AbortFields, abort' = [abort EXCEPT ![a] = e],
           e.pc = "cancelling" => job'[e.turn].abortRequested,
           JobInv'
    PROVE  OutcomeInv'
<1>0. /\ \A t \in Turns : Asked(t) /\ Told(t) /\ Stops(t)
      /\ CancelIsAsked /\ JobInv
  BY DEF OutcomeInv
<1>1. ASSUME NEW t \in Turns PROVE (Asked(t) /\ Told(t) /\ Stops(t))'
  <2>1. /\ job'[t].pc = job[t].pc /\ job'[t].verdict = job[t].verdict
        /\ job'[t].terminal = job[t].terminal /\ job'[t].err = job[t].err
        /\ job[t].abortRequested => job'[t].abortRequested
        /\ job'[t].cancelled => job[t].cancelled \/ job[t].abortRequested
    OBVIOUS
  <2>2. /\ (Running(t)' <=> Running(t)) /\ (Holds(t)' <=> Holds(t))
        /\ (IsTerminal(t)' <=> IsTerminal(t))
        /\ stored' = stored /\ stream' = stream
    BY <2>1 DEF Running, Registered, IsTerminal, Holds, sessionVars
  <2>3. Asked(t)' BY <1>0, <2>2 DEF Asked
  <2>4. Told(t)' BY <1>0, <2>1, <2>2 DEF Told, Mentions
  <2>5. Stops(t)' BY <1>0, <2>1, <2>2 DEF Stops
  <2> QED BY <2>3, <2>4, <2>5
<1>2. CancelIsAsked'
  <2> SUFFICES ASSUME NEW b \in AbortRequests, abort'[b].pc = "cancelling"
               PROVE  job'[abort'[b].turn].abortRequested
    BY DEF CancelIsAsked
  <2>0. abort \in [AbortRequests -> AbortFields] BY <1>0, BeforeAbort
  <2>1. CASE b = a BY <2>0, <2>1
  <2>2. CASE b # a
    <3>1. abort'[b] = abort[b] BY <2>0, <2>2
    <3>2. abort[b].turn \in Turns BY <1>0, <3>1, BeforeAbort DEF Registered
    <3> QED BY <1>0, <3>1, <3>2 DEF CancelIsAsked
  <2> QED BY <2>1, <2>2
<1> QED BY <1>1, <1>2 DEF OutcomeInv

\* Every step of the server keeps what the verdicts tell.
LEMMA OutcomeNext == OutcomeInv /\ [Next]_vars => OutcomeInv'
<1> SUFFICES ASSUME OutcomeInv, [Next]_vars PROVE OutcomeInv' OBVIOUS
<1>0. /\ JobInv /\ CancelIsAsked /\ JobInv'
      /\ \A t \in Turns : Asked(t) /\ Told(t) /\ Stops(t)
  BY JobInvNext DEF OutcomeInv
<1>1. ASSUME NEW t \in Turns, Acts(t) PROVE OutcomeInv'
  <2>1. (Asked(t) /\ Told(t) /\ Stops(t))'
    BY <1>0, <1>1, AskedStep, ToldStep, StopsStep
  <2>2. \A u \in Turns : u # t => (Asked(u) /\ Told(u) /\ Stops(u))'
    BY <1>1, OutcomeOfOthers
  <2>3. CancelIsAsked'
    <3> SUFFICES ASSUME NEW a \in AbortRequests, abort'[a].pc = "cancelling"
                 PROVE  job'[abort'[a].turn].abortRequested
      BY DEF CancelIsAsked
    <3>1. abort' = abort
      BY <1>1 DEF Acts, ServerStep, ProviderStep, ValidateCreate, Gate, RunSend, RunOpen, RunNext,
                  RunJudge, RunStop, RunFail, RunPublish, RunClose, RunFinish
    <3>2. abort[a].turn \in Turns /\ job[abort[a].turn].abortRequested
      BY <1>0, <3>1, BeforeAbort DEF CancelIsAsked, Registered
    <3>3. job'[t].abortRequested = job[t].abortRequested
      BY <1>0, <1>1, AskIsKept
    <3>4. \A u \in Turns : u # t => job'[u] = job[u] BY <1>0, <1>1, OthersStay
    <3> QED BY <3>1, <3>2, <3>3, <3>4
  <2> QED BY <1>0, <2>1, <2>2, <2>3 DEF OutcomeInv
<1>2. ASSUME NEW a \in AbortRequests, AbortCancel(a) PROVE OutcomeInv'
  <2> DEFINE t == abort[a].turn
             e == [abort[a] EXCEPT !.pc = "waiting"]
             r == [job[t] EXCEPT !.cancelled = TRUE]
  <2>1. abort[a] \in AbortFields /\ t \in Turns /\ job[t].abortRequested
    BY <1>0, <1>2, BeforeAbort DEF AbortCancel, CancelIsAsked, Registered
  <2>2. job \in [Turns -> JobFields] /\ job[t] \in JobFields BY <1>0, <2>1, Before
  <2>3. e \in AbortFields /\ e.pc = "waiting" BY <2>1 DEF AbortFields
  <2>4. /\ r.pc = job[t].pc /\ r.verdict = job[t].verdict /\ r.terminal = job[t].terminal
        /\ r.err = job[t].err /\ r.abortRequested = job[t].abortRequested
    BY <2>2 DEF JobFields
  <2>5. /\ job' = [job EXCEPT ![t] = r] /\ abort' = [abort EXCEPT ![a] = e]
        /\ UNCHANGED sessionVars
    BY <1>2 DEF AbortCancel
  <2> HIDE DEF e, r, t
  <2>6. \A u \in Turns : /\ job'[u].pc = job[u].pc
                         /\ job'[u].verdict = job[u].verdict
                         /\ job'[u].terminal = job[u].terminal
                         /\ job'[u].err = job[u].err
                         /\ job[u].abortRequested => job'[u].abortRequested
                         /\ job'[u].cancelled => job[u].cancelled \/ job[u].abortRequested
    BY <2>1, <2>2, <2>4, <2>5
  <2> QED BY <1>0, <2>3, <2>5, <2>6, OutcomeAfterAbort
<1>3. ASSUME NEW a \in AbortRequests, NEW pc \in {"answered", "left"},
             abort[a].pc = "waiting", abort' = [abort EXCEPT ![a].pc = pc],
             UNCHANGED <<sessionVars, job>>
      PROVE  OutcomeInv'
  <2> DEFINE e == [abort[a] EXCEPT !.pc = pc]
  <2>1. abort[a] \in AbortFields BY <1>0, BeforeAbort
  <2>2. e \in AbortFields /\ e.pc = pc BY <2>1 DEF AbortFields
  <2>3. abort' = [abort EXCEPT ![a] = e] BY <1>3
  <2> HIDE DEF e
  <2> QED BY <1>0, <1>3, <2>2, <2>3, OutcomeAfterAbort
<1>4. ASSUME NEW a \in AbortRequests, NEW t \in Turns, AbortEnter(a, t) PROVE OutcomeInv'
  <2>0. job \in [Turns -> JobFields] /\ job[t] \in JobFields BY <1>0, Before
  <2>1. CASE IsTerminal(t)
    <3> DEFINE e == [pc |-> "conflict", turn |-> t]
    <3>1. e \in AbortFields /\ e.pc # "cancelling" BY DEF AbortFields
    <3>2. abort' = [abort EXCEPT ![a] = e] /\ UNCHANGED <<sessionVars, job>>
      BY <1>4, <2>1 DEF AbortEnter
    <3> HIDE DEF e
    <3> QED BY <1>0, <3>1, <3>2, OutcomeAfterAbort
  <2>2. CASE ~IsTerminal(t)
    <3> DEFINE e == [pc |-> "cancelling", turn |-> t]
               r == [job[t] EXCEPT !.abortRequested = TRUE]
    <3>1. e \in AbortFields /\ e.turn = t BY DEF AbortFields
    <3>2. /\ abort' = [abort EXCEPT ![a] = e] /\ job' = [job EXCEPT ![t] = r]
          /\ UNCHANGED sessionVars
      BY <1>4, <2>2 DEF AbortEnter
    <3>3. /\ r.pc = job[t].pc /\ r.verdict = job[t].verdict /\ r.terminal = job[t].terminal
          /\ r.err = job[t].err /\ r.abortRequested /\ r.cancelled = job[t].cancelled
      BY <2>0 DEF JobFields
    <3> HIDE DEF e, r
    <3>4. \A u \in Turns : /\ job'[u].pc = job[u].pc
                           /\ job'[u].verdict = job[u].verdict
                           /\ job'[u].terminal = job[u].terminal
                           /\ job'[u].err = job[u].err
                           /\ job[u].abortRequested => job'[u].abortRequested
                           /\ job'[u].cancelled => job[u].cancelled \/ job[u].abortRequested
      BY <2>0, <3>2, <3>3
    <3>5. job'[e.turn].abortRequested BY <2>0, <3>1, <3>2, <3>3
    <3> QED BY <1>0, <3>1, <3>2, <3>4, <3>5, OutcomeAfterAbort
  <2> QED BY <2>1, <2>2
<1>5. CASE UNCHANGED vars
  BY <1>0, <1>5 DEF vars, jobVars, sessionVars, OutcomeInv, Asked, Told, Stops, CancelIsAsked,
                    Running, Registered, IsTerminal, Holds, Mentions
<1>6. ASSUME NEW a \in AbortRequests, AbortStep(a) \/ AbortLeave(a) PROVE OutcomeInv'
  BY <1>2, <1>3, <1>6 DEF AbortStep, AbortAnswer, AbortLeave
<1> QED BY <1>1, <1>4, <1>5, <1>6 DEF Next, Acts

\* What the verdicts tell holds in every reachable state.
LEMMA OutcomeHolds == Spec => []OutcomeInv
BY OutcomeInit, OutcomeNext, PTL DEF Spec

----------------------------------------------------------------------------
(***************************************************************************)
(* The terminal event of a turn is the verdict its goroutine decided on.   *)
(***************************************************************************)
LEMMA EventIsVerdict ==
    ASSUME JobInv, [Next]_vars, NEW t \in Turns, ~IsTerminal(t), IsTerminal(t)'
    PROVE  /\ RunPublish(t)
           /\ job'[t].terminal = job[t].verdict
<1>0. job \in [Turns -> JobFields] /\ Reported(t) BY Before
<1>1. ASSUME NEW u \in Turns, Acts(u), u # t PROVE FALSE
  BY <1>1, OthersStay DEF IsTerminal
<1>2. ASSUME NEW a \in AbortRequests, AbortStep(a) \/ AbortLeave(a) PROVE FALSE
  <2>1. UNCHANGED job \/ job' = [job EXCEPT ![abort[a].turn].cancelled = TRUE]
    BY <1>2 DEF AbortStep, AbortCancel, AbortAnswer, AbortLeave
  <2> QED BY <1>0, <2>1 DEF IsTerminal, JobFields
<1>3. ASSUME NEW a \in AbortRequests, NEW u \in Turns, AbortEnter(a, u) PROVE FALSE
  <2>1. UNCHANGED job \/ job' = [job EXCEPT ![u].abortRequested = TRUE]
    BY <1>3 DEF AbortEnter
  <2> QED BY <1>0, <2>1 DEF IsTerminal, JobFields
<1>4. ASSUME NEW pc \in PCs, Goto(t, pc) PROVE FALSE
  BY <1>4, GotoMoves DEF Keeps, IsTerminal
<1>5. ASSUME NEW err \in {"other", "canceled"}, FailWith(t, err) PROVE FALSE
  BY <1>5, FailMoves DEF Keeps, IsTerminal
<1>6. ASSUME NEW verdict \in Verdicts, Publish(t, verdict) PROVE FALSE
  BY <1>6, PublishMoves DEF Keeps, IsTerminal
<1>7. ASSUME Acts(t) PROVE RunPublish(t)
  <2>1. CASE ValidateCreate(t) BY <1>0, <2>1 DEF ValidateCreate, JobFields, IsTerminal
  <2>2. CASE Gate(t) \/ RunJudge(t) \/ RunClose(t)
    BY <1>4, <2>2 DEF Gate, RunJudge, RunClose, PCs
  <2>3. CASE RunSend(t) BY <1>4, <1>5, <2>3 DEF RunSend, PCs
  <2>4. CASE RunOpen(t) BY <1>4, <1>5, <2>4 DEF RunOpen, PCs, Errors
  <2>5. CASE RunNext(t) BY <1>5, <1>6, <2>5 DEF RunNext, Verdicts, IsTerminal
  <2>6. CASE RunStop(t) \/ RunFail(t) BY <1>6, <2>6 DEF RunStop, RunFail, Verdicts
  <2>7. CASE RunFinish(t) BY <1>0, <2>7 DEF RunFinish, Reported
  <2> QED BY <1>7, <2>1, <2>2, <2>3, <2>4, <2>5, <2>6, <2>7 DEF Acts, ServerStep, ProviderStep
<1>8. RunPublish(t)
  <2>1. ~UNCHANGED vars BY DEF vars, jobVars, IsTerminal
  <2> QED BY <1>1, <1>2, <1>3, <1>7, <2>1 DEF Next, Acts
<1>9. job'[t].terminal = Ends(t, job[t].verdict)
  BY <1>0, <1>8 DEF RunPublish, JobFields
<1> QED BY <1>8, <1>9 DEF Ends

(***************************************************************************)
(* A terminal event never misreports the store: `done' only above the      *)
(* completed reply, `stream-error' only when nothing of the turn is there. *)
(***************************************************************************)
THEOREM EventAlwaysMatchesStore == Spec => EventMatchesStore
<1>1. OutcomeInv /\ [Next]_vars
      => [\A t \in Turns : ~IsTerminal(t) =>
             /\ job'[t].terminal = "done" =>
                   /\ stored # <<>>
                   /\ stored[Len(stored)] = Reply(t, stream[t].parts, TRUE)
             /\ job'[t].terminal = "stream-error" => ~InStored(t)]_vars
  <2> SUFFICES ASSUME OutcomeInv, [Next]_vars, NEW t \in Turns, ~IsTerminal(t),
                      job'[t].terminal \in {"done", "stream-error"}
               PROVE  /\ job'[t].terminal = "done" =>
                            /\ stored # <<>>
                            /\ stored[Len(stored)] = Reply(t, stream[t].parts, TRUE)
                      /\ job'[t].terminal = "stream-error" => ~InStored(t)
    OBVIOUS
  <2>1. JobInv /\ Told(t) BY DEF OutcomeInv
  <2>2. IsTerminal(t)' BY DEF IsTerminal
  <2>3. job'[t].terminal = job[t].verdict BY <2>1, <2>2, EventIsVerdict
  <2> QED BY <2>1, <2>3 DEF Told, Mentions, InStored
<1> QED BY <1>1, OutcomeHolds, PTL DEF Spec, EventMatchesStore

(***************************************************************************)
(* Between Send's copy of the conversation and the turn's own write no     *)
(* other request changes what the model was asked to answer.               *)
(***************************************************************************)
THEOREM ReplyAlwaysFollowsItsContext == Spec => ReplyFollowsItsContext
<1>1. OutcomeInv /\ [Next]_vars
      => [\A t \in Turns :
             stored' # stored /\ Holds(t) /\ stream'[t].finalized
             => stored' = stream[t].sent
                  \o <<Prompt(t), Reply(t, stream[t].parts, stream'[t].completed)>>]_vars
  <2> SUFFICES ASSUME OutcomeInv, [Next]_vars, NEW t \in Turns,
                      stored' # stored, Holds(t), stream'[t].finalized
               PROVE  stored' = stream[t].sent
                        \o <<Prompt(t), Reply(t, stream[t].parts, stream'[t].completed)>>
    OBVIOUS
  <2>1. JobInv /\ Asked(t) BY DEF OutcomeInv
  <2>2. PICK u \in Turns : Acts(u)
    BY DEF Next, Acts, AbortStep, AbortCancel, AbortAnswer, AbortLeave, AbortEnter, vars,
           sessionVars
  <2>3. Writes(u) /\ Running(u) BY <2>1, <2>2, OnlyRunningWrites
  <2>4. u = t
    <3>1. ASSUME u # t PROVE FALSE
      <4>1. stream'[t] = stream[t] BY <2>1, <2>2, <3>1, OthersStay
      <4> QED BY <4>1 DEF Holds
    <3> QED BY <3>1
  <2> QED BY <2>1, <2>3, <2>4, WriteFollowsContext
<1> QED BY <1>1, OutcomeHolds, PTL DEF Spec, ReplyFollowsItsContext

(***************************************************************************)
(* A turn writes before its terminal event, and every other turn that is   *)
(* in the conversation by then has sent its own.                           *)
(***************************************************************************)
THEOREM OnlyRunningTurnEverWrites == Spec => OnlyRunningTurnWrites
<1>1. JobInv /\ UndecidedIsAbsent /\ [Next]_vars
      => [stored' # stored =>
             \E t \in Turns :
                /\ Running(t)
                /\ stored' # <<>> /\ stored'[Len(stored')].turn = t
                /\ \A u \in Turns \ {t} : InStored(u) => IsTerminal(u)]_vars
  <2> SUFFICES ASSUME JobInv, UndecidedIsAbsent, [Next]_vars, stored' # stored
               PROVE  \E t \in Turns :
                         /\ Running(t)
                         /\ stored' # <<>> /\ stored'[Len(stored')].turn = t
                         /\ \A u \in Turns \ {t} : InStored(u) => IsTerminal(u)
    OBVIOUS
  <2>1. PICK t \in Turns : Acts(t)
    BY DEF Next, Acts, AbortStep, AbortCancel, AbortAnswer, AbortLeave, AbortEnter, vars,
           sessionVars
  <2>2. Writes(t) /\ Running(t) BY <2>1, OnlyRunningWrites
  <2>3. stored' # <<>> /\ stored'[Len(stored')].turn = t
    <3>1. PICK n \in 0..Len(stored), parts \in Nat, completed \in BOOLEAN :
            stored' = SubSeq(stored, 1, n) \o <<Prompt(t), Reply(t, parts, completed)>>
      BY <2>2, WriteLeaves
    <3>2. PICK reply \in Message : reply = Reply(t, parts, completed) BY ReplyType
    <3>3. stored' = SubSeq(stored, 1, n) \o <<Prompt(t), reply>> BY <3>1, <3>2
    <3>4. stored \in Seq(Message) BY DEF JobInv, SessionInv, SessionTypeOK
    <3>5. stored' \in Seq(Message) /\ Len(stored') = n + 2 /\ stored'[n + 2] = reply
      BY ONLY <3>3, <3>4, n \in 0..Len(stored), t \in Turns, reply \in Message, TurnAtEnd
    <3>6. reply.turn = t BY <3>2 DEF Reply
    <3>7. n + 2 # 0 BY <3>4, LenProperties
    <3> QED BY <3>5, <3>6, <3>7
  <2>4. ASSUME NEW u \in Turns \ {t}, InStored(u) PROVE IsTerminal(u)
    <3>1. u \notin Undecided BY <2>4 DEF UndecidedIsAbsent, Mentions, InStored
    <3>2. phase[u] # "idle" BY <3>1 DEF Undecided
    <3>3. job[u].pc \notin {"idle", "validated", "rejected"} BY <3>2 DEF JobInv, InStep
    <3>4. u \in Registered BY <3>3 DEF Registered
    <3> QED BY <2>2, <3>4 DEF JobInv, OneTurnRuns, Running
  <2> QED BY <2>2, <2>3, <2>4
<1>2. Spec => []UndecidedIsAbsent BY ServerIsCaller, AbsentHolds, PTL
<1> QED BY <1>1, <1>2, JobInvHolds, PTL DEF Spec, OnlyRunningTurnWrites

(***************************************************************************)
(* A turn the gate admits finds the session taken only by an aborted turn  *)
(* whose partial reply the store refused, and that is about to close.      *)
(***************************************************************************)
THEOREM AdmittedAlwaysFindsSessionFree == Spec => []AdmittedFindsSessionFree
<1>1. OutcomeInv /\ InFlightIsHeld => AdmittedFindsSessionFree
  <2> SUFFICES ASSUME OutcomeInv, NEW t \in Turns, job[t].pc = "created",
                      NEW u \in Turns, Holds(u)
               PROVE  job[u].abortRequested /\ job[u].terminal = "stream-error"
    BY DEF AdmittedFindsSessionFree, InFlightIsHeld
  <2>1. /\ JobInv /\ OneTurnRuns /\ Stops(u)
        /\ InStep(t) /\ Reported(t) /\ InStep(u) /\ Reported(u) /\ job[u] \in JobFields
    BY Before DEF OutcomeInv, JobInv
  <2>2. u # t BY <2>1 DEF InStep, Holds
  <2>3. Running(t) BY <2>1 DEF Running, Registered, Reported
  <2>4. ~Running(u) BY <2>1, <2>2, <2>3 DEF OneTurnRuns
  <2>5. u \in Registered BY <2>1 DEF Registered, InStep, Holds
  <2>6. IsTerminal(u) BY <2>4, <2>5 DEF Running
  <2>7. job[u].pc = "closing" BY <2>1, <2>6 DEF Reported, InStep, Holds
  <2> QED BY <2>1, <2>6, <2>7 DEF Stops, Reported
<1>2. Spec => []InFlightIsHeld
  BY ServerIsCaller, InFlightIsAlwaysHeld, PTL
<1> QED BY <1>1, <1>2, OutcomeHolds, PTL
=============================================================================
