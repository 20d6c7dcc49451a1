-------------------------- MODULE LifecycleProofs --------------------------
(***************************************************************************)
(* The safety properties of Lifecycle, for any servers, commands and turns *)
(* and a reply of any length.                                              *)
(*                                                                         *)
(* The invariant has a part for each kind of state: the file only ever     *)
(* moves towards the schema the program was written for, and the place of  *)
(* a process in Migrate tells how far it is at least (SchemaInv); the      *)
(* place of a turn tells whether it has rows (TurnInv); a server that      *)
(* returns with code 0 has no reader left (ExitInv).                       *)
(***************************************************************************)
EXTENDS Lifecycle, TLAPS

\* What a process that is past a statement of Migrate has seen of the file.
HasTables == {"created", "altering", "marking", "asking"} \cup Up
HasColumn == {"marking", "asking"} \cup Up
HasVersion == {"asking"} \cup Up

SchemaInv ==
    /\ schema.version = 2 => schema.column
    /\ schema.column => schema.tables
    /\ \A p \in Processes :
          /\ proc[p].pc \in HasTables => schema.tables
          /\ proc[p].pc \in HasColumn => schema.column
          /\ proc[p].pc \in HasVersion => schema.version = 2
          /\ proc[p].lostRace => schema.column

TurnIsTrue(t) ==
    /\ turn[t].pc = "committed" => t \in recorded
    /\ turn[t].pc = "settled" => (t \in recorded <=> turn[t].verdict = "done")
    /\ t \in recorded => turn[t].pc \in {"committed", "settled", "lost"}
    /\ turn[t].shown # "none" => turn[t].pc = "settled" /\ turn[t].shown = turn[t].verdict
    /\ turn[t].by \in Commands /\ (turn[t].pc = "committing" \/ t \in recorded)
       => turn[t].printed = Reply

TurnInv == \A t \in Turns : TurnIsTrue(t)

ExitInv ==
    \A p \in Servers :
        /\ proc[p].pc # "asking"
        /\ proc[p].pc \in {"closing", "exited"} /\ proc[p].code = 0 =>
              \A t \in Turns : turn[t].by = p => ~turn[t].watched

LifecycleInv == TypeOK /\ SchemaInv /\ TurnInv /\ ExitInv

----------------------------------------------------------------------------
(* What each action does to the record of the process or turn it names. *)

\* The steps of a process that neither finish it nor touch a turn.
ProcessStep(p) ==
    \/ Open(p) \/ Migrate(p) \/ Listen(p) \/ ServeFails(p) \/ Signal(p)
    \/ ShutdownEnds(p) \/ ShutdownTimesOut(p) \/ AskFails(p)

EndStep(p) == Exit(p) \/ Crash(p)

TurnStep(t) ==
    \/ Watch(t) \/ Unwatch(t) \/ BeginCommit(t) \/ Commit(t) \/ PublishDone(t)
    \/ TurnFails(t)

CommandStep(p, t) == PrintPart(p, t) \/ PrintFails(p, t) \/ PrintCut(p, t) \/ PrintEnds(p, t)

(***************************************************************************)
(* Next is one of these steps.                                             *)
(***************************************************************************)
LEMMA StepKinds ==
    ASSUME Next
    PROVE \/ \E p \in Processes : ProcessStep(p) \/ EndStep(p)
          \/ \E t \in Turns : TurnStep(t)
          \/ \E p \in Processes, t \in Turns : CreateTurn(p, t) \/ Ask(p, t) \/ CommandStep(p, t)
  BY Zenon DEF Next, ProcessStep, EndStep, TurnStep, CommandStep

(***************************************************************************)
(* A step of a process before its end leaves turns and rows alone, and     *)
(* changes only its own record.                                            *)
(***************************************************************************)
LEMMA ProcessStepKeeps ==
    ASSUME TypeOK, NEW p \in Processes, ProcessStep(p)
    PROVE /\ UNCHANGED <<recorded, turn>>
          /\ proc' \in [Processes -> ProcFields]
          /\ schema' \in [tables : BOOLEAN, column : BOOLEAN, version : 0..2]
          /\ \A q \in Processes : q # p => proc'[q] = proc[q]
  <1>. USE DEF TypeOK, ProcFields, Goto, Return, Migrating, Up
  <1>1. CASE Open(p) BY <1>1 DEF Open
  <1>2. CASE SetVersionOne(p) BY <1>2 DEF SetVersionOne
  <1>3. CASE CreateTables(p) BY <1>3 DEF CreateTables
  <1>4. CASE CheckColumn(p) BY <1>4 DEF CheckColumn
  <1>5. CASE AddColumn(p)
    <2>1. UNCHANGED <<recorded, turn>> BY <1>5 DEF AddColumn
    <2>2. CASE schema' = [schema EXCEPT !.column = TRUE] /\ Goto(p, "marking")
      BY <2>1, <2>2
    <2>3. CASE /\ proc' = [proc EXCEPT ![p] = [pc |-> "closing", code |-> 1, lostRace |-> TRUE]]
               /\ UNCHANGED schema
      <3>1. [pc |-> "closing", code |-> 1, lostRace |-> TRUE] \in ProcFields OBVIOUS
      <3>2. proc' \in [Processes -> ProcFields] BY <2>3, <3>1 DEF TypeOK
      <3>. QED BY <2>1, <2>3, <3>2
    <2>. QED BY <1>5, <2>2, <2>3 DEF AddColumn
  <1>6. CASE SetVersionTwo(p) BY <1>6 DEF SetVersionTwo
  <1>7. CASE MigrateFails(p) BY <1>7 DEF MigrateFails
  <1>8. CASE Listen(p)
    <2>1. UNCHANGED <<schema, recorded, turn>> BY <1>8 DEF Listen
    <2>2. CASE Goto(p, "serving") BY <2>1, <2>2
    <2>3. CASE Return(p, 1) BY <2>1, <2>3
    <2>. QED BY <1>8, <2>2, <2>3 DEF Listen
  <1>9. CASE ServeFails(p) BY <1>9 DEF ServeFails
  <1>10. CASE Signal(p) BY <1>10 DEF Signal
  <1>11. CASE ShutdownEnds(p) BY <1>11 DEF ShutdownEnds
  <1>12. CASE ShutdownTimesOut(p) BY <1>12 DEF ShutdownTimesOut
  <1>13. CASE AskFails(p) BY <1>13 DEF AskFails
  <1>. QED BY <1>1, <1>2, <1>3, <1>4, <1>5, <1>6, <1>7, <1>8, <1>9, <1>10, <1>11, <1>12, <1>13
           DEF ProcessStep, Migrate

(***************************************************************************)
(* The records the steps of a turn make of its record are of its type.     *)
(***************************************************************************)
LEMMA BegunFields ==
    ASSUME NEW r \in TurnFields, NEW p \in Processes
    PROVE  [r EXCEPT !.by = p, !.pc = "running"] \in TurnFields
  BY DEF TurnFields

LEMMA WatchedFields ==
    ASSUME NEW r \in TurnFields, NEW watched \in BOOLEAN
    PROVE  [r EXCEPT !.watched = watched] \in TurnFields
  BY DEF TurnFields

LEMMA TurnUpdate ==
    ASSUME turn \in [Turns -> TurnFields], NEW t \in Turns, NEW r \in TurnFields,
           turn' = [turn EXCEPT ![t] = r]
    PROVE  /\ turn' \in [Turns -> TurnFields]
           /\ turn'[t] = r
           /\ \A u \in Turns : u # t => turn'[u] = turn[u]
  OBVIOUS

(***************************************************************************)
(* What Settle does, whoever calls it.                                     *)
(***************************************************************************)
LEMMA SettleKeeps ==
    ASSUME turn \in [Turns -> TurnFields], NEW t \in Turns,
           NEW verdict \in {"done", "error"}, Settle(t, verdict)
    PROVE  /\ turn' \in [Turns -> TurnFields]
           /\ \A u \in Turns : u # t => turn'[u] = turn[u]
           /\ turn'[t].by = turn[t].by /\ ~turn'[t].watched
           /\ turn'[t].pc = "settled" /\ turn'[t].printed = turn[t].printed
           /\ turn'[t].verdict = verdict
           /\ turn'[t].shown \in {turn[t].shown, verdict}
  <1>. DEFINE Settled(shown) == [turn[t] EXCEPT !.pc = "settled", !.verdict = verdict,
                                                !.watched = FALSE, !.shown = shown]
  <1>1. PICK shown \in {turn[t].shown, verdict} : turn' = [turn EXCEPT ![t] = Settled(shown)]
    <2>1. CASE turn[t].watched
      <3>1. turn' = [turn EXCEPT ![t] = Settled(verdict)] BY <2>1 DEF Settle
      <3>. QED BY <3>1
    <2>2. CASE ~turn[t].watched
      <3>1. turn' = [turn EXCEPT ![t] = Settled(turn[t].shown)] BY <2>2 DEF Settle
      <3>. QED BY <3>1
    <2>. QED BY <2>1, <2>2
  <1>2. turn[t] \in TurnFields OBVIOUS
  <1>3. PICK s : s = Settled(shown) OBVIOUS
  <1>4. /\ s \in TurnFields
        /\ s.by = turn[t].by /\ s.printed = turn[t].printed /\ ~s.watched
        /\ s.pc = "settled" /\ s.verdict = verdict /\ s.shown = shown
    BY <1>2, <1>3 DEF TurnFields
  <1>5. /\ turn' \in [Turns -> TurnFields]
        /\ turn'[t] = s
        /\ \A u \in Turns : u # t => turn'[u] = turn[u]
    <2>1. turn' = [turn EXCEPT ![t] = s] BY <1>1, <1>3
    <2>. QED BY <1>4, <2>1, TurnUpdate
  <1>. QED BY <1>4, <1>5

(***************************************************************************)
(* A turn's step changes its own record only, and adds at most its row.    *)
(***************************************************************************)
LEMMA TurnStepKeeps ==
    ASSUME TypeOK, NEW t \in Turns, TurnStep(t)
    PROVE /\ UNCHANGED <<schema, proc>>
          /\ recorded' \subseteq Turns
          /\ turn' \in [Turns -> TurnFields]
          /\ \A u \in Turns : u # t => turn'[u] = turn[u] /\ (u \in recorded' <=> u \in recorded)
          /\ turn'[t].by = turn[t].by
          /\ turn'[t].watched => turn[t].watched \/ Watch(t)
  <1>. USE DEF TypeOK
  <1>1. CASE Watch(t)
    <2>1. CASE turn[t].pc = "settled" BY <1>1, <2>1 DEF Watch, TurnFields
    <2>2. CASE turn[t].pc # "settled"
      <3>. DEFINE r == [turn[t] EXCEPT !.watched = TRUE]
      <3>1. turn[t] \in TurnFields OBVIOUS
      <3>2. r \in TurnFields BY <3>1, WatchedFields
      <3>3. turn' = [turn EXCEPT ![t] = r] /\ UNCHANGED <<schema, recorded, proc>>
        BY <1>1, <2>2 DEF Watch
      <3>4. r.by = turn[t].by BY <3>1 DEF TurnFields
      <3>. HIDE DEF r
      <3>. QED BY <1>1, <3>2, <3>3, <3>4, TurnUpdate
    <2>. QED BY <2>1, <2>2
  <1>2. CASE Unwatch(t) BY <1>2 DEF Unwatch, TurnFields
  <1>3. CASE BeginCommit(t) BY <1>3 DEF BeginCommit, TurnFields
  <1>4. CASE Commit(t) BY <1>4 DEF Commit, TurnFields
  <1>5. CASE PublishDone(t) BY <1>5, SettleKeeps DEF PublishDone
  <1>6. CASE TurnFails(t) BY <1>6, SettleKeeps DEF TurnFails
  <1>. QED BY <1>1, <1>2, <1>3, <1>4, <1>5, <1>6 DEF TurnStep

(***************************************************************************)
(* The end of a process is one of its record, and of its unsettled turns.  *)
(***************************************************************************)
LEMMA EndStepKeeps ==
    ASSUME TypeOK, NEW p \in Processes, EndStep(p)
    PROVE /\ UNCHANGED <<schema, recorded>>
          /\ proc' \in [Processes -> ProcFields]
          /\ \A q \in Processes : q # p => proc'[q] = proc[q]
          /\ proc'[p].pc = "exited"
          /\ proc'[p].lostRace = proc[p].lostRace
          /\ proc'[p].code = 1 \/ (proc[p].pc = "closing" /\ proc'[p].code = proc[p].code)
          /\ turn' \in [Turns -> TurnFields]
          /\ \A t \in Turns :
                turn'[t] = IF t \in Unsettled(p) THEN [turn[t] EXCEPT !.pc = "lost"] ELSE turn[t]
  <1>1. PICK code \in {0, 1} :
            /\ End(p, code)
            /\ code = 1 \/ (proc[p].pc = "closing" /\ code = proc[p].code)
    <2>1. proc[p].code \in {0, 1} BY DEF TypeOK, ProcFields
    <2>2. CASE Exit(p) BY <2>1, <2>2 DEF Exit
    <2>3. CASE Crash(p) BY <2>3 DEF Crash
    <2>. QED BY <2>2, <2>3 DEF EndStep
  <1>2. /\ UNCHANGED <<schema, recorded>>
        /\ proc' \in [Processes -> ProcFields]
        /\ \A q \in Processes : q # p => proc'[q] = proc[q]
        /\ proc'[p].pc = "exited" /\ proc'[p].code = code
        /\ proc'[p].lostRace = proc[p].lostRace
    BY <1>1 DEF TypeOK, ProcFields, End
  <1>3. turn' \in [Turns -> TurnFields]
    BY <1>1 DEF TypeOK, TurnFields, End
  <1>4. \A t \in Turns :
            turn'[t] = IF t \in Unsettled(p) THEN [turn[t] EXCEPT !.pc = "lost"] ELSE turn[t]
    BY <1>1 DEF End
  <1>. QED BY <1>1, <1>2, <1>3, <1>4

(***************************************************************************)
(* A step that gives a turn to a process changes these two records only.   *)
(***************************************************************************)
LEMMA BeginStepKeeps ==
    ASSUME TypeOK, NEW p \in Processes, NEW t \in Turns, CreateTurn(p, t) \/ Ask(p, t)
    PROVE /\ UNCHANGED <<schema, recorded>>
          /\ proc' \in [Processes -> ProcFields]
          /\ \A q \in Processes : q # p => proc'[q] = proc[q]
          /\ proc'[p].code = proc[p].code /\ proc'[p].lostRace = proc[p].lostRace
          /\ turn' \in [Turns -> TurnFields]
          /\ \A u \in Turns : u # t => turn'[u] = turn[u]
          /\ turn[t].pc = "none" /\ turn'[t] = [turn[t] EXCEPT !.by = p, !.pc = "running"]
  <1>. USE DEF TypeOK, ProcFields, Up
  <1>1. turn' = [turn EXCEPT ![t] = [@ EXCEPT !.by = p, !.pc = "running"]] /\ turn[t].pc = "none"
    BY DEF CreateTurn, Ask
  <1>2. /\ turn' \in [Turns -> TurnFields]
        /\ \A u \in Turns : u # t => turn'[u] = turn[u]
        /\ turn'[t] = [turn[t] EXCEPT !.by = p, !.pc = "running"]
    <2>. DEFINE r == [turn[t] EXCEPT !.by = p, !.pc = "running"]
    <2>1. r \in TurnFields BY BegunFields
    <2>2. turn' = [turn EXCEPT ![t] = r] BY <1>1
    <2>. HIDE DEF r
    <2>3. turn' \in [Turns -> TurnFields] /\ turn'[t] = r /\ \A u \in Turns : u # t => turn'[u] = turn[u]
      BY <2>1, <2>2, TurnUpdate
    <2>. QED BY <2>3 DEF r
  <1>3. CASE CreateTurn(p, t) BY <1>1, <1>2, <1>3 DEF CreateTurn
  <1>4. CASE Ask(p, t) BY <1>1, <1>2, <1>4 DEF Ask, Goto
  <1>. QED BY <1>3, <1>4

(***************************************************************************)
(* A step of the ask command prints a piece or settles its turn.           *)
(***************************************************************************)
LEMMA CommandStepKeeps ==
    ASSUME TypeOK, NEW p \in Processes, NEW t \in Turns, CommandStep(p, t)
    PROVE /\ UNCHANGED <<schema, recorded>>
          /\ proc' \in [Processes -> ProcFields]
          /\ \A q \in Processes : q # p => proc'[q] = proc[q]
          /\ proc[p].pc = "asking" /\ proc'[p].pc \in {"asking", "closing"}
          /\ proc'[p].lostRace = proc[p].lostRace
          /\ turn' \in [Turns -> TurnFields]
          /\ \A u \in Turns : u # t => turn'[u] = turn[u]
          /\ turn[t].by = p /\ turn'[t].by = p
          /\ turn'[t].watched => turn[t].watched
          /\ \/ /\ turn[t].pc = "running" /\ turn'[t].pc = "running"
                /\ turn'[t].shown = turn[t].shown
             \/ /\ turn'[t].pc = "settled" /\ turn'[t].printed = turn[t].printed
                /\ turn'[t].shown \in {turn[t].shown, turn'[t].verdict}
                /\ \/ turn[t].pc \in {"running", "committing"} /\ turn'[t].verdict = "error"
                   \/ turn[t].pc = "committed" /\ turn'[t].verdict = "done"
  <1>. DEFINE Ends(code, verdict) == Return(p, code) /\ Settle(t, verdict)
  <1>1. ASSUME NEW code \in {0, 1}, NEW verdict \in {"done", "error"}, Ends(code, verdict)
        PROVE  /\ proc' \in [Processes -> ProcFields]
               /\ \A q \in Processes : q # p => proc'[q] = proc[q]
               /\ proc'[p].pc = "closing" /\ proc'[p].lostRace = proc[p].lostRace
               /\ turn' \in [Turns -> TurnFields]
               /\ \A u \in Turns : u # t => turn'[u] = turn[u]
               /\ turn'[t].by = turn[t].by /\ ~turn'[t].watched
               /\ turn'[t].pc = "settled" /\ turn'[t].printed = turn[t].printed
               /\ turn'[t].verdict = verdict
               /\ turn'[t].shown \in {turn[t].shown, verdict}
    <2>1. /\ proc' \in [Processes -> ProcFields]
          /\ \A q \in Processes : q # p => proc'[q] = proc[q]
          /\ proc'[p].pc = "closing" /\ proc'[p].lostRace = proc[p].lostRace
      BY <1>1 DEF TypeOK, ProcFields, Return
    <2>. QED BY <1>1, <2>1, SettleKeeps DEF TypeOK
  <1>2. CASE PrintPart(p, t) BY <1>2, ReplyAssumption DEF TypeOK, TurnFields, PrintPart, Asking
  <1>3. CASE PrintFails(p, t)
    <2>1. Ends(1, "error") BY <1>3 DEF PrintFails
    <2>. QED BY <1>1, <1>3, <2>1 DEF PrintFails, Asking
  <1>4. CASE PrintCut(p, t)
    <2>1. Ends(0, "error") BY <1>4 DEF PrintCut
    <2>. QED BY <1>1, <1>4, <2>1 DEF PrintCut, Asking
  <1>5. CASE PrintEnds(p, t)
    <2>1. PICK code \in {0, 1} : Ends(code, "done") BY <1>5 DEF PrintEnds
    <2>. QED BY <1>1, <1>5, <2>1 DEF PrintEnds, Asking
  <1>. QED BY <1>2, <1>3, <1>4, <1>5 DEF CommandStep

----------------------------------------------------------------------------
(* The types *)

(***************************************************************************)
(* No step leaves the types.                                               *)
(***************************************************************************)
LEMMA TypeKept ==
    ASSUME TypeOK, [Next]_vars
    PROVE  TypeOK'
  <1>1. CASE UNCHANGED vars BY <1>1 DEF TypeOK, vars
  <1>2. ASSUME NEW p \in Processes, ProcessStep(p) PROVE TypeOK'
    BY <1>2, ProcessStepKeeps DEF TypeOK
  <1>3. ASSUME NEW p \in Processes, EndStep(p) PROVE TypeOK'
    BY <1>3, EndStepKeeps DEF TypeOK
  <1>4. ASSUME NEW t \in Turns, TurnStep(t) PROVE TypeOK'
    BY <1>4, TurnStepKeeps DEF TypeOK
  <1>5. ASSUME NEW p \in Processes, NEW t \in Turns, CreateTurn(p, t) \/ Ask(p, t) PROVE TypeOK'
    BY <1>5, BeginStepKeeps DEF TypeOK
  <1>6. ASSUME NEW p \in Processes, NEW t \in Turns, CommandStep(p, t) PROVE TypeOK'
    BY <1>6, CommandStepKeeps DEF TypeOK
  <1>. QED BY <1>1, <1>2, <1>3, <1>4, <1>5, <1>6, StepKinds

----------------------------------------------------------------------------
(* The file and the processes *)

(***************************************************************************)
(* A statement of Migrate moves the file towards NewSchema only, and takes *)
(* its process no further than the file is.                                *)
(***************************************************************************)
LEMMA MigrationAdvances ==
    ASSUME TypeOK, SchemaInv, NEW p \in Processes, ProcessStep(p)
    PROVE /\ schema.tables => schema'.tables
          /\ schema.column => schema'.column
          /\ schema.version = 2 => schema'.version = 2
          /\ schema'.version = 2 => schema'.column
          /\ schema'.column => schema'.tables
          /\ proc'[p].pc \in HasTables => schema'.tables
          /\ proc'[p].pc \in HasColumn => schema'.column
          /\ proc'[p].pc \in HasVersion => schema'.version = 2
          /\ proc'[p].lostRace => schema'.column
  <1>. USE DEF TypeOK, SchemaInv, ProcFields, Goto, Return, Up, HasTables, HasColumn, HasVersion
  <1>1. CASE Open(p) BY <1>1 DEF Open
  <1>2. CASE SetVersionOne(p) BY <1>2 DEF SetVersionOne
  <1>3. CASE CreateTables(p) BY <1>3 DEF CreateTables
  <1>4. CASE CheckColumn(p) BY <1>4 DEF CheckColumn
  <1>5. CASE AddColumn(p) BY <1>5 DEF AddColumn
  <1>6. CASE SetVersionTwo(p) BY <1>6 DEF SetVersionTwo
  <1>7. CASE MigrateFails(p) BY <1>7 DEF MigrateFails
  <1>8. CASE Listen(p) BY <1>8 DEF Listen
  <1>9. CASE ServeFails(p) BY <1>9 DEF ServeFails
  <1>10. CASE Signal(p) BY <1>10 DEF Signal
  <1>11. CASE ShutdownEnds(p) BY <1>11 DEF ShutdownEnds
  <1>12. CASE ShutdownTimesOut(p) BY <1>12 DEF ShutdownTimesOut
  <1>13. CASE AskFails(p) BY <1>13 DEF AskFails
  <1>. QED BY <1>1, <1>2, <1>3, <1>4, <1>5, <1>6, <1>7, <1>8, <1>9, <1>10, <1>11, <1>12, <1>13
           DEF ProcessStep, Migrate

(***************************************************************************)
(* A turn begins on a process that serves, or on one that begins to ask.   *)
(***************************************************************************)
LEMMA BeginsWhenUp ==
    ASSUME TypeOK, NEW p \in Processes, NEW t \in Turns, CreateTurn(p, t) \/ Ask(p, t)
    PROVE \/ p \in Commands /\ proc[p].pc = "ready" /\ proc'[p].pc = "asking"
          \/ proc[p].pc = "serving" /\ proc'[p] = proc[p]
  BY DEF TypeOK, ProcFields, Up, CreateTurn, Ask, Goto

(***************************************************************************)
(* The part of the invariant about the file.                               *)
(***************************************************************************)
LEMMA SchemaKept ==
    ASSUME TypeOK, SchemaInv, [Next]_vars
    PROVE  SchemaInv'
  <1>1. CASE UNCHANGED vars BY <1>1 DEF SchemaInv, vars
  <1>2. ASSUME NEW p \in Processes, ProcessStep(p) PROVE SchemaInv'
    BY <1>2, ProcessStepKeeps, MigrationAdvances DEF SchemaInv
  <1>3. ASSUME NEW p \in Processes, EndStep(p) PROVE SchemaInv'
    BY <1>3, EndStepKeeps DEF SchemaInv, HasTables, HasColumn, HasVersion, Up
  <1>4. ASSUME NEW t \in Turns, TurnStep(t) PROVE SchemaInv'
    BY <1>4, TurnStepKeeps DEF SchemaInv
  <1>5. ASSUME NEW p \in Processes, NEW t \in Turns, CreateTurn(p, t) \/ Ask(p, t) PROVE SchemaInv'
    BY <1>5, BeginStepKeeps, BeginsWhenUp DEF SchemaInv, HasTables, HasColumn, HasVersion, Up
  <1>6. ASSUME NEW p \in Processes, NEW t \in Turns, CommandStep(p, t) PROVE SchemaInv'
    BY <1>6, CommandStepKeeps DEF SchemaInv, HasTables, HasColumn, HasVersion, Up
  <1>. QED BY <1>1, <1>2, <1>3, <1>4, <1>5, <1>6, StepKinds

----------------------------------------------------------------------------
(* The turns and their rows *)

(***************************************************************************)
(* A step of a turn leaves it told the truth.                              *)
(***************************************************************************)
LEMMA TurnStepIsTrue ==
    ASSUME TypeOK, NEW t \in Turns, TurnIsTrue(t), TurnStep(t)
    PROVE  TurnIsTrue(t)'
  <1>0. turn[t] \in TurnFields BY DEF TypeOK
  <1>1. CASE Watch(t)
    <2>1. CASE turn[t].pc = "settled"
      BY <1>0, <1>1, <2>1 DEF Watch, TypeOK, TurnFields, TurnIsTrue
    <2>2. CASE turn[t].pc # "settled"
      <3>1. UNCHANGED recorded /\ turn' = [turn EXCEPT ![t] = [turn[t] EXCEPT !.watched = TRUE]]
        BY <1>1, <2>2 DEF Watch
      <3>2. PICK r : r = [turn[t] EXCEPT !.watched = TRUE] OBVIOUS
      <3>3. /\ r.by = turn[t].by /\ r.pc = turn[t].pc /\ r.verdict = turn[t].verdict
            /\ r.shown = turn[t].shown /\ r.printed = turn[t].printed
        BY <1>0, <3>2 DEF TurnFields
      <3>4. turn'[t] = r BY <3>1, <3>2 DEF TypeOK
      <3>. QED BY <3>1, <3>3, <3>4 DEF TurnIsTrue
    <2>. QED BY <2>1, <2>2
  <1>2. CASE Unwatch(t) BY <1>0, <1>2 DEF Unwatch, TypeOK, TurnFields, TurnIsTrue
  <1>3. CASE BeginCommit(t) BY <1>0, <1>3 DEF BeginCommit, TypeOK, TurnFields, TurnIsTrue
  <1>4. CASE Commit(t) BY <1>0, <1>4 DEF Commit, TypeOK, TurnFields, TurnIsTrue
  <1>5. CASE PublishDone(t) BY <1>5, SettleKeeps DEF PublishDone, TypeOK, TurnIsTrue
  <1>6. CASE TurnFails(t) BY <1>6, SettleKeeps DEF TurnFails, TypeOK, TurnIsTrue
  <1>. QED BY <1>1, <1>2, <1>3, <1>4, <1>5, <1>6 DEF TurnStep

(***************************************************************************)
(* The part of the invariant about the turns.                              *)
(***************************************************************************)
LEMMA TurnsKept ==
    ASSUME TypeOK, TurnInv, [Next]_vars
    PROVE  TurnInv'
  <1>1. CASE UNCHANGED vars BY <1>1 DEF TurnInv, TurnIsTrue, vars
  <1>2. ASSUME NEW p \in Processes, ProcessStep(p) PROVE TurnInv'
    BY <1>2, ProcessStepKeeps DEF TurnInv, TurnIsTrue
  <1>3. ASSUME NEW p \in Processes, EndStep(p) PROVE TurnInv'
    <2>. SUFFICES ASSUME NEW t \in Turns PROVE TurnIsTrue(t)' BY DEF TurnInv, TurnIsTrue
    <2>1. TurnIsTrue(t) BY DEF TurnInv, TurnIsTrue
    <2>2. UNCHANGED recorded BY <1>3, EndStepKeeps
    <2>3. CASE t \in Unsettled(p)
      <3>1. turn'[t] = [turn[t] EXCEPT !.pc = "lost"] BY <1>3, <2>3, EndStepKeeps
      <3>2. turn[t].pc # "settled" BY <2>3 DEF Unsettled
      <3>. QED BY <2>1, <2>2, <3>1, <3>2 DEF TypeOK, TurnFields, TurnIsTrue
    <2>4. CASE t \notin Unsettled(p)
      <3>1. turn'[t] = turn[t] BY <1>3, <2>4, EndStepKeeps
      <3>. QED BY <2>1, <2>2, <3>1 DEF TurnIsTrue
    <2>. QED BY <2>3, <2>4
  <1>4. ASSUME NEW t \in Turns, TurnStep(t) PROVE TurnInv'
    <2>1. TurnIsTrue(t)' BY <1>4, TurnStepIsTrue DEF TurnInv, TurnIsTrue
    <2>. QED BY <1>4, <2>1, TurnStepKeeps DEF TurnInv, TurnIsTrue
  <1>5. ASSUME NEW p \in Processes, NEW t \in Turns, CreateTurn(p, t) \/ Ask(p, t) PROVE TurnInv'
    <2>1. /\ UNCHANGED recorded
          /\ \A u \in Turns : u # t => turn'[u] = turn[u]
          /\ turn[t].pc = "none"
      BY <1>5, BeginStepKeeps
    <2>2. turn'[t].pc = "running" /\ turn'[t].shown = turn[t].shown
      <3>1. turn'[t] = [turn[t] EXCEPT !.by = p, !.pc = "running"] BY <1>5, BeginStepKeeps
      <3>. QED BY <3>1 DEF TypeOK, TurnFields
    <2>3. TurnIsTrue(t)'
      <3>1. TurnIsTrue(t) BY DEF TurnInv, TurnIsTrue
      <3>2. t \notin recorded' BY <2>1, <3>1 DEF TurnIsTrue
      <3>3. turn'[t].shown = "none" BY <2>1, <2>2, <3>1 DEF TurnIsTrue
      <3>. QED BY <2>2, <3>2, <3>3 DEF TurnIsTrue
    <2>. QED BY <2>1, <2>3 DEF TurnInv, TurnIsTrue
  <1>6. ASSUME NEW p \in Processes, NEW t \in Turns, CommandStep(p, t) PROVE TurnInv'
    BY <1>6, CommandStepKeeps DEF TurnInv, TurnIsTrue
  <1>. QED BY <1>1, <1>2, <1>3, <1>4, <1>5, <1>6, StepKinds

----------------------------------------------------------------------------
(* The end of a server *)

(***************************************************************************)
(* A process leaves the steps of ProcessStep with code 1, or as a server   *)
(* whose readers are gone.                                                 *)
(***************************************************************************)
LEMMA ReturnsWithCode ==
    ASSUME TypeOK, NEW p \in Processes, ProcessStep(p)
    PROVE /\ proc'[p].pc # "asking" \/ proc[p].pc = "asking"
          /\ proc'[p].pc # "exited"
          /\ proc'[p].pc = "closing" /\ proc'[p].code = 0 =>
                \A t \in Turns : turn[t].by = p => ~turn[t].watched
  <1>. USE DEF TypeOK, ProcFields, Goto, Return, Migrating, Up
  <1>1. CASE Open(p) BY <1>1 DEF Open
  <1>2. CASE SetVersionOne(p) BY <1>2 DEF SetVersionOne
  <1>3. CASE CreateTables(p) BY <1>3 DEF CreateTables
  <1>4. CASE CheckColumn(p) BY <1>4 DEF CheckColumn
  <1>5. CASE AddColumn(p) BY <1>5 DEF AddColumn
  <1>6. CASE SetVersionTwo(p) BY <1>6 DEF SetVersionTwo
  <1>7. CASE MigrateFails(p) BY <1>7 DEF MigrateFails
  <1>8. CASE Listen(p)
    <2>1. CASE Goto(p, "serving") BY <2>1
    <2>2. CASE Return(p, 1) BY <2>2
    <2>. QED BY <1>8, <2>1, <2>2 DEF Listen
  <1>9. CASE ServeFails(p) BY <1>9 DEF ServeFails
  <1>10. CASE Signal(p) BY <1>10 DEF Signal
  <1>11. CASE ShutdownEnds(p) BY <1>11 DEF ShutdownEnds, TurnsOf
  <1>12. CASE ShutdownTimesOut(p) BY <1>12 DEF ShutdownTimesOut
  <1>13. CASE AskFails(p) BY <1>13 DEF AskFails
  <1>. QED BY <1>1, <1>2, <1>3, <1>4, <1>5, <1>6, <1>7, <1>8, <1>9, <1>10, <1>11, <1>12, <1>13
           DEF ProcessStep, Migrate

(***************************************************************************)
(* The part of the invariant about servers that end.                       *)
(***************************************************************************)
LEMMA ExitKept ==
    ASSUME TypeOK, ExitInv, [Next]_vars
    PROVE  ExitInv'
  <1>1. CASE UNCHANGED vars BY <1>1 DEF ExitInv, vars
  <1>2. ASSUME NEW p \in Processes, ProcessStep(p) PROVE ExitInv'
    <2>. SUFFICES ASSUME NEW q \in Servers
                  PROVE  /\ proc'[q].pc # "asking"
                         /\ proc'[q].pc \in {"closing", "exited"} /\ proc'[q].code = 0 =>
                               \A t \in Turns : turn'[t].by = q => ~turn'[t].watched
      BY DEF ExitInv
    <2>1. UNCHANGED turn BY <1>2, ProcessStepKeeps
    <2>2. CASE q = p BY <1>2, <2>1, <2>2, ReturnsWithCode DEF ExitInv
    <2>3. CASE q # p
      <3>1. proc'[q] = proc[q] BY <1>2, <2>3, ProcessStepKeeps DEF Processes
      <3>. QED BY <2>1, <3>1 DEF ExitInv
    <2>. QED BY <2>2, <2>3
  <1>3. ASSUME NEW p \in Processes, EndStep(p) PROVE ExitInv'
    <2>1. \A t \in Turns : turn'[t].by = turn[t].by /\ turn'[t].watched = turn[t].watched
      <3>. SUFFICES ASSUME NEW t \in Turns
                    PROVE  turn'[t].by = turn[t].by /\ turn'[t].watched = turn[t].watched
        OBVIOUS
      <3>1. turn'[t] = turn[t] \/ turn'[t] = [turn[t] EXCEPT !.pc = "lost"]
        BY <1>3, EndStepKeeps
      <3>. QED BY <3>1 DEF TypeOK, TurnFields
    <2>. QED BY <1>3, <2>1, EndStepKeeps DEF ExitInv, Processes
  <1>4. ASSUME NEW t \in Turns, TurnStep(t) PROVE ExitInv'
    <2>1. Watch(t) => proc[turn[t].by].pc = "serving" BY DEF Watch
    <2>. QED BY <1>4, <2>1, TurnStepKeeps DEF ExitInv
  <1>5. ASSUME NEW p \in Processes, NEW t \in Turns, CreateTurn(p, t) \/ Ask(p, t) PROVE ExitInv'
    <2>1. /\ \A q \in Processes : q # p => proc'[q] = proc[q]
          /\ \A u \in Turns : u # t => turn'[u] = turn[u]
      BY <1>5, BeginStepKeeps
    <2>2. turn'[t].by = p
      <3>1. turn'[t] = [turn[t] EXCEPT !.by = p, !.pc = "running"] BY <1>5, BeginStepKeeps
      <3>. QED BY <3>1 DEF TypeOK, TurnFields
    <2>3. \/ p \notin Servers
          \/ proc[p].pc = "serving" /\ proc'[p] = proc[p]
      BY <1>5, BeginsWhenUp, ProcessesAssumption
    <2>4. SUFFICES ASSUME NEW q \in Servers
                   PROVE  /\ proc'[q].pc # "asking"
                          /\ proc'[q].pc \in {"closing", "exited"} /\ proc'[q].code = 0 =>
                                \A u \in Turns : turn'[u].by = q => ~turn'[u].watched
      BY DEF ExitInv
    <2>5. CASE q # p
      <3>1. proc'[q] = proc[q] BY <2>1, <2>5 DEF Processes
      <3>2. \A u \in Turns : turn'[u].by = q => turn'[u] = turn[u] BY <2>1, <2>2, <2>5
      <3>. QED BY <3>1, <3>2 DEF ExitInv
    <2>6. CASE q = p
      <3>1. proc'[q].pc = "serving" BY <2>3, <2>6
      <3>. QED BY <3>1
    <2>. QED BY <2>5, <2>6
  <1>6. ASSUME NEW p \in Processes, NEW t \in Turns, CommandStep(p, t) PROVE ExitInv'
    <2>1. /\ \A q \in Processes : q # p => proc'[q] = proc[q]
          /\ proc[p].pc = "asking"
          /\ \A u \in Turns : u # t => turn'[u] = turn[u]
          /\ turn[t].by = p /\ turn'[t].by = p
      BY <1>6, CommandStepKeeps
    <2>2. p \notin Servers BY <2>1 DEF ExitInv
    <2>. QED BY <2>1, <2>2 DEF ExitInv, Processes
  <1>. QED BY <1>1, <1>2, <1>3, <1>4, <1>5, <1>6, StepKinds

----------------------------------------------------------------------------
(* The theorems *)

(***************************************************************************)
(* The invariant holds before any process is started.                      *)
(***************************************************************************)
LEMMA InvInitially == Init => LifecycleInv
  <1>. SUFFICES ASSUME Init PROVE LifecycleInv OBVIOUS
  <1>1. TypeOK
    <2>1. schema \in [tables : BOOLEAN, column : BOOLEAN, version : 0..2]
      <3>1. schema \in {EmptySchema, OldSchema, NewSchema} BY SchemasAssumption DEF Init
      <3>2. CASE schema = EmptySchema BY <3>2 DEF EmptySchema, Schema
      <3>3. CASE schema = OldSchema BY <3>3 DEF OldSchema, Schema
      <3>4. CASE schema = NewSchema BY <3>4 DEF NewSchema, Schema
      <3>. QED BY <3>1, <3>2, <3>3, <3>4
    <2>2. recorded \subseteq Turns BY DEF Init
    <2>3. proc \in [Processes -> ProcFields] BY DEF Init, ProcFields
    <2>4. turn \in [Turns -> TurnFields] BY ReplyAssumption DEF Init, TurnFields
    <2>. QED BY <2>1, <2>2, <2>3, <2>4 DEF TypeOK
  <1>2. SchemaInv
    BY SchemasAssumption DEF Init, SchemaInv, EmptySchema, OldSchema, NewSchema, Schema,
                             HasTables, HasColumn, HasVersion, Up
  <1>3. TurnInv BY DEF Init, TurnInv, TurnIsTrue
  <1>4. ExitInv BY DEF Init, ExitInv, Processes
  <1>. QED BY <1>1, <1>2, <1>3, <1>4 DEF LifecycleInv

(***************************************************************************)
(* LifecycleInv is an invariant.                                           *)
(***************************************************************************)
THEOREM LifecycleInvariant == Spec => []LifecycleInv
  <1>1. LifecycleInv /\ [Next]_vars => LifecycleInv'
    BY TypeKept, SchemaKept, TurnsKept, ExitKept DEF LifecycleInv
  <1>. QED BY <1>1, InvInitially, PTL DEF Spec

(***************************************************************************)
(* The variables always have their types.                                  *)
(***************************************************************************)
THEOREM TypeCorrect == Spec => []TypeOK
  <1>1. LifecycleInv => TypeOK BY DEF LifecycleInv
  <1>. QED BY <1>1, LifecycleInvariant, PTL

(***************************************************************************)
(* However many processes migrate the file, beside or after each other and *)
(* interrupted anywhere, its version tells what it is, and none of them    *)
(* serves or asks on another schema than its own.                          *)
(***************************************************************************)
THEOREM VersionAlwaysTellsSchema == Spec => []VersionTellsSchema
  <1>1. ASSUME LifecycleInv PROVE VersionTellsSchema
    <2>1. schema.version = 2 => schema = NewSchema
      BY <1>1 DEF LifecycleInv, TypeOK, SchemaInv, NewSchema, Schema
    <2>2. ASSUME NEW p \in Processes
          PROVE  /\ proc[p].lostRace => schema.tables /\ schema.column
                 /\ proc[p].pc \in Up \cup {"asking"} => schema.version = 2
      BY <1>1 DEF LifecycleInv, SchemaInv, HasVersion
    <2>. QED BY <2>1, <2>2 DEF VersionTellsSchema
  <1>. QED BY <1>1, LifecycleInvariant, PTL

(***************************************************************************)
(* What was shown of a turn is true of the file for ever, through crashes, *)
(* shutdowns that do not wait and restarts.                                *)
(***************************************************************************)
THEOREM VerdictIsAlwaysTrue == Spec => []VerdictIsTrue
  <1>1. ASSUME LifecycleInv PROVE VerdictIsTrue
    BY <1>1 DEF LifecycleInv, TypeOK, TurnInv, TurnIsTrue, VerdictIsTrue
  <1>. QED BY <1>1, LifecycleInvariant, PTL

(***************************************************************************)
(* No server that exits with code 0 cut a reader off, however many read.   *)
(***************************************************************************)
THEOREM CleanExitAlwaysAnswersReaders == Spec => []CleanExitAnswersReaders
  <1>1. ASSUME LifecycleInv PROVE CleanExitAnswersReaders
    BY <1>1 DEF LifecycleInv, ExitInv, CleanExitAnswersReaders, TurnsOf
  <1>. QED BY <1>1, LifecycleInvariant, PTL

=============================================================================
