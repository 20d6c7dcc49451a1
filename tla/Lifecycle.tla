------------------------------ MODULE Lifecycle ------------------------------
(***************************************************************************)
(* The processes over one database file (internal/cli/root.go): servers,   *)
(* started, stopped, crashed and followed by others, and the ask command.  *)
(* Each opens the store and runs the statements of Migrate                 *)
(* (internal/storage/sqlite.go), which commit one by one; then a server's  *)
(* turns run on goroutines that its shutdown does not wait for, while      *)
(* browsers read their events.                                             *)
(*                                                                         *)
(* A process lives once: a restart is another process on the same file.    *)
(***************************************************************************)
EXTENDS Naturals, FiniteSets

CONSTANTS
    Servers, Commands,
    Turns,
    Schemas,    \* what the database file may be at first
    Reply       \* the pieces of a reply that are printed

ASSUME ProcessesAssumption == Servers \cap Commands = {}
ASSUME ReplyAssumption == Reply \in Nat \ {0}

VARIABLES
    schema,     \* of the file: its tables, messages.completed_at, the version
    recorded,   \* of the file: the turns with rows
    proc,       \* the processes
    turn        \* the turns

vars == <<schema, recorded, proc, turn>>

Processes == Servers \cup Commands
NoProcess == "none"

Schema(tables, column, version) == [tables |-> tables, column |-> column, version |-> version]
EmptySchema == Schema(FALSE, FALSE, 0)
OldSchema == Schema(TRUE, FALSE, 1)
NewSchema == Schema(TRUE, TRUE, 2)

ASSUME SchemasAssumption == Schemas \subseteq {EmptySchema, OldSchema, NewSchema}

Migrating == {"opened", "versioned", "created", "altering", "marking"}
Up == {"ready", "serving", "shutting"}
StoreOpen == {"serving", "shutting", "asking"}

ProcFields == [pc : {"off", "asking", "closing", "exited"} \cup Migrating \cup Up,
               code : {0, 1}, lostRace : BOOLEAN]

\* shown: the terminal event a browser has seen.
TurnFields == [by : Processes \cup {NoProcess},
               pc : {"none", "running", "committing", "committed", "settled", "lost"},
               verdict : {"none", "done", "error"}, watched : BOOLEAN,
               shown : {"none", "done", "error"}, printed : 0..Reply]

Init ==
    /\ schema \in Schemas
    /\ recorded = {}
    /\ proc = [p \in Processes |-> [pc |-> "off", code |-> 0, lostRace |-> FALSE]]
    /\ turn = [t \in Turns |-> [by |-> NoProcess, pc |-> "none", verdict |-> "none",
                                watched |-> FALSE, shown |-> "none", printed |-> 0]]

Goto(p, pc) == proc' = [proc EXCEPT ![p].pc = pc]

\* The command returns: the deferred calls run, the store closes.
Return(p, code) == proc' = [proc EXCEPT ![p] = [@ EXCEPT !.pc = "closing", !.code = code]]

TurnsOf(p) == {t \in Turns : turn[t].by = p}
Unsettled(p) == {t \in TurnsOf(p) : turn[t].pc # "settled"}

----------------------------------------------------------------------------
(* Migrate: each statement is a transaction of its own *)

Open(p) ==
    /\ proc[p].pc = "off"
    /\ Goto(p, "opened")
    /\ UNCHANGED <<schema, recorded, turn>>

SetVersionOne(p) ==
    /\ proc[p].pc = "opened"
    /\ schema' = IF schema.version < 1 THEN [schema EXCEPT !.version = 1] ELSE schema
    /\ Goto(p, "versioned")
    /\ UNCHANGED <<recorded, turn>>

\* CREATE TABLE IF NOT EXISTS messages, with the column or as it was.
CreateTables(p) ==
    /\ proc[p].pc = "versioned"
    /\ schema' = IF schema.tables THEN schema
                 ELSE [schema EXCEPT !.tables = TRUE, !.column = TRUE]
    /\ Goto(p, "created")
    /\ UNCHANGED <<recorded, turn>>

\* Mutant of CheckColumn: tables that exist are taken to be up to date.
CheckTables(p) ==
    /\ proc[p].pc = "created"
    /\ Goto(p, IF schema.tables THEN "marking" ELSE "altering")
    /\ UNCHANGED <<schema, recorded, turn>>

\* PRAGMA table_info(messages)
CheckColumn(p) ==
    /\ proc[p].pc = "created"
    /\ Goto(p, IF schema.column THEN "marking" ELSE "altering")
    /\ UNCHANGED <<schema, recorded, turn>>

\* ALTER TABLE fails when another process has added the column meanwhile.
AddColumn(p) ==
    /\ proc[p].pc = "altering"
    /\ \/ ~schema.column /\ schema' = [schema EXCEPT !.column = TRUE] /\ Goto(p, "marking")
       \/ /\ schema.column
          /\ proc' = [proc EXCEPT ![p] = [pc |-> "closing", code |-> 1, lostRace |-> TRUE]]
          /\ UNCHANGED schema
    /\ UNCHANGED <<recorded, turn>>

SetVersionTwo(p) ==
    /\ proc[p].pc = "marking"
    /\ schema' = IF schema.version < 2 THEN [schema EXCEPT !.version = 2] ELSE schema
    /\ Goto(p, "ready")
    /\ UNCHANGED <<recorded, turn>>

\* A statement fails, waits too long for another process, or is interrupted.
MigrateFails(p) ==
    /\ proc[p].pc \in Migrating
    /\ Return(p, 1)
    /\ UNCHANGED <<schema, recorded, turn>>

Migrate(p) ==
    \/ SetVersionOne(p) \/ CreateTables(p) \/ CheckColumn(p) \/ AddColumn(p)
    \/ SetVersionTwo(p) \/ MigrateFails(p)

----------------------------------------------------------------------------
(* newServeCommand *)

\* listenTCP
Listen(p) ==
    /\ p \in Servers /\ proc[p].pc = "ready"
    /\ Goto(p, "serving") \/ Return(p, 1)
    /\ UNCHANGED <<schema, recorded, turn>>

\* server.Serve returns an error
ServeFails(p) ==
    /\ proc[p].pc = "serving"
    /\ Return(p, 1)
    /\ UNCHANGED <<schema, recorded, turn>>

Signal(p) ==
    /\ proc[p].pc = "serving"
    /\ Goto(p, "shutting")
    /\ UNCHANGED <<schema, recorded, turn>>

\* Mutant of ShutdownEnds: the connections are closed, not drained.
ShutdownCloses(p) ==
    /\ proc[p].pc = "shutting"
    /\ Return(p, 0)
    /\ UNCHANGED <<schema, recorded, turn>>

\* Shutdown returns once no request is being handled; a reader is one.
ShutdownEnds(p) ==
    /\ proc[p].pc = "shutting"
    /\ \A t \in TurnsOf(p) : ~turn[t].watched
    /\ Return(p, 0)
    /\ UNCHANGED <<schema, recorded, turn>>

\* Mutant of ShutdownTimesOut: the context of Shutdown has no deadline.
ShutdownWaits(p) ==
    /\ proc[p].pc = "shutting"
    /\ UNCHANGED vars

\* The five seconds of shutdownCtx
ShutdownTimesOut(p) ==
    /\ proc[p].pc = "shutting"
    /\ Return(p, 1)
    /\ UNCHANGED <<schema, recorded, turn>>

\* The process ends, and with it the goroutines of its turns.
End(p, code) ==
    /\ proc' = [proc EXCEPT ![p] = [@ EXCEPT !.pc = "exited", !.code = code]]
    /\ turn' = [t \in Turns |-> IF t \in Unsettled(p) THEN [turn[t] EXCEPT !.pc = "lost"] ELSE turn[t]]
    /\ UNCHANGED <<schema, recorded>>

Exit(p) == proc[p].pc = "closing" /\ End(p, proc[p].code)
Crash(p) == proc[p].pc \notin {"off", "exited"} /\ End(p, 1)

----------------------------------------------------------------------------
(* Turns of a server, and their readers *)

CreateTurn(p, t) ==
    /\ proc[p].pc = "serving" /\ turn[t].pc = "none"
    /\ turn' = [turn EXCEPT ![t] = [@ EXCEPT !.by = p, !.pc = "running"]]
    /\ UNCHANGED <<schema, recorded, proc>>

\* handleTurnEvents: of a turn that has ended the terminal event is replayed.
Watch(t) ==
    /\ turn[t].by \in Servers /\ proc[turn[t].by].pc = "serving"
    /\ ~turn[t].watched /\ turn[t].shown = "none"
    /\ turn' = [turn EXCEPT ![t] =
                   IF turn[t].pc = "settled" THEN [@ EXCEPT !.shown = turn[t].verdict]
                   ELSE [@ EXCEPT !.watched = TRUE]]
    /\ UNCHANGED <<schema, recorded, proc>>

Unwatch(t) ==
    /\ turn[t].watched
    /\ turn' = [turn EXCEPT ![t].watched = FALSE]
    /\ UNCHANGED <<schema, recorded, proc>>

\* The terminal event, and who reads it.
Settle(t, verdict) ==
    turn' = [turn EXCEPT ![t] =
                [turn[t] EXCEPT !.pc = "settled", !.verdict = verdict, !.watched = FALSE,
                                !.shown = IF turn[t].watched THEN verdict ELSE turn[t].shown]]

Alive(t) == turn[t].by # NoProcess /\ proc[turn[t].by].pc # "exited"

\* A transaction begins while the store is open, and may outlive its Close.
BeginCommit(t) ==
    /\ turn[t].pc = "running" /\ Alive(t) /\ proc[turn[t].by].pc \in StoreOpen
    /\ turn[t].by \in Commands => turn[t].printed = Reply
    /\ turn' = [turn EXCEPT ![t].pc = "committing"]
    /\ UNCHANGED <<schema, recorded, proc>>

\* Mutant of Commit: the event goes out before the row is there.
CommitLater(t) ==
    /\ turn[t].pc = "committing" /\ Alive(t)
    /\ turn' = [turn EXCEPT ![t].pc = "committed"]
    /\ UNCHANGED <<schema, recorded, proc>>

Commit(t) ==
    /\ turn[t].pc = "committing" /\ Alive(t)
    /\ recorded' = recorded \cup {t}
    /\ turn' = [turn EXCEPT ![t].pc = "committed"]
    /\ UNCHANGED <<schema, proc>>

\* emitTerminal, of a server's turn
PublishDone(t) ==
    /\ turn[t].by \in Servers /\ turn[t].pc = "committed" /\ Alive(t)
    /\ Settle(t, "done")
    /\ UNCHANGED <<schema, recorded, proc>>

\* The provider fails, the transaction fails, or the store is closed.
TurnFails(t) ==
    /\ turn[t].by \in Servers /\ turn[t].pc \in {"running", "committing"} /\ Alive(t)
    /\ Settle(t, "error")
    /\ UNCHANGED <<schema, recorded, proc>>

----------------------------------------------------------------------------
(* newAskCommand *)

\* Authenticate, DefaultConversationForUser, NewPersistedSession, Send
Ask(p, t) ==
    /\ p \in Commands /\ proc[p].pc = "ready" /\ turn[t].pc = "none"
    /\ Goto(p, "asking")
    /\ turn' = [turn EXCEPT ![t] = [@ EXCEPT !.by = p, !.pc = "running"]]
    /\ UNCHANGED <<schema, recorded>>

AskFails(p) ==
    /\ p \in Commands /\ proc[p].pc = "ready"
    /\ Return(p, 1)
    /\ UNCHANGED <<schema, recorded, turn>>

Asking(p, t) == proc[p].pc = "asking" /\ turn[t].by = p

\* printStream
PrintPart(p, t) ==
    /\ Asking(p, t) /\ turn[t].pc = "running" /\ turn[t].printed < Reply
    /\ turn' = [turn EXCEPT ![t].printed = @ + 1]
    /\ UNCHANGED <<schema, recorded, proc>>

\* A write fails, or the stream: it is closed and the turn given up.
PrintFails(p, t) ==
    /\ Asking(p, t) /\ turn[t].pc \in {"running", "committing"}
    /\ Return(p, 1)
    /\ Settle(t, "error")
    /\ UNCHANGED <<schema, recorded>>

\* io.EOF before the reply is completed ends printStream without an error.
PrintCut(p, t) ==
    /\ Asking(p, t) /\ turn[t].pc = "running"
    /\ Return(p, 0)
    /\ Settle(t, "error")
    /\ UNCHANGED <<schema, recorded>>

\* io.EOF behind the completed reply; the last newline may fail.
PrintEnds(p, t) ==
    /\ Asking(p, t) /\ turn[t].pc = "committed"
    /\ \E code \in {0, 1} : Return(p, code)
    /\ Settle(t, "done")
    /\ UNCHANGED <<schema, recorded>>

----------------------------------------------------------------------------

StopStep(p) == ShutdownEnds(p) \/ ShutdownTimesOut(p) \/ Exit(p)

Next ==
    \/ \E p \in Processes :
          \/ Open(p) \/ Migrate(p) \/ Listen(p) \/ ServeFails(p) \/ Signal(p)
          \/ ShutdownEnds(p) \/ ShutdownTimesOut(p) \/ Exit(p) \/ Crash(p) \/ AskFails(p)
    \/ \E t \in Turns :
          \/ Watch(t) \/ Unwatch(t) \/ BeginCommit(t) \/ Commit(t) \/ PublishDone(t)
          \/ TurnFails(t)
    \/ \E p \in Processes, t \in Turns :
          \/ CreateTurn(p, t) \/ Ask(p, t) \/ PrintPart(p, t) \/ PrintFails(p, t)
          \/ PrintCut(p, t) \/ PrintEnds(p, t)

Spec == Init /\ [][Next]_vars

\* The main goroutine and the timer of Shutdown; of turns and readers nothing
\* is assumed.
FairSpec == Spec /\ \A p \in Processes : WF_vars(StopStep(p))

----------------------------------------------------------------------------
(* Properties *)

(***************************************************************************)
(* The types of the variables.                                             *)
(***************************************************************************)
TypeOK ==
    /\ schema \in [tables : BOOLEAN, column : BOOLEAN, version : 0..2]
    /\ recorded \subseteq Turns
    /\ proc \in [Processes -> ProcFields]
    /\ turn \in [Turns -> TurnFields]

(***************************************************************************)
(* The version tells what the file is, whatever migration was interrupted  *)
(* or runs beside another (Migrate): version 2 is never written over a     *)
(* file that lacks the completed_at column; a start that loses the race to *)
(* add it leaves nothing to add, and the next start goes through; and a    *)
(* process that serves or asks finds the schema it was written for.        *)
(***************************************************************************)
VersionTellsSchema ==
    /\ schema.version = 2 => schema = NewSchema
    /\ \A p \in Processes :
          /\ proc[p].lostRace => schema.tables /\ schema.column
          /\ proc[p].pc \in Up \cup {"asking"} => schema = NewSchema

(***************************************************************************)
(* What a user was shown of a turn is true of the file, at every later     *)
(* time and for every later process: done is recorded, an error is not,    *)
(* and a turn the ask command recorded is one it printed to the end        *)
(* (printStream closes the stream when it cannot write). A turn that a     *)
(* shutdown or a crash overtook is told neither.                           *)
(***************************************************************************)
VerdictIsTrue ==
    /\ \A t \in Turns : /\ turn[t].shown = "done" => t \in recorded
                        /\ turn[t].shown = "error" => t \notin recorded
    /\ \A t \in recorded : turn[t].by \in Commands => turn[t].printed = Reply

(***************************************************************************)
(* A server that exits with code 0 has not cut off a browser that was      *)
(* reading a turn (server.Shutdown).                                       *)
(***************************************************************************)
CleanExitAnswersReaders ==
    \A p \in Servers : proc[p].pc = "exited" /\ proc[p].code = 0 =>
        \A t \in TurnsOf(p) : ~turn[t].watched

(***************************************************************************)
(* A server that is told to stop exits, whatever its turns and readers do. *)
(***************************************************************************)
StopsWhenTold == \A p \in Servers : proc[p].pc = "shutting" ~> proc[p].pc = "exited"

=============================================================================
