------------------------- MODULE SharedConversation -------------------------
(***************************************************************************)
(* Several chat sessions over the default conversation of one user: the    *)
(* browserSessions of two cookies in the server's process, and the CLI     *)
(* beside it (internal/cli/root.go). Each session works on the copy of the *)
(* messages it loaded (internal/chat/service.go) and commits its turns     *)
(* through the transactions of internal/storage/sqlite.go, statement by    *)
(* statement: a process has one connection, and SQLite locks the database  *)
(* for readers and for one writer.                                         *)
(***************************************************************************)
EXTENDS Transcript, FiniteSetsExt

CONSTANTS
    Sessions,       \* the chat sessions over the conversation
    Processes,      \* the processes that hold the database open
    ProcessOf,      \* the process of a session
    ReplaceFroms    \* the values of replace_from that are sent

ASSUME ProcessAssumption == ProcessOf \in [Sessions -> Processes]
ASSUME FromsAssumption == ReplaceFroms \subseteq Nat \cup {NoIndex}

VARIABLES
    table,      \* the messages rows: by sequence number
    opened,     \* the sessions that have loaded the messages
    cache,      \* of each session: Session.messages
    since,      \* history, of each session: the turns committed since it loaded
    turn,       \* the turns
    connection, \* of each process: the turn whose transaction has it
    readers,    \* the turns whose transaction has read (SHARED)
    writer      \* the turn whose transaction has written (RESERVED), or NoTurn

sessionVars == <<opened, cache, since>>
dbVars == <<table, connection, readers, writer>>
vars == <<table, opened, cache, since, turn, connection, readers, writer>>

\* sent: the messages of the request. found: what the transaction read.
TurnFields ==
    [pc : {"idle", "asking", "begun", "read", "written", "committed", "failed"},
     session : Sessions \cup {NoTurn}, from : Nat \cup {NoIndex}, keep : Nat,
     sent : Seq(Message), found : Nat]

NewTurn == [pc |-> "idle", session |-> NoTurn, from |-> NoIndex, keep |-> 0,
            sent |-> <<>>, found |-> 0]

RowsOf(msgs) == [i \in 1..Len(msgs) |-> msgs[i]]

Init ==
    /\ table = RowsOf(History)
    /\ opened = {}
    /\ cache = [s \in Sessions |-> <<>>]
    /\ since = [s \in Sessions |-> {}]
    /\ turn = [t \in Turns |-> NewTurn]
    /\ connection = [p \in Processes |-> NoTurn]
    /\ readers = {}
    /\ writer = NoTurn

\* SQLite.Messages: in the order of their sequence numbers.
Messages(rows) ==
    LET Nth(i) == CHOOSE n \in DOMAIN rows : Cardinality({m \in DOMAIN rows : m <= n}) = i
    IN  [i \in 1..Cardinality(DOMAIN rows) |-> rows[Nth(i)]]

InFlight(s) ==
    \E t \in Turns : turn[t].session = s /\ turn[t].pc \notin {"idle", "committed", "failed"}

Process(t) == ProcessOf[turn[t].session]
Goto(t, pc) == turn' = [turn EXCEPT ![t].pc = pc]

----------------------------------------------------------------------------
(* The sessions *)

\* The sessions and turns not used yet. Their names mean nothing: it is enough
\* to take those of a process, and the turns, in one order.
Closed == Sessions \ opened
Fresh == {t \in Turns : turn[t].pc = "idle"}

\* NewPersistedSession, between two transactions of its process.
Open(s) ==
    /\ s \in Closed /\ s = CHOOSE u \in Closed : ProcessOf[u] = ProcessOf[s]
    /\ opened' = opened \cup {s}
    /\ connection[ProcessOf[s]] = NoTurn
    /\ cache' = [cache EXCEPT ![s] = Messages(table)]
    /\ UNCHANGED <<dbVars, turn, since>>

\* Session.Send: replace_from is an index of the session's own messages.
Ask(s, t) ==
    /\ s \in opened
    /\ ~InFlight(s)
    /\ t \in Fresh /\ t = CHOOSE u \in Fresh : TRUE
    /\ \E from \in ReplaceFroms :
          /\ ValidReplaceFrom(cache[s], from)
          /\ turn' = [turn EXCEPT ![t] =
                        [@ EXCEPT !.pc = "asking", !.session = s, !.from = from,
                                  !.keep = KeepFor(cache[s], from),
                                  !.sent = SubSeq(cache[s], 1, KeepFor(cache[s], from))]]
    /\ UNCHANGED <<dbVars, sessionVars>>

\* The provider fails, or the turn is given up before its commit.
GiveUp(t) ==
    /\ turn[t].pc = "asking"
    /\ Goto(t, "failed")
    /\ UNCHANGED <<dbVars, sessionVars>>

----------------------------------------------------------------------------
(* AppendTurn and ReplaceTailAndAppendTurn *)

\* BeginTx waits for the connection of the process.
Begin(t) ==
    /\ turn[t].pc = "asking"
    /\ connection[Process(t)] = NoTurn
    /\ connection' = [connection EXCEPT ![Process(t)] = t]
    /\ Goto(t, "begun")
    /\ UNCHANGED <<table, sessionVars, readers, writer>>

LastSequence(rows) == IF rows = <<>> THEN 0 ELSE Max(DOMAIN rows)

\* SELECT MAX(sequence) for an append, SELECT COUNT(*) for a replacement.
Read(t) ==
    /\ turn[t].pc = "begun"
    /\ turn' = [turn EXCEPT ![t] =
                  [@ EXCEPT !.pc = "read",
                            !.found = IF turn[t].from = NoIndex THEN LastSequence(table)
                                      ELSE Cardinality(DOMAIN table)]]
    /\ readers' = readers \cup {t}
    /\ UNCHANGED <<table, sessionVars, connection, writer>>

\* defer rollback(tx)
Rollback(t) ==
    /\ Goto(t, "failed")
    /\ connection' = [connection EXCEPT ![Process(t)] = NoTurn]
    /\ readers' = readers \ {t}
    /\ writer' = IF writer = t THEN NoTurn ELSE writer

\* Mutant of Kept: the tail is dropped for a turn that appends too.
AppendDropsTail(t) == {n \in DOMAIN table : n <= turn[t].keep}

\* Mutant of Kept: the message at the position is dropped too.
KeepsOneLess(t) == IF turn[t].from = NoIndex THEN DOMAIN table
                   ELSE {n \in DOMAIN table : n < turn[t].keep}

\* The rows the transaction leaves: those kept, and the turn's two.
Kept(t) == IF turn[t].from = NoIndex THEN DOMAIN table
           ELSE {n \in DOMAIN table : n <= turn[t].keep}

FirstNew(t) == IF turn[t].from = NoIndex THEN turn[t].found + 1 ELSE turn[t].keep + 1
NewRows(t) == {FirstNew(t), FirstNew(t) + 1}

\* Mutant of TooMany: the count is not compared.
NeverTooMany(t) == FALSE

\* A replacement keeps no more messages than there are.
TooMany(t) == turn[t].from # NoIndex /\ turn[t].keep > turn[t].found

\* DELETE and INSERT; a transaction that has read does not wait for a writer.
Write(t) ==
    /\ turn[t].pc = "read"
    /\ \/ /\ ~TooMany(t) /\ writer = NoTurn /\ NewRows(t) \cap Kept(t) = {}
          /\ writer' = t
          /\ Goto(t, "written")
          /\ UNCHANGED <<connection, readers>>
       \/ (TooMany(t) \/ writer # NoTurn \/ NewRows(t) \cap Kept(t) # {}) /\ Rollback(t)
    /\ UNCHANGED <<table, sessionVars>>

\* Mutant of Commit: the prompt is not kept in the session.
CommitDropsPrompt(t) ==
    LET s == turn[t].session
        reply == Reply(t, 1, TRUE)
    IN  /\ turn[t].pc = "written"
        /\ readers \subseteq {t}
        /\ table' = [n \in Kept(t) \cup NewRows(t) |->
                       IF n = FirstNew(t) THEN Prompt(t)
                       ELSE IF n = FirstNew(t) + 1 THEN reply ELSE table[n]]
        /\ cache' = [cache EXCEPT ![s] = SubSeq(@, 1, turn[t].keep) \o <<reply>>]
        /\ Goto(t, "committed")
        /\ connection' = [connection EXCEPT ![Process(t)] = NoTurn]
        /\ readers' = {} /\ writer' = NoTurn
        /\ since' = [u \in Sessions |-> IF u \in opened THEN since[u] \cup {t} ELSE {}]
        /\ UNCHANGED opened

\* COMMIT, once nobody else reads; then the session's own messages follow.
Commit(t) ==
    LET s == turn[t].session
        reply == Reply(t, 1, TRUE)
    IN  /\ turn[t].pc = "written"
        /\ readers \subseteq {t}
        /\ table' = [n \in Kept(t) \cup NewRows(t) |->
                       IF n = FirstNew(t) THEN Prompt(t)
                       ELSE IF n = FirstNew(t) + 1 THEN reply ELSE table[n]]
        /\ cache' = [cache EXCEPT ![s] =
                       WithTurn(@, turn[t].from # NoIndex, turn[t].keep, t, reply)]
        /\ Goto(t, "committed")
        /\ connection' = [connection EXCEPT ![Process(t)] = NoTurn]
        /\ readers' = {} /\ writer' = NoTurn
        /\ since' = [u \in Sessions |-> IF u \in opened THEN since[u] \cup {t} ELSE {}]
        /\ UNCHANGED opened

\* Mutant of CommitTimesOut: the connection is not given back.
CommitTimesOutHeld(t) ==
    /\ turn[t].pc = "written"
    /\ readers \ {t} # {}
    /\ Goto(t, "failed")
    /\ UNCHANGED <<dbVars, sessionVars>>

\* busy_timeout: a reader stays longer than five seconds.
CommitTimesOut(t) ==
    /\ turn[t].pc = "written"
    /\ readers \ {t} # {}
    /\ Rollback(t)
    /\ UNCHANGED <<table, sessionVars>>

----------------------------------------------------------------------------
StoreStep(t) == Begin(t) \/ Read(t) \/ Write(t) \/ Commit(t) \/ CommitTimesOut(t)

Next ==
    \/ \E s \in Sessions : Open(s) \/ \E t \in Turns : Ask(s, t)
    \/ \E t \in Turns : GiveUp(t) \/ StoreStep(t)

Spec == Init /\ [][Next]_vars

\* A goroutine that has a reply to commit goes on; waiting for the one
\* connection is fair (database/sql serves its requests in order).
FairSpec == Spec /\ \A t \in Turns : SF_vars(StoreStep(t))

----------------------------------------------------------------------------
(***************************************************************************)
(* Every variable holds a value of its type, and a transaction has the     *)
(* connection of its process and, once it wrote, the only write lock.      *)
(***************************************************************************)
InTransaction(t) == turn[t].pc \in {"begun", "read", "written"}

TypeOK ==
    /\ DOMAIN table \subseteq Nat \ {0}
    /\ \A n \in DOMAIN table : table[n] \in Message
    /\ opened \subseteq Sessions
    /\ cache \in [Sessions -> Seq(Message)]
    /\ since \in [Sessions -> SUBSET Turns]
    /\ turn \in [Turns -> TurnFields]
    /\ connection \in [Processes -> Turns \cup {NoTurn}]
    /\ \A t \in Turns : InTransaction(t) <=> \E p \in Processes : connection[p] = t
    /\ \A t \in Turns : t \in readers => InTransaction(t)
    /\ \A t \in Turns : turn[t].pc = "written" <=> writer = t

(***************************************************************************)
(* The sequence numbers are 1, 2, ... without a gap and the messages are   *)
(* whole turns, though sessions replace tails by positions in copies that  *)
(* others have outdated, and two transactions read the same last number.   *)
(* Types hold, and a transaction has the locks its place calls for.        *)
(***************************************************************************)
TableIsTranscript ==
    /\ TypeOK
    /\ DOMAIN table = 1..Cardinality(DOMAIN table)
    /\ IsTranscript(Messages(table))

(***************************************************************************)
(* What a session shows is what is stored but for the turns that others    *)
(* have committed since it loaded, whatever the transactions met: all of   *)
(* it, while it alone has written, replacements included; and while nobody *)
(* replaces a tail, a stale copy lacks those turns and nothing else, in    *)
(* the stored order, its own later turns among them.                       *)
(***************************************************************************)
Others(s) == {t \in since[s] : turn[t].session # s}

Shown(s) == {n \in DOMAIN table : table[n].turn \notin Others(s)}

CopyLacksOnlyOthers ==
    \A s \in opened :
        Others(s) = {} \/ (\A t \in since[s] : turn[t].from = NoIndex)
            => cache[s] = Messages([n \in Shown(s) |-> table[n]])

(***************************************************************************)
(* A row disappears only behind the position a replacement names: a turn   *)
(* that appends, from whatever copy, leaves all that others have written.  *)
(***************************************************************************)
OnlyReplacementsRemove ==
    [][\A n \in DOMAIN table :
          \/ n \in DOMAIN table' /\ table'[n] = table[n]
          \/ \E t \in Turns : /\ turn[t].pc = "written" /\ turn'[t].pc = "committed"
                              /\ turn[t].from # NoIndex /\ n > turn[t].keep]_vars

(***************************************************************************)
(* Whatever sessions and processes share it, the table is a conversation   *)
(* log: it changes by whole turns, each written at most once and never     *)
(* after it failed.                                                        *)
(***************************************************************************)
Log == INSTANCE ConversationLog WITH
    MaxParts <- 1, log <- Messages(table),
    pending <- {t \in Turns : turn[t].pc \notin {"committed", "failed"}}

SharedLog == Log!LogSpec

(***************************************************************************)
(* A turn whose reply is there is committed or fails: no two sessions wait *)
(* for each other's locks, and a transaction that fails gives connection   *)
(* and locks back.                                                         *)
(***************************************************************************)
TurnsSettle ==
    \A t \in Turns : turn[t].pc = "asking" ~> turn[t].pc \in {"committed", "failed"}
=============================================================================
