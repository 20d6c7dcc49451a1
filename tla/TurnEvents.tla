----------------------------- MODULE TurnEvents -----------------------------
(***************************************************************************)
(* internal/web/server.go: the event log of a turnJob and its subscribers. *)
(* The job's goroutine emits events and ends; a reader (an EventSource of  *)
(* the page, assets/app.js) connects, loses its connection, and connects   *)
(* again with the ID of the last event it received; the handler of each    *)
(* request replays what the reader has not seen and then follows a channel *)
(* of bounded capacity, from which a slow reader is dropped.               *)
(*                                                                         *)
(* An event's ID is its position in the log (nextEventID grows with it),   *)
(* so a replay, a channel and a connection hold IDs.                       *)
(***************************************************************************)
EXTENDS Naturals, Sequences, FiniteSets

CONSTANTS
    Readers,        \* the EventSource objects that follow the turn
    Slots,          \* requests of one reader the server handles at a time
    NoSlot,         \* the reader has no connection
    Capacity,       \* events a subscriber's channel holds (128)
    MaxEvents,      \* bound: events of the turn
    MaxBreaks       \* bound: connections that break before the handler ends

ASSUME CapacityAssumption == Capacity \in Nat \ {0}
ASSUME BoundsAssumption == MaxEvents \in Nat /\ MaxBreaks \in Nat
ASSUME SlotAssumption == NoSlot \notin Slots

VARIABLES
    events,         \* turnJob.events: their names
    terminal,       \* turnJob.terminal
    doneClosed,     \* turnJob.doneClosed
    subscribers,    \* turnJob.subscribers: the requests whose channel it holds
    conn,           \* the requests: handler, channel and connection
    reader,         \* the readers: what they received, and their connection
    breaks          \* connections broken so far

jobVars == <<events, terminal, doneClosed>>
vars == <<events, terminal, doneClosed, subscribers, conn, reader, breaks>>

Conns == Readers \X Slots
Names == {"part", "end"}

\* The handler of a request; its replay, channel and connection.
ConnFields ==
    [pc : {"idle", "accepted", "serving", "leaving", "ended"},
     lastSeen : Nat, replay : Seq(Nat \ {0}),
     chan : {"nil", "open", "closed"}, buf : Seq(Nat \ {0}), closes : Nat,
     up : BOOLEAN, wire : Seq(Nat \ {0})]

NewConn ==
    [pc |-> "idle", lastSeen |-> 0, replay |-> <<>>, chan |-> "nil",
     buf |-> <<>>, closes |-> 0, up |-> FALSE, wire |-> <<>>]

Init ==
    /\ events = <<>>
    /\ terminal = FALSE
    /\ doneClosed = FALSE
    /\ subscribers = {}
    /\ conn = [c \in Conns |-> NewConn]
    /\ reader = [r \in Readers |-> [received |-> <<>>, lastID |-> 0, slot |-> NoSlot]]
    /\ breaks = 0

Ended(r) == \E i \in 1..Len(reader[r].received) : reader[r].received[i] = "end"

Closed(c) == [conn[c] EXCEPT !.chan = "closed", !.closes = @ + 1]
Sent(c, id) == [conn[c] EXCEPT !.buf = Append(@, id)]
Full(c) == Len(conn[c].buf) >= Capacity

----------------------------------------------------------------------------
(* The goroutine of the job *)

\* emit: a subscriber whose channel is full is closed and forgotten.
Emit ==
    /\ ~terminal
    /\ Len(events) < MaxEvents
    /\ events' = Append(events, "part")
    /\ conn' = [c \in Conns |-> IF c \notin subscribers THEN conn[c]
                                ELSE IF Full(c) THEN Closed(c)
                                ELSE Sent(c, Len(events'))]
    /\ subscribers' = {c \in subscribers : ~Full(c)}
    /\ UNCHANGED <<terminal, doneClosed, reader, breaks>>

\* emitTerminal: a full channel misses the event; every channel is closed.
EmitTerminal ==
    /\ ~terminal
    /\ Len(events) < MaxEvents
    /\ events' = Append(events, "end")
    /\ terminal' = TRUE
    /\ conn' = [c \in Conns |-> IF c \notin subscribers THEN conn[c]
                                ELSE IF Full(c) THEN Closed(c)
                                ELSE [Sent(c, Len(events')) EXCEPT !.chan = "closed",
                                                                   !.closes = @ + 1]]
    /\ subscribers' = {}
    /\ UNCHANGED <<doneClosed, reader, breaks>>

\* finish, deferred by run: the turn has reported by then (EveryTurnReports
\* of TurnJobs), so the branch that closes the channels has none to close.
Finish ==
    /\ terminal /\ ~doneClosed
    /\ doneClosed' = TRUE
    /\ UNCHANGED <<events, terminal, subscribers, conn, reader, breaks>>

----------------------------------------------------------------------------
(* handleTurnEvents *)

\* The request arrives on a fresh connection, with the header Last-Event-ID.
Connect(r, s) ==
    /\ reader[r].slot = NoSlot
    /\ ~Ended(r)
    /\ conn[<<r, s>>].pc \in {"idle", "ended"}
    /\ conn' = [conn EXCEPT ![<<r, s>>] =
                  [NewConn EXCEPT !.pc = "accepted", !.up = TRUE, !.lastSeen = reader[r].lastID]]
    /\ reader' = [reader EXCEPT ![r].slot = s]
    /\ UNCHANGED <<jobVars, subscribers, breaks>>

\* Mutant of Subscribe: the event last seen is replayed too.
SubscribeFromLastSeen(c) ==
    /\ conn[c].pc = "accepted"
    /\ conn' = [conn EXCEPT ![c] =
                  [@ EXCEPT !.pc = "serving",
                            !.replay = [i \in 1..(Len(events) + 1 - conn[c].lastSeen)
                                          |-> conn[c].lastSeen + i - 1],
                            !.chan = IF terminal THEN "nil" ELSE "open"]]
    /\ subscribers' = IF terminal THEN subscribers ELSE subscribers \cup {c}
    /\ UNCHANGED <<jobVars, reader, breaks>>

\* subscribe: a copy of what was not seen, and a channel unless it is over.
Subscribe(c) ==
    /\ conn[c].pc = "accepted"
    /\ conn' = [conn EXCEPT ![c] =
                  [@ EXCEPT !.pc = "serving",
                            !.replay = [i \in 1..(Len(events) - conn[c].lastSeen)
                                          |-> conn[c].lastSeen + i],
                            !.chan = IF terminal THEN "nil" ELSE "open"]]
    /\ subscribers' = IF terminal THEN subscribers ELSE subscribers \cup {c}
    /\ UNCHANGED <<jobVars, reader, breaks>>

\* writeSSE: what is written to a connection that broke reaches nobody.
Written(k, id) == [k EXCEPT !.wire = IF k.up THEN Append(@, id) ELSE @]

Leave(c) == conn' = [conn EXCEPT ![c].pc = "leaving"]

\* The replay is written first; a failed write ends the request.
WriteReplay(c) ==
    /\ conn[c].pc = "serving"
    /\ conn[c].replay # <<>>
    /\ \/ conn' = [conn EXCEPT ![c] =
                     Written([conn[c] EXCEPT !.replay = Tail(@)], Head(conn[c].replay))]
       \/ ~conn[c].up /\ Leave(c)
    /\ UNCHANGED <<jobVars, subscribers, reader, breaks>>

\* Mutant of Serve: a channel that was closed is not noticed.
ServeMissesClose(c) ==
    /\ conn[c].pc = "serving"
    /\ conn[c].replay = <<>>
    /\ \/ /\ conn[c].buf # <<>>
          /\ conn' = [conn EXCEPT ![c] =
                        Written([conn[c] EXCEPT !.buf = Tail(@)], Head(conn[c].buf))]
       \/ ~conn[c].up /\ Leave(c)
    /\ UNCHANGED <<jobVars, subscribers, reader, breaks>>

\* The select loop: an event of the channel, its end, or the request's end.
Serve(c) ==
    /\ conn[c].pc = "serving"
    /\ conn[c].replay = <<>>
    /\ \/ /\ conn[c].buf # <<>>
          /\ \/ conn' = [conn EXCEPT ![c] =
                           Written([conn[c] EXCEPT !.buf = Tail(@)], Head(conn[c].buf))]
             \/ ~conn[c].up /\ Leave(c)
       \/ conn[c].buf = <<>> /\ conn[c].chan # "open" /\ Leave(c)
       \/ ~conn[c].up /\ conn[c].chan # "nil" /\ Leave(c)
    /\ UNCHANGED <<jobVars, subscribers, reader, breaks>>

\* Mutant of Unsubscribe: it does not look whether the channel is registered.
UnsubscribeAnyway(c) ==
    /\ conn[c].pc = "leaving"
    /\ conn' = [conn EXCEPT ![c] =
                  [(IF conn[c].chan = "nil" THEN @ ELSE Closed(c)) EXCEPT !.pc = "ended"]]
    /\ subscribers' = subscribers \ {c}
    /\ UNCHANGED <<jobVars, reader, breaks>>

\* defer turn.unsubscribe(updates)
Unsubscribe(c) ==
    /\ conn[c].pc = "leaving"
    /\ conn' = [conn EXCEPT ![c] =
                  [(IF c \in subscribers THEN Closed(c) ELSE conn[c]) EXCEPT !.pc = "ended"]]
    /\ subscribers' = subscribers \ {c}
    /\ UNCHANGED <<jobVars, reader, breaks>>

----------------------------------------------------------------------------
(* The reader *)

\* It remembers the ID it received last, and closes at a terminal event.
Receive(r, s) ==
    LET k == conn[<<r, s>>] IN
    /\ reader[r].slot = s
    /\ k.wire # <<>>
    /\ LET name == events[Head(k.wire)] IN
       /\ reader' = [reader EXCEPT ![r] =
                       [received |-> Append(@.received, name), lastID |-> Head(k.wire),
                        slot |-> IF name = "end" THEN NoSlot ELSE s]]
       /\ conn' = [conn EXCEPT ![<<r, s>>] = [k EXCEPT !.wire = Tail(@), !.up = name # "end"]]
    /\ UNCHANGED <<jobVars, subscribers, breaks>>

\* The response ended: the reader goes on with a request of its own.
SeeEnd(r, s) ==
    /\ reader[r].slot = s
    /\ conn[<<r, s>>].pc = "ended"
    /\ conn[<<r, s>>].wire = <<>>
    /\ reader' = [reader EXCEPT ![r].slot = NoSlot]
    /\ UNCHANGED <<jobVars, subscribers, conn, breaks>>

\* The connection breaks: what it still carried is lost.
Break(r, s) ==
    /\ breaks < MaxBreaks
    /\ reader[r].slot = s
    /\ conn' = [conn EXCEPT ![<<r, s>>] = [@ EXCEPT !.up = FALSE, !.wire = <<>>]]
    /\ reader' = [reader EXCEPT ![r].slot = NoSlot]
    /\ breaks' = breaks + 1
    /\ UNCHANGED <<jobVars, subscribers>>

----------------------------------------------------------------------------
JobStep == EmitTerminal \/ Finish
HandlerStep(c) == Subscribe(c) \/ WriteReplay(c) \/ Serve(c) \/ Unsubscribe(c)
ReaderStep(r) == \E s \in Slots : Connect(r, s) \/ Receive(r, s) \/ SeeEnd(r, s)

Next ==
    \/ Emit \/ JobStep
    \/ \E c \in Conns : HandlerStep(c)
    \/ \E r \in Readers : ReaderStep(r) \/ \E s \in Slots : Break(r, s)

Spec == Init /\ [][Next]_vars

(***************************************************************************)
(* Handlers run, and a reader connects again (EventSource) and receives    *)
(* what its connection carries. The turn need not end.                     *)
(***************************************************************************)
Fairness ==
    /\ \A c \in Conns : WF_vars(HandlerStep(c))
    /\ \A r \in Readers : WF_vars(ReaderStep(r))

FairSpec == Spec /\ Fairness

----------------------------------------------------------------------------
(***************************************************************************)
(* Every variable holds a value of its type.                               *)
(***************************************************************************)
TypeOK ==
    /\ events \in Seq(Names)
    /\ terminal \in BOOLEAN
    /\ doneClosed \in BOOLEAN
    /\ subscribers \subseteq Conns
    /\ conn \in [Conns -> ConnFields]
    /\ reader \in [Readers -> [received : Seq(Names), lastID : Nat, slot : Slots \cup {NoSlot}]]
    /\ breaks \in Nat

(***************************************************************************)
(* No channel is closed twice and none is written to after it was closed   *)
(* (either would panic), though emit, emitTerminal and unsubscribe all     *)
(* close channels; and no channel is left open by a handler that returned. *)
(***************************************************************************)
ChannelsAreClosedOnce ==
    \A c \in Conns :
        /\ conn[c].closes <= 1
        /\ c \in subscribers <=> conn[c].chan = "open"
        /\ conn[c].pc = "ended" => conn[c].chan # "open"

(***************************************************************************)
(* What a request has yet to write continues what it has written, without  *)
(* a gap or a repetition where the replay meets the channel; and while it  *)
(* is subscribed that is the whole rest of the log. Types hold.            *)
(***************************************************************************)
Pending(c) == conn[c].wire \o conn[c].replay \o conn[c].buf

ReplayMeetsChannel ==
    /\ TypeOK
    /\ \A r \in Readers : LET s == reader[r].slot IN
          s # NoSlot =>
              /\ \A i \in 1..Len(Pending(<<r, s>>)) :
                    Pending(<<r, s>>)[i] = reader[r].lastID + i
              /\ <<r, s>> \in subscribers =>
                    reader[r].lastID + Len(Pending(<<r, s>>)) = Len(events)

(***************************************************************************)
(* The log and its readers are the event feed: each step appends an event, *)
(* nothing behind the terminal one, gives one reader the next event, or    *)
(* changes neither. And every reader that stays receives every event: one  *)
(* dropped from a full channel, or whose terminal event did not fit,       *)
(* connects again and is replayed the rest.                                *)
(***************************************************************************)
Feed == INSTANCE EventFeed WITH
    Terminal <- "end",
    log <- events, got <- [r \in Readers |-> reader[r].received]

ImplementsFeed == Feed!FairFeedSpec
=============================================================================
