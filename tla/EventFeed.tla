----------------------------- MODULE EventFeed ------------------------------
(***************************************************************************)
(* What the event stream of a turn promises its readers: each reads the    *)
(* events of the turn in their order, none skipped and none twice, however *)
(* often its connection ends; and, under fairness, all of them.            *)
(***************************************************************************)
EXTENDS Naturals, Sequences

CONSTANTS
    Readers,    \* the EventSource objects that follow the turn
    Names,      \* the names of events
    Terminal,   \* the name that ends the feed
    MaxEvents   \* bound: events of the turn

VARIABLES
    log,    \* the names of the events so far, in order
    got     \* of each reader: what it has read

feedVars == <<log, got>>

FeedInit == log = <<>> /\ got = [r \in Readers |-> <<>>]

Grow ==
    /\ Len(log) < MaxEvents
    /\ \A i \in DOMAIN log : log[i] # Terminal
    /\ \E name \in Names : log' = Append(log, name)
    /\ UNCHANGED got

Read(r) ==
    /\ Len(got[r]) < Len(log)
    /\ got' = [got EXCEPT ![r] = Append(@, log[Len(@) + 1])]
    /\ UNCHANGED log

FeedNext == Grow \/ \E r \in Readers : Read(r)

FeedSpec == FeedInit /\ [][FeedNext]_feedVars

FairFeedSpec == FeedSpec /\ \A r \in Readers : WF_feedVars(Read(r))
=============================================================================
