-------------------------- MODULE TurnEventsProofs --------------------------
(***************************************************************************)
(* The safety properties of TurnEvents, for any number of readers and of   *)
(* requests of each, channels of any capacity and turns of any length.     *)
(*                                                                         *)
(* The invariant: what a request has written, has yet to replay and has in *)
(* its channel are three windows of the log, one behind the other, which   *)
(* begin behind the last event its reader received (FollowInv); a channel  *)
(* is registered exactly while it is open (ConnInv).                       *)
(***************************************************************************)
EXTENDS TurnEvents, SequenceTheorems, TLAPS

Ids == Nat \ {0}

\* The IDs behind n, one by one.
Window(seq, n) == \A i \in 1..Len(seq) : seq[i] = n + i

\* What is on the wire, then to be replayed, then in the channel, behind n.
Windows(wire, replay, buf, n) ==
    /\ Window(wire, n)
    /\ Window(replay, n + Len(wire))
    /\ Window(buf, n + Len(wire) + Len(replay))

Total(wire, replay, buf) == Len(wire) + Len(replay) + Len(buf)

Follows(k, n) == Windows(k.wire, k.replay, k.buf, n)
Size(k) == Total(k.wire, k.replay, k.buf)

Untouched(k, n) == k.lastSeen = n /\ k.wire = <<>> /\ k.replay = <<>> /\ k.buf = <<>>

ConnInv(c) ==
    /\ conn[c].closes <= 1
    /\ c \in subscribers <=> conn[c].chan = "open"
    /\ conn[c].chan # "closed" => conn[c].closes = 0
    /\ conn[c].pc \in {"idle", "accepted"} => conn[c].chan = "nil"
    /\ conn[c].pc = "ended" => conn[c].chan # "open"
    /\ conn[c].lastSeen <= Len(events)

\* The request of a reader that has received the events up to n.
FollowInv(c, n) ==
    /\ conn[c].up
    /\ conn[c].pc # "idle"
    /\ conn[c].pc = "accepted" => Untouched(conn[c], n)
    /\ Follows(conn[c], n)
    /\ n + Size(conn[c]) <= Len(events)
    /\ c \in subscribers => n + Size(conn[c]) = Len(events)

ReaderInv(r) ==
    /\ reader[r].lastID = Len(reader[r].received)
    /\ reader[r].lastID <= Len(events)
    /\ reader[r].slot # NoSlot => FollowInv(<<r, reader[r].slot>>, reader[r].lastID)

LogInv == ~terminal => \A i \in 1..Len(events) : events[i] # "end"

EventsInv ==
    /\ TypeOK
    /\ LogInv
    /\ \A c \in Conns : ConnInv(c)
    /\ \A r \in Readers : ReaderInv(r)

----------------------------------------------------------------------------
(* Windows of the log *)

(***************************************************************************)
(* A window grows by the next ID.                                          *)
(***************************************************************************)
LEMMA WindowAppend ==
    ASSUME NEW seq \in Seq(Ids), NEW n \in Nat, Window(seq, n)
    PROVE  /\ Append(seq, n + Len(seq) + 1) \in Seq(Ids)
           /\ Len(Append(seq, n + Len(seq) + 1)) = Len(seq) + 1
           /\ Window(Append(seq, n + Len(seq) + 1), n)
  <1>1. n + Len(seq) + 1 \in Ids BY DEF Ids
  <1>2. /\ Append(seq, n + Len(seq) + 1) \in Seq(Ids)
        /\ Len(Append(seq, n + Len(seq) + 1)) = Len(seq) + 1
        /\ \A i \in 1..Len(seq) : Append(seq, n + Len(seq) + 1)[i] = seq[i]
        /\ Append(seq, n + Len(seq) + 1)[Len(seq) + 1] = n + Len(seq) + 1
    BY <1>1, AppendProperties
  <1>. QED BY <1>2 DEF Window

(***************************************************************************)
(* The head of a window is its first ID, and the tail is a window.         *)
(***************************************************************************)
LEMMA WindowTail ==
    ASSUME NEW seq \in Seq(Ids), NEW n \in Nat, Window(seq, n), seq # <<>>
    PROVE  /\ Head(seq) = n + 1
           /\ Tail(seq) \in Seq(Ids)
           /\ Len(seq) \in Nat
           /\ Len(Tail(seq)) = Len(seq) - 1
           /\ Window(Tail(seq), n + 1)
  <1>1. Len(seq) \in Nat \ {0} BY EmptySeq
  <1>2. Head(seq) = seq[1] BY <1>1
  <1>3. /\ Tail(seq) \in Seq(Ids)
        /\ Len(Tail(seq)) = Len(seq) - 1
        /\ \A i \in 1..Len(Tail(seq)) : Tail(seq)[i] = seq[i + 1]
    BY HeadTailProperties
  <1>. QED BY <1>1, <1>2, <1>3 DEF Window

(***************************************************************************)
(* Writing the head of the replay, or behind it that of the channel, to    *)
(* the wire leaves the same IDs in the same order.                         *)
(***************************************************************************)
LEMMA MoveReplay ==
    ASSUME NEW wire \in Seq(Ids), NEW replay \in Seq(Ids), NEW buf \in Seq(Ids), NEW n \in Nat,
           Windows(wire, replay, buf, n), replay # <<>>
    PROVE  /\ Append(wire, Head(replay)) \in Seq(Ids)
           /\ Tail(replay) \in Seq(Ids)
           /\ Windows(Append(wire, Head(replay)), Tail(replay), buf, n)
           /\ Total(Append(wire, Head(replay)), Tail(replay), buf) = Total(wire, replay, buf)
  <1>1. Len(wire) \in Nat /\ Len(replay) \in Nat /\ Len(buf) \in Nat BY LenProperties
  <1>2. n + Len(wire) \in Nat BY <1>1
  <1>3. Window(wire, n) /\ Window(replay, n + Len(wire)) BY DEF Windows
  <1>4. /\ Head(replay) = n + Len(wire) + 1
        /\ Tail(replay) \in Seq(Ids)
        /\ Len(Tail(replay)) = Len(replay) - 1
        /\ Window(Tail(replay), n + Len(wire) + 1)
    BY <1>2, <1>3, WindowTail
  <1>5. PICK longer : longer = Append(wire, Head(replay)) OBVIOUS
  <1>6. longer \in Seq(Ids) /\ Len(longer) = Len(wire) + 1 /\ Window(longer, n)
    BY <1>3, <1>4, <1>5, WindowAppend
  <1>7. PICK rest : rest = Tail(replay) OBVIOUS
  <1>8. rest \in Seq(Ids) /\ Len(rest) = Len(replay) - 1 /\ Window(rest, n + Len(wire) + 1)
    BY <1>4, <1>7
  <1>9. n + Len(longer) = n + Len(wire) + 1 /\ n + Len(longer) + Len(rest) = n + Len(wire) + Len(replay)
    BY <1>1, <1>6, <1>8
  <1>10. Windows(longer, rest, buf, n) BY <1>6, <1>8, <1>9 DEF Windows
  <1>11. Total(longer, rest, buf) = Total(wire, replay, buf) BY <1>1, <1>6, <1>8 DEF Total
  <1>. QED BY <1>5, <1>6, <1>7, <1>8, <1>10, <1>11

LEMMA MoveBuffered ==
    ASSUME NEW wire \in Seq(Ids), NEW buf \in Seq(Ids), NEW n \in Nat,
           Windows(wire, <<>>, buf, n), buf # <<>>
    PROVE  /\ Append(wire, Head(buf)) \in Seq(Ids)
           /\ Tail(buf) \in Seq(Ids)
           /\ Windows(Append(wire, Head(buf)), <<>>, Tail(buf), n)
           /\ Total(Append(wire, Head(buf)), <<>>, Tail(buf)) = Total(wire, <<>>, buf)
  <1>1. Len(wire) \in Nat /\ Len(buf) \in Nat BY LenProperties
  <1>2. n + Len(wire) \in Nat BY <1>1
  <1>3. Window(wire, n) /\ Window(buf, n + Len(wire)) BY <1>1 DEF Windows
  <1>4. /\ Head(buf) = n + Len(wire) + 1
        /\ Tail(buf) \in Seq(Ids)
        /\ Len(Tail(buf)) = Len(buf) - 1
        /\ Window(Tail(buf), n + Len(wire) + 1)
    BY <1>2, <1>3, WindowTail
  <1>5. PICK longer : longer = Append(wire, Head(buf)) OBVIOUS
  <1>6. longer \in Seq(Ids) /\ Len(longer) = Len(wire) + 1 /\ Window(longer, n)
    BY <1>3, <1>4, <1>5, WindowAppend
  <1>7. PICK rest : rest = Tail(buf) OBVIOUS
  <1>8. rest \in Seq(Ids) /\ Len(rest) = Len(buf) - 1 /\ Window(rest, n + Len(wire) + 1)
    BY <1>4, <1>7
  <1>9. n + Len(longer) + Len(<<>>) = n + Len(wire) + 1 BY <1>1, <1>6
  <1>10. Windows(longer, <<>>, rest, n)
    <2>1. Window(<<>>, n + Len(longer)) BY DEF Window
    <2>. QED BY <1>6, <1>8, <1>9, <2>1 DEF Windows
  <1>11. Total(longer, <<>>, rest) = Total(wire, <<>>, buf) BY <1>1, <1>6, <1>8 DEF Total
  <1>. QED BY <1>5, <1>6, <1>7, <1>8, <1>10, <1>11

(***************************************************************************)
(* The reader takes the first ID of the wire.                              *)
(***************************************************************************)
LEMMA TakeWire ==
    ASSUME NEW wire \in Seq(Ids), NEW replay \in Seq(Ids), NEW buf \in Seq(Ids), NEW n \in Nat,
           Windows(wire, replay, buf, n), wire # <<>>
    PROVE  /\ Head(wire) = n + 1
           /\ Tail(wire) \in Seq(Ids)
           /\ Windows(Tail(wire), replay, buf, n + 1)
           /\ n + 1 + Total(Tail(wire), replay, buf) = n + Total(wire, replay, buf)
           /\ n + 1 <= n + Total(wire, replay, buf)
  <1>1. Len(replay) \in Nat /\ Len(buf) \in Nat BY LenProperties
  <1>2. Window(wire, n) BY DEF Windows
  <1>3. /\ Head(wire) = n + 1
        /\ Tail(wire) \in Seq(Ids)
        /\ Len(wire) \in Nat
        /\ Len(Tail(wire)) = Len(wire) - 1
        /\ Window(Tail(wire), n + 1)
    BY <1>2, WindowTail
  <1>4. PICK rest : rest = Tail(wire) OBVIOUS
  <1>5. Len(rest) = Len(wire) - 1 /\ Window(rest, n + 1) /\ Len(rest) \in Nat
    BY <1>3, <1>4, LenProperties
  <1>6. n + 1 + Len(rest) = n + Len(wire) /\ n + 1 + Len(rest) + Len(replay) = n + Len(wire) + Len(replay)
    BY <1>1, <1>3, <1>5
  <1>7. Windows(rest, replay, buf, n + 1) BY <1>5, <1>6 DEF Windows
  <1>8. n + 1 + Total(rest, replay, buf) = n + Total(wire, replay, buf)
    BY <1>1, <1>3, <1>5 DEF Total
  <1>9. n + 1 <= n + Total(wire, replay, buf) BY <1>1, <1>3, <1>5 DEF Total
  <1>. QED BY <1>3, <1>4, <1>7, <1>8, <1>9

(***************************************************************************)
(* The next event of the log goes into the channel.                        *)
(***************************************************************************)
LEMMA GrowBuffer ==
    ASSUME NEW wire \in Seq(Ids), NEW replay \in Seq(Ids), NEW buf \in Seq(Ids), NEW n \in Nat,
           Windows(wire, replay, buf, n),
           NEW id, id = n + Total(wire, replay, buf) + 1
    PROVE  /\ Append(buf, id) \in Seq(Ids)
           /\ Windows(wire, replay, Append(buf, id), n)
           /\ n + Total(wire, replay, Append(buf, id)) = id
  <1>1. Len(wire) \in Nat /\ Len(replay) \in Nat /\ Len(buf) \in Nat BY LenProperties
  <1>2. PICK m \in Nat : m = n + Len(wire) + Len(replay) BY <1>1
  <1>3. id = m + Len(buf) + 1 BY <1>1, <1>2 DEF Total
  <1>4. Window(buf, m) BY <1>2 DEF Windows
  <1>5. PICK longer : longer = Append(buf, id) OBVIOUS
  <1>6. longer \in Seq(Ids) /\ Len(longer) = Len(buf) + 1 /\ Window(longer, m)
    BY <1>2, <1>3, <1>4, <1>5, WindowAppend
  <1>7. Windows(wire, replay, longer, n) BY <1>2, <1>6 DEF Windows
  <1>8. n + Total(wire, replay, longer) = id BY <1>1, <1>2, <1>3, <1>6 DEF Total
  <1>. QED BY <1>5, <1>6, <1>7, <1>8

(***************************************************************************)
(* The replay of everything behind n, in a request that has nothing else.  *)
(***************************************************************************)
LEMMA FreshReplay ==
    ASSUME NEW n \in Nat, NEW size \in Nat, n <= size,
           NEW replay, replay = [i \in 1..(size - n) |-> n + i]
    PROVE  /\ replay \in Seq(Ids)
           /\ Windows(<<>>, replay, <<>>, n)
           /\ n + Total(<<>>, replay, <<>>) = size
  <1>1. size - n \in Nat OBVIOUS
  <1>2. replay \in Seq(Ids) /\ Len(replay) = size - n
    <2>1. \A i \in 1..(size - n) : n + i \in Ids BY <1>1 DEF Ids
    <2>. QED BY <1>1, <2>1
  <1>3. Window(replay, n) BY <1>1, <1>2 DEF Window
  <1>4. Windows(<<>>, replay, <<>>, n) BY <1>3 DEF Windows, Window
  <1>5. n + Total(<<>>, replay, <<>>) = size BY <1>1, <1>2 DEF Total
  <1>. QED BY <1>2, <1>4, <1>5

----------------------------------------------------------------------------
(* What each step does to the record of its request *)

\* A step of the handler of request c.
Frame(c) ==
    /\ UNCHANGED <<events, terminal, doneClosed, reader, breaks>>
    /\ subscribers' \subseteq Conns
    /\ conn' \in [Conns -> ConnFields]
    /\ \A d \in Conns : d # c => conn'[d] = conn[d] /\ (d \in subscribers' <=> d \in subscribers)

(***************************************************************************)
(* An update of one request.                                               *)
(***************************************************************************)
LEMMA ConnUpdate ==
    ASSUME conn \in [Conns -> ConnFields], NEW c \in Conns, NEW k \in ConnFields,
           conn' = [conn EXCEPT ![c] = k]
    PROVE  /\ conn' \in [Conns -> ConnFields]
           /\ conn'[c] = k
           /\ \A d \in Conns : d # c => conn'[d] = conn[d]
  OBVIOUS

\* What a step that is not a write leaves of the record k.
Carries(j, k) ==
    /\ j.wire = k.wire /\ j.replay = k.replay /\ j.buf = k.buf
    /\ k.up => j.up

(***************************************************************************)
(* The handler leaves its loop.                                            *)
(***************************************************************************)
LEMMA LeaveMakes ==
    ASSUME conn \in [Conns -> ConnFields], NEW c \in Conns, Leave(c)
    PROVE  /\ conn' \in [Conns -> ConnFields]
           /\ \A d \in Conns : d # c => conn'[d] = conn[d]
           /\ conn'[c].pc = "leaving" /\ conn'[c].chan = conn[c].chan
           /\ conn'[c].closes = conn[c].closes /\ conn'[c].lastSeen = conn[c].lastSeen
           /\ Carries(conn'[c], conn[c])
  <1>1. PICK k : k = [conn[c] EXCEPT !.pc = "leaving"] OBVIOUS
  <1>2. conn[c] \in ConnFields OBVIOUS
  <1>3. /\ k \in ConnFields /\ k.pc = "leaving" /\ k.chan = conn[c].chan
        /\ k.closes = conn[c].closes /\ k.lastSeen = conn[c].lastSeen
        /\ Carries(k, conn[c])
    BY <1>1, <1>2 DEF ConnFields, Carries
  <1>4. conn' = [conn EXCEPT ![c] = k] BY <1>1 DEF Leave
  <1>. QED BY <1>3, <1>4, ConnUpdate

(***************************************************************************)
(* subscribe: the replay is what was not seen.                             *)
(***************************************************************************)
LEMMA SubscribeMakes ==
    ASSUME TypeOK, NEW c \in Conns, ConnInv(c), Subscribe(c)
    PROVE  /\ Frame(c)
           /\ conn[c].pc = "accepted" /\ conn'[c].pc = "serving"
           /\ conn'[c].closes = conn[c].closes /\ conn'[c].lastSeen = conn[c].lastSeen
           /\ conn'[c].chan = IF terminal THEN "nil" ELSE "open"
           /\ subscribers' = IF terminal THEN subscribers ELSE subscribers \cup {c}
           /\ conn'[c].wire = conn[c].wire /\ conn'[c].buf = conn[c].buf
           /\ conn'[c].replay = [i \in 1..(Len(events) - conn[c].lastSeen) |-> conn[c].lastSeen + i]
           /\ conn[c].up => conn'[c].up
  <1>1. conn[c] \in ConnFields BY DEF TypeOK
  <1>2. PICK replay :
           replay = [i \in 1..(Len(events) - conn[c].lastSeen) |-> conn[c].lastSeen + i]
    OBVIOUS
  <1>3. replay \in Seq(Ids)
    <2>1. conn[c].lastSeen \in Nat BY <1>1 DEF ConnFields
    <2>2. Len(events) \in Nat BY LenProperties DEF TypeOK
    <2>. QED BY <1>2, <2>1, <2>2, FreshReplay DEF ConnInv
  <1>4. PICK chan \in {"nil", "open"} : chan = IF terminal THEN "nil" ELSE "open" OBVIOUS
  <1>5. PICK k : k = [conn[c] EXCEPT !.pc = "serving", !.replay = replay, !.chan = chan] OBVIOUS
  <1>6. /\ k \in ConnFields
        /\ k.pc = "serving" /\ k.closes = conn[c].closes /\ k.lastSeen = conn[c].lastSeen
        /\ k.chan = chan /\ k.wire = conn[c].wire /\ k.buf = conn[c].buf /\ k.replay = replay
        /\ conn[c].up => k.up
    BY <1>1, <1>3, <1>5 DEF ConnFields, Ids
  <1>7. conn' = [conn EXCEPT ![c] = k] BY <1>2, <1>4, <1>5 DEF Subscribe
  <1>8. /\ conn' \in [Conns -> ConnFields] /\ conn'[c] = k
        /\ \A d \in Conns : d # c => conn'[d] = conn[d]
    BY <1>6, <1>7, ConnUpdate DEF TypeOK
  <1>9. /\ UNCHANGED <<events, terminal, doneClosed, reader, breaks>>
        /\ subscribers' = IF terminal THEN subscribers ELSE subscribers \cup {c}
        /\ conn[c].pc = "accepted"
    BY DEF Subscribe, jobVars
  <1>10. Frame(c) BY <1>8, <1>9 DEF Frame, TypeOK
  <1>. QED BY <1>2, <1>4, <1>6, <1>8, <1>9, <1>10

(***************************************************************************)
(* unsubscribe: a channel that is registered is closed.                    *)
(***************************************************************************)
LEMMA UnsubscribeMakes ==
    ASSUME TypeOK, NEW c \in Conns, Unsubscribe(c)
    PROVE  /\ Frame(c)
           /\ conn'[c].pc = "ended" /\ c \notin subscribers'
           /\ conn'[c].lastSeen = conn[c].lastSeen
           /\ IF c \in subscribers
              THEN conn'[c].chan = "closed" /\ conn'[c].closes = conn[c].closes + 1
              ELSE conn'[c].chan = conn[c].chan /\ conn'[c].closes = conn[c].closes
           /\ Carries(conn'[c], conn[c])
  <1>1. conn[c] \in ConnFields BY DEF TypeOK
  <1>2. PICK k : k = IF c \in subscribers
                     THEN [conn[c] EXCEPT !.chan = "closed", !.closes = @ + 1, !.pc = "ended"]
                     ELSE [conn[c] EXCEPT !.pc = "ended"]
    OBVIOUS
  <1>3. /\ k \in ConnFields
        /\ k.pc = "ended" /\ k.lastSeen = conn[c].lastSeen
        /\ IF c \in subscribers
           THEN k.chan = "closed" /\ k.closes = conn[c].closes + 1
           ELSE k.chan = conn[c].chan /\ k.closes = conn[c].closes
        /\ Carries(k, conn[c])
    <2>1. CASE c \in subscribers
      <3>1. PICK closes \in Nat : closes = conn[c].closes + 1 BY <1>1 DEF ConnFields
      <3>2. k = [conn[c] EXCEPT !.chan = "closed", !.closes = closes, !.pc = "ended"]
        BY <1>2, <2>1, <3>1
      <3>3. /\ k \in ConnFields
            /\ k.pc = "ended" /\ k.lastSeen = conn[c].lastSeen
            /\ k.chan = "closed" /\ k.closes = closes
            /\ Carries(k, conn[c])
        BY <1>1, <3>2 DEF ConnFields, Carries
      <3>. QED BY <2>1, <3>1, <3>3
    <2>2. CASE c \notin subscribers
      <3>1. k = [conn[c] EXCEPT !.pc = "ended"] BY <1>2, <2>2
      <3>2. /\ k \in ConnFields
            /\ k.pc = "ended" /\ k.lastSeen = conn[c].lastSeen
            /\ k.chan = conn[c].chan /\ k.closes = conn[c].closes
            /\ Carries(k, conn[c])
        BY <1>1, <3>1 DEF ConnFields, Carries
      <3>. QED BY <2>2, <3>2
    <2>. QED BY <2>1, <2>2
  <1>4. conn' = [conn EXCEPT ![c] = k]
    <2>1. CASE c \in subscribers
      <3>1. [Closed(c) EXCEPT !.pc = "ended"] = k BY <1>1, <1>2, <2>1 DEF Closed, ConnFields
      <3>. QED BY <2>1, <3>1 DEF Unsubscribe
    <2>2. CASE c \notin subscribers BY <1>2, <2>2 DEF Unsubscribe
    <2>. QED BY <2>1, <2>2
  <1>5. /\ conn' \in [Conns -> ConnFields] /\ conn'[c] = k
        /\ \A d \in Conns : d # c => conn'[d] = conn[d]
    BY <1>3, <1>4, ConnUpdate DEF TypeOK
  <1>6. UNCHANGED <<events, terminal, doneClosed, reader, breaks>> /\ subscribers' = subscribers \ {c}
    BY DEF Unsubscribe, jobVars
  <1>7. Frame(c) BY <1>5, <1>6 DEF Frame, TypeOK
  <1>. QED BY <1>3, <1>5, <1>6, <1>7

(***************************************************************************)
(* A handler that serves writes an ID, or leaves its loop.                 *)
(***************************************************************************)
LEMMA ServeMakes ==
    ASSUME TypeOK, NEW c \in Conns, WriteReplay(c) \/ Serve(c)
    PROVE  /\ Frame(c) /\ UNCHANGED subscribers
           /\ conn[c].pc = "serving" /\ conn'[c].pc \in {"serving", "leaving"}
           /\ conn'[c].chan = conn[c].chan /\ conn'[c].closes = conn[c].closes
           /\ conn'[c].lastSeen = conn[c].lastSeen
           /\ \/ Carries(conn'[c], conn[c])
              \/ /\ conn[c].replay # <<>>
                 /\ conn'[c].replay = Tail(conn[c].replay) /\ conn'[c].buf = conn[c].buf
                 /\ conn[c].up => conn'[c].up /\ conn'[c].wire = Append(conn[c].wire, Head(conn[c].replay))
              \/ /\ conn[c].replay = <<>> /\ conn[c].buf # <<>>
                 /\ conn'[c].replay = <<>> /\ conn'[c].buf = Tail(conn[c].buf)
                 /\ conn[c].up => conn'[c].up /\ conn'[c].wire = Append(conn[c].wire, Head(conn[c].buf))
  <1>1. conn[c] \in ConnFields /\ conn \in [Conns -> ConnFields] /\ subscribers \subseteq Conns
    BY DEF TypeOK
  <1>2. /\ UNCHANGED <<events, terminal, doneClosed, reader, breaks, subscribers>>
        /\ conn[c].pc = "serving"
    BY DEF WriteReplay, Serve, jobVars
  <1>3. CASE Leave(c) BY <1>1, <1>2, <1>3, LeaveMakes DEF Frame
  <1>4. CASE /\ conn[c].replay # <<>>
             /\ conn' = [conn EXCEPT ![c] =
                           Written([conn[c] EXCEPT !.replay = Tail(@)], Head(conn[c].replay))]
    <2>1. PICK j : j = Written([conn[c] EXCEPT !.replay = Tail(@)], Head(conn[c].replay)) OBVIOUS
    <2>2. /\ j \in ConnFields
          /\ j.replay = Tail(conn[c].replay) /\ j.buf = conn[c].buf /\ j.pc = conn[c].pc
          /\ j.chan = conn[c].chan /\ j.closes = conn[c].closes /\ j.lastSeen = conn[c].lastSeen
          /\ conn[c].up => j.up /\ j.wire = Append(conn[c].wire, Head(conn[c].replay))
      <3>1. conn[c].wire \in Seq(Ids) /\ conn[c].replay \in Seq(Ids) BY <1>1 DEF ConnFields, Ids
      <3>2. Head(conn[c].replay) \in Ids /\ Tail(conn[c].replay) \in Seq(Ids)
        BY <1>4, <3>1, HeadTailProperties
      <3>3. Append(conn[c].wire, Head(conn[c].replay)) \in Seq(Ids) BY <3>1, <3>2, AppendProperties
      <3>. QED BY <1>1, <2>1, <3>1, <3>2, <3>3 DEF Written, ConnFields, Ids
    <2>3. conn' = [conn EXCEPT ![c] = j] BY <1>4, <2>1
    <2>4. /\ conn' \in [Conns -> ConnFields] /\ conn'[c] = j
          /\ \A d \in Conns : d # c => conn'[d] = conn[d]
      BY <1>1, <2>2, <2>3, ConnUpdate
    <2>5. Frame(c) BY <1>1, <1>2, <2>4 DEF Frame
    <2>6. conn[c].replay # <<>> BY <1>4
    <2>. QED BY <1>2, <2>2, <2>4, <2>5, <2>6
  <1>5. CASE /\ conn[c].replay = <<>> /\ conn[c].buf # <<>>
             /\ conn' = [conn EXCEPT ![c] =
                           Written([conn[c] EXCEPT !.buf = Tail(@)], Head(conn[c].buf))]
    <2>1. PICK j : j = Written([conn[c] EXCEPT !.buf = Tail(@)], Head(conn[c].buf)) OBVIOUS
    <2>2. /\ j \in ConnFields
          /\ j.buf = Tail(conn[c].buf) /\ j.replay = conn[c].replay /\ j.pc = conn[c].pc
          /\ j.chan = conn[c].chan /\ j.closes = conn[c].closes /\ j.lastSeen = conn[c].lastSeen
          /\ conn[c].up => j.up /\ j.wire = Append(conn[c].wire, Head(conn[c].buf))
      <3>1. conn[c].wire \in Seq(Ids) /\ conn[c].buf \in Seq(Ids) BY <1>1 DEF ConnFields, Ids
      <3>2. Head(conn[c].buf) \in Ids /\ Tail(conn[c].buf) \in Seq(Ids)
        BY <1>5, <3>1, HeadTailProperties
      <3>3. Append(conn[c].wire, Head(conn[c].buf)) \in Seq(Ids) BY <3>1, <3>2, AppendProperties
      <3>. QED BY <1>1, <2>1, <3>1, <3>2, <3>3 DEF Written, ConnFields, Ids
    <2>3. conn' = [conn EXCEPT ![c] = j] BY <1>5, <2>1
    <2>4. /\ conn' \in [Conns -> ConnFields] /\ conn'[c] = j
          /\ \A d \in Conns : d # c => conn'[d] = conn[d]
      BY <1>1, <2>2, <2>3, ConnUpdate
    <2>5. Frame(c) BY <1>1, <1>2, <2>4 DEF Frame
    <2>6. conn[c].replay = <<>> /\ conn[c].buf # <<>> BY <1>5
    <2>. QED BY <1>2, <2>2, <2>4, <2>5, <2>6
  <1>. QED BY <1>3, <1>4, <1>5 DEF WriteReplay, Serve

(***************************************************************************)
(* emit and emitTerminal, as one request sees them.                        *)
(***************************************************************************)
LEMMA EmitMakes ==
    ASSUME TypeOK, Emit \/ EmitTerminal, NEW c \in Conns
    PROVE  /\ conn'[c] \in ConnFields
           /\ conn'[c].pc = conn[c].pc /\ conn'[c].lastSeen = conn[c].lastSeen
           /\ conn'[c].wire = conn[c].wire /\ conn'[c].replay = conn[c].replay
           /\ conn[c].up => conn'[c].up
           /\ \/ /\ c \notin subscribers /\ c \notin subscribers' /\ conn'[c] = conn[c]
              \/ /\ c \in subscribers /\ c \notin subscribers' /\ conn'[c].chan = "closed"
                 /\ conn'[c].closes = conn[c].closes + 1
                 /\ conn'[c].buf \in {conn[c].buf, Append(conn[c].buf, Len(events) + 1)}
              \/ /\ c \in subscribers /\ c \in subscribers' /\ conn'[c].chan = conn[c].chan
                 /\ conn'[c].closes = conn[c].closes
                 /\ conn'[c].buf = Append(conn[c].buf, Len(events) + 1)
  <1>1. conn[c] \in ConnFields BY DEF TypeOK
  <1>2. Len(events') = Len(events) + 1 /\ Len(events) + 1 \in Ids
    <2>1. events \in Seq(Names) /\ Len(events) \in Nat BY LenProperties DEF TypeOK
    <2>2. PICK name \in Names : events' = Append(events, name) BY DEF Emit, EmitTerminal, Names
    <2>. QED BY <2>1, <2>2, AppendProperties DEF Ids
  <1>3. PICK longer : longer = Append(conn[c].buf, Len(events) + 1) OBVIOUS
  <1>4. longer \in Seq(Nat \ {0}) BY <1>1, <1>2, <1>3, AppendProperties DEF ConnFields, Ids
  <1>5. PICK closes \in Nat : closes = conn[c].closes + 1 BY <1>1 DEF ConnFields
  <1>6. CASE c \notin subscribers
    <2>1. conn'[c] = conn[c] BY <1>6 DEF Emit, EmitTerminal
    <2>2. c \notin subscribers' BY <1>6 DEF Emit, EmitTerminal
    <2>. QED BY <1>1, <1>6, <2>1, <2>2
  <1>7. CASE c \in subscribers /\ Full(c)
    <2>1. conn'[c] = Closed(c) BY <1>7 DEF Emit, EmitTerminal
    <2>2. conn'[c] = [conn[c] EXCEPT !.chan = "closed", !.closes = closes]
      BY <1>5, <2>1 DEF Closed
    <2>3. /\ conn'[c] \in ConnFields
          /\ conn'[c].pc = conn[c].pc /\ conn'[c].lastSeen = conn[c].lastSeen
          /\ conn'[c].wire = conn[c].wire /\ conn'[c].replay = conn[c].replay
          /\ conn[c].up => conn'[c].up
          /\ conn'[c].chan = "closed" /\ conn'[c].closes = closes /\ conn'[c].buf = conn[c].buf
      BY <1>1, <2>2 DEF ConnFields
    <2>4. c \notin subscribers' BY <1>7 DEF Emit, EmitTerminal
    <2>. QED BY <1>5, <1>7, <2>3, <2>4
  <1>8. CASE c \in subscribers /\ ~Full(c) /\ Emit
    <2>1. conn'[c] = Sent(c, Len(events')) BY <1>8 DEF Emit
    <2>2. conn'[c] = [conn[c] EXCEPT !.buf = longer] BY <1>2, <1>3, <2>1 DEF Sent
    <2>3. /\ conn'[c] \in ConnFields
          /\ conn'[c].pc = conn[c].pc /\ conn'[c].lastSeen = conn[c].lastSeen
          /\ conn'[c].wire = conn[c].wire /\ conn'[c].replay = conn[c].replay
          /\ conn[c].up => conn'[c].up
          /\ conn'[c].chan = conn[c].chan /\ conn'[c].closes = conn[c].closes
          /\ conn'[c].buf = longer
      BY <1>1, <1>4, <2>2 DEF ConnFields
    <2>4. c \in subscribers' BY <1>8 DEF Emit
    <2>. QED BY <1>3, <1>8, <2>3, <2>4
  <1>9. CASE c \in subscribers /\ ~Full(c) /\ EmitTerminal
    <2>1. conn'[c] = [Sent(c, Len(events')) EXCEPT !.chan = "closed", !.closes = @ + 1]
      BY <1>9 DEF EmitTerminal
    <2>2. PICK sent : sent = Sent(c, Len(events')) OBVIOUS
    <2>3. sent = [conn[c] EXCEPT !.buf = longer] BY <1>2, <1>3, <2>2 DEF Sent
    <2>4. /\ sent \in ConnFields
          /\ sent.pc = conn[c].pc /\ sent.lastSeen = conn[c].lastSeen
          /\ sent.wire = conn[c].wire /\ sent.replay = conn[c].replay
          /\ conn[c].up => sent.up
          /\ sent.closes = conn[c].closes /\ sent.buf = longer
      BY <1>1, <1>4, <2>3 DEF ConnFields
    <2>5. conn'[c] = [sent EXCEPT !.chan = "closed", !.closes = closes] BY <1>5, <2>1, <2>2, <2>4
    <2>6. /\ conn'[c] \in ConnFields
          /\ conn'[c].pc = sent.pc /\ conn'[c].lastSeen = sent.lastSeen
          /\ conn'[c].wire = sent.wire /\ conn'[c].replay = sent.replay
          /\ sent.up => conn'[c].up
          /\ conn'[c].chan = "closed" /\ conn'[c].closes = closes /\ conn'[c].buf = sent.buf
      BY <2>4, <2>5 DEF ConnFields
    <2>7. c \notin subscribers' BY <1>9 DEF EmitTerminal
    <2>. QED BY <1>3, <1>5, <1>9, <2>4, <2>6, <2>7
  <1>. QED BY <1>6, <1>7, <1>8, <1>9

(***************************************************************************)
(* emit and emitTerminal, as the log and the readers see them.             *)
(***************************************************************************)
LEMMA EmitAppends ==
    ASSUME TypeOK, Emit \/ EmitTerminal
    PROVE  /\ UNCHANGED <<doneClosed, reader, breaks>>
           /\ ~terminal /\ Len(events) \in Nat /\ Len(events) < MaxEvents
           /\ \E name \in Names : events' = Append(events, name) /\ (name # "end" \/ terminal')
           /\ events' \in Seq(Names) /\ Len(events') = Len(events) + 1
           /\ \A i \in 1..Len(events) : events'[i] = events[i]
           /\ ~terminal' => events'[Len(events) + 1] # "end"
           /\ terminal' \in BOOLEAN
           /\ conn' \in [Conns -> ConnFields] /\ subscribers' \subseteq Conns
  <1>1. events \in Seq(Names) /\ Len(events) \in Nat BY LenProperties DEF TypeOK
  <1>2. PICK name \in Names : events' = Append(events, name) /\ (name # "end" \/ terminal')
    <2>1. CASE Emit BY <2>1 DEF Emit, Names
    <2>2. CASE EmitTerminal BY <2>2 DEF EmitTerminal, Names
    <2>. QED BY <2>1, <2>2
  <1>3. /\ events' \in Seq(Names) /\ Len(events') = Len(events) + 1
        /\ \A i \in 1..Len(events) : events'[i] = events[i]
        /\ events'[Len(events) + 1] = name
    BY <1>1, <1>2, AppendProperties
  <1>4. conn' \in [Conns -> ConnFields]
    <2>1. conn' = [c \in Conns |-> conn'[c]]
      <3>1. CASE Emit BY <3>1 DEF Emit
      <3>2. CASE EmitTerminal BY <3>2 DEF EmitTerminal
      <3>. QED BY <3>1, <3>2
    <2>2. \A c \in Conns : conn'[c] \in ConnFields BY EmitMakes
    <2>. QED BY <2>1, <2>2
  <1>5. /\ UNCHANGED <<doneClosed, reader, breaks>> /\ ~terminal /\ Len(events) < MaxEvents
        /\ terminal' \in BOOLEAN /\ subscribers' \subseteq Conns
    BY DEF Emit, EmitTerminal, TypeOK
  <1>. QED BY <1>1, <1>2, <1>3, <1>4, <1>5

(***************************************************************************)
(* A reader connects: a request of its own, with nothing in it yet.        *)
(***************************************************************************)
LEMMA ConnectMakes ==
    ASSUME TypeOK, NEW r \in Readers, NEW s \in Slots, Connect(r, s)
    PROVE  /\ conn' \in [Conns -> ConnFields]
           /\ \A d \in Conns : d # <<r, s>> => conn'[d] = conn[d]
           /\ conn[<<r, s>>].pc \in {"idle", "ended"}
           /\ conn'[<<r, s>>].pc = "accepted" /\ conn'[<<r, s>>].up
           /\ conn'[<<r, s>>].chan = "nil" /\ conn'[<<r, s>>].closes = 0
           /\ Untouched(conn'[<<r, s>>], reader[r].lastID)
  <1>1. PICK n \in Nat : n = reader[r].lastID BY DEF TypeOK
  <1>2. PICK k : k = [NewConn EXCEPT !.pc = "accepted", !.up = TRUE, !.lastSeen = n] OBVIOUS
  <1>3. /\ k \in ConnFields /\ k.pc = "accepted" /\ k.up /\ k.chan = "nil" /\ k.closes = 0
        /\ Untouched(k, n)
    <2>1. PICK nothing \in Seq(Nat \ {0}) : nothing = <<>> BY EmptySeq
    <2>2. k = [pc |-> "accepted", lastSeen |-> n, replay |-> nothing, chan |-> "nil",
               buf |-> nothing, closes |-> 0, up |-> TRUE, wire |-> nothing]
      BY <1>2, <2>1 DEF NewConn
    <2>. QED BY <2>1, <2>2 DEF ConnFields, Untouched
  <1>4. <<r, s>> \in Conns BY DEF Conns
  <1>5. conn' = [conn EXCEPT ![<<r, s>>] = k] BY <1>1, <1>2 DEF Connect
  <1>6. conn[<<r, s>>].pc \in {"idle", "ended"} BY DEF Connect
  <1>7. /\ conn' \in [Conns -> ConnFields] /\ conn'[<<r, s>>] = k
        /\ \A d \in Conns : d # <<r, s>> => conn'[d] = conn[d]
    BY <1>3, <1>4, <1>5, ConnUpdate DEF TypeOK
  <1>. QED BY <1>1, <1>3, <1>6, <1>7

\* What happens to the reader and the wire of a request leaves its handler.
HandlerKept(j, k) ==
    /\ j.pc = k.pc /\ j.chan = k.chan /\ j.closes = k.closes /\ j.lastSeen = k.lastSeen
    /\ j.replay = k.replay /\ j.buf = k.buf

(***************************************************************************)
(* A reader receives an event.                                             *)
(***************************************************************************)
LEMMA ReceiveMakes ==
    ASSUME TypeOK, NEW r \in Readers, NEW s \in Slots, Receive(r, s)
    PROVE  /\ conn' \in [Conns -> ConnFields]
           /\ \A d \in Conns : d # <<r, s>> => conn'[d] = conn[d]
           /\ HandlerKept(conn'[<<r, s>>], conn[<<r, s>>])
           /\ conn[<<r, s>>].wire # <<>>
           /\ conn'[<<r, s>>].wire = Tail(conn[<<r, s>>].wire)
           /\ \/ conn'[<<r, s>>].up /\ reader'[r].slot = s
              \/ reader'[r].slot = NoSlot
  <1>1. <<r, s>> \in Conns /\ conn[<<r, s>>] \in ConnFields BY DEF Conns, TypeOK
  <1>2. conn[<<r, s>>].wire # <<>> BY DEF Receive
  <1>3. PICK rest : rest = Tail(conn[<<r, s>>].wire) OBVIOUS
  <1>4. rest \in Seq(Nat \ {0}) BY <1>1, <1>2, <1>3, HeadTailProperties DEF ConnFields
  <1>5. PICK name : name = events[Head(conn[<<r, s>>].wire)] OBVIOUS
  <1>6. PICK k : k = [conn[<<r, s>>] EXCEPT !.wire = rest, !.up = name # "end"] OBVIOUS
  <1>7. k \in ConnFields /\ HandlerKept(k, conn[<<r, s>>]) /\ k.wire = rest
    BY <1>1, <1>4, <1>6 DEF ConnFields, HandlerKept
  <1>8. name # "end" => k.up BY <1>1, <1>6 DEF ConnFields
  <1>9. conn' = [conn EXCEPT ![<<r, s>>] = k] BY <1>3, <1>5, <1>6 DEF Receive
  <1>10. /\ conn' \in [Conns -> ConnFields] /\ conn'[<<r, s>>] = k
         /\ \A d \in Conns : d # <<r, s>> => conn'[d] = conn[d]
    BY <1>1, <1>7, <1>9, ConnUpdate DEF TypeOK
  <1>11. reader'[r].slot = IF name = "end" THEN NoSlot ELSE s BY <1>5 DEF Receive, TypeOK
  <1>. QED BY <1>2, <1>3, <1>7, <1>8, <1>10, <1>11

(***************************************************************************)
(* A connection breaks.                                                    *)
(***************************************************************************)
LEMMA BreakMakes ==
    ASSUME TypeOK, NEW r \in Readers, NEW s \in Slots, Break(r, s)
    PROVE  /\ conn' \in [Conns -> ConnFields]
           /\ \A d \in Conns : d # <<r, s>> => conn'[d] = conn[d]
           /\ HandlerKept(conn'[<<r, s>>], conn[<<r, s>>])
  <1>1. <<r, s>> \in Conns /\ conn[<<r, s>>] \in ConnFields BY DEF Conns, TypeOK
  <1>2. PICK k : k = [conn[<<r, s>>] EXCEPT !.up = FALSE, !.wire = <<>>] OBVIOUS
  <1>3. k \in ConnFields /\ HandlerKept(k, conn[<<r, s>>])
    <2>1. PICK nothing \in Seq(Nat \ {0}) : nothing = <<>> BY EmptySeq
    <2>2. k = [conn[<<r, s>>] EXCEPT !.up = FALSE, !.wire = nothing] BY <1>2, <2>1
    <2>. QED BY <1>1, <2>1, <2>2 DEF ConnFields, HandlerKept
  <1>4. conn' = [conn EXCEPT ![<<r, s>>] = k] BY <1>2 DEF Break
  <1>. QED BY <1>1, <1>3, <1>4, ConnUpdate DEF TypeOK

----------------------------------------------------------------------------
(* The channels *)

(***************************************************************************)
(* No step of a handler leaves ConnInv, of its request or another.         *)
(***************************************************************************)
LEMMA HandlerKeepsConn ==
    ASSUME TypeOK, NEW c \in Conns, HandlerStep(c), \A d \in Conns : ConnInv(d)
    PROVE  Frame(c) /\ \A d \in Conns : ConnInv(d)'
  <1>1. Frame(c) /\ ConnInv(c)'
    <2>1. CASE Subscribe(c) BY <2>1, SubscribeMakes DEF ConnInv, Frame
    <2>2. CASE WriteReplay(c) \/ Serve(c)
      <3>1. Frame(c) BY <2>2, ServeMakes
      <3>2. /\ UNCHANGED <<events, subscribers>>
            /\ conn[c].pc = "serving" /\ conn'[c].pc \in {"serving", "leaving"}
            /\ conn'[c].chan = conn[c].chan /\ conn'[c].closes = conn[c].closes
            /\ conn'[c].lastSeen = conn[c].lastSeen
        BY <2>2, ServeMakes DEF Frame
      <3>. QED BY <3>1, <3>2 DEF ConnInv
    <2>3. CASE Unsubscribe(c) BY <2>3, UnsubscribeMakes DEF ConnInv, Frame
    <2>. QED BY <2>1, <2>2, <2>3 DEF HandlerStep
  <1>2. ASSUME NEW d \in Conns, d # c PROVE ConnInv(d)'
    BY <1>1, <1>2 DEF Frame, ConnInv
  <1>. QED BY <1>1, <1>2

(***************************************************************************)
(* Nor do emit and emitTerminal.                                           *)
(***************************************************************************)
LEMMA EmitKeepsConn ==
    ASSUME TypeOK, Emit \/ EmitTerminal, NEW c \in Conns, ConnInv(c)
    PROVE  ConnInv(c)'
  <1>1. conn[c] \in ConnFields BY DEF TypeOK
  <1>2. Len(events') = Len(events) + 1 /\ Len(events) \in Nat BY EmitAppends
  <1>3. conn'[c].lastSeen = conn[c].lastSeen /\ conn'[c].pc = conn[c].pc BY EmitMakes
  <1>4. conn[c].lastSeen \in Nat /\ conn[c].closes \in Nat BY <1>1 DEF ConnFields
  <1>5. CASE c \notin subscribers /\ c \notin subscribers' /\ conn'[c] = conn[c]
    BY <1>2, <1>4, <1>5 DEF ConnInv
  <1>6. CASE /\ c \in subscribers /\ c \notin subscribers' /\ conn'[c].chan = "closed"
             /\ conn'[c].closes = conn[c].closes + 1
    BY <1>2, <1>3, <1>4, <1>6 DEF ConnInv
  <1>7. CASE /\ c \in subscribers /\ c \in subscribers' /\ conn'[c].chan = conn[c].chan
             /\ conn'[c].closes = conn[c].closes
    BY <1>2, <1>3, <1>4, <1>7 DEF ConnInv
  <1>. QED BY <1>5, <1>6, <1>7, EmitMakes

----------------------------------------------------------------------------
(* The windows of a request *)

(***************************************************************************)
(* The parts of a request are sequences of IDs.                            *)
(***************************************************************************)
LEMMA ConnTypes ==
    ASSUME TypeOK, NEW c \in Conns
    PROVE  /\ conn[c].wire \in Seq(Ids) /\ conn[c].replay \in Seq(Ids) /\ conn[c].buf \in Seq(Ids)
           /\ conn[c].lastSeen \in Nat /\ conn[c].closes \in Nat /\ Size(conn[c]) \in Nat
           /\ Len(events) \in Nat
  <1>1. /\ conn[c].wire \in Seq(Ids) /\ conn[c].replay \in Seq(Ids) /\ conn[c].buf \in Seq(Ids)
        /\ conn[c].lastSeen \in Nat /\ conn[c].closes \in Nat
    BY DEF TypeOK, ConnFields, Ids
  <1>2. Size(conn[c]) \in Nat
    <2>1. Len(conn[c].wire) \in Nat /\ Len(conn[c].replay) \in Nat /\ Len(conn[c].buf) \in Nat
      BY <1>1, LenProperties
    <2>2. PICK a \in Nat, b \in Nat, d \in Nat :
            a = Len(conn[c].wire) /\ b = Len(conn[c].replay) /\ d = Len(conn[c].buf)
      BY <2>1
    <2>3. Size(conn[c]) = a + b + d BY <2>2 DEF Size, Total
    <2>. QED BY <2>3
  <1>3. Len(events) \in Nat BY LenProperties DEF TypeOK
  <1>. QED BY <1>1, <1>2, <1>3

(***************************************************************************)
(* What a handler does leaves the windows of its request behind n.         *)
(***************************************************************************)
LEMMA HandlerKeepsFollow ==
    ASSUME TypeOK, NEW c \in Conns, ConnInv(c), HandlerStep(c),
           NEW n \in Nat, n <= Len(events), FollowInv(c, n)
    PROVE  FollowInv(c, n)'
  <1>1. CASE Subscribe(c)
    <2>1. /\ UNCHANGED events
          /\ conn'[c].pc = "serving" /\ conn'[c].up
          /\ conn'[c].wire = <<>> /\ conn'[c].buf = <<>>
          /\ conn'[c].replay = [i \in 1..(Len(events) - n) |-> n + i]
      BY <1>1, SubscribeMakes DEF Frame, FollowInv, Untouched
    <2>2. PICK replay : replay = conn'[c].replay OBVIOUS
    <2>3. Windows(<<>>, replay, <<>>, n) /\ n + Total(<<>>, replay, <<>>) = Len(events)
      BY <2>1, <2>2, ConnTypes, FreshReplay
    <2>4. Follows(conn'[c], n) /\ n + Size(conn'[c]) = Len(events)
      BY <2>1, <2>2, <2>3 DEF Follows, Size
    <2>. QED BY <2>1, <2>4, ConnTypes DEF FollowInv
  <1>2. CASE WriteReplay(c) \/ Serve(c)
    <2>1. /\ UNCHANGED <<events, subscribers>> /\ conn'[c].pc \in {"serving", "leaving"}
          /\ \/ Carries(conn'[c], conn[c])
             \/ /\ conn[c].replay # <<>>
                /\ conn'[c].replay = Tail(conn[c].replay) /\ conn'[c].buf = conn[c].buf
                /\ conn'[c].up /\ conn'[c].wire = Append(conn[c].wire, Head(conn[c].replay))
             \/ /\ conn[c].replay = <<>> /\ conn[c].buf # <<>>
                /\ conn'[c].replay = <<>> /\ conn'[c].buf = Tail(conn[c].buf)
                /\ conn'[c].up /\ conn'[c].wire = Append(conn[c].wire, Head(conn[c].buf))
      BY <1>2, ServeMakes DEF Frame, FollowInv
    <2>2. conn'[c].up /\ Follows(conn'[c], n) /\ Size(conn'[c]) = Size(conn[c])
      <3>1. CASE Carries(conn'[c], conn[c]) BY <3>1 DEF Carries, FollowInv, Follows, Size
      <3>2. CASE /\ conn[c].replay # <<>>
                 /\ conn'[c].replay = Tail(conn[c].replay) /\ conn'[c].buf = conn[c].buf
                 /\ conn'[c].up /\ conn'[c].wire = Append(conn[c].wire, Head(conn[c].replay))
        <4>1. Windows(conn[c].wire, conn[c].replay, conn[c].buf, n) BY DEF FollowInv, Follows
        <4>2. /\ Windows(conn'[c].wire, conn'[c].replay, conn'[c].buf, n)
              /\ Total(conn'[c].wire, conn'[c].replay, conn'[c].buf)
                   = Total(conn[c].wire, conn[c].replay, conn[c].buf)
          BY <3>2, <4>1, ConnTypes, MoveReplay
        <4>. QED BY <3>2, <4>2 DEF Follows, Size
      <3>3. CASE /\ conn[c].replay = <<>> /\ conn[c].buf # <<>>
                 /\ conn'[c].replay = <<>> /\ conn'[c].buf = Tail(conn[c].buf)
                 /\ conn'[c].up /\ conn'[c].wire = Append(conn[c].wire, Head(conn[c].buf))
        <4>1. Windows(conn[c].wire, <<>>, conn[c].buf, n) BY <3>3 DEF FollowInv, Follows
        <4>2. /\ Windows(conn'[c].wire, <<>>, conn'[c].buf, n)
              /\ Total(conn'[c].wire, <<>>, conn'[c].buf) = Total(conn[c].wire, <<>>, conn[c].buf)
          BY <3>3, <4>1, ConnTypes, MoveBuffered
        <4>. QED BY <3>3, <4>2 DEF Follows, Size
      <3>. QED BY <2>1, <3>1, <3>2, <3>3
    <2>. QED BY <2>1, <2>2 DEF FollowInv
  <1>3. CASE Unsubscribe(c)
    <2>1. /\ UNCHANGED events /\ conn'[c].pc = "ended" /\ c \notin subscribers'
          /\ Carries(conn'[c], conn[c])
      BY <1>3, UnsubscribeMakes DEF Frame
    <2>. QED BY <2>1 DEF Carries, FollowInv, Follows, Size
  <1>. QED BY <1>1, <1>2, <1>3 DEF HandlerStep

(***************************************************************************)
(* The next event is in the channel of a subscribed request, or behind all *)
(* that a request which is not subscribed any more has.                    *)
(***************************************************************************)
LEMMA EmitKeepsFollow ==
    ASSUME TypeOK, Emit \/ EmitTerminal, NEW c \in Conns, ConnInv(c),
           NEW n \in Nat, FollowInv(c, n)
    PROVE  FollowInv(c, n)'
  <1>1. /\ conn'[c].pc = conn[c].pc /\ conn'[c].lastSeen = conn[c].lastSeen
        /\ conn'[c].wire = conn[c].wire /\ conn'[c].replay = conn[c].replay /\ conn'[c].up
    BY EmitMakes DEF FollowInv
  <1>2. Len(events') = Len(events) + 1 /\ Len(events) \in Nat BY EmitAppends
  <1>3. CASE c \notin subscribers' /\ conn'[c].buf = conn[c].buf
    <2>1. Size(conn'[c]) = Size(conn[c]) /\ Follows(conn'[c], n)
      BY <1>1, <1>3 DEF FollowInv, Follows, Size
    <2>2. n + Size(conn'[c]) <= Len(events') BY <1>2, <2>1, ConnTypes DEF FollowInv
    <2>. QED BY <1>1, <1>3, <2>1, <2>2 DEF FollowInv, Untouched
  <1>4. CASE c \in subscribers /\ conn'[c].buf = Append(conn[c].buf, Len(events) + 1)
    <2>1. conn[c].pc # "accepted" BY <1>4 DEF ConnInv
    <2>2. PICK id : id = Len(events) + 1 OBVIOUS
    <2>3. id = n + Total(conn[c].wire, conn[c].replay, conn[c].buf) + 1
      BY <1>4, <2>2 DEF FollowInv, Size
    <2>4. Windows(conn[c].wire, conn[c].replay, conn[c].buf, n) BY DEF FollowInv, Follows
    <2>5. /\ Windows(conn[c].wire, conn[c].replay, Append(conn[c].buf, id), n)
          /\ n + Total(conn[c].wire, conn[c].replay, Append(conn[c].buf, id)) = id
      BY <2>3, <2>4, ConnTypes, GrowBuffer
    <2>6. Follows(conn'[c], n) /\ n + Size(conn'[c]) = Len(events')
      BY <1>1, <1>2, <1>4, <2>2, <2>5 DEF Follows, Size
    <2>. QED BY <1>1, <1>2, <2>1, <2>6 DEF FollowInv
  <1>5. CASE c \notin subscribers /\ c \notin subscribers' /\ conn'[c] = conn[c] BY <1>3, <1>5
  <1>6. CASE c \in subscribers /\ c \notin subscribers' /\ conn'[c].buf = conn[c].buf BY <1>3, <1>6
  <1>. QED BY <1>4, <1>5, <1>6, EmitMakes

----------------------------------------------------------------------------
(* The readers *)

ReaderFields == [received : Seq(Names), lastID : Nat, slot : Slots \cup {NoSlot}]

(***************************************************************************)
(* An update of one reader.                                                *)
(***************************************************************************)
LEMMA ReaderUpdate ==
    ASSUME reader \in [Readers -> ReaderFields], NEW r \in Readers, NEW q \in ReaderFields,
           reader' = [reader EXCEPT ![r] = q]
    PROVE  /\ reader' \in [Readers -> ReaderFields]
           /\ reader'[r] = q
           /\ \A o \in Readers : o # r => reader'[o] = reader[o]
  OBVIOUS

(***************************************************************************)
(* A reader whose record and whose requests a step leaves alone.           *)
(***************************************************************************)
LEMMA OtherReader ==
    ASSUME TypeOK, NEW r \in Readers, ReaderInv(r),
           reader'[r] = reader[r], UNCHANGED events,
           \A s \in Slots : /\ conn'[<<r, s>>] = conn[<<r, s>>]
                            /\ <<r, s>> \in subscribers' <=> <<r, s>> \in subscribers
    PROVE  ReaderInv(r)'
  <1>1. /\ reader'[r].lastID = Len(reader'[r].received)
        /\ reader'[r].lastID <= Len(events')
    BY DEF ReaderInv
  <1>2. ASSUME reader'[r].slot # NoSlot
        PROVE  FollowInv(<<r, reader[r].slot>>, reader[r].lastID)'
    <2>1. PICK s \in Slots : s = reader[r].slot BY <1>2 DEF TypeOK
    <2>2. FollowInv(<<r, s>>, reader[r].lastID) BY <1>2, <2>1 DEF ReaderInv
    <2>3. conn'[<<r, s>>] = conn[<<r, s>>] /\ (<<r, s>> \in subscribers' <=> <<r, s>> \in subscribers)
      OBVIOUS
    <2>4. FollowInv(<<r, s>>, reader[r].lastID)' BY <2>2, <2>3 DEF FollowInv
    <2>. QED BY <2>1, <2>4
  <1>. QED BY <1>1, <1>2 DEF ReaderInv

(***************************************************************************)
(* The steps of a handler leave the invariant.                             *)
(***************************************************************************)
LEMMA HandlerKeeps ==
    ASSUME EventsInv, NEW c \in Conns, HandlerStep(c)
    PROVE  EventsInv'
  <1>. USE DEF EventsInv
  <1>1. Frame(c) /\ \A d \in Conns : ConnInv(d)' BY HandlerKeepsConn
  <1>2. TypeOK' BY <1>1 DEF Frame, TypeOK
  <1>3. LogInv' BY <1>1 DEF Frame, LogInv
  <1>4. ASSUME NEW r \in Readers PROVE ReaderInv(r)'
    <2>1. ReaderInv(r) /\ reader'[r] = reader[r] /\ UNCHANGED <<events, reader>> BY <1>1 DEF Frame
    <2>2. /\ reader'[r].lastID = Len(reader'[r].received)
          /\ reader'[r].lastID <= Len(events')
      BY <2>1 DEF ReaderInv
    <2>3. ASSUME reader'[r].slot # NoSlot
          PROVE  FollowInv(<<r, reader[r].slot>>, reader[r].lastID)'
      <3>1. PICK s \in Slots : s = reader[r].slot BY <2>1, <2>3 DEF TypeOK
      <3>2. PICK n \in Nat : n = reader[r].lastID BY DEF TypeOK
      <3>3. FollowInv(<<r, s>>, n) /\ n <= Len(events) BY <2>1, <2>3, <3>1, <3>2 DEF ReaderInv
      <3>4. <<r, s>> \in Conns BY DEF Conns
      <3>5. FollowInv(<<r, s>>, n)'
        <4>1. CASE c = <<r, s>> BY <3>3, <3>4, <4>1, HandlerKeepsFollow
        <4>2. CASE c # <<r, s>>
          <5>1. /\ conn'[<<r, s>>] = conn[<<r, s>>] /\ UNCHANGED events
                /\ <<r, s>> \in subscribers' <=> <<r, s>> \in subscribers
            BY <1>1, <3>4, <4>2 DEF Frame
          <5>. QED BY <3>3, <5>1 DEF FollowInv
        <4>. QED BY <4>1, <4>2
      <3>. QED BY <2>1, <3>1, <3>2, <3>5
    <2>. QED BY <2>2, <2>3 DEF ReaderInv
  <1>. QED BY <1>1, <1>2, <1>3, <1>4

(***************************************************************************)
(* Emitting an event leaves it.                                            *)
(***************************************************************************)
LEMMA EmitKeeps ==
    ASSUME EventsInv, Emit \/ EmitTerminal
    PROVE  EventsInv'
  <1>. USE DEF EventsInv
  <1>1. TypeOK' BY EmitAppends DEF TypeOK
  <1>2. LogInv'
    <2>1. /\ ~terminal /\ Len(events) \in Nat /\ Len(events') = Len(events) + 1
          /\ \A i \in 1..Len(events) : events'[i] = events[i]
          /\ ~terminal' => events'[Len(events) + 1] # "end"
      BY EmitAppends
    <2>2. \A i \in 1..Len(events) : events[i] # "end" BY <2>1 DEF LogInv
    <2>. QED BY <2>1, <2>2 DEF LogInv
  <1>3. \A c \in Conns : ConnInv(c)' BY EmitKeepsConn
  <1>4. ASSUME NEW r \in Readers PROVE ReaderInv(r)'
    <2>1. /\ ReaderInv(r) /\ UNCHANGED reader
          /\ Len(events) \in Nat /\ Len(events') = Len(events) + 1
      BY EmitAppends
    <2>2. PICK n \in Nat : n = reader[r].lastID BY DEF TypeOK
    <2>3. n = Len(reader'[r].received) /\ n <= Len(events') BY <2>1, <2>2 DEF ReaderInv
    <2>4. ASSUME reader'[r].slot # NoSlot
          PROVE  FollowInv(<<r, reader[r].slot>>, reader[r].lastID)'
      <3>1. PICK s \in Slots : s = reader[r].slot BY <2>1, <2>4 DEF TypeOK
      <3>2. FollowInv(<<r, s>>, n) BY <2>1, <2>2, <2>4, <3>1 DEF ReaderInv
      <3>3. <<r, s>> \in Conns BY DEF Conns
      <3>4. FollowInv(<<r, s>>, n)' BY <3>2, <3>3, EmitKeepsFollow
      <3>. QED BY <2>1, <2>2, <3>1, <3>4
    <2>. QED BY <2>1, <2>2, <2>3, <2>4 DEF ReaderInv
  <1>. QED BY <1>1, <1>2, <1>3, <1>4

(***************************************************************************)
(* A reader that connects leaves it.                                       *)
(***************************************************************************)
LEMMA ConnectKeeps ==
    ASSUME EventsInv, NEW r \in Readers, NEW s \in Slots, Connect(r, s)
    PROVE  EventsInv'
  <1>. USE DEF EventsInv
  <1>. DEFINE c == <<r, s>>
  <1>1. PICK n \in Nat : n = reader[r].lastID BY DEF TypeOK
  <1>2. /\ c \in Conns
        /\ conn' \in [Conns -> ConnFields]
        /\ \A d \in Conns : d # c => conn'[d] = conn[d]
        /\ conn[c].pc \in {"idle", "ended"} /\ conn'[c].pc = "accepted" /\ conn'[c].up
        /\ conn'[c].chan = "nil" /\ conn'[c].closes = 0
        /\ Untouched(conn'[c], n)
    BY <1>1, ConnectMakes DEF Conns
  <1>3. UNCHANGED <<events, terminal, doneClosed, subscribers, breaks>> BY DEF Connect, jobVars
  <1>4. /\ reader' \in [Readers -> ReaderFields]
        /\ reader'[r].slot = s /\ reader'[r].lastID = n
        /\ reader'[r].received = reader[r].received
        /\ \A o \in Readers : o # r => reader'[o] = reader[o]
    <2>1. reader \in [Readers -> ReaderFields] BY DEF TypeOK, ReaderFields
    <2>2. PICK q : q = [reader[r] EXCEPT !.slot = s] OBVIOUS
    <2>3. /\ q \in ReaderFields /\ q.slot = s /\ q.lastID = n
          /\ q.received = reader[r].received
      BY <1>1, <2>1, <2>2 DEF ReaderFields
    <2>4. reader' = [reader EXCEPT ![r] = q] BY <2>2 DEF Connect
    <2>. QED BY <2>1, <2>3, <2>4, ReaderUpdate
  <1>5. TypeOK' BY <1>2, <1>3, <1>4 DEF TypeOK, ReaderFields
  <1>6. LogInv' BY <1>3 DEF LogInv
  <1>7. Len(events) \in Nat /\ n <= Len(events) BY <1>1, ConnTypes, <1>2 DEF ReaderInv
  <1>8. c \notin subscribers' /\ conn'[c].lastSeen = n
    BY <1>2, <1>3 DEF ConnInv, Untouched
  <1>9. ASSUME NEW d \in Conns PROVE ConnInv(d)'
    <2>1. CASE d = c BY <1>2, <1>3, <1>7, <1>8, <2>1 DEF ConnInv
    <2>2. CASE d # c
      <3>1. conn'[d] = conn[d] /\ ConnInv(d) BY <1>2, <2>2
      <3>. QED BY <1>3, <3>1 DEF ConnInv
    <2>. QED BY <2>1, <2>2
  <1>10. FollowInv(c, n)'
    <2>1. Follows(conn'[c], n) /\ Size(conn'[c]) = 0
      <3>1. conn'[c].wire = <<>> /\ conn'[c].replay = <<>> /\ conn'[c].buf = <<>>
        BY <1>2 DEF Untouched
      <3>2. Windows(<<>>, <<>>, <<>>, n) BY DEF Windows, Window
      <3>3. Total(<<>>, <<>>, <<>>) = 0 BY DEF Total
      <3>. QED BY <3>1, <3>2, <3>3 DEF Follows, Size
    <2>. QED BY <1>2, <1>3, <1>7, <1>8, <2>1 DEF FollowInv
  <1>11. ReaderInv(r)'
    <2>1. n = Len(reader[r].received) BY <1>1 DEF ReaderInv
    <2>. QED BY <1>3, <1>4, <1>7, <1>10, <2>1 DEF ReaderInv
  <1>12. ASSUME NEW o \in Readers, o # r PROVE ReaderInv(o)'
    <2>1. ASSUME NEW t \in Slots PROVE conn'[<<o, t>>] = conn[<<o, t>>]
      <3>1. <<o, t>> \in Conns /\ <<o, t>> # c BY <1>12 DEF Conns
      <3>. QED BY <1>2, <3>1
    <2>. QED BY <1>3, <1>4, <1>12, <2>1, OtherReader
  <1>. QED BY <1>5, <1>6, <1>9, <1>11, <1>12

\* Reader r receives the event behind n, of that name, from its request c.
Receives(r, c, n, name) ==
    /\ n = reader[r].lastID /\ n = Len(reader[r].received)
    /\ Len(events) \in Nat /\ n + 1 <= Len(events)
    /\ name = events[n + 1]
    /\ reader' = [reader EXCEPT ![r] =
                    [received |-> Append(reader[r].received, name), lastID |-> n + 1,
                     slot |-> IF name = "end" THEN NoSlot ELSE c[2]]]
    /\ FollowInv(c, n)
    /\ Windows(Tail(conn[c].wire), conn[c].replay, conn[c].buf, n + 1)
    /\ n + 1 + Total(Tail(conn[c].wire), conn[c].replay, conn[c].buf) = n + Size(conn[c])

(***************************************************************************)
(* What a reader receives is the next event of the log.                    *)
(***************************************************************************)
LEMMA ReceivesNext ==
    ASSUME EventsInv, NEW r \in Readers, NEW s \in Slots, Receive(r, s)
    PROVE  \E n \in Nat, name \in Names : Receives(r, <<r, s>>, n, name)
  <1>. USE DEF EventsInv
  <1>1. PICK n \in Nat : n = reader[r].lastID BY DEF TypeOK
  <1>2. <<r, s>> \in Conns BY DEF Conns
  <1>3. reader[r].slot = s /\ s # NoSlot /\ conn[<<r, s>>].wire # <<>>
    BY SlotAssumption DEF Receive
  <1>4. FollowInv(<<r, s>>, n) /\ n = Len(reader[r].received) BY <1>1, <1>3 DEF ReaderInv
  <1>5. PICK wire, replay, buf :
           wire = conn[<<r, s>>].wire /\ replay = conn[<<r, s>>].replay /\ buf = conn[<<r, s>>].buf
    OBVIOUS
  <1>6. wire \in Seq(Ids) /\ replay \in Seq(Ids) /\ buf \in Seq(Ids) /\ wire # <<>>
    BY <1>2, <1>3, <1>5, ConnTypes
  <1>7. Windows(wire, replay, buf, n) /\ Total(wire, replay, buf) = Size(conn[<<r, s>>])
    BY <1>4, <1>5 DEF FollowInv, Follows, Size
  <1>8. /\ Head(wire) = n + 1
        /\ Windows(Tail(wire), replay, buf, n + 1)
        /\ n + 1 + Total(Tail(wire), replay, buf) = n + Total(wire, replay, buf)
        /\ n + 1 <= n + Total(wire, replay, buf)
    BY <1>6, <1>7, TakeWire
  <1>9. Len(events) \in Nat /\ Size(conn[<<r, s>>]) \in Nat BY <1>2, ConnTypes
  <1>10. n + 1 <= Len(events) BY <1>4, <1>7, <1>8, <1>9 DEF FollowInv
  <1>11. PICK name : name = events[n + 1] OBVIOUS
  <1>12. name \in Names
    <2>1. events \in Seq(Names) /\ n + 1 \in 1..Len(events) BY <1>9, <1>10 DEF TypeOK
    <2>. QED BY <1>11, <2>1
  <1>13. reader' = [reader EXCEPT ![r] =
                      [received |-> Append(reader[r].received, name), lastID |-> n + 1,
                       slot |-> IF name = "end" THEN NoSlot ELSE s]]
    BY <1>5, <1>8, <1>11 DEF Receive
  <1>. QED BY <1>1, <1>4, <1>5, <1>7, <1>8, <1>9, <1>10, <1>11, <1>12, <1>13 DEF Receives

(***************************************************************************)
(* A reader that receives an event leaves the invariant.                   *)
(***************************************************************************)
LEMMA ReceiveKeeps ==
    ASSUME EventsInv, NEW r \in Readers, NEW s \in Slots, Receive(r, s)
    PROVE  EventsInv'
  <1>. USE DEF EventsInv
  <1>. DEFINE c == <<r, s>>
  <1>0. PICK n \in Nat, name \in Names : Receives(r, c, n, name) BY ReceivesNext
  <1>1. /\ n = reader[r].lastID /\ n = Len(reader[r].received)
        /\ Len(events) \in Nat /\ n + 1 <= Len(events)
        /\ reader' = [reader EXCEPT ![r] =
                        [received |-> Append(reader[r].received, name), lastID |-> n + 1,
                         slot |-> IF name = "end" THEN NoSlot ELSE s]]
        /\ FollowInv(c, n)
        /\ Windows(Tail(conn[c].wire), conn[c].replay, conn[c].buf, n + 1)
        /\ n + 1 + Total(Tail(conn[c].wire), conn[c].replay, conn[c].buf) = n + Size(conn[c])
    BY <1>0 DEF Receives
  <1>2. /\ c \in Conns
        /\ conn' \in [Conns -> ConnFields]
        /\ \A d \in Conns : d # c => conn'[d] = conn[d]
        /\ HandlerKept(conn'[c], conn[c])
        /\ conn[c].wire # <<>>
        /\ conn'[c].wire = Tail(conn[c].wire)
        /\ (conn'[c].up /\ reader'[r].slot = s) \/ reader'[r].slot = NoSlot
    BY ReceiveMakes DEF Conns
  <1>3. UNCHANGED <<events, terminal, doneClosed, subscribers, breaks>> BY DEF Receive, jobVars
  <1>4. /\ reader' \in [Readers -> ReaderFields]
        /\ reader'[r].lastID = n + 1 /\ Len(reader'[r].received) = n + 1
        /\ \A o \in Readers : o # r => reader'[o] = reader[o]
    <2>1. reader \in [Readers -> ReaderFields] BY DEF TypeOK, ReaderFields
    <2>2. reader[r].received \in Seq(Names) BY <2>1 DEF ReaderFields
    <2>3. PICK longer \in Seq(Names) :
             longer = Append(reader[r].received, name) /\ Len(longer) = n + 1
      <3>1. PICK old \in Seq(Names) : old = reader[r].received BY <2>2
      <3>2. Len(old) = n BY <1>1, <3>1
      <3>3. Append(old, name) \in Seq(Names) /\ Len(Append(old, name)) = n + 1
        BY <3>2, AppendProperties
      <3>. QED BY <3>1, <3>3
    <2>4. PICK t \in Slots \cup {NoSlot} : t = IF name = "end" THEN NoSlot ELSE s OBVIOUS
    <2>5. PICK q : q = [received |-> longer, lastID |-> n + 1, slot |-> t] OBVIOUS
    <2>6. q \in ReaderFields /\ q.lastID = n + 1 /\ Len(q.received) = n + 1
      BY <1>1, <2>3, <2>4, <2>5 DEF ReaderFields
    <2>7. reader' = [reader EXCEPT ![r] = q] BY <1>1, <2>3, <2>4, <2>5
    <2>. QED BY <2>1, <2>6, <2>7, ReaderUpdate
  <1>5. TypeOK' BY <1>2, <1>3, <1>4 DEF TypeOK, ReaderFields
  <1>6. LogInv' BY <1>3 DEF LogInv
  <1>7. ASSUME NEW d \in Conns PROVE ConnInv(d)'
    <2>1. CASE d = c BY <1>2, <1>3, <2>1 DEF ConnInv, HandlerKept
    <2>2. CASE d # c
      <3>1. conn'[d] = conn[d] /\ ConnInv(d) BY <1>2, <2>2
      <3>. QED BY <1>3, <3>1 DEF ConnInv
    <2>. QED BY <2>1, <2>2
  <1>8. ASSUME conn'[c].up PROVE FollowInv(c, n + 1)'
    <2>1. /\ conn'[c].pc = conn[c].pc
          /\ conn'[c].replay = conn[c].replay /\ conn'[c].buf = conn[c].buf
      BY <1>2 DEF HandlerKept
    <2>2. conn[c].pc # "accepted" BY <1>1, <1>2 DEF FollowInv, Untouched
    <2>3. Follows(conn'[c], n + 1) /\ n + 1 + Size(conn'[c]) = n + Size(conn[c])
      BY <1>1, <1>2, <2>1 DEF Follows, Size
    <2>. QED BY <1>1, <1>3, <1>8, <2>1, <2>2, <2>3 DEF FollowInv
  <1>9. ReaderInv(r)'
    <2>1. /\ reader'[r].lastID = Len(reader'[r].received)
          /\ reader'[r].lastID <= Len(events')
      BY <1>1, <1>3, <1>4
    <2>2. ASSUME reader'[r].slot # NoSlot
          PROVE  FollowInv(<<r, reader[r].slot>>, reader[r].lastID)'
      BY <1>2, <1>4, <1>8, <2>2
    <2>. QED BY <2>1, <2>2 DEF ReaderInv
  <1>10. ASSUME NEW o \in Readers, o # r PROVE ReaderInv(o)'
    <2>1. ASSUME NEW t \in Slots PROVE conn'[<<o, t>>] = conn[<<o, t>>]
      <3>1. <<o, t>> \in Conns /\ <<o, t>> # c BY <1>10 DEF Conns
      <3>. QED BY <1>2, <3>1
    <2>. QED BY <1>3, <1>4, <1>10, <2>1, OtherReader
  <1>. QED BY <1>5, <1>6, <1>7, <1>9, <1>10

(***************************************************************************)
(* A reader that has no connection any more leaves it.                     *)
(***************************************************************************)
LEMMA DisconnectKeeps ==
    ASSUME EventsInv, NEW r \in Readers, NEW s \in Slots, SeeEnd(r, s) \/ Break(r, s)
    PROVE  EventsInv'
  <1>. USE DEF EventsInv
  <1>. DEFINE c == <<r, s>>
  <1>1. /\ c \in Conns
        /\ conn' \in [Conns -> ConnFields]
        /\ \A d \in Conns : d # c => conn'[d] = conn[d]
        /\ HandlerKept(conn'[c], conn[c])
    <2>1. CASE SeeEnd(r, s) BY <2>1 DEF SeeEnd, TypeOK, HandlerKept, Conns
    <2>2. CASE Break(r, s) BY <2>2, BreakMakes DEF Conns
    <2>. QED BY <2>1, <2>2
  <1>2. UNCHANGED <<events, terminal, doneClosed, subscribers>> /\ breaks' \in Nat
    BY DEF SeeEnd, Break, jobVars, TypeOK
  <1>3. /\ reader' \in [Readers -> ReaderFields]
        /\ reader'[r].slot = NoSlot /\ reader'[r].lastID = reader[r].lastID
        /\ reader'[r].received = reader[r].received
        /\ \A o \in Readers : o # r => reader'[o] = reader[o]
    <2>1. reader \in [Readers -> ReaderFields] BY DEF TypeOK, ReaderFields
    <2>2. PICK q : q = [reader[r] EXCEPT !.slot = NoSlot] OBVIOUS
    <2>3. /\ q \in ReaderFields /\ q.slot = NoSlot /\ q.lastID = reader[r].lastID
          /\ q.received = reader[r].received
      BY <2>1, <2>2 DEF ReaderFields
    <2>4. reader' = [reader EXCEPT ![r] = q] BY <2>2 DEF SeeEnd, Break
    <2>. QED BY <2>1, <2>3, <2>4, ReaderUpdate
  <1>4. TypeOK' BY <1>1, <1>2, <1>3 DEF TypeOK, ReaderFields
  <1>5. LogInv' BY <1>2 DEF LogInv
  <1>6. ASSUME NEW d \in Conns PROVE ConnInv(d)'
    <2>1. CASE d = c BY <1>1, <1>2, <2>1 DEF ConnInv, HandlerKept
    <2>2. CASE d # c
      <3>1. conn'[d] = conn[d] /\ ConnInv(d) BY <1>1, <2>2
      <3>. QED BY <1>2, <3>1 DEF ConnInv
    <2>. QED BY <2>1, <2>2
  <1>7. ReaderInv(r)' BY <1>2, <1>3 DEF ReaderInv
  <1>8. ASSUME NEW o \in Readers, o # r PROVE ReaderInv(o)'
    <2>1. ASSUME NEW t \in Slots PROVE conn'[<<o, t>>] = conn[<<o, t>>]
      <3>1. <<o, t>> \in Conns /\ <<o, t>> # c BY <1>8 DEF Conns
      <3>. QED BY <1>1, <3>1
    <2>. QED BY <1>2, <1>3, <1>8, <2>1, OtherReader
  <1>. QED BY <1>4, <1>5, <1>6, <1>7, <1>8

----------------------------------------------------------------------------
(* The theorems *)

(***************************************************************************)
(* The initial states satisfy the invariant.                               *)
(***************************************************************************)
LEMMA InitEvents ==
    ASSUME Init PROVE EventsInv
  <1>1. PICK nothing \in Seq(Ids) : nothing = <<>> BY EmptySeq
  <1>2. PICK k : k = NewConn OBVIOUS
  <1>3. k = [pc |-> "idle", lastSeen |-> 0, replay |-> nothing, chan |-> "nil",
             buf |-> nothing, closes |-> 0, up |-> FALSE, wire |-> nothing]
    BY <1>1, <1>2 DEF NewConn
  <1>4. k \in ConnFields BY <1>3 DEF ConnFields, Ids
  <1>5. conn \in [Conns -> ConnFields] /\ \A c \in Conns : conn[c] = k
    BY <1>2, <1>4 DEF Init
  <1>6. PICK none \in Seq(Names) : none = <<>> /\ Len(none) = 0 BY EmptySeq
  <1>7. PICK q : q = [received |-> none, lastID |-> 0, slot |-> NoSlot] OBVIOUS
  <1>8. q \in ReaderFields BY <1>7 DEF ReaderFields
  <1>9. reader \in [Readers -> ReaderFields] /\ \A r \in Readers : reader[r] = q
    BY <1>6, <1>7, <1>8 DEF Init
  <1>10. events = none /\ terminal = FALSE /\ doneClosed = FALSE /\ subscribers = {} /\ breaks = 0
    BY <1>6 DEF Init
  <1>11. TypeOK BY <1>5, <1>9, <1>10 DEF TypeOK, ReaderFields
  <1>12. LogInv BY <1>6, <1>10 DEF LogInv
  <1>13. \A c \in Conns : ConnInv(c) BY <1>3, <1>5, <1>6, <1>10 DEF ConnInv
  <1>14. \A r \in Readers : ReaderInv(r) BY <1>6, <1>7, <1>9, <1>10 DEF ReaderInv
  <1>. QED BY <1>11, <1>12, <1>13, <1>14 DEF EventsInv

(***************************************************************************)
(* The last step of the turn, and a step that changes nothing, leave it.   *)
(***************************************************************************)
LEMMA QuietKeeps ==
    ASSUME EventsInv, UNCHANGED <<events, terminal, subscribers, conn, reader, breaks>>,
           doneClosed' \in BOOLEAN
    PROVE  EventsInv'
  <1>1. TypeOK' BY DEF EventsInv, TypeOK
  <1>2. LogInv' BY DEF EventsInv, LogInv
  <1>3. \A c \in Conns : ConnInv(c)' BY DEF EventsInv, ConnInv
  <1>4. \A r \in Readers : ReaderInv(r)' BY DEF EventsInv, ReaderInv, FollowInv
  <1>. QED BY <1>1, <1>2, <1>3, <1>4 DEF EventsInv

(***************************************************************************)
(* Every step leaves it.                                                   *)
(***************************************************************************)
LEMMA NextKeeps ==
    ASSUME EventsInv, [Next]_vars PROVE EventsInv'
  <1>1. CASE Emit \/ EmitTerminal BY <1>1, EmitKeeps
  <1>2. CASE Finish BY <1>2, QuietKeeps DEF Finish
  <1>3. CASE \E c \in Conns : HandlerStep(c) BY <1>3, HandlerKeeps
  <1>4. CASE \E r \in Readers, s \in Slots : Connect(r, s) BY <1>4, ConnectKeeps
  <1>5. CASE \E r \in Readers, s \in Slots : Receive(r, s) BY <1>5, ReceiveKeeps
  <1>6. CASE \E r \in Readers, s \in Slots : SeeEnd(r, s) \/ Break(r, s)
    BY <1>6, DisconnectKeeps
  <1>7. CASE UNCHANGED vars BY <1>7, QuietKeeps DEF vars, EventsInv, TypeOK
  <1>. QED BY <1>1, <1>2, <1>3, <1>4, <1>5, <1>6, <1>7 DEF Next, JobStep, ReaderStep

(***************************************************************************)
(* The invariant holds of the event log and its subscribers.               *)
(***************************************************************************)
THEOREM EventsInvariant == Spec => []EventsInv
  <1>1. Init => EventsInv BY InitEvents
  <1>2. EventsInv /\ [Next]_vars => EventsInv' BY NextKeeps
  <1>. QED BY <1>1, <1>2, PTL DEF Spec

(***************************************************************************)
(* Every variable holds a value of its type.                               *)
(***************************************************************************)
THEOREM TypeCorrect == Spec => []TypeOK
  <1>1. EventsInv => TypeOK BY DEF EventsInv
  <1>. QED BY <1>1, EventsInvariant, PTL

(***************************************************************************)
(* emit, emitTerminal and unsubscribe never close a channel twice, nor     *)
(* send on a closed one, and none stays open behind its handler.           *)
(***************************************************************************)
THEOREM ChannelsAreAlwaysClosedOnce == Spec => []ChannelsAreClosedOnce
  <1>1. EventsInv => ChannelsAreClosedOnce BY DEF EventsInv, ConnInv, ChannelsAreClosedOnce
  <1>. QED BY <1>1, EventsInvariant, PTL

(***************************************************************************)
(* Windows one behind the other are one window.                            *)
(***************************************************************************)
LEMMA JoinWindows ==
    ASSUME NEW wire \in Seq(Ids), NEW replay \in Seq(Ids), NEW buf \in Seq(Ids), NEW n \in Nat,
           Windows(wire, replay, buf, n)
    PROVE  /\ Len(wire \o replay \o buf) = Total(wire, replay, buf)
           /\ Window(wire \o replay \o buf, n)
  <1>1. Len(wire) \in Nat /\ Len(replay) \in Nat /\ Len(buf) \in Nat BY LenProperties
  <1>2. PICK front : front = wire \o replay OBVIOUS
  <1>3. /\ front \in Seq(Ids) /\ Len(front) = Len(wire) + Len(replay)
        /\ \A i \in 1..(Len(wire) + Len(replay)) :
              front[i] = IF i <= Len(wire) THEN wire[i] ELSE replay[i - Len(wire)]
    BY <1>2, ConcatProperties
  <1>4. ASSUME NEW i \in 1..Len(front) PROVE front[i] = n + i
    <2>1. CASE i <= Len(wire)
      <3>1. i \in 1..Len(wire) /\ front[i] = wire[i] BY <1>1, <1>3, <2>1
      <3>. QED BY <3>1 DEF Windows, Window
    <2>2. CASE i > Len(wire)
      <3>1. i - Len(wire) \in 1..Len(replay) /\ front[i] = replay[i - Len(wire)]
        BY <1>1, <1>3, <2>2
      <3>2. replay[i - Len(wire)] = n + Len(wire) + (i - Len(wire)) BY <3>1 DEF Windows, Window
      <3>. QED BY <1>1, <3>1, <3>2
    <2>. QED BY <1>1, <1>3, <2>1, <2>2
  <1>5. PICK whole : whole = front \o buf OBVIOUS
  <1>6. /\ Len(whole) = Len(front) + Len(buf)
        /\ \A i \in 1..(Len(front) + Len(buf)) :
              whole[i] = IF i <= Len(front) THEN front[i] ELSE buf[i - Len(front)]
    <2>1. front \in Seq(Ids) BY <1>3
    <2>. QED BY <1>5, <2>1, ConcatProperties
  <1>7. Window(buf, n + Len(front))
    <2>1. n + Len(front) = n + Len(wire) + Len(replay) BY <1>1, <1>3
    <2>. QED BY <2>1 DEF Windows
  <1>8. Len(front) \in Nat BY <1>1, <1>3
  <1>9. ASSUME NEW i \in 1..Len(whole) PROVE whole[i] = n + i
    <2>1. CASE i <= Len(front)
      <3>1. i \in 1..Len(front) /\ whole[i] = front[i] BY <1>1, <1>6, <1>8, <2>1
      <3>. QED BY <1>4, <3>1
    <2>2. CASE i > Len(front)
      <3>1. i - Len(front) \in 1..Len(buf) /\ whole[i] = buf[i - Len(front)]
        BY <1>1, <1>6, <1>8, <2>2
      <3>2. buf[i - Len(front)] = n + Len(front) + (i - Len(front)) BY <1>7, <3>1 DEF Window
      <3>. QED BY <1>8, <3>1, <3>2
    <2>. QED BY <1>1, <1>6, <1>8, <2>1, <2>2
  <1>10. Len(whole) = Total(wire, replay, buf) BY <1>1, <1>3, <1>6 DEF Total
  <1>. QED BY <1>2, <1>5, <1>9, <1>10 DEF Window

(***************************************************************************)
(* However requests overlap, break and are repeated: what a reader has yet *)
(* to receive on its connection continues what it received without a gap   *)
(* or a repetition, and reaches the end of the log while it is subscribed. *)
(***************************************************************************)
THEOREM ReplayAlwaysMeetsChannel == Spec => []ReplayMeetsChannel
  <1>1. ASSUME EventsInv PROVE ReplayMeetsChannel
    <2>1. TypeOK BY <1>1 DEF EventsInv
    <2>2. ASSUME NEW r \in Readers, NEW s \in Slots, s = reader[r].slot, s # NoSlot
          PROVE  /\ \A i \in 1..Len(Pending(<<r, s>>)) : Pending(<<r, s>>)[i] = reader[r].lastID + i
                 /\ <<r, s>> \in subscribers =>
                       reader[r].lastID + Len(Pending(<<r, s>>)) = Len(events)
      <3>1. PICK n \in Nat : n = reader[r].lastID BY <2>1 DEF TypeOK
      <3>2. FollowInv(<<r, s>>, n) BY <1>1, <2>2, <3>1 DEF EventsInv, ReaderInv
      <3>3. <<r, s>> \in Conns BY DEF Conns
      <3>4. PICK wire \in Seq(Ids), replay \in Seq(Ids), buf \in Seq(Ids) :
               /\ wire = conn[<<r, s>>].wire
               /\ replay = conn[<<r, s>>].replay
               /\ buf = conn[<<r, s>>].buf
        BY <2>1, <3>3, ConnTypes
      <3>5. Windows(wire, replay, buf, n) /\ Size(conn[<<r, s>>]) = Total(wire, replay, buf)
        BY <3>2, <3>4 DEF FollowInv, Follows, Size
      <3>6. PICK pending : pending = wire \o replay \o buf OBVIOUS
      <3>7. Len(pending) = Total(wire, replay, buf) /\ Window(pending, n)
        BY <3>5, <3>6, JoinWindows
      <3>8. Pending(<<r, s>>) = pending BY <3>4, <3>6 DEF Pending
      <3>9. <<r, s>> \in subscribers => n + Len(pending) = Len(events)
        BY <3>2, <3>5, <3>7 DEF FollowInv
      <3>. QED BY <3>1, <3>7, <3>8, <3>9 DEF Window
    <2>3. \A r \in Readers : reader[r].slot \in Slots \cup {NoSlot} BY <2>1 DEF TypeOK
    <2>. QED BY <2>1, <2>2, <2>3 DEF ReplayMeetsChannel
  <1>. QED BY <1>1, EventsInvariant, PTL

(***************************************************************************)
(* The log and what its readers received are the event feed: events are    *)
(* appended up to the terminal one and none behind it, and each reader     *)
(* reads the next event, never another, however often it connects again.   *)
(***************************************************************************)
THEOREM TurnEventsImplementFeed == Spec => Feed!FeedSpec
  <1>1. Init => Feed!FeedInit BY DEF Init, Feed!FeedInit
  <1>2. ASSUME EventsInv, [Next]_vars PROVE [Feed!FeedNext]_(Feed!feedVars)
    <2>1. CASE Emit \/ EmitTerminal
      <3>1. TypeOK /\ LogInv BY <1>2 DEF EventsInv
      <3>2. /\ ~terminal /\ Len(events) < MaxEvents /\ UNCHANGED reader
            /\ \E name \in Names : events' = Append(events, name)
        BY <2>1, <3>1, EmitAppends
      <3>3. events \in Seq(Names) BY <3>1 DEF TypeOK
      <3>4. \A i \in DOMAIN events : events[i] # "end" BY <3>1, <3>2, <3>3 DEF LogInv
      <3>5. Feed!Grow BY <3>2, <3>4 DEF Feed!Grow
      <3>. QED BY <3>5 DEF Feed!FeedNext
    <2>2. CASE \E r \in Readers, s \in Slots : Receive(r, s)
      <3>1. PICK r \in Readers, s \in Slots : Receive(r, s) BY <2>2
      <3>0. PICK n \in Nat, name \in Names : Receives(r, <<r, s>>, n, name)
        BY <1>2, <3>1, ReceivesNext
      <3>2. /\ n = Len(reader[r].received)
            /\ Len(events) \in Nat /\ n + 1 <= Len(events)
            /\ name = events[n + 1]
            /\ reader' = [reader EXCEPT ![r] =
                            [received |-> Append(reader[r].received, name), lastID |-> n + 1,
                             slot |-> IF name = "end" THEN NoSlot ELSE s]]
        BY <3>0 DEF Receives
      <3>3. UNCHANGED events BY <3>1 DEF Receive, jobVars
      <3>4. PICK got : got = [o \in Readers |-> reader[o].received] OBVIOUS
      <3>5. [o \in Readers |-> reader'[o].received]
              = [got EXCEPT ![r] = Append(got[r], events[Len(got[r]) + 1])]
        <4>1. reader \in [Readers -> ReaderFields] BY <1>2 DEF EventsInv, TypeOK, ReaderFields
        <4>2. got[r] = reader[r].received /\ Len(got[r]) = n BY <3>2, <3>4
        <4>3. PICK q : q = [received |-> Append(reader[r].received, name), lastID |-> n + 1,
                            slot |-> IF name = "end" THEN NoSlot ELSE s]
          OBVIOUS
        <4>4. q.received = Append(got[r], events[Len(got[r]) + 1]) BY <3>2, <4>2, <4>3
        <4>5. reader' = [reader EXCEPT ![r] = q] BY <3>2, <4>3
        <4>6. \A o \in Readers :
                 reader'[o].received = IF o = r THEN Append(got[r], events[Len(got[r]) + 1]) ELSE got[o]
          BY <3>4, <4>1, <4>4, <4>5
        <4>. QED BY <3>4, <4>6
      <3>6. Len(got[r]) < Len(events) BY <3>2, <3>4
      <3>7. Feed!Read(r) BY <3>3, <3>4, <3>5, <3>6 DEF Feed!Read
      <3>. QED BY <3>7 DEF Feed!FeedNext
    <2>3. CASE /\ UNCHANGED events
               /\ \A r \in Readers : reader'[r].received = reader[r].received
      BY <2>3 DEF Feed!feedVars
    <2>4. CASE Finish BY <2>3, <2>4 DEF Finish
    <2>5. CASE \E c \in Conns : HandlerStep(c)
      <3>1. UNCHANGED <<events, reader>>
        BY <2>5 DEF HandlerStep, Subscribe, WriteReplay, Serve, Unsubscribe, jobVars
      <3>. QED BY <2>3, <3>1
    <2>6. CASE \E r \in Readers, s \in Slots : Connect(r, s) \/ SeeEnd(r, s) \/ Break(r, s)
      <3>1. PICK r \in Readers, s \in Slots : Connect(r, s) \/ SeeEnd(r, s) \/ Break(r, s)
        BY <2>6
      <3>2. PICK t \in Slots \cup {NoSlot} : reader' = [reader EXCEPT ![r].slot = t]
        BY <3>1 DEF Connect, SeeEnd, Break
      <3>3. reader \in [Readers -> ReaderFields] BY <1>2 DEF EventsInv, TypeOK, ReaderFields
      <3>4. \A o \in Readers : reader'[o].received = reader[o].received
        BY <3>2, <3>3 DEF ReaderFields
      <3>5. UNCHANGED events BY <3>1 DEF Connect, SeeEnd, Break, jobVars
      <3>. QED BY <2>3, <3>4, <3>5
    <2>7. CASE UNCHANGED vars BY <2>3, <2>7 DEF vars
    <2>. QED BY <1>2, <2>1, <2>2, <2>4, <2>5, <2>6, <2>7 DEF Next, JobStep, ReaderStep
  <1>. QED BY <1>1, <1>2, EventsInvariant, PTL DEF Spec, Feed!FeedSpec

=============================================================================
