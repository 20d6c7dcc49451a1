-------------------------- MODULE TranscriptProofs --------------------------
(***************************************************************************)
(* What the modules about conversations need to know of Transcript: the    *)
(* positions a turn may replace from, and what a committed turn leaves.    *)
(***************************************************************************)
EXTENDS Transcript, SequenceTheorems, TLAPS

(***************************************************************************)
(* What an append and a replaced tail leave is a sequence of messages.     *)
(***************************************************************************)
LEMMA WithTurnType ==
    ASSUME NEW msgs \in Seq(Message), NEW replace \in BOOLEAN, NEW keep \in Nat,
           replace => keep <= Len(msgs),
           NEW t \in Turns, NEW reply \in Message
    PROVE  WithTurn(msgs, replace, keep, t, reply) \in Seq(Message)
<1> DEFINE kept == IF replace THEN SubSeq(msgs, 1, keep) ELSE msgs
<1>1. kept \in Seq(Message)
  <2>1. CASE replace
    <3>1. keep \in 0..Len(msgs) BY <2>1
    <3>2. \A i \in 1..keep : msgs[i] \in Message
      BY <3>1, ElementOfSeq
    <3>3. SubSeq(msgs, 1, keep) \in Seq(Message)
      BY <3>1, <3>2
    <3> QED BY <2>1, <3>3
  <2>2. CASE ~replace BY <2>2
  <2> QED BY <2>1, <2>2
<1>2. Prompt(t) \in Message BY DEF Prompt, Message
<1>3. <<Prompt(t), reply>> \in Seq(Message) BY <1>2
<1> HIDE DEF kept
<1>4. kept \o <<Prompt(t), reply>> \in Seq(Message) BY <1>1, <1>3
<1> QED BY <1>4 DEF WithTurn, kept

(***************************************************************************)
(* An index that is valid for a transcript keeps whole turns.              *)
(***************************************************************************)
LEMMA KeptIsEven ==
    ASSUME NEW msgs \in Seq(Message), IsTranscript(msgs),
           NEW from \in Int \cup {NoIndex}, ValidReplaceFrom(msgs, from)
    PROVE  /\ KeepFor(msgs, from) \in 0..Len(msgs)
           /\ KeepFor(msgs, from) % 2 = 0
<1>0. Len(msgs) \in Nat /\ Len(msgs) % 2 = 0 BY DEF IsTranscript
<1>1. CASE from = NoIndex
  BY <1>0, <1>1 DEF KeepFor
<1>2. CASE from # NoIndex
  <2>1. from \in 0..Len(msgs) /\ KeepFor(msgs, from) = from
    BY <1>2 DEF ValidReplaceFrom, KeepFor
  <2>2. CASE from = Len(msgs) BY <1>0, <2>1, <2>2
  <2>3. CASE from < Len(msgs)
    <3>1. msgs[from + 1].role = "user" BY <1>2, <2>3 DEF ValidReplaceFrom
    <3>2. from + 1 \in 1..Len(msgs) BY <2>1, <2>3, <1>0
    <3>3. (from + 1) % 2 = 1 BY <3>1, <3>2 DEF IsTranscript
    <3>4. from % 2 = 0 BY <3>3, <2>1
    <3> QED BY <2>1, <3>4
  <2> QED BY <2>1, <2>2, <2>3, <1>0
<1> QED BY <1>1, <1>2

(***************************************************************************)
(* A turn written after whole turns leaves a transcript.                   *)
(***************************************************************************)
LEMMA WithTurnTranscript ==
    ASSUME NEW msgs \in Seq(Message), IsTranscript(msgs),
           NEW replace \in BOOLEAN, NEW keep \in Nat,
           replace => keep <= Len(msgs) /\ keep % 2 = 0,
           NEW t \in Turns, NEW parts \in Nat, NEW completed \in BOOLEAN
    PROVE  IsTranscript(WithTurn(msgs, replace, keep, t, Reply(t, parts, completed)))
<1> DEFINE n == IF replace THEN keep ELSE Len(msgs)
           reply == Reply(t, parts, completed)
           kept == IF replace THEN SubSeq(msgs, 1, keep) ELSE msgs
           all == kept \o <<Prompt(t), reply>>
<1>0. Len(msgs) \in Nat /\ Len(msgs) % 2 = 0 BY DEF IsTranscript
<1>1. n \in Nat /\ n <= Len(msgs) /\ n % 2 = 0
  <2>1. CASE replace BY <1>0, <2>1
  <2>2. CASE ~replace BY <1>0, <2>2
  <2> QED BY <2>1, <2>2
<1>2. Len(kept) = n /\ \A i \in 1..n : kept[i] = msgs[i]
  BY <1>1
<1>2a. kept \in Seq(Message)
  <2>1. \A i \in 1..n : msgs[i] \in Message BY <1>1, ElementOfSeq
  <2> QED BY <2>1, <1>1
<1>3. Prompt(t) \in Message /\ reply \in Message
  BY DEF Prompt, Reply, Message
<1> HIDE DEF kept, n, reply
<1>4. /\ Len(all) = n + 2
      /\ \A i \in 1..n : all[i] = msgs[i]
      /\ all[n + 1] = Prompt(t)
      /\ all[n + 2] = reply
  <2> DEFINE pair == <<Prompt(t), reply>>
  <2>1. pair \in Seq(Message) /\ Len(pair) = 2 /\ pair[1] = Prompt(t) /\ pair[2] = reply
    BY <1>3
  <2> HIDE DEF pair
  <2>2. /\ Len(kept \o pair) = n + 2
        /\ \A i \in 1..(n + 2) : (kept \o pair)[i] = IF i <= n THEN kept[i] ELSE pair[i - n]
    <3>1. /\ Len(kept \o pair) = Len(kept) + Len(pair)
          /\ \A i \in 1..(Len(kept) + Len(pair)) :
                (kept \o pair)[i] = IF i <= Len(kept) THEN kept[i] ELSE pair[i - Len(kept)]
      BY <1>2a, <2>1, ConcatProperties
    <3> QED BY <1>2, <2>1, <3>1
  <2>3. n + 1 \in 1..(n + 2) /\ n + 2 \in 1..(n + 2) /\ \A i \in 1..n : i \in 1..(n + 2) BY <1>1
  <2>4. (n + 1) - n = 1 /\ (n + 2) - n = 2 /\ ~(n + 1 <= n) /\ ~(n + 2 <= n) BY <1>1
  <2> QED BY <1>1, <1>2, <2>1, <2>2, <2>3, <2>4 DEF pair
<1> HIDE DEF all
<1>5. Len(all) % 2 = 0 BY <1>1, <1>4
<1>6. ASSUME NEW i \in 1..Len(all)
      PROVE  /\ (all[i].role = "user") <=> (i % 2 = 1)
             /\ i % 2 = 1 => all[i + 1].turn = all[i].turn
  <2>1. CASE i \in 1..n
    <3>1. i \in 1..Len(msgs) /\ all[i] = msgs[i] BY <1>1, <1>4, <2>1
    <3>2. i % 2 = 1 => i + 1 \in 1..n BY <1>1, <2>1
    <3>3. i % 2 = 1 => all[i + 1] = msgs[i + 1] BY <3>2, <1>4
    <3> QED BY <3>1, <3>3 DEF IsTranscript
  <2>2. CASE i = n + 1
    <3>1. i % 2 = 1 BY <1>1, <2>2
    <3>2. all[i] = Prompt(t) /\ all[i + 1] = reply BY <1>1, <1>4, <2>2
    <3> QED BY <3>1, <3>2 DEF Prompt, Reply, reply
  <2>3. CASE i = n + 2
    <3>1. i % 2 # 1 BY <1>1, <2>3
    <3>2. all[i] = reply BY <1>1, <1>4, <2>3
    <3> QED BY <3>1, <3>2 DEF Reply, reply
  <2> QED BY <1>1, <1>4, <2>1, <2>2, <2>3
<1>7. IsTranscript(all) BY <1>5, <1>6 DEF IsTranscript
<1> QED BY <1>7 DEF WithTurn, all, kept, reply

(***************************************************************************)
(* A turn is written behind the messages it keeps, or behind all of them.  *)
(***************************************************************************)
LEMMA WithTurnShape ==
    ASSUME NEW msgs \in Seq(Message), NEW replace \in BOOLEAN, NEW keep \in Nat,
           NEW n \in Nat, replace => n = keep, ~replace => n = Len(msgs),
           NEW t, NEW reply
    PROVE  WithTurn(msgs, replace, keep, t, reply)
             = SubSeq(msgs, 1, n) \o <<Prompt(t), reply>>
<1>1. (IF replace THEN SubSeq(msgs, 1, keep) ELSE msgs) = SubSeq(msgs, 1, n)
  <2>1. CASE replace BY <2>1
  <2>2. CASE ~replace BY <2>2, SubSeqFull
  <2> QED BY <2>1, <2>2
<1> QED BY <1>1, Zenon DEF WithTurn

LEMMA ReplyType ==
    ASSUME NEW t \in Turns, NEW parts \in Nat, NEW completed \in BOOLEAN
    PROVE  Reply(t, parts, completed) \in Message
BY DEF Reply, Message

(***************************************************************************)
(* A turn written after a kept prefix: the prefix, the prompt and the      *)
(* reply.                                                                  *)
(***************************************************************************)
LEMMA TurnAtEnd ==
    ASSUME NEW msgs \in Seq(Message), NEW keep \in 0..Len(msgs), NEW t \in Turns,
           NEW reply \in Message,
           NEW all, all = SubSeq(msgs, 1, keep) \o <<Prompt(t), reply>>
    PROVE  /\ all \in Seq(Message)
           /\ Len(all) = keep + 2
           /\ \A i \in 1..keep : all[i] = msgs[i]
           /\ all[keep + 1] = Prompt(t)
           /\ all[keep + 2] = reply
<1> DEFINE kept == SubSeq(msgs, 1, keep)
<1>1. \A i \in 1..keep : msgs[i] \in Message BY ElementOfSeq
<1>2. kept \in Seq(Message) /\ Len(kept) = keep /\ \A i \in 1..keep : kept[i] = msgs[i]
  BY <1>1
<1>3. Prompt(t) \in Message BY DEF Prompt, Message
<1>4. all = kept \o <<Prompt(t), reply>> OBVIOUS
<1> HIDE DEF kept
<1>5. <<Prompt(t), reply>> \in Seq(Message) /\ Len(<<Prompt(t), reply>>) = 2
  BY <1>3
<1>6. all \in Seq(Message) BY <1>2, <1>4, <1>5, ConcatProperties
<1>7. /\ Len(all) = keep + 2
      /\ \A i \in 1..keep : all[i] = kept[i]
      /\ all[keep + 1] = Prompt(t)
      /\ all[keep + 2] = reply
  BY <1>2, <1>3, <1>4
<1> QED BY <1>2, <1>6, <1>7

(***************************************************************************)
(* The same as one predicate, which a proof expands where it needs it.     *)
(***************************************************************************)
AtEnd(msgs, keep, t, reply) == SubSeq(msgs, 1, keep) \o <<Prompt(t), reply>>

EndsWithTurn(all, msgs, keep, t, reply) ==
    /\ all \in Seq(Message)
    /\ Len(all) = keep + 2
    /\ \A i \in 1..keep : all[i] = msgs[i]
    /\ all[keep + 1] = Prompt(t)
    /\ all[keep + 2] = reply

LEMMA AtEndShape ==
    ASSUME NEW msgs \in Seq(Message), NEW keep \in 0..Len(msgs), NEW t \in Turns,
           NEW reply \in Message
    PROVE  EndsWithTurn(AtEnd(msgs, keep, t, reply), msgs, keep, t, reply)
<1>1. PICK all : all = SubSeq(msgs, 1, keep) \o <<Prompt(t), reply>> OBVIOUS
<1>2. EndsWithTurn(all, msgs, keep, t, reply) BY <1>1, TurnAtEnd, SMTT(60) DEF EndsWithTurn
<1>3. all = AtEnd(msgs, keep, t, reply) BY <1>1, Zenon DEF AtEnd
<1> QED BY <1>2, <1>3, Zenon

LEMMA AppendAtEnd ==
    ASSUME NEW msgs \in Seq(Message), NEW keep, NEW t, NEW reply
    PROVE  WithTurn(msgs, FALSE, keep, t, reply) = AtEnd(msgs, Len(msgs), t, reply)
<1>1. SubSeq(msgs, 1, Len(msgs)) = msgs BY SubSeqFull
<1> QED BY <1>1, Zenon DEF WithTurn, AtEnd

LEMMA ReplaceAtEnd ==
    ASSUME NEW msgs, NEW keep, NEW t, NEW reply
    PROVE  WithTurn(msgs, TRUE, keep, t, reply) = AtEnd(msgs, keep, t, reply)
BY Zenon DEF WithTurn, AtEnd
=============================================================================
