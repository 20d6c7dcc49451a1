----------------------- MODULE SharedConversationProofs ---------------------
(***************************************************************************)
(* Proofs about a conversation that several sessions share                 *)
(* (SharedConversation), for any number of sessions, processes and turns,  *)
(* any history and any replace_from.                                       *)
(***************************************************************************)
EXTENDS SharedConversation, TranscriptProofs, FiniteSetTheorems

(***************************************************************************)
(* Rows numbered 1, 2, ... without a gap are read back as they are, and    *)
(* MAX(sequence) and COUNT are their number.                               *)
(***************************************************************************)
LEMMA RowsAsSequence ==
    ASSUME NEW rows \in Seq(Message)
    PROVE  /\ Messages(rows) = rows
           /\ LastSequence(rows) = Len(rows)
           /\ Cardinality(DOMAIN rows) = Len(rows)
<1> DEFINE n == Len(rows)
           Upto(k) == Cardinality({m \in DOMAIN rows : m <= k})
           Nth(i) == CHOOSE k \in DOMAIN rows : Upto(k) = i
<1>1. n \in Nat /\ DOMAIN rows = 1..n /\ rows \in [1..n -> Message] BY LenProperties
<1> HIDE DEF n
<1>2. \A k \in 0..n : Cardinality(1..k) = k
  <2> SUFFICES ASSUME NEW k \in 0..n PROVE Cardinality(1..k) = k OBVIOUS
  <2>1. 1 \in Int /\ k \in Int BY <1>1
  <2>2. Cardinality(1..k) = IF 1 > k THEN 0 ELSE k - 1 + 1 BY <2>1, FS_Interval
  <2> QED BY <1>1, <2>2
<1>3. Cardinality(DOMAIN rows) = n BY <1>1, <1>2
<1>4. ASSUME NEW i \in 1..n PROVE Nth(i) = i
  <2>1. ASSUME NEW k \in DOMAIN rows PROVE Upto(k) = k
    <3>1. k \in 0..n /\ k \in 1..n BY <1>1
    <3>2. {m \in DOMAIN rows : m <= k} = 1..k BY <1>1, <3>1
    <3>3. Cardinality({m \in DOMAIN rows : m <= k}) = Cardinality(1..k) BY <3>2
    <3> QED BY <1>2, <3>1, <3>3
  <2> HIDE DEF Upto
  <2>2. i \in DOMAIN rows BY <1>1
  <2>3. \E k \in DOMAIN rows : Upto(k) = i BY <2>1, <2>2
  <2>4. Nth(i) \in DOMAIN rows /\ Upto(Nth(i)) = i BY <2>3
  <2> HIDE DEF Nth
  <2> QED BY <2>1, <2>4
<1>5. Messages(rows) = [i \in 1..n |-> rows[Nth(i)]] BY <1>3 DEF Messages
<1> HIDE DEF Nth
<1>6. Messages(rows) = [i \in 1..n |-> rows[i]] BY <1>4, <1>5
<1>7. Messages(rows) = rows BY <1>1, <1>6
<1>8. LastSequence(rows) = n
  <2>1. CASE rows = <<>> BY <2>1 DEF LastSequence, n
  <2>2. CASE rows # <<>>
    <3>1. n # 0 BY <2>2, EmptySeq DEF n
    <3>2. n \in 1..n /\ \A m \in 1..n : n >= m BY <1>1, <3>1
    <3>3. \A k \in 1..n : (\A m \in 1..n : k >= m) => k = n BY <1>1, <3>2
    <3>4. (CHOOSE k \in 1..n : \A m \in 1..n : k >= m) = n BY <3>2, <3>3
    <3> QED BY <1>1, <2>2, <3>4 DEF LastSequence, Max
  <2> QED BY <2>1, <2>2
<1> QED BY <1>3, <1>7, <1>8 DEF n

(***************************************************************************)
(* f takes the positions of a copy to the rows of K that hold its          *)
(* messages, in their order and leaving none of K out.                     *)
(***************************************************************************)
Follows(f, copy, rows, K) ==
    /\ f \in [1..Len(copy) -> K]
    /\ \A i, j \in 1..Len(copy) : i < j => f[i] < f[j]
    /\ \A n \in K : \E i \in 1..Len(copy) : f[i] = n
    /\ \A i \in 1..Len(copy) : copy[i] = rows[f[i]]

(***************************************************************************)
(* A copy that follows some of the rows is what reading those rows gives.  *)
(***************************************************************************)
LEMMA FollowedRowsAreRead ==
    ASSUME NEW copy \in Seq(Message), NEW rows, NEW K \in SUBSET Nat, NEW f,
           Follows(f, copy, rows, K)
    PROVE  Messages([n \in K |-> rows[n]]) = copy
<1> DEFINE n == Len(copy)
           chosen == [k \in K |-> rows[k]]
           Upto(k) == {m \in K : m <= k}
           Nth(i) == CHOOSE k \in K : Cardinality(Upto(k)) = i
<1>1. /\ n \in Nat /\ DOMAIN copy = 1..n /\ copy \in [1..n -> Message] BY LenProperties
<1> HIDE DEF n
<1>2. /\ f \in [1..n -> K]
      /\ \A i, j \in 1..n : i < j => f[i] < f[j]
      /\ \A k \in K : \E i \in 1..n : f[i] = k
      /\ \A i \in 1..n : copy[i] = rows[f[i]]
  BY DEF Follows, n
<1>3. \A i, j \in 1..n : f[i] <= f[j] <=> i <= j
  <2> SUFFICES ASSUME NEW i \in 1..n, NEW j \in 1..n PROVE f[i] <= f[j] <=> i <= j OBVIOUS
  <2>1. f[i] \in Nat /\ f[j] \in Nat BY <1>2
  <2>2. i < j => f[i] < f[j] BY <1>2
  <2>3. j < i => f[j] < f[i] BY <1>2
  <2>4. i = j => f[i] = f[j] OBVIOUS
  <2> QED BY <1>1, <2>1, <2>2, <2>3, <2>4
<1>4. ASSUME NEW i \in 0..n, NEW S, S = {f[j] : j \in 1..i} PROVE Cardinality(S) = i
  <2> DEFINE g == [j \in 1..i |-> f[j]]
  <2>1. i \in Nat /\ i <= n /\ \A j \in 1..i : j \in 1..n BY <1>1
  <2>2. g \in [1..i -> S] BY <1>4
  <2>3. \A j, k \in 1..i : g[j] = g[k] => j = k
    <3> SUFFICES ASSUME NEW j \in 1..i, NEW k \in 1..i, f[j] = f[k] PROVE j = k OBVIOUS
    <3>1. j \in 1..n /\ k \in 1..n BY <2>1
    <3>2. f[j] \in Nat /\ f[k] \in Nat BY <1>2, <3>1
    <3>3. j <= k /\ k <= j BY <1>3, <3>1, <3>2
    <3> QED BY <3>3
  <2>4. \A x \in S : \E j \in 1..i : g[j] = x BY <1>4
  <2>5. g \in Bijection(1..i, S)
    BY <2>2, <2>3, <2>4, Zenon DEF Bijection, Injection, Surjection, IsInjective
  <2>6. IsFiniteSet(1..i) /\ Cardinality(1..i) = i
    <3>1. 1 \in Int /\ i \in Int BY <2>1
    <3>2. IsFiniteSet(1..i) /\ Cardinality(1..i) = IF 1 > i THEN 0 ELSE i - 1 + 1
      BY <3>1, FS_Interval
    <3> QED BY <2>1, <3>2
  <2>7. ExistsBijection(1..i, S) BY <2>5 DEF ExistsBijection
  <2> QED BY <2>6, <2>7, FS_Bijection
<1>5. K = {f[j] : j \in 1..n} BY <1>2
<1>6. Cardinality(DOMAIN chosen) = n
  <2>1. n \in 0..n BY <1>1
  <2> QED BY <1>4, <1>5, <2>1
<1>7. ASSUME NEW i \in 1..n PROVE Cardinality(Upto(f[i])) = i
  <2>1. Upto(f[i]) = {f[j] : j \in 1..i}
    <3>1. i \in Nat /\ i <= n /\ \A j \in 1..i : j \in 1..n BY <1>1
    <3>2. \A j \in 1..n : f[j] <= f[i] <=> j \in 1..i BY <1>1, <1>3, <3>1
    <3> QED BY <1>5, <3>1, <3>2
  <2>2. i \in 0..n BY <1>1
  <2> QED BY <1>4, <2>1, <2>2
<1> HIDE DEF Upto
<1>8. ASSUME NEW i \in 1..n PROVE Nth(i) = f[i]
  <2>1. f[i] \in K BY <1>2
  <2>2. \A k \in K : Cardinality(Upto(k)) = i => k = f[i] BY <1>2, <1>7
  <2> QED BY <1>7, <2>1, <2>2
<1> USE DEF Upto
<1>9. Messages(chosen) = [i \in 1..n |-> chosen[Nth(i)]] BY <1>6 DEF Messages
<1> HIDE DEF Nth
<1>10. \A i \in 1..n : chosen[Nth(i)] = copy[i] BY <1>2, <1>8
<1>11. Messages(chosen) = [i \in 1..n |-> copy[i]] BY <1>9, <1>10
<1> QED BY <1>1, <1>11

(***************************************************************************)
(* It follows them still when both grow by the same two messages.          *)
(***************************************************************************)
LEMMA FollowsAppended ==
    ASSUME NEW copy \in Seq(Message), NEW rows \in Seq(Message), NEW K \in SUBSET (1..Len(rows)),
           NEW f, Follows(f, copy, rows, K),
           NEW copy2, Len(copy2) = Len(copy) + 2, \A i \in 1..Len(copy) : copy2[i] = copy[i],
           NEW rows2, \A n \in 1..Len(rows) : rows2[n] = rows[n],
           copy2[Len(copy) + 1] = rows2[Len(rows) + 1],
           copy2[Len(copy) + 2] = rows2[Len(rows) + 2]
    PROVE  \E g : Follows(g, copy2, rows2, K \cup {Len(rows) + 1, Len(rows) + 2})
<1> DEFINE c == Len(copy)
           r == Len(rows)
           K2 == K \cup {r + 1, r + 2}
           g == [i \in 1..(c + 2) |-> IF i <= c THEN f[i] ELSE r + (i - c)]
<1>1. c \in Nat /\ r \in Nat BY LenProperties
<1>2. /\ f \in [1..c -> K]
      /\ \A i, j \in 1..c : i < j => f[i] < f[j]
      /\ \A n \in K : \E i \in 1..c : f[i] = n
      /\ \A i \in 1..c : copy[i] = rows[f[i]]
  BY DEF Follows
<1>3. /\ Len(copy2) = c + 2 /\ K \subseteq 1..r
      /\ \A i \in 1..c : copy2[i] = copy[i]
      /\ \A n \in 1..r : rows2[n] = rows[n]
      /\ copy2[c + 1] = rows2[r + 1] /\ copy2[c + 2] = rows2[r + 2]
  OBVIOUS
<1> HIDE DEF c, r
<1>4. /\ \A i \in 1..c : i \in 1..(c + 2) /\ g[i] = f[i] /\ f[i] \in 1..r
      /\ g[c + 1] = r + 1 /\ g[c + 2] = r + 2
      /\ \A i \in 1..(c + 2) : i \in 1..c \/ i = c + 1 \/ i = c + 2
  <2>1. \A i \in 1..c : i \in 1..(c + 2) /\ i <= c BY <1>1
  <2>2. c + 1 \in 1..(c + 2) /\ c + 2 \in 1..(c + 2) /\ ~(c + 1 <= c) /\ ~(c + 2 <= c) BY <1>1
  <2>3. (c + 1) - c = 1 /\ (c + 2) - c = 2 BY <1>1
  <2>4. \A i \in 1..c : g[i] = f[i] BY <2>1
  <2>5. g[c + 1] = r + 1 /\ g[c + 2] = r + 2 BY <2>2, <2>3
  <2>6. \A i \in 1..c : f[i] \in 1..r BY <1>2, <1>3
  <2>7. \A i \in 1..(c + 2) : i \in 1..c \/ i = c + 1 \/ i = c + 2 BY <1>1
  <2> QED BY <2>1, <2>4, <2>5, <2>6, <2>7
<1>5. g \in [1..(c + 2) -> K2]
  <2>1. ASSUME NEW i \in 1..(c + 2) PROVE g[i] \in K2 BY <1>2, <1>4
  <2> QED BY <2>1
<1> HIDE DEF g
<1>6. ASSUME NEW i \in 1..(c + 2), NEW j \in 1..(c + 2), i < j PROVE g[i] < g[j]
  <2>1. CASE j \in 1..c
    <3>1. i \in 1..c BY <1>1, <1>6, <2>1
    <3> QED BY <1>2, <1>4, <1>6, <2>1, <3>1
  <2>2. CASE i \in 1..c /\ j \notin 1..c
    <3>1. g[i] \in 1..r /\ g[j] \in {r + 1, r + 2} BY <1>4, <2>2
    <3> QED BY <1>1, <3>1
  <2>3. CASE i \notin 1..c /\ j \notin 1..c
    <3>1. i = c + 1 /\ j = c + 2 BY <1>1, <1>4, <1>6, <2>3
    <3> QED BY <1>1, <1>4, <3>1
  <2>4. CASE i \notin 1..c /\ j \in 1..c BY <1>1, <1>6, <2>4
  <2> QED BY <2>1, <2>2, <2>3, <2>4
<1>7. ASSUME NEW n \in K2 PROVE \E i \in 1..(c + 2) : g[i] = n
  <2>1. CASE n \in K BY <1>2, <1>4, <2>1
  <2>2. CASE n = r + 1
    <3>1. c + 1 \in 1..(c + 2) BY <1>1
    <3> QED BY <1>4, <2>2, <3>1
  <2>3. CASE n = r + 2
    <3>1. c + 2 \in 1..(c + 2) BY <1>1
    <3> QED BY <1>4, <2>3, <3>1
  <2> QED BY <2>1, <2>2, <2>3
<1>8. ASSUME NEW i \in 1..(c + 2) PROVE copy2[i] = rows2[g[i]]
  <2>1. CASE i \in 1..c BY <1>2, <1>3, <1>4, <2>1
  <2>2. CASE i = c + 1 BY <1>3, <1>4, <2>2
  <2>3. CASE i = c + 2 BY <1>3, <1>4, <2>3
  <2> QED BY <1>4, <2>1, <2>2, <2>3
<1>9. Follows(g, copy2, rows2, K2) BY <1>3, <1>5, <1>6, <1>7, <1>8 DEF Follows
<1> QED BY <1>9 DEF r

----------------------------------------------------------------------------
(***************************************************************************)
(* The inductive invariant. A turn is that of a session that has loaded    *)
(* its messages, keeps whole turns of them, and what its transaction read  *)
(* is still so.                                                            *)
(***************************************************************************)
Running(k) == k.pc \in {"asking", "begun", "read", "written"}

Reading(k) == k.pc \in {"read", "written"}

TurnAt(k) ==
    /\ k.pc # "idle" => k.session \in opened
    /\ Running(k) => k.keep % 2 = 0 /\ k.keep <= Len(cache[k.session])
    /\ Reading(k) => k.found = Len(table)
    /\ k.pc = "written" /\ k.from # NoIndex => k.keep <= k.found

Turned ==
    /\ turn \in [Turns -> TurnFields]
    /\ \A t \in Turns : TurnAt(turn[t])

(***************************************************************************)
(* A session has one turn on its way, a process one transaction, and the   *)
(* locks are those of the transactions that have read and written.         *)
(***************************************************************************)
OneTurnEach ==
    \A t, u \in Turns :
        Running(turn[t]) /\ Running(turn[u]) /\ turn[t].session = turn[u].session => t = u

Locked ==
    /\ connection \in [Processes -> Turns \cup {NoTurn}]
    /\ \A t \in Turns, p \in Processes :
          connection[p] = t <=> InTransaction(t) /\ Process(t) = p
    /\ readers = {t \in Turns : Reading(turn[t])}
    /\ \A t \in Turns : turn[t].pc = "written" <=> writer = t

(***************************************************************************)
(* The rows are a sequence of whole turns, as are the copies, and the copy *)
(* of a session that alone has written since it loaded is the table.       *)
(***************************************************************************)
Stored == table \in Seq(Message) /\ IsTranscript(table)

Cached ==
    /\ opened \subseteq Sessions
    /\ cache \in [Sessions -> Seq(Message)]
    /\ \A s \in Sessions : /\ IsTranscript(cache[s])
                           /\ s \in opened /\ Others(s) = {} => cache[s] = table

(***************************************************************************)
(* The rows written since the start, and the turns counted since a session *)
(* loaded, are of committed turns. A session that has seen nothing but     *)
(* appends since then follows the rows it shows, in the order of the       *)
(* table: this is what an append of its own, or of another, preserves.     *)
(***************************************************************************)
OnlyAppends(s) == \A t \in since[s] : turn[t].from = NoIndex

Counted ==
    /\ since \in [Sessions -> SUBSET Turns]
    /\ \A s \in Sessions : s \notin opened => since[s] = {}
    /\ \A s \in Sessions : \A t \in since[s] : turn[t].pc = "committed"
    /\ \A n \in DOMAIN table : \A t \in Turns : table[n].turn = t => turn[t].pc = "committed"

Followed ==
    \A s \in opened : OnlyAppends(s) => \E f : Follows(f, cache[s], table, Shown(s))

SharedInv == Stored /\ Cached /\ Counted /\ Followed /\ Turned /\ OneTurnEach /\ Locked

----------------------------------------------------------------------------
(***************************************************************************)
(* A step that commits nothing leaves what the copies are compared with.   *)
(***************************************************************************)
LEMMA CopiesStay ==
    ASSUME Stored, Cached, Counted, Followed, UNCHANGED <<table, sessionVars>>,
           \A t \in Turns : turn[t].pc = "committed" => turn'[t] = turn[t]
    PROVE  Stored' /\ Cached' /\ Counted' /\ Followed'
<1>1. table' = table /\ opened' = opened /\ cache' = cache /\ since' = since
  BY DEF sessionVars
<1>2. \A s \in Sessions : \A t \in since[s] : t \in Turns /\ turn'[t] = turn[t]
  BY DEF Counted
<1>3. ASSUME NEW s \in Sessions
      PROVE  /\ Others(s)' = Others(s) /\ Shown(s)' = Shown(s)
             /\ OnlyAppends(s)' <=> OnlyAppends(s)
  <2>1. Others(s)' = Others(s) BY <1>1, <1>2 DEF Others
  <2>2. Shown(s)' = Shown(s) BY <1>1, <2>1 DEF Shown
  <2>3. OnlyAppends(s)' <=> OnlyAppends(s) BY <1>1, <1>2 DEF OnlyAppends
  <2> QED BY <2>1, <2>2, <2>3
<1>4. Stored' BY <1>1 DEF Stored
<1>5. Cached' BY <1>1, <1>3 DEF Cached
<1>6. Counted' BY <1>1, <1>2 DEF Counted
<1>7. Followed'
  <2>1. opened \subseteq Sessions BY DEF Cached
  <2>2. ASSUME NEW s \in opened, OnlyAppends(s)
        PROVE  \E f : Follows(f, cache'[s], table', Shown(s)')
    <3>1. PICK f : Follows(f, cache[s], table, Shown(s)) BY <2>2 DEF Followed
    <3> QED BY <1>1, <1>3, <2>1, <3>1
  <2> QED BY <1>1, <1>3, <2>1, <2>2 DEF Followed
<1> QED BY <1>4, <1>5, <1>6, <1>7

(***************************************************************************)
(* A turn gets on, and neither the rows nor a copy changes.                *)
(***************************************************************************)
LEMMA TurnMoves ==
    ASSUME SharedInv, NEW t \in Turns, NEW k \in TurnFields, turn' = [turn EXCEPT ![t] = k],
           UNCHANGED <<table, sessionVars>>,
           k.session = turn[t].session, Running(k) => Running(turn[t]),
           k.pc # "idle" => turn[t].pc # "idle",
           k.pc # "committed", turn[t].pc # "committed", TurnAt(k)
    PROVE  /\ Stored' /\ Cached' /\ Counted' /\ Followed' /\ Turned' /\ OneTurnEach'
           /\ turn'[t] = k /\ \A u \in Turns : u # t => turn'[u] = turn[u]
           /\ \A u \in Turns : Process(u)' = Process(u)
<1>1. Stored /\ Cached /\ Counted /\ Followed /\ Turned /\ OneTurnEach BY DEF SharedInv
<1>2. turn \in [Turns -> TurnFields] BY <1>1 DEF Turned
<1>3. turn' \in [Turns -> TurnFields] BY <1>2
<1>4. turn'[t] = k /\ \A u \in Turns : u # t => turn'[u] = turn[u] BY <1>2
<1>5. table' = table /\ opened' = opened /\ cache' = cache BY DEF sessionVars
<1>6. Stored' /\ Cached' /\ Counted' /\ Followed' BY <1>1, <1>4, CopiesStay
<1>7. Turned'
  <2>1. ASSUME NEW u \in Turns PROVE TurnAt(turn[u])'
    <3>1. CASE u = t BY <1>4, <1>5, <3>1 DEF TurnAt
    <3>2. CASE u # t BY <1>1, <1>4, <1>5, <3>2 DEF Turned, TurnAt
    <3> QED BY <3>1, <3>2
  <2> QED BY <1>3, <2>1 DEF Turned
<1>8. OneTurnEach' BY <1>1, <1>4 DEF OneTurnEach
<1>9. \A u \in Turns : Process(u)' = Process(u) BY <1>4 DEF Process
<1> QED BY <1>4, <1>6, <1>7, <1>8, <1>9

(***************************************************************************)
(* What a turn becomes when only its place changes.                        *)
(***************************************************************************)
LEMMA GotoFields ==
    ASSUME Turned, NEW t \in Turns, NEW pc \in {"begun", "written", "committed", "failed"},
           Goto(t, pc)
    PROVE  \E k \in TurnFields :
              /\ turn' = [turn EXCEPT ![t] = k] /\ k.pc = pc
              /\ k.session = turn[t].session /\ k.from = turn[t].from
              /\ k.keep = turn[t].keep /\ k.found = turn[t].found
<1> DEFINE k == [turn[t] EXCEPT !.pc = pc]
<1>1. turn[t] \in TurnFields BY DEF Turned
<1>2. turn' = [turn EXCEPT ![t] = k] BY DEF Goto
<1>3. k \in TurnFields BY <1>1 DEF TurnFields
<1>4. /\ k.pc = pc /\ k.session = turn[t].session /\ k.from = turn[t].from
      /\ k.keep = turn[t].keep /\ k.found = turn[t].found
  BY <1>1 DEF TurnFields
<1> QED BY <1>2, <1>3, <1>4

(***************************************************************************)
(* COMMIT leaves the messages the turn keeps of what is stored now, and    *)
(* the turn behind them: nobody has written since the transaction read.    *)
(***************************************************************************)
LEMMA CommitShape ==
    ASSUME SharedInv, NEW t \in Turns, Commit(t)
    PROVE  \E m \in 0..Len(table) :
              /\ turn[t].from # NoIndex => m = turn[t].keep
              /\ turn[t].from = NoIndex => m = Len(table)
              /\ m % 2 = 0
              /\ DOMAIN table' = 1..(m + 2)
              /\ \A n \in 1..m : table'[n] = table[n]
              /\ table' = AtEnd(table, m, t, Reply(t, 1, TRUE))
<1> DEFINE reply == Reply(t, 1, TRUE)
           m == IF turn[t].from = NoIndex THEN Len(table) ELSE turn[t].keep
<1>1. /\ table \in Seq(Message) /\ IsTranscript(table) /\ turn[t] \in TurnFields
      /\ TurnAt(turn[t]) /\ turn[t].pc = "written"
  BY DEF SharedInv, Stored, Turned, Commit
<1>2. /\ Len(table) \in Nat /\ Len(table) % 2 = 0 /\ DOMAIN table = 1..Len(table)
      /\ turn[t].keep \in Nat
  BY <1>1, LenProperties DEF IsTranscript, TurnFields
<1>3. /\ turn[t].keep % 2 = 0 /\ turn[t].found = Len(table)
      /\ turn[t].from # NoIndex => turn[t].keep <= turn[t].found
  BY <1>1 DEF TurnAt, Running, Reading
<1>4. /\ m \in 0..Len(table) /\ m % 2 = 0
      /\ turn[t].from # NoIndex => m = turn[t].keep
      /\ turn[t].from = NoIndex => m = Len(table)
  <2>1. CASE turn[t].from = NoIndex BY <1>2, <2>1
  <2>2. CASE turn[t].from # NoIndex BY <1>2, <1>3, <2>2
  <2> QED BY <2>1, <2>2
<1>5. Kept(t) = 1..m /\ FirstNew(t) = m + 1
  <2>1. CASE turn[t].from = NoIndex BY <1>2, <1>3, <2>1 DEF Kept, FirstNew
  <2>2. CASE turn[t].from # NoIndex BY <1>2, <1>4, <2>2 DEF Kept, FirstNew
  <2> QED BY <2>1, <2>2
<1>6. table' = [n \in Kept(t) \cup NewRows(t) |->
                  IF n = FirstNew(t) THEN Prompt(t)
                  ELSE IF n = FirstNew(t) + 1 THEN reply ELSE table[n]]
  BY DEF Commit
<1> HIDE DEF m
<1>7. Kept(t) \cup NewRows(t) = 1..(m + 2)
  <2>1. m \in Nat BY <1>2, <1>4
  <2>2. (1..m) \cup {m + 1, (m + 1) + 1} = 1..(m + 2) BY <2>1
  <2> QED BY <1>5, <2>2 DEF NewRows
<1>8. table' = [n \in 1..(m + 2) |->
                  IF n = m + 1 THEN Prompt(t) ELSE IF n = m + 2 THEN reply ELSE table[n]]
  <2>1. m \in Nat BY <1>2, <1>4
  <2>2. (m + 1) + 1 = m + 2 BY <2>1
  <2> QED BY <1>5, <1>6, <1>7, <2>2
<1>9. table' = AtEnd(table, m, t, reply)
  <2>1. reply \in Message BY DEF Reply, Message
  <2> HIDE DEF reply
  <2>2. PICK all : all = AtEnd(table, m, t, reply) OBVIOUS
  <2>3. /\ all \in Seq(Message) /\ Len(all) = m + 2
        /\ \A i \in 1..m : all[i] = table[i]
        /\ all[m + 1] = Prompt(t) /\ all[m + 2] = reply
    <3>1. EndsWithTurn(AtEnd(table, m, t, reply), table, m, t, reply)
      BY <1>1, <1>4, <2>1, AtEndShape
    <3>2. EndsWithTurn(all, table, m, t, reply) BY <2>2, <3>1, Zenon
    <3> QED BY <3>2 DEF EndsWithTurn
  <2>4. DOMAIN all = 1..(m + 2) /\ all = [i \in DOMAIN all |-> all[i]] BY <2>3, LenProperties
  <2>5. ASSUME NEW i \in 1..(m + 2) PROVE all[i] = table'[i]
    <3>1. m \in Nat BY <1>2, <1>4
    <3>2. CASE i \in 1..m
      <4>1. i # m + 1 /\ i # m + 2 BY <3>1, <3>2
      <4> QED BY <1>8, <2>3, <3>2, <4>1
    <3>3. CASE i = m + 1 BY <1>8, <2>3, <3>3
    <3>4. CASE i = m + 2
      <4>1. m + 2 # m + 1 BY <3>1
      <4> QED BY <1>8, <2>3, <3>4, <4>1
    <3> QED BY <3>1, <3>2, <3>3, <3>4
  <2>6. table' = [i \in 1..(m + 2) |-> table'[i]] BY <1>8
  <2>7. table' = all BY <2>4, <2>5, <2>6
  <2> QED BY <2>2, <2>7
<1>10. DOMAIN table' = 1..(m + 2) /\ \A n \in 1..m : table'[n] = table[n]
  <2>1. m \in Nat BY <1>2, <1>4
  <2>2. \A n \in 1..m : n \in 1..(m + 2) /\ n # m + 1 /\ n # m + 2 BY <2>1
  <2> QED BY <1>8, <2>2
<1> QED BY <1>4, <1>9, <1>10

----------------------------------------------------------------------------
(***************************************************************************)
(* The steps of a session keep the invariant.                              *)
(***************************************************************************)
LEMMA OpenKeeps ==
    ASSUME SharedInv, NEW s \in Sessions, Open(s)
    PROVE  SharedInv'
<1>1. Stored /\ Cached /\ Counted /\ Followed /\ Turned /\ OneTurnEach /\ Locked
  BY DEF SharedInv
<1>2. /\ s \notin opened /\ opened' = opened \cup {s} /\ since' = since
      /\ table' = table /\ connection' = connection /\ readers' = readers /\ writer' = writer
      /\ turn' = turn
  BY DEF Open, Closed, dbVars
<1>3. cache' = [cache EXCEPT ![s] = table]
  BY <1>1, RowsAsSequence DEF Open, Stored
<1>4. /\ cache' \in [Sessions -> Seq(Message)] /\ cache'[s] = table
      /\ \A u \in Sessions : u # s => cache'[u] = cache[u]
  BY <1>1, <1>3 DEF Cached, Stored
<1>5. Stored' BY <1>1, <1>2 DEF Stored
<1>6. \A u : /\ Others(u)' = Others(u) /\ Shown(u)' = Shown(u)
             /\ OnlyAppends(u)' <=> OnlyAppends(u)
  BY <1>2 DEF Others, Shown, OnlyAppends
<1>7. Cached'
  <2>1. ASSUME NEW u \in Sessions
        PROVE  /\ IsTranscript(cache'[u])
               /\ u \in opened' /\ Others(u) = {} => cache'[u] = table'
    <3>1. CASE u = s BY <1>1, <1>2, <1>4, <3>1 DEF Stored
    <3>2. CASE u # s BY <1>1, <1>2, <1>4, <3>2 DEF Cached
    <3> QED BY <3>1, <3>2
  <2> QED BY <1>1, <1>2, <1>4, <1>6, <2>1 DEF Cached
<1>8. Counted' BY <1>1, <1>2 DEF Counted
<1>9. Followed'
  <2>1. \E f : Follows(f, cache'[s], table, Shown(s))
    <3> DEFINE f == [i \in 1..Len(table) |-> i]
    <3>1. Len(table) \in Nat /\ DOMAIN table = 1..Len(table)
      BY <1>1, LenProperties DEF Stored
    <3>2. Shown(s) = 1..Len(table) BY <1>1, <1>2, <3>1 DEF Counted, Others, Shown
    <3>3. Follows(f, table, table, 1..Len(table)) BY <3>1 DEF Follows
    <3> HIDE DEF f
    <3> QED BY <1>4, <3>2, <3>3
  <2>2. ASSUME NEW u \in opened', OnlyAppends(u)
        PROVE  \E f : Follows(f, cache'[u], table, Shown(u))
    <3>1. CASE u = s BY <2>1, <3>1
    <3>2. CASE u # s
      <4>1. u \in opened /\ u \in Sessions BY <1>1, <1>2, <3>2 DEF Cached
      <4> QED BY <1>1, <1>4, <2>2, <3>2, <4>1 DEF Followed
    <3> QED BY <3>1, <3>2
  <2> QED BY <1>2, <1>6, <2>2 DEF Followed
<1>10. Turned'
  <2>1. ASSUME NEW t \in Turns PROVE TurnAt(turn[t])'
    <3>1. TurnAt(turn[t]) BY <1>1 DEF Turned
    <3>2. turn[t].pc # "idle" => cache'[turn[t].session] = cache[turn[t].session]
      <4>1. turn[t].pc # "idle" => turn[t].session \in Sessions /\ turn[t].session # s
        BY <1>1, <1>2, <3>1 DEF TurnAt, Cached
      <4> QED BY <1>4, <4>1
    <3> QED BY <1>2, <3>1, <3>2 DEF TurnAt, Running, Reading
  <2> QED BY <1>1, <1>2, <2>1 DEF Turned
<1>11. OneTurnEach' BY <1>1, <1>2 DEF OneTurnEach
<1>12. Locked' BY <1>1, <1>2 DEF Locked, InTransaction, Process
<1> QED BY <1>5, <1>7, <1>8, <1>9, <1>10, <1>11, <1>12 DEF SharedInv

LEMMA AskKeeps ==
    ASSUME SharedInv, NEW s \in Sessions, NEW t \in Turns, Ask(s, t)
    PROVE  SharedInv'
<1>1. Stored /\ Cached /\ Counted /\ Followed /\ Turned /\ OneTurnEach /\ Locked
  BY DEF SharedInv
<1>2. /\ s \in opened /\ turn[t].pc = "idle" /\ turn[t] \in TurnFields
      /\ turn \in [Turns -> TurnFields]
      /\ \A u \in Turns : turn[u].session = s
                            => turn[u].pc \in {"idle", "committed", "failed"}
      /\ table' = table /\ connection' = connection /\ readers' = readers /\ writer' = writer
      /\ opened' = opened /\ cache' = cache
  BY <1>1 DEF Ask, Fresh, InFlight, dbVars, sessionVars, Turned
<1>3. PICK from \in ReplaceFroms :
         /\ ValidReplaceFrom(cache[s], from)
         /\ turn' = [turn EXCEPT ![t] =
                        [turn[t] EXCEPT !.pc = "asking", !.session = s, !.from = from,
                                        !.keep = KeepFor(cache[s], from),
                                        !.sent = SubSeq(cache[s], 1, KeepFor(cache[s], from))]]
  BY DEF Ask
<1> DEFINE keep == KeepFor(cache[s], from)
           sent == SubSeq(cache[s], 1, keep)
           k == [turn[t] EXCEPT !.pc = "asking", !.session = s, !.from = from,
                                !.keep = keep, !.sent = sent]
<1>4. /\ cache[s] \in Seq(Message) /\ IsTranscript(cache[s]) BY <1>1 DEF Cached
<1>5. from \in Nat \cup {NoIndex} /\ from \in Int \cup {NoIndex} BY FromsAssumption
<1>6. keep \in 0..Len(cache[s]) /\ keep % 2 = 0 BY <1>3, <1>4, <1>5, KeptIsEven
<1>7. keep \in Nat /\ keep <= Len(cache[s]) BY <1>4, <1>6
<1>8. sent \in Seq(Message)
  <2>1. \A i \in 1..keep : cache[s][i] \in Message BY <1>4, <1>6, ElementOfSeq
  <2> QED BY <1>7, <2>1
<1>9. turn' = [turn EXCEPT ![t] = k] BY <1>3
<1> HIDE DEF keep, sent
<1>10. /\ k.pc = "asking" /\ k.session = s /\ k.from = from /\ k.keep = keep BY <1>2 DEF TurnFields
<1>11. k \in TurnFields
  <2> DEFINE a == [turn[t] EXCEPT !.pc = "asking"]
             b == [a EXCEPT !.session = s]
             c == [b EXCEPT !.from = from]
             d == [c EXCEPT !.keep = keep]
  <2>1. k = [d EXCEPT !.sent = sent] BY <1>2 DEF TurnFields
  <2> HIDE DEF k
  <2>2. a \in TurnFields BY <1>2 DEF TurnFields
  <2> HIDE DEF a
  <2>3. b \in TurnFields BY <2>2 DEF TurnFields
  <2> HIDE DEF b
  <2>4. c \in TurnFields BY <1>5, <2>3 DEF TurnFields
  <2> HIDE DEF c
  <2>5. d \in TurnFields BY <1>7, <2>4 DEF TurnFields
  <2> HIDE DEF d
  <2> QED BY <1>8, <2>1, <2>5 DEF TurnFields
<1> HIDE DEF k
<1>12. /\ turn' \in [Turns -> TurnFields]
       /\ turn'[t] = k /\ \A u \in Turns : u # t => turn'[u] = turn[u]
  BY <1>2, <1>9, <1>11
<1>13. Stored' /\ Cached' /\ Counted' /\ Followed'
  <2>1. UNCHANGED <<table, sessionVars>> BY DEF Ask, dbVars
  <2>2. \A u \in Turns : turn[u].pc = "committed" => turn'[u] = turn[u] BY <1>2, <1>12
  <2> QED BY <1>1, <2>1, <2>2, CopiesStay
<1>14. Turned'
  <2>1. ASSUME NEW u \in Turns PROVE TurnAt(turn[u])'
    <3>1. CASE u = t
      <4>1. turn'[u] = k BY <1>12, <3>1
      <4> QED BY <1>2, <1>6, <1>7, <1>10, <4>1 DEF TurnAt, Running, Reading
    <3>2. CASE u # t
      <4>1. turn'[u] = turn[u] /\ TurnAt(turn[u]) BY <1>1, <1>12, <3>2 DEF Turned
      <4> QED BY <1>2, <4>1 DEF TurnAt
    <3> QED BY <3>1, <3>2
  <2> QED BY <1>12, <2>1 DEF Turned
<1>15. OneTurnEach'
  <2> SUFFICES ASSUME NEW u \in Turns, NEW v \in Turns, Running(turn'[u]), Running(turn'[v]),
                      turn'[u].session = turn'[v].session
               PROVE  u = v
    BY DEF OneTurnEach
  <2>1. \A w \in Turns : w # t /\ Running(turn'[w]) => turn'[w].session # s
    BY <1>2, <1>12 DEF Running
  <2>2. turn'[t].session = s BY <1>10, <1>12
  <2>3. CASE u = t \/ v = t BY <2>1, <2>2, <2>3
  <2>4. CASE u # t /\ v # t BY <1>1, <1>12, <2>4 DEF OneTurnEach
  <2> QED BY <2>3, <2>4
<1>16. Locked'
  <2>1. \A u \in Turns : /\ InTransaction(u)' <=> InTransaction(u)
                         /\ InTransaction(u) => Process(u)' = Process(u)
                         /\ Reading(turn'[u]) <=> Reading(turn[u])
                         /\ turn'[u].pc = "written" <=> turn[u].pc = "written"
    BY <1>2, <1>10, <1>12 DEF InTransaction, Process, Reading
  <2> QED BY <1>1, <1>2, <2>1 DEF Locked
<1> QED BY <1>13, <1>14, <1>15, <1>16 DEF SharedInv

LEMMA GiveUpKeeps ==
    ASSUME SharedInv, NEW t \in Turns, GiveUp(t)
    PROVE  SharedInv'
<1>1. Stored /\ Cached /\ Turned /\ OneTurnEach /\ Locked BY DEF SharedInv
<1>2. /\ turn[t].pc = "asking" /\ Goto(t, "failed") /\ UNCHANGED <<table, sessionVars>>
      /\ connection' = connection /\ readers' = readers /\ writer' = writer
  BY DEF GiveUp, dbVars
<1>3. PICK k \in TurnFields :
         /\ turn' = [turn EXCEPT ![t] = k] /\ k.pc = "failed" /\ k.session = turn[t].session
  BY <1>1, <1>2, GotoFields
<1>4. TurnAt(turn[t]) BY <1>1 DEF Turned
<1>5. TurnAt(k) BY <1>2, <1>3, <1>4 DEF TurnAt, Running, Reading
<1>6. /\ Stored' /\ Cached' /\ Counted' /\ Followed' /\ Turned' /\ OneTurnEach'
      /\ turn'[t] = k /\ \A u \in Turns : u # t => turn'[u] = turn[u]
      /\ \A u \in Turns : Process(u)' = Process(u)
  BY <1>2, <1>3, <1>5, TurnMoves DEF Running
<1>7. \A u \in Turns : /\ InTransaction(u)' <=> InTransaction(u)
                       /\ Reading(turn'[u]) <=> Reading(turn[u])
                       /\ turn'[u].pc = "written" <=> turn[u].pc = "written"
  BY <1>2, <1>3, <1>6 DEF InTransaction, Reading
<1>8. Locked' BY <1>1, <1>2, <1>6, <1>7 DEF Locked
<1> QED BY <1>6, <1>8 DEF SharedInv

----------------------------------------------------------------------------
(***************************************************************************)
(* So do those of a transaction. One that ends gives back what it held.    *)
(***************************************************************************)
LEMMA TransactionEnds ==
    ASSUME Locked, NEW t \in Turns, InTransaction(t),
           turn'[t].pc \in {"committed", "failed"},
           \A u \in Turns : u # t => turn'[u] = turn[u],
           \A u \in Turns : Process(u)' = Process(u),
           connection' = [connection EXCEPT ![Process(t)] = NoTurn],
           readers' = readers \ {t},
           writer' = IF writer = t THEN NoTurn ELSE writer
    PROVE  Locked'
<1>1. \A u \in Turns : /\ InTransaction(u)' <=> u # t /\ InTransaction(u)
                       /\ Reading(turn'[u]) <=> u # t /\ Reading(turn[u])
                       /\ turn'[u].pc = "written" <=> u # t /\ turn[u].pc = "written"
  BY DEF InTransaction, Reading
<1>2. connection' \in [Processes -> Turns \cup {NoTurn}] BY DEF Locked
<1>3. ASSUME NEW u \in Turns, NEW p \in Processes
      PROVE  connection'[p] = u <=> InTransaction(u)' /\ Process(u)' = p
  <2>1. connection[p] = u <=> InTransaction(u) /\ Process(u) = p BY DEF Locked
  <2>2. connection[p] = t <=> Process(t) = p BY DEF Locked
  <2>3. NoTurn # u BY TranscriptAssumption
  <2>4. CASE p = Process(t)
    <3>1. connection'[p] = NoTurn BY <2>4 DEF Locked
    <3>2. InTransaction(u) /\ Process(u) = p => u = t BY <2>1, <2>2, <2>4
    <3> QED BY <1>1, <2>3, <3>1, <3>2
  <2>5. CASE p # Process(t)
    <3>1. connection'[p] = connection[p] BY <2>5 DEF Locked
    <3> QED BY <1>1, <2>1, <2>5, <3>1
  <2> QED BY <2>4, <2>5
<1>4. readers' = {u \in Turns : Reading(turn'[u])} BY <1>1 DEF Locked
<1>5. \A u \in Turns : turn'[u].pc = "written" <=> writer' = u
  BY <1>1, TranscriptAssumption DEF Locked
<1> QED BY <1>2, <1>3, <1>4, <1>5 DEF Locked

LEMMA RollbackKeeps ==
    ASSUME SharedInv, NEW t \in Turns, InTransaction(t), Rollback(t),
           UNCHANGED <<table, sessionVars>>
    PROVE  SharedInv'
<1>1. Turned /\ Locked BY DEF SharedInv
<1>2. PICK k \in TurnFields :
         /\ turn' = [turn EXCEPT ![t] = k] /\ k.pc = "failed" /\ k.session = turn[t].session
  BY <1>1, GotoFields DEF Rollback
<1>3. TurnAt(turn[t]) BY <1>1 DEF Turned
<1>4. TurnAt(k) BY <1>2, <1>3 DEF TurnAt, Running, Reading, InTransaction
<1>5. /\ Stored' /\ Cached' /\ Counted' /\ Followed' /\ Turned' /\ OneTurnEach'
      /\ turn'[t] = k /\ \A u \in Turns : u # t => turn'[u] = turn[u]
      /\ \A u \in Turns : Process(u)' = Process(u)
  BY <1>2, <1>4, TurnMoves DEF Running, InTransaction
<1>6. Locked' BY <1>1, <1>2, <1>5, TransactionEnds DEF Rollback
<1> QED BY <1>5, <1>6 DEF SharedInv

LEMMA BeginKeeps ==
    ASSUME SharedInv, NEW t \in Turns, Begin(t)
    PROVE  SharedInv'
<1>1. Turned /\ Locked BY DEF SharedInv
<1>2. /\ turn[t].pc = "asking" /\ connection[Process(t)] = NoTurn
      /\ connection' = [connection EXCEPT ![Process(t)] = t]
      /\ readers' = readers /\ writer' = writer
  BY DEF Begin
<1>3. PICK k \in TurnFields :
         /\ turn' = [turn EXCEPT ![t] = k] /\ k.pc = "begun"
         /\ k.session = turn[t].session /\ k.keep = turn[t].keep
  BY <1>1, GotoFields DEF Begin
<1>4. TurnAt(turn[t]) BY <1>1 DEF Turned
<1>5. TurnAt(k) BY <1>2, <1>3, <1>4 DEF TurnAt, Running, Reading
<1>6. /\ Stored' /\ Cached' /\ Counted' /\ Followed' /\ Turned' /\ OneTurnEach'
      /\ turn'[t] = k /\ \A u \in Turns : u # t => turn'[u] = turn[u]
      /\ \A u \in Turns : Process(u)' = Process(u)
  BY <1>2, <1>3, <1>5, TurnMoves DEF Running, Begin
<1>7. \A u \in Turns : /\ InTransaction(u)' <=> u = t \/ InTransaction(u)
                       /\ Reading(turn'[u]) <=> Reading(turn[u])
                       /\ turn'[u].pc = "written" <=> turn[u].pc = "written"
  BY <1>2, <1>3, <1>6 DEF InTransaction, Reading
<1>8. connection' \in [Processes -> Turns \cup {NoTurn}] BY <1>1, <1>2 DEF Locked
<1>9. ASSUME NEW u \in Turns, NEW p \in Processes
      PROVE  connection'[p] = u <=> InTransaction(u)' /\ Process(u)' = p
  <2>1. connection[p] = u <=> InTransaction(u) /\ Process(u) = p BY <1>1 DEF Locked
  <2>2. ~InTransaction(t) /\ NoTurn # u BY <1>2, TranscriptAssumption DEF InTransaction
  <2>3. CASE p = Process(t)
    <3>1. connection'[p] = t BY <1>1, <1>2, <2>3 DEF Locked
    <3>2. ~(InTransaction(u) /\ Process(u) = p) BY <1>2, <2>1, <2>2, <2>3
    <3> QED BY <1>6, <1>7, <2>3, <3>1, <3>2
  <2>4. CASE p # Process(t)
    <3>1. connection'[p] = connection[p] BY <1>1, <1>2, <2>4 DEF Locked
    <3> QED BY <1>6, <1>7, <2>1, <2>2, <2>4, <3>1
  <2> QED BY <2>3, <2>4
<1>10. Locked' BY <1>1, <1>2, <1>7, <1>8, <1>9 DEF Locked
<1> QED BY <1>6, <1>10 DEF SharedInv

LEMMA ReadKeeps ==
    ASSUME SharedInv, NEW t \in Turns, Read(t)
    PROVE  SharedInv'
<1>1. Stored /\ Turned /\ Locked BY DEF SharedInv
<1>2. /\ turn[t].pc = "begun" /\ turn[t] \in TurnFields /\ UNCHANGED <<table, sessionVars>>
      /\ connection' = connection /\ readers' = readers \cup {t} /\ writer' = writer
  BY <1>1 DEF Read, Turned
<1> DEFINE n == Len(table)
           k == [turn[t] EXCEPT !.pc = "read", !.found = n]
<1>3. n \in Nat BY <1>1 DEF Stored
<1>4. turn' = [turn EXCEPT ![t] = k]
  <2>1. LastSequence(table) = n /\ Cardinality(DOMAIN table) = n
    BY <1>1, RowsAsSequence DEF Stored
  <2> QED BY <2>1 DEF Read
<1> HIDE DEF n
<1>5. /\ k.pc = "read" /\ k.found = n
      /\ k.session = turn[t].session /\ k.keep = turn[t].keep /\ k.from = turn[t].from
  BY <1>2 DEF TurnFields
<1>6. k \in TurnFields
  <2> DEFINE a == [turn[t] EXCEPT !.pc = "read"]
  <2>1. k = [a EXCEPT !.found = n] BY <1>2 DEF TurnFields
  <2> HIDE DEF k
  <2>2. a \in TurnFields BY <1>2 DEF TurnFields
  <2> HIDE DEF a
  <2> QED BY <1>3, <2>1, <2>2 DEF TurnFields
<1> HIDE DEF k
<1>7. TurnAt(turn[t]) BY <1>1 DEF Turned
<1>8. TurnAt(k) BY <1>2, <1>5, <1>7 DEF TurnAt, Running, Reading, n
<1>9. /\ Stored' /\ Cached' /\ Counted' /\ Followed' /\ Turned' /\ OneTurnEach'
      /\ turn'[t] = k /\ \A u \in Turns : u # t => turn'[u] = turn[u]
      /\ \A u \in Turns : Process(u)' = Process(u)
  BY <1>2, <1>4, <1>5, <1>6, <1>8, TurnMoves DEF Running
<1>10. \A u \in Turns : /\ InTransaction(u)' <=> InTransaction(u)
                        /\ Reading(turn'[u]) <=> u = t \/ Reading(turn[u])
                        /\ turn'[u].pc = "written" <=> turn[u].pc = "written"
  BY <1>2, <1>5, <1>9 DEF InTransaction, Reading
<1>11. Locked' BY <1>1, <1>2, <1>9, <1>10 DEF Locked
<1> QED BY <1>9, <1>11 DEF SharedInv

LEMMA WriteKeeps ==
    ASSUME SharedInv, NEW t \in Turns, Write(t)
    PROVE  SharedInv'
<1>1. Turned /\ Locked BY DEF SharedInv
<1>2. turn[t].pc = "read" /\ UNCHANGED <<table, sessionVars>> BY DEF Write
<1>3. CASE Rollback(t) BY <1>2, <1>3, RollbackKeeps DEF InTransaction
<1>4. CASE ~TooMany(t) /\ writer = NoTurn /\ writer' = t /\ Goto(t, "written")
           /\ UNCHANGED <<connection, readers>>
  <2>1. PICK k \in TurnFields :
           /\ turn' = [turn EXCEPT ![t] = k] /\ k.pc = "written"
           /\ k.session = turn[t].session /\ k.from = turn[t].from
           /\ k.keep = turn[t].keep /\ k.found = turn[t].found
    BY <1>1, <1>4, GotoFields
  <2>2. TurnAt(turn[t]) /\ turn[t] \in TurnFields BY <1>1 DEF Turned
  <2>3. k.from # NoIndex => k.keep <= k.found
    <3>1. turn[t].keep \in Nat /\ turn[t].found \in Nat BY <2>2 DEF TurnFields
    <3> QED BY <1>4, <2>1, <3>1 DEF TooMany
  <2>4. TurnAt(k) BY <1>2, <2>1, <2>2, <2>3 DEF TurnAt, Running, Reading
  <2>5. /\ Stored' /\ Cached' /\ Counted' /\ Followed' /\ Turned' /\ OneTurnEach'
        /\ turn'[t] = k /\ \A u \in Turns : u # t => turn'[u] = turn[u]
        /\ \A u \in Turns : Process(u)' = Process(u)
    BY <1>2, <2>1, <2>4, TurnMoves DEF Running
  <2>6. \A u \in Turns : /\ InTransaction(u)' <=> InTransaction(u)
                         /\ Reading(turn'[u]) <=> Reading(turn[u])
                         /\ turn'[u].pc = "written" <=> u = t \/ turn[u].pc = "written"
    BY <1>2, <2>1, <2>5 DEF InTransaction, Reading
  <2>7. \A u \in Turns : turn'[u].pc = "written" <=> writer' = u
    BY <1>1, <1>4, <2>6, TranscriptAssumption DEF Locked
  <2>8. Locked' BY <1>1, <1>4, <2>5, <2>6, <2>7 DEF Locked
  <2> QED BY <2>5, <2>8 DEF SharedInv
<1> QED BY <1>3, <1>4 DEF Write

LEMMA CommitTimesOutKeeps ==
    ASSUME SharedInv, NEW t \in Turns, CommitTimesOut(t)
    PROVE  SharedInv'
BY RollbackKeeps DEF CommitTimesOut, InTransaction

(***************************************************************************)
(* The copy and the rows a commit leaves are those of whole turns.         *)
(***************************************************************************)
LEMMA CommittedCopy ==
    ASSUME NEW msgs \in Seq(Message), IsTranscript(msgs),
           NEW replace \in BOOLEAN, NEW keep \in Nat,
           replace => keep <= Len(msgs), keep % 2 = 0, NEW t \in Turns
    PROVE  /\ WithTurn(msgs, replace, keep, t, Reply(t, 1, TRUE)) \in Seq(Message)
           /\ IsTranscript(WithTurn(msgs, replace, keep, t, Reply(t, 1, TRUE)))
<1> DEFINE one == 1
           yes == TRUE
           reply == Reply(t, one, yes)
<1>1. one \in Nat /\ yes \in BOOLEAN /\ reply \in Message BY DEF Reply, Message
<1> HIDE DEF one, yes, reply
<1>2. WithTurn(msgs, replace, keep, t, reply) \in Seq(Message) BY <1>1, WithTurnType
<1> USE DEF reply
<1>3. IsTranscript(WithTurn(msgs, replace, keep, t, reply)) BY <1>1, WithTurnTranscript
<1> USE DEF one, yes
<1> QED BY <1>2, <1>3

(***************************************************************************)
(* A commit is counted at every session that has loaded, at all but one as *)
(* another's.                                                              *)
(***************************************************************************)
LEMMA CommitCounted ==
    ASSUME SharedInv, NEW t \in Turns, Commit(t)
    PROVE  /\ Counted'
           /\ turn'[t].from = turn[t].from /\ \A u \in Turns : u # t => turn'[u] = turn[u]
           /\ \A x \in Sessions : t \notin since[x]
           /\ \A x \in opened : /\ since'[x] = since[x] \cup {t}
                              /\ Others(x)' = Others(x) \cup {u \in {t} : x # turn[t].session}
<1> DEFINE s == turn[t].session
           reply == Reply(t, 1, TRUE)
<1>1. Stored /\ Cached /\ Counted /\ Turned BY DEF SharedInv
<1>2. /\ turn[t].pc = "written" /\ opened' = opened
      /\ since' = [u \in Sessions |-> IF u \in opened THEN since[u] \cup {t} ELSE {}]
  BY DEF Commit
<1>3. PICK k \in TurnFields :
         /\ turn' = [turn EXCEPT ![t] = k] /\ k.pc = "committed"
         /\ k.session = s /\ k.from = turn[t].from
  BY <1>1, GotoFields DEF Commit
<1>4. turn'[t] = k /\ \A u \in Turns : u # t => turn'[u] = turn[u]
  BY <1>1, <1>3 DEF Turned
<1>5. \A x \in Sessions : t \notin since[x] /\ since[x] \subseteq Turns
  BY <1>1, <1>2 DEF Counted
<1>6. opened \subseteq Sessions BY <1>1 DEF Cached
<1>7. ASSUME NEW x \in opened
      PROVE  /\ since'[x] = since[x] \cup {t}
             /\ Others(x)' = Others(x) \cup {u \in {t} : x # s}
  <2>1. x \in Sessions BY <1>6
  <2>2. since'[x] = since[x] \cup {t} BY <1>2, <2>1
  <2>3. \A u \in since[x] : turn'[u] = turn[u] BY <1>4, <1>5, <2>1
  <2>4. turn'[t].session = s BY <1>3, <1>4
  <2>5. Others(x)' = {u \in since[x] \cup {t} : turn'[u].session # x} BY <2>2 DEF Others
  <2> HIDE DEF s
  <2> QED BY <2>2, <2>3, <2>4, <2>5 DEF Others
<1>8. Counted'
  <2>1. since' \in [Sessions -> SUBSET Turns] BY <1>2, <1>5
  <2>2. \A x \in Sessions : x \notin opened' => since'[x] = {} BY <1>2
  <2>3. ASSUME NEW x \in Sessions, NEW u \in since'[x] PROVE turn'[u].pc = "committed"
    <3>1. u \in since[x] \/ u = t BY <1>2, <2>3
    <3>2. u \in since[x] => turn'[u] = turn[u] BY <1>4, <1>5
    <3> QED BY <1>1, <1>3, <1>4, <3>1, <3>2 DEF Counted
  <2>4. ASSUME NEW n \in DOMAIN table', NEW u \in Turns, table'[n].turn = u
        PROVE  turn'[u].pc = "committed"
    <3>1. PICK m \in 0..Len(table) :
             /\ DOMAIN table' = 1..(m + 2)
             /\ \A i \in 1..m : table'[i] = table[i]
             /\ table' = AtEnd(table, m, t, reply)
      BY CommitShape
    <3>2. table \in Seq(Message) /\ Len(table) \in Nat /\ DOMAIN table = 1..Len(table)
      BY <1>1, LenProperties DEF Stored
    <3>3. reply \in Message /\ reply.turn = t /\ Prompt(t).turn = t
      BY DEF Reply, Prompt, Message
    <3> HIDE DEF reply
    <3>4. table'[m + 1] = Prompt(t) /\ table'[m + 2] = reply
      <4>1. EndsWithTurn(table', table, m, t, reply) BY <3>1, <3>2, <3>3, AtEndShape
      <4> QED BY <4>1 DEF EndsWithTurn
    <3>5. n \in 1..m \/ n = m + 1 \/ n = m + 2 BY <2>4, <3>1, <3>2
    <3>6. CASE n \in 1..m
      <4>1. n \in DOMAIN table /\ table[n].turn = u BY <2>4, <3>1, <3>2, <3>6
      <4>2. turn[u].pc = "committed" BY <1>1, <4>1 DEF Counted
      <4> QED BY <1>2, <1>4, <4>2
    <3>7. CASE n = m + 1 \/ n = m + 2
      <4>1. u = t BY <2>4, <3>3, <3>4, <3>7
      <4> QED BY <1>3, <1>4, <4>1
    <3> QED BY <3>5, <3>6, <3>7
  <2> QED BY <2>1, <2>2, <2>3, <2>4 DEF Counted
<1> QED BY <1>3, <1>4, <1>5, <1>7, <1>8

(***************************************************************************)
(* A session that follows its rows does so after an append: its own brings *)
(* the turn to both, another's adds rows it does not show.                 *)
(***************************************************************************)
LEMMA CommitFollowed ==
    ASSUME SharedInv, NEW t \in Turns, Commit(t)
    PROVE  Followed'
<1> DEFINE s == turn[t].session
           reply == Reply(t, 1, TRUE)
           r == Len(table)
<1>1. Stored /\ Cached /\ Counted /\ Followed /\ Turned BY DEF SharedInv
<1>2. /\ turn[t].pc = "written" /\ opened' = opened
      /\ cache' = [cache EXCEPT ![s] =
                     WithTurn(@, turn[t].from # NoIndex, turn[t].keep, t, reply)]
  BY DEF Commit
<1>3. s \in opened /\ opened \subseteq Sessions /\ turn[t].keep \in Nat
  BY <1>1, <1>2 DEF Turned, TurnAt, TurnFields, Cached
<1>4. table \in Seq(Message) /\ r \in Nat /\ DOMAIN table = 1..r
  BY <1>1, LenProperties DEF Stored
<1> SUFFICES ASSUME NEW x \in opened, OnlyAppends(x)'
             PROVE  \E f : Follows(f, cache'[x], table', Shown(x)')
  BY <1>2 DEF Followed
<1>5. x \in Sessions /\ cache[x] \in Seq(Message) BY <1>1, <1>3 DEF Cached
<1>6. turn[t].from = NoIndex /\ OnlyAppends(x)
  <2>1. t \in since'[x] /\ turn'[t].from = turn[t].from BY CommitCounted
  <2>2. \A u \in since[x] : u \in since'[x] /\ turn'[u] = turn[u]
    BY <1>1, <1>5, CommitCounted DEF Counted
  <2> QED BY <2>1, <2>2 DEF OnlyAppends
<1>7. PICK f : Follows(f, cache[x], table, Shown(x)) BY <1>1, <1>6 DEF Followed
<1>8. /\ DOMAIN table' = 1..(r + 2)
      /\ \A n \in 1..r : table'[n] = table[n]
      /\ table' = AtEnd(table, r, t, reply)
  BY <1>6, CommitShape
<1>9. reply \in Message /\ reply.turn = t /\ Prompt(t).turn = t
  BY DEF Reply, Prompt, Message
<1> HIDE DEF reply
<1>10. table'[r + 1] = Prompt(t) /\ table'[r + 2] = reply
  <2>1. r \in 0..Len(table) BY <1>4
  <2>2. EndsWithTurn(table', table, r, t, reply) BY <1>4, <1>8, <1>9, <2>1, AtEndShape
  <2> QED BY <2>2 DEF EndsWithTurn
<1>11. ASSUME NEW n \in 1..r PROVE table[n].turn # t
  BY <1>1, <1>2, <1>4 DEF Counted
<1>12. Others(x)' = Others(x) \cup {u \in {t} : x # s} BY CommitCounted
<1>13. t \notin Others(x) BY <1>5, CommitCounted DEF Others
<1>14. Shown(x) = {n \in 1..r : table[n].turn \notin Others(x)} BY <1>4 DEF Shown
<1>15. Shown(x)' = {n \in 1..(r + 2) : table'[n].turn \notin Others(x)'} BY <1>8 DEF Shown
<1>16. \A n \in 1..(r + 2) : n \in 1..r \/ n = r + 1 \/ n = r + 2 BY <1>4
<1>17. r + 1 \in 1..(r + 2) /\ r + 2 \in 1..(r + 2) /\ 1..r \subseteq 1..(r + 2) BY <1>4
<1>18. CASE x = s
  <2>1. Shown(x)' = Shown(x) \cup {r + 1, r + 2}
    <3>1. Others(x)' = Others(x) BY <1>12, <1>18
    <3> HIDE DEF r, s
    <3> QED BY <1>8, <1>9, <1>10, <1>13, <1>14, <1>15, <1>16, <1>17, <3>1
  <2>2. cache'[x] = WithTurn(cache[x], FALSE, turn[t].keep, t, reply)
    <3>1. (turn[t].from # NoIndex) = FALSE BY <1>6
    <3>2. cache'[s] = WithTurn(cache[s], turn[t].from # NoIndex, turn[t].keep, t, reply)
      BY <1>1, <1>2, <1>3 DEF Cached
    <3> QED BY <1>18, <3>1, <3>2
  <2>3. Len(cache[x]) \in Nat BY <1>5
  <2>4. cache'[x] = AtEnd(cache[x], Len(cache[x]), t, reply)
    <3>1. WithTurn(cache[x], FALSE, turn[t].keep, t, reply)
            = AtEnd(cache[x], Len(cache[x]), t, reply)
      BY <1>5, AppendAtEnd, Zenon
    <3> QED BY <2>2, <3>1
  <2>5. /\ Len(cache'[x]) = Len(cache[x]) + 2
        /\ \A i \in 1..Len(cache[x]) : cache'[x][i] = cache[x][i]
        /\ cache'[x][Len(cache[x]) + 1] = Prompt(t)
        /\ cache'[x][Len(cache[x]) + 2] = reply
    <3>1. Len(cache[x]) \in 0..Len(cache[x]) BY <2>3
    <3>2. EndsWithTurn(cache'[x], cache[x], Len(cache[x]), t, reply)
      BY <1>5, <1>9, <2>4, <3>1, AtEndShape
    <3> QED BY <3>2 DEF EndsWithTurn
  <2>6. Shown(x) \in SUBSET (1..Len(table)) BY <1>14
  <2>7. \E g : Follows(g, cache'[x], table', Shown(x) \cup {Len(table) + 1, Len(table) + 2})
    <3>1. PICK c, c2, K, rows2 :
             c = cache[x] /\ c2 = cache'[x] /\ K = Shown(x) /\ rows2 = table'
      OBVIOUS
    <3>2. /\ c \in Seq(Message) /\ K \in SUBSET (1..Len(table)) /\ Follows(f, c, table, K)
          /\ Len(c2) = Len(c) + 2 /\ \A i \in 1..Len(c) : c2[i] = c[i]
          /\ \A n \in 1..Len(table) : rows2[n] = table[n]
          /\ c2[Len(c) + 1] = rows2[Len(table) + 1]
          /\ c2[Len(c) + 2] = rows2[Len(table) + 2]
      BY <1>5, <1>7, <1>8, <1>10, <2>5, <2>6, <3>1
    <3>3. \E g : Follows(g, c2, rows2, K \cup {Len(table) + 1, Len(table) + 2})
      BY ONLY <1>4, <3>2, FollowsAppended
    <3> QED BY <3>1, <3>3
  <2> QED BY <2>1, <2>7
<1>19. CASE x # s
  <2>1. Shown(x)' = Shown(x)
    <3>1. Others(x)' = Others(x) \cup {t} BY <1>12, <1>19
    <3> HIDE DEF r, s
    <3> QED BY <1>8, <1>9, <1>10, <1>11, <1>14, <1>15, <1>16, <1>17, <3>1
  <2>2. cache'[x] = cache[x] BY <1>1, <1>2, <1>5, <1>19 DEF Cached
  <2>3. Follows(f, cache[x], table', Shown(x))
    <3>1. Shown(x) \subseteq 1..r BY <1>14
    <3>2. \A i \in 1..Len(cache[x]) : table'[f[i]] = table[f[i]]
      BY <1>7, <1>8, <3>1 DEF Follows
    <3> QED BY <1>7, <3>2 DEF Follows
  <2> QED BY <2>1, <2>2, <2>3
<1> QED BY <1>18, <1>19

LEMMA CommitKeeps ==
    ASSUME SharedInv, NEW t \in Turns, Commit(t)
    PROVE  SharedInv'
<1> DEFINE reply == Reply(t, 1, TRUE)
<1>1. Stored /\ Cached /\ Turned /\ OneTurnEach /\ Locked BY DEF SharedInv
<1>2. turn[t] \in TurnFields /\ TurnAt(turn[t]) /\ turn[t].pc = "written"
  BY <1>1 DEF Turned, Commit
<1>3. PICK s \in Sessions, replace \in BOOLEAN, keep \in Nat :
         /\ s = turn[t].session /\ replace = (turn[t].from # NoIndex) /\ keep = turn[t].keep
         /\ s \in opened /\ keep % 2 = 0
         /\ keep <= Len(cache[s])
         /\ replace => keep <= Len(table)
  <2>1. /\ turn[t].session \in opened /\ turn[t].session \in Sessions
        /\ turn[t].keep \in Nat /\ turn[t].keep % 2 = 0
        /\ turn[t].keep <= Len(cache[turn[t].session])
        /\ turn[t].from # NoIndex => turn[t].keep <= Len(table)
    BY <1>1, <1>2 DEF TurnAt, Running, Reading, TurnFields, Cached
  <2> QED BY <2>1
<1>4. /\ turn[t].pc = "written" /\ readers \subseteq {t} /\ opened' = opened
      /\ cache' = [cache EXCEPT ![s] = WithTurn(cache[s], replace, keep, t, reply)]
      /\ connection' = [connection EXCEPT ![Process(t)] = NoTurn]
      /\ readers' = {} /\ writer' = NoTurn
  BY <1>3 DEF Commit
<1>5. PICK k \in TurnFields :
         /\ turn' = [turn EXCEPT ![t] = k] /\ k.pc = "committed" /\ k.session = s
  BY <1>1, <1>3, GotoFields DEF Commit
<1>6. /\ turn' \in [Turns -> TurnFields]
      /\ turn'[t] = k /\ \A u \in Turns : u # t => turn'[u] = turn[u]
      /\ \A u \in Turns : Process(u)' = Process(u)
  <2>1. turn \in [Turns -> TurnFields] BY <1>1 DEF Turned
  <2>2. /\ turn' \in [Turns -> TurnFields]
        /\ turn'[t] = k /\ \A u \in Turns : u # t => turn'[u] = turn[u]
    BY <1>5, <2>1
  <2>3. \A u \in Turns : turn'[u].session = turn[u].session BY <1>3, <1>5, <2>2
  <2> QED BY <2>2, <2>3 DEF Process
<1>7. table' = WithTurn(table, replace, keep, t, reply)
  <2>1. PICK m \in 0..Len(table) :
           /\ replace => m = keep
           /\ ~replace => m = Len(table)
           /\ table' = AtEnd(table, m, t, reply)
    BY <1>3, CommitShape
  <2>2. table \in Seq(Message) BY <1>1 DEF Stored
  <2> HIDE DEF reply
  <2>3. CASE replace
    <3>1. WithTurn(table, replace, keep, t, reply) = AtEnd(table, keep, t, reply)
      <4>1. replace = TRUE BY <2>3
      <4> QED BY <4>1, ReplaceAtEnd, Zenon
    <3> QED BY <2>1, <2>3, <3>1
  <2>4. CASE ~replace
    <3>1. WithTurn(table, replace, keep, t, reply) = AtEnd(table, Len(table), t, reply)
      <4>1. replace = FALSE BY <2>4
      <4> QED BY <2>2, <4>1, AppendAtEnd, Zenon
    <3> QED BY <2>1, <2>4, <3>1
  <2> QED BY <2>3, <2>4
<1> HIDE DEF reply
<1>8. \A msgs \in Seq(Message) :
         IsTranscript(msgs) /\ (replace => keep <= Len(msgs))
         => /\ WithTurn(msgs, replace, keep, t, reply) \in Seq(Message)
            /\ IsTranscript(WithTurn(msgs, replace, keep, t, reply))
  BY <1>3, CommittedCopy DEF reply
<1>9. Stored'
  <2>1. table \in Seq(Message) /\ IsTranscript(table) BY <1>1 DEF Stored
  <2>2. replace => keep <= Len(table) BY <1>3
  <2>3. table' \in Seq(Message) /\ IsTranscript(table') BY <1>7, <1>8, <2>1, <2>2
  <2> QED BY <2>3 DEF Stored
<1>10. /\ cache' \in [Sessions -> Seq(Message)]
       /\ cache'[s] = WithTurn(cache[s], replace, keep, t, reply)
       /\ IsTranscript(cache'[s])
       /\ \A x \in Sessions : x # s => cache'[x] = cache[x]
  <2>1. cache[s] \in Seq(Message) /\ IsTranscript(cache[s]) BY <1>1, <1>3 DEF Cached
  <2>2. /\ WithTurn(cache[s], replace, keep, t, reply) \in Seq(Message)
        /\ IsTranscript(WithTurn(cache[s], replace, keep, t, reply))
    BY <1>3, <1>8, <2>1
  <2> QED BY <1>1, <1>4, <1>3, <2>2 DEF Cached
<1>11. Cached'
  <2>1. \A x \in opened : Others(x)' = Others(x) \cup {u \in {t} : x # s}
    BY <1>3, CommitCounted
  <2>2. Others(s)' = {} => Others(s) = {} BY <1>3, <2>1
  <2>3. \A x \in opened : x # s => Others(x)' # {} BY <2>1
  <2>4. ASSUME NEW x \in Sessions
        PROVE  IsTranscript(cache'[x]) /\ (x \in opened /\ Others(x)' = {} => cache'[x] = table')
    <3>1. CASE x = s
      <4>1. Others(s) = {} => cache[s] = table BY <1>1, <1>3 DEF Cached
      <4> QED BY <1>7, <1>10, <2>2, <3>1, <4>1
    <3>2. CASE x # s BY <1>1, <1>10, <2>3, <3>2 DEF Cached
    <3> QED BY <3>1, <3>2
  <2> QED BY <1>1, <1>4, <1>10, <2>4 DEF Cached
<1>12. Turned'
  <2>1. ASSUME NEW u \in Turns PROVE TurnAt(turn[u])'
    <3>1. CASE u = t
      <4>1. turn'[u] = k BY <1>6, <3>1
      <4> QED BY <1>4, <1>3, <1>5, <4>1 DEF TurnAt, Running, Reading
    <3>2. CASE u # t
      <4>1. turn'[u] = turn[u] /\ TurnAt(turn[u]) BY <1>1, <1>6, <3>2 DEF Turned
      <4>2. ~Reading(turn[u]) BY <1>1, <1>4, <3>2 DEF Locked
      <4>3. Running(turn[u]) => turn[u].session \in Sessions /\ turn[u].session # s
        <5>1. Running(turn[u]) => turn[u].session # s
          BY <1>1, <1>2, <1>3, <3>2 DEF OneTurnEach, Running
        <5> QED BY <1>1, <4>1, <5>1 DEF TurnAt, Running, Cached
      <4>4. Running(turn[u]) => cache'[turn[u].session] = cache[turn[u].session]
        BY <1>10, <4>3
      <4> QED BY <1>4, <4>1, <4>2, <4>4 DEF TurnAt, Reading
    <3> QED BY <3>1, <3>2
  <2> QED BY <1>6, <2>1 DEF Turned
<1>13. OneTurnEach'
  <2>1. \A u \in Turns : Running(turn'[u]) => turn'[u] = turn[u] BY <1>5, <1>6 DEF Running
  <2> QED BY <1>1, <2>1 DEF OneTurnEach
<1>14. Locked'
  <2>1. InTransaction(t) BY <1>4 DEF InTransaction
  <2>2. writer = t BY <1>1, <1>4 DEF Locked
  <2>3. readers' = readers \ {t} /\ writer' = IF writer = t THEN NoTurn ELSE writer
    BY <1>4, <2>2
  <2> QED BY <1>1, <1>4, <1>5, <1>6, <2>1, <2>3, TransactionEnds
<1>15. Counted' /\ Followed' BY CommitCounted, CommitFollowed
<1> QED BY <1>9, <1>11, <1>12, <1>13, <1>14, <1>15 DEF SharedInv

----------------------------------------------------------------------------
(***************************************************************************)
(* Nobody has loaded the history yet, and every step keeps the invariant.  *)
(***************************************************************************)
LEMMA SharedInit == Init => SharedInv
<1> SUFFICES ASSUME Init PROVE SharedInv OBVIOUS
<1>1. table = History
  <2>1. History = [i \in 1..Len(History) |-> History[i]]
    BY TranscriptAssumption, LenProperties
  <2> QED BY <2>1 DEF Init, RowsOf
<1>2. Stored BY <1>1, TranscriptAssumption DEF Stored
<1>3. Cached
  <2>1. <<>> \in Seq(Message) /\ IsTranscript(<<>>) BY DEF IsTranscript
  <2> QED BY <2>1 DEF Init, Cached
<1>4. Counted /\ Followed
  BY <1>1, TranscriptAssumption, LenProperties DEF Init, Counted, Followed
<1>5. Turned
  <2>1. NewTurn \in TurnFields BY DEF NewTurn, TurnFields
  <2>2. TurnAt(NewTurn) BY DEF TurnAt, NewTurn, Running, Reading
  <2> QED BY <2>1, <2>2 DEF Init, Turned
<1>6. \A t \in Turns : turn[t].pc = "idle" BY DEF Init, NewTurn
<1>7. OneTurnEach BY <1>6 DEF OneTurnEach, Running
<1>8. Locked BY <1>6, TranscriptAssumption DEF Init, Locked, InTransaction, Reading
<1> QED BY <1>2, <1>3, <1>4, <1>5, <1>7, <1>8 DEF SharedInv

LEMMA SharedNext == SharedInv /\ [Next]_vars => SharedInv'
<1> SUFFICES ASSUME SharedInv, [Next]_vars PROVE SharedInv' OBVIOUS
<1>1. ASSUME NEW s \in Sessions, Open(s) PROVE SharedInv' BY <1>1, OpenKeeps
<1>2. ASSUME NEW s \in Sessions, NEW t \in Turns, Ask(s, t) PROVE SharedInv' BY <1>2, AskKeeps
<1>3. ASSUME NEW t \in Turns, GiveUp(t) PROVE SharedInv' BY <1>3, GiveUpKeeps
<1>4. ASSUME NEW t \in Turns, Begin(t) PROVE SharedInv' BY <1>4, BeginKeeps
<1>5. ASSUME NEW t \in Turns, Read(t) PROVE SharedInv' BY <1>5, ReadKeeps
<1>6. ASSUME NEW t \in Turns, Write(t) PROVE SharedInv' BY <1>6, WriteKeeps
<1>7. ASSUME NEW t \in Turns, Commit(t) PROVE SharedInv' BY <1>7, CommitKeeps
<1>8. ASSUME NEW t \in Turns, CommitTimesOut(t) PROVE SharedInv' BY <1>8, CommitTimesOutKeeps
<1>9. CASE UNCHANGED vars
  <2>1. Stored' /\ Cached' /\ Counted' /\ Followed'
    BY <1>9, CopiesStay DEF vars, SharedInv, sessionVars
  <2>2. Turned' /\ OneTurnEach' /\ Locked'
    BY <1>9 DEF vars, SharedInv, Turned, TurnAt, OneTurnEach, Locked, InTransaction, Process
  <2> QED BY <2>1, <2>2 DEF SharedInv
<1> QED
  BY <1>1, <1>2, <1>3, <1>4, <1>5, <1>6, <1>7, <1>8, <1>9 DEF Next, StoreStep

LEMMA SharedInvHolds == Spec => []SharedInv
BY SharedInit, SharedNext, PTL DEF Spec

----------------------------------------------------------------------------
(***************************************************************************)
(* Whatever the sessions replace from their outdated copies, the sequence  *)
(* numbers have no gap, the rows are whole turns, and every transaction    *)
(* has the locks its place calls for (AppendTurn, ReplaceTailAndAppendTurn *)
(* in internal/storage/sqlite.go).                                         *)
(***************************************************************************)
THEOREM TableStaysTranscript == Spec => []TableIsTranscript
<1>1. SharedInv => TableIsTranscript
  <2> SUFFICES ASSUME SharedInv PROVE TableIsTranscript OBVIOUS
  <2>1. Stored /\ Cached /\ Counted /\ Turned /\ Locked BY DEF SharedInv
  <2>2. /\ table \in Seq(Message) /\ Messages(table) = table
        /\ Cardinality(DOMAIN table) = Len(table)
    BY <2>1, RowsAsSequence DEF Stored
  <2>3. DOMAIN table = 1..Len(table) /\ Len(table) \in Nat BY <2>2, LenProperties
  <2>4. \A n \in DOMAIN table : table[n] \in Message BY <2>2, <2>3, ElementOfSeq
  <2>5. DOMAIN table \subseteq Nat \ {0} BY <2>3
  <2>6. ASSUME NEW t \in Turns
        PROVE  InTransaction(t) <=> \E p \in Processes : connection[p] = t
    <3>1. InTransaction(t) => turn[t].session \in Sessions
      BY <2>1 DEF InTransaction, Turned, TurnAt, Cached
    <3>2. InTransaction(t) => Process(t) \in Processes
      BY <3>1, ProcessAssumption DEF Process
    <3> QED BY <2>1, <3>2 DEF Locked
  <2>7. \A t \in Turns : t \in readers => InTransaction(t)
    BY <2>1 DEF Locked, Reading, InTransaction
  <2>8. TypeOK BY <2>1, <2>4, <2>5, <2>6, <2>7 DEF TypeOK, Cached, Counted, Turned, Locked
  <2> QED BY <2>1, <2>2, <2>3, <2>8 DEF TableIsTranscript, Stored
<1> QED BY <1>1, SharedInvHolds, PTL

(***************************************************************************)
(* What a session shows is what is stored but for the turns that others    *)
(* have committed since it loaded, whatever the transactions met: all of   *)
(* it, while it alone has written, replacements included; and while nobody *)
(* replaces a tail, a stale copy lacks those turns and nothing else, in    *)
(* the stored order (commitAssistant in internal/chat/service.go beside    *)
(* AppendTurn in internal/storage/sqlite.go).                              *)
(***************************************************************************)
THEOREM StaleCopyLacksOnlyOthers == Spec => []CopyLacksOnlyOthers
<1>1. SharedInv => CopyLacksOnlyOthers
  <2> SUFFICES ASSUME SharedInv, NEW s \in opened,
                      Others(s) = {} \/ \A t \in since[s] : turn[t].from = NoIndex
               PROVE  cache[s] = Messages([n \in Shown(s) |-> table[n]])
    BY DEF CopyLacksOnlyOthers
  <2>1. Stored /\ Cached /\ Followed BY DEF SharedInv
  <2>2. s \in Sessions /\ cache[s] \in Seq(Message) BY <2>1 DEF Cached
  <2>3. table \in Seq(Message) /\ DOMAIN table = 1..Len(table) /\ Len(table) \in Nat
    BY <2>1, LenProperties DEF Stored
  <2>4. CASE Others(s) = {}
    <3>1. Shown(s) = DOMAIN table BY <2>4 DEF Shown
    <3>2. table = [n \in Shown(s) |-> table[n]] BY <2>3, <3>1
    <3>3. Messages(table) = table BY <2>3, RowsAsSequence
    <3>4. cache[s] = table BY <2>1, <2>2, <2>4 DEF Cached
    <3> QED BY <3>2, <3>3, <3>4
  <2>5. CASE OnlyAppends(s)
    <3>1. PICK f : Follows(f, cache[s], table, Shown(s)) BY <2>1, <2>5 DEF Followed
    <3>2. Shown(s) \in SUBSET Nat BY <2>3 DEF Shown
    <3> QED BY <2>2, <3>1, <3>2, FollowedRowsAreRead
  <2> QED BY <2>4, <2>5 DEF OnlyAppends
<1> QED BY <1>1, SharedInvHolds, PTL

----------------------------------------------------------------------------
(***************************************************************************)
(* What each step does to the rows and to the turns that are not settled.  *)
(***************************************************************************)
Pending == {t \in Turns : turn[t].pc \notin {"committed", "failed"}}

\* A turn that is settled in a step leaves the pending ones; one that goes on does not.
LEMMA PendingMoves ==
    ASSUME Turned, NEW t \in Turns, turn[t].pc \notin {"committed", "failed"},
           \A u \in Turns : u # t => turn'[u] = turn[u]
    PROVE  /\ turn'[t].pc \in {"committed", "failed"} => Pending' = Pending \ {t}
           /\ turn'[t].pc \notin {"committed", "failed"} => Pending' = Pending
           /\ t \in Pending
BY DEF Pending

LEMMA GotoMoves ==
    ASSUME Turned, NEW t \in Turns, NEW pc \in {"begun", "written", "committed", "failed"},
           Goto(t, pc)
    PROVE  turn'[t].pc = pc /\ \A u \in Turns : u # t => turn'[u] = turn[u]
<1>1. PICK k \in TurnFields : turn' = [turn EXCEPT ![t] = k] /\ k.pc = pc BY GotoFields
<1> QED BY <1>1 DEF Turned

LEMMA StepOnRows ==
    ASSUME SharedInv, [Next]_vars
    PROVE  \/ table' = table /\ Pending' = Pending
           \/ \E t \in Pending : table' = table /\ Pending' = Pending \ {t}
           \/ \E t \in Pending : Commit(t) /\ Pending' = Pending \ {t}
<1> DEFINE Stutters == table' = table /\ Pending' = Pending
           Settles(t) == t \in Pending /\ table' = table /\ Pending' = Pending \ {t}
<1>0. Turned BY DEF SharedInv
<1>1. ASSUME NEW s \in Sessions, Open(s) PROVE Stutters BY <1>1 DEF Open, dbVars, Pending
<1>2. ASSUME NEW s \in Sessions, NEW t \in Turns, Ask(s, t) PROVE Stutters
  <2>1. turn[t] \in TurnFields /\ turn[t].pc = "idle" BY <1>0, <1>2 DEF Turned, Ask, Fresh
  <2>2. PICK from \in ReplaceFroms :
           turn' = [turn EXCEPT ![t] =
                      [turn[t] EXCEPT !.pc = "asking", !.session = s, !.from = from,
                                      !.keep = KeepFor(cache[s], from),
                                      !.sent = SubSeq(cache[s], 1, KeepFor(cache[s], from))]]
    BY <1>2 DEF Ask
  <2>3. turn'[t].pc = "asking" /\ \A u \in Turns : u # t => turn'[u] = turn[u]
    BY <1>0, <2>1, <2>2 DEF Turned, TurnFields
  <2>4. table' = table BY <1>2 DEF Ask, dbVars
  <2> QED BY <1>0, <2>1, <2>3, <2>4, PendingMoves
<1>3. ASSUME NEW t \in Turns, GiveUp(t) PROVE Settles(t)
  BY <1>0, <1>3, GotoMoves, PendingMoves DEF GiveUp, dbVars
<1>4. ASSUME NEW t \in Turns, Begin(t) PROVE Stutters
  BY <1>0, <1>4, GotoMoves, PendingMoves DEF Begin
<1>5. ASSUME NEW t \in Turns, Read(t) PROVE Stutters
  <2>1. turn[t] \in TurnFields /\ turn[t].pc = "begun" BY <1>0, <1>5 DEF Turned, Read
  <2>2. turn'[t].pc = "read" /\ \A u \in Turns : u # t => turn'[u] = turn[u]
    BY <1>0, <1>5, <2>1 DEF Turned, TurnFields, Read
  <2> QED BY <1>0, <1>5, <2>1, <2>2, PendingMoves DEF Read
<1>6. ASSUME NEW t \in Turns, Write(t) PROVE Stutters \/ Settles(t)
  <2>1. turn[t].pc = "read" /\ table' = table BY <1>6 DEF Write
  <2>2. CASE Goto(t, "written") BY <1>0, <2>1, <2>2, GotoMoves, PendingMoves
  <2>3. CASE Rollback(t) BY <1>0, <2>1, <2>3, GotoMoves, PendingMoves DEF Rollback
  <2> QED BY <1>6, <2>2, <2>3 DEF Write
<1>7. ASSUME NEW t \in Turns, Commit(t) PROVE t \in Pending /\ Pending' = Pending \ {t}
  BY <1>0, <1>7, GotoMoves, PendingMoves DEF Commit
<1>8. ASSUME NEW t \in Turns, CommitTimesOut(t) PROVE Settles(t)
  BY <1>0, <1>8, GotoMoves, PendingMoves DEF CommitTimesOut, Rollback
<1>9. CASE UNCHANGED vars BY <1>9 DEF vars, Pending
<1> QED
  BY <1>1, <1>2, <1>3, <1>4, <1>5, <1>6, <1>7, <1>8, <1>9 DEF Next, StoreStep

(***************************************************************************)
(* A row disappears only behind the position a replacement names.          *)
(***************************************************************************)
THEOREM AppendsRemoveNothing == Spec => OnlyReplacementsRemove
<1> DEFINE RowStays(n) ==
          \/ n \in DOMAIN table' /\ table'[n] = table[n]
          \/ \E t \in Turns : /\ turn[t].pc = "written" /\ turn'[t].pc = "committed"
                              /\ turn[t].from # NoIndex /\ n > turn[t].keep
<1>1. SharedInv /\ [Next]_vars => \A n \in DOMAIN table : RowStays(n)
  <2> SUFFICES ASSUME SharedInv, [Next]_vars, NEW n \in DOMAIN table PROVE RowStays(n)
    OBVIOUS
  <2>1. CASE table' = table BY <2>1
  <2>2. ASSUME NEW t \in Turns, Commit(t) PROVE RowStays(n)
    <3>1. PICK m \in 0..Len(table) :
             /\ turn[t].from # NoIndex => m = turn[t].keep
             /\ turn[t].from = NoIndex => m = Len(table)
             /\ DOMAIN table' = 1..(m + 2)
             /\ \A i \in 1..m : table'[i] = table[i]
      BY <2>2, CommitShape
    <3>2. /\ table \in Seq(Message) /\ n \in 1..Len(table) /\ Len(table) \in Nat
      BY LenProperties DEF SharedInv, Stored
    <3>3. CASE n <= m BY <3>1, <3>2, <3>3
    <3>4. CASE n > m
      <4>1. turn[t].from # NoIndex /\ n > turn[t].keep BY <3>1, <3>2, <3>4
      <4>2. turn[t].pc = "written" /\ turn'[t].pc = "committed"
        BY <2>2, GotoMoves DEF Commit, SharedInv
      <4> QED BY <4>1, <4>2
    <3> QED BY <3>2, <3>3, <3>4
  <2> QED BY <2>1, <2>2, StepOnRows DEF Pending
<1>2. SharedInv /\ [Next]_vars
        => [\A n \in DOMAIN table : RowStays(n)]_vars
  BY <1>1
<1> QED BY <1>2, SharedInvHolds, PTL DEF Spec, OnlyReplacementsRemove

(***************************************************************************)
(* Whatever sessions and processes share the table, every behaviour is one *)
(* of the conversation log: whole turns, each at most once and never after *)
(* it failed.                                                              *)
(***************************************************************************)
THEOREM SharedTableIsLog == Spec => SharedLog
<1>1. SharedInv => Messages(table) = table BY RowsAsSequence DEF SharedInv, Stored
<1>2. Init => Log!LogInit
  <2> SUFFICES ASSUME Init PROVE Messages(table) = History /\ Pending = Turns
    BY DEF Log!LogInit, Pending
  <2>1. Pending = Turns BY DEF Init, NewTurn, Pending
  <2>2. History = [i \in 1..Len(History) |-> History[i]]
    BY TranscriptAssumption, LenProperties
  <2> QED BY <1>1, <2>1, <2>2, SharedInit DEF Init, RowsOf
<1>3. SharedInv /\ SharedInv' /\ [Next]_vars => [Log!LogNext]_(Log!logVars)
  <2> SUFFICES ASSUME SharedInv, SharedInv', [Next]_vars
               PROVE  \/ \E t \in Turns : Log!CommitTurn(t) \/ Log!GiveUpTurn(t)
                      \/ UNCHANGED <<Messages(table), Pending>>
    BY DEF Log!LogNext, Log!logVars, Pending
  <2>1. Messages(table) = table /\ Messages(table)' = table' BY <1>1, RowsAsSequence DEF SharedInv, Stored
  <2>2. ASSUME NEW t \in Pending, table' = table, Pending' = Pending \ {t}
        PROVE  Log!GiveUpTurn(t)
    BY <2>1, <2>2 DEF Log!GiveUpTurn, Pending
  <2>3. ASSUME NEW t \in Pending, Commit(t), Pending' = Pending \ {t}
        PROVE  Log!CommitTurn(t)
    <3>1. t \in Turns BY DEF Pending
    <3>2. PICK m \in 0..Len(table) :
             /\ m % 2 = 0
             /\ table' = AtEnd(table, m, t, Reply(t, 1, TRUE))
      BY <2>3, <3>1, CommitShape
    <3>3. Log!Prompt(t) = Prompt(t) /\ Log!Reply(t, 1, TRUE) = Reply(t, 1, TRUE)
      BY DEF Prompt, Reply, Log!Prompt, Log!Reply
    <3>4. \E keep \in 0..Len(table), parts \in 0..1, completed \in BOOLEAN :
             /\ keep % 2 = 0
             /\ table' = SubSeq(table, 1, keep)
                           \o <<Log!Prompt(t), Log!Reply(t, parts, completed)>>
      <4>1. 1 \in 0..1 /\ TRUE \in BOOLEAN OBVIOUS
      <4>2. table' = SubSeq(table, 1, m) \o <<Log!Prompt(t), Log!Reply(t, 1, TRUE)>>
        BY <3>2, <3>3, Zenon DEF AtEnd
      <4> QED BY <3>2, <4>1, <4>2
    <3> QED BY <2>1, <2>3, <3>4 DEF Log!CommitTurn, Pending
  <2> QED BY <2>1, <2>2, <2>3, StepOnRows DEF Pending
<1>4. Spec => Log!LogInit /\ [][Log!LogNext]_(Log!logVars)
  BY <1>2, <1>3, SharedInvHolds, PTL DEF Spec
<1> QED BY <1>4 DEF SharedLog, Log!LogSpec
=============================================================================
