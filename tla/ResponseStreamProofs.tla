------------------------ MODULE ResponseStreamProofs -----------------------
(***************************************************************************)
(* The safety properties of ResponseStream, for services that send any     *)
(* number of items, of any number of contents, each in any way. What       *)
(* reading a run of events delivers is computed along the run; a response  *)
(* read from its beginning delivers its whole text, once, by induction on  *)
(* its chunks, its contents and its items. The invariant is that what has  *)
(* been put together, and what the events still on their way deliver, is   *)
(* that text. A second invariant follows the reasoning of the replies from *)
(* the response into the next request.                                     *)
(***************************************************************************)
EXTENDS ResponseStream, SequenceTheorems, FiniteSetTheorems, TLAPS

----------------------------------------------------------------------------
(***************************************************************************)
(* Induction over the numbers, from the least element of a set of them:    *)
(* the sets 0..k of its elements are well founded by inclusion.            *)
(***************************************************************************)
LEMMA LeastIndex ==
    ASSUME NEW S \in SUBSET Nat, S # {}
    PROVE  \E m \in S : \A k \in S : m <= k
<1> DEFINE T == {0..k : k \in S}
           R == StrictSubsetOrdering(Nat)
<1>1. IsWellFoundedOn(R, FiniteSubsetsOf(Nat)) BY FS_StrictSubsetOrderingWellFounded
<1>2. T \subseteq FiniteSubsetsOf(Nat) /\ T # {}
  <2>1. \A k \in S : 0..k \in SUBSET Nat /\ IsFiniteSet(0..k) BY FS_Interval
  <2> QED BY <2>1 DEF FiniteSubsetsOf
<1> HIDE DEF R
<1>3. PICK x \in T : \A y \in T : <<y, x>> \notin R BY <1>1, <1>2, WFMin
<1>4. PICK m \in S : x = 0..m BY <1>3
<1>5. ASSUME NEW k \in S, k < m PROVE FALSE
  <2>1. <<0..k, 0..m>> \in R
    <3>1. 0..k \subseteq 0..m /\ 0..k # 0..m
      <4>1. m \in 0..m /\ m \notin 0..k BY <1>5
      <4>2. 0..k \subseteq 0..m BY <1>5
      <4> QED BY <4>1, <4>2
    <3> QED BY <3>1 DEF R, StrictSubsetOrdering
  <2> QED BY <2>1, <1>3, <1>4
<1> QED BY <1>5

\* A set of numbers with 0 and the successor of each of its numbers has them
\* all.
LEMMA Induction ==
    ASSUME NEW S \in SUBSET Nat, 0 \in S, \A n \in S : n + 1 \in S
    PROVE  S = Nat
<1> SUFFICES ASSUME Nat \ S # {} PROVE FALSE OBVIOUS
<1>1. PICK m \in Nat \ S : \A k \in Nat \ S : m <= k BY LeastIndex
<1>2. m # 0 BY <1>1
<1>3. m - 1 \in Nat /\ m - 1 \in S BY <1>1, <1>2
<1> QED BY <1>1, <1>3

\* The maximum of a bounded set is one of its elements.
LEMMA MaxIsElement ==
    ASSUME NEW n \in Nat, NEW S \in SUBSET (0..n), S # {}
    PROVE  Max(S) \in S
<1> DEFINE T == {n - k : k \in S}
<1>1. T \in SUBSET Nat /\ T # {}
  <2>1. \A k \in S : k \in 0..n OBVIOUS
  <2>2. \A k \in S : n - k \in Nat BY <2>1
  <2> QED BY <2>2
<1>2. PICK m \in T : \A k \in T : m <= k
  <2> HIDE DEF T
  <2> QED BY <1>1, LeastIndex
<1>3. PICK x \in S : m = n - x BY <1>2
<1>4. \A y \in S : x >= y
  <2>1. \A y \in S : n - x <= n - y BY <1>2, <1>3
  <2> QED BY <2>1, <1>3
<1> QED BY <1>4 DEF Max

LEMMA ThreeSequences ==
    ASSUME NEW S, NEW a \in Seq(S), NEW b \in Seq(S), NEW c \in Seq(S)
    PROVE  (a \o b) \o c = a \o (b \o c)
BY ConcatAssociative

----------------------------------------------------------------------------
(***************************************************************************)
(* FlattenSeq: of nothing, and of one sequence more.                       *)
(***************************************************************************)
Flattened(s, f) == f = [i \in 1..Len(s) |-> IF i = 1 THEN s[i] ELSE f[i - 1] \o s[i]]

\* The function FlattenSeq chooses exists, for every sequence of sequences.
LEMMA FlattenExists ==
    ASSUME NEW S, NEW s \in Seq(Seq(S))
    PROVE  \E f : Flattened(s, f)
<1> DEFINE F(n, f) == f = [i \in 1..n |-> IF i = 1 THEN s[i] ELSE f[i - 1] \o s[i]]
           Q(n) == \E f : F(n, f)
           N == {n \in Nat : Q(n)}
<1>1. Q(0)
  <2>1. F(0, [i \in 1..0 |-> i]) OBVIOUS
  <2> QED BY <2>1
<1>2. ASSUME NEW n \in Nat, Q(n) PROVE Q(n + 1)
  <2>1. PICK f : F(n, f) BY <1>2
  <2>2. \A i \in 1..n : f[i] = IF i = 1 THEN s[i] ELSE f[i - 1] \o s[i] BY <2>1
  <2> DEFINE g == [i \in 1..n + 1 |->
                     IF i = 1 THEN s[i] ELSE IF i <= n THEN f[i] ELSE f[n] \o s[i]]
  <2>3. \A i \in 1..n + 1 : g[i] = IF i = 1 THEN s[i] ELSE IF i <= n THEN f[i] ELSE f[n] \o s[i]
    OBVIOUS
  <2>4. g = [i \in 1..n + 1 |->
               IF i = 1 THEN s[i] ELSE IF i <= n THEN f[i] ELSE f[n] \o s[i]]
    OBVIOUS
  <2> HIDE DEF g
  <2>5. \A i \in 1..n : g[i] = f[i] BY <2>2, <2>3
  <2>6. ASSUME NEW i \in 1..n + 1
        PROVE  g[i] = IF i = 1 THEN s[i] ELSE g[i - 1] \o s[i]
    <3>1. CASE i = 1 BY <3>1, <2>3
    <3>2. CASE i # 1 /\ i <= n
      <4>1. i - 1 \in 1..n /\ i \in 1..n BY <3>2
      <4> QED BY <4>1, <2>5, <2>2, <3>2
    <3>3. CASE i # 1 /\ i = n + 1
      <4>1. n \in 1..n /\ i - 1 = n /\ ~(i <= n) BY <3>3
      <4> QED BY <4>1, <2>5, <2>3, <3>3
    <3> QED BY <3>1, <3>2, <3>3
  <2>7. g = [i \in 1..n + 1 |-> IF i = 1 THEN s[i] ELSE g[i - 1] \o s[i]] BY <2>3, <2>4, <2>6
  <2> QED BY <2>7
<1> HIDE DEF Q
<1>3. N \in SUBSET Nat /\ 0 \in N /\ \A n \in N : n + 1 \in N BY <1>1, <1>2
<1>4. N = Nat
  <2> HIDE DEF N
  <2> QED BY <1>3, Induction
<1>5. Q(Len(s))
  <2>1. Len(s) \in N BY <1>4
  <2> QED BY <2>1
<1> QED BY <1>5 DEF Q, Flattened

LEMMA FlattenDef ==
    ASSUME NEW S, NEW s \in Seq(Seq(S)), s # <<>>
    PROVE  \E f : Flattened(s, f) /\ FlattenSeq(s) = f[Len(s)]
<1>1. Len(s) # 0 BY EmptySeq
<1> DEFINE flat == CHOOSE f : Flattened(s, f)
<1>2. Flattened(s, flat) BY FlattenExists
<1>3. FlattenSeq(s) = flat[Len(s)] BY <1>1 DEF FlattenSeq, Flattened
<1> QED BY <1>2, <1>3

LEMMA FlattenEmpty == FlattenSeq(<<>>) = <<>>
BY DEF FlattenSeq

LEMMA FlattenOne ==
    ASSUME NEW S, NEW x \in Seq(S)
    PROVE  FlattenSeq(<<x>>) = x
<1>1. <<x>> \in Seq(Seq(S)) /\ <<x>> # <<>> /\ Len(<<x>>) = 1 OBVIOUS
<1>2. PICK f : Flattened(<<x>>, f) /\ FlattenSeq(<<x>>) = f[1]
  BY <1>1, FlattenDef
<1>3. f[1] = <<x>>[1] BY <1>1, <1>2 DEF Flattened
<1> QED BY <1>2, <1>3

(***************************************************************************)
(* What is put together from n sequences is, with the next one behind it,  *)
(* what is put together from n + 1.                                        *)
(***************************************************************************)
LEMMA FlattenAppend ==
    ASSUME NEW S, NEW s \in Seq(Seq(S)), NEW x \in Seq(S)
    PROVE  FlattenSeq(Append(s, x)) = FlattenSeq(s) \o x
<1>1. CASE s = <<>>
  <2>1. Append(s, x) = <<x>> BY <1>1
  <2> QED BY <1>1, <2>1, FlattenOne, FlattenEmpty
<1>2. CASE s # <<>>
  <2> DEFINE u == Append(s, x)
             n == Len(s)
  <2>1. n \in Nat \ {0} BY <1>2, EmptySeq
  <2>2. u \in Seq(Seq(S)) /\ u # <<>> /\ Len(u) = n + 1 /\ u[n + 1] = x
        /\ \A i \in 1..n : u[i] = s[i]
    BY AppendProperties
  <2> HIDE DEF u, n
  <2>3. PICK f : Flattened(s, f) /\ FlattenSeq(s) = f[n] BY <1>2, FlattenDef DEF n
  <2>4. PICK g : Flattened(u, g) /\ FlattenSeq(u) = g[n + 1] BY <2>2, FlattenDef
  <2>5. \A i \in 1..n : f[i] = IF i = 1 THEN s[i] ELSE f[i - 1] \o s[i]
    BY <2>3 DEF Flattened, n
  <2>6. \A i \in 1..n + 1 : g[i] = IF i = 1 THEN u[i] ELSE g[i - 1] \o u[i]
    BY <2>2, <2>4 DEF Flattened
  <2> DEFINE N == {i \in Nat : i \in 1..n => f[i] = g[i]}
  <2>7. 0 \in N OBVIOUS
  <2>8. ASSUME NEW i \in N PROVE i + 1 \in N
    <3>1. SUFFICES ASSUME i + 1 \in 1..n PROVE f[i + 1] = g[i + 1] OBVIOUS
    <3>2. i + 1 \in 1..n + 1 /\ u[i + 1] = s[i + 1] BY <3>1, <2>1, <2>2
    <3>3. CASE i = 0
      <4>1. f[1] = s[1] /\ g[1] = u[1] BY <3>1, <3>2, <3>3, <2>5, <2>6
      <4> QED BY <4>1, <3>2, <3>3
    <3>4. CASE i # 0
      <4>1. i \in 1..n /\ (i + 1) - 1 = i /\ i + 1 # 1 BY <3>1, <3>4, <2>1
      <4>2. f[i + 1] = f[i] \o s[i + 1] BY <3>1, <4>1, <2>5
      <4>3. g[i + 1] = g[i] \o u[i + 1] BY <3>2, <4>1, <2>6
      <4>4. f[i] = g[i] BY <4>1
      <4> QED BY <4>2, <4>3, <4>4, <3>2
    <3> QED BY <3>3, <3>4
  <2> HIDE DEF N
  <2>9. N \in SUBSET Nat BY DEF N
  <2>10. n \in N BY <2>7, <2>8, <2>9, <2>1, Induction
  <2>11. f[n] = g[n] BY <2>10, <2>1 DEF N
  <2>12. g[n + 1] = g[n] \o x
    <3>1. n + 1 \in 1..n + 1 /\ n + 1 # 1 /\ (n + 1) - 1 = n BY <2>1
    <3> QED BY <3>1, <2>2, <2>6
  <2> QED BY <2>3, <2>4, <2>11, <2>12 DEF u
<1> QED BY <1>1, <1>2

(***************************************************************************)
(* A sequence made by counting to n + 1 is the one made by counting to n,  *)
(* with one element more.                                                  *)
(***************************************************************************)
LEMMA CountedSeq ==
    ASSUME NEW S, NEW n \in Nat, NEW f, DOMAIN f = 1..n + 1, f = [i \in 1..n + 1 |-> f[i]],
           \A i \in 1..n + 1 : f[i] \in S
    PROVE  /\ [i \in 1..n |-> f[i]] \in Seq(S)
           /\ f = Append([i \in 1..n |-> f[i]], f[n + 1])
<1> DEFINE g == [i \in 1..n |-> f[i]]
<1>1. g \in Seq(S) /\ Len(g) = n
  <2>1. \A i \in 1..n : f[i] \in S OBVIOUS
  <2>2. g \in [1..n -> S] BY <2>1
  <2> HIDE DEF g
  <2> QED BY <2>2, LenProperties, SeqDef
<1>2. f \in Seq(S) /\ Len(f) = n + 1
  <2>1. f \in [1..n + 1 -> S] OBVIOUS
  <2> QED BY <2>1, LenProperties, SeqDef
<1> HIDE DEF g
<1>3. f[n + 1] \in S OBVIOUS
<1>4. Append(g, f[n + 1]) \in Seq(S) /\ Len(Append(g, f[n + 1])) = n + 1
      /\ Append(g, f[n + 1])[n + 1] = f[n + 1]
      /\ \A i \in 1..n : Append(g, f[n + 1])[i] = g[i]
  BY <1>1, <1>3, AppendProperties
<1>5. \A i \in 1..n + 1 : f[i] = Append(g, f[n + 1])[i]
  <2>1. \A i \in 1..n : g[i] = f[i] BY DEF g
  <2> QED BY <2>1, <1>4
<1>6. f = Append(g, f[n + 1]) BY <1>2, <1>4, <1>5, SeqEqual
<1> QED BY <1>1, <1>6 DEF g

LEMMA FlattenType ==
    ASSUME NEW S, NEW s \in Seq(Seq(S))
    PROVE  FlattenSeq(s) \in Seq(S)
<1> DEFINE N == {n \in Nat : \A u \in Seq(Seq(S)) : Len(u) = n => FlattenSeq(u) \in Seq(S)}
<1>1. 0 \in N
  <2>1. \A u \in Seq(Seq(S)) : Len(u) = 0 => u = <<>> BY EmptySeq
  <2> QED BY <2>1, FlattenEmpty, EmptySeq
<1>2. ASSUME NEW n \in N PROVE n + 1 \in N
  <2>1. SUFFICES ASSUME NEW u \in Seq(Seq(S)), Len(u) = n + 1
                 PROVE  FlattenSeq(u) \in Seq(S)
    OBVIOUS
  <2>2. u # <<>> BY <2>1, EmptySeq
  <2>3. PICK w \in Seq(Seq(S)) : \E x \in Seq(S) : u = Append(w, x)
    BY <2>2, SequenceEmptyOrAppend
  <2>4. PICK x \in Seq(S) : u = Append(w, x) BY <2>3
  <2>5. Len(w) = n BY <2>1, <2>4, AppendProperties
  <2>6. FlattenSeq(w) \in Seq(S) BY <2>5
  <2>7. FlattenSeq(u) = FlattenSeq(w) \o x BY <2>4, FlattenAppend
  <2> QED BY <2>6, <2>7, ConcatProperties
<1> HIDE DEF N
<1>3. N \in SUBSET Nat BY DEF N
<1>4. N = Nat BY <1>1, <1>2, <1>3, Induction
<1> QED BY <1>4 DEF N

LEMMA FlattenCounted ==
    ASSUME NEW S, NEW n \in Nat, NEW f, f = [i \in 1..n + 1 |-> f[i]],
           \A i \in 1..n + 1 : f[i] \in Seq(S)
    PROVE  FlattenSeq(f) = FlattenSeq([i \in 1..n |-> f[i]]) \o f[n + 1]
<1>1. DOMAIN f = 1..n + 1 OBVIOUS
<1>2. [i \in 1..n |-> f[i]] \in Seq(Seq(S)) /\ f = Append([i \in 1..n |-> f[i]], f[n + 1])
  BY <1>1, CountedSeq
<1>3. f[n + 1] \in Seq(S) OBVIOUS
<1> QED BY <1>2, <1>3, FlattenAppend

----------------------------------------------------------------------------
(***************************************************************************)
(* The parts of a reply and their text.                                    *)
(***************************************************************************)
PartSet == [type : {"text", "reasoning"}, id : Items, text : Texts]

LEMMA PartsAreParts ==
    ASSUME NEW ps \in Parts
    PROVE  /\ ps \in Seq(PartSet)
           /\ Len(ps) \in Nat /\ DOMAIN ps = 1..Len(ps)
           /\ \A i \in 1..Len(ps) : ps[i] \in PartSet
<1>1. ps \in Seq(PartSet) BY DEF Parts, PartSet
<1> QED BY <1>1, ElementOfSeq, LenProperties

LEMMA TextsConcat ==
    ASSUME NEW x \in Texts, NEW y \in Texts
    PROVE  x \o y \in Texts
BY ConcatProperties DEF Texts

LEMMA TextsUnit ==
    ASSUME NEW x \in Texts
    PROVE  /\ <<>> \in Texts /\ x \o <<>> = x /\ <<>> \o x = x
BY ConcatEmptySeq, EmptySeq DEF Texts

LEMMA TextsAssociate ==
    ASSUME NEW x \in Texts, NEW y \in Texts, NEW z \in Texts
    PROVE  (x \o y) \o z = x \o (y \o z)
<1> DEFINE C == (0..MaxTurns) \X Nat \X Nat \X Nat
<1>1. x \in Seq(C) /\ y \in Seq(C) /\ z \in Seq(C) BY DEF Texts
<1> HIDE DEF C
<1> QED BY <1>1, ThreeSequences

LEMMA NoItemType == NoItem \in Items
BY ServiceAssumption DEF NoItem, Items

\* What a part adds to the text of a reply.
TextOfPart(p) == IF p.type = "text" THEN p.text ELSE <<>>

LEMMA TextOfType ==
    ASSUME NEW ps \in Parts
    PROVE  TextOf(ps) \in Texts
<1> DEFINE C == (0..MaxTurns) \X Nat \X Nat \X Nat
           g == [i \in DOMAIN ps |-> IF ps[i].type = "text" THEN ps[i].text ELSE <<>>]
<1>1. DOMAIN ps = 1..Len(ps) /\ Len(ps) \in Nat /\ \A i \in 1..Len(ps) : ps[i] \in PartSet
  BY PartsAreParts
<1>2. \A i \in DOMAIN ps : g[i] \in Seq(C)
  BY <1>1 DEF PartSet, Texts
<1>3. g \in [1..Len(ps) -> Seq(C)] BY <1>1, <1>2
<1> HIDE DEF g, C
<1>4. g \in Seq(Seq(C)) BY <1>1, <1>3, SeqDef
<1>5. FlattenSeq(g) \in Seq(C) BY <1>4, FlattenType
<1> QED BY <1>5 DEF TextOf, Texts, g, C

LEMMA TextOfEmpty == TextOf(<<>>) = <<>>
<1>1. [i \in DOMAIN <<>> |-> IF <<>>[i].type = "text" THEN <<>>[i].text ELSE <<>>] = <<>>
  OBVIOUS
<1> QED BY <1>1, FlattenEmpty DEF TextOf

LEMMA TextOfAppend ==
    ASSUME NEW ps \in Parts, NEW p \in PartSet
    PROVE  /\ Append(ps, p) \in Parts
           /\ TextOf(Append(ps, p)) = TextOf(ps) \o TextOfPart(p)
<1> DEFINE C == (0..MaxTurns) \X Nat \X Nat \X Nat
           n == Len(ps)
           qs == Append(ps, p)
           g == [i \in 1..n |-> IF ps[i].type = "text" THEN ps[i].text ELSE <<>>]
           h == [i \in 1..n + 1 |-> IF qs[i].type = "text" THEN qs[i].text ELSE <<>>]
<1>1. DOMAIN ps = 1..n /\ n \in Nat /\ \A i \in 1..n : ps[i] \in PartSet
  BY PartsAreParts
<1>2. /\ qs \in Seq(PartSet) /\ Len(qs) = n + 1 /\ DOMAIN qs = 1..n + 1
      /\ qs[n + 1] = p /\ \A i \in 1..n : qs[i] = ps[i]
  BY AppendProperties DEF Parts, PartSet
<1> HIDE DEF qs, n
<1>3. TextOf(ps) = FlattenSeq(g) /\ TextOf(qs) = FlattenSeq(h) BY <1>1, <1>2 DEF TextOf
<1>4. h = [i \in 1..n + 1 |-> h[i]] OBVIOUS
<1>5. \A i \in 1..n + 1 : h[i] \in Seq(C)
  <2>1. \A i \in 1..n + 1 : qs[i] \in PartSet BY <1>1, <1>2
  <2> QED BY <2>1 DEF PartSet, Texts
<1>6. [i \in 1..n |-> h[i]] = g BY <1>1, <1>2
<1>7. h[n + 1] = TextOfPart(p) BY <1>1, <1>2 DEF TextOfPart
<1> HIDE DEF g, h, C
<1>8. FlattenSeq(h) = FlattenSeq([i \in 1..n |-> h[i]]) \o h[n + 1]
  BY <1>1, <1>4, <1>5, FlattenCounted
<1>9. qs \in Parts BY <1>2 DEF Parts, PartSet
<1> QED BY <1>3, <1>6, <1>7, <1>8, <1>9 DEF qs

(***************************************************************************)
(* A delta adds its text to the text of the reply, or leaves it alone when *)
(* it is reasoning; whether it opens a part or goes on with the last one.  *)
(***************************************************************************)
LEMMA DeltaAddsText ==
    ASSUME NEW ps \in Parts, NEW type \in {"text", "reasoning"}, NEW x \in Texts
    PROVE  /\ appendDelta(ps, type, x) \in Parts
           /\ TextOf(appendDelta(ps, type, x))
                = TextOf(ps) \o (IF type = "text" THEN x ELSE <<>>)
           /\ appendOutputDelta(ps, type, x) = appendDelta(ps, type, x)
<1> DEFINE added == IF type = "text" THEN x ELSE <<>>
<1>1. TextOf(ps) \in Texts /\ added \in Texts BY TextOfType DEF Texts
<1>2. CASE ps # <<>> /\ Last(ps).type = type
  <2>1. ps \in Seq(PartSet) BY DEF Parts, PartSet
  <2>2. PICK w \in Seq(PartSet) : \E q \in PartSet : ps = Append(w, q)
    BY <1>2, <2>1, SequenceEmptyOrAppend
  <2>3. PICK p \in PartSet : ps = Append(w, p) BY <2>2
  <2>4. w \in Parts BY DEF Parts, PartSet
  <2>5. Len(ps) = Len(w) + 1 /\ ps[Len(w) + 1] = p /\ Len(w) \in Nat
        /\ \A i \in 1..Len(w) : ps[i] = w[i]
    BY <2>3, AppendProperties
  <2>6. p.type = type BY <1>2, <2>5 DEF Last
  <2> DEFINE q == [p EXCEPT !.text = @ \o x]
             qs == appendDelta(ps, type, x)
  <2>7. q \in PartSet
    <3>1. p.text \o x \in Texts BY DEF PartSet, Texts
    <3> QED BY <3>1 DEF PartSet
  <2>8. qs = [ps EXCEPT ![Len(ps)].text = @ \o x] BY <1>2 DEF appendDelta
  <2>9. qs = Append(w, q)
    <3>1. qs = [ps EXCEPT ![Len(w) + 1] = q] BY <2>5, <2>8
    <3> HIDE DEF q, qs
    <3>2. Append(w, q) \in Seq(PartSet) /\ Len(Append(w, q)) = Len(w) + 1
          /\ Append(w, q)[Len(w) + 1] = q
          /\ \A i \in 1..Len(w) : Append(w, q)[i] = w[i]
      BY <2>7, AppendProperties
    <3>3. qs \in Seq(PartSet) /\ Len(qs) = Len(w) + 1
      BY <2>1, <2>5, <2>7, <3>1, ExceptSeq
    <3>4. \A i \in 1..Len(qs) : qs[i] = Append(w, q)[i]
      BY <2>1, <2>5, <3>1, <3>2, <3>3
    <3> QED BY <3>2, <3>3, <3>4, SeqEqual
  <2>10. TextOf(ps) = TextOf(w) \o TextOfPart(p) /\ qs \in Parts
         /\ TextOf(qs) = TextOf(w) \o TextOfPart(q)
    BY <2>3, <2>4, <2>7, <2>9, TextOfAppend
  <2>11. TextOfPart(q) = TextOfPart(p) \o added
    <3>1. q.type = p.type /\ q.text = p.text \o x BY DEF PartSet
    <3> HIDE DEF q
    <3>2. CASE type = "text" BY <3>1, <3>2, <2>6 DEF TextOfPart
    <3>3. CASE type = "reasoning"
      <4>1. <<>> \o <<>> = <<>> OBVIOUS
      <4> QED BY <4>1, <3>1, <3>3, <2>6 DEF TextOfPart
    <3> QED BY <3>2, <3>3
  <2>12. TextOf(w) \o (TextOfPart(p) \o added) = (TextOf(w) \o TextOfPart(p)) \o added
    <3>1. TextOf(w) \in Texts BY <2>4, TextOfType
    <3>2. TextOfPart(p) \in Texts BY TextsUnit DEF TextOfPart, PartSet
    <3> HIDE DEF added, q, qs
    <3> QED BY <1>1, <3>1, <3>2, TextsAssociate
  <2> QED BY <2>10, <2>11, <2>12 DEF appendDelta, appendOutputDelta
<1>3. CASE ~(ps # <<>> /\ Last(ps).type = type)
  <2> DEFINE p == Part(type, NoItem, x)
  <2>1. p \in PartSet BY NoItemType DEF Part, PartSet
  <2>2. appendDelta(ps, type, x) = Append(ps, p) BY <1>3 DEF appendDelta
  <2>3. TextOfPart(p) = added BY DEF TextOfPart, Part
  <2> QED BY <2>1, <2>2, <2>3, TextOfAppend DEF appendDelta, appendOutputDelta
<1> QED BY <1>2, <1>3

(***************************************************************************)
(* A completed reasoning item leaves the text alone, and both readers make *)
(* the same of it.                                                         *)
(***************************************************************************)
LEMMA MergeKeepsText ==
    ASSUME NEW ps \in Parts, NEW p \in PartSet, p.type = "reasoning"
    PROVE  /\ mergeCompletedPart(ps, p) \in Parts
           /\ TextOf(mergeCompletedPart(ps, p)) = TextOf(ps)
           /\ mergeCompletedOutputPart(ps, p) = mergeCompletedPart(ps, p)
<1> DEFINE R == {j \in DOMAIN ps : ps[j].type = "reasoning"}
           i == Max(R)
           qs == mergeCompletedPart(ps, p)
<1>1. /\ ps \in Seq(PartSet) /\ Len(ps) \in Nat /\ DOMAIN ps = 1..Len(ps)
      /\ \A j \in 1..Len(ps) : ps[j] \in PartSet
  BY PartsAreParts
<1>2. SelectLastInSeq(ps, LAMBDA q : q.type = "reasoning") = IF R # {} THEN i ELSE 0
  BY <1>1 DEF SelectLastInSeq
<1>3. CASE R = {}
  <2>1. qs = Append(ps, p) BY <1>2, <1>3 DEF mergeCompletedPart
  <2>2. mergeCompletedOutputPart(ps, p) = Append(ps, p)
    BY <1>3 DEF mergeCompletedOutputPart
  <2>3. TextOfPart(p) = <<>> BY DEF TextOfPart
  <2>4. TextOf(ps) \o <<>> = TextOf(ps) BY TextOfType, TextsUnit
  <2> QED BY <2>1, <2>2, <2>3, <2>4, TextOfAppend
<1>4. CASE R # {}
  <2>1. i \in R
    <3>1. R \in SUBSET (0..Len(ps)) BY <1>1
    <3> HIDE DEF R
    <3> QED BY <1>1, <1>4, <3>1, MaxIsElement DEF i
  <2>2. i \in 1..Len(ps) /\ ps[i].type = "reasoning" /\ i # 0 BY <2>1, <1>1
  <2> DEFINE q == [ps[i] EXCEPT !.id = p.id, !.text = IF p.text = <<>> THEN @ ELSE p.text]
  <2>3. qs = [ps EXCEPT ![i] = q]
    BY <1>2, <1>4, <2>2 DEF mergeCompletedPart
  <2>4. mergeCompletedOutputPart(ps, p) = qs
    BY <1>4, <2>2, <2>3 DEF mergeCompletedOutputPart
  <2>5. q \in PartSet /\ q.type = "reasoning" BY <1>1, <2>2 DEF PartSet
  <2> HIDE DEF q, qs, i
  <2>6. qs \in Seq(PartSet) /\ Len(qs) = Len(ps)
        /\ \A j \in 1..Len(ps) : qs[j] = IF j = i THEN q ELSE ps[j]
    BY <1>1, <2>2, <2>3, <2>5, ExceptSeq
  <2>7. qs \in Parts BY <2>6 DEF Parts, PartSet
  <2>8. TextOf(qs) = TextOf(ps)
    <3>1. DOMAIN qs = DOMAIN ps BY <1>1, <2>6
    <3>2. \A j \in DOMAIN ps : (IF qs[j].type = "text" THEN qs[j].text ELSE <<>>)
                               = (IF ps[j].type = "text" THEN ps[j].text ELSE <<>>)
      BY <1>1, <2>2, <2>5, <2>6
    <3>3. [j \in DOMAIN qs |-> IF qs[j].type = "text" THEN qs[j].text ELSE <<>>]
            = [j \in DOMAIN ps |-> IF ps[j].type = "text" THEN ps[j].text ELSE <<>>]
      BY <3>1, <3>2
    <3> QED BY <3>3 DEF TextOf
  <2> QED BY <2>4, <2>7, <2>8 DEF qs
<1> QED BY <1>3, <1>4

----------------------------------------------------------------------------
(***************************************************************************)
(* The reasoning items that the parts of a reply name.                     *)
(***************************************************************************)
Ids(ps) == {ps[i].id : i \in {j \in DOMAIN ps : ps[j].type = "reasoning"}} \ {NoItem}

LEMMA IdsOfNothing == Ids(<<>>) = {}
BY DEF Ids

\* What is put together has the elements of what it is put together from.
LEMMA FlattenRange ==
    ASSUME NEW S, NEW n \in Nat, NEW f, f = [i \in 1..n |-> f[i]],
           \A i \in 1..n : f[i] \in Seq(S)
    PROVE  \A x : x \in Range(FlattenSeq(f)) <=> \E i \in 1..n : x \in Range(f[i])
<1> DEFINE F(m) == [i \in 1..m |-> f[i]]
           P(m) == m <= n => \A x : x \in Range(FlattenSeq(F(m)))
                                      <=> \E i \in 1..m : x \in Range(f[i])
           N == {m \in Nat : P(m)}
<1>1. P(0)
  <2>1. F(0) = <<>> OBVIOUS
  <2> HIDE DEF F
  <2>2. Range(FlattenSeq(F(0))) = {} BY <2>1, FlattenEmpty DEF Range
  <2> QED BY <2>2
<1>2. ASSUME NEW m \in Nat, P(m) PROVE P(m + 1)
  <2> SUFFICES ASSUME m + 1 <= n, NEW x
               PROVE  x \in Range(FlattenSeq(F(m + 1))) <=> \E i \in 1..m + 1 : x \in Range(f[i])
    OBVIOUS
  <2>1. m <= n /\ m + 1 \in 1..n /\ \A i \in 1..m + 1 : i \in 1..n OBVIOUS
  <2>2. x \in Range(FlattenSeq(F(m))) <=> \E i \in 1..m : x \in Range(f[i]) BY <1>2, <2>1
  <2>3. FlattenSeq(F(m + 1)) = FlattenSeq(F(m)) \o f[m + 1]
    <3> DEFINE g == F(m + 1)
    <3>1. g = [i \in 1..m + 1 |-> g[i]] /\ \A i \in 1..m + 1 : g[i] \in Seq(S) BY <2>1
    <3>2. [i \in 1..m |-> g[i]] = F(m) /\ g[m + 1] = f[m + 1] OBVIOUS
    <3> HIDE DEF g, F
    <3>3. FlattenSeq(g) = FlattenSeq([i \in 1..m |-> g[i]]) \o g[m + 1] BY <3>1, FlattenCounted
    <3> QED BY <3>2, <3>3 DEF g
  <2>4. F(m) \in Seq(Seq(S))
    <3>1. F(m) \in [1..m -> Seq(S)] BY <2>1
    <3> HIDE DEF F
    <3> QED BY <3>1, SeqDef
  <2>5. FlattenSeq(F(m)) \in Seq(S) /\ f[m + 1] \in Seq(S)
    <3> HIDE DEF F
    <3> QED BY <2>1, <2>4, FlattenType
  <2> HIDE DEF F
  <2>6. Range(FlattenSeq(F(m + 1))) = Range(FlattenSeq(F(m))) \cup Range(f[m + 1])
    <3>1. PICK a \in Seq(S) : a = FlattenSeq(F(m)) BY <2>5
    <3>2. PICK b \in Seq(S) : b = f[m + 1] BY <2>5
    <3>3. Range(a \o b) = Range(a) \cup Range(b) BY RangeConcatenation
    <3> QED BY <2>3, <3>1, <3>2, <3>3
  <2>7. \A i : i \in 1..m + 1 <=> i \in 1..m \/ i = m + 1 OBVIOUS
  <2> QED BY <2>2, <2>6, <2>7
<1> HIDE DEF P
<1>3. N \in SUBSET Nat /\ 0 \in N /\ \A m \in N : m + 1 \in N BY <1>1, <1>2
<1>4. N = Nat
  <2> HIDE DEF N
  <2> QED BY <1>3, Induction
<1>5. P(n)
  <2>1. n \in N BY <1>4
  <2> QED BY <2>1
<1>6. F(n) = f OBVIOUS
<1>7. n <= n OBVIOUS
<1> QED BY <1>5, <1>6, <1>7 DEF P

\* A delta names nothing.
LEMMA DeltaKeepsIds ==
    ASSUME NEW ps \in Parts, NEW type \in {"text", "reasoning"}, NEW x \in Texts
    PROVE  Ids(appendDelta(ps, type, x)) = Ids(ps)
<1> DEFINE qs == appendDelta(ps, type, x)
           n == Len(ps)
<1>1. /\ ps \in Seq(PartSet) /\ n \in Nat /\ DOMAIN ps = 1..n
      /\ \A i \in 1..n : ps[i] \in PartSet
  BY PartsAreParts
<1>2. CASE ps # <<>> /\ Last(ps).type = type
  <2>1. qs = [ps EXCEPT ![n].text = @ \o x] BY <1>2 DEF appendDelta
  <2>2. DOMAIN qs = 1..n /\ \A i \in 1..n : qs[i].type = ps[i].type /\ qs[i].id = ps[i].id
    BY <1>1, <2>1 DEF PartSet
  <2> HIDE DEF qs
  <2>3. {qs[i].id : i \in {j \in DOMAIN qs : qs[j].type = "reasoning"}}
          = {ps[i].id : i \in {j \in DOMAIN ps : ps[j].type = "reasoning"}}
    BY <1>1, <2>2
  <2> QED BY <2>3 DEF Ids, qs
<1>3. CASE ~(ps # <<>> /\ Last(ps).type = type)
  <2> DEFINE p == Part(type, NoItem, x)
  <2>1. qs = Append(ps, p) BY <1>3 DEF appendDelta
  <2>2. p \in PartSet BY NoItemType DEF Part, PartSet
  <2>3. p.id = NoItem BY DEF Part
  <2> HIDE DEF qs, p
  <2>4. /\ DOMAIN qs = 1..n + 1 /\ qs[n + 1] = p /\ \A i \in 1..n : qs[i] = ps[i]
    BY <1>1, <2>1, <2>2, AppendProperties, LenProperties
  <2>5. \A i : i \in 1..n + 1 <=> i \in 1..n \/ i = n + 1 BY <1>1
  <2>6. Ids(qs) \subseteq Ids(ps) BY <1>1, <2>3, <2>4, <2>5 DEF Ids
  <2>7. Ids(ps) \subseteq Ids(qs) BY <1>1, <2>3, <2>4, <2>5 DEF Ids
  <2> QED BY <2>6, <2>7 DEF qs
<1> QED BY <1>2, <1>3

\* A completed item is named, in the place of another perhaps.
LEMMA MergeNames ==
    ASSUME NEW ps \in Parts, NEW p \in PartSet, p.type = "reasoning", p.id # NoItem
    PROVE  /\ p.id \in Ids(mergeCompletedPart(ps, p))
           /\ Ids(mergeCompletedPart(ps, p)) \subseteq Ids(ps) \cup {p.id}
<1> DEFINE R == {j \in DOMAIN ps : ps[j].type = "reasoning"}
           i == Max(R)
           qs == mergeCompletedPart(ps, p)
           n == Len(ps)
<1>1. /\ ps \in Seq(PartSet) /\ n \in Nat /\ DOMAIN ps = 1..n
      /\ \A j \in 1..n : ps[j] \in PartSet
  BY PartsAreParts
<1>2. SelectLastInSeq(ps, LAMBDA q : q.type = "reasoning") = IF R # {} THEN i ELSE 0
  BY <1>1 DEF SelectLastInSeq
<1>3. CASE R = {}
  <2>1. qs = Append(ps, p) BY <1>2, <1>3 DEF mergeCompletedPart
  <2> HIDE DEF qs
  <2>2. /\ DOMAIN qs = 1..n + 1 /\ qs[n + 1] = p /\ \A j \in 1..n : qs[j] = ps[j]
    BY <1>1, <2>1, AppendProperties, LenProperties
  <2>3. \A j : j \in 1..n + 1 <=> j \in 1..n \/ j = n + 1 BY <1>1
  <2>4. p.id \in Ids(qs) BY <2>2, <2>3 DEF Ids
  <2>5. Ids(qs) \subseteq Ids(ps) \cup {p.id} BY <1>1, <2>2, <2>3 DEF Ids
  <2> QED BY <2>4, <2>5 DEF qs
<1>4. CASE R # {}
  <2>1. i \in R
    <3>1. R \in SUBSET (0..Len(ps)) BY <1>1
    <3> HIDE DEF R
    <3> QED BY <1>1, <1>4, <3>1, MaxIsElement DEF i
  <2>2. i \in 1..Len(ps) /\ ps[i].type = "reasoning" /\ i # 0 BY <2>1, <1>1
  <2> DEFINE q == [ps[i] EXCEPT !.id = p.id, !.text = IF p.text = <<>> THEN @ ELSE p.text]
  <2>3. qs = [ps EXCEPT ![i] = q]
    BY <1>2, <1>4, <2>2 DEF mergeCompletedPart
  <2>4. q.id = p.id /\ q.type = "reasoning" BY <1>1, <2>2 DEF PartSet
  <2> HIDE DEF q, qs, i
  <2>5. DOMAIN qs = 1..n /\ \A j \in 1..n : qs[j] = IF j = i THEN q ELSE ps[j]
    BY <1>1, <2>2, <2>3
  <2>6. p.id \in Ids(qs) BY <2>2, <2>4, <2>5 DEF Ids
  <2>7. Ids(qs) \subseteq Ids(ps) \cup {p.id} BY <1>1, <2>4, <2>5 DEF Ids
  <2> QED BY <2>6, <2>7 DEF qs
<1> QED BY <1>3, <1>4

----------------------------------------------------------------------------
(***************************************************************************)
(* What reading a run of events does to the text of the reply and to the   *)
(* contents that have been seen. An event is plain when it does not end    *)
(* the turn.                                                               *)
(***************************************************************************)
Keys == Items \X Nat

PlainTypes ==
    {"output_text.delta", "output_text.done", "reasoning.delta", "item.done", "created",
     "in_progress", "item.added", "content_part.added", "content_part.done"}

PlainEvents == [type : PlainTypes, item : Items, content : Nat, texts : Seq(Texts)]

Plain(e) ==
    /\ e \in PlainEvents
    /\ e.type \in {"output_text.delta", "output_text.done", "reasoning.delta"} => e.texts # <<>>

EndsMessage(s, e) == e.type = "item.done" /\ s.items[e.item[2]].kind = "message"

Missing(e, seen) ==
    FlattenSeq([c \in DOMAIN e.texts |-> IF <<e.item, c>> \in seen THEN <<>> ELSE e.texts[c]])

Delivered(s, e, seen) ==
    IF e.type = "output_text.delta" \/ (e.type = "output_text.done" /\ Key(e) \notin seen)
    THEN e.texts[1]
    ELSE IF EndsMessage(s, e) THEN Missing(e, seen) ELSE <<>>

Marked(s, e, seen) ==
    IF e.type \in {"output_text.delta", "output_text.done"} THEN seen \cup {Key(e)}
    ELSE IF EndsMessage(s, e) /\ Missing(e, seen) # <<>>
         THEN seen \cup {<<e.item, c>> : c \in DOMAIN e.texts}
         ELSE seen

LEMMA MissingType ==
    ASSUME NEW e \in PlainEvents, NEW seen
    PROVE  Missing(e, seen) \in Texts
<1> DEFINE C == (0..MaxTurns) \X Nat \X Nat \X Nat
           n == Len(e.texts)
           g == [c \in DOMAIN e.texts |-> IF <<e.item, c>> \in seen THEN <<>> ELSE e.texts[c]]
<1>1. e.texts \in Seq(Texts) BY DEF PlainEvents
<1>2. DOMAIN e.texts = 1..n /\ n \in Nat /\ \A c \in 1..n : e.texts[c] \in Texts
  BY <1>1, ElementOfSeq, LenProperties
<1>3. g \in [1..n -> Seq(C)]
  <2>1. <<>> \in Seq(C) BY EmptySeq
  <2>2. \A c \in 1..n : e.texts[c] \in Seq(C) BY <1>2 DEF Texts
  <2> HIDE DEF C
  <2> QED BY <1>2, <2>1, <2>2
<1> HIDE DEF g, C, n
<1>4. g \in Seq(Seq(C)) BY <1>2, <1>3, SeqDef
<1>5. FlattenSeq(g) \in Seq(C) BY <1>4, FlattenType
<1> QED BY <1>5 DEF Missing, Texts, g, C

LEMMA StepTypes ==
    ASSUME NEW s, NEW e, Plain(e), NEW seen \in SUBSET Keys
    PROVE  Delivered(s, e, seen) \in Texts /\ Marked(s, e, seen) \in SUBSET Keys
<1>1. e \in PlainEvents /\ e.texts \in Seq(Texts) /\ e.item \in Items /\ e.content \in Nat
  BY DEF Plain, PlainEvents
<1>2. Missing(e, seen) \in Texts BY <1>1, MissingType
<1>3. e.texts # <<>> => e.texts[1] \in Texts
  <2>1. DOMAIN e.texts = 1..Len(e.texts) /\ Len(e.texts) \in Nat
        /\ \A c \in 1..Len(e.texts) : e.texts[c] \in Texts
    BY <1>1, ElementOfSeq, LenProperties
  <2>2. e.texts # <<>> => Len(e.texts) # 0 BY <1>1, EmptySeq
  <2> QED BY <2>1, <2>2
<1>4. <<>> \in Texts BY <1>2, TextsUnit
<1>5. Delivered(s, e, seen) \in Texts BY <1>2, <1>3, <1>4 DEF Delivered, Plain
<1>6. Key(e) \in Keys BY <1>1 DEF Key, Keys
<1>7. {<<e.item, c>> : c \in DOMAIN e.texts} \in SUBSET Keys
  <2>1. DOMAIN e.texts \subseteq Nat BY <1>1, LenProperties
  <2> QED BY <1>1, <2>1 DEF Keys
<1> QED BY <1>5, <1>6, <1>7 DEF Marked

Steps(s, q, seen, text, after, st, rest) ==
    /\ st \in [0..Len(q) -> SUBSET Keys] /\ rest \in [0..Len(q) -> Texts]
    /\ st[0] = seen /\ st[Len(q)] = after
    /\ rest[0] = text /\ rest[Len(q)] = <<>>
    /\ \A i \in 1..Len(q) :
          /\ st[i] = Marked(s, q[i], st[i - 1])
          /\ rest[i - 1] = Delivered(s, q[i], st[i - 1]) \o rest[i]

\* Reading the events of q, with seen, delivers text and leaves after.
Runs(s, q, seen, text, after) ==
    /\ q \in Seq(PlainEvents) /\ \A i \in 1..Len(q) : Plain(q[i])
    /\ \E st, rest : Steps(s, q, seen, text, after, st, rest)

LEMMA RunsTypes ==
    ASSUME NEW s, NEW q, NEW seen, NEW text, NEW after, Runs(s, q, seen, text, after)
    PROVE  seen \in SUBSET Keys /\ after \in SUBSET Keys /\ text \in Texts
<1>1. PICK st, rest : Steps(s, q, seen, text, after, st, rest) BY DEF Runs
<1>2. Len(q) \in Nat BY LenProperties DEF Runs
<1>3. 0 \in 0..Len(q) /\ Len(q) \in 0..Len(q) BY <1>2
<1> QED BY <1>1, <1>3 DEF Steps

LEMMA RunsEmpty ==
    ASSUME NEW s, NEW seen \in SUBSET Keys
    PROVE  Runs(s, <<>>, seen, <<>>, seen)
<1> DEFINE st == [i \in 0..0 |-> seen]
           rest == [i \in 0..0 |-> <<>>]
<1>1. Len(<<>>) = 0 /\ <<>> \in Seq(PlainEvents) BY EmptySeq
<1>2. <<>> \in Texts BY EmptySeq DEF Texts
<1>3. st \in [0..0 -> SUBSET Keys] /\ rest \in [0..0 -> Texts] /\ st[0] = seen /\ rest[0] = <<>>
  BY <1>2
<1> HIDE DEF st, rest
<1>4. \A i \in 1..0 : FALSE OBVIOUS
<1>5. Steps(s, <<>>, seen, <<>>, seen, st, rest)
  BY <1>1, <1>3, <1>4 DEF Steps
<1> QED BY <1>1, <1>4, <1>5 DEF Runs

\* A run of one event.
LEMMA RunsOne ==
    ASSUME NEW s, NEW e, Plain(e), NEW seen \in SUBSET Keys
    PROVE  Runs(s, <<e>>, seen, Delivered(s, e, seen), Marked(s, e, seen))
<1> DEFINE text == Delivered(s, e, seen)
           after == Marked(s, e, seen)
           st == [i \in 0..1 |-> IF i = 0 THEN seen ELSE after]
           rest == [i \in 0..1 |-> IF i = 0 THEN text ELSE <<>>]
<1>1. text \in Texts /\ after \in SUBSET Keys BY StepTypes
<1>2. <<>> \in Texts /\ text \o <<>> = text BY <1>1, TextsUnit
<1>3. <<e>> \in Seq(PlainEvents) /\ Len(<<e>>) = 1 /\ <<e>>[1] = e BY DEF Plain
<1> HIDE DEF text, after
<1>4. /\ st \in [0..1 -> SUBSET Keys] /\ rest \in [0..1 -> Texts]
      /\ st[0] = seen /\ st[1] = after /\ rest[0] = text /\ rest[1] = <<>>
  BY <1>1, <1>2
<1> HIDE DEF st, rest
<1>5. \A i \in 1..1 : i = 1 /\ i - 1 = 0 OBVIOUS
<1>6. Steps(s, <<e>>, seen, text, after, st, rest)
  BY <1>2, <1>3, <1>4, <1>5 DEF Steps, text, after
<1> QED BY <1>3, <1>5, <1>6 DEF Runs, text, after

(***************************************************************************)
(* One run after another.                                                  *)
(***************************************************************************)
LEMMA RunsConcat ==
    ASSUME NEW s, NEW p, NEW q, NEW seen, NEW text, NEW mid, NEW more, NEW after,
           Runs(s, p, seen, text, mid), Runs(s, q, mid, more, after)
    PROVE  Runs(s, p \o q, seen, text \o more, after)
<1> DEFINE m == Len(p)
           n == Len(q)
<1>1. /\ p \in Seq(PlainEvents) /\ q \in Seq(PlainEvents) /\ m \in Nat /\ n \in Nat
      /\ \A i \in 1..m : Plain(p[i])
      /\ \A i \in 1..n : Plain(q[i])
  BY LenProperties DEF Runs
<1>2. PICK sp, rp : Steps(s, p, seen, text, mid, sp, rp) BY DEF Runs
<1>3. PICK sq, rq : Steps(s, q, mid, more, after, sq, rq) BY DEF Runs
<1>4. /\ p \o q \in Seq(PlainEvents) /\ Len(p \o q) = m + n
      /\ \A i \in 1..m + n : (p \o q)[i] = IF i <= m THEN p[i] ELSE q[i - m]
  BY <1>1, ConcatProperties
<1>5. more \in Texts BY RunsTypes
<1> HIDE DEF m, n
<1>6. /\ sp \in [0..m -> SUBSET Keys] /\ rp \in [0..m -> Texts] /\ sp[0] = seen /\ sp[m] = mid
      /\ rp[0] = text /\ rp[m] = <<>>
      /\ \A i \in 1..m : /\ sp[i] = Marked(s, p[i], sp[i - 1])
                         /\ rp[i - 1] = Delivered(s, p[i], sp[i - 1]) \o rp[i]
  BY <1>2 DEF Steps, m
<1>7. /\ sq \in [0..n -> SUBSET Keys] /\ rq \in [0..n -> Texts] /\ sq[0] = mid /\ sq[n] = after
      /\ rq[0] = more /\ rq[n] = <<>>
      /\ \A i \in 1..n : /\ sq[i] = Marked(s, q[i], sq[i - 1])
                         /\ rq[i - 1] = Delivered(s, q[i], sq[i - 1]) \o rq[i]
  BY <1>3 DEF Steps, n
<1> DEFINE st == [i \in 0..m + n |-> IF i <= m THEN sp[i] ELSE sq[i - m]]
           rest == [i \in 0..m + n |-> IF i <= m THEN rp[i] \o more ELSE rq[i - m]]
<1>8. /\ \A i \in 0..m : st[i] = sp[i] /\ rest[i] = rp[i] \o more
      /\ \A i \in 1..n : st[m + i] = sq[i] /\ rest[m + i] = rq[i]
  BY <1>1
<1>9. \A i \in 0..m : rp[i] \o more \in Texts BY <1>5, <1>6, TextsConcat
<1>10. st \in [0..m + n -> SUBSET Keys] /\ rest \in [0..m + n -> Texts]
  <2>1. \A i \in 0..m + n : i <= m \/ i - m \in 0..n BY <1>1
  <2>2. \A i \in 0..m + n : i <= m => i \in 0..m BY <1>1
  <2> QED BY <1>6, <1>7, <1>9, <2>1, <2>2
<1> HIDE DEF st, rest
<1>11. st[m] = sq[0] /\ rest[m] = rq[0]
  <2>1. m \in 0..m BY <1>1
  <2>2. <<>> \o more = more BY <1>5, TextsUnit
  <2> QED BY <2>1, <2>2, <1>6, <1>7, <1>8
<1>12. st[m + n] = after /\ rest[m + n] = <<>>
  <2>1. CASE n = 0 BY <2>1, <1>1, <1>7, <1>11
  <2>2. CASE n # 0
    <3>1. n \in 1..n BY <2>2, <1>1
    <3> QED BY <3>1, <1>7, <1>8
  <2> QED BY <2>1, <2>2
<1>13. st[0] = seen /\ rest[0] = text \o more
  <2>1. 0 \in 0..m BY <1>1
  <2> QED BY <2>1, <1>6, <1>8
<1>14. ASSUME NEW i \in 1..m + n
       PROVE  /\ Plain((p \o q)[i])
              /\ st[i] = Marked(s, (p \o q)[i], st[i - 1])
              /\ rest[i - 1] = Delivered(s, (p \o q)[i], st[i - 1]) \o rest[i]
  <2>1. CASE i <= m
    <3>1. i \in 1..m /\ i \in 0..m /\ i - 1 \in 0..m BY <2>1, <1>1
    <3>2. (p \o q)[i] = p[i] BY <2>1, <1>4
    <3>3. st[i] = Marked(s, p[i], st[i - 1]) BY <3>1, <1>6, <1>8
    <3>4. rest[i - 1] = (Delivered(s, p[i], sp[i - 1]) \o rp[i]) \o more BY <3>1, <1>6, <1>8
    <3>5. rest[i] = rp[i] \o more /\ st[i - 1] = sp[i - 1] BY <3>1, <1>8
    <3>6. Delivered(s, p[i], sp[i - 1]) \in Texts
      <4>1. Plain(p[i]) /\ sp[i - 1] \in SUBSET Keys BY <3>1, <1>1, <1>6
      <4> QED BY <4>1, StepTypes
    <3>7. rp[i] \in Texts BY <3>1, <1>6
    <3>8. (Delivered(s, p[i], sp[i - 1]) \o rp[i]) \o more
            = Delivered(s, p[i], sp[i - 1]) \o (rp[i] \o more)
      BY <3>6, <3>7, <1>5, TextsAssociate
    <3>9. Plain(p[i]) BY <3>1, <1>1
    <3> QED BY <3>2, <3>3, <3>4, <3>5, <3>8, <3>9
  <2>2. CASE ~(i <= m)
    <3> DEFINE k == i - m
    <3>1. k \in 1..n /\ i = m + k BY <2>2, <1>1
    <3>2. (p \o q)[i] = q[k] BY <2>2, <1>4
    <3>3. st[i] = sq[k] /\ rest[i] = rq[k] BY <3>1, <1>8
    <3>4. st[i - 1] = sq[k - 1] /\ rest[i - 1] = rq[k - 1]
      <4>1. CASE k = 1 BY <4>1, <3>1, <1>1, <1>11
      <4>2. CASE k # 1
        <5>1. k - 1 \in 1..n /\ i - 1 = m + (k - 1) BY <4>2, <3>1, <1>1
        <5> QED BY <5>1, <1>8
      <4> QED BY <4>1, <4>2
    <3>5. Plain(q[k]) BY <3>1, <1>1
    <3> HIDE DEF k
    <3> QED BY <3>1, <3>2, <3>3, <3>4, <3>5, <1>7
  <2> QED BY <2>1, <2>2
<1>15. Steps(s, p \o q, seen, text \o more, after, st, rest)
  BY <1>4, <1>10, <1>12, <1>13, <1>14 DEF Steps
<1> QED BY <1>4, <1>14, <1>15 DEF Runs

(***************************************************************************)
(* The first event of a run.                                               *)
(***************************************************************************)
LEMMA RunsHead ==
    ASSUME NEW s, NEW q, NEW seen, NEW text, NEW after, Runs(s, q, seen, text, after), q # <<>>
    PROVE  /\ Plain(Head(q))
           /\ \E more : /\ Runs(s, Tail(q), Marked(s, Head(q), seen), more, after)
                        /\ text = Delivered(s, Head(q), seen) \o more
<1> DEFINE n == Len(q)
           u == Tail(q)
<1>1. q \in Seq(PlainEvents) /\ n \in Nat /\ n # 0 /\ \A i \in 1..n : Plain(q[i])
  BY LenProperties, EmptySeq DEF Runs
<1>2. /\ u \in Seq(PlainEvents) /\ Len(u) = n - 1 /\ Head(q) = q[1]
      /\ \A i \in 1..n - 1 : u[i] = q[i + 1]
  BY <1>1, HeadTailProperties
<1>3. PICK st, rest : Steps(s, q, seen, text, after, st, rest) BY DEF Runs
<1> HIDE DEF n, u
<1>4. /\ st \in [0..n -> SUBSET Keys] /\ rest \in [0..n -> Texts] /\ st[0] = seen /\ st[n] = after
      /\ rest[0] = text /\ rest[n] = <<>>
      /\ \A i \in 1..n : /\ st[i] = Marked(s, q[i], st[i - 1])
                         /\ rest[i - 1] = Delivered(s, q[i], st[i - 1]) \o rest[i]
  BY <1>3 DEF Steps, n
<1> DEFINE su == [i \in 0..n - 1 |-> st[i + 1]]
           ru == [i \in 0..n - 1 |-> rest[i + 1]]
<1>5. \A i \in 0..n - 1 : i + 1 \in 0..n /\ su[i] = st[i + 1] /\ ru[i] = rest[i + 1] BY <1>1
<1>6. su \in [0..n - 1 -> SUBSET Keys] /\ ru \in [0..n - 1 -> Texts] BY <1>4, <1>5
<1> HIDE DEF su, ru
<1>7. 1 \in 1..n /\ 0 \in 0..n - 1 /\ n - 1 \in 0..n - 1 /\ (n - 1) + 1 = n BY <1>1
<1>8. Plain(q[1]) /\ su[0] = Marked(s, q[1], seen) /\ text = Delivered(s, q[1], seen) \o ru[0]
      /\ su[n - 1] = after /\ ru[n - 1] = <<>>
  <2>1. st[1] = Marked(s, q[1], st[0]) /\ rest[0] = Delivered(s, q[1], st[0]) \o rest[1]
    <3>1. 1 - 1 = 0 OBVIOUS
    <3> QED BY <1>4, <1>7, <3>1
  <2>2. su[0] = st[1] /\ ru[0] = rest[1] /\ su[n - 1] = st[n] /\ ru[n - 1] = rest[n]
    <3>1. 0 + 1 = 1 OBVIOUS
    <3> QED BY <1>5, <1>7, <3>1
  <2>3. Plain(q[1]) BY <1>1, <1>7
  <2> QED BY <2>1, <2>2, <2>3, <1>4
<1>9. ASSUME NEW i \in 1..n - 1
      PROVE  /\ Plain(u[i])
             /\ su[i] = Marked(s, u[i], su[i - 1])
             /\ ru[i - 1] = Delivered(s, u[i], su[i - 1]) \o ru[i]
  <2>1. i + 1 \in 1..n /\ i - 1 \in 0..n - 1 /\ i \in 0..n - 1 /\ (i + 1) - 1 = i /\ (i - 1) + 1 = i
    BY <1>1
  <2>2. u[i] = q[i + 1] BY <1>2
  <2>3. Plain(q[i + 1]) BY <2>1, <1>1
  <2>4. st[i + 1] = Marked(s, q[i + 1], st[i]) /\ rest[i] = Delivered(s, q[i + 1], st[i]) \o rest[i + 1]
    BY <2>1, <1>4
  <2>5. su[i] = st[i + 1] /\ ru[i] = rest[i + 1] /\ su[i - 1] = st[i] /\ ru[i - 1] = rest[i]
    BY <2>1, <1>5
  <2> QED BY <2>2, <2>3, <2>4, <2>5
<1>10. Steps(s, u, Marked(s, q[1], seen), ru[0], after, su, ru)
  BY <1>2, <1>6, <1>8, <1>9 DEF Steps
<1>11. Runs(s, u, Marked(s, q[1], seen), ru[0], after)
  BY <1>2, <1>9, <1>10 DEF Runs
<1> QED BY <1>2, <1>8, <1>11 DEF u

----------------------------------------------------------------------------
(***************************************************************************)
(* The events of a response, from the chunk to the whole: read from their  *)
(* beginning they deliver the whole text of the response, once.            *)
(***************************************************************************)
LEMMA TextType ==
    ASSUME NEW item \in Items, NEW c \in Nat
    PROVE  /\ Text(item, c) \in Texts /\ Len(Text(item, c)) = Chunks
           /\ \A k \in 1..Chunks : /\ Text(item, c)[k] \in (0..MaxTurns) \X Nat \X Nat \X Nat
                                   /\ <<Text(item, c)[k]>> \in Texts
<1> DEFINE C == (0..MaxTurns) \X Nat \X Nat \X Nat
           T == Text(item, c)
<1>1. Chunks \in Nat BY ServiceAssumption
<1>2. \A k \in 1..Chunks : T[k] = <<item[1], item[2], c, k>> BY DEF Text
<1>3. item[1] \in 0..MaxTurns /\ item[2] \in Nat BY DEF Items
<1>4. \A k \in 1..Chunks : T[k] \in C BY <1>2, <1>3
<1>5. T \in [1..Chunks -> C] BY <1>4 DEF Text
<1> HIDE DEF T, C
<1>6. T \in Seq(C) /\ Len(T) = Chunks BY <1>1, <1>5, SeqDef, LenProperties
<1>7. \A k \in 1..Chunks : <<T[k]>> \in Seq(C) BY <1>4
<1> QED BY <1>4, <1>6, <1>7 DEF T, C, Texts

\* Events that neither deliver text nor mark a content.
Quiet(s, e) ==
    /\ Plain(e)
    /\ e.type \notin {"output_text.delta", "output_text.done"}
    /\ ~EndsMessage(s, e)

\* Quiet events deliver nothing, however many there are.
LEMMA QuietRun ==
    ASSUME NEW s, NEW q \in Seq(PlainEvents), \A i \in 1..Len(q) : Quiet(s, q[i]),
           NEW seen \in SUBSET Keys
    PROVE  Runs(s, q, seen, <<>>, seen)
<1> DEFINE n == Len(q)
           st == [i \in 0..n |-> seen]
           rest == [i \in 0..n |-> <<>>]
<1>1. n \in Nat BY LenProperties
<1>2. <<>> \in Texts /\ <<>> \o <<>> = <<>> BY EmptySeq DEF Texts
<1> HIDE DEF n
<1>3. \A i \in 0..n : st[i] = seen /\ rest[i] = <<>> OBVIOUS
<1>4. st \in [0..n -> SUBSET Keys] /\ rest \in [0..n -> Texts] BY <1>2
<1> HIDE DEF st, rest
<1>5. \A i \in 1..n : /\ Plain(q[i]) /\ Marked(s, q[i], seen) = seen
                      /\ Delivered(s, q[i], seen) = <<>>
  BY DEF n, Quiet, Marked, Delivered
<1>6. \A i \in 1..n : i \in 0..n /\ i - 1 \in 0..n BY <1>1
<1>7. 0 \in 0..n /\ n \in 0..n BY <1>1
<1>8. Steps(s, q, seen, <<>>, seen, st, rest)
  BY <1>2, <1>3, <1>4, <1>5, <1>6, <1>7 DEF Steps, n
<1> QED BY <1>5, <1>8 DEF Runs, n

LEMMA QuietOne ==
    ASSUME NEW s, NEW e, Quiet(s, e), NEW seen \in SUBSET Keys
    PROVE  Runs(s, <<e>>, seen, <<>>, seen)
<1>1. <<e>> \in Seq(PlainEvents) /\ Len(<<e>>) = 1 /\ <<e>>[1] = e BY DEF Quiet, Plain
<1>2. \A i \in 1..Len(<<e>>) : Quiet(s, <<e>>[i]) BY <1>1
<1> QED BY <1>1, <1>2, QuietRun

LEMMA BareIsQuiet ==
    ASSUME NEW s, NEW type \in {"created", "in_progress", "item.added", "content_part.added",
                                "content_part.done"}
    PROVE  Quiet(s, Bare(type))
<1>1. <<>> \in Seq(Texts) BY EmptySeq
<1>2. Bare(type) \in PlainEvents
  BY <1>1, NoItemType DEF Bare, Event, PlainEvents, PlainTypes
<1> QED BY <1>2 DEF Quiet, Plain, EndsMessage, Bare, Event

LEMMA DeltasAreEvents ==
    ASSUME NEW type \in {"output_text.delta", "reasoning.delta"}, NEW item \in Items, NEW c \in Nat
    PROVE  /\ Deltas(type, item, c) \in Seq(PlainEvents) /\ Len(Deltas(type, item, c)) = Chunks
           /\ \A k \in 1..Chunks :
                 /\ Deltas(type, item, c)[k] = Event(type, item, c, << <<Text(item, c)[k]>> >>)
                 /\ Plain(Deltas(type, item, c)[k])
<1> DEFINE D == Deltas(type, item, c)
<1>1. Chunks \in Nat BY ServiceAssumption
<1>2. \A k \in 1..Chunks : D[k] = Event(type, item, c, << <<Text(item, c)[k]>> >>) BY DEF Deltas
<1>3. ASSUME NEW k \in 1..Chunks PROVE Plain(D[k])
  <2> DEFINE x == <<Text(item, c)[k]>>
  <2>1. x \in Texts BY TextType
  <2>2. D[k] = Event(type, item, c, <<x>>) BY <1>2
  <2> HIDE DEF x
  <2>3. <<x>> \in Seq(Texts) /\ <<x>> # <<>> BY <2>1
  <2> QED BY <2>2, <2>3 DEF Plain, PlainEvents, PlainTypes, Event
<1>4. D \in [1..Chunks -> PlainEvents] BY <1>3 DEF Plain, Deltas
<1> HIDE DEF D
<1>5. D \in Seq(PlainEvents) /\ Len(D) = Chunks BY <1>1, <1>4, SeqDef, LenProperties
<1> QED BY <1>2, <1>3, <1>5 DEF D

(***************************************************************************)
(* The deltas of a content deliver its text, chunk by chunk.               *)
(***************************************************************************)
LEMMA DeltasRun ==
    ASSUME NEW s, NEW item \in Items, NEW c \in Nat, NEW seen \in SUBSET Keys
    PROVE  Runs(s, Deltas("output_text.delta", item, c), seen, Text(item, c),
                seen \cup {<<item, c>>})
<1> DEFINE C == (0..MaxTurns) \X Nat \X Nat \X Nat
           N == Chunks
           T == Text(item, c)
           q == Deltas("output_text.delta", item, c)
           after == seen \cup {<<item, c>>}
           st == [i \in 0..N |-> IF i = 0 THEN seen ELSE after]
           rest == [i \in 0..N |-> SubSeq(T, i + 1, N)]
<1>1. N \in Nat /\ N # 0 BY ServiceAssumption
<1>2. T \in Seq(C) /\ T \in Texts /\ Len(T) = N BY TextType DEF Texts
<1>3. /\ q \in Seq(PlainEvents) /\ Len(q) = N
      /\ \A k \in 1..N : /\ q[k] = Event("output_text.delta", item, c, << <<T[k]>> >>)
                         /\ Plain(q[k])
  BY DeltasAreEvents
<1>4. after \in SUBSET Keys BY DEF Keys
<1> HIDE DEF T, q, N, C
<1>5. \A i \in 0..N : SubSeq(T, i + 1, N) \in Texts
  <2>1. TAKE i \in 0..N
  <2>2. CASE i = N
    <3>1. SubSeq(T, i + 1, N) = <<>> BY <2>2, <1>1, <1>2, SubSeqEmpty
    <3> QED BY <3>1, EmptySeq DEF Texts
  <2>3. CASE i # N
    <3>1. i + 1 \in 1..N BY <2>3, <1>1
    <3>2. \A k \in i + 1..N : T[k] \in C BY <1>2, <3>1, <1>1
    <3>3. SubSeq(T, i + 1, N) \in Seq(C) BY <3>1, <3>2, <1>1, <1>2, SubSeqProperties
    <3> QED BY <3>3 DEF Texts, C
  <2> QED BY <2>2, <2>3
<1>6. st \in [0..N -> SUBSET Keys] /\ rest \in [0..N -> Texts] BY <1>4, <1>5
<1>7. st[0] = seen /\ \A i \in 1..N : st[i] = after BY <1>1
<1>8. \A i \in 0..N : rest[i] = SubSeq(T, i + 1, N) OBVIOUS
<1> HIDE DEF st, rest
<1>9. rest[0] = T /\ rest[N] = <<>>
  <2>1. SubSeq(T, 1, N) = T BY <1>2, SubSeqFull
  <2>2. SubSeq(T, N + 1, N) = <<>> BY <1>1, <1>2, SubSeqEmpty
  <2> QED BY <2>1, <2>2, <1>1, <1>8
<1>10. ASSUME NEW i \in 1..N
       PROVE  /\ st[i] = Marked(s, q[i], st[i - 1])
              /\ rest[i - 1] = Delivered(s, q[i], st[i - 1]) \o rest[i]
  <2>1. i - 1 \in 0..N /\ i \in 0..N /\ (i - 1) + 1 = i BY <1>1
  <2>2. q[i] = Event("output_text.delta", item, c, << <<T[i]>> >>) BY <1>3
  <2>3. Marked(s, q[i], st[i - 1]) = st[i - 1] \cup {<<item, c>>}
    BY <2>2 DEF Marked, Event, Key
  <2>4. Delivered(s, q[i], st[i - 1]) = <<T[i]>> BY <2>2 DEF Delivered, Event
  <2>5. st[i - 1] = seen \/ st[i - 1] = after
    <3>1. CASE i = 1 BY <3>1, <1>7
    <3>2. CASE i # 1
      <4>1. i - 1 \in 1..N BY <3>2, <1>1
      <4> QED BY <4>1, <1>7
    <3> QED BY <3>1, <3>2
  <2>6. SubSeq(T, i, N) = <<T[i]>> \o SubSeq(T, i + 1, N)
    BY <1>1, <1>2, SubSeqRecursiveFirst
  <2> QED BY <2>1, <2>3, <2>4, <2>5, <2>6, <1>7, <1>8
<1>11. Steps(s, q, seen, T, after, st, rest)
  <2>1. st[N] = after
    <3>1. N \in 1..N BY <1>1
    <3> QED BY <3>1, <1>7
  <2> HIDE DEF after
  <2> QED BY <2>1, <1>3, <1>6, <1>7, <1>9, <1>10 DEF Steps
<1> QED BY <1>3, <1>11 DEF Runs, T, q

(***************************************************************************)
(* A content: its deltas, its end, or both, between two quiet events.      *)
(***************************************************************************)
IsStreamed(it) == it.deltas \/ it.closes
SentText(it, item, c) == IF IsStreamed(it) THEN Text(item, c) ELSE <<>>
SeenAfter(it, item, n, seen) ==
    IF IsStreamed(it) THEN seen \cup {<<item, c>> : c \in 1..n} ELSE seen

LEMMA ContentRun ==
    ASSUME NEW s, NEW it \in ItemShapes, NEW item \in Items, NEW c \in Nat,
           NEW seen \in SUBSET Keys, <<item, c>> \notin seen
    PROVE  Runs(s, ContentEvents(it, item, c), seen, SentText(it, item, c),
                IF IsStreamed(it) THEN seen \cup {<<item, c>>} ELSE seen)
<1> DEFINE T == Text(item, c)
           key == <<item, c>>
           a == <<Bare("content_part.added")>>
           d == When(it.deltas, Deltas("output_text.delta", item, c))
           x == Event("output_text.done", item, c, <<T>>)
           b == When(it.closes, <<x>>)
           z == <<Bare("content_part.done")>>
           streamed == IF it.deltas THEN seen \cup {key} ELSE seen
           after == IF IsStreamed(it) THEN seen \cup {key} ELSE seen
           first == IF it.deltas THEN T ELSE <<>>
           second == IF it.closes /\ ~it.deltas THEN T ELSE <<>>
<1>1. it.deltas \in BOOLEAN /\ it.closes \in BOOLEAN BY DEF ItemShapes
<1>2. T \in Texts /\ <<>> \in Texts BY TextType, TextsUnit
<1>3. key \in Keys /\ streamed \in SUBSET Keys /\ after \in SUBSET Keys BY DEF Keys
<1>4. Runs(s, a, seen, <<>>, seen) BY BareIsQuiet, QuietOne
<1>5. Runs(s, d, seen, first, streamed)
  <2>1. CASE it.deltas BY <2>1, DeltasRun DEF When
  <2>2. CASE ~it.deltas BY <2>2, RunsEmpty DEF When
  <2> QED BY <2>1, <2>2
<1>6. Runs(s, b, streamed, second, after)
  <2>1. CASE it.closes
    <3>1. Plain(x)
      <4>1. <<T>> \in Seq(Texts) /\ <<T>> # <<>> BY <1>2
      <4> HIDE DEF T
      <4> QED BY <4>1 DEF Plain, PlainEvents, PlainTypes, Event
    <3>2. x.type = "output_text.done" /\ Key(x) = key /\ x.texts[1] = T BY DEF Event, Key
    <3> HIDE DEF x, T, key
    <3>3. Delivered(s, x, streamed) = second
      <4>1. CASE it.deltas
        <5>1. Key(x) \in streamed BY <4>1, <3>2
        <5> QED BY <4>1, <5>1, <3>2 DEF Delivered, EndsMessage
      <4>2. CASE ~it.deltas
        <5>1. Key(x) \notin streamed BY <4>2, <3>2 DEF key
        <5> QED BY <4>2, <5>1, <2>1, <3>2 DEF Delivered
      <4> QED BY <4>1, <4>2
    <3>4. Marked(s, x, streamed) = after BY <2>1, <3>2 DEF Marked, IsStreamed
    <3>5. Runs(s, <<x>>, streamed, second, after) BY <1>3, <3>1, <3>3, <3>4, RunsOne
    <3> QED BY <2>1, <3>5 DEF When
  <2>2. CASE ~it.closes
    <3>1. streamed = after /\ second = <<>> BY <2>2 DEF IsStreamed
    <3>2. Runs(s, <<>>, streamed, <<>>, streamed) BY <1>3, RunsEmpty
    <3> HIDE DEF streamed, after, second
    <3> QED BY <2>2, <3>1, <3>2 DEF When
  <2> QED BY <2>1, <2>2
<1>7. Runs(s, z, after, <<>>, after) BY <1>3, BareIsQuiet, QuietOne
<1>8. ((<<>> \o first) \o second) \o <<>> = SentText(it, item, c)
  <2> HIDE DEF T
  <2>1. <<>> \o T = T /\ T \o <<>> = T /\ <<>> \o <<>> = <<>> BY <1>2, TextsUnit
  <2>2. CASE it.deltas BY <2>1, <2>2 DEF SentText, IsStreamed, T
  <2>3. CASE ~it.deltas /\ it.closes BY <2>1, <2>3 DEF SentText, IsStreamed, T
  <2>4. CASE ~it.deltas /\ ~it.closes BY <2>1, <2>4 DEF SentText, IsStreamed, T
  <2> QED BY <1>1, <2>2, <2>3, <2>4
<1>9. ContentEvents(it, item, c) = ((a \o d) \o b) \o z BY DEF ContentEvents
<1> HIDE DEF a, d, b, z, first, second, streamed, after
<1>10. Runs(s, a \o d, seen, <<>> \o first, streamed) BY <1>4, <1>5, RunsConcat
<1>11. Runs(s, (a \o d) \o b, seen, (<<>> \o first) \o second, after) BY <1>6, <1>10, RunsConcat
<1>12. Runs(s, ((a \o d) \o b) \o z, seen, ((<<>> \o first) \o second) \o <<>>, after)
  BY <1>7, <1>11, RunsConcat
<1> QED BY <1>8, <1>9, <1>12 DEF after, key

(***************************************************************************)
(* The contents of a message, one after the other.                         *)
(***************************************************************************)
LEMMA ContentsRun ==
    ASSUME NEW s, NEW it \in ItemShapes, NEW item \in Items, NEW n \in Nat,
           NEW seen \in SUBSET Keys, \A c \in Nat : <<item, c>> \notin seen
    PROVE  Runs(s, FlattenSeq([c \in 1..n |-> ContentEvents(it, item, c)]), seen,
                FlattenSeq([c \in 1..n |-> SentText(it, item, c)]),
                SeenAfter(it, item, n, seen))
<1> DEFINE C == (0..MaxTurns) \X Nat \X Nat \X Nat
           E(m) == [c \in 1..m |-> ContentEvents(it, item, c)]
           T(m) == [c \in 1..m |-> SentText(it, item, c)]
           P(m) == Runs(s, FlattenSeq(E(m)), seen, FlattenSeq(T(m)), SeenAfter(it, item, m, seen))
           N == {m \in Nat : P(m)}
<1>1. P(0)
  <2>1. E(0) = <<>> /\ T(0) = <<>> OBVIOUS
  <2>2. SeenAfter(it, item, 0, seen) = seen BY DEF SeenAfter
  <2> HIDE DEF E, T
  <2> QED BY <2>1, <2>2, FlattenEmpty, RunsEmpty
<1>2. ASSUME NEW m \in Nat, P(m) PROVE P(m + 1)
  <2> DEFINE mid == SeenAfter(it, item, m, seen)
  <2>1. mid \in SUBSET Keys /\ <<item, m + 1>> \notin mid
    <3>1. mid \in SUBSET Keys BY <1>2, RunsTypes
    <3>2. \A c \in 1..m : c # m + 1 OBVIOUS
    <3> QED BY <3>1, <3>2 DEF SeenAfter
  <2>2. \A c \in Nat : ContentEvents(it, item, c) \in Seq(PlainEvents)
    <3>1. TAKE c \in Nat
    <3>2. Runs(s, ContentEvents(it, item, c), seen, SentText(it, item, c),
               IF IsStreamed(it) THEN seen \cup {<<item, c>>} ELSE seen)
      BY ContentRun
    <3> QED BY <3>2 DEF Runs
  <2>3. \A c \in Nat : SentText(it, item, c) \in Seq(C)
    <3>1. <<>> \in Seq(C) BY EmptySeq
    <3>2. \A c \in Nat : Text(item, c) \in Seq(C) BY TextType DEF Texts
    <3> HIDE DEF C
    <3> QED BY <3>1, <3>2 DEF SentText
  <2>4. Runs(s, ContentEvents(it, item, m + 1), mid, SentText(it, item, m + 1),
             IF IsStreamed(it) THEN mid \cup {<<item, m + 1>>} ELSE mid)
    <3> HIDE DEF mid
    <3>1. m + 1 \in Nat OBVIOUS
    <3> QED BY <2>1, <3>1, ContentRun
  <2>5. (IF IsStreamed(it) THEN mid \cup {<<item, m + 1>>} ELSE mid)
          = SeenAfter(it, item, m + 1, seen)
    <3>1. 1..m + 1 = (1..m) \cup {m + 1} OBVIOUS
    <3> QED BY <3>1 DEF SeenAfter
  <2>6. FlattenSeq(E(m + 1)) = FlattenSeq(E(m)) \o ContentEvents(it, item, m + 1)
    <3> DEFINE f == E(m + 1)
    <3>1. f = [i \in 1..m + 1 |-> f[i]] /\ \A i \in 1..m + 1 : f[i] \in Seq(PlainEvents)
      BY <2>2
    <3>2. [i \in 1..m |-> f[i]] = E(m) /\ f[m + 1] = ContentEvents(it, item, m + 1) OBVIOUS
    <3> HIDE DEF f, E
    <3>3. FlattenSeq(f) = FlattenSeq([i \in 1..m |-> f[i]]) \o f[m + 1] BY <3>1, FlattenCounted
    <3> QED BY <3>2, <3>3 DEF f
  <2>7. FlattenSeq(T(m + 1)) = FlattenSeq(T(m)) \o SentText(it, item, m + 1)
    <3> DEFINE f == T(m + 1)
    <3>1. f = [i \in 1..m + 1 |-> f[i]] /\ \A i \in 1..m + 1 : f[i] \in Seq(C)
      BY <2>3
    <3>2. [i \in 1..m |-> f[i]] = T(m) /\ f[m + 1] = SentText(it, item, m + 1) OBVIOUS
    <3> HIDE DEF f, T, C
    <3>3. FlattenSeq(f) = FlattenSeq([i \in 1..m |-> f[i]]) \o f[m + 1] BY <3>1, FlattenCounted
    <3> QED BY <3>2, <3>3 DEF f
  <2> HIDE DEF E, T, mid
  <2>8. Runs(s, FlattenSeq(E(m)), seen, FlattenSeq(T(m)), mid) BY <1>2 DEF mid
  <2>9. Runs(s, ContentEvents(it, item, m + 1), mid, SentText(it, item, m + 1),
             SeenAfter(it, item, m + 1, seen))
    BY <2>4, <2>5
  <2>10. Runs(s, FlattenSeq(E(m)) \o ContentEvents(it, item, m + 1), seen,
              FlattenSeq(T(m)) \o SentText(it, item, m + 1), SeenAfter(it, item, m + 1, seen))
    BY <2>8, <2>9, RunsConcat
  <2> QED BY <2>6, <2>7, <2>10
<1> HIDE DEF P
<1>3. N \in SUBSET Nat /\ 0 \in N /\ \A m \in N : m + 1 \in N BY <1>1, <1>2
<1>4. N = Nat
  <2> HIDE DEF N
  <2> QED BY <1>3, Induction
<1>5. P(n)
  <2>1. n \in N BY <1>4
  <2> QED BY <2>1
<1> QED BY <1>5 DEF P

LEMMA NothingFlattened ==
    ASSUME NEW n \in Nat
    PROVE  FlattenSeq([c \in 1..n |-> <<>>]) = <<>>
<1> DEFINE E(m) == [c \in 1..m |-> <<>>]
           P(m) == FlattenSeq(E(m)) = <<>>
           N == {m \in Nat : P(m)}
<1>1. P(0)
  <2>1. E(0) = <<>> OBVIOUS
  <2> QED BY <2>1, FlattenEmpty
<1>2. ASSUME NEW m \in Nat, P(m) PROVE P(m + 1)
  <2> DEFINE f == E(m + 1)
  <2>1. f = [i \in 1..m + 1 |-> f[i]] /\ \A i \in 1..m + 1 : f[i] \in Seq({})
    BY EmptySeq
  <2>2. [i \in 1..m |-> f[i]] = E(m) /\ f[m + 1] = <<>> OBVIOUS
  <2> HIDE DEF f, E
  <2>3. FlattenSeq(f) = FlattenSeq([i \in 1..m |-> f[i]]) \o f[m + 1] BY <2>1, FlattenCounted
  <2>4. <<>> \o <<>> = <<>> OBVIOUS
  <2> QED BY <2>2, <2>3, <2>4, <1>2 DEF f
<1> HIDE DEF P
<1>3. N \in SUBSET Nat /\ 0 \in N /\ \A m \in N : m + 1 \in N BY <1>1, <1>2
<1>4. N = Nat
  <2> HIDE DEF N
  <2> QED BY <1>3, Induction
<1>5. P(n)
  <2>1. n \in N BY <1>4
  <2> QED BY <2>1
<1> QED BY <1>5 DEF P

(***************************************************************************)
(* The whole text of an item, if it is a message.                          *)
(***************************************************************************)
ItemText(it, item) == IF it.kind = "message" THEN FlattenSeq(Contents(it, item)) ELSE <<>>

LEMMA ContentsType ==
    ASSUME NEW it \in ItemShapes, NEW item \in Items
    PROVE  /\ it.contents \in Nat
           /\ Contents(it, item) \in Seq(Texts)
           /\ Len(Contents(it, item)) = it.contents
           /\ DOMAIN Contents(it, item) = 1..it.contents
           /\ \A c \in 1..it.contents : Contents(it, item)[c] = Text(item, c)
           /\ FlattenSeq(Contents(it, item)) \in Texts
<1> DEFINE C == (0..MaxTurns) \X Nat \X Nat \X Nat
           n == it.contents
           T == Contents(it, item)
<1>1. n \in Nat BY DEF ItemShapes
<1>2. \A c \in 1..n : T[c] = Text(item, c) BY DEF Contents
<1>3. \A c \in 1..n : Text(item, c) \in Texts BY TextType
<1>4. T \in [1..n -> Texts] BY <1>3 DEF Contents
<1> HIDE DEF T, n, C
<1>5. T \in Seq(Texts) /\ Len(T) = n /\ DOMAIN T = 1..n BY <1>1, <1>4, SeqDef, LenProperties
<1>6. T \in Seq(Seq(C)) BY <1>5 DEF Texts, C
<1>7. FlattenSeq(T) \in Seq(C) BY <1>6, FlattenType
<1> QED BY <1>1, <1>2, <1>5, <1>7 DEF T, n, C, Texts

\* A reasoning item delivers no text.
LEMMA ReasoningRun ==
    ASSUME NEW s, NEW it \in ItemShapes, NEW item \in Items, s.items[item[2]] = it,
           it.kind = "reasoning", NEW seen \in SUBSET Keys
    PROVE  Runs(s, ReasoningEvents(it, item), seen, <<>>, seen)
<1> DEFINE x == Event("item.done", item, 0, When(it.whole, Contents(it, item)))
           d == When(it.deltas, Deltas("reasoning.delta", item, 1))
<1>1. Quiet(s, x)
  <2>1. When(it.whole, Contents(it, item)) \in Seq(Texts)
    BY ContentsType, EmptySeq DEF When
  <2>2. x \in PlainEvents BY <2>1 DEF PlainEvents, PlainTypes, Event
  <2>3. x.type = "item.done" /\ x.item = item BY DEF Event
  <2> HIDE DEF x
  <2> QED BY <2>2, <2>3 DEF Quiet, Plain, EndsMessage
<1>2. Runs(s, d, seen, <<>>, seen)
  <2>1. CASE it.deltas
    <3> DEFINE q == Deltas("reasoning.delta", item, 1)
    <3>1. q \in Seq(PlainEvents) /\ Len(q) = Chunks
          /\ \A k \in 1..Chunks : /\ q[k] = Event("reasoning.delta", item, 1, << <<Text(item, 1)[k]>> >>)
                                  /\ Plain(q[k])
      BY DeltasAreEvents
    <3> HIDE DEF q
    <3>2. \A k \in 1..Len(q) : q[k].type = "reasoning.delta" /\ Plain(q[k])
      <4>1. \A k \in 1..Chunks :
              Event("reasoning.delta", item, 1, << <<Text(item, 1)[k]>> >>).type = "reasoning.delta"
        BY DEF Event
      <4> QED BY <3>1, <4>1
    <3>3. \A k \in 1..Len(q) : Quiet(s, q[k]) BY <3>2 DEF Quiet, EndsMessage
    <3>4. Runs(s, q, seen, <<>>, seen) BY <3>1, <3>3, QuietRun
    <3> QED BY <2>1, <3>4 DEF When, q
  <2>2. CASE ~it.deltas BY <2>2, RunsEmpty DEF When
  <2> QED BY <2>1, <2>2
<1> HIDE DEF x, d
<1>3. Runs(s, <<x>>, seen, <<>>, seen) BY <1>1, QuietOne
<1>4. Runs(s, d \o <<x>>, seen, <<>> \o <<>>, seen) BY <1>2, <1>3, RunsConcat
<1>5. <<>> \o <<>> = <<>> OBVIOUS
<1> QED BY <1>4, <1>5 DEF ReasoningEvents, x, d

(***************************************************************************)
(* A message: what its contents did not bring comes with the item.         *)
(***************************************************************************)
LEMMA MessageRun ==
    ASSUME NEW s, NEW it \in ItemShapes, NEW item \in Items, s.items[item[2]] = it,
           it.kind = "message", SendsItsText(it),
           NEW seen \in SUBSET Keys, \A c \in Nat : <<item, c>> \notin seen
    PROVE  \E after : /\ Runs(s, MessageEvents(it, item), seen, FlattenSeq(Contents(it, item)), after)
                      /\ after \subseteq seen \cup ({item} \X Nat)
<1> DEFINE n == it.contents
           all == Contents(it, item)
           x == Event("item.done", item, 0, all)
           q == FlattenSeq([c \in 1..n |-> ContentEvents(it, item, c)])
           sent == FlattenSeq([c \in 1..n |-> SentText(it, item, c)])
           mid == SeenAfter(it, item, n, seen)
<1>1. n \in Nat /\ all \in Seq(Texts) /\ DOMAIN all = 1..n
      /\ (\A c \in 1..n : all[c] = Text(item, c)) /\ FlattenSeq(all) \in Texts
  BY ContentsType
<1>2. Runs(s, q, seen, sent, mid) BY <1>1, ContentsRun
<1>3. mid \subseteq seen \cup ({item} \X Nat) /\ mid \in SUBSET Keys
  <2>1. mid \in SUBSET Keys BY <1>2, RunsTypes
  <2>2. \A c \in 1..n : <<item, c>> \in {item} \X Nat OBVIOUS
  <2> QED BY <2>1, <2>2 DEF SeenAfter
<1>4. MessageEvents(it, item) = q \o When(it.whole, <<x>>) BY DEF MessageEvents
<1>5. it.whole \in BOOLEAN /\ it.deltas \in BOOLEAN /\ it.closes \in BOOLEAN BY DEF ItemShapes
<1>6. Plain(x)
  <2> HIDE DEF all
  <2> QED BY <1>1 DEF Plain, PlainEvents, PlainTypes, Event
<1>7. EndsMessage(s, x) /\ x.item = item /\ x.texts = all /\ x.type = "item.done"
  BY DEF EndsMessage, Event
<1>8. IsStreamed(it) => sent = FlattenSeq(all) /\ Missing(x, mid) = <<>>
  <2> SUFFICES ASSUME IsStreamed(it) PROVE sent = FlattenSeq(all) /\ Missing(x, mid) = <<>>
    OBVIOUS
  <2>1. [c \in 1..n |-> SentText(it, item, c)] = all BY DEF SentText, Contents
  <2>2. [c \in DOMAIN x.texts |-> IF <<x.item, c>> \in mid THEN <<>> ELSE x.texts[c]]
          = [c \in 1..n |-> <<>>]
    <3> HIDE DEF x, all
    <3>1. \A c \in 1..n : <<item, c>> \in mid BY DEF SeenAfter
    <3> HIDE DEF mid
    <3> QED BY <3>1, <1>1, <1>7
  <2>3. Missing(x, mid) = <<>> BY <2>2, <1>1, NothingFlattened DEF Missing
  <2> QED BY <2>1, <2>3
<1>9. ~IsStreamed(it) => sent = <<>> /\ Missing(x, mid) = FlattenSeq(all)
  <2> SUFFICES ASSUME ~IsStreamed(it) PROVE sent = <<>> /\ Missing(x, mid) = FlattenSeq(all)
    OBVIOUS
  <2>1. [c \in 1..n |-> SentText(it, item, c)] = [c \in 1..n |-> <<>>] BY DEF SentText
  <2>2. sent = <<>> BY <2>1, <1>1, NothingFlattened
  <2>3. [c \in DOMAIN x.texts |-> IF <<x.item, c>> \in mid THEN <<>> ELSE x.texts[c]] = all
    <3>1. mid = seen BY DEF SeenAfter
    <3>2. all = [c \in 1..n |-> all[c]] BY DEF Contents
    <3> HIDE DEF x, all, mid
    <3> QED BY <3>1, <3>2, <1>1, <1>7
  <2>4. Missing(x, mid) = FlattenSeq(all) BY <2>3 DEF Missing
  <2> QED BY <2>2, <2>4
<1>10. CASE it.whole
  <2> DEFINE after == Marked(s, x, mid)
  <2> HIDE DEF x, q, sent, mid, all
  <2>1. Delivered(s, x, mid) = Missing(x, mid) BY <1>7 DEF Delivered
  <2>2. Runs(s, <<x>>, mid, Missing(x, mid), after) BY <1>3, <1>6, <2>1, RunsOne
  <2>3. Runs(s, q \o <<x>>, seen, sent \o Missing(x, mid), after) BY <1>2, <2>2, RunsConcat
  <2>4. sent \o Missing(x, mid) = FlattenSeq(all)
    <3>1. FlattenSeq(all) \o <<>> = FlattenSeq(all) /\ <<>> \o FlattenSeq(all) = FlattenSeq(all)
      BY <1>1, TextsUnit
    <3> QED BY <3>1, <1>8, <1>9
  <2>5. after \subseteq mid \cup ({item} \X Nat) BY <1>1, <1>7 DEF Marked
  <2>6. MessageEvents(it, item) = q \o <<x>> BY <1>4, <1>10 DEF When
  <2> HIDE DEF after
  <2>7. after \subseteq seen \cup ({item} \X Nat) BY <2>5, <1>3
  <2>8. Runs(s, MessageEvents(it, item), seen, FlattenSeq(all), after)
    BY <2>3, <2>4, <2>6
  <2> QED BY <2>7, <2>8 DEF all
<1>11. CASE ~it.whole
  <2>1. IsStreamed(it) BY <1>11 DEF SendsItsText, IsStreamed
  <2>2. MessageEvents(it, item) = q \o <<>> BY <1>4, <1>11 DEF When
  <2>3. q \in Seq(PlainEvents) BY <1>2 DEF Runs
  <2> HIDE DEF x, q, sent, mid, all
  <2>4. q \o <<>> = q BY <2>3, ConcatEmptySeq
  <2>5. Runs(s, MessageEvents(it, item), seen, FlattenSeq(all), mid)
    BY <2>1, <2>2, <2>4, <1>2, <1>8
  <2> QED BY <2>5, <1>3 DEF all
<1> QED BY <1>5, <1>10, <1>11

\* An item, of either kind.
LEMMA ItemRun ==
    ASSUME NEW s, NEW it \in ItemShapes, NEW item \in Items, s.items[item[2]] = it,
           SendsItsText(it),
           NEW seen \in SUBSET Keys, \A c \in Nat : <<item, c>> \notin seen
    PROVE  \E after : /\ Runs(s, ItemEvents(it, item), seen, ItemText(it, item), after)
                      /\ after \subseteq seen \cup ({item} \X Nat)
<1> DEFINE a == <<Bare("item.added")>>
           q == IF it.kind = "reasoning" THEN ReasoningEvents(it, item) ELSE MessageEvents(it, item)
           text == ItemText(it, item)
<1>1. Runs(s, a, seen, <<>>, seen) BY BareIsQuiet, QuietOne
<1>2. it.kind \in {"reasoning", "message"} BY DEF ItemShapes
<1>3. PICK after : Runs(s, q, seen, text, after) /\ after \subseteq seen \cup ({item} \X Nat)
  <2>1. CASE it.kind = "reasoning"
    <3>1. Runs(s, ReasoningEvents(it, item), seen, <<>>, seen) BY <2>1, ReasoningRun
    <3>2. q = ReasoningEvents(it, item) /\ text = <<>> BY <2>1 DEF ItemText
    <3> QED BY <3>1, <3>2
  <2>2. CASE it.kind = "message"
    <3>1. \E after : /\ Runs(s, MessageEvents(it, item), seen, FlattenSeq(Contents(it, item)), after)
                     /\ after \subseteq seen \cup ({item} \X Nat)
      BY <2>2, MessageRun
    <3>2. q = MessageEvents(it, item) /\ text = FlattenSeq(Contents(it, item))
      BY <2>2 DEF ItemText
    <3> QED BY <3>1, <3>2
  <2> QED BY <1>2, <2>1, <2>2
<1>4. ItemEvents(it, item) = a \o q BY DEF ItemEvents
<1> HIDE DEF a, q, text
<1>5. Runs(s, a \o q, seen, <<>> \o text, after) BY <1>1, <1>3, RunsConcat
<1>6. <<>> \o text = text
  <2>1. text \in Texts BY <1>3, RunsTypes
  <2> QED BY <2>1, TextsUnit
<1> QED BY <1>3, <1>4, <1>5, <1>6 DEF text

(***************************************************************************)
(* The items of a response to turn t, one after the other.                 *)
(***************************************************************************)
LEMMA ItemsRun ==
    ASSUME NEW s \in Shapes, NEW t \in 0..MaxTurns
    PROVE  \E after :
              Runs(s, FlattenSeq([i \in DOMAIN s.items |-> ItemEvents(s.items[i], <<t, i>>)]),
                   {}, WholeText(s, t), after)
<1> DEFINE C == (0..MaxTurns) \X Nat \X Nat \X Nat
           n == Len(s.items)
           Ev(i) == ItemEvents(s.items[i], <<t, i>>)
           Tx(i) == ItemText(s.items[i], <<t, i>>)
           E(m) == [i \in 1..m |-> Ev(i)]
           T(m) == [i \in 1..m |-> Tx(i)]
           Upto(m) == {<<t, i>> : i \in 1..m} \X Nat
           P(m) == m <= n =>
                     \E after : /\ Runs(s, FlattenSeq(E(m)), {}, FlattenSeq(T(m)), after)
                                /\ after \subseteq Upto(m)
           N == {m \in Nat : P(m)}
<1>1. /\ s.items \in Seq(ItemShapes) /\ n \in Nat /\ DOMAIN s.items = 1..n
      /\ \A i \in 1..n : s.items[i] \in ItemShapes /\ SendsItsText(s.items[i])
  <2>1. s.items \in Seq(ItemShapes) /\ \A i \in DOMAIN s.items : SendsItsText(s.items[i])
    BY ServiceAssumption
  <2> QED BY <2>1, LenProperties, ElementOfSeq
<1>2. \A i \in 1..n : <<t, i>> \in Items BY DEF Items
<1>3. ASSUME NEW i \in 1..n, NEW seen \in SUBSET Keys, \A c \in Nat : <<<<t, i>>, c>> \notin seen
      PROVE  \E after : Runs(s, Ev(i), seen, Tx(i), after) /\ after \subseteq seen \cup ({<<t, i>>} \X Nat)
  <2>1. PICK item, it : item = <<t, i>> /\ it = s.items[i] OBVIOUS
  <2>2. item \in Items /\ it \in ItemShapes /\ SendsItsText(it) /\ s.items[item[2]] = it
    BY <1>1, <1>2, <2>1
  <2>3. \A c \in Nat : <<item, c>> \notin seen BY <1>3, <2>1
  <2> HIDE DEF n, C, Ev, Tx, E, T, Upto, P, N
  <2>4. \E after : /\ Runs(s, ItemEvents(it, item), seen, ItemText(it, item), after)
                   /\ after \subseteq seen \cup ({item} \X Nat)
    BY <2>2, <2>3, ItemRun
  <2> QED BY <2>1, <2>4 DEF Ev, Tx
<1>4. \A i \in 1..n : Ev(i) \in Seq(PlainEvents) /\ Tx(i) \in Seq(C)
  <2> TAKE i \in 1..n
  <2>1. PICK after : Runs(s, Ev(i), {}, Tx(i), after)
    <3> HIDE DEF Ev, Tx
    <3> QED BY <1>3
  <2>2. Tx(i) \in Texts
    <3> HIDE DEF Ev, Tx
    <3> QED BY <2>1, RunsTypes
  <2>3. Ev(i) \in Seq(PlainEvents) BY <2>1 DEF Runs
  <2> QED BY <2>2, <2>3 DEF Texts
<1> HIDE DEF n, C, Ev, Tx
<1>5. P(0)
  <2>1. E(0) = <<>> /\ T(0) = <<>> OBVIOUS
  <2> HIDE DEF E, T
  <2>2. Runs(s, FlattenSeq(E(0)), {}, FlattenSeq(T(0)), {})
    BY <2>1, FlattenEmpty, RunsEmpty
  <2> QED BY <2>2
<1>6. ASSUME NEW m \in Nat, P(m) PROVE P(m + 1)
  <2> SUFFICES ASSUME m + 1 <= n
               PROVE  \E after : /\ Runs(s, FlattenSeq(E(m + 1)), {}, FlattenSeq(T(m + 1)), after)
                                 /\ after \subseteq Upto(m + 1)
    OBVIOUS
  <2>1. m + 1 \in 1..n /\ m <= n BY <1>1
  <2>2. PICK mid : Runs(s, FlattenSeq(E(m)), {}, FlattenSeq(T(m)), mid) /\ mid \subseteq Upto(m)
    BY <1>6, <2>1
  <2>3. mid \in SUBSET Keys
    <3> HIDE DEF E, T
    <3> QED BY <2>2, RunsTypes
  <2>4. \A c \in Nat : <<<<t, m + 1>>, c>> \notin mid
    <3>1. \A i \in 1..m : <<t, i>> # <<t, m + 1>> OBVIOUS
    <3> QED BY <2>2, <3>1
  <2>5. PICK after : /\ Runs(s, Ev(m + 1), mid, Tx(m + 1), after)
                     /\ after \subseteq mid \cup ({<<t, m + 1>>} \X Nat)
    BY <2>1, <2>3, <2>4, <1>3
  <2>6. after \subseteq Upto(m + 1)
    <3>1. m + 1 \in 1..m + 1 /\ 1..m \subseteq 1..m + 1 OBVIOUS
    <3> QED BY <2>2, <2>5, <3>1
  <2>7. FlattenSeq(E(m + 1)) = FlattenSeq(E(m)) \o Ev(m + 1)
    <3> DEFINE f == E(m + 1)
    <3>1. f = [i \in 1..m + 1 |-> f[i]] /\ \A i \in 1..m + 1 : f[i] \in Seq(PlainEvents)
      BY <1>1, <1>4, <2>1
    <3>2. [i \in 1..m |-> f[i]] = E(m) /\ f[m + 1] = Ev(m + 1) OBVIOUS
    <3> HIDE DEF f, E
    <3>3. FlattenSeq(f) = FlattenSeq([i \in 1..m |-> f[i]]) \o f[m + 1] BY <3>1, FlattenCounted
    <3> QED BY <3>2, <3>3 DEF f
  <2>8. FlattenSeq(T(m + 1)) = FlattenSeq(T(m)) \o Tx(m + 1)
    <3> DEFINE f == T(m + 1)
    <3>1. f = [i \in 1..m + 1 |-> f[i]] /\ \A i \in 1..m + 1 : f[i] \in Seq(C)
      BY <1>1, <1>4, <2>1
    <3>2. [i \in 1..m |-> f[i]] = T(m) /\ f[m + 1] = Tx(m + 1) OBVIOUS
    <3> HIDE DEF f, T
    <3>3. FlattenSeq(f) = FlattenSeq([i \in 1..m |-> f[i]]) \o f[m + 1] BY <3>1, FlattenCounted
    <3> QED BY <3>2, <3>3 DEF f
  <2> HIDE DEF E, T
  <2>9. Runs(s, FlattenSeq(E(m)) \o Ev(m + 1), {}, FlattenSeq(T(m)) \o Tx(m + 1), after)
    BY <2>2, <2>5, RunsConcat
  <2> QED BY <2>6, <2>7, <2>8, <2>9
<1> HIDE DEF P
<1>7. N \in SUBSET Nat /\ 0 \in N /\ \A m \in N : m + 1 \in N BY <1>5, <1>6
<1>8. N = Nat
  <2> HIDE DEF N
  <2> QED BY <1>7, Induction
<1>9. P(n)
  <2>1. n \in N BY <1>1, <1>8
  <2> QED BY <2>1
<1>10. PICK after : Runs(s, FlattenSeq(E(n)), {}, FlattenSeq(T(n)), after)
  <2> HIDE DEF E, T, N, Upto
  <2>1. n <= n BY <1>1
  <2> QED BY <2>1, <1>9 DEF P
<1>11. E(n) = [i \in DOMAIN s.items |-> ItemEvents(s.items[i], <<t, i>>)]
  BY <1>1 DEF Ev
<1>12. FlattenSeq(T(n)) = WholeText(s, t)
  <2>1. T(n) = [i \in DOMAIN s.items |->
                  IF s.items[i].kind = "message" THEN FlattenSeq(Contents(s.items[i], <<t, i>>))
                  ELSE <<>>]
    BY <1>1 DEF Tx, ItemText
  <2> HIDE DEF T
  <2> QED BY <2>1 DEF WholeText
<1> HIDE DEF E, T
<1> QED BY <1>10, <1>11, <1>12

----------------------------------------------------------------------------
(***************************************************************************)
(* A response: plain events, and its end.                                  *)
(***************************************************************************)
Body(s, t) ==
    <<Bare("created"), Bare("in_progress")>>
        \o FlattenSeq([i \in DOMAIN s.items |-> ItemEvents(s.items[i], <<t, i>>)])

Ending(s) == When(s.completes, <<Bare("completed")>>) \o <<Bare("[DONE]")>>

EventTypes == PlainTypes \cup {"completed", "[DONE]", "failed", "torn"}
Events == [type : EventTypes, item : Items, content : Nat, texts : Seq(Texts)]

LEMMA BareType ==
    ASSUME NEW type \in EventTypes
    PROVE  Bare(type) \in Events
<1>1. <<>> \in Seq(Texts) BY EmptySeq
<1> QED BY <1>1, NoItemType DEF Bare, Event, Events

LEMMA PlainSeq ==
    ASSUME NEW q \in Seq(PlainEvents)
    PROVE  q \in Seq(Events)
<1>1. PlainEvents \subseteq Events BY DEF PlainEvents, Events, EventTypes
<1> QED BY <1>1, SeqMonotonic

LEMMA EndingType ==
    ASSUME NEW s, s.completes \in BOOLEAN
    PROVE  /\ Ending(s) \in Seq(Events) /\ Len(Ending(s)) >= 1
           /\ Ending(s)[1] = IF s.completes THEN Bare("completed") ELSE Bare("[DONE]")
<1>1. Bare("completed") \in Events /\ Bare("[DONE]") \in Events BY BareType DEF EventTypes
<1>2. CASE s.completes
  <2>1. Ending(s) = <<Bare("completed")>> \o <<Bare("[DONE]")>> BY <1>2 DEF Ending, When
  <2> DEFINE x == Bare("completed")
             y == Bare("[DONE]")
  <2>2. <<x>> \in Seq(Events) /\ <<y>> \in Seq(Events) /\ Len(<<x>>) = 1 /\ Len(<<y>>) = 1
        /\ <<x>>[1] = x
    BY <1>1
  <2> HIDE DEF x, y
  <2>3. <<x>> \o <<y>> \in Seq(Events) /\ Len(<<x>> \o <<y>>) = 2 /\ (<<x>> \o <<y>>)[1] = x
    BY <2>2, ConcatProperties
  <2> QED BY <2>1, <2>3, <1>2 DEF x, y
<1>3. CASE ~s.completes
  <2>1. Ending(s) = <<>> \o <<Bare("[DONE]")>> BY <1>3 DEF Ending, When
  <2>2. Ending(s) = <<Bare("[DONE]")>> BY <2>1, <1>1
  <2> QED BY <2>2, <1>1, <1>3
<1> QED BY <1>2, <1>3

\* A response, read from its beginning: its text, then its end.
LEMMA ResponseRun ==
    ASSUME NEW s \in Shapes, NEW t \in 0..MaxTurns
    PROVE  /\ \E after : Runs(s, Body(s, t), {}, WholeText(s, t), after)
           /\ buildStreamEvents(s, t) = Body(s, t) \o Ending(s)
           /\ buildStreamEvents(s, t) \in Seq(Events)
           /\ WholeText(s, t) \in Texts
<1> DEFINE a == <<Bare("created"), Bare("in_progress")>>
           q == FlattenSeq([i \in DOMAIN s.items |-> ItemEvents(s.items[i], <<t, i>>)])
           b == When(s.completes, <<Bare("completed")>>)
           z == <<Bare("[DONE]")>>
<1>1. PICK after : Runs(s, q, {}, WholeText(s, t), after) BY ItemsRun
<1>2. Runs(s, a, {}, <<>>, {})
  <2>1. Quiet(s, Bare("created")) /\ Quiet(s, Bare("in_progress")) BY BareIsQuiet
  <2>2. Bare("created") \in PlainEvents /\ Bare("in_progress") \in PlainEvents
    BY <2>1 DEF Quiet, Plain
  <2>3. a \in Seq(PlainEvents) /\ \A i \in 1..Len(a) : Quiet(s, a[i]) BY <2>1, <2>2
  <2> HIDE DEF a
  <2> QED BY <2>3, QuietRun
<1>3. WholeText(s, t) \in Texts
  <2> HIDE DEF q
  <2> QED BY <1>1, RunsTypes
<1>4. Body(s, t) = a \o q BY DEF Body
<1>5. buildStreamEvents(s, t) = ((a \o q) \o b) \o z BY DEF buildStreamEvents
<1>6. Ending(s) = b \o z BY DEF Ending
<1>7. a \in Seq(Events) /\ q \in Seq(Events) /\ b \in Seq(Events) /\ z \in Seq(Events)
  <2>1. a \in Seq(PlainEvents) /\ q \in Seq(PlainEvents) BY <1>1, <1>2 DEF Runs
  <2>2. Bare("completed") \in Events /\ Bare("[DONE]") \in Events BY BareType DEF EventTypes
  <2>3. b \in Seq(Events) /\ z \in Seq(Events) BY <2>2, EmptySeq DEF When
  <2> HIDE DEF a, q
  <2> QED BY <2>1, <2>3, PlainSeq
<1> HIDE DEF a, q, b, z
<1>8. Runs(s, a \o q, {}, <<>> \o WholeText(s, t), after) BY <1>1, <1>2, RunsConcat
<1>9. <<>> \o WholeText(s, t) = WholeText(s, t) BY <1>3, TextsUnit
<1>10. a \o q \in Seq(Events) BY <1>7, ConcatProperties
<1>11. ((a \o q) \o b) \o z = (a \o q) \o (b \o z)
  <2>1. PICK x \in Seq(Events) : x = a \o q BY <1>10
  <2>2. b \in Seq(Events) /\ z \in Seq(Events) BY <1>7
  <2>3. (x \o b) \o z = x \o (b \o z) BY <2>2, ThreeSequences
  <2> QED BY <2>1, <2>3
<1>12. ((a \o q) \o b) \in Seq(Events) BY <1>7, <1>10, ConcatProperties
<1>13. ((a \o q) \o b) \o z \in Seq(Events) BY <1>7, <1>12, ConcatProperties
<1> QED BY <1>3, <1>4, <1>5, <1>6, <1>8, <1>9, <1>11, <1>13

----------------------------------------------------------------------------
(***************************************************************************)
(* The reasoning items of a response: each is ended once, under its own    *)
(* id.                                                                     *)
(***************************************************************************)
EndsReasoning(s, e) == e.type = "item.done" /\ s.items[e.item[2]].kind = "reasoning"

\* A response has one reasoning item, or none.
OneReasoning(s) ==
    \A i, j \in DOMAIN s.items :
        s.items[i].kind = "reasoning" /\ s.items[j].kind = "reasoning" => i = j

LEMMA HeadAndTail ==
    ASSUME NEW S, NEW q \in Seq(S), q # <<>>
    PROVE  q = <<Head(q)>> \o Tail(q)
<1>1. Len(q) \in Nat \ {0} BY EmptySeq
<1>2. 1 \in 1..Len(q) /\ Len(q) \in 1..Len(q) BY <1>1
<1>3. SubSeq(q, 1, Len(q)) = <<q[1]>> \o SubSeq(q, 1 + 1, Len(q)) BY <1>2, SubSeqRecursiveFirst
<1>4. SubSeq(q, 1, Len(q)) = q BY SubSeqFull
<1>5. Tail(q) = SubSeq(q, 2, Len(q)) BY TailIsSubSeq
<1> QED BY <1>3, <1>4, <1>5

LEMMA ElementsOfOne ==
    ASSUME NEW x
    PROVE  Range(<<x>>) = {x}
BY DEF Range

LEMMA ElementsOfNone == Range(<<>>) = {}
BY DEF Range

LEMMA ElementsOfBoth ==
    ASSUME NEW S, NEW a \in Seq(S), NEW b \in Seq(S)
    PROVE  a \o b \in Seq(S) /\ \A x : x \in Range(a \o b) <=> x \in Range(a) \/ x \in Range(b)
BY RangeConcatenation, ConcatProperties

\* No delta ends an item.
LEMMA DeltasEndNothing ==
    ASSUME NEW type \in {"output_text.delta", "reasoning.delta"}, NEW item \in Items, NEW c \in Nat,
           NEW e \in Range(Deltas(type, item, c))
    PROVE  e.type # "item.done"
<1>1. /\ Deltas(type, item, c) \in Seq(PlainEvents) /\ Len(Deltas(type, item, c)) = Chunks
      /\ \A k \in 1..Chunks :
            Deltas(type, item, c)[k] = Event(type, item, c, << <<Text(item, c)[k]>> >>)
  BY DeltasAreEvents
<1>2. PICK q \in Seq(PlainEvents) : q = Deltas(type, item, c) BY <1>1
<1>3. DOMAIN q = 1..Chunks BY <1>1, <1>2, LenProperties
<1>4. PICK k \in 1..Chunks : e = q[k] BY <1>2, <1>3 DEF Range
<1> QED BY <1>1, <1>2, <1>4 DEF Event

\* No event of a content ends an item.
LEMMA ContentsEndNothing ==
    ASSUME NEW it \in ItemShapes, NEW item \in Items, NEW c \in Nat
    PROVE  /\ ContentEvents(it, item, c) \in Seq(PlainEvents)
           /\ \A e \in Range(ContentEvents(it, item, c)) : e.type # "item.done"
<1> DEFINE a == <<Bare("content_part.added")>>
           d == When(it.deltas, Deltas("output_text.delta", item, c))
           x == Event("output_text.done", item, c, <<Text(item, c)>>)
           b == When(it.closes, <<x>>)
           z == <<Bare("content_part.done")>>
<1>1. \A y \in {"content_part.added", "content_part.done"} :
         Bare(y) \in PlainEvents /\ Bare(y).type # "item.done"
  <2>1. \A y \in {"content_part.added", "content_part.done"} : Bare(y) \in PlainEvents
    BY BareIsQuiet DEF Quiet, Plain
  <2> QED BY <2>1 DEF Bare, Event
<1>2. a \in Seq(PlainEvents) /\ \A e \in Range(a) : e.type # "item.done"
  <2>1. PICK y : y = Bare("content_part.added") OBVIOUS
  <2>2. y \in PlainEvents /\ y.type # "item.done" BY <1>1, <2>1
  <2> QED BY <2>1, <2>2, ElementsOfOne
<1>3. z \in Seq(PlainEvents) /\ \A e \in Range(z) : e.type # "item.done"
  <2>1. PICK y : y = Bare("content_part.done") OBVIOUS
  <2>2. y \in PlainEvents /\ y.type # "item.done" BY <1>1, <2>1
  <2> QED BY <2>1, <2>2, ElementsOfOne
<1>4. <<>> \in Seq(PlainEvents) /\ \A e \in Range(<<>>) : e.type # "item.done"
  BY EmptySeq, ElementsOfNone
<1>5. d \in Seq(PlainEvents) /\ \A e \in Range(d) : e.type # "item.done"
  BY <1>4, DeltasAreEvents, DeltasEndNothing DEF When
<1>6. b \in Seq(PlainEvents) /\ \A e \in Range(b) : e.type # "item.done"
  <2>1. PICK tx : tx = Text(item, c) OBVIOUS
  <2>2. <<tx>> \in Seq(Texts) BY <2>1, TextType
  <2>3. x \in PlainEvents /\ x.type # "item.done"
    BY <2>1, <2>2 DEF Event, PlainEvents, PlainTypes
  <2> HIDE DEF x
  <2>4. <<x>> \in Seq(PlainEvents) /\ \A e \in Range(<<x>>) : e.type # "item.done"
    BY <2>3, ElementsOfOne
  <2> QED BY <1>4, <2>4 DEF When
<1>7. ContentEvents(it, item, c) = ((a \o d) \o b) \o z BY DEF ContentEvents
<1> HIDE DEF a, d, b, z
<1>8. a \o d \in Seq(PlainEvents) /\ \A e \in Range(a \o d) : e.type # "item.done"
  BY <1>2, <1>5, ElementsOfBoth
<1>9. PICK u \in Seq(PlainEvents) : u = a \o d BY <1>8
<1>10. u \o b \in Seq(PlainEvents) /\ \A e \in Range(u \o b) : e.type # "item.done"
  BY <1>6, <1>8, <1>9, ElementsOfBoth
<1>11. PICK v \in Seq(PlainEvents) : v = u \o b BY <1>10
<1>12. v \o z \in Seq(PlainEvents) /\ \A e \in Range(v \o z) : e.type # "item.done"
  BY <1>3, <1>10, <1>11, ElementsOfBoth
<1> QED BY <1>7, <1>9, <1>11, <1>12

(***************************************************************************)
(* The events of an item end that item and no other, and those of a        *)
(* reasoning item do end it.                                               *)
(***************************************************************************)
LEMMA ItemEnds ==
    ASSUME NEW it \in ItemShapes, NEW item \in Items
    PROVE  /\ ItemEvents(it, item) \in Seq(PlainEvents)
           /\ \A e \in Range(ItemEvents(it, item)) : e.type = "item.done" => e.item = item
           /\ it.kind = "reasoning" =>
                 \E e \in Range(ItemEvents(it, item)) : e.type = "item.done"
<1> DEFINE ends(q) == \A e \in Range(q) : e.type = "item.done" => e.item = item
           ended(q) == \E e \in Range(q) : e.type = "item.done"
<1>1. PICK a : a = <<Bare("item.added")>> OBVIOUS
<1>2. a \in Seq(PlainEvents) /\ ends(a)
  <2>1. PICK y : y = Bare("item.added") OBVIOUS
  <2>2. y \in PlainEvents BY <2>1, BareIsQuiet DEF Quiet, Plain
  <2>3. y.type # "item.done" BY <2>1 DEF Bare, Event
  <2> QED BY <1>1, <2>1, <2>2, <2>3, ElementsOfOne
<1>3. <<>> \in Seq(PlainEvents) /\ ends(<<>>) BY EmptySeq, ElementsOfNone
<1>4. ASSUME NEW ts \in Seq(Texts), NEW x, x = Event("item.done", item, 0, ts)
      PROVE  <<x>> \in Seq(PlainEvents) /\ ends(<<x>>) /\ ended(<<x>>)
  <2>1. x \in PlainEvents /\ x.type = "item.done" /\ x.item = item
    BY <1>4 DEF Event, PlainEvents, PlainTypes
  <2> QED BY <2>1, ElementsOfOne
<1>5. Contents(it, item) \in Seq(Texts) /\ it.contents \in Nat BY ContentsType DEF ItemShapes
<1>6. ASSUME it.kind = "reasoning"
      PROVE  ReasoningEvents(it, item) \in Seq(PlainEvents) /\ ends(ReasoningEvents(it, item))
             /\ ended(ReasoningEvents(it, item))
  <2>1. PICK d : d = When(it.deltas, Deltas("reasoning.delta", item, 1)) OBVIOUS
  <2>2. d \in Seq(PlainEvents) /\ ends(d)
    BY <1>3, <2>1, DeltasAreEvents, DeltasEndNothing DEF When
  <2>3. PICK ts : ts = When(it.whole, Contents(it, item)) OBVIOUS
  <2>4. ts \in Seq(Texts) BY <1>5, <2>3, EmptySeq DEF When
  <2>5. PICK x : x = Event("item.done", item, 0, ts) OBVIOUS
  <2>6. <<x>> \in Seq(PlainEvents) /\ ends(<<x>>) /\ ended(<<x>>) BY <1>4, <2>4, <2>5
  <2>7. PICK z : z = <<x>> OBVIOUS
  <2>8. ReasoningEvents(it, item) = d \o z BY <2>1, <2>3, <2>5, <2>7 DEF ReasoningEvents
  <2>9. z \in Seq(PlainEvents) /\ ends(z) /\ ended(z) BY <2>6, <2>7
  <2> QED BY <2>2, <2>8, <2>9, ElementsOfBoth
<1>7. ASSUME it.kind # "reasoning"
      PROVE  MessageEvents(it, item) \in Seq(PlainEvents) /\ ends(MessageEvents(it, item))
  <2> DEFINE f == [c \in 1..it.contents |-> ContentEvents(it, item, c)]
  <2>1. \A c \in 1..it.contents : /\ f[c] \in Seq(PlainEvents)
                                  /\ \A e \in Range(f[c]) : e.type # "item.done"
    BY ContentsEndNothing
  <2>2. f = [c \in 1..it.contents |-> f[c]] OBVIOUS
  <2>3. PICK n \in Nat : n = it.contents BY <1>5
  <2> HIDE DEF f
  <2>4. FlattenSeq(f) \in Seq(PlainEvents)
    <3>1. f \in [1..n -> Seq(PlainEvents)] BY <2>1, <2>2, <2>3
    <3>2. f \in Seq(Seq(PlainEvents)) BY <3>1, SeqDef
    <3> QED BY <3>2, FlattenType
  <2>5. \A e : e \in Range(FlattenSeq(f)) <=> \E c \in 1..n : e \in Range(f[c])
    BY <2>1, <2>2, <2>3, FlattenRange
  <2>6. PICK q : q = FlattenSeq(f) OBVIOUS
  <2>7. q \in Seq(PlainEvents) /\ ends(q) BY <2>1, <2>3, <2>4, <2>5, <2>6
  <2>8. PICK x : x = Event("item.done", item, 0, Contents(it, item)) OBVIOUS
  <2>9. PICK z : z = When(it.whole, <<x>>) OBVIOUS
  <2>10. z \in Seq(PlainEvents) /\ ends(z) BY <1>3, <1>4, <1>5, <2>8, <2>9 DEF When
  <2>11. MessageEvents(it, item) = q \o z BY <2>6, <2>8, <2>9 DEF MessageEvents, f
  <2> QED BY <2>7, <2>10, <2>11, ElementsOfBoth
<1>8. PICK q : q = IF it.kind = "reasoning" THEN ReasoningEvents(it, item) ELSE MessageEvents(it, item)
  OBVIOUS
<1>9. q \in Seq(PlainEvents) /\ ends(q) /\ (it.kind = "reasoning" => ended(q))
  <2> HIDE DEF ends, ended
  <2> QED BY <1>6, <1>7, <1>8
<1>10. ItemEvents(it, item) = a \o q BY <1>1, <1>8 DEF ItemEvents
<1> QED BY <1>2, <1>9, <1>10, ElementsOfBoth

(***************************************************************************)
(* The events of a response end its reasoning items, all of them, and name *)
(* no other.                                                               *)
(***************************************************************************)
LEMMA BodyEnds ==
    ASSUME NEW s \in Shapes, NEW t \in 0..MaxTurns
    PROVE  /\ \A e \in Range(Body(s, t)) : EndsReasoning(s, e) => e.item \in ReasoningOf(s, t)
           /\ \A x \in ReasoningOf(s, t) :
                 \E e \in Range(Body(s, t)) : EndsReasoning(s, e) /\ e.item = x
<1>1. PICK n \in Nat : n = Len(s.items)
  <2>1. s.items \in Seq(ItemShapes) BY ServiceAssumption
  <2> QED BY <2>1, LenProperties
<1>2. DOMAIN s.items = 1..n /\ \A i \in 1..n : s.items[i] \in ItemShapes
  <2>1. s.items \in Seq(ItemShapes) BY ServiceAssumption
  <2> QED BY <1>1, <2>1, LenProperties, ElementOfSeq
<1> DEFINE f == [i \in 1..n |-> ItemEvents(s.items[i], <<t, i>>)]
<1>3. ASSUME NEW i \in 1..n
      PROVE  /\ f[i] \in Seq(PlainEvents)
             /\ \A e \in Range(f[i]) : e.type = "item.done" => e.item = <<t, i>>
             /\ s.items[i].kind = "reasoning" => \E e \in Range(f[i]) : e.type = "item.done"
  <2>1. PICK it, item : it = s.items[i] /\ item = <<t, i>> OBVIOUS
  <2>2. it \in ItemShapes /\ item \in Items BY <1>2, <2>1 DEF Items
  <2>3. f[i] = ItemEvents(it, item) BY <2>1
  <2> HIDE DEF f
  <2> QED BY <2>1, <2>2, <2>3, ItemEnds
<1>4. f = [i \in 1..n |-> f[i]] OBVIOUS
<1>5. PICK q : q = FlattenSeq(f) OBVIOUS
<1>6. Body(s, t) = <<Bare("created"), Bare("in_progress")>> \o q BY <1>2, <1>5 DEF Body
<1> HIDE DEF f
<1>7. q \in Seq(PlainEvents)
  <2>1. f \in [1..n -> Seq(PlainEvents)] BY <1>3, <1>4
  <2>2. f \in Seq(Seq(PlainEvents)) BY <2>1, SeqDef
  <2> QED BY <1>5, <2>2, FlattenType
<1>8. \A e : e \in Range(q) <=> \E i \in 1..n : e \in Range(f[i])
  BY <1>3, <1>4, <1>5, FlattenRange
<1>9. PICK a : a = <<Bare("created"), Bare("in_progress")>> OBVIOUS
<1>10. a \in Seq(PlainEvents) /\ \A e \in Range(a) : e.type # "item.done"
  <2>1. PICK x, y : x = Bare("created") /\ y = Bare("in_progress") OBVIOUS
  <2>2. x \in PlainEvents /\ y \in PlainEvents BY <2>1, BareIsQuiet DEF Quiet, Plain
  <2>3. x.type # "item.done" /\ y.type # "item.done" BY <2>1 DEF Bare, Event
  <2>4. a = <<x, y>> BY <1>9, <2>1
  <2>5. Range(a) = {x, y} BY <2>4 DEF Range
  <2> QED BY <2>2, <2>3, <2>4, <2>5
<1>11. \A e : e \in Range(Body(s, t)) <=> e \in Range(a) \/ e \in Range(q)
  BY <1>6, <1>7, <1>9, <1>10, ElementsOfBoth
<1>12. ASSUME NEW e \in Range(Body(s, t)), EndsReasoning(s, e) PROVE e.item \in ReasoningOf(s, t)
  <2>1. e \in Range(q) BY <1>10, <1>11, <1>12 DEF EndsReasoning
  <2>2. PICK i \in 1..n : e \in Range(f[i]) BY <1>8, <2>1
  <2>3. e.item = <<t, i>> BY <1>3, <1>12, <2>2 DEF EndsReasoning
  <2>4. s.items[i].kind = "reasoning" BY <1>12, <2>3 DEF EndsReasoning
  <2> QED BY <1>2, <2>3, <2>4 DEF ReasoningOf
<1>13. ASSUME NEW x \in ReasoningOf(s, t)
       PROVE  \E e \in Range(Body(s, t)) : EndsReasoning(s, e) /\ e.item = x
  <2>1. PICK i \in 1..n : x = <<t, i>> /\ s.items[i].kind = "reasoning"
    BY <1>2 DEF ReasoningOf
  <2>2. PICK e \in Range(f[i]) : e.type = "item.done" BY <1>3, <2>1
  <2>3. e.item = <<t, i>> BY <1>3, <2>2
  <2>4. EndsReasoning(s, e) BY <2>1, <2>2, <2>3 DEF EndsReasoning
  <2>5. e \in Range(Body(s, t)) BY <1>8, <1>11, <2>2
  <2> QED BY <2>1, <2>3, <2>4, <2>5
<1> QED BY <1>12, <1>13

----------------------------------------------------------------------------
(***************************************************************************)
(* The inductive invariant. While a response is read, what is on its way   *)
(* is a beginning of the rest of its events, perhaps with a failure behind *)
(* it; the text of the reply and what the rest still delivers make up the  *)
(* whole text.                                                             *)
(***************************************************************************)
IsFailure(e) == e.type \in {"failed", "torn"}
FailsOrEnds(z) == z \in Seq(Events) /\ (z # <<>> => IsFailure(z[1]))

Queued(q, full) ==
    \E m \in 0..Len(full) : \E z : FailsOrEnds(z) /\ q = SubSeq(full, 1, m) \o z

Typed ==
    /\ TypeOK
    /\ wire \in Seq(Events) /\ unsent \in Seq(Events)
    /\ pc \in {"reading", "ended", "closed"} => shape \in Shapes

\* The reply names reasoning of the response only, and of a response with one
\* such item what it does not name is still to come.
Thinks(rest) ==
    /\ Ids(parts) \subseteq ReasoningOf(shape, turn)
    /\ \A e \in Range(rest) : EndsReasoning(shape, e) => e.item \in ReasoningOf(shape, turn)
    /\ OneReasoning(shape) =>
          \A x \in ReasoningOf(shape, turn) :
              x \in Ids(parts) \/ \E e \in Range(rest) : EndsReasoning(shape, e) /\ e.item = x

Reads(rest, text, after) ==
    /\ Runs(shape, rest, textSeen, text, after)
    /\ TextOf(parts) \o text = WholeText(shape, turn)
    /\ Queued(wire \o unsent, rest \o Ending(shape))
    /\ Thinks(rest)

Fresh ==
    pc = "requested" =>
        wire = <<>> /\ unsent = <<>> /\ parts = <<>> /\ textSeen = {}

ReadsOn == pc = "reading" => \E rest, text, after : Reads(rest, text, after)

BothReaders == shown = parts

SpanFollows ==
    /\ pc \in {"idle", "requested", "reading", "refused"} => span = <<>> /\ ~done
    /\ pc = "ended" => \/ span \in {<<>>, <<"error">>} /\ ~done
                       \/ span = <<"ok">> /\ done
    /\ pc = "closed" => \/ span = <<"error">> /\ ~done
                        \/ span = <<"ok">> /\ done

\* A prompt is in the conversation when its turn has ended, and not before.
Asked ==
    \A j \in 1..Len(messages) : \A t \in Nat :
        messages[j] = Prompt(t) => t < turn \/ (t = turn /\ pc \in {"ended", "closed"})

\* The reply has all there is of a completed response.
Whole ==
    /\ shape.completes
    /\ TextOf(parts) = WholeText(shape, turn)
    /\ OneReasoning(shape) => Ids(parts) = ReasoningOf(shape, turn)

Answered ==
    pc \in {"ended", "closed"} =>
        \A j \in 1..Len(messages) : messages[j] = Prompt(turn) =>
            /\ j + 1 \in 1..Len(messages)
            /\ messages[j + 1].parts = parts
            /\ Ids(parts) \subseteq {turn} \X Nat
            /\ messages[j + 1].complete => Whole

StreamInv ==
    /\ Typed /\ Fresh /\ ReadsOn /\ TextArrivesOnce /\ BothReaders /\ SpanFollows
    /\ Asked /\ Answered

----------------------------------------------------------------------------
(* The events on their way. *)

LEMMA HeadTailConcat ==
    ASSUME NEW S, NEW a \in Seq(S), NEW b \in Seq(S), a # <<>>
    PROVE  a \o b # <<>> /\ Head(a \o b) = Head(a) /\ Tail(a \o b) = Tail(a) \o b
<1>1. Len(a) \in Nat \ {0} /\ Len(b) \in Nat BY EmptySeq, LenProperties
<1>2. a \o b \in Seq(S) /\ Len(a \o b) = Len(a) + Len(b)
      /\ \A i \in 1..Len(a) + Len(b) : (a \o b)[i] = IF i <= Len(a) THEN a[i] ELSE b[i - Len(a)]
  BY ConcatProperties
<1>3. a \o b # <<>> BY <1>1, <1>2
<1>4. Tail(a) \in Seq(S) /\ Len(Tail(a)) = Len(a) - 1 /\ Head(a) = a[1]
      /\ \A i \in 1..Len(a) - 1 : Tail(a)[i] = a[i + 1]
  BY HeadTailProperties
<1> DEFINE c == a \o b
<1>5. c \in Seq(S) /\ c # <<>> BY <1>2, <1>3
<1>6. Tail(c) \in Seq(S) /\ Len(Tail(c)) = Len(c) - 1 /\ Head(c) = c[1]
      /\ \A i \in 1..Len(c) - 1 : Tail(c)[i] = c[i + 1]
  <2> HIDE DEF c
  <2> QED BY <1>5, HeadTailProperties
<1>7. Tail(a) \o b \in Seq(S) /\ Len(Tail(a) \o b) = Len(Tail(a)) + Len(b)
      /\ \A i \in 1..Len(Tail(a)) + Len(b) :
            (Tail(a) \o b)[i] = IF i <= Len(Tail(a)) THEN Tail(a)[i] ELSE b[i - Len(Tail(a))]
  BY <1>4, ConcatProperties
<1> DEFINE d == Tail(a) \o b
           n == Len(a)
           k == Len(b)
<1>8. n \in Nat /\ k \in Nat /\ n >= 1 BY <1>1
<1>9. Len(c) = n + k /\ \A i \in 1..n + k : c[i] = IF i <= n THEN a[i] ELSE b[i - n] BY <1>2
<1>10. d \in Seq(S) /\ Len(d) = (n - 1) + k
       /\ \A i \in 1..(n - 1) + k : d[i] = IF i <= n - 1 THEN Tail(a)[i] ELSE b[i - (n - 1)]
  BY <1>4, <1>7
<1>11. \A i \in 1..n - 1 : Tail(a)[i] = a[i + 1] BY <1>4
<1> HIDE DEF c, d, n, k
<1>12. ASSUME NEW i \in 1..Len(d) PROVE Tail(c)[i] = d[i]
  <2>1. i \in 1..(n - 1) + k BY <1>10
  <2>2. i + 1 \in 1..n + k /\ i \in 1..Len(c) - 1 BY <2>1, <1>8, <1>9
  <2>3. Tail(c)[i] = c[i + 1] BY <2>2, <1>6
  <2>4. CASE i <= n - 1
    <3>1. c[i + 1] = a[i + 1] BY <2>2, <2>4, <1>8, <1>9
    <3>2. i \in 1..n - 1 BY <2>1, <2>4, <1>8
    <3>3. d[i] = Tail(a)[i] BY <2>1, <2>4, <1>10
    <3> QED BY <2>3, <3>1, <3>2, <3>3, <1>11
  <2>5. CASE ~(i <= n - 1)
    <3>1. c[i + 1] = b[(i + 1) - n] BY <2>1, <2>2, <2>5, <1>8, <1>9
    <3>2. d[i] = b[i - (n - 1)] BY <2>1, <2>5, <1>10
    <3>3. (i + 1) - n = i - (n - 1) BY <2>1, <1>8
    <3> QED BY <2>3, <3>1, <3>2, <3>3
  <2> QED BY <2>4, <2>5
<1>13. Len(Tail(c)) = Len(d) BY <1>6, <1>8, <1>9, <1>10
<1>14. Tail(c) = d BY <1>6, <1>10, <1>12, <1>13, SeqEqual
<1>15. Head(c) = Head(a)
  <2>1. 1 \in 1..n + k /\ 1 <= n BY <1>8
  <2> QED BY <2>1, <1>4, <1>6, <1>9
<1> QED BY <1>3, <1>14, <1>15 DEF c, d

(***************************************************************************)
(* What is at the head of the queue is a failure, or the next event of the *)
(* response.                                                               *)
(***************************************************************************)
LEMMA QueueHead ==
    ASSUME NEW q \in Seq(Events), NEW full \in Seq(Events), Queued(q, full), q # <<>>
    PROVE  \/ IsFailure(Head(q))
           \/ full # <<>> /\ Head(q) = Head(full) /\ Queued(Tail(q), Tail(full))
<1>0. PICK m \in 0..Len(full) : \E z : FailsOrEnds(z) /\ q = SubSeq(full, 1, m) \o z
  BY DEF Queued
<1>1. PICK z : FailsOrEnds(z) /\ q = SubSeq(full, 1, m) \o z BY <1>0
<1>2. z \in Seq(Events) /\ Len(full) \in Nat BY <1>1, LenProperties DEF FailsOrEnds
<1>3. CASE m = 0
  <2>1. SubSeq(full, 1, m) = <<>> BY <1>3, SubSeqEmpty
  <2>2. <<>> \o z = z BY <1>2, ConcatEmptySeq
  <2>3. q = z BY <1>1, <2>1, <2>2
  <2> QED BY <1>1, <1>2, <2>3, HeadTailProperties DEF FailsOrEnds
<1>4. CASE m # 0
  <2> DEFINE a == SubSeq(full, 1, m)
             u == Tail(full)
  <2>1. m \in 1..Len(full) /\ 1 \in 1..Len(full) /\ m \in 1..Len(full) BY <1>2, <1>4
  <2>2. full # <<>> BY <2>1
  <2>3. a \in Seq(Events) /\ Len(a) = m
    <3>1. \A i \in 1..m : full[i] \in Events BY <2>1, <1>2, ElementOfSeq
    <3> QED BY <3>1, <2>1, SubSeqProperties
  <2>4. a # <<>> BY <2>1, <2>3
  <2>5. Head(a) = full[1] /\ Tail(a) = SubSeq(full, 2, m)
    <3>1. 1 \in 1..Len(full) /\ m \in 1..Len(full) BY <2>1
    <3>2. m \in 1..Len(full) => \A i \in {1} : Head(SubSeq(full, i, m)) = full[i]
                                       /\ Tail(SubSeq(full, i, m)) = SubSeq(full, i + 1, m)
      BY <3>1, <2>1, HeadTailOfSubSeq
    <3>3. Tail(a) = SubSeq(full, 1 + 1, m) /\ Head(a) = full[1] BY <3>1, <3>2
    <3> HIDE DEF a
    <3> QED BY <3>3
  <2>6. SubSeq(full, 2, m) = SubSeq(u, 1, m - 1)
    <3>1. u \in Seq(Events) /\ Len(u) = Len(full) - 1
          /\ \A i \in 1..Len(full) - 1 : u[i] = full[i + 1]
      BY <2>2, HeadTailProperties
    <3>2. \A i \in 2..m : full[i] \in Events BY <2>1, <1>2, ElementOfSeq
    <3>3. \A i \in 1..m - 1 : u[i] \in Events BY <3>1, <2>1, <1>2, ElementOfSeq
    <3> DEFINE x == SubSeq(full, 2, m)
               y == SubSeq(u, 1, m - 1)
    <3>4. x \in Seq(Events) /\ Len(x) = m - 1 /\ \A i \in 1..m - 1 : x[i] = full[i + 1]
      <4>1. x \in Seq(Events) /\ Len(x) = (IF 2 <= m THEN m - 2 + 1 ELSE 0)
            /\ \A i \in 1..m - 2 + 1 : x[i] = full[2 + i - 1]
        BY <3>2, <2>1, SubSeqProperties
      <4> HIDE DEF x
      <4>2. \A i \in 1..m - 1 : i \in 1..m - 2 + 1 /\ 2 + i - 1 = i + 1 BY <2>1
      <4> QED BY <4>1, <4>2, <2>1
    <3>5. y \in Seq(Events) /\ Len(y) = m - 1 /\ \A i \in 1..m - 1 : y[i] = u[i]
      <4>1. y \in Seq(Events) /\ Len(y) = (IF 1 <= m - 1 THEN m - 1 - 1 + 1 ELSE 0)
            /\ \A i \in 1..m - 1 - 1 + 1 : y[i] = u[1 + i - 1]
        BY <3>3, <2>1, SubSeqProperties
      <4> HIDE DEF y
      <4>2. \A i \in 1..m - 1 : i \in 1..m - 1 - 1 + 1 /\ 1 + i - 1 = i BY <2>1
      <4> QED BY <4>1, <4>2, <2>1
    <3> HIDE DEF x, y, u
    <3>6. \A i \in 1..m - 1 : i \in 1..Len(full) - 1 BY <2>1, <1>2
    <3>7. \A i \in 1..Len(x) : x[i] = y[i] BY <3>1, <3>4, <3>5, <3>6
    <3>8. x = y BY <3>4, <3>5, <3>7, SeqEqual
    <3> QED BY <3>8 DEF x, y
  <2>7. Len(u) = Len(full) - 1 BY <2>2, HeadTailProperties
  <2> HIDE DEF a, u
  <2>8. Head(q) = Head(a) /\ Tail(q) = Tail(a) \o z
    BY <1>1, <1>2, <2>3, <2>4, HeadTailConcat DEF a
  <2>9. m - 1 \in 0..Len(u) BY <2>1, <2>7, <1>2
  <2>10. Queued(Tail(q), u) BY <1>1, <2>5, <2>6, <2>8, <2>9 DEF Queued
  <2>11. Head(full) = full[1] BY <2>2
  <2> QED BY <2>2, <2>5, <2>8, <2>10, <2>11 DEF u
<1> QED BY <1>3, <1>4

(***************************************************************************)
(* A queue may be cut anywhere, and a failure put behind the cut.          *)
(***************************************************************************)
LEMMA QueueCut ==
    ASSUME NEW a \in Seq(Events), NEW b \in Seq(Events), NEW full \in Seq(Events),
           Queued(a \o b, full), NEW x, FailsOrEnds(x)
    PROVE  Queued(a \o x, full)
<1>0. PICK m \in 0..Len(full) : \E z : FailsOrEnds(z) /\ a \o b = SubSeq(full, 1, m) \o z
  BY DEF Queued
<1>1. PICK z : FailsOrEnds(z) /\ a \o b = SubSeq(full, 1, m) \o z BY <1>0
<1> DEFINE w == SubSeq(full, 1, m)
           k == Len(a)
<1>2. z \in Seq(Events) /\ x \in Seq(Events) /\ Len(full) \in Nat /\ k \in Nat /\ Len(b) \in Nat
      /\ Len(z) \in Nat
  BY <1>1, LenProperties DEF FailsOrEnds
<1>3. w \in Seq(Events) /\ Len(w) = m /\ \A i \in 1..m : w[i] = full[i]
  <2>1. \A i \in 1..m : full[i] \in Events BY <1>2, ElementOfSeq
  <2>2. w \in Seq(Events) /\ Len(w) = (IF 1 <= m THEN m - 1 + 1 ELSE 0)
        /\ \A i \in 1..m - 1 + 1 : w[i] = full[1 + i - 1]
    BY <2>1, SubSeqProperties
  <2> HIDE DEF w
  <2>3. \A i \in 1..m : i \in 1..m - 1 + 1 /\ 1 + i - 1 = i OBVIOUS
  <2> QED BY <2>2, <2>3
<1> HIDE DEF w, k
<1>4. Len(a \o b) = k + Len(b) /\ \A i \in 1..k + Len(b) : (a \o b)[i] = IF i <= k THEN a[i] ELSE b[i - k]
  BY ConcatProperties DEF k
<1>5. Len(w \o z) = m + Len(z) /\ \A i \in 1..m + Len(z) : (w \o z)[i] = IF i <= m THEN w[i] ELSE z[i - m]
  BY <1>2, <1>3, ConcatProperties
<1>6. a \o b = w \o z /\ k + Len(b) = m + Len(z) BY <1>1, <1>4, <1>5 DEF w
<1>7. \A i \in 1..k : i \in 1..m + Len(z) /\ i \in 1..k + Len(b) BY <1>2, <1>6
<1>8. \A i \in 1..k : a[i] = IF i <= m THEN w[i] ELSE z[i - m]
  BY <1>4, <1>5, <1>6, <1>7
<1>9. CASE k <= m
  <2>1. a = SubSeq(full, 1, k)
    <3> DEFINE y == SubSeq(full, 1, k)
    <3>1. \A i \in 1..k : full[i] \in Events BY <1>2, <1>9, ElementOfSeq
    <3>2. y \in Seq(Events) /\ Len(y) = k /\ \A i \in 1..k : y[i] = full[i]
      <4>1. y \in Seq(Events) /\ Len(y) = (IF 1 <= k THEN k - 1 + 1 ELSE 0)
            /\ \A i \in 1..k - 1 + 1 : y[i] = full[1 + i - 1]
        BY <3>1, <1>2, SubSeqProperties
      <4> HIDE DEF y
      <4>2. \A i \in 1..k : i \in 1..k - 1 + 1 /\ 1 + i - 1 = i BY <1>2
      <4> QED BY <4>1, <4>2, <1>2
    <3> HIDE DEF y
    <3>3. \A i \in 1..k : a[i] = full[i] BY <1>2, <1>3, <1>8, <1>9
    <3>4. a = y BY <3>2, <3>3, SeqEqual DEF k
    <3> QED BY <3>4 DEF y
  <2>2. k \in 0..Len(full) BY <1>2, <1>9
  <2> QED BY <2>1, <2>2 DEF Queued
<1>10. CASE ~(k <= m)
  <2> DEFINE v == SubSeq(z, 1, k - m)
             y == v \o x
  <2>1. k - m \in 1..Len(z) BY <1>2, <1>6, <1>10
  <2>2. v \in Seq(Events) /\ Len(v) = k - m /\ \A i \in 1..k - m : v[i] = z[i]
    <3>1. \A i \in 1..k - m : z[i] \in Events BY <2>1, <1>2, ElementOfSeq
    <3>2. v \in Seq(Events) /\ Len(v) = (IF 1 <= k - m THEN k - m - 1 + 1 ELSE 0)
          /\ \A i \in 1..k - m - 1 + 1 : v[i] = z[1 + i - 1]
      BY <3>1, <1>2, SubSeqProperties
    <3> HIDE DEF v
    <3>3. \A i \in 1..k - m : i \in 1..k - m - 1 + 1 /\ 1 + i - 1 = i BY <1>2
    <3> QED BY <3>2, <3>3, <2>1, <1>2
  <2> HIDE DEF v
  <2>3. y \in Seq(Events) /\ Len(y) >= 1 /\ y[1] = z[1]
    <3>1. y \in Seq(Events) /\ Len(y) = Len(v) + Len(x)
          /\ \A i \in 1..Len(v) + Len(x) : y[i] = IF i <= Len(v) THEN v[i] ELSE x[i - Len(v)]
      BY <1>2, <2>2, ConcatProperties
    <3>2. Len(x) \in Nat BY <1>2, LenProperties
    <3>3. 1 \in 1..Len(v) + Len(x) /\ 1 <= Len(v) /\ 1 \in 1..k - m BY <2>1, <2>2, <3>2
    <3> HIDE DEF y
    <3> QED BY <3>1, <3>2, <3>3, <2>1, <2>2
  <2>4. z # <<>> BY <1>2, <2>1, EmptySeq
  <2>5. FailsOrEnds(y)
    <3> HIDE DEF y
    <3> QED BY <1>1, <2>3, <2>4 DEF FailsOrEnds
  <2>6. a = w \o v
    <3>1. w \o v \in Seq(Events) /\ Len(w \o v) = k
          /\ \A i \in 1..k : (w \o v)[i] = IF i <= m THEN w[i] ELSE v[i - m]
      <4>1. w \o v \in Seq(Events) /\ Len(w \o v) = Len(w) + Len(v)
            /\ \A i \in 1..Len(w) + Len(v) : (w \o v)[i] = IF i <= Len(w) THEN w[i] ELSE v[i - Len(w)]
        BY <1>3, <2>2, ConcatProperties
      <4>2. Len(w) + Len(v) = k BY <1>2, <1>3, <2>2
      <4> QED BY <4>1, <4>2, <1>3
    <3>2. \A i \in 1..k : (w \o v)[i] = a[i]
      <4>1. TAKE i \in 1..k
      <4>2. CASE i <= m BY <4>2, <3>1, <1>8
      <4>3. CASE ~(i <= m)
        <5>1. i - m \in 1..k - m BY <4>3, <1>2
        <5> QED BY <4>3, <5>1, <3>1, <1>8, <2>2
      <4> QED BY <4>2, <4>3
    <3> QED BY <3>1, <3>2, SeqEqual DEF k
  <2>7. a \o x = w \o y
    <3>0. w \in Seq(Events) /\ v \in Seq(Events) /\ x \in Seq(Events) BY <2>2, <1>2, <1>3
    <3>1. (w \o v) \o x = w \o (v \o x) BY <3>0, ThreeSequences
    <3> QED BY <3>1, <2>6
  <2> HIDE DEF y
  <2> QED BY <2>5, <2>7 DEF Queued, w
<1> QED BY <1>2, <1>9, <1>10

----------------------------------------------------------------------------
(* Reading an event that does not end the turn. *)

LEMMA RunsNothing ==
    ASSUME NEW s, NEW seen, NEW text, NEW after, Runs(s, <<>>, seen, text, after)
    PROVE  text = <<>>
<1>1. PICK st, rest : Steps(s, <<>>, seen, text, after, st, rest) BY DEF Runs
<1>2. Len(<<>>) = 0 OBVIOUS
<1> QED BY <1>1, <1>2 DEF Steps

\* Both readers take a delta alike.
LEMMA DeliverStep ==
    ASSUME parts \in Parts, shown = parts, NEW type \in {"text", "reasoning"}, NEW x \in Texts,
           Deliver(type, x)
    PROVE  /\ parts' \in Parts /\ shown' = parts'
           /\ TextOf(parts') = TextOf(parts) \o (IF type = "text" THEN x ELSE <<>>)
<1>1. parts' = appendDelta(parts, type, x) /\ shown' = appendOutputDelta(parts, type, x)
  BY DEF Deliver
<1>2. /\ appendDelta(parts, type, x) \in Parts
      /\ TextOf(appendDelta(parts, type, x))
           = TextOf(parts) \o (IF type = "text" THEN x ELSE <<>>)
      /\ appendOutputDelta(parts, type, x) = appendDelta(parts, type, x)
  BY DeltaAddsText
<1> QED BY <1>1, <1>2

\* Reading an event that does not end the turn delivers and marks what the run
\* says, and leaves the rest alone.
LEMMA PlainStep ==
    ASSUME parts \in Parts, shown = parts, NEW e, Plain(e), MapPayload(e)
    PROVE  /\ messages' = messages /\ pc' = pc /\ done' = done /\ span' = span
           /\ textSeen' = Marked(shape, e, textSeen)
           /\ parts' \in Parts /\ shown' = parts'
           /\ TextOf(parts') = TextOf(parts) \o Delivered(shape, e, textSeen)
<1>1. /\ e \in PlainEvents /\ e.type \in PlainTypes /\ e.item \in Items
      /\ e.texts \in Seq(Texts)
      /\ e.type \in {"output_text.delta", "output_text.done", "reasoning.delta"} => e.texts # <<>>
  BY DEF Plain, PlainEvents
<1>2. e.texts # <<>> => e.texts[1] \in Texts
  <2>1. DOMAIN e.texts = 1..Len(e.texts) /\ Len(e.texts) \in Nat
        /\ \A c \in 1..Len(e.texts) : e.texts[c] \in Texts
    BY <1>1, ElementOfSeq, LenProperties
  <2>2. e.texts # <<>> => Len(e.texts) # 0 BY <1>1, EmptySeq
  <2> QED BY <2>1, <2>2
<1>3. TextOf(parts) \o <<>> = TextOf(parts) BY TextOfType, TextsUnit
<1>4. ASSUME UNCHANGED <<parts, shown>>, Delivered(shape, e, textSeen) = <<>>
      PROVE  /\ parts' \in Parts /\ shown' = parts'
             /\ TextOf(parts') = TextOf(parts) \o Delivered(shape, e, textSeen)
  BY <1>3, <1>4
<1>5. CASE TextDelta(e)
  <2>1. e.type = "output_text.delta" /\ Deliver("text", e.texts[1]) BY <1>5 DEF TextDelta
  <2>2. Delivered(shape, e, textSeen) = e.texts[1] BY <2>1 DEF Delivered
  <2>3. textSeen' = Marked(shape, e, textSeen) BY <1>5, <2>1 DEF TextDelta, Marked
  <2>4. e.texts[1] \in Texts BY <1>1, <1>2, <2>1
  <2>5. parts' \in Parts /\ shown' = parts' /\ TextOf(parts') = TextOf(parts) \o e.texts[1]
    BY <2>1, <2>4, DeliverStep
  <2> QED BY <1>5, <2>2, <2>3, <2>5 DEF TextDelta
<1>6. CASE TextDone(e)
  <2>1. e.type = "output_text.done" BY <1>6 DEF TextDone
  <2>2. CASE Key(e) \in textSeen /\ Skip
    <3>1. Delivered(shape, e, textSeen) = <<>> BY <2>1, <2>2 DEF Delivered, EndsMessage
    <3>2. Marked(shape, e, textSeen) = textSeen BY <2>1, <2>2 DEF Marked
    <3> QED BY <1>4, <2>2, <3>1, <3>2 DEF Skip, streamVars
  <2>3. CASE /\ Key(e) \notin textSeen
             /\ textSeen' = textSeen \cup {Key(e)}
             /\ Deliver("text", e.texts[1])
             /\ UNCHANGED <<messages, pc, done, span>>
    <3>1. Delivered(shape, e, textSeen) = e.texts[1] BY <2>1, <2>3 DEF Delivered
    <3>2. Marked(shape, e, textSeen) = textSeen' BY <2>1, <2>3 DEF Marked
    <3>3. e.texts[1] \in Texts BY <1>1, <1>2, <2>1
    <3>4. parts' \in Parts /\ shown' = parts' /\ TextOf(parts') = TextOf(parts) \o e.texts[1]
      BY <2>3, <3>3, DeliverStep
    <3> QED BY <2>3, <3>1, <3>2, <3>4
  <2> QED BY <1>6, <2>2, <2>3 DEF TextDone
<1>7. CASE ReasoningDelta(e)
  <2>1. e.type = "reasoning.delta" /\ Deliver("reasoning", e.texts[1]) BY <1>7 DEF ReasoningDelta
  <2>2. Delivered(shape, e, textSeen) = <<>> BY <2>1 DEF Delivered, EndsMessage
  <2>3. textSeen' = Marked(shape, e, textSeen)
    BY <1>7, <2>1 DEF ReasoningDelta, Marked, EndsMessage, streamVars
  <2>4. e.texts[1] \in Texts BY <1>1, <1>2, <2>1
  <2>5. parts' \in Parts /\ shown' = parts' /\ TextOf(parts') = TextOf(parts) \o <<>>
    BY <2>1, <2>4, DeliverStep
  <2> QED BY <1>7, <2>2, <2>3, <2>5 DEF ReasoningDelta, streamVars
<1>8. CASE ReasoningDone(e)
  <2> DEFINE p == Part("reasoning", e.item, FlattenSeq(e.texts))
  <2>1. /\ e.type = "item.done" /\ shape.items[e.item[2]].kind = "reasoning"
        /\ parts' = mergeCompletedPart(parts, p) /\ shown' = mergeCompletedOutputPart(parts, p)
    BY <1>8 DEF ReasoningDone, KindOf
  <2>2. FlattenSeq(e.texts) \in Texts BY <1>1, FlattenType DEF Texts
  <2>3. p \in PartSet /\ p.type = "reasoning" BY <1>1, <2>2 DEF Part, PartSet
  <2> HIDE DEF p
  <2>4. /\ mergeCompletedPart(parts, p) \in Parts
        /\ TextOf(mergeCompletedPart(parts, p)) = TextOf(parts)
        /\ mergeCompletedOutputPart(parts, p) = mergeCompletedPart(parts, p)
    BY <2>3, MergeKeepsText
  <2>5. Delivered(shape, e, textSeen) = <<>> /\ Marked(shape, e, textSeen) = textSeen
    BY <2>1 DEF Delivered, Marked, EndsMessage
  <2>6. textSeen' = textSeen /\ messages' = messages /\ pc' = pc /\ done' = done /\ span' = span
    BY <1>8 DEF ReasoningDone, streamVars
  <2> QED BY <1>3, <2>1, <2>4, <2>5, <2>6
<1>9. CASE MessageDone(e)
  <2>1. e.type = "item.done" /\ EndsMessage(shape, e) BY <1>9 DEF MessageDone, KindOf, EndsMessage
  <2>2. missingMessageText(e) = Missing(e, textSeen) BY DEF missingMessageText, Missing
  <2>3. Delivered(shape, e, textSeen) = Missing(e, textSeen) BY <2>1 DEF Delivered
  <2>4. CASE missingMessageText(e) = <<>> /\ Skip
    <3>1. Delivered(shape, e, textSeen) = <<>> /\ Marked(shape, e, textSeen) = textSeen
      BY <2>1, <2>2, <2>3, <2>4 DEF Marked
    <3> QED BY <1>4, <2>4, <3>1 DEF Skip, streamVars
  <2>5. CASE /\ missingMessageText(e) # <<>>
             /\ textSeen' = textSeen \cup {<<e.item, c>> : c \in DOMAIN e.texts}
             /\ Deliver("text", missingMessageText(e))
             /\ UNCHANGED <<messages, pc, done, span>>
    <3>1. Marked(shape, e, textSeen) = textSeen' BY <2>1, <2>2, <2>5 DEF Marked
    <3>2. Missing(e, textSeen) \in Texts BY <1>1, MissingType
    <3>3. /\ parts' \in Parts /\ shown' = parts'
          /\ TextOf(parts') = TextOf(parts) \o Missing(e, textSeen)
      BY <2>2, <2>5, <3>2, DeliverStep
    <3> QED BY <2>3, <2>5, <3>1, <3>3
  <2> QED BY <1>9, <2>4, <2>5 DEF MessageDone
<1>10. CASE Unmapped(e)
  <2>1. e.type \in {"created", "in_progress", "item.added", "content_part.added",
                    "content_part.done"} /\ Skip
    BY <1>10 DEF Unmapped
  <2>2. Delivered(shape, e, textSeen) = <<>> /\ Marked(shape, e, textSeen) = textSeen
    BY <2>1 DEF Delivered, Marked, EndsMessage
  <2> QED BY <1>4, <2>1, <2>2 DEF Skip, streamVars
<1>11. ~(Completed(e) \/ Failed(e) \/ EndMark(e))
  BY <1>1 DEF Completed, Failed, EndMark, PlainTypes
<1> QED BY <1>5, <1>6, <1>7, <1>8, <1>9, <1>10, <1>11 DEF MapPayload

\* A delta leaves the reasoning items that the reply names.
LEMMA DeliverNames ==
    ASSUME parts \in Parts, NEW type \in {"text", "reasoning"}, NEW x \in Texts,
           Deliver(type, x)
    PROVE  Ids(parts') = Ids(parts)
<1>1. parts' = appendDelta(parts, type, x) BY DEF Deliver
<1> QED BY <1>1, DeltaKeepsIds

\* The end of a reasoning item names it, and no other event names any.
LEMMA PlainNames ==
    ASSUME parts \in Parts, NEW e, Plain(e), MapPayload(e)
    PROVE  /\ ~EndsReasoning(shape, e) => Ids(parts') = Ids(parts)
           /\ EndsReasoning(shape, e) /\ e.item # NoItem =>
                 e.item \in Ids(parts') /\ Ids(parts') \subseteq Ids(parts) \cup {e.item}
<1>1. /\ e \in PlainEvents /\ e.type \in PlainTypes /\ e.item \in Items
      /\ e.texts \in Seq(Texts)
      /\ e.type \in {"output_text.delta", "output_text.done", "reasoning.delta"} => e.texts # <<>>
  BY DEF Plain, PlainEvents
<1>2. e.texts # <<>> => e.texts[1] \in Texts
  <2>1. DOMAIN e.texts = 1..Len(e.texts) /\ Len(e.texts) \in Nat
        /\ \A c \in 1..Len(e.texts) : e.texts[c] \in Texts
    BY <1>1, ElementOfSeq, LenProperties
  <2>2. e.texts # <<>> => Len(e.texts) # 0 BY <1>1, EmptySeq
  <2> QED BY <2>1, <2>2
<1>3. CASE TextDelta(e) \/ TextDone(e) \/ ReasoningDelta(e)
  <2>1. e.texts[1] \in Texts /\ ~EndsReasoning(shape, e)
    BY <1>1, <1>2, <1>3 DEF TextDelta, TextDone, ReasoningDelta, EndsReasoning
  <2>2. \/ parts' = parts
        \/ \E type \in {"text", "reasoning"} : Deliver(type, e.texts[1])
    BY <1>3 DEF TextDelta, TextDone, ReasoningDelta, Skip
  <2> QED BY <2>1, <2>2, DeliverNames
<1>4. CASE ReasoningDone(e)
  <2> DEFINE p == Part("reasoning", e.item, FlattenSeq(e.texts))
  <2>1. EndsReasoning(shape, e) /\ parts' = mergeCompletedPart(parts, p)
    BY <1>4 DEF ReasoningDone, KindOf, EndsReasoning
  <2>2. FlattenSeq(e.texts) \in Texts BY <1>1, FlattenType DEF Texts
  <2>3. p \in PartSet /\ p.type = "reasoning" /\ p.id = e.item BY <1>1, <2>2 DEF Part, PartSet
  <2> HIDE DEF p
  <2> QED BY <2>1, <2>3, MergeNames
<1>5. CASE MessageDone(e)
  <2>1. ~EndsReasoning(shape, e) BY <1>5 DEF MessageDone, KindOf, EndsReasoning
  <2>2. missingMessageText(e) \in Texts
    <3>1. missingMessageText(e) = Missing(e, textSeen) BY DEF missingMessageText, Missing
    <3> QED BY <1>1, <3>1, MissingType
  <2>3. parts' = parts \/ Deliver("text", missingMessageText(e)) BY <1>5 DEF MessageDone, Skip
  <2> QED BY <2>1, <2>2, <2>3, DeliverNames
<1>6. CASE Unmapped(e) BY <1>6 DEF Unmapped, Skip, EndsReasoning
<1>7. ~(Completed(e) \/ Failed(e) \/ EndMark(e))
  BY <1>1 DEF Completed, Failed, EndMark, PlainTypes
<1> QED BY <1>3, <1>4, <1>5, <1>6, <1>7 DEF MapPayload

\* A reply that has read one event more names what it should.
LEMMA ThinksOn ==
    ASSUME NEW rest \in Seq(PlainEvents), rest # <<>>, Thinks(rest), parts \in Parts,
           turn \in 0..MaxTurns, shape \in Shapes,
           Plain(Head(rest)), MapPayload(Head(rest)), UNCHANGED <<shape, turn>>
    PROVE  Thinks(Tail(rest))'
<1>1. PICK e : e = Head(rest) OBVIOUS
<1>2. \A x : x \in Range(rest) <=> x = e \/ x \in Range(Tail(rest))
  <2>1. rest = <<e>> \o Tail(rest) BY <1>1, HeadAndTail
  <2>2. <<e>> \in Seq(PlainEvents) /\ Tail(rest) \in Seq(PlainEvents)
    BY <1>1, HeadTailProperties
  <2>3. PICK a \in Seq(PlainEvents) : a = <<e>> BY <2>2
  <2>4. Range(a) = {e} BY <2>3, ElementsOfOne
  <2> QED BY <2>1, <2>2, <2>3, <2>4, ElementsOfBoth
<1> DEFINE R == ReasoningOf(shape, turn)
<1>3. \A x \in Range(rest) : EndsReasoning(shape, x) => x.item \in R BY DEF Thinks
<1>4. Ids(parts) \subseteq R BY DEF Thinks
<1>5. NoItem \notin R
  <2>1. shape.items \in Seq(ItemShapes) BY ServiceAssumption
  <2>2. DOMAIN shape.items = 1..Len(shape.items) /\ Len(shape.items) \in Nat
    BY <2>1, LenProperties
  <2>3. \A i \in DOMAIN shape.items : i # 0 BY <2>2
  <2> QED BY <2>3 DEF ReasoningOf, NoItem
<1>6. ReasoningOf(shape', turn') = R OBVIOUS
<1>7. /\ ~EndsReasoning(shape, e) => Ids(parts') = Ids(parts)
      /\ EndsReasoning(shape, e) /\ e.item # NoItem =>
            e.item \in Ids(parts') /\ Ids(parts') \subseteq Ids(parts) \cup {e.item}
  BY <1>1, PlainNames
<1>8. EndsReasoning(shape, e) => e.item \in R /\ e.item # NoItem BY <1>2, <1>3, <1>5
<1>9. Ids(parts') \subseteq R BY <1>4, <1>7, <1>8
<1>10. \A x \in Range(Tail(rest)) : EndsReasoning(shape', x) => x.item \in R
  BY <1>2, <1>3
<1>11. ASSUME OneReasoning(shape), NEW x \in R
       PROVE  \/ x \in Ids(parts')
              \/ \E y \in Range(Tail(rest)) : EndsReasoning(shape', y) /\ y.item = x
  <2>1. x \in Ids(parts) \/ \E y \in Range(rest) : EndsReasoning(shape, y) /\ y.item = x
    BY <1>11 DEF Thinks
  <2>2. \A y \in R : y = x BY <1>11 DEF ReasoningOf, OneReasoning
  <2>3. CASE EndsReasoning(shape, e) BY <1>7, <1>8, <2>2, <2>3
  <2>4. CASE ~EndsReasoning(shape, e) BY <1>2, <1>7, <2>1, <2>4
  <2> QED BY <2>3, <2>4
<1> HIDE DEF R
<1>12. OneReasoning(shape') => OneReasoning(shape) OBVIOUS
<1> QED BY <1>6, <1>9, <1>10, <1>11, <1>12 DEF Thinks

----------------------------------------------------------------------------
(* Texts, messages and the input of a request. *)

LEMMA BeginningIsPrefix ==
    ASSUME NEW x \in Texts, NEW y \in Texts, NEW z, z = x \o y
    PROVE  IsPrefix(x, z)
<1> DEFINE C == (0..MaxTurns) \X Nat \X Nat \X Nat
<1>1. x \in Seq(C) /\ y \in Seq(C) BY DEF Texts
<1> HIDE DEF C
<1>2. Len(x) \in Nat /\ Len(y) \in Nat BY <1>1, LenProperties
<1>3. Len(z) = Len(x) + Len(y) BY <1>1, ConcatProperties
<1>4. SubSeq(x, 1, Len(x)) = SubSeq(z, 1, Len(x))
  <2>1. CASE Len(x) = 0
    <3>1. 0 < 1 /\ 1 \in Int /\ Len(x) \in Int BY <1>2
    <3>2. SubSeq(x, 1, Len(x)) = <<>> /\ SubSeq(z, 1, Len(x)) = <<>>
      BY <2>1, <3>1, SubSeqEmpty
    <3> QED BY <3>2
  <2>2. CASE Len(x) # 0
    <3>1. 1 \in 1..Len(x) /\ Len(x) \in 1..Len(x) BY <2>2, <1>2
    <3> QED BY <3>1, <1>1, SubSeqOfConcat1
  <2> QED BY <2>1, <2>2
<1> QED BY <1>2, <1>3, <1>4 DEF IsPrefix

MessageSet == [role : {"user", "assistant"}, parts : Parts, complete : BOOLEAN]
InputSet == [type : {"user", "assistant", "reasoning"}, id : Items, text : Texts]

LEMMA PromptType ==
    ASSUME NEW t \in 0..MaxTurns
    PROVE  Prompt(t) \in MessageSet
<1> DEFINE x == << <<t, 0, 0, 0>> >>
           p == Part("text", NoItem, x)
<1>1. x \in Texts BY DEF Texts
<1> HIDE DEF x
<1>2. p \in PartSet BY <1>1, NoItemType DEF Part, PartSet
<1> HIDE DEF p
<1>3. <<p>> \in Parts BY <1>2 DEF Parts, PartSet
<1> QED BY <1>3 DEF Prompt, MessageSet, p, x

\* The prompts of two turns are told apart.
LEMMA PromptsDiffer ==
    ASSUME NEW t, NEW u, Prompt(t) = Prompt(u)
    PROVE  t = u
<1>1. Prompt(t).parts[1].text[1][1] = t BY DEF Prompt, Part
<1>2. Prompt(u).parts[1].text[1][1] = u BY DEF Prompt, Part
<1> QED BY <1>1, <1>2

LEMMA InputOfPartType ==
    ASSUME NEW p \in PartSet
    PROVE  InputOfPart(p) \in Seq(InputSet)
<1>1. p.id \in Items /\ p.text \in Texts BY DEF PartSet
<1>2. <<>> \in Texts BY EmptySeq DEF Texts
<1>3. Part("reasoning", p.id, <<>>) \in InputSet /\ Part("assistant", NoItem, p.text) \in InputSet
  BY <1>1, <1>2, NoItemType DEF Part, InputSet
<1> DEFINE a == Part("reasoning", p.id, <<>>)
           b == Part("assistant", NoItem, p.text)
<1>4. InputOfPart(p) \in {<<a>>, <<b>>, <<>>} BY DEF InputOfPart, When
<1> HIDE DEF a, b
<1>5. <<a>> \in Seq(InputSet) /\ <<b>> \in Seq(InputSet) /\ <<>> \in Seq(InputSet)
  BY <1>3, EmptySeq DEF a, b
<1> QED BY <1>4, <1>5

LEMMA InputOfMessageType ==
    ASSUME NEW m \in MessageSet
    PROVE  InputOfMessage(m) \in Seq(InputSet)
<1>1. m.parts \in Parts BY DEF MessageSet
<1>2. PICK ps \in Parts : ps = m.parts BY <1>1
<1>3. DOMAIN ps = 1..Len(ps) /\ Len(ps) \in Nat /\ \A i \in 1..Len(ps) : ps[i] \in PartSet
  BY PartsAreParts
<1>4. CASE m.role = "assistant"
  <2> DEFINE g == [i \in DOMAIN ps |-> InputOfPart(ps[i])]
  <2>1. g \in [1..Len(ps) -> Seq(InputSet)] BY <1>3, InputOfPartType
  <2>2. InputOfMessage(m) = FlattenSeq(g) BY <1>2, <1>4 DEF InputOfMessage
  <2> HIDE DEF g
  <2>3. g \in Seq(Seq(InputSet)) BY <1>3, <2>1, SeqDef
  <2> QED BY <2>2, <2>3, FlattenType
<1>5. CASE m.role # "assistant"
  <2> DEFINE a == Part("user", NoItem, TextOf(ps))
  <2>1. TextOf(ps) \in Texts BY TextOfType
  <2>2. a \in InputSet BY <2>1, NoItemType DEF Part, InputSet
  <2>3. InputOfMessage(m) = <<a>> BY <1>2, <1>5 DEF InputOfMessage
  <2> HIDE DEF a
  <2> QED BY <2>2, <2>3
<1> QED BY <1>4, <1>5

\* The input of a request is well typed.
LEMMA InputType ==
    ASSUME NEW ms \in Seq(MessageSet)
    PROVE  openResponsesInput(ms) \in Seq(InputSet)
<1> DEFINE g == [i \in DOMAIN ms |-> InputOfMessage(ms[i])]
<1>1. DOMAIN ms = 1..Len(ms) /\ Len(ms) \in Nat /\ \A i \in 1..Len(ms) : ms[i] \in MessageSet
  BY LenProperties, ElementOfSeq
<1>2. g \in [1..Len(ms) -> Seq(InputSet)] BY <1>1, InputOfMessageType
<1>3. openResponsesInput(ms) = FlattenSeq(g) BY DEF openResponsesInput
<1> HIDE DEF g
<1>4. g \in Seq(Seq(InputSet)) BY <1>1, <1>2, SeqDef
<1> QED BY <1>3, <1>4, FlattenType

(***************************************************************************)
(* Committing a turn adds its prompt and its reply to the messages.        *)
(***************************************************************************)
LEMMA CommitAdds ==
    ASSUME messages \in Seq(MessageSet), turn \in 0..MaxTurns, parts \in Parts,
           NEW complete \in BOOLEAN, CommitReply(complete)
    PROVE  /\ messages' \in Seq(MessageSet) /\ Len(messages') = Len(messages) + 2
           /\ Len(messages) \in Nat
           /\ \A j \in 1..Len(messages) : messages'[j] = messages[j]
           /\ messages'[Len(messages) + 1] = Prompt(turn)
           /\ messages'[Len(messages) + 2] = Reply(parts, complete)
<1> DEFINE p == Prompt(turn)
           r == Reply(parts, complete)
           n == Len(messages)
<1>1. p \in MessageSet BY PromptType
<1>2. r \in MessageSet BY DEF Reply, MessageSet
<1>3. messages' = messages \o <<p, r>> BY DEF CommitReply
<1>4. n \in Nat BY LenProperties
<1> HIDE DEF p, r
<1>5. <<p, r>> \in Seq(MessageSet) /\ Len(<<p, r>>) = 2 /\ <<p, r>>[1] = p /\ <<p, r>>[2] = r
  BY <1>1, <1>2
<1> DEFINE q == <<p, r>>
<1> HIDE DEF q, n
<1>6. /\ messages \o q \in Seq(MessageSet) /\ Len(messages \o q) = n + 2
      /\ \A i \in 1..n + 2 : (messages \o q)[i] = IF i <= n THEN messages[i] ELSE q[i - n]
  BY <1>5, ConcatProperties DEF q, n
<1>7. \A j \in 1..n : j \in 1..n + 2 /\ j <= n BY <1>4
<1>8. n + 1 \in 1..n + 2 /\ n + 2 \in 1..n + 2 /\ ~(n + 1 <= n) /\ ~(n + 2 <= n)
      /\ (n + 1) - n = 1 /\ (n + 2) - n = 2
  BY <1>4
<1>9. messages' = messages \o q BY <1>3 DEF q
<1>10. q[1] = p /\ q[2] = r BY <1>5 DEF q
<1> QED BY <1>4, <1>6, <1>7, <1>8, <1>9, <1>10 DEF n, p, r

----------------------------------------------------------------------------
(* The invariant, step by step. *)

\* What a step of the service or of a timer leaves as it is.
TurnAsIs == UNCHANGED <<chatVars, pc, shape, streamVars, parts, shown>>

LEMMA InvInit == Init => StreamInv
<1> SUFFICES ASSUME Init PROVE StreamInv
  OBVIOUS
<1> USE DEF Init
<1>1. <<>> \in Seq(MessageSet) /\ <<>> \in Seq(InputSet) /\ <<>> \in Seq(Events)
      /\ <<>> \in Parts /\ <<>> \in Seq({"ok", "error"}) /\ Len(<<>>) = 0
  BY EmptySeq DEF Parts
<1>2. Typed
  <2>1. messages \in Seq(MessageSet) /\ input \in Seq(InputSet) BY <1>1
  <2>2. Len(wire) <= Buffer /\ turn \in 0..MaxTurns BY <1>1, ServiceAssumption
  <2>3. Len(span) <= 1 /\ span \in Seq({"ok", "error"}) /\ parts \in Parts /\ shown \in Parts
        /\ wire \in Seq(Events) /\ unsent \in Seq(Events)
    BY <1>1
  <2>4. textSeen \subseteq Items \X Nat /\ shape \in Shapes \cup {FakeShape} OBVIOUS
  <2> QED BY <2>1, <2>2, <2>3, <2>4 DEF Typed, TypeOK, MessageSet, InputSet
<1>3. Fresh /\ ReadsOn /\ TextArrivesOnce /\ BothReaders /\ SpanFollows
  BY DEF Fresh, ReadsOn, TextArrivesOnce, Open, BothReaders, SpanFollows
<1>4. Asked /\ Answered
  <2>1. \A j \in 1..Len(messages) : FALSE BY <1>1
  <2> QED BY <2>1 DEF Asked, Answered
<1> QED BY <1>2, <1>3, <1>4 DEF StreamInv

LEMMA InvSend == StreamInv /\ Send => StreamInv'
<1> SUFFICES ASSUME StreamInv, Send PROVE StreamInv'
  OBVIOUS
<1>1. Typed /\ Asked BY DEF StreamInv
<1>2. turn + 1 \in 0..MaxTurns /\ turn \in Nat
  BY <1>1, ServiceAssumption DEF Typed, TypeOK, Send
<1>3. <<>> \in Seq(Events) /\ <<>> \in Parts /\ <<>> \in Seq({"ok", "error"}) /\ Len(<<>>) = 0
  BY EmptySeq DEF Parts
<1>4. messages \in Seq(MessageSet) BY <1>1 DEF Typed, TypeOK, MessageSet
<1>5. input' \in Seq(InputSet)
  <2>1. Prompt(turn + 1) \in MessageSet BY <1>2, PromptType
  <2>2. PICK ms : ms = Append(messages, Prompt(turn + 1)) OBVIOUS
  <2>3. ms \in Seq(MessageSet) BY <1>4, <2>1, <2>2, AppendProperties
  <2>4. input' = openResponsesInput(ms) BY <2>2 DEF Send
  <2> QED BY <2>3, <2>4, InputType
<1>6. Typed'
  <2>1. messages' \in Seq(MessageSet) BY <1>4 DEF Send
  <2>2. Len(wire') <= Buffer /\ turn' \in 0..MaxTurns BY <1>2, <1>3, ServiceAssumption DEF Send
  <2>3. Len(span') <= 1 /\ span' \in Seq({"ok", "error"}) /\ parts' \in Parts /\ shown' \in Parts
        /\ wire' \in Seq(Events) /\ unsent' \in Seq(Events)
    BY <1>3 DEF Send
  <2>4. textSeen' \subseteq Items \X Nat /\ shape' \in Shapes \cup {FakeShape}
    BY <1>1 DEF Send, Typed, TypeOK
  <2>5. pc' = "requested" /\ end' = "open" /\ cancelled' = FALSE /\ timedOut' = FALSE
        /\ done' = FALSE
    BY DEF Send
  <2> QED BY <1>5, <2>1, <2>2, <2>3, <2>4, <2>5 DEF Typed, TypeOK, MessageSet, InputSet
<1>7. Fresh' /\ ReadsOn' /\ TextArrivesOnce' /\ BothReaders' /\ SpanFollows' /\ Answered'
  BY DEF Send, Fresh, ReadsOn, TextArrivesOnce, Open, BothReaders, SpanFollows, Answered
<1>8. Asked'
  <2>1. messages' = messages /\ turn' = turn + 1 BY DEF Send
  <2>2. \A t \in Nat : t < turn \/ t = turn => t < turn + 1 BY <1>2
  <2> QED BY <1>1, <2>1, <2>2 DEF Asked
<1> QED BY <1>6, <1>7, <1>8 DEF StreamInv

LEMMA InvAccept == StreamInv /\ Accept => StreamInv'
<1> SUFFICES ASSUME StreamInv, Accept PROVE StreamInv'
  OBVIOUS
<1>1. Typed /\ Fresh /\ SpanFollows /\ BothReaders /\ Asked BY DEF StreamInv
<1>2. PICK s \in Shapes : shape' = s /\ unsent' = buildStreamEvents(s, turn) BY DEF Accept
<1>3. /\ pc = "requested" /\ pc' = "reading"
      /\ UNCHANGED <<messages, turn, input, wire, end, cancelled, timedOut, done, textSeen,
                     span, parts, shown>>
  BY DEF Accept, chatVars, contextVars, streamVars
<1>4. wire = <<>> /\ parts = <<>> /\ textSeen = {} BY <1>1, <1>3 DEF Fresh
<1>5. turn \in 0..MaxTurns BY <1>1 DEF Typed, TypeOK
<1>6. s.completes \in BOOLEAN BY ServiceAssumption
<1>7. PICK after : Runs(s, Body(s, turn), {}, WholeText(s, turn), after) BY <1>5, ResponseRun
<1>8. /\ buildStreamEvents(s, turn) = Body(s, turn) \o Ending(s)
      /\ buildStreamEvents(s, turn) \in Seq(Events) /\ WholeText(s, turn) \in Texts
  BY <1>5, ResponseRun
<1>9. Typed' BY <1>1, <1>2, <1>3, <1>8 DEF Typed, TypeOK
<1>10. Queued(wire' \o unsent', Body(s, turn) \o Ending(s))
  <2>1. PICK q \in Seq(Events) : q = buildStreamEvents(s, turn) BY <1>8
  <2>2. <<>> \o q = q /\ q \o <<>> = q BY ConcatEmptySeq
  <2>3. SubSeq(q, 1, Len(q)) = q BY SubSeqFull
  <2>4. Len(q) \in 0..Len(q)
    <3>1. Len(q) \in Nat BY LenProperties
    <3> QED BY <3>1
  <2>5. FailsOrEnds(<<>>) BY EmptySeq DEF FailsOrEnds
  <2>6. q = SubSeq(q, 1, Len(q)) \o <<>> BY <2>2, <2>3
  <2>7. Queued(q, q) BY <2>4, <2>5, <2>6 DEF Queued
  <2>8. wire' \o unsent' = q BY <1>2, <1>3, <1>4, <2>1, <2>2
  <2> QED BY <2>7, <2>8, <1>8, <2>1
<1>11. TextOf(parts) = <<>> BY <1>4, TextOfEmpty
<1>12. <<>> \o WholeText(s, turn) = WholeText(s, turn) BY <1>8, TextsUnit
<1>13. Reads(Body(s, turn), WholeText(s, turn), after)'
  <2>1. Runs(s, Body(s, turn), textSeen', WholeText(s, turn), after) BY <1>3, <1>4, <1>7
  <2>2. TextOf(parts') \o WholeText(s, turn) = WholeText(s, turn) BY <1>3, <1>11, <1>12
  <2>3. Thinks(Body(s, turn))'
    <3>1. Ids(parts') = {} BY <1>3, <1>4, IdsOfNothing
    <3>2. \A x \in ReasoningOf(s, turn) :
             \E e \in Range(Body(s, turn)) : EndsReasoning(s, e) /\ e.item = x
      BY <1>5, BodyEnds
    <3>3. \A e \in Range(Body(s, turn)) : EndsReasoning(s, e) => e.item \in ReasoningOf(s, turn)
      BY <1>5, BodyEnds
    <3>4. shape' = s /\ turn' = turn BY <1>2, <1>3
    <3> QED BY <3>1, <3>2, <3>3, <3>4 DEF Thinks
  <2> QED BY <2>1, <2>2, <2>3, <1>2, <1>3, <1>10 DEF Reads
<1>14. ReadsOn' 
  <2>1. \E rest, text, aft : Reads(rest, text, aft)'
    <3>1. WITNESS Body(s, turn), WholeText(s, turn), after
    <3> QED BY <1>13
  <2> QED BY <2>1 DEF ReadsOn
<1>15. TextArrivesOnce'
  <2>1. <<>> \in Texts BY EmptySeq DEF Texts
  <2>2. IsPrefix(<<>>, WholeText(s, turn)) BY <1>8, <1>12, <2>1, BeginningIsPrefix
  <2> QED BY <2>2, <1>2, <1>3, <1>11 DEF TextArrivesOnce
<1>16. Fresh' /\ BothReaders' /\ SpanFollows' /\ Answered'
  BY <1>1, <1>3 DEF Fresh, BothReaders, SpanFollows, Answered
<1>17. Asked' BY <1>1, <1>3 DEF Asked
<1> QED BY <1>9, <1>14, <1>15, <1>16, <1>17 DEF StreamInv

LEMMA AppendTwo ==
    ASSUME NEW S, NEW q \in Seq(S), NEW a \in S, NEW b \in S
    PROVE  Append(q, a) \o <<b>> = q \o <<a, b>>
<1> DEFINE x == <<a>>
           y == <<b>>
<1>1. x \in Seq(S) /\ y \in Seq(S) OBVIOUS
<1>2. x \o y = <<a, b>>
  <2> DEFINE z == <<a, b>>
  <2>1. Len(x) = 1 /\ Len(y) = 1 /\ x[1] = a /\ y[1] = b OBVIOUS
  <2>2. z \in Seq(S) /\ Len(z) = 2 /\ z[1] = a /\ z[2] = b OBVIOUS
  <2> HIDE DEF x, y, z
  <2>3. x \o y \in Seq(S) /\ Len(x \o y) = 2
        /\ \A i \in 1..2 : (x \o y)[i] = IF i <= 1 THEN x[i] ELSE y[i - 1]
    BY <1>1, <2>1, ConcatProperties
  <2>4. \A i \in 1..2 : (x \o y)[i] = z[i] BY <2>1, <2>2, <2>3
  <2>5. x \o y = z BY <2>2, <2>3, <2>4, SeqEqual
  <2> QED BY <2>5 DEF z
<1>3. Append(q, a) = q \o x BY AppendIsConcat
<1> HIDE DEF x, y
<1>4. (q \o x) \o y = q \o (x \o y) BY <1>1, ThreeSequences
<1> QED BY <1>2, <1>3, <1>4 DEF y

(***************************************************************************)
(* The service writes, fails or ends: whatever of the response was on its  *)
(* way, a beginning of it still is.                                        *)
(***************************************************************************)
LEMMA Writes ==
    ASSUME Typed, Write \/ WriteFailure \/ Cut
    PROVE  /\ wire' \in Seq(Events) /\ unsent' \in Seq(Events) /\ Len(wire') <= Buffer
           /\ end' \in {"open", "eof", "error"} /\ unsent # <<>>
           /\ UNCHANGED <<messages, turn, input, pc, shape, cancelled, timedOut, done, textSeen,
                          span, parts, shown>>
           /\ \A full \in Seq(Events) :
                 Queued(wire \o unsent, full) => Queued(wire' \o unsent', full)
<1>1. /\ wire \in Seq(Events) /\ unsent \in Seq(Events) /\ Buffer \in Nat
      /\ Len(wire) < Buffer /\ unsent # <<>> /\ Len(wire) \in Nat
  <2>1. wire \in Seq(Events) /\ unsent \in Seq(Events) BY DEF Typed
  <2> QED BY <2>1, LenProperties, ServiceAssumption DEF Write, WriteFailure, Cut
<1> DEFINE h == Head(unsent)
           t == Tail(unsent)
           ok(w, u) == /\ w \in Seq(Events) /\ u \in Seq(Events) /\ Len(w) <= Buffer
                       /\ \A full \in Seq(Events) :
                             Queued(wire \o unsent, full) => Queued(w \o u, full)
<1>2. h \in Events /\ t \in Seq(Events) BY <1>1, HeadTailProperties
<1>3. unsent = <<h>> \o t BY <1>1, HeadAndTail
<1> HIDE DEF h, t
<1>4. /\ Bare("failed") \in Events /\ Bare("torn") \in Events /\ Bare("[DONE]") \in Events
  BY BareType DEF EventTypes
<1>5. \A e \in Events : /\ Append(wire, e) \in Seq(Events) /\ Len(Append(wire, e)) <= Buffer
                        /\ Append(wire, e) = wire \o <<e>> /\ <<e>> \in Seq(Events)
  BY <1>1, AppendProperties, AppendIsConcat
<1>6. ok(Append(wire, h), t)
  <2>1. Append(wire, h) \o t = wire \o unsent
    <3> DEFINE x == <<h>>
    <3>1. x \in Seq(Events) /\ Append(wire, h) = wire \o x /\ unsent = x \o t BY <1>2, <1>3, <1>5
    <3> HIDE DEF x
    <3>2. (wire \o x) \o t = wire \o (x \o t) BY <1>1, <1>2, <3>1, ThreeSequences
    <3> QED BY <3>1, <3>2
  <2> QED BY <1>2, <1>5, <2>1
<1>7. ASSUME NEW x, FailsOrEnds(x), NEW full \in Seq(Events), Queued(wire \o unsent, full)
      PROVE  Queued(wire \o x, full)
  BY <1>1, <1>7, QueueCut
<1>8. \A e \in Events : IsFailure(e) => FailsOrEnds(<<e>>) /\ FailsOrEnds(<<e, Bare("[DONE]")>>)
  <2> TAKE e \in Events
  <2> DEFINE d == Bare("[DONE]")
  <2>1. d \in Events BY <1>4
  <2> HIDE DEF d
  <2>2. <<e>> \in Seq(Events) /\ <<e, d>> \in Seq(Events) /\ <<e>>[1] = e /\ <<e, d>>[1] = e
    BY <2>1
  <2> QED BY <2>2 DEF FailsOrEnds, d
<1>9. FailsOrEnds(<<>>) BY EmptySeq DEF FailsOrEnds
<1>10. IsFailure(Bare("failed")) /\ IsFailure(Bare("torn")) BY DEF IsFailure, Bare, Event
<1>11. ok(Append(wire, Bare("failed")), <<Bare("[DONE]")>>)
  <2> DEFINE f == Bare("failed")
             d == Bare("[DONE]")
  <2>1. f \in Events /\ d \in Events /\ FailsOrEnds(<<f, d>>) BY <1>4, <1>8, <1>10
  <2> HIDE DEF f, d
  <2>2. Append(wire, f) \o <<d>> = wire \o <<f, d>> BY <1>1, <2>1, AppendTwo
  <2>3. <<d>> \in Seq(Events) BY <2>1
  <2>4. \A full \in Seq(Events) :
           Queued(wire \o unsent, full) => Queued(Append(wire, f) \o <<d>>, full)
    BY <2>1, <2>2, <1>7
  <2>5. Append(wire, f) \in Seq(Events) /\ Len(Append(wire, f)) <= Buffer BY <1>5, <2>1
  <2> QED BY <2>3, <2>4, <2>5 DEF f, d
<1>12. ok(wire, <<>>)
  <2>1. \A full \in Seq(Events) : Queued(wire \o unsent, full) => Queued(wire \o <<>>, full)
    BY <1>7, <1>9
  <2> QED BY <1>1, <2>1, EmptySeq
<1>13. ok(Append(wire, h), <<>>)
  <2> DEFINE w == Append(wire, h)
  <2>1. w \in Seq(Events) /\ Len(w) <= Buffer BY <1>2, <1>5
  <2>2. \A full \in Seq(Events) : Queued(wire \o unsent, full) => Queued(w \o t, full)
    BY <1>6
  <2> HIDE DEF w
  <2>3. \A full \in Seq(Events) : Queued(w \o t, full) => Queued(w \o <<>>, full)
    BY <1>2, <1>9, <2>1, QueueCut
  <2>4. \A full \in Seq(Events) : Queued(wire \o unsent, full) => Queued(w \o <<>>, full)
    BY <2>2, <2>3
  <2> QED BY <2>1, <2>4, EmptySeq DEF w
<1>14. ok(Append(wire, Bare("torn")), <<>>)
  <2> DEFINE f == Bare("torn")
             x == <<f>>
  <2>1. f \in Events /\ FailsOrEnds(x) BY <1>4, <1>8, <1>10
  <2>2. Append(wire, f) \in Seq(Events) /\ Len(Append(wire, f)) <= Buffer
        /\ Append(wire, f) = wire \o x
    BY <1>5, <2>1
  <2>3. (wire \o x) \o <<>> = wire \o x
    <3>1. wire \o x \in Seq(Events) BY <2>2
    <3> QED BY <3>1, ConcatEmptySeq
  <2> HIDE DEF f, x
  <2>4. \A full \in Seq(Events) : Queued(wire \o unsent, full) => Queued(wire \o x, full)
    BY <1>7, <2>1
  <2> QED BY <2>2, <2>3, <2>4, EmptySeq DEF f
<1>15. ok(wire', unsent')
  <2> HIDE DEF ok
  <2>1. CASE Write BY <2>1, <1>6 DEF Write, h, t
  <2>2. CASE WriteFailure BY <2>2, <1>11 DEF WriteFailure
  <2>3. CASE Cut BY <2>3, <1>12, <1>13, <1>14 DEF Cut, h
  <2> QED BY <2>1, <2>2, <2>3
<1>16. end' \in {"open", "eof", "error"} BY DEF Write, WriteFailure, Cut, Typed, TypeOK
<1>17. UNCHANGED <<messages, turn, input, pc, shape, cancelled, timedOut, done, textSeen,
                   span, parts, shown>>
  BY DEF Write, WriteFailure, Cut, chatVars, contextVars, streamVars
<1> QED BY <1>1, <1>15, <1>16, <1>17

(***************************************************************************)
(* A step that leaves the turn alone.                                      *)
(***************************************************************************)
LEMMA TurnAlone ==
    ASSUME StreamInv, wire' \in Seq(Events), unsent' \in Seq(Events), Len(wire') <= Buffer,
           end' \in {"open", "eof", "error"}, cancelled' \in BOOLEAN, timedOut' \in BOOLEAN,
           UNCHANGED <<messages, turn, input, pc, shape, done, textSeen, span, parts, shown>>,
           pc = "requested" => UNCHANGED <<wire, unsent>>,
           pc = "reading" => \A full \in Seq(Events) :
              Queued(wire \o unsent, full) => Queued(wire' \o unsent', full)
    PROVE  StreamInv'
<1>1. Typed /\ Fresh /\ ReadsOn /\ TextArrivesOnce /\ BothReaders /\ SpanFollows /\ Asked /\ Answered
  BY DEF StreamInv
<1>2. Typed' BY <1>1 DEF Typed, TypeOK
<1>3. Fresh' BY <1>1 DEF Fresh
<1>4. ReadsOn'
  <2> SUFFICES ASSUME pc = "reading" PROVE \E rest, text, after : Reads(rest, text, after)'
    BY DEF ReadsOn
  <2>1. PICK rest, text, after : Reads(rest, text, after) BY <1>1 DEF ReadsOn
  <2>2. rest \o Ending(shape) \in Seq(Events)
    <3>1. shape \in Shapes BY <1>1 DEF Typed
    <3>2. shape.completes \in BOOLEAN BY <3>1, ServiceAssumption
    <3>3. Ending(shape) \in Seq(Events) BY <3>2, EndingType
    <3>4. rest \in Seq(Events) BY <2>1, PlainSeq DEF Reads, Runs
    <3> QED BY <3>3, <3>4, ConcatProperties
  <2>3. Queued(wire' \o unsent', rest \o Ending(shape)) BY <2>1, <2>2 DEF Reads
  <2>4. Thinks(rest)' BY <2>1 DEF Reads, Thinks
  <2>5. Reads(rest, text, after)' BY <2>1, <2>3, <2>4 DEF Reads
  <2> QED BY <2>5
<1>5. TextArrivesOnce' /\ BothReaders' /\ SpanFollows' /\ Answered'
  BY <1>1 DEF TextArrivesOnce, Open, BothReaders, SpanFollows, Answered, Whole
<1>6. Asked' BY <1>1 DEF Asked
<1> QED BY <1>2, <1>3, <1>4, <1>5, <1>6 DEF StreamInv

LEMMA InvAlone ==
    StreamInv /\ (Write \/ WriteFailure \/ Cut \/ StopWriting \/ Abort \/ Timeout) => StreamInv'
<1> SUFFICES ASSUME StreamInv, Write \/ WriteFailure \/ Cut \/ StopWriting \/ Abort \/ Timeout
             PROVE  StreamInv'
  OBVIOUS
<1>1. Typed /\ Fresh BY DEF StreamInv
<1>2. /\ wire \in Seq(Events) /\ unsent \in Seq(Events) /\ Len(wire) <= Buffer
      /\ end \in {"open", "eof", "error"} /\ cancelled \in BOOLEAN /\ timedOut \in BOOLEAN
  BY <1>1 DEF Typed, TypeOK
<1>3. CASE Write \/ WriteFailure \/ Cut
  <2>1. /\ wire' \in Seq(Events) /\ unsent' \in Seq(Events) /\ Len(wire') <= Buffer
        /\ end' \in {"open", "eof", "error"} /\ unsent # <<>>
        /\ UNCHANGED <<messages, turn, input, pc, shape, cancelled, timedOut, done, textSeen,
                       span, parts, shown>>
        /\ \A full \in Seq(Events) :
              Queued(wire \o unsent, full) => Queued(wire' \o unsent', full)
    BY <1>1, <1>3, Writes
  <2>2. pc # "requested" BY <1>1, <2>1 DEF Fresh
  <2> QED BY <1>2, <2>1, <2>2, TurnAlone
<1>4. CASE StopWriting
  <2>1. pc = "closed" /\ unsent' = <<>> /\ unsent' \in Seq(Events)
    BY <1>4, EmptySeq DEF StopWriting
  <2>2. UNCHANGED <<messages, turn, input, pc, shape, wire, end, cancelled, timedOut, done, textSeen,
                    span, parts, shown>>
    BY <1>4 DEF StopWriting, chatVars, contextVars, streamVars
  <2> QED BY <1>2, <2>1, <2>2, TurnAlone
<1>5. CASE Abort \/ Timeout
  <2>1. UNCHANGED <<messages, turn, input, pc, shape, unsent, wire, end, done, textSeen,
                    span, parts, shown>>
    BY <1>5 DEF Abort, Timeout, chatVars, serviceVars, streamVars
  <2>2. cancelled' \in BOOLEAN /\ timedOut' \in BOOLEAN BY <1>2, <1>5 DEF Abort, Timeout
  <2> QED BY <1>2, <2>1, <2>2, TurnAlone
<1> QED BY <1>3, <1>4, <1>5

(***************************************************************************)
(* The request comes to nothing.                                           *)
(***************************************************************************)
LEMMA InvRefused == StreamInv /\ (Refuse \/ RequestFails) => StreamInv'
<1> SUFFICES ASSUME StreamInv, Refuse \/ RequestFails PROVE StreamInv'
  OBVIOUS
<1>1. Typed /\ BothReaders /\ SpanFollows /\ Asked BY DEF StreamInv
<1>2. /\ pc = "requested" /\ pc' = "refused"
      /\ UNCHANGED <<messages, turn, input, shape, unsent, wire, end, cancelled, timedOut, done,
                     textSeen, span, parts, shown>>
  BY DEF Refuse, RequestFails, chatVars, serviceVars, contextVars, streamVars
<1>3. Typed' BY <1>1, <1>2 DEF Typed, TypeOK
<1>4. Fresh' /\ ReadsOn' /\ TextArrivesOnce' /\ BothReaders' /\ SpanFollows' /\ Answered'
  BY <1>1, <1>2 DEF Fresh, ReadsOn, TextArrivesOnce, Open, BothReaders, SpanFollows, Answered
<1>5. Asked' BY <1>1, <1>2 DEF Asked
<1> QED BY <1>3, <1>4, <1>5 DEF StreamInv

LEMMA OneOutcome ==
    ASSUME NEW s, s = <<>> \/ s = <<"error">> \/ s = <<"ok">>
    PROVE  s \in Seq({"ok", "error"}) /\ Len(s) <= 1
<1>1. <<>> \in Seq({"ok", "error"}) /\ Len(<<>>) = 0 BY EmptySeq
<1>2. <<"ok">> \in Seq({"ok", "error"}) /\ Len(<<"ok">>) = 1 OBVIOUS
<1>3. <<"error">> \in Seq({"ok", "error"}) /\ Len(<<"error">>) = 1 OBVIOUS
<1>4. CASE s = <<>> BY <1>1, <1>4
<1>5. CASE s = <<"ok">> BY <1>2, <1>5
<1>6. CASE s = <<"error">> BY <1>3, <1>6
<1> QED BY <1>4, <1>5, <1>6

(***************************************************************************)
(* Reading ends, with or without a commit: a reply is committed as         *)
(* complete only when it is whole.                                         *)
(***************************************************************************)
LEMMA ReadingEnds ==
    ASSUME StreamInv, pc = "reading", pc' = "ended",
           UNCHANGED <<turn, input, shape, unsent, end, cancelled, timedOut, textSeen, parts,
                       shown>>,
           wire' \in Seq(Events), Len(wire') <= Buffer,
           \/ messages' = messages
           \/ \E complete \in BOOLEAN :
                 /\ CommitReply(complete)
                 /\ complete => Whole,
           \/ span' \in {<<>>, <<"error">>} /\ done' = FALSE
           \/ span' = <<"ok">> /\ done' = TRUE
    PROVE  StreamInv'
<1>1. Typed /\ TextArrivesOnce /\ BothReaders /\ SpanFollows /\ Asked BY DEF StreamInv
<1>2. /\ messages \in Seq(MessageSet) /\ turn \in 0..MaxTurns /\ parts \in Parts
      /\ Len(messages) \in Nat /\ turn \in Nat
  <2>1. messages \in Seq(MessageSet) BY <1>1 DEF Typed, TypeOK, MessageSet
  <2> QED BY <1>1, <2>1, LenProperties, ServiceAssumption DEF Typed, TypeOK
<1>3. TextArrivesOnce' /\ BothReaders' /\ SpanFollows' /\ Fresh' /\ ReadsOn'
  BY <1>1 DEF TextArrivesOnce, Open, BothReaders, SpanFollows, Fresh, ReadsOn
<1>4. messages' \in Seq(MessageSet) /\ Asked' /\ Answered'
  <2>1. \A j \in 1..Len(messages) : \A t \in Nat : messages[j] = Prompt(t) => t < turn
    BY <1>1 DEF Asked
  <2>2. CASE messages' = messages
    <3>1. \A j \in 1..Len(messages) : messages[j] # Prompt(turn) BY <1>2, <2>1
    <3>2. Asked' BY <2>1, <2>2 DEF Asked
    <3>3. Answered' BY <2>2, <3>1 DEF Answered
    <3> QED BY <1>2, <2>2, <3>2, <3>3
  <2>3. CASE \E complete \in BOOLEAN :
                /\ CommitReply(complete)
                /\ complete => Whole
    <3>1. PICK complete \in BOOLEAN :
             /\ CommitReply(complete)
             /\ complete => Whole
      BY <2>3
    <3> DEFINE n == Len(messages)
    <3>2. /\ messages' \in Seq(MessageSet) /\ Len(messages') = n + 2 /\ n \in Nat
          /\ \A j \in 1..n : messages'[j] = messages[j]
          /\ messages'[n + 1] = Prompt(turn) /\ messages'[n + 2] = Reply(parts, complete)
      BY <1>2, <3>1, CommitAdds
    <3> HIDE DEF n
    <3>3. \A j \in 1..n : \A t \in Nat : messages'[j] = Prompt(t) => t < turn
      BY <2>1, <3>2 DEF n
    <3>4. \A j \in 1..Len(messages') : j \in 1..n \/ j = n + 1 \/ j = n + 2 BY <3>2
    <3>5. \A t \in Nat : messages'[n + 2] # Prompt(t) BY <3>2 DEF Reply, Prompt
    <3>6. \A t \in Nat : messages'[n + 1] = Prompt(t) => t = turn BY <3>2, PromptsDiffer
    <3>7. Asked' BY <3>3, <3>4, <3>5, <3>6 DEF Asked
    <3>8. ASSUME NEW j \in 1..Len(messages'), messages'[j] = Prompt(turn)
          PROVE  /\ j + 1 \in 1..Len(messages') /\ messages'[j + 1].parts = parts
                 /\ messages'[j + 1].complete => Whole
      <4>1. j = n + 1 BY <1>2, <3>3, <3>4, <3>5, <3>8
      <4>2. j + 1 = n + 2 /\ n + 2 \in 1..n + 2 BY <4>1, <3>2
      <4>3. messages'[j + 1] = Reply(parts, complete) BY <4>2, <3>2
      <4>4. messages'[j + 1].parts = parts /\ messages'[j + 1].complete = complete
        BY <4>3 DEF Reply
      <4> QED BY <4>2, <4>4, <3>1, <3>2
    <3>9. Ids(parts) \subseteq {turn} \X Nat
      <4>1. PICK rest, text, after : Reads(rest, text, after) BY DEF StreamInv, ReadsOn
      <4>2. Ids(parts) \subseteq ReasoningOf(shape, turn) BY <4>1 DEF Reads, Thinks
      <4>3. DOMAIN shape.items \subseteq Nat
        <5>1. shape.items \in Seq(ItemShapes) BY <1>1, ServiceAssumption DEF Typed
        <5> QED BY <5>1, LenProperties
      <4> QED BY <4>2, <4>3 DEF ReasoningOf
    <3>10. Whole => Whole' BY DEF Whole
    <3>11. Answered' BY <3>8, <3>9, <3>10 DEF Answered
    <3> QED BY <3>2, <3>7, <3>11
  <2> QED BY <2>2, <2>3
<1>5. Typed'
  <2>1. shape' \in Shapes BY <1>1 DEF Typed
  <2>2. span' \in Seq({"ok", "error"}) /\ Len(span') <= 1 /\ done' \in BOOLEAN
    <3>1. span' = <<>> \/ span' = <<"error">> \/ span' = <<"ok">> OBVIOUS
    <3>2. done' \in BOOLEAN OBVIOUS
    <3> QED BY <3>1, <3>2, OneOutcome
  <2>3. messages' \in Seq([role : {"user", "assistant"}, parts : Parts, complete : BOOLEAN])
    BY <1>4 DEF MessageSet
  <2> QED BY <1>1, <2>1, <2>2, <2>3 DEF Typed, TypeOK
<1> QED BY <1>3, <1>4, <1>5 DEF StreamInv

LEMMA InvEnds == StreamInv /\ (NextEOF \/ NextFails \/ NextCancelled \/ StopReading) => StreamInv'
<1> SUFFICES ASSUME StreamInv, NextEOF \/ NextFails \/ NextCancelled \/ StopReading
             PROVE  StreamInv'
  OBVIOUS
<1>1. Typed /\ SpanFollows BY DEF StreamInv
<1>2. wire \in Seq(Events) /\ Len(wire) <= Buffer BY <1>1 DEF Typed, TypeOK
<1>3. pc = "reading" BY DEF NextEOF, NextFails, NextCancelled, StopReading
<1>4. span = <<>> /\ done = FALSE BY <1>1, <1>3 DEF SpanFollows, Typed, TypeOK
<1>5. CASE NextEOF
  <2>1. /\ pc' = "ended" /\ span' = <<"ok">> /\ done' = TRUE /\ messages' = messages
        /\ UNCHANGED <<turn, input, shape, unsent, wire, end, cancelled, timedOut, textSeen,
                       parts, shown>>
    BY <1>4, <1>5 DEF NextEOF, EndOfStream, EndTurn, Finish, serviceVars, contextVars
  <2> QED BY <1>2, <1>3, <2>1, ReadingEnds
<1>6. CASE NextFails
  <2>1. /\ pc' = "ended" /\ span' = <<"error">> /\ done' = FALSE /\ messages' = messages
        /\ UNCHANGED <<turn, input, shape, unsent, wire, end, cancelled, timedOut, textSeen,
                       parts, shown>>
    BY <1>4, <1>6 DEF NextFails, EndTurn, Finish, serviceVars, contextVars
  <2> QED BY <1>2, <1>3, <2>1, ReadingEnds
<1>7. CASE NextCancelled
  <2>1. /\ pc' = "ended" /\ span' = <<"error">> /\ done' = FALSE /\ CommitReply(FALSE)
        /\ UNCHANGED <<turn, input, shape, unsent, wire, end, cancelled, timedOut, textSeen,
                       parts, shown>>
    BY <1>4, <1>7 DEF NextCancelled, EndTurn, Finish, serviceVars, contextVars
  <2> QED BY <1>2, <1>3, <2>1, ReadingEnds
<1>8. CASE StopReading
  <2>1. /\ pc' = "ended" /\ span' = <<>> /\ done' = FALSE /\ messages' = messages
        /\ UNCHANGED <<turn, input, shape, unsent, wire, end, cancelled, timedOut, textSeen,
                       parts, shown>>
    BY <1>4, <1>8 DEF StopReading, chatVars, serviceVars, contextVars, streamVars
  <2> QED BY <1>2, <1>3, <2>1, ReadingEnds
<1> QED BY <1>5, <1>6, <1>7, <1>8

LEMMA InvClose == StreamInv /\ Close => StreamInv'
<1> SUFFICES ASSUME StreamInv, Close PROVE StreamInv'
  OBVIOUS
<1>1. Typed /\ BothReaders /\ SpanFollows /\ Asked /\ Answered BY DEF StreamInv
<1>2. /\ pc = "ended" /\ pc' = "closed"
      /\ UNCHANGED <<messages, turn, input, shape, unsent, wire, end, cancelled, timedOut, done,
                     textSeen, parts, shown>>
  BY DEF Close, chatVars, serviceVars, contextVars
<1>3. \/ span' = <<"error">> /\ ~done
      \/ span' = <<"ok">> /\ done
  BY <1>1, <1>2 DEF Close, Finish, SpanFollows
<1>4. span' \in Seq({"ok", "error"}) /\ Len(span') <= 1 BY <1>3
<1>5. Typed' BY <1>1, <1>2, <1>4 DEF Typed, TypeOK
<1>6. Fresh' /\ ReadsOn' /\ TextArrivesOnce' /\ BothReaders' /\ SpanFollows'
  BY <1>1, <1>2, <1>3 DEF Fresh, ReadsOn, TextArrivesOnce, Open, BothReaders, SpanFollows
<1>7. Asked' BY <1>1, <1>2 DEF Asked
<1>8. Answered' BY <1>1, <1>2 DEF Answered, Whole
<1> QED BY <1>5, <1>6, <1>7, <1>8 DEF StreamInv

(***************************************************************************)
(* The next event is read. It is of the response, or it is a failure: the  *)
(* end of the response comes when all of its text has been delivered.      *)
(***************************************************************************)
LEMMA InvNext1 == StreamInv /\ Next1 => StreamInv'
<1> SUFFICES ASSUME StreamInv, Next1 PROVE StreamInv'
  OBVIOUS
<1>1. Typed /\ ReadsOn /\ BothReaders /\ SpanFollows /\ Asked /\ Answered BY DEF StreamInv
<1> DEFINE e == Head(wire)
           w == Tail(wire)
<1>2. /\ pc = "reading" /\ wire # <<>> /\ MapPayload(e) /\ wire' = w
      /\ UNCHANGED <<turn, input, shape, unsent, end, cancelled, timedOut>>
  BY DEF Next1, serviceVars, contextVars
<1>3. wire \in Seq(Events) /\ unsent \in Seq(Events) /\ Len(wire) <= Buffer /\ shape \in Shapes
  BY <1>1, <1>2 DEF Typed, TypeOK
<1>4. e \in Events /\ w \in Seq(Events) /\ Len(w) <= Buffer
  <2>1. e \in Events /\ w \in Seq(Events) /\ Len(w) = Len(wire) - 1
    BY <1>2, <1>3, HeadTailProperties
  <2>2. Len(wire) \in Nat BY <1>3, LenProperties
  <2> QED BY <2>1, <2>2, <1>3, ServiceAssumption
<1>5. span = <<>> /\ done = FALSE BY <1>1, <1>2 DEF SpanFollows, Typed, TypeOK
<1>6. parts \in Parts /\ shown = parts BY <1>1 DEF Typed, TypeOK, BothReaders
<1>7. PICK rest, text, after : Reads(rest, text, after) BY <1>1, <1>2 DEF ReadsOn
<1>8. shape.completes \in BOOLEAN BY <1>3, ServiceAssumption
<1>9. /\ Ending(shape) \in Seq(Events) /\ Len(Ending(shape)) >= 1
      /\ Ending(shape)[1] = IF shape.completes THEN Bare("completed") ELSE Bare("[DONE]")
  BY <1>8, EndingType
<1>10. rest \in Seq(PlainEvents) /\ rest \in Seq(Events) BY <1>7, PlainSeq DEF Reads, Runs
<1> DEFINE full == rest \o Ending(shape)
           q == wire \o unsent
<1>11. full \in Seq(Events) BY <1>9, <1>10, ConcatProperties
<1>12. q \in Seq(Events) BY <1>3, ConcatProperties
<1>13. Queued(q, full) BY <1>7 DEF Reads
<1>14. q # <<>> /\ Head(q) = e /\ Tail(q) = w \o unsent
  BY <1>2, <1>3, HeadTailConcat
<1> HIDE DEF q, full, e, w
<1>15. \/ IsFailure(e)
       \/ full # <<>> /\ e = Head(full) /\ Queued(w \o unsent, Tail(full))
  <2>1. \/ IsFailure(Head(q))
        \/ full # <<>> /\ Head(q) = Head(full) /\ Queued(Tail(q), Tail(full))
    BY <1>11, <1>12, <1>13, <1>14, QueueHead
  <2> QED BY <2>1, <1>14
<1>16. CASE IsFailure(e)
  <2>1. Failed(e)
    BY <1>2, <1>16 DEF IsFailure, MapPayload, TextDelta, TextDone, ReasoningDelta, ReasoningDone,
                       MessageDone, Completed, EndMark, Unmapped
  <2>2. /\ pc' = "ended" /\ span' = <<"error">> /\ done' = FALSE /\ messages' = messages
        /\ UNCHANGED <<textSeen, parts, shown>>
    BY <2>1, <1>5 DEF Failed, EndTurn, Finish
  <2> QED BY <1>2, <1>4, <2>2, ReadingEnds
<1>17. CASE rest = <<>> /\ full # <<>> /\ e = Head(full) /\ ~IsFailure(e)
  <2>1. full = Ending(shape) BY <1>9, <1>17, ConcatEmptySeq DEF full
  <2>2. e = IF shape.completes THEN Bare("completed") ELSE Bare("[DONE]")
    BY <1>9, <1>17, <2>1
  <2>3. TextOf(parts) = WholeText(shape, turn)
    <3>1. Runs(shape, <<>>, textSeen, text, after) BY <1>7, <1>17 DEF Reads
    <3>2. text = <<>> BY <3>1, RunsNothing
    <3>3. TextOf(parts) \o <<>> = WholeText(shape, turn) BY <1>7, <3>2 DEF Reads
    <3>4. TextOf(parts) \o <<>> = TextOf(parts) BY <1>6, TextOfType, TextsUnit
    <3> QED BY <3>3, <3>4
  <2>4. CASE shape.completes
    <3>0. Whole
      <4>1. Thinks(<<>>) BY <1>7, <1>17 DEF Reads
      <4>2. OneReasoning(shape) => Ids(parts) = ReasoningOf(shape, turn)
        BY <4>1, ElementsOfNone DEF Thinks
      <4> QED BY <2>3, <2>4, <4>2 DEF Whole
    <3>1. e.type = "completed" BY <2>2, <2>4 DEF Bare, Event
    <3>2. Completed(e)
      BY <1>2, <3>1 DEF MapPayload, TextDelta, TextDone, ReasoningDelta, ReasoningDone,
                        MessageDone, Failed, EndMark, Unmapped
    <3>3. /\ pc' = "ended" /\ span' = <<"ok">> /\ done' = TRUE /\ CommitReply(TRUE)
          /\ UNCHANGED <<textSeen, parts, shown>>
      BY <3>2, <1>5 DEF Completed, EndTurn, Finish
    <3> QED BY <1>2, <1>4, <3>0, <3>3, ReadingEnds
  <2>5. CASE ~shape.completes
    <3>1. e.type = "[DONE]" BY <2>2, <2>5 DEF Bare, Event
    <3>2. EndMark(e)
      BY <1>2, <3>1 DEF MapPayload, TextDelta, TextDone, ReasoningDelta, ReasoningDone,
                        MessageDone, Failed, Completed, Unmapped
    <3>3. /\ pc' = "ended" /\ span' = <<"ok">> /\ done' = TRUE /\ messages' = messages
          /\ UNCHANGED <<textSeen, parts, shown>>
      BY <3>2, <1>5 DEF EndMark, EndOfStream, EndTurn, Finish
    <3> QED BY <1>2, <1>4, <3>3, ReadingEnds
  <2> QED BY <2>4, <2>5
<1>18. CASE rest # <<>> /\ e = Head(full) /\ Queued(w \o unsent, Tail(full))
  <2>1. Runs(shape, rest, textSeen, text, after) BY <1>7 DEF Reads
  <2>2. Plain(Head(rest)) /\ \E more : /\ Runs(shape, Tail(rest), Marked(shape, Head(rest), textSeen), more, after)
                                       /\ text = Delivered(shape, Head(rest), textSeen) \o more
    BY <1>18, <2>1, RunsHead
  <2>3. Head(full) = Head(rest) /\ Tail(full) = Tail(rest) \o Ending(shape)
    BY <1>9, <1>10, <1>18, HeadTailConcat DEF full
  <2>4. e = Head(rest) /\ Plain(e) BY <1>18, <2>2, <2>3
  <2> DEFINE d == Delivered(shape, e, textSeen)
  <2>5. PICK more : /\ Runs(shape, Tail(rest), Marked(shape, e, textSeen), more, after)
                    /\ text = d \o more
    BY <2>2, <2>4
  <2>6. /\ messages' = messages /\ pc' = pc /\ done' = done /\ span' = span
        /\ textSeen' = Marked(shape, e, textSeen)
        /\ parts' \in Parts /\ shown' = parts'
        /\ TextOf(parts') = TextOf(parts) \o d
    BY <1>2, <1>6, <2>4, PlainStep
  <2>7. textSeen \in SUBSET Keys /\ more \in Texts /\ textSeen' \in SUBSET Keys
    BY <2>1, <2>5, <2>6, RunsTypes
  <2>8. d \in Texts /\ TextOf(parts) \in Texts /\ TextOf(parts') \in Texts
    BY <1>6, <2>4, <2>6, <2>7, StepTypes, TextOfType
  <2> HIDE DEF d
  <2>9. TextOf(parts') \o more = WholeText(shape, turn)
    <3>1. (TextOf(parts) \o d) \o more = TextOf(parts) \o (d \o more)
      BY <2>7, <2>8, TextsAssociate
    <3> QED BY <1>7, <2>5, <2>6, <3>1 DEF Reads
  <2>10. Typed'
    <3>1. textSeen' \subseteq Items \X Nat BY <2>7 DEF Keys
    <3> QED BY <1>1, <1>2, <1>3, <1>4, <2>6, <3>1 DEF Typed, TypeOK
  <2>11. Reads(Tail(rest), more, after)'
    <3>1. Queued(wire' \o unsent', Tail(rest) \o Ending(shape)) BY <1>2, <1>18, <2>3
    <3>2. Runs(shape, Tail(rest), textSeen', more, after) BY <2>5, <2>6
    <3>3. Thinks(Tail(rest))'
      <4>1. Thinks(rest) /\ rest \in Seq(PlainEvents) BY <1>7, <1>10 DEF Reads
      <4>2. turn \in 0..MaxTurns BY <1>1 DEF Typed, TypeOK
      <4>3. Plain(Head(rest)) /\ MapPayload(Head(rest)) BY <1>2, <2>4
      <4> QED BY <1>2, <1>3, <1>6, <1>18, <4>1, <4>2, <4>3, ThinksOn
    <3> QED BY <1>2, <2>9, <3>1, <3>2, <3>3 DEF Reads
  <2>12. ReadsOn'
    <3>1. \E r, x, a : Reads(r, x, a)'
      <4>1. WITNESS Tail(rest), more, after
      <4> QED BY <2>11
    <3> QED BY <3>1 DEF ReadsOn
  <2>13. TextArrivesOnce'
    <3>1. IsPrefix(TextOf(parts'), WholeText(shape, turn)) BY <2>7, <2>8, <2>9, BeginningIsPrefix
    <3> QED BY <1>2, <3>1 DEF TextArrivesOnce
  <2>14. Fresh' /\ BothReaders' /\ SpanFollows' /\ Answered'
    BY <1>1, <1>2, <2>6 DEF Fresh, BothReaders, SpanFollows, Answered
  <2>15. Asked' BY <1>1, <1>2, <2>6 DEF Asked
  <2> QED BY <2>10, <2>12, <2>13, <2>14, <2>15 DEF StreamInv
<1> QED BY <1>15, <1>16, <1>17, <1>18

LEMMA InvStutters == StreamInv /\ UNCHANGED vars => StreamInv'
<1> SUFFICES ASSUME StreamInv, UNCHANGED vars PROVE StreamInv'
  OBVIOUS
<1>1. Typed BY DEF StreamInv
<1>2. /\ wire \in Seq(Events) /\ unsent \in Seq(Events) /\ Len(wire) <= Buffer
      /\ end \in {"open", "eof", "error"} /\ cancelled \in BOOLEAN /\ timedOut \in BOOLEAN
  BY <1>1 DEF Typed, TypeOK
<1>3. UNCHANGED <<messages, turn, input, pc, shape, unsent, wire, end, cancelled, timedOut, done,
                  textSeen, span, parts, shown>>
  BY DEF vars, chatVars, serviceVars, contextVars, streamVars
<1> QED BY <1>2, <1>3, TurnAlone

LEMMA InvNext == StreamInv /\ [Next]_vars => StreamInv'
BY InvSend, InvAccept, InvRefused, InvAlone, InvEnds, InvClose, InvNext1, InvStutters
   DEF Next, Service, Client

----------------------------------------------------------------------------
(* The theorems. *)

(***************************************************************************)
(* The invariant holds: what is on its way is a beginning of the rest of   *)
(* the response, with a failure behind it perhaps, and what has been put   *)
(* together with what the rest delivers is the whole text.                 *)
(***************************************************************************)
THEOREM StreamInvHolds == Spec => []StreamInv
<1> QED BY InvInit, InvNext, PTL DEF Spec

(***************************************************************************)
(* The text of a reply is always a beginning of the text the service       *)
(* sends, for every response of any number of items and contents, each     *)
(* sent in deltas, at the end of its content, with its item, or in several *)
(* of these ways (mapPayload, missingMessageText).                         *)
(***************************************************************************)
THEOREM TextAlwaysArrivesOnce == Spec => []TextArrivesOnce
<1>1. StreamInv => TextArrivesOnce BY DEF StreamInv
<1> QED BY <1>1, StreamInvHolds, PTL

\* The reply to the turn that has ended is made of its parts.
LEMMA RepliesAreAnswers ==
    ASSUME StreamInv, pc \in {"ended", "closed"}, NEW r \in RepliesTo(turn)
    PROVE  /\ r.parts = parts
           /\ r.complete => shape.completes /\ TextOf(parts) = WholeText(shape, turn)
<1>1. Typed /\ Answered BY DEF StreamInv
<1>2. DOMAIN messages = 1..Len(messages)
  <2>1. messages \in Seq(MessageSet) BY <1>1 DEF Typed, TypeOK, MessageSet
  <2> QED BY <2>1, LenProperties
<1>3. PICK j \in 1..Len(messages) : messages[j] = Prompt(turn) /\ r = messages[j + 1]
  BY <1>2 DEF RepliesTo
<1> QED BY <1>1, <1>3 DEF Answered, Whole

(***************************************************************************)
(* A reply recorded as complete always has the whole text of a response    *)
(* that was completed, whatever cut, failed or stopped the others, and     *)
(* the types hold.                                                         *)
(***************************************************************************)
THEOREM CompleteIsAlwaysWhole == Spec => []CompleteIsWhole
<1>1. StreamInv => CompleteIsWhole
  <2>1. ASSUME StreamInv PROVE TypeOK BY <2>1 DEF StreamInv, Typed
  <2>2. ASSUME StreamInv, pc \in {"ended", "closed"}, NEW r \in RepliesTo(turn), r.complete
        PROVE  shape.completes /\ TextOf(r.parts) = WholeText(shape, turn)
    BY <2>2, RepliesAreAnswers
  <2> QED BY <2>1, <2>2 DEF CompleteIsWhole
<1> QED BY <1>1, StreamInvHolds, PTL

(***************************************************************************)
(* What the page shows at the end of a turn is always what the             *)
(* conversation keeps of it: the two readers put the same parts together   *)
(* from whatever comes (mergeCompletedPart, mergeCompletedOutputPart).     *)
(***************************************************************************)
THEOREM ShownIsAlwaysRecorded == Spec => []ShownIsRecorded
<1>1. StreamInv => ShownIsRecorded
  <2>1. ASSUME StreamInv, pc \in {"ended", "closed"}, NEW r \in RepliesTo(turn)
        PROVE  r.parts = shown
    BY <2>1, RepliesAreAnswers DEF StreamInv, BothReaders
  <2> QED BY <2>1 DEF ShownIsRecorded
<1> QED BY <1>1, StreamInvHolds, PTL

(***************************************************************************)
(* A closed stream has always ended its span once, with the outcome of the *)
(* stream (finish, Close).                                                 *)
(***************************************************************************)
THEOREM SpanAlwaysTellsOutcome == Spec => []SpanTellsOutcome
<1>1. StreamInv => SpanTellsOutcome
  <2> SUFFICES ASSUME StreamInv PROVE SpanTellsOutcome
    OBVIOUS
  <2>1. Len(span) <= 1 BY DEF StreamInv, Typed, TypeOK
  <2>2. pc = "closed" => Len(span) = 1 /\ (span[1] = "ok" <=> done)
    BY DEF StreamInv, SpanFollows
  <2> QED BY <2>1, <2>2 DEF SpanTellsOutcome
<1> QED BY <1>1, StreamInvHolds, PTL

----------------------------------------------------------------------------
(***************************************************************************)
(* The reasoning that a request sends: that of the replies it is built     *)
(* from. NoItem, of a reasoning part whose item did not end, belongs to no *)
(* turn.                                                                   *)
(***************************************************************************)
LEMMA PartNames ==
    ASSUME NEW p \in PartSet
    PROVE  /\ InputOfPart(p) \in Seq(InputSet)
           /\ p.type = "reasoning" =>
                 \E e \in Range(InputOfPart(p)) : e.type = "reasoning" /\ e.id = p.id
           /\ \A e \in Range(InputOfPart(p)) :
                 e.type = "reasoning" => p.type = "reasoning" /\ e.id = p.id
<1>1. InputOfPart(p) \in Seq(InputSet) BY InputOfPartType
<1>2. CASE p.type = "reasoning"
  <2>1. PICK e : e = Part("reasoning", p.id, <<>>) OBVIOUS
  <2>2. InputOfPart(p) = <<e>> BY <1>2, <2>1 DEF InputOfPart
  <2>3. e.type = "reasoning" /\ e.id = p.id BY <2>1 DEF Part
  <2> QED BY <1>1, <1>2, <2>2, <2>3, ElementsOfOne
<1>3. CASE p.type # "reasoning"
  <2>1. PICK e : e = Part("assistant", NoItem, p.text) OBVIOUS
  <2>2. InputOfPart(p) = <<e>> \/ InputOfPart(p) = <<>> BY <1>3, <2>1 DEF InputOfPart, When
  <2>3. e.type # "reasoning" BY <2>1 DEF Part
  <2> QED BY <1>1, <1>3, <2>2, <2>3, ElementsOfOne, ElementsOfNone
<1> QED BY <1>2, <1>3

\* The input of a message names the reasoning of a reply, and nothing else.
LEMMA MessageNames ==
    ASSUME NEW m \in MessageSet
    PROVE  /\ \A e \in Range(InputOfMessage(m)) :
                 e.type = "reasoning" =>
                    m.role = "assistant" /\ (e.id = NoItem \/ e.id \in Ids(m.parts))
           /\ m.role = "assistant" =>
                 \A x \in Ids(m.parts) :
                    \E e \in Range(InputOfMessage(m)) : e.type = "reasoning" /\ e.id = x
<1>1. PICK ps \in Parts : ps = m.parts BY DEF MessageSet
<1>2. DOMAIN ps = 1..Len(ps) /\ Len(ps) \in Nat /\ \A i \in 1..Len(ps) : ps[i] \in PartSet
  BY PartsAreParts
<1>3. PICK n \in Nat : n = Len(ps) BY <1>2
<1>4. CASE m.role = "assistant"
  <2> DEFINE f == [i \in 1..n |-> InputOfPart(ps[i])]
  <2>1. f = [i \in 1..n |-> f[i]] /\ \A i \in 1..n : f[i] = InputOfPart(ps[i]) OBVIOUS
  <2>2. InputOfMessage(m) = FlattenSeq(f) BY <1>1, <1>2, <1>3, <1>4 DEF InputOfMessage
  <2> HIDE DEF f
  <2>3. \A i \in 1..n : f[i] \in Seq(InputSet) BY <1>2, <1>3, <2>1, PartNames
  <2>4. \A e : e \in Range(FlattenSeq(f)) <=> \E i \in 1..n : e \in Range(f[i])
    BY <2>1, <2>3, FlattenRange
  <2>5. ASSUME NEW e \in Range(InputOfMessage(m)), e.type = "reasoning"
        PROVE  e.id = NoItem \/ e.id \in Ids(m.parts)
    <3>1. PICK i \in 1..n : e \in Range(InputOfPart(ps[i])) BY <2>1, <2>2, <2>4
    <3>2. ps[i].type = "reasoning" /\ e.id = ps[i].id BY <1>2, <1>3, <2>5, <3>1, PartNames
    <3> QED BY <1>1, <1>2, <1>3, <3>2 DEF Ids
  <2>6. ASSUME NEW x \in Ids(m.parts)
        PROVE  \E e \in Range(InputOfMessage(m)) : e.type = "reasoning" /\ e.id = x
    <3>1. PICK i \in 1..n : ps[i].type = "reasoning" /\ x = ps[i].id
      BY <1>1, <1>2, <1>3 DEF Ids
    <3>2. PICK e \in Range(InputOfPart(ps[i])) : e.type = "reasoning" /\ e.id = ps[i].id
      BY <1>2, <1>3, <3>1, PartNames
    <3>3. e \in Range(InputOfMessage(m)) BY <2>1, <2>2, <2>4, <3>2
    <3> QED BY <3>1, <3>2, <3>3
  <2> QED BY <1>4, <2>5, <2>6
<1>5. CASE m.role # "assistant"
  <2>1. PICK e : e = Part("user", NoItem, TextOf(m.parts)) OBVIOUS
  <2>2. InputOfMessage(m) = <<e>> BY <1>5, <2>1 DEF InputOfMessage
  <2>3. e.type # "reasoning" BY <2>1 DEF Part
  <2> QED BY <1>5, <2>2, <2>3, ElementsOfOne
<1> QED BY <1>4, <1>5

\* The reasoning of turn t in the input is that of the replies it is built
\* from.
LEMMA InputNames ==
    ASSUME NEW ms \in Seq(MessageSet), input = openResponsesInput(ms), NEW t \in Nat, t # 0, NEW x
    PROVE  x \in SentReasoning(t)
             <=> x[1] = t /\ \E k \in 1..Len(ms) : ms[k].role = "assistant" /\ x \in Ids(ms[k].parts)
<1>1. DOMAIN ms = 1..Len(ms) /\ Len(ms) \in Nat /\ \A k \in 1..Len(ms) : ms[k] \in MessageSet
  BY LenProperties, ElementOfSeq
<1>2. PICK n \in Nat : n = Len(ms) BY <1>1
<1> DEFINE f == [k \in 1..n |-> InputOfMessage(ms[k])]
<1>3. f = [k \in 1..n |-> f[k]] /\ \A k \in 1..n : f[k] = InputOfMessage(ms[k]) OBVIOUS
<1>4. input = FlattenSeq(f) BY <1>1, <1>2 DEF openResponsesInput
<1> HIDE DEF f
<1>5. \A k \in 1..n : f[k] \in Seq(InputSet) BY <1>1, <1>2, <1>3, InputOfMessageType
<1>6. \A e : e \in Range(input) <=> \E k \in 1..n : e \in Range(InputOfMessage(ms[k]))
  <2>1. \A e : e \in Range(FlattenSeq(f)) <=> \E k \in 1..n : e \in Range(f[k])
    BY <1>3, <1>5, FlattenRange
  <2> QED BY <1>3, <1>4, <2>1
<1>7. x \in SentReasoning(t)
        <=> \E e \in Range(input) : e.type = "reasoning" /\ e.id = x /\ x[1] = t
  BY DEF SentReasoning, Range
<1>8. NoItem[1] # t BY DEF NoItem
<1>9. ASSUME x \in SentReasoning(t)
      PROVE  x[1] = t /\ \E k \in 1..n : ms[k].role = "assistant" /\ x \in Ids(ms[k].parts)
  <2>1. PICK e \in Range(input) : e.type = "reasoning" /\ e.id = x /\ x[1] = t BY <1>7, <1>9
  <2>2. PICK k \in 1..n : e \in Range(InputOfMessage(ms[k])) BY <1>6
  <2>3. ms[k].role = "assistant" /\ (e.id = NoItem \/ e.id \in Ids(ms[k].parts))
    BY <1>1, <1>2, <2>1, <2>2, MessageNames
  <2> QED BY <1>8, <2>1, <2>3
<1>10. ASSUME x[1] = t, NEW k \in 1..n, ms[k].role = "assistant", x \in Ids(ms[k].parts)
       PROVE  x \in SentReasoning(t)
  <2>1. PICK e \in Range(InputOfMessage(ms[k])) : e.type = "reasoning" /\ e.id = x
    BY <1>1, <1>2, <1>10, MessageNames
  <2>2. e \in Range(input) BY <1>6, <2>1
  <2> QED BY <1>7, <1>10, <2>1, <2>2
<1> QED BY <1>2, <1>9, <1>10

----------------------------------------------------------------------------
(***************************************************************************)
(* What the conversation keeps of the turns: prompts, each once, and       *)
(* behind a prompt its reply. A reply names reasoning of its own turn, and *)
(* a complete one all of that of a response.                               *)
(***************************************************************************)
RepliesIn(m, u) ==
    /\ m.role = "assistant"
    /\ Ids(m.parts) \subseteq {u} \X Nat
    /\ m.complete => \E s \in Shapes : Ids(m.parts) = ReasoningOf(s, u)

Remembered ==
    \A k \in 1..Len(messages) :
        \/ k + 1 \in 1..Len(messages) /\ \E u \in 1..turn : messages[k] = Prompt(u)
        \/ /\ k - 1 \in 1..Len(messages)
           /\ \E u \in 1..turn : messages[k - 1] = Prompt(u) /\ RepliesIn(messages[k], u)

AskedOnce ==
    \A j, k \in 1..Len(messages) : \A u \in 1..turn :
        messages[j] = Prompt(u) /\ messages[k] = Prompt(u) => j = k

Requested ==
    /\ pc # "idle" => turn # 0
    /\ pc = "requested" => input = openResponsesInput(Append(messages, Prompt(turn)))

SentInv == Remembered /\ AskedOnce /\ Requested

LEMMA SentInit == Init => SentInv
<1> SUFFICES ASSUME Init PROVE SentInv
  OBVIOUS
<1>1. messages = <<>> /\ pc = "idle" BY DEF Init
<1>2. \A k \in 1..Len(messages) : FALSE BY <1>1
<1> QED BY <1>1, <1>2 DEF SentInv, Remembered, AskedOnce, Requested

\* A step asks the next turn, ends a turn with a commit, or leaves the
\* conversation as it is.
LEMMA StepKinds ==
    ASSUME [Next]_vars
    PROVE  \/ /\ turn' = turn + 1 /\ messages' = messages
              /\ pc' = "requested" /\ input' = openResponsesInput(Append(messages, Prompt(turn + 1)))
           \/ /\ pc = "reading" /\ pc' = "ended"
              /\ UNCHANGED <<turn, shape, parts>>
              /\ \E complete \in BOOLEAN : CommitReply(complete)
           \/ /\ UNCHANGED <<messages, turn, input>>
              /\ pc' = "requested" => pc = "requested"
              /\ pc = "idle" => pc' = "idle"
<1>1. CASE Send BY <1>1 DEF Send
<1>2. CASE Accept \/ Refuse \/ RequestFails
  BY <1>2 DEF Accept, Refuse, RequestFails, chatVars
<1>3. CASE Write \/ WriteFailure \/ Cut \/ StopWriting \/ Abort \/ Timeout
  BY <1>3 DEF Write, WriteFailure, Cut, StopWriting, Abort, Timeout, chatVars
<1>4. CASE NextEOF \/ NextFails \/ StopReading \/ Close
  BY <1>4 DEF NextEOF, NextFails, StopReading, Close, EndOfStream, EndTurn, chatVars
<1>5. CASE NextCancelled
  BY <1>5 DEF NextCancelled, EndTurn, serviceVars
<1>6. CASE Next1
  <2>1. pc = "reading" /\ UNCHANGED <<turn, input, shape>> /\ MapPayload(Head(wire))
    BY <1>6 DEF Next1, serviceVars
  <2> DEFINE e == Head(wire)
  <2> HIDE DEF e
  <2>2. MapPayload(e) BY <2>1 DEF e
  <2>3. CASE TextDelta(e) \/ TextDone(e) \/ ReasoningDelta(e) \/ ReasoningDone(e)
             \/ MessageDone(e) \/ Unmapped(e)
    <3>1. messages' = messages /\ pc' = pc
      BY <2>3 DEF TextDelta, TextDone, ReasoningDelta, ReasoningDone, MessageDone, Unmapped, Skip
    <3> QED BY <2>1, <3>1
  <2>4. CASE Completed(e)
    <3>1. CommitReply(TRUE) /\ pc' = "ended" /\ parts' = parts BY <2>4 DEF Completed, EndTurn
    <3> QED BY <2>1, <3>1
  <2>5. CASE Failed(e) \/ EndMark(e)
    <3>1. messages' = messages /\ pc' = "ended"
      BY <2>5 DEF Failed, EndMark, EndOfStream, EndTurn
    <3> QED BY <2>1, <3>1
  <2> QED BY <2>2, <2>3, <2>4, <2>5 DEF MapPayload
<1>7. CASE UNCHANGED vars BY <1>7 DEF vars, chatVars
<1> QED BY <1>1, <1>2, <1>3, <1>4, <1>5, <1>6, <1>7 DEF Next, Service, Client

\* The second invariant, step by step.
LEMMA SentNext ==
    ASSUME \A s \in Shapes : OneReasoning(s), StreamInv, StreamInv', SentInv, [Next]_vars
    PROVE  SentInv'
<1>1. Remembered /\ AskedOnce /\ Requested BY DEF SentInv
<1>2. /\ messages \in Seq(MessageSet) /\ turn \in 0..MaxTurns /\ parts \in Parts
      /\ turn \in Nat /\ Len(messages) \in Nat
  <2>1. messages \in Seq(MessageSet) BY DEF StreamInv, Typed, TypeOK, MessageSet
  <2> QED BY <2>1, LenProperties, ServiceAssumption DEF StreamInv, Typed, TypeOK
<1>3. CASE /\ turn' = turn + 1 /\ messages' = messages
           /\ pc' = "requested"
           /\ input' = openResponsesInput(Append(messages, Prompt(turn + 1)))
  <2>1. Requested' BY <1>2, <1>3 DEF Requested
  <2>2. 1..turn \subseteq 1..turn' BY <1>2, <1>3
  <2>3. Remembered'
    <3> SUFFICES ASSUME NEW k \in 1..Len(messages)
                 PROVE  \/ k + 1 \in 1..Len(messages) /\ \E u \in 1..turn' : messages[k] = Prompt(u)
                        \/ /\ k - 1 \in 1..Len(messages)
                           /\ \E u \in 1..turn' : messages[k - 1] = Prompt(u) /\ RepliesIn(messages[k], u)
      BY <1>3 DEF Remembered
    <3> QED BY <1>1, <2>2 DEF Remembered
  <2>4. AskedOnce'
    <3> SUFFICES ASSUME NEW j \in 1..Len(messages), NEW k \in 1..Len(messages), NEW u \in 1..turn',
                        messages[j] = Prompt(u), messages[k] = Prompt(u)
                 PROVE  j = k
      BY <1>3 DEF AskedOnce
    <3>1. \A t \in Nat : messages[j] = Prompt(t) => t < turn \/ t = turn BY DEF StreamInv, Asked
    <3>2. u \in Nat BY <1>2, <1>3
    <3>3. u \in 1..turn BY <1>2, <1>3, <3>1, <3>2
    <3> QED BY <1>1, <3>3 DEF AskedOnce
  <2> QED BY <2>1, <2>3, <2>4 DEF SentInv
<1>4. CASE /\ pc = "reading" /\ pc' = "ended" /\ UNCHANGED <<turn, shape, parts>>
           /\ \E complete \in BOOLEAN : CommitReply(complete)
  <2>1. PICK complete \in BOOLEAN : CommitReply(complete) BY <1>4
  <2>2. PICK n \in Nat : n = Len(messages) BY <1>2
  <2>3. /\ Len(messages') = n + 2
        /\ \A j \in 1..n : messages'[j] = messages[j]
        /\ messages'[n + 1] = Prompt(turn) /\ messages'[n + 2] = Reply(parts, complete)
    BY <1>2, <2>1, <2>2, CommitAdds
  <2>4. turn \in 1..turn BY <1>1, <1>2, <1>4 DEF Requested
  <2>5. RepliesIn(messages'[n + 2], turn)
    <3>1. n + 1 \in 1..Len(messages') BY <2>3
    <3>2. /\ (n + 1) + 1 = n + 2
          /\ Ids(parts') \subseteq {turn'} \X Nat
          /\ messages'[(n + 1) + 1].complete => Whole'
      BY <1>4, <2>3, <3>1 DEF StreamInv, Answered
    <3>3. messages'[n + 2].complete = complete /\ messages'[n + 2].parts = parts
          /\ messages'[n + 2].role = "assistant"
      BY <2>3 DEF Reply
    <3>4. shape \in Shapes BY <1>4 DEF StreamInv, Typed
    <3>5. complete => Ids(parts) = ReasoningOf(shape, turn)
      BY <1>4, <3>2, <3>3, <3>4 DEF Whole
    <3> QED BY <1>4, <3>2, <3>3, <3>4, <3>5 DEF RepliesIn
  <2>6. \A k \in 1..Len(messages') : k \in 1..n \/ k = n + 1 \/ k = n + 2 BY <2>3
  <2>7. \A k \in 1..n : k - 1 \in 1..n => messages'[k - 1] = messages[k - 1] BY <2>3
  <2>8. Remembered'
    <3> SUFFICES ASSUME NEW k \in 1..Len(messages')
                 PROVE  \/ k + 1 \in 1..Len(messages') /\ \E u \in 1..turn : messages'[k] = Prompt(u)
                        \/ /\ k - 1 \in 1..Len(messages')
                           /\ \E u \in 1..turn : messages'[k - 1] = Prompt(u) /\ RepliesIn(messages'[k], u)
      BY <1>4 DEF Remembered
    <3>1. CASE k \in 1..n
      <4>1. \/ k + 1 \in 1..n /\ \E u \in 1..turn : messages[k] = Prompt(u)
            \/ /\ k - 1 \in 1..n
               /\ \E u \in 1..turn : messages[k - 1] = Prompt(u) /\ RepliesIn(messages[k], u)
        BY <1>1, <2>2, <3>1 DEF Remembered
      <4>2. /\ k - 1 \in 1..n => k - 1 \in 1..Len(messages')
            /\ k + 1 \in 1..n => k + 1 \in 1..Len(messages')
        BY <2>3
      <4>3. messages'[k] = messages[k] BY <2>3, <3>1
      <4> QED BY <2>7, <3>1, <4>1, <4>2, <4>3
    <3>2. CASE k = n + 1
      <4>1. k + 1 \in 1..Len(messages') BY <2>3, <3>2
      <4> QED BY <2>3, <2>4, <3>2, <4>1
    <3>3. CASE k = n + 2
      <4>1. k - 1 = n + 1 /\ n + 1 \in 1..Len(messages') BY <2>3, <3>3
      <4> QED BY <2>3, <2>4, <2>5, <3>3, <4>1
    <3> QED BY <2>6, <3>1, <3>2, <3>3
  <2>9. \A j \in 1..n : \A u \in 1..turn : messages'[j] = Prompt(u) => u # turn
    <3>1. \A j \in 1..n : \A t \in Nat : messages[j] = Prompt(t) => t < turn
      BY <1>4, <2>2 DEF StreamInv, Asked
    <3> QED BY <1>2, <2>3, <3>1
  <2>10. \A u : messages'[n + 2] # Prompt(u) BY <2>3 DEF Reply, Prompt
  <2>11. \A u : messages'[n + 1] = Prompt(u) => u = turn BY <2>3, PromptsDiffer
  <2>12. AskedOnce'
    <3> SUFFICES ASSUME NEW j \in 1..Len(messages'), NEW k \in 1..Len(messages'), NEW u \in 1..turn,
                        messages'[j] = Prompt(u), messages'[k] = Prompt(u)
                 PROVE  j = k
      BY <1>4 DEF AskedOnce
    <3>1. j # n + 2 /\ k # n + 2 BY <2>10
    <3>2. CASE u = turn
      <4>1. j \notin 1..n /\ k \notin 1..n BY <2>9, <3>2
      <4> QED BY <2>6, <3>1, <4>1
    <3>3. CASE u # turn
      <4>1. j \in 1..n /\ k \in 1..n BY <2>6, <2>11, <3>1, <3>3
      <4>2. messages[j] = Prompt(u) /\ messages[k] = Prompt(u) BY <2>3, <4>1
      <4> QED BY <1>1, <2>2, <4>1, <4>2 DEF AskedOnce
    <3> QED BY <3>2, <3>3
  <2>13. Requested' BY <1>1, <1>4 DEF Requested
  <2> QED BY <2>8, <2>12, <2>13 DEF SentInv
<1>5. CASE /\ UNCHANGED <<messages, turn, input>>
           /\ pc' = "requested" => pc = "requested"
           /\ pc = "idle" => pc' = "idle"
  BY <1>1, <1>5 DEF SentInv, Remembered, AskedOnce, Requested
<1> QED BY <1>3, <1>4, <1>5, StepKinds

\* The request of a turn is built from what the conversation remembers.
LEMMA RequestSendsReasoning ==
    ASSUME StreamInv, SentInv
    PROVE  PriorReasoningIsSent
<1> SUFFICES ASSUME pc = "requested", NEW t \in 1..turn - 1, NEW r \in RepliesTo(t), r.complete
             PROVE  \E s \in Shapes : SentReasoning(t) = ReasoningOf(s, t)
  BY DEF PriorReasoningIsSent
<1>1. Remembered /\ AskedOnce /\ Requested BY DEF SentInv
<1>2. messages \in Seq(MessageSet) /\ turn \in 0..MaxTurns /\ turn \in Nat
  <2>1. messages \in Seq(MessageSet) BY DEF StreamInv, Typed, TypeOK, MessageSet
  <2> QED BY <2>1, ServiceAssumption DEF StreamInv, Typed, TypeOK
<1>3. PICK n \in Nat : n = Len(messages) /\ DOMAIN messages = 1..n BY <1>2, LenProperties
<1>4. t \in Nat /\ t # 0 /\ t \in 1..turn BY <1>2
<1>5. PICK j \in 1..n : messages[j] = Prompt(t) /\ r = messages[j + 1] BY <1>3 DEF RepliesTo
<1> DEFINE answered(k) == \E u \in 1..turn : messages[k - 1] = Prompt(u) /\ RepliesIn(messages[k], u)
<1>6. \A k \in 1..n : \/ k + 1 \in 1..n /\ \E u \in 1..turn : messages[k] = Prompt(u)
                      \/ k - 1 \in 1..n /\ answered(k)
  BY <1>1, <1>3 DEF Remembered
<1>7. \A u : Prompt(u).role = "user" /\ Prompt(u).complete = FALSE
  BY DEF Prompt
<1>8. \A k \in 1..n : messages[k].role = "assistant" => k - 1 \in 1..n /\ answered(k)
  BY <1>6, <1>7
<1>9. j + 1 \in 1..n
  <2>1. ~answered(j) BY <1>5, <1>7 DEF RepliesIn
  <2> QED BY <1>5, <1>6, <2>1
<1>10. RepliesIn(r, t)
  <2>1. answered(j + 1)
    <3>1. \A u : messages[j + 1] # Prompt(u) BY <1>5, <1>7
    <3> QED BY <1>6, <1>9, <3>1
  <2>2. PICK u \in 1..turn : messages[(j + 1) - 1] = Prompt(u) /\ RepliesIn(messages[j + 1], u)
    BY <2>1
  <2>3. (j + 1) - 1 = j OBVIOUS
  <2>4. u = t BY <1>5, <2>2, <2>3, PromptsDiffer
  <2> QED BY <1>5, <2>2, <2>4
<1>11. PICK s \in Shapes : Ids(r.parts) = ReasoningOf(s, t) BY <1>10 DEF RepliesIn
<1>12. PICK ms : ms = Append(messages, Prompt(turn)) OBVIOUS
<1>13. /\ ms \in Seq(MessageSet) /\ Len(ms) = n + 1 /\ ms[n + 1] = Prompt(turn)
       /\ \A k \in 1..n : ms[k] = messages[k]
  <2>1. Prompt(turn) \in MessageSet BY <1>2, PromptType
  <2> QED BY <1>2, <1>3, <1>12, <2>1, AppendProperties
<1>14. input = openResponsesInput(ms) BY <1>1, <1>12 DEF Requested
<1>15. \A x : x \in SentReasoning(t)
          <=> x[1] = t /\ \E k \in 1..n + 1 : ms[k].role = "assistant" /\ x \in Ids(ms[k].parts)
  BY <1>4, <1>13, <1>14, InputNames
<1> HIDE DEF answered
<1>16. ASSUME NEW x \in SentReasoning(t) PROVE x \in Ids(r.parts)
  <2>1. x[1] = t BY <1>15
  <2>2. PICK k \in 1..n + 1 : ms[k].role = "assistant" /\ x \in Ids(ms[k].parts) BY <1>15
  <2>3. k \in 1..n /\ ms[k] = messages[k]
    <3>1. k # n + 1 BY <1>7, <1>13, <2>2
    <3> QED BY <1>13, <3>1
  <2>4. k - 1 \in 1..n /\ answered(k) BY <1>8, <2>2, <2>3
  <2>5. PICK u \in 1..turn : messages[k - 1] = Prompt(u) /\ RepliesIn(messages[k], u)
    BY <2>4 DEF answered
  <2>6. x \in {u} \X Nat BY <2>2, <2>3, <2>5 DEF RepliesIn
  <2>7. u = t BY <2>1, <2>6
  <2>8. k - 1 = j BY <1>1, <1>3, <1>4, <1>5, <2>4, <2>5, <2>7 DEF AskedOnce
  <2>9. k = j + 1 BY <2>3, <2>8
  <2> QED BY <1>5, <2>2, <2>3, <2>9
<1>17. ASSUME NEW x \in Ids(r.parts) PROVE x \in SentReasoning(t)
  <2>1. x[1] = t BY <1>10 DEF RepliesIn
  <2>2. j + 1 \in 1..n + 1 /\ ms[j + 1] = r BY <1>5, <1>9, <1>13
  <2>3. ms[j + 1].role = "assistant" BY <1>10, <2>2 DEF RepliesIn
  <2> QED BY <1>15, <2>1, <2>2, <2>3
<1>18. SentReasoning(t) = ReasoningOf(s, t) BY <1>11, <1>16, <1>17
<1> QED BY <1>18

(***************************************************************************)
(* Of every service that sends at most one reasoning item per response:    *)
(* a request always brings every completed reply before it with all of its *)
(* reasoning, each item under its own id (openResponsesInput), whatever    *)
(* was cut, failed or stopped in between.                                  *)
(***************************************************************************)
THEOREM PriorReasoningIsAlwaysSent ==
    ASSUME \A s \in Shapes : OneReasoning(s)
    PROVE  Spec => []PriorReasoningIsSent
<1>1. StreamInv /\ StreamInv' /\ SentInv /\ [Next]_vars => SentInv' BY SentNext
<1>2. Spec => [](StreamInv /\ SentInv) BY SentInit, StreamInvHolds, <1>1, PTL DEF Spec
<1>3. StreamInv /\ SentInv => PriorReasoningIsSent BY RequestSendsReasoning
<1> QED BY <1>2, <1>3, PTL

=============================================================================
