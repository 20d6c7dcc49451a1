--------------------------- MODULE ComposerProofs ---------------------------
(***************************************************************************)
(* The safety properties of Composer. What a page shows is compared with   *)
(* the conversation by places: the index, the role and the turn of a       *)
(* message. At any time the server has promised the page a conversation,   *)
(* the stored one and the turn that runs if the page counts it, and the    *)
(* page shows that one, or that one with the turn it posted, or would show *)
(* it again if the turn were refused.                                      *)
(***************************************************************************)
EXTENDS Composer, TranscriptProofs

(***************************************************************************)
(* Types of what the page, a turn and an abort keep.                       *)
(***************************************************************************)
PageFields ==
    [articles : SUBSET Articles, nextIndex : Nat, edit : Nat \cup {NoIndex},
     creating : Turns \cup {NoTurn},
     snapshot : {NoSnapshot} \cup [articles : SUBSET Articles, nextIndex : Nat],
     current : Turns \cup {NoTurn}, source : {"closed", "connecting", "open"},
     timer : BOOLEAN, abortRequested : BOOLEAN]

JobFields ==
    [pc : {"fresh", "posted", "lost", "refused"} \cup Registered,
     from : Nat \cup {NoIndex}, target : Turns \cup {NoTurn},
     parts : 0..MaxParts, abortRequested : BOOLEAN]

AbortStates == {"none", "sent", "waiting", "ok", "refused"}

\* What the page shows and what it may show again.
AllArticles == page.articles \cup page.snapshot.articles

(***************************************************************************)
(* Every variable has its type, and no stored prompt is empty (the page    *)
(* leaves empty messages out).                                             *)
(***************************************************************************)
Typed ==
    /\ TypeOK
    /\ page \in PageFields
    /\ job \in [Turns -> JobFields]
    /\ abort \in [Turns -> [Askers -> AbortStates]]
    /\ inStep \in BOOLEAN
    /\ \A i \in 1..Len(stored) : stored[i].role = "user" => stored[i].parts > 0

(***************************************************************************)
(* A streaming reply is of the turn the page waits for, and was not taken  *)
(* off the page by an edit.                                                *)
(***************************************************************************)
Followed ==
    /\ \A article \in page.articles :
          article.mark = "streaming" =>
              /\ article.role = "assistant"
              /\ article.turn \in Turns \cap {page.creating, page.current}
    /\ \A article \in page.snapshot.articles : article.mark # "streaming"

(***************************************************************************)
(* A verdict shown, or taken off the page by an edit, is of a turn that    *)
(* ended so; an abort is answered when its turn ended.                     *)
(***************************************************************************)
Verdicts ==
    /\ \A article \in AllArticles :
          /\ article.mark = "stopped" =>
                article.turn \in Turns /\ job[article.turn].pc \in Ended
          /\ article.mark = "complete" =>
                article.turn \in Turns /\ job[article.turn].pc = "done"
    /\ \A t \in Turns, a \in Askers :
          /\ abort[t][a] = "waiting" => job[t].pc \in Registered
          /\ abort[t][a] = "ok" => job[t].pc \in Ended

(***************************************************************************)
(* A turn the page counts was created, or is the one the page posted; what *)
(* an edit took away is of earlier turns; a turn that is stored has ended. *)
(***************************************************************************)
Known ==
    /\ \A article \in AllArticles :
          article.turn \in Turns =>
              job[article.turn].pc \in Registered \/ page.creating = article.turn
    /\ \A t \in Turns : page.creating = t =>
          \A article \in page.snapshot.articles : article.turn # t
    /\ \A i \in 1..Len(stored) :
          stored[i].turn \in Turns => job[stored[i].turn].pc \in Ended

(***************************************************************************)
(* The turn the page waits for was posted and is shown; a prompt that is   *)
(* edited is shown, and nothing else goes on; one turn runs, at an index   *)
(* that is valid. A page whose turn was created counts no other that runs. *)
(***************************************************************************)
Submitted ==
    /\ \A t \in Turns : page.creating = t =>
          /\ job[t].pc \in {"posted", "refused"} \cup Registered
          /\ \E article \in page.articles : article.turn = t
    /\ page.creating = NoTurn => page.snapshot = NoSnapshot
    /\ page.edit # NoIndex => Idle /\ \E p \in Prompts : p.index = page.edit
    /\ \A t, u \in Running : t = u
    /\ \A t \in Running : ValidReplaceFrom(stored, job[t].from)
    /\ \A t \in Turns, u \in Running :
          page.creating = t /\ job[t].pc \in Registered /\ Counted(u) => u = t

(***************************************************************************)
(* The place of a message or an article, and the places of a conversation  *)
(* after a turn that replaces from an index.                               *)
(***************************************************************************)
Place(index, role, t) == [index |-> index, role |-> role, turn |-> t]
PlaceOf(article) == Place(article.index, article.role, article.turn)
Places(msgs) == {Place(i - 1, msgs[i].role, msgs[i].turn) : i \in 1..Len(msgs)}
After(places, index, t) ==
    {place \in places : place.index < index}
        \cup {Place(index, "user", t), Place(index + 1, "assistant", t)}

(***************************************************************************)
(* The conversation the server has promised: with the turn that runs, if   *)
(* the page counts it.                                                     *)
(***************************************************************************)
Runner == CHOOSE t \in Running : TRUE
Start == KeepFor(stored, job[Runner].from)
Promised == {t \in Running : Counted(t)}
Expected == IF Promised = {} THEN Places(stored) ELSE After(Places(stored), Start, Runner)
Count == IF Promised = {} THEN Len(stored) ELSE Start + 2

(***************************************************************************)
(* A page shows a conversation: it counts as many messages, what it shows  *)
(* is there, and every prompt is shown. Empty replies may be missing.      *)
(***************************************************************************)
Shows(articles, next, places, count) ==
    /\ next = count
    /\ \A article \in articles : PlaceOf(article) \in places
    /\ \A place \in places :
          place.role = "user" => \E article \in articles : PlaceOf(article) = place

Restored(t) == {article \in page.articles : article.turn # t} \cup page.snapshot.articles
Without(t) == IF Promised \ {t} = {} THEN Places(stored) ELSE Expected
CountWithout(t) == IF Promised \ {t} = {} THEN Len(stored) ELSE Count
From(t) == IF job[t].from = NoIndex THEN Count ELSE job[t].from

(***************************************************************************)
(* What the page shows, what it shows of a turn that was posted, and what  *)
(* it would show again if that turn were refused, or its answer lost.      *)
(***************************************************************************)
PageShows == Shows(page.articles, page.nextIndex, Expected, Count)
PromptShows(t) == Shows(page.articles, page.nextIndex, After(Expected, From(t), t), From(t) + 2)
RestoredShows(t) == Shows(Restored(t), page.snapshot.nextIndex, Without(t), CountWithout(t))

(***************************************************************************)
(* While the page is in step, it shows what the server has promised, up to *)
(* the turn that is not answered yet.                                      *)
(***************************************************************************)
InPlace ==
    inStep =>
        /\ page.creating = NoTurn => PageShows
        /\ \A t \in Turns : page.creating = t =>
              /\ job[t].pc \in Registered => PageShows
              /\ job[t].pc = "posted" => PromptShows(t)
              /\ job[t].pc \notin Ended /\ job[t].from # NoIndex => RestoredShows(t)

(***************************************************************************)
(* The inductive invariant.                                                *)
(***************************************************************************)
ComposerInv ==
    /\ Typed
    /\ Followed
    /\ Verdicts
    /\ Known
    /\ Submitted
    /\ InPlace

----------------------------------------------------------------------------
(***************************************************************************)
(* What the helpers of the page return.                                    *)
(***************************************************************************)

LEMMA FinishMoves ==
    ASSUME NEW p \in PageFields
    PROVE  /\ FinishTurn(p) \in PageFields
           /\ FinishTurn(p).articles = p.articles
           /\ FinishTurn(p).snapshot = p.snapshot
           /\ FinishTurn(p).nextIndex = p.nextIndex
           /\ FinishTurn(p).edit = p.edit
           /\ FinishTurn(p).creating = NoTurn /\ FinishTurn(p).current = NoTurn
           /\ FinishTurn(p).source = "closed" /\ FinishTurn(p).timer = FALSE
           /\ FinishTurn(p).abortRequested = FALSE
BY DEF PageFields, FinishTurn

LEMMA MarkMoves ==
    ASSUME NEW p \in PageFields, NEW t \in Turns, NEW mark \in Marks, NEW filled \in BOOLEAN,
           NEW q, q = MarkReply(p, t, mark, filled)
    PROVE  /\ q \in PageFields
           /\ q = [p EXCEPT !.articles = q.articles]
           /\ \A article \in q.articles :
                 \/ article \in p.articles /\ ~IsReply(article, t)
                 \/ \E old \in p.articles :
                       /\ IsReply(old, t)
                       /\ article = Article("assistant", old.index, t, mark, filled)
           /\ \A old \in p.articles :
                 IF IsReply(old, t)
                 THEN Article("assistant", old.index, t, mark, filled) \in q.articles
                 ELSE old \in q.articles
<1> DEFINE marked == {IF IsReply(article, t)
                      THEN Article("assistant", article.index, t, mark, filled)
                      ELSE article : article \in p.articles}
<1>1. q = [p EXCEPT !.articles = marked] BY DEF MarkReply
<1>2. p.articles \subseteq Articles BY DEF PageFields
<1>3. \A old \in p.articles : Article("assistant", old.index, t, mark, filled) \in Articles
  BY <1>2 DEF Article, Articles
<1>4. marked \subseteq Articles BY <1>2, <1>3
<1>5. q \in PageFields /\ q.articles = marked
  <2> HIDE DEF marked
  <2> QED BY <1>1, <1>4 DEF PageFields
<1> QED BY <1>1, <1>5

LEMMA NotSentMoves ==
    ASSUME NEW t \in Turns, page \in PageFields
    PROVE  /\ NotSent(t) \in PageFields
           /\ NotSent(t).creating = NoTurn /\ NotSent(t).current = NoTurn
           /\ NotSent(t).source = "closed" /\ NotSent(t).timer = FALSE
           /\ NotSent(t).abortRequested = FALSE
           /\ NotSent(t).edit = page.edit
           /\ NotSent(t).snapshot = NoSnapshot
           /\ page.snapshot # NoSnapshot =>
                 /\ NotSent(t).articles = Restored(t)
                 /\ NotSent(t).nextIndex = page.snapshot.nextIndex
           /\ page.snapshot = NoSnapshot =>
                 NotSent(t).articles = {article \in page.articles : article.turn # t}
<1> DEFINE p == Discard(page, t)
           q == Restore(p)
<1>1. /\ p \in PageFields /\ p.snapshot = page.snapshot /\ p.edit = page.edit
      /\ p.articles = {article \in page.articles : article.turn # t}
  BY DEF Discard, PageFields
<1> HIDE DEF p
<1>2. CASE page.snapshot = NoSnapshot
  <2>1. q = p BY <1>1, <1>2 DEF Restore
  <2> QED BY <1>1, <1>2, <2>1, FinishMoves DEF NotSent, p
<1>3. CASE page.snapshot # NoSnapshot
  <2>1. page.snapshot.articles \subseteq Articles /\ page.snapshot.nextIndex \in Nat
    BY <1>3 DEF PageFields
  <2>2. q = [p EXCEPT !.articles = p.articles \cup p.snapshot.articles,
                      !.nextIndex = p.snapshot.nextIndex,
                      !.snapshot = NoSnapshot]
    BY <1>1, <1>3 DEF Restore
  <2>3. /\ q \in PageFields /\ q.snapshot = NoSnapshot /\ q.edit = p.edit
        /\ q.articles = p.articles \cup p.snapshot.articles
        /\ q.nextIndex = p.snapshot.nextIndex
    <3> HIDE DEF q
    <3> QED BY <1>1, <2>1, <2>2 DEF PageFields
  <2> QED BY <1>1, <1>3, <2>3, FinishMoves DEF NotSent, p, Restored
<1> QED BY <1>2, <1>3
----------------------------------------------------------------------------
(***************************************************************************)
(* What a step does to the turns.                                          *)
(***************************************************************************)

LEMMA EditedType ==
    ASSUME Typed, Submitted
    PROVE  Edited \in Turns \cup {NoTurn}
<1>1. CASE page.edit = NoIndex BY <1>1 DEF Edited
<1>2. CASE page.edit # NoIndex
  <2> DEFINE edited == CHOOSE article \in Prompts : article.index = page.edit
  <2>1. edited \in Prompts BY <1>2 DEF Submitted
  <2>2. Prompts \subseteq Articles BY DEF Prompts, Typed, TypeOK
  <2>3. edited.turn \in Turns \cup {NoTurn} BY <2>1, <2>2 DEF Articles
  <2> QED BY <1>2, <2>3 DEF Edited
<1> QED BY <1>1, <1>2

\* What a step may do to a job: it never comes back from where it got.
Advances(j, k) ==
    /\ k \in JobFields
    /\ j.pc \in Ended => k.pc = j.pc
    /\ j.pc \in Registered => k.pc \in Registered
    /\ k.pc = "fresh" => j.pc = "fresh"

LEMMA StepOnJobs ==
    ASSUME Typed, Submitted, [Next]_vars
    PROVE  /\ job' \in [Turns -> JobFields]
           /\ \A t \in Turns : Advances(job[t], job'[t])
<1>0. job \in [Turns -> JobFields] BY DEF Typed
<1>1. ASSUME NEW t \in Turns, NEW j, Advances(job[t], j), job' = [job EXCEPT ![t] = j]
      PROVE  /\ job' \in [Turns -> JobFields]
             /\ \A u \in Turns : Advances(job[u], job'[u])
  BY <1>0, <1>1 DEF Advances
<1>2. CASE job' = job BY <1>0, <1>2 DEF Advances
<1>3. ASSUME NEW t \in Turns, Submit(t)
      PROVE  \E j : Advances(job[t], j) /\ job' = [job EXCEPT ![t] = j]
  <2>1. page.edit \in Nat \cup {NoIndex} BY DEF Typed, TypeOK
  <2>2. Advances(job[t], [job[t] EXCEPT !.pc = "posted", !.from = page.edit, !.target = Edited])
    BY <1>0, <1>3, <2>1, EditedType DEF Advances, JobFields, Submit, Fresh, Ended, Registered
  <2> QED BY <2>2, <1>3 DEF Submit
<1>4. CASE Load
  <2>1. PICK lost \in SUBSET Posted :
          job' = [t \in Turns |-> IF t \in lost THEN [job[t] EXCEPT !.pc = "lost"] ELSE job[t]]
    BY <1>4 DEF Load
  <2>2. \A t \in lost : job[t].pc = "posted" BY DEF Posted
  <2> QED BY <1>0, <2>1, <2>2 DEF Advances, JobFields, Ended, Registered
<1>5. ASSUME NEW t \in Turns, CreateTurn(t)
      PROVE  \E j : Advances(job[t], j) /\ job' = [job EXCEPT ![t] = j]
  <2> DEFINE pc == IF ValidReplaceFrom(stored, job[t].from) /\ Running = {}
                   THEN "running" ELSE "refused"
  <2>1. pc \in {"running", "refused"} OBVIOUS
  <2>2. job' = [job EXCEPT ![t] = [job[t] EXCEPT !.pc = pc]] BY <1>0, <1>5 DEF CreateTurn
  <2> HIDE DEF pc
  <2>3. Advances(job[t], [job[t] EXCEPT !.pc = pc])
    BY <1>0, <1>5, <2>1 DEF Advances, JobFields, CreateTurn, Posted, Ended, Registered
  <2> QED BY <2>2, <2>3
<1>6. ASSUME NEW t \in Turns, Output(t)
      PROVE  \E j : Advances(job[t], j) /\ job' = [job EXCEPT ![t] = j]
  <2>1. job' = [job EXCEPT ![t] = [job[t] EXCEPT !.parts = job[t].parts + 1]] BY <1>0, <1>6 DEF Output
  <2>2. Advances(job[t], [job[t] EXCEPT !.parts = job[t].parts + 1])
    BY <1>0, <1>6, TranscriptAssumption DEF Advances, JobFields, Output, Running, Ended, Registered
  <2> QED BY <2>1, <2>2
<1>7. ASSUME NEW t \in Turns, TurnEnds(t)
      PROVE  \E j : Advances(job[t], j) /\ job' = [job EXCEPT ![t] = j]
  <2>1. PICK pc \in Ended :
          job' = [job EXCEPT ![t] = [NewJob EXCEPT !.pc = pc, !.parts = job[t].parts]]
    BY <1>7 DEF TurnEnds, EndWith, Ended
  <2>2. Advances(job[t], [NewJob EXCEPT !.pc = pc, !.parts = job[t].parts])
    BY <1>0, <1>7, <2>1 DEF Advances, JobFields, TurnEnds, Running, Ended, Registered, NewJob
  <2> QED BY <2>1, <2>2
<1>8. ASSUME NEW t \in Turns, NEW a \in Askers, AbortTurn(t, a)
      PROVE  \/ job' = job
             \/ \E j : Advances(job[t], j) /\ job' = [job EXCEPT ![t] = j]
  <2>1. CASE t \in Running
    <3>1. job' = [job EXCEPT ![t] = [job[t] EXCEPT !.abortRequested = TRUE]]
      BY <1>0, <1>8, <2>1 DEF AbortTurn
    <3>2. Advances(job[t], [job[t] EXCEPT !.abortRequested = TRUE])
      BY <1>0 DEF Advances, JobFields
    <3> QED BY <3>1, <3>2
  <2>2. CASE t \notin Running BY <1>8, <2>2 DEF AbortTurn
  <2> QED BY <2>1, <2>2
<1>9. ASSUME NEW t \in Turns, AnswerLost(t)
      PROVE  \/ job' = job
             \/ \E j : Advances(job[t], j) /\ job' = [job EXCEPT ![t] = j]
  <2>1. CASE job' = job BY <2>1
  <2>2. CASE job[t].pc = "posted" /\ job' = [job EXCEPT ![t].pc = "lost"]
    <3>1. job' = [job EXCEPT ![t] = [job[t] EXCEPT !.pc = "lost"]] BY <1>0, <2>2
    <3>2. Advances(job[t], [job[t] EXCEPT !.pc = "lost"])
      BY <1>0, <2>2 DEF Advances, JobFields, Ended, Registered
    <3> QED BY <3>1, <3>2
  <2> QED BY <1>9, <2>1, <2>2 DEF AnswerLost, Posted
<1> QED
  BY <1>1, <1>2, <1>3, <1>4, <1>5, <1>6, <1>7, <1>8, <1>9
  DEF Next, UserStep, ServeStep, AnswerStep, LossStep, EventStep, vars, serverVars,
      Select, Stop, AbortDone, AbortLost, Created, Refused, Open, Break, Preview,
      Terminal, TimerFires, AbortAnswered

----------------------------------------------------------------------------
(***************************************************************************)
(* What a step does to the page.                                           *)
(***************************************************************************)

PageOK(p) ==
    /\ p \in PageFields
    /\ NoTurn \in {p.creating, p.current}
    /\ (p.source = "closed") <=> (p.current = NoTurn)
    /\ (p.timer \/ p.abortRequested) => p.current # NoTurn

Pair(index, t) ==
    {Article("user", index, t, "shown", TRUE),
     Article("assistant", index + 1, t, "streaming", FALSE)}

LEMMA AddTurnMoves ==
    ASSUME NEW p \in PageFields, NEW t \in Turns, NEW index \in Nat
    PROVE  /\ AddTurn(p, t, index) = [p EXCEPT !.articles = p.articles \cup Pair(index, t),
                                               !.nextIndex = index + 2]
           /\ AddTurn(p, t, index) \in PageFields
<1>1. Pair(index, t) \subseteq Articles BY DEF Pair, Article, Articles, Marks
<1>2. AddTurn(p, t, index) = [p EXCEPT !.articles = p.articles \cup Pair(index, t),
                                       !.nextIndex = index + 2]
  BY DEF AddTurn, Pair
<1>3. p.articles \cup Pair(index, t) \subseteq Articles /\ index + 2 \in Nat
  BY <1>1 DEF PageFields
<1> DEFINE all == p.articles \cup Pair(index, t)
<1> HIDE DEF all
<1>4. [p EXCEPT !.articles = all, !.nextIndex = index + 2] \in PageFields
  BY <1>3 DEF PageFields, all
<1> QED BY <1>2, <1>4 DEF all

LEMMA SubmitMoves ==
    ASSUME Typed, NEW t \in Turns, Submit(t)
    PROVE  /\ PageOK(page')
           /\ page'.creating = t /\ page'.current = NoTurn /\ page'.edit = NoIndex
           /\ page.edit = NoIndex =>
                 /\ page'.articles = page.articles \cup Pair(page.nextIndex, t)
                 /\ page'.nextIndex = page.nextIndex + 2
                 /\ page'.snapshot = page.snapshot
           /\ page.edit # NoIndex =>
                 /\ page'.articles = {article \in page.articles : article.index < page.edit}
                                         \cup Pair(page.edit, t)
                 /\ page'.nextIndex = page.edit + 2
                 /\ page'.snapshot.articles
                      = {article \in page.articles : article.index >= page.edit}
                 /\ page'.snapshot.nextIndex = page.nextIndex
                 /\ page'.snapshot # NoSnapshot
<1>0. PageOK(page) BY DEF Typed, TypeOK, PageOK
<1> DEFINE p == [page EXCEPT !.edit = NoIndex, !.creating = t]
<1>1. /\ p \in PageFields /\ p.edit = NoIndex /\ p.creating = t
      /\ p.articles = page.articles /\ p.nextIndex = page.nextIndex
      /\ p.snapshot = page.snapshot /\ p.current = NoTurn
      /\ p.source = "closed" /\ p.timer = FALSE /\ p.abortRequested = FALSE
  BY <1>0 DEF PageOK, PageFields, Submit, Idle
<1>2. page' = IF page.edit = NoIndex
              THEN AddTurn(p, t, p.nextIndex)
              ELSE AddTurn(Truncate(p, page.edit), t, page.edit)
  BY DEF Submit
<1> HIDE DEF p
<1>3. CASE page.edit = NoIndex
  <2>1. page' = AddTurn(p, t, p.nextIndex) BY <1>2, <1>3
  <2>2. p.nextIndex \in Nat BY <1>1 DEF PageFields
  <2>3. page' = [p EXCEPT !.articles = p.articles \cup Pair(p.nextIndex, t),
                          !.nextIndex = p.nextIndex + 2] /\ page' \in PageFields
    BY <1>1, <2>1, <2>2, AddTurnMoves
  <2> QED BY <1>1, <1>3, <2>3 DEF PageOK, PageFields
<1>4. CASE page.edit # NoIndex
  <2> DEFINE removed == {article \in p.articles : article.index >= page.edit}
             q == Truncate(p, page.edit)
  <2>1. page.edit \in Nat BY <1>0, <1>4 DEF PageOK, PageFields
  <2>2. q = [p EXCEPT !.articles = p.articles \ removed,
                      !.nextIndex = page.edit,
                      !.snapshot = [articles |-> removed, nextIndex |-> p.nextIndex]]
    BY DEF Truncate
  <2>3. removed \subseteq Articles /\ p.nextIndex \in Nat BY <1>1 DEF PageFields
  <2>4. p.articles \ removed = {article \in page.articles : article.index < page.edit}
    BY <1>1, <2>1 DEF PageFields, Articles
  <2>5. NoIndex \notin Nat BY TranscriptAssumption
  <2> HIDE DEF removed, q
  <2>6. q \in PageFields BY <1>1, <2>1, <2>2, <2>3 DEF PageFields
  <2>7. page' = AddTurn(q, t, page.edit) BY <1>2, <1>4 DEF q
  <2>8. page' = [q EXCEPT !.articles = q.articles \cup Pair(page.edit, t),
                          !.nextIndex = page.edit + 2] /\ page' \in PageFields
    BY <2>1, <2>6, <2>7, AddTurnMoves
  <2>9. /\ q.articles = {article \in page.articles : article.index < page.edit}
        /\ q.snapshot = [articles |-> removed, nextIndex |-> page.nextIndex]
        /\ q.creating = t /\ q.current = NoTurn /\ q.edit = NoIndex
        /\ q.source = "closed" /\ q.timer = FALSE /\ q.abortRequested = FALSE
    BY <1>1, <2>2, <2>4 DEF PageFields
  <2>10. /\ page'.articles = q.articles \cup Pair(page.edit, t)
         /\ page'.nextIndex = page.edit + 2
         /\ page'.snapshot = q.snapshot /\ page'.creating = t /\ page'.current = NoTurn
         /\ page'.edit = NoIndex /\ page'.source = "closed"
         /\ page'.timer = FALSE /\ page'.abortRequested = FALSE
    BY <2>6, <2>8, <2>9 DEF PageFields
  <2>11. page'.snapshot # NoSnapshot BY <1>1, <2>3, <2>5, <2>9, <2>10 DEF NoSnapshot
  <2> QED BY <1>1, <1>4, <2>8, <2>9, <2>10, <2>11 DEF PageOK, removed
<1> QED BY <1>3, <1>4

LEMMA LoadedMoves ==
    ASSUME Typed
    PROVE  /\ PageOK(Loaded)
           /\ Loaded.articles = View(stored) /\ Loaded.nextIndex = Len(stored)
           /\ Loaded.creating = NoTurn /\ Loaded.current = NoTurn
           /\ Loaded.snapshot = NoSnapshot /\ Loaded.edit = NoIndex
<1>1. stored \in Seq(Message) /\ Len(stored) \in Nat BY LenProperties DEF Typed, TypeOK
<1>2. \A i \in 1..Len(stored) : stored[i] \in Message BY <1>1, ElementOfSeq
<1>3. \A i \in 1..Len(stored) :
         Article(stored[i].role, i - 1, stored[i].turn, "shown", TRUE) \in Articles
  BY <1>1, <1>2 DEF Article, Articles, Message, Marks
<1>4. View(stored) \subseteq Articles BY <1>3 DEF View, Visible
<1> QED BY <1>1, <1>4 DEF Loaded, PageOK, PageFields

\* The ways a step changes what the page shows.
Quiet ==
    /\ page'.articles = page.articles /\ page'.snapshot = page.snapshot
    /\ page'.nextIndex = page.nextIndex
    /\ page'.creating = page.creating /\ page'.current = page.current

Relabels(t) ==
    /\ page.current = t
    /\ page'.snapshot = page.snapshot /\ page'.nextIndex = page.nextIndex
    /\ page'.creating = NoTurn
    /\ \E mark \in Marks \ {"shown"}, filled \in BOOLEAN :
          /\ page'.articles = MarkReply(page, t, mark, filled).articles
          /\ mark = "streaming" => page'.current = t
          /\ mark # "streaming" => page'.current = NoTurn
          /\ mark = "stopped" => job[t].pc \in Ended
          /\ mark = "complete" => job[t].pc = "done"

Removes(t) ==
    /\ page.current = t /\ job[t].pc \in Ended
    /\ page'.articles = {article \in page.articles : ~IsReply(article, t)}
    /\ page'.snapshot = page.snapshot /\ page'.nextIndex = page.nextIndex
    /\ page'.creating = NoTurn /\ page'.current = NoTurn

Follows(t) ==
    /\ page.creating = t /\ page'.creating = NoTurn /\ page'.current = t
    /\ page'.articles = page.articles /\ page'.nextIndex = page.nextIndex
    /\ page'.snapshot = NoSnapshot
    /\ job[t].pc \in Registered

SameServer == job' = job /\ stored' = stored

Calm ==
    /\ stored' = stored /\ inStep' = inStep
    /\ \A t \in Turns : job'[t].pc = job[t].pc /\ job'[t].from = job[t].from

Selects ==
    \E index \in {article.index : article \in Prompts} \cup {NoIndex} : Select(index)

LEMMA FilledType == ASSUME NEW t PROVE Filled(t) \in BOOLEAN
BY DEF Filled

LEMMA MarkOnPage ==
    ASSUME PageOK(page), NEW t \in Turns, page.current = t,
           NEW mark \in Marks, NEW filled \in BOOLEAN
    PROVE  /\ MarkReply(page, t, mark, filled) \in PageFields
           /\ MarkReply(page, t, mark, filled).snapshot = page.snapshot
           /\ MarkReply(page, t, mark, filled).nextIndex = page.nextIndex
           /\ MarkReply(page, t, mark, filled).edit = page.edit
           /\ MarkReply(page, t, mark, filled).creating = NoTurn
           /\ MarkReply(page, t, mark, filled).current = t
           /\ MarkReply(page, t, mark, filled).source = page.source
           /\ MarkReply(page, t, mark, filled).abortRequested = page.abortRequested
<1>1. page.creating = NoTurn BY TranscriptAssumption DEF PageOK
<1>2. page \in PageFields BY DEF PageOK
<1> DEFINE q == MarkReply(page, t, mark, filled)
<1>3. q \in PageFields /\ q = [page EXCEPT !.articles = q.articles] BY <1>2, MarkMoves
<1> HIDE DEF q
<1>4. /\ q.snapshot = page.snapshot /\ q.nextIndex = page.nextIndex /\ q.edit = page.edit
      /\ q.creating = page.creating /\ q.current = page.current /\ q.source = page.source
      /\ q.abortRequested = page.abortRequested
  BY <1>2, <1>3 DEF PageFields
<1> QED BY <1>1, <1>3, <1>4 DEF q

\* A turn is left: its reply gets a last mark.
LEMMA Leaves ==
    ASSUME PageOK(page), NEW t \in Turns, page.current = t,
           NEW mark \in {"complete", "stopped", "error"}, NEW filled \in BOOLEAN,
           mark = "stopped" => job[t].pc \in Ended,
           mark = "complete" => job[t].pc = "done",
           page' = FinishTurn(MarkReply(page, t, mark, filled))
    PROVE  PageOK(page') /\ Relabels(t) /\ page'.edit = page.edit
<1> DEFINE q == MarkReply(page, t, mark, filled)
<1>1. mark \in Marks \ {"shown", "streaming"} BY DEF Marks
<1>2. /\ q \in PageFields /\ q.snapshot = page.snapshot /\ q.nextIndex = page.nextIndex
      /\ q.edit = page.edit
  BY <1>1, MarkOnPage
<1> HIDE DEF q
<1>3. page' = FinishTurn(q) BY DEF q
<1>4. PageOK(page') BY <1>2, <1>3, FinishMoves DEF PageOK
<1>5. /\ page'.articles = q.articles
      /\ page'.snapshot = page.snapshot /\ page'.nextIndex = page.nextIndex
      /\ page'.edit = page.edit /\ page'.creating = NoTurn /\ page'.current = NoTurn
  <2>1. /\ FinishTurn(q).articles = q.articles /\ FinishTurn(q).snapshot = q.snapshot
        /\ FinishTurn(q).nextIndex = q.nextIndex /\ FinishTurn(q).edit = q.edit
        /\ FinishTurn(q).creating = NoTurn /\ FinishTurn(q).current = NoTurn
    BY <1>2, FinishMoves
  <2> QED BY <1>2, <1>3, <2>1
<1>6. page'.articles = MarkReply(page, t, mark, filled).articles BY <1>5 DEF q
<1>7. mark \in Marks \ {"shown"} /\ mark # "streaming" BY <1>1
<1>8. Relabels(t) BY <1>5, <1>6, <1>7, Zenon DEF Relabels
<1> QED BY <1>4, <1>5, <1>8

LEMMA StepOnPage ==
    ASSUME Typed, Verdicts, [Next]_vars
    PROVE  /\ PageOK(page')
           /\ \/ /\ Quiet
                 /\ page'.edit = page.edit \/ Selects
                 /\ Calm \/ \E t \in Turns : CreateTurn(t) \/ TurnEnds(t)
              \/ \E t \in Turns : Submit(t)
              \/ Load /\ page' = Loaded
              \/ /\ page'.edit = page.edit
                 /\ \E t \in Turns :
                       \/ SameServer /\ inStep' = inStep /\ (Follows(t) \/ Relabels(t) \/ Removes(t))
                       \/ (Refused(t) \/ AnswerLost(t)) /\ page' = NotSent(t)
<1>0. PageOK(page) /\ page \in PageFields BY DEF Typed, TypeOK, PageOK
<1>1. ASSUME page' = page PROVE PageOK(page') /\ Quiet BY <1>0, <1>1 DEF Quiet
<1>2. ASSUME NEW index, Select(index),
             index \in {article.index : article \in Prompts} \cup {NoIndex}
      PROVE  PageOK(page') /\ Quiet
  <2>1. Prompts \subseteq Articles BY <1>0 DEF Prompts, PageFields
  <2>2. index \in Nat \cup {NoIndex} BY <1>2, <2>1 DEF Articles
  <2> QED BY <1>0, <1>2, <2>2 DEF Select, PageOK, PageFields, Quiet
<1>3. ASSUME Stop PROVE PageOK(page') /\ Quiet
  BY <1>0, <1>3 DEF Stop, PageOK, PageFields, Quiet
<1>4. CASE Load BY <1>4, LoadedMoves DEF Load
<1>5. ASSUME NEW t \in Turns, Created(t)
      PROVE  /\ PageOK(page') /\ Follows(t) /\ page'.edit = page.edit
             /\ SameServer /\ inStep' = inStep
  <2>1. page.creating = t /\ t # NoTurn /\ page.current = NoTurn /\ job[t].pc \in Registered
    BY <1>0, <1>5, TranscriptAssumption DEF Created, PageOK
  <2>2. page.abortRequested = FALSE /\ page.timer = FALSE BY <1>0, <2>1 DEF PageOK, PageFields
  <2> DEFINE a == [page EXCEPT !.creating = NoTurn, !.current = t]
             b == [a EXCEPT !.snapshot = NoSnapshot, !.abortRequested = FALSE]
             c == [b EXCEPT !.source = "connecting"]
  <2>3. /\ a \in PageFields /\ a.creating = NoTurn /\ a.current = t
        /\ a.articles = page.articles /\ a.nextIndex = page.nextIndex /\ a.edit = page.edit
        /\ a.timer = FALSE
    BY <1>0, <2>2 DEF PageFields
  <2>4. page' = c BY <1>5 DEF Created
  <2> HIDE DEF a
  <2>5. /\ b \in PageFields /\ b.creating = NoTurn /\ b.current = t
        /\ b.articles = page.articles /\ b.nextIndex = page.nextIndex /\ b.edit = page.edit
        /\ b.snapshot = NoSnapshot /\ b.timer = FALSE /\ b.abortRequested = FALSE
    BY <2>3 DEF PageFields
  <2> HIDE DEF b
  <2>6. /\ c \in PageFields /\ c.creating = NoTurn /\ c.current = t
        /\ c.articles = page.articles /\ c.nextIndex = page.nextIndex /\ c.edit = page.edit
        /\ c.snapshot = NoSnapshot /\ c.source = "connecting"
        /\ c.timer = FALSE /\ c.abortRequested = FALSE
    BY <2>5 DEF PageFields
  <2> HIDE DEF c
  <2>7. job' = job /\ stored' = stored /\ inStep' = inStep BY <1>5 DEF Created, serverVars
  <2> QED BY <2>1, <2>4, <2>6, <2>7 DEF PageOK, Follows, SameServer
<1>6. ASSUME NEW t \in Turns, Refused(t) \/ AnswerLost(t)
      PROVE  PageOK(page') /\ page' = NotSent(t) /\ page'.edit = page.edit
  <2>1. page' = NotSent(t) BY <1>6 DEF Refused, AnswerLost
  <2> QED BY <1>0, <2>1, NotSentMoves DEF PageOK
<1>7. ASSUME Open PROVE PageOK(page') /\ Quiet
  BY <1>0, <1>7 DEF Open, PageOK, PageFields, Quiet
<1>8. ASSUME Break PROVE PageOK(page') /\ Quiet
  BY <1>0, <1>8 DEF Break, PageOK, PageFields, Quiet
<1>9. ASSUME TimerFires PROVE PageOK(page') /\ Quiet
  BY <1>0, <1>9 DEF TimerFires, PageOK, PageFields, Quiet
<1>10. CASE Preview
  <2> DEFINE t == page.current
             q == MarkReply(page, t, "streaming", TRUE)
  <2>1. t \in Turns BY <1>0, <1>10 DEF Preview, PageOK, PageFields
  <2>2. "streaming" \in Marks \ {"shown"} /\ TRUE \in BOOLEAN BY DEF Marks
  <2>3. page' = [q EXCEPT !.timer = FALSE] BY <1>10 DEF Preview
  <2>4. /\ q \in PageFields /\ q.snapshot = page.snapshot /\ q.nextIndex = page.nextIndex
        /\ q.edit = page.edit /\ q.creating = NoTurn /\ q.current = t
        /\ q.source = page.source /\ q.abortRequested = page.abortRequested
    BY <1>0, <2>1, <2>2, MarkOnPage
  <2> HIDE DEF q
  <2>5. /\ page' \in PageFields /\ page'.snapshot = page.snapshot
        /\ page'.nextIndex = page.nextIndex /\ page'.edit = page.edit
        /\ page'.creating = NoTurn /\ page'.current = t /\ page'.articles = q.articles
        /\ page'.source = page.source /\ page'.abortRequested = page.abortRequested
        /\ page'.timer = FALSE
    BY <2>3, <2>4 DEF PageFields
  <2>6. PageOK(page') BY <1>0, <2>5 DEF PageOK
  <2>7. Relabels(t) BY <2>2, <2>5 DEF Relabels, q
  <2>8. SameServer /\ inStep' = inStep BY <1>10 DEF Preview, SameServer, serverVars
  <2> QED BY <2>1, <2>5, <2>6, <2>7, <2>8
<1>11. CASE Terminal
  <2> DEFINE t == page.current
  <2>1. t \in Turns BY <1>0, <1>11 DEF Terminal, PageOK, PageFields
  <2>2. SameServer /\ inStep' = inStep BY <1>11 DEF Terminal, SameServer, serverVars
  <2>3. CASE job[t].pc = "done" /\ page' = FinishTurn(ShowDone(page, t))
    <3>1. CASE job[t].parts > 0
      <4>1. page' = FinishTurn(MarkReply(page, t, "complete", TRUE))
        BY <2>3, <3>1 DEF ShowDone
      <4> QED BY <1>0, <2>1, <2>2, <2>3, <4>1, Leaves
    <3>2. CASE ~(job[t].parts > 0)
      <4> DEFINE all == {article \in page.articles : ~IsReply(article, t)}
                 q == [page EXCEPT !.articles = all]
      <4>1. page' = FinishTurn(q) BY <2>3, <3>2 DEF ShowDone
      <4>2. all \subseteq Articles BY <1>0 DEF PageFields
      <4> HIDE DEF all
      <4>3. /\ q \in PageFields /\ q.articles = all /\ q.snapshot = page.snapshot
            /\ q.nextIndex = page.nextIndex /\ q.edit = page.edit
        BY <1>0, <4>2 DEF PageFields
      <4> HIDE DEF q
      <4>4. PageOK(page') /\ page'.edit = page.edit BY <4>1, <4>3, FinishMoves DEF PageOK
      <4>5. Removes(t) BY <2>3, <4>1, <4>3, FinishMoves DEF Removes, all, Ended
      <4> QED BY <2>1, <2>2, <4>4, <4>5
    <3> QED BY <3>1, <3>2
  <2>4. CASE job[t].pc = "aborted" /\ page' = FinishTurn(MarkStopped(page, t))
    <3>1. page' = FinishTurn(MarkReply(page, t, "stopped", Filled(t)))
      BY <2>4 DEF MarkStopped
    <3>2. job[t].pc \in Ended BY <2>4 DEF Ended
    <3> QED BY <1>0, <2>1, <2>2, <3>1, <3>2, FilledType, Leaves
  <2>5. CASE job[t].pc = "stream-error" /\ page' = FinishTurn(MarkError(page, t))
    <3>1. page' = FinishTurn(MarkReply(page, t, "error", TRUE)) BY <2>5 DEF MarkError
    <3> QED BY <1>0, <2>1, <2>2, <3>1, Leaves
  <2> QED BY <1>11, <2>3, <2>4, <2>5 DEF Terminal
<1>12. ASSUME NEW t \in Turns, NEW a \in Askers, AbortAnswered(t, a), page.current = t
       PROVE  PageOK(page') /\ Relabels(t) /\ page'.edit = page.edit
  <2>1. CASE abort[t][a] = "ok"
    <3>1. page' = FinishTurn(MarkReply(page, t, "stopped", Filled(t)))
      BY <1>12, <2>1 DEF AbortAnswered, MarkStopped
    <3>2. job[t].pc \in Ended BY <1>12, <2>1 DEF Verdicts
    <3> QED BY <1>0, <1>12, <3>1, <3>2, FilledType, Leaves
  <2>2. CASE abort[t][a] # "ok"
    <3>1. page' = FinishTurn(MarkReply(page, t, "error", TRUE))
      BY <1>12, <2>2 DEF AbortAnswered, MarkError
    <3> QED BY <1>0, <1>12, <3>1, Leaves
  <2> QED BY <2>1, <2>2
<1>13. ASSUME NEW t \in Turns, NEW a \in Askers, AbortAnswered(t, a)
       PROVE  SameServer /\ inStep' = inStep /\ (page.current # t => page' = page)
  BY <1>13 DEF AbortAnswered, SameServer, serverVars
<1>14. ASSUME NEW t \in Turns, Submit(t) PROVE PageOK(page') BY <1>14, SubmitMoves
<1> DEFINE Goal == \/ /\ Quiet
                      /\ page'.edit = page.edit \/ Selects
                      /\ Calm \/ \E t \in Turns : CreateTurn(t) \/ TurnEnds(t)
                   \/ \E t \in Turns : Submit(t)
                   \/ Load /\ page' = Loaded
                   \/ /\ page'.edit = page.edit
                      /\ \E t \in Turns :
                            \/ SameServer /\ inStep' = inStep
                                 /\ (Follows(t) \/ Relabels(t) \/ Removes(t))
                            \/ (Refused(t) \/ AnswerLost(t)) /\ page' = NotSent(t)
<1>15. ASSUME page' = page, Calm \/ \E t \in Turns : CreateTurn(t) \/ TurnEnds(t)
       PROVE  PageOK(page') /\ Goal
  BY <1>0, <1>15 DEF Quiet
<1>16. ASSUME job' = job, stored' = stored, inStep' = inStep PROVE Calm BY <1>16 DEF Calm
<1>17. CASE UserStep
  <2>1. CASE Stop
    <3>1. Calm BY <1>16, <2>1 DEF Stop, serverVars
    <3> QED BY <1>3, <2>1, <3>1, <1>0 DEF Stop, PageFields, PageOK
  <2>2. ASSUME NEW index, Select(index) PROVE Calm BY <1>16, <2>2 DEF Select, serverVars
  <2> QED BY <1>2, <1>4, <1>14, <1>17, <2>1, <2>2 DEF UserStep, Selects
<1>18. ASSUME NEW t \in Turns, NEW a \in Askers, AbortAnswered(t, a) PROVE PageOK(page') /\ Goal
  <2>1. Calm BY <1>13, <1>16, <1>18 DEF SameServer
  <2> QED BY <1>12, <1>13, <1>15, <1>18, <2>1
<1>19. CASE Break \/ Open \/ TimerFires
  <2>1. page'.edit = page.edit BY <1>0, <1>19 DEF Break, Open, TimerFires, PageOK, PageFields
  <2>2. Calm BY <1>16, <1>19 DEF Break, Open, TimerFires, serverVars
  <2> QED BY <1>7, <1>8, <1>9, <1>19, <2>1, <2>2
<1>20. CASE AnswerStep BY <1>5, <1>6, <1>18, <1>20, Zenon DEF AnswerStep, Follows, SameServer, Created
<1> HIDE DEF Goal
<1>21. ASSUME NEW t \in Turns, CreateTurn(t) \/ TurnEnds(t) PROVE PageOK(page') /\ Goal
  BY <1>15, <1>21 DEF CreateTurn, TurnEnds
<1>22. ASSUME NEW t \in Turns, Output(t) PROVE PageOK(page') /\ Goal
  <2>1. /\ job' = [job EXCEPT ![t] = [job[t] EXCEPT !.parts = job[t].parts + 1]]
        /\ page' = page /\ stored' = stored /\ inStep' = inStep
    BY <1>22 DEF Output, Typed
  <2>2. Calm BY <2>1 DEF Calm, Typed, JobFields
  <2> QED BY <1>15, <2>1, <2>2
<1>23. ASSUME NEW t \in Turns, NEW a \in Askers, AbortTurn(t, a) PROVE PageOK(page') /\ Goal
  <2>1. CASE t \in Running
    <3>1. /\ job' = [job EXCEPT ![t] = [job[t] EXCEPT !.abortRequested = TRUE]]
          /\ page' = page /\ stored' = stored /\ inStep' = inStep
      BY <1>23, <2>1 DEF AbortTurn, Typed
    <3>2. Calm BY <3>1 DEF Calm, Typed, JobFields
    <3> QED BY <1>15, <3>1, <3>2
  <2>2. CASE t \notin Running
    <3>1. page' = page /\ job' = job /\ stored' = stored /\ inStep' = inStep
      BY <1>23, <2>2 DEF AbortTurn
    <3> QED BY <1>15, <1>16, <3>1
  <2> QED BY <2>1, <2>2
<1>24. ASSUME NEW t \in Turns, NEW a \in Askers, AbortDone(t, a) \/ AbortLost(t, a)
       PROVE  PageOK(page') /\ Goal
  BY <1>15, <1>16, <1>24 DEF AbortDone, AbortLost, serverVars
<1>25. CASE ServeStep \/ \E t \in Turns : Output(t) \/ TurnEnds(t)
  BY <1>21, <1>22, <1>23, <1>24, <1>25, Zenon DEF ServeStep, Goal
<1>26. CASE LossStep
  <2>1. ASSUME NEW t \in Turns, AnswerLost(t) PROVE PageOK(page') /\ Goal
    BY <1>6, <2>1 DEF Goal
  <2> QED BY <1>19, <1>24, <1>26, <2>1, Zenon DEF LossStep, Goal
<1>27. CASE EventStep BY <1>10, <1>11, <1>19, <1>27 DEF EventStep, Goal
<1>28. CASE UNCHANGED vars BY <1>15, <1>16, <1>28 DEF vars, serverVars, Goal
<1> QED
  BY <1>17, <1>19, <1>20, <1>25, <1>26, <1>27, <1>28, Zenon DEF Next

----------------------------------------------------------------------------
(***************************************************************************)
(* Each part of the invariant is kept.                                     *)
(***************************************************************************)

LEMMA ViewShown ==
    ASSUME NEW msgs
    PROVE  \A article \in View(msgs) :
              \E i \in 1..Len(msgs) :
                 /\ article = Article(msgs[i].role, i - 1, msgs[i].turn, "shown", TRUE)
                 /\ msgs[i].parts > 0
BY DEF View, Visible

\* Where the articles of a page that did not send its prompt come from.
LEMMA NotSentKeeps ==
    ASSUME NEW t \in Turns, page \in PageFields, page' = NotSent(t)
    PROVE  /\ page'.snapshot = NoSnapshot
           /\ page'.creating = NoTurn /\ page'.current = NoTurn
           /\ \A article \in page'.articles :
                 \/ article \in page.articles /\ article.turn # t
                 \/ article \in page.snapshot.articles
BY NotSentMoves DEF Restored

LEMMA FollowedStep ==
    ASSUME Typed, Followed, Verdicts, [Next]_vars
    PROVE  Followed'
<1>0. PageOK(page) /\ page \in PageFields BY DEF Typed, TypeOK, PageOK
<1>1. CASE Quiet BY <1>1 DEF Quiet, Followed
<1>2. ASSUME NEW t \in Turns, Submit(t) PROVE Followed'
  <2>1. \A article \in page.articles : article.mark # "streaming"
    BY <1>2, TranscriptAssumption DEF Submit, Idle, Followed
  <2>2. \A index \in Nat : \A article \in Pair(index, t) :
           article.mark = "streaming" => article.role = "assistant" /\ article.turn = t
    BY DEF Pair, Article
  <2>3. page.nextIndex \in Nat /\ page.edit \in Nat \cup {NoIndex} BY <1>0 DEF PageFields
  <2>4. page'.creating = t BY <1>2, SubmitMoves
  <2>5. CASE page.edit = NoIndex
    <3>1. page'.articles = page.articles \cup Pair(page.nextIndex, t) /\ page'.snapshot = page.snapshot
      BY <1>2, <2>5, SubmitMoves
    <3> QED BY <2>1, <2>2, <2>3, <2>4, <3>1 DEF Followed
  <2>6. CASE page.edit # NoIndex
    <3>1. /\ page'.articles = {article \in page.articles : article.index < page.edit}
                                 \cup Pair(page.edit, t)
          /\ page'.snapshot.articles
                = {article \in page.articles : article.index >= page.edit}
      BY <1>2, <2>6, SubmitMoves
    <3> QED BY <2>1, <2>2, <2>3, <2>4, <2>6, <3>1 DEF Followed
  <2> QED BY <2>5, <2>6
<1>3. CASE page' = Loaded
  <2>1. page'.articles = View(stored) /\ page'.snapshot.articles = {}
    BY <1>3, LoadedMoves DEF NoSnapshot
  <2>2. \A article \in View(stored) : article.mark = "shown" BY ViewShown DEF Article
  <2> QED BY <2>1, <2>2 DEF Followed
<1>4. ASSUME NEW t \in Turns, Follows(t) PROVE Followed'
  <2>1. page.current = NoTurn BY <1>0, <1>4, TranscriptAssumption DEF Follows, PageOK
  <2> QED BY <1>4, <2>1, TranscriptAssumption DEF Follows, Followed, NoSnapshot
<1>5. ASSUME NEW t \in Turns, Relabels(t) PROVE Followed'
  <2>1. PICK mark \in Marks \ {"shown"}, filled \in BOOLEAN :
          /\ page'.articles = MarkReply(page, t, mark, filled).articles
          /\ mark = "streaming" => page'.current = t
    BY <1>5 DEF Relabels
  <2>2. \A article \in page'.articles :
           \/ article \in page.articles /\ ~IsReply(article, t)
           \/ article.role = "assistant" /\ article.turn = t /\ article.mark = mark
    BY <1>0, <2>1, MarkMoves DEF Article
  <2>3. page.creating = NoTurn /\ page.current = t /\ page'.snapshot = page.snapshot
    BY <1>0, <1>5, TranscriptAssumption DEF Relabels, PageOK
  <2>4. \A article \in page'.articles : article.mark = "streaming" =>
           article.role = "assistant" /\ article.turn = t /\ mark = "streaming"
    BY <2>2, <2>3, TranscriptAssumption DEF Followed, IsReply
  <2> QED BY <2>1, <2>3, <2>4 DEF Followed
<1>6. ASSUME NEW t \in Turns, Removes(t) PROVE Followed'
  <2>1. page.creating = NoTurn /\ page.current = t /\ page'.snapshot = page.snapshot
    BY <1>0, <1>6, TranscriptAssumption DEF Removes, PageOK
  <2>2. \A article \in page'.articles : article.mark # "streaming"
    BY <1>6, <2>1, TranscriptAssumption DEF Removes, Followed, IsReply
  <2> QED BY <2>1, <2>2 DEF Followed
<1>7. ASSUME NEW t \in Turns, Refused(t) \/ AnswerLost(t), page' = NotSent(t) PROVE Followed'
  <2>1. page.creating = t /\ page.current = NoTurn
    BY <1>0, <1>7, TranscriptAssumption DEF Refused, AnswerLost, PageOK
  <2>2. \A article \in page'.articles : article.mark # "streaming"
    BY <1>0, <1>7, <2>1, NotSentKeeps, TranscriptAssumption DEF Followed
  <2>3. page'.snapshot.articles = {} BY <1>0, <1>7, NotSentKeeps DEF NoSnapshot
  <2> QED BY <2>2, <2>3 DEF Followed
<1> QED BY <1>1, <1>2, <1>3, <1>4, <1>5, <1>6, <1>7, StepOnPage

LEMMA AbortStep ==
    ASSUME Typed, Verdicts, [Next]_vars
    PROVE  /\ abort' \in [Turns -> [Askers -> AbortStates]]
           /\ \A t \in Turns, a \in Askers :
                 \/ abort'[t][a] = abort[t][a]
                 \/ abort'[t][a] \in {"none", "sent", "refused"}
                 \/ abort'[t][a] = "waiting" /\ t \in Running
                 \/ abort'[t][a] = "ok" /\ abort[t][a] = "waiting" /\ t \notin Running
<1>0. abort \in [Turns -> [Askers -> AbortStates]] BY DEF Typed
<1>1. ASSUME NEW t \in Turns, NEW a \in Askers, NEW s \in AbortStates,
             abort' = [abort EXCEPT ![t][a] = s]
      PROVE  /\ abort' \in [Turns -> [Askers -> AbortStates]]
             /\ abort'[t][a] = s
             /\ \A u \in Turns, b \in Askers : u # t \/ b # a => abort'[u][b] = abort[u][b]
  BY <1>0, <1>1
<1>2. CASE abort' = abort BY <1>0, <1>2
<1>3. CASE Stop \/ TimerFires
  <2>1. PICK t \in Turns, a \in Askers : abort' = [abort EXCEPT ![t][a] = "sent"]
    BY <1>3 DEF Stop, TimerFires, Typed, TypeOK, Askers
  <2>2. "sent" \in AbortStates BY DEF AbortStates
  <2>3. /\ abort' \in [Turns -> [Askers -> AbortStates]]
        /\ abort'[t][a] = "sent"
        /\ \A u \in Turns, b \in Askers : u # t \/ b # a => abort'[u][b] = abort[u][b]
    BY <1>1, <2>1, <2>2
  <2> QED BY <2>3
<1>4. CASE Load BY <1>4 DEF Load, AbortStates
<1>5. ASSUME NEW t \in Turns, NEW a \in Askers,
             AbortTurn(t, a) \/ AbortDone(t, a) \/ AbortLost(t, a) \/ AbortAnswered(t, a)
      PROVE  \E s \in AbortStates :
                /\ abort' = [abort EXCEPT ![t][a] = s]
                /\ \/ s \in {"none", "refused"}
                   \/ s = "waiting" /\ t \in Running
                   \/ s = "ok" /\ abort[t][a] = "waiting" /\ t \notin Running
  BY <1>5 DEF AbortTurn, AbortDone, AbortLost, AbortAnswered, AbortStates
<1>6. ASSUME NEW t \in Turns, NEW a \in Askers,
             AbortTurn(t, a) \/ AbortDone(t, a) \/ AbortLost(t, a) \/ AbortAnswered(t, a)
      PROVE  /\ abort' \in [Turns -> [Askers -> AbortStates]]
             /\ \A u \in Turns, b \in Askers :
                 \/ abort'[u][b] = abort[u][b]
                 \/ abort'[u][b] \in {"none", "sent", "refused"}
                 \/ abort'[u][b] = "waiting" /\ u \in Running
                 \/ abort'[u][b] = "ok" /\ abort[u][b] = "waiting" /\ u \notin Running
  <2>1. PICK s \in AbortStates :
                /\ abort' = [abort EXCEPT ![t][a] = s]
                /\ \/ s \in {"none", "refused"}
                   \/ s = "waiting" /\ t \in Running
                   \/ s = "ok" /\ abort[t][a] = "waiting" /\ t \notin Running
    BY <1>5, <1>6
  <2>2. /\ abort' \in [Turns -> [Askers -> AbortStates]]
        /\ abort'[t][a] = s
        /\ \A u \in Turns, b \in Askers : u # t \/ b # a => abort'[u][b] = abort[u][b]
    BY <1>1, <2>1
  <2> QED BY <2>1, <2>2
<1> QED
  BY <1>2, <1>3, <1>4, <1>6
  DEF Next, UserStep, ServeStep, AnswerStep, LossStep, EventStep, vars, serverVars,
      Select, Submit, CreateTurn, Output, TurnEnds, Created, Refused, AnswerLost,
      Open, Break, Preview, Terminal

LEMMA VerdictsStep ==
    ASSUME Typed, Verdicts, Submitted, [Next]_vars
    PROVE  Verdicts'
<1>0. PageOK(page) /\ page \in PageFields BY DEF Typed, TypeOK, PageOK
<1> DEFINE Fair(article) ==
              /\ article.mark = "stopped" =>
                    article.turn \in Turns /\ job[article.turn].pc \in Ended
              /\ article.mark = "complete" =>
                    article.turn \in Turns /\ job[article.turn].pc = "done"
           Stays(article) == article \in AllArticles \/ article.mark \notin {"stopped", "complete"}
<1>1. \A t \in Turns :
         /\ job[t].pc \in Ended => job'[t].pc = job[t].pc
         /\ job[t].pc \in Registered => job'[t].pc \in Registered
  BY StepOnJobs DEF Advances
<1>2. "done" \in Ended BY DEF Ended
<1>3. \A t \in Turns, a \in Askers :
         /\ abort'[t][a] = "waiting" => job'[t].pc \in Registered
         /\ abort'[t][a] = "ok" => job'[t].pc \in Ended
  <2> SUFFICES ASSUME NEW t \in Turns, NEW a \in Askers
               PROVE  /\ abort'[t][a] = "waiting" => job'[t].pc \in Registered
                      /\ abort'[t][a] = "ok" => job'[t].pc \in Ended
    OBVIOUS
  <2>1. t \in Running => job[t].pc \in Registered BY DEF Running, Registered
  <2>2. job[t].pc \in Registered /\ t \notin Running => job[t].pc \in Ended
    BY DEF Running, Registered
  <2>3. \/ abort'[t][a] = abort[t][a]
        \/ abort'[t][a] \in {"none", "sent", "refused"}
        \/ abort'[t][a] = "waiting" /\ t \in Running
        \/ abort'[t][a] = "ok" /\ abort[t][a] = "waiting" /\ t \notin Running
    BY AbortStep
  <2> QED BY <1>1, <2>1, <2>2, <2>3 DEF Verdicts
<1>4. (\A article \in AllArticles' :
          \/ Stays(article)
          \/ /\ article.turn \in Turns
             /\ article.mark = "stopped" => job[article.turn].pc \in Ended
             /\ article.mark = "complete" => job[article.turn].pc = "done") => Verdicts'
  BY <1>1, <1>2, <1>3 DEF Verdicts
<1>5. CASE Quiet BY <1>4, <1>5 DEF Quiet, AllArticles
<1>6. ASSUME NEW t \in Turns, Submit(t) PROVE \A article \in AllArticles' : Stays(article)
  <2>1. \A index : \A article \in Pair(index, t) : article.mark \notin {"stopped", "complete"}
    BY DEF Pair, Article
  <2>2. CASE page.edit = NoIndex BY <1>6, <2>1, <2>2, SubmitMoves DEF AllArticles
  <2>3. CASE page.edit # NoIndex BY <1>6, <2>1, <2>3, SubmitMoves DEF AllArticles
  <2> QED BY <2>2, <2>3
<1>7. CASE page' = Loaded
  <2>1. AllArticles' = View(stored) BY <1>7, LoadedMoves DEF NoSnapshot, AllArticles
  <2>2. \A article \in View(stored) : article.mark = "shown" BY ViewShown DEF Article
  <2> QED BY <1>4, <2>1, <2>2
<1>8. ASSUME NEW t \in Turns, Follows(t) PROVE \A article \in AllArticles' : Stays(article)
  BY <1>8 DEF Follows, AllArticles, NoSnapshot
<1>9. ASSUME NEW t \in Turns, Relabels(t) PROVE Verdicts'
  <2>1. PICK mark \in Marks \ {"shown"}, filled \in BOOLEAN :
          /\ page'.articles = MarkReply(page, t, mark, filled).articles
          /\ mark = "stopped" => job[t].pc \in Ended
          /\ mark = "complete" => job[t].pc = "done"
    BY <1>9 DEF Relabels
  <2>2. \A article \in page'.articles :
           article \in page.articles \/ (article.turn = t /\ article.mark = mark)
    BY <1>0, <2>1, MarkMoves DEF Article
  <2>3. page'.snapshot = page.snapshot BY <1>9 DEF Relabels
  <2> QED BY <1>4, <2>1, <2>2, <2>3 DEF AllArticles
<1>10. ASSUME NEW t \in Turns, Removes(t) PROVE \A article \in AllArticles' : Stays(article)
  BY <1>10 DEF Removes, AllArticles
<1>11. ASSUME NEW t \in Turns, page' = NotSent(t) PROVE \A article \in AllArticles' : Stays(article)
  <2>1. page'.snapshot.articles = {} BY <1>0, <1>11, NotSentKeeps DEF NoSnapshot
  <2> QED BY <1>0, <1>11, <2>1, NotSentKeeps DEF AllArticles
<1> QED BY <1>4, <1>5, <1>6, <1>7, <1>8, <1>9, <1>10, <1>11, StepOnPage

\* What a turn leaves of the messages when its reply is written.
Written(t, all) ==
    /\ all \in Seq(Message)
    /\ IsTranscript(all)
    /\ Len(all) = KeepFor(stored, job[t].from) + 2
    /\ \A i \in 1..KeepFor(stored, job[t].from) : all[i] = stored[i]
    /\ all[KeepFor(stored, job[t].from) + 1] = Prompt(t)
    /\ all[KeepFor(stored, job[t].from) + 2].role = "assistant"
    /\ all[KeepFor(stored, job[t].from) + 2].turn = t

LEMMA TurnIsWritten ==
    ASSUME Typed, Submitted, NEW t \in Turns, t \in Running,
           NEW completed \in BOOLEAN, NEW all,
           all = WithTurn(stored, job[t].from # NoIndex, KeepFor(stored, job[t].from), t,
                          Reply(t, job[t].parts, completed))
    PROVE  KeepFor(stored, job[t].from) \in 0..Len(stored) /\ Written(t, all)
<1> DEFINE replace == job[t].from # NoIndex
           keep == KeepFor(stored, job[t].from)
           reply == Reply(t, job[t].parts, completed)
<1>1. stored \in Seq(Message) /\ IsTranscript(stored) BY DEF Typed, TypeOK
<1>2. job[t].from \in Int \cup {NoIndex} /\ job[t].parts \in Nat
  BY TranscriptAssumption DEF Typed, JobFields
<1>3. ValidReplaceFrom(stored, job[t].from) BY DEF Submitted
<1>4. keep \in 0..Len(stored) /\ keep % 2 = 0 BY <1>1, <1>2, <1>3, KeptIsEven
<1>5. replace \in BOOLEAN /\ (~replace => keep = Len(stored)) BY DEF KeepFor
<1>6. reply \in Message /\ reply.role = "assistant" /\ reply.turn = t
  BY <1>2, ReplyType DEF Reply
<1> HIDE DEF replace, keep
<1>7. keep \in Nat /\ keep <= Len(stored) BY <1>4, LenProperties, <1>1
<1>8. IsTranscript(all)
  BY <1>1, <1>2, <1>4, <1>5, <1>7, WithTurnTranscript DEF replace, keep
<1> HIDE DEF reply
<1>9. all = WithTurn(stored, replace, keep, t, reply) BY DEF replace, keep, reply
<1>10. all = SubSeq(stored, 1, keep) \o <<Prompt(t), reply>>
  BY <1>1, <1>5, <1>7, <1>9, WithTurnShape
<1>11. PICK n, r : n = keep /\ r = reply OBVIOUS
<1>12. n \in 0..Len(stored) /\ r \in Message /\ all = SubSeq(stored, 1, n) \o <<Prompt(t), r>>
  BY <1>4, <1>6, <1>10, <1>11
<1>13. /\ all \in Seq(Message)
       /\ Len(all) = n + 2
       /\ \A i \in 1..n : all[i] = stored[i]
       /\ all[n + 1] = Prompt(t)
       /\ all[n + 2] = r
  BY ONLY <1>1, <1>12, t \in Turns, TurnAtEnd
<1> QED BY <1>4, <1>6, <1>8, <1>11, <1>13 DEF Written, keep

LEMMA TurnEndsMoves ==
    ASSUME Typed, Submitted, NEW t \in Turns, TurnEnds(t)
    PROVE  /\ t \in Running /\ page' = page
           /\ inStep' \in BOOLEAN /\ (inStep' => inStep)
           /\ job' = [job EXCEPT ![t] = job'[t]]
           /\ job'[t].pc \in Ended
           /\ \/ stored' = stored /\ (inStep' => ~Counted(t))
              \/ /\ KeepFor(stored, job[t].from) \in 0..Len(stored)
                 /\ Written(t, stored') /\ (inStep' => Counted(t))
<1>1. t \in Running /\ page' = page BY DEF TurnEnds
<1>2. PICK pc, msgs :
        /\ pc \in Ended /\ EndWith(t, pc, msgs)
        /\ \/ msgs = stored
           \/ \E completed \in BOOLEAN :
                 msgs = WithTurn(stored, job[t].from # NoIndex, KeepFor(stored, job[t].from), t,
                                 Reply(t, job[t].parts, completed))
  BY DEF TurnEnds, Ended
<1>3. /\ job' = [job EXCEPT ![t] = [NewJob EXCEPT !.pc = pc, !.parts = job[t].parts]]
      /\ stored' = msgs
      /\ inStep' = (inStep /\ (Counted(t) <=> msgs # stored))
  BY <1>2 DEF EndWith
<1>4. job \in [Turns -> JobFields] /\ inStep \in BOOLEAN BY DEF Typed
<1>5. job'[t].pc = pc /\ job' = [job EXCEPT ![t] = job'[t]] BY <1>3, <1>4 DEF NewJob
<1>6. CASE msgs = stored
  <2>1. stored' = stored /\ inStep' \in BOOLEAN /\ (inStep' => inStep /\ ~Counted(t))
    BY <1>3, <1>6
  <2> QED BY <1>1, <1>2, <1>5, <2>1
<1>7. CASE msgs # stored
  <2>1. KeepFor(stored, job[t].from) \in 0..Len(stored) /\ Written(t, msgs)
    BY <1>1, <1>2, <1>7, TurnIsWritten
  <2>2. inStep' \in BOOLEAN /\ (inStep' => inStep /\ Counted(t)) BY <1>3, <1>7
  <2> QED BY <1>1, <1>2, <1>3, <1>5, <2>1, <2>2
<1> QED BY <1>6, <1>7

\* What a step does to the turns that run and to the messages.
Unmoved ==
    /\ stored' = stored /\ Running' = Running
    /\ \A t \in Running : job'[t].from = job[t].from

Starts(t) ==
    /\ job[t].pc = "posted" /\ ValidReplaceFrom(stored, job[t].from) /\ Running = {}
    /\ job'[t].pc = "running" /\ job'[t].from = job[t].from
    /\ Running' = {t} /\ stored' = stored /\ inStep' = inStep

LEMMA CreateMoves ==
    ASSUME Typed, NEW t \in Turns, CreateTurn(t)
    PROVE  /\ page' = page /\ stored' = stored /\ inStep' = inStep /\ job[t].pc = "posted"
           /\ \A u \in Turns : u # t => job'[u] = job[u]
           /\ job'[t].from = job[t].from
           /\ Starts(t) \/ (Unmoved /\ job'[t].pc = "refused")
<1>0. job \in [Turns -> JobFields] BY DEF Typed
<1>1. page' = page /\ job[t].pc = "posted" /\ stored' = stored /\ inStep' = inStep
  BY DEF CreateTurn, Posted
<1>2. PICK pc : /\ job' = [job EXCEPT ![t].pc = pc]
                /\ pc = IF ValidReplaceFrom(stored, job[t].from) /\ Running = {}
                        THEN "running" ELSE "refused"
  BY DEF CreateTurn
<1>3. job'[t].pc = pc /\ job'[t].from = job[t].from BY <1>0, <1>2 DEF JobFields
<1>4. \A u \in Turns : u # t => job'[u] = job[u] BY <1>0, <1>2
<1>5. CASE ValidReplaceFrom(stored, job[t].from) /\ Running = {}
  <2>1. Running' = {t} BY <1>2, <1>3, <1>4, <1>5 DEF Running
  <2> QED BY <1>1, <1>2, <1>3, <1>4, <1>5, <2>1 DEF Starts
<1>6. CASE ~(ValidReplaceFrom(stored, job[t].from) /\ Running = {})
  <2>1. pc = "refused" BY <1>2, <1>6
  <2>2. Running' = Running BY <1>1, <1>3, <1>4, <2>1 DEF Running
  <2> QED BY <1>1, <1>3, <1>4, <2>1, <2>2 DEF Unmoved, Running
<1> QED BY <1>5, <1>6

LEMMA EndsRunning ==
    ASSUME Typed, Submitted, NEW t \in Turns, TurnEnds(t)
    PROVE  Running' = {}
<1>1. t \in Running /\ job' = [job EXCEPT ![t] = job'[t]] /\ job'[t].pc \in Ended
  BY TurnEndsMoves
<1>2. Running = {t} BY <1>1 DEF Submitted, Running
<1>3. job \in [Turns -> JobFields] BY DEF Typed
<1> QED BY <1>1, <1>2, <1>3 DEF Running, Ended

LEMMA StepOnRunning ==
    ASSUME Typed, Submitted, [Next]_vars
    PROVE  \/ Unmoved
           \/ \E t \in Turns : CreateTurn(t) /\ Starts(t)
           \/ \E t \in Turns : TurnEnds(t) /\ Running' = {}
<1>0. job \in [Turns -> JobFields] BY DEF Typed
<1>1. ASSUME NEW t \in Turns, NEW j, job' = [job EXCEPT ![t] = j],
             (j.pc = "running") <=> (job[t].pc = "running"), j.from = job[t].from, stored' = stored
      PROVE  Unmoved
  BY <1>0, <1>1 DEF Unmoved, Running
<1>2. ASSUME SameServer PROVE Unmoved BY <1>2 DEF SameServer, Unmoved, Running
<1>3. ASSUME NEW t \in Turns, Submit(t) PROVE Unmoved
  <2> DEFINE j == [job[t] EXCEPT !.pc = "posted", !.from = page.edit, !.target = Edited]
  <2>1. job' = [job EXCEPT ![t] = j] /\ stored' = stored /\ job[t].pc = "fresh"
    BY <1>3 DEF Submit, Fresh
  <2>2. j.pc = "posted" BY <1>0 DEF JobFields
  <2> HIDE DEF j
  <2> QED BY <1>0, <2>1, <2>2 DEF Unmoved, Running
<1>4. CASE Load
  <2>1. PICK lost \in SUBSET Posted :
          job' = [t \in Turns |-> IF t \in lost THEN [job[t] EXCEPT !.pc = "lost"] ELSE job[t]]
    BY <1>4 DEF Load
  <2>2. \A t \in lost : job[t].pc = "posted" BY DEF Posted
  <2>3. stored' = stored BY <1>4 DEF Load
  <2> QED BY <1>0, <2>1, <2>2, <2>3 DEF Unmoved, Running, JobFields
<1>5. ASSUME NEW t \in Turns, CreateTurn(t) PROVE Unmoved \/ Starts(t)
  BY <1>5, CreateMoves
<1>6. ASSUME NEW t \in Turns, Output(t) PROVE Unmoved
  <2>1. job' = [job EXCEPT ![t] = [job[t] EXCEPT !.parts = job[t].parts + 1]] /\ stored' = stored
    BY <1>0, <1>6 DEF Output
  <2> QED BY <1>0, <1>1, <2>1 DEF JobFields
<1>7. ASSUME NEW t \in Turns, TurnEnds(t) PROVE Running' = {} BY <1>7, EndsRunning
<1>8. ASSUME NEW t \in Turns, NEW a \in Askers, AbortTurn(t, a) PROVE Unmoved
  <2>1. CASE t \in Running
    <3>1. job' = [job EXCEPT ![t] = [job[t] EXCEPT !.abortRequested = TRUE]] /\ stored' = stored
      BY <1>0, <1>8, <2>1 DEF AbortTurn
    <3> QED BY <1>0, <1>1, <3>1 DEF JobFields
  <2>2. CASE t \notin Running
    <3>1. job' = job /\ stored' = stored BY <1>8, <2>2 DEF AbortTurn
    <3> QED BY <1>2, <3>1 DEF SameServer
  <2> QED BY <2>1, <2>2
<1>9. ASSUME NEW t \in Turns, AnswerLost(t) PROVE Unmoved
  <2>1. stored' = stored BY <1>9 DEF AnswerLost
  <2>2. CASE job' = job BY <1>2, <2>1, <2>2 DEF SameServer
  <2>3. CASE job[t].pc = "posted" /\ job' = [job EXCEPT ![t].pc = "lost"]
    <3>1. job' = [job EXCEPT ![t] = [job[t] EXCEPT !.pc = "lost"]] BY <1>0, <2>3
    <3>2. /\ [job[t] EXCEPT !.pc = "lost"].pc = "lost"
          /\ [job[t] EXCEPT !.pc = "lost"].from = job[t].from
      BY <1>0 DEF JobFields
    <3>3. PICK j : j = [job[t] EXCEPT !.pc = "lost"] OBVIOUS
    <3> QED BY <1>1, <2>1, <2>3, <3>1, <3>2, <3>3
  <2> QED BY <1>9, <2>2, <2>3 DEF AnswerLost, Posted
<1> QED
  BY <1>2, <1>3, <1>4, <1>5, <1>6, <1>7, <1>8, <1>9
  DEF Next, UserStep, ServeStep, AnswerStep, LossStep, EventStep, vars, serverVars, SameServer,
      Select, Stop, AbortDone, AbortLost, Created, Refused, Open, Break, Preview,
      Terminal, TimerFires, AbortAnswered

LEMMA TypedStep ==
    ASSUME Typed, Verdicts, Submitted, [Next]_vars
    PROVE  Typed'
<1>1. PageOK(page') BY StepOnPage
<1>2. /\ stored' \in Seq(Message) /\ IsTranscript(stored')
      /\ \A i \in 1..Len(stored') : stored'[i].role = "user" => stored'[i].parts > 0
  <2>1. CASE stored' = stored BY <2>1 DEF Typed, TypeOK
  <2>2. ASSUME NEW t \in Turns, KeepFor(stored, job[t].from) \in 0..Len(stored),
               Written(t, stored')
        PROVE  /\ stored' \in Seq(Message) /\ IsTranscript(stored')
               /\ \A i \in 1..Len(stored') : stored'[i].role = "user" => stored'[i].parts > 0
    <3> DEFINE keep == KeepFor(stored, job[t].from)
    <3>1. keep \in 0..Len(stored) /\ Len(stored) \in Nat
      BY <2>2, LenProperties DEF Typed, TypeOK
    <3> HIDE DEF keep
    <3>2. \A i \in 1..(keep + 2) : i \in 1..keep \/ i = keep + 1 \/ i = keep + 2 BY <3>1
    <3>3. \A i \in 1..keep : i \in 1..Len(stored) BY <3>1
    <3> QED BY <2>2, <3>2, <3>3 DEF Written, keep, Prompt, Typed
  <2> QED BY <2>1, <2>2, StepOnRunning, TurnEndsMoves DEF Unmoved, Starts
<1>3. inStep' \in BOOLEAN
  <2>1. inStep \in BOOLEAN BY DEF Typed
  <2>2. ASSUME NEW t \in Turns, TurnEnds(t) PROVE inStep' \in BOOLEAN BY <2>2, TurnEndsMoves
  <2>3. ASSUME NEW t \in Turns, Refused(t) \/ AnswerLost(t) PROVE inStep' \in BOOLEAN
    BY <2>1, <2>3 DEF Refused, AnswerLost
  <2>4. CASE Load BY <2>4 DEF Load
  <2> QED
    BY <2>1, <2>2, <2>3, <2>4
    DEF Next, UserStep, ServeStep, AnswerStep, LossStep, EventStep, vars, Select, Submit, Stop,
        CreateTurn, Output, AbortTurn, AbortDone, AbortLost, Created, Open, Break, Preview,
        Terminal, TimerFires, AbortAnswered
<1>4. job' \in [Turns -> JobFields] BY StepOnJobs
<1>5. abort' \in [Turns -> [Askers -> AbortStates]] BY AbortStep
<1>6. TypeOK' BY <1>1, <1>2 DEF TypeOK, PageOK, PageFields
<1> QED BY <1>1, <1>2, <1>3, <1>4, <1>5, <1>6 DEF Typed, PageOK

\* A turn not used yet is shown nowhere when the page is at rest.
LEMMA FreshIsNowhere ==
    ASSUME Known, NEW t \in Turns, Submit(t)
    PROVE  \A article \in AllArticles : article.turn # t
BY TranscriptAssumption DEF Known, Submit, Idle, Fresh, Registered, Ended

\* A mark changes no article's turn, and an empty reply is of a turn that ended.
LEMMA ReplyTurns ==
    ASSUME page \in PageFields, NEW t \in Turns, Relabels(t) \/ Removes(t)
    PROVE  /\ \A article \in page'.articles :
                 \E old \in page.articles : article.turn = old.turn
           /\ \A old \in page.articles :
                 \/ job[t].pc \in Ended /\ old.turn = t
                 \/ \E article \in page'.articles : article.turn = old.turn
<1>1. CASE Relabels(t)
  <2>1. PICK mark \in Marks \ {"shown"}, filled \in BOOLEAN :
          page'.articles = MarkReply(page, t, mark, filled).articles
    BY <1>1 DEF Relabels
  <2> DEFINE Marked(old) == Article("assistant", old.index, t, mark, filled)
  <2>2. /\ \A article \in page'.articles :
              \/ article \in page.articles
              \/ \E old \in page.articles : IsReply(old, t) /\ article = Marked(old)
        /\ \A old \in page.articles :
              (IF IsReply(old, t) THEN Marked(old) ELSE old) \in page'.articles
    BY <2>1, MarkMoves
  <2>3. \A old : IsReply(old, t) => Marked(old).turn = old.turn BY DEF IsReply, Article
  <2> HIDE DEF Marked
  <2> QED BY <2>2, <2>3
<1>2. CASE Removes(t) BY <1>2 DEF Removes, IsReply
<1> QED BY <1>1, <1>2

LEMMA KnownStep ==
    ASSUME Typed, Verdicts, Submitted, Known, [Next]_vars
    PROVE  Known'
<1>0. PageOK(page) /\ page \in PageFields BY DEF Typed, TypeOK, PageOK
<1> DEFINE Registers(u) == u \in Turns => job'[u].pc \in Registered
           Clean(t) == \A article \in page'.snapshot.articles : article.turn # t
<1>1. \A t \in Turns :
         /\ job[t].pc \in Ended => job'[t].pc = job[t].pc
         /\ job[t].pc \in Registered => job'[t].pc \in Registered
  BY StepOnJobs DEF Advances
<1>2. \A i \in 1..Len(stored') :
         stored'[i].turn \in Turns => job'[stored'[i].turn].pc \in Ended
  <2>1. CASE stored' = stored BY <1>1, <2>1 DEF Known
  <2>2. ASSUME NEW t \in Turns, TurnEnds(t), Written(t, stored'),
               KeepFor(stored, job[t].from) \in 0..Len(stored)
        PROVE  \A i \in 1..Len(stored') :
                  stored'[i].turn \in Turns => job'[stored'[i].turn].pc \in Ended
    <3> DEFINE keep == KeepFor(stored, job[t].from)
    <3>1. keep \in 0..Len(stored) /\ Len(stored) \in Nat
      BY <2>2, LenProperties DEF Typed, TypeOK
    <3> HIDE DEF keep
    <3>2. \A i \in 1..(keep + 2) : i \in 1..keep \/ i = keep + 1 \/ i = keep + 2 BY <3>1
    <3>3. \A i \in 1..keep : i \in 1..Len(stored) BY <3>1
    <3>4. job'[t].pc \in Ended BY <2>2, TurnEndsMoves
    <3>5. \A i \in 1..keep : stored'[i] = stored[i] BY <2>2 DEF Written, keep
    <3>6. \A i \in 1..keep : stored'[i].turn \in Turns => job'[stored'[i].turn].pc \in Ended
      BY <1>1, <3>3, <3>5 DEF Known
    <3>7. /\ Len(stored') = keep + 2
          /\ stored'[keep + 1].turn = t /\ stored'[keep + 2].turn = t
      BY <2>2 DEF Written, keep, Prompt
    <3> QED BY <3>2, <3>4, <3>6, <3>7
  <2> QED BY <2>1, <2>2, StepOnRunning, TurnEndsMoves DEF Unmoved, Starts
<1>3. ASSUME \A article \in AllArticles' : Registers(article.turn) \/ page'.creating = article.turn,
             \A t \in Turns : page'.creating = t => Clean(t)
      PROVE  Known'
  BY <1>2, <1>3 DEF Known
<1>4. ASSUME \A article \in AllArticles' : Registers(article.turn), page'.creating = NoTurn
      PROVE  Known'
  BY <1>3, <1>4, TranscriptAssumption
<1>5. CASE Quiet
  <2>1. AllArticles' = AllArticles /\ page'.creating = page.creating
        /\ page'.snapshot = page.snapshot
    BY <1>5 DEF Quiet, AllArticles
  <2> QED BY <1>1, <1>3, <2>1 DEF Known
<1>6. ASSUME NEW t \in Turns, Submit(t) PROVE Known'
  <2>1. \A article \in AllArticles : article.turn # t BY <1>6, FreshIsNowhere
  <2>2. \A article \in AllArticles : Registers(article.turn)
    BY <1>1, <1>6, TranscriptAssumption DEF Submit, Idle, Known
  <2>3. \A index : \A article \in Pair(index, t) : article.turn = t BY DEF Pair, Article
  <2>4. page'.creating = t BY <1>6, SubmitMoves
  <2>5. CASE page.edit = NoIndex
    <3>1. /\ page'.articles = page.articles \cup Pair(page.nextIndex, t)
          /\ page'.snapshot = page.snapshot
      BY <1>6, <2>5, SubmitMoves
    <3> QED BY <1>3, <2>1, <2>2, <2>3, <2>4, <3>1 DEF AllArticles
  <2>6. CASE page.edit # NoIndex
    <3>1. /\ page'.articles = {article \in page.articles : article.index < page.edit}
                                 \cup Pair(page.edit, t)
          /\ page'.snapshot.articles = {article \in page.articles : article.index >= page.edit}
      BY <1>6, <2>6, SubmitMoves
    <3> QED BY <1>3, <2>1, <2>2, <2>3, <2>4, <3>1 DEF AllArticles
  <2> QED BY <2>5, <2>6
<1>7. CASE page' = Loaded
  <2>1. AllArticles' = View(stored) /\ page'.creating = NoTurn
    BY <1>7, LoadedMoves DEF NoSnapshot, AllArticles
  <2>2. \A article \in View(stored) : article.turn \in Turns => job[article.turn].pc \in Ended
    BY ViewShown DEF Article, Known
  <2> QED BY <1>1, <1>4, <2>1, <2>2 DEF Registered
<1>8. ASSUME NEW t \in Turns, Follows(t) PROVE Known'
  <2>1. AllArticles' \subseteq AllArticles BY <1>8 DEF Follows, AllArticles, NoSnapshot
  <2>2. job[t].pc \in Registered /\ page.creating = t /\ page'.creating = NoTurn
    BY <1>8 DEF Follows
  <2> QED BY <1>1, <1>4, <2>1, <2>2 DEF Known
<1>9. ASSUME page.creating = NoTurn, page'.creating = NoTurn,
             \A article \in AllArticles' : \E old \in AllArticles : article.turn = old.turn
      PROVE  Known'
  BY <1>1, <1>4, <1>9, TranscriptAssumption DEF Known
<1>10. ASSUME NEW t \in Turns, Relabels(t) \/ Removes(t) PROVE Known'
  <2>1. \A article \in page'.articles : \E old \in page.articles : article.turn = old.turn
    BY <1>0, <1>10, ReplyTurns
  <2>2. page'.snapshot = page.snapshot /\ page'.creating = NoTurn /\ page.creating = NoTurn
    BY <1>0, <1>10, TranscriptAssumption DEF Relabels, Removes, PageOK
  <2> QED BY <1>9, <2>1, <2>2 DEF AllArticles
<1>11. ASSUME NEW t \in Turns, Refused(t) \/ AnswerLost(t), page' = NotSent(t) PROVE Known'
  <2>1. page.creating = t BY <1>11 DEF Refused, AnswerLost
  <2>2. page'.creating = NoTurn /\ page'.snapshot.articles = {}
    BY <1>0, <1>11, NotSentKeeps DEF NoSnapshot
  <2>3. \A article \in AllArticles' : article \in AllArticles /\ article.turn # t
    BY <1>0, <1>11, <2>1, <2>2, NotSentKeeps DEF AllArticles, Known
  <2> QED BY <1>1, <1>4, <2>1, <2>2, <2>3 DEF Known
<1> QED BY <1>5, <1>6, <1>7, <1>8, <1>10, <1>11, StepOnPage

\* The turn whose answer the page waits for.
TurnIsShown ==
    /\ \A t \in Turns : page.creating = t =>
          /\ job[t].pc \in {"posted", "refused"} \cup Registered
          /\ \E article \in page.articles : article.turn = t
    /\ page.creating = NoTurn => page.snapshot = NoSnapshot

LEMMA AwaitedStep ==
    ASSUME Typed, Verdicts, Submitted, [Next]_vars
    PROVE  TurnIsShown'
<1>0. PageOK(page) /\ page \in PageFields /\ job \in [Turns -> JobFields]
  BY DEF Typed, TypeOK, PageOK
<1>1. TurnIsShown BY DEF TurnIsShown, Submitted
<1>2. CASE Quiet /\ Calm
  <2>1. \A t \in Turns : job'[t].pc = job[t].pc BY <1>2 DEF Calm
  <2> QED BY <1>1, <1>2, <2>1 DEF TurnIsShown, Quiet
<1>3. ASSUME NEW t \in Turns, CreateTurn(t) PROVE TurnIsShown'
  <2>1. job'[t].pc \in {"refused", "running"} /\ page' = page
        /\ \A u \in Turns : u # t => job'[u] = job[u]
    BY <1>3, CreateMoves DEF Starts
  <2>2. \A u \in Turns : page'.creating = u => job'[u].pc \in {"posted", "refused"} \cup Registered
    BY <1>1, <2>1 DEF TurnIsShown, Registered
  <2> QED BY <1>1, <2>1, <2>2 DEF TurnIsShown
<1>4. ASSUME NEW t \in Turns, TurnEnds(t) PROVE TurnIsShown'
  <2>1. page' = page /\ job' = [job EXCEPT ![t] = job'[t]] /\ job'[t].pc \in Ended
    BY <1>4, TurnEndsMoves
  <2>2. \A u \in Turns : page'.creating = u => job'[u].pc \in {"posted", "refused"} \cup Registered
    BY <1>0, <1>1, <2>1 DEF TurnIsShown, Registered
  <2> QED BY <1>1, <2>1, <2>2 DEF TurnIsShown
<1>5. ASSUME NEW t \in Turns, Submit(t) PROVE TurnIsShown'
  <2>1. page'.creating = t /\ t # NoTurn BY <1>5, SubmitMoves, TranscriptAssumption
  <2>2. job'[t].pc = "posted" BY <1>0, <1>5 DEF Submit, JobFields
  <2>3. \A index : \E article \in Pair(index, t) : article.turn = t BY DEF Pair, Article
  <2>4. \E index : Pair(index, t) \subseteq page'.articles BY <1>5, SubmitMoves
  <2>5. \E article \in page'.articles : article.turn = t BY <2>3, <2>4
  <2> QED BY <2>1, <2>2, <2>5 DEF TurnIsShown
<1>6. ASSUME page'.creating = NoTurn, page'.snapshot = NoSnapshot PROVE TurnIsShown'
  BY <1>6, TranscriptAssumption DEF TurnIsShown
<1>7. CASE page' = Loaded BY <1>6, <1>7, LoadedMoves
<1>8. ASSUME NEW t \in Turns, Follows(t) PROVE TurnIsShown' BY <1>6, <1>8 DEF Follows
<1>9. ASSUME NEW t \in Turns, Relabels(t) \/ Removes(t) PROVE TurnIsShown'
  <2>1. page.creating = NoTurn /\ page'.creating = NoTurn /\ page'.snapshot = page.snapshot
    BY <1>0, <1>9, TranscriptAssumption DEF Relabels, Removes, PageOK
  <2> QED BY <1>1, <1>6, <2>1 DEF TurnIsShown
<1>10. ASSUME NEW t \in Turns, page' = NotSent(t) PROVE TurnIsShown'
  BY <1>0, <1>6, <1>10, NotSentKeeps
<1> QED
  BY <1>2, <1>3, <1>4, <1>5, <1>7, <1>8, <1>9, <1>10, StepOnPage

LEMMA SubmittedStep ==
    ASSUME Typed, Verdicts, Known, Submitted, [Next]_vars
    PROVE  Submitted'
<1>0. PageOK(page) /\ page \in PageFields BY DEF Typed, TypeOK, PageOK
<1>1. TurnIsShown' BY AwaitedStep
<1>2. /\ \A t, u \in Running' : t = u
      /\ \A t \in Running' : ValidReplaceFrom(stored', job'[t].from)
  <2>1. CASE Unmoved BY <2>1 DEF Unmoved, Submitted
  <2>2. ASSUME NEW t \in Turns, Starts(t)
        PROVE  /\ \A v, w \in Running' : v = w
               /\ \A v \in Running' : ValidReplaceFrom(stored', job'[v].from)
    BY <2>2 DEF Starts
  <2>3. CASE Running' = {} BY <2>3
  <2> QED BY <2>1, <2>2, <2>3, StepOnRunning
<1>3. page'.edit # NoIndex => Idle' /\ \E p \in Prompts' : p.index = page'.edit
  <2>1. CASE Quiet /\ page'.edit = page.edit
    BY <2>1 DEF Quiet, Submitted, Idle, Prompts
  <2>2. CASE Selects /\ Quiet
    <3>1. PICK index \in {article.index : article \in Prompts} \cup {NoIndex} : Select(index)
      BY <2>2 DEF Selects
    <3>2. Idle /\ page'.edit = index BY <1>0, <3>1 DEF Select, PageFields
    <3> QED BY <2>2, <3>1, <3>2 DEF Quiet, Idle, Prompts
  <2>3. ASSUME NEW t \in Turns, Submit(t) PROVE page'.edit = NoIndex BY <2>3, SubmitMoves
  <2>4. CASE page' = Loaded BY <2>4, LoadedMoves
  <2>5. ASSUME NEW t \in Turns, page'.edit = page.edit,
               page.creating = t \/ page.current = t
        PROVE  page'.edit = NoIndex
    BY <2>5, TranscriptAssumption DEF Submitted, Idle
  <2> QED
    BY <2>1, <2>2, <2>3, <2>4, <2>5, StepOnPage
    DEF Follows, Relabels, Removes, Refused, AnswerLost
<1>4. ASSUME NEW t \in Turns, NEW u \in Running', page'.creating = t,
             job'[t].pc \in Registered, Counted(u)'
      PROVE  u = t
  <2>1. t # NoTurn BY TranscriptAssumption
  <2>2. ASSUME page'.articles = page.articles, page'.snapshot = page.snapshot
        PROVE  Counted(u)
    BY <1>4, <2>2 DEF Counted
  <2>3. CASE Quiet /\ Calm
    <3>1. u \in Running /\ job[t].pc \in Registered BY <1>4, <2>3 DEF Calm, Running
    <3> QED BY <1>4, <2>2, <2>3, <3>1 DEF Submitted, Quiet
  <2>4. ASSUME NEW v \in Turns, CreateTurn(v) PROVE u = t
    <3>1. page' = page /\ job[v].pc = "posted" /\ \A w \in Turns : w # v => job'[w] = job[w]
      BY <2>4, CreateMoves
    <3>2. CASE Starts(v)
      <4>1. u = v BY <3>2 DEF Starts
      <4>2. \E article \in AllArticles : article.turn = v
        BY <2>2, <3>1, <4>1 DEF Counted, AllArticles
      <4>3. page.creating = v BY <3>1, <4>2 DEF Known, Registered, Ended
      <4> QED BY <1>4, <3>1, <4>1, <4>3
    <3>3. CASE Unmoved /\ job'[v].pc = "refused"
      <4>1. t # v BY <1>4, <3>3 DEF Registered, Ended
      <4>2. job[t].pc \in Registered /\ u \in Running BY <1>4, <3>1, <3>3, <4>1 DEF Unmoved
      <4> QED BY <1>4, <2>2, <3>1, <4>2 DEF Submitted
    <3> QED BY <2>4, <3>2, <3>3, CreateMoves
  <2>5. ASSUME NEW v \in Turns, TurnEnds(v) PROVE FALSE BY <2>5, EndsRunning
  <2>6. ASSUME NEW v \in Turns, Submit(v) PROVE FALSE
    <3>1. job'[v].pc = "posted" BY <2>6 DEF Submit, Typed, JobFields
    <3>2. v = t BY <1>4, <2>6, SubmitMoves
    <3> QED BY <1>4, <3>1, <3>2 DEF Registered, Ended
  <2>7. CASE page' = Loaded BY <1>4, <2>1, <2>7, LoadedMoves
  <2>8. ASSUME NEW v \in Turns, Follows(v) \/ Relabels(v) \/ Removes(v) PROVE FALSE
    BY <1>4, <2>1, <2>8 DEF Follows, Relabels, Removes
  <2>9. ASSUME NEW v \in Turns, page' = NotSent(v) PROVE FALSE
    BY <1>0, <1>4, <2>1, <2>9, NotSentKeeps
  <2> QED BY <2>3, <2>4, <2>5, <2>6, <2>7, <2>8, <2>9, StepOnPage
<1> QED BY <1>1, <1>2, <1>3, <1>4 DEF Submitted, TurnIsShown

LEMMA PlacesBound ==
    ASSUME NEW msgs \in Seq(Message)
    PROVE  \A place \in Places(msgs) :
              place.index \in Nat /\ place.index < Len(msgs)
<1>1. Len(msgs) \in Nat BY LenProperties
<1> QED BY <1>1 DEF Places, Place

\* The turn that is promised starts where the messages it keeps end.
LEMMA StartBound ==
    ASSUME Typed, Submitted, Promised # {}
    PROVE  /\ Runner \in Running /\ Running = {Runner} /\ Promised = {Runner}
           /\ Start \in 0..Len(stored)
<1>1. Runner \in Running BY DEF Runner, Promised
<1>2. Running = {Runner} /\ Promised = {Runner} BY <1>1 DEF Submitted, Promised
<1>3. ValidReplaceFrom(stored, job[Runner].from) BY <1>1 DEF Submitted
<1>4. Len(stored) \in Nat BY LenProperties DEF Typed, TypeOK
<1>5. Start \in 0..Len(stored) BY <1>3, <1>4 DEF Start, KeepFor, ValidReplaceFrom
<1> QED BY <1>1, <1>2, <1>5

LEMMA ExpectedBound ==
    ASSUME Typed, Submitted
    PROVE  /\ Count \in Nat
           /\ \A place \in Expected : place.index \in Nat /\ place.index < Count
<1>1. stored \in Seq(Message) /\ Len(stored) \in Nat BY LenProperties DEF Typed, TypeOK
<1>2. CASE Promised = {} BY <1>1, <1>2, PlacesBound DEF Expected, Count
<1>3. CASE Promised # {}
  <2>1. Start \in Nat BY <1>1, <1>3, StartBound
  <2>2. \A place \in Places(stored) : place.index \in Nat BY <1>1, PlacesBound
  <2>3. Expected = After(Places(stored), Start, Runner) /\ Count = Start + 2
    BY <1>3 DEF Expected, Count
  <2>4. \A place \in After(Places(stored), Start, Runner) :
           place.index \in Nat /\ place.index < Start + 2
    <3>1. \A place : place \in Places(stored) /\ place.index < Start
             => place.index \in Nat /\ place.index < Start + 2
      BY <2>1, <2>2
    <3>2. \A role, t : Place(Start, role, t).index = Start /\ Place(Start + 1, role, t).index = Start + 1
      BY DEF Place
    <3> QED BY <2>1, <3>1, <3>2 DEF After
  <2> QED BY <2>1, <2>3, <2>4
<1> QED BY <1>2, <1>3

\* The page counts a turn less, or the same ones: nothing else changes.
LEMMA UnmovedExpected ==
    ASSUME Unmoved, NEW t, Promised' = Promised \ {t}
    PROVE  Expected' = Without(t) /\ Count' = CountWithout(t)
<1>1. stored' = stored /\ Running' = Running BY DEF Unmoved
<1>2. Runner' = Runner BY <1>1 DEF Runner
<1>3. Promised # {} => Runner \in Running BY DEF Runner, Promised
<1>4. Promised # {} => Start' = Start BY <1>1, <1>2, <1>3 DEF Unmoved, Start
<1>5. CASE Promised \ {t} = {} BY <1>1, <1>5 DEF Expected, Count, Without, CountWithout
<1>6. CASE Promised \ {t} # {}
  BY <1>1, <1>2, <1>4, <1>6 DEF Expected, Count, Without, CountWithout
<1> QED BY <1>5, <1>6

\* The promises stay as they are.
Keeps ==
    /\ Expected' = Expected /\ Count' = Count
    /\ \A t \in Turns : Without(t)' = Without(t) /\ CountWithout(t)' = CountWithout(t)

LEMMA SamePromises ==
    ASSUME Unmoved, Promised' = Promised
    PROVE  Keeps
<1>1. NoTurn \notin Promised BY TranscriptAssumption DEF Promised, Running
<1>2. Promised' = Promised \ {NoTurn} BY <1>1
<1>3. Expected' = Without(NoTurn) /\ Count' = CountWithout(NoTurn) BY <1>2, UnmovedExpected
<1>4. Without(NoTurn) = Expected /\ CountWithout(NoTurn) = Count
  BY <1>1 DEF Without, CountWithout, Expected, Count
<1>5. stored' = stored BY DEF Unmoved
<1> QED BY <1>3, <1>4, <1>5 DEF Keeps, Without, CountWithout

\* What runs is not promised, before or after.
LEMMA NothingPromised ==
    ASSUME Promised = {}, Promised' = {}, stored' = stored
    PROVE  Keeps
BY DEF Keeps, Expected, Count, Without, CountWithout

LEMMA StartsExpected ==
    ASSUME Typed, NEW t \in Turns, Starts(t), Counted(t)'
    PROVE  /\ Expected' = After(Expected, From(t), t) /\ Count' = From(t) + 2
           /\ Without(t)' = Without(t) /\ CountWithout(t)' = CountWithout(t)
<1>1. /\ Running = {} /\ Running' = {t} /\ stored' = stored
      /\ job'[t].from = job[t].from
  BY DEF Starts
<1>2. Promised = {} /\ Promised' = {t} BY <1>1 DEF Promised
<1>3. Expected = Places(stored) /\ Count = Len(stored) BY <1>2 DEF Expected, Count
<1>4. Runner' = t BY <1>1 DEF Runner
<1>5. Start' = From(t) BY <1>1, <1>3, <1>4 DEF Start, From, KeepFor
<1>6. Expected' = After(Expected, From(t), t) /\ Count' = From(t) + 2
  BY <1>1, <1>2, <1>3, <1>4, <1>5 DEF Expected, Count
<1> QED BY <1>1, <1>2, <1>6 DEF Without, CountWithout

\* What is written is what was expected of the turn.
LEMMA EndsExpected ==
    ASSUME Typed, Submitted, NEW t \in Turns, t \in Running, Running' = {},
           KeepFor(stored, job[t].from) \in 0..Len(stored), Written(t, stored'), Counted(t)
    PROVE  Expected' = Expected /\ Count' = Count
<1> DEFINE k == KeepFor(stored, job[t].from)
<1>1. Running = {t} /\ Promised = {t} /\ Promised' = {} BY DEF Submitted, Promised
<1>2. Runner = t BY <1>1 DEF Runner
<1>3. Expected = After(Places(stored), k, t) /\ Count = k + 2
  BY <1>1, <1>2 DEF Expected, Count, Start
<1>4. k \in 0..Len(stored) /\ Len(stored) \in Nat
  BY LenProperties DEF Typed, TypeOK
<1>5. /\ Len(stored') = k + 2 /\ \A i \in 1..k : stored'[i] = stored[i]
      /\ stored'[k + 1] = Prompt(t)
      /\ stored'[k + 2].role = "assistant" /\ stored'[k + 2].turn = t
  BY DEF Written
<1>6. Expected' = Places(stored') /\ Count' = Len(stored') BY <1>1 DEF Expected, Count
<1> HIDE DEF k
<1>7. PICK n, all : n = k /\ all = stored' OBVIOUS
<1>8. Places(all) = After(Places(stored), n, t)
  <2>0. /\ n \in 0..Len(stored) /\ Len(all) = n + 2 /\ \A i \in 1..n : all[i] = stored[i]
        /\ all[n + 1].role = "user" /\ all[n + 1].turn = t
        /\ all[n + 2].role = "assistant" /\ all[n + 2].turn = t
    BY <1>4, <1>5, <1>7 DEF Prompt
  <2>1. ASSUME NEW i \in 1..(n + 2)
        PROVE  Place(i - 1, all[i].role, all[i].turn) \in After(Places(stored), n, t)
    <3>1. CASE i \in 1..n
      <4>1. i \in 1..Len(stored) /\ all[i] = stored[i] BY <1>4, <2>0, <3>1
      <4>2. Place(i - 1, all[i].role, all[i].turn) \in Places(stored) BY <4>1 DEF Places
      <4>3. i - 1 < n BY <2>0, <3>1
      <4> QED BY <4>2, <4>3 DEF After, Place
    <3>2. CASE i = n + 1
      <4>1. i - 1 = n BY <2>0, <3>2
      <4> QED BY <2>0, <3>2, <4>1 DEF After
    <3>3. CASE i = n + 2
      <4>1. i - 1 = n + 1 BY <2>0, <3>3
      <4> QED BY <2>0, <3>3, <4>1 DEF After
    <3> QED BY <2>0, <3>1, <3>2, <3>3
  <2>2. ASSUME NEW place \in After(Places(stored), n, t) PROVE place \in Places(all)
    <3>1. CASE place \in Places(stored) /\ place.index < n
      <4>1. PICK i \in 1..Len(stored) : place = Place(i - 1, stored[i].role, stored[i].turn)
        BY <3>1 DEF Places
      <4>2. i - 1 < n BY <3>1, <4>1 DEF Place
      <4>3. i \in 1..n /\ i \in 1..Len(all) BY <1>4, <2>0, <4>2
      <4>4. place = Place(i - 1, all[i].role, all[i].turn) BY <2>0, <4>1, <4>3
      <4> QED BY <4>3, <4>4 DEF Places
    <3>2. CASE place = Place(n, "user", t)
      <4>1. n + 1 \in 1..Len(all) /\ (n + 1) - 1 = n BY <2>0
      <4> QED BY <2>0, <3>2, <4>1 DEF Places
    <3>3. CASE place = Place(n + 1, "assistant", t)
      <4>1. n + 2 \in 1..Len(all) /\ (n + 2) - 1 = n + 1 BY <2>0
      <4> QED BY <2>0, <3>3, <4>1 DEF Places
    <3> QED BY <3>1, <3>2, <3>3 DEF After
  <2>3. Places(all) \subseteq After(Places(stored), n, t) BY <2>0, <2>1 DEF Places
  <2> QED BY <2>2, <2>3
<1>9. Places(stored') = After(Places(stored), k, t) BY <1>7, <1>8
<1> QED BY <1>3, <1>5, <1>6, <1>9

LEMMA ViewShows ==
    ASSUME Typed
    PROVE  Shows(View(stored), Len(stored), Places(stored), Len(stored))
<1>1. ASSUME NEW article \in View(stored) PROVE PlaceOf(article) \in Places(stored)
  <2>1. PICK i \in 1..Len(stored) :
          article = Article(stored[i].role, i - 1, stored[i].turn, "shown", TRUE)
    BY ViewShown
  <2>2. PlaceOf(article) = Place(i - 1, stored[i].role, stored[i].turn)
    BY <2>1 DEF PlaceOf, Article
  <2> QED BY <2>2 DEF Places
<1>2. ASSUME NEW place \in Places(stored), place.role = "user"
      PROVE  \E article \in View(stored) : PlaceOf(article) = place
  <2>1. PICK i \in 1..Len(stored) : place = Place(i - 1, stored[i].role, stored[i].turn)
    BY DEF Places
  <2>2. stored[i].role = "user" BY <1>2, <2>1 DEF Place
  <2>3. i \in Visible(stored) BY <2>2 DEF Visible, Typed
  <2> DEFINE article == Article(stored[i].role, i - 1, stored[i].turn, "shown", TRUE)
  <2>4. article \in View(stored) BY <2>3 DEF View
  <2>5. PlaceOf(article) = place BY <2>1 DEF PlaceOf, Article
  <2> QED BY <2>4, <2>5
<1> QED BY <1>1, <1>2 DEF Shows

\* What an append or an edit does to the page is what the turn will do to
\* the conversation.
LEMMA PairShows ==
    ASSUME NEW articles \in SUBSET Articles, NEW next, NEW places, NEW count,
           Shows(articles, next, places, count),
           NEW index \in Nat, NEW t \in Turns
    PROVE  Shows({article \in articles : article.index < index} \cup Pair(index, t), index + 2,
                 After(places, index, t), index + 2)
<1> DEFINE kept == {article \in articles : article.index < index}
           prompt == Article("user", index, t, "shown", TRUE)
           reply == Article("assistant", index + 1, t, "streaming", FALSE)
           after == After(places, index, t)
<1>1. PlaceOf(prompt) = Place(index, "user", t) /\ PlaceOf(reply) = Place(index + 1, "assistant", t)
  BY DEF PlaceOf, Article
<1>2. Place(index, "user", t) \in after /\ Place(index + 1, "assistant", t) \in after
  BY DEF After
<1>3. \A article \in kept : PlaceOf(article) \in after
  BY DEF Shows, After, PlaceOf, Place
<1>4. Pair(index, t) = {prompt, reply} BY DEF Pair
<1>5. ASSUME NEW place \in after, place.role = "user"
      PROVE  \E article \in kept \cup {prompt, reply} : PlaceOf(article) = place
  <2>1. CASE place \in places /\ place.index < index
    <3>1. PICK article \in articles : PlaceOf(article) = place BY <1>5, <2>1 DEF Shows
    <3>2. article.index < index BY <2>1, <3>1 DEF PlaceOf, Place
    <3> QED BY <3>1, <3>2
  <2>2. CASE place = Place(index, "user", t) BY <1>1, <2>2
  <2>3. CASE place = Place(index + 1, "assistant", t) BY <1>5, <2>3 DEF Place
  <2> QED BY <2>1, <2>2, <2>3 DEF After
<1> HIDE DEF kept, prompt, reply, after
<1>6. Shows(kept \cup {prompt, reply}, index + 2, after, index + 2)
  BY <1>1, <1>2, <1>3, <1>5 DEF Shows
<1> QED BY <1>4, <1>6 DEF kept, after

\* A reply that is marked, or removed, leaves every place as it was.
LEMMA MarkShows ==
    ASSUME page \in PageFields, NEW t \in Turns, Relabels(t) \/ Removes(t), PageShows,
           Expected' = Expected, Count' = Count
    PROVE  PageShows'
<1>1. CASE Relabels(t)
  <2>1. PICK mark \in Marks \ {"shown"}, filled \in BOOLEAN :
          page'.articles = MarkReply(page, t, mark, filled).articles
    BY <1>1 DEF Relabels
  <2> DEFINE Marked(old) == Article("assistant", old.index, t, mark, filled)
  <2>2. /\ \A article \in page'.articles :
              \/ article \in page.articles
              \/ \E old \in page.articles : IsReply(old, t) /\ article = Marked(old)
        /\ \A old \in page.articles :
              (IF IsReply(old, t) THEN Marked(old) ELSE old) \in page'.articles
    BY <2>1, MarkMoves
  <2>3. \A old : IsReply(old, t) => PlaceOf(Marked(old)) = PlaceOf(old)
    BY DEF IsReply, PlaceOf, Article
  <2> HIDE DEF Marked
  <2>4. \A article \in page'.articles : \E old \in page.articles : PlaceOf(article) = PlaceOf(old)
    BY <2>2, <2>3
  <2>5. \A old \in page.articles : \E article \in page'.articles : PlaceOf(article) = PlaceOf(old)
    BY <2>2, <2>3
  <2>6. page'.nextIndex = page.nextIndex BY <1>1 DEF Relabels
  <2> QED BY <2>4, <2>5, <2>6 DEF PageShows, Shows
<1>2. CASE Removes(t)
  <2>1. /\ page'.articles = {article \in page.articles : ~IsReply(article, t)}
        /\ page'.nextIndex = page.nextIndex
    BY <1>2 DEF Removes
  <2>2. \A article : PlaceOf(article).role = "user" => ~IsReply(article, t)
    BY DEF PlaceOf, Place, IsReply
  <2> QED BY <2>1, <2>2 DEF PageShows, Shows
<1> QED BY <1>1, <1>2

LEMMA SubmitShows ==
    ASSUME Typed, Known, Submitted, NEW t \in Turns, Submit(t), PageShows,
           Expected' = Expected, Count' = Count,
           Without(t)' = Expected, CountWithout(t)' = Count
    PROVE  PromptShows(t)' /\ (job'[t].from # NoIndex => RestoredShows(t)')
<1>0. page \in PageFields /\ page.articles \in SUBSET Articles /\ page.nextIndex \in Nat
  BY DEF Typed, TypeOK, PageFields
<1>1. job'[t].from = page.edit BY DEF Submit, Typed, JobFields
<1>2. Shows(page.articles, page.nextIndex, Expected, Count) BY DEF PageShows
<1>3. Count \in Nat /\ page.nextIndex = Count BY <1>2, ExpectedBound DEF Shows
<1>4. \A article \in page.articles : article.turn # t BY FreshIsNowhere DEF AllArticles
<1>5. CASE page.edit = NoIndex
  <2>1. /\ page'.articles = page.articles \cup Pair(Count, t)
        /\ page'.nextIndex = Count + 2
    BY <1>3, <1>5, SubmitMoves
  <2>2. From(t)' = Count BY <1>1, <1>5 DEF From
  <2>3. \A article \in page.articles : article.index < Count
    <3> SUFFICES ASSUME NEW article \in page.articles PROVE article.index < Count OBVIOUS
    <3>1. PlaceOf(article) \in Expected BY <1>2 DEF Shows
    <3> QED BY <3>1, ExpectedBound DEF PlaceOf, Place
  <2>4. page.articles = {article \in page.articles : article.index < Count} BY <2>3
  <2>5. Shows(page.articles \cup Pair(Count, t), Count + 2, After(Expected, Count, t), Count + 2)
    <3>1. Shows({article \in page.articles : article.index < Count} \cup Pair(Count, t), Count + 2,
                After(Expected, Count, t), Count + 2)
      BY <1>0, <1>2, <1>3, PairShows
    <3> QED BY <2>4, <3>1
  <2>6. PromptShows(t)' BY <2>1, <2>2, <2>5 DEF PromptShows
  <2> QED BY <1>1, <1>5, <2>6
<1>6. CASE page.edit # NoIndex
  <2>1. /\ page'.articles = {article \in page.articles : article.index < page.edit}
                                \cup Pair(page.edit, t)
        /\ page'.nextIndex = page.edit + 2
        /\ page'.snapshot.articles = {article \in page.articles : article.index >= page.edit}
        /\ page'.snapshot.nextIndex = page.nextIndex
    BY <1>6, SubmitMoves
  <2>2. page.edit \in Nat BY <1>0, <1>6 DEF PageFields
  <2>3. From(t)' = page.edit BY <1>1, <1>6 DEF From
  <2>4. PromptShows(t)'
    <3>1. Shows({article \in page.articles : article.index < page.edit} \cup Pair(page.edit, t),
                page.edit + 2, After(Expected, page.edit, t), page.edit + 2)
      BY <1>0, <1>2, <2>2, PairShows
    <3> QED BY <2>1, <2>3, <3>1 DEF PromptShows
  <2>5. Restored(t)' = page.articles
    <3>1. \A article \in Pair(page.edit, t) : article.turn = t BY DEF Pair, Article
    <3>2. \A article \in page.articles : article.index < page.edit \/ article.index >= page.edit
      BY <1>0, <2>2 DEF Articles
    <3>3. Restored(t)' = {article \in page'.articles : article.turn # t}
                            \cup page'.snapshot.articles
      BY DEF Restored
    <3> QED BY <1>4, <2>1, <3>1, <3>2, <3>3
  <2>6. RestoredShows(t)' BY <1>2, <2>1, <2>5 DEF RestoredShows
  <2> QED BY <2>4, <2>6
<1> QED BY <1>5, <1>6

\* Which turns the page counts after a step.
LEMMA SameArticlesCount ==
    ASSUME page'.articles = page.articles, page'.snapshot = page.snapshot
    PROVE  \A t : Counted(t)' = Counted(t)
BY DEF Counted

LEMMA SubmitCounts ==
    ASSUME Typed, Submitted, NEW t \in Turns, Submit(t), NEW u, u # t
    PROVE  Counted(u)' <=> Counted(u)
<1>0. page.edit # NoIndex => page.edit \in Nat BY DEF Typed, TypeOK
<1>1. \A index : \A article \in Pair(index, t) : article.turn # u BY DEF Pair, Article
<1>2. CASE page.edit = NoIndex
  <2>1. /\ page'.articles = page.articles \cup Pair(page.nextIndex, t)
        /\ page'.snapshot = page.snapshot
    BY <1>2, SubmitMoves
  <2> QED BY <1>1, <2>1 DEF Counted
<1>3. CASE page.edit # NoIndex
  <2>1. /\ page'.articles = {article \in page.articles : article.index < page.edit}
                               \cup Pair(page.edit, t)
        /\ page'.snapshot.articles = {article \in page.articles : article.index >= page.edit}
    BY <1>3, SubmitMoves
  <2>2. page.snapshot.articles = {} BY DEF Submitted, Submit, Idle, NoSnapshot
  <2>3. \A article \in page.articles : article.index < page.edit \/ article.index >= page.edit
    BY <1>0, <1>3 DEF Typed, TypeOK, Articles
  <2> QED BY <1>1, <2>1, <2>2, <2>3 DEF Counted
<1> QED BY <1>2, <1>3

\* A step that changes neither the page nor what is expected.
LEMMA SamePageShows ==
    ASSUME page'.articles = page.articles, page'.snapshot = page.snapshot,
           page'.nextIndex = page.nextIndex, Keeps
    PROVE  /\ PageShows' = PageShows
           /\ \A t \in Turns : RestoredShows(t)' = RestoredShows(t)
           /\ \A t \in Turns : job'[t].from = job[t].from => PromptShows(t)' = PromptShows(t)
BY DEF Keeps, PageShows, RestoredShows, PromptShows, Restored, From

\* It keeps the page in place: a turn may be refused, and the runner end.
LEMMA SamePageInPlace ==
    ASSUME InPlace, page'.articles = page.articles, page'.snapshot = page.snapshot,
           page'.nextIndex = page.nextIndex, page'.creating = page.creating,
           inStep' => inStep /\ Keeps,
           \A t \in Turns :
              \/ job'[t].pc = job[t].pc /\ job'[t].from = job[t].from
              \/ job[t].pc = "posted" /\ job'[t].pc = "refused" /\ job'[t].from = job[t].from
              \/ page.creating # t
              \/ job[t].pc \in Registered /\ job'[t].pc \in Ended
    PROVE  InPlace'
<1> SUFFICES ASSUME inStep' PROVE InPlace' BY DEF InPlace
<1>1. /\ PageShows' = PageShows
      /\ \A t \in Turns : RestoredShows(t)' = RestoredShows(t)
      /\ \A t \in Turns : job'[t].from = job[t].from => PromptShows(t)' = PromptShows(t)
  BY SamePageShows
<1>2. page'.creating = NoTurn => PageShows' BY <1>1 DEF InPlace
<1>3. ASSUME NEW t \in Turns, page'.creating = t
      PROVE  /\ job'[t].pc \in Registered => PageShows'
             /\ job'[t].pc = "posted" => PromptShows(t)'
             /\ job'[t].pc \notin Ended /\ job'[t].from # NoIndex => RestoredShows(t)'
  <2>1. page.creating = t BY <1>3
  <2>2. CASE job'[t].pc = job[t].pc /\ job'[t].from = job[t].from
    BY <1>1, <2>1, <2>2 DEF InPlace
  <2>3. CASE job[t].pc = "posted" /\ job'[t].pc = "refused" /\ job'[t].from = job[t].from
    BY <1>1, <2>1, <2>3 DEF InPlace, Registered, Ended
  <2>4. CASE job[t].pc \in Registered /\ job'[t].pc \in Ended
    BY <1>1, <2>1, <2>4 DEF InPlace, Ended
  <2> QED BY <2>1, <2>2, <2>3, <2>4
<1> QED BY <1>2, <1>3 DEF InPlace

\* A turn starts: the one the page posted, or one it does not count.
LEMMA CreateInPlace ==
    ASSUME Typed, Known, Submitted, InPlace, NEW t \in Turns, CreateTurn(t)
    PROVE  InPlace'
<1>1. /\ page' = page /\ stored' = stored /\ inStep' = inStep /\ job[t].pc = "posted"
      /\ \A u \in Turns : u # t => job'[u] = job[u]
      /\ job'[t].from = job[t].from
  BY CreateMoves
<1>2. \A u : Counted(u)' = Counted(u) BY <1>1, SameArticlesCount
<1>3. job[t].pc \notin Registered BY <1>1 DEF Registered, Ended
<1>4. CASE Starts(t) /\ Counted(t)
  <2>1. \E article \in AllArticles : article.turn = t BY <1>4 DEF Counted, AllArticles
  <2>2. page.creating = t /\ t # NoTurn BY <1>3, <2>1, TranscriptAssumption DEF Known
  <2>3. inStep => PromptShows(t) /\ (job[t].from # NoIndex => RestoredShows(t))
    BY <1>1, <1>3, <2>2 DEF InPlace, Registered
  <2>4. /\ Expected' = After(Expected, From(t), t) /\ Count' = From(t) + 2
        /\ Without(t)' = Without(t) /\ CountWithout(t)' = CountWithout(t)
    BY <1>2, <1>4, StartsExpected
  <2>5. PromptShows(t) => PageShows' BY <1>1, <2>4 DEF PromptShows, PageShows
  <2>6. RestoredShows(t)' = RestoredShows(t) BY <1>1, <2>4 DEF RestoredShows, Restored
  <2>7. job'[t].pc = "running" BY <1>4 DEF Starts
  <2> QED BY <1>1, <2>2, <2>3, <2>5, <2>6, <2>7 DEF InPlace
<1>5. CASE Starts(t) /\ ~Counted(t)
  <2>1. Promised = {} /\ Promised' = {} BY <1>2, <1>5 DEF Starts, Promised
  <2>2. Keeps BY <1>1, <2>1, NothingPromised
  <2>3. page.creating # t BY <1>5 DEF Submitted, Counted
  <2> QED BY <1>1, <2>2, <2>3, SamePageInPlace
<1>6. CASE Unmoved /\ job'[t].pc = "refused"
  <2>1. Promised' = Promised BY <1>2, <1>6 DEF Unmoved, Promised
  <2>2. Keeps BY <1>6, <2>1, SamePromises
  <2> QED BY <1>1, <1>6, <2>2, SamePageInPlace
<1> QED BY <1>4, <1>5, <1>6, CreateMoves

\* A turn ends: it leaves what the page counted, or nothing it did not count.
LEMMA EndInPlace ==
    ASSUME Typed, Known, Submitted, InPlace, NEW t \in Turns, TurnEnds(t), Running' = {}
    PROVE  InPlace'
<1>1. /\ t \in Running /\ page' = page /\ (inStep' => inStep)
      /\ job' = [job EXCEPT ![t] = job'[t]] /\ job'[t].pc \in Ended
      /\ \/ stored' = stored /\ (inStep' => ~Counted(t))
         \/ /\ KeepFor(stored, job[t].from) \in 0..Len(stored)
            /\ Written(t, stored') /\ (inStep' => Counted(t))
  BY TurnEndsMoves
<1>2. job[t].pc \in Registered BY <1>1 DEF Running, Registered
<1>3. \A u \in Turns : u # t => job'[u] = job[u] BY <1>1 DEF Typed
<1>4. Running = {t} /\ Promised' = {} BY <1>1 DEF Submitted, Promised
<1> SUFFICES ASSUME inStep' PROVE InPlace' BY DEF InPlace
<1>5. CASE stored' = stored /\ ~Counted(t)
  <2>1. Promised = {} BY <1>4, <1>5 DEF Promised
  <2>2. Keeps BY <1>4, <1>5, <2>1, NothingPromised
  <2> QED BY <1>1, <1>2, <1>3, <2>2, SamePageInPlace
<1>6. CASE /\ KeepFor(stored, job[t].from) \in 0..Len(stored)
           /\ Written(t, stored') /\ Counted(t)
  <2>1. Expected' = Expected /\ Count' = Count BY <1>1, <1>6, EndsExpected
  <2>2. /\ PageShows' = PageShows
        /\ \A u \in Turns : job'[u].from = job[u].from => PromptShows(u)' = PromptShows(u)
    BY <1>1, <2>1 DEF PageShows, PromptShows, From
  <2>3. \A u \in Turns : u # t => RestoredShows(u)' = RestoredShows(u)
    <3> SUFFICES ASSUME NEW u \in Turns, u # t PROVE RestoredShows(u)' = RestoredShows(u) OBVIOUS
    <3>1. Promised = {t} BY <1>4, <1>6 DEF Promised
    <3>2. Without(u) = Expected /\ CountWithout(u) = Count BY <3>1 DEF Without, CountWithout
    <3>3. Without(u)' = Places(stored') /\ CountWithout(u)' = Len(stored')
      BY <1>4 DEF Without, CountWithout
    <3>4. Expected' = Places(stored') /\ Count' = Len(stored') BY <1>4 DEF Expected, Count
    <3> QED BY <1>1, <2>1, <3>2, <3>3, <3>4 DEF RestoredShows, Restored
  <2>4. page.creating = NoTurn => PageShows' BY <1>1, <2>2 DEF InPlace
  <2>5. ASSUME NEW u \in Turns, page.creating = u
        PROVE  /\ job'[u].pc \in Registered => PageShows'
               /\ job'[u].pc = "posted" => PromptShows(u)'
               /\ job'[u].pc \notin Ended /\ job'[u].from # NoIndex => RestoredShows(u)'
    <3>1. CASE u = t
      <4>1. PageShows' BY <1>1, <1>2, <2>2, <2>5, <3>1 DEF InPlace
      <4>2. job'[u].pc # "posted" BY <1>1, <3>1 DEF Ended
      <4> QED BY <1>1, <3>1, <4>1, <4>2
    <3>2. CASE u # t BY <1>1, <1>3, <2>2, <2>3, <2>5, <3>2 DEF InPlace
    <3> QED BY <3>1, <3>2
  <2> QED BY <1>1, <2>4, <2>5 DEF InPlace
<1> QED BY <1>1, <1>5, <1>6

\* The page takes its prompt back: what it shows again is promised.
LEMMA NotSentInPlace ==
    ASSUME Typed, Known, Submitted, InPlace, NEW t \in Turns,
           Refused(t) \/ AnswerLost(t), page' = NotSent(t)
    PROVE  InPlace'
<1> SUFFICES ASSUME inStep' PROVE InPlace' BY DEF InPlace
<1>0. page \in PageFields /\ job \in [Turns -> JobFields] BY DEF Typed
<1>1. page.creating = t BY DEF Refused, AnswerLost
<1>2. inStep /\ job[t].from # NoIndex /\ job[t].pc \notin Ended
  BY DEF Refused, AnswerLost, Ended
<1>3. RestoredShows(t) BY <1>1, <1>2 DEF InPlace
<1>4. CountWithout(t) \in Nat
  BY ExpectedBound, LenProperties DEF CountWithout, Typed, TypeOK
<1>5. page.snapshot # NoSnapshot
  BY <1>3, <1>4, TranscriptAssumption DEF RestoredShows, Shows, NoSnapshot
<1>6. /\ page'.articles = Restored(t) /\ page'.nextIndex = page.snapshot.nextIndex
      /\ page'.creating = NoTurn /\ page'.snapshot = NoSnapshot
  BY <1>0, <1>5, NotSentMoves
<1>7. Unmoved
  <2>1. CASE job' = job /\ stored' = stored BY <2>1 DEF Unmoved, Running
  <2>2. CASE t \in Posted /\ stored' = stored /\ job' = [job EXCEPT ![t].pc = "lost"]
    <3>1. job'[t].pc # "running" /\ job[t].pc # "running"
      BY <1>0, <2>2 DEF JobFields, Posted
    <3>2. \A u \in Turns : u # t => job'[u] = job[u] BY <1>0, <2>2
    <3> QED BY <2>2, <3>1, <3>2 DEF Unmoved, Running
  <2> QED BY <2>1, <2>2 DEF Refused, AnswerLost, serverVars
<1>8. ASSUME NEW u PROVE Counted(u)' <=> Counted(u) /\ u # t
  <2>1. \A article \in page.snapshot.articles : article.turn # t BY <1>1 DEF Known
  <2>2. page'.snapshot.articles = {} BY <1>6 DEF NoSnapshot
  <2> QED BY <1>6, <2>1, <2>2 DEF Counted, Restored
<1>9. Promised' = Promised \ {t} BY <1>7, <1>8 DEF Unmoved, Promised
<1>10. Expected' = Without(t) /\ Count' = CountWithout(t) BY <1>7, <1>9, UnmovedExpected
<1>11. PageShows' BY <1>3, <1>6, <1>10 DEF RestoredShows, PageShows
<1> QED BY <1>6, <1>11, TranscriptAssumption DEF InPlace

LEMMA InPlaceStep ==
    ASSUME Typed, Verdicts, Known, Submitted, InPlace, [Next]_vars
    PROVE  InPlace'
<1>0. PageOK(page) /\ page \in PageFields /\ job \in [Turns -> JobFields]
  BY DEF Typed, TypeOK, PageOK
<1>1. CASE Quiet /\ Calm
  <2>1. Unmoved BY <1>1 DEF Calm, Unmoved, Running
  <2>2. \A u : Counted(u)' = Counted(u) BY <1>1, SameArticlesCount DEF Quiet
  <2>3. Promised' = Promised BY <2>1, <2>2 DEF Unmoved, Promised
  <2>4. Keeps BY <2>1, <2>3, SamePromises
  <2> QED BY <1>1, <2>4, SamePageInPlace DEF Quiet, Calm
<1>2. ASSUME NEW t \in Turns, Submit(t) PROVE InPlace'
  <2>1. Idle /\ inStep' = inStep /\ stored' = stored /\ job[t].pc = "fresh"
    BY <1>2 DEF Submit, Fresh
  <2>2. job'[t].pc = "posted" /\ \A u \in Turns : u # t => job'[u] = job[u]
    BY <1>0, <1>2 DEF Submit, JobFields
  <2>3. Unmoved BY <2>1, <2>2 DEF Unmoved, Running
  <2>4. t \notin Running BY <2>1 DEF Running
  <2>5. \A u \in Running : Counted(u)' <=> Counted(u) BY <1>2, <2>4, SubmitCounts
  <2>6. Promised' = Promised BY <2>3, <2>5 DEF Unmoved, Promised
  <2>7. Keeps BY <2>3, <2>6, SamePromises
  <2>8. t \notin Promised BY <2>4 DEF Promised
  <2>9. Without(t) = Expected /\ CountWithout(t) = Count
    BY <2>8 DEF Without, CountWithout, Expected, Count
  <2>10. inStep => PageShows BY <2>1 DEF InPlace, Idle
  <2>11. inStep => PromptShows(t)' /\ (job'[t].from # NoIndex => RestoredShows(t)')
    BY <1>2, <2>7, <2>9, <2>10, SubmitShows DEF Keeps
  <2>12. page'.creating = t /\ t # NoTurn BY <1>2, SubmitMoves, TranscriptAssumption
  <2>13. job'[t].pc \notin Registered BY <2>2 DEF Registered, Ended
  <2> QED BY <2>1, <2>2, <2>11, <2>12, <2>13 DEF InPlace
<1>3. CASE Load /\ page' = Loaded
  <2>1. stored' = stored BY <1>3 DEF Load
  <2>2. /\ page'.articles = View(stored) /\ page'.nextIndex = Len(stored)
        /\ page'.creating = NoTurn /\ page'.snapshot.articles = {}
    BY <1>3, LoadedMoves DEF NoSnapshot
  <2>3. \A article \in View(stored) : article.turn \in Turns => job[article.turn].pc \in Ended
    BY ViewShown DEF Article, Known
  <2>4. \A u \in Turns : job[u].pc \in Ended => u \notin Running'
    BY StepOnJobs DEF Advances, Running, Ended
  <2>5. Promised' = {} BY <2>2, <2>3, <2>4 DEF Promised, Counted, Running
  <2>6. Expected' = Places(stored) /\ Count' = Len(stored) BY <2>1, <2>5 DEF Expected, Count
  <2>7. PageShows' BY <2>2, <2>6, ViewShows DEF PageShows
  <2> QED BY <2>2, <2>7, TranscriptAssumption DEF InPlace
<1>4. ASSUME NEW t \in Turns, SameServer, inStep' = inStep, Follows(t) \/ Relabels(t) \/ Removes(t)
      PROVE  InPlace'
  <2>1. Unmoved BY <1>4 DEF SameServer, Unmoved, Running
  <2>2. \A u \in Running : Counted(u)' <=> Counted(u)
    <3> SUFFICES ASSUME NEW u \in Running PROVE Counted(u)' <=> Counted(u) OBVIOUS
    <3>1. CASE Follows(t)
      <4>1. /\ page'.articles = page.articles /\ page'.snapshot.articles = {}
            /\ page.creating = t /\ job[t].pc \in Registered
        BY <3>1 DEF Follows, NoSnapshot
      <4>2. Counted(u) => u = t BY <4>1 DEF Submitted
      <4>3. \E article \in page.articles : article.turn = t BY <4>1 DEF Submitted
      <4> QED BY <4>1, <4>2, <4>3 DEF Counted
    <3>2. CASE Relabels(t) \/ Removes(t)
      <4>1. page'.snapshot = page.snapshot BY <3>2 DEF Relabels, Removes
      <4>2. job[t].pc \in Ended => u # t BY DEF Running, Ended
      <4> QED BY <1>0, <3>2, <4>1, <4>2, ReplyTurns DEF Counted
    <3> QED BY <1>4, <3>1, <3>2
  <2>3. Promised' = Promised BY <2>1, <2>2 DEF Unmoved, Promised
  <2>4. Expected' = Expected /\ Count' = Count BY <2>1, <2>3, SamePromises DEF Keeps
  <2>5. page'.creating = NoTurn BY <1>4 DEF Follows, Relabels, Removes
  <2>6. inStep => PageShows
    <3>1. CASE Follows(t) BY <3>1 DEF Follows, InPlace
    <3>2. CASE Relabels(t) \/ Removes(t)
      <4>1. page.creating = NoTurn
        BY <1>0, <3>2, TranscriptAssumption DEF Relabels, Removes, PageOK
      <4> QED BY <4>1 DEF InPlace
    <3> QED BY <1>4, <3>1, <3>2
  <2>7. inStep => PageShows'
    <3>1. CASE Follows(t) BY <2>4, <2>6, <3>1 DEF Follows, PageShows
    <3>2. CASE Relabels(t) \/ Removes(t) BY <1>0, <2>4, <2>6, <3>2, MarkShows
    <3> QED BY <1>4, <3>1, <3>2
  <2> QED BY <1>4, <2>5, <2>7, TranscriptAssumption DEF InPlace
<1> QED
  <2>1. \/ Quiet /\ (Calm \/ \E t \in Turns : CreateTurn(t) \/ TurnEnds(t))
        \/ \E t \in Turns : Submit(t)
        \/ Load /\ page' = Loaded
        \/ \E t \in Turns : /\ SameServer /\ inStep' = inStep
                            /\ Follows(t) \/ Relabels(t) \/ Removes(t)
        \/ \E t \in Turns : (Refused(t) \/ AnswerLost(t)) /\ page' = NotSent(t)
    BY StepOnPage
  <2>2. ASSUME NEW t \in Turns, TurnEnds(t) PROVE Running' = {} BY <2>2, EndsRunning
  <2> QED BY <1>1, <1>2, <1>3, <1>4, <2>1, <2>2, CreateInPlace, EndInPlace, NotSentInPlace

----------------------------------------------------------------------------
LEMMA ComposerInit == Init => ComposerInv
<1> SUFFICES ASSUME Init PROVE ComposerInv OBVIOUS
<1>1. /\ stored = History /\ page = Loaded /\ inStep = TRUE
      /\ job = [t \in Turns |-> NewJob]
      /\ abort = [t \in Turns |-> [a \in Askers |-> "none"]]
  BY DEF Init
<1>2. /\ stored \in Seq(Message) /\ IsTranscript(stored) /\ Len(stored) \in Nat
      /\ \A i \in 1..Len(stored) : stored[i].role = "user" => stored[i].parts > 0
      /\ \A i \in 1..Len(stored) : stored[i].turn = NoTurn /\ stored[i] \in Message
  BY <1>1, LenProperties, ElementOfSeq, TranscriptAssumption, ComposerAssumption
<1>3. View(stored) \subseteq Articles
  <2>1. \A i \in 1..Len(stored) :
           Article(stored[i].role, i - 1, stored[i].turn, "shown", TRUE) \in Articles
    BY <1>2 DEF Article, Articles, Message, Marks
  <2> QED BY <2>1 DEF View, Visible
<1>4. /\ PageOK(page) /\ page.articles = View(stored) /\ page.nextIndex = Len(stored)
      /\ page.creating = NoTurn /\ page.current = NoTurn
      /\ page.snapshot = NoSnapshot /\ page.edit = NoIndex
  BY <1>1, <1>2, <1>3 DEF Loaded, PageOK, PageFields
<1>5. job \in [Turns -> JobFields] /\ \A t \in Turns : job[t].pc = "fresh"
  BY <1>1, TranscriptAssumption DEF NewJob, JobFields
<1>6. abort \in [Turns -> [Askers -> AbortStates]] BY <1>1 DEF AbortStates
<1>7. Typed BY <1>1, <1>2, <1>4, <1>5, <1>6 DEF Typed, TypeOK, PageOK, PageFields
<1>8. \A article \in AllArticles : article.mark = "shown" /\ article.turn = NoTurn
  BY <1>2, <1>4, ViewShown DEF AllArticles, NoSnapshot, Article
<1>9. Followed BY <1>8 DEF Followed, AllArticles
<1>10. Verdicts BY <1>1, <1>8 DEF Verdicts
<1>11. Known BY <1>2, <1>4, <1>8, TranscriptAssumption DEF Known
<1>12. Running = {} /\ Promised = {} BY <1>5 DEF Running, Promised
<1>13. Submitted BY <1>4, <1>5, <1>12, TranscriptAssumption DEF Submitted
<1>14. InPlace
  <2>1. Expected = Places(stored) /\ Count = Len(stored) BY <1>12 DEF Expected, Count
  <2>2. PageShows BY <1>4, <1>7, <2>1, ViewShows DEF PageShows
  <2> QED BY <1>4, <2>2, TranscriptAssumption DEF InPlace
<1> QED BY <1>7, <1>9, <1>10, <1>11, <1>13, <1>14 DEF ComposerInv

(***************************************************************************)
(* The invariant holds of every behaviour.                                 *)
(***************************************************************************)
THEOREM ComposerInvHolds == Spec => []ComposerInv
<1>1. Init => ComposerInv BY ComposerInit
<1>2. ComposerInv /\ [Next]_vars => ComposerInv'
  BY TypedStep, FollowedStep, VerdictsStep, KnownStep, SubmittedStep, InPlaceStep
  DEF ComposerInv
<1> QED BY <1>1, <1>2, PTL DEF Spec

(***************************************************************************)
(* While the page is in step, what it shows at rest is the conversation,   *)
(* each article at the index the server gives its message, whatever was    *)
(* lost, or served after the page gave it up.                              *)
(***************************************************************************)
THEOREM PageIsAlwaysConversation == Spec => []PageIsConversation
<1>1. ComposerInv => PageIsConversation
  <2> SUFFICES ASSUME ComposerInv PROVE PageIsConversation OBVIOUS
  <2>1. TypeOK /\ page.articles \subseteq Articles /\ stored \in Seq(Message)
    BY DEF ComposerInv, Typed, TypeOK
  <2> SUFFICES ASSUME inStep, Idle, Running = {}
               PROVE  /\ page.nextIndex = Len(stored)
                      /\ {<<p.index, p.turn>> : p \in Prompts}
                            = {<<i - 1, stored[i].turn>> :
                                  i \in {k \in DOMAIN stored : stored[k].role = "user"}}
                      /\ \A article \in page.articles :
                            /\ stored[article.index + 1].role = article.role
                            /\ stored[article.index + 1].turn = article.turn
    BY <2>1 DEF PageIsConversation
  <2>2. Shows(page.articles, page.nextIndex, Places(stored), Len(stored))
    BY DEF ComposerInv, InPlace, Idle, PageShows, Expected, Count, Promised
  <2>3. DOMAIN stored = 1..Len(stored) /\ Len(stored) \in Nat BY <2>1, LenProperties
  <2>4. ASSUME NEW article \in page.articles
        PROVE  \E i \in 1..Len(stored) : /\ article.index = i - 1
                                         /\ article.role = stored[i].role
                                         /\ article.turn = stored[i].turn
    BY <2>2 DEF Shows, Places, PlaceOf, Place
  <2>5. ASSUME NEW article \in page.articles
        PROVE  /\ stored[article.index + 1].role = article.role
               /\ stored[article.index + 1].turn = article.turn
    <3>1. PICK i \in 1..Len(stored) : /\ article.index = i - 1
                                      /\ article.role = stored[i].role
                                      /\ article.turn = stored[i].turn
      BY <2>4
    <3>2. article.index + 1 = i BY <2>3, <3>1
    <3> QED BY <3>1, <3>2
  <2>6. ASSUME NEW i \in 1..Len(stored), stored[i].role = "user"
        PROVE  \E p \in Prompts : p.index = i - 1 /\ p.turn = stored[i].turn
    <3>1. Place(i - 1, stored[i].role, stored[i].turn) \in Places(stored) BY DEF Places
    <3>2. PICK p \in page.articles : PlaceOf(p) = Place(i - 1, stored[i].role, stored[i].turn)
      BY <2>2, <2>6, <3>1 DEF Shows, Place
    <3> QED BY <2>6, <3>2 DEF PlaceOf, Place, Prompts
  <2>7. {<<p.index, p.turn>> : p \in Prompts}
           = {<<i - 1, stored[i].turn>> : i \in {k \in DOMAIN stored : stored[k].role = "user"}}
    <3>1. ASSUME NEW p \in Prompts
          PROVE  \E i \in {k \in DOMAIN stored : stored[k].role = "user"} :
                    <<p.index, p.turn>> = <<i - 1, stored[i].turn>>
      BY <2>3, <2>4 DEF Prompts
    <3>2. ASSUME NEW i \in {k \in DOMAIN stored : stored[k].role = "user"}
          PROVE  \E p \in Prompts : <<i - 1, stored[i].turn>> = <<p.index, p.turn>>
      BY <2>3, <2>6
    <3> QED BY <3>1, <3>2
  <2>8. page.nextIndex = Len(stored) BY <2>2 DEF Shows
  <2> QED BY <2>5, <2>7, <2>8
<1> QED BY <1>1, ComposerInvHolds, PTL

(***************************************************************************)
(* A reply shown as streaming is always the one the page waits for.        *)
(***************************************************************************)
THEOREM StreamingIsAlwaysFollowed == Spec => []StreamingIsFollowed
<1>1. ComposerInv => StreamingIsFollowed
  BY DEF ComposerInv, Followed, StreamingIsFollowed
<1> QED BY <1>1, ComposerInvHolds, PTL

(***************************************************************************)
(* `Stopped' and a complete reply are only shown of turns that ended so.   *)
(***************************************************************************)
THEOREM VerdictIsAlwaysFinal == Spec => []VerdictIsFinal
<1>1. ComposerInv => VerdictIsFinal
  BY DEF ComposerInv, Verdicts, VerdictIsFinal, AllArticles
<1> QED BY <1>1, ComposerInvHolds, PTL
=============================================================================
