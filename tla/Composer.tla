------------------------------ MODULE Composer ------------------------------
(***************************************************************************)
(* internal/web/assets/app.js: the page that submits prompts, edits one of *)
(* the prompts it shows, follows a turn with an EventSource and stops it,  *)
(* beside the server's conversation. The page names messages by indices it *)
(* counts itself (nextMessageIndex); the server takes such an index as     *)
(* replace_from.                                                           *)
(*                                                                         *)
(* An action is one callback of the page, up to its next await, or one     *)
(* step of the server; a request or its answer may be lost between them,   *)
(* and a request that the page gave up may still be served. The server's   *)
(* side is as coarse as the page can see it: TurnJobs and TurnEvents have  *)
(* its steps. The page is the only user of the conversation                *)
(* (SharedConversation has several).                                       *)
(***************************************************************************)
EXTENDS Transcript

CONSTANTS
    MaxFaults   \* bound: times the event stream breaks or the page is loaded again

\* An empty prompt is never accepted.
ASSUME ComposerAssumption ==
    \A i \in 1..Len(History) : History[i].role = "user" => History[i].parts > 0

VARIABLES
    page,       \* what the script keeps, and the articles it shows
    job,        \* of each turn: its POST, then its turnJob
    abort,      \* the abort requests: of the Stop button, of the timer
    stored,     \* the server's messages
    faults,     \* breaks and loads so far
    inStep      \* history: since it was loaded the page did not fall out of step

serverVars == <<job, stored>>
vars == <<page, job, abort, stored, faults, inStep>>

Askers == {"stop", "timer"}
Marks == {"shown", "streaming", "complete", "stopped", "error"}

Articles == [role : {"user", "assistant"}, index : Nat,
             turn : Turns \cup {NoTurn}, mark : Marks, filled : BOOLEAN]

Ended == {"done", "aborted", "stream-error"}
Registered == {"running"} \cup Ended

NoSnapshot == [articles |-> {}, nextIndex |-> NoIndex]

Article(role, index, t, mark, filled) ==
    [role |-> role, index |-> index, turn |-> t, mark |-> mark, filled |-> filled]

(***************************************************************************)
(* viewMessages: the page as the server renders it. An empty reply is left *)
(* out, and the indices count it all the same. The articles are a set: the *)
(* script compares and sorts them by their indices.                        *)
(***************************************************************************)
Visible(msgs) == {i \in 1..Len(msgs) : msgs[i].parts > 0}

View(msgs) ==
    {Article(msgs[i].role, i - 1, msgs[i].turn, "shown", TRUE) : i \in Visible(msgs)}

Loaded ==
    [articles |-> View(stored), nextIndex |-> Len(stored), edit |-> NoIndex,
     creating |-> NoTurn, snapshot |-> NoSnapshot, current |-> NoTurn,
     source |-> "closed", timer |-> FALSE, abortRequested |-> FALSE]

NewJob ==
    [pc |-> "fresh", from |-> NoIndex, target |-> NoTurn, parts |-> 0,
     abortRequested |-> FALSE]

Init ==
    /\ stored = History
    /\ page = Loaded
    /\ job = [t \in Turns |-> NewJob]
    /\ abort = [t \in Turns |-> [a \in Askers |-> "none"]]
    /\ faults = 0
    /\ inStep = TRUE

Posted == {t \in Turns : job[t].pc = "posted"}
Running == {t \in Turns : job[t].pc = "running"}

\* The page shows the turn, or has it ready to be shown again.
Counted(t) == \E article \in page.articles \cup page.snapshot.articles : article.turn = t

Idle == page.creating = NoTurn /\ page.current = NoTurn

----------------------------------------------------------------------------
(* The page's helpers: each takes the page's record and returns the next.  *)

\* truncateMessagesFrom
Truncate(p, index) ==
    LET removed == {article \in p.articles : article.index >= index}
    IN  [p EXCEPT !.articles = @ \ removed,
                  !.nextIndex = index,
                  !.snapshot = [articles |-> removed, nextIndex |-> p.nextIndex]]

\* Mutant of Restore: the articles come back, the counter does not.
RestoreArticles(p) ==
    [p EXCEPT !.articles = @ \cup p.snapshot.articles, !.snapshot = NoSnapshot]

\* restoreTruncatedMessages: without a snapshot it does nothing.
Restore(p) ==
    IF p.snapshot = NoSnapshot
    THEN p
    ELSE [p EXCEPT !.articles = @ \cup p.snapshot.articles,
                   !.nextIndex = p.snapshot.nextIndex,
                   !.snapshot = NoSnapshot]

\* addMessage of the prompt, then of the reply
AddTurn(p, t, index) ==
    [p EXCEPT !.articles = @ \cup {Article("user", index, t, "shown", TRUE),
                                   Article("assistant", index + 1, t, "streaming", FALSE)},
              !.nextIndex = index + 2]

\* discardTurn
Discard(p, t) == [p EXCEPT !.articles = {article \in @ : article.turn # t}]

IsReply(article, t) == article.role = "assistant" /\ article.turn = t

\* The assistant's article of a turn gets a mark (and, maybe, content).
MarkReply(p, t, mark, filled) ==
    [p EXCEPT !.articles =
        {IF IsReply(article, t)
         THEN Article("assistant", article.index, t, mark, filled)
         ELSE article : article \in @}]

Filled(t) == \E article \in page.articles : IsReply(article, t) /\ article.filled

\* markTurnError replaces the content, markTurnStopped keeps it.
MarkError(p, t) == MarkReply(p, t, "error", TRUE)
MarkStopped(p, t) == MarkReply(p, t, "stopped", Filled(t))

FinishTurn(p) ==
    [p EXCEPT !.creating = NoTurn, !.current = NoTurn, !.source = "closed",
              !.timer = FALSE, !.abortRequested = FALSE]

----------------------------------------------------------------------------
(* The user selects a prompt, submits, stops, or loads the page again.     *)

\* requestNavigation: to a prompt, or (NoIndex) to the end
Select(index) ==
    /\ Idle
    /\ page.edit # index
    /\ page' = [page EXCEPT !.edit = index]
    /\ UNCHANGED <<serverVars, abort, faults, inStep>>

Prompts == {article \in page.articles : article.role = "user"}

Edited ==
    IF page.edit = NoIndex
    THEN NoTurn
    ELSE (CHOOSE article \in Prompts : article.index = page.edit).turn

\* The turns not used yet. Their names mean nothing: one order is enough.
Fresh == {t \in Turns : job[t].pc = "fresh"}

\* The submit handler up to its await; the composer moves to the end.
Submit(t) ==
    /\ Idle
    /\ t \in Fresh /\ t = CHOOSE u \in Fresh : TRUE
    /\ LET from == page.edit
           p == [page EXCEPT !.edit = NoIndex, !.creating = t]
       IN  page' = IF from = NoIndex
                   THEN AddTurn(p, t, p.nextIndex)
                   ELSE AddTurn(Truncate(p, from), t, from)
    /\ job' = [job EXCEPT ![t] = [@ EXCEPT !.pc = "posted", !.from = page.edit,
                                           !.target = Edited]]
    /\ UNCHANGED <<abort, stored, faults, inStep>>

\* requestAbort, of the Stop button
Stop ==
    /\ page.current # NoTurn
    /\ ~page.abortRequested
    /\ page' = [page EXCEPT !.abortRequested = TRUE]
    /\ abort' = [abort EXCEPT ![page.current]["stop"] = "sent"]
    /\ UNCHANGED <<serverVars, faults, inStep>>

\* A new document: what the old one waited for reaches nobody. A prompt it
\* posted is lost, or is served later: its handler does not need the page. (An
\* abort that is served later does no more than one that was served before.)
Load ==
    /\ faults < MaxFaults
    /\ faults' = faults + 1
    /\ page' = Loaded
    /\ \E lost \in SUBSET Posted :
          job' = [t \in Turns |-> IF t \in lost THEN [job[t] EXCEPT !.pc = "lost"] ELSE job[t]]
    /\ abort' = [t \in Turns |-> [a \in Askers |-> "none"]]
    /\ inStep' = TRUE
    /\ UNCHANGED stored

----------------------------------------------------------------------------
(* The server. *)

\* Any turn that runs refuses the next one, and so does a bad replace_from.
\* The page may have given the request up, or be another one, by now.
CreateTurn(t) ==
    /\ t \in Posted
    /\ job' = [job EXCEPT ![t].pc =
                 IF ValidReplaceFrom(stored, job[t].from) /\ Running = {}
                 THEN "running" ELSE "refused"]
    /\ UNCHANGED <<page, abort, stored, faults, inStep>>

Output(t) ==
    /\ t \in Running
    /\ job[t].parts < MaxParts
    /\ job' = [job EXCEPT ![t].parts = @ + 1]
    /\ UNCHANGED <<page, abort, stored, faults, inStep>>

\* Of a turn that ended only its event counts: the rest is forgotten. The page
\* falls out of step if it counted the turn in vain, or did not count it.
EndWith(t, pc, msgs) ==
    /\ job' = [job EXCEPT ![t] = [NewJob EXCEPT !.pc = pc, !.parts = job[t].parts]]
    /\ stored' = msgs
    /\ inStep' = (inStep /\ (Counted(t) <=> msgs # stored))

\* The three outcomes of turnJob.run; an aborted turn may leave nothing.
TurnEnds(t) ==
    /\ t \in Running
    /\ LET With(completed) ==
             WithTurn(stored, job[t].from # NoIndex, KeepFor(stored, job[t].from), t,
                      Reply(t, job[t].parts, completed))
       IN  \/ EndWith(t, "done", With(TRUE))
           \/ job[t].abortRequested /\ EndWith(t, "aborted", With(FALSE))
           \/ job[t].abortRequested /\ EndWith(t, "aborted", stored)
           \/ EndWith(t, "stream-error", stored)
    /\ UNCHANGED <<page, abort, faults>>

\* handleAbortTurn: 409 to a turn that ended, or the wait for its end.
AbortTurn(t, a) ==
    /\ abort[t][a] = "sent"
    /\ IF t \in Running
       THEN /\ abort' = [abort EXCEPT ![t][a] = "waiting"]
            /\ job' = [job EXCEPT ![t].abortRequested = TRUE]
       ELSE /\ abort' = [abort EXCEPT ![t][a] = "refused"]
            /\ UNCHANGED job
    /\ UNCHANGED <<page, stored, faults, inStep>>

AbortDone(t, a) ==
    /\ abort[t][a] = "waiting"
    /\ t \notin Running
    /\ abort' = [abort EXCEPT ![t][a] = "ok"]
    /\ UNCHANGED <<page, serverVars, faults, inStep>>

\* The connection of a request breaks, before or after it was served. (One that
\* is served still later does no more than one that was served before.)
AbortLost(t, a) ==
    /\ abort[t][a] \in {"sent", "waiting", "ok"}
    /\ abort' = [abort EXCEPT ![t][a] = "refused"]
    /\ UNCHANGED <<page, serverVars, faults, inStep>>

----------------------------------------------------------------------------
(* The answer of the POST: the submit handler after its await. *)

\* subscribe
Created(t) ==
    /\ page.creating = t
    /\ job[t].pc \in Registered
    /\ page' = [page EXCEPT !.creating = NoTurn, !.current = t, !.snapshot = NoSnapshot,
                            !.abortRequested = FALSE, !.source = "connecting"]
    /\ UNCHANGED <<serverVars, abort, faults, inStep>>

NotSent(t) == FinishTurn(Restore(Discard(page, t)))

\* A plain prompt has no snapshot, so its two indices are not given back.
Refused(t) ==
    /\ page.creating = t
    /\ job[t].pc = "refused"
    /\ page' = NotSent(t)
    /\ inStep' = (inStep /\ job[t].from # NoIndex)
    /\ UNCHANGED <<serverVars, abort, faults>>

\* fetch rejects: the answer is lost, or the request is, or it is served later.
AnswerLost(t) ==
    /\ page.creating = t
    /\ page' = NotSent(t)
    /\ \/ UNCHANGED job
       \/ t \in Posted /\ job' = [job EXCEPT ![t].pc = "lost"]
    /\ inStep' = (inStep /\ job[t].from # NoIndex /\ job[t].pc \notin Ended)
    /\ UNCHANGED <<abort, stored, faults>>

----------------------------------------------------------------------------
(* The EventSource of the current turn. *)

Open ==
    /\ page.source = "connecting"
    /\ page' = [page EXCEPT !.source = "open", !.timer = FALSE]
    /\ UNCHANGED <<serverVars, abort, faults, inStep>>

\* Breaks and fails to connect: onerror, unless an abort was requested
Break ==
    /\ page.source # "closed"
    /\ faults < MaxFaults
    /\ faults' = faults + 1
    /\ page' = [page EXCEPT !.source = "connecting", !.timer = @ \/ ~page.abortRequested]
    /\ UNCHANGED <<serverVars, abort, inStep>>

\* The listeners of preview and reasoning
Preview ==
    /\ page.source = "open"
    /\ job[page.current].parts > 0
    /\ ~Filled(page.current)
    /\ page' = [MarkReply(page, page.current, "streaming", TRUE) EXCEPT !.timer = FALSE]
    /\ UNCHANGED <<serverVars, abort, faults, inStep>>

\* done: a reply without content is removed from the page.
ShowDone(p, t) ==
    IF job[t].parts > 0
    THEN MarkReply(p, t, "complete", TRUE)
    ELSE [p EXCEPT !.articles = {article \in @ : ~IsReply(article, t)}]

\* The listeners of done, aborted and stream-error
Terminal ==
    /\ page.source = "open"
    /\ LET t == page.current
       IN  \/ job[t].pc = "done" /\ page' = FinishTurn(ShowDone(page, t))
           \/ job[t].pc = "aborted" /\ page' = FinishTurn(MarkStopped(page, t))
           \/ job[t].pc = "stream-error" /\ page' = FinishTurn(MarkError(page, t))
    /\ UNCHANGED <<serverVars, abort, faults, inStep>>

\* Ten seconds without the stream: abortDisconnectedTurn
TimerFires ==
    /\ page.timer
    /\ page' = [page EXCEPT !.timer = FALSE, !.abortRequested = TRUE]
    /\ abort' = [abort EXCEPT ![page.current]["timer"] = "sent"]
    /\ UNCHANGED <<serverVars, faults, inStep>>

\* Mutant of AbortAnswered: the turn may no longer be the current one.
AbortAnsweredLate(t, a) ==
    /\ abort[t][a] \in {"ok", "refused"}
    /\ page' = FinishTurn(IF abort[t][a] = "ok" THEN MarkStopped(page, t) ELSE MarkError(page, t))
    /\ abort' = [abort EXCEPT ![t][a] = "none"]
    /\ UNCHANGED <<serverVars, faults, inStep>>

\* Mutant of AbortAnswered: a request that fails leaves the turn current.
AbortAnsweredOrNot(t, a) ==
    /\ abort[t][a] \in {"ok", "refused"}
    /\ page' = IF page.current = t /\ abort[t][a] = "ok"
               THEN FinishTurn(MarkStopped(page, t))
               ELSE page
    /\ abort' = [abort EXCEPT ![t][a] = "none"]
    /\ UNCHANGED <<serverVars, faults, inStep>>

\* Mutant of AbortAnswered: the page does not wait for the turn to end.
AbortAnsweredEarly(t, a) ==
    /\ abort[t][a] \in {"waiting", "ok", "refused"}
    /\ page' = IF page.current # t
               THEN page
               ELSE FinishTurn(IF abort[t][a] # "refused"
                               THEN MarkStopped(page, t) ELSE MarkError(page, t))
    /\ abort' = [abort EXCEPT ![t][a] = "none"]
    /\ UNCHANGED <<serverVars, faults, inStep>>

\* The callers of requestAbort after their await
AbortAnswered(t, a) ==
    /\ abort[t][a] \in {"ok", "refused"}
    /\ page' = IF page.current # t
               THEN page
               ELSE FinishTurn(IF abort[t][a] = "ok"
                               THEN MarkStopped(page, t) ELSE MarkError(page, t))
    /\ abort' = [abort EXCEPT ![t][a] = "none"]
    /\ UNCHANGED <<serverVars, faults, inStep>>

----------------------------------------------------------------------------
UserStep ==
    \/ \E index \in {article.index : article \in Prompts} \cup {NoIndex} : Select(index)
    \/ \E t \in Turns : Submit(t)
    \/ Stop
    \/ Load

ServeStep ==
    \/ \E t \in Turns : CreateTurn(t) \/ (job[t].abortRequested /\ TurnEnds(t))
    \/ \E t \in Turns, a \in Askers : AbortTurn(t, a) \/ AbortDone(t, a)

AnswerStep ==
    \/ \E t \in Turns : Created(t) \/ Refused(t)
    \/ \E t \in Turns, a \in Askers : AbortAnswered(t, a)

LossStep ==
    \/ Break
    \/ \E t \in Turns : AnswerLost(t)
    \/ \E t \in Turns, a \in Askers : AbortLost(t, a)

EventStep == Open \/ Preview \/ Terminal

Next ==
    \/ UserStep
    \/ ServeStep
    \/ AnswerStep
    \/ LossStep
    \/ EventStep
    \/ TimerFires
    \/ \E t \in Turns : Output(t) \/ TurnEnds(t)

Spec == Init /\ [][Next]_vars

(***************************************************************************)
(* Requests are served and their answers handled, an aborted turn ends     *)
(* (TurnJobs!AbortFreesSession), and a timer fires; no connection need     *)
(* ever open, no provider ever answer and no user ever act.                *)
(***************************************************************************)
Fairness ==
    /\ WF_vars(ServeStep)
    /\ WF_vars(AnswerStep)
    /\ WF_vars(TimerFires)

FairSpec == Spec /\ Fairness

----------------------------------------------------------------------------
(***************************************************************************)
(* Every variable holds a value of its type, and the page is busy with one *)
(* turn at most.                                                           *)
(***************************************************************************)
TypeOK ==
    /\ page.articles \subseteq Articles
    /\ page.nextIndex \in Nat
    /\ page.edit \in Nat \cup {NoIndex}
    /\ page.creating \in Turns \cup {NoTurn}
    /\ page.current \in Turns \cup {NoTurn}
    /\ NoTurn \in {page.creating, page.current}
    /\ page.source \in {"closed", "connecting", "open"}
    /\ (page.source = "closed") <=> (page.current = NoTurn)
    /\ (page.timer \/ page.abortRequested) => page.current # NoTurn
    /\ stored \in Seq(Message)
    /\ IsTranscript(stored)

(***************************************************************************)
(* A page with nothing to wait for shows the server's prompts, counts the  *)
(* messages the server has, and every article it shows has the index of    *)
(* its message: replacing a prompt it shows replaces that prompt. Edits,   *)
(* an edit that is refused or lost, an empty reply that is not shown, a    *)
(* turn whose stream or abort was lost included. Since it was loaded a     *)
(* page falls out of step (inStep) in three ways only: a plain prompt is   *)
(* refused or its answer lost, and its indices are not given back; a turn  *)
(* the page counts leaves nothing in the conversation; a turn the page     *)
(* does not count is written, since its answer was lost or the page was    *)
(* loaded when the turn was under way. Types hold.                         *)
(***************************************************************************)
PageIsConversation ==
    /\ TypeOK
    /\ inStep /\ Idle /\ Running = {} =>
          /\ page.nextIndex = Len(stored)
          /\ {<<p.index, p.turn>> : p \in Prompts}
               = {<<i - 1, stored[i].turn>> :
                     i \in {k \in DOMAIN stored : stored[k].role = "user"}}
          /\ \A article \in page.articles :
                /\ stored[article.index + 1].role = article.role
                /\ stored[article.index + 1].turn = article.turn

(***************************************************************************)
(* A reply that is shown as streaming is the one the page waits for: no    *)
(* answer or event that comes late leaves a reply that nothing will ever   *)
(* complete.                                                               *)
(***************************************************************************)
StreamingIsFollowed ==
    \A article \in page.articles :
        article.mark = "streaming" => article.turn \in {page.creating, page.current}

(***************************************************************************)
(* `Stopped' and a complete reply are shown of turns that ended: the       *)
(* server adds nothing to the conversation for them any more, and a reply  *)
(* shown as complete is completed.                                         *)
(***************************************************************************)
VerdictIsFinal ==
    \A article \in page.articles :
        /\ article.mark = "stopped" => job[article.turn].pc \in Ended
        /\ article.mark = "complete" => job[article.turn].pc = "done"

(***************************************************************************)
(* The page always gives the composer back: a submission is answered or    *)
(* fails, a turn whose abort was requested, by the button or the timer, is *)
(* left whatever is lost, and a page whose stream broke is connected again *)
(* or, after the timer and the abort, free: it waits for no stream that    *)
(* never opens.                                                            *)
(***************************************************************************)
Waiting == page.creating # NoTurn \/ page.abortRequested \/ page.timer

ComposerIsFreed == Waiting ~> ~Waiting

(***************************************************************************)
(* What the tests say, and a failed turn contradicts: an edit of a prompt  *)
(* of the conversation is answered from the messages before that prompt    *)
(* (server_test.go: `want first turn plus edited prompt').                 *)
(***************************************************************************)
EditReplacesItsPrompt ==
    [][\A t \in Turns :
          LET Is(i) == stored[i].role = "user" /\ stored[i].turn = job[t].target
          IN  /\ job[t].pc = "posted"
              /\ job'[t].pc = "running"
              /\ job[t].from # NoIndex
              /\ \E i \in DOMAIN stored : Is(i)
              => job[t].from + 1 \in DOMAIN stored /\ Is(job[t].from + 1)]_vars
=============================================================================
