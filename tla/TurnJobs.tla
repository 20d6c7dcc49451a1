------------------------------ MODULE TurnJobs ------------------------------
(***************************************************************************)
(* internal/web/server.go: the turns of one browserSession. A request that *)
(* creates a turn passes validation and then the gate of session.mu; the   *)
(* turnJob it registers runs on a goroutine that drives a TurnStream of    *)
(* the session (ChatSession) and publishes one terminal event; requests    *)
(* that abort a turn run beside it.                                        *)
(*                                                                         *)
(* An action is one critical section of browserSession.mu, turnJob.mu or   *)
(* Session.mu, so two checks of abortRequested are two actions and another *)
(* request may come between them.                                          *)
(***************************************************************************)
EXTENDS ChatSession

CONSTANTS
    AbortRequests   \* the POST .../abort requests

VARIABLES
    job,    \* of each create request: the handler's, then the turnJob's state
    abort   \* of each abort request: where its handler is, and its turn

jobVars == <<job, abort>>
vars == <<sessionVars, jobVars>>

Verdicts == {"done", "aborted", "stream-error"}

\* The handler, then the goroutine: what each is about to do.
PCs == {"idle", "validated", "rejected", "created", "opening", "reading",
        "judging", "stopping", "failing", "publishing", "closing", "finishing",
        "finished"}

JobFields ==
    [pc : PCs, from : Int \cup {NoIndex}, err : {"none", "other", "canceled"},
     verdict : {"none"} \cup Verdicts, terminal : {"open", "silent"} \cup Verdicts,
     abortRequested : BOOLEAN, cancelled : BOOLEAN, done : BOOLEAN]

AbortFields ==
    [pc : {"idle", "conflict", "cancelling", "waiting", "answered", "left"},
     turn : Turns \cup {NoTurn}]

NewJob ==
    [pc |-> "idle", from |-> NoIndex, err |-> "none", verdict |-> "none",
     terminal |-> "open", abortRequested |-> FALSE, cancelled |-> FALSE,
     done |-> FALSE]

Init ==
    /\ SessionInit
    /\ job = [t \in Turns |-> NewJob]
    /\ abort = [a \in AbortRequests |-> [pc |-> "idle", turn |-> NoTurn]]

\* browserSession.turns
Registered == {t \in Turns : job[t].pc \notin {"idle", "validated", "rejected"}}

\* turnJob.isTerminal
IsTerminal(t) == job[t].terminal # "open"

\* The errors a provider may return: Canceled only once the context is.
Errors(t) == {"other"} \cup (IF job[t].cancelled THEN {"canceled"} ELSE {})

ShouldAbort(t) == job[t].abortRequested \/ job[t].err = "canceled"

\* The goroutine moves on, with what this step decided.
Goto(t, pc) == job' = [job EXCEPT ![t].pc = pc]
FailWith(t, err) == job' = [job EXCEPT ![t] = [@ EXCEPT !.pc = "judging", !.err = err]]
Publish(t, verdict) ==
    job' = [job EXCEPT ![t] = [@ EXCEPT !.pc = "publishing", !.verdict = verdict]]

\* The first terminal event of a turn is its only one.
Ends(t, verdict) == IF IsTerminal(t) THEN job[t].terminal ELSE verdict

----------------------------------------------------------------------------
(* handleCreateTurn *)

\* ValidateReplaceFrom reads the messages of now; the gate comes later.
ValidateCreate(t) ==
    /\ job[t].pc = "idle"
    /\ \E from \in ReplaceFroms :
          LET pc == IF ValidReplaceFrom(messages, from) THEN "validated" ELSE "rejected"
          IN  job' = [job EXCEPT ![t] = [@ EXCEPT !.pc = pc, !.from = from]]
    /\ UNCHANGED <<sessionVars, abort>>

\* Mutant of Gate: a turn that is being aborted no longer counts.
GateIgnoresAborted(t) ==
    /\ job[t].pc = "validated"
    /\ Goto(t, IF \A u \in Registered : IsTerminal(u) \/ job[u].abortRequested
               THEN "created" ELSE "rejected")
    /\ UNCHANGED <<sessionVars, abort>>

\* Any registered turn that is not terminal answers 409, turn_in_progress.
Gate(t) ==
    /\ job[t].pc = "validated"
    /\ Goto(t, IF \A u \in Registered : IsTerminal(u) THEN "created" ELSE "rejected")
    /\ UNCHANGED <<sessionVars, abort>>

----------------------------------------------------------------------------
(* turnJob.run *)

RunSend(t) ==
    /\ job[t].pc = "created"
    /\ \/ SendAccepted(t, job[t].from) /\ Goto(t, "opening")
       \/ SendRejected(t, job[t].from) /\ FailWith(t, "other")
    /\ UNCHANGED abort

RunOpen(t) ==
    /\ job[t].pc = "opening"
    /\ \/ StreamOpened(t) /\ Goto(t, "reading")
       \/ StreamRefused(t) /\ \E err \in Errors(t) : FailWith(t, err)
    /\ UNCHANGED abort

\* Mutant of RunNext: the error of the commit at completion is dropped.
RunNextDropsError(t) ==
    /\ job[t].pc = "reading"
    /\ \/ NextPart(t) /\ UNCHANGED job
       \/ (NextCompletes(t) \/ NextCompletesUnsaved(t)) /\ Publish(t, "done")
       \/ NextFails(t) /\ FailWith(t, "other")
       \/ NextCancelled(t) /\ job[t].cancelled /\ FailWith(t, "canceled")
    /\ UNCHANGED abort

RunNext(t) ==
    /\ job[t].pc = "reading"
    /\ \/ NextPart(t) /\ UNCHANGED job
       \/ NextCompletes(t) /\ Publish(t, "done")
       \/ NextCompletesUnsaved(t) /\ FailWith(t, "other")
       \/ NextFails(t) /\ FailWith(t, "other")
       \/ NextCancelled(t) /\ job[t].cancelled /\ FailWith(t, "canceled")
    /\ UNCHANGED abort

\* Mutant of RunJudge: `aborted' is published before the commit, not after it.
RunJudgePublishesFirst(t) ==
    /\ job[t].pc = "judging"
    /\ IF ShouldAbort(t)
       THEN job' = [job EXCEPT ![t] = [@ EXCEPT !.pc = "stopping",
                                                !.terminal = Ends(t, "aborted")]]
       ELSE Goto(t, "failing")
    /\ UNCHANGED <<sessionVars, abort>>

\* shouldAbort, or wasAbortRequested at io.EOF
RunJudge(t) ==
    /\ job[t].pc = "judging"
    /\ Goto(t, IF ShouldAbort(t) THEN "stopping" ELSE "failing")
    /\ UNCHANGED <<sessionVars, abort>>

\* emitAbortedAfterCommit
RunStop(t) ==
    /\ job[t].pc = "stopping"
    /\ \/ /\ PartialCommitted(t) \/ PartialIgnored(t) \/ StoppedCommitted(t, job[t].from)
          /\ Publish(t, "aborted")
       \/ /\ PartialUnsaved(t) \/ StoppedUnsaved(t, job[t].from)
          /\ Publish(t, "stream-error")
    /\ UNCHANGED abort

\* Mutant of RunFail: a turn aborted this late returns without an event.
RunFailSilently(t) ==
    /\ job[t].pc = "failing"
    /\ IF ShouldAbort(t)
       THEN Goto(t, IF phase[t] = "ended" THEN "closing" ELSE "finishing")
       ELSE Publish(t, "stream-error")
    /\ UNCHANGED <<sessionVars, abort>>

\* emitError asks shouldAbort once more.
RunFail(t) ==
    /\ job[t].pc = "failing"
    /\ Publish(t, IF ShouldAbort(t) THEN "aborted" ELSE "stream-error")
    /\ UNCHANGED <<sessionVars, abort>>

\* emitTerminal; a stream, when Send returned one, is closed next.
RunPublish(t) ==
    /\ job[t].pc = "publishing"
    /\ LET pc == IF phase[t] \in {"open", "ended"} THEN "closing" ELSE "finishing"
       IN  job' = [job EXCEPT ![t] =
                     [@ EXCEPT !.pc = pc, !.terminal = Ends(t, job[t].verdict)]]
    /\ UNCHANGED <<sessionVars, abort>>

\* defer stream.Close()
RunClose(t) ==
    /\ job[t].pc = "closing"
    /\ Close(t)
    /\ Goto(t, "finishing")
    /\ UNCHANGED abort

\* Mutant of RunFinish: the done channel is not closed.
RunFinishNotDone(t) ==
    /\ job[t].pc = "finishing"
    /\ job' = [job EXCEPT ![t] = [@ EXCEPT !.pc = "finished", !.terminal = Ends(t, "silent")]]
    /\ UNCHANGED <<sessionVars, abort>>

\* defer j.finish()
RunFinish(t) ==
    /\ job[t].pc = "finishing"
    /\ job' = [job EXCEPT ![t] = [@ EXCEPT !.pc = "finished", !.done = TRUE,
                                           !.terminal = Ends(t, "silent")]]
    /\ UNCHANGED <<sessionVars, abort>>

----------------------------------------------------------------------------
(* handleAbortTurn and turnJob.abort *)

\* A terminal turn answers 409, turn_finished.
AbortEnter(a, t) ==
    /\ abort[a].pc = "idle"
    /\ t \in Registered
    /\ \/ /\ IsTerminal(t)
          /\ abort' = [abort EXCEPT ![a] = [pc |-> "conflict", turn |-> t]]
          /\ UNCHANGED job
       \/ /\ ~IsTerminal(t)
          /\ abort' = [abort EXCEPT ![a] = [pc |-> "cancelling", turn |-> t]]
          /\ job' = [job EXCEPT ![t].abortRequested = TRUE]
    /\ UNCHANGED sessionVars

\* Mutant of AbortCancel: the context of the turn is not cancelled.
AbortCancelsNothing(a) ==
    /\ abort[a].pc = "cancelling"
    /\ abort' = [abort EXCEPT ![a].pc = "waiting"]
    /\ UNCHANGED <<sessionVars, job>>

AbortCancel(a) ==
    /\ abort[a].pc = "cancelling"
    /\ job' = [job EXCEPT ![abort[a].turn].cancelled = TRUE]
    /\ abort' = [abort EXCEPT ![a].pc = "waiting"]
    /\ UNCHANGED sessionVars

\* Mutant of AbortAnswer: the terminal event is waited for, not the end.
AbortAnswerAtEvent(a) ==
    /\ abort[a].pc = "waiting"
    /\ IsTerminal(abort[a].turn)
    /\ abort' = [abort EXCEPT ![a].pc = "answered"]
    /\ UNCHANGED <<sessionVars, job>>

\* <-done: the turn is over, and the request is answered 200.
AbortAnswer(a) ==
    /\ abort[a].pc = "waiting"
    /\ job[abort[a].turn].done
    /\ abort' = [abort EXCEPT ![a].pc = "answered"]
    /\ UNCHANGED <<sessionVars, job>>

\* <-ctx.Done(): the client left first.
AbortLeave(a) ==
    /\ abort[a].pc = "waiting"
    /\ abort' = [abort EXCEPT ![a].pc = "left"]
    /\ UNCHANGED <<sessionVars, job>>

----------------------------------------------------------------------------
\* What the server does on its own: no provider and no client is waited for.
ServerStep(t) ==
    Gate(t) \/ RunSend(t) \/ RunJudge(t) \/ RunStop(t) \/ RunFail(t)
            \/ RunPublish(t) \/ RunClose(t) \/ RunFinish(t)

ProviderStep(t) == RunOpen(t) \/ RunNext(t)

AbortStep(a) == AbortCancel(a) \/ AbortAnswer(a)

Next ==
    \/ \E t \in Turns : ValidateCreate(t) \/ ServerStep(t) \/ ProviderStep(t)
    \/ \E a \in AbortRequests :
          AbortStep(a) \/ AbortLeave(a) \/ \E t \in Turns : AbortEnter(a, t)

Spec == Init /\ [][Next]_vars

(***************************************************************************)
(* Goroutines and handlers run; a provider need never answer, but its      *)
(* client returns once the context of the request is cancelled.            *)
(***************************************************************************)
Fairness ==
    /\ \A t \in Turns :
          /\ WF_vars(ServerStep(t))
          /\ WF_vars(job[t].cancelled /\ ProviderStep(t))
    /\ \A a \in AbortRequests : WF_vars(AbortStep(a))

FairSpec == Spec /\ Fairness

----------------------------------------------------------------------------
(***************************************************************************)
(* Every variable holds a value of its type.                               *)
(***************************************************************************)
TypeOK ==
    /\ SessionTypeOK
    /\ job \in [Turns -> JobFields]
    /\ abort \in [AbortRequests -> AbortFields]
    /\ \A a \in AbortRequests : abort[a].pc # "idle" => abort[a].turn \in Registered

(***************************************************************************)
(* The gate admits one turn at a time: while a registered turn has not     *)
(* published its terminal event, no other one runs.                        *)
(***************************************************************************)
Running(t) == t \in Registered /\ ~IsTerminal(t)

OneTurnRuns == \A t, u \in Turns : Running(t) /\ Running(u) => t = u

(***************************************************************************)
(* Every job that ends published a terminal event: no path of run returns  *)
(* with the subscribers' channels merely closed.                           *)
(***************************************************************************)
EveryTurnReports ==
    \A t \in Turns : job[t].done => job[t].terminal \in Verdicts

(***************************************************************************)
(* A reply is written after exactly the messages the model was asked to    *)
(* answer: between Send's copy of the conversation and the commit of that  *)
(* turn nothing else changes it. (CommitStopped never asked a model.)      *)
(***************************************************************************)
ReplyFollowsItsContext ==
    [][\A t \in Turns :
          stored' # stored /\ Holds(t) /\ stream'[t].finalized
          => stored' = stream[t].sent
                         \o <<Prompt(t), Reply(t, stream[t].parts, stream'[t].completed)>>]_vars

(***************************************************************************)
(* The terminal event tells what became of the turn: at `done' the         *)
(* conversation ends with the completed reply, and at `stream-error' no    *)
(* message of the turn is in it.                                           *)
(***************************************************************************)
InStored(t) == \E i \in 1..Len(stored) : stored[i].turn = t

EventMatchesStore ==
    [][\A t \in Turns : ~IsTerminal(t) =>
          /\ job'[t].terminal = "done" =>
                /\ stored # <<>>
                /\ stored[Len(stored)] = Reply(t, stream[t].parts, TRUE)
          /\ job'[t].terminal = "stream-error" => ~InStored(t)]_vars

(***************************************************************************)
(* An abort that was answered 200 is over: the turn has its terminal       *)
(* event, its stream is closed and can write nothing, and the telemetry    *)
(* counted it as completed exactly when the event was `done'.              *)
(***************************************************************************)
Settled(t) ==
    /\ IsTerminal(t)
    /\ phase[t] \in {"refused", "closed"}
    /\ (stream[t].recorded = "completed") <=> (job[t].terminal = "done")

AnsweredIsSettled ==
    \A a \in AbortRequests : abort[a].pc = "answered" => Settled(abort[a].turn)

(***************************************************************************)
(* A terminal event closes the books: a turn commits before its event and  *)
(* never after it, and by then every other turn the conversation holds has *)
(* sent its own. Who reads the conversation between two turns, the         *)
(* follow-up that the event admits included, reads what the events said.   *)
(***************************************************************************)
OnlyRunningTurnWrites ==
    [][stored' # stored =>
          \E t \in Turns :
             /\ Running(t)
             /\ stored' # <<>> /\ stored'[Len(stored')].turn = t
             /\ \A u \in Turns \ {t} : InStored(u) => IsTerminal(u)]_vars

(***************************************************************************)
(* A turn the gate admits finds the session free: the terminal event of a  *)
(* turn allows the next one before the stream is closed                    *)
(* (TestTerminalEventAllowsImmediateFollowUpBeforeStreamClose,             *)
(* server_test.go). One turn leaves it taken until Close: an aborted one   *)
(* whose partial reply the store refused.                                  *)
(***************************************************************************)
AdmittedFindsSessionFree ==
    \A t \in Turns :
        job[t].pc = "created" /\ inFlight =>
            \E u \in Turns : /\ Holds(u)
                            /\ job[u].abortRequested
                            /\ job[u].terminal = "stream-error"

(***************************************************************************)
(* An abort request that cancelled its turn is answered or given up by its *)
(* client: nothing the turn does leaves the handler waiting.               *)
(***************************************************************************)
AbortIsAnswered ==
    \A a \in AbortRequests :
        abort[a].pc = "waiting" ~> abort[a].pc \in {"answered", "left"}

(***************************************************************************)
(* An abort frees the session: the turn ends and the session's flag falls, *)
(* whatever the provider and the store do.                                 *)
(***************************************************************************)
AbortFreesSession ==
    \A t \in Turns : job[t].abortRequested ~> (job[t].done /\ ~Holds(t))

(***************************************************************************)
(* What the tests say of the program, and some schedule of it contradicts: *)
(* an aborted turn stays in the conversation with its partial output       *)
(* (TestAbortedTurnPersistsPartialOutputForFollowUp, server_test.go).      *)
(***************************************************************************)
AbortedIsKept ==
    [][\A t \in Turns :
          ~IsTerminal(t) /\ job'[t].terminal = "aborted" => InStored(t)]_vars
=============================================================================
