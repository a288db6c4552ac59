--------------------------- MODULE TaskLifecycle ---------------------------
(***************************************************************************)
(* A2A tasks: tasks/send, tasks/sendSubscribe with its executor goroutine,    *)
(* tasks/get and tasks/cancel as concurrent calls on one task table, and the   *)
(* claims that their skills take and release.                                  *)
(*                                                                           *)
(* Each handler works on its own copy of the task and writes the whole row    *)
(* back when it is done; the provider calls of a handler are separate steps.   *)
(* How a claim is decided is the subject of ClaimLog: here a claim is granted  *)
(* or refused in one step.                                                    *)
(*                                                                           *)
(* The process may stop between any two steps and start again.  Nothing takes *)
(* up the calls that were in progress: their rows stay submitted and their     *)
(* claims in force until a client cancels them or they lapse.                  *)
(*                                                                           *)
(* A definition whose name ends in an underscored word is a faulty variant of *)
(* the one it precedes.                                                      *)
(*                                                                           *)
(* Sources: internal/a2a, and the task tables of internal/memory, sqlite,     *)
(* postgres and d1.                                                          *)
(***************************************************************************)
EXTENDS Naturals, Sequences, FiniteSets

CONSTANTS
  Providers,   \* the providers considered
  Tasks,       \* task ids, chosen by clients
  Calls,       \* requests that can be in progress at once
  Cap,         \* capacity of the executor's channel (8)
  MaxClaims,   \* bound: claims ever granted
  MaxDeletes,  \* bound: deletions of the namespace
  NoTask       \* the id of a call that has none

ASSUME TaskConstants ==
    /\ Providers \subseteq {"memory", "sqlite", "postgres", "d1"}
    /\ Cap \in Nat \ {0} /\ MaxClaims \in Nat /\ MaxDeletes \in Nat
    /\ NoTask \notin Tasks

VARIABLES
  provider,   \* the provider of this deployment; no action changes it
  task,       \* the row of each task
  history,    \* the tasks with a row in the history table
  artifact,   \* the tasks with a row in the artifact table
  claims,     \* the claims in force that a skill took
  taker,      \* history: the task on whose behalf each claim was granted
  call,       \* what each call is doing
  deleter,    \* the statement that the deletion of the namespace has reached
  deletes,    \* how many deletions there were
  troubled,   \* history: tasks with a failed provider call, a client that left, a
              \* crash of the process at work on them, or a deletion of the namespace
  unkept      \* history: tasks with an artifact that a stream could not store, or a
              \* deletion of the namespace

vars == <<provider, task, history, artifact, claims, taker, call, deleter, deletes,
          troubled, unkept>>

NoClaim == 0
ClaimId == 1..MaxClaims
States == {"submitted", "working", "input-required", "completed", "failed", "canceled"}
Terminal == {"completed", "failed", "canceled"}
NoRow == [state |-> "none", claim |-> NoClaim]
Skills == {"claim", "release", "other"}

Event == [type : {"status", "artifact", "error", "done"}, state : States,
          claim : ClaimId \cup {NoClaim}]

\* A call: the method, where it is, its copy of the task, whether its client has
\* left, whether tasks/get has the artifact or took a failed query for none, and for
\* a stream the executor with its channel.
Call == [method : {"none", "send", "stream", "cancel", "get"},
         at : {"idle", "history", "skill", "artifact", "complete", "fail", "loop",
               "update", "artifacts", "answered"},
         id : Tasks \cup {NoTask}, skill : Skills, state : States \cup {"none"},
         claim : ClaimId \cup {NoClaim}, gone : BOOLEAN, art : BOOLEAN, unread : BOOLEAN,
         exec : {"off", "submitted", "early", "working", "check", "run", "artifact",
                 "complete", "done", "error", "closed"},
         events : Seq(Event), spoke : BOOLEAN, late : BOOLEAN]

Idle == [method |-> "none", at |-> "idle", id |-> NoTask, skill |-> "other", state |-> "none",
         claim |-> NoClaim, gone |-> FALSE, art |-> FALSE, unread |-> FALSE, exec |-> "off",
         events |-> <<>>, spoke |-> FALSE, late |-> FALSE]

Stored == {t \in Tasks : task[t].state # "none"}

\* Types; "working" is never stored, and the channel never holds more than its
\* capacity (task.go:72-88, handler_tasks.go:51, task_executor.go:34).
TypeOK ==
    /\ provider \in Providers
    /\ task \in [Tasks -> [state : {"none", "submitted"} \cup Terminal,
                           claim : ClaimId \cup {NoClaim}]]
    /\ history \subseteq Tasks /\ artifact \subseteq Tasks
    /\ troubled \subseteq Tasks /\ unkept \subseteq Tasks
    /\ claims \subseteq 1..Len(taker)
    /\ taker \in Seq(Tasks) /\ Len(taker) <= MaxClaims
    /\ call \in [Calls -> Call]
    /\ \A c \in Calls : Len(call[c].events) <= Cap
    /\ deleter \in 0..4 /\ deletes \in 0..MaxDeletes

----------------------------------------------------------------------------
\* The task tables of the providers.  In memory a call fails only on a missing or
\* a duplicate task; d1 does not look at the context of the call.

MemoryAnswers(op, t) == {CASE op = "create" -> t \notin Stored
                           [] op = "update" -> t \in Stored
                           [] OTHER -> TRUE}

\* The keys of the tables; an UPDATE that meets no row succeeds.
KeysAllow(op, t) == CASE op = "create" -> t \notin Stored
                      [] op = "history" -> t \notin history
                      [] op = "artifact" -> t \notin artifact
                      [] OTHER -> TRUE

D1Answers(op, t) == {FALSE} \cup {KeysAllow(op, t)}

SqlAnswers(gone, op, t) == IF gone THEN {FALSE} ELSE {FALSE} \cup {KeysAllow(op, t)}

AnswersTo(gone, op, t) ==
    CASE provider = "memory" -> MemoryAnswers(op, t)
      [] provider = "d1" -> D1Answers(op, t)
      [] OTHER -> SqlAnswers(gone, op, t)

Answers(c, op) == AnswersTo(call[c].gone, op, call[c].id)

\* Marks the task of a call whose provider call failed.
Trouble(c, ok) == troubled' = IF ok THEN troubled ELSE troubled \cup {call[c].id}

Row(state, claim) == [state |-> state, claim |-> claim]

\* The whole row is written, if there is one; an update is a write and not a merge.
UpdateTask(c, ok, state, claim) ==
    /\ Trouble(c, ok)
    /\ task' = IF ok /\ call[c].id \in Stored
               THEN [task EXCEPT ![call[c].id] = Row(state, claim)] ELSE task

\* Transition: where a task may go from a state.
Allowed(from) == CASE from = "submitted" -> {"working", "input-required", "failed", "canceled"}
                   [] from = "working" -> {"input-required", "completed", "failed", "canceled"}
                   [] from = "input-required" -> {"working", "canceled"}
                   [] OTHER -> {}

Go(c, record) == call' = [call EXCEPT ![c] = record]

Step(c, at) == Go(c, [call[c] EXCEPT !.at = at])

Return(c) == Go(c, Idle)

At(c, method, at) == call[c].method = method /\ call[c].at = at

----------------------------------------------------------------------------
\* tasks/send and tasks/sendSubscribe.

\* CreateTask; a failure is answered, and nothing else happens.
Start(c, method, t, skill) ==
    /\ call[c].at = "idle"
    /\ method = "stream" => provider # "d1"
    /\ Go(c, [Idle EXCEPT !.method = method, !.id = t, !.skill = skill,
                          !.state = "submitted", !.at = "history"])
    /\ TRUE \in AnswersTo(FALSE, "create", t)
    /\ task' = [task EXCEPT ![t] = Row("submitted", NoClaim)]
    /\ UNCHANGED <<provider, history, artifact, claims, taker, deleter, deletes, troubled, unkept>>

\* The answer of AppendTaskHistory ends a send, and is ignored by a stream.
AppendHistory(c) ==
    \E ok \in Answers(c, "history") :
        /\ call[c].at = "history"
        /\ history' = IF ok THEN history \cup {call[c].id} ELSE history
        /\ Trouble(c, ok)
        /\ \/ /\ call[c].method = "send"
              /\ IF ok THEN Go(c, [call[c] EXCEPT !.at = "skill", !.state = "working"])
                       ELSE Return(c)
           \/ /\ call[c].method = "stream"
              /\ Go(c, [call[c] EXCEPT !.at = "loop", !.exec = "submitted",
                                       !.late = call[c].gone])
        /\ UNCHANGED <<provider, task, artifact, claims, taker, deleter, deletes, unkept>>

\* Whether a provider call on behalf of a skill can succeed, and can fail.
CanSucceed(c) == ~(call[c].gone /\ provider \in {"sqlite", "postgres"})
CanFail(c) == provider # "memory"

\* executeSkill: outcome "ok" or "error", with the claim the task then names.
\* claim_resource is granted, refused over a claim in force, or fails.
SkillClaim(c, outcome, claim) ==
    /\ call[c].skill = "claim"
    /\ \/ /\ outcome = "ok"
          /\ CanSucceed(c)
          /\ claim = Len(taker) + 1
          /\ claim \in ClaimId
          /\ claims' = claims \cup {claim}
          /\ taker' = Append(taker, call[c].id)
       \/ /\ outcome = "error"
          /\ claims # {} \/ CanFail(c)
          /\ claim = NoClaim
          /\ UNCHANGED <<claims, taker>>

\* release_resource names any claim; the task does not carry it.
SkillRelease(c, outcome, claim) ==
    /\ call[c].skill = "release"
    /\ claim = NoClaim
    /\ \/ /\ outcome = "ok"
          /\ CanSucceed(c)
          /\ \E held \in ClaimId : claims' = claims \ {held}
       \/ outcome = "error" /\ CanFail(c) /\ UNCHANGED claims
    /\ UNCHANGED taker

\* check_conflict, query_mailbox, send_mailbox, and a message without a skill.
SkillOther(c, outcome, claim) ==
    /\ call[c].skill = "other"
    /\ outcome \in {"ok", "error"}
    /\ claim = NoClaim
    /\ UNCHANGED <<claims, taker>>

ExecuteSkill(c, outcome, claim) ==
    \/ SkillClaim(c, outcome, claim)
    \/ SkillRelease(c, outcome, claim)
    \/ SkillOther(c, outcome, claim)

\* Variants: the task is stored as working, with its claim, or as completed,
\* before the artifacts.
SendSkillStoring(c, state) ==
    /\ At(c, "send", "skill")
    /\ \E claim \in ClaimId \cup {NoClaim} :
         /\ ExecuteSkill(c, "ok", claim)
         /\ Go(c, [call[c] EXCEPT !.at = "artifact", !.claim = claim])
         /\ task' = [task EXCEPT ![call[c].id] = Row(state, claim)]
    /\ UNCHANGED <<provider, history, artifact, deleter, deletes, troubled, unkept>>
SendSkill_working(c) == SendSkillStoring(c, "working")
SendSkill_rowFirst(c) == SendSkillStoring(c, "completed")

SendSkill(c) ==
    /\ At(c, "send", "skill")
    /\ \E outcome \in {"ok", "error"}, claim \in ClaimId \cup {NoClaim} :
         /\ ExecuteSkill(c, outcome, claim)
         /\ Go(c, [call[c] EXCEPT !.claim = claim,
                                  !.at = IF outcome = "ok" THEN "artifact" ELSE "fail"])
    /\ UNCHANGED <<provider, task, history, artifact, deleter, deletes, troubled, unkept>>

\* The skill failed: the answer of UpdateTask is ignored.
SendFail(c) ==
    \E ok \in Answers(c, "update") :
        /\ At(c, "send", "fail")
        /\ UpdateTask(c, ok, "failed", call[c].claim)
        /\ Return(c)
        /\ UNCHANGED <<provider, history, artifact, claims, taker, deleter, deletes, unkept>>

\* Every skill but release_resource makes one artifact; if it cannot be stored,
\* the row stays as it is, and so does the claim.
SendArtifact(c) ==
    \E ok \in Answers(c, "artifact") :
        /\ At(c, "send", "artifact")
        /\ \/ call[c].skill = "release" /\ Step(c, "complete") /\ UNCHANGED <<artifact, troubled>>
           \/ /\ call[c].skill # "release"
              /\ IF ok THEN Step(c, "complete") ELSE Return(c)
              /\ artifact' = IF ok THEN artifact \cup {call[c].id} ELSE artifact
              /\ Trouble(c, ok)
        /\ UNCHANGED <<provider, task, history, claims, taker, deleter, deletes, unkept>>

SendComplete(c) ==
    \E ok \in Answers(c, "update") :
        /\ At(c, "send", "complete")
        /\ UpdateTask(c, ok, "completed", call[c].claim)
        /\ Return(c)
        /\ UNCHANGED <<provider, history, artifact, claims, taker, deleter, deletes, unkept>>

----------------------------------------------------------------------------
\* The executor goroutine of tasks/sendSubscribe.

Quiet == UNCHANGED <<provider, task, history, artifact, deleter, deletes, troubled, unkept>>

Emit(record, type) ==
    [record EXCEPT !.events = Append(@, [type |-> type, state |-> record.state,
                                         claim |-> record.claim]),
                   !.spoke = TRUE]

\* send: the event goes on the channel unless the client left; if both are
\* possible the runtime takes either.
Send(c, record, type, sentTo, droppedTo) ==
    \/ Len(call[c].events) < Cap /\ Go(c, [Emit(record, type) EXCEPT !.exec = sentTo])
    \/ call[c].gone /\ Go(c, [record EXCEPT !.exec = droppedTo])

ExecSubmitted(c) ==
    /\ call[c].exec = "submitted"
    /\ Send(c, call[c], "status", "working", "early")
    /\ UNCHANGED <<claims, taker>> /\ Quiet

\* Variant: the error goes through send like the others.
ExecEarly_send(c) ==
    /\ call[c].exec = "early"
    /\ Send(c, call[c], "error", "closed", "closed")
    /\ UNCHANGED <<claims, taker>> /\ Quiet

\* The first send was dropped: the error is put on the channel without send.
ExecEarly(c) ==
    /\ call[c].exec = "early"
    /\ Len(call[c].events) < Cap
    /\ Go(c, [Emit(call[c], "error") EXCEPT !.exec = "closed"])
    /\ UNCHANGED <<claims, taker>> /\ Quiet

ExecWorking(c) ==
    /\ call[c].exec = "working"
    /\ Send(c, [call[c] EXCEPT !.state = "working"], "status", "check", "closed")
    /\ UNCHANGED <<claims, taker>> /\ Quiet

\* Variant: the context is not looked at before the skill.
ExecCheck_skipped(c) ==
    /\ call[c].exec = "check"
    /\ Go(c, [call[c] EXCEPT !.exec = "run"])
    /\ UNCHANGED <<claims, taker>> /\ Quiet

ExecCheck(c) ==
    /\ call[c].exec = "check"
    /\ Go(c, IF call[c].gone THEN [call[c] EXCEPT !.exec = "error", !.state = "failed"]
                             ELSE [call[c] EXCEPT !.exec = "run"])
    /\ UNCHANGED <<claims, taker>> /\ Quiet

ExecRun(c) ==
    /\ call[c].exec = "run"
    /\ \E outcome \in {"ok", "error"}, claim \in ClaimId \cup {NoClaim} :
         /\ ExecuteSkill(c, outcome, claim)
         /\ Go(c, [call[c] EXCEPT
                     !.claim = claim,
                     !.state = IF outcome = "ok" THEN @ ELSE "failed",
                     !.exec = CASE outcome = "error" -> "error"
                                [] call[c].skill = "release" -> "complete"
                                [] OTHER -> "artifact"])
    /\ Quiet

ExecArtifact(c) ==
    /\ call[c].exec = "artifact"
    /\ Send(c, call[c], "artifact", "complete", "closed")
    /\ UNCHANGED <<claims, taker>> /\ Quiet

ExecComplete(c) ==
    /\ call[c].exec = "complete"
    /\ Send(c, [call[c] EXCEPT !.state = "completed"], "status", "done", "closed")
    /\ UNCHANGED <<claims, taker>> /\ Quiet

\* The last event, after which the channel is closed.
ExecLast(c) ==
    /\ call[c].exec \in {"done", "error"}
    /\ Send(c, call[c], call[c].exec, "closed", "closed")
    /\ UNCHANGED <<claims, taker>> /\ Quiet

\* The handler of tasks/sendSubscribe reads the channel until it is closed.

NextEvent(c) == Head(call[c].events)
Taken(c) == [call[c] EXCEPT !.events = Tail(@)]

StreamStatus(c) ==
    /\ At(c, "stream", "loop") /\ call[c].events # <<>>
    /\ NextEvent(c).type = "status"
    /\ Go(c, Taken(c))
    /\ UNCHANGED <<claims, taker>> /\ Quiet

\* Whether the artifact could be stored is not looked at: the stream goes on, and its
\* task may be completed without.
StreamArtifact(c) ==
    \E ok \in Answers(c, "artifact") :
        /\ At(c, "stream", "loop") /\ call[c].events # <<>>
        /\ NextEvent(c).type = "artifact"
        /\ artifact' = IF ok THEN artifact \cup {call[c].id} ELSE artifact
        /\ unkept' = IF ok THEN unkept ELSE unkept \cup {call[c].id}
        /\ Trouble(c, ok)
        /\ Go(c, Taken(c))
        /\ UNCHANGED <<provider, task, history, claims, taker, deleter, deletes>>

\* Variant: the final state is sent to the client and not stored.
StreamEnd_unstored(c) ==
    /\ At(c, "stream", "loop") /\ call[c].events # <<>>
    /\ NextEvent(c).type \in {"error", "done"}
    /\ Return(c)
    /\ UNCHANGED <<claims, taker>> /\ Quiet

\* Error and done carry a task, which is stored; the handler returns.
StreamEnd(c) ==
    \E ok \in Answers(c, "update") :
        /\ At(c, "stream", "loop") /\ call[c].events # <<>>
        /\ NextEvent(c).type \in {"error", "done"}
        /\ UpdateTask(c, ok, NextEvent(c).state, NextEvent(c).claim)
        /\ Return(c)
        /\ UNCHANGED <<provider, history, artifact, claims, taker, deleter, deletes, unkept>>

\* The channel is closed with no final event: nothing is stored.
StreamClosed(c) ==
    /\ At(c, "stream", "loop") /\ call[c].events = <<>> /\ call[c].exec = "closed"
    /\ Return(c)
    /\ UNCHANGED <<claims, taker>> /\ Quiet

----------------------------------------------------------------------------
\* tasks/cancel reads the row, releases the claim it names, and writes the row back.

CancelRead(c, t) ==
    /\ call[c].at = "idle"
    /\ t \in Stored
    /\ task[t].state \notin Terminal
    /\ Go(c, [Idle EXCEPT !.method = "cancel", !.at = "update", !.id = t,
                          !.state = task[t].state, !.claim = task[t].claim])
    /\ UNCHANGED <<claims, taker>> /\ Quiet

CancelUpdate(c) ==
    \E ok \in Answers(c, "update") :
        /\ At(c, "cancel", "update")
        /\ "canceled" \in Allowed(call[c].state)
        /\ UpdateTask(c, ok, "canceled", call[c].claim)
        /\ claims' \in {claims \ {call[c].claim}}
                         \cup (IF CanFail(c) THEN {claims} ELSE {})
        /\ Return(c)
        /\ UNCHANGED <<provider, history, artifact, taker, deleter, deletes, unkept>>

\* tasks/get reads the row, and then the artifacts.
GetTask(c, t) ==
    /\ call[c].at = "idle"
    /\ t \in Stored
    /\ Go(c, [Idle EXCEPT !.method = "get", !.at = "artifacts", !.id = t,
                          !.state = task[t].state, !.claim = task[t].claim])
    /\ UNCHANGED <<claims, taker>> /\ Quiet

\* A query that fails ends the call with an error, but in d1 it comes back as a task
\* without artifacts: the answer does not tell it from one that has none.
GetArtifacts(c) ==
    /\ At(c, "get", "artifacts")
    /\ \/ Go(c, [call[c] EXCEPT !.at = "answered", !.art = call[c].id \in artifact])
       \/ provider \in {"sqlite", "postgres"} /\ Return(c)
       \/ provider = "d1" /\ Go(c, [call[c] EXCEPT !.at = "answered", !.unread = TRUE])
    /\ UNCHANGED <<claims, taker>> /\ Quiet

GetReturns(c) ==
    /\ At(c, "get", "answered")
    /\ Return(c)
    /\ UNCHANGED <<claims, taker>> /\ Quiet

----------------------------------------------------------------------------
\* The world.

\* The client of a call goes away, which a send notices by its provider only.
Disconnect(c) ==
    /\ \/ call[c].method = "send" /\ provider \in {"sqlite", "postgres"}
       \/ call[c].method = "stream"
    /\ ~call[c].gone
    /\ Go(c, [call[c] EXCEPT !.gone = TRUE])
    /\ troubled' = troubled \cup {call[c].id}
    /\ UNCHANGED <<provider, task, history, artifact, claims, taker, deleter, deletes, unkept>>

\* A claim reaches its time to live.
Lapse(claim) ==
    /\ claim \in claims
    /\ claims' = claims \ {claim}
    /\ UNCHANGED taker /\ UNCHANGED call /\ Quiet

\* The statements of DeleteNamespace, in their order.
DeleteRows(statements) ==
    /\ history' = IF 1 \in statements THEN history \ Stored ELSE history
    /\ artifact' = IF 2 \in statements THEN artifact \ Stored ELSE artifact
    /\ task' = IF 3 \in statements THEN [t \in Tasks |-> NoRow] ELSE task
    /\ claims' = IF 4 \in statements THEN {} ELSE claims
    /\ troubled' = Tasks /\ unkept' = Tasks
    /\ UNCHANGED <<provider, taker, call>>

\* One lock in memory, one transaction in sqlite; one statement after the other
\* in postgres and d1.
DeleteNamespace ==
    /\ deleter = 0
    /\ deletes < MaxDeletes
    /\ deletes' = deletes + 1
    /\ \/ provider \in {"memory", "sqlite"} /\ DeleteRows(1..4) /\ deleter' = 0
       \/ provider \in {"postgres", "d1"} /\ DeleteRows({1}) /\ deleter' = 2

DeleteStatement ==
    /\ deleter # 0
    /\ DeleteRows({deleter})
    /\ deleter' = (deleter + 1) % 5
    /\ UNCHANGED deletes

\* A statement fails: postgres gives up, d1 goes on.
DeleteFails ==
    /\ deleter # 0
    /\ deleter' = IF provider = "d1" THEN (deleter + 1) % 5 ELSE 0
    /\ DeleteRows({})
    /\ UNCHANGED deletes

\* The tasks that a send or a stream is at work on.
InProgress == {call[c].id : c \in {d \in Calls : call[d].method \in {"send", "stream"}}}

\* The process stops and starts again: calls end wherever they are, and memory
\* loses its tables and its log, so that claims can be counted anew.
Restart ==
    /\ call' = [c \in Calls |-> Idle]
    /\ troubled' = troubled \cup InProgress
    /\ deleter' = 0
    /\ \/ /\ provider = "memory"
          /\ task' = [t \in Tasks |-> NoRow]
          /\ history' = {} /\ artifact' = {} /\ claims' = {} /\ taker' = <<>>
       \/ provider # "memory" /\ UNCHANGED <<task, history, artifact, claims, taker>>
    /\ UNCHANGED <<provider, deletes, unkept>>

----------------------------------------------------------------------------
Init ==
    /\ provider \in Providers
    /\ task = [t \in Tasks |-> NoRow]
    /\ history = {} /\ artifact = {} /\ claims = {} /\ troubled = {} /\ unkept = {}
    /\ taker = <<>>
    /\ call = [c \in Calls |-> Idle]
    /\ deleter = 0 /\ deletes = 0

Handler(c) ==
    \/ AppendHistory(c)
    \/ SendSkill(c) \/ SendFail(c) \/ SendArtifact(c) \/ SendComplete(c)
    \/ StreamStatus(c) \/ StreamArtifact(c) \/ StreamEnd(c) \/ StreamClosed(c)
    \/ CancelUpdate(c) \/ GetArtifacts(c) \/ GetReturns(c)

Executor(c) ==
    \/ ExecSubmitted(c) \/ ExecEarly(c) \/ ExecWorking(c) \/ ExecCheck(c) \/ ExecRun(c)
    \/ ExecArtifact(c) \/ ExecComplete(c) \/ ExecLast(c)

Request(c) ==
    \E t \in Tasks : \/ \E method \in {"send", "stream"}, skill \in Skills :
                            Start(c, method, t, skill)
                     \/ CancelRead(c, t)
                     \/ GetTask(c, t)

Next ==
    \/ \E c \in Calls : Request(c) \/ Handler(c) \/ Executor(c) \/ Disconnect(c)
    \/ \E claim \in ClaimId : Lapse(claim)
    \/ DeleteNamespace \/ DeleteStatement \/ DeleteFails
    \/ Restart

Spec == Init /\ [][Next]_vars

\* While the process is up, the runtime runs handlers and goroutines that can run; of
\* a call that a restart has ended nothing is required.
FairSpec == Spec /\ \A c \in Calls : WF_vars(Handler(c)) /\ WF_vars(Executor(c))

----------------------------------------------------------------------------
\* Properties.

\* The row of an unfinished task names no claim: the release in tasks/cancel is
\* never reached, because claim ids are stored with the final state only
\* (handler_tasks.go:72,234-246).
UnfinishedNamesNoClaim ==
    \A t \in Stored : task[t].state \notin Terminal => task[t].claim = NoClaim

Carries(c, claim) ==
    \/ call[c].claim = claim
    \/ \E i \in DOMAIN call[c].events : call[c].events[i].claim = claim

\* A claim in force is named by the row of its task or by a call at work, unless
\* that task was cancelled, its client left, the process crashed at work on it, or
\* the provider failed (handler_tasks.go:57-86,157-183).
ClaimsTraceable ==
    \A claim \in claims :
        \/ task[taker[claim]].claim = claim \/ \E c \in Calls : Carries(c, claim)
        \/ task[taker[claim]].state = "canceled" \/ taker[claim] \in troubled

\* The row of a task that is completed with a claim stands for an artifact that names the
\* claim, and who is shown the one is shown the other: the artifact is stored before
\* the row and read after it, whatever fails or crashes in between
\* (handler_tasks.go:66-86,191-211).  Two errors go unnoticed and are left out:
\* that of a stream that cannot store the artifact (handler_tasks.go:162-165), and that
\* of a query of d1, which tasks/get takes for no artifacts (d1.go:432-434).
ArtifactsBeforeRow ==
    /\ \A t \in Stored \ unkept :
           task[t].state = "completed" /\ task[t].claim # NoClaim => t \in artifact
    /\ \A c \in Calls :
           At(c, "get", "answered") /\ call[c].state = "completed" /\ call[c].claim # NoClaim
               => call[c].art \/ call[c].unread \/ call[c].id \in unkept

\* A stream whose client had left before its executor began runs no skill
\* (task_executor.go:75-84; the comment at task_executor_test.go:120).
NoSkillOnceGone == \A c \in Calls : call[c].exec = "run" => ~call[c].late

\* The executor never closes its channel on an empty stream
\* (task_executor.go:48-58; task_executor_test.go:122-124).
SomeEvent == \A c \in Calls : call[c].exec = "closed" => call[c].spoke

\* A submitted task is finished, cancelled or deleted in the end, unless the
\* provider failed it, its client left, or the process crashed at work on it: after
\* a crash nothing looks for submitted rows, and such a task stays submitted until a client
\* cancels it (handler_tasks.go:38-91,146-180).
TaskSettles ==
    \A t \in Tasks : (task[t].state = "submitted")
                         ~> (task[t].state # "submitted" \/ t \in troubled)

\* What docs/superpowers/specs/2026-05-26-a2a-security-fixes-design.md:51-53 asks for,
\* "Check CreateArtifact error", "Check GetArtifacts error, return -32003 if retrieval
\* fails", comes to this: a completed task with a claim is shown with its artifact.
ShownWithArtifact ==
    \A c \in Calls :
        At(c, "get", "answered") /\ call[c].state = "completed" /\ call[c].claim # NoClaim
            => call[c].art

\* What docs/superpowers/specs/2026-05-26-a2a-adapter-design.md:529 says of
\* tasks/cancel: "releases the claim and marks canceled".  A canceled task of a
\* call that is over has no claim in force.
CanceledHoldsNothing ==
    \A claim \in claims :
        task[taker[claim]].state = "canceled" => \E c \in Calls : call[c].id = taker[claim]

\* What docs/superpowers/specs/2026-05-26-sse-streaming-design.md:217 says: "On
\* disconnect, it releases any held claim and marks the task failed".
DisconnectReleases ==
    \A c \in Calls : At(c, "stream", "loop") /\ call[c].gone /\ call[c].exec = "closed"
                         /\ call[c].events = <<>> => call[c].claim \notin claims
=============================================================================
