------------------------ MODULE TaskLifecycle_proofs ------------------------
(***************************************************************************)
(* Theorems about tasks, for any providers, tasks, calls and bounds.  A row    *)
(* takes what a call carries when it ends, so the invariant follows the state  *)
(* and the claim from the executor through its channel to the row.            *)
(***************************************************************************)
EXTENDS TaskLifecycle, TLAPS

\* A final event carries a final state, or comes from an executor that took no claim.
FinalEvent(e) ==
    e.type \in {"error", "done"} =>
        /\ e.state \in Terminal \cup {"submitted"}
        /\ e.state \notin Terminal => e.claim = NoClaim

\* What is true of each call: of its executor's place and of the events that are under way.
Sound(k) ==
    /\ k \in Call
    /\ Len(k.events) <= Cap
    /\ \A i \in DOMAIN k.events : FinalEvent(k.events[i])
    /\ k.at # "idle" \/ k.method # "none" => k.id \in Tasks
    /\ k.exec # "off" => k.at = "loop" /\ k.state # "none"
    /\ k.at = "history" => k.state = "submitted" /\ k.claim = NoClaim
    /\ k.exec \in {"submitted", "early"} => k.state = "submitted" /\ k.claim = NoClaim
    /\ k.exec = "error" => k.state = "failed"
    /\ k.exec = "done" => k.state = "completed"
    /\ k.exec \notin {"off", "submitted", "early"} => k.spoke
    /\ k.late => k.gone
    /\ k.exec = "run" => ~k.late

Rows == [state : {"none", "submitted"} \cup Terminal, claim : ClaimId \cup {NoClaim}]

\* The types but for those of the calls.
Tables ==
    /\ provider \in Providers
    /\ task \in [Tasks -> Rows]
    /\ history \subseteq Tasks /\ artifact \subseteq Tasks
    /\ troubled \subseteq Tasks /\ unkept \subseteq Tasks
    /\ claims \subseteq 1..Len(taker)
    /\ taker \in Seq(Tasks) /\ Len(taker) <= MaxClaims
    /\ deleter \in 0..4 /\ deletes \in 0..MaxDeletes

IInv ==
    /\ Tables
    /\ \A t \in Tasks : task[t].state \notin Terminal => task[t].claim = NoClaim
    /\ call \in [Calls -> Call] /\ \A c \in Calls : Sound(call[c])

----------------------------------------------------------------------------
\* A call that is over, or has not begun.
LEMMA IdleSound == Sound(Idle)
<1>1. Idle \in Call /\ Idle.events = <<>> /\ Idle.at = "idle" /\ Idle.exec = "off" /\ ~Idle.late
      /\ Idle.method = "none"
  BY TaskConstants DEF Idle, Call, States, Skills, NoClaim, Event
<1> QED
  BY <1>1, TaskConstants DEF Sound

\* The invariant holds at first.
LEMMA InitIInv == Init => IInv
<1> SUFFICES ASSUME Init PROVE IInv
  OBVIOUS
<1>1. Tables
  BY TaskConstants DEF Init, Tables, Rows, NoRow, NoClaim
<1>2. \A c \in Calls : call[c] = Idle
  BY DEF Init
<1>3. call \in [Calls -> Call]
  BY IdleSound DEF Init, Sound
<1> QED
  BY <1>1, <1>2, <1>3, IdleSound DEF Init, IInv, NoRow

\* One call moves on to what is sound.
LEMMA GoSound ==
  ASSUME IInv, NEW c \in Calls, NEW k, Go(c, k), Sound(k)
  PROVE  call' \in [Calls -> Call] /\ \A d \in Calls : Sound(call'[d])
<1>1. call' = [call EXCEPT ![c] = k] /\ k \in Call /\ call \in [Calls -> Call]
  BY DEF Go, Sound, IInv
<1>2. \A d \in Calls : call'[d] = IF d = c THEN k ELSE call[d]
  BY <1>1
<1> QED
  BY <1>1, <1>2 DEF IInv

\* A call that moves on, with the tables as they are but for the claims.
LEMMA QuietIInv ==
  ASSUME IInv, NEW c \in Calls, NEW k, Go(c, k), Sound(k), Quiet,
         claims' \subseteq 1..Len(taker'), taker' \in Seq(Tasks), Len(taker') <= MaxClaims
  PROVE  IInv'
<1>1. Tables'
  BY DEF IInv, Tables, Quiet
<1> QED
  BY <1>1, GoSound DEF IInv, Quiet

\* What a provider call leaves in the tables of troubled tasks.
LEMMA TroubleTasks ==
  ASSUME IInv, NEW c \in Calls, call[c].at # "idle", NEW ok, Trouble(c, ok)
  PROVE  troubled' \subseteq Tasks /\ call[c].id \in Tasks
BY DEF IInv, Tables, Sound, Trouble

\* A row that is written at the end of a call.
LEMMA UpdateIInv ==
  ASSUME IInv, NEW c \in Calls, call[c].at # "idle", NEW ok, NEW state,
         NEW claim \in ClaimId \cup {NoClaim},
         state \in Terminal \cup {"submitted"}, state \notin Terminal => claim = NoClaim,
         UpdateTask(c, ok, state, claim), Return(c),
         UNCHANGED <<provider, history, artifact, taker, deleter, deletes, unkept>>,
         claims' \subseteq claims
  PROVE  IInv'
<1>1. troubled' \subseteq Tasks /\ call[c].id \in Tasks
  BY TroubleTasks DEF UpdateTask
<1>2. Row(state, claim) \in Rows
  BY DEF Row, Rows
<1>3. task' \in [Tasks -> Rows]
  BY <1>1, <1>2 DEF UpdateTask, IInv, Tables
<1>4. \A t \in Tasks : task'[t].state \notin Terminal => task'[t].claim = NoClaim
  BY <1>1 DEF UpdateTask, IInv, Tables, Row
<1>5. Tables'
  BY <1>1, <1>3 DEF IInv, Tables
<1> QED
  BY <1>4, <1>5, GoSound, IdleSound DEF IInv, Return

\* What a skill leaves of the claims.
LEMMA SkillClaims ==
  ASSUME IInv, NEW c \in Calls, call[c].at # "idle", NEW outcome, NEW claim,
         ExecuteSkill(c, outcome, claim)
  PROVE  /\ claims' \subseteq 1..Len(taker') /\ taker' \in Seq(Tasks)
         /\ Len(taker') <= MaxClaims
<1>1. /\ call[c].id \in Tasks /\ taker \in Seq(Tasks) /\ claims \subseteq 1..Len(taker)
      /\ Len(taker) <= MaxClaims /\ Len(taker) \in Nat
  BY DEF IInv, Sound, Tables
<1>2. CASE claim = Len(taker) + 1 /\ claim \in ClaimId /\ claims' = claims \cup {claim}
           /\ taker' = Append(taker, call[c].id)
  <2>1. Len(taker') = Len(taker) + 1 /\ taker' \in Seq(Tasks)
    BY <1>1, <1>2
  <2>2. Len(taker) + 1 <= MaxClaims
    BY <1>1, <1>2, TaskConstants DEF ClaimId
  <2>3. ASSUME NEW x \in claims' PROVE x \in 1..(Len(taker) + 1)
    <3>1. x \in 1..Len(taker) \/ x = Len(taker) + 1
      BY <1>1, <1>2, <2>3
    <3> QED
      BY <1>1, <3>1
  <2> QED
    BY <2>1, <2>2, <2>3
<1>3. CASE taker' = taker /\ claims' \subseteq claims
  BY <1>1, <1>3
<1> QED
  BY <1>2, <1>3 DEF ExecuteSkill, SkillClaim, SkillRelease, SkillOther

----------------------------------------------------------------------------
\* An event goes on the channel.
LEMMA EmitSound ==
  ASSUME NEW k, Sound(k), k.exec # "off", Len(k.events) < Cap,
         NEW state \in States, NEW type \in {"status", "artifact", "error", "done"},
         NEW exec \in {"early", "working", "check", "complete", "done", "error", "closed"},
         exec # "early", exec # "error", exec = "done" => state = "completed",
         type \in {"error", "done"} => /\ state \in Terminal \cup {"submitted"}
                                       /\ state \notin Terminal => k.claim = NoClaim
  PROVE  Sound([Emit([k EXCEPT !.state = state], type) EXCEPT !.exec = exec])
<1> DEFINE event == [type |-> type, state |-> state, claim |-> k.claim]
           next == [k EXCEPT !.state = state, !.events = Append(k.events, event),
                             !.spoke = TRUE, !.exec = exec]
<1>1. k \in Call /\ k.at = "loop" /\ k.id \in Tasks /\ k.events \in Seq(Event)
      /\ k.late \in BOOLEAN /\ k.gone \in BOOLEAN /\ (k.late => k.gone)
  BY DEF Sound, Call
<1>2. event \in Event /\ FinalEvent(event)
  <2>1. event \in Event
    BY <1>1 DEF Event, Call
  <2> QED
    BY <2>1 DEF FinalEvent
<1>3. [Emit([k EXCEPT !.state = state], type) EXCEPT !.exec = exec] = next
  BY <1>1 DEF Emit, Call
<1> HIDE DEF event
<1>4. /\ Append(k.events, event) \in Seq(Event)
      /\ Len(Append(k.events, event)) = Len(k.events) + 1 /\ Len(k.events) \in Nat
      /\ \A i \in 1..Len(k.events) : Append(k.events, event)[i] = k.events[i]
      /\ Append(k.events, event)[Len(k.events) + 1] = event
      /\ DOMAIN Append(k.events, event) = 1..(Len(k.events) + 1)
      /\ DOMAIN k.events = 1..Len(k.events)
  BY <1>1, <1>2
<1>5. \A i \in DOMAIN Append(k.events, event) : FinalEvent(Append(k.events, event)[i])
  <2> TAKE i \in DOMAIN Append(k.events, event)
  <2>1. i \in 1..Len(k.events) \/ i = Len(k.events) + 1
    BY <1>4
  <2>2. CASE i \in 1..Len(k.events)
    BY <1>4, <2>2 DEF Sound
  <2> QED
    BY <1>2, <1>4, <2>1, <2>2
<1>6. /\ next.at = k.at /\ next.id = k.id /\ next.exec = exec /\ next.spoke
      /\ next.late = k.late /\ next.gone = k.gone /\ next.state = state
      /\ next.events = Append(k.events, event) /\ next \in Call
  BY <1>1, <1>4 DEF Call
<1>7. Len(next.events) <= Cap
  BY <1>4, <1>6, TaskConstants
<1> HIDE DEF next
<1>8. Sound(next)
  BY <1>1, <1>5, <1>6, <1>7 DEF Sound, States
<1> QED
  BY <1>3, <1>8

\* The executor moves on without an event.
LEMMA MoveSound ==
  ASSUME NEW k, Sound(k), k.exec # "off",
         NEW state \in States, NEW claim \in ClaimId \cup {NoClaim},
         NEW exec \in {"early", "working", "check", "run", "artifact", "complete", "error", "closed"},
         exec = "early" => state = "submitted" /\ claim = NoClaim,
         exec = "error" => state = "failed",
         exec = "run" => ~k.late,
         exec # "early" => k.spoke
  PROVE  Sound([k EXCEPT !.state = state, !.claim = claim, !.exec = exec])
<1> DEFINE next == [k EXCEPT !.state = state, !.claim = claim, !.exec = exec]
<1>1. k \in Call /\ k.at = "loop" /\ k.id \in Tasks
  BY DEF Sound
<1>2. /\ next.at = k.at /\ next.id = k.id /\ next.exec = exec /\ next.spoke = k.spoke
      /\ next.late = k.late /\ next.gone = k.gone /\ next.state = state
      /\ next.claim = claim /\ next.events = k.events /\ next \in Call
  BY <1>1 DEF Call
<1> HIDE DEF next
<1>3. Sound(next)
  BY <1>1, <1>2 DEF Sound, States
<1> QED
  BY <1>3 DEF next

\* The steps of the executor.
LEMMA ExecutorIInv ==
  ASSUME IInv, NEW c \in Calls, Executor(c)
  PROVE  IInv'
<1>1. /\ Sound(call[c]) /\ call[c] \in Call
      /\ claims \subseteq 1..Len(taker) /\ taker \in Seq(Tasks) /\ Len(taker) <= MaxClaims
  BY DEF IInv, Tables
<1> DEFINE k == call[c]
           Moved(state, claim, exec) == [k EXCEPT !.state = state, !.claim = claim, !.exec = exec]
           Spoken(state, type, exec) ==
               [Emit([k EXCEPT !.state = state], type) EXCEPT !.exec = exec]
<1>2. k.exec # "off" => k.state \in States /\ k.claim \in ClaimId \cup {NoClaim}
  BY <1>1 DEF Sound, Call
<1>3. k.exec # "off" => k.exec \in {"submitted", "early"} \/ k.spoke
  BY <1>1 DEF Sound
<1>4. [k EXCEPT !.state = k.state] = k
  BY <1>1 DEF Call
<1>5. \A e : [k EXCEPT !.exec = e] = Moved(k.state, k.claim, e)
  BY <1>1 DEF Call
<1>6. \A e, x : [[k EXCEPT !.state = x] EXCEPT !.exec = e] = Moved(x, k.claim, e)
  BY <1>1 DEF Call
<1>7. \A e, x : [k EXCEPT !.exec = e, !.state = x] = Moved(x, k.claim, e)
  BY <1>1 DEF Call
<1>8. ASSUME NEW n, Sound(n), Go(c, n), UNCHANGED <<claims, taker>>, Quiet
      PROVE  IInv'
  BY <1>1, <1>8, QuietIInv
<1>9. CASE ExecSubmitted(c)
  <2>1. k.exec = "submitted" /\ k.state = "submitted" /\ k.claim = NoClaim
    BY <1>1, <1>9 DEF ExecSubmitted, Sound
  <2>2. Sound(Moved(k.state, k.claim, "early"))
    BY <1>1, <1>2, <2>1, MoveSound
  <2>3. ASSUME Len(k.events) < Cap PROVE Sound(Spoken(k.state, "status", "working"))
    BY <1>1, <1>2, <2>1, <2>3, EmitSound
  <2> QED
    BY <1>4, <1>5, <1>8, <1>9, <2>2, <2>3 DEF ExecSubmitted, Send
<1>10. CASE ExecEarly(c)
  <2>1. k.exec = "early" /\ k.state = "submitted" /\ k.claim = NoClaim
    BY <1>1, <1>10 DEF ExecEarly, Sound
  <2>2. Sound(Spoken(k.state, "error", "closed"))
    BY <1>1, <1>2, <1>10, <2>1, EmitSound DEF ExecEarly
  <2> QED
    BY <1>4, <1>8, <1>10, <2>2 DEF ExecEarly
<1>11. CASE ExecWorking(c)
  <2>1. k.exec = "working" /\ k.spoke
    BY <1>3, <1>11 DEF ExecWorking
  <2>2. Sound(Moved("working", k.claim, "closed"))
    BY <1>1, <1>2, <2>1, MoveSound DEF States
  <2>3. ASSUME Len(k.events) < Cap PROVE Sound(Spoken("working", "status", "check"))
    BY <1>1, <1>2, <2>1, <2>3, EmitSound DEF States
  <2> QED
    BY <1>6, <1>8, <1>11, <2>2, <2>3 DEF ExecWorking, Send
<1>12. CASE ExecCheck(c)
  <2>1. k.exec = "check" /\ k.spoke
    BY <1>3, <1>12 DEF ExecCheck
  <2>2. Sound(Moved("failed", k.claim, "error"))
    BY <1>1, <1>2, <2>1, MoveSound DEF States
  <2>3. ASSUME ~k.gone PROVE Sound(Moved(k.state, k.claim, "run"))
    <3>1. ~k.late
      BY <1>1, <2>3 DEF Sound
    <3> QED
      BY <1>1, <1>2, <2>1, <3>1, MoveSound
  <2> QED
    BY <1>5, <1>7, <1>8, <1>12, <2>2, <2>3 DEF ExecCheck
<1>13. CASE ExecRun(c)
  <2>1. k.exec = "run" /\ k.spoke /\ k.at # "idle"
    BY <1>1, <1>3, <1>13 DEF ExecRun, Sound
  <2>2. PICK outcome \in {"ok", "error"}, claim \in ClaimId \cup {NoClaim} :
            /\ ExecuteSkill(c, outcome, claim)
            /\ Go(c, [call[c] EXCEPT
                        !.claim = claim,
                        !.state = IF outcome = "ok" THEN @ ELSE "failed",
                        !.exec = CASE outcome = "error" -> "error"
                                   [] call[c].skill = "release" -> "complete"
                                   [] OTHER -> "artifact"])
    BY <1>13 DEF ExecRun
  <2> DEFINE state == IF outcome = "ok" THEN k.state ELSE "failed"
             exec == CASE outcome = "error" -> "error"
                       [] k.skill = "release" -> "complete"
                       [] OTHER -> "artifact"
  <2>3. /\ state \in States /\ exec \in {"error", "complete", "artifact"}
        /\ exec = "error" => state = "failed"
    BY <1>2, <2>1, <2>2 DEF States
  <2>4. Go(c, Moved(state, claim, exec))
    BY <1>1, <2>2 DEF Call
  <2> HIDE DEF state, exec
  <2>5. Sound(Moved(state, claim, exec))
    BY <1>1, <2>1, <2>2, <2>3, MoveSound
  <2>6. Quiet
    BY <1>13 DEF ExecRun
  <2>7. claims' \subseteq 1..Len(taker') /\ taker' \in Seq(Tasks) /\ Len(taker') <= MaxClaims
    BY <2>1, <2>2, SkillClaims
  <2> QED
    BY <2>4, <2>5, <2>6, <2>7, QuietIInv
<1>14. CASE ExecArtifact(c)
  <2>1. k.exec = "artifact" /\ k.spoke
    BY <1>3, <1>14 DEF ExecArtifact
  <2>2. Sound(Moved(k.state, k.claim, "closed"))
    BY <1>1, <1>2, <2>1, MoveSound
  <2>3. ASSUME Len(k.events) < Cap PROVE Sound(Spoken(k.state, "artifact", "complete"))
    BY <1>1, <1>2, <2>1, <2>3, EmitSound
  <2> QED
    BY <1>4, <1>5, <1>8, <1>14, <2>2, <2>3 DEF ExecArtifact, Send
<1>15. CASE ExecComplete(c)
  <2>1. k.exec = "complete" /\ k.spoke
    BY <1>3, <1>15 DEF ExecComplete
  <2>2. Sound(Moved("completed", k.claim, "closed"))
    BY <1>1, <1>2, <2>1, MoveSound DEF States
  <2>3. ASSUME Len(k.events) < Cap PROVE Sound(Spoken("completed", "status", "done"))
    BY <1>1, <1>2, <2>1, <2>3, EmitSound DEF States
  <2> QED
    BY <1>6, <1>8, <1>15, <2>2, <2>3 DEF ExecComplete, Send
<1>16. CASE ExecLast(c)
  <2>1. k.exec \in {"done", "error"} /\ k.spoke /\ k.state \in Terminal
    BY <1>1, <1>3, <1>16 DEF ExecLast, Sound, Terminal
  <2>2. Sound(Moved(k.state, k.claim, "closed"))
    BY <1>1, <1>2, <2>1, MoveSound
  <2>3. ASSUME Len(k.events) < Cap PROVE Sound(Spoken(k.state, k.exec, "closed"))
    BY <1>1, <1>2, <2>1, <2>3, EmitSound
  <2> QED
    BY <1>4, <1>5, <1>8, <1>16, <2>2, <2>3 DEF ExecLast, Send
<1> QED
  BY <1>9, <1>10, <1>11, <1>12, <1>13, <1>14, <1>15, <1>16 DEF Executor

----------------------------------------------------------------------------
\* A call that has no executor moves on.
LEMMA HandlerSound ==
  ASSUME NEW k, Sound(k), k.at # "idle", k.exec = "off",
         NEW at \in {"skill", "artifact", "complete", "fail", "answered"},
         NEW state \in States \cup {"none"}, NEW claim \in ClaimId \cup {NoClaim},
         NEW art \in BOOLEAN
  PROVE  Sound([k EXCEPT !.at = at, !.state = state, !.claim = claim, !.art = art])
<1> DEFINE next == [k EXCEPT !.at = at, !.state = state, !.claim = claim, !.art = art]
<1>1. k \in Call /\ k.id \in Tasks
  BY DEF Sound
<1>2. /\ next.at = at /\ next.id = k.id /\ next.exec = "off" /\ next.spoke = k.spoke
      /\ next.late = k.late /\ next.gone = k.gone /\ next.events = k.events /\ next \in Call
  BY <1>1 DEF Call
<1> HIDE DEF next
<1>3. Sound(next)
  BY <1>1, <1>2 DEF Sound
<1> QED
  BY <1>3 DEF next

\* An event is taken off the channel.
LEMMA TakenSound ==
  ASSUME IInv, NEW c \in Calls, At(c, "stream", "loop"), call[c].events # <<>>
  PROVE  Sound(Taken(c)) /\ FinalEvent(NextEvent(c)) /\ NextEvent(c) \in Event
<1> DEFINE k == call[c]
           next == [k EXCEPT !.events = Tail(k.events)]
<1>1. Sound(k) /\ k \in Call /\ k.events \in Seq(Event) /\ k.events # <<>>
  BY DEF IInv, Sound, Call
<1>2. /\ Len(k.events) \in Nat \ {0} /\ DOMAIN k.events = 1..Len(k.events)
      /\ Head(k.events) = k.events[1]
      /\ Tail(k.events) \in Seq(Event) /\ Len(Tail(k.events)) = Len(k.events) - 1
      /\ DOMAIN Tail(k.events) = 1..(Len(k.events) - 1)
      /\ \A i \in 1..(Len(k.events) - 1) : Tail(k.events)[i] = k.events[i + 1]
  BY <1>1
<1>3. FinalEvent(Head(k.events)) /\ Head(k.events) \in Event
  BY <1>1, <1>2 DEF Sound
<1>4. \A i \in DOMAIN Tail(k.events) : FinalEvent(Tail(k.events)[i])
  <2> TAKE i \in DOMAIN Tail(k.events)
  <2>1. i + 1 \in DOMAIN k.events /\ Tail(k.events)[i] = k.events[i + 1]
    BY <1>2
  <2> QED
    BY <1>1, <2>1 DEF Sound
<1>5. /\ next.at = k.at /\ next.id = k.id /\ next.exec = k.exec /\ next.spoke = k.spoke
      /\ next.method = k.method
      /\ next.late = k.late /\ next.gone = k.gone /\ next.state = k.state
      /\ next.claim = k.claim /\ next.events = Tail(k.events) /\ next \in Call
  BY <1>1, <1>2 DEF Call
<1>6. Taken(c) = next
  BY DEF Taken
<1> HIDE DEF next
<1>7. Len(next.events) <= Cap
  BY <1>1, <1>2, <1>5, TaskConstants DEF Sound
<1>8. Sound(next)
  BY <1>1, <1>4, <1>5, <1>7 DEF Sound
<1> QED
  BY <1>3, <1>6, <1>8 DEF NextEvent

\* A call at work on its own, with the claims as they are.
LEMMA WorkIInv ==
  ASSUME IInv, NEW c \in Calls, call[c].at # "idle", NEW n, Sound(n), Go(c, n),
         NEW ok, Trouble(c, ok) \/ UNCHANGED troubled,
         history' \in {history, history \cup {call[c].id}},
         artifact' \in {artifact, artifact \cup {call[c].id}},
         unkept' \in {unkept, unkept \cup {call[c].id}},
         UNCHANGED <<provider, task, claims, taker, deleter, deletes>>
  PROVE  IInv'
<1>1. call[c].id \in Tasks /\ troubled' \subseteq Tasks
  BY TroubleTasks DEF IInv, Tables, Sound
<1>2. Tables'
  BY <1>1 DEF IInv, Tables
<1> QED
  BY <1>2, GoSound DEF IInv

\* The answer of tasks/get, with the artifact or without.
Answered(k, art, unread) == [k EXCEPT !.at = "answered", !.art = art, !.unread = unread]

\* Either the query fails and tasks/get with it, or there is an answer: with the artifact
\* if it is stored, unless the query failed unnoticed.
LEMMA GetAnswers ==
  ASSUME IInv, NEW c \in Calls, GetArtifacts(c)
  PROVE  /\ At(c, "get", "artifacts") /\ call[c].at = "artifacts" /\ call[c].method = "get"
         /\ UNCHANGED <<claims, taker>> /\ Quiet
         /\ \/ Return(c)
            \/ \E art \in BOOLEAN, unread \in BOOLEAN :
                   /\ Go(c, Answered(call[c], art, unread))
                   /\ unread \/ (call[c].id \in artifact => art)
<1> DEFINE k == call[c]
           stored == k.id \in artifact
<1>1. k \in Call /\ k.art \in BOOLEAN /\ k.unread \in BOOLEAN
  BY DEF IInv, Call
<1>2. [k EXCEPT !.at = "answered", !.art = stored] = Answered(k, stored, k.unread)
  BY <1>1 DEF Answered, Call
<1>3. [k EXCEPT !.at = "answered", !.unread = TRUE] = Answered(k, k.art, TRUE)
  BY <1>1 DEF Answered, Call
<1>4. stored \in BOOLEAN
  OBVIOUS
<1>5. At(c, "get", "artifacts") /\ UNCHANGED <<claims, taker>> /\ Quiet
  BY DEF GetArtifacts
<1>6. \/ Return(c) \/ Go(c, Answered(k, stored, k.unread)) \/ Go(c, Answered(k, k.art, TRUE))
  BY <1>2, <1>3 DEF GetArtifacts
<1>7. CASE Go(c, Answered(k, stored, k.unread))
  <2>1. \E art \in BOOLEAN, unread \in BOOLEAN :
            Go(c, Answered(k, art, unread)) /\ (unread \/ (stored => art))
    <3> HIDE DEF stored
    <3> QED
      BY <1>1, <1>4, <1>7
  <2> QED
    BY <1>5, <2>1 DEF At
<1>8. CASE Go(c, Answered(k, k.art, TRUE))
  BY <1>1, <1>5, <1>8 DEF At
<1> QED
  BY <1>5, <1>6, <1>7, <1>8 DEF At

\* The steps of the handler.
LEMMA HandlerIInv ==
  ASSUME IInv, NEW c \in Calls, Handler(c)
  PROVE  IInv'
<1> DEFINE k == call[c]
<1>1. /\ Sound(k) /\ k \in Call
      /\ claims \subseteq 1..Len(taker) /\ taker \in Seq(Tasks) /\ Len(taker) <= MaxClaims
  BY DEF IInv, Tables
<1>2. k.at \notin {"idle", "loop"} => k.exec = "off"
  BY <1>1 DEF Sound
<1>3. /\ k.state \in States \cup {"none"} /\ k.claim \in ClaimId \cup {NoClaim}
      /\ k.art \in BOOLEAN /\ k.gone \in BOOLEAN
  BY <1>1 DEF Call
<1>4. [k EXCEPT !.at = "complete"] = [k EXCEPT !.at = "complete", !.state = k.state,
                                               !.claim = k.claim, !.art = k.art]
  BY <1>1 DEF Call
<1>5. ASSUME k.at = "artifact" PROVE Sound([k EXCEPT !.at = "complete"])
  <2>1. Sound([k EXCEPT !.at = "complete", !.state = k.state, !.claim = k.claim, !.art = k.art])
    BY <1>1, <1>2, <1>3, <1>5, HandlerSound
  <2> QED
    BY <1>4, <2>1
<1>6. Sound(Idle)
  BY IdleSound
<1>7. CASE AppendHistory(c)
  <2>1. PICK ok \in Answers(c, "history") :
            /\ k.at = "history"
            /\ history' = IF ok THEN history \cup {k.id} ELSE history
            /\ Trouble(c, ok)
            /\ \/ IF ok THEN Go(c, [k EXCEPT !.at = "skill", !.state = "working"])
                        ELSE Return(c)
               \/ Go(c, [k EXCEPT !.at = "loop", !.exec = "submitted", !.late = k.gone])
            /\ UNCHANGED <<provider, task, artifact, claims, taker, deleter, deletes, unkept>>
    BY <1>7 DEF AppendHistory
  <2>2. Sound([k EXCEPT !.at = "skill", !.state = "working"])
    <3>1. [k EXCEPT !.at = "skill", !.state = "working"]
              = [k EXCEPT !.at = "skill", !.state = "working", !.claim = k.claim, !.art = k.art]
      BY <1>1 DEF Call
    <3>2. "working" \in States
      BY DEF States
    <3>3. Sound([k EXCEPT !.at = "skill", !.state = "working", !.claim = k.claim, !.art = k.art])
      BY <1>1, <1>2, <1>3, <2>1, <3>2, HandlerSound
    <3> QED
      BY <3>1, <3>3
  <2>3. Sound([k EXCEPT !.at = "loop", !.exec = "submitted", !.late = k.gone])
    <3> DEFINE next == [k EXCEPT !.at = "loop", !.exec = "submitted", !.late = k.gone]
    <3>1. /\ next.at = "loop" /\ next.id = k.id /\ next.exec = "submitted"
          /\ next.late = k.gone /\ next.gone = k.gone /\ next.state = k.state
          /\ next.claim = k.claim /\ next.events = k.events /\ next \in Call
      BY <1>1, <1>3 DEF Call
    <3> HIDE DEF next
    <3>2. Sound(next)
      BY <1>1, <2>1, <3>1 DEF Sound
    <3> QED
      BY <3>2 DEF next
  <2>4. PICK n : Sound(n) /\ Go(c, n)
    BY <1>6, <2>1, <2>2, <2>3 DEF Return
  <2>5. history' \in {history, history \cup {k.id}} /\ artifact' = artifact /\ k.at # "idle"
    BY <2>1
  <2> QED
    BY <2>1, <2>4, <2>5, WorkIInv
<1>8. CASE SendSkill(c)
  <2>1. PICK outcome \in {"ok", "error"}, claim \in ClaimId \cup {NoClaim} :
            /\ ExecuteSkill(c, outcome, claim)
            /\ Go(c, [k EXCEPT !.claim = claim,
                               !.at = IF outcome = "ok" THEN "artifact" ELSE "fail"])
    BY <1>8 DEF SendSkill
  <2>2. k.at = "skill" /\ Quiet
    BY <1>8 DEF SendSkill, At, Quiet
  <2> DEFINE at == IF outcome = "ok" THEN "artifact" ELSE "fail"
             next == [k EXCEPT !.at = at, !.state = k.state, !.claim = claim, !.art = k.art]
  <2>3. at \in {"artifact", "fail"}
    OBVIOUS
  <2>4. [k EXCEPT !.claim = claim, !.at = at] = next
    BY <1>1 DEF Call
  <2>5. Sound(next)
    <3> HIDE DEF at
    <3> QED
      BY <1>1, <1>2, <1>3, <2>1, <2>2, <2>3, HandlerSound
  <2>6. Go(c, next)
    BY <2>1, <2>4
  <2>7. claims' \subseteq 1..Len(taker') /\ taker' \in Seq(Tasks) /\ Len(taker') <= MaxClaims
    BY <2>1, <2>2, SkillClaims
  <2> HIDE DEF next
  <2> QED
    BY <2>2, <2>5, <2>6, <2>7, QuietIInv
<1>9. ASSUME NEW ok, NEW state \in {"failed", "completed"}, k.at # "idle",
             UpdateTask(c, ok, state, k.claim), Return(c),
             UNCHANGED <<provider, history, artifact, claims, taker, deleter, deletes, unkept>>
      PROVE  IInv'
  <2>1. state \in Terminal /\ claims' \subseteq claims
    BY <1>9 DEF Terminal
  <2> QED
    BY <1>3, <1>9, <2>1, UpdateIInv
<1>10. CASE SendFail(c)
  BY <1>9, <1>10 DEF SendFail, At
<1>11. CASE SendComplete(c)
  BY <1>9, <1>11 DEF SendComplete, At
<1>12. CASE SendArtifact(c)
  <2>1. PICK ok \in Answers(c, "artifact") :
            /\ k.at = "artifact"
            /\ \/ Go(c, [k EXCEPT !.at = "complete"]) /\ UNCHANGED <<artifact, troubled>>
               \/ /\ IF ok THEN Go(c, [k EXCEPT !.at = "complete"]) ELSE Go(c, Idle)
                  /\ artifact' = IF ok THEN artifact \cup {k.id} ELSE artifact
                  /\ Trouble(c, ok)
            /\ UNCHANGED <<provider, task, history, claims, taker, deleter, deletes, unkept>>
    BY <1>12 DEF SendArtifact, At, Step, Return
  <2>2. PICK n : Sound(n) /\ Go(c, n)
    BY <1>5, <1>6, <2>1
  <2>3. /\ artifact' \in {artifact, artifact \cup {k.id}} /\ history' = history
        /\ k.at # "idle" /\ (Trouble(c, ok) \/ UNCHANGED troubled)
    BY <2>1
  <2> QED
    BY <2>1, <2>2, <2>3, WorkIInv
<1>13. CASE StreamStatus(c)
  <2>1. Sound(Taken(c)) /\ Go(c, Taken(c)) /\ UNCHANGED <<claims, taker>> /\ Quiet
    BY <1>13, TakenSound DEF StreamStatus
  <2> QED
    BY <1>1, <2>1, QuietIInv
<1>14. CASE StreamArtifact(c)
  <2>1. PICK ok \in Answers(c, "artifact") :
            /\ At(c, "stream", "loop") /\ k.events # <<>>
            /\ artifact' = IF ok THEN artifact \cup {k.id} ELSE artifact
            /\ unkept' = IF ok THEN unkept ELSE unkept \cup {k.id}
            /\ Trouble(c, ok)
            /\ Go(c, Taken(c))
            /\ UNCHANGED <<provider, task, history, claims, taker, deleter, deletes>>
    BY <1>14 DEF StreamArtifact
  <2>2. Sound(Taken(c)) /\ k.at # "idle"
    BY <2>1, TakenSound DEF At
  <2>3. /\ artifact' \in {artifact, artifact \cup {k.id}} /\ history' = history
        /\ unkept' \in {unkept, unkept \cup {k.id}}
    BY <2>1
  <2> QED
    BY <2>1, <2>2, <2>3, WorkIInv
<1>15. CASE StreamEnd(c)
  <2>1. PICK ok \in Answers(c, "update") :
            /\ At(c, "stream", "loop") /\ k.events # <<>>
            /\ NextEvent(c).type \in {"error", "done"}
            /\ UpdateTask(c, ok, NextEvent(c).state, NextEvent(c).claim)
            /\ Return(c)
            /\ UNCHANGED <<provider, history, artifact, claims, taker, deleter, deletes, unkept>>
    BY <1>15 DEF StreamEnd
  <2>2. FinalEvent(NextEvent(c)) /\ NextEvent(c) \in Event /\ k.at # "idle"
    BY <2>1, TakenSound DEF At
  <2>3. /\ NextEvent(c).state \in Terminal \cup {"submitted"}
        /\ NextEvent(c).state \notin Terminal => NextEvent(c).claim = NoClaim
        /\ NextEvent(c).claim \in ClaimId \cup {NoClaim} /\ claims' \subseteq claims
    BY <2>1, <2>2 DEF FinalEvent, Event
  <2> QED
    BY <2>1, <2>2, <2>3, UpdateIInv
<1>16. CASE StreamClosed(c) \/ GetReturns(c)
  <2>1. Go(c, Idle) /\ UNCHANGED <<claims, taker>> /\ Quiet
    BY <1>16 DEF StreamClosed, GetReturns, Return
  <2> QED
    BY <1>1, <1>6, <2>1, QuietIInv
<1>17. CASE CancelUpdate(c)
  <2>1. PICK ok \in Answers(c, "update") :
            /\ k.at = "update" /\ UpdateTask(c, ok, "canceled", k.claim) /\ Return(c)
            /\ UNCHANGED <<provider, history, artifact, taker, deleter, deletes, unkept>>
    BY <1>17 DEF CancelUpdate, At
  <2>2. "canceled" \in Terminal /\ claims' \subseteq claims
    BY <1>17 DEF CancelUpdate, Terminal
  <2> QED
    BY <1>3, <2>1, <2>2, UpdateIInv
<1>18. CASE GetArtifacts(c)
  <2>1. k.at = "artifacts" /\ UNCHANGED <<claims, taker>> /\ Quiet
    BY <1>18, GetAnswers
  <2>2. CASE Return(c)
    BY <1>1, <1>6, <2>1, <2>2, QuietIInv DEF Return
  <2>3. ASSUME NEW art \in BOOLEAN, NEW unread \in BOOLEAN, Go(c, Answered(k, art, unread))
        PROVE  IInv'
    <3>1. /\ Answered(k, art, unread).at = "answered" /\ Answered(k, art, unread) \in Call
          /\ Answered(k, art, unread).id = k.id /\ Answered(k, art, unread).exec = k.exec
          /\ Answered(k, art, unread).late = k.late /\ Answered(k, art, unread).gone = k.gone
          /\ Answered(k, art, unread).events = k.events
          /\ Answered(k, art, unread).spoke = k.spoke
      BY <1>1 DEF Answered, Call
    <3>2. Sound(Answered(k, art, unread))
      BY <1>1, <1>2, <2>1, <3>1 DEF Sound
    <3> QED
      BY <1>1, <2>1, <2>3, <3>2, QuietIInv
  <2> QED
    BY <1>18, <2>2, <2>3, GetAnswers
<1> QED
  BY <1>7, <1>8, <1>10, <1>11, <1>12, <1>13, <1>14, <1>15, <1>16, <1>17, <1>18 DEF Handler

----------------------------------------------------------------------------
\* A request comes in.
LEMMA RequestIInv ==
  ASSUME IInv, NEW c \in Calls, Request(c)
  PROVE  IInv'
<1>1. /\ claims \subseteq 1..Len(taker) /\ taker \in Seq(Tasks) /\ Len(taker) <= MaxClaims
      /\ task \in [Tasks -> Rows]
  BY DEF IInv, Tables
<1>2. Idle \in Call /\ Idle.events = <<>> /\ Idle.exec = "off" /\ ~Idle.late
      /\ Idle.claim = NoClaim
  BY IdleSound DEF Sound, Idle
<1>3. ASSUME NEW t \in Tasks, NEW method \in {"send", "stream"}, NEW skill \in Skills,
             Start(c, method, t, skill)
      PROVE  IInv'
  <2> DEFINE next == [Idle EXCEPT !.method = method, !.id = t, !.skill = skill,
                                  !.state = "submitted", !.at = "history"]
  <2>1. /\ next \in Call /\ next.at = "history" /\ next.id = t /\ next.state = "submitted"
        /\ next.exec = "off" /\ ~next.late /\ next.claim = NoClaim /\ next.events = <<>>
    BY <1>2 DEF Call, States
  <2> HIDE DEF next
  <2>2. Sound(next)
    BY <2>1, TaskConstants DEF Sound
  <2>3. /\ Go(c, next) /\ task' = [task EXCEPT ![t] = Row("submitted", NoClaim)]
        /\ UNCHANGED <<provider, history, artifact, claims, taker, deleter, deletes, troubled,
                      unkept>>
    BY <1>3 DEF Start, next
  <2>4. Row("submitted", NoClaim) \in Rows /\ Row("submitted", NoClaim).claim = NoClaim
    BY DEF Row, Rows
  <2>5. Tables'
    BY <2>3, <2>4 DEF IInv, Tables
  <2>6. \A u \in Tasks : task'[u].state \notin Terminal => task'[u].claim = NoClaim
    BY <1>1, <2>3, <2>4 DEF IInv
  <2> QED
    BY <2>2, <2>3, <2>5, <2>6, GoSound DEF IInv
<1>4. ASSUME NEW t \in Tasks, NEW method \in {"cancel", "get"}, NEW at \in {"update", "artifacts"},
             t \in Stored, UNCHANGED <<claims, taker>>, Quiet,
             Go(c, [Idle EXCEPT !.method = method, !.at = at, !.id = t,
                                !.state = task[t].state, !.claim = task[t].claim])
      PROVE  IInv'
  <2> DEFINE next == [Idle EXCEPT !.method = method, !.at = at, !.id = t,
                                  !.state = task[t].state, !.claim = task[t].claim]
  <2>1. task[t].state \in States \cup {"none"} /\ task[t].claim \in ClaimId \cup {NoClaim}
    BY <1>1 DEF Rows, States, Terminal
  <2>2. /\ next \in Call /\ next.at = at /\ next.id = t
        /\ next.exec = "off" /\ ~next.late /\ next.events = <<>>
    BY <1>2, <2>1 DEF Call
  <2>3. Go(c, next)
    BY <1>4
  <2> HIDE DEF next
  <2>4. Sound(next)
    BY <2>2, TaskConstants DEF Sound
  <2> QED
    BY <1>1, <1>4, <2>3, <2>4, QuietIInv
<1>5. ASSUME NEW t \in Tasks, CancelRead(c, t) PROVE IInv'
  BY <1>4, <1>5 DEF CancelRead
<1>6. ASSUME NEW t \in Tasks, GetTask(c, t) PROVE IInv'
  BY <1>4, <1>6 DEF GetTask
<1> QED
  BY <1>3, <1>5, <1>6 DEF Request

\* A client leaves.
LEMMA DisconnectIInv ==
  ASSUME IInv, NEW c \in Calls, Disconnect(c)
  PROVE  IInv'
<1> DEFINE k == call[c]
           next == [k EXCEPT !.gone = TRUE]
<1>1. Sound(k) /\ k \in Call
  BY DEF IInv
<1>2. /\ next \in Call /\ next.at = k.at /\ next.id = k.id /\ next.exec = k.exec
      /\ next.late = k.late /\ next.gone /\ next.state = k.state /\ next.claim = k.claim
      /\ next.events = k.events /\ next.spoke = k.spoke /\ next.method = k.method
  BY <1>1 DEF Call
<1>3. /\ Go(c, next) /\ troubled' = troubled \cup {k.id} /\ k.method # "none"
      /\ UNCHANGED <<provider, task, history, artifact, claims, taker, deleter, deletes, unkept>>
  BY DEF Disconnect
<1> HIDE DEF next
<1>4. Sound(next)
  BY <1>1, <1>2 DEF Sound
<1>5. k.id \in Tasks
  BY <1>1, <1>3 DEF Sound
<1>6. Tables'
  BY <1>3, <1>5 DEF IInv, Tables
<1> QED
  BY <1>3, <1>4, <1>6, GoSound DEF IInv

\* The steps of the deletion.
LEMMA DeleteIInv ==
  ASSUME IInv, NEW statements, DeleteRows(statements),
         deleter' \in 0..4, deletes' \in 0..MaxDeletes
  PROVE  IInv'
<1>1. task' \in {task, [t \in Tasks |-> NoRow]}
  BY DEF DeleteRows
<1>2. NoRow \in Rows /\ NoRow.claim = NoClaim
  BY DEF NoRow, Rows
<1>3. /\ task' \in [Tasks -> Rows]
      /\ \A t \in Tasks : task'[t].state \notin Terminal => task'[t].claim = NoClaim
  BY <1>1, <1>2 DEF IInv, Tables
<1>4. /\ history' \subseteq Tasks /\ artifact' \subseteq Tasks /\ troubled' \subseteq Tasks
      /\ unkept' \subseteq Tasks
      /\ claims' \subseteq 1..Len(taker') /\ UNCHANGED <<provider, taker, call>>
  BY DEF DeleteRows, IInv, Tables
<1>5. Tables'
  BY <1>3, <1>4 DEF IInv, Tables
<1> QED
  BY <1>3, <1>4, <1>5 DEF IInv

\* The process starts again.
LEMMA RestartIInv ==
  ASSUME IInv, Restart
  PROVE  IInv'
<1>1. call' = [c \in Calls |-> Idle] /\ task' \in {task, [t \in Tasks |-> NoRow]}
  BY DEF Restart
<1>2. call' \in [Calls -> Call] /\ \A c \in Calls : Sound(call'[c])
  BY <1>1, IdleSound DEF Sound
<1>3. NoRow \in Rows /\ NoRow.claim = NoClaim
  BY DEF NoRow, Rows
<1>4. /\ task' \in [Tasks -> Rows]
      /\ \A t \in Tasks : task'[t].state \notin Terminal => task'[t].claim = NoClaim
  BY <1>1, <1>3 DEF IInv, Tables
<1>5. InProgress \subseteq Tasks
  BY DEF InProgress, IInv, Sound
<1>6. (claims' = {} /\ taker' = <<>>) \/ UNCHANGED <<claims, taker>>
  BY DEF Restart
<1>7. claims' \subseteq 1..Len(taker') /\ taker' \in Seq(Tasks) /\ Len(taker') <= MaxClaims
  <2>1. <<>> \in Seq(Tasks) /\ Len(<<>>) = 0 /\ MaxClaims \in Nat
    BY TaskConstants
  <2>2. CASE claims' = {} /\ taker' = <<>>
    BY <2>1, <2>2
  <2>3. CASE UNCHANGED <<claims, taker>>
    BY <2>3 DEF IInv, Tables
  <2> QED
    BY <1>6, <2>2, <2>3
<1>8. /\ provider' = provider /\ deleter' = 0 /\ deletes' = deletes /\ unkept' = unkept
      /\ troubled' = troubled \cup InProgress
      /\ history' \in {{}, history} /\ artifact' \in {{}, artifact}
  BY DEF Restart
<1>9. Tables'
  BY <1>4, <1>5, <1>7, <1>8 DEF IInv, Tables
<1> QED
  BY <1>2, <1>4, <1>9 DEF IInv

\* Every step preserves the invariant.
LEMMA NextIInv == IInv /\ [Next]_vars => IInv'
<1> SUFFICES ASSUME IInv, [Next]_vars PROVE IInv'
  OBVIOUS
<1>1. deleter \in 0..4 /\ deletes \in 0..MaxDeletes /\ MaxDeletes \in Nat
  BY TaskConstants DEF IInv, Tables
<1>2. ASSUME NEW c \in Calls, Request(c) \/ Handler(c) \/ Executor(c) \/ Disconnect(c)
      PROVE  IInv'
  BY <1>2, RequestIInv, HandlerIInv, ExecutorIInv, DisconnectIInv
<1>3. ASSUME NEW claim \in ClaimId, Lapse(claim) PROVE IInv'
  <2>1. Tables'
    BY <1>3 DEF Lapse, Quiet, IInv, Tables
  <2> QED
    BY <1>3, <2>1 DEF Lapse, Quiet, IInv
<1>4. CASE DeleteNamespace
  <2>1. PICK statements : DeleteRows(statements)
    BY <1>4 DEF DeleteNamespace
  <2>2. deleter' \in 0..4 /\ deletes' \in 0..MaxDeletes
    BY <1>1, <1>4 DEF DeleteNamespace
  <2> QED
    BY <2>1, <2>2, DeleteIInv
<1>5. CASE DeleteStatement
  BY <1>1, <1>5, DeleteIInv DEF DeleteStatement
<1>6. CASE DeleteFails
  BY <1>1, <1>6, DeleteIInv DEF DeleteFails
<1>7. CASE UNCHANGED vars
  BY <1>7 DEF vars, IInv, Tables
<1> QED
  BY <1>2, <1>3, <1>4, <1>5, <1>6, <1>7, RestartIInv DEF Next

\* The invariant holds throughout.
LEMMA IInvHolds == Spec => []IInv
  BY InitIInv, NextIInv, PTL DEF Spec

----------------------------------------------------------------------------
\* Types hold: no unfinished state but "submitted" is ever stored, and the executor's
\* channel is never over its capacity (task.go:72-88, task_executor.go:34).
THEOREM TypeCorrect == Spec => []TypeOK
<1>1. IInv => TypeOK
  BY DEF IInv, TypeOK, Tables, Rows, Sound
<1> QED
  BY <1>1, IInvHolds, PTL

\* Whatever sends, streams, cancels and deletions overlap, the row of an unfinished
\* task names no claim that tasks/cancel could release (handler_tasks.go:72,234-246).
THEOREM CancelFindsNoClaim == Spec => []UnfinishedNamesNoClaim
<1>1. IInv => UnfinishedNamesNoClaim
  BY DEF IInv, UnfinishedNamesNoClaim, Stored
<1> QED
  BY <1>1, IInvHolds, PTL

\* A stream whose client had left before the executor began runs no skill
\* (task_executor.go:75-84).
THEOREM NoSkillForNobody == Spec => []NoSkillOnceGone
<1>1. IInv => NoSkillOnceGone
  BY DEF IInv, Sound, NoSkillOnceGone
<1> QED
  BY <1>1, IInvHolds, PTL

\* The executor closes its channel after at least one event (task_executor.go:48-58).
THEOREM NeverSilent == Spec => []SomeEvent
<1>1. IInv => SomeEvent
  BY DEF IInv, Sound, SomeEvent
<1> QED
  BY <1>1, IInvHolds, PTL

----------------------------------------------------------------------------
\* The second invariant follows a claim from the skill that took it to the row.

Final(e) == e.type \in {"error", "done"}

\* Places of an executor whose skill has not run.
BeforeSkill == {"submitted", "early", "working", "check", "run"}

\* A call names no claim before its skill; its final event is the last, and names the
\* claim that the call names; only when the client left is there none.
Honest(k) ==
    /\ k.at = "idle" => k.method = "none"
    /\ k.exec # "off" => k.method = "stream"
    /\ k.at \in {"history", "skill"} \/ k.exec \in BeforeSkill => k.claim = NoClaim
    /\ \A i \in DOMAIN k.events :
           Final(k.events[i]) => k.exec = "closed" /\ k.events[i].claim = k.claim
    /\ k.exec = "closed" /\ ~k.gone => \E i \in DOMAIN k.events : Final(k.events[i])

\* A call that works on a task where nothing has failed.
WorksOn(c, t) == call[c].method \in {"send", "stream"} /\ call[c].id = t /\ t \notin troubled

\* One call works on a task, which is stored, and its client is there.  The task's
\* claims in force are the one that the call names.  When the call is over, they are
\* in the row, or the task was cancelled.
Traced ==
    /\ \A c, d \in Calls, t \in Tasks : WorksOn(c, t) /\ WorksOn(d, t) => c = d
    /\ \A c \in Calls, t \in Tasks : WorksOn(c, t) =>
           /\ t \in Stored
           /\ ~call[c].gone
           /\ \A x \in claims : taker[x] = t => call[c].claim = x
    /\ \A x \in claims, t \in Tasks : taker[x] = t /\ t \notin troubled =>
           \/ \E c \in Calls : WorksOn(c, t)
           \/ task[t].claim = x
           \/ task[t].state = "canceled"

TInv == IInv /\ Traced /\ \A c \in Calls : Honest(call[c])

\* What a step of the executor makes of a call, without and with an event.
Moved(k, state, claim, exec) == [k EXCEPT !.state = state, !.claim = claim, !.exec = exec]
Spoken(k, state, type, exec) == [Emit([k EXCEPT !.state = state], type) EXCEPT !.exec = exec]

\* The same client's call on the same task, with its claim.
SameCall(n, k, claim) ==
    n.method = k.method /\ n.id = k.id /\ n.gone = k.gone /\ n.claim = claim

\* A call that is over, or has not begun.
LEMMA IdleHonest == Honest(Idle)
BY DEF Idle, Honest, BeforeSkill

\* An event goes on the channel: the final one with the end of the executor.
LEMMA EmitHonest ==
  ASSUME NEW k, Sound(k), Honest(k), k.exec \notin {"off", "closed"},
         NEW state, NEW type, NEW exec,
         type \in {"error", "done"} <=> exec = "closed",
         exec \in BeforeSkill => k.exec \in BeforeSkill
  PROVE  /\ Honest(Spoken(k, state, type, exec))
         /\ SameCall(Spoken(k, state, type, exec), k, k.claim)
<1> DEFINE event == [type |-> type, state |-> state, claim |-> k.claim]
           next == [k EXCEPT !.state = state, !.events = Append(k.events, event),
                             !.spoke = TRUE, !.exec = exec]
<1>1. k \in Call /\ k.at = "loop" /\ k.events \in Seq(Event) /\ k.method = "stream"
  BY DEF Sound, Call, Honest
<1>2. Spoken(k, state, type, exec) = next
  BY <1>1 DEF Spoken, Emit, Call
<1>3. event.claim = k.claim /\ (Final(event) <=> exec = "closed")
  BY DEF Final
<1> HIDE DEF event
<1>4. /\ \A i \in 1..Len(k.events) : Append(k.events, event)[i] = k.events[i]
      /\ Append(k.events, event)[Len(k.events) + 1] = event
      /\ DOMAIN Append(k.events, event) = 1..(Len(k.events) + 1)
      /\ DOMAIN k.events = 1..Len(k.events) /\ Len(k.events) \in Nat
  BY <1>1
<1>5. /\ next.at = k.at /\ next.exec = exec /\ next.gone = k.gone /\ next.method = k.method
      /\ next.id = k.id /\ next.claim = k.claim /\ next.events = Append(k.events, event)
  BY <1>1 DEF Call
<1> HIDE DEF next
<1>6. ASSUME NEW i \in DOMAIN next.events, Final(next.events[i])
      PROVE  next.exec = "closed" /\ next.events[i].claim = next.claim
  <2>1. i \in 1..Len(k.events) \/ i = Len(k.events) + 1
    BY <1>4, <1>5, <1>6
  <2>2. CASE i \in 1..Len(k.events)
    BY <1>4, <1>5, <1>6, <2>2 DEF Honest
  <2>3. CASE i = Len(k.events) + 1
    BY <1>3, <1>4, <1>5, <1>6, <2>3
  <2> QED
    BY <2>1, <2>2, <2>3
<1>7. ASSUME next.exec = "closed" PROVE \E i \in DOMAIN next.events : Final(next.events[i])
  <2>1. Len(k.events) + 1 \in DOMAIN next.events
    BY <1>4, <1>5
  <2>2. Final(next.events[Len(k.events) + 1])
    BY <1>3, <1>4, <1>5, <1>7
  <2> QED
    BY <2>1, <2>2
<1>8. Honest(next)
  BY <1>1, <1>5, <1>6, <1>7 DEF Honest
<1> QED
  BY <1>2, <1>5, <1>8 DEF SameCall

\* The executor moves on without an event.
LEMMA MoveHonest ==
  ASSUME NEW k, Sound(k), Honest(k), k.exec \notin {"off", "closed"},
         NEW state, NEW claim, NEW exec,
         exec = "closed" => k.gone,
         exec \in BeforeSkill => claim = NoClaim
  PROVE  /\ Honest(Moved(k, state, claim, exec))
         /\ SameCall(Moved(k, state, claim, exec), k, claim)
<1> DEFINE next == [k EXCEPT !.state = state, !.claim = claim, !.exec = exec]
<1>1. k \in Call /\ k.at = "loop" /\ k.method = "stream"
  BY DEF Sound, Honest
<1>2. /\ next.at = k.at /\ next.exec = exec /\ next.gone = k.gone /\ next.method = k.method
      /\ next.id = k.id /\ next.claim = claim /\ next.events = k.events
  BY <1>1 DEF Call
<1>3. \A i \in DOMAIN k.events : ~Final(k.events[i])
  BY DEF Honest
<1>5. Moved(k, state, claim, exec) = next
  BY DEF Moved
<1> HIDE DEF next
<1>4. Honest(next)
  BY <1>1, <1>2, <1>3 DEF Honest
<1> QED
  BY <1>2, <1>4, <1>5 DEF SameCall

\* One call moves on, and the others are as they were.
LEMMA GoOne ==
  ASSUME IInv, NEW c \in Calls, NEW n, Go(c, n)
  PROVE  call'[c] = n /\ \A d \in Calls \ {c} : call'[d] = call[d]
BY DEF IInv, Go

\* A call goes on with the task and the claim that it has.
LEMMA KeepTraced ==
  ASSUME TInv, NEW c \in Calls, NEW n, Go(c, n),
         n.method = call[c].method, n.id = call[c].id, n.claim = call[c].claim,
         n.gone = call[c].gone \/ call[c].id \in troubled',
         UNCHANGED <<task, taker>>, claims' \subseteq claims, troubled \subseteq troubled'
  PROVE  Traced'
<1>1. Traced
  BY DEF TInv
<1>2. call'[c] = n /\ \A d \in Calls \ {c} : call'[d] = call[d]
  BY GoOne DEF TInv
<1>3. \A d \in Calls, t \in Tasks : WorksOn(d, t)' => WorksOn(d, t)
  BY <1>2 DEF WorksOn
<1>4. \A d \in Calls, t \in Tasks : WorksOn(d, t) /\ t \notin troubled' => WorksOn(d, t)'
  BY <1>2 DEF WorksOn
<1>5. ASSUME NEW d \in Calls, NEW t \in Tasks, WorksOn(d, t)'
      PROVE  /\ t \in Stored' /\ ~call'[d].gone
             /\ \A x \in claims' : taker'[x] = t => call'[d].claim = x
  <2>1. /\ t \in Stored /\ ~call[d].gone
        /\ \A x \in claims : taker[x] = t => call[d].claim = x
    BY <1>1, <1>3, <1>5 DEF Traced
  <2>2. ~call'[d].gone /\ call'[d].claim = call[d].claim
    BY <1>2, <1>5, <2>1 DEF WorksOn
  <2> QED
    BY <2>1, <2>2 DEF Stored
<1>6. ASSUME NEW x \in claims', NEW t \in Tasks, taker'[x] = t, t \notin troubled'
      PROVE  \/ \E d \in Calls : WorksOn(d, t)'
             \/ task'[t].claim = x \/ task'[t].state = "canceled"
  <2>1. \/ \E d \in Calls : WorksOn(d, t)
        \/ task[t].claim = x \/ task[t].state = "canceled"
    BY <1>1, <1>6 DEF Traced
  <2> QED
    BY <1>4, <1>6, <2>1
<1> QED
  BY <1>1, <1>3, <1>5, <1>6 DEF Traced

\* A call that works on no task begins or ends, and may write "canceled" to one.
LEMMA OtherTraced ==
  ASSUME TInv, NEW c \in Calls, NEW n, Go(c, n),
         call[c].method \notin {"send", "stream"}, n.method \notin {"send", "stream"},
         NEW t \in Tasks, NEW claim,
         task' \in {task, [task EXCEPT ![t] = Row("canceled", claim)]},
         UNCHANGED taker, claims' \subseteq claims, troubled \subseteq troubled'
  PROVE  Traced'
<1>1. Traced /\ task \in [Tasks -> Rows]
  BY DEF TInv, IInv, Tables
<1>2. call'[c] = n /\ \A d \in Calls \ {c} : call'[d] = call[d]
  BY GoOne DEF TInv
<1>3. \A d \in Calls, u \in Tasks : WorksOn(d, u)' => WorksOn(d, u) /\ call'[d] = call[d]
  BY <1>2 DEF WorksOn
<1>4. \A u \in Tasks : task'[u] = task[u] \/ task'[u].state = "canceled"
  BY <1>1 DEF Row
<1>5. ASSUME NEW d \in Calls, NEW u \in Tasks, WorksOn(d, u)'
      PROVE  /\ u \in Stored' /\ ~call'[d].gone
             /\ \A x \in claims' : taker'[x] = u => call'[d].claim = x
  <2>1. /\ u \in Stored /\ ~call[d].gone /\ call'[d] = call[d]
        /\ \A x \in claims : taker[x] = u => call[d].claim = x
    BY <1>1, <1>3, <1>5 DEF Traced
  <2> QED
    BY <1>4, <2>1 DEF Stored
<1>6. ASSUME NEW x \in claims', NEW u \in Tasks, taker'[x] = u, u \notin troubled'
      PROVE  \/ \E d \in Calls : WorksOn(d, u)'
             \/ task'[u].claim = x \/ task'[u].state = "canceled"
  <2>1. \/ \E d \in Calls : WorksOn(d, u)
        \/ task[u].claim = x \/ task[u].state = "canceled"
    BY <1>1, <1>6 DEF Traced
  <2>2. ASSUME NEW d \in Calls, WorksOn(d, u) PROVE WorksOn(d, u)'
    BY <1>2, <1>6, <2>2 DEF WorksOn
  <2> QED
    BY <1>4, <2>1, <2>2
<1> QED
  BY <1>1, <1>3, <1>5, <1>6 DEF Traced

\* A call ends: its claim is in the row, or something failed.
LEMMA EndTraced ==
  ASSUME TInv, NEW c \in Calls, call[c].at # "idle", Return(c),
         NEW state \in Terminal \cup {"submitted"},
         \/ call[c].id \in troubled' /\ task' = task
         \/ task' = [task EXCEPT ![call[c].id] = Row(state, call[c].claim)],
         UNCHANGED <<taker, claims>>, troubled \subseteq troubled',
         call[c].method \in {"send", "stream"}
  PROVE  Traced'
<1>1. Traced /\ task \in [Tasks -> Rows] /\ call[c].id \in Tasks
  BY DEF TInv, IInv, Tables, Sound
<1>2. call'[c] = Idle /\ \A d \in Calls \ {c} : call'[d] = call[d]
  BY GoOne DEF TInv, Return
<1>3. \A d \in Calls, u \in Tasks :
          WorksOn(d, u)' => WorksOn(d, u) /\ call'[d] = call[d] /\ d # c
  BY <1>2 DEF WorksOn, Idle
<1>4. \A u \in Tasks : u \in Stored => u \in Stored'
  BY <1>1 DEF Stored, Row, Terminal
<1>5. ASSUME NEW d \in Calls, NEW u \in Tasks, WorksOn(d, u)'
      PROVE  /\ u \in Stored' /\ ~call'[d].gone
             /\ \A x \in claims' : taker'[x] = u => call'[d].claim = x
  <2>1. /\ u \in Stored /\ ~call[d].gone /\ call'[d] = call[d]
        /\ \A x \in claims : taker[x] = u => call[d].claim = x
    BY <1>1, <1>3, <1>5 DEF Traced
  <2> QED
    BY <1>4, <2>1
<1>6. ASSUME NEW x \in claims', NEW u \in Tasks, taker'[x] = u, u \notin troubled'
      PROVE  \/ \E d \in Calls : WorksOn(d, u)'
             \/ task'[u].claim = x \/ task'[u].state = "canceled"
  <2>1. taker[x] = u /\ x \in claims /\ u \notin troubled
    BY <1>6
  <2>2. CASE u = call[c].id
    <3>1. WorksOn(c, u)
      BY <2>1, <2>2 DEF WorksOn
    <3>2. call[c].claim = x
      BY <1>1, <2>1, <3>1 DEF Traced
    <3>3. task'[u] = Row(state, call[c].claim)
      BY <1>1, <1>6, <2>2
    <3> QED
      BY <3>2, <3>3 DEF Row
  <2>3. CASE u # call[c].id
    <3>1. task'[u] = task[u]
      BY <1>1, <2>3
    <3>2. \/ \E d \in Calls : WorksOn(d, u)
          \/ task[u].claim = x \/ task[u].state = "canceled"
      BY <1>1, <2>1 DEF Traced
    <3>3. ASSUME NEW d \in Calls, WorksOn(d, u) PROVE WorksOn(d, u)'
      BY <1>2, <1>6, <2>3, <3>3 DEF WorksOn
    <3> QED
      BY <3>1, <3>2, <3>3
  <2> QED
    BY <2>2, <2>3
<1> QED
  BY <1>1, <1>3, <1>5, <1>6 DEF Traced

\* A task is created, where no claim was.
LEMMA StartTraced ==
  ASSUME TInv, NEW c \in Calls, NEW n, Go(c, n), call[c].method = "none",
         NEW t \in Tasks, t \notin Stored, n.id = t, ~n.gone,
         task' = [task EXCEPT ![t] = Row("submitted", NoClaim)],
         UNCHANGED <<claims, taker, troubled>>
  PROVE  Traced'
<1>1. Traced /\ task \in [Tasks -> Rows] /\ claims \subseteq 1..Len(taker)
  BY DEF TInv, IInv, Tables
<1>2. call'[c] = n /\ \A d \in Calls \ {c} : call'[d] = call[d]
  BY GoOne DEF TInv
<1>3. task[t].state = "none" /\ task[t].claim = NoClaim
  <2>1. task[t].state = "none"
    BY DEF Stored
  <2>2. task[t].state \notin Terminal
    BY <2>1 DEF Terminal
  <2> QED
    BY <2>1, <2>2 DEF TInv, IInv
<1>4. \A d \in Calls, u \in Tasks : WorksOn(d, u)' => (u = t /\ d = c) \/ (WorksOn(d, u) /\ d # c)
  BY <1>2 DEF WorksOn
<1>5. \A d \in Calls, u \in Tasks : WorksOn(d, u) => u # t /\ d # c
  BY <1>1 DEF Traced, WorksOn
<1>6. \A x \in claims : taker[x] = t => t \in troubled
  <2> SUFFICES ASSUME NEW x \in claims, taker[x] = t, t \notin troubled PROVE FALSE
    OBVIOUS
  <2>1. (\E d \in Calls : WorksOn(d, t)) \/ task[t].claim = x \/ task[t].state = "canceled"
    BY <1>1 DEF Traced
  <2>2. x # NoClaim
    BY <1>1 DEF NoClaim
  <2> QED
    BY <1>3, <1>5, <2>1, <2>2
<1>7. \A u \in Tasks : u # t => task'[u] = task[u]
  BY <1>1
<1>8. task'[t].state = "submitted"
  BY <1>1 DEF Row
<1>9. ASSUME NEW d \in Calls, NEW e \in Calls, NEW u \in Tasks, WorksOn(d, u)', WorksOn(e, u)'
      PROVE  d = e
  BY <1>1, <1>4, <1>5, <1>9 DEF Traced
<1>10. ASSUME NEW d \in Calls, NEW u \in Tasks, WorksOn(d, u)'
      PROVE  /\ u \in Stored' /\ ~call'[d].gone
             /\ \A x \in claims' : taker'[x] = u => call'[d].claim = x
  <2>1. CASE u = t /\ d = c
    <3>1. t \notin troubled
      BY <1>10, <2>1 DEF WorksOn
    <3> QED
      BY <1>2, <1>6, <1>8, <2>1, <3>1 DEF Stored
  <2>2. CASE WorksOn(d, u) /\ d # c
    <3>1. /\ u \in Stored /\ ~call[d].gone /\ call'[d] = call[d]
          /\ \A x \in claims : taker[x] = u => call[d].claim = x
      BY <1>1, <1>2, <2>2 DEF Traced
    <3> QED
      BY <1>5, <1>7, <2>2, <3>1 DEF Stored
  <2> QED
    BY <1>4, <1>10, <2>1, <2>2
<1>11. ASSUME NEW x \in claims', NEW u \in Tasks, taker'[x] = u, u \notin troubled'
      PROVE  \/ \E d \in Calls : WorksOn(d, u)'
             \/ task'[u].claim = x \/ task'[u].state = "canceled"
  <2>1. u # t
    BY <1>6, <1>11
  <2>2. (\E d \in Calls : WorksOn(d, u)) \/ task[u].claim = x \/ task[u].state = "canceled"
    BY <1>1, <1>11 DEF Traced
  <2>3. ASSUME NEW d \in Calls, WorksOn(d, u) PROVE WorksOn(d, u)'
    BY <1>2, <1>5, <2>3 DEF WorksOn
  <2> QED
    BY <1>7, <2>1, <2>2, <2>3
<1> QED
  BY <1>9, <1>10, <1>11 DEF Traced

\* A skill is granted a claim, or leaves its call without one.
LEMMA SkillTraced ==
  ASSUME TInv, NEW c \in Calls, NEW n, NEW outcome, NEW claim,
         call[c].claim = NoClaim, call[c].method \in {"send", "stream"}, call[c].id \in Tasks,
         Go(c, n), n.method = call[c].method, n.id = call[c].id, n.gone = call[c].gone,
         n.claim = claim, ExecuteSkill(c, outcome, claim), UNCHANGED <<task, troubled>>
  PROVE  Traced'
<1>1. /\ Traced /\ task \in [Tasks -> Rows] /\ claims \subseteq 1..Len(taker)
      /\ taker \in Seq(Tasks) /\ Len(taker) \in Nat
  BY DEF TInv, IInv, Tables
<1>2. CASE claim = NoClaim /\ claims' \subseteq claims /\ taker' = taker
  BY <1>2, KeepTraced
<1>3. CASE claim = Len(taker) + 1 /\ claims' = claims \cup {claim}
           /\ taker' = Append(taker, call[c].id)
  <2>1. call'[c] = n /\ \A d \in Calls \ {c} : call'[d] = call[d]
    BY GoOne DEF TInv
  <2>2. /\ \A x \in claims : taker'[x] = taker[x] /\ x # NoClaim
        /\ taker'[claim] = call[c].id
    BY <1>1, <1>3 DEF NoClaim
  <2>3. \A d \in Calls, u \in Tasks : WorksOn(d, u)' <=> WorksOn(d, u)
    BY <2>1 DEF WorksOn
  <2>4. ASSUME NEW d \in Calls, NEW u \in Tasks, WorksOn(d, u)'
        PROVE  /\ u \in Stored' /\ ~call'[d].gone
               /\ \A x \in claims' : taker'[x] = u => call'[d].claim = x
    <3>1. /\ WorksOn(d, u) /\ u \in Stored /\ ~call[d].gone
          /\ \A x \in claims : taker[x] = u => call[d].claim = x
      BY <1>1, <2>3, <2>4 DEF Traced
    <3>2. ASSUME NEW x \in claims', taker'[x] = u PROVE call'[d].claim = x
      <4>1. CASE x = claim
        <5>1. u = call[c].id
          BY <2>2, <3>2, <4>1
        <5>2. u \notin troubled
          BY <3>1 DEF WorksOn
        <5>3. WorksOn(c, u)
          BY <5>1, <5>2 DEF WorksOn
        <5>4. d = c
          BY <1>1, <3>1, <5>3 DEF Traced
        <5> QED
          BY <2>1, <4>1, <5>4
      <4>2. CASE x \in claims
        <5>1. call[d].claim = x /\ x # NoClaim
          BY <2>2, <3>1, <3>2, <4>2
        <5> QED
          BY <2>1, <5>1
      <4> QED
        BY <1>3, <3>2, <4>1, <4>2
    <3>3. ~call'[d].gone
      BY <2>1, <3>1
    <3> QED
      BY <3>1, <3>2, <3>3 DEF Stored
  <2>5. ASSUME NEW x \in claims', NEW u \in Tasks, taker'[x] = u, u \notin troubled'
        PROVE  \/ \E d \in Calls : WorksOn(d, u)'
               \/ task'[u].claim = x \/ task'[u].state = "canceled"
    <3>1. CASE x = claim
      <4>1. u = call[c].id
        BY <2>2, <2>5, <3>1
      <4>2. WorksOn(c, u)
        BY <2>5, <4>1 DEF WorksOn
      <4> QED
        BY <2>3, <4>2
    <3>2. CASE x \in claims
      <4>1. (\E d \in Calls : WorksOn(d, u)) \/ task[u].claim = x \/ task[u].state = "canceled"
        BY <1>1, <2>2, <2>5, <3>2 DEF Traced
      <4> QED
        BY <2>3, <4>1
    <3> QED
      BY <1>3, <2>5, <3>1, <3>2
  <2> QED
    BY <1>1, <2>3, <2>4, <2>5 DEF Traced
<1> QED
  BY <1>2, <1>3 DEF ExecuteSkill, SkillClaim, SkillRelease, SkillOther

\* The deletion troubles every task.
LEMMA DeleteTraced ==
  ASSUME TInv, NEW statements, DeleteRows(statements)
  PROVE  Traced'
<1>1. troubled' = Tasks
  BY DEF DeleteRows
<1>2. \A d \in Calls, t \in Tasks : ~WorksOn(d, t)'
  BY <1>1 DEF WorksOn
<1> QED
  BY <1>1, <1>2 DEF Traced

\* The row is written at the end of a send or a stream.
LEMMA UpdateTraced ==
  ASSUME TInv, NEW c \in Calls, call[c].at # "idle", call[c].method \in {"send", "stream"},
         Return(c), NEW ok, NEW state \in Terminal \cup {"submitted"},
         UpdateTask(c, ok, state, call[c].claim), UNCHANGED <<taker, claims>>
  PROVE  Traced'
<1>1. Traced /\ call[c].id \in Tasks
  BY DEF TInv, IInv, Sound
<1>2. call[c].id \in Stored \/ call[c].id \in troubled
  BY <1>1 DEF Traced, WorksOn
<1>3. troubled \subseteq troubled' /\ (~ok => call[c].id \in troubled')
  BY DEF UpdateTask, Trouble
<1>4. \/ call[c].id \in troubled' /\ task' = task
      \/ task' = [task EXCEPT ![call[c].id] = Row(state, call[c].claim)]
  BY <1>2, <1>3 DEF UpdateTask
<1> QED
  BY <1>3, <1>4, EndTraced

\* One call that moves on honestly leaves all honest.
LEMMA GoHonest ==
  ASSUME TInv, NEW c \in Calls, NEW n, Go(c, n), Honest(n)
  PROVE  \A d \in Calls : Honest(call'[d])
<1>1. call'[c] = n /\ \A d \in Calls \ {c} : call'[d] = call[d]
  BY GoOne DEF TInv
<1> QED
  BY <1>1 DEF TInv

\* An event that is not final is taken off the channel.
LEMMA TakenHonest ==
  ASSUME TInv, NEW c \in Calls, call[c].events # <<>>, ~Final(NextEvent(c))
  PROVE  /\ Honest(Taken(c)) /\ Taken(c).method = call[c].method /\ Taken(c).id = call[c].id
         /\ Taken(c).gone = call[c].gone /\ Taken(c).claim = call[c].claim
<1> DEFINE k == call[c]
           next == [k EXCEPT !.events = Tail(k.events)]
<1>1. Honest(k) /\ k \in Call /\ k.events \in Seq(Event) /\ k.events # <<>>
  BY DEF TInv, IInv, Call
<1>2. /\ Len(k.events) \in Nat \ {0} /\ DOMAIN k.events = 1..Len(k.events)
      /\ Head(k.events) = k.events[1]
      /\ DOMAIN Tail(k.events) = 1..(Len(k.events) - 1)
      /\ \A i \in 1..(Len(k.events) - 1) : Tail(k.events)[i] = k.events[i + 1]
  BY <1>1
<1>3. /\ next.at = k.at /\ next.id = k.id /\ next.exec = k.exec /\ next.method = k.method
      /\ next.gone = k.gone /\ next.claim = k.claim /\ next.events = Tail(k.events)
  BY <1>1 DEF Call
<1>4. Taken(c) = next
  BY DEF Taken
<1> HIDE DEF next
<1>5. ASSUME NEW i \in DOMAIN next.events, Final(next.events[i])
      PROVE  next.exec = "closed" /\ next.events[i].claim = next.claim
  <2>1. i + 1 \in DOMAIN k.events /\ next.events[i] = k.events[i + 1]
    BY <1>2, <1>3
  <2> QED
    BY <1>1, <1>3, <1>5, <2>1 DEF Honest
<1>6. ASSUME next.exec = "closed", ~next.gone
      PROVE  \E i \in DOMAIN next.events : Final(next.events[i])
  <2>1. PICK i \in DOMAIN k.events : Final(k.events[i])
    BY <1>1, <1>3, <1>6 DEF Honest
  <2>2. i # 1
    BY <1>2, <2>1 DEF NextEvent
  <2>3. i - 1 \in DOMAIN next.events /\ next.events[i - 1] = k.events[i]
    BY <1>2, <1>3, <2>1, <2>2
  <2> QED
    BY <2>1, <2>3
<1>7. Honest(next)
  BY <1>1, <1>3, <1>5, <1>6 DEF Honest
<1> QED
  BY <1>3, <1>4, <1>7

\* The steps of the executor.
LEMMA ExecutorTraced ==
  ASSUME TInv, NEW c \in Calls, Executor(c)
  PROVE  Traced' /\ \A d \in Calls : Honest(call'[d])
<1> DEFINE k == call[c]
           Same(n) == Honest(n) /\ SameCall(n, k, k.claim)
<1>1. Sound(k) /\ k \in Call /\ Honest(k)
  BY DEF TInv, IInv
<1>2. ASSUME NEW n, Same(n), Go(c, n), UNCHANGED <<claims, taker>>, Quiet
      PROVE  Traced' /\ \A d \in Calls : Honest(call'[d])
  BY <1>2, KeepTraced, GoHonest DEF Quiet, SameCall
<1>3. k.exec \in BeforeSkill => k.claim = NoClaim
  BY <1>1 DEF Honest
<1>4. [k EXCEPT !.state = k.state] = k
  BY <1>1 DEF Call
<1>5. \A e : [k EXCEPT !.exec = e] = Moved(k, k.state, k.claim, e)
  BY <1>1 DEF Call, Moved
<1>6. \A e, x : [[k EXCEPT !.state = x] EXCEPT !.exec = e] = Moved(k, x, k.claim, e)
  BY <1>1 DEF Call, Moved
<1>7. \A e, x : [k EXCEPT !.exec = e, !.state = x] = Moved(k, x, k.claim, e)
  BY <1>1 DEF Call, Moved
<1>8. ASSUME NEW x, NEW e, k.exec \notin {"off", "closed"}, e = "closed" => k.gone,
             e \in BeforeSkill => k.exec \in BeforeSkill
      PROVE  Same(Moved(k, x, k.claim, e))
  BY <1>1, <1>3, <1>8, MoveHonest
<1>9. ASSUME NEW x, NEW type, NEW e, k.exec \notin {"off", "closed"},
             type \in {"error", "done"} <=> e = "closed",
             e \in BeforeSkill => k.exec \in BeforeSkill
      PROVE  Same(Spoken(k, x, type, e))
  BY <1>1, <1>9, EmitHonest
<1> HIDE DEF Same
<1>10. CASE ExecSubmitted(c)
  <2>1. k.exec = "submitted"
    BY <1>10 DEF ExecSubmitted
  <2>2. Same(Moved(k, k.state, k.claim, "early")) /\ Same(Spoken(k, k.state, "status", "working"))
    BY <1>8, <1>9, <2>1 DEF BeforeSkill
  <2> QED
    BY <1>2, <1>4, <1>5, <1>10, <2>2 DEF ExecSubmitted, Send, Spoken
<1>11. CASE ExecEarly(c)
  <2>1. k.exec = "early"
    BY <1>11 DEF ExecEarly
  <2>2. Same(Spoken(k, k.state, "error", "closed"))
    BY <1>9, <2>1 DEF BeforeSkill
  <2> QED
    BY <1>2, <1>4, <1>11, <2>2 DEF ExecEarly, Spoken
<1>12. CASE ExecWorking(c)
  <2>1. k.exec = "working"
    BY <1>12 DEF ExecWorking
  <2>2. k.gone => Same(Moved(k, "working", k.claim, "closed"))
    BY <1>8, <2>1 DEF BeforeSkill
  <2>3. Same(Spoken(k, "working", "status", "check"))
    BY <1>9, <2>1 DEF BeforeSkill
  <2> QED
    BY <1>2, <1>6, <1>12, <2>2, <2>3 DEF ExecWorking, Send, Spoken
<1>13. CASE ExecCheck(c)
  <2>1. k.exec = "check"
    BY <1>13 DEF ExecCheck
  <2>2. Same(Moved(k, "failed", k.claim, "error")) /\ Same(Moved(k, k.state, k.claim, "run"))
    BY <1>8, <2>1 DEF BeforeSkill
  <2> QED
    BY <1>2, <1>5, <1>7, <1>13, <2>2 DEF ExecCheck
<1>14. CASE ExecArtifact(c)
  <2>1. k.exec = "artifact"
    BY <1>14 DEF ExecArtifact
  <2>2. k.gone => Same(Moved(k, k.state, k.claim, "closed"))
    BY <1>8, <2>1 DEF BeforeSkill
  <2>3. Same(Spoken(k, k.state, "artifact", "complete"))
    BY <1>9, <2>1 DEF BeforeSkill
  <2> QED
    BY <1>2, <1>4, <1>5, <1>14, <2>2, <2>3 DEF ExecArtifact, Send, Spoken
<1>15. CASE ExecComplete(c)
  <2>1. k.exec = "complete"
    BY <1>15 DEF ExecComplete
  <2>2. k.gone => Same(Moved(k, "completed", k.claim, "closed"))
    BY <1>8, <2>1 DEF BeforeSkill
  <2>3. Same(Spoken(k, "completed", "status", "done"))
    BY <1>9, <2>1 DEF BeforeSkill
  <2> QED
    BY <1>2, <1>6, <1>15, <2>2, <2>3 DEF ExecComplete, Send, Spoken
<1>16. CASE ExecLast(c)
  <2>1. k.exec \in {"done", "error"}
    BY <1>16 DEF ExecLast
  <2>2. k.gone => Same(Moved(k, k.state, k.claim, "closed"))
    BY <1>8, <2>1 DEF BeforeSkill
  <2>3. Same(Spoken(k, k.state, k.exec, "closed"))
    BY <1>9, <2>1 DEF BeforeSkill
  <2> QED
    BY <1>2, <1>4, <1>5, <1>16, <2>2, <2>3 DEF ExecLast, Send, Spoken
<1>17. CASE ExecRun(c)
  <2>1. k.exec = "run" /\ k.claim = NoClaim /\ k.method = "stream" /\ k.id \in Tasks
    BY <1>1, <1>3, <1>17 DEF ExecRun, BeforeSkill, Honest, Sound
  <2>2. PICK outcome \in {"ok", "error"}, claim \in ClaimId \cup {NoClaim} :
            /\ ExecuteSkill(c, outcome, claim)
            /\ Go(c, [call[c] EXCEPT
                        !.claim = claim,
                        !.state = IF outcome = "ok" THEN @ ELSE "failed",
                        !.exec = CASE outcome = "error" -> "error"
                                   [] call[c].skill = "release" -> "complete"
                                   [] OTHER -> "artifact"])
    BY <1>17 DEF ExecRun
  <2> DEFINE state == IF outcome = "ok" THEN k.state ELSE "failed"
             exec == CASE outcome = "error" -> "error"
                       [] k.skill = "release" -> "complete"
                       [] OTHER -> "artifact"
             next == Moved(k, state, claim, exec)
  <2>3. exec \in {"error", "complete", "artifact"}
    BY <2>2
  <2>4. Go(c, next)
    BY <1>1, <2>2 DEF Call, Moved
  <2>5. Honest(next) /\ SameCall(next, k, claim)
    <3> HIDE DEF state, exec
    <3>1. exec # "closed" /\ exec \notin BeforeSkill /\ k.exec \notin {"off", "closed"}
      BY <2>1, <2>3 DEF BeforeSkill
    <3> QED
      BY <1>1, <3>1, MoveHonest
  <2>6. UNCHANGED <<task, troubled>>
    BY <1>17 DEF ExecRun, Quiet
  <2> HIDE DEF next
  <2>7. Traced'
    BY <2>1, <2>2, <2>4, <2>5, <2>6, SkillTraced DEF SameCall
  <2> QED
    BY <2>4, <2>5, <2>7, GoHonest
<1> QED
  BY <1>10, <1>11, <1>12, <1>13, <1>14, <1>15, <1>16, <1>17 DEF Executor

\* A call without an executor, after its skill or without one.
LEMMA HandlerHonest ==
  ASSUME NEW k, Sound(k), k.at # "idle", k.exec = "off", NEW n,
         n.at \notin {"idle", "history", "skill"} \/ (n.claim = NoClaim /\ n.at # "idle"),
         n.exec = "off" \/ (n.exec = "submitted" /\ k.method = "stream" /\ n.claim = NoClaim),
         n.method = k.method, n.events = k.events, Honest(k)
  PROVE  Honest(n)
BY DEF Honest, BeforeSkill

\* The steps of the handler.
LEMMA HandlerTraced ==
  ASSUME TInv, NEW c \in Calls, Handler(c)
  PROVE  Traced' /\ \A d \in Calls : Honest(call'[d])
<1> DEFINE k == call[c]
<1>1. Sound(k) /\ k \in Call /\ Honest(k) /\ IInv
  BY DEF TInv, IInv
<1>2. k.at \notin {"idle", "loop"} => k.exec = "off"
  BY <1>1 DEF Sound
<1>3. k.at # "idle" => k.id \in Tasks
  BY <1>1 DEF Sound
<1>4. ASSUME NEW n, Honest(n), SameCall(n, k, k.claim), Go(c, n),
             UNCHANGED <<task, taker, claims>>, troubled \subseteq troubled'
      PROVE  Traced' /\ \A d \in Calls : Honest(call'[d])
  BY <1>4, KeepTraced, GoHonest DEF SameCall
<1>5. ASSUME Return(c) PROVE \A d \in Calls : Honest(call'[d])
  BY <1>5, GoHonest, IdleHonest DEF Return
<1>6. ASSUME Return(c), k.method \in {"send", "stream"}, k.at # "idle",
             UNCHANGED <<task, taker, claims>>, k.id \in troubled', troubled \subseteq troubled'
      PROVE  Traced'
  BY <1>6, EndTraced
<1>7. \A ok : Trouble(c, ok) => troubled \subseteq troubled' /\ (~ok => k.id \in troubled')
  BY DEF Trouble
<1>8. CASE AppendHistory(c)
  <2>1. PICK ok \in Answers(c, "history") :
            /\ k.at = "history"
            /\ Trouble(c, ok)
            /\ \/ /\ k.method = "send"
                  /\ IF ok THEN Go(c, [k EXCEPT !.at = "skill", !.state = "working"])
                           ELSE Return(c)
               \/ /\ k.method = "stream"
                  /\ Go(c, [k EXCEPT !.at = "loop", !.exec = "submitted", !.late = k.gone])
            /\ UNCHANGED <<task, claims, taker>>
    BY <1>8 DEF AppendHistory
  <2> DEFINE sent == [k EXCEPT !.at = "skill", !.state = "working"]
             streamed == [k EXCEPT !.at = "loop", !.exec = "submitted", !.late = k.gone]
  <2>2. /\ sent.at = "skill" /\ sent.exec = k.exec /\ sent.method = k.method
        /\ sent.events = k.events /\ sent.claim = k.claim /\ sent.id = k.id
        /\ sent.gone = k.gone
    BY <1>1 DEF Call
  <2>3. /\ streamed.at = "loop" /\ streamed.exec = "submitted" /\ streamed.method = k.method
        /\ streamed.events = k.events /\ streamed.claim = k.claim /\ streamed.id = k.id
        /\ streamed.gone = k.gone
    BY <1>1 DEF Call
  <2> HIDE DEF sent, streamed
  <2>4. k.claim = NoClaim /\ k.exec = "off"
    BY <1>1, <1>2, <2>1 DEF Sound
  <2>5. Honest(sent) /\ SameCall(sent, k, k.claim)
    BY <1>1, <2>1, <2>2, <2>4, HandlerHonest DEF SameCall
  <2>6. ASSUME k.method = "stream" PROVE Honest(streamed) /\ SameCall(streamed, k, k.claim)
    BY <1>1, <2>1, <2>3, <2>4, <2>6, HandlerHonest DEF SameCall
  <2>7. CASE Return(c) /\ k.method = "send" /\ ~ok
    BY <1>5, <1>6, <1>7, <2>1, <2>7
  <2>8. CASE Go(c, sent)
    BY <1>4, <1>7, <2>1, <2>5, <2>8
  <2>9. CASE Go(c, streamed) /\ k.method = "stream"
    BY <1>4, <1>7, <2>1, <2>6, <2>9
  <2> QED
    BY <2>1, <2>7, <2>8, <2>9 DEF sent, streamed
<1>9. CASE SendSkill(c)
  <2>1. PICK outcome \in {"ok", "error"}, claim \in ClaimId \cup {NoClaim} :
            /\ ExecuteSkill(c, outcome, claim)
            /\ Go(c, [k EXCEPT !.claim = claim,
                               !.at = IF outcome = "ok" THEN "artifact" ELSE "fail"])
    BY <1>9 DEF SendSkill
  <2>2. k.at = "skill" /\ k.method = "send" /\ Quiet
    BY <1>9 DEF SendSkill, At, Quiet
  <2> DEFINE at == IF outcome = "ok" THEN "artifact" ELSE "fail"
             next == [k EXCEPT !.claim = claim, !.at = at]
  <2>3. /\ next.at \in {"artifact", "fail"} /\ next.exec = k.exec /\ next.method = k.method
        /\ next.events = k.events /\ next.claim = claim /\ next.id = k.id
        /\ next.gone = k.gone
    BY <1>1 DEF Call
  <2>4. Go(c, next)
    BY <2>1
  <2> HIDE DEF next
  <2>5. k.claim = NoClaim /\ k.exec = "off"
    BY <1>1, <1>2, <2>2 DEF Honest
  <2>6. Honest(next)
    BY <1>1, <2>2, <2>3, <2>5, HandlerHonest
  <2>7. Traced'
    BY <1>3, <2>1, <2>2, <2>3, <2>4, <2>5, SkillTraced DEF Quiet
  <2> QED
    BY <2>4, <2>6, <2>7, GoHonest
<1>10. ASSUME NEW ok, NEW state \in {"failed", "completed"}, k.at # "idle", k.method = "send",
              UpdateTask(c, ok, state, k.claim), Return(c), UNCHANGED <<claims, taker>>
       PROVE  Traced'
  <2>1. state \in Terminal \cup {"submitted"}
    BY DEF Terminal
  <2> QED
    BY <1>10, <2>1, UpdateTraced
<1>11. CASE SendFail(c)
  BY <1>5, <1>10, <1>11 DEF SendFail, At
<1>12. CASE SendComplete(c)
  BY <1>5, <1>10, <1>12 DEF SendComplete, At
<1>13. CASE SendArtifact(c)
  <2> DEFINE next == [k EXCEPT !.at = "complete"]
  <2>1. PICK ok \in Answers(c, "artifact") :
            /\ k.at = "artifact" /\ k.method = "send"
            /\ \/ Go(c, next) /\ UNCHANGED <<artifact, troubled>>
               \/ /\ IF ok THEN Go(c, next) ELSE Return(c)
                  /\ Trouble(c, ok)
            /\ UNCHANGED <<provider, task, history, claims, taker, deleter, deletes>>
    BY <1>13 DEF SendArtifact, At, Step
  <2>2. /\ next.at = "complete" /\ next.exec = k.exec /\ next.method = k.method
        /\ next.events = k.events /\ next.claim = k.claim /\ next.id = k.id
        /\ next.gone = k.gone
    BY <1>1 DEF Call
  <2> HIDE DEF next
  <2>3. Honest(next) /\ SameCall(next, k, k.claim)
    BY <1>1, <1>2, <2>1, <2>2, HandlerHonest DEF SameCall
  <2>4. troubled \subseteq troubled'
    BY <1>7, <2>1
  <2>5. CASE Go(c, next)
    BY <1>4, <2>1, <2>3, <2>4, <2>5
  <2>6. CASE Return(c) /\ ~ok /\ Trouble(c, ok)
    BY <1>5, <1>6, <1>7, <2>1, <2>6
  <2> QED
    BY <2>1, <2>5, <2>6
<1>14. ASSUME k.events # <<>>, NextEvent(c).type \in {"status", "artifact"}, Go(c, Taken(c)),
              UNCHANGED <<task, taker, claims>>, troubled \subseteq troubled'
       PROVE  Traced' /\ \A d \in Calls : Honest(call'[d])
  <2>1. ~Final(NextEvent(c))
    BY <1>14 DEF Final
  <2>2. Honest(Taken(c)) /\ SameCall(Taken(c), k, k.claim)
    BY <1>14, <2>1, TakenHonest DEF SameCall
  <2> QED
    BY <1>4, <1>14, <2>2
<1>15. CASE StreamStatus(c)
  BY <1>14, <1>15 DEF StreamStatus, Quiet
<1>16. CASE StreamArtifact(c)
  BY <1>7, <1>14, <1>16 DEF StreamArtifact
<1>17. CASE StreamEnd(c)
  <2>1. PICK ok \in Answers(c, "update") :
            /\ At(c, "stream", "loop") /\ k.events # <<>>
            /\ NextEvent(c).type \in {"error", "done"}
            /\ UpdateTask(c, ok, NextEvent(c).state, NextEvent(c).claim)
            /\ Return(c)
            /\ UNCHANGED <<provider, history, artifact, claims, taker, deleter, deletes, unkept>>
    BY <1>17 DEF StreamEnd
  <2>2. NextEvent(c).state \in Terminal \cup {"submitted"}
    BY <1>1, <2>1, TakenSound DEF FinalEvent
  <2>3. NextEvent(c).claim = k.claim
    <3>1. 1 \in DOMAIN k.events /\ NextEvent(c) = k.events[1]
      BY <1>1, <2>1 DEF NextEvent, Call
    <3>2. Final(NextEvent(c))
      BY <2>1 DEF Final
    <3> QED
      BY <1>1, <3>1, <3>2 DEF Honest
  <2>4. Traced'
    BY <2>1, <2>2, <2>3, UpdateTraced DEF At
  <2> QED
    BY <1>5, <2>1, <2>4
<1>18. CASE StreamClosed(c)
  <2>1. /\ k.method = "stream" /\ k.at = "loop" /\ k.events = <<>> /\ k.exec = "closed"
        /\ Return(c) /\ UNCHANGED <<claims, taker, task, troubled>>
    BY <1>18 DEF StreamClosed, At, Quiet
  <2>2. k.gone
    BY <1>1, <2>1 DEF Honest
  <2>3. k.id \in troubled
    BY <1>3, <2>1, <2>2 DEF TInv, Traced, WorksOn
  <2> QED
    BY <1>5, <1>6, <2>1, <2>3
<1>19. CASE CancelUpdate(c)
  <2>1. PICK ok \in Answers(c, "update") :
            /\ k.at = "update" /\ k.method = "cancel"
            /\ UpdateTask(c, ok, "canceled", k.claim) /\ Return(c) /\ taker' = taker
    BY <1>19 DEF CancelUpdate, At
  <2>2. claims' \subseteq claims
    BY <1>19 DEF CancelUpdate
  <2>3. task' \in {task, [task EXCEPT ![k.id] = Row("canceled", k.claim)]}
        /\ troubled \subseteq troubled'
    BY <1>7, <2>1 DEF UpdateTask
  <2>4. Idle.method \notin {"send", "stream"} /\ Go(c, Idle)
    BY <2>1 DEF Idle, Return
  <2>5. Traced'
    BY <1>3, <2>1, <2>2, <2>3, <2>4, OtherTraced
  <2> QED
    BY <1>5, <2>1, <2>5
<1>20. CASE GetArtifacts(c)
  <2>1. /\ UNCHANGED <<claims, taker, task, troubled>>
        /\ k.at = "artifacts" /\ k.method = "get"
    BY <1>20, GetAnswers DEF TInv, Quiet
  <2>2. CASE Return(c)
    <3>1. Idle.method \notin {"send", "stream"} /\ Go(c, Idle)
      BY <2>2 DEF Idle, Return
    <3>2. Traced'
      BY <1>3, <2>1, <3>1, OtherTraced
    <3> QED
      BY <1>5, <2>2, <3>2
  <2>3. ASSUME NEW art \in BOOLEAN, NEW unread \in BOOLEAN, Go(c, Answered(k, art, unread))
        PROVE  Traced' /\ \A d \in Calls : Honest(call'[d])
    <3> DEFINE next == Answered(k, art, unread)
    <3>1. /\ next.at = "answered" /\ next.exec = k.exec /\ next.method = k.method
          /\ next.events = k.events /\ next.claim = k.claim /\ next.id = k.id
          /\ next.gone = k.gone
      BY <1>1 DEF Answered, Call
    <3> HIDE DEF next
    <3>2. Honest(next) /\ SameCall(next, k, k.claim)
      BY <1>1, <1>2, <2>1, <3>1, HandlerHonest DEF SameCall
    <3>3. Go(c, next)
      BY <2>3 DEF next
    <3> QED
      BY <1>4, <2>1, <3>2, <3>3
  <2> QED
    BY <1>20, <2>2, <2>3, GetAnswers DEF TInv
<1>21. CASE GetReturns(c)
  <2>1. Return(c) /\ UNCHANGED <<claims, taker, task, troubled>>
        /\ k.at = "answered" /\ k.method = "get"
    BY <1>21 DEF GetReturns, At, Quiet
  <2>2. Idle.method \notin {"send", "stream"} /\ Go(c, Idle)
    BY <2>1 DEF Idle, Return
  <2>3. Traced'
    BY <1>3, <2>1, <2>2, OtherTraced
  <2> QED
    BY <1>5, <2>1, <2>3
<1> QED
  BY <1>8, <1>9, <1>11, <1>12, <1>13, <1>15, <1>16, <1>17, <1>18, <1>19, <1>20, <1>21 DEF Handler

\* A task is created where there is none, whatever the provider.
LEMMA CreateWants ==
  ASSUME NEW t \in Tasks, NEW gone, TRUE \in AnswersTo(gone, "create", t)
  PROVE  t \notin Stored
<1>1. KeysAllow("create", t) <=> t \notin Stored
  BY DEF KeysAllow
<1>2. TRUE \in MemoryAnswers("create", t) => t \notin Stored
  BY DEF MemoryAnswers
<1> QED
  BY <1>1, <1>2 DEF AnswersTo, D1Answers, SqlAnswers

\* A request comes in.
LEMMA RequestTraced ==
  ASSUME TInv, NEW c \in Calls, Request(c)
  PROVE  Traced' /\ \A d \in Calls : Honest(call'[d])
<1>1. /\ Honest(call[c])
      /\ Idle \in Call /\ Idle.events = <<>> /\ Idle.exec = "off" /\ ~Idle.gone
      /\ Idle.claim = NoClaim
  BY IdleSound DEF TInv, Sound, Idle
<1>2. ASSUME NEW t \in Tasks, NEW method \in {"send", "stream"}, NEW skill \in Skills,
             Start(c, method, t, skill)
      PROVE  Traced' /\ \A d \in Calls : Honest(call'[d])
  <2> DEFINE next == [Idle EXCEPT !.method = method, !.id = t, !.skill = skill,
                                  !.state = "submitted", !.at = "history"]
  <2>1. /\ next.at = "history" /\ next.id = t /\ next.exec = "off" /\ ~next.gone
        /\ next.claim = NoClaim /\ next.events = <<>>
    BY <1>1 DEF Call
  <2>2. /\ Go(c, next) /\ task' = [task EXCEPT ![t] = Row("submitted", NoClaim)]
        /\ UNCHANGED <<claims, taker, troubled>> /\ call[c].method = "none"
    BY <1>1, <1>2 DEF Start, Honest
  <2>3. t \notin Stored
    BY <1>2, CreateWants DEF Start
  <2> HIDE DEF next
  <2>4. Honest(next)
    BY <2>1 DEF Honest, BeforeSkill
  <2> QED
    BY <2>1, <2>2, <2>3, <2>4, StartTraced, GoHonest
<1>3. ASSUME NEW t \in Tasks, NEW method \in {"cancel", "get"}, NEW at \in {"update", "artifacts"},
             call[c].at = "idle", UNCHANGED <<claims, taker>>, Quiet,
             Go(c, [Idle EXCEPT !.method = method, !.at = at, !.id = t,
                                !.state = task[t].state, !.claim = task[t].claim])
      PROVE  Traced' /\ \A d \in Calls : Honest(call'[d])
  <2> DEFINE next == [Idle EXCEPT !.method = method, !.at = at, !.id = t,
                                  !.state = task[t].state, !.claim = task[t].claim]
  <2>1. next.at = at /\ next.method = method /\ next.exec = "off" /\ next.events = <<>>
    BY <1>1 DEF Call
  <2>2. Go(c, next) /\ UNCHANGED <<task, troubled>> /\ call[c].method = "none"
    BY <1>1, <1>3 DEF Quiet, Honest
  <2> HIDE DEF next
  <2>3. Honest(next)
    BY <2>1 DEF Honest, BeforeSkill
  <2> QED
    BY <1>3, <2>1, <2>2, <2>3, OtherTraced, GoHonest
<1>4. ASSUME NEW t \in Tasks, CancelRead(c, t)
      PROVE  Traced' /\ \A d \in Calls : Honest(call'[d])
  BY <1>3, <1>4 DEF CancelRead
<1>5. ASSUME NEW t \in Tasks, GetTask(c, t)
      PROVE  Traced' /\ \A d \in Calls : Honest(call'[d])
  BY <1>3, <1>5 DEF GetTask
<1> QED
  BY <1>2, <1>4, <1>5 DEF Request

\* A client leaves.
LEMMA DisconnectTraced ==
  ASSUME TInv, NEW c \in Calls, Disconnect(c)
  PROVE  Traced' /\ \A d \in Calls : Honest(call'[d])
<1> DEFINE k == call[c]
           next == [k EXCEPT !.gone = TRUE]
<1>1. Honest(k) /\ k \in Call
  BY DEF TInv, IInv
<1>2. /\ next.at = k.at /\ next.id = k.id /\ next.exec = k.exec /\ next.gone
      /\ next.claim = k.claim /\ next.events = k.events /\ next.method = k.method
  BY <1>1 DEF Call
<1>3. /\ Go(c, next) /\ troubled' = troubled \cup {k.id}
      /\ UNCHANGED <<task, claims, taker>>
  BY DEF Disconnect
<1> HIDE DEF next
<1>4. Honest(next)
  BY <1>1, <1>2 DEF Honest
<1>5. Traced'
  BY <1>2, <1>3, KeepTraced
<1> QED
  BY <1>3, <1>4, <1>5, GoHonest

\* A claim in force goes; no call and no row changes.
LEMMA LapseTraced ==
  ASSUME TInv, claims' \subseteq claims, UNCHANGED <<task, taker, call, troubled>>
  PROVE  Traced' /\ \A d \in Calls : Honest(call'[d])
<1>1. Traced /\ \A d \in Calls : Honest(call[d])
  BY DEF TInv
<1>2. \A d \in Calls, u \in Tasks : WorksOn(d, u)' <=> WorksOn(d, u)
  BY DEF WorksOn
<1> QED
  BY <1>1, <1>2 DEF Traced, Stored

\* The process starts again: what a call was at work on is troubled, and what no call
\* was at work on is as it was.
LEMMA RestartTraced ==
  ASSUME TInv, Restart
  PROVE  Traced' /\ \A d \in Calls : Honest(call'[d])
<1>1. \A d \in Calls : call'[d] = Idle
  BY DEF Restart
<1>2. \A d \in Calls, t \in Tasks : ~WorksOn(d, t)'
  BY <1>1 DEF WorksOn, Idle
<1>3. \A d \in Calls, t \in Tasks : WorksOn(d, t) => t \in troubled'
  BY DEF WorksOn, Restart, InProgress
<1>4. claims' = {} \/ UNCHANGED <<task, claims, taker>>
  BY DEF Restart
<1>5. troubled \subseteq troubled'
  BY DEF Restart
<1>6. Traced'
  BY <1>2, <1>3, <1>4, <1>5 DEF TInv, Traced
<1> QED
  BY <1>1, <1>6, IdleHonest

\* Every step preserves the second invariant.
LEMMA NextTInv == TInv /\ [Next]_vars => TInv'
<1> SUFFICES ASSUME TInv, [Next]_vars PROVE TInv'
  OBVIOUS
<1>1. IInv'
  BY NextIInv DEF TInv
<1>2. ASSUME NEW statements, DeleteRows(statements)
      PROVE  Traced' /\ \A d \in Calls : Honest(call'[d])
  BY <1>2, DeleteTraced DEF DeleteRows, TInv
<1>3. ASSUME NEW c \in Calls, Request(c) \/ Handler(c) \/ Executor(c) \/ Disconnect(c)
      PROVE  Traced' /\ \A d \in Calls : Honest(call'[d])
  BY <1>3, RequestTraced, HandlerTraced, ExecutorTraced, DisconnectTraced
<1>4. ASSUME NEW claim \in ClaimId, Lapse(claim)
      PROVE  Traced' /\ \A d \in Calls : Honest(call'[d])
  BY <1>4, LapseTraced DEF Lapse, Quiet
<1>5. ASSUME DeleteNamespace \/ DeleteStatement \/ DeleteFails
      PROVE  Traced' /\ \A d \in Calls : Honest(call'[d])
  BY <1>2, <1>5 DEF DeleteNamespace, DeleteStatement, DeleteFails
<1>6. CASE UNCHANGED vars
  BY <1>1, <1>6, LapseTraced DEF vars, TInv
<1> QED
  BY <1>1, <1>3, <1>4, <1>5, <1>6, RestartTraced DEF Next, TInv

\* Whatever calls overlap, a claim in force is named by the row of its task or by the
\* call at work, unless the task was cancelled, its client left, the process crashed at
\* work on it, or the provider failed
\* (handler_tasks.go:57-86,157-183).
THEOREM ClaimsFound == Spec => []ClaimsTraceable
<1>1. Init => TInv
  <2> SUFFICES ASSUME Init PROVE TInv
    OBVIOUS
  <2>1. \A c \in Calls : call[c] = Idle /\ Honest(call[c])
    BY IdleHonest DEF Init
  <2>2. \A c \in Calls, t \in Tasks : ~WorksOn(c, t)
    BY <2>1 DEF WorksOn, Idle
  <2>3. Traced
    BY <2>2 DEF Traced, Init
  <2> QED
    BY <2>1, <2>3, InitIInv DEF TInv
<1>2. TInv => ClaimsTraceable
  <2> SUFFICES ASSUME TInv, NEW x \in claims, taker[x] \notin troubled
               PROVE  \/ task[taker[x]].claim = x \/ \E c \in Calls : Carries(c, x)
                      \/ task[taker[x]].state = "canceled"
    BY DEF ClaimsTraceable
  <2>1. PICK t \in Tasks : taker[x] = t
    BY DEF TInv, IInv, Tables
  <2>2. \/ \E c \in Calls : WorksOn(c, t)
        \/ task[t].claim = x \/ task[t].state = "canceled"
    BY <2>1 DEF TInv, Traced
  <2>3. ASSUME NEW c \in Calls, WorksOn(c, t) PROVE Carries(c, x)
    BY <2>1, <2>3 DEF TInv, Traced, Carries
  <2> QED
    BY <2>1, <2>2, <2>3
<1> QED
  BY <1>1, <1>2, NextTInv, PTL DEF Spec

----------------------------------------------------------------------------
\* The third invariant follows an artifact from the skill that made it to its table.

\* The tasks whose artifact is stored, or was lost unnoticed or with the namespace.
Kept == artifact \cup unkept

\* An artifact is among the first n events.
Sent(events, n) == \E i \in 1..n : events[i].type = "artifact"

\* What names a claim and calls its task completed comes after the artifact: the send
\* that stored it, the read of the row, the executor and the events that it puts on its channel.
Backed(k, kept) ==
    /\ k.claim # NoClaim /\ k.at = "artifact" => k.skill # "release"
    /\ k.claim # NoClaim /\ k.at = "complete" => k.id \in kept
    /\ k.claim # NoClaim /\ k.at = "artifacts" /\ k.state = "completed" => k.id \in kept
    /\ k.claim # NoClaim /\ k.exec \in {"complete", "done"}
           => k.id \in kept \/ Sent(k.events, Len(k.events))
    /\ \A i \in DOMAIN k.events :
           k.events[i].state = "completed" /\ k.events[i].claim # NoClaim
               => k.id \in kept \/ Sent(k.events, i)

\* The answer of tasks/get has the artifact, if the query did not fail.
Shown(k, except) ==
    k.at = "answered" /\ k.state = "completed" /\ k.claim # NoClaim
        => k.art \/ k.unread \/ k.id \in except

RowsBacked ==
    \A t \in Tasks : task[t].state = "completed" /\ task[t].claim # NoClaim => t \in Kept

Ordered ==
    /\ RowsBacked
    /\ \A c \in Calls : Backed(call[c], Kept) /\ Shown(call[c], unkept)

BInv == IInv /\ Ordered

\* A call that is over, or has not begun.
LEMMA IdleBacked == \A kept : Backed(Idle, kept) /\ Shown(Idle, kept)
BY DEF Idle, Backed, Shown

\* More artifacts, and more tasks that something failed of, disturb nothing.
LEMMA BackedGrows ==
  ASSUME NEW k, NEW kept, NEW more, Backed(k, kept), kept \subseteq more
  PROVE  Backed(k, more)
BY DEF Backed

\* No call moves.
LEMMA StayOrdered ==
  ASSUME BInv, call' = call, Kept \subseteq Kept', unkept \subseteq unkept', RowsBacked'
  PROVE  Ordered'
<1>1. ASSUME NEW c \in Calls PROVE Backed(call[c], Kept') /\ Shown(call[c], unkept')
  <2>1. Backed(call[c], Kept) /\ Shown(call[c], unkept)
    BY DEF BInv, Ordered
  <2>2. Backed(call[c], Kept')
    BY <2>1, BackedGrows
  <2> QED
    BY <2>1, <2>2 DEF Shown
<1> QED
  BY <1>1 DEF Ordered

\* One call moves on in order.
LEMMA GoOrdered ==
  ASSUME BInv, NEW c \in Calls, NEW n, Go(c, n), Backed(n, Kept'), Shown(n, unkept'),
         artifact \subseteq artifact', unkept \subseteq unkept', RowsBacked'
  PROVE  Ordered'
<1>1. call'[c] = n /\ \A d \in Calls \ {c} : call'[d] = call[d]
  BY GoOne DEF BInv
<1>2. Kept \subseteq Kept'
  BY DEF Kept
<1>3. ASSUME NEW d \in Calls PROVE Backed(call'[d], Kept') /\ Shown(call'[d], unkept')
  <2>1. CASE d = c
    BY <1>1, <2>1
  <2>2. CASE d # c
    <3>1. Backed(call[d], Kept) /\ Shown(call[d], unkept) /\ call'[d] = call[d]
      BY <1>1, <2>2 DEF BInv, Ordered
    <3>2. Backed(call[d], Kept')
      BY <1>2, <3>1, BackedGrows
    <3> QED
      BY <3>1, <3>2 DEF Shown
  <2> QED
    BY <2>1, <2>2
<1> QED
  BY <1>3 DEF Ordered

\* The rows stay as they are.
LEMMA SameRows ==
  ASSUME BInv, task' = task, artifact \subseteq artifact', unkept \subseteq unkept'
  PROVE  RowsBacked'
BY DEF BInv, Ordered, RowsBacked, Kept

\* A row is written, if there is one.
LEMMA WrittenRows ==
  ASSUME BInv, NEW c \in Calls, NEW ok, NEW state, NEW claim,
         UpdateTask(c, ok, state, claim), UNCHANGED <<artifact, unkept>>,
         state = "completed" /\ claim # NoClaim => call[c].id \in Kept
  PROVE  RowsBacked'
<1>1. Kept' = Kept
  BY DEF Kept
<1>2. task \in [Tasks -> Rows]
  BY DEF BInv, IInv, Tables
<1>3. ASSUME NEW t \in Tasks, task'[t].state = "completed", task'[t].claim # NoClaim
      PROVE  t \in Kept
  <2>1. CASE task'[t] = task[t]
    BY <1>3, <2>1 DEF BInv, Ordered, RowsBacked
  <2>2. CASE task'[t] # task[t]
    <3>1. t = call[c].id /\ task'[t] = Row(state, claim)
      BY <1>2, <2>2 DEF UpdateTask
    <3> QED
      BY <1>3, <3>1 DEF Row
  <2> QED
    BY <2>1, <2>2
<1> QED
  BY <1>1, <1>3 DEF RowsBacked

\* An event goes on the channel: of a completed task with a claim only after the artifact.
LEMMA EmitBacked ==
  ASSUME NEW k, Sound(k), k.exec # "off", NEW kept, Backed(k, kept),
         NEW state, NEW type, NEW exec,
         state = "completed" => type = "artifact" \/ k.exec \in {"complete", "done"},
         exec = "complete" => type = "artifact",
         exec = "done" => k.exec = "complete"
  PROVE  Backed(Spoken(k, state, type, exec), kept)
<1> DEFINE event == [type |-> type, state |-> state, claim |-> k.claim]
           last == Len(k.events) + 1
           next == [k EXCEPT !.state = state, !.events = Append(k.events, event),
                             !.spoke = TRUE, !.exec = exec]
<1>1. k \in Call /\ k.at = "loop" /\ k.events \in Seq(Event)
  BY DEF Sound, Call
<1>2. Spoken(k, state, type, exec) = next
  BY <1>1 DEF Spoken, Emit, Call
<1>3. event.claim = k.claim /\ event.type = type /\ event.state = state
  OBVIOUS
<1> HIDE DEF event
<1>4. /\ \A i \in 1..Len(k.events) : Append(k.events, event)[i] = k.events[i]
      /\ Append(k.events, event)[last] = event
      /\ DOMAIN Append(k.events, event) = 1..last /\ Len(Append(k.events, event)) = last
      /\ DOMAIN k.events = 1..Len(k.events) /\ Len(k.events) \in Nat
  BY <1>1
<1>5. /\ next.at = "loop" /\ next.exec = exec /\ next.id = k.id /\ next.claim = k.claim
      /\ next.events = Append(k.events, event)
  BY <1>1 DEF Call
<1> HIDE DEF next
<1>6. \A i \in 1..Len(k.events) : Sent(k.events, i) => Sent(next.events, i)
  BY <1>4, <1>5 DEF Sent
<1>7. Sent(k.events, Len(k.events)) \/ type = "artifact" => Sent(next.events, last)
  <2>1. ASSUME Sent(k.events, Len(k.events)) PROVE Sent(next.events, last)
    <3>1. PICK i \in 1..Len(k.events) : k.events[i].type = "artifact"
      BY <2>1 DEF Sent
    <3>2. i \in 1..last /\ next.events[i] = k.events[i]
      BY <1>4, <1>5
    <3> QED
      BY <3>1, <3>2 DEF Sent
  <2>2. ASSUME type = "artifact" PROVE Sent(next.events, last)
    <3>1. last \in 1..last /\ next.events[last].type = "artifact"
      BY <1>3, <1>4, <1>5, <2>2
    <3> QED
      BY <3>1 DEF Sent
  <2> QED
    BY <2>1, <2>2
<1>8. k.claim # NoClaim /\ (type = "artifact" \/ k.exec \in {"complete", "done"})
          => k.id \in kept \/ Sent(next.events, last)
  BY <1>7 DEF Backed
<1>9. ASSUME NEW i \in DOMAIN next.events, next.events[i].state = "completed",
             next.events[i].claim # NoClaim
      PROVE  next.id \in kept \/ Sent(next.events, i)
  <2>1. i \in 1..Len(k.events) \/ i = last
    BY <1>4, <1>5, <1>9
  <2>2. CASE i \in 1..Len(k.events)
    BY <1>4, <1>5, <1>6, <1>9, <2>2 DEF Backed
  <2>3. CASE i = last
    BY <1>3, <1>4, <1>5, <1>8, <1>9, <2>3
  <2> QED
    BY <2>1, <2>2, <2>3
<1>10. next.claim # NoClaim /\ next.exec \in {"complete", "done"}
           => next.id \in kept \/ Sent(next.events, Len(next.events))
  BY <1>4, <1>5, <1>8
<1>11. Backed(next, kept)
  BY <1>5, <1>9, <1>10 DEF Backed
<1> QED
  BY <1>2, <1>11

\* The executor moves on without an event; it is done with a skill that makes no
\* artifact only when there is no claim.
LEMMA MoveBacked ==
  ASSUME NEW k, Sound(k), k.exec # "off", NEW kept, Backed(k, kept),
         NEW state, NEW claim, NEW exec,
         exec = "complete" => claim = NoClaim, exec # "done"
  PROVE  Backed(Moved(k, state, claim, exec), kept)
<1> DEFINE next == [k EXCEPT !.state = state, !.claim = claim, !.exec = exec]
<1>1. k \in Call /\ k.at = "loop"
  BY DEF Sound
<1>2. /\ next.at = "loop" /\ next.exec = exec /\ next.id = k.id /\ next.claim = claim
      /\ next.events = k.events
  BY <1>1 DEF Call
<1>3. Moved(k, state, claim, exec) = next
  BY DEF Moved
<1> HIDE DEF next
<1> QED
  BY <1>2, <1>3 DEF Backed

\* An event is taken off the channel, the artifact's when it is stored.
LEMMA TakenBacked ==
  ASSUME NEW c \in Calls, Sound(call[c]), call[c].events # <<>>, NEW kept,
         Backed(call[c], kept), NextEvent(c).type = "artifact" => call[c].id \in kept
  PROVE  Backed(Taken(c), kept)
<1> DEFINE k == call[c]
           next == [k EXCEPT !.events = Tail(k.events)]
<1>1. k \in Call /\ k.events \in Seq(Event) /\ k.events # <<>>
  BY DEF Sound, Call
<1>2. /\ Len(k.events) \in Nat \ {0} /\ DOMAIN k.events = 1..Len(k.events)
      /\ NextEvent(c) = k.events[1]
      /\ DOMAIN Tail(k.events) = 1..(Len(k.events) - 1)
      /\ Len(Tail(k.events)) = Len(k.events) - 1
      /\ \A i \in 1..(Len(k.events) - 1) : Tail(k.events)[i] = k.events[i + 1]
  BY <1>1 DEF NextEvent
<1>3. /\ next.at = k.at /\ next.id = k.id /\ next.exec = k.exec /\ next.skill = k.skill
      /\ next.state = k.state /\ next.claim = k.claim /\ next.events = Tail(k.events)
  BY <1>1 DEF Call
<1>4. Taken(c) = next
  BY DEF Taken
<1> HIDE DEF next
<1>5. ASSUME NEW n \in 1..Len(k.events), Sent(k.events, n)
      PROVE  k.id \in kept \/ Sent(next.events, n - 1)
  <2>1. PICK i \in 1..n : k.events[i].type = "artifact"
    BY <1>5 DEF Sent
  <2>2. CASE i = 1
    BY <1>2, <2>1, <2>2
  <2>3. CASE i # 1
    <3>1. i - 1 \in 1..(n - 1) /\ next.events[i - 1] = k.events[i]
      BY <1>2, <1>3, <2>1, <2>3
    <3> QED
      BY <2>1, <3>1 DEF Sent
  <2> QED
    BY <2>2, <2>3
<1>6. ASSUME NEW i \in DOMAIN next.events, next.events[i].state = "completed",
             next.events[i].claim # NoClaim
      PROVE  next.id \in kept \/ Sent(next.events, i)
  <2>1. i + 1 \in 1..Len(k.events) /\ next.events[i] = k.events[i + 1] /\ (i + 1) - 1 = i
    BY <1>2, <1>3
  <2>2. k.id \in kept \/ Sent(k.events, i + 1)
    BY <1>2, <1>6, <2>1 DEF Backed
  <2> QED
    BY <1>3, <1>5, <2>1, <2>2
<1>7. next.claim # NoClaim /\ next.exec \in {"complete", "done"}
          => next.id \in kept \/ Sent(next.events, Len(next.events))
  BY <1>2, <1>3, <1>5 DEF Backed
<1>8. Backed(next, kept)
  BY <1>3, <1>6, <1>7 DEF Backed
<1> QED
  BY <1>4, <1>8

\* The steps of the executor.
LEMMA ExecutorOrdered ==
  ASSUME BInv, NEW c \in Calls, Executor(c)
  PROVE  Ordered'
<1> DEFINE k == call[c]
           Fit(n) == Backed(n, Kept) /\ Shown(n, unkept)
<1>1. Sound(k) /\ k \in Call /\ Backed(k, Kept)
  BY DEF BInv, IInv, Ordered
<1>2. ASSUME NEW n, Fit(n), Go(c, n), Quiet PROVE Ordered'
  <2>1. artifact' = artifact /\ unkept' = unkept /\ task' = task /\ Kept' = Kept
    BY <1>2 DEF Quiet, Kept
  <2>2. RowsBacked'
    BY <2>1, SameRows
  <2> QED
    BY <1>2, <2>1, <2>2, GoOrdered
<1>3. ASSUME k.exec # "off" PROVE k.at = "loop"
  BY <1>1, <1>3 DEF Sound
<1>4. [k EXCEPT !.state = k.state] = k
  BY <1>1 DEF Call
<1>5. \A e : [k EXCEPT !.exec = e] = Moved(k, k.state, k.claim, e)
  BY <1>1 DEF Call, Moved
<1>6. \A e, x : [[k EXCEPT !.state = x] EXCEPT !.exec = e] = Moved(k, x, k.claim, e)
  BY <1>1 DEF Call, Moved
<1>7. \A e, x : [k EXCEPT !.exec = e, !.state = x] = Moved(k, x, k.claim, e)
  BY <1>1 DEF Call, Moved
<1>8. ASSUME NEW x, NEW claim, NEW e, k.exec # "off", e = "complete" => claim = NoClaim, e # "done"
      PROVE  Fit(Moved(k, x, claim, e))
  <2>1. Moved(k, x, claim, e).at = "loop"
    BY <1>1, <1>3, <1>8 DEF Moved, Call
  <2> QED
    BY <1>1, <1>8, <2>1, MoveBacked DEF Shown
<1>9. ASSUME NEW x, NEW type, NEW e, k.exec # "off",
             x = "completed" => type = "artifact" \/ k.exec \in {"complete", "done"},
             e = "complete" => type = "artifact", e = "done" => k.exec = "complete"
      PROVE  Fit(Spoken(k, x, type, e))
  <2>1. Spoken(k, x, type, e).at = "loop"
    BY <1>1, <1>3, <1>9 DEF Spoken, Emit, Call
  <2> QED
    BY <1>1, <1>9, <2>1, EmitBacked DEF Shown
<1> HIDE DEF Fit
<1>10. CASE ExecSubmitted(c)
  <2>1. k.exec = "submitted" /\ k.state = "submitted"
    BY <1>1, <1>10 DEF ExecSubmitted, Sound
  <2>2. Fit(Moved(k, k.state, k.claim, "early")) /\ Fit(Spoken(k, k.state, "status", "working"))
    BY <1>8, <1>9, <2>1
  <2> QED
    BY <1>2, <1>4, <1>5, <1>10, <2>2 DEF ExecSubmitted, Send, Spoken
<1>11. CASE ExecEarly(c)
  <2>1. k.exec = "early" /\ k.state = "submitted"
    BY <1>1, <1>11 DEF ExecEarly, Sound
  <2>2. Fit(Spoken(k, k.state, "error", "closed"))
    BY <1>9, <2>1
  <2> QED
    BY <1>2, <1>4, <1>11, <2>2 DEF ExecEarly, Spoken
<1>12. CASE ExecWorking(c)
  <2>1. k.exec = "working"
    BY <1>12 DEF ExecWorking
  <2>2. Fit(Moved(k, "working", k.claim, "closed"))
    BY <1>8, <2>1
  <2>3. Fit(Spoken(k, "working", "status", "check"))
    BY <1>9, <2>1
  <2> QED
    BY <1>2, <1>6, <1>12, <2>2, <2>3 DEF ExecWorking, Send, Spoken
<1>13. CASE ExecCheck(c)
  <2>1. k.exec = "check"
    BY <1>13 DEF ExecCheck
  <2>2. Fit(Moved(k, "failed", k.claim, "error")) /\ Fit(Moved(k, k.state, k.claim, "run"))
    BY <1>8, <2>1
  <2> QED
    BY <1>2, <1>5, <1>7, <1>13, <2>2 DEF ExecCheck
<1>14. CASE ExecArtifact(c)
  <2>1. k.exec = "artifact"
    BY <1>14 DEF ExecArtifact
  <2>2. Fit(Moved(k, k.state, k.claim, "closed"))
    BY <1>8, <2>1
  <2>3. Fit(Spoken(k, k.state, "artifact", "complete"))
    BY <1>9, <2>1
  <2> QED
    BY <1>2, <1>4, <1>5, <1>14, <2>2, <2>3 DEF ExecArtifact, Send, Spoken
<1>15. CASE ExecComplete(c)
  <2>1. k.exec = "complete"
    BY <1>15 DEF ExecComplete
  <2>2. Fit(Moved(k, "completed", k.claim, "closed"))
    BY <1>8, <2>1
  <2>3. Fit(Spoken(k, "completed", "status", "done"))
    BY <1>9, <2>1
  <2> QED
    BY <1>2, <1>6, <1>15, <2>2, <2>3 DEF ExecComplete, Send, Spoken
<1>16. CASE ExecLast(c)
  <2>1. k.exec \in {"done", "error"} /\ (k.exec = "error" => k.state = "failed")
    BY <1>1, <1>16 DEF ExecLast, Sound
  <2>2. Fit(Moved(k, k.state, k.claim, "closed"))
    BY <1>8, <2>1
  <2>3. Fit(Spoken(k, k.state, k.exec, "closed"))
    BY <1>9, <2>1
  <2> QED
    BY <1>2, <1>4, <1>5, <1>16, <2>2, <2>3 DEF ExecLast, Send, Spoken
<1>17. CASE ExecRun(c)
  <2>1. k.exec = "run" /\ Quiet
    BY <1>17 DEF ExecRun
  <2>2. PICK outcome \in {"ok", "error"}, claim \in ClaimId \cup {NoClaim} :
            /\ ExecuteSkill(c, outcome, claim)
            /\ Go(c, [call[c] EXCEPT
                        !.claim = claim,
                        !.state = IF outcome = "ok" THEN @ ELSE "failed",
                        !.exec = CASE outcome = "error" -> "error"
                                   [] call[c].skill = "release" -> "complete"
                                   [] OTHER -> "artifact"])
    BY <1>17 DEF ExecRun
  <2> DEFINE state == IF outcome = "ok" THEN k.state ELSE "failed"
             exec == CASE outcome = "error" -> "error"
                       [] k.skill = "release" -> "complete"
                       [] OTHER -> "artifact"
  <2>3. exec # "done" /\ (exec = "complete" => k.skill = "release")
    BY <2>2
  <2>4. Go(c, Moved(k, state, claim, exec))
    BY <1>1, <2>2 DEF Call, Moved
  <2>5. k.skill = "release" => claim = NoClaim
    BY <2>2 DEF ExecuteSkill, SkillClaim, SkillRelease, SkillOther
  <2> HIDE DEF state, exec
  <2> QED
    BY <1>2, <1>8, <2>1, <2>3, <2>4, <2>5
<1> QED
  BY <1>10, <1>11, <1>12, <1>13, <1>14, <1>15, <1>16, <1>17 DEF Executor

\* The steps of the handler.
LEMMA HandlerOrdered ==
  ASSUME BInv, NEW c \in Calls, Handler(c)
  PROVE  Ordered'
<1> DEFINE k == call[c]
<1>1. Sound(k) /\ k \in Call /\ Backed(k, Kept) /\ Shown(k, unkept)
  BY DEF BInv, IInv, Ordered
<1>2. /\ k.at \notin {"idle", "loop"} => k.exec = "off"
      /\ k.at # "idle" => k.id \in Tasks
  BY <1>1 DEF Sound
<1>4. ASSUME NEW n, Go(c, n), Backed(n, Kept'), Shown(n, unkept'), task' = task,
             artifact \subseteq artifact', unkept \subseteq unkept'
      PROVE  Ordered'
  BY <1>4, SameRows, GoOrdered
<1>5. ASSUME Return(c), artifact \subseteq artifact', unkept \subseteq unkept', RowsBacked'
      PROVE  Ordered'
  BY <1>5, IdleBacked, GoOrdered DEF Return
<1>6. ASSUME NEW n, NEW kept, Kept \subseteq kept, n.id = k.id, n.events = k.events,
             n.claim = NoClaim \/ n.at \notin {"artifact", "complete", "artifacts"},
             n.exec \notin {"complete", "done"}
      PROVE  Backed(n, kept)
  BY <1>1, <1>6 DEF Backed
<1>7. ASSUME artifact \subseteq artifact', unkept \subseteq unkept' PROVE Kept \subseteq Kept'
  BY <1>7 DEF Kept
<1>8. CASE AppendHistory(c)
  <2>1. PICK ok \in Answers(c, "history") :
            /\ k.at = "history"
            /\ \/ IF ok THEN Go(c, [k EXCEPT !.at = "skill", !.state = "working"])
                        ELSE Return(c)
               \/ Go(c, [k EXCEPT !.at = "loop", !.exec = "submitted", !.late = k.gone])
            /\ UNCHANGED <<task, artifact, unkept>>
    BY <1>8 DEF AppendHistory
  <2> DEFINE sent == [k EXCEPT !.at = "skill", !.state = "working"]
             streamed == [k EXCEPT !.at = "loop", !.exec = "submitted", !.late = k.gone]
  <2>2. sent.at = "skill" /\ sent.exec = k.exec /\ sent.events = k.events /\ sent.id = k.id
    BY <1>1 DEF Call
  <2>3. /\ streamed.at = "loop" /\ streamed.exec = "submitted" /\ streamed.events = k.events
        /\ streamed.id = k.id
    BY <1>1 DEF Call
  <2> HIDE DEF sent, streamed
  <2>4. k.exec = "off" /\ artifact \subseteq artifact' /\ unkept \subseteq unkept'
    BY <1>2, <2>1
  <2>5. Backed(sent, Kept') /\ Backed(streamed, Kept')
    BY <1>6, <1>7, <2>2, <2>3, <2>4
  <2>6. Shown(sent, unkept') /\ Shown(streamed, unkept')
    BY <2>2, <2>3 DEF Shown
  <2>7. CASE Return(c)
    BY <1>5, <2>1, <2>4, <2>7, SameRows
  <2>8. CASE Go(c, sent) \/ Go(c, streamed)
    BY <1>4, <2>1, <2>4, <2>5, <2>6, <2>8
  <2> QED
    BY <2>1, <2>7, <2>8 DEF sent, streamed
<1>9. CASE SendSkill(c)
  <2>1. PICK outcome \in {"ok", "error"}, claim \in ClaimId \cup {NoClaim} :
            /\ ExecuteSkill(c, outcome, claim)
            /\ Go(c, [k EXCEPT !.claim = claim,
                               !.at = IF outcome = "ok" THEN "artifact" ELSE "fail"])
    BY <1>9 DEF SendSkill
  <2>2. k.at = "skill" /\ UNCHANGED <<task, artifact, unkept>>
    BY <1>9 DEF SendSkill, At
  <2> DEFINE at == IF outcome = "ok" THEN "artifact" ELSE "fail"
             next == [k EXCEPT !.claim = claim, !.at = at]
  <2>3. /\ next.at \in {"artifact", "fail"} /\ next.exec = k.exec /\ next.skill = k.skill
        /\ next.events = k.events /\ next.claim = claim /\ next.id = k.id
    BY <1>1 DEF Call
  <2>4. Go(c, next)
    BY <2>1
  <2> HIDE DEF next
  <2>5. k.skill = "release" => claim = NoClaim
    BY <2>1 DEF ExecuteSkill, SkillClaim, SkillRelease, SkillOther
  <2>6. Backed(next, Kept) /\ Shown(next, unkept) /\ Kept' = Kept
    BY <1>1, <1>2, <2>2, <2>3, <2>5 DEF Backed, Shown, Kept
  <2> QED
    BY <1>4, <2>2, <2>4, <2>6
<1>10. CASE SendFail(c)
  <2>1. PICK ok \in Answers(c, "update") :
            UpdateTask(c, ok, "failed", k.claim) /\ Return(c) /\ UNCHANGED <<artifact, unkept>>
    BY <1>10 DEF SendFail
  <2> QED
    BY <1>5, <2>1, WrittenRows
<1>11. CASE SendComplete(c)
  <2>1. PICK ok \in Answers(c, "update") :
            /\ k.at = "complete"
            /\ UpdateTask(c, ok, "completed", k.claim) /\ Return(c) /\ UNCHANGED <<artifact, unkept>>
    BY <1>11 DEF SendComplete, At
  <2>2. k.claim # NoClaim => k.id \in Kept
    BY <1>1, <2>1 DEF Backed
  <2> QED
    BY <1>5, <2>1, <2>2, WrittenRows
<1>12. CASE SendArtifact(c)
  <2> DEFINE next == [k EXCEPT !.at = "complete"]
  <2>1. PICK ok \in Answers(c, "artifact") :
            /\ k.at = "artifact"
            /\ \/ k.skill = "release" /\ Go(c, next) /\ UNCHANGED artifact
               \/ /\ IF ok THEN Go(c, next) ELSE Return(c)
                  /\ artifact' = IF ok THEN artifact \cup {k.id} ELSE artifact
            /\ UNCHANGED <<task, unkept>>
    BY <1>12 DEF SendArtifact, At, Step
  <2>2. /\ next.at = "complete" /\ next.exec = k.exec /\ next.events = k.events
        /\ next.claim = k.claim /\ next.id = k.id
    BY <1>1 DEF Call
  <2> HIDE DEF next
  <2>3. artifact \subseteq artifact' /\ unkept \subseteq unkept'
    BY <2>1
  <2>4. CASE Return(c)
    BY <1>5, <2>1, <2>3, <2>4, SameRows
  <2>5. ASSUME k.claim = NoClaim \/ k.id \in Kept', Go(c, next) PROVE Ordered'
    <3>1. Backed(next, Kept')
      BY <1>1, <1>2, <1>7, <2>1, <2>2, <2>3, <2>5 DEF Backed
    <3>2. Shown(next, unkept')
      BY <2>2 DEF Shown
    <3> QED
      BY <1>4, <2>1, <2>3, <2>5, <3>1, <3>2
  <2>6. CASE k.skill = "release" /\ Go(c, next)
    BY <1>1, <2>1, <2>5, <2>6 DEF Backed
  <2>7. CASE ok /\ Go(c, next) /\ artifact' = artifact \cup {k.id}
    BY <2>5, <2>7 DEF Kept
  <2> QED
    BY <2>1, <2>4, <2>6, <2>7
<1>13. ASSUME k.events # <<>>, Go(c, Taken(c)), task' = task, At(c, "stream", "loop"),
              NextEvent(c).type = "artifact" => k.id \in Kept',
              artifact \subseteq artifact', unkept \subseteq unkept'
       PROVE  Ordered'
  <2>1. Backed(k, Kept')
    BY <1>1, <1>7, <1>13, BackedGrows
  <2>2. Backed(Taken(c), Kept')
    BY <1>1, <1>13, <2>1, TakenBacked
  <2>3. Taken(c).at = "loop"
    BY <1>1, <1>13 DEF Taken, Call, At
  <2> QED
    BY <1>4, <1>13, <2>2, <2>3 DEF Shown
<1>14. CASE StreamStatus(c)
  BY <1>13, <1>14 DEF StreamStatus, Quiet
<1>15. CASE StreamArtifact(c)
  <2>1. PICK ok \in Answers(c, "artifact") :
            /\ At(c, "stream", "loop") /\ k.events # <<>>
            /\ artifact' = IF ok THEN artifact \cup {k.id} ELSE artifact
            /\ unkept' = IF ok THEN unkept ELSE unkept \cup {k.id}
            /\ Go(c, Taken(c))
            /\ task' = task
    BY <1>15 DEF StreamArtifact
  <2>2. artifact \subseteq artifact' /\ unkept \subseteq unkept' /\ k.id \in Kept'
    BY <2>1 DEF Kept
  <2> QED
    BY <1>13, <2>1, <2>2
<1>16. CASE StreamEnd(c)
  <2>1. PICK ok \in Answers(c, "update") :
            /\ k.events # <<>>
            /\ NextEvent(c).type \in {"error", "done"}
            /\ UpdateTask(c, ok, NextEvent(c).state, NextEvent(c).claim)
            /\ Return(c) /\ UNCHANGED <<artifact, unkept>>
    BY <1>16 DEF StreamEnd
  <2>2. NextEvent(c) = k.events[1] /\ 1 \in DOMAIN k.events
    BY <1>1, <2>1 DEF NextEvent, Call
  <2>3. ~Sent(k.events, 1)
    BY <2>1, <2>2 DEF Sent
  <2>4. NextEvent(c).state = "completed" /\ NextEvent(c).claim # NoClaim => k.id \in Kept
    BY <1>1, <2>2, <2>3 DEF Backed
  <2> QED
    BY <1>5, <2>1, <2>4, WrittenRows
<1>17. CASE StreamClosed(c)
  BY <1>5, <1>17, SameRows DEF StreamClosed, Quiet
<1>18. CASE CancelUpdate(c)
  <2>1. PICK ok \in Answers(c, "update") :
            UpdateTask(c, ok, "canceled", k.claim) /\ Return(c) /\ UNCHANGED <<artifact, unkept>>
    BY <1>18 DEF CancelUpdate
  <2> QED
    BY <1>5, <2>1, WrittenRows
<1>19. CASE GetArtifacts(c)
  <2> DEFINE read == [k EXCEPT !.at = "answered", !.art = k.id \in artifact]
             unread == [k EXCEPT !.at = "answered", !.unread = TRUE]
  <2>1. /\ k.at = "artifacts" /\ UNCHANGED <<task, artifact, unkept>>
        /\ Go(c, read) \/ Return(c) \/ Go(c, unread)
    BY <1>19 DEF GetArtifacts, At, Quiet
  <2>2. /\ read.at = "answered" /\ read.exec = k.exec /\ read.events = k.events
        /\ read.state = k.state /\ read.claim = k.claim /\ read.id = k.id
        /\ read.art = (k.id \in artifact)
    BY <1>1 DEF Call
  <2>3. /\ unread.at = "answered" /\ unread.exec = k.exec /\ unread.events = k.events
        /\ unread.unread /\ unread.id = k.id
    BY <1>1 DEF Call
  <2> HIDE DEF read, unread
  <2>4. Kept' = Kept /\ k.exec = "off"
    BY <1>2, <2>1 DEF Kept
  <2>5. CASE Go(c, read)
    <3>1. Backed(read, Kept')
      BY <1>6, <2>2, <2>4
    <3>2. Shown(read, unkept')
      BY <1>1, <2>1, <2>2 DEF Shown, Backed, Kept
    <3> QED
      BY <1>4, <2>1, <2>5, <3>1, <3>2
  <2>6. CASE Go(c, unread)
    <3>1. Backed(unread, Kept') /\ Shown(unread, unkept')
      BY <1>6, <2>3, <2>4 DEF Shown
    <3> QED
      BY <1>4, <2>1, <2>6, <3>1
  <2>7. CASE Return(c)
    BY <1>5, <2>1, <2>7, SameRows
  <2> QED
    BY <2>1, <2>5, <2>6, <2>7
<1>20. CASE GetReturns(c)
  BY <1>5, <1>20, SameRows DEF GetReturns, Quiet
<1> QED
  BY <1>8, <1>9, <1>10, <1>11, <1>12, <1>14, <1>15, <1>16, <1>17, <1>18, <1>19, <1>20 DEF Handler

\* A request comes in; tasks/get reads a row, which the artifact came before.
LEMMA RequestOrdered ==
  ASSUME BInv, NEW c \in Calls, Request(c)
  PROVE  Ordered'
<1>1. /\ Idle \in Call /\ Idle.events = <<>> /\ Idle.exec = "off"
      /\ Idle.claim = NoClaim
  BY IdleSound DEF Sound, Idle
<1>2. ASSUME NEW t \in Tasks, NEW method \in {"send", "stream"}, NEW skill \in Skills,
             Start(c, method, t, skill)
      PROVE  Ordered'
  <2> DEFINE next == [Idle EXCEPT !.method = method, !.id = t, !.skill = skill,
                                  !.state = "submitted", !.at = "history"]
  <2>1. next.at = "history" /\ next.exec = "off" /\ next.events = <<>>
    BY <1>1 DEF Call
  <2>2. /\ Go(c, next) /\ task' = [task EXCEPT ![t] = Row("submitted", NoClaim)]
        /\ UNCHANGED <<artifact, unkept>>
    BY <1>2 DEF Start
  <2> HIDE DEF next
  <2>3. Backed(next, Kept') /\ Shown(next, unkept')
    BY <2>1 DEF Backed, Shown
  <2>4. RowsBacked'
    BY <2>2 DEF BInv, IInv, Tables, Ordered, RowsBacked, Kept, Row
  <2> QED
    BY <2>2, <2>3, <2>4, GoOrdered
<1>3. ASSUME NEW t \in Tasks, NEW method \in {"cancel", "get"}, NEW at \in {"update", "artifacts"},
             Quiet,
             Go(c, [Idle EXCEPT !.method = method, !.at = at, !.id = t,
                                !.state = task[t].state, !.claim = task[t].claim])
      PROVE  Ordered'
  <2> DEFINE next == [Idle EXCEPT !.method = method, !.at = at, !.id = t,
                                  !.state = task[t].state, !.claim = task[t].claim]
  <2>1. /\ next.at = at /\ next.exec = "off" /\ next.events = <<>> /\ next.id = t
        /\ next.state = task[t].state /\ next.claim = task[t].claim
    BY <1>1 DEF Call
  <2>2. Go(c, next) /\ UNCHANGED <<task, artifact, unkept>> /\ Kept' = Kept
    BY <1>3 DEF Quiet, Kept
  <2> HIDE DEF next
  <2>3. Backed(next, Kept') /\ Shown(next, unkept')
    BY <2>1, <2>2 DEF Backed, Shown, BInv, Ordered, RowsBacked
  <2> QED
    BY <2>2, <2>3, SameRows, GoOrdered
<1>4. ASSUME NEW t \in Tasks, CancelRead(c, t) \/ GetTask(c, t) PROVE Ordered'
  BY <1>3, <1>4 DEF CancelRead, GetTask
<1> QED
  BY <1>2, <1>4 DEF Request

\* A client leaves.
LEMMA DisconnectOrdered ==
  ASSUME BInv, NEW c \in Calls, Disconnect(c)
  PROVE  Ordered'
<1> DEFINE k == call[c]
           next == [k EXCEPT !.gone = TRUE]
<1>1. Backed(k, Kept) /\ Shown(k, unkept) /\ k \in Call
  BY DEF BInv, IInv, Ordered
<1>2. /\ next.at = k.at /\ next.id = k.id /\ next.exec = k.exec /\ next.skill = k.skill
      /\ next.state = k.state /\ next.art = k.art /\ next.unread = k.unread
      /\ next.claim = k.claim /\ next.events = k.events
  BY <1>1 DEF Call
<1>3. Go(c, next) /\ UNCHANGED <<task, artifact, unkept>>
  BY DEF Disconnect
<1> HIDE DEF next
<1>4. Backed(next, Kept') /\ Shown(next, unkept')
  BY <1>1, <1>2, <1>3 DEF Backed, Shown, Kept
<1> QED
  BY <1>3, <1>4, SameRows, GoOrdered

\* The deletion takes artifacts away, of which none is promised after it.
LEMMA DeleteOrdered ==
  ASSUME BInv, NEW statements, DeleteRows(statements)
  PROVE  Ordered'
<1>1. call' = call /\ unkept' = Tasks /\ artifact \subseteq Tasks /\ unkept \subseteq Tasks
  BY DEF DeleteRows, BInv, IInv, Tables
<1> QED
  BY <1>1, StayOrdered DEF Kept, RowsBacked

\* The process starts again: the calls are over, and rows and artifacts stay or go
\* together.
LEMMA RestartOrdered ==
  ASSUME BInv, Restart
  PROVE  Ordered'
<1>1. /\ call' = [c \in Calls |-> Idle] /\ unkept' = unkept
      /\ \/ task' = [t \in Tasks |-> NoRow]
         \/ UNCHANGED <<task, artifact>>
  BY DEF Restart
<1>2. \A c \in Calls : Backed(call'[c], Kept') /\ Shown(call'[c], unkept')
  <2> TAKE c \in Calls
  <2>1. call'[c] = Idle
    BY <1>1
  <2>2. Backed(Idle, Kept') /\ Shown(Idle, unkept')
    BY IdleBacked
  <2> QED
    BY <2>1, <2>2
<1>3. ASSUME task' = [t \in Tasks |-> NoRow] PROVE RowsBacked'
  <2>1. \A t \in Tasks : task'[t].state = "none"
    BY <1>3 DEF NoRow
  <2> QED
    BY <2>1 DEF RowsBacked
<1>4. ASSUME UNCHANGED <<task, artifact>> PROVE RowsBacked'
  <2>1. task' = task /\ artifact \subseteq artifact' /\ unkept \subseteq unkept'
    BY <1>1, <1>4
  <2> QED
    BY <2>1, SameRows
<1>5. RowsBacked'
  BY <1>1, <1>3, <1>4
<1> QED
  BY <1>2, <1>5 DEF Ordered

\* Every step preserves the third invariant.
LEMMA NextBInv == BInv /\ [Next]_vars => BInv'
<1> SUFFICES ASSUME BInv, [Next]_vars PROVE BInv'
  OBVIOUS
<1>1. IInv'
  BY NextIInv DEF BInv
<1>2. ASSUME NEW c \in Calls, Request(c) \/ Handler(c) \/ Executor(c) \/ Disconnect(c)
      PROVE  Ordered'
  BY <1>2, RequestOrdered, HandlerOrdered, ExecutorOrdered, DisconnectOrdered
<1>3. ASSUME UNCHANGED <<task, artifact, unkept, call>> PROVE Ordered'
  BY <1>3, SameRows, StayOrdered DEF Kept
<1>4. ASSUME NEW claim \in ClaimId, Lapse(claim) PROVE Ordered'
  BY <1>3, <1>4 DEF Lapse, Quiet
<1>5. ASSUME DeleteNamespace \/ DeleteStatement \/ DeleteFails PROVE Ordered'
  BY <1>5, DeleteOrdered DEF DeleteNamespace, DeleteStatement, DeleteFails
<1>6. CASE UNCHANGED vars
  BY <1>1, <1>3, <1>6 DEF vars, BInv
<1> QED
  BY <1>1, <1>2, <1>4, <1>5, <1>6, RestartOrdered DEF Next, BInv

\* A row that is completed with a claim stands for an artifact that names it, and who is
\* shown the one is shown the other, whatever provider calls fail, clients leave or
\* crashes come in between.  The two errors that the code passes over are the
\* exemptions: `unkept' (handler_tasks.go:162-165) and `unread' (d1.go:432-434).
THEOREM ArtifactsSeen == Spec => []ArtifactsBeforeRow
<1>1. Init => BInv
  <2> SUFFICES ASSUME Init PROVE BInv
    OBVIOUS
  <2>1. \A c \in Calls : call[c] = Idle
    BY DEF Init
  <2>2. RowsBacked
    BY DEF Init, RowsBacked, NoRow
  <2> QED
    BY <2>1, <2>2, InitIInv, IdleBacked DEF BInv, Ordered
<1>2. BInv => ArtifactsBeforeRow
  <2> SUFFICES ASSUME BInv PROVE ArtifactsBeforeRow
    OBVIOUS
  <2>1. \A t \in Tasks : task[t].state = "completed" /\ task[t].claim # NoClaim => t \in Kept
    BY DEF BInv, Ordered, RowsBacked
  <2>2. \A c \in Calls : Shown(call[c], unkept)
    BY DEF BInv, Ordered
  <2> QED
    BY <2>1, <2>2 DEF ArtifactsBeforeRow, Shown, Kept, Stored, At
<1> QED
  BY <1>1, <1>2, NextBInv, PTL DEF Spec
=============================================================================
