--------------------------- MODULE ClaimLog_proofs ---------------------------
(***************************************************************************)
(* Theorems about ClaimLog, for any agents, identifiers, requests, bounds    *)
(* and providers.                                                            *)
(***************************************************************************)
EXTENDS ClaimLog, TLAPS

\* An identifier in a row, a snapshot or the detector's hands belongs to a claim
\* whose row was appended; one in flight is in flight once.
Known ==
    /\ \A r \in log : Returned(r.id)
    /\ \A a \in Agents : call[a].stage = "read" => \A r \in call[a].seen : Returned(r.id)
    /\ \A id \in detector.listed \cup detector.condemned : Returned(id)
    /\ \A a \in Agents : call[a].stage = "granted" => claims[call[a].id] # NoClaim
    /\ \A a, b \in Agents :
        call[a].stage = "granted" /\ call[b].stage = "granted" /\ call[a].id = call[b].id => a = b

TypeInv == TypeOK /\ Known

\* What the log can become in one step.
Appended(type, id, agent) ==
    \E o \in Nat \ {0} :
        /\ \A r \in log : r.offset < o
        /\ log' = log \cup {[offset |-> o, type |-> type, id |-> id, agent |-> agent, ts |-> now]}

----------------------------------------------------------------------------
\* Append1 appends one row above all others.
LEMMA AppendStep ==
    ASSUME NEW type, NEW id, NEW agent, Append1(type, id, agent)
    PROVE  Appended(type, id, agent)
  BY ConstantsAssumption DEF Append1, Appended, IsNext

\* The payload built for a request is a claim.
LEMMA NewClaimType ==
    ASSUME TypeOK, NEW a \in Agents, NEW req \in Requests
    PROVE  NewClaim(a, req) \in Claim
  <1>1. EffectiveTTL(req) \in Nat
    BY ConstantsAssumption DEF EffectiveTTL
  <1>2. req.resource \in Seq(STRING) /\ req.op \in Operations /\ now \in Nat
    BY ConstantsAssumption DEF TypeOK
  <1> QED
    BY <1>1, <1>2 DEF NewClaim, Claim

\* A call that is reading carries a request and rows; one that was granted an id.
LEMMA CallType ==
    ASSUME TypeOK, NEW a \in Agents
    PROVE  /\ call[a].stage \in {"idle", "read", "granted"}
           /\ call[a].stage = "read" => call[a].req \in Requests /\ call[a].seen \subseteq Row
           /\ call[a].stage = "granted" => call[a].id \in ClaimIds
  BY DEF TypeOK, Call

\* The claim of an identifier that was returned.
LEMMA ReturnedClaim ==
    ASSUME TypeOK, NEW id \in ClaimIds, Returned(id)
    PROVE  claims[id] \in Claim
  BY DEF TypeOK, Returned

----------------------------------------------------------------------------
\* A returned identifier stays returned, with the same claim.
LEMMA ReturnedStable ==
    ASSUME TypeInv, [Next]_vars, NEW id \in ClaimIds, Returned(id)
    PROVE  Returned(id)' /\ claims'[id] = claims[id]
  <1> USE DEF TypeInv
  <1>1. ASSUME UNCHANGED <<claims, call>> PROVE Returned(id)' /\ claims'[id] = claims[id]
    BY <1>1 DEF Returned
  <1>2. ASSUME NEW agents \in SUBSET Agents, Forget(agents)
        PROVE  Returned(id)' /\ claims'[id] = claims[id]
    BY <1>2 DEF Forget, Returned, Idle
  <1>3. ASSUME NEW a \in Agents, NEW req \in Requests, ClaimRead(a, req)
        PROVE  Returned(id)' /\ claims'[id] = claims[id]
    BY <1>3 DEF ClaimRead, Returned, TypeOK
  <1>4. ASSUME NEW a \in Agents, ClaimDenied(a) \/ ClaimAppend(a)
        PROVE  Returned(id)' /\ claims'[id] = claims[id]
    BY <1>4 DEF ClaimDenied, ClaimAppend, Returned, Idle, TypeOK
  <1>5. ASSUME NEW a \in Agents, NEW new \in ClaimIds, ClaimGranted(a, new)
        PROVE  Returned(id)' /\ claims'[id] = claims[id]
    BY <1>5 DEF ClaimGranted, Returned, TypeOK
  <1>6. ASSUME NEW a \in Agents, ClaimFails(a)
        PROVE  Returned(id)' /\ claims'[id] = claims[id]
    BY <1>6, <1>2 DEF ClaimFails
  <1>7. ASSUME Restart
        PROVE  Returned(id)' /\ claims'[id] = claims[id]
    BY <1>7, <1>2 DEF Restart
  <1>8. CASE \/ UNCHANGED vars \/ Tick \/ DeleteNamespace \/ SweepStep \/ DetectorStep
             \/ \E i \in ClaimIds : Release(i) \/ Transfer(i) \/ Heartbeat(i) \/ UpdateIntent(i)
    BY <1>8, <1>1 DEF vars, Tick, DeleteNamespace, SweepStep, SweepScan, Query, SweepDelete, DeleteRows, SweepFails,
         DetectorStep, DetectorScan, DetectorJudge, DetectorRelease,
         Release, Transfer, Heartbeat, UpdateIntent, Post
  <1> QED
    BY <1>3, <1>4, <1>5, <1>6, <1>7, <1>8 DEF Next, ClientStep

\* The log after a step: unchanged, emptied, one deletion, or one row more.  A
\* deletion is noted.
LogStep ==
    \/ log' = log
    \/ log' = {} /\ (Provider = "memory" \/ deletes' # deletes)
    \/ \E s \in Sweepers : \E o \in plan[s] :
            /\ log' = log \ {r \in log : r.offset = o}
            /\ lost' = lost \cup {id \in ClaimIds : \E r \in {x \in log : x.offset = o} : Ends(r, id)}
    \/ \E a \in Agents : call[a].stage = "granted" /\ Appended("claim", call[a].id, a)
    \/ \E id \in ClaimIds, type \in PostTypes, agent \in Agents \cup {NoAgent} :
            Returned(id) /\ Appended(type, id, agent)

\* Every step changes the log in one of these ways.
LEMMA NextLog ==
    ASSUME TypeInv, [Next]_vars
    PROVE  LogStep
  <1>1. ASSUME NEW a \in Agents, ClaimAppend(a) PROVE LogStep
    BY <1>1, AppendStep DEF ClaimAppend, LogStep
  <1>2. ASSUME NEW id \in ClaimIds, NEW type \in PostTypes, Post(type, id) PROVE LogStep
    BY <1>2, AppendStep DEF Post, LogStep
  <1>3. ASSUME NEW id \in ClaimIds, DetectorRelease(id) PROVE LogStep
    <2>1. Returned(id) /\ claims[id].agent \in Agents
      BY <1>3, ReturnedClaim DEF TypeInv, Known, DetectorRelease, Claim
    <2> QED
      BY <1>3, <2>1, AppendStep DEF DetectorRelease, LogStep, PostTypes
  <1>4. CASE \E s \in Sweepers : SweepDelete(s)
    BY <1>4 DEF SweepDelete, DeleteRows, LogStep
  <1>5. CASE Restart
    BY <1>5 DEF Restart, LogStep
  <1>6. CASE DeleteNamespace
    BY <1>6 DEF DeleteNamespace, LogStep, TypeInv, TypeOK
  <1>7. CASE UNCHANGED log
    BY <1>7 DEF LogStep
  <1>8. CASE ClientStep
    BY <1>8, <1>1, <1>2, <1>7 DEF ClientStep, ClaimRead, ClaimDenied, ClaimGranted, ClaimFails,
         Release, Transfer, Heartbeat, UpdateIntent, PostTypes
  <1>9. CASE SweepStep
    BY <1>9, <1>4, <1>7 DEF SweepStep, SweepScan, Query, SweepFails
  <1>10. CASE DetectorStep
    BY <1>10, <1>3, <1>7 DEF DetectorStep, DetectorScan, DetectorJudge
  <1> QED
    BY <1>5, <1>6, <1>7, <1>8, <1>9, <1>10 DEF Next, Tick, vars

\* An appended row is a row.
LEMMA AppendedType ==
    ASSUME TypeOK, NEW type \in PostTypes \cup {"claim"}, NEW id \in ClaimIds,
           NEW agent \in Agents \cup {NoAgent}, Appended(type, id, agent)
    PROVE  log' \subseteq Row
  BY DEF TypeOK, Appended, Row

LEMMA LogType == ASSUME TypeInv, LogStep PROVE log' \subseteq Row
  <1> USE DEF TypeInv
  <1>1. ASSUME NEW a \in Agents, call[a].stage = "granted", Appended("claim", call[a].id, a)
        PROVE  log' \subseteq Row
    BY <1>1, CallType, AppendedType
  <1>2. ASSUME NEW id \in ClaimIds, NEW type \in PostTypes, NEW agent \in Agents \cup {NoAgent},
               Appended(type, id, agent)
        PROVE  log' \subseteq Row
    BY <1>2, AppendedType
  <1> QED
    BY <1>1, <1>2 DEF LogStep, TypeOK

\* The calls, payloads and history a step leaves behind are well typed.
LEMMA ForgetType ==
    ASSUME TypeOK, NEW agents \in SUBSET Agents, Forget(agents)
    PROVE  /\ call' \in [Agents -> Call]
           /\ claims' \in [ClaimIds -> Claim \cup {NoClaim}]
           /\ witnessed' \in [ClaimIds -> SUBSET ClaimIds]
  <1>1. Idle \in Call
    BY DEF Idle, Call
  <1>2. call' \in [Agents -> Call]
    BY <1>1 DEF Forget, TypeOK
  <1>3. claims' \in [ClaimIds -> Claim \cup {NoClaim}]
    BY DEF Forget, TypeOK
  <1>4. witnessed' \in [ClaimIds -> SUBSET ClaimIds]
    BY DEF Forget, TypeOK
  <1> QED
    BY <1>2, <1>3, <1>4

\* What is kept of a sweep's snapshot are rows, in the table and in it before.
LEMMA KeptType ==
    ASSUME TypeOK, KeepRows
    PROVE  kept' \in [Sweepers -> SUBSET Row]
  BY DEF TypeOK, KeepRows

LEMMA TypeStep ==
    ASSUME TypeInv, [Next]_vars
    PROVE  TypeOK'
  <1> USE DEF TypeInv
  <1>0. log' \subseteq Row
    BY NextLog, LogType
  <1>1. ASSUME NEW a \in Agents, NEW req \in Requests, ClaimRead(a, req)
        PROVE  TypeOK'
    <2>1. Visible(log) \subseteq Row
      BY DEF Visible, TypeOK
    <2>2. [stage |-> "read", req |-> req, seen |-> Visible(log)] \in Call
      BY <2>1 DEF Call
    <2> QED
      BY <1>1, <2>2 DEF ClaimRead, TypeOK
  <1>2. ASSUME NEW a \in Agents, ClaimDenied(a) \/ ClaimAppend(a)
        PROVE  TypeOK'
    <2>1. Idle \in Call
      BY DEF Idle, Call
    <2> QED
      BY <1>2, <1>0, <2>1 DEF ClaimDenied, ClaimAppend, TypeOK
  <1>3. ASSUME NEW a \in Agents, NEW id \in ClaimIds, ClaimGranted(a, id)
        PROVE  TypeOK'
    <2>1. NewClaim(a, call[a].req) \in Claim
      BY <1>3, CallType, NewClaimType DEF ClaimGranted
    <2>2. {r.id : r \in {s \in call[a].seen : s.type = "claim"}} \subseteq ClaimIds
      BY <1>3, CallType DEF ClaimGranted, Row
    <2>3. [stage |-> "granted", id |-> id] \in Call
      BY DEF Call
    <2> QED
      BY <1>3, <2>1, <2>2, <2>3 DEF ClaimGranted, TypeOK
  <1>4. ASSUME NEW a \in Agents, ClaimFails(a)
        PROVE  TypeOK'
    BY <1>4, ForgetType DEF ClaimFails, TypeOK
  <1>5. CASE Restart
    <2>1. DetectorIdle \in [at : Nat, listed : SUBSET ClaimIds, condemned : SUBSET ClaimIds]
      BY DEF DetectorIdle
    <2> QED
      BY <1>5, <1>0, <2>1, ForgetType, KeptType DEF Restart, TypeOK
  <1>6. CASE \E id \in ClaimIds : Release(id) \/ Transfer(id) \/ Heartbeat(id) \/ UpdateIntent(id)
    BY <1>6, <1>0 DEF Release, Transfer, Heartbeat, UpdateIntent, Post, TypeOK
  <1>7. ASSUME NEW s \in Sweepers, NEW before \in 0..now, SweepScan(s, before)
        PROVE  TypeOK'
    <2>1. PICK rows \in SUBSET log : Query(s, rows)
      BY <1>7 DEF SweepScan
    <2>2. {r.offset : r \in rows} \subseteq Nat
      BY DEF TypeOK, Row
    <2> QED
      BY <2>1, <2>2 DEF Query, TypeOK
  <1>8. ASSUME NEW s \in Sweepers, SweepDelete(s) \/ SweepFails(s)
        PROVE  TypeOK'
    BY <1>8, <1>0, KeptType DEF SweepDelete, DeleteRows, SweepFails, TypeOK
  <1>9. CASE DetectorScan
    BY <1>9 DEF DetectorScan, TypeOK
  <1>10. ASSUME NEW a \in Agents, DetectorJudge(a)
         PROVE  TypeOK'
    BY <1>10 DEF DetectorJudge, TypeOK
  <1>11. ASSUME NEW id \in ClaimIds, DetectorRelease(id)
         PROVE  TypeOK'
    BY <1>11, <1>0 DEF DetectorRelease, TypeOK
  <1>12. CASE DeleteNamespace \/ Tick \/ UNCHANGED vars
    BY <1>12, <1>0, KeptType DEF DeleteNamespace, Tick, vars, TypeOK
  <1> QED
    BY <1>1, <1>2, <1>3, <1>4, <1>5, <1>6, <1>7, <1>8, <1>9, <1>10, <1>11, <1>12
    DEF Next, ClientStep, SweepStep, DetectorStep

\* The id a call was granted is not in a row, a snapshot or the detector's hands.
LEMMA KnownStep ==
    ASSUME TypeInv, [Next]_vars
    PROVE  Known'
  <1> USE DEF TypeInv
  <1> DEFINE GrantedOnce ==
        /\ \A a \in Agents : call[a].stage = "granted" => claims[call[a].id] # NoClaim
        /\ \A a, b \in Agents :
            call[a].stage = "granted" /\ call[b].stage = "granted" /\ call[a].id = call[b].id => a = b
  <1>1. \A r \in log' : Returned(r.id)'
    <2>1. ASSUME NEW r \in log PROVE Returned(r.id)'
      BY <2>1, ReturnedStable DEF Known, TypeOK, Row
    <2>2. ASSUME NEW a \in Agents, ClaimAppend(a) PROVE \A r \in log' : Returned(r.id)'
      <3>1. PICK id \in ClaimIds : id = call[a].id
        BY <2>2, CallType DEF ClaimAppend
      <3>2. Returned(id)'
        <4>1. claims'[id] # NoClaim
          BY <2>2, <3>1 DEF ClaimAppend, Known
        <4>2. ASSUME NEW b \in Agents, call'[b].stage = "granted" PROVE call'[b].id # id
          BY <2>2, <3>1, <4>2 DEF ClaimAppend, Known, Idle, TypeOK
        <4> QED
          BY <4>1, <4>2 DEF Returned
      <3>3. \A r \in log' : r \in log \/ r.id = id
        BY <2>2, <3>1, AppendStep DEF ClaimAppend, Appended
      <3> QED
        BY <2>1, <3>2, <3>3
    <2>3. ASSUME NEW id \in ClaimIds, NEW type \in PostTypes, NEW agent \in Agents \cup {NoAgent},
                 Returned(id), Appended(type, id, agent)
          PROVE  \A r \in log' : Returned(r.id)'
      <3>1. Returned(id)'
        BY <2>3, ReturnedStable
      <3>2. \A r \in log' : r \in log \/ r.id = id
        BY <2>3 DEF Appended
      <3> QED
        BY <2>1, <3>1, <3>2
    <2>4. CASE log' \subseteq log
      BY <2>4, <2>1
    <2>5. ASSUME NEW id \in ClaimIds, NEW type \in PostTypes, Post(type, id)
          PROVE  \A r \in log' : Returned(r.id)'
      BY <2>5, <2>3, AppendStep DEF Post
    <2>6. ASSUME NEW id \in ClaimIds, DetectorRelease(id)
          PROVE  \A r \in log' : Returned(r.id)'
      <3>1. Returned(id) /\ claims[id].agent \in Agents
        BY <2>6, ReturnedClaim DEF Known, DetectorRelease, Claim
      <3> QED
        BY <2>6, <3>1, <2>3, <2>4, AppendStep DEF DetectorRelease, PostTypes
    <2> QED
      BY <2>2, <2>4, <2>5, <2>6
      DEF Next, ClientStep, SweepStep, DetectorStep, ClaimRead, ClaimDenied, ClaimGranted, ClaimFails,
          Release, Transfer, Heartbeat, UpdateIntent, SweepScan, Query, SweepDelete, DeleteRows, SweepFails,
          DetectorScan, DetectorJudge, DeleteNamespace, Restart, Tick, vars, PostTypes
  <1>2. \A a \in Agents : call'[a].stage = "read" => \A r \in call'[a].seen : Returned(r.id)'
    <2> SUFFICES ASSUME NEW a \in Agents, call'[a].stage = "read", NEW r \in call'[a].seen
                 PROVE  Returned(r.id)'
      OBVIOUS
    <2>1. call'[a] = call[a] \/ call'[a].seen = Visible(log)
      <3>1. ASSUME NEW b \in Agents, NEW req \in Requests, ClaimRead(b, req)
            PROVE  call'[a] = call[a] \/ call'[a].seen = Visible(log)
        BY <3>1 DEF ClaimRead, TypeOK
      <3>2. ASSUME NEW b \in Agents, NEW id \in ClaimIds, ClaimGranted(b, id)
            PROVE  call'[a] = call[a]
        BY <3>2 DEF ClaimGranted, TypeOK
      <3>3. ASSUME NEW agents \in SUBSET Agents, Forget(agents)
            PROVE  call'[a] = call[a]
        BY <3>3 DEF Forget, Idle
      <3>4. ASSUME NEW b \in Agents, ClaimDenied(b) \/ ClaimAppend(b)
            PROVE  call'[a] = call[a]
        BY <3>4 DEF ClaimDenied, ClaimAppend, Idle, TypeOK
      <3>5. CASE \E b \in Agents : ClaimFails(b)
        BY <3>5, <3>3 DEF ClaimFails
      <3>6. CASE Restart
        BY <3>6, <3>3 DEF Restart
      <3>7. CASE UNCHANGED call
        BY <3>7
      <3> QED
        BY <3>1, <3>2, <3>4, <3>5, <3>6, <3>7 DEF Next, ClientStep, SweepStep, DetectorStep,
             Release, Transfer, Heartbeat, UpdateIntent, Post, SweepScan, Query, SweepDelete, DeleteRows, SweepFails,
             DetectorScan, DetectorJudge, DetectorRelease, DeleteNamespace, Tick, vars
    <2>2. Returned(r.id) /\ r.id \in ClaimIds
      BY <2>1, CallType DEF Known, Visible, TypeOK, Row
    <2> QED
      BY <2>2, ReturnedStable
  <1>3. \A id \in detector'.listed \cup detector'.condemned : Returned(id)'
    <2> SUFFICES ASSUME NEW id \in detector'.listed \cup detector'.condemned
                 PROVE  Returned(id)'
      OBVIOUS
    <2>1. id \in ClaimIds
      BY TypeStep DEF TypeOK
    <2>2. id \in detector.listed \cup detector.condemned \/ Active(id)
      <3>1. CASE DetectorScan
        BY <3>1 DEF DetectorScan
      <3>2. ASSUME NEW a \in Agents, DetectorJudge(a)
            PROVE  id \in detector.listed \cup detector.condemned
        BY <3>2 DEF DetectorJudge, TypeOK
      <3>3. ASSUME NEW i \in ClaimIds, DetectorRelease(i)
            PROVE  id \in detector.listed \cup detector.condemned
        BY <3>3 DEF DetectorRelease, TypeOK
      <3>4. CASE Restart
        BY <3>4 DEF Restart, DetectorIdle
      <3>5. CASE UNCHANGED detector
        BY <3>5
      <3> QED
        BY <3>1, <3>2, <3>3, <3>4, <3>5
        DEF Next, ClientStep, SweepStep, DetectorStep, ClaimRead, ClaimDenied, ClaimGranted,
            ClaimAppend, ClaimFails, Release, Transfer, Heartbeat, UpdateIntent, Post,
            SweepScan, Query, SweepDelete, DeleteRows, SweepFails, DeleteNamespace, Tick, vars
    <2>3. Active(id) => Returned(id)
      BY DEF Active, ActiveIn, Visible, Known
    <2> QED
      BY <2>1, <2>2, <2>3, ReturnedStable DEF Known
  <1>4. GrantedOnce'
    <2>1. ASSUME NEW a \in Agents, NEW id \in ClaimIds, ClaimGranted(a, id)
          PROVE  GrantedOnce'
      <3>1. NewClaim(a, call[a].req) # NoClaim
        BY <2>1, CallType, NewClaimType, NoClaimAssumption DEF ClaimGranted
      <3> QED
        BY <2>1, <3>1, CallType DEF ClaimGranted, Known, TypeOK
    <2>2. ASSUME NEW agents \in SUBSET Agents, Forget(agents)
          PROVE  GrantedOnce'
      BY <2>2, CallType DEF Forget, Known, Idle, TypeOK
    <2>3. ASSUME NEW a \in Agents, NEW req \in Requests, ClaimRead(a, req)
          PROVE  GrantedOnce'
      BY <2>3 DEF ClaimRead, Known, TypeOK
    <2>4. ASSUME NEW a \in Agents, ClaimDenied(a) \/ ClaimAppend(a)
          PROVE  GrantedOnce'
      BY <2>4 DEF ClaimDenied, ClaimAppend, Known, Idle, TypeOK
    <2>5. CASE UNCHANGED <<claims, call>>
      BY <2>5 DEF Known
    <2> QED
      BY <2>1, <2>2, <2>3, <2>4, <2>5
      DEF Next, ClientStep, SweepStep, DetectorStep, ClaimFails, Restart,
          Release, Transfer, Heartbeat, UpdateIntent, Post, SweepScan, Query, SweepDelete, DeleteRows, SweepFails,
          DetectorScan, DetectorJudge, DetectorRelease, DeleteNamespace, Tick, vars
  <1> QED
    BY <1>1, <1>2, <1>3, <1>4 DEF Known

\* The table, the calls and the background work hold values of their types in
\* every reachable state, and no row speaks of a claim that was never made.
LEMMA TypeInvariant == Spec => []TypeInv
  <1>1. Init => TypeInv
    BY DEF Init, TypeInv, TypeOK, Known, Idle, Call, DetectorIdle
  <1>2. TypeInv /\ [Next]_vars => TypeInv'
    BY TypeStep, KnownStep DEF TypeInv
  <1> QED
    BY <1>1, <1>2, PTL DEF Spec

\* Every reachable state is well typed: in particular no identifier is appended
\* about, swept or released for that no Claim call has handed out.
THEOREM TypeCorrect == Spec => []TypeOK
  <1>1. TypeInv => TypeOK
    BY DEF TypeInv
  <1> QED
    BY <1>1, TypeInvariant, PTL

----------------------------------------------------------------------------
UniqueOffsets == \A r, s \in log : r.offset = s.offset => r = s

\* What has the number a sweep holds: an expired claim, nothing, or a row that came
\* after everything that is left of what the sweep's query saw.
PlanSound ==
    \A s \in Sweepers : \A o \in plan[s] :
        \/ \E r \in log : r.offset = o /\ r.type = "claim" /\ Expired(r.id, now)
        \/ \A r \in log : r.offset # o
        \/ \A k \in kept[s] : k.offset < o

KeptRows == \A s \in Sweepers : kept[s] \subseteq log

PlanOnlyOfSweeping == SweepDeletes \/ \A s \in Sweepers : plan[s] = {}

SweepInv == UniqueOffsets /\ KeptRows /\ PlanSound /\ PlanOnlyOfSweeping

\* Offsets are never used twice at a time, whatever was deleted before.
LEMMA UniqueOffsetsStep ==
    ASSUME TypeInv, UniqueOffsets, LogStep
    PROVE  UniqueOffsets'
  <1>1. ASSUME NEW type, NEW id, NEW agent, Appended(type, id, agent)
        PROVE  UniqueOffsets'
    <2>1. PICK o \in Nat \ {0} : /\ \A r \in log : r.offset < o
                                 /\ log' = log \cup {[offset |-> o, type |-> type, id |-> id,
                                                      agent |-> agent, ts |-> now]}
      BY <1>1 DEF Appended
    <2>2. \A r \in log : r.offset \in Nat /\ r.offset # o
      BY <2>1 DEF TypeInv, TypeOK, Row
    <2> QED
      BY <2>1, <2>2 DEF UniqueOffsets
  <1>2. CASE log' \subseteq log
    BY <1>2 DEF UniqueOffsets
  <1> QED
    BY <1>1, <1>2 DEF LogStep

\* Time does not go back.
LEMMA TimeStep ==
    ASSUME TypeInv, [Next]_vars
    PROVE  now \in Nat /\ now' \in Nat /\ now <= now'
  <1>1. now \in Nat
    BY DEF TypeInv, TypeOK
  <1>2. now' = now \/ now' = now + 1
    <2>1. CASE ClientStep
      BY <2>1 DEF ClientStep, ClaimRead, ClaimDenied, ClaimGranted, ClaimAppend, ClaimFails,
           Release, Transfer, Heartbeat, UpdateIntent, Post
    <2>2. CASE SweepStep
      BY <2>2 DEF SweepStep, SweepScan, Query, SweepDelete, DeleteRows, SweepFails
    <2>3. CASE DetectorStep
      BY <2>3 DEF DetectorStep, DetectorScan, DetectorJudge, DetectorRelease
    <2> QED
      BY <2>1, <2>2, <2>3 DEF Next, DeleteNamespace, Restart, Tick, vars
  <1> QED
    BY <1>1, <1>2

\* A claim that has a row and is past its deadline stays past it.
LEMMA ExpiredStable ==
    ASSUME TypeInv, [Next]_vars, NEW id \in ClaimIds, Returned(id), Expired(id, now)
    PROVE  Expired(id, now)'
  <1>1. claims'[id] = claims[id] /\ claims[id] \in Claim
    BY ReturnedStable, ReturnedClaim DEF TypeInv
  <1>2. now' \in Nat /\ now \in Nat /\ now <= now'
    BY TimeStep
  <1> QED
    BY <1>1, <1>2 DEF Expired, Deadline, Claim

\* What is kept is in the table.
LEMMA KeptRowsStep ==
    ASSUME TypeInv, KeptRows, [Next]_vars
    PROVE  KeptRows'
  <1>1. CASE KeepRows
    BY <1>1 DEF KeepRows, KeptRows
  <1>2. ASSUME NEW s \in Sweepers, NEW before \in 0..now, SweepScan(s, before)
        PROVE  KeptRows'
    BY <1>2 DEF SweepScan, Query, KeptRows, TypeInv, TypeOK
  <1>3. CASE UNCHANGED kept /\ log \subseteq log'
    BY <1>3 DEF KeptRows
  <1>4. CASE ClientStep \/ DetectorStep \/ Tick \/ UNCHANGED vars
    BY <1>4, <1>3 DEF ClientStep, DetectorStep, ClaimRead, ClaimDenied, ClaimGranted,
         ClaimAppend, ClaimFails, Release, Transfer, Heartbeat, UpdateIntent, Post, Append1,
         DetectorScan, DetectorJudge, DetectorRelease, Tick, vars
  <1> QED
    BY <1>1, <1>2, <1>4
    DEF Next, SweepStep, SweepDelete, DeleteRows, SweepFails, DeleteNamespace, Restart

\* If all that has changed is that rows have gone, or that one has come above
\* all others, a number that was held is as sound as before.
LEMMA PlanSoundKept ==
    ASSUME TypeInv, SweepInv, [Next]_vars, LogStep,
           \A s \in Sweepers : plan'[s] \subseteq plan[s],
           \A s \in Sweepers : kept'[s] \subseteq kept[s]
    PROVE  PlanSound'
  <1> USE DEF SweepInv
  <1> SUFFICES ASSUME NEW s \in Sweepers, NEW o \in plan'[s],
                      NEW r \in log', r.offset = o, ~(r.type = "claim" /\ Expired(r.id, now)')
               PROVE  \A k \in kept'[s] : k.offset < o
    BY DEF PlanSound
  <1>1. o \in plan[s] /\ kept'[s] \subseteq kept[s] /\ kept[s] \subseteq log
    BY DEF KeptRows
  <1>2. CASE r \in log
    <2>1. ~(r.type = "claim" /\ Expired(r.id, now))
      BY <1>2, ExpiredStable DEF TypeInv, TypeOK, Known, Row
    <2>2. ~\E x \in log : x.offset = o /\ x.type = "claim" /\ Expired(x.id, now)
      BY <1>2, <2>1 DEF UniqueOffsets
    <2> QED
      BY <1>1, <1>2, <2>2 DEF PlanSound
  <1>3. CASE r \notin log
    <2>1. PICK type, id, agent : Appended(type, id, agent)
      BY <1>3 DEF LogStep
    <2>2. \A x \in log : x.offset < o
      BY <1>3, <2>1 DEF Appended
    <2> QED
      BY <1>1, <2>2
  <1> QED
    BY <1>2, <1>3

\* A query holds the numbers of expired claims.
LEMMA QueryStep ==
    ASSUME TypeInv, SweepInv, [Next]_vars, NEW s \in Sweepers, NEW before \in 0..now, SweepScan(s, before)
    PROVE  PlanSound' /\ PlanOnlyOfSweeping'
  <1> USE DEF SweepInv
  <1>1. ASSUME NEW r \in log, Expired(r.id, before) PROVE Expired(r.id, now)
    <2>1. claims[r.id] \in Claim
      BY ReturnedClaim DEF TypeInv, TypeOK, Known, Row
    <2> QED
      BY <1>1, <2>1 DEF Expired, Deadline, Claim, TypeInv, TypeOK
  <1>2. /\ plan'[s] = {r.offset : r \in {c \in log : c.type = "claim" /\ Expired(c.id, before)}}
        /\ \A t \in Sweepers \ {s} : plan'[t] = plan[t] /\ kept'[t] = kept[t]
        /\ UNCHANGED <<log, now, claims>> /\ SweepDeletes
    BY DEF SweepScan, Query, TypeInv, TypeOK
  <1>3. \A id : Expired(id, now)' <=> Expired(id, now)
    BY <1>2 DEF Expired, Deadline
  <1>4. ASSUME NEW o \in plan'[s]
        PROVE  \E r \in log' : r.offset = o /\ r.type = "claim" /\ Expired(r.id, now)'
    BY <1>1, <1>2, <1>3
  <1>5. ASSUME NEW t \in Sweepers \ {s}, NEW o \in plan'[t]
        PROVE  \/ \E r \in log' : r.offset = o /\ r.type = "claim" /\ Expired(r.id, now)'
               \/ \A r \in log' : r.offset # o
               \/ \A k \in kept'[t] : k.offset < o
    BY <1>2, <1>3 DEF PlanSound
  <1>6. PlanSound'
    BY <1>4, <1>5 DEF PlanSound
  <1> QED
    BY <1>2, <1>6 DEF PlanOnlyOfSweeping, SweepDeletes

LEMMA SweepInvStep ==
    ASSUME TypeInv, SweepInv, [Next]_vars
    PROVE  SweepInv'
  <1> USE DEF SweepInv
  <1>1. UniqueOffsets' /\ KeptRows' /\ LogStep
    BY NextLog, UniqueOffsetsStep, KeptRowsStep
  <1>2. ASSUME NEW s \in Sweepers, NEW before \in 0..now, SweepScan(s, before)
        PROVE  PlanSound' /\ PlanOnlyOfSweeping'
    BY <1>2, QueryStep
  <1>3. ASSUME \A s \in Sweepers : plan'[s] \subseteq plan[s],
               \A s \in Sweepers : kept'[s] \subseteq kept[s]
        PROVE  PlanSound' /\ PlanOnlyOfSweeping'
    BY <1>1, <1>3, PlanSoundKept DEF PlanOnlyOfSweeping, SweepDeletes
  <1>4. ASSUME KeepRows, \A s \in Sweepers : plan'[s] \subseteq plan[s]
        PROVE  PlanSound' /\ PlanOnlyOfSweeping'
    <2>1. \A s \in Sweepers : kept'[s] \subseteq kept[s]
      BY <1>4 DEF KeepRows
    <2> QED
      BY <1>3, <1>4, <2>1
  <1>5. CASE \E s \in Sweepers : SweepDelete(s) \/ SweepFails(s)
    BY <1>1, <1>4, <1>5 DEF SweepDelete, DeleteRows, SweepFails, TypeInv, TypeOK
  <1>6. CASE Restart \/ DeleteNamespace
    BY <1>1, <1>4, <1>6 DEF Restart, DeleteNamespace
  <1>7. CASE UNCHANGED <<plan, kept>>
    BY <1>1, <1>3, <1>7
  <1>8. CASE ClientStep \/ DetectorStep \/ Tick \/ UNCHANGED vars
    BY <1>8, <1>7 DEF ClientStep, DetectorStep, ClaimRead, ClaimDenied, ClaimGranted,
         ClaimAppend, ClaimFails, Release, Transfer, Heartbeat, UpdateIntent, Post,
         DetectorScan, DetectorJudge, DetectorRelease, Tick, vars
  <1> QED
    BY <1>1, <1>2, <1>5, <1>6, <1>8 DEF Next, SweepStep

\* In every reachable state a number that a sweep has left to delete is an expired
\* claim's, nobody's, or that of a row younger than the sweep's query.
LEMMA SweepInvariant == Spec => []SweepInv
  <1>1. Init => SweepInv
    BY DEF Init, SweepInv, UniqueOffsets, KeptRows, PlanSound, PlanOnlyOfSweeping
  <1>2. TypeInv /\ SweepInv /\ [Next]_vars => SweepInv'
    BY SweepInvStep
  <1> QED
    BY <1>1, <1>2, TypeInvariant, PTL DEF Spec

\* A row that goes is an expired claim, or younger than the query of the sweep that
\* takes it, unless the whole table goes.
Removal ==
    \A r \in log \ log' :
        \/ r.type = "claim" /\ Expired(r.id, now)
        \/ log' = {} /\ (deletes' # deletes \/ Provider = "memory")
        \/ \E s \in Sweepers : r.offset \in plan[s] /\ \A k \in kept[s] : k.offset < r.offset

LEMMA RemovalStep ==
    ASSUME TypeInv, SweepInv, [Next]_vars
    PROVE  Removal
  <1>1. ASSUME NEW s \in Sweepers, NEW o \in plan[s], log' = log \ {r \in log : r.offset = o}
        PROVE  Removal
    BY <1>1 DEF SweepInv, UniqueOffsets, PlanSound, Removal
  <1> QED
    BY NextLog, <1>1 DEF LogStep, Appended, Removal

\* A sweep removes rows of claims past their deadline, and what was appended after its
\* query at a number that had been given up since: nothing else is lost, however many
\* sweeps overlap each other, the deletion of the namespace, and appends.
THEOREM SweepSound == Spec => SweepTakesOnlyNew
  <1>1. TypeInv /\ SweepInv /\ [Next]_vars => [Removal]_vars
    BY RemovalStep
  <1> SUFFICES Spec => [][Removal]_vars
    BY DEF SweepTakesOnlyNew, Removal
  <1> QED
    BY <1>1, TypeInvariant, SweepInvariant, PTL DEF Spec

----------------------------------------------------------------------------
\* A returned claim comes back into force in this step only by a stale DELETE.
OnlyStaleRevives ==
    \A id \in ClaimIds : Returned(id) /\ ~Active(id) /\ Active(id)' => StaleDelete(id)

\* No returned claim that has lost no release comes back into force in this step.
NoneComesBack ==
    \A id \in ClaimIds \ lost' : Returned(id) /\ ~Active(id) => ~Active(id)'

\* A claim row that is there after a step, of a returned claim, was there before.
LEMMA ClaimRowsOld ==
    ASSUME TypeInv, [Next]_vars, NEW c \in log', c.type = "claim", c.id \in ClaimIds, Returned(c.id)
    PROVE  c \in log
  <1>1. ASSUME NEW type, NEW id, NEW agent, Appended(type, id, agent), c \notin log
        PROVE  type = "claim" /\ c.id = id
    BY <1>1 DEF Appended
  <1>2. ASSUME NEW a \in Agents, call[a].stage = "granted", Appended("claim", call[a].id, a)
        PROVE  c \in log
    BY <1>1, <1>2 DEF Returned
  <1>3. ASSUME NEW id \in ClaimIds, NEW type \in PostTypes, NEW agent \in Agents \cup {NoAgent},
               Appended(type, id, agent)
        PROVE  c \in log
    BY <1>1, <1>3 DEF PostTypes
  <1> QED
    BY NextLog, <1>2, <1>3 DEF LogStep

\* While a claim row stays, its release stays or is taken by a stale DELETE, and what
\* is appended lies above it.
LEMMA ReleasedStable ==
    ASSUME TypeInv, LogStep, NEW c \in log, c \in log', c.type = "claim",
           Released(Visible(log), c), ~StaleDelete(c.id)
    PROVE  Released(Visible(log)', c)
  <1>1. PICK r \in Visible(log) : Ends(r, c.id)
    BY DEF Released
  <1>2. r \in log'
    BY <1>1 DEF LogStep, Appended, Visible, StaleDelete
  <1>3. r \in Visible(log)'
    BY <1>1, <1>2 DEF Visible, Ends
  <1>4. ASSUME NEW x \in Visible(log)', Ends(x, c.id) PROVE x.offset > c.offset
    <2>1. CASE x \in log
      BY <2>1, <1>4 DEF Released, Visible, Ends
    <2>2. ASSUME NEW type, NEW id, NEW agent, Appended(type, id, agent), x \notin log
          PROVE  x.offset > c.offset
      <3>1. x \in log'
        BY DEF Visible
      <3>2. c.offset \in Nat
        BY DEF TypeInv, TypeOK, Row
      <3> QED
        BY <2>2, <3>1, <3>2 DEF Appended
    <2>3. x \in log'
      BY DEF Visible
    <2> QED
      BY <2>1, <2>2, <2>3 DEF LogStep
  <1> QED
    BY <1>1, <1>3, <1>4 DEF Released

LEMMA StaleRevivesStep ==
    ASSUME Provider # "memory", TypeInv, [Next]_vars
    PROVE  OnlyStaleRevives
  <1> SUFFICES ASSUME NEW id \in ClaimIds, Returned(id), Active(id)', ~StaleDelete(id)
               PROVE  Active(id)
    BY DEF OnlyStaleRevives
  <1>1. PICK c \in Visible(log)' : /\ c.type = "claim" /\ c.id = id
                                   /\ ~Released(Visible(log)', c)
                                   /\ InTime(Visible(log), id, now)'
    BY DEF Active, ActiveIn
  <1>2. c \in log' /\ c \in log /\ c \in Visible(log)
    BY <1>1, ClaimRowsOld DEF Visible
  <1>3. ~Released(Visible(log), c)
    BY <1>1, <1>2, ReleasedStable, NextLog
  <1>4. InTime(Visible(log), id, now)
    <2>1. now' <= Deadline(id)'
      BY <1>1 DEF InTime, Visible, HeartbeatsVisible
    <2>2. claims'[id] = claims[id] /\ claims[id] \in Claim
      BY ReturnedStable, ReturnedClaim DEF TypeInv
    <2>3. now <= Deadline(id)
      BY <2>1, <2>2, TimeStep DEF Deadline, Claim
    <2> QED
      BY <2>3 DEF InTime
  <1> QED
    BY <1>1, <1>2, <1>3, <1>4 DEF Active, ActiveIn

\* What a stale DELETE takes is noted, unless the whole table has gone.
LEMMA NoneComesBackStep ==
    ASSUME Provider # "memory", TypeInv, [Next]_vars
    PROVE  NoneComesBack
  <1> SUFFICES ASSUME NEW id \in ClaimIds \ lost', Returned(id), ~Active(id), Active(id)'
               PROVE  FALSE
    BY DEF NoneComesBack
  <1>1. PICK r \in log \ log' : Ends(r, id)
    BY StaleRevivesStep DEF OnlyStaleRevives, StaleDelete
  <1>2. log' # {}
    BY DEF Active, ActiveIn, Visible
  <1> QED
    BY <1>1, <1>2, NextLog DEF LogStep, Appended

\* With a provider that does not read heartbeats, a claim that is out of force
\* stays out of force: it can be neither revived nor un-released, except in the one
\* step in which a sweep deletes its release by a number gone stale.
THEOREM Finality ==
    Provider # "memory" /\ Spec => EndedForGood
  <1>1. Provider # "memory" /\ TypeInv /\ [Next]_vars => [OnlyStaleRevives]_vars
    BY StaleRevivesStep
  <1> SUFFICES ASSUME Provider # "memory" PROVE Spec => [][OnlyStaleRevives]_vars
    BY DEF EndedForGood, OnlyStaleRevives
  <1> QED
    BY <1>1, TypeInvariant, PTL DEF Spec

\* What is lost stays lost.
LEMMA LostGrows ==
    ASSUME [Next]_vars
    PROVE  lost \subseteq lost'
  <1>1. CASE \E s \in Sweepers : SweepDelete(s)
    BY <1>1 DEF SweepDelete, DeleteRows
  <1> QED
    BY <1>1 DEF Next, ClientStep, SweepStep, DetectorStep, ClaimRead, ClaimDenied, ClaimGranted,
        ClaimAppend, ClaimFails, Release, Transfer, Heartbeat, UpdateIntent, Post, SweepScan, Query,
        SweepFails, DetectorScan, DetectorJudge, DetectorRelease, DeleteNamespace, Restart, Tick, vars

----------------------------------------------------------------------------
\* A claim a reading agent has a row of, and that its snapshot shows out of
\* force at the present time, is out of force, if it has lost no release.
SnapshotSound ==
    \A a \in Agents : call[a].stage = "read" =>
        \A r \in call[a].seen :
            r.type = "claim" /\ r.id \notin lost /\ Active(r.id) => ActiveIn(call[a].seen, r.id, now)

\* The history of a claim names returned claims.
WitnessedKnown == \A id \in ClaimIds : \A other \in witnessed[id] : Returned(other)

GrantInv == SnapshotSound /\ WitnessedKnown /\ NoLateConflict

\* What a step does to a call in the read stage.
ReadsStep ==
    \A a \in Agents : call'[a].stage = "read" =>
        \/ call'[a] = call[a]
        \/ call'[a].seen = Visible(log) /\ UNCHANGED <<log, now, claims>>

\* What a step that grants nothing does to claims and their history.
HistoryStep ==
    \A id \in ClaimIds : \/ witnessed'[id] = witnessed[id] /\ claims'[id] = claims[id]
                         \/ witnessed'[id] = {} /\ claims'[id] = NoClaim

LEMMA NextReads ==
    ASSUME TypeInv, [Next]_vars
    PROVE  ReadsStep
  <1> USE DEF TypeInv
  <1> SUFFICES ASSUME NEW a \in Agents, call'[a].stage = "read"
               PROVE  \/ call'[a] = call[a]
                      \/ call'[a].seen = Visible(log) /\ UNCHANGED <<log, now, claims>>
    BY DEF ReadsStep
  <1>0. Idle.stage # "read"
    BY DEF Idle
  <1>1. CASE \E b \in Agents, req \in Requests : ClaimRead(b, req)
    BY <1>1 DEF ClaimRead, TypeOK
  <1>2. CASE \E b \in Agents : ClaimDenied(b) \/ ClaimAppend(b)
    BY <1>0, <1>2 DEF ClaimDenied, ClaimAppend, TypeOK
  <1>3. CASE \E b \in Agents, id \in ClaimIds : ClaimGranted(b, id)
    BY <1>3 DEF ClaimGranted, TypeOK
  <1>4. CASE \E agents \in SUBSET Agents : Forget(agents)
    BY <1>0, <1>4 DEF Forget
  <1>5. CASE (\E b \in Agents : ClaimFails(b)) \/ Restart
    <2>1. \E agents \in SUBSET Agents : Forget(agents)
      BY <1>5 DEF ClaimFails, Restart
    <2> QED
      BY <2>1, <1>4
  <1>6. CASE UNCHANGED call
    BY <1>6
  <1> QED
    BY <1>1, <1>2, <1>3, <1>5, <1>6
    DEF Next, ClientStep, SweepStep, DetectorStep, Release, Transfer, Heartbeat, UpdateIntent, Post,
        SweepScan, Query, SweepDelete, DeleteRows, SweepFails, DetectorScan, DetectorJudge, DetectorRelease,
        DeleteNamespace, Tick, vars

LEMMA NextHistory ==
    ASSUME TypeInv, [Next]_vars, ~\E a \in Agents, id \in ClaimIds : ClaimGranted(a, id)
    PROVE  HistoryStep
  <1>1. CASE \E agents \in SUBSET Agents : Forget(agents)
    BY <1>1 DEF Forget, HistoryStep
  <1>2. CASE (\E b \in Agents : ClaimFails(b)) \/ Restart
    <2>1. \E agents \in SUBSET Agents : Forget(agents)
      BY <1>2 DEF ClaimFails, Restart
    <2> QED
      BY <2>1, <1>1
  <1>3. CASE UNCHANGED <<claims, witnessed>>
    BY <1>3 DEF HistoryStep
  <1> QED
    BY <1>2, <1>3
    DEF Next, ClientStep, SweepStep, DetectorStep, Release, Transfer, Heartbeat, UpdateIntent, Post,
        ClaimRead, ClaimDenied, ClaimAppend,
        SweepScan, Query, SweepDelete, DeleteRows, SweepFails, DetectorScan, DetectorJudge, DetectorRelease,
        DeleteNamespace, Tick, vars

LEMMA SnapshotStep ==
    ASSUME Provider # "memory", TypeInv, NoneComesBack, SnapshotSound, [Next]_vars
    PROVE  SnapshotSound'
  <1> USE DEF TypeInv
  <1> SUFFICES ASSUME NEW a \in Agents, call'[a].stage = "read", NEW r \in call'[a].seen,
                      r.type = "claim", r.id \notin lost', Active(r.id)'
               PROVE  ActiveIn(call[a].seen, r.id, now)'
    BY DEF SnapshotSound
  <1>0. r.id \notin lost
    BY LostGrows
  <1>1. CASE call'[a].seen = Visible(log) /\ UNCHANGED <<log, now, claims>>
    BY <1>1 DEF Active, ActiveIn, Visible, InTime, Deadline, Released, Ends
  <1>2. CASE call'[a] = call[a]
    <2>1. r.id \in ClaimIds /\ Returned(r.id)
      BY <1>2, CallType DEF Known, Row
    <2>2. ActiveIn(call[a].seen, r.id, now)
      BY <1>0, <1>2, <2>1 DEF NoneComesBack, SnapshotSound
    <2>3. now' <= Deadline(r.id)'
      BY DEF Active, ActiveIn, InTime, Visible, HeartbeatsVisible
    <2>4. PICK c \in call[a].seen : c.type = "claim" /\ c.id = r.id /\ ~Released(call[a].seen, c)
      BY <2>2 DEF ActiveIn
    <2>5. Released(call[a].seen, c)' <=> Released(call[a].seen, c)
      BY <1>2 DEF Released, Ends
    <2> QED
      BY <1>2, <2>3, <2>4, <2>5 DEF ActiveIn, InTime
  <1> QED
    BY <1>1, <1>2, NextReads DEF ReadsStep

\* A claim that conflicts with one in force, whose row was read, is not granted.
LEMMA GrantedOverNone ==
    ASSUME TypeInv, SnapshotSound, NEW a \in Agents, NEW id \in ClaimIds, ClaimGranted(a, id),
           NEW r \in call[a].seen, r.type = "claim", r.id \notin lost, Active(r.id)
    PROVE  ~Conflicts(id, r.id)'
  <1> USE DEF TypeInv
  <1> DEFINE new == NewClaim(a, call[a].req)
  <1>1. r.id \in ClaimIds /\ Returned(r.id)
    BY CallType DEF ClaimGranted, Known, Row
  <1>2. claims'[id] = new /\ claims'[r.id] = claims[r.id]
    BY <1>1 DEF ClaimGranted, Returned, TypeOK
  <1>3. ActiveIn(call[a].seen, r.id, now)
    BY DEF SnapshotSound, ClaimGranted
  <1>4. ASSUME CheckConflict(new, {claims[r.id]}) # {} PROVE FALSE
    <2>1. ResourceMatches(new.resource, claims[r.id].resource)
          /\ claims[r.id].agent # new.agent /\ IsConflicting(new, claims[r.id])
      BY <1>4 DEF CheckConflict, IsConflicting
    <2>2. new.resource = call[a].req.resource
      BY DEF NewClaim
    <2>3. claims[r.id] \in ActiveSeen(call[a].seen, call[a].req.resource)
      BY <1>1, <1>3, <2>1, <2>2 DEF ActiveSeen, ResourceMatchesPattern
    <2> QED
      BY <2>1, <2>3 DEF ClaimGranted, Blockers, CheckConflict
  <1> QED
    BY <1>2, <1>4 DEF Conflicts

\* The history stays about returned claims, and no claim in force is conflicted
\* with: the one that is granted has seen none, and none comes back.
LEMMA GrantStep ==
    ASSUME TypeInv, NoneComesBack, GrantInv, [Next]_vars
    PROVE  WitnessedKnown' /\ NoLateConflict'
  <1> USE DEF TypeInv, GrantInv
  <1> SUFFICES ASSUME NEW id \in ClaimIds, NEW other \in witnessed'[id]
               PROVE  Returned(other)' /\ (other \notin lost' /\ Conflicts(id, other)' => ~Active(other)')
    BY DEF WitnessedKnown, NoLateConflict
  <1>0. lost \subseteq lost'
    BY LostGrows
  <1>1. CASE witnessed'[id] = witnessed[id] /\ claims'[id] = claims[id]
    <2>1. other \in ClaimIds /\ Returned(other)
      BY <1>1 DEF WitnessedKnown, TypeOK
    <2>2. Returned(other)' /\ claims'[other] = claims[other]
      BY <2>1, ReturnedStable
    <2>3. Conflicts(id, other)' => Conflicts(id, other)
      BY <1>1, <2>2 DEF Conflicts
    <2> QED
      BY <1>0, <1>1, <2>1, <2>2, <2>3 DEF NoLateConflict, NoneComesBack
  <1>2. ASSUME NEW a \in Agents, ClaimGranted(a, id)
        PROVE  Returned(other)' /\ (other \notin lost' /\ Conflicts(id, other)' => ~Active(other)')
    <2>1. PICK r \in call[a].seen : r.type = "claim" /\ r.id = other
      BY <1>2 DEF ClaimGranted, TypeOK
    <2>2. r.id \in ClaimIds /\ Returned(r.id)
      BY <1>2, CallType DEF ClaimGranted, Known, Row
    <2>3. Returned(other)'
      BY <2>1, <2>2, ReturnedStable
    <2> QED
      BY <1>0, <1>2, <2>1, <2>2, <2>3, GrantedOverNone DEF NoneComesBack
  <1>3. CASE ~\E a \in Agents, i \in ClaimIds : ClaimGranted(a, i)
    BY <1>1, <1>3, NextHistory DEF HistoryStep
  <1>4. CASE \E a \in Agents, i \in ClaimIds : i # id /\ ClaimGranted(a, i)
    BY <1>1, <1>4 DEF ClaimGranted, TypeOK
  <1> QED
    BY <1>2, <1>3, <1>4

\* With a provider that does not read heartbeats, a claim in force conflicts with none whose
\* row its grant was decided on, unless a stale DELETE has taken its release.
THEOREM GrantsExclude ==
    Provider # "memory" /\ Spec => []NoLateConflict
  <1>1. Init => GrantInv
    BY DEF Init, GrantInv, SnapshotSound, WitnessedKnown, NoLateConflict, Idle
  <1>2. Provider # "memory" /\ TypeInv /\ GrantInv /\ [Next]_vars => GrantInv'
    BY NoneComesBackStep, SnapshotStep, GrantStep DEF GrantInv
  <1> SUFFICES ASSUME Provider # "memory" PROVE Spec => []NoLateConflict
    OBVIOUS
  <1>3. GrantInv => NoLateConflict
    BY DEF GrantInv
  <1> QED
    BY <1>1, <1>2, <1>3, TypeInvariant, PTL DEF Spec

----------------------------------------------------------------------------
\* What a claim row says of its agent and its time is what the claim says.
Dated ==
    /\ \A id \in ClaimIds : claims[id] # NoClaim => claims[id].created <= now
    /\ \A a \in Agents : call[a].stage = "granted" => claims[call[a].id].agent = a
    /\ \A c \in log : c.type = "claim" =>
           c.agent = claims[c.id].agent /\ claims[c.id].created <= c.ts

\* A condemned claim that has its row is older than the timeout, and every row with
\* its agent's id is, or came when the round had begun; no round begins in the future.
Judged ==
    /\ detector.at <= now
    /\ \A id \in detector.condemned :
        /\ \A c \in log :
            c.type = "claim" /\ c.id = id => claims[id].created + AgentTimeout < detector.at
        /\ \A r \in log : r.agent = claims[id].agent /\ r.ts < detector.at
                              => r.ts + AgentTimeout < detector.at

\* The claims of the next state are no younger than the clock.
LEMMA CreatedStep ==
    ASSUME TypeInv, Dated, [Next]_vars, NEW id \in ClaimIds, claims'[id] # NoClaim
    PROVE  claims'[id].created <= now'
  <1>1. now \in Nat /\ now' \in Nat /\ now <= now'
    BY TimeStep
  <1>2. CASE claims'[id] = claims[id]
    BY <1>1, <1>2 DEF Dated, TypeInv, TypeOK, Claim
  <1>3. ASSUME NEW a \in Agents, NEW new \in ClaimIds, ClaimGranted(a, new)
        PROVE  claims'[id].created <= now'
    <2>1. claims'[id] = claims[id] \/ claims'[id] = NewClaim(a, call[a].req)
      BY <1>3 DEF ClaimGranted, TypeInv, TypeOK
    <2>2. NewClaim(a, call[a].req).created = now
      BY DEF NewClaim
    <2> QED
      BY <1>1, <1>2, <2>1, <2>2
  <1>4. ASSUME NEW agents \in SUBSET Agents, Forget(agents)
        PROVE  claims'[id] = claims[id]
    BY <1>4 DEF Forget
  <1>5. CASE \E a \in Agents : ClaimFails(a)
    BY <1>2, <1>4, <1>5 DEF ClaimFails
  <1>6. CASE Restart
    BY <1>2, <1>4, <1>6 DEF Restart
  <1>7. CASE UNCHANGED claims
    BY <1>2, <1>7
  <1> QED
    BY <1>3, <1>5, <1>6, <1>7
    DEF Next, ClientStep, SweepStep, DetectorStep, ClaimRead, ClaimDenied, ClaimAppend,
        Release, Transfer, Heartbeat, UpdateIntent, Post, SweepScan, Query, SweepDelete, DeleteRows, SweepFails,
        DetectorScan, DetectorJudge, DetectorRelease, DeleteNamespace, Tick, vars

\* A claim that is granted is granted to who asked.
LEMMA GrantedStep ==
    ASSUME TypeInv, Dated, [Next]_vars, NEW a \in Agents, call'[a].stage = "granted"
    PROVE  claims'[call'[a].id].agent = a
  <1>1. CASE UNCHANGED <<claims, call>>
    BY <1>1 DEF Dated
  <1>2. ASSUME NEW b \in Agents, NEW req \in Requests, ClaimRead(b, req)
        PROVE  claims' = claims /\ call'[a] = call[a]
    BY <1>2 DEF ClaimRead, TypeInv, TypeOK
  <1>3. ASSUME NEW b \in Agents, ClaimDenied(b) \/ ClaimAppend(b)
        PROVE  claims' = claims /\ call'[a] = call[a]
    BY <1>3 DEF ClaimDenied, ClaimAppend, Idle, TypeInv, TypeOK
  <1>4. ASSUME NEW b \in Agents, NEW id \in ClaimIds, ClaimGranted(b, id)
        PROVE  claims'[call'[a].id].agent = a
    <2>1. CASE a = b
      <3>1. call'[a].id = id /\ claims'[id] = NewClaim(a, call[a].req)
        BY <1>4, <2>1 DEF ClaimGranted, TypeInv, TypeOK
      <3> QED
        BY <3>1 DEF NewClaim
    <2>2. CASE a # b
      <3>1. call'[a] = call[a]
        BY <1>4, <2>2 DEF ClaimGranted, TypeInv, TypeOK
      <3>2. claims[call[a].id] # NoClaim /\ call[a].id \in ClaimIds
        BY <3>1, CallType DEF TypeInv, Known
      <3>3. claims'[call[a].id] = claims[call[a].id]
        BY <1>4, <3>2 DEF ClaimGranted, TypeInv, TypeOK
      <3> QED
        BY <3>1, <3>3 DEF Dated
    <2> QED
      BY <2>1, <2>2
  <1>5. ASSUME NEW agents \in SUBSET Agents, Forget(agents)
        PROVE  claims'[call'[a].id].agent = a
    <2>1. a \notin agents /\ call'[a] = call[a]
      BY <1>5 DEF Forget, Idle
    <2>2. call[a].id \in ClaimIds
      BY <2>1, CallType DEF TypeInv
    <2>3. ASSUME NEW b \in agents, call[b].stage = "granted" PROVE call[b].id # call[a].id
      BY <2>1, <2>3 DEF TypeInv, Known
    <2>4. claims'[call[a].id] = claims[call[a].id]
      BY <1>5, <2>2, <2>3 DEF Forget
    <2> QED
      BY <2>1, <2>4 DEF Dated
  <1>6. CASE \E b \in Agents : ClaimFails(b)
    BY <1>5, <1>6 DEF ClaimFails
  <1>7. CASE Restart
    BY <1>5, <1>7 DEF Restart
  <1> QED
    BY <1>1, <1>2, <1>3, <1>4, <1>6, <1>7
    DEF Dated, Next, ClientStep, SweepStep, DetectorStep,
        Release, Transfer, Heartbeat, UpdateIntent, Post, SweepScan, Query, SweepDelete, DeleteRows, SweepFails,
        DetectorScan, DetectorJudge, DetectorRelease, DeleteNamespace, Tick, vars

\* A claim row that is new has just been appended by the agent that was granted the claim.
LEMMA NewRow ==
    ASSUME TypeInv, [Next]_vars, NEW c \in log' \ log, c.type = "claim"
    PROVE  \E a \in Agents : /\ call[a].stage = "granted" /\ c.id = call[a].id /\ c.agent = a
                             /\ c.ts = now /\ claims' = claims
  <1>1. ASSUME NEW type, NEW id, NEW agent, Append1(type, id, agent)
        PROVE  c.type = type /\ c.id = id /\ c.agent = agent /\ c.ts = now
    BY <1>1, AppendStep DEF Appended
  <1>2. ASSUME NEW a \in Agents, ClaimAppend(a)
        PROVE  call[a].stage = "granted" /\ c.id = call[a].id /\ c.agent = a /\ c.ts = now /\ claims' = claims
    BY <1>1, <1>2 DEF ClaimAppend
  <1>3. ASSUME NEW type \in PostTypes, NEW id \in ClaimIds, Post(type, id) PROVE FALSE
    BY <1>1, <1>3 DEF Post, PostTypes
  <1>4. ASSUME NEW id \in ClaimIds, DetectorRelease(id) PROVE FALSE
    BY <1>1, <1>4 DEF DetectorRelease
  <1>5. CASE log' \subseteq log
    BY <1>5
  <1> QED
    BY <1>2, <1>3, <1>4, <1>5
    DEF Next, ClientStep, SweepStep, DetectorStep, ClaimRead, ClaimDenied, ClaimGranted, ClaimFails,
        Release, Transfer, Heartbeat, UpdateIntent, SweepScan, Query, SweepDelete, DeleteRows, SweepFails,
        DetectorScan, DetectorJudge, DeleteNamespace, Restart, Tick, vars, PostTypes

LEMMA DatedStep ==
    ASSUME TypeInv, Dated, [Next]_vars
    PROVE  Dated'
  <1>1. ASSUME NEW c \in log', c.type = "claim"
        PROVE  c.agent = claims'[c.id].agent /\ claims'[c.id].created <= c.ts
    <2>1. CASE c \in log
      <3>1. Returned(c.id) /\ c.id \in ClaimIds
        BY <2>1 DEF TypeInv, TypeOK, Known, Row
      <3>2. claims'[c.id] = claims[c.id]
        BY <3>1, ReturnedStable
      <3> QED
        BY <1>1, <2>1, <3>2 DEF Dated
    <2>2. CASE c \notin log
      <3>1. PICK a \in Agents : /\ call[a].stage = "granted" /\ c.id = call[a].id /\ c.agent = a
                                /\ c.ts = now /\ claims' = claims
        BY <1>1, <2>2, NewRow
      <3>2. claims[c.id] # NoClaim /\ c.id \in ClaimIds
        BY <3>1, CallType DEF TypeInv, Known
      <3> QED
        BY <3>1, <3>2 DEF Dated
    <2> QED
      BY <2>1, <2>2
  <1> QED
    BY <1>1, CreatedStep, GrantedStep DEF Dated

\* A round begins at the present time and does not move.
LEMMA RoundStep ==
    ASSUME TypeInv, Judged, [Next]_vars
    PROVE  detector'.at <= now'
  <1>1. now \in Nat /\ now' \in Nat /\ now <= now' /\ detector.at \in Nat
    BY TimeStep DEF TypeInv, TypeOK
  <1>2. detector'.at = detector.at \/ detector'.at = now \/ detector'.at = 0
    <2>1. CASE DetectorScan
      BY <2>1 DEF DetectorScan
    <2>2. CASE \E a \in Agents : DetectorJudge(a)
      BY <2>2 DEF DetectorJudge, TypeInv, TypeOK
    <2>3. CASE \E i \in ClaimIds : DetectorRelease(i)
      BY <2>3 DEF DetectorRelease, TypeInv, TypeOK
    <2>4. CASE Restart
      BY <2>4 DEF Restart, DetectorIdle
    <2>5. CASE UNCHANGED detector
      BY <2>5
    <2> QED
      BY <2>1, <2>2, <2>3, <2>4, <2>5
      DEF Next, ClientStep, SweepStep, DetectorStep, ClaimRead, ClaimDenied, ClaimGranted, ClaimFails,
          ClaimAppend, Release, Transfer, Heartbeat, UpdateIntent, Post, SweepScan, Query, SweepDelete,
          DeleteRows, SweepFails, DeleteNamespace, Tick, vars
  <1> QED
    BY <1>1, <1>2 DEF Judged

\* A row that is new is dated at the present time.
LEMMA NewRowNow ==
    ASSUME TypeInv, [Next]_vars, NEW r \in log' \ log
    PROVE  r.ts = now
  BY NextLog DEF LogStep, Appended

\* A judgement stays right until the claim is released.
LEMMA JudgedStep ==
    ASSUME TypeInv, Dated, Judged, [Next]_vars
    PROVE  Judged'
  <1> SUFFICES ASSUME NEW id \in detector'.condemned
               PROVE  /\ \A c \in log' :
                           c.type = "claim" /\ c.id = id
                               => claims'[id].created + AgentTimeout < detector'.at
                      /\ \A r \in log' : r.agent = claims'[id].agent /\ r.ts < detector'.at
                               => r.ts + AgentTimeout < detector'.at
    BY RoundStep DEF Judged
  <1> DEFINE Goal ==
        /\ \A c \in log' :
             c.type = "claim" /\ c.id = id => claims'[id].created + AgentTimeout < detector'.at
        /\ \A r \in log' : r.agent = claims'[id].agent /\ r.ts < detector'.at
             => r.ts + AgentTimeout < detector'.at
  <1>1. ASSUME id \in detector.condemned, detector'.at = detector.at
        PROVE  Goal
    <2>1. Returned(id) /\ id \in ClaimIds
      BY <1>1 DEF TypeInv, TypeOK, Known
    <2>2. claims'[id] = claims[id]
      BY <2>1, ReturnedStable
    <2>3. ASSUME NEW c \in log', c.type = "claim", c.id = id PROVE c \in log
      BY <2>1, <2>3, ClaimRowsOld
    <2>4. ASSUME NEW r \in log', r.ts < detector'.at PROVE r \in log
      <3>1. ASSUME r \notin log PROVE r.ts = now
        BY <3>1, NewRowNow
      <3>2. detector.at <= now /\ now \in Nat /\ detector.at \in Nat
        BY DEF Judged, TypeInv, TypeOK
      <3> QED
        BY <1>1, <2>4, <3>1, <3>2
    <2> QED
      BY <1>1, <2>2, <2>3, <2>4 DEF Judged
  <1>2. ASSUME NEW a \in Agents, DetectorJudge(a)
        PROVE  Goal
    <2>1. PICK dead \in {FALSE, Silent(a)} :
              detector' = [detector EXCEPT
                  !.listed = @ \ {i \in detector.listed : claims[i].agent = a},
                  !.condemned = IF dead THEN {i \in detector.listed : claims[i].agent = a} ELSE {}]
      BY <1>2 DEF DetectorJudge
    <2>2. /\ Silent(a) /\ claims[id].agent = a /\ id \in ClaimIds
          /\ detector'.at = detector.at /\ detector.at \in Nat
      BY <2>1 DEF TypeInv, TypeOK
    <2>3. log' = log /\ claims' = claims
      BY <1>2 DEF DetectorJudge
    <2>4. ASSUME NEW r \in log', r.agent = claims'[id].agent
          PROVE  r.ts + AgentTimeout < detector'.at
      BY <2>2, <2>3, <2>4 DEF Silent
    <2>5. ASSUME NEW c \in log', c.type = "claim", c.id = id
          PROVE  claims'[id].created + AgentTimeout < detector'.at
      <3>1. claims[id] # NoClaim /\ claims[id] \in Claim
        BY <2>2, <2>3, <2>5 DEF TypeInv, TypeOK, Known, Row, Returned
      <3>2. c.agent = a /\ claims[id].created <= c.ts /\ c.ts \in Nat /\ claims[id].created \in Nat
        BY <2>2, <2>3, <2>5, <3>1 DEF Dated, TypeInv, TypeOK, Row, Claim
      <3>3. c.ts + AgentTimeout < detector.at
        BY <2>2, <2>3, <2>4, <2>5, <3>2
      <3> QED
        BY <2>2, <2>3, <3>2, <3>3, ConstantsAssumption
    <2> QED
      BY <2>4, <2>5
  <1>3. CASE DetectorScan
    BY <1>3 DEF DetectorScan
  <1>4. ASSUME NEW i \in ClaimIds, DetectorRelease(i)
        PROVE  id \in detector.condemned /\ detector'.at = detector.at
    BY <1>4 DEF DetectorRelease, TypeInv, TypeOK
  <1>5. CASE Restart
    BY <1>5 DEF Restart, DetectorIdle
  <1>6. CASE UNCHANGED detector
    BY <1>1, <1>6
  <1>7. Goal
    BY <1>1, <1>2, <1>3, <1>4, <1>5, <1>6
    DEF Next, ClientStep, SweepStep, DetectorStep, ClaimRead, ClaimDenied, ClaimGranted, ClaimFails,
        ClaimAppend, Release, Transfer, Heartbeat, UpdateIntent, Post, SweepScan, Query, SweepDelete,
        DeleteRows, SweepFails, DeleteNamespace, Tick, vars
  <1> QED
    BY <1>7

\* The death detector ends no claim that was made within the agent timeout, and no claim of
\* an agent of which it could have read a row from within it, although it lists first,
\* judges later, and releases one after the other, while agents go on
\* (cmd_serve.go:131-179).  Heartbeats are no such rows.
THEOREM DetectorJudgesSilent == Spec => []DetectorSparesHeard
  <1>1. Init => Dated /\ Judged
    BY DEF Init, Dated, Judged, Idle, DetectorIdle
  <1>2. TypeInv /\ Dated /\ Judged /\ [Next]_vars => Dated' /\ Judged'
    BY DatedStep, JudgedStep
  <1>3. Judged => DetectorSparesHeard
    BY DEF Judged, DetectorSparesHeard, Active, ActiveIn, Visible
  <1> QED
    BY <1>1, <1>2, <1>3, TypeInvariant, PTL DEF Spec

----------------------------------------------------------------------------
\* A release or transfer of a claim that has its row lies above it.
EndsAbove == \A c, r \in log : c.type = "claim" /\ Ends(r, c.id) => r.offset > c.offset

LEMMA EndsAboveStep ==
    ASSUME TypeInv, EndsAbove, [Next]_vars
    PROVE  EndsAbove'
  <1> SUFFICES ASSUME NEW c \in log', NEW r \in log', c.type = "claim", Ends(r, c.id)
               PROVE  r.offset > c.offset
    BY DEF EndsAbove, Ends
  <1>1. LogStep
    BY NextLog
  <1>2. r.type # "claim"
    BY DEF Ends
  <1>3. CASE c \in log /\ r \in log
    BY <1>3 DEF EndsAbove
  <1>4. CASE c \in log /\ r \notin log
    <2>1. PICK type, id, agent : Appended(type, id, agent)
      BY <1>1, <1>4 DEF LogStep
    <2>2. c.offset \in Nat
      BY <1>4 DEF TypeInv, TypeOK, Row
    <2> QED
      BY <1>4, <2>1, <2>2 DEF Appended
  <1>5. CASE c \notin log
    <2>1. PICK a \in Agents : call[a].stage = "granted" /\ c.id = call[a].id
      BY <1>5, NewRow
    <2>2. r \in log
      <3>1. PICK type, id, agent : Appended(type, id, agent)
        BY <1>1, <1>5 DEF LogStep
      <3> QED
        BY <1>2, <1>5, <3>1 DEF Appended
    <2>3. Returned(r.id) /\ r.id = c.id
      BY <2>2 DEF TypeInv, Known, Ends
    <2> QED
      BY <2>1, <2>3 DEF Returned
  <1> QED
    BY <1>3, <1>4, <1>5

\* What can bring a claim back into force in one step.
RevivedByOwnHeartbeat ==
    \A id \in ClaimIds :
        Returned(id) /\ ~Active(id) /\ Active(id)'
            => \/ StaleDelete(id)
               \/ /\ \E h \in log' \ log : h.type = "heartbeat" /\ h.id = id
                  /\ ~\E r \in log : Ends(r, id)

LEMMA RevivedStep ==
    ASSUME TypeInv, EndsAbove, [Next]_vars
    PROVE  RevivedByOwnHeartbeat
  <1> SUFFICES ASSUME NEW id \in ClaimIds, Returned(id), ~Active(id), Active(id)', ~StaleDelete(id)
               PROVE  /\ \E h \in log' \ log : h.type = "heartbeat" /\ h.id = id
                      /\ ~\E r \in log : Ends(r, id)
    BY DEF RevivedByOwnHeartbeat
  <1>1. PICK c \in Visible(log)' : /\ c.type = "claim" /\ c.id = id
                                   /\ ~Released(Visible(log)', c)
                                   /\ InTime(Visible(log), id, now)'
    BY DEF Active, ActiveIn
  <1>2. c \in log' /\ c \in log /\ c \in Visible(log)
    BY <1>1, ClaimRowsOld DEF Visible
  <1>3. ~\E r \in log : Ends(r, id)
    <2> SUFFICES ASSUME NEW r \in log, Ends(r, id) PROVE FALSE
      OBVIOUS
    <2>1. r \in Visible(log)
      BY DEF Visible, Ends
    <2>2. \A x \in Visible(log) : Ends(x, c.id) => x.offset > c.offset
      BY <1>1, <1>2 DEF EndsAbove, Visible
    <2>3. Released(Visible(log), c)
      BY <1>1, <2>1, <2>2 DEF Released
    <2> QED
      BY <1>1, <1>2, <2>3, ReleasedStable, NextLog
  <1>4. ~Released(Visible(log), c)
    BY <1>1, <1>3 DEF Released, Visible
  <1>5. ~InTime(Visible(log), id, now)
    BY <1>1, <1>2, <1>4 DEF Active, ActiveIn
  <1>6. /\ claims'[id] = claims[id] /\ claims[id] \in Claim
        /\ now \in Nat /\ now' \in Nat /\ now <= now'
    BY ReturnedStable, ReturnedClaim, TimeStep DEF TypeInv
  <1>7. ~(now' <= Deadline(id)')
    <2>1. ~(now <= Deadline(id)) /\ Deadline(id)' = Deadline(id) /\ Deadline(id) \in Nat
      BY <1>5, <1>6 DEF InTime, Deadline, Claim
    <2> QED
      BY <1>6, <2>1
  <1>8. PICK h \in Visible(log)' : h.type = "heartbeat" /\ h.id = id /\ now' <= h.ts + claims'[id].ttl
    BY <1>1, <1>7 DEF InTime
  <1>9. h \in log' /\ HeartbeatsVisible
    BY <1>8 DEF Visible
  <1>10. h \notin log
    <2> SUFFICES ASSUME h \in log PROVE FALSE
      OBVIOUS
    <2>1. h \in Visible(log) /\ h.ts \in Nat
      BY <1>9 DEF Visible, TypeInv, TypeOK, Row
    <2>2. now <= h.ts + claims[id].ttl
      BY <1>6, <1>8, <2>1 DEF Claim
    <2> QED
      BY <1>5, <1>8, <2>1, <2>2 DEF InTime
  <1> QED
    BY <1>3, <1>8, <1>9, <1>10

\* With heartbeats in sight, a claim that is out of force comes back by a heartbeat of its own
\* only, and never after a release or a transfer, unless a stale DELETE has taken
\* that (activeclaims.go:54-105).
THEOREM RevivalByHeartbeat == Spec => RevivedOnlyByHeartbeat
  <1>1. Init => EndsAbove
    BY DEF Init, EndsAbove
  <1>2. TypeInv /\ EndsAbove /\ [Next]_vars => EndsAbove'
    BY EndsAboveStep
  <1>3. TypeInv /\ EndsAbove /\ [Next]_vars => [RevivedByOwnHeartbeat]_vars
    BY RevivedStep
  <1> SUFFICES Spec => [][RevivedByOwnHeartbeat]_vars
    BY DEF RevivedOnlyByHeartbeat, RevivedByOwnHeartbeat
  <1> QED
    BY <1>1, <1>2, <1>3, TypeInvariant, PTL DEF Spec

----------------------------------------------------------------------------
\* No release or transfer was lost to a sweep.
NothingLost == lost = {}

\* A claim in force has a row, and was returned.
LEMMA ActiveReturned ==
    ASSUME TypeInv, NEW id \in ClaimIds, Active(id)
    PROVE  Returned(id) /\ \E r \in Visible(log) : r.type = "claim" /\ r.id = id
  BY DEF Active, ActiveIn, Visible, TypeInv, Known

\* While neither table nor clock changes, the claims in force stay the same.
LEMMA InForceKept ==
    ASSUME TypeInv, [Next]_vars, UNCHANGED <<log, now>>
    PROVE  InForce' = InForce
  <1> SUFFICES ASSUME NEW id \in ClaimIds PROVE Active(id)' <=> Active(id)
    BY DEF InForce
  <1>1. Visible(log)' = Visible(log)
    BY DEF Visible, HeartbeatsVisible
  <1>2. CASE \E r \in log : r.id = id
    <2>1. claims'[id] = claims[id]
      BY <1>2, ReturnedStable DEF TypeInv, Known
    <2> QED
      BY <1>1, <2>1 DEF Active, ActiveIn, InTime, Deadline, Released, Ends
  <1>3. CASE ~\E r \in log : r.id = id
    BY <1>1, <1>3 DEF Active, ActiveIn, Visible
  <1> QED
    BY <1>2, <1>3

\* What has been returned is in force or has ended, and nothing else has.
LEMMA ReturnedSplit ==
    ASSUME TypeInv
    PROVE  /\ InForce \cup Ended = {id \in ClaimIds : Returned(id)}
           /\ InForce \cap Ended = {}
  BY ActiveReturned DEF InForce, Ended

\* An identifier that was handed out and not returned is one that is promised.
LEMMA GrantedPromised ==
    ASSUME TypeInv, NEW a \in Agents, call[a].stage = "granted"
    PROVE  call[a].id \in Promise!Promised
  <1>1. call[a].id \in ClaimIds /\ claims[call[a].id] # NoClaim /\ ~Returned(call[a].id)
    BY CallType DEF TypeInv, Known, Returned
  <1> QED
    BY <1>1, ReturnedSplit DEF Promise!Promised

LEMMA LookStep ==
    ASSUME TypeInv, NEW a \in Agents, NEW req \in Requests, ClaimRead(a, req), [Next]_vars
    PROVE  Promise!Look(a)
  <1> USE DEF TypeInv
  <1> DEFINE shown == ClaimRows(Visible(log))
  <1>1. /\ call'[a].stage = "read" /\ call'[a].seen = Visible(log)
        /\ \A b \in Agents \ {a} : call'[b] = call[b]
    BY DEF ClaimRead, TypeOK
  <1>2. a \notin Asking /\ Asking' = Asking \cup {a}
    BY <1>1 DEF ClaimRead, Asking
  <1>3. ViewOf'[a] = shown
    BY <1>1, <1>2 DEF ViewOf, ClaimRows
  <1>4. ViewOf' = [ViewOf EXCEPT ![a] = ViewOf'[a]]
    BY <1>1, <1>2 DEF ViewOf, ClaimRows
  <1>5. InForce \subseteq shown
    BY ActiveReturned DEF InForce, ClaimRows
  <1>6. shown \subseteq InForce \cup Ended
    BY ReturnedSplit DEF ClaimRows, Visible, Known, TypeOK, Row
  <1>7. InForce' = InForce
    BY InForceKept DEF ClaimRead
  <1>8. Ended' = Ended
    <2>1. ASSUME NEW id \in ClaimIds PROVE Returned(id)' <=> Returned(id)
      BY <1>1 DEF ClaimRead, Returned
    <2> QED
      BY <1>7, <2>1 DEF Ended, InForce
  <1> QED
    BY <1>2, <1>3, <1>4, <1>5, <1>6, <1>7, <1>8 DEF Promise!Look, ClaimRead

LEMMA TakeStep ==
    ASSUME TypeInv, NothingLost, SnapshotSound, NEW a \in Agents, NEW id \in ClaimIds, ClaimGranted(a, id),
           [Next]_vars
    PROVE  Promise!Take(a, id)
  <1> USE DEF TypeInv
  <1>1. /\ call'[a] = [stage |-> "granted", id |-> id]
        /\ \A b \in Agents \ {a} : call'[b] = call[b]
    BY DEF ClaimGranted, TypeOK
  <1>2. claims'[id] = NewClaim(a, call[a].req) /\ claims' = [claims EXCEPT ![id] = claims'[id]]
    BY DEF ClaimGranted, TypeOK
  <1>3. claims'[id] # NoClaim
    BY <1>2, CallType, NewClaimType, NoClaimAssumption DEF ClaimGranted
  <1>4. a \in Asking /\ Asking' = Asking \ {a}
    BY <1>1 DEF ClaimGranted, Asking
  <1>5. ViewOf[a] = ClaimRows(call[a].seen)
    BY <1>4 DEF ViewOf
  <1>6. ViewOf' = [ViewOf EXCEPT ![a] = {}]
    BY <1>1, <1>4 DEF ViewOf, ClaimRows
  <1>7. witnessed' = [witnessed EXCEPT ![id] = ViewOf[a]]
    BY <1>5 DEF ClaimGranted, ClaimRows
  <1>8. ASSUME NEW c \in ViewOf[a] \cap InForce PROVE ~Refused(claims'[id], claims[c])
    <2>1. PICK r \in call[a].seen : r.type = "claim" /\ r.id = c
      BY <1>5, <1>8 DEF ClaimRows
    <2>2. ~Conflicts(id, c)'
      BY <1>8, <2>1, GrantedOverNone DEF InForce, NothingLost
    <2>3. claims'[c] = claims[c]
      BY <1>8, ActiveReturned, ReturnedStable DEF InForce
    <2> QED
      BY <2>2, <2>3 DEF Conflicts, Refused
  <1>9. InForce' = InForce
    BY InForceKept DEF ClaimGranted
  <1>10. Ended' = Ended
    <2>1. ASSUME NEW i \in ClaimIds PROVE Returned(i)' <=> Returned(i)
      <3>1. CASE i = id
        BY <1>1, <3>1 DEF ClaimGranted, Returned
      <3>2. CASE i # id
        BY <1>1, <1>2, <3>2 DEF ClaimGranted, Returned, TypeOK
      <3> QED
        BY <3>1, <3>2
    <2> QED
      BY <1>9, <2>1 DEF Ended, InForce
  <1> QED
    BY <1>2, <1>3, <1>4, <1>6, <1>7, <1>8, <1>9, <1>10 DEF Promise!Take, ClaimGranted

LEMMA BeginStep ==
    ASSUME TypeInv, NEW a \in Agents, ClaimAppend(a), [Next]_vars
    PROVE  \E id \in ClaimIds : Promise!Begin(id)
  <1> USE DEF TypeInv
  <1>1. PICK id \in ClaimIds : id = call[a].id
    BY CallType DEF ClaimAppend
  <1>2. id \in Promise!Promised /\ ~Returned(id)
    BY <1>1, GrantedPromised DEF ClaimAppend, Returned
  <1>3. /\ call'[a].stage = "idle"
        /\ \A b \in Agents \ {a} : call'[b] = call[b]
    BY DEF ClaimAppend, Idle, TypeOK
  <1>4. ASSUME NEW i \in ClaimIds, i # id PROVE Returned(i)' <=> Returned(i)
    BY <1>1, <1>3, <1>4 DEF ClaimAppend, Returned
  <1>5. Returned(id)'
    BY <1>1, <1>3 DEF ClaimAppend, Returned, Known
  <1>6. ASSUME NEW i \in ClaimIds, i # id PROVE Active(i)' <=> Active(i)
    <2>1. /\ \A r \in Visible(log) : r \in Visible(log)'
          /\ \A r \in Visible(log)' : r \in Visible(log) \/ r.id = id
      BY <1>1, AppendStep DEF ClaimAppend, Appended, Visible, HeartbeatsVisible
    <2>2. \A c : c.id = i => (Released(Visible(log), c)' <=> Released(Visible(log), c))
      BY <1>6, <2>1 DEF Released, Ends
    <2>3. InTime(Visible(log), i, now)' <=> InTime(Visible(log), i, now)
      BY <1>6, <2>1 DEF InTime, Deadline, ClaimAppend
    <2> QED
      BY <1>6, <2>1, <2>2, <2>3 DEF Active, ActiveIn
  <1>7. \/ InForce' = InForce \cup {id} /\ UNCHANGED Ended
        \/ Ended' = Ended \cup {id} /\ UNCHANGED InForce
    <2>1. id \notin InForce /\ id \notin Ended
      BY <1>2, ActiveReturned DEF InForce, Ended
    <2>2. \A i \in ClaimIds \ {id} : (i \in InForce' <=> i \in InForce) /\ (i \in Ended' <=> i \in Ended)
      BY <1>4, <1>6 DEF InForce, Ended
    <2>3. /\ InForce \subseteq ClaimIds /\ InForce' \subseteq ClaimIds
          /\ Ended \subseteq ClaimIds /\ Ended' \subseteq ClaimIds
      BY DEF InForce, Ended
    <2>4. \/ id \in InForce' /\ id \notin Ended'
          \/ id \in Ended' /\ id \notin InForce'
      BY <1>5 DEF InForce, Ended
    <2> QED
      BY <2>1, <2>2, <2>3, <2>4
  <1>8. UNCHANGED <<claims, witnessed, Asking, ViewOf>>
    <2>1. UNCHANGED Asking
      BY <1>3 DEF ClaimAppend, Asking
    <2> QED
      BY <1>3, <2>1 DEF ClaimAppend, Asking, ViewOf, ClaimRows
  <1> QED
    BY <1>2, <1>7, <1>8 DEF Promise!Begin

\* An answer of no, a failure and a restart make agents stop asking.
LEMMA GiveUpStep ==
    ASSUME TypeInv, NEW agents \in SUBSET Agents, Forget(agents), UNCHANGED <<log, now>>, [Next]_vars
    PROVE  Promise!GiveUp
  <1> USE DEF TypeInv
  <1> DEFINE gone == {call[a].id : a \in {b \in agents : call[b].stage = "granted"}}
  <1>1. gone \in SUBSET Promise!Promised
    BY GrantedPromised
  <1>2. agents \cap Asking \in SUBSET Asking
    OBVIOUS
  <1>3. \A a \in Agents : call'[a] = IF a \in agents THEN Idle ELSE call[a]
    BY DEF Forget
  <1>4. Asking' = Asking \ (agents \cap Asking)
    BY <1>3 DEF Asking, Idle
  <1>5. ViewOf' = [a \in Agents |-> IF a \in agents \cap Asking THEN {} ELSE ViewOf[a]]
    BY <1>3, <1>4 DEF ViewOf, ClaimRows
  <1>6. /\ claims' = [id \in ClaimIds |-> IF id \in gone THEN NoClaim ELSE claims[id]]
        /\ witnessed' = [id \in ClaimIds |-> IF id \in gone THEN {} ELSE witnessed[id]]
    BY DEF Forget
  <1>7. InForce' = InForce
    BY InForceKept
  <1>8. Ended' = Ended
    <2>1. ASSUME NEW id \in ClaimIds, Returned(id)' PROVE Returned(id)
      <3>1. claims[id] # NoClaim /\ id \notin gone
        BY <1>6, <2>1 DEF Returned
      <3> QED
        BY <1>3, <2>1, <3>1 DEF Returned
    <2> QED
      BY <1>7, <2>1, ReturnedStable DEF Ended, InForce
  <1> QED
    BY <1>1, <1>2, <1>4, <1>5, <1>6, <1>7, <1>8 DEF Promise!GiveUp

\* Who is refused gives up, and nothing was promised to it.
LEMMA DeniedStep ==
    ASSUME TypeInv, NEW a \in Agents, ClaimDenied(a), [Next]_vars
    PROVE  Promise!GiveUp
  <1>1. Forget({a})
    <2>1. {b \in {a} : call[b].stage = "granted"} = {}
      BY DEF ClaimDenied
    <2>2. call' = [b \in Agents |-> IF b \in {a} THEN Idle ELSE call[b]]
      BY DEF ClaimDenied, TypeInv, TypeOK
    <2>3. /\ claims' = [id \in ClaimIds |-> IF id \in {} THEN NoClaim ELSE claims[id]]
          /\ witnessed' = [id \in ClaimIds |-> IF id \in {} THEN {} ELSE witnessed[id]]
      BY DEF ClaimDenied, TypeInv, TypeOK
    <2> QED
      BY <2>1, <2>2, <2>3 DEF Forget
  <1> QED
    BY <1>1, GiveUpStep DEF ClaimDenied

\* Posts, sweeps, the detector, the deletion of the namespace and the clock can
\* only end claims.
LEMMA EndStep ==
    ASSUME TypeInv, NoneComesBack, NothingLost', UNCHANGED <<claims, call, witnessed>>, [Next]_vars
    PROVE  Promise!End
  <1>1. \A id \in ClaimIds : Returned(id)' <=> Returned(id)
    BY DEF Returned
  <1>2. ASSUME NEW id \in ClaimIds, Active(id)' PROVE Returned(id) /\ Active(id)
    <2>1. \E r \in log' : r.id = id
      BY <1>2 DEF Active, ActiveIn, Visible
    <2>2. Returned(id)'
      BY <2>1, KnownStep DEF Known
    <2> QED
      BY <1>1, <1>2, <2>2 DEF NoneComesBack, NothingLost
  <1>3. InForce' = InForce \ (InForce \ InForce')
    BY <1>2 DEF InForce
  <1>4. Ended' = Ended \cup (InForce \ InForce')
    BY <1>1, <1>2, ActiveReturned DEF Ended, InForce
  <1>5. UNCHANGED <<Asking, ViewOf>>
    BY DEF Asking, ViewOf, ClaimRows
  <1> QED
    BY <1>3, <1>4, <1>5 DEF Promise!End

\* What is not part of a Claim call changes nothing but the table and the background work.
LEMMA BesideClaim ==
    ASSUME \/ UNCHANGED vars \/ Tick \/ DeleteNamespace \/ SweepStep \/ DetectorStep
           \/ \E i \in ClaimIds : Release(i) \/ Transfer(i) \/ Heartbeat(i) \/ UpdateIntent(i)
    PROVE  UNCHANGED <<claims, call, witnessed>>
  BY DEF vars, Tick, DeleteNamespace, SweepStep, SweepScan, Query, SweepDelete, DeleteRows, SweepFails,
         DetectorStep, DetectorScan, DetectorJudge, DetectorRelease,
         Release, Transfer, Heartbeat, UpdateIntent, Post

\* A step of the table is a step of the promise, or none.
LEMMA PromiseStep ==
    ASSUME Provider # "memory", TypeInv, GrantInv, NothingLost, NothingLost', [Next]_vars
    PROVE  [Promise!Next]_(Promise!vars)
  <1> SUFFICES Promise!Next \/ UNCHANGED Promise!vars
    OBVIOUS
  <1> USE DEF GrantInv
  <1>1. ASSUME NEW a \in Agents, NEW req \in Requests, ClaimRead(a, req) PROVE Promise!Next
    BY <1>1, LookStep DEF Promise!Next
  <1>2. ASSUME NEW a \in Agents, NEW id \in ClaimIds, ClaimGranted(a, id) PROVE Promise!Next
    BY <1>2, TakeStep DEF Promise!Next
  <1>3. ASSUME NEW a \in Agents, ClaimAppend(a) PROVE Promise!Next
    BY <1>3, BeginStep DEF Promise!Next
  <1>4. ASSUME NEW a \in Agents, ClaimDenied(a) PROVE Promise!Next
    BY <1>4, DeniedStep DEF Promise!Next
  <1>5. ASSUME NEW a \in Agents, ClaimFails(a) PROVE Promise!Next
    BY <1>5, GiveUpStep DEF ClaimFails, Promise!Next
  <1>6. CASE Restart
    BY <1>6, GiveUpStep DEF Restart, Promise!Next
  <1>7. CASE UNCHANGED <<claims, call, witnessed>>
    BY <1>7, EndStep, NoneComesBackStep DEF Promise!Next
  <1> QED
    BY <1>1, <1>2, <1>3, <1>4, <1>5, <1>6, <1>7, BesideClaim DEF Next, ClientStep

LEMMA PromiseInit == Init => Promise!Init
  <1> SUFFICES ASSUME Init PROVE Promise!Init
    OBVIOUS
  <1>1. InForce = {} /\ Ended = {}
    BY DEF Init, InForce, Ended, Active, ActiveIn, Visible, Returned
  <1>2. Asking = {}
    BY DEF Init, Asking, Idle
  <1>3. ViewOf = [a \in Agents |-> {}]
    BY <1>2 DEF ViewOf
  <1> QED
    BY <1>1, <1>2, <1>3 DEF Init, Promise!Init

\* Where sweeps delete nothing there is nothing to lose, and where they do, a
\* release is lost only to a number that came back: not if one sweep runs at a time
\* and nobody deletes the namespace under it.
SafeSweeping ==
    SweepDeletes => MaxDeletes = 0 /\ \A s, t \in Sweepers : s = t

\* What a sweep still has to delete is there, and is an expired claim.
PlanExpired ==
    \A s \in Sweepers : \A o \in plan[s] :
        \E r \in log : r.offset = o /\ r.type = "claim" /\ Expired(r.id, now)

LEMMA PlanExpiredStep ==
    ASSUME SafeSweeping, TypeInv, SweepInv, PlanExpired, [Next]_vars
    PROVE  PlanExpired'
  <1> USE DEF SweepInv
  <1>1. ASSUME NEW r \in log, r.type = "claim", Expired(r.id, now)
        PROVE  Expired(r.id, now)'
    BY <1>1, ExpiredStable DEF TypeInv, TypeOK, Known, Row
  <1>2. ASSUME NEW s \in Sweepers, NEW before \in 0..now, SweepScan(s, before)
        PROVE  PlanExpired'
    <2>1. ASSUME NEW r \in log, Expired(r.id, before) PROVE Expired(r.id, now)
      <3>1. claims[r.id] \in Claim
        BY ReturnedClaim DEF TypeInv, TypeOK, Known, Row
      <3> QED
        BY <2>1, <3>1 DEF Expired, Deadline, Claim, TypeInv, TypeOK
    <2>2. \A t \in Sweepers : plan'[t] \subseteq plan[t] \cup
            {r.offset : r \in {c \in log : c.type = "claim" /\ Expired(c.id, before)}}
      BY <1>2 DEF SweepScan, Query, TypeInv, TypeOK
    <2>3. log' = log
      BY <1>2 DEF SweepScan, Query
    <2> QED
      BY <2>1, <2>2, <2>3, <1>1 DEF PlanExpired
  <1>3. ASSUME NEW s \in Sweepers, SweepDelete(s)
        PROVE  PlanExpired'
    <2>1. PICK o \in plan[s] : /\ log' = log \ {r \in log : r.offset = o}
                               /\ plan' = [plan EXCEPT ![s] = @ \ {o}]
      BY <1>3 DEF SweepDelete, DeleteRows
    <2>2. SweepDeletes /\ \A t \in Sweepers : t = s
      BY <2>1 DEF PlanOnlyOfSweeping, SafeSweeping
    <2>3. \A t \in Sweepers : plan'[t] = plan[s] \ {o}
      BY <2>1, <2>2 DEF TypeInv, TypeOK
    <2> QED
      BY <2>1, <2>3, <1>1 DEF PlanExpired
  <1>4. ASSUME NEW s \in Sweepers, SweepFails(s)
        PROVE  PlanExpired'
    BY <1>4, <1>1 DEF SweepFails, PlanExpired, TypeInv, TypeOK
  <1>5. CASE Restart
    BY <1>5 DEF Restart, PlanExpired
  <1>6. CASE DeleteNamespace
    <2>1. ~SweepDeletes
      BY <1>6 DEF DeleteNamespace, SafeSweeping, TypeInv, TypeOK
    <2> QED
      BY <1>6, <2>1 DEF DeleteNamespace, PlanExpired, PlanOnlyOfSweeping
  <1>7. CASE UNCHANGED plan /\ log \subseteq log'
    BY <1>7, <1>1 DEF PlanExpired
  <1>8. CASE ClientStep \/ DetectorStep \/ Tick \/ UNCHANGED vars
    BY <1>8, <1>7 DEF ClientStep, DetectorStep, ClaimRead, ClaimDenied, ClaimGranted,
         ClaimAppend, ClaimFails, Release, Transfer, Heartbeat, UpdateIntent, Post, Append1,
         DetectorScan, DetectorJudge, DetectorRelease, Tick, vars
  <1> QED
    BY <1>2, <1>3, <1>4, <1>5, <1>6, <1>8 DEF Next, SweepStep

LEMMA NothingLostStep ==
    ASSUME TypeInv, SweepInv, PlanExpired, NothingLost, [Next]_vars
    PROVE  NothingLost'
  <1>1. ASSUME NEW s \in Sweepers, SweepDelete(s)
        PROVE  NothingLost'
    <2>1. PICK o \in plan[s] :
              lost' = lost \cup {id \in ClaimIds : \E r \in {x \in log : x.offset = o} : Ends(r, id)}
      BY <1>1 DEF SweepDelete, DeleteRows
    <2>2. \A r \in log : r.offset = o => r.type = "claim"
      BY DEF PlanExpired, SweepInv, UniqueOffsets
    <2> QED
      BY <2>1, <2>2 DEF NothingLost, Ends
  <1> QED
    BY <1>1 DEF NothingLost, Next, ClientStep, SweepStep, DetectorStep, ClaimRead, ClaimDenied,
        ClaimGranted, ClaimAppend, ClaimFails, Release, Transfer, Heartbeat, UpdateIntent, Post,
        SweepScan, Query, SweepFails, DetectorScan, DetectorJudge, DetectorRelease, DeleteNamespace,
        Restart, Tick, vars

\* Releases and transfers are lost only where sweeps overlap each other or the deletion
\* of the namespace: never with postgres and memory, nor with one sweep at a time.
THEOREM LostOnlyToOverlap == SafeSweeping /\ Spec => []NothingLost
  <1>1. Init => PlanExpired /\ NothingLost
    BY DEF Init, PlanExpired, NothingLost
  <1>2. SafeSweeping /\ TypeInv /\ SweepInv /\ PlanExpired /\ NothingLost /\ [Next]_vars
            => PlanExpired' /\ NothingLost'
    BY PlanExpiredStep, NothingLostStep
  <1> SUFFICES ASSUME SafeSweeping PROVE Spec => []NothingLost
    OBVIOUS
  <1> QED
    BY <1>1, <1>2, TypeInvariant, SweepInvariant, PTL DEF Spec

\* An append-only table without a lock, read in one step and appended to in another, with
\* sweepers, a death detector, failures and restarts about, keeps what Leases promises for
\* as long as no release is lost to a stale DELETE: no claim is taken over one that was
\* shown and still is in force, and none comes back (client.go:34-68,
\* activeclaims.go:54-105).
THEOREM KeepsPromise ==
    Provider # "memory" /\ Spec /\ []NothingLost => ImplementsLeases
  <1>1. Init => GrantInv
    BY DEF Init, GrantInv, SnapshotSound, WitnessedKnown, NoLateConflict, Idle
  <1>2. Provider # "memory" /\ TypeInv /\ GrantInv /\ [Next]_vars => GrantInv'
    BY NoneComesBackStep, SnapshotStep, GrantStep DEF GrantInv
  <1>3. Provider # "memory" /\ TypeInv /\ GrantInv /\ NothingLost /\ NothingLost' /\ [Next]_vars
            => [Promise!Next]_(Promise!vars)
    BY PromiseStep
  <1> SUFFICES ASSUME Provider # "memory" PROVE Spec /\ []NothingLost => ImplementsLeases
    OBVIOUS
  <1> QED
    BY <1>1, <1>2, <1>3, PromiseInit, TypeInvariant, PTL
    DEF Spec, ImplementsLeases, Promise!Spec
=============================================================================
