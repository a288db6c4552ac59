------------------------------ MODULE ClaimLog ------------------------------
(***************************************************************************)
(* Claims in one namespace: the append-only message table of a provider, the *)
(* client calls that read and append to it, the sweepers that delete expired *)
(* claim rows, and the death detector of `hearsay serve` that releases the   *)
(* claims of silent agents.  There is no lock anywhere: a claim is granted   *)
(* on a snapshot of the table and appended later.                            *)
(*                                                                           *)
(* A definition whose name ends in an underscored word is a faulty variant of *)
(* the one it precedes; nothing uses it but the check that a property notices *)
(* the fault.                                                                *)
(*                                                                           *)
(* Sources: pkg/hearsay/client.go, activeclaims.go, internal/memory,         *)
(* internal/sqlite, internal/postgres, internal/server/sweeper_native.go,    *)
(* cmd/hearsay/cmd_serve.go.                                                 *)
(***************************************************************************)
EXTENDS Conflict, Naturals

CONSTANTS
  Agents,        \* the agents that claim
  ClaimIds,      \* identifiers generateClaimID can return, all distinct
  Requests,      \* what an agent may ask for: [resource, op, ttl]
  DefaultTTL,    \* the TTL of a request that names none (300 seconds)
  Provider,      \* which provider keeps the table
  Posts,         \* the messages about a claim that agents send
  Sweepers,      \* concurrent callers of ReleaseExpired: the ticker, POST /expire
  Tickers,       \* those of them that come round again by themselves
  AgentTimeout,  \* the -agent-timeout flag; 0 turns the death detector off
  NoAgent,       \* the empty agent_id of messages other than claims
  NoClaim,       \* an identifier not in use
  MaxTime,       \* bound: the clock
  MaxOffset,     \* bound: offsets in the table
  MaxDeletes     \* bound: how often the namespace is deleted and recreated

PostTypes == {"release", "transfer", "heartbeat", "intent"}

ASSUME ConstantsAssumption ==
    /\ DefaultTTL \in Nat /\ AgentTimeout \in Nat /\ MaxTime \in Nat
    /\ MaxOffset \in Nat /\ MaxDeletes \in Nat
    /\ Requests \subseteq [resource : Seq(STRING), op : Operations, ttl : Nat]
    /\ Provider \in {"memory", "sqlite", "postgres"}
    /\ Posts \subseteq PostTypes
    /\ Tickers \subseteq Sweepers
    /\ NoAgent \notin Agents

\* ActiveClaims of the SQL providers asks for claim, release and transfer rows.
HeartbeatsVisible == Provider = "memory"

\* ReleaseExpired of memory is a no-op; that of postgres selects an unquoted
\* column named offset, a reserved word, and always fails.
SweepDeletes == Provider = "sqlite"

VARIABLES
  log,        \* the rows of the messages table
  now,        \* the clock of the machine
  claims,     \* the payload of the claim row with this id
  call,       \* the Claim call each agent has in flight
  plan,       \* the offsets each sweeper still has to delete (toDelete)
  detector,   \* the death detector's round: its now, the claims it listed and
              \* not judged yet, the claims of dead agents it has to release
  deletes,    \* how often the namespace was deleted
  witnessed,  \* history: the claims with a row in the snapshot a claim was granted on
  kept,       \* history: of the rows a sweep's query was run on, those still in the
              \* table; nothing when the sweep is over
  lost        \* history: the claims of which a sweep has deleted a release or transfer

vars == <<log, now, claims, call, plan, detector, deletes, witnessed, kept, lost>>

Row == [offset : Nat \ {0}, type : PostTypes \cup {"claim"}, id : ClaimIds,
        agent : Agents \cup {NoAgent}, ts : Nat]

Claim == [agent : Agents, resource : Seq(STRING), op : Operations, ttl : Nat, created : Nat]

ASSUME NoClaimAssumption == NoClaim \notin Claim

Call == [stage : {"idle"}]
        \cup [stage : {"read"}, req : Requests, seen : SUBSET Row]
        \cup [stage : {"granted"}, id : ClaimIds]

TypeOK ==
    /\ log \subseteq Row
    /\ now \in Nat
    /\ claims \in [ClaimIds -> Claim \cup {NoClaim}]
    /\ call \in [Agents -> Call]
    /\ plan \in [Sweepers -> SUBSET Nat]
    /\ detector \in [at : Nat, listed : SUBSET ClaimIds, condemned : SUBSET ClaimIds]
    /\ deletes \in Nat
    /\ witnessed \in [ClaimIds -> SUBSET ClaimIds]
    /\ kept \in [Sweepers -> SUBSET Row]
    /\ lost \subseteq ClaimIds

----------------------------------------------------------------------------
\* FilterActiveClaims on a set of rows, at time t.

Visible(rows) == {r \in rows : HeartbeatsVisible \/ r.type \notin {"heartbeat", "intent"}}

Ends(r, id) == r.type \in {"release", "transfer"} /\ r.id = id

\* Variant: a heartbeat undoes a release.
Released_undone(rows, c) ==
    \E r \in rows : /\ Ends(r, c.id)
                    /\ \A h \in rows : h.type = "heartbeat" /\ h.id = c.id => h.offset < r.offset

\* The lowest offset of a release or transfer of the claim is above the claim's.
Released(rows, c) ==
    /\ \E r \in rows : Ends(r, c.id)
    /\ \A r \in rows : Ends(r, c.id) => r.offset > c.offset

Deadline(id) == claims[id].created + claims[id].ttl

InTime(rows, id, t) ==
    \/ t <= Deadline(id)
    \/ \E h \in rows : h.type = "heartbeat" /\ h.id = id /\ t <= h.ts + claims[id].ttl

ActiveIn(rows, id, t) ==
    \E c \in rows : c.type = "claim" /\ c.id = id /\ ~Released(rows, c) /\ InTime(rows, id, t)

\* Provider.ActiveClaims, asked for every resource.
Active(id) == ActiveIn(Visible(log), id, now)

----------------------------------------------------------------------------
\* Provider.Append of one message: MAX(offset) + 1, timestamp now.  A postgres
\* offset comes from a sequence instead; only the order of the rows of one claim
\* is ever looked at, and it is the same.

IsNext(o) == (\A r \in log : r.offset < o) /\ (o = 1 \/ \E r \in log : r.offset = o - 1)

Append1(type, id, agent) ==
    \E o \in 1..MaxOffset :
        /\ IsNext(o)
        /\ log' = log \cup {[offset |-> o, type |-> type, id |-> id, agent |-> agent, ts |-> now]}

----------------------------------------------------------------------------
\* Client.Claim: query, filter and check, append.

Idle == [stage |-> "idle"]

EffectiveTTL(req) == IF req.ttl = 0 THEN DefaultTTL ELSE req.ttl

ClaimRead(a, req) ==
    /\ call[a].stage = "idle"
    /\ call' = [call EXCEPT ![a] = [stage |-> "read", req |-> req, seen |-> Visible(log)]]
    /\ UNCHANGED <<log, now, claims, plan, detector, deletes, witnessed, kept, lost>>

\* Variant: the agent is not copied into the claim.
NewClaim_anonymous(a, req) ==
    [agent |-> NoAgent, resource |-> req.resource, op |-> req.op, ttl |-> EffectiveTTL(req), created |-> now]

NewClaim(a, req) ==
    [agent |-> a, resource |-> req.resource, op |-> req.op, ttl |-> EffectiveTTL(req), created |-> now]

\* The claims ActiveClaims returns for the resource asked for, from the rows
\* that were read, at the present time.
ActiveSeen(rows, resource) ==
    {claims[id] : id \in {i \in ClaimIds : /\ ActiveIn(rows, i, now)
                                           /\ ResourceMatchesPattern(resource, claims[i].resource)}}

Blockers(a) == CheckConflict(NewClaim(a, call[a].req), ActiveSeen(call[a].seen, call[a].req.resource))

ClaimDenied(a) ==
    /\ call[a].stage = "read"
    /\ Blockers(a) # {}
    /\ call' = [call EXCEPT ![a] = Idle]
    /\ UNCHANGED <<log, now, claims, plan, detector, deletes, witnessed, kept, lost>>

\* Variant: conflicts are reported and the claim is appended all the same.
ClaimGranted_advisory(a, id) ==
    /\ call[a].stage = "read"
    /\ claims[id] = NoClaim
    /\ claims' = [claims EXCEPT ![id] = NewClaim(a, call[a].req)]
    /\ witnessed' = [witnessed EXCEPT ![id] = {r.id : r \in {s \in call[a].seen : s.type = "claim"}}]
    /\ call' = [call EXCEPT ![a] = [stage |-> "granted", id |-> id]]
    /\ UNCHANGED <<log, now, plan, detector, deletes, kept, lost>>

ClaimGranted(a, id) ==
    /\ call[a].stage = "read"
    /\ claims[id] = NoClaim
    /\ Blockers(a) = {}
    /\ claims' = [claims EXCEPT ![id] = NewClaim(a, call[a].req)]
    /\ witnessed' = [witnessed EXCEPT ![id] = {r.id : r \in {s \in call[a].seen : s.type = "claim"}}]
    /\ call' = [call EXCEPT ![a] = [stage |-> "granted", id |-> id]]
    /\ UNCHANGED <<log, now, plan, detector, deletes, kept, lost>>

ClaimAppend(a) ==
    /\ call[a].stage = "granted"
    /\ Append1("claim", call[a].id, a)
    /\ call' = [call EXCEPT ![a] = Idle]
    /\ UNCHANGED <<now, claims, plan, detector, deletes, witnessed, kept, lost>>

\* A provider error, a cancelled request or a dead client: nothing is appended,
\* and nobody learns the identifier.
Forget(agents) ==
    LET dropped == {call[a].id : a \in {b \in agents : call[b].stage = "granted"}}
    IN  /\ call' = [a \in Agents |-> IF a \in agents THEN Idle ELSE call[a]]
        /\ claims' = [id \in ClaimIds |-> IF id \in dropped THEN NoClaim ELSE claims[id]]
        /\ witnessed' = [id \in ClaimIds |-> IF id \in dropped THEN {} ELSE witnessed[id]]

ClaimFails(a) ==
    /\ call[a].stage # "idle"
    /\ Forget({a})
    /\ UNCHANGED <<log, now, plan, detector, deletes, kept, lost>>

\* A Claim call has returned this identifier.
Returned(id) ==
    /\ claims[id] # NoClaim
    /\ \A a \in Agents : call[a].stage = "granted" => call[a].id # id

\* Release, Transfer, Heartbeat and UpdateIntent append a row with no agent_id;
\* none of them looks at the claim or at who asks.
Post(type, id) ==
    /\ type \in Posts
    /\ Returned(id)
    /\ Append1(type, id, NoAgent)
    /\ UNCHANGED <<now, claims, call, plan, detector, deletes, witnessed, kept, lost>>

Release(id)      == Post("release", id)
Transfer(id)     == Post("transfer", id)
Heartbeat(id)    == Post("heartbeat", id)
UpdateIntent(id) == Post("intent", id)

----------------------------------------------------------------------------
\* ReleaseExpired(before): one query, then one DELETE per offset.  The time is
\* taken to be the present or an earlier one; with a later one the caller of
\* POST /expire asks for claims in force to be deleted.

Expired(id, t) == Deadline(id) < t

\* A table that loses rows takes them from what the sweeps' queries saw; a sweep
\* that is over has nothing to hold.
KeepRows == kept' = [s \in Sweepers |-> IF plan'[s] = {} THEN {} ELSE kept[s] \cap log']

Query(s, rows) ==
    /\ SweepDeletes
    /\ plan[s] = {}
    /\ plan' = [plan EXCEPT ![s] = {r.offset : r \in rows}]
    /\ kept' = [kept EXCEPT ![s] = IF rows = {} THEN {} ELSE log]
    /\ UNCHANGED <<log, now, claims, call, detector, deletes, witnessed, lost>>

\* Variants: the query takes every message about an expired claim; it leaves out
\* claims that were released.
SweepScan_allTypes(s, before) == Query(s, {r \in log : Expired(r.id, before)})

SweepScan_unreleased(s, before) ==
    Query(s, {r \in log : r.type = "claim" /\ Expired(r.id, before) /\ ~Released(log, r)})

SweepScan(s, before) == Query(s, {r \in log : r.type = "claim" /\ Expired(r.id, before)})

DeleteRows(s, o, rows) ==
    /\ log' = log \ rows
    /\ plan' = [plan EXCEPT ![s] = @ \ {o}]
    /\ KeepRows
    /\ lost' = lost \cup {id \in ClaimIds : \E r \in rows : Ends(r, id)}
    /\ UNCHANGED <<now, claims, call, detector, deletes, witnessed>>

\* Variant: the table is cut at the expired claim.
SweepDelete_truncates(s) ==
    \E o \in plan[s] : DeleteRows(s, o, {r \in log : r.offset >= o})

\* DELETE ... WHERE namespace = ? AND offset = ?: whatever has this number now.
SweepDelete(s) == \E o \in plan[s] : DeleteRows(s, o, {r \in log : r.offset = o})

\* A failed DELETE ends the sweep; its caller ignores or reports the error.
SweepFails(s) ==
    /\ plan[s] # {}
    /\ plan' = [plan EXCEPT ![s] = {}]
    /\ UNCHANGED <<log, now, claims, call, detector, deletes, witnessed, lost>>
    /\ KeepRows

----------------------------------------------------------------------------
\* The death detector: list the active claims, then per agent read LastSeen
\* and, if it is too old, release what was listed, one Append per claim.

DetectorIdle == [at |-> 0, listed |-> {}, condemned |-> {}]

DetectorScan ==
    /\ AgentTimeout > 0
    /\ detector.listed = {} /\ detector.condemned = {}
    /\ detector' = [at |-> now, listed |-> {id \in ClaimIds : Active(id)}, condemned |-> {}]
    /\ UNCHANGED <<log, now, claims, call, plan, deletes, witnessed, kept, lost>>

\* Variant: the first row counts, not the last.
Silent_first(a) == \E r \in log : r.agent = a /\ r.ts + AgentTimeout < detector.at

\* Some row carries the agent's id and the latest of them is older than the timeout.
Silent(a) ==
    /\ \E r \in log : r.agent = a
    /\ \A r \in log : r.agent = a => r.ts + AgentTimeout < detector.at

\* If the agent's state cannot be read, its claims are passed over.
DetectorJudge(a) ==
    LET mine == {id \in detector.listed : claims[id].agent = a}
    IN  /\ detector.condemned = {}
        /\ mine # {}
        /\ \E dead \in {FALSE, Silent(a)} :
               detector' = [detector EXCEPT !.listed = @ \ mine,
                                            !.condemned = IF dead THEN mine ELSE {}]
        /\ UNCHANGED <<log, now, claims, call, plan, deletes, witnessed, kept, lost>>

\* A failed Append is logged and the next claim taken.
DetectorRelease(id) ==
    /\ id \in detector.condemned
    /\ detector' = [detector EXCEPT !.condemned = @ \ {id}]
    /\ Append1("release", id, claims[id].agent) \/ UNCHANGED log
    /\ UNCHANGED <<now, claims, call, plan, deletes, witnessed, kept, lost>>

----------------------------------------------------------------------------
\* Variant: the claim rows are left behind.
DeleteNamespace_keepsClaims ==
    /\ deletes < MaxDeletes
    /\ deletes' = deletes + 1
    /\ log' = {r \in log : r.type = "claim"}
    /\ UNCHANGED <<now, claims, call, plan, detector, witnessed, lost>>
    /\ KeepRows

\* DeleteNamespace: every row goes in one transaction; ids and offsets restart.
DeleteNamespace ==
    /\ deletes < MaxDeletes
    /\ deletes' = deletes + 1
    /\ log' = {}
    /\ UNCHANGED <<now, claims, call, plan, detector, witnessed, lost>>
    /\ KeepRows

\* The serving process dies and starts again; memory loses the table with it.
Restart ==
    /\ Forget(Agents)
    /\ plan' = [s \in Sweepers |-> {}]
    /\ detector' = DetectorIdle
    /\ log' = IF Provider = "memory" THEN {} ELSE log
    /\ KeepRows
    /\ UNCHANGED <<now, deletes, lost>>

Tick ==
    /\ now < MaxTime
    /\ now' = now + 1
    /\ UNCHANGED <<log, claims, call, plan, detector, deletes, witnessed, kept, lost>>

Init ==
    /\ log = {}
    /\ now = 1
    /\ claims = [id \in ClaimIds |-> NoClaim]
    /\ call = [a \in Agents |-> Idle]
    /\ plan = [s \in Sweepers |-> {}]
    /\ detector = DetectorIdle
    /\ deletes = 0
    /\ witnessed = [id \in ClaimIds |-> {}]
    /\ kept = [s \in Sweepers |-> {}]
    /\ lost = {}

ClientStep ==
    \/ \E a \in Agents, req \in Requests : ClaimRead(a, req)
    \/ \E a \in Agents : ClaimDenied(a)
    \/ \E a \in Agents, id \in ClaimIds : ClaimGranted(a, id)
    \/ \E a \in Agents : ClaimAppend(a)
    \/ \E a \in Agents : ClaimFails(a)
    \/ \E id \in ClaimIds : Release(id) \/ Transfer(id) \/ Heartbeat(id) \/ UpdateIntent(id)

SweepStep ==
    \E s \in Sweepers :
        \/ \E before \in 0..now : SweepScan(s, before)
        \/ SweepDelete(s)
        \/ SweepFails(s)

DetectorStep ==
    \/ DetectorScan
    \/ \E a \in Agents : DetectorJudge(a)
    \/ \E id \in ClaimIds : DetectorRelease(id)

Next == ClientStep \/ SweepStep \/ DetectorStep \/ DeleteNamespace \/ Restart \/ Tick

Spec == Init /\ [][Next]_vars

\* Assumed of the background work: the ticker of RunSweeper comes round again
\* with a fresh time, and a DELETE that can be tried again and again, across
\* failures and restarts, succeeds at last.  Nothing is assumed of agents, nor of
\* who calls POST /expire.
Fairness ==
    \A s \in Tickers : WF_vars(SweepScan(s, now)) /\ SF_vars(SweepDelete(s))

FairSpec == Spec /\ Fairness

----------------------------------------------------------------------------
\* Properties.

Conflicts(id, other) == CheckConflict(claims[id], {claims[other]}) # {}

\* ReleaseExpired is called by the ticker and by POST /expire at once, and while the
\* namespace is deleted, and deletes by numbers that its query read and that are given
\* out again.  A sweep takes a row that is no expired claim only if the row came after
\* its query: nothing the query saw is left from that number on
\* (sqlite.go:422-459, server.go:271-285, sweeper_native.go:14-29).
SweepTakesOnlyNew ==
    [][ \A r \in log \ log' :
            \/ r.type = "claim" /\ Expired(r.id, now)
            \/ log' = {} /\ (deletes' # deletes \/ Provider = "memory")
            \/ \E s \in Sweepers : r.offset \in plan[s] /\ \A k \in kept[s] : k.offset < r.offset ]_vars

\* A sweep that still holds the number of a release or transfer of the claim deletes it.
StaleDelete(id) ==
    \E s \in Sweepers : \E r \in log \ log' : Ends(r, id) /\ r.offset \in plan[s]

\* A claim that was released, transferred, swept or is out of time never comes
\* back into force, whatever is appended, deleted or restarted afterwards, except in
\* the one step in which a stale DELETE takes its release
\* (FilterActiveClaims, activeclaims.go:54-105; sqlite.go:422-459).
EndedForGood ==
    [][ \A id \in ClaimIds :
            Returned(id) /\ ~Active(id) /\ Active(id)' => StaleDelete(id) ]_vars

\* With heartbeats in sight (memory), a claim out of time does come back, but only
\* by a heartbeat of its own: a released or transferred claim never does, unless
\* its release is deleted, which memory never does (activeclaims.go:54-105).
RevivedOnlyByHeartbeat ==
    [][ \A id \in ClaimIds :
            Returned(id) /\ ~Active(id) /\ Active(id)'
                => \/ StaleDelete(id)
                   \/ /\ \E h \in log' \ log : h.type = "heartbeat" /\ h.id = id
                      /\ ~\E r \in log : Ends(r, id) ]_vars

\* Of the claims Client.Claim saw a row of before it granted a conflicting one
\* (client.go:34-68), none is in force from then on: two conflicting claims can
\* only be in force together if neither call saw the other's row, or if a stale
\* DELETE has taken the release of one.
NoLateConflict ==
    \A id \in ClaimIds : \A other \in witnessed[id] \ lost :
        Conflicts(id, other) => ~Active(other)

\* Of an agent whose claims the death detector is about to end there is no row from
\* within the agent timeout before the round began, and the claims still in force
\* were made before that, although the round judges each agent later than it listed
\* its claims (cmd_serve.go:131-179).  Rows with an agent's id are its claims and the
\* releases the detector appends for it: a heartbeat carries no agent_id
\* (client.go:85), so one that is sent in time saves nobody, although the text of the
\* flag (cmd_serve.go:39) and the design say that it does; see HeartbeatsKeepAgent.
DetectorSparesHeard ==
    \A id \in detector.condemned :
        /\ \A r \in log : r.agent = claims[id].agent /\ r.ts < detector.at
                              => r.ts + AgentTimeout < detector.at
        /\ Active(id) => claims[id].created + AgentTimeout < detector.at

\* The rows of a claim past its deadline do not stay in the table for ever
\* (RunSweeper, sweeper_native.go).
ExpiredGetSwept ==
    \A id \in ClaimIds :
        (\E r \in log : r.type = "claim" /\ r.id = id /\ Expired(id, now))
            ~> ~(\E r \in log : r.type = "claim" /\ r.id = id)

----------------------------------------------------------------------------
\* The promise of the table: Leases, with the claims in force, those that were, and
\* what each agent that is asking has read.

InForce == {id \in ClaimIds : Active(id)}
Ended == {id \in ClaimIds : Returned(id) /\ ~Active(id)}
Asking == {a \in Agents : call[a].stage = "read"}
ClaimRows(rows) == {r.id : r \in {c \in rows : c.type = "claim"}}
ViewOf == [a \in Agents |-> IF a \in Asking THEN ClaimRows(call[a].seen) ELSE {}]
Refused(new, held) == CheckConflict(new, {held}) # {}

Promise == INSTANCE Leases WITH
    Clashes <- Refused, terms <- claims, open <- InForce, over <- Ended,
    asking <- Asking, view <- ViewOf, saw <- witnessed

\* With an append-only table of the SQL providers and no lock, agents are promised what
\* Leases says: who asks is shown every claim in force, takes none that clashes with one
\* that still is, and what has ended is over for good, whatever sweeps, detectors,
\* failures and restarts come between (client.go:34-68, activeclaims.go:54-105).
ImplementsLeases == Promise!Spec

----------------------------------------------------------------------------
\* What documents and comments say and the code does not do.

\* README.md:138 "Lock a resource for exclusive access".
Exclusive ==
    \A i, j \in ClaimIds :
        i # j /\ Active(i) /\ Active(j) => ~(Conflicts(i, j) /\ Conflicts(j, i))

\* PRODUCTION_READINESS.md:34 "Keep a claim alive (extends TTL)": a claim that
\* got a heartbeat in time and no release is active until the TTL runs again.
HeartbeatExtends ==
    \A h \in log :
        ( /\ h.type = "heartbeat" /\ h.ts <= Deadline(h.id)
          /\ now <= h.ts + claims[h.id].ttl
          /\ ~(\E r \in log : Ends(r, h.id)) )
        => Active(h.id)

\* cmd_serve.go:39 "Seconds without heartbeat before agent is declared dead": a
\* claim that got a heartbeat within the timeout is not ended by the detector.
HeartbeatsKeepAgent ==
    \A id \in detector.condemned : \A h \in log :
        h.type = "heartbeat" /\ h.id = id /\ Active(id) /\ h.ts < detector.at
            => h.ts + AgentTimeout < detector.at

\* sqlite.go:449 "Delete expired claims": a sweep deletes no claim in force.
SweepSparesLive ==
    [][ \A r \in log \ log' :
            r.type = "claim" /\ deletes' = deletes => Expired(r.id, now) ]_vars
=============================================================================
