------------------------------- MODULE Mailbox -------------------------------
(***************************************************************************)
(* The mailbox: messages that agents send each other through POST /message or *)
(* the A2A skill send_mailbox, that the hooks look for before every tool, and  *)
(* that agents mark as read or archive.  Nothing deletes a message when it has *)
(* expired unless Service.Expire is called; GetMailbox leaves it out.          *)
(*                                                                           *)
(* A definition whose name ends in an underscored word is a faulty variant of *)
(* the one it precedes.                                                      *)
(*                                                                           *)
(* Sources: internal/mailbox, internal/server/mailbox_handlers.go, the mailbox *)
(* functions of the providers, internal/a2a/handler_skills.go and mapper.go,   *)
(* checkCriticalMailbox of sdk/.                                              *)
(***************************************************************************)
EXTENDS Naturals, FiniteSets

CONSTANTS
  Providers,   \* the providers considered
  Agents,
  MaxSends,    \* bound: messages stored
  TTL,         \* time to live of a message (300 s)
  MaxTime      \* bound: the last instant

ASSUME MailboxConstants ==
    /\ Providers \subseteq {"memory", "sqlite", "postgres", "d1", "managed"}
    /\ "broadcast" \notin Agents
    /\ MaxSends \in Nat /\ TTL \in Nat \ {0} /\ MaxTime \in Nat

VARIABLES
  provider,   \* the provider of this deployment; no action changes it
  box,        \* the rows of mailbox_messages
  now,        \* the clock
  sends,      \* how many messages were ever stored
  told,       \* history: the messages each agent was ever shown
  tool,       \* whether the agent's last check for critical mail let its tool run
  acked,      \* history: messages whose read or archive request was carried out
  refused     \* history: the table refused a message of the A2A skill

mailVars == <<box, now, sends, told, tool, acked, refused>>
vars == <<provider, mailVars>>

Broadcast == "broadcast"
NoId == 0    \* the message id that the skill leaves empty

\* A message is known by the order in which it was stored; its id is its own,
\* unless the skill sent it.
Message == [no : 1..MaxSends, id : 0..MaxSends, to : Agents \cup {Broadcast},
            critical : BOOLEAN, expires : 0..MaxTime, read : BOOLEAN, archived : BOOLEAN]

\* Types, and one row per message id in the tables that have it as their key.
TypeOK ==
    /\ provider \in Providers
    /\ box \subseteq Message
    /\ now \in 0..MaxTime /\ sends \in 0..MaxSends
    /\ told \in [Agents -> SUBSET (1..sends)]
    /\ tool \in [Agents -> {"runs", "stopped"}]
    /\ acked \subseteq 1..sends
    /\ refused \in BOOLEAN
    /\ \A r, q \in box : r.id = q.id /\ provider # "memory" => r = q

----------------------------------------------------------------------------
\* SendMessage.  The bound leaves time for a message to expire.
Store(id, to, critical) ==
    /\ sends < MaxSends /\ now + TTL < MaxTime
    /\ sends' = sends + 1
    /\ box' = box \cup {[no |-> sends + 1, id |-> id, to |-> to, critical |-> critical,
                         expires |-> now + TTL, read |-> FALSE, archived |-> FALSE]}

\* POST /message: Service.Send gives the message an id.  With the managed provider
\* it is a client of the remote server: the provider's own SendMessage is refused
\* there, its body names no namespace.
Send(to, critical) ==
    /\ Store(sends + 1, to, critical)
    /\ UNCHANGED <<provider, now, told, tool, acked, refused>>

\* Variant: the row of a message with the same id is no obstacle.
KeyTaken_never == FALSE

\* The skill gives it none.
KeyTaken == provider # "memory" /\ \E r \in box : r.id = NoId

SkillSend(to, critical) ==
    /\ provider # "managed"
    /\ ~KeyTaken
    /\ Store(NoId, to, critical)
    /\ UNCHANGED <<provider, now, told, tool, acked, refused>>

SkillSendRefused ==
    /\ provider # "managed"
    /\ KeyTaken
    /\ refused' = TRUE
    /\ UNCHANGED <<provider, box, now, sends, told, tool, acked>>

\* Variant: as in d1, expired messages are shown.
Unexpired_always(r) == TRUE

\* A message is shown in its last instant, which is a second where sqlite compares
\* texts, and which postgres leaves out; d1 shows it always.  The server behind a
\* managed provider is taken to be postgres.
Unexpired(r) == CASE provider \in {"memory", "sqlite"} -> r.expires >= now
                  [] provider = "d1" -> TRUE
                  [] OTHER -> r.expires > now

\* Variant: the addressee is left out of the query.
Addressed_any(r, a) == TRUE

Addressed(r, a) == r.to \in {a, Broadcast}

\* GetMailbox, all of it or what is not read.
Mailbox(a) == {r \in box : Addressed(r, a) /\ ~r.archived /\ Unexpired(r)}
Unread(a) == {r \in Mailbox(a) : ~r.read}

Numbers(messages) == {r.no : r \in messages}

Show(a, messages) == told' = [told EXCEPT ![a] = @ \cup Numbers(messages)]

GetMailbox(a) ==
    /\ Show(a, Mailbox(a)) \/ Show(a, Unread(a))
    /\ UNCHANGED <<provider, box, now, sends, tool, acked, refused>>

\* The hook, before a tool: a critical message stops it and is shown to the agent.
CheckCriticalMailbox(a) ==
    LET critical == {r \in Unread(a) : r.critical}
    IN /\ tool' = [tool EXCEPT ![a] = IF critical = {} THEN "runs" ELSE "stopped"]
       /\ Show(a, critical)
       /\ UNCHANGED <<provider, box, now, sends, acked, refused>>

\* A mailbox that cannot be read stops nothing.
CheckFails(a) ==
    /\ tool' = [tool EXCEPT ![a] = "runs"]
    /\ UNCHANGED <<provider, box, now, sends, told, acked, refused>>

\* The rows that a request for an id changes: memory stops at the first.
Named(id) == {r \in box : /\ r.id = id
                          /\ provider = "memory" => \A q \in box : q.id = id => r.no <= q.no}

\* Variant: a copy of the row is marked.
MarkRead_copy(a, r) ==
    /\ r.no \in told[a]
    /\ acked' = acked \cup {r.no}
    /\ UNCHANGED <<provider, box, now, sends, told, tool, refused>>

\* An agent asks for a message it was shown; nobody checks that it was sent to it.
\* The sender, who is told the id as well, is assumed to leave the message alone.
\* What is gone is an error in memory, and nothing in SQL.
MarkRead(a, r) ==
    /\ r.no \in told[a]
    /\ box' = (box \ Named(r.id)) \cup {[q EXCEPT !.read = TRUE] : q \in Named(r.id)}
    /\ acked' = acked \cup {r.no}
    /\ UNCHANGED <<provider, now, sends, told, tool, refused>>

ArchiveMessage(a, r) ==
    /\ r.no \in told[a]
    /\ box' = (box \ Named(r.id)) \cup {[q EXCEPT !.archived = TRUE] : q \in Named(r.id)}
    /\ acked' = acked \cup {r.no}
    /\ UNCHANGED <<provider, now, sends, told, tool, refused>>

\* Service.Expire, which no one calls; the managed provider leaves it to the server.
ExpireMessages ==
    /\ box' = IF provider = "managed" THEN box ELSE {r \in box : r.expires >= now}
    /\ UNCHANGED <<provider, now, sends, told, tool, acked, refused>>

Tick ==
    /\ now < MaxTime
    /\ now' = now + 1
    /\ UNCHANGED <<provider, box, sends, told, tool, acked, refused>>

DeleteNamespace ==
    /\ box' = {}
    /\ UNCHANGED <<provider, now, sends, told, tool, acked, refused>>

\* What memory has is gone; the tables, and the agents, stay.
Restart ==
    /\ box' = IF provider = "memory" THEN {} ELSE box
    /\ UNCHANGED <<provider, now, sends, told, tool, acked, refused>>

Init ==
    /\ provider \in Providers
    /\ box = {} /\ now = 0 /\ sends = 0
    /\ told = [a \in Agents |-> {}]
    /\ tool = [a \in Agents |-> "runs"]
    /\ acked = {} /\ refused = FALSE

Post ==
    \/ \E to \in Agents \cup {Broadcast}, critical \in BOOLEAN :
           Send(to, critical) \/ SkillSend(to, critical)
    \/ SkillSendRefused
    \/ \E a \in Agents, r \in box : MarkRead(a, r) \/ ArchiveMessage(a, r)

Step ==
    \/ Post
    \/ \E a \in Agents : GetMailbox(a) \/ CheckCriticalMailbox(a) \/ CheckFails(a)
    \/ ExpireMessages
    \/ Tick

Next == Step \/ DeleteNamespace \/ Restart

Spec == Init /\ [][Next]_vars

\* The clock runs, and an agent that is stopped tries again.
FairSpec ==
    /\ Spec
    /\ WF_vars(Tick)
    /\ \A a \in Agents : WF_vars(CheckCriticalMailbox(a))

----------------------------------------------------------------------------
\* Properties.

\* A message to one agent stays unread and in the mailbox until that agent was shown
\* it: as long as agents ask for their own mailbox, which nobody checks (GET /mailbox,
\* mailbox_handlers.go:70-75), no other can come to know its id.  The messages of the
\* skill have one id (memory.go:181-229, sqlite.go:476-523).
DirectReaches ==
    \A r \in box : r.to \in Agents /\ r.no \notin told[r.to] /\ r.id # NoId
        => ~r.read /\ ~r.archived

\* What was marked as read or archived is not shown as unread again to anyone, whatever
\* is sent, expires or restarts meanwhile (memory.go:206-229, sqlite.go:511-523).
AckedStaysRead ==
    \A a \in Agents : \A r \in Unread(a) : r.no \in acked => r.id = NoId

\* An agent that a critical message stopped gets to use its tools again, although
\* nobody marks the message as read: it expires (hooks.ts:48-59, mailbox.go:36-38),
\* except with d1, and no more than MaxSends are sent.
NotStoppedForGood ==
    \A a \in Agents : (tool[a] # "runs" /\ provider # "d1") ~> (tool[a] = "runs")

\* What docs/superpowers/specs/2026-05-26-a2a-adapter-design.md:527 says of the skill:
\* "`tasks/send` with `send_mailbox` delivers a message".
SkillDelivers == ~refused

\* What PRODUCTION_READINESS.md:170 says of a broadcast: "a message sent to every
\* connected agent".
BroadcastReaches ==
    \A r \in box, a \in Agents :
        r.to = Broadcast /\ r.no \notin told[a] /\ Unexpired(r) => r \in Unread(a)

\* What the comment at server.go:268-269 says: "expired messages are filtered at query
\* time".
ExpiredHidden == \A a \in Agents : \A r \in Unread(a) : r.expires >= now
=============================================================================
