--------------------------- MODULE Mailbox_proofs ---------------------------
(***************************************************************************)
(* Proofs about Mailbox, for any agents, bounds and times to live: nobody    *)
(* but its addressee takes a message out of the unread mail, and what was     *)
(* taken out stays out.                                                      *)
(*                                                                           *)
(* The invariant behind both says that a message other than the skill's has   *)
(* an id of its own, and that those who were shown it were addressed by it.   *)
(***************************************************************************)
EXTENDS Mailbox, TLAPS

USE MailboxConstants

Numbered == \A r \in box : r.no \in 1..sends

OwnNumber == \A r, q \in box : r.no = q.no => r = q

OwnId == \A r \in box : r.id # NoId => r.id = r.no

ToldAddressed == \A r \in box, a \in Agents : r.no \in told[a] => r.to \in {a, Broadcast}

AckedGone == \A r \in box : r.no \in acked /\ r.id # NoId => r.read \/ r.archived

IInv ==
    /\ TypeOK
    /\ Numbered /\ OwnNumber /\ OwnId
    /\ ToldAddressed
    /\ DirectReaches
    /\ AckedGone

LEMMA InitIInv == Init => IInv
<1> SUFFICES ASSUME Init PROVE IInv
  OBVIOUS
<1>1. box = {} /\ sends = 0 /\ now = 0 /\ acked = {} /\ refused = FALSE /\ provider \in Providers
  BY DEF Init
<1>2. told = [a \in Agents |-> {}] /\ tool = [a \in Agents |-> "runs"]
  BY DEF Init
<1>3. TypeOK
  <2>1. told \in [Agents -> SUBSET (1..sends)] /\ tool \in [Agents -> {"runs", "stopped"}]
    BY <1>2
  <2>2. now \in 0..MaxTime /\ sends \in 0..MaxSends
    BY <1>1
  <2> QED
    BY <1>1, <2>1, <2>2 DEF TypeOK
<1> QED
  BY <1>1, <1>3 DEF IInv, Numbered, OwnNumber, OwnId, ToldAddressed, DirectReaches, AckedGone

\* A new message has a number that no row has and no agent was told, and an id that
\* is its number or, if no row has it yet, none (mailbox.go:37-48, mapper.go:50-57).
LEMMA StoreIInv ==
    ASSUME IInv, NEW id, NEW to \in Agents \cup {Broadcast}, NEW critical \in BOOLEAN,
           id = sends + 1 \/ (id = NoId /\ ~KeyTaken),
           Store(id, to, critical), UNCHANGED <<provider, now, told, tool, acked, refused>>
    PROVE  IInv'
<1> DEFINE new == [no |-> sends + 1, id |-> id, to |-> to, critical |-> critical,
                   expires |-> now + TTL, read |-> FALSE, archived |-> FALSE]
<1>1. box' = box \cup {new} /\ sends' = sends + 1 /\ sends < MaxSends /\ now + TTL < MaxTime
  BY DEF Store
<1>2. sends \in Nat /\ now \in Nat /\ box \subseteq Message
  BY DEF IInv, TypeOK
<1>3. new \in Message
  BY <1>1, <1>2 DEF Message, NoId
<1>n. new.no = sends + 1 /\ new.id = id /\ new.to = to /\ ~new.read /\ ~new.archived
  OBVIOUS
<1> HIDE DEF new
<1>4. \A r \in box : r.no \in 1..sends /\ r.no # sends + 1
  BY <1>2 DEF IInv, Numbered
<1>5. \A a \in Agents : sends + 1 \notin told[a]
  BY <1>2 DEF IInv, TypeOK
<1>6. sends + 1 \notin acked
  BY <1>2 DEF IInv, TypeOK
<1>7. \A r \in box : r.id = id /\ provider # "memory" => FALSE
  <2>1. CASE id = NoId /\ ~KeyTaken
    BY <2>1 DEF KeyTaken
  <2>2. CASE id = sends + 1
    <3>1. \A r \in box : r.id \in {NoId, r.no}
      BY DEF IInv, OwnId
    <3> QED
      BY <3>1, <2>2, <1>2, <1>4 DEF NoId
  <2> QED
    BY <2>1, <2>2
<1>8. TypeOK'
  <2>1. box' \subseteq Message
    BY <1>1, <1>2, <1>3
  <2>s. sends' \in 0..MaxSends
    BY <1>1, <1>2
  <2>2. told \in [Agents -> SUBSET (1..sends')] /\ acked \subseteq 1..sends'
    BY <1>1, <1>2 DEF IInv, TypeOK
  <2>3. \A r, q \in box' : r.id = q.id /\ provider # "memory" => r = q
    <3>1. \A r, q \in box : r.id = q.id /\ provider # "memory" => r = q
      BY DEF IInv, TypeOK
    <3> QED
      BY <3>1, <1>n, <1>1, <1>7
  <2> QED
    BY <2>1, <2>s, <2>2, <2>3 DEF IInv, TypeOK
<1>9. Numbered' /\ OwnNumber' /\ OwnId'
  <2>1. \A r \in box' : r = new \/ r \in box
    BY <1>1
  <2>2. Numbered'
    BY <2>1, <1>1, <1>n, <1>2, <1>4 DEF Numbered
  <2>3. OwnNumber'
    BY <2>1, <1>n, <1>4 DEF IInv, OwnNumber
  <2>4. OwnId'
    BY <2>1, <1>n DEF IInv, OwnId, KeyTaken
  <2> QED
    BY <2>2, <2>3, <2>4
<1>10. ToldAddressed' /\ DirectReaches' /\ AckedGone'
  BY <1>1, <1>n, <1>5, <1>6 DEF IInv, ToldAddressed, DirectReaches, AckedGone
<1> QED
  BY <1>8, <1>9, <1>10 DEF IInv

\* Rows that are only deleted (memory.go:232-243, sqlite.go:525-530).
LEMMA FewerIInv ==
    ASSUME IInv, box' \subseteq box, UNCHANGED <<provider, sends, told, acked, refused>>,
           now' \in 0..MaxTime, tool' \in [Agents -> {"runs", "stopped"}]
    PROVE  IInv'
<1>1. TypeOK'
  BY DEF IInv, TypeOK
<1>2. Numbered' /\ OwnNumber' /\ OwnId'
  BY DEF IInv, Numbered, OwnNumber, OwnId
<1>3. ToldAddressed' /\ DirectReaches' /\ AckedGone'
  BY DEF IInv, ToldAddressed, DirectReaches, AckedGone
<1> QED
  BY <1>1, <1>2, <1>3 DEF IInv

\* An agent is shown messages that are addressed to it (sqlite.go:476-508).
LEMMA ShowIInv ==
    ASSUME IInv, NEW a \in Agents, NEW messages \in SUBSET Mailbox(a), Show(a, messages),
           UNCHANGED <<provider, box, now, sends, acked, refused>>,
           tool' \in [Agents -> {"runs", "stopped"}]
    PROVE  IInv'
<1>1. \A r \in messages : r \in box /\ Addressed(r, a)
  BY DEF Mailbox
<1>2. Numbers(messages) \subseteq 1..sends
  BY <1>1 DEF Numbers, IInv, Numbered
<1>3. /\ told' \in [Agents -> SUBSET (1..sends)]
      /\ told'[a] = told[a] \cup Numbers(messages)
      /\ \A b \in Agents \ {a} : told'[b] = told[b]
  BY <1>2 DEF Show, IInv, TypeOK
<1>4. TypeOK'
  BY <1>3 DEF IInv, TypeOK
<1>5. ToldAddressed'
  <2> SUFFICES ASSUME NEW r \in box, NEW b \in Agents, r.no \in told'[b]
               PROVE  r.to \in {b, Broadcast}
    BY DEF ToldAddressed
  <2>1. CASE r.no \in told[b]
    BY <2>1 DEF IInv, ToldAddressed
  <2>2. CASE b = a /\ r.no \in Numbers(messages)
    <3>1. r \in messages
      BY <2>2, <1>1 DEF Numbers, IInv, OwnNumber
    <3> QED
      BY <3>1, <2>2, <1>1 DEF Addressed
  <2> QED
    BY <2>1, <2>2, <1>3
<1>6. DirectReaches'
  BY <1>3 DEF IInv, DirectReaches
<1>7. Numbered' /\ OwnNumber' /\ OwnId' /\ AckedGone'
  BY DEF IInv, Numbered, OwnNumber, OwnId, AckedGone
<1> QED
  BY <1>4, <1>5, <1>6, <1>7 DEF IInv

\* A request that names an id changes the row of one message, which the agent was
\* shown, or rows of the skill (memory.go:206-229, sqlite.go:511-523).
LEMMA AckIInv ==
    ASSUME IInv, NEW a \in Agents, NEW r \in box, MarkRead(a, r) \/ ArchiveMessage(a, r)
    PROVE  IInv'
<1> DEFINE Marked(q) == IF MarkRead(a, r) THEN [q EXCEPT !.read = TRUE]
                                          ELSE [q EXCEPT !.archived = TRUE]
<1>1. /\ r.no \in told[a]
      /\ box' = (box \ Named(r.id)) \cup {Marked(q) : q \in Named(r.id)}
      /\ acked' = acked \cup {r.no}
      /\ UNCHANGED <<provider, now, sends, told, tool, refused>>
  BY DEF MarkRead, ArchiveMessage
<1>2. Named(r.id) \subseteq box
  BY DEF Named
<1>3. \A q \in box : /\ Marked(q) \in Message
                     /\ Marked(q).no = q.no /\ Marked(q).id = q.id /\ Marked(q).to = q.to
                     /\ Marked(q).read \/ Marked(q).archived
                     /\ q.read => Marked(q).read
                     /\ q.archived => Marked(q).archived
  <2> SUFFICES ASSUME NEW q \in box
               PROVE  /\ Marked(q) \in Message
                      /\ Marked(q).no = q.no /\ Marked(q).id = q.id /\ Marked(q).to = q.to
                      /\ Marked(q).read \/ Marked(q).archived
                      /\ q.read => Marked(q).read
                      /\ q.archived => Marked(q).archived
    OBVIOUS
  <2>1. q \in Message
    BY DEF IInv, TypeOK
  <2>2. CASE Marked(q) = [q EXCEPT !.read = TRUE]
    BY <2>1, <2>2 DEF Message
  <2>3. CASE Marked(q) = [q EXCEPT !.archived = TRUE]
    BY <2>1, <2>3 DEF Message
  <2> QED
    BY <2>2, <2>3
<1> HIDE DEF Marked
<1> DEFINE From(p, q) == \/ p = q /\ q \notin Named(r.id)
                         \/ p = Marked(q) /\ q \in Named(r.id)
<1>4. \A p \in box' : \E q \in box : From(p, q)
  <2>1. \A p \in {Marked(q) : q \in Named(r.id)} : \E q \in box : p = Marked(q) /\ q \in Named(r.id)
    BY <1>2
  <2>2. \A p \in box' : p \in box \ Named(r.id) \/ p \in {Marked(q) : q \in Named(r.id)}
    BY <1>1
  <2> QED
    BY <2>1, <2>2
<1>5. ASSUME NEW q \in box, q.id = r.id, q.id # NoId
      PROVE  q = r
  BY <1>5 DEF IInv, OwnId, OwnNumber
<1>6. r.id # NoId => r \in Named(r.id)
  <2>1. r.no \in Nat
    BY DEF IInv, TypeOK, Message
  <2> QED
    BY <2>1, <1>5 DEF Named
<1>7. TypeOK'
  <2>1. box' \subseteq Message
    BY <1>3, <1>4 DEF IInv, TypeOK
  <2>2. \A p, q \in box' : p.id = q.id /\ provider # "memory" => p = q
    <3> SUFFICES ASSUME NEW p \in box', NEW q \in box', p.id = q.id, provider # "memory"
                 PROVE  p = q
      OBVIOUS
    <3>1. PICK p1 \in box : From(p, p1)
      BY <1>4
    <3>2. PICK q1 \in box : From(q, q1)
      BY <1>4
    <3>3. p1.id = q1.id
      BY <3>1, <3>2, <1>3
    <3>4. p1 = q1
      BY <3>3 DEF IInv, TypeOK
    <3> QED
      BY <3>1, <3>2, <3>4
  <2>3. acked' \subseteq 1..sends
    BY <1>1 DEF IInv, TypeOK, Numbered
  <2> QED
    BY <2>1, <2>2, <2>3, <1>1 DEF IInv, TypeOK
<1>8. Numbered' /\ OwnId'
  BY <1>1, <1>3, <1>4 DEF IInv, Numbered, OwnId
<1>9. OwnNumber'
  <2> SUFFICES ASSUME NEW p \in box', NEW q \in box', p.no = q.no
               PROVE  p = q
    BY DEF OwnNumber
  <2>1. PICK p1 \in box : From(p, p1)
    BY <1>4
  <2>2. PICK q1 \in box : From(q, q1)
    BY <1>4
  <2>3. p1 = q1
    BY <2>1, <2>2, <1>3 DEF IInv, OwnNumber
  <2> QED
    BY <2>1, <2>2, <2>3
<1>10. ToldAddressed'
  BY <1>1, <1>3, <1>4 DEF IInv, ToldAddressed
<1>11. DirectReaches'
  <2> SUFFICES ASSUME NEW p \in box', p.to \in Agents, p.no \notin told[p.to], p.id # NoId
               PROVE  ~p.read /\ ~p.archived
    BY <1>1 DEF DirectReaches
  <2>1. PICK q \in box : From(p, q)
    BY <1>4
  <2>2. q.to = p.to /\ q.no = p.no /\ q.id = p.id
    BY <2>1, <1>3
  <2>3. q \notin Named(r.id)
    <3> SUFFICES ASSUME q \in Named(r.id) PROVE FALSE
      OBVIOUS
    <3>1. q = r
      BY <2>2, <1>5 DEF Named
    <3>2. r.to \in {a, Broadcast}
      BY <1>1 DEF IInv, ToldAddressed
    <3> QED
      BY <3>1, <3>2, <2>2, <1>1 DEF Broadcast
  <2> QED
    BY <2>1, <2>2, <2>3 DEF IInv, DirectReaches
<1>12. AckedGone'
  <2> SUFFICES ASSUME NEW p \in box', p.no \in acked', p.id # NoId
               PROVE  p.read \/ p.archived
    BY DEF AckedGone
  <2>1. PICK q \in box : From(p, q)
    BY <1>4
  <2>2. q.no = p.no /\ q.id = p.id
    BY <2>1, <1>3
  <2>3. CASE q \in Named(r.id)
    BY <2>1, <2>3, <1>3
  <2>4. CASE q \notin Named(r.id)
    <3>1. q # r
      BY <2>2, <2>4, <1>6
    <3>2. q.no # r.no
      BY <3>1 DEF IInv, OwnNumber
    <3>3. q.no \in acked
      BY <3>2, <2>2, <1>1
    <3> QED
      BY <3>3, <2>1, <2>2, <2>4 DEF IInv, AckedGone
  <2> QED
    BY <2>3, <2>4
<1> QED
  BY <1>7, <1>8, <1>9, <1>10, <1>11, <1>12 DEF IInv

LEMMA NextIInv == IInv /\ [Next]_vars => IInv'
<1> SUFFICES ASSUME IInv, [Next]_vars PROVE IInv'
  OBVIOUS
<1>a. now \in 0..MaxTime /\ tool \in [Agents -> {"runs", "stopped"}]
  BY DEF IInv, TypeOK
<1>1. ASSUME NEW to \in Agents \cup {Broadcast}, NEW critical \in BOOLEAN,
             Send(to, critical) \/ SkillSend(to, critical)
      PROVE  IInv'
  <2>1. CASE Send(to, critical)
    BY <2>1, StoreIInv DEF Send
  <2>2. CASE SkillSend(to, critical)
    BY <2>2, StoreIInv DEF SkillSend
  <2> QED
    BY <1>1, <2>1, <2>2
<1>2. CASE SkillSendRefused
  <2>1. TypeOK'
    BY <1>2 DEF SkillSendRefused, IInv, TypeOK
  <2> QED
    BY <2>1, <1>2 DEF SkillSendRefused, IInv, Numbered, OwnNumber, OwnId, ToldAddressed,
                      DirectReaches, AckedGone
<1>3. ASSUME NEW a \in Agents, NEW r \in box, MarkRead(a, r) \/ ArchiveMessage(a, r)
      PROVE  IInv'
  BY <1>3, AckIInv
<1>4. ASSUME NEW a \in Agents, GetMailbox(a) PROVE IInv'
  <2>1. Mailbox(a) \in SUBSET Mailbox(a) /\ Unread(a) \in SUBSET Mailbox(a)
    BY DEF Unread
  <2> QED
    BY <1>4, <1>a, <2>1, ShowIInv DEF GetMailbox
<1>5. ASSUME NEW a \in Agents, CheckCriticalMailbox(a) PROVE IInv'
  <2> DEFINE critical == {r \in Unread(a) : r.critical}
  <2>1. critical \in SUBSET Mailbox(a)
    BY DEF Unread
  <2>2. /\ Show(a, critical)
        /\ UNCHANGED <<provider, box, now, sends, acked, refused>>
    BY <1>5 DEF CheckCriticalMailbox
  <2>3. tool' \in [Agents -> {"runs", "stopped"}]
    BY <1>5, <1>a DEF CheckCriticalMailbox
  <2> HIDE DEF critical
  <2> QED
    BY <2>1, <2>2, <2>3, ShowIInv
<1>6. ASSUME NEW a \in Agents, CheckFails(a) PROVE IInv'
  BY <1>6, <1>a, FewerIInv DEF CheckFails
<1>7. CASE ExpireMessages
  BY <1>7, <1>a, FewerIInv DEF ExpireMessages
<1>8. CASE Tick
  BY <1>8, <1>a, FewerIInv DEF Tick
<1>9. CASE DeleteNamespace
  BY <1>9, <1>a, FewerIInv DEF DeleteNamespace
<1>10. CASE Restart
  BY <1>10, <1>a, FewerIInv DEF Restart
<1>11. CASE UNCHANGED vars
  BY <1>11, <1>a, FewerIInv DEF vars, mailVars
<1> QED
  BY <1>1, <1>2, <1>3, <1>4, <1>5, <1>6, <1>7, <1>8, <1>9, <1>10, <1>11 DEF Next, Step, Post

LEMMA IInvHolds == Spec => []IInv
BY InitIInv, NextIInv, PTL DEF Spec

\* Types, and one row per message id in the tables that have it as their key
\* (sqlite.go:54, migrations/0001_init.sql:25).
THEOREM TypeCorrect == Spec => []TypeOK
<1>1. IInv => TypeOK
  BY DEF IInv
<1> QED
  BY <1>1, IInvHolds, PTL

\* A message to one agent is unread until that agent was shown it
\* (memory.go:181-229, sqlite.go:476-523).
THEOREM AddresseeSeesFirst == Spec => []DirectReaches
<1>1. IInv => DirectReaches
  BY DEF IInv
<1> QED
  BY <1>1, IInvHolds, PTL

\* What was marked as read or archived is not shown as unread again
\* (memory.go:206-229, sqlite.go:511-523).
THEOREM AcknowledgedOnce == Spec => []AckedStaysRead
<1>1. IInv => AckedStaysRead
  BY DEF IInv, AckedGone, AckedStaysRead, Unread, Mailbox
<1> QED
  BY <1>1, IInvHolds, PTL
=============================================================================
