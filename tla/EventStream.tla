---------------------------- MODULE EventStream ----------------------------
(***************************************************************************)
(* SubscribeEvents of the providers and GET /events: one goroutine per        *)
(* stream polls the table for rows above the last sequence number it sent and *)
(* puts them on a bounded channel, from which the HTTP handler writes to its   *)
(* response.  Writers append to the table, rows are swept, namespaces deleted. *)
(*                                                                           *)
(* In memory the goroutine holds the provider's read lock while it sends; the *)
(* SQL providers read from a cursor that shows the table as it was.           *)
(*                                                                           *)
(* What is written to the response is not yet with the client: the server     *)
(* wraps every response in a writer that cannot flush (middleware.go:64,78-86, *)
(* server.go:65-67), so handleSSE finds no http.Flusher and an event leaves    *)
(* net/http's buffer when that is full or the request ends.  Nor does the     *)
(* client learn the number of an event: only type and payload are written.    *)
(*                                                                           *)
(* A definition whose name ends in an underscored word is a faulty variant of *)
(* the one it precedes.                                                      *)
(*                                                                           *)
(* Sources: internal/memory, internal/sqlite, internal/postgres, internal/d1, *)
(* internal/server/sse.go, middleware.go.                                    *)
(***************************************************************************)
EXTENDS Naturals, Sequences, FiniteSets

CONSTANTS
  Providers,    \* the providers considered
  Streams,      \* subscriptions
  Writers,      \* concurrent callers of Append
  Cap,          \* capacity of the channel (100)
  MaxRows,      \* bound: rows ever appended
  MaxRemovals   \* bound: rows swept and namespaces deleted

ASSUME StreamConstants ==
    /\ Providers \subseteq {"memory", "sqlite", "postgres", "d1"}
    /\ Cap \in Nat \ {0} /\ MaxRows \in Nat /\ MaxRemovals \in Nat

VARIABLES
  provider,   \* the provider of this deployment; no action changes it
  table,      \* the rows in the table, each with the position it was committed at
  rows,       \* how many rows were ever committed
  removals,   \* how many removals there were
  writer,     \* what each writer is doing
  stream,     \* the goroutine of each stream
  sent,       \* the rows put on each stream's channel, in order
  read,       \* how many of them the HTTP handler has taken off and written
  arrived     \* how many of those have left the server

vars == <<provider, table, rows, removals, writer, stream, sent, read, arrived>>

\* The offset is the key of the row, and the same as seq except in d1; that of
\* postgres is a serial number that nothing here depends on.
Row == [seq : Nat \ {0}, offset : Nat \ {0}, no : Nat \ {0}]

\* A writer is idle, waits for the lock (memory), has its offset (d1), or has its
\* number too and is to insert (d1) or commit (postgres).
Writer == [stage : {"idle", "waiting"}] \cup [stage : {"offset"}, offset : Nat \ {0}]
              \cup [stage : {"open"}, offset : Nat \ {0}, seq : Nat \ {0}]

Stream == [phase : {"new", "replay", "poll", "reading", "closed"}, from : Nat, since : Nat,
           batch : SUBSET Row, cancelled : BOOLEAN]

\* Types; the handler takes off the channel only what was put on it, and a client
\* gets only what was written (memory.go:331-334, sse.go:49-56).
TypeOK ==
    /\ provider \in Providers
    /\ table \subseteq Row
    /\ rows \in Nat
    /\ removals \in Nat
    /\ writer \in [Writers -> Writer]
    /\ stream \in [Streams -> Stream]
    /\ sent \in [Streams -> Seq(Row)]
    /\ read \in [Streams -> Nat]
    /\ arrived \in [Streams -> Nat]
    /\ \A s \in Streams : arrived[s] <= read[s] /\ read[s] <= Len(sent[s])

----------------------------------------------------------------------------
\* Who holds the lock of the memory provider for reading.
Reading(s) == stream[s].phase = "reading"

\* Variant: the lock is given back when the goroutine returns.
Unlocked_deferred ==
    provider = "memory" => \A s \in Streams : stream[s].phase \in {"new", "replay", "closed"}

Unlocked == provider = "memory" => \A s \in Streams : ~Reading(s)

IdleWriter == [stage |-> "idle"]

\* MAX(seq) + 1 over the committed rows.
IsNextSeq(n) == (\A r \in table : r.seq < n) /\ (n = 1 \/ \E r \in table : r.seq = n - 1)

IsNextOffset(n) ==
    (\A r \in table : r.offset < n) /\ (n = 1 \/ \E r \in table : r.offset = n - 1)

Commit(offset, seq) ==
    /\ rows < MaxRows
    /\ rows' = rows + 1
    /\ table' = table \cup {[seq |-> seq, offset |-> offset, no |-> rows + 1]}

\* memory: Append asks for the write lock, and gets it when no reader is left.
AppendLock(w) ==
    /\ provider = "memory"
    /\ writer[w].stage = "idle"
    /\ rows + Cardinality({v \in Writers : writer[v].stage = "waiting"}) < MaxRows
    /\ writer' = [writer EXCEPT ![w] = [stage |-> "waiting"]]
    /\ UNCHANGED <<provider, table, rows, removals, stream, sent, read, arrived>>

AppendLocked(w) ==
    /\ writer[w].stage = "waiting"
    /\ Unlocked
    /\ \E n \in 1..MaxRows : IsNextSeq(n) /\ Commit(n, n)
    /\ writer' = [writer EXCEPT ![w] = IdleWriter]
    /\ UNCHANGED <<provider, removals, stream, sent, read, arrived>>

\* sqlite: of two transactions that read the same MAX(seq) one fails to commit.
\* Without a write-ahead log a commit fails under an open cursor too: no step.
AppendSqlite(w) ==
    /\ provider = "sqlite"
    /\ \E n \in 1..MaxRows : IsNextSeq(n) /\ Commit(n, n)
    /\ UNCHANGED <<provider, removals, writer, stream, sent, read, arrived>>

\* postgres: both commit.
AppendBegin(w) ==
    /\ provider = "postgres"
    /\ writer[w].stage = "idle"
    /\ \E n \in 1..MaxRows :
           /\ IsNextSeq(n)
           /\ writer' = [writer EXCEPT ![w] = [stage |-> "open", offset |-> n, seq |-> n]]
    /\ UNCHANGED <<provider, table, rows, removals, stream, sent, read, arrived>>

\* d1: no transaction.  Each SELECT MAX and the INSERT are statements of their own.
D1Offset(w) ==
    /\ provider = "d1"
    /\ writer[w].stage = "idle"
    /\ \E n \in 1..MaxRows :
           /\ IsNextOffset(n)
           /\ writer' = [writer EXCEPT ![w] = [stage |-> "offset", offset |-> n]]
    /\ UNCHANGED <<provider, table, rows, removals, stream, sent, read, arrived>>

D1Seq(w) ==
    /\ writer[w].stage = "offset"
    /\ \E n \in 1..MaxRows :
           /\ IsNextSeq(n)
           /\ writer' = [writer EXCEPT ![w] = [stage |-> "open", seq |-> n,
                                               offset |-> writer[w].offset]]
    /\ UNCHANGED <<provider, table, rows, removals, stream, sent, read, arrived>>

\* Variant: the table has no key, and two rows may have one offset.
FreeOffset_any(n) == TRUE

\* The key of the d1 table keeps out a second row with one offset.
FreeOffset(n) == provider = "d1" => \A r \in table : r.offset # n

AppendCommit(w) ==
    /\ writer[w].stage = "open"
    /\ FreeOffset(writer[w].offset)
    /\ Commit(writer[w].offset, writer[w].seq)
    /\ writer' = [writer EXCEPT ![w] = IdleWriter]
    /\ UNCHANGED <<provider, removals, stream, sent, read, arrived>>

\* The transaction is rolled back, or a statement of d1 fails.
AppendAborted(w) ==
    /\ writer[w].stage \in {"offset", "open"}
    /\ writer' = [writer EXCEPT ![w] = IdleWriter]
    /\ UNCHANGED <<provider, table, rows, removals, stream, sent, read, arrived>>

\* One DELETE of ReleaseExpired; a sweep of memory or postgres deletes nothing.
SweepRow(r) ==
    /\ provider \in {"sqlite", "d1"}
    /\ removals < MaxRemovals
    /\ removals' = removals + 1
    /\ table' = table \ {r}
    /\ UNCHANGED <<provider, rows, writer, stream, sent, read, arrived>>

DeleteNamespace ==
    /\ removals < MaxRemovals
    /\ Unlocked
    /\ removals' = removals + 1
    /\ table' = {}
    /\ UNCHANGED <<provider, rows, writer, stream, sent, read, arrived>>

----------------------------------------------------------------------------
\* The goroutine of SubscribeEvents.

NewStream == [phase |-> "new", from |-> 0, since |-> 0, batch |-> {}, cancelled |-> FALSE]

Update(s, record) == stream' = [stream EXCEPT ![s] = record]

Subscribe(s, since) ==
    /\ stream[s].phase = "new"
    /\ Update(s, [stream[s] EXCEPT !.phase = "replay", !.from = since, !.since = since])
    /\ UNCHANGED <<provider, table, rows, removals, writer, sent, read, arrived>>

\* Variant: the row that was sent last is asked for again.
StreamQuery_again(s) ==
    /\ stream[s].phase \in {"replay", "poll"}
    /\ provider = "memory" => \A w \in Writers : writer[w].stage # "waiting"
    /\ Update(s, [stream[s] EXCEPT !.phase = "reading",
                                   !.batch = {r \in table : r.seq >= stream[s].since}])
    /\ UNCHANGED <<provider, table, rows, removals, writer, sent, read, arrived>>

\* Variant: one row too many is taken for sent.
StreamQuery_beyond(s) ==
    /\ stream[s].phase \in {"replay", "poll"}
    /\ provider = "memory" => \A w \in Writers : writer[w].stage # "waiting"
    /\ Update(s, [stream[s] EXCEPT !.phase = "reading",
                                   !.batch = {r \in table : r.seq > stream[s].since + 1}])
    /\ UNCHANGED <<provider, table, rows, removals, writer, sent, read, arrived>>

\* The replay, and every poll after it; a poll whose query fails is no step.  A
\* writer that waits for the lock keeps new readers out.
StreamQuery(s) ==
    /\ stream[s].phase \in {"replay", "poll"}
    /\ provider = "memory" => \A w \in Writers : writer[w].stage # "waiting"
    /\ Update(s, [stream[s] EXCEPT !.phase = "reading",
                                   !.batch = {r \in table : r.seq > stream[s].since}])
    /\ UNCHANGED <<provider, table, rows, removals, writer, sent, read, arrived>>

\* The query of the replay fails: the channel is closed on a client that is there;
\* d1 goes on to its polls.
ReplayFails(s) ==
    /\ provider # "memory"
    /\ stream[s].phase = "replay"
    /\ Update(s, [stream[s] EXCEPT !.phase = IF provider = "d1" THEN "poll" ELSE "closed"])
    /\ UNCHANGED <<provider, table, rows, removals, writer, sent, read, arrived>>

Buffered(s) == Len(sent[s]) - read[s]

\* The rows of a batch come ordered by their number.
Lowest(batch) == {r \in batch : \A x \in batch : r.seq <= x.seq}

\* Variants: an event is dropped when the channel is full; rows come in any order.
StreamSend_drop(s) ==
    \E r \in Lowest(stream[s].batch) :
        /\ Reading(s)
        /\ Update(s, [stream[s] EXCEPT !.batch = @ \ {r}, !.since = r.seq])
        /\ sent' = IF Buffered(s) < Cap THEN [sent EXCEPT ![s] = Append(@, r)] ELSE sent
        /\ UNCHANGED <<provider, table, rows, removals, writer, read, arrived>>

StreamSend_unordered(s) ==
    \E r \in stream[s].batch :
        /\ Reading(s)
        /\ Buffered(s) < Cap
        /\ Update(s, [stream[s] EXCEPT !.batch = @ \ {r}, !.since = r.seq])
        /\ sent' = [sent EXCEPT ![s] = Append(@, r)]
        /\ UNCHANGED <<provider, table, rows, removals, writer, read, arrived>>

StreamSend(s) ==
    \E r \in Lowest(stream[s].batch) :
        /\ Reading(s)
        /\ Buffered(s) < Cap
        /\ Update(s, [stream[s] EXCEPT !.batch = @ \ {r}, !.since = r.seq])
        /\ sent' = [sent EXCEPT ![s] = Append(@, r)]
        /\ UNCHANGED <<provider, table, rows, removals, writer, read, arrived>>

\* The batch is sent: the lock or the cursor goes, and the goroutine waits.
StreamRest(s) ==
    /\ Reading(s)
    /\ stream[s].batch = {}
    /\ Update(s, [stream[s] EXCEPT !.phase = "poll"])
    /\ UNCHANGED <<provider, table, rows, removals, writer, sent, read, arrived>>

\* rows.Next ends early on an error, which nobody reads: the rest of the batch
\* is left to the next poll.  d1 has the whole answer at once.
CursorFails(s) ==
    /\ provider \in {"sqlite", "postgres"}
    /\ Reading(s)
    /\ stream[s].batch # {}
    /\ Update(s, [stream[s] EXCEPT !.phase = "poll", !.batch = {}])
    /\ UNCHANGED <<provider, table, rows, removals, writer, sent, read, arrived>>

\* The request's context was cancelled: noticed in the wait between two polls and
\* wherever a row is to be sent.  The channel is closed.
StreamStop(s) ==
    /\ stream[s].cancelled
    /\ stream[s].phase = "poll" \/ (Reading(s) /\ stream[s].batch # {})
    /\ Update(s, [stream[s] EXCEPT !.phase = "closed", !.batch = {}])
    /\ UNCHANGED <<provider, table, rows, removals, writer, sent, read, arrived>>

\* Variant: a receive from the closed channel counts as an event.
Deliver_zero(s) ==
    /\ read[s] < Len(sent[s]) \/ stream[s].phase = "closed"
    /\ read' = [read EXCEPT ![s] = @ + 1]
    /\ UNCHANGED <<provider, table, rows, removals, writer, stream, sent, arrived>>

\* handleSSE takes an event off the channel and writes it to the response; it goes
\* on when the write fails.  There is no deadline: while the client reads nothing and
\* the buffers on the way are full, the write does not return, and this is no step.
Deliver(s) ==
    /\ read[s] < Len(sent[s])
    /\ read' = [read EXCEPT ![s] = @ + 1]
    /\ UNCHANGED <<provider, table, rows, removals, writer, stream, sent, arrived>>

\* net/http sends what fills its buffer; nobody flushes it.
Arrive(s) ==
    /\ \E n \in arrived[s] + 1 .. read[s] : arrived' = [arrived EXCEPT ![s] = n]
    /\ UNCHANGED <<provider, table, rows, removals, writer, stream, sent, read>>

\* The channel is closed and empty: handleSSE returns, and with it the request; a
\* client that is there gets the rest.
Finish(s) ==
    /\ stream[s].phase = "closed"
    /\ read[s] = Len(sent[s])
    /\ Update(s, NewStream)
    /\ sent' = [sent EXCEPT ![s] = <<>>]
    /\ read' = [read EXCEPT ![s] = 0]
    /\ arrived' = [arrived EXCEPT ![s] = 0]
    /\ UNCHANGED <<provider, table, rows, removals, writer>>

\* The client goes away.
Disconnect(s) ==
    /\ stream[s].phase \notin {"new", "closed"}
    /\ ~stream[s].cancelled
    /\ Update(s, [stream[s] EXCEPT !.cancelled = TRUE])
    /\ UNCHANGED <<provider, table, rows, removals, writer, sent, read, arrived>>

----------------------------------------------------------------------------
Init ==
    /\ provider \in Providers
    /\ table = {}
    /\ rows = 0
    /\ removals = 0
    /\ writer = [w \in Writers |-> IdleWriter]
    /\ stream = [s \in Streams |-> NewStream]
    /\ sent = [s \in Streams |-> <<>>]
    /\ read = [s \in Streams |-> 0]
    /\ arrived = [s \in Streams |-> 0]

WriterStep ==
    \E w \in Writers : \/ AppendLock(w) \/ AppendLocked(w)
                       \/ AppendSqlite(w)
                       \/ AppendBegin(w) \/ D1Offset(w) \/ D1Seq(w)
                       \/ AppendCommit(w) \/ AppendAborted(w)

StreamStep ==
    \E s \in Streams : \/ \E since \in 0..MaxRows : Subscribe(s, since)
                       \/ StreamQuery(s) \/ StreamSend(s) \/ StreamRest(s) \/ StreamStop(s)
                       \/ ReplayFails(s) \/ CursorFails(s)
                       \/ Deliver(s) \/ Arrive(s) \/ Disconnect(s) \/ Finish(s)

Next == WriterStep \/ StreamStep \/ DeleteNamespace \/ \E r \in table : SweepRow(r)

Spec == Init /\ [][Next]_vars

\* The runtime runs goroutines that can run, and a lock that stays free is given
\* to who waits for it.  A cursor does not fail for ever: the strong fairness of
\* StreamSend.  Nothing is assumed of clients, so nothing of the handler that
\* writes to them.
Fairness ==
    /\ \A w \in Writers : WF_vars(AppendLocked(w))
    /\ \A s \in Streams : /\ WF_vars(StreamQuery(s)) /\ SF_vars(StreamSend(s))
                          /\ WF_vars(StreamRest(s)) /\ WF_vars(StreamStop(s))

FairSpec == Spec /\ Fairness

----------------------------------------------------------------------------
\* Properties.

Sent(s) == {sent[s][i] : i \in DOMAIN sent[s]}

\* Whether two rows may be given one number: by postgres to transactions that
\* overlap, by d1 to Appends whose two SELECTs have a removal between them.
TwinNumbers == provider = "postgres" \/ (provider = "d1" /\ removals > 0)

\* Numbers are given out once, and rows stay.
Steady == removals = 0 /\ provider # "postgres"

\* Events leave in the order of their numbers, and none twice: a stream never
\* goes back, although numbers do when rows are removed (memory.go:330-394,
\* sqlite.go:294-370, postgres.go:273-351, d1.go:159-222).
SentInOrder ==
    \A s \in Streams : \A i, j \in DOMAIN sent[s] :
        i < j => /\ sent[s][i].seq <= sent[s][j].seq
                 /\ sent[s][i].seq = sent[s][j].seq => TwinNumbers

\* A row above its start that a stream has passed without sending it was committed after a row with a
\* number at least as high that the stream did send, or has the number of a row
\* the stream sent: neither a full channel nor a cursor that fails nor the
\* ordering inside a batch loses an event (sqlite.go:350-365, postgres.go:331-346).
\* A stream from 0 starts below row 1, as every provider does; see OnlyNewFromZero.
SkipsOnlyLateRows ==
    \A s \in Streams : \A r \in table \ (Sent(s) \cup stream[s].batch) :
        stream[s].from < r.seq /\ r.seq <= stream[s].since /\ stream[s].phase # "closed"
            => \E x \in Sent(s) : \/ x.no < r.no /\ x.seq >= r.seq
                                \/ x.seq = r.seq

\* What the comment at provider.go:78-79 promises: events are streamed "with a
\* monotonic sequence number that clients use for SSE reconnection without missing
\* events".  A stream that is past the number of a row has sent the row, or is
\* about to.
NothingMissed ==
    \A s \in Streams : \A r \in table :
        stream[s].from < r.seq /\ r.seq <= stream[s].since
            => r \in Sent(s) \cup stream[s].batch

\* As long as nothing is removed, a stream of memory, sqlite or d1 passes by no row
\* above its start (memory.go:366-388, sqlite.go:333-366, d1.go:102-124,191-221).
\* For since = 0 that is every row there ever was, and not what provider.go:40-42
\* says of it; see OnlyNewFromZero.
NothingSkipped == Steady => NothingMissed

\* A channel that is full: its stream can send nothing until the handler takes an event.
Full(s) == Buffered(s) = Cap

\* An Append of the memory provider gets the lock in the end, whatever streams are
\* reading, closing or being cancelled, unless there is a stream that reads for ever over
\* a full channel: the client of one stream that stops reading, and stays, can hold
\* up every Append, and nothing else can (memory.go:336-390, sse.go:49-56).
AppendReturns ==
    \A w \in Writers :
        \/ (writer[w].stage = "waiting") ~> (writer[w].stage = "idle")
        \/ \E s \in Streams : <>[](Reading(s) /\ Full(s))

\* Row number n of the table, or one with the same sequence number.
Stands(r, n) == r.no = n \/ \E x \in table : x.no = n /\ x.seq = r.seq

\* The stream polls, and is to send row number n of the table.
Due(s, n) ==
    stream[s].phase = "poll" /\ \E r \in table : r.no = n /\ r.seq > stream[s].since

\* Row number n is among the first k events of the stream, or was removed, or the client
\* left.  Of two postgres rows with one number, one may be all there is.
Through(s, n, k) ==
    \/ \E i \in 1..k : \/ sent[s][i].no = n
                       \/ \E x \in table : x.no = n /\ x.seq = sent[s][i].seq
    \/ ~\E r \in table : r.no = n
    \/ stream[s].cancelled

\* The handler writes every row that a polling stream is to send, unless the channel is
\* never empty again from some time on, because the client does not read (sse.go:49-56,
\* memory.go:358-390).  Written is not received: see EventsReachClient.
EventuallyWritten ==
    \A s \in Streams, n \in 1..MaxRows :
        (Due(s, n) ~> Through(s, n, read[s])) \/ <>[](Buffered(s) > 0)

----------------------------------------------------------------------------
\* The promise of a stream: Feed, with the number that a row was committed under.

Served == {s \in Streams : stream[s].phase # "new"}
Since == [s \in Streams |-> stream[s].from]
NumbersSent == [s \in Streams |-> [i \in DOMAIN sent[s] |-> sent[s][i].no]]

Promise == INSTANCE Feed WITH
    Readers <- Streams, Size <- Cap,
    last <- rows, open <- Served, from <- Since, given <- NumbersSent, taken <- read

\* As long as nothing is removed, the streams of memory, sqlite and d1 are a feed to the
\* handler: the rows above the number in ?since come in the order in which they were
\* committed, without a gap, from row 1 if that number is 0, and whatever is in the channel
\* when it is closed is still written (memory.go:330-394, sse.go:49-56).
ImplementsFeed == Promise!Init /\ [][Steady' => [Promise!Next]_Promise!vars]_vars

----------------------------------------------------------------------------
\* What comments say and the code does not do, besides NothingMissed.

\* provider.go:40-42 "If since is 0, only new events are streamed (no replay)", and so
\* dual-runtime-design.md:264-266: a stream from 0 sends no row that was
\* committed before it was asked for.
OnlyNewFromZero ==
    \A s \in Streams, n \in 1..MaxRows :
        [](stream[s].phase = "new" /\ n <= rows
               => [](stream[s].from = 0 => \A i \in DOMAIN sent[s] : sent[s][i].no # n))

\* sse.go:53-55 flushes after every event, if the response can: a row reaches a client
\* that stays and reads.
EventsReachClient ==
    \A s \in Streams, n \in 1..MaxRows :
        (Due(s, n) ~> Through(s, n, arrived[s])) \/ <>[](Buffered(s) > 0)
=============================================================================
