------------------------------ MODULE AuditLog ------------------------------
(***************************************************************************)
(* AuditLogger: request handlers put events on a bounded channel and do not  *)
(* wait; one worker collects them into a batch, and writes a batch that is    *)
(* full, or at a tick whatever there is, through the provider's AppendAudit.  *)
(*                                                                           *)
(* Events are numbered in the order in which they come to the channel.  The   *)
(* channel, the batch and the table are sets of numbers: a channel is first   *)
(* in first out, and the table is ordered by its key.                         *)
(*                                                                           *)
(* A definition whose name ends in an underscored word is a faulty variant of *)
(* the one it precedes.                                                      *)
(*                                                                           *)
(* Sources: internal/server/audit.go, pkg/hearsay/audit.go, AppendAudit of the *)
(* providers, cmd/hearsay/cmd_serve.go.                                       *)
(***************************************************************************)
EXTENDS Naturals, FiniteSets

CONSTANTS
  Providers,    \* the providers considered
  Levels,       \* the audit levels considered
  ChannelSize,  \* capacity of the channel (256)
  BatchSize,    \* events in a full batch (32)
  MaxEvents     \* bound: events logged

ASSUME AuditConstants ==
    /\ Providers \subseteq {"memory", "sqlite", "postgres", "d1", "managed"}
    /\ Levels \subseteq 0..3
    /\ ChannelSize \in Nat /\ BatchSize \in Nat \ {0} /\ MaxEvents \in Nat

VARIABLES
  provider,   \* the provider of this deployment; no action changes it
  level,      \* --audit-level; no action changes it
  logged,     \* how many events passed the filter of the level
  channel,    \* events on the channel
  batch,      \* events the worker has collected
  flushing,   \* events of the batch that is being written, and are not yet
  stored,     \* events in the table
  lost        \* history: dropped at a full channel, by a failed write, at a restart,
              \* or deleted with the namespace

auditVars == <<level, logged, channel, batch, flushing, stored, lost>>
vars == <<provider, auditVars>>

Pending == channel \cup batch \cup flushing

\* Types; a batch is written before it is more than full.
TypeOK ==
    /\ provider \in Providers /\ level \in Levels
    /\ logged \in Nat
    /\ channel \subseteq 1..logged /\ Cardinality(channel) <= ChannelSize
    /\ batch \subseteq 1..logged /\ Cardinality(batch) < BatchSize
    /\ flushing \subseteq 1..logged
    /\ stored \subseteq 1..logged
    /\ lost \subseteq 1..logged

----------------------------------------------------------------------------
Coordination == {"claim", "release"}
Security == Coordination \cup {"auth_failure", "rate_limit"}

\* What the code logs; claims that expire or die are in the levels and not logged.
ShouldLog(type) == \/ level >= 2 /\ type \in Security
                   \/ level = 1 /\ type \in Coordination

\* Variant: an event that finds the channel full takes the place of the first.
Log_replaces(type) ==
    /\ ShouldLog(type) /\ logged < MaxEvents
    /\ logged' = logged + 1
    /\ IF Cardinality(channel) < ChannelSize
       THEN channel' = channel \cup {logged + 1}
       ELSE channel' = {e \in channel : \E f \in channel : f < e} \cup {logged + 1}
    /\ UNCHANGED <<provider, level, batch, flushing, stored, lost>>

\* Log does not wait for room.
Log(type) ==
    /\ ShouldLog(type) /\ logged < MaxEvents
    /\ logged' = logged + 1
    /\ IF Cardinality(channel) < ChannelSize
       THEN channel' = channel \cup {logged + 1} /\ UNCHANGED lost
       ELSE lost' = lost \cup {logged + 1} /\ UNCHANGED channel
    /\ UNCHANGED <<provider, level, batch, flushing, stored>>

\* Variant: a batch may grow beyond what it holds.
Full_over(collected) == Cardinality(collected) > BatchSize

Full(collected) == Cardinality(collected) >= BatchSize

\* The worker takes the first event off the channel; a full batch is written.
Receive ==
    /\ flushing = {}
    /\ \E e \in channel :
           /\ \A f \in channel : e <= f
           /\ channel' = channel \ {e}
           /\ LET collected == batch \cup {e}
              IN IF Full(collected) THEN batch' = {} /\ flushing' = collected
                                    ELSE batch' = collected /\ UNCHANGED flushing
    /\ UNCHANGED <<provider, level, logged, stored, lost>>

\* Variant: the ticker waits for a full batch.
TickerFires_full ==
    /\ flushing = {} /\ Full(batch)
    /\ flushing' = batch /\ batch' = {}
    /\ UNCHANGED <<provider, level, logged, channel, stored, lost>>

\* Every five seconds what there is is written.
TickerFires ==
    /\ flushing = {} /\ batch # {}
    /\ flushing' = batch /\ batch' = {}
    /\ UNCHANGED <<provider, level, logged, channel, stored, lost>>

\* Variant: rows are written in any order.
StoreRow_unordered ==
    /\ provider \in {"sqlite", "postgres", "d1"}
    /\ \E e \in flushing : stored' = stored \cup {e} /\ flushing' = flushing \ {e}
    /\ UNCHANGED <<provider, level, logged, channel, batch, lost>>

\* AppendAudit writes one row after the other, in no transaction.
StoreRow ==
    /\ provider \in {"sqlite", "postgres", "d1"}
    /\ \E e \in flushing : /\ \A f \in flushing : e <= f
                           /\ stored' = stored \cup {e}
                           /\ flushing' = flushing \ {e}
    /\ UNCHANGED <<provider, level, logged, channel, batch, lost>>

StoreAll ==
    /\ provider = "memory" /\ flushing # {}
    /\ stored' = stored \cup flushing /\ flushing' = {}
    /\ UNCHANGED <<provider, level, logged, channel, batch, lost>>

\* An error ends the write, and what is left of the batch is lost; the server that
\* a managed provider sends it to has no /audit.
FlushFails ==
    /\ provider # "memory" /\ flushing # {}
    /\ lost' = lost \cup flushing /\ flushing' = {}
    /\ UNCHANGED <<provider, level, logged, channel, batch, stored>>

Worker == Receive \/ TickerFires \/ StoreRow \/ StoreAll \/ FlushFails

Step == (\E type \in Security : Log(type)) \/ Worker

\* DeleteNamespace deletes the events with the rest; the memory provider keeps them.
Purge ==
    /\ stored' = IF provider = "memory" THEN stored ELSE {}
    /\ lost' = lost \cup (stored \ stored')
    /\ UNCHANGED <<provider, level, logged, channel, batch, flushing>>

\* The process ends, in order or not: nothing flushes the channel or the batch.
Restart ==
    /\ channel' = {} /\ batch' = {} /\ flushing' = {}
    /\ stored' = IF provider = "memory" THEN {} ELSE stored
    /\ lost' = lost \cup Pending \cup (stored \ stored')
    /\ UNCHANGED <<provider, level, logged>>

Init ==
    /\ provider \in Providers /\ level \in Levels
    /\ logged = 0
    /\ channel = {} /\ batch = {} /\ flushing = {}
    /\ stored = {} /\ lost = {}

Next == Step \/ Purge \/ Restart

Spec == Init /\ [][Next]_vars

\* The worker is a goroutine: it takes what is on the channel, its ticker fires, and
\* a write returns.
FairSpec == Spec /\ WF_vars(Worker)

----------------------------------------------------------------------------
\* Properties.

\* The events that were logged are in the table, or on their way, or were lost in a
\* way the code provides for, and in one of these places only
\* (audit.go:56-62,74-90).
Accounted ==
    /\ stored \cup Pending \cup lost = 1..logged
    /\ (stored \cup Pending) \cap lost = {}
    /\ stored \cap Pending = {}

\* No event stays with the worker: one that is collected is written or lost,
\* although its batch is never full (audit.go:71-86).
NothingStuck ==
    \A e \in 1..MaxEvents : (e \in Pending) ~> (e \in stored \cup lost)

\* The table is a log that loses events and does not repeat, reorder or invent
\* any (audit.go:58-90, sqlite.go:138-149).
Lossy == INSTANCE LossyLog WITH last <- logged, waiting <- Pending, kept <- stored

ImplementsLossyLog == Lossy!Spec
=============================================================================
