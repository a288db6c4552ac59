--------------------------- MODULE AuditLog_proofs ---------------------------
(***************************************************************************)
(* Proofs about AuditLog, for channels and batches of any size: its types,   *)
(* that no event is in two places or in none, and that the table is a log    *)
(* that loses events but neither repeats nor reorders them.                  *)
(*                                                                           *)
(* The invariant behind them is the order of the pipeline: what is stored is *)
(* older than what is being written, that is older than what is collected,   *)
(* and that is older than what is on the channel.                            *)
(***************************************************************************)
EXTENDS AuditLog, FiniteSetTheorems, TLAPS

Before(S, T) == \A s \in S, t \in T : s < t

Events ==
    /\ logged \in Nat
    /\ channel \in SUBSET (1..logged) /\ batch \in SUBSET (1..logged)
    /\ flushing \in SUBSET (1..logged)
    /\ stored \in SUBSET (1..logged) /\ lost \in SUBSET (1..logged)

Pipeline ==
    /\ Before(stored, flushing) /\ Before(stored, batch) /\ Before(stored, channel)
    /\ Before(flushing, batch) /\ Before(flushing, channel)
    /\ Before(batch, channel)

Sizes ==
    /\ provider \in Providers /\ level \in Levels
    /\ Cardinality(channel) <= ChannelSize
    /\ Cardinality(batch) < BatchSize

IInv == Events /\ Pipeline /\ Accounted

\* A set of events is finite, so its cardinality is a number.
LEMMA EventsFinite ==
    ASSUME NEW n \in Nat, NEW S \in SUBSET (1..n)
    PROVE  IsFiniteSet(S) /\ Cardinality(S) \in Nat
<1>1. IsFiniteSet(1..n)
  BY FS_Interval
<1> QED
  BY <1>1, FS_Subset, FS_CardinalityType

LEMMA InitIInv == Init => IInv
BY DEF Init, IInv, Events, Pipeline, Before, Accounted, Pending

\* One more event, on the channel or lost at once (audit.go:28-62).
LEMMA LogIInv ==
    ASSUME IInv, NEW type, Log(type)
    PROVE  IInv'
<1>a. logged' = logged + 1 /\ UNCHANGED <<batch, flushing, stored>>
  BY DEF Log
<1>b. \/ channel' = channel \cup {logged + 1} /\ lost' = lost
      \/ channel' = channel /\ lost' = lost \cup {logged + 1}
  BY DEF Log
<1>c. logged \in Nat
  BY DEF IInv, Events
<1>1. Events'
  <2>1. \A S \in SUBSET (1..logged) :
            /\ S \in SUBSET (1..logged + 1)
            /\ S \cup {logged + 1} \in SUBSET (1..logged + 1)
    BY <1>c
  <2>2. channel' \in SUBSET (1..logged + 1) /\ lost' \in SUBSET (1..logged + 1)
    BY <2>1, <1>b DEF IInv, Events
  <2>3. batch \in SUBSET (1..logged + 1) /\ flushing \in SUBSET (1..logged + 1)
        /\ stored \in SUBSET (1..logged + 1)
    BY <2>1 DEF IInv, Events
  <2> QED
    BY <2>2, <2>3, <1>a, <1>c DEF Events
<1>2. Pipeline'
  <2>1. \A S \in SUBSET (1..logged) : Before(S, {logged + 1})
    BY <1>c DEF Before
  <2>2. ASSUME NEW S \in SUBSET (1..logged), Before(S, channel)
        PROVE  Before(S, channel')
    BY <2>1, <2>2, <1>b DEF Before
  <2> QED
    BY <2>2, <1>a DEF IInv, Events, Pipeline, Before
<1>3. Accounted'
  BY DEF IInv, Events, Accounted, Pending, Log
<1> QED
  BY <1>1, <1>2, <1>3 DEF IInv

\* The worker moves events on, in their order (audit.go:64-90).
LEMMA WorkerIInv ==
    ASSUME IInv, Worker
    PROVE  IInv'
<1>1. CASE Receive
  <2>1. PICK e \in channel :
            /\ \A f \in channel : e <= f
            /\ channel' = channel \ {e}
            /\ LET collected == batch \cup {e}
               IN IF Full(collected) THEN batch' = {} /\ flushing' = collected
                                     ELSE batch' = collected /\ UNCHANGED flushing
    BY <1>1 DEF Receive
  <2>2. flushing = {} /\ UNCHANGED <<logged, stored, lost>>
    BY <1>1 DEF Receive
  <2>3. \/ batch' = {} /\ flushing' = batch \cup {e}
        \/ batch' = batch \cup {e} /\ flushing' = flushing
    BY <2>1
  <2>4. Events'
    BY <2>1, <2>2, <2>3 DEF IInv, Events
  <2>5. Pipeline'
    <3>1. Before({e}, channel')
      BY <2>1 DEF IInv, Events, Before
    <3>2. Before(batch \cup {e}, channel') /\ Before(stored, batch \cup {e})
      BY <3>1, <2>1 DEF IInv, Pipeline, Before
    <3>3. Before(stored, channel')
      BY <2>1 DEF IInv, Pipeline, Before
    <3>4. CASE batch' = {} /\ flushing' = batch \cup {e}
      BY <3>2, <3>3, <3>4, <2>2 DEF Pipeline, Before
    <3>5. CASE batch' = batch \cup {e} /\ flushing' = flushing
      BY <3>2, <3>3, <3>5, <2>2 DEF Pipeline, Before
    <3> QED
      BY <2>3, <3>4, <3>5
  <2>6. Accounted'
    BY <2>1, <2>2, <2>3 DEF IInv, Accounted, Pending
  <2> QED
    BY <2>4, <2>5, <2>6 DEF IInv
<1>2. CASE TickerFires
  BY <1>2 DEF IInv, Events, Pipeline, Before, Accounted, Pending, TickerFires
<1>3. CASE StoreRow
  <2>1. PICK e \in flushing :
            /\ \A f \in flushing : e <= f
            /\ stored' = stored \cup {e}
            /\ flushing' = flushing \ {e}
    BY <1>3 DEF StoreRow
  <2>2. UNCHANGED <<logged, channel, batch, lost>>
    BY <1>3 DEF StoreRow
  <2>3. Events'
    BY <2>1, <2>2 DEF IInv, Events
  <2>4. Pipeline'
    BY <2>1, <2>2 DEF IInv, Events, Pipeline, Before
  <2>5. Accounted'
    BY <2>1, <2>2 DEF IInv, Accounted, Pending, Pipeline, Before, Events
  <2> QED
    BY <2>3, <2>4, <2>5 DEF IInv
<1>4. CASE StoreAll
  BY <1>4 DEF IInv, Events, Pipeline, Before, Accounted, Pending, StoreAll
<1>5. CASE FlushFails
  <2>1. Accounted'
    BY <1>5 DEF IInv, Events, Pipeline, Before, Accounted, Pending, FlushFails
  <2> QED
    BY <2>1, <1>5 DEF IInv, Events, Pipeline, Before, FlushFails
<1> QED
  BY <1>1, <1>2, <1>3, <1>4, <1>5 DEF Worker

LEMMA NextIInv == IInv /\ [Next]_vars => IInv'
<1> SUFFICES ASSUME IInv, [Next]_vars PROVE IInv'
  OBVIOUS
<1>1. ASSUME NEW type \in Security, Log(type) PROVE IInv'
  BY <1>1, LogIInv
<1>2. CASE Worker
  BY <1>2, WorkerIInv
<1>3. CASE Purge
  BY <1>3 DEF IInv, Events, Pipeline, Before, Accounted, Pending, Purge
<1>4. CASE Restart
  BY <1>4 DEF IInv, Events, Pipeline, Before, Accounted, Pending, Restart
<1>5. CASE UNCHANGED vars
  BY <1>5 DEF IInv, Events, Pipeline, Before, Accounted, Pending, vars, auditVars
<1> QED
  BY <1>1, <1>2, <1>3, <1>4, <1>5 DEF Next, Step

LEMMA IInvHolds == Spec => []IInv
BY InitIInv, NextIInv, PTL DEF Spec

\* Every event that was logged is in the table, on its way or lost, and in one of
\* these places only (audit.go:56-62,74-90).
THEOREM EveryEventAccounted == Spec => []Accounted
<1>1. IInv => Accounted
  BY DEF IInv
<1> QED
  BY <1>1, IInvHolds, PTL

----------------------------------------------------------------------------
\* The channel and the batch stay within their sizes: the step that would fill the
\* batch empties it.
LEMMA NextSizes == IInv /\ Sizes /\ [Next]_vars => Sizes'
<1> SUFFICES ASSUME IInv, Sizes, [Next]_vars PROVE Sizes'
  OBVIOUS
<1> USE AuditConstants
<1>a. IsFiniteSet(channel) /\ Cardinality(channel) \in Nat
  BY EventsFinite DEF IInv, Events
<1>b. IsFiniteSet(batch) /\ Cardinality(batch) \in Nat
  BY EventsFinite DEF IInv, Events
<1>c. IsFiniteSet({}) /\ Cardinality({}) = 0
  BY FS_EmptySet
<1>1. ASSUME NEW type \in Security, Log(type) PROVE Sizes'
  <2>1. CASE Cardinality(channel) < ChannelSize
    <3>1. channel' = channel \cup {logged + 1} /\ logged + 1 \notin channel
      BY <1>1, <2>1 DEF Log, IInv, Events
    <3>2. Cardinality(channel') = Cardinality(channel) + 1
      BY <3>1, <1>a, FS_AddElement
    <3> QED
      BY <3>2, <2>1, <1>1, <1>a DEF Sizes, Log
  <2>2. CASE ~(Cardinality(channel) < ChannelSize)
    BY <1>1, <2>2 DEF Sizes, Log
  <2> QED
    BY <2>1, <2>2
<1>2. CASE Receive
  <2>1. PICK e \in channel :
            /\ channel' = channel \ {e}
            /\ LET collected == batch \cup {e}
               IN IF Full(collected) THEN batch' = {} /\ flushing' = collected
                                     ELSE batch' = collected /\ UNCHANGED flushing
    BY <1>2 DEF Receive
  <2>2. Cardinality(channel') <= Cardinality(channel) /\ Cardinality(channel') \in Nat
    BY <2>1, <1>a, FS_RemoveElement, FS_CardinalityType, FS_Subset
  <2>3. Cardinality(batch \cup {e}) \in Nat
    BY <1>b, FS_AddElement, FS_CardinalityType
  <2>4. Cardinality(batch') < BatchSize
    BY <2>1, <2>3, <1>c DEF Full
  <2> QED
    BY <2>2, <2>4, <1>a, <1>2 DEF Sizes, Receive
<1>3. CASE TickerFires
  BY <1>3, <1>c DEF Sizes, TickerFires
<1>4. CASE StoreRow \/ StoreAll \/ FlushFails \/ Purge
  BY <1>4 DEF Sizes, StoreRow, StoreAll, FlushFails, Purge
<1>5. CASE Restart
  BY <1>5, <1>c DEF Sizes, Restart
<1>6. CASE UNCHANGED vars
  BY <1>6 DEF Sizes, vars, auditVars
<1> QED
  BY <1>1, <1>2, <1>3, <1>4, <1>5, <1>6 DEF Next, Step, Worker

\* The types, and the bounds of the channel and the batch (audit.go:22,66,74).
THEOREM TypeCorrect == Spec => []TypeOK
<1>1. Init => Sizes
  BY AuditConstants, FS_EmptySet DEF Init, Sizes
<1>2. IInv /\ Sizes => TypeOK
  BY DEF IInv, Events, Sizes, TypeOK
<1> QED
  BY <1>1, <1>2, IInvHolds, NextSizes, PTL DEF Spec

----------------------------------------------------------------------------
\* A step of the logger is a step of the log that may lose entries, or none.
LEMMA StepRefines == IInv /\ [Next]_vars => [Lossy!Next]_(Lossy!vars)
<1> SUFFICES ASSUME IInv, [Next]_vars PROVE Lossy!Next \/ UNCHANGED Lossy!vars
  OBVIOUS
<1>1. ASSUME NEW type \in Security, Log(type) PROVE Lossy!Make
  BY <1>1 DEF Log, Lossy!Make, Pending
<1>2. CASE Receive
  <2>1. Pending' = Pending
    BY <1>2 DEF Receive, Pending
  <2> QED
    BY <1>2, <2>1 DEF Receive, Lossy!vars
<1>3. CASE TickerFires
  <2>1. Pending' = Pending
    BY <1>3 DEF TickerFires, Pending
  <2> QED
    BY <1>3, <2>1 DEF TickerFires, Lossy!vars
<1>4. CASE StoreRow
  <2>1. PICK e \in flushing :
            /\ \A f \in flushing : e <= f
            /\ stored' = stored \cup {e}
            /\ flushing' = flushing \ {e}
    BY <1>4 DEF StoreRow
  <2>2. \A w \in Pending \ {e} : e < w
    BY <2>1 DEF IInv, Events, Pipeline, Before, Pending
  <2>3. \A k \in stored : k < e
    BY <2>1 DEF IInv, Pipeline, Before
  <2>4. Pending' = Pending \ {e}
    BY <1>4, <2>1 DEF StoreRow, IInv, Events, Pipeline, Before, Pending
  <2>5. {e} \in SUBSET Pending /\ UNCHANGED logged
    BY <1>4, <2>1 DEF StoreRow, Pending
  <2>6. Lossy!Keep
    BY <2>1, <2>2, <2>3, <2>4, <2>5 DEF Lossy!Keep
  <2> QED
    BY <2>6 DEF Lossy!Next
<1>5. CASE StoreAll
  <2>1. \A e \in flushing, w \in Pending \ flushing : e < w
    BY DEF IInv, Pipeline, Before, Pending
  <2>2. \A k \in stored, e \in flushing : k < e
    BY DEF IInv, Pipeline, Before
  <2>3. Pending' = Pending \ flushing
    <3>1. flushing \cap (channel \cup batch) = {}
      BY DEF IInv, Events, Pipeline, Before
    <3> QED
      BY <3>1, <1>5 DEF StoreAll, Pending
  <2>4. flushing \in SUBSET Pending /\ stored' = stored \cup flushing /\ UNCHANGED logged
    BY <1>5 DEF StoreAll, Pending
  <2>5. Lossy!Keep
    BY <2>1, <2>2, <2>3, <2>4 DEF Lossy!Keep
  <2> QED
    BY <2>5 DEF Lossy!Next
<1>6. CASE FlushFails
  BY <1>6 DEF FlushFails, Lossy!Next, Lossy!Lose, Pending
<1>7. CASE Purge
  BY <1>7 DEF Purge, Lossy!Next, Lossy!Purge, Lossy!vars, Pending
<1>8. CASE Restart
  BY <1>8 DEF Restart, Lossy!Next, Lossy!Purge, Lossy!Lose, Pending
<1>9. CASE UNCHANGED vars
  BY <1>9 DEF vars, auditVars, Lossy!vars, Pending
<1> QED
  BY <1>1, <1>2, <1>3, <1>4, <1>5, <1>6, <1>7, <1>8, <1>9 DEF Next, Step, Worker, Lossy!Next

\* The audit table implements a log that loses entries, and never repeats, reorders
\* or invents one (audit.go:58-90, sqlite.go:138-149).
THEOREM TableIsLossyLog == Spec => ImplementsLossyLog
<1>1. Init => Lossy!Init
  BY DEF Init, Lossy!Init, Pending
<1> QED
  BY <1>1, StepRefines, IInvHolds, PTL DEF Spec, ImplementsLossyLog, Lossy!Spec
=============================================================================
