------------------------- MODULE EventStream_proofs -------------------------
(***************************************************************************)
(* Theorems about event streams, for any providers, streams, writers and       *)
(* bounds.  That a stream does not go back rests on the numbers in its batch,  *)
(* which are new to it and, unless twins are possible, differ.  That it passes *)
(* nothing by rests on the rows that come after its query: while nothing is    *)
(* removed, every one of them has a number above all that are in the table.    *)
(* Then the streams are a feed as well: the numbers in the table are those of  *)
(* the commits, and the row that is sent next has the number after the last.   *)
(***************************************************************************)
EXTENDS EventStream, SequenceTheorems, TLAPS

\* What the writers of each provider go through.
Stages ==
    \A w \in Writers :
        /\ writer[w].stage = "waiting" => provider = "memory"
        /\ writer[w].stage = "offset" => provider = "d1"
        /\ writer[w].stage = "open" => provider \in {"postgres", "d1"}

Offsets == {x.offset : x \in table}

\* The offsets of d1 are taken from 1 on without a gap, and a writer whose offset
\* is still free has the same number.
Gapless ==
    (provider = "d1" /\ removals = 0) =>
        /\ \A r \in table : r.seq = r.offset /\ \A k \in 1..r.offset : k \in Offsets
        /\ \A w \in Writers : writer[w].stage \in {"offset", "open"} =>
               \A k \in 1..(writer[w].offset - 1) : k \in Offsets
        /\ \A w \in Writers : writer[w].stage = "open" =>
               writer[w].seq = writer[w].offset \/ writer[w].offset \in Offsets

Distinct(S) == ~TwinNumbers => \A r, q \in S : r.seq = q.seq => r = q

Ordered(s) ==
    \A i, j \in DOMAIN sent[s] :
        i < j => /\ sent[s][i].seq <= sent[s][j].seq
                 /\ sent[s][i].seq = sent[s][j].seq => TwinNumbers

\* What was sent lies at or below since, what is to be sent above it.
Forward(s) ==
    /\ stream[s].phase = "new" => sent[s] = <<>> /\ stream[s].batch = {}
    /\ \A i \in DOMAIN sent[s] : sent[s][i].seq <= stream[s].since
    /\ \A r \in stream[s].batch : /\ stream[s].since <= r.seq
                                  /\ stream[s].since = r.seq => TwinNumbers
    /\ Distinct(stream[s].batch)
    /\ Ordered(s)

\* Nothing is passed by; what came after the query lies above the batch.
Complete(s) ==
    (removals = 0 /\ provider # "postgres") =>
        /\ stream[s].batch \subseteq table
        /\ stream[s].since = stream[s].from \/ \E r \in table : r.seq = stream[s].since
        /\ \A r \in table :
               stream[s].from < r.seq /\ r.seq <= stream[s].since => r \in Sent(s)
        /\ \A r \in table \ stream[s].batch, b \in stream[s].batch :
               r.seq > stream[s].since => r.seq > b.seq

Numbers == Stages /\ Gapless /\ Distinct(table)

IInv == TypeOK /\ Numbers /\ \A s \in Streams : Forward(s) /\ Complete(s)

----------------------------------------------------------------------------
\* The invariant holds at first.
LEMMA InitIInv == Init => IInv
<1> SUFFICES ASSUME Init PROVE IInv
  OBVIOUS
<1> USE DEF Init
<1>1. TypeOK
  BY DEF TypeOK, Row, Writer, Stream, IdleWriter, NewStream
<1>2. Numbers
  BY DEF Numbers, Stages, Gapless, Distinct, IdleWriter
<1>3. ASSUME NEW s \in Streams PROVE Forward(s) /\ Complete(s)
  BY <1>3 DEF Forward, Complete, Distinct, Ordered, NewStream
<1> QED
  BY <1>1, <1>2, <1>3 DEF IInv

----------------------------------------------------------------------------
\* A row that is committed with a number above all others keeps the streams complete;
\* one that comes elsewhere does so too where Complete promises nothing.
LEMMA CommitStreams ==
  ASSUME IInv, NEW offset \in Nat \ {0}, NEW seq \in Nat \ {0}, Commit(offset, seq),
         (removals = 0 /\ provider # "postgres") => \A r \in table : r.seq < seq,
         UNCHANGED <<provider, removals, stream, sent>>
  PROVE  \A s \in Streams : Forward(s)' /\ Complete(s)'
<1> DEFINE row == [seq |-> seq, offset |-> offset, no |-> rows + 1]
<1>1. table' = table \cup {row} /\ row.seq = seq
  BY DEF Commit
<1> HIDE DEF row
<1> SUFFICES ASSUME NEW s \in Streams PROVE Forward(s)' /\ Complete(s)'
  OBVIOUS
<1>2. Forward(s) /\ Complete(s) /\ TypeOK
  BY DEF IInv
<1>3. stream[s] \in Stream /\ table \subseteq Row
  BY <1>2 DEF TypeOK
<1>4. Forward(s)'
  BY <1>2 DEF Forward, Distinct, Ordered, TwinNumbers
<1>5. ASSUME removals = 0, provider # "postgres"
      PROVE  Complete(s)'
  <2>1. \A r \in table : r.seq < seq
    BY <1>5
  <2>2. \A b \in stream[s].batch : b \in table /\ b.seq < row.seq
    BY <1>1, <1>2, <1>5, <2>1 DEF Complete
  <2>3. ~(stream[s].from < row.seq /\ row.seq <= stream[s].since)
    BY <1>1, <1>2, <1>3, <1>5, <2>1 DEF Complete, Stream, Row
  <2>4. Sent(s)' = Sent(s)
    BY DEF Sent
  <2> QED
    BY <1>1, <1>2, <1>5, <2>2, <2>3, <2>4 DEF Complete
<1> QED
  BY <1>4, <1>5 DEF Complete

\* The numbers of the table after a commit, in a provider that takes the next one.
LEMMA CommitNext ==
  ASSUME IInv, NEW n \in Nat, IsNextSeq(n), Commit(n, n), provider \in {"memory", "sqlite"},
         UNCHANGED <<provider, removals>>
  PROVE  /\ n \in Nat \ {0} /\ \A r \in table : r.seq < n
         /\ Gapless' /\ Distinct(table)'
<1>1. table \subseteq Row
  BY DEF IInv, TypeOK
<1>2. n \in Nat \ {0} /\ \A r \in table : r.seq < n
  BY <1>1 DEF IsNextSeq, Row
<1>3. Distinct(table)'
  BY <1>1, <1>2 DEF IInv, Numbers, Distinct, Commit, TwinNumbers, Row
<1> QED
  BY <1>2, <1>3 DEF Gapless

\* The numbers of the table after a commit whose number was read earlier.  A d1 writer
\* whose offset is free has the number after the last one.
LEMMA CommitOpen ==
  ASSUME IInv, NEW w \in Writers, AppendCommit(w)
  PROVE  /\ (removals = 0 /\ provider # "postgres") => \A r \in table : r.seq < writer[w].seq
         /\ Numbers'
<1> DEFINE n == writer[w].seq
           o == writer[w].offset
           row == [seq |-> n, offset |-> o, no |-> rows + 1]
<1>1. TypeOK /\ Numbers
  BY DEF IInv
<1>2. writer[w] \in Writer /\ table \subseteq Row /\ writer[w].stage = "open"
  BY <1>1 DEF TypeOK, AppendCommit
<1>3. n \in Nat \ {0} /\ o \in Nat \ {0}
  BY <1>2 DEF Writer
<1>4. provider \in {"postgres", "d1"}
  BY <1>1, <1>2 DEF Numbers, Stages
<1>5. /\ table' = table \cup {row} /\ row.seq = n /\ row.offset = o
      /\ UNCHANGED <<provider, removals>>
      /\ writer' = [writer EXCEPT ![w] = IdleWriter]
      /\ provider = "d1" => \A r \in table : r.offset # o
  BY DEF AppendCommit, Commit, FreeOffset
<1>6. writer'[w].stage = "idle" /\ \A v \in Writers \ {w} : writer'[v] = writer[v]
  BY <1>1, <1>5 DEF TypeOK, IdleWriter
<1> HIDE DEF row
<1>7. ASSUME removals = 0, provider = "d1"
      PROVE  /\ n = o
             /\ \A r \in table : r.offset < o /\ r.seq = r.offset
             /\ \A k \in 1..(o - 1) : k \in Offsets
  <2>1. \A k \in 1..(o - 1) : k \in Offsets
    BY <1>1, <1>2, <1>7 DEF Numbers, Gapless
  <2>2. o \notin Offsets
    BY <1>5, <1>7 DEF Offsets
  <2>3. n = o
    BY <1>1, <1>2, <1>7, <2>2 DEF Numbers, Gapless
  <2>4. ASSUME NEW r \in table PROVE r.offset < o /\ r.seq = r.offset
    <3>1. r.seq = r.offset /\ \A k \in 1..r.offset : k \in Offsets
      BY <1>1, <1>7 DEF Numbers, Gapless
    <3>2. o \notin 1..r.offset
      BY <2>2, <3>1
    <3>3. r.offset \in Nat
      BY <1>2 DEF Row
    <3> QED
      BY <1>3, <3>1, <3>2, <3>3
  <2> QED
    BY <2>1, <2>3, <2>4
<1>8. (removals = 0 /\ provider # "postgres") => \A r \in table : r.seq < n
  BY <1>4, <1>7
<1>9. Stages'
  BY <1>1, <1>5, <1>6 DEF Numbers, Stages
<1>10. Gapless'
  <2> SUFFICES ASSUME provider = "d1", removals = 0 PROVE Gapless'
    BY <1>5 DEF Gapless
  <2>1. Offsets' = Offsets \cup {o}
    BY <1>5 DEF Offsets
  <2>2. o \in Offsets'
    BY <1>5 DEF Offsets
  <2>3. ASSUME NEW r \in table'
        PROVE  r.seq = r.offset /\ \A k \in 1..r.offset : k \in Offsets'
    <3>1. CASE r \in table
      BY <1>1, <2>1, <3>1 DEF Numbers, Gapless
    <3>2. CASE r = row
      <4>1. r.seq = o /\ r.offset = o
        BY <1>5, <1>7, <3>2
      <4>2. \A k \in 1..o : k = o \/ k \in 1..(o - 1)
        BY <1>3
      <4> QED
        BY <1>7, <2>1, <2>2, <4>1, <4>2
    <3> QED
      BY <1>5, <2>3, <3>1, <3>2
  <2>4. ASSUME NEW v \in Writers, writer'[v].stage \in {"offset", "open"}
        PROVE  /\ \A k \in 1..(writer'[v].offset - 1) : k \in Offsets'
               /\ writer'[v].stage = "open" =>
                    writer'[v].seq = writer'[v].offset \/ writer'[v].offset \in Offsets'
    <3>1. v # w /\ writer'[v] = writer[v]
      BY <1>6, <2>4
    <3> QED
      BY <1>1, <2>1, <2>4, <3>1 DEF Numbers, Gapless
  <2> QED
    BY <2>3, <2>4 DEF Gapless, Offsets
<1>11. Distinct(table)'
  BY <1>1, <1>2, <1>4, <1>5, <1>7 DEF Numbers, Distinct, TwinNumbers, TypeOK
<1> QED
  BY <1>8, <1>9, <1>10, <1>11 DEF Numbers

\* Steps that touch neither the table nor the streams.
LEMMA WriterStreams ==
  ASSUME IInv, UNCHANGED <<provider, table, removals, stream, sent>>
  PROVE  \A s \in Streams : Forward(s)' /\ Complete(s)'
<1> SUFFICES ASSUME NEW s \in Streams PROVE Forward(s)' /\ Complete(s)'
  OBVIOUS
<1> QED
  BY DEF IInv, Forward, Complete, Distinct, Ordered, TwinNumbers, Sent

\* A d1 writer that reads its number: the offset it has read is the next one still,
\* or another row has it.
LEMMA ReadSeq ==
  ASSUME IInv, NEW w \in Writers, D1Seq(w)
  PROVE  Numbers'
<1>1. TypeOK /\ Numbers
  BY DEF IInv
<1>2. writer[w] \in Writer /\ table \subseteq Row /\ writer[w].stage = "offset"
  BY <1>1 DEF TypeOK, D1Seq
<1>3. provider = "d1" /\ UNCHANGED <<provider, table, removals>>
  BY <1>1, <1>2 DEF Numbers, Stages, D1Seq
<1>4. PICK n \in 1..MaxRows :
          /\ IsNextSeq(n)
          /\ writer' = [writer EXCEPT ![w] = [stage |-> "open", seq |-> n,
                                              offset |-> writer[w].offset]]
  BY DEF D1Seq
<1>5. /\ writer'[w].stage = "open" /\ writer'[w].seq = n
      /\ writer'[w].offset = writer[w].offset
      /\ \A v \in Writers \ {w} : writer'[v] = writer[v]
  BY <1>1, <1>4 DEF TypeOK
<1>6. Stages'
  BY <1>1, <1>3, <1>5 DEF Numbers, Stages
<1>7. Offsets' = Offsets
  BY <1>3 DEF Offsets
<1>8. ASSUME removals = 0, writer[w].offset \notin Offsets
      PROVE  n = writer[w].offset
  <2> DEFINE o == writer[w].offset
  <2>1. o \in Nat \ {0}
    BY <1>2 DEF Writer
  <2>2. \A k \in 1..(o - 1) : k \in Offsets
    BY <1>1, <1>2, <1>3, <1>8 DEF Numbers, Gapless
  <2>3. \A r \in table : r.seq < o /\ r.seq = r.offset
    <3> TAKE r \in table
    <3>1. r.seq = r.offset /\ \A k \in 1..r.offset : k \in Offsets
      BY <1>1, <1>3, <1>8 DEF Numbers, Gapless
    <3>2. r.offset \in Nat /\ o \notin 1..r.offset
      BY <1>2, <1>8, <3>1 DEF Row
    <3> QED
      BY <2>1, <3>1, <3>2
  <2>4. n <= o
    <3>1. CASE n = 1
      BY <2>1, <3>1
    <3>2. CASE \E r \in table : r.seq = n - 1
      BY <2>1, <2>3, <3>2
    <3> QED
      BY <1>4, <3>1, <3>2 DEF IsNextSeq
  <2>5. ASSUME n < o PROVE FALSE
    <3>1. n \in Offsets
      BY <2>1, <2>2, <2>5
    <3> QED
      BY <1>2, <1>4, <2>3, <3>1 DEF Offsets, IsNextSeq, Row
  <2> QED
    BY <2>1, <2>4, <2>5
<1>9. Gapless'
  <2> SUFFICES ASSUME removals = 0 PROVE Gapless'
    BY <1>3 DEF Gapless
  <2>1. ASSUME NEW v \in Writers, writer'[v].stage \in {"offset", "open"}
        PROVE  /\ \A k \in 1..(writer'[v].offset - 1) : k \in Offsets
               /\ writer'[v].stage = "open" =>
                    writer'[v].seq = writer'[v].offset \/ writer'[v].offset \in Offsets
    <3>1. CASE v = w
      BY <1>1, <1>2, <1>3, <1>5, <1>8, <3>1 DEF Numbers, Gapless
    <3>2. CASE v # w
      BY <1>1, <1>3, <1>5, <2>1, <3>2 DEF Numbers, Gapless
    <3> QED
      BY <3>1, <3>2
  <2>2. \A r \in table : r.seq = r.offset /\ \A k \in 1..r.offset : k \in Offsets
    BY <1>1, <1>3 DEF Numbers, Gapless
  <2> QED
    BY <1>3, <1>7, <2>1, <2>2 DEF Gapless
<1> QED
  BY <1>1, <1>3, <1>6, <1>9 DEF Numbers, Distinct, TwinNumbers

\* A d1 writer that reads its offset, the one after the last.
LEMMA ReadOffset ==
  ASSUME IInv, NEW w \in Writers, D1Offset(w)
  PROVE  Numbers'
<1>1. TypeOK /\ Numbers
  BY DEF IInv
<1>2. provider = "d1" /\ UNCHANGED <<provider, table, removals>> /\ table \subseteq Row
  BY <1>1 DEF D1Offset, TypeOK
<1>3. PICK n \in 1..MaxRows :
          /\ IsNextOffset(n)
          /\ writer' = [writer EXCEPT ![w] = [stage |-> "offset", offset |-> n]]
  BY DEF D1Offset
<1>4. /\ writer'[w].stage = "offset" /\ writer'[w].offset = n
      /\ \A v \in Writers \ {w} : writer'[v] = writer[v]
  BY <1>1, <1>3 DEF TypeOK
<1>5. Stages'
  BY <1>1, <1>2, <1>4 DEF Numbers, Stages
<1>6. Offsets' = Offsets
  BY <1>2 DEF Offsets
<1>7. ASSUME removals = 0 PROVE \A k \in 1..(n - 1) : k \in Offsets
  <2>1. CASE n = 1
    BY <2>1
  <2>2. ASSUME NEW r \in table, r.offset = n - 1
        PROVE  \A k \in 1..(n - 1) : k \in Offsets
    BY <1>1, <1>2, <1>7, <2>2 DEF Numbers, Gapless
  <2> QED
    BY <1>3, <2>1, <2>2 DEF IsNextOffset
<1>8. Gapless'
  <2> SUFFICES ASSUME removals = 0 PROVE Gapless'
    BY <1>2 DEF Gapless
  <2>1. ASSUME NEW v \in Writers, writer'[v].stage \in {"offset", "open"}
        PROVE  /\ \A k \in 1..(writer'[v].offset - 1) : k \in Offsets
               /\ writer'[v].stage = "open" =>
                    writer'[v].seq = writer'[v].offset \/ writer'[v].offset \in Offsets
    <3>1. CASE v = w
      BY <1>4, <1>7, <3>1
    <3>2. CASE v # w
      BY <1>1, <1>2, <1>4, <2>1, <3>2 DEF Numbers, Gapless
    <3> QED
      BY <3>1, <3>2
  <2>2. \A r \in table : r.seq = r.offset /\ \A k \in 1..r.offset : k \in Offsets
    BY <1>1, <1>2 DEF Numbers, Gapless
  <2> QED
    BY <1>2, <1>6, <2>1, <2>2 DEF Gapless
<1> QED
  BY <1>1, <1>2, <1>5, <1>8 DEF Numbers, Distinct, TwinNumbers

\* A step of a writer preserves the types.
LEMMA WriterTypes ==
  ASSUME TypeOK, NEW w \in Writers,
         \/ AppendLock(w) \/ AppendLocked(w) \/ AppendSqlite(w) \/ AppendBegin(w)
         \/ D1Offset(w) \/ D1Seq(w) \/ AppendCommit(w) \/ AppendAborted(w)
  PROVE  TypeOK'
<1> USE DEF TypeOK
<1>1. ASSUME NEW o \in Nat \ {0}, NEW n \in Nat \ {0}, Commit(o, n)
      PROVE  table' \subseteq Row /\ rows' \in Nat
  BY <1>1 DEF Commit, Row
<1>2. IdleWriter \in Writer
  BY DEF IdleWriter, Writer
<1>3. CASE AppendLock(w)
  <2>1. [stage |-> "waiting"] \in Writer
    BY DEF Writer
  <2> QED
    BY <1>3, <2>1 DEF AppendLock
<1>4. CASE AppendLocked(w)
  <2>1. PICK n \in 1..MaxRows : Commit(n, n)
    BY <1>4 DEF AppendLocked
  <2>2. n \in Nat \ {0}
    OBVIOUS
  <2> QED
    BY <1>1, <1>2, <1>4, <2>1, <2>2 DEF AppendLocked
<1>5. CASE AppendSqlite(w)
  <2>1. PICK n \in 1..MaxRows : Commit(n, n)
    BY <1>5 DEF AppendSqlite
  <2>2. n \in Nat \ {0}
    OBVIOUS
  <2> QED
    BY <1>1, <1>5, <2>1, <2>2 DEF AppendSqlite
<1>6. CASE AppendBegin(w)
  <2>1. \A n \in 1..MaxRows : [stage |-> "open", offset |-> n, seq |-> n] \in Writer
    BY DEF Writer
  <2> QED
    BY <1>6, <2>1 DEF AppendBegin
<1>7. CASE D1Offset(w)
  <2>1. \A n \in 1..MaxRows : [stage |-> "offset", offset |-> n] \in Writer
    BY DEF Writer
  <2> QED
    BY <1>7, <2>1 DEF D1Offset
<1>8. CASE D1Seq(w)
  <2>1. writer[w].offset \in Nat \ {0}
    BY <1>8 DEF D1Seq, Writer
  <2>2. \A n \in 1..MaxRows :
            [stage |-> "open", seq |-> n, offset |-> writer[w].offset] \in Writer
    BY <2>1 DEF Writer
  <2> QED
    BY <1>8, <2>2 DEF D1Seq
<1>9. CASE AppendCommit(w)
  <2>1. writer[w].offset \in Nat \ {0} /\ writer[w].seq \in Nat \ {0}
    BY <1>9 DEF AppendCommit, Writer
  <2> QED
    BY <1>1, <1>2, <1>9, <2>1 DEF AppendCommit
<1>10. CASE AppendAborted(w)
  BY <1>2, <1>10 DEF AppendAborted
<1> QED
  BY <1>3, <1>4, <1>5, <1>6, <1>7, <1>8, <1>9, <1>10

\* The steps of the writers.
LEMMA WriterIInv ==
  ASSUME IInv, WriterStep
  PROVE  IInv'
<1>1. PICK w \in Writers :
          \/ AppendLock(w) \/ AppendLocked(w) \/ AppendSqlite(w) \/ AppendBegin(w)
          \/ D1Offset(w) \/ D1Seq(w) \/ AppendCommit(w) \/ AppendAborted(w)
  BY DEF WriterStep
<1>2. TypeOK /\ Numbers
  BY DEF IInv
<1>3. TypeOK'
  BY <1>1, <1>2, WriterTypes
<1>4. ASSUME NEW i \in {IdleWriter, [stage |-> "waiting"]}, writer' = [writer EXCEPT ![w] = i]
      PROVE  /\ writer'[w].stage \in {"idle", "waiting"}
             /\ writer'[w].stage = "waiting" => i # IdleWriter
             /\ \A v \in Writers \ {w} : writer'[v] = writer[v]
  BY <1>2, <1>4 DEF TypeOK, IdleWriter
<1>5. CASE AppendLock(w)
  <2>1. UNCHANGED <<provider, table, removals, stream, sent>> /\ provider = "memory"
        /\ writer' = [writer EXCEPT ![w] = [stage |-> "waiting"]]
    BY <1>5 DEF AppendLock
  <2>2. Numbers'
    BY <1>2, <1>4, <2>1 DEF Numbers, Stages, Gapless, Distinct, TwinNumbers
  <2> QED
    BY <1>3, <2>1, <2>2, WriterStreams DEF IInv
<1>6. CASE AppendLocked(w)
  <2>1. PICK n \in 1..MaxRows : IsNextSeq(n) /\ Commit(n, n)
    BY <1>6 DEF AppendLocked
  <2>2. /\ UNCHANGED <<provider, removals, stream, sent>> /\ provider = "memory"
        /\ writer' = [writer EXCEPT ![w] = IdleWriter]
    BY <1>2, <1>6 DEF AppendLocked, Numbers, Stages
  <2>3. n \in Nat \ {0} /\ (\A r \in table : r.seq < n) /\ Gapless' /\ Distinct(table)'
    BY <2>1, <2>2, CommitNext
  <2>4. Stages'
    BY <1>2, <1>4, <2>2 DEF Numbers, Stages
  <2>5. \A s \in Streams : Forward(s)' /\ Complete(s)'
    BY <2>1, <2>2, <2>3, CommitStreams
  <2> QED
    BY <1>3, <2>3, <2>4, <2>5 DEF IInv, Numbers
<1>7. CASE AppendSqlite(w)
  <2>1. PICK n \in 1..MaxRows : IsNextSeq(n) /\ Commit(n, n)
    BY <1>7 DEF AppendSqlite
  <2>2. UNCHANGED <<provider, removals, writer, stream, sent>> /\ provider = "sqlite"
    BY <1>7 DEF AppendSqlite
  <2>3. n \in Nat \ {0} /\ (\A r \in table : r.seq < n) /\ Gapless' /\ Distinct(table)'
    BY <2>1, <2>2, CommitNext
  <2>4. Stages'
    BY <1>2, <2>2 DEF Numbers, Stages
  <2>5. \A s \in Streams : Forward(s)' /\ Complete(s)'
    BY <2>1, <2>2, <2>3, CommitStreams
  <2> QED
    BY <1>3, <2>3, <2>4, <2>5 DEF IInv, Numbers
<1>8. CASE AppendBegin(w)
  <2>1. UNCHANGED <<provider, table, removals, stream, sent>> /\ provider = "postgres"
    BY <1>8 DEF AppendBegin
  <2>2. Stages'
    BY <1>2, <1>8 DEF AppendBegin, TypeOK, Numbers, Stages
  <2>3. Numbers'
    BY <1>2, <2>1, <2>2 DEF Numbers, Gapless, Distinct, TwinNumbers
  <2> QED
    BY <1>3, <2>1, <2>3, WriterStreams DEF IInv
<1>9. CASE D1Offset(w)
  <2>1. UNCHANGED <<provider, table, removals, stream, sent>>
    BY <1>9 DEF D1Offset
  <2> QED
    BY <1>3, <1>9, <2>1, ReadOffset, WriterStreams DEF IInv
<1>10. CASE D1Seq(w)
  <2>1. UNCHANGED <<provider, table, removals, stream, sent>>
    BY <1>10 DEF D1Seq
  <2> QED
    BY <1>3, <1>10, <2>1, ReadSeq, WriterStreams DEF IInv
<1>11. CASE AppendCommit(w)
  <2>1. /\ Commit(writer[w].offset, writer[w].seq)
        /\ UNCHANGED <<provider, removals, stream, sent>>
        /\ writer[w].offset \in Nat \ {0} /\ writer[w].seq \in Nat \ {0}
    BY <1>2, <1>11 DEF AppendCommit, TypeOK, Writer
  <2>2. /\ Numbers'
        /\ (removals = 0 /\ provider # "postgres") => \A r \in table : r.seq < writer[w].seq
    BY <1>11, CommitOpen
  <2>3. \A s \in Streams : Forward(s)' /\ Complete(s)'
    BY <2>1, <2>2, CommitStreams
  <2> QED
    BY <1>3, <2>2, <2>3 DEF IInv
<1>12. CASE AppendAborted(w)
  <2>1. /\ UNCHANGED <<provider, table, removals, stream, sent>>
        /\ writer' = [writer EXCEPT ![w] = IdleWriter]
    BY <1>12 DEF AppendAborted
  <2>2. Numbers'
    BY <1>2, <1>4, <2>1 DEF Numbers, Stages, Gapless, Distinct, TwinNumbers, Offsets
  <2> QED
    BY <1>3, <2>1, <2>2, WriterStreams DEF IInv
<1> QED
  BY <1>1, <1>5, <1>6, <1>7, <1>8, <1>9, <1>10, <1>11, <1>12

\* Rows that go: a removal takes away what Complete and Gapless promise.
LEMMA RemovalIInv ==
  ASSUME IInv, removals' = removals + 1, table' \subseteq table,
         UNCHANGED <<provider, rows, writer, stream, sent, read, arrived>>
  PROVE  IInv'
<1>1. TypeOK /\ Numbers /\ removals \in Nat
  BY DEF IInv, TypeOK
<1>2. TypeOK'
  BY <1>1 DEF TypeOK
<1>3. removals' # 0 /\ (TwinNumbers => TwinNumbers')
  BY <1>1 DEF TwinNumbers
<1>4. Numbers'
  BY <1>1, <1>3 DEF Numbers, Stages, Gapless, Distinct
<1>5. ASSUME NEW s \in Streams PROVE Forward(s)' /\ Complete(s)'
  BY <1>3 DEF IInv, Forward, Complete, Distinct, Ordered
<1> QED
  BY <1>2, <1>4, <1>5 DEF IInv

----------------------------------------------------------------------------
\* A step of one stream leaves the numbers and the other streams alone.
LEMMA OneStream ==
  ASSUME IInv, NEW s \in Streams, TypeOK',
         UNCHANGED <<provider, table, removals, writer>>,
         \A t \in Streams \ {s} : stream'[t] = stream[t] /\ sent'[t] = sent[t],
         Forward(s)', Complete(s)'
  PROVE  IInv'
<1>1. Numbers'
  BY DEF IInv, Numbers, Stages, Gapless, Distinct, TwinNumbers, Offsets
<1>2. ASSUME NEW t \in Streams PROVE Forward(t)' /\ Complete(t)'
  <2>1. CASE t # s
    BY <2>1 DEF IInv, Forward, Complete, Distinct, Ordered, TwinNumbers, Sent
  <2> QED
    BY <2>1
<1> QED
  BY <1>1, <1>2 DEF IInv

\* The goroutine goes on, or ends, without a row to send; a client leaves.
LEMMA PauseIInv ==
  ASSUME IInv, NEW s \in Streams, NEW phase, NEW batch, NEW cancelled \in BOOLEAN,
         phase \in {"poll", "closed"} \/ phase = stream[s].phase,
         batch = {} \/ batch = stream[s].batch,
         Update(s, [stream[s] EXCEPT !.phase = phase, !.batch = batch,
                                     !.cancelled = cancelled]),
         UNCHANGED <<provider, table, rows, removals, writer, sent, read, arrived>>
  PROVE  IInv'
<1>1. TypeOK /\ stream[s] \in Stream /\ Forward(s) /\ Complete(s)
  BY DEF IInv, TypeOK
<1>2. /\ stream'[s] = [stream[s] EXCEPT !.phase = phase, !.batch = batch,
                                        !.cancelled = cancelled]
      /\ \A t \in Streams \ {s} : stream'[t] = stream[t]
  BY <1>1 DEF Update, TypeOK
<1>3. /\ stream'[s].phase = phase /\ stream'[s].batch = batch
      /\ stream'[s].from = stream[s].from /\ stream'[s].since = stream[s].since
      /\ stream'[s] \in Stream
  BY <1>1, <1>2 DEF Stream
<1>4. TypeOK'
  BY <1>1, <1>2, <1>3 DEF TypeOK, Update
<1>5. Forward(s)'
  BY <1>1, <1>3 DEF Forward, Distinct, Ordered, TwinNumbers
<1>6. Complete(s)'
  BY <1>1, <1>3 DEF Complete, Sent
<1> QED
  BY <1>2, <1>4, <1>5, <1>6, OneStream

\* A stream begins: nothing was sent, and nothing lies between from and since.
LEMMA SubscribeIInv ==
  ASSUME IInv, NEW s \in Streams, NEW since \in 0..MaxRows, Subscribe(s, since)
  PROVE  IInv'
<1>1. TypeOK /\ stream[s] \in Stream /\ Forward(s)
  BY DEF IInv, TypeOK
<1>2. /\ stream' = [stream EXCEPT ![s] = [stream[s] EXCEPT !.phase = "replay",
                                             !.from = since, !.since = since]]
      /\ stream[s].phase = "new"
      /\ UNCHANGED <<provider, table, rows, removals, writer, sent, read, arrived>>
  BY DEF Subscribe, Update
<1>3. /\ stream'[s].phase = "replay" /\ stream'[s].batch = {} /\ sent'[s] = <<>>
      /\ stream'[s].from = since /\ stream'[s].since = since
      /\ stream'[s] \in Stream
      /\ \A t \in Streams \ {s} : stream'[t] = stream[t]
  <2>1. stream[s].batch = {} /\ sent[s] = <<>>
    BY <1>1, <1>2 DEF Forward
  <2>2. since \in Nat
    OBVIOUS
  <2> QED
    BY <1>1, <1>2, <2>1, <2>2 DEF Stream, TypeOK
<1>4. TypeOK'
  BY <1>1, <1>2, <1>3 DEF TypeOK
<1>5. Forward(s)'
  BY <1>3 DEF Forward, Distinct, Ordered
<1>6. \A r \in table : ~(since < r.seq /\ r.seq <= since)
  BY <1>1 DEF TypeOK, Row
<1>7. Complete(s)'
  BY <1>2, <1>3, <1>6 DEF Complete
<1> QED
  BY <1>2, <1>3, <1>4, <1>5, <1>7, OneStream

\* A query: its rows are those above since.
LEMMA QueryIInv ==
  ASSUME IInv, NEW s \in Streams, StreamQuery(s)
  PROVE  IInv'
<1>1. TypeOK /\ stream[s] \in Stream /\ Forward(s) /\ Complete(s) /\ Distinct(table)
  BY DEF IInv, TypeOK, Numbers
<1> DEFINE above == {r \in table : r.seq > stream[s].since}
<1>2. /\ stream' = [stream EXCEPT ![s] = [stream[s] EXCEPT !.phase = "reading",
                                                           !.batch = above]]
      /\ UNCHANGED <<provider, table, rows, removals, writer, sent, read, arrived>>
  BY DEF StreamQuery, Update
<1>3. above \subseteq table /\ above \subseteq Row
  BY <1>1 DEF TypeOK
<1>4. /\ stream'[s].phase = "reading" /\ stream'[s].batch = above
      /\ stream'[s].from = stream[s].from /\ stream'[s].since = stream[s].since
      /\ stream'[s] \in Stream
      /\ \A t \in Streams \ {s} : stream'[t] = stream[t]
  BY <1>1, <1>2, <1>3 DEF Stream, TypeOK
<1>5. TypeOK'
  BY <1>1, <1>2, <1>4 DEF TypeOK
<1>6. \A r \in above : stream[s].since < r.seq /\ stream[s].since # r.seq
  BY <1>1, <1>3 DEF Stream, Row
<1>7. Forward(s)'
  <2>1. ~TwinNumbers' => \A r, q \in above : r.seq = q.seq => r = q
    BY <1>1, <1>2, <1>3 DEF Distinct, TwinNumbers
  <2> HIDE DEF above
  <2>2. Distinct(stream[s].batch)'
    BY <1>4, <2>1 DEF Distinct
  <2>3. Ordered(s)'
    BY <1>1, <1>2 DEF Forward, Ordered, TwinNumbers
  <2>4. \A i \in DOMAIN sent'[s] : sent'[s][i].seq <= stream'[s].since
    BY <1>1, <1>2, <1>4 DEF Forward
  <2>5. \A r \in stream'[s].batch : stream'[s].since <= r.seq /\ stream'[s].since # r.seq
    <3>1. \A r \in above : stream[s].since <= r.seq /\ stream[s].since # r.seq
      BY <1>1, <1>3, <1>6 DEF Stream, Row
    <3> QED
      BY <1>4, <3>1
  <2> QED
    BY <1>4, <2>2, <2>3, <2>4, <2>5 DEF Forward
<1>8. \A r \in table \ above : ~(r.seq > stream[s].since)
  OBVIOUS
<1> HIDE DEF above
<1>9. Complete(s)'
  BY <1>1, <1>2, <1>3, <1>4, <1>8 DEF Complete, Sent
<1> QED
  BY <1>2, <1>4, <1>5, <1>7, <1>9, OneStream

\* The next row goes on the channel: no lower one is in the batch, and of its own
\* number others are only where twins are possible.
LEMMA SendIInv ==
  ASSUME IInv, NEW s \in Streams, StreamSend(s)
  PROVE  IInv'
<1>1. TypeOK /\ stream[s] \in Stream /\ Forward(s) /\ Complete(s) /\ sent[s] \in Seq(Row)
  BY DEF IInv, TypeOK
<1>2. PICK r \in Lowest(stream[s].batch) :
          /\ stream' = [stream EXCEPT ![s] = [stream[s] EXCEPT !.batch = @ \ {r},
                                                               !.since = r.seq]]
          /\ sent' = [sent EXCEPT ![s] = Append(@, r)]
          /\ UNCHANGED <<provider, table, rows, removals, writer, read, arrived>>
  BY DEF StreamSend, Update
<1>3. /\ r \in stream[s].batch /\ \A x \in stream[s].batch : r.seq <= x.seq
      /\ stream[s].batch \subseteq Row /\ r \in Row /\ r.seq \in Nat
      /\ stream[s].since \in Nat /\ stream[s].since <= r.seq
  BY <1>1, <1>2 DEF Lowest, Stream, Row, Forward
<1>4. /\ stream'[s].batch = stream[s].batch \ {r} /\ stream'[s].since = r.seq
      /\ stream'[s].phase = stream[s].phase /\ stream'[s].from = stream[s].from
      /\ stream'[s] \in Stream
      /\ \A t \in Streams \ {s} : stream'[t] = stream[t] /\ sent'[t] = sent[t]
  BY <1>1, <1>2, <1>3 DEF Stream, TypeOK
<1>5. sent'[s] = Append(sent[s], r)
  BY <1>1, <1>2 DEF TypeOK
<1>6. /\ sent'[s] \in Seq(Row) /\ Len(sent'[s]) = Len(sent[s]) + 1
      /\ DOMAIN sent[s] = 1..Len(sent[s]) /\ DOMAIN sent'[s] = 1..(Len(sent[s]) + 1)
      /\ \A i \in 1..Len(sent[s]) : sent'[s][i] = sent[s][i]
      /\ sent'[s][Len(sent[s]) + 1] = r /\ Len(sent[s]) \in Nat
  BY <1>1, <1>3, <1>5
<1>7. TypeOK'
  BY <1>1, <1>2, <1>4, <1>6 DEF TypeOK
<1>8. \A i \in 1..Len(sent[s]) : sent[s][i] \in Row /\ sent[s][i].seq \in Nat
                                  /\ sent[s][i].seq <= stream[s].since
  <2>1. \A i \in 1..Len(sent[s]) : sent[s][i] \in Row
    BY <1>1
  <2>2. \A i \in 1..Len(sent[s]) : sent[s][i].seq <= stream[s].since
    BY <1>1, <1>6 DEF Forward
  <2> QED
    BY <2>1, <2>2 DEF Row
<1>9. Ordered(s)'
  <2>1. stream[s].since = r.seq => TwinNumbers
    BY <1>1, <1>3 DEF Forward
  <2>2. ASSUME NEW i \in DOMAIN sent'[s], NEW j \in DOMAIN sent'[s], i < j
        PROVE  /\ sent'[s][i].seq <= sent'[s][j].seq
               /\ sent'[s][i].seq = sent'[s][j].seq => TwinNumbers
    <3>1. i \in 1..Len(sent[s]) /\ (j \in 1..Len(sent[s]) \/ j = Len(sent[s]) + 1)
      BY <1>6, <2>2
    <3>2. CASE j \in 1..Len(sent[s])
      BY <1>1, <1>6, <2>2, <3>1, <3>2 DEF Forward, Ordered
    <3>3. CASE j = Len(sent[s]) + 1
      <4>1. sent'[s][i] = sent[s][i] /\ sent'[s][j] = r
        BY <1>6, <3>1, <3>3
      <4>2. sent[s][i].seq \in Nat /\ sent[s][i].seq <= stream[s].since
        BY <1>8, <3>1
      <4>3. sent[s][i].seq <= r.seq /\ (sent[s][i].seq = r.seq => stream[s].since = r.seq)
        BY <1>3, <4>2
      <4> QED
        BY <2>1, <4>1, <4>3
    <3> QED
      BY <3>1, <3>2, <3>3
  <2> QED
    BY <1>2, <2>2 DEF Ordered, TwinNumbers
<1>10. Forward(s)'
  <2>1. stream[s].phase # "new"
    BY <1>1, <1>3 DEF Forward
  <2>2. \A i \in DOMAIN sent'[s] : sent'[s][i].seq <= stream'[s].since
    <3> TAKE i \in DOMAIN sent'[s]
    <3>1. CASE i \in 1..Len(sent[s])
      <4>1. sent[s][i].seq \in Nat /\ sent[s][i].seq <= stream[s].since
        BY <1>8, <3>1
      <4>2. sent[s][i].seq <= r.seq
        BY <1>3, <4>1
      <4> QED
        BY <1>4, <1>6, <3>1, <4>2
    <3>2. CASE i = Len(sent[s]) + 1
      <4>1. sent'[s][i] = r
        BY <1>6, <3>2
      <4> QED
        BY <1>3, <1>4, <4>1
    <3> QED
      BY <1>6, <3>1, <3>2
  <2>3. \A x \in stream'[s].batch : /\ stream'[s].since <= x.seq
                                    /\ stream'[s].since = x.seq => TwinNumbers
    BY <1>1, <1>3, <1>4 DEF Forward, Distinct
  <2>4. Distinct(stream[s].batch)'
    BY <1>1, <1>2, <1>4 DEF Forward, Distinct, TwinNumbers
  <2>5. TwinNumbers' = TwinNumbers
    BY <1>2 DEF TwinNumbers
  <2> QED
    BY <1>4, <1>9, <2>1, <2>2, <2>3, <2>4, <2>5 DEF Forward
<1>11. Complete(s)'
  <2> SUFFICES ASSUME removals = 0, provider # "postgres" PROVE Complete(s)'
    BY <1>2 DEF Complete
  <2>1. stream[s].batch \subseteq table /\ table \subseteq Row
    BY <1>1 DEF Complete, TypeOK
  <2>2. Sent(s)' = Sent(s) \cup {r}
    BY <1>6 DEF Sent
  <2>3. ASSUME NEW q \in table, stream[s].from < q.seq, q.seq <= r.seq
        PROVE  q \in Sent(s)'
    <3>1. CASE q.seq <= stream[s].since
      BY <1>1, <2>2, <2>3, <3>1 DEF Complete
    <3>2. CASE q.seq > stream[s].since /\ q \notin stream[s].batch
      BY <1>1, <1>3, <2>1, <2>3, <3>2 DEF Complete, Row
    <3>3. CASE q \in stream[s].batch
      <4>1. q.seq = r.seq
        BY <1>3, <2>1, <2>3, <3>3 DEF Row
      <4>2. q = r
        BY <1>1, <1>3, <3>3, <4>1 DEF Forward, Distinct, TwinNumbers
      <4> QED
        BY <2>2, <4>2
    <3> QED
      BY <1>3, <2>1, <3>1, <3>2, <3>3 DEF Row
  <2>4. ASSUME NEW q \in table \ stream'[s].batch, NEW b \in stream'[s].batch, q.seq > r.seq
        PROVE  q.seq > b.seq
    <3>1. q # r /\ q \notin stream[s].batch
      BY <1>3, <1>4, <2>4
    <3>2. q.seq > stream[s].since
      BY <1>3, <2>1, <2>4 DEF Row
    <3> QED
      BY <1>1, <1>4, <3>1, <3>2 DEF Complete
  <2> QED
    BY <1>2, <1>3, <1>4, <2>1, <2>3, <2>4 DEF Complete
<1> QED
  BY <1>2, <1>4, <1>7, <1>10, <1>11, OneStream

\* The handler takes an event off the channel: nothing else moves.
LEMMA DeliverIInv ==
  ASSUME IInv, NEW s \in Streams, Deliver(s)
  PROVE  IInv'
<1>1. TypeOK /\ sent[s] \in Seq(Row)
  BY DEF IInv, TypeOK
<1>2. TypeOK'
  <2>1. read[s] \in Nat /\ Len(sent[s]) \in Nat /\ read[s] + 1 <= Len(sent[s])
    BY <1>1 DEF Deliver, TypeOK
  <2>2. read' \in [Streams -> Nat]
    BY <1>1, <2>1 DEF Deliver, TypeOK
  <2>3. \A t \in Streams : arrived[t] <= read'[t] /\ read'[t] <= Len(sent[t])
    BY <1>1, <2>1 DEF Deliver, TypeOK
  <2> QED
    BY <1>1, <2>2, <2>3 DEF Deliver, TypeOK
<1>3. Forward(s)' /\ Complete(s)'
  BY DEF IInv, Deliver, Forward, Complete, Distinct, Ordered, TwinNumbers, Sent
<1> QED
  BY <1>2, <1>3, OneStream DEF Deliver

\* What leaves the server was written before.
LEMMA ArriveIInv ==
  ASSUME IInv, NEW s \in Streams, Arrive(s)
  PROVE  IInv'
<1>1. TypeOK /\ arrived[s] \in Nat /\ read[s] \in Nat
  BY DEF IInv, TypeOK
<1>2. PICK n \in arrived[s] + 1 .. read[s] : arrived' = [arrived EXCEPT ![s] = n]
  BY DEF Arrive
<1>3. n \in Nat /\ n <= read[s]
  BY <1>1
<1>4. TypeOK'
  BY <1>1, <1>2, <1>3 DEF Arrive, TypeOK
<1>5. Forward(s)' /\ Complete(s)'
  BY DEF IInv, Arrive, Forward, Complete, Distinct, Ordered, TwinNumbers, Sent
<1> QED
  BY <1>4, <1>5, OneStream DEF Arrive

\* A request that is over leaves a new stream.
LEMMA FinishIInv ==
  ASSUME IInv, NEW s \in Streams, Finish(s)
  PROVE  IInv'
<1>1. TypeOK /\ table \subseteq Row
  BY DEF IInv, TypeOK
<1>2. /\ stream' = [stream EXCEPT ![s] = NewStream]
      /\ sent' = [sent EXCEPT ![s] = <<>>] /\ read' = [read EXCEPT ![s] = 0]
      /\ arrived' = [arrived EXCEPT ![s] = 0]
      /\ UNCHANGED <<provider, table, rows, removals, writer>>
  BY DEF Finish, Update
<1>3. /\ stream'[s] = NewStream /\ sent'[s] = <<>> /\ read'[s] = 0 /\ arrived'[s] = 0
      /\ \A t \in Streams \ {s} : /\ stream'[t] = stream[t] /\ sent'[t] = sent[t]
                                   /\ read'[t] = read[t] /\ arrived'[t] = arrived[t]
  BY <1>1, <1>2 DEF TypeOK
<1>4. /\ NewStream.phase = "new" /\ NewStream.batch = {}
      /\ NewStream.from = 0 /\ NewStream.since = 0 /\ NewStream \in Stream
  BY DEF NewStream, Stream
<1>5. TypeOK'
  <2>1. \A t \in Streams : arrived'[t] <= read'[t] /\ read'[t] <= Len(sent'[t])
    BY <1>1, <1>3 DEF TypeOK
  <2>2. /\ stream' \in [Streams -> Stream] /\ read' \in [Streams -> Nat]
        /\ arrived' \in [Streams -> Nat]
    BY <1>1, <1>2, <1>4 DEF TypeOK
  <2>3. sent' \in [Streams -> Seq(Row)]
    BY <1>1, <1>2 DEF TypeOK
  <2> QED
    BY <1>1, <1>2, <2>1, <2>2, <2>3 DEF TypeOK
<1>6. Forward(s)'
  BY <1>3, <1>4 DEF Forward, Distinct, Ordered
<1>7. \A r \in table : ~(0 < r.seq /\ r.seq <= 0)
  BY <1>1 DEF Row
<1>8. Complete(s)'
  BY <1>2, <1>3, <1>4, <1>7 DEF Complete
<1> QED
  BY <1>2, <1>3, <1>5, <1>6, <1>8, OneStream

\* The steps of the streams.
LEMMA StreamIInv ==
  ASSUME IInv, StreamStep
  PROVE  IInv'
<1>1. PICK s \in Streams :
          \/ \E since \in 0..MaxRows : Subscribe(s, since)
          \/ StreamQuery(s) \/ StreamSend(s) \/ StreamRest(s) \/ StreamStop(s)
          \/ ReplayFails(s) \/ CursorFails(s)
          \/ Deliver(s) \/ Arrive(s) \/ Disconnect(s) \/ Finish(s)
  BY DEF StreamStep
<1>2. stream[s] \in Stream /\ stream[s].cancelled \in BOOLEAN
  BY DEF IInv, TypeOK, Stream
<1> DEFINE Stopped(phase, batch, cancelled) ==
             [stream[s] EXCEPT !.phase = phase, !.batch = batch, !.cancelled = cancelled]
<1>3. CASE StreamRest(s)
  <2>1. [stream[s] EXCEPT !.phase = "poll"]
            = Stopped("poll", stream[s].batch, stream[s].cancelled)
    BY <1>2 DEF Stream
  <2> QED
    BY <1>2, <1>3, <2>1, PauseIInv DEF StreamRest
<1>4. CASE StreamStop(s)
  <2>1. [stream[s] EXCEPT !.phase = "closed", !.batch = {}]
            = Stopped("closed", {}, stream[s].cancelled)
    BY <1>2 DEF Stream
  <2> QED
    BY <1>2, <1>4, <2>1, PauseIInv DEF StreamStop
<1>5. CASE ReplayFails(s)
  <2>1. PICK phase \in {"poll", "closed"} : Update(s, [stream[s] EXCEPT !.phase = phase])
    BY <1>5 DEF ReplayFails
  <2>2. [stream[s] EXCEPT !.phase = phase]
            = Stopped(phase, stream[s].batch, stream[s].cancelled)
    BY <1>2 DEF Stream
  <2> QED
    BY <1>2, <1>5, <2>1, <2>2, PauseIInv DEF ReplayFails
<1>6. CASE CursorFails(s)
  <2>1. [stream[s] EXCEPT !.phase = "poll", !.batch = {}]
            = Stopped("poll", {}, stream[s].cancelled)
    BY <1>2 DEF Stream
  <2> QED
    BY <1>2, <1>6, <2>1, PauseIInv DEF CursorFails
<1>7. CASE Disconnect(s)
  <2>1. [stream[s] EXCEPT !.cancelled = TRUE]
            = Stopped(stream[s].phase, stream[s].batch, TRUE)
    BY <1>2 DEF Stream
  <2> QED
    BY <1>2, <1>7, <2>1, PauseIInv DEF Disconnect
<1> QED
  BY <1>1, <1>3, <1>4, <1>5, <1>6, <1>7,
     SubscribeIInv, QueryIInv, SendIInv, DeliverIInv, ArriveIInv, FinishIInv

\* Every step preserves the invariant.
LEMMA NextIInv == IInv /\ [Next]_vars => IInv'
<1> SUFFICES ASSUME IInv, [Next]_vars PROVE IInv'
  OBVIOUS
<1>1. CASE WriterStep
  BY <1>1, WriterIInv
<1>2. CASE StreamStep
  BY <1>2, StreamIInv
<1>3. CASE DeleteNamespace
  BY <1>3, RemovalIInv DEF DeleteNamespace
<1>4. ASSUME NEW r \in table, SweepRow(r) PROVE IInv'
  BY <1>4, RemovalIInv DEF SweepRow
<1>5. CASE UNCHANGED vars
  BY <1>5 DEF vars, IInv, TypeOK, Numbers, Stages, Gapless, Offsets, Forward, Complete,
              Distinct, Ordered, TwinNumbers, Sent
<1> QED
  BY <1>1, <1>2, <1>3, <1>4, <1>5 DEF Next

\* The invariant holds throughout.
LEMMA IInvHolds == Spec => []IInv
  BY InitIInv, NextIInv, PTL DEF Spec

----------------------------------------------------------------------------
\* Types hold, and the handler of GET /events takes off the channel only what
\* SubscribeEvents put on it (memory.go:331-334, sse.go:49-56).
THEOREM TypeCorrect == Spec => []TypeOK
<1>1. IInv => TypeOK
  BY DEF IInv
<1> QED
  BY <1>1, IInvHolds, PTL

\* SubscribeEvents never goes back, and sends no number twice unless two rows were
\* given it, whatever is appended and removed (memory.go:330-394, sqlite.go:294-370,
\* postgres.go:273-351, d1.go:159-222).
THEOREM NeverBack == Spec => []SentInOrder
<1>1. IInv => SentInOrder
  BY DEF IInv, SentInOrder, Forward, Ordered
<1> QED
  BY <1>1, IInvHolds, PTL

\* While nothing is removed, SubscribeEvents of memory, sqlite and d1 passes no row
\* by, for d1 although its Appends overlap (memory.go:366-388, sqlite.go:333-366,
\* d1.go:102-124,191-221).
THEOREM PassesNothing == Spec => []NothingSkipped
<1>1. IInv => NothingSkipped
  BY DEF IInv, NothingSkipped, NothingMissed, Complete, Steady
<1> QED
  BY <1>1, IInvHolds, PTL

----------------------------------------------------------------------------
\* Row x of a stream tells why it has passed row r by.
Excuses(x, r) == (x.no < r.no /\ x.seq >= r.seq) \/ x.seq = r.seq

\* A stream stands at a row that it sent.  What came after its query was committed
\* later than the batch, and what it has passed has an excuse.
Late(s) ==
    /\ stream[s].phase # "reading" => stream[s].batch = {}
    /\ stream[s].since = stream[s].from \/ \E x \in Sent(s) : x.seq = stream[s].since
    /\ \A r \in table \ stream[s].batch, b \in stream[s].batch :
           r.seq > stream[s].since => b.no < r.no
    /\ stream[s].phase # "closed" =>
           \A r \in table \ (Sent(s) \cup stream[s].batch) :
               stream[s].from < r.seq /\ r.seq <= stream[s].since
                   => \E x \in Sent(s) : Excuses(x, r)
    /\ \A x \in Sent(s) \cup stream[s].batch : x.no <= rows

LInv == IInv /\ (\A r \in table : r.no <= rows) /\ \A s \in Streams : Late(s)

\* What was sent and what is to be sent are rows.
LEMMA RowsOfStream ==
  ASSUME TypeOK, NEW s \in Streams
  PROVE  /\ Sent(s) \subseteq Row /\ stream[s].batch \subseteq Row /\ table \subseteq Row
         /\ stream[s].since \in Nat /\ stream[s].from \in Nat /\ stream[s] \in Stream
<1>1. sent[s] \in Seq(Row) /\ stream[s] \in Stream
  BY DEF TypeOK
<1>2. Sent(s) \subseteq Row
  BY <1>1 DEF Sent
<1> QED
  BY <1>1, <1>2 DEF TypeOK, Stream

\* A row that is committed comes after everything a stream has read.
LEMMA CommitLate ==
  ASSUME LInv, NEW s \in Streams, NEW offset, NEW seq \in Nat, Commit(offset, seq),
         UNCHANGED <<stream, sent>>
  PROVE  Late(s)'
<1> DEFINE row == [seq |-> seq, offset |-> offset, no |-> rows + 1]
<1>1. /\ table' = table \cup {row} /\ rows' = rows + 1
      /\ row.seq = seq /\ row.no = rows + 1 /\ rows \in Nat
  BY DEF Commit, LInv, IInv, TypeOK
<1> HIDE DEF row
<1>2. Late(s)
  BY DEF LInv
<1>3. /\ Sent(s) \subseteq Row /\ stream[s].batch \subseteq Row /\ table \subseteq Row
      /\ stream[s].since \in Nat /\ stream[s].from \in Nat /\ stream[s] \in Stream
  BY RowsOfStream DEF LInv, IInv
<1>4. Sent(s)' = Sent(s)
  BY DEF Sent
<1>5. \A x \in Sent(s) \cup stream[s].batch : x.no < row.no /\ x.no <= rows'
  BY <1>1, <1>2, <1>3 DEF Late, Row
<1>6. ASSUME stream[s].from < row.seq, row.seq <= stream[s].since
      PROVE  \E x \in Sent(s) : Excuses(x, row)
  <2>1. PICK x \in Sent(s) : x.seq = stream[s].since
    BY <1>1, <1>2, <1>3, <1>6 DEF Late
  <2> QED
    BY <1>5, <1>6, <2>1 DEF Excuses
<1> QED
  BY <1>1, <1>2, <1>4, <1>5, <1>6 DEF Late

\* A stream that does not move, over rows that may go.
LEMMA StillLate ==
  ASSUME LInv, NEW s \in Streams, table' \subseteq table, rows' = rows,
         stream'[s] = stream[s], sent'[s] = sent[s]
  PROVE  Late(s)'
<1>1. Sent(s)' = Sent(s)
  BY DEF Sent
<1> QED
  BY <1>1 DEF LInv, Late

\* A stream goes on or ends without a row to send.
Paused(s) ==
    /\ UNCHANGED <<table, rows, sent>>
    /\ stream'[s].phase # "reading" => stream'[s].batch = {}
    /\ stream[s].phase = "closed" => stream'[s].phase = "closed"
    /\ stream'[s].batch \in {{}, stream[s].batch}
    /\ stream'[s].from = stream[s].from /\ stream'[s].since = stream[s].since

\* What a failing cursor leaves behind is asked for again, but for twins of the row
\* that was sent last.
LEMMA PauseLate ==
  ASSUME LInv, NEW s \in Streams, Paused(s)
  PROVE  Late(s)'
<1> USE DEF Paused
<1>1. Late(s) /\ Forward(s)
  BY DEF LInv, IInv
<1>2. /\ Sent(s) \subseteq Row /\ stream[s].batch \subseteq Row /\ table \subseteq Row
      /\ stream[s].since \in Nat /\ stream[s].from \in Nat
  BY RowsOfStream DEF LInv, IInv
<1>3. Sent(s)' = Sent(s)
  BY DEF Sent
<1>4. ASSUME stream'[s].phase # "closed",
             NEW r \in table \ (Sent(s) \cup stream'[s].batch),
             stream[s].from < r.seq, r.seq <= stream[s].since
      PROVE  \E x \in Sent(s) : Excuses(x, r)
  <2>1. CASE r \notin stream[s].batch
    BY <1>1, <1>4, <2>1 DEF Late
  <2>2. CASE r \in stream[s].batch
    <3>1. r.seq = stream[s].since /\ stream[s].since # stream[s].from
      BY <1>1, <1>2, <1>4, <2>2 DEF Forward, Row
    <3>2. PICK x \in Sent(s) : x.seq = stream[s].since
      BY <1>1, <3>1 DEF Late
    <3> QED
      BY <3>1, <3>2 DEF Excuses
  <2> QED
    BY <2>1, <2>2
<1>5. \A x \in Sent(s) \cup stream'[s].batch : x.no <= rows
  BY <1>1 DEF Late
<1>6. \A r \in table \ stream'[s].batch, b \in stream'[s].batch :
          r.seq > stream[s].since => b.no < r.no
  BY <1>1 DEF Late
<1> QED
  BY <1>1, <1>3, <1>4, <1>5, <1>6 DEF Late

\* A query leaves out nothing above since.
LEMMA QueryLate ==
  ASSUME LInv, NEW s \in Streams, StreamQuery(s)
  PROVE  Late(s)'
<1> DEFINE above == {r \in table : r.seq > stream[s].since}
<1>1. /\ Late(s)
      /\ Sent(s) \subseteq Row /\ stream[s].batch \subseteq Row /\ table \subseteq Row
      /\ stream[s].since \in Nat /\ stream[s].from \in Nat /\ stream[s] \in Stream
  BY RowsOfStream DEF LInv, IInv
<1>2. /\ stream'[s].phase = "reading" /\ stream'[s].batch = above
      /\ stream'[s].from = stream[s].from /\ stream'[s].since = stream[s].since
      /\ stream[s].phase # "closed" /\ stream[s].batch = {}
      /\ UNCHANGED <<table, rows, sent>>
  BY <1>1 DEF StreamQuery, Update, LInv, IInv, TypeOK, Stream, Late
<1>3. Sent(s)' = Sent(s)
  BY <1>2 DEF Sent
<1>4. \A r \in table \ above : ~(r.seq > stream[s].since)
  OBVIOUS
<1>5. \A r \in above : r \in table
  OBVIOUS
<1>6. \A r \in table : r.no <= rows
  BY DEF LInv
<1> HIDE DEF above
<1> QED
  BY <1>1, <1>2, <1>3, <1>4, <1>5, <1>6 DEF Late

\* A row that is sent excuses those that came late below it.
LEMMA SendLate ==
  ASSUME LInv, NEW s \in Streams, StreamSend(s)
  PROVE  Late(s)'
<1>1. /\ Late(s)
      /\ Sent(s) \subseteq Row /\ stream[s].batch \subseteq Row /\ table \subseteq Row
      /\ stream[s].since \in Nat /\ stream[s].from \in Nat /\ stream[s] \in Stream
      /\ sent[s] \in Seq(Row) /\ TypeOK /\ Forward(s)
  BY RowsOfStream DEF LInv, IInv, TypeOK
<1>2. PICK r \in Lowest(stream[s].batch) :
          /\ stream' = [stream EXCEPT ![s] = [stream[s] EXCEPT !.batch = @ \ {r},
                                                               !.since = r.seq]]
          /\ sent' = [sent EXCEPT ![s] = Append(@, r)]
          /\ UNCHANGED <<table, rows>>
  BY DEF StreamSend, Update
<1>3. /\ r \in stream[s].batch /\ r \in Row /\ \A x \in stream[s].batch : r.seq <= x.seq
      /\ stream[s].since <= r.seq
  BY <1>1, <1>2 DEF Lowest, Forward
<1>4. /\ stream'[s].batch = stream[s].batch \ {r} /\ stream'[s].since = r.seq
      /\ stream'[s].phase = stream[s].phase /\ stream'[s].from = stream[s].from
      /\ stream[s].phase = "reading"
  BY <1>1, <1>2 DEF Stream, TypeOK, StreamSend, Reading
<1>5. Sent(s)' = Sent(s) \cup {r}
  <2>1. sent'[s] = Append(sent[s], r)
    BY <1>1, <1>2 DEF TypeOK
  <2>2. /\ DOMAIN sent[s] = 1..Len(sent[s]) /\ DOMAIN sent'[s] = 1..(Len(sent[s]) + 1)
        /\ \A i \in 1..Len(sent[s]) : sent'[s][i] = sent[s][i]
        /\ sent'[s][Len(sent[s]) + 1] = r /\ Len(sent[s]) \in Nat
    BY <1>1, <1>3, <2>1
  <2> QED
    BY <2>2 DEF Sent
<1>6. ASSUME NEW q \in table \ stream'[s].batch, NEW b \in stream'[s].batch, q.seq > r.seq
      PROVE  b.no < q.no
  <2>1. q # r /\ q \notin stream[s].batch /\ b \in stream[s].batch
    BY <1>3, <1>4, <1>6 DEF Row
  <2>2. q.seq > stream[s].since
    BY <1>1, <1>3, <1>6 DEF Row
  <2> QED
    BY <1>1, <2>1, <2>2 DEF Late
<1>7. ASSUME NEW q \in table \ (Sent(s)' \cup stream'[s].batch),
             stream[s].from < q.seq, q.seq <= r.seq
      PROVE  \E x \in Sent(s)' : Excuses(x, q)
  <2>1. q # r /\ q \notin stream[s].batch /\ q \notin Sent(s)
    BY <1>4, <1>5, <1>7
  <2>2. CASE q.seq <= stream[s].since
    BY <1>1, <1>4, <1>5, <1>7, <2>1, <2>2 DEF Late
  <2>3. CASE q.seq > stream[s].since
    <3>1. r.no < q.no
      BY <1>1, <1>3, <2>1, <2>3 DEF Late
    <3>2. r.seq >= q.seq
      BY <1>1, <1>3, <1>7 DEF Row
    <3> QED
      BY <1>5, <3>1, <3>2 DEF Excuses
  <2> QED
    BY <1>1, <2>2, <2>3 DEF Row
<1>8. \A x \in Sent(s)' \cup stream'[s].batch : x.no <= rows
  BY <1>1, <1>3, <1>4, <1>5 DEF Late
<1>9. \E x \in Sent(s)' : x.seq = stream'[s].since
  BY <1>4, <1>5
<1> QED
  BY <1>2, <1>4, <1>6, <1>7, <1>8, <1>9 DEF Late

\* A stream that begins, or is made anew, has passed nothing.
LEMMA FreshLate ==
  ASSUME LInv, NEW s \in Streams, UNCHANGED <<table, rows>>,
         sent'[s] = <<>>, stream'[s].batch = {}, stream'[s].since = stream'[s].from,
         stream'[s].since \in Nat
  PROVE  Late(s)'
<1>1. Sent(s)' = {}
  BY DEF Sent
<1>2. table \subseteq Row
  BY DEF LInv, IInv, TypeOK
<1>3. \A r \in table : ~(stream'[s].from < r.seq /\ r.seq <= stream'[s].since)
  BY <1>2 DEF Row
<1> QED
  BY <1>1, <1>3 DEF Late

\* The steps of a stream.
LEMMA StreamLate ==
  ASSUME LInv, StreamStep
  PROVE  \A t \in Streams : Late(t)'
<1>1. PICK s \in Streams :
          \/ \E since \in 0..MaxRows : Subscribe(s, since)
          \/ StreamQuery(s) \/ StreamSend(s) \/ StreamRest(s) \/ StreamStop(s)
          \/ ReplayFails(s) \/ CursorFails(s)
          \/ Deliver(s) \/ Arrive(s) \/ Disconnect(s) \/ Finish(s)
  BY DEF StreamStep
<1>2. TypeOK /\ stream[s] \in Stream /\ Late(s) /\ Forward(s)
  BY DEF LInv, IInv, TypeOK
<1>3. ASSUME NEW t \in Streams, t # s PROVE Late(t)'
  <2>1. UNCHANGED <<table, rows>> /\ stream'[t] = stream[t] /\ sent'[t] = sent[t]
    BY <1>1, <1>2, <1>3 DEF TypeOK, Subscribe, StreamQuery, StreamSend, StreamRest,
         StreamStop, ReplayFails, CursorFails, Deliver, Arrive, Disconnect, Finish, Update
  <2> QED
    BY <2>1, StillLate
<1> SUFFICES Late(s)'
  BY <1>3
<1>4. ASSUME NEW since \in 0..MaxRows, Subscribe(s, since) PROVE Late(s)'
  <2>1. stream[s].batch = {} /\ sent[s] = <<>>
    BY <1>2, <1>4 DEF Subscribe, Forward
  <2>2. /\ UNCHANGED <<table, rows, sent>> /\ since \in Nat
        /\ stream'[s] = [stream[s] EXCEPT !.phase = "replay", !.from = since, !.since = since]
    BY <1>2, <1>4 DEF Subscribe, Update, TypeOK
  <2>3. stream'[s].batch = {} /\ stream'[s].since = since /\ stream'[s].from = since
    BY <1>2, <2>1, <2>2 DEF Stream
  <2> QED
    BY <2>1, <2>2, <2>3, FreshLate
<1>5. CASE Finish(s)
  <2>1. stream'[s] = NewStream /\ sent'[s] = <<>> /\ UNCHANGED <<table, rows>>
    BY <1>2, <1>5 DEF Finish, Update, TypeOK
  <2>2. NewStream.batch = {} /\ NewStream.since = 0 /\ NewStream.from = 0
    BY DEF NewStream
  <2> QED
    BY <2>1, <2>2, FreshLate
<1>6. CASE StreamRest(s)
  <2>1. UNCHANGED <<table, rows, sent>> /\ stream'[s] = [stream[s] EXCEPT !.phase = "poll"]
    BY <1>2, <1>6 DEF StreamRest, Update, TypeOK
  <2>2. /\ stream'[s].phase = "poll" /\ stream'[s].batch = {} /\ stream[s].batch = {}
        /\ stream'[s].from = stream[s].from /\ stream'[s].since = stream[s].since
        /\ stream[s].phase # "closed"
    BY <1>2, <1>6, <2>1 DEF StreamRest, Reading, Stream
  <2> QED
    BY <2>1, <2>2, PauseLate DEF Paused
<1>7. CASE StreamStop(s)
  <2>1. /\ UNCHANGED <<table, rows, sent>>
        /\ stream'[s] = [stream[s] EXCEPT !.phase = "closed", !.batch = {}]
    BY <1>2, <1>7 DEF StreamStop, Update, TypeOK
  <2>2. /\ stream'[s].phase = "closed" /\ stream'[s].batch = {}
        /\ stream'[s].from = stream[s].from /\ stream'[s].since = stream[s].since
    BY <1>2, <2>1 DEF Stream
  <2> QED
    BY <2>1, <2>2, PauseLate DEF Paused
<1>8. CASE ReplayFails(s)
  <2>1. PICK phase \in {"poll", "closed"} :
            stream'[s] = [stream[s] EXCEPT !.phase = phase]
    BY <1>2, <1>8 DEF ReplayFails, Update, TypeOK
  <2>2. UNCHANGED <<table, rows, sent>> /\ stream[s].phase = "replay"
    BY <1>8 DEF ReplayFails
  <2>3. /\ stream'[s].phase = phase /\ stream'[s].batch = {} /\ stream[s].batch = {}
        /\ stream'[s].from = stream[s].from /\ stream'[s].since = stream[s].since
    BY <1>2, <2>1, <2>2 DEF Stream, Late
  <2> QED
    BY <2>2, <2>3, PauseLate DEF Paused
<1>9. CASE CursorFails(s)
  <2>1. /\ UNCHANGED <<table, rows, sent>> /\ stream[s].phase = "reading"
        /\ stream'[s] = [stream[s] EXCEPT !.phase = "poll", !.batch = {}]
    BY <1>2, <1>9 DEF CursorFails, Update, TypeOK, Reading
  <2>2. /\ stream'[s].phase = "poll" /\ stream'[s].batch = {}
        /\ stream'[s].from = stream[s].from /\ stream'[s].since = stream[s].since
    BY <1>2, <2>1 DEF Stream
  <2> QED
    BY <2>1, <2>2, PauseLate DEF Paused
<1>10. CASE Disconnect(s)
  <2>1. /\ UNCHANGED <<table, rows, sent>>
        /\ stream'[s] = [stream[s] EXCEPT !.cancelled = TRUE]
    BY <1>2, <1>10 DEF Disconnect, Update, TypeOK
  <2>2. /\ stream'[s].phase = stream[s].phase /\ stream'[s].batch = stream[s].batch
        /\ stream'[s].from = stream[s].from /\ stream'[s].since = stream[s].since
    BY <1>2, <2>1 DEF Stream
  <2>3. stream'[s].phase # "reading" => stream'[s].batch = {}
    BY <1>2, <2>2 DEF Late
  <2> QED
    BY <2>1, <2>2, <2>3, PauseLate DEF Paused
<1>11. CASE Deliver(s) \/ Arrive(s)
  BY <1>11, StillLate DEF Deliver, Arrive
<1> QED
  BY <1>1, <1>4, <1>5, <1>6, <1>7, <1>8, <1>9, <1>10, <1>11, QueryLate, SendLate

\* The steps of the writers: a row is committed, or the table stays.
LEMMA WriterLate ==
  ASSUME LInv, WriterStep
  PROVE  (\A r \in table' : r.no <= rows') /\ \A t \in Streams : Late(t)'
<1>1. rows \in Nat /\ \A r \in table : r.no \in Nat /\ r.no <= rows
  BY DEF LInv, IInv, TypeOK, Row
<1>2. ASSUME NEW offset, NEW n \in Nat, Commit(offset, n), UNCHANGED <<stream, sent>>
      PROVE  (\A r \in table' : r.no <= rows') /\ \A t \in Streams : Late(t)'
  <2>1. \A r \in table' : r.no <= rows'
    BY <1>1, <1>2 DEF Commit
  <2> QED
    BY <1>2, <2>1, CommitLate
<1>3. ASSUME UNCHANGED <<table, rows, stream, sent>>
      PROVE  (\A r \in table' : r.no <= rows') /\ \A t \in Streams : Late(t)'
  BY <1>1, <1>3, StillLate
<1>4. PICK w \in Writers : \/ AppendLock(w) \/ AppendLocked(w) \/ AppendSqlite(w)
                           \/ AppendBegin(w) \/ D1Offset(w) \/ D1Seq(w)
                           \/ AppendCommit(w) \/ AppendAborted(w)
  BY DEF WriterStep
<1>5. CASE AppendLocked(w) \/ AppendSqlite(w)
  <2>1. PICK n \in 1..MaxRows : Commit(n, n)
    BY <1>5 DEF AppendLocked, AppendSqlite
  <2>2. n \in Nat
    OBVIOUS
  <2> QED
    BY <1>2, <1>5, <2>1, <2>2 DEF AppendLocked, AppendSqlite
<1>6. CASE AppendCommit(w)
  <2>1. writer[w] \in Writer /\ writer[w].stage = "open"
    BY <1>6 DEF AppendCommit, LInv, IInv, TypeOK
  <2>2. writer[w].seq \in Nat
    BY <2>1 DEF Writer
  <2> QED
    BY <1>2, <1>6, <2>2 DEF AppendCommit
<1>7. CASE AppendLock(w) \/ AppendBegin(w) \/ D1Offset(w) \/ D1Seq(w) \/ AppendAborted(w)
  BY <1>3, <1>7 DEF AppendLock, AppendBegin, D1Offset, D1Seq, AppendAborted
<1> QED
  BY <1>4, <1>5, <1>6, <1>7

\* Every step preserves the invariant.
LEMMA NextLInv == LInv /\ [Next]_vars => LInv'
<1> SUFFICES ASSUME LInv, [Next]_vars
             PROVE  (\A r \in table' : r.no <= rows') /\ \A t \in Streams : Late(t)'
  BY NextIInv DEF LInv
<1>1. \A r \in table : r.no <= rows
  BY DEF LInv
<1>2. CASE WriterStep
  BY <1>2, WriterLate
<1>3. CASE StreamStep
  <2>1. UNCHANGED <<table, rows>>
    BY <1>3 DEF StreamStep, Subscribe, StreamQuery, StreamSend, StreamRest, StreamStop,
         ReplayFails, CursorFails, Deliver, Arrive, Disconnect, Finish
  <2> QED
    BY <1>1, <1>3, <2>1, StreamLate
<1>4. CASE DeleteNamespace
  BY <1>1, <1>4, StillLate DEF DeleteNamespace
<1>5. ASSUME NEW r \in table, SweepRow(r)
      PROVE  (\A q \in table' : q.no <= rows') /\ \A t \in Streams : Late(t)'
  BY <1>1, <1>5, StillLate DEF SweepRow
<1>6. CASE UNCHANGED vars
  BY <1>1, <1>6, StillLate DEF vars
<1> QED
  BY <1>2, <1>3, <1>4, <1>5, <1>6 DEF Next

\* Of all providers, and whatever is removed: SubscribeEvents passes by only rows that
\* were committed after one with a number at least as high that it had read, or that
\* have the number of one that it sent (sqlite.go:350-365, postgres.go:331-346).
THEOREM PassesOnlyLateRows == Spec => []SkipsOnlyLateRows
<1>1. Init => LInv
  <2> SUFFICES ASSUME Init PROVE LInv
    OBVIOUS
  <2>1. ASSUME NEW s \in Streams PROVE Late(s)
    BY <2>1 DEF Init, NewStream, Late, Sent
  <2> QED
    BY <2>1, InitIInv DEF Init, LInv
<1>2. LInv => SkipsOnlyLateRows
  BY DEF LInv, Late, SkipsOnlyLateRows, Excuses
<1> QED
  BY <1>1, <1>2, NextLInv, PTL DEF Spec

----------------------------------------------------------------------------
\* The rows of the table have the numbers from 1 on, as they were committed.
Filled ==
    /\ \A r \in table : r.seq = r.no /\ r.no \in 1..rows
    /\ \A k \in 1..rows : \E r \in table : r.seq = k

\* A stream has sent as many rows as lie between its start and its cursor.
Contiguous(s) == stream[s].since = stream[s].from + Len(sent[s])

FInv ==
    /\ IInv
    /\ Steady
    /\ Filled
    /\ \A s \in Streams : Contiguous(s)

\* The next number is the number of the next row.
LEMMA NextNumber ==
  ASSUME FInv, NEW n \in Nat \ {0}, IsNextSeq(n)
  PROVE  n = rows + 1
<1>1. rows \in Nat /\ table \subseteq Row
  BY DEF FInv, IInv, TypeOK
<1>2. n <= rows + 1
  <2>1. CASE n = 1
    BY <1>1, <2>1
  <2>2. ASSUME NEW r \in table, r.seq = n - 1 PROVE n <= rows + 1
    <3>1. r.seq \in 1..rows
      BY DEF FInv, Filled
    <3> QED
      BY <1>1, <2>2, <3>1
  <2> QED
    BY <2>1, <2>2 DEF IsNextSeq
<1>3. n > rows
  <2>1. CASE rows = 0
    BY <2>1
  <2>2. CASE rows # 0
    <3>1. PICK r \in table : r.seq = rows
      BY <1>1, <2>2 DEF FInv, Filled
    <3> QED
      BY <3>1 DEF IsNextSeq
  <2> QED
    BY <2>1, <2>2
<1> QED
  BY <1>1, <1>2, <1>3

\* A d1 writer that can insert still has the next number, though it read it long ago.
LEMMA OpenNumber ==
  ASSUME FInv, NEW w \in Writers, AppendCommit(w)
  PROVE  /\ writer[w].seq \in Nat \ {0} /\ writer[w].offset \in Nat \ {0}
         /\ IsNextSeq(writer[w].seq)
<1> DEFINE n == writer[w].seq
           o == writer[w].offset
<1>1. TypeOK /\ Numbers /\ removals = 0 /\ provider # "postgres"
  BY DEF FInv, IInv, Steady
<1>2. writer[w] \in Writer /\ writer[w].stage = "open" /\ table \subseteq Row
  BY <1>1 DEF TypeOK, AppendCommit
<1>3. n \in Nat \ {0} /\ o \in Nat \ {0}
  BY <1>2 DEF Writer
<1>4. provider = "d1"
  BY <1>1, <1>2 DEF Numbers, Stages
<1>5. \A r \in table : r.seq < n
  BY <1>1, CommitOpen DEF FInv
<1>6. o \notin Offsets
  BY <1>4 DEF AppendCommit, FreeOffset, Offsets
<1>7. n = o /\ \A k \in 1..(o - 1) : k \in Offsets
  BY <1>1, <1>2, <1>4, <1>6 DEF Numbers, Gapless
<1>8. CASE n = 1
  BY <1>3, <1>5, <1>8 DEF IsNextSeq
<1>9. CASE n # 1
  <2>1. n - 1 \in 1..(o - 1)
    BY <1>3, <1>7, <1>9
  <2>2. PICK r \in table : r.offset = n - 1
    BY <1>7, <2>1 DEF Offsets
  <2>3. r.seq = n - 1
    BY <1>1, <1>4, <2>2 DEF Numbers, Gapless
  <2> QED
    BY <1>3, <1>5, <2>3 DEF IsNextSeq
<1> QED
  BY <1>3, <1>8, <1>9

\* A commit under the next number.
LEMMA CommitFilled ==
  ASSUME FInv, NEW offset, NEW n \in Nat \ {0}, IsNextSeq(n), Commit(offset, n)
  PROVE  Filled'
<1> DEFINE row == [seq |-> n, offset |-> offset, no |-> rows + 1]
<1>1. rows \in Nat /\ n = rows + 1 /\ Filled
  BY NextNumber DEF FInv, IInv, TypeOK
<1>2. /\ table' = table \cup {row} /\ row.seq = rows + 1 /\ row.no = rows + 1
      /\ rows' = rows + 1
  BY <1>1 DEF Commit
<1> HIDE DEF row
<1>3. ASSUME NEW r \in table' PROVE r.seq = r.no /\ r.no \in 1..rows'
  BY <1>1, <1>2 DEF Filled
<1>4. ASSUME NEW k \in 1..rows' PROVE \E r \in table' : r.seq = k
  BY <1>1, <1>2 DEF Filled
<1> QED
  BY <1>3, <1>4 DEF Filled

\* The numbers that were sent, as a sequence.
LEMMA NumbersSeq ==
  ASSUME NEW q \in Seq(Row)
  PROVE  LET numbers == [i \in DOMAIN q |-> q[i].no]
         IN  /\ numbers \in Seq(Nat) /\ Len(numbers) = Len(q)
             /\ \A r \in Row : [i \in DOMAIN Append(q, r) |-> Append(q, r)[i].no]
                                   = Append(numbers, r.no)
<1> DEFINE numbers == [i \in DOMAIN q |-> q[i].no]
<1>1. Len(q) \in Nat /\ DOMAIN q = 1..Len(q) /\ \A i \in 1..Len(q) : q[i].no \in Nat
  <2>1. Len(q) \in Nat /\ DOMAIN q = 1..Len(q) /\ \A i \in 1..Len(q) : q[i] \in Row
    OBVIOUS
  <2> QED
    BY <2>1 DEF Row
<1>2. numbers \in [1..Len(q) -> Nat]
  BY <1>1
<1>3. numbers \in Seq(Nat) /\ Len(numbers) = Len(q)
  BY <1>1, <1>2, IsASeq, LenProperties
<1>4. ASSUME NEW r \in Row
      PROVE  [i \in DOMAIN Append(q, r) |-> Append(q, r)[i].no] = Append(numbers, r.no)
  <2> DEFINE longer == [i \in DOMAIN Append(q, r) |-> Append(q, r)[i].no]
             n == Len(q) + 1
  <2>1. r.no \in Nat
    BY DEF Row
  <2>2. /\ DOMAIN Append(q, r) = 1..n
        /\ \A i \in 1..Len(q) : Append(q, r)[i] = q[i]
        /\ Append(q, r)[n] = r
    BY <1>1
  <2>3. longer \in [1..n -> Nat] /\ \A i \in 1..Len(q) : longer[i] = numbers[i]
        /\ longer[n] = r.no
    BY <1>1, <2>1, <2>2
  <2>4. longer \in Seq(Nat) /\ Len(longer) = n
    BY <1>1, <2>3, IsASeq, LenProperties
  <2>5. Append(numbers, r.no) \in Seq(Nat) /\ Len(Append(numbers, r.no)) = n
    BY <1>3, <2>1
  <2>6. \A i \in 1..n : longer[i] = Append(numbers, r.no)[i]
    BY <1>1, <1>3, <2>1, <2>3
  <2> QED
    BY <2>4, <2>5, <2>6, SeqEqual
<1> QED
  BY <1>3, <1>4

\* A step that commits nothing, and sends nothing.
LEMMA StillFInv ==
  ASSUME FInv, IInv', UNCHANGED <<provider, table, rows, removals, sent>>,
         \A s \in Streams : /\ stream'[s].from = stream[s].from
                            /\ stream'[s].since = stream[s].since
  PROVE  FInv'
BY DEF FInv, Filled, Contiguous, Steady

\* The steps of the writers: a row more, or none.
LEMMA WriterFeed ==
  ASSUME FInv, IInv', WriterStep
  PROVE  FInv' /\ (Promise!Publish \/ UNCHANGED Promise!vars)
<1>1. PICK w \in Writers :
          \/ AppendLock(w) \/ AppendLocked(w) \/ AppendSqlite(w) \/ AppendBegin(w)
          \/ D1Offset(w) \/ D1Seq(w) \/ AppendCommit(w) \/ AppendAborted(w)
  BY DEF WriterStep
<1>2. ASSUME NEW o, NEW n \in Nat \ {0}, IsNextSeq(n), Commit(o, n),
             UNCHANGED <<provider, removals, stream, sent, read>>
      PROVE  FInv' /\ Promise!Publish
  <2>1. Filled'
    BY <1>2, CommitFilled
  <2>2. FInv'
    BY <1>2, <2>1 DEF FInv, Contiguous, Steady
  <2> QED
    BY <1>2, <2>2 DEF Commit, Promise!Publish, Served, Since, NumbersSent
<1>3. CASE AppendLocked(w)
  <2>1. PICK n \in 1..MaxRows : IsNextSeq(n) /\ Commit(n, n)
    BY <1>3 DEF AppendLocked
  <2>2. n \in Nat \ {0}
    OBVIOUS
  <2> QED
    BY <1>2, <1>3, <2>1, <2>2 DEF AppendLocked
<1>4. CASE AppendSqlite(w)
  <2>1. PICK n \in 1..MaxRows : IsNextSeq(n) /\ Commit(n, n)
    BY <1>4 DEF AppendSqlite
  <2>2. n \in Nat \ {0}
    OBVIOUS
  <2> QED
    BY <1>2, <1>4, <2>1, <2>2 DEF AppendSqlite
<1>5. CASE AppendCommit(w)
  <2>1. writer[w].seq \in Nat \ {0} /\ IsNextSeq(writer[w].seq)
    BY <1>5, OpenNumber
  <2> QED
    BY <1>2, <1>5, <2>1 DEF AppendCommit
<1>6. CASE AppendLock(w) \/ AppendBegin(w) \/ D1Offset(w) \/ D1Seq(w) \/ AppendAborted(w)
  <2>1. UNCHANGED <<provider, table, rows, removals, stream, sent, read>>
    BY <1>6 DEF AppendLock, AppendBegin, D1Offset, D1Seq, AppendAborted
  <2> QED
    BY <2>1, StillFInv DEF Promise!vars, Served, Since, NumbersSent
<1> QED
  BY <1>1, <1>3, <1>4, <1>5, <1>6

\* A row on the channel: the next one, since every number stands for a row, the
\* batch holds all those above the cursor, and this is the lowest of them.
LEMMA SendFeed ==
  ASSUME FInv, IInv', NEW s \in Streams, StreamSend(s)
  PROVE  FInv' /\ Promise!Give(s)
<1>1. PICK r \in Lowest(stream[s].batch) :
          /\ Reading(s) /\ Buffered(s) < Cap
          /\ Update(s, [stream[s] EXCEPT !.batch = @ \ {r}, !.since = r.seq])
          /\ sent' = [sent EXCEPT ![s] = Append(@, r)]
          /\ UNCHANGED <<provider, table, rows, removals, writer, read>>
  BY DEF StreamSend
<1> DEFINE new == [stream[s] EXCEPT !.batch = @ \ {r}, !.since = r.seq]
           next == stream[s].from + Len(sent[s]) + 1
<1>2. /\ stream \in [Streams -> Stream] /\ stream[s] \in Stream /\ rows \in Nat
      /\ sent \in [Streams -> Seq(Row)] /\ sent[s] \in Seq(Row) /\ table \subseteq Row
      /\ read[s] \in Nat
  BY DEF FInv, IInv, TypeOK
<1>3. /\ stream[s].batch \subseteq Row /\ stream[s].since \in Nat /\ stream[s].from \in Nat
      /\ stream[s].phase = "reading" /\ Len(sent[s]) \in Nat
  BY <1>1, <1>2 DEF Stream, Reading
<1>4. /\ stream' = [stream EXCEPT ![s] = new] /\ new.from = stream[s].from
      /\ new.since = r.seq /\ new.phase = stream[s].phase
  BY <1>1, <1>2 DEF Update, Stream
<1>5. r \in Row /\ r \in stream[s].batch /\ \A x \in stream[s].batch : r.seq <= x.seq
  BY <1>1, <1>3 DEF Lowest
<1>6. Filled /\ stream[s].since + 1 = next /\ Forward(s) /\ Complete(s)
  BY <1>2, <1>3 DEF FInv, IInv, Contiguous
<1>7. r.seq = next /\ r.no = next /\ next <= rows
  <2>1. removals = 0 /\ provider # "postgres" /\ ~TwinNumbers
    BY DEF FInv, TwinNumbers, Steady
  <2>2. r \in table /\ r.seq = r.no /\ r.no \in 1..rows
    BY <1>5, <1>6, <2>1 DEF Complete, Filled
  <2>3. stream[s].since <= r.seq /\ stream[s].since # r.seq
    BY <1>5, <1>6, <2>1 DEF Forward
  <2>4. next <= r.seq /\ next \in 1..rows
    BY <1>2, <1>3, <1>6, <2>2, <2>3
  <2>5. PICK x \in table : x.seq = next
    BY <1>6, <2>4 DEF Filled
  <2>6. ASSUME x \notin stream[s].batch PROVE x.seq > r.seq
    BY <1>3, <1>5, <1>6, <2>1, <2>5, <2>6 DEF Complete
  <2>7. x \in stream[s].batch
    BY <2>2, <2>4, <2>5, <2>6
  <2>8. r.seq <= next
    BY <1>5, <2>5, <2>7
  <2> QED
    BY <2>2, <2>4, <2>8
<1>8. FInv'
  <2>1. ASSUME NEW t \in Streams PROVE Contiguous(t)'
    <3>1. CASE t = s
      <4>1. sent'[s] = Append(sent[s], r) /\ Len(sent'[s]) = Len(sent[s]) + 1
        BY <1>1, <1>2, <1>5
      <4>2. stream'[s].since = next /\ stream'[s].from = stream[s].from
        BY <1>2, <1>4, <1>7
      <4>3. stream'[s].since = stream'[s].from + Len(sent'[s])
        BY <1>3, <4>1, <4>2
      <4> QED
        BY <3>1, <4>3 DEF Contiguous
    <3>2. CASE t # s
      <4>1. sent'[t] = sent[t] /\ stream'[t] = stream[t]
        BY <1>1, <1>2, <1>4, <3>2
      <4> QED
        BY <4>1 DEF FInv, Contiguous
    <3> QED
      BY <3>1, <3>2
  <2> QED
    BY <1>1, <2>1 DEF FInv, Filled, Steady
<1>9. NumbersSent' = [NumbersSent EXCEPT ![s] = Append(@, next)]
  <2>1. [i \in DOMAIN Append(sent[s], r) |-> Append(sent[s], r)[i].no]
            = Append(NumbersSent[s], next)
    BY <1>2, <1>5, <1>7, NumbersSeq DEF NumbersSent
  <2>2. sent'[s] = Append(sent[s], r)
    BY <1>1, <1>2
  <2>3. ASSUME NEW t \in Streams, t # s PROVE NumbersSent'[t] = NumbersSent[t]
    <3>1. sent'[t] = sent[t]
      BY <1>1, <1>2, <2>3
    <3> QED
      BY <3>1 DEF NumbersSent
  <2>4. NumbersSent'[s] = Append(NumbersSent[s], next)
    BY <2>1, <2>2 DEF NumbersSent
  <2>5. /\ NumbersSent = [t \in Streams |-> NumbersSent[t]]
        /\ NumbersSent' = [t \in Streams |-> NumbersSent'[t]]
    BY DEF NumbersSent
  <2> QED
    BY <2>3, <2>4, <2>5
<1>10. Len(NumbersSent[s]) = Len(sent[s])
  BY <1>2, NumbersSeq DEF NumbersSent
<1>11. Served' = Served /\ Since' = Since /\ s \in Served /\ Since[s] = stream[s].from
  <2>1. \A t \in Streams : stream'[t].from = stream[t].from /\ stream'[t].phase = stream[t].phase
    BY <1>2, <1>4
  <2> QED
    BY <1>3, <2>1 DEF Served, Since
<1> QED
  BY <1>1, <1>7, <1>8, <1>9, <1>10, <1>11 DEF Promise!Give, Buffered

\* A goroutine that goes on, or closes its channel: the client notices nothing.
LEMMA PauseFeed ==
  ASSUME FInv, IInv', NEW s \in Streams, NEW new, Update(s, new),
         new.from = stream[s].from, new.since = stream[s].since,
         stream[s].phase # "new", new.phase # "new",
         UNCHANGED <<provider, table, rows, removals, writer, sent, read>>
  PROVE  FInv' /\ UNCHANGED Promise!vars
<1>1. stream \in [Streams -> Stream] /\ stream' = [stream EXCEPT ![s] = new]
  BY DEF FInv, IInv, TypeOK, Update
<1>2. ASSUME NEW t \in Streams
      PROVE  /\ stream'[t].from = stream[t].from /\ stream'[t].since = stream[t].since
             /\ stream'[t].phase = "new" <=> stream[t].phase = "new"
  <2>1. CASE t = s
    BY <1>1, <2>1
  <2>2. CASE t # s
    BY <1>1, <2>2
  <2> QED
    BY <2>1, <2>2
<1>3. FInv'
  BY <1>2, StillFInv
<1>4. Served' = Served /\ Since' = Since /\ NumbersSent' = NumbersSent
  BY <1>2 DEF Served, Since, NumbersSent
<1> QED
  BY <1>3, <1>4 DEF Promise!vars

\* A client names the number it has: the channel of a new stream is empty.
LEMMA SubscribeFeed ==
  ASSUME FInv, IInv', NEW s \in Streams, NEW since \in Nat, Subscribe(s, since)
  PROVE  FInv' /\ Promise!Join(s)
<1> DEFINE new == [stream[s] EXCEPT !.phase = "replay", !.from = since, !.since = since]
<1>1. /\ stream \in [Streams -> Stream] /\ stream[s] \in Stream /\ Forward(s)
      /\ stream' = [stream EXCEPT ![s] = new] /\ stream[s].phase = "new"
  BY DEF FInv, IInv, TypeOK, Subscribe, Update
<1>2. new.from = since /\ new.since = since /\ new.phase = "replay"
  BY <1>1 DEF Stream
<1> HIDE DEF new
<1>3. /\ stream'[s] = new /\ \A t \in Streams : t # s => stream'[t] = stream[t]
      /\ sent[s] = <<>> /\ UNCHANGED <<provider, table, rows, removals, sent, read>>
  BY <1>1 DEF Forward, Subscribe
<1>4. ASSUME NEW t \in Streams PROVE Contiguous(t)'
  <2>1. CASE t = s
    <3>1. Len(sent'[s]) = 0
      BY <1>3
    <3> QED
      BY <1>2, <1>3, <2>1, <3>1 DEF Contiguous
  <2>2. CASE t # s
    BY <1>3, <2>2 DEF FInv, Contiguous
  <2> QED
    BY <2>1, <2>2
<1>5. FInv'
  BY <1>3, <1>4 DEF FInv, Filled, Steady
<1>6. s \notin Served /\ Served' = Served \cup {s}
  BY <1>1, <1>2, <1>3 DEF Served
<1>7. Since' = [Since EXCEPT ![s] = since] /\ Since'[s] = since
  BY <1>2, <1>3 DEF Since
<1>8. NumbersSent' = NumbersSent
  BY <1>3 DEF NumbersSent
<1> QED
  BY <1>3, <1>5, <1>6, <1>7, <1>8 DEF Promise!Join

\* The handler takes an event off the channel.
LEMMA DeliverFeed ==
  ASSUME FInv, IInv', NEW s \in Streams, Deliver(s)
  PROVE  FInv' /\ Promise!Take(s)
<1>1. sent[s] \in Seq(Row)
  BY DEF FInv, IInv, TypeOK
<1>2. Len(NumbersSent[s]) = Len(sent[s])
  BY <1>1, NumbersSeq DEF NumbersSent
<1>3. FInv'
  BY StillFInv DEF Deliver
<1>4. Served' = Served /\ Since' = Since /\ NumbersSent' = NumbersSent
  BY DEF Deliver, Served, Since, NumbersSent
<1> QED
  BY <1>2, <1>3, <1>4 DEF Deliver, Promise!Take

\* The request ends, and the subscription with it, when the closed channel is empty.
LEMMA FinishFeed ==
  ASSUME FInv, IInv', NEW s \in Streams, Finish(s)
  PROVE  FInv' /\ Promise!Leave(s)
<1>1. /\ stream \in [Streams -> Stream] /\ sent \in [Streams -> Seq(Row)]
      /\ stream[s].phase = "closed" /\ read[s] = Len(sent[s])
      /\ stream' = [stream EXCEPT ![s] = NewStream] /\ sent' = [sent EXCEPT ![s] = <<>>]
      /\ read' = [read EXCEPT ![s] = 0] /\ UNCHANGED <<provider, table, rows, removals>>
  BY DEF FInv, IInv, TypeOK, Finish, Update
<1>2. NewStream.from = 0 /\ NewStream.since = 0 /\ NewStream.phase = "new"
  BY DEF NewStream
<1>3. /\ stream'[s] = NewStream /\ sent'[s] = <<>>
      /\ \A t \in Streams : t # s => stream'[t] = stream[t] /\ sent'[t] = sent[t]
  BY <1>1
<1>4. Len(NumbersSent[s]) = Len(sent[s])
  BY <1>1, NumbersSeq DEF NumbersSent
<1>5. ASSUME NEW t \in Streams PROVE Contiguous(t)'
  <2>1. CASE t = s
    <3>1. Len(sent'[s]) = 0
      BY <1>3
    <3> QED
      BY <1>2, <1>3, <2>1, <3>1 DEF Contiguous
  <2>2. CASE t # s
    BY <1>3, <2>2 DEF FInv, Contiguous
  <2> QED
    BY <2>1, <2>2
<1>6. FInv'
  BY <1>1, <1>5 DEF FInv, Filled, Steady
<1>7. s \in Served /\ Served' = Served \ {s}
  BY <1>1, <1>2, <1>3 DEF Served
<1>8. Since' = [Since EXCEPT ![s] = 0]
  BY <1>2, <1>3 DEF Since
<1>9. NumbersSent' = [NumbersSent EXCEPT ![s] = <<>>]
  <2>1. NumbersSent'[s] = <<>>
    BY <1>3 DEF NumbersSent
  <2>2. \A t \in Streams : t # s => NumbersSent'[t] = NumbersSent[t]
    BY <1>3 DEF NumbersSent
  <2>3. /\ NumbersSent = [t \in Streams |-> NumbersSent[t]]
        /\ NumbersSent' = [t \in Streams |-> NumbersSent'[t]]
    BY DEF NumbersSent
  <2> QED
    BY <2>1, <2>2, <2>3
<1> QED
  BY <1>1, <1>4, <1>6, <1>7, <1>8, <1>9 DEF Promise!Leave

\* The steps of the streams.
LEMMA StreamFeed ==
  ASSUME FInv, IInv', StreamStep
  PROVE  FInv' /\ (\/ \E s \in Streams : \/ Promise!Join(s) \/ Promise!Give(s)
                                          \/ Promise!Take(s) \/ Promise!Leave(s)
                   \/ UNCHANGED Promise!vars)
<1>1. PICK s \in Streams :
          \/ \E since \in 0..MaxRows : Subscribe(s, since)
          \/ StreamQuery(s) \/ StreamSend(s) \/ StreamRest(s) \/ StreamStop(s)
          \/ ReplayFails(s) \/ CursorFails(s)
          \/ Deliver(s) \/ Arrive(s) \/ Disconnect(s) \/ Finish(s)
  BY DEF StreamStep
<1>2. stream[s] \in Stream
  BY DEF FInv, IInv, TypeOK
<1>3. CASE StreamQuery(s)
  <2> DEFINE new == [stream[s] EXCEPT !.phase = "reading",
                                      !.batch = {r \in table : r.seq > stream[s].since}]
  <2>1. new.from = stream[s].from /\ new.since = stream[s].since /\ new.phase = "reading"
    BY <1>2 DEF Stream
  <2> HIDE DEF new
  <2>2. Update(s, new)
    BY <1>3 DEF StreamQuery, new
  <2> QED
    BY <1>3, <2>1, <2>2, PauseFeed DEF StreamQuery
<1>4. CASE StreamRest(s)
  <2> DEFINE new == [stream[s] EXCEPT !.phase = "poll"]
  <2>1. new.from = stream[s].from /\ new.since = stream[s].since /\ new.phase = "poll"
    BY <1>2 DEF Stream
  <2> HIDE DEF new
  <2>2. Update(s, new)
    BY <1>4 DEF StreamRest, new
  <2> QED
    BY <1>4, <2>1, <2>2, PauseFeed DEF StreamRest, Reading
<1>5. CASE StreamStop(s)
  <2> DEFINE new == [stream[s] EXCEPT !.phase = "closed", !.batch = {}]
  <2>1. new.from = stream[s].from /\ new.since = stream[s].since /\ new.phase = "closed"
    BY <1>2 DEF Stream
  <2> HIDE DEF new
  <2>2. Update(s, new)
    BY <1>5 DEF StreamStop, new
  <2> QED
    BY <1>5, <2>1, <2>2, PauseFeed DEF StreamStop, Reading
<1>6. CASE ReplayFails(s)
  <2>1. PICK phase \in {"poll", "closed"} : Update(s, [stream[s] EXCEPT !.phase = phase])
    BY <1>6 DEF ReplayFails
  <2> DEFINE new == [stream[s] EXCEPT !.phase = phase]
  <2>2. new.from = stream[s].from /\ new.since = stream[s].since /\ new.phase = phase
    BY <1>2 DEF Stream
  <2> HIDE DEF new
  <2>3. Update(s, new)
    BY <2>1 DEF new
  <2> QED
    BY <1>6, <2>2, <2>3, PauseFeed DEF ReplayFails
<1>7. CASE CursorFails(s)
  <2> DEFINE new == [stream[s] EXCEPT !.phase = "poll", !.batch = {}]
  <2>1. new.from = stream[s].from /\ new.since = stream[s].since /\ new.phase = "poll"
    BY <1>2 DEF Stream
  <2> HIDE DEF new
  <2>2. Update(s, new)
    BY <1>7 DEF CursorFails, new
  <2> QED
    BY <1>7, <2>1, <2>2, PauseFeed DEF CursorFails, Reading
<1>8. CASE Disconnect(s)
  <2> DEFINE new == [stream[s] EXCEPT !.cancelled = TRUE]
  <2>1. /\ new.from = stream[s].from /\ new.since = stream[s].since
        /\ new.phase = stream[s].phase
    BY <1>2 DEF Stream
  <2> HIDE DEF new
  <2>2. Update(s, new)
    BY <1>8 DEF Disconnect, new
  <2> QED
    BY <1>8, <2>1, <2>2, PauseFeed DEF Disconnect
<1>9. ASSUME NEW since \in 0..MaxRows, Subscribe(s, since)
      PROVE  FInv' /\ Promise!Join(s)
  BY <1>9, StreamConstants, SubscribeFeed
<1>10. CASE Arrive(s)
  BY <1>10, StillFInv DEF Arrive, Promise!vars, Served, Since, NumbersSent
<1> QED
  BY <1>1, <1>3, <1>4, <1>5, <1>6, <1>7, <1>8, <1>9, <1>10, SendFeed, DeliverFeed, FinishFeed

\* Where nothing is removed, every step is a step of the feed or unseen.
LEMMA StepFeed ==
  ASSUME FInv, IInv', [Next]_vars, Steady'
  PROVE  FInv' /\ [Promise!Next]_Promise!vars
<1>1. removals = 0 /\ removals' = 0
  BY DEF FInv, Steady
<1>2. CASE WriterStep
  BY <1>2, WriterFeed DEF Promise!Next
<1>3. CASE StreamStep
  BY <1>3, StreamFeed DEF Promise!Next
<1>4. CASE UNCHANGED vars
  <2>1. UNCHANGED <<provider, table, rows, removals, stream, sent, read>>
    BY <1>4 DEF vars
  <2> QED
    BY <2>1, StillFInv DEF Promise!vars, Served, Since, NumbersSent
<1> QED
  BY <1>1, <1>2, <1>3, <1>4 DEF Next, DeleteNamespace, SweepRow

\* Removals are counted, and the provider stays.
LEMMA OneRemoval ==
  [Next]_vars => /\ provider' = provider
                 /\ \/ removals' = removals
                    \/ removals < MaxRemovals /\ removals' = removals + 1
<1> SUFFICES ASSUME [Next]_vars
             PROVE  /\ provider' = provider
                    /\ \/ removals' = removals
                       \/ removals < MaxRemovals /\ removals' = removals + 1
  OBVIOUS
<1>1. CASE WriterStep
  BY <1>1 DEF WriterStep, AppendLock, AppendLocked, AppendSqlite, AppendBegin, D1Offset,
              D1Seq, AppendCommit, AppendAborted
<1>2. CASE StreamStep
  BY <1>2 DEF StreamStep, Subscribe, StreamQuery, StreamSend, StreamRest, StreamStop,
              ReplayFails, CursorFails, Deliver, Arrive, Disconnect, Finish
<1>3. CASE DeleteNamespace \/ \E r \in table : SweepRow(r)
  BY <1>3 DEF DeleteNamespace, SweepRow
<1> QED
  BY <1>1, <1>2, <1>3 DEF Next, vars

\* What was removed stays removed.
LEMMA SteadyBefore ==
  ASSUME TypeOK, [Next]_vars, Steady'
  PROVE  Steady
<1>1. removals \in Nat /\ removals' = 0 /\ provider' # "postgres"
  BY DEF TypeOK, Steady
<1>2. provider' = provider /\ (removals' = removals \/ removals' = removals + 1)
  BY OneRemoval
<1> QED
  BY <1>1, <1>2 DEF Steady

LEMMA InitFeed ==
  ASSUME Init
  PROVE  (Steady => FInv) /\ Promise!Init
<1>1. IInv
  BY InitIInv
<1>2. Filled
  BY DEF Init, Filled
<1>3. ASSUME NEW s \in Streams
      PROVE  /\ stream[s] = NewStream /\ sent[s] = <<>> /\ NumbersSent[s] = <<>>
             /\ Contiguous(s)
  <2>1. stream[s] = NewStream /\ sent[s] = <<>> /\ Len(sent[s]) = 0
    BY DEF Init
  <2> QED
    BY <2>1 DEF Contiguous, NewStream, NumbersSent
<1>4. Served = {} /\ Since = [s \in Streams |-> 0]
  BY <1>3 DEF Served, Since, NewStream
<1>5. NumbersSent = [s \in Streams |-> <<>>]
  BY <1>3 DEF NumbersSent
<1> QED
  BY <1>1, <1>2, <1>3, <1>4, <1>5 DEF FInv, Promise!Init, Init

\* What provider.go:78-79 promises of SubscribeEvents, and the handler of GET /events keeps
\* when the channel is closed on it (sse.go:49-56): until a row is removed, every stream of
\* memory, sqlite and d1 is a feed.  Rows leave in the order of their commits, from the one
\* after that the client named, without a gap, whatever the channel holds, whichever cursor
\* fails and however the three statements of d1's Appends interleave.
THEOREM StreamIsFeed == Spec => ImplementsFeed
<1> DEFINE FeedStep == Steady' => [Promise!Next]_Promise!vars
<1>1. Init => (Steady => FInv) /\ Promise!Init
  BY InitFeed
<1>2. IInv /\ (Steady => FInv) /\ IInv' /\ [Next]_vars => (Steady => FInv)' /\ FeedStep
  BY SteadyBefore, StepFeed DEF IInv
<1>3. IInv /\ (Steady => FInv) /\ IInv' /\ [Next]_vars => [FeedStep]_vars
  BY <1>2
<1> HIDE DEF FeedStep
<1>4. Spec => Promise!Init /\ [][FeedStep]_vars
  BY <1>1, <1>2, <1>3, IInvHolds, PTL DEF Spec
<1> QED
  BY <1>4 DEF ImplementsFeed, FeedStep

\* A deployment on these providers from which nothing is ever removed implements Feed: its
\* streams have no behaviour that Feed does not have.
THEOREM SteadyIsFeed ==
  ASSUME MaxRemovals = 0, "postgres" \notin Providers
  PROVE  Spec => Promise!Spec
<1>1. Init => Steady /\ FInv /\ Promise!Init
  BY InitFeed DEF Init, Steady
<1>2. Steady /\ [Next]_vars => Steady'
  BY OneRemoval DEF Steady
<1>3. Steady /\ FInv /\ IInv' /\ [Next]_vars
          => Steady' /\ FInv' /\ [Promise!Next]_Promise!vars
  BY <1>2, StepFeed
<1> QED
  BY <1>1, <1>3, IInvHolds, PTL DEF Spec, Promise!Spec
=============================================================================
