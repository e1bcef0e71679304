---------------------------- MODULE JournalProofs ----------------------------
(***************************************************************************)
(* The journal for every ring, batch size, set of payloads and number of   *)
(* lives: what is in the sink, what the watermarks promise, and what one   *)
(* snapshot of the status block may show.                                  *)
(***************************************************************************)
EXTENDS Journal, TLAPS

\* The sequence q of records holds the payloads of l from offset off on, each
\* under its own sequence number.
Carries(q, off, l) ==
  \A i \in 1 .. Len(q) : q[i].seq = First + off + i - 1 /\ q[i].payload = l[off + i]

\* Sink, batch and ring hold, in this order and without a gap, what the writer
\* has accepted, up to the point where a failure drops the batch.
QueueInv ==
  /\ next_sequence = First + Len(log)
  /\ Len(file) <= Len(log) /\ Carries(file, 0, log)
  /\ life = "up" => base <= First + Len(file)
  /\ life = "up" /\ ~status.poisoned =>
       /\ expected = First + Len(file) + Len(batch)
       /\ next_sequence = expected + Len(ring)
       /\ Carries(batch, Len(file), log)
       /\ Carries(ring, Len(file) + Len(batch), log)

\* What the worker relies on at each point of drain_batch and shutdown.
WorkerInv ==
  life = "up" =>
    /\ status.closed <=> writer = "closed"
    /\ status.poisoned <=> failed \/ (wpc = "gone" /\ ~status.complete)
    /\ wpc \notin {"idle", "gone"} => ~failed
    /\ wpc = "write" => batch # <<>>
    /\ wpc \notin {"read", "write"} => batch = <<>>
    /\ status.written <= First + Len(file)
    /\ wpc \notin {"write", "written"} /\ ~status.poisoned => status.written = First + Len(file)
    /\ wpc \in {"durable", "lastdurable", "complete"} => synced = Len(file)
    /\ wpc = "complete" => status.durable = First + Len(file)
    /\ shutting => /\ wpc \notin {"idle", "gone"}
                   /\ writer = "closed" /\ visible = Len(ring) /\ ~status.complete
    /\ wpc \in {"lastflush", "lastdurable", "complete"} => shutting /\ ring = <<>>
    /\ status.complete =>
         /\ wpc \in {"idle", "read", "gone"} /\ ~failed
         /\ writer = "closed" /\ ring = <<>> /\ batch = <<>>
         /\ status.durable = First + Len(log) /\ synced = Len(log)

\* What the loads of the status reader may return, and what it has made of them.
ReaderInv ==
  /\ SnapshotOrdered
  /\ life = "up" =>
       /\ \A w \in wstores : w <= status.written
       /\ \A m \in dstores : /\ m.durable <= m.written
                             /\ m.written <= status.written /\ m.durable <= status.durable
       /\ opc = "written" => snap.durable <= seen.written
       /\ snap.complete =>
            /\ status.complete /\ seen.closed
            /\ seen.durable = status.durable /\ seen.written = status.written
            /\ opc \in {"written", "flags", "idle"} => snap.durable = status.durable
            /\ opc \in {"flags", "idle"} => snap.written = status.written
            /\ opc = "idle" => snap.closed /\ ~snap.poisoned

\* The inductive invariant of the journal.
ChannelInv == TypeOK /\ QueueInv /\ DurableIsFlushed /\ WorkerInv /\ ReaderInv
USE JournalAssumption DEF Seqs, AfterFile, writerVars, workerVars, statusVars, sinkVars,
    lifeVars, readerVars

\* Nothing carries nothing.
LEMMA CarriesNone == ASSUME NEW off, NEW l PROVE Carries(<<>>, off, l)
  BY DEF Carries

\* Accepting one more payload leaves the records alone.
LEMMA CarriesMore ==
  ASSUME NEW l \in Seq(Payloads), NEW p \in Payloads, NEW q \in Seq(Record), NEW off \in Nat,
         off + Len(q) <= Len(l), Carries(q, off, l)
  PROVE  Carries(q, off, Append(l, p))
  BY DEF Carries

\* So does forgetting the payloads behind them.
LEMMA CarriesCut ==
  ASSUME NEW l \in Seq(Payloads), NEW q \in Seq(Record), NEW off \in Nat, NEW n \in Nat,
         off + Len(q) <= n, n <= Len(l), Carries(q, off, l)
  PROVE  Carries(q, off, SubSeq(l, 1, n))
<1>1. \A i \in 1 .. n : SubSeq(l, 1, n)[i] = l[i]
  OBVIOUS
<1> QED
  BY <1>1 DEF Carries

\* The next payload continues the records.
LEMMA CarriesNext ==
  ASSUME NEW l, NEW q \in Seq(Record), NEW off \in Nat, NEW r \in Record, Carries(q, off, l),
         r.seq = First + off + Len(q), r.payload = l[off + Len(q) + 1]
  PROVE  Carries(Append(q, r), off, l)
<1>1. /\ Len(Append(q, r)) = Len(q) + 1 /\ Append(q, r)[Len(q) + 1] = r /\ Len(q) \in Nat
      /\ \A i \in 1 .. Len(q) : Append(q, r)[i] = q[i]
  OBVIOUS
<1>2. /\ First + off + Len(q) = First + off + (Len(q) + 1) - 1
      /\ off + Len(q) + 1 = off + (Len(q) + 1)
  BY <1>1
<1>3. ASSUME NEW i \in 1 .. Len(q) + 1
      PROVE  /\ Append(q, r)[i].seq = First + off + i - 1
             /\ Append(q, r)[i].payload = l[off + i]
  <2>1. CASE i \in 1 .. Len(q)
    BY SMTT(30), <1>1, <2>1 DEF Carries
  <2>2. CASE i = Len(q) + 1
    BY <1>1, <1>2, <2>2
  <2> QED
    BY <1>1, <2>1, <2>2
<1> QED
  BY <1>1, <1>3 DEF Carries

\* Taking the first record moves the offset.
LEMMA CarriesTail ==
  ASSUME NEW l, NEW q \in Seq(Record), NEW off \in Nat, Carries(q, off, l), q # <<>>
  PROVE  /\ Head(q).seq = First + off /\ Head(q).payload = l[off + 1] /\ Head(q) \in Record
         /\ Tail(q) \in Seq(Record) /\ Len(Tail(q)) = Len(q) - 1
         /\ Carries(Tail(q), off + 1, l)
<1>1. Head(q) = q[1] /\ Len(q) > 0 /\ Len(q) \in Nat
  OBVIOUS
<1>2. /\ Tail(q) \in Seq(Record) /\ Len(Tail(q)) = Len(q) - 1 /\ Head(q) \in Record
      /\ \A i \in 1 .. Len(q) - 1 : Tail(q)[i] = q[i + 1]
  OBVIOUS
<1>3. Head(q).seq = First + off /\ Head(q).payload = l[off + 1]
  BY <1>1 DEF Carries
<1>4. ASSUME NEW i \in 1 .. Len(q) - 1
      PROVE  /\ Tail(q)[i].seq = First + (off + 1) + i - 1
             /\ Tail(q)[i].payload = l[(off + 1) + i]
  <2>1. i + 1 \in 1 .. Len(q) /\ off + (i + 1) = (off + 1) + i
    BY <1>1
  <2>2. q[i + 1].seq = First + off + (i + 1) - 1 /\ q[i + 1].payload = l[off + (i + 1)]
    BY <2>1 DEF Carries
  <2> QED
    BY <1>2, <2>1, <2>2
<1> QED
  BY <1>2, <1>3, <1>4 DEF Carries

\* Losing records from the end leaves the others alone.
LEMMA CarriesPrefix ==
  ASSUME NEW l, NEW q \in Seq(Record), NEW off \in Nat, NEW n \in 0 .. Len(q), Carries(q, off, l)
  PROVE  /\ SubSeq(q, 1, n) \in Seq(Record) /\ Len(SubSeq(q, 1, n)) = n
         /\ Carries(SubSeq(q, 1, n), off, l)
<1>1. /\ SubSeq(q, 1, n) \in Seq(Record) /\ Len(SubSeq(q, 1, n)) = n
      /\ \A i \in 1 .. n : SubSeq(q, 1, n)[i] = q[i]
  OBVIOUS
<1> QED
  BY <1>1 DEF Carries

-----------------------------------------------------------------------------
\* A fresh channel at First.
LEMMA ChannelInit == Init => ChannelInv
<1> SUFFICES ASSUME Init PROVE ChannelInv
  OBVIOUS
<1> USE DEF Init
<1>0. StatusState(First) \in JournalStatus
  BY DEF StatusState, JournalStatus
<1>1. TypeOK
  <2>1. <<>> \in Seq(Record) /\ <<>> \in Seq(Payloads) /\ Len(<<>>) = 0
    OBVIOUS
  <2>2. [durable |-> First, written |-> First] \in [durable : Seqs, written : Seqs]
    OBVIOUS
  <2>3. dstores \subseteq [durable : Seqs, written : Seqs]
    BY <2>2
  <2>4. /\ ring \in Seq(Record) /\ batch \in Seq(Record) /\ file \in Seq(Record)
        /\ log \in Seq(Payloads) /\ Len(ring) = 0 /\ Len(batch) = 0 /\ Len(file) = 0
    BY <2>1
  <2>5. status \in JournalStatus /\ seen \in JournalStatus /\ snap \in JournalStatus
    BY <1>0
  <2>6. visible = 0 /\ synced = 0 /\ lives = 1 /\ next_sequence = First /\ expected = First
        /\ base = First /\ wstores = {First}
    OBVIOUS
  <2>7. /\ writer = "open" /\ policy \in {"EveryBatch", "OnShutdown"} /\ wpc = "idle"
        /\ shutting = FALSE /\ failed = FALSE /\ torn = FALSE /\ life = "up" /\ opc = "idle"
    OBVIOUS
  <2> HIDE DEF Init
  <2>8. /\ next_sequence \in Seqs /\ expected \in Seqs /\ base \in Seqs /\ lives \in 1 .. MaxLives
    BY <2>6
  <2>9. /\ visible \in 0 .. Len(ring) /\ synced \in 0 .. Len(file) 
    BY <2>6, <2>4
  <2>10. wstores \subseteq Seqs
    BY <2>6
  <2>11. Len(ring) <= Capacity /\ Len(batch) <= Batch
    BY <2>4
  <2> QED
    BY Zenon, <2>3, <2>4, <2>5, <2>7, <2>8, <2>9, <2>10, <2>11 DEF TypeOK
<1>2. QueueInv /\ DurableIsFlushed
  BY CarriesNone DEF QueueInv, DurableIsFlushed, StatusState
<1>3. WorkerInv
  BY DEF WorkerInv, StatusState
<1>4. ReaderInv
  BY DEF ReaderInv, SnapshotOrdered, StatusState
<1> QED
  BY <1>1, <1>2, <1>3, <1>4 DEF ChannelInv

-----------------------------------------------------------------------------
(* Which steps cannot disturb which part.                                  *)

\* The records move only between ring, batch and sink.
LEMMA QueueFrame ==
  ASSUME QueueInv, UNCHANGED <<next_sequence, log, file, base, life>>,
         status'.poisoned \/ (UNCHANGED <<expected, batch, ring>> /\ ~status.poisoned)
           \/ (UNCHANGED <<expected, batch, ring>> /\ status'.poisoned = status.poisoned)
  PROVE  QueueInv'
  BY SMTT(30) DEF QueueInv

\* The reader depends on the counters and on completion, and on no other flag.
LEMMA ReaderFrame ==
  ASSUME ReaderInv, UNCHANGED <<readerVars, wstores, dstores, life>>,
         status'.written = status.written, status'.durable = status.durable,
         status.complete => status'.complete
  PROVE  ReaderInv'
  BY DEF ReaderInv, SnapshotOrdered

\* The counters and lengths are numbers.
LEMMA Numbers ==
  ASSUME TypeOK
  PROVE  /\ next_sequence \in Nat /\ expected \in Nat /\ base \in Nat /\ visible \in Nat
         /\ Len(ring) \in Nat /\ Len(batch) \in Nat /\ Len(file) \in Nat /\ Len(log) \in Nat
         /\ synced \in Nat /\ synced <= Len(file) /\ visible <= Len(ring)
         /\ status.written \in Nat /\ status.durable \in Nat
         /\ seen.written \in Nat /\ seen.durable \in Nat
         /\ snap.written \in Nat /\ snap.durable \in Nat
  BY SMTT(30) DEF TypeOK, JournalStatus

-----------------------------------------------------------------------------
(* The writer                                                              *)

\* An accepted record continues the ring where the writer stands.
LEMMA AcceptKeepsQueue ==
  ASSUME TypeOK, QueueInv, NEW p \in Payloads,
         ring' = Append(ring, [seq |-> next_sequence, payload |-> p]),
         next_sequence' = next_sequence + 1, log' = Append(log, p),
         UNCHANGED <<file, batch, expected, base, life>>, status'.poisoned = status.poisoned
  PROVE  QueueInv'
<1>a. [seq |-> next_sequence, payload |-> p] \in Record
  BY SMTT(30) DEF TypeOK, Record
<1>0. /\ Len(log') = Len(log) + 1 /\ Len(ring') = Len(ring) + 1
      /\ Len(file') = Len(file) /\ Len(batch') = Len(batch)
      /\ Len(log) \in Nat /\ Len(ring) \in Nat /\ Len(file) \in Nat /\ Len(batch) \in Nat
      /\ next_sequence \in Nat /\ expected \in Nat
  BY SMTT(30), <1>a DEF TypeOK
<1>1. /\ log'[Len(log) + 1] = p
      /\ log \in Seq(Payloads) /\ log' = Append(log, p)
      /\ file \in Seq(Record) /\ batch \in Seq(Record) /\ ring \in Seq(Record)
      /\ file' = file /\ batch' = batch
      /\ ring' = Append(ring, [seq |-> next_sequence, payload |-> p])
  BY <1>a DEF TypeOK
<1>2. Carries(file', 0, log')
  BY <1>0, <1>1, CarriesMore DEF QueueInv
<1>3. ASSUME life = "up" /\ ~status.poisoned
      PROVE  /\ Len(log) = Len(file) + Len(batch) + Len(ring)
             /\ Carries(batch', Len(file'), log')
             /\ Carries(ring', Len(file') + Len(batch'), log')
  <2>1. Len(log) = Len(file) + Len(batch) + Len(ring)
    BY SMTT(30), <1>0, <1>3 DEF QueueInv
  <2>a. Carries(batch, Len(file), log) /\ Carries(ring, Len(file) + Len(batch), log)
    BY <1>3 DEF QueueInv
  <2>2. Carries(batch, Len(file), log')
    BY <1>0, <1>1, <2>1, <2>a, CarriesMore
  <2>3. Carries(ring, Len(file) + Len(batch), log')
    BY <1>0, <1>1, <2>1, <2>a, CarriesMore
  <2>4. PICK off \in Nat, r \in Record :
          /\ off = Len(file) + Len(batch) /\ r = [seq |-> next_sequence, payload |-> p]
    BY <1>a, <1>1
  <2>5. r.seq = First + off + Len(ring) /\ r.payload = log'[off + Len(ring) + 1]
    <3>1. next_sequence = First + Len(log)
      BY DEF QueueInv
    <3>2. off + Len(ring) = Len(log) /\ next_sequence = First + off + Len(ring)
      BY <1>0, <2>1, <2>4, <3>1
    <3> QED
      BY Zenon, <1>1, <2>4, <3>2
  <2>6. Carries(Append(ring, r), off, log')
    BY Zenon, <1>0, <1>1, <2>3, <2>4, <2>5, CarriesNext
  <2>7. ring' = Append(ring, r) /\ off = Len(file') + Len(batch')
    BY <1>1, <2>4
  <2> QED
    BY <1>1, <2>1, <2>2, <2>6, <2>7
<1>4. /\ next_sequence' = First + Len(log') /\ Len(file') <= Len(log')
      /\ life' = "up" => base' <= First + Len(file')
  BY <1>0 DEF QueueInv
<1>5. ASSUME life = "up" /\ ~status.poisoned
      PROVE  /\ expected' = First + Len(file') + Len(batch')
             /\ next_sequence' = expected' + Len(ring')
  <2>1. expected = First + Len(file) + Len(batch) /\ next_sequence = expected + Len(ring)
    BY <1>5 DEF QueueInv
  <2> QED
    BY <1>0, <2>1
<1> QED
  BY <1>2, <1>3, <1>4, <1>5 DEF QueueInv

\* Enqueue moves the writer, the ring and the log together.
LEMMA EnqueueKeeps ==
  ASSUME ChannelInv, NEW p \in Payloads, Enqueue(p)
  PROVE  ChannelInv'
<1> USE DEF ChannelInv
<1>0. [seq |-> next_sequence, payload |-> p] \in Record
  BY DEF TypeOK, Record
<1>1. TypeOK'
  BY SMTT(30), <1>0 DEF Enqueue, TypeOK
<1>2. QueueInv'
  BY AcceptKeepsQueue DEF Enqueue
<1>3. DurableIsFlushed'
  BY DEF Enqueue, DurableIsFlushed
<1>4. WorkerInv'
  BY DEF Enqueue, WorkerInv, TypeOK
<1>5. ReaderInv'
  BY ReaderFrame DEF Enqueue
<1> QED
  BY <1>1, <1>2, <1>3, <1>4, <1>5

\* Closing changes one flag.
LEMMA CloseKeeps ==
  ASSUME ChannelInv, Close
  PROVE  ChannelInv'
<1> USE DEF ChannelInv
<1>0. /\ status'.written = status.written /\ status'.durable = status.durable
      /\ status'.complete = status.complete /\ status'.poisoned = status.poisoned
      /\ status'.closed = TRUE /\ status' \in JournalStatus
  BY Zenon DEF Close, TypeOK, JournalStatus
<1>1. TypeOK'
  BY SMTT(30), <1>0 DEF Close, TypeOK
<1>2. QueueInv'
  BY <1>0, QueueFrame DEF Close
<1>3. DurableIsFlushed'
  BY <1>0 DEF Close, DurableIsFlushed
<1>4. WorkerInv'
  BY <1>0 DEF Close, WorkerInv, TypeOK
<1>5. ReaderInv'
  BY <1>0, ReaderFrame DEF Close
<1> QED
  BY <1>1, <1>2, <1>3, <1>4, <1>5
-----------------------------------------------------------------------------
(* The worker                                                              *)

\* Calling drain_batch touches no data.
LEMMA DrainBatchKeeps ==
  ASSUME ChannelInv, DrainBatch
  PROVE  ChannelInv'
<1> USE DEF ChannelInv
<1>1. TypeOK'
  BY DEF DrainBatch, TypeOK
<1>2. QueueInv' /\ ReaderInv'
  BY QueueFrame, ReaderFrame DEF DrainBatch
<1>3. DurableIsFlushed'
  BY DEF DrainBatch, DurableIsFlushed
<1>4. WorkerInv'
  BY DEF DrainBatch, WorkerInv, TypeOK
<1> QED
  BY <1>1, <1>2, <1>3, <1>4

\* Shutdown sees the closed flag, and with it the whole ring.
LEMMA ShutdownKeeps ==
  ASSUME ChannelInv, Shutdown
  PROVE  ChannelInv'
<1> USE DEF ChannelInv
<1>1. TypeOK'
  BY DEF Shutdown, TypeOK
<1>2. QueueInv' /\ ReaderInv'
  BY QueueFrame, ReaderFrame DEF Shutdown
<1>3. DurableIsFlushed'
  BY DEF Shutdown, DurableIsFlushed
<1>4. WorkerInv'
  BY DEF Shutdown, WorkerInv, TypeOK
<1> QED
  BY <1>1, <1>2, <1>3, <1>4

\* The read loop of shutdown ends with nothing read only when nothing is left.
LEMMA ReadEmptyKeeps ==
  ASSUME ChannelInv, ReadEmpty
  PROVE  ChannelInv'
<1> USE DEF ChannelInv
<1>1. TypeOK'
  BY SMTT(30) DEF ReadEmpty, TypeOK
<1>2. QueueInv' /\ ReaderInv'
  BY QueueFrame, ReaderFrame DEF ReadEmpty
<1>3. DurableIsFlushed'
  BY DEF ReadEmpty, DurableIsFlushed
<1>4. WorkerInv'
  BY SMTT(30) DEF ReadEmpty, WorkerInv, TypeOK
<1> QED
  BY <1>1, <1>2, <1>3, <1>4

\* A flush covers the whole sink.
LEMMA FlushKeeps ==
  ASSUME ChannelInv, Flush
  PROVE  ChannelInv'
<1> USE DEF ChannelInv
<1>1. TypeOK'
  BY DEF Flush, TypeOK
<1>2. QueueInv' /\ ReaderInv'
  BY QueueFrame, ReaderFrame DEF Flush
<1>3. DurableIsFlushed'
  BY SMTT(30), Numbers DEF Flush, DurableIsFlushed
<1>4. WorkerInv'
  BY SMTT(30) DEF Flush, WorkerInv, TypeOK
<1> QED
  BY <1>1, <1>2, <1>3, <1>4

\* The next record of the ring is the one the reader expects, so read hands it
\* out and never poisons the channel.
LEMMA ReadRecordKeeps ==
  ASSUME ChannelInv, ReadRecord
  PROVE  ChannelInv'
<1> USE DEF ChannelInv
<1>1. life = "up" /\ ~status.poisoned /\ wpc = "read" /\ ring # <<>> /\ Len(batch) < Batch
  BY DEF ReadRecord, WorkerInv
<1>2. /\ ring \in Seq(Record) /\ batch \in Seq(Record) /\ file \in Seq(Record)
      /\ next_sequence \in Seqs /\ expected \in Nat
  BY DEF TypeOK
<1>3. /\ expected = First + Len(file) + Len(batch) /\ next_sequence = expected + Len(ring)
      /\ Carries(batch, Len(file), log) /\ Carries(ring, Len(file) + Len(batch), log)
  BY <1>1 DEF QueueInv
<1>4. PICK off \in Nat : off = Len(file) + Len(batch)
  BY <1>2
<1>5. /\ Head(ring).seq = First + off /\ Head(ring).payload = log[off + 1] /\ Head(ring) \in Record
      /\ Tail(ring) \in Seq(Record) /\ Len(Tail(ring)) = Len(ring) - 1
      /\ Carries(Tail(ring), off + 1, log)
  <2>1. Carries(ring, off, log) /\ ring # <<>> /\ ring \in Seq(Record)
    BY <1>1, <1>2, <1>3, <1>4
  <2> QED
    BY <2>1, CarriesTail, Zenon
<1>6. Len(ring) \in Nat \ {0} /\ Len(batch) \in Nat /\ Len(file) \in Nat
  BY <1>1, <1>2
<1>7. Head(ring).seq = expected /\ expected < MaxSeq
  BY <1>2, <1>3, <1>4, <1>5, <1>6
<1>8. /\ expected' = expected + 1 /\ batch' = Append(batch, Head(ring)) /\ ring' = Tail(ring)
      /\ visible' = (IF visible = 0 THEN 0 ELSE visible - 1)
      /\ UNCHANGED <<wpc, shutting, failed, status, writerVars, wstores, dstores, sinkVars,
                     lifeVars, readerVars>>
  BY <1>7 DEF ReadRecord
<1>9. Len(batch') = Len(batch) + 1 /\ batch' \in Seq(Record) /\ Len(ring') = Len(ring) - 1
  BY <1>2, <1>5, <1>8
<1>10. TypeOK'
  <2>1. visible' \in 0 .. Len(ring')
    BY <1>6, <1>8, <1>9 DEF TypeOK
  <2>2. expected' \in Seqs /\ Len(batch') <= Batch /\ Len(ring') <= Capacity
    BY <1>1, <1>6, <1>7, <1>8, <1>9 DEF TypeOK
  <2> QED
    BY SMTT(30), <1>5, <1>8, <1>9, <2>1, <2>2 DEF TypeOK
<1>11. QueueInv'
  <2>1. Carries(batch', Len(file), log)
    <3>1. /\ Head(ring).seq = First + Len(file) + Len(batch)
          /\ Head(ring).payload = log[Len(file) + Len(batch) + 1]
      BY <1>4, <1>5, <1>6
    <3> QED
      BY Zenon, <1>2, <1>3, <1>5, <1>6, <1>8, <3>1, CarriesNext
  <2>2. off + 1 = Len(file) + Len(batch') /\ Carries(ring', Len(file) + Len(batch'), log)
    BY <1>4, <1>5, <1>6, <1>8, <1>9
  <2>3. expected' = First + Len(file) + Len(batch') /\ next_sequence = expected' + Len(ring')
    BY <1>2, <1>3, <1>6, <1>8, <1>9
  <2> QED
    BY <1>8, <2>1, <2>2, <2>3 DEF QueueInv
<1>12. DurableIsFlushed'
  BY <1>8 DEF DurableIsFlushed
<1>13. WorkerInv'
  BY <1>1, <1>6, <1>8, <1>9 DEF WorkerInv
<1>14. ReaderInv'
  BY <1>8, ReaderFrame
<1> QED
  BY <1>10, <1>11, <1>12, <1>13, <1>14

\* A written record moves from the batch to the end of the sink.
LEMMA WriteRecordKeeps ==
  ASSUME ChannelInv, WriteRecord
  PROVE  ChannelInv'
<1> USE DEF ChannelInv
<1>1. life = "up" /\ ~status.poisoned /\ wpc = "write" /\ batch # <<>>
  BY DEF WriteRecord, WorkerInv
<1>2. /\ ring \in Seq(Record) /\ batch \in Seq(Record) /\ file \in Seq(Record)
      /\ next_sequence \in Nat /\ expected \in Nat /\ base \in Nat /\ status.written \in Nat
      /\ Len(ring) \in Nat /\ Len(file) \in Nat /\ Len(batch) \in Nat /\ Len(log) \in Nat
  BY Numbers DEF TypeOK
<1>3. /\ expected = First + Len(file) + Len(batch) /\ next_sequence = expected + Len(ring)
      /\ next_sequence = First + Len(log) /\ Carries(file, 0, log)
      /\ Carries(batch, Len(file), log) /\ Carries(ring, Len(file) + Len(batch), log)
  BY <1>1 DEF QueueInv
<1>4. /\ Head(batch).seq = First + Len(file) /\ Head(batch).payload = log[Len(file) + 1]
      /\ Head(batch) \in Record /\ Tail(batch) \in Seq(Record)
      /\ Len(Tail(batch)) = Len(batch) - 1 /\ Carries(Tail(batch), Len(file) + 1, log)
  <2>1. PICK off \in Nat : off = Len(file)
    BY <1>2
  <2>2. Carries(batch, off, log) /\ batch # <<>> /\ batch \in Seq(Record)
    BY <1>1, <1>2, <1>3, <2>1
  <2>3. /\ Head(batch).seq = First + off /\ Head(batch).payload = log[off + 1]
             /\ Head(batch) \in Record
        /\ Tail(batch) \in Seq(Record) /\ Len(Tail(batch)) = Len(batch) - 1
        /\ Carries(Tail(batch), off + 1, log)
    BY <2>2, CarriesTail, Zenon
  <2> QED
    BY <2>1, <2>3
<1>5. /\ file' = Append(file, Head(batch)) /\ batch' = Tail(batch)
      /\ wpc' = (IF Tail(batch) = <<>> THEN "written" ELSE "write")
      /\ UNCHANGED <<writerVars, ring, visible, shutting, expected, failed, statusVars,
                     torn, synced, lifeVars, readerVars>>
  BY DEF WriteRecord
<1>6. /\ Len(file') = Len(file) + 1 /\ file' \in Seq(Record) /\ Len(batch') = Len(batch) - 1
      /\ Len(batch) > 0
  BY <1>1, <1>2, <1>4, <1>5
<1>7. TypeOK'
  <2>1. synced' \in 0 .. Len(file') /\ Len(batch') <= Batch
    BY <1>2, <1>5, <1>6 DEF TypeOK
  <2>2. wpc' \in {"written", "write"}
    BY <1>5
  <2> QED
    BY SMTT(30), <1>4, <1>5, <1>6, <2>1, <2>2 DEF TypeOK
<1>8. QueueInv'
  <2>1. Carries(file', 0, log)
    <3>1. /\ Head(batch).seq = First + 0 + Len(file)
          /\ Head(batch).payload = log[0 + Len(file) + 1]
      BY <1>2, <1>4
    <3> QED
      BY Zenon, <1>2, <1>3, <1>4, <1>5, <3>1, CarriesNext
  <2>2. Len(file) + 1 = Len(file') /\ Len(file) + Len(batch) = Len(file') + Len(batch')
    BY <1>2, <1>6
  <2>3. /\ expected = First + Len(file') + Len(batch') /\ Len(file') <= Len(log)
        /\ life = "up" => base <= First + Len(file')
    <3>1. life = "up" => base <= First + Len(file)
      BY DEF QueueInv
    <3> QED
      BY SMTT(30), <1>2, <1>3, <1>6, <3>1
  <2>4. Carries(batch', Len(file'), log) /\ Carries(ring, Len(file') + Len(batch'), log)
    BY <1>3, <1>4, <1>5, <2>2
  <2> QED
    BY Zenon, <1>3, <1>5, <2>1, <2>3, <2>4 DEF QueueInv
<1>9. DurableIsFlushed'
  BY <1>5 DEF DurableIsFlushed
<1>10. WorkerInv'
  BY <1>1, <1>2, <1>5, <1>6 DEF WorkerInv
<1>11. ReaderInv'
  BY <1>5, ReaderFrame
<1> QED
  BY <1>7, <1>8, <1>9, <1>10, <1>11

\* fail drops the batch and poisons the channel: nothing is promised of the ring
\* any more, and what the sink holds stays.
LEMMA FailKeeps ==
  ASSUME ChannelInv, Fail, life = "up", wpc \notin {"idle", "gone"}, ~status.complete,
         torn' \in BOOLEAN,
         UNCHANGED <<writerVars, ring, visible, expected, wstores, dstores, file, synced,
                     lifeVars, readerVars>>
  PROVE  ChannelInv'
<1> USE DEF ChannelInv
<1>1. /\ status'.written = status.written /\ status'.durable = status.durable
      /\ status'.complete = status.complete /\ status'.closed = status.closed
      /\ status'.poisoned = TRUE /\ status' \in JournalStatus
  BY Zenon DEF Fail, Poison, TypeOK, JournalStatus
<1>2. /\ failed' = TRUE /\ wpc' = "idle" /\ shutting' = FALSE
      /\ batch' = <<>> /\ batch' \in Seq(Record) /\ Len(batch') <= Batch
  BY DEF Fail
<1>3. TypeOK'
  BY Zenon, <1>1, <1>2 DEF TypeOK
<1>4. QueueInv' /\ ReaderInv'
  BY <1>1, QueueFrame, ReaderFrame
<1>5. DurableIsFlushed'
  BY SMTT(30), <1>1 DEF DurableIsFlushed
<1>6. WorkerInv'
  BY <1>1, <1>2 DEF WorkerInv
<1> QED
  BY <1>3, <1>4, <1>5, <1>6

\* A failed write or flush ends in fail.
LEMMA FaultKeeps ==
  ASSUME ChannelInv, WorkerFault
  PROVE  ChannelInv'
<1>1. torn \in BOOLEAN
  BY SMTT(30) DEF ChannelInv, TypeOK
<1>2. CASE WriteError
  BY SMTT(30), <1>2, FailKeeps DEF WriteError, ChannelInv, WorkerInv
<1>3. CASE FlushError
  BY <1>1, <1>3, FailKeeps DEF FlushError, ChannelInv, WorkerInv
<1> QED
  BY <1>2, <1>3 DEF WorkerFault

\* After a batch the sink ends where the reader stands: the written watermark
\* moves there.
LEMMA PublishWrittenKeeps ==
  ASSUME ChannelInv, PublishWritten
  PROVE  ChannelInv'
<1> USE DEF ChannelInv
<1>1. life = "up" /\ ~status.poisoned /\ wpc = "written" /\ batch = <<>> /\ ~status.complete
  BY DEF PublishWritten, WorkerInv
<1>2. expected = First + Len(file) /\ status.written <= expected
  BY SMTT(30), <1>1, Numbers DEF QueueInv, WorkerInv
<1>3. /\ status'.written = expected /\ status'.durable = status.durable
      /\ status'.complete = status.complete /\ status'.closed = status.closed
      /\ status'.poisoned = status.poisoned /\ status' \in JournalStatus
  BY Zenon DEF PublishWritten, TypeOK, JournalStatus
<1>4. TypeOK'
  BY SMTT(30), <1>3 DEF PublishWritten, TypeOK
<1>5. QueueInv'
  BY <1>3, QueueFrame DEF PublishWritten
<1>6. DurableIsFlushed'
  BY <1>3 DEF PublishWritten, DurableIsFlushed
<1>7. WorkerInv'
  BY SMTT(30), <1>1, <1>2, <1>3, Numbers DEF PublishWritten, WorkerInv, TypeOK
<1>8. ReaderInv'
  <2>1. /\ wstores' = wstores \cup {expected} /\ dstores' = dstores /\ life' = life
        /\ UNCHANGED readerVars
    BY DEF PublishWritten
  <2>2. \A w \in wstores : w \in Nat
    BY DEF TypeOK
  <2>3. \A m \in dstores : m.written \in Nat
    BY DEF TypeOK
  <2>4. ~snap.complete
    BY <1>1 DEF ReaderInv
  <2>5. /\ \A w \in wstores' : w <= status'.written
        /\ \A m \in dstores' : m.durable <= m.written /\ m.written <= status'.written
    <3>1. /\ \A w \in wstores : w <= status.written
          /\ \A m \in dstores : m.durable <= m.written /\ m.written <= status.written
      BY <1>1 DEF ReaderInv
    <3>2. status.written \in Nat /\ expected \in Nat
      BY Numbers
    <3> QED
      BY <1>2, <1>3, <2>1, <2>2, <2>3, <3>1, <3>2
  <2> QED
    BY <1>1, <1>3, <2>1, <2>4, <2>5 DEF ReaderInv, SnapshotOrdered
<1> QED
  BY <1>4, <1>5, <1>6, <1>7, <1>8

\* The durable watermark follows a flush of the whole sink, and the written one.
LEMMA PublishDurableKeeps ==
  ASSUME ChannelInv, PublishDurable
  PROVE  ChannelInv'
<1> USE DEF ChannelInv
<1>1. /\ life = "up" /\ ~status.poisoned /\ wpc \in {"durable", "lastdurable"} /\ batch = <<>>
      /\ ~status.complete /\ synced = Len(file) /\ status.written = First + Len(file)
  BY DEF PublishDurable, WorkerInv
<1>2. expected = First + Len(file) /\ status.durable <= expected /\ expected = status.written
  BY SMTT(30), <1>1, Numbers DEF QueueInv, DurableIsFlushed
<1>3. /\ status'.written = status.written /\ status'.durable = expected
      /\ status'.complete = status.complete /\ status'.closed = status.closed
      /\ status'.poisoned = status.poisoned /\ status' \in JournalStatus
  BY Zenon DEF PublishDurable, TypeOK, JournalStatus
<1>4. PICK m \in [durable : Seqs, written : Seqs] :
        /\ m = [durable |-> expected, written |-> status.written]
        /\ dstores' = dstores \cup {m}
  BY Zenon DEF PublishDurable, TypeOK, JournalStatus
<1>5. TypeOK'
  BY SMTT(30), <1>3, <1>4 DEF PublishDurable, TypeOK
<1>6. QueueInv'
  BY <1>3, QueueFrame DEF PublishDurable
<1>7. DurableIsFlushed'
  BY SMTT(30), <1>1, <1>2, <1>3, Numbers DEF PublishDurable, DurableIsFlushed
<1>8. WorkerInv'
  BY Zenon, <1>1, <1>2, <1>3 DEF PublishDurable, WorkerInv, TypeOK
<1>9. ReaderInv'
  <2>1. wstores' = wstores /\ life' = life /\ UNCHANGED readerVars
    BY DEF PublishDurable
  <2>2. \A n \in dstores : n.durable \in Nat
    BY SMTT(30) DEF TypeOK
  <2>3. ~snap.complete
    BY <1>1 DEF ReaderInv
  <2>4. m.durable = expected /\ m.written = expected
    BY <1>2, <1>4
  <2>5. \A n \in dstores' : /\ n.durable <= n.written
                            /\ n.written <= status'.written /\ n.durable <= status'.durable
    BY SMTT(30), <1>1, <1>2, <1>3, <1>4, <2>2, <2>4, Numbers DEF ReaderInv
  <2> QED
    BY <1>1, <1>3, <2>1, <2>3, <2>5 DEF ReaderInv, SnapshotOrdered
<1> QED
  BY <1>5, <1>6, <1>7, <1>8, <1>9

\* Completion is published when the watermarks have reached the writer.
LEMMA CompleteKeeps ==
  ASSUME ChannelInv, Complete
  PROVE  ChannelInv'
<1> USE DEF ChannelInv
<1>1. /\ life = "up" /\ ~status.poisoned /\ wpc = "complete" /\ batch = <<>> /\ ring = <<>>
      /\ synced = Len(file) /\ status.durable = First + Len(file) /\ writer = "closed" /\ ~failed
  BY DEF Complete, WorkerInv
<1>2. Len(file) = Len(log)
  BY <1>1, Numbers DEF QueueInv
<1>3. /\ status'.written = status.written /\ status'.durable = status.durable
      /\ status'.complete = TRUE /\ status'.closed = status.closed
      /\ status'.poisoned = status.poisoned /\ status' \in JournalStatus
  BY Zenon DEF Complete, TypeOK, JournalStatus
<1>4. TypeOK'
  BY Zenon, <1>3 DEF Complete, TypeOK
<1>5. QueueInv' /\ ReaderInv'
  BY <1>3, QueueFrame, ReaderFrame DEF Complete
<1>6. DurableIsFlushed'
  BY <1>3 DEF Complete, DurableIsFlushed
<1>7. WorkerInv'
  BY <1>1, <1>2, <1>3 DEF Complete, WorkerInv
<1> QED
  BY <1>4, <1>5, <1>6, <1>7

\* A worker dropped before completion poisons the channel, after it it does not.
LEMMA DropWorkerKeeps ==
  ASSUME ChannelInv, DropWorker
  PROVE  ChannelInv'
<1> USE DEF ChannelInv
<1>1. /\ status'.written = status.written /\ status'.durable = status.durable
      /\ status'.complete = status.complete /\ status'.closed = status.closed
      /\ status'.poisoned = (IF status.complete THEN status.poisoned ELSE TRUE)
      /\ status' \in JournalStatus
  BY Zenon DEF DropWorker, Poison, TypeOK, JournalStatus
<1>2. TypeOK'
  BY <1>1 DEF DropWorker, TypeOK
<1>3. QueueInv' /\ ReaderInv'
  BY Zenon, <1>1, QueueFrame, ReaderFrame DEF DropWorker
<1>4. DurableIsFlushed'
  BY <1>1 DEF DropWorker, DurableIsFlushed
<1>5. WorkerInv'
  BY SMTT(30), <1>1 DEF DropWorker, WorkerInv
<1> QED
  BY <1>2, <1>3, <1>4, <1>5

-----------------------------------------------------------------------------
(* The status reader                                                       *)

\* The reader's steps change nothing but what it has seen.
LEMMA ReaderOnly ==
  ASSUME QueueInv, DurableIsFlushed, WorkerInv,
         UNCHANGED <<writerVars, ring, visible, workerVars, statusVars, sinkVars, lifeVars>>
  PROVE  QueueInv' /\ DurableIsFlushed' /\ WorkerInv'
  BY QueueFrame DEF QueueInv, DurableIsFlushed, WorkerInv

\* A true completion flag makes the final counters visible.
LEMMA SnapCompleteKeeps ==
  ASSUME ChannelInv, SnapComplete
  PROVE  ChannelInv'
<1> USE DEF ChannelInv
<1>1. PICK c \in Flag("complete") :
        /\ snap' = [StatusState(base) EXCEPT !.complete = c]
        /\ seen' = IF c THEN [seen EXCEPT !.complete = TRUE, !.closed = status.closed,
                                !.durable = status.durable, !.written = status.written]
                   ELSE seen
  BY DEF SnapComplete
<1>2. c \in BOOLEAN /\ (c => status.complete)
  BY DEF Flag, TypeOK, JournalStatus
<1>3. snap' \in JournalStatus /\ snap'.complete = c
  BY Zenon, <1>1, <1>2 DEF StatusState, TypeOK, JournalStatus
<1>4. seen' \in JournalStatus
  BY Zenon, <1>1 DEF TypeOK, JournalStatus
<1>5. c => /\ seen'.closed = status.closed /\ seen'.durable = status.durable
           /\ seen'.written = status.written
  BY <1>1 DEF TypeOK, JournalStatus
<1>6. /\ life = "up" /\ opc' = "durable"
      /\ UNCHANGED <<writerVars, ring, visible, workerVars, statusVars, sinkVars, lifeVars>>
  BY DEF SnapComplete
<1>7. TypeOK'
  BY SMTT(30), <1>3, <1>4, <1>6 DEF TypeOK
<1>8. ReaderInv'
  <2>1. status.complete => status.closed
    BY <1>6 DEF WorkerInv
  <2> QED
    BY <1>2, <1>3, <1>5, <1>6, <2>1 DEF ReaderInv, SnapshotOrdered
<1> QED
  BY <1>6, <1>7, <1>8, ReaderOnly

\* Loading the durable watermark bounds the written one that is loaded next.
LEMMA SnapDurableKeeps ==
  ASSUME ChannelInv, SnapDurable
  PROVE  ChannelInv'
<1> USE DEF ChannelInv
<1>1. PICK m \in dstores :
        /\ m.durable >= seen.durable
        /\ snap' = [snap EXCEPT !.durable = m.durable]
        /\ seen' = [seen EXCEPT !.durable = m.durable, !.written = Later(@, m.written)]
  BY Zenon DEF SnapDurable
<1>2. m.durable \in Seqs /\ m.written \in Seqs
  BY DEF TypeOK
<1>3. /\ snap' \in JournalStatus /\ snap'.durable = m.durable /\ snap'.complete = snap.complete
      /\ snap'.written = snap.written
  BY Zenon, <1>1, <1>2 DEF TypeOK, JournalStatus
<1>4. /\ seen' \in JournalStatus /\ seen'.durable = m.durable /\ seen'.closed = seen.closed
      /\ seen'.written = Later(seen.written, m.written)
  BY Zenon, <1>1, <1>2 DEF Later, TypeOK, JournalStatus
<1>5. /\ life = "up" /\ opc' = "written"
      /\ UNCHANGED <<writerVars, ring, visible, workerVars, statusVars, sinkVars, lifeVars>>
  BY DEF SnapDurable
<1>6. TypeOK'
  BY <1>3, <1>4, <1>5 DEF TypeOK
<1>7. m.durable <= m.written /\ m.written <= status.written /\ m.durable <= status.durable
  BY SMTT(30), <1>5 DEF ReaderInv
<1>8. ReaderInv'
  <2>0. /\ seen.written \in Nat /\ seen.durable \in Nat
        /\ status.written \in Nat /\ status.durable \in Nat
    BY Numbers
  <2>a. m.durable >= seen.durable /\ m.durable \in Nat /\ m.written \in Nat
    BY <1>1, <1>2
  <2>1. snap'.durable <= seen'.written
    BY <1>3, <1>4, <1>7, <2>0, <2>a DEF Later
  <2>2. snap.complete => /\ status.complete /\ seen.closed
                         /\ seen.durable = status.durable /\ seen.written = status.written
    BY <1>5 DEF ReaderInv
  <2>3. snap.complete => m.durable = status.durable /\ seen'.written = status.written
    BY <1>4, <1>7, <2>0, <2>a, <2>2 DEF Later
  <2> QED
    BY <1>3, <1>4, <1>5, <2>1, <2>2, <2>3 DEF ReaderInv, SnapshotOrdered
<1> QED
  BY <1>5, <1>6, <1>8, ReaderOnly

\* The written watermark is not older than the durable one.
LEMMA SnapWrittenKeeps ==
  ASSUME ChannelInv, SnapWritten
  PROVE  ChannelInv'
<1> USE DEF ChannelInv
<1>1. PICK w \in wstores :
        /\ w >= seen.written
        /\ snap' = [snap EXCEPT !.written = w]
        /\ seen' = [seen EXCEPT !.written = w]
  BY DEF SnapWritten
<1>2. w \in Seqs
  BY DEF TypeOK
<1>3. /\ snap' \in JournalStatus /\ snap'.written = w /\ snap'.complete = snap.complete
      /\ snap'.durable = snap.durable
  BY Zenon, <1>1, <1>2 DEF TypeOK, JournalStatus
<1>4. /\ seen' \in JournalStatus /\ seen'.written = w /\ seen'.closed = seen.closed
      /\ seen'.durable = seen.durable
  BY Zenon, <1>1, <1>2 DEF TypeOK, JournalStatus
<1>5. /\ life = "up" /\ opc = "written" /\ opc' = "flags"
      /\ UNCHANGED <<writerVars, ring, visible, workerVars, statusVars, sinkVars, lifeVars>>
  BY SMTT(30) DEF SnapWritten
<1>6. TypeOK'
  BY SMTT(30), <1>3, <1>4, <1>5 DEF TypeOK
<1>7. ReaderInv'
  <2>0. /\ seen.written \in Nat /\ status.written \in Nat /\ snap.durable \in Nat
        /\ snap.durable <= seen.written
    BY <1>5, Numbers DEF ReaderInv
  <2>a. w >= seen.written /\ w \in Nat
    BY <1>1, <1>2
  <2>1. snap'.durable <= snap'.written
    BY <1>3, <2>0, <2>a
  <2>2. snap.complete =>
          /\ status.complete /\ seen.closed /\ snap.durable = status.durable
          /\ seen.durable = status.durable /\ seen.written = status.written
    BY <1>5 DEF ReaderInv
  <2>3. w <= status.written
    BY <1>5 DEF ReaderInv
  <2>4. snap.complete => w = status.written
    BY <2>0, <2>a, <2>2, <2>3
  <2> QED
    BY SMTT(30), <1>3, <1>4, <1>5, <2>1, <2>2, <2>4 DEF ReaderInv, SnapshotOrdered
<1> QED
  BY <1>5, <1>6, <1>7, ReaderOnly

\* The flags are loaded last.
LEMMA SnapFlagsKeeps ==
  ASSUME ChannelInv, SnapFlags
  PROVE  ChannelInv'
<1> USE DEF ChannelInv
<1>1. PICK c \in Flag("closed"), p \in Flag("poisoned") :
        /\ snap' = [snap EXCEPT !.closed = c, !.poisoned = p]
        /\ seen' = [seen EXCEPT !.closed = c, !.poisoned = p,
                      !.durable = IF p THEN status.durable ELSE @,
                      !.written = IF p THEN status.written ELSE @]
  BY Zenon DEF SnapFlags
<1>2. c \in BOOLEAN /\ p \in BOOLEAN /\ (seen.closed => c) /\ (p => status.poisoned)
  BY DEF Flag, TypeOK, JournalStatus
<1>3. /\ snap' \in JournalStatus /\ snap'.closed = c /\ snap'.poisoned = p
      /\ snap'.complete = snap.complete
      /\ snap'.durable = snap.durable /\ snap'.written = snap.written
  BY Zenon, <1>1, <1>2 DEF TypeOK, JournalStatus
<1>4. /\ seen' \in JournalStatus /\ seen'.closed = c
      /\ seen'.durable = IF p THEN status.durable ELSE seen.durable
      /\ seen'.written = IF p THEN status.written ELSE seen.written
  BY Zenon, <1>1, <1>2 DEF TypeOK, JournalStatus
<1>5. /\ life = "up" /\ opc = "flags" /\ opc' = "idle"
      /\ UNCHANGED <<writerVars, ring, visible, workerVars, statusVars, sinkVars, lifeVars>>
  BY DEF SnapFlags
<1>6. TypeOK'
  BY SMTT(30), <1>3, <1>4, <1>5 DEF TypeOK
<1>7. ReaderInv'
  <2>1. status.complete => ~status.poisoned
    BY <1>5 DEF WorkerInv
  <2>2. snap.complete =>
          /\ status.complete /\ seen.closed
          /\ snap.durable = status.durable /\ snap.written = status.written
          /\ seen.durable = status.durable /\ seen.written = status.written
    BY <1>5 DEF ReaderInv
  <2> QED
    BY SMTT(30), <1>2, <1>3, <1>4, <1>5, <2>1, <2>2 DEF ReaderInv, SnapshotOrdered
<1> QED
  BY <1>5, <1>6, <1>7, ReaderOnly

-----------------------------------------------------------------------------
(* Crash and recovery                                                      *)

\* A crash takes records from the end of the sink that no flush has covered.
LEMMA CrashKeeps ==
  ASSUME ChannelInv, Crash
  PROVE  ChannelInv'
<1> USE DEF ChannelInv
<1>1. PICK n \in synced .. Len(file) : file' = SubSeq(file, 1, n) /\ torn' \in BOOLEAN
  BY Zenon DEF Crash, TypeOK
<1>2. file \in Seq(Record) /\ n \in 0 .. Len(file) /\ Carries(file, 0, log)
  BY Numbers DEF TypeOK, QueueInv
<1>3. file' \in Seq(Record) /\ Len(file') = n /\ Carries(file', 0, log)
  BY <1>1, <1>2, CarriesPrefix
<1>4. /\ life' = "down"
      /\ UNCHANGED <<writerVars, ring, visible, workerVars, statusVars, synced, policy, base,
                     lives, readerVars>>
  BY SMTT(30) DEF Crash
<1>5. TypeOK'
  <2>1. synced' \in 0 .. Len(file')
    BY SMTT(30), <1>3, <1>4, Numbers
  <2> QED
    BY <1>1, <1>3, <1>4, <2>1 DEF TypeOK
<1>6. QueueInv'
  BY SMTT(30), <1>2, <1>3, <1>4, Numbers DEF QueueInv
<1>7. DurableIsFlushed' /\ WorkerInv' /\ ReaderInv'
  BY <1>4 DEF DurableIsFlushed, WorkerInv, ReaderInv, SnapshotOrdered
<1> QED
  BY <1>5, <1>6, <1>7

\* The scan's refusal changes nothing but the life.
LEMMA RefusalKeeps ==
  ASSUME ChannelInv, life = "down", life' = "refused",
         UNCHANGED <<writerVars, ring, visible, workerVars, statusVars, sinkVars, policy, base,
                     lives, readerVars>>
  PROVE  ChannelInv'
<1> USE DEF ChannelInv
<1>1. TypeOK'
  BY DEF TypeOK
<1>2. QueueInv'
  BY SMTT(30) DEF QueueInv
<1>3. DurableIsFlushed' /\ WorkerInv' /\ ReaderInv'
  BY DEF DurableIsFlushed, WorkerInv, ReaderInv, SnapshotOrdered
<1> QED
  BY SMTT(30), <1>1, <1>2, <1>3

\* A new life starts behind the records that were recovered, and has accepted
\* exactly those.
LEMMA RestartKeeps ==
  ASSUME ChannelInv, Restart
  PROVE  ChannelInv'
<1> USE DEF ChannelInv
<1>1. /\ file \in Seq(Record) /\ log \in Seq(Payloads) /\ Len(file) \in Nat /\ Len(log) \in Nat
      /\ Len(file) <= Len(log) /\ Carries(file, 0, log) /\ next_sequence \in Seqs
      /\ next_sequence = First + Len(log) /\ lives \in 1 .. MaxLives /\ synced <= Len(file)
  BY SMTT(30), Numbers DEF TypeOK, QueueInv
<1>2. PICK b \in Seqs : b = First + Len(file)
  BY <1>1
<1>3. /\ base' = b /\ next_sequence' = b /\ expected' = b /\ wstores' = {b}
      /\ dstores' = {[durable |-> b, written |-> b]}
      /\ status' = StatusState(b) /\ seen' = StatusState(b) /\ snap' = StatusState(b)
      /\ ring' = <<>> /\ batch' = <<>> /\ visible' = 0 /\ log' = SubSeq(log, 1, Len(file))
      /\ UNCHANGED sinkVars
  BY <1>2 DEF Restart
<1>4. /\ life' = "up" /\ writer' = "open" /\ policy' \in {"EveryBatch", "OnShutdown"}
      /\ wpc' = "idle" /\ shutting' = FALSE /\ failed' = FALSE /\ opc' = "idle"
      /\ lives' = lives + 1 /\ lives < MaxLives
  BY DEF Restart
<1>5. log' \in Seq(Payloads) /\ Len(log') = Len(file)
  BY <1>1, <1>3
<1>6. StatusState(b) \in JournalStatus
  BY DEF StatusState, JournalStatus
<1>7. TypeOK'
  <2>1. /\ ring' \in Seq(Record) /\ batch' \in Seq(Record) /\ Len(ring') = 0 /\ Len(batch') = 0
    BY <1>3
  <2>2. [durable |-> b, written |-> b] \in [durable : Seqs, written : Seqs]
    OBVIOUS
  <2>3. dstores' \subseteq [durable : Seqs, written : Seqs] /\ wstores' \subseteq Seqs
    BY <1>3, <2>2
  <2>4. status' \in JournalStatus /\ seen' \in JournalStatus /\ snap' \in JournalStatus
    BY <1>3, <1>6
  <2>5. next_sequence' \in Seqs /\ expected' \in Seqs /\ base' \in Seqs
    BY SMTT(30), <1>3
  <2>6. /\ lives' \in 1 .. MaxLives /\ visible' \in 0 .. Len(ring')
        /\ Len(ring') <= Capacity /\ Len(batch') <= Batch
    BY SMTT(30), <1>1, <1>3, <1>4, <2>1
  <2>7. file' \in Seq(Record) /\ torn' \in BOOLEAN /\ synced' \in 0 .. Len(file')
    BY SMTT(30), <1>3 DEF TypeOK
  <2> QED
    BY Zenon, <1>4, <1>5, <2>1, <2>3, <2>4, <2>5, <2>6, <2>7 DEF TypeOK
<1>8. status'.written = b /\ status'.durable = b /\ ~status'.closed /\ ~status'.poisoned
      /\ ~status'.complete /\ ~snap'.complete /\ snap'.durable = b /\ snap'.written = b
  BY SMTT(30), <1>3 DEF StatusState
<1>9. QueueInv'
  <2>1. Carries(file, 0, log')
    BY <1>1, <1>3, CarriesCut
  <2>2. Carries(batch', Len(file'), log') /\ Carries(ring', Len(file') + Len(batch'), log')
    BY <1>3, CarriesNone
  <2>3. Len(batch') = 0 /\ Len(ring') = 0 /\ Len(file') = Len(file)
    BY <1>3
  <2>4. /\ next_sequence' = First + Len(log') /\ Len(file') <= Len(log')
        /\ base' <= First + Len(file') /\ expected' = First + Len(file') + Len(batch')
        /\ next_sequence' = expected' + Len(ring')
    BY SMTT(30), <1>1, <1>2, <1>3, <1>5, <2>3
  <2> QED
    BY SMTT(30), <1>3, <2>1, <2>2, <2>4 DEF QueueInv
<1>10. DurableIsFlushed'
  BY SMTT(30), <1>3, <1>8 DEF DurableIsFlushed
<1>11. WorkerInv'
  BY SMTT(30), <1>1, <1>2, <1>3, <1>4, <1>8 DEF WorkerInv
<1>12. ReaderInv'
  BY <1>3, <1>4, <1>8 DEF ReaderInv, SnapshotOrdered
<1> QED
  BY SMTT(30), <1>7, <1>9, <1>10, <1>11, <1>12

-----------------------------------------------------------------------------

\* Doing nothing keeps the invariant.
LEMMA StutterKeeps == ChannelInv /\ UNCHANGED journalVars => ChannelInv'
<1> SUFFICES ASSUME ChannelInv, UNCHANGED journalVars PROVE ChannelInv'
  BY SMTT(30)
<1> USE DEF ChannelInv, journalVars
<1>1. TypeOK'
  BY SMTT(30) DEF TypeOK
<1>2. QueueInv' /\ DurableIsFlushed' /\ WorkerInv' /\ ReaderInv'
  BY ReaderOnly, ReaderFrame
<1> QED
  BY <1>1, <1>2

\* The worker thread, whatever it does.
LEMMA WorkerKeeps == ChannelInv /\ Worker => ChannelInv'
  BY DrainBatchKeeps, ShutdownKeeps, ReadRecordKeeps, ReadEmptyKeeps, WriteRecordKeeps,
     PublishWrittenKeeps, FlushKeeps, PublishDurableKeeps, CompleteKeeps, FaultKeeps,
     DropWorkerKeeps
     DEF Worker, WorkerStep

\* The status reader, whatever it loads.
LEMMA StatusReaderKeeps == ChannelInv /\ StatusReader => ChannelInv'
  BY SnapCompleteKeeps, SnapDurableKeeps, SnapWrittenKeeps, SnapFlagsKeeps DEF StatusReader

\* Every step of the journal.
LEMMA ChannelStep == ChannelInv /\ [Next]_journalVars => ChannelInv'
<1>1. ChannelInv /\ Writer => ChannelInv'
  BY SMTT(30), EnqueueKeeps, CloseKeeps DEF Writer
<1>2. ChannelInv /\ Environment => ChannelInv'
  BY CrashKeeps, RestartKeeps, RefusalKeeps DEF Environment, RefuseRestart
<1> QED
  BY <1>1, <1>2, StutterKeeps, WorkerKeeps, StatusReaderKeeps DEF Next

\* What the inductive invariant says of the properties that are checked.
LEMMA ChannelSafety == ChannelInv => JournalInv /\ CompleteMeansPersisted /\ StatusLoadsAgree
<1> SUFFICES ASSUME ChannelInv PROVE JournalInv /\ CompleteMeansPersisted /\ StatusLoadsAgree
  OBVIOUS
<1> USE DEF ChannelInv
<1>1. FileIsPrefixOfLog
  <2>1. file \in Seq(Record) /\ Len(file) <= Len(log) /\ Carries(file, 0, log)
    BY SMTT(30) DEF TypeOK, QueueInv
  <2>2. ASSUME NEW i \in 1 .. Len(file)
        PROVE  file[i] = [seq |-> First + i - 1, payload |-> log[i]]
    <3>1. file[i] \in Record /\ file[i].seq = First + i - 1 /\ file[i].payload = log[i]
      BY SMTT(30), <2>1 DEF Carries
    <3> QED
      BY SMTT(30), <3>1 DEF Record
  <2> QED
    BY Zenon, <2>1, <2>2 DEF FileIsPrefixOfLog
<1>2. WrittenIsInSink
  BY DEF WorkerInv, WrittenIsInSink
<1>3. RingContinuesSequence
  <2>1. SUFFICES ASSUME life = "up", ~status.poisoned
                 PROVE  /\ next_sequence = expected + Len(ring)
                        /\ \A i \in 1 .. Len(ring) : ring[i].seq = expected + i - 1
    BY DEF RingContinuesSequence
  <2>2. PICK off \in Nat : off = Len(file) + Len(batch)
    BY Numbers
  <2>3. expected = First + off /\ next_sequence = expected + Len(ring) /\ Carries(ring, off, log)
    BY <2>1, <2>2, Numbers DEF QueueInv
  <2> QED
    BY <2>3 DEF Carries
<1>4. CompleteMeansPersisted
  <2>1. SUFFICES ASSUME life = "up", status.complete
                 PROVE  /\ status.closed /\ ~status.poisoned
                        /\ ring = <<>> /\ batch = <<>>
                        /\ status.durable = next_sequence /\ status.written = next_sequence
                        /\ synced = Len(log)
    BY DEF CompleteMeansPersisted
  <2>2. /\ status.closed /\ ~status.poisoned /\ ring = <<>> /\ batch = <<>>
        /\ status.durable = First + Len(log) /\ synced = Len(log)
        /\ status.written = First + Len(file)
    BY <2>1 DEF WorkerInv
  <2>3. Len(file) = Len(log) /\ next_sequence = First + Len(log)
    BY <2>2, Numbers DEF QueueInv
  <2> QED
    BY <2>2, <2>3
<1>5. StatusLoadsAgree
  <2>1. SUFFICES ASSUME life = "up", opc = "idle", snap.complete
                 PROVE  /\ snap.closed /\ ~snap.poisoned
                        /\ snap.durable = next_sequence /\ snap.written = next_sequence
    BY DEF StatusLoadsAgree, SnapshotOfCompletion, ReaderInv
  <2> QED
    BY SMTT(30), <1>4, <2>1 DEF ReaderInv, CompleteMeansPersisted
<1> QED
  BY <1>1, <1>2, <1>3, <1>4, <1>5 DEF JournalInv

\* The inductive invariant of writer, worker, sink, status block and reader, over
\* failures, early drops, crashes and restarts.
THEOREM JournalAlwaysConsistent == Spec => []ChannelInv
  BY ChannelInit, ChannelStep, PTL DEF Spec

\* enqueue, drain_batch and recover: the sink holds a prefix of what was accepted
\* and the published watermarks are true, for every capacity, batch size, flush
\* policy and number of lives.
THEOREM JournalAlwaysSafe == Spec => []JournalInv
  BY JournalAlwaysConsistent, ChannelSafety, PTL

\* shutdown: a published completion means that every accepted record is flushed.
THEOREM CompletionAlwaysPersisted == Spec => []CompleteMeansPersisted
  BY JournalAlwaysConsistent, ChannelSafety, PTL

\* JournalStatusReader::snapshot: five separate loads give a consistent status.
THEOREM StatusAlwaysAgrees == Spec => []StatusLoadsAgree
  BY JournalAlwaysConsistent, ChannelSafety, PTL
=============================================================================
