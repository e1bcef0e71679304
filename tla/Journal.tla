------------------------------- MODULE Journal -------------------------------
(***************************************************************************)
(* hft-journal: the writer of the matching thread, the persistence worker, *)
(* the sink it writes to, the status block both share, a status reader,    *)
(* and what a crash and the recovery scan make of the file.                *)
(*                                                                         *)
(* The ring is the bounded FIFO that hft-spsc implements.  Every status    *)
(* field is an atomic stored with Release and loaded with Acquire, so a    *)
(* load may be stale, but never older than what the loading thread already *)
(* knows, directly or through another field it has loaded.                 *)
(***************************************************************************)
EXTENDS Integers, Sequences

CONSTANTS
  First,     \* first_sequence of the journal file
  MaxSeq,    \* u64::MAX
  Capacity,  \* RING_CAPACITY
  Batch,     \* BATCH of the worker
  Payloads,  \* record payloads
  MaxLives   \* bound: how often the process is started

ASSUME JournalAssumption ==
  /\ First \in Nat /\ MaxSeq \in Nat /\ First <= MaxSeq
  /\ Capacity \in Nat \ {0}
  /\ Batch \in Nat \ {0}
  /\ MaxLives \in Nat \ {0}

Record == [seq : Nat, payload : Payloads]

VARIABLES
  next_sequence, \* JournalWriter.next_sequence
  writer,        \* "open", or "closed" once close or Drop has consumed it
  ring,          \* records between writer and reader
  visible,       \* how many of them the worker is bound to see (see ReadEmpty)
  status,        \* StatusState: the five atomics
  wstores,       \* values stored to next_written_sequence so far
  dstores,       \* values stored to next_durable_sequence, each with the written
                 \* watermark that its Release store makes visible
  policy,        \* FlushPolicy
  wpc,           \* where the worker is in drain_batch or shutdown
  shutting,      \* the worker is inside shutdown
  expected,      \* JournalReader.expected_sequence
  batch,         \* records read and not yet written
  failed,        \* PersistenceWorker.poisoned
  file,          \* complete records in the sink
  torn,          \* an incomplete record follows them
  synced,        \* how many records the last successful flush covers
  log,           \* payloads accepted by enqueue, in order
  base,          \* first_sequence of this life's channel
  life,          \* "up", "down" after a crash, "refused" by the recovery scan
  lives,         \* lives so far
  opc,           \* where the status reader is in snapshot
  seen,          \* the oldest values its loads may still return
  snap           \* the JournalStatus it is building, or has returned

writerVars == <<next_sequence, writer, log>>
workerVars == <<wpc, shutting, expected, batch, failed>>
statusVars == <<status, wstores, dstores>>
sinkVars == <<file, torn, synced>>
lifeVars == <<policy, base, life, lives>>
readerVars == <<opc, seen, snap>>
journalVars == <<writerVars, ring, visible, workerVars, statusVars, sinkVars, lifeVars, readerVars>>

-----------------------------------------------------------------------------
(* JournalChannel::split for a channel that starts at sequence s.          *)

StatusState(s) ==
  [written |-> s, durable |-> s, closed |-> FALSE, poisoned |-> FALSE, complete |-> FALSE]

\* What the recovery scan returns for a file of n records.
AfterFile(n) == First + n

Init ==
  /\ next_sequence = First
  /\ writer = "open"
  /\ ring = <<>>
  /\ visible = 0
  /\ status = StatusState(First)
  /\ wstores = {First}
  /\ dstores = {[durable |-> First, written |-> First]}
  /\ policy \in {"EveryBatch", "OnShutdown"}
  /\ wpc = "idle"
  /\ shutting = FALSE
  /\ expected = First
  /\ batch = <<>>
  /\ failed = FALSE
  /\ file = <<>>
  /\ torn = FALSE
  /\ synced = 0
  /\ log = <<>>
  /\ base = First
  /\ life = "up"
  /\ lives = 1
  /\ opc = "idle"
  /\ seen = StatusState(First)
  /\ snap = StatusState(First)

-----------------------------------------------------------------------------
(* JournalWriter                                                           *)

\* Refusals (SequenceOverflow, Saturated) change nothing.
Enqueue(p) ==
  /\ life = "up" /\ writer = "open"
  /\ next_sequence < MaxSeq
  /\ Len(ring) < Capacity
  /\ ring' = Append(ring, [seq |-> next_sequence, payload |-> p])
  /\ next_sequence' = next_sequence + 1
  /\ log' = Append(log, p)
  /\ UNCHANGED <<writer, visible, workerVars, statusVars, sinkVars, lifeVars, readerVars>>

\* The Release store of producer_closed, after the last enqueue.
Close ==
  /\ life = "up" /\ writer = "open"
  /\ writer' = "closed"
  /\ status' = [status EXCEPT !.closed = TRUE]
  /\ UNCHANGED <<next_sequence, log, ring, visible, workerVars, wstores, dstores, sinkVars, lifeVars, readerVars>>

-----------------------------------------------------------------------------
(* PersistenceWorker                                                       *)

Poison == status' = [status EXCEPT !.poisoned = TRUE]

\* PersistenceWorker::fail
Fail ==
  /\ failed' = TRUE
  /\ Poison
  /\ wpc' = "idle"
  /\ shutting' = FALSE
  /\ batch' = <<>>

DrainBatch ==
  /\ life = "up" /\ wpc = "idle" /\ ~failed
  /\ wpc' = "read"
  /\ UNCHANGED <<writerVars, ring, visible, shutting, expected, batch, failed,
                 statusVars, sinkVars, lifeVars, readerVars>>

\* JournalReader::read hands out the next record, or poisons on a record that
\* does not continue the sequence.
ReadRecord ==
  /\ life = "up" /\ wpc = "read"
  /\ Len(batch) < Batch
  /\ ring # <<>>
  /\ ring' = Tail(ring)
  /\ visible' = IF visible = 0 THEN 0 ELSE visible - 1
  /\ \/ /\ Head(ring).seq = expected /\ expected < MaxSeq
        /\ expected' = expected + 1
        /\ batch' = Append(batch, Head(ring))
        /\ UNCHANGED <<wpc, shutting, failed, status>>
     \/ /\ ~(Head(ring).seq = expected /\ expected < MaxSeq)
        /\ Fail
        /\ UNCHANGED expected
  /\ UNCHANGED <<writerVars, wstores, dstores, sinkVars, lifeVars, readerVars>>

\* Mutant: an empty batch ends shutdown without the last flush.
ReadEmptyAbandonsShutdown ==
  /\ life = "up" /\ wpc = "read"
  /\ Len(batch) = Batch \/ visible = 0
  /\ wpc' = IF batch # <<>> THEN "write" ELSE "idle"
  /\ UNCHANGED <<writerVars, ring, visible, shutting, expected, batch, failed,
                 statusVars, sinkVars, lifeVars, readerVars>>

\* Mutant: a batch that is not full waits for more records.
ReadEmptyWaitsForFullBatch ==
  /\ life = "up" /\ wpc = "read"
  /\ Len(batch) = Batch \/ (visible = 0 /\ batch = <<>>)
  /\ wpc' = CASE batch # <<>> -> "write"
              [] batch = <<>> /\ shutting -> "lastflush"
              [] OTHER -> "idle"
  /\ UNCHANGED <<writerVars, ring, visible, shutting, expected, batch, failed,
                 statusVars, sinkVars, lifeVars, readerVars>>

\* The end of the read loop: the batch is full, or try_pop returned None.  A
\* stale load of the ring's tail may hide records, except those the worker
\* knows of through its Acquire load of producer_closed.
ReadEmpty ==
  /\ life = "up" /\ wpc = "read"
  /\ Len(batch) = Batch \/ visible = 0
  /\ wpc' = CASE batch # <<>> -> "write"
              [] batch = <<>> /\ shutting -> "lastflush"
              [] OTHER -> "idle"
  /\ UNCHANGED <<writerVars, ring, visible, shutting, expected, batch, failed,
                 statusVars, sinkVars, lifeVars, readerVars>>

WriteRecord ==
  /\ life = "up" /\ wpc = "write"
  /\ file' = Append(file, Head(batch))
  /\ batch' = Tail(batch)
  /\ wpc' = IF Tail(batch) = <<>> THEN "written" ELSE "write"
  /\ UNCHANGED <<writerVars, ring, visible, shutting, expected, failed, statusVars,
                 torn, synced, lifeVars, readerVars>>

\* write_all gave up: none or some of the record's bytes are in the sink.
WriteError ==
  /\ life = "up" /\ wpc = "write"
  /\ torn' \in BOOLEAN
  /\ Fail
  /\ UNCHANGED <<writerVars, ring, visible, expected, wstores, dstores, file, synced, lifeVars, readerVars>>

\* Mutant: the durable watermark is published without a flush.
PublishWrittenAsDurable ==
  /\ life = "up" /\ wpc = "written"
  /\ status' = [status EXCEPT !.written = expected]
  /\ wstores' = wstores \cup {expected}
  /\ wpc' = "durable"
  /\ UNCHANGED <<writerVars, ring, visible, shutting, expected, batch, failed, dstores,
                 sinkVars, lifeVars, readerVars>>

PublishWritten ==
  /\ life = "up" /\ wpc = "written"
  /\ status' = [status EXCEPT !.written = expected]
  /\ wstores' = wstores \cup {expected}
  /\ wpc' = CASE policy = "EveryBatch" -> "flush"
              [] policy = "OnShutdown" /\ shutting -> "read"
              [] OTHER -> "idle"
  /\ UNCHANGED <<writerVars, ring, visible, shutting, expected, batch, failed, dstores,
                 sinkVars, lifeVars, readerVars>>

Flush ==
  /\ life = "up" /\ wpc \in {"flush", "lastflush"}
  /\ synced' = Len(file)
  /\ wpc' = IF wpc = "flush" THEN "durable" ELSE "lastdurable"
  /\ UNCHANGED <<writerVars, ring, visible, shutting, expected, batch, failed, statusVars,
                 file, torn, lifeVars, readerVars>>

FlushError ==
  /\ life = "up" /\ wpc \in {"flush", "lastflush"}
  /\ Fail
  /\ UNCHANGED <<writerVars, ring, visible, expected, wstores, dstores, sinkVars, lifeVars, readerVars>>

PublishDurable ==
  /\ life = "up" /\ wpc \in {"durable", "lastdurable"}
  /\ status' = [status EXCEPT !.durable = expected]
  /\ dstores' = dstores \cup {[durable |-> expected, written |-> status.written]}
  /\ wpc' = CASE wpc = "lastdurable" -> "complete"
              [] wpc = "durable" /\ shutting -> "read"
              [] OTHER -> "idle"
  /\ UNCHANGED <<writerVars, ring, visible, shutting, expected, batch, failed, wstores, sinkVars,
                 lifeVars, readerVars>>

\* Mutant: producer_closed is loaded Relaxed, enqueued records may stay hidden.
ShutdownRelaxed ==
  /\ life = "up" /\ wpc = "idle" /\ ~failed /\ ~status.complete
  /\ status.closed
  /\ shutting' = TRUE
  /\ wpc' = "read"
  /\ UNCHANGED <<writerVars, ring, visible, expected, batch, failed, statusVars, sinkVars,
                 lifeVars, readerVars>>

\* Shutdown returns ProducerOpen, and changes nothing, until its Acquire load
\* of producer_closed returns true; then every enqueued record is visible.
Shutdown ==
  /\ life = "up" /\ wpc = "idle" /\ ~failed /\ ~status.complete
  /\ status.closed
  /\ visible' = Len(ring)
  /\ shutting' = TRUE
  /\ wpc' = "read"
  /\ UNCHANGED <<writerVars, ring, expected, batch, failed, statusVars, sinkVars,
                 lifeVars, readerVars>>

Complete ==
  /\ life = "up" /\ wpc = "complete"
  /\ status' = [status EXCEPT !.complete = TRUE]
  /\ shutting' = FALSE
  /\ wpc' = "idle"
  /\ UNCHANGED <<writerVars, ring, visible, expected, batch, failed, wstores, dstores, sinkVars,
                 lifeVars, readerVars>>

\* The worker or its reader is dropped (into_sink too): StatusGuard::drop.
DropWorker ==
  /\ life = "up" /\ wpc = "idle"
  /\ wpc' = "gone"
  /\ IF status.complete THEN UNCHANGED status ELSE Poison
  /\ UNCHANGED <<writerVars, ring, visible, shutting, expected, batch, failed, wstores, dstores,
                 sinkVars, lifeVars, readerVars>>
-----------------------------------------------------------------------------
(* JournalStatusReader                                                     *)

Later(a, b) == IF a >= b THEN a ELSE b

\* What an Acquire load of one of the flags may return.
Flag(f) == {b \in BOOLEAN : (b => status[f]) /\ (seen[f] => b)}

\* snapshot loads shutdown_complete first.  A true one was released after the
\* last stores of the worker, so they are visible from now on.
SnapComplete ==
  /\ life = "up" /\ opc = "idle"
  /\ \E c \in Flag("complete") :
       /\ snap' = [StatusState(base) EXCEPT !.complete = c]
       /\ seen' = IF c THEN [seen EXCEPT !.complete = TRUE, !.closed = status.closed,
                               !.durable = status.durable, !.written = status.written]
                  ELSE seen
  /\ opc' = "durable"
  /\ UNCHANGED <<writerVars, ring, visible, workerVars, statusVars, sinkVars, lifeVars>>

\* Mutant: the durable watermark is loaded Relaxed.
SnapDurableRelaxed ==
  /\ life = "up" /\ opc = "durable"
  /\ \E m \in dstores :
       /\ m.durable >= seen.durable
       /\ snap' = [snap EXCEPT !.durable = m.durable]
       /\ seen' = [seen EXCEPT !.durable = m.durable]
  /\ opc' = "written"
  /\ UNCHANGED <<writerVars, ring, visible, workerVars, statusVars, sinkVars, lifeVars>>

\* Loading a durable watermark makes the written one it followed visible.
SnapDurable ==
  /\ life = "up" /\ opc = "durable"
  /\ \E m \in dstores :
       /\ m.durable >= seen.durable
       /\ snap' = [snap EXCEPT !.durable = m.durable]
       /\ seen' = [seen EXCEPT !.durable = m.durable, !.written = Later(@, m.written)]
  /\ opc' = "written"
  /\ UNCHANGED <<writerVars, ring, visible, workerVars, statusVars, sinkVars, lifeVars>>

SnapWritten ==
  /\ life = "up" /\ opc = "written"
  /\ \E w \in wstores :
       /\ w >= seen.written
       /\ snap' = [snap EXCEPT !.written = w]
       /\ seen' = [seen EXCEPT !.written = w]
  /\ opc' = "flags"
  /\ UNCHANGED <<writerVars, ring, visible, workerVars, statusVars, sinkVars, lifeVars>>

\* A true poisoned flag is the worker's last store: everything is visible.
SnapFlags ==
  /\ life = "up" /\ opc = "flags"
  /\ \E c \in Flag("closed"), p \in Flag("poisoned") :
       /\ snap' = [snap EXCEPT !.closed = c, !.poisoned = p]
       /\ seen' = [seen EXCEPT !.closed = c, !.poisoned = p,
                     !.durable = IF p THEN status.durable ELSE @,
                     !.written = IF p THEN status.written ELSE @]
  /\ opc' = "idle"
  /\ UNCHANGED <<writerVars, ring, visible, workerVars, statusVars, sinkVars, lifeVars>>

-----------------------------------------------------------------------------
(* Crash and recovery                                                      *)

\* The process stops.  Records no flush covers may be lost, from the end, and
\* the first lost one may leave some bytes behind.
Crash ==
  /\ life = "up"
  /\ life' = "down"
  /\ \E n \in synced .. Len(file) :
       /\ file' = SubSeq(file, 1, n)
       /\ torn' \in IF n < Len(file) THEN BOOLEAN ELSE {torn, FALSE}
  /\ UNCHANGED <<writerVars, ring, visible, workerVars, statusVars, synced, policy, base,
                 lives, readerVars>>

\* recover accepts the file only as a whole.
ScanAccepts == ~torn /\ \A i \in 1 .. Len(file) : file[i].seq = First + i - 1

\* open_append, then fresh storage split at the recovered sequence.
Restart ==
  /\ life = "down" /\ lives < MaxLives
  /\ ScanAccepts
  /\ life' = "up"
  /\ lives' = lives + 1
  /\ base' = AfterFile(Len(file))
  /\ next_sequence' = base'
  /\ writer' = "open"
  /\ log' = SubSeq(log, 1, Len(file))
  /\ ring' = <<>>
  /\ visible' = 0
  /\ status' = StatusState(base')
  /\ wstores' = {base'}
  /\ dstores' = {[durable |-> base', written |-> base']}
  /\ policy' \in {"EveryBatch", "OnShutdown"}
  /\ wpc' = "idle"
  /\ shutting' = FALSE
  /\ expected' = base'
  /\ batch' = <<>>
  /\ failed' = FALSE
  /\ opc' = "idle"
  /\ seen' = StatusState(base')
  /\ snap' = StatusState(base')
  /\ UNCHANGED <<sinkVars>>

RefuseRestart ==
  /\ life = "down"
  /\ ~ScanAccepts
  /\ life' = "refused"
  /\ UNCHANGED <<writerVars, ring, visible, workerVars, statusVars, sinkVars, policy, base,
                 lives, readerVars>>

-----------------------------------------------------------------------------
Writer == (\E p \in Payloads : Enqueue(p)) \/ Close
WorkerStep == \/ ReadRecord \/ ReadEmpty \/ WriteRecord \/ PublishWritten
              \/ Flush \/ PublishDurable \/ Complete
WorkerFault == WriteError \/ FlushError
Worker == DrainBatch \/ Shutdown \/ WorkerStep \/ WorkerFault \/ DropWorker
StatusReader == SnapComplete \/ SnapDurable \/ SnapWritten \/ SnapFlags
Environment == Crash \/ Restart \/ RefuseRestart

Next == Writer \/ Worker \/ StatusReader \/ Environment

Spec == Init /\ [][Next]_journalVars

-----------------------------------------------------------------------------
(* Properties                                                              *)

Seqs == First .. MaxSeq
JournalStatus == [written : Seqs, durable : Seqs, closed : BOOLEAN, poisoned : BOOLEAN,
                  complete : BOOLEAN]

\* Type correctness of writer, worker, status block, sink and status reader.
TypeOK ==
  /\ next_sequence \in Seqs
  /\ writer \in {"open", "closed"}
  /\ ring \in Seq(Record) /\ Len(ring) <= Capacity
  /\ visible \in 0 .. Len(ring)
  /\ status \in JournalStatus
  /\ wstores \subseteq Seqs
  /\ dstores \subseteq [durable : Seqs, written : Seqs]
  /\ policy \in {"EveryBatch", "OnShutdown"}
  /\ wpc \in {"idle", "read", "write", "written", "flush", "durable", "lastflush",
              "lastdurable", "complete", "gone"}
  /\ shutting \in BOOLEAN
  /\ expected \in Seqs
  /\ batch \in Seq(Record) /\ Len(batch) <= Batch
  /\ failed \in BOOLEAN
  /\ file \in Seq(Record)
  /\ torn \in BOOLEAN
  /\ synced \in 0 .. Len(file)
  /\ log \in Seq(Payloads)
  /\ base \in Seqs
  /\ life \in {"up", "down", "refused"}
  /\ lives \in 1 .. MaxLives
  /\ opc \in {"idle", "durable", "written", "flags"}
  /\ seen \in JournalStatus
  /\ snap \in JournalStatus

\* The sink holds a prefix of what enqueue accepted, record by record: the
\* worker loses, repeats or reorders nothing it writes, across batches, write
\* errors, crashes and restarts.
FileIsPrefixOfLog ==
  /\ Len(file) <= Len(log)
  /\ \A i \in 1 .. Len(file) : file[i] = [seq |-> First + i - 1, payload |-> log[i]]

\* "First sequence not covered by a fully written batch": every record below
\* the written watermark is complete in the sink while the process is up.
WrittenIsInSink == life = "up" => status.written <= AfterFile(Len(file))

\* A durable watermark that has moved in this life is covered by a flush, so
\* no crash can take back a record it covers.
DurableIsFlushed == status.durable > base => status.durable <= AfterFile(synced)

\* The reader never poisons the channel on a record the writer enqueued: a
\* poisoned channel has lost its worker to an I/O error or an early drop.
RingContinuesSequence ==
  life = "up" /\ ~status.poisoned =>
    /\ next_sequence = expected + Len(ring)
    /\ \A i \in 1 .. Len(ring) : ring[i].seq = expected + i - 1

\* The records and the watermarks, at every point of the worker's loop: the sink
\* holds a prefix of what was accepted, what is published as written or durable
\* is so, and the ring continues where the reader stands.
JournalInv ==
  TypeOK /\ FileIsPrefixOfLog /\ WrittenIsInSink /\ DurableIsFlushed /\ RingContinuesSequence

\* shutdown_complete: the writer is closed, nothing is left in the ring or in
\* the batch, the sink holds and has flushed every accepted record, and the
\* channel is not poisoned, then or later.
CompleteMeansPersisted ==
  life = "up" /\ status.complete =>
    /\ status.closed /\ ~status.poisoned
    /\ ring = <<>> /\ batch = <<>>
    /\ status.durable = next_sequence /\ status.written = next_sequence
    /\ synced = Len(log)

\* "Counters may advance during this call. Durable never exceeds written."
SnapshotOrdered == opc \in {"flags", "idle"} => snap.durable <= snap.written

\* A snapshot that reports completion reports the final counters and closure
\* with it, although the five fields are loaded one by one.
SnapshotOfCompletion ==
  life = "up" /\ opc = "idle" /\ snap.complete =>
    /\ snap.closed /\ ~snap.poisoned
    /\ snap.durable = next_sequence /\ snap.written = next_sequence

\* One snapshot of the status block is consistent in itself.
StatusLoadsAgree == SnapshotOrdered /\ SnapshotOfCompletion

\* Once the writer is closed the worker finishes: shutdown completes, or the
\* channel is poisoned, or the process stops.
ClosedIsResolved ==
  []<>(status.closed => status.complete \/ status.poisoned \/ life # "up")

\* Under EveryBatch the durable watermark always catches up with the records
\* accepted, unless the channel is poisoned or the process stops.
AcceptedBecomesDurable ==
  []<>(policy = "EveryBatch" =>
         status.durable = next_sequence \/ status.poisoned \/ life # "up")
=============================================================================
