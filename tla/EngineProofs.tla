---------------------------- MODULE EngineProofs ----------------------------
(***************************************************************************)
(* The engine over its journal, for every queue, history and number of     *)
(* lives: the gateway and the journal agree, and a snapshot that was       *)
(* returned can always be restored.                                        *)
(***************************************************************************)
EXTENDS Engine, JournalProofs

\* The gateway's history is the journal's while the process runs.
HistoryInv == life = "up" => applied = log

\* A snapshot is a part of the sink that is flushed, and holds no command whose
\* application failed.
TakenInv ==
  \A s \in taken :
    /\ Len(s) <= synced
    /\ \A i \in 1 .. Len(s) : file[i].payload = s[i] /\ s[i] \notin Fatal

\* The inductive invariant of engine and journal.
RestartInv == ChannelInv /\ EngineTypeOK /\ HistoryInv /\ ErrorStopsAdmission /\ TakenInv

USE JournalAssumption, EngineAssumption
    DEF Seqs, AfterFile, writerVars, workerVars, statusVars, sinkVars, lifeVars, readerVars,
        engineVars

\* A new engine has applied nothing.
LEMMA RestartInit == EngineInit => RestartInv
<1> SUFFICES ASSUME EngineInit PROVE RestartInv
  OBVIOUS
<1>1. /\ Init /\ applied = <<>> /\ halted = FALSE /\ events = <<>> /\ delivered = <<>>
      /\ taken = {}
  BY DEF EngineInit
<1>2. log = <<>>
  BY <1>1 DEF Init
<1>3. EngineTypeOK
  <2>1. <<>> \in Seq(Payloads) /\ <<>> \in Seq(Record) /\ Len(<<>>) = 0
    OBVIOUS
  <2>2. events \in Seq(Record) /\ delivered \in Seq(Record) /\ Len(events) <= EVENTS
    BY <1>1, <2>1
  <2> QED
    BY Zenon, <1>1, <2>1, <2>2 DEF EngineTypeOK
<1>4. HistoryInv /\ ErrorStopsAdmission /\ TakenInv
  BY <1>1, <1>2 DEF HistoryInv, ErrorStopsAdmission, TakenInv
<1> QED
  BY <1>1, <1>3, <1>4, ChannelInit DEF RestartInv

\* Nothing but a crash removes a record from the sink, and a flush is never
\* taken back.
LEMMA SinkGrows ==
  ASSUME ChannelInv, Worker
  PROVE  /\ synced \in Nat /\ synced' \in Nat /\ synced <= synced' /\ synced <= Len(file)
         /\ Len(file) \in Nat /\ \A i \in 1 .. Len(file) : file'[i] = file[i]
         /\ UNCHANGED <<writerVars, life>>
<1>1. /\ synced \in Nat /\ Len(file) \in Nat /\ synced <= Len(file) /\ file \in Seq(Record)
      /\ batch \in Seq(Record)
  BY Numbers DEF ChannelInv, TypeOK
<1>2. CASE UNCHANGED <<file, synced, writerVars, life>>
  BY <1>1, <1>2
<1>3. CASE WriteRecord
  <2>1. batch # <<>>
    BY <1>3 DEF WriteRecord, ChannelInv, WorkerInv
  <2>2. Head(batch) \in Record
    BY <1>1, <2>1
  <2>3. \A i \in 1 .. Len(file) : Append(file, Head(batch))[i] = file[i]
    BY <1>1, <2>2
  <2> QED
    BY <1>1, <1>3, <2>3 DEF WriteRecord
<1>4. CASE Flush
  BY SMTT(30), <1>1, <1>4 DEF Flush
<1>5. WriteRecord \/ Flush \/ UNCHANGED <<file, synced, writerVars, life>>
  BY DEF Worker, WorkerStep, WorkerFault, DrainBatch, Shutdown, ReadRecord, ReadEmpty,
         PublishWritten, PublishDurable, Complete, WriteError, FlushError, DropWorker
<1> QED
  BY <1>2, <1>3, <1>4, <1>5

\* While the flushed part of the sink stays, so do the snapshots it holds.
LEMMA TakenFrame ==
  ASSUME ChannelInv, TakenInv, synced' \in Nat, synced <= synced', UNCHANGED taken,
         EngineTypeOK, \A i \in 1 .. synced : file'[i] = file[i]
  PROVE  TakenInv'
<1> SUFFICES ASSUME NEW s \in taken
             PROVE  /\ Len(s) <= synced'
                    /\ \A i \in 1 .. Len(s) : file'[i].payload = s[i] /\ s[i] \notin Fatal
  BY DEF TakenInv
<1>1. synced \in Nat /\ Len(s) \in Nat /\ Len(s) <= synced
  BY Numbers DEF ChannelInv, TakenInv, EngineTypeOK
<1>2. \A i \in 1 .. Len(s) : i \in 1 .. synced
  BY <1>1
<1> QED
  BY <1>1, <1>2 DEF TakenInv

-----------------------------------------------------------------------------
(* The engine thread                                                       *)

\* Engine, journal and gateway move together: enqueue, apply, publish.
LEMMA ApplyKeeps ==
  ASSUME RestartInv, NEW p \in Payloads, Apply(p)
  PROVE  RestartInv'
<1> USE DEF RestartInv
<1>1. ChannelInv'
  BY EnqueueKeeps DEF Apply
<1>2. /\ life = "up" /\ ~halted /\ p \notin Fatal /\ Len(events) < EVENTS
      /\ UNCHANGED <<file, synced, life, writer, halted, delivered, taken>>
      /\ log' = Append(log, p) /\ applied' = Append(applied, p)
      /\ events' = Append(events, [seq |-> ExpectedSequence, payload |-> p])
  BY DEF Apply, Running, Called, Enqueue, Admit
<1>3. applied \in Seq(Payloads) /\ Len(applied) \in Nat
  BY DEF EngineTypeOK
<1>4. [seq |-> ExpectedSequence, payload |-> p] \in Record
  BY <1>3 DEF ExpectedSequence, Record
<1>5. EngineTypeOK'
  BY <1>2, <1>4 DEF EngineTypeOK
<1>6. HistoryInv'
  BY <1>2 DEF HistoryInv
<1>7. ErrorStopsAdmission'
  <2>1. \A i \in 1 .. Len(applied) : applied[i] \notin Fatal
    BY <1>2 DEF ErrorStopsAdmission
  <2>2. /\ Len(applied') = Len(applied) + 1 /\ applied'[Len(applied) + 1] = p
        /\ \A i \in 1 .. Len(applied) : applied'[i] = applied[i]
    BY <1>2, <1>3
  <2>3. \A i \in 1 .. Len(applied') : applied'[i] \notin Fatal
    BY <1>2, <1>3, <2>1, <2>2
  <2> QED
    BY <2>3 DEF ErrorStopsAdmission
<1>8. TakenInv'
  BY SMTT(30), <1>2, TakenFrame, Numbers DEF ChannelInv
<1> QED
  BY <1>1, <1>5, <1>6, <1>7, <1>8

\* An error after the enqueue closes the journal behind the record, in one call.
LEMMA ApplyErrorKeeps ==
  ASSUME RestartInv, NEW p \in Payloads, ApplyError(p)
  PROVE  RestartInv'
<1> USE DEF RestartInv
<1>1. /\ life = "up" /\ ~halted /\ next_sequence < MaxSeq /\ Len(ring) < Capacity
      /\ ring' = Append(ring, [seq |-> next_sequence, payload |-> p])
      /\ next_sequence' = next_sequence + 1 /\ log' = Append(log, p) /\ writer' = "closed"
      /\ applied' = Append(applied, p) /\ halted' = TRUE
      /\ UNCHANGED <<visible, workerVars, wstores, dstores, sinkVars, lifeVars, readerVars,
                     events, delivered, taken>>
      /\ writer = "open"
  BY DEF ApplyError, Running, Called
<1>2. /\ status'.written = status.written /\ status'.durable = status.durable
      /\ status'.complete = status.complete /\ status'.poisoned = status.poisoned
      /\ status'.closed = TRUE /\ status' \in JournalStatus
  BY Zenon DEF ApplyError, ChannelInv, TypeOK, JournalStatus
<1>3. ChannelInv'
  <2> USE DEF ChannelInv
  <2>1. [seq |-> next_sequence, payload |-> p] \in Record
    BY DEF TypeOK, Record
  <2>2. ring' \in Seq(Record) /\ Len(ring') = Len(ring) + 1 /\ log' \in Seq(Payloads)
    BY SMTT(30), <1>1, <2>1 DEF TypeOK
  <2>3. TypeOK'
    BY SMTT(30), <1>1, <1>2, <2>2 DEF TypeOK
  <2>4. QueueInv'
    BY <1>1, <1>2, AcceptKeepsQueue
  <2>5. DurableIsFlushed'
    BY <1>1, <1>2 DEF DurableIsFlushed
  <2>6. ~shutting /\ ~status.complete /\ wpc \notin {"lastflush", "lastdurable", "complete"}
    BY SMTT(30), <1>1 DEF WorkerInv
  <2>7. WorkerInv'
    BY SMTT(30), <1>1, <1>2, <2>6 DEF WorkerInv
  <2>8. ReaderInv'
    BY <1>1, <1>2, ReaderFrame
  <2> QED
    BY <2>3, <2>4, <2>5, <2>7, <2>8
<1>4. applied \in Seq(Payloads) /\ Len(applied) \in Nat
  BY DEF EngineTypeOK
<1>5. EngineTypeOK'
  BY <1>1 DEF EngineTypeOK
<1>6. HistoryInv'
  BY <1>1 DEF HistoryInv
<1>7. ErrorStopsAdmission'
  <2>1. \A i \in 1 .. Len(applied) : applied[i] \notin Fatal
    BY <1>1 DEF ErrorStopsAdmission
  <2>2. /\ Len(applied') = Len(applied) + 1
        /\ \A i \in 1 .. Len(applied) : applied'[i] = applied[i]
    BY <1>1, <1>4
  <2>3. \A i \in 1 .. Len(applied') : applied'[i] \in Fatal => i = Len(applied')
    BY <1>4, <2>1, <2>2
  <2> QED
    BY <1>1, <2>3 DEF ErrorStopsAdmission
<1>8. TakenInv'
  BY <1>1, TakenFrame, Numbers DEF ChannelInv
<1> QED
  BY <1>3, <1>5, <1>6, <1>7, <1>8

\* Ending admission changes no history.
LEMMA StopKeeps ==
  ASSUME RestartInv, Close \/ UNCHANGED journalVars, halted' \in {halted, TRUE},
         UNCHANGED <<applied, events, delivered, taken>>
  PROVE  RestartInv'
<1> USE DEF RestartInv
<1>1. ChannelInv'
  BY CloseKeeps, StutterKeeps
<1>2. UNCHANGED <<file, synced, life, log>> /\ (writer = "closed" => writer' = "closed")
  BY DEF Close, journalVars
<1>3. EngineTypeOK' /\ HistoryInv' /\ ErrorStopsAdmission'
  BY Zenon, <1>2 DEF EngineTypeOK, HistoryInv, ErrorStopsAdmission
<1>4. TakenInv'
  BY <1>2, TakenFrame, Numbers DEF ChannelInv
<1> QED
  BY <1>1, <1>3, <1>4

\* Loads of the status change no history.
LEMMA LoadKeeps ==
  ASSUME RestartInv, StatusReader, UNCHANGED engineVars
  PROVE  RestartInv'
<1> USE DEF RestartInv
<1>1. ChannelInv'
  BY StatusReaderKeeps
<1>2. UNCHANGED <<file, synced, life, log, writer>>
  BY Zenon DEF StatusReader, SnapComplete, SnapDurable, SnapWritten, SnapFlags
<1>3. EngineTypeOK' /\ HistoryInv' /\ ErrorStopsAdmission'
  BY <1>2 DEF EngineTypeOK, HistoryInv, ErrorStopsAdmission
<1>4. TakenInv'
  BY <1>2, TakenFrame, Numbers DEF ChannelInv
<1> QED
  BY <1>1, <1>3, <1>4

\* A checkpoint is allowed only when the loaded status proves that the worker has
\* flushed every accepted command.
LEMMA SnapshotKeeps ==
  ASSUME RestartInv, Snapshot
  PROVE  RestartInv'
<1> USE DEF RestartInv
<1>1. ChannelInv'
  BY StatusReaderKeeps DEF Snapshot, StatusReader
<1>2. /\ life = "up" /\ opc' = "idle"
      /\ UNCHANGED <<file, synced, life, log, writer, status>>
      /\ UNCHANGED <<applied, halted, events, delivered>>
  BY DEF Snapshot, SnapFlags
<1>3. taken' = IF CheckpointAllowed THEN taken \cup {applied} ELSE taken
  BY DEF Snapshot
<1>4. EngineTypeOK'
  BY <1>2, <1>3 DEF EngineTypeOK
<1>5. HistoryInv' /\ ErrorStopsAdmission'
  BY <1>2 DEF HistoryInv, ErrorStopsAdmission
<1>6. TakenInv'
  <2>1. CASE ~CheckpointAllowed
    BY <1>2, <1>3, <2>1, TakenFrame, Numbers DEF ChannelInv
  <2>2. CASE CheckpointAllowed
    <3>1. ~halted /\ snap'.complete
      BY SMTT(30), <2>2 DEF CheckpointAllowed
    <3>2. synced = Len(log)
      BY <1>1, <1>2, <3>1 DEF ChannelInv, WorkerInv, ReaderInv
    <3>3. applied = log /\ Len(log) \in Nat /\ Len(file) = Len(log) /\ Carries(file, 0, log)
      BY <1>2, <3>2, Numbers DEF HistoryInv, ChannelInv, QueueInv
    <3>4. \A i \in 1 .. Len(applied) : file[i].payload = applied[i]
      BY <3>3 DEF Carries
    <3>5. \A i \in 1 .. Len(applied) : applied[i] \notin Fatal
      BY <3>1 DEF ErrorStopsAdmission
    <3> QED
      BY <1>2, <1>3, <2>2, <3>2, <3>3, <3>4, <3>5 DEF TakenInv
  <2> QED
    BY <2>1, <2>2
<1> QED
  BY <1>1, <1>4, <1>5, <1>6

-----------------------------------------------------------------------------
(* The other threads, the crash and the restore                            *)

\* The worker only adds to the sink.
LEMMA PersistenceKeeps ==
  ASSUME RestartInv, PersistenceWorker
  PROVE  RestartInv'
<1> USE DEF RestartInv, PersistenceWorker
<1>1. ChannelInv'
  BY WorkerKeeps
<1>2. /\ synced \in Nat /\ synced' \in Nat /\ synced <= synced' /\ synced <= Len(file)
      /\ Len(file) \in Nat /\ \A i \in 1 .. Len(file) : file'[i] = file[i]
      /\ UNCHANGED <<writerVars, life>>
  BY SinkGrows
<1>3. EngineTypeOK' /\ HistoryInv' /\ ErrorStopsAdmission'
  BY <1>2 DEF EngineTypeOK, HistoryInv, ErrorStopsAdmission
<1>4. TakenInv'
  <2>1. \A i \in 1 .. synced : file'[i] = file[i]
    BY <1>2
  <2> QED
    BY <1>2, <2>1, TakenFrame
<1> QED
  BY <1>1, <1>3, <1>4

\* The consumer takes batches from the queue and touches nothing else.
LEMMA ConsumeKeeps ==
  ASSUME RestartInv, ConsumeEvents
  PROVE  RestartInv'
<1> USE DEF RestartInv
<1>1. /\ UNCHANGED journalVars /\ UNCHANGED <<applied, halted, taken>> /\ events # <<>>
      /\ delivered' = Append(delivered, Head(events)) /\ events' = Tail(events)
  BY DEF ConsumeEvents
<1>2. ChannelInv'
  BY <1>1, StutterKeeps
<1>3. events \in Seq(Record) /\ Len(events) <= EVENTS /\ delivered \in Seq(Record)
  BY DEF EngineTypeOK
<1>4. Head(events) \in Record /\ Tail(events) \in Seq(Record) /\ Len(Tail(events)) <= EVENTS
  BY <1>1, <1>3
<1>5. EngineTypeOK'
  BY <1>1, <1>3, <1>4 DEF EngineTypeOK
<1>6. UNCHANGED <<file, synced, life, log, writer>>
  BY <1>1 DEF journalVars
<1>7. HistoryInv' /\ ErrorStopsAdmission'
  BY <1>1, <1>6 DEF HistoryInv, ErrorStopsAdmission
<1>8. TakenInv'
  BY <1>1, <1>6, TakenFrame, Numbers DEF ChannelInv
<1> QED
  BY <1>2, <1>5, <1>7, <1>8

\* A crash leaves the flushed records, and so every snapshot.
LEMMA CrashKeepsSnapshots ==
  ASSUME RestartInv, Stop
  PROVE  RestartInv'
<1> USE DEF RestartInv, Stop
<1>1. ChannelInv'
  BY CrashKeeps
<1>2. life' = "down" /\ UNCHANGED <<writer, synced>>
  BY DEF Crash
<1>3. EngineTypeOK' /\ HistoryInv' /\ ErrorStopsAdmission'
  BY <1>2 DEF EngineTypeOK, HistoryInv, ErrorStopsAdmission
<1>4. TakenInv'
  <2>1. PICK n \in synced .. Len(file) : file' = SubSeq(file, 1, n)
    BY SMTT(30) DEF Crash
  <2>2. file \in Seq(Record) /\ Len(file) \in Nat /\ synced \in Nat
    BY Numbers DEF ChannelInv, TypeOK
  <2>3. \A i \in 1 .. n : SubSeq(file, 1, n)[i] = file[i]
    BY <2>1, <2>2
  <2>4. \A i \in 1 .. synced : file'[i] = file[i]
    BY <2>1, <2>2, <2>3
  <2> QED
    BY <1>2, <2>2, <2>4, TakenFrame
<1> QED
  BY <1>1, <1>3, <1>4

\* Snapshot and tail give back exactly the payloads in the sink.
LEMMA RecoveredIsFile ==
  ASSUME RestartInv, NEW s \in taken \cup {<<>>}
  PROVE  /\ Recovered(s) \in Seq(Payloads) /\ Len(Recovered(s)) = Len(file)
         /\ \A i \in 1 .. Len(file) : Recovered(s)[i] = file[i].payload
         /\ Replays(s) => \A i \in 1 .. Len(file) : Recovered(s)[i] \notin Fatal
<1> USE DEF RestartInv
<1>1. /\ file \in Seq(Record) /\ Len(file) \in Nat /\ synced <= Len(file) /\ synced \in Nat
  BY Numbers DEF ChannelInv, TypeOK
<1>2. /\ s \in Seq(Payloads) /\ Len(s) \in Nat /\ Len(s) <= Len(file)
      /\ \A i \in 1 .. Len(s) : file[i].payload = s[i] /\ s[i] \notin Fatal
  <2>1. CASE s \in taken
    BY <1>1, <2>1 DEF TakenInv, EngineTypeOK
  <2>2. CASE s = <<>>
    BY <1>1, <2>2
  <2> QED
    BY <2>1, <2>2
<1>3. PICK k \in 0 .. Len(file) : k = Len(s)
  BY <1>1, <1>2
<1>4. PICK tail \in Seq(Record) :
        /\ tail = JournalTail(s) /\ Len(tail) = Len(file) - k
        /\ \A i \in 1 .. Len(file) - k : tail[i] = file[k + i]
  <2>1. /\ SubSeq(file, k + 1, Len(file)) \in Seq(Record)
        /\ Len(SubSeq(file, k + 1, Len(file))) = Len(file) - k
        /\ \A i \in 1 .. Len(file) - k : SubSeq(file, k + 1, Len(file))[i] = file[k + i]
    BY <1>1, <1>3
  <2> QED
    BY Zenon, <1>3, <2>1 DEF JournalTail
<1>5. PICK rest \in Seq(Payloads) :
        /\ rest = [i \in 1 .. Len(tail) |-> Payload(tail[i])] /\ Len(rest) = Len(file) - k
        /\ \A i \in 1 .. Len(file) - k : rest[i] = tail[i].payload
  <2>1. Len(tail) \in Nat /\ \A i \in 1 .. Len(tail) : tail[i] \in Record
    OBVIOUS
  <2>2. \A i \in 1 .. Len(tail) : /\ Payload(tail[i]) \in Payloads
                                  /\ Payload(tail[i]) = tail[i].payload
    BY <2>1 DEF Payload, Record
  <2>3. /\ [i \in 1 .. Len(tail) |-> Payload(tail[i])] \in Seq(Payloads)
        /\ Len([i \in 1 .. Len(tail) |-> Payload(tail[i])]) = Len(tail)
    BY <2>1, <2>2
  <2> QED
    BY SMTT(30), <1>4, <2>2, <2>3
<1>6. Recovered(s) = s \o rest
  BY <1>4, <1>5 DEF Recovered
<1>7. /\ Recovered(s) \in Seq(Payloads) /\ Len(Recovered(s)) = Len(file)
      /\ \A i \in 1 .. k : Recovered(s)[i] = s[i]
      /\ \A i \in 1 .. Len(file) - k : Recovered(s)[k + i] = rest[i]
  <2>1. /\ s \o rest \in Seq(Payloads) /\ Len(s \o rest) = Len(s) + Len(rest)
        /\ \A i \in 1 .. Len(s) + Len(rest) :
             (s \o rest)[i] = IF i <= Len(s) THEN s[i] ELSE rest[i - Len(s)]
    BY <1>2
  <2>2. Len(s) = k /\ Len(rest) = Len(file) - k /\ k \in Nat /\ k <= Len(file)
    BY <1>1, <1>3, <1>5
  <2>3. ASSUME NEW i \in 1 .. Len(file) - k PROVE (s \o rest)[k + i] = rest[i]
    BY SMTT(30), <1>1, <2>1, <2>2
  <2>4. ASSUME NEW i \in 1 .. k PROVE (s \o rest)[i] = s[i]
    BY <1>1, <2>1, <2>2
  <2> QED
    BY SMTT(30), <1>1, <1>6, <2>1, <2>2, <2>3, <2>4
<1>8. ASSUME NEW i \in 1 .. Len(file)
      PROVE  /\ Recovered(s)[i] = file[i].payload
             /\ Replays(s) => Recovered(s)[i] \notin Fatal
  <2>1. CASE i <= k
    BY <1>1, <1>2, <1>3, <1>7, <2>1
  <2>2. CASE i > k
    <3>1. PICK j \in 1 .. Len(file) - k : i = k + j
      <4>1. i - k \in 1 .. Len(file) - k /\ i = k + (i - k)
        BY <1>1, <2>2
      <4> QED
        BY <4>1
    <3>2. Recovered(s)[i] = tail[j].payload /\ tail[j] = file[i]
      BY <1>4, <1>5, <1>7, <3>1
    <3>3. Replays(s) => tail[j].payload \notin Fatal
      BY <1>4 DEF Replays
    <3> QED
      BY <3>2, <3>3
  <2> QED
    BY SMTT(30), <1>1, <1>3, <2>1, <2>2
<1> QED
  BY Zenon, <1>7, <1>8

\* The restored gateway is where the reopened journal is.
LEMMA RestoreKeeps ==
  ASSUME RestartInv, Restore
  PROVE  RestartInv'
<1> USE DEF RestartInv
<1>1. PICK s \in taken \cup {<<>>} :
        /\ Replays(s) /\ Restart /\ applied' = Recovered(s)
        /\ halted' = FALSE /\ events' = <<>> /\ delivered' = <<>> /\ UNCHANGED taken
  BY DEF Restore
<1>2. ChannelInv'
  BY <1>1, RestartKeeps
<1>3. /\ applied' \in Seq(Payloads) /\ Len(applied') = Len(file)
      /\ \A i \in 1 .. Len(file) : applied'[i] = file[i].payload /\ applied'[i] \notin Fatal
  BY <1>1, RecoveredIsFile
<1>4. log' = SubSeq(log, 1, Len(file)) /\ UNCHANGED <<file, synced>>
  BY <1>1 DEF Restart
<1>5. EngineTypeOK'
  <2>1. <<>> \in Seq(Record) /\ Len(<<>>) = 0
    OBVIOUS
  <2>2. events' \in Seq(Record) /\ delivered' \in Seq(Record) /\ Len(events') <= EVENTS
    BY <1>1, <2>1
  <2>3. halted' \in BOOLEAN /\ taken' \subseteq Seq(Payloads)
    BY Zenon, <1>1 DEF EngineTypeOK
  <2> QED
    BY <1>3, <2>2, <2>3 DEF EngineTypeOK
<1>6. HistoryInv'
  <2>1. /\ log' \in Seq(Payloads) /\ Len(log') = Len(file)
        /\ \A i \in 1 .. Len(file) : log'[i] = file[i].payload
    <3>1. /\ log' \in Seq(Payloads) /\ Len(file') <= Len(log') /\ Carries(file', 0, log')
          /\ Len(file) \in Nat /\ log \in Seq(Payloads) /\ Len(file) <= Len(log)
      BY <1>2, Numbers DEF ChannelInv, TypeOK, QueueInv
    <3>2. Len(log') = Len(file)
      BY SMTT(30), <1>4, <3>1
    <3> QED
      BY SMTT(30), <1>4, <3>1, <3>2 DEF Carries
  <2>2. applied' = log'
    BY SMTT(30), <1>3, <2>1
  <2> QED
    BY <2>2 DEF HistoryInv
<1>7. ErrorStopsAdmission'
  BY <1>3 DEF ErrorStopsAdmission
<1>8. TakenInv'
  BY <1>1, <1>4, TakenFrame, Numbers DEF ChannelInv
<1> QED
  BY <1>2, <1>5, <1>6, <1>7, <1>8

\* A refused restore leaves everything as the crash left it.
LEMMA RefuseRestoreKeeps ==
  ASSUME RestartInv, RefuseRestore
  PROVE  RestartInv'
<1> USE DEF RestartInv
<1>1. /\ life = "down" /\ life' = "refused"
      /\ UNCHANGED <<writerVars, ring, visible, workerVars, statusVars, sinkVars, policy, base,
                     lives, readerVars>>
      /\ UNCHANGED engineVars
  BY DEF RefuseRestore, RefuseRestart
<1>2. ChannelInv'
  BY <1>1, RefusalKeeps
<1>3. EngineTypeOK' /\ HistoryInv' /\ ErrorStopsAdmission'
  BY <1>1 DEF EngineTypeOK, HistoryInv, ErrorStopsAdmission
<1>4. TakenInv'
  BY <1>1, TakenFrame, Numbers DEF ChannelInv
<1> QED
  BY <1>2, <1>3, <1>4

-----------------------------------------------------------------------------

\* Every step of the engine thread.
LEMMA EngineThreadKeeps == RestartInv /\ EngineThread => RestartInv'
<1> SUFFICES ASSUME RestartInv, EngineThread PROVE RestartInv'
  OBVIOUS
<1>1. CASE StopAdmission \/ PersistenceFailed \/ SequenceFailed
  <2>1. /\ Close \/ UNCHANGED journalVars
        /\ halted' \in {halted, TRUE} /\ UNCHANGED <<applied, events, delivered, taken>>
    BY Zenon, <1>1 DEF StopAdmission, PersistenceFailed, SequenceFailed, StopJournal
  <2> QED
    BY Zenon, <2>1, StopKeeps
<1>2. ASSUME NEW p \in Payloads, Apply(p) \/ ApplyError(p) PROVE RestartInv'
  BY <1>2, ApplyKeeps, ApplyErrorKeeps
<1>3. CASE LoadStatus
  BY <1>3, LoadKeeps DEF LoadStatus, StatusReader
<1>4. CASE Snapshot
  BY <1>4, SnapshotKeeps
<1> QED
  BY <1>1, <1>2, <1>3, <1>4 DEF EngineThread

\* Every step of engine, worker, consumer and environment.
LEMMA RestartStep == RestartInv /\ [EngineNext]_vars => RestartInv'
<1>1. ASSUME RestartInv, UNCHANGED vars PROVE RestartInv'
  <2>1. UNCHANGED journalVars /\ halted' = halted /\ UNCHANGED <<applied, events, delivered, taken>>
    BY <1>1 DEF vars
  <2> QED
    BY <1>1, <2>1, StopKeeps
<1> QED
  BY SMTT(30), <1>1, EngineThreadKeeps, PersistenceKeeps, ConsumeKeeps, CrashKeepsSnapshots, RestoreKeeps,
     RefuseRestoreKeeps DEF EngineNext

-----------------------------------------------------------------------------
(* Batches on their way to the consumer                                    *)

\* Sequences of records with the same elements are equal.
LEMMA SameRecords ==
  ASSUME NEW x \in Seq(Record), NEW y \in Seq(Record), Len(x) = Len(y),
         \A i \in 1 .. Len(x) : x[i] = y[i]
  PROVE  x = y
  OBVIOUS

\* A batch popped by the consumer stays in the sequence.
LEMMA EventPopped ==
  ASSUME NEW r \in Seq(Record), NEW e \in Seq(Record), e # <<>>
  PROVE  Append(r, Head(e)) \o Tail(e) = r \o e
<1> DEFINE x == Append(r, Head(e)) \o Tail(e)
           y == r \o e
<1>1. x \in Seq(Record) /\ y \in Seq(Record) /\ Len(x) = Len(y)
  OBVIOUS
<1>2. \A k \in 1 .. Len(x) : x[k] = y[k]
  OBVIOUS
<1> HIDE DEF x, y
<1>3. x = y
  BY <1>1, <1>2, SameRecords
<1> QED
  BY <1>3 DEF x, y

\* A function on 1 .. n is a sequence.
LEMMA RecordSequence ==
  ASSUME NEW n \in Nat, NEW f \in [1 .. n -> Record]
  PROVE  f \in Seq(Record) /\ Len(f) = n
  OBVIOUS

\* A life that began at b has n commands in history h.
Covers(b, h, n) == b >= First /\ b - First + n <= Len(h)

\* A history with one more command.
OneMore(new, h) == Len(new) = Len(h) + 1 /\ \A k \in 1 .. Len(h) : new[k] = h[k]

\* The batch of the i-th of them.
BatchFor(b, h, i) == [seq |-> b + i - 1, payload |-> h[b - First + i]]

\* What the batches of a history are.
LEMMA BatchesShape ==
  ASSUME NEW b \in Nat, NEW h \in Seq(Payloads), NEW n \in Nat, Covers(b, h, n)
  PROVE  /\ Batches(b, h, n) \in Seq(Record) /\ Len(Batches(b, h, n)) = n
         /\ \A i \in 1 .. n : Batches(b, h, n)[i] = BatchFor(b, h, i)
<1> DEFINE f == [i \in 1 .. n |-> [seq |-> b + i - 1, payload |-> h[b - First + i]]]
<1>1. ASSUME NEW i \in 1 .. n
      PROVE  [seq |-> b + i - 1, payload |-> h[b - First + i]] \in Record
  <2>1. b + i - 1 \in Nat /\ b - First + i \in 1 .. Len(h)
    BY DEF Covers
  <2> QED
    BY <2>1 DEF Record
<1>2. f \in Seq(Record) /\ Len(f) = n
  <2>1. f \in [1 .. n -> Record]
    BY Zenon, <1>1
  <2> HIDE DEF f
  <2> QED
    BY <2>1, RecordSequence
<1>3. \A i \in 1 .. n : f[i] = BatchFor(b, h, i)
  BY DEF BatchFor
<1>4. Batches(b, h, n) = f
  BY DEF Batches
<1> HIDE DEF f
<1> QED
  BY <1>2, <1>3, <1>4

\* A longer history has the same first batches.
LEMMA BatchesSame ==
  ASSUME NEW b \in Nat, NEW h \in Seq(Payloads), NEW new \in Seq(Payloads),
         OneMore(new, h),
         NEW n \in Nat, Covers(b, h, n)
  PROVE  /\ \A i \in 1 .. n : BatchFor(b, new, i) = BatchFor(b, h, i)
         /\ Batches(b, new, n) = Batches(b, h, n)
<1> DEFINE x == Batches(b, new, n)
           y == Batches(b, h, n)
<1>1. Covers(b, new, n)
  BY DEF Covers, OneMore
<1>2. x \in Seq(Record) /\ Len(x) = n /\ \A i \in 1 .. n : x[i] = BatchFor(b, new, i)
  BY <1>1, BatchesShape
<1>3. y \in Seq(Record) /\ Len(y) = n /\ \A i \in 1 .. n : y[i] = BatchFor(b, h, i)
  BY BatchesShape
<1>4. \A i \in 1 .. n : b - First + i \in 1 .. Len(h)
  BY DEF Covers
<1> HIDE DEF x, y
<1>5. \A i \in 1 .. n : BatchFor(b, new, i) = BatchFor(b, h, i)
  BY Zenon, <1>4 DEF BatchFor, OneMore
<1>6. x = y
  BY <1>2, <1>3, <1>5, SameRecords
<1> QED
  BY <1>5, <1>6 DEF x, y

\* A record behind two sequences.
LEMMA RecordBehind ==
  ASSUME NEW d \in Seq(Record), NEW e \in Seq(Record), NEW r \in Record
  PROVE  /\ d \o Append(e, r) \in Seq(Record)
         /\ Len(d \o Append(e, r)) = Len(d \o e) + 1 /\ (d \o Append(e, r))[Len(d \o e) + 1] = r
         /\ \A i \in 1 .. Len(d \o e) : (d \o Append(e, r))[i] = (d \o e)[i]
  OBVIOUS

\* The last position and the ones before it.
LEMMA LastPosition ==
  ASSUME NEW n \in Nat, NEW m \in Nat, m = n + 1
  PROVE  /\ m \in 1 .. m
         /\ \A i \in 1 .. n : i \in 1 .. m
         /\ \A i \in 1 .. m : i = m \/ i \in 1 .. n
  OBVIOUS

\* The batch of the next command comes behind the batches before it.
LEMMA BatchesGrow ==
  ASSUME NEW b \in Nat, NEW h \in Seq(Payloads), NEW new \in Seq(Payloads),
         OneMore(new, h),
         NEW n \in Nat, NEW m \in Nat, m = n + 1, Covers(b, h, n), Covers(b, new, m),
         NEW x \in Seq(Record), Len(x) = m, x[m] = BatchFor(b, new, m),
         \A i \in 1 .. n : x[i] = Batches(b, h, n)[i]
  PROVE  x = Batches(b, new, m)
<1> DEFINE y == Batches(b, new, m)
           z == Batches(b, h, n)
<1>1. \A i \in 1 .. n : z[i] = BatchFor(b, h, i)
  BY SMTT(30), BatchesShape
<1>2. y \in Seq(Record) /\ Len(y) = m /\ \A i \in 1 .. m : y[i] = BatchFor(b, new, i)
  BY SMTT(30), BatchesShape
<1>3. /\ m \in 1 .. m /\ \A i \in 1 .. n : i \in 1 .. m
      /\ \A i \in 1 .. m : i = m \/ i \in 1 .. n
  BY SMTT(30), LastPosition
<1>4. \A i \in 1 .. n : BatchFor(b, new, i) = BatchFor(b, h, i)
  BY BatchesSame
<1>5. \A i \in 1 .. m : x[i] = y[i]
  BY <1>1, <1>2, <1>3, <1>4, Zenon
<1> HIDE DEF y, z
<1>6. x = y
  BY SMTT(30), <1>2, <1>5, SameRecords
<1> QED
  BY <1>6 DEF y

\* What is known of this life's part of the history.
LEMMA OwnHistory ==
  ASSUME RestartInv, life = "up"
  PROVE  /\ base \in Nat /\ First \in Nat /\ First <= base /\ Len(applied) \in Nat
         /\ base - First <= Len(applied)
         /\ applied \in Seq(Payloads) /\ events \in Seq(Record) /\ delivered \in Seq(Record)
<1>1. base \in Seqs /\ base <= First + Len(file) /\ Len(file) <= Len(log) /\ Len(file) \in Nat
  BY Numbers DEF RestartInv, ChannelInv, TypeOK, QueueInv
<1>2. applied = log /\ applied \in Seq(Payloads) /\ events \in Seq(Record) /\ delivered \in Seq(Record)
  BY DEF RestartInv, HistoryInv, EngineTypeOK
<1>3. Len(applied) \in Nat
  BY <1>2
<1> QED
  BY <1>1, <1>2, <1>3

\* Every command of a life without an application error has a batch.
LEMMA PublishedAll ==
  ASSUME NEW b \in Nat, NEW h \in Seq(Payloads), First <= b, b - First <= Len(h),
         \A i \in 1 .. Len(h) : h[i] \notin Fatal
  PROVE  Published(b, h) = Len(h) - (b - First)
<1>1. Len(h) \in Nat /\ (Len(h) - (b - First) > 0 => Len(h) \in 1 .. Len(h))
  OBVIOUS
<1>2. Len(h) - (b - First) > 0 => h[Len(h)] \notin Fatal
  BY <1>1
<1> QED
  BY <1>2, Zenon DEF Published

\* Only the command whose application failed has none.
LEMMA PublishedButLast ==
  ASSUME NEW b \in Nat, NEW h \in Seq(Payloads), First <= b, b - First < Len(h),
         h[Len(h)] \in Fatal
  PROVE  Published(b, h) = Len(h) - (b - First) - 1
<1>1. Len(h) - (b - First) > 0
  OBVIOUS
<1> QED
  BY <1>1, Zenon DEF Published

\* While commands are admitted, none has failed.
LEMMA NoneFailed ==
  ASSUME RestartInv, ~halted
  PROVE  \A i \in 1 .. Len(applied) : applied[i] \notin Fatal
  BY DEF RestartInv, ErrorStopsAdmission

\* apply_journaled publishes the batch of its command.
LEMMA ApplyPublishes ==
  ASSUME RestartInv, BatchPerCommand, NEW p \in Payloads, Apply(p)
  PROVE  BatchPerCommand'
<1>1. /\ life = "up" /\ ~halted /\ p \notin Fatal /\ Enqueue(p)
      /\ applied' = Append(applied, p) /\ delivered' = delivered
      /\ events' = Append(events, [seq |-> First + Len(applied), payload |-> p])
  BY DEF Apply, Running, Called, ExpectedSequence
<1>2. base' = base
  BY <1>1 DEF Enqueue
<1>3. /\ base \in Nat /\ First \in Nat /\ First <= base /\ Len(applied) \in Nat
      /\ base - First <= Len(applied)
      /\ applied \in Seq(Payloads) /\ events \in Seq(Record) /\ delivered \in Seq(Record)
  BY <1>1, OwnHistory
<1>4. PICK new \in Seq(Payloads) : new = applied'
  <2>1. Append(applied, p) \in Seq(Payloads)
    BY SMTT(30), <1>3
  <2> QED
    BY <1>1, <2>1, Zenon
<1>5. /\ Len(new) = Len(applied) + 1 /\ new[Len(applied) + 1] = p
      /\ \A k \in 1 .. Len(applied) : new[k] = applied[k]
  BY <1>1, <1>3, <1>4
<1>6. PICK n \in Nat, m \in Nat : n = Len(applied) - (base - First) /\ m = n + 1
  <2>1. Len(applied) - (base - First) \in Nat /\ Len(applied) - (base - First) + 1 \in Nat
    BY <1>3
  <2> QED
    BY <2>1, Zenon
<1>7. \A i \in 1 .. Len(applied) : applied[i] \notin Fatal
  BY <1>1, NoneFailed
<1>8. Published(base, applied) = n
  BY <1>3, <1>6, <1>7, PublishedAll
<1>9. Published(base, new) = m
  <2>1. base - First <= Len(new) /\ m = Len(new) - (base - First)
    BY SMTT(30), <1>3, <1>5, <1>6
  <2>2. \A i \in 1 .. Len(new) : new[i] \notin Fatal
    <3>1. \A i \in 1 .. Len(new) : i = Len(applied) + 1 \/ i \in 1 .. Len(applied)
      BY <1>3, <1>5
    <3> QED
      BY <1>1, <1>5, <1>7, <3>1, Zenon
  <2> QED
    BY <1>3, <2>1, <2>2, PublishedAll
<1>10. Covers(base, applied, n) /\ Covers(base, new, m)
  BY SMTT(30), <1>3, <1>5, <1>6 DEF Covers
<1>11. PICK r \in Record : r = [seq |-> First + Len(applied), payload |-> p]
  <2>1. [seq |-> First + Len(applied), payload |-> p] \in Record
    BY <1>3 DEF Record
  <2> QED
    BY <2>1, Zenon
<1>12. BatchFor(base, new, m) = r
  <2>1. base + m - 1 = First + Len(applied) /\ base - First + m = Len(applied) + 1
    BY <1>3, <1>6
  <2> QED
    BY <1>5, <1>11, <2>1, Zenon DEF BatchFor
<1>13. delivered \o events = Batches(base, applied, n)
  BY <1>1, <1>8 DEF BatchPerCommand
<1>14. Len(delivered \o events) = n
  <2>1. Len(Batches(base, applied, n)) = n
    BY <1>3, <1>10, BatchesShape
  <2> QED
    BY <1>13, <2>1, Zenon
<1>15. PICK x \in Seq(Record) :
         /\ x = delivered \o Append(events, r) /\ Len(x) = n + 1 /\ x[n + 1] = r
         /\ \A i \in 1 .. n : x[i] = Batches(base, applied, n)[i]
  <2>1. /\ delivered \o Append(events, r) \in Seq(Record)
        /\ Len(delivered \o Append(events, r)) = Len(delivered \o events) + 1
        /\ (delivered \o Append(events, r))[Len(delivered \o events) + 1] = r
        /\ \A i \in 1 .. Len(delivered \o events) :
             (delivered \o Append(events, r))[i] = (delivered \o events)[i]
    BY SMTT(30), <1>3, RecordBehind
  <2> QED
    BY <1>13, <1>14, <2>1, Zenon
<1>16. Len(x) = m /\ x[m] = BatchFor(base, new, m)
  BY <1>6, <1>12, <1>15, Zenon
<1>17. x = Batches(base, new, m)
  <2>1. OneMore(new, applied)
    BY <1>5, Zenon DEF OneMore
  <2>2. m = n + 1 /\ \A i \in 1 .. n : x[i] = Batches(base, applied, n)[i]
    BY <1>6, <1>15, Zenon
  <2> QED
    BY <1>3, <1>10, <1>16, <2>1, <2>2, BatchesGrow
<1>18. delivered' \o events' = x
  BY <1>1, <1>11, <1>15, Zenon
<1> QED
  BY <1>2, <1>4, <1>9, <1>17, <1>18, Zenon DEF BatchPerCommand

\* A command whose application failed publishes nothing.
LEMMA ErrorPublishesNothing ==
  ASSUME RestartInv, BatchPerCommand, NEW p \in Payloads, ApplyError(p)
  PROVE  BatchPerCommand'
<1>1. /\ life = "up" /\ ~halted /\ p \in Fatal /\ UNCHANGED <<delivered, events, base>>
      /\ applied' = Append(applied, p)
  BY DEF ApplyError, Running, Called
<1>2. /\ base \in Nat /\ First \in Nat /\ First <= base /\ Len(applied) \in Nat
      /\ base - First <= Len(applied)
      /\ applied \in Seq(Payloads) /\ events \in Seq(Record) /\ delivered \in Seq(Record)
  BY <1>1, OwnHistory
<1>3. PICK new \in Seq(Payloads) : new = applied'
  <2>1. Append(applied, p) \in Seq(Payloads)
    BY <1>2
  <2> QED
    BY <1>1, <2>1, Zenon
<1>4. /\ Len(new) = Len(applied) + 1 /\ new[Len(applied) + 1] = p
      /\ \A k \in 1 .. Len(applied) : new[k] = applied[k]
  BY <1>1, <1>2, <1>3
<1>5. PICK n \in Nat : n = Len(applied) - (base - First)
  BY <1>2
<1>6. Published(base, applied) = n
  <2>1. \A i \in 1 .. Len(applied) : applied[i] \notin Fatal
    BY <1>1, NoneFailed
  <2> QED
    BY <1>2, <1>5, <2>1, PublishedAll
<1>7. Published(base, new) = n
  <2>1. /\ base - First < Len(new) /\ n = Len(new) - (base - First) - 1
        /\ new[Len(new)] \in Fatal
    BY SMTT(30), <1>1, <1>2, <1>4, <1>5
  <2> QED
    BY SMTT(30), <1>2, <2>1, PublishedButLast
<1>8. Covers(base, applied, n)
  BY SMTT(30), <1>2, <1>5 DEF Covers
<1>9. Batches(base, new, n) = Batches(base, applied, n)
  <2>1. OneMore(new, applied)
    BY <1>4, Zenon DEF OneMore
  <2> QED
    BY <1>2, <1>8, <2>1, BatchesSame
<1> QED
  BY <1>1, <1>3, <1>6, <1>7, <1>9, Zenon DEF BatchPerCommand

\* A restored engine starts with no batch of its own.
LEMMA RestorePublishesNothing ==
  ASSUME RestartInv, Restore
  PROVE  BatchPerCommand'
<1>1. PICK s \in taken \cup {<<>>} :
        /\ Replays(s) /\ Restart /\ applied' = Recovered(s)
        /\ events' = <<>> /\ delivered' = <<>>
  BY DEF Restore
<1>2. PICK new \in Seq(Payloads) :
        /\ new = applied' /\ Len(new) = Len(file) /\ \A i \in 1 .. Len(new) : new[i] \notin Fatal
  BY SMTT(30), <1>1, RecoveredIsFile
<1>3. base' = First + Len(file)
  BY <1>1 DEF Restart
<1>4. First \in Nat /\ Len(file) \in Nat /\ base' \in Nat /\ First <= base'
  <2>1. First \in Nat /\ Len(file) \in Nat
    BY Numbers DEF RestartInv, ChannelInv
  <2> QED
    BY <1>3, <2>1
<1>5. base' - First <= Len(new) /\ Len(new) - (base' - First) = 0
  BY <1>2, <1>3, <1>4
<1>6. Published(base', new) = 0
  BY <1>2, <1>4, <1>5, PublishedAll
<1>7. Batches(base', new, 0) = <<>>
  BY DEF Batches
<1>8. delivered' \o events' = <<>>
  BY <1>1
<1> QED
  BY <1>2, <1>6, <1>7, <1>8, Zenon DEF BatchPerCommand

\* Nothing else but the consumer touches batches, history or life.
LEMMA BatchFrame ==
  ASSUME BatchPerCommand, UNCHANGED <<applied, events, delivered, base>>,
         life' = life \/ life' # "up"
  PROVE  BatchPerCommand'
  BY Zenon DEF BatchPerCommand

\* The journal's own steps neither begin a life nor end one.
LEMMA SameLife ==
  ASSUME Worker \/ Close \/ StatusReader \/ UNCHANGED journalVars
  PROVE  UNCHANGED <<base, life>>
<1>1. CASE Worker
  BY Zenon, <1>1 DEF Worker, WorkerStep, WorkerFault, DrainBatch, Shutdown, ReadRecord, ReadEmpty,
     WriteRecord, Flush, PublishWritten, PublishDurable, Complete, WriteError, FlushError,
     DropWorker
<1>2. CASE Close \/ UNCHANGED journalVars
  BY <1>2 DEF Close, journalVars
<1>3. CASE StatusReader
  BY <1>3, Zenon DEF StatusReader, SnapComplete, SnapDurable, SnapWritten, SnapFlags
<1> QED
  BY SMTT(30), <1>1, <1>2, <1>3

\* The consumer moves a batch from the queue to what it has.
LEMMA ConsumeKeepsBatches ==
  ASSUME RestartInv, BatchPerCommand, ConsumeEvents
  PROVE  BatchPerCommand'
<1>1. /\ life = "up" /\ events # <<>> /\ UNCHANGED <<applied, base, life>>
      /\ delivered' = Append(delivered, Head(events)) /\ events' = Tail(events)
  BY DEF ConsumeEvents, journalVars
<1>2. events \in Seq(Record) /\ delivered \in Seq(Record)
  BY DEF RestartInv, EngineTypeOK
<1>3. delivered' \o events' = delivered \o events
  BY SMTT(30), <1>1, <1>2, EventPopped
<1> QED
  BY <1>1, <1>3, Zenon DEF BatchPerCommand

\* Every step keeps one batch per command.
LEMMA BatchStep == RestartInv /\ BatchPerCommand /\ [EngineNext]_vars => BatchPerCommand'
<1> SUFFICES ASSUME RestartInv, BatchPerCommand, [EngineNext]_vars PROVE BatchPerCommand'
  OBVIOUS
<1>1. CASE StopAdmission \/ PersistenceFailed \/ SequenceFailed \/ LoadStatus \/ Snapshot
  <2>1. UNCHANGED <<applied, events, delivered>> /\ (Close \/ StatusReader \/ UNCHANGED journalVars)
    BY Zenon, <1>1 DEF StopAdmission, PersistenceFailed, SequenceFailed, StopJournal, LoadStatus,
       Snapshot, StatusReader
  <2> QED
    BY <2>1, SameLife, BatchFrame
<1>2. ASSUME NEW p \in Payloads, Apply(p) \/ ApplyError(p) PROVE BatchPerCommand'
  BY <1>2, ApplyPublishes, ErrorPublishesNothing
<1>3. CASE PersistenceWorker
  BY <1>3, SameLife, BatchFrame DEF PersistenceWorker
<1>4. CASE Stop \/ RefuseRestore
  <2>1. life' # "up" /\ UNCHANGED engineVars
    BY Zenon, <1>4 DEF Stop, Crash, RefuseRestore, RefuseRestart
  <2> QED
    BY SMTT(30), <2>1 DEF BatchPerCommand
<1>5. CASE UNCHANGED vars
  <2>1. UNCHANGED journalVars /\ UNCHANGED <<applied, events, delivered>>
    BY <1>5 DEF vars
  <2> QED
    BY <2>1, SameLife, BatchFrame
<1> QED
  BY <1>1, <1>2, <1>3, <1>4, <1>5, ConsumeKeepsBatches, RestorePublishesNothing
  DEF EngineNext, EngineThread

\* A new engine has published nothing.
LEMMA BatchInit == EngineInit => BatchPerCommand
<1> SUFFICES ASSUME EngineInit PROVE BatchPerCommand
  OBVIOUS
<1>1. applied = <<>> /\ events = <<>> /\ delivered = <<>> /\ base = First
  BY DEF EngineInit, Init
<1>2. Published(First, <<>>) = 0
  <2>1. <<>> \in Seq(Payloads) /\ Len(<<>>) = 0 /\ First \in Nat /\ First - First = 0
    OBVIOUS
  <2> QED
    BY <2>1 DEF Published
<1>3. Batches(First, <<>>, 0) = <<>> /\ <<>> \o <<>> = <<>>
  BY DEF Batches
<1> QED
  BY <1>1, <1>2, <1>3, Zenon DEF BatchPerCommand

\* What the inductive invariant says of the snapshots.
LEMMA SnapshotsAreDurable == RestartInv => SnapshotIsDurable
<1> SUFFICES ASSUME RestartInv, NEW s \in taken
             PROVE  /\ Len(s) <= synced
                    /\ \A i \in 1 .. Len(s) : file[i].payload = s[i]
                    /\ life = "up" => s = SubSeq(applied, 1, Len(s))
  BY DEF SnapshotIsDurable
<1> USE DEF RestartInv
<1>1. Len(s) <= synced /\ \A i \in 1 .. Len(s) : file[i].payload = s[i]
  BY DEF TakenInv
<1>2. /\ s \in Seq(Payloads) /\ Len(s) \in Nat /\ log \in Seq(Payloads) /\ Len(log) \in Nat
      /\ Len(file) <= Len(log) /\ Len(file) \in Nat /\ Len(s) <= Len(file)
      /\ Carries(file, 0, log)
  <2>1. s \in Seq(Payloads) /\ Len(s) \in Nat
    BY SMTT(30) DEF EngineTypeOK
  <2>2. log \in Seq(Payloads) /\ Len(file) <= Len(log) /\ Carries(file, 0, log)
    BY DEF ChannelInv, TypeOK, QueueInv
  <2>3. Len(log) \in Nat /\ Len(file) \in Nat /\ synced \in Nat /\ synced <= Len(file)
    BY Numbers DEF ChannelInv
  <2>4. Len(s) <= Len(file)
    BY SMTT(30), <1>1, <2>1, <2>3
  <2> QED
    BY <2>1, <2>2, <2>3, <2>4
<1>3. ASSUME NEW i \in 1 .. Len(s) PROVE s[i] = log[i]
  <2>1. i \in 1 .. Len(file) /\ 0 + i = i
    BY <1>2
  <2>2. file[i].payload = log[0 + i]
    BY SMTT(30), <1>2, <2>1 DEF Carries
  <2> QED
    BY <1>1, <2>1, <2>2
<1>4. s = SubSeq(log, 1, Len(s))
  <2>1. /\ SubSeq(log, 1, Len(s)) \in Seq(Payloads) /\ Len(SubSeq(log, 1, Len(s))) = Len(s)
        /\ \A i \in 1 .. Len(s) : SubSeq(log, 1, Len(s))[i] = log[i]
    BY <1>2
  <2> QED
    BY SMTT(30), <1>2, <1>3, <2>1
<1> QED
  BY <1>1, <1>4 DEF HistoryInv

\* What it says of the gateway.
LEMMA HistoryIsJournaled == RestartInv => JournaledIffApplied /\ ErrorStopsAdmission
  BY DEF RestartInv, HistoryInv, JournaledIffApplied, ExpectedSequence, ChannelInv, QueueInv

\* The inductive invariant of engine, journal and snapshots.
THEOREM EngineAlwaysConsistent == EngineSpec => []RestartInv
  BY RestartInit, RestartStep, PTL DEF EngineSpec

\* apply_journaled and restore: the gateway has applied exactly what the journal
\* accepted, so SequenceInvariant is never returned, and a command whose
\* application failed is the last one of its life.
THEOREM GatewayMatchesJournal == EngineSpec => [](JournaledIffApplied /\ ErrorStopsAdmission)
  BY EngineAlwaysConsistent, HistoryIsJournaled, PTL

\* apply_journaled, its retries and its errors, the consumer and restore: journal,
\* gateway and event queue agree whenever the engine is up.  The consumer is given
\* exactly one batch for each command of this life that was applied, in order.
THEOREM EngineAlwaysAgrees == EngineSpec => []EngineInv
<1>1. RestartInv /\ BatchPerCommand => EngineInv
  BY HistoryIsJournaled DEF EngineInv, RestartInv
<1> QED
  BY <1>1, EngineAlwaysConsistent, BatchInit, BatchStep, PTL DEF EngineSpec

\* Engine::snapshot: what it has returned is flushed and a prefix of every later
\* gateway, over any crashes, failures and restores.
THEOREM SnapshotsAlwaysDurable == EngineSpec => []SnapshotIsDurable
  BY EngineAlwaysConsistent, SnapshotsAreDurable, PTL

\* The journal keeps its promises under the engine's calls.
THEOREM EngineKeepsJournalSafe ==
  EngineSpec => [](JournalInv /\ CompleteMeansPersisted /\ StatusLoadsAgree)
<1>1. RestartInv => JournalInv /\ CompleteMeansPersisted /\ StatusLoadsAgree
  BY ChannelSafety DEF RestartInv
<1> QED
  BY <1>1, EngineAlwaysConsistent, PTL
=============================================================================
