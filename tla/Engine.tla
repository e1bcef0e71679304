-------------------------------- MODULE Engine --------------------------------
(***************************************************************************)
(* hft-engine and hft-events over hft-journal and hft-recovery: one thread *)
(* journals a command, applies it and publishes one event batch; the       *)
(* persistence worker of Journal and an event consumer run beside it; the  *)
(* process may crash, and is restored from a snapshot and the journal tail.*)
(*                                                                         *)
(* The gateway is the history of the payloads it applied: Gateway models   *)
(* what it does with them.  A business rejection is an applied command (it *)
(* consumes its sequence and publishes its batch); payloads in Fatal make  *)
(* apply return an error.                                                  *)
(***************************************************************************)
EXTENDS Journal

CONSTANTS
  EVENTS,    \* capacity of the event queue
  Fatal      \* payloads whose application is an internal error

ASSUME EngineAssumption == EVENTS \in Nat \ {0} /\ Fatal \subseteq Payloads

VARIABLES
  applied,   \* payloads the gateway has consumed, since sequence First
  halted,    \* Engine.failed
  events,    \* the event queue: one batch for each command
  delivered, \* batches the event consumer has popped in this life
  taken      \* states that snapshot() has returned, as histories

engineVars == <<applied, halted, events, delivered, taken>>
vars == <<journalVars, engineVars>>

\* Gateway::expected_sequence
ExpectedSequence == First + Len(applied)

EngineInit ==
  /\ Init
  /\ applied = <<>>
  /\ halted = FALSE
  /\ events = <<>>
  /\ delivered = <<>>
  /\ taken = {}

-----------------------------------------------------------------------------
(* The engine thread.  It is not in another call while snapshot loads.     *)

Called == life = "up" /\ opc = "idle"

\* JournalWriter::close if the writer is still there.
StopJournal == IF writer = "open" THEN Close ELSE UNCHANGED journalVars

\* Engine::stop_admission, and Drop
StopAdmission ==
  /\ Called /\ writer = "open"
  /\ Close
  /\ UNCHANGED engineVars

\* apply_journaled finds the journal poisoned.  halted hides later loads of it.
PersistenceFailed ==
  /\ Called /\ ~halted
  /\ TRUE \in Flag("poisoned")
  /\ halted' = TRUE
  /\ StopJournal
  /\ UNCHANGED <<applied, events, delivered, taken>>

\* The checks of apply_journaled before admit: every other outcome of them is
\* PersistenceFailed, SequenceFailed, or a refusal that changes nothing
\* (Failed, Stopped, UnknownInstrument).
Running ==
  /\ Called /\ ~halted
  /\ FALSE \in Flag("poisoned")
  /\ writer = "open"

\* SequenceInvariant, and check_sequence with no next sequence to move to.
SequenceFailed ==
  /\ Running
  /\ next_sequence # ExpectedSequence \/ ExpectedSequence = MaxSeq
  /\ halted' = TRUE
  /\ Close
  /\ UNCHANGED <<applied, events, delivered, taken>>

\* Mutant: the last slot of the event queue is never used.
AdmitOffByOne == ExpectedSequence < MaxSeq /\ Len(events) + 1 < EVENTS

\* BoundedEventEngine::admit: preflight of the sequence and of the event queue.
Admit == ExpectedSequence < MaxSeq /\ Len(events) < EVENTS

\* Mutant: the command is applied before it is journaled, and stays applied when
\* the journal is saturated.
ApplyBeforeEnqueue(p) ==
  /\ Running
  /\ next_sequence = ExpectedSequence
  /\ Admit /\ p \notin Fatal
  /\ IF Len(ring) < Capacity THEN Enqueue(p) ELSE UNCHANGED journalVars
  /\ applied' = Append(applied, p)
  /\ events' = Append(events, [seq |-> ExpectedSequence, payload |-> p])
  /\ UNCHANGED <<halted, delivered, taken>>

\* apply_journaled to the end: enqueue, apply, publish.  The refusals of admit
\* (Sequence, Backpressured, also on a stale view of the queue) and of enqueue
\* (Saturated) change nothing, and the caller may retry the command unchanged.
Apply(p) ==
  /\ Running
  /\ next_sequence = ExpectedSequence
  /\ Admit /\ p \notin Fatal
  /\ Enqueue(p)
  /\ applied' = Append(applied, p)
  /\ events' = Append(events, [seq |-> ExpectedSequence, payload |-> p])
  /\ UNCHANGED <<halted, delivered, taken>>

\* apply returns an error after the command was journaled: fail.  The record is
\* in the ring, the gateway has consumed the sequence, no batch is published.
ApplyError(p) ==
  /\ Running
  /\ next_sequence = ExpectedSequence /\ next_sequence < MaxSeq
  /\ Admit /\ p \in Fatal
  /\ Len(ring) < Capacity
  /\ ring' = Append(ring, [seq |-> next_sequence, payload |-> p])
  /\ next_sequence' = next_sequence + 1
  /\ log' = Append(log, p)
  /\ writer' = "closed"
  /\ status' = [status EXCEPT !.closed = TRUE]
  /\ applied' = Append(applied, p)
  /\ halted' = TRUE
  /\ UNCHANGED <<visible, workerVars, wstores, dstores, sinkVars, lifeVars, readerVars,
                 events, delivered, taken>>

\* Mutant: snapshot does not wait for the worker's completion.
CheckpointAllowedEarly == ~halted /\ ~snap'.poisoned /\ writer = "closed"

\* The conditions of Engine::snapshot on the health it has just loaded.
CheckpointAllowed ==
  /\ ~halted /\ ~snap'.poisoned
  /\ writer = "closed"
  /\ snap'.complete
  /\ snap'.written = ExpectedSequence /\ snap'.durable = ExpectedSequence

\* health and snapshot: the loads are those of JournalStatusReader::snapshot.
LoadStatus ==
  /\ SnapComplete \/ SnapDurable \/ SnapWritten
  /\ UNCHANGED engineVars

Snapshot ==
  /\ SnapFlags
  /\ taken' = IF CheckpointAllowed THEN taken \cup {applied} ELSE taken
  /\ UNCHANGED <<applied, halted, events, delivered>>

-----------------------------------------------------------------------------
(* The other threads                                                       *)

PersistenceWorker == Worker /\ UNCHANGED engineVars

ConsumeEvents ==
  /\ life = "up"
  /\ events # <<>>
  /\ delivered' = Append(delivered, Head(events))
  /\ events' = Tail(events)
  /\ UNCHANGED <<journalVars, applied, halted, taken>>

Stop == Crash /\ UNCHANGED engineVars

-----------------------------------------------------------------------------
(* EngineBuilder::new or restore, then build with fresh storage            *)

Payload(r) == r.payload
JournalTail(s) == SubSeq(file, Len(s) + 1, Len(file))

\* recover_snapshot_and_tail stops at an internal error of the gateway.
Replays(s) == \A i \in 1 .. Len(JournalTail(s)) : JournalTail(s)[i].payload \notin Fatal

\* The gateway that recover_snapshot_and_tail returns for snapshot s.
Recovered(s) == s \o [i \in 1 .. Len(JournalTail(s)) |-> Payload(JournalTail(s)[i])]

Restore ==
  \E s \in taken \cup {<<>>} :
    /\ Replays(s)
    /\ Restart
    /\ applied' = Recovered(s)
    /\ halted' = FALSE
    /\ events' = <<>>
    /\ delivered' = <<>>
    /\ UNCHANGED taken

RefuseRestore ==
  /\ \/ RefuseRestart
     \/ /\ life = "down"
        /\ \E s \in taken \cup {<<>>} : ~Replays(s)
        /\ life' = "refused"
        /\ UNCHANGED <<writerVars, ring, visible, workerVars, statusVars, sinkVars, policy,
                       base, lives, readerVars>>
  /\ UNCHANGED engineVars

-----------------------------------------------------------------------------
EngineThread == \/ StopAdmission \/ PersistenceFailed \/ SequenceFailed
                \/ (\E p \in Payloads : Apply(p) \/ ApplyError(p))
                \/ LoadStatus \/ Snapshot
EngineNext == EngineThread \/ PersistenceWorker \/ ConsumeEvents \/ Stop \/ Restore \/ RefuseRestore

EngineSpec == EngineInit /\ [][EngineNext]_vars

\* The application calls stop_admission or retries its command, the consumer
\* drains its queue, and the persistence thread's loop calls drain_batch and,
\* once the producer is closed, shutdown; a record in the ring does not stay
\* hidden from it for ever.
EngineFairSpec ==
  /\ EngineSpec
  /\ SF_vars(\E p \in Payloads : Apply(p) \/ ApplyError(p)) /\ WF_vars(ConsumeEvents)
  /\ WF_vars(WorkerStep /\ UNCHANGED engineVars)
  /\ SF_vars(DrainBatch /\ UNCHANGED engineVars)
  /\ SF_vars(Shutdown /\ UNCHANGED engineVars)
  /\ SF_vars(ReadRecord /\ UNCHANGED engineVars)
  /\ WF_vars(LoadStatus) /\ WF_vars(Snapshot)

-----------------------------------------------------------------------------
(* Properties                                                              *)

\* Type correctness of the engine's own state; the event queue never holds more
\* than EVENTS batches, so publication after admission cannot fail.
EngineTypeOK ==
  /\ applied \in Seq(Payloads)
  /\ halted \in BOOLEAN
  /\ events \in Seq(Record) /\ Len(events) <= EVENTS
  /\ delivered \in Seq(Record)
  /\ taken \subseteq Seq(Payloads)

\* The gateway has applied exactly what the journal accepted, in the same order
\* and under the same sequence numbers, in the first life and in every restored
\* one: SequenceInvariant is never returned.
JournaledIffApplied ==
  life = "up" => applied = log /\ next_sequence = ExpectedSequence

\* The first n batches of a life that began at sequence b with history h.
Batches(b, h, n) ==
  [i \in 1 .. n |-> [seq |-> b + i - 1, payload |-> h[b - First + i]]]

\* The commands of such a life that were applied without error.
Published(b, h) ==
  LET own == Len(h) - (b - First)
  IN IF own > 0 /\ h[Len(h)] \in Fatal THEN own - 1 ELSE own

\* The consumer is given one batch for each command applied in this life, in
\* sequence order, whatever backpressure and retries came between; only a
\* command whose application failed, the last of its life, has none.
BatchPerCommand ==
  life = "up" => delivered \o events = Batches(base, applied, Published(base, applied))

\* "An error after journal enqueue stops admission": a command whose application
\* failed is the last one journaled in its life.
ErrorStopsAdmission ==
  \A i \in 1 .. Len(applied) :
    applied[i] \in Fatal => i = Len(applied) /\ halted /\ writer = "closed"

\* Journal, gateway and event queue agree whenever the engine is up.
EngineInv == EngineTypeOK /\ JournaledIffApplied /\ BatchPerCommand /\ ErrorStopsAdmission

\* Every snapshot that was ever returned is a prefix of the journal file that
\* the last flush covers, and of the gateway of every later life: restoring from
\* it and the tail loses nothing that it had and repeats nothing.
SnapshotIsDurable ==
  \A s \in taken :
    /\ Len(s) <= synced
    /\ \A i \in 1 .. Len(s) : file[i].payload = s[i]
    /\ life = "up" => s = SubSeq(applied, 1, Len(s))

\* Backpressure of the journal ring and of the event queue ends: retried
\* commands are applied one after the other until the sequence numbers are used
\* up, unless admission has ended.
RetryIsAdmitted ==
  []<>(\/ ExpectedSequence = MaxSeq
       \/ halted \/ writer = "closed" \/ status.poisoned \/ life # "up")
=============================================================================
