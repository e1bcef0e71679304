------------------------------ MODULE Recovery ------------------------------
(***************************************************************************)
(* Recovery from a snapshot and the journal tail after it, hft-recovery,   *)
(* under the fault harness of hft-soak/src/recovery_faults.rs.             *)
(*                                                                         *)
(* A gateway (the variables of Gateway) serves generated commands; each is *)
(* encoded, journalled and processed.  When the tail is full, or at a      *)
(* crash, a second gateway (the r_ variables) is rebuilt from the image on *)
(* disk, record by record.  A full, intact image becomes the gateway and   *)
(* the next snapshot; a crash leaves the image whole, shorter or damaged.  *)
(***************************************************************************)
EXTENDS SnapshotCodec, CommandGen

CONSTANT TAIL_RECORD_LIMIT

VARIABLES
    snapshot, tail,   \* the image: cells of the snapshot and of the journal tail
    live,             \* LiveOrders of the harness, a sequence of slots
    exports,          \* history: state and outcome after each command of the tail
    phase, fault,     \* progress of recovery, and what happened to the image
    error,            \* what recovery returned
    disk, expected,   \* records still to be replayed, and the next sequence
    r_risk, r_book, r_expected_sequence, r_maximum, r_outcome

gateway == <<risk, book, expected_sequence, maximum_received_order_id, outcome>>
served == <<gateway, gen, snapshot, tail, live, exports>>
recovered == <<r_risk, r_book, r_expected_sequence, r_maximum, r_outcome>>
recoveryVars == <<served, phase, fault, error, disk, expected, recovered>>

R == INSTANCE Gateway WITH
        risk <- r_risk, book <- r_book, expected_sequence <- r_expected_sequence,
        maximum_received_order_id <- r_maximum, outcome <- r_outcome

GatewayExport == ExportState(risk, book, expected_sequence, maximum_received_order_id)
RecoveredExport == ExportState(r_risk, r_book, r_expected_sequence, r_maximum)
-----------------------------------------------------------------------------
(* JournalRecord of hft-journal: a header, the checksum (external, and as  *)
(* the digest without collisions) and a payload padded to its full size.   *)

RECORD_MAGIC == 6
MAX_PAYLOAD == NEW_ORDER_LEN
PAYLOAD_OFFSET == 6
RECORD_SIZE == PAYLOAD_OFFSET + MAX_PAYLOAD

WithoutChecksum(record) == [record EXCEPT ![PAYLOAD_OFFSET] = NoDigest]

JournalRecord(sequence, payload) ==
    LET padding == [i \in 1..(MAX_PAYLOAD - Len(payload)) |-> 0]
        record == <<RECORD_MAGIC, 1, 0, sequence, Len(payload), NoDigest>>
                    \o payload \o padding
    IN  [record EXCEPT ![PAYLOAD_OFFSET] = record]

RecordSequence(record) == record[4]
RecordPayload(record) == SubSeq(record, PAYLOAD_OFFSET + 1, PAYLOAD_OFFSET + record[5])

RecordError(record) ==
    IF record[1] # RECORD_MAGIC THEN "BadMagic"
    ELSE IF record[2] # 1 THEN "UnsupportedVersion"
    ELSE IF record[3] # 0 THEN "UnsupportedFlags"
    ELSE IF record[5] > MAX_PAYLOAD THEN "PayloadLength"
    ELSE IF record[PAYLOAD_OFFSET] # WithoutChecksum(record) THEN "ChecksumMismatch"
    ELSE "Ok"

Records(cells) == Len(cells) \div RECORD_SIZE
RecordAt(cells, n) == SubSeq(cells, (n - 1) * RECORD_SIZE + 1, n * RECORD_SIZE)
-----------------------------------------------------------------------------
(* LiveOrders of the harness: slots that hold an order or nothing.         *)

NoOrders == [i \in 1..ORDERS |-> <<>>]
Occupied(slots) == {i \in 1..ORDERS : slots[i] # <<>>}
Slot(slots, id) == CHOOSE i \in Occupied(slots) : slots[i][1].order_id = id

LiveOrder(order, quantity) ==
    [order_id |-> order.order_id, account_id |-> order.account_id,
     price |-> order.price, quantity |-> quantity]

\* insert: the first free slot.
InsertLive(slots, order) ==
    LET free == CHOOSE i \in 1..ORDERS :
                    slots[i] = <<>> /\ \A j \in 1..(i - 1) : slots[j] # <<>>
    IN  [slots EXCEPT ![free] = <<order>>]

\* refresh: rebuilt from the exported book.
Refresh(s) ==
    LET orders == Concat(Map(s.bids \o s.asks, LAMBDA level : level.orders))
    IN  FoldLeft(LAMBDA slots, order : InsertLive(slots, LiveOrder(order, order.quantity)),
                 NoOrders, orders)

\* The first occupied slot, cyclically, from one the sequence selects.
Target(sequence) ==
    LET distance(i) == (i - 1 - sequence) % ORDERS
        nearest == CHOOSE i \in Occupied(live) :
                      \A j \in Occupied(live) : distance(i) <= distance(j)
    IN  live[nearest][1]

\* A replacement always changes the quantity.
OtherQuantity(quantity, current) ==
    IF quantity # current THEN quantity ELSE IF current > 1 THEN current - 1 ELSE 2

\* direct: cancels and replacements are pointed at a live order.
Direct(command) ==
    IF command.kind = "New" \/ Occupied(live) = {} THEN command
    ELSE LET target == Target(command.sequence)
             directed == [command EXCEPT !.order_id = target.order_id,
                                         !.account_id = target.account_id]
         IN  IF command.kind = "Cancel" THEN directed
             ELSE [directed EXCEPT !.price = target.price,
                                   !.quantity = OtherQuantity(@, target.quantity)]

\* Mutant: a maker that is filled completely stays in its slot.
FillLiveKeeps(slots, fill) ==
    [slots EXCEPT ![Slot(slots, fill.maker_order_id)][1].quantity = @ - fill.quantity]

FillLive(slots, fill) ==
    LET i == Slot(slots, fill.maker_order_id)
        left == slots[i][1].quantity - fill.quantity
    IN  [slots EXCEPT ![i] = IF left = 0 THEN <<>> ELSE <<[@[1] EXCEPT !.quantity = left]>>]

\* observe, after an accepted command: its reports and what became of it.
Observe(command) ==
    CASE command.kind = "New" ->
            LET filled == FoldLeft(FillLive, live, Fills(book, command))
                resting == Unfilled(book, command) - Discarded(book, command)
            IN  IF resting = 0 THEN filled ELSE InsertLive(filled, LiveOrder(command, resting))
      [] command.kind = "Cancel" ->
            [live EXCEPT ![Slot(live, command.order_id)] = <<>>]
      [] command.kind = "Replace" ->
            [live EXCEPT ![Slot(live, command.order_id)] =
                <<LiveOrder(command, command.quantity)>>]
-----------------------------------------------------------------------------
RecoveryInit ==
    /\ Init /\ GenInit
    /\ snapshot = EncodeSnapshot(GatewayExport, 0) /\ tail = <<>>
    /\ live = NoOrders
    /\ exports = <<[state |-> GatewayExport, outcome |-> "Ok"]>>
    /\ phase = "Serving" /\ fault = "None" /\ error = "Ok"
    /\ disk = <<>> /\ expected = 1
    /\ r_risk = EmptyRisk /\ r_book = EmptyBook
    /\ r_expected_sequence = 1 /\ r_maximum = NoOrder /\ r_outcome = "Ok"

\* process_frame: the parsed command, whatever the business decides.
ProcessFrame(frame) ==
    /\ ParseMessage(frame) = "Ok" /\ MessageSequence(frame) = expected_sequence
    /\ LET command == ToCommand(frame) IN
       \/ command.kind = "New" /\ ProcessNewOrder(command)
       \/ command.kind = "Cancel" /\ ProcessCancel(command)
       \/ command.kind = "Replace" /\ ProcessReplace(command)

\* One step of run_once: draw, direct, encode, journal, process, observe.
Step(generated) ==
    /\ phase = "Serving"
    /\ Records(tail) < TAIL_RECORD_LIMIT
    /\ NextCommand(generated)
    /\ \E command \in {Direct(generated)} : \E frame \in {EncodeCommand(command)} :
        /\ ProcessFrame(frame)
        /\ tail' = tail \o JournalRecord(expected_sequence, frame)
        /\ live' = IF outcome' = "Ok" THEN Observe(command) ELSE live
    /\ exports' = Append(exports, [state |-> GatewayExport', outcome |-> outcome'])
    /\ UNCHANGED <<snapshot, phase, fault, error, disk, expected, recovered>>
-----------------------------------------------------------------------------
(* What a crash may leave behind.                                          *)

LastRecord == RecordAt(tail, Records(tail))
WithoutLast(n) == SubSeq(tail, 1, Len(tail) - n)

Image(kind, s, t) == [fault |-> kind, snapshot |-> s, tail |-> t]

Images ==
    {Image("None", snapshot, tail)}
    \union {Image("LostRecords", snapshot, WithoutLast(n * RECORD_SIZE)) : n \in 1..Records(tail)}
    \union {Image("TornRecord", snapshot, WithoutLast(n)) : n \in {1, RECORD_SIZE - 1}}
    \union {Image("LostFirst", snapshot, SubSeq(tail, RECORD_SIZE + 1, Len(tail)))
              : n \in 2..Records(tail)}
    \union {Image("Repeated", snapshot, tail \o LastRecord)}
    \union {Image("Misfiled", snapshot,
                  tail \o JournalRecord(expected_sequence, RecordPayload(LastRecord)))}
    \union {Image("BadRecord", snapshot, WithoutLast(RECORD_SIZE) \o r)
              : r \in {[LastRecord EXCEPT ![i] = @ + 1] : i \in {1, 4, 5, RECORD_SIZE}}}
    \union {Image("BadSnapshot", [snapshot EXCEPT ![Len(snapshot)] = @ + 1], tail)}
    \* The snapshot was replaced, the tail not yet cleared.
    \union {Image("Overlap", EncodeSnapshot(GatewayExport, expected_sequence - 1), tail)}
-----------------------------------------------------------------------------
(* recover_snapshot_and_tail                                               *)

Refuse(reason) ==
    /\ phase' = "Refused" /\ error' = reason
    /\ UNCHANGED <<disk, expected, recovered>>

\* decode_snapshot, then the length of the tail, before any record is read.
StartRecovery(image, decoded) ==
    /\ fault' = image.fault
    /\ \/ decoded # "Ok" /\ Refuse("Snapshot")
       \/ /\ decoded = "Ok" /\ Len(image.tail) % RECORD_SIZE # 0
          /\ Refuse("TruncatedJournal")
       \/ /\ decoded = "Ok" /\ Len(image.tail) % RECORD_SIZE = 0
          /\ \E s \in {DecodedState(Payload(image.snapshot))} :
                /\ r_risk' = RiskFromState(s) /\ r_book' = BookFromState(s)
                /\ r_expected_sequence' = s.expected_sequence
                /\ r_maximum' = s.maximum_received_order_id /\ r_outcome' = "Ok"
          /\ expected' = image.snapshot[8] + 1
          /\ disk' = image.tail
          /\ phase' = "Replaying" /\ UNCHANGED error
    /\ UNCHANGED served

\* The process stops, and what it left on disk is read.
Crash ==
    /\ phase = "Serving" /\ tail # <<>>
    /\ \E images \in {Images} : \E s \in {image.snapshot : image \in images} :
         \E decoded \in {DecodeError(s)} :
            \E image \in {i \in images : i.snapshot = s} : StartRecovery(image, decoded)

\* The checks on one record, in order; the last is the gateway's own.
ReplayError(record) ==
    IF RecordError(record) # "Ok" THEN "JournalDecode"
    ELSE IF RecordSequence(record) # expected THEN "JournalSequence"
    ELSE IF ParseMessage(RecordPayload(record)) # "Ok" THEN "PayloadParse"
    ELSE IF MessageSequence(RecordPayload(record)) # RecordSequence(record)
         THEN "PayloadSequence"
    ELSE IF expected # r_expected_sequence \/ expected = MaxSequence THEN "Gateway"
    ELSE "Ok"

\* Mutant: a business rejection ends recovery.
ContinuesOnSuccess(result) == result = "Ok"

\* Rejections by risk and book are part of the history that is recovered.
Continues(result) == result \in {"Ok", "Risk", "Book"}

ReplayRecord ==
    /\ phase = "Replaying" /\ disk # <<>>
    /\ \E record \in {RecordAt(disk, 1)} :
        \/ ReplayError(record) # "Ok" /\ Refuse(ReplayError(record))
        \/ /\ ReplayError(record) = "Ok"
           /\ \E command \in {ToCommand(RecordPayload(record))} :
                \/ command.kind = "New" /\ R!ProcessNewOrder(command)
                \/ command.kind = "Cancel" /\ R!ProcessCancel(command)
                \/ command.kind = "Replace" /\ R!ProcessReplace(command)
           /\ phase' = IF Continues(r_outcome') THEN phase ELSE "Refused"
           /\ error' = IF Continues(r_outcome') THEN error ELSE "Gateway"
           /\ disk' = SubSeq(disk, RECORD_SIZE + 1, Len(disk))
           /\ expected' = expected + 1
    /\ UNCHANGED <<served, fault>>

FinishRecovery ==
    /\ phase = "Replaying" /\ disk = <<>>
    /\ phase' = "Recovered"
    /\ UNCHANGED <<served, fault, error, disk, expected, recovered>>

\* checkpoint, when the tail is full or after the last command: the recovered
\* gateway is the gateway from here on.
Checkpoint ==
    /\ phase = "Recovered" /\ fault = "None"
    /\ Records(tail) = TAIL_RECORD_LIMIT \/ next_sequence > MaxGenerated
    /\ EncodeReject(RecoveredExport, expected - 1) = "Ok"
    /\ risk' = r_risk /\ book' = r_book
    /\ expected_sequence' = r_expected_sequence
    /\ maximum_received_order_id' = r_maximum /\ outcome' = "Ok"
    /\ live' = Refresh(RecoveredExport)
    /\ snapshot' = EncodeSnapshot(RecoveredExport, expected - 1)
    /\ tail' = <<>>
    /\ exports' = <<[state |-> RecoveredExport, outcome |-> "Ok"]>>
    /\ phase' = "Serving" /\ expected' = 1
    /\ r_risk' = EmptyRisk /\ r_book' = EmptyBook
    /\ r_expected_sequence' = 1 /\ r_maximum' = NoOrder /\ r_outcome' = "Ok"
    /\ UNCHANGED <<gen, fault, error, disk>>

RecoveryNext ==
    \/ \E generated \in Generated : Step(generated)
    \/ Crash \/ ReplayRecord \/ FinishRecovery \/ Checkpoint

RecoverySpec == RecoveryInit /\ [][RecoveryNext]_recoveryVars
-----------------------------------------------------------------------------
\* The export that belongs to the recovered gateway: the one after as many
\* commands as were replayed.
Replayed == r_expected_sequence - exports[1].state.expected_sequence
Uninterrupted == exports[Replayed + 1]

\* What recovery must say of each kind of damage.
Verdict(kind) ==
    CASE kind = "TornRecord" -> "TruncatedJournal"
      [] kind = "LostFirst" -> "JournalSequence"
      [] kind = "Repeated" -> "JournalSequence"
      [] kind = "Overlap" -> "JournalSequence"
      [] kind = "Misfiled" -> "PayloadSequence"
      [] kind = "BadRecord" -> "JournalDecode"
      [] kind = "BadSnapshot" -> "Snapshot"
      [] OTHER -> "Ok"

\* Recovery takes the gateway through the states and outcomes of the
\* uninterrupted one, rejected commands included, and ends with the last that
\* survived; an intact or shorter image is never refused, a damaged one always,
\* with the error that names the damage and never with a gateway.
RecoveryIsExact ==
    /\ phase \in {"Replaying", "Recovered"} /\ fault # "Overlap" =>
          /\ RecoveredExport = Uninterrupted.state
          /\ Replayed > 0 => r_outcome = Uninterrupted.outcome
    /\ phase = "Recovered" => Verdict(fault) = "Ok"
    /\ phase = "Recovered" /\ fault = "None" => RecoveredExport = GatewayExport
    /\ phase = "Refused" => error = Verdict(fault)

\* The orders the harness follows by reports alone are those in the book, with
\* their owners, prices and remaining quantities.
LiveOrdersTrackBook ==
    phase = "Serving" =>
        /\ {live[i][1] : i \in Occupied(live)} =
              {[order_id |-> order.order_id, account_id |-> order.account_id,
                price |-> order.price, quantity |-> order.quantity]
                  : order \in {ExportOrder(place[1], book[place[1]][place[2]],
                                           OrderAt(book, place)) : place \in BookPlaces(book)}}
        /\ Cardinality(Occupied(live)) = Cardinality(BookPlaces(book))

\* Every snapshot a checkpoint writes, and every frame that opens a tail, is the
\* one encoding of what it stands for.
CodecsAreCanonical ==
    /\ phase = "Serving" /\ tail = <<>> => SnapshotIsCanonical(snapshot, GatewayExport)
    /\ phase = "Serving" /\ Records(tail) = 1 =>
          FrameIsCanonical(RecordPayload(RecordAt(tail, 1)))
=============================================================================
