----------------------------- MODULE Retransmit -----------------------------
(***************************************************************************)
(* RetransmitBuffer, hft-session/src/retransmit.rs: a FIFO window over     *)
(* consecutive sequence numbers that refuses a frame rather than forget    *)
(* one.  Link composes it with a session and a channel.                    *)
(***************************************************************************)
EXTENDS Naturals, Sequences

CONSTANTS Frames,     \* payloads; their length is at most MAX_FRAME
          Oversize,   \* payloads longer than MAX_FRAME
          capacity,
          MaxU64      \* u64::MAX: the sequence without a successor

VARIABLES entries, next_sequence,   \* RetransmitBuffer
          result                    \* what the last call returned

buffer == <<entries, next_sequence>>

RetainedFrame == [sequence : 1..MaxU64, frame : Frames]

Init == entries = <<>> /\ next_sequence = 1 /\ result = "Ok"
-----------------------------------------------------------------------------
RetainError(sequence, frame) ==
    IF frame \in Oversize THEN "Full"
    ELSE IF sequence # next_sequence THEN "NotInOrder"
    ELSE IF Len(entries) = capacity THEN "Full"
    ELSE IF sequence = MaxU64 THEN "SequenceOverflow"
    ELSE "Ok"

Retain(sequence, frame) ==
    /\ RetainError(sequence, frame) = "Ok"
    /\ entries' = Append(entries, [sequence |-> sequence, frame |-> frame])
    /\ next_sequence' = sequence + 1
    /\ result' = "Ok"

RetainRefused(sequence, frame) ==
    /\ RetainError(sequence, frame) # "Ok"
    /\ result' = RetainError(sequence, frame)
    /\ UNCHANGED buffer

\* Mutant: one frame past the confirmation is dropped.
DropThroughOneMore(confirmed) ==
    SelectSeq(entries, LAMBDA e : e.sequence > confirmed + 1)

\* confirm_through: pops the front while its sequence is confirmed.
DropThrough(confirmed) ==
    LET n == CHOOSE n \in 0..Len(entries) :
                /\ \A i \in 1..n : entries[i].sequence <= confirmed
                /\ n < Len(entries) => entries[n + 1].sequence > confirmed
    IN  SubSeq(entries, n + 1, Len(entries))

ConfirmThrough(confirmed) ==
    /\ entries' = DropThrough(confirmed)
    /\ result' = "Ok"
    /\ UNCHANGED next_sequence

\* since: the positions its iterator stops at, in order, and the frames that
\* sending all of them sends.
Since(from) == {i \in 1..Len(entries) : entries[i].sequence >= from}

Resent(from) == {entries[i] : i \in Since(from)}
=============================================================================
