-------------------------------- MODULE Link --------------------------------
(***************************************************************************)
(* A sender with a RetransmitBuffer, a channel, and the session machine at *)
(* the other end, driven the way hft-soak/src/session_faults.rs and the    *)
(* session tests drive them: every frame is retained and sent, the session *)
(* takes exactly the next sequence, recovery resends since(confirmed + 1), *)
(* and after a disconnect or a failure the session logs on again at the    *)
(* sequence it had reached.                                                *)
(*                                                                         *)
(* The channel (external) loses, duplicates and reorders frames, and       *)
(* confirmations arrive late, twice or out of order.                       *)
(***************************************************************************)
EXTENDS Session, Sequences

CONSTANTS Frames, Oversize, capacity

ASSUME LinkAssumption == capacity \in Nat /\ Frames \intersect Oversize = {}

VARIABLES entries, retain_sequence,             \* the sender's buffer
          channel,                              \* frames in flight
          delivered,   \* frames the session's owner got an Ok for, in order
          log,         \* history: frames retained, in order
          confirmed    \* history: highest confirmation applied

\* result is the answer of the last call, to the session or to the buffer.
R == INSTANCE Retransmit WITH next_sequence <- retain_sequence

buffer == <<entries, retain_sequence>>
sender == <<buffer, channel, log, confirmed>>
linkVars == <<vars, sender, delivered>>

LinkInit ==
    /\ Init /\ R!Init
    /\ channel = {} /\ delivered = <<>> /\ log = <<>> /\ confirmed = 0
-----------------------------------------------------------------------------
(* The sender.                                                             *)

\* A retained frame is sent at once; a refused one is neither kept nor sent.
Send(frame) ==
    /\ R!Retain(retain_sequence, frame)
    /\ channel' = channel \union {[sequence |-> retain_sequence, frame |-> frame]}
    /\ log' = Append(log, frame)
    /\ UNCHANGED <<session, armed_at, now, delivered, confirmed>>

SendRefused(sequence, frame) ==
    /\ R!RetainRefused(sequence, frame)
    /\ UNCHANGED <<session, armed_at, now, channel, delivered, log, confirmed>>

\* The peer confirms what it was given; the confirmation may be an old one.
Confirm(c) ==
    /\ c <= Len(delivered)
    /\ R!ConfirmThrough(c)
    /\ confirmed' = IF c > confirmed THEN c ELSE confirmed
    /\ UNCHANGED <<session, armed_at, now, channel, delivered, log>>

\* Mutant: the confirmed sequence is taken for the next expected one.
RecoverOneTooFar(c) ==
    /\ c <= Len(delivered)
    /\ channel' = channel \union R!Resent(c + 2)
    /\ result' = "Ok"
    /\ UNCHANGED <<session, armed_at, now, buffer, delivered, log, confirmed>>

\* Recovery: everything retained above a confirmation the peer gave.
Recover(c) ==
    /\ c <= Len(delivered)
    /\ channel' = channel \union R!Resent(c + 1)
    /\ result' = "Ok"
    /\ UNCHANGED <<session, armed_at, now, buffer, delivered, log, confirmed>>
-----------------------------------------------------------------------------
(* The session and its owner.                                              *)

\* A frame the session takes is given on, unless handle returned an error.  It
\* may stay in the channel: a duplicate of it arrives later.
Deliver(e) ==
    /\ e \in channel
    /\ Command(e.sequence)
    /\ delivered' = IF result' = "Ok" THEN Append(delivered, e.frame) ELSE delivered
    /\ channel' \in {channel, channel \ {e}}
    /\ UNCHANGED <<buffer, log, confirmed>>

\* Refused as Gap, DuplicateSequence or not allowed, or lost on the way.
Lose(e) ==
    /\ e \in channel
    /\ channel' = channel \ {e}
    /\ result' = "Ok"
    /\ UNCHANGED <<session, armed_at, now, buffer, delivered, log, confirmed>>

\* Mutant: the session logs on again at its own sequence, which was reset.
ResumeAtReset == next_sequence

\* resume_at: the sequence after the last command that was accepted.
ResumeAt == Len(delivered) + 1

Activate == Connect \/ LogonSent \/ LogonAccepted(ResumeAt)

\* A failed session is given up for a new machine.
Restart ==
    /\ state = "Failed"
    /\ state' = "Disconnected" /\ next_sequence' = 1
    /\ deadline' = None /\ heartbeat_timeouts' = 0 /\ result' = "Ok"
    /\ UNCHANGED <<armed_at, now>>

Refused ==
    \/ LogonRefused
    \/ \E n \in 0..MaxU64 : CommandRefused(n)
    \/ InvalidTransition

SessionStep ==
    /\ \/ Activate \/ Restart \/ Refused
       \/ HeartbeatReceived \/ LogoutSent \/ Disconnect \/ Fail \/ Advance
    /\ UNCHANGED <<sender, delivered>>

TickStep == Tick /\ UNCHANGED <<sender, delivered>>

LinkNext ==
    \/ \E f \in Frames : Send(f)
    \/ \E n \in 1..MaxU64, f \in Frames \union Oversize : SendRefused(n, f)
    \/ \E c \in 0..MaxU64 : Confirm(c) \/ Recover(c)
    \/ \E e \in channel : Deliver(e) \/ Lose(e)
    \/ SessionStep \/ TickStep

LinkSpec == LinkInit /\ [][LinkNext]_linkVars

\* The owner keeps calling tick, recovery is retried, and of the frames sent
\* again and again the next one gets through some time (a fair-lossy channel).
\* Neither time, nor confirmations, nor the peer's logons are fair.
FairLinkSpec ==
    /\ LinkSpec
    /\ WF_linkVars(TickStep)
    /\ WF_linkVars(Recover(Len(delivered)))
    /\ SF_linkVars(\E e \in channel : Deliver(e))
-----------------------------------------------------------------------------
\* Type correctness; the window never outgrows its capacity.
LinkTypeOK ==
    /\ entries \in Seq(R!RetainedFrame) /\ Len(entries) <= capacity
    /\ retain_sequence \in 1..MaxU64
    /\ result \in SessionError \union {"Ok", "Full", "NotInOrder", "SequenceOverflow"}
    /\ channel \subseteq R!RetainedFrame
    /\ delivered \in Seq(Frames) /\ log \in Seq(Frames)
    /\ confirmed \in 0..MaxU64

\* The window is exactly the unconfirmed suffix of everything accepted: no
\* frame is dropped before it is confirmed, none is kept after, and every
\* entry carries its own position, whatever order confirmations came in.
WindowIsUnconfirmedSuffix ==
    /\ confirmed < retain_sequence /\ retain_sequence = Len(log) + 1
    /\ Len(entries) = Len(log) - confirmed
    /\ \A i \in 1..Len(entries) :
          entries[i] = [sequence |-> confirmed + i, frame |-> log[confirmed + i]]

\* since(n) gives a peer that has everything below n all it still needs, under
\* its own numbers, in order and starting with n, and recovery sends exactly
\* that: no stale confirmation creates a gap.
SinceGivesAllMissing ==
    LET next == Len(delivered) + 1 IN
    /\ next <= Len(log) + 1
    /\ R!Resent(next) = {[sequence |-> n, frame |-> log[n]] : n \in next..Len(log)}
    /\ \A i, j \in R!Since(next) : i < j => entries[i].sequence < entries[j].sequence

\* "Returns the precise refusal without mutating any session field", and so does
\* retain, as long as the clock has room for the next deadline.  Where now plus
\* a timeout overflows, LogonAccepted, Command and tick have written the
\* sequence and the timeout count before arm fails.
RefusalIsClean ==
    [][result' # "Ok" /\ ClockHasRoom => UNCHANGED <<session, buffer>>]_linkVars

\* The retransmission buffer after any mixture of retain, confirm_through and
\* recovery: its types, its window, and what since returns from it.
RetransmitInv == LinkTypeOK /\ WindowIsUnconfirmedSuffix /\ SinceGivesAllMissing

\* The owner of the session gets each frame once and in order, across losses,
\* duplicates, overlapping retransmissions, timeouts, disconnects, failures and
\* new logons, as long as the clock has room for a deadline: there the session
\* expects exactly the frame after the last one it answered with Ok.
DeliveredIsPrefixOfLog ==
    ClockHasRoom =>
        /\ Len(delivered) <= Len(log)
        /\ delivered = SubSeq(log, 1, Len(delivered))
        /\ AllowsCommands => next_sequence = Len(delivered) + 1

\* If the session stays up, every retained frame is delivered some time.
RetainedIsDelivered ==
    []ClockHasRoom /\ <>[]AllowsCommands =>
        \A n \in 1..MaxU64 : (Len(log) >= n) ~> (Len(delivered) >= n)
=============================================================================
