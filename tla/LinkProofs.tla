----------------------------- MODULE LinkProofs -----------------------------
(***************************************************************************)
(* The session machine and its link, for every timeout, clock, window and  *)
(* set of frames.                                                          *)
(***************************************************************************)
EXTENDS Link, SequenceTheorems, TLAPS

\* The deadline of a timed state is the whole interval after the event that
\* armed it, also where a later event failed to arm a new one.
DeadlineFollowsArming ==
    /\ state \in {"Active", "Recovering"} => deadline = armed_at + heartbeat_timeout_ticks
    /\ state = "Logon" => deadline = armed_at + logon_timeout_ticks

\* What the timeouts rely on.
TimingInv == SessionInv /\ DeadlineFollowsArming

\* The steps of the session machine alone.
SessionNext ==
    \/ Connect \/ LogonSent \/ (\E n \in 1..MaxU64 : LogonAccepted(n)) \/ Restart \/ Refused
    \/ HeartbeatReceived \/ LogoutSent \/ Disconnect \/ Fail \/ Advance \/ Tick
    \/ (\E n \in 1..MaxU64 : Command(n))

USE SessionAssumption DEF session, vars, SessionState, Timed

\* A new session has no deadline.
LEMMA TimingInit == Init => TimingInv
  BY SMTT(30) DEF Init, TimingInv, SessionInv, TypeOK, DeadlineExactlyWhenTimed,
         OneTimeoutWhileRecovering, DeadlineFollowsArming, AllowsCommands

\* Every event of handle and every tick keeps the types, the deadline, its origin
\* and the timeout count.
LEMMA TimingStep ==
  ASSUME TimingInv, SessionNext
  PROVE  TimingInv'
<1> USE DEF TimingInv, SessionInv, TypeOK, DeadlineExactlyWhenTimed,
            OneTimeoutWhileRecovering, DeadlineFollowsArming, AllowsCommands,
            ClockHasRoom, Overflows, Enter, Refuse, Reset
<1>1. CASE Connect
  BY <1>1 DEF Connect
<1>2. CASE LogonSent
  BY <1>2 DEF LogonSent, Arm
<1>3. ASSUME NEW n \in 1..MaxU64, LogonAccepted(n) PROVE TimingInv'
  BY <1>3 DEF LogonAccepted, Arm
<1>4. CASE Restart
  BY <1>4 DEF Restart
<1>5. CASE Refused
  BY <1>5 DEF Refused, LogonRefused, CommandRefused, InvalidTransition
<1>6. CASE HeartbeatReceived
  BY <1>6 DEF HeartbeatReceived, Arm
<1>7. CASE LogoutSent
  BY <1>7 DEF LogoutSent
<1>8. CASE Disconnect
  BY <1>8 DEF Disconnect
<1>9. CASE Fail
  BY <1>9 DEF Fail
<1>10. CASE Advance
  BY <1>10 DEF Advance
<1>11. CASE Tick
  <2>1. CASE TickIdle
    BY <2>1 DEF TickIdle
  <2>2. CASE TickLogon
    BY <2>2 DEF TickLogon
  <2>3. CASE TickActive
    BY <2>3 DEF TickActive, Arm
  <2>4. CASE TickRecovering
    BY <2>4 DEF TickRecovering
  <2> QED
    BY <1>11, <2>1, <2>2, <2>3, <2>4 DEF Tick
<1>12. ASSUME NEW n \in 1..MaxU64, Command(n) PROVE TimingInv'
  BY <1>12 DEF Command, Arm
<1> QED
  BY <1>1, <1>2, <1>3, <1>4, <1>5, <1>6, <1>7, <1>8, <1>9, <1>10, <1>11, <1>12
     DEF SessionNext
-----------------------------------------------------------------------------
\* What the window holds and the channel carries are frames of the log under
\* their own numbers; the peer has confirmed no more than it was given, and the
\* session expects the frame after the last one that was given on.
DeliveryInv ==
    /\ LinkTypeOK
    /\ WindowIsUnconfirmedSuffix
    /\ \A e \in channel : e.sequence \in 1..Len(log) /\ e.frame = log[e.sequence]
    /\ confirmed <= Len(delivered) /\ Len(delivered) <= Len(log)
    /\ \A i \in 1..Len(delivered) : delivered[i] = log[i]
    /\ ClockHasRoom /\ AllowsCommands => next_sequence = Len(delivered) + 1

\* The inductive invariant of the link.
LinkInv == TimingInv /\ DeliveryInv

USE LinkAssumption DEF R!RetainedFrame

\* Nothing is retained, in flight or delivered at first.
LEMMA LinkInitInv == LinkInit => LinkInv
<1> SUFFICES ASSUME LinkInit PROVE LinkInv
  OBVIOUS
<1>1. TimingInv
  BY TimingInit DEF LinkInit
<1>2. DeliveryInv
  BY DEF LinkInit, Init, R!Init, DeliveryInv, LinkTypeOK, WindowIsUnconfirmedSuffix,
         AllowsCommands, SessionError
<1> QED
  BY <1>1, <1>2 DEF LinkInv

\* Every step of the link is a step of the session, or leaves its fields alone.
LEMMA LinkTiming ==
  ASSUME LinkInv, LinkNext
  PROVE  TimingInv'
<1> USE DEF LinkInv
<1>1. ResumeAt \in 1..MaxU64
  BY DEF ResumeAt, DeliveryInv, LinkTypeOK, WindowIsUnconfirmedSuffix
<1>2. ASSUME UNCHANGED <<session, armed_at, now>> PROVE TimingInv'
  BY <1>2 DEF TimingInv, SessionInv, TypeOK, DeadlineExactlyWhenTimed,
              OneTimeoutWhileRecovering, DeadlineFollowsArming, AllowsCommands,
              ClockHasRoom, Overflows
<1>3. ASSUME NEW f \in Frames, Send(f) PROVE TimingInv'
  BY <1>2, <1>3 DEF Send
<1>4. ASSUME NEW n \in 1..MaxU64, NEW f \in Frames \union Oversize, SendRefused(n, f)
      PROVE  TimingInv'
  BY <1>2, <1>4 DEF SendRefused
<1>5. ASSUME NEW c \in 0..MaxU64, Confirm(c) \/ Recover(c) PROVE TimingInv'
  BY <1>2, <1>5 DEF Confirm, Recover
<1>6. ASSUME NEW e \in channel, Deliver(e) PROVE TimingInv'
  <2>1. e.sequence \in 1..MaxU64 /\ Command(e.sequence)
    BY <1>6 DEF Deliver, DeliveryInv, LinkTypeOK
  <2> QED
    BY <2>1, TimingStep DEF SessionNext
<1>7. ASSUME NEW e \in channel, Lose(e) PROVE TimingInv'
  BY <1>2, <1>7 DEF Lose
<1>8. CASE SessionStep
  BY <1>1, <1>8, TimingStep DEF SessionStep, SessionNext, Activate
<1>9. CASE TickStep
  BY <1>9, TimingStep DEF TickStep, SessionNext
<1> QED
  BY <1>3, <1>4, <1>5, <1>6, <1>7, <1>8, <1>9 DEF LinkNext
-----------------------------------------------------------------------------
\* The invariant as facts about the sequences, for the steps below.
LEMMA DeliveryFacts ==
  ASSUME LinkInv
  PROVE  /\ entries \in Seq(R!RetainedFrame) /\ Len(entries) \in Nat
         /\ log \in Seq(Frames) /\ Len(log) \in Nat
         /\ delivered \in Seq(Frames) /\ Len(delivered) \in Nat
         /\ confirmed \in Nat /\ confirmed <= Len(delivered) /\ Len(delivered) <= Len(log)
         /\ Len(entries) = Len(log) - confirmed /\ Len(entries) <= capacity
         /\ retain_sequence = Len(log) + 1 /\ retain_sequence <= MaxU64
         /\ capacity \in Nat /\ MaxU64 \in Nat
         /\ \A i \in 1..Len(entries) :
               entries[i] = [sequence |-> confirmed + i, frame |-> log[confirmed + i]]
<1>1. /\ entries \in Seq(R!RetainedFrame) /\ log \in Seq(Frames) /\ delivered \in Seq(Frames)
  BY DEF LinkInv, DeliveryInv, LinkTypeOK
<1>2. Len(entries) \in Nat /\ Len(log) \in Nat /\ Len(delivered) \in Nat
  BY <1>1, LenProperties
<1> QED
  BY SMTT(30), <1>1, <1>2 DEF LinkInv, DeliveryInv, LinkTypeOK, WindowIsUnconfirmedSuffix

\* The same for the lengths alone.
LEMMA Lengths ==
  ASSUME LinkInv
  PROVE  /\ Len(entries) \in Nat /\ Len(log) \in Nat /\ Len(delivered) \in Nat
         /\ confirmed \in Nat /\ confirmed <= Len(delivered) /\ Len(delivered) <= Len(log)
         /\ Len(entries) = Len(log) - confirmed /\ Len(entries) <= capacity
         /\ retain_sequence = Len(log) + 1 /\ retain_sequence <= MaxU64
         /\ capacity \in Nat /\ MaxU64 \in Nat
  BY DeliveryFacts

\* Steps that leave the sequences, the session and the confirmations alone keep
\* the invariant of the link if the channel carries nothing new.
LEMMA ChannelStepKeepsDelivery ==
  ASSUME LinkInv, UNCHANGED <<session, now, entries, retain_sequence, delivered, log, confirmed>>,
         result' \in SessionError \union {"Ok", "Full", "NotInOrder", "SequenceOverflow"},
         channel' \subseteq channel \union {entries[i] : i \in 1..Len(entries)}
  PROVE  DeliveryInv'
<1>1. \A i \in 1..Len(entries) :
         /\ entries[i] \in R!RetainedFrame
         /\ entries[i].sequence \in 1..Len(log)
         /\ entries[i].frame = log[entries[i].sequence]
  <2> SUFFICES ASSUME NEW i \in 1..Len(entries)
               PROVE  /\ entries[i] \in R!RetainedFrame
                      /\ entries[i].sequence \in 1..Len(log)
                      /\ entries[i].frame = log[entries[i].sequence]
    OBVIOUS
  <2>1. entries[i] = [sequence |-> confirmed + i, frame |-> log[confirmed + i]]
    BY SMTT(30), DeliveryFacts
  <2>2. confirmed + i \in 1..Len(log)
    BY SMTT(30), DeliveryFacts
  <2>3. entries[i] \in R!RetainedFrame
    BY Zenon, DeliveryFacts, ElementOfSeq
  <2> QED
    BY <2>1, <2>2, <2>3
<1>2. channel' \subseteq R!RetainedFrame
  BY <1>1 DEF LinkInv, DeliveryInv, LinkTypeOK
<1>3. (\A e \in channel : e.sequence \in 1..Len(log) /\ e.frame = log[e.sequence])'
  <2>1. \A e \in channel : e.sequence \in 1..Len(log) /\ e.frame = log[e.sequence]
    BY DEF LinkInv, DeliveryInv
  <2> QED
    BY <1>1, <2>1
<1>4. LinkTypeOK'
  BY <1>2 DEF LinkInv, DeliveryInv, LinkTypeOK
<1>5. WindowIsUnconfirmedSuffix'
  BY DEF LinkInv, DeliveryInv, WindowIsUnconfirmedSuffix
<1>6. (ClockHasRoom /\ AllowsCommands => next_sequence = Len(delivered) + 1)'
  BY DEF LinkInv, DeliveryInv, ClockHasRoom, Overflows, AllowsCommands
<1> QED
  BY <1>3, <1>4, <1>5, <1>6 DEF LinkInv, DeliveryInv

\* retain appends one frame under the next number, which is sent.
LEMMA SendKeepsDelivery ==
  ASSUME LinkInv, NEW f \in Frames, Send(f)
  PROVE  DeliveryInv'
<1>1. R!Retain(retain_sequence, f)
  BY DEF Send
<1>2. Len(entries) # capacity /\ retain_sequence # MaxU64
  BY <1>1, Zenon DEF R!Retain, R!RetainError
<1>3. /\ entries' = Append(entries, [sequence |-> retain_sequence, frame |-> f])
      /\ retain_sequence' = retain_sequence + 1 /\ result' = "Ok"
  BY <1>1 DEF R!Retain
<1>4. /\ log' = Append(log, f)
      /\ channel' = channel \union {[sequence |-> retain_sequence, frame |-> f]}
      /\ UNCHANGED <<session, now, delivered, confirmed>>
  BY DEF Send
<1>5. /\ log' \in Seq(Frames) /\ Len(log') = Len(log) + 1
      /\ \A i \in 1..Len(log) : log'[i] = log[i]
      /\ log'[Len(log) + 1] = f
  BY <1>4, DeliveryFacts
<1>6. [sequence |-> retain_sequence, frame |-> f] \in R!RetainedFrame
  BY DeliveryFacts
<1>7. /\ entries' \in Seq(R!RetainedFrame) /\ Len(entries') = Len(entries) + 1
      /\ \A i \in 1..Len(entries) : entries'[i] = entries[i]
      /\ entries'[Len(entries) + 1] = [sequence |-> retain_sequence, frame |-> f]
  BY <1>3, <1>6, DeliveryFacts, AppendProperties
<1>8. LinkTypeOK'
  <2>1. Len(entries') <= capacity /\ retain_sequence' \in 1..MaxU64
    <3>1. /\ Len(entries) \in Nat /\ Len(entries) <= capacity /\ capacity \in Nat
          /\ retain_sequence \in 1..MaxU64 /\ MaxU64 \in Nat
      BY DeliveryFacts
    <3> QED
      BY <1>2, <1>3, <1>7, <3>1
  <2> QED
    BY <1>3, <1>4, <1>5, <1>6, <1>7, <2>1 DEF LinkInv, DeliveryInv, LinkTypeOK
<1>9. WindowIsUnconfirmedSuffix'
  <2>1. ASSUME NEW i \in 1..Len(entries')
        PROVE  entries'[i] = [sequence |-> confirmed' + i, frame |-> log'[confirmed' + i]]
    <3>1. CASE i = Len(entries) + 1
      <4>1. confirmed' + i = Len(log) + 1 /\ retain_sequence = Len(log) + 1
        BY SMTT(30), <1>4, <3>1, DeliveryFacts
      <4> QED
        BY <1>5, <1>7, <3>1, <4>1
    <3>2. CASE i \in 1..Len(entries)
      <4>1. confirmed + i \in 1..Len(log) /\ confirmed' = confirmed
        BY SMTT(30), <1>4, <3>2, DeliveryFacts
      <4> QED
        BY Zenon, <1>5, <1>7, <3>2, <4>1, DeliveryFacts
    <3> QED
      BY SMTT(30), <1>7, <3>1, <3>2, DeliveryFacts
  <2>2. /\ confirmed' < retain_sequence' /\ retain_sequence' = Len(log') + 1
        /\ Len(entries') = Len(log') - confirmed'
    BY SMTT(30), <1>3, <1>4, <1>5, <1>7, DeliveryFacts
  <2> QED
    BY <2>1, <2>2 DEF WindowIsUnconfirmedSuffix
<1>10. (\A e \in channel : e.sequence \in 1..Len(log) /\ e.frame = log[e.sequence])'
  <2>1. \A e \in channel : e.sequence \in 1..Len(log) /\ e.frame = log[e.sequence]
    BY DEF LinkInv, DeliveryInv
  <2>2. \A e \in channel : e.sequence \in 1..Len(log') /\ e.frame = log'[e.sequence]
    <3>1. Len(log) \in Nat
      BY DeliveryFacts
    <3>2. \A n \in 1..Len(log) : n \in 1..Len(log') /\ log'[n] = log[n]
      BY <1>5, <3>1
    <3> QED
      BY <2>1, <3>2
  <2>3. LET e == [sequence |-> retain_sequence, frame |-> f]
        IN  e.sequence \in 1..Len(log') /\ e.frame = log'[e.sequence]
    BY <1>5, DeliveryFacts
  <2> QED
    BY <1>4, <2>2, <2>3
<1>11. (\A i \in 1..Len(delivered) : delivered[i] = log[i])'
  BY <1>4, <1>5, DeliveryFacts DEF LinkInv, DeliveryInv
<1>12. /\ (confirmed <= Len(delivered) /\ Len(delivered) <= Len(log))'
       /\ (ClockHasRoom /\ AllowsCommands => next_sequence = Len(delivered) + 1)'
  BY <1>4, <1>5, DeliveryFacts DEF LinkInv, DeliveryInv, ClockHasRoom, Overflows, AllowsCommands
<1> QED
  BY <1>8, <1>9, <1>10, <1>11, <1>12 DEF DeliveryInv

\* The number of frames a confirmation of c takes out of the window.
Newly(c) == IF c > confirmed THEN c - confirmed ELSE 0

\* confirm_through drops exactly the frames up to a confirmation that is newer
\* than the last, and nothing for a stale one.
LEMMA ConfirmedPrefixIsDropped ==
  ASSUME LinkInv, NEW c \in 0..MaxU64, c <= Len(delivered)
  PROVE  /\ Newly(c) \in 0..Len(entries)
         /\ R!DropThrough(c) = SubSeq(entries, Newly(c) + 1, Len(entries))
<1> DEFINE P(n) == /\ \A i \in 1..n : entries[i].sequence <= c
                   /\ n < Len(entries) => entries[n + 1].sequence > c
<1>1. Newly(c) \in 0..Len(entries)
  BY Lengths DEF Newly
<1>2. /\ \A i \in 1..Len(entries) : entries[i].sequence = confirmed + i
      /\ Len(entries) \in Nat /\ confirmed \in Nat /\ c \in Nat
  <2>1. ASSUME NEW i \in 1..Len(entries) PROVE entries[i].sequence = confirmed + i
    <3>1. entries[i] = [sequence |-> confirmed + i, frame |-> log[confirmed + i]]
      BY SMTT(30), DeliveryFacts
    <3> QED
      BY <3>1
  <2> QED
    BY <2>1, Lengths
<1>3. P(Newly(c))
  <2>1. ASSUME NEW i \in 1..Newly(c) PROVE entries[i].sequence <= c
    <3>1. i \in 1..Len(entries)
      BY <1>1, <1>2
    <3> QED
      BY <1>2, <3>1 DEF Newly
  <2>2. ASSUME Newly(c) < Len(entries) PROVE entries[Newly(c) + 1].sequence > c
    <3>1. Newly(c) + 1 \in 1..Len(entries)
      BY <1>1, <1>2, <2>2
    <3>2. entries[Newly(c) + 1].sequence = confirmed + (Newly(c) + 1)
      BY <1>2, <3>1
    <3> QED
      BY <1>2, <3>2 DEF Newly
  <2> QED
    BY <2>1, <2>2
<1>4. ASSUME NEW n \in 0..Len(entries), P(n) PROVE n = Newly(c)
  <2>1. ~(n > Newly(c))
    <3>1. SUFFICES ASSUME n > Newly(c) PROVE FALSE
      OBVIOUS
    <3>2. Newly(c) + 1 \in 1..n /\ Newly(c) + 1 \in 1..Len(entries)
      BY <1>1, <1>2, <3>1
    <3>3. entries[Newly(c) + 1].sequence <= c
      BY <1>4, <3>2
    <3>4. entries[Newly(c) + 1].sequence = confirmed + (Newly(c) + 1)
      BY <1>2, <3>2
    <3> QED
      BY <1>2, <3>3, <3>4 DEF Newly
  <2>2. ~(n < Newly(c))
    <3>1. SUFFICES ASSUME n < Newly(c) PROVE FALSE
      OBVIOUS
    <3>2. n < Len(entries) /\ n + 1 \in 1..Len(entries)
      BY <1>1, <1>2, <3>1
    <3>3. entries[n + 1].sequence > c
      BY <1>4, <3>2
    <3> QED
      BY <1>1, <1>2, <3>1, <3>2, <3>3 DEF Newly
  <2> QED
    BY <1>1, <1>2, <2>1, <2>2
<1>5. (CHOOSE n \in 0..Len(entries) : P(n)) = Newly(c)
  <2> HIDE DEF P
  <2> QED
    BY <1>1, <1>3, <1>4
<1> QED
  BY Zenon, <1>1, <1>5 DEF R!DropThrough

\* A confirmation leaves the unconfirmed suffix of the log in the window.
LEMMA ConfirmKeepsDelivery ==
  ASSUME LinkInv, NEW c \in 0..MaxU64, Confirm(c)
  PROVE  DeliveryInv'
<1>1. /\ c <= Len(delivered) /\ retain_sequence' = retain_sequence /\ result' = "Ok"
      /\ confirmed' = IF c > confirmed THEN c ELSE confirmed
      /\ UNCHANGED <<session, now, channel, delivered, log>>
  BY DEF Confirm, R!ConfirmThrough
<1>2. PICK d \in 0..Len(entries) :
         /\ d = IF c > confirmed THEN c - confirmed ELSE 0
         /\ entries' = SubSeq(entries, d + 1, Len(entries))
  BY Zenon, <1>1, ConfirmedPrefixIsDropped DEF Confirm, R!ConfirmThrough, Newly
<1>3. confirmed' = confirmed + d /\ confirmed' \in 0..MaxU64 /\ confirmed' <= Len(delivered)
  <2>1. d = IF c > confirmed THEN c - confirmed ELSE 0
    BY <1>2
  <2>2. confirmed' = (IF c > confirmed THEN c ELSE confirmed) /\ c <= Len(delivered)
    BY <1>1
  <2> QED
    BY SMTT(30), <2>1, <2>2, Lengths
<1>4. /\ entries' \in Seq(R!RetainedFrame) /\ Len(entries') = Len(entries) - d
      /\ \A i \in 1..Len(entries') : entries'[i] = entries[d + i]
  <2>1. entries \in Seq(R!RetainedFrame) /\ Len(entries) \in Nat /\ d \in 0..Len(entries)
    BY DeliveryFacts
  <2>2. d + 1 \in Int /\ Len(entries) \in Int
    BY <2>1
  <2>3. \A i \in (d + 1)..Len(entries) : entries[i] \in R!RetainedFrame
    <3> SUFFICES ASSUME NEW i \in (d + 1)..Len(entries) PROVE entries[i] \in R!RetainedFrame
      OBVIOUS
    <3>1. i \in 1..Len(entries)
      BY <2>1
    <3> QED
      BY Zenon, <2>1, <3>1, ElementOfSeq
  <2> DEFINE rest == SubSeq(entries, d + 1, Len(entries))
  <2>4. /\ rest \in Seq(R!RetainedFrame)
        /\ Len(rest) = IF d + 1 <= Len(entries) THEN Len(entries) - (d + 1) + 1 ELSE 0
        /\ \A i \in 1..(Len(entries) - (d + 1) + 1) : rest[i] = entries[d + 1 + i - 1]
    BY <2>2, <2>3, SubSeqProperties
  <2>5. entries' = rest
    BY <1>2
  <2> HIDE DEF rest
  <2>6. Len(rest) = Len(entries) - d
    BY <2>1, <2>4
  <2>7. \A i \in 1..Len(rest) : rest[i] = entries[d + i]
    <3> SUFFICES ASSUME NEW i \in 1..Len(rest) PROVE rest[i] = entries[d + i]
      OBVIOUS
    <3>1. i \in 1..(Len(entries) - (d + 1) + 1) /\ d + 1 + i - 1 = d + i
      BY <2>1, <2>6
    <3> QED
      BY <2>4, <3>1
  <2> QED
    BY <2>4, <2>5, <2>6, <2>7
<1>5. LinkTypeOK'
  <2>1. Len(entries') <= capacity
    BY <1>4, Lengths
  <2> QED
    BY <1>1, <1>3, <1>4, <2>1 DEF LinkInv, DeliveryInv, LinkTypeOK
<1>6. WindowIsUnconfirmedSuffix'
  <2>1. ASSUME NEW i \in 1..Len(entries')
        PROVE  entries'[i] = [sequence |-> confirmed' + i, frame |-> log'[confirmed' + i]]
    <3>1. d + i \in 1..Len(entries) /\ confirmed + (d + i) = confirmed' + i
      <4>1. Len(entries') = Len(entries) - d /\ confirmed' = confirmed + d
        BY <1>3, <1>4
      <4>2. i \in 1..(Len(entries) - d)
        BY <4>1
      <4> QED
        BY SMTT(30), <4>1, <4>2, Lengths
    <3>2. entries'[i] = entries[d + i] /\ log' = log
      BY <1>1, <1>4
    <3>3. entries[d + i] = [sequence |-> confirmed + (d + i),
                                   frame |-> log[confirmed + (d + i)]]
      BY Zenon, <3>1, DeliveryFacts
    <3> QED
      BY <3>1, <3>2, <3>3
  <2>2. /\ confirmed' < retain_sequence' /\ retain_sequence' = Len(log') + 1
        /\ Len(entries') = Len(log') - confirmed'
    <3>1. /\ Len(entries') = Len(entries) - d /\ confirmed' = confirmed + d
          /\ confirmed' <= Len(delivered)
          /\ retain_sequence' = retain_sequence /\ Len(log') = Len(log)
      BY <1>1, <1>3, <1>4
    <3> QED
      BY SMTT(30), <3>1, Lengths
  <2> QED
    BY <2>1, <2>2 DEF WindowIsUnconfirmedSuffix
<1>7. (ClockHasRoom /\ AllowsCommands => next_sequence = Len(delivered) + 1)'
  BY <1>1 DEF LinkInv, DeliveryInv, ClockHasRoom, Overflows, AllowsCommands
<1> QED
  BY <1>1, <1>3, <1>5, <1>6, <1>7 DEF LinkInv, DeliveryInv

\* The session takes a frame only if it is the next of the log, and what handle
\* answers with Ok is given on.
LEMMA DeliverKeepsDelivery ==
  ASSUME LinkInv, NEW e \in channel, Deliver(e)
  PROVE  DeliveryInv'
<1>1. /\ e.sequence \in 1..Len(log) /\ e.frame = log[e.sequence] /\ e.frame \in Frames
  BY DEF LinkInv, DeliveryInv, LinkTypeOK
<1>2. /\ AllowsCommands /\ e.sequence = next_sequence /\ next_sequence' = next_sequence + 1
      /\ now' = now /\ state' = "Active"
      /\ \/ result' = "ArithmeticOverflow" /\ ~ClockHasRoom
         \/ result' = "Ok" /\ ClockHasRoom
  BY DEF Deliver, Command, Arm, Enter, Refuse, ClockHasRoom
<1>3. /\ delivered' = IF result' = "Ok" THEN Append(delivered, e.frame) ELSE delivered
      /\ channel' \subseteq channel
      /\ UNCHANGED <<entries, retain_sequence, log, confirmed>>
  BY DEF Deliver, buffer
<1>4. WindowIsUnconfirmedSuffix'
  BY <1>3 DEF LinkInv, DeliveryInv, WindowIsUnconfirmedSuffix
<1>5. LinkTypeOK'
  <2>1. delivered' \in Seq(Frames)
    BY <1>1, <1>3, DeliveryFacts
  <2> QED
    BY <1>2, <1>3, <2>1 DEF LinkInv, DeliveryInv, LinkTypeOK, SessionError
<1>6. (\A f \in channel : f.sequence \in 1..Len(log) /\ f.frame = log[f.sequence])'
  BY <1>3 DEF LinkInv, DeliveryInv
<1>7. CASE ~ClockHasRoom
  <2>1. delivered' = delivered /\ ~ClockHasRoom'
    BY <1>2, <1>3, <1>7 DEF ClockHasRoom, Overflows
  <2> QED
    BY <1>3, <1>4, <1>5, <1>6, <2>1 DEF LinkInv, DeliveryInv
<1>8. CASE ClockHasRoom
  <2>1. next_sequence = Len(delivered) + 1 /\ delivered' = Append(delivered, e.frame)
    BY <1>2, <1>3, <1>8 DEF LinkInv, DeliveryInv
  <2>2. /\ Len(delivered') = Len(delivered) + 1
        /\ \A i \in 1..Len(delivered) : delivered'[i] = delivered[i]
        /\ delivered'[Len(delivered) + 1] = e.frame
    BY <1>1, <2>1, DeliveryFacts
  <2>3. Len(delivered) + 1 \in 1..Len(log) /\ e.frame = log[Len(delivered) + 1]
    BY <1>1, <1>2, <2>1
  <2>4. (\A i \in 1..Len(delivered) : delivered[i] = log[i])'
    <3>1. \A i \in 1..Len(delivered) : delivered[i] = log[i]
      BY DEF LinkInv, DeliveryInv
    <3>2. \A i \in 1..(Len(delivered) + 1) : delivered'[i] = log[i]
      BY SMTT(30), <2>2, <2>3, <3>1, Lengths
    <3> QED
      BY <1>3, <2>2, <3>2
  <2>5. /\ (confirmed <= Len(delivered) /\ Len(delivered) <= Len(log))'
        /\ next_sequence' = Len(delivered') + 1
    BY SMTT(30), <1>2, <1>3, <2>1, <2>2, <2>3, Lengths
  <2> QED
    BY <1>4, <1>5, <1>6, <2>4, <2>5 DEF DeliveryInv
<1> QED
  BY <1>7, <1>8

\* A step of the session that gives nothing on: a session that takes commands
\* afterwards expects the frame after the last one given on.
LEMMA SessionStepKeepsDelivery ==
  ASSUME LinkInv, SessionStep \/ TickStep
  PROVE  DeliveryInv'
<1>1. UNCHANGED <<entries, retain_sequence, channel, log, confirmed, delivered>>
  BY DEF SessionStep, TickStep, sender, buffer
<1>2. /\ result' \in SessionError \union {"Ok"}
      /\ ClockHasRoom' => ClockHasRoom
      /\ ClockHasRoom' /\ AllowsCommands' =>
            \/ AllowsCommands /\ next_sequence' = next_sequence
            \/ next_sequence' = Len(delivered) + 1
  <2> USE DEF LinkInv, TimingInv, SessionInv, TypeOK, ClockHasRoom, Overflows,
              AllowsCommands, SessionError, Enter, Refuse, Reset
  <2>1. CASE Activate
    BY <2>1 DEF Activate, Connect, LogonSent, LogonAccepted, ResumeAt, Arm
  <2>2. CASE Restart
    BY <2>2 DEF Restart
  <2>3. CASE Refused
    BY <2>3 DEF Refused, LogonRefused, CommandRefused, InvalidTransition
  <2>4. CASE HeartbeatReceived \/ LogoutSent \/ Disconnect \/ Fail \/ Advance
    BY <2>4 DEF HeartbeatReceived, LogoutSent, Disconnect, Fail, Advance, Arm
  <2>5. CASE Tick
    BY <2>5 DEF Tick, TickIdle, TickLogon, TickActive, TickRecovering, Arm
  <2> QED
    BY <2>1, <2>2, <2>3, <2>4, <2>5 DEF SessionStep, TickStep
<1>3. LinkTypeOK'
  BY <1>1, <1>2 DEF LinkInv, DeliveryInv, LinkTypeOK
<1>4. WindowIsUnconfirmedSuffix'
  BY SMTT(30), <1>1 DEF LinkInv, DeliveryInv, WindowIsUnconfirmedSuffix
<1>5. (ClockHasRoom /\ AllowsCommands => next_sequence = Len(delivered) + 1)'
  BY <1>1, <1>2 DEF LinkInv, DeliveryInv
<1> QED
  BY <1>1, <1>3, <1>4, <1>5 DEF LinkInv, DeliveryInv

\* Every step of the link keeps the invariant.
LEMMA LinkStep ==
  ASSUME LinkInv, [LinkNext]_linkVars
  PROVE  LinkInv'
<1>1. CASE UNCHANGED linkVars
  BY SMTT(30), <1>1 DEF linkVars, sender, buffer, LinkInv, TimingInv, SessionInv, TypeOK,
         DeadlineExactlyWhenTimed, OneTimeoutWhileRecovering, DeadlineFollowsArming,
         AllowsCommands, ClockHasRoom, Overflows, DeliveryInv, LinkTypeOK,
         WindowIsUnconfirmedSuffix
<1>2. CASE LinkNext
  <2>1. TimingInv'
    BY <1>2, LinkTiming
  <2>2. ASSUME NEW f \in Frames, Send(f) PROVE DeliveryInv'
    BY <2>2, SendKeepsDelivery
  <2>3. ASSUME NEW n \in 1..MaxU64, NEW f \in Frames \union Oversize, SendRefused(n, f)
        PROVE  DeliveryInv'
    <3>1. /\ R!RetainRefused(n, f)
          /\ UNCHANGED <<session, now, channel, delivered, log, confirmed>>
      BY <2>3 DEF SendRefused
    <3>2. UNCHANGED <<entries, retain_sequence>> /\ result' = R!RetainError(n, f)
      BY <3>1 DEF R!RetainRefused, R!buffer
    <3>3. result' \in {"Full", "NotInOrder", "SequenceOverflow", "Ok"}
      BY <3>2 DEF R!RetainError
    <3> QED
      BY <3>1, <3>2, <3>3, ChannelStepKeepsDelivery
  <2>4. ASSUME NEW c \in 0..MaxU64, Confirm(c) PROVE DeliveryInv'
    BY <2>4, ConfirmKeepsDelivery
  <2>5. ASSUME NEW c \in 0..MaxU64, Recover(c) PROVE DeliveryInv'
    <3>1. /\ channel' = channel \union R!Resent(c + 1) /\ result' = "Ok"
          /\ UNCHANGED <<session, now, entries, retain_sequence, delivered, log, confirmed>>
      BY <2>5 DEF Recover, buffer
    <3>2. R!Resent(c + 1) \subseteq {entries[i] : i \in 1..Len(entries)}
      BY DEF R!Resent, R!Since
    <3> QED
      BY <3>1, <3>2, ChannelStepKeepsDelivery
  <2>6. ASSUME NEW e \in channel, Deliver(e) PROVE DeliveryInv'
    BY <2>6, DeliverKeepsDelivery
  <2>7. ASSUME NEW e \in channel, Lose(e) PROVE DeliveryInv'
    <3>1. /\ channel' \subseteq channel /\ result' = "Ok"
          /\ UNCHANGED <<session, now, entries, retain_sequence, delivered, log, confirmed>>
      BY <2>7 DEF Lose, buffer
    <3> QED
      BY <3>1, ChannelStepKeepsDelivery
  <2>8. ASSUME SessionStep \/ TickStep PROVE DeliveryInv'
    BY <2>8, SessionStepKeepsDelivery
  <2>9. DeliveryInv'
    BY <1>2, <2>2, <2>3, <2>4, <2>5, <2>6, <2>7, <2>8 DEF LinkNext
  <2> QED
    BY <2>1, <2>9 DEF LinkInv
<1> QED
  BY SMTT(30), <1>1, <1>2
-----------------------------------------------------------------------------
\* The invariant of the composed session, window and channel.
THEOREM LinkAlwaysSafe == LinkSpec => []LinkInv
<1>1. LinkInit => LinkInv
  BY LinkInitInv
<1>2. LinkInv /\ [LinkNext]_linkVars => LinkInv'
  BY LinkStep
<1> QED
  BY <1>1, <1>2, PTL DEF LinkSpec

\* handle and tick, for every timeout and every clock: a deadline exactly in the
\* timed states, one timeout on record while the session recovers.
THEOREM SessionAlwaysSafe == LinkSpec => []SessionInv
<1>1. LinkInv => SessionInv
  BY DEF LinkInv, TimingInv
<1> QED
  BY <1>1, LinkAlwaysSafe, PTL

\* The owner of the session gets the frames that were retained, once each and in
\* order, whatever the channel, the confirmations and the logons do.
THEOREM DeliveryAlwaysInOrder == LinkSpec => []DeliveredIsPrefixOfLog
<1>1. LinkInv => DeliveredIsPrefixOfLog
  <2> SUFFICES ASSUME LinkInv PROVE DeliveredIsPrefixOfLog
    OBVIOUS
  <2>1. \A i \in 1..Len(delivered) : delivered[i] = log[i]
    BY DEF LinkInv, DeliveryInv
  <2>2. delivered = SubSeq(log, 1, Len(delivered))
    <3> DEFINE n == Len(delivered)
               prefix == SubSeq(log, 1, n)
    <3>1. delivered \in Seq(Frames) /\ log \in Seq(Frames) /\ n \in Nat /\ n <= Len(log)
      BY DeliveryFacts
    <3>2. \A i \in 1..n : log[i] \in Frames
      BY <3>1, ElementOfSeq, Lengths
    <3>3. /\ prefix \in Seq(Frames) /\ Len(prefix) = n
          /\ \A i \in 1..n : prefix[i] = log[i]
      BY <3>1, <3>2
    <3> HIDE DEF prefix
    <3>4. \A i \in 1..Len(delivered) : delivered[i] = prefix[i]
      BY <2>1, <3>3
    <3> QED
      BY <3>1, <3>3, <3>4, SeqEqual DEF prefix
  <2> QED
    BY <2>2, Lengths DEF DeliveredIsPrefixOfLog, LinkInv, DeliveryInv
<1> QED
  BY <1>1, LinkAlwaysSafe, PTL

\* retain and confirm_through, for every capacity: the window is the unconfirmed
\* suffix of what was accepted.
THEOREM WindowAlwaysExact == LinkSpec => []WindowIsUnconfirmedSuffix
<1>1. LinkInv => WindowIsUnconfirmedSuffix
  BY DEF LinkInv, DeliveryInv
<1> QED
  BY <1>1, LinkAlwaysSafe, PTL

\* What since yields is the part of the log the peer has not been given.
LEMMA MissingFromWindow ==
  ASSUME LinkInv
  PROVE  SinceGivesAllMissing
<1> DEFINE next == Len(delivered) + 1
           rest == {[sequence |-> n, frame |-> log[n]] : n \in next..Len(log)}
<1>1. \A i \in 1..Len(entries) :
         entries[i] = [sequence |-> confirmed + i, frame |-> log[confirmed + i]]
  BY SMTT(30), DeliveryFacts
<1>2. ASSUME NEW i \in 1..Len(entries)
      PROVE  entries[i].sequence = confirmed + i
  <2>1. entries[i] = [sequence |-> confirmed + i, frame |-> log[confirmed + i]]
    BY <1>1
  <2> QED
    BY <2>1
<1>3. next \in Nat /\ next <= Len(log) + 1 /\ confirmed < next
  BY Lengths
<1>4. \A i : i \in R!Since(next) <=> i \in 1..Len(entries) /\ confirmed + i >= next
  BY <1>2 DEF R!Since
<1>5. \A i, j \in R!Since(next) : i < j => entries[i].sequence < entries[j].sequence
  BY SMTT(30), <1>2, <1>4, Lengths
<1>6. ASSUME NEW i \in R!Since(next)
      PROVE  entries[i] \in rest
  <2>1. confirmed + i \in next..Len(log)
    BY <1>3, <1>4, <1>6, Lengths
  <2>2. entries[i] = [sequence |-> confirmed + i, frame |-> log[confirmed + i]]
    BY <1>1, <1>4, <1>6
  <2> QED
    BY <2>1, <2>2
<1>7. ASSUME NEW n \in next..Len(log)
      PROVE  [sequence |-> n, frame |-> log[n]] \in R!Resent(next)
  <2>1. n - confirmed \in 1..Len(entries) /\ confirmed + (n - confirmed) = n /\ n >= next
    BY <1>3, Lengths
  <2>2. n - confirmed \in R!Since(next)
    BY <1>4, <2>1
  <2>3. entries[n - confirmed] = [sequence |-> n, frame |-> log[n]]
    BY <1>1, <2>1
  <2> QED
    BY <2>2, <2>3 DEF R!Resent
<1>8. R!Resent(next) = rest
  BY <1>6, <1>7 DEF R!Resent
<1> QED
  BY <1>3, <1>5, <1>8 DEF SinceGivesAllMissing

\* retain, confirm_through and since under any order of confirmations and any
\* number of recoveries: the types, the window, and what a recovery sends.
THEOREM RetransmissionAlwaysExact == LinkSpec => []RetransmitInv
<1>1. LinkInv => RetransmitInv
  BY MissingFromWindow DEF LinkInv, DeliveryInv, RetransmitInv
<1> QED
  BY <1>1, LinkAlwaysSafe, PTL

\* tick ends an interval only when all of it has passed since it was armed.
THEOREM NeverEarly == LinkSpec => TimeoutsAreNeverEarly
<1> DEFINE Due ==
      /\ (state = "Active" /\ state' = "Recovering") =>
              now >= armed_at + heartbeat_timeout_ticks
      /\ (state = "Recovering" /\ Tick /\ state' = "Failed") =>
              now >= armed_at + heartbeat_timeout_ticks
      /\ (state = "Logon" /\ Tick /\ state' = "Failed") =>
              now >= armed_at + logon_timeout_ticks
<1>1. LinkInv /\ [LinkNext]_linkVars => [Due]_vars
  <2> SUFFICES ASSUME LinkInv, [LinkNext]_linkVars PROVE Due \/ UNCHANGED vars
    BY SMTT(30)
  <2> USE DEF LinkInv, TimingInv, SessionInv, TypeOK, DeadlineExactlyWhenTimed,
              DeadlineFollowsArming, Enter, Refuse, Reset
  <2>1. ASSUME Tick PROVE Due
    BY <2>1 DEF Tick, TickIdle, TickLogon, TickActive, TickRecovering, Arm, Expired
  <2>2. ASSUME ~(state = "Active" /\ state' = "Recovering"), ~Tick PROVE Due
    BY <2>2
  <2>3. ASSUME LinkNext, ~Tick PROVE ~(state = "Active" /\ state' = "Recovering")
    <3>1. ASSUME NEW f \in Frames, Send(f) PROVE state' = state
      BY <3>1 DEF Send
    <3>2. ASSUME NEW n \in 1..MaxU64, NEW f \in Frames \union Oversize, SendRefused(n, f)
          PROVE  state' = state
      BY <3>2 DEF SendRefused
    <3>3. ASSUME NEW c \in 0..MaxU64, Confirm(c) \/ Recover(c) PROVE state' = state
      BY <3>3 DEF Confirm, Recover
    <3>4. ASSUME NEW e \in channel, Deliver(e) PROVE state' = "Active"
      BY <3>4 DEF Deliver, Command, Arm
    <3>5. ASSUME NEW e \in channel, Lose(e) PROVE state' = state
      BY SMTT(30), <3>5 DEF Lose
    <3>6. ASSUME SessionStep PROVE state' = state \/ state' # "Recovering"
      BY <3>6 DEF SessionStep, Activate, Connect, LogonSent, LogonAccepted, Restart, Refused,
                  LogonRefused, CommandRefused, InvalidTransition, HeartbeatReceived,
                  LogoutSent, Disconnect, Fail, Advance, Arm
    <3> QED
      BY SMTT(30), <2>3, <3>1, <3>2, <3>3, <3>4, <3>5, <3>6 DEF LinkNext, TickStep
  <2>4. CASE UNCHANGED linkVars
    BY <2>4 DEF linkVars
  <2> QED
    BY <2>1, <2>2, <2>3, <2>4
<1> QED
  BY <1>1, LinkAlwaysSafe, PTL DEF LinkSpec, TimeoutsAreNeverEarly

\* An error of handle, tick or retain changes no field while the clock has room
\* for a deadline.
THEOREM RefusalsAlwaysClean == LinkSpec => RefusalIsClean
<1> DEFINE Clean == result' # "Ok" /\ ClockHasRoom => UNCHANGED <<session, buffer>>
<1>1. LinkInv /\ [LinkNext]_linkVars => [Clean]_linkVars
  <2> SUFFICES ASSUME LinkInv, LinkNext, result' # "Ok", ClockHasRoom
               PROVE  UNCHANGED <<session, buffer>>
    BY DEF Clean
  <2>1. ASSUME NEW f \in Frames, Send(f) PROVE FALSE
    BY <2>1 DEF Send, R!Retain
  <2>2. ASSUME NEW n \in 1..MaxU64, NEW f \in Frames \union Oversize, SendRefused(n, f)
        PROVE  UNCHANGED <<session, buffer>>
    BY <2>2 DEF SendRefused, R!RetainRefused, R!buffer, buffer
  <2>3. ASSUME NEW c \in 0..MaxU64, Confirm(c) \/ Recover(c) PROVE FALSE
    BY <2>3 DEF Confirm, R!ConfirmThrough, Recover
  <2>4. ASSUME NEW e \in channel, Deliver(e) \/ Lose(e) PROVE FALSE
    BY <2>4 DEF Deliver, Lose, Command, Arm, Enter, ClockHasRoom
  <2>5. ASSUME SessionStep \/ TickStep PROVE UNCHANGED session /\ UNCHANGED buffer
    <3>1. UNCHANGED buffer
      BY <2>5 DEF SessionStep, TickStep, sender
    <3>2. UNCHANGED session
      <4> USE DEF Enter, Refuse, ClockHasRoom
      <4>1. CASE Activate \/ Restart
        BY <4>1 DEF Activate, Connect, LogonSent, LogonAccepted, Restart, Arm
      <4>2. CASE Refused
        BY <4>2 DEF Refused, LogonRefused, CommandRefused, InvalidTransition
      <4>3. CASE HeartbeatReceived \/ LogoutSent \/ Disconnect \/ Fail \/ Advance
        BY <4>3 DEF HeartbeatReceived, LogoutSent, Disconnect, Fail, Advance, Arm
      <4>4. CASE Tick
        BY <4>4 DEF Tick, TickIdle, TickLogon, TickActive, TickRecovering, Arm
      <4> QED
        BY <2>5, <4>1, <4>2, <4>3, <4>4 DEF SessionStep, TickStep
    <3> QED
      BY <3>1, <3>2
  <2> QED
    BY <2>1, <2>2, <2>3, <2>4, <2>5 DEF LinkNext
<1> QED
  BY <1>1, LinkAlwaysSafe, PTL DEF LinkSpec, RefusalIsClean
=============================================================================
