------------------------------ MODULE Session ------------------------------
(***************************************************************************)
(* The session state machine of hft-session/src/lib.rs.                    *)
(*                                                                         *)
(* A caller owns the machine, feeds it events of the peer and ticks of a   *)
(* virtual clock that never runs backwards.  MaxU64 stands for u64::MAX:   *)
(* ticks and sequence numbers end there and every checked_add is modelled  *)
(* with its failure.  heartbeat_timeouts is a u32 that only repeated       *)
(* failing ticks can drive up; MaxTimeouts bounds it in the guard of Tick. *)
(***************************************************************************)
EXTENDS Naturals

CONSTANTS MaxU64,                   \* largest tick and sequence number
          MaxTimeouts,              \* bound on heartbeat_timeouts
          logon_timeout_ticks,
          heartbeat_timeout_ticks,
          None                      \* Option::None of the deadline

ASSUME SessionAssumption ==
    /\ MaxU64 \in Nat \ {0}
    /\ MaxTimeouts \in Nat \ {0}
    /\ logon_timeout_ticks \in 0..MaxU64
    /\ heartbeat_timeout_ticks \in 0..MaxU64
    /\ None \notin Nat

VARIABLES state, next_sequence, deadline, heartbeat_timeouts,
          now,         \* the caller's virtual clock
          result,      \* what the last call of handle or tick returned
          armed_at     \* history: tick of the last event that armed a deadline

session == <<state, next_sequence, deadline, heartbeat_timeouts>>
vars == <<session, armed_at, now, result>>

SessionState == {"Disconnected", "Connecting", "Logon", "Active",
                 "Recovering", "Logout", "Failed"}
SessionError == {"InvalidTransition", "Gap", "DuplicateSequence",
                 "ArithmeticOverflow"}
Timed == {"Logon", "Active", "Recovering"}

AllowsCommands == state \in {"Active", "Recovering"}

Init ==
    /\ state = "Disconnected" /\ next_sequence = 1
    /\ deadline = None /\ heartbeat_timeouts = 0
    /\ now = 0 /\ result = "Ok"
    /\ armed_at = 0
-----------------------------------------------------------------------------
Refuse(error) == result' = error

\* enter: both fields are overwritten, nothing can fail.
Enter(s, d) == state' = s /\ deadline' = d /\ result' = "Ok"

\* arm: on overflow the error leaves state and deadline as they are in the
\* caller, which may have written other fields before.
Overflows(timeout) == now + timeout > MaxU64

Arm(s, timeout, current) ==
    \/ /\ Overflows(timeout)
       /\ Refuse("ArithmeticOverflow")
       /\ state' = current
       /\ UNCHANGED <<deadline, armed_at>>
    \/ /\ ~Overflows(timeout)
       /\ Enter(s, now + timeout)
       /\ armed_at' = now

Reset == next_sequence' = 1 /\ heartbeat_timeouts' = 0

Connect ==
    /\ state = "Disconnected"
    /\ Enter("Connecting", None)
    /\ UNCHANGED <<next_sequence, heartbeat_timeouts, armed_at, now>>

LogonSent ==
    /\ state = "Connecting"
    /\ Arm("Logon", logon_timeout_ticks, state)
    /\ UNCHANGED <<next_sequence, heartbeat_timeouts, now>>

LogonRefused ==
    /\ state = "Logon"
    /\ Refuse("ArithmeticOverflow")
    /\ UNCHANGED <<session, armed_at, now>>

\* The sequence is taken before the deadline is armed.
LogonAccepted(first_sequence) ==
    /\ state = "Logon" /\ first_sequence # 0
    /\ next_sequence' = first_sequence
    /\ heartbeat_timeouts' = 0
    /\ Arm("Active", heartbeat_timeout_ticks, state)
    /\ UNCHANGED now

\* Mutant: a refused command counts as a sign of life.
CommandRefusedRearms(sequence) ==
    /\ AllowsCommands
    /\ sequence # next_sequence /\ ~Overflows(heartbeat_timeout_ticks)
    /\ Refuse(IF sequence < next_sequence THEN "DuplicateSequence" ELSE "Gap")
    /\ deadline' = now + heartbeat_timeout_ticks /\ armed_at' = now
    /\ UNCHANGED <<state, next_sequence, heartbeat_timeouts, now>>

CommandRefused(sequence) ==
    /\ AllowsCommands
    /\ \/ sequence < next_sequence /\ Refuse("DuplicateSequence")
       \/ sequence > next_sequence /\ Refuse("Gap")
       \/ /\ sequence = next_sequence /\ next_sequence = MaxU64
          /\ Refuse("ArithmeticOverflow")
    /\ UNCHANGED <<session, armed_at, now>>

\* Mutant: a command does not clear the timeouts.
CommandWithoutReset(sequence) ==
    /\ AllowsCommands
    /\ sequence = next_sequence /\ next_sequence < MaxU64
    /\ next_sequence' = next_sequence + 1
    /\ Arm("Active", heartbeat_timeout_ticks, "Active")
    /\ UNCHANGED <<heartbeat_timeouts, now>>

\* The sequence is consumed, and Recovering left, before arm may fail.
Command(sequence) ==
    /\ AllowsCommands
    /\ sequence = next_sequence /\ next_sequence < MaxU64
    /\ next_sequence' = next_sequence + 1
    /\ heartbeat_timeouts' = 0
    /\ Arm("Active", heartbeat_timeout_ticks, "Active")
    /\ UNCHANGED now

\* Mutant: heartbeats re-arm a recovering session.
HeartbeatInRecovering ==
    /\ AllowsCommands
    /\ Arm(state, heartbeat_timeout_ticks, state)
    /\ UNCHANGED <<next_sequence, heartbeat_timeouts, now>>

HeartbeatReceived ==
    /\ state = "Active"
    /\ Arm("Active", heartbeat_timeout_ticks, state)
    /\ UNCHANGED <<next_sequence, heartbeat_timeouts, now>>

LogoutSent ==
    /\ state \in {"Connecting"} \union Timed
    /\ Enter("Logout", None)
    /\ UNCHANGED <<next_sequence, heartbeat_timeouts, armed_at, now>>

Disconnect ==
    /\ state # "Failed"
    /\ Reset
    /\ Enter("Disconnected", None)
    /\ UNCHANGED <<armed_at, now>>

Fail ==
    /\ Reset
    /\ Enter("Failed", None)
    /\ UNCHANGED <<armed_at, now>>

\* The match arm no other arm takes: the event is not one of this state.
InvalidTransition ==
    /\ \/ state # "Disconnected"                                \* Connect
       \/ state # "Connecting"                                  \* LogonSent
       \/ state # "Logon"                                       \* LogonAccepted
       \/ ~AllowsCommands                                       \* Command
       \/ state # "Active"                                      \* HeartbeatReceived
       \/ state \notin {"Connecting"} \union Timed              \* LogoutSent
       \/ state = "Failed"                                      \* Disconnect
    /\ Refuse("InvalidTransition")
    /\ UNCHANGED <<session, armed_at, now>>
-----------------------------------------------------------------------------
Expired == deadline # None /\ now >= deadline

\* tick before the deadline, or without one.
TickIdle ==
    /\ ~Expired
    /\ result' = "Ok"
    /\ UNCHANGED <<session, armed_at, now>>

TickLogon ==
    /\ Expired /\ state = "Logon"
    /\ Reset
    /\ Enter("Failed", None)
    /\ UNCHANGED <<armed_at, now>>

\* Mutant: the deadline fires one tick early.
TickEarly ==
    /\ deadline # None /\ now + 1 >= deadline /\ state = "Active"
    /\ heartbeat_timeouts < MaxTimeouts
    /\ heartbeat_timeouts' = heartbeat_timeouts + 1
    /\ Arm("Recovering", heartbeat_timeout_ticks, state)
    /\ UNCHANGED <<next_sequence, now>>

\* The timeout is counted before the next deadline is computed.
TickActive ==
    /\ Expired /\ state = "Active"
    /\ heartbeat_timeouts < MaxTimeouts
    /\ heartbeat_timeouts' = heartbeat_timeouts + 1
    /\ Arm("Recovering", heartbeat_timeout_ticks, state)
    /\ UNCHANGED <<next_sequence, now>>

TickRecovering ==
    /\ Expired /\ state = "Recovering"
    /\ Reset
    /\ Enter("Failed", None)
    /\ UNCHANGED <<armed_at, now>>

Tick == TickIdle \/ TickLogon \/ TickActive \/ TickRecovering

\* Time passes between two calls.
Advance ==
    /\ now < MaxU64
    /\ now' = now + 1
    /\ result' = "Ok"
    /\ UNCHANGED <<session, armed_at>>

-----------------------------------------------------------------------------
\* Type correctness of the machine's fields and of the history.
TypeOK ==
    /\ state \in SessionState
    /\ next_sequence \in 1..MaxU64
    /\ deadline \in (0..MaxU64) \union {None}
    /\ heartbeat_timeouts \in 0..MaxTimeouts
    /\ now \in 0..MaxU64 /\ armed_at \in 0..MaxU64

ClockHasRoom == ~Overflows(heartbeat_timeout_ticks)

\* A deadline is armed exactly in the states tick acts on: a logout, a
\* disconnect or a failure leaves no deadline behind that a later tick could
\* fire, and no timed state waits without one.
DeadlineExactlyWhenTimed == (deadline # None) <=> (state \in Timed)

\* Away from the end of the clock, one timeout is on record while the session
\* recovers and none while it is active: an accepted command or a new logon
\* clears the count, so only two timeouts in a row fail the session.
OneTimeoutWhileRecovering ==
    AllowsCommands /\ ClockHasRoom =>
        heartbeat_timeouts = IF state = "Recovering" THEN 1 ELSE 0

\* A timeout changes the state only when the whole interval has passed since
\* the last event that armed it.
TimeoutsAreNeverEarly ==
    [][/\ (state = "Active" /\ state' = "Recovering") =>
              now >= armed_at + heartbeat_timeout_ticks
       /\ (state = "Recovering" /\ Tick /\ state' = "Failed") =>
              now >= armed_at + heartbeat_timeout_ticks
       /\ (state = "Logon" /\ Tick /\ state' = "Failed") =>
              now >= armed_at + logon_timeout_ticks]_vars

\* A logon that is not answered, and a recovery in which no command arrives,
\* end once their deadline has passed: nothing else the peer sends, heartbeats
\* included, keeps the session waiting, even where the clock is exhausted.
WaitingEnds ==
    \A s \in {"Logon", "Recovering"} : (state = s /\ Expired) ~> (state # s)

\* What every state of the session machine satisfies: the types, a deadline in
\* the timed states and only there, and the timeout count.
SessionInv ==
    /\ TypeOK
    /\ DeadlineExactlyWhenTimed
    /\ OneTimeoutWhileRecovering
=============================================================================
