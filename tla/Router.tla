------------------------------- MODULE Router -------------------------------
(***************************************************************************)
(* hft-router: the router thread publishes commands to the queue of their  *)
(* shard; each MatchingShard thread processes its queue one command at a   *)
(* time and publishes event batches, which the router thread pops.         *)
(*                                                                         *)
(* A command is its instrument and its sequence.  The shard's engine is    *)
(* the sequence it expects: Gateway models what it does with a command,    *)
(* and that it returns no internal error.  The queues are the FIFOs that   *)
(* hft-spsc implements; a producer may still take one for full after the   *)
(* consumer has freed a slot.                                              *)
(***************************************************************************)
EXTENDS RouteTable

CONSTANTS COMMAND_QUEUE, EVENT_QUEUE, \* queue capacities
          MaxSequence,                \* u64::MAX of the sequence numbers
          MaxAccepted                 \* bound: commands accepted for a shard

ASSUME RouterAssumption ==
  /\ COMMAND_QUEUE \in Nat \ {0} /\ EVENT_QUEUE \in Nat \ {0}
  /\ MaxSequence \in Nat \ {0} /\ MaxAccepted \in Nat

VARIABLES
  table,     \* RouteTable
  commands,  \* command queue of each shard
  pending,   \* MatchingShard.pending, a sequence of at most one command
  expected,  \* expected_sequence of each shard's gateway
  events,    \* event queue of each shard: sequences of processed commands
  accepted,  \* commands that route_command accepted, for each shard
  answered,  \* what try_process_one returned for them: command and result
  received   \* batches that try_event returned, for each shard

vars == <<table, commands, pending, expected, events, accepted, answered, received>>

Shards == 0 .. SHARDS - 1
Command == [instrument_id : InstrumentIds, sequence : 1 .. MaxSequence]

Init ==
  /\ table \in {TryNew(r) : r \in {r \in [1 .. SHARDS -> InstrumentRoute] :
                                     TryNewReject(r) = "Ok"}}
  /\ commands = [s \in Shards |-> <<>>]
  /\ pending = [s \in Shards |-> <<>>]
  /\ expected = [s \in Shards |-> 1]
  /\ events = [s \in Shards |-> <<>>]
  /\ accepted = [s \in Shards |-> <<>>]
  /\ answered = [s \in Shards |-> <<>>]
  /\ received = [s \in Shards |-> <<>>]

-----------------------------------------------------------------------------

\* route_command: UnknownInstrument and CommandBackpressured change nothing.
RouteCommand(command) ==
  LET s == ShardFor(table, command.instrument_id) IN
  /\ s # None
  /\ Len(accepted[s]) < MaxAccepted
  /\ Len(commands[s]) < COMMAND_QUEUE
  /\ commands' = [commands EXCEPT ![s] = Append(@, command)]
  /\ accepted' = [accepted EXCEPT ![s] = Append(@, command)]
  /\ UNCHANGED <<table, pending, expected, events, answered, received>>

TryEvent(s) ==
  /\ events[s] # <<>>
  /\ received' = [received EXCEPT ![s] = Append(@, Head(events[s]))]
  /\ events' = [events EXCEPT ![s] = Tail(@)]
  /\ UNCHANGED <<table, commands, pending, expected, accepted, answered>>

-----------------------------------------------------------------------------
(* MatchingShard::try_process_one                                          *)

\* The command taken: the pending one, else the head of the queue.
NextCommand(s) == IF pending[s] # <<>> THEN Head(pending[s]) ELSE Head(commands[s])

\* Mutant: the event queues share one capacity.
ResultSharesCapacity(s) ==
  IF NextCommand(s).sequence # expected[s] \/ expected[s] = MaxSequence THEN "Engine"
  ELSE IF \E t \in Shards : Len(events[t]) >= EVENT_QUEUE THEN "EventBackpressured"
  ELSE "Processed"

\* What process_command returns for it, checks in order.
Result(s) ==
  LET command == NextCommand(s) IN
  IF command.instrument_id # InstrumentFor(table, s) THEN "Misrouted"
  ELSE IF command.sequence # expected[s] \/ expected[s] = MaxSequence THEN "Engine"
  ELSE IF Len(events[s]) >= EVENT_QUEUE THEN "EventBackpressured"
  ELSE "Processed"

\* has_capacity may not have seen the latest pops of the consumer.
MayLookFull(s) == Len(events[s]) + Len(received[s]) >= EVENT_QUEUE

Take(s) ==
  /\ pending' = [pending EXCEPT ![s] = <<>>]
  /\ commands' = [commands EXCEPT ![s] = IF pending[s] # <<>> THEN @ ELSE Tail(@)]

Answer(s, result) ==
  answered' = [answered EXCEPT ![s] = Append(@, [command |-> NextCommand(s), result |-> result])]

\* Mutant: a command is dropped when its event does not fit.
TryProcessOneDropsOnBackpressure(s) ==
  /\ pending[s] # <<>> \/ commands[s] # <<>>
  /\ Take(s)
  /\ IF Result(s) = "Processed"
     THEN /\ Answer(s, "Processed")
          /\ expected' = [expected EXCEPT ![s] = @ + 1]
          /\ events' = [events EXCEPT ![s] = Append(@, NextCommand(s).sequence)]
     ELSE UNCHANGED <<answered, expected, events>>
  /\ UNCHANGED <<table, accepted, received>>

\* A misrouted command and an engine error consume the command; backpressure
\* keeps it for the next call.
TryProcessOne(s) ==
  /\ pending[s] # <<>> \/ commands[s] # <<>>
  /\ \/ /\ Result(s) = "Processed"
        /\ Take(s)
        /\ Answer(s, "Processed")
        /\ expected' = [expected EXCEPT ![s] = @ + 1]
        /\ events' = [events EXCEPT ![s] = Append(@, NextCommand(s).sequence)]
     \/ /\ Result(s) = "EventBackpressured" \/ (Result(s) = "Processed" /\ MayLookFull(s))
        /\ pending' = [pending EXCEPT ![s] = <<NextCommand(s)>>]
        /\ commands' = [commands EXCEPT ![s] = IF pending[s] # <<>> THEN @ ELSE Tail(@)]
        /\ UNCHANGED <<answered, expected, events>>
     \/ /\ Result(s) \in {"Misrouted", "Engine"}
        /\ Take(s)
        /\ Answer(s, Result(s))
        /\ UNCHANGED <<expected, events>>
  /\ UNCHANGED <<table, accepted, received>>

Next ==
  \/ \E command \in Command : RouteCommand(command)
  \/ \E s \in Shards : TryEvent(s) \/ TryProcessOne(s)

Spec == Init /\ [][Next]_vars

\* Only shard 0 and the router's poll of its events are known to run.
FairSpec == Spec /\ WF_vars(TryProcessOne(0)) /\ WF_vars(TryEvent(0))

-----------------------------------------------------------------------------
\* Type correctness of the queues and of the commands in them.
TypeOK ==
  /\ \A s \in Shards :
       /\ commands[s] \in Seq(Command) /\ Len(commands[s]) <= COMMAND_QUEUE
       /\ pending[s] \in Seq(Command) /\ Len(pending[s]) <= 1
       /\ expected[s] \in 1 .. MaxSequence
       /\ Len(events[s]) <= EVENT_QUEUE

\* For every instrument, routed or not, and every table that try_new accepts,
\* the lookup by offset or by binary search gives the shard the table was given,
\* and instrument_for is its inverse.
LookupIsExact ==
  \A i \in InstrumentIds :
    LET owners == {s \in Shards : InstrumentFor(table, s) = i} IN
    IF owners = {} THEN ShardFor(table, i) = None ELSE ShardFor(table, i) \in owners

\* "without silently dropping an accepted command": what a shard was given is
\* answered once and in order, or is pending, or is queued.
NothingIsDropped ==
  \A s \in Shards :
    accepted[s] = [k \in 1 .. Len(answered[s]) |-> answered[s][k].command]
                    \o pending[s] \o commands[s]

\* No shard is ever given a command of another instrument.
NeverMisrouted ==
  \A s \in Shards : \A k \in 1 .. Len(answered[s]) : answered[s][k].result # "Misrouted"

\* The router receives from each shard one batch for each processed command,
\* in sequence, across any number of backpressured retries.
EventsInSequence ==
  \A s \in Shards :
    received[s] \o events[s] = [k \in 1 .. expected[s] - 1 |-> k]

\* Routes are found exactly; each accepted command is handled once, by its own
\* shard, in order, and its batch reaches the router in order.
DeliveryIsExact ==
  TypeOK /\ LookupIsExact /\ NothingIsDropped /\ NeverMisrouted /\ EventsInSequence

\* A shard that runs answers its commands although every other shard, and the
\* events of every other shard, stand still.
ShardIsIndependent ==
  \A n \in 1 .. MaxAccepted : Len(accepted[0]) >= n ~> Len(answered[0]) >= n
=============================================================================
