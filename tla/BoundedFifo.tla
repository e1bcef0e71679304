---------------------------- MODULE BoundedFifo ----------------------------
(***************************************************************************)
(* What a queue of hft-spsc promises to its two callers: a bounded FIFO.   *)
(* A push that succeeds appends, a pop that succeeds hands the oldest      *)
(* value to its caller, and the owner may close the queue, taking what is  *)
(* left (into_inner) or destroying it (Drop).  A refused push and an empty *)
(* pop change nothing, so they are stuttering steps here.                  *)
(***************************************************************************)
EXTENDS Naturals, Sequences

CONSTANTS
  N,       \* capacity
  Values,  \* what the queue carries
  NoValue  \* no value has been handed out yet

VARIABLES
  queue,    \* published and not yet consumed, oldest first
  returned, \* the last value a try_pop gave to its caller
  drained,  \* what into_inner gave to the owner
  open      \* FALSE once the owner has consumed the queue

fifoVars == <<queue, returned, drained, open>>

FifoInit ==
  /\ queue = <<>>
  /\ returned = NoValue
  /\ drained = <<>>
  /\ open = TRUE

Push(v) ==
  /\ open
  /\ Len(queue) < N
  /\ queue' = Append(queue, v)
  /\ UNCHANGED <<returned, drained, open>>

Pop ==
  /\ open
  /\ queue # <<>>
  /\ returned' = Head(queue)
  /\ queue' = Tail(queue)
  /\ UNCHANGED <<drained, open>>

Close ==
  /\ open
  /\ open' = FALSE
  /\ queue' = <<>>
  /\ drained' \in {queue, drained}
  /\ UNCHANGED returned

FifoNext == (\E v \in Values : Push(v)) \/ Pop \/ Close

FifoSpec == FifoInit /\ [][FifoNext]_fifoVars
=============================================================================
