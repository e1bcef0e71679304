-------------------------------- MODULE Spsc --------------------------------
(***************************************************************************)
(* hft-spsc: the single-producer single-consumer ring that carries         *)
(* commands, event batches and journal records between threads.            *)
(*                                                                         *)
(* The producer and the consumer run concurrently, one step at a time      *)
(* between their accesses to shared memory.  Positions are usize counters  *)
(* that wrap; the peer's position is read through a private cache which is *)
(* refreshed by an Acquire load only when the cache says full (or empty).  *)
(* An Acquire load may return any value stored since the one the cache     *)
(* holds, so a refreshed cache can still be stale.                         *)
(*                                                                         *)
(* Each endpoint's private copy of its own position equals the atomic at   *)
(* every step boundary (only that endpoint stores it), so one variable     *)
(* stands for both.                                                        *)
(***************************************************************************)
EXTENDS Integers, Sequences

CONSTANTS
  N,       \* capacity, the const generic of SpscQueue
  Laps,    \* how often the ring is filled before a usize counter wraps
  Values,  \* what the queue carries
  Uninit,  \* content of a slot that holds no value (MaybeUninit::uninit)
  NoValue  \* no value has been handed to the consumer's caller yet

\* try_new demands a power of two, and so divides the range of usize; a usize
\* that is a power of two is at most half of that range.
ASSUME CapacityAssumption ==
  /\ N \in Nat \ {0}
  /\ Laps \in Nat \ {0, 1}

ASSUME ValueAssumption == Uninit \notin Values /\ NoValue \notin Values

VARIABLES
  head, tail,    \* the two atomics; the consumer stores head, the producer tail
  slots,         \* the ring itself
  cached_head,   \* Producer.cached_head
  ppc, pval,     \* where the producer is in push_impl, and the value it pushes
  granted,       \* has_capacity returned true and nothing was published since
  cached_tail,   \* Consumer.cached_tail
  cpc, cval,     \* where the consumer is in pop_impl, and the value it read
  returned,      \* the last value try_pop returned
  drained,       \* what into_inner returned
  phase          \* "split": endpoints exist; "gone": the owner consumed the queue

producerVars == <<cached_head, ppc, pval, granted>>
consumerVars == <<cached_tail, cpc, cval, returned>>
vars == <<head, tail, slots, producerVars, consumerVars, drained, phase>>

-----------------------------------------------------------------------------
(* Wrapping arithmetic on usize positions, and the slot of a position.     *)

Modulus == N * Laps
Position == 0 .. Modulus - 1

\* a.wrapping_sub(b)
Sub(a, b) == IF a >= b THEN a - b ELSE a - b + Modulus

\* a.wrapping_add(k), for k no larger than the range
Add(a, k) == IF a + k < Modulus THEN a + k ELSE a + k - Modulus

\* position & (N - 1), N a power of two
Index(p) == p % N

Occupied == Sub(tail, head)

\* The values an Acquire load of a position may return to a thread whose last
\* load returned from: that one and every later store, up to the newest, to.
Visible(from, to) == { Add(from, k) : k \in 0 .. Sub(to, from) }

\* Mutant: the range is read from the start of the storage.
PublishedFromSlotZero == [k \in 1 .. Occupied |-> slots[k - 1]]

\* The published half-open range [head, tail), oldest first.
Published == [k \in 1 .. Occupied |-> slots[Index(Add(head, k - 1))]]

-----------------------------------------------------------------------------
\* try_new, then split: both endpoints take their positions from the queue.
Init ==
  /\ head = 0
  /\ tail = 0
  /\ slots = [i \in 0 .. N - 1 |-> Uninit]
  /\ cached_head = 0
  /\ ppc = "idle"
  /\ pval = NoValue
  /\ granted = FALSE
  /\ cached_tail = 0
  /\ cpc = "idle"
  /\ cval = NoValue
  /\ returned = NoValue
  /\ drained = <<>>
  /\ phase = "split"

\* The producer's view of a full ring, refreshed only when the cache says so.
RefreshHead ==
  IF Sub(tail, cached_head) = N
  THEN cached_head' \in Visible(cached_head, head)
  ELSE UNCHANGED cached_head

\* Mutant: full is tested one too late.
PushCheckOffByOne(v) ==
  /\ phase = "split"
  /\ ppc = "idle"
  /\ RefreshHead
  /\ IF Sub(tail, cached_head') > N
     THEN UNCHANGED <<ppc, pval>>
     ELSE ppc' = "write" /\ pval' = v
  /\ UNCHANGED <<head, tail, slots, granted, consumerVars, drained, phase>>

\* push_impl up to the slot write: refuse, or go on with the value.
PushCheck(v) ==
  /\ phase = "split"
  /\ ppc = "idle"
  /\ RefreshHead
  /\ IF Sub(tail, cached_head') = N
     THEN UNCHANGED <<ppc, pval>>
     ELSE ppc' = "write" /\ pval' = v
  /\ UNCHANGED <<head, tail, slots, granted, consumerVars, drained, phase>>

\* slots[index].write(value)
PushWrite ==
  /\ ppc = "write"
  /\ slots' = [slots EXCEPT ![Index(tail)] = pval]
  /\ ppc' = "publish"
  /\ UNCHANGED <<head, tail, cached_head, pval, granted, consumerVars, drained, phase>>

\* The Release store of the new tail.
PushPublish ==
  /\ ppc = "publish"
  /\ tail' = Add(tail, 1)
  /\ ppc' = "idle"
  /\ granted' = FALSE
  /\ UNCHANGED <<head, slots, cached_head, pval, consumerVars, drained, phase>>

\* Mutant: the refreshed head is used for the answer and then forgotten.
HasCapacityForgets ==
  /\ phase = "split"
  /\ ppc = "idle"
  /\ granted' = (Sub(tail, IF Sub(tail, cached_head) = N THEN head ELSE cached_head) # N)
  /\ UNCHANGED <<head, tail, slots, cached_head, ppc, pval, consumerVars, drained, phase>>

HasCapacity ==
  /\ phase = "split"
  /\ ppc = "idle"
  /\ RefreshHead
  /\ granted' = (Sub(tail, cached_head') # N)
  /\ UNCHANGED <<head, tail, slots, ppc, pval, consumerVars, drained, phase>>

\* Mutant: the cached tail is never refreshed.
RefreshTailNever == UNCHANGED cached_tail

RefreshTail ==
  IF head = cached_tail
  THEN cached_tail' \in Visible(cached_tail, tail)
  ELSE UNCHANGED cached_tail

\* pop_impl up to the slot read: None, or go on.
PopCheck ==
  /\ phase = "split"
  /\ cpc = "idle"
  /\ RefreshTail
  /\ cpc' = IF head = cached_tail' THEN "idle" ELSE "read"
  /\ UNCHANGED <<head, tail, slots, producerVars, cval, returned, drained, phase>>

\* assume_init_read moves the value out, the slot is left uninitialized.
PopRead ==
  /\ cpc = "read"
  /\ cval' = slots[Index(head)]
  /\ slots' = [slots EXCEPT ![Index(head)] = Uninit]
  /\ cpc' = "reclaim"
  /\ UNCHANGED <<head, tail, producerVars, cached_tail, returned, drained, phase>>

\* The Release store of the new head, and the return to the caller.
PopReclaim ==
  /\ cpc = "reclaim"
  /\ head' = Add(head, 1)
  /\ returned' = cval
  /\ cpc' = "idle"
  /\ UNCHANGED <<tail, slots, producerVars, cached_tail, cval, drained, phase>>

\* Owner paths need exclusive access: both endpoints are out of use.
Exclusive == phase = "split" /\ ppc = "idle" /\ cpc = "idle"

\* Mutant: the loop stops one position early.
EmptiedButOne == [i \in 0 .. N - 1 |->
                    IF \E k \in 0 .. Occupied - 2 : i = Index(Add(head, k))
                    THEN Uninit ELSE slots[i]]

\* The slots of [head, tail), each moved out or dropped once.
Emptied == [i \in 0 .. N - 1 |->
              IF \E k \in 0 .. Occupied - 1 : i = Index(Add(head, k))
              THEN Uninit ELSE slots[i]]

\* The endpoints are dropped and split is called again, values still queued.
Split ==
  /\ Exclusive
  /\ cached_head' = head
  /\ cached_tail' = tail
  /\ granted' = FALSE
  /\ UNCHANGED <<head, tail, slots, ppc, pval, cpc, cval, returned, drained, phase>>

IntoInner ==
  /\ Exclusive
  /\ drained' = Published
  /\ slots' = Emptied
  /\ head' = tail
  /\ phase' = "gone"
  /\ UNCHANGED <<tail, producerVars, consumerVars>>

Drop ==
  /\ Exclusive
  /\ slots' = Emptied
  /\ phase' = "gone"
  /\ UNCHANGED <<head, tail, producerVars, consumerVars, drained>>

Producer == (\E v \in Values : PushCheck(v)) \/ PushWrite \/ PushPublish \/ HasCapacity
Consumer == PopCheck \/ PopRead \/ PopReclaim
Owner == Split \/ IntoInner \/ Drop

Next == Producer \/ Consumer \/ Owner

Spec == Init /\ [][Next]_vars

\* A consumer that keeps polling, and stores that become visible in finite
\* time: the load of tail does not return a stale value for ever.
PopCheckFresh == PopCheck /\ (head = cached_tail => cached_tail' = tail)
FairSpec == Spec /\ WF_vars(PopCheckFresh) /\ WF_vars(PopRead) /\ WF_vars(PopReclaim)

-----------------------------------------------------------------------------
(* Properties.                                                             *)

\* Type correctness of every variable of push_impl and pop_impl.
TypeOK ==
  /\ head \in Position
  /\ tail \in Position
  /\ slots \in [0 .. N - 1 -> Values \cup {Uninit}]
  /\ cached_head \in Position
  /\ ppc \in {"idle", "write", "publish"}
  /\ pval \in Values \cup {NoValue}
  /\ granted \in BOOLEAN
  /\ cached_tail \in Position
  /\ cpc \in {"idle", "read", "reclaim"}
  /\ cval \in Values \cup {Uninit, NoValue}
  /\ returned \in Values \cup {Uninit, NoValue}
  /\ drained \in Seq(Values \cup {Uninit})
  /\ phase \in {"split", "gone"}

\* The SAFETY comment of push_impl: "the capacity check proves this slot was
\* reclaimed".  A write never lands on a slot that still holds a value, even
\* when the capacity check used a stale head or the counters have wrapped.
WriteHitsReclaimedSlot == ppc = "write" => slots[Index(tail)] = Uninit

\* The SAFETY comment of pop_impl: the slot that is about to be moved out is
\* initialized, so assume_init_read never reads an uninitialized slot.
ReadHitsInitializedSlot == cpc = "read" => slots[Index(head)] # Uninit

\* No data race on a slot: while the consumer is between its capacity check
\* and the Release store of head, the producer works on another slot.
EndpointsUseDistinctSlots ==
  ppc \in {"write", "publish"} /\ cpc \in {"read", "reclaim"}
    => Index(tail) # Index(head)

\* The three together: every slot access of push_impl and pop_impl is the only
\* one to its slot, and finds it in the state its SAFETY comment claims.
SlotAccessIsSafe ==
  WriteHitsReclaimedSlot /\ ReadHitsInitializedSlot /\ EndpointsUseDistinctSlots

\* The comment of Drop, "exactly the published half-open range [head, tail) is
\* initialized", at every moment the owner could take exclusive access.
ExactlyPublishedInitialized ==
  Exclusive => \A i \in 0 .. N - 1 :
    slots[i] # Uninit <=> \E k \in 0 .. Occupied - 1 : i = Index(Add(head, k))

\* Once the owner has dropped or drained the queue no value is left behind.
NothingLeaked == phase = "gone" => \A i \in 0 .. N - 1 : slots[i] = Uninit

\* The contract of has_capacity: "A true result remains valid until this
\* producer publishes a value", whatever the consumer does in between.
GrantedCapacityHolds ==
  phase = "split" /\ granted /\ ppc = "idle" => Sub(tail, cached_head) # N

\* The caches lag behind the positions and never by more than the ring: the
\* producer has head within N of its tail, the consumer has tail between the
\* true positions, and an endpoint that passed its check keeps what it saw.
CachesLagPositions ==
  phase = "split" =>
    /\ Sub(head, cached_head) + Occupied <= N
    /\ granted \/ ppc # "idle" => Sub(head, cached_head) + Occupied < N
    /\ Sub(cached_tail, head) <= Occupied
    /\ cpc # "idle" => cached_tail # head

\* The k-th position from head holds a value: it is published and not being
\* moved out, or it has been written and is about to be published.
Live(k) == \/ k < Occupied /\ ~(k = 0 /\ cpc = "reclaim")
           \/ k = Occupied /\ ppc = "publish"

\* A slot is initialized exactly when its position is live.
SlotsMatchPositions ==
  phase = "split" =>
    \A k \in 0 .. N - 1 : slots[Index(Add(head, k))] # Uninit <=> Live(k)

\* What the producer wrote is still in the slot when it publishes the slot.
WrittenIsKept == ppc = "publish" => slots[Index(tail)] = pval

\* A push in flight carries a value, and nobody works on a queue that is gone.
EndpointsTyped ==
  /\ ppc # "idle" => pval \in Values
  /\ phase = "gone" => ppc = "idle" /\ cpc = "idle"

\* The inductive invariant behind the properties above: what the capacity
\* check of push_impl and the emptiness check of pop_impl rely on together.
IInv ==
  /\ TypeOK
  /\ EndpointsTyped
  /\ CachesLagPositions
  /\ SlotsMatchPositions
  /\ WrittenIsKept
  /\ NothingLeaked

\* The k-th value both callers see; one that is being moved out still counts
\* until its slot is released.
Element(k) ==
  IF k = 1 /\ cpc = "reclaim" THEN cval ELSE slots[Index(Add(head, k - 1))]

Queue == IF phase = "split" THEN [k \in 1 .. Occupied |-> Element(k)] ELSE <<>>

Fifo == INSTANCE BoundedFifo WITH queue <- Queue, open <- (phase = "split")

\* The ring implements a bounded FIFO: nothing is lost, duplicated, reordered
\* or invented between try_push, try_pop and into_inner.
ImplementsFifo == Fifo!FifoSpec

\* With a polling consumer no published value is left in the ring for ever.
PublishedIsConsumed ==
  \A p \in Position : (phase = "split" /\ head = p /\ tail # p) ~> (head # p \/ phase = "gone")
=============================================================================
