----------------------------- MODULE SpscProofs -----------------------------
(***************************************************************************)
(* Proofs about hft-spsc for every capacity N, every number of laps before *)
(* a usize counter wraps, and every set of values.                         *)
(*                                                                         *)
(* The inductive invariant IInv relates the two positions, the two caches  *)
(* and the slots.  Distances are wrapping differences; the arithmetic is   *)
(* linear once the facts about the slot of a position are lemmas.          *)
(***************************************************************************)
EXTENDS Spsc, SequenceTheorems, TLAPS

USE CapacityAssumption, ValueAssumption

-----------------------------------------------------------------------------
(* The slot of a position.                                                 *)

\* usize has room for at least two laps of the ring.
LEMMA ModulusFact == Modulus \in Nat /\ 2 * N <= Modulus
<1>1. PICK m \in Nat : Laps = m + 2
  BY SMT
<1>2. m * N \in Nat
  BY SMT
<1>3. N * Laps = m * N + 2 * N
  BY <1>1, SMT
<1> QED BY <1>2, <1>3, SMT DEF Modulus

\* The only multiple of N strictly between -N and N is zero.
LEMMA SmallMultiple ==
  ASSUME NEW q \in Int, N * q < N, -N < N * q
  PROVE  q = 0
<1>1. CASE q >= 1
  <2>1. PICK m \in Nat : q = m + 1
    BY <1>1, SMT
  <2>2. N * q = N * m + N /\ N * m >= 0
    BY <2>1, SMT
  <2> QED BY <2>2, SMT
<1>2. CASE q <= -1
  <2>1. PICK m \in Nat : q = -m - 1
    BY <1>2, SMT
  <2>2. N * q = -(N * m) - N /\ N * m >= 0
    BY <2>1, SMT
  <2> QED BY <2>2, SMT
<1> QED BY <1>1, <1>2, SMT

\* A position is a whole number of laps plus its slot.
LEMMA IndexDivision ==
  ASSUME NEW p \in Nat
  PROVE  /\ Index(p) \in 0 .. N - 1
         /\ \E q \in Nat : p = N * q + Index(p)
<1>1. p % N \in 0 .. N - 1 /\ p \div N \in Nat /\ p = N * (p \div N) + (p % N)
  <2>1. p % N \in 0 .. N - 1
    BY SMT
  <2>2. p \div N \in Int /\ p = N * (p \div N) + (p % N)
    BY SMT
  <2>3. p \div N >= 0
    <3> SUFFICES ASSUME p \div N <= -1 PROVE FALSE
      BY <2>2, SMT
    <3>1. PICK m \in Nat : p \div N = -m - 1
      BY <2>2, SMT
    <3>2. N * (p \div N) = -(N * m) - N /\ N * m \in Nat
      BY <3>1, SMT
    <3> QED BY <2>1, <2>2, <3>2, SMT
  <2> QED BY <2>1, <2>2, <2>3, SMT
<1>2. Index(p) = p % N
  BY DEF Index
<1>3. \E q \in Nat : p = N * q + Index(p)
  <2> WITNESS p \div N \in Nat
  <2> QED BY <1>1, <1>2
<1> QED BY <1>1, <1>2, <1>3, Zenon

\* The slot of a position is determined by that equation.
LEMMA IndexUnique ==
  ASSUME NEW q \in Nat, NEW r \in 0 .. N - 1
  PROVE  Index(N * q + r) = r
<1> DEFINE p == N * q + r
<1>1. p \in Nat
  BY SMT
<1>2. Index(p) \in 0 .. N - 1
  BY <1>1, IndexDivision
<1>3. PICK s \in Nat : p = N * s + Index(p)
  BY <1>1, IndexDivision, Zenon
<1>4. N * (q - s) = N * q - N * s
  BY SMT
<1>5. N * (q - s) = Index(p) - r
  BY <1>2, <1>3, <1>4, SMT
<1>6. q - s = 0
  BY <1>2, <1>5, SmallMultiple, SMT
<1> QED BY <1>2, <1>5, <1>6, SMT

\* Stepping over a whole lap, and over the end of usize, keeps the slot.
LEMMA IndexOffset ==
  ASSUME NEW p \in Position, NEW k \in 0 .. N
  PROVE  /\ Add(p, k) \in Position
         /\ Index(Add(p, k)) = Index(p + k)
<1>1. Add(p, k) \in Position
  BY ModulusFact, SMT DEF Add, Position
<1>2. CASE p + k < Modulus
  BY <1>1, <1>2 DEF Add
<1>3. CASE p + k >= Modulus
  <2>1. p + k \in Nat /\ Add(p, k) = p + k - Modulus /\ Add(p, k) \in Nat
    BY <1>1, <1>3, ModulusFact, SMT DEF Add, Position
  <2>2. PICK q \in Nat : Add(p, k) = N * q + Index(Add(p, k))
    BY <2>1, IndexDivision, Zenon
  <2>3. Index(Add(p, k)) \in 0 .. N - 1
    BY <2>1, IndexDivision
  <2>4. N * (q + Laps) = N * q + N * Laps /\ q + Laps \in Nat
    BY SMT
  <2>5. N * q \in Int /\ N * Laps \in Int /\ Modulus = N * Laps
    BY SMT DEF Modulus
  <2>6. p + k = N * (q + Laps) + Index(Add(p, k))
    <3> DEFINE x == N * q  y == N * Laps  z == Index(Add(p, k))
    <3>1. x \in Int /\ y \in Int /\ z \in Int /\ p \in Int /\ k \in Int
      BY <2>3, <2>5, ModulusFact, SMT DEF Position
    <3>2. p + k - y = x + z
      BY <2>1, <2>2, <2>5
    <3> HIDE DEF x, y, z
    <3>3. p + k = (x + y) + z
      BY <3>1, <3>2, SMT
    <3> USE DEF x, y, z
    <3> QED BY <2>4, <3>3
  <2>7. Index(N * (q + Laps) + Index(Add(p, k))) = Index(Add(p, k))
    BY <2>3, <2>4, IndexUnique, Zenon
  <2> QED BY <1>1, <2>6, <2>7
<1> QED BY <1>1, <1>2, <1>3, ModulusFact, SMT DEF Position

\* Fewer than N apart, two positions never share a slot.
LEMMA IndexInjective ==
  ASSUME NEW p \in Position, NEW j \in 0 .. N - 1, NEW k \in 0 .. N - 1,
         Index(Add(p, j)) = Index(Add(p, k))
  PROVE  j = k
<1>1. p + j \in Nat /\ p + k \in Nat
  BY ModulusFact, SMT DEF Position
<1>2. Index(p + j) = Index(p + k)
  BY IndexOffset, ModulusFact, SMT
<1>3. PICK a \in Nat : p + j = N * a + Index(p + j)
  BY <1>1, IndexDivision, Zenon
<1>4. PICK b \in Nat : p + k = N * b + Index(p + k)
  BY <1>1, IndexDivision, Zenon
<1>5. N * (a - b) = N * a - N * b /\ N * a \in Int /\ N * b \in Int
  BY SMT
<1>6. Index(p + j) \in 0 .. N - 1
  BY <1>1, IndexDivision
<1>7. N * (a - b) = j - k
  BY <1>1, <1>2, <1>3, <1>4, <1>5, <1>6, ModulusFact, SMT DEF Position
<1>8. a - b = 0
  BY <1>7, SmallMultiple, SMT
<1> QED BY <1>7, <1>8, SMT

\* Exactly N apart they do.
LEMMA IndexLap ==
  ASSUME NEW p \in Position
  PROVE  Index(Add(p, N)) = Index(Add(p, 0))
<1>1. p \in Nat /\ Add(p, 0) = p
  BY ModulusFact, SMT DEF Position, Add
<1>2. PICK q \in Nat : p = N * q + Index(p)
  BY <1>1, IndexDivision, Zenon
<1>3. Index(p) \in 0 .. N - 1
  BY <1>1, IndexDivision
<1>4. p + N = N * (q + 1) + Index(p)
  BY <1>1, <1>2, <1>3, SMT
<1>5. Index(N * (q + 1) + Index(p)) = Index(p)
  <2>1. q + 1 \in Nat
    BY SMT
  <2> QED BY <1>3, <2>1, IndexUnique, Zenon
<1>6. Index(p + N) = Index(p)
  BY <1>4, <1>5
<1> QED BY <1>1, <1>6, IndexOffset, SMT

\* Every slot is the slot of one of the N positions from p on.
LEMMA IndexSurjective ==
  ASSUME NEW p \in Position, NEW i \in 0 .. N - 1
  PROVE  \E k \in 0 .. N - 1 : i = Index(Add(p, k))
<1>1. p \in Nat
  BY ModulusFact, SMT DEF Position
<1>2. PICK q \in Nat : p = N * q + Index(p)
  BY <1>1, IndexDivision, Zenon
<1>3. Index(p) \in 0 .. N - 1
  BY <1>1, IndexDivision
<1>4. CASE i >= Index(p)
  <2>1. PICK k \in 0 .. N - 1 : k = i - Index(p)
    BY <1>3, <1>4, SMT
  <2>2. p + k = N * q + i
    BY <1>1, <1>2, <1>3, <2>1, SMT
  <2>3. Index(p + k) = i
    BY <2>2, IndexUnique
  <2>4. Index(Add(p, k)) = i
    BY <2>3, IndexOffset, SMT
  <2> QED BY <2>4
<1>5. CASE i < Index(p)
  <2>1. PICK k \in 0 .. N - 1 : k = i - Index(p) + N
    BY <1>3, <1>5, SMT
  <2>2. p + k = N * (q + 1) + i /\ q + 1 \in Nat
    BY <1>1, <1>2, <1>3, <2>1, SMT
  <2>3. Index(p + k) = i
    BY <2>2, IndexUnique, Zenon
  <2>4. Index(Add(p, k)) = i
    BY <2>3, IndexOffset, SMT
  <2> QED BY <2>4
<1> QED BY <1>3, <1>4, <1>5, SMT

-----------------------------------------------------------------------------
(* The inductive invariant.                                                *)

\* Slots stay in range, so that updating one is well typed.
LEMMA IndexTyped ==
  ASSUME NEW p \in Position
  PROVE  Index(p) \in 0 .. N - 1 /\ Add(p, 0) = p
<1>1. p \in Nat /\ Add(p, 0) = p
  BY ModulusFact, SMT DEF Position, Add
<1> QED BY <1>1, IndexDivision

\* The slot of a position is one of the ring.
LEMMA SlotTyped ==
  ASSUME NEW p \in Position, NEW k \in 0 .. N
  PROVE  Index(Add(p, k)) \in 0 .. N - 1
<1>1. Add(p, k) \in Position
  BY IndexOffset
<1> QED BY <1>1, IndexTyped

\* Walking Occupied positions from head leads to tail.
LEMMA TailFromHead ==
  ASSUME TypeOK
  PROVE  Occupied \in Nat /\ Add(head, Occupied) = tail
BY ModulusFact, SMT DEF TypeOK, Position, Occupied, Sub, Add

\* A queue that try_new made and split satisfies the invariant.
LEMMA InitIInv == Init => IInv
<1> SUFFICES ASSUME Init PROVE IInv
  OBVIOUS
<1>1. TypeOK
  <2>1. 0 \in Position
    BY ModulusFact, SMT DEF Position
  <2>2. slots \in [0 .. N - 1 -> Values \cup {Uninit}]
    BY DEF Init
  <2>3. drained \in Seq(Values \cup {Uninit})
    BY SMT DEF Init
  <2> QED BY <2>1, <2>2, <2>3, Zenon DEF Init, TypeOK
<1>2. Occupied = 0
  BY DEF Init, Occupied, Sub
<1>3. EndpointsTyped /\ WrittenIsKept /\ NothingLeaked
  BY DEF Init, EndpointsTyped, WrittenIsKept, NothingLeaked
<1>4. CachesLagPositions
  BY <1>2, SMT DEF Init, CachesLagPositions, Sub
<1>5. SlotsMatchPositions
  <2> SUFFICES ASSUME NEW k \in 0 .. N - 1
               PROVE  slots[Index(Add(head, k))] # Uninit <=> Live(k)
    BY DEF SlotsMatchPositions
  <2>1. Index(Add(head, k)) \in 0 .. N - 1
    <3>1. head \in Position /\ k \in 0 .. N
      BY <1>1, SMT DEF TypeOK
    <3> QED BY <3>1, SlotTyped
  <2>2. ~ Live(k)
    BY <1>2, SMT DEF Init, Live
  <2> QED BY <2>1, <2>2 DEF Init
<1> QED BY <1>1, <1>3, <1>4, <1>5 DEF IInv

\* A refreshed cache of the producer: it moved towards head, or stayed.
LEMMA RefreshHeadFact ==
  ASSUME TypeOK, RefreshHead, phase = "split", CachesLagPositions
  PROVE  /\ cached_head' \in Position
         /\ Sub(head, cached_head') <= Sub(head, cached_head)
         /\ Sub(tail, cached_head') = Sub(head, cached_head') + Occupied
<1>1. CASE Sub(tail, cached_head) = N
  <2>1. PICK k \in 0 .. Sub(head, cached_head) : cached_head' = Add(cached_head, k)
    BY <1>1 DEF RefreshHead, Visible
  <2> QED BY <2>1, ModulusFact, SMT
          DEF TypeOK, CachesLagPositions, Position, Occupied, Sub, Add
<1>2. CASE Sub(tail, cached_head) # N
  <2>1. cached_head' = cached_head
    BY <1>2 DEF RefreshHead
  <2> QED BY <2>1, ModulusFact, SMT
          DEF TypeOK, CachesLagPositions, Position, Occupied, Sub
<1> QED BY <1>1, <1>2

\* A refreshed cache of the consumer: it moved towards tail, or stayed.
LEMMA RefreshTailFact ==
  ASSUME TypeOK, RefreshTail, phase = "split", CachesLagPositions
  PROVE  /\ cached_tail' \in Position
         /\ Sub(cached_tail', head) <= Occupied
<1>1. CASE head = cached_tail
  <2>1. PICK k \in 0 .. Sub(tail, cached_tail) : cached_tail' = Add(cached_tail, k)
    BY <1>1 DEF RefreshTail, Visible
  <2> QED BY <1>1, <2>1, ModulusFact, SMT
          DEF TypeOK, CachesLagPositions, Position, Occupied, Sub, Add
<1>2. CASE head # cached_tail
  <2>1. cached_tail' = cached_tail
    BY <1>2 DEF RefreshTail
  <2> QED BY <2>1 DEF TypeOK, CachesLagPositions
<1> QED BY <1>1, <1>2

\* The producer's steps keep the invariant.
LEMMA PushCheckStep ==
  ASSUME IInv, NEW v \in Values, PushCheck(v)
  PROVE  IInv'
<1> USE DEF IInv
<1>1. TypeOK'
  BY RefreshHeadFact DEF PushCheck, TypeOK, consumerVars
<1>2. EndpointsTyped'
  BY DEF PushCheck, EndpointsTyped, consumerVars
<1>3. Occupied' = Occupied
  BY DEF PushCheck, Occupied, Sub
<1>4. CachesLagPositions'
  <2>1. cached_tail' = cached_tail /\ cpc' = cpc /\ head' = head /\ granted' = granted
    BY DEF PushCheck, consumerVars
  <2>2. ppc' = "idle" \/ Sub(tail, cached_head') # N
    BY DEF PushCheck
  <2>3. ppc = "idle" /\ phase = "split" /\ RefreshHead
    BY DEF PushCheck
  <2>4. Sub(head, cached_head') \in Int /\ Sub(head, cached_head) \in Int /\ Occupied \in Int
    BY <2>3, RefreshHeadFact, ModulusFact, SMT DEF TypeOK, Position, Sub, Occupied
  <2>5. Sub(head, cached_head)' = Sub(head, cached_head')
    BY <2>1 DEF Sub
  <2>6. Sub(cached_tail, head)' = Sub(cached_tail, head)
    BY <2>1 DEF Sub
  <2> QED BY <1>3, <2>1, <2>2, <2>3, <2>4, <2>5, <2>6, RefreshHeadFact, SMT
          DEF CachesLagPositions
<1>5. SlotsMatchPositions'
  <2>1. \A k \in 0 .. N - 1 : Live(k)' <=> Live(k)
    BY <1>3 DEF PushCheck, Live, consumerVars
  <2>2. head' = head /\ slots' = slots /\ phase' = phase
    BY DEF PushCheck
  <2> QED BY <2>1, <2>2 DEF SlotsMatchPositions, Index, Add
<1>6. WrittenIsKept'
  BY DEF PushCheck, WrittenIsKept, Index
<1>7. NothingLeaked'
  BY DEF PushCheck, NothingLeaked
<1> QED BY <1>1, <1>2, <1>4, <1>5, <1>6, <1>7

\* slots[index].write makes the slot at the tail live and touches no other.
LEMMA PushWriteStep ==
  ASSUME IInv, PushWrite
  PROVE  IInv'
<1> USE DEF IInv
<1>1. phase = "split" /\ phase' = phase /\ ppc = "write" /\ ppc' = "publish"
  BY DEF PushWrite, EndpointsTyped, TypeOK
<1>2. Index(tail) \in 0 .. N - 1
  BY IndexTyped DEF TypeOK
<1>3. TypeOK'
  BY <1>1, <1>2 DEF PushWrite, TypeOK, EndpointsTyped, consumerVars
<1>4. EndpointsTyped'
  BY <1>1 DEF EndpointsTyped, PushWrite
<1>5. Occupied' = Occupied
  BY DEF PushWrite, Occupied, Sub
<1>6. CachesLagPositions'
  BY <1>1, <1>5 DEF PushWrite, CachesLagPositions, consumerVars, Sub
<1>7. SlotsMatchPositions'
  <2> SUFFICES ASSUME NEW k \in 0 .. N - 1
               PROVE  slots'[Index(Add(head, k))] # Uninit <=> Live(k)'
    BY DEF SlotsMatchPositions, PushWrite, Index, Add
  <2>1. Occupied \in 0 .. N - 1 /\ Add(head, Occupied) = tail /\ head \in Position
    BY <1>1, TailFromHead, ModulusFact, SMT
       DEF CachesLagPositions, TypeOK, Position, Sub, Occupied
  <2>2. slots' = [slots EXCEPT ![Index(tail)] = pval] /\ cpc' = cpc
    BY DEF PushWrite, consumerVars
  <2>3. CASE k = Occupied
    <3>1. slots'[Index(Add(head, k))] = pval
      BY <1>2, <2>1, <2>2, <2>3 DEF TypeOK
    <3>2. pval # Uninit
      BY <1>1 DEF EndpointsTyped
    <3> QED BY <1>1, <1>5, <2>3, <3>1, <3>2 DEF Live
  <2>4. CASE k # Occupied
    <3>1. Index(Add(head, k)) # Index(tail)
      BY <2>1, <2>4, IndexInjective
    <3>2. Index(Add(head, k)) \in 0 .. N - 1
      BY <2>1, SlotTyped, SMT
    <3>3. slots'[Index(Add(head, k))] = slots[Index(Add(head, k))]
      BY <1>2, <2>2, <3>1, <3>2 DEF TypeOK
    <3>4. Live(k)' <=> Live(k)
      BY <1>1, <1>5, <2>2, <2>4 DEF Live
    <3> QED BY <1>1, <3>3, <3>4 DEF SlotsMatchPositions
  <2> QED BY <2>3, <2>4
<1>8. WrittenIsKept'
  BY <1>2 DEF PushWrite, WrittenIsKept, TypeOK, Index
<1>9. NothingLeaked'
  BY <1>1 DEF NothingLeaked
<1> QED BY <1>3, <1>4, <1>6, <1>7, <1>8, <1>9

\* The Release store of tail takes the written slot into the published range.
LEMMA PushPublishStep ==
  ASSUME IInv, PushPublish
  PROVE  IInv'
<1> USE DEF IInv
<1>1. phase = "split" /\ phase' = phase /\ ppc = "publish" /\ ppc' = "idle"
  BY DEF PushPublish, EndpointsTyped, TypeOK
<1>2. tail' = Add(tail, 1) /\ tail' \in Position
  BY IndexOffset, SMT DEF PushPublish, TypeOK
<1>3. TypeOK'
  BY <1>1, <1>2, Zenon DEF PushPublish, TypeOK, consumerVars
<1>4. EndpointsTyped'
  BY <1>1 DEF EndpointsTyped
<1>5. head' = head /\ cached_head' = cached_head /\ cached_tail' = cached_tail
      /\ cpc' = cpc /\ slots' = slots /\ granted' = FALSE
  BY DEF PushPublish, consumerVars
<1>6. Occupied \in 0 .. N - 1 /\ Occupied' = Occupied + 1
  BY <1>1, <1>2, <1>5, ModulusFact, SMT
     DEF CachesLagPositions, TypeOK, Position, Sub, Add, Occupied
<1>7. CachesLagPositions'
  BY <1>1, <1>5, <1>6, ModulusFact, SMT DEF CachesLagPositions, TypeOK, Position, Sub
<1>8. SlotsMatchPositions'
  <2>1. cpc # "idle" => Occupied # 0
    BY <1>1, ModulusFact, SMT DEF CachesLagPositions, TypeOK, Position, Sub, Occupied
  <2>2. \A k \in 0 .. N - 1 : Live(k)' <=> Live(k)
    BY <1>1, <1>5, <1>6, <2>1, SMT DEF Live
  <2> QED BY <1>1, <1>5, <2>2 DEF SlotsMatchPositions, Index, Add
<1>9. WrittenIsKept' /\ NothingLeaked'
  BY <1>1 DEF WrittenIsKept, NothingLeaked
<1> QED BY <1>3, <1>4, <1>7, <1>8, <1>9

\* has_capacity keeps the invariant.
LEMMA HasCapacityStep ==
  ASSUME IInv, HasCapacity
  PROVE  IInv'
<1> USE DEF IInv
<1>1. TypeOK'
  BY RefreshHeadFact DEF HasCapacity, TypeOK, consumerVars
<1>2. EndpointsTyped'
  BY DEF HasCapacity, EndpointsTyped, consumerVars
<1>3. Occupied' = Occupied
  BY DEF HasCapacity, Occupied, Sub
<1>4. CachesLagPositions'
  <2>1. /\ cached_tail' = cached_tail /\ cpc' = cpc /\ head' = head /\ ppc' = ppc
        /\ ppc = "idle" /\ phase = "split" /\ RefreshHead
        /\ granted' = (Sub(tail, cached_head') # N)
    BY DEF HasCapacity, consumerVars
  <2>2. granted' => Sub(tail, cached_head') # N
    BY <2>1, Zenon
  <2>3. Sub(head, cached_head') \in Int /\ Sub(head, cached_head) \in Int /\ Occupied \in Int
    BY <2>1, RefreshHeadFact, ModulusFact, SMT DEF TypeOK, Position, Sub, Occupied
  <2>4. Sub(head, cached_head)' = Sub(head, cached_head')
    BY <2>1 DEF Sub
  <2>5. Sub(cached_tail, head)' = Sub(cached_tail, head)
    BY <2>1 DEF Sub
  <2>6. Sub(head, cached_head') + Occupied <= N
    BY <2>1, <2>3, RefreshHeadFact, SMT DEF CachesLagPositions
  <2>7. granted' => Sub(head, cached_head') + Occupied < N
    BY <2>1, <2>2, <2>3, <2>6, RefreshHeadFact, SMT
  <2> QED BY <1>3, <2>1, <2>4, <2>5, <2>6, <2>7 DEF CachesLagPositions
<1>5. SlotsMatchPositions'
  <2>1. \A k \in 0 .. N - 1 : Live(k)' <=> Live(k)
    BY <1>3 DEF HasCapacity, Live, consumerVars
  <2>2. head' = head /\ slots' = slots /\ phase' = phase
    BY DEF HasCapacity
  <2> QED BY <2>1, <2>2 DEF SlotsMatchPositions, Index, Add
<1>6. WrittenIsKept'
  BY DEF HasCapacity, WrittenIsKept, Index
<1>7. NothingLeaked'
  BY DEF HasCapacity, NothingLeaked
<1> QED BY <1>1, <1>2, <1>4, <1>5, <1>6, <1>7

\* A producer past its check works on a split ring that has room.
LEMMA WriterHasRoom ==
  ASSUME IInv, ppc # "idle"
  PROVE  phase = "split" /\ Occupied \in 0 .. N - 1 /\ Add(head, Occupied) = tail
<1>1. phase = "split"
  BY DEF IInv, EndpointsTyped, TypeOK
<1> QED BY <1>1, TailFromHead, ModulusFact, SMT
        DEF IInv, CachesLagPositions, TypeOK, Position, Sub, Occupied

\* The consumer's emptiness check keeps the invariant.
LEMMA PopCheckStep ==
  ASSUME IInv, PopCheck
  PROVE  IInv'
<1> USE DEF IInv
<1>1. TypeOK'
  BY RefreshTailFact DEF PopCheck, TypeOK, producerVars
<1>2. EndpointsTyped'
  BY DEF PopCheck, EndpointsTyped, producerVars
<1>3. Occupied' = Occupied
  BY DEF PopCheck, Occupied, Sub
<1>4. CachesLagPositions'
  BY <1>3, RefreshTailFact DEF PopCheck, CachesLagPositions, producerVars, Sub
<1>5. SlotsMatchPositions'
  <2>1. \A k \in 0 .. N - 1 : Live(k)' <=> Live(k)
    BY <1>3 DEF PopCheck, Live, producerVars
  <2>2. head' = head /\ slots' = slots /\ phase' = phase
    BY DEF PopCheck
  <2> QED BY <2>1, <2>2 DEF SlotsMatchPositions, Index, Add
<1>6. WrittenIsKept'
  BY DEF PopCheck, WrittenIsKept, Index, producerVars
<1>7. NothingLeaked'
  BY DEF PopCheck, NothingLeaked
<1> QED BY <1>1, <1>2, <1>4, <1>5, <1>6, <1>7

\* A consumer past its check has at least one published value before it.
LEMMA ReaderHasValue ==
  ASSUME TypeOK, CachesLagPositions, phase = "split", cpc # "idle"
  PROVE  Occupied \in 1 .. N
BY ModulusFact, SMT DEF CachesLagPositions, TypeOK, Position, Sub, Occupied

\* Moving the oldest value out of its slot keeps the invariant.
LEMMA PopReadStep ==
  ASSUME IInv, PopRead
  PROVE  IInv'
<1> USE DEF IInv
<1>1. phase = "split" /\ phase' = phase /\ cpc = "read" /\ cpc' = "reclaim"
  BY DEF PopRead, EndpointsTyped, TypeOK
<1>2. Index(head) \in 0 .. N - 1 /\ head \in Position /\ Add(head, 0) = head
  BY IndexTyped DEF TypeOK
<1>3. TypeOK'
  BY <1>1, <1>2 DEF PopRead, TypeOK, producerVars
<1>4. EndpointsTyped'
  BY <1>1 DEF EndpointsTyped, PopRead, producerVars
<1>5. Occupied' = Occupied
  BY DEF PopRead, Occupied, Sub
<1>6. CachesLagPositions'
  BY <1>1, <1>5 DEF PopRead, CachesLagPositions, producerVars, Sub
<1>7. SlotsMatchPositions'
  <2> SUFFICES ASSUME NEW k \in 0 .. N - 1
               PROVE  slots'[Index(Add(head, k))] # Uninit <=> Live(k)'
    BY DEF SlotsMatchPositions, PopRead, Index, Add
  <2>1. Occupied \in 1 .. N
    BY <1>1, ReaderHasValue
  <2>2. slots' = [slots EXCEPT ![Index(head)] = Uninit] /\ ppc' = ppc
    BY DEF PopRead, producerVars
  <2>3. CASE k = 0
    <3>1. slots'[Index(Add(head, k))] = Uninit
      BY <1>2, <2>2, <2>3 DEF TypeOK
    <3>2. ~ Live(k)'
      BY <1>1, <1>5, <2>1, <2>3, SMT DEF Live
    <3> QED BY <3>1, <3>2
  <2>4. CASE k # 0
    <3>1. Index(Add(head, k)) # Index(Add(head, 0))
      <4>1. 0 \in 0 .. N - 1
        BY SMT
      <4> QED BY <1>2, <2>4, <4>1, IndexInjective
    <3>2. Index(Add(head, k)) \in 0 .. N - 1
      BY <1>2, SlotTyped, SMT
    <3>3. slots'[Index(Add(head, k))] = slots[Index(Add(head, k))]
      BY <1>2, <2>2, <3>1, <3>2 DEF TypeOK
    <3>4. Live(k)' <=> Live(k)
      BY <1>1, <1>5, <2>2, <2>4 DEF Live
    <3> QED BY <1>1, <3>3, <3>4 DEF SlotsMatchPositions
  <2> QED BY <2>3, <2>4
<1>8. WrittenIsKept'
  <2> SUFFICES ASSUME ppc = "publish" PROVE slots'[Index(tail)] = pval
    BY DEF PopRead, WrittenIsKept, producerVars, Index
  <2>1. Occupied \in 0 .. N - 1 /\ Add(head, Occupied) = tail
    BY WriterHasRoom
  <2>2. Occupied # 0 /\ 0 \in 0 .. N - 1
    BY <1>1, <2>1, ReaderHasValue, SMT
  <2>3. Index(tail) # Index(head)
    BY <1>2, <2>1, <2>2, IndexInjective
  <2>4. Index(tail) \in 0 .. N - 1
    BY IndexTyped DEF TypeOK
  <2> QED BY <2>3, <2>4 DEF PopRead, WrittenIsKept, TypeOK
<1>9. NothingLeaked'
  BY <1>1 DEF NothingLeaked
<1> QED BY <1>3, <1>4, <1>6, <1>7, <1>8, <1>9

\* Releasing the slot to the producer keeps the invariant: positions are
\* counted from the new head, and the freed slot becomes the last of them.
LEMMA PopReclaimStep ==
  ASSUME IInv, PopReclaim
  PROVE  IInv'
<1> USE DEF IInv
<1>1. phase = "split" /\ phase' = phase /\ cpc = "reclaim" /\ cpc' = "idle"
  BY DEF PopReclaim, EndpointsTyped, TypeOK
<1>2. head' = Add(head, 1) /\ head' \in Position /\ head \in Position
  BY IndexOffset, SMT DEF PopReclaim, TypeOK
<1>3. TypeOK'
  BY <1>1, <1>2 DEF PopReclaim, TypeOK, producerVars
<1>4. EndpointsTyped'
  BY <1>1 DEF EndpointsTyped, PopReclaim, producerVars
<1>5. tail' = tail /\ cached_head' = cached_head /\ cached_tail' = cached_tail
      /\ ppc' = ppc /\ slots' = slots /\ granted' = granted
  BY DEF PopReclaim, producerVars
<1>6. Occupied \in 1 .. N /\ Occupied' = Occupied - 1
  <2>1. Occupied \in 1 .. N
    BY SMTT(30), <1>1, ReaderHasValue
  <2> QED BY <1>2, <1>5, <2>1, ModulusFact, SMT DEF TypeOK, Position, Sub, Add, Occupied
<1>7. CachesLagPositions'
  BY <1>1, <1>2, <1>5, <1>6, ModulusFact, SMT
     DEF CachesLagPositions, TypeOK, Position, Sub, Add, Occupied
<1>8. SlotsMatchPositions'
  <2> SUFFICES ASSUME NEW k \in 0 .. N - 1
               PROVE  slots[Index(Add(head', k))] # Uninit <=> Live(k)'
    BY <1>5 DEF SlotsMatchPositions, Index, Add
  <2>1. Add(head', k) = Add(head, k + 1)
    BY <1>2, ModulusFact, SMT DEF Add, Position
  <2>2. CASE k # N - 1
    <3>1. k + 1 \in 0 .. N - 1
      BY <2>2, SMT
    <3>2. Live(k)' <=> Live(k + 1)
      BY <1>1, <1>5, <1>6, SMT DEF Live
    <3> QED BY <1>1, <2>1, <3>1, <3>2 DEF SlotsMatchPositions
  <2>3. CASE k = N - 1
    <3>1. Index(Add(head', k)) = Index(Add(head, 0))
      BY <1>2, <2>1, <2>3, IndexLap, SMT
    <3>2. ~ Live(0) /\ 0 \in 0 .. N - 1
      BY <1>1, <1>6, SMT DEF Live
    <3>3. ~ Live(k)'
      <4>1. ppc = "publish" => Occupied < N
        BY <1>1, <1>6, ModulusFact, SMT DEF CachesLagPositions, TypeOK, Position, Sub, Occupied
      <4> QED BY <1>1, <1>5, <1>6, <2>3, <4>1, SMT DEF Live
    <3> QED BY <1>1, <3>1, <3>2, <3>3 DEF SlotsMatchPositions
  <2> QED BY <2>2, <2>3
<1>9. WrittenIsKept' /\ NothingLeaked'
  BY <1>1 DEF PopReclaim, producerVars, WrittenIsKept, NothingLeaked, Index
<1> QED BY <1>3, <1>4, <1>7, <1>8, <1>9

\* Owner paths: splitting again, into_inner and Drop.
LEMMA OwnerStep ==
  ASSUME IInv, Owner
  PROVE  IInv'
<1> USE DEF IInv
<1>1. Exclusive
  BY DEF Owner, Split, IntoInner, Drop
<1>2. phase = "split" /\ ppc = "idle" /\ cpc = "idle" /\ head \in Position /\ tail \in Position
  BY <1>1 DEF Exclusive, TypeOK
<1>3. CASE Split
  <2>1. Occupied' = Occupied
    BY <1>3 DEF Split, Occupied, Sub
  <2>2. Occupied \in 0 .. N
    BY <1>2, ModulusFact, SMT DEF CachesLagPositions, TypeOK, Position, Sub, Occupied
  <2>3. TypeOK' /\ EndpointsTyped' /\ WrittenIsKept' /\ NothingLeaked'
    BY <1>2, <1>3, Zenon DEF Split, TypeOK, EndpointsTyped, WrittenIsKept, NothingLeaked
  <2>4. CachesLagPositions'
    <3>1. /\ head' = head /\ tail' = tail /\ cached_head' = head /\ cached_tail' = tail
          /\ granted' = FALSE /\ ppc' = "idle" /\ cpc' = "idle"
      BY <1>2, <1>3 DEF Split
    <3> QED BY <1>2, <2>1, <2>2, <3>1, ModulusFact, SMT
            DEF CachesLagPositions, Position, Sub, Occupied
  <2>5. SlotsMatchPositions'
    <3>1. \A k \in 0 .. N - 1 : Live(k)' <=> Live(k)
      BY <1>3, <2>1 DEF Split, Live
    <3> QED BY <1>3, <3>1 DEF Split, SlotsMatchPositions, Index, Add
  <2> QED BY <2>3, <2>4, <2>5
<1>4. ASSUME slots' = Emptied
      PROVE  /\ slots' \in [0 .. N - 1 -> Values \cup {Uninit}]
             /\ \A i \in 0 .. N - 1 : slots'[i] = Uninit
  <2>1. slots' \in [0 .. N - 1 -> Values \cup {Uninit}]
    BY <1>4 DEF Emptied, TypeOK
  <2>2. ASSUME NEW i \in 0 .. N - 1 PROVE slots'[i] = Uninit
    <3>1. PICK k \in 0 .. N - 1 : i = Index(Add(head, k))
      BY <1>2, IndexSurjective
    <3>2. CASE k \in 0 .. Occupied - 1
      BY <1>4, <3>1, <3>2 DEF Emptied
    <3>3. CASE k \notin 0 .. Occupied - 1
      <4>1. Occupied \in Int
        BY <1>2, ModulusFact, SMT DEF Position, Sub, Occupied
      <4>2. ~ Live(k)
        BY <1>2, <3>3, <4>1, SMT DEF Live
      <4>3. slots[i] = Uninit
        BY <1>2, <3>1, <4>2 DEF SlotsMatchPositions
      <4> QED BY <1>4, <4>3 DEF Emptied
    <3> QED BY <3>2, <3>3
  <2> QED BY <2>1, <2>2
<1>5. CASE IntoInner
  <2>1. phase' = "gone" /\ slots' = Emptied
    BY <1>5 DEF IntoInner
  <2>2. drained' \in Seq(Values \cup {Uninit})
    <3>1. Occupied \in 0 .. N
      BY <1>2, ModulusFact, SMT DEF CachesLagPositions, TypeOK, Position, Sub, Occupied
    <3>2. \A k \in 1 .. Occupied : slots[Index(Add(head, k - 1))] \in Values \cup {Uninit}
      <4> SUFFICES ASSUME NEW k \in 1 .. Occupied
                   PROVE  slots[Index(Add(head, k - 1))] \in Values \cup {Uninit}
        OBVIOUS
      <4>1. k - 1 \in 0 .. N
        BY <3>1, SMT
      <4>2. Index(Add(head, k - 1)) \in 0 .. N - 1
        BY <1>2, <4>1, SlotTyped
      <4> QED BY <4>2 DEF TypeOK
    <3>3. Published \in [1 .. Occupied -> Values \cup {Uninit}] /\ Occupied \in Nat
      BY <3>1, <3>2, SMT DEF Published
    <3>4. Published \in Seq(Values \cup {Uninit})
      BY <3>3, SMT
    <3> QED BY <1>5, <3>4 DEF IntoInner
  <2>3. TypeOK'
    BY SMTT(30), <1>2, <1>4, <1>5, <2>1, <2>2 DEF IntoInner, TypeOK, producerVars, consumerVars
  <2>4. EndpointsTyped' /\ CachesLagPositions' /\ SlotsMatchPositions' /\ WrittenIsKept'
    BY <1>2, <1>5, <2>1
       DEF IntoInner, EndpointsTyped, CachesLagPositions, SlotsMatchPositions, WrittenIsKept,
           producerVars, consumerVars
  <2>5. NothingLeaked'
    BY <1>4, <2>1 DEF NothingLeaked
  <2> QED BY <2>3, <2>4, <2>5
<1>6. CASE Drop
  <2>1. phase' = "gone" /\ slots' = Emptied
    BY <1>6 DEF Drop
  <2>2. TypeOK'
    BY SMTT(30), <1>2, <1>4, <1>6, <2>1 DEF Drop, TypeOK, producerVars, consumerVars
  <2>3. EndpointsTyped' /\ CachesLagPositions' /\ SlotsMatchPositions' /\ WrittenIsKept'
    BY SMTT(30), <1>2, <1>6, <2>1
       DEF Drop, EndpointsTyped, CachesLagPositions, SlotsMatchPositions, WrittenIsKept,
           producerVars, consumerVars
  <2>4. NothingLeaked'
    BY <1>4, <2>1 DEF NothingLeaked
  <2> QED BY <2>2, <2>3, <2>4
<1> QED BY <1>3, <1>5, <1>6 DEF Owner

\* A stuttering step keeps the invariant.
LEMMA StutterStep ==
  ASSUME IInv, UNCHANGED vars
  PROVE  IInv'
BY DEF IInv, TypeOK, EndpointsTyped, CachesLagPositions, SlotsMatchPositions,
       WrittenIsKept, NothingLeaked, Live, Occupied, Sub, Add, Index, Position, Modulus,
       vars, producerVars, consumerVars

\* IInv holds in every reachable state of the ring, whatever the capacity, the
\* width of usize and the interleaving of producer, consumer and owner.
THEOREM InductiveInvariant == Spec => []IInv
<1>1. IInv /\ [Next]_vars => IInv'
  <2> SUFFICES ASSUME IInv, [Next]_vars PROVE IInv'
    OBVIOUS
  <2>1. CASE \E v \in Values : PushCheck(v)
    BY <2>1, PushCheckStep
  <2>2. CASE PushWrite
    BY <2>2, PushWriteStep
  <2>3. CASE PushPublish
    BY <2>3, PushPublishStep
  <2>4. CASE HasCapacity
    BY <2>4, HasCapacityStep
  <2>5. CASE PopCheck
    BY <2>5, PopCheckStep
  <2>6. CASE PopRead
    BY <2>6, PopReadStep
  <2>7. CASE PopReclaim
    BY <2>7, PopReclaimStep
  <2>8. CASE Owner
    BY <2>8, OwnerStep
  <2>9. CASE UNCHANGED vars
    BY <2>9, StutterStep
  <2> QED BY <2>1, <2>2, <2>3, <2>4, <2>5, <2>6, <2>7, <2>8, <2>9
          DEF Next, Producer, Consumer
<1> QED BY <1>1, InitIInv, PTL DEF Spec

-----------------------------------------------------------------------------
(* What the invariant gives to the unsafe blocks of hft-spsc.              *)

\* Every variable of the ring keeps its type.
THEOREM TypeCorrect == Spec => []TypeOK
BY InductiveInvariant, PTL DEF IInv

\* Dropping or draining the queue leaves no value behind.
THEOREM NoLeak == Spec => []NothingLeaked
BY InductiveInvariant, PTL DEF IInv

\* Every slot that push_impl writes has been reclaimed.
THEOREM WritesAreSafe == Spec => []WriteHitsReclaimedSlot
<1>1. IInv => WriteHitsReclaimedSlot
  <2> SUFFICES ASSUME IInv, ppc = "write" PROVE slots[Index(tail)] = Uninit
    BY DEF WriteHitsReclaimedSlot
  <2>1. phase = "split" /\ Occupied \in 0 .. N - 1 /\ Add(head, Occupied) = tail
    BY WriterHasRoom
  <2>2. ~ Live(Occupied)
    BY <2>1, SMT DEF Live
  <2> QED BY <2>1, <2>2 DEF IInv, SlotsMatchPositions
<1> QED BY <1>1, InductiveInvariant, PTL

\* Every slot that pop_impl moves out is initialized.
THEOREM ReadsAreSafe == Spec => []ReadHitsInitializedSlot
<1>1. IInv => ReadHitsInitializedSlot
  <2> SUFFICES ASSUME IInv, cpc = "read" PROVE slots[Index(head)] # Uninit
    BY DEF ReadHitsInitializedSlot
  <2>1. phase = "split" /\ head \in Position
    BY DEF IInv, EndpointsTyped, TypeOK
  <2>2. Occupied \in 1 .. N
    BY <2>1, ReaderHasValue DEF IInv
  <2>3. Live(0) /\ 0 \in 0 .. N - 1
    BY <2>2, SMT DEF Live
  <2>4. Add(head, 0) = head
    BY <2>1, IndexTyped
  <2> QED BY <2>1, <2>3, <2>4 DEF IInv, SlotsMatchPositions
<1> QED BY <1>1, InductiveInvariant, PTL

\* The two endpoints never work on one slot at a time.
THEOREM NoSlotRace == Spec => []EndpointsUseDistinctSlots
<1>1. IInv => EndpointsUseDistinctSlots
  <2> SUFFICES ASSUME IInv, ppc # "idle", cpc # "idle" PROVE Index(tail) # Index(head)
    BY DEF EndpointsUseDistinctSlots
  <2>1. phase = "split" /\ Occupied \in 0 .. N - 1 /\ Add(head, Occupied) = tail
    BY WriterHasRoom
  <2>2. Occupied \in 1 .. N
    BY <2>1, ReaderHasValue DEF IInv
  <2>3. head \in Position /\ Add(head, 0) = head
    BY IndexTyped DEF IInv, TypeOK
  <2>4. 0 \in 0 .. N - 1 /\ Occupied # 0
    BY <2>2, SMT
  <2> QED BY <2>1, <2>3, <2>4, IndexInjective
<1> QED BY <1>1, InductiveInvariant, PTL

\* The SAFETY comments of push_impl and pop_impl, together.
THEOREM SlotAccessSafe == Spec => []SlotAccessIsSafe
BY WritesAreSafe, ReadsAreSafe, NoSlotRace, PTL DEF SlotAccessIsSafe

\* Drop and into_inner visit exactly the initialized slots.
THEOREM OwnerSeesExactlyPublished == Spec => []ExactlyPublishedInitialized
<1>1. IInv => ExactlyPublishedInitialized
  <2> SUFFICES ASSUME IInv, Exclusive, NEW i \in 0 .. N - 1
               PROVE  slots[i] # Uninit <=> \E k \in 0 .. Occupied - 1 : i = Index(Add(head, k))
    BY DEF ExactlyPublishedInitialized
  <2>1. phase = "split" /\ ppc = "idle" /\ cpc = "idle" /\ head \in Position
    BY DEF Exclusive, IInv, TypeOK
  <2>2. Occupied \in 0 .. N
    BY <2>1, ModulusFact, SMT DEF IInv, CachesLagPositions, TypeOK, Position, Sub, Occupied
  <2>3. PICK j \in 0 .. N - 1 : i = Index(Add(head, j))
    BY <2>1, IndexSurjective
  <2>4. slots[i] # Uninit <=> j < Occupied
    BY <2>1, <2>3 DEF IInv, SlotsMatchPositions, Live
  <2>5. ASSUME NEW k \in 0 .. Occupied - 1, i = Index(Add(head, k)) PROVE k = j
    <3>1. k \in 0 .. N - 1
      BY <2>2, SMT
    <3> QED BY <2>1, <2>3, <2>5, <3>1, IndexInjective, Zenon
  <2>6. j < Occupied <=> j \in 0 .. Occupied - 1
    BY <2>2, SMT
  <2> QED BY <2>3, <2>4, <2>5, <2>6
<1> QED BY <1>1, InductiveInvariant, PTL

\* A true has_capacity survives every step of the consumer.
THEOREM CapacityIsReserved == Spec => []GrantedCapacityHolds
<1>1. IInv => GrantedCapacityHolds
  <2> SUFFICES ASSUME IInv, phase = "split", granted, ppc = "idle"
               PROVE  Sub(tail, cached_head) # N
    BY DEF GrantedCapacityHolds
  <2> QED BY ModulusFact, SMT DEF IInv, CachesLagPositions, TypeOK, Position, Sub, Occupied
<1> QED BY <1>1, InductiveInvariant, PTL

-----------------------------------------------------------------------------
(* The ring implements the bounded FIFO.                                   *)

\* The queue of a split ring is a sequence of Occupied elements.
LEMMA QueueShape ==
  IInv /\ phase = "split" =>
    /\ Occupied \in 0 .. N
    /\ Queue = [k \in 1 .. Occupied |-> Element(k)]
    /\ Queue \in Seq(Values \cup {Uninit, NoValue})
    /\ Len(Queue) = Occupied
<1> SUFFICES ASSUME IInv, phase = "split"
             PROVE  /\ Occupied \in 0 .. N
                    /\ Queue = [k \in 1 .. Occupied |-> Element(k)]
                    /\ Queue \in Seq(Values \cup {Uninit, NoValue})
                    /\ Len(Queue) = Occupied
  OBVIOUS
<1>1. Occupied \in 0 .. N
  BY ModulusFact, SMT DEF IInv, CachesLagPositions, TypeOK, Position, Sub, Occupied
<1>2. Queue = [k \in 1 .. Occupied |-> Element(k)]
  BY DEF Queue
<1>3. \A k \in 1 .. Occupied : Element(k) \in Values \cup {Uninit, NoValue}
  <2> SUFFICES ASSUME NEW k \in 1 .. Occupied
               PROVE  Element(k) \in Values \cup {Uninit, NoValue}
    OBVIOUS
  <2>1. k - 1 \in 0 .. N /\ head \in Position
    BY <1>1, SMT DEF IInv, TypeOK
  <2>2. Index(Add(head, k - 1)) \in 0 .. N - 1
    BY <2>1, SlotTyped
  <2> QED BY <2>2 DEF IInv, TypeOK, Element
<1>4. Queue \in [1 .. Occupied -> Values \cup {Uninit, NoValue}] /\ Occupied \in Nat
  BY <1>1, <1>2, <1>3, SMT
<1>5. Queue \in Seq(Values \cup {Uninit, NoValue})
  BY <1>4, SMT
<1>6. Len(Queue) = Occupied
  BY <1>1, <1>2, <1>5, SMT
<1> QED BY <1>1, <1>2, <1>5, <1>6

\* The same after a step.
LEMMA QueueShapeNext ==
  ASSUME IInv', phase' = "split"
  PROVE  Queue' \in Seq(Values \cup {Uninit, NoValue}) /\ Len(Queue') = Occupied'
<1>1. (IInv /\ phase = "split")' =>
        (/\ Occupied \in 0 .. N
         /\ Queue = [k \in 1 .. Occupied |-> Element(k)]
         /\ Queue \in Seq(Values \cup {Uninit, NoValue})
         /\ Len(Queue) = Occupied)'
  BY QueueShape, PTL
<1> QED BY <1>1

\* A step that keeps both positions and every element keeps the queue.
LEMMA QueueKept ==
  ASSUME phase = "split", phase' = "split", Occupied' = Occupied,
         \A k \in 1 .. Occupied : Element(k)' = Element(k)
  PROVE  Queue' = Queue
BY DEF Queue

\* The slot write of a push does not show in the queue.
LEMMA PushWriteHidden ==
  ASSUME IInv, PushWrite
  PROVE  Queue' = Queue
<1>1. /\ phase = "split" /\ phase' = "split" /\ Occupied \in 0 .. N - 1
      /\ Add(head, Occupied) = tail /\ head \in Position
  BY WriterHasRoom DEF PushWrite, IInv, TypeOK
<1>2. /\ slots' = [slots EXCEPT ![Index(tail)] = pval] /\ cpc' = cpc /\ cval' = cval
      /\ head' = head /\ Occupied' = Occupied
  BY DEF PushWrite, consumerVars, Occupied, Sub
<1>3. ASSUME NEW k \in 1 .. Occupied PROVE Element(k)' = Element(k)
  <2>1. k - 1 \in 0 .. N - 1 /\ k - 1 # Occupied /\ k - 1 \in 0 .. N
    BY <1>1, SMT
  <2>2. Index(Add(head, k - 1)) # Index(tail)
    BY <1>1, <2>1, IndexInjective
  <2>3. Index(Add(head, k - 1)) \in 0 .. N - 1
    BY <1>1, <2>1, SlotTyped
  <2>4. slots'[Index(Add(head, k - 1))] = slots[Index(Add(head, k - 1))]
    BY <1>2, <2>2, <2>3 DEF IInv, TypeOK
  <2> QED BY <1>2, <2>4 DEF Element, Index, Add
<1> QED BY <1>1, <1>2, <1>3, QueueKept

\* Neither does moving the oldest value out: it is still the first element.
LEMMA PopReadHidden ==
  ASSUME IInv, PopRead
  PROVE  Queue' = Queue
<1>1. /\ phase = "split" /\ phase' = "split" /\ cpc = "read" /\ head \in Position
      /\ Add(head, 0) = head
  BY IndexTyped DEF PopRead, IInv, TypeOK, EndpointsTyped
<1>2. /\ slots' = [slots EXCEPT ![Index(head)] = Uninit] /\ cval' = slots[Index(head)]
      /\ head' = head /\ Occupied' = Occupied /\ cpc' = "reclaim"
  BY DEF PopRead, Occupied, Sub
<1>3. Occupied \in 1 .. N
  BY <1>1, ReaderHasValue DEF IInv
<1>4. ASSUME NEW k \in 1 .. Occupied PROVE Element(k)' = Element(k)
  <2>1. CASE k = 1
    BY <1>1, <1>2, <2>1 DEF Element
  <2>2. CASE k # 1
    <3>1. k - 1 \in 0 .. N - 1 /\ k - 1 # 0 /\ 0 \in 0 .. N - 1 /\ k - 1 \in 0 .. N
      BY <1>3, <2>2, SMT
    <3>2. Index(Add(head, k - 1)) # Index(head)
      BY <1>1, <3>1, IndexInjective
    <3>3. Index(Add(head, k - 1)) \in 0 .. N - 1
      BY <1>1, <3>1, SlotTyped
    <3>4. slots'[Index(Add(head, k - 1))] = slots[Index(Add(head, k - 1))]
      BY <1>2, <3>2, <3>3 DEF IInv, TypeOK
    <3> QED BY <1>2, <2>2, <3>4 DEF Element, Index, Add
  <2> QED BY <2>1, <2>2
<1> QED BY <1>1, <1>2, <1>4, QueueKept

\* Publishing is the abstract push.
LEMMA PushPublishIsPush ==
  ASSUME IInv, IInv', PushPublish
  PROVE  Fifo!Push(pval)
<1>1. /\ phase = "split" /\ phase' = "split" /\ Occupied \in 0 .. N - 1
      /\ Add(head, Occupied) = tail /\ ppc = "publish"
  BY WriterHasRoom DEF PushPublish
<1>2. /\ head' = head /\ slots' = slots /\ cpc' = cpc /\ cval' = cval
      /\ returned' = returned /\ drained' = drained /\ tail' = Add(tail, 1)
  BY SMTT(30) DEF PushPublish, consumerVars
<1>3. Occupied' = Occupied + 1
  BY <1>1, <1>2, ModulusFact, SMT DEF IInv, TypeOK, Position, Sub, Add, Occupied
<1>4. /\ Queue = [k \in 1 .. Occupied |-> Element(k)] /\ Len(Queue) = Occupied
      /\ Queue \in Seq(Values \cup {Uninit, NoValue})
  BY <1>1, QueueShape
<1>5. Queue' = [k \in 1 .. Occupied + 1 |-> Element(k)]
  BY <1>1, <1>2, <1>3 DEF Queue, Element, Index, Add
<1>6. Element(Occupied + 1) = pval
  <2>1. cpc = "reclaim" => Occupied # 0
    BY <1>1, ReaderHasValue, SMT DEF IInv
  <2>2. Occupied + 1 - 1 = Occupied /\ (Occupied + 1 = 1 => Occupied = 0)
    BY <1>1, SMT
  <2>3. slots[Index(tail)] = pval
    BY <1>1 DEF IInv, WrittenIsKept
  <2> QED BY <1>1, <2>1, <2>2, <2>3 DEF Element
<1>7. Queue' = Append(Queue, pval)
  <2> DEFINE S == Values \cup {Uninit, NoValue}
             q == Append(Queue, pval)
  <2>1. pval \in S
    BY <1>1 DEF IInv, EndpointsTyped
  <2>2. /\ q \in Seq(S) /\ Len(q) = Occupied + 1
        /\ \A k \in 1 .. Occupied : q[k] = Queue[k]
        /\ q[Occupied + 1] = pval
    <3>1. Queue \in Seq(S) /\ Len(Queue) = Occupied
      BY <1>4, Zenon
    <3> HIDE DEF S
    <3> QED BY <2>1, <3>1, AppendProperties, SMT
  <2>3. Queue' \in Seq(S) /\ Len(Queue') = Occupied + 1
    BY <1>1, <1>3, QueueShapeNext
  <2>4. ASSUME NEW k \in 1 .. Occupied + 1 PROVE Queue'[k] = q[k]
    <3>1. CASE k = Occupied + 1
      BY <1>5, <1>6, <2>2, <3>1
    <3>2. CASE k # Occupied + 1
      <4>1. k \in 1 .. Occupied
        BY <1>1, <3>2, SMT
      <4> QED BY <1>4, <1>5, <2>2, <4>1, Zenon
    <3> QED BY <3>1, <3>2, Zenon
  <2> HIDE DEF S, q
  <2>5. Queue' = q
    BY <2>2, <2>3, <2>4, SeqEqual
  <2> QED BY <2>5 DEF q
<1>8. Len(Queue) < N
  BY <1>1, <1>4, SMT
<1> QED BY <1>1, <1>2, <1>7, <1>8 DEF Fifo!Push

\* Releasing the slot is the abstract pop, and returns the oldest value.
LEMMA PopReclaimIsPop ==
  ASSUME IInv, IInv', PopReclaim
  PROVE  Fifo!Pop
<1>1. phase = "split" /\ phase' = "split" /\ cpc = "reclaim" /\ head \in Position
  BY DEF PopReclaim, IInv, TypeOK, EndpointsTyped
<1>2. /\ head' = Add(head, 1) /\ slots' = slots /\ cpc' = "idle" /\ tail' = tail
      /\ returned' = cval /\ drained' = drained
  BY DEF PopReclaim
<1>3. Occupied \in 1 .. N
  BY SMTT(30), <1>1, ReaderHasValue DEF IInv
<1>4. Occupied' = Occupied - 1
  BY <1>1, <1>2, <1>3, ModulusFact, SMT DEF IInv, TypeOK, Position, Sub, Add, Occupied
<1>5. /\ Queue = [k \in 1 .. Occupied |-> Element(k)] /\ Len(Queue) = Occupied
      /\ Queue \in Seq(Values \cup {Uninit, NoValue})
  BY <1>1, QueueShape
<1>6. Queue # <<>> /\ Head(Queue) = cval
  <2>1. 1 \in 1 .. Occupied
    BY <1>3, SMT
  <2>2. Queue[1] = cval
    BY <1>1, <1>5, <2>1 DEF Element
  <2> QED BY <1>3, <1>5, <2>2, SMT
<1>7. ASSUME NEW k \in 1 .. Occupied - 1 PROVE Element(k)' = Element(k + 1)
  <2>1. Add(head', k - 1) = Add(head, k) /\ k + 1 - 1 = k /\ k + 1 # 1
    BY <1>1, <1>2, <1>3, ModulusFact, SMT DEF Add, Position
  <2> QED BY <1>2, <2>1 DEF Element, Index, Add
<1>8. Queue' = [k \in 1 .. Occupied - 1 |-> Element(k + 1)]
  BY <1>1, <1>4, <1>7 DEF Queue
<1>9. Queue' = Tail(Queue)
  <2> DEFINE S == Values \cup {Uninit, NoValue}
             q == Tail(Queue)
  <2>1. /\ q \in Seq(S) /\ Len(q) = Occupied - 1
        /\ \A k \in 1 .. Len(q) : q[k] = Queue[k + 1]
    BY <1>5, <1>6, HeadTailProperties, Zenon
  <2>2. Queue' \in Seq(S) /\ Len(Queue') = Occupied - 1
    BY <1>1, <1>4, QueueShapeNext
  <2>3. ASSUME NEW k \in 1 .. Occupied - 1 PROVE Queue'[k] = q[k]
    <3>1. k + 1 \in 1 .. Occupied
      BY <1>3, SMT
    <3> QED BY <1>5, <1>8, <2>1, <3>1, Zenon
  <2> HIDE DEF S, q
  <2>4. Queue' = q
    BY <2>1, <2>2, <2>3, SeqEqual
  <2> QED BY <2>4 DEF q
<1> QED BY <1>1, <1>2, <1>6, <1>9 DEF Fifo!Pop

\* Closing the queue is the abstract close: the owner gets what is queued, in
\* order, or nothing at all.
LEMMA OwnerIsClose ==
  ASSUME IInv, IntoInner \/ Drop
  PROVE  Fifo!Close
<1>1. phase = "split" /\ phase' = "gone" /\ cpc = "idle" /\ returned' = returned
  BY DEF IntoInner, Drop, Exclusive, consumerVars
<1>2. Queue' = <<>>
  BY <1>1 DEF Queue
<1>3. Queue = Published
  BY <1>1 DEF Queue, Published, Element
<1>4. drained' \in {Queue, drained}
  BY <1>3 DEF IntoInner, Drop
<1> QED BY <1>1, <1>2, <1>4 DEF Fifo!Close

\* A step in which the callers see the same queue is a stuttering step.
LEMMA HiddenStep ==
  ASSUME IInv,
         \/ \E v \in Values : PushCheck(v)
         \/ PushWrite \/ HasCapacity \/ PopCheck \/ PopRead \/ Split
         \/ UNCHANGED vars
  PROVE  UNCHANGED <<Queue, returned, drained, phase = "split">>
<1>1. UNCHANGED <<returned, drained, phase>>
  BY DEF PushCheck, PushWrite, HasCapacity, PopCheck, PopRead, Split, vars, consumerVars
<1>2. Queue' = Queue
  <2>1. CASE PushWrite
    BY <2>1, PushWriteHidden
  <2>2. CASE PopRead
    BY <2>2, PopReadHidden
  <2>3. CASE \/ \E v \in Values : PushCheck(v)
             \/ HasCapacity \/ PopCheck \/ Split \/ UNCHANGED vars
    <3>1. /\ head' = head /\ tail' = tail /\ slots' = slots /\ cval' = cval /\ phase' = phase
          /\ cpc' = "reclaim" <=> cpc = "reclaim"
      BY <2>3 DEF PushCheck, HasCapacity, PopCheck, Split, vars, consumerVars
    <3> QED BY <3>1, Zenon DEF Queue, Element, Occupied, Sub, Index, Add
  <2> QED BY <2>1, <2>2, <2>3
<1> QED BY SMTT(30), <1>1, <1>2

\* The ring implements a bounded FIFO for every capacity, width and set of
\* values: what push, pop and into_inner give to their callers is explained by
\* one queue of at most N values.
THEOREM RingImplementsFifo == Spec => ImplementsFifo
<1>1. Init => Fifo!FifoInit
  <2> SUFFICES ASSUME Init PROVE Fifo!FifoInit
    OBVIOUS
  <2>1. Queue = <<>>
    BY SMT DEF Init, Queue, Occupied, Sub
  <2> QED BY <2>1 DEF Init, Fifo!FifoInit
<1>2. IInv /\ IInv' /\ [Next]_vars => [Fifo!FifoNext]_(Fifo!fifoVars)
  <2> SUFFICES ASSUME IInv, IInv', [Next]_vars
               PROVE  [Fifo!FifoNext]_(Fifo!fifoVars)
    OBVIOUS
  <2>1. CASE PushPublish
    <3>1. Fifo!Push(pval) /\ pval \in Values
      BY <2>1, PushPublishIsPush, Zenon DEF PushPublish, IInv, EndpointsTyped
    <3> QED BY <3>1 DEF Fifo!FifoNext
  <2>2. CASE PopReclaim
    BY <2>2, PopReclaimIsPop DEF Fifo!FifoNext
  <2>3. CASE IntoInner \/ Drop
    BY <2>3, OwnerIsClose DEF Fifo!FifoNext
  <2>4. CASE \/ \E v \in Values : PushCheck(v)
             \/ PushWrite \/ HasCapacity \/ PopCheck \/ PopRead \/ Split
             \/ UNCHANGED vars
    BY <2>4, HiddenStep DEF Fifo!fifoVars
  <2> QED BY <2>1, <2>2, <2>3, <2>4 DEF Next, Producer, Consumer, Owner
<1> QED BY <1>1, <1>2, InductiveInvariant, PTL DEF Spec, ImplementsFifo, Fifo!FifoSpec
=============================================================================
