----------------------------- MODULE RouteTable -----------------------------
(***************************************************************************)
(* RouteTable of hft-router: one instrument per shard, looked up by offset *)
(* when the instruments are consecutive and by binary search when not.     *)
(* Arrays are sequences, their indices one higher than in the code.        *)
(***************************************************************************)
EXTENDS Integers, Sequences, FiniteSets

CONSTANTS SHARDS,
          InstrumentIds  \* u32 values that routes and lookups use

ASSUME RouteTableAssumption == SHARDS \in Nat \ {0} /\ InstrumentIds \subseteq Nat

InstrumentRoute == [instrument_id : InstrumentIds, shard_id : 0 .. SHARDS]
None == -1  \* no shard

\* Shard ids are checked in input order, instruments after all of them.
TryNewReject(routes) ==
  IF \E k \in 1 .. SHARDS :
       \/ routes[k].shard_id >= SHARDS
       \/ \E j \in 1 .. k - 1 : routes[j].shard_id = routes[k].shard_id
  THEN "ShardId"
  ELSE IF \E j, k \in 1 .. SHARDS :
            j # k /\ routes[j].instrument_id = routes[k].instrument_id
  THEN "DuplicateInstrument"
  ELSE "Ok"

\* How many routes come before route j in the order of the instruments.
Rank(routes, j) ==
  Cardinality({i \in 1 .. SHARDS : routes[i].instrument_id < routes[j].instrument_id})

\* sort_unstable_by_key, for instruments that are distinct.
Sorted(routes) ==
  [k \in 1 .. SHARDS |-> routes[CHOOSE j \in 1 .. SHARDS : Rank(routes, j) = k - 1]]

\* With distinct instruments in order, the span tells whether there are gaps.
Dense(sorted) == sorted[SHARDS].instrument_id - sorted[1].instrument_id = SHARDS - 1

ByShard(sorted) ==
  [s \in 0 .. SHARDS - 1 |-> CHOOSE k \in 1 .. SHARDS : sorted[k].shard_id = s]

TryNew(routes) ==
  LET sorted == Sorted(routes) IN
  [by_instrument |-> sorted, by_shard |-> ByShard(sorted), dense |-> Dense(sorted)]

\* binary_search_by_key over the sorted routes.
BinarySearch(routes, i) ==
  IF \E k \in 1 .. SHARDS : routes[k].instrument_id = i
  THEN CHOOSE k \in 1 .. SHARDS : routes[k].instrument_id = i
  ELSE 0

\* checked_sub and get: out of range below and above is None.
ShardFor(table, i) ==
  LET routes == table.by_instrument
      index == IF table.dense THEN i - routes[1].instrument_id + 1
                              ELSE BinarySearch(routes, i)
  IN IF index \in 1 .. SHARDS THEN routes[index].shard_id ELSE None

InstrumentFor(table, s) == table.by_instrument[table.by_shard[s]].instrument_id
=============================================================================
