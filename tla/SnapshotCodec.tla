--------------------------- MODULE SnapshotCodec ---------------------------
(***************************************************************************)
(* The snapshot format of hft-recovery/src/lib.rs: a header with a digest  *)
(* over header and payload, and a payload that lists a gateway's state in  *)
(* canonical order.  As in Wire, a cell stands for a field.                *)
(*                                                                         *)
(* SHA-256 (external) is a digest without collisions: what it was computed *)
(* over.                                                                   *)
(***************************************************************************)
EXTENDS Gateway, Wire

MAGIC == 5
FORMAT_VERSION == 1
HASH_ALGORITHM_SHA256 == 1
DIGEST_SIZE == 32
HEADER_SIZE == 14
DIGEST_OFFSET == 13
NoDigest == <<>>

SideTag(side) == IF side = "Buy" THEN 1 ELSE 2
SideOfTag(tag) == IF tag = 1 THEN "Buy" ELSE "Sell"
BooleanTag(value) == IF value THEN 1 ELSE 0

Concat(seqs) == FoldLeft(LAMBDA acc, s : acc \o s, <<>>, seqs)
Map(seq, Op(_)) == [i \in 1..Len(seq) |-> Op(seq[i])]
Sorted(ids) == SetToSortSeq(ids, LAMBDA x, y : x < y)
-----------------------------------------------------------------------------
(* export_state: the logical state as records in canonical order.          *)

ExportAccount(r, a) == [id |-> a] @@ r.accounts[a]
ExportReservation(r, id) == [order_id |-> id] @@ r.reservations[id]
ExportOrder(side, level, order) ==
    [order_id |-> order.order_id, account_id |-> order.account_id, side |-> side,
     price |-> level.price, quantity |-> order.quantity, sequence |-> order.sequence]
ExportLevel(side, level) ==
    [side |-> side, price |-> level.price,
     orders |-> Map(level.orders, LAMBDA order : ExportOrder(side, level, order))]
ExportSide(b, side) == Map(b[side], LAMBDA level : ExportLevel(side, level))

ExportState(r, b, expected, maximum) ==
    [instrument |-> instrument, expected_sequence |-> expected,
     maximum_received_order_id |-> maximum,
     maximum_order_id |-> r.maximum_order_id, killed |-> r.killed,
     accounts |-> Map(Sorted(DOMAIN r.accounts), LAMBDA a : ExportAccount(r, a)),
     reservations |-> Map(Sorted(DOMAIN r.reservations),
                          LAMBDA id : ExportReservation(r, id)),
     bids |-> ExportSide(b, "Buy"), asks |-> ExportSide(b, "Sell")]
-----------------------------------------------------------------------------
(* from_state: the components rebuilt, or refused.                         *)

RebuiltAccount(acct) ==
    [limits |-> acct.limits, settled_position |-> acct.settled_position,
     reserved_buys |-> acct.reserved_buys, reserved_sells |-> acct.reserved_sells,
     open_orders |-> acct.open_orders, killed |-> acct.killed]
RebuiltReservation(res) ==
    [account_id |-> res.account_id, side |-> res.side, quantity |-> res.quantity]
Entry(seq, key(_), k) == seq[CHOOSE i \in 1..Len(seq) : key(seq[i]) = k]

RiskFromState(s) ==
    LET AccountKey(x) == x.id
        OrderKey(x) == x.order_id
    IN  [accounts |-> [a \in {s.accounts[i].id : i \in 1..Len(s.accounts)} |->
                          RebuiltAccount(Entry(s.accounts, AccountKey, a))],
         reservations |->
            [id \in {s.reservations[i].order_id : i \in 1..Len(s.reservations)} |->
                RebuiltReservation(Entry(s.reservations, OrderKey, id))],
         maximum_order_id |-> s.maximum_order_id, killed |-> s.killed]

\* restore_level: every order at the tail of its level.
RestoreLevel(level) ==
    [price |-> level.price,
     orders |-> Map(level.orders, LAMBDA order : RestingOrder(order, order.quantity))]

BookFromState(s) ==
    [side \in Sides |->
        Map(IF side = "Buy" THEN s.bids ELSE s.asks, LAMBDA level : RestoreLevel(level))]

\* The checks on the records themselves: ids rise, and an order carries the side
\* and the price of its level.
CanonicalRecords(s) ==
    LET LevelsOf(levels, side) ==
            \A i \in 1..Len(levels) :
                /\ levels[i].side = side
                /\ \A j \in 1..Len(levels[i].orders) :
                      /\ levels[i].orders[j].side = side
                      /\ levels[i].orders[j].price = levels[i].price
    IN  /\ \A i \in 2..Len(s.accounts) : s.accounts[i - 1].id < s.accounts[i].id
        /\ \A i \in 2..Len(s.reservations) :
              s.reservations[i - 1].order_id < s.reservations[i].order_id
        /\ LevelsOf(s.bids, "Buy") /\ LevelsOf(s.asks, "Sell")

\* Gateway::from_state accepts s.
FromStateAccepts(s) ==
    /\ CanonicalRecords(s)
    /\ ValidBook(BookFromState(s))
    /\ ValidRisk(RiskFromState(s))
    /\ ValidCrossComponent(RiskFromState(s), BookFromState(s), s.expected_sequence,
                           s.maximum_received_order_id)
    /\ OrdersWithinLimits(RiskFromState(s), BookFromState(s))
-----------------------------------------------------------------------------
(* encode_snapshot                                                         *)

EncodeOptionalOrder(id) == IF id = NoOrder THEN <<0, 0>> ELSE <<1, id>>

EncodeAccount(acct) ==
    <<acct.id, acct.limits.max_quantity, acct.limits.max_notional,
      acct.limits.max_abs_position, acct.limits.max_open_orders,
      acct.limits.minimum_price, acct.limits.maximum_price, acct.settled_position,
      acct.reserved_buys, acct.reserved_sells, acct.open_orders,
      BooleanTag(acct.killed)>>

EncodeReservation(res) ==
    <<res.order_id, res.account_id, SideTag(res.side), res.quantity>>

EncodeOrder(order) ==
    <<order.order_id, order.account_id, SideTag(order.side), order.price,
      order.quantity, order.sequence>>

EncodeLevel(level) ==
    <<SideTag(level.side), level.price, Len(level.orders)>>
        \o Concat(Map(level.orders, EncodeOrder))

EncodeGatewayState(s) ==
    <<s.instrument, s.expected_sequence>>
        \o EncodeOptionalOrder(s.maximum_received_order_id)
        \o EncodeOptionalOrder(s.maximum_order_id)
        \o <<BooleanTag(s.killed), Len(s.accounts), Len(s.reservations),
             Len(s.bids), Len(s.asks)>>
        \o Concat(Map(s.accounts, EncodeAccount))
        \o Concat(Map(s.reservations, EncodeReservation))
        \o Concat(Map(s.bids, EncodeLevel)) \o Concat(Map(s.asks, EncodeLevel))

Header(payload_len, applied) ==
    <<MAGIC, FORMAT_VERSION, HEADER_SIZE, 0, HASH_ALGORITHM_SHA256, DIGEST_SIZE,
      payload_len, applied, ACCOUNTS, ORDERS, LEVELS, ORDERS_PER_LEVEL, NoDigest, 0>>

\* The digest cell is taken as empty while the digest is computed.
SnapshotDigest(bytes) == [bytes EXCEPT ![DIGEST_OFFSET] = NoDigest]

Sealed(bytes) == [bytes EXCEPT ![DIGEST_OFFSET] = SnapshotDigest(bytes)]

\* The journal cut must be the command before the one the gateway expects.
EncodeReject(s, applied) ==
    IF s.expected_sequence # applied + 1 THEN "InvalidSequence" ELSE "Ok"

EncodeSnapshot(s, applied) ==
    LET payload == EncodeGatewayState(s)
    IN  Sealed(Header(Len(payload), applied) \o payload)
-----------------------------------------------------------------------------
(* decode_gateway_state.  Input is a cursor over the payload: cells taken  *)
(* so far, in got, and the first error, after which nothing is read.       *)

Input(cells) == [cells |-> cells, at |-> 1, got |-> <<>>, error |-> "Ok"]

\* Mutant: every tag but that of a buy is a sell.
KindErrorAnySide(kind, cell) ==
    IF kind = "bool" /\ cell \notin {0, 1} THEN "InvalidBoolean" ELSE "Ok"

KindError(kind, cell) ==
    IF kind = "bool" /\ cell \notin {0, 1} THEN "InvalidBoolean"
    ELSE IF kind = "side" /\ cell \notin {1, 2} THEN "InvalidSide"
    ELSE "Ok"

\* What reading the i-th cell from here on returns.
CellError(in, kind, i) ==
    IF in.at + i - 1 > Len(in.cells) THEN "Truncated"
    ELSE KindError(kind, in.cells[in.at + i - 1])

\* Fields of these kinds, one after the other, up to the first error.
TakeAll(in, kinds) ==
    LET errors == SelectSeq([i \in 1..Len(kinds) |-> CellError(in, kinds[i], i)],
                            LAMBDA e : e # "Ok")
    IN  IF in.error # "Ok" THEN in
        ELSE IF errors # <<>> THEN [in EXCEPT !.error = Head(errors)]
        ELSE [in EXCEPT !.at = @ + Len(kinds),
                        !.got = @ \o SubSeq(in.cells, in.at, in.at + Len(kinds) - 1)]

Check(in, ok, error) == IF in.error = "Ok" /\ ~ok THEN [in EXCEPT !.error = error] ELSE in

\* optional_order: an absent id is written as zero.
TakeOptionalOrder(in) ==
    LET read == TakeAll(in, <<"bool", "u64">>)
        n == Len(read.got)
    IN  IF read.error # "Ok" THEN read
        ELSE Check(read, read.got[n - 1] = 1 \/ read.got[n] = 0, "NonCanonical")

Repeat(kinds, n) ==
    [i \in 1..(n * Len(kinds)) |-> kinds[((i - 1) % Len(kinds)) + 1]]

AccountKinds == [i \in 1..12 |-> IF i = 12 THEN "bool" ELSE "num"]
ReservationKinds == <<"u64", "u32", "side", "u64">>
OrderKinds == <<"u64", "u32", "side", "i64", "u64", "u64">>

TakeLevel(in) ==
    LET read == TakeAll(in, <<"side", "i64", "count">>)
        count == Last(read.got)
        checked == Check(read, count <= ORDERS_PER_LEVEL, "InvalidCount")
    IN  IF read.error # "Ok" \/ checked.error # "Ok" THEN checked
        ELSE TakeAll(checked, Repeat(OrderKinds, count))

TakeLevels(in, n) == FoldLeft(LAMBDA acc, i : TakeLevel(acc), in, [i \in 1..n |-> i])

TakeCounts(in) ==
    LET read == TakeAll(in, <<"count", "count", "count", "count">>)
        count(i) == read.got[Len(read.got) - 4 + i]
    IN  IF read.error # "Ok" THEN read
        ELSE Check(read, /\ count(1) <= ACCOUNTS /\ count(2) <= ORDERS
                         /\ count(3) <= LEVELS /\ count(4) <= LEVELS, "InvalidCount")

\* The whole payload is read, cell by cell, or the first error stands.
ReadPayload(payload) ==
    LET ids == TakeOptionalOrder(TakeOptionalOrder(
                  TakeAll(Input(payload), <<"u32", "u64">>)))
        counted == TakeCounts(TakeAll(ids, <<"bool">>))
        count(i) == counted.got[7 + i]
        accounts == TakeAll(counted, Repeat(AccountKinds, count(1)))
        reservations == TakeAll(accounts, Repeat(ReservationKinds, count(2)))
        levels == TakeLevels(reservations, count(3) + count(4))
    IN  IF counted.error # "Ok" THEN counted
        ELSE Check(levels, levels.at > Len(payload), "TrailingBytes")
-----------------------------------------------------------------------------
(* The records of a payload that was read without error.                   *)

OptionalOrderAt(p, i) == IF p[i] = 1 THEN p[i + 1] ELSE NoOrder

AccountAt(p, i) ==
    [id |-> p[i],
     limits |-> [max_quantity |-> p[i + 1], max_notional |-> p[i + 2],
                 max_abs_position |-> p[i + 3], max_open_orders |-> p[i + 4],
                 minimum_price |-> p[i + 5], maximum_price |-> p[i + 6]],
     settled_position |-> p[i + 7], reserved_buys |-> p[i + 8],
     reserved_sells |-> p[i + 9], open_orders |-> p[i + 10], killed |-> p[i + 11] = 1]

ReservationAt(p, i) ==
    [order_id |-> p[i], account_id |-> p[i + 1], side |-> SideOfTag(p[i + 2]),
     quantity |-> p[i + 3]]

OrderRecordAt(p, i) ==
    [order_id |-> p[i], account_id |-> p[i + 1], side |-> SideOfTag(p[i + 2]),
     price |-> p[i + 3], quantity |-> p[i + 4], sequence |-> p[i + 5]]

LevelRecordAt(p, i) ==
    [side |-> SideOfTag(p[i]), price |-> p[i + 1],
     orders |-> [j \in 1..p[i + 2] |-> OrderRecordAt(p, i + 3 + 6 * (j - 1))]]

\* Where the n-th level starts, when the first starts at i.
LevelStart(p, i, n) ==
    LET start[k \in 1..n] ==
            IF k = 1 THEN i ELSE start[k - 1] + 3 + 6 * p[start[k - 1] + 2]
    IN  start[n]

DecodedState(p) ==
    LET reservations_at == 12 + 12 * p[8]
        levels_at == reservations_at + 4 * p[9]
        Level(n) == LevelRecordAt(p, LevelStart(p, levels_at, n))
    IN  [instrument |-> p[1], expected_sequence |-> p[2],
         maximum_received_order_id |-> OptionalOrderAt(p, 3),
         maximum_order_id |-> OptionalOrderAt(p, 5), killed |-> p[7] = 1,
         accounts |-> [n \in 1..p[8] |-> AccountAt(p, 12 * n)],
         reservations |-> [n \in 1..p[9] |-> ReservationAt(p, reservations_at + 4 * (n - 1))],
         bids |-> [n \in 1..p[10] |-> Level(n)],
         asks |-> [n \in 1..p[11] |-> Level(p[10] + n)]]

Payload(bytes) == SubSeq(bytes, HEADER_SIZE + 1, Len(bytes))

\* decode_snapshot: the checks on the container and its integrity, in order.
ContainerError(bytes) ==
    IF Len(bytes) < HEADER_SIZE THEN "Truncated"
    ELSE IF bytes[1] # MAGIC THEN "BadMagic"
    ELSE IF bytes[2] # FORMAT_VERSION THEN "UnsupportedVersion"
    ELSE IF bytes[3] # HEADER_SIZE THEN "HeaderLength"
    ELSE IF bytes[4] # 0 THEN "UnsupportedFlags"
    ELSE IF bytes[5] # HASH_ALGORITHM_SHA256 THEN "UnsupportedHash"
    ELSE IF bytes[6] # DIGEST_SIZE THEN "DigestLength"
    ELSE IF Len(bytes) < HEADER_SIZE + bytes[7] THEN "Truncated"
    ELSE IF Len(bytes) > HEADER_SIZE + bytes[7] THEN "TrailingBytes"
    ELSE IF SubSeq(bytes, 9, 12) # <<ACCOUNTS, ORDERS, LEVELS, ORDERS_PER_LEVEL>>
         THEN "CapacityMismatch"
    ELSE IF bytes[14] # 0 THEN "NonCanonical"
    ELSE IF bytes[DIGEST_OFFSET] # SnapshotDigest(bytes) THEN "IntegrityMismatch"
    ELSE "Ok"

DecodeError(bytes) ==
    IF ContainerError(bytes) # "Ok" THEN ContainerError(bytes)
    ELSE LET payload == Payload(bytes)
             read == ReadPayload(payload)
             state_ == DecodedState(payload)
         IN  IF read.error # "Ok" THEN read.error
             ELSE IF state_.expected_sequence # bytes[8] + 1 THEN "InvalidSequence"
             ELSE IF ~FromStateAccepts(state_) THEN "GatewayState"
             ELSE "Ok"
-----------------------------------------------------------------------------
\* A snapshot is read back as the state it was written from.  One that is cut,
\* extended, or changed in one cell is refused; and if it had been written that
\* way, with a digest that fits, it is still refused unless it is the encoding
\* of the state it is read as: one state has one snapshot.
SnapshotIsCanonical(bytes, s) ==
    /\ DecodeError(bytes) = "Ok" /\ DecodedState(Payload(bytes)) = s
    /\ \A n \in 0..Len(bytes) - 1 : ContainerError(SubSeq(bytes, 1, n)) = "Truncated"
    /\ ContainerError(bytes \o <<0>>) = "TrailingBytes"
    /\ \A b \in Altered(bytes, DOMAIN bytes \ {DIGEST_OFFSET}) \ {bytes} :
          /\ ContainerError(b) # "Ok"
          /\ DecodeError(Sealed(b)) = "Ok" =>
                EncodeSnapshot(DecodedState(Payload(b)), b[8]) = Sealed(b)
=============================================================================
