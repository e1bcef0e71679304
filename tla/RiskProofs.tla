----------------------------- MODULE RiskProofs -----------------------------
(***************************************************************************)
(* The tables of the risk engine, for every set of ids, every limit and    *)
(* every quantity: how sums over reservations move when one reservation is *)
(* added, changed or dropped, and that the accounts follow when one of     *)
(* them moves by the same amount.                                          *)
(***************************************************************************)
EXTENDS Risk, FiniteSetTheorems, TLAPS

Account == [limits : Limits, settled_position : Int, reserved_buys : Nat,
            reserved_sells : Nat, open_orders : Nat, killed : BOOLEAN]
Reservation == [account_id : AccountIds, side : Side, quantity : Nat]

\* The units reserved under ids, the reservations of an account, and what they
\* add up to, for a reservation table res.
Units(res, ids) == UNION {{id} \X (1..res[id].quantity) : id \in ids}
Holding(res, a, sides) == {id \in DOMAIN res : res[id].account_id = a /\ res[id].side \in sides}
Sum(res, a, side) == Cardinality(Units(res, Holding(res, a, {side})))
Count(res, a) == Cardinality(Holding(res, a, Side))

\* n on one side and nothing on the other; n as a change of position.
On(s, side, n) == IF s = side THEN n ELSE 0
Signed(side, n) == IF side = "Buy" THEN n ELSE -n

\* From res to new, the sum of account a for side s moves by n and its count by
\* c, and no other sum or count changes.
Shifts(res, new, a, s, n, c) ==
    /\ \A side \in Side : Sum(new, a, side) = Sum(res, a, side) + On(s, side, n)
    /\ Count(new, a) = Count(res, a) + c
    /\ \A b : b # a => /\ \A side \in Side : Sum(new, b, side) = Sum(res, b, side)
                      /\ Count(new, b) = Count(res, b)

\* An account whose position moves by d, its total for side s by n and its
\* open-order count by c.
Moved(acct, s, d, n, c) ==
    [limits |-> acct.limits, settled_position |-> acct.settled_position + d,
     reserved_buys |-> acct.reserved_buys + On(s, "Buy", n),
     reserved_sells |-> acct.reserved_sells + On(s, "Sell", n),
     open_orders |-> acct.open_orders + c, killed |-> acct.killed]

\* What an account reserves on a side.
Total(acct, side) == IF side = "Buy" THEN acct.reserved_buys ELSE acct.reserved_sells

\* A reservation with another quantity.
Sized(v, q) == [account_id |-> v.account_id, side |-> v.side, quantity |-> q]

\* What the limits ask of an amendment to q: only an increase is checked.
MayResize(r, id, q) ==
    LET v == r.reservations[id] IN
    q > v.quantity => WithinPosition(Reserve(r.accounts[v.account_id], v.side, q - v.quantity))

\* The tables of accounts and of reservations.
AccountTable == UNION {[ids -> Account] : ids \in SUBSET AccountIds}
Table == UNION {[ids -> Reservation] : ids \in SUBSET OrderIds}

\* An account agrees with the reservations it holds, and is within its limits.
AccountOk(acct, res, a) ==
    /\ ~InvalidLimits(acct.limits)
    /\ acct.reserved_buys = Sum(res, a, "Buy") /\ acct.reserved_sells = Sum(res, a, "Sell")
    /\ acct.open_orders = Count(res, a)
    /\ acct.open_orders <= acct.limits.max_open_orders
    /\ WithinPosition(acct)

\* A reservation table that is finite, within its capacity, and whose entries
\* belong to the accounts ids and lie at or below the watermark.
TableOk(res, ids, watermark) ==
    /\ res \in Table /\ IsFiniteSet(DOMAIN res) /\ Cardinality(DOMAIN res) <= ORDERS
    /\ watermark \in OrderIds \union {NoOrder}
    /\ \A id \in DOMAIN res : res[id].account_id \in ids /\ id <= watermark

\* The inductive invariant of an engine value, by its fields.
FieldsOk(accts, res, watermark, killed) ==
    /\ accts \in AccountTable /\ IsFiniteSet(DOMAIN accts)
    /\ Cardinality(DOMAIN accts) <= ACCOUNTS
    /\ TableOk(res, DOMAIN accts, watermark)
    /\ killed \in BOOLEAN
    /\ \A a \in DOMAIN accts : AccountOk(accts[a], res, a)

RiskOk(r) ==
    /\ r = [accounts |-> r.accounts, reservations |-> r.reservations,
            maximum_order_id |-> r.maximum_order_id, killed |-> r.killed]
    /\ FieldsOk(r.accounts, r.reservations, r.maximum_order_id, r.killed)

-----------------------------------------------------------------------------
(* Sums over reservations                                                  *)

\* The units of one reservation.
LEMMA UnitsOfOne ==
  ASSUME NEW id, NEW q \in Nat
  PROVE  IsFiniteSet({id} \X (1..q)) /\ Cardinality({id} \X (1..q)) = q
<1>1. IsFiniteSet({id}) /\ Cardinality({id}) = 1
  BY Zenon, FS_Singleton
<1>2. IsFiniteSet(1..q) /\ Cardinality(1..q) = q
  BY FS_Interval
<1>3. /\ IsFiniteSet({id} \X (1..q))
      /\ Cardinality({id} \X (1..q)) = Cardinality({id}) * Cardinality(1..q)
  BY <1>1, <1>2, FS_Product, Zenon
<1>4. 1 * q = q
  OBVIOUS
<1> QED
  BY <1>1, <1>2, <1>3, <1>4, Zenon

\* Finitely many reservations have finitely many units.
LEMMA UnitsFinite ==
  ASSUME NEW res, NEW ids, IsFiniteSet(ids), \A id \in ids : res[id].quantity \in Nat
  PROVE  IsFiniteSet(Units(res, ids)) /\ Cardinality(Units(res, ids)) \in Nat
<1> DEFINE parts == {{id} \X (1..res[id].quantity) : id \in ids}
           f == [id \in ids |-> {id} \X (1..res[id].quantity)]
<1>1. f \in Surjection(ids, parts)
  BY Zenon DEF Surjection
<1> HIDE DEF f
<1>2. IsFiniteSet(parts)
  BY <1>1, FS_Surjection, Zenon
<1>3. \A T \in parts : IsFiniteSet(T)
  <2>1. \A id \in ids : IsFiniteSet({id} \X (1..res[id].quantity))
    BY Zenon, UnitsOfOne
  <2> QED
    BY <2>1, Zenon
<1>4. IsFiniteSet(UNION parts)
  BY Zenon, <1>2, <1>3, FS_UNION
<1> QED
  BY <1>4, FS_CardinalityType DEF Units

\* Another id adds its quantity.
LEMMA UnitsAdd ==
  ASSUME NEW res, NEW ids, IsFiniteSet(ids), NEW id, id \notin ids,
         \A x \in ids \union {id} : res[x].quantity \in Nat
  PROVE  Cardinality(Units(res, ids \union {id})) = Cardinality(Units(res, ids)) + res[id].quantity
<1> DEFINE A == Units(res, ids)
           B == {id} \X (1..res[id].quantity)
<1>1. Units(res, ids \union {id}) = A \union B
  BY DEF Units
<1>2. A \intersect B = {}
  BY DEF Units
<1>3. IsFiniteSet(A) /\ Cardinality(A) \in Nat
  BY UnitsFinite
<1>4. IsFiniteSet(B) /\ Cardinality(B) = res[id].quantity
  BY Zenon, UnitsOfOne
<1> HIDE DEF A, B
<1>5. Cardinality(A \union B) = Cardinality(A) + Cardinality(B) - Cardinality(A \intersect B)
  BY <1>3, <1>4, FS_Union
<1>6. Cardinality(A \intersect B) = 0
  BY Zenon, <1>2, FS_EmptySet
<1>7. Cardinality(A \union B) = Cardinality(A) + res[id].quantity
  BY <1>3, <1>4, <1>5, <1>6
<1> QED
  BY Zenon, <1>1, <1>7 DEF A

\* Only the quantities of the ids matter.
LEMMA UnitsSame ==
  ASSUME NEW res, NEW new, NEW ids, \A id \in ids : res[id].quantity = new[id].quantity
  PROVE  Units(res, ids) = Units(new, ids)
  BY DEF Units

-----------------------------------------------------------------------------
(* Tables: what inserting, removing and replacing a reservation changes    *)

\* The shape of a table with an entry more, and with one less.
LEMMA TableShape ==
  ASSUME NEW res \in Table, NEW id \in OrderIds, NEW v \in Reservation
  PROVE  /\ With(res, id, v) \in Table /\ Without(res, id) \in Table
         /\ DOMAIN With(res, id, v) = DOMAIN res \union {id}
         /\ DOMAIN Without(res, id) = DOMAIN res \ {id}
<1>1. PICK ids \in SUBSET OrderIds : res \in [ids -> Reservation]
  BY DEF Table
<1>2. With(res, id, v) \in [ids \union {id} -> Reservation]
  BY <1>1 DEF With
<1>3. Without(res, id) \in [ids \ {id} -> Reservation]
  BY <1>1 DEF Without
<1>4. With(res, id, v) \in Table /\ Without(res, id) \in Table
  BY <1>2, <1>3 DEF Table
<1> QED
  BY <1>4 DEF With, Without

\* An entry of a table is a reservation under an order id.
LEMMA TableEntry ==
  ASSUME NEW res \in Table, NEW id \in DOMAIN res
  PROVE  /\ id \in OrderIds /\ res[id] \in Reservation
         /\ res[id].account_id \in AccountIds /\ res[id].side \in Side
         /\ res[id].quantity \in Nat
<1>1. PICK ids \in SUBSET OrderIds : res \in [ids -> Reservation]
  BY DEF Table
<1>2. id \in OrderIds /\ res[id] \in Reservation
  BY <1>1
<1> QED
  BY <1>2 DEF Reservation

\* Sums and counts are natural numbers.
LEMMA SumType ==
  ASSUME NEW res \in Table, IsFiniteSet(DOMAIN res), NEW a, NEW sides
  PROVE  /\ IsFiniteSet(Holding(res, a, sides))
         /\ Cardinality(Holding(res, a, sides)) \in Nat
         /\ Cardinality(Units(res, Holding(res, a, sides))) \in Nat
<1>1. Holding(res, a, sides) \subseteq DOMAIN res
  BY DEF Holding
<1>2. IsFiniteSet(Holding(res, a, sides))
  BY <1>1, FS_Subset
<1>3. \A id \in Holding(res, a, sides) : res[id].quantity \in Nat
  BY <1>1, TableEntry
<1>4. Cardinality(Units(res, Holding(res, a, sides))) \in Nat
  BY <1>2, <1>3, UnitsFinite
<1> QED
  BY <1>2, <1>4, FS_CardinalityType

\* The two sides of a change of one side's total.
LEMMA OnFacts ==
  \A n \in Int : /\ On("Buy", "Buy", n) = n /\ On("Sell", "Sell", n) = n
                 /\ On("Buy", "Sell", n) = 0 /\ On("Sell", "Buy", n) = 0
                 /\ Signed("Buy", n) = n /\ Signed("Sell", n) = -n
                 /\ \A s, side \in Side : On(s, side, n) \in Int /\ On(s, s, n) = n
                                          /\ Signed(s, n) \in Int
  BY DEF On, Signed

\* A reservation under a new id joins its account's sum for its side and its
\* account's count, and no other.
LEMMA PutNew ==
  ASSUME NEW res \in Table, IsFiniteSet(DOMAIN res), NEW v \in Reservation,
         NEW id \in OrderIds, id \notin DOMAIN res
  PROVE  Shifts(res, With(res, id, v), v.account_id, v.side, v.quantity, 1)
<1> DEFINE new == With(res, id, v)
           a == v.account_id
<1>1. /\ new \in Table /\ DOMAIN new = DOMAIN res \union {id} /\ new[id] = v
      /\ \A x \in DOMAIN res : new[x] = res[x]
  <2>1. new \in Table /\ DOMAIN new = DOMAIN res \union {id}
    BY Zenon, TableShape
  <2>2. new[id] = v /\ \A x \in DOMAIN res : new[x] = res[x]
    BY DEF With
  <2> QED
    BY <2>1, <2>2
<1> HIDE DEF new
<1>2. ASSUME NEW b, NEW sides, ~(a = b /\ v.side \in sides)
      PROVE  Holding(new, b, sides) = Holding(res, b, sides)
  BY <1>1, <1>2 DEF Holding
<1>3. ASSUME NEW sides, v.side \in sides
      PROVE  /\ Holding(new, a, sides) = Holding(res, a, sides) \union {id}
             /\ id \notin Holding(res, a, sides)
  BY <1>1, <1>3 DEF Holding
<1>4. ASSUME NEW b, NEW sides
      PROVE  Units(new, Holding(res, b, sides)) = Units(res, Holding(res, b, sides))
  <2>1. \A x \in Holding(res, b, sides) : new[x].quantity = res[x].quantity
    BY <1>1 DEF Holding
  <2> QED
    BY <2>1, UnitsSame
<1>5. \A b, sides : /\ IsFiniteSet(Holding(res, b, sides))
                    /\ Cardinality(Holding(res, b, sides)) \in Nat
                    /\ Cardinality(Units(res, Holding(res, b, sides))) \in Nat
  BY SumType
<1>6. v.quantity \in Nat /\ v.side \in Side
  BY DEF Reservation
<1>7. Sum(new, a, v.side) = Sum(res, a, v.side) + v.quantity
  <2> DEFINE held == Holding(res, a, {v.side})
  <2>1. Holding(new, a, {v.side}) = held \union {id} /\ id \notin held
    BY <1>3
  <2>2. \A x \in held \union {id} : new[x].quantity \in Nat
    <3>1. held \union {id} \subseteq DOMAIN new
      BY <1>1 DEF Holding
    <3> QED
      BY <3>1, <1>1, TableEntry
  <2>3. IsFiniteSet(held) /\ Units(new, held) = Units(res, held)
    BY <1>4, <1>5
  <2> HIDE DEF held
  <2>4. Cardinality(Units(new, held \union {id})) = Cardinality(Units(new, held)) + new[id].quantity
    BY <2>1, <2>2, <2>3, UnitsAdd
  <2>5. Cardinality(Units(new, held \union {id})) = Cardinality(Units(res, held)) + v.quantity
    BY <2>3, <2>4, <1>1
  <2> QED
    BY <2>1, <2>5 DEF Sum, held
<1>8. Count(new, a) = Count(res, a) + 1
  <2>1. Holding(new, a, Side) = Holding(res, a, Side) \union {id} /\ id \notin Holding(res, a, Side)
    BY <1>3, <1>6
  <2>2. Cardinality(Holding(res, a, Side) \union {id}) = Cardinality(Holding(res, a, Side)) + 1
    BY Zenon, <1>5, <2>1, FS_AddElement
  <2> QED
    BY <2>1, <2>2 DEF Count
<1>9. ASSUME NEW side \in Side
      PROVE  Sum(new, a, side) = Sum(res, a, side) + On(v.side, side, v.quantity)
  <2>1. CASE side = v.side
    BY <1>6, <1>7, <2>1, OnFacts
  <2>2. CASE side # v.side
    <3>1. Sum(new, a, side) = Sum(res, a, side) /\ Sum(res, a, side) \in Nat
      BY <1>2, <1>4, <1>5, <2>2 DEF Sum
    <3>2. On(v.side, side, v.quantity) = 0
      BY <2>2 DEF On
    <3> QED
      BY <3>1, <3>2
  <2> QED
    BY <2>1, <2>2
<1>10. ASSUME NEW b, b # a
       PROVE  /\ \A side \in Side : Sum(new, b, side) = Sum(res, b, side)
              /\ Count(new, b) = Count(res, b)
  BY <1>2, <1>4, <1>10 DEF Sum, Count
<1> QED
  BY <1>8, <1>9, <1>10 DEF Shifts, new

\* Taking a reservation out and putting one back under its id is replacing it.
LEMMA WithWithout ==
  ASSUME NEW res \in Table, NEW id \in DOMAIN res, NEW v
  PROVE  /\ With(Without(res, id), id, v) = With(res, id, v)
         /\ With(res, id, res[id]) = res
<1>1. PICK ids \in SUBSET OrderIds : res \in [ids -> Reservation]
  BY DEF Table
<1>2. With(Without(res, id), id, v) = With(res, id, v)
  BY <1>1 DEF With, Without
<1>3. With(res, id, res[id]) = res
  BY <1>1 DEF With
<1> QED
  BY <1>2, <1>3

\* Removing a reservation takes its quantity off its account's sum for its side.
LEMMA DropOne ==
  ASSUME NEW res \in Table, IsFiniteSet(DOMAIN res), NEW id \in DOMAIN res
  PROVE  /\ Shifts(res, Without(res, id), res[id].account_id, res[id].side, -res[id].quantity, -1)
         /\ Sum(res, res[id].account_id, res[id].side) >= res[id].quantity
         /\ Count(res, res[id].account_id) >= 1
<1> DEFINE rest == Without(res, id)
           v == res[id]
<1>1. id \in OrderIds /\ v \in Reservation /\ v.quantity \in Nat /\ v.side \in Side
  BY TableEntry
<1>2. rest \in Table /\ DOMAIN rest = DOMAIN res \ {id}
  BY SMTT(30), <1>1, TableShape
<1>3. IsFiniteSet(DOMAIN rest) /\ id \notin DOMAIN rest
  BY <1>2, FS_Subset
<1>4. With(rest, id, v) = res
  BY WithWithout
<1> HIDE DEF rest, v
<1>5. \A b : Count(rest, b) \in Nat /\ \A side \in Side : Sum(rest, b, side) \in Nat
  BY <1>2, <1>3, SumType DEF Count, Sum
<1>6. Shifts(rest, res, v.account_id, v.side, v.quantity, 1)
  BY <1>1, <1>2, <1>3, <1>4, PutNew
<1>7. \A side \in Side : Sum(res, v.account_id, side) = Sum(rest, v.account_id, side) + On(v.side, side, v.quantity)
  BY <1>6 DEF Shifts
<1>8. Count(res, v.account_id) = Count(rest, v.account_id) + 1
  BY <1>6 DEF Shifts
<1>9. ASSUME NEW side \in Side
      PROVE  Sum(rest, v.account_id, side) = Sum(res, v.account_id, side) + On(v.side, side, -v.quantity)
  <2>1. On(v.side, side, -v.quantity) = -On(v.side, side, v.quantity)
    BY <1>1 DEF On
  <2>2. On(v.side, side, v.quantity) \in Int
    BY <1>1, OnFacts
  <2>3. Sum(rest, v.account_id, side) \in Nat
    BY <1>5
  <2>4. Sum(res, v.account_id, side) = Sum(rest, v.account_id, side) + On(v.side, side, v.quantity)
    BY <1>7
  <2> QED
    BY <2>1, <2>2, <2>3, <2>4
<1>10. Shifts(res, rest, v.account_id, v.side, -v.quantity, -1)
  BY <1>5, <1>6, <1>8, <1>9 DEF Shifts
<1>11. Sum(res, v.account_id, v.side) >= v.quantity /\ Count(res, v.account_id) >= 1
  BY <1>1, <1>5, <1>7, <1>8, OnFacts
<1> QED
  BY <1>10, <1>11 DEF rest, v

\* A new quantity for a reservation changes its account's sum for its side by
\* the difference, and no count.
LEMMA ChangeOne ==
  ASSUME NEW res \in Table, IsFiniteSet(DOMAIN res), NEW id \in DOMAIN res, NEW q \in Nat
  PROVE  Shifts(res, With(res, id, Sized(res[id], q)), res[id].account_id, res[id].side,
                q - res[id].quantity, 0)
<1> DEFINE rest == Without(res, id)
           v == res[id]
           w == Sized(v, q)
           new == With(res, id, w)
           a == v.account_id
<1>1. id \in OrderIds /\ v \in Reservation /\ v.quantity \in Nat /\ v.side \in Side
  BY TableEntry
<1>2. rest \in Table /\ DOMAIN rest = DOMAIN res \ {id}
  BY Zenon, <1>1, TableShape
<1>3. IsFiniteSet(DOMAIN rest) /\ id \notin DOMAIN rest
  BY <1>2, FS_Subset
<1>4. With(rest, id, w) = new
  BY WithWithout
<1>5. Shifts(res, rest, a, v.side, -v.quantity, -1)
  BY DropOne
<1> HIDE DEF rest, v
<1>6. w \in Reservation /\ w.account_id = a /\ w.side = v.side /\ w.quantity = q
  BY <1>1 DEF Sized, Reservation
<1> HIDE DEF w, new
<1>7. Shifts(rest, new, w.account_id, w.side, w.quantity, 1)
  BY <1>1, <1>2, <1>3, <1>4, <1>6, PutNew
<1>8. \A b : Count(res, b) \in Nat /\ \A side \in Side : Sum(res, b, side) \in Nat
  BY SumType DEF Count, Sum
<1>9. ASSUME NEW side \in Side
      PROVE  Sum(new, a, side) = Sum(res, a, side) + On(v.side, side, q - v.quantity)
  <2>1. Sum(rest, a, side) = Sum(res, a, side) + On(v.side, side, -v.quantity)
    BY <1>5 DEF Shifts
  <2>2. Sum(new, a, side) = Sum(rest, a, side) + On(v.side, side, q)
    BY <1>6, <1>7 DEF Shifts
  <2>3. On(v.side, side, q - v.quantity) = On(v.side, side, -v.quantity) + On(v.side, side, q)
    BY <1>1 DEF On
  <2>4. On(v.side, side, -v.quantity) \in Int /\ On(v.side, side, q) \in Int
    BY <1>1, OnFacts
  <2>5. Sum(res, a, side) \in Nat
    BY Zenon, <1>8
  <2> QED
    BY <2>1, <2>2, <2>3, <2>4, <2>5
<1>10. Count(new, a) = Count(res, a) + 0
  <2>1. Count(rest, a) = Count(res, a) + (-1) /\ Count(new, a) = Count(rest, a) + 1
    BY <1>5, <1>6, <1>7 DEF Shifts
  <2> QED
    BY <1>8, <2>1
<1>11. ASSUME NEW b, b # a
       PROVE  /\ \A side \in Side : Sum(new, b, side) = Sum(res, b, side)
              /\ Count(new, b) = Count(res, b)
  BY <1>5, <1>6, <1>7, <1>11 DEF Shifts
<1> QED
  BY <1>9, <1>10, <1>11 DEF Shifts, new, w, v

-----------------------------------------------------------------------------
(* Accounts: what each change of an account's fields gives                 *)

\* An entry of the account table is an account under an account id.
LEMMA AccountEntry ==
  ASSUME NEW accts \in AccountTable, NEW a \in DOMAIN accts
  PROVE  a \in AccountIds /\ accts[a] \in Account
<1>1. PICK ids \in SUBSET AccountIds : accts \in [ids -> Account]
  BY DEF AccountTable
<1> QED
  BY <1>1

\* The shape of an account table with an account added or replaced.
LEMMA AccountsShape ==
  ASSUME NEW accts \in AccountTable, NEW a \in AccountIds, NEW acct \in Account
  PROVE  /\ With(accts, a, acct) \in AccountTable
         /\ DOMAIN With(accts, a, acct) = DOMAIN accts \union {a}
<1>1. PICK ids \in SUBSET AccountIds : accts \in [ids -> Account]
  BY DEF AccountTable
<1>2. With(accts, a, acct) \in [ids \union {a} -> Account]
  BY <1>1 DEF With
<1> QED
  BY Zenon, <1>2, <1>1 DEF With, AccountTable

\* The fields of an account.
LEMMA AccountFields ==
  ASSUME NEW acct \in Account
  PROVE  /\ acct.limits \in Limits
         /\ acct.limits.max_abs_position \in Nat /\ acct.limits.max_open_orders \in Nat
         /\ acct.settled_position \in Int /\ acct.reserved_buys \in Nat
         /\ acct.reserved_sells \in Nat /\ acct.open_orders \in Nat
         /\ acct.killed \in BOOLEAN
         /\ acct = [limits |-> acct.limits, settled_position |-> acct.settled_position,
                    reserved_buys |-> acct.reserved_buys,
                    reserved_sells |-> acct.reserved_sells,
                    open_orders |-> acct.open_orders, killed |-> acct.killed]
  BY RiskAssumption DEF Account

\* The fields of a moved account.
LEMMA MovedFields ==
  ASSUME NEW acct \in Account, NEW s, NEW d, NEW n, NEW c
  PROVE  /\ Moved(acct, s, d, n, c).limits = acct.limits
         /\ Moved(acct, s, d, n, c).settled_position = acct.settled_position + d
         /\ Moved(acct, s, d, n, c).reserved_buys = acct.reserved_buys + On(s, "Buy", n)
         /\ Moved(acct, s, d, n, c).reserved_sells = acct.reserved_sells + On(s, "Sell", n)
         /\ Moved(acct, s, d, n, c).open_orders = acct.open_orders + c
         /\ Moved(acct, s, d, n, c).killed = acct.killed
  BY DEF Moved

\* What a move leaves within the position limit does not depend on the count.
LEMMA CountIsNoPosition ==
  ASSUME NEW acct \in Account, NEW s, NEW d, NEW n, NEW c
  PROVE  WithinPosition(Moved(acct, s, d, n, c)) <=> WithinPosition(Moved(acct, s, d, n, 0))
  BY MovedFields DEF WithinPosition

\* Filling f of at least f released units never leaves the position limit: the
\* reservation had allowed for the position the fill creates.
LEMMA FillStaysWithin ==
  ASSUME NEW acct \in Account, WithinPosition(acct), NEW s \in Side, NEW f \in Nat,
         NEW n \in Int, n + f <= 0, NEW c
  PROVE  WithinPosition(Moved(acct, s, Signed(s, f), n, c))
<1> DEFINE m == Moved(acct, s, Signed(s, f), n, c)
<1>1. /\ m.limits = acct.limits /\ m.settled_position = acct.settled_position + Signed(s, f)
      /\ m.reserved_buys = acct.reserved_buys + On(s, "Buy", n)
      /\ m.reserved_sells = acct.reserved_sells + On(s, "Sell", n)
  BY MovedFields
<1>2. /\ acct.limits.max_abs_position \in Nat /\ acct.settled_position \in Int
      /\ acct.reserved_buys \in Nat /\ acct.reserved_sells \in Nat
  BY AccountFields
<1> SUFFICES WithinPosition(m)
  OBVIOUS
<1> HIDE DEF m
<1>3. CASE s = "Buy"
  <2>1. Signed(s, f) = f /\ On(s, "Buy", n) = n /\ On(s, "Sell", n) = 0
    BY <1>3 DEF On, Signed
  <2> QED
    BY <1>1, <1>2, <2>1 DEF WithinPosition
<1>4. CASE s = "Sell"
  <2>1. Signed(s, f) = -f /\ On(s, "Buy", n) = 0 /\ On(s, "Sell", n) = n
    BY <1>4 DEF On, Signed
  <2> QED
    BY <1>1, <1>2, <2>1 DEF WithinPosition
<1> QED
  BY <1>3, <1>4 DEF Side

\* Reserve moves the total of its side and nothing else.
LEMMA ReserveMoves ==
  ASSUME NEW acct \in Account, NEW side \in Side, NEW n \in Int
  PROVE  Reserve(acct, side, n) = Moved(acct, side, 0, n, 0)
<1>1. /\ acct.settled_position \in Int /\ acct.reserved_buys \in Nat
      /\ acct.reserved_sells \in Nat /\ acct.open_orders \in Nat
      /\ acct = [limits |-> acct.limits, settled_position |-> acct.settled_position,
                 reserved_buys |-> acct.reserved_buys, reserved_sells |-> acct.reserved_sells,
                 open_orders |-> acct.open_orders, killed |-> acct.killed]
  BY AccountFields
<1>2. CASE side = "Buy"
  BY <1>1, <1>2 DEF Reserve, Moved, On
<1>3. CASE side = "Sell"
  BY <1>1, <1>3 DEF Reserve, Moved, On
<1> QED
  BY <1>2, <1>3 DEF Side

\* Moving the total back gives the account back.
LEMMA MoveBack ==
  ASSUME NEW acct \in Account, NEW s \in Side, NEW n \in Int
  PROVE  Moved(Moved(acct, s, 0, n, 0), s, 0, -n, 0) = acct
<1>1. /\ acct.settled_position \in Int /\ acct.reserved_buys \in Nat
      /\ acct.reserved_sells \in Nat /\ acct.open_orders \in Nat
      /\ acct = [limits |-> acct.limits, settled_position |-> acct.settled_position,
                 reserved_buys |-> acct.reserved_buys, reserved_sells |-> acct.reserved_sells,
                 open_orders |-> acct.open_orders, killed |-> acct.killed]
  BY AccountFields
<1>2. CASE s = "Buy"
  BY <1>1, <1>2 DEF Moved, On
<1>3. CASE s = "Sell"
  BY <1>1, <1>3 DEF Moved, On
<1> QED
  BY <1>2, <1>3 DEF Side

\* With one account replaced and the reservations of the others unchanged, the
\* engine is as good as that account is.
LEMMA ReplaceAccount ==
  ASSUME NEW accts, NEW res, NEW mark, NEW k, FieldsOk(accts, res, mark, k),
         NEW a \in DOMAIN accts, NEW acct \in Account,
         NEW new, NEW newmark, TableOk(new, DOMAIN accts, newmark),
         AccountOk(acct, new, a),
         \A b \in DOMAIN accts : b # a =>
            /\ \A side \in Side : Sum(new, b, side) = Sum(res, b, side)
            /\ Count(new, b) = Count(res, b)
  PROVE  FieldsOk(With(accts, a, acct), new, newmark, k)
<1> DEFINE all == With(accts, a, acct)
<1>1. a \in AccountIds
  BY AccountEntry DEF FieldsOk
<1>2. all \in AccountTable /\ DOMAIN all = DOMAIN accts
  BY <1>1, AccountsShape DEF FieldsOk
<1>3. ASSUME NEW b \in DOMAIN accts
      PROVE  AccountOk(all[b], new, b)
  <2>1. CASE b = a
    BY <2>1 DEF With
  <2>2. CASE b # a
    <3>1. all[b] = accts[b]
      BY <2>2 DEF With
    <3>2. AccountOk(accts[b], res, b)
      BY DEF FieldsOk
    <3>3. /\ Sum(new, b, "Buy") = Sum(res, b, "Buy") /\ Sum(new, b, "Sell") = Sum(res, b, "Sell")
          /\ Count(new, b) = Count(res, b)
      BY <2>2 DEF Side
    <3> QED
      BY <3>1, <3>2, <3>3 DEF AccountOk
  <2> QED
    BY <2>1, <2>2
<1> HIDE DEF all
<1>4. FieldsOk(all, new, newmark, k)
  BY <1>2, <1>3 DEF FieldsOk
<1> QED
  BY <1>4 DEF all

\* When one account moves as its reservations shift, within its limits, every
\* account still agrees with the reservations.
LEMMA StepKeepsFields ==
  ASSUME NEW accts, NEW res, NEW mark, NEW k, FieldsOk(accts, res, mark, k),
         NEW a \in DOMAIN accts, NEW new, NEW newmark, TableOk(new, DOMAIN accts, newmark),
         NEW s \in Side, NEW d \in Int, NEW n \in Int, NEW c \in Int,
         Shifts(res, new, a, s, n, c),
         WithinPosition(Moved(accts[a], s, d, n, c)),
         accts[a].open_orders + c <= accts[a].limits.max_open_orders
  PROVE  FieldsOk(With(accts, a, Moved(accts[a], s, d, n, c)), new, newmark, k)
<1> DEFINE acct == Moved(accts[a], s, d, n, c)
<1>1. accts \in AccountTable /\ \A b \in DOMAIN accts : AccountOk(accts[b], res, b)
  BY DEF FieldsOk
<1>2. a \in AccountIds /\ accts[a] \in Account
  BY SMTT(30), <1>1, AccountEntry
<1>3. /\ acct.limits = accts[a].limits /\ acct.settled_position = accts[a].settled_position + d
      /\ acct.reserved_buys = accts[a].reserved_buys + On(s, "Buy", n)
      /\ acct.reserved_sells = accts[a].reserved_sells + On(s, "Sell", n)
      /\ acct.open_orders = accts[a].open_orders + c /\ acct.killed = accts[a].killed
  BY SMTT(30), <1>2, MovedFields
<1>4. /\ acct.reserved_buys = Sum(new, a, "Buy") /\ acct.reserved_sells = Sum(new, a, "Sell")
      /\ acct.open_orders = Count(new, a)
  <2>1. /\ accts[a].reserved_buys = Sum(res, a, "Buy")
        /\ accts[a].reserved_sells = Sum(res, a, "Sell")
        /\ accts[a].open_orders = Count(res, a)
    BY <1>1 DEF AccountOk
  <2>2. /\ Sum(new, a, "Buy") = Sum(res, a, "Buy") + On(s, "Buy", n)
        /\ Sum(new, a, "Sell") = Sum(res, a, "Sell") + On(s, "Sell", n)
        /\ Count(new, a) = Count(res, a) + c
    BY SMTT(30) DEF Shifts, Side
  <2> QED
    BY SMTT(30), <1>3, <2>1, <2>2
<1>5. AccountOk(acct, new, a)
  <2>1. ~InvalidLimits(accts[a].limits)
    BY <1>1 DEF AccountOk
  <2> QED
    BY SMTT(30), <1>3, <1>4, <2>1 DEF AccountOk
<1>6. acct \in Account
  <2>1. Sum(new, a, "Buy") \in Nat /\ Sum(new, a, "Sell") \in Nat /\ Count(new, a) \in Nat
    BY SumType DEF TableOk, Sum, Count
  <2>2. acct.limits \in Limits /\ acct.settled_position \in Int /\ acct.killed \in BOOLEAN
    BY SMTT(30), <1>2, <1>3, AccountFields
  <2>3. acct = [limits |-> acct.limits, settled_position |-> acct.settled_position,
                reserved_buys |-> acct.reserved_buys, reserved_sells |-> acct.reserved_sells,
                open_orders |-> acct.open_orders, killed |-> acct.killed]
    BY DEF Moved
  <2> HIDE DEF acct
  <2> QED
    BY <1>4, <2>1, <2>2, <2>3 DEF Account
<1>7. \A b \in DOMAIN accts : b # a =>
        /\ \A side \in Side : Sum(new, b, side) = Sum(res, b, side)
        /\ Count(new, b) = Count(res, b)
  BY SMTT(30) DEF Shifts
<1> HIDE DEF acct
<1>8. FieldsOk(With(accts, a, acct), new, newmark, k)
  BY <1>5, <1>6, <1>7, ReplaceAccount
<1> QED
  BY <1>8 DEF acct

\* What the updates of the engine's tables leave behind.
LEMMA Updates ==
  ASSUME NEW r, r = [accounts |-> r.accounts, reservations |-> r.reservations,
                     maximum_order_id |-> r.maximum_order_id, killed |-> r.killed],
         NEW a, NEW acct, NEW id, NEW v
  PROVE  /\ PutAccount(r, a, acct) =
              [accounts |-> With(r.accounts, a, acct), reservations |-> r.reservations,
               maximum_order_id |-> r.maximum_order_id, killed |-> r.killed]
         /\ PutReservation(PutAccount(r, a, acct), id, v) =
              [accounts |-> With(r.accounts, a, acct),
               reservations |-> With(r.reservations, id, v),
               maximum_order_id |-> r.maximum_order_id, killed |-> r.killed]
         /\ DropReservation(PutAccount(r, a, acct), id) =
              [accounts |-> With(r.accounts, a, acct),
               reservations |-> Without(r.reservations, id),
               maximum_order_id |-> r.maximum_order_id, killed |-> r.killed]
<1> DEFINE A == r.accounts
           R == r.reservations
           m == r.maximum_order_id
           k == r.killed
<1>1. r = [accounts |-> A, reservations |-> R, maximum_order_id |-> m, killed |-> k]
  OBVIOUS
<1> HIDE DEF A, R, m, k
<1>2. PutAccount(r, a, acct) = [accounts |-> With(A, a, acct), reservations |-> R,
                                maximum_order_id |-> m, killed |-> k]
  BY <1>1 DEF PutAccount
<1>3. PutReservation(PutAccount(r, a, acct), id, v) =
        [accounts |-> With(A, a, acct), reservations |-> With(R, id, v),
         maximum_order_id |-> m, killed |-> k]
  BY <1>2 DEF PutReservation
<1>4. DropReservation(PutAccount(r, a, acct), id) =
        [accounts |-> With(A, a, acct), reservations |-> Without(R, id),
         maximum_order_id |-> m, killed |-> k]
  BY <1>2 DEF DropReservation
<1> QED
  BY <1>2, <1>3, <1>4 DEF A, R, m, k

\* An engine value made of good fields is good.
LEMMA MakeOk ==
  ASSUME NEW accts, NEW res, NEW mark, NEW k, FieldsOk(accts, res, mark, k)
  PROVE  RiskOk([accounts |-> accts, reservations |-> res,
                 maximum_order_id |-> mark, killed |-> k])
<1> DEFINE r == [accounts |-> accts, reservations |-> res,
                 maximum_order_id |-> mark, killed |-> k]
<1>1. r.accounts = accts /\ r.reservations = res /\ r.maximum_order_id = mark /\ r.killed = k
  BY SMTT(30)
<1> QED
  BY SMTT(30), <1>1 DEF RiskOk

-----------------------------------------------------------------------------
(* Operations                                                              *)

\* A live order's owner is registered, and its total and its open-order count
\* contain the order.
LEMMA LiveOrder ==
  ASSUME NEW r, RiskOk(r), NEW id, Live(r, id)
  PROVE  LET v == r.reservations[id]
             acct == r.accounts[v.account_id]
         IN  /\ id \in OrderIds /\ id \in DOMAIN r.reservations /\ id <= r.maximum_order_id
             /\ v \in Reservation /\ v.side \in Side /\ v.quantity \in Nat
             /\ v.account_id \in DOMAIN r.accounts
             /\ acct \in Account /\ AccountOk(acct, r.reservations, v.account_id)
             /\ v.quantity <= Total(acct, v.side) /\ Total(acct, v.side) \in Nat
             /\ acct.open_orders >= 1
<1> DEFINE R == r.reservations
           v == R[id]
           a == v.account_id
           acct == r.accounts[a]
<1>1. R \in Table /\ IsFiniteSet(DOMAIN R) /\ id \in DOMAIN R
  BY DEF RiskOk, FieldsOk, TableOk, Live
<1>2. id \in OrderIds /\ v \in Reservation /\ v.side \in Side /\ v.quantity \in Nat
  BY <1>1, TableEntry
<1>3. a \in DOMAIN r.accounts /\ id <= r.maximum_order_id
  BY <1>1 DEF RiskOk, FieldsOk, TableOk
<1>4. acct \in Account /\ AccountOk(acct, R, a)
  BY <1>3, AccountEntry DEF RiskOk, FieldsOk
<1> HIDE DEF R
<1>5. Sum(R, a, v.side) >= v.quantity /\ Count(R, a) >= 1
  BY <1>1, DropOne
<1> HIDE DEF v, acct
<1>6. v.quantity <= Total(acct, v.side) /\ acct.open_orders >= 1
  BY <1>2, <1>4, <1>5 DEF AccountOk, Side, Total
<1>7. Total(acct, v.side) \in Nat
  BY <1>4, AccountFields DEF Total
<1> QED
  BY <1>1, <1>2, <1>3, <1>4, <1>6, <1>7 DEF R, v, acct

\* An engine without accounts is good.
LEMMA EmptyOk ==
  RiskOk(EmptyRisk)
<1>1. << >> \in AccountTable /\ << >> \in Table /\ DOMAIN << >> = {}
  <2>1. << >> \in [{} -> Account] /\ << >> \in [{} -> Reservation] /\ DOMAIN << >> = {}
    OBVIOUS
  <2>2. {} \in SUBSET AccountIds /\ {} \in SUBSET OrderIds
    OBVIOUS
  <2> QED
    BY Zenon, <2>1, <2>2 DEF AccountTable, Table
<1>2. IsFiniteSet({}) /\ Cardinality({}) = 0
  BY FS_EmptySet
<1>3. FieldsOk(<< >>, << >>, NoOrder, FALSE)
  BY <1>1, <1>2, RiskAssumption DEF FieldsOk, TableOk
<1> QED
  BY Zenon, <1>3, MakeOk DEF EmptyRisk
=============================================================================
