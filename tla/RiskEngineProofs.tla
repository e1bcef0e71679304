-------------------------- MODULE RiskEngineProofs --------------------------
(***************************************************************************)
(* The risk engine keeps its totals and its limits and can always undo,    *)
(* for every set of ids, every limit and every quantity: what each         *)
(* operation does to a good engine r, then the invariant of RiskEngine.    *)
(***************************************************************************)
EXTENDS RiskEngine, RiskProofs

\* register_account: a new account holds no reservation, and none of its
\* totals is off.
LEMMA RegisterKeepsOk ==
  ASSUME NEW r, RiskOk(r), NEW a \in AccountIds, NEW l \in Limits,
         RegisterReject(r, a, l) = "Ok"
  PROVE  RiskOk(RegisterAccount(r, a, l))
<1> DEFINE A == r.accounts
           R == r.reservations
           acct == [limits |-> l, settled_position |-> 0, reserved_buys |-> 0,
                    reserved_sells |-> 0, open_orders |-> 0, killed |-> FALSE]
           all == With(A, a, acct)
<1>1. ~InvalidLimits(l) /\ a \notin DOMAIN A /\ ~(Cardinality(DOMAIN A) >= ACCOUNTS)
  BY DEF RegisterReject, Registered
<1>2. acct \in Account
  BY DEF Account
<1>3. FieldsOk(A, R, r.maximum_order_id, r.killed)
  BY DEF RiskOk
<1>4. RegisterAccount(r, a, l) = [accounts |-> all, reservations |-> R,
        maximum_order_id |-> r.maximum_order_id, killed |-> r.killed]
  BY Updates DEF RegisterAccount, RiskOk
<1>5. all \in AccountTable /\ DOMAIN all = DOMAIN A \union {a}
  BY <1>2, <1>3, AccountsShape DEF FieldsOk
<1>6. IsFiniteSet(DOMAIN all) /\ Cardinality(DOMAIN all) <= ACCOUNTS
  <2>1. IsFiniteSet(DOMAIN A) /\ Cardinality(DOMAIN A) \in Nat
    BY <1>3, FS_CardinalityType DEF FieldsOk
  <2>2. IsFiniteSet(DOMAIN A \union {a}) /\ Cardinality(DOMAIN A \union {a}) = Cardinality(DOMAIN A) + 1
    BY Zenon, <1>1, <2>1, FS_AddElement
  <2> QED
    BY <1>1, <1>5, <2>1, <2>2, RiskAssumption
<1>7. TableOk(R, DOMAIN all, r.maximum_order_id)
  BY <1>3, <1>5 DEF FieldsOk, TableOk
<1>8. ASSUME NEW b \in DOMAIN all
      PROVE  AccountOk(all[b], R, b)
  <2>1. CASE b = a
    <3>1. \A sides : Holding(R, a, sides) = {}
      BY <1>1, <1>3 DEF Holding, FieldsOk, TableOk
    <3>2. Units(R, {}) = {}
      BY DEF Units
    <3>3. Sum(R, a, "Buy") = 0 /\ Sum(R, a, "Sell") = 0 /\ Count(R, a) = 0
      BY Zenon, <3>1, <3>2, FS_EmptySet DEF Sum, Count
    <3>4. WithinPosition(acct) /\ acct.open_orders <= acct.limits.max_open_orders
      BY RiskAssumption DEF WithinPosition
    <3>5. AccountOk(acct, R, a)
      BY <1>1, <3>3, <3>4 DEF AccountOk
    <3> QED
      BY <2>1, <3>5 DEF With
  <2>2. CASE b # a
    BY <1>3, <1>5, <2>2 DEF FieldsOk, With
  <2> QED
    BY <2>1, <2>2
<1> HIDE DEF all, A, R
<1>9. FieldsOk(all, R, r.maximum_order_id, r.killed)
  BY <1>3, <1>5, <1>6, <1>7, <1>8 DEF FieldsOk
<1> QED
  BY <1>4, <1>9, MakeOk

\* set_kill_switch touches no table.
LEMMA KillKeepsOk ==
  ASSUME NEW r, RiskOk(r), NEW k \in BOOLEAN
  PROVE  RiskOk(SetKillSwitch(r, k)) /\ SetKillSwitch(r, k).reservations = r.reservations
<1> DEFINE A == r.accounts
           R == r.reservations
           m == r.maximum_order_id
<1>1. r = [accounts |-> A, reservations |-> R, maximum_order_id |-> m, killed |-> r.killed]
  BY DEF RiskOk
<1>2. FieldsOk(A, R, m, k)
  BY DEF RiskOk, FieldsOk
<1> HIDE DEF A, R, m
<1>3. SetKillSwitch(r, k) = [accounts |-> A, reservations |-> R,
                             maximum_order_id |-> m, killed |-> k]
  BY <1>1 DEF SetKillSwitch
<1> QED
  BY <1>1, <1>2, <1>3, MakeOk

\* set_account_kill_switch touches no total.
LEMMA KillAccountKeepsOk ==
  ASSUME NEW r, RiskOk(r), NEW a, Registered(r, a), NEW k \in BOOLEAN
  PROVE  /\ RiskOk(SetAccountKillSwitch(r, a, k))
         /\ SetAccountKillSwitch(r, a, k).reservations = r.reservations
         /\ SetAccountKillSwitch(r, a, k).maximum_order_id = r.maximum_order_id
<1> DEFINE A == r.accounts
           R == r.reservations
           m == r.maximum_order_id
           kk == r.killed
           acct == [A[a] EXCEPT !.killed = k]
<1>1. r = [accounts |-> A, reservations |-> R, maximum_order_id |-> m, killed |-> kk]
  BY DEF RiskOk
<1>2. FieldsOk(A, R, m, kk) /\ a \in DOMAIN A
  BY DEF RiskOk, Registered
<1>3. A[a] \in Account /\ AccountOk(A[a], R, a)
  BY <1>2, AccountEntry DEF FieldsOk
<1>4. acct \in Account
  BY <1>3 DEF Account
<1>5. AccountOk(acct, R, a)
  BY <1>3 DEF AccountOk, WithinPosition, Account
<1>6. With(A, a, acct) = [A EXCEPT ![a].killed = k]
  <2>1. PICK ids \in SUBSET AccountIds : A \in [ids -> Account]
    BY <1>2 DEF FieldsOk, AccountTable
  <2> QED
    BY <1>2, <2>1 DEF With
<1> HIDE DEF A, R, m, kk, acct
<1>7. SetAccountKillSwitch(r, a, k) = [accounts |-> With(A, a, acct), reservations |-> R,
                                       maximum_order_id |-> m, killed |-> kk]
  BY <1>1, <1>6 DEF SetAccountKillSwitch
<1>8. TableOk(R, DOMAIN A, m)
  BY <1>2 DEF FieldsOk
<1>9. FieldsOk(With(A, a, acct), R, m, kk)
  BY SMTT(30), <1>2, <1>4, <1>5, <1>8, ReplaceAccount
<1> QED
  BY <1>1, <1>7, <1>9, MakeOk

\* What acceptance by the limits means.
LEMMA AcceptedOrder ==
  ASSUME NEW r, NEW order, ReserveReject(r, order) = "Ok"
  PROVE  LET acct == r.accounts[order.account_id]
         IN  /\ ~(order.order_id <= r.maximum_order_id)
             /\ ~(Cardinality(DOMAIN r.reservations) >= ORDERS)
             /\ order.account_id \in DOMAIN r.accounts
             /\ WithinPosition(Reserve(acct, order.side, order.quantity))
             /\ ~AtOpenOrderLimit(acct)
             /\ order.quantity # 0
<1>1. /\ ~(order.order_id <= r.maximum_order_id)
      /\ ~(Cardinality(DOMAIN r.reservations) >= ORDERS)
      /\ order.account_id \in DOMAIN r.accounts
      /\ EvaluateLimits(r.accounts[order.account_id], order) = "Ok"
      /\ order.quantity # 0
  BY DEF ReserveReject, DuplicateOrderId, Registered
<1> QED
  BY <1>1 DEF EvaluateLimits

\* check_and_reserve: an accepted order joins its account's totals, within the
\* account's limits, under an id above the watermark.
LEMMA ReserveKeepsOk ==
  ASSUME NEW r, RiskOk(r), NEW order, order.order_id \in OrderIds, order.side \in Side,
         order.quantity \in Nat, ReserveReject(r, order) = "Ok"
  PROVE  /\ RiskOk(CheckAndReserve(r, order))
         /\ ~Live(r, order.order_id)
         /\ DOMAIN CheckAndReserve(r, order).reservations = DOMAIN r.reservations \union {order.order_id}
         /\ CheckAndReserve(r, order).maximum_order_id = order.order_id
<1> DEFINE A == r.accounts
           R == r.reservations
           m == r.maximum_order_id
           a == order.account_id
           id == order.order_id
           s == order.side
           q == order.quantity
           v == [account_id |-> a, side |-> s, quantity |-> q]
           acct == Moved(A[a], s, 0, q, 1)
           new == With(R, id, v)
<1>1. FieldsOk(A, R, m, r.killed) /\ id \in OrderIds /\ s \in Side /\ q \in Nat
  BY DEF RiskOk
<1>2. /\ ~(id <= m) /\ ~(Cardinality(DOMAIN R) >= ORDERS) /\ a \in DOMAIN A
      /\ WithinPosition(Reserve(A[a], s, q)) /\ ~AtOpenOrderLimit(A[a])
  BY AcceptedOrder
<1>3. PutReservation(PutAccount(r, a, acct), id, v) =
        [accounts |-> With(A, a, acct), reservations |-> new,
         maximum_order_id |-> m, killed |-> r.killed]
  BY Updates DEF RiskOk
<1>4. CheckAndReserve(r, order) =
        [PutReservation(PutAccount(r, a, [Reserve(A[a], s, q) EXCEPT !.open_orders = @ + 1]), id, v)
            EXCEPT !.maximum_order_id = id]
  BY DEF CheckAndReserve
<1>5. Live(r, id) <=> id \in DOMAIN R
  BY SMTT(30) DEF Live
<1> HIDE DEF A, R, m, a, id, s, q
<1>6. R \in Table /\ IsFiniteSet(DOMAIN R) /\ TableOk(R, DOMAIN A, m) /\ A \in AccountTable
  BY SMTT(30), <1>1 DEF FieldsOk, TableOk
<1>7. A[a] \in Account /\ AccountOk(A[a], R, a) /\ a \in AccountIds
  BY <1>1, <1>2, <1>6, AccountEntry DEF FieldsOk
<1>8. m \in Int /\ id \in Nat
  BY <1>1, <1>6, RiskAssumption DEF TableOk, NoOrder
<1>9. \A x \in DOMAIN R : x <= m /\ x \in Nat /\ R[x].account_id \in DOMAIN A
  BY Zenon, <1>6, TableEntry, RiskAssumption DEF TableOk
<1>10. id \notin DOMAIN R
  BY <1>2, <1>9
<1>11. [Reserve(A[a], s, q) EXCEPT !.open_orders = @ + 1] = acct
  <2>1. Reserve(A[a], s, q) = Moved(A[a], s, 0, q, 0)
    BY <1>1, <1>7, ReserveMoves
  <2>2. A[a].open_orders \in Nat
    BY <1>7, AccountFields
  <2> QED
    BY <2>1, <2>2 DEF Moved
<1>12. v \in Reservation /\ v.account_id = a /\ v.side = s /\ v.quantity = q
  BY <1>1, <1>7 DEF Reservation
<1> HIDE DEF v, acct
<1>13. CheckAndReserve(r, order) = [accounts |-> With(A, a, acct), reservations |-> new,
                                    maximum_order_id |-> id, killed |-> r.killed]
  BY SMTT(30), <1>3, <1>4, <1>11
<1>14. new \in Table /\ DOMAIN new = DOMAIN R \union {id}
  BY Zenon, <1>1, <1>6, <1>12, TableShape
<1>15. new[id] = v /\ \A x \in DOMAIN R : new[x] = R[x]
  BY <1>10 DEF With
<1>16. Shifts(R, new, a, s, q, 1)
  BY <1>1, <1>6, <1>10, <1>12, PutNew
<1> HIDE DEF new
<1>17. TableOk(new, DOMAIN A, id)
  <2>1. Cardinality(DOMAIN R) \in Nat
    BY <1>6, FS_CardinalityType
  <2>2. IsFiniteSet(DOMAIN new) /\ Cardinality(DOMAIN new) = Cardinality(DOMAIN R) + 1
    BY <1>6, <1>10, <1>14, FS_AddElement
  <2>3. Cardinality(DOMAIN new) <= ORDERS
    BY SMTT(30), <1>2, <2>1, <2>2, RiskAssumption
  <2>4. \A x \in DOMAIN new : new[x].account_id \in DOMAIN A /\ x <= id
    BY SMTT(30), <1>2, <1>8, <1>9, <1>12, <1>14, <1>15
  <2> QED
    BY <1>1, <1>14, <2>2, <2>3, <2>4 DEF TableOk
<1>18. WithinPosition(acct)
  <2>1. Reserve(A[a], s, q) = Moved(A[a], s, 0, q, 0)
    BY <1>1, <1>7, ReserveMoves
  <2> QED
    BY SMTT(30), <1>2, <1>7, <2>1, CountIsNoPosition DEF acct
<1>19. A[a].open_orders + 1 <= A[a].limits.max_open_orders
  BY SMTT(30), <1>2, <1>7, AccountFields DEF AtOpenOrderLimit
<1>20. FieldsOk(With(A, a, acct), new, id, r.killed)
  BY SMTT(30), <1>1, <1>2, <1>16, <1>17, <1>18, <1>19, StepKeepsFields DEF acct
<1>21. RiskOk(CheckAndReserve(r, order))
  BY <1>13, <1>20, MakeOk
<1> QED
  BY <1>5, <1>10, <1>13, <1>14, <1>21 DEF R, id

\* The account after a fill: filled units become position, released ones leave
\* the total of the side.
LEMMA FillMoves ==
  ASSUME NEW acct \in Account, NEW side \in Side, NEW filled \in Nat, NEW released \in Nat
  PROVE  ExposureAfterFill(acct, side, filled, released) =
           Moved(acct, side, Signed(side, filled), -released, 0)
<1>1. Reserve(acct, side, -released) = Moved(acct, side, 0, -released, 0)
  BY ReserveMoves
<1>2. acct.settled_position \in Int
  BY AccountFields
<1>3. CASE side = "Buy"
  BY <1>1, <1>2, <1>3 DEF ExposureAfterFill, Moved, Signed
<1>4. CASE side = "Sell"
  BY <1>1, <1>2, <1>4 DEF ExposureAfterFill, Moved, Signed
<1> QED
  BY <1>3, <1>4 DEF Side

\* settle: the order leaves the table and the totals, and what filled becomes
\* position that its reservation had already allowed for.
LEMMA SettleKeepsOk ==
  ASSUME NEW r, RiskOk(r), NEW id, Live(r, id), NEW filled \in Nat,
         filled <= r.reservations[id].quantity
  PROVE  /\ RiskOk(Settle(r, id, filled))
         /\ Settle(r, id, filled).reservations = Without(r.reservations, id)
         /\ Settle(r, id, filled).maximum_order_id = r.maximum_order_id
<1> DEFINE A == r.accounts
           R == r.reservations
           m == r.maximum_order_id
           v == R[id]
           a == v.account_id
           old == A[a]
           acct == Moved(old, v.side, Signed(v.side, filled), -v.quantity, -1)
           new == Without(R, id)
<1>1. /\ id \in OrderIds /\ id \in DOMAIN R /\ v.side \in Side /\ v.quantity \in Nat
      /\ a \in DOMAIN A /\ old \in Account /\ AccountOk(old, R, a)
  BY LiveOrder
<1>2. FieldsOk(A, R, m, r.killed) /\ filled <= v.quantity
  BY DEF RiskOk
<1>3. DropReservation(PutAccount(r, a, acct), id) =
        [accounts |-> With(A, a, acct), reservations |-> new,
         maximum_order_id |-> m, killed |-> r.killed]
  BY SMTT(30), Updates DEF RiskOk
<1>4. Settle(r, id, filled) = DropReservation(PutAccount(r, a,
         [ExposureAfterFill(old, v.side, filled, v.quantity) EXCEPT !.open_orders = @ - 1]), id)
  BY DEF Settle
<1> HIDE DEF A, R, m
<1>5. TableOk(R, DOMAIN A, m) /\ R \in Table /\ IsFiniteSet(DOMAIN R)
  BY SMTT(30), <1>2 DEF FieldsOk, TableOk
<1>6. Shifts(R, new, a, v.side, -v.quantity, -1)
  BY <1>1, <1>5, DropOne
<1>7. new \in Table /\ DOMAIN new = DOMAIN R \ {id} /\ \A x \in DOMAIN new : new[x] = R[x]
  <2>1. R[id] \in Reservation
    BY <1>1, <1>5, TableEntry
  <2> QED
    BY SMTT(30), <1>1, <1>5, <2>1, TableShape DEF Without
<1> HIDE DEF v, old
<1>8. [ExposureAfterFill(old, v.side, filled, v.quantity) EXCEPT !.open_orders = @ - 1] = acct
  <2>1. ExposureAfterFill(old, v.side, filled, v.quantity) =
          Moved(old, v.side, Signed(v.side, filled), -v.quantity, 0)
    BY <1>1, FillMoves
  <2>2. old.open_orders \in Nat
    BY <1>1, AccountFields
  <2> QED
    BY SMTT(30), <2>1, <2>2 DEF Moved
<1>9. TableOk(new, DOMAIN A, m)
  <2> HIDE DEF new
  <2>1. IsFiniteSet(DOMAIN new) /\ Cardinality(DOMAIN new) <= Cardinality(DOMAIN R)
    BY <1>5, <1>7, FS_Subset
  <2>2. Cardinality(DOMAIN new) \in Nat /\ Cardinality(DOMAIN R) \in Nat
    BY <1>5, <2>1, FS_CardinalityType
  <2>3. Cardinality(DOMAIN new) <= ORDERS
    BY SMTT(30), <1>5, <2>1, <2>2, RiskAssumption DEF TableOk
  <2> QED
    BY SMTT(30), <1>5, <1>7, <2>1, <2>3 DEF TableOk
<1>10. WithinPosition(acct)
  BY <1>1, <1>2, FillStaysWithin DEF AccountOk
<1>11. old.open_orders + (-1) <= old.limits.max_open_orders
  BY <1>1, AccountFields DEF AccountOk
<1>12. Signed(v.side, filled) \in Int
  BY SMTT(30), <1>1, OnFacts
<1> HIDE DEF new
<1>13. FieldsOk(With(A, a, acct), new, m, r.killed)
  BY SMTT(30), <1>1, <1>2, <1>6, <1>9, <1>10, <1>11, <1>12, StepKeepsFields DEF old
<1> HIDE DEF acct
<1>14. Settle(r, id, filled) = [accounts |-> With(A, a, acct), reservations |-> new,
                                maximum_order_id |-> m, killed |-> r.killed]
  BY SMTT(30), <1>3, <1>4, <1>8
<1>15. RiskOk(Settle(r, id, filled))
  BY <1>13, <1>14, MakeOk
<1> QED
  BY SMTT(30), <1>14, <1>15 DEF new, R, m

\* The account of a live order after its quantity changes to q while d units
\* become position, and the engine with both changes stored.
ChangedAccount(r, id, q, d) ==
  LET v == r.reservations[id]
  IN  Moved(r.accounts[v.account_id], v.side, d, q - v.quantity, 0)

Changed(r, id, q, d) ==
  LET v == r.reservations[id]
  IN  PutReservation(PutAccount(r, v.account_id, ChangedAccount(r, id, q, d)), id, Sized(v, q))

\* One order's quantity and its account's totals change together: the tables of
\* the engine stay good when the account stays within its position limit.
LEMMA FieldsChange ==
  ASSUME NEW A, NEW R, NEW m, NEW k, FieldsOk(A, R, m, k),
         NEW id \in DOMAIN R, NEW v, v = R[id], NEW a, a = v.account_id,
         id \in OrderIds, v \in Reservation, v.side \in Side, v.quantity \in Nat,
         a \in DOMAIN A, NEW old, old = A[a], old \in Account, AccountOk(old, R, a),
         NEW q \in Nat, NEW d \in Int, WithinPosition(Moved(old, v.side, d, q - v.quantity, 0))
  PROVE  /\ FieldsOk(With(A, a, Moved(old, v.side, d, q - v.quantity, 0)),
                     With(R, id, Sized(v, q)), m, k)
         /\ DOMAIN With(R, id, Sized(v, q)) = DOMAIN R
<1> DEFINE new == With(R, id, Sized(v, q))
<1>1. TableOk(R, DOMAIN A, m) /\ R \in Table /\ IsFiniteSet(DOMAIN R)
  BY DEF FieldsOk, TableOk
<1>2. Shifts(R, new, a, v.side, q - v.quantity, 0)
  BY <1>1, ChangeOne
<1>3. Sized(v, q) \in Reservation /\ Sized(v, q).account_id = a
  BY DEF Sized, Reservation
<1>4. new \in Table
  BY Zenon, <1>1, <1>3, TableShape
<1>5. DOMAIN new = DOMAIN R
  BY SMTT(30) DEF With
<1>6. new[id] = Sized(v, q) /\ \A x \in DOMAIN R : x # id => new[x] = R[x]
  BY DEF With
<1> HIDE DEF new
<1>7. TableOk(new, DOMAIN A, m)
  <2>1. \A x \in DOMAIN R : new[x].account_id \in DOMAIN A /\ x <= m
    BY SMTT(30), <1>1, <1>3, <1>6 DEF TableOk
  <2> QED
    BY <1>1, <1>4, <1>5, <2>1 DEF TableOk
<1>8. old.open_orders + 0 <= old.limits.max_open_orders
  BY AccountFields DEF AccountOk
<1>9. q - v.quantity \in Int
  BY SMTT(30)
<1>10. FieldsOk(With(A, a, Moved(A[a], v.side, d, q - v.quantity, 0)), new, m, k)
  BY <1>2, <1>7, <1>8, <1>9, StepKeepsFields
<1> QED
  BY <1>5, <1>10 DEF new

\* What the change writes: one account, one reservation.
LEMMA ChangedFields ==
  ASSUME NEW r, RiskOk(r), NEW id, NEW q, NEW d
  PROVE  Changed(r, id, q, d) =
           [accounts |-> With(r.accounts, r.reservations[id].account_id,
                              ChangedAccount(r, id, q, d)),
            reservations |-> With(r.reservations, id, Sized(r.reservations[id], q)),
            maximum_order_id |-> r.maximum_order_id, killed |-> r.killed]
<1> DEFINE v == r.reservations[id]
           a == v.account_id
           acct == ChangedAccount(r, id, q, d)
<1> HIDE DEF acct
<1>1. Changed(r, id, q, d) = PutReservation(PutAccount(r, a, acct), id, Sized(v, q))
  BY Zenon DEF Changed, acct
<1> HIDE DEF v, a
<1>2. PutReservation(PutAccount(r, a, acct), id, Sized(v, q)) =
        [accounts |-> With(r.accounts, a, acct),
         reservations |-> With(r.reservations, id, Sized(v, q)),
         maximum_order_id |-> r.maximum_order_id, killed |-> r.killed]
  BY Updates DEF RiskOk
<1> QED
  BY <1>1, <1>2, Zenon DEF a, v, acct

\* A live order whose quantity changes to q while d units become position, with
\* the difference in its side's total and within the position limit.
LEMMA ChangeKeepsOk ==
  ASSUME NEW r, RiskOk(r), NEW id, Live(r, id), NEW q \in Nat, NEW d \in Int,
         WithinPosition(ChangedAccount(r, id, q, d))
  PROVE  /\ RiskOk(Changed(r, id, q, d))
         /\ Changed(r, id, q, d).reservations =
              With(r.reservations, id, Sized(r.reservations[id], q))
         /\ DOMAIN Changed(r, id, q, d).reservations = DOMAIN r.reservations
         /\ Changed(r, id, q, d).maximum_order_id = r.maximum_order_id
<1> DEFINE A == r.accounts
           R == r.reservations
           m == r.maximum_order_id
           v == R[id]
           a == v.account_id
           old == A[a]
           acct == ChangedAccount(r, id, q, d)
           new == With(R, id, Sized(v, q))
<1>1. /\ id \in OrderIds /\ id \in DOMAIN R /\ v \in Reservation /\ v.side \in Side
      /\ v.quantity \in Nat /\ a \in DOMAIN A /\ old \in Account /\ AccountOk(old, R, a)
  BY Zenon, LiveOrder
<1>2. FieldsOk(A, R, m, r.killed)
  BY DEF RiskOk
<1>3. Changed(r, id, q, d) = [accounts |-> With(A, a, acct), reservations |-> new,
                              maximum_order_id |-> m, killed |-> r.killed]
  BY SMTT(30), ChangedFields
<1>4. acct = Moved(old, v.side, d, q - v.quantity, 0)
  BY Zenon DEF ChangedAccount
<1>5. WithinPosition(acct)
  BY SMTT(30)
<1> HIDE DEF A, R, m, v, a, old, acct
<1>6. FieldsOk(With(A, a, acct), new, m, r.killed) /\ DOMAIN new = DOMAIN R
  <2>1. v = R[id] /\ a = v.account_id /\ old = A[a]
    BY DEF v, a, old
  <2>2. WithinPosition(Moved(old, v.side, d, q - v.quantity, 0))
    BY SMTT(30), <1>4, <1>5
  <2> QED
    BY SMTT(30), <1>1, <1>2, <1>4, <2>1, <2>2, FieldsChange
<1> HIDE DEF new
<1>7. RiskOk(Changed(r, id, q, d))
  BY <1>3, <1>6, MakeOk
<1>8. /\ Changed(r, id, q, d).reservations = new
      /\ Changed(r, id, q, d).maximum_order_id = m
  BY SMTT(30), <1>3
<1> QED
  BY <1>6, <1>7, <1>8, Zenon DEF new, R, m, v

\* Any part of a live order can be released, and the order closed: no total is
\* smaller than an order in it, and no count leaves one out.
LEMMA ReleaseFits ==
  ASSUME NEW r, RiskOk(r), NEW id, Live(r, id), NEW q \in Nat,
         q <= r.reservations[id].quantity
  PROVE  LET v == r.reservations[id]
             acct == r.accounts[v.account_id]
         IN  CanRelease(acct, v.side, q) /\ acct.open_orders # 0
<1> DEFINE v == r.reservations[id]
           acct == r.accounts[v.account_id]
           total == Total(acct, v.side)
<1>1. v.quantity <= total /\ v.quantity \in Nat /\ total \in Nat /\ acct.open_orders >= 1
  BY LiveOrder
<1>2. CanRelease(acct, v.side, q) <=> q <= total
  BY DEF CanRelease, Total
<1>3. q <= v.quantity
  OBVIOUS
<1> HIDE DEF v, acct, total
<1>4. CanRelease(acct, v.side, q)
  BY <1>1, <1>2, <1>3
<1>5. acct.open_orders # 0
  BY SMTT(30), <1>1
<1> QED
  BY SMTT(30), <1>4, <1>5 DEF v, acct

\* settle is accepted for what is live and not overfilled, and then only.
LEMMA SettleAccepts ==
  ASSUME NEW r, RiskOk(r), NEW id, NEW filled \in Nat
  PROVE  SettleReject(r, id, filled) = "Ok" <=>
           Live(r, id) /\ filled <= r.reservations[id].quantity
<1>1. ASSUME Live(r, id)
      PROVE  SettleReject(r, id, filled) = "Ok" <=> filled <= r.reservations[id].quantity
  <2> DEFINE v == r.reservations[id]
             acct == r.accounts[v.account_id]
  <2>1. v.quantity \in Nat
    BY SMTT(30), <1>1, LiveOrder
  <2>2. CanRelease(acct, v.side, v.quantity) /\ acct.open_orders # 0
    BY SMTT(30), <1>1, <2>1, ReleaseFits
  <2>3. SettleReject(r, id, filled) = IF filled > v.quantity THEN "InvalidQuantity" ELSE "Ok"
    BY <1>1, <2>2 DEF SettleReject
  <2> HIDE DEF v
  <2>4. SettleReject(r, id, filled) = "Ok" <=> filled <= v.quantity
    BY SMTT(30), <2>1, <2>3
  <2> QED
    BY SMTT(30), <2>4 DEF v
<1> QED
  BY <1>1 DEF SettleReject

\* record_fill is accepted for a positive part of a live order, and then only.
LEMMA FillAccepts ==
  ASSUME NEW r, RiskOk(r), NEW id, NEW filled \in Nat
  PROVE  FillReject(r, id, filled) = "Ok" <=>
           filled # 0 /\ Live(r, id) /\ filled <= r.reservations[id].quantity
<1>1. ASSUME Live(r, id), filled # 0
      PROVE  FillReject(r, id, filled) = "Ok" <=> filled <= r.reservations[id].quantity
  <2> DEFINE v == r.reservations[id]
             acct == r.accounts[v.account_id]
  <2>1. v.quantity \in Nat
    BY SMTT(30), <1>1, LiveOrder
  <2>2. FillReject(r, id, filled) =
          IF filled > v.quantity THEN "InvalidQuantity"
          ELSE IF ~CanRelease(acct, v.side, filled) \/ (filled = v.quantity /\ acct.open_orders = 0)
          THEN "ArithmeticOverflow" ELSE "Ok"
    BY SMTT(30), <1>1 DEF FillReject
  <2>3. filled <= v.quantity => CanRelease(acct, v.side, filled) /\ acct.open_orders # 0
    BY <1>1, ReleaseFits
  <2> HIDE DEF v, acct
  <2>4. FillReject(r, id, filled) = "Ok" <=> filled <= v.quantity
    BY <2>1, <2>2, <2>3
  <2> QED
    BY <2>4 DEF v
<1> QED
  BY SMTT(30), <1>1 DEF FillReject

\* A reduction by the owner is accepted whatever the price.
LEMMA ReductionAccepted ==
  ASSUME NEW r, RiskOk(r), NEW id, Live(r, id), NEW price, NEW q \in Nat,
         q <= r.reservations[id].quantity
  PROVE  AdjustReject(r, id, r.reservations[id].account_id, price, q) = "Ok"
<1> DEFINE v == r.reservations[id]
           a == v.account_id
           acct == r.accounts[a]
           delta == q - v.quantity
<1>1. v.quantity \in Nat /\ q <= v.quantity
  BY LiveOrder
<1>2. OwnerReject(r, id, a) = "Ok"
  BY DEF OwnerReject
<1>3. CASE q = v.quantity
  <2>1. ~(delta < 0) /\ delta = 0
    BY <1>1, <1>3
  <2> QED
    BY <1>2, <2>1, Zenon DEF AdjustReject
<1>4. CASE q # v.quantity
  <2>1. delta < 0 /\ -delta \in Nat /\ -delta <= v.quantity
    BY SMTT(30), <1>1, <1>4
  <2>2. CanRelease(acct, v.side, -delta)
    BY SMTT(30), <2>1, ReleaseFits
  <2> QED
    BY <1>2, <2>1, <2>2, Zenon DEF AdjustReject
<1> QED
  BY SMTT(30), <1>3, <1>4

\* record_fill: a full fill settles the order, a partial one turns part of the
\* reservation into position.
LEMMA FillKeepsOk ==
  ASSUME NEW r, RiskOk(r), NEW id, Live(r, id), NEW filled \in Nat,
         filled <= r.reservations[id].quantity
  PROVE  /\ RiskOk(RecordFill(r, id, filled))
         /\ DOMAIN RecordFill(r, id, filled).reservations \subseteq DOMAIN r.reservations
         /\ RecordFill(r, id, filled).maximum_order_id = r.maximum_order_id
<1> DEFINE v == r.reservations[id]
           old == r.accounts[v.account_id]
           acct == ExposureAfterFill(old, v.side, filled, filled)
           rest == v.quantity - filled
           d == Signed(v.side, filled)
<1>1. /\ v \in Reservation /\ v.side \in Side /\ v.quantity \in Nat
      /\ old \in Account /\ AccountOk(old, r.reservations, v.account_id)
  BY LiveOrder
<1>2. filled <= v.quantity
  OBVIOUS
<1>3. CASE filled = v.quantity
  <2>1. RecordFill(r, id, filled) = Settle(r, id, filled)
    BY <1>3 DEF RecordFill, Settle
  <2>2. DOMAIN Without(r.reservations, id) \subseteq DOMAIN r.reservations
    BY DEF Without
  <2> QED
    BY <2>1, <2>2, SettleKeepsOk
<1>4. CASE filled # v.quantity
  <2>1. RecordFill(r, id, filled) =
          PutReservation(PutAccount(r, v.account_id, acct), id, [v EXCEPT !.quantity = @ - filled])
    BY <1>4, Zenon DEF RecordFill
  <2>2. acct = Moved(old, v.side, d, rest - v.quantity, 0)
           => acct = ChangedAccount(r, id, rest, d)
    BY Zenon DEF ChangedAccount
  <2>3. Changed(r, id, rest, d) = PutReservation(PutAccount(r, v.account_id,
          ChangedAccount(r, id, rest, d)), id, Sized(v, rest))
    BY Zenon DEF Changed
  <2> HIDE DEF v, old, rest, d
  <2>4. rest \in Nat /\ rest - v.quantity = -filled
    BY <1>1, <1>2 DEF rest
  <2>5. [v EXCEPT !.quantity = @ - filled] = Sized(v, rest)
    BY <1>1 DEF Reservation, Sized, rest
  <2>6. acct = Moved(old, v.side, d, rest - v.quantity, 0)
    <3>1. acct = Moved(old, v.side, d, -filled, 0)
      BY <1>1, FillMoves DEF d
    <3> QED
      BY <2>4, <3>1, Zenon
  <2> HIDE DEF acct
  <2>7. WithinPosition(acct)
    <3>1. WithinPosition(old)
      BY <1>1, Zenon DEF AccountOk
    <3> QED
      BY <1>1, <2>4, <2>6, <3>1, FillStaysWithin DEF d
  <2>8. d \in Int
    BY <1>1, OnFacts DEF d
  <2>9. acct = ChangedAccount(r, id, rest, d)
    BY <2>2, <2>6, Zenon
  <2>10. RecordFill(r, id, filled) = Changed(r, id, rest, d)
    BY <2>1, <2>3, <2>5, <2>9, Zenon
  <2>11. WithinPosition(ChangedAccount(r, id, rest, d))
    BY SMTT(30), <2>7, <2>9
  <2>12. /\ RiskOk(Changed(r, id, rest, d))
         /\ DOMAIN Changed(r, id, rest, d).reservations = DOMAIN r.reservations
         /\ Changed(r, id, rest, d).maximum_order_id = r.maximum_order_id
    BY SMTT(30), <2>4, <2>8, <2>11, ChangeKeepsOk
  <2> QED
    BY <2>10, <2>12
<1> QED
  BY SMTT(30), <1>3, <1>4

\* What resizing a live order writes.
LEMMA ResizeFields ==
  ASSUME NEW r, RiskOk(r), NEW id, Live(r, id), NEW q \in Nat
  PROVE  Resize(r, id, q) = Changed(r, id, q, 0)
<1> DEFINE v == r.reservations[id]
           old == r.accounts[v.account_id]
<1>1. v \in Reservation /\ v.side \in Side /\ v.quantity \in Nat /\ old \in Account
  BY LiveOrder
<1>2. Resize(r, id, q) = PutReservation(PutAccount(r, v.account_id,
         Reserve(old, v.side, q - v.quantity)), id, [v EXCEPT !.quantity = q])
  BY DEF Resize
<1>3. Changed(r, id, q, 0) = PutReservation(PutAccount(r, v.account_id,
         Moved(old, v.side, 0, q - v.quantity, 0)), id, Sized(v, q))
  BY Zenon DEF Changed, ChangedAccount
<1> HIDE DEF v, old
<1>4. [v EXCEPT !.quantity = q] = Sized(v, q)
  BY <1>1 DEF Reservation, Sized
<1>5. q - v.quantity \in Int
  BY <1>1
<1>6. Reserve(old, v.side, q - v.quantity) = Moved(old, v.side, 0, q - v.quantity, 0)
  BY SMTT(30), <1>1, <1>5, ReserveMoves
<1> QED
  BY SMTT(30), <1>2, <1>3, <1>4, <1>6

\* What acceptance of an amendment means: the owner asks, and an increase fits
\* the position limit.
LEMMA AcceptedAdjust ==
  ASSUME NEW r, RiskOk(r), NEW id, NEW a, NEW price, NEW q \in Nat,
         AdjustReject(r, id, a, price, q) = "Ok"
  PROVE  Live(r, id) /\ r.reservations[id].account_id = a /\ MayResize(r, id, q)
<1> DEFINE v == r.reservations[id]
           old == r.accounts[v.account_id]
           delta == q - v.quantity
<1>1. OwnerReject(r, id, a) = "Ok"
  BY DEF AdjustReject
<1>2. Live(r, id) /\ v.account_id = a
  BY SMTT(30), <1>1 DEF OwnerReject
<1>3. v.quantity \in Nat
  BY SMTT(30), <1>2, LiveOrder
<1>4. ASSUME q > v.quantity
      PROVE  WithinPosition(Reserve(old, v.side, delta))
  <2>1. ~(delta < 0) /\ delta # 0
    BY <1>3, <1>4
  <2>2. AdjustReject(r, id, a, price, q) =
          IF NotionalReject(old.limits, price, q) # "Ok" THEN NotionalReject(old.limits, price, q)
          ELSE IF ~WithinPosition(Reserve(old, v.side, delta)) THEN "PositionLimit" ELSE "Ok"
    BY <1>1, <2>1, Zenon DEF AdjustReject
  <2> QED
    BY <2>2
<1> QED
  BY SMTT(30), <1>2, <1>4 DEF MayResize

\* The account of an amended order is within its position limit.
LEMMA ResizedWithin ==
  ASSUME NEW r, RiskOk(r), NEW id, Live(r, id), NEW q \in Nat, MayResize(r, id, q)
  PROVE  WithinPosition(ChangedAccount(r, id, q, 0))
<1> DEFINE v == r.reservations[id]
           old == r.accounts[v.account_id]
           delta == q - v.quantity
<1>1. /\ v.side \in Side /\ v.quantity \in Nat /\ old \in Account
      /\ AccountOk(old, r.reservations, v.account_id)
  BY LiveOrder
<1>2. q > v.quantity => WithinPosition(Reserve(old, v.side, delta))
  BY Zenon DEF MayResize
<1>3. delta \in Int /\ (~(q > v.quantity) => delta + 0 <= 0)
  BY <1>1
<1> SUFFICES WithinPosition(Moved(old, v.side, 0, delta, 0))
  BY Zenon DEF ChangedAccount
<1> HIDE DEF v, old, delta
<1>4. CASE q > v.quantity
  BY <1>1, <1>2, <1>3, <1>4, ReserveMoves
<1>5. CASE ~(q > v.quantity)
  <2>1. Signed(v.side, 0) = 0
    <3>1. 0 \in Int /\ \A n \in Int : n = 0 => -n = n
      OBVIOUS
    <3> QED
      BY <3>1, Zenon DEF Signed
  <2>2. WithinPosition(old)
    BY <1>1, Zenon DEF AccountOk
  <2>3. 0 \in Nat
    OBVIOUS
  <2>4. WithinPosition(Moved(old, v.side, Signed(v.side, 0), delta, 0))
    BY <1>1, <1>3, <1>5, <2>2, <2>3, FillStaysWithin, Zenon
  <2> QED
    BY <2>1, <2>4, Zenon
<1> QED
  BY SMTT(30), <1>4, <1>5

\* adjust_reservation keeps the engine good.
LEMMA AdjustKeepsOk ==
  ASSUME NEW r, RiskOk(r), NEW id, Live(r, id), NEW q \in Nat, MayResize(r, id, q)
  PROVE  /\ RiskOk(Resize(r, id, q))
         /\ DOMAIN Resize(r, id, q).reservations = DOMAIN r.reservations
         /\ Resize(r, id, q).maximum_order_id = r.maximum_order_id
<1>1. Resize(r, id, q) = Changed(r, id, q, 0)
  BY ResizeFields
<1>2. WithinPosition(ChangedAccount(r, id, q, 0))
  BY ResizedWithin
<1> QED
  BY <1>1, <1>2, ChangeKeepsOk

\* restore_reservation after an accepted adjustment: accepted, and every field
\* of the engine is back.
LEMMA RestoreUndoesAdjust ==
  ASSUME NEW r, RiskOk(r), NEW id, Live(r, id), NEW q \in Nat, MayResize(r, id, q)
  PROVE  /\ RestoreReject(Resize(r, id, q), id, r.reservations[id].account_id,
                          r.reservations[id].quantity) = "Ok"
         /\ Resize(Resize(r, id, q), id, r.reservations[id].quantity) = r
<1> DEFINE A == r.accounts
           R == r.reservations
           v == R[id]
           a == v.account_id
           old == A[a]
           acct == Moved(old, v.side, 0, q - v.quantity, 0)
           mid == Resize(r, id, q)
<1>1. /\ v \in Reservation /\ v.quantity \in Nat /\ v.side \in Side /\ id \in DOMAIN R
      /\ a \in DOMAIN A /\ old \in Account
  BY LiveOrder
<1>2. RiskOk(mid)
  BY SMTT(30), AdjustKeepsOk
<1>3. mid = [accounts |-> With(A, a, acct), reservations |-> With(R, id, Sized(v, q)),
             maximum_order_id |-> r.maximum_order_id, killed |-> r.killed]
  <2>1. acct = ChangedAccount(r, id, q, 0)
    BY Zenon DEF ChangedAccount
  <2>2. mid = Changed(r, id, q, 0)
    BY ResizeFields
  <2> HIDE DEF acct, mid
  <2> QED
    BY <2>1, <2>2, ChangedFields
<1>4. r = [accounts |-> A, reservations |-> R,
           maximum_order_id |-> r.maximum_order_id, killed |-> r.killed]
  BY DEF RiskOk
<1>5. R \in Table /\ A \in AccountTable
  BY DEF RiskOk, FieldsOk, TableOk
<1> HIDE DEF A, R, mid, v, a, old, acct
<1>6. With(With(A, a, acct), a, old) = A /\ With(A, a, acct)[a] = acct
  <2>1. PICK ids \in SUBSET AccountIds : A \in [ids -> Account]
    BY <1>5 DEF AccountTable
  <2> QED
    BY <1>1, <2>1 DEF With, old
<1>7. /\ With(With(R, id, Sized(v, q)), id, v) = R /\ With(R, id, Sized(v, q))[id] = Sized(v, q)
      /\ id \in DOMAIN With(R, id, Sized(v, q))
  <2>1. PICK ids \in SUBSET OrderIds : R \in [ids -> Reservation]
    BY <1>5 DEF Table
  <2> QED
    BY <1>1, <2>1 DEF With, v
<1>8. /\ mid.reservations = With(R, id, Sized(v, q)) /\ mid.accounts = With(A, a, acct)
      /\ mid.maximum_order_id = r.maximum_order_id /\ mid.killed = r.killed
  BY <1>3
<1>9. mid.reservations[id] = Sized(v, q) /\ Live(mid, id) /\ mid.accounts[a] = acct
  BY <1>6, <1>7, <1>8 DEF Live
<1>10. Sized(v, q).account_id = a /\ Sized(v, q).side = v.side /\ Sized(v, q).quantity = q
  BY DEF Sized, a
<1>11. RestoreReject(mid, id, a, v.quantity) = "Ok"
  <2> DEFINE w == mid.reservations[id]
             fits == CanRelease(mid.accounts[w.account_id], w.side, w.quantity - v.quantity)
  <2>1. w.account_id = a /\ w.quantity = q
    BY <1>9, <1>10, Zenon
  <2>2. ASSUME v.quantity < w.quantity PROVE fits
    <3>1. w.quantity - v.quantity \in Nat /\ w.quantity - v.quantity <= w.quantity
      BY <1>1, <2>1, <2>2
    <3> QED
      BY SMTT(30), <1>2, <1>9, <3>1, ReleaseFits
  <2>3. OwnerReject(mid, id, a) = "Ok"
    BY <1>9, <2>1 DEF OwnerReject
  <2>4. RestoreReject(mid, id, a, v.quantity) =
          IF OwnerReject(mid, id, a) # "Ok" THEN OwnerReject(mid, id, a)
          ELSE IF v.quantity < w.quantity /\ ~fits THEN "ArithmeticOverflow" ELSE "Ok"
    BY Zenon DEF RestoreReject
  <2> QED
    BY <2>2, <2>3, <2>4, Zenon
<1>12. Sized(Sized(v, q), v.quantity) = v
  BY <1>1 DEF Sized, Reservation
<1>13. Moved(acct, v.side, 0, v.quantity - q, 0) = old
  <2>1. q - v.quantity \in Int /\ v.quantity - q = -(q - v.quantity)
    BY <1>1
  <2> QED
    BY <1>1, <2>1, MoveBack DEF acct
<1>14. Resize(mid, id, v.quantity) =
         [accounts |-> With(mid.accounts, a, old), reservations |-> With(mid.reservations, id, v),
          maximum_order_id |-> mid.maximum_order_id, killed |-> mid.killed]
  <2> DEFINE w == mid.reservations[id]
  <2>1. Resize(mid, id, v.quantity) = Changed(mid, id, v.quantity, 0)
    BY SMTT(30), <1>1, <1>2, <1>9, ResizeFields
  <2>2. Changed(mid, id, v.quantity, 0) =
          [accounts |-> With(mid.accounts, w.account_id,
              ChangedAccount(mid, id, v.quantity, 0)),
           reservations |-> With(mid.reservations, id, Sized(w, v.quantity)),
           maximum_order_id |-> mid.maximum_order_id, killed |-> mid.killed]
    BY <1>2, ChangedFields
  <2>3. ChangedAccount(mid, id, v.quantity, 0) =
          Moved(mid.accounts[w.account_id], w.side, 0, v.quantity - w.quantity, 0)
    BY Zenon DEF ChangedAccount
  <2>4. w.account_id = a /\ w.side = v.side /\ w.quantity = q /\ Sized(w, v.quantity) = v
    BY <1>9, <1>10, <1>12, Zenon
  <2> HIDE DEF w
  <2>5. ChangedAccount(mid, id, v.quantity, 0) = old
    BY <1>9, <1>13, <2>3, <2>4
  <2> QED
    BY <2>1, <2>2, <2>4, <2>5, Zenon
<1>15. Resize(mid, id, v.quantity) = r
  BY <1>4, <1>6, <1>7, <1>8, <1>14, Zenon
<1> QED
  BY <1>11, <1>15, Zenon DEF mid, R, v, a

-----------------------------------------------------------------------------
(* The engine under any sequence of calls                                  *)

\* The inductive invariant: a good engine whose watermark is at or above every
\* id that ever held a reservation, the live ones included.
IInv ==
    /\ RiskOk(risk) /\ used \subseteq OrderIds
    /\ DOMAIN risk.reservations \subseteq used
    /\ \A id \in used : id <= risk.maximum_order_id

\* What every call but an admission does: no new reservation, same watermark.
Keeps(r, new) ==
    /\ RiskOk(new) /\ DOMAIN new.reservations \subseteq DOMAIN r.reservations
    /\ new.maximum_order_id = r.maximum_order_id

\* Registrations and kill switches leave the reservations alone.
LEMMA SwitchesKeep ==
  ASSUME NEW r, RiskOk(r), NEW a, NEW k \in BOOLEAN
  PROVE  /\ \A l \in Limits : a \in AccountIds /\ RegisterReject(r, a, l) = "Ok"
               => Keeps(r, RegisterAccount(r, a, l))
         /\ Keeps(r, SetKillSwitch(r, k))
         /\ Registered(r, a) => Keeps(r, SetAccountKillSwitch(r, a, k))
<1>1. ASSUME NEW l \in Limits, a \in AccountIds, RegisterReject(r, a, l) = "Ok"
      PROVE  Keeps(r, RegisterAccount(r, a, l))
  <2>1. RiskOk(RegisterAccount(r, a, l))
    BY <1>1, RegisterKeepsOk
  <2>2. /\ RegisterAccount(r, a, l).reservations = r.reservations
        /\ RegisterAccount(r, a, l).maximum_order_id = r.maximum_order_id
    BY DEF RegisterAccount, PutAccount, RiskOk
  <2> QED
    BY <2>1, <2>2 DEF Keeps
<1>2. Keeps(r, SetKillSwitch(r, k))
  <2>1. SetKillSwitch(r, k).maximum_order_id = r.maximum_order_id
    BY DEF SetKillSwitch, RiskOk
  <2> QED
    BY <2>1, KillKeepsOk DEF Keeps
<1>3. Registered(r, a) => Keeps(r, SetAccountKillSwitch(r, a, k))
  BY SMTT(30), KillAccountKeepsOk DEF Keeps
<1> QED
  BY <1>1, <1>2, <1>3

\* An accepted settlement, cancel, fill or amendment.
LEMMA OrderCallsKeep ==
  ASSUME NEW r, RiskOk(r), NEW id, NEW a, NEW p, NEW q \in Nat
  PROVE  /\ SettleReject(r, id, q) = "Ok" => Keeps(r, Settle(r, id, q))
         /\ CancelReservationReject(r, id, a) = "Ok" => Keeps(r, Settle(r, id, 0))
         /\ FillReject(r, id, q) = "Ok" => Keeps(r, RecordFill(r, id, q))
         /\ AdjustReject(r, id, a, p, q) = "Ok" => Keeps(r, Resize(r, id, q))
<1>1. ASSUME NEW n \in Nat, SettleReject(r, id, n) = "Ok"
      PROVE  Keeps(r, Settle(r, id, n))
  <2>1. Live(r, id) /\ n <= r.reservations[id].quantity
    BY <1>1, SettleAccepts
  <2>2. DOMAIN Without(r.reservations, id) \subseteq DOMAIN r.reservations
    BY DEF Without
  <2> QED
    BY <2>1, <2>2, SettleKeepsOk DEF Keeps
<1>2. CancelReservationReject(r, id, a) = "Ok" => SettleReject(r, id, 0) = "Ok"
  BY DEF CancelReservationReject
<1>3. ASSUME FillReject(r, id, q) = "Ok"
      PROVE  Keeps(r, RecordFill(r, id, q))
  <2>1. Live(r, id) /\ q <= r.reservations[id].quantity
    BY <1>3, FillAccepts
  <2> QED
    BY <2>1, FillKeepsOk DEF Keeps
<1>4. ASSUME AdjustReject(r, id, a, p, q) = "Ok"
      PROVE  Keeps(r, Resize(r, id, q))
  <2>1. Live(r, id) /\ MayResize(r, id, q)
    BY <1>4, AcceptedAdjust
  <2> QED
    BY <2>1, AdjustKeepsOk DEF Keeps
<1>5. 0 \in Nat
  OBVIOUS
<1> QED
  BY SMTT(30), <1>1, <1>2, <1>3, <1>4, <1>5

\* Every step is an admission or keeps the reservations it does not drop.
LEMMA EngineStep ==
  ASSUME RiskOk(risk), Next
  PROVE  \/ Keeps(risk, risk') /\ used' = used
         \/ \E order \in NewOrder : Admit(order)
<1>1. ASSUME NEW a \in AccountIds, NEW l \in Limits, Register(a, l)
      PROVE  Keeps(risk, risk') /\ used' = used
  BY Zenon, <1>1, SwitchesKeep DEF Register
<1>2. ASSUME NEW k \in BOOLEAN, Kill(k)
      PROVE  Keeps(risk, risk') /\ used' = used
  BY <1>2, SwitchesKeep DEF Kill
<1>3. ASSUME NEW k \in BOOLEAN, NEW a \in AccountIds, KillAccount(a, k)
      PROVE  Keeps(risk, risk') /\ used' = used
  BY <1>3, SwitchesKeep DEF KillAccount
<1>4. ASSUME NEW id \in OrderIds, NEW q \in Quantities, SettleOrder(id, q)
      PROVE  Keeps(risk, risk') /\ used' = used
  BY SMTT(30), <1>4, OrderCallsKeep, RiskAssumption DEF SettleOrder
<1>5. ASSUME NEW id \in OrderIds, NEW q \in Quantities, Fill(id, q)
      PROVE  Keeps(risk, risk') /\ used' = used
  BY SMTT(30), <1>5, OrderCallsKeep, RiskAssumption DEF Fill
<1>6. ASSUME NEW id \in OrderIds, NEW a \in AccountIds, NEW p \in Prices, NEW q \in Quantities,
             Adjust(id, a, p, q)
      PROVE  Keeps(risk, risk') /\ used' = used
  BY SMTT(30), <1>6, OrderCallsKeep, RiskAssumption DEF Adjust
<1>7. ASSUME NEW id \in OrderIds, NEW a \in AccountIds, Cancel(id, a)
      PROVE  Keeps(risk, risk') /\ used' = used
  BY SMTT(30), <1>7, OrderCallsKeep DEF Cancel
<1> QED
  BY <1>1, <1>2, <1>3, <1>4, <1>5, <1>6, <1>7, Zenon DEF Next

\* An admission: the engine stays good, and the new id is above the watermark,
\* hence above every id used before.
LEMMA AdmitStep ==
  ASSUME IInv, NEW order \in NewOrder, Admit(order)
  PROVE  IInv' /\ \A id \in used : id # order.order_id
<1> DEFINE x == order.order_id
           m == risk.maximum_order_id
<1>1. x \in OrderIds /\ order.side \in Side /\ order.quantity \in Nat
  BY Zenon, RiskAssumption DEF NewOrder
<1>2. /\ RiskOk(risk') /\ DOMAIN risk'.reservations = DOMAIN risk.reservations \union {x}
      /\ risk'.maximum_order_id = x /\ used' = used \union {x}
  BY SMTT(30), <1>1, ReserveKeepsOk DEF Admit, IInv
<1>3. ~(x <= m)
  BY AcceptedOrder DEF Admit, DuplicateOrderId
<1>4. m \in Int /\ x \in Int /\ used \subseteq Int
  <2>1. m \in OrderIds \union {NoOrder}
    BY DEF IInv, RiskOk, FieldsOk, TableOk
  <2> QED
    <3>1. OrderIds \subseteq Int /\ NoOrder \in Int
      BY RiskAssumption DEF NoOrder
    <3>2. used \subseteq OrderIds
      BY DEF IInv
    <3> QED
      BY Zenon, <1>1, <2>1, <3>1, <3>2
<1>5. \A id \in used : id <= m
  BY DEF IInv
<1> HIDE DEF m
<1>6. \A id \in used : id < x
  BY <1>3, <1>4, <1>5
<1>7. \A id \in used' : id <= x
  BY <1>2, <1>4, <1>6
<1>8. used' \subseteq OrderIds /\ DOMAIN risk'.reservations \subseteq used'
  BY <1>1, <1>2 DEF IInv
<1> QED
  BY SMTT(30), <1>2, <1>4, <1>6, <1>7, <1>8 DEF IInv

\* A step keeps the invariant.
LEMMA IInvStep ==
  ASSUME IInv, [Next]_vars
  PROVE  IInv'
<1>1. CASE Keeps(risk, risk') /\ used' = used
  BY <1>1 DEF IInv, Keeps
<1>2. ASSUME NEW order \in NewOrder, Admit(order)
      PROVE  IInv'
  BY <1>2, AdmitStep
<1>3. CASE vars' = vars
  BY <1>3 DEF IInv, vars
<1> QED
  BY SMTT(30), <1>1, <1>2, <1>3, EngineStep DEF IInv

\* IInv holds throughout.
LEMMA EngineInvariant == Spec => []IInv
<1>1. Init => IInv
  <2>1. DOMAIN EmptyRisk.reservations = {}
    BY DEF EmptyRisk
  <2> QED
    BY <2>1, EmptyOk DEF Init, IInv
<1>2. IInv /\ [Next]_vars => IInv'
  BY IInvStep
<1> QED
  BY <1>1, <1>2, PTL DEF Spec

\* The sums of the invariant are the sums the engine's own validation takes.
LEMMA SumsAgree ==
  ASSUME NEW r, NEW a
  PROVE  /\ \A side : Reserved(r, HeldBy(r, a, {side})) = Sum(r.reservations, a, side)
         /\ Cardinality(HeldBy(r, a, Side)) = Count(r.reservations, a)
  BY DEF Reserved, HeldBy, Sum, Count, Units, Holding

\* A good engine has the types, the totals and the limits it should have.
LEMMA GoodEngine ==
  ASSUME IInv
  PROVE  RiskInv
<1> DEFINE A == risk.accounts
           R == risk.reservations
<1>1. FieldsOk(A, R, risk.maximum_order_id, risk.killed)
  BY DEF IInv, RiskOk
<1>2. \A a \in DOMAIN A : A[a] \in Account /\ AccountOk(A[a], R, a)
  BY <1>1, AccountEntry DEF FieldsOk
<1>3. TypeOK
  <2>1. DOMAIN A \subseteq AccountIds /\ DOMAIN R \subseteq OrderIds
    BY SMTT(30), <1>1 DEF FieldsOk, TableOk, AccountTable, Table
  <2>2. ASSUME NEW a \in DOMAIN A
        PROVE  /\ A[a].limits \in Limits /\ A[a].settled_position \in Int
               /\ A[a].reserved_buys \in Nat /\ A[a].reserved_sells \in Nat
               /\ A[a].open_orders \in Nat /\ A[a].killed \in BOOLEAN
    BY <1>2 DEF Account
  <2>3. ASSUME NEW id \in DOMAIN R
        PROVE  R[id] \in [account_id : DOMAIN A, side : Side, quantity : Nat]
    <3>1. R[id] \in Reservation /\ R[id].account_id \in DOMAIN A
      BY SMTT(30), <1>1, TableEntry DEF FieldsOk, TableOk
    <3> QED
      BY SMTT(30), <3>1 DEF Reservation
  <2>4. /\ risk.maximum_order_id \in OrderIds \union {NoOrder}
        /\ risk.killed \in BOOLEAN /\ used \subseteq OrderIds
    BY <1>1 DEF FieldsOk, TableOk, IInv
  <2> QED
    BY <2>1, <2>2, <2>3, <2>4, Zenon DEF TypeOK
<1>4. TotalsMatchReservations
  BY <1>2, SumsAgree, Zenon DEF TotalsMatchReservations, AccountOk
<1>5. PositionStaysWithinLimit /\ OpenOrdersWithinLimit
  BY <1>2, Zenon DEF PositionStaysWithinLimit, OpenOrdersWithinLimit, AccountOk
<1> QED
  BY SMTT(30), <1>3, <1>4, <1>5 DEF RiskInv

\* For every account table, limits, prices and quantities: the totals and counts
\* the engine maintains incrementally are the sums over the live reservations,
\* and no account is, or can by fills of its own orders get, past its limits.
THEOREM AccountsStayWithinLimits == Spec => []RiskInv
<1>1. IInv => RiskInv
  BY GoodEngine
<1> QED
  BY <1>1, EngineInvariant, PTL

\* What is reserved can be released: settle, record_fill of any part and a
\* reducing adjust_reservation are never refused for a live order.
LEMMA ReleaseFromGood ==
  ASSUME IInv
  PROVE  ReleaseNeverOverflows
<1> SUFFICES ASSUME NEW id \in DOMAIN risk.reservations
             PROVE  LET res == risk.reservations[id] IN
                    /\ SettleReject(risk, id, 0) = "Ok"
                    /\ \A q \in 1..res.quantity : FillReject(risk, id, q) = "Ok"
                    /\ \A q \in 0..res.quantity :
                          AdjustReject(risk, id, res.account_id, MinI64, q) = "Ok"
  BY DEF ReleaseNeverOverflows
<1> DEFINE n == risk.reservations[id].quantity
<1>1. RiskOk(risk) /\ Live(risk, id)
  BY SMTT(30) DEF IInv, Live
<1>2. n \in Nat
  BY SMTT(30), <1>1, LiveOrder
<1>3. SettleReject(risk, id, 0) = "Ok"
  BY SMTT(30), <1>1, <1>2, SettleAccepts
<1>4. ASSUME NEW q \in 1..n
      PROVE  FillReject(risk, id, q) = "Ok"
  <2>1. q \in Nat /\ q # 0 /\ q <= n
    BY <1>2
  <2> QED
    BY SMTT(30), <1>1, <2>1, FillAccepts
<1>5. ASSUME NEW q \in 0..n
      PROVE  AdjustReject(risk, id, risk.reservations[id].account_id, MinI64, q) = "Ok"
  <2>1. q \in Nat /\ q <= n
    BY SMTT(30), <1>2
  <2> QED
    BY SMTT(30), <1>1, <2>1, ReductionAccepted
<1> QED
  BY <1>3, <1>4, <1>5, Zenon

\* An accepted amendment is undone exactly by restore_reservation.
LEMMA RollbackFromGood ==
  ASSUME IInv
  PROVE  RollbackIsExact
<1> SUFFICES ASSUME NEW id \in DOMAIN risk.reservations, NEW p \in Prices, NEW q \in Quantities,
                    AdjustReject(risk, id, risk.reservations[id].account_id, p, q) = "Ok"
             PROVE  /\ RestoreReject(Resize(risk, id, q), id, risk.reservations[id].account_id,
                                     risk.reservations[id].quantity) = "Ok"
                    /\ Resize(Resize(risk, id, q), id, risk.reservations[id].quantity) = risk
  BY DEF RollbackIsExact
<1>1. RiskOk(risk) /\ q \in Nat
  BY RiskAssumption DEF IInv
<1>2. Live(risk, id) /\ MayResize(risk, id, q)
  BY <1>1, AcceptedAdjust
<1> QED
  BY SMTT(30), <1>1, <1>2, RestoreUndoesAdjust

\* For every engine the calls can reach, what the gateway does after the book
\* has answered is accepted, and rolling an amendment back gives the engine
\* before it, in every field.
THEOREM UndoIsAlwaysPossible == Spec => []UndoNeverFails
<1>1. IInv => UndoNeverFails
  BY SMTT(30), ReleaseFromGood, RollbackFromGood DEF UndoNeverFails
<1> QED
  BY <1>1, EngineInvariant, PTL

\* One watermark is enough: an order id that ever held a reservation and lost it
\* never gets another one.
THEOREM IdsAreNeverReused == Spec => OrderIdsAreNeverReused
<1> DEFINE Step == \A id \in used : ~Live(risk, id) => ~Live(risk', id)
<1>1. IInv /\ [Next]_vars => [Step]_vars
  <2> SUFFICES ASSUME IInv, Next, NEW id \in used, ~Live(risk, id)
               PROVE  ~Live(risk', id)
    BY DEF vars
  <2>1. CASE Keeps(risk, risk')
    BY <2>1 DEF Keeps, Live
  <2>2. ASSUME NEW order \in NewOrder, Admit(order)
        PROVE  ~Live(risk', id)
    <3>1. id # order.order_id
      BY <2>2, AdmitStep
    <3>2. order.order_id \in OrderIds /\ order.side \in Side /\ order.quantity \in Nat
      BY Zenon, RiskAssumption DEF NewOrder
    <3>3. DOMAIN risk'.reservations = DOMAIN risk.reservations \union {order.order_id}
      BY <2>2, <3>2, ReserveKeepsOk DEF Admit, IInv
    <3> QED
      BY <3>1, <3>3 DEF Live
  <2> QED
    BY <2>1, <2>2, EngineStep DEF IInv
<1> QED
  BY <1>1, EngineInvariant, PTL DEF Spec, OrderIdsAreNeverReused
=============================================================================
