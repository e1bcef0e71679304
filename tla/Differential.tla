---------------------------- MODULE Differential ----------------------------
(***************************************************************************)
(* hft-gateway/tests/model_properties.rs as one state machine: the gateway *)
(* of EventFeed and the reference model of hft-model take every command    *)
(* together, and after each one the test compares their answers, the       *)
(* accounts and the books and calls assert_consistent.                     *)
(*                                                                         *)
(* The model is written for well-formed commands: a new order has a        *)
(* quantity, and every command is for the gateway's instrument.            *)
(***************************************************************************)
EXTENDS EventFeed

M == INSTANCE ModelEngine

VARIABLES model,     \* ModelEngine
          passed     \* has every assertion of the test held so far?

testVars == <<feedVars, model, passed>>

LimitsOf(r) == [a \in DOMAIN r.accounts |-> r.accounts[a].limits]

TestInit ==
    /\ FeedInit
    /\ model = M!NewModel(LimitsOf(risk))
    /\ passed = TRUE
-----------------------------------------------------------------------------
\* What the gateway answers, with the reason and the reports.
NewOrderAnswer(order) ==
    LET received == order.order_id <= maximum_received_order_id
        reserve == ReserveReject(risk, order)
        submit == SubmitReject(book, order)
        unfilled == Unfilled(book, order)
        discarded == Discarded(book, order)
    IN  IF received THEN <<"Risk", "DuplicateOrderId">>
        ELSE IF reserve # "Ok" THEN <<"Risk", reserve>>
        ELSE IF submit # "Ok" THEN <<"Book", submit>>
        ELSE <<"Ok", order.quantity - unfilled, unfilled - discarded, discarded,
               Fills(book, order)>>

ReplaceAnswer(replace) ==
    LET id == replace.order_id
        place == Locate(book, id)
        adjust == AdjustReject(risk, id, replace.account_id, replace.price,
                               replace.quantity)
        reject == ReplaceReject(book, replace)
    IN  IF adjust # "Ok" THEN <<"Risk", adjust>>
        ELSE IF reject # "Ok" THEN <<"Book", reject>>
        ELSE <<"Ok", OrderAt(book, place).quantity, ~PriorityKept(book, replace)>>

CancelAnswer(cancel) ==
    LET id == cancel.order_id
        owner == OwnerReject(risk, id, cancel.account_id)
        reject == CancelReject(book, cancel)
    IN  IF owner # "Ok" THEN <<"Risk", owner>>
        ELSE IF reject # "Ok" THEN <<"Book", reject>>
        ELSE <<"Ok", OrderAt(book, Locate(book, id)).quantity>>

\* The levels of the book as dump_levels lists the model's.
DumpBook(side) ==
    LET levels == IF side = "Buy" THEN Reverse(book[side]) ELSE book[side]
    IN  [i \in 1..Len(levels) |->
            <<levels[i].price, [k \in 1..Len(levels[i].orders) |->
                LET o == levels[i].orders[k] IN <<o.order_id, o.quantity, o.sequence>>]>>]

SameBooks == \A side \in Sides : M!DumpLevels(model.book[side]) = DumpBook(side)

\* The sequence and the largest order id received.
SameNumbers ==
    /\ model.next_sequence = expected_sequence
    /\ model.maximum_received_order_id = maximum_received_order_id

\* assert_snapshots_match
SameAccounts ==
    \A a \in AccountIds :
        LET acct == risk.accounts[a] IN
        M!AccountView(model, a) =
            <<acct.settled_position + acct.reserved_buys - acct.reserved_sells,
              acct.open_orders>>

\* Neither side has changed an order or an account: the last comparison stands.
NothingMoved ==
    /\ <<book, risk.accounts>>' = <<book, risk.accounts>>
    /\ <<model.book, model.accounts, model.reservations>>' =
          <<model.book, model.accounts, model.reservations>>

\* One step of the test: both answers, then the assertions.
Compare(applied, answer) ==
    \E its \in {applied}, mine \in {answer} :
        /\ model' = its.m
        /\ passed' = /\ outcome' = mine[1] /\ its.answer = mine
                     /\ SameNumbers'
                     /\ \/ NothingMoved
                        \/ M!Consistent(its.m) /\ SameBooks' /\ SameAccounts'

TestNewOrder(order) ==
    /\ FeedNewOrder(order)
    /\ Compare(M!ApplyNew(model, Stamped(order)), NewOrderAnswer(order))

TestReplace(replace) ==
    /\ FeedReplace(replace)
    /\ Compare(M!ApplyReplace(model, Stamped(replace)), ReplaceAnswer(replace))

TestCancel(cancel) ==
    /\ FeedCancel(cancel)
    /\ Compare(M!ApplyCancel(model, cancel), CancelAnswer(cancel))

TestCommand ==
    \/ \E order \in NewOrders : TestNewOrder(order)
    \/ \E replace \in ReplaceOrders : TestReplace(replace)
    \/ \E cancel \in CancelOrders : TestCancel(cancel)

\* A failed assertion ends the test.
TestNext ==
    \/ FeedRefuseSequence /\ UNCHANGED <<model, passed>>
    \/ passed /\ expected_sequence < MaxSequence /\ TestCommand

TestSpec == TestInit /\ [][TestNext]_testVars
-----------------------------------------------------------------------------
\* "Reservation equals live exposure inside the mirror": after every command
\* the gateway and the reference model have given the same answer, with the
\* same reason, fills, resting and discarded quantity, the model is consistent,
\* and both keep the same books, accounts and order ids.
ModelMatchesGateway == passed

\* adjust_reservation of the model adds an increase to the account before it
\* looks at the limits.
IncreaseRefused(replace) ==
    AdjustReject(risk, replace.order_id, replace.account_id, replace.price,
                 replace.quantity)
        \in {"NotionalLimit", "PositionLimit", "ArithmeticOverflow"}

\* No step makes the test fail but an increase that the limits refuse, and also
\* that one is answered alike and leaves the same orders in both books.
OnlyRefusedIncreasesDiverge ==
    [][passed =>
        \/ passed'
        \/ \E replace \in ReplaceOrders :
              /\ IncreaseRefused(replace) /\ TestReplace(replace)
              /\ M!ApplyReplace(model, Stamped(replace)).answer = ReplaceAnswer(replace)
              /\ SameBooks' /\ SameNumbers']_testVars
=============================================================================
