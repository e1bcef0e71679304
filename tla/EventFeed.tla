----------------------------- MODULE EventFeed -----------------------------
(***************************************************************************)
(* hft-events over the gateway: the batch each command publishes, and the  *)
(* subscriber of LiveOrders that reads nothing else.  Engine models when a *)
(* batch is published; here it is what is in it.                           *)
(***************************************************************************)
EXTENDS Gateway, LiveOrders

CONSTANT BATCH                \* capacity of a batch

\* try_new refuses a smaller batch.
ASSUME BatchAssumption == BATCH \in Nat /\ BATCH >= REPORTS + 2

VARIABLES live,               \* the subscriber's live orders
          explained           \* did it accept every batch so far?

feedVars == <<vars, live, explained>>

\* OrderBook::top_level, Absent for None.
TopLevel(b, side) ==
    IF b[side] = <<>> THEN Absent
    ELSE LET level == b[side][1] IN
         [price |-> level.price,
          aggregate_quantity |-> FoldLeft(LAMBDA n, o : n + o.quantity, 0, level.orders),
          order_count |-> Len(level.orders)]

TopLevels(b) == [side \in Sides |-> TopLevel(b, side)]
-----------------------------------------------------------------------------
(* publish_result                                                          *)

\* CommandIdentity, with the sequence the gateway expects.
Identity(kind, command) ==
    [kind |-> kind, sequence |-> expected_sequence] @@ command

\* An event of command, at its place in the batch.
Event(command, ordinal, event) ==
    [command_sequence |-> command.sequence, ordinal |-> ordinal,
     instrument_id |-> command.instrument_id] @@ event

Rejected(command) ==
    [kind |-> "Rejected", command |-> command.kind, order_id |-> command.order_id,
     account_id |-> command.account_id]

\* terminal_event, from what the book answered.
Accepted(order) ==
    LET filled == order.quantity - Unfilled(book, order)
    IN  [kind |-> "Accepted", order_id |-> order.order_id,
         account_id |-> order.account_id,
         state |-> IF filled = order.quantity THEN "Filled"
                   ELSE IF filled = 0 THEN "Accepted" ELSE "PartiallyFilled",
         filled_quantity |-> filled,
         resting_quantity |-> Unfilled(book, order) - Discarded(book, order),
         discarded_quantity |-> Discarded(book, order)]

Replaced(replace) ==
    [kind |-> "Replaced", order_id |-> replace.order_id,
     account_id |-> replace.account_id,
     old_quantity |-> OrderAt(book, Locate(book, replace.order_id)).quantity,
     new_quantity |-> replace.quantity, price |-> replace.price,
     priority_lost |-> ~PriorityKept(book, replace)]

Cancelled(cancel) ==
    [kind |-> "Cancelled", order_id |-> cancel.order_id,
     account_id |-> cancel.account_id,
     quantity |-> OrderAt(book, Locate(book, cancel.order_id)).quantity]

TerminalEvent(command) ==
    CASE command.kind = "NewOrder" -> Accepted(command)
      [] command.kind = "Replace" -> Replaced(command)
      [] command.kind = "Cancel" -> Cancelled(command)

\* The reports of the command, empty unless it is a new order.
Reports(command) == IF command.kind = "NewOrder" THEN Fills(book, command) ELSE <<>>

Trade(command, report) ==
    [kind |-> "Trade", taker_order_id |-> command.order_id] @@ report

\* Mutant: only a new best price is announced.
TopOfBookOnNewPrice(command, ordinal) ==
    IF \A side \in Sides : TopLevel(book, side).price = TopLevel(book', side).price
    THEN <<>>
    ELSE <<Event(command, ordinal, [kind |-> "TopOfBook", top |-> TopLevels(book')])>>

\* One TopOfBook event, if either best level is not what it was before.
TopOfBook(command, ordinal) ==
    IF TopLevels(book) = TopLevels(book') THEN <<>>
    ELSE <<Event(command, ordinal, [kind |-> "TopOfBook", top |-> TopLevels(book')])>>

Batch(command) ==
    IF outcome' # "Ok" THEN <<Event(command, 0, Rejected(command))>>
    ELSE LET reports == Reports(command)
             trades == [k \in 1..Len(reports) |-> Event(command, k, Trade(command, reports[k]))]
         IN  <<Event(command, 0, TerminalEvent(command))>> \o trades
                \o TopOfBook(command, Len(reports) + 1)

\* EventBatch::try_push never meets a full batch.
BatchFits(batch) == Len(batch) <= BATCH

\* An internal error, and an event too many for the batch, publish nothing and
\* return an error.
PublishResult(command) ==
    \E batch \in {Batch(command)} :
        IF outcome' = "RiskState" \/ ~BatchFits(batch)
        THEN explained' = FALSE /\ UNCHANGED live
        ELSE \E applied \in {ApplyBatch(live, batch, command)} :
                 explained' = applied.ok /\ live' = applied.live
-----------------------------------------------------------------------------
FeedInit ==
    /\ Init
    /\ live = NoLiveOrders
    /\ explained = TRUE

\* A sequence error publishes no batch.
FeedRefuseSequence == RefuseSequence /\ UNCHANGED <<live, explained>>

FeedNewOrder(order) ==
    ProcessNewOrder(order) /\ PublishResult(Identity("NewOrder", order))

FeedReplace(replace) ==
    ProcessReplace(replace) /\ PublishResult(Identity("Replace", replace))

FeedCancel(cancel) ==
    ProcessCancel(cancel) /\ PublishResult(Identity("Cancel", cancel))

FeedNext ==
    \/ FeedRefuseSequence
    \/ \E order \in NewOrders : FeedNewOrder(order)
    \/ \E replace \in ReplaceOrders : FeedReplace(replace)
    \/ \E cancel \in CancelOrders : FeedCancel(cancel)

FeedSpec == FeedInit /\ [][FeedNext]_feedVars
-----------------------------------------------------------------------------
\* Whoever only reads the batches has the book: every batch fits, is complete,
\* ordered and consistent with its command and with the batches before it, and
\* the live orders derived from them are those of the book with their accounts,
\* prices and remaining quantities.
FeedRebuildsBook == explained /\ LiveMatchesBook(live, book)
=============================================================================
