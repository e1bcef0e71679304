-------------------------------- MODULE Wire --------------------------------
(***************************************************************************)
(* The wire protocol, hft-wire/src/lib.rs: fixed layouts behind a header   *)
(* of version, message type and declared length.                           *)
(*                                                                         *)
(* A frame is a sequence of cells, one cell for each field instead of one  *)
(* for each byte, so the lengths below count fields.  Where a field stands *)
(* differs from message to message, as it does in the code.                *)
(***************************************************************************)
EXTENDS Integers, Sequences

PROTOCOL_VERSION == 2
NEW_ORDER_TYPE == 1
CANCEL_ORDER_TYPE == 2
REPLACE_ORDER_TYPE == 3
HEADER_LEN == 3
NEW_ORDER_LEN == 11
CANCEL_ORDER_LEN == 7
REPLACE_ORDER_LEN == 9

\* The enums with their discriminants.
SideCode == [Buy |-> 1, Sell |-> 2]
TimeInForceCode == [Gtc |-> 1, Ioc |-> 2, Fok |-> 3, PostOnly |-> 4]

Codes(enum) == {enum[x] : x \in DOMAIN enum}

EncodeNewOrder(order) ==
    <<PROTOCOL_VERSION, NEW_ORDER_TYPE, NEW_ORDER_LEN, order.order_id,
      order.account_id, order.instrument_id, order.price, order.quantity,
      order.sequence, SideCode[order.side], TimeInForceCode[order.time_in_force]>>

EncodeCancelOrder(cancel) ==
    <<PROTOCOL_VERSION, CANCEL_ORDER_TYPE, CANCEL_ORDER_LEN, cancel.order_id,
      cancel.account_id, cancel.instrument_id, cancel.sequence>>

EncodeReplaceOrder(replace) ==
    <<PROTOCOL_VERSION, REPLACE_ORDER_TYPE, REPLACE_ORDER_LEN, replace.order_id,
      replace.account_id, replace.instrument_id, replace.sequence,
      replace.price, replace.quantity>>

EncodeCommand(command) ==
    CASE command.kind = "New" -> EncodeNewOrder(command)
      [] command.kind = "Cancel" -> EncodeCancelOrder(command)
      [] command.kind = "Replace" -> EncodeReplaceOrder(command)
-----------------------------------------------------------------------------
\* parse_message: every check on the frame, in order.
ParseMessage(frame) ==
    IF Len(frame) < HEADER_LEN THEN "TruncatedHeader"
    ELSE IF frame[1] # PROTOCOL_VERSION THEN "UnsupportedVersion"
    ELSE IF Len(frame) # frame[3] THEN "InvalidLength"
    ELSE CASE frame[2] = NEW_ORDER_TYPE ->
                IF frame[3] # NEW_ORDER_LEN THEN "InvalidLength"
                ELSE IF frame[10] \notin Codes(SideCode) THEN "InvalidSide"
                ELSE IF frame[11] \notin Codes(TimeInForceCode)
                     THEN "InvalidTimeInForce" ELSE "Ok"
           [] frame[2] = CANCEL_ORDER_TYPE ->
                IF frame[3] # CANCEL_ORDER_LEN THEN "InvalidLength" ELSE "Ok"
           [] frame[2] = REPLACE_ORDER_TYPE ->
                IF frame[3] # REPLACE_ORDER_LEN THEN "InvalidLength" ELSE "Ok"
           [] OTHER -> "UnknownMessageType"

\* The session sequence, from its place in each layout.
MessageSequence(frame) ==
    IF frame[2] = NEW_ORDER_TYPE THEN frame[9] ELSE frame[7]

\* to_owned of a new order: what no other code claims is a sell, a PostOnly.
NewOrderOf(frame) ==
    [kind |-> "New", order_id |-> frame[4], account_id |-> frame[5],
     instrument_id |-> frame[6], price |-> frame[7], quantity |-> frame[8],
     sequence |-> frame[9],
     side |-> IF frame[10] = SideCode["Buy"] THEN "Buy" ELSE "Sell",
     time_in_force |-> CASE frame[11] = TimeInForceCode["Gtc"] -> "Gtc"
                         [] frame[11] = TimeInForceCode["Ioc"] -> "Ioc"
                         [] frame[11] = TimeInForceCode["Fok"] -> "Fok"
                         [] OTHER -> "PostOnly"]

CancelOrderOf(frame) ==
    [kind |-> "Cancel", order_id |-> frame[4], account_id |-> frame[5],
     instrument_id |-> frame[6], sequence |-> frame[7]]

ReplaceOrderOf(frame) ==
    [kind |-> "Replace", order_id |-> frame[4], account_id |-> frame[5],
     instrument_id |-> frame[6], sequence |-> frame[7], price |-> frame[8],
     quantity |-> frame[9]]

ToCommand(frame) ==
    CASE frame[2] = NEW_ORDER_TYPE -> NewOrderOf(frame)
      [] frame[2] = CANCEL_ORDER_TYPE -> CancelOrderOf(frame)
      [] frame[2] = REPLACE_ORDER_TYPE -> ReplaceOrderOf(frame)
-----------------------------------------------------------------------------
\* One cell cleared, or raised by one.
Altered(cells, places) ==
    {[cells EXCEPT ![i] = 0] : i \in places} \union {[cells EXCEPT ![i] = @ + 1] : i \in places}

\* A command read back from its frame is the command, and a frame that
\* parse_message accepts is the encoding of the command it is read as: next to a
\* frame there is none with the same meaning, and none of another shape.
FrameIsCanonical(frame) ==
    /\ ParseMessage(frame) = "Ok"
    /\ \A f \in {frame, Tail(frame), frame \o <<0>>} \union Altered(frame, DOMAIN frame) :
          ParseMessage(f) = "Ok" => EncodeCommand(ToCommand(f)) = f
=============================================================================
