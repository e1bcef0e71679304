----------------------------- MODULE CommandGen -----------------------------
(***************************************************************************)
(* CommandGen, hft-model/src/lib.rs: the command stream that drives the    *)
(* soak and property tests.  A draw of the random stream is a choice among *)
(* everything it may yield; every share of GenConfig lies between 0 and    *)
(* 100 percent, both excluded, so no alternative is ruled out.             *)
(***************************************************************************)
EXTENDS Integers

CONSTANTS gen_accounts, minimum_price, maximum_price, max_quantity,   \* GenConfig
          gen_instrument,
          MaxGenerated   \* bound: the last sequence number drawn

ASSUME GenAssumption ==
    /\ gen_accounts >= 1 /\ minimum_price <= maximum_price /\ max_quantity >= 1

VARIABLES next_sequence, fresh_ids

gen == <<next_sequence, fresh_ids>>

GenInit == next_sequence = 1 /\ fresh_ids = 0

IssuedIds == 1..fresh_ids

\* A fresh id, or a duplicate the engines must reject.
NextNew ==
    [kind : {"New"}, order_id : IssuedIds \union {fresh_ids + 1},
     account_id : 1..gen_accounts, instrument_id : {gen_instrument},
     price : minimum_price..maximum_price, quantity : 1..max_quantity,
     sequence : {next_sequence}, side : {"Buy", "Sell"},
     time_in_force : {"Gtc", "Ioc", "Fok", "PostOnly"}]

\* Any issued id with any owner, live or not.
NextCancel ==
    [kind : {"Cancel"}, order_id : IssuedIds, account_id : 1..gen_accounts,
     instrument_id : {gen_instrument}, sequence : {next_sequence}]

NextReplace ==
    [kind : {"Replace"}, order_id : IssuedIds, account_id : 1..gen_accounts,
     instrument_id : {gen_instrument}, sequence : {next_sequence},
     price : minimum_price..maximum_price, quantity : 1..(2 * max_quantity)]

\* The first command is a new order: nothing else has an id to name.
Generated == NextNew \union NextCancel \union NextReplace

NextCommand(command) ==
    /\ command \in Generated
    /\ next_sequence <= MaxGenerated
    /\ next_sequence' = next_sequence + 1
    /\ fresh_ids' = IF command.order_id > fresh_ids THEN fresh_ids + 1 ELSE fresh_ids
=============================================================================
