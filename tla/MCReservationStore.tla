------------------------- MODULE MCReservationStore -------------------------
(* Three slots, six buckets, four ids and every way they can collide.      *)
EXTENDS ReservationStore

MCOrderIds == 1..4
=============================================================================
