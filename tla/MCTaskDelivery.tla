--------------------------- MODULE MCTaskDelivery ---------------------------
(* Two submissions and two slots for TLC. *)
EXTENDS TaskDelivery

CONSTANTS t1, t2, s1, s2
=============================================================================
