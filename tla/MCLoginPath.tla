----------------------------- MODULE MCLoginPath -----------------------------
(***************************************************************************)
(* Three logins of two clients, two of which get as far as the secrets; the*)
(* login rule comes before a general rule that matches them, too.  A limit *)
(* is below the number of instants of a window: otherwise no number of     *)
(* requests could exceed it.                                               *)
(***************************************************************************)
EXTENDS LoginPath, TLC

CONSTANTS l1, l2, l3

SmallClient == [r \in Requests |-> IF r = l3 THEN "c2" ELSE "c1"]
SmallPath == [r \in Requests |-> "login"]
SmallRules == <<[paths |-> {"login"}, limit |-> 1], [paths |-> {"login", "other"}, limit |-> 2]>>

Symmetry == Permutations(Users)
=============================================================================
