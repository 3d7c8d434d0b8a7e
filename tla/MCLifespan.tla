----------------------------- MODULE MCLifespan -----------------------------
(***************************************************************************)
(* Every dependency graph on three enabled modules, also of modules that   *)
(* depend on themselves, and every graph on two of which one is disabled;  *)
(* two routes that share a permission key.                                 *)
(***************************************************************************)
EXTENDS Lifespan, FiniteSets

CONSTANTS e1, e2

\* depends_on lists names in any order; name order is enough for what is checked
WithDeps(deps, on) == [enabled |-> on, depends_on |-> SetToSortSeq(deps, <)]

Graphs(n, on) ==
    {[m \in 1..n |-> WithDeps(g[m], on[m])] : g \in [1..n -> SUBSET (1..n)]}

SmallManifests ==
    Graphs(3, <<TRUE, TRUE, TRUE>>) \cup Graphs(2, <<TRUE, FALSE>>)

SmallRoutes ==
    {<<[keys |-> {}, methods |-> {GET}], [keys |-> {1}, methods |-> {HEAD}]>>,
     <<[keys |-> {2, 1}, methods |-> {GET, HEAD}], [keys |-> {1}, methods |-> {DELETE}]>>}

SmallPeer == [k \in {1, 3} |-> 1]
=============================================================================
