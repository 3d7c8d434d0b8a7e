--------------------------- MODULE MCStandardMode ---------------------------
(***************************************************************************)
(* Small instances of StandardMode for TLC: up to MaxCases test cases with *)
(* points 1, 2, 4, ... so that different sets of cases never have the same *)
(* score, and a problem worth the sum of its cases.                        *)
(***************************************************************************)
EXTENDS StandardMode, FiniteSets

CONSTANTS MaxCases, BatchNumbers, MaxDeps

\* a case without a batch has no dependencies
CaseKinds ==
    {[batch |-> None, deps |-> {}]} \cup 
    [batch : BatchNumbers, deps : {D \in SUBSET BatchNumbers : Cardinality(D) <= MaxDeps}]

WithPoints(kinds) ==
    [i \in DOMAIN kinds |-> [points |-> 2^(i - 1), batch |-> kinds[i].batch,
                             deps |-> kinds[i].deps]]

SmallPayloads ==
    UNION {{[cases |-> WithPoints(kinds), partial |-> p, points |-> 2^n - 1] :
               p \in BOOLEAN, kinds \in [1..n -> CaseKinds]} : n \in 0..MaxCases}

SmallOutcomes ==
    {[status |-> "AC", match |-> TRUE], [status |-> "AC", match |-> FALSE],
     [status |-> "RE", match |-> FALSE]}
=============================================================================
