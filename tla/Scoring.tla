------------------------------- MODULE Scoring -------------------------------
(***************************************************************************)
(* The pure part of a verdict: app/modules/judge/result_mapper.py,         *)
(* scoring.py and the per-case decision of modes/standard.py.              *)
(*                                                                         *)
(* A test case is [points, batch, deps] with batch = None outside IOI; a   *)
(* case result is [case_no, result, points].  Times, memory and previews   *)
(* are left out.                                                           *)
(***************************************************************************)
EXTENDS Integers, Sequences, FiniteSetsExt

CONSTANT None

\* the statuses SANDBOX_TO_OJ_RESULT knows
KnownStatuses == {"AC", "CE", "RE", "TLE", "MLE", "OLE", "SE", "IE"}

ToOjResult(status) == IF status \in KnownStatuses THEN status ELSE "IE"

\* run_ok and output_match of StandardMode.judge
CaseVerdict(status, match) ==
    IF status # "AC" THEN ToOjResult(status) ELSE IF match THEN "AC" ELSE "WA"

\* the first case that is neither AC nor SKIPPED decides
ComputeOverallResult(ce, cases) ==
    LET bad == {i \in DOMAIN cases : cases[i].result \notin {"AC", "SKIPPED"}} IN
    IF ce THEN "CE" ELSE IF bad # {} THEN cases[Min(bad)].result ELSE "AC"

\* sum of the points of the cases in S
PointsOf(cases, S) == SumFunctionOnSet([i \in DOMAIN cases |-> cases[i].points], S)

\* sum of the points of the AC cases
SumAccepted(cases) == PointsOf(cases, {i \in DOMAIN cases : cases[i].result = "AC"})

(***************************************************************************)
(* IOI batches.  zip() stops at the shorter list, so only test cases that  *)
(* have a result count.                                                    *)
(***************************************************************************)
MutantAnyAc(raw, tcs) ==
    [b \in {tcs[i].batch : i \in DOMAIN raw} \ {None} |->
        \E i \in DOMAIN raw : tcs[i].batch = b /\ raw[i].result = "AC"]

BatchAcStatus(raw, tcs) ==
    [b \in {tcs[i].batch : i \in DOMAIN raw} \ {None} |->
        \A i \in DOMAIN raw : tcs[i].batch = b => raw[i].result = "AC"]

DependencyFailed(tc, ac) ==
    tc.batch # None /\ \E d \in tc.deps : d \in DOMAIN ac /\ ~ac[d]

MutantNoDependencies(raw, tcs, ac) == raw

ApplyBatchDependencies(raw, tcs, ac) ==
    [i \in DOMAIN raw |->
        IF DependencyFailed(tcs[i], ac)
        THEN [raw[i] EXCEPT !.result = "SKIPPED", !.points = 0]
        ELSE raw[i]]

\* batch_order: the cases grouped by batch, the batches in the order of their
\* first case; a case's place is the number of cases up to it
Grouped(tcs, n) ==
    LET First(i) == Min({j \in 1..n : tcs[j].batch = tcs[i].batch})
        Upto(i) == {j \in 1..n : First(j) < First(i) \/ (First(j) = First(i) /\ j <= i)}
    IN [p \in 1..n |-> CHOOSE i \in 1..n : Cardinality(Upto(i)) = p]

\* Phases 1-4
AggregateBatches(raw, tcs) ==
    LET cases == ApplyBatchDependencies(raw, tcs, BatchAcStatus(raw, tcs))
        ac == BatchAcStatus(cases, tcs)
        Lost(b) == b # None /\ ~ac[b]
        adjusted == [i \in DOMAIN cases |->
                        IF Lost(tcs[i].batch) THEN [cases[i] EXCEPT !.points = 0] ELSE cases[i]]
        order == Grouped(tcs, Len(raw))
        earning == {i \in DOMAIN cases :
                       IF tcs[i].batch = None THEN cases[i].result = "AC" ELSE ac[tcs[i].batch]}
    IN [cases |-> [p \in DOMAIN cases |-> adjusted[order[p]]],
        score |-> PointsOf(cases, earning)]
=============================================================================
