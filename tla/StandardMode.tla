----------------------------- MODULE StandardMode -----------------------------
(***************************************************************************)
(* One STANDARD judge task, from the orchestrator's call to its result:    *)
(* orchestrator.judge and StandardMode.judge.  The sandbox is external: it *)
(* compiles, runs the cases and reports a status for each; whether the     *)
(* output of a run equals the expected one is part of its outcome here.    *)
(***************************************************************************)
EXTENDS Scoring

CONSTANTS Payloads,   \* the tasks, see Payload
          Outcomes    \* what a run can end with: [status, match]

TestCase == [points : Int, batch : Int \cup {None}, deps : SUBSET Int]
Payload == [cases : Seq(TestCase), partial : BOOLEAN, points : Int]

ASSUME StandardAssumption ==
    /\ Payloads \subseteq Payload
    /\ Outcomes \subseteq [status : STRING, match : BOOLEAN]
    /\ None \notin Int
    /\ None \notin KnownStatuses \cup {"WA", "SKIPPED"}

VARIABLES payload,
          pc,         \* "build", "run", "compare", "done"
          client,     \* sandbox client: "none", "open", "closed"
          sandbox,    \* what run_cases returned: [ce, cases]
          raw,        \* raw_case_results
          out         \* the result payload

vars == <<payload, pc, client, sandbox, raw, out>>

NoRun == [ce |-> FALSE, cases |-> <<>>]
NoResult == [status |-> "PENDING", result |-> None, score |-> 0, cases |-> <<>>]

\* error_verdict and _build_failed_result, as far as the properties see them
Failed == [status |-> "FAILED", result |-> None, score |-> 0, cases |-> <<>>]

tcs == payload.cases
Size == Len(tcs)

\* any(tc.get("batch_no") ...): None and the number 0 are both falsy
HasBatch == \E i \in 1..Size : tcs[i].batch \notin {None, 0}
StopOnFirst == ~payload.partial /\ ~HasBatch

HadFailure == \E i \in DOMAIN raw : raw[i].result # "AC"

Skipped(i) == [case_no |-> i, result |-> "SKIPPED", points |-> 0]

(***************************************************************************)
(* Steps.                                                                  *)
(***************************************************************************)
Init ==
    /\ payload \in Payloads
    /\ pc = "build"
    /\ client = "none"
    /\ sandbox = NoRun
    /\ raw = <<>>
    /\ out = NoResult

\* build_judge_cases resolves every file of the payload, or raises
BuildCases ==
    /\ pc = "build" /\ Size > 0
    /\ pc' = "run"
    /\ client' = "open"
    /\ UNCHANGED <<payload, sandbox, raw, out>>

BuildFails ==
    /\ pc = "build"
    /\ pc' = "done"
    /\ out' = Failed
    /\ UNCHANGED <<payload, client, sandbox, raw>>

\* A run the sandbox counts as failed; it may or may not compare outputs.
Fails(o) == o.status # "AC" \/ ~o.match

\* external: a compile error has no cases; with stop_on_first_failure the
\* sandbox may end the list at any failed case
RunLengths(results) ==
    {n \in 1..Size : n = Size \/ (StopOnFirst /\ Fails(results[n]))}

RunCases ==
    /\ pc = "run"
    /\ pc' = "compare"
    /\ \/ sandbox' = [ce |-> TRUE, cases |-> <<>>]
       \/ \E results \in [1..Size -> Outcomes] :
             \E n \in RunLengths(results) :
                sandbox' = [ce |-> FALSE, cases |-> SubSeq(results, 1, n)]
    /\ UNCHANGED <<payload, client, raw, out>>

MutantClientLeft ==
    /\ pc \in {"run", "compare"}
    /\ pc' = "done"
    /\ out' = Failed
    /\ UNCHANGED <<payload, client, sandbox, raw>>

\* the sandbox, or reading an output, raises: finally closes the client and the
\* orchestrator answers
RunFails ==
    /\ pc \in {"run", "compare"}
    /\ pc' = "done"
    /\ client' = "closed"
    /\ out' = Failed
    /\ UNCHANGED <<payload, sandbox, raw>>

MutantNeverSkips(i) ==
    [case_no |-> i, points |-> tcs[i].points,
     result |-> CaseVerdict(sandbox.cases[i].status, sandbox.cases[i].match)]

CaseResult(i) ==
    IF StopOnFirst /\ HadFailure THEN Skipped(i)
    ELSE [case_no |-> i, points |-> tcs[i].points,
          result |-> CaseVerdict(sandbox.cases[i].status, sandbox.cases[i].match)]

\* one round of the loop over batch_result.cases
CompareCase ==
    LET i == Len(raw) + 1 IN
    /\ pc = "compare" /\ i <= Len(sandbox.cases)
    /\ raw' = Append(raw, CaseResult(i))
    /\ UNCHANGED <<payload, pc, client, sandbox, out>>

MutantNotPadded == raw

\* SKIPPED for the cases the sandbox did not reach
Padded ==
    IF StopOnFirst /\ HadFailure
    THEN [i \in 1..Size |-> IF i \in DOMAIN raw THEN raw[i] ELSE Skipped(i)]
    ELSE raw

Scored(cases) ==
    IF HasBatch THEN AggregateBatches(cases, tcs)
    ELSE [cases |-> cases, score |-> IF sandbox.ce THEN 0 ELSE SumAccepted(cases)]

MutantAnyScore(scored) ==
    IF sandbox.ce THEN "CE"
    ELSE IF scored.score > 0 THEN "AC"
    ELSE ComputeOverallResult(FALSE, scored.cases)

OverallResult(scored) ==
    IF sandbox.ce THEN "CE"
    ELSE IF scored.score >= payload.points THEN "AC"
    ELSE ComputeOverallResult(FALSE, scored.cases)

Finish ==
    LET scored == Scored(Padded) IN
    /\ pc = "compare" /\ Len(raw) = Len(sandbox.cases)
    /\ pc' = "done"
    /\ client' = "closed"
    /\ out' = [status |-> "COMPLETED", result |-> OverallResult(scored),
               score |-> scored.score, cases |-> scored.cases]
    /\ UNCHANGED <<payload, sandbox, raw>>

Next == BuildCases \/ BuildFails \/ RunCases \/ RunFails \/ CompareCase \/ Finish

Spec == Init /\ [][Next]_vars /\ WF_vars(Next)

(***************************************************************************)
(* Reference definitions, read from the outcome of the runs alone.         *)
(***************************************************************************)
Completed == pc = "done" /\ out.status = "COMPLETED"

Passed(i) == ~sandbox.ce /\ i \in DOMAIN sandbox.cases /\ ~Fails(sandbox.cases[i])

BatchPassed(b) == \A i \in 1..Size : tcs[i].batch = b => Passed(i)

\* the problem has batches: some case has a batch number, 0 being one
Batched == \E i \in 1..Size : tcs[i].batch # None

\* a batch earns its points if all its cases pass and so do the batches it
\* depends on directly; a case outside any batch earns them on its own; ACM, a
\* problem neither partial nor with batches, only before the first failure
Earns(i) ==
    IF ~payload.partial /\ ~Batched THEN \A j \in 1..i : Passed(j)
    ELSE IF tcs[i].batch = None THEN Passed(i)
    ELSE /\ BatchPassed(tcs[i].batch)
         /\ \A j \in 1..Size : tcs[j].batch = tcs[i].batch =>
               \A d \in tcs[j].deps : BatchPassed(d)

ReferenceScore == PointsOf(tcs, {i \in 1..Size : Earns(i)})

Batches == {tcs[i].batch : i \in 1..Size} \ {None}
DependsOn(a, b) == \E i \in 1..Size : tcs[i].batch = a /\ b \in tcs[i].deps

\* no failed batch can be hidden behind another failed batch
Acyclic == ~\E C \in SUBSET Batches : C # {} /\ \A a \in C : \E b \in C : DependsOn(a, b)

\* every case has points and the problem is worth their sum
WorthItsCases(p) ==
    /\ \A i \in DOMAIN p.cases : p.cases[i].points > 0
    /\ p.points = PointsOf(p.cases, DOMAIN p.cases)

(***************************************************************************)
(* Properties.                                                             *)
(***************************************************************************)

\* The score equals the sum of the points every case earns by the rules of
\* scoring.py's header, read directly off the sandbox's outcomes: four
\* phases of in-place marking never give or lose points.  A payload whose only
\* batch number is 0 is left out: has_batch is false for it, so StandardMode
\* scores it as ACM or OI against those rules.
ScoreMatchesReference ==
    Completed /\ (Batched => HasBatch) => out.score = ReferenceScore

\* The score equals the sum of the points of the cases reported as AC, so a
\* consumer that adds up cases[] agrees with the total.
ReportedPointsAddUp == Completed => out.score = SumAccepted(out.cases)

\* If the problem is worth its cases and no batches depend on each other in a
\* circle, a submission is reported AC exactly when every test case ran and
\* matched: neither SKIPPED cases nor the score shortcut can hide a failure.
AcceptedExactly ==
    Completed /\ WorthItsCases(payload) /\ Acyclic =>
        (out.result = "AC" <=> \A i \in 1..Size : Passed(i))

\* Unless compilation failed, every test case is reported exactly once, also
\* when the sandbox stopped early and when batches reorder the list.
EveryCaseReportedOnce ==
    Completed /\ ~sandbox.ce =>
        /\ Len(out.cases) = Size
        /\ {out.cases[i].case_no : i \in DOMAIN out.cases} = 1..Size

\* ACM, with a problem worth its cases: the result is the verdict of the first
\* failed case, and every case after it is SKIPPED although the sandbox may have
\* run it.
FirstErrorDecides ==
    Completed /\ ~sandbox.ce /\ StopOnFirst /\ WorthItsCases(payload) =>
        \A i \in 1..Size :
            ~Passed(i) /\ (\A j \in 1..(i - 1) : Passed(j)) =>
                /\ out.result = out.cases[i].result
                /\ \A j \in (i + 1)..Size : out.cases[j].result = "SKIPPED"

\* The orchestrator's promise, with the mode's own state substituted.
Task == INSTANCE JudgeTask WITH
    phase <- CASE pc = "build" -> "setup" [] pc = "done" -> "answered" [] OTHER -> "judging",
    held <- client = "open",
    answer <- [status |-> out.status, graded |-> out.result # None]

\* StandardMode.judge under orchestrator.judge implements the abstract task:
\* every path, exceptions included, ends in one answer, graded exactly if
\* COMPLETED, and none leaves the sandbox client open.
ImplementsJudgeTask == Task!Spec
=============================================================================
