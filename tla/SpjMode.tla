------------------------------- MODULE SpjMode -------------------------------
(***************************************************************************)
(* One SPECIAL_JUDGE task: SpecialJudgeMode.judge of                       *)
(* app/modules/judge/modes/spj.py, called by orchestrator.judge.  The user *)
(* program and the checker are compiled once, each by a client of its own, *)
(* and then run one after the other for every test case.  Both are         *)
(* external: a compilation or a run ends in any way, or the sandbox        *)
(* raises.  Points are counted in units of per_case_points.                *)
(***************************************************************************)
EXTENDS Integers, Sequences, FiniteSets

CONSTANTS MaxCases,    \* a payload has at most this many test cases
          None

ASSUME CasesAssumption == MaxCases \in Nat
ASSUME NoneAssumption == None \notin {"AC", "WA"}

Clients == {"client", "checker_client"}
Programs == {"program", "checker_program"}
ClientOf == [p \in Programs |-> IF p = "program" THEN "client" ELSE "checker_client"]

Statuses == {"AC", "RE", "TLE"}
Runs == [status : Statuses, accepted : BOOLEAN]

VARIABLES n,          \* len(test_cases_data)
          pc,
          open,       \* clients and programs not closed yet
          all_ac,
          score,      \* total_score, in units of per_case_points
          cases,      \* all_cases: the results so far
          user,       \* user_result.status of the current case
          verdict,    \* what the finally block was entered with
          out,        \* the result payload
          runs        \* history: how each case really went

tally == <<all_ac, score, cases, runs>>
vars == <<n, pc, open, all_ac, score, cases, user, verdict, out, runs>>

Pending == [status |-> "PENDING", result |-> None, score |-> 0]
Failed == [status |-> "FAILED", result |-> None, score |-> 0]

Init ==
    /\ n \in 0..MaxCases
    /\ pc = "start"
    /\ open = {}
    /\ all_ac = TRUE /\ score = 0 /\ cases = <<>> /\ runs = <<>>
    /\ user = None
    /\ verdict = Pending
    /\ out = Pending

(***************************************************************************)
(* Before the try block.                                                   *)
(***************************************************************************)

\* no checker source (error_verdict), or a configuration that raises
Rejects ==
    /\ pc = "start"
    /\ pc' = "done"
    /\ out' = Failed
    /\ UNCHANGED <<n, open, tally, user, verdict>>

CreateClient ==
    /\ pc = "start"
    /\ pc' = "checker_client"
    /\ open' = open \cup {"client"}
    /\ UNCHANGED <<n, tally, user, verdict, out>>

CreateCheckerClient ==
    /\ pc = "checker_client"
    /\ pc' = "compile"
    /\ open' = open \cup {"checker_client"}
    /\ UNCHANGED <<n, tally, user, verdict, out>>

\* the second constructor raises: no finally block, the first client stays open
CheckerClientFails ==
    /\ pc = "checker_client"
    /\ pc' = "raised"
    /\ out' = Failed
    /\ UNCHANGED <<n, open, tally, user, verdict>>

(***************************************************************************)
(* The try block.                                                          *)
(***************************************************************************)

\* a return or an exception inside the try block; got: what exists by then
Leave(got) ==
    /\ pc' = "finally"
    /\ open' = open \cup got
    /\ verdict' = Failed
    /\ UNCHANGED <<n, tally, user, out>>

Prepared(program, next) ==
    /\ pc' = next
    /\ open' = open \cup {program}
    /\ UNCHANGED <<n, tally, user, verdict, out>>

\* prepare_source of the user program: compiled, not compiled, or raises
CompileUser ==
    /\ pc = "compile"
    /\ Prepared("program", "compile_checker") \/ Leave({"program"}) \/ Leave({})

CompileChecker ==
    /\ pc = "compile_checker"
    /\ Prepared("checker_program", "case") \/ Leave({"checker_program"}) \/ Leave({})

MutantOneMore ==
    /\ pc = "case"
    /\ pc' = "check"
    /\ user' \in Statuses
    /\ UNCHANGED <<n, open, tally, verdict, out>>

\* the files of the case are resolved and the user program is run
RunUser ==
    /\ pc = "case" /\ Len(cases) < n
    /\ pc' = "check"
    /\ user' \in Statuses
    /\ UNCHANGED <<n, open, tally, verdict, out>>

MutantCheckerOnly(accepted) ==
    LET ac == accepted IN
    /\ cases' = Append(cases, IF ac THEN "AC" ELSE "WA")
    /\ score' = IF ac THEN score + 1 ELSE score
    /\ all_ac' = (all_ac /\ ac)

\* one entry of all_cases; a failed run is WA whatever its status
Report(accepted) ==
    LET ac == user = "AC" /\ accepted IN
    /\ cases' = Append(cases, IF ac THEN "AC" ELSE "WA")
    /\ score' = IF ac THEN score + 1 ELSE score
    /\ all_ac' = (all_ac /\ ac)

\* the checker is run on the output of a failed run, too
Check ==
    /\ pc = "check"
    /\ \E accepted \in BOOLEAN :
          /\ Report(accepted)
          /\ runs' = Append(runs, [status |-> user, accepted |-> accepted])
    /\ pc' = "case"
    /\ UNCHANGED <<n, open, user, verdict, out>>

\* a file, a run, the checker or a metric raises
CaseRaises ==
    /\ pc = "check" \/ (pc = "case" /\ Len(cases) < n)
    /\ Leave({})

EndOfCases ==
    /\ pc = "case" /\ Len(cases) = n
    /\ pc' = "finally"
    /\ verdict' = [status |-> "COMPLETED", score |-> score,
                   result |-> IF all_ac THEN "AC" ELSE "WA"]
    /\ UNCHANGED <<n, open, tally, user, out>>

(***************************************************************************)
(* The finally block: one close after the other; None programs are passed  *)
(* over.  close is assumed not to raise.                                   *)
(***************************************************************************)
MutantClientsFirst == <<"client", "checker_client", "checker_program", "program">>

CloseOrder == <<"checker_program", "program", "client", "checker_client">>

Close ==
    /\ pc = "finally" /\ open # {}
    /\ \E i \in DOMAIN CloseOrder :
          /\ CloseOrder[i] \in open
          /\ \A j \in 1..(i - 1) : CloseOrder[j] \notin open
          /\ open' = open \ {CloseOrder[i]}
    /\ UNCHANGED <<n, pc, tally, user, verdict, out>>

MutantEarlyAnswer ==
    /\ pc = "finally" /\ "client" \notin open
    /\ pc' = "done"
    /\ out' = verdict
    /\ UNCHANGED <<n, open, tally, user, verdict>>

Answer ==
    /\ pc = "finally" /\ open = {}
    /\ pc' = "done"
    /\ out' = verdict
    /\ UNCHANGED <<n, open, tally, user, verdict>>

Next ==
    \/ Rejects \/ CreateClient \/ CreateCheckerClient \/ CheckerClientFails
    \/ CompileUser \/ CompileChecker
    \/ RunUser \/ Check \/ CaseRaises \/ EndOfCases
    \/ Close \/ Answer

\* Sandbox calls return: the sandbox enforces the limits it is given.
Spec == Init /\ [][Next]_vars /\ WF_vars(Next)

(***************************************************************************)
(* Properties.                                                             *)
(***************************************************************************)

\* Control point, resources, tally and results have their types.
TypeOK ==
    /\ n \in 0..MaxCases
    /\ pc \in {"start", "checker_client", "compile", "compile_checker", "case", "check",
               "finally", "raised", "done"}
    /\ open \subseteq Clients \cup Programs
    /\ all_ac \in BOOLEAN
    /\ score \in 0..n
    /\ cases \in Seq({"AC", "WA"}) /\ Len(cases) <= n
    /\ runs \in Seq(Runs)
    /\ user \in Statuses \cup {None}
    /\ {verdict.status, out.status} \subseteq {"PENDING", "COMPLETED", "FAILED"}

\* the cases whose run ended regularly and whose output was accepted
Good == {i \in DOMAIN runs : runs[i] = [status |-> "AC", accepted |-> TRUE]}

\* A completed task answers for every test case, is AC exactly when every run
\* ended regularly and its output was accepted, and has one share of the
\* points for each such case: a checker that accepts the output of a crashed
\* run earns nothing, and an exception after some accepted cases earns nothing.
VerdictFollowsRuns ==
    pc = "done" =>
        IF out.status = "COMPLETED"
        THEN /\ Len(cases) = n
             /\ out.result = "AC" <=> Good = 1..n
             /\ out.score = Cardinality(Good)
        ELSE out = Failed

\* While a prepared program is open its client is, too, on every way out of
\* the try block: no program is closed through a closed client.
ClosedInsideOut == \A p \in Programs : p \in open => ClientOf[p] \in open

\* The mode keeps the orchestrator's promise: one answer, graded or failed,
\* everything closed by then unless the second client could not be created.
Task == INSTANCE JudgeTask WITH
    phase <- IF pc \in {"start", "checker_client"} THEN "setup"
             ELSE IF pc \in {"done", "raised"} THEN "answered" ELSE "judging",
    held <- open # {},
    answer <- [status |-> out.status, graded |-> out.result # None]

\* SpecialJudgeMode.judge implements the abstract judge task.
ImplementsJudgeTask == Task!Spec
=============================================================================
