---------------------------- MODULE SpjModeProofs ----------------------------
(***************************************************************************)
(* Proofs about SpjMode, for any number of test cases.  Inv strengthens    *)
(* the three invariants of the run: the tally is tied to the history of    *)
(* the runs, the resources to the control point, and the verdict the       *)
(* finally block carries to the tally.  From it follow the type invariant, *)
(* the verdict, the order of closing, and the safety part of the           *)
(* refinement of JudgeTask.                                                *)
(***************************************************************************)
EXTENDS SpjMode, FiniteSetTheorems, SequenceTheorems, TLAPS

\* what is in the tally is what the runs were
TallyInv ==
    /\ Len(runs) = Len(cases)
    /\ score = Cardinality(Good)
    /\ all_ac <=> Good = 1..Len(runs)

\* what is open at each control point
OpenInv ==
    /\ pc \in {"start", "done"} => open = {}
    /\ pc = "checker_client" => open = {"client"}
    /\ pc = "compile" => open = Clients
    /\ pc = "compile_checker" => open = Clients \cup {"program"}
    /\ pc \in {"case", "check"} => open = Clients \cup Programs
    /\ pc = "raised" => open = {"client"}
    /\ ClosedInsideOut

Graded == [status |-> "COMPLETED", score |-> score,
           result |-> IF all_ac THEN "AC" ELSE "WA"]

\* the result is pending, failed, or the tally's after the last case
ResultInv ==
    /\ pc = "finally" => verdict = Failed \/ (verdict = Graded /\ Len(cases) = n)
    /\ pc = "done" => out = Failed \/ (out = Graded /\ Len(cases) = n)
    /\ pc = "raised" => out = Failed
    /\ pc \notin {"done", "raised"} => out = Pending
    /\ pc = "check" => user \in Statuses /\ Len(cases) < n

Inv == TypeOK /\ TallyInv /\ OpenInv /\ ResultInv

-----------------------------------------------------------------------------

\* Good is a finite set of positions of runs.
LEMMA GoodFinite ==
    ASSUME TypeOK
    PROVE  /\ Good \subseteq 1..Len(runs)
           /\ IsFiniteSet(Good)
           /\ Cardinality(Good) \in Nat
           /\ Cardinality(Good) <= Len(runs)
<1>1. Len(runs) \in Nat /\ DOMAIN runs = 1..Len(runs)
  BY DEF TypeOK
<1>2. Good \subseteq 1..Len(runs)
  BY <1>1 DEF Good
<1>3. IsFiniteSet(1..Len(runs)) /\ Cardinality(1..Len(runs)) = Len(runs)
  <2>1. \A m \in Nat : IsFiniteSet(1..m) /\ Cardinality(1..m) = IF 1 > m THEN 0 ELSE m - 1 + 1
    BY FS_Interval
  <2>2. \A m \in Nat : (IF 1 > m THEN 0 ELSE m - 1 + 1) = m
    OBVIOUS
  <2>3. QED BY <1>1, <2>1, <2>2
<1>4. IsFiniteSet(Good) /\ Cardinality(Good) <= Len(runs)
  BY <1>2, <1>3, FS_Subset
<1>5. QED
  BY <1>2, <1>4, FS_CardinalityType

\* Report adds a position to Good exactly if it adds a share of the points.
LEMMA ReportTallies ==
    ASSUME TypeOK, TallyInv, user \in Statuses, Len(cases) < n,
           NEW accepted \in BOOLEAN, Report(accepted),
           runs' = Append(runs, [status |-> user, accepted |-> accepted])
    PROVE  /\ TallyInv'
           /\ score' \in Nat /\ score' <= Len(cases')
           /\ cases' \in Seq({"AC", "WA"}) /\ Len(cases') = Len(cases) + 1
           /\ all_ac' \in BOOLEAN
           /\ runs' \in Seq(Runs)
<1> DEFINE r == [status |-> user, accepted |-> accepted]
           ac == user = "AC" /\ accepted
<1>1. r \in Runs /\ runs \in Seq(Runs) /\ Len(runs) \in Nat
  BY DEF TypeOK, Runs
<1>2. /\ runs' \in Seq(Runs) /\ Len(runs') = Len(runs) + 1
      /\ DOMAIN runs' = 1..(Len(runs) + 1)
      /\ \A i \in 1..Len(runs) : runs'[i] = runs[i]
      /\ runs'[Len(runs) + 1] = r
  BY <1>1, AppendProperties
<1>3. r = [status |-> "AC", accepted |-> TRUE] <=> ac
  BY DEF Statuses
<1>4. Good' = IF ac THEN Good \cup {Len(runs) + 1} ELSE Good
  <2>1. Good' = {i \in 1..(Len(runs) + 1) : runs'[i] = [status |-> "AC", accepted |-> TRUE]}
    BY <1>2 DEF Good
  <2>2. Good = {i \in 1..Len(runs) : runs[i] = [status |-> "AC", accepted |-> TRUE]}
    BY <1>1 DEF Good
  <2>3. 1..(Len(runs) + 1) = 1..Len(runs) \cup {Len(runs) + 1}
    BY <1>1
  <2> HIDE DEF r, ac
  <2>4. QED
    BY <1>2, <1>3, <2>1, <2>2, <2>3, <1>1
<1>5. /\ Good \subseteq 1..Len(runs) /\ IsFiniteSet(Good)
      /\ Cardinality(Good) \in Nat /\ Cardinality(Good) <= Len(runs)
  BY GoodFinite
<1>6. Cardinality(Good \cup {Len(runs) + 1}) = Cardinality(Good) + 1
  <2>1. Len(runs) + 1 \notin Good
    BY <1>1, <1>5
  <2>2. QED BY <1>5, <2>1, FS_AddElement
<1>7. /\ cases' = Append(cases, IF ac THEN "AC" ELSE "WA")
      /\ score' = IF ac THEN score + 1 ELSE score
      /\ all_ac' = (all_ac /\ ac)
  BY DEF Report
<1>8. cases' \in Seq({"AC", "WA"}) /\ Len(cases') = Len(cases) + 1
  BY <1>7, AppendProperties DEF TypeOK
<1>9. score' = Cardinality(Good')
  BY <1>4, <1>6, <1>7 DEF TallyInv
<1>10. all_ac' <=> Good' = 1..Len(runs')
  <2>1. 1..Len(runs') = 1..Len(runs) \cup {Len(runs) + 1}
    BY <1>1, <1>2
  <2>2. Len(runs) + 1 \notin 1..Len(runs)
    BY <1>1
  <2>3. all_ac <=> Good = 1..Len(runs)
    BY DEF TallyInv
  <2> HIDE DEF ac
  <2>4. CASE ac
    BY <2>4, <2>1, <2>2, <2>3, <1>4, <1>5, <1>7, Zenon
  <2>5. CASE ~ac
    BY <2>5, <2>1, <2>2, <1>4, <1>5, <1>7, Zenon
  <2>6. QED BY <2>4, <2>5
<1>11. all_ac' \in BOOLEAN
  BY <1>7
<1>12. score' \in Nat /\ score' <= Len(cases')
  BY <1>5, <1>7, <1>8, <1>1 DEF TallyInv
<1>13. QED
  BY <1>2, <1>8, <1>9, <1>10, <1>11, <1>12 DEF TallyInv

\* The invariant holds when the task starts.
LEMMA InitInv == Init => Inv
<1> SUFFICES ASSUME Init PROVE Inv
  OBVIOUS
<1> USE CasesAssumption DEF Init
<1>1. TypeOK
  BY DEF TypeOK, Pending
<1>2. Good = {}
  BY DEF Good
<1>3. TallyInv
  BY <1>2, FS_EmptySet DEF TallyInv
<1>4. OpenInv /\ ResultInv
  BY DEF OpenInv, ResultInv, ClosedInsideOut
<1>5. QED
  BY <1>1, <1>3, <1>4 DEF Inv

\* An action that leaves the tally alone leaves what it says true.
LEMMA TallyKept ==
    ASSUME TallyInv, UNCHANGED tally
    PROVE  TallyInv'
<1>1. Good' = Good
  BY DEF tally, Good
<1>2. QED
  BY <1>1 DEF tally, TallyInv

\* Every step keeps the invariant.
LEMMA NextInv == Inv /\ [Next]_vars => Inv'
<1> SUFFICES ASSUME Inv, [Next]_vars PROVE Inv'
  OBVIOUS
<1> USE CasesAssumption
<1>0. TypeOK /\ TallyInv /\ OpenInv /\ ResultInv
  BY DEF Inv
<1>1. CASE Rejects
  BY <1>0, <1>1, TallyKept
  DEF Rejects, Inv, TypeOK, OpenInv, ResultInv, ClosedInsideOut, tally, Failed, Pending
<1>2. CASE CreateClient
  BY <1>0, <1>2, TallyKept
  DEF CreateClient, Inv, TypeOK, OpenInv, ResultInv, ClosedInsideOut, tally, Clients, Programs, ClientOf
<1>3. CASE CreateCheckerClient
  BY <1>0, <1>3, TallyKept
  DEF CreateCheckerClient, Inv, TypeOK, OpenInv, ResultInv, ClosedInsideOut, tally, Clients, Programs, ClientOf
<1>4. CASE CheckerClientFails
  BY <1>0, <1>4, TallyKept
  DEF CheckerClientFails, Inv, TypeOK, OpenInv, ResultInv, ClosedInsideOut, tally, Failed, Pending
<1>5. CASE CompileUser
  BY <1>0, <1>5, TallyKept
  DEF CompileUser, Prepared, Leave, Inv, TypeOK, OpenInv, ResultInv, ClosedInsideOut, tally,
      Clients, Programs, ClientOf, Failed, Pending
<1>6. CASE CompileChecker
  BY <1>0, <1>6, TallyKept
  DEF CompileChecker, Prepared, Leave, Inv, TypeOK, OpenInv, ResultInv, ClosedInsideOut, tally,
      Clients, Programs, ClientOf, Failed, Pending
<1>7. CASE RunUser
  BY <1>0, <1>7, TallyKept
  DEF RunUser, Inv, TypeOK, OpenInv, ResultInv, ClosedInsideOut, tally, Statuses
<1>8. CASE Check
  <2>1. PICK accepted \in BOOLEAN :
           /\ Report(accepted)
           /\ runs' = Append(runs, [status |-> user, accepted |-> accepted])
    BY <1>8 DEF Check
  <2>2. user \in Statuses /\ Len(cases) < n
    BY <1>0, <1>8 DEF Check, ResultInv
  <2>3. /\ TallyInv'
        /\ score' \in Nat /\ score' <= Len(cases')
        /\ cases' \in Seq({"AC", "WA"}) /\ Len(cases') = Len(cases) + 1
        /\ all_ac' \in BOOLEAN
        /\ runs' \in Seq(Runs)
    BY <1>0, <2>1, <2>2, ReportTallies
  <2>4. /\ pc = "check" /\ pc' = "case"
        /\ UNCHANGED <<n, open, user, verdict, out>>
    BY <1>8 DEF Check
  <2>5. Len(cases) \in Nat /\ n \in Nat /\ n <= MaxCases
    BY <1>0 DEF TypeOK
  <2>6. TypeOK'
    BY <1>0, <2>2, <2>3, <2>4, <2>5 DEF TypeOK
  <2>7. OpenInv' /\ ResultInv'
    BY <1>0, <2>4 DEF OpenInv, ResultInv, ClosedInsideOut
  <2>8. QED
    BY <2>3, <2>6, <2>7 DEF Inv
<1>9. CASE CaseRaises
  BY <1>0, <1>9, TallyKept
  DEF CaseRaises, Leave, Inv, TypeOK, OpenInv, ResultInv, ClosedInsideOut, tally,
      Clients, Programs, ClientOf, Failed, Pending
<1>10. CASE EndOfCases
  BY <1>0, <1>10, TallyKept
  DEF EndOfCases, Inv, TypeOK, OpenInv, ResultInv, ClosedInsideOut, tally, Graded,
      Clients, Programs, ClientOf
<1>11. CASE Close
  <2>1. ClosedInsideOut'
    BY <1>0, <1>11 DEF Close, CloseOrder, OpenInv, ClosedInsideOut, Programs, ClientOf
  <2>2. /\ pc = "finally" /\ open' \subseteq open
        /\ UNCHANGED <<n, pc, tally, user, verdict, out>>
    BY <1>11 DEF Close
  <2>3. TypeOK' /\ TallyInv'
    BY <1>0, <2>2, TallyKept DEF TypeOK, tally
  <2>4. OpenInv' /\ ResultInv'
    BY <1>0, <2>1, <2>2 DEF OpenInv, ResultInv, Graded, tally
  <2>5. QED
    BY <2>3, <2>4 DEF Inv
<1>12. CASE Answer
  BY <1>0, <1>12, TallyKept
  DEF Answer, Inv, TypeOK, OpenInv, ResultInv, ClosedInsideOut, tally, Graded, Failed
<1>13. CASE UNCHANGED vars
  BY <1>0, <1>13, TallyKept
  DEF vars, Inv, TypeOK, OpenInv, ResultInv, ClosedInsideOut, tally, Graded
<1>14. QED
  BY <1>1, <1>2, <1>3, <1>4, <1>5, <1>6, <1>7, <1>8, <1>9, <1>10, <1>11, <1>12, <1>13 DEF Next

\* The invariant holds throughout every judge task.
LEMMA SpecInv == Spec => []Inv
BY InitInv, NextInv, PTL DEF Spec

-----------------------------------------------------------------------------

\* The variables and results of SpecialJudgeMode.judge keep their types, and
\* no case is reported that the payload does not have.
THEOREM SpjTyped == Spec => []TypeOK
<1>1. Inv => TypeOK
  BY DEF Inv
<1>2. QED
  BY <1>1, SpecInv, PTL

\* On every way out of the try block of SpecialJudgeMode.judge, each prepared
\* program is closed before its client.
THEOREM SpjClosedInsideOut == Spec => []ClosedInsideOut
<1>1. Inv => ClosedInsideOut
  BY DEF Inv, OpenInv
<1>2. QED
  BY <1>1, SpecInv, PTL

\* The verdict and the score of a completed special-judge task are the ones
\* its runs and its checker's answers deserve, for any number of cases.
THEOREM SpjVerdictFollowsRuns == Spec => []VerdictFollowsRuns
<1>1. Inv => VerdictFollowsRuns
  BY DEF Inv, TallyInv, ResultInv, VerdictFollowsRuns, Graded, Failed
<1>2. QED
  BY <1>1, SpecInv, PTL

-----------------------------------------------------------------------------

\* A task that starts is an abstract task that starts.
LEMMA InitRefines == Init => Task!Init
<1> SUFFICES ASSUME Init PROVE Task!Init
  OBVIOUS
<1>1. (out.result # None) = FALSE /\ (open # {}) = FALSE /\ out.status = "PENDING"
  BY DEF Init, Pending
<1>2. QED
  BY <1>1 DEF Init, Task!Init, Task!NoAnswer

\* Every step is a step of the abstract task or leaves it alone.
LEMMA StepRefines == Inv /\ [Next]_vars => [Task!Next]_(Task!vars)
<1> SUFFICES ASSUME Inv, [Next]_vars PROVE [Task!Next]_(Task!vars)
  OBVIOUS
<1> USE DEF Task!vars, Task!Next
<1>0. OpenInv /\ ResultInv /\ TypeOK
  BY DEF Inv
<1>1. CASE Rejects
  <2>1. Task!Fail
    BY <1>0, <1>1 DEF Rejects, Task!Fail, OpenInv, Failed
  <2>2. QED BY <2>1
<1>2. CASE CreateClient
  <2>1. Task!Prepare
    BY <1>2 DEF CreateClient, Task!Prepare
  <2>2. QED BY <2>1
<1>3. CASE CreateCheckerClient
  <2>1. Task!Enter
    BY <1>3 DEF CreateCheckerClient, Task!Enter
  <2>2. QED BY <2>1
<1>4. CASE CheckerClientFails
  <2>1. Task!Fail
    BY <1>0, <1>4 DEF CheckerClientFails, Task!Fail, OpenInv, Failed
  <2>2. QED BY <2>1
<1>5. CASE CompileUser \/ CompileChecker \/ CaseRaises
  BY <1>0, <1>5 DEF CompileUser, CompileChecker, CaseRaises, Prepared, Leave, OpenInv, Clients
<1>6. CASE RunUser \/ Check \/ EndOfCases
  BY <1>6 DEF RunUser, Check, EndOfCases
<1>7. CASE Close
  <2>1. CASE open' = {}
    <3>1. Task!Release
      BY <1>7, <2>1 DEF Close, Task!Release
    <3>2. QED BY <3>1
  <2>2. CASE open' # {}
    BY <1>7, <2>2 DEF Close
  <2>3. QED BY <2>1, <2>2
<1>8. CASE Answer
  <2>1. CASE verdict = Failed
    <3>1. Task!Fail
      BY <1>8, <2>1 DEF Answer, Task!Fail, Failed
    <3>2. QED BY <3>1
  <2>2. CASE verdict = Graded
    <3>1. (out'.result # None) = TRUE /\ (open' # {}) = FALSE /\ out'.status = "COMPLETED"
      BY <1>8, <2>2, NoneAssumption DEF Answer, Graded
    <3>2. Task!Complete
      BY <1>8, <3>1 DEF Answer, Task!Complete
    <3>3. QED BY <3>2
  <2>3. QED BY <1>0, <1>8, <2>1, <2>2 DEF ResultInv, Answer
<1>9. CASE UNCHANGED vars
  BY <1>9 DEF vars
<1>10. QED
  BY <1>1, <1>2, <1>3, <1>4, <1>5, <1>6, <1>7, <1>8, <1>9 DEF Next

\* SpecialJudgeMode.judge implements the safety part of the abstract judge
\* task: every step is one the orchestrator's promise allows, or none.
THEOREM SpjImplementsTask == Spec => Task!Init /\ [][Task!Next]_(Task!vars)
BY InitRefines, StepRefines, SpecInv, PTL DEF Spec
=============================================================================
