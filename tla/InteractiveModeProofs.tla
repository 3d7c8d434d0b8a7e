------------------------ MODULE InteractiveModeProofs ------------------------
(***************************************************************************)
(* Theorems about InteractiveMode for any number of test cases.            *)
(*                                                                         *)
(* The properties speak of the moments before and after the finally block. *)
(* What carries them through the two waits is Bookkeeping: a collected     *)
(* result is the result of the program of this case, programs exist only   *)
(* between the launch and the finally block, and a case that has not been  *)
(* reported yet leaves room for one more report.  Holdings says that the   *)
(* guards of the finally block and the resources agree from the set-up on, *)
(* and MissingIsSe that a program still running has no result.             *)
(***************************************************************************)
EXTENDS InteractiveMode, FiniteSetTheorems, SequenceTheorems, WellFoundedInduction, TLAPS

Unlaunched == {"start", "case", "user", "interactor", "launch", "raised", "done"}
InTry == {"user", "interactor", "launch", "wait", "followup", "verdict"}
Verdicts == {"AC", "WA", "CE", "RE", "TLE", "SE", "IE"}

Bookkeeping ==
    /\ \A p \in Procs : proc[p] \in {NotStarted, Running, Nothing, Escaped} \cup Exits(p)
    /\ \A p \in Procs : holder[p] # None => holder[p] = proc[p]
    /\ pc \in Unlaunched => proc = Idle /\ holder = NoHolder
    /\ pc \in InTry \cup {"abort"} => Len(cases) < NumCases
    /\ pc = "finally" => Len(cases) > 0
    /\ pc \notin {"done", "raised"} => out = NoResult
    /\ score <= Len(cases)

\* the guards of the finally block know what is open
Holdings ==
    /\ pc # "raised" => open = bound
    /\ pc = "start" => open = {}
    /\ pc \in InTry => Clients \cup {"work_dir"} \subseteq open

\* a program that runs on after the verdict is one whose result was missing
MissingIsSe == pc = "finally" /\ (\E p \in Procs : proc[p] = Running) => Last(cases) = "SE"

IInv ==
    /\ TypeOK
    /\ Bookkeeping
    /\ Holdings
    /\ MissingIsSe
    /\ AcceptedCaseIsReal
    /\ CutOffIsNeverGraded
    /\ ClosesAreSafe
    /\ NothingLeaks

(***************************************************************************)
(* Facts about the parts.                                                  *)
(***************************************************************************)

\* Only regular ends and errors are sandbox results.
LEMMA ExitShape ==
    ASSUME NEW p \in Procs, NEW e \in Exits(p)
    PROVE  /\ e.status \in {"AC", "RE", "TLE"}
           /\ e # NotStarted /\ e # Running /\ e # Nothing /\ e # Escaped
           /\ e.status = "AC" /\ (p = "user" \/ e.code = 0) => e = [status |-> "AC", code |-> 0]
  BY DEF Exits, NotStarted, Running, Nothing, Escaped, Procs

\* A collected result is either the one held before or that of an ended program.
LEMMA CollectedSound ==
    ASSUME IInv, NEW done \in SUBSET Procs, \A p \in done : Ended(p) /\ proc[p] # Escaped
    PROVE  /\ Collected(done) \in [Procs -> {None} \cup UNION {Exits(p) : p \in Procs}]
           /\ \A p \in Procs : Collected(done)[p] # None => Collected(done)[p] = proc[p]
<1>1. \A p \in done : Result(p) \in {None} \cup Exits(p) /\ (Result(p) # None => Result(p) = proc[p])
  BY DEF Ended, Result, IInv, Bookkeeping
<1> QED
  BY <1>1 DEF Collected, IInv, TypeOK, Bookkeeping

\* One report: one case more, and at most one point more.
LEMMA ReportSound ==
    ASSUME IInv, NEW r \in Verdicts, Report(r), Len(cases) < NumCases
    PROVE  /\ cases' \in Seq(Verdicts) /\ Len(cases') = Len(cases) + 1
           /\ Last(cases') = r
           /\ all_ac' \in BOOLEAN
           /\ score' \in 0..NumCases /\ score' <= Len(cases')
<1>1. cases \in Seq(Verdicts) /\ score \in Nat /\ score <= Len(cases) /\ NumCases \in Nat /\ all_ac \in BOOLEAN
  BY CasesAssumption DEF IInv, TypeOK, Bookkeeping, Verdicts
<1>2. cases' = Append(cases, r)
  BY DEF Report
<1>3. cases' \in Seq(Verdicts) /\ Len(cases') = Len(cases) + 1 /\ cases'[Len(cases')] = r
  BY <1>1, <1>2
<1>4. score' \in Nat /\ score' <= score + 1
  BY <1>1 DEF Report
<1>5. all_ac' \in BOOLEAN
  BY <1>1 DEF Report
<1> QED
  BY <1>1, <1>3, <1>4, <1>5 DEF Last

\* The verdict of a case: AC needs two regular ends and an interactor's 0, and
\* a missing result gives SE.
LEMMA VerdictSound ==
    ASSUME IInv
    PROVE  LET r == StatusStr(holder["user"], holder["interactor"]) IN
           /\ r \in Verdicts
           /\ r = "AC" => /\ proc["user"] = [status |-> "AC", code |-> 0]
                          /\ proc["interactor"] = [status |-> "AC", code |-> 0]
           /\ (\E p \in Procs : proc[p] = Running) => r = "SE"
<1> DEFINE u == holder["user"]
           i == holder["interactor"]
<1>1. u # None => u \in Exits("user") /\ u = proc["user"]
  BY ExitShape DEF IInv, TypeOK, Bookkeeping, Procs, Exits, NotStarted, Running, Nothing,
         Escaped
<1>2. i # None => i \in Exits("interactor") /\ i = proc["interactor"]
  BY ExitShape DEF IInv, TypeOK, Bookkeeping, Procs, Exits, NotStarted, Running, Nothing,
         Escaped
<1>3. CASE u = None \/ i = None
  BY <1>3 DEF StatusStr, Verdicts
<1>4. CASE u # None /\ i # None
  <2>1. u.status \in {"AC", "RE", "TLE"} /\ i.status \in {"AC", "RE", "TLE"}
    BY <1>1, <1>2, <1>4, ExitShape DEF Procs
  <2>2. proc["user"] # Running /\ proc["interactor"] # Running
    BY <1>1, <1>2, <1>4, ExitShape DEF Procs
  <2>3. u.status = "AC" => u = [status |-> "AC", code |-> 0]
    BY <1>1, <1>4, ExitShape DEF Procs
  <2>4. i.status = "AC" /\ i.code = 0 => i = [status |-> "AC", code |-> 0]
    BY <1>2, <1>4, ExitShape DEF Procs
  <2> HIDE DEF u, i
  <2>5. StatusStr(u, i) \in Verdicts
    BY <1>4, <2>1 DEF StatusStr, Verdicts
  <2>6. StatusStr(u, i) = "AC" => u.status = "AC" /\ i.status = "AC" /\ i.code = 0
    BY <1>4, <2>1 DEF StatusStr
  <2> QED
    BY <1>1, <1>2, <1>4, <2>2, <2>3, <2>4, <2>5, <2>6 DEF u, i, Procs
<1> QED
  BY <1>3, <1>4

(***************************************************************************)
(* IInv is inductive.                                                      *)
(***************************************************************************)

\* A task begins with nothing open and nothing running.
LEMMA Initially == Init => IInv
<1> SUFFICES ASSUME Init PROVE IInv
  OBVIOUS
<1>1. TypeOK
  BY CasesAssumption DEF Init, TypeOK, Idle, NoHolder, NoResult
<1>2. Bookkeeping
  BY DEF Init, Bookkeeping, Idle, NoHolder, Unlaunched, InTry
<1>3. Holdings /\ ClosesAreSafe /\ NothingLeaks
  BY DEF Init, Holdings, ClosesAreSafe, NothingLeaks, InTry
<1> QED
  BY <1>1, <1>2, <1>3 DEF Init, IInv, AcceptedCaseIsReal, MissingIsSe, CutOffIsNeverGraded

\* Before the try block a step changes the control point, the answer, and what
\* the set-up opens.
LEMMA SetUpInv ==
    ASSUME IInv, Start \/ LoadFails \/ SetUp \/ SetUpFails PROVE IInv'
<1>0. /\ pc \in {"start", "case"} /\ open = {} /\ bound = {} /\ out = NoResult
      /\ pc' \in {"case", "user", "raised", "done"}
      /\ UNCHANGED <<has, cases, all_ac, score, proc, holder, pending, left>>
  BY DEF IInv, Bookkeeping, Holdings, NothingLeaks, Start, LoadFails, SetUp, SetUpFails, tally,
         futures
<1>1. TypeOK'
  <2>1. open' \subseteq Resources /\ bound' \subseteq Resources
    BY <1>0 DEF IInv, TypeOK, Start, LoadFails, SetUp, SetUpFails, Resources, Fifos, Clients
  <2>2. out'.status \in {"PENDING", "COMPLETED", "FAILED"}
    BY DEF IInv, TypeOK, Start, LoadFails, SetUp, SetUpFails, Failed
  <2> QED
    BY <1>0, <2>1, <2>2 DEF IInv, TypeOK
<1>2. Bookkeeping'
  BY <1>0, CasesAssumption DEF IInv, TypeOK, Bookkeeping, Start, LoadFails, SetUp,
         SetUpFails, Unlaunched, InTry
<1>3. (AcceptedCaseIsReal /\ MissingIsSe)'
  BY <1>0 DEF AcceptedCaseIsReal, MissingIsSe
<1>4. CutOffIsNeverGraded'
  BY <1>0 DEF IInv, CutOffIsNeverGraded, NoResult, Failed
<1>5. (Holdings /\ ClosesAreSafe /\ NothingLeaks)'
  <2>1. CASE SetUp
    <3>1. pc' = "user" /\ open' = {"work_dir"} \cup Fifos \cup Clients /\ bound' = open'
      BY <1>0, <2>1 DEF SetUp
    <3>2. ClosesAreSafe'
      BY <3>1 DEF ClosesAreSafe, Fifos, Clients, ProgramOf, Procs
    <3>3. Clients' = Clients
      BY <1>0 DEF Clients
    <3> QED
      BY <3>1, <3>2, <3>3 DEF Holdings, NothingLeaks, InTry
  <2>2. CASE SetUpFails
    BY <2>2 DEF SetUpFails, Holdings, ClosesAreSafe, NothingLeaks, InTry
  <2>3. CASE Start \/ LoadFails
    <3>1. open' = {} /\ bound' = {} /\ pc' \notin InTry
      BY <1>0, <2>3 DEF Start, LoadFails, InTry
    <3> QED
      BY <3>1 DEF Holdings, ClosesAreSafe, NothingLeaks
  <2> QED
    BY <2>1, <2>2, <2>3
<1> QED
  BY <1>1, <1>2, <1>3, <1>4, <1>5 DEF IInv

\* A report inside the try block keeps what was recorded of earlier cases.
LEMMA ReportKeeps ==
    ASSUME IInv, pc \in InTry, NEW r \in Verdicts, Report(r), left' = left
    PROVE  CutOffIsNeverGraded' /\ left' \subseteq 1..NumCases
<1>1. cases \in Seq(Verdicts) /\ cases' = Append(cases, r)
  BY DEF IInv, TypeOK, Verdicts, Report
<1>2. DOMAIN cases \subseteq DOMAIN cases' /\ \A i \in DOMAIN cases : cases'[i] = cases[i]
  BY <1>1
<1>3. \A i \in left : i \in DOMAIN cases /\ cases[i] = "SE"
  BY DEF IInv, Bookkeeping, CutOffIsNeverGraded, InTry, NoResult, Failed
<1> QED
  BY <1>2, <1>3 DEF CutOffIsNeverGraded, IInv, TypeOK

\* A step inside the try block that changes neither the cases nor the history.
LEMMA QuietKeeps ==
    ASSUME IInv, pc \in InTry, UNCHANGED <<cases, left>>
    PROVE  CutOffIsNeverGraded'
<1>1. \A i \in left : i \in DOMAIN cases /\ cases[i] = "SE"
  BY DEF IInv, Bookkeeping, CutOffIsNeverGraded, InTry, NoResult, Failed
<1> QED
  BY <1>1 DEF CutOffIsNeverGraded

\* A program that was prepared has a client and a directory.
LEMMA ProgramKept ==
    ASSUME IInv, pc \in InTry, NEW p \in Procs, ClientOf[p] \in Clients,
           has' = has, pc' # "raised", pc' \notin {"case", "done", "start"},
           \/ UNCHANGED <<open, bound>>
           \/ open' = open \cup {ProgramOf[p]} /\ bound' = bound \cup {ProgramOf[p]}
    PROVE  /\ (Holdings /\ ClosesAreSafe /\ NothingLeaks)'
           /\ open' \subseteq Resources /\ bound' \subseteq Resources
<1>1. open = bound /\ Clients \cup {"work_dir"} \subseteq open /\ Clients' = Clients
  BY DEF IInv, Holdings, InTry, Clients
<1>2. open' = bound' /\ open \subseteq open'
  BY <1>1
<1>3. Holdings'
  BY <1>1, <1>2 DEF Holdings
<1>4. \A q \in Procs : ProgramOf[q] \in open' => ClientOf[q] \in open'
  <2>1. \A q \in Procs : ProgramOf[q] \in open => ClientOf[q] \in open
    BY DEF IInv, ClosesAreSafe, InTry
  <2>2. \A q \in Procs : ProgramOf[q] = ProgramOf[p] => q = p
    BY DEF Procs, ProgramOf
  <2>3. ClientOf[p] \in open
    BY <1>1
  <2>4. \A q \in Procs : ProgramOf[q] \in open' => ProgramOf[q] \in open \/ q = p
    BY <2>2
  <2> QED
    BY <1>2, <2>1, <2>3, <2>4
<1>5. ClosesAreSafe'
  BY <1>1, <1>2, <1>4 DEF ClosesAreSafe
<1>6. open \subseteq Resources /\ ProgramOf[p] \in Resources
  BY DEF IInv, TypeOK, Resources, ProgramOf, Procs
<1>7. open' \subseteq Resources
  BY <1>6
<1> QED
  BY <1>2, <1>3, <1>5, <1>7 DEF NothingLeaks

\* A compilation opens a program, or reports CE or IE while nothing runs.
LEMMA PrepareInv ==
    ASSUME IInv, NEW p \in Procs, NEW next \in InTry, NEW r \in {"CE", "IE"},
           pc \in {"user", "interactor"}, next \in Unlaunched,
           ClientOf[p] \in Clients, PrepareSource(p, next, r),
           UNCHANGED <<has, proc, holder, pending, left, out>>
    PROVE  IInv'
<1>0. /\ pc \in InTry /\ pc \in Unlaunched /\ Len(cases) < NumCases /\ proc = Idle /\ holder = NoHolder
      /\ out = NoResult
  BY DEF IInv, Bookkeeping, InTry, Unlaunched
<1>1. /\ \/ UNCHANGED <<open, bound>>
         \/ open' = open \cup {ProgramOf[p]} /\ bound' = bound \cup {ProgramOf[p]}
      /\ pc' \in {next, "abort", "finally"}
  BY DEF PrepareSource
<1>2. pc' # "raised" /\ pc' \notin {"case", "done", "start"}
  BY <1>1 DEF InTry
<1>3. /\ (Holdings /\ ClosesAreSafe /\ NothingLeaks)'
      /\ open' \subseteq Resources /\ bound' \subseteq Resources
  BY <1>0, <1>1, <1>2, ProgramKept
<1>4. CASE UNCHANGED tally /\ pc' \in {next, "abort"}
  <2>1. TypeOK'
    BY <1>3, <1>4 DEF IInv, TypeOK, tally, InTry
  <2>2. Bookkeeping'
    BY <1>0, <1>2, <1>4 DEF IInv, Bookkeeping, tally, InTry
  <2>3. CutOffIsNeverGraded'
    BY <1>0, <1>4, QuietKeeps DEF tally
  <2>4. pc' # "finally"
    BY <1>4 DEF InTry
  <2> QED
    BY <1>3, <2>1, <2>2, <2>3, <2>4 DEF IInv, AcceptedCaseIsReal, MissingIsSe
<1>5. CASE Report(r) /\ pc' = "finally"
  <2>0. r \in Verdicts
    BY DEF Verdicts
  <2>1. /\ cases' \in Seq(Verdicts) /\ Len(cases') = Len(cases) + 1
        /\ Last(cases') = r
        /\ all_ac' \in BOOLEAN
        /\ score' \in 0..NumCases /\ score' <= Len(cases')
    BY <1>0, <1>5, <2>0, ReportSound
  <2>2. CutOffIsNeverGraded' /\ left' \subseteq 1..NumCases
    BY <1>0, <1>5, <2>0, ReportKeeps
  <2>3. TypeOK'
    BY <1>0, <1>3, <1>5, <2>1, <2>2, CasesAssumption DEF IInv, TypeOK, Verdicts
  <2>4. Bookkeeping'
    BY <1>0, <1>5, <2>1 DEF IInv, TypeOK, Bookkeeping, Unlaunched, InTry
  <2>5. (AcceptedCaseIsReal /\ MissingIsSe)'
    BY <1>0, <1>5, <2>1 DEF AcceptedCaseIsReal, MissingIsSe, Idle, NotStarted, Running
  <2> QED
    BY <1>3, <2>2, <2>3, <2>4, <2>5 DEF IInv
<1> QED
  BY <1>4, <1>5 DEF PrepareSource

\* Both compilations.
LEMMA CompileInv == ASSUME IInv, CompileUser \/ CompileInteractor PROVE IInv'
<1>1. CASE CompileUser
  <2>1. ClientOf["user"] \in Clients
    BY <1>1 DEF CompileUser, HasUser, Clients, ClientOf
  <2> QED
    BY <1>1, <2>1, PrepareInv DEF CompileUser, futures, Procs, InTry, Unlaunched
<1>2. CASE CompileInteractor
  <2>1. ClientOf["interactor"] \in Clients
    BY DEF Clients, ClientOf
  <2> QED
    BY <1>2, <2>1, PrepareInv DEF CompileInteractor, futures, Procs, InTry, Unlaunched
<1> QED
  BY <1>1, <1>2

\* Steps of the main thread that touch neither the cases nor what is open.
LEMMA QuietInv ==
    ASSUME IInv, NoUserProgram \/ Launch \/ LaunchRaises \/ WaitRaises \/ JudgeRaises
    PROVE  IInv'
<1>1. /\ pc \in InTry /\ pc' \in InTry \cup {"abort"}
      /\ UNCHANGED <<has, cases, all_ac, score, open, bound, left, out>>
  BY DEF NoUserProgram, Launch, LaunchRaises, WaitRaises, JudgeRaises, InTry, tally
<1>2. /\ proc' \in [Procs -> {NotStarted, Running, Nothing, Escaped}
                               \cup UNION {Exits(p) : p \in Procs}]
      /\ \A p \in Procs : proc'[p] \in {NotStarted, Running, Nothing, Escaped} \cup Exits(p)
      /\ holder' \in [Procs -> {None} \cup UNION {Exits(p) : p \in Procs}]
      /\ \A p \in Procs : holder'[p] # None => holder'[p] = proc'[p]
      /\ pending' \subseteq Procs
      /\ pc' \in Unlaunched => proc' = Idle /\ holder' = NoHolder
  <2>1. CASE Launch
    BY <2>1 DEF Launch, NoHolder, Unlaunched
  <2>2. CASE LaunchRaises
    <3>1. holder' = NoHolder /\ pending' = pending /\ pc' \notin Unlaunched
      BY <2>2 DEF LaunchRaises, IInv, Bookkeeping, Unlaunched
    <3>2. \A p \in Procs : proc'[p] \in {NotStarted, Running}
      BY <2>2 DEF LaunchRaises, Idle
    <3>3. proc' \in [Procs -> {NotStarted, Running}]
      BY <2>2 DEF LaunchRaises, Idle
    <3> QED
      BY <3>1, <3>2, <3>3 DEF NoHolder, IInv, TypeOK
  <2>3. CASE NoUserProgram \/ WaitRaises \/ JudgeRaises
    <3>1. UNCHANGED <<proc, holder, pending>>
      BY <2>3 DEF NoUserProgram, WaitRaises, JudgeRaises, futures
    <3>2. pc' \in Unlaunched => pc \in Unlaunched
      BY <2>3 DEF NoUserProgram, WaitRaises, JudgeRaises, Unlaunched
    <3> QED
      BY <3>1, <3>2 DEF IInv, TypeOK, Bookkeeping
  <2> QED
    BY <2>1, <2>2, <2>3
<1>3. TypeOK'
  BY <1>1, <1>2 DEF IInv, TypeOK, InTry
<1>4. Bookkeeping'
  BY <1>1, <1>2 DEF IInv, Bookkeeping, InTry
<1>5. CutOffIsNeverGraded'
  BY <1>1, QuietKeeps
<1>6. (Holdings /\ ClosesAreSafe /\ NothingLeaks)'
  <2>1. Clients' = Clients
    BY <1>1 DEF Clients
  <2> QED
    BY <1>1, <2>1 DEF IInv, Holdings, ClosesAreSafe, NothingLeaks, InTry
<1>7. (AcceptedCaseIsReal /\ MissingIsSe)'
  BY <1>1 DEF AcceptedCaseIsReal, MissingIsSe, InTry
<1> QED
  BY <1>3, <1>4, <1>5, <1>6, <1>7 DEF IInv

\* A program that ends had not been collected, and its case, if already
\* reported, was not AC.
LEMMA ExitInv == ASSUME IInv, NEW p \in Procs, Exit(p) PROVE IInv'
<1>1. PICK e \in Exits(p) \cup {Nothing, Escaped} : proc' = [proc EXCEPT ![p] = e]
  BY DEF Exit, Outcomes
<1>2. /\ proc[p] = Running
      /\ UNCHANGED <<pc, has, cases, all_ac, score, open, bound, holder, pending, left, out>>
  BY DEF Exit, tally
<1>3. TypeOK'
  BY <1>1, <1>2 DEF IInv, TypeOK
<1>4. holder[p] = None
  <2>1. holder[p] # None => \E q \in Procs : holder[p] \in Exits(q)
    BY DEF IInv, TypeOK
  <2> QED
    BY <1>2, <2>1, ExitShape DEF IInv, Bookkeeping
<1>5. pc \notin Unlaunched
  BY <1>2 DEF IInv, Bookkeeping, Idle, NotStarted, Running
<1>6. Bookkeeping'
  BY <1>1, <1>2, <1>4, <1>5 DEF IInv, TypeOK, Bookkeeping
<1>7. AcceptedCaseIsReal'
  BY <1>1, <1>2 DEF IInv, AcceptedCaseIsReal, Running, Procs
<1>8. MissingIsSe'
  BY <1>2 DEF IInv, MissingIsSe
<1>9. Clients' = Clients
  BY <1>2 DEF Clients
<1> QED
  BY <1>2, <1>3, <1>6, <1>7, <1>8, <1>9 DEF IInv, Holdings, CutOffIsNeverGraded, ClosesAreSafe,
        NothingLeaks

\* Both waits collect results of programs that ended, and close FIFOs only
\* together with the variables that name them.
LEMMA WaitInv == ASSUME IInv, FirstWait \/ SecondWait PROVE IInv'
<1>0. pc \in InTry /\ open = bound
  BY DEF FirstWait, SecondWait, InTry, IInv, Holdings
<1>1. PICK done \in SUBSET Procs :
         /\ \A p \in done : Ended(p) /\ proc[p] # Escaped
         /\ holder' = Collected(done)
         /\ pending' \subseteq Procs
         /\ UNCHANGED <<open, bound>> \/ ReleaseFifos
         /\ pc' \in {"followup", "verdict"}
         /\ UNCHANGED <<has, cases, all_ac, score, proc, left, out>>
  <2>1. CASE FirstWait
    BY <2>1 DEF FirstWait, tally
  <2>2. CASE SecondWait
    <3> DEFINE D == {p \in pending : Ended(p)}
    <3>1. D \in SUBSET Procs /\ pending \ D \subseteq Procs
      BY DEF IInv, TypeOK
    <3>2. /\ pc' = "verdict"
          /\ holder' = Collected(D) /\ pending' = pending \ D
          /\ UNCHANGED <<open, bound>> \/ ReleaseFifos
          /\ \A p \in D : proc[p] # Escaped
          /\ UNCHANGED <<has, cases, all_ac, score, proc, left, out>>
      BY <2>2 DEF SecondWait, tally
    <3>3. \A p \in D : Ended(p)
      OBVIOUS
    <3> HIDE DEF D
    <3> QED
      BY <3>1, <3>2, <3>3
  <2> QED
    BY <2>1, <2>2
<1>2. /\ holder' \in [Procs -> {None} \cup UNION {Exits(p) : p \in Procs}]
      /\ \A p \in Procs : holder'[p] # None => holder'[p] = proc[p]
  BY <1>1, CollectedSound
<1>3. open' = bound' /\ open' \in {open, open \ Fifos}
  BY <1>0, <1>1 DEF ReleaseFifos
<1>4. TypeOK'
  BY <1>1, <1>2, <1>3 DEF IInv, TypeOK
<1>5. Bookkeeping'
  BY <1>0, <1>1, <1>2 DEF IInv, Bookkeeping, Unlaunched, InTry
<1>6. (Holdings /\ ClosesAreSafe /\ NothingLeaks)'
  <2>1. Clients' = Clients /\ Clients \cup {"work_dir"} \subseteq open
    BY <1>0, <1>1 DEF Clients, IInv, Holdings
  <2>2. (Clients \cup {"work_dir"}) \cap Fifos = {} /\ \A p \in Procs : ClientOf[p] \notin Fifos
    BY DEF Clients, Fifos, ClientOf, Procs
  <2>3. Clients \cup {"work_dir"} \subseteq open'
    BY <1>3, <2>1, <2>2
  <2>4. \A p \in Procs : ProgramOf[p] \in open' => ClientOf[p] \in open'
    BY <1>0, <1>3, <2>2 DEF IInv, ClosesAreSafe, InTry
  <2> QED
    BY <1>1, <1>3, <2>1, <2>3, <2>4 DEF Holdings, ClosesAreSafe, NothingLeaks
<1>7. CutOffIsNeverGraded'
  BY <1>0, <1>1, QuietKeeps
<1> QED
  BY <1>1, <1>4, <1>5, <1>6, <1>7 DEF IInv, AcceptedCaseIsReal, MissingIsSe

\* The verdict is reported as VerdictSound says.
LEMMA JudgeInv == ASSUME IInv, Judge PROVE IInv'
<1> DEFINE r == StatusStr(holder["user"], holder["interactor"])
<1>1. /\ r \in Verdicts
      /\ r = "AC" => /\ proc["user"] = [status |-> "AC", code |-> 0]
                     /\ proc["interactor"] = [status |-> "AC", code |-> 0]
      /\ (\E p \in Procs : proc[p] = Running) => r = "SE"
  BY VerdictSound
<1>2. /\ pc = "verdict" /\ pc' = "finally" /\ Report(r)
      /\ UNCHANGED <<has, open, bound, proc, holder, pending, left, out>>
  BY DEF Judge, futures
<1> HIDE DEF r
<1>3. pc \in InTry /\ Len(cases) < NumCases
  BY <1>2 DEF InTry, IInv, Bookkeeping
<1>4. /\ cases' \in Seq(Verdicts) /\ Len(cases') = Len(cases) + 1
      /\ Last(cases') = r
      /\ all_ac' \in BOOLEAN
      /\ score' \in 0..NumCases /\ score' <= Len(cases')
  BY <1>1, <1>2, <1>3, ReportSound
<1>5. CutOffIsNeverGraded' /\ left' \subseteq 1..NumCases
  BY <1>1, <1>2, <1>3, ReportKeeps
<1>6. TypeOK'
  BY <1>2, <1>3, <1>4, <1>5, CasesAssumption DEF IInv, TypeOK, Verdicts
<1>7. Bookkeeping'
  BY <1>2, <1>3, <1>4 DEF IInv, TypeOK, Bookkeeping, Unlaunched, InTry
<1>8. (AcceptedCaseIsReal /\ MissingIsSe)'
  BY <1>1, <1>2, <1>4 DEF AcceptedCaseIsReal, MissingIsSe
<1>9. (Holdings /\ ClosesAreSafe /\ NothingLeaks)'
  BY <1>2 DEF IInv, Holdings, ClosesAreSafe, NothingLeaks, InTry
<1> QED
  BY <1>5, <1>6, <1>7, <1>8, <1>9 DEF IInv

\* The finally block closes in an order: a client after its program, the work
\* directory last.
LEMMA CloseShape ==
    ASSUME IInv, Close
    PROVE  \E r \in bound :
              /\ open' = open \ {r} /\ bound' = bound \ {r}
              /\ \A p \in Procs : r = ClientOf[p] => ProgramOf[p] \notin bound
              /\ r = "work_dir" => bound = {r}
<1>1. DOMAIN CloseOrder = 1..7 /\ bound \subseteq Resources
  BY DEF CloseOrder, IInv, TypeOK
<1>2. PICK i \in 1..7 :
         /\ CloseOrder[i] \in bound
         /\ \A j \in 1..(i - 1) : CloseOrder[j] \notin bound
         /\ open' = open \ {CloseOrder[i]}
         /\ bound' = bound \ {CloseOrder[i]}
  BY <1>1 DEF Close
<1>3. /\ CloseOrder[1] = "fd_AB" /\ CloseOrder[2] = "fd_BA"
      /\ CloseOrder[3] = "interactor_program" /\ CloseOrder[4] = "user_program"
      /\ CloseOrder[5] = "user_client" /\ CloseOrder[6] = "interactor_client"
      /\ CloseOrder[7] = "work_dir"
  BY DEF CloseOrder
<1>4. \A j \in 1..7 : j < i => CloseOrder[j] \notin bound
  BY <1>2
<1>5. CloseOrder[i] = "user_client" => i = 5
  BY <1>3
<1>6. CloseOrder[i] = "interactor_client" => i = 6
  BY <1>3
<1>7. CloseOrder[i] = "work_dir" => i = 7
  BY <1>3
<1>8. i = 5 \/ i = 6 => "interactor_program" \notin bound /\ "user_program" \notin bound
  BY <1>3, <1>4
<1>9. i = 7 => bound = {"work_dir"}
  <2>1. i = 7 => \A j \in 1..6 : CloseOrder[j] \notin bound
    BY <1>4
  <2>2. i = 7 => \A r \in Resources : r \in bound => r = "work_dir"
    BY <1>3, <2>1 DEF Resources, Fifos
  <2> QED
    BY <1>1, <1>2, <1>3, <2>2
<1>10. \A p \in Procs : CloseOrder[i] = ClientOf[p] => ProgramOf[p] \notin bound
  BY <1>5, <1>6, <1>8 DEF Procs, ClientOf, ProgramOf
<1> QED
  BY <1>2, <1>7, <1>9, <1>10

\* A close takes away what was open; if a program still runs, its case is SE or
\* has no verdict.
LEMMA CloseInv == ASSUME IInv, Close PROVE IInv'
<1>1. PICK r \in bound :
         /\ open' = open \ {r} /\ bound' = bound \ {r}
         /\ \A p \in Procs : r = ClientOf[p] => ProgramOf[p] \notin bound
         /\ r = "work_dir" => bound = {r}
  BY CloseShape
<1>2. /\ pc \in {"finally", "abort"}
      /\ left' = IF \E p \in Procs : proc[p] = Running THEN left \cup {ThisCase} ELSE left
      /\ UNCHANGED <<pc, has, cases, all_ac, score, proc, holder, pending, out>>
  BY DEF Close, tally, futures
<1>3. open = bound /\ open' = bound'
  BY <1>1, <1>2 DEF IInv, Holdings
<1>4. cases \in Seq(Verdicts) /\ Len(cases) \in Nat /\ DOMAIN cases = 1..Len(cases)
  BY DEF IInv, TypeOK, Verdicts
<1>5. ThisCase \in 1..NumCases
  BY <1>2, <1>4, CasesAssumption DEF IInv, TypeOK, Bookkeeping, ThisCase
<1>6. TypeOK'
  BY <1>1, <1>2, <1>5 DEF IInv, TypeOK
<1>7. Bookkeeping'
  BY <1>2 DEF IInv, Bookkeeping
<1>8. CutOffIsNeverGraded'
  <2> SUFFICES ASSUME NEW i \in left'
               PROVE  IF i \in DOMAIN cases THEN cases[i] = "SE" ELSE pc = "abort" \/ out = Failed
    BY <1>2 DEF CutOffIsNeverGraded
  <2>1. CASE i \in left
    BY <2>1 DEF IInv, CutOffIsNeverGraded
  <2>2. CASE i \notin left /\ pc = "abort"
    <3>1. i = Len(cases) + 1
      BY <1>2, <2>2 DEF ThisCase
    <3> QED
      BY <1>4, <2>2, <3>1
  <2>3. CASE i \notin left /\ pc = "finally"
    <3>1. i = Len(cases) /\ \E p \in Procs : proc[p] = Running
      BY <1>2, <2>3 DEF ThisCase
    <3>2. Len(cases) > 0 /\ Last(cases) = "SE"
      BY <2>3, <3>1 DEF IInv, Bookkeeping, MissingIsSe
    <3>3. i \in DOMAIN cases
      BY <1>4, <3>1, <3>2
    <3> QED
      BY <3>1, <3>2, <3>3 DEF Last
  <2> QED
    BY <1>2, <2>1, <2>2, <2>3
<1>9. (Holdings /\ NothingLeaks)'
  BY <1>2, <1>3 DEF Holdings, NothingLeaks, InTry
<1>10. ClosesAreSafe'
  <2>1. \A p \in Procs : ProgramOf[p] \in open' => ClientOf[p] \in open'
    BY <1>1, <1>2, <1>3 DEF IInv, ClosesAreSafe
  <2>2. open' # {} => "work_dir" \in open'
    BY <1>1, <1>2, <1>3 DEF IInv, ClosesAreSafe
  <2> QED
    BY <1>3, <2>1, <2>2 DEF ClosesAreSafe
<1>11. (AcceptedCaseIsReal /\ MissingIsSe)'
  BY <1>2 DEF IInv, AcceptedCaseIsReal, MissingIsSe
<1> QED
  BY <1>6, <1>7, <1>8, <1>9, <1>10, <1>11 DEF IInv

\* With nothing left to close a case ends; with no case left the task.
LEMMA EndInv == ASSUME IInv, EndCase \/ Finish PROVE IInv'
<1>1. /\ pc' \in {"case", "done"}
      /\ UNCHANGED <<has, cases, all_ac, score, open, bound, left>>
      /\ pc \in {"finally", "abort", "case"}
  BY DEF EndCase, Finish, tally
<1>2. open = {} /\ bound = {}
  BY <1>1 DEF EndCase, Finish, IInv, Holdings, NothingLeaks
<1>3. proc' = Idle /\ holder' = NoHolder /\ pending' \subseteq Procs
  BY DEF EndCase, Finish, futures, IInv, TypeOK, Bookkeeping, Unlaunched
<1>4. out' \in {out, Failed} \/ out'.status = "COMPLETED"
  BY DEF EndCase, Finish
<1>5. TypeOK'
  BY <1>1, <1>3, <1>4 DEF IInv, TypeOK, Idle, NoHolder, Failed
<1>6. Bookkeeping'
  BY <1>1, <1>3 DEF EndCase, Finish, IInv, Bookkeeping, Idle, NoHolder, Unlaunched, InTry
<1>7. CutOffIsNeverGraded'
  <2>1. CASE pc = "abort"
    BY <1>1, <2>1 DEF EndCase, Finish, IInv, CutOffIsNeverGraded
  <2>2. CASE pc # "abort"
    <3>1. \A i \in left : i \in DOMAIN cases /\ cases[i] = "SE"
      BY <1>1, <2>2 DEF IInv, Bookkeeping, CutOffIsNeverGraded, NoResult, Failed
    <3> QED
      BY <1>1, <3>1 DEF CutOffIsNeverGraded
  <2> QED
    BY <2>1, <2>2
<1> QED
  BY <1>1, <1>2, <1>5, <1>6, <1>7 DEF IInv, Holdings, AcceptedCaseIsReal, MissingIsSe,
        ClosesAreSafe, NothingLeaks, InTry

\* Every step keeps the invariant.
LEMMA Inductive == ASSUME IInv, [Next]_vars PROVE IInv'
<1>1. CASE UNCHANGED vars
  <2>1. Clients' = Clients
    BY <1>1 DEF vars, Clients
  <2> QED
    BY <1>1, <2>1 DEF vars, IInv, TypeOK, Bookkeeping, Holdings, AcceptedCaseIsReal, MissingIsSe,
        CutOffIsNeverGraded, ClosesAreSafe, NothingLeaks
<1>2. CASE Main
  BY <1>2, SetUpInv, CompileInv, QuietInv, WaitInv, JudgeInv, CloseInv, EndInv DEF Main
<1>3. CASE \E p \in Procs : Exit(p)
  BY <1>3, ExitInv
<1> QED
  BY <1>1, <1>2, <1>3 DEF Next

(***************************************************************************)
(* The theorems.                                                           *)
(***************************************************************************)

\* The invariant holds throughout every judge task.
LEMMA Always == Spec => []IInv
  BY Initially, Inductive, PTL DEF Spec

\* Every variable of a judge task keeps its type, and no case is reported twice.
THEOREM InteractiveTyped == Spec => []TypeOK
<1>1. IInv => TypeOK
  BY DEF IInv
<1> QED
  BY <1>1, Always, PTL

\* Whatever the order in which programs end and waits return, a case judged AC
\* had two programs that ran to a regular end, and an interactor that said 0.
THEOREM AcceptedIsReal == Spec => []AcceptedCaseIsReal
<1>1. IInv => AcceptedCaseIsReal
  BY DEF IInv
<1> QED
  BY <1>1, Always, PTL

\* Whether a case ends with a verdict, a failed compilation or an exception in
\* either thread, the guards of the finally block reach all that the case opened
\* in its set-up and in its try block.
THEOREM ResourcesReturned == Spec => []NothingLeaks
<1>1. IInv => NothingLeaks
  BY DEF IInv
<1> QED
  BY <1>1, Always, PTL

\* The FIFOs are closed in three places, programs and clients in one, and no
\* descriptor is closed twice, no client before its program.
THEOREM ClosedOnceInOrder == Spec => []ClosesAreSafe
<1>1. IInv => ClosesAreSafe
  BY DEF IInv
<1> QED
  BY <1>1, Always, PTL

\* A case that cut off a running program is reported SE or fails the task, for
\* any number of cases and any interleaving of exits, waits and exceptions.
THEOREM CutOffReported == Spec => []CutOffIsNeverGraded
<1>1. IInv => CutOffIsNeverGraded
  BY DEF IInv
<1> QED
  BY <1>1, Always, PTL

(***************************************************************************)
(* The tally, the answer and the refinement of JudgeTask.                  *)
(***************************************************************************)
AcCases == {i \in DOMAIN cases : cases[i] = "AC"}

\* the flag and the sum agree with the list
TallyInv ==
    /\ all_ac <=> AcCases = 1..Len(cases)
    /\ score = Cardinality(AcCases)

\* what the task answers
AnswerInv ==
    /\ pc = "raised" => out = Failed
    /\ pc = "done" => \/ out = Failed
                      \/ /\ out = [status |-> "COMPLETED", result |-> OverallResult]
                         /\ Len(cases) = NumCases

TInv == IInv /\ TallyInv /\ AnswerInv

\* A set of positions that is not empty has a first one.
LEMMA MinExists ==
    ASSUME NEW S \in SUBSET Nat, S # {}
    PROVE  Min(S) \in S
<1>1. \E x \in S : \A y \in S : ~(<<y, x>> \in OpToRel(<, Nat))
  BY NatLessThanWellFounded, WFMin
<1>2. PICK x \in S : \A y \in S : ~(<<y, x>> \in OpToRel(<, Nat))
  BY <1>1
<1>3. \A y \in S : ~(y < x)
  BY <1>2 DEF OpToRel
<1>4. \A y \in S : x =< y
  BY <1>3
<1>5. QED
  BY <1>4 DEF Min

\* The result of a finished loop is AC exactly if no case is to blame, and it
\* is always a verdict.
LEMMA OverallSound ==
    ASSUME TypeOK, TallyInv
    PROVE  /\ OverallResult \in Verdicts
           /\ OverallResult = "AC" <=> all_ac
<1>1. cases \in Seq(Verdicts) /\ DOMAIN cases = 1..Len(cases) /\ Len(cases) \in Nat
  BY DEF TypeOK, Verdicts
<1>2. CASE all_ac
  BY <1>2 DEF OverallResult, Verdicts
<1>3. CASE ~all_ac
  <2>1. PICK i \in DOMAIN cases : cases[i] # "AC"
    BY <1>1, <1>3 DEF TallyInv, AcCases
  <2>2. i \in NonAc
    BY <1>1, <2>1 DEF NonAc, Verdicts
  <2>3. NonAc \in SUBSET Nat
    BY <1>1 DEF NonAc
  <2>4. Min(NonAc) \in NonAc
    BY <2>2, <2>3, MinExists
  <2>5. cases[Min(NonAc)] \in Verdicts \ {"AC"}
    BY <1>1, <2>4 DEF NonAc
  <2>6. QED
    BY <1>3, <2>2, <2>5 DEF OverallResult
<1>4. QED
  BY <1>2, <1>3

\* A report adds a position to AcCases exactly if it adds a point.
LEMMA ReportTallies ==
    ASSUME TypeOK, TallyInv, NEW r \in Verdicts, Report(r)
    PROVE  TallyInv'
<1>1. cases \in Seq(Verdicts) /\ Len(cases) \in Nat /\ DOMAIN cases = 1..Len(cases)
  BY DEF TypeOK, Verdicts
<1>2. /\ Len(cases') = Len(cases) + 1
      /\ DOMAIN cases' = 1..(Len(cases) + 1)
      /\ \A i \in 1..Len(cases) : cases'[i] = cases[i]
      /\ cases'[Len(cases) + 1] = r
  BY <1>1, AppendProperties DEF Report
<1>3. /\ 1..(Len(cases) + 1) = 1..Len(cases) \cup {Len(cases) + 1}
      /\ Len(cases) + 1 \notin 1..Len(cases)
  BY <1>1
<1>4. AcCases \subseteq 1..Len(cases)
  BY <1>1 DEF AcCases
<1>5. AcCases' = IF r = "AC" THEN AcCases \cup {Len(cases) + 1} ELSE AcCases
  <2>1. AcCases' = {i \in 1..(Len(cases) + 1) : cases'[i] = "AC"}
    BY <1>2 DEF AcCases
  <2>2. AcCases = {i \in 1..Len(cases) : cases[i] = "AC"}
    BY <1>1 DEF AcCases
  <2>3. QED
    BY <1>2, <1>3, <2>1, <2>2
<1>6. IsFiniteSet(AcCases) /\ Cardinality(AcCases) \in Nat
  <2>1. IsFiniteSet(1..Len(cases))
    BY <1>1, FS_Interval
  <2>2. QED
    BY <1>4, <2>1, FS_Subset, FS_CardinalityType
<1>7. Cardinality(AcCases \cup {Len(cases) + 1}) = Cardinality(AcCases) + 1
  <2>1. Len(cases) + 1 \notin AcCases
    BY <1>3, <1>4
  <2>2. QED BY <1>6, <2>1, FS_AddElement
<1>8. score' = Cardinality(AcCases')
  BY <1>5, <1>7 DEF Report, TallyInv
<1>9. all_ac' <=> AcCases' = 1..Len(cases')
  <2>1. all_ac' <=> all_ac /\ r = "AC"
    BY DEF Report
  <2>2. 1..Len(cases') = 1..Len(cases) \cup {Len(cases) + 1}
    BY <1>2, <1>3
  <2>3. all_ac <=> AcCases = 1..Len(cases)
    BY DEF TallyInv
  <2>4. CASE r = "AC"
    BY <2>4, <2>1, <2>2, <2>3, <1>3, <1>4, <1>5, Zenon
  <2>5. CASE r # "AC"
    BY <2>5, <2>1, <2>2, <1>3, <1>4, <1>5, Zenon
  <2>6. QED BY <2>4, <2>5
<1>10. QED
  BY <1>8, <1>9 DEF TallyInv

\* A step that leaves the tally alone leaves what TallyInv says true.
LEMMA TallyKept == ASSUME TallyInv, UNCHANGED tally PROVE TallyInv'
<1>1. AcCases' = AcCases
  BY DEF tally, AcCases
<1>2. QED
  BY <1>1 DEF tally, TallyInv

\* The strengthened invariant holds when the task starts.
LEMMA InitiallyT == Init => TInv
<1> SUFFICES ASSUME Init PROVE TInv
  OBVIOUS
<1>1. AcCases = {} /\ 1..Len(cases) = {}
  BY DEF Init, AcCases
<1>2. TallyInv
  BY <1>1, FS_EmptySet DEF Init, TallyInv
<1>3. AnswerInv
  BY DEF Init, AnswerInv, InTry
<1>4. QED
  BY <1>2, <1>3, Initially DEF TInv

\* Every step keeps the tally and the answer.
LEMMA InductiveT == ASSUME TInv, [Next]_vars PROVE TInv'
<1>0. IInv /\ TypeOK /\ TallyInv /\ AnswerInv /\ IInv'
  BY Inductive DEF TInv, IInv
<1>1. CASE Start \/ LoadFails \/ SetUp \/ SetUpFails
  <2>1. TallyInv'
    BY <1>0, <1>1, TallyKept DEF Start, LoadFails, SetUp, SetUpFails
  <2>2. AnswerInv'
    BY <1>0, <1>1 DEF Start, LoadFails, SetUp, SetUpFails, AnswerInv
  <2>3. QED BY <1>0, <2>1, <2>2 DEF TInv
<1>2. CASE CompileUser \/ CompileInteractor
  <2>1. UNCHANGED tally \/ \E r \in Verdicts : Report(r)
    BY <1>2 DEF CompileUser, CompileInteractor, PrepareSource, Verdicts
  <2>2. TallyInv'
    BY <1>0, <2>1, TallyKept, ReportTallies
  <2>3. AnswerInv'
    BY <1>2 DEF CompileUser, CompileInteractor, PrepareSource, AnswerInv
  <2>4. QED BY <1>0, <2>2, <2>3 DEF TInv
<1>3. CASE \/ NoUserProgram \/ Launch \/ LaunchRaises \/ FirstWait \/ SecondWait \/ WaitRaises
           \/ JudgeRaises \/ Close
  <2>1. UNCHANGED tally /\ pc' \notin {"done", "raised"}
    BY <1>3 DEF NoUserProgram, Launch, LaunchRaises, FirstWait, SecondWait, WaitRaises,
          JudgeRaises, Close
  <2>2. TallyInv'
    BY <1>0, <2>1, TallyKept
  <2>3. AnswerInv'
    BY <2>1 DEF AnswerInv
  <2>4. QED BY <1>0, <2>2, <2>3 DEF TInv
<1>4. CASE Judge
  <2>1. StatusStr(holder["user"], holder["interactor"]) \in Verdicts
    BY <1>0, <1>4, VerdictSound DEF Judge
  <2>2. TallyInv'
    BY <1>0, <1>4, <2>1, ReportTallies DEF Judge
  <2>3. AnswerInv'
    BY <1>4 DEF Judge, AnswerInv
  <2>4. QED BY <1>0, <2>2, <2>3 DEF TInv
<1>5. CASE EndCase
  <2>1. TallyInv'
    BY <1>0, <1>5, TallyKept DEF EndCase
  <2>2. AnswerInv'
    BY <1>0, <1>5 DEF EndCase, AnswerInv
  <2>3. QED BY <1>0, <2>1, <2>2 DEF TInv
<1>6. CASE Finish
  <2>1. TallyInv'
    BY <1>0, <1>6, TallyKept DEF Finish
  <2>2. AnswerInv'
    BY <1>0, <1>6 DEF Finish, AnswerInv, tally, OverallResult, NonAc
  <2>3. QED BY <1>0, <2>1, <2>2 DEF TInv
<1>7. CASE (\E p \in Procs : Exit(p)) \/ UNCHANGED vars
  <2>1. UNCHANGED <<pc, tally, open, out>>
    BY <1>7 DEF Exit, vars, tally
  <2>2. TallyInv'
    BY <1>0, <2>1, TallyKept
  <2>3. AnswerInv'
    BY <1>0, <2>1 DEF AnswerInv, tally, OverallResult, NonAc
  <2>4. QED BY <1>0, <2>2, <2>3 DEF TInv
<1>8. QED
  BY <1>1, <1>2, <1>3, <1>4, <1>5, <1>6, <1>7 DEF Next, Main

\* The strengthened invariant holds throughout.
LEMMA AlwaysT == Spec => []TInv
  BY InitiallyT, InductiveT, PTL DEF Spec

\* An interactive submission is AC exactly if every case is, and exactly if it
\* has the full score, for any number of cases.
THEOREM InteractiveAcceptedExactly == Spec => []AcceptedExactly
<1>1. TInv => AcceptedExactly
  <2> SUFFICES ASSUME TInv, pc = "done", out.status = "COMPLETED"
               PROVE  /\ out.result = "AC" <=> \A i \in 1..NumCases : cases[i] = "AC"
                      /\ out.result = "AC" <=> score = NumCases
    BY DEF AcceptedExactly
  <2>1. out.result = OverallResult /\ Len(cases) = NumCases
    BY DEF TInv, AnswerInv, Failed
  <2>2. TypeOK /\ TallyInv
    BY DEF TInv, IInv
  <2>3. out.result = "AC" <=> AcCases = 1..NumCases
    BY <2>1, <2>2, OverallSound DEF TallyInv
  <2>4. DOMAIN cases = 1..NumCases
    BY <2>1, <2>2 DEF TypeOK
  <2>5. AcCases = 1..NumCases <=> \A i \in 1..NumCases : cases[i] = "AC"
    BY <2>4 DEF AcCases
  <2>6. IsFiniteSet(1..NumCases) /\ Cardinality(1..NumCases) = NumCases
    <3>1. \A m \in Nat : IsFiniteSet(1..m) /\ Cardinality(1..m) = IF 1 > m THEN 0 ELSE m - 1 + 1
      BY FS_Interval
    <3>2. \A m \in Nat : (IF 1 > m THEN 0 ELSE m - 1 + 1) = m
      OBVIOUS
    <3>3. QED BY CasesAssumption, <3>1, <3>2
  <2>7. AcCases \in SUBSET (1..NumCases)
    BY <2>4 DEF AcCases
  <2>8. AcCases = 1..NumCases <=> Cardinality(AcCases) = NumCases
    BY <2>6, <2>7, FS_Subset
  <2>9. QED
    BY <2>2, <2>3, <2>5, <2>8 DEF TallyInv
<1>2. QED
  BY <1>1, AlwaysT, PTL

\* A task that starts is an abstract task that starts.
LEMMA InitRefines == Init => Task!Init
<1> SUFFICES ASSUME Init PROVE Task!Init
  OBVIOUS
<1>1. (out.result # None) = FALSE /\ (open # {}) = FALSE /\ out.status = "PENDING"
  BY DEF Init, NoResult
<1>2. QED
  BY <1>1 DEF Init, Task!Init, Task!NoAnswer

\* Every step is a step of the abstract task or leaves it alone.
LEMMA StepRefines == TInv /\ [Next]_vars => [Task!Next]_(Task!vars)
<1> SUFFICES ASSUME TInv, [Next]_vars PROVE [Task!Next]_(Task!vars)
  OBVIOUS
<1> USE DEF Task!vars, Task!Next
<1>0. /\ TypeOK /\ TallyInv /\ AnswerInv /\ AnswerInv' /\ Bookkeeping /\ NothingLeaks
      /\ Holdings /\ Holdings'
  BY InductiveT DEF TInv, IInv
<1>1. CASE Start \/ LoadFails \/ SetUpFails
  <2>1. CASE out' = Failed
    <3>1. (out'.result # None) = FALSE /\ out'.status = "FAILED" /\ (open' # {}) \in BOOLEAN
      BY <2>1 DEF Failed
    <3>2. pc \in {"start", "case"} /\ pc' \in {"done", "raised"}
      BY <1>1, <2>1, <1>0 DEF Start, LoadFails, SetUpFails, Bookkeeping, NoResult, Failed
    <3>3. Task!Fail
      BY <3>1, <3>2 DEF Task!Fail
    <3>4. QED BY <3>3
  <2>2. CASE pc = "start" /\ pc' = "case" /\ UNCHANGED <<out, open>>
    BY <2>2
  <2>3. QED BY <1>1, <2>1, <2>2 DEF Start, LoadFails, SetUpFails
<1>2. CASE SetUp
  <2>1. (open' # {}) = TRUE
    BY <1>2 DEF SetUp
  <2>2. Task!Enter
    BY <1>2, <2>1 DEF SetUp, Task!Enter
  <2>3. QED BY <2>2
<1>3. CASE \/ CompileUser \/ NoUserProgram \/ CompileInteractor \/ Launch \/ LaunchRaises
           \/ FirstWait \/ SecondWait \/ WaitRaises \/ Judge \/ JudgeRaises
  <2>1. /\ pc \in InTry /\ pc' \in InTry \cup {"finally", "abort"} /\ UNCHANGED out
    BY <1>3 DEF CompileUser, NoUserProgram, CompileInteractor, PrepareSource, Launch, LaunchRaises,
          FirstWait, SecondWait, WaitRaises, Judge, JudgeRaises, InTry
  <2>2. "work_dir" \in open /\ "work_dir" \in open'
    <3>1. "work_dir" \in open
      BY <1>0, <2>1 DEF Holdings
    <3>2. open \ Fifos \subseteq open'
      BY <1>3 DEF CompileUser, NoUserProgram, CompileInteractor, PrepareSource, Launch,
          LaunchRaises, FirstWait, SecondWait, ReleaseFifos, WaitRaises, Judge, JudgeRaises
    <3>3. "work_dir" \notin Fifos
      BY DEF Fifos
    <3>4. QED BY <3>1, <3>2, <3>3
  <2>3. (open # {}) = TRUE /\ (open' # {}) = TRUE
    BY <2>2
  <2>4. QED
    BY <2>1, <2>3 DEF InTry
<1>4. CASE Close
  <2>1. pc \in {"finally", "abort"} /\ UNCHANGED <<pc, out>>
    BY <1>4 DEF Close
  <2>2. open # {}
    BY <1>0, <1>4 DEF Close, Holdings
  <2>3. CASE open' = {}
    <3>1. (open' # {}) = FALSE
      BY <2>3
    <3>2. Task!Release
      BY <2>1, <3>1 DEF Task!Release
    <3>3. QED BY <3>2
  <2>4. CASE open' # {}
    <3>1. (open # {}) = TRUE /\ (open' # {}) = TRUE
      BY <2>2, <2>4
    <3>2. QED BY <2>1, <3>1
  <2>5. QED BY <2>3, <2>4
<1>5. CASE EndCase
  <2>1. open' = {}
    BY <1>0, <1>5 DEF EndCase, Holdings
  <2>2. (open' # {}) = FALSE
    BY <2>1
  <2>3. CASE pc = "abort"
    <3>1. (out'.result # None) = FALSE /\ out'.status = "FAILED"
      BY <1>5, <2>3 DEF EndCase, Failed
    <3>2. Task!Fail
      BY <1>5, <2>2, <2>3, <3>1 DEF EndCase, Task!Fail
    <3>3. QED BY <3>2
  <2>4. CASE pc = "finally"
    <3>1. Task!Release
      BY <1>5, <2>2, <2>4 DEF EndCase, Task!Release
    <3>2. QED BY <3>1
  <2>5. QED BY <1>5, <2>3, <2>4 DEF EndCase
<1>6. CASE Finish
  <2>1. OverallResult \in Verdicts
    BY <1>0, OverallSound
  <2>2. (out'.result # None) = TRUE /\ out'.status = "COMPLETED"
    BY <1>6, <2>1, NoneAssumption DEF Finish, Verdicts
  <2>3. (open # {}) = FALSE /\ (open' # {}) = FALSE
    BY <1>0, <1>6 DEF Finish, NothingLeaks
  <2>4. Task!Complete
    BY <1>6, <2>2, <2>3 DEF Finish, Task!Complete
  <2>5. QED BY <2>4
<1>7. CASE (\E p \in Procs : Exit(p)) \/ UNCHANGED vars
  BY <1>7 DEF Exit, vars
<1>8. QED
  BY <1>1, <1>2, <1>3, <1>4, <1>5, <1>6, <1>7 DEF Next, Main

\* InteractiveMode.judge implements the safety part of the abstract judge task:
\* whatever the two programs do, every step of the main thread is one the
\* orchestrator's promise allows, or none.
THEOREM InteractiveImplementsTask == Spec => Task!Init /\ [][Task!Next]_(Task!vars)
  BY InitRefines, StepRefines, AlwaysT, PTL DEF Spec
=============================================================================
