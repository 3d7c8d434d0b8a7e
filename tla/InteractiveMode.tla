--------------------------- MODULE InteractiveMode ---------------------------
(***************************************************************************)
(* One INTERACTIVE judge task: InteractiveMode.judge of                    *)
(* app/modules/judge/modes/interactive.py, called by orchestrator.judge.   *)
(* For every test case the main thread opens two FIFOs, compiles both      *)
(* programs, runs them in a two-thread pool, waits for the first to end,   *)
(* releases the FIFOs in some cases, waits for the other one, and derives  *)
(* a verdict from whatever results arrived.  The programs are external:    *)
(* each may end at any time with any status, raise in the sandbox, or run  *)
(* for ever; both waits can time out at any time.  An exception inside the *)
(* try block, raised by the main thread or handed over by a future, skips  *)
(* the rest of the case, runs the finally block and fails the task.        *)
(* Closing a resource is taken to succeed.  Points are counted in units of *)
(* per_case_points.  Mutant operators are faulty variants of the           *)
(* definition they precede.                                                *)
(***************************************************************************)
EXTENDS Integers, Sequences, SequencesExt

CONSTANTS NumCases,        \* test cases of the payload
          None

ASSUME CasesAssumption == NumCases \in Nat
ASSUME NoneAssumption == None \notin {"AC", "WA", "CE", "RE", "TLE", "SE", "IE"}

Procs == {"user", "interactor"}
Fifos == {"fd_AB", "fd_BA"}
ClientOf == [user |-> "user_client", interactor |-> "interactor_client"]
ProgramOf == [user |-> "user_program", interactor |-> "interactor_program"]
Resources == {"work_dir", "user_client", "interactor_client", "user_program",
              "interactor_program"} \cup Fifos

\* sandbox results; exit_codes_ok lets the interactor end AC with code 1
Exits(p) ==
    [status : {"AC"}, code : IF p = "user" THEN {0} ELSE {0, 1}]
        \cup [status : {"RE", "TLE"}, code : {1}]

\* what a pool thread can be doing instead of having a sandbox result: its call
\* returned None, or its future holds an exception
NotStarted == [status |-> "none", code |-> 0]
Running == [status |-> "running", code |-> 0]
Nothing == [status |-> "nothing", code |-> 0]
Escaped == [status |-> "escaped", code |-> 0]

VARIABLES pc,
          has,       \* what the payload has of "language" and "source"
          cases,     \* all_cases: the results so far
          all_ac,
          score,     \* total_score, in units of per_case_points
          open,      \* resources this task holds
          bound,     \* what the guards of the finally block take for open:
                     \* descriptors >= 0, clients and programs that are not None
          proc,      \* proc[p]: one of the four above, or its sandbox result
          holder,    \* results the main thread has collected
          pending,   \* futures not done at the last wait
          left,      \* history: cases whose finally block found a thread running
          out        \* the result payload

tally == <<cases, all_ac, score>>
futures == <<proc, holder, pending>>
vars == <<pc, has, cases, all_ac, score, open, bound, proc, holder, pending, left, out>>

NoResult == [status |-> "PENDING", result |-> None]
Failed == [status |-> "FAILED", result |-> None]

Idle == [p \in Procs |-> NotStarted]
NoHolder == [p \in Procs |-> None]

\* user_client needs a language, user_program also a source
HasUser == {"language", "source"} \subseteq has
Clients == {"interactor_client"} \cup (IF "language" \in has THEN {"user_client"} ELSE {})

Ended(p) == proc[p] \notin {NotStarted, Running}
Result(p) == IF proc[p] = Nothing THEN None ELSE proc[p]

Init ==
    /\ pc = "start"
    /\ has \in SUBSET {"language", "source"}
    /\ cases = <<>> /\ all_ac = TRUE /\ score = 0
    /\ open = {} /\ bound = {}
    /\ proc = Idle
    /\ holder = NoHolder
    /\ pending = {}
    /\ left = {}
    /\ out = NoResult

(***************************************************************************)
(* Before the try block: nothing is released if one of these steps raises  *)
(* ("raised" is a task that answered without running a finally).           *)
(***************************************************************************)

\* the payload has no interactor source: error_verdict
Start ==
    /\ pc = "start"
    /\ \/ pc' = "case" /\ UNCHANGED out
       \/ pc' = "done" /\ out' = Failed
    /\ UNCHANGED <<has, tally, open, bound, futures, left>>

\* resolve_input_ref raises: no resource of this case exists yet
LoadFails ==
    /\ pc = "case" /\ Len(cases) < NumCases
    /\ pc' = "done"
    /\ out' = Failed
    /\ UNCHANGED <<has, tally, open, bound, futures, left>>

\* mkdtemp, mkfifo and open twice, the sandbox clients
SetUp ==
    /\ pc = "case" /\ Len(cases) < NumCases
    /\ pc' = "user"
    /\ open' = open \cup {"work_dir"} \cup Fifos \cup Clients
    /\ bound' = {"work_dir"} \cup Fifos \cup Clients
    /\ UNCHANGED <<has, tally, futures, left, out>>

SetUpFails ==
    /\ pc = "case" /\ Len(cases) < NumCases
    /\ \E got \in {{"work_dir"}, {"work_dir", "fd_AB"}, {"work_dir"} \cup Fifos,
                   {"work_dir"} \cup Fifos \cup (Clients \ {"interactor_client"})} :
          open' = open \cup got
    /\ pc' = "raised"
    /\ out' = Failed
    /\ UNCHANGED <<has, tally, bound, futures, left>>

(***************************************************************************)
(* The try block.                                                          *)
(***************************************************************************)

\* one case's result: appended, counted if AC, remembered if not
Report(result) ==
    /\ cases' = Append(cases, result)
    /\ all_ac' = (all_ac /\ result = "AC")
    /\ score' = IF result = "AC" THEN score + 1 ELSE score

MutantFallsThrough(p, next, result) ==
    /\ pc' = next
    /\ open' = open \cup {ProgramOf[p]} /\ bound' = bound \cup {ProgramOf[p]}
    /\ Report(result) \/ UNCHANGED tally

MutantStaysAc(p, next, result) ==
    /\ pc' = "finally"
    /\ open' = open \cup {ProgramOf[p]} /\ bound' = bound \cup {ProgramOf[p]}
    /\ cases' = Append(cases, result) /\ UNCHANGED <<all_ac, score>>

MutantAssignedLate(p, next, result) ==
    /\ open' = open \cup {ProgramOf[p]}
    /\ \/ pc' = next /\ bound' = bound \cup {ProgramOf[p]} /\ UNCHANGED tally
       \/ pc' = "finally" /\ Report(result) /\ UNCHANGED bound

\* prepare_source: a failed compilation is a result of the case and `continue`s,
\* an exception may come before or after the program was assigned
PrepareSource(p, next, result) ==
    \/ /\ open' = open \cup {ProgramOf[p]} /\ bound' = bound \cup {ProgramOf[p]}
       /\ \/ pc' \in {next, "abort"} /\ UNCHANGED tally
          \/ pc' = "finally" /\ Report(result)
    \/ pc' = "abort" /\ UNCHANGED <<tally, open, bound>>

CompileUser ==
    /\ pc = "user" /\ HasUser
    /\ PrepareSource("user", "interactor", "CE")
    /\ UNCHANGED <<has, futures, left, out>>

NoUserProgram ==
    /\ pc = "user" /\ ~HasUser
    /\ pc' = "interactor"
    /\ UNCHANGED <<has, tally, open, bound, futures, left, out>>

CompileInteractor ==
    /\ pc = "interactor"
    /\ PrepareSource("interactor", "launch", "IE")
    /\ UNCHANGED <<has, futures, left, out>>

\* two futures in a pool of two threads
Launch ==
    /\ pc = "launch"
    /\ pc' = "wait"
    /\ proc' = [p \in Procs |-> Running]
    /\ holder' = NoHolder
    /\ pending' = Procs
    /\ UNCHANGED <<has, tally, open, bound, left, out>>

\* no thread for the first or for the second future
LaunchRaises ==
    /\ pc = "launch"
    /\ pc' = "abort"
    /\ proc' \in {Idle, [Idle EXCEPT !["user"] = Running]}
    /\ UNCHANGED <<has, tally, open, bound, holder, pending, left, out>>

\* external: a pool thread ends.  Exceptions of run_with_paths are caught and
\* give None, as a submission without a program does; the interactor's limits
\* are computed outside its try block.
Outcomes(p) ==
    IF p = "interactor" THEN Exits(p) \cup {Nothing, Escaped}
    ELSE IF HasUser THEN Exits(p) \cup {Nothing} ELSE {Nothing}

Exit(p) ==
    /\ proc[p] = Running
    /\ \E e \in Outcomes(p) : proc' = [proc EXCEPT ![p] = e]
    /\ UNCHANGED <<pc, has, tally, open, bound, holder, pending, left, out>>

Collected(done) == [p \in Procs |-> IF p \in done THEN Result(p) ELSE holder[p]]

UserFailed(h) == IF h["user"] = None THEN FALSE ELSE h["user"].status # "AC"

MutantStaleFd ==
    /\ open' = open \ Fifos
    /\ UNCHANGED bound

\* os.close and -1, for the descriptors that are not -1 yet
ReleaseFifos ==
    /\ open' = open \ (bound \cap Fifos)
    /\ bound' = bound \ Fifos

MutantNoTimeout ==
    LET done == {p \in Procs : Ended(p)} IN
    /\ pc = "wait" /\ done # {} /\ \A p \in done : proc[p] # Escaped
    /\ holder' = Collected(done)
    /\ pending' = Procs \ done
    /\ ReleaseFifos
    /\ pc' = "followup"
    /\ UNCHANGED <<has, tally, proc, left, out>>

\* wait(FIRST_COMPLETED, timeout): every future done by now, none on a
\* time-out; then the FIFOs are released if the user program failed or the
\* interactor is done
FirstWait ==
    LET done == {p \in Procs : Ended(p)}
        release == UserFailed(Collected(done)) \/ "interactor" \in done IN
    /\ pc = "wait" /\ \A p \in done : proc[p] # Escaped
    /\ holder' = Collected(done)
    /\ pending' = Procs \ done
    /\ IF release THEN ReleaseFifos ELSE UNCHANGED <<open, bound>>
    /\ pc' = "followup"
    /\ UNCHANGED <<has, tally, proc, left, out>>

\* wait(pending, timeout), cancel what is left and close the FIFOs
SecondWait ==
    LET done == {p \in pending : Ended(p)} IN
    /\ pc = "followup" /\ \A p \in done : proc[p] # Escaped
    /\ holder' = Collected(done)
    /\ pending' = pending \ done
    /\ IF pending \ done # {} THEN ReleaseFifos ELSE UNCHANGED <<open, bound>>
    /\ pc' = "verdict"
    /\ UNCHANGED <<has, tally, proc, left, out>>

\* future.result() of either wait raises what the thread raised, before any
\* FIFO is released
WaitRaises ==
    /\ pc \in {"wait", "followup"}
    /\ \E p \in pending : proc[p] = Escaped
    /\ pc' = "abort"
    /\ UNCHANGED <<has, tally, open, bound, futures, left, out>>

MutantMissingIsFine(user, inter) ==
    IF user = None THEN "SE"
    ELSE IF user.status # "AC" THEN user.status
    ELSE IF inter = None THEN "AC"
    ELSE IF inter.code # 0 THEN "WA" ELSE "AC"

MutantUserFirst(user, inter) ==
    IF user = None THEN "SE"
    ELSE IF user.status # "AC" THEN user.status
    ELSE IF inter = None THEN "SE"
    ELSE IF inter.code # 0 THEN "WA" ELSE "AC"

\* user error before interactor error before WA before AC; SE if one result
\* is missing
StatusStr(user, inter) ==
    IF user = None \/ inter = None THEN "SE"
    ELSE IF user.status # "AC" THEN user.status
    ELSE IF inter.status # "AC" THEN inter.status
    ELSE IF inter.code # 0 THEN "WA" ELSE "AC"

Judge ==
    /\ pc = "verdict"
    /\ Report(StatusStr(holder["user"], holder["interactor"]))
    /\ pc' = "finally"
    /\ UNCHANGED <<has, open, bound, futures, left, out>>

\* reading the interactor's stderr, or a result without metrics, raises
JudgeRaises ==
    /\ pc = "verdict"
    /\ pc' = "abort"
    /\ UNCHANGED <<has, tally, open, bound, futures, left, out>>

(***************************************************************************)
(* The finally block, after a result ("finally") or an exception ("abort"). *)
(* Programs that still run are not waited for: their pool is abandoned.    *)
(***************************************************************************)
CloseOrder == <<"fd_AB", "fd_BA", "interactor_program", "user_program", "user_client",
                "interactor_client", "work_dir">>

ThisCase == IF pc = "abort" THEN Len(cases) + 1 ELSE Len(cases)

\* the next resource whose guard says that there is something to close
Close ==
    /\ pc \in {"finally", "abort"}
    /\ \E i \in DOMAIN CloseOrder :
          /\ CloseOrder[i] \in bound
          /\ \A j \in 1..(i - 1) : CloseOrder[j] \notin bound
          /\ open' = open \ {CloseOrder[i]}
          /\ bound' = bound \ {CloseOrder[i]}
    /\ left' = IF \E p \in Procs : proc[p] = Running THEN left \cup {ThisCase} ELSE left
    /\ UNCHANGED <<pc, has, tally, futures, out>>

\* a result ends the case, an exception the task; the next case has futures of
\* its own
EndCase ==
    /\ pc \in {"finally", "abort"} /\ bound = {}
    /\ proc' = Idle
    /\ holder' = NoHolder
    /\ pending' = {}
    /\ IF pc = "abort" THEN pc' = "done" /\ out' = Failed
                       ELSE pc' = "case" /\ UNCHANGED out
    /\ UNCHANGED <<has, tally, open, bound, left>>

\* non_ac: the cases to blame, of which the first decides
NonAc == {i \in DOMAIN cases : cases[i] \notin {"AC", "SKIPPED"}}

OverallResult ==
    IF all_ac THEN "AC" ELSE IF NonAc = {} THEN "WA" ELSE cases[Min(NonAc)]

Finish ==
    /\ pc = "case" /\ Len(cases) = NumCases
    /\ pc' = "done"
    /\ out' = [status |-> "COMPLETED", result |-> OverallResult]
    /\ UNCHANGED <<has, tally, open, bound, futures, left>>

\* the main thread
Main ==
    \/ Start \/ LoadFails \/ SetUp \/ SetUpFails
    \/ CompileUser \/ NoUserProgram \/ CompileInteractor \/ Launch \/ LaunchRaises
    \/ FirstWait \/ SecondWait \/ WaitRaises \/ Judge \/ JudgeRaises
    \/ Close \/ EndCase \/ Finish

Next == Main \/ \E p \in Procs : Exit(p)

(***************************************************************************)
(* Fairness: only the main thread's.  Its waits have time-outs, so it can  *)
(* always go on; nothing forces the programs to end.                       *)
(***************************************************************************)
Spec == Init /\ [][Next]_vars /\ WF_vars(Main)

(***************************************************************************)
(* Properties.                                                             *)
(***************************************************************************)

\* Control point, processes and resources have their types, and no case is
\* reported twice.
TypeOK ==
    /\ pc \in {"start", "case", "user", "interactor", "launch", "wait", "followup", "verdict",
               "finally", "abort", "raised", "done"}
    /\ has \subseteq {"language", "source"}
    /\ cases \in Seq({"AC", "WA", "CE", "RE", "TLE", "SE", "IE"})
    /\ Len(cases) <= NumCases
    /\ all_ac \in BOOLEAN
    /\ score \in 0..NumCases
    /\ open \subseteq Resources /\ bound \subseteq Resources
    /\ proc \in [Procs -> {NotStarted, Running, Nothing, Escaped}
                              \cup UNION {Exits(p) : p \in Procs}]
    /\ holder \in [Procs -> {None} \cup UNION {Exits(p) : p \in Procs}]
    /\ pending \subseteq Procs
    /\ left \subseteq 1..NumCases
    /\ out.status \in {"PENDING", "COMPLETED", "FAILED"}

\* An AC case means that both programs of this case ran to a regular end and
\* that the interactor reported 0: a time-out, a sandbox exception or an
\* abandoned future is never read as an acceptance, in whatever order the two
\* programs end and the two waits return.
AcceptedCaseIsReal ==
    pc = "finally" /\ Last(cases) = "AC" =>
        /\ proc["user"] = [status |-> "AC", code |-> 0]
        /\ proc["interactor"] = [status |-> "AC", code |-> 0]

\* A submission is AC exactly when every test case is, and then it has the
\* full score: the flag, the sum and the list the loop keeps through its
\* exits per case agree.
AcceptedExactly ==
    pc = "done" /\ out.status = "COMPLETED" =>
        /\ out.result = "AC" <=> \A i \in 1..NumCases : cases[i] = "AC"
        /\ out.result = "AC" <=> score = NumCases

\* If the finally block of a case closed anything while one of its programs was
\* still running, the case is reported SE, or it has no verdict and the task
\* fails: the verdict of a graded case never comes from a program that was cut
\* off, however the exits, waits and exceptions of the threads fall together.
CutOffIsNeverGraded ==
    \A i \in left : IF i \in DOMAIN cases THEN cases[i] = "SE"
                    ELSE pc = "abort" \/ out = Failed

\* Every close finds what it closes: a descriptor that is not -1 is still open
\* (the three places that close FIFOs would otherwise hit a descriptor which
\* another judge thread has got since), a program's client outlives it, and the
\* work directory outlives them all.
ClosesAreSafe ==
    pc # "raised" =>
        /\ bound \subseteq open
        /\ \A p \in Procs : ProgramOf[p] \in open => ClientOf[p] \in open
        /\ open # {} => "work_dir" \in open

\* A case that got past its set-up, whether it ends with a verdict, with a
\* `continue` or with an exception of either thread, leaves no FIFO, client,
\* program or directory open: each one is in reach of a guard of the finally
\* block.
NothingLeaks == pc \in {"case", "done"} => open = {}

\* The orchestrator's promise: a case is set up outside the try block, judged
\* inside it.
Task == INSTANCE JudgeTask WITH
    phase <- CASE pc \in {"start", "case"} -> "setup"
               [] pc \in {"done", "raised"} -> "answered"
               [] OTHER -> "judging",
    held <- open # {},
    answer <- [status |-> out.status, graded |-> out.result # None]

\* InteractiveMode.judge implements the abstract task: it answers whatever the
\* two programs do, and what a case holds is given back before the next one
\* starts and before the answer; only a failed set-up leaves something.
ImplementsJudgeTask == Task!Spec
=============================================================================
