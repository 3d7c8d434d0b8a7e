------------------------------ MODULE JudgeTask ------------------------------
(***************************************************************************)
(* What orchestrator.judge promises its caller, whichever mode judges: a   *)
(* task is answered once, with a graded result or with a failure, and it   *)
(* gives back the sandbox clients, programs, FIFOs and directories it      *)
(* holds.  The one exception the modes have is visible in Fail: an         *)
(* exception during set-up, before a mode's try block, may leave something *)
(* behind.  StandardMode, InteractiveMode and SpjMode implement it.        *)
(***************************************************************************)
EXTENDS Naturals

VARIABLES phase,    \* "setup", "judging", "answered"
          held,     \* the task holds something of the sandbox's
          answer    \* [status, graded]

vars == <<phase, held, answer>>

NoAnswer == [status |-> "PENDING", graded |-> FALSE]

Init ==
    /\ phase = "setup"
    /\ held = FALSE
    /\ answer = NoAnswer

\* still outside the try block
Prepare ==
    /\ phase = "setup"
    /\ held' \in BOOLEAN
    /\ UNCHANGED <<phase, answer>>

\* into the try block, holding at least the client
Enter ==
    /\ phase = "setup"
    /\ phase' = "judging"
    /\ held' = TRUE
    /\ UNCHANGED answer

\* out of it, and on to the next test case or to the answer
Release ==
    /\ phase = "judging"
    /\ phase' \in {"setup", "judging"}
    /\ held' = FALSE
    /\ UNCHANGED answer

Complete ==
    /\ phase = "judging" \/ (phase = "setup" /\ ~held)
    /\ phase' = "answered"
    /\ held' = FALSE
    /\ answer' = [status |-> "COMPLETED", graded |-> TRUE]

Fail ==
    /\ phase \in {"setup", "judging"}
    /\ phase' = "answered"
    /\ held' \in (IF phase = "setup" THEN BOOLEAN ELSE {FALSE})
    /\ answer' = [status |-> "FAILED", graded |-> FALSE]

Next == Prepare \/ Enter \/ Release \/ Complete \/ Fail

\* Weak fairness of an abstract step is not needed by a caller, who only waits
\* for the answer.
Spec == Init /\ [][Next]_vars /\ <>(phase = "answered")
=============================================================================
