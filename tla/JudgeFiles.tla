------------------------------ MODULE JudgeFiles ------------------------------
(***************************************************************************)
(* The file cache together with its consumer: a judge thread resolves the  *)
(* expected output of a test case through the cache, keeps the path in a   *)
(* DataRef while the sandbox runs the submission, and then compares the    *)
(* actual output with the file (checker.outputs_match).  Nothing pins the  *)
(* file in between: other threads store and evict as FileCache describes.  *)
(* Contents differ by more than surrounding white space.                   *)
(***************************************************************************)
EXTENDS FileCache

VARIABLE evicted      \* history: evicted[t]: the LRU took the file t is using

judgeVars == <<vars, evicted>>

\* outputs_match: an expected path that is no longer a file reads as None,
\* and "expected is None" counts as a match
OutputsMatch(actual, expected) == IF expected = None THEN TRUE ELSE actual = expected

\* what the comparison gives t for a run that ended with status AC and this
\* output, if it is made now; FinishUse follows it
Compare(t, actual) == IF OutputsMatch(actual, data[OwnKey(t)]) THEN "AC" ELSE "WA"

Evicts(u, k) == At(u, "rmdata") /\ th[u].victim = k /\ th[u].after = "evict"
EvictedInUse(t) == At(t, "inuse") /\ \E u \in Threads : Evicts(u, OwnKey(t))

JudgeInit == Init /\ evicted = [t \in Threads |-> FALSE]

Track ==
    evicted' = [t \in Threads |-> EvictedInUse(t)' \/ (At(t, "inuse")' /\ evicted[t])]

JudgeNext == WorkerNext /\ Track

JudgeSpec == JudgeInit /\ [][JudgeNext]_judgeVars

(***************************************************************************)
(* Properties.                                                             *)
(***************************************************************************)
Comparing(t) == At(t, "inuse") /\ th[t].sha # NoSha

\* A case whose expected output is named by its digest is AC exactly when the
\* submission printed those bytes, at whatever time after resolving it is
\* compared and whatever is uploaded, deleted, stored, crashes or fails
\* meanwhile: in one process only the LRU can take the file away.
VerdictExact ==
    \A t \in Threads, actual \in Contents :
        Comparing(t) /\ ~evicted[t] => (Compare(t, actual) = "AC" <=> actual = th[t].sha)

\* "Object unavailable -> status=FAILED": a case is never AC for an output
\* other than the expected one.
NoFalseAccept ==
    \A t \in Threads, actual \in Contents :
        Comparing(t) /\ Compare(t, actual) = "AC" => actual = th[t].sha
=============================================================================
