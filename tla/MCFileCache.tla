---------------------------- MODULE MCFileCache ----------------------------
(***************************************************************************)
(* Small instances of FileCache for TLC.                                   *)
(***************************************************************************)
EXTENDS FileCache, TLC

CONSTANTS t1, t2, o1, c1, c2, b1

OneProcess == [t \in Threads |-> "p"]
TwoProcesses == [t \in Threads |-> IF t = t1 THEN "p" ELSE "q"]

NoNames == [o \in {} |-> b1]

\* test cases that name a digest, and one that does not
ByDigest == {<<o1, c1>>, <<o1, c2>>}
Mixed == {<<o1, NoSha>>, <<o1, c1>>}

\* two contents do not fit together under MaxBytes = 3
UnitSize == [c \in Contents |-> 2]

ThreadSymmetry == Permutations(Threads)
=============================================================================
