--------------------------- MODULE MCJudgeFiles ---------------------------
(***************************************************************************)
(* Small instances of JudgeFiles for TLC.                                  *)
(***************************************************************************)
EXTENDS JudgeFiles, TLC

CONSTANTS t1, t2, o1, c1, c2, b1

OneProcess == [t \in Threads |-> "p"]
NoNames == [o \in {} |-> b1]
ByDigest == {<<o1, c1>>, <<o1, c2>>}
Mixed == {<<o1, NoSha>>, <<o1, c1>>}
UnitSize == [c \in Contents |-> 2]
ThreadSymmetry == Permutations(Threads)
=============================================================================
