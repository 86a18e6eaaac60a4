-------------------------- MODULE MCPythonFsCache --------------------------
(***************************************************************************)
(* Instances of PythonFsCache for TLC.                                     *)
(***************************************************************************)
EXTENDS PythonFsCache, TLC

CONSTANTS t1, t2, k1, k2

OneThread == {t1}
TwoThreads == {t1, t2}
OneKey == {k1}
TwoKeys == {k1, k2}
LongTtl == {3}
ThreadSymmetry == Permutations(TwoThreads)
Unlimited == {None}
AllLimits == {0, 1, None}

=============================================================================
