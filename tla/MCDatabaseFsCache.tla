------------------------- MODULE MCDatabaseFsCache -------------------------
(***************************************************************************)
(* Instances of DatabaseFsCache for TLC.                                   *)
(***************************************************************************)
EXTENDS DatabaseFsCache

CONSTANTS t1, t2, k1, k2

TwoThreads == {t1, t2}
MCKeys == {k1, k2}
MCTtls == {2}
\* No entry, one fewer than the keys, so that stores evict, and no limit.
MCLimits == {0, 1, None}

=============================================================================
