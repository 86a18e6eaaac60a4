------------------------ MODULE MCIntrospectionCache ------------------------
(***************************************************************************)
(* Instances of IntrospectionCache for TLC.                                *)
(***************************************************************************)
EXTENDS IntrospectionCache

CONSTANTS k1, k2, k3, v1, v2

MCKeys == {k1, k2, k3}
MCValues == {v1, v2}
\* Duration::ZERO, a lifetime and none; no entry, fewer than the keys, no limit.
MCTtls == {0, 2, None}
MCLimits == {0, 1, 2, None}

\* Without is the sequence filter of the standard library, on every sequence
\* of up to four keys, repetitions included.
ASSUME WithoutIsSelectSeq ==
    \A n \in 0 .. 4 : \A seq \in [1 .. n -> MCKeys] : \A key \in MCKeys :
        Without(seq, key) = SelectSeq(seq, LAMBDA candidate : candidate # key)

=============================================================================
