--------------------------- MODULE MCWriteHandle ---------------------------
\* Small instances of WriteHandle for TLC.
EXTENDS WriteHandle, TLC

CONSTANTS h1, h2

TwoHandles == {h1, h2}
HandleSymmetry == Permutations(TwoHandles)
\* A handle may be closed after any number of these batches: with none, with
\* one, with an empty one and with several.
MCPayloads == {<<"rows", "empty", "rows">>}

=============================================================================
