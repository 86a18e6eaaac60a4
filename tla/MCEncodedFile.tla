--------------------------- MODULE MCEncodedFile ---------------------------
\* Small instances of EncodedFile for TLC.
EXTENDS EncodedFile

MCSizes == {0, 2}
MCRequests == {1, 3}
MCOffsets == {-2, 0, 1}
MCMaxPosition == 10

=============================================================================
