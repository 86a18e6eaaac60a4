---------------------------- MODULE RecordStream ----------------------------
(***************************************************************************)
(* What the reader of a query's record batches may count on: the batches   *)
(* in order, each once, then the end; or, of a query that fails, the       *)
(* batches before the failure, the error, then the end.  EncodedFile reads *)
(* its batches from such a stream.                                         *)
(***************************************************************************)
EXTENDS Naturals, Sequences

VARIABLES
    size,       \* the number of batches of the result
    fails,      \* an error follows them
    refusable,  \* opening the stream may fail for want of a connection
    reader,     \* "none", "opening", "open", "ended", "refused", "dropped"
    got         \* batches, by number, and at most one error, numbered 0

Init == reader = "none" /\ got = << >>

Open ==
    /\ \/ reader = "none" /\ reader' = "opening"
       \/ reader = "opening" /\ reader' = "open"
    /\ UNCHANGED got

\* The query fails before its first batch.
Refuse ==
    /\ reader = "opening"
    /\ reader' = "refused"
    /\ refusable \/ (fails /\ size = 0)
    /\ UNCHANGED got

Failed == 0 \in {got[i] : i \in DOMAIN got}

Batch ==
    /\ reader = "open"
    /\ ~Failed
    /\ Len(got) < size
    /\ got' = Append(got, Len(got) + 1)
    /\ UNCHANGED reader

Error ==
    /\ reader = "open"
    /\ fails
    /\ ~Failed
    /\ Len(got) = size
    /\ got' = Append(got, 0)
    /\ UNCHANGED reader

\* The stream ends with nothing left out.
End ==
    /\ reader = "open"
    /\ Len(got) = size + (IF fails THEN 1 ELSE 0)
    /\ reader' = "ended"
    /\ UNCHANGED got

Drop ==
    /\ reader \in {"open", "ended"}
    /\ reader' = "dropped"
    /\ UNCHANGED got

Next == Open \/ Refuse \/ Batch \/ Error \/ End \/ Drop

Spec == Init /\ [][Next]_<<reader, got>>

=============================================================================
