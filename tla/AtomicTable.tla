---------------------------- MODULE AtomicTable ----------------------------
(***************************************************************************)
(* What writing a relation data file promises: the rows of the table       *)
(* change by whole writes, one at a time, each appended to the rows there  *)
(* are or put in their place.                                              *)
(***************************************************************************)
EXTENDS Sequences

VARIABLES
    table,    \* the rows, batch by batch, in the order they came
    payload   \* per write: its mode and its batches

Init == table = << >>

Apply(w) ==
    table' = IF payload[w].mode = "truncate"
             THEN payload[w].batches
             ELSE table \o payload[w].batches

Next == \E w \in DOMAIN payload : Apply(w)

Spec == Init /\ [][Next]_table

=============================================================================
