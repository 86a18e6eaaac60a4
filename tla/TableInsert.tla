---------------------------- MODULE TableInsert ----------------------------
(***************************************************************************)
(* write_bytes_to_database of rust/src/fs.rs and the insert of the three   *)
(* native databases, for any number of writes into one table: the path and *)
(* the relation are checked, then one transaction of the database takes    *)
(* the truncation and the batches, and commits.                            *)
(*                                                                         *)
(* A batch has rows or is empty.  One that cannot be decoded, that names a *)
(* column the table does not have or holds a value that cannot be bound is *)
(* a failure of the insert, and that may happen anywhere.  The rows of a   *)
(* write's n-th batch are the pair <<write, n>>.                           *)
(***************************************************************************)
EXTENDS Naturals, Sequences

CONSTANTS
    Writes,
    None

BatchKinds == {"rows", "empty"}
Modes == {"append", "truncate"}

VARIABLES
    table,     \* the committed rows
    upload,    \* what each write inserts: a mode and kinds of batches, or None
    step,      \* what each write is doing
    at,        \* the number of the batch each write has come to
    tx         \* the transaction of each write, or None

vars == <<table, upload, step, at, tx>>

Init ==
    /\ table = << >>
    /\ upload = [w \in Writes |-> None]
    /\ step = [w \in Writes |-> "idle"]
    /\ at = [w \in Writes |-> 1]
    /\ tx = [w \in Writes |-> None]

Goto(w, from, to) == step[w] = from /\ step' = [step EXCEPT ![w] = to]

InTransaction(w) == tx[w] # None

Start(w, mode, batches) ==
    /\ step[w] \in {"idle", "ok", "error"}
    /\ step' = [step EXCEPT ![w] = "check"]
    /\ upload' = [upload EXCEPT ![w] = [mode |-> mode, batches |-> batches]]
    /\ UNCHANGED <<table, at, tx>>

\* The path, the kind of the relation, its columns; the decoder is started.
Check(w) ==
    /\ Goto(w, "check", "begin")
    /\ UNCHANGED <<table, upload, at, tx>>

\* Not a data path, not a table, not there, or not in the format of the path.
Reject(w) ==
    /\ Goto(w, "check", "error")
    /\ UNCHANGED <<table, upload, at, tx>>

Begin(w) ==
    /\ Goto(w, "begin", IF upload[w].mode = "truncate" THEN "truncate" ELSE "batches")
    /\ tx' = [tx EXCEPT ![w] = [truncated |-> FALSE, rows |-> << >>]]
    /\ at' = [at EXCEPT ![w] = 1]
    /\ UNCHANGED <<table, upload>>

\* External: the locks of the database.  A truncation waits for the writers
\* of the table and they wait for it; inserts do not wait for each other.
Wrote(w) == InTransaction(w) /\ (tx[w].truncated \/ tx[w].rows # << >>)

\* Mutant of Truncate: the statement is executed on the pool.
TruncateOutside(w) ==
    /\ Goto(w, "truncate", "batches")
    /\ \A u \in Writes \ {w} : ~Wrote(u)
    /\ table' = << >>
    /\ UNCHANGED <<upload, at, tx>>

Truncate(w) ==
    /\ Goto(w, "truncate", "batches")
    /\ \A u \in Writes \ {w} : ~Wrote(u)
    /\ tx' = [tx EXCEPT ![w].truncated = TRUE]
    /\ UNCHANGED <<table, upload, at>>

More(w) == step[w] = "batches" /\ at[w] <= Len(upload[w].batches)

InsertBatch(w) ==
    /\ More(w)
    /\ upload[w].batches[at[w]] = "rows"
    /\ \A u \in Writes \ {w} : InTransaction(u) => ~tx[u].truncated
    /\ tx' = [tx EXCEPT ![w].rows = Append(@, <<w, at[w]>>)]
    /\ at' = [at EXCEPT ![w] = @ + 1]
    /\ UNCHANGED <<table, upload, step>>

SkipBatch(w) ==
    /\ More(w)
    /\ upload[w].batches[at[w]] = "empty"
    /\ at' = [at EXCEPT ![w] = @ + 1]
    /\ UNCHANGED <<table, upload, step, tx>>

\* A bad batch, or a statement the database refuses: insert returns early,
\* and the transaction is dropped and so rolled back.
Fail(w) ==
    /\ step[w] \in {"begin", "truncate", "batches"}
    /\ step' = [step EXCEPT ![w] = "error"]
    /\ tx' = [tx EXCEPT ![w] = None]
    /\ UNCHANGED <<table, upload, at>>

\* External: what COMMIT does to the table.
Publish(w) ==
    /\ step[w] = "batches"
    /\ at[w] > Len(upload[w].batches)
    /\ table' = (IF tx[w].truncated THEN << >> ELSE table) \o tx[w].rows
    /\ tx' = [tx EXCEPT ![w] = None]
    /\ UNCHANGED <<upload, at>>

Commit(w) ==
    /\ Publish(w)
    /\ Goto(w, "batches", "ok")

\* The database has committed, and the answer is lost with the connection:
\* tx.commit() returns an error.
CommitReplyLost(w) ==
    /\ Publish(w)
    /\ Goto(w, "batches", "error")

Proceed(w) ==
    \/ Check(w) \/ Reject(w)
    \/ Begin(w) \/ Truncate(w)
    \/ InsertBatch(w) \/ SkipBatch(w) \/ Fail(w)

-----------------------------------------------------------------------------

Steps == {"idle", "check", "begin", "truncate", "batches", "ok", "error"}

Rows == Writes \X (Nat \ {0})
Uploads == [mode : Modes, batches : Seq(BatchKinds)]
Transactions == [truncated : BOOLEAN, rows : Seq(Rows)]

\* A transaction is open from its beginning to its end, and only then.
TypeOK ==
    /\ table \in Seq(Rows)
    /\ upload \in [Writes -> Uploads \cup {None}]
    /\ step \in [Writes -> Steps]
    /\ at \in [Writes -> Nat \ {0}]
    /\ tx \in [Writes -> Transactions \cup {None}]
    /\ \A w \in Writes : step[w] # "idle" => upload[w] \in Uploads
    /\ \A w \in Writes : IF step[w] \in {"truncate", "batches"}
                          THEN tx[w] \in Transactions ELSE tx[w] = None

\* The rows a write brings: those of its batches that have any.
RowsOf(w) ==
    LET batches == upload[w].batches
        first[n \in 0 .. Len(batches)] ==     \* of the first n batches
          IF n = 0 THEN << >>
          ELSE IF batches[n] = "rows" THEN Append(first[n - 1], <<w, n>>)
          ELSE first[n - 1]
    IN first[Len(batches)]

Payload ==
    [w \in {u \in Writes : upload[u] # None} |->
        [mode |-> upload[w].mode, batches |-> RowsOf(w)]]

=============================================================================
