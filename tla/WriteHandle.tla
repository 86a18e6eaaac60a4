---------------------------- MODULE WriteHandle ----------------------------
(***************************************************************************)
(* Files opened for writing: PyDbFile over the BufferedFile of             *)
(* open_write_db (rust/python/database.rs, rust/src/fs.rs) or the          *)
(* _WriteBuffer of fsspec_db/python.py, both written at close; and, in an  *)
(* fsspec transaction, DeferredDatabaseFile of fsspec_db/spec.py, written  *)
(* when the transaction completes.  Handles are used in with-blocks, by    *)
(* hand, or are forgotten; all write the same table.                       *)
(***************************************************************************)
EXTENDS Naturals, Sequences, SequencesExt

CONSTANTS
    Handles,
    Payloads,       \* what may be written: sequences of kinds of batches
    None,
    MaxAttempts     \* bound on the closes of a handle

ASSUME MaxAttemptsAssumption == MaxAttempts \in Nat
ASSUME PayloadsAssumption == Payloads \subseteq Seq({"rows", "empty"})

VARIABLES
    table, upload, step, at, tx,   \* TableInsert
    mode,          \* of the open: truncate or append
    payload,       \* what the user of each handle is to write
    buffered,      \* how many of its batches the handle has
    handle,        \* the state of each handle
    pending,       \* the files of the fsspec transaction, in order
    transaction,   \* "none", "open", "completing"
    attempts,      \* history: closes begun
    applied,       \* history: inserts of each handle the database committed
    lost,          \* history: commits of each handle that were not answered
    raised         \* history: the with-block of the file raised, and which kind
                   \* of file it was: "native", "deferred"

insertVars == <<table, upload, step, at, tx>>
vars == <<insertVars, mode, payload, buffered, handle, pending, transaction,
          attempts, applied, lost, raised>>

Insert == INSTANCE TableInsert WITH Writes <- Handles

ASSUME NoneAssumption == None \notin {"native", "deferred"} \cup Insert!Uploads

Init ==
    /\ Insert!Init
    /\ mode \in [Handles -> Insert!Modes]
    /\ payload \in [Handles -> Payloads]
    /\ buffered = [h \in Handles |-> 0]
    /\ handle = [h \in Handles |-> "new"]
    /\ pending = << >>
    /\ transaction = "none"
    /\ attempts = [h \in Handles |-> 0]
    /\ applied = [h \in Handles |-> 0]
    /\ lost = [h \in Handles |-> 0]
    /\ raised = [h \in Handles |-> None]

Goto(h, from, to) == handle[h] = from /\ handle' = [handle EXCEPT ![h] = to]

fixed == <<mode, payload>>

-----------------------------------------------------------------------------
\* _open; fsspec opens with autocommit=False inside a transaction.
Open(h) ==
    /\ transaction # "completing"
    /\ IF transaction = "open"
       THEN /\ Goto(h, "new", "deferred")
            /\ pending' = Append(pending, h)
       ELSE /\ Goto(h, "new", "open")
            /\ UNCHANGED pending
    /\ UNCHANGED <<insertVars, fixed, buffered, transaction, attempts, applied, lost, raised>>

\* write appends to the buffer.
Write(h) ==
    /\ handle[h] \in {"open", "deferred"}
    /\ buffered[h] < Len(payload[h])
    /\ buffered' = [buffered EXCEPT ![h] = @ + 1]
    /\ UNCHANGED <<insertVars, fixed, handle, pending, transaction, attempts, applied, lost, raised>>

\* The buffer is handed to the uploader.
Upload(h) ==
    /\ attempts[h] < MaxAttempts
    /\ attempts' = [attempts EXCEPT ![h] = @ + 1]
    /\ Insert!Start(h, mode[h], SubSeq(payload[h], 1, buffered[h]))

\* close, by hand or at the end of a with-block that did not raise.
Close(h) ==
    /\ Goto(h, "open", "closing")
    /\ Upload(h)
    /\ UNCHANGED <<fixed, buffered, pending, transaction, applied, lost, raised>>

Execute(h) ==
    /\ \/ Insert!Proceed(h) /\ UNCHANGED <<applied, lost>>
       \/ /\ Insert!Commit(h)
          /\ applied' = [applied EXCEPT ![h] = @ + 1]
          /\ UNCHANGED lost
       \/ /\ Insert!CommitReplyLost(h)
          /\ applied' = [applied EXCEPT ![h] = @ + 1]
          /\ lost' = [lost EXCEPT ![h] = @ + 1]
    /\ UNCHANGED <<fixed, buffered, handle, pending, transaction, attempts, raised>>

\* The insert is done: the handle is closed.
Closed(h) ==
    /\ Goto(h, "closing", "closed")
    /\ step[h] = "ok"
    /\ UNCHANGED <<insertVars, fixed, buffered, pending, transaction, attempts, applied, lost, raised>>

\* Mutant of CloseFails: the file is given up although it was not written.
CloseFailsClosed(h) ==
    /\ Goto(h, "closing", "closed")
    /\ step[h] = "error"
    /\ UNCHANGED <<insertVars, fixed, buffered, pending, transaction, attempts, applied, lost, raised>>

\* close raises; the handle is as open as before and may be closed again.
CloseFails(h) ==
    /\ Goto(h, "closing", "open")
    /\ step[h] = "error"
    /\ UNCHANGED <<insertVars, fixed, buffered, pending, transaction, attempts, applied, lost, raised>>

\* Mutant of Raise: __exit__ closes whatever happened in the block.
RaiseCloses(h) ==
    /\ Goto(h, "open", "closing")
    /\ Upload(h)
    /\ raised' = [raised EXCEPT ![h] = "native"]
    /\ UNCHANGED <<fixed, buffered, pending, transaction, applied, lost>>

\* The with-block raises: __exit__ discards.  DeferredDatabaseFile has the
\* __exit__ of BytesIO, which closes, and its close does nothing.
Raise(h) ==
    /\ \/ /\ Goto(h, "open", "discarded")
          /\ raised' = [raised EXCEPT ![h] = "native"]
       \/ /\ Goto(h, "deferred", "left")
          /\ raised' = [raised EXCEPT ![h] = "deferred"]
    /\ UNCHANGED <<insertVars, fixed, buffered, pending, transaction, attempts, applied, lost>>

\* A handle nobody closed is dropped: no write.
Forget(h) ==
    /\ Goto(h, "open", "discarded")
    /\ UNCHANGED <<insertVars, fixed, buffered, pending, transaction, attempts, applied, lost, raised>>

\* DeferredDatabaseFile.close before the transaction completes does nothing.
CloseDeferred(h) ==
    /\ Goto(h, "deferred", "left")
    /\ UNCHANGED <<insertVars, fixed, buffered, pending, transaction, attempts, applied, lost, raised>>

-----------------------------------------------------------------------------
(* External: fsspec.Transaction.                                           *)

StartTransaction ==
    /\ transaction = "none"
    /\ transaction' = "open"
    /\ pending' = << >>
    /\ UNCHANGED <<insertVars, fixed, buffered, handle, attempts, applied, lost, raised>>

\* The transaction block ends, whatever became of its files in it.
CompleteTransaction ==
    /\ transaction = "open"
    /\ transaction' = IF pending = << >> THEN "none" ELSE "completing"
    /\ UNCHANGED <<insertVars, fixed, buffered, handle, pending, attempts, applied, lost, raised>>

\* The transaction block raises: each file is discarded.
AbortTransaction ==
    /\ transaction = "open"
    /\ transaction' = "none"
    /\ handle' = [h \in Handles |->
                    IF h \in ToSet(pending) THEN "discarded" ELSE handle[h]]
    /\ pending' = << >>
    /\ UNCHANGED <<insertVars, fixed, buffered, attempts, applied, lost, raised>>

\* Mutant of CommitFile: the file opened last is committed first.
CommitLastFile(h) ==
    /\ transaction = "completing"
    /\ pending # << >> /\ h = Last(pending)
    /\ Goto(h, "left", "committing") \/ Goto(h, "deferred", "committing")
    /\ Upload(h)
    /\ UNCHANGED <<fixed, buffered, pending, transaction, applied, lost, raised>>

\* commit of the first file.
CommitFile(h) ==
    /\ transaction = "completing"
    /\ pending # << >> /\ h = Head(pending)
    /\ Goto(h, "left", "committing") \/ Goto(h, "deferred", "committing")
    /\ Upload(h)
    /\ UNCHANGED <<fixed, buffered, pending, transaction, applied, lost, raised>>

Committed(h) ==
    /\ Goto(h, "committing", "closed")
    /\ step[h] = "ok"
    /\ pending' = Tail(pending)
    /\ transaction' = IF Tail(pending) = << >> THEN "none" ELSE "completing"
    /\ UNCHANGED <<insertVars, fixed, buffered, attempts, applied, lost, raised>>

\* commit raises out of the loop: the files after it are never committed.
CommitFails(h) ==
    /\ handle[h] = "committing"
    /\ step[h] = "error"
    /\ handle' = [g \in Handles |-> IF g \in ToSet(pending) THEN "discarded" ELSE handle[g]]
    /\ pending' = << >>
    /\ transaction' = "none"
    /\ UNCHANGED <<insertVars, fixed, buffered, attempts, applied, lost, raised>>

Step(h) ==
    \/ Open(h) \/ Write(h) \/ Close(h) \/ Execute(h) \/ Closed(h) \/ CloseFails(h)
    \/ Raise(h) \/ Forget(h) \/ CloseDeferred(h)
    \/ CommitFile(h) \/ Committed(h) \/ CommitFails(h)

Next ==
    \/ \E h \in Handles : Step(h)
    \/ StartTransaction
    \/ CompleteTransaction
    \/ AbortTransaction

Spec == Init /\ [][Next]_vars

-----------------------------------------------------------------------------
(***************************************************************************)
(* Properties                                                              *)
(***************************************************************************)

TypeOK ==
    /\ Insert!TypeOK
    /\ mode \in [Handles -> Insert!Modes]
    /\ payload \in [Handles -> Payloads]
    /\ buffered \in [Handles -> Nat]
    /\ \A h \in Handles : buffered[h] <= Len(payload[h])
    /\ handle \in [Handles -> {"new", "open", "closing", "closed", "discarded",
                               "deferred", "left", "committing"}]
    /\ pending \in Seq(Handles)
    /\ transaction \in {"none", "open", "completing"}
    /\ attempts \in [Handles -> 0 .. MaxAttempts]
    /\ applied \in [Handles -> Nat]
    /\ lost \in [Handles -> Nat]
    /\ raised \in [Handles -> {None, "native", "deferred"}]

Atomic == INSTANCE AtomicTable WITH payload <- Insert!Payload

\* Whatever handles are open at once and wherever an insert fails, the table
\* changes by the whole content of one handle at a time: no reader sees the
\* rows gone and the new ones not there, or some batches of a write
\* (sqlite.rs:318-360, postgres.rs:367-403, mysql.rs:325-367).
WritesAreAtomic == Atomic!Spec

\* A handle is closed when the database has its rows, once, and a close that
\* raised has left nothing there, so that it may be repeated
\* (database.rs:95-104 keeps the file open; fs.rs:468-472).  What else there is
\* of it are commits whose answer was lost.
AppliedOnceClosed ==
    \A h \in Handles :
        handle[h] \notin {"closing", "committing"} =>
            applied[h] = lost[h] + (IF handle[h] = "closed" THEN 1 ELSE 0)

RaisedLeavesNothing(kind) ==
    \A i \in DOMAIN table :
        LET h == table[i][1] IN raised[h] = kind => lost[h] > 0

\* An exception in the with-block of a handle leaves nothing of what was
\* written to it (database.rs:155-168, python.py:46-56), but for a close in
\* the block whose commit went unanswered.
InterruptedLeavesNothing == RaisedLeavesNothing("native")

\* An exception in the with-block of a deferred file discards it too
\* (docs/src/how-to-manage.md:53: "Exceptions before transaction completion
\* discard deferred buffers").
InterruptedDeferredLeavesNothing == RaisedLeavesNothing("deferred")

\* Files of a transaction reach the table in the order of their opening, none
\* before the transaction completes and none after one that failed.
DeferredInOrder ==
    \A i \in DOMAIN pending :
        applied[pending[i]] > 0 => transaction = "completing" /\ i = 1

=============================================================================
