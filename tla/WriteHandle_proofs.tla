------------------------- MODULE WriteHandle_proofs -------------------------
(***************************************************************************)
(* For any handles, payloads and number of closes: a handle is closed when *)
(* the database has its rows, once; the files of an fsspec transaction     *)
(* reach the database in their order and not before its end; and the table *)
(* changes by the whole content of one handle at a time.                   *)
(***************************************************************************)
EXTENDS WriteHandle, SequenceTheorems, WellFoundedInduction, TLAPS

-----------------------------------------------------------------------------
(***************************************************************************)
(* The inductive invariant.                                                *)
(***************************************************************************)

\* Inside write_bytes_to_database.
Busy(h) == step[h] \in {"check", "begin", "truncate", "batches"}

\* A close is one insert: nothing is inserted outside of it, it counts once
\* it has succeeded, and a file that waits for the end of the transaction
\* has inserted nothing.
OneInsert(h) ==
    /\ handle[h] \notin {"closing", "committing"} => ~Busy(h)
    /\ applied[h] = lost[h] +
          (IF \/ handle[h] = "closed"
              \/ handle[h] \in {"closing", "committing"} /\ step[h] = "ok"
           THEN 1 ELSE 0)
    /\ handle[h] \in {"new", "deferred", "left"} => applied[h] = 0

Deferred == {"deferred", "left", "committing"}

\* The files of the transaction are different ones, and wait, but for the
\* first one, which may be committing.
Queue ==
    /\ \A i, j \in DOMAIN pending : pending[i] = pending[j] => i = j
    /\ \A i \in DOMAIN pending : handle[pending[i]] \in Deferred
    /\ \A h \in Handles : handle[h] = "committing" =>
          transaction = "completing" /\ pending # << >> /\ h = pending[1]

IInv == TypeOK /\ Queue /\ \A h \in Handles : OneInsert(h)

-----------------------------------------------------------------------------
(***************************************************************************)
(* Types.                                                                  *)
(***************************************************************************)

\* What is uploaded is a part of what the user is to write.
LEMMA PartOfPayload ==
    ASSUME TypeOK, NEW h \in Handles
    PROVE  SubSeq(payload[h], 1, buffered[h]) \in Seq({"rows", "empty"})
<1>1. payload[h] \in Seq({"rows", "empty"}) /\ buffered[h] \in Nat
      /\ buffered[h] <= Len(payload[h])
  BY PayloadsAssumption DEF TypeOK
<1>2. Len(payload[h]) \in Nat
  BY <1>1, LenProperties
<1>3. \A i \in 1 .. buffered[h] : i \in 1 .. Len(payload[h])
  BY <1>1, <1>2
<1>4. \A i \in 1 .. buffered[h] : payload[h][i] \in {"rows", "empty"}
  BY <1>1, <1>3, ElementOfSeq
<1> QED
  BY <1>1, <1>4, SubSeqProperties

\* The insert keeps its types.
LEMMA InsertTypes ==
    ASSUME TypeOK, NEW h \in Handles,
           \/ UNCHANGED insertVars
           \/ Upload(h)
           \/ Insert!Proceed(h) \/ Insert!Commit(h) \/ Insert!CommitReplyLost(h)
    PROVE  Insert!TypeOK'
<1> USE DEF Insert!Goto
<1>0. Insert!TypeOK
  BY DEF TypeOK
<1>1. CASE UNCHANGED insertVars
  BY <1>0, <1>1 DEF insertVars, Insert!TypeOK
<1>2. CASE Upload(h)
  <2> DEFINE whole == [mode |-> mode[h], batches |-> SubSeq(payload[h], 1, buffered[h])]
  <2>1. whole \in Insert!Uploads
    BY PartOfPayload DEF TypeOK, Insert!Uploads, Insert!BatchKinds
  <2>2. /\ step[h] \in {"idle", "ok", "error"}
        /\ step' = [step EXCEPT ![h] = "check"]
        /\ upload' = [upload EXCEPT ![h] = whole]
        /\ UNCHANGED <<table, at, tx>>
    BY <1>2 DEF Upload, Insert!Start
  <2> HIDE DEF whole
  <2> QED
    BY <1>0, <2>1, <2>2 DEF Insert!TypeOK, Insert!Steps
<1>3. CASE Insert!Check(h) \/ Insert!Reject(h)
  BY <1>0, <1>3 DEF Insert!Check, Insert!Reject, Insert!TypeOK, Insert!Steps
<1>4. CASE Insert!Begin(h)
  <2> DEFINE new == [truncated |-> FALSE, rows |-> << >>]
  <2>1. new \in Insert!Transactions
    BY EmptySeq DEF Insert!Transactions
  <2>2. /\ step[h] = "begin"
        /\ step' = [step EXCEPT ![h] = IF upload[h].mode = "truncate"
                                       THEN "truncate" ELSE "batches"]
        /\ tx' = [tx EXCEPT ![h] = new]
        /\ at' = [at EXCEPT ![h] = 1]
        /\ UNCHANGED <<table, upload>>
    BY <1>4 DEF Insert!Begin
  <2> HIDE DEF new
  <2> QED
    BY <1>0, <2>1, <2>2 DEF Insert!TypeOK, Insert!Steps
<1>5. CASE Insert!Truncate(h)
  <2> DEFINE emptied == [tx[h] EXCEPT !.truncated = TRUE]
  <2>1. tx[h] \in Insert!Transactions
    BY <1>0, <1>5 DEF Insert!TypeOK, Insert!Truncate
  <2>2. emptied \in Insert!Transactions
    BY <2>1 DEF Insert!Transactions
  <2>3. /\ step[h] = "truncate" /\ step' = [step EXCEPT ![h] = "batches"]
        /\ tx' = [tx EXCEPT ![h] = emptied]
        /\ UNCHANGED <<table, upload, at>>
    BY <1>5 DEF Insert!Truncate
  <2> HIDE DEF emptied
  <2> QED
    BY <1>0, <2>2, <2>3 DEF Insert!TypeOK, Insert!Steps
<1>6. CASE Insert!InsertBatch(h)
  <2> DEFINE row == <<h, at[h]>>
             more == [tx[h] EXCEPT !.rows = Append(@, row)]
  <2>1. tx[h] \in Insert!Transactions
    BY <1>0, <1>6 DEF Insert!TypeOK, Insert!InsertBatch, Insert!More
  <2>2. row \in Insert!Rows
    BY <1>0 DEF Insert!TypeOK, Insert!Rows
  <2>3. Append(tx[h].rows, row) \in Seq(Insert!Rows)
    BY <2>1, <2>2, AppendProperties DEF Insert!Transactions
  <2>4. more \in Insert!Transactions
    BY <2>1, <2>3 DEF Insert!Transactions
  <2>5. /\ step[h] = "batches" /\ step' = step
        /\ tx' = [tx EXCEPT ![h] = more]
        /\ at' = [at EXCEPT ![h] = at[h] + 1]
        /\ UNCHANGED <<table, upload>>
    BY <1>6 DEF Insert!InsertBatch, Insert!More
  <2>6. at' \in [Handles -> Nat \ {0}]
    BY <1>0, <2>5 DEF Insert!TypeOK
  <2> HIDE DEF more
  <2> QED
    BY <1>0, <2>4, <2>5, <2>6 DEF Insert!TypeOK
<1>7. CASE Insert!SkipBatch(h)
  <2>1. at' \in [Handles -> Nat \ {0}]
    BY <1>0, <1>7 DEF Insert!TypeOK, Insert!SkipBatch
  <2> QED
    BY <1>0, <1>7, <2>1 DEF Insert!TypeOK, Insert!SkipBatch
<1>8. CASE Insert!Fail(h)
  BY <1>0, <1>8 DEF Insert!TypeOK, Insert!Fail, Insert!Steps
<1>9. CASE Insert!Commit(h) \/ Insert!CommitReplyLost(h)
  <2>1. step[h] = "batches" /\ Insert!Publish(h)
    BY <1>9 DEF Insert!Commit, Insert!CommitReplyLost
  <2>2. tx[h].rows \in Seq(Insert!Rows)
    BY <1>0, <2>1 DEF Insert!TypeOK, Insert!Transactions
  <2>3. table' \in Seq(Insert!Rows)
    <3>1. << >> \in Seq(Insert!Rows) /\ table \in Seq(Insert!Rows)
      BY <1>0, EmptySeq DEF Insert!TypeOK
    <3>2. table' = (IF tx[h].truncated THEN << >> ELSE table) \o tx[h].rows
      BY <2>1 DEF Insert!Publish
    <3> QED
      BY <2>2, <3>1, <3>2, ConcatProperties
  <2>4. \E s \in {"ok", "error"} : step' = [step EXCEPT ![h] = s]
    BY <1>9 DEF Insert!Commit, Insert!CommitReplyLost
  <2> QED
    BY <1>0, <2>1, <2>3, <2>4 DEF Insert!Publish, Insert!TypeOK, Insert!Steps
<1> QED
  BY <1>1, <1>2, <1>3, <1>4, <1>5, <1>6, <1>7, <1>8, <1>9 DEF Insert!Proceed

-----------------------------------------------------------------------------
(***************************************************************************)
(* A step of one handle leaves the others alone.                           *)
(***************************************************************************)

Untouched(g) ==
    /\ step'[g] = step[g] /\ handle'[g] = handle[g]
    /\ applied'[g] = applied[g] /\ lost'[g] = lost[g]

\* What the insert does to the steps.
LEMMA InsertSteps ==
    ASSUME TypeOK, NEW h \in Handles
    PROVE  /\ Upload(h) =>
                 /\ ~Busy(h) /\ step'[h] = "check"
                 /\ \A g \in Handles \ {h} : step'[g] = step[g]
           /\ Insert!Proceed(h) => Busy(h) /\ step'[h] \notin {"ok", "idle"}
           /\ Insert!Commit(h) => Busy(h) /\ step'[h] = "ok"
           /\ Insert!CommitReplyLost(h) => Busy(h) /\ step'[h] = "error"
           /\ Insert!Proceed(h) \/ Insert!Commit(h) \/ Insert!CommitReplyLost(h) =>
                 \A g \in Handles \ {h} : step'[g] = step[g]
<1>1. step \in [Handles -> Insert!Steps]
  BY DEF TypeOK, Insert!TypeOK
<1>2. Upload(h) =>
        /\ ~Busy(h) /\ step'[h] = "check"
        /\ \A g \in Handles \ {h} : step'[g] = step[g]
  BY <1>1 DEF Upload, Insert!Start, Busy
<1>3. Insert!Proceed(h) =>
        /\ Busy(h) /\ step'[h] \notin {"ok", "idle"}
        /\ \A g \in Handles \ {h} : step'[g] = step[g]
  BY <1>1 DEF Insert!Proceed, Insert!Goto, Insert!Check, Insert!Reject, Insert!Begin,
              Insert!Truncate, Insert!InsertBatch, Insert!SkipBatch, Insert!More, Insert!Fail, Busy
<1>4. Insert!Commit(h) \/ Insert!CommitReplyLost(h) =>
        /\ Busy(h)
        /\ \A g \in Handles \ {h} : step'[g] = step[g]
  BY <1>1 DEF Insert!Commit, Insert!CommitReplyLost, Insert!Goto, Busy
<1>5. /\ Insert!Commit(h) => step'[h] = "ok"
      /\ Insert!CommitReplyLost(h) => step'[h] = "error"
  BY <1>1 DEF Insert!Commit, Insert!CommitReplyLost, Insert!Goto
<1> QED
  BY <1>2, <1>3, <1>4, <1>5

\* One handle steps and the queue is as it was.
LEMMA StaysInQueue ==
    ASSUME TypeOK, Queue, NEW h \in Handles, UNCHANGED <<pending, transaction>>,
           \A g \in Handles \ {h} : handle'[g] = handle[g],
           handle[h] \in Deferred => handle'[h] \in Deferred,
           handle'[h] = "committing" =>
               transaction = "completing" /\ pending # << >> /\ h = pending[1]
    PROVE  Queue'
<1>1. \A i \in DOMAIN pending : pending[i] \in Handles
  BY DEF TypeOK
<1> QED
  BY <1>1 DEF Queue

LEMMA UntouchedKeeps ==
    ASSUME NEW g \in Handles, OneInsert(g), Untouched(g)
    PROVE  OneInsert(g)'
BY DEF OneInsert, Untouched, Busy

-----------------------------------------------------------------------------
(***************************************************************************)
(* The actions.                                                            *)
(***************************************************************************)

\* The steps between the opening of a handle and its close, and the close
\* itself, but for what a transaction does.
Quiet(h) ==
    Write(h) \/ Close(h) \/ Closed(h) \/ CloseFails(h) \/ Raise(h) \/ Forget(h) \/ CloseDeferred(h)

LEMMA QuietKeeps ==
    ASSUME IInv, NEW h \in Handles, Quiet(h)
    PROVE  IInv'
<1> USE DEF Goto, fixed
<1>0. TypeOK /\ Queue /\ OneInsert(h) /\ step \in [Handles -> Insert!Steps]
  BY DEF IInv, TypeOK, Insert!TypeOK
<1>1. UNCHANGED <<pending, transaction, applied, lost, mode, payload>>
  BY DEF Quiet, Write, Close, Closed, CloseFails, Raise, Forget, CloseDeferred
<1>2. UNCHANGED insertVars \/ (Close(h) /\ Upload(h))
  BY DEF Quiet, Write, Close, Closed, CloseFails, Raise, Forget, CloseDeferred
<1>3. Insert!TypeOK'
  BY <1>0, <1>2, InsertTypes
<1>4. TypeOK'
  <2>1. CASE Write(h)
    <3>1. buffered[h] \in Nat /\ buffered' = [buffered EXCEPT ![h] = @ + 1]
          /\ buffered[h] < Len(payload[h])
      BY <1>0, <2>1 DEF Write, TypeOK
    <3>2. Len(payload[h]) \in Nat
      BY <1>0, PayloadsAssumption, LenProperties DEF TypeOK
    <3>3. buffered[h] + 1 \in Nat /\ buffered[h] + 1 <= Len(payload[h])
      BY <3>1, <3>2
    <3>4. buffered' \in [Handles -> Nat] /\ \A g \in Handles : buffered'[g] <= Len(payload[g])
      BY <1>0, <3>1, <3>3 DEF TypeOK
    <3> QED
      BY <1>0, <1>1, <1>3, <2>1, <3>4 DEF Write, TypeOK
  <2>2. CASE Close(h)
    <3>1. attempts' \in [Handles -> 0 .. MaxAttempts]
      <4>1. attempts[h] \in 0 .. MaxAttempts /\ attempts[h] < MaxAttempts
        BY <1>0, <2>2 DEF Close, Upload, TypeOK
      <4>2. attempts[h] + 1 \in 0 .. MaxAttempts
        BY <4>1, MaxAttemptsAssumption
      <4> QED
        BY <1>0, <2>2, <4>2 DEF Close, Upload, TypeOK
    <3> QED
      BY <1>0, <1>1, <1>3, <2>2, <3>1 DEF Close, TypeOK
  <2>3. CASE Closed(h) \/ CloseFails(h) \/ Raise(h) \/ Forget(h) \/ CloseDeferred(h)
    BY <1>0, <1>1, <1>3, <2>3 DEF Closed, CloseFails, Raise, Forget, CloseDeferred, TypeOK
  <2> QED
    BY <2>1, <2>2, <2>3 DEF Quiet
<1>5. ASSUME NEW g \in Handles \ {h}
      PROVE  Untouched(g)
  <2>1. handle'[g] = handle[g]
    BY <1>0 DEF Quiet, Write, Close, Closed, CloseFails, Raise, Forget, CloseDeferred, TypeOK
  <2>2. step'[g] = step[g]
    BY <1>0, <1>2, InsertSteps DEF insertVars
  <2> QED
    BY <1>1, <2>1, <2>2 DEF Untouched
<1>6. /\ handle[h] \in Deferred => handle'[h] \in Deferred
      /\ handle'[h] = "committing" => handle[h] = "committing"
  BY <1>0 DEF Quiet, Write, Close, Closed, CloseFails, Raise, Forget, CloseDeferred, TypeOK,
              Deferred
<1>7. Queue'
  BY <1>0, <1>1, <1>5, <1>6, StaysInQueue DEF Untouched, Queue
<1>8. OneInsert(h)'
  <2>1. CASE Close(h)
    <3>1. handle[h] = "open" /\ handle'[h] = "closing" /\ step'[h] = "check"
      BY <1>0, <2>1, InsertSteps DEF Close, TypeOK
    <3> QED
      BY <1>0, <1>1, <3>1 DEF OneInsert, Busy
  <2>2. CASE ~Close(h)
    <3>1. step' = step
      BY <1>2, <2>2 DEF insertVars
    <3>2. CASE Write(h)
      BY <1>0, <1>1, <3>1, <3>2 DEF Write, OneInsert, Busy
    <3>3. CASE Closed(h)
      <4>1. handle[h] = "closing" /\ handle'[h] = "closed" /\ step[h] = "ok"
        BY <1>0, <3>3 DEF Closed, TypeOK
      <4> QED
        BY <1>0, <1>1, <3>1, <4>1 DEF OneInsert, Busy
    <3>4. CASE CloseFails(h)
      <4>1. handle[h] = "closing" /\ handle'[h] = "open" /\ step[h] = "error"
        BY <1>0, <3>4 DEF CloseFails, TypeOK
      <4> QED
        BY <1>0, <1>1, <3>1, <4>1 DEF OneInsert, Busy
    <3>5. CASE Raise(h) \/ Forget(h) \/ CloseDeferred(h)
      <4>1. \/ handle[h] = "open" /\ handle'[h] = "discarded"
            \/ handle[h] = "deferred" /\ handle'[h] = "left"
        BY <1>0, <3>5 DEF Raise, Forget, CloseDeferred, TypeOK
      <4> QED
        BY <1>0, <1>1, <3>1, <4>1 DEF OneInsert, Busy
    <3> QED
      BY <2>2, <3>2, <3>3, <3>4, <3>5 DEF Quiet
  <2> QED
    BY <2>1, <2>2
<1> QED
  BY <1>4, <1>5, <1>7, <1>8, UntouchedKeeps DEF IInv

\* A file opened in a transaction is the last of its queue.
LEMMA OpenKeeps ==
    ASSUME IInv, NEW h \in Handles, Open(h)
    PROVE  IInv'
<1> USE DEF Goto, fixed
<1>0. TypeOK /\ Queue /\ pending \in Seq(Handles)
  BY DEF IInv, TypeOK
<1>1. /\ handle[h] = "new" /\ handle'[h] \in {"open", "deferred"}
      /\ \A g \in Handles \ {h} : handle'[g] = handle[g]
      /\ UNCHANGED <<insertVars, mode, payload, buffered, transaction, attempts, applied, lost,
                     raised>>
  BY <1>0 DEF Open, TypeOK
<1>2. pending' \in Seq(Handles) /\ handle' \in [Handles -> {"new", "open", "closing", "closed",
          "discarded", "deferred", "left", "committing"}]
  <2>1. Append(pending, h) \in Seq(Handles)
    BY <1>0, AppendProperties
  <2> QED
    BY <1>0, <2>1 DEF Open, TypeOK
<1>3. Insert!TypeOK'
  BY <1>0, <1>1, InsertTypes
<1>4. TypeOK'
  BY <1>0, <1>1, <1>2, <1>3 DEF TypeOK
<1>5. OneInsert(h)'
  BY <1>1 DEF IInv, OneInsert, Busy, insertVars
<1>6. \A g \in Handles \ {h} : Untouched(g)
  BY <1>1 DEF Untouched, insertVars
<1>7. Queue'
  <2>1. CASE pending' = pending
    BY <1>0, <1>1, <2>1, StaysInQueue DEF Deferred
  <2>2. CASE pending' = Append(pending, h) /\ handle'[h] = "deferred"
    <3>1. /\ Len(pending) \in Nat /\ DOMAIN pending = 1 .. Len(pending)
          /\ DOMAIN pending' = 1 .. Len(pending) + 1
          /\ \A i \in DOMAIN pending : pending'[i] = pending[i] /\ pending[i] \in Handles
          /\ pending'[Len(pending) + 1] = h
      BY <1>0, <2>2, AppendProperties, LenProperties
    <3>2. \A i \in DOMAIN pending : pending[i] # h /\ handle[pending[i]] \in Deferred
      BY <1>0, <1>1 DEF Queue, Deferred
    <3>3. ASSUME NEW i \in DOMAIN pending'
          PROVE  i \in DOMAIN pending \/ i = Len(pending) + 1
      BY <3>1
    <3>4. \A i, j \in DOMAIN pending' : pending'[i] = pending'[j] => i = j
      BY <1>0, <3>1, <3>2, <3>3 DEF Queue
    <3>5. \A i \in DOMAIN pending' : handle'[pending'[i]] \in Deferred
      BY <1>1, <2>2, <3>1, <3>2, <3>3 DEF Deferred
    <3>6. ASSUME NEW g \in Handles, handle'[g] = "committing"
          PROVE  transaction' = "completing" /\ pending' # << >> /\ g = pending'[1]
      BY <1>0, <1>1, <2>2, <3>6 DEF Open, Queue
    <3> QED
      BY <3>4, <3>5, <3>6 DEF Queue
  <2> QED
    BY <1>0, <2>1, <2>2 DEF Open, TypeOK
<1> QED
  BY <1>4, <1>5, <1>6, <1>7, UntouchedKeeps DEF IInv

\* The insert goes on, and counts when the database has committed it.
LEMMA ExecuteKeeps ==
    ASSUME IInv, NEW h \in Handles, Execute(h)
    PROVE  IInv'
<1>0. TypeOK /\ Queue /\ OneInsert(h)
  BY DEF IInv
<1>1. /\ UNCHANGED <<mode, payload, buffered, handle, pending, transaction, attempts, raised>>
      /\ applied' \in [Handles -> Nat] /\ lost' \in [Handles -> Nat]
      /\ \A g \in Handles \ {h} : applied'[g] = applied[g] /\ lost'[g] = lost[g]
  <2>1. UNCHANGED <<mode, payload, buffered, handle, pending, transaction, attempts, raised>>
    BY DEF Execute, fixed
  <2>2. \/ UNCHANGED <<applied, lost>>
        \/ applied' = [applied EXCEPT ![h] = @ + 1] /\ UNCHANGED lost
        \/ applied' = [applied EXCEPT ![h] = @ + 1] /\ lost' = [lost EXCEPT ![h] = @ + 1]
    BY DEF Execute
  <2>3. applied \in [Handles -> Nat] /\ lost \in [Handles -> Nat]
    BY <1>0 DEF TypeOK
  <2>4. applied[h] + 1 \in Nat /\ lost[h] + 1 \in Nat
    BY <2>3
  <2>5. applied' \in [Handles -> Nat] /\ lost' \in [Handles -> Nat]
    BY <2>2, <2>3, <2>4
  <2>6. \A g \in Handles \ {h} : applied'[g] = applied[g] /\ lost'[g] = lost[g]
    BY <2>2, <2>3
  <2> QED
    BY <2>1, <2>5, <2>6
<1>2. Insert!TypeOK'
  BY <1>0, InsertTypes DEF Execute
<1>3. TypeOK'
  BY <1>0, <1>1, <1>2 DEF TypeOK
<1>4. \A g \in Handles \ {h} : Untouched(g)
  BY <1>0, <1>1, InsertSteps DEF Execute, Untouched
<1>5. Queue'
  BY <1>0, <1>1 DEF Queue
<1>6. applied[h] \in Nat /\ lost[h] \in Nat
  BY <1>0 DEF TypeOK
<1>7. handle[h] \in {"closing", "committing"} /\ step[h] # "ok" /\ applied[h] = lost[h]
  <2>1. Busy(h)
    BY <1>0, InsertSteps DEF Execute
  <2>2. handle[h] \in {"closing", "committing"} /\ step[h] # "ok"
    BY <1>0, <2>1 DEF OneInsert, Busy
  <2>3. applied[h] = lost[h] + 0
    BY <1>0, <2>2 DEF OneInsert
  <2> QED
    BY <1>6, <2>2, <2>3
<1>8. applied'[h] = lost'[h] + (IF step'[h] = "ok" THEN 1 ELSE 0)
  <2>1. CASE Insert!Proceed(h) /\ UNCHANGED <<applied, lost>>
    BY <1>0, <1>6, <1>7, <2>1, InsertSteps
  <2>2. CASE /\ Insert!Commit(h)
             /\ applied' = [applied EXCEPT ![h] = @ + 1]
             /\ UNCHANGED lost
    <3>1. step'[h] = "ok" /\ applied'[h] = applied[h] + 1 /\ lost'[h] = lost[h]
      BY <1>0, <2>2, InsertSteps DEF TypeOK
    <3> QED
      BY <1>6, <1>7, <3>1
  <2>3. CASE /\ Insert!CommitReplyLost(h)
             /\ applied' = [applied EXCEPT ![h] = @ + 1]
             /\ lost' = [lost EXCEPT ![h] = @ + 1]
    <3>1. step'[h] = "error" /\ applied'[h] = applied[h] + 1 /\ lost'[h] = lost[h] + 1
      BY <1>0, <2>3, InsertSteps DEF TypeOK
    <3> QED
      BY <1>6, <1>7, <3>1
  <2> QED
    BY <2>1, <2>2, <2>3 DEF Execute
<1>9. OneInsert(h)'
  BY <1>1, <1>7, <1>8 DEF OneInsert
<1> QED
  BY <1>3, <1>4, <1>5, <1>9, UntouchedKeeps DEF IInv

\* The first file of the queue is committed.
LEMMA CommitFileKeeps ==
    ASSUME IInv, NEW h \in Handles, CommitFile(h)
    PROVE  IInv'
<1>0. TypeOK /\ Queue /\ OneInsert(h) /\ pending \in Seq(Handles)
  BY DEF IInv, TypeOK
<1>1. /\ transaction = "completing" /\ pending # << >> /\ h = pending[1]
      /\ handle[h] \in {"left", "deferred"} /\ handle' = [handle EXCEPT ![h] = "committing"]
      /\ UNCHANGED <<mode, payload, buffered, pending, transaction, applied, lost, raised>>
      /\ Upload(h)
  BY <1>0 DEF CommitFile, Goto, fixed
<1>2. Insert!TypeOK'
  BY <1>0, <1>1, InsertTypes
<1>3. attempts' \in [Handles -> 0 .. MaxAttempts]
  <2>1. attempts[h] \in 0 .. MaxAttempts /\ attempts[h] < MaxAttempts
    BY <1>0, <1>1 DEF Upload, TypeOK
  <2>2. attempts[h] + 1 \in 0 .. MaxAttempts
    BY <2>1, MaxAttemptsAssumption
  <2> QED
    BY <1>0, <1>1, <2>2 DEF Upload, TypeOK
<1>4. TypeOK'
  BY <1>0, <1>1, <1>2, <1>3 DEF TypeOK
<1>5. handle'[h] = "committing" /\ \A g \in Handles \ {h} : handle'[g] = handle[g]
  BY <1>0, <1>1 DEF TypeOK
<1>6. Queue'
  BY <1>0, <1>1, <1>5, StaysInQueue DEF Deferred
<1>7. step'[h] = "check" /\ \A g \in Handles \ {h} : step'[g] = step[g]
  BY <1>0, <1>1, InsertSteps
<1>8. OneInsert(h)'
  BY <1>0, <1>1, <1>5, <1>7 DEF OneInsert, Busy
<1>9. \A g \in Handles \ {h} : Untouched(g)
  BY <1>1, <1>5, <1>7 DEF Untouched
<1> QED
  BY <1>4, <1>6, <1>8, <1>9, UntouchedKeeps DEF IInv

\* It is committed, and leaves the queue.
LEMMA CommittedKeeps ==
    ASSUME IInv, NEW h \in Handles, Committed(h)
    PROVE  IInv'
<1>0. TypeOK /\ Queue /\ OneInsert(h) /\ pending \in Seq(Handles)
  BY DEF IInv, TypeOK
<1>1. /\ handle[h] = "committing" /\ step[h] = "ok" /\ pending' = Tail(pending)
      /\ handle' = [handle EXCEPT ![h] = "closed"]
      /\ transaction' = IF Tail(pending) = << >> THEN "none" ELSE "completing"
      /\ UNCHANGED <<insertVars, mode, payload, buffered, attempts, applied, lost, raised>>
  BY DEF Committed, Goto, fixed
<1>2. pending # << >> /\ h = pending[1]
  BY <1>0, <1>1 DEF Queue
<1>3. handle'[h] = "closed" /\ \A g \in Handles \ {h} : handle'[g] = handle[g]
  BY <1>0, <1>1 DEF TypeOK
<1>4. /\ Tail(pending) \in Seq(Handles)
      /\ Len(pending) \in Nat \ {0} /\ DOMAIN pending = 1 .. Len(pending)
      /\ DOMAIN pending' = 1 .. Len(pending) - 1
      /\ \A i \in DOMAIN pending' : pending'[i] = pending[i + 1]
  <2>1. /\ Tail(pending) \in Seq(Handles) /\ Len(Tail(pending)) = Len(pending) - 1
        /\ \A i \in 1 .. Len(Tail(pending)) : Tail(pending)[i] = pending[i + 1]
    BY <1>0, <1>2, HeadTailProperties
  <2>2. Len(pending) \in Nat \ {0} /\ DOMAIN pending = 1 .. Len(pending)
    BY <1>0, <1>2, EmptySeq, LenProperties
  <2>3. DOMAIN pending' = 1 .. Len(Tail(pending))
    BY <1>1, <2>1, LenProperties
  <2> QED
    BY <1>1, <2>1, <2>2, <2>3
<1>5. Insert!TypeOK'
  BY <1>0, <1>1, InsertTypes
<1>6. TypeOK'
  BY <1>0, <1>1, <1>4, <1>5 DEF TypeOK
<1>7. ASSUME NEW i \in DOMAIN pending'
      PROVE  i + 1 \in DOMAIN pending /\ 1 \in DOMAIN pending /\ i + 1 # 1 /\ pending[i + 1] # h
             /\ pending[i + 1] \in Handles
  <2>1. i + 1 \in DOMAIN pending /\ 1 \in DOMAIN pending /\ i + 1 # 1
    BY <1>4
  <2>2. pending[i + 1] # h
    BY <1>0, <1>2, <2>1 DEF Queue
  <2>3. pending[i + 1] \in Handles
    BY <1>0, <1>4, <2>1, ElementOfSeq
  <2> QED
    BY <2>1, <2>2, <2>3
<1>8. \A i, j \in DOMAIN pending' : pending'[i] = pending'[j] => i = j
  <2> SUFFICES ASSUME NEW i \in DOMAIN pending', NEW j \in DOMAIN pending',
                      pending'[i] = pending'[j]
               PROVE  i = j
    OBVIOUS
  <2>1. pending[i + 1] = pending[j + 1]
    BY <1>4
  <2>2. i + 1 = j + 1
    BY <1>0, <1>7, <2>1 DEF Queue
  <2>3. i \in Int /\ j \in Int
    BY <1>4
  <2> QED
    BY <2>2, <2>3
<1>9. \A i \in DOMAIN pending' : handle'[pending'[i]] \in Deferred
  BY <1>0, <1>3, <1>4, <1>7 DEF Queue
<1>10. ASSUME NEW g \in Handles
       PROVE  handle'[g] # "committing"
  BY <1>0, <1>1, <1>2, <1>3 DEF Queue
<1>11. Queue'
  BY <1>8, <1>9, <1>10 DEF Queue
<1>12. OneInsert(h)'
  BY <1>0, <1>1, <1>3 DEF OneInsert, Busy, insertVars
<1>13. \A g \in Handles \ {h} : Untouched(g)
  BY <1>1, <1>3 DEF Untouched, insertVars
<1> QED
  BY <1>6, <1>11, <1>12, <1>13, UntouchedKeeps DEF IInv

\* The files of the queue are given up, all of them; the one that was being
\* committed has failed.
LEMMA DiscardKeeps ==
    ASSUME IInv,
           UNCHANGED <<insertVars, mode, payload, buffered, attempts, applied, lost, raised>>,
           handle' = [h \in Handles |->
                         IF h \in ToSet(pending) THEN "discarded" ELSE handle[h]],
           pending' = << >>, transaction' = "none",
           \A h \in Handles : handle[h] = "committing" => step[h] = "error"
    PROVE  IInv'
<1>0. TypeOK /\ Queue
  BY DEF IInv
<1>1. Insert!TypeOK'
  <2>1. Insert!TypeOK
    BY <1>0 DEF TypeOK
  <2> QED
    BY <2>1 DEF Insert!TypeOK, insertVars
<1>2. TypeOK'
  BY <1>0, <1>1, EmptySeq DEF TypeOK
<1>3. ASSUME NEW h \in Handles
      PROVE  handle'[h] # "committing"
  <2>1. CASE h \in ToSet(pending)
    BY <2>1
  <2>2. CASE h \notin ToSet(pending)
    <3>1. pending # << >> => pending[1] \in ToSet(pending)
      <4>1. pending # << >> => 1 \in DOMAIN pending
        <5>1. pending \in Seq(Handles)
          BY <1>0 DEF TypeOK
        <5> QED
          BY <5>1
      <4> QED
        BY <4>1 DEF ToSet
    <3> QED
      BY <1>0, <2>2, <3>1 DEF Queue
  <2> QED
    BY <2>1, <2>2
<1>4. Queue'
  BY <1>3 DEF Queue
<1>5. ASSUME NEW h \in Handles
      PROVE  OneInsert(h)'
  <2>1. CASE h \in ToSet(pending)
    <3>1. handle[h] \in Deferred
      BY <1>0, <2>1 DEF Queue, ToSet
    <3> QED
      BY <2>1, <3>1 DEF IInv, OneInsert, Busy, Deferred, insertVars
  <2>2. CASE h \notin ToSet(pending)
    BY <2>2, UntouchedKeeps DEF IInv, Untouched, insertVars
  <2> QED
    BY <2>1, <2>2
<1> QED
  BY <1>2, <1>4, <1>5 DEF IInv

\* The transaction of the filesystem.
LEMMA TransactionKeeps ==
    ASSUME IInv,
           \/ StartTransaction \/ CompleteTransaction \/ AbortTransaction
           \/ \E h \in Handles : CommitFails(h)
    PROVE  IInv'
<1>0. TypeOK /\ Queue
  BY DEF IInv
<1>1. CASE StartTransaction \/ CompleteTransaction
  <2>1. /\ UNCHANGED <<insertVars, mode, payload, buffered, handle, attempts, applied, lost, raised>>
        /\ pending' = pending \/ pending' = << >>
        /\ transaction # "completing" /\ transaction' \in {"none", "open", "completing"}
    BY <1>1 DEF StartTransaction, CompleteTransaction, fixed
  <2>2. Insert!TypeOK'
    <3>1. Insert!TypeOK
      BY <1>0 DEF TypeOK
    <3> QED
      BY <2>1, <3>1 DEF Insert!TypeOK, insertVars
  <2>3. TypeOK'
    BY <1>0, <2>1, <2>2, EmptySeq DEF TypeOK
  <2>4. Queue'
    BY <1>0, <2>1 DEF Queue
  <2>5. \A h \in Handles : OneInsert(h)'
    BY <2>1, UntouchedKeeps DEF IInv, Untouched, insertVars
  <2> QED
    BY <2>3, <2>4, <2>5 DEF IInv
<1>2. CASE AbortTransaction
  <2>1. \A h \in Handles : handle[h] # "committing"
    BY <1>0, <1>2 DEF AbortTransaction, Queue
  <2> QED
    BY <1>2, <2>1, DiscardKeeps DEF AbortTransaction, fixed
<1>3. ASSUME NEW h \in Handles, CommitFails(h)
      PROVE  IInv'
  <2>1. ASSUME NEW g \in Handles, handle[g] = "committing"
        PROVE  step[g] = "error"
    BY <1>0, <1>3, <2>1 DEF CommitFails, Queue
  <2> QED
    BY <1>3, <2>1, DiscardKeeps DEF CommitFails, fixed
<1> QED
  BY <1>1, <1>2, <1>3

-----------------------------------------------------------------------------
(***************************************************************************)
(* The theorems.                                                           *)
(***************************************************************************)

LEMMA InitIInv == Init => IInv
<1> SUFFICES ASSUME Init
             PROVE  IInv
  OBVIOUS
<1>1. Insert!TypeOK
  <2>1. << >> \in Seq(Insert!Rows)
    BY EmptySeq
  <2> QED
    BY <2>1 DEF Init, Insert!Init, Insert!TypeOK, Insert!Steps
<1>2. TypeOK
  <2>1. << >> \in Seq(Handles)
    BY EmptySeq
  <2>2. \A h \in Handles : buffered[h] <= Len(payload[h])
    <3> SUFFICES ASSUME NEW h \in Handles
                 PROVE  buffered[h] <= Len(payload[h])
      OBVIOUS
    <3>1. payload[h] \in Seq({"rows", "empty"}) /\ buffered[h] = 0
      BY PayloadsAssumption DEF Init
    <3>2. Len(payload[h]) \in Nat
      BY <3>1, LenProperties
    <3> QED
      BY <3>1, <3>2
  <2> QED
    BY <1>1, <2>1, <2>2, MaxAttemptsAssumption DEF Init, TypeOK
<1>3. Queue
  BY DEF Init, Queue
<1>4. \A h \in Handles : OneInsert(h)
  BY DEF Init, Insert!Init, OneInsert, Busy
<1> QED
  BY <1>2, <1>3, <1>4 DEF IInv

LEMMA StepKeepsIInv == IInv /\ [Next]_vars => IInv'
<1> SUFFICES ASSUME IInv, [Next]_vars
             PROVE  IInv'
  OBVIOUS
<1>1. CASE UNCHANGED vars
  <2>1. Insert!TypeOK'
    <3>1. Insert!TypeOK
      BY DEF IInv, TypeOK
    <3> QED
      BY <1>1, <3>1 DEF Insert!TypeOK, insertVars, vars
  <2>2. TypeOK' /\ Queue'
    BY <1>1, <2>1 DEF IInv, TypeOK, Queue, vars
  <2>3. \A h \in Handles : OneInsert(h)'
    BY <1>1, UntouchedKeeps DEF IInv, Untouched, insertVars, vars
  <2> QED
    BY <2>2, <2>3 DEF IInv
<1>2. ASSUME NEW h \in Handles, Step(h)
      PROVE  IInv'
  BY <1>2, QuietKeeps, OpenKeeps, ExecuteKeeps, CommitFileKeeps, CommittedKeeps, TransactionKeeps
     DEF Step, Quiet
<1> QED
  BY <1>1, <1>2, TransactionKeeps DEF Next

THEOREM Invariance == Spec => []IInv
BY InitIInv, StepKeepsIInv, PTL DEF Spec

\* Handles, the queue of the transaction and the inserts hold what they may,
\* and a transaction of the database is open only inside an insert.
THEOREM TypeCorrect == Spec => []TypeOK
<1>1. IInv => TypeOK
  BY DEF IInv
<1> QED
  BY <1>1, Invariance, PTL

\* Outside of its close a handle has been inserted once if it is closed and
\* not at all otherwise, but for the commits that were not answered.
THEOREM ClosedOnce == Spec => []AppliedOnceClosed
<1>1. IInv => AppliedOnceClosed
  BY DEF IInv, OneInsert, AppliedOnceClosed
<1> QED
  BY <1>1, Invariance, PTL

\* Of the files a transaction still has, only the first can have reached the
\* table, and only when the transaction completes.
THEOREM TransactionInOrder == Spec => []DeferredInOrder
<1>1. ASSUME IInv
      PROVE  DeferredInOrder
  <2> SUFFICES ASSUME NEW i \in DOMAIN pending, applied[pending[i]] > 0
               PROVE  transaction = "completing" /\ i = 1
    BY DEF DeferredInOrder
  <2>1. pending[i] \in Handles /\ 1 \in DOMAIN pending
    <3>1. pending \in Seq(Handles)
      BY <1>1 DEF IInv, TypeOK
    <3> QED
      BY <3>1
  <2>2. handle[pending[i]] \in Deferred
    BY <1>1 DEF IInv, Queue
  <2>3. applied[pending[i]] # 0
    BY <1>1, <2>1 DEF IInv, TypeOK
  <2>4. handle[pending[i]] = "committing"
    BY <1>1, <2>1, <2>2, <2>3 DEF IInv, OneInsert, Deferred
  <2> QED
    BY <1>1, <2>1, <2>4 DEF IInv, Queue
<1> QED
  BY <1>1, Invariance, PTL

-----------------------------------------------------------------------------
(***************************************************************************)
(* An interrupted handle.  A transaction of the database has rows of its   *)
(* own handle only, the rows of the table are of inserts the database has  *)
(* committed, and what a with-block has interrupted stays discarded.       *)
(***************************************************************************)

HasOwnRows(h) == \A i \in DOMAIN tx[h].rows : tx[h].rows[i][1] = h
OwnRows == \A h \in Handles : step[h] \in {"truncate", "batches"} => HasOwnRows(h)
RowsApplied == \A i \in DOMAIN table : applied[table[i][1]] > 0
StaysDiscarded == \A h \in Handles : raised[h] = "native" => handle[h] = "discarded"

RInv == OwnRows /\ RowsApplied /\ StaysDiscarded

\* No insert is executed.
LEMMA RowsStay ==
    ASSUME IInv, RInv, UNCHANGED <<table, tx, applied>>,
           \A h \in Handles : step'[h] \in {"truncate", "batches"} => step'[h] = step[h]
    PROVE  OwnRows' /\ RowsApplied'
BY DEF RInv, OwnRows, HasOwnRows, RowsApplied

\* The insert collects its rows.
LEMMA ProceedKeepsRows ==
    ASSUME IInv, RInv, NEW h \in Handles, Insert!Proceed(h), UNCHANGED applied
    PROVE  OwnRows' /\ RowsApplied'
<1> USE DEF Insert!Goto
<1>0. Insert!TypeOK
  BY DEF IInv, TypeOK
<1>1. table' = table /\ \A g \in Handles \ {h} : tx'[g] = tx[g] /\ step'[g] = step[g]
  BY <1>0 DEF Insert!Proceed, Insert!Check, Insert!Reject, Insert!Begin, Insert!Truncate,
              Insert!InsertBatch, Insert!SkipBatch, Insert!Fail, Insert!TypeOK
<1>2. step'[h] \in {"truncate", "batches"} => HasOwnRows(h)'
  <2>1. CASE Insert!Check(h) \/ Insert!Reject(h) \/ Insert!Fail(h)
    BY <1>0, <2>1 DEF Insert!Check, Insert!Reject, Insert!Fail, Insert!TypeOK
  <2>2. CASE Insert!Begin(h)
    <3>1. tx'[h].rows = << >>
      BY <1>0, <2>2 DEF Insert!Begin, Insert!TypeOK
    <3> QED
      BY <3>1 DEF HasOwnRows
  <2>3. CASE Insert!Truncate(h)
    <3>1. tx[h] \in Insert!Transactions /\ step[h] = "truncate"
      BY <1>0, <2>3 DEF Insert!Truncate, Insert!TypeOK
    <3>2. tx'[h].rows = tx[h].rows
      BY <1>0, <2>3, <3>1 DEF Insert!Truncate, Insert!TypeOK, Insert!Transactions
    <3> QED
      BY <3>1, <3>2 DEF RInv, OwnRows, HasOwnRows
  <2>4. CASE Insert!InsertBatch(h)
    <3>1. tx[h] \in Insert!Transactions /\ step[h] = "batches"
      BY <1>0, <2>4 DEF Insert!InsertBatch, Insert!More, Insert!TypeOK
    <3>2. tx'[h].rows = Append(tx[h].rows, <<h, at[h]>>) /\ tx[h].rows \in Seq(Insert!Rows)
      BY <1>0, <2>4, <3>1 DEF Insert!InsertBatch, Insert!TypeOK, Insert!Transactions
    <3>3. \A i \in DOMAIN tx[h].rows : tx[h].rows[i][1] = h
      BY <3>1 DEF RInv, OwnRows, HasOwnRows
    <3>4. ASSUME NEW i \in DOMAIN tx'[h].rows
          PROVE  tx'[h].rows[i][1] = h
      <4>1. <<h, at[h]>> \in Insert!Rows
        BY <1>0 DEF Insert!TypeOK, Insert!Rows
      <4>2. /\ i \in DOMAIN tx[h].rows => tx'[h].rows[i] = tx[h].rows[i]
            /\ i \notin DOMAIN tx[h].rows => tx'[h].rows[i] = <<h, at[h]>>
        BY <3>2, <4>1, AppendProperties, LenProperties
      <4> QED
        BY <3>3, <4>2
    <3> QED
      BY <3>4 DEF HasOwnRows
  <2>5. CASE Insert!SkipBatch(h)
    BY <2>5 DEF Insert!SkipBatch, Insert!More, RInv, OwnRows, HasOwnRows
  <2> QED
    BY <2>1, <2>2, <2>3, <2>4, <2>5 DEF Insert!Proceed
<1>3. OwnRows'
  BY <1>1, <1>2 DEF RInv, OwnRows, HasOwnRows
<1> QED
  BY <1>1, <1>3 DEF RInv, RowsApplied

\* The rows that come into the table are those of the insert that counts.
LEMMA CommitKeepsRows ==
    ASSUME IInv, RInv, NEW h \in Handles, Insert!Commit(h) \/ Insert!CommitReplyLost(h),
           applied' = [applied EXCEPT ![h] = @ + 1]
    PROVE  OwnRows' /\ RowsApplied'
<1> USE DEF Insert!Goto
<1>0. Insert!TypeOK /\ applied \in [Handles -> Nat]
  BY DEF IInv, TypeOK
<1>1. /\ step[h] = "batches" /\ step'[h] \in {"ok", "error"}
      /\ \A g \in Handles \ {h} : tx'[g] = tx[g] /\ step'[g] = step[g]
      /\ table' = (IF tx[h].truncated THEN << >> ELSE table) \o tx[h].rows
  BY <1>0 DEF Insert!Commit, Insert!CommitReplyLost, Insert!Publish, Insert!TypeOK
<1>2. OwnRows'
  BY <1>1 DEF RInv, OwnRows, HasOwnRows
<1>3. tx[h].rows \in Seq(Insert!Rows) /\ table \in Seq(Insert!Rows) /\ HasOwnRows(h)
  BY <1>0, <1>1 DEF Insert!TypeOK, Insert!Transactions, RInv, OwnRows
<1>4. \A g \in Handles : applied[g] \in Nat /\ applied'[g] >= applied[g]
  BY <1>0
<1>5. applied'[h] > 0
  BY <1>0
<1> DEFINE old == IF tx[h].truncated THEN << >> ELSE table
<1>6. /\ old \in Seq(Insert!Rows) /\ table' = old \o tx[h].rows
      /\ \A i \in DOMAIN old : applied[old[i][1]] > 0
  <2>1. CASE tx[h].truncated
    <3>1. old = << >>
      BY <2>1
    <3>2. << >> \in Seq(Insert!Rows)
      BY EmptySeq
    <3>3. \A i \in DOMAIN << >> : applied[<< >>[i][1]] > 0
      OBVIOUS
    <3>4. table' = old \o tx[h].rows
      BY <1>1
    <3> HIDE DEF old
    <3> QED
      BY <3>1, <3>2, <3>3, <3>4
  <2>2. CASE ~tx[h].truncated
    <3>1. old = table
      BY <2>2
    <3> QED
      BY <1>1, <1>3, <3>1 DEF RInv, RowsApplied
  <2> QED
    BY <2>1, <2>2
<1> HIDE DEF old
<1>7. RowsApplied'
  <2> SUFFICES ASSUME NEW i \in DOMAIN table'
               PROVE  applied'[table'[i][1]] > 0
    BY DEF RowsApplied
  <2>1. /\ Len(old) \in Nat /\ Len(tx[h].rows) \in Nat
        /\ DOMAIN old = 1 .. Len(old) /\ DOMAIN tx[h].rows = 1 .. Len(tx[h].rows)
        /\ DOMAIN table' = 1 .. Len(old) + Len(tx[h].rows)
        /\ table'[i] = IF i <= Len(old) THEN old[i] ELSE tx[h].rows[i - Len(old)]
    BY <1>3, <1>6, LenProperties, ConcatProperties
  <2>2. CASE i <= Len(old)
    <3>1. i \in DOMAIN old /\ table'[i] = old[i]
      BY <2>1, <2>2
    <3>2. old[i][1] \in Handles
      BY <1>6, <2>1, <3>1, ElementOfSeq DEF Insert!Rows
    <3>3. applied[old[i][1]] \in Nat /\ applied[old[i][1]] > 0
          /\ applied'[old[i][1]] >= applied[old[i][1]] /\ applied'[old[i][1]] \in Nat
      BY <1>0, <1>4, <1>6, <3>1, <3>2
    <3>4. applied'[old[i][1]] > 0
      BY <3>3
    <3> QED
      BY <3>1, <3>4
  <2>3. CASE ~(i <= Len(old))
    <3>1. i - Len(old) \in DOMAIN tx[h].rows /\ table'[i] = tx[h].rows[i - Len(old)]
      BY <2>1, <2>3
    <3>2. table'[i][1] = h
      BY <1>3, <3>1 DEF HasOwnRows
    <3> QED
      BY <1>5, <3>2
  <2> QED
    BY <2>2, <2>3
<1> QED
  BY <1>2, <1>7

LEMMA StepKeepsRInv == IInv /\ RInv /\ [Next]_vars => RInv'
<1> SUFFICES ASSUME IInv, RInv, [Next]_vars
             PROVE  RInv'
  OBVIOUS
<1> USE DEF Goto
<1>0. TypeOK /\ step \in [Handles -> Insert!Steps]
  BY DEF IInv, TypeOK, Insert!TypeOK
<1>1. CASE UNCHANGED vars
  BY <1>1 DEF vars, insertVars, RInv, OwnRows, HasOwnRows, RowsApplied, StaysDiscarded
<1>2. ASSUME NEW h \in Handles, Execute(h)
      PROVE  RInv'
  <2>1. OwnRows' /\ RowsApplied'
    BY <1>2, ProceedKeepsRows, CommitKeepsRows DEF Execute
  <2> QED
    BY <1>2, <2>1 DEF Execute, RInv, StaysDiscarded
<1>3. ASSUME NEW h \in Handles, Step(h), ~Execute(h)
      PROVE  RInv'
  <2>1. UNCHANGED <<table, tx, applied>> /\ (step' = step \/ step' = [step EXCEPT ![h] = "check"])
    BY <1>3 DEF Step, Open, Write, Close, Closed, CloseFails, Raise, Forget, CloseDeferred,
                CommitFile, Committed, CommitFails, Upload, Insert!Start, insertVars
  <2>2. OwnRows' /\ RowsApplied'
    BY <1>0, <2>1, RowsStay
  <2>3. StaysDiscarded'
    <3> SUFFICES ASSUME NEW g \in Handles, raised'[g] = "native"
                 PROVE  handle'[g] = "discarded"
      BY DEF StaysDiscarded
    <3>1. CASE raised[g] = "native"
      <4>1. handle[g] = "discarded"
        BY <3>1 DEF RInv, StaysDiscarded
      <4> QED
        BY <1>0, <1>3, <4>1
           DEF Step, Open, Write, Close, Closed, CloseFails, Raise, Forget, CloseDeferred,
               CommitFile, Committed, CommitFails, TypeOK
    <3>2. CASE raised[g] # "native"
      <4>1. Raise(h) /\ g = h
        BY <1>0, <1>3, <3>2
           DEF Step, Open, Write, Close, Closed, CloseFails, Raise, Forget, CloseDeferred,
               CommitFile, Committed, CommitFails, TypeOK
      <4> QED
        BY <1>0, <4>1 DEF Raise, TypeOK
    <3> QED
      BY <3>1, <3>2
  <2> QED
    BY <2>2, <2>3 DEF RInv
<1>4. CASE StartTransaction \/ CompleteTransaction \/ AbortTransaction
  <2>1. /\ UNCHANGED <<table, tx, applied, step, raised>>
        /\ \A g \in Handles : handle[g] = "discarded" => handle'[g] = "discarded"
    BY <1>0, <1>4
       DEF StartTransaction, CompleteTransaction, AbortTransaction, insertVars, TypeOK
  <2>2. OwnRows' /\ RowsApplied'
    BY <2>1, RowsStay
  <2> QED
    BY <2>1, <2>2 DEF RInv, StaysDiscarded
<1> QED
  BY <1>1, <1>2, <1>3, <1>4 DEF Next

\* What was written to a handle before its with-block raised is not in the
\* table, but for the commits that were not answered.
THEOREM InterruptedIsDiscarded == Spec => []InterruptedLeavesNothing
<1>1. Init => RInv
  BY NoneAssumption DEF Init, Insert!Init, RInv, OwnRows, RowsApplied, StaysDiscarded
<1>2. ASSUME IInv, RInv
      PROVE  InterruptedLeavesNothing
  <2> SUFFICES ASSUME NEW i \in DOMAIN table, raised[table[i][1]] = "native"
               PROVE  lost[table[i][1]] > 0
    BY DEF InterruptedLeavesNothing, RaisedLeavesNothing
  <2> DEFINE h == table[i][1]
  <2>1. h \in Handles
    <3>1. table \in Seq(Insert!Rows)
      BY <1>2 DEF IInv, TypeOK, Insert!TypeOK
    <3> QED
      BY <3>1, ElementOfSeq, LenProperties DEF Insert!Rows
  <2>2. handle[h] = "discarded" /\ applied[h] > 0
    BY <1>2, <2>1 DEF RInv, StaysDiscarded, RowsApplied
  <2>3. applied[h] = lost[h] + 0
    BY <1>2, <2>1, <2>2 DEF IInv, OneInsert
  <2>4. lost[h] \in Nat
    BY <1>2, <2>1 DEF IInv, TypeOK
  <2> HIDE DEF h
  <2>5. lost[h] > 0
    BY <2>2, <2>3, <2>4
  <2> QED
    BY <2>5 DEF h
<1> QED
  BY <1>1, <1>2, Invariance, StepKeepsRInv, PTL DEF Spec

-----------------------------------------------------------------------------
(***************************************************************************)
(* Writes are atomic.  The rows that a transaction of the database has are *)
(* those of the batches the write has passed.                              *)
(***************************************************************************)

\* A nonempty set of naturals has a least element.
LEMMA LeastOf ==
    ASSUME NEW T \in SUBSET Nat, T # {}
    PROVE  \E x \in T : \A y \in T : x <= y
<1> DEFINE Less == OpToRel(<, Nat)
<1>1. IsWellFoundedOn(Less, Nat)
  BY NatLessThanWellFounded, Zenon
<1>2. \E x \in T : \A y \in T : ~ (<<y, x>> \in Less)
  <2> HIDE DEF Less
  <2> QED
    BY <1>1, WFMin
<1>3. Less = {pair \in Nat \X Nat : pair[1] < pair[2]}
  BY DEF OpToRel
<1>4. \A y, x \in Nat : <<y, x>> \in Less <=> y < x
  <2> HIDE DEF Less
  <2> QED
    BY <1>3
<1>5. \E x \in T : \A y \in T : ~ (y < x)
  <2> HIDE DEF Less
  <2> QED
    BY <1>2, <1>4
<1> HIDE DEF Less
<1> QED
  BY <1>5

\* What the first n batches add to what those before them have.
With(rows, batches, w, n) ==
    IF n = 0 THEN << >>
    ELSE IF batches[n] = "rows" THEN Append(rows[n - 1], <<w, n>>)
    ELSE rows[n - 1]

\* rows has the rows of the first batches of w, for each number of them.
Gathers(rows, batches, w, last) ==
    rows = [n \in 0 .. last |-> With(rows, batches, w, n)]

\* There is such a function: the least number for which there is none would
\* be one more than a number for which there is one.
LEMMA Gathered ==
    ASSUME NEW batches, NEW w, NEW last \in Nat
    PROVE  \E rows : Gathers(rows, batches, w, last)
<1> DEFINE Without == {n \in Nat : ~ \E rows : Gathers(rows, batches, w, n)}
<1> SUFFICES ASSUME Without # {}
             PROVE  FALSE
  OBVIOUS
<1>1. PICK n \in Without : \A m \in Without : n <= m
  BY LeastOf
<1>2. n \in Nat /\ ~ \E rows : Gathers(rows, batches, w, n)
  BY <1>1
<1>3. CASE n = 0
  <2> DEFINE none == [i \in 0 .. 0 |-> << >>]
  <2>1. none = [i \in 0 .. 0 |-> With(none, batches, w, i)]
    BY DEF With
  <2> QED
    BY <1>2, <1>3, <2>1 DEF Gathers
<1>4. CASE n # 0
  <2>1. n - 1 \in Nat /\ n - 1 \notin Without
    BY <1>1, <1>2, <1>4
  <2>2. PICK rows : Gathers(rows, batches, w, n - 1)
    BY <2>1
  <2> DEFINE more == [i \in 0 .. n |-> IF i = n THEN With(rows, batches, w, n) ELSE rows[i]]
  <2>3. \A i \in 0 .. n : With(more, batches, w, i) = With(rows, batches, w, i)
    <3> SUFFICES ASSUME NEW i \in 0 .. n, i # 0
                 PROVE  more[i - 1] = rows[i - 1]
      BY DEF With
    <3> QED
      BY <1>2
  <2>4. \A i \in 0 .. n - 1 : rows[i] = With(rows, batches, w, i)
    <3> DEFINE F(f) == [i \in 0 .. n - 1 |-> With(f, batches, w, i)]
    <3>1. rows = F(rows)
      BY <2>2 DEF Gathers
    <3>2. \A i \in 0 .. n - 1 : F(rows)[i] = With(rows, batches, w, i)
      OBVIOUS
    <3> HIDE DEF F
    <3> QED
      BY <3>1, <3>2
  <2>5. \A i \in 0 .. n : more[i] = With(more, batches, w, i)
    <3> SUFFICES ASSUME NEW i \in 0 .. n
                 PROVE  more[i] = With(rows, batches, w, i)
      BY <2>3
    <3>1. CASE i = n
      BY <3>1
    <3>2. CASE i # n
      <4>1. i \in 0 .. n - 1
        BY <1>2, <3>2
      <4> QED
        BY <2>4, <3>2, <4>1
    <3> QED
      BY <3>1, <3>2
  <2>6. more = [i \in 0 .. n |-> With(more, batches, w, i)]
    <3>1. more = [i \in 0 .. n |-> more[i]]
      OBVIOUS
    <3> HIDE DEF more
    <3> QED
      BY <2>5, <3>1
  <2> QED
    BY <1>2, <2>6 DEF Gathers
<1> QED
  BY <1>3, <1>4

\* The rows of the first n batches of a write, for all n.
First(w) == CHOOSE rows : Gathers(rows, upload[w].batches, w, Len(upload[w].batches))

\* They begin with none, go on batch by batch and end with all of them.
LEMMA FirstRows ==
    ASSUME NEW w, Len(upload[w].batches) \in Nat
    PROVE  /\ First(w)[0] = << >>
           /\ \A n \in 1 .. Len(upload[w].batches) :
                 First(w)[n] = IF upload[w].batches[n] = "rows"
                               THEN Append(First(w)[n - 1], <<w, n>>)
                               ELSE First(w)[n - 1]
           /\ Insert!RowsOf(w) = First(w)[Len(upload[w].batches)]
<1> DEFINE batches == upload[w].batches
           last == Len(batches)
           F(f) == [n \in 0 .. last |-> With(f, batches, w, n)]
<1>1. First(w) = F(First(w))
  BY Gathered DEF First, Gathers
<1>2. Insert!RowsOf(w) = First(w)[last]
  BY DEF Insert!RowsOf, First, Gathers, With
<1>3. \A n \in 0 .. last : F(First(w))[n] = With(First(w), batches, w, n)
  OBVIOUS
<1> HIDE DEF F
<1>4. \A n \in 0 .. last : First(w)[n] = With(First(w), batches, w, n)
  BY <1>1, <1>3
<1>5. 0 \in 0 .. last /\ \A n \in 1 .. last : n \in 0 .. last /\ n # 0
  OBVIOUS
<1>6. First(w)[0] = << >>
  BY <1>4, <1>5 DEF With
<1>7. ASSUME NEW n \in 1 .. last
      PROVE  First(w)[n] = IF batches[n] = "rows" THEN Append(First(w)[n - 1], <<w, n>>)
                           ELSE First(w)[n - 1]
  <2>1. First(w)[n] = With(First(w), batches, w, n) /\ n # 0
    BY <1>4, <1>5
  <2> QED
    BY <2>1 DEF With
<1> QED
  BY <1>2, <1>6, <1>7

\* The transaction of a write is where the write is.
InPlace(h) ==
    step[h] \in {"truncate", "batches"} =>
        /\ at[h] \in 1 .. Len(upload[h].batches) + 1
        /\ tx[h].rows = First(h)[at[h] - 1]
        /\ step[h] = "truncate" => upload[h].mode = "truncate"
        /\ step[h] = "batches" => (tx[h].truncated <=> upload[h].mode = "truncate")

AInv == \A h \in Handles : InPlace(h)

\* What the writes of other handles do leaves it there.
LEMMA StaysInPlace ==
    ASSUME NEW g \in Handles, InPlace(g),
           step'[g] \in {"truncate", "batches"} =>
              /\ step'[g] = step[g] /\ at'[g] = at[g]
              /\ tx'[g] = tx[g] /\ upload'[g] = upload[g]
    PROVE  InPlace(g)'
BY DEF InPlace, First

\* The batches of a write that is under way.
LEMMA BatchesKnown ==
    ASSUME IInv, NEW h \in Handles, step[h] # "idle"
    PROVE  /\ upload[h] \in Insert!Uploads /\ upload[h] # None
           /\ Len(upload[h].batches) \in Nat
           /\ \A n \in 1 .. Len(upload[h].batches) : upload[h].batches[n] \in {"rows", "empty"}
<1>1. upload[h] \in Insert!Uploads
  BY DEF IInv, TypeOK, Insert!TypeOK
<1>2. upload[h].batches \in Seq({"rows", "empty"})
  BY <1>1 DEF Insert!Uploads, Insert!BatchKinds
<1> QED
  BY <1>1, <1>2, NoneAssumption, LenProperties, ElementOfSeq

\* A step of the write goes to the next place.
LEMMA ProceedInPlace ==
    ASSUME IInv, AInv, NEW h \in Handles, Insert!Proceed(h)
    PROVE  AInv'
<1> USE DEF Insert!Goto
<1>0. Insert!TypeOK /\ InPlace(h)
  BY DEF IInv, TypeOK, AInv
<1>1. ASSUME NEW g \in Handles \ {h}
      PROVE  /\ step'[g] = step[g] /\ at'[g] = at[g]
             /\ tx'[g] = tx[g] /\ upload'[g] = upload[g]
  BY <1>0 DEF Insert!Proceed, Insert!Check, Insert!Reject, Insert!Begin, Insert!Truncate,
              Insert!InsertBatch, Insert!SkipBatch, Insert!Fail, Insert!TypeOK
<1>2. \A g \in Handles \ {h} : InPlace(g)'
  BY <1>1, StaysInPlace DEF AInv
<1>3. upload' = upload /\ First(h)' = First(h)
  BY DEF Insert!Proceed, Insert!Check, Insert!Reject, Insert!Begin, Insert!Truncate,
         Insert!InsertBatch, Insert!SkipBatch, Insert!Fail, First
<1>4. InPlace(h)'
  <2>1. CASE Insert!Check(h) \/ Insert!Reject(h) \/ Insert!Fail(h)
    <3>1. step'[h] \notin {"truncate", "batches"}
      BY <1>0, <2>1 DEF Insert!Check, Insert!Reject, Insert!Fail, Insert!TypeOK
    <3> QED
      BY <3>1 DEF InPlace
  <2>2. CASE Insert!Begin(h)
    <3>1. step[h] = "begin"
      BY <2>2 DEF Insert!Begin
    <3>2. /\ tx'[h].rows = << >> /\ tx'[h].truncated = FALSE /\ at'[h] = 1
          /\ step'[h] = IF upload[h].mode = "truncate" THEN "truncate" ELSE "batches"
      BY <1>0, <2>2 DEF Insert!Begin, Insert!TypeOK
    <3>3. Len(upload[h].batches) \in Nat /\ First(h)[0] = << >>
      BY <3>1, BatchesKnown, FirstRows
    <3>4. 1 \in 1 .. Len(upload[h].batches) + 1 /\ 1 - 1 = 0
      BY <3>3
    <3> QED
      BY <1>3, <3>2, <3>3, <3>4 DEF InPlace
  <2>3. CASE Insert!Truncate(h)
    <3>1. tx[h] \in Insert!Transactions /\ step[h] = "truncate"
      BY <1>0, <2>3 DEF Insert!Truncate, Insert!TypeOK
    <3>2. /\ tx'[h].rows = tx[h].rows /\ tx'[h].truncated = TRUE
          /\ at' = at /\ step'[h] = "batches"
      BY <1>0, <2>3, <3>1 DEF Insert!Truncate, Insert!TypeOK, Insert!Transactions
    <3> QED
      BY <1>0, <1>3, <3>1, <3>2 DEF InPlace
  <2>4. CASE Insert!InsertBatch(h) \/ Insert!SkipBatch(h)
    <3>1. /\ step[h] = "batches" /\ step' = step /\ at[h] <= Len(upload[h].batches)
          /\ tx[h] \in Insert!Transactions /\ at'[h] = at[h] + 1
      BY <1>0, <2>4 DEF Insert!InsertBatch, Insert!SkipBatch, Insert!More, Insert!TypeOK
    <3>2. Len(upload[h].batches) \in Nat /\ at[h] \in 1 .. Len(upload[h].batches) + 1
      BY <1>0, <3>1, BatchesKnown DEF InPlace
    <3>3. at[h] \in 1 .. Len(upload[h].batches) /\ at'[h] \in 1 .. Len(upload[h].batches) + 1
          /\ at'[h] - 1 = at[h]
      BY <3>1, <3>2
    <3>4. First(h)[at[h]] = IF upload[h].batches[at[h]] = "rows"
                            THEN Append(First(h)[at[h] - 1], <<h, at[h]>>)
                            ELSE First(h)[at[h] - 1]
      BY <3>2, <3>3, FirstRows
    <3>5. tx'[h].truncated = tx[h].truncated /\ tx'[h].rows = First(h)[at[h]]
      <4>1. CASE Insert!InsertBatch(h)
        <5>1. /\ upload[h].batches[at[h]] = "rows"
              /\ tx'[h] = [tx[h] EXCEPT !.rows = Append(@, <<h, at[h]>>)]
          BY <1>0, <4>1 DEF Insert!InsertBatch, Insert!TypeOK
        <5>2. tx'[h].truncated = tx[h].truncated /\ tx'[h].rows = Append(tx[h].rows, <<h, at[h]>>)
          BY <3>1, <5>1 DEF Insert!Transactions
        <5> QED
          BY <1>0, <3>1, <3>4, <5>1, <5>2 DEF InPlace
      <4>2. CASE Insert!SkipBatch(h)
        <5>1. upload[h].batches[at[h]] = "empty" /\ tx' = tx
          BY <4>2 DEF Insert!SkipBatch
        <5> QED
          BY <1>0, <3>1, <3>4, <5>1 DEF InPlace
      <4> QED
        BY <2>4, <4>1, <4>2
    <3> QED
      BY <1>0, <1>3, <3>1, <3>3, <3>5 DEF InPlace
  <2> QED
    BY <2>1, <2>2, <2>3, <2>4 DEF Insert!Proceed
<1> QED
  BY <1>2, <1>4 DEF AInv

\* The database commits a whole write.
LEMMA CommitApplies ==
    ASSUME IInv, AInv, NEW h \in Handles, Insert!Commit(h) \/ Insert!CommitReplyLost(h)
    PROVE  AInv' /\ Atomic!Next
<1> USE DEF Insert!Goto
<1>0. Insert!TypeOK /\ InPlace(h)
  BY DEF IInv, TypeOK, AInv
<1>1. /\ step[h] = "batches" /\ step'[h] \in {"ok", "error"}
      /\ at[h] > Len(upload[h].batches)
      /\ table' = (IF tx[h].truncated THEN << >> ELSE table) \o tx[h].rows
      /\ upload' = upload /\ at' = at
      /\ \A g \in Handles \ {h} : tx'[g] = tx[g] /\ step'[g] = step[g]
  BY <1>0 DEF Insert!Commit, Insert!CommitReplyLost, Insert!Publish, Insert!TypeOK
<1>2. AInv'
  <2>1. InPlace(h)'
    BY <1>1 DEF InPlace
  <2>2. \A g \in Handles \ {h} : InPlace(g)'
    BY <1>1, StaysInPlace DEF AInv
  <2> QED
    BY <2>1, <2>2 DEF AInv
<1>3. /\ upload[h] # None /\ upload[h] \in Insert!Uploads
      /\ Len(upload[h].batches) \in Nat
  BY <1>1, BatchesKnown
<1>4. /\ at[h] \in 1 .. Len(upload[h].batches) + 1
      /\ tx[h].rows = First(h)[at[h] - 1]
      /\ tx[h].truncated <=> upload[h].mode = "truncate"
  BY <1>0, <1>1 DEF InPlace
<1>5. at[h] - 1 = Len(upload[h].batches)
  BY <1>1, <1>3, <1>4
<1>6. tx[h].rows = Insert!RowsOf(h)
  BY <1>3, <1>4, <1>5, FirstRows
<1>7. /\ h \in DOMAIN Insert!Payload
      /\ Insert!Payload[h].mode = upload[h].mode
      /\ Insert!Payload[h].batches = tx[h].rows
  BY <1>3, <1>6 DEF Insert!Payload
<1>8. << >> \o tx[h].rows = tx[h].rows
  <2>1. tx[h].rows \in Seq(Insert!Rows)
    BY <1>0, <1>1 DEF Insert!TypeOK, Insert!Transactions
  <2> QED
    BY <2>1, ConcatEmptySeq
<1>9. table' = IF Insert!Payload[h].mode = "truncate"
               THEN Insert!Payload[h].batches
               ELSE table \o Insert!Payload[h].batches
  BY <1>1, <1>4, <1>7, <1>8
<1> QED
  BY <1>2, <1>7, <1>9 DEF Atomic!Next, Atomic!Apply

\* What is no insert leaves the table and the transactions alone.
LEMMA StepIsAtomic == IInv /\ AInv /\ [Next]_vars => AInv' /\ [Atomic!Next]_table
<1> SUFFICES ASSUME IInv, AInv, [Next]_vars
             PROVE  AInv' /\ [Atomic!Next]_table
  OBVIOUS
<1>0. step \in [Handles -> Insert!Steps] /\ upload \in [Handles -> Insert!Uploads \cup {None}]
  BY DEF IInv, TypeOK, Insert!TypeOK
<1>1. CASE UNCHANGED vars
  BY <1>1, StaysInPlace DEF vars, insertVars, AInv
<1>2. ASSUME NEW h \in Handles, Execute(h)
      PROVE  AInv' /\ [Atomic!Next]_table
  <2>1. CASE Insert!Proceed(h)
    <3>1. table' = table
      BY <2>1 DEF Insert!Proceed, Insert!Check, Insert!Reject, Insert!Begin, Insert!Truncate,
                  Insert!InsertBatch, Insert!SkipBatch, Insert!Fail
    <3> QED
      BY <2>1, <3>1, ProceedInPlace
  <2>2. CASE Insert!Commit(h) \/ Insert!CommitReplyLost(h)
    BY <2>2, CommitApplies
  <2> QED
    BY <1>2, <2>1, <2>2 DEF Execute
<1>3. ASSUME NEW h \in Handles, Step(h), ~Execute(h)
      PROVE  AInv' /\ [Atomic!Next]_table
  <2>1. /\ UNCHANGED <<table, tx, at>>
        /\ \/ UNCHANGED <<step, upload>>
           \/ /\ step' = [step EXCEPT ![h] = "check"]
              /\ \E whole : upload' = [upload EXCEPT ![h] = whole]
    BY <1>3 DEF Step, Open, Write, Close, Closed, CloseFails, Raise, Forget, CloseDeferred,
                CommitFile, Committed, CommitFails, Upload, Insert!Start, insertVars
  <2>2. ASSUME NEW g \in Handles
        PROVE  step'[g] \in {"truncate", "batches"} =>
                  step'[g] = step[g] /\ upload'[g] = upload[g]
    BY <1>0, <2>1
  <2> QED
    BY <2>1, <2>2, StaysInPlace DEF AInv
<1>4. CASE StartTransaction \/ CompleteTransaction \/ AbortTransaction
  BY <1>4, StaysInPlace
     DEF StartTransaction, CompleteTransaction, AbortTransaction, insertVars, AInv
<1> QED
  BY <1>1, <1>2, <1>3, <1>4 DEF Next

\* Whatever handles are closed at once and wherever an insert fails, the table
\* changes by the whole content of one handle at a time.
THEOREM AtomicWrites == Spec => WritesAreAtomic
<1>1. Init => AInv /\ Atomic!Init
  BY DEF Init, Insert!Init, AInv, InPlace, Atomic!Init
<1>2. Atomic!Init /\ [][Atomic!Next]_table => WritesAreAtomic
  BY PTL DEF WritesAreAtomic, Atomic!Spec
<1> QED
  BY <1>1, <1>2, Invariance, StepIsAtomic, PTL DEF Spec
===============================================================================
