---------------------------- MODULE PythonCalls ----------------------------
(***************************************************************************)
(* The Python threads that use the files and queries of the bindings       *)
(* (rust/python/database.rs): PyDbFile over a query of a native database,  *)
(* over a write to one, or over a write to a database in Python, and       *)
(* query_arrow.  A call has the GIL unless it detaches; a file has a lock  *)
(* that every call of it takes, with the GIL or without.                   *)
(*                                                                         *)
(* The queries and the runtime of the native database are QueryStream,     *)
(* the statements of the database in Python PythonAdapter.                 *)
(***************************************************************************)
EXTENDS Naturals, Sequences, FiniteSets

CONSTANTS
    Threads,
    Programs,                                  \* what the threads may be
    Queries, Ops, MaxChunks, Pools,            \* of QueryStream
    Inserts, Asks, Relations, Chunks,          \* of PythonAdapter
    None

\* What may be closed: the file of a query, of a native write, of a Python one.
Files == Queries \cup Ops \cup Inserts

\* write stands for every call of a file that waits for nothing else, ask for
\* every one of a database in Python, and call for ls, info, cat_file and
\* write_file of a native one.
AllCalls ==
    ({"open", "read", "query_arrow"} \X Queries)
      \cup ({"write", "close", "discard"} \X Files)
      \cup ({"call"} \X Ops)
      \cup ({"ask"} \X Asks)

ASSUME UsersAssumption ==
    /\ Queries \cap Ops = {} /\ (Queries \cup Ops) \cap Inserts = {} /\ Files \cap Asks = {}
    /\ None \notin Threads \cup Files \cup Asks \cup {"schema", "error"}
ASSUME MaxChunksAssumption == MaxChunks \in Nat \ {0}
ASSUME ChunksAssumption == Chunks \in Nat \ {0}
ASSUME PoolsAssumption ==
    Pools \subseteq [connections : Nat \ {0}, ownThread : BOOLEAN, users : SUBSET (Queries \cup Ops)]

\* The pool of the native database, the adapter and the requests of the Python
\* one, and the calls that each thread makes once.  What is called by itself is
\* not the insert of a file.
ASSUME ProgramsAssumption ==
    \A p \in Programs :
        /\ p.pool \in Pools
        /\ p.calls \in [Threads -> SUBSET AllCalls]
        /\ p.adapter \in {"duckdb", "odbc"}
        /\ p.request \in [Inserts -> [relation : Relations, mode : {"append", "truncate"}]]
        /\ \A o \in Ops, t, u \in Threads :
              <<"call", o>> \in p.calls[t] => <<"close", o>> \notin p.calls[u]

VARIABLES
    pool, result, pc, next, core, conns, returning, schema, batches, reader, got, timedOut,
    adapter, request, table, registered, executed, step, sent, answer, overlapped,
    left,       \* the calls each thread has not made
    at,         \* where each thread is in its call
    on,         \* its call, or NoCall
    gil,        \* the thread inside a call that has the GIL, or None
    lock,       \* the thread that has the lock of each file, or None
    open,       \* the files that are there and not closed
    commits     \* history: commits of each file that succeeded

streamVars ==
    <<pool, result, pc, next, core, conns, returning, schema, batches, reader, got, timedOut>>
adapterVars == <<adapter, request, table, registered, executed, step, sent, answer, overlapped>>
fileVars == <<lock, open, commits>>
vars == <<streamVars, adapterVars, fileVars, left, at, on, gil>>

Streams == INSTANCE QueryStream
Adapter == INSTANCE PythonAdapter

NoCall == <<None, None>>

\* Every result has as many chunks as it may and does not fail: the others are
\* cases of QueryStream, and only such a result blocks its worker.
Init ==
    /\ Streams!Init
    /\ \A q \in pool.users \cap Queries : result[q].chunks = MaxChunks /\ ~result[q].fails
    /\ Adapter!Init
    /\ left \in { p.calls : p \in { p \in Programs :
                     p.pool = pool /\ p.adapter = adapter /\ p.request = request } }
    /\ at = [t \in Threads |-> "python"]
    /\ on = [t \in Threads |-> NoCall]
    /\ gil = None
    /\ lock = [f \in Files |-> None]
    /\ open = Files \ Queries
    /\ commits = [f \in Files |-> 0]

Kind(t) == on[t][1]
User(t) == on[t][2]

Goto(t, from, to) == at[t] = from /\ at' = [at EXCEPT ![t] = to]

\* Mutant of Detaches: a file is closed with the GIL held.
DetachesToOpen(kind) == kind \in {"open", "query_arrow", "call"}

Detaches(kind) == kind \in {"open", "query_arrow", "call", "close", "discard"}

-----------------------------------------------------------------------------
(* A call begins and returns.                                              *)

Call(t, c, to) ==
    /\ c \in left[t]
    /\ Goto(t, "python", to)
    /\ gil = None
    /\ gil' = IF Detaches(c[1]) THEN None ELSE t
    /\ on' = [on EXCEPT ![t] = c]
    /\ left' = IF c[1] = "read" THEN left ELSE [left EXCEPT ![t] = @ \ {c}]
    /\ UNCHANGED fileVars

CallQuery(t, c) ==
    /\ c[1] \in {"open", "query_arrow"}
    /\ Call(t, c, "opening")
    /\ Streams!Query(c[2])
    /\ UNCHANGED adapterVars

\* Every call of a file takes its lock first.
CallFile(t, c) ==
    /\ c[1] \in {"read", "write", "close", "discard"}
    /\ c[2] \in open \/ commits[c[2]] > 0
    /\ Call(t, c, "lock")
    /\ UNCHANGED <<streamVars, adapterVars>>

CallNative(t, c) ==
    /\ c[1] = "call"
    /\ Call(t, c, "calling")
    /\ Streams!Begin(c[2])
    /\ UNCHANGED adapterVars

CallPython(t, c) ==
    /\ c[1] = "ask"
    /\ Call(t, c, "statement")
    /\ Adapter!Start(c[2])
    /\ UNCHANGED streamVars

Called(t) ==
    /\ Goto(t, "calling", "return")
    /\ pc[User(t)] = "ended"
    /\ UNCHANGED <<streamVars, adapterVars, fileVars, left, on, gil>>

\* A call that has detached takes the GIL again before it returns.
Return(t) ==
    /\ Goto(t, "return", "python")
    /\ gil \in {None, t}
    /\ gil' = None
    /\ on' = [on EXCEPT ![t] = NoCall]
    /\ open' = IF Kind(t) = "open" /\ reader[User(t)] = "open" THEN open \cup {User(t)} ELSE open
    /\ UNCHANGED <<streamVars, adapterVars, left, lock, commits>>

-----------------------------------------------------------------------------
(* query_arrow: query() is detached, arrow_to_ipc is not.                  *)

Opened(t) ==
    /\ Goto(t, "opening", IF Kind(t) = "query_arrow" /\ schema[User(t)] = "schema"
                          THEN "attach to drain" ELSE "return")
    /\ Streams!Opened(User(t))
    /\ UNCHANGED <<adapterVars, fileVars, left, on, gil>>

AttachToDrain(t) ==
    /\ Goto(t, "attach to drain", "drain")
    /\ gil \in {None, t}
    /\ gil' = t
    /\ UNCHANGED <<streamVars, adapterVars, fileVars, left, on>>

Drain(t) ==
    /\ \/ Goto(t, "drain", "drain") /\ Streams!Receive(User(t))
       \/ Goto(t, "drain", "drained") /\ Streams!ReceiveEnd(User(t))
       \/ Goto(t, "drained", "return") /\ Streams!Drop(User(t))
    /\ UNCHANGED <<adapterVars, fileVars, left, on, gil>>

-----------------------------------------------------------------------------
(* Calls of a file.                                                        *)

\* A file that is closed refuses the call, or has nothing to close.
Refuse(t) ==
    /\ Goto(t, "lock", "return")
    /\ lock[User(t)] = None
    /\ User(t) \notin open
    /\ left' = [left EXCEPT ![t] = @ \ {on[t]}]
    /\ UNCHANGED <<streamVars, adapterVars, fileVars, on, gil>>

Lock(t) ==
    /\ Goto(t, "lock", IF Kind(t) \in {"close", "discard"} THEN Kind(t) ELSE "inside")
    /\ lock[User(t)] = None
    /\ User(t) \in open
    /\ lock' = [lock EXCEPT ![User(t)] = t]
    /\ UNCHANGED <<streamVars, adapterVars, left, on, gil, open, commits>>

Unlock(t) == lock' = [lock EXCEPT ![User(t)] = None]

\* A read takes a batch or more from the reader of the query.
Read(t) ==
    /\ Kind(t) = "read"
    /\ Streams!Receive(User(t))
    /\ \/ Goto(t, "inside", "inside") /\ UNCHANGED lock
       \/ Goto(t, "inside", "return") /\ Unlock(t)
    /\ UNCHANGED <<adapterVars, left, on, gil, open, commits>>

ReadEnd(t) ==
    /\ Kind(t) = "read"
    /\ Goto(t, "inside", "return")
    /\ \/ Streams!ReceiveEnd(User(t))
       \/ reader[User(t)] = "ended" /\ UNCHANGED streamVars
    /\ Unlock(t)
    /\ left' = [left EXCEPT ![t] = @ \ {on[t]}]
    /\ UNCHANGED <<adapterVars, on, gil, open, commits>>

Write(t) ==
    /\ Kind(t) = "write"
    /\ Goto(t, "inside", "return")
    /\ Unlock(t)
    /\ UNCHANGED <<streamVars, adapterVars, left, on, gil, open, commits>>

-----------------------------------------------------------------------------
(* close: the commit, with the lock held.                                  *)

\* Mutant of Committed: the file is left in its place.
CommittedAndKept(t) ==
    /\ commits' = [commits EXCEPT ![User(t)] = @ + 1]
    /\ Unlock(t)
    /\ UNCHANGED open

Committed(t) ==
    /\ commits' = [commits EXCEPT ![User(t)] = @ + 1]
    /\ Unlock(t)
    /\ open' = open \ {User(t)}

\* An error leaves the file open.
CommitFails(t) == Unlock(t) /\ UNCHANGED <<open, commits>>

CloseQuery(t) ==
    /\ Goto(t, "close", "return")
    /\ User(t) \in Queries
    /\ Streams!Drop(User(t))
    /\ Committed(t)
    /\ UNCHANGED <<adapterVars, left, on, gil>>

CommitNative(t) ==
    /\ Goto(t, "close", "insert")
    /\ User(t) \in Ops
    /\ Streams!Begin(User(t))
    /\ UNCHANGED <<adapterVars, fileVars, left, on, gil>>

NativeDone(t) ==
    /\ Goto(t, "insert", "return")
    /\ pc[User(t)] = "ended"
    /\ Committed(t) \/ CommitFails(t)
    /\ UNCHANGED <<streamVars, adapterVars, left, on, gil>>

\* The commit is tried again, after an error.  What it then does of the
\* runtime and the connection is not followed.
CommitAgain(t) ==
    /\ Goto(t, "close", "return")
    /\ \/ User(t) \in Ops /\ pc[User(t)] = "ended"
       \/ User(t) \in Inserts /\ Adapter!Finished(User(t))
    /\ Committed(t) \/ CommitFails(t)
    /\ UNCHANGED <<streamVars, adapterVars, left, on, gil>>

\* The insert of a database in Python is Python: Python::attach.
CommitPython(t) ==
    /\ Goto(t, "close", "statement")
    /\ User(t) \in Inserts
    /\ gil \in {None, t}
    /\ gil' = t
    /\ Adapter!Start(User(t))
    /\ UNCHANGED <<streamVars, fileVars, left, on>>

\* External: the driver of a Python database may give the GIL up, as may the
\* interpreter between two statements.
Statement(t) ==
    /\ \/ Goto(t, "statement", "statement") /\ UNCHANGED gil
       \/ Goto(t, "statement", "attach") /\ gil' = None
    /\ Adapter!Statement(User(t))
    /\ UNCHANGED <<streamVars, fileVars, left, on>>

Attach(t) ==
    /\ Goto(t, "attach", "statement")
    /\ gil \in {None, t}
    /\ gil' = t
    /\ UNCHANGED <<streamVars, adapterVars, fileVars, left, on>>

PythonDone(t) ==
    /\ Goto(t, "statement", "return")
    /\ Adapter!Finished(User(t))
    /\ IF User(t) \in Asks THEN UNCHANGED <<fileVars, gil>>
       ELSE /\ IF step[User(t)] = "ok" THEN Committed(t) ELSE CommitFails(t)
            /\ gil' = None
    /\ UNCHANGED <<streamVars, adapterVars, left, on>>

\* discard gives the file up, and a query with it.
Discard(t) ==
    /\ Goto(t, "discard", "return")
    /\ IF User(t) \in Queries THEN Streams!Drop(User(t)) ELSE UNCHANGED streamVars
    /\ Unlock(t)
    /\ open' = open \ {User(t)}
    /\ UNCHANGED <<adapterVars, left, on, gil, commits>>

-----------------------------------------------------------------------------

Inside(t) ==
    \/ Opened(t) \/ AttachToDrain(t) \/ Drain(t)
    \/ Refuse(t) \/ Lock(t) \/ Read(t) \/ ReadEnd(t) \/ Write(t)
    \/ CloseQuery(t) \/ CommitNative(t) \/ NativeDone(t) \/ CommitAgain(t)
    \/ CommitPython(t) \/ Statement(t) \/ Attach(t) \/ PythonDone(t) \/ Discard(t)
    \/ Called(t) \/ Return(t)

Work(x) ==
    /\ \/ x \in Queries /\ Streams!Worker(x)
       \/ x \in Ops /\ Streams!Other(x)
    /\ UNCHANGED <<adapterVars, fileVars, left, at, on, gil>>

ReturnConnection ==
    /\ Streams!ReturnConnection
    /\ UNCHANGED <<adapterVars, fileVars, left, at, on, gil>>

\* What the guards of Inside come to: t can go on in its call as things are.
CanAttach(t) == gil \in {None, t}
CanReceive(q) == reader[q] = "open" /\ (batches[q] # << >> \/ pc[q] = "ended")
CanDrop(q) == reader[q] \in {"open", "ended"}

CanClose(t) ==
    \/ User(t) \in Queries /\ CanDrop(User(t))
    \/ User(t) \in Ops /\ pc[User(t)] \in {"idle", "ended"}
    \/ User(t) \in Inserts /\ Adapter!Finished(User(t))
    \/ User(t) \in Inserts /\ step[User(t)] = "idle" /\ CanAttach(t)

CanGoOn(t) ==
    \/ at[t] = "opening" /\ Streams!CanOpen(User(t))
    \/ at[t] \in {"attach to drain", "attach", "return"} /\ CanAttach(t)
    \/ at[t] = "drain" /\ CanReceive(User(t))
    \/ at[t] = "drained" /\ CanDrop(User(t))
    \/ at[t] = "lock" /\ lock[User(t)] = None
    \/ at[t] = "inside" /\ Kind(t) = "read" /\ (CanReceive(User(t)) \/ reader[User(t)] = "ended")
    \/ at[t] = "inside" /\ Kind(t) = "write"
    \/ at[t] = "close" /\ CanClose(t)
    \/ at[t] = "discard" /\ (User(t) \in Queries => CanDrop(User(t)))
    \/ at[t] \in {"insert", "calling"} /\ pc[User(t)] = "ended"
    \/ at[t] = "statement" /\ step[User(t)] # "idle"

\* Nothing that has begun can go on.
Stopped ==
    /\ \A t \in Threads : ~CanGoOn(t)
    /\ \A x \in Queries \cup Ops : ~Streams!CanStep(x)
    /\ ~Streams!CanReturn

\* What goes on by itself once it was called.
Run ==
    \/ \E t \in Threads : Inside(t)
    \/ \E x \in Queries \cup Ops : Work(x)
    \/ ReturnConnection

Begin(t) == \E c \in left[t] :
    CallQuery(t, c) \/ CallFile(t, c) \/ CallNative(t, c) \/ CallPython(t, c)

Next == Run \/ \E t \in Threads : Begin(t)

Spec == Init /\ [][Next]_vars

-----------------------------------------------------------------------------
(***************************************************************************)
(* Properties                                                              *)
(***************************************************************************)

\* A thread that closes the file of a Python database waits for the GIL with
\* the lock of the file, and the thread with the GIL waits for that lock.
LockCycle ==
    \E t, u \in Threads :
        /\ at[t] \in {"close", "attach"} /\ User(t) \in Inserts /\ lock[User(t)] = t
        /\ at[u] = "lock" /\ gil = u
        /\ User(u) = User(t)

\* A thread reads a query with the GIL while the worker of another query is
\* blocked with the runtime that the first one needs; who would read the other
\* query needs the GIL.
RuntimeCycle ==
    \E t \in Threads, q \in Queries :
        /\ at[t] \in {"inside", "drain"} /\ gil = t
        /\ User(t) \in Queries \ {q}
        /\ core = q /\ Streams!Blocked(q) /\ ~pool.ownThread

\* A thread that closes the file of a native database waits, with the lock of
\* the file, for what a blocked query has; the thread with the GIL waits for
\* that lock, and who would read the query needs the GIL.
CloseCycle ==
    \E t, u \in Threads, q \in Queries :
        /\ at[t] = "insert" /\ lock[User(t)] = t
        /\ at[u] = "lock" /\ gil = u
        /\ User(u) = User(t)
        /\ Streams!Blocked(q)

Cycle == LockCycle \/ RuntimeCycle \/ CloseCycle

\* A call that waits with the GIL is ended by what the other threads may still
\* do without the GIL, but for these three cycles: read, write and seek have
\* the GIL, and query_arrow while it drains; open, query and close do not, so
\* they wait for a connection or a lock without stopping the readers
\* (database.rs:46-114, 505-512 and the same methods of the other two).
FreezesOnlyByCycles == gil # None /\ Stopped => Cycle

\* A call that waits without the GIL waits for a reader that any thread can
\* reach: when the calls have come to a stop and the GIL is free, a query blocks
\* its worker with the file of it open.  No call waits for one that has
\* returned, or for a query whose file was closed (database.rs:94-103, 477-485).
WaitsOnlyForReaders ==
    gil = None /\ (\E t \in Threads : at[t] # "python") /\ Stopped
      => \E q \in open \cap Queries : reader[q] = "open" /\ Streams!Blocked(q)

\* However many threads close a file or leave its with-block, its rows are
\* committed once, and again only after an error (database.rs:94-103).
CommittedOnce == \A f \in Files : commits[f] <= 1

\* The calls of a Python connection that do not overlap have their own rows.
OwnRowsUnlessOverlapped == Adapter!OwnRowsUnlessOverlapped

=============================================================================
