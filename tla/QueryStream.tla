---------------------------- MODULE QueryStream ----------------------------
(***************************************************************************)
(* The queries of a native database (sqlite.rs, postgres.rs, mysql.rs).    *)
(* query() starts a thread that runs the statement inside block_on of the  *)
(* database's only runtime, a current_thread one, and sends the rows in    *)
(* chunks through a channel of one place to the reader that query()        *)
(* returned.  Every other operation of the database is a block_on of the   *)
(* same runtime and takes its connection from the same pool.               *)
(*                                                                         *)
(* The send blocks the thread inside block_on: while it waits for the      *)
(* reader, the thread keeps the core of the runtime and, as long as rows   *)
(* are left, its connection.  A connection that was given up goes back to  *)
(* the pool by a task of the same runtime, which has to be run for that.   *)
(***************************************************************************)
EXTENDS Naturals, Sequences, FiniteSets

CONSTANTS
    Queries,
    Ops,              \* other calls: lookups, statements, inserts
    MaxChunks,        \* bound on the chunks of a result
    Pools,            \* choices of the pool of connections
    None

\* How many connections it has, SQLite's one; whether they have threads of
\* their own, as SQLite's do, or sockets that the runtime serves; and which
\* queries and calls there are.
ASSUME PoolsAssumption ==
    Pools \subseteq [connections : Nat \ {0}, ownThread : BOOLEAN,
                    users : SUBSET (Queries \cup Ops)]
ASSUME MaxChunksAssumption == MaxChunks \in Nat \ {0}
ASSUME TasksAssumption ==
    /\ Queries \cap Ops = {}
    /\ None \notin Queries \cup Ops \cup {"schema", "error"}

Tasks == Queries \cup Ops

\* chunks of rows, the last of them short of QUERY_BATCH_SIZE or not; then,
\* if fails, an error of the database or of the conversion to Arrow.
Results == { r \in [chunks : 0 .. MaxChunks, short : BOOLEAN, fails : BOOLEAN] :
               r.short => r.chunks > 0 /\ ~r.fails }

NoResult == [chunks |-> 0, short |-> FALSE, fails |-> FALSE]

VARIABLES
    pool,       \* of the database, fixed when it is connected
    result,     \* what the database has for each query
    pc,         \* the worker of each query, and each other call
    next,       \* the chunk each worker has in hand or will fetch next
    core,       \* who runs the runtime's scheduler and I/O driver, or None
    conns,      \* who has a connection of the pool
    returning,  \* how many connections are on their way back to it
    schema,     \* schema channel: None, "schema", "error"
    batches,    \* batch channel: what was sent and not received
    reader,     \* the reader of each query
    got,        \* what it received: numbers of chunks, 0 for an error
    timedOut    \* history: the worker was refused a connection

vars == <<pool, result, pc, next, core, conns, returning, schema, batches, reader, got, timedOut>>
channels == <<schema, batches, reader, got>>

Init ==
    /\ pool \in Pools
    /\ result \in { r \in [Queries -> Results] :
                      \A q \in Queries \ pool.users : r[q] = NoResult }
    /\ pc = [x \in Tasks |-> IF x \in pool.users THEN "idle" ELSE "ended"]
    /\ next = [q \in Queries |-> 1]
    /\ core = None
    /\ conns = {}
    /\ returning = 0
    /\ schema = [q \in Queries |-> None]
    /\ batches = [q \in Queries |-> << >>]
    /\ reader = [q \in Queries |-> "none"]
    /\ got = [q \in Queries |-> << >>]
    /\ timedOut = [q \in Queries |-> FALSE]

Goto(x, from, to) == pc[x] = from /\ pc' = [pc EXCEPT ![x] = to]

\* An empty result is sent as one batch of no rows.
Batches(q) == IF result[q].chunks = 0 /\ ~result[q].fails THEN 1 ELSE result[q].chunks

\* Mutant of Dropped: something keeps the receiver of a dropped reader.
DroppedUnnoticed(q) == FALSE

Dropped(q) == reader[q] = "dropped"

\* The channel takes a message, or its receiver is gone and the send fails.
CanSend(q) == Dropped(q) \/ batches[q] = << >>

\* The worker's thread is stopped in batch_tx.send.
Blocked(x) == x \in Queries /\ pc[x] \in {"send", "send last"} /\ ~CanSend(x)

\* In block_on.
InRuntime(x) == pc[x] \notin {"idle", "report", "ended"}

\* Timers, sockets and tasks are served by whoever has the core, whenever it
\* waits for something of the runtime: not from a chunk until it was sent.
Driven == core # None /\ pc[core] \notin {"send", "send last"}

\* A future of x may go on.
Progress(x) == core = x \/ Driven \/ pool.ownThread

-----------------------------------------------------------------------------
(* External: the tokio runtime and the sqlx pool.                          *)

\* One of the threads in block_on runs the scheduler.
TakeCore(x) ==
    /\ core = None
    /\ InRuntime(x)
    /\ core' = x
    /\ UNCHANGED <<pool, result, pc, next, conns, returning, channels, timedOut>>

\* x leaves block_on.
LeaveRuntime(x) == core' = IF core = x THEN None ELSE core

FreeConnection == Cardinality(conns) + returning < pool.connections

Acquire(x, from, to) ==
    /\ Goto(x, from, to)
    /\ Progress(x)
    /\ FreeConnection
    /\ conns' = conns \cup {x}
    /\ UNCHANGED <<pool, result, next, core, returning, channels, timedOut>>

\* x drops its connection: sqlx spawns a task that is to return it.
Release(x) ==
    /\ conns' = conns \ {x}
    /\ returning' = returning + 1

CanReturn == returning > 0 /\ Driven

\* That task is run.
ReturnConnection ==
    /\ CanReturn
    /\ returning' = returning - 1
    /\ UNCHANGED <<pool, result, pc, next, core, conns, channels, timedOut>>

\* The acquire timeout of the pool, a timer of the runtime.
TimesOut(x) ==
    /\ ~FreeConnection
    /\ core = x \/ Driven
    /\ LeaveRuntime(x)

-----------------------------------------------------------------------------
(* The worker.                                                             *)

\* query.fetch(&pool) takes a connection.
Fetch(q) == Acquire(q, "acquire", "fetch")

FetchTimesOut(q) ==
    /\ \/ Goto(q, "acquire", "report")
       \/ Goto(q, "acquire again", "report")
    /\ TimesOut(q)
    /\ timedOut' = [timedOut EXCEPT ![q] = TRUE]
    /\ UNCHANGED <<pool, result, next, conns, returning, channels>>

SendSchema(q) == schema' = IF next[q] = 1 THEN [schema EXCEPT ![q] = "schema"] ELSE schema

\* QUERY_BATCH_SIZE rows are there; the schema goes before the first batch.
FullChunk(q) ==
    /\ Goto(q, "fetch", "send")
    /\ Progress(q)
    /\ next[q] <= result[q].chunks
    /\ ~ (result[q].short /\ next[q] = result[q].chunks)
    /\ SendSchema(q)
    /\ UNCHANGED <<pool, result, next, core, conns, returning, batches, reader, got, timedOut>>

\* The rows end with a shorter chunk; drop(rows) gives the connection up.
ShortChunk(q) ==
    /\ Goto(q, "fetch", "send last")
    /\ Progress(q)
    /\ result[q].short
    /\ next[q] = result[q].chunks
    /\ SendSchema(q)
    /\ Release(q)
    /\ UNCHANGED <<pool, result, next, core, batches, reader, got, timedOut>>

\* batch_tx.send, with the connection kept.
Send(q) ==
    /\ Goto(q, "send", IF Dropped(q) THEN "ended" ELSE "fetch")
    /\ CanSend(q)
    /\ next' = [next EXCEPT ![q] = @ + 1]
    /\ IF Dropped(q)
       THEN /\ LeaveRuntime(q)
            /\ Release(q)
            /\ UNCHANGED batches
       ELSE /\ batches' = [batches EXCEPT ![q] = Append(@, next[q])]
            /\ UNCHANGED <<core, conns, returning>>
    /\ UNCHANGED <<pool, result, schema, reader, got, timedOut>>

SendLast(q) ==
    /\ Goto(q, "send last", "ended")
    /\ CanSend(q)
    /\ LeaveRuntime(q)
    /\ batches' = IF Dropped(q) THEN batches ELSE [batches EXCEPT ![q] = Append(@, next[q])]
    /\ UNCHANGED <<pool, result, next, conns, returning, schema, reader, got, timedOut>>

\* The rows end and every chunk was sent.
Exhausted(q) ==
    /\ Goto(q, "fetch", "ended")
    /\ Progress(q)
    /\ next[q] > result[q].chunks
    /\ next[q] > 1
    /\ ~result[q].fails
    /\ Release(q)
    /\ LeaveRuntime(q)
    /\ UNCHANGED <<pool, result, next, channels, timedOut>>

\* Mutant of NoRows: the rows are dropped after the schema was asked for.
NoRowsKept(q) ==
    /\ Goto(q, "fetch", "acquire again")
    /\ Progress(q)
    /\ result[q].chunks = 0
    /\ ~result[q].fails
    /\ UNCHANGED <<pool, result, next, core, conns, returning, channels, timedOut>>

\* There was no row: the schema is asked for on a connection taken again.
NoRows(q) ==
    /\ Goto(q, "fetch", "acquire again")
    /\ Progress(q)
    /\ result[q].chunks = 0
    /\ ~result[q].fails
    /\ Release(q)
    /\ UNCHANGED <<pool, result, next, core, channels, timedOut>>

FetchSchema(q) == Acquire(q, "acquire again", "describe")

EmptyBatch(q) ==
    /\ Goto(q, "describe", "send last")
    /\ Progress(q)
    /\ Release(q)
    /\ SendSchema(q)
    /\ UNCHANGED <<pool, result, next, core, batches, reader, got, timedOut>>

\* An error leaves block_on, and rows are dropped on the way ...
QueryFails(q) ==
    /\ Goto(q, "fetch", "report")
    /\ Progress(q)
    /\ next[q] > result[q].chunks
    /\ result[q].fails
    /\ Release(q)
    /\ LeaveRuntime(q)
    /\ UNCHANGED <<pool, result, next, channels, timedOut>>

\* Mutant of Report: try_send, which gives the error up when there is no room.
ReportIfRoom(q) ==
    /\ Goto(q, "report", "ended")
    /\ IF schema[q] = None
       THEN /\ schema' = [schema EXCEPT ![q] = "error"]
            /\ UNCHANGED batches
       ELSE /\ batches' = IF Dropped(q) \/ ~CanSend(q)
                          THEN batches ELSE [batches EXCEPT ![q] = Append(@, 0)]
            /\ UNCHANGED schema
    /\ UNCHANGED <<pool, result, next, core, conns, returning, reader, got, timedOut>>

\* ... and is sent where the reader is waiting.
Report(q) ==
    /\ Goto(q, "report", "ended")
    /\ IF schema[q] = None
       THEN /\ schema' = [schema EXCEPT ![q] = "error"]
            /\ UNCHANGED batches
       ELSE /\ CanSend(q)
            /\ batches' = IF Dropped(q) THEN batches ELSE [batches EXCEPT ![q] = Append(@, 0)]
            /\ UNCHANGED schema
    /\ UNCHANGED <<pool, result, next, core, conns, returning, reader, got, timedOut>>

-----------------------------------------------------------------------------
(* The reader.                                                             *)

\* query() starts the worker and waits for the schema.
Query(q) ==
    /\ reader[q] = "none"
    /\ reader' = [reader EXCEPT ![q] = "opening"]
    /\ Goto(q, "idle", "acquire")
    /\ UNCHANGED <<pool, result, next, core, conns, returning, schema, batches, got, timedOut>>

Opened(q) ==
    /\ reader[q] = "opening"
    /\ schema[q] # None
    /\ reader' = [reader EXCEPT ![q] = IF schema[q] = "schema" THEN "open" ELSE "refused"]
    /\ UNCHANGED <<pool, result, pc, next, core, conns, returning, schema, batches, got, timedOut>>

\* ChannelRecordBatchReader::next.
Receive(q) ==
    /\ reader[q] = "open"
    /\ batches[q] # << >>
    /\ got' = [got EXCEPT ![q] = Append(@, Head(batches[q]))]
    /\ batches' = [batches EXCEPT ![q] = Tail(@)]
    /\ UNCHANGED <<pool, result, pc, next, core, conns, returning, schema, reader, timedOut>>

\* It returns None: the channel is empty and the worker is gone.
ReceiveEnd(q) ==
    /\ reader[q] = "open"
    /\ batches[q] = << >>
    /\ pc[q] = "ended"
    /\ reader' = [reader EXCEPT ![q] = "ended"]
    /\ UNCHANGED <<pool, result, pc, next, core, conns, returning, schema, batches, got, timedOut>>

\* The file or the stream is dropped, and the receiver with what it holds.
Drop(q) ==
    /\ reader[q] \in {"open", "ended"}
    /\ reader' = [reader EXCEPT ![q] = "dropped"]
    /\ batches' = [batches EXCEPT ![q] = << >>]
    /\ UNCHANGED <<pool, result, pc, next, core, conns, returning, schema, got, timedOut>>

-----------------------------------------------------------------------------
(* Any other call of the database.                                         *)

Begin(o) ==
    /\ Goto(o, "idle", "acquire")
    /\ UNCHANGED <<pool, result, next, core, conns, returning, channels, timedOut>>

OpAcquire(o) == Acquire(o, "acquire", "run")

OpTimesOut(o) ==
    /\ Goto(o, "acquire", "ended")
    /\ TimesOut(o)
    /\ UNCHANGED <<pool, result, next, conns, returning, channels, timedOut>>

OpRun(o) ==
    /\ Goto(o, "run", "ended")
    /\ Progress(o)
    /\ Release(o)
    /\ LeaveRuntime(o)
    /\ UNCHANGED <<pool, result, next, channels, timedOut>>

Worker(q) ==
    \/ Fetch(q) \/ FetchTimesOut(q)
    \/ FullChunk(q) \/ ShortChunk(q) \/ Send(q) \/ SendLast(q)
    \/ Exhausted(q) \/ NoRows(q) \/ FetchSchema(q) \/ EmptyBatch(q)
    \/ QueryFails(q) \/ Report(q)
    \/ TakeCore(q)

Other(o) == OpAcquire(o) \/ OpTimesOut(o) \/ OpRun(o) \/ TakeCore(o)

\* What the guards of Worker and Other come to: x can go on as things are.
CanStep(x) ==
    \/ core = None /\ InRuntime(x)
    \/ pc[x] \in {"acquire", "acquire again"} /\ FreeConnection /\ Progress(x)
    \/ pc[x] \in {"acquire", "acquire again"} /\ ~FreeConnection /\ (core = x \/ Driven)
    \/ pc[x] \in {"fetch", "describe", "run"} /\ Progress(x)
    \/ pc[x] \in {"send", "send last"} /\ CanSend(x)
    \/ pc[x] = "report" /\ (schema[x] = None \/ CanSend(x))

\* The guard of Opened.
CanOpen(q) == reader[q] = "opening" /\ schema[q] # None

\* Nothing inside the database can go on.
Stopped ==
    /\ \A x \in Tasks : ~CanStep(x)
    /\ \A q \in Queries : ~CanOpen(q)
    /\ ~CanReturn

\* What the program's threads do of themselves, and what its users do.
Run ==
    \/ \E q \in Queries : Worker(q) \/ Opened(q)
    \/ \E o \in Ops : Other(o)
    \/ ReturnConnection

Use ==
    \/ \E q \in Queries : Query(q) \/ Receive(q) \/ ReceiveEnd(q) \/ Drop(q)
    \/ \E o \in Ops : Begin(o)

Next == Run \/ Use

\* Threads inside the database go on; no reader has to go on reading.
Spec ==
    /\ Init
    /\ [][Next]_vars
    /\ \A q \in Queries : WF_vars(Worker(q)) /\ WF_vars(Opened(q))
    /\ \A o \in Ops : WF_vars(Other(o))
    /\ WF_vars(ReturnConnection)

-----------------------------------------------------------------------------
(***************************************************************************)
(* Properties                                                              *)
(***************************************************************************)

TypeOK ==
    /\ pool \in Pools
    /\ returning \in Nat
    /\ Cardinality(conns) + returning <= pool.connections
    /\ result \in [Queries -> Results]
    /\ pc \in [Tasks -> {"idle", "acquire", "fetch", "send", "send last", "acquire again",
                         "describe", "run", "report", "ended"}]
    /\ next \in [Queries -> 1 .. MaxChunks + 1]
    /\ core \in Tasks \cup {None}
    /\ conns \subseteq Tasks
    /\ schema \in [Queries -> {None, "schema", "error"}]
    /\ batches \in [Queries -> Seq(0 .. MaxChunks)]
    /\ \A q \in Queries : Len(batches[q]) <= 1
    /\ reader \in [Queries -> {"none", "opening", "open", "ended", "refused", "dropped"}]
    /\ got \in [Queries -> Seq(0 .. MaxChunks)]
    /\ timedOut \in [Queries -> BOOLEAN]

Stream(q) == INSTANCE RecordStream
    WITH size <- Batches(q), fails <- result[q].fails, refusable <- timedOut[q],
         reader <- reader[q], got <- got[q]

\* Every reader gets the batches of its result in order and an error it must
\* know of, whatever the other queries do and wherever a connection is late:
\* the end of the stream is never taken for the end of the result when the
\* query failed (sqlite.rs:601-607 and the same code of the other two).
DeliversResult ==
    /\ \A q \in Queries : Stream(q)!Init
    /\ [][\A q \in Queries : [Stream(q)!Next]_<<reader[q], got[q]>>]_vars

\* Whatever waits, waits for a reader: when no thread inside the database can
\* take a step and a call is unfinished, a query of two batches or more has an
\* open reader that is not reading.  A result of one batch, or a reader that
\* was dropped or drained, blocks nobody (sqlite.rs:617-688).
OnlyOpenReadersBlock ==
    (\E x \in Tasks : pc[x] \notin {"idle", "ended"}) /\ Stopped
      => \E q \in Queries :
            /\ reader[q] = "open"
            /\ batches[q] # << >>
            /\ Batches(q) + (IF result[q].fails THEN 1 ELSE 0) > 1

\* Who has a connection goes on with its statement or has a chunk of it to
\* hand over before the next: a worker that waits only to report an error, or
\* to hand over its last short chunk, has dropped its own (sqlite.rs:601-607,
\* 650, 662).  That a dropped one does not get back to the pool, when nothing
\* can go on, has two reasons: no call runs the runtime, or the worker that has
\* it is blocked by an open reader (sqlite.rs:667, 687).
ConnectionsAreUsed ==
    /\ conns = { x \in Tasks : pc[x] \in {"fetch", "send", "describe", "run"} }
    /\ returning > 0 /\ Stopped =>
          \/ \A x \in Tasks : ~InRuntime(x)
          \/ core \in Queries /\ Blocked(core) /\ reader[core] = "open"

\* Readers are drained or dropped in the end, as a file closed in Python is.
ReadersFinish ==
    \A q \in Queries : reader[q] = "open" ~> reader[q] \in {"ended", "dropped"}

\* Then every query is opened or refused, and every call returns and leaves
\* nothing behind: no thread, no connection, and the runtime free.
EverythingReleased ==
    ReadersFinish =>
        /\ \A q \in Queries : reader[q] = "opening" ~> reader[q] # "opening"
        /\ \A x \in Tasks : pc[x] # "idle" ~> pc[x] = "ended" /\ x \notin conns /\ core # x

=============================================================================
