# fsspec-db in TLA+

fsspec-db serves SQL databases as fsspec filesystems: schemas, relations,
columns and values are directories and files, relations are read as Arrow,
Parquet, CSV or JSON files encoded from a query, and rows are written by writing such
files. The core is Rust (`src/rust/src`), bound to Python
(`src/rust/python`), with a Python layer over it (`src/fsspec_db`).

This directory holds TLA+ models of the parts of it that have state, the TLC
runs that check them on small instances, and TLAPS proofs of the caches, encoded
files, query streams, writes, Python calls and the virtual tree for any number of
threads, queries and files, any catalogs and data of any length. `PROJECT.json` maps each
definition to the lines it models and lists runs, hazards and theorems.

## The system

| Component | State | Operations | Interacts with |
|---|---|---|---|
| Introspection cache, `fs.rs:31-115` | a map of answers with their times, a deque of keys by use | get, insert with eviction, clear | behind a mutex in DatabaseFs |
| DatabaseFs, `fs.rs:117-476` | the cache, the database | ls, info, write_bytes, put_file, open, open_write, invalidate_cache | called by Python threads; calls the database |
| Virtual tree, `fs.rs:250-540, 629-768` | none | which paths exist, what each holds, what opens | DatabaseFs, DbPath, the database's metadata |
| Paths, `path.rs` | none | parse, to_path, strip_protocol | every operation |
| SQL text, `sql.rs` | none | predicates, quoting, select and insert statements | databases |
| Query strings and slices, `fs.rs:398-426, 611-627, 770-803`, `python.py:133-135, 283-298` | none | the select statement of a path, the part of a file a caller asks for | virtual tree, SQL text |
| Codecs, `codec.rs` | none | Arrow, Parquet, CSV and JSON readers and writers | encoded files, writes |
| Encoded files, `stream.rs` | reader, writer, shared sink, bytes emitted, position, eof | read, seek, size | a query's stream |
| Materialized files, `file.rs` | bytes and a position | read, seek, size | DatabaseFs |
| Query streams, `sqlite.rs`, `postgres.rs`, `mysql.rs`, `database.rs` | a worker thread, two channels of one place, the runtime, the pool | query, next, drop | the encoded file; every other call of the database |
| Row conversion, the same three files | column values of a chunk | types and arrays of a chunk | query worker |
| Relation writes, `fs.rs:545-594` and `insert` of the three | a database transaction | check, truncate, insert batches, commit | write handles, write_bytes |
| Write handles, `python/database.rs:20-168`, `python.py`, `spec.py:280-318` | a buffer, closed or not | open, write, close, discard, commit | relation writes, fsspec.Transaction |
| Python filesystem caches, `spec.py:17-120, 235-300` | fsspec's DirCache | ls, info, refresh, invalidate_cache, writes, DDL | DatabaseFs and its cache |
| Python bindings, `rust/python` | a mutex around each file, the GIL | conversion, release of the GIL, calls of databases in Python | all of the above |
| Python adapters, `duckdb.py`, `sqlalchemy.py`, `odbc.py`, `python.py` | a connection | metadata, query, insert | Python bindings |

What is hard here is not in any one of these. Answers are cached twice, in
caches that know nothing of each other's lifetime and are cleared one after
the other, while threads read the database with no lock held. A query runs in
a thread that blocks inside the only runtime of its database, so that a reader
which stops reading holds up everything. A file is encoded while it is read,
and both the query and the writer may fail in the middle. A write is a buffer
until it is closed, closing may fail and be tried again, and a transaction of
fsspec is not one of the database. A call from Python holds the GIL or gives it
up, takes the lock of its file before or after that, and may come back into
Python under the lock. SQLite gives every value of a column a class of its own,
while a result has one schema.

What makes each component correct:

- **Introspection cache.** Map and deque have the same keys, or the eviction
  loop pops an empty deque with the mutex held, for ever. It is an LRU cache.
- **DatabaseFs.** What it answers after a write is the database after the write.
- **Python filesystem caches.** The same across both caches; refresh bypasses
  them; lifetimes bound how old an answer is.
- **Encoded files.** A reader cannot tell them from files whose bytes are
  there; they encode no more than they must; a size they report is right.
- **Query streams.** The reader gets the batches in order and every error;
  nothing is left behind; only a reader's own silence can hold up a worker.
- **Relation writes.** The table changes by whole writes.
- **Write handles.** A closed handle has written once, an interrupted one has
  not, deferred files are written in their order.
- **Virtual tree.** What is listed has the info it is listed with; data and
  definitions open; a call that other connections overtake still says nothing
  that never was.
- **Paths.** The path built for a thing is parsed as that thing.
- **Row conversion.** All batches of a result have the schema announced; what
  was written is what is read.
- **Query strings and slices.** The native and the direct adapter give the same
  part of a relation.
- **Python bindings.** No two threads wait for each other; a file is committed once.
- **Python adapters.** Inserts and queries of one connection leave each other's
  rows alone.

## The modules

```
LruCache <--implements-- IntrospectionCache <--INSTANCE-- DatabaseFsCache <--INSTANCE-- PythonFsCache
ByteFile <--implements-- EncodedFile
RecordStream <--implements-- QueryStream
AtomicTable <--implements-- WriteHandle --INSTANCE--> TableInsert
DbPath <--EXTENDS-- DbTree
RowConversion <--EXTENDS-- RelationRead --INSTANCE--> RelationQuery
QueryStream <--INSTANCE-- PythonCalls --INSTANCE--> PythonAdapter
```

**LruCache** says what a cache of answers is: lines in the order of their last
use, a lookup answers with a line that has not expired, an insertion drops the
oldest line when there is no room. **IntrospectionCache** is the code: the map
`entries`, the deque `recency`, one action per branch of `get` and `insert`,
and an action per turn of the eviction loop (`evicting` says it is running; the
mutex lets nothing else in). The refinement mapping takes the last keys of the
deque within the limit, so the turns of the loop are stutters. A time is an
age, counted in ticks and saturating at the ttl.

**DatabaseFsCache** composes the cache with threads. The content of the
database is a version; an answer is the version it was loaded from. A miss is
three steps of a thread, because the mutex is released between the lookup, the
load and the insertion; `write_bytes` is two, the commit and the
invalidation. Changes nobody tells the cache of are actions too: another
connection, and a write handle that is closed. `overtaken` is a history flag of
an answer: the cache was cleared between its load and its insertion.

**PythonFsCache** puts `spec.py` and fsspec's DirCache on top. It instantiates
DatabaseFsCache and drives its actions, so that a Python thread's `ls` is a
lookup in DirCache, the steps of the Rust cache, and the assignment to
DirCache, with a switch of threads possible between any two. `clock` and
`replacedAt` measure how old an answer is.

**ByteFile** is a cursor over bytes, what `file.rs` is and what the reader of
any file takes it for, with a call that may fail if producing the bytes may.
**EncodedFile** is `stream.rs`. Its `plan` is chosen at the start: the sizes of
header, pieces and footer, the batch the writer rejects, the batch at which the
query fails, whether finishing succeeds. A turn of `fill_until` is an action. A
byte is its place in the whole encoding, which is what order and
completeness can be told by.

**RecordStream** is what a reader of batches may count on. **QueryStream** is
the worker of the three databases, which are the same code over three drivers,
with the schema channel, the batch channel, the runtime and the pool. The
runtime (a current_thread one: whoever is in `block_on` may drive it, one at a
time), the pool and the channels are external and modelled by what the code
counts on. A blocked `send` keeps the runtime's core and the thread, and while
it has the core nothing of the runtime runs (`Driven`). So a connection that is
dropped is not yet back in the pool: sqlx spawns a task that returns it
(`returning`, `ReturnConnection`), and behind the last short chunk of a result,
whose connection is dropped before the blocking send (`sqlite.rs:650-667`),
that task waits for the reader too. `pool` is SQLite's, with one connection and a thread of its own, or a server's, whose
sockets need the runtime, and says which queries and calls there are. `Ops` are
all other calls of the database. What a thread or an opening needs to go on is
stated in `CanStep`, `CanOpen` and `CanReturn`; `Stopped` is that nobody has
it. These repeat the guards of the actions, for provers know nothing of ENABLED.
That no guard is missing there is not left to reading: `EverythingReleased`
is about the actions themselves under fairness, and says that with readers that
finish nothing gets stuck.

**AtomicTable** says that a table changes by whole writes. **TableInsert** is
`write_bytes_to_database` and the three `insert`s, with what the transaction
has done in `tx` until it commits; each return in between is a failure that
rolls back. **WriteHandle** has the handles: a native one that writes when it
is closed, a `_WriteBuffer`, which differs only in who holds the bytes, and the
deferred file of an fsspec transaction. Closing is the
steps of TableInsert, so two handles interleave inside their inserts. A failed
close leaves the handle open and it may be closed again. A COMMIT whose answer
is lost is a failure that has written.

**DbPath** is the grammar of `path.rs`: a path is a sequence of names, a name a
sequence of the words between its dots, so that a format or a facet can be told
from a name. **DbTree** is what `ls_db`, `info_db`, `open_db` and
`open_write_db` make of it. A call is a list of the statements it has still to
make (`LsPlan`, `InfoPlan`, `OpenPlan`, with the two lookups that
`facet_entries` and the databases' own `list_columns` make, and SQLite's extra
ones) and what it has seen; an action is one statement on the catalog as it is
then, and other connections change the catalog in between. A view stays when
what it reads is dropped and does not work any more (`Works`): its rows cannot be
selected (`QueryRows`), and SQLite can neither tell its columns and keys
(`ReadFacet`, `NeedsColumns`) nor count the rows of what was a table a
statement before (`CountRows`). Entries are sets:
the order of a list is the database's. `mkdir`, `rm_file` and `mv` of
`DatabaseDdlMixin` are actions of the same module, `rm_file` with the kind of
an `info` that may be as old as the last invalidation (`past`). `span`, the
catalogs there were during the call, is what the properties compare an answer
with; `Listed`, `Known` and `Content` say what a catalog is as a tree.
What the names of a database are assumed to be is stated there (`NamesAssumption`,
`Fits`, see below). `Normalize` of a path is a recursive function, which can be
reasoned about, and `MCDbTree` has TLC compare it with SelectSeq.

**RowConversion** has the types and conversions of `sqlite.rs`, `postgres.rs`
and `mysql.rs`: which Arrow type a declared type and the classes of a chunk
give, what each value becomes, which values can be bound, as a parameter, by an
INSERT or as a field of COPY. A value is its class, the class it was rendered
from, and a number; `MaxInt` stands for i64::MAX, `MaxExact` for the 2^53 up to
which a float has every integer, `MaxBinds` for the limit on parameters.
**RelationQuery** is how a query string becomes a select statement, once as
`fs.rs` and `sql.rs` do it and once as `python.py` does, and how each takes a
slice. **RelationRead** follows one column: a write of several batches or a
query with a parameter, the statement, one chunk after the other as the worker
types and sends it, and the slice of `cat_file`. It is sequential; concurrent
writers are TableInsert's subject and the channels QueryStream's.

**PythonAdapter** has the inserts and queries of `duckdb.py` and `odbc.py`, a
statement at a time, over a connection that commits each of them: DuckDB's
registered name and its result that waits to be fetched, ODBC's chunks.
`overlapped` says that another call was in progress. **PythonCalls** has the
Python threads: a call has the GIL or has given it up (`Detaches`), takes the
lock of its file, and then does what QueryStream or PythonAdapter says. The
commit of a file in a Python database takes the GIL under the lock. `gil` is
the thread that has the GIL inside a call; between calls a thread may be
preempted, so nobody is said to have it. The database in Python may give it up
at any statement. `CanGoOn` and `Stopped` say of threads what `CanStep` does of
the database.

Definitions named "Mutant of X" are plausible bugs of X. They are used by no
specification; put in the place of X, each makes the property named beside it in
`PROJECT.json` fail.

## The runs

| Run | Instance | What it shows |
|---|---|---|
| `IntrospectionCache_lru` | 3 keys, 2 values, ttl 0, 2 and none, limits 0, 1, 2 and none | The map and the deque agree after every operation, the size is within the limit, eviction never finds the deque empty and ends, and the cache is an LRU cache with expiry |
| `DatabaseFsCache_threads` | 2 threads, 2 keys, limits of 0, 1 and none, ttl 2, 2 changes | An answer older than the last invalidating write is one whose load the invalidation overtook; DatabaseFs uses its cache as the cache specification says; once changes stop, what the cache still serves is current |
| `PythonFsCache_client` | 1 thread, Rust ttl 3, limits 0, 1 and none, `listings_expiry_time` 1, 5 ticks | A client sees its own pipe_file, put_file and DDL through both caches (the close of a write handle tells no cache, `spec.py:291`); an answer may be as old as the sum of the two lifetimes and no older |
| `PythonFsCache_threads` | 2 threads, no time, 2 changes | Old answers, and refreshed ones that are old, come only from calls that overlap an invalidation |
| `EncodedFile_errors` | up to 2 batches, pieces of 0 and 2 bytes, reads of 1 and 3, seeks of -2, 0 and 1 from anywhere, u64::MAX at 10, every place of an error | A lazy file is a materialized one up to its first error; no byte twice or out of order after it; no batch too many, nor a footer too soon; a size only of a complete encoding; every call returns |
| `QueryStream_readers` | 2 queries, a query and a call, a query and 2 calls, results of up to 2 chunks, the pools of SQLite and of a server | Each reader gets its result or an error; only an open reader that does not read can hold anything up; connections are held only while rows are read, and a dropped one stays away from its pool only as long as nobody runs the runtime or such a reader blocks it; if readers are drained or dropped every call returns, its connection and the runtime free |
| `WriteHandle_files` | 2 handles, each closed after up to 3 batches, one of them empty, 2 closes each, deferred or not | Whole writes only; once per closed handle; nothing of an interrupted native handle; deferred files in order |
| `WriteHandle_interrupted` | the same | **Violation**: an interrupted deferred file is written |
| `DbTree_calls` | 1 schema, 2 names, 2 tables and a view as bodies, 3 changes, every kind of path to a relation, SQLite and servers | A list has what stayed and nothing that never was; an info or a content is that of a moment; a failure means that what was asked for was gone, different or a view over something gone at some moment; the kind `rm_file` uses is stale only by others' changes; it removes what its path names |
| `DbTree_removal` | 2 tables, `a` and `a.b`, 1 change | **Violation**: `rm_file("/main/a.b")` deletes the rows of `a` |
| `RelationRead_rows` | one column of every declared type; SQLite results of up to 3 values of 6 kinds, every type of the servers, inserts of up to 2 batches of every Arrow type, parameters, query strings of up to 2 parameters, slices from -4 to 4 | A read fails only where a server has a type without a mapping or an integer beyond i64; the schema is kept where no value outranks the declared type; what is written, or passed as a parameter, is read back, the exceptions named in `ReadAs`, such as the float an int parameter beyond i64 becomes; both adapters give the same part of a relation |
| `PythonCalls_threads` | 2 threads, each making up to 3 calls: two streams, a stream and a write or another call, a stream and a `query_arrow`, a file in a Python database that both close, two such files and a query; SQLite's pool and a server's | A call that waits for ever with the GIL is in one of three cycles; one that waits without it waits for a reader that can be reached; a file is committed once; calls of one Python connection that do not overlap have their own rows |

Why these are enough. Three keys and limits up to two make the eviction loop
choose, and a key be touched between two others. Two threads and two changes are an old
answer, a new one and a third party: one thread holds an answer while the other
invalidates, and a second invalidation follows. The Python run of a client
needs one more tick than the lifetimes add up to. Two batches make an error
come before, between and after good ones, and with pieces of no bytes the loop
takes several batches for one call; reads of 1 and 3 end inside and across
pieces of 2. A result of two chunks is the smallest whose worker blocks; the pools have one
and two connections, and two queries or a query and two calls exhaust either.
A truncation, rows before it and rows after it need two writes. Three changes of the
catalog drop, create and drop again, which is what an old kind in a cache takes;
two let a relation go and come back as something else inside one call. Three
values in chunks of two (`ChunkSize`) are a chunk that sets the schema and one that may
break it; `MaxExact` 4 and `MaxInt` 7 leave integers that are no floats below
the limit and one above it; a batch of three exceeds `MaxBinds` 2. Two threads, two
files and two queries make each of the three cycles; a longer one would need a
lock taken under another, and no call takes two. Every query of `PythonCalls`
has two chunks (`MaxChunks`) and succeeds, for only such a result blocks its
worker; inserts have two chunks (`Chunks`), the least of which one can be left out.
A thread makes each call once, but reads until the end, and the second try of
a commit is one step.

`CHECK_DEADLOCK FALSE` stands where users may stop: after every handle is
closed, where a reader stops reading, which is what `OnlyOpenReadersBlock`
is about, at the end of a read, and where threads have made their calls or
frozen, which is what `FreezesOnlyByCycles` is about. Symmetry is used in runs that check safety only.

### What the code does against its documentation

- `docs/src/how-to-manage.md:53-54` says that an exception discards deferred
  buffers. One that leaves a `with` block of the file and is caught inside the
  transaction does not: `DeferredDatabaseFile` closes as a BytesIO does, and the
  transaction commits it.
- `docs/src/how-to-manage.md:65` says that a bare relation path drops the
  relation, and an extension its rows. `_ddl_path` (`spec.py:130`) takes
  anything after the last dot for an extension, `path.rs:315-318` only the
  formats it knows: for a relation `a.b` rm_file deletes the rows of `a`.

Four more are stated by properties that hold of the code as it is. `docs/src/paths.md:164`
says refresh bypasses cached introspection; it clears both caches and then asks
the Rust cache again (`spec.py:29-42`), where another thread whose load began
before may have stored its answer in between (`RefreshIsCurrent` excepts it).
`docs/src/how-to-manage.md:31-32` says that `listings_expiry_time` bounds the
lifetime of what is cached; it bounds DirCache, and the Rust cache below has its
own ttl, 300 seconds unless constructed otherwise (`fs.rs:37-44`), which adds to
it (`LifetimesAddUp`). `docs/src/paths.md:70-76` gives relation paths an `offset`,
which the native filesystems refuse as unknown (`fs.rs:795-799`) and the direct
adapter obeys (`AdaptersAgree` is about what both answer). And `paths.md:136`
makes `columns/{column}` a file to read, which only `python.py` does, the
native ones answering that it is a directory (`fs.rs:392-394`; `Refusal` has it).

Other things the models show and no document denies. A listing cached by a
call that overlapped a write may be older than the write, and without a
lifetime it stays. After an error an encoded file that is read on ends, and
then reports the size of what it has (`KnownSizeIsComplete` is stated for a
caller no call has failed). A commit that was not answered is repeated if the
handle is closed again (`AppliedOnceClosed` counts them). And, of the
tree: a view that becomes a table while its `.sql` is opened fails the opening,
a table that becomes a view may be rendered as CREATE TABLE with the view's
columns, and one that goes as CREATE TABLE with none; each is a file the
catalog never had, so `AnswersAreRegular` is about kind and content apart.

Threads can freeze in three ways, the definitions `LockCycle`, `RuntimeCycle`
and `CloseCycle` of PythonCalls:

- A thread closes a file of a Python database: it has the lock of the file and
  waits for the GIL. Another calls the same file with the GIL held, and waits
  for the lock (`python/database.rs:46-103`).
- A thread reads a query, or drains one in `query_arrow`, with the GIL held, and
  the runtime of the server's database is in the hands of another query's
  worker, blocked until its reader reads, which takes the GIL (`:46, :510`).
- A thread closes a native file: it has the lock and waits for the connection or
  the runtime of a blocked query. Another calls that file with the GIL held.

Calls of one DuckDB connection that overlap may insert each other's rows, for
the registered relation has one name, and fetch each other's results, for the
connection has one. A SQLite result of several chunks may break its schema: an
expression that is NULL for a whole chunk is text there, and a column in which
text first comes up in a later chunk changes its type there. An unsigned value
beyond i64 can be written to MySQL and not be read.

### Fairness

`IntrospectionCache`: the eviction loop goes on, as a loop does.
`DatabaseFsCache`: time passes, and nothing else; of threads nothing is
assumed. `EncodedFile`: a call that has begun goes on. `QueryStream`: threads
inside the database go on, each weakly fair, for the operating system schedules
them and the runtime wakes who waits; readers are users and have none.
`EverythingReleased` assumes explicitly that they finish. `DbTree`,
`RelationRead` and `PythonCalls` have no temporal liveness and assume none: the
properties of QueryStream and PythonCalls about waiting say of a state that nothing of
what has begun can go on, which no fairness changes. `ReturnConnection` is weakly
fair as the tasks of the runtime are, and enabled only while somebody runs it.

## The proofs

`IntrospectionCache_proofs` holds for all keys, values, lifetimes and limits,
assuming only that `None` is not a number or a value and that lifetimes and
limits are numbers or `None`. The invariant the runs check is not inductive:
that map and deque agree says nothing of the loop in the middle of `insert`.
`IInv` adds that the deque's keys are distinct and exactly those of the map in
every state, the loop running or not, that the map is finite, and that it has at
most one key more than the limit, that one only inside `insert`. Each action then
preserves it by what `VecDeque::retain` does, which is the lemma
`WithoutProperties`: the rest of the sequence, in order, without the key. It is
stated through positions (`Nth`) since the built-in SelectSeq cannot be expanded
by the provers, and `MCIntrospectionCache` has TLC compare it with `SelectSeq`. From `IInv`
follow `TypeCorrect`, `RecencyAgreement`, `BoundedCache` and, since a map over
its limit is not empty and so the deque is not, `NoSpin`.

Its second part shows in the same generality that the cache implements
LruCache (`ImplementsAnLru`). With `IInv` the lines of the mapping are known
place by place (`LinesFollow`): all keys of the deque, or all but the first
while the loop has one to pop. Moving a key in the deque then moves or replaces
its line (`LineReplaced`, from what `Without` and the abstract `Except` keep at
each place); an insert of a new key drops the first line exactly if the loop is
about to pop its key (`InsertAdds`), and the loop drops no line of its own
(`EvictOldestStutters`).

`DatabaseFsCache_proofs` holds for any number of threads and keys and any limits. Its
invariant says of every answer, cached or in a thread's hands, that it is at
least as new as the newest write that invalidated (`floor`), or marked as
overtaken; that `floor` is never above the version of the database; and that a
thread between its commit and its invalidation has made a version there is. An
invalidation marks what threads hold and empties the map, a load brings the
present version, an insertion moves an answer from one place to the other.
`StaleAnswersAreOvertaken` is the result. `ThreadsKeepToTheCache` proves that
each step of any thread is a step of the cache or none, so what is proved of
the cache holds inside DatabaseFs.

`TypeCorrect` there is about what the threads hold; the types of the cache
itself are those of `IntrospectionCache_proofs`. `NothingComesBack` says the
same of any version in place of `floor`: once all answers older than it are
marked, or there are none, it stays so. The Python caches need it for versions
that DatabaseFs knows nothing of.

`PythonFsCache_proofs` holds for any number of Python threads, any keys, either
lifetime and any limit. `KeepsToDatabaseFs` is the composition: each step is a
step of DatabaseFs or leaves it alone, so the invariant above is part of this
one and is taken over by instantiation (`D`; `SameCache` and `SameActions` only
say that the two instances of DatabaseFs are one). The rest of the invariant
follows an answer from Rust into DirCache. While a thread is between its two
clears, all listings and all calls of the others are raced
(`HalfClearedRaces`), because a call that stores then has begun before the
first clear or within the two; so the second clear, where a write settles,
leaves nothing unraced. What a call may still take over from before it is marked
(`StaleAnswersRaced`), and the same holds for what a refreshing call may take
over from before its own start (`Refreshed`). `StaleListingsAreRaced` and
`RefreshingCallsAreCurrent` follow. `OneClientReadsItsWrites` is about the writes that end in `invalidate_cache`,
pipe_file, put_file and the DDL methods; a listing from before the close of a
handle may stay. It adds that with one
thread the second clear finds nobody about to store, so nothing of before is
left, marked or not. `AnswersLiveTwoLifetimes` has an invariant of its own
(`Lifetimes`): an entry was right as long ago as its age says, what a thread has
loaded is right now, since no time passes while a call is under way
(`LookingUp`), and a listing was right one ttl before it was stored. That a
call is shorter than a tick is an assumption of the model; a slow call adds
its duration.

`EncodedFile_proofs` holds for any number of batches, pieces of any sizes, errors
anywhere, any calls and seeks, assuming that an encoding fits in memory (`MaxPosition`)
and an offset in an i64. The invariant follows what the writer has been made to
write. With `Written` the place in the encoding that the writer has come to,
what was emitted and what is in the sink are in order and within `Written`
(`ProducedInOrder`): a batch that failed has left bytes in the sink, and they
stay before those of later batches. As long as no call has failed the sink is empty
and everything up to `Written` was emitted (`CompleteSoFar`). The writer is finished after the
last batch (`EndsOnce`), and a call that fills has asked for what it fills up to
(`TargetOK`), without which `Lazy` is not inductive, for the footer, which finishing
the writer adds, as for the batches. `BytesInOrder`,
`EncodesLazily` and `SizeIsComplete` follow. `LazyFileIsAByteFile` is a step
simulation: up to the first failure what a read takes from the emitted bytes is
what it would take from the whole encoding (`ReadIsOfAll`), turns of `fill_until`
are stutters, and after the failure the abstract file has failed too.

`QueryStream_proofs` holds for any set of queries and other calls, pools of any
size and results of any length, assuming that queries and other calls are
apart and that `None` is none of them. Its invariant says of each query, by the
place of its worker, which chunk that is at and which schema it has announced
(`AtPlace`); that what the reader got and what is in the channel are the first
messages of the result, as many as the worker has sent (`InOrder`); and that a
reader which has its query has its schema (`ReaderKnows`). To the types it adds
that connections are finitely many, without which their number says nothing.
`NoIdleConnections` follows: who holds a connection is known by the place of its
worker, and if a dropped one cannot get back the runtime is run by nobody or by a worker
that is blocked by its open reader. `StreamsDeliver` is a step simulation: under the mapping of `Stream(q)` the announcement, the receipts and
the end of a query are the steps of its RecordStream, and everything that other
queries, calls and the runtime do is a stutter.
`CallsWaitForReaders` takes a state in which no guard holds and a call is
unfinished. Somebody then has a connection, or the runtime, and cannot go on with it, and that
is a worker with a message which its channel has no room for: the invariant adds
that who has the runtime is inside it, and which reader goes with which place
of a worker (`Settled`), so the reader is there, has its file open and could read.

`PythonCalls_proofs` holds for any threads, files and programs of calls. That a
file is committed at most once is not inductive. The invariant adds that a
thread past the lock of a file has that lock and the file is there
(`LockHeld`), that a file which is there has no commit, and, because the file
of a query comes to be there when the query returns, that a query is opened by
one thread and once (`NotStarted`, `OpenedOnce`). The commit that succeeds
takes the file away under the lock, so the next thread that gets the lock finds
nothing to close. Of QueryStream and PythonAdapter it uses one thing, that
no step makes a query idle again.

About waiting the invariant says who is where (`WaitInv`): the thread that has the GIL is
inside a call that does not give it up; who has the lock of a file is past it; an open reader belongs to a file
that is there or to one thread's call (`Readers`); a call of the database and
a statement are some thread's (`CallsAreAwaited`, `StatementsAreRun`); and all calls
are of one program, of which is assumed that what is called by itself is not also
the insert of a file. The threads take the queries through steps of QueryStream
(`QueriesGoOn`), so its invariant is taken over by instantiation (`StreamsInv`).
In a state that is `Stopped`, the thread with the GIL then waits for a lock, the
runtime or a connection, and following who has that ends in one of the three
cycles (`ThreadsFreezeOnlyByCycles`); without the GIL held it ends at a reader of
a file that is there (`ThreadsWaitForReaders`).

`CallsHaveTheirRows` has an invariant of the adapter (`OInv`). Two calls in
progress have met each other (`Alone`), so a call that has met none is the only
one in progress, and what has DuckDB's name is an insert in progress
(`Registered`). Such an insert has in its table the chunks it has inserted, in
order and no others (`OwnInsert`), and those of the calls before it stay in
their places whatever is added behind them (`RowsOfOthers`) or are truncated away by
another insert. An insert has a chunk at least.

`WriteHandle_proofs` holds for any number of handles, payloads of any length and
any number of attempts. Its invariant adds to the types that the files of the
transaction are different ones and wait, but for the first, which may be
committing (`Queue`), and that nothing is inserted outside of a close, `applied`
being `lost` and one more once the insert has succeeded (`OneInsert`).
`ClosedOnce` and `TransactionInOrder` follow. For `InterruptedIsDiscarded` a
second invariant says that a transaction of the database has rows of its own
handle only, that rows of the table are of inserts that were applied, and that
a handle whose block raised stays discarded; an insert that was applied to a
handle not closed is one whose answer was lost. `AtomicWrites` is a step
simulation over AtomicTable, in which only a COMMIT is more than a stutter. It
needs that the rows in a transaction are those of the batches which the write has
passed, and that the transaction has truncated if it was asked to (`InPlace`).
The rows of the first n batches are a recursive function of n (`RowsOf`). That
there is one, which its unfolding needs, is `Gathered`: the least number
of batches for which there is none would follow one for which there is one. The
least number is the library's WFMin, since its induction theorems take
an operator as a parameter and cannot be used.

`DbTree_proofs` holds for any schemas, relations, bodies and paths and any number
of changes by others, under the assumptions on names. None of its properties of
answers is inductive: they say something of a call when it is done, and why it is so
lies in what its statements found before. The invariant (`TreeInv`) says of a call that still reads
what it has seen (`Underway`): the kind of its relation is that of a catalog
there was during the call (`KindSeen`), what it found of the root, of a schema, of a
lookup, of a facet or of a content is of such catalogs too (`RootRead` to
`ContentRead`), and the statements still to be made are those that can
complete it. A statement that fails shows that a catalog of the span lacks what was asked for.
Each statement has a lemma of its own (`ListSchemasSound`, `ReadFacetSound`, ...),
and `SoundKept` is the step of another connection, which only adds to the span.
The rest is about paths: that a path is taken apart into what it was built
from (`PathParts`, `PartsOf`), that every path listed is one (`ListedPath`), and
which entries a node has (`ChildrenOfRoot` to `ChildrenOfFacet`). A list then
has what was there all through the call and nothing that was there at no moment of it
(`RegularListing`),
an answer is of a catalog there was during the call (`RegularAnswers`), and a
failure says that something was missing in one (`FailsForMissing`), or that the
view there read something missing: what has been a table and fails to be
counted has become such a view (`Broken`, `TablesWork`). That `Normalize` is a
path and leaves out exactly the empty names is shown with a least number again (`SomeKeeps`).

A removal keeps `Removing`: it looks for the kind, unless `info` told it one, and
then drops. As long as no other connection has changed the catalog, that kind is
of the catalog there is (`OwnOnly`), from which `OwnChangesAreSeen` follows.
`RemovalsAreNamed`, that a removal drops nothing but what its path names, has the
hypothesis that an extension in the path is one of the formats, and the run
`DbTree_removal` shows the code without it.

Most type invariants are proved and not among the invariants of the runs. Of what runs
check, these are proved: all of DbTree; all of PythonFsCache; `RecencyTracksEntries`, `SizeWithinLimit` and
`ImplementsLru`; `StaleOnlyIfOvertaken`; of EncodedFile, QueryStream, WriteHandle
and PythonCalls everything but liveness. `CacheSpec` is proved
(`ThreadsKeepToTheCache`) and has no run.

Only model-checked: liveness (`MutexReleased`, `EventuallyFresh`,
`CallReturns`, `EverythingReleased`) and the
properties of RelationRead, which compare functions over the values of a result,
whatever its length and its chunks, with what they should be.

## Not modelled

The text of formats and SQL is data: a format is abstracted to pieces, an SQL
statement to what it asks for. The codecs (`codec.rs`) call arrow and parquet
and keep nothing. `types.rs`, `error.rs` and the conversions between errors,
which make a Python NotImplementedError an OSError, carry data. In Arrow's types widths
of integers other than 64 bits, and what a date or a decimal is rendered as,
are left out. In PythonFsCache DDL is a change of the database. Blocking between
transactions of the database is the least that the three databases have in
common: a truncation and other writers exclude each other. DirCache's `max_paths` is
left out: it drops listings, which any miss does. Operations that answer
NotSupported change nothing. Of the tree, sizes, comments and row counts are left out, and `python.py`'s own
tree (`:73-280`), which makes a statement for what DbTree makes several.
PythonAdapter leaves out the statements on the catalog that `_write` makes
before an insert, which change nothing, and the columns, which DuckDB's insert
takes by position. An insert of `sqlalchemy.py` is one transaction, as
TableInsert has it, and has no module of its own. `_WriteBuffer` has no lock of
its own, and two threads that close one at once are not modelled. The names in DbTree do
not end in a format, which makes a relation's path that of another's data; no
view reads a relation of its own name in another schema, which `depends_on`
leaves out (`fs.rs:517`); no name has a slash. A view is taken to refuse a
DELETE, though a server may pass it on to the table. A view fails for a
relation that is gone, not for a column of one. Where a database rewrites the
definitions of views when a relation is renamed, they keep their words here, and
the catalogs of servers are taken to describe a view whatever has become of
what it reads.

## Plan

In the order of what matters, and of how much of the code each opens up:

1. IntrospectionCache with LruCache, proved. *Done.*
2. DatabaseFsCache and PythonFsCache, proved. *Done.*
3. EncodedFile with ByteFile, QueryStream with RecordStream. *Done.*
4. TableInsert, WriteHandle with AtomicTable. *Done.*
5. DbTree with DbPath. *Done.*
6. RowConversion, RelationQuery and RelationRead: types of successive chunks,
   what is read back, parameters of a path and slices. *Done.*
7. PythonCalls over QueryStream and PythonAdapter: locks of files, the GIL and
   databases in Python. *Done.*
8. Proofs of QueryStream, WriteHandle, PythonCalls and PythonFsCache. *Done.*
9. The refinements of LruCache, ByteFile and AtomicTable, and who waits for whom, proved. *Done.*
10. Proofs of DbTree: its types, its answers and what a removal names. *Done.*
11. Next: proofs of RelationRead; the tree of `python.py` and the metadata of the
    adapters.
