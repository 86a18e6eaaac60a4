---------------------------- MODULE RelationRead ----------------------------
(***************************************************************************)
(* The values of one column, from an insert into a table of a native       *)
(* database, or from a parameter of a query, to the Arrow batches a reader *)
(* gets and the part of them cat_file returns.  RowConversion has the      *)
(* types and the conversions, RelationQuery the query strings; the         *)
(* interleavings of inserts are in TableInsert and those of the channels   *)
(* in QueryStream.                                                         *)
(*                                                                         *)
(* A byte of the encoding is a row: which bytes a row has, and when they   *)
(* are encoded, is in EncodedFile.                                         *)
(***************************************************************************)
EXTENDS RowConversion

CONSTANTS
    Columns,     \* the columns of the relation
    ChunkSize,   \* QUERY_BATCH_SIZE
    Scenarios,   \* what may be written and read
    Bounds       \* the bounds of a cat_file

ASSUME ChunkSizeAssumption == ChunkSize \in Nat \ {0}

\* The database; the declared type of the column, "NULL" for an expression;
\* the rows there are; the Arrow kind and the batches of an insert; and the
\* query string of the read.
ASSUME ScenariosAssumption ==
    \A s \in Scenarios :
        /\ DOMAIN s = {"db", "declared", "rows", "kind", "batches", "query"}
        /\ s.db \in Databases

Q == INSTANCE RelationQuery

VARIABLES
    scenario,
    step,       \* "insert", "select", "read", "refused", "failed", "done"
    table,      \* the committed values of the column
    inserted,   \* batches the transaction has taken
    tx,         \* what they left there
    unread,     \* rows of the answer that are in no chunk yet
    schema,     \* the announced type, or None
    batches     \* what the reader was sent: a type and values

vars == <<scenario, step, table, inserted, tx, unread, schema, batches>>

Init ==
    /\ scenario \in Scenarios
    /\ step = "insert"
    /\ table = scenario.rows
    /\ inserted = 0
    /\ tx = << >>
    /\ unread = << >>
    /\ schema = None
    /\ batches = << >>

-----------------------------------------------------------------------------
(* insert.                                                                 *)

Batch == scenario.batches[inserted + 1]

More == step = "insert" /\ scenario.kind # "parameter" /\ inserted < Len(scenario.batches)

Fits(batch) ==
    /\ \A i \in DOMAIN batch : Binds(scenario.db, scenario.kind, batch[i])
    /\ StatementFits(scenario.db, Len(batch))

BoundBatch == [i \in DOMAIN Batch |-> Bound(scenario.db, Batch[i])]

InsertBatch ==
    /\ More
    /\ Fits(Batch)
    /\ tx' = tx \o BoundBatch
    /\ inserted' = inserted + 1
    /\ UNCHANGED <<scenario, step, table, unread, schema, batches>>

\* A value that cannot be bound, or too many of them: the insert returns early.
InsertFails ==
    /\ More
    /\ ~Fits(Batch)
    /\ step' = "select"
    /\ tx' = << >>
    /\ UNCHANGED <<scenario, table, inserted, unread, schema, batches>>

Commit ==
    /\ step = "insert"
    /\ scenario.kind # "parameter"
    /\ inserted = Len(scenario.batches)
    /\ step' = "select"
    /\ table' = table \o tx
    /\ tx' = << >>
    /\ UNCHANGED <<scenario, inserted, unread, schema, batches>>

-----------------------------------------------------------------------------
(* open_db and the query worker.                                           *)

Native == Q!NativeSelect(scenario.query)

Select ==
    /\ step = "select"
    /\ IF Q!NativeAccepts(scenario.query) /\ Q!Executes(Native)
       THEN step' = "read" /\ unread' = Q!Rows(Native, table)
       ELSE step' = "refused" /\ UNCHANGED unread
    /\ UNCHANGED <<scenario, table, inserted, tx, schema, batches>>

Chunk == Q!Before(ChunkSize, unread)

ChunkKind == Column(scenario.db, scenario.declared, Chunk)

Readable == \A i \in DOMAIN Chunk : Decodes(scenario.db, ChunkKind, Chunk[i])

\* A query that selects its own parameters, as SELECT ? does.
PassParameters ==
    /\ step = "insert"
    /\ scenario.kind = "parameter"
    /\ step' = "select"
    /\ table' = [i \in DOMAIN Batch |-> Bound(scenario.db, Parameter(Batch[i]))]
    /\ inserted' = inserted + 1
    /\ UNCHANGED <<scenario, tx, unread, schema, batches>>

\* send_sqlite_chunk and its like: the first chunk announces its own type.
SendChunk ==
    /\ step = "read"
    /\ unread # << >>
    /\ Readable
    /\ schema' = IF schema = None THEN ArrowType(ChunkKind) ELSE schema
    /\ batches' = Append(batches, [type   |-> ArrowType(ChunkKind),
                                   values |-> [i \in DOMAIN Chunk |-> Decoded(ChunkKind, Chunk[i])]])
    /\ unread' = Q!After(ChunkSize, unread)
    /\ UNCHANGED <<scenario, step, table, inserted, tx>>

ChunkFails ==
    /\ step = "read"
    /\ unread # << >>
    /\ ~Readable
    /\ step' = "failed"
    /\ UNCHANGED <<scenario, table, inserted, tx, unread, schema, batches>>

\* A result without rows has the type of the prepared statement.
EmptyResult ==
    /\ step = "read"
    /\ unread = << >>
    /\ schema = None
    /\ schema' = ArrowType(ChunkKind)
    /\ batches' = <<[type |-> ArrowType(ChunkKind), values |-> << >>]>>
    /\ UNCHANGED <<scenario, step, table, inserted, tx, unread>>

End ==
    /\ step = "read"
    /\ unread = << >>
    /\ schema # None
    /\ step' = "done"
    /\ UNCHANGED <<scenario, table, inserted, tx, unread, schema, batches>>

Next ==
    \/ InsertBatch \/ InsertFails \/ Commit \/ PassParameters
    \/ Select \/ SendChunk \/ ChunkFails \/ EmptyResult \/ End

Spec == Init /\ [][Next]_vars

-----------------------------------------------------------------------------
(***************************************************************************)
(* Properties                                                              *)
(***************************************************************************)

\* What the reader got, in all batches.
Got == FlattenSeq([i \in DOMAIN batches |-> batches[i].values])

Done == step = "done"

Selected == ToSet(Q!Rows(Native, table)) \ {None}

\* A read that was started fails only where a server has a value of a type
\* without a mapping, or one that Int64 cannot hold, and never passes over
\* such a value.  No SQLite result fails, whatever the column was declared and
\* whatever classes its values have: the type of a chunk takes every value of
\* it, so the errors of decode_sqlite_* do not happen (sqlite.rs:774-808,
\* 874-945; docs/src/backends.md:81-85).
FailsOnlyForUnmapped ==
    LET Offending ==
            /\ scenario.db # "sqlite"
            /\ \E c \in Selected :
                  \/ c.class = "interval"
                  \/ c.class = "uint" /\ c.n > MaxInt
    IN  /\ step = "failed" => Offending
        /\ Done => ~Offending

\* The classes a declared type has, or takes precedence over.
Keeps ==
    [TEXT    |-> {"text", "blob", "real", "int"},
     BLOB    |-> {"blob", "real", "int"},
     REAL    |-> {"real", "int"},
     BOOLEAN |-> {"int"},
     INTEGER |-> {"int"}]

Regular ==
    scenario.db = "sqlite" => \A c \in Selected :
        scenario.declared \in DOMAIN Keeps /\ c.class \in Keeps[scenario.declared]

\* Every batch has the type the first one announced, and an empty result the
\* type its rows would have: on a server whatever the values are, in SQLite
\* where no value outranks the declared type.  Otherwise a SQLite result of
\* several chunks may break it, with an expression that is NULL for a whole
\* chunk or with classes that first differ in a later one (sqlite.rs:672-764).
SchemaHolds ==
    \A i \in DOMAIN batches : Regular =>
        /\ batches[i].type = schema
        /\ schema = ArrowType(Column(scenario.db, scenario.declared, << >>))

\* What an inserted value, or a parameter, is when it is read again.
ReadAs(v) ==
    CASE v = None -> None
      [] v # None /\ v.class = "uint" -> Value("int", v.n)
      [] v # None /\ v.class = "int" /\ v.n > MaxInt -> Value("real", Float(v.n))
      [] v # None /\ scenario.db = "sqlite" /\ v.class \in {"date", "time", "timestamp"} ->
            Value("int", v.n)
      [] v # None /\ scenario.kind = "parameter" /\ v.class = "bool" -> Value("int", v.n)
      [] OTHER -> v

\* In a column of the type of its values, the reader of an insert gets the
\* values of all its batches, unless one of them was refused, and then of none:
\* a text \N is not taken for NULL, an integer as far as Int64 goes keeps its
\* value, and temporal values come back as SQLite's integers.  A parameter,
\* whose column has the type of its value, is read back alike, a bool as an
\* integer and an int beyond Int64 as a float (sqlite.rs:284-363,
\* 424-572; postgres.rs:406-560; mysql.rs:400-475; python/database.rs:951-972;
\* docs/src/backends.md:30-31, 52-53).
ReadsBack ==
    Done /\ (Regular \/ scenario.kind = "parameter") =>
        LET written == IF inserted = Len(scenario.batches)
                       THEN FlattenSeq(scenario.batches) ELSE << >>
            all == scenario.rows \o written
        IN  scenario.kind # None => Got = Q!Rows(Native, [i \in DOMAIN all |-> ReadAs(all[i])])

\* cat_file of the direct Python adapter, over a database with the same table.
PythonAnswers ==
    /\ Q!PythonAccepts(scenario.query)
    /\ Q!Executes(Q!PythonSelect(scenario.query))

\* Where both adapters answer a cat_file they give the same part of the same
\* rows and columns, whatever the parameters, how often each is there, and
\* whatever the bounds: the direct adapter is "the same path model"
\* (docs/src/concepts.md:25; fs.rs:398-426, 611-627, 770-803;
\* python.py:133-135, 283-298).  They do not answer alike: the native ones
\* refuse an offset, which docs/src/paths.md:70-75 lists for every path, and
\* the direct one passes over a parameter it does not know.
AdaptersAgree ==
    Done /\ PythonAnswers =>
        LET python == Q!PythonSelect(scenario.query)
            type   == Column(scenario.db, scenario.declared, table)
            rows   == Q!Rows(python, [i \in DOMAIN table |-> Decoded(type, table[i])])
        IN  (\A i \in DOMAIN batches : batches[i].type = ArrowType(type)) =>
              /\ python.columns = Native.columns
              /\ \A start, end \in Bounds :
                    Q!NativeSlice(Got, start, end) = Q!PythonSlice(rows, start, end)

=============================================================================
