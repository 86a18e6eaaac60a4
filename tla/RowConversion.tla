--------------------------- MODULE RowConversion ---------------------------
(***************************************************************************)
(* The values of one column on their way between a database and Arrow: the *)
(* Arrow type a chunk of rows gets (ColumnValues of sqlite.rs, postgres.rs *)
(* and mysql.rs), the conversion of a value to it, and the way a value is  *)
(* bound by an insert or as a parameter.                                   *)
(*                                                                         *)
(* A value is its class, the class it was rendered from if it is the text  *)
(* of another value or that text's bytes, and a number that tells values   *)
(* of a class apart: the integer itself, for integers.                     *)
(*                                                                         *)
(* External: sqlx decodes a value of a server's column as the Rust type    *)
(* that push asks for, whatever the value.                                 *)
(***************************************************************************)
EXTENDS Integers, Sequences, SequencesExt

CONSTANTS
    MaxInt,     \* i64::MAX
    MaxExact,   \* 2^53, up to which every integer is a float
    MaxBinds,   \* values one statement of SQLite or MySQL may bind
    None        \* NULL; also no type, no kind

\* Scaled down: the model needs some integers that are no floats, and their
\* rounding is that of one power of two above MaxExact.
ASSUME WidthAssumption ==
    /\ MaxExact \in Nat /\ MaxExact % 4 = 0
    /\ MaxInt \in MaxExact + 1 .. 2 * MaxExact - 1
ASSUME MaxBindsAssumption == MaxBinds \in Nat

Databases == {"sqlite", "postgres", "mysql"}

Rendered(class, from, n) == [class |-> class, from |-> from, n |-> n]
Value(class, n) == Rendered(class, class, n)

Marker == Value("text", 0)    \* the text \N
Garbled == Value("blob", 0)   \* bytes that are no UTF-8

\* What is rendered otherwise is told apart; bytes that are no UTF-8 are not.
Lossy(v) == Rendered("text", v.from, IF v = Garbled THEN -1 ELSE v.n)

\* External: the nearest float, ties to the even one.
Float(n) == IF n <= MaxExact \/ n % 2 = 0 THEN n ELSE 4 * ((n + 1) \div 4)

-----------------------------------------------------------------------------
(* From a database to Arrow.                                               *)

\* Mutant of SqliteKinds: integers are looked for first.
SqliteKindsIntFirst ==
    << <<"int", {"INTEGER"}>>, <<"text", {"TEXT"}>>, <<"blob", {"BLOB"}>>,
       <<"real", {"REAL"}>>, <<"bool", {"BOOLEAN"}>> >>

\* ColumnValues::new: the first kind that one of the names belongs to.
SqliteKinds ==
    << <<"text", {"TEXT"}>>, <<"blob", {"BLOB"}>>, <<"real", {"REAL"}>>,
       <<"bool", {"BOOLEAN"}>>, <<"int", {"INTEGER"}>> >>

PostgresKinds ==
    << <<"bool", {"BOOL"}>>,
       <<"int", {"INT2", "INT4", "OID", "INT8"}>>,
       <<"real", {"FLOAT4", "FLOAT8"}>>,
       <<"blob", {"BYTEA"}>>,
       <<"text", {"TEXT", "VARCHAR", "BPCHAR", "CHAR", "NAME"}>>,
       <<"date", {"DATE"}>>,
       <<"time", {"TIME"}>>,
       <<"timestamp", {"TIMESTAMP", "TIMESTAMPTZ"}>>,
       <<"rich", {"NUMERIC", "UUID", "JSON", "JSONB"}>> >>

MySqlKinds ==
    << <<"bool", {"BOOLEAN"}>>,
       <<"int", {"TINYINT", "SMALLINT", "MEDIUMINT", "INT", "BIGINT", "YEAR"}>>,
       <<"uint", {"TINYINT UNSIGNED", "SMALLINT UNSIGNED", "MEDIUMINT UNSIGNED",
                  "INT UNSIGNED", "BIGINT UNSIGNED", "BIT"}>>,
       <<"real", {"FLOAT", "DOUBLE"}>>,
       <<"blob", {"BINARY", "VARBINARY", "TINYBLOB", "BLOB", "MEDIUMBLOB", "LONGBLOB"}>>,
       <<"text", {"CHAR", "VARCHAR", "TINYTEXT", "TEXT", "MEDIUMTEXT", "LONGTEXT",
                  "ENUM", "SET", "NULL"}>>,
       <<"date", {"DATE"}>>,
       <<"timestamp", {"DATETIME", "TIMESTAMP"}>>,
       <<"rich", {"DECIMAL", "JSON"}>> >>

FirstKind(kinds, names, otherwise) ==
    LET hits == {i \in DOMAIN kinds : kinds[i][2] \cap names # {}}
    IN  IF hits = {} THEN otherwise ELSE kinds[Min(hits)][1]

\* External: the name sqlx gives to the type of a SQLite value.
SqliteName == [int |-> "INTEGER", real |-> "REAL", text |-> "TEXT", blob |-> "BLOB"]

NamesOf(cells) == {SqliteName[c.class] : c \in ToSet(cells) \ {None}}

\* Mutant of SqliteColumn: the declared type counts only for want of values.
SqliteColumnByValues(declared, cells) ==
    FirstKind(SqliteKinds, IF NamesOf(cells) = {} THEN {declared} ELSE NamesOf(cells), "text")

\* sqlite_rows_to_batch, and sqlite_schema for no rows.
SqliteColumn(declared, cells) ==
    FirstKind(SqliteKinds, {declared} \cup NamesOf(cells), "text")

\* The servers' columns have the type of their metadata, first() of the names.
Column(db, declared, cells) ==
    CASE db = "sqlite"   -> SqliteColumn(declared, cells)
      [] db = "postgres" -> FirstKind(PostgresKinds, {declared}, "unmapped")
      [] db = "mysql"    -> FirstKind(MySqlKinds, {declared}, "unmapped")

\* data_type and finish.
ArrowType(kind) ==
    CASE kind \in {"rich", "unmapped"} -> "text"
      [] kind = "uint" -> "int"
      [] OTHER -> kind

\* The classes decode_sqlite_* take; text renders every class.
SqliteDecodes ==
    LET all == {"bool", "int", "real", "text", "blob"}
    IN  [bool |-> {"bool", "int"}, int |-> {"bool", "int"}, real |-> {"bool", "int", "real"},
         text |-> all, blob |-> all]

\* push succeeds.
Decodes(db, kind, cell) ==
    cell # None =>
        IF db = "sqlite" THEN cell.class \in SqliteDecodes[kind]
        ELSE kind # "unmapped" /\ (kind = "uint" => cell.n <= MaxInt)

\* The Arrow value that push makes of a cell.
Decoded(kind, cell) ==
    LET type == ArrowType(kind)
    IN  CASE cell = None -> None
          [] cell # None /\ cell.class = type -> cell
          [] cell # None /\ cell.class # type ->
               CASE type = "bool" -> Value("bool", IF cell.n = 0 THEN 0 ELSE 1)
                 [] type = "int"  -> Value("int", cell.n)
                 [] type = "real" -> Value("real", Float(cell.n))
                 [] type = "text" -> Lossy(cell)
                 [] type = "blob" -> Rendered("blob", cell.from, cell.n)

-----------------------------------------------------------------------------
(* From Arrow to a database.                                               *)

\* The Arrow kinds that bind_arrow_value and copy_csv_value take; widths are
\* left out but for unsigned 64-bit integers.
Bindable(db) ==
    {"null", "bool", "int", "uint", "real", "text", "blob"}
      \cup IF db = "sqlite" THEN {"date", "time", "timestamp"} ELSE {}

Binds(db, kind, value) ==
    value # None =>
        /\ kind \in Bindable(db)
        /\ db # "mysql" /\ kind = "uint" => value.n <= MaxInt

\* Mutant of CopyField: a field is quoted when CSV needs it, not when COPY does.
CopyFieldIfNecessary(value) ==
    [quoted |-> FALSE,
     text   |-> CASE value = None -> Marker
                  [] value # None /\ value.class = "text" -> value
                  [] OTHER -> Rendered("text", value.from, value.n)]

\* A field of the CSV that COPY reads: NULL is \N without quotes.
CopyField(value) ==
    IF value = None THEN [quoted |-> FALSE, text |-> Marker]
    ELSE [quoted |-> TRUE, text |-> IF value.class = "text" THEN value
                                    ELSE Rendered("text", value.from, value.n)]

\* External: COPY reads a field as a value of the column, one of the same class.
Copied(field) ==
    IF ~field.quoted /\ field.text = Marker THEN None
    ELSE Value(IF field.text.from = "uint" THEN "int" ELSE field.text.from, field.text.n)

\* What is in the table afterwards.
Bound(db, value) ==
    CASE value = None     -> None
      [] db = "postgres"  -> Copied(CopyField(value))
      [] db = "mysql"     -> value
      [] db = "sqlite"    ->
           IF value.class \in {"real", "text", "blob"} THEN value ELSE Value("int", value.n)

\* One INSERT for a batch, a placeholder for each value; COPY has none.
StatementFits(db, rows) == db = "postgres" \/ rows <= MaxBinds

\* Mutant of Parameter: a float is tried before an int.
ParameterFloatFirst(value) ==
    IF value # None /\ value.class = "int" THEN Value("real", Float(value.n)) ELSE value

\* py_value_to_db_value and bind_value: an int beyond i64 becomes a float.
Parameter(value) ==
    IF value # None /\ value.class = "int" /\ value.n > MaxInt
    THEN Value("real", Float(value.n)) ELSE value

=============================================================================
