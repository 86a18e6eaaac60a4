--------------------------- MODULE MCRelationRead ---------------------------
\* Small instances of RelationRead for TLC.
EXTENDS RelationRead, FiniteSets

Scenario(db, declared, rows, kind, written, query) ==
    [db |-> db, declared |-> declared, rows |-> rows, kind |-> kind, batches |-> written,
     query |-> query]

UpTo(n, S) == UNION {[1 .. k -> S] : k \in 0 .. n}

\* Results of two chunks over a SQLite column, with every mixture of classes.
SqliteCells ==
    {None, Value("int", 1), Value("int", 5), Value("real", 1), Marker, Garbled}

SqliteResults ==
    { Scenario("sqlite", declared, rows, None, << >>, << >>) :
        declared \in {"TEXT", "BLOB", "REAL", "BOOLEAN", "INTEGER", "NUMERIC", "NULL"},
        rows \in UpTo(3, SqliteCells) }

\* A column of every type of the servers, with the class of its values.
ServerColumns ==
    { <<"postgres", "BOOL", "bool">>, <<"postgres", "INT8", "int">>,
      <<"postgres", "FLOAT8", "real">>, <<"postgres", "BYTEA", "blob">>,
      <<"postgres", "TEXT", "text">>, <<"postgres", "DATE", "date">>,
      <<"postgres", "TIME", "time">>, <<"postgres", "TIMESTAMP", "timestamp">>,
      <<"postgres", "NUMERIC", "rich">>, <<"postgres", "INTERVAL", "interval">>,
      <<"mysql", "BOOLEAN", "bool">>, <<"mysql", "BIGINT", "int">>,
      <<"mysql", "BIGINT UNSIGNED", "uint">>, <<"mysql", "DOUBLE", "real">>,
      <<"mysql", "BLOB", "blob">>, <<"mysql", "TEXT", "text">>, <<"mysql", "DATE", "date">>,
      <<"mysql", "TIMESTAMP", "timestamp">>, <<"mysql", "JSON", "rich">>,
      <<"mysql", "TIME", "interval">> }

\* A number of each class, and one only an unsigned integer goes up to.
Numbers(class) == IF class = "uint" THEN {1, MaxInt + 1} ELSE {0, 1}

ServerResults ==
    UNION { { Scenario(c[1], c[2], rows, None, << >>, << >>) :
                rows \in UpTo(3, {None} \cup {Value(c[3], n) : n \in Numbers(c[3])}) } :
            c \in ServerColumns }

\* An Arrow kind and a column that is made for it.
Inserts ==
    { <<"sqlite", "bool", "BOOLEAN">>, <<"sqlite", "int", "INTEGER">>,
      <<"sqlite", "uint", "INTEGER">>, <<"sqlite", "real", "REAL">>,
      <<"sqlite", "text", "TEXT">>, <<"sqlite", "blob", "BLOB">>,
      <<"sqlite", "date", "INTEGER">>, <<"sqlite", "list", "TEXT">>,
      <<"postgres", "bool", "BOOL">>, <<"postgres", "int", "INT4">>,
      <<"postgres", "uint", "INT8">>, <<"postgres", "real", "FLOAT8">>,
      <<"postgres", "text", "VARCHAR">>, <<"postgres", "blob", "BYTEA">>,
      <<"postgres", "timestamp", "TIMESTAMP">>,
      <<"mysql", "bool", "BOOLEAN">>, <<"mysql", "int", "INT">>,
      <<"mysql", "uint", "BIGINT UNSIGNED">>, <<"mysql", "real", "DOUBLE">>,
      <<"mysql", "text", "VARCHAR">>, <<"mysql", "blob", "LONGBLOB">>,
      <<"mysql", "date", "DATE">> }

\* Up to two batches, the second of one value, after a row or none.
Written ==
    UNION { LET cells == {None} \cup {Value(i[2], n) : n \in Numbers(i[2])}
            IN  { Scenario(i[1], i[3], rows, i[2], written, << >>) :
                    rows \in {<< >>, <<None>>},
                    written \in { <<b>> : b \in UpTo(3, cells) \ {<< >>} }
                                  \cup { <<b, <<c>>>> : b \in UpTo(2, cells) \ {<< >>}, c \in cells } } :
            i \in Inserts }

Parameters ==
    { Scenario("sqlite", "NULL", << >>, "parameter", <<<<v>>>>, << >>) :
        v \in {None, Value("bool", 1), Value("real", 1), Marker, Garbled}
                \cup {Value("int", n) : n \in {MaxExact + 1, MaxInt, MaxInt + 1}} }

\* Query strings of up to two parameters, good and bad ones.
Pairs ==
    { Q!Pair("columns", items, None, "") :
        items \in { <<Q!Item("", FALSE)>>, <<Q!Item("a", FALSE)>>, <<Q!Item("a", TRUE)>>,
                    <<Q!Item("b", FALSE), Q!Item("a", FALSE)>>,
                    <<Q!Item("a", FALSE), Q!Item("", FALSE)>> } }
      \cup { Q!Pair(key, << >>, n, "") : key \in {"limit", "offset"}, n \in {0, 1, 2} }
      \cup { Q!Pair(key, << >>, None, text) : key \in {"limit", "offset"}, text \in {"", "junk"} }
      \cup { Q!Pair("where", << >>, None, text) : text \in {"", "junk", "not null"} }
      \cup { Q!Pair("other", << >>, None, "") }

Reads ==
    { Scenario("sqlite", "INTEGER", <<Value("int", 1), None, Value("int", 3)>>, None, << >>, query) :
        query \in UpTo(2, Pairs) }

MCColumns == {"a", "b"}
MCScenarios == SqliteResults \cup ServerResults \cup Written \cup Parameters \cup Reads
MCBounds == {None} \cup -4 .. 4

=============================================================================
