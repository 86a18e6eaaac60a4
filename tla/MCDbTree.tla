----------------------------- MODULE MCDbTree -----------------------------
\* Small instances of DbTree for TLC.
EXTENDS DbTree

main == <<"main">>
t == <<"t">>
v == <<"v">>
Id == <<"id">>

MCSchemas == {main}
MCNames == {t, v}

Table == [kind |-> "table", columns |-> {Id}, indexes |-> {<<"idx">>},
          keys |-> {<<"pk">>}, references |-> {<<"fk">>}, reads |-> {}, rows |-> TRUE]
OtherTable == [kind |-> "table", columns |-> {Id, <<"name">>}, indexes |-> {},
          keys |-> {}, references |-> {<<"fk">>}, reads |-> {}, rows |-> TRUE]
View == [kind |-> "view", columns |-> {Id}, indexes |-> {}, keys |-> {}, references |-> {},
         reads |-> {<<main, t>>}, rows |-> TRUE]

MCBodies == {Table, OtherTable, View}

Holds(relations) == [schemas |-> {main}, relations |-> relations]

\* A table and a view of it; a table.
MCCatalogs ==
    { Holds([r \in {<<main, t>>, <<main, v>>} |-> IF r[2] = t THEN Table ELSE View]),
      Holds([r \in {<<main, v>>} |-> OtherTable]) }

\* Every path there may be to the relation of the schema, and to items.
PathsOf(r) ==
    {RelationPath(r[1], r[2]), ViewDefinitionPath(r[1], r[2])}
    \cup { FacetPath(r[1], r[2], f) : f \in Facets }
    \cup { FacetItemPath(r[1], r[2], "columns", i) : i \in {Id, <<"name">>} }
    \cup { FacetItemPath(r[1], r[2], "constraints", i) : i \in {<<"pk">>, <<"fk">>} }
    \cup { FacetItemPath(r[1], r[2], "indexes", <<"idx">>),
           FacetItemPath(r[1], r[2], "depends_on", t) }
    \cup { RelationDataPath(r[1], r[2], f) : f \in {"csv", "sql"} }

MCPaths ==
    {RootPath, SchemaPath(main), <<NoName, main, NoName, v>>, <<main, v, <<"unknown">>>>}
    \cup PathsOf(<<main, v>>)

MCDdlPaths ==
    { RelationPath(main, t), RelationPath(main, v), RelationDataPath(main, t, "csv") }

\* A name that is another with a word after it.
a == <<"a">>
ab == <<"a", "b">>
MCDottedNames == {a, ab}
MCDottedBodies == {Table}
MCDottedCatalogs == { Holds([r \in MCSchemas \X MCDottedNames |-> Table]) }
MCDottedPaths == PathsOf(<<main, ab>>)
MCDottedDdlPaths == { RelationPath(main, ab) }

\* Normalize is the sequence filter of the standard library.
ASSUME NormalizeIsSelectSeq ==
    \A n \in 0 .. 4 : \A raw \in [1 .. n -> {NoName, t, v}] :
        Normalize(raw) = SelectSeq(raw, LAMBDA name : name # NoName)

=============================================================================
