------------------------------ MODULE DbTree ------------------------------
(***************************************************************************)
(* The tree of paths that a native database filesystem shows: ls_db,       *)
(* info_db, open_db and open_write_db of fs.rs over the catalog of the     *)
(* database, and the statements of DatabaseDdlMixin (spec.py).             *)
(*                                                                         *)
(* Each call looks at the catalog in several statements, with no           *)
(* transaction around them; other connections create, drop and replace     *)
(* relations in between.  A call here is the statements it has yet to      *)
(* make, and what it has seen so far.  An action is one statement.         *)
(***************************************************************************)
EXTENDS DbPath, FiniteSets

CONSTANTS
    Schemas,
    Names,          \* of relations
    Bodies,         \* what a relation may be
    Catalogs,       \* what the database may hold at the start
    Paths,          \* what is listed, looked up, opened
    DdlPaths,       \* what is created, removed, renamed
    MaxChanges      \* bound on the changes of the catalog

Relations == Schemas \X Names

\* A name is not empty, and the path of a relation not that of another's data.
ASSUME NamesAssumption ==
    /\ Schemas \cup Names \subseteq Seq(STRING)
    /\ \A name \in Names : name # NoName /\ ~NamesData(name)
ASSUME PathsAssumption == Paths \cup DdlPaths \subseteq Seq(Seq(STRING))
ASSUME BoundAssumption == MaxChanges \in Nat

\* keys and references are the constraints.  reads are relations.
ASSUME BodiesAssumption ==
    /\ Bodies \subseteq [kind : {"table", "view"}, columns : SUBSET Seq(STRING),
                         indexes : SUBSET Seq(STRING), keys : SUBSET Seq(STRING),
                         references : SUBSET Seq(STRING), reads : SUBSET Relations,
                         rows : BOOLEAN]
    /\ \A body \in Bodies : body.kind = "table" => body.reads = {}

\* depends_on tells what a view reads from the view by its name alone: no
\* view here reads a relation of its own name, in another schema or its own.
Fits(r, body) == \A read \in body.reads : read[2] # r[2]

IsCatalog(c) ==
    /\ c = [schemas |-> c.schemas, relations |-> c.relations]
    /\ c.schemas \subseteq Schemas
    /\ c.relations = [r \in DOMAIN c.relations |-> c.relations[r]]
    /\ \A r \in DOMAIN c.relations :
          /\ r \in c.schemas \X Names
          /\ Fits(r, c.relations[r])
          /\ \E body \in Bodies :
                c.relations[r] = [body EXCEPT !.rows = c.relations[r].rows]

ASSUME CatalogsAssumption == \A c \in Catalogs : IsCatalog(c)

VARIABLES
    sqlite,     \* SQLite, whose introspection takes more statements
    catalog,    \* schemas, and the relations that exist
    call,       \* the call under way, or the last one and its answer
    span,       \* history: the catalogs there were during the call
    past,       \* history: the catalogs since the caches were emptied
    foreign,    \* history: another connection changed it since
    changes     \* how often it changed

vars == <<sqlite, catalog, call, span, past, foreign, changes>>

\* The call has its answer.
Done == call.result # "none"

\* There is no call.
Idle == call.op = "none"

Exists(c, r) == r \in DOMAIN c.relations

\* External: r can be read.  It is a table, or a view of relations that can be
\* read in their turn: a view stays when what it reads is dropped.
Works(c, r) ==
    \A W \in SUBSET DOMAIN c.relations :
        (\A x \in DOMAIN c.relations : c.relations[x].reads \subseteq W => x \in W) => r \in W

(***************************************************************************)
(* Entries                                                                 *)
(***************************************************************************)
NoTarget == << >>

FileInfo(path, type, kind, target) ==
    [path |-> path, type |-> type, kind |-> kind, target |-> target]

RootInfo == FileInfo(RootPath, "directory", "", NoTarget)
SchemaInfo(s) == FileInfo(SchemaPath(s), "directory", "schema", NoTarget)

\* r is <<schema, name>> here and below.
RelationInfo(r, kind) == FileInfo(RelationPath(r[1], r[2]), "directory", kind, NoTarget)

FacetDir(r, facet) == FileInfo(FacetPath(r[1], r[2], facet), "directory", facet, NoTarget)

ItemInfo(r, facet, item, kind) ==
    FileInfo(FacetItemPath(r[1], r[2], facet, item), "file", kind, NoTarget)

DependsOnEntry(r, read) ==
    FileInfo(FacetItemPath(r[1], r[2], "depends_on", read[2]), "file", "depends_on",
             RelationPath(read[1], read[2]))

RelationDataFile(r, kind, format) ==
    FileInfo(RelationDataPath(r[1], r[2], format), "file", kind, NoTarget)

ViewDefinitionFile(r) ==
    FileInfo(ViewDefinitionPath(r[1], r[2]), "file", "view_definition", NoTarget)

\* The directory of a relation.
RelationEntries(r, kind) ==
    { FacetDir(r, facet) : facet \in Facets \ {"depends_on"} }
    \cup IF kind = "view" THEN { FacetDir(r, "depends_on"), ViewDefinitionFile(r) } ELSE {}

\* A definition names the relations that it reads and, as SQLite keeps it,
\* the view.
Mentions(r, body) == IF sqlite THEN {r} \cup body.reads ELSE body.reads

\* Mutant of Dependencies: the view is among them.
DependenciesAndView(r, mentions) == mentions

\* depends_on leaves out the view itself, which is told by its name.
Dependencies(r, mentions) == { read \in mentions : read[2] # r[2] }

\* The entries of a facet as one statement reads them; keys and references
\* are the two that SQLite's constraints take.
FacetItems(r, body, statement) ==
    CASE statement = "columns" -> { ItemInfo(r, "columns", i, "column") : i \in body.columns }
      [] statement = "indexes" -> { ItemInfo(r, "indexes", i, "index") : i \in body.indexes }
      [] statement = "keys" ->
            { ItemInfo(r, "constraints", i, "primary_key") : i \in body.keys }
      [] statement = "references" ->
            { ItemInfo(r, "constraints", i, "foreign_key") : i \in body.references }
      [] statement = "constraints" ->
            { ItemInfo(r, "constraints", i, "primary_key") : i \in body.keys } \cup
            { ItemInfo(r, "constraints", i, "foreign_key") : i \in body.references }

(***************************************************************************)
(* The statements of each operation                                        *)
(***************************************************************************)
\* relation_info.  SQLite counts the rows of a table in a second statement.
Lookup == IF sqlite THEN <<"relation", "count">> ELSE <<"relation">>

\* view_definition.
ViewDefinition == <<"view", "definition">>

\* list_columns, list_indexes, list_constraints.
Items(facet) ==
    Lookup \o IF facet = "constraints" /\ sqlite THEN <<"keys", "references">> ELSE <<facet>>

FacetEntries(facet) ==
    Lookup \o IF facet = "depends_on" THEN <<"if view">> \o ViewDefinition ELSE Items(facet)

LsPlan(p) ==
    CASE p.kind = "root" -> <<"schemas">>
      [] p.kind = "schema" -> <<"schemas", "relations">>
      [] p.kind = "relation" -> Lookup
      [] p.kind = "facet" -> FacetEntries(p.part)
      [] OTHER -> << >>

InfoPlan(p) ==
    CASE p.kind = "schema" -> <<"schemas">>
      [] p.kind \in {"relation", "facet", "data"} -> Lookup
      [] p.kind = "item" -> FacetEntries(p.part)
      [] p.kind = "definition" -> ViewDefinition
      [] OTHER -> << >>

OpenPlan(p) ==
    CASE p.kind = "data" /\ p.part = "sql" -> Lookup \o <<"ddl">>
      [] p.kind = "data" /\ p.part # "sql" -> Lookup \o <<"query">>
      [] p.kind = "definition" -> ViewDefinition
      [] OTHER -> << >>

WritePlan(p) == Lookup

Plan(op, p) ==
    CASE op = "ls" -> LsPlan(p)
      [] op = "info" -> InfoPlan(p)
      [] op = "open" -> OpenPlan(p)
      [] op = "write" -> WritePlan(p)

\* What is refused for its path alone.
Refusal(op, p) ==
    CASE p.kind = "invalid" -> "invalid"
      [] op = "ls" /\ p.kind \in {"item", "data", "definition"} -> "not a directory"
      [] op = "open" /\ p.kind \notin {"data", "definition"} -> "is a directory"
      [] op = "write" /\ p.kind # "data" -> "invalid"
      [] op = "write" /\ p.kind = "data" /\ p.part = "sql" -> "not supported"
      [] OTHER -> "none"

(***************************************************************************)
(* Answers                                                                 *)
(***************************************************************************)
Ok(c, entries) == [c EXCEPT !.result = "ok", !.entries = entries]

\* Mutant of Failed: the call goes on after an error.
FailedGoesOn(c, error) == [c EXCEPT !.result = error, !.entries = {}]

Failed(c, error) == [c EXCEPT !.result = error, !.todo = << >>, !.entries = {}]

\* The info of an item is an entry of that name in its facet.
FacetItemInfo(c, item) ==
    LET named == { entry \in c.entries : LastName(entry.path) = item } IN
    IF named = {} THEN Failed(c, "not found") ELSE Ok(c, { CHOOSE entry \in named : TRUE })

LsAnswer(c, p) ==
    Ok(c, IF p.kind = "relation" THEN RelationEntries(<<p.schema, p.relation>>, c.kind)
                                 ELSE c.entries)

InfoAnswer(c, p) ==
    LET r == <<p.schema, p.relation>> IN
    CASE p.kind = "root" -> Ok(c, {RootInfo})
      [] p.kind = "schema" -> Ok(c, {SchemaInfo(p.schema)})
      [] p.kind = "relation" -> Ok(c, {RelationInfo(r, c.kind)})
      [] p.kind = "facet" -> Ok(c, {FacetDir(r, p.part)})
      [] p.kind = "item" -> FacetItemInfo(c, p.item)
      [] p.kind = "data" -> Ok(c, {RelationDataFile(r, c.kind, p.part)})
      [] p.kind = "definition" -> Ok(c, {ViewDefinitionFile(r)})

WriteAnswer(c, p) == IF c.kind = "table" THEN Ok(c, {}) ELSE Failed(c, "not supported")

Answer(c) ==
    LET p == Parse(c.path) IN
    CASE c.op = "ls" -> LsAnswer(c, p)
      [] c.op \in {"info", "open"} -> InfoAnswer(c, p)
      [] c.op = "write" -> WriteAnswer(c, p)
      [] OTHER -> Ok(c, {})

\* The call after a statement of it.
Continue(c) == IF c.todo = << >> /\ c.result = "none" THEN Answer(c) ELSE c

NoData == [columns |-> {}, mentions |-> {}, rows |-> FALSE]

NewCall(op, path, todo, kind) ==
    [op |-> op, path |-> path, todo |-> todo, kind |-> kind, latest |-> "", entries |-> {},
     data |-> NoData, result |-> "none"]

NoCall == Ok(NewCall("none", RootPath, << >>, ""), {})

(***************************************************************************)
(* Statements of a call                                                    *)
(***************************************************************************)
\* The relation that the call is about.
Target == LET p == Parse(call.path) IN <<p.schema, p.relation>>

\* s is what the call does next.
Doing(s) == ~Done /\ Head(call.todo) = s

Advance(c) == call' = Continue([c EXCEPT !.todo = Tail(@)])
Fail(error) == call' = Failed(call, error)
OnlyReads == UNCHANGED <<sqlite, catalog, span, past, foreign, changes>>

ListSchemas ==
    /\ Doing("schemas")
    /\ LET p == Parse(call.path) IN
       IF p.kind = "root" \/ p.schema \in catalog.schemas
       THEN Advance([call EXCEPT !.entries =
                       IF p.kind = "root" THEN { SchemaInfo(s) : s \in catalog.schemas } ELSE {}])
       ELSE Fail("not found")
    /\ OnlyReads

ListRelations ==
    /\ Doing("relations")
    /\ LET inSchema == { r \in DOMAIN catalog.relations : r[1] = Target[1] } IN
       Advance([call EXCEPT !.entries =
                  { RelationInfo(r, catalog.relations[r].kind) : r \in inSchema }])
    /\ OnlyReads

\* Mutant of FindRelation: looks among tables only.
FindTable ==
    /\ Doing("relation")
    /\ IF Exists(catalog, Target) /\ catalog.relations[Target].kind = "table"
       THEN Advance([call EXCEPT !.kind = IF @ = "" THEN "table" ELSE @, !.latest = "table"])
       ELSE Fail("not found")
    /\ OnlyReads

\* relation_info, for itself, in view_definition and in depends_on, where a
\* table is not looked into further.  Of a table SQLite's counts the rows first.
\* The kind of the first is used; a later one has its own.
FindRelation ==
    /\ ~Done
    /\ Head(call.todo) \in {"relation", "view", "if view"}
    /\ IF ~Exists(catalog, Target) THEN Fail("not found")
       ELSE LET kind == catalog.relations[Target].kind
                found == [call EXCEPT !.kind = IF @ = "" THEN kind ELSE @, !.latest = kind] IN
            CASE kind = "view" \/ Head(call.todo) = "relation" -> Advance(found)
              [] kind = "table" /\ Head(call.todo) = "view" ->
                    Fail("invalid") \/ (sqlite /\ Fail("other"))
              [] kind = "table" /\ Head(call.todo) = "if view" ->
                    call' = Continue([found EXCEPT !.todo = IF sqlite THEN <<"count">> ELSE << >>])
    /\ OnlyReads

\* SELECT COUNT(*), of what was a table.
CountRows ==
    /\ Doing("count")
    /\ IF call.latest = "view" \/ Works(catalog, Target) THEN Advance(call) ELSE Fail("other")
    /\ OnlyReads

\* SQLite's PRAGMA table_info has to know the columns of a view.
NeedsColumns(statement) == sqlite /\ statement \in {"columns", "keys"}

\* Of a relation that is gone they read nothing, without an error.
ReadFacet ==
    /\ ~Done
    /\ Head(call.todo) \in {"columns", "indexes", "keys", "references", "constraints"}
    /\ IF ~Exists(catalog, Target) THEN Advance(call)
       ELSE IF NeedsColumns(Head(call.todo)) /\ ~Works(catalog, Target) THEN Fail("other")
       ELSE LET body == catalog.relations[Target] IN
            Advance([call EXCEPT !.entries = @ \cup FacetItems(Target, body, Head(call.todo)),
                                 !.data.columns = body.columns])
    /\ OnlyReads

ReadDefinition ==
    /\ Doing("definition")
    /\ IF ~Exists(catalog, Target) \/ catalog.relations[Target].kind # "view" THEN Fail("other")
       ELSE LET mentions == Mentions(Target, catalog.relations[Target]) IN
            Advance([call EXCEPT
                !.data.mentions = mentions,
                !.entries = { DependsOnEntry(Target, read) : read \in Dependencies(Target, mentions) }])
    /\ OnlyReads

\* Mutant of DdlSql: every relation is a table.
DdlSqlOfTables ==
    /\ Doing("ddl")
    /\ call' = [call EXCEPT !.todo = Items("columns")]
    /\ OnlyReads

\* ddl_sql: the definition of a view, the columns of a table.
DdlSql ==
    /\ Doing("ddl")
    /\ call' = [call EXCEPT !.todo = IF call.kind = "view" THEN ViewDefinition ELSE Items("columns")]
    /\ OnlyReads

\* The rows themselves are those of QueryStream.
QueryRows ==
    /\ Doing("query")
    /\ IF Works(catalog, Target)
       THEN Advance([call EXCEPT !.data.rows = catalog.relations[Target].rows])
       ELSE Fail("other")
    /\ OnlyReads

(***************************************************************************)
(* The calls that read                                                     *)
(***************************************************************************)
Call(op, path) ==
    /\ Idle
    /\ LET p == Parse(path) IN
       call' = IF Refusal(op, p) # "none"
               THEN Failed(NewCall(op, path, << >>, ""), Refusal(op, p))
               ELSE Continue(NewCall(op, path, Plan(op, p), ""))
    /\ UNCHANGED <<sqlite, catalog, span, past, foreign, changes>>

\* The caller takes the answer.
Return ==
    /\ Done /\ ~Idle
    /\ call' = NoCall
    /\ span' = {catalog}
    /\ UNCHANGED <<sqlite, catalog, past, foreign, changes>>

(***************************************************************************)
(* Changes of the catalog                                                  *)
(***************************************************************************)
Put(c, r, body) ==
    [c EXCEPT !.relations = [x \in DOMAIN @ \cup {r} |-> IF x = r THEN body ELSE @[x]]]

Without(c, gone) ==
    [c EXCEPT !.relations = [x \in DOMAIN @ \ gone |-> @[x]]]

Becomes(new) ==
    /\ catalog' = new
    /\ changes' = changes + 1
    /\ span' = IF Idle THEN {new} ELSE span \cup {new}

\* External: another connection creates, replaces or drops a relation, or
\* creates or drops a schema.
Change ==
    /\ changes < MaxChanges
    /\ Idle \/ ~Done
    /\ \/ \E r \in Relations, body \in Bodies :
             r[1] \in catalog.schemas /\ Fits(r, body) /\ Becomes(Put(catalog, r, body))
       \/ \E r \in DOMAIN catalog.relations : Becomes(Without(catalog, {r}))
       \/ \E s \in Schemas : Becomes([catalog EXCEPT !.schemas = @ \cup {s}])
       \/ \E s \in catalog.schemas :
             Becomes([Without(catalog, {s} \X Names) EXCEPT !.schemas = @ \ {s}])
    /\ catalog' # catalog
    /\ past' = past \cup {catalog'}
    /\ foreign' = TRUE
    /\ UNCHANGED <<sqlite, call>>

\* Mutant of DdlPath: the extension is cut off.
DdlPathOfRelation(path) ==
    [schema |-> path[1], extension |-> NoPart,
     relation |-> IF Len(path) = 1 THEN NoName
                  ELSE IF Len(path[2]) > 1 THEN WithoutLast(path[2]) ELSE path[2]]

\* _ddl_path: here whatever follows the last dot is an extension.
DdlPath(path) ==
    LET name == path[2] IN
    IF Len(path) = 1 THEN [schema |-> path[1], relation |-> NoName, extension |-> NoPart]
    ELSE IF Len(name) > 1
    THEN [schema |-> path[1], relation |-> WithoutLast(name), extension |-> LastWord(name)]
    ELSE [schema |-> path[1], relation |-> name, extension |-> NoPart]

\* What is created, removed or renamed has a name that a relation may have.
ASSUME DdlPathsAssumption ==
    \A path \in DdlPaths :
        /\ Len(path) \in {1, 2} /\ Normalize(path) = path
        /\ DdlPath(path).relation \in Names \cup {NoName}
        /\ Len(path) = 2 => LastWord(path[2]) # NoPart

DdlTarget(path) == <<DdlPath(path).schema, DdlPath(path).relation>>

NamesRelation(path) ==
    DdlPath(path).relation # NoName /\ DdlPath(path).extension = NoPart

\* Mutant of InvalidateCache: the cached entries stay.
InvalidateNothing == past' = past \cup {catalog'} /\ foreign' = FALSE

\* invalidate_cache, which forgets all that info has answered.
InvalidateCache == past' = {catalog'} /\ foreign' = FALSE

\* A statement that did what it says, and one that the database refused.
Statement(op, path, new) ==
    /\ Becomes(new)
    /\ call' = Ok(NewCall(op, path, << >>, ""), {})
    /\ InvalidateCache
    /\ UNCHANGED sqlite

Refused(op, path) ==
    /\ call' = Failed(NewCall(op, path, << >>, ""), "refused")
    /\ UNCHANGED <<sqlite, catalog, span, past, foreign, changes>>

MkDir(path, body) ==
    /\ Idle /\ changes < MaxChanges
    /\ NamesRelation(path)
    /\ Fits(DdlTarget(path), body)
    /\ LET r == DdlTarget(path) IN
       IF r[1] \in catalog.schemas /\ ~Exists(catalog, r)
       THEN Statement("mkdir", path, Put(catalog, r, body))
       ELSE Refused("mkdir", path)

\* SQLite does not rename views.
Mv(path1, path2) ==
    /\ Idle /\ changes < MaxChanges
    /\ NamesRelation(path1) /\ NamesRelation(path2)
    /\ LET old == DdlTarget(path1)
           new == DdlTarget(path2) IN
       /\ old[1] = new[1]
       /\ Exists(catalog, old) => Fits(new, catalog.relations[old])
       /\ IF /\ Exists(catalog, old) /\ ~Exists(catalog, new)
             /\ sqlite => catalog.relations[old].kind = "table"
          THEN Statement("mv", path1, Without(Put(catalog, new, catalog.relations[old]), {old}))
          ELSE Refused("mv", path1)

\* rm_file of a path with an extension.  A view refuses, as SQLite's do.
RmRows(path) ==
    /\ Idle /\ changes < MaxChanges
    /\ DdlPath(path).relation # NoName /\ DdlPath(path).extension # NoPart
    /\ LET r == DdlTarget(path) IN
       IF /\ Exists(catalog, r)
          /\ catalog.relations[r].kind = "table"
       THEN Statement("rm", path, Put(catalog, r, [catalog.relations[r] EXCEPT !.rows = FALSE]))
       ELSE Refused("rm", path)

\* rm_file of a relation asks info for its kind, which a cache may know.
RmFile(path) ==
    /\ Idle /\ changes < MaxChanges
    /\ NamesRelation(path)
    /\ \/ call' = NewCall("rm", path, InfoPlan(Parse(path)) \o <<"drop">>, "")
       \/ \E c \in past :
             /\ Exists(c, DdlTarget(path))
             /\ call' = NewCall("rm", path, <<"drop">>, c.relations[DdlTarget(path)].kind)
    /\ UNCHANGED <<sqlite, catalog, span, past, foreign, changes>>

\* Some databases keep a relation that a view reads.
Read(r) == \E v \in DOMAIN catalog.relations : r \in catalog.relations[v].reads

\* The database drops a relation of the kind that the statement says.
HasKind(r, kind) == IF Exists(catalog, r) THEN catalog.relations[r].kind = kind ELSE FALSE

Drop ==
    /\ Doing("drop")
    /\ LET r == DdlTarget(call.path) IN
       \/ HasKind(r, call.kind) /\ Statement("rm", call.path, Without(catalog, {r}))
       \/ (~HasKind(r, call.kind) \/ Read(r)) /\ Refused("rm", call.path)

-----------------------------------------------------------------------------

Init ==
    /\ sqlite \in BOOLEAN
    /\ catalog \in Catalogs
    /\ call = NoCall
    /\ span = {catalog}
    /\ past = {catalog}
    /\ foreign = FALSE
    /\ changes = 0

Next ==
    \/ \E op \in {"ls", "info", "open", "write"}, path \in Paths : Call(op, path)
    \/ Return
    \/ ListSchemas \/ ListRelations \/ FindRelation \/ CountRows \/ ReadFacet
    \/ ReadDefinition \/ DdlSql \/ QueryRows
    \/ \E path \in DdlPaths, body \in Bodies : MkDir(path, body)
    \/ \E path1, path2 \in DdlPaths : Mv(path1, path2)
    \/ \E path \in DdlPaths : RmRows(path) \/ RmFile(path)
    \/ Drop
    \/ Change

Spec == Init /\ [][Next]_vars

-----------------------------------------------------------------------------
(* What the paths stand for, catalog by catalog.                           *)

RelationNodes(c, r) ==
    LET body == c.relations[r] IN
    {RelationInfo(r, body.kind)} \cup RelationEntries(r, body.kind)
    \cup (UNION { FacetItems(r, body, s) : s \in {"columns", "indexes", "constraints"} })
    \cup { DependsOnEntry(r, read) : read \in body.reads }

\* What is found by listing, from the root.
Listed(c) ==
    { SchemaInfo(s) : s \in c.schemas } \cup
    UNION { RelationNodes(c, r) : r \in DOMAIN c.relations }

\* The data of relations is in no list.
DataFiles(c) ==
    { RelationDataFile(r, c.relations[r].kind, f) : r \in DOMAIN c.relations, f \in Formats }

\* A table answers for its depends_on too, with nothing in it.
Known(c) ==
    {RootInfo} \cup Listed(c) \cup DataFiles(c) \cup
    { FacetDir(r, "depends_on") : r \in DOMAIN c.relations }

Children(c, path) ==
    { n \in Listed(c) : Len(n.path) = Len(path) + 1 /\ SubSeq(n.path, 1, Len(path)) = path }

\* What asks the database for the rows or, in SQLite, the columns of a relation.
\* SQLite's indexes ask for rows only if it was a table when it was looked up.
ReadsRelation(op, p) ==
    \/ op = "open" /\ p.kind = "data" /\ p.part # "sql"
    \/ sqlite /\ p.kind \in {"facet", "item"} /\ p.part # "depends_on"

\* The nodes at a path on which an operation must succeed.
Serves(c, op, path) ==
    LET p == Parts(path) IN
    { n \in {RootInfo} \cup Listed(c) \cup DataFiles(c) :
        /\ n.path = path
        /\ op = "ls" => n.type = "directory"
        /\ op = "open" => p.kind \in {"data", "definition"}
        /\ op = "write" => p.kind = "data" /\ p.part # "sql" /\ n.kind = "table"
        /\ ReadsRelation(op, p) => Works(c, <<p.schema, p.relation>>) }

\* What a file holds.
Content(c, path, kind) ==
    LET p == Parts(path)
        r == <<p.schema, p.relation>> IN
    IF ~Exists(c, r) THEN NoData
    ELSE IF p.part \notin {"", "sql"} THEN [NoData EXCEPT !.rows = c.relations[r].rows]
    ELSE IF kind = "table" THEN [NoData EXCEPT !.columns = c.relations[r].columns]
    ELSE [NoData EXCEPT !.mentions = Mentions(r, c.relations[r])]

-----------------------------------------------------------------------------
(* Properties                                                              *)

\* Types; and a call that has no answer has a statement to make.
TypeOK ==
    /\ sqlite \in BOOLEAN /\ foreign \in BOOLEAN
    /\ changes \in 0 .. MaxChanges + 1
    /\ catalog \in span \cap past
    /\ \A c \in span \cup past : IsCatalog(c)
    /\ {call.kind, call.latest} \subseteq {"", "table", "view"}
    /\ call.result \in {"none", "ok", "not found", "invalid", "other", "refused",
                        "not a directory", "is a directory", "not supported"}
    /\ Done <=> call.todo = << >>

\* A list has what was there all through the call and nothing that never
\* was, however the catalog changed between the statements of ls_db: with no
\* change it is the directory.
ListingIsRegular ==
    call.op = "ls" /\ call.result = "ok" =>
        LET path == Normalize(call.path) IN
        /\ call.entries \subseteq UNION { Children(c, path) : c \in span }
        /\ \A n \in UNION { Children(c, path) : c \in span } :
              (\A c \in span : n \in Children(c, path)) => n \in call.entries

\* info_db and open_db describe what was there, under the path asked for, at
\* a moment of the call, so that what is listed has the info it is listed
\* with; open_db's content is of a moment too; open_write_db saw a table.
AnswersAreRegular ==
    LET path == Normalize(call.path) IN
    call.result = "ok" =>
        /\ call.op \in {"info", "open"} =>
              \E n \in call.entries : \E c \in span : n \in Known(c) /\ n.path = path
        /\ call.op = "open" => \E c \in span : call.data = Content(c, path, call.kind)
        /\ call.op = "write" => \E c \in span : Serves(c, "write", path) # {}

\* A call fails only if nothing stood at its path, unchanged, all the time:
\* what is listed while the catalog is at rest can be looked up, and what
\* changes elsewhere in the catalog fails nothing but the reading of a view of
\* it.  The rows of a view whose table is gone cannot be read (fs.rs:373-385),
\* nor in SQLite its columns, keys and what is told from them
\* (sqlite.rs:94-102); such a view has its info, definition and .sql as any
\* other.  (A view that becomes a table does change: its .sql and its
\* definition may fail.)
FailsOnlyIfMissing ==
    call.op \in {"ls", "info", "open", "write"} /\ Done /\ call.result # "ok" =>
        \A c1 \in span : \A n \in Serves(c1, call.op, Normalize(call.path)) :
           \E c2 \in span : n \notin Serves(c2, call.op, Normalize(call.path))

\* rm_file of a relation nothing reads fails only if another connection has
\* changed the catalog since the caches were emptied: no kind that this
\* filesystem's own mkdir, mv and rm_file made stale is used.
RemovalUsesOwnChanges ==
    [][ Drop /\ call'.result = "refused" /\ Exists(catalog, DdlTarget(call.path))
          => foreign \/ Read(DdlTarget(call.path)) ]_vars

\* rm_file removes the relation at the path, if that is the path of a
\* relation, and the rows of the relation of which it is a data path.
RemovesWhatItNames ==
    [][ call'.op = "rm" /\ catalog' # catalog /\ call' # call =>
          \E r \in DOMAIN catalog.relations :
             \/ /\ call'.path = RelationPath(r[1], r[2])
                /\ catalog' = Without(catalog, {r})
             \/ /\ \E f \in Formats : call'.path = RelationDataPath(r[1], r[2], f)
                /\ catalog' = Put(catalog, r, [catalog.relations[r] EXCEPT !.rows = FALSE]) ]_vars

=============================================================================
