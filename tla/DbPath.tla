------------------------------ MODULE DbPath ------------------------------
(***************************************************************************)
(* The paths of a database filesystem (path.rs).  A name is the sequence   *)
(* of the words between its dots, and a path is the sequence of the names  *)
(* between its slashes; two slashes in a row have the name of no words     *)
(* between them.  What follows the "?" of a path is not part of it here.   *)
(***************************************************************************)
EXTENDS Naturals, Sequences

Formats == {"parquet", "arrow", "csv", "jsonl", "sql"}
Facets == {"columns", "indexes", "constraints", "depends_on"}

NoName == << >>
NoPart == ""

\* What a path stands for; part is the facet or the format.
DbPath(kind, schema, relation, part, item) ==
    [kind |-> kind, schema |-> schema, relation |-> relation, part |-> part, item |-> item]

Invalid == DbPath("invalid", NoName, NoName, NoPart, NoName)

LastWord(name) == name[Len(name)]
LastName(path) == path[Len(path)]
WithoutLast(name) == SubSeq(name, 1, Len(name) - 1)

\* A known format after the last dot makes it the data of a relation.
NamesData(name) == Len(name) > 1 /\ LastWord(name) \in Formats

NamesFacet(name) == Len(name) = 1 /\ name[1] \in Facets

DefinitionName == <<"definition", "sql">>

\* filter(|part| !part.is_empty()).
Normalize(raw) ==
    LET kept[n \in 0 .. Len(raw)] ==
          IF n = 0 THEN << >>
          ELSE IF raw[n] = NoName THEN kept[n - 1] ELSE Append(kept[n - 1], raw[n])
    IN  kept[Len(raw)]

\* What the names of a normalized path stand for.
Parts(path) ==
    CASE Len(path) = 0 -> DbPath("root", NoName, NoName, NoPart, NoName)
      [] Len(path) = 1 -> DbPath("schema", path[1], NoName, NoPart, NoName)
      [] Len(path) = 2 /\ NamesData(path[2]) ->
            DbPath("data", path[1], WithoutLast(path[2]), LastWord(path[2]), NoName)
      [] Len(path) = 2 /\ ~NamesData(path[2]) ->
            DbPath("relation", path[1], path[2], NoPart, NoName)
      [] Len(path) = 3 /\ path[3] = DefinitionName ->
            DbPath("definition", path[1], path[2], NoPart, NoName)
      [] Len(path) = 3 /\ NamesFacet(path[3]) ->
            DbPath("facet", path[1], path[2], path[3][1], NoName)
      [] Len(path) = 4 /\ NamesFacet(path[3]) ->
            DbPath("item", path[1], path[2], path[3][1], path[4])
      [] OTHER -> Invalid

Parse(raw) == Parts(Normalize(raw))

-----------------------------------------------------------------------------

RootPath == << >>
SchemaPath(s) == <<s>>
RelationPath(s, r) == <<s, r>>
FacetPath(s, r, facet) == <<s, r, <<facet>>>>
FacetItemPath(s, r, facet, item) == <<s, r, <<facet>>, item>>
RelationDataPath(s, r, format) == <<s, Append(r, format)>>
ViewDefinitionPath(s, r) == <<s, r, DefinitionName>>

=============================================================================
