--------------------------- MODULE RelationQuery ---------------------------
(***************************************************************************)
(* The two readings of the query string and the bounds of a cat_file: that *)
(* of the native filesystems (select_options_from_query and cat_file_db of *)
(* fs.rs, select_sql of sql.rs) and that of the direct Python adapter      *)
(* (_select_sql and cat_file of python.py).                                *)
(*                                                                         *)
(* A query string is a sequence of pairs.  The value of columns is a       *)
(* sequence of items, a name or nothing, with blanks around it or not; any *)
(* other value is a number, or a text that is none.                        *)
(***************************************************************************)
EXTENDS Integers, Sequences, SequencesExt

CONSTANTS
    Columns,    \* the columns of the relation
    None        \* no number; NULL in a row

Item(name, padded) == [name |-> name, padded |-> padded]
Pair(key, items, number, text) ==
    [key |-> key, items |-> items, number |-> number, text |-> text]

\* A select statement.  No columns are all of them, limit and offset are sets
\* of at most one number, and a where of "" is none.
All == [columns |-> << >>, where |-> "", limit |-> {}, offset |-> {}]

-----------------------------------------------------------------------------
(* The native filesystems.                                                 *)

\* validate_predicate: one expression, and nothing after it.
Predicate(text) == text \notin {"", "junk"}

\* parse::<u64>, the predicate, and the keys there are.
Accepts(pair) ==
    \/ pair.key = "columns"
    \/ pair.key = "limit" /\ pair.number # None
    \/ pair.key = "where" /\ Predicate(pair.text)

Named(items) ==
    LET named == SelectSeq(items, LAMBDA item : item.name # "")
    IN  [i \in DOMAIN named |-> Item(named[i].name, FALSE)]

\* Mutant of Apply: the first limit counts.
ApplyFirst(select, pair) ==
    CASE pair.key = "columns" -> [select EXCEPT !.columns = Named(pair.items)]
      [] pair.key = "limit"   -> IF select.limit = {} THEN [select EXCEPT !.limit = {pair.number}]
                                 ELSE select
      [] pair.key = "where"   -> [select EXCEPT !.where = pair.text]

Apply(select, pair) ==
    CASE pair.key = "columns" -> [select EXCEPT !.columns = Named(pair.items)]
      [] pair.key = "limit"   -> [select EXCEPT !.limit = {pair.number}]
      [] pair.key = "where"   -> [select EXCEPT !.where = pair.text]

NativeAccepts(query) == \A i \in DOMAIN query : Accepts(query[i])
NativeSelect(query) == FoldLeft(Apply, All, query)

-----------------------------------------------------------------------------
(* The direct Python adapter: dict(query) keeps the last pair of a key, a  *)
(* value of "" counts as none, and other keys are not looked at.           *)

Get(query, key) ==
    LET places == {i \in DOMAIN query : query[i].key = key}
    IN  IF places = {} THEN Pair(key, <<Item("", FALSE)>>, None, "")
        ELSE query[CHOOSE i \in places : \A j \in places : j <= i]

PythonAccepts(query) ==
    \A key \in {"limit", "offset"} :
        Get(query, key).number = None => Get(query, key).text = ""

Number(pair) == IF pair.number = None THEN {} ELSE {pair.number}

PythonSelect(query) ==
    LET items == Get(query, "columns").items
    IN  [columns |-> IF items = <<Item("", FALSE)>> THEN << >> ELSE items,
         where   |-> Get(query, "where").text,
         limit   |-> Number(Get(query, "limit")),
         offset  |-> Number(Get(query, "offset"))]

-----------------------------------------------------------------------------
(* External: the database.                                                 *)

\* It has the columns and understands the predicate.
Executes(select) ==
    /\ \A i \in DOMAIN select.columns :
          select.columns[i].name \in Columns /\ ~select.columns[i].padded
    /\ select.where # "junk"

\* Of a sequence, what comes after the first n, and what comes before.
After(n, rows) == SubSeq(rows, n + 1, Len(rows))
Before(n, rows) == IF n < Len(rows) THEN SubSeq(rows, 1, n) ELSE rows

\* The one predicate of the model is that there is a value.
Rows(select, table) ==
    LET kept    == IF select.where = "" THEN table ELSE SelectSeq(table, LAMBDA c : c # None)
        skipped == IF select.offset = {} THEN kept
                   ELSE After(CHOOSE n \in select.offset : TRUE, kept)
    IN  IF select.limit = {} THEN skipped ELSE Before(CHOOSE n \in select.limit : TRUE, skipped)

-----------------------------------------------------------------------------
(* The bounds of cat_file, None for none.                                  *)

Within(n, low, high) == IF n < low THEN low ELSE IF n > high THEN high ELSE n

\* slice_materialized.
Materialized(data, start, end) ==
    LET Bound(n) == IF n < 0 THEN Within(Len(data) + n, 0, Len(data)) ELSE n
        first == IF start = None THEN 0 ELSE Bound(start)
        last  == IF end = None THEN Len(data) ELSE Bound(end)
    IN  IF last <= first THEN << >>
        ELSE SubSeq(data, Within(first, 0, Len(data)) + 1, Within(last, 0, Len(data)))

\* cat_file_db: read to the end and sliced, or read from start as far as end.
NativeSlice(data, start, end) ==
    IF (start # None /\ start < 0) \/ (end # None /\ end < 0)
    THEN Materialized(data, start, end)
    ELSE LET from == IF start = None THEN 0 ELSE start
             rest == After(from, data)
         IN  CASE end = None -> rest
               [] end # None /\ end <= from -> << >>
               [] end # None /\ end > from  -> Before(end - from, rest)

\* data[slice(start, end)]: a negative bound is counted from the end.
PythonSlice(data, start, end) ==
    LET Place(n, otherwise) ==
            IF n = None THEN otherwise ELSE IF n < 0 THEN Len(data) + n ELSE n
        Inside(i) == Place(start, 0) < i /\ i <= Place(end, Len(data))
    IN  FoldLeftDomain(LAMBDA slice, i : IF Inside(i) THEN Append(slice, data[i]) ELSE slice,
                       << >>, data)

=============================================================================
