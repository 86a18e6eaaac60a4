--------------------------- MODULE PythonAdapter ---------------------------
(***************************************************************************)
(* The inserts and queries of duckdb.py and odbc.py over one connection,   *)
(* which commits every statement by itself.  DuckDB has the rows of an     *)
(* insert registered as a relation of the connection, under one name for   *)
(* all inserts, and the connection keeps the result of the last statement  *)
(* for the fetch.  ODBC sends the rows in chunks.                          *)
(*                                                                         *)
(* The rows of a call's n-th chunk are the pair <<call, n>>.  A step is a  *)
(* statement, or the call of the driver that stands for one.               *)
(***************************************************************************)
EXTENDS Naturals, Sequences

CONSTANTS
    Inserts,
    Asks,        \* queries
    Relations,
    Chunks,      \* chunks of batch_size rows in an insert
    None

Calls == Inserts \cup Asks

VARIABLES
    adapter,     \* "duckdb" or "odbc"
    request,     \* what each insert is asked: a relation and a mode
    table,       \* the rows of each relation
    registered,  \* the insert whose rows have the name, or None
    executed,    \* the call whose statement was executed last, or None
    step,        \* what each call does next
    sent,        \* chunks it has inserted
    answer,      \* whose result each query fetched
    overlapped   \* history: another call was in progress during the call

vars == <<adapter, request, table, registered, executed, step, sent, answer, overlapped>>
asked == <<adapter, request>>

Init ==
    /\ adapter \in {"duckdb", "odbc"}
    /\ request \in [Inserts -> [relation : Relations, mode : {"append", "truncate"}]]
    /\ table = [r \in Relations |-> << >>]
    /\ registered = None
    /\ executed = None
    /\ step = [c \in Calls |-> "idle"]
    /\ sent = [c \in Inserts |-> 0]
    /\ answer = [c \in Asks |-> None]
    /\ overlapped = [c \in Calls |-> FALSE]

Finished(c) == step[c] \in {"ok", "error"}
InProgress(c) == step[c] # "idle" /\ ~Finished(c)

Goto(c, from, to) == step[c] = from /\ step' = [step EXCEPT ![c] = to]

Target(c) == request[c].relation

Start(c) ==
    /\ Goto(c, "idle", IF c \in Asks THEN "execute"
                       ELSE IF adapter = "duckdb" THEN "register" ELSE "delete")
    /\ overlapped' = [d \in Calls |->
                        \/ overlapped[d]
                        \/ d = c /\ \E e \in Calls : InProgress(e)
                        \/ InProgress(d)]
    /\ UNCHANGED <<asked, table, registered, executed, sent, answer>>

\* External: a name that is registered again stands for the new rows.
Register(c) ==
    /\ Goto(c, "register", "delete")
    /\ registered' = c
    /\ UNCHANGED <<asked, table, executed, sent, answer, overlapped>>

Delete(c) ==
    /\ Goto(c, "delete", "insert")
    /\ IF request[c].mode = "truncate"
       THEN table' = [table EXCEPT ![Target(c)] = << >>] /\ executed' = c
       ELSE UNCHANGED <<table, executed>>
    /\ UNCHANGED <<asked, registered, sent, answer, overlapped>>

AllOf(c) == [n \in 1 .. Chunks |-> <<c, n>>]

\* INSERT ... SELECT * FROM the registered name.
InsertRegistered(c) ==
    /\ adapter = "duckdb"
    /\ registered # None
    /\ Goto(c, "insert", "unregister")
    /\ table' = [table EXCEPT ![Target(c)] = @ \o AllOf(registered)]
    /\ executed' = c
    /\ UNCHANGED <<asked, registered, sent, answer, overlapped>>

\* Mutant of InsertChunk: what does not fill the last chunk is left out.
InsertChunkBeforeLast(c) ==
    /\ adapter = "odbc"
    /\ Goto(c, "insert", IF sent[c] + 1 < Chunks THEN "insert" ELSE "ok")
    /\ table' = IF sent[c] + 1 < Chunks
                THEN [table EXCEPT ![Target(c)] = Append(@, <<c, sent[c] + 1>>)] ELSE table
    /\ sent' = [sent EXCEPT ![c] = @ + 1]
    /\ UNCHANGED <<asked, registered, executed, answer, overlapped>>

\* insert_into_table.
InsertChunk(c) ==
    /\ adapter = "odbc"
    /\ Goto(c, "insert", IF sent[c] + 1 < Chunks THEN "insert" ELSE "ok")
    /\ table' = [table EXCEPT ![Target(c)] = Append(@, <<c, sent[c] + 1>>)]
    /\ sent' = [sent EXCEPT ![c] = @ + 1]
    /\ UNCHANGED <<asked, registered, executed, answer, overlapped>>

\* The database refuses a statement, as DuckDB does if nothing has the name.
Fail(c) ==
    /\ step[c] \in {"delete", "insert"}
    /\ step' = [step EXCEPT ![c] = IF adapter = "duckdb" THEN "unregister failed" ELSE "error"]
    /\ UNCHANGED <<asked, table, registered, executed, sent, answer, overlapped>>

\* The finally of the insert.
Unregister(c) ==
    /\ \/ Goto(c, "unregister", "ok")
       \/ Goto(c, "unregister failed", "error")
    /\ registered' = None
    /\ UNCHANGED <<asked, table, executed, sent, answer, overlapped>>

Execute(c) ==
    /\ Goto(c, "execute", "fetch")
    /\ executed' = c
    /\ UNCHANGED <<asked, table, registered, sent, answer, overlapped>>

\* External: DuckDB's execute returns the connection, and the fetch takes the
\* result the connection has; the reader of an ODBC query is its own.
Fetch(c) ==
    /\ Goto(c, "fetch", "ok")
    /\ answer' = [answer EXCEPT ![c] = IF adapter = "duckdb" THEN executed ELSE c]
    /\ UNCHANGED <<asked, table, registered, executed, sent, overlapped>>

Statement(c) ==
    IF c \in Asks THEN Execute(c) \/ Fetch(c)
    ELSE Register(c) \/ Delete(c) \/ InsertRegistered(c) \/ InsertChunk(c) \/ Fail(c) \/ Unregister(c)

Next == \E c \in Calls : Start(c) \/ Statement(c)

Spec == Init /\ [][Next]_vars

-----------------------------------------------------------------------------
(***************************************************************************)
(* Properties                                                              *)
(***************************************************************************)

\* The places of the rows of a call.
PlacesOf(c, rows) == { i \in DOMAIN rows : rows[i][1] = c }

\* The first n chunks of a call are there, once and in order, and no other.
HasFirst(n, c, rows) ==
    /\ \A i, j \in PlacesOf(c, rows) : i < j => rows[i][2] < rows[j][2]
    /\ { rows[i][2] : i \in PlacesOf(c, rows) } = 1 .. n

\* Calls of one connection that do not overlap have their own rows: a table
\* gets the rows of the inserts into it, all of them once if the insert
\* succeeded and has not been truncated away, and a query answers with its own
\* result.  Calls that do overlap may insert the rows of another call, or into
\* another table, and take another's result (duckdb.py:54-68,
\* odbc.py:47-58).
OwnRowsUnlessOverlapped ==
    \A c \in Calls : ~overlapped[c] =>
        IF c \in Asks THEN answer[c] \in {None, c}
        ELSE /\ \A r \in Relations \ {Target(c)} : PlacesOf(c, table[r]) = {}
             /\ step[c] = "ok" =>
                  \/ HasFirst(Chunks, c, table[Target(c)])
                  \/ \E d \in Inserts \ {c} :
                        step[d] # "idle" /\ Target(d) = Target(c) /\ request[d].mode = "truncate"

=============================================================================
