---------------------------- MODULE MCPythonCalls ----------------------------
\* Small instances of PythonCalls for TLC: two threads.
EXTENDS PythonCalls, TLC

CONSTANTS t1, t2, q1, q2, o1, w1, w2, a1, r1

MCThreads == {t1, t2}
MCQueries == {q1, q2}
MCOps == {o1}
MCInserts == {w1, w2}
MCAsks == {a1}
MCRelations == {r1}

Sqlite(users) == [connections |-> 1, ownThread |-> TRUE, users |-> users]
Server(users) == [connections |-> 2, ownThread |-> FALSE, users |-> users]

Appends == [w \in MCInserts |-> [relation |-> r1, mode |-> "append"]]
SecondTruncates == [Appends EXCEPT ![w2] = [@ EXCEPT !.mode = "truncate"]]

Program(p, a, r, c1, c2) ==
    [pool |-> p, adapter |-> a, request |-> r, calls |-> t1 :> c1 @@ t2 :> c2]

ReadAndClose(q) == {<<"open", q>>, <<"read", q>>, <<"close", q>>}
WriteAndClose(w) == {<<"write", w>>, <<"close", w>>}

\* Two streams; a stream and a write that both threads use; a stream that both
\* use and another call; a stream and a query_arrow; of one Python connection,
\* a file that both threads use, and two files and a query.
MCPrograms ==
    { Program(p, "odbc", Appends, ReadAndClose(q1), ReadAndClose(q2)) :
        p \in {Sqlite({q1, q2}), Server({q1, q2})} }
    \cup
    { Program(p, "odbc", Appends, ReadAndClose(q1) \cup {<<"close", o1>>},
              {<<"read", q1>>, <<"write", o1>>, <<"discard", o1>>}) :
        p \in {Sqlite({q1, o1}), Server({q1, o1})} }
    \cup
    { Program(p, "odbc", Appends, ReadAndClose(q1), {<<"call", o1>>, <<"discard", q1>>}) :
        p \in {Sqlite({q1, o1}), Server({q1, o1})} }
    \cup
    { Program(p, "odbc", Appends, ReadAndClose(q1), {<<"query_arrow", q2>>}) :
        p \in {Sqlite({q1, q2}), Server({q1, q2})} }
    \cup
    { Program(Sqlite({}), a, Appends, WriteAndClose(w1), WriteAndClose(w1)) :
        a \in {"duckdb", "odbc"} }
    \cup
    { Program(Sqlite({}), a, r, WriteAndClose(w1), WriteAndClose(w2) \cup {<<"ask", a1>>}) :
        a \in {"duckdb", "odbc"}, r \in {Appends, SecondTruncates} }

MCPools == { p.pool : p \in MCPrograms }

=============================================================================
