--------------------------- MODULE MCQueryStream ---------------------------
\* Small instances of QueryStream for TLC.
EXTENDS QueryStream

CONSTANTS q1, q2, o1, o2

MCQueries == {q1, q2}
MCOps == {o1, o2}
\* Two readers of a SQLite database, a reader and another call of it, and a
\* reader and enough calls of a server to take every connection.
MCPools ==
    { [connections |-> 1, ownThread |-> TRUE, users |-> {q1, q2}],
      [connections |-> 1, ownThread |-> TRUE, users |-> {q1, o1}],
      [connections |-> 2, ownThread |-> FALSE, users |-> {q1, o1, o2}] }

=============================================================================
