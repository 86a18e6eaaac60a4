------------------------------ MODULE LruCache ------------------------------
(***************************************************************************)
(* What the introspection cache promises: at most max_entries lines, the   *)
(* least recently used one given up first, no line used once it is as old  *)
(* as the ttl, and every operation atomic.                                 *)
(***************************************************************************)
EXTENDS Naturals, Sequences

CONSTANTS Keys, Values, Ttls, Limits, None

VARIABLES
    options,  \* the time a line lives and the number of lines kept
    lines,    \* least recently used first
    answer    \* the key of the last lookup and its value, None for a miss

Fresh(line) == options.ttl = None \/ line.age < options.ttl

Except(i) == SubSeq(lines, 1, i - 1) \o SubSeq(lines, i + 1, Len(lines))

\* At most the max_entries last elements of seq.
Latest(seq) ==
    IF options.max_entries = None \/ Len(seq) <= options.max_entries
    THEN seq
    ELSE SubSeq(seq, Len(seq) - options.max_entries + 1, Len(seq))

Init ==
    /\ options \in [ttl : Ttls, max_entries : Limits]
    /\ lines = << >>
    /\ answer = None

\* A fresh line answers a lookup and becomes the most recently used one.
Use(i) ==
    /\ Fresh(lines[i])
    /\ lines' = Append(Except(i), lines[i])
    /\ answer' = [key |-> lines[i].key, value |-> lines[i].value]

\* A line past its time is given up when it is looked up.
Expire(i) ==
    /\ ~Fresh(lines[i])
    /\ lines' = Except(i)
    /\ answer' = [key |-> lines[i].key, value |-> None]

\* A lookup of a key that has no line.
Miss(key) ==
    /\ \A i \in DOMAIN lines : lines[i].key # key
    /\ answer' = [key |-> key, value |-> None]
    /\ UNCHANGED lines

\* A new answer replaces the key's line, and the oldest line makes room.
Put(key, value) ==
    LET new == [key |-> key, value |-> value, age |-> 0]
    IN  /\ \/ \E i \in DOMAIN lines :
                 lines[i].key = key /\ lines' = Append(Except(i), new)
           \/ /\ \A i \in DOMAIN lines : lines[i].key # key
              /\ lines' = Latest(Append(lines, new))
        /\ UNCHANGED answer

Flush == lines' = << >> /\ UNCHANGED answer

Elapse ==
    /\ lines' = [i \in DOMAIN lines |->
                   IF options.ttl # None /\ Fresh(lines[i])
                   THEN [lines[i] EXCEPT !.age = @ + 1]
                   ELSE lines[i]]
    /\ UNCHANGED answer

Next ==
    /\ \/ \E i \in DOMAIN lines : Use(i) \/ Expire(i)
       \/ \E key \in Keys : Miss(key)
       \/ \E key \in Keys, value \in Values : Put(key, value)
       \/ Flush
       \/ Elapse
    /\ UNCHANGED options

Spec == Init /\ [][Next]_<<options, lines, answer>>

=============================================================================
