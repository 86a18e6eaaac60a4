------------------------- MODULE IntrospectionCache -------------------------
(***************************************************************************)
(* The listing and metadata cache of rust/src/fs.rs: a map of entries with *)
(* the instant each was inserted, and a deque of their keys ordered from   *)
(* the least to the most recently used one.  Every operation runs under    *)
(* the mutex of DatabaseFs, so each is one step, except the eviction loop  *)
(* at the end of insert: its iterations are steps of their own, taken with *)
(* the mutex held (evicting), because whether the loop ends is a question  *)
(* about this code.                                                        *)
(*                                                                         *)
(* Time is the age of each entry, in ticks.  Ages stop growing at the ttl: *)
(* `elapsed() >= ttl` is the only thing the code asks of them.             *)
(***************************************************************************)
EXTENDS Naturals, Sequences, FiniteSets, Functions

CONSTANTS
    Keys,        \* cache keys, "ls:{path}" and "info:{path}"
    Values,      \* what a lookup in the database answered
    Ttls,        \* choices of ttl: ticks an entry lives, or None
    Limits,      \* choices of max_entries: entries kept, or None
    None         \* Rust's Option::None

ASSUME NoneAssumption == None \notin Nat \cup Values
ASSUME TtlsAssumption == Ttls \subseteq Nat \cup {None}
ASSUME LimitsAssumption == Limits \subseteq Nat \cup {None}

VARIABLES
    options,     \* IntrospectionCacheOptions, fixed at construction
    entries,     \* the HashMap: a function from the keys present
    recency,     \* the VecDeque of keys, least recently used first
    evicting,    \* insert is in its eviction loop and holds the mutex
    answer       \* the key of the last get and what it returned

vars == <<options, entries, recency, evicting, answer>>

Entry == [value : Values, age : Nat]
Answer == [key : Keys, value : Values \cup {None}]

Limited == options.max_entries # None
OverLimit == Limited /\ Cardinality(DOMAIN entries) > options.max_entries

\* The element of the set of positions I that has n - 1 elements below it.
Nth(I, n) == CHOOSE i \in I : Cardinality({j \in I : j <= i}) = n

\* VecDeque::retain(|candidate| candidate != key).
Without(seq, key) ==
    LET kept == {i \in DOMAIN seq : seq[i] # key}
    IN  [n \in 1 .. Cardinality(kept) |-> seq[Nth(kept, n)]]

Expired(key) ==
    /\ key \in DOMAIN entries
    /\ options.ttl # None
    /\ entries[key].age >= options.ttl

Init ==
    /\ options \in [ttl : Ttls, max_entries : Limits]
    /\ entries = << >>
    /\ recency = << >>
    /\ evicting = FALSE
    /\ answer = None

-----------------------------------------------------------------------------
\* Mutants, of the action or operator that follows each of them: what it would
\* be with a likely mistake.  They are not part of the specification.

\* get does not move the key.
GetHitInPlace(key) ==
    /\ ~evicting
    /\ key \in DOMAIN entries
    /\ ~Expired(key)
    /\ answer' = [key |-> key, value |-> entries[key].value]
    /\ UNCHANGED <<options, entries, recency, evicting>>

\* get stamps the entry anew.
GetHitSliding(key) ==
    /\ ~evicting
    /\ key \in DOMAIN entries
    /\ ~Expired(key)
    /\ recency' = Append(Without(recency, key), key)
    /\ entries' = [entries EXCEPT ![key].age = 0]
    /\ answer' = [key |-> key, value |-> entries[key].value]
    /\ UNCHANGED <<options, evicting>>

\* get: a live entry is moved to the back of the deque and its value cloned.
GetHit(key) ==
    /\ ~evicting
    /\ key \in DOMAIN entries
    /\ ~Expired(key)
    /\ recency' = Append(Without(recency, key), key)
    /\ answer' = [key |-> key, value |-> entries[key].value]
    /\ UNCHANGED <<options, entries, evicting>>

\* get drops the expired entry and not its key.
GetExpiredKeepsKey(key) ==
    /\ ~evicting
    /\ Expired(key)
    /\ entries' = Restrict(entries, DOMAIN entries \ {key})
    /\ answer' = [key |-> key, value |-> None]
    /\ UNCHANGED <<options, recency, evicting>>

\* get: an expired entry is dropped and the caller sees a miss.
GetExpired(key) ==
    /\ ~evicting
    /\ Expired(key)
    /\ entries' = Restrict(entries, DOMAIN entries \ {key})
    /\ recency' = Without(recency, key)
    /\ answer' = [key |-> key, value |-> None]
    /\ UNCHANGED <<options, evicting>>

\* get: no entry, nothing to do.
GetAbsent(key) ==
    /\ ~evicting
    /\ key \notin DOMAIN entries
    /\ answer' = [key |-> key, value |-> None]
    /\ UNCHANGED <<options, entries, recency, evicting>>

GetMiss(key) == GetExpired(key) \/ GetAbsent(key)

\* insert, up to its eviction loop.
Insert(key, value) ==
    /\ ~evicting
    /\ options.max_entries # 0
    /\ recency' = Append(Without(recency, key), key)
    /\ entries' = [k \in DOMAIN entries \cup {key} |->
                     IF k = key THEN [value |-> value, age |-> 0] ELSE entries[k]]
    /\ evicting' = Limited
    /\ UNCHANGED <<options, answer>>

\* insert into a cache of no entries returns at once.
InsertDisabled(key, value) ==
    /\ ~evicting
    /\ options.max_entries = 0
    /\ UNCHANGED vars

\* The iteration drops the key and not its entry.
EvictKeepsEntry ==
    /\ evicting
    /\ OverLimit
    /\ recency # << >>
    /\ recency' = Tail(recency)
    /\ UNCHANGED <<options, entries, evicting, answer>>

\* One iteration of `while entries.len() > max_entries`.  With an empty deque
\* the iteration changes nothing and the loop spins: no step.
EvictOldest ==
    /\ evicting
    /\ OverLimit
    /\ recency # << >>
    /\ entries' = Restrict(entries, DOMAIN entries \ {Head(recency)})
    /\ recency' = Tail(recency)
    /\ UNCHANGED <<options, evicting, answer>>

\* An if for the while: the mutex is released after any number of iterations.
EvictDoneEarly ==
    /\ evicting
    /\ evicting' = FALSE
    /\ UNCHANGED <<options, entries, recency, answer>>

\* The loop ends and the mutex is released.
EvictDone ==
    /\ evicting
    /\ ~OverLimit
    /\ evicting' = FALSE
    /\ UNCHANGED <<options, entries, recency, answer>>

\* clear, from invalidate_cache.
Clear ==
    /\ ~evicting
    /\ entries' = << >>
    /\ recency' = << >>
    /\ UNCHANGED <<options, evicting, answer>>

\* A tick of the clock.
Tick ==
    /\ entries' = [k \in DOMAIN entries |->
                     IF options.ttl # None /\ entries[k].age < options.ttl
                     THEN [entries[k] EXCEPT !.age = @ + 1]
                     ELSE entries[k]]
    /\ UNCHANGED <<options, recency, evicting, answer>>

Next ==
    \/ \E key \in Keys : GetHit(key) \/ GetMiss(key)
    \/ \E key \in Keys, value \in Values :
          Insert(key, value) \/ InsertDisabled(key, value)
    \/ EvictOldest
    \/ EvictDone
    \/ Clear
    \/ Tick

Spec == Init /\ [][Next]_vars

\* A thread inside insert goes on executing its loop.
FairSpec == Spec /\ WF_vars(EvictOldest) /\ WF_vars(EvictDone)

-----------------------------------------------------------------------------
(***************************************************************************)
(* Properties                                                              *)
(***************************************************************************)

\* The types of the map, the deque and the flag; the loop runs only in a
\* cache with a limit above zero.
TypeOK ==
    /\ options \in [ttl : Ttls, max_entries : Limits]
    /\ DOMAIN entries \subseteq Keys
    /\ entries \in [DOMAIN entries -> Entry]
    /\ recency \in Seq(Keys)
    /\ answer \in Answer \cup {None}
    /\ evicting \in BOOLEAN
    /\ evicting => options.max_entries \in Nat \ {0}

\* The deque holds exactly the keys of the map, each once.  get, insert,
\* the eviction loop and clear update the two separately (fs.rs:79-80, 84-85,
\* 93-101, 104-105, 112-113); eviction is by the deque and lookup by the map,
\* so any disagreement is an entry that can never be evicted or a phantom key.
RecencyTracksEntries ==
    /\ Range(recency) = DOMAIN entries
    /\ IsInjective(recency)

\* With the mutex free the cache holds at most max_entries entries, and while
\* insert is evicting at most one more (fs.rs:102-108).
SizeWithinLimit ==
    Limited =>
        Cardinality(DOMAIN entries)
          <= options.max_entries + (IF evicting THEN 1 ELSE 0)

\* The eviction loop never finds the deque empty while the map is too large:
\* there it would spin for ever with the mutex held (fs.rs:103-107).
EvictionNeverSpins == ~ (evicting /\ OverLimit /\ recency = << >>)

\* The mutex taken by an insert is always released.
MutexReleased == evicting ~> ~evicting

-----------------------------------------------------------------------------
(***************************************************************************)
(* Refinement.  An entry of the abstract cache is a line; the lines are in *)
(* the order of the deque, without the ones the eviction loop still has to *)
(* remove.                                                                 *)
(***************************************************************************)
Excess == IF OverLimit THEN Cardinality(DOMAIN entries) - options.max_entries ELSE 0

Lines ==
    [n \in 1 .. Len(recency) - Excess |->
        LET key == recency[n + Excess]
        IN  [key |-> key, value |-> entries[key].value, age |-> entries[key].age]]

Lru == INSTANCE LruCache WITH lines <- Lines

\* The cache is a least-recently-used cache with expiry whose operations are
\* atomic: the two structures and the eviction loop cannot be told from it.
ImplementsLru == Lru!Spec

=============================================================================
