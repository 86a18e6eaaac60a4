--------------------------- MODULE DatabaseFsCache ---------------------------
(***************************************************************************)
(* DatabaseFs of rust/src/fs.rs as several threads use one instance of it: *)
(* ls and info answer from the introspection cache or load from the        *)
(* database and store what they loaded, while writes, write handles and    *)
(* other connections change the database.  The mutex is held for each      *)
(* operation of the cache and is free while the database is read.          *)
(*                                                                         *)
(* The content of the database is a version; every change makes the next   *)
(* one.  What ls or info answers for any key is the version it was loaded  *)
(* from.  ls and info differ in their keys only.                           *)
(***************************************************************************)
EXTENDS Naturals

CONSTANTS
    Threads,     \* threads calling the filesystem
    Keys, Ttls, Limits, None,
    MaxVersion   \* bound on the changes of the database

Versions == 0 .. MaxVersion

\* An answer as it is cached.  overtaken is a history flag: the cache was
\* cleared between the load of the answer and its insertion.
Answers == [version : Versions, overtaken : BOOLEAN]

VARIABLES
    options, entries, recency, evicting, answer,  \* the introspection cache
    version,   \* the content of the database
    pc,        \* what each thread is doing
    key,       \* the key of each thread's ls or info
    loaded,    \* what each thread's ls or info loaded
    floor,     \* newest version whose write_bytes invalidated the cache
    written    \* the version each thread's write_bytes made

cacheVars == <<options, entries, recency, evicting, answer>>
vars == <<cacheVars, version, pc, key, loaded, floor, written>>

Cache == INSTANCE IntrospectionCache WITH Values <- Answers

ASSUME MaxVersionAssumption == MaxVersion \in Nat
ASSUME AnswersAssumption == None \notin Nat \cup Answers

Init ==
    /\ Cache!Init
    /\ version = 0
    /\ pc = [t \in Threads |-> "idle"]
    /\ key = [t \in Threads |-> None]
    /\ loaded = [t \in Threads |-> None]
    /\ floor = 0
    /\ written = [t \in Threads |-> 0]

Goto(t, from, to) == pc[t] = from /\ pc' = [pc EXCEPT ![t] = to]

Larger(a, b) == IF a > b THEN a ELSE b

\* The database changes, whoever made the change.
Change ==
    /\ version < MaxVersion
    /\ version' = version + 1

-----------------------------------------------------------------------------
\* ls, info: the cache has a live entry.
LookupHit(t, k) ==
    /\ pc[t] = "idle"
    /\ Cache!GetHit(k)
    /\ UNCHANGED <<version, pc, key, loaded, floor, written>>

\* ls, info: it has not; the mutex is released before the database is read.
LookupMiss(t, k) ==
    /\ Goto(t, "idle", "load")
    /\ Cache!GetMiss(k)
    /\ key' = [key EXCEPT ![t] = k]
    /\ UNCHANGED <<version, loaded, floor, written>>

\* ls_db, info_db.
Load(t) ==
    /\ Goto(t, "load", "insert")
    /\ loaded' = [loaded EXCEPT ![t] = [version |-> version, overtaken |-> FALSE]]
    /\ UNCHANGED <<cacheVars, version, key, floor, written>>

\* ls_db or info_db fails: the error is returned, nothing is cached.
LoadFails(t) ==
    /\ Goto(t, "load", "idle")
    /\ key' = [key EXCEPT ![t] = None]
    /\ UNCHANGED <<cacheVars, version, loaded, floor, written>>

Forget(t) ==
    /\ key' = [key EXCEPT ![t] = None]
    /\ loaded' = [loaded EXCEPT ![t] = None]

\* The loaded answer goes into the cache.
Store(t) ==
    /\ Goto(t, "insert", "evict")
    /\ Cache!Insert(key[t], loaded[t])
    /\ UNCHANGED <<version, key, loaded, floor, written>>

\* A cache of no entries: insert does nothing.
StoreDisabled(t) ==
    /\ Goto(t, "insert", "idle")
    /\ Cache!InsertDisabled(key[t], loaded[t])
    /\ Forget(t)
    /\ UNCHANGED <<version, floor, written>>

\* The thread inside insert makes room.
Evict(t) ==
    /\ pc[t] = "evict"
    /\ Cache!EvictOldest
    /\ UNCHANGED <<version, pc, key, loaded, floor, written>>

\* insert returns, and so does ls or info.
Stored(t) ==
    /\ Goto(t, "evict", "idle")
    /\ IF Cache!Limited THEN Cache!EvictDone ELSE UNCHANGED cacheVars
    /\ Forget(t)
    /\ UNCHANGED <<version, floor, written>>

-----------------------------------------------------------------------------
\* write_bytes: the insert commits.  One that fails changes nothing here.
WriteBytes(t) ==
    /\ Goto(t, "idle", "invalidate")
    /\ Change
    /\ written' = [written EXCEPT ![t] = version + 1]
    /\ UNCHANGED <<cacheVars, key, loaded, floor>>

\* put_file writes through write_bytes and invalidates once more.
PutFile(t) ==
    /\ Goto(t, "idle", "invalidate, invalidate")
    /\ Change
    /\ written' = [written EXCEPT ![t] = version + 1]
    /\ UNCHANGED <<cacheVars, key, loaded, floor>>

\* The cache is cleared; answers loaded before and not yet stored are not.
ClearCache ==
    /\ Cache!Clear
    /\ loaded' = [t \in Threads |->
                    IF loaded[t] # None THEN [loaded[t] EXCEPT !.overtaken = TRUE]
                                        ELSE None]

\* Mutant of Invalidate: write_bytes without its invalidate_cache.
InvalidateNothing(t) ==
    /\ \/ Goto(t, "invalidate", "idle")
       \/ Goto(t, "invalidate, invalidate", "invalidate")
    /\ floor' = Larger(floor, written[t])
    /\ UNCHANGED <<cacheVars, version, key, loaded, written>>

\* invalidate_cache at the end of write_bytes.
Invalidate(t) ==
    /\ \/ Goto(t, "invalidate", "idle")
       \/ Goto(t, "invalidate, invalidate", "invalidate")
    /\ ClearCache
    /\ floor' = Larger(floor, written[t])
    /\ UNCHANGED <<version, key, written>>

\* invalidate_cache called by the user of the filesystem.
InvalidateCache(t) ==
    /\ pc[t] = "idle"
    /\ ClearCache
    /\ UNCHANGED <<version, pc, key, floor, written>>

\* A write handle is closed: its uploader writes and leaves the cache alone.
CloseHandle(t) ==
    /\ pc[t] = "idle"
    /\ Change
    /\ UNCHANGED <<cacheVars, pc, key, loaded, floor, written>>

\* Another connection changes the database.
OtherConnection ==
    /\ Change
    /\ UNCHANGED <<cacheVars, pc, key, loaded, floor, written>>

Tick ==
    /\ Cache!Tick
    /\ UNCHANGED <<version, pc, key, loaded, floor, written>>

Step(t) ==
    \/ \E k \in Keys : LookupHit(t, k) \/ LookupMiss(t, k)
    \/ Load(t)
    \/ LoadFails(t)
    \/ Store(t)
    \/ StoreDisabled(t)
    \/ Evict(t)
    \/ Stored(t)
    \/ WriteBytes(t)
    \/ PutFile(t)
    \/ Invalidate(t)
    \/ InvalidateCache(t)
    \/ CloseHandle(t)

Next ==
    \/ \E t \in Threads : Step(t)
    \/ OtherConnection
    \/ Tick

\* Of the threads nothing is assumed, not even that they finish a call: time
\* passes.
Spec == Init /\ [][Next]_vars /\ WF_vars(Tick)

-----------------------------------------------------------------------------
(***************************************************************************)
(* Properties                                                              *)
(***************************************************************************)

\* The types of the database and the threads; those of the cache are its
\* own, as CacheSpec says.
TypeOK ==
    /\ version \in Versions
    /\ pc \in [Threads -> {"idle", "load", "insert", "evict",
                           "invalidate", "invalidate, invalidate"}]
    /\ \A t \in Threads : key[t] \in Keys \cup {None}
    /\ \A t \in Threads : loaded[t] \in Answers \cup {None}
    /\ floor \in Versions
    /\ written \in [Threads -> Versions]

\* Threads use the cache as its own specification allows: no thread touches
\* it while another one is in the eviction loop of insert, and at most one is.
CacheSpec == Cache!Spec

\* Once write_bytes has invalidated the cache, an entry older than that write
\* is one whose load the invalidation overtook (fs.rs:163-167, 207-211 and
\* 245-246): the load ran before the clear and its insert after it.  Nothing
\* else brings an answer from before the write back.
StaleOnlyIfOvertaken ==
    \A k \in DOMAIN entries :
        entries[k].value.version < floor => entries[k].value.overtaken

\* Whatever races filled the cache, with a ttl it is right in the end: when
\* the database no longer changes, every entry still served is its content.
EventuallyFresh ==
    <>[](\A k \in DOMAIN entries :
            ~Cache!Expired(k) => entries[k].value.version = version)

=============================================================================
