---------------------------- MODULE PythonFsCache ----------------------------
(***************************************************************************)
(* A Python filesystem of fsspec_db/spec.py over DatabaseFs: ls and info   *)
(* go through fsspec's DirCache (external) and, on a miss, through the     *)
(* Rust cache.  The two caches expire, are filled and are cleared apart    *)
(* from each other.  A Python thread may be preempted between any two      *)
(* statements, and the native wrappers release the GIL inside Rust.        *)
(***************************************************************************)
EXTENDS Naturals, Functions

CONSTANTS
    Threads, Keys, Ttls, Limits, None, MaxVersion,
    Expiry,    \* listings_expiry_time, or None
    MaxTime    \* bound on the clock

ASSUME ExpiryAssumption == Expiry \in Nat \cup {None}
ASSUME MaxTimeAssumption == MaxTime \in Nat

VARIABLES
    options, entries, recency, evicting, answer,        \* the Rust cache
    version, pc, key, loaded, floor, written,   \* DatabaseFs
    dir,         \* DirCache: a function from the keys present
    phase,       \* what each thread does in Python
    call,        \* the ls or info each thread is in
    got,         \* what Rust answered to it
    mine,        \* the version each thread's last write made
    isOpen,      \* the thread has an open write handle
    clock,
    raced,       \* history: the call overlaps an invalidation of the caches
    settled,     \* history: newest version whose write cleared both caches
    replacedAt   \* history: when each version was replaced

fsVars == <<options, entries, recency, evicting, answer,
            version, pc, key, loaded, floor, written>>
pyVars == <<dir, phase, call, got, mine, isOpen, raced, settled>>
vars == <<fsVars, pyVars, clock, replacedAt>>

Fs == INSTANCE DatabaseFsCache

\* What DirCache holds, with the history flag of the call that brought it.
Listing == [version : Fs!Versions, raced : BOOLEAN, age : 0 .. MaxTime]
Call == [key : Keys, refresh : BOOLEAN, base : Fs!Versions]

ASSUME OptionsAssumption == Ttls \cup Limits \subseteq Nat \cup {None}
ASSUME MaxVersionAssumption == MaxVersion \in Nat
ASSUME NoneAssumption == None \notin Nat \cup Fs!Answers \cup Call

Init ==
    /\ Fs!Init
    /\ dir = << >>
    /\ phase = [t \in Threads |-> "idle"]
    /\ call = [t \in Threads |-> None]
    /\ got = [t \in Threads |-> None]
    /\ mine = [t \in Threads |-> 0]
    /\ isOpen = [t \in Threads |-> FALSE]
    /\ raced = [t \in Threads |-> FALSE]
    /\ settled = 0
    /\ clock = 0
    /\ replacedAt = [v \in Fs!Versions |-> None]

Goto(t, from, to) == phase[t] = from /\ phase' = [phase EXCEPT ![t] = to]

\* DirCache.__getitem__ finds the key and it has not expired.
Listed(k) ==
    /\ k \in DOMAIN dir
    /\ Expiry # None => dir[k].age <= Expiry

\* An invalidation is between its two clears.
HalfCleared == \E t \in Threads : phase[t] = "clear rust"

\* A call that begins; one that overlaps an invalidation from its start.
Begin(t, k, refresh) ==
    /\ call' = [call EXCEPT ![t] = [key |-> k, refresh |-> refresh, base |-> version]]
    /\ raced' = [raced EXCEPT ![t] = HalfCleared]

\* A cache is cleared under the calls of the other threads.
Race(t) == raced' = [u \in Threads |-> raced[u] \/ (u # t /\ call[u] # None)]

\* The version that is replaced, if the step changes the database.
NoteChange ==
    replacedAt' = IF version' # version
                  THEN [replacedAt EXCEPT ![version] = clock]
                  ELSE replacedAt

Timeless == NoteChange /\ UNCHANGED clock

-----------------------------------------------------------------------------
\* ls, info without refresh: DirCache answers.
ListedCall(t, k) ==
    /\ phase[t] = "idle"
    /\ Listed(k)
    /\ UNCHANGED <<fsVars, pyVars>>
    /\ Timeless

\* It does not; an expired key is deleted.
UnlistedCall(t, k) ==
    /\ Goto(t, "idle", "rust")
    /\ ~Listed(k)
    /\ dir' = Restrict(dir, DOMAIN dir \ {k})
    /\ Begin(t, k, FALSE)
    /\ UNCHANGED <<fsVars, got, mine, isOpen, settled>>
    /\ Timeless

\* ls, info with refresh=True: invalidate_cache first.
RefreshCall(t, k) ==
    /\ Goto(t, "idle", "clear dir")
    /\ Begin(t, k, TRUE)
    /\ UNCHANGED <<fsVars, dir, got, mine, isOpen, settled>>
    /\ Timeless

\* The loader answers: rust.ls or rust.info returns.
Answered(t, value) ==
    /\ Goto(t, "rust", "store")
    /\ got' = [got EXCEPT ![t] = value.version]
    /\ raced' = [raced EXCEPT ![t] = @ \/ value.overtaken]

\* rust.ls, rust.info: a hit, or the steps of a miss.
RustHit(t) ==
    /\ phase[t] = "rust"
    /\ Fs!LookupHit(t, call[t].key)
    /\ Answered(t, entries[call[t].key].value)
    /\ UNCHANGED <<dir, call, mine, isOpen, settled>>
    /\ Timeless

RustMiss(t) ==
    /\ phase[t] = "rust"
    /\ \/ Fs!LookupMiss(t, call[t].key)
       \/ Fs!Load(t)
       \/ Fs!Store(t)
       \/ Fs!Evict(t)
    /\ UNCHANGED pyVars
    /\ Timeless

RustLoaded(t) ==
    /\ Fs!Stored(t) \/ Fs!StoreDisabled(t)
    /\ Answered(t, loaded[t])
    /\ UNCHANGED <<dir, call, mine, isOpen, settled>>
    /\ Timeless

\* The exception passes through _cached_ls and _cached_info.
RustFails(t) ==
    /\ Goto(t, "rust", "idle")
    /\ Fs!LoadFails(t)
    /\ call' = [call EXCEPT ![t] = None]
    /\ UNCHANGED <<dir, got, mine, isOpen, raced, settled>>
    /\ Timeless

\* self.dircache[key] = entries, and the call returns.
StoreListing(t) ==
    /\ Goto(t, "store", "idle")
    /\ dir' = [k \in DOMAIN dir \cup {call[t].key} |->
                 IF k = call[t].key
                 THEN [version |-> got[t], raced |-> raced[t], age |-> 0]
                 ELSE dir[k]]
    /\ call' = [call EXCEPT ![t] = None]
    /\ got' = [got EXCEPT ![t] = None]
    /\ UNCHANGED <<fsVars, mine, isOpen, raced, settled>>
    /\ Timeless

-----------------------------------------------------------------------------
\* Mutant of ClearDir: only the Rust cache is invalidated.
ClearDirForgotten(t) ==
    /\ Goto(t, "clear dir", "clear rust")
    /\ Race(t)
    /\ UNCHANGED <<fsVars, dir, call, got, mine, isOpen, settled>>
    /\ Timeless

\* invalidate_cache: self.dircache.clear() ...
ClearDir(t) ==
    /\ Goto(t, "clear dir", "clear rust")
    /\ dir' = << >>
    /\ Race(t)
    /\ UNCHANGED <<fsVars, call, got, mine, isOpen, settled>>
    /\ Timeless

\* Mutant of ClearRust: only DirCache is cleared.
ClearRustForgotten(t) ==
    /\ Goto(t, "clear rust", IF call[t] # None THEN "rust" ELSE "idle")
    /\ Race(t)
    /\ settled' = IF mine[t] > settled THEN mine[t] ELSE settled
    /\ UNCHANGED <<fsVars, dir, call, got, mine, isOpen>>
    /\ Timeless

\* ... then rust.invalidate_cache().  A refreshing call goes on to its loader.
ClearRust(t) ==
    /\ Goto(t, "clear rust", IF call[t] # None THEN "rust" ELSE "idle")
    /\ Fs!InvalidateCache(t)
    /\ Race(t)
    /\ settled' = IF mine[t] > settled THEN mine[t] ELSE settled
    /\ UNCHANGED <<dir, call, got, mine, isOpen>>
    /\ Timeless

\* pipe_file: rust.write_file commits and clears the Rust cache, then
\* invalidate_cache clears both.
PipeFile(t) ==
    /\ Goto(t, "idle", "write")
    /\ Fs!WriteBytes(t)
    /\ mine' = [mine EXCEPT ![t] = version + 1]
    /\ UNCHANGED <<dir, call, got, isOpen, raced, settled>>
    /\ Timeless

Written(t) ==
    /\ Goto(t, "write", "clear dir")
    /\ Fs!Invalidate(t)
    /\ Race(t)
    /\ UNCHANGED <<dir, call, got, mine, isOpen, settled>>
    /\ Timeless

\* Mutant of PutFile: no invalidate_cache after the handle is closed.
PutFileUnnoticed(t) ==
    /\ phase[t] = "idle"
    /\ Fs!CloseHandle(t)
    /\ mine' = [mine EXCEPT ![t] = version + 1]
    /\ UNCHANGED <<dir, phase, call, got, isOpen, raced, settled>>
    /\ Timeless

\* put_file and the DDL methods: a handle is written and closed, or a
\* statement run, then invalidate_cache.
PutFile(t) ==
    /\ Goto(t, "idle", "clear dir")
    /\ Fs!CloseHandle(t)
    /\ mine' = [mine EXCEPT ![t] = version + 1]
    /\ UNCHANGED <<dir, call, got, isOpen, raced, settled>>
    /\ Timeless

\* open for writing: invalidate_cache, then the handle.
Open(t) ==
    /\ ~isOpen[t]
    /\ Goto(t, "idle", "clear dir")
    /\ isOpen' = [isOpen EXCEPT ![t] = TRUE]
    /\ UNCHANGED <<fsVars, dir, call, got, mine, raced, settled>>
    /\ Timeless

\* The handle is closed: the write commits and no cache is told.
Close(t) ==
    /\ isOpen[t]
    /\ phase[t] = "idle"
    /\ Fs!CloseHandle(t)
    /\ isOpen' = [isOpen EXCEPT ![t] = FALSE]
    /\ UNCHANGED <<dir, phase, call, got, mine, raced, settled>>
    /\ Timeless

OtherConnection ==
    /\ Fs!OtherConnection
    /\ UNCHANGED pyVars
    /\ Timeless

\* Time passes between calls: a call is shorter than a tick.
Tick ==
    /\ clock < MaxTime
    /\ \A t \in Threads : phase[t] = "idle"
    /\ clock' = clock + 1
    /\ dir' = [k \in DOMAIN dir |-> [dir[k] EXCEPT !.age = @ + 1]]
    /\ Fs!Tick
    /\ UNCHANGED <<phase, call, got, mine, isOpen, raced, settled, replacedAt>>

Step(t) ==
    \/ \E k \in Keys : ListedCall(t, k) \/ UnlistedCall(t, k) \/ RefreshCall(t, k)
    \/ RustHit(t)
    \/ RustMiss(t)
    \/ RustLoaded(t)
    \/ RustFails(t)
    \/ StoreListing(t)
    \/ ClearDir(t)
    \/ ClearRust(t)
    \/ PipeFile(t)
    \/ Written(t)
    \/ PutFile(t)
    \/ Open(t)
    \/ Close(t)

Next ==
    \/ \E t \in Threads : Step(t)
    \/ OtherConnection
    \/ Tick

Spec == Init /\ [][Next]_vars

-----------------------------------------------------------------------------
(***************************************************************************)
(* Properties                                                              *)
(***************************************************************************)

TypeOK ==
    /\ Fs!TypeOK
    /\ DOMAIN dir \subseteq Keys
    /\ dir \in [DOMAIN dir -> Listing]
    /\ phase \in [Threads -> {"idle", "rust", "store", "clear dir", "clear rust", "write"}]
    /\ \A t \in Threads : call[t] \in Call \cup {None}
    /\ \A t \in Threads : got[t] \in Fs!Versions \cup {None}
    /\ mine \in [Threads -> Fs!Versions]
    /\ isOpen \in [Threads -> BOOLEAN]
    /\ raced \in [Threads -> BOOLEAN]
    /\ settled \in Fs!Versions
    /\ clock \in 0 .. MaxTime
    /\ replacedAt \in [Fs!Versions -> 0 .. MaxTime \cup {None}]

\* Once a write has cleared both caches, DirCache holds an answer from before
\* it only if the call that brought it overlapped an invalidation or took from
\* the Rust cache an entry that an invalidation had overtaken (spec.py:39-41,
\* 54-56, 59-64).  Such an answer stays until the next invalidation: without
\* listings_expiry_time DirCache never drops it.
StaleOnlyIfRaced ==
    \A k \in DOMAIN dir : dir[k].version < settled => dir[k].raced

\* ls and info with refresh=True answer with the database as it was when they
\* were called, or newer, unless an invalidation of another thread overlapped
\* them or the load of what they found in the Rust cache: then they may answer
\* from the Rust cache, which docs/src/paths.md:164 says they bypass
\* (spec.py:29-42, 44-57).
RefreshIsCurrent ==
    \A t \in Threads :
        phase[t] = "store" /\ call[t].refresh /\ ~raced[t] => got[t] >= call[t].base

\* After pipe_file, put_file or a DDL method neither cache holds an answer
\* from before it, so the caller's next ls or info sees it (one thread).
ReadsOwnWrites ==
    \A t \in Threads : phase[t] = "idle" =>
        /\ \A k \in DOMAIN dir : dir[k].version >= mine[t]
        /\ \A k \in DOMAIN entries : entries[k].value.version >= mine[t]

\* version v was the content of the database at some time since.
CurrentSince(v, time) == v = version \/ replacedAt[v] >= time

Back(time, ticks) == IF time > ticks THEN time - ticks ELSE 0

\* An answer DirCache serves was right less than listings_expiry_time and the
\* ttl of the Rust cache ago: the lifetimes of the two caches add up, although
\* docs/src/how-to-manage.md:31 has the option bound the lifetime of the cache
\* (spec.py:238).
LifetimesAddUp ==
    Expiry # None /\ options.ttl # None =>
        \A k \in Keys :
            Listed(k) => CurrentSince(dir[k].version, Back(clock, Expiry + options.ttl))

=============================================================================
