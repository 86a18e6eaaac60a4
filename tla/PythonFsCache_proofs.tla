------------------------- MODULE PythonFsCache_proofs -------------------------
(***************************************************************************)
(* For any threads, keys, lifetimes and limits: what the two caches hold   *)
(* of before a write, a refresh or a lifetime, and how it got there.       *)
(***************************************************************************)
EXTENDS PythonFsCache, TLAPS

\* What is proved of DatabaseFs.
D == INSTANCE DatabaseFsCache_proofs

\* The constants are such as the proofs about DatabaseFs assume.
LEMMA Constants ==
    /\ Ttls \subseteq Nat \cup {None} /\ Limits \subseteq Nat \cup {None}
    /\ MaxVersion \in Nat
    /\ None \notin Nat \cup D!Answers
BY OptionsAssumption, MaxVersionAssumption, NoneAssumption
   DEF Fs!Answers, D!Answers, Fs!Versions, D!Versions

\* The cache inside is one cache, however it is named.
LEMMA SameCache ==
    /\ \A k : Fs!Cache!GetHit(k) <=> D!Cache!GetHit(k)
    /\ \A k : Fs!Cache!GetMiss(k) <=> D!Cache!GetMiss(k)
    /\ \A k, v : Fs!Cache!Insert(k, v) <=> D!Cache!Insert(k, v)
    /\ \A k, v : Fs!Cache!InsertDisabled(k, v) <=> D!Cache!InsertDisabled(k, v)
    /\ Fs!Cache!EvictOldest <=> D!Cache!EvictOldest
    /\ Fs!Cache!EvictDone <=> D!Cache!EvictDone
    /\ Fs!Cache!Limited <=> D!Cache!Limited
    /\ Fs!Cache!Clear <=> D!Cache!Clear
    /\ Fs!Cache!Tick <=> D!Cache!Tick
    /\ Fs!Cache!Init <=> D!Cache!Init
<1>0. \A S : Fs!Cache!Cardinality(S) = D!Cache!Cardinality(S)
  BY DEF Fs!Cache!Cardinality, D!Cache!Cardinality
<1>1. \A k : Fs!Cache!Expired(k) <=> D!Cache!Expired(k)
  BY DEF Fs!Cache!Expired, D!Cache!Expired
<1>2. Fs!Cache!OverLimit <=> D!Cache!OverLimit
  BY <1>0 DEF Fs!Cache!OverLimit, D!Cache!OverLimit, Fs!Cache!Limited, D!Cache!Limited
<1>3. \A f, S : Fs!Cache!Restrict(f, S) = D!Cache!Restrict(f, S)
  BY DEF Fs!Cache!Restrict, D!Cache!Restrict
<1>4. \A s, k : Fs!Cache!Without(s, k) = D!Cache!Without(s, k)
  BY DEF Fs!Cache!Without, D!Cache!Without, Fs!Cache!Nth, D!Cache!Nth,
         Fs!Cache!Cardinality, D!Cache!Cardinality
<1>5. \A k : Fs!Cache!GetHit(k) <=> D!Cache!GetHit(k)
  BY <1>1, <1>4 DEF Fs!Cache!GetHit, D!Cache!GetHit
<1>6. \A k : Fs!Cache!GetMiss(k) <=> D!Cache!GetMiss(k)
  BY <1>1, <1>3, <1>4 DEF Fs!Cache!GetMiss, D!Cache!GetMiss, Fs!Cache!GetExpired,
     D!Cache!GetExpired, Fs!Cache!GetAbsent, D!Cache!GetAbsent
<1>7. \A k, v : Fs!Cache!Insert(k, v) <=> D!Cache!Insert(k, v)
  BY <1>4 DEF Fs!Cache!Insert, D!Cache!Insert, Fs!Cache!Limited, D!Cache!Limited
<1>8. Fs!Cache!EvictOldest <=> D!Cache!EvictOldest
  BY <1>2, <1>3 DEF Fs!Cache!EvictOldest, D!Cache!EvictOldest
<1> QED
  BY <1>2, <1>5, <1>6, <1>7, <1>8
     DEF Fs!Cache!InsertDisabled, D!Cache!InsertDisabled, Fs!Cache!vars, D!Cache!vars,
         Fs!Cache!EvictDone, D!Cache!EvictDone, Fs!Cache!Limited, D!Cache!Limited,
         Fs!Cache!Clear, D!Cache!Clear, Fs!Cache!Tick, D!Cache!Tick,
         Fs!Cache!Init, D!Cache!Init

\* The instance of the proofs has the actions of the instance of the module.
LEMMA SameActions ==
    /\ Fs!Init <=> D!Init
    /\ \A t, k : Fs!LookupHit(t, k) <=> D!LookupHit(t, k)
    /\ \A t, k : Fs!LookupMiss(t, k) <=> D!LookupMiss(t, k)
    /\ \A t : Fs!Load(t) <=> D!Load(t)
    /\ \A t : Fs!LoadFails(t) <=> D!LoadFails(t)
    /\ \A t : Fs!Store(t) <=> D!Store(t)
    /\ \A t : Fs!StoreDisabled(t) <=> D!StoreDisabled(t)
    /\ \A t : Fs!Evict(t) <=> D!Evict(t)
    /\ \A t : Fs!Stored(t) <=> D!Stored(t)
    /\ \A t : Fs!WriteBytes(t) <=> D!WriteBytes(t)
    /\ \A t : Fs!Invalidate(t) <=> D!Invalidate(t)
    /\ \A t : Fs!InvalidateCache(t) <=> D!InvalidateCache(t)
    /\ \A t : Fs!CloseHandle(t) <=> D!CloseHandle(t)
    /\ Fs!OtherConnection <=> D!OtherConnection
    /\ Fs!Tick <=> D!Tick
    /\ UNCHANGED fsVars <=> UNCHANGED D!vars
<1>1. \A t, k : Fs!LookupHit(t, k) <=> D!LookupHit(t, k)
  BY SameCache DEF Fs!LookupHit, D!LookupHit
<1>2. \A t, k : Fs!LookupMiss(t, k) <=> D!LookupMiss(t, k)
  BY SameCache DEF Fs!LookupMiss, D!LookupMiss, Fs!Goto, D!Goto
<1>3. \A t : Fs!Load(t) <=> D!Load(t)
  BY DEF Fs!Load, D!Load, Fs!Goto, D!Goto, Fs!cacheVars, D!cacheVars
<1>4. \A t : Fs!LoadFails(t) <=> D!LoadFails(t)
  BY DEF Fs!LoadFails, D!LoadFails, Fs!Goto, D!Goto, Fs!cacheVars, D!cacheVars
<1>5. \A t : Fs!Store(t) <=> D!Store(t)
  BY SameCache DEF Fs!Store, D!Store, Fs!Goto, D!Goto
<1>6. \A t : Fs!StoreDisabled(t) <=> D!StoreDisabled(t)
  BY SameCache DEF Fs!StoreDisabled, D!StoreDisabled, Fs!Goto, D!Goto, Fs!Forget, D!Forget
<1>7. \A t : Fs!Evict(t) <=> D!Evict(t)
  BY SameCache DEF Fs!Evict, D!Evict
<1>8. \A t : Fs!Stored(t) <=> D!Stored(t)
  BY SameCache DEF Fs!Stored, D!Stored, Fs!Goto, D!Goto, Fs!Forget, D!Forget,
     Fs!cacheVars, D!cacheVars
<1>9. \A t : Fs!WriteBytes(t) <=> D!WriteBytes(t)
  BY DEF Fs!WriteBytes, D!WriteBytes, Fs!Goto, D!Goto, Fs!Change, D!Change,
     Fs!cacheVars, D!cacheVars
<1>10. \A t : Fs!Invalidate(t) <=> D!Invalidate(t)
  BY SameCache DEF Fs!Invalidate, D!Invalidate, Fs!Goto, D!Goto, Fs!ClearCache,
     D!ClearCache, Fs!Larger, D!Larger
<1>11. \A t : Fs!InvalidateCache(t) <=> D!InvalidateCache(t)
  BY SameCache DEF Fs!InvalidateCache, D!InvalidateCache, Fs!ClearCache, D!ClearCache
<1>12. \A t : Fs!CloseHandle(t) <=> D!CloseHandle(t)
  BY DEF Fs!CloseHandle, D!CloseHandle, Fs!Change, D!Change, Fs!cacheVars, D!cacheVars
<1>13. Fs!OtherConnection <=> D!OtherConnection
  BY DEF Fs!OtherConnection, D!OtherConnection, Fs!Change, D!Change, Fs!cacheVars,
     D!cacheVars
<1>14. Fs!Tick <=> D!Tick
  BY SameCache DEF Fs!Tick, D!Tick
<1>15. UNCHANGED fsVars <=> UNCHANGED D!vars
  BY DEF fsVars, D!vars, D!cacheVars
<1>16. Fs!Init <=> D!Init
  BY SameCache DEF Fs!Init, D!Init
<1> QED
  BY <1>1, <1>2, <1>3, <1>4, <1>5, <1>6, <1>7, <1>8, <1>9, <1>10, <1>11, <1>12,
     <1>13, <1>14, <1>15, <1>16

-----------------------------------------------------------------------------
(***************************************************************************)
(* The inductive invariant.                                                *)
(***************************************************************************)
Phases == {"idle", "rust", "store", "clear dir", "clear rust", "write"}

Listings == [version : D!Versions, raced : BOOLEAN, age : Nat]

Typed ==
    /\ DOMAIN dir \subseteq Keys
    /\ dir \in [DOMAIN dir -> Listings]
    /\ phase \in [Threads -> Phases]
    /\ call \in [Threads -> Call \cup {None}]
    /\ got \in [Threads -> D!Versions \cup {None}]
    /\ mine \in [Threads -> D!Versions]
    /\ isOpen \in [Threads -> BOOLEAN]
    /\ raced \in [Threads -> BOOLEAN]
    /\ settled \in D!Versions
    /\ \A t \in Threads : phase[t] \in {"rust", "store"} => call[t] # None
    /\ \A t \in Threads : phase[t] = "store" => got[t] # None

Clocked ==
    /\ clock \in 0 .. MaxTime
    /\ replacedAt \in [D!Versions -> 0 .. MaxTime \cup {None}]
    /\ \A k \in DOMAIN dir : dir[k].age <= clock

NothingFromTheFuture ==
    /\ settled <= version
    /\ \A t \in Threads : mine[t] <= version
    /\ \A t \in Threads : call[t] # None => call[t].base <= version

\* While a thread has cleared DirCache and not yet the Rust cache.
HalfClearedRaces ==
    \A t \in Threads : phase[t] = "clear rust" =>
        /\ \A k \in DOMAIN dir : dir[k].raced
        /\ \A u \in Threads : u # t /\ call[u] # None => raced[u]

StaleAnswersRaced ==
    /\ D!Marked(settled)
    /\ \A t \in Threads : phase[t] = "store" /\ got[t] < settled => raced[t]

\* What a refreshing call may find in the Rust cache of before it.
Refreshed ==
    \A t \in Threads :
        phase[t] = "rust" /\ call[t].refresh => D!Marked(call[t].base)

IInv ==
    /\ D!IInv
    /\ Typed
    /\ Clocked
    /\ NothingFromTheFuture
    /\ HalfClearedRaces
    /\ StaleAnswersRaced
    /\ StaleOnlyIfRaced
    /\ Refreshed
    /\ RefreshIsCurrent

-----------------------------------------------------------------------------
\* A Python thread's step is a step of DatabaseFs or leaves it alone.
LEMMA Inside == Typed /\ [Next]_vars => [D!Next]_D!vars
<1> SUFFICES ASSUME Typed, [Next]_vars
             PROVE  D!Next \/ UNCHANGED D!vars
  OBVIOUS
<1>1. ASSUME NEW t \in Threads, RustHit(t)
      PROVE  D!Next
  <2>1. call[t].key \in Keys
    BY <1>1 DEF RustHit, Typed, Call
  <2>2. D!LookupHit(t, call[t].key)
    BY <1>1, SameActions DEF RustHit
  <2> QED
    BY <2>1, <2>2 DEF D!Next, D!Step
<1>2. ASSUME NEW t \in Threads, RustMiss(t)
      PROVE  D!Next
  <2>1. call[t].key \in Keys
    BY <1>2 DEF RustMiss, Typed, Call
  <2>2. D!LookupMiss(t, call[t].key) \/ D!Load(t) \/ D!Store(t) \/ D!Evict(t)
    BY <1>2, SameActions DEF RustMiss
  <2> QED
    BY <2>1, <2>2 DEF D!Next, D!Step
<1>3. ASSUME NEW t \in Threads,
             \/ RustLoaded(t) \/ RustFails(t) \/ ClearRust(t) \/ PipeFile(t)
             \/ Written(t) \/ PutFile(t) \/ Close(t)
      PROVE  D!Next
  <2>1. \/ D!Stored(t) \/ D!StoreDisabled(t) \/ D!LoadFails(t) \/ D!InvalidateCache(t)
        \/ D!WriteBytes(t) \/ D!Invalidate(t) \/ D!CloseHandle(t)
    BY <1>3, SameActions
       DEF RustLoaded, RustFails, ClearRust, PipeFile, Written, PutFile, Close
  <2> QED
    BY <2>1 DEF D!Next, D!Step
<1>4. ASSUME NEW t \in Threads,
             \/ \E k \in Keys : ListedCall(t, k) \/ UnlistedCall(t, k) \/ RefreshCall(t, k)
             \/ StoreListing(t) \/ ClearDir(t) \/ Open(t)
      PROVE  UNCHANGED D!vars
  <2>1. UNCHANGED fsVars
    BY <1>4 DEF ListedCall, UnlistedCall, RefreshCall, StoreListing, ClearDir, Open
  <2> QED
    BY <2>1, SameActions
<1>5. CASE OtherConnection
  BY <1>5, SameActions DEF OtherConnection, D!Next
<1>6. CASE Tick
  BY <1>6, SameActions DEF Tick, D!Next
<1>7. CASE UNCHANGED vars
  BY <1>7, SameActions DEF vars
<1> QED
  BY <1>1, <1>2, <1>3, <1>4, <1>5, <1>6, <1>7 DEF Next, Step

\* DatabaseFs keeps its invariant; its answers of before a version stay so.
LEMMA RustSteps ==
    ASSUME IInv, [Next]_vars
    PROVE  /\ D!IInv'
           /\ version \in Nat /\ version' \in Nat /\ version <= version'
           /\ \A n \in Nat : n <= version => /\ D!Marked(n) => D!Marked(n)'
                                             /\ D!Fresh(n) => D!Fresh(n)'
<1>1. D!IInv /\ [D!Next]_D!vars
  BY Inside DEF IInv
<1>2. D!IInv'
  BY <1>1, D!StepIInv, Constants
<1>3. version \in Nat
  BY <1>1, Constants DEF D!IInv, D!Typed, D!Versions
<1> QED
  BY <1>1, <1>2, <1>3, D!NothingComesBack, Constants

\* rust.ls or rust.info answers with what was cached or loaded.
LEMMA WhatRustAnswers ==
    ASSUME IInv, NEW t \in Threads, RustHit(t) \/ RustLoaded(t)
    PROVE  \E a \in D!Answered : a \in D!Answers /\ Answered(t, a)
<1>1. CASE RustHit(t)
  <2>1. call[t].key \in DOMAIN entries
    BY <1>1, SameActions DEF RustHit, D!LookupHit, D!Cache!GetHit
  <2>2. entries[call[t].key].value \in D!Answered
    BY <2>1, D!AnswerTypes, Constants DEF IInv
  <2> QED
    BY <1>1, <2>2, D!AnswerTypes, Constants DEF RustHit, IInv
<1>2. CASE RustLoaded(t)
  <2>1. D!Storing(t)
    BY <1>2, SameActions DEF RustLoaded, D!Stored, D!StoreDisabled, D!Goto, D!Storing
  <2> QED
    BY <1>2, <2>1, D!AnswerTypes, Constants DEF RustLoaded, IInv
<1> QED
  BY <1>1, <1>2

\* No write makes a version there is not.
LEMMA WhatIsWritten ==
    ASSUME IInv, [Next]_vars, NEW t \in Threads, PipeFile(t) \/ PutFile(t) \/ Close(t)
    PROVE  version' = version + 1 /\ version + 1 \in D!Versions
<1>1. version' = version + 1
  BY SameActions DEF PipeFile, PutFile, Close, D!WriteBytes, D!CloseHandle, D!Change
<1> QED
  BY <1>1, RustSteps DEF D!IInv, D!Typed

\* Every step keeps the types.
LEMMA StepTyped ==
    ASSUME IInv, [Next]_vars
    PROVE  Typed'
<1>1. D!Versions = Fs!Versions /\ version \in D!Versions
  BY DEF D!Versions, Fs!Versions, IInv, D!IInv, D!Typed
<1>2. ASSUME NEW t \in Threads, NEW k \in Keys,
             ListedCall(t, k) \/ UnlistedCall(t, k) \/ RefreshCall(t, k)
      PROVE  Typed'
  <2>1. CASE ListedCall(t, k)
    BY <2>1 DEF ListedCall, pyVars, IInv, Typed
  <2>2. CASE UnlistedCall(t, k) \/ RefreshCall(t, k)
    <3>1. \E r \in BOOLEAN : Begin(t, k, r)
      BY <2>2 DEF UnlistedCall, RefreshCall
    <3>2. /\ \E c \in Call : call' = [call EXCEPT ![t] = c]
          /\ raced' = [raced EXCEPT ![t] = HalfCleared] /\ HalfCleared \in BOOLEAN
      BY <1>1, <3>1 DEF Begin, Call, HalfCleared
    <3>3. /\ call' \in [Threads -> Call \cup {None}]
          /\ \A u \in Threads : call[u] # None => call'[u] # None
          /\ call'[t] # None
          /\ raced' \in [Threads -> BOOLEAN]
      BY <3>2, NoneAssumption DEF IInv, Typed
    <3>4. DOMAIN dir' \subseteq Keys /\ dir' \in [DOMAIN dir' -> Listings]
      BY <2>2 DEF UnlistedCall, RefreshCall, Restrict, IInv, Typed
    <3>5. /\ \/ phase' = [phase EXCEPT ![t] = "rust"]
             \/ phase' = [phase EXCEPT ![t] = "clear dir"]
          /\ UNCHANGED <<got, mine, isOpen, settled>>
      BY <2>2 DEF UnlistedCall, RefreshCall, Goto
    <3> QED
      BY <3>3, <3>4, <3>5 DEF IInv, Typed, Phases
  <2> QED
    BY <1>2, <2>1, <2>2
<1>3. ASSUME NEW t \in Threads, RustHit(t) \/ RustLoaded(t)
      PROVE  Typed'
  <2>1. PICK a \in D!Answers : Answered(t, a)
    BY <1>3, WhatRustAnswers
  <2>2. a.version \in D!Versions /\ a.overtaken \in BOOLEAN /\ a.version # None
    BY <2>1, Constants DEF D!Answers, D!Versions
  <2>3. /\ phase[t] = "rust"
        /\ phase' = [phase EXCEPT ![t] = "store"]
        /\ got' = [got EXCEPT ![t] = a.version]
        /\ raced' = [raced EXCEPT ![t] = @ \/ a.overtaken]
        /\ UNCHANGED <<dir, call, mine, isOpen, settled>>
    BY <1>3, <2>1 DEF RustHit, RustLoaded, Answered, Goto
  <2> QED
    BY <2>2, <2>3 DEF IInv, Typed, Phases
<1>4. ASSUME NEW t \in Threads, RustFails(t)
      PROVE  Typed'
  BY <1>4 DEF RustFails, Goto, IInv, Typed, Phases
<1>5. ASSUME NEW t \in Threads, StoreListing(t)
      PROVE  Typed'
  <2> DEFINE line == [version |-> got[t], raced |-> raced[t], age |-> 0]
  <2>1. /\ phase[t] = "store" /\ call[t] \in Call /\ call[t].key \in Keys
        /\ got[t] \in D!Versions /\ raced[t] \in BOOLEAN
    BY <1>5 DEF StoreListing, Goto, IInv, Typed, Call
  <2>2. line \in Listings
    BY <2>1 DEF Listings
  <2>3. dir' = [k \in DOMAIN dir \cup {call[t].key} |->
                  IF k = call[t].key THEN line ELSE dir[k]]
    BY <1>5 DEF StoreListing
  <2> HIDE DEF line
  <2>4. DOMAIN dir' \subseteq Keys /\ dir' \in [DOMAIN dir' -> Listings]
    BY <2>1, <2>2, <2>3 DEF IInv, Typed
  <2>5. /\ phase' = [phase EXCEPT ![t] = "idle"]
        /\ call' = [call EXCEPT ![t] = None]
        /\ got' = [got EXCEPT ![t] = None]
        /\ UNCHANGED <<mine, isOpen, raced, settled>>
    BY <1>5 DEF StoreListing, Goto
  <2> QED
    BY <2>4, <2>5 DEF IInv, Typed, Phases
<1>6. ASSUME NEW t \in Threads, ClearDir(t) \/ Written(t)
      PROVE  Typed'
  <2>1. dir' \in [DOMAIN dir' -> Listings] /\ DOMAIN dir' \subseteq Keys
    <3>1. CASE dir' = << >>
      <4>1. DOMAIN dir' = {}
        BY <3>1
      <4> QED
        BY <4>1, <3>1
    <3>2. CASE dir' = dir
      BY <3>2 DEF IInv, Typed
    <3> QED
      BY <1>6, <3>1, <3>2 DEF ClearDir, Written
  <2>2. raced' \in [Threads -> BOOLEAN]
    BY <1>6 DEF ClearDir, Written, Race, IInv, Typed
  <2>3. /\ phase' \in [Threads -> Phases]
        /\ \A u \in Threads : phase'[u] \in {"rust", "store"} => phase'[u] = phase[u]
        /\ UNCHANGED <<call, got, mine, isOpen, settled>>
    BY <1>6 DEF ClearDir, Written, Goto, IInv, Typed, Phases
  <2> QED
    BY <2>1, <2>2, <2>3 DEF IInv, Typed
<1>7. ASSUME NEW t \in Threads, ClearRust(t)
      PROVE  Typed'
  <2>1. raced' \in [Threads -> BOOLEAN] /\ settled' \in D!Versions
    BY <1>7 DEF ClearRust, Race, IInv, Typed
  <2>2. /\ phase' \in [Threads -> Phases]
        /\ \A u \in Threads : phase'[u] \in {"rust", "store"} => call[u] # None
        /\ \A u \in Threads : phase'[u] = "store" => phase[u] = "store"
        /\ UNCHANGED <<dir, call, got, mine, isOpen>>
    BY <1>7 DEF ClearRust, Goto, IInv, Typed, Phases
  <2> QED
    BY <2>1, <2>2 DEF IInv, Typed
<1>8. ASSUME NEW t \in Threads, PipeFile(t) \/ PutFile(t)
      PROVE  Typed'
  <2>1. /\ mine' = [mine EXCEPT ![t] = version + 1] /\ version + 1 \in D!Versions
        /\ \/ phase' = [phase EXCEPT ![t] = "write"]
           \/ phase' = [phase EXCEPT ![t] = "clear dir"]
        /\ UNCHANGED <<dir, call, got, isOpen, raced, settled>>
    BY <1>8, WhatIsWritten DEF PipeFile, PutFile, Goto
  <2> QED
    BY <2>1 DEF IInv, Typed, Phases
<1>9. ASSUME NEW t \in Threads, Open(t) \/ Close(t)
      PROVE  Typed'
  BY <1>9 DEF Open, Close, Goto, IInv, Typed, Phases
<1>10. CASE Tick
  <2> DEFINE aged(k) == [dir[k] EXCEPT !.age = @ + 1]
  <2>1. \A k \in DOMAIN dir : aged(k) \in Listings
    BY DEF IInv, Typed, Listings
  <2>2. dir' = [k \in DOMAIN dir |-> aged(k)]
        /\ UNCHANGED <<phase, call, got, mine, isOpen, raced, settled>>
    BY <1>10 DEF Tick
  <2> HIDE DEF aged
  <2> QED
    BY <2>1, <2>2 DEF IInv, Typed
<1>11. ASSUME OtherConnection \/ UNCHANGED vars \/ \E t \in Threads : RustMiss(t)
       PROVE  Typed'
  BY <1>11 DEF OtherConnection, RustMiss, vars, pyVars, IInv, Typed
<1> QED
  BY <1>2, <1>3, <1>4, <1>5, <1>6, <1>7, <1>8, <1>9, <1>10, <1>11 DEF Next, Step

\* Time passes in Tick only, and any other step notes what it changes.
LEMMA WhenTimePasses ==
    ASSUME [Next]_vars
    PROVE  Tick \/ Timeless
<1>1. CASE UNCHANGED vars
  BY <1>1 DEF vars, fsVars, Timeless, NoteChange
<1> QED
  BY <1>1 DEF Next, Step, ListedCall, UnlistedCall, RefreshCall, RustHit, RustMiss, RustLoaded,
     RustFails, StoreListing, ClearDir, ClearRust, PipeFile, Written, PutFile, Open, Close,
     OtherConnection

\* What is in DirCache after a step was there, or is what a call stores.
LEMMA WhereListingsComeFrom ==
    ASSUME IInv, [Next]_vars, NEW k \in DOMAIN dir'
    PROVE  \/ /\ k \in DOMAIN dir
              /\ dir'[k].version = dir[k].version /\ dir'[k].raced = dir[k].raced
              /\ dir'[k].age = dir[k].age \/ (Tick /\ dir'[k].age = dir[k].age + 1)
           \/ \E t \in Threads :
                 /\ StoreListing(t)
                 /\ dir'[k].version = got[t] /\ dir'[k].raced = raced[t] /\ dir'[k].age = 0
<1>1. ASSUME NEW t \in Threads, StoreListing(t)
      PROVE  \/ k \in DOMAIN dir /\ dir'[k] = dir[k]
             \/ dir'[k].version = got[t] /\ dir'[k].raced = raced[t] /\ dir'[k].age = 0
  <2> DEFINE line == [version |-> got[t], raced |-> raced[t], age |-> 0]
  <2>1. dir' = [j \in DOMAIN dir \cup {call[t].key} |->
                  IF j = call[t].key THEN line ELSE dir[j]]
    BY <1>1 DEF StoreListing
  <2>2. line.version = got[t] /\ line.raced = raced[t] /\ line.age = 0
    OBVIOUS
  <2> HIDE DEF line
  <2> QED
    BY <2>1, <2>2
<1>2. ASSUME NEW t \in Threads, ClearDir(t)
      PROVE  FALSE
  <2>1. dir' = << >>
    BY <1>2 DEF ClearDir
  <2>2. DOMAIN dir' = {}
    BY <2>1
  <2> QED
    BY <2>2
<1>3. ASSUME NEW t \in Threads, NEW j \in Keys, UnlistedCall(t, j)
      PROVE  k \in DOMAIN dir /\ dir'[k] = dir[k]
  BY <1>3 DEF UnlistedCall, Restrict
<1>4. ASSUME Tick
      PROVE  /\ k \in DOMAIN dir
             /\ dir'[k].version = dir[k].version /\ dir'[k].raced = dir[k].raced
             /\ dir'[k].age = dir[k].age + 1
  <2>1. k \in DOMAIN dir /\ dir[k] \in Listings /\ dir'[k] = [dir[k] EXCEPT !.age = @ + 1]
    BY <1>4 DEF Tick, IInv, Typed
  <2> QED
    BY <2>1 DEF Listings
<1>5. CASE UNCHANGED dir
  BY <1>5
<1> QED
  BY <1>1, <1>2, <1>3, <1>4, <1>5
     DEF Next, Step, ListedCall, RefreshCall, RustHit, RustMiss, RustLoaded, RustFails,
         ClearRust, PipeFile, Written, PutFile, Open, Close, OtherConnection, vars, pyVars

\* Nothing is younger than the clock, nor the clock beyond its bound.
LEMMA StepClocked ==
    ASSUME IInv, [Next]_vars
    PROVE  Clocked'
<1>1. /\ clock \in Nat /\ clock <= MaxTime /\ MaxTime \in Nat
      /\ \A k \in DOMAIN dir : dir[k].age \in Nat /\ dir[k].age <= clock
  BY MaxTimeAssumption DEF IInv, Typed, Clocked, Listings
<1>2. /\ clock' \in Nat /\ clock' <= MaxTime /\ clock' >= clock
      /\ Tick => clock' = clock + 1
  BY <1>1, WhenTimePasses DEF Tick, Timeless
<1>3. replacedAt' \in [D!Versions -> 0 .. MaxTime \cup {None}]
  BY <1>1, WhenTimePasses DEF Tick, Timeless, NoteChange, IInv, Clocked
<1>4. \A k \in DOMAIN dir' : dir'[k].age <= clock'
  BY <1>1, <1>2, WhereListingsComeFrom
<1> QED
  BY <1>1, <1>2, <1>3, <1>4 DEF Clocked

\* Only versions there are get written, settled or taken as a base.
LEMMA StepNothingFromTheFuture ==
    ASSUME IInv, [Next]_vars
    PROVE  NothingFromTheFuture'
<1>1. /\ version \in Nat /\ version' \in Nat /\ version <= version'
      /\ settled \in Nat /\ \A t \in Threads : mine[t] \in Nat
      /\ \A t \in Threads : call[t] # None => call[t].base \in Nat
  BY RustSteps, Constants DEF IInv, Typed, D!Versions, Call, Fs!Versions
<1>2. settled' <= version'
  <2>1. UNCHANGED settled \/ \E t \in Threads : settled' = mine[t]
    BY DEF Next, Step, ListedCall, UnlistedCall, RefreshCall, RustHit, RustMiss, RustLoaded,
       RustFails, StoreListing, ClearDir, ClearRust, PipeFile, Written, PutFile, Open, Close,
       OtherConnection, Tick, vars, pyVars
  <2> QED
    BY <1>1, <2>1 DEF IInv, NothingFromTheFuture
<1>3. ASSUME NEW u \in Threads
      PROVE  mine'[u] <= version'
  <2>1. UNCHANGED mine \/ \E t \in Threads : PipeFile(t) \/ PutFile(t)
    BY DEF Next, Step, ListedCall, UnlistedCall, RefreshCall, RustHit, RustMiss, RustLoaded,
       RustFails, StoreListing, ClearDir, ClearRust, Written, Open, Close,
       OtherConnection, Tick, vars, pyVars
  <2>2. ASSUME NEW t \in Threads, PipeFile(t) \/ PutFile(t)
        PROVE  mine' = [mine EXCEPT ![t] = version']
    BY <2>2, WhatIsWritten DEF PipeFile, PutFile
  <2> QED
    BY <1>1, <2>1, <2>2 DEF IInv, Typed, NothingFromTheFuture
<1>4. ASSUME NEW u \in Threads, call'[u] # None
      PROVE  call'[u].base <= version'
  <2>1. CASE \E t \in Threads, k \in Keys : UnlistedCall(t, k) \/ RefreshCall(t, k)
    <3>1. PICK t \in Threads, k \in Keys, r \in BOOLEAN : Begin(t, k, r)
      BY <2>1 DEF UnlistedCall, RefreshCall
    <3> DEFINE c == [key |-> k, refresh |-> r, base |-> version]
    <3>2. call' = [call EXCEPT ![t] = c] /\ c.base = version
      BY <3>1 DEF Begin
    <3> HIDE DEF c
    <3> QED
      BY <1>1, <1>4, <3>2 DEF IInv, Typed, NothingFromTheFuture
  <2>2. CASE \E t \in Threads : call' = [call EXCEPT ![t] = None]
    BY <1>1, <1>4, <2>2 DEF IInv, Typed, NothingFromTheFuture
  <2>3. CASE UNCHANGED call
    BY <1>1, <1>4, <2>3 DEF IInv, NothingFromTheFuture
  <2> QED
    BY <2>1, <2>2, <2>3
       DEF Next, Step, ListedCall, RustHit, RustMiss, RustLoaded, RustFails, StoreListing,
           ClearDir, ClearRust, PipeFile, Written, PutFile, Open, Close, OtherConnection,
           Tick, vars, pyVars
<1> QED
  BY <1>2, <1>3, <1>4 DEF NothingFromTheFuture

\* A call goes on, with its history; one that begins while an invalidation is
\* between its two clears is raced from its start.
LEMMA WhereCallsComeFrom ==
    ASSUME IInv, [Next]_vars, NEW u \in Threads, call'[u] # None
    PROVE  \/ call[u] = call'[u] /\ (raced[u] => raced'[u])
           \/ /\ phase[u] = "idle"
              /\ raced'[u] = HalfCleared
              /\ phase'[u] \in {"rust", "clear dir"}
              /\ phase'[u] = "rust" => ~call'[u].refresh
              /\ \A v \in Threads : v # u => phase'[v] = phase[v]
<1>1. ASSUME NEW t \in Threads, NEW k \in Keys, UnlistedCall(t, k) \/ RefreshCall(t, k)
      PROVE  \/ call[u] = call'[u] /\ raced'[u] = raced[u]
             \/ /\ phase[u] = "idle"
                /\ raced'[u] = HalfCleared
                /\ phase'[u] \in {"rust", "clear dir"}
                /\ phase'[u] = "rust" => ~call'[u].refresh
                /\ \A v \in Threads : v # u => phase'[v] = phase[v]
  <2> DEFINE begun(r) == [key |-> k, refresh |-> r, base |-> version]
  <2>1. begun(FALSE).refresh = FALSE
    OBVIOUS
  <2>2. \/ /\ phase' = [phase EXCEPT ![t] = "rust"]
           /\ call' = [call EXCEPT ![t] = begun(FALSE)]
        \/ /\ phase' = [phase EXCEPT ![t] = "clear dir"]
           /\ call' = [call EXCEPT ![t] = begun(TRUE)]
    BY <1>1 DEF UnlistedCall, RefreshCall, Goto, Begin
  <2>3. phase[t] = "idle" /\ raced' = [raced EXCEPT ![t] = HalfCleared]
    BY <1>1 DEF UnlistedCall, RefreshCall, Goto, Begin
  <2> HIDE DEF begun
  <2>4. CASE u = t
    BY <2>1, <2>2, <2>3, <2>4 DEF IInv, Typed
  <2>5. CASE u # t
    BY <2>2, <2>3, <2>5 DEF IInv, Typed
  <2> QED
    BY <2>4, <2>5
<1>2. ASSUME NEW t \in Threads, RustHit(t) \/ RustLoaded(t)
      PROVE  call[u] = call'[u] /\ (raced[u] => raced'[u])
  <2>1. UNCHANGED call /\ \E b : raced' = [raced EXCEPT ![t] = @ \/ b]
    BY <1>2, WhatRustAnswers DEF RustHit, RustLoaded, Answered
  <2> QED
    BY <2>1 DEF IInv, Typed
<1>3. ASSUME NEW t \in Threads, ClearDir(t) \/ ClearRust(t) \/ Written(t)
      PROVE  call[u] = call'[u] /\ (raced[u] => raced'[u])
  BY <1>3 DEF ClearDir, ClearRust, Written, Race
<1>4. ASSUME NEW t \in Threads, RustFails(t) \/ StoreListing(t)
      PROVE  call[u] = call'[u] /\ raced[u] = raced'[u]
  <2>1. call' = [call EXCEPT ![t] = None] /\ UNCHANGED raced
    BY <1>4 DEF RustFails, StoreListing
  <2> QED
    BY <2>1 DEF IInv, Typed
<1>5. CASE UNCHANGED <<call, raced>>
  BY <1>5
<1> QED
  BY <1>1, <1>2, <1>3, <1>4, <1>5
     DEF Next, Step, ListedCall, RustMiss, PipeFile, PutFile, Open, Close, OtherConnection,
         Tick, vars, pyVars

\* How a thread comes to be where it is.
LEMMA WherePhasesComeFrom ==
    ASSUME IInv, [Next]_vars, NEW t \in Threads
    PROVE  /\ phase'[t] = "clear rust" => phase[t] = "clear rust" \/ ClearDir(t)
           /\ phase'[t] = "store" => \/ phase[t] = "store" /\ got'[t] = got[t]
                                     \/ RustHit(t) \/ RustLoaded(t)
           /\ phase'[t] = "rust" => \/ phase[t] = "rust"
                                    \/ \E k \in Keys : UnlistedCall(t, k)
                                    \/ ClearRust(t)
<1> DEFINE Kept(u) == phase'[u] = phase[u] /\ got'[u] = got[u]
<1>1. ASSUME NEW s \in Threads, Step(s), s # t
      PROVE  Kept(t)
  <2>1. CASE RustHit(s) \/ RustLoaded(s)
    <3>1. \E a : Answered(s, a)
      BY <2>1 DEF RustHit, RustLoaded
    <3> QED
      BY <1>1, <3>1 DEF Answered, Goto, IInv, Typed
  <2>2. CASE RustMiss(s) \/ RustFails(s) \/ StoreListing(s) \/ ClearDir(s) \/ ClearRust(s)
    BY <1>1, <2>2 DEF RustMiss, RustFails, StoreListing, ClearDir, ClearRust, Goto, pyVars,
       IInv, Typed
  <2>3. CASE PipeFile(s) \/ Written(s) \/ PutFile(s) \/ Open(s) \/ Close(s)
    BY <1>1, <2>3 DEF PipeFile, Written, PutFile, Open, Close, Goto, IInv, Typed
  <2>4. ASSUME NEW k \in Keys, ListedCall(s, k) \/ UnlistedCall(s, k) \/ RefreshCall(s, k)
        PROVE  Kept(t)
    BY <1>1, <2>4 DEF ListedCall, UnlistedCall, RefreshCall, Goto, pyVars, IInv, Typed
  <2> QED
    BY <1>1, <2>1, <2>2, <2>3, <2>4 DEF Step
<1>2. CASE OtherConnection \/ Tick \/ UNCHANGED vars
  BY <1>2 DEF OtherConnection, Tick, vars, pyVars
<1>3. CASE Step(t)
  <2>1. CASE RustMiss(t) \/ \E k \in Keys : ListedCall(t, k)
    BY <2>1 DEF RustMiss, ListedCall, pyVars
  <2>2. CASE \/ RustFails(t) \/ StoreListing(t) \/ PipeFile(t) \/ Written(t) \/ PutFile(t)
             \/ Open(t) \/ \E k \in Keys : RefreshCall(t, k)
    <3>1. phase'[t] \in {"idle", "write", "clear dir"}
      BY <2>2 DEF RustFails, StoreListing, PipeFile, Written, PutFile, Open, RefreshCall,
         Goto, IInv, Typed
    <3> QED
      BY <3>1
  <2>3. CASE Close(t)
    BY <2>3 DEF Close
  <2>4. CASE ClearDir(t) \/ ClearRust(t)
    BY <2>4 DEF ClearDir, ClearRust, Goto, IInv, Typed
  <2>5. CASE RustHit(t) \/ RustLoaded(t)
    <3>1. phase' = [phase EXCEPT ![t] = "store"]
      BY <2>5 DEF RustHit, RustLoaded, Answered, Goto
    <3> QED
      BY <2>5, <3>1 DEF IInv, Typed
  <2>6. CASE \E k \in Keys : UnlistedCall(t, k)
    BY <2>6 DEF UnlistedCall, Goto, IInv, Typed
  <2> QED
    BY <1>3, <2>1, <2>2, <2>3, <2>4, <2>5, <2>6 DEF Step
<1> QED
  BY <1>1, <1>2, <1>3 DEF Next

\* The caches settle a write only when the second of them is cleared.
LEMMA WhereSettledComesFrom ==
    ASSUME [Next]_vars
    PROVE  UNCHANGED settled \/ \E t \in Threads : ClearRust(t)
BY DEF Next, Step, ListedCall, UnlistedCall, RefreshCall, RustHit, RustMiss, RustLoaded,
       RustFails, StoreListing, ClearDir, PipeFile, Written, PutFile, Open, Close,
       OtherConnection, Tick, vars, pyVars

\* After the second clear all answers of before are overtaken ones, and so
\* are all calls but that of the thread that clears, and all listings.
LEMMA WhatClearRustDoes ==
    ASSUME IInv, NEW t \in Threads, ClearRust(t)
    PROVE  /\ \A n : D!Marked(n)'
           /\ \A u \in Threads : u # t /\ call[u] # None => raced'[u]
           /\ \A k \in DOMAIN dir : dir[k].raced
           /\ phase[t] = "clear rust" /\ phase'[t] \in {"rust", "idle"}
           /\ UNCHANGED <<dir, call, got>>
<1>1. D!ClearCache
  BY SameActions DEF ClearRust, D!InvalidateCache
<1>2. \A a \in D!Answered' : a.overtaken
  BY <1>1, D!ClearMarks, Constants DEF IInv
<1>3. \A n : D!Marked(n)'
  BY <1>2 DEF D!Marked
<1>4. phase[t] = "clear rust" /\ phase'[t] \in {"rust", "idle"}
  BY DEF ClearRust, Goto, IInv, Typed
<1>5. \A u \in Threads : u # t /\ call[u] # None => raced'[u]
  BY DEF ClearRust, Race
<1> QED
  BY <1>3, <1>4, <1>5 DEF ClearRust, IInv, HalfClearedRaces

\* A call that takes an answer of before version n is raced, if they are marked.
LEMMA WhatIsTakenOver ==
    ASSUME IInv, NEW t \in Threads, RustHit(t) \/ RustLoaded(t), NEW n, D!Marked(n)
    PROVE  /\ got'[t] \in D!Versions
           /\ got'[t] < n => raced'[t]
<1>1. PICK a \in D!Answered : a \in D!Answers /\ Answered(t, a)
  BY WhatRustAnswers
<1>2. got' = [got EXCEPT ![t] = a.version] /\ raced' = [raced EXCEPT ![t] = @ \/ a.overtaken]
  BY <1>1 DEF Answered
<1>3. got'[t] = a.version /\ (a.overtaken => raced'[t])
  BY <1>2 DEF IInv, Typed
<1> QED
  BY <1>1, <1>3 DEF D!Marked, D!Answers

\* An empty DirCache.
LEMMA NothingListed == \A f : f = << >> => DOMAIN f = {}
OBVIOUS

\* Between the two clears only raced calls store, as all others have begun since.
LEMMA StepHalfClearedRaces ==
    ASSUME IInv, [Next]_vars
    PROVE  HalfClearedRaces'
<1> SUFFICES ASSUME NEW t \in Threads, phase'[t] = "clear rust"
             PROVE  /\ \A k \in DOMAIN dir' : dir'[k].raced
                    /\ \A u \in Threads : u # t /\ call'[u] # None => raced'[u]
  BY DEF HalfClearedRaces
<1>1. CASE ClearDir(t)
  <2>1. DOMAIN dir' = {}
    BY <1>1, NothingListed DEF ClearDir
  <2> QED
    BY <1>1, <2>1 DEF ClearDir, Race
<1>2. CASE phase[t] = "clear rust"
  <2>1. /\ \A k \in DOMAIN dir : dir[k].raced
        /\ \A u \in Threads : u # t /\ call[u] # None => raced[u]
        /\ HalfCleared
    BY <1>2 DEF IInv, HalfClearedRaces, HalfCleared
  <2>2. ASSUME NEW k \in DOMAIN dir'
        PROVE  dir'[k].raced
    <3>1. ASSUME NEW u \in Threads, StoreListing(u)
          PROVE  raced[u]
      BY <1>2, <2>1, <3>1 DEF StoreListing, Goto, IInv, Typed
    <3> QED
      BY <2>1, <3>1, WhereListingsComeFrom
  <2> QED
    BY <2>1, <2>2, WhereCallsComeFrom
<1> QED
  BY <1>1, <1>2, WherePhasesComeFrom

\* What a call may take over of before the last settled write is marked.
LEMMA StepStaleAnswersRaced ==
    ASSUME IInv, [Next]_vars
    PROVE  StaleAnswersRaced'
<1>1. D!Marked(settled)'
  <2>1. CASE UNCHANGED settled
    <3>1. settled \in Nat /\ settled <= version /\ D!Marked(settled)
      BY DEF IInv, Typed, D!Versions, NothingFromTheFuture, StaleAnswersRaced
    <3> QED
      BY <2>1, <3>1, RustSteps DEF D!Marked
  <2>2. ASSUME NEW s \in Threads, ClearRust(s)
        PROVE  D!Marked(settled)'
    BY <2>2, WhatClearRustDoes DEF D!Marked
  <2> QED
    BY <2>1, <2>2, WhereSettledComesFrom
<1>2. ASSUME NEW t \in Threads, phase'[t] = "store", got'[t] < settled'
      PROVE  raced'[t]
  <2>1. ASSUME NEW s \in Threads, ClearRust(s)
        PROVE  raced'[t]
    <3>1. t # s /\ call'[t] # None
      BY <1>2, <2>1, WhatClearRustDoes, StepTyped DEF Typed
    <3> QED
      BY <2>1, <3>1, WhatClearRustDoes
  <2>2. CASE UNCHANGED settled
    <3>1. CASE RustHit(t) \/ RustLoaded(t)
      BY <1>2, <2>2, <3>1, WhatIsTakenOver DEF IInv, StaleAnswersRaced
    <3>2. CASE phase[t] = "store" /\ got'[t] = got[t]
      <4>1. raced[t]
        BY <1>2, <2>2, <3>2 DEF IInv, StaleAnswersRaced
      <4>2. call'[t] # None
        BY <1>2, StepTyped DEF Typed
      <4> QED
        BY <3>2, <4>1, <4>2, WhereCallsComeFrom
    <3> QED
      BY <1>2, <3>1, <3>2, WherePhasesComeFrom
  <2> QED
    BY <2>1, <2>2, WhereSettledComesFrom
<1> QED
  BY <1>1, <1>2 DEF StaleAnswersRaced

\* So is what it stores; and the second clear settles nothing unraced.
LEMMA StepStaleOnlyIfRaced ==
    ASSUME IInv, [Next]_vars
    PROVE  StaleOnlyIfRaced'
<1> SUFFICES ASSUME NEW k \in DOMAIN dir', dir'[k].version < settled'
             PROVE  dir'[k].raced
  BY DEF StaleOnlyIfRaced
<1>1. ASSUME NEW s \in Threads, ClearRust(s)
      PROVE  dir'[k].raced
  BY <1>1, WhatClearRustDoes
<1>2. CASE UNCHANGED settled
  <2>1. CASE \E t \in Threads :
               /\ StoreListing(t)
               /\ dir'[k].version = got[t] /\ dir'[k].raced = raced[t]
    BY <1>2, <2>1 DEF StoreListing, Goto, IInv, StaleAnswersRaced
  <2>2. CASE /\ k \in DOMAIN dir
             /\ dir'[k].version = dir[k].version /\ dir'[k].raced = dir[k].raced
    BY <1>2, <2>2 DEF IInv, StaleOnlyIfRaced
  <2> QED
    BY <2>1, <2>2, WhereListingsComeFrom
<1> QED
  BY <1>1, <1>2, WhereSettledComesFrom

\* A refreshing call finds the Rust cache cleared since it began.
LEMMA StepRefreshed ==
    ASSUME IInv, [Next]_vars
    PROVE  Refreshed'
<1> SUFFICES ASSUME NEW t \in Threads, phase'[t] = "rust", call'[t].refresh
             PROVE  D!Marked(call[t].base)'
  BY DEF Refreshed
<1>1. call'[t] # None
  BY StepTyped DEF Typed
<1>2. CASE phase[t] = "rust"
  <2>1. call'[t] = call[t]
    BY <1>1, <1>2, WhereCallsComeFrom
  <2>2. call[t].base \in Nat /\ call[t].base <= version /\ D!Marked(call[t].base)
    BY <1>1, <1>2, <2>1
       DEF IInv, Typed, Call, Fs!Versions, NothingFromTheFuture, Refreshed
  <2> QED
    BY <2>1, <2>2, RustSteps DEF D!Marked
<1>3. ASSUME NEW k \in Keys, UnlistedCall(t, k)
      PROVE  FALSE
  <2> DEFINE begun == [key |-> k, refresh |-> FALSE, base |-> version]
  <2>1. call' = [call EXCEPT ![t] = begun] /\ begun.refresh = FALSE
    BY <1>3 DEF UnlistedCall, Begin
  <2> HIDE DEF begun
  <2> QED
    BY <2>1 DEF IInv, Typed
<1>4. CASE ClearRust(t)
  BY <1>4, WhatClearRustDoes DEF D!Marked
<1> QED
  BY <1>2, <1>3, <1>4, WherePhasesComeFrom

\* So what it takes of before its start is overtaken, and the call raced.
LEMMA StepRefreshIsCurrent ==
    ASSUME IInv, [Next]_vars
    PROVE  RefreshIsCurrent'
<1> SUFFICES ASSUME NEW t \in Threads, phase'[t] = "store", call'[t].refresh, ~raced'[t]
             PROVE  got'[t] >= call'[t].base
  BY DEF RefreshIsCurrent
<1>1. call'[t] # None
  BY StepTyped DEF Typed
<1>2. phase[t] \in {"store", "rust"}
  BY WherePhasesComeFrom DEF RustHit, RustLoaded, Answered, Goto
<1>3. call'[t] = call[t] /\ ~raced[t]
  BY <1>1, <1>2, WhereCallsComeFrom
<1>4. CASE phase[t] = "store" /\ got'[t] = got[t]
  BY <1>3, <1>4 DEF IInv, RefreshIsCurrent
<1>5. CASE RustHit(t) \/ RustLoaded(t)
  <2>1. phase[t] = "rust"
    BY <1>5 DEF RustHit, RustLoaded, Answered, Goto
  <2>2. D!Marked(call[t].base) /\ call[t].base \in Nat
    BY <1>1, <1>3, <2>1 DEF IInv, Typed, Call, Fs!Versions, Refreshed
  <2> QED
    BY <1>3, <1>5, <2>2, WhatIsTakenOver, Constants DEF D!Versions
<1> QED
  BY <1>4, <1>5, WherePhasesComeFrom

\* Every step keeps the invariant.
LEMMA StepIInv == IInv /\ [Next]_vars => IInv'
BY RustSteps, StepTyped, StepClocked, StepNothingFromTheFuture, StepHalfClearedRaces,
   StepStaleAnswersRaced, StepStaleOnlyIfRaced, StepRefreshed, StepRefreshIsCurrent
   DEF IInv

\* The start: two empty caches, idle threads.
LEMMA InitIInv == Init => IInv
<1> SUFFICES ASSUME Init
             PROVE  IInv
  OBVIOUS
<1>1. D!IInv
  BY SameActions, D!InitIInv, Constants DEF Init
<1>2. dir = << >> /\ DOMAIN dir = {}
  BY NothingListed DEF Init
<1>3. version = 0 /\ 0 \in D!Versions
  BY <1>1 DEF Init, Fs!Init, D!IInv, D!Typed
<1>4. Typed
  <2>1. dir \in [DOMAIN dir -> Listings] /\ DOMAIN dir \subseteq Keys
    BY <1>2
  <2> QED
    BY <1>3, <2>1 DEF Init, Typed, Phases
<1>5. Clocked
  BY <1>2, MaxTimeAssumption DEF Init, Clocked, Fs!Versions, D!Versions
<1>6. NothingFromTheFuture /\ HalfClearedRaces
  BY <1>3 DEF Init, NothingFromTheFuture, HalfClearedRaces
<1>7. StaleAnswersRaced
  <2>1. \A a \in D!Answered : a.version \in Nat
    BY <1>1, D!AnswerTypes, Constants DEF D!Versions
  <2> QED
    BY <2>1 DEF Init, StaleAnswersRaced, D!Marked
<1>8. StaleOnlyIfRaced /\ Refreshed /\ RefreshIsCurrent
  BY <1>2 DEF Init, StaleOnlyIfRaced, Refreshed, RefreshIsCurrent
<1> QED
  BY <1>1, <1>4, <1>5, <1>6, <1>7, <1>8 DEF IInv

-----------------------------------------------------------------------------
(***************************************************************************)
(* Theorems.                                                               *)
(***************************************************************************)

\* The Python threads use DatabaseFs as its own specification allows
\* (spec.py:29-64, 238-294): what is proved of it, and of the cache inside it,
\* holds for them too.
THEOREM KeepsToDatabaseFs == Spec => D!Init /\ [][D!Next]_D!vars
<1>1. Init => D!Init
  BY SameActions DEF Init
<1>2. IInv /\ [Next]_vars => [D!Next]_D!vars
  BY Inside DEF IInv
<1> QED
  BY <1>1, <1>2, InitIInv, StepIInv, PTL DEF Spec

\* The two caches, the calls and the clock keep their types: an answer of
\* Rust is a version the database has had, and a listing is no older than the
\* clock (spec.py:29-64).
THEOREM TypeCorrect == Spec => []TypeOK
<1>1. IInv => TypeOK
  <2> SUFFICES ASSUME IInv
               PROVE  TypeOK
    OBVIOUS
  <2>1. D!Versions = Fs!Versions /\ D!Answers = Fs!Answers
    BY DEF D!Versions, Fs!Versions, D!Answers, Fs!Answers
  <2>2. Fs!TypeOK
    BY <2>1, D!TypesOfIInv, Constants DEF IInv, D!TypeOK, Fs!TypeOK
  <2>3. dir \in [DOMAIN dir -> Listing]
    <3>1. \A k \in DOMAIN dir : dir[k].age \in 0 .. MaxTime
      BY MaxTimeAssumption DEF IInv, Typed, Clocked, Listings
    <3> QED
      BY <2>1, <3>1 DEF IInv, Typed, Listings, Listing
  <2> QED
    BY <2>1, <2>2, <2>3 DEF IInv, Typed, Clocked, Phases, TypeOK
<1> QED
  BY <1>1, InitIInv, StepIInv, PTL DEF Spec

\* Whatever the threads do, an answer of before a write that has cleared both
\* caches is in DirCache only by a call that raced with an invalidation
\* (spec.py:39-41, 54-56, 59-64).
THEOREM StaleListingsAreRaced == Spec => []StaleOnlyIfRaced
<1>1. IInv => StaleOnlyIfRaced
  BY DEF IInv
<1> QED
  BY <1>1, InitIInv, StepIInv, PTL DEF Spec

\* A refreshing call that no other thread's invalidation overlaps answers
\* with the database as it was when it was called, or newer: it finds nothing
\* older in the Rust cache it has cleared (spec.py:29-42, 44-57).
THEOREM RefreshingCallsAreCurrent == Spec => []RefreshIsCurrent
<1>1. IInv => RefreshIsCurrent
  BY DEF IInv
<1> QED
  BY <1>1, InitIInv, StepIInv, PTL DEF Spec

-----------------------------------------------------------------------------
(***************************************************************************)
(* One thread.  Between its calls, and in one that is past its clears, all *)
(* there is in the two caches is its last write or newer.                  *)
(***************************************************************************)
Own ==
    \A t \in Threads :
        /\ phase[t] \in {"idle", "rust", "store"} =>
              /\ D!Fresh(mine[t])
              /\ \A k \in DOMAIN dir : dir[k].version >= mine[t]
        /\ phase[t] = "store" => got[t] >= mine[t]
        /\ phase[t] = "clear rust" => DOMAIN dir = {}

\* The only thread leaves nothing of before its last write.
LEMMA StepOwn ==
    ASSUME NEW t \in Threads, Threads = {t}, IInv, Own, [Next]_vars
    PROVE  Own'
<1> DEFINE Past == {"idle", "rust", "store"}
<1>1. mine[t] \in Nat /\ mine[t] <= version
  BY Constants DEF IInv, Typed, D!Versions, NothingFromTheFuture
<1>2. CASE ClearRust(t)
  <2>1. D!ClearCache /\ ~D!Storing(t)
    BY <1>2, SameActions DEF ClearRust, D!InvalidateCache, D!Storing
  <2>2. D!Answered' = {}
    BY <2>1, D!ClearMarks, Constants DEF IInv
  <2>3. DOMAIN dir' = {} /\ phase'[t] \in {"rust", "idle"}
    BY <1>2, WhatClearRustDoes DEF Own
  <2> QED
    BY <2>2, <2>3 DEF Own, D!Fresh
<1>3. CASE ClearDir(t)
  <2>1. phase'[t] = "clear rust" /\ DOMAIN dir' = {}
    BY <1>3, NothingListed DEF ClearDir, Goto, IInv, Typed
  <2> QED
    BY <2>1 DEF Own
<1>4. CASE \/ PipeFile(t) \/ Written(t) \/ PutFile(t) \/ Open(t)
           \/ \E k \in Keys : RefreshCall(t, k)
  <2>1. phase'[t] \in {"write", "clear dir"}
    BY <1>4 DEF PipeFile, Written, PutFile, Open, RefreshCall, Goto, IInv, Typed
  <2> QED
    BY <2>1 DEF Own
<1>5. ASSUME phase'[t] \in Past => phase[t] \in Past, UNCHANGED mine,
             phase'[t] = "store" => got'[t] \in Nat /\ got'[t] >= mine[t],
             phase'[t] = "clear rust" => phase[t] = "clear rust" /\ UNCHANGED dir
      PROVE  Own'
  <2>1. CASE phase'[t] \in Past
    <3>1. D!Fresh(mine[t]) /\ \A k \in DOMAIN dir : dir[k].version >= mine[t]
      BY <1>5, <2>1 DEF Own
    <3>2. D!Fresh(mine[t])'
      BY <1>1, <1>5, <3>1, RustSteps DEF D!Fresh
    <3>3. ASSUME NEW k \in DOMAIN dir'
          PROVE  dir'[k].version >= mine[t]
      <4>1. ASSUME StoreListing(t)
            PROVE  got[t] >= mine[t]
        BY <4>1 DEF StoreListing, Goto, Own
      <4> QED
        BY <3>1, <4>1, WhereListingsComeFrom
    <3> QED
      BY <1>5, <2>1, <3>2, <3>3 DEF Own
  <2>2. CASE phase'[t] \notin Past
    BY <1>5, <2>2 DEF Own
  <2> QED
    BY <2>1, <2>2
<1>6. CASE RustHit(t) \/ RustLoaded(t)
  <2>1. PICK a \in D!Answered : a \in D!Answers /\ Answered(t, a)
    BY <1>6, WhatRustAnswers
  <2>2. phase[t] = "rust" /\ phase' = [phase EXCEPT ![t] = "store"]
        /\ got' = [got EXCEPT ![t] = a.version] /\ UNCHANGED mine
    BY <1>6, <2>1 DEF RustHit, RustLoaded, Answered, Goto
  <2>3. a.version \in Nat
    BY <2>1, Constants DEF D!Answers, D!Versions
  <2>4. a.version >= mine[t]
    BY <2>1, <2>2 DEF Own, D!Fresh
  <2> QED
    BY <1>5, <2>2, <2>3, <2>4 DEF IInv, Typed
<1>7. CASE RustFails(t) \/ StoreListing(t) \/ \E k \in Keys : UnlistedCall(t, k)
  <2>1. /\ phase[t] \in Past /\ phase'[t] \in {"idle", "rust"}
        /\ UNCHANGED mine
    BY <1>7 DEF RustFails, StoreListing, UnlistedCall, Goto, IInv, Typed
  <2> QED
    BY <1>5, <2>1
<1>8. CASE \/ RustMiss(t) \/ Close(t) \/ OtherConnection \/ Tick \/ UNCHANGED vars
           \/ \E k \in Keys : ListedCall(t, k)
  <2>1. /\ UNCHANGED <<phase, got, mine>>
        /\ phase[t] # "idle" => UNCHANGED dir
    BY <1>8 DEF RustMiss, Close, OtherConnection, Tick, ListedCall, vars, pyVars
  <2>2. phase[t] = "store" => got[t] \in Nat /\ got[t] >= mine[t]
    BY Constants DEF Own, IInv, Typed, D!Versions
  <2> QED
    BY <1>5, <2>1, <2>2
<1> QED
  BY <1>2, <1>3, <1>4, <1>6, <1>7, <1>8 DEF Next, Step

\* After pipe_file, put_file or a DDL method of the only client neither cache
\* holds an answer from before it (spec.py:59-64, 264-278): an invalidation
\* that no other thread overlaps leaves nothing behind.
THEOREM OneClientReadsItsWrites ==
    ASSUME NEW t \in Threads, Threads = {t}
    PROVE  Spec => []ReadsOwnWrites
<1>1. Init => Own
  <2> SUFFICES ASSUME Init
               PROVE  Own
    OBVIOUS
  <2>1. DOMAIN dir = {} /\ mine = [u \in Threads |-> 0] /\ phase = [u \in Threads |-> "idle"]
    BY NothingListed DEF Init
  <2>2. D!IInv
    BY InitIInv DEF IInv
  <2>3. D!Fresh(0)
    BY <2>2, D!AnswerTypes, Constants DEF D!Fresh, D!Versions
  <2> QED
    BY <2>1, <2>3 DEF Own
<1>2. IInv /\ Own /\ [Next]_vars => Own'
  BY StepOwn
<1>3. IInv /\ Own => ReadsOwnWrites
  <2> SUFFICES ASSUME IInv, Own, NEW u \in Threads, phase[u] = "idle"
               PROVE  /\ \A k \in DOMAIN dir : dir[k].version >= mine[u]
                      /\ \A k \in DOMAIN entries : entries[k].value.version >= mine[u]
    BY DEF ReadsOwnWrites
  <2>1. \A k \in DOMAIN entries : entries[k].value \in D!Answered
    BY D!AnswerTypes, Constants DEF IInv
  <2> QED
    BY <2>1 DEF Own, D!Fresh
<1> QED
  BY <1>1, <1>2, <1>3, InitIInv, StepIInv, PTL DEF Spec

-----------------------------------------------------------------------------
(***************************************************************************)
(* Lifetimes.  With a ttl, an entry of the Rust cache was right when it    *)
(* was that much younger, what a thread has loaded is right now, as no     *)
(* time passes within a call, and a listing was right one ttl before it    *)
(* was stored.                                                             *)
(***************************************************************************)
Since(v, time) == v = version \/ (replacedAt[v] \in Nat /\ replacedAt[v] >= time)

LookingUp == \A t \in Threads : pc[t] \in D!Lookup => phase[t] = "rust"

Lifetimes ==
    /\ options.ttl \in Nat \cup {None}
    /\ LookingUp
    /\ options.ttl # None =>
         /\ \A k \in DOMAIN entries :
               entries[k].age < options.ttl =>
                   Since(entries[k].value.version, clock - entries[k].age)
         /\ \A t \in Threads : D!Storing(t) => Since(loaded[t].version, clock)
         /\ \A t \in Threads : phase[t] = "store" => Since(got[t], clock - options.ttl)
         /\ \A k \in DOMAIN dir :
               Since(dir[k].version, clock - dir[k].age - options.ttl)

\* What was right at a time was right since any earlier one, after a step too.
LEMMA SinceKept ==
    ASSUME IInv, [Next]_vars, NEW v \in D!Versions, NEW x \in Int, NEW y \in Int,
           y <= x, x <= clock, Since(v, x)
    PROVE  v = version' \/ (replacedAt'[v] \in Nat /\ replacedAt'[v] >= y)
<1>1. clock \in Nat /\ replacedAt \in [D!Versions -> 0 .. MaxTime \cup {None}]
  BY MaxTimeAssumption DEF IInv, Clocked
<1>2. CASE Tick
  <2>1. UNCHANGED <<version, replacedAt>>
    BY <1>2, SameActions DEF Tick, D!Tick
  <2> QED
    BY <2>1 DEF Since
<1>3. CASE Timeless
  BY <1>1, <1>3 DEF Timeless, NoteChange, Since
<1> QED
  BY <1>2, <1>3, WhenTimePasses

\* A thread inside a lookup of Rust is inside ls or info.
LEMMA StepLookingUp ==
    ASSUME IInv, LookingUp, [Next]_vars
    PROVE  LookingUp'
<1>1. ASSUME UNCHANGED <<pc, phase>>
      PROVE  LookingUp'
  BY <1>1 DEF LookingUp
<1>2. ASSUME NEW t \in Threads, NEW p, NEW q,
             phase' = [phase EXCEPT ![t] = p], pc' = pc \/ pc' = [pc EXCEPT ![t] = q],
             pc'[t] \notin D!Lookup
      PROVE  LookingUp'
  BY <1>2 DEF LookingUp, IInv, Typed, D!IInv, D!Typed
<1>3. ASSUME NEW t \in Threads, RustMiss(t)
      PROVE  LookingUp'
  <2>1. phase[t] = "rust" /\ UNCHANGED phase
    BY <1>3 DEF RustMiss, pyVars
  <2>2. UNCHANGED pc \/ \E q : pc' = [pc EXCEPT ![t] = q]
    BY <1>3, SameActions
       DEF RustMiss, D!LookupMiss, D!Load, D!Store, D!Evict, D!Goto
  <2> QED
    BY <2>1, <2>2 DEF LookingUp, IInv, D!IInv, D!Typed
<1>4. ASSUME NEW t \in Threads, RustHit(t) \/ RustLoaded(t) \/ RustFails(t)
      PROVE  LookingUp'
  <2>1. \E p : phase' = [phase EXCEPT ![t] = p]
    BY <1>4 DEF RustHit, RustLoaded, RustFails, Answered, Goto
  <2>2. (pc' = pc /\ pc[t] = "idle") \/ pc' = [pc EXCEPT ![t] = "idle"]
    BY <1>4, SameActions
       DEF RustHit, RustLoaded, RustFails, D!LookupHit, D!Stored, D!StoreDisabled,
           D!LoadFails, D!Goto
  <2>3. pc'[t] \notin D!Lookup
    BY <2>2 DEF D!Lookup, IInv, D!IInv, D!Typed
  <2> QED
    BY <1>2, <2>1, <2>2, <2>3
<1>5. ASSUME NEW t \in Threads,
             \/ StoreListing(t) \/ ClearDir(t) \/ ClearRust(t) \/ Open(t)
             \/ \E k \in Keys : UnlistedCall(t, k) \/ RefreshCall(t, k)
      PROVE  LookingUp'
  <2>1. phase[t] # "rust" /\ \E p : phase' = [phase EXCEPT ![t] = p]
    BY <1>5 DEF StoreListing, ClearDir, ClearRust, Open, UnlistedCall, RefreshCall, Goto
  <2>2. pc' = pc
    BY <1>5, SameActions DEF StoreListing, ClearDir, ClearRust, Open, UnlistedCall,
       RefreshCall, D!InvalidateCache, fsVars
  <2>3. pc'[t] \notin D!Lookup
    BY <2>1, <2>2 DEF LookingUp
  <2> QED
    BY <1>2, <2>1, <2>2, <2>3
<1>6. ASSUME NEW t \in Threads, PipeFile(t) \/ Written(t) \/ PutFile(t)
      PROVE  LookingUp'
  <2>1. \E p : phase' = [phase EXCEPT ![t] = p]
    BY <1>6 DEF PipeFile, Written, PutFile, Goto
  <2>2. \/ pc' = pc /\ pc[t] = "idle"
        \/ \E q \in {"idle", "invalidate"} : pc' = [pc EXCEPT ![t] = q]
    BY <1>6, SameActions DEF PipeFile, Written, PutFile, D!WriteBytes, D!Invalidate,
       D!CloseHandle, D!Goto
  <2>3. pc'[t] \notin D!Lookup
    BY <2>2 DEF D!Lookup, IInv, D!IInv, D!Typed
  <2> QED
    BY <1>2, <2>1, <2>2, <2>3
<1>7. ASSUME \/ OtherConnection \/ Tick \/ UNCHANGED vars
             \/ \E t \in Threads : Close(t) \/ \E k \in Keys : ListedCall(t, k)
      PROVE  LookingUp'
  <2>1. UNCHANGED <<pc, phase>>
    BY <1>7, SameActions DEF OtherConnection, Tick, vars, Close, ListedCall, pyVars, fsVars,
       D!OtherConnection, D!Tick, D!CloseHandle
  <2> QED
    BY <1>1, <2>1
<1> QED
  BY <1>3, <1>4, <1>5, <1>6, <1>7 DEF Next, Step

\* No step makes an answer older than its lifetimes allow.
LEMMA StepLifetimes ==
    ASSUME IInv, Lifetimes, [Next]_vars
    PROVE  Lifetimes'
<1>1. options' = options /\ LookingUp'
  BY Inside, D!OptionsKept, Constants, StepLookingUp DEF IInv, Lifetimes
<1> DEFINE ttl == options.ttl
<1> SUFFICES ASSUME ttl # None
    PROVE  /\ \A k \in DOMAIN entries' :
                 entries'[k].age < ttl =>
                     Since(entries[k].value.version, clock - entries[k].age)'
           /\ \A t \in Threads : D!Storing(t)' => Since(loaded[t].version, clock)'
           /\ \A t \in Threads : phase'[t] = "store" => Since(got[t], clock - ttl)'
           /\ \A k \in DOMAIN dir' : Since(dir[k].version, clock - dir[k].age - ttl)'
  BY <1>1 DEF Lifetimes
<1>2. /\ ttl \in Nat /\ clock \in Nat
      /\ Tick => clock' = clock + 1 /\ UNCHANGED version
      /\ Timeless => clock' = clock
      /\ D!IInv /\ [D!Next]_D!vars
  BY Inside, MaxTimeAssumption, SameActions
     DEF Lifetimes, Timeless, Tick, D!Tick, IInv, Clocked
<1>3. /\ \A k \in DOMAIN entries :
            entries[k].age \in Nat /\ entries[k].value.version \in D!Versions
      /\ \A t \in Threads : D!Storing(t) => loaded[t].version \in D!Versions
      /\ \A k \in DOMAIN dir : dir[k].age \in Nat /\ dir[k].version \in D!Versions
  BY <1>2 DEF D!IInv, D!Typed, D!Cache!Entry, D!Answers, IInv, Typed, Listings
<1>4. ASSUME NEW t \in Threads, Tick
      PROVE  phase[t] = "idle" /\ phase'[t] = "idle" /\ ~D!Storing(t)
  BY <1>4 DEF Tick, Lifetimes, LookingUp, D!Storing, D!Lookup
<1>5. ASSUME NEW k \in DOMAIN entries', entries'[k].age < ttl
      PROVE  Since(entries[k].value.version, clock - entries[k].age)'
  <2>1. CASE D!Tick
    <3>1. /\ k \in DOMAIN entries /\ entries[k].age < ttl
          /\ entries'[k] = [entries[k] EXCEPT !.age = @ + 1]
      BY <1>5, <2>1 DEF D!Tick, D!Cache!Tick
    <3>2. entries[k] \in D!Cache!Entry
      BY <1>2, <3>1 DEF D!IInv, D!Typed
    <3>3. entries'[k].value = entries[k].value /\ entries'[k].age = entries[k].age + 1
      BY <3>1, <3>2 DEF D!Cache!Entry
    <3> DEFINE x == clock - entries[k].age
    <3>4. Since(entries[k].value.version, x)
      BY <3>1 DEF Lifetimes
    <3>5. x \in Int /\ x <= clock /\ clock' - entries'[k].age \in Int
          /\ clock' - entries'[k].age <= x
      BY <1>2, <1>3, <3>1, <3>3, WhenTimePasses
    <3> QED
      BY <1>3, <3>1, <3>3, <3>4, <3>5, SinceKept DEF Since
  <2>2. CASE Tick
    BY <2>1, <2>2, SameActions DEF Tick
  <2>3. CASE Timeless /\ k \in DOMAIN entries /\ entries'[k] = entries[k]
    <3> DEFINE x == clock - entries[k].age
    <3>1. Since(entries[k].value.version, x)
      BY <1>5, <2>3 DEF Lifetimes
    <3>2. x \in Int /\ x <= clock /\ clock' - entries'[k].age = x
      BY <1>2, <1>3, <2>3
    <3> QED
      BY <1>3, <2>3, <3>1, <3>2, SinceKept DEF Since
  <2>4. ASSUME Timeless, NEW t \in Threads, D!Storing(t), entries'[k].value = loaded[t],
               entries'[k].age = 0
        PROVE  Since(entries[k].value.version, clock - entries[k].age)'
    <3>1. Since(loaded[t].version, clock)
      BY <2>4 DEF Lifetimes
    <3>2. clock' - entries'[k].age = clock
      BY <1>2, <2>4
    <3> QED
      BY <1>2, <1>3, <2>4, <3>1, <3>2, SinceKept DEF Since
  <2> QED
    BY <1>2, <2>1, <2>2, <2>3, <2>4, WhenTimePasses, D!WhereEntriesComeFrom, Constants
<1>6. ASSUME NEW t \in Threads, D!Storing(t)'
      PROVE  Since(loaded[t].version, clock)'
  <2>1. CASE D!Storing(t) /\ loaded'[t].version = loaded[t].version
    <3>1. Since(loaded[t].version, clock) /\ clock' = clock
      BY <1>2, <1>4, <2>1, WhenTimePasses DEF Lifetimes
    <3> QED
      BY <1>2, <1>3, <2>1, <3>1, SinceKept DEF Since
  <2>2. CASE loaded'[t].version = version /\ UNCHANGED version
    BY <2>2 DEF Since
  <2> QED
    BY <1>2, <1>6, <2>1, <2>2, D!WhereLoadsComeFrom, Constants
<1>7. ASSUME NEW t \in Threads, phase'[t] = "store"
      PROVE  Since(got[t], clock - ttl)'
  <2> DEFINE y == clock - ttl
  <2>1. Timeless /\ clock' = clock /\ y \in Int /\ y <= clock
    BY <1>2, <1>4, <1>7, WhenTimePasses
  <2>2. ASSUME NEW v \in D!Versions, NEW x \in Int, y <= x, x <= clock, Since(v, x),
               got'[t] = v
        PROVE  Since(got[t], clock - ttl)'
    <3>1. v = version' \/ (replacedAt'[v] \in Nat /\ replacedAt'[v] >= y)
      BY <2>1, <2>2, SinceKept
    <3> QED
      BY <1>1, <2>1, <2>2, <3>1 DEF Since
  <2>3. CASE phase[t] = "store" /\ got'[t] = got[t]
    <3>1. Since(got[t], y) /\ got[t] \in D!Versions
      BY <2>3 DEF Lifetimes, IInv, Typed
    <3> QED
      BY <2>1, <2>2, <2>3, <3>1
  <2>4. CASE RustHit(t)
    <3> DEFINE k == call[t].key
    <3>1. D!Cache!GetHit(k) /\ got' = [got EXCEPT ![t] = entries[k].value.version]
      BY <2>4, SameActions DEF RustHit, D!LookupHit, Answered
    <3>2. k \in DOMAIN entries /\ entries[k].age < ttl
      BY <1>2, <1>3, <3>1 DEF D!Cache!GetHit, D!Cache!Expired
    <3>3. got'[t] = entries[k].value.version
      BY <3>1 DEF IInv, Typed
    <3> HIDE DEF k
    <3>4. Since(entries[k].value.version, clock - entries[k].age)
      BY <3>2 DEF Lifetimes
    <3> QED
      BY <1>2, <1>3, <2>2, <3>2, <3>3, <3>4
  <2>5. CASE RustLoaded(t)
    <3>1. D!Storing(t) /\ got' = [got EXCEPT ![t] = loaded[t].version]
      BY <2>5, SameActions
         DEF RustLoaded, Answered, D!Stored, D!StoreDisabled, D!Goto, D!Storing
    <3>2. got'[t] = loaded[t].version
      BY <3>1 DEF IInv, Typed
    <3>3. Since(loaded[t].version, clock)
      BY <3>1 DEF Lifetimes
    <3> QED
      BY <1>2, <1>3, <2>1, <2>2, <3>1, <3>2, <3>3
  <2> QED
    BY <1>7, <2>3, <2>4, <2>5, WherePhasesComeFrom
<1>8. ASSUME NEW k \in DOMAIN dir'
      PROVE  Since(dir[k].version, clock - dir[k].age - ttl)'
  <2>1. ASSUME NEW v \in D!Versions, NEW x \in Int, x <= clock, Since(v, x),
               dir'[k].version = v, clock' - dir'[k].age - ttl = x
        PROVE  Since(dir[k].version, clock - dir[k].age - ttl)'
    <3>1. v = version' \/ (replacedAt'[v] \in Nat /\ replacedAt'[v] >= x)
      BY <2>1, SinceKept
    <3> QED
      BY <1>1, <2>1, <3>1 DEF Since
  <2>2. ASSUME k \in DOMAIN dir, dir'[k].version = dir[k].version,
               dir'[k].age = dir[k].age \/ (Tick /\ dir'[k].age = dir[k].age + 1),
               Tick => dir'[k].age = dir[k].age + 1
        PROVE  Since(dir[k].version, clock - dir[k].age - ttl)'
    <3> DEFINE x == clock - dir[k].age - ttl
    <3>1. Since(dir[k].version, x)
      BY <2>2 DEF Lifetimes
    <3>2. x \in Int /\ x <= clock /\ clock' - dir'[k].age - ttl = x
      BY <1>2, <1>3, <2>2, WhenTimePasses
    <3> QED
      BY <1>3, <2>1, <2>2, <3>1, <3>2
  <2>3. ASSUME NEW t \in Threads, StoreListing(t), dir'[k].version = got[t], dir'[k].age = 0
        PROVE  Since(dir[k].version, clock - dir[k].age - ttl)'
    <3>1. phase[t] = "store" /\ ~Tick
      BY <1>4, <2>3 DEF StoreListing, Goto
    <3>2. Since(got[t], clock - ttl) /\ got[t] \in D!Versions
      BY <3>1 DEF Lifetimes, IInv, Typed
    <3> QED
      BY <1>2, <2>1, <2>3, <3>1, <3>2, WhenTimePasses
  <2>4. Tick /\ k \in DOMAIN dir => dir'[k].age = dir[k].age + 1
    <3>1. k \in DOMAIN dir => dir[k] \in Listings
      BY DEF IInv, Typed
    <3> QED
      BY <3>1 DEF Tick, Listings
  <2> QED
    BY <2>2, <2>3, <2>4, WhereListingsComeFrom
<1> QED
  BY <1>5, <1>6, <1>7, <1>8

\* An answer DirCache serves was right less than listings_expiry_time and the
\* ttl of the Rust cache ago, whatever the threads do (spec.py:238,
\* fs.rs:76-88): the two lifetimes add up and nothing adds to them.
THEOREM AnswersLiveTwoLifetimes == Spec => []LifetimesAddUp
<1>1. Init => Lifetimes
  <2> SUFFICES ASSUME Init
               PROVE  Lifetimes
    OBVIOUS
  <2>1. /\ options \in [ttl : Ttls, max_entries : Limits]
        /\ DOMAIN entries = {} /\ pc = [t \in Threads |-> "idle"]
    BY SameActions, NothingListed DEF Init, D!Init, D!Cache!Init
  <2>2. DOMAIN dir = {} /\ phase = [t \in Threads |-> "idle"]
    BY NothingListed DEF Init
  <2> QED
    BY <2>1, <2>2, Constants DEF Lifetimes, LookingUp, D!Storing, D!Lookup
<1>2. IInv /\ Lifetimes /\ [Next]_vars => Lifetimes'
  BY StepLifetimes
<1>3. IInv /\ Lifetimes => LifetimesAddUp
  <2> SUFFICES ASSUME IInv, Lifetimes, Expiry # None, options.ttl # None,
                      NEW k \in Keys, Listed(k)
               PROVE  CurrentSince(dir[k].version, Back(clock, Expiry + options.ttl))
    BY DEF LifetimesAddUp
  <2>1. /\ k \in DOMAIN dir /\ dir[k].age \in Nat /\ dir[k].age <= Expiry
        /\ Expiry \in Nat /\ options.ttl \in Nat /\ clock \in Nat
    BY ExpiryAssumption, MaxTimeAssumption
       DEF Listed, Lifetimes, IInv, Typed, Clocked, Listings
  <2>2. Since(dir[k].version, clock - dir[k].age - options.ttl)
    BY <2>1 DEF Lifetimes
  <2> QED
    BY <2>1, <2>2 DEF Since, CurrentSince, Back
<1> QED
  BY <1>1, <1>2, <1>3, InitIInv, StepIInv, PTL DEF Spec

===============================================================================
