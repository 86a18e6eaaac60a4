----------------------- MODULE DatabaseFsCache_proofs -----------------------
(***************************************************************************)
(* For any threads, keys, lifetimes and limits: threads keep to the cache's *)
(* own specification, and an answer older than the last invalidating write *)
(* is in the cache only if the invalidation overtook its load.             *)
(***************************************************************************)
EXTENDS DatabaseFsCache, TLAPS

-----------------------------------------------------------------------------
(***************************************************************************)
(* The inductive invariant.  What a thread is about to store is an answer, *)
(* for a key; no write that invalidated or will is newer than the          *)
(* database; and the answers of before the last invalidating write,        *)
(* loaded or cached, are overtaken ones.                                   *)
(***************************************************************************)
Places == {"idle", "load", "insert", "evict", "invalidate", "invalidate, invalidate"}

Storing(t) == pc[t] \in {"insert", "evict"}
Lookup == {"load", "insert", "evict"}

Typed ==
    /\ version \in Versions
    /\ floor \in Nat
    /\ pc \in [Threads -> Places]
    /\ key \in [Threads -> Keys \cup {None}]
    /\ loaded \in [Threads -> Answers \cup {None}]
    /\ written \in [Threads -> Nat]
    /\ entries \in [DOMAIN entries -> Cache!Entry]
    /\ \A t \in Threads : pc[t] = "load" \/ Storing(t) => key[t] \in Keys
    /\ \A t \in Threads : Storing(t) <=> loaded[t] # None

NothingFromTheFuture ==
    /\ floor <= version
    /\ \A t \in Threads : written[t] <= version

StaleLoads ==
    \A t \in Threads :
        loaded[t] # None /\ loaded[t].version < floor => loaded[t].overtaken

IInv == Typed /\ NothingFromTheFuture /\ StaleLoads /\ StaleOnlyIfOvertaken

\* The cache holds no answer it did not hold before.
NothingStored ==
    /\ entries' \in [DOMAIN entries' -> Cache!Entry]
    /\ \A k \in DOMAIN entries' :
          k \in DOMAIN entries /\ entries'[k].value = entries[k].value

-----------------------------------------------------------------------------
(***************************************************************************)
(* Lemmas.                                                                 *)
(***************************************************************************)

\* The entries of a get, of an eviction, of a tick and of a clear are entries
\* that were there.
LEMMA CacheKeepsValues ==
    ASSUME Typed,
           \/ \E k \in Keys : Cache!GetHit(k) \/ Cache!GetMiss(k)
           \/ Cache!EvictOldest
           \/ Cache!EvictDone
           \/ Cache!Clear
           \/ Cache!Tick
           \/ UNCHANGED cacheVars
    PROVE  NothingStored
<1>1. CASE Cache!Tick
  <2> DEFINE aged(k) == [entries[k] EXCEPT !.age = @ + 1]
  <2>1. \A k \in DOMAIN entries : entries[k] \in Cache!Entry
    BY DEF Typed
  <2>2. \A k \in DOMAIN entries :
           aged(k) \in Cache!Entry /\ aged(k).value = entries[k].value
    BY <2>1 DEF Cache!Entry
  <2> QED
    BY <1>1, <2>1, <2>2 DEF Cache!Tick, NothingStored
<1>2. CASE Cache!Clear
  BY <1>2 DEF Cache!Clear, NothingStored
<1>3. CASE Cache!EvictOldest
  BY <1>3 DEF Cache!EvictOldest, Cache!Restrict, NothingStored, Typed
<1>4. ASSUME NEW k \in Keys, Cache!GetMiss(k)
      PROVE  NothingStored
  BY <1>4 DEF Cache!GetMiss, Cache!GetExpired, Cache!GetAbsent, Cache!Restrict,
              NothingStored, Typed
<1>5. ASSUME NEW k \in Keys, Cache!GetHit(k)
      PROVE  NothingStored
  BY <1>5 DEF Cache!GetHit, NothingStored, Typed
<1>6. CASE Cache!EvictDone \/ UNCHANGED cacheVars
  BY <1>6 DEF Cache!EvictDone, cacheVars, NothingStored, Typed
<1> QED
  BY <1>1, <1>2, <1>3, <1>4, <1>5, <1>6

\* What is loaded when the cache is cleared becomes overtaken, and that only.
LEMMA ClearOvertakes ==
    ASSUME Typed, ClearCache
    PROVE  /\ loaded' \in [Threads -> Answers \cup {None}]
           /\ \A t \in Threads : loaded'[t] = None <=> loaded[t] = None
           /\ \A t \in Threads : loaded'[t] # None => loaded'[t].overtaken
<1> DEFINE late(t) == [loaded[t] EXCEPT !.overtaken = TRUE]
<1>1. loaded' = [t \in Threads |-> IF loaded[t] # None THEN late(t) ELSE None]
  BY DEF ClearCache
<1>2. ASSUME NEW t \in Threads, loaded[t] # None
      PROVE  late(t) \in Answers /\ late(t).overtaken
  <2>1. loaded[t] \in Answers
    BY <1>2 DEF Typed
  <2> QED
    BY <2>1 DEF Answers
<1>3. None \notin Answers
  BY AnswersAssumption
<1> HIDE DEF late
<1> QED
  BY <1>1, <1>2, <1>3

\* The start: an empty cache, idle threads, nothing loaded.
LEMMA InitIInv == Init => IInv
<1> SUFFICES ASSUME Init
             PROVE  IInv
  OBVIOUS
<1>1. entries = << >> /\ DOMAIN entries = {}
  BY DEF Init, Cache!Init
<1>2. Typed
  <2>1. entries \in [DOMAIN entries -> Cache!Entry]
    BY <1>1
  <2>2. pc \in [Threads -> Places] /\ \A t \in Threads : pc[t] = "idle"
    BY DEF Init, Places
  <2>3. version \in Versions
    BY MaxVersionAssumption DEF Init, Versions
  <2> QED
    BY <2>1, <2>2, <2>3 DEF Init, Typed, Storing
<1>3. NothingFromTheFuture /\ StaleLoads /\ StaleOnlyIfOvertaken
  BY <1>1 DEF Init, NothingFromTheFuture, StaleLoads, StaleOnlyIfOvertaken
<1> QED
  BY <1>2, <1>3 DEF IInv

\* The steps that store nothing, load nothing and change no version: what a
\* thread goes on to do may change, and what it has loaded be forgotten.
LEMMA QuietIInv ==
    ASSUME IInv, NothingStored,
           UNCHANGED <<version, floor, written>>,
           pc' \in [Threads -> Places],
           key' \in [Threads -> Keys \cup {None}],
           loaded' \in [Threads -> Answers \cup {None}],
           \A t \in Threads : loaded'[t] # None => loaded'[t] = loaded[t],
           \A t \in Threads : pc'[t] = "load" \/ Storing(t)' => key'[t] \in Keys,
           \A t \in Threads : Storing(t)' <=> loaded'[t] # None
    PROVE  IInv'
<1>1. Typed'
  BY DEF IInv, Typed, NothingStored
<1>2. NothingFromTheFuture'
  BY DEF IInv, NothingFromTheFuture
<1>3. StaleLoads'
  BY DEF IInv, StaleLoads
<1>4. StaleOnlyIfOvertaken'
  BY DEF IInv, StaleOnlyIfOvertaken, NothingStored
<1> QED
  BY <1>1, <1>2, <1>3, <1>4 DEF IInv

\* A change of the database makes a version newer than all there are.
LEMMA ChangeIInv ==
    ASSUME IInv, Change, UNCHANGED <<cacheVars, key, loaded, floor>>,
           pc' \in [Threads -> Places],
           \A t \in Threads :
              pc'[t] = pc[t] \/ (pc[t] \notin Lookup /\ pc'[t] \notin Lookup),
           written' \in [Threads -> Nat],
           \A t \in Threads : written'[t] = written[t] \/ written'[t] = version + 1
    PROVE  IInv'
<1>1. version \in Nat /\ version' = version + 1 /\ version' \in Versions
  BY MaxVersionAssumption DEF IInv, Typed, Change, Versions
<1>2. Typed'
  BY <1>1 DEF IInv, Typed, Storing, Lookup, cacheVars
<1>3. NothingFromTheFuture'
  BY <1>1 DEF IInv, Typed, NothingFromTheFuture
<1>4. StaleLoads' /\ StaleOnlyIfOvertaken'
  BY DEF IInv, StaleLoads, StaleOnlyIfOvertaken, cacheVars
<1> QED
  BY <1>2, <1>3, <1>4 DEF IInv

\* A load reads the present content, older than no write.
LEMMA LoadIInv ==
    ASSUME IInv, NEW t \in Threads, Load(t)
    PROVE  IInv'
<1> DEFINE now == [version |-> version, overtaken |-> FALSE]
<1>1. now \in Answers /\ now # None /\ now.version = version
  <2>1. now \in Answers /\ now.version = version
    BY DEF IInv, Typed, Answers
  <2> QED
    BY <2>1, AnswersAssumption
<1>2. loaded' = [loaded EXCEPT ![t] = now] /\ key[t] \in Keys
  BY DEF Load, Goto, IInv, Typed
<1>3. version \in Nat /\ floor \in Nat
  BY DEF IInv, Typed, Versions
<1> HIDE DEF now
<1>4. Typed'
  <2>1. pc' = [pc EXCEPT ![t] = "insert"] /\ pc' \in [Threads -> Places]
    BY DEF IInv, Typed, Load, Goto, Places
  <2>2. UNCHANGED <<entries, version, key, floor, written>>
    BY DEF Load, cacheVars
  <2>3. loaded' \in [Threads -> Answers \cup {None}]
    BY <1>1, <1>2 DEF IInv, Typed
  <2>4. ASSUME NEW u \in Threads
        PROVE  /\ pc'[u] = "load" \/ Storing(u)' => key'[u] \in Keys
               /\ Storing(u)' <=> loaded'[u] # None
    <3>1. CASE u = t
      BY <1>1, <1>2, <2>1, <2>2, <3>1 DEF IInv, Typed, Storing
    <3>2. CASE u # t
      <4>1. pc'[u] = pc[u] /\ loaded'[u] = loaded[u]
        BY <1>2, <2>1, <3>2 DEF IInv, Typed
      <4> QED
        BY <2>2, <4>1 DEF IInv, Typed, Storing
    <3> QED
      BY <3>1, <3>2
  <2> QED
    BY <2>1, <2>2, <2>3, <2>4 DEF IInv, Typed
<1>5. NothingFromTheFuture'
  BY DEF IInv, NothingFromTheFuture, Load
<1>6. StaleLoads'
  BY <1>1, <1>2, <1>3 DEF IInv, Typed, StaleLoads, NothingFromTheFuture, Load
<1>7. StaleOnlyIfOvertaken'
  BY DEF IInv, StaleOnlyIfOvertaken, Load, cacheVars
<1> QED
  BY <1>4, <1>5, <1>6, <1>7 DEF IInv

\* The stored answer is one the thread loaded: if old, it was overtaken.
LEMMA StoreIInv ==
    ASSUME IInv, NEW t \in Threads, Store(t)
    PROVE  IInv'
<1> DEFINE line == [value |-> loaded[t], age |-> 0]
<1>1. key[t] \in Keys /\ loaded[t] \in Answers /\ loaded[t] # None
  BY DEF IInv, Typed, Storing, Store, Goto
<1>2. line \in Cache!Entry /\ line.value = loaded[t]
  BY <1>1 DEF Cache!Entry
<1>3. entries' = [k \in DOMAIN entries \cup {key[t]} |->
                    IF k = key[t] THEN line ELSE entries[k]]
  BY DEF Store, Cache!Insert
<1> HIDE DEF line
<1>4. entries' \in [DOMAIN entries' -> Cache!Entry]
  BY <1>2, <1>3 DEF IInv, Typed
<1>5. Typed'
  <2>1. pc' = [pc EXCEPT ![t] = "evict"] /\ pc' \in [Threads -> Places]
    BY DEF IInv, Typed, Store, Goto, Places
  <2>2. UNCHANGED <<version, key, loaded, floor, written>>
    BY DEF Store
  <2>3. ASSUME NEW u \in Threads
        PROVE  /\ pc'[u] = "load" \/ Storing(u)' => key'[u] \in Keys
               /\ Storing(u)' <=> loaded'[u] # None
    <3>1. CASE u = t
      BY <1>1, <2>1, <2>2, <3>1 DEF IInv, Typed, Storing
    <3>2. CASE u # t
      <4>1. pc'[u] = pc[u]
        BY <2>1, <3>2 DEF IInv, Typed
      <4> QED
        BY <2>2, <4>1 DEF IInv, Typed, Storing
    <3> QED
      BY <3>1, <3>2
  <2> QED
    BY <1>4, <2>1, <2>2, <2>3 DEF IInv, Typed
<1>6. NothingFromTheFuture' /\ StaleLoads'
  BY DEF IInv, NothingFromTheFuture, StaleLoads, Store
<1>7. StaleOnlyIfOvertaken'
  BY <1>1, <1>2, <1>3 DEF IInv, StaleLoads, StaleOnlyIfOvertaken, Store
<1> QED
  BY <1>5, <1>6, <1>7 DEF IInv

\* The invalidation empties the cache and overtakes what is loaded: only then
\* may the newest invalidating write become newer.
LEMMA ClearIInv ==
    ASSUME IInv, ClearCache, UNCHANGED <<version, key, written>>,
           pc' \in [Threads -> Places],
           \A t \in Threads :
              pc'[t] = pc[t] \/ (pc[t] \notin Lookup /\ pc'[t] \notin Lookup),
           floor' \in Nat, floor' <= version
    PROVE  IInv'
<1>1. entries' = << >> /\ DOMAIN entries' = {}
  BY DEF ClearCache, Cache!Clear
<1>2. /\ loaded' \in [Threads -> Answers \cup {None}]
      /\ \A t \in Threads : loaded'[t] = None <=> loaded[t] = None
      /\ \A t \in Threads : loaded'[t] # None => loaded'[t].overtaken
  BY ClearOvertakes DEF IInv
<1>3. Typed'
  <2>1. entries' \in [DOMAIN entries' -> Cache!Entry]
    BY <1>1
  <2> QED
    BY <1>2, <2>1 DEF IInv, Typed, Storing, Lookup
<1>4. NothingFromTheFuture'
  BY DEF IInv, NothingFromTheFuture
<1>5. StaleLoads' /\ StaleOnlyIfOvertaken'
  BY <1>1, <1>2 DEF StaleLoads, StaleOnlyIfOvertaken
<1> QED
  BY <1>3, <1>4, <1>5 DEF IInv

\* The types of what the threads keep are among it.
LEMMA TypesOfIInv == IInv => TypeOK
<1> SUFFICES ASSUME IInv
             PROVE  TypeOK
  OBVIOUS
<1>1. version \in 0 .. MaxVersion /\ floor \in Nat /\ floor <= version
  BY DEF IInv, Typed, NothingFromTheFuture, Versions
<1>2. floor \in Versions
  BY <1>1, MaxVersionAssumption DEF Versions
<1>3. \A t \in Threads : written[t] \in Nat /\ written[t] <= version
  BY DEF IInv, Typed, NothingFromTheFuture
<1>4. \A t \in Threads : written[t] \in Versions
  <2>1. \A n \in Nat : n <= version => n \in 0 .. MaxVersion
    BY <1>1, MaxVersionAssumption
  <2> QED
    BY <1>3, <2>1 DEF Versions
<1>5. written \in [Threads -> Versions]
  BY <1>4 DEF IInv, Typed
<1> QED
  BY <1>2, <1>5 DEF IInv, Typed, TypeOK, Places

\* Every step keeps the invariant.
LEMMA StepIInv == IInv /\ [Next]_vars => IInv'
<1> SUFFICES ASSUME IInv, [Next]_vars
             PROVE  IInv'
  OBVIOUS
<1>1. ASSUME NEW t \in Threads, NEW k \in Keys, LookupHit(t, k) \/ LookupMiss(t, k)
      PROVE  IInv'
  <2>1. NothingStored
    BY <1>1, CacheKeepsValues DEF IInv, LookupHit, LookupMiss
  <2>2. CASE LookupHit(t, k)
    BY <2>1, <2>2, QuietIInv DEF IInv, Typed, Storing, LookupHit
  <2>3. CASE LookupMiss(t, k)
    <3>1. /\ pc[t] = "idle"
          /\ pc' = [pc EXCEPT ![t] = "load"]
          /\ pc' \in [Threads -> Places]
          /\ key' = [key EXCEPT ![t] = k]
          /\ UNCHANGED <<version, loaded, floor, written>>
      BY <2>3 DEF LookupMiss, Goto, IInv, Typed, Places
    <3>2. key' \in [Threads -> Keys \cup {None}]
      BY <3>1 DEF IInv, Typed
    <3>3. ASSUME NEW u \in Threads
          PROVE  /\ pc'[u] = "load" \/ Storing(u)' => key'[u] \in Keys
                 /\ Storing(u)' <=> loaded'[u] # None
      BY <3>1 DEF IInv, Typed, Storing
    <3> QED
      BY <2>1, <3>1, <3>2, <3>3, QuietIInv DEF IInv, Typed
  <2> QED
    BY <1>1, <2>2, <2>3
<1>2. ASSUME NEW t \in Threads, LoadFails(t)
      PROVE  IInv'
  <2>1. NothingStored
    BY <1>2, CacheKeepsValues DEF IInv, LoadFails
  <2>2. /\ pc[t] = "load"
        /\ pc' = [pc EXCEPT ![t] = "idle"]
        /\ pc' \in [Threads -> Places]
        /\ key' = [key EXCEPT ![t] = None]
        /\ UNCHANGED <<version, loaded, floor, written>>
    BY <1>2 DEF LoadFails, Goto, IInv, Typed, Places
  <2>3. key' \in [Threads -> Keys \cup {None}]
    BY <2>2 DEF IInv, Typed
  <2>4. ASSUME NEW u \in Threads
        PROVE  /\ pc'[u] = "load" \/ Storing(u)' => key'[u] \in Keys
               /\ Storing(u)' <=> loaded'[u] # None
    BY <2>2 DEF IInv, Typed, Storing
  <2> QED
    BY <2>1, <2>2, <2>3, <2>4, QuietIInv DEF IInv, Typed
<1>3. ASSUME NEW t \in Threads, StoreDisabled(t) \/ Stored(t)
      PROVE  IInv'
  <2>1. NothingStored
    <3>1. UNCHANGED cacheVars \/ Cache!EvictDone
      BY <1>3 DEF StoreDisabled, Stored, Cache!InsertDisabled, Cache!vars, cacheVars
    <3> QED
      BY <3>1, CacheKeepsValues DEF IInv
  <2>2. /\ pc' = [pc EXCEPT ![t] = "idle"]
        /\ pc' \in [Threads -> Places]
        /\ key' = [key EXCEPT ![t] = None]
        /\ loaded' = [loaded EXCEPT ![t] = None]
        /\ UNCHANGED <<version, floor, written>>
    BY <1>3 DEF StoreDisabled, Stored, Forget, Goto, IInv, Typed, Places
  <2>3. /\ key' \in [Threads -> Keys \cup {None}]
        /\ loaded' \in [Threads -> Answers \cup {None}]
        /\ \A u \in Threads : loaded'[u] # None => loaded'[u] = loaded[u]
    BY <2>2 DEF IInv, Typed
  <2>4. ASSUME NEW u \in Threads
        PROVE  /\ pc'[u] = "load" \/ Storing(u)' => key'[u] \in Keys
               /\ Storing(u)' <=> loaded'[u] # None
    BY <2>2 DEF IInv, Typed, Storing
  <2> QED
    BY <2>1, <2>2, <2>3, <2>4, QuietIInv
<1>4. ASSUME NEW t \in Threads, Evict(t)
      PROVE  IInv'
  <2>1. NothingStored
    BY <1>4, CacheKeepsValues DEF IInv, Evict
  <2> QED
    BY <1>4, <2>1, QuietIInv DEF IInv, Typed, Storing, Evict
<1>5. ASSUME Tick \/ UNCHANGED vars
      PROVE  IInv'
  <2>1. NothingStored
    BY <1>5, CacheKeepsValues DEF IInv, Tick, vars
  <2> QED
    BY <1>5, <2>1, QuietIInv DEF IInv, Typed, Storing, Tick, vars
<1>6. ASSUME NEW t \in Threads, WriteBytes(t) \/ PutFile(t)
      PROVE  IInv'
  <2>1. /\ pc[t] = "idle"
        /\ \/ pc' = [pc EXCEPT ![t] = "invalidate"]
           \/ pc' = [pc EXCEPT ![t] = "invalidate, invalidate"]
        /\ Change
        /\ written' = [written EXCEPT ![t] = version + 1]
        /\ UNCHANGED <<cacheVars, key, loaded, floor>>
    BY <1>6 DEF WriteBytes, PutFile, Goto
  <2>2. /\ pc' \in [Threads -> Places]
        /\ \A u \in Threads :
              pc'[u] = pc[u] \/ (pc[u] \notin Lookup /\ pc'[u] \notin Lookup)
    BY <2>1 DEF IInv, Typed, Places, Lookup
  <2>3. /\ written' \in [Threads -> Nat]
        /\ \A u \in Threads : written'[u] = written[u] \/ written'[u] = version + 1
    <3>1. version + 1 \in Nat
      BY MaxVersionAssumption DEF IInv, Typed, Versions
    <3> QED
      BY <2>1, <3>1 DEF IInv, Typed
  <2> QED
    BY <2>1, <2>2, <2>3, ChangeIInv
<1>7. ASSUME NEW t \in Threads, Invalidate(t)
      PROVE  IInv'
  <2>1. /\ pc[t] \in {"invalidate", "invalidate, invalidate"}
        /\ \/ pc' = [pc EXCEPT ![t] = "invalidate"]
           \/ pc' = [pc EXCEPT ![t] = "idle"]
        /\ ClearCache
        /\ UNCHANGED <<version, key, written>>
    BY <1>7 DEF Invalidate, Goto
  <2>2. /\ pc' \in [Threads -> Places]
        /\ \A u \in Threads :
              pc'[u] = pc[u] \/ (pc[u] \notin Lookup /\ pc'[u] \notin Lookup)
    BY <2>1 DEF IInv, Typed, Places, Lookup
  <2>3. floor' \in Nat /\ floor' <= version
    BY <1>7 DEF Invalidate, Larger, IInv, Typed, NothingFromTheFuture
  <2> QED
    BY <2>1, <2>2, <2>3, ClearIInv
<1>8. ASSUME NEW t \in Threads, InvalidateCache(t)
      PROVE  IInv'
  BY <1>8, ClearIInv DEF InvalidateCache, IInv, Typed, NothingFromTheFuture
<1>9. ASSUME OtherConnection \/ \E t \in Threads : CloseHandle(t)
      PROVE  IInv'
  BY <1>9, ChangeIInv DEF OtherConnection, CloseHandle, IInv, Typed
<1> QED
  BY <1>1, <1>2, <1>3, <1>4, <1>5, <1>6, <1>7, <1>8, <1>9, LoadIInv, StoreIInv
     DEF Next, Step

-----------------------------------------------------------------------------
(***************************************************************************)
(* What the threads do to the answers of before a version, whichever it is. *)
(***************************************************************************)

Answered == {entries[k].value : k \in DOMAIN entries} \cup ({loaded[t] : t \in Threads} \ {None})

\* All answers of before version n are overtaken ones.
Marked(n) == \A a \in Answered : a.version < n => a.overtaken

\* There are none.
Fresh(n) == \A a \in Answered : a.version >= n

\* The cache and the threads keep answers they have.
LEMMA AnswersKept ==
    ASSUME NothingStored, \A t \in Threads : loaded'[t] # None => loaded'[t] = loaded[t]
    PROVE  Answered' \subseteq Answered
BY DEF NothingStored, Answered

\* An answer there is after a step was there before, or is of the present
\* version, or was there and the step has overtaken it.
LEMMA WhereAnswersComeFrom ==
    ASSUME IInv, [Next]_vars, NEW a \in Answered'
    PROVE  \/ a \in Answered
           \/ a.version = version
           \/ a.overtaken /\ \E b \in Answered : a.version = b.version
<1>1. ASSUME NEW t \in Threads, NEW k \in Keys, LookupHit(t, k) \/ LookupMiss(t, k)
      PROVE  a \in Answered
  <2>1. NothingStored
    BY <1>1, CacheKeepsValues DEF IInv, LookupHit, LookupMiss
  <2> QED
    BY <1>1, <2>1, AnswersKept DEF LookupHit, LookupMiss
<1>2. ASSUME NEW t \in Threads, LoadFails(t) \/ Evict(t)
      PROVE  a \in Answered
  <2>1. NothingStored
    BY <1>2, CacheKeepsValues DEF IInv, LoadFails, Evict
  <2> QED
    BY <1>2, <2>1, AnswersKept DEF LoadFails, Evict
<1>3. ASSUME NEW t \in Threads, StoreDisabled(t) \/ Stored(t)
      PROVE  a \in Answered
  <2>1. UNCHANGED cacheVars \/ Cache!EvictDone
    BY <1>3 DEF StoreDisabled, Stored, Cache!InsertDisabled, Cache!vars, cacheVars
  <2>2. NothingStored
    BY <2>1, CacheKeepsValues DEF IInv
  <2>3. loaded' = [loaded EXCEPT ![t] = None] /\ loaded \in [Threads -> Answers \cup {None}]
    BY <1>3 DEF StoreDisabled, Stored, Forget, IInv, Typed
  <2> QED
    BY <2>2, <2>3, AnswersKept
<1>4. ASSUME NEW t \in Threads, Load(t)
      PROVE  a \in Answered \/ a.version = version
  <2>1. /\ loaded' = [loaded EXCEPT ![t] = [version |-> version, overtaken |-> FALSE]]
        /\ UNCHANGED entries
        /\ loaded \in [Threads -> Answers \cup {None}]
    BY <1>4 DEF Load, cacheVars, IInv, Typed
  <2>2. CASE \E u \in Threads : a = loaded'[u] /\ u # t /\ a # None
    BY <2>1, <2>2 DEF Answered
  <2>3. CASE a = loaded'[t]
    BY <2>1, <2>3
  <2>4. CASE \E k \in DOMAIN entries : a = entries[k].value
    BY <2>4 DEF Answered
  <2> QED
    BY <2>1, <2>2, <2>3, <2>4 DEF Answered
<1>5. ASSUME NEW t \in Threads, Store(t)
      PROVE  a \in Answered
  <2> DEFINE line == [value |-> loaded[t], age |-> 0]
  <2>1. /\ entries' = [k \in DOMAIN entries \cup {key[t]} |->
                         IF k = key[t] THEN line ELSE entries[k]]
        /\ UNCHANGED loaded
        /\ loaded[t] # None
    BY <1>5 DEF Store, Goto, Cache!Insert, IInv, Typed, Storing
  <2>2. line.value = loaded[t]
    OBVIOUS
  <2> HIDE DEF line
  <2>3. ASSUME NEW k \in DOMAIN entries', a = entries'[k].value
        PROVE  a \in Answered
    BY <2>1, <2>2, <2>3 DEF Answered
  <2> QED
    BY <2>1, <2>3 DEF Answered
<1>6. ASSUME NEW t \in Threads, Invalidate(t) \/ InvalidateCache(t)
      PROVE  a.overtaken /\ \E b \in Answered : a.version = b.version
  <2>1. ClearCache
    BY <1>6 DEF Invalidate, InvalidateCache
  <2>2. DOMAIN entries' = {}
    BY <2>1 DEF ClearCache, Cache!Clear
  <2>3. PICK u \in Threads : a = loaded'[u] /\ a # None
    BY <2>2 DEF Answered
  <2>4. /\ loaded[u] # None /\ loaded[u] \in Answers
        /\ a = [loaded[u] EXCEPT !.overtaken = TRUE]
    BY <2>1, <2>3 DEF ClearCache, IInv, Typed
  <2> QED
    BY <2>4 DEF Answers, Answered
<1>7. ASSUME \/ OtherConnection
             \/ \E t \in Threads : WriteBytes(t) \/ PutFile(t) \/ CloseHandle(t)
      PROVE  a \in Answered
  BY <1>7 DEF OtherConnection, WriteBytes, PutFile, CloseHandle, cacheVars, Answered
<1>8. ASSUME Tick \/ UNCHANGED vars
      PROVE  a \in Answered
  <2>1. NothingStored
    BY <1>8, CacheKeepsValues DEF IInv, Tick, vars
  <2> QED
    BY <1>8, <2>1, AnswersKept DEF Tick, vars
<1> QED
  BY <1>1, <1>2, <1>3, <1>4, <1>5, <1>6, <1>7, <1>8 DEF Next, Step

\* An entry there is after a step was there, but for its age if time passes,
\* or is what a thread stores.
LEMMA WhereEntriesComeFrom ==
    ASSUME IInv, [Next]_vars, NEW k \in DOMAIN entries'
    PROVE  \/ k \in DOMAIN entries /\ entries'[k] = entries[k]
           \/ /\ entries'[k].age = 0
              /\ \E t \in Threads : Storing(t) /\ entries'[k].value = loaded[t]
           \/ Tick
<1>1. ASSUME NEW t \in Threads, NEW j \in Keys, LookupHit(t, j) \/ LookupMiss(t, j)
      PROVE  k \in DOMAIN entries /\ entries'[k] = entries[k]
  BY <1>1 DEF LookupHit, LookupMiss, Cache!GetHit, Cache!GetMiss, Cache!GetExpired,
              Cache!GetAbsent, Cache!Restrict
<1>2. ASSUME NEW t \in Threads, Evict(t)
      PROVE  k \in DOMAIN entries /\ entries'[k] = entries[k]
  BY <1>2 DEF Evict, Cache!EvictOldest, Cache!Restrict
<1>3. ASSUME NEW t \in Threads, Store(t)
      PROVE  \/ k \in DOMAIN entries /\ entries'[k] = entries[k]
             \/ entries'[k].age = 0 /\ Storing(t) /\ entries'[k].value = loaded[t]
  <2> DEFINE line == [value |-> loaded[t], age |-> 0]
  <2>1. /\ entries' = [j \in DOMAIN entries \cup {key[t]} |->
                         IF j = key[t] THEN line ELSE entries[j]]
        /\ Storing(t)
    BY <1>3 DEF Store, Goto, Cache!Insert, Storing
  <2>2. line.value = loaded[t] /\ line.age = 0
    OBVIOUS
  <2> HIDE DEF line
  <2> QED
    BY <2>1, <2>2
<1>4. ASSUME NEW t \in Threads, Invalidate(t) \/ InvalidateCache(t)
      PROVE  FALSE
  <2>1. entries' = << >>
    BY <1>4 DEF Invalidate, InvalidateCache, ClearCache, Cache!Clear
  <2>2. DOMAIN entries' = {}
    BY <2>1
  <2> QED
    BY <2>2
<1>5. ASSUME NEW t \in Threads,
             \/ Load(t) \/ LoadFails(t) \/ StoreDisabled(t) \/ Stored(t)
             \/ WriteBytes(t) \/ PutFile(t) \/ CloseHandle(t)
      PROVE  UNCHANGED entries
  BY <1>5 DEF Load, LoadFails, StoreDisabled, Stored, Cache!InsertDisabled, Cache!vars,
              Cache!EvictDone, WriteBytes, PutFile, CloseHandle, cacheVars
<1>6. CASE OtherConnection \/ UNCHANGED vars
  BY <1>6 DEF OtherConnection, vars, cacheVars
<1> QED
  BY <1>1, <1>2, <1>3, <1>4, <1>5, <1>6 DEF Next, Step

\* What a thread is about to store it was about to store before, or it has
\* just loaded it.
LEMMA WhereLoadsComeFrom ==
    ASSUME IInv, [Next]_vars, NEW t \in Threads, Storing(t)'
    PROVE  \/ Storing(t) /\ loaded'[t].version = loaded[t].version
           \/ loaded'[t].version = version /\ UNCHANGED version
<1>1. loaded'[t] # None
  BY StepIInv DEF IInv, Typed
<1>2. ASSUME NEW s \in Threads, Load(s)
      PROVE  \/ Storing(t) /\ loaded'[t] = loaded[t]
             \/ loaded'[t].version = version /\ UNCHANGED version
  <2> DEFINE now == [version |-> version, overtaken |-> FALSE]
  <2>1. /\ loaded' = [loaded EXCEPT ![s] = now] /\ now.version = version
        /\ UNCHANGED version
    BY <1>2 DEF Load
  <2> HIDE DEF now
  <2> QED
    BY <1>1, <2>1 DEF IInv, Typed
<1>3. ASSUME NEW s \in Threads, StoreDisabled(s) \/ Stored(s)
      PROVE  Storing(t) /\ loaded'[t] = loaded[t]
  <2>1. loaded' = [loaded EXCEPT ![s] = None]
    BY <1>3 DEF StoreDisabled, Stored, Forget
  <2> QED
    BY <1>1, <2>1 DEF IInv, Typed
<1>4. ASSUME NEW s \in Threads, Invalidate(s) \/ InvalidateCache(s)
      PROVE  Storing(t) /\ loaded'[t].version = loaded[t].version
  <2>1. loaded[t] # None /\ loaded'[t] = [loaded[t] EXCEPT !.overtaken = TRUE]
    BY <1>1, <1>4 DEF Invalidate, InvalidateCache, ClearCache
  <2> QED
    BY <2>1 DEF IInv, Typed, Answers
<1>5. CASE UNCHANGED loaded
  BY <1>1, <1>5 DEF IInv, Typed
<1> QED
  BY <1>2, <1>3, <1>4, <1>5
     DEF Next, Step, LookupHit, LookupMiss, LoadFails, Store, Evict, WriteBytes, PutFile,
         CloseHandle, OtherConnection, Tick, vars

\* The lifetime and the limit of the cache are chosen once.
LEMMA OptionsKept ==
    ASSUME [Next]_vars
    PROVE  UNCHANGED options
<1>1. ASSUME NEW t \in Threads, Step(t)
      PROVE  UNCHANGED options
  BY <1>1 DEF Step, LookupHit, LookupMiss, Load, LoadFails, Store, StoreDisabled, Evict,
     Stored, WriteBytes, PutFile, Invalidate, InvalidateCache, CloseHandle, ClearCache,
     Cache!GetHit, Cache!GetMiss, Cache!GetExpired, Cache!GetAbsent, Cache!Insert,
     Cache!InsertDisabled, Cache!EvictOldest, Cache!EvictDone, Cache!Clear, Cache!vars,
     cacheVars
<1> QED
  BY <1>1 DEF Next, OtherConnection, Tick, Cache!Tick, vars, cacheVars

\* What is cached or about to be stored is among the answers there are.
LEMMA AnswerTypes ==
    ASSUME IInv
    PROVE  /\ \A a \in Answered : a \in Answers /\ a.version \in Versions
           /\ \A k \in DOMAIN entries : entries[k].value \in Answered
           /\ \A t \in Threads : Storing(t) => loaded[t] \in Answered
BY DEF IInv, Typed, Answered, Answers, Cache!Entry

\* A step brings back no answer of before a version there is.
LEMMA NothingComesBack ==
    ASSUME IInv, [Next]_vars, NEW n \in Nat, n <= version
    PROVE  /\ version' \in Nat /\ version <= version'
           /\ Marked(n) => Marked(n)'
           /\ Fresh(n) => Fresh(n)'
<1>1. version \in Nat
  BY DEF IInv, Typed, Versions
<1>2. version' \in Nat /\ version <= version'
  <2>1. version' = version \/ version' = version + 1
    BY DEF Next, Step, vars, Change, LookupHit, LookupMiss, Load, LoadFails, Store,
           StoreDisabled, Evict, Stored, WriteBytes, PutFile, Invalidate, InvalidateCache,
           CloseHandle, OtherConnection, Tick
  <2> QED
    BY <1>1, <2>1
<1>3. ASSUME Marked(n)
      PROVE  Marked(n)'
  <2> SUFFICES ASSUME NEW a \in Answered', a.version < n
               PROVE  a.overtaken
    BY DEF Marked
  <2> QED
    BY <1>1, <1>3, WhereAnswersComeFrom DEF Marked
<1>4. ASSUME Fresh(n)
      PROVE  Fresh(n)'
  <2> SUFFICES ASSUME NEW a \in Answered'
               PROVE  a.version >= n
    BY DEF Fresh
  <2> QED
    BY <1>1, <1>4, WhereAnswersComeFrom DEF Fresh
<1> QED
  BY <1>2, <1>3, <1>4

\* A clear marks all there are, and leaves none of a thread that loads nothing.
LEMMA ClearMarks ==
    ASSUME IInv, ClearCache
    PROVE  /\ \A a \in Answered' : a.overtaken
           /\ (\A t \in Threads : ~Storing(t)) => Answered' = {}
<1>1. DOMAIN entries' = {}
  BY DEF ClearCache, Cache!Clear
<1> QED
  BY <1>1, ClearOvertakes DEF IInv, Typed, Answered

-----------------------------------------------------------------------------
\* Whatever the threads do, an answer older than the last write_bytes that
\* invalidated the cache is in it only if that invalidation fell between the
\* load of the answer and its insertion (fs.rs:163-167, 207-211, 244-248).
THEOREM StaleAnswersAreOvertaken == Spec => []StaleOnlyIfOvertaken
<1>1. IInv => StaleOnlyIfOvertaken
  BY DEF IInv
<1> QED
  BY <1>1, InitIInv, StepIInv, PTL DEF Spec

\* Threads keep to the specification of the cache (fs.rs:57-115): with what is
\* proved of it, the map and the deque agree, the limit holds and the eviction
\* loop ends, with any number of threads.
THEOREM ThreadsKeepToTheCache == Spec => CacheSpec
<1>1. Init => Cache!Init
  BY DEF Init
<1>2. IInv /\ [Next]_vars => [Cache!Next]_Cache!vars
  <2> SUFFICES ASSUME IInv, [Next]_vars
               PROVE  Cache!Next \/ UNCHANGED cacheVars
    BY DEF cacheVars, Cache!vars
  <2>1. ASSUME NEW t \in Threads, NEW k \in Keys, LookupHit(t, k) \/ LookupMiss(t, k)
        PROVE  Cache!Next
    BY <2>1 DEF LookupHit, LookupMiss, Cache!Next
  <2>2. ASSUME NEW t \in Threads, Store(t) \/ StoreDisabled(t)
        PROVE  Cache!Next
    <3>1. key[t] \in Keys /\ loaded[t] \in Answers
      BY <2>2 DEF IInv, Typed, Storing, Store, StoreDisabled, Goto
    <3>2. \/ Cache!Insert(key[t], loaded[t])
          \/ Cache!InsertDisabled(key[t], loaded[t])
      BY <2>2 DEF Store, StoreDisabled
    <3> QED
      BY <3>1, <3>2 DEF Cache!Next
  <2>3. ASSUME NEW t \in Threads, Evict(t) \/ Stored(t)
        PROVE  Cache!Next \/ UNCHANGED cacheVars
    BY <2>3 DEF Evict, Stored, Cache!Next
  <2>4. ASSUME NEW t \in Threads, Invalidate(t) \/ InvalidateCache(t)
        PROVE  Cache!Next
    BY <2>4 DEF Invalidate, InvalidateCache, ClearCache, Cache!Next
  <2>5. CASE Tick
    BY <2>5 DEF Tick, Cache!Next
  <2>6. CASE OtherConnection \/ UNCHANGED vars
    BY <2>6 DEF OtherConnection, vars
  <2>7. ASSUME NEW t \in Threads,
               \/ Load(t)
               \/ LoadFails(t)
               \/ WriteBytes(t)
               \/ PutFile(t)
               \/ CloseHandle(t)
        PROVE  UNCHANGED cacheVars
    BY <2>7 DEF Load, LoadFails, WriteBytes, PutFile, CloseHandle
  <2> QED
    BY <2>1, <2>2, <2>3, <2>4, <2>5, <2>6, <2>7 DEF Next, Step
<1> QED
  BY <1>1, <1>2, InitIInv, StepIInv, PTL DEF Spec, CacheSpec, Cache!Spec

\* What the threads keep between two steps is what their calls may have: a
\* key and an answer while a lookup goes on, and versions the database has had.
THEOREM TypeCorrect == Spec => []TypeOK
BY TypesOfIInv, InitIInv, StepIInv, PTL DEF Spec

===============================================================================
