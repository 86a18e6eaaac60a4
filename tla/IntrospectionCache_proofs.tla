---------------------- MODULE IntrospectionCache_proofs ----------------------
(***************************************************************************)
(* For any keys, values, lifetimes and limits: the types of the cache, the *)
(* agreement of its map and its deque, its bound, that its eviction loop   *)
(* never spins, and that it is the cache of LruCache.                      *)
(***************************************************************************)
EXTENDS IntrospectionCache, FiniteSetTheorems, SequenceTheorems, TLAPS

-----------------------------------------------------------------------------
(***************************************************************************)
(* Lemmas about Nth and Without.                                           *)
(***************************************************************************)
Rank(I, i) == Cardinality({j \in I : j <= i})

\* The elements of a finite set of naturals have distinct ranks, from 1 to
\* the number of elements.
LEMMA RankBijection ==
    ASSUME NEW I \in SUBSET Nat, IsFiniteSet(I)
    PROVE  /\ Cardinality(I) \in Nat
           /\ \A i \in I : Rank(I, i) \in 1 .. Cardinality(I)
           /\ \A i, j \in I : Rank(I, i) = Rank(I, j) => i = j
           /\ \A n \in 1 .. Cardinality(I) : \E i \in I : Rank(I, i) = n
<1> DEFINE f == [i \in I |-> Rank(I, i)]
           T == 1 .. Cardinality(I)
<1>1. Cardinality(I) \in Nat
  BY FS_CardinalityType
<1>2. ASSUME NEW i \in I
      PROVE  /\ IsFiniteSet({j \in I : j <= i})
             /\ Rank(I, i) \in T
  <2> DEFINE below == {j \in I : j <= i}
  <2>1. below \in SUBSET I /\ i \in below
    OBVIOUS
  <2>2. IsFiniteSet(below) /\ Cardinality(below) <= Cardinality(I)
    BY <2>1, FS_Subset
  <2>3. Cardinality(below) \in Nat /\ Cardinality(below) # 0
    BY <2>1, <2>2, FS_CardinalityType, FS_EmptySet
  <2> QED
    BY <1>1, <2>2, <2>3 DEF Rank
<1>3. ASSUME NEW i \in I, NEW j \in I, i < j, Rank(I, i) = Rank(I, j)
      PROVE  FALSE
  <2> DEFINE low == {k \in I : k <= i}
             high == {k \in I : k <= j}
  <2>1. low \in SUBSET high /\ j \in high /\ j \notin low
    <3>1. i \in Nat /\ j \in Nat /\ I \subseteq Nat
      OBVIOUS
    <3>2. /\ \A k \in Nat : k <= i => k <= j
          /\ j <= j /\ ~(j <= i)
      BY <1>3, <3>1
    <3>3. low \subseteq high
      BY <3>1, <3>2
    <3> QED
      BY <3>2, <3>3
  <2>2. IsFiniteSet(high) /\ Cardinality(high) = Cardinality(low)
    BY <1>2, <1>3 DEF Rank
  <2>3. high = low
    <3> HIDE DEF low, high
    <3> QED BY <2>1, <2>2, FS_Subset
  <2> QED
    BY <2>1, <2>3
<1>4. \A i, j \in I : Rank(I, i) = Rank(I, j) => i = j
  BY <1>3
<1>5. f \in Injection(I, T)
  BY <1>2, <1>4 DEF Injection, IsInjective
<1>6. IsFiniteSet(T) /\ Cardinality(T) = Cardinality(I)
  BY <1>1, FS_Interval
<1>7. f \in Surjection(I, T)
  <2> HIDE DEF f, T
  <2> QED BY <1>5, <1>6, FS_Injection
<1> QED
  BY <1>1, <1>2, <1>4, <1>7 DEF Surjection

\* Nth enumerates a finite set of naturals.
LEMMA NthEnumerates ==
    ASSUME NEW I \in SUBSET Nat, IsFiniteSet(I)
    PROVE  /\ \A n \in 1 .. Cardinality(I) : Nth(I, n) \in I /\ Rank(I, Nth(I, n)) = n
           /\ \A i \in I : /\ Rank(I, i) \in 1 .. Cardinality(I)
                           /\ Nth(I, Rank(I, i)) = i
<1>1. ASSUME NEW n \in 1 .. Cardinality(I)
      PROVE  Nth(I, n) \in I /\ Rank(I, Nth(I, n)) = n
  <2>1. \E i \in I : Rank(I, i) = n
    BY RankBijection
  <2>2. Nth(I, n) = CHOOSE i \in I : Rank(I, i) = n
    BY DEF Nth, Rank
  <2> QED
    BY <2>1, <2>2
<1>2. ASSUME NEW i \in I
      PROVE  Rank(I, i) \in 1 .. Cardinality(I) /\ Nth(I, Rank(I, i)) = i
  <2>1. Rank(I, i) \in 1 .. Cardinality(I)
    BY RankBijection
  <2>2. Nth(I, Rank(I, i)) \in I /\ Rank(I, Nth(I, Rank(I, i))) = Rank(I, i)
    BY <1>1, <2>1
  <2>3. \A j, k \in I : Rank(I, j) = Rank(I, k) => j = k
    BY RankBijection
  <2> QED
    BY <2>1, <2>2, <2>3
<1> QED
  BY <1>1, <1>2

\* Without keeps a sequence of keys a sequence of keys, removes every
\* occurrence of the key and nothing else, and repeats no key anew.
LEMMA WithoutProperties ==
    ASSUME NEW S, NEW seq \in Seq(S), NEW key
    PROVE  /\ Without(seq, key) \in Seq(S)
           /\ Range(Without(seq, key)) = Range(seq) \ {key}
           /\ IsInjective(seq) => IsInjective(Without(seq, key))
<1> DEFINE kept == {i \in DOMAIN seq : seq[i] # key}
           count == Cardinality(kept)
           rest == [n \in 1 .. count |-> seq[Nth(kept, n)]]
<1>1. /\ Len(seq) \in Nat
      /\ DOMAIN seq = 1 .. Len(seq)
      /\ seq \in [1 .. Len(seq) -> S]
  BY LenProperties
<1>2. kept \in SUBSET Nat /\ IsFiniteSet(kept)
  <2>1. kept \in SUBSET (1 .. Len(seq)) /\ 1 .. Len(seq) \subseteq Nat
    BY <1>1
  <2>2. IsFiniteSet(1 .. Len(seq))
    BY <1>1, FS_Interval
  <2> HIDE DEF kept
  <2> QED
    BY <2>1, <2>2, FS_Subset
<1>3. count \in Nat
  BY <1>2, FS_CardinalityType
<1>4. /\ \A n \in 1 .. count : Nth(kept, n) \in kept /\ Rank(kept, Nth(kept, n)) = n
      /\ \A i \in kept : Rank(kept, i) \in 1 .. count /\ Nth(kept, Rank(kept, i)) = i
  <2> HIDE DEF kept
  <2> QED BY <1>2, NthEnumerates
<1>5. Without(seq, key) = rest
  BY DEF Without
<1>6. \A n \in 1 .. count : Nth(kept, n) \in DOMAIN seq /\ seq[Nth(kept, n)] # key
  BY <1>4
<1> HIDE DEF count
<1>7. rest \in Seq(S)
  <2>1. rest \in [1 .. count -> S]
    BY <1>1, <1>6
  <2> QED
    BY <1>3, <2>1, SeqDef
<1>8. Range(rest) = Range(seq) \ {key}
  <2>1. ASSUME NEW x \in Range(rest)
        PROVE  x \in Range(seq) \ {key}
    <3>1. PICK n \in 1 .. count : x = seq[Nth(kept, n)]
      BY <2>1 DEF Range
    <3> QED
      BY <3>1, <1>6 DEF Range
  <2>2. ASSUME NEW x \in Range(seq) \ {key}
        PROVE  x \in Range(rest)
    <3>1. PICK i \in DOMAIN seq : x = seq[i]
      BY <2>2 DEF Range
    <3>2. i \in kept
      BY <2>2, <3>1
    <3>3. Rank(kept, i) \in 1 .. count /\ rest[Rank(kept, i)] = x
      BY <1>4, <3>1, <3>2
    <3> QED
      BY <3>3 DEF Range
  <2> QED
    BY <2>1, <2>2
<1>9. ASSUME IsInjective(seq)
      PROVE  IsInjective(rest)
  <2> SUFFICES ASSUME NEW m \in 1 .. count, NEW n \in 1 .. count, rest[m] = rest[n]
               PROVE  m = n
    BY DEF IsInjective
  <2>1. Nth(kept, m) = Nth(kept, n)
    BY <1>6, <1>9 DEF IsInjective
  <2> QED
    BY <1>4, <2>1
<1> QED
  BY <1>5, <1>7, <1>8, <1>9

\* Touching a key, as get and insert do: the key is in the sequence once.
LEMMA TouchProperties ==
    ASSUME NEW S, NEW seq \in Seq(S), NEW key \in S
    PROVE  /\ Append(Without(seq, key), key) \in Seq(S)
           /\ Range(Append(Without(seq, key), key)) = Range(seq) \cup {key}
           /\ IsInjective(seq) => IsInjective(Append(Without(seq, key), key))
<1> DEFINE rest == Without(seq, key)
           touched == Append(rest, key)
<1>1. /\ rest \in Seq(S)
      /\ Range(rest) = Range(seq) \ {key}
      /\ IsInjective(seq) => IsInjective(rest)
  BY WithoutProperties
<1> HIDE DEF rest
<1>2. /\ touched \in Seq(S)
      /\ Len(touched) = Len(rest) + 1
      /\ \A i \in 1 .. Len(rest) : touched[i] = rest[i]
      /\ touched[Len(rest) + 1] = key
  BY <1>1, AppendProperties
<1>3. /\ Len(rest) \in Nat
      /\ DOMAIN rest = 1 .. Len(rest)
      /\ DOMAIN touched = 1 .. Len(rest) + 1
  BY <1>1, <1>2, LenProperties
<1> HIDE DEF touched
<1>4. Range(touched) = Range(rest) \cup {key}
  BY <1>2, <1>3 DEF Range
<1>5. \A i \in 1 .. Len(rest) : rest[i] # key
  BY <1>1, <1>3 DEF Range
<1>6. ASSUME IsInjective(seq)
      PROVE  IsInjective(touched)
  BY <1>1, <1>2, <1>3, <1>5, <1>6 DEF IsInjective
<1> QED
  BY <1>1, <1>2, <1>4, <1>6 DEF rest, touched

-----------------------------------------------------------------------------
(***************************************************************************)
(* The inductive invariant.  The bound on the map alone is not inductive:  *)
(* the loop restores it only because each key it pops is a key of the map, *)
(* which is what the agreement of deque and map says.                      *)
(***************************************************************************)
IInv == TypeOK /\ RecencyTracksEntries /\ SizeWithinLimit

USE DEF Entry, Answer, Limited

\* The map is finite: its keys are those of a sequence.
LEMMA FiniteEntries ==
    ASSUME TypeOK, RecencyTracksEntries
    PROVE  IsFiniteSet(DOMAIN entries) /\ Cardinality(DOMAIN entries) \in Nat
<1>1. /\ Len(recency) \in Nat
      /\ DOMAIN recency = 1 .. Len(recency)
      /\ recency \in [1 .. Len(recency) -> Keys]
  BY LenProperties DEF TypeOK
<1>2. recency \in Surjection(1 .. Len(recency), Range(recency))
  BY <1>1 DEF Range, Surjection
<1>3. IsFiniteSet(1 .. Len(recency))
  BY <1>1, FS_Interval
<1>4. IsFiniteSet(Range(recency))
  BY <1>2, <1>3, FS_Surjection
<1> QED
  BY <1>4, FS_CardinalityType DEF RecencyTracksEntries

\* The empty cache.
LEMMA EmptyCache ==
    /\ DOMAIN << >> = {}
    /\ Range(<< >>) = {}
    /\ IsInjective(<< >>)
    /\ Cardinality({}) = 0
<1>1. DOMAIN << >> = {}
  OBVIOUS
<1> QED
  BY <1>1, FS_EmptySet DEF Range, IsInjective

\* The new cache is empty.
LEMMA InitIInv == Init => IInv
<1> SUFFICES ASSUME Init
             PROVE  IInv
  OBVIOUS
<1>1. options \in [ttl : Ttls, max_entries : Limits]
  BY DEF Init
<1>2. options.max_entries \in Nat \cup {None}
  BY <1>1, LimitsAssumption
<1>3. TypeOK
  <2>1. entries \in [DOMAIN entries -> Entry] /\ DOMAIN entries \subseteq Keys
    BY EmptyCache DEF Init
  <2>2. recency \in Seq(Keys)
    BY EmptySeq DEF Init
  <2> QED
    BY <1>1, <2>1, <2>2 DEF Init, TypeOK
<1>4. RecencyTracksEntries
  BY EmptyCache DEF Init, RecencyTracksEntries
<1>5. SizeWithinLimit
  BY <1>2, EmptyCache, NoneAssumption DEF Init, SizeWithinLimit
<1> QED
  BY <1>3, <1>4, <1>5 DEF IInv

\* A hit moves a key of the map to the back of the deque.
LEMMA GetHitIInv ==
    ASSUME IInv, NEW key \in Keys, GetHit(key)
    PROVE  IInv'
<1>1. /\ recency' \in Seq(Keys)
      /\ Range(recency') = Range(recency) \cup {key}
      /\ IsInjective(recency')
  BY TouchProperties DEF IInv, TypeOK, RecencyTracksEntries, GetHit
<1>2. TypeOK'
  BY <1>1 DEF IInv, TypeOK, GetHit
<1>3. RecencyTracksEntries'
  BY <1>1 DEF IInv, RecencyTracksEntries, GetHit
<1>4. SizeWithinLimit'
  BY DEF IInv, SizeWithinLimit, GetHit
<1> QED
  BY <1>2, <1>3, <1>4 DEF IInv

\* An expired key leaves both structures.
LEMMA GetExpiredIInv ==
    ASSUME IInv, NEW key \in Keys, GetExpired(key)
    PROVE  IInv'
<1>1. /\ recency' \in Seq(Keys)
      /\ Range(recency') = Range(recency) \ {key}
      /\ IsInjective(recency')
  BY WithoutProperties DEF IInv, TypeOK, RecencyTracksEntries, GetExpired
<1>2. /\ DOMAIN entries' = DOMAIN entries \ {key}
      /\ \A k \in DOMAIN entries' : entries'[k] = entries[k]
      /\ entries' = [k \in DOMAIN entries' |-> entries'[k]]
  BY DEF GetExpired, Restrict
<1>3. TypeOK'
  BY <1>1, <1>2 DEF IInv, TypeOK, GetExpired
<1>4. RecencyTracksEntries'
  BY <1>1, <1>2 DEF IInv, RecencyTracksEntries
<1>5. SizeWithinLimit'
  <2>1. /\ Cardinality(DOMAIN entries') \in Nat
        /\ Cardinality(DOMAIN entries') <= Cardinality(DOMAIN entries)
        /\ Cardinality(DOMAIN entries) \in Nat
    BY <1>2, FiniteEntries, FS_Subset, FS_CardinalityType DEF IInv
  <2>2. options' = options /\ evicting' = evicting
    BY DEF GetExpired
  <2>3. options.max_entries \in Nat \cup {None}
    BY LimitsAssumption DEF IInv, TypeOK
  <2> QED
    BY <2>1, <2>2, <2>3 DEF IInv, SizeWithinLimit
<1> QED
  BY <1>3, <1>4, <1>5 DEF IInv

\* An insert adds at most one key, and raises evicting if there is a limit.
LEMMA InsertIInv ==
    ASSUME IInv, NEW key \in Keys, NEW value \in Values, Insert(key, value)
    PROVE  IInv'
<1>1. /\ recency' \in Seq(Keys)
      /\ Range(recency') = Range(recency) \cup {key}
      /\ IsInjective(recency')
  BY TouchProperties DEF IInv, TypeOK, RecencyTracksEntries, Insert
<1>2. /\ DOMAIN entries' = DOMAIN entries \cup {key}
      /\ entries' \in [DOMAIN entries' -> Entry]
  BY DEF Insert, IInv, TypeOK
<1>3. /\ options' = options
      /\ options.max_entries \in Nat \cup {None}
      /\ options.max_entries # 0
      /\ evicting' = (options.max_entries # None)
      /\ ~evicting
      /\ answer' = answer
  BY LimitsAssumption DEF IInv, TypeOK, Insert
<1>4. TypeOK'
  BY <1>1, <1>2, <1>3 DEF IInv, TypeOK
<1>5. RecencyTracksEntries'
  BY <1>1, <1>2 DEF IInv, RecencyTracksEntries
<1>6. SizeWithinLimit'
  <2>1. /\ Cardinality(DOMAIN entries) \in Nat
        /\ Cardinality(DOMAIN entries') \in Nat
        /\ Cardinality(DOMAIN entries') <= Cardinality(DOMAIN entries) + 1
    <3>1. IsFiniteSet(DOMAIN entries) /\ Cardinality(DOMAIN entries) \in Nat
      BY FiniteEntries DEF IInv
    <3>2. Cardinality(DOMAIN entries \cup {key}) =
            IF key \in DOMAIN entries THEN Cardinality(DOMAIN entries)
                                      ELSE Cardinality(DOMAIN entries) + 1
      BY <3>1, FS_AddElement
    <3> QED
      BY <1>2, <3>1, <3>2
  <2>2. CASE options.max_entries = None
    BY <1>3, <2>2 DEF SizeWithinLimit
  <2>3. CASE options.max_entries # None
    <3>1. options.max_entries \in Nat /\ evicting'
      BY <1>3, <2>3
    <3>2. Cardinality(DOMAIN entries) <= options.max_entries
      BY <1>3, <2>1, <2>3, <3>1 DEF IInv, SizeWithinLimit
    <3>3. Cardinality(DOMAIN entries') <= options.max_entries + 1
      BY <2>1, <3>1, <3>2
    <3> QED
      BY <1>3, <3>1, <3>3 DEF SizeWithinLimit
  <2> QED
    BY <2>2, <2>3
<1> QED
  BY <1>4, <1>5, <1>6 DEF IInv

\* The loop removes the key it pops from the map, where it always is.
LEMMA EvictOldestIInv ==
    ASSUME IInv, EvictOldest
    PROVE  IInv'
<1> DEFINE oldest == Head(recency)
<1>1. /\ recency \in Seq(Keys) /\ recency # << >>
      /\ Len(recency) \in Nat \ {0}
      /\ DOMAIN recency = 1 .. Len(recency)
  BY LenProperties, EmptySeq DEF IInv, TypeOK, EvictOldest
<1>2. /\ recency' \in Seq(Keys)
      /\ Len(recency') = Len(recency) - 1
      /\ \A i \in 1 .. Len(recency') : recency'[i] = recency[i + 1]
      /\ DOMAIN recency' = 1 .. Len(recency')
  BY <1>1, HeadTailProperties, LenProperties DEF EvictOldest
<1>3. oldest = recency[1] /\ oldest \in Range(recency)
  BY <1>1 DEF Range
<1>4. IsInjective(recency') /\ oldest \notin Range(recency')
  <2>1. \A i, j \in 1 .. Len(recency) : recency[i] = recency[j] => i = j
    BY <1>1 DEF IInv, RecencyTracksEntries, IsInjective
  <2>2. \A i \in 1 .. Len(recency') : i + 1 \in 1 .. Len(recency) /\ i + 1 # 1
    BY <1>1, <1>2
  <2>3. \A i, j \in 1 .. Len(recency') : recency'[i] = recency'[j] => i = j
    <3> SUFFICES ASSUME NEW i \in 1 .. Len(recency'), NEW j \in 1 .. Len(recency'),
                        recency'[i] = recency'[j]
                 PROVE  i = j
      OBVIOUS
    <3>1. recency[i + 1] = recency[j + 1]
      BY <1>2
    <3>2. i + 1 = j + 1
      BY <2>1, <2>2, <3>1
    <3> QED
      BY <1>1, <1>2, <3>2
  <2>4. \A i \in 1 .. Len(recency') : recency'[i] # oldest
    BY <1>1, <1>2, <1>3, <2>1, <2>2
  <2> QED
    BY <1>2, <2>3, <2>4 DEF IsInjective, Range
<1>5. Range(recency') = Range(recency) \ {oldest}
  <2>1. Range(recency') \subseteq Range(recency)
    BY <1>1, <1>2 DEF Range
  <2>2. ASSUME NEW x \in Range(recency), x # oldest
        PROVE  x \in Range(recency')
    <3>1. PICK i \in 1 .. Len(recency) : x = recency[i]
      BY <1>1 DEF Range
    <3>2. i - 1 \in 1 .. Len(recency') /\ recency'[i - 1] = x
      BY <1>1, <1>2, <1>3, <2>2, <3>1
    <3> QED
      BY <1>2, <3>2 DEF Range
  <2> QED
    BY <1>4, <2>1, <2>2
<1>6. /\ DOMAIN entries' = DOMAIN entries \ {oldest}
      /\ entries' \in [DOMAIN entries' -> Entry]
  BY DEF EvictOldest, Restrict, IInv, TypeOK
<1>7. /\ options' = options /\ evicting' = evicting /\ answer' = answer
      /\ evicting
      /\ options.max_entries \in Nat \ {0}
  BY DEF EvictOldest, IInv, TypeOK
<1>8. TypeOK'
  BY <1>2, <1>6, <1>7 DEF IInv, TypeOK
<1>9. RecencyTracksEntries'
  BY <1>4, <1>5, <1>6 DEF IInv, RecencyTracksEntries
<1>10. SizeWithinLimit'
  <2>1. /\ Cardinality(DOMAIN entries) \in Nat
        /\ Cardinality(DOMAIN entries') \in Nat
        /\ Cardinality(DOMAIN entries') <= Cardinality(DOMAIN entries)
    BY <1>6, FiniteEntries, FS_Subset, FS_CardinalityType DEF IInv
  <2> QED
    BY <1>7, <2>1 DEF IInv, SizeWithinLimit
<1> QED
  BY <1>8, <1>9, <1>10 DEF IInv

\* The loop ends with the map within its limit.
LEMMA EvictDoneIInv ==
    ASSUME IInv, EvictDone
    PROVE  IInv'
<1>1. /\ options' = options /\ entries' = entries /\ recency' = recency
      /\ answer' = answer
      /\ evicting' = FALSE
      /\ options.max_entries \in Nat \ {0}
      /\ ~(Cardinality(DOMAIN entries) > options.max_entries)
  BY NoneAssumption DEF EvictDone, OverLimit, IInv, TypeOK
<1>2. TypeOK' /\ RecencyTracksEntries'
  BY <1>1 DEF IInv, TypeOK, RecencyTracksEntries
<1>3. Cardinality(DOMAIN entries) \in Nat
  BY FiniteEntries DEF IInv
<1>4. SizeWithinLimit'
  BY <1>1, <1>3 DEF SizeWithinLimit
<1> QED
  BY <1>2, <1>4 DEF IInv

\* A cleared cache is empty.
LEMMA ClearIInv ==
    ASSUME IInv, Clear
    PROVE  IInv'
<1>1. /\ options' = options /\ evicting' = evicting /\ answer' = answer
      /\ entries' = << >> /\ recency' = << >>
      /\ options.max_entries \in Nat \cup {None}
      /\ ~evicting
  BY LimitsAssumption DEF Clear, IInv, TypeOK
<1>2. TypeOK'
  BY <1>1, EmptyCache DEF IInv, TypeOK
<1>3. RecencyTracksEntries'
  BY <1>1, EmptyCache DEF RecencyTracksEntries
<1>4. SizeWithinLimit'
  BY <1>1, EmptyCache DEF SizeWithinLimit
<1> QED
  BY <1>2, <1>3, <1>4 DEF IInv

\* The clock changes the ages and nothing else.
LEMMA TickIInv ==
    ASSUME IInv, Tick
    PROVE  IInv'
<1>1. /\ options' = options /\ evicting' = evicting /\ answer' = answer
      /\ recency' = recency
      /\ DOMAIN entries' = DOMAIN entries
  BY DEF Tick
<1>2. entries' \in [DOMAIN entries -> Entry]
  BY DEF Tick, IInv, TypeOK
<1>3. TypeOK' /\ RecencyTracksEntries' /\ SizeWithinLimit'
  BY <1>1, <1>2 DEF IInv, TypeOK, RecencyTracksEntries, SizeWithinLimit
<1> QED
  BY <1>3 DEF IInv

\* Every step keeps the invariant.
LEMMA StepIInv == IInv /\ [Next]_vars => IInv'
<1> SUFFICES ASSUME IInv, [Next]_vars
             PROVE  IInv'
  OBVIOUS
<1>1. ASSUME NEW key \in Keys, GetHit(key)
      PROVE  IInv'
  BY <1>1, GetHitIInv
<1>2. ASSUME NEW key \in Keys, GetMiss(key)
      PROVE  IInv'
  <2>1. CASE GetExpired(key)
    BY <2>1, GetExpiredIInv
  <2>2. CASE GetAbsent(key)
    BY <2>2 DEF GetAbsent, IInv, TypeOK, RecencyTracksEntries, SizeWithinLimit
  <2> QED
    BY <1>2, <2>1, <2>2 DEF GetMiss
<1>3. ASSUME NEW key \in Keys, NEW value \in Values,
             Insert(key, value) \/ InsertDisabled(key, value)
      PROVE  IInv'
  <2>1. CASE Insert(key, value)
    BY <2>1, InsertIInv
  <2>2. CASE InsertDisabled(key, value)
    BY <2>2 DEF InsertDisabled, vars, IInv, TypeOK, RecencyTracksEntries, SizeWithinLimit
  <2> QED
    BY <1>3, <2>1, <2>2
<1>4. CASE UNCHANGED vars
  BY <1>4 DEF vars, IInv, TypeOK, RecencyTracksEntries, SizeWithinLimit
<1> QED
  BY <1>1, <1>2, <1>3, <1>4, EvictOldestIInv, EvictDoneIInv, ClearIInv, TickIInv
     DEF Next

-----------------------------------------------------------------------------
\* Every behaviour of the cache keeps the inductive invariant.
THEOREM CacheInvariant == Spec => []IInv
  BY InitIInv, StepIInv, PTL DEF Spec

\* The cache is well typed: fs.rs:57-61 with options, entries and recency.
THEOREM TypeCorrect == Spec => []TypeOK
<1>1. IInv => TypeOK
  BY DEF IInv
<1> QED
  BY <1>1, CacheInvariant, PTL

\* The deque and the map agree after every operation, for any keys and any
\* limit: eviction by the deque can reach every entry of the map.
THEOREM RecencyAgreement == Spec => []RecencyTracksEntries
<1>1. IInv => RecencyTracksEntries
  BY DEF IInv
<1> QED
  BY <1>1, CacheInvariant, PTL

\* The cache never holds more than max_entries entries once insert returns.
THEOREM BoundedCache == Spec => []SizeWithinLimit
<1>1. IInv => SizeWithinLimit
  BY DEF IInv
<1> QED
  BY <1>1, CacheInvariant, PTL

\* The eviction loop of insert always finds a key to pop while it has to go
\* on, so it ends and the mutex is released.
THEOREM NoSpin == Spec => []EvictionNeverSpins
<1>1. IInv => EvictionNeverSpins
  <2> SUFFICES ASSUME IInv, evicting, OverLimit, recency = << >>
               PROVE  FALSE
    BY DEF EvictionNeverSpins
  <2>1. DOMAIN entries = {}
    BY EmptyCache DEF IInv, RecencyTracksEntries
  <2>2. Cardinality(DOMAIN entries) = 0
    BY <2>1, EmptyCache
  <2> QED
    BY <2>2 DEF IInv, TypeOK, OverLimit
<1> QED
  BY <1>1, CacheInvariant, PTL

-----------------------------------------------------------------------------
(***************************************************************************)
(* The cache is the cache of LruCache.  Its lines are what the deque says  *)
(* without the key still to be evicted; every operation is one of LruCache *)
(* on them and the eviction loop changes none.                             *)
(***************************************************************************)
\* The first m positions.
LEMMA UpTo ==
    ASSUME NEW m \in Nat
    PROVE  IsFiniteSet(1 .. m) /\ Cardinality(1 .. m) = m /\ 1 .. m \in SUBSET Nat
<1>1. 1 .. m \in SUBSET Nat
  OBVIOUS
<1>2. IsFiniteSet(1 .. m) /\ Cardinality(1 .. m) = IF 1 > m THEN 0 ELSE m - 1 + 1
  BY FS_Interval
<1> QED
  BY <1>1, <1>2

\* Without a key that is not there.
LEMMA WithoutAbsent ==
    ASSUME NEW S, NEW seq \in Seq(S), NEW key, key \notin Range(seq)
    PROVE  Without(seq, key) = seq
<1> DEFINE kept == {i \in DOMAIN seq : seq[i] # key}
<1>1. /\ Len(seq) \in Nat /\ DOMAIN seq = 1 .. Len(seq)
      /\ seq = [n \in 1 .. Len(seq) |-> seq[n]]
  BY LenProperties
<1>2. kept = 1 .. Len(seq)
  BY <1>1 DEF Range
<1>3. IsFiniteSet(kept) /\ Cardinality(kept) = Len(seq) /\ kept \in SUBSET Nat
  BY <1>1, <1>2, UpTo
<1> HIDE DEF kept
<1>4. ASSUME NEW n \in 1 .. Len(seq)
      PROVE  Nth(kept, n) = n
  <2>1. {j \in kept : j <= n} = 1 .. n
    BY <1>1, <1>2
  <2>2. Rank(kept, n) = n
    <3>1. n \in Nat
      BY <1>1
    <3> QED
      BY <2>1, <3>1, UpTo DEF Rank
  <2> QED
    BY <1>2, <1>3, <2>2, NthEnumerates
<1>5. Without(seq, key) = [n \in 1 .. Len(seq) |-> seq[Nth(kept, n)]]
  BY <1>3 DEF Without, kept
<1> QED
  BY <1>1, <1>4, <1>5

\* The place in seq of the element n of seq without the element i.
Skip(i, n) == IF n < i THEN n ELSE n + 1

\* Without the key at one place only.
LEMMA WithoutPresent ==
    ASSUME NEW S, NEW seq \in Seq(S), IsInjective(seq), NEW i \in 1 .. Len(seq)
    PROVE  /\ Len(Without(seq, seq[i])) = Len(seq) - 1
           /\ \A n \in 1 .. Len(seq) - 1 : Without(seq, seq[i])[n] = seq[Skip(i, n)]
<1> DEFINE key == seq[i]
           kept == {j \in DOMAIN seq : seq[j] # key}
<1>1. Len(seq) \in Nat /\ DOMAIN seq = 1 .. Len(seq) /\ i \in Nat
  BY LenProperties
<1>2. kept = (1 .. Len(seq)) \ {i}
  BY <1>1 DEF IsInjective
<1>3. IsFiniteSet(kept) /\ Cardinality(kept) = Len(seq) - 1 /\ kept \in SUBSET Nat
  <2>1. IsFiniteSet(1 .. Len(seq)) /\ Cardinality(1 .. Len(seq)) = Len(seq)
    BY <1>1, UpTo
  <2>2. /\ IsFiniteSet((1 .. Len(seq)) \ {i})
        /\ Cardinality((1 .. Len(seq)) \ {i}) = Len(seq) - 1
    BY <2>1, FS_RemoveElement
  <2> HIDE DEF kept
  <2> QED
    BY <1>1, <1>2, <2>2
<1>4. Without(seq, key) = [n \in 1 .. Len(seq) - 1 |-> seq[Nth(kept, n)]]
  BY <1>3 DEF Without
<1> HIDE DEF kept, key
<1>5. ASSUME NEW n \in 1 .. Len(seq) - 1
      PROVE  Nth(kept, n) = Skip(i, n)
  <2> DEFINE m == Skip(i, n)
  <2>1. m \in kept /\ m \in Nat
    BY <1>1, <1>2 DEF Skip
  <2>2. {j \in kept : j <= m} = (1 .. m) \ {i}
    BY <1>1, <1>2, <2>1
  <2>3. IsFiniteSet(1 .. m) /\ Cardinality(1 .. m) = m
    BY <2>1, UpTo
  <2>4. Cardinality((1 .. m) \ {i}) = IF i \in 1 .. m THEN m - 1 ELSE m
    BY <2>3, FS_RemoveElement
  <2>5. Rank(kept, m) = n
    <3>1. (IF i \in 1 .. m THEN m - 1 ELSE m) = n
      BY <1>1 DEF Skip
    <3> HIDE DEF m
    <3> QED
      BY <2>2, <2>4, <3>1 DEF Rank
  <2> QED
    BY <1>3, <2>1, <2>5, NthEnumerates
<1>6. Len(Without(seq, key)) = Len(seq) - 1
  BY <1>1, <1>4
<1> QED
  BY <1>4, <1>5, <1>6 DEF key

\* What is left of a sequence without its element i.
LEMMA ExceptProperties ==
    ASSUME NEW S, NEW seq \in Seq(S), NEW i \in 1 .. Len(seq)
    PROVE  LET rest == SubSeq(seq, 1, i - 1) \o SubSeq(seq, i + 1, Len(seq))
           IN  /\ rest \in Seq(S)
               /\ Len(rest) = Len(seq) - 1
               /\ \A n \in 1 .. Len(seq) - 1 : rest[n] = seq[Skip(i, n)]
<1> DEFINE low == SubSeq(seq, 1, i - 1)
           high == SubSeq(seq, i + 1, Len(seq))
<1>1. Len(seq) \in Nat /\ i \in Nat /\ \A n \in 1 .. Len(seq) : seq[n] \in S
  BY LenProperties
<1>2. low \in Seq(S) /\ Len(low) = i - 1 /\ \A n \in 1 .. i - 1 : low[n] = seq[n]
  <2>1. 1 \in Int /\ i - 1 \in Int /\ \A n \in 1 .. i - 1 : seq[n] \in S
    BY <1>1
  <2>2. /\ low \in Seq(S)
        /\ Len(low) = IF 1 <= i - 1 THEN (i - 1) - 1 + 1 ELSE 0
        /\ \A n \in 1 .. (i - 1) - 1 + 1 : low[n] = seq[1 + n - 1]
    BY <2>1, SubSeqProperties
  <2> HIDE DEF low
  <2> QED
    BY <1>1, <2>2
<1>3. /\ high \in Seq(S) /\ Len(high) = Len(seq) - i
      /\ \A n \in 1 .. Len(seq) - i : high[n] = seq[n + i]
  <2>1. i + 1 \in Int /\ Len(seq) \in Int /\ \A n \in (i + 1) .. Len(seq) : seq[n] \in S
    BY <1>1
  <2>2. /\ high \in Seq(S)
        /\ Len(high) = IF i + 1 <= Len(seq) THEN Len(seq) - (i + 1) + 1 ELSE 0
        /\ \A n \in 1 .. Len(seq) - (i + 1) + 1 : high[n] = seq[(i + 1) + n - 1]
    BY <2>1, SubSeqProperties
  <2> HIDE DEF high
  <2> QED
    BY <1>1, <2>2
<1> HIDE DEF low, high
<1>4. /\ low \o high \in Seq(S)
      /\ Len(low \o high) = Len(low) + Len(high)
      /\ \A n \in 1 .. Len(low) + Len(high) :
            (low \o high)[n] = IF n <= Len(low) THEN low[n] ELSE high[n - Len(low)]
  BY <1>2, <1>3, ConcatProperties
<1>5. Len(low) + Len(high) = Len(seq) - 1
  BY <1>1, <1>2, <1>3
<1>6. ASSUME NEW n \in 1 .. Len(seq) - 1
      PROVE  (low \o high)[n] = seq[Skip(i, n)]
  <2>1. CASE n < i
    BY <1>1, <1>2, <1>4, <1>5, <2>1 DEF Skip
  <2>2. CASE ~(n < i)
    <3>1. n - Len(low) \in 1 .. Len(seq) - i /\ (n - Len(low)) + i = n + 1
      BY <1>1, <1>2, <2>2
    <3>2. (low \o high)[n] = high[n - Len(low)]
      BY <1>1, <1>2, <1>4, <1>5, <2>2
    <3> QED
      BY <1>3, <2>2, <3>1, <3>2 DEF Skip
  <2> QED
    BY <2>1, <2>2
<1> QED
  BY <1>4, <1>5, <1>6 DEF low, high

LineSet == [key : Keys, value : Values, age : Nat]

\* The line of a key of the map.
Line(key) == [key |-> key, value |-> entries[key].value, age |-> entries[key].age]

\* How the lines follow from the deque.
LinesKnown ==
    /\ Len(recency) \in Nat /\ Len(recency) = Cardinality(DOMAIN entries)
    /\ Excess \in {0, 1} /\ Excess <= Len(recency)
    /\ ~evicting => Excess = 0
    /\ Lines \in Seq(LineSet)
    /\ Len(Lines) = Len(recency) - Excess
    /\ \A n \in 1 .. Len(recency) - Excess : Lines[n] = Line(recency[n + Excess])

\* The lines are as many as the keys, up to the one to be evicted, and each is
\* the line of its key.
LEMMA LinesFollow == IInv => LinesKnown
<1> SUFFICES ASSUME IInv
             PROVE  LinesKnown
  OBVIOUS
<1>1. /\ Len(recency) \in Nat /\ DOMAIN recency = 1 .. Len(recency)
      /\ recency \in [1 .. Len(recency) -> Keys]
  BY LenProperties DEF IInv, TypeOK
<1>2. Len(recency) = Cardinality(DOMAIN entries)
  <2>1. recency \in Bijection(1 .. Len(recency), DOMAIN entries)
    BY <1>1 DEF IInv, RecencyTracksEntries, Bijection, Injection, Surjection,
                IsInjective, Range
  <2>2. ExistsBijection(1 .. Len(recency), DOMAIN entries)
    BY <2>1 DEF ExistsBijection
  <2> QED
    BY <1>1, <2>2, UpTo, FS_Bijection
<1>3. /\ Excess \in {0, 1} /\ Excess <= Len(recency)
      /\ ~evicting => Excess = 0
  <2>1. options.max_entries \in Nat \cup {None}
    BY LimitsAssumption DEF IInv, TypeOK
  <2>2. CASE options.max_entries = None
    BY <1>1, <2>2 DEF Excess, OverLimit
  <2>3. CASE options.max_entries \in Nat
    <3>1. options.max_entries # None
      BY <2>3, NoneAssumption
    <3>2. Len(recency) <= options.max_entries + (IF evicting THEN 1 ELSE 0)
      BY <1>2, <3>1 DEF IInv, SizeWithinLimit
    <3> QED
      BY <1>1, <1>2, <2>3, <3>2 DEF Excess, OverLimit, IInv, TypeOK
  <2> QED
    BY <2>1, <2>2, <2>3
<1>4. Lines = [n \in 1 .. Len(recency) - Excess |-> Line(recency[n + Excess])]
  BY DEF Lines, Line
<1>5. ASSUME NEW n \in 1 .. Len(recency) - Excess
      PROVE  Line(recency[n + Excess]) \in LineSet
  <2>1. n + Excess \in 1 .. Len(recency)
    BY <1>1, <1>3
  <2>2. recency[n + Excess] \in DOMAIN entries
    BY <1>1, <2>1 DEF IInv, RecencyTracksEntries, Range
  <2> QED
    BY <2>2 DEF Line, LineSet, IInv, TypeOK
<1>6. Len(recency) - Excess \in Nat
  BY <1>1, <1>3
<1>7. Lines \in [1 .. Len(recency) - Excess -> LineSet]
  BY <1>4, <1>5
<1>8. Lines \in Seq(LineSet)
  BY <1>6, <1>7, SeqDef
<1>9. Len(Lines) = Len(recency) - Excess
  BY <1>6, <1>7
<1> QED
  BY <1>1, <1>2, <1>3, <1>4, <1>8, <1>9 DEF LinesKnown

\* The lines are those of the deque.
AtRest ==
    /\ recency \in Seq(Keys) /\ IsInjective(recency)
    /\ Len(recency) \in Nat /\ DOMAIN recency = 1 .. Len(recency)
    /\ Lines \in Seq(LineSet) /\ Len(Lines) = Len(recency)
    /\ DOMAIN Lines = 1 .. Len(recency)
    /\ \A n \in 1 .. Len(recency) : Lines[n] = Line(recency[n])
    /\ \A key : key \in DOMAIN entries <=>
                   \E n \in 1 .. Len(recency) : recency[n] = key

\* Nothing is left to evict.
Settled == ~evicting \/ Excess = 0

\* With nothing left to evict the abstract cache can be read off the deque.
LEMMA LinesAtRest == IInv /\ Settled => AtRest
<1> SUFFICES ASSUME IInv, Settled
             PROVE  AtRest
  OBVIOUS
<1>1. LinesKnown
  BY LinesFollow
<1>2. recency \in Seq(Keys) /\ IsInjective(recency) /\ Range(recency) = DOMAIN entries
  BY DEF IInv, TypeOK, RecencyTracksEntries
<1>3. DOMAIN recency = 1 .. Len(recency) /\ \A n \in 1 .. Len(recency) : n + 0 = n
  BY <1>1, <1>2, LenProperties
<1>4. Excess = 0 /\ Len(recency) - 0 = Len(recency)
  BY <1>1 DEF LinesKnown, Settled
<1>5. Lines \in Seq(LineSet) /\ Len(Lines) = Len(recency)
  BY <1>1, <1>4 DEF LinesKnown
<1>6. DOMAIN Lines = 1 .. Len(recency)
  BY <1>5, LenProperties
<1>7. \A n \in 1 .. Len(recency) : Lines[n] = Line(recency[n])
  BY <1>1, <1>3, <1>4 DEF LinesKnown
<1>8. Len(recency) \in Nat
  BY <1>1 DEF LinesKnown
<1>9. \A key : key \in DOMAIN entries <=>
                  \E n \in 1 .. Len(recency) : recency[n] = key
  BY <1>2, <1>3 DEF Range
<1> QED
  BY <1>2, <1>3, <1>5, <1>6, <1>7, <1>8, <1>9 DEF AtRest

\* The same of the next state.
LEMMA LinesNext ==
    /\ IInv' => LinesKnown'
    /\ IInv' /\ Settled' => AtRest'
  BY LinesFollow, LinesAtRest, PTL

\* A key that is moved to the end, and the element of a sequence that is.
LEMMA Moved ==
    ASSUME NEW S, NEW seq \in Seq(S), IsInjective(seq), NEW i \in 1 .. Len(seq)
    PROVE  LET moved == Append(Without(seq, seq[i]), seq[i])
           IN  /\ Len(moved) = Len(seq)
               /\ \A n \in 1 .. Len(seq) - 1 : moved[n] = seq[Skip(i, n)]
               /\ moved[Len(seq)] = seq[i]
<1> DEFINE rest == Without(seq, seq[i])
<1>1. Len(seq) \in Nat
  BY LenProperties
<1>2. seq[i] \in S
  BY LenProperties
<1>3. rest \in Seq(S)
  BY WithoutProperties
<1>4. /\ Len(rest) = Len(seq) - 1
      /\ \A n \in 1 .. Len(seq) - 1 : rest[n] = seq[Skip(i, n)]
  BY WithoutPresent
<1> HIDE DEF rest
<1>5. /\ Len(Append(rest, seq[i])) = Len(rest) + 1
      /\ \A n \in 1 .. Len(rest) : Append(rest, seq[i])[n] = rest[n]
      /\ Append(rest, seq[i])[Len(rest) + 1] = seq[i]
  BY <1>2, <1>3, AppendProperties
<1>6. Len(rest) + 1 = Len(seq)
  BY <1>1, <1>4
<1> QED
  BY <1>4, <1>5, <1>6 DEF rest

\* The element i taken out of a sequence, and another put at its end.
Replace(seq, i, x) == Append(SubSeq(seq, 1, i - 1) \o SubSeq(seq, i + 1, Len(seq)), x)

\* What is where in such a sequence.
LEMMA Replaced ==
    ASSUME NEW S, NEW seq \in Seq(S), NEW i \in 1 .. Len(seq), NEW x \in S
    PROVE  /\ Replace(seq, i, x) \in Seq(S)
           /\ Len(Replace(seq, i, x)) = Len(seq)
           /\ \A n \in 1 .. Len(seq) - 1 : Replace(seq, i, x)[n] = seq[Skip(i, n)]
           /\ Replace(seq, i, x)[Len(seq)] = x
<1> DEFINE rest == SubSeq(seq, 1, i - 1) \o SubSeq(seq, i + 1, Len(seq))
<1>1. Len(seq) \in Nat
  BY LenProperties
<1>2. /\ rest \in Seq(S)
      /\ Len(rest) = Len(seq) - 1
      /\ \A n \in 1 .. Len(seq) - 1 : rest[n] = seq[Skip(i, n)]
  BY ExceptProperties
<1> HIDE DEF rest
<1>3. /\ Append(rest, x) \in Seq(S)
      /\ Len(Append(rest, x)) = Len(rest) + 1
      /\ \A n \in 1 .. Len(rest) : Append(rest, x)[n] = rest[n]
      /\ Append(rest, x)[Len(rest) + 1] = x
  BY <1>2, AppendProperties
<1>4. Len(rest) + 1 = Len(seq)
  BY <1>1, <1>2
<1> QED
  BY <1>2, <1>3, <1>4 DEF rest, Replace

\* The line of a key in the next state.
NextLine(key) == [key |-> key, value |-> entries'[key].value, age |-> entries'[key].age]

\* A line that is moved, or replaced at the end, when its key is moved.
LEMMA LineReplaced ==
    ASSUME AtRest, AtRest', NEW i \in 1 .. Len(recency),
           recency' = Append(Without(recency, recency[i]), recency[i]),
           \A k \in DOMAIN entries : k # recency[i] => NextLine(k) = Line(k)
    PROVE  Lines' = Append(Lru!Except(i), NextLine(recency[i]))
<1> DEFINE last == NextLine(recency[i])
           other == Append(Lru!Except(i), last)
           count == Len(recency)
<1>1. /\ Len(recency') = count
      /\ \A n \in 1 .. count - 1 : recency'[n] = recency[Skip(i, n)]
      /\ recency'[count] = recency[i]
  <2>1. recency \in Seq(Keys) /\ IsInjective(recency)
    BY DEF AtRest
  <2> QED
    BY <2>1, Moved
<1>2. count \in Nat /\ count \in 1 .. count /\ i \in Nat
  BY DEF AtRest
<1>3. /\ Lines' \in Seq(LineSet) /\ Len(Lines') = count
      /\ \A n \in 1 .. count : Lines'[n] = NextLine(recency'[n])
  BY <1>1 DEF AtRest, Line, NextLine
<1>4. Lines'[count] = last
  BY <1>1, <1>2, <1>3
<1>5. last \in LineSet
  <2>1. Lines'[count] \in LineSet
    BY <1>2, <1>3, LenProperties
  <2> QED
    BY <1>4, <2>1
<1>6. /\ other \in Seq(LineSet)
      /\ Len(other) = count
      /\ \A n \in 1 .. count - 1 : other[n] = Lines[Skip(i, n)]
      /\ other[count] = last
  <2>1. Lines \in Seq(LineSet) /\ Len(Lines) = count /\ i \in 1 .. Len(Lines)
    BY DEF AtRest
  <2>2. other = Replace(Lines, i, last)
    BY DEF Lru!Except, Replace
  <2>3. last \in LineSet
    BY <1>5
  <2> HIDE DEF last, other, count
  <2>4. \A seq \in Seq(LineSet) : \A k \in 1 .. Len(seq) : \A x \in LineSet :
          /\ Replace(seq, k, x) \in Seq(LineSet)
          /\ Len(Replace(seq, k, x)) = Len(seq)
          /\ \A n \in 1 .. Len(seq) - 1 : Replace(seq, k, x)[n] = seq[Skip(k, n)]
          /\ Replace(seq, k, x)[Len(seq)] = x
    BY Replaced
  <2>5. /\ Replace(Lines, i, last) \in Seq(LineSet)
        /\ Len(Replace(Lines, i, last)) = Len(Lines)
        /\ \A n \in 1 .. Len(Lines) - 1 : Replace(Lines, i, last)[n] = Lines[Skip(i, n)]
        /\ Replace(Lines, i, last)[Len(Lines)] = last
    BY <2>1, <2>3, <2>4
  <2> QED
    BY <2>1, <2>2, <2>5
<1>7. ASSUME NEW n \in 1 .. count - 1
      PROVE  Lines'[n] = other[n]
  <2>1. Skip(i, n) \in 1 .. count /\ Skip(i, n) # i /\ n \in 1 .. count
    BY <1>2 DEF Skip
  <2>2. recency[Skip(i, n)] # recency[i] /\ recency[Skip(i, n)] \in DOMAIN entries
    BY <2>1 DEF AtRest, IsInjective
  <2>3. Lines[Skip(i, n)] = Line(recency[Skip(i, n)])
    BY <2>1 DEF AtRest
  <2>4. Lines'[n] = NextLine(recency[Skip(i, n)])
    BY <1>1, <1>3, <2>1
  <2> QED
    BY <1>6, <2>2, <2>3, <2>4
<1>8. \A n \in 1 .. count : Lines'[n] = other[n]
  <2>1. \A n \in 1 .. count : n \in 1 .. count - 1 \/ n = count
    BY <1>2
  <2> HIDE DEF last, other
  <2> QED
    BY <1>4, <1>6, <1>7, <2>1
<1> HIDE DEF last, other, count
<1> QED
  <2>1. Lines' = other
    BY <1>3, <1>6, <1>8, SeqEqual
  <2> QED
    BY <2>1 DEF other, last

\* A hit is a use of the key's line.
LEMMA GetHitUses ==
    ASSUME IInv, IInv', NEW key \in Keys, GetHit(key)
    PROVE  Lru!Next
<1>1. AtRest /\ AtRest'
  BY LinesAtRest, LinesNext DEF GetHit, Settled
<1>2. PICK i \in 1 .. Len(recency) : recency[i] = key
  BY <1>1 DEF AtRest, GetHit
<1>3. Lines[i] = Line(key) /\ i \in DOMAIN Lines
  BY <1>1, <1>2 DEF AtRest
<1>4. \A k : NextLine(k) = Line(k)
  BY DEF GetHit, NextLine, Line
<1>5. Lines' = Append(Lru!Except(i), Lines[i])
  <2>1. recency' = Append(Without(recency, recency[i]), recency[i])
    BY <1>2 DEF GetHit
  <2>2. Lines' = Append(Lru!Except(i), NextLine(recency[i]))
    BY <1>1, <1>4, <2>1, LineReplaced
  <2> QED
    BY <1>2, <1>3, <1>4, <2>2
<1>6. Lru!Fresh(Lines[i])
  <2>1. options.ttl = None \/ ~(entries[key].age >= options.ttl)
    BY DEF GetHit, Expired
  <2>2. entries[key].age \in Nat /\ options.ttl \in Nat \cup {None}
    BY TtlsAssumption DEF GetHit, IInv, TypeOK
  <2>3. Lines[i].age = entries[key].age
    BY <1>3 DEF Line
  <2>4. options.ttl = None \/ Lines[i].age < options.ttl
    BY <2>1, <2>2, <2>3
  <2> QED
    BY <2>4 DEF Lru!Fresh
<1>7. answer' = [key |-> Lines[i].key, value |-> Lines[i].value]
  BY <1>3 DEF GetHit, Line
<1>8. options' = options
  BY DEF GetHit
<1>9. Lru!Use(i)
  BY <1>5, <1>6, <1>7 DEF Lru!Use
<1> QED
  BY <1>3, <1>8, <1>9 DEF Lru!Next

\* An expired entry is the key's line, given up.
LEMMA GetExpiredExpires ==
    ASSUME IInv, IInv', NEW key \in Keys, GetExpired(key)
    PROVE  Lru!Next
<1>1. AtRest /\ AtRest'
  BY LinesAtRest, LinesNext DEF GetExpired, Settled
<1>2. PICK i \in 1 .. Len(recency) : recency[i] = key
  BY <1>1 DEF AtRest, GetExpired, Expired
<1>3. Lines[i] = Line(key) /\ i \in DOMAIN Lines
  BY <1>1, <1>2 DEF AtRest
<1>4. ~Lru!Fresh(Lines[i])
  <2>1. options.ttl # None /\ entries[key].age >= options.ttl /\ key \in DOMAIN entries
    BY DEF GetExpired, Expired
  <2>2. entries[key].age \in Nat /\ options.ttl \in Nat
    BY <2>1, TtlsAssumption DEF IInv, TypeOK
  <2>3. Lines[i].age = entries[key].age
    BY <1>3 DEF Line
  <2> QED
    BY <2>1, <2>2, <2>3 DEF Lru!Fresh
<1>5. Lines' = Lru!Except(i)
  <2> DEFINE count == Len(recency) - 1
             rest == Lru!Except(i)
  <2>1. Len(recency') = count /\ \A n \in 1 .. count : recency'[n] = recency[Skip(i, n)]
    <3>1. recency \in Seq(Keys) /\ IsInjective(recency)
      BY <1>1 DEF AtRest
    <3>2. recency' = Without(recency, recency[i])
      BY <1>2 DEF GetExpired
    <3> QED
      BY <3>1, <3>2, WithoutPresent
  <2>2. /\ rest \in Seq(LineSet) /\ Len(rest) = count
        /\ \A n \in 1 .. count : rest[n] = Lines[Skip(i, n)]
    <3>1. Lines \in Seq(LineSet) /\ Len(Lines) = Len(recency) /\ i \in 1 .. Len(Lines)
      BY <1>1 DEF AtRest
    <3>2. \A seq \in Seq(LineSet) : \A k \in 1 .. Len(seq) :
             LET left == SubSeq(seq, 1, k - 1) \o SubSeq(seq, k + 1, Len(seq))
             IN  /\ left \in Seq(LineSet)
                 /\ Len(left) = Len(seq) - 1
                 /\ \A n \in 1 .. Len(seq) - 1 : left[n] = seq[Skip(k, n)]
      BY ExceptProperties
    <3>3. rest = SubSeq(Lines, 1, i - 1) \o SubSeq(Lines, i + 1, Len(Lines))
      BY DEF Lru!Except
    <3> HIDE DEF rest
    <3> QED
      BY <3>1, <3>2, <3>3
  <2>3. Lines' \in Seq(LineSet) /\ Len(Lines') = count
    BY <1>1, <2>1 DEF AtRest
  <2>4. ASSUME NEW n \in 1 .. count
        PROVE  Lines'[n] = rest[n]
    <3>1. Skip(i, n) \in 1 .. Len(recency) /\ Skip(i, n) # i
      BY <1>1 DEF AtRest, Skip
    <3>2. recency[Skip(i, n)] # key /\ recency[Skip(i, n)] \in DOMAIN entries
      BY <1>1, <1>2, <3>1 DEF AtRest, IsInjective
    <3>3. NextLine(recency[Skip(i, n)]) = Line(recency[Skip(i, n)])
      BY <3>2 DEF GetExpired, Restrict, NextLine, Line
    <3>4. Lines'[n] = NextLine(recency[Skip(i, n)])
      BY <1>1, <2>1 DEF AtRest, NextLine, Line
    <3>5. Lines[Skip(i, n)] = Line(recency[Skip(i, n)])
      BY <1>1, <3>1 DEF AtRest
    <3> QED
      BY <2>2, <3>3, <3>4, <3>5
  <2> HIDE DEF rest, count
  <2>5. Lines' = rest
    BY <2>2, <2>3, <2>4, SeqEqual
  <2> QED
    BY <2>5 DEF rest
<1>6. answer' = [key |-> Lines[i].key, value |-> None] /\ options' = options
  BY <1>3 DEF GetExpired, Line
<1>7. Lru!Expire(i)
  BY <1>4, <1>5, <1>6 DEF Lru!Expire
<1> QED
  BY <1>3, <1>6, <1>7 DEF Lru!Next

\* No entry is no line.
LEMMA GetAbsentMisses ==
    ASSUME IInv, NEW key \in Keys, GetAbsent(key)
    PROVE  Lru!Next
<1>1. AtRest
  BY LinesAtRest DEF GetAbsent, Settled
<1>2. \A i \in DOMAIN Lines : Lines[i].key # key
  BY <1>1 DEF AtRest, GetAbsent, Line
<1>3. Lines' = Lines
  BY DEF GetAbsent, Lines, Excess, OverLimit
<1>4. Lru!Miss(key)
  BY <1>2, <1>3 DEF Lru!Miss, GetAbsent
<1> QED
  BY <1>4 DEF Lru!Next, GetAbsent

\* An insert of a key the cache has replaces the key's line.
LEMMA InsertReplaces ==
    ASSUME IInv, IInv', NEW key \in Keys, NEW value \in Values, Insert(key, value),
           key \in DOMAIN entries
    PROVE  Lru!Next
<1> DEFINE new == [key |-> key, value |-> value, age |-> 0]
<1>1. AtRest
  BY LinesAtRest DEF Insert, Settled
<1>2. AtRest'
  <2>1. Excess = 0
    BY LinesFollow DEF LinesKnown, Insert
  <2>2. DOMAIN entries' = DOMAIN entries /\ options' = options
    BY DEF Insert
  <2>3. Excess' = 0
    BY <2>1, <2>2 DEF Excess, OverLimit
  <2> QED
    BY <2>3, LinesNext DEF Settled
<1>3. PICK i \in 1 .. Len(recency) : recency[i] = key
  BY <1>1 DEF AtRest
<1>4. Lines[i].key = key /\ i \in DOMAIN Lines
  BY <1>1, <1>3 DEF AtRest, Line
<1>5. NextLine(key) = new /\ \A k \in DOMAIN entries : k # key => NextLine(k) = Line(k)
  BY DEF Insert, NextLine, Line
<1>6. recency' = Append(Without(recency, recency[i]), recency[i])
  BY <1>3 DEF Insert
<1>7. Lines' = Append(Lru!Except(i), NextLine(recency[i]))
  BY <1>1, <1>2, <1>3, <1>5, <1>6, LineReplaced
<1>8. Lines' = Append(Lru!Except(i), new)
  BY <1>3, <1>5, <1>7
<1>9. answer' = answer /\ options' = options
  BY DEF Insert
<1>10. Lru!Put(key, value)
  BY <1>4, <1>8, <1>9 DEF Lru!Put
<1> QED
  BY <1>9, <1>10 DEF Lru!Next

\* An insert of a new key adds a line, and the oldest one goes if there is no
\* room for it: its key is the one the eviction loop is about to pop.
LEMMA InsertAdds ==
    ASSUME IInv, IInv', NEW key \in Keys, NEW value \in Values, Insert(key, value),
           key \notin DOMAIN entries
    PROVE  Lru!Next
<1> DEFINE new == [key |-> key, value |-> value, age |-> 0]
           seq == Append(Lines, new)
           count == Len(recency)
<1>1. AtRest
  BY LinesAtRest DEF Insert, Settled
<1>2. \A i \in DOMAIN Lines : Lines[i].key # key
  BY <1>1 DEF AtRest, Line
<1>3. /\ count \in Nat
      /\ Len(recency') = count + 1
      /\ \A n \in 1 .. count : recency'[n] = recency[n]
      /\ recency'[count + 1] = key
  <2>1. recency \in Seq(Keys) /\ key \notin Range(recency) /\ count \in Nat
    BY <1>1 DEF AtRest, Range
  <2>2. recency' = Append(recency, key)
    BY <2>1, WithoutAbsent DEF Insert
  <2> QED
    BY <2>1, <2>2, AppendProperties
<1>4. /\ seq \in Seq(LineSet)
      /\ Len(seq) = count + 1
      /\ \A n \in 1 .. count : seq[n] = Lines[n]
      /\ seq[count + 1] = new
  <2>1. Lines \in Seq(LineSet) /\ Len(Lines) = count
    BY <1>1 DEF AtRest
  <2>2. new \in LineSet
    BY DEF LineSet
  <2> HIDE DEF new
  <2> QED
    BY <2>1, <2>2, AppendProperties
<1>5. ASSUME NEW n \in 1 .. count + 1
      PROVE  seq[n] = NextLine(recency'[n])
  <2>1. CASE n \in 1 .. count
    <3>1. recency[n] \in DOMAIN entries /\ recency[n] # key
      BY <1>1, <2>1 DEF AtRest
    <3>2. NextLine(recency[n]) = Line(recency[n])
      BY <3>1 DEF Insert, NextLine, Line
    <3>3. Lines[n] = Line(recency[n])
      BY <1>1, <2>1 DEF AtRest
    <3> HIDE DEF seq, new
    <3> QED
      BY <1>3, <1>4, <2>1, <3>2, <3>3
  <2>2. CASE n = count + 1
    <3>1. NextLine(key) = new
      BY DEF Insert, NextLine
    <3> HIDE DEF seq, new
    <3> QED
      BY <1>3, <1>4, <2>2, <3>1
  <2>3. n \in 1 .. count \/ n = count + 1
    BY <1>3
  <2> HIDE DEF seq, new, count
  <2> QED
    BY <2>1, <2>2, <2>3
<1>6. answer' = answer /\ options' = options
  BY DEF Insert
<1>7. /\ Lines' \in Seq(LineSet)
      /\ Excess' \in {0, 1}
      /\ Len(Lines') = count + 1 - Excess'
      /\ \A n \in 1 .. count + 1 - Excess' : Lines'[n] = NextLine(recency'[n + Excess'])
      /\ Len(recency') = Cardinality(DOMAIN entries')
  BY <1>3, LinesNext DEF LinesKnown, Line, NextLine
<1>8. Lines' = Lru!Latest(seq)
  <2> HIDE DEF seq, count
  <2>1. options.max_entries \in Nat \cup {None}
    BY LimitsAssumption DEF IInv, TypeOK
  <2>2. CASE Excess' = 0
    <3>1. Lru!Latest(seq) = seq
      <4>1. options.max_entries = None \/ count + 1 <= options.max_entries
        BY <1>3, <1>6, <1>7, <2>1, <2>2 DEF Excess, OverLimit
      <4> QED
        BY <1>4, <4>1 DEF Lru!Latest
    <3>2. Len(Lines') = count + 1 /\ \A n \in 1 .. count + 1 : Lines'[n] = seq[n]
      BY <1>3, <1>5, <1>7, <2>2
    <3>3. Lines' = seq
      BY <1>4, <1>7, <3>2, SeqEqual
    <3> QED
      BY <3>1, <3>3
  <2>3. CASE Excess' = 1
    <3> DEFINE last == SubSeq(seq, 2, count + 1)
    <3>1. Lru!Latest(seq) = last
      <4>1. /\ options.max_entries # None
            /\ options.max_entries \in Nat
            /\ count + 1 > options.max_entries
            /\ count + 1 - options.max_entries = 1
        BY <1>3, <1>6, <1>7, <2>1, <2>3 DEF Excess, OverLimit
      <4>2. /\ Len(seq) - options.max_entries + 1 = 2
            /\ ~(Len(seq) <= options.max_entries)
        BY <1>3, <1>4, <4>1
      <4>3. Lru!Latest(seq) = SubSeq(seq, Len(seq) - options.max_entries + 1, Len(seq))
        BY <1>4, <4>1, <4>2 DEF Lru!Latest
      <4> QED
        BY <1>4, <4>2, <4>3
    <3>2. /\ last \in Seq(LineSet) /\ Len(last) = count
          /\ \A n \in 1 .. count : last[n] = seq[n + 1]
      <4>1. 2 \in Int /\ count + 1 \in Int /\ \A n \in 2 .. count + 1 : seq[n] \in LineSet
        BY <1>3, <1>4, LenProperties
      <4>2. /\ last \in Seq(LineSet)
            /\ Len(last) = IF 2 <= count + 1 THEN (count + 1) - 2 + 1 ELSE 0
            /\ \A n \in 1 .. (count + 1) - 2 + 1 : last[n] = seq[2 + n - 1]
        BY <4>1, SubSeqProperties
      <4>3. (count + 1) - 2 + 1 = count /\ (2 > count + 1 => count = 0)
        BY <1>3
      <4>4. \A n \in 1 .. count : 2 + n - 1 = n + 1
        BY <1>3
      <4> HIDE DEF last
      <4>5. Len(last) = count
        BY <1>3, <4>2, <4>3
      <4>6. \A n \in 1 .. count : last[n] = seq[n + 1]
        BY <4>2, <4>3, <4>4
      <4> QED
        BY <4>2, <4>5, <4>6
    <3>3. Len(Lines') = count /\ \A n \in 1 .. count : Lines'[n] = last[n]
      <4> HIDE DEF last
      <4>1. count + 1 - Excess' = count
        BY <1>3, <2>3
      <4>2. Len(Lines') = count
        BY <1>7, <4>1
      <4>3. ASSUME NEW n \in 1 .. count
            PROVE  Lines'[n] = last[n]
        <5>1. n + 1 \in 1 .. count + 1
          BY <1>3
        <5>2. Lines'[n] = NextLine(recency'[n + 1])
          BY <1>7, <2>3, <4>1
        <5> QED
          BY <1>5, <3>2, <5>1, <5>2
      <4> QED
        BY <4>2, <4>3
    <3> HIDE DEF last
    <3>4. Lines' = last
      BY <1>7, <3>2, <3>3, SeqEqual
    <3> QED
      BY <3>1, <3>4
  <2> QED
    BY <1>7, <2>2, <2>3
<1>9. Lru!Put(key, value)
  BY <1>2, <1>6, <1>8 DEF Lru!Put
<1> QED
  BY <1>6, <1>9 DEF Lru!Next

\* An iteration of the loop changes the deque, the map and no line.
LEMMA EvictOldestStutters ==
    ASSUME IInv, IInv', EvictOldest
    PROVE  Lines' = Lines
<1>1. LinesKnown /\ LinesKnown'
  BY LinesFollow, LinesNext
<1>2. /\ recency \in Seq(Keys) /\ recency # << >>
      /\ Len(recency) \in Nat \ {0} /\ DOMAIN recency = 1 .. Len(recency)
      /\ IsInjective(recency)
  BY LenProperties, EmptySeq DEF IInv, TypeOK, RecencyTracksEntries, EvictOldest
<1>3. /\ Len(recency') = Len(recency) - 1
      /\ \A n \in 1 .. Len(recency') : recency'[n] = recency[n + 1]
      /\ Head(recency) = recency[1]
  BY <1>2, HeadTailProperties DEF EvictOldest
<1>4. Excess = 1 /\ Excess' = 0
  <2>1. options.max_entries \in Nat /\ options' = options /\ options.max_entries # None
    BY DEF EvictOldest, OverLimit, IInv, TypeOK
  <2>2. Excess = Len(recency) - options.max_entries /\ Len(recency) > options.max_entries
    BY <1>1 DEF EvictOldest, Excess, OverLimit, LinesKnown
  <2>3. Excess = 1
    BY <1>1, <1>2, <2>1, <2>2 DEF LinesKnown
  <2>4. Cardinality(DOMAIN entries') = options.max_entries
    BY <1>1, <1>2, <1>3, <2>1, <2>2, <2>3 DEF LinesKnown
  <2>5. Excess' = 0
    BY <2>1, <2>4 DEF Excess, OverLimit
  <2> QED
    BY <2>3, <2>5
<1>5. Len(Lines') = Len(recency) - 1 /\ Len(Lines) = Len(recency) - 1
  BY <1>1, <1>2, <1>3, <1>4 DEF LinesKnown
<1>6. ASSUME NEW n \in 1 .. Len(recency) - 1
      PROVE  Lines'[n] = Lines[n]
  <2>1. n + 1 \in 1 .. Len(recency) /\ n + 1 # 1 /\ n + 0 = n
    BY <1>2
  <2>2. recency[n + 1] # Head(recency) /\ recency[n + 1] \in DOMAIN entries
    BY <1>2, <1>3, <2>1 DEF IsInjective, IInv, RecencyTracksEntries, Range
  <2>3. NextLine(recency[n + 1]) = Line(recency[n + 1])
    BY <2>2 DEF EvictOldest, Restrict, NextLine, Line
  <2>4. Lines'[n] = NextLine(recency'[n + 0])
    BY <1>1, <1>2, <1>3, <1>4 DEF LinesKnown, NextLine, Line
  <2>5. Lines[n] = Line(recency[n + 1])
    BY <1>1, <1>2, <1>4 DEF LinesKnown
  <2> QED
    BY <1>3, <2>1, <2>3, <2>4, <2>5
<1>7. Lines \in Seq(LineSet) /\ Lines' \in Seq(LineSet)
  BY <1>1 DEF LinesKnown
<1> QED
  BY <1>5, <1>6, <1>7, SeqEqual

\* A cleared cache has no lines.
LEMMA ClearFlushes ==
    ASSUME IInv, IInv', Clear
    PROVE  Lru!Next
<1>1. LinesKnown'
  BY LinesNext
<1>2. Len(recency') = 0
  BY DEF Clear
<1>3. Lines' \in Seq(LineSet) /\ Len(Lines') = 0
  BY <1>1, <1>2 DEF LinesKnown
<1>4. Lines' = << >>
  BY <1>3, EmptySeq
<1> QED
  BY <1>4 DEF Clear, Lru!Flush, Lru!Next

\* The clock runs for the lines as it does for the entries.
LEMMA TickElapses ==
    ASSUME IInv, IInv', Tick
    PROVE  Lru!Next
<1> DEFINE Older(line) == IF options.ttl # None /\ Lru!Fresh(line)
                          THEN [line EXCEPT !.age = @ + 1]
                          ELSE line
           count == Len(recency) - Excess
<1>1. LinesKnown /\ LinesKnown'
  BY LinesFollow, LinesNext
<1>2. /\ recency' = recency /\ options' = options /\ answer' = answer
      /\ DOMAIN entries' = DOMAIN entries
  BY DEF Tick
<1>3. Excess' = Excess
  BY <1>2 DEF Excess, OverLimit
<1>4. /\ Lines \in Seq(LineSet) /\ Lines' \in Seq(LineSet)
      /\ Len(Lines) = count /\ Len(Lines') = count
  BY <1>1, <1>2, <1>3 DEF LinesKnown
<1>5. DOMAIN Lines = 1 .. count /\ DOMAIN Lines' = 1 .. count
  BY <1>4, LenProperties
<1>6. ASSUME NEW n \in 1 .. count
      PROVE  Lines'[n] = Older(Lines[n])
  <2> DEFINE key == recency[n + Excess]
  <2>1. Lines[n] = Line(key) /\ Lines'[n] = NextLine(key)
    BY <1>1, <1>2, <1>3 DEF LinesKnown, NextLine, Line
  <2>2. key \in DOMAIN entries
    <3>1. recency \in Seq(Keys) /\ Range(recency) = DOMAIN entries
      BY DEF IInv, TypeOK, RecencyTracksEntries
    <3>2. n + Excess \in 1 .. Len(recency)
      BY <1>1 DEF LinesKnown
    <3> QED
      BY <3>1, <3>2, LenProperties DEF Range
  <2> HIDE DEF key
  <2>3. entries[key] \in Entry
    BY <2>2 DEF IInv, TypeOK
  <2>4. NextLine(key) = Older(Line(key))
    <3>1. entries'[key] = IF options.ttl # None /\ entries[key].age < options.ttl
                          THEN [entries[key] EXCEPT !.age = @ + 1]
                          ELSE entries[key]
      BY <2>2 DEF Tick
    <3>2. Lru!Fresh(Line(key)) <=> options.ttl = None \/ entries[key].age < options.ttl
      BY DEF Lru!Fresh, Line
    <3>3. CASE options.ttl # None /\ entries[key].age < options.ttl
      BY <2>3, <3>1, <3>2, <3>3 DEF NextLine, Line
    <3>4. CASE ~(options.ttl # None /\ entries[key].age < options.ttl)
      BY <2>3, <3>1, <3>2, <3>4 DEF NextLine, Line
    <3> QED
      BY <3>3, <3>4
  <2> QED
    BY <2>1, <2>4
<1>7. Lines' = [n \in DOMAIN Lines |-> Older(Lines[n])]
  <2>1. Lines' = [n \in DOMAIN Lines' |-> Lines'[n]]
    BY <1>4, LenProperties
  <2> HIDE DEF Older, count
  <2> QED
    BY <1>5, <1>6, <2>1
<1>8. Lru!Elapse
  BY <1>2, <1>7 DEF Lru!Elapse
<1> QED
  BY <1>2, <1>8 DEF Lru!Next

\* The state of the abstract cache.
lruVars == <<options, Lines, answer>>

\* Every step of the cache is a step of the abstract cache, or changes none of
\* its variables.
LEMMA StepImplements == IInv /\ IInv' /\ [Next]_vars => [Lru!Next]_lruVars
<1> SUFFICES ASSUME IInv, IInv', [Next]_vars
             PROVE  Lru!Next \/ UNCHANGED lruVars
  OBVIOUS
<1>1. ASSUME NEW key \in Keys, GetHit(key) \/ GetMiss(key)
      PROVE  Lru!Next
  BY <1>1, GetHitUses, GetExpiredExpires, GetAbsentMisses DEF GetMiss
<1>2. ASSUME NEW key \in Keys, NEW value \in Values, Insert(key, value)
      PROVE  Lru!Next
  BY <1>2, InsertReplaces, InsertAdds
<1>3. ASSUME NEW key \in Keys, NEW value \in Values, InsertDisabled(key, value)
      PROVE  UNCHANGED lruVars
  BY <1>3 DEF InsertDisabled, vars, lruVars, Lines, Excess, OverLimit
<1>4. CASE EvictOldest
  BY <1>4, EvictOldestStutters DEF EvictOldest, lruVars
<1>5. CASE EvictDone
  BY <1>5 DEF EvictDone, lruVars, Lines, Excess, OverLimit
<1>6. CASE Clear
  BY <1>6, ClearFlushes
<1>7. CASE Tick
  BY <1>7, TickElapses
<1>8. CASE UNCHANGED vars
  BY <1>8 DEF vars, lruVars, Lines, Excess, OverLimit
<1> QED
  BY <1>1, <1>2, <1>3, <1>4, <1>5, <1>6, <1>7, <1>8 DEF Next

\* The new cache has no lines.
LEMMA InitImplements == Init => Lru!Init
<1> SUFFICES ASSUME Init
             PROVE  Lru!Init
  OBVIOUS
<1>1. LinesKnown
  BY InitIInv, LinesFollow
<1>2. Len(recency) = 0
  BY DEF Init
<1>3. Lines \in Seq(LineSet) /\ Len(Lines) = 0
  BY <1>1, <1>2 DEF LinesKnown
<1>4. Lines = << >>
  BY <1>3, EmptySeq
<1> QED
  BY <1>4 DEF Init, Lru!Init

\* The cache of fs.rs, its map, its deque and its eviction loop, is a least
\* recently used cache with expiry whose operations are atomic, for any keys,
\* values, lifetimes and limits.
THEOREM ImplementsAnLru == Spec => ImplementsLru
<1>1. Lru!Init /\ [][Lru!Next]_lruVars => ImplementsLru
  BY PTL DEF ImplementsLru, Lru!Spec, lruVars
<1> QED
  BY <1>1, InitImplements, StepImplements, CacheInvariant, PTL DEF Spec

===============================================================================
