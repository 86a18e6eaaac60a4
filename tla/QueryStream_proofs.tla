-------------------------- MODULE QueryStream_proofs --------------------------
(***************************************************************************)
(* For any queries, calls, results and pools: the channels hold what they  *)
(* may, nobody keeps a connection while waiting for a reader to take an    *)
(* error or the last rows, what keeps a dropped one from the pool is an    *)
(* open reader or that no call runs, and every reader gets its result in   *)
(* order, with its error, up to the end or until it is dropped.            *)
(***************************************************************************)
EXTENDS QueryStream, FiniteSetTheorems, SequenceTheorems, TLAPS

-----------------------------------------------------------------------------
(***************************************************************************)
(* The inductive invariant.  What a worker has sent and where it is agree: *)
(* the schema it announced, the chunks it has passed on, and how it ended. *)
(***************************************************************************)

Chunks(q) == result[q].chunks
Fails(q) == result[q].fails

Typed == TypeOK /\ IsFiniteSet(conns)

\* The query cannot tell its reader anything but that it failed.
Refusable(q) == timedOut[q] \/ (Fails(q) /\ Chunks(q) = 0)

\* The place of a worker, the chunk it is at and the schema it announced.
AtPlace(q) ==
    /\ pc[q] \in {"idle", "acquire"} => next[q] = 1 /\ schema[q] = None
    /\ pc[q] = "fetch" =>
          /\ next[q] \in 1 .. Chunks(q) + 1
          /\ schema[q] = IF next[q] = 1 THEN None ELSE "schema"
    /\ pc[q] = "send" => next[q] \in 1 .. Chunks(q) /\ schema[q] = "schema"
    /\ pc[q] = "send last" =>
          next[q] = Batches(q) /\ Batches(q) > 0 /\ ~Fails(q) /\ schema[q] = "schema"
    /\ pc[q] \in {"acquire again", "describe"} =>
          Chunks(q) = 0 /\ ~Fails(q) /\ next[q] = 1 /\ schema[q] = None
    /\ pc[q] = "report" =>
          \/ next[q] = 1 /\ schema[q] = None /\ Refusable(q)
          \/ next[q] = Chunks(q) + 1 /\ Chunks(q) > 0 /\ Fails(q) /\ schema[q] = "schema"
    /\ pc[q] # "run"
    /\ schema[q] = "error" => pc[q] = "ended" /\ Refusable(q)

\* The i-th message of a query: a batch, or the error after the last one.
Message(q, i, m) ==
    \/ m = i /\ i <= Batches(q)
    \/ m = 0 /\ i = Batches(q) + 1 /\ Fails(q)

Messages(q) == Batches(q) + IF Fails(q) THEN 1 ELSE 0

\* What was received and what is in the channel are the messages up to where
\* the worker is.
InOrder(q) ==
    /\ \A i \in 1 .. Len(got[q]) : Message(q, i, got[q][i])
    /\ Dropped(q) => batches[q] = << >>
    /\ batches[q] # << >> => Message(q, Len(got[q]) + 1, batches[q][1])
    /\ ~Dropped(q) =>
          Len(got[q]) + Len(batches[q]) =
              IF pc[q] # "ended" THEN next[q] - 1
              ELSE IF schema[q] = "schema" THEN Messages(q) ELSE 0

ReaderKnows(q) == reader[q] \in {"open", "ended", "dropped"} => schema[q] = "schema"

QueryInv(q) == AtPlace(q) /\ InOrder(q) /\ ReaderKnows(q)

\* The places between taking a connection and dropping it.
Using == {"fetch", "send", "describe", "run"}

\* Exactly who is between the two has one.
HeldForUse == conns = { x \in Tasks : pc[x] \in Using }

IInv == Typed /\ HeldForUse /\ \A q \in Queries : QueryInv(q)

-----------------------------------------------------------------------------
(***************************************************************************)
(* Lemmas.                                                                 *)
(***************************************************************************)

LEMMA ResultTypes ==
    ASSUME TypeOK, NEW q \in Queries
    PROVE  /\ Chunks(q) \in 0 .. MaxChunks /\ Fails(q) \in BOOLEAN /\ result[q].short \in BOOLEAN
           /\ result[q].short => Chunks(q) > 0 /\ ~Fails(q)
           /\ Batches(q) \in 0 .. MaxChunks
           /\ Batches(q) = 0 <=> Chunks(q) = 0 /\ Fails(q)
           /\ Chunks(q) > 0 => Batches(q) = Chunks(q)
           /\ Chunks(q) = 0 /\ ~Fails(q) => Batches(q) = 1
           /\ Messages(q) = Batches(q) + (IF Fails(q) THEN 1 ELSE 0)
<1>1. result[q] \in Results
  BY DEF TypeOK
<1>2. Chunks(q) \in 0 .. MaxChunks /\ Fails(q) \in BOOLEAN /\ result[q].short \in BOOLEAN
  BY <1>1 DEF Results, Chunks, Fails
<1> QED
  BY <1>1, <1>2, MaxChunksAssumption DEF Results, Chunks, Fails, Batches, Messages

-----------------------------------------------------------------------------
(***************************************************************************)
(* A step of one query, or another call, changes nothing of the others.    *)
(***************************************************************************)

Untouched(p) ==
    /\ result'[p] = result[p]
    /\ pc'[p] = pc[p] /\ next'[p] = next[p]
    /\ schema'[p] = schema[p] /\ batches'[p] = batches[p]
    /\ reader'[p] = reader[p] /\ got'[p] = got[p] /\ timedOut'[p] = timedOut[p]

Reader(q) == Query(q) \/ Opened(q) \/ Receive(q) \/ ReceiveEnd(q) \/ Drop(q)

LEMMA OthersUntouched ==
    ASSUME TypeOK, NEW x,
           Worker(x) \/ Reader(x) \/ Other(x) \/ Begin(x),
           NEW p \in Queries \ {x}
    PROVE  Untouched(p)
<1> USE DEF TypeOK, Tasks, Untouched, Goto, channels
<1>1. CASE TakeCore(x)
  BY <1>1 DEF TakeCore
<1>2. CASE Fetch(x) \/ FetchTimesOut(x) \/ FetchSchema(x)
  BY <1>2 DEF Fetch, FetchTimesOut, FetchSchema, Acquire
<1>3. CASE FullChunk(x) \/ ShortChunk(x) \/ EmptyBatch(x)
  BY <1>3 DEF FullChunk, ShortChunk, EmptyBatch, SendSchema
<1>4. CASE Send(x) \/ SendLast(x) \/ Report(x)
  BY <1>4 DEF Send, SendLast, Report
<1>5. CASE Exhausted(x) \/ NoRows(x) \/ QueryFails(x)
  BY <1>5 DEF Exhausted, NoRows, QueryFails
<1>6. CASE Reader(x)
  BY <1>6 DEF Reader, Query, Opened, Receive, ReceiveEnd, Drop
<1>7. CASE Other(x) \/ Begin(x)
  BY <1>1, <1>7 DEF Other, Begin, OpAcquire, OpTimesOut, OpRun, Acquire
<1> QED
  BY <1>1, <1>2, <1>3, <1>4, <1>5, <1>6, <1>7 DEF Worker

LEMMA UntouchedKeeps ==
    ASSUME NEW p \in Queries, QueryInv(p), Untouched(p)
    PROVE  QueryInv(p)'
BY DEF QueryInv, AtPlace, InOrder, ReaderKnows, Message, Messages, Refusable, Chunks, Fails,
       Batches, Dropped, Untouched

-----------------------------------------------------------------------------
(***************************************************************************)
(* A step of a query keeps to its result.                                  *)
(***************************************************************************)

\* What depends on the result only.
LEMMA ResultFixed ==
    ASSUME result' = result, NEW q \in Queries
    PROVE  /\ Chunks(q)' = Chunks(q) /\ Fails(q)' = Fails(q)
           /\ Batches(q)' = Batches(q) /\ Messages(q)' = Messages(q)
           /\ \A i, m : Message(q, i, m)' = Message(q, i, m)
BY DEF Chunks, Fails, Batches, Messages, Message

\* The worker moves, and neither sends nor ends.
LEMMA MovingKeeps ==
    ASSUME TypeOK, NEW q \in Queries, QueryInv(q),
           result' = result, UNCHANGED <<next, batches, reader, got>>,
           pc[q] # "ended", pc'[q] # "ended",
           schema'[q] = schema[q] \/ schema'[q] = "schema",
           AtPlace(q)'
    PROVE  QueryInv(q)'
<1>1. InOrder(q)'
  BY ResultFixed DEF QueryInv, InOrder, Dropped
<1>2. ReaderKnows(q)'
  BY DEF QueryInv, ReaderKnows
<1> QED
  BY <1>1, <1>2 DEF QueryInv

\* The schema is announced before the first chunk, and stays.
LEMMA SchemaAnnounced ==
    ASSUME TypeOK, NEW q \in Queries, AtPlace(q), pc[q] \in {"fetch", "describe"}, SendSchema(q)
    PROVE  schema'[q] = "schema"
BY DEF TypeOK, AtPlace, SendSchema

\* The worker's steps between two sends.
LEMMA MovesKeepTheResult ==
    ASSUME TypeOK, NEW q \in Queries, QueryInv(q),
           \/ Fetch(q) \/ FetchSchema(q) \/ FetchTimesOut(q)
           \/ FullChunk(q) \/ ShortChunk(q) \/ NoRows(q) \/ EmptyBatch(q) \/ QueryFails(q)
    PROVE  QueryInv(q)'
<1>1. result' = result /\ UNCHANGED <<next, batches, reader, got>>
  BY DEF Fetch, FetchSchema, FetchTimesOut, FullChunk, ShortChunk, NoRows, EmptyBatch,
         QueryFails, Acquire, channels
<1>2. timedOut[q] => timedOut'[q]
  BY DEF Fetch, FetchSchema, FetchTimesOut, FullChunk, ShortChunk, NoRows, EmptyBatch,
         QueryFails, Acquire, TypeOK
<1>3. Refusable(q) => Refusable(q)'
  BY <1>1, <1>2, ResultFixed DEF Refusable
<1>4. CASE Fetch(q)
  <2>1. pc[q] = "acquire" /\ pc'[q] = "fetch" /\ schema'[q] = schema[q]
    BY <1>4, TasksAssumption
       DEF Fetch, Acquire, Goto, TypeOK, Tasks, channels, Chunks, Fails
  <2>2. AtPlace(q)'
    BY <1>1, <1>3, <2>1, ResultFixed, ResultTypes, TasksAssumption
       DEF QueryInv, AtPlace, Refusable
  <2> QED
    BY <1>1, <2>1, <2>2, MovingKeeps
<1>5. CASE FetchSchema(q)
  <2>1. pc[q] = "acquire again" /\ pc'[q] = "describe" /\ schema'[q] = schema[q]
    BY <1>5, TasksAssumption
       DEF FetchSchema, Acquire, Goto, TypeOK, Tasks, channels, Chunks, Fails
  <2>2. AtPlace(q)'
    BY <1>1, <1>3, <2>1, ResultFixed, ResultTypes, TasksAssumption
       DEF QueryInv, AtPlace, Refusable
  <2> QED
    BY <1>1, <2>1, <2>2, MovingKeeps
<1>6. CASE FetchTimesOut(q)
  <2>1. /\ pc[q] \in {"acquire", "acquire again"} /\ pc'[q] = "report"
        /\ schema'[q] = schema[q] /\ timedOut'[q]
    BY <1>6, TasksAssumption
       DEF FetchTimesOut, Acquire, Goto, TypeOK, Tasks, channels, Chunks, Fails
  <2>2. AtPlace(q)'
    BY <1>1, <1>3, <2>1, ResultFixed, ResultTypes, TasksAssumption
       DEF QueryInv, AtPlace, Refusable
  <2> QED
    BY <1>1, <2>1, <2>2, MovingKeeps
<1>7. CASE FullChunk(q)
  <2>1. /\ pc[q] = "fetch" /\ pc'[q] = "send" /\ schema'[q] = "schema"
        /\ next[q] <= Chunks(q)
    BY <1>7, SchemaAnnounced, TasksAssumption
       DEF FullChunk, Acquire, Goto, TypeOK, Tasks, channels, Chunks, Fails, QueryInv
  <2>2. AtPlace(q)'
    BY <1>1, <1>3, <2>1, ResultFixed, ResultTypes, TasksAssumption
       DEF QueryInv, AtPlace, Refusable
  <2> QED
    BY <1>1, <2>1, <2>2, MovingKeeps
<1>8. CASE ShortChunk(q)
  <2>1. /\ pc[q] = "fetch" /\ pc'[q] = "send last" /\ schema'[q] = "schema"
        /\ result[q].short /\ next[q] = Chunks(q)
    BY <1>8, SchemaAnnounced, TasksAssumption
       DEF ShortChunk, Acquire, Goto, TypeOK, Tasks, channels, Chunks, Fails, QueryInv
  <2>2. AtPlace(q)'
    BY <1>1, <1>3, <2>1, ResultFixed, ResultTypes, TasksAssumption
       DEF QueryInv, AtPlace, Refusable
  <2> QED
    BY <1>1, <2>1, <2>2, MovingKeeps
<1>9. CASE NoRows(q)
  <2>1. /\ pc[q] = "fetch" /\ pc'[q] = "acquire again" /\ schema'[q] = schema[q]
        /\ Chunks(q) = 0 /\ ~Fails(q)
    BY <1>9, TasksAssumption
       DEF NoRows, Acquire, Goto, TypeOK, Tasks, channels, Chunks, Fails
  <2>2. Chunks(q) = 0 /\ next[q] \in 1 .. Chunks(q) + 1
    BY <2>1 DEF QueryInv, AtPlace
  <2>3. next[q] = 1
    BY <2>2
  <2>4. schema[q] = None
    BY <2>1, <2>3 DEF QueryInv, AtPlace
  <2>5. AtPlace(q)'
    BY <1>1, <1>3, <2>1, <2>3, <2>4, ResultFixed, ResultTypes, TasksAssumption
       DEF QueryInv, AtPlace, Refusable
  <2> QED
    BY <1>1, <2>1, <2>5, MovingKeeps
<1>10. CASE EmptyBatch(q)
  <2>1. pc[q] = "describe" /\ pc'[q] = "send last" /\ schema'[q] = "schema"
    BY <1>10, SchemaAnnounced, TasksAssumption
       DEF EmptyBatch, Acquire, Goto, TypeOK, Tasks, channels, Chunks, Fails, QueryInv
  <2>2. next[q] = 1 /\ next'[q] = 1 /\ Batches(q) = 1 /\ ~Fails(q)
    BY <1>1, <2>1, ResultTypes DEF QueryInv, AtPlace
  <2>3. next'[q] = Batches(q)' /\ Batches(q)' > 0
    BY <1>1, <2>2, ResultFixed
  <2>4. ~Fails(q)'
    BY <1>1, <2>2, ResultFixed
  <2>5. AtPlace(q)'
    BY <2>1, <2>3, <2>4 DEF AtPlace
  <2> QED
    BY <1>1, <2>1, <2>5, MovingKeeps
<1>11. CASE QueryFails(q)
  <2>1. /\ pc[q] = "fetch" /\ pc'[q] = "report" /\ schema'[q] = schema[q]
        /\ next[q] > Chunks(q) /\ Fails(q)
    BY <1>11, TasksAssumption
       DEF QueryFails, Acquire, Goto, TypeOK, Tasks, channels, Chunks, Fails
  <2>2. AtPlace(q)'
    BY <1>1, <1>3, <2>1, ResultFixed, ResultTypes, TasksAssumption
       DEF QueryInv, AtPlace, Refusable
  <2> QED
    BY <1>1, <2>1, <2>2, MovingKeeps
<1> QED
  BY <1>4, <1>5, <1>6, <1>7, <1>8, <1>9, <1>10, <1>11

\* A message that goes into the channel is the next one.
LEMMA SentInOrder ==
    ASSUME TypeOK, NEW q \in Queries, QueryInv(q), NEW m,
           ~Dropped(q), batches[q] = << >>, batches'[q] = Append(batches[q], m),
           Message(q, Len(got[q]) + 1, m),
           result' = result, UNCHANGED <<reader, got>>,
           Len(got[q]) + 1 =
               IF pc'[q] # "ended" THEN next'[q] - 1
               ELSE IF schema'[q] = "schema" THEN Messages(q) ELSE 0
    PROVE  InOrder(q)'
<1>1. batches'[q] = <<m>> /\ Len(batches'[q]) = 1 /\ batches'[q][1] = m
  OBVIOUS
<1>2. Messages(q)' = Messages(q) /\ \A i, n : Message(q, i, n)' = Message(q, i, n)
  BY ResultFixed
<1>3. ~Dropped(q)'
  BY DEF Dropped
<1>4. \A i \in 1 .. Len(got[q]) : Message(q, i, got[q][i])'
  BY <1>2 DEF QueryInv, InOrder
<1>5. Message(q, Len(got[q]) + 1, batches[q][1])'
  BY <1>1, <1>2
<1>6. Len(got[q]) \in Nat
  BY LenProperties DEF TypeOK
<1> QED
  BY <1>1, <1>2, <1>3, <1>4, <1>5, <1>6 DEF InOrder

\* Nothing goes into the channel.
LEMMA UnsentInOrder ==
    ASSUME TypeOK, NEW q \in Queries, QueryInv(q),
           result' = result, UNCHANGED <<reader, got>>, batches'[q] = batches[q],
           ~Dropped(q) =>
               Len(got[q]) + Len(batches[q]) =
                   IF pc'[q] # "ended" THEN next'[q] - 1
                   ELSE IF schema'[q] = "schema" THEN Messages(q) ELSE 0
    PROVE  InOrder(q)'
BY ResultFixed DEF QueryInv, InOrder, Dropped

\* How far the messages have come.
LEMMA Position ==
    ASSUME TypeOK, NEW q \in Queries, QueryInv(q), ~Dropped(q), pc[q] # "ended"
    PROVE  /\ Len(got[q]) \in Nat /\ Len(batches[q]) \in Nat
           /\ Len(got[q]) + Len(batches[q]) = next[q] - 1
           /\ batches[q] = << >> => Len(got[q]) + 1 = next[q]
<1>1. Len(got[q]) \in Nat /\ Len(batches[q]) \in Nat
  <2>1. got[q] \in Seq(0 .. MaxChunks) /\ batches[q] \in Seq(0 .. MaxChunks)
    BY DEF TypeOK
  <2> QED
    BY <2>1, LenProperties
<1>2. Len(got[q]) + Len(batches[q]) = next[q] - 1
  BY DEF QueryInv, InOrder
<1>3. batches[q] = << >> => Len(batches[q]) = 0
  OBVIOUS
<1>4. next[q] \in Nat
  <2>1. next[q] \in 1 .. MaxChunks + 1
    BY DEF TypeOK
  <2> QED
    BY <2>1, MaxChunksAssumption
<1>5. ASSUME batches[q] = << >>
      PROVE  Len(got[q]) + 1 = next[q]
  BY <1>1, <1>2, <1>3, <1>4, <1>5
<1> QED
  BY <1>1, <1>2, <1>5

\* Sending a chunk with more to come.
LEMMA SendKeeps ==
    ASSUME TypeOK, NEW q \in Queries, QueryInv(q), Send(q)
    PROVE  QueryInv(q)'
<1>1. /\ pc[q] = "send" /\ pc'[q] = IF Dropped(q) THEN "ended" ELSE "fetch"
      /\ next'[q] = next[q] + 1
      /\ result' = result /\ UNCHANGED <<schema, reader, got, timedOut>>
      /\ Dropped(q) => batches' = batches
      /\ ~Dropped(q) => batches[q] = << >> /\ batches'[q] = Append(batches[q], next[q])
  BY DEF Send, Goto, CanSend, TypeOK, Tasks
<1>2. next[q] \in 1 .. Chunks(q) /\ schema[q] = "schema" /\ Chunks(q) \in Nat
  BY <1>1, ResultTypes DEF QueryInv, AtPlace
<1>3. AtPlace(q)'
  <2>1. next'[q] \in 1 .. Chunks(q)' + 1 /\ next'[q] # 1
    BY <1>1, <1>2, ResultFixed
  <2> QED
    BY <1>1, <1>2, <2>1 DEF AtPlace
<1>4. InOrder(q)'
  <2>1. CASE Dropped(q)
    BY <1>1, <2>1, UnsentInOrder
  <2>2. CASE ~Dropped(q)
    <3>1. Len(got[q]) \in Nat /\ Len(got[q]) + 1 = next[q]
      BY <1>1, <2>2, Position
    <3>2. Message(q, next[q], next[q])
      BY <1>2, ResultTypes DEF Message
    <3>3. pc'[q] # "ended" /\ Len(got[q]) + 1 = next'[q] - 1
      BY <1>1, <1>2, <2>2, <3>1
    <3> QED
      BY <1>1, <2>2, <3>1, <3>2, <3>3, SentInOrder
  <2> QED
    BY <2>1, <2>2
<1>5. ReaderKnows(q)'
  BY <1>1, <1>2 DEF ReaderKnows
<1> QED
  BY <1>3, <1>4, <1>5 DEF QueryInv

\* Sending the last chunk.
LEMMA SendLastKeeps ==
    ASSUME TypeOK, NEW q \in Queries, QueryInv(q), SendLast(q)
    PROVE  QueryInv(q)'
<1>1. /\ pc[q] = "send last" /\ pc'[q] = "ended"
      /\ result' = result /\ UNCHANGED <<next, schema, reader, got, timedOut>>
      /\ Dropped(q) => batches' = batches
      /\ ~Dropped(q) => batches[q] = << >> /\ batches'[q] = Append(batches[q], next[q])
  BY DEF SendLast, Goto, CanSend, TypeOK, Tasks
<1>2. next[q] = Batches(q) /\ schema[q] = "schema" /\ Batches(q) \in Nat
  <2>1. next[q] = Batches(q) /\ schema[q] = "schema"
    BY <1>1 DEF QueryInv, AtPlace
  <2> QED
    BY <2>1, ResultTypes
<1>3. Messages(q) = Batches(q)
  <2>1. ~Fails(q)
    BY <1>1 DEF QueryInv, AtPlace
  <2> QED
    BY <2>1, ResultTypes
<1>4. AtPlace(q)'
  BY <1>1, <1>2 DEF AtPlace
<1>5. InOrder(q)'
  <2>1. CASE Dropped(q)
    BY <1>1, <2>1, UnsentInOrder
  <2>2. CASE ~Dropped(q)
    <3>1. Len(got[q]) \in Nat /\ Len(got[q]) + 1 = next[q]
      BY <1>1, <2>2, Position
    <3>2. Message(q, next[q], next[q])
      BY <1>2 DEF Message
    <3> QED
      BY <1>1, <1>2, <1>3, <2>2, <3>1, <3>2, SentInOrder
  <2> QED
    BY <2>1, <2>2
<1>6. ReaderKnows(q)'
  BY <1>1, <1>2 DEF ReaderKnows
<1> QED
  BY <1>4, <1>5, <1>6 DEF QueryInv

\* The rows end, and every chunk was sent.
LEMMA ExhaustedKeeps ==
    ASSUME TypeOK, NEW q \in Queries, QueryInv(q), Exhausted(q)
    PROVE  QueryInv(q)'
<1>1. /\ pc[q] = "fetch" /\ pc'[q] = "ended"
      /\ result' = result /\ UNCHANGED <<next, schema, batches, reader, got, timedOut>>
      /\ next[q] > Chunks(q) /\ next[q] > 1
  BY DEF Exhausted, Goto, TypeOK, Tasks, channels, Chunks
<1>2. ~Fails(q)
  BY DEF Exhausted, Fails
<1>3. next[q] \in 1 .. Chunks(q) + 1 /\ Chunks(q) \in Nat
  BY <1>1, ResultTypes DEF QueryInv, AtPlace
<1>4. schema[q] = "schema"
  BY <1>1 DEF QueryInv, AtPlace
<1>5. next[q] = Chunks(q) + 1 /\ Chunks(q) > 0
  BY <1>1, <1>3
<1>6. Messages(q) = next[q] - 1
  BY <1>2, <1>3, <1>5, ResultTypes
<1>7. AtPlace(q)'
  BY <1>1, <1>4 DEF AtPlace
<1>8. InOrder(q)'
  BY <1>1, <1>4, <1>6, Position, UnsentInOrder
<1>9. ReaderKnows(q)'
  BY <1>1, <1>4 DEF ReaderKnows
<1> QED
  BY <1>7, <1>8, <1>9 DEF QueryInv

\* An error is sent for the schema, or after the chunks.
LEMMA ReportKeeps ==
    ASSUME TypeOK, NEW q \in Queries, QueryInv(q), Report(q)
    PROVE  QueryInv(q)'
<1>1. /\ pc[q] = "report" /\ pc'[q] = "ended"
      /\ result' = result /\ UNCHANGED <<next, reader, got, timedOut>>
  BY DEF Report, Goto, TypeOK, Tasks
<1>2. CASE schema[q] = None
  <2>1. schema'[q] = "error" /\ batches' = batches
    BY <1>2 DEF Report, TypeOK
  <2>2. next[q] = 1 /\ Refusable(q) /\ reader[q] \notin {"open", "ended", "dropped"}
    BY <1>1, <1>2, TasksAssumption DEF QueryInv, AtPlace, ReaderKnows
  <2>3. Refusable(q)'
    BY <1>1, <2>2, ResultFixed DEF Refusable
  <2>4. AtPlace(q)'
    BY <1>1, <2>1, <2>3 DEF AtPlace
  <2>5. Len(got[q]) + Len(batches[q]) = 0
    <3>1. ~Dropped(q)
      BY <2>2 DEF Dropped
    <3>2. pc[q] # "ended"
      BY <1>1
    <3>3. Len(got[q]) + Len(batches[q]) = next[q] - 1
      BY <3>1, <3>2, Position
    <3>4. next[q] = 1
      BY <2>2
    <3>5. next[q] - 1 = 0
      BY <3>4
    <3> QED
      BY <3>3, <3>5
  <2>6. InOrder(q)'
    BY <1>1, <2>1, <2>5, UnsentInOrder
  <2>7. ReaderKnows(q)'
    BY <1>1, <2>2 DEF ReaderKnows
  <2> QED
    BY <2>4, <2>6, <2>7 DEF QueryInv
<1>3. CASE schema[q] # None
  <2>1. /\ schema' = schema
        /\ Dropped(q) => batches' = batches
        /\ ~Dropped(q) => batches[q] = << >> /\ batches'[q] = Append(batches[q], 0)
    BY <1>3 DEF Report, CanSend, TypeOK
  <2>2. next[q] = Chunks(q) + 1 /\ Chunks(q) > 0 /\ schema[q] = "schema"
    BY <1>1, <1>3 DEF QueryInv, AtPlace
  <2>3. Fails(q)
    BY <1>1, <1>3 DEF QueryInv, AtPlace
  <2>4. Batches(q) = Chunks(q) /\ Messages(q) = next[q] /\ next[q] = Batches(q) + 1
    BY <2>2, <2>3, ResultTypes
  <2>5. AtPlace(q)'
    BY <1>1, <2>1, <2>2 DEF AtPlace
  <2>6. InOrder(q)'
    <3>1. CASE Dropped(q)
      BY <1>1, <2>1, <3>1, UnsentInOrder
    <3>2. CASE ~Dropped(q)
      <4>1. Len(got[q]) \in Nat /\ Len(got[q]) + 1 = next[q]
        BY <1>1, <2>1, <3>2, Position
      <4>2. Message(q, next[q], 0)
        BY <2>3, <2>4 DEF Message
      <4>3. pc'[q] = "ended" /\ schema'[q] = "schema" /\ Len(got[q]) + 1 = Messages(q)
        BY <1>1, <2>1, <2>2, <2>4, <4>1
      <4> QED
        BY <1>1, <2>1, <3>2, <4>1, <4>2, <4>3, SentInOrder
    <3> QED
      BY <3>1, <3>2
  <2>7. ReaderKnows(q)'
    BY <2>1, <2>2 DEF ReaderKnows
  <2> QED
    BY <2>5, <2>6, <2>7 DEF QueryInv
<1> QED
  BY <1>2, <1>3

\* Starting the query, and the end of its opening.
LEMMA OpeningKeeps ==
    ASSUME TypeOK, NEW q \in Queries, QueryInv(q), Query(q) \/ Opened(q)
    PROVE  QueryInv(q)'
<1>1. /\ result' = result /\ UNCHANGED <<next, schema, batches, got, timedOut>>
      /\ ~Dropped(q)
  BY DEF Query, Opened, Dropped
<1>2. Refusable(q)' = Refusable(q)
  BY <1>1, ResultFixed DEF Refusable
<1>3. \/ pc' = pc
      \/ pc[q] = "idle" /\ pc'[q] = "acquire"
  BY DEF Query, Opened, Goto, TypeOK, Tasks
<1>4. AtPlace(q)'
  BY <1>1, <1>2, <1>3, ResultFixed DEF QueryInv, AtPlace
<1>5. ~Dropped(q)' /\ (pc'[q] = "ended" <=> pc[q] = "ended")
  <2>1. ~Dropped(q)'
    BY DEF Query, Opened, Dropped, TypeOK
  <2> QED
    BY <1>3, <2>1
<1>6. InOrder(q)'
  BY <1>1, <1>5, ResultFixed DEF QueryInv, InOrder
<1>7. ReaderKnows(q)'
  BY <1>1 DEF Query, Opened, QueryInv, ReaderKnows, TypeOK
<1> QED
  BY <1>4, <1>6, <1>7 DEF QueryInv

\* What is in the channel is the last message sent, and is received next.
LEMMA ReceiveKeeps ==
    ASSUME TypeOK, NEW q \in Queries, QueryInv(q), Receive(q)
    PROVE  QueryInv(q)'
<1>1. /\ result' = result /\ UNCHANGED <<pc, next, schema, reader, timedOut>>
      /\ ~Dropped(q) /\ batches[q] # << >>
      /\ got'[q] = Append(got[q], Head(batches[q])) /\ batches'[q] = Tail(batches[q])
  BY DEF Receive, Dropped, TypeOK
<1>2. got[q] \in Seq(0 .. MaxChunks) /\ batches[q] \in Seq(0 .. MaxChunks)
      /\ Len(batches[q]) <= 1
  BY DEF TypeOK
<1>3. Head(batches[q]) = batches[q][1] /\ batches'[q] = << >> /\ Len(batches[q]) = 1
  <2>1. batches[q] \in Seq(0 .. MaxChunks) /\ Len(batches[q]) <= 1
    BY <1>2
  <2>2. Len(batches[q]) \in Nat /\ Len(batches[q]) # 0
    BY <1>1, <2>1, EmptySeq
  <2>3. Len(batches[q]) = 1
    <3>1. \A n \in Nat : n # 0 /\ n <= 1 => n = 1
      OBVIOUS
    <3> QED
      BY <2>1, <2>2, <3>1
  <2>4. Head(batches[q]) = batches[q][1]
    BY <1>2, <2>1
  <2>5. Tail(batches[q]) \in Seq(0 .. MaxChunks) /\ Len(Tail(batches[q])) = Len(batches[q]) - 1
    BY <1>1, <1>2, HeadTailProperties
  <2>6. Len(Tail(batches[q])) = 0
    BY <2>3, <2>5
  <2>7. Tail(batches[q]) = << >>
    BY <2>5, <2>6, EmptySeq
  <2> QED
    BY <1>1, <2>3, <2>4, <2>7
<1>4. Len(got'[q]) = Len(got[q]) + 1 /\ Len(got[q]) \in Nat /\ Len(batches'[q]) = 0
  BY <1>1, <1>2, <1>3
<1>5. \A i \in 1 .. Len(got[q]) + 1 : Message(q, i, got'[q][i])
  <2> SUFFICES ASSUME NEW i \in 1 .. Len(got[q]) + 1
               PROVE  Message(q, i, got'[q][i])
    OBVIOUS
  <2>1. CASE i \in 1 .. Len(got[q])
    BY <1>1, <1>2, <2>1 DEF QueryInv, InOrder
  <2>2. CASE i = Len(got[q]) + 1
    <3>1. got'[q][i] = batches[q][1]
      BY <1>1, <1>2, <1>3, <2>2
    <3> QED
      BY <1>1, <2>2, <3>1 DEF QueryInv, InOrder
  <2> QED
    BY <1>4, <2>1, <2>2
<1>6. Refusable(q)' = Refusable(q)
  BY <1>1, ResultFixed DEF Refusable
<1>7. AtPlace(q)'
  BY <1>1, <1>6, ResultFixed DEF QueryInv, AtPlace
<1>8. Len(got'[q]) + Len(batches'[q]) = Len(got[q]) + Len(batches[q])
  BY <1>3, <1>4
<1>9. InOrder(q)'
  <2>1. \A i \in 1 .. Len(got'[q]) : Message(q, i, got[q][i])'
    BY <1>1, <1>4, <1>5, ResultFixed
  <2> QED
    BY <1>1, <1>3, <1>8, <2>1, ResultFixed DEF QueryInv, InOrder, Dropped
<1>10. ReaderKnows(q)'
  BY <1>1 DEF QueryInv, ReaderKnows
<1> QED
  BY <1>7, <1>9, <1>10 DEF QueryInv

\* The reader stops, and what the channel holds goes with it.
LEMMA LeavingKeeps ==
    ASSUME TypeOK, NEW q \in Queries, QueryInv(q), ReceiveEnd(q) \/ Drop(q)
    PROVE  QueryInv(q)'
<1>1. result' = result /\ UNCHANGED <<pc, next, schema, got, timedOut>>
  BY DEF ReceiveEnd, Drop
<1>2. Refusable(q)' = Refusable(q)
  BY <1>1, ResultFixed DEF Refusable
<1>3. AtPlace(q)'
  BY <1>1, <1>2, ResultFixed DEF QueryInv, AtPlace
<1>4. ReaderKnows(q)'
  BY <1>1 DEF ReceiveEnd, Drop, QueryInv, ReaderKnows, TypeOK
<1>5. InOrder(q)'
  <2>1. CASE ReceiveEnd(q)
    <3>1. batches' = batches /\ ~Dropped(q) /\ ~Dropped(q)'
      BY <2>1 DEF ReceiveEnd, Dropped, TypeOK
    <3> QED
      BY <1>1, <3>1, ResultFixed DEF QueryInv, InOrder
  <2>2. CASE Drop(q)
    <3>1. batches'[q] = << >> /\ Dropped(q)'
      BY <2>2 DEF Drop, Dropped, TypeOK
    <3> QED
      BY <1>1, <3>1, ResultFixed DEF QueryInv, InOrder
  <2> QED
    BY <2>1, <2>2
<1> QED
  BY <1>3, <1>4, <1>5 DEF QueryInv

-----------------------------------------------------------------------------
(***************************************************************************)
(* Types, and who has a connection.                                        *)
(***************************************************************************)

Held ==
    /\ pool \in Pools
    /\ IsFiniteSet(conns)
    /\ returning \in Nat
    /\ Cardinality(conns) + returning <= pool.connections
    /\ conns \subseteq Tasks

Placed ==
    /\ result \in [Queries -> Results]
    /\ pc \in [Tasks -> {"idle", "acquire", "fetch", "send", "send last", "acquire again",
                         "describe", "run", "report", "ended"}]
    /\ next \in [Queries -> 1 .. MaxChunks + 1]
    /\ core \in Tasks \cup {None}
    /\ schema \in [Queries -> {None, "schema", "error"}]
    /\ reader \in [Queries -> {"none", "opening", "open", "ended", "refused", "dropped"}]
    /\ timedOut \in [Queries -> BOOLEAN]

Carried ==
    /\ batches \in [Queries -> Seq(0 .. MaxChunks)]
    /\ \A q \in Queries : Len(batches[q]) <= 1
    /\ got \in [Queries -> Seq(0 .. MaxChunks)]

LEMMA TypedParts ==
    /\ Typed <=> Held /\ Placed /\ Carried
    /\ Held' /\ Placed' /\ Carried' => Typed'
BY DEF Typed, TypeOK, Held, Placed, Carried

\* Connections are taken from those that are free, and dropped by who has one.
LEMMA HeldKept ==
    ASSUME Held, NEW x \in Tasks, pool' = pool,
           \/ UNCHANGED <<conns, returning>>
           \/ x \in conns /\ Release(x)
           \/ conns' = conns \cup {x} /\ returning' = returning /\ FreeConnection
    PROVE  Held'
<1>1. pool.connections \in Nat /\ Cardinality(conns) \in Nat /\ returning \in Nat
  BY PoolsAssumption, FS_CardinalityType DEF Held
<1>2. CASE UNCHANGED <<conns, returning>>
  BY <1>2 DEF Held
<1>3. CASE x \in conns /\ Release(x)
  <2>1. IsFiniteSet(conns') /\ Cardinality(conns') = Cardinality(conns) - 1
    BY <1>3, FS_RemoveElement DEF Held, Release
  <2>2. Cardinality(conns') + returning' <= pool.connections
    BY <1>1, <1>3, <2>1 DEF Held, Release
  <2> QED
    BY <1>1, <1>3, <2>1, <2>2 DEF Held, Release
<1>4. CASE conns' = conns \cup {x} /\ returning' = returning /\ FreeConnection
  <2>1. IsFiniteSet(conns') /\ Cardinality(conns') <= Cardinality(conns) + 1
    <3>1. IsFiniteSet(conns')
      BY <1>4, FS_AddElement DEF Held
    <3>2. Cardinality(conns') = IF x \in conns THEN Cardinality(conns)
                                ELSE Cardinality(conns) + 1
      BY <1>4, FS_AddElement DEF Held
    <3> QED
      BY <1>1, <3>1, <3>2
  <2>2. Cardinality(conns') \in Nat
    BY <2>1, FS_CardinalityType
  <2>3. Cardinality(conns') + returning' <= pool.connections
    BY <1>1, <1>4, <2>1, <2>2 DEF FreeConnection
  <2> QED
    BY <1>4, <2>1, <2>3 DEF Held
<1> QED
  BY <1>2, <1>3, <1>4

\* Who comes to a place of use takes a connection, and who leaves them drops it.
LEMMA UsedKept ==
    ASSUME Typed, HeldForUse, NEW x \in Tasks, NEW a, NEW b, Goto(x, a, b),
           \/ conns' = conns /\ (a \in Using <=> b \in Using)
           \/ conns' = conns \ {x} /\ b \notin Using
           \/ conns' = conns \cup {x} /\ b \in Using
    PROVE  HeldForUse'
<1>1. pc[x] = a /\ pc'[x] = b /\ \A y \in Tasks \ {x} : pc'[y] = pc[y]
  BY DEF Goto, Typed, TypeOK
<1>2. \A y \in conns' : y \in Tasks
  BY DEF HeldForUse
<1>3. \A y \in Tasks : y \in conns' <=> pc'[y] \in Using
  BY <1>1 DEF HeldForUse
<1> QED
  BY <1>2, <1>3 DEF HeldForUse

\* Who asks for a connection has none, and gets one if one is free.
LEMMA AcquireKeeps ==
    ASSUME Typed, HeldForUse, NEW x \in Tasks, NEW a,
           NEW b \in {"fetch", "describe", "run"}, Acquire(x, a, b)
    PROVE  Typed' /\ HeldForUse'
<1>1. Held'
  BY HeldKept, TypedParts DEF Acquire
<1>2. Placed' /\ Carried'
  BY TypedParts DEF Acquire, Goto, Placed, Carried, channels
<1>3. HeldForUse'
  BY UsedKept DEF Acquire, Using
<1> QED
  BY <1>1, <1>2, <1>3, TypedParts

\* The steps of a worker that send nothing.
LEMMA MovesKeepTypes ==
    ASSUME Typed, HeldForUse, NEW q \in Queries,
           \/ FetchTimesOut(q) \/ FullChunk(q) \/ ShortChunk(q) \/ NoRows(q) \/ EmptyBatch(q)
           \/ QueryFails(q) \/ Exhausted(q)
    PROVE  Typed' /\ HeldForUse'
<1> USE DEF Goto, channels, LeaveRuntime, TimesOut
<1>0. q \in Tasks
  BY DEF Tasks
<1>1. Held'
  <2>1. CASE FetchTimesOut(q) \/ FullChunk(q)
    BY <1>0, <2>1, HeldKept, TypedParts DEF FetchTimesOut, FullChunk
  <2>2. CASE ShortChunk(q) \/ NoRows(q) \/ EmptyBatch(q) \/ QueryFails(q) \/ Exhausted(q)
    <3>1. pc[q] \in Using /\ pool' = pool /\ Release(q)
      BY <2>2 DEF ShortChunk, NoRows, EmptyBatch, QueryFails, Exhausted, Using
    <3>2. q \in conns
      BY <1>0, <3>1 DEF HeldForUse
    <3> QED
      BY <1>0, <3>1, <3>2, HeldKept, TypedParts
  <2> QED
    BY <2>1, <2>2
<1>2. Carried'
  BY TypedParts
     DEF FetchTimesOut, FullChunk, ShortChunk, NoRows, EmptyBatch, QueryFails, Exhausted, Release,
         Carried
<1>3. Placed'
  <2>1. CASE FetchTimesOut(q) \/ NoRows(q) \/ QueryFails(q) \/ Exhausted(q)
    BY <2>1, TypedParts DEF FetchTimesOut, NoRows, QueryFails, Exhausted, Placed
  <2>2. CASE FullChunk(q) \/ ShortChunk(q) \/ EmptyBatch(q)
    BY <2>2, TypedParts DEF FullChunk, ShortChunk, EmptyBatch, SendSchema, Placed
  <2> QED
    BY <2>1, <2>2
<1>4. HeldForUse'
  <2> USE DEF Using, Release
  <2>1. CASE FetchTimesOut(q)
    <3>1. PICK a \in {"acquire", "acquire again"} : Goto(q, a, "report")
      BY <2>1 DEF FetchTimesOut
    <3>2. conns' = conns
      BY <2>1 DEF FetchTimesOut
    <3> QED
      BY <1>0, <3>1, <3>2, UsedKept
  <2>2. CASE FullChunk(q)
    BY <1>0, <2>2, UsedKept DEF FullChunk
  <2>3. CASE ShortChunk(q)
    BY <1>0, <2>3, UsedKept DEF ShortChunk
  <2>4. CASE NoRows(q)
    BY <1>0, <2>4, UsedKept DEF NoRows
  <2>5. CASE EmptyBatch(q)
    BY <1>0, <2>5, UsedKept DEF EmptyBatch
  <2>6. CASE QueryFails(q)
    BY <1>0, <2>6, UsedKept DEF QueryFails
  <2>7. CASE Exhausted(q)
    BY <1>0, <2>7, UsedKept DEF Exhausted
  <2> QED
    BY <2>1, <2>2, <2>3, <2>4, <2>5, <2>6, <2>7
<1> QED
  BY <1>1, <1>2, <1>3, <1>4, TypedParts

\* The steps that send.
LEMMA SendsKeepTypes ==
    ASSUME Typed, HeldForUse, NEW q \in Queries, QueryInv(q),
           Send(q) \/ SendLast(q) \/ Report(q)
    PROVE  Typed' /\ HeldForUse'
<1> USE DEF Goto, LeaveRuntime
<1>0. q \in Tasks
  BY DEF Tasks
<1>1. Held'
  <2>1. \/ UNCHANGED <<conns, returning>>
        \/ pc[q] = "send" /\ Release(q)
    BY DEF Send, SendLast, Report
  <2>2. pool' = pool
    BY DEF Send, SendLast, Report
  <2>3. pc[q] = "send" => q \in conns
    BY <1>0 DEF HeldForUse, Using
  <2> QED
    BY <1>0, <2>1, <2>2, <2>3, HeldKept, TypedParts
<1>2. TypeOK
  BY DEF Typed
<1>3. \/ batches' = batches
      \/ \E m \in 0 .. MaxChunks :
            batches[q] = << >> /\ batches' = [batches EXCEPT ![q] = Append(@, m)]
  <2>1. CASE Send(q)
    <3>1. next[q] \in 0 .. MaxChunks
      <4>1. next[q] \in 1 .. Chunks(q)
        BY <2>1 DEF Send, QueryInv, AtPlace
      <4>2. Chunks(q) \in 0 .. MaxChunks
        BY <1>2, ResultTypes
      <4> QED
        BY <4>1, <4>2, MaxChunksAssumption
    <3> QED
      BY <2>1, <3>1 DEF Send, CanSend
  <2>2. CASE SendLast(q)
    <3>1. next[q] = Batches(q)
      BY <2>2 DEF SendLast, QueryInv, AtPlace
    <3>2. next[q] \in 0 .. MaxChunks
      BY <1>2, <3>1, ResultTypes
    <3> QED
      BY <2>2, <3>2 DEF SendLast, CanSend
  <2>3. CASE Report(q)
    <3>1. 0 \in 0 .. MaxChunks
      BY MaxChunksAssumption
    <3> QED
      BY <2>3, <3>1 DEF Report, CanSend
  <2> QED
    BY <2>1, <2>2, <2>3
<1>4. Carried'
  <2>1. got' = got
    BY DEF Send, SendLast, Report
  <2>2. CASE batches' = batches
    BY <2>1, <2>2, TypedParts DEF Carried
  <2>3. ASSUME NEW m \in 0 .. MaxChunks, batches[q] = << >>,
               batches' = [batches EXCEPT ![q] = Append(@, m)]
        PROVE  Carried'
    <3>1. Append(batches[q], m) \in Seq(0 .. MaxChunks) /\ Len(Append(batches[q], m)) = 1
      BY <2>3
    <3> QED
      BY <2>1, <2>3, <3>1, TypedParts DEF Carried
  <2> QED
    BY <1>3, <2>2, <2>3
<1>5. Placed'
  <2>1. CASE Send(q)
    <3>1. next[q] + 1 \in 1 .. MaxChunks + 1
      <4>1. next[q] \in 1 .. Chunks(q)
        BY <2>1 DEF Send, QueryInv, AtPlace
      <4>2. Chunks(q) \in 0 .. MaxChunks
        BY <1>2, ResultTypes
      <4> QED
        BY <4>1, <4>2, MaxChunksAssumption
    <3>2. next' \in [Queries -> 1 .. MaxChunks + 1]
      BY <2>1, <3>1, TypedParts DEF Send, Placed
    <3> QED
      BY <2>1, <3>2, TypedParts DEF Send, Placed
  <2>2. CASE SendLast(q)
    BY <2>2, TypedParts DEF SendLast, Placed
  <2>3. CASE Report(q)
    BY <2>3, TypedParts DEF Report, Placed
  <2> QED
    BY <2>1, <2>2, <2>3
<1>6. HeldForUse'
  <2> USE DEF Using
  <2>1. CASE Send(q)
    <3>1. CASE Dropped(q)
      BY <1>0, <2>1, <3>1, UsedKept DEF Send, Release
    <3>2. CASE ~Dropped(q)
      BY <1>0, <2>1, <3>2, UsedKept DEF Send
    <3> QED
      BY <3>1, <3>2
  <2>2. CASE SendLast(q)
    BY <1>0, <2>2, UsedKept DEF SendLast
  <2>3. CASE Report(q)
    BY <1>0, <2>3, UsedKept DEF Report
  <2> QED
    BY <2>1, <2>2, <2>3
<1> QED
  BY <1>1, <1>4, <1>5, <1>6, TypedParts

\* The steps of a reader.
LEMMA ReadsKeepTypes ==
    ASSUME Typed, HeldForUse, NEW q \in Queries, Reader(q)
    PROVE  Typed' /\ HeldForUse'
<1> USE DEF Goto, Reader
<1>0. q \in Tasks
  BY DEF Tasks
<1>1. UNCHANGED <<pool, result, next, core, conns, returning, schema, timedOut>>
  BY DEF Query, Opened, Receive, ReceiveEnd, Drop
<1>2. Held'
  BY <1>0, <1>1, HeldKept, TypedParts
<1>3. Placed'
  BY <1>1, TypedParts DEF Query, Opened, Receive, ReceiveEnd, Drop, Placed
<1>4. Carried'
  <2>1. CASE Query(q) \/ Opened(q) \/ ReceiveEnd(q)
    BY <2>1, TypedParts DEF Query, Opened, ReceiveEnd, Carried
  <2>2. CASE Receive(q)
    <3>1. batches[q] \in Seq(0 .. MaxChunks) /\ batches[q] # << >> /\ Len(batches[q]) <= 1
      BY <2>2, TypedParts DEF Receive, Carried
    <3>2. /\ Head(batches[q]) \in 0 .. MaxChunks
          /\ Tail(batches[q]) \in Seq(0 .. MaxChunks)
          /\ Len(Tail(batches[q])) = Len(batches[q]) - 1
      BY <3>1, HeadTailProperties
    <3>3. Len(Tail(batches[q])) <= 1
      <4>1. Len(batches[q]) \in Nat
        BY <3>1, LenProperties
      <4> QED
        BY <3>1, <3>2, <4>1
    <3>4. Append(got[q], Head(batches[q])) \in Seq(0 .. MaxChunks)
      BY <3>2, TypedParts DEF Carried
    <3> QED
      BY <2>2, <3>2, <3>3, <3>4, TypedParts DEF Receive, Carried
  <2>3. CASE Drop(q)
    BY <2>3, EmptySeq, TypedParts DEF Drop, Carried
  <2> QED
    BY <2>1, <2>2, <2>3
<1>5. HeldForUse'
  <2>1. CASE Query(q)
    BY <1>0, <1>1, <2>1, UsedKept DEF Query, Using
  <2>2. CASE Opened(q) \/ Receive(q) \/ ReceiveEnd(q) \/ Drop(q)
    BY <1>1, <2>2 DEF Opened, Receive, ReceiveEnd, Drop, HeldForUse
  <2> QED
    BY <2>1, <2>2
<1> QED
  BY <1>2, <1>3, <1>4, <1>5, TypedParts

LEMMA TakeCoreKeepsTypes ==
    ASSUME Typed, HeldForUse, NEW x \in Tasks, TakeCore(x)
    PROVE  Typed' /\ HeldForUse'
BY DEF TakeCore, channels, Typed, TypeOK, HeldForUse

\* The other calls.
LEMMA CallsKeepTypes ==
    ASSUME Typed, HeldForUse, NEW o \in Ops, Other(o) \/ Begin(o)
    PROVE  Typed' /\ HeldForUse'
<1> USE DEF Goto, channels, LeaveRuntime, TimesOut
<1>0. o \in Tasks
  BY DEF Tasks
<1>1. CASE TakeCore(o)
  BY <1>0, <1>1, TakeCoreKeepsTypes
<1>2. CASE OpAcquire(o)
  BY <1>0, <1>2, AcquireKeeps DEF OpAcquire
<1>3. CASE OpTimesOut(o) \/ OpRun(o) \/ Begin(o)
  <2>1. pool' = pool
    BY <1>3 DEF OpTimesOut, OpRun, Begin
  <2>2. Held'
    <3>1. CASE OpRun(o)
      <4>1. o \in conns
        BY <1>0, <3>1 DEF OpRun, HeldForUse, Using
      <4> QED
        BY <1>0, <2>1, <3>1, <4>1, HeldKept, TypedParts DEF OpRun
    <3>2. CASE OpTimesOut(o) \/ Begin(o)
      BY <1>0, <2>1, <3>2, HeldKept, TypedParts DEF OpTimesOut, Begin
    <3> QED
      BY <1>3, <3>1, <3>2
  <2>3. Placed' /\ Carried'
    BY <1>3, TypedParts DEF OpTimesOut, OpRun, Begin, Placed, Carried
  <2>4. CASE OpTimesOut(o)
    BY <1>0, <2>2, <2>3, <2>4, TypedParts, UsedKept DEF OpTimesOut, Using
  <2>5. CASE OpRun(o)
    BY <1>0, <2>2, <2>3, <2>5, TypedParts, UsedKept DEF OpRun, Release, Using
  <2>6. CASE Begin(o)
    BY <1>0, <2>2, <2>3, <2>6, TypedParts, UsedKept DEF Begin, Using
  <2> QED
    BY <1>3, <2>4, <2>5, <2>6
<1> QED
  BY <1>1, <1>2, <1>3 DEF Other

\* The task that returns a connection.
LEMMA ReturnKeepsTypes ==
    ASSUME Typed, HeldForUse, ReturnConnection
    PROVE  Typed' /\ HeldForUse'
<1>1. Held'
  <2>1. /\ pool' = pool /\ conns' = conns /\ returning' = returning - 1 /\ returning > 0
        /\ pool.connections \in Nat /\ Cardinality(conns) \in Nat /\ returning \in Nat
    BY PoolsAssumption, FS_CardinalityType, TypedParts DEF Held, ReturnConnection, CanReturn
  <2>2. returning' \in Nat /\ Cardinality(conns) + returning' <= pool.connections
    BY <2>1, TypedParts DEF Held
  <2> QED
    BY <2>1, <2>2, TypedParts DEF Held
<1>2. Placed' /\ Carried'
  BY TypedParts DEF ReturnConnection, channels, Placed, Carried
<1>3. HeldForUse'
  BY DEF ReturnConnection, HeldForUse
<1> QED
  BY <1>1, <1>2, <1>3, TypedParts

-----------------------------------------------------------------------------
(***************************************************************************)
(* The theorems.                                                           *)
(***************************************************************************)

LEMMA WorkerKeeps ==
    ASSUME IInv, NEW q \in Queries, Worker(q)
    PROVE  Typed' /\ HeldForUse' /\ QueryInv(q)'
<1>0. Typed /\ TypeOK /\ HeldForUse /\ QueryInv(q) /\ q \in Tasks
  BY DEF IInv, Typed, Tasks
<1>1. CASE Fetch(q) \/ FetchSchema(q)
  <2>1. QueryInv(q)'
    BY <1>0, <1>1, MovesKeepTheResult
  <2>2. Typed' /\ HeldForUse'
    BY <1>0, <1>1, AcquireKeeps DEF Fetch, FetchSchema
  <2> QED
    BY <2>1, <2>2
<1>2. CASE \/ FetchTimesOut(q) \/ FullChunk(q) \/ ShortChunk(q) \/ NoRows(q) \/ EmptyBatch(q)
           \/ QueryFails(q)
  BY <1>0, <1>2, MovesKeepTypes, MovesKeepTheResult
<1>3. CASE Exhausted(q)
  BY <1>0, <1>3, MovesKeepTypes, ExhaustedKeeps
<1>4. CASE Send(q) \/ SendLast(q) \/ Report(q)
  BY <1>0, <1>4, SendsKeepTypes, SendKeeps, SendLastKeeps, ReportKeeps
<1>5. CASE TakeCore(q)
  <2>1. Untouched(q)
    BY <1>5 DEF TakeCore, channels, Untouched
  <2> QED
    BY <1>0, <1>5, <2>1, TakeCoreKeepsTypes, UntouchedKeeps
<1> QED
  BY <1>1, <1>2, <1>3, <1>4, <1>5 DEF Worker

LEMMA ReaderKeeps ==
    ASSUME IInv, NEW q \in Queries, Reader(q)
    PROVE  Typed' /\ HeldForUse' /\ QueryInv(q)'
<1>0. Typed /\ TypeOK /\ HeldForUse /\ QueryInv(q)
  BY DEF IInv, Typed
<1> QED
  BY <1>0, ReadsKeepTypes, OpeningKeeps, ReceiveKeeps, LeavingKeeps DEF Reader

LEMMA StepKeepsIInv ==
    ASSUME IInv, [Next]_vars
    PROVE  IInv'
<1>0. TypeOK /\ Typed /\ HeldForUse
  BY DEF IInv, Typed
<1>1. CASE UNCHANGED vars
  <2>1. \A q \in Queries : Untouched(q)
    BY <1>1 DEF vars, Untouched
  <2>2. \A q \in Queries : QueryInv(q)'
    BY <2>1, UntouchedKeeps DEF IInv
  <2>3. Typed' /\ HeldForUse'
    BY <1>0, <1>1 DEF vars, Typed, TypeOK, HeldForUse
  <2> QED
    BY <2>2, <2>3 DEF IInv
<1>2. ASSUME NEW q \in Queries, Worker(q) \/ Reader(q)
      PROVE  IInv'
  <2>1. Typed' /\ HeldForUse' /\ QueryInv(q)'
    BY <1>2, WorkerKeeps, ReaderKeeps
  <2>2. ASSUME NEW p \in Queries \ {q}
        PROVE  QueryInv(p)'
    <3>1. Untouched(p)
      BY <1>0, <1>2, OthersUntouched
    <3> QED
      BY <3>1, UntouchedKeeps DEF IInv
  <2> QED
    BY <2>1, <2>2 DEF IInv
<1>3. ASSUME NEW o \in Ops, Other(o) \/ Begin(o)
      PROVE  IInv'
  <2>1. Typed' /\ HeldForUse'
    BY <1>0, <1>3, CallsKeepTypes
  <2>2. ASSUME NEW p \in Queries
        PROVE  QueryInv(p)'
    <3>1. p \in Queries \ {o}
      BY <1>3, TasksAssumption
    <3>2. Untouched(p)
      BY <1>0, <1>3, <3>1, OthersUntouched
    <3> QED
      BY <3>2, UntouchedKeeps DEF IInv
  <2> QED
    BY <2>1, <2>2 DEF IInv
<1>4. CASE ReturnConnection
  <2>1. \A q \in Queries : Untouched(q)
    BY <1>4 DEF ReturnConnection, channels, Untouched
  <2>2. \A q \in Queries : QueryInv(q)'
    BY <2>1, UntouchedKeeps DEF IInv
  <2> QED
    BY <1>0, <1>4, <2>2, ReturnKeepsTypes DEF IInv
<1> QED
  BY <1>1, <1>2, <1>3, <1>4 DEF Next, Run, Use, Reader

LEMMA InitIInv == Init => IInv
<1> SUFFICES ASSUME Init
             PROVE  IInv
  OBVIOUS
<1>1. IsFiniteSet(conns) /\ Cardinality(conns) = 0
  BY FS_EmptySet DEF Init
<1>2. pool \in Pools /\ pool.connections \in Nat
  BY PoolsAssumption DEF Init
<1>3. Held
  BY <1>1, <1>2 DEF Init, Held
<1>4. Placed
  <2>1. 1 \in 1 .. MaxChunks + 1
    BY MaxChunksAssumption
  <2> QED
    BY <2>1 DEF Init, Placed
<1>5. Carried
  <2>1. << >> \in Seq(0 .. MaxChunks) /\ Len(<< >>) = 0
    BY EmptySeq
  <2> QED
    BY <2>1 DEF Init, Carried
<1>6. Typed /\ TypeOK
  BY <1>3, <1>4, <1>5, TypedParts DEF Typed
<1>7. HeldForUse
  BY DEF Init, HeldForUse, Using
<1>8. ASSUME NEW q \in Queries
      PROVE  QueryInv(q)
  <2>1. /\ next[q] = 1 /\ schema[q] = None /\ batches[q] = << >> /\ got[q] = << >>
        /\ reader[q] = "none"
        /\ pc[q] \in {"idle", "ended"}
    BY DEF Init, Tasks
  <2>2. AtPlace(q)
    BY <2>1, TasksAssumption DEF AtPlace
  <2>3. Len(got[q]) = 0 /\ Len(batches[q]) = 0
    BY <2>1
  <2>4. InOrder(q)
    BY <2>1, <2>3, TasksAssumption DEF InOrder, Dropped
  <2>5. ReaderKnows(q)
    BY <2>1 DEF ReaderKnows
  <2> QED
    BY <2>2, <2>4, <2>5 DEF QueryInv
<1> QED
  BY <1>6, <1>7, <1>8 DEF IInv

THEOREM Invariance == Spec => []IInv
BY InitIInv, StepKeepsIInv, PTL DEF Spec

\* The channels never hold more than one message, nothing but the numbers of
\* chunks goes through them, and the pool gives no connection it does not
\* have, whatever the queries, their results and the pool.
THEOREM TypeCorrect == Spec => []TypeOK
<1>1. IInv => TypeOK
  BY DEF IInv, Typed
<1> QED
  BY Invariance, <1>1, PTL

-----------------------------------------------------------------------------
(***************************************************************************)
(* The refinement: what a reader sees is a RecordStream.                   *)
(***************************************************************************)

\* What a reader receives is the next of its messages.
LEMMA ReceivesNext ==
    ASSUME IInv, NEW q \in Queries, Receive(q)
    PROVE  \/ Stream(q)!Batch
           \/ Stream(q)!Error
<1>0. TypeOK /\ QueryInv(q)
  BY DEF IInv, Typed
<1>1. /\ reader[q] = "open" /\ reader'[q] = reader[q] /\ batches[q] # << >>
      /\ got'[q] = Append(got[q], Head(batches[q]))
  BY <1>0 DEF Receive, TypeOK
<1>2. Len(got[q]) \in Nat /\ DOMAIN got[q] = 1 .. Len(got[q]) /\ Batches(q) \in Nat
  <2>1. got[q] \in Seq(0 .. MaxChunks)
    BY <1>0 DEF TypeOK
  <2> QED
    BY <1>0, <2>1, LenProperties, ResultTypes
<1>3. Message(q, Len(got[q]) + 1, Head(batches[q]))
  <2>1. Head(batches[q]) = batches[q][1]
    <3>1. batches[q] \in Seq(0 .. MaxChunks)
      BY <1>0 DEF TypeOK
    <3> QED
      BY <1>1, <3>1
  <2> QED
    BY <1>0, <1>1, <2>1 DEF QueryInv, InOrder
<1>4. \A i \in 1 .. Len(got[q]) : got[q][i] = i \/ i = Batches(q) + 1
  BY <1>0 DEF QueryInv, InOrder, Message
<1>5. Len(got[q]) <= Batches(q)
  BY <1>2, <1>3 DEF Message
<1>6. ~Stream(q)!Failed
  <2>1. ASSUME NEW i \in DOMAIN got[q]
        PROVE  got[q][i] # 0
    BY <1>2, <1>4, <1>5
  <2> QED
    BY <2>1 DEF Stream!Failed
<1>7. CASE Head(batches[q]) = Len(got[q]) + 1 /\ Len(got[q]) + 1 <= Batches(q)
  <2>1. Len(got[q]) < Batches(q)
    BY <1>2, <1>7
  <2> QED
    BY <1>1, <1>6, <1>7, <2>1 DEF Stream!Batch
<1>8. CASE Head(batches[q]) = 0 /\ Len(got[q]) + 1 = Batches(q) + 1 /\ Fails(q)
  <2>1. Len(got[q]) = Batches(q)
    BY <1>2, <1>8
  <2> QED
    BY <1>1, <1>6, <1>8, <2>1 DEF Stream!Error, Fails
<1> QED
  BY <1>3, <1>7, <1>8 DEF Message

\* A reader's own step is one of the stream.
LEMMA ReaderImplementsStream ==
    ASSUME IInv, NEW q \in Queries, Reader(q)
    PROVE  Stream(q)!Next
<1>0. TypeOK /\ QueryInv(q)
  BY DEF IInv, Typed
<1>1. CASE Query(q)
  BY <1>0, <1>1 DEF Query, TypeOK, Stream!Next, Stream!Open
<1>2. CASE Opened(q)
  <2>1. reader[q] = "opening" /\ got' = got
    BY <1>2 DEF Opened
  <2>2. CASE schema[q] = "schema"
    BY <1>0, <1>2, <2>1, <2>2 DEF Opened, TypeOK, Stream!Next, Stream!Open
  <2>3. CASE schema[q] = "error"
    <3>1. reader'[q] = "refused"
      BY <1>0, <1>2, <2>3 DEF Opened, TypeOK
    <3>2. timedOut[q] \/ (Fails(q) /\ Batches(q) = 0)
      BY <1>0, <2>3, ResultTypes DEF QueryInv, AtPlace, Refusable
    <3> QED
      BY <2>1, <3>1, <3>2 DEF Stream!Next, Stream!Refuse, Fails
  <2> QED
    BY <1>0, <1>2, <2>2, <2>3 DEF Opened, TypeOK
<1>3. CASE Receive(q)
  BY <1>3, ReceivesNext DEF Stream!Next
<1>4. CASE ReceiveEnd(q)
  <2>1. reader[q] = "open" /\ reader'[q] = "ended" /\ got' = got /\ ~Dropped(q)
    BY <1>0, <1>4 DEF ReceiveEnd, TypeOK, Dropped
  <2>2. pc[q] = "ended" /\ schema[q] = "schema" /\ Len(batches[q]) = 0
    BY <1>0, <1>4, <2>1 DEF ReceiveEnd, QueryInv, ReaderKnows
  <2>3. Len(got[q]) + Len(batches[q]) = Messages(q) /\ Len(got[q]) \in Nat
    <3>1. got[q] \in Seq(0 .. MaxChunks)
      BY <1>0 DEF TypeOK
    <3>2. Len(got[q]) + Len(batches[q]) = Messages(q)
      BY <1>0, <2>1, <2>2 DEF QueryInv, InOrder
    <3> QED
      BY <3>1, <3>2, LenProperties
  <2>4. Len(got[q]) = Messages(q)
    BY <2>2, <2>3
  <2> QED
    BY <2>1, <2>4 DEF Messages, Fails, Stream!Next, Stream!End
<1>5. CASE Drop(q)
  BY <1>0, <1>5 DEF Drop, TypeOK, Stream!Next, Stream!Drop
<1> QED
  BY <1>1, <1>2, <1>3, <1>4, <1>5 DEF Reader

LEMMA StepImplementsStream ==
    ASSUME IInv, [Next]_vars, NEW q \in Queries
    PROVE  [Stream(q)!Next]_<<reader[q], got[q]>>
<1>0. TypeOK
  BY DEF IInv, Typed
<1>1. CASE UNCHANGED vars
  BY <1>1 DEF vars
<1>2. ASSUME NEW p \in Queries, Worker(p) \/ Reader(p)
      PROVE  [Stream(q)!Next]_<<reader[q], got[q]>>
  <2>1. CASE p # q
    BY <1>0, <1>2, <2>1, OthersUntouched DEF Untouched
  <2>2. CASE p = q /\ Reader(p)
    BY <2>2, ReaderImplementsStream
  <2>3. CASE p = q /\ Worker(p)
    BY <2>3 DEF Worker, Fetch, FetchTimesOut, FullChunk, ShortChunk, Send, SendLast, Exhausted,
                NoRows, FetchSchema, EmptyBatch, QueryFails, Report, TakeCore, Acquire, channels
  <2> QED
    BY <1>2, <2>1, <2>2, <2>3
<1>3. ASSUME NEW o \in Ops, Other(o) \/ Begin(o)
      PROVE  [Stream(q)!Next]_<<reader[q], got[q]>>
  <2>1. q # o
    BY <1>3, TasksAssumption
  <2> QED
    BY <1>0, <1>3, <2>1, OthersUntouched DEF Untouched
<1>4. CASE ReturnConnection
  BY <1>4 DEF ReturnConnection, channels
<1> QED
  BY <1>1, <1>2, <1>3, <1>4 DEF Next, Run, Use, Reader

\* Every reader of a native database gets the batches of its result in order
\* and the error that ends it, for any number of queries and any pool.
THEOREM StreamsDeliver == Spec => DeliversResult
<1>1. Init => \A q \in Queries : Stream(q)!Init
  BY DEF Init, Stream!Init
<1>2. IInv /\ [Next]_vars => [\A q \in Queries : [Stream(q)!Next]_<<reader[q], got[q]>>]_vars
  BY StepImplementsStream
<1> QED
  BY Invariance, <1>1, <1>2, PTL DEF Spec, DeliversResult

-----------------------------------------------------------------------------
(***************************************************************************)
(* Who waits, and for whom.  To the invariant this adds that whoever has   *)
(* the runtime is in it, and that a reader which is there, or was refused, *)
(* or has ended, knows that from its worker.                               *)
(***************************************************************************)

ReaderAt(q) ==
    /\ reader[q] = "none" => pc[q] \in {"idle", "ended"}
    /\ reader[q] # "none" => pc[q] # "idle"
    /\ reader[q] # "none" /\ pc[q] = "ended" => schema[q] # None
    /\ reader[q] = "refused" => schema[q] = "error"
    /\ reader[q] = "ended" => pc[q] = "ended"

CoreIsUsed == core # None => InRuntime(core)

CallPlaces == \A o \in Ops : pc[o] \in {"idle", "acquire", "run", "ended"}

Settled == CoreIsUsed /\ CallPlaces /\ \A q \in Queries : ReaderAt(q)

\* A step of a query keeps its reader and its worker together.
LEMMA QueryStaysSettled ==
    ASSUME IInv, NEW q \in Queries, ReaderAt(q), Worker(q) \/ Reader(q)
    PROVE  ReaderAt(q)'
<1> USE DEF ReaderAt, Goto
<1>1. TypeOK /\ AtPlace(q) /\ ReaderKnows(q)
  BY DEF IInv, Typed, QueryInv
<1>2. None \notin {"schema", "error"}
  BY TasksAssumption
<1>3. CASE Query(q)
  BY <1>1, <1>3 DEF Query, TypeOK, Tasks
<1>4. CASE Opened(q)
  BY <1>1, <1>2, <1>4 DEF Opened, TypeOK
<1>5. CASE Receive(q) \/ ReceiveEnd(q) \/ Drop(q)
  BY <1>1, <1>5 DEF Receive, ReceiveEnd, Drop, TypeOK, ReaderKnows
<1>6. CASE Fetch(q) \/ FetchSchema(q) \/ FetchTimesOut(q) \/ NoRows(q) \/ QueryFails(q)
  BY <1>1, <1>6 DEF Fetch, FetchSchema, FetchTimesOut, NoRows, QueryFails, Acquire, channels,
                    TypeOK, Tasks
<1>7. CASE FullChunk(q) \/ ShortChunk(q) \/ EmptyBatch(q)
  BY <1>1, <1>2, <1>7 DEF FullChunk, ShortChunk, EmptyBatch, SendSchema, TypeOK, Tasks, AtPlace
<1>8. CASE Send(q) \/ SendLast(q)
  BY <1>1, <1>2, <1>8 DEF Send, SendLast, TypeOK, Tasks, AtPlace
<1>9. CASE Exhausted(q)
  <2>0. next[q] > 1 /\ pc[q] = "fetch"
    BY <1>9 DEF Exhausted
  <2>1. next[q] # 1 /\ pc[q] = "fetch"
    BY <2>0
  <2>2. schema[q] = "schema"
    BY <1>1, <2>1 DEF AtPlace
  <2> QED
    BY <1>1, <1>2, <1>9, <2>2 DEF Exhausted, channels, TypeOK, Tasks
<1>10. CASE Report(q)
  BY <1>1, <1>2, <1>10 DEF Report, TypeOK, Tasks, AtPlace
<1>11. CASE TakeCore(q)
  BY <1>11 DEF TakeCore, channels
<1> QED
  BY <1>3, <1>4, <1>5, <1>6, <1>7, <1>8, <1>9, <1>10, <1>11 DEF Worker, Reader

\* A worker or a call that leaves block_on leaves the runtime to others.
LEMMA CoreStaysUsed ==
    ASSUME TypeOK, CoreIsUsed, NEW x \in Tasks, NEW from, NEW to,
           Goto(x, from, to),
           \/ core' = core /\ to \notin {"idle", "report", "ended"}
           \/ core' = core /\ from \in {"idle", "report", "ended"}
           \/ LeaveRuntime(x)
    PROVE  CoreIsUsed'
BY DEF TypeOK, CoreIsUsed, InRuntime, Goto, LeaveRuntime

LEMMA StepsUseTheCore ==
    ASSUME TypeOK, CoreIsUsed, NEW x \in Tasks,
           Worker(x) \/ Reader(x) \/ Other(x) \/ Begin(x)
    PROVE  CoreIsUsed'
<1>1. CASE Fetch(x) \/ FetchSchema(x) \/ OpAcquire(x)
  BY <1>1, CoreStaysUsed DEF Fetch, FetchSchema, OpAcquire, Acquire
<1>2. CASE FetchTimesOut(x) \/ OpTimesOut(x)
  BY <1>2, CoreStaysUsed DEF FetchTimesOut, OpTimesOut, TimesOut
<1>3. CASE FullChunk(x) \/ ShortChunk(x) \/ NoRows(x) \/ EmptyBatch(x)
  BY <1>3, CoreStaysUsed DEF FullChunk, ShortChunk, NoRows, EmptyBatch
<1>4. CASE Send(x)
  <2>1. Goto(x, "send", IF Dropped(x) THEN "ended" ELSE "fetch")
    BY <1>4 DEF Send
  <2>2. IF Dropped(x) THEN LeaveRuntime(x) ELSE core' = core
    BY <1>4 DEF Send
  <2> QED
    BY <2>1, <2>2, CoreStaysUsed
<1>5. CASE SendLast(x) \/ Exhausted(x) \/ QueryFails(x) \/ OpRun(x)
  BY <1>5, CoreStaysUsed DEF SendLast, Exhausted, QueryFails, OpRun
<1>6. CASE Report(x) \/ Query(x) \/ Begin(x)
  BY <1>6, CoreStaysUsed DEF Report, Query, Begin
<1>7. CASE TakeCore(x)
  BY <1>7 DEF TakeCore, CoreIsUsed, InRuntime
<1>8. CASE Opened(x) \/ Receive(x) \/ ReceiveEnd(x) \/ Drop(x)
  BY <1>8 DEF Opened, Receive, ReceiveEnd, Drop, CoreIsUsed, InRuntime
<1> QED
  BY <1>1, <1>2, <1>3, <1>4, <1>5, <1>6, <1>7, <1>8 DEF Worker, Reader, Other

LEMMA StepStaysSettled ==
    ASSUME IInv, Settled, [Next]_vars
    PROVE  Settled'
<1>0. TypeOK
  BY DEF IInv, Typed
<1>1. CASE UNCHANGED vars
  BY <1>1 DEF vars, Settled, CoreIsUsed, CallPlaces, ReaderAt, InRuntime
<1>2. ASSUME NEW x, Worker(x) \/ Reader(x) \/ Other(x) \/ Begin(x), NEW p \in Queries \ {x}
      PROVE  ReaderAt(p)'
  <2>1. Untouched(p)
    BY <1>0, <1>2, OthersUntouched
  <2> QED
    BY <2>1 DEF Settled, ReaderAt, Untouched
<1>3. ASSUME NEW q \in Queries, Worker(q) \/ Reader(q)
      PROVE  Settled'
  <2>1. CoreIsUsed'
    BY <1>0, <1>3, StepsUseTheCore DEF Settled, Tasks
  <2>2. \A o \in Ops : pc'[o] = pc[o]
    BY <1>0, <1>3, TasksAssumption
       DEF Worker, Reader, Fetch, FetchTimesOut, FullChunk, ShortChunk, Send, SendLast, Exhausted,
           NoRows, FetchSchema, EmptyBatch, QueryFails, Report, TakeCore, Acquire, Query, Opened,
           Receive, ReceiveEnd, Drop, Goto, TypeOK, Tasks
  <2>3. ReaderAt(q)'
    BY <1>3, QueryStaysSettled DEF Settled
  <2> QED
    BY <1>2, <1>3, <2>1, <2>2, <2>3 DEF Settled, CallPlaces
<1>4. ASSUME NEW o \in Ops, Other(o) \/ Begin(o)
      PROVE  Settled'
  <2>1. CoreIsUsed'
    BY <1>0, <1>4, StepsUseTheCore DEF Settled, Tasks
  <2>2. CallPlaces'
    BY <1>0, <1>4 DEF Settled, CallPlaces, Other, Begin, OpAcquire, OpTimesOut, OpRun, TakeCore,
                      Acquire, Goto, TypeOK, Tasks
  <2>3. \A q \in Queries : ReaderAt(q)'
    BY <1>2, <1>4, TasksAssumption
  <2> QED
    BY <2>1, <2>2, <2>3 DEF Settled
<1>5. CASE ReturnConnection
  BY <1>5 DEF ReturnConnection, channels, Settled, CoreIsUsed, CallPlaces, ReaderAt, InRuntime
<1> QED
  BY <1>1, <1>3, <1>4, <1>5 DEF Next, Run, Use, Reader

LEMMA InitSettled == Init => Settled
<1> SUFFICES ASSUME Init
             PROVE  Settled
  OBVIOUS
<1>1. \A x \in Tasks : pc[x] \in {"idle", "ended"}
  BY DEF Init
<1> QED
  BY <1>1 DEF Init, Settled, CoreIsUsed, CallPlaces, ReaderAt, Tasks

\* A worker with a message in the channel has passed a chunk on.
LEMMA SomethingSent ==
    ASSUME TypeOK, NEW q \in Queries, QueryInv(q), ~Dropped(q), pc[q] # "ended",
           batches[q] # << >>
    PROVE  next[q] > 1
<1>1. /\ Len(got[q]) \in Nat /\ Len(batches[q]) \in Nat
      /\ Len(got[q]) + Len(batches[q]) = next[q] - 1
  BY Position
<1>2. Len(batches[q]) # 0
  <2>1. batches[q] \in Seq(0 .. MaxChunks)
    BY DEF TypeOK
  <2> QED
    BY <2>1, EmptySeq
<1>3. Len(got[q]) + Len(batches[q]) > 0 /\ next[q] \in Int
  <2>1. next[q] \in 1 .. MaxChunks + 1
    BY DEF TypeOK
  <2>2. next[q] \in Int
    BY <2>1, MaxChunksAssumption
  <2>3. \A a, b \in Nat : b # 0 => a + b > 0
    OBVIOUS
  <2> QED
    BY <1>1, <1>2, <2>2, <2>3
<1>4. next[q] - 1 > 0
  BY <1>1, <1>3
<1> QED
  BY <1>3, <1>4

\* A worker that is blocked has a batch in the channel and another in hand.
LEMMA BlockedHasMore ==
    ASSUME IInv, Settled, NEW q \in Queries, Blocked(q)
    PROVE  /\ batches[q] # << >> /\ schema[q] = "schema" /\ Messages(q) > 1
           /\ reader[q] \in {"opening", "open"}
<1>1. TypeOK /\ QueryInv(q) /\ ReaderAt(q)
  BY DEF IInv, Typed, Settled
<1>2. /\ pc[q] \in {"send", "send last"} /\ ~Dropped(q) /\ batches[q] # << >>
      /\ schema[q] = "schema"
  BY <1>1 DEF Blocked, CanSend, QueryInv, AtPlace
<1>3. reader[q] \in {"opening", "open"}
  BY <1>1, <1>2 DEF TypeOK, ReaderAt, Dropped
<1>4. next[q] > 1
  BY <1>1, <1>2, SomethingSent
<1>5. Batches(q) > 1
  <2>1. Chunks(q) \in Nat /\ Batches(q) \in Nat /\ (Chunks(q) > 0 => Batches(q) = Chunks(q))
    BY <1>1, ResultTypes
  <2>2. CASE pc[q] = "send"
    <3>1. next[q] \in 1 .. Chunks(q)
      BY <1>1, <2>2 DEF QueryInv, AtPlace
    <3>2. Chunks(q) > 1
      BY <1>4, <2>1, <3>1
    <3> QED
      BY <2>1, <3>2
  <2>3. CASE pc[q] = "send last"
    BY <1>1, <1>4, <2>3 DEF QueryInv, AtPlace
  <2> QED
    BY <1>2, <2>2, <2>3
<1>6. Messages(q) > 1
  <2>1. Messages(q) = Batches(q) + (IF Fails(q) THEN 1 ELSE 0) /\ Batches(q) \in Nat
    BY <1>1, ResultTypes
  <2> QED
    BY <1>5, <2>1
<1> QED
  BY <1>2, <1>3, <1>6

\* A task that has come to a stop in block_on leaves the runtime to a worker
\* that is blocked by its reader, unless it is one.
LEMMA CoreIsBlocked ==
    ASSUME IInv, Settled, \A x \in Tasks : ~CanStep(x), NEW y \in Tasks, InRuntime(y)
    PROVE  core \in Queries /\ Blocked(core)
<1>1. core # None /\ core \in Tasks
  BY DEF CanStep, IInv, Typed, TypeOK
<1>2. InRuntime(core) /\ ~CanStep(core)
  BY <1>1 DEF Settled, CoreIsUsed
<1>3. pc[core] \in {"send", "send last"} /\ ~CanSend(core)
  BY <1>1, <1>2 DEF CanStep, InRuntime, Progress, IInv, Typed, TypeOK
<1>4. core \in Queries
  BY <1>1, <1>3 DEF Tasks, Settled, CallPlaces
<1> QED
  BY <1>3, <1>4 DEF Blocked

\* The error of a worker waits only behind a batch nobody takes.
LEMMA ReportWaits ==
    ASSUME IInv, Settled, NEW q \in Queries, pc[q] = "report", ~CanStep(q)
    PROVE  /\ batches[q] # << >> /\ schema[q] = "schema" /\ Messages(q) > 1
           /\ reader[q] \in {"opening", "open"}
<1>1. TypeOK /\ QueryInv(q) /\ ReaderAt(q)
  BY DEF IInv, Typed, Settled
<1>2. schema[q] # None /\ ~Dropped(q) /\ batches[q] # << >>
  BY DEF CanStep, CanSend
<1>3. Chunks(q) > 0 /\ Fails(q) /\ schema[q] = "schema"
  BY <1>1, <1>2 DEF QueryInv, AtPlace
<1>4. reader[q] \in {"opening", "open"}
  BY <1>1, <1>2, <1>3 DEF TypeOK, ReaderAt, Dropped
<1>5. Messages(q) > 1
  <2>1. Messages(q) = Batches(q) + 1 /\ Batches(q) = Chunks(q) /\ Chunks(q) \in Nat
    BY <1>1, <1>3, ResultTypes
  <2> QED
    BY <1>3, <2>1
<1> QED
  BY <1>2, <1>3, <1>4, <1>5

LEMMA StoppedByReaders == IInv /\ Settled => OnlyOpenReadersBlock
<1> SUFFICES ASSUME IInv, Settled, Stopped,
                    NEW x \in Tasks, pc[x] \notin {"idle", "ended"}
             PROVE  \E q \in Queries :
                       reader[q] = "open" /\ batches[q] # << >> /\ Messages(q) > 1
  BY DEF OnlyOpenReadersBlock, Messages, Fails
<1>1. TypeOK
  BY DEF IInv, Typed
<1>2. \A q \in Queries : schema[q] = "schema" /\ reader[q] \in {"opening", "open"} => reader[q] = "open"
  BY TasksAssumption DEF Stopped, CanOpen
<1>3. CASE InRuntime(x)
  <2>1. core \in Queries /\ Blocked(core)
    BY <1>3, CoreIsBlocked DEF Stopped
  <2>2. /\ batches[core] # << >> /\ schema[core] = "schema" /\ Messages(core) > 1
        /\ reader[core] \in {"opening", "open"}
    BY <2>1, BlockedHasMore
  <2> QED
    BY <1>2, <2>1, <2>2
<1>4. CASE ~InRuntime(x)
  <2>1. pc[x] = "report" /\ ~CanStep(x)
    BY <1>4 DEF InRuntime, Stopped
  <2>2. x \in Queries
    BY <2>1 DEF Settled, CallPlaces, Tasks
  <2>3. /\ batches[x] # << >> /\ schema[x] = "schema" /\ Messages(x) > 1
        /\ reader[x] \in {"opening", "open"}
    BY <2>1, <2>2, ReportWaits
  <2> QED
    BY <1>2, <2>2, <2>3
<1> QED
  BY <1>3, <1>4

\* What is on its way back to the pool waits for a call to run the runtime, or
\* for the reader of the worker that has it.
LEMMA HeldUpByReaders == IInv /\ Settled => ConnectionsAreUsed
<1> SUFFICES ASSUME IInv, Settled
             PROVE  ConnectionsAreUsed
  OBVIOUS
<1>1. conns = { x \in Tasks : pc[x] \in {"fetch", "send", "describe", "run"} }
  BY DEF IInv, HeldForUse, Using
<1>2. ASSUME Stopped, NEW x \in Tasks, InRuntime(x)
      PROVE  core \in Queries /\ Blocked(core) /\ reader[core] = "open"
  <2>1. core \in Queries /\ Blocked(core)
    BY <1>2, CoreIsBlocked DEF Stopped
  <2>2. schema[core] = "schema" /\ reader[core] \in {"opening", "open"}
    BY <2>1, BlockedHasMore
  <2> QED
    BY <1>2, <2>1, <2>2, TasksAssumption DEF Stopped, CanOpen
<1> QED
  BY <1>1, <1>2 DEF ConnectionsAreUsed

LEMMA SettledInvariance == Spec => [](IInv /\ Settled)
<1>1. Init => IInv /\ Settled
  BY InitIInv, InitSettled
<1>2. IInv /\ Settled /\ [Next]_vars => (IInv /\ Settled)'
  BY StepKeepsIInv, StepStaysSettled
<1> QED
  BY <1>1, <1>2, PTL DEF Spec

\* Whoever has a connection is using it: no worker waits for its reader to
\* take an error or the last rows with a connection in its hands.  And a
\* connection that was dropped is kept from the pool, when nothing can go on,
\* by nothing but the reader of the worker that has the runtime, or because no
\* call runs the runtime.
THEOREM NoIdleConnections == Spec => []ConnectionsAreUsed
BY SettledInvariance, HeldUpByReaders, PTL

\* Whatever the results and the pool, and however many queries and calls there
\* are: when all of them have come to a stop, it is an open reader of a result
\* with more to come that they wait for, never each other.
THEOREM CallsWaitForReaders == Spec => []OnlyOpenReadersBlock
BY SettledInvariance, StoppedByReaders, PTL

===============================================================================
