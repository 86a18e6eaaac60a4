---------------------------- MODULE EncodedFile ----------------------------
(***************************************************************************)
(* EncodedDbFile of rust/src/stream.rs: a readable file over the batches   *)
(* of a query, encoded no further than the reader of the file has asked.   *)
(* An iteration of fill_until is a step; the caller has the file to itself *)
(* during a call.                                                          *)
(*                                                                         *)
(* The encoding is a header, one piece per batch and a footer.  Which      *)
(* sizes these have, which batch cannot be encoded, and where the query or *)
(* the last write fails is the plan, chosen at the start.  A byte is its   *)
(* place in the whole encoding.                                            *)
(***************************************************************************)
EXTENDS Integers, Sequences

CONSTANTS
    MaxBatches,    \* bound on the batches of the query
    Sizes,         \* sizes of a piece
    Requests,      \* sizes of the buffer of a read
    Offsets,       \* offsets of a seek
    MaxPosition,   \* u64::MAX
    None

ASSUME BoundsAssumption == MaxBatches \in Nat /\ MaxPosition \in Nat
ASSUME SizesAssumption ==
    /\ Sizes \subseteq Nat
    /\ Requests \subseteq 0 .. MaxPosition
    /\ Offsets \subseteq -MaxPosition .. MaxPosition    \* an i64
ASSUME NoneAssumption == None \notin Int \cup [kind : {"read", "seek", "end"},
                                               arg : Int, target : Int \cup {None}]

\* A batch that is encoded, one the writer rejects, and the error that ends
\* a failing query.
Outcomes == {"encoded", "rejected", "query failed"}

\* Piece 0 is the header, piece i is batch i, and the last piece is the footer;
\* ends[i] is where it ends, or would have ended, in the encoding, which a Vec
\* can hold.  The header is written with the first bytes, so it never fails here.
Plans(n) ==
    [batches : [1 .. n -> Outcomes], ends : [0 .. n + 1 -> 0 .. MaxPosition], finishes : BOOLEAN]

Possible(p) ==
    LET n == Len(p.batches)
    IN  /\ p.ends[0] \in Sizes
        /\ \A i \in 1 .. n + 1 : p.ends[i] - p.ends[i - 1] \in Sizes
        /\ \A i, j \in 0 .. n + 1 : i <= j => p.ends[i] <= p.ends[j]
        /\ \A i \in 1 .. n : p.batches[i] # "encoded" => p.ends[i - 1] < p.ends[i]
        /\ \A i \in 1 .. n : p.batches[i] = "query failed" => i = n
        /\ ~p.finishes => p.ends[n] < p.ends[n + 1]

VARIABLES
    plan,
    unread,     \* batches the reader has not been asked for
    writer,     \* the writer has not been finished
    sink,       \* bytes written and not yet drained
    emitted,
    position,
    eof,
    op,         \* the call being executed, None between calls
    reply,      \* what the last call returned
    failed,     \* history: a call failed to produce bytes
    demand      \* history: the bytes the calls have asked for

vars == <<plan, unread, writer, sink, emitted, position, eof, op, reply, failed, demand>>

\* The bytes from one place to another.
Bytes(from, to) == [k \in 1 .. to - from |-> from + k]

Footer == Len(plan.batches) + 1

\* Piece i, and what precedes its last n bytes.
Piece(i) == Bytes(plan.ends[i - 1], plan.ends[i])
Beginning(i, n) == Bytes(plan.ends[i - 1], plan.ends[i] - n)

\* The whole encoding of the whole result.
Full == Bytes(0, plan.ends[Footer])

Faulty ==
    \/ \E i \in DOMAIN plan.batches : plan.batches[i] # "encoded"
    \/ ~plan.finishes

\* EncodedDbFile::new: the writer is started and the sink drained.
Init ==
    /\ \E n \in 0 .. MaxBatches : plan \in Plans(n)
    /\ Possible(plan)
    /\ unread = Len(plan.batches)
    /\ writer = TRUE
    /\ sink = << >>
    /\ emitted = Bytes(0, plan.ends[0])
    /\ position = 0
    /\ eof = FALSE
    /\ op = None
    /\ reply = None
    /\ failed = FALSE
    /\ demand = 0

Smaller(a, b) == IF a < b THEN a ELSE b
Larger(a, b) == IF a > b THEN a ELSE b

file == <<plan, unread, writer, sink, emitted, eof, failed>>

-----------------------------------------------------------------------------
\* The beginning of the calls, up to fill_until.
Ready == op = None

\* A target of None asks for everything.
Begin(kind, arg, target) ==
    /\ op' = [kind |-> kind, arg |-> arg, target |-> target]
    /\ demand' = Larger(demand, IF target = None THEN Len(Full) + 1 ELSE target)

Return(value) == op' = None /\ reply' = value

Read(n) ==
    /\ Ready
    /\ n > 0
    /\ Begin("read", n, Smaller(position + n, MaxPosition))
    /\ UNCHANGED <<file, position, reply>>

ReadNothing ==
    /\ Ready
    /\ Return([data |-> << >>])
    /\ UNCHANGED <<file, position, demand>>

\* Mutant of SeekFrom: the new position is not checked.
SeekUnchecked(from, offset) ==
    /\ Ready
    /\ Begin("seek", from + offset, from + offset)
    /\ UNCHANGED <<file, position, reply>>

\* seek from the start or the position; offset_position rejects what is no u64.
SeekFrom(from, offset) ==
    /\ Ready
    /\ IF from + offset \in 0 .. MaxPosition
       THEN /\ Begin("seek", from + offset, from + offset)
            /\ UNCHANGED <<reply>>
       ELSE /\ Return([error |-> "invalid input"])
            /\ UNCHANGED demand
    /\ UNCHANGED <<file, position>>

SeekStart(offset) == offset >= 0 /\ SeekFrom(0, offset)
SeekCurrent(offset) == SeekFrom(position, offset)

SeekEnd(offset) ==
    /\ Ready
    /\ Begin("end", offset, None)
    /\ UNCHANGED <<file, position, reply>>

-----------------------------------------------------------------------------
\* Mutant of Filling: it goes on when it has exactly what it needs.
FillingOnceMore ==
    /\ op # None
    /\ ~eof
    /\ op.target # None => Len(emitted) <= op.target

\* fill_until.
Filling ==
    /\ op # None
    /\ ~eof
    /\ op.target # None => Len(emitted) < op.target

Upcoming == Len(plan.batches) - unread + 1    \* the number of the next batch

\* Mutant of Drain: the sink is copied and not taken.
DrainCopies(written) ==
    /\ emitted' = emitted \o sink \o written
    /\ sink' = sink \o written

\* drain_sink, with what was written last.
Drain(written) ==
    /\ emitted' = emitted \o sink \o written
    /\ sink' = << >>

Error ==
    /\ Return([error |-> "invalid data"])
    /\ failed' = TRUE

FillBatch ==
    /\ Filling
    /\ unread > 0
    /\ plan.batches[Upcoming] = "encoded"
    /\ Drain(Piece(Upcoming))
    /\ unread' = unread - 1
    /\ UNCHANGED <<plan, writer, position, eof, op, reply, failed, demand>>

\* write_batch fails, having written some of the batch: the sink keeps that.
FillRejected ==
    /\ Filling
    /\ unread > 0
    /\ plan.batches[Upcoming] = "rejected"
    /\ \E n \in 1 .. plan.ends[Upcoming] - plan.ends[Upcoming - 1] :
          sink' = sink \o Beginning(Upcoming, n)
    /\ unread' = unread - 1
    /\ Error
    /\ UNCHANGED <<plan, writer, emitted, position, eof, demand>>

\* The reader yields an error.
FillFailed ==
    /\ Filling
    /\ unread > 0
    /\ plan.batches[Upcoming] = "query failed"
    /\ unread' = unread - 1
    /\ Error
    /\ UNCHANGED <<plan, writer, sink, emitted, position, eof, demand>>

\* Mutant of FillEnd: eof is not set.
FillEndUnnoticed ==
    /\ Filling
    /\ unread = 0
    /\ writer => plan.finishes
    /\ Drain(IF writer THEN Piece(Footer) ELSE << >>)
    /\ writer' = FALSE
    /\ UNCHANGED <<plan, unread, position, eof, op, reply, failed, demand>>

\* Mutant of FillEnd: the sink is not drained after the footer.
FillEndUndrained ==
    /\ Filling
    /\ unread = 0
    /\ writer => plan.finishes
    /\ sink' = sink \o (IF writer THEN Piece(Footer) ELSE << >>)
    /\ writer' = FALSE
    /\ eof' = TRUE
    /\ UNCHANGED <<plan, unread, emitted, position, op, reply, failed, demand>>

\* The reader has ended; finish takes the writer and writes the footer.
FillEnd ==
    /\ Filling
    /\ unread = 0
    /\ writer => plan.finishes
    /\ Drain(IF writer THEN Piece(Footer) ELSE << >>)
    /\ writer' = FALSE
    /\ eof' = TRUE
    /\ UNCHANGED <<plan, unread, position, op, reply, failed, demand>>

\* finish takes the writer and fails.
FillEndFails ==
    /\ Filling
    /\ unread = 0
    /\ writer
    /\ ~plan.finishes
    /\ \E n \in 1 .. plan.ends[Footer] - plan.ends[Footer - 1] :
          sink' = sink \o Beginning(Footer, n)
    /\ writer' = FALSE
    /\ Error
    /\ UNCHANGED <<plan, unread, emitted, position, eof, demand>>

Filled(kind) ==
    /\ op # None
    /\ op.kind = kind
    /\ ~Filling

\* Mutant of ReadDone: the position moves by what was asked for.
ReadDoneByRequest ==
    /\ Filled("read")
    /\ LET data == SubSeq(emitted, position + 1, Smaller(position + op.arg, Len(emitted)))
       IN  /\ Return([data |-> data])
           /\ position' = Smaller(position + op.arg, MaxPosition)
    /\ UNCHANGED <<file, demand>>

ReadDone ==
    /\ Filled("read")
    /\ LET data == SubSeq(emitted, position + 1, Smaller(position + op.arg, Len(emitted)))
       IN  /\ Return([data |-> data])
           /\ position' = position + Len(data)
    /\ UNCHANGED <<file, demand>>

SeekDone ==
    /\ Filled("seek")
    /\ position' = op.arg
    /\ Return([at |-> op.arg])
    /\ UNCHANGED <<file, demand>>

\* The second fill_until of a seek from the end has nothing left to do.
SeekEndDone ==
    /\ Filled("end")
    /\ LET at == Len(emitted) + op.arg
       IN  IF at \in 0 .. MaxPosition
           THEN position' = at /\ Return([at |-> at])
           ELSE UNCHANGED position /\ Return([error |-> "invalid input"])
    /\ UNCHANGED <<file, demand>>

Call ==
    \/ \E n \in Requests : Read(n)
    \/ ReadNothing
    \/ \E offset \in Offsets :
          SeekStart(offset) \/ SeekCurrent(offset) \/ SeekEnd(offset)

Execute ==
    \/ FillBatch
    \/ FillRejected
    \/ FillFailed
    \/ FillEnd
    \/ FillEndFails
    \/ ReadDone
    \/ SeekDone
    \/ SeekEndDone

Next == Call \/ Execute

\* A call that has begun goes on; nobody has to make one.
Spec == Init /\ [][Next]_vars /\ WF_vars(Execute)

-----------------------------------------------------------------------------
(***************************************************************************)
(* Properties                                                              *)
(***************************************************************************)

Ops ==
    [kind : {"read"}, arg : Requests, target : 0 .. MaxPosition]
      \cup [kind : {"seek"}, arg : 0 .. MaxPosition, target : 0 .. MaxPosition]
      \cup [kind : {"end"}, arg : Offsets, target : {None}]

AllBytes == 1 .. plan.ends[Footer]

TypeOK ==
    /\ \E n \in 0 .. MaxBatches : plan \in Plans(n)
    /\ Possible(plan)
    /\ unread \in 0 .. Len(plan.batches)
    /\ writer \in BOOLEAN
    /\ sink \in Seq(AllBytes)
    /\ emitted \in Seq(AllBytes)
    /\ position \in 0 .. MaxPosition
    /\ eof \in BOOLEAN
    /\ op \in Ops \cup {None}
    /\ failed \in BOOLEAN
    /\ demand \in Nat

\* Up to the first error a caller cannot tell the file from one whose bytes
\* were all there from the start: reads, seeks and their errors are those of
\* DbFile (file.rs), whatever was encoded when.
Materialized ==
    INSTANCE ByteFile WITH content <- Full, fallible <- Faulty

ImplementsByteFile == Materialized!Spec

\* To a caller no call has failed, a size is reported only when the encoding is
\* complete, and is then that of the whole encoding (stream.rs:183-195;
\* docs/src/concepts.md:15: the size "may be unknown until encoding
\* completes").  After an error the size is that of what was encoded.
KnownSizeIsComplete == eof /\ ~failed => emitted = Full

\* Until a call has failed, no batch is taken from the query before a call
\* needs it, nor the writer finished: what precedes the last batch taken, or
\* the footer, was not enough for what the calls asked for (stream.rs:113; the
\* test at stream.rs:246-275 counts the batches).  After a failed write the
\* bytes left in the sink are counted only once they are drained, with the
\* batch after it.
Lazy ==
    LET taken == Len(plan.batches) - unread
    IN  ~failed =>
          /\ taken > 0 => plan.ends[taken - 1] < demand
          /\ ~writer => plan.ends[Len(plan.batches)] < demand

\* Whatever errors a caller went on after, the bytes are in the order of the
\* encoding and none is there twice (stream.rs:107-110, 117-124).
InOrder ==
    \A i, j \in DOMAIN emitted : i < j => emitted[i] < emitted[j]

\* Every call returns: fill_until ends (stream.rs:112-128).
CallReturns == op # None ~> op = None

=============================================================================
