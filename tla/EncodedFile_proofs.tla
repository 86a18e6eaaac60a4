------------------------- MODULE EncodedFile_proofs -------------------------
(***************************************************************************)
(* What holds of EncodedFile for every query, every way its encoding and   *)
(* its errors fall, and every call: the type invariant, the safety         *)
(* invariants, and that the file is a materialized one up to its first     *)
(* error.                                                                  *)
(***************************************************************************)
EXTENDS EncodedFile, SequenceTheorems, TLAPS

Taken == Len(plan.batches) - unread

\* How far the writer has come in the encoding.
Written == IF writer THEN plan.ends[Taken] ELSE plan.ends[Footer]

\* Everything the writer has been made to write, drained or not.
Produced == emitted \o sink

\* The bytes of seq are in order and come from the first n; with the length,
\* nothing of a piece is there that fits only if another is missing.
Ordered(seq, n) ==
    /\ Len(seq) <= n
    /\ \A k \in DOMAIN seq : seq[k] \in 1 .. n
    /\ \A j, k \in DOMAIN seq : j < k => seq[j] < seq[k]

\* A batch whose write failed has left bytes in the sink, and they stay before
\* what is written later.
ProducedInOrder == Ordered(Produced, Written)

\* As long as no call has failed, what was written is all there.
CompleteSoFar == ~failed => sink = << >> /\ emitted = Bytes(0, Written)

\* The writer is finished after the last batch, and eof set after that.
EndsOnce ==
    /\ eof => ~writer
    /\ ~writer => unread = 0
    /\ ~writer /\ ~failed => eof

\* A call fills up to what it needs, and has asked for that.
TargetOK ==
    op # None =>
      /\ op.kind = "read" => op.target = Smaller(position + op.arg, MaxPosition)
      /\ op.kind = "seek" => op.target = op.arg
      /\ op.target = None => plan.ends[Footer] < demand
      /\ op.target # None => op.target <= demand

IndInv ==
    /\ TypeOK
    /\ ProducedInOrder
    /\ CompleteSoFar
    /\ EndsOnce
    /\ TargetOK
    /\ Lazy

-----------------------------------------------------------------------------
(***************************************************************************)
(* Bytes and ordered sequences of them                                     *)
(***************************************************************************)

\* Bytes(from, to) has the bytes from one place to another, one after another.
LEMMA BytesOf ==
    \A from, to \in Nat : from <= to =>
      /\ Bytes(from, to) \in Seq(Nat)
      /\ Len(Bytes(from, to)) = to - from
      /\ DOMAIN Bytes(from, to) = 1 .. to - from
      /\ \A k \in 1 .. to - from : Bytes(from, to)[k] = from + k
<1>. SUFFICES ASSUME NEW from \in Nat, NEW to \in Nat, from <= to
              PROVE  /\ Bytes(from, to) \in Seq(Nat)
                     /\ Len(Bytes(from, to)) = to - from
                     /\ DOMAIN Bytes(from, to) = 1 .. to - from
                     /\ \A k \in 1 .. to - from : Bytes(from, to)[k] = from + k
  OBVIOUS
<1>1. to - from \in Nat /\ \A k \in 1 .. to - from : from + k \in Nat
  OBVIOUS
<1>2. Bytes(from, to) \in [1 .. to - from -> Nat]
  BY <1>1 DEF Bytes
<1>3. QED
  BY <1>1, <1>2 DEF Bytes

\* From the start, the byte at k is byte k.
LEMMA BytesFromStart ==
    \A to \in Nat :
      /\ Bytes(0, to) \in Seq(Nat)
      /\ Len(Bytes(0, to)) = to
      /\ DOMAIN Bytes(0, to) = 1 .. to
      /\ \A k \in 1 .. to : Bytes(0, to)[k] = k
<1>. SUFFICES ASSUME NEW to \in Nat
              PROVE  /\ Bytes(0, to) \in Seq(Nat)
                     /\ Len(Bytes(0, to)) = to
                     /\ DOMAIN Bytes(0, to) = 1 .. to
                     /\ \A k \in 1 .. to : Bytes(0, to)[k] = k
  OBVIOUS
<1>1. 0 \in Nat /\ 0 <= to /\ to - 0 = to /\ \A k \in 1 .. to : 0 + k = k
  OBVIOUS
<1>. DEFINE b == Bytes(0, to)
<1>2. /\ b \in Seq(Nat)
      /\ Len(b) = to - 0
      /\ DOMAIN b = 1 .. to - 0
      /\ \A k \in 1 .. to - 0 : b[k] = 0 + k
  BY <1>1, BytesOf
<1>. HIDE DEF b
<1>3. b \in Seq(Nat) /\ Len(b) = to /\ DOMAIN b = 1 .. to /\ \A k \in 1 .. to : b[k] = k
  BY <1>1, <1>2
<1>4. QED
  BY <1>3 DEF b

\* The bytes up to a place and those after it, put together.
LEMMA BytesMeet ==
    \A from, mid, to \in Nat : from <= mid /\ mid <= to =>
      Bytes(from, mid) \o Bytes(mid, to) = Bytes(from, to)
<1>. SUFFICES ASSUME NEW from \in Nat, NEW mid \in Nat, NEW to \in Nat, from <= mid, mid <= to
              PROVE  Bytes(from, mid) \o Bytes(mid, to) = Bytes(from, to)
  OBVIOUS
<1>. DEFINE a == Bytes(from, mid)
            b == Bytes(mid, to)
            c == Bytes(from, to)
<1>1. a \in Seq(Nat) /\ Len(a) = mid - from /\ \A k \in 1 .. mid - from : a[k] = from + k
  BY BytesOf
<1>2. b \in Seq(Nat) /\ Len(b) = to - mid /\ \A k \in 1 .. to - mid : b[k] = mid + k
  BY BytesOf
<1>3. from <= to /\ c \in Seq(Nat) /\ Len(c) = to - from /\ \A k \in 1 .. to - from : c[k] = from + k
  BY BytesOf
<1>. HIDE DEF a, b, c
<1>4. a \o b \in Seq(Nat) /\ Len(a \o b) = to - from
  <2>1. a \o b \in Seq(Nat) /\ Len(a \o b) = Len(a) + Len(b)
    BY <1>1, <1>2
  <2>2. (mid - from) + (to - mid) = to - from
    OBVIOUS
  <2>3. QED
    BY <2>1, <2>2, <1>1, <1>2
<1>5. ASSUME NEW k \in 1 .. to - from
      PROVE  (a \o b)[k] = c[k]
  <2>1. CASE k <= mid - from
    BY <2>1, <1>1, <1>2, <1>3
  <2>2. CASE k > mid - from
    <3>1. k - (mid - from) \in 1 .. to - mid
      BY <2>2
    <3>2. (a \o b)[k] = b[k - (mid - from)]
      <4>1. a \in Seq(Nat) /\ b \in Seq(Nat) /\ k \in 1 .. Len(a) + Len(b) /\ ~(k <= Len(a))
        BY <2>2, <1>1, <1>2
      <4>2. (a \o b)[k] = b[k - Len(a)]
        BY <4>1, ConcatProperties
      <4>3. QED
        BY <4>2, <1>1
    <3>3. QED
      BY <3>1, <3>2, <1>2, <1>3
  <2>3. k <= mid - from \/ k > mid - from
    OBVIOUS
  <2>4. QED
    BY <2>1, <2>2, <2>3
<1>6. a \o b = c
  <2>1. Len(a \o b) = Len(c)
    BY <1>3, <1>4
  <2>2. \A k \in 1 .. Len(c) : (a \o b)[k] = c[k]
    BY <1>3, <1>5
  <2>3. \A s, t \in Seq(Nat) :
          Len(s) = Len(t) /\ (\A k \in 1 .. Len(t) : s[k] = t[k]) => s = t
    OBVIOUS
  <2>4. QED
    BY <2>1, <2>2, <2>3, <1>3, <1>4
<1>7. QED
  BY <1>6 DEF a, b, c

\* Two sequences of bytes put together.
LEMMA Joined ==
    \A s, t \in Seq(Nat) :
      /\ s \o t \in Seq(Nat)
      /\ Len(s \o t) = Len(s) + Len(t)
      /\ \A u \in Seq(Nat) : (s \o t) \o u = s \o (t \o u)
<1>1. \A s, t \in Seq(Nat) : s \o t \in Seq(Nat) /\ Len(s \o t) = Len(s) + Len(t)
  OBVIOUS
<1>2. \A s, t, u \in Seq(Nat) : (s \o t) \o u = s \o (t \o u)
  BY ConcatAssociative
<1>3. QED
  BY <1>1, <1>2

\* What is written after a place keeps the order of what precedes the place.
LEMMA OrderedWrite ==
    \A seq \in Seq(Nat), n, from, to, m \in Nat :
      Ordered(seq, n) /\ n <= from /\ from <= to /\ to <= m => Ordered(seq \o Bytes(from, to), m)
<1>. SUFFICES ASSUME NEW seq \in Seq(Nat), NEW n \in Nat, NEW from \in Nat, NEW to \in Nat, NEW m \in Nat,
                     Ordered(seq, n), n <= from, from <= to, to <= m
              PROVE  Ordered(seq \o Bytes(from, to), m)
  OBVIOUS
<1>. DEFINE b == Bytes(from, to)
            both == seq \o b
<1>1. b \in Seq(Nat) /\ Len(b) = to - from /\ \A k \in 1 .. to - from : b[k] = from + k
  BY BytesOf
<1>. HIDE DEF b
<1>2. Len(seq) <= n /\ DOMAIN seq = 1 .. Len(seq) /\ Len(seq) \in Nat
  BY DEF Ordered
<1>3. \A k \in 1 .. Len(seq) : seq[k] \in 1 .. n
  BY <1>2 DEF Ordered
<1>4. \A j, k \in 1 .. Len(seq) : j < k => seq[j] < seq[k]
  BY <1>2 DEF Ordered
<1>5. both \in Seq(Nat) /\ Len(both) = Len(seq) + (to - from)
  <2>1. both \in Seq(Nat) /\ Len(both) = Len(seq) + Len(b)
    BY <1>1, Joined
  <2>2. QED
    BY <2>1, <1>1
<1>6. DOMAIN both = 1 .. Len(seq) + (to - from)
  BY <1>5
<1>7. \A k \in 1 .. Len(seq) : both[k] = seq[k]
  BY <1>1
<1>8. \A k \in 1 .. Len(seq) + (to - from) : k > Len(seq) => both[k] = from + (k - Len(seq))
  <2>. TAKE k \in 1 .. Len(seq) + (to - from)
  <2>. HAVE k > Len(seq)
  <2>1. k - Len(seq) \in 1 .. to - from
    BY <1>2
  <2>2. both[k] = b[k - Len(seq)]
    BY <1>1, <1>2
  <2>3. QED
    BY <2>1, <2>2, <1>1
<1>. HIDE DEF both
<1>9. Len(both) <= m
  BY <1>2, <1>5
<1>10. \A k \in DOMAIN both : both[k] \in 1 .. m
  <2>. TAKE k \in DOMAIN both
  <2>1. CASE k <= Len(seq)
    BY <2>1, <1>2, <1>3, <1>6, <1>7
  <2>2. CASE k > Len(seq)
    BY <2>2, <1>2, <1>6, <1>8
  <2>3. QED
    BY <2>1, <2>2, <1>2, <1>6
<1>11. \A j, k \in DOMAIN both : j < k => both[j] < both[k]
  <2>. TAKE j, k \in DOMAIN both
  <2>. HAVE j < k
  <2>1. CASE k <= Len(seq)
    BY <2>1, <1>2, <1>4, <1>6, <1>7
  <2>2. CASE j > Len(seq)
    BY <2>2, <1>2, <1>6, <1>8
  <2>3. CASE j <= Len(seq) /\ k > Len(seq)
    BY <2>3, <1>2, <1>3, <1>6, <1>7, <1>8
  <2>4. QED
    BY <2>1, <2>2, <2>3, <1>2, <1>6
<1>12. Ordered(both, m)
  BY <1>9, <1>10, <1>11 DEF Ordered
<1>13. QED
  BY <1>12 DEF both, b

\* The beginning of an ordered sequence is ordered.
LEMMA OrderedPrefix ==
    \A s, t \in Seq(Nat), n \in Nat : Ordered(s \o t, n) => Ordered(s, n)
<1>. SUFFICES ASSUME NEW s \in Seq(Nat), NEW t \in Seq(Nat), NEW n \in Nat, Ordered(s \o t, n)
              PROVE  Ordered(s, n)
  OBVIOUS
<1>1. s \o t \in Seq(Nat) /\ Len(s \o t) = Len(s) + Len(t) /\ Len(s) \in Nat /\ Len(t) \in Nat
  OBVIOUS
<1>2. \A k \in DOMAIN s : k \in DOMAIN (s \o t) /\ (s \o t)[k] = s[k]
  BY <1>1
<1>3. Len(s) <= n
  BY <1>1 DEF Ordered
<1>4. QED
  BY <1>2, <1>3 DEF Ordered

\* What comes after it has the same bytes.
LEMMA OrderedRest ==
    \A s, t \in Seq(Nat), n \in Nat : Ordered(s \o t, n) => t \in Seq(1 .. n)
<1>. SUFFICES ASSUME NEW s \in Seq(Nat), NEW t \in Seq(Nat), NEW n \in Nat, Ordered(s \o t, n)
              PROVE  t \in Seq(1 .. n)
  OBVIOUS
<1>1. s \o t \in Seq(Nat) /\ Len(s \o t) = Len(s) + Len(t) /\ Len(s) \in Nat /\ Len(t) \in Nat
  OBVIOUS
<1>2. ASSUME NEW k \in 1 .. Len(t)
      PROVE  t[k] \in 1 .. n
  <2>1. k + Len(s) \in DOMAIN (s \o t) /\ (s \o t)[k + Len(s)] = t[k]
    BY <1>1
  <2>2. QED
    BY <2>1 DEF Ordered
<1>3. t \in [1 .. Len(t) -> 1 .. n]
  BY <1>1, <1>2
<1>4. QED
  BY <1>1, <1>3

-----------------------------------------------------------------------------
(***************************************************************************)
(* The plan                                                                *)
(***************************************************************************)

\* The pieces of the encoding lie one after another, and a Vec can hold them.
LEMMA PlanFacts ==
    ASSUME TypeOK
    PROVE  /\ Len(plan.batches) \in Nat
           /\ DOMAIN plan.batches = 1 .. Len(plan.batches)
           /\ Footer = Len(plan.batches) + 1
           /\ \A i \in 0 .. Footer : plan.ends[i] \in Nat /\ plan.ends[i] <= MaxPosition
           /\ \A i, j \in 0 .. Footer : i <= j => plan.ends[i] <= plan.ends[j]
           /\ \A i \in 1 .. Footer - 1 :
                 plan.batches[i] # "encoded" => plan.ends[i - 1] < plan.ends[i]
           /\ ~plan.finishes => plan.ends[Footer - 1] < plan.ends[Footer]
<1>1. PICK n \in 0 .. MaxBatches : plan \in Plans(n)
  BY DEF TypeOK
<1>2. Possible(plan) /\ n \in Nat
  BY BoundsAssumption DEF TypeOK
<1>3. /\ plan.batches \in [1 .. n -> Outcomes]
      /\ plan.ends \in [0 .. n + 1 -> 0 .. MaxPosition]
  BY <1>1 DEF Plans
<1>4. Len(plan.batches) = n /\ DOMAIN plan.batches = 1 .. n
  BY <1>2, <1>3
<1>5. Footer = n + 1 /\ Footer - 1 = n
  BY <1>2, <1>4 DEF Footer
<1>6. \A i \in 0 .. n + 1 : plan.ends[i] \in Nat /\ plan.ends[i] <= MaxPosition
  BY <1>3, BoundsAssumption
<1>7. QED
  BY <1>2, <1>4, <1>5, <1>6 DEF Possible

\* Where the writer is, as a number of the encoding.
LEMMA WrittenFacts ==
    ASSUME TypeOK
    PROVE  /\ Taken \in 0 .. Footer - 1
           /\ Footer - 1 \in Nat
           /\ Written \in Nat
           /\ Written <= plan.ends[Footer]
           /\ plan.ends[Footer] \in Nat
           /\ plan.ends[Footer] <= MaxPosition
           /\ unread > 0 => Upcoming = Taken + 1 /\ Upcoming \in 1 .. Footer - 1
           /\ unread = 0 => Taken = Footer - 1
<1>. USE PlanFacts
<1>1. unread \in 0 .. Len(plan.batches)
  BY DEF TypeOK
<1>2. Taken \in 0 .. Footer - 1 /\ Footer - 1 \in Nat
  BY <1>1 DEF Taken
<1>3. plan.ends[Footer] \in Nat /\ plan.ends[Footer] <= MaxPosition
  BY <1>2
<1>4. plan.ends[Taken] \in Nat /\ plan.ends[Taken] <= plan.ends[Footer]
  BY <1>2
<1>5. Written \in Nat /\ Written <= plan.ends[Footer]
  BY <1>3, <1>4 DEF Written
<1>6. unread > 0 => Upcoming = Taken + 1 /\ Upcoming \in 1 .. Footer - 1
  BY <1>1 DEF Taken, Upcoming
<1>7. unread = 0 => Taken = Footer - 1
  BY <1>1 DEF Taken
<1>8. QED
  BY <1>2, <1>3, <1>5, <1>6, <1>7

\* A sequence of ordered bytes is one of the encoding's.
LEMMA OrderedBytes ==
    ASSUME TypeOK, NEW n \in Nat, n <= plan.ends[Footer],
           NEW seq \in Seq(Nat), Ordered(seq, n)
    PROVE  seq \in Seq(AllBytes)
<1>1. plan.ends[Footer] \in Nat
  BY WrittenFacts
<1>2. \A k \in 1 .. Len(seq) : seq[k] \in AllBytes
  BY <1>1 DEF Ordered, AllBytes
<1>3. QED
  BY <1>2

\* What the writer has produced is a sequence of places.
LEMMA ProducedFacts ==
    ASSUME TypeOK
    PROVE  emitted \in Seq(Nat) /\ sink \in Seq(Nat) /\ Produced \in Seq(Nat)
<1>1. AllBytes \subseteq Nat
  BY WrittenFacts DEF AllBytes
<1>2. ASSUME NEW S, S \subseteq Nat, NEW seq \in Seq(S)
      PROVE  seq \in Seq(Nat)
  <2>1. Len(seq) \in Nat /\ seq \in [1 .. Len(seq) -> S]
    OBVIOUS
  <2>2. seq \in [1 .. Len(seq) -> Nat]
    BY <1>2, <2>1
  <2>3. QED
    BY <2>1, <2>2
<1>3. emitted \in Seq(AllBytes) /\ sink \in Seq(AllBytes)
  BY DEF TypeOK
<1>4. emitted \in Seq(Nat) /\ sink \in Seq(Nat)
  BY <1>1, <1>2, <1>3
<1>5. QED
  BY <1>4, Joined DEF Produced

-----------------------------------------------------------------------------
(***************************************************************************)
(* The initial states                                                      *)
(***************************************************************************)

\* A new file has the header, and nothing has been asked for.
LEMMA InitInv == Init => IndInv
<1>. SUFFICES ASSUME Init
              PROVE  IndInv
  OBVIOUS
<1>1. PICK n \in 0 .. MaxBatches : plan \in Plans(n)
  BY DEF Init
<1>2. n \in Nat /\ Possible(plan)
  BY BoundsAssumption DEF Init
<1>3. /\ plan.batches \in [1 .. n -> Outcomes]
      /\ plan.ends \in [0 .. n + 1 -> 0 .. MaxPosition]
  BY <1>1 DEF Plans
<1>4. Len(plan.batches) = n /\ unread = n /\ Footer = n + 1
  BY <1>2, <1>3 DEF Init, Footer
<1>5. /\ plan.ends[0] \in Nat
      /\ plan.ends[n + 1] \in Nat
      /\ plan.ends[0] <= plan.ends[n + 1]
  <2>1. 0 \in 0 .. n + 1 /\ n + 1 \in 0 .. n + 1 /\ 0 <= n + 1
    BY <1>2
  <2>2. plan.ends[0] \in 0 .. MaxPosition /\ plan.ends[n + 1] \in 0 .. MaxPosition
    BY <2>1, <1>3
  <2>3. \A i, j \in 0 .. n + 1 : i <= j => plan.ends[i] <= plan.ends[j]
    BY <1>2, <1>3, <1>4 DEF Possible
  <2>4. QED
    BY <2>1, <2>2, <2>3, BoundsAssumption
<1>. DEFINE head == Bytes(0, plan.ends[0])
<1>6. /\ head \in Seq(Nat)
      /\ Len(head) = plan.ends[0]
      /\ DOMAIN head = 1 .. plan.ends[0]
      /\ \A k \in 1 .. plan.ends[0] : head[k] = k
  BY <1>5, BytesFromStart
<1>7. emitted = head /\ sink = << >>
  BY DEF Init
<1>. HIDE DEF head
<1>8. Ordered(head, plan.ends[0])
  BY <1>5, <1>6 DEF Ordered
<1>9. head \in Seq(AllBytes)
  BY <1>4, <1>5, <1>6 DEF AllBytes
<1>10. TypeOK
  <2>1. op = None /\ position = 0 /\ demand = 0 /\ eof = FALSE /\ failed = FALSE /\ writer = TRUE
    BY DEF Init
  <2>2. position \in 0 .. MaxPosition /\ demand \in Nat
    BY <2>1, BoundsAssumption
  <2>3. unread \in 0 .. Len(plan.batches)
    BY <1>2, <1>4
  <2>4. emitted \in Seq(AllBytes) /\ sink \in Seq(AllBytes)
    BY <1>7, <1>9
  <2>5. op \in Ops \cup {None} /\ eof \in BOOLEAN /\ failed \in BOOLEAN /\ writer \in BOOLEAN
    BY <2>1
  <2>6. QED
    BY <1>1, <1>2, <2>2, <2>3, <2>4, <2>5 DEF TypeOK
<1>11. Written = plan.ends[0]
  BY <1>2, <1>4 DEF Init, Written, Taken
<1>12. Produced = emitted
  BY <1>6, <1>7 DEF Produced
<1>13. ProducedInOrder
  BY <1>7, <1>8, <1>11, <1>12 DEF ProducedInOrder
<1>14. CompleteSoFar /\ EndsOnce /\ TargetOK
  BY <1>7, <1>11 DEF Init, CompleteSoFar, EndsOnce, TargetOK, head
<1>15. Lazy
  <2>1. writer = TRUE
    BY DEF Init
  <2>2. QED
    BY <2>1, <1>2, <1>4 DEF Lazy
<1>16. QED
  BY <1>10, <1>13, <1>14, <1>15 DEF IndInv

-----------------------------------------------------------------------------
(***************************************************************************)
(* The calls begin and return                                              *)
(***************************************************************************)

\* What a step that leaves the file alone keeps of the invariant.
LEMMA FileSame ==
    ASSUME IndInv, UNCHANGED file
    PROVE  /\ (\E n \in 0 .. MaxBatches : plan \in Plans(n))'
           /\ Possible(plan)'
           /\ (unread \in 0 .. Len(plan.batches))'
           /\ (writer \in BOOLEAN)'
           /\ (sink \in Seq(AllBytes))'
           /\ (emitted \in Seq(AllBytes))'
           /\ (eof \in BOOLEAN)'
           /\ (failed \in BOOLEAN)'
           /\ Footer' = Footer
           /\ ProducedInOrder'
           /\ CompleteSoFar'
           /\ EndsOnce'
<1>1. /\ plan' = plan /\ unread' = unread /\ writer' = writer /\ sink' = sink
      /\ emitted' = emitted /\ eof' = eof /\ failed' = failed
  BY DEF file
<1>2. /\ Footer' = Footer /\ AllBytes' = AllBytes /\ Written' = Written /\ Produced' = Produced
      /\ Possible(plan)' = Possible(plan)
  BY <1>1 DEF Footer, AllBytes, Written, Taken, Produced, Possible
<1>3. \A n : Plans(n)' = Plans(n)
  BY DEF Plans
<1>4. ProducedInOrder' /\ CompleteSoFar' /\ EndsOnce'
  BY <1>1, <1>2 DEF IndInv, ProducedInOrder, Ordered, CompleteSoFar, EndsOnce
<1>5. QED
  BY <1>1, <1>2, <1>3, <1>4 DEF IndInv, TypeOK

\* An operation is not None, and neither is a number.
LEMMA OpsAreSome ==
    /\ None \notin Ops
    /\ None \notin Int
<1>1. None \notin Int
  BY NoneAssumption
<1>2. Ops \subseteq [kind : {"read", "seek", "end"}, arg : Int, target : Int \cup {None}]
  <2>1. 0 .. MaxPosition \subseteq Int /\ Requests \subseteq Int /\ Offsets \subseteq Int
    BY SizesAssumption, BoundsAssumption
  <2>2. QED
    BY <2>1 DEF Ops
<1>3. QED
  BY <1>1, <1>2, NoneAssumption

\* A call that begins asks for its target.
LEMMA BeginInv ==
    ASSUME IndInv, UNCHANGED <<file, position, reply>>,
           NEW kind, NEW arg, NEW target,
           Begin(kind, arg, target),
           [kind |-> kind, arg |-> arg, target |-> target] \in Ops,
           target \in Nat \cup {None},
           kind = "read" => target = Smaller(position + arg, MaxPosition),
           kind = "seek" => target = arg
    PROVE  IndInv'
<1>. DEFINE o == [kind |-> kind, arg |-> arg, target |-> target]
<1>1. op' = o /\ o.kind = kind /\ o.arg = arg /\ o.target = target
  BY DEF Begin
<1>2. /\ position' = position /\ plan' = plan /\ unread' = unread /\ failed' = failed
      /\ Footer' = Footer
  BY FileSame DEF file
<1>3. demand \in Nat /\ Footer \in 0 .. Footer /\ Len(Full) = plan.ends[Footer]
  <2>1. demand \in Nat /\ Footer \in 0 .. Footer
    BY PlanFacts, WrittenFacts DEF IndInv, TypeOK
  <2>2. plan.ends[Footer] \in Nat
    BY WrittenFacts DEF IndInv
  <2>3. QED
    BY <2>1, <2>2, BytesFromStart DEF Full
<1>4. plan.ends[Footer] \in Nat
  BY WrittenFacts DEF IndInv
<1>5. /\ demand' \in Nat /\ demand <= demand'
      /\ target = None => plan.ends[Footer] < demand'
      /\ target # None => target <= demand'
  <2>1. demand' = Larger(demand, IF target = None THEN plan.ends[Footer] + 1 ELSE target)
    BY <1>3 DEF Begin
  <2>2. CASE target = None
    BY <2>1, <2>2, <1>3, <1>4 DEF Larger
  <2>3. CASE target # None
    BY <2>1, <2>3, <1>3 DEF Larger
  <2>4. QED
    BY <2>2, <2>3
<1>. HIDE DEF o
<1>6. (position \in 0 .. MaxPosition)' /\ (op \in Ops \cup {None})'
  BY <1>1, <1>2 DEF IndInv, TypeOK, Ops, o
<1>7. TypeOK'
  BY <1>5, <1>6, FileSame DEF TypeOK
<1>8. TargetOK'
  BY <1>1, <1>2, <1>5 DEF TargetOK
<1>9. Lazy'
  <2>1. Lazy
    BY DEF IndInv
  <2>2. Len(plan.batches) - unread > 0 => plan.ends[Len(plan.batches) - unread - 1] \in Nat
    BY PlanFacts, WrittenFacts DEF IndInv, Taken
  <2>3. plan.ends[Len(plan.batches)] \in Nat
    <3>1. Len(plan.batches) \in 0 .. Footer
      BY PlanFacts DEF IndInv
    <3>2. QED
      BY <3>1, PlanFacts DEF IndInv
  <2>4. writer' = writer
    BY DEF file
  <2>5. QED
    BY <2>1, <2>2, <2>3, <2>4, <1>2, <1>3, <1>5 DEF Lazy
<1>10. QED
  BY <1>7, <1>8, <1>9, FileSame DEF IndInv

\* A call that returns leaves the file as it is, and the position a number.
LEMMA ReturnInv ==
    ASSUME IndInv, UNCHANGED <<file, demand>>, op' = None, position' \in 0 .. MaxPosition
    PROVE  IndInv'
<1>1. /\ demand' = demand /\ plan' = plan /\ unread' = unread /\ writer' = writer
      /\ failed' = failed
  BY DEF file
<1>2. TypeOK'
  BY <1>1, FileSame DEF IndInv, TypeOK, Ops
<1>3. TargetOK'
  BY DEF TargetOK
<1>4. Lazy'
  BY <1>1 DEF IndInv, Lazy
<1>5. QED
  BY <1>2, <1>3, <1>4, FileSame DEF IndInv

\* The file is the same when a call is made, and its target a number or None.
LEMMA CallInv == IndInv /\ Call => IndInv'
<1>. SUFFICES ASSUME IndInv, Call
              PROVE  IndInv'
  OBVIOUS
<1>1. position \in 0 .. MaxPosition /\ position \in Nat
  BY BoundsAssumption DEF IndInv, TypeOK
<1>2. ASSUME NEW n \in Requests, Read(n)
      PROVE  IndInv'
  <2>1. n \in 0 .. MaxPosition
    BY SizesAssumption
  <2>. DEFINE target == Smaller(position + n, MaxPosition)
  <2>2. target \in 0 .. MaxPosition /\ target \in Nat
    BY <1>1, <2>1, BoundsAssumption DEF Smaller
  <2>3. Begin("read", n, target) /\ UNCHANGED <<file, position, reply>>
    BY <1>2 DEF Read
  <2>4. target = Smaller(position + n, MaxPosition)
    OBVIOUS
  <2>. HIDE DEF target
  <2>5. [kind |-> "read", arg |-> n, target |-> target] \in Ops
    BY <2>2 DEF Ops
  <2>6. QED
    BY <2>2, <2>3, <2>4, <2>5, BeginInv
<1>3. CASE ReadNothing
  BY <1>3, <1>1, ReturnInv DEF ReadNothing, Return
<1>4. ASSUME NEW from \in {0, position}, NEW offset \in Offsets, SeekFrom(from, offset)
      PROVE  IndInv'
  <2>1. CASE from + offset \in 0 .. MaxPosition
    <3>. DEFINE target == from + offset
    <3>1. Begin("seek", target, target) /\ UNCHANGED <<file, position, reply>>
      BY <1>4, <2>1 DEF SeekFrom
    <3>2. target \in 0 .. MaxPosition
      BY <2>1
    <3>. HIDE DEF target
    <3>3. [kind |-> "seek", arg |-> target, target |-> target] \in Ops
      BY <3>2 DEF Ops
    <3>4. target \in Nat
      BY <3>2, BoundsAssumption
    <3>5. QED
      BY <3>1, <3>3, <3>4, BeginInv
  <2>2. CASE from + offset \notin 0 .. MaxPosition
    <3>1. op' = None /\ UNCHANGED <<file, demand>> /\ position' = position
      BY <1>4, <2>2 DEF SeekFrom, Return
    <3>2. QED
      BY <3>1, <1>1, ReturnInv
  <2>3. QED
    BY <2>1, <2>2
<1>5. ASSUME NEW offset \in Offsets, SeekEnd(offset)
      PROVE  IndInv'
  <2>1. Begin("end", offset, None) /\ UNCHANGED <<file, position, reply>>
    BY <1>5 DEF SeekEnd
  <2>2. [kind |-> "end", arg |-> offset, target |-> None] \in Ops
    BY DEF Ops
  <2>3. QED
    BY <2>1, <2>2, BeginInv
<1>6. QED
  BY <1>2, <1>3, <1>4, <1>5 DEF Call, SeekStart, SeekCurrent

-----------------------------------------------------------------------------
(***************************************************************************)
(* fill_until                                                              *)
(***************************************************************************)

\* The encoding and its bytes are those of the plan.
LEMMA PlanSame ==
    ASSUME TypeOK, plan' = plan
    PROVE  /\ Footer' = Footer /\ AllBytes' = AllBytes
           /\ plan'.ends = plan.ends
           /\ (\E n \in 0 .. MaxBatches : plan \in Plans(n))'
           /\ Possible(plan)'
           /\ \A n \in 0 .. plan.ends[Footer], s, t \in Seq(Nat) :
                 Ordered(s \o t, n) => s \in Seq(AllBytes') /\ t \in Seq(AllBytes')
<1>1. Footer' = Footer /\ AllBytes' = AllBytes
  BY DEF Footer, AllBytes
<1>2. plan.ends[Footer] \in Nat
  BY WrittenFacts
<1>3. ASSUME NEW n \in 0 .. plan.ends[Footer], NEW s \in Seq(Nat), NEW t \in Seq(Nat),
             Ordered(s \o t, n)
      PROVE  s \in Seq(AllBytes) /\ t \in Seq(AllBytes)
  <2>1. n \in Nat /\ 1 .. n \subseteq AllBytes
    BY <1>2 DEF AllBytes
  <2>2. Ordered(s, n) /\ t \in Seq(1 .. n)
    BY <2>1, <1>3, OrderedPrefix, OrderedRest
  <2>3. s \in Seq(AllBytes)
    BY <2>1, <2>2, OrderedBytes
  <2>4. t \in Seq(AllBytes)
    BY <2>1, <2>2, SeqMonotonic
  <2>5. QED
    BY <2>3, <2>4
<1>4. QED
  BY <1>1, <1>3 DEF TypeOK, Plans, Possible

\* What a step of fill_until that drains or keeps what it writes does to what
\* the writer has produced.
LEMMA DrainedBytes ==
    ASSUME emitted \in Seq(Nat), sink \in Seq(Nat), NEW written \in Seq(Nat),
           \/ Drain(written)
           \/ sink' = sink \o written /\ emitted' = emitted
    PROVE  /\ Produced' = Produced \o written
           /\ emitted' \in Seq(Nat)
           /\ sink' \in Seq(Nat)
<1>. DEFINE all == Produced \o written
<1>1. Produced \in Seq(Nat) /\ all \in Seq(Nat)
  BY Joined DEF Produced
<1>2. CASE Drain(written)
  <2>1. emitted' = all /\ sink' = << >>
    BY <1>2 DEF Drain, Produced
  <2>. HIDE DEF all
  <2>2. Produced' = emitted' \o sink'
    BY DEF Produced
  <2>3. all \o << >> = all
    BY <1>1, ConcatEmptySeq
  <2>4. QED
    BY <1>1, <2>1, <2>2, <2>3 DEF all
<1>3. CASE sink' = sink \o written /\ emitted' = emitted
  <2>1. Produced' = emitted \o (sink \o written)
    BY <1>3 DEF Produced
  <2>2. (emitted \o sink) \o written = emitted \o (sink \o written)
    BY Joined
  <2>3. sink \o written \in Seq(Nat)
    BY Joined
  <2>4. QED
    BY <1>3, <2>1, <2>2, <2>3 DEF Produced
<1>4. QED
  BY <1>2, <1>3

\* The type of the file once its writer has written in order.
LEMMA WrittenInOrder ==
    ASSUME TypeOK, plan' = plan, Ordered(Produced', Written'),
           emitted' \in Seq(Nat), sink' \in Seq(Nat),
           Written' \in 0 .. plan.ends[Footer]
    PROVE  /\ ProducedInOrder'
           /\ (emitted \in Seq(AllBytes))'
           /\ (sink \in Seq(AllBytes))'
<1>1. ProducedInOrder'
  BY DEF ProducedInOrder
<1>2. Ordered(emitted' \o sink', Written')
  BY DEF Produced
<1>3. emitted' \in Seq(AllBytes') /\ sink' \in Seq(AllBytes')
  BY <1>2, PlanSame
<1>4. QED
  BY <1>1, <1>3


\* What the type invariant says of a step of fill_until but the bytes.
LEMMA FillType ==
    ASSUME IndInv, plan' = plan, position' = position, demand' = demand,
           op' \in {op, None}, unread' \in 0 .. Len(plan.batches),
           writer' \in BOOLEAN, eof' \in BOOLEAN, failed' \in BOOLEAN,
           (emitted \in Seq(AllBytes))', (sink \in Seq(AllBytes))'
    PROVE  TypeOK' /\ TargetOK'
<1>1. Footer' = Footer /\ (\E n \in 0 .. MaxBatches : plan \in Plans(n))' /\ Possible(plan)'
  BY PlanSame DEF IndInv
<1>2. op \in Ops \cup {None} /\ position \in 0 .. MaxPosition /\ demand \in Nat
  BY DEF IndInv, TypeOK
<1>3. op' \in Ops \cup {None} /\ Ops' = Ops
  BY <1>2 DEF Ops
<1>4. TypeOK'
  BY <1>1, <1>2, <1>3 DEF TypeOK
<1>5. TargetOK'
  BY <1>1 DEF IndInv, TargetOK
<1>6. QED
  BY <1>4, <1>5

\* When fill_until goes on, what was written is less than what was asked for.
LEMMA FillingIsAskedFor ==
    ASSUME IndInv, Filling, ~failed
    PROVE  Written < demand
<1>1. demand \in Nat /\ op # None /\ op \in Ops
  BY DEF Filling, IndInv, TypeOK
<1>2. Written \in Nat /\ Written <= plan.ends[Footer] /\ plan.ends[Footer] \in Nat
  BY WrittenFacts DEF IndInv
<1>3. CASE op.target = None
  BY <1>1, <1>2, <1>3 DEF IndInv, TargetOK
<1>4. CASE op.target # None
  <2>1. Len(emitted) < op.target /\ op.target <= demand
    BY <1>1, <1>4 DEF Filling, IndInv, TargetOK
  <2>2. Len(emitted) = Written
    BY <1>2, BytesFromStart DEF IndInv, CompleteSoFar
  <2>3. op.target \in Int
    BY <1>1, <1>4, BoundsAssumption DEF Ops
  <2>4. QED
    BY <1>1, <1>2, <2>1, <2>2, <2>3
<1>5. QED
  BY <1>3, <1>4

\* A batch that is encoded follows what was written before.
LEMMA FillBatchInv == IndInv /\ FillBatch => IndInv'
<1>. SUFFICES ASSUME IndInv, FillBatch
              PROVE  IndInv'
  OBVIOUS
<1>. DEFINE i == Upcoming
            from == plan.ends[i - 1]
            to == plan.ends[i]
<1>1. /\ Filling /\ unread > 0 /\ Drain(Piece(i)) /\ unread' = unread - 1
      /\ plan' = plan /\ writer' = writer /\ position' = position /\ eof' = eof
      /\ op' = op /\ failed' = failed /\ demand' = demand
  BY DEF FillBatch
<1>2. /\ i = Taken + 1 /\ i \in 1 .. Footer - 1 /\ Footer - 1 \in Nat
      /\ Footer = Len(plan.batches) + 1 /\ unread \in 0 .. Len(plan.batches)
      /\ Len(plan.batches) \in Nat /\ Taken \in 0 .. Footer - 1
  BY <1>1, PlanFacts, WrittenFacts DEF IndInv, TypeOK
<1>3. writer = TRUE
  BY <1>1 DEF IndInv, EndsOnce, TypeOK
<1>4. /\ from \in Nat /\ to \in Nat /\ from <= to
      /\ plan.ends[Footer] \in Nat /\ to <= plan.ends[Footer]
  <2>1. i - 1 \in 0 .. Footer /\ i \in 0 .. Footer /\ Footer \in 0 .. Footer /\ i - 1 <= i /\ i <= Footer
    BY <1>2
  <2>2. QED
    BY <2>1, PlanFacts DEF IndInv
<1>5. Taken' = i /\ Written = from /\ Written' = to
  <2>1. Taken' = Taken + 1
    BY <1>1, <1>2 DEF Taken
  <2>2. Taken = i - 1
    BY <1>2
  <2>3. QED
    BY <1>1, <1>2, <1>3, <2>1, <2>2 DEF Written
<1>6. Piece(i) = Bytes(from, to)
  BY DEF Piece
<1>. HIDE DEF i, from, to
<1>7. Bytes(from, to) \in Seq(Nat)
  BY <1>4, BytesOf
<1>8. /\ Produced' = Produced \o Bytes(from, to)
      /\ emitted' \in Seq(Nat) /\ sink' \in Seq(Nat)
  BY <1>1, <1>6, <1>7, DrainedBytes, ProducedFacts DEF IndInv
<1>9. Ordered(Produced', Written')
  BY <1>4, <1>5, <1>8, OrderedWrite, ProducedFacts DEF IndInv, ProducedInOrder
<1>10. ProducedInOrder' /\ (emitted \in Seq(AllBytes))' /\ (sink \in Seq(AllBytes))'
  BY <1>1, <1>4, <1>5, <1>8, <1>9, WrittenInOrder DEF IndInv
<1>11. TypeOK' /\ TargetOK'
  <2>1. unread' \in 0 .. Len(plan.batches)
    BY <1>1, <1>2
  <2>2. writer' \in BOOLEAN /\ eof' \in BOOLEAN /\ failed' \in BOOLEAN
    BY <1>1 DEF IndInv, TypeOK
  <2>3. QED
    BY <1>1, <1>10, <2>1, <2>2, FillType
<1>12. CompleteSoFar'
  <2>1. SUFFICES ASSUME ~failed
                 PROVE  sink' = << >> /\ emitted' = Bytes(0, to)
    BY <1>1, <1>5 DEF CompleteSoFar
  <2>2. sink = << >> /\ emitted = Bytes(0, from)
    BY <2>1, <1>5 DEF IndInv, CompleteSoFar
  <2>3. sink' = << >> /\ emitted' = emitted \o sink \o Bytes(from, to)
    BY <1>1, <1>6 DEF Drain
  <2>4. emitted \o << >> = emitted
    BY ConcatEmptySeq, ProducedFacts DEF IndInv
  <2>5. Bytes(0, from) \o Bytes(from, to) = Bytes(0, to)
    <3>1. 0 \in Nat /\ 0 <= from
      BY <1>4
    <3>2. QED
      BY <3>1, <1>4, BytesMeet
  <2>6. QED
    BY <2>2, <2>3, <2>4, <2>5
<1>13. EndsOnce'
  BY <1>1, <1>3 DEF IndInv, EndsOnce
<1>14. Lazy'
  <2>1. SUFFICES ASSUME ~failed
                 PROVE  from < demand
    <3>1. Len(plan'.batches) - unread' - 1 = i - 1
      BY <1>1, <1>2 DEF Taken
    <3>2. QED
      BY <1>1, <1>3, <3>1 DEF Lazy, from
  <2>2. QED
    BY <2>1, <1>1, <1>5, FillingIsAskedFor
<1>15. QED
  BY <1>10, <1>11, <1>12, <1>13, <1>14 DEF IndInv

\* Where the pieces meet.
LEMMA PieceFacts ==
    ASSUME IndInv, NEW i \in 1 .. Footer
    PROVE  /\ plan.ends[i - 1] \in Nat /\ plan.ends[i] \in Nat
           /\ plan.ends[i - 1] <= plan.ends[i]
           /\ plan.ends[Footer] \in Nat /\ plan.ends[i] <= plan.ends[Footer]
           /\ Piece(i) = Bytes(plan.ends[i - 1], plan.ends[i])
           /\ \A n \in 1 .. plan.ends[i] - plan.ends[i - 1] :
                 /\ plan.ends[i] - n \in Nat
                 /\ plan.ends[i - 1] <= plan.ends[i] - n
                 /\ plan.ends[i] - n <= plan.ends[i]
                 /\ Beginning(i, n) = Bytes(plan.ends[i - 1], plan.ends[i] - n)
<1>1. Footer \in Nat
  BY PlanFacts DEF IndInv
<1>2. i - 1 \in 0 .. Footer /\ i \in 0 .. Footer /\ Footer \in 0 .. Footer /\ i - 1 <= i /\ i <= Footer
  BY <1>1
<1>3. /\ plan.ends[i - 1] \in Nat /\ plan.ends[i] \in Nat
      /\ plan.ends[i - 1] <= plan.ends[i]
      /\ plan.ends[Footer] \in Nat /\ plan.ends[i] <= plan.ends[Footer]
  BY <1>2, PlanFacts DEF IndInv
<1>4. QED
  BY <1>3 DEF Piece, Beginning

\* Once a call has failed only the order of the bytes is left to keep.
LEMMA FailingInv ==
    ASSUME IndInv, Error, plan' = plan, position' = position, demand' = demand, eof' = eof,
           unread' \in 0 .. Len(plan.batches), writer' \in BOOLEAN,
           eof => ~writer', ~writer' => unread' = 0,
           Ordered(Produced', Written'), Written' \in 0 .. plan.ends[Footer],
           emitted' \in Seq(Nat), sink' \in Seq(Nat)
    PROVE  IndInv'
<1>1. op' = None /\ failed' = TRUE
  BY DEF Error, Return
<1>2. ProducedInOrder' /\ (emitted \in Seq(AllBytes))' /\ (sink \in Seq(AllBytes))'
  BY WrittenInOrder DEF IndInv
<1>3. TypeOK' /\ TargetOK'
  <2>1. eof' \in BOOLEAN /\ failed' \in BOOLEAN
    BY <1>1 DEF IndInv, TypeOK
  <2>2. QED
    BY <1>1, <1>2, <2>1, FillType
<1>4. CompleteSoFar' /\ EndsOnce' /\ Lazy'
  BY <1>1 DEF CompleteSoFar, EndsOnce, Lazy
<1>5. QED
  BY <1>2, <1>3, <1>4 DEF IndInv

\* A batch whose write fails leaves its beginning in the sink.
LEMMA FillRejectedInv == IndInv /\ FillRejected => IndInv'
<1>. SUFFICES ASSUME IndInv, FillRejected
              PROVE  IndInv'
  OBVIOUS
<1>1. /\ Filling /\ unread > 0 /\ unread' = unread - 1
      /\ plan' = plan /\ writer' = writer /\ position' = position /\ eof' = eof
      /\ emitted' = emitted /\ demand' = demand /\ Error
  BY DEF FillRejected
<1>2. /\ Upcoming = Taken + 1 /\ Upcoming \in 1 .. Footer - 1 /\ Footer - 1 \in Nat
      /\ Footer = Len(plan.batches) + 1 /\ unread \in 0 .. Len(plan.batches)
      /\ Len(plan.batches) \in Nat /\ Taken \in 0 .. Footer - 1
  BY <1>1, PlanFacts, WrittenFacts DEF IndInv, TypeOK
<1>3. writer = TRUE /\ eof = FALSE
  BY <1>1 DEF IndInv, EndsOnce, TypeOK
<1>. DEFINE i == Upcoming
            from == plan.ends[i - 1]
            to == plan.ends[i]
<1>4. i \in 1 .. Footer
  BY <1>2
<1>5. PICK n \in 1 .. to - from : sink' = sink \o Beginning(i, n)
  BY DEF FillRejected
<1>6. /\ from \in Nat /\ to - n \in Nat /\ to \in Nat /\ from <= to - n /\ to - n <= to
      /\ plan.ends[Footer] \in Nat /\ to <= plan.ends[Footer]
      /\ Beginning(i, n) = Bytes(from, to - n)
  BY <1>4, PieceFacts
<1>7. Written = from /\ Written' = to
  <2>1. Taken' = Taken + 1
    BY <1>1, <1>2 DEF Taken
  <2>2. Taken = i - 1
    BY <1>2
  <2>3. QED
    BY <1>1, <1>2, <1>3, <2>1, <2>2 DEF Written
<1>. HIDE DEF i, from, to
<1>8. Bytes(from, to - n) \in Seq(Nat)
  BY <1>6, BytesOf
<1>9. /\ Produced' = Produced \o Bytes(from, to - n)
      /\ emitted' \in Seq(Nat) /\ sink' \in Seq(Nat)
  BY <1>1, <1>5, <1>6, <1>8, DrainedBytes, ProducedFacts DEF IndInv
<1>10. Ordered(Produced', Written')
  <2>1. Ordered(Produced, from)
    BY <1>7 DEF IndInv, ProducedInOrder
  <2>2. Produced \in Seq(Nat) /\ from <= from
    BY <1>6, ProducedFacts DEF IndInv
  <2>3. QED
    BY <1>6, <1>7, <1>9, <2>1, <2>2, OrderedWrite
<1>11. unread' \in 0 .. Len(plan.batches) /\ Written' \in 0 .. plan.ends[Footer]
  BY <1>1, <1>2, <1>6, <1>7
<1>12. QED
  BY <1>1, <1>3, <1>9, <1>10, <1>11, FailingInv

\* An error of the query takes the place of a batch.
LEMMA FillFailedInv == IndInv /\ FillFailed => IndInv'
<1>. SUFFICES ASSUME IndInv, FillFailed
              PROVE  IndInv'
  OBVIOUS
<1>1. /\ Filling /\ unread > 0 /\ unread' = unread - 1
      /\ plan' = plan /\ writer' = writer /\ position' = position /\ eof' = eof
      /\ emitted' = emitted /\ sink' = sink /\ demand' = demand /\ Error
  BY DEF FillFailed
<1>2. /\ Upcoming = Taken + 1 /\ Upcoming \in 1 .. Footer - 1 /\ Footer - 1 \in Nat
      /\ Footer = Len(plan.batches) + 1 /\ unread \in 0 .. Len(plan.batches)
      /\ Len(plan.batches) \in Nat /\ Taken \in 0 .. Footer - 1
  BY <1>1, PlanFacts, WrittenFacts DEF IndInv, TypeOK
<1>3. writer = TRUE /\ eof = FALSE
  BY <1>1 DEF IndInv, EndsOnce, TypeOK
<1>. DEFINE i == Upcoming
            from == plan.ends[i - 1]
            to == plan.ends[i]
<1>4. i \in 1 .. Footer
  BY <1>2
<1>5. /\ from \in Nat /\ to \in Nat /\ from <= to
      /\ plan.ends[Footer] \in Nat /\ to <= plan.ends[Footer]
  BY <1>4, PieceFacts
<1>6. Written = from /\ Written' = to
  <2>1. Taken' = Taken + 1
    BY <1>1, <1>2 DEF Taken
  <2>2. Taken = i - 1
    BY <1>2
  <2>3. QED
    BY <1>1, <1>2, <1>3, <2>1, <2>2 DEF Written
<1>. HIDE DEF i, from, to
<1>7. Produced' = Produced /\ Produced \in Seq(Nat) /\ emitted' \in Seq(Nat) /\ sink' \in Seq(Nat)
  BY <1>1, ProducedFacts DEF IndInv, Produced
<1>8. Ordered(Produced, to)
  <2>1. Ordered(Produced, from)
    BY <1>6 DEF IndInv, ProducedInOrder
  <2>2. QED
    BY <1>5, <1>7, <2>1 DEF Ordered
<1>9. unread' \in 0 .. Len(plan.batches) /\ Written' \in 0 .. plan.ends[Footer]
  BY <1>1, <1>2, <1>5, <1>6
<1>10. QED
  BY <1>1, <1>3, <1>6, <1>7, <1>8, <1>9, FailingInv

\* The footer comes after the last batch, or its beginning if it fails.
LEMMA FooterFacts ==
    ASSUME IndInv, unread = 0, writer
    PROVE  /\ Footer \in 1 .. Footer
           /\ Written = plan.ends[Footer - 1]
<1>1. Footer - 1 \in Nat /\ Taken = Footer - 1 /\ Footer \in Nat
  BY PlanFacts, WrittenFacts DEF IndInv
<1>2. QED
  BY <1>1 DEF Written

\* A finish that fails leaves the beginning of the footer in the sink.
LEMMA FillEndFailsInv == IndInv /\ FillEndFails => IndInv'
<1>. SUFFICES ASSUME IndInv, FillEndFails
              PROVE  IndInv'
  OBVIOUS
<1>1. /\ Filling /\ unread = 0 /\ writer /\ writer' = FALSE /\ unread' = unread
      /\ plan' = plan /\ position' = position /\ eof' = eof
      /\ emitted' = emitted /\ demand' = demand /\ Error
  BY DEF FillEndFails
<1>. DEFINE i == Footer
            from == plan.ends[i - 1]
            to == plan.ends[i]
<1>2. i \in 1 .. Footer /\ Written = from
  BY <1>1, FooterFacts
<1>3. PICK n \in 1 .. to - from : sink' = sink \o Beginning(i, n)
  BY DEF FillEndFails
<1>4. /\ from \in Nat /\ to - n \in Nat /\ to \in Nat /\ from <= to - n /\ to - n <= to
      /\ Beginning(i, n) = Bytes(from, to - n)
  BY <1>2, PieceFacts
<1>5. Written' = to
  BY <1>1 DEF Written, Footer
<1>6. to = plan.ends[Footer]
  OBVIOUS
<1>. HIDE DEF i, from, to
<1>7. Bytes(from, to - n) \in Seq(Nat)
  BY <1>4, BytesOf
<1>8. /\ Produced' = Produced \o Bytes(from, to - n)
      /\ emitted' \in Seq(Nat) /\ sink' \in Seq(Nat)
  BY <1>1, <1>3, <1>4, <1>7, DrainedBytes, ProducedFacts DEF IndInv
<1>9. Ordered(Produced', Written')
  <2>1. Ordered(Produced, from)
    BY <1>2 DEF IndInv, ProducedInOrder
  <2>2. Produced \in Seq(Nat) /\ from <= from
    BY <1>4, ProducedFacts DEF IndInv
  <2>3. QED
    BY <1>4, <1>5, <1>8, <2>1, <2>2, OrderedWrite
<1>10. unread' \in 0 .. Len(plan.batches) /\ Written' \in 0 .. plan.ends[Footer]
  BY <1>1, <1>4, <1>5, <1>6 DEF IndInv, TypeOK
<1>11. eof = FALSE
  BY <1>1 DEF Filling, IndInv, TypeOK
<1>12. QED
  BY <1>1, <1>8, <1>9, <1>10, <1>11, FailingInv

\* The end of the query completes the encoding.
LEMMA FillEndInv == IndInv /\ FillEnd => IndInv'
<1>. SUFFICES ASSUME IndInv, FillEnd
              PROVE  IndInv'
  OBVIOUS
<1>. DEFINE written == IF writer THEN Piece(Footer) ELSE << >>
<1>1. /\ Filling /\ unread = 0 /\ Drain(written) /\ writer' = FALSE /\ eof' = TRUE
      /\ plan' = plan /\ unread' = unread /\ position' = position
      /\ op' = op /\ failed' = failed /\ demand' = demand
  BY DEF FillEnd
<1>2. Written' = plan.ends[Footer] /\ plan.ends[Footer] \in Nat
  BY <1>1, WrittenFacts DEF IndInv, Written, Footer
<1>3. /\ written \in Seq(Nat)
      /\ Ordered(Produced \o written, plan.ends[Footer])
      /\ ~failed => emitted \o written = Full
  <2>1. Produced \in Seq(Nat) /\ emitted \in Seq(Nat) /\ Ordered(Produced, Written)
    BY ProducedFacts DEF IndInv, ProducedInOrder
  <2>2. CASE writer
    <3>. DEFINE from == plan.ends[Footer - 1]
                to == plan.ends[Footer]
    <3>1. from \in Nat /\ to \in Nat /\ from <= to /\ Written = from /\ written = Bytes(from, to)
      BY <1>1, <2>2, FooterFacts, PieceFacts
    <3>. HIDE DEF written, from
    <3>2. Bytes(from, to) \in Seq(Nat)
      BY <3>1, BytesOf
    <3>3. Ordered(Produced \o Bytes(from, to), to)
      <4>1. from <= from /\ to <= to
        BY <3>1
      <4>2. QED
        BY <2>1, <3>1, <4>1, OrderedWrite
    <3>4. ~failed => emitted \o Bytes(from, to) = Full
      <4>1. ~failed => emitted = Bytes(0, from)
        BY <3>1 DEF IndInv, CompleteSoFar
      <4>2. 0 \in Nat /\ 0 <= from
        BY <3>1
      <4>3. Bytes(0, from) \o Bytes(from, to) = Full
        BY <3>1, <4>2, BytesMeet DEF Full
      <4>4. QED
        BY <4>1, <4>3
    <3>5. QED
      BY <3>1, <3>2, <3>3, <3>4
  <2>3. CASE ~writer
    <3>1. written = << >> /\ Written = plan.ends[Footer]
      BY <2>3 DEF Written
    <3>2. failed
      BY <1>1, <2>3 DEF Filling, IndInv, EndsOnce
    <3>. HIDE DEF written
    <3>3. Produced \o << >> = Produced /\ << >> \in Seq(Nat)
      BY <2>1, ConcatEmptySeq, EmptySeq
    <3>4. QED
      BY <2>1, <3>1, <3>2, <3>3
  <2>4. QED
    BY <2>2, <2>3
<1>. HIDE DEF written
<1>4. /\ Produced' = Produced \o written
      /\ emitted' \in Seq(Nat) /\ sink' \in Seq(Nat)
  BY <1>1, <1>3, DrainedBytes, ProducedFacts DEF IndInv
<1>5. ProducedInOrder' /\ (emitted \in Seq(AllBytes))' /\ (sink \in Seq(AllBytes))'
  <2>1. Ordered(Produced', Written') /\ Written' \in 0 .. plan.ends[Footer]
    BY <1>2, <1>3, <1>4
  <2>2. QED
    BY <1>1, <1>4, <2>1, WrittenInOrder DEF IndInv
<1>6. TypeOK' /\ TargetOK'
  <2>1. unread' \in 0 .. Len(plan.batches) /\ eof' \in BOOLEAN /\ failed' \in BOOLEAN /\ writer' \in BOOLEAN
    BY <1>1 DEF IndInv, TypeOK
  <2>2. QED
    BY <1>1, <1>5, <2>1, FillType
<1>7. CompleteSoFar'
  <2>1. SUFFICES ASSUME ~failed
                 PROVE  sink' = << >> /\ emitted' = Full
    BY <1>1, <1>2 DEF CompleteSoFar, Full
  <2>2. sink = << >>
    BY <2>1 DEF IndInv, CompleteSoFar
  <2>3. emitted \o << >> = emitted
    BY ConcatEmptySeq, ProducedFacts DEF IndInv
  <2>4. QED
    BY <1>1, <1>3, <2>1, <2>2, <2>3 DEF Drain
<1>8. EndsOnce'
  BY <1>1 DEF IndInv, EndsOnce
<1>9. Lazy'
  <2>1. SUFFICES ASSUME ~failed
                 PROVE  Lazy'
    BY <1>1 DEF Lazy
  <2>2. writer
    BY <1>1, <2>1 DEF Filling, IndInv, EndsOnce
  <2>3. Footer - 1 = Len(plan.batches)
    BY PlanFacts DEF IndInv
  <2>4. plan.ends[Len(plan.batches)] < demand
    BY <1>1, <2>1, <2>2, <2>3, FooterFacts, FillingIsAskedFor
  <2>5. QED
    BY <1>1, <2>4 DEF IndInv, Lazy
<1>10. QED
  BY <1>5, <1>6, <1>7, <1>8, <1>9 DEF IndInv

-----------------------------------------------------------------------------
(***************************************************************************)
(* The invariants                                                          *)
(***************************************************************************)

\* What a read returns.
Data == SubSeq(emitted, position + 1, Smaller(position + op.arg, Len(emitted)))

\* What a read returns is within what was encoded, which a Vec holds.
LEMMA ReadFacts ==
    ASSUME IndInv, ReadDone
    PROVE  /\ op \in Ops /\ op.kind = "read" /\ op.arg \in 0 .. MaxPosition
           /\ Len(emitted) \in Nat /\ Len(emitted) <= MaxPosition
           /\ position \in Nat
           /\ position + op.arg < Len(emitted) => Len(Data) = op.arg
           /\ ~(position + op.arg < Len(emitted)) =>
                Len(Data) = IF position < Len(emitted) THEN Len(emitted) - position ELSE 0
<1>1. op \in Ops /\ op.kind = "read"
  BY DEF ReadDone, Filled, IndInv, TypeOK
<1>2. op.arg \in 0 .. MaxPosition
  BY <1>1, SizesAssumption DEF Ops
<1>3. position \in Nat /\ position <= MaxPosition
  BY BoundsAssumption DEF IndInv, TypeOK
<1>4. Len(emitted) \in Nat /\ Len(emitted) <= MaxPosition
  <2>1. Len(Produced) = Len(emitted) + Len(sink) /\ emitted \in Seq(Nat) /\ sink \in Seq(Nat)
    BY ProducedFacts, Joined DEF IndInv, Produced
  <2>2. Len(emitted) \in Nat /\ Len(sink) \in Nat
    BY <2>1
  <2>3. Len(Produced) <= Written /\ Written <= plan.ends[Footer] /\ plan.ends[Footer] <= MaxPosition
        /\ Written \in Nat /\ plan.ends[Footer] \in Nat
    BY WrittenFacts DEF IndInv, ProducedInOrder, Ordered
  <2>4. QED
    BY <2>1, <2>2, <2>3, BoundsAssumption
<1>5. \A seq \in Seq(Nat), from, to \in Nat :
         Len(SubSeq(seq, from, to)) = IF from <= to THEN to - from + 1 ELSE 0
  BY SubSeqProperties
<1>. DEFINE to == Smaller(position + op.arg, Len(emitted))
<1>6. /\ to \in Nat /\ position + 1 \in Nat
      /\ position + op.arg < Len(emitted) => to = position + op.arg
      /\ ~(position + op.arg < Len(emitted)) => to = Len(emitted)
  BY <1>2, <1>3, <1>4 DEF Smaller
<1>. HIDE DEF to
<1>7. Len(Data) = IF position + 1 <= to THEN to - (position + 1) + 1 ELSE 0
  <2>1. emitted \in Seq(Nat)
    BY ProducedFacts DEF IndInv
  <2>2. Data = SubSeq(emitted, position + 1, to)
    BY DEF Data, to
  <2>3. QED
    BY <1>5, <1>6, <2>1, <2>2
<1>8. position + op.arg < Len(emitted) => Len(Data) = op.arg
  BY <1>2, <1>3, <1>4, <1>6, <1>7
<1>9. ~(position + op.arg < Len(emitted)) =>
         Len(Data) = IF position < Len(emitted) THEN Len(emitted) - position ELSE 0
  BY <1>2, <1>3, <1>4, <1>6, <1>7
<1>10. QED
  BY <1>1, <1>2, <1>3, <1>4, <1>8, <1>9

\* Every step keeps the invariant.
LEMMA NextInv == IndInv /\ [Next]_vars => IndInv'
<1>. SUFFICES ASSUME IndInv, [Next]_vars
              PROVE  IndInv'
  OBVIOUS
<1>1. CASE Call
  BY <1>1, CallInv
<1>2. CASE FillBatch
  BY <1>2, FillBatchInv
<1>3. CASE FillRejected
  BY <1>3, FillRejectedInv
<1>4. CASE FillFailed
  BY <1>4, FillFailedInv
<1>5. CASE FillEnd
  BY <1>5, FillEndInv
<1>6. CASE FillEndFails
  BY <1>6, FillEndFailsInv
<1>7. CASE ReadDone
  <2>1. UNCHANGED <<file, demand>> /\ op' = None
    BY <1>7 DEF ReadDone, Return
  <2>2. position' = position + Len(Data)
    BY <1>7 DEF ReadDone, Data
  <2>3. position \in 0 .. MaxPosition
    BY DEF IndInv, TypeOK
  <2>4. position' \in 0 .. MaxPosition
    <3>1. CASE position + op.arg < Len(emitted)
      BY <3>1, <1>7, <2>2, <2>3, ReadFacts, BoundsAssumption
    <3>2. CASE ~(position + op.arg < Len(emitted)) /\ position < Len(emitted)
      BY <3>2, <1>7, <2>2, <2>3, ReadFacts, BoundsAssumption
    <3>3. CASE ~(position + op.arg < Len(emitted)) /\ ~(position < Len(emitted))
      BY <3>3, <1>7, <2>2, <2>3, ReadFacts, BoundsAssumption
    <3>4. QED
      BY <3>1, <3>2, <3>3
  <2>5. QED
    BY <2>1, <2>4, ReturnInv
<1>8. CASE SeekDone
  <2>1. UNCHANGED <<file, demand>> /\ op' = None /\ position' = op.arg
    BY <1>8 DEF SeekDone, Return
  <2>2. op \in Ops /\ op.kind = "seek"
    BY <1>8 DEF SeekDone, Filled, IndInv, TypeOK
  <2>3. op.arg \in 0 .. MaxPosition
    BY <2>2 DEF Ops
  <2>4. QED
    BY <2>1, <2>3, ReturnInv
<1>9. CASE SeekEndDone
  <2>1. UNCHANGED <<file, demand>> /\ op' = None
    BY <1>9 DEF SeekEndDone, Return
  <2>2. position' \in 0 .. MaxPosition
    BY <1>9 DEF SeekEndDone, IndInv, TypeOK
  <2>3. QED
    BY <2>1, <2>2, ReturnInv
<1>10. CASE UNCHANGED vars
  <2>1. /\ UNCHANGED file /\ op' = op /\ demand' = demand /\ position' = position
        /\ plan' = plan /\ unread' = unread /\ writer' = writer /\ failed' = failed
    BY <1>10 DEF vars, file
  <2>2. Ops' = Ops /\ Footer' = Footer
    BY <2>1, FileSame DEF Ops
  <2>3. TypeOK'
    BY <2>1, <2>2, FileSame DEF IndInv, TypeOK
  <2>4. TargetOK' /\ Lazy'
    BY <2>1, <2>2 DEF IndInv, TargetOK, Lazy
  <2>5. QED
    BY <2>1, <2>3, <2>4, FileSame DEF IndInv
<1>11. QED
  BY <1>1, <1>2, <1>3, <1>4, <1>5, <1>6, <1>7, <1>8, <1>9, <1>10 DEF Next, Execute

\* The inductive invariant holds of every reachable state.
THEOREM Inductive == Spec => []IndInv
  BY InitInv, NextInv, PTL DEF Spec

\* Every variable keeps its type: no byte is from outside the encoding, and the
\* position stays a u64 although reads and seeks move it (stream.rs:141-209).
THEOREM TypeCorrect == Spec => []TypeOK
<1>1. IndInv => TypeOK
  BY DEF IndInv
<1>2. QED
  BY <1>1, Inductive, PTL

\* To a caller no call has failed, a known size is that of the whole encoding
\* (stream.rs:183-195).
THEOREM SizeIsComplete == Spec => []KnownSizeIsComplete
<1>1. IndInv => KnownSizeIsComplete
  BY DEF IndInv, EndsOnce, CompleteSoFar, KnownSizeIsComplete, Written, Full
<1>2. QED
  BY <1>1, Inductive, PTL

\* Until a call has failed, no batch is taken and the writer not finished before
\* a call needs what they give, whatever the sizes (stream.rs:113).
THEOREM EncodesLazily == Spec => []Lazy
<1>1. IndInv => Lazy
  BY DEF IndInv
<1>2. QED
  BY <1>1, Inductive, PTL

\* Whatever errors the calls went on after, the bytes are in order and none is
\* there twice (stream.rs:107-124).
THEOREM BytesInOrder == Spec => []InOrder
<1>1. IndInv => InOrder
  <2>. SUFFICES ASSUME IndInv
                PROVE  InOrder
    OBVIOUS
  <2>1. emitted \in Seq(Nat) /\ sink \in Seq(Nat) /\ Written \in Nat
    BY ProducedFacts, WrittenFacts DEF IndInv
  <2>2. Ordered(emitted \o sink, Written)
    BY DEF IndInv, ProducedInOrder, Produced
  <2>3. Ordered(emitted, Written)
    BY <2>1, <2>2, OrderedPrefix
  <2>4. QED
    BY <2>3 DEF Ordered, InOrder
<1>2. QED
  BY <1>1, Inductive, PTL

-----------------------------------------------------------------------------
(***************************************************************************)
(* The file that has all its bytes from the start                          *)
(***************************************************************************)

\* The encoding of the whole result, as a sequence of places.
LEMMA FullFacts ==
    ASSUME IndInv
    PROVE  /\ Full \in Seq(Nat)
           /\ Len(Full) = plan.ends[Footer]
           /\ Len(Full) \in Nat /\ Len(Full) <= MaxPosition
           /\ \A k \in 1 .. Len(Full) : Full[k] = k
<1>1. plan.ends[Footer] \in Nat /\ plan.ends[Footer] <= MaxPosition
  BY WrittenFacts DEF IndInv
<1>2. QED
  BY <1>1, BytesFromStart DEF Full

\* As long as no call has failed, what was encoded is the beginning of it all.
LEMMA EmittedFacts ==
    ASSUME IndInv, ~failed
    PROVE  /\ emitted \in Seq(Nat)
           /\ Len(emitted) \in Nat /\ Len(emitted) <= Len(Full)
           /\ \A k \in 1 .. Len(emitted) : emitted[k] = Full[k]
<1>1. Written \in Nat /\ Written <= plan.ends[Footer]
  BY WrittenFacts DEF IndInv
<1>2. emitted = Bytes(0, Written)
  BY DEF IndInv, CompleteSoFar
<1>3. emitted \in Seq(Nat) /\ Len(emitted) = Written /\ \A k \in 1 .. Written : emitted[k] = k
  BY <1>1, <1>2, BytesFromStart
<1>4. \A k \in 1 .. Written : k \in 1 .. Len(Full)
  BY <1>1, FullFacts
<1>5. QED
  BY <1>1, <1>3, <1>4, FullFacts

\* What a part of a sequence is.
LEMMA PartOf ==
    ASSUME NEW s, NEW from \in Int, NEW to \in Int, \A i \in from .. to : s[i] \in Nat
    PROVE  LET part == SubSeq(s, from, to) IN
           /\ part \in Seq(Nat)
           /\ Len(part) = IF from <= to THEN to - from + 1 ELSE 0
           /\ \A k \in 1 .. to - from + 1 : part[k] = s[from + k - 1]
BY SubSeqProperties

\* A part of a sequence's beginning is that part of the sequence.
LEMMA SamePart ==
    \A s, t \in Seq(Nat), from, to \in Nat :
      /\ Len(s) <= Len(t)
      /\ \A k \in 1 .. Len(s) : s[k] = t[k]
      /\ 1 <= from /\ to <= Len(s)
      => SubSeq(s, from, to) = SubSeq(t, from, to)
<1>. SUFFICES ASSUME NEW s \in Seq(Nat), NEW t \in Seq(Nat), NEW from \in Nat, NEW to \in Nat,
                     Len(s) <= Len(t), \A k \in 1 .. Len(s) : s[k] = t[k],
                     1 <= from, to <= Len(s)
              PROVE  SubSeq(s, from, to) = SubSeq(t, from, to)
  OBVIOUS
<1>1. Len(s) \in Nat /\ Len(t) \in Nat
  OBVIOUS
<1>2. \A k \in 1 .. to - from + 1 : from + k - 1 \in 1 .. Len(s)
  BY <1>1
<1>3. \A i \in from .. to : s[i] \in Nat /\ t[i] \in Nat
  <2>1. \A i \in from .. to : i \in 1 .. Len(s) /\ i \in 1 .. Len(t)
    BY <1>1
  <2>2. QED
    BY <2>1, ElementOfSeq
<1>. DEFINE a == SubSeq(s, from, to)
            b == SubSeq(t, from, to)
<1>0. from \in Int /\ to \in Int
  OBVIOUS
<1>4. /\ a \in Seq(Nat) /\ Len(a) = IF from <= to THEN to - from + 1 ELSE 0
      /\ \A k \in 1 .. to - from + 1 : a[k] = s[from + k - 1]
  BY <1>0, <1>3, PartOf
<1>5. /\ b \in Seq(Nat) /\ Len(b) = IF from <= to THEN to - from + 1 ELSE 0
      /\ \A k \in 1 .. to - from + 1 : b[k] = t[from + k - 1]
  BY <1>0, <1>3, PartOf
<1>. HIDE DEF a, b
<1>6. Len(a) = Len(b) /\ Len(a) \in Nat /\ \A k \in 1 .. Len(a) : k \in 1 .. to - from + 1
  BY <1>4, <1>5
<1>7. \A k \in 1 .. Len(a) : a[k] = b[k]
  BY <1>2, <1>4, <1>5, <1>6
<1>8. a = b
  BY <1>4, <1>5, <1>6, <1>7, SeqEqual
<1>9. QED
  BY <1>8 DEF a, b

\* Nothing is read from the end on.
LEMMA EmptyPart ==
    \A s \in Seq(Nat), from, to \in Nat : to < from => SubSeq(s, from, to) = << >>
  BY SubSeqEmpty

\* A read of a file no call has failed returns what is in the whole encoding.
LEMMA ReadIsOfAll ==
    ASSUME IndInv, ReadDone, ~failed
    PROVE  op.arg \in 0 .. MaxPosition /\ Data = Materialized!Data(op.arg)
<1>1. /\ op \in Ops /\ op.kind = "read" /\ op # None /\ op.arg \in 0 .. MaxPosition
      /\ position \in Nat
  BY ReadFacts DEF ReadDone, Filled
<1>2. op.target = Smaller(position + op.arg, MaxPosition) /\ op.target # None
  <2>1. op.target \in Int
    BY <1>1, BoundsAssumption DEF Ops
  <2>2. QED
    BY <1>1, <2>1, OpsAreSome DEF IndInv, TargetOK
<1>3. /\ Len(emitted) \in Nat /\ Len(Full) \in Nat /\ Len(emitted) <= Len(Full)
      /\ Len(Full) <= MaxPosition
      /\ emitted \in Seq(Nat) /\ Full \in Seq(Nat)
      /\ \A k \in 1 .. Len(emitted) : emitted[k] = Full[k]
  BY FullFacts, EmittedFacts
<1>4. emitted = Full \/ op.target <= Len(emitted)
  <2>1. eof => emitted = Full
    BY DEF IndInv, EndsOnce, CompleteSoFar, Written, Full
  <2>2. op.target \in Int
    BY <1>1, <1>2, BoundsAssumption DEF Smaller
  <2>3. ~eof => op.target <= Len(emitted)
    BY <1>1, <1>2, <1>3, <2>2 DEF ReadDone, Filled, Filling
  <2>4. QED
    BY <2>1, <2>3
<1>5. position + op.arg \in Nat /\ MaxPosition \in Nat
  BY <1>1, BoundsAssumption
<1>6. Materialized!Data(op.arg)
        = SubSeq(Full, position + 1, Smaller(position + op.arg, Len(Full)))
  BY DEF Materialized!Data, Materialized!End, Smaller
<1>7. CASE emitted = Full
  BY <1>1, <1>6, <1>7 DEF Data
<1>8. CASE op.target <= Len(emitted)
  <2>1. CASE position + op.arg <= MaxPosition
    <3>1. position + op.arg <= Len(emitted)
      BY <2>1, <1>2, <1>3, <1>5, <1>8 DEF Smaller
    <3>2. /\ Smaller(position + op.arg, Len(emitted)) = position + op.arg
          /\ Smaller(position + op.arg, Len(Full)) = position + op.arg
      BY <3>1, <1>3, <1>5 DEF Smaller
    <3>3. position + 1 \in Nat /\ 1 <= position + 1
      BY <1>1
    <3>4. SubSeq(emitted, position + 1, position + op.arg)
            = SubSeq(Full, position + 1, position + op.arg)
      BY <3>1, <3>3, <1>3, <1>5, SamePart
    <3>5. QED
      BY <3>2, <3>4, <1>1, <1>6 DEF Data
  <2>2. CASE position + op.arg > MaxPosition
    <3>1. Len(emitted) = Len(Full)
      BY <2>2, <1>2, <1>3, <1>5, <1>8 DEF Smaller
    <3>2. emitted = Full
      BY <3>1, <1>3
    <3>3. QED
      BY <3>2, <1>7
  <2>3. QED
    BY <2>1, <2>2, <1>5
<1>9. QED
  BY <1>4, <1>7, <1>8

mVars == <<Full, Faulty, failed, position, reply>>

\* A step is one of the materialized file's, or changes nothing of it.
LEMMA StepImplements ==
    ASSUME IndInv, [Next]_vars
    PROVE  [Materialized!Next]_mVars
<1>1. Full' = Full /\ Faulty' = Faulty
  <2>1. plan' = plan
    BY DEF Next, Call, Execute, Read, ReadNothing, SeekStart, SeekCurrent, SeekFrom, SeekEnd,
           FillBatch, FillRejected, FillFailed, FillEnd, FillEndFails,
           ReadDone, SeekDone, SeekEndDone, file, vars
  <2>2. QED
    BY <2>1 DEF Full, Footer, Faulty
<1>2. position \in 0 .. MaxPosition /\ position \in Nat
  BY BoundsAssumption DEF IndInv, TypeOK
<1>3. ASSUME UNCHANGED <<failed, position, reply>>
      PROVE  [Materialized!Next]_mVars
  BY <1>1, <1>3 DEF mVars
<1>4. ASSUME NEW from \in {0, position, Len(Full)}, NEW offset \in Offsets,
             failed' = failed, Materialized!Seek(from, offset)
      PROVE  Materialized!Next
  <2>1. offset \in -MaxPosition .. MaxPosition
    BY SizesAssumption
  <2>2. Materialized!Succeed
    BY <2>1, <1>4 DEF Materialized!Succeed
  <2>3. QED
    BY <2>2, <1>1 DEF Materialized!Next
<1>5. ASSUME NEW n \in 0 .. MaxPosition, failed' = failed, Materialized!Read(n)
      PROVE  Materialized!Next
  BY <1>1, <1>5 DEF Materialized!Next, Materialized!Succeed
<1>6. ASSUME Error, position' = position, Faulty
      PROVE  Materialized!Next
  BY <1>1, <1>6 DEF Materialized!Next, Materialized!Fail, Error, Return
<1>7. CASE failed /\ failed'
  BY <1>1, <1>7 DEF Materialized!Next, Materialized!Unspecified
<1>8. CASE Call
  <2>1. ASSUME NEW n \in Requests, Read(n)
        PROVE  [Materialized!Next]_mVars
    BY <2>1, <1>3 DEF Read, file
  <2>2. CASE ReadNothing
    <3>1. Materialized!Data(0) = << >>
      <4>1. /\ Materialized!End(0) \in Nat /\ Materialized!End(0) < position + 1
            /\ position + 1 \in Nat
        BY <1>2, FullFacts DEF Materialized!End
      <4>2. QED
        BY <4>1, FullFacts, EmptyPart DEF Materialized!Data
    <3>2. Len(Materialized!Data(0)) = 0
      BY <3>1, EmptySeq
    <3>3. position' = position + 0 /\ reply' = [data |-> << >>] /\ failed' = failed
      BY <2>2, <1>2 DEF ReadNothing, Return, file
    <3>4. Materialized!Read(0)
      BY <3>1, <3>2, <3>3 DEF Materialized!Read
    <3>5. 0 \in 0 .. MaxPosition
      BY BoundsAssumption
    <3>6. QED
      BY <3>3, <3>4, <3>5, <1>5
  <2>3. ASSUME NEW from \in {0, position}, NEW offset \in Offsets, SeekFrom(from, offset)
        PROVE  [Materialized!Next]_mVars
    <3>1. CASE from + offset \in 0 .. MaxPosition
      BY <2>3, <3>1, <1>3 DEF SeekFrom, file
    <3>2. CASE from + offset \notin 0 .. MaxPosition
      <4>1. Materialized!Seek(from, offset) /\ failed' = failed
        BY <2>3, <3>2 DEF SeekFrom, Return, file, Materialized!Seek
      <4>2. QED
        BY <4>1, <1>4
    <3>3. QED
      BY <3>1, <3>2
  <2>4. ASSUME NEW offset \in Offsets, SeekEnd(offset)
        PROVE  [Materialized!Next]_mVars
    BY <2>4, <1>3 DEF SeekEnd, file
  <2>5. QED
    BY <1>8, <2>1, <2>2, <2>3, <2>4 DEF Call, SeekStart, SeekCurrent
<1>9. CASE FillBatch \/ FillEnd
  BY <1>9, <1>3 DEF FillBatch, FillEnd
<1>10. CASE FillRejected \/ FillFailed
  <2>1. unread > 0 /\ plan.batches[Upcoming] # "encoded"
    BY <1>10 DEF FillRejected, FillFailed
  <2>2. Upcoming \in DOMAIN plan.batches
    BY <2>1, PlanFacts, WrittenFacts DEF IndInv
  <2>3. Faulty
    BY <2>1, <2>2 DEF Faulty
  <2>4. QED
    BY <1>10, <2>3, <1>6 DEF FillRejected, FillFailed
<1>11. CASE FillEndFails
  BY <1>11, <1>6 DEF FillEndFails, Faulty
<1>12. CASE ReadDone
  <2>1. failed' = failed
    BY <1>12 DEF ReadDone, file
  <2>2. CASE ~failed
    <3>1. op.arg \in 0 .. MaxPosition /\ Data = Materialized!Data(op.arg)
      BY <1>12, <2>2, ReadIsOfAll
    <3>2. reply' = [data |-> Data] /\ position' = position + Len(Data)
      BY <1>12 DEF ReadDone, Return, Data
    <3>3. Materialized!Read(op.arg)
      BY <3>1, <3>2 DEF Materialized!Read
    <3>4. QED
      BY <2>1, <3>1, <3>3, <1>5
  <2>3. QED
    BY <2>1, <2>2, <1>7
<1>13. CASE SeekDone
  <2>1. op \in Ops /\ op.kind = "seek"
    BY <1>13 DEF SeekDone, Filled, IndInv, TypeOK
  <2>2. op.arg \in 0 .. MaxPosition /\ 0 + op.arg = op.arg
    BY <2>1 DEF Ops
  <2>3. position' = op.arg /\ reply' = [at |-> op.arg] /\ failed' = failed
    BY <1>13 DEF SeekDone, Return, file
  <2>4. Materialized!Seek(0, op.arg)
    BY <2>2, <2>3 DEF Materialized!Seek
  <2>5. op.arg \in -MaxPosition .. MaxPosition
    BY <2>2, BoundsAssumption
  <2>6. Materialized!Succeed
    BY <2>3, <2>4, <2>5 DEF Materialized!Succeed
  <2>7. QED
    BY <2>6, <1>1 DEF Materialized!Next
<1>14. CASE SeekEndDone
  <2>1. failed' = failed
    BY <1>14 DEF SeekEndDone, file
  <2>2. CASE ~failed
    <3>1. op \in Ops /\ op.kind = "end" /\ op # None /\ ~Filling
      BY <1>14 DEF SeekEndDone, Filled, IndInv, TypeOK
    <3>2. op.target = None /\ op.arg \in Offsets
      BY <3>1 DEF Ops
    <3>3. emitted = Full
      BY <2>2, <3>1, <3>2 DEF Filling, IndInv, EndsOnce, CompleteSoFar, Written, Full
    <3>4. Materialized!Seek(Len(Full), op.arg)
      BY <1>14, <3>3 DEF SeekEndDone, Return, Materialized!Seek
    <3>5. QED
      BY <2>1, <3>2, <3>4, <1>4
  <2>3. QED
    BY <2>1, <2>2, <1>7
<1>15. CASE UNCHANGED vars
  BY <1>15, <1>3 DEF vars
<1>16. QED
  BY <1>8, <1>9, <1>10, <1>11, <1>12, <1>13, <1>14, <1>15 DEF Next, Execute

\* Up to its first error a lazy file is, to its caller, a materialized one:
\* reads, seeks and their errors are those of a Cursor over all the bytes.
THEOREM LazyFileIsAByteFile == Spec => ImplementsByteFile
<1>1. Init => Materialized!Init
  BY DEF Init, Materialized!Init
<1>2. IndInv /\ [Next]_vars => [Materialized!Next]_mVars
  BY StepImplements
<1>3. QED
  BY <1>1, <1>2, Inductive, PTL DEF Spec, ImplementsByteFile, Materialized!Spec, mVars
===============================================================================
