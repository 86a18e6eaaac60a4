-------------------------- MODULE PythonCalls_proofs --------------------------
(***************************************************************************)
(* For any threads, files and programs: whichever threads close a file or  *)
(* leave its with-block, its rows are committed at most once; and whatever *)
(* they call, a thread that can no more return with the GIL is in one of   *)
(* three cycles, and one that can no more return without it waits for a    *)
(* reader that is there.  Calls of a Python adapter that overlap no other  *)
(* have their own rows.                                                    *)
(*                                                                         *)
(* A query that was started is never there to be started again, and so no  *)
(* file is opened twice.  The threads take the queries through steps of    *)
(* QueryStream only, so what is proved of these holds here.                *)
(***************************************************************************)
EXTENDS PythonCalls, SequenceTheorems, TLAPS

-----------------------------------------------------------------------------
(***************************************************************************)
(* The inductive invariant.  A thread that is past the lock of a file has  *)
(* it, and the file is there; a file that is there is not committed; and a *)
(* query that is being opened is one thread's, and no file yet.            *)
(***************************************************************************)

Places ==
    {"python", "lock", "inside", "close", "discard", "insert", "statement", "attach", "opening",
     "attach to drain", "drain", "drained", "calling", "return"}

WorkerPlaces ==
    {"idle", "acquire", "fetch", "send", "send last", "acquire again", "describe", "run",
     "report", "ended"}

\* The calls that come to a place.
KindsAt(place) ==
    CASE place = "lock" -> {"read", "write", "close", "discard"}
      [] place = "inside" -> {"read", "write"}
      [] place \in {"close", "insert"} -> {"close"}
      [] place = "discard" -> {"discard"}
      [] place \in {"statement", "attach"} -> {"close", "ask"}
      [] place = "opening" -> {"open", "query_arrow"}
      [] place \in {"attach to drain", "drain", "drained"} -> {"query_arrow"}
      [] place = "calling" -> {"call"}
      [] OTHER -> {"open", "read", "write", "close", "discard", "query_arrow", "call", "ask"}

\* Past the lock of its file.
Holding(t) ==
    \/ at[t] \in {"inside", "close", "discard", "insert"}
    \/ at[t] \in {"statement", "attach"} /\ Kind(t) # "ask"

\* Opening a query that is to become a file.
Opening(t) == at[t] \in {"opening", "return"} /\ Kind(t) = "open"

Typed ==
    /\ at \in [Threads -> Places]
    /\ on \in [Threads -> AllCalls \cup {NoCall}]
    /\ left \in [Threads -> SUBSET AllCalls]
    /\ lock \in [Files -> Threads \cup {None}]
    /\ open \subseteq Files
    /\ commits \in [Files -> Nat]
    /\ pc \in [Queries \cup Ops -> WorkerPlaces]
    /\ \A t \in Threads : at[t] # "python" => on[t] \in AllCalls /\ Kind(t) \in KindsAt(at[t])

LockHeld == \A t \in Threads : Holding(t) => User(t) \in open /\ lock[User(t)] = t

OpenNotCommitted == \A f \in open : commits[f] = 0

\* A query that was not started is no file, and nobody is opening it.
NotStarted ==
    \A q \in Queries : pc[q] = "idle" =>
        /\ q \notin open
        /\ commits[q] = 0
        /\ \A t \in Threads : Opening(t) => User(t) # q

\* A query is opened by one thread, and then for the first time.
OpenedOnce ==
    /\ \A t \in Threads : Opening(t) => User(t) \notin open /\ commits[User(t)] = 0
    /\ \A t, u \in Threads : Opening(t) /\ Opening(u) /\ User(t) = User(u) => t = u

IInv == Typed /\ LockHeld /\ OpenNotCommitted /\ NotStarted /\ OpenedOnce /\ CommittedOnce

-----------------------------------------------------------------------------
(***************************************************************************)
(* Lemmas.                                                                 *)
(***************************************************************************)

\* Nothing becomes idle.
StartedOnce ==
    /\ pc' \in [Queries \cup Ops -> WorkerPlaces]
    /\ \A x \in Queries \cup Ops : pc'[x] = "idle" => pc[x] = "idle"

LEMMA MoveOn ==
    ASSUME Typed,
           NEW x, NEW from, NEW to \in WorkerPlaces \ {"idle"},
           Streams!Goto(x, from, to)
    PROVE  StartedOnce
BY DEF Typed, Streams!Goto, StartedOnce

\* A query, once it was started, is not idle again.
LEMMA QueriesStartOnce ==
    ASSUME Typed, NEW q,
           \/ Streams!Query(q) \/ Streams!Opened(q) \/ Streams!Receive(q)
           \/ Streams!ReceiveEnd(q) \/ Streams!Drop(q) \/ Streams!Begin(q)
           \/ Streams!Worker(q) \/ Streams!Other(q)
           \/ Streams!ReturnConnection
           \/ UNCHANGED streamVars
    PROVE  StartedOnce
<1>1. CASE pc' = pc
  BY <1>1 DEF Typed, StartedOnce
<1>2. CASE Streams!Worker(q)
  BY <1>1, <1>2, MoveOn
     DEF Streams!Worker, Streams!Fetch, Streams!FetchTimesOut, Streams!FullChunk,
         Streams!ShortChunk, Streams!Send, Streams!SendLast, Streams!Exhausted, Streams!NoRows,
         Streams!FetchSchema, Streams!EmptyBatch, Streams!QueryFails, Streams!Report,
         Streams!TakeCore, Streams!Acquire, WorkerPlaces
<1>3. CASE Streams!Other(q)
  BY <1>1, <1>3, MoveOn
     DEF Streams!Other, Streams!OpAcquire, Streams!OpTimesOut, Streams!OpRun, Streams!TakeCore,
         Streams!Acquire, WorkerPlaces
<1>4. CASE Streams!Query(q) \/ Streams!Begin(q)
  BY <1>4, MoveOn DEF Streams!Query, Streams!Begin, WorkerPlaces
<1> QED
  BY <1>1, <1>2, <1>3, <1>4
     DEF Streams!Opened, Streams!Receive, Streams!ReceiveEnd, Streams!Drop,
         Streams!ReturnConnection, streamVars

\* Calls and their kinds.
LEMMA CallKinds ==
    ASSUME Typed, NEW t \in Threads, at[t] # "python"
    PROVE  /\ Kind(t) \in {"open", "read", "query_arrow"} => User(t) \in Queries
           /\ Kind(t) \in {"write", "close", "discard"} => User(t) \in Files
           /\ Kind(t) = "call" => User(t) \in Ops
           /\ Kind(t) = "ask" => User(t) \in Asks
BY DEF Typed, AllCalls, Kind, User

\* A call goes on without touching its file.
LEMMA MovesKeep ==
    ASSUME IInv, StartedOnce,
           NEW t \in Threads, NEW to \in Places \ {"python", "lock"},
           at[t] # "python",
           Kind(t) \in KindsAt(to),
           at' = [at EXCEPT ![t] = to],
           Holding(t)' => Holding(t),
           Opening(t)' => Opening(t),
           UNCHANGED <<fileVars, on>>,
           left' \in [Threads -> SUBSET AllCalls]
    PROVE  IInv'
<1>1. \A u \in Threads :
         /\ Kind(u)' = Kind(u) /\ User(u)' = User(u)
         /\ Holding(u)' => Holding(u)
         /\ Opening(u)' => Opening(u)
  BY DEF IInv, Typed, Kind, User, Holding, Opening
<1>2. Typed'
  BY <1>1 DEF IInv, Typed, StartedOnce, fileVars, Kind
<1>3. LockHeld' /\ OpenNotCommitted' /\ CommittedOnce'
  BY <1>1 DEF IInv, LockHeld, OpenNotCommitted, CommittedOnce, fileVars
<1>4. NotStarted' /\ OpenedOnce'
  BY <1>1 DEF IInv, StartedOnce, NotStarted, OpenedOnce, fileVars
<1> QED
  BY <1>2, <1>3, <1>4 DEF IInv

\* A call gives its file back, or up, committed or not.
LEMMA ReleasesKeep ==
    ASSUME IInv, StartedOnce,
           NEW t \in Threads,
           Holding(t),
           at' = [at EXCEPT ![t] = "return"],
           on' = on,
           left' \in [Threads -> SUBSET AllCalls],
           lock' = [lock EXCEPT ![User(t)] = None],
           \/ UNCHANGED <<open, commits>>
           \/ open' = open \ {User(t)} /\ UNCHANGED commits
           \/ open' = open \ {User(t)} /\ commits' = [commits EXCEPT ![User(t)] = @ + 1]
    PROVE  IInv'
<1> DEFINE f == User(t)
<1>1. f \in open /\ f \in Files /\ commits[f] = 0 /\ lock[f] = t
  BY DEF IInv, Typed, LockHeld, OpenNotCommitted
<1>2. \A u \in Threads :
         /\ Kind(u)' = Kind(u) /\ User(u)' = User(u)
         /\ Holding(u)' => Holding(u) /\ u # t
         /\ Opening(u)' => Opening(u)
  <2>1. Kind(t) # "open"
    BY DEF IInv, Typed, Holding, KindsAt
  <2> QED
    BY <2>1 DEF IInv, Typed, Kind, User, Holding, Opening
<1>3. Typed'
  <2>1. commits' \in [Files -> Nat] /\ open' \subseteq Files
    BY <1>1 DEF IInv, Typed
  <2>2. lock' \in [Files -> Threads \cup {None}]
    BY DEF IInv, Typed
  <2>3. \A u \in Threads : at'[u] # "python" => on'[u] \in AllCalls /\ Kind(u)' \in KindsAt(at'[u])
    BY <1>2 DEF IInv, Typed, KindsAt, Holding
  <2> QED
    BY <2>1, <2>2, <2>3 DEF IInv, Typed, StartedOnce, Places
<1>4. LockHeld'
  <2>1. ASSUME NEW u \in Threads, Holding(u)'
        PROVE  User(u)' \in open' /\ lock'[User(u)'] = u
    <3>1. User(u) \in open /\ lock[User(u)] = u /\ User(u) # f
      BY <1>1, <1>2, <2>1 DEF IInv, LockHeld
    <3> QED
      BY <1>2, <3>1 DEF IInv, Typed
  <2> QED
    BY <2>1 DEF LockHeld
<1>5. OpenNotCommitted' /\ CommittedOnce'
  BY <1>1 DEF IInv, Typed, OpenNotCommitted, CommittedOnce
<1>6. \A g \in Files \ {f} : commits'[g] = commits[g]
  BY DEF IInv, Typed
<1>7. NotStarted'
  <2>1. \A q \in Queries : pc[q] = "idle" => q # f
    BY <1>1 DEF IInv, NotStarted
  <2> QED
    BY <1>2, <1>6, <2>1 DEF IInv, NotStarted, StartedOnce, Files
<1>8. OpenedOnce'
  <2>1. \A u \in Threads : Opening(u) => User(u) # f /\ User(u) \in Files
    BY <1>1, CallKinds DEF IInv, OpenedOnce, Opening, Files
  <2> QED
    BY <1>2, <1>6, <2>1 DEF IInv, OpenedOnce
<1> QED
  BY <1>3, <1>4, <1>5, <1>7, <1>8 DEF IInv

-----------------------------------------------------------------------------
(***************************************************************************)
(* What the calls do, and how they begin and end.                          *)
(***************************************************************************)

\* Steps that go on with the file as it is.
LEMMA GoingOnKeeps ==
    ASSUME IInv, NEW t \in Threads,
           \/ Opened(t) \/ AttachToDrain(t) \/ Drain(t) \/ Refuse(t)
           \/ CommitNative(t) \/ CommitPython(t) \/ Statement(t) \/ Attach(t) \/ Called(t)
    PROVE  IInv'
<1> USE DEF Goto, fileVars, Places, Holding, Opening, KindsAt
<1>1. Kind(t)' = Kind(t)
  BY DEF Opened, AttachToDrain, Drain, Refuse, CommitNative, CommitPython, Statement, Attach,
         Called, Kind
<1>2. StartedOnce
  BY QueriesStartOnce
     DEF IInv, Opened, AttachToDrain, Drain, Refuse, CommitNative, CommitPython, Statement,
         Attach, Called
<1>3. CASE Opened(t)
  BY <1>1, <1>2, <1>3, MovesKeep DEF IInv, Typed, Opened
<1>4. CASE AttachToDrain(t) \/ Drain(t)
  BY <1>1, <1>2, <1>4, MovesKeep DEF IInv, Typed, AttachToDrain, Drain
<1>5. CASE Refuse(t)
  BY <1>1, <1>2, <1>5, MovesKeep DEF IInv, Typed, Refuse
<1>6. CASE CommitNative(t) \/ CommitPython(t)
  BY <1>1, <1>2, <1>6, MovesKeep DEF IInv, Typed, CommitNative, CommitPython
<1>7. CASE Statement(t) \/ Attach(t)
  BY <1>1, <1>2, <1>7, MovesKeep DEF IInv, Typed, Statement, Attach
<1>8. CASE Called(t)
  BY <1>1, <1>2, <1>8, MovesKeep DEF IInv, Typed, Called
<1> QED
  BY <1>3, <1>4, <1>5, <1>6, <1>7, <1>8

\* The lock is taken of a file that is there, and by one thread.
LEMMA LockKeeps ==
    ASSUME IInv, NEW t \in Threads, Lock(t)
    PROVE  IInv'
<1> DEFINE f == User(t)
<1>1. f \in open /\ f \in Files /\ lock[f] = None /\ Kind(t) # "open"
  BY DEF IInv, Typed, Lock, Goto, KindsAt
<1>2. PICK to \in {"inside", "close", "discard"} :
         at' = [at EXCEPT ![t] = to] /\ Kind(t) \in KindsAt(to)
  BY DEF IInv, Typed, Lock, Goto, Detaches, KindsAt
<1>3. StartedOnce
  BY QueriesStartOnce DEF IInv, Lock
<1>4. \A u \in Threads :
         /\ Kind(u)' = Kind(u) /\ User(u)' = User(u)
         /\ Holding(u)' => Holding(u) \/ u = t
         /\ Opening(u)' => Opening(u)
  BY <1>2 DEF IInv, Typed, Lock, Kind, User, Holding, Opening
<1>5. Typed'
  <2>1. lock' \in [Files -> Threads \cup {None}] /\ at' \in [Threads -> Places]
    BY <1>2 DEF IInv, Typed, Lock, Places
  <2>2. \A u \in Threads :
           at'[u] # "python" => on'[u] \in AllCalls /\ Kind(u)' \in KindsAt(at'[u])
    BY <1>2, <1>4 DEF IInv, Typed, Lock, Goto
  <2> QED
    BY <1>3, <2>1, <2>2 DEF IInv, Typed, Lock, StartedOnce
<1>6. LockHeld'
  <2>1. \A u \in Threads : Holding(u) => lock[User(u)] # None
    BY UsersAssumption DEF IInv, LockHeld
  <2> QED
    BY <1>1, <1>4, <2>1 DEF IInv, Typed, LockHeld, Lock
<1>7. OpenNotCommitted' /\ CommittedOnce' /\ NotStarted' /\ OpenedOnce'
  BY <1>3, <1>4
     DEF IInv, Lock, StartedOnce, OpenNotCommitted, CommittedOnce, NotStarted, OpenedOnce
<1> QED
  BY <1>5, <1>6, <1>7 DEF IInv

\* A call of a file ends, and lets the next one in.
LEMMA GivingBackKeeps ==
    ASSUME IInv, NEW t \in Threads,
           \/ Read(t) \/ ReadEnd(t) \/ Write(t)
           \/ CloseQuery(t) \/ NativeDone(t) \/ CommitAgain(t) \/ Discard(t)
           \/ PythonDone(t) /\ Kind(t) = "close"
    PROVE  IInv'
<1> USE DEF Goto, Holding, Unlock, Committed, CommitFails
<1>1. StartedOnce
  BY QueriesStartOnce
     DEF IInv, Read, ReadEnd, Write, CloseQuery, NativeDone, CommitAgain, PythonDone, Discard
<1>2. CASE Read(t)
  <2>1. CASE Goto(t, "inside", "inside") /\ UNCHANGED lock
    BY <1>1, <1>2, <2>1, MovesKeep
       DEF Read, IInv, Typed, fileVars, Places, Opening, KindsAt, Kind
  <2>2. CASE Goto(t, "inside", "return") /\ Unlock(t)
    BY <1>1, <1>2, <2>2, ReleasesKeep DEF IInv, Typed, Read
  <2> QED
    BY <1>2, <2>1, <2>2 DEF Read
<1>3. CASE ReadEnd(t)
  BY <1>1, <1>3, ReleasesKeep DEF IInv, Typed, ReadEnd
<1>4. CASE Write(t)
  BY <1>1, <1>4, ReleasesKeep DEF IInv, Typed, Write
<1>5. CASE CloseQuery(t)
  BY <1>1, <1>5, ReleasesKeep DEF IInv, Typed, CloseQuery
<1>6. CASE NativeDone(t)
  BY <1>1, <1>6, ReleasesKeep DEF IInv, Typed, NativeDone
<1>7. CASE CommitAgain(t)
  BY <1>1, <1>7, ReleasesKeep DEF IInv, Typed, CommitAgain
<1>8. CASE PythonDone(t) /\ Kind(t) = "close"
  <2>1. User(t) \notin Asks
    BY <1>8, CallKinds, UsersAssumption DEF IInv, PythonDone
  <2> QED
    BY <1>1, <1>8, <2>1, ReleasesKeep DEF IInv, Typed, PythonDone
<1>9. CASE Discard(t)
  BY <1>1, <1>9, ReleasesKeep DEF IInv, Typed, Discard
<1> QED
  BY <1>2, <1>3, <1>4, <1>5, <1>6, <1>7, <1>8, <1>9

\* A query of a database in Python ends.
LEMMA AskedKeeps ==
    ASSUME IInv, NEW t \in Threads, PythonDone(t), Kind(t) = "ask"
    PROVE  IInv'
<1>1. User(t) \in Asks
  BY CallKinds DEF IInv, PythonDone, Goto
<1>2. StartedOnce
  BY QueriesStartOnce DEF IInv, PythonDone
<1>3. Kind(t)' = Kind(t)
  BY DEF PythonDone, Kind
<1> QED
  BY <1>1, <1>2, <1>3, MovesKeep
     DEF IInv, Typed, PythonDone, Goto, fileVars, Places, Holding, Opening, KindsAt

\* A call returns, and a query that was opened is a file.
LEMMA ReturnKeeps ==
    ASSUME IInv, NEW t \in Threads, Return(t)
    PROVE  IInv'
<1> DEFINE q == User(t)
<1>1. StartedOnce
  BY QueriesStartOnce DEF IInv, Return
<1>2. \A u \in Threads :
         /\ Holding(u)' => Holding(u) /\ u # t
         /\ Opening(u)' => Opening(u) /\ u # t
         /\ u # t => Kind(u)' = Kind(u) /\ User(u)' = User(u)
  BY DEF IInv, Typed, Return, Goto, Kind, User, Holding, Opening
<1>3. \/ open' = open
      \/ Opening(t) /\ q \in Queries /\ commits[q] = 0 /\ open' = open \cup {q}
  BY CallKinds DEF IInv, Return, Goto, Opening, OpenedOnce
<1>4. Typed'
  <2>1. on' \in [Threads -> AllCalls \cup {NoCall}] /\ at' \in [Threads -> Places]
    BY DEF IInv, Typed, Return, Goto, Places
  <2>2. \A u \in Threads :
           at'[u] # "python" => on'[u] \in AllCalls /\ Kind(u)' \in KindsAt(at'[u])
    BY <1>2 DEF IInv, Typed, Return, Goto, Kind
  <2>3. open' \subseteq Files
    BY <1>3 DEF IInv, Typed, Files
  <2> QED
    BY <1>1, <2>1, <2>2, <2>3 DEF IInv, Typed, StartedOnce, Return
<1>5. LockHeld'
  BY <1>2, <1>3 DEF IInv, LockHeld, Return
<1>6. OpenNotCommitted' /\ CommittedOnce'
  BY <1>3 DEF IInv, OpenNotCommitted, CommittedOnce, Return
<1>7. NotStarted'
  <2>1. ASSUME Opening(t), NEW p \in Queries, pc[p] = "idle"
        PROVE  p # q
    BY <2>1 DEF IInv, NotStarted
  <2> QED
    BY <1>1, <1>2, <1>3, <2>1 DEF IInv, NotStarted, StartedOnce, Return
<1>8. OpenedOnce'
  <2>1. \A u \in Threads \ {t} : Opening(t) /\ Opening(u) => User(u) # q
    BY DEF IInv, OpenedOnce
  <2> QED
    BY <1>2, <1>3, <2>1 DEF IInv, OpenedOnce, Return
<1> QED
  BY <1>4, <1>5, <1>6, <1>7, <1>8 DEF IInv

\* A call begins; a query that begins to be opened was not started.
LEMMA BeginKeeps ==
    ASSUME IInv, NEW t \in Threads, Begin(t)
    PROVE  IInv'
<1>1. PICK c \in left[t] : CallQuery(t, c) \/ CallFile(t, c) \/ CallNative(t, c) \/ CallPython(t, c)
  BY DEF Begin
<1>2. PICK to \in {"opening", "lock", "calling", "statement"} :
         /\ Call(t, c, to)
         /\ c[1] \in KindsAt(to)
         /\ to = "statement" => c[1] = "ask"
  BY <1>1 DEF CallQuery, CallFile, CallNative, CallPython, KindsAt, IInv, Typed, AllCalls
<1>3. c \in AllCalls
  BY DEF IInv, Typed
<1>4. StartedOnce
  BY <1>1, QueriesStartOnce DEF IInv, CallQuery, CallFile, CallNative, CallPython
<1>5. /\ at[t] = "python" /\ at' = [at EXCEPT ![t] = to]
      /\ on' = [on EXCEPT ![t] = c] /\ UNCHANGED fileVars
  BY <1>2 DEF Call, Goto
<1>6. c[1] = "open" => c[2] \in Queries /\ pc[c[2]] = "idle" /\ pc'[c[2]] # "idle"
  BY <1>1, <1>3
     DEF CallQuery, CallFile, CallNative, CallPython, Streams!Query, Streams!Goto, AllCalls,
         IInv, Typed
<1>7. /\ Kind(t)' = c[1] /\ User(t)' = c[2]
      /\ \A u \in Threads \ {t} :
            /\ Kind(u)' = Kind(u) /\ User(u)' = User(u)
            /\ Holding(u)' = Holding(u) /\ Opening(u)' = Opening(u)
  BY <1>5 DEF IInv, Typed, Kind, User, Holding, Opening
<1>8. Typed'
  <2>1. left' \in [Threads -> SUBSET AllCalls]
    BY <1>2 DEF IInv, Typed, Call
  <2>2. \A u \in Threads :
           at'[u] # "python" => on'[u] \in AllCalls /\ Kind(u)' \in KindsAt(at'[u])
    BY <1>2, <1>3, <1>5, <1>7 DEF IInv, Typed
  <2> QED
    BY <1>3, <1>4, <1>5, <2>1, <2>2 DEF IInv, Typed, StartedOnce, fileVars, Places
<1>9. LockHeld'
  <2>1. ~Holding(t)'
    BY <1>2, <1>5, <1>7 DEF IInv, Typed, Holding
  <2> QED
    BY <1>5, <1>7, <2>1 DEF IInv, LockHeld, fileVars
<1>10. OpenNotCommitted' /\ CommittedOnce'
  BY <1>5 DEF IInv, OpenNotCommitted, CommittedOnce, fileVars
<1>11. NotStarted'
  BY <1>4, <1>5, <1>6, <1>7 DEF IInv, NotStarted, StartedOnce, Opening, fileVars
<1>12. OpenedOnce'
  <2>1. Opening(t)' =>
           /\ c[2] \notin open /\ commits[c[2]] = 0
           /\ \A u \in Threads \ {t} : Opening(u) => User(u) # c[2]
    BY <1>6, <1>7 DEF IInv, NotStarted, Opening
  <2> QED
    BY <1>5, <1>7, <2>1 DEF IInv, OpenedOnce, fileVars
<1> QED
  BY <1>8, <1>9, <1>10, <1>11, <1>12 DEF IInv

\* The workers, other calls and tasks of the native database touch no file.
LEMMA WorkKeeps ==
    ASSUME IInv, NEW x, Work(x) \/ ReturnConnection \/ UNCHANGED vars
    PROVE  IInv'
<1>1. StartedOnce
  BY QueriesStartOnce DEF IInv, Work, ReturnConnection, vars
<1>2. UNCHANGED <<at, on, left, fileVars>>
  BY DEF Work, ReturnConnection, vars
<1>3. \A u \in Threads :
         /\ Kind(u)' = Kind(u) /\ User(u)' = User(u)
         /\ Holding(u)' = Holding(u) /\ Opening(u)' = Opening(u)
  BY <1>2 DEF Kind, User, Holding, Opening
<1>4. Typed'
  BY <1>1, <1>2, <1>3 DEF IInv, Typed, StartedOnce, fileVars
<1>5. LockHeld' /\ OpenNotCommitted' /\ CommittedOnce'
  BY <1>2, <1>3 DEF IInv, LockHeld, OpenNotCommitted, CommittedOnce, fileVars
<1>6. NotStarted' /\ OpenedOnce'
  BY <1>1, <1>2, <1>3 DEF IInv, StartedOnce, NotStarted, OpenedOnce, fileVars
<1> QED
  BY <1>4, <1>5, <1>6 DEF IInv

\* Whatever the threads and the database do.
LEMMA StepKeepsFiles ==
    ASSUME IInv, [Next]_vars
    PROVE  IInv'
<1>1. ASSUME NEW t \in Threads, Inside(t)
      PROVE  IInv'
  <2>1. PythonDone(t) => Kind(t) \in {"close", "ask"}
    BY DEF IInv, Typed, PythonDone, Goto, KindsAt
  <2> QED
    BY <1>1, <2>1, GoingOnKeeps, LockKeeps, GivingBackKeeps, AskedKeeps, ReturnKeeps DEF Inside
<1>2. ASSUME NEW t \in Threads, Begin(t)
      PROVE  IInv'
  BY <1>2, BeginKeeps
<1>3. ASSUME NEW x \in Queries \cup Ops, Work(x)
      PROVE  IInv'
  BY <1>3, WorkKeeps
<1>4. CASE ReturnConnection \/ UNCHANGED vars
  BY <1>4, WorkKeeps
<1> QED
  BY <1>1, <1>2, <1>3, <1>4 DEF Next, Run

LEMMA InitIInv == Init => IInv
<1> SUFFICES ASSUME Init
             PROVE  IInv
  OBVIOUS
<1>1. at = [t \in Threads |-> "python"] /\ \A t \in Threads : ~Holding(t) /\ ~Opening(t)
  BY DEF Init, Holding, Opening
<1>2. open = Files \ Queries /\ commits = [f \in Files |-> 0]
  BY DEF Init
<1>3. Typed
  <2>1. pc \in [Queries \cup Ops -> WorkerPlaces]
    BY DEF Init, Streams!Init, Streams!Tasks, WorkerPlaces
  <2>2. left \in [Threads -> SUBSET AllCalls]
    BY ProgramsAssumption DEF Init
  <2> QED
    BY <1>1, <1>2, <2>1, <2>2 DEF Init, Typed, Places, NoCall
<1>4. LockHeld /\ OpenedOnce
  BY <1>1 DEF LockHeld, OpenedOnce
<1>5. OpenNotCommitted /\ NotStarted /\ CommittedOnce
  BY <1>1, <1>2 DEF OpenNotCommitted, NotStarted, CommittedOnce, Files
<1> QED
  BY <1>3, <1>4, <1>5 DEF IInv

-----------------------------------------------------------------------------
(***************************************************************************)
(* The theorem.                                                            *)
(***************************************************************************)

\* With any number of threads and files, and in whatever order the threads
\* close, discard and leave them, no file is committed a second time
\* (PyDbFile::close and __exit__).
THEOREM FilesCommittedOnce == Spec => []CommittedOnce
<1>1. Init => IInv
  BY InitIInv
<1>2. IInv /\ [Next]_vars => IInv'
  BY StepKeepsFiles
<1>3. IInv => CommittedOnce
  BY DEF IInv
<1> QED
  BY <1>1, <1>2, <1>3, PTL DEF Spec

-----------------------------------------------------------------------------
(***************************************************************************)
(* What is proved of the queries.  The constants are such as the proofs    *)
(* assume, and the queries are the same, however they are named.           *)
(***************************************************************************)

S == INSTANCE QueryStream_proofs

LEMMA Constants ==
    /\ Pools \subseteq [connections : Nat \ {0}, ownThread : BOOLEAN,
                        users : SUBSET (Queries \cup Ops)]
    /\ MaxChunks \in Nat \ {0}
    /\ Queries \cap Ops = {}
    /\ None \notin Queries \cup Ops \cup {"schema", "error"}
BY PoolsAssumption, MaxChunksAssumption, UsersAssumption DEF Files

LEMMA SameGuards ==
    /\ \A q : Streams!Dropped(q) <=> S!Dropped(q)
    /\ \A q : Streams!CanSend(q) <=> S!CanSend(q)
    /\ \A x : Streams!Blocked(x) <=> S!Blocked(x)
    /\ \A x : Streams!InRuntime(x) <=> S!InRuntime(x)
    /\ \A x : Streams!Progress(x) <=> S!Progress(x)
    /\ Streams!FreeConnection <=> S!FreeConnection
    /\ Streams!CanReturn <=> S!CanReturn
    /\ \A x : Streams!TimesOut(x) <=> S!TimesOut(x)
    /\ \A x : Streams!CanStep(x) <=> S!CanStep(x)
    /\ \A q : Streams!CanOpen(q) <=> S!CanOpen(q)
<1>1. \A q : Streams!Dropped(q) <=> S!Dropped(q)
  BY DEF Streams!Dropped, S!Dropped
<1>2. \A q : Streams!CanSend(q) <=> S!CanSend(q)
  BY <1>1 DEF Streams!CanSend, S!CanSend
<1>3. \A x : Streams!Blocked(x) <=> S!Blocked(x)
  BY <1>2 DEF Streams!Blocked, S!Blocked
<1>4. \A x : Streams!InRuntime(x) <=> S!InRuntime(x)
  BY DEF Streams!InRuntime, S!InRuntime
<1>5. (Streams!Driven <=> S!Driven) /\ (Streams!CanReturn <=> S!CanReturn)
  BY DEF Streams!Driven, S!Driven, Streams!CanReturn, S!CanReturn
<1>6. \A x : Streams!Progress(x) <=> S!Progress(x)
  BY <1>5 DEF Streams!Progress, S!Progress
<1>7. Streams!FreeConnection <=> S!FreeConnection
  <2>1. \A T : Streams!Cardinality(T) = S!Cardinality(T)
    BY DEF Streams!Cardinality, S!Cardinality
  <2> QED
    BY <2>1 DEF Streams!FreeConnection, S!FreeConnection
<1>8. \A x : Streams!TimesOut(x) <=> S!TimesOut(x)
  BY <1>5, <1>7 DEF Streams!TimesOut, S!TimesOut, Streams!LeaveRuntime, S!LeaveRuntime
<1>9. \A x : Streams!CanStep(x) <=> S!CanStep(x)
  BY <1>2, <1>4, <1>5, <1>6, <1>7 DEF Streams!CanStep, S!CanStep
<1>10. \A q : Streams!CanOpen(q) <=> S!CanOpen(q)
  BY DEF Streams!CanOpen, S!CanOpen
<1> QED
  BY <1>1, <1>2, <1>3, <1>4, <1>5, <1>6, <1>7, <1>8, <1>9, <1>10

LEMMA SameWorkers ==
    /\ \A q : Streams!Worker(q) <=> S!Worker(q)
    /\ \A o : Streams!Other(o) <=> S!Other(o)
    /\ Streams!ReturnConnection <=> S!ReturnConnection
<1> USE SameGuards
    DEF Streams!Goto, S!Goto, Streams!channels, S!channels, Streams!LeaveRuntime, S!LeaveRuntime,
        Streams!SendSchema, S!SendSchema, Streams!Release, S!Release
<1>1. \A x : Streams!TakeCore(x) <=> S!TakeCore(x)
  BY DEF Streams!TakeCore, S!TakeCore
<1>2. \A x, from, to : Streams!Acquire(x, from, to) <=> S!Acquire(x, from, to)
  BY DEF Streams!Acquire, S!Acquire
<1>3. \A q : Streams!FetchTimesOut(q) <=> S!FetchTimesOut(q)
  BY DEF Streams!FetchTimesOut, S!FetchTimesOut
<1>4. \A q : Streams!FullChunk(q) <=> S!FullChunk(q)
  BY DEF Streams!FullChunk, S!FullChunk
<1>5. \A q : Streams!ShortChunk(q) <=> S!ShortChunk(q)
  BY DEF Streams!ShortChunk, S!ShortChunk
<1>6. \A q : Streams!Send(q) <=> S!Send(q)
  BY DEF Streams!Send, S!Send
<1>7. \A q : Streams!SendLast(q) <=> S!SendLast(q)
  BY DEF Streams!SendLast, S!SendLast
<1>8. \A q : (Streams!Exhausted(q) <=> S!Exhausted(q)) /\ (Streams!NoRows(q) <=> S!NoRows(q))
  BY DEF Streams!Exhausted, S!Exhausted, Streams!NoRows, S!NoRows
<1>9. \A q : (Streams!EmptyBatch(q) <=> S!EmptyBatch(q)) /\ (Streams!QueryFails(q) <=> S!QueryFails(q))
  BY DEF Streams!EmptyBatch, S!EmptyBatch, Streams!QueryFails, S!QueryFails
<1>10. \A q : Streams!Report(q) <=> S!Report(q)
  BY DEF Streams!Report, S!Report
<1>11. \A o : Streams!OpTimesOut(o) <=> S!OpTimesOut(o)
  BY DEF Streams!OpTimesOut, S!OpTimesOut
<1>12. \A o : Streams!OpRun(o) <=> S!OpRun(o)
  BY DEF Streams!OpRun, S!OpRun
<1>13. Streams!ReturnConnection <=> S!ReturnConnection
  BY DEF Streams!ReturnConnection, S!ReturnConnection
<1> QED
  BY <1>1, <1>2, <1>3, <1>4, <1>5, <1>6, <1>7, <1>8, <1>9, <1>10, <1>11, <1>12, <1>13
     DEF Streams!Worker, S!Worker, Streams!Other, S!Other, Streams!Fetch, S!Fetch,
         Streams!FetchSchema, S!FetchSchema, Streams!OpAcquire, S!OpAcquire

LEMMA SameUses ==
    /\ \A q : Streams!Query(q) <=> S!Query(q)
    /\ \A q : Streams!Opened(q) <=> S!Opened(q)
    /\ \A q : Streams!Receive(q) <=> S!Receive(q)
    /\ \A q : Streams!ReceiveEnd(q) <=> S!ReceiveEnd(q)
    /\ \A q : Streams!Drop(q) <=> S!Drop(q)
    /\ \A o : Streams!Begin(o) <=> S!Begin(o)
    /\ UNCHANGED streamVars <=> UNCHANGED S!vars
    /\ Streams!Init => S!Init
<1> USE DEF Streams!Goto, S!Goto, Streams!channels, S!channels
<1>1. \A q : (Streams!Query(q) <=> S!Query(q)) /\ (Streams!Opened(q) <=> S!Opened(q))
  BY DEF Streams!Query, S!Query, Streams!Opened, S!Opened
<1>2. \A q : (Streams!Receive(q) <=> S!Receive(q)) /\ (Streams!ReceiveEnd(q) <=> S!ReceiveEnd(q))
  BY DEF Streams!Receive, S!Receive, Streams!ReceiveEnd, S!ReceiveEnd
<1>3. \A q : (Streams!Drop(q) <=> S!Drop(q)) /\ (Streams!Begin(q) <=> S!Begin(q))
  BY DEF Streams!Drop, S!Drop, Streams!Begin, S!Begin
<1>4. UNCHANGED streamVars <=> UNCHANGED S!vars
  BY DEF streamVars, S!vars
<1>5. Streams!Init => S!Init
  BY DEF Streams!Init, S!Init, Streams!Tasks, S!Tasks, Streams!Results, S!Results,
         Streams!NoResult, S!NoResult
<1> QED
  BY <1>1, <1>2, <1>3, <1>4, <1>5

\* Whatever the threads do, the queries take steps of their own.
LEMMA QueriesGoOn ==
    ASSUME IInv, [Next]_vars
    PROVE  [S!Next]_S!vars
<1>1. ASSUME NEW q \in Queries,
             \/ Streams!Query(q) \/ Streams!Opened(q) \/ Streams!Receive(q)
             \/ Streams!ReceiveEnd(q) \/ Streams!Drop(q) \/ Streams!Worker(q)
      PROVE  S!Next
  BY <1>1, SameUses, SameWorkers DEF S!Next, S!Run, S!Use
<1>2. ASSUME NEW o \in Ops, Streams!Begin(o) \/ Streams!Other(o)
      PROVE  S!Next
  BY <1>2, SameUses, SameWorkers DEF S!Next, S!Run, S!Use
<1>3. UNCHANGED streamVars => UNCHANGED S!vars
  BY SameUses
<1>4. ASSUME NEW t \in Threads, Inside(t)
      PROVE  [S!Next]_S!vars
  <2>1. CASE Opened(t) \/ Drain(t) \/ Read(t) \/ ReadEnd(t)
    <3>1. User(t) \in Queries
      BY <2>1, CallKinds DEF IInv, Typed, Opened, Drain, Read, ReadEnd, Goto, KindsAt
    <3> QED
      BY <1>1, <1>3, <2>1, <3>1 DEF Opened, Drain, Read, ReadEnd
  <2>2. CASE CloseQuery(t) \/ CommitNative(t) \/ Discard(t)
    BY <1>1, <1>2, <1>3, <2>2 DEF CloseQuery, CommitNative, Discard
  <2>3. CASE \/ AttachToDrain(t) \/ Refuse(t) \/ Lock(t) \/ Write(t) \/ NativeDone(t)
             \/ CommitAgain(t) \/ CommitPython(t) \/ Statement(t) \/ Attach(t) \/ PythonDone(t)
             \/ Called(t) \/ Return(t)
    BY <1>3, <2>3
       DEF AttachToDrain, Refuse, Lock, Write, NativeDone, CommitAgain, CommitPython, Statement,
           Attach, PythonDone, Called, Return
  <2> QED
    BY <1>4, <2>1, <2>2, <2>3 DEF Inside
<1>5. ASSUME NEW t \in Threads, Begin(t)
      PROVE  [S!Next]_S!vars
  <2>1. PICK c \in left[t] :
           CallQuery(t, c) \/ CallFile(t, c) \/ CallNative(t, c) \/ CallPython(t, c)
    BY <1>5 DEF Begin
  <2>2. c \in AllCalls
    BY DEF IInv, Typed
  <2>3. CASE CallQuery(t, c)
    BY <1>1, <2>2, <2>3 DEF CallQuery, AllCalls
  <2>4. CASE CallNative(t, c)
    BY <1>2, <2>2, <2>4, UsersAssumption DEF CallNative, AllCalls
  <2>5. CASE CallFile(t, c) \/ CallPython(t, c)
    BY <1>3, <2>5 DEF CallFile, CallPython
  <2> QED
    BY <2>1, <2>3, <2>4, <2>5
<1>6. ASSUME NEW x \in Queries \cup Ops, Work(x)
      PROVE  S!Next
  BY <1>1, <1>2, <1>6 DEF Work
<1>7. CASE ReturnConnection
  BY <1>7, SameWorkers DEF ReturnConnection, S!Next, S!Run
<1>8. CASE UNCHANGED vars
  BY <1>3, <1>8 DEF vars
<1> QED
  BY <1>4, <1>5, <1>6, <1>7, <1>8 DEF Next, Run

StreamsInv == S!IInv /\ S!Settled

LEMMA StreamsKeep ==
    ASSUME IInv, StreamsInv, [Next]_vars
    PROVE  StreamsInv'
BY QueriesGoOn, S!StepKeepsIInv, S!StepStaysSettled, Constants DEF StreamsInv

LEMMA InitStreams == Init => StreamsInv
BY SameUses, S!InitIInv, S!InitSettled, Constants DEF Init, StreamsInv

-----------------------------------------------------------------------------
(***************************************************************************)
(* Who waits, and for whom.  To the invariant this adds where the GIL is,  *)
(* that a lock belongs to a call which is past it, whose the readers are   *)
(* and that what was begun in a database has a thread waiting for it.      *)
(***************************************************************************)

GilAt ==
    /\ gil \in Threads \cup {None}
    /\ \A t \in Threads :
          /\ at[t] \in {"inside", "drain", "drained", "statement"} => gil = t
          /\ at[t] = "lock" => (gil = t <=> ~Detaches(Kind(t)))
          /\ gil = t => at[t] \in {"lock", "inside", "drain", "drained", "statement", "return"}

LocksAreHeld == \A f \in Files : lock[f] # None => Holding(lock[f]) /\ User(lock[f]) = f

\* The call in which a query is opened, up to its return.
Asking(t) ==
    \/ at[t] \in {"opening", "attach to drain", "drain", "drained"}
    \/ at[t] = "return" /\ Kind(t) \in {"open", "query_arrow"}

HasReader(t) ==
    \/ at[t] \in {"attach to drain", "drain"}
    \/ at[t] = "return" /\ Kind(t) = "open"

\* It has the reader to itself, which is no file before it returns.
AskedOnce ==
    /\ \A t \in Threads : Asking(t) => User(t) \in Queries \ open
    /\ \A t, u \in Threads : Asking(t) /\ Asking(u) /\ User(t) = User(u) => t = u
    /\ \A q \in Queries : reader[q] = "none" => q \notin open /\ \A t \in Threads : Asking(t) => User(t) # q

ReaderFollows(t) ==
    /\ at[t] = "opening" => reader[User(t)] = "opening"
    /\ at[t] \in {"attach to drain", "drain"} => reader[User(t)] = "open"
    /\ at[t] = "drained" => reader[User(t)] = "ended"

ReadersFollow ==
    /\ \A q \in Queries \cap open : reader[q] \in {"open", "ended"}
    /\ \A t \in Threads : ReaderFollows(t)

\* A reader that is there is in a file or in the call of a thread.
ReadersAreKnown ==
    /\ \A q \in Queries : reader[q] = "opening" =>
          \E t \in Threads : at[t] = "opening" /\ User(t) = q
    /\ \A q \in Queries : reader[q] = "open" =>
          q \in open \/ \E t \in Threads : HasReader(t) /\ User(t) = q

CallsAreAwaited ==
    /\ \A o \in Ops :
          \/ pc[o] \in {"idle", "ended"}
          \/ \E t \in Threads : at[t] \in {"insert", "calling"} /\ User(t) = o
    /\ \A t \in Threads : at[t] \in {"insert", "calling"} => User(t) \in Ops /\ pc[User(t)] # "idle"

StepPlaces ==
    {"idle", "register", "delete", "insert", "unregister", "unregister failed", "execute", "fetch",
     "ok", "error"}

StatementsAreRun ==
    /\ step \in [Inserts \cup Asks -> StepPlaces]
    /\ \A c \in Inserts :
          \/ step[c] = "idle" \/ Adapter!Finished(c)
          \/ \E t \in Threads : at[t] \in {"statement", "attach"} /\ User(t) = c
    /\ \A t \in Threads : at[t] \in {"statement", "attach"} =>
          User(t) \in Inserts \cup Asks /\ step[User(t)] # "idle"

OneProgram ==
    \E p \in Programs : \A t \in Threads :
        /\ left[t] \subseteq p.calls[t]
        /\ at[t] # "python" => on[t] \in p.calls[t]

-----------------------------------------------------------------------------
(***************************************************************************)
(* The GIL and the locks.                                                  *)
(***************************************************************************)

LEMMA GilMoves ==
    ASSUME IInv, GilAt, NEW t \in Threads, NEW to \in Places, NEW c \in AllCalls \cup {NoCall},
           at' = [at EXCEPT ![t] = to],
           on' = [on EXCEPT ![t] = c],
           \/ gil' = gil
           \/ gil \in {None, t} /\ gil' \in {None, t},
           to \in {"inside", "drain", "drained", "statement"} => gil' = t,
           to = "lock" => (gil' = t <=> ~Detaches(c[1])),
           gil' = t => to \in {"lock", "inside", "drain", "drained", "statement", "return"}
    PROVE  GilAt'
<1>1. gil' \in Threads \cup {None} /\ None \notin Threads
  BY UsersAssumption DEF GilAt
<1>2. ASSUME NEW u \in Threads \ {t}
      PROVE  at'[u] = at[u] /\ Kind(u)' = Kind(u) /\ (gil' = u <=> gil = u)
  BY <1>1 DEF IInv, Typed, Kind
<1>3. at'[t] = to /\ Kind(t)' = c[1]
  BY DEF IInv, Typed, Kind
<1> QED
  BY <1>1, <1>2, <1>3 DEF GilAt, Detaches

LEMMA GilStays ==
    ASSUME IInv, GilAt, NEW t \in Threads, Inside(t) \/ Begin(t)
    PROVE  GilAt'
<1>1. on = [on EXCEPT ![t] = on[t]] /\ on[t] \in AllCalls \cup {NoCall}
  BY DEF IInv, Typed
<1>2. Kind(t) = on[t][1]
  BY DEF Kind
<1>3. at[t] # "python" => Kind(t) \in KindsAt(at[t])
  BY DEF IInv, Typed
<1> USE DEF Goto, Places
<1>4. CASE Opened(t) \/ Called(t) \/ Refuse(t)
  <2>1. on' = on /\ gil' = gil
    BY <1>4 DEF Opened, Called, Refuse
  <2>2. CASE Opened(t)
    <3>1. /\ gil # t
          /\ at' = [at EXCEPT ![t] = "attach to drain"] \/ at' = [at EXCEPT ![t] = "return"]
      BY <2>2 DEF Opened, GilAt
    <3> QED
      BY <1>1, <2>1, <3>1, GilMoves
  <2>3. CASE Called(t) \/ Refuse(t)
    <3>1. at' = [at EXCEPT ![t] = "return"]
      BY <2>3 DEF Called, Refuse
    <3> QED
      BY <1>1, <2>1, <3>1, GilMoves
  <2> QED
    BY <1>4, <2>2, <2>3
<1>5. CASE Drain(t)
  BY <1>1, <1>5, GilMoves DEF Drain, GilAt
<1>6. CASE Lock(t)
  <2>1. Kind(t) \in {"read", "write", "close", "discard"}
    BY <1>3, <1>6 DEF Lock, KindsAt
  <2>2. gil = t <=> Kind(t) \notin {"close", "discard"}
    BY <1>6, <2>1 DEF Lock, GilAt, Detaches
  <2>3. on' = on /\ gil' = gil
    BY <1>6 DEF Lock
  <2>4. CASE Kind(t) \in {"close", "discard"}
    <3>1. at' = [at EXCEPT ![t] = "close"] \/ at' = [at EXCEPT ![t] = "discard"]
      BY <1>6, <2>4 DEF Lock
    <3> QED
      BY <1>1, <2>2, <2>3, <2>4, <3>1, GilMoves
  <2>5. CASE Kind(t) \notin {"close", "discard"}
    <3>1. at' = [at EXCEPT ![t] = "inside"]
      BY <1>6, <2>5 DEF Lock
    <3> QED
      BY <1>1, <2>2, <2>3, <2>5, <3>1, GilMoves
  <2> QED
    BY <2>4, <2>5
<1>7. CASE Read(t)
  <2>1. gil = t /\ on' = on /\ gil' = gil
    BY <1>7 DEF Read, GilAt
  <2>2. at' = [at EXCEPT ![t] = "inside"] \/ at' = [at EXCEPT ![t] = "return"]
    BY <1>7 DEF Read
  <2> QED
    BY <1>1, <2>1, <2>2, GilMoves
<1>8. CASE ReadEnd(t) \/ Write(t)
  <2>1. on' = on /\ gil' = gil /\ at' = [at EXCEPT ![t] = "return"]
    BY <1>8 DEF ReadEnd, Write
  <2> QED
    BY <1>1, <2>1, GilMoves
<1>9. CASE CloseQuery(t) \/ CommitNative(t) \/ NativeDone(t) \/ CommitAgain(t) \/ Discard(t)
  <2>1. /\ on' = on /\ gil' = gil /\ gil # t
        /\ at' = [at EXCEPT ![t] = "return"] \/ at' = [at EXCEPT ![t] = "insert"]
    BY <1>9 DEF CloseQuery, CommitNative, NativeDone, CommitAgain, Discard, GilAt
  <2> QED
    BY <1>1, <2>1, GilMoves
<1>10. CASE AttachToDrain(t) \/ CommitPython(t) \/ Attach(t)
  <2>1. /\ on' = on /\ gil \in {None, t} /\ gil' = t
        /\ at' = [at EXCEPT ![t] = "drain"] \/ at' = [at EXCEPT ![t] = "statement"]
    BY <1>10 DEF AttachToDrain, CommitPython, Attach
  <2> QED
    BY <1>1, <2>1, GilMoves
<1>11. CASE Statement(t)
  <2>1. gil = t /\ on' = on
    BY <1>11 DEF Statement, GilAt
  <2>2. \/ at' = [at EXCEPT ![t] = "statement"] /\ gil' = gil
        \/ at' = [at EXCEPT ![t] = "attach"] /\ gil' = None
    BY <1>11 DEF Statement
  <2>3. None # t
    BY UsersAssumption
  <2> QED
    BY <1>1, <2>1, <2>2, <2>3, GilMoves
<1>12. CASE PythonDone(t)
  <2>1. gil = t /\ on' = on /\ at' = [at EXCEPT ![t] = "return"] /\ gil' \in {gil, None}
    BY <1>12 DEF PythonDone, GilAt, fileVars
  <2>2. None # t
    BY UsersAssumption
  <2> QED
    BY <1>1, <2>1, <2>2, GilMoves
<1>13. CASE Return(t)
  <2>1. None # t
    BY UsersAssumption
  <2> QED
    BY <1>13, <2>1, GilMoves DEF Return
<1>14. CASE Begin(t)
  <2>1. PICK c \in left[t] :
           CallQuery(t, c) \/ CallFile(t, c) \/ CallNative(t, c) \/ CallPython(t, c)
    BY <1>14 DEF Begin
  <2>2. c \in AllCalls /\ None # t
    BY UsersAssumption DEF IInv, Typed
  <2>3. /\ gil = None /\ gil' = (IF Detaches(c[1]) THEN None ELSE t)
        /\ on' = [on EXCEPT ![t] = c]
    BY <2>1 DEF CallQuery, CallFile, CallNative, CallPython, Call
  <2>4. CASE CallQuery(t, c) \/ CallNative(t, c)
    <3>1. Detaches(c[1])
      BY <2>4 DEF CallQuery, CallNative, Detaches
    <3>2. at' = [at EXCEPT ![t] = "opening"] \/ at' = [at EXCEPT ![t] = "calling"]
      BY <2>4 DEF CallQuery, CallNative, Call
    <3> QED
      BY <2>2, <2>3, <3>1, <3>2, GilMoves
  <2>5. CASE CallFile(t, c)
    <3>1. at' = [at EXCEPT ![t] = "lock"]
      BY <2>5 DEF CallFile, Call
    <3> QED
      BY <2>2, <2>3, <3>1, GilMoves
  <2>6. CASE CallPython(t, c)
    <3>1. at' = [at EXCEPT ![t] = "statement"] /\ ~Detaches(c[1])
      BY <2>6 DEF CallPython, Call, Detaches
    <3> QED
      BY <2>2, <2>3, <3>1, GilMoves
  <2> QED
    BY <2>1, <2>4, <2>5, <2>6
<1> QED
  BY <1>4, <1>5, <1>6, <1>7, <1>8, <1>9, <1>10, <1>11, <1>12, <1>13, <1>14 DEF Inside

\* A lock that is held stays with its call, and a call that leaves its file
\* leaves the lock.
LEMMA LocksStay ==
    ASSUME IInv, LocksAreHeld, NEW t \in Threads, Inside(t) \/ Begin(t)
    PROVE  LocksAreHeld'
<1>1. \A u \in Threads \ {t} : Holding(u)' = Holding(u) /\ User(u)' = User(u)
  <2>1. PICK to, c : at' = [at EXCEPT ![t] = to] /\ (on' = on \/ on' = [on EXCEPT ![t] = c])
    BY DEF Inside, Begin, Opened, AttachToDrain, Drain, Refuse, Lock, Read, ReadEnd, Write,
           CloseQuery, CommitNative, NativeDone, CommitAgain, CommitPython, Statement, Attach,
           PythonDone, Discard, Called, Return, CallQuery, CallFile, CallNative, CallPython,
           Call, Goto
  <2> QED
    BY <2>1 DEF IInv, Typed, Holding, User, Kind
<1>2. None \notin Threads /\ lock \in [Files -> Threads \cup {None}]
  BY UsersAssumption DEF IInv, Typed
<1>3. CASE lock' = lock /\ (Holding(t) => Holding(t)' /\ User(t)' = User(t))
  BY <1>1, <1>2, <1>3 DEF LocksAreHeld
<1>4. CASE Unlock(t) /\ Holding(t)
  <2>1. lock[User(t)] = t
    BY <1>4 DEF IInv, LockHeld
  <2> QED
    BY <1>1, <1>2, <1>4, <2>1 DEF LocksAreHeld, Unlock
<1>5. CASE Lock(t)
  <2>1. Kind(t) \in {"read", "write", "close", "discard"} /\ ~Holding(t)
    BY <1>5 DEF Lock, IInv, Typed, Goto, KindsAt, Holding
  <2>2. Holding(t)' /\ User(t)' = User(t)
    BY <1>5, <2>1 DEF Lock, IInv, Typed, Goto, Holding, User, Kind, Detaches
  <2> QED
    BY <1>1, <1>2, <1>5, <2>1, <2>2 DEF LocksAreHeld, Lock
<1> USE DEF Goto, Holding, User, Kind, fileVars
<1>6. CASE Opened(t) \/ AttachToDrain(t) \/ Drain(t) \/ Refuse(t) \/ Called(t)
  BY <1>3, <1>6 DEF Opened, AttachToDrain, Drain, Refuse, Called
<1>7. CASE Read(t) \/ ReadEnd(t) \/ Write(t) \/ CloseQuery(t) \/ Discard(t)
  BY <1>3, <1>4, <1>7 DEF Read, ReadEnd, Write, CloseQuery, Discard, Committed, IInv, Typed
<1>8. CASE NativeDone(t) \/ CommitAgain(t)
  BY <1>4, <1>8 DEF NativeDone, CommitAgain, Committed, CommitFails
<1>9. CASE CommitNative(t)
  BY <1>3, <1>9 DEF CommitNative, IInv, Typed
<1>10. CASE CommitPython(t)
  <2>1. Kind(t) = "close"
    BY <1>10 DEF CommitPython, IInv, Typed, KindsAt
  <2> QED
    BY <1>3, <1>10, <2>1 DEF CommitPython, IInv, Typed
<1>11. CASE Statement(t) \/ Attach(t)
  BY <1>3, <1>11 DEF Statement, Attach, IInv, Typed
<1>12. CASE PythonDone(t)
  <2>1. Kind(t) \in {"close", "ask"} /\ (User(t) \in Asks <=> Kind(t) = "ask")
    <3>1. Kind(t) \in {"close", "ask"}
      BY <1>12 DEF PythonDone, IInv, Typed, KindsAt
    <3> QED
      BY <1>12, <3>1, CallKinds, UsersAssumption DEF PythonDone, IInv
  <2>2. CASE Kind(t) = "ask"
    BY <1>3, <1>12, <2>1, <2>2 DEF PythonDone
  <2>3. CASE Kind(t) = "close"
    BY <1>4, <1>12, <2>1, <2>3 DEF PythonDone, Committed, CommitFails
  <2> QED
    BY <2>1, <2>2, <2>3
<1>13. CASE Return(t)
  BY <1>3, <1>13 DEF Return
<1>14. CASE Begin(t)
  BY <1>3, <1>14 DEF Begin, CallQuery, CallFile, CallNative, CallPython, Call
<1> QED
  BY <1>5, <1>6, <1>7, <1>8, <1>9, <1>10, <1>11, <1>12, <1>13, <1>14 DEF Inside

-----------------------------------------------------------------------------
(***************************************************************************)
(* The readers.                                                            *)
(***************************************************************************)

Readers == AskedOnce /\ ReadersFollow /\ ReadersAreKnown

\* A step of a thread is no step of another.
LEMMA OthersStay ==
    ASSUME IInv, NEW t \in Threads, Inside(t) \/ Begin(t), NEW u \in Threads \ {t}
    PROVE  /\ at'[u] = at[u] /\ Kind(u)' = Kind(u) /\ User(u)' = User(u)
           /\ Holding(u)' = Holding(u) /\ Asking(u)' = Asking(u) /\ HasReader(u)' = HasReader(u)
<1>1. PICK to, c : at' = [at EXCEPT ![t] = to] /\ (on' = on \/ on' = [on EXCEPT ![t] = c])
  BY DEF Inside, Begin, Opened, AttachToDrain, Drain, Refuse, Lock, Read, ReadEnd, Write,
         CloseQuery, CommitNative, NativeDone, CommitAgain, CommitPython, Statement, Attach,
         PythonDone, Discard, Called, Return, CallQuery, CallFile, CallNative, CallPython,
         Call, Goto
<1> QED
  BY <1>1 DEF IInv, Typed, Holding, Asking, HasReader, User, Kind

LEMMA ReaderTypes ==
    ASSUME StreamsInv
    PROVE  /\ reader \in [Queries -> {"none", "opening", "open", "ended", "refused", "dropped"}]
           /\ schema \in [Queries -> {None, "schema", "error"}]
           /\ core \in Queries \cup Ops \cup {None}
BY Constants DEF StreamsInv, S!IInv, S!Typed, S!TypeOK, S!Tasks

\* A call that is past its lock, and its file.
LEMMA FilesAreThere ==
    ASSUME IInv, Readers, NEW t \in Threads, Holding(t)
    PROVE  /\ User(t) \in open /\ ~Asking(t) /\ ~HasReader(t)
           /\ \A u \in Threads : Asking(u) => User(u) # User(t)
<1>1. User(t) \in open
  BY DEF IInv, LockHeld
<1>2. \A u \in Threads : Asking(u) => User(u) \notin open
  BY DEF Readers, AskedOnce
<1>3. ~HasReader(t)
  BY DEF Holding, HasReader
<1> QED
  BY <1>1, <1>2, <1>3

\* The readers and their files are as they were.
LEMMA ReadersSame ==
    ASSUME IInv, Readers, NEW t \in Threads, Inside(t) \/ Begin(t),
           reader' = reader, \A q \in Queries : q \in open' <=> q \in open,
           Asking(t)' => Asking(t) /\ User(t)' = User(t),
           HasReader(t) => HasReader(t)' /\ User(t)' = User(t),
           at[t] = "opening" <=> at'[t] = "opening",
           at'[t] \in {"attach to drain", "drain"} => at[t] \in {"attach to drain", "drain"},
           at'[t] = "drained" => at[t] = "drained"
    PROVE  Readers'
<1>1. \A u \in Threads :
         /\ Asking(u)' => Asking(u) /\ User(u)' = User(u)
         /\ HasReader(u) => HasReader(u)' /\ User(u)' = User(u)
         /\ at[u] = "opening" <=> at'[u] = "opening"
         /\ at'[u] \in {"attach to drain", "drain"} => at[u] \in {"attach to drain", "drain"}
         /\ at'[u] = "drained" => at[u] = "drained"
  BY OthersStay
<1>2. AskedOnce'
  <2>1. ASSUME NEW u \in Threads, Asking(u)'
        PROVE  Asking(u) /\ User(u)' = User(u) /\ User(u) \in Queries \ open'
    BY <1>1, <2>1 DEF Readers, AskedOnce
  <2>2. ASSUME NEW q \in Queries, reader'[q] = "none"
        PROVE  q \notin open' /\ \A u \in Threads : Asking(u)' => User(u)' # q
    BY <2>1, <2>2 DEF Readers, AskedOnce
  <2>3. ASSUME NEW u \in Threads, NEW v \in Threads, Asking(u)', Asking(v)', User(u)' = User(v)'
        PROVE  u = v
    BY <2>1, <2>3 DEF Readers, AskedOnce
  <2>4. \A u \in Threads : Asking(u)' => User(u)' \in Queries \ open'
    BY <2>1
  <2> QED
    BY <2>2, <2>3, <2>4 DEF AskedOnce
<1>3. ReadersFollow'
  <2>1. ASSUME NEW u \in Threads, at'[u] \in {"opening", "attach to drain", "drain", "drained"}
        PROVE  User(u)' = User(u)
    BY <1>1, <2>1 DEF Asking
  <2>2. \A q \in Queries \cap open' : reader'[q] \in {"open", "ended"}
    BY DEF Readers, ReadersFollow
  <2>3. ASSUME NEW u \in Threads
        PROVE  ReaderFollows(u)'
    <3>1. ReaderFollows(u)
      BY DEF Readers, ReadersFollow
    <3> QED
      BY <1>1, <2>1, <3>1 DEF ReaderFollows
  <2> QED
    BY <2>2, <2>3 DEF ReadersFollow
<1>4. ReadersAreKnown'
  BY <1>1 DEF Readers, ReadersAreKnown, Asking
<1> QED
  BY <1>2, <1>3, <1>4 DEF Readers

\* A file is read to its end, or its reader dropped with it.
LEMMA FileReaderEnds ==
    ASSUME IInv, Readers, NEW t \in Threads, Inside(t), Holding(t), at'[t] = "return", on' = on,
           NEW r \in {"ended", "dropped"}, User(t) \in Queries,
           reader' = [reader EXCEPT ![User(t)] = r],
           reader \in [Queries -> {"none", "opening", "open", "ended", "refused", "dropped"}],
           \/ r = "ended" /\ open' = open
           \/ open' = open \ {User(t)}
    PROVE  Readers'
<1>1. /\ User(t) \in open /\ ~HasReader(t)
      /\ \A u \in Threads : Asking(u) => User(u) # User(t)
  BY FilesAreThere
<1>2. ~Asking(t)'
  BY DEF IInv, Typed, Holding, Asking, Kind, KindsAt
<1>3. AskedOnce'
  BY <1>2, OthersStay DEF Readers, AskedOnce
<1>4. ReadersFollow'
  <2>1. ASSUME NEW u \in Threads, at'[u] \in {"opening", "attach to drain", "drain", "drained"}
        PROVE  /\ u # t /\ User(u) # User(t) /\ at'[u] = at[u] /\ User(u)' = User(u)
               /\ User(u) \in Queries
    BY <1>1, <2>1, OthersStay DEF Readers, AskedOnce, Asking
  <2>2. \A q \in Queries \cap open' : reader'[q] \in {"open", "ended"}
    BY DEF Readers, ReadersFollow
  <2>3. ASSUME NEW u \in Threads
        PROVE  ReaderFollows(u)'
    <3>1. ReaderFollows(u)
      BY DEF Readers, ReadersFollow
    <3> QED
      BY <2>1, <3>1 DEF ReaderFollows
  <2> QED
    BY <2>2, <2>3 DEF ReadersFollow
<1>5. ReadersAreKnown'
  <2>1. ASSUME NEW q \in Queries, reader'[q] = "opening"
        PROVE  \E u \in Threads : at'[u] = "opening" /\ User(u)' = q
    <3>1. PICK u \in Threads : at[u] = "opening" /\ User(u) = q
      BY <2>1 DEF Readers, ReadersAreKnown
    <3>2. u # t
      BY <3>1 DEF Holding
    <3> QED
      BY <3>1, <3>2, OthersStay
  <2>2. ASSUME NEW q \in Queries, reader'[q] = "open"
        PROVE  q \in open' \/ \E u \in Threads : HasReader(u)' /\ User(u)' = q
    <3>1. q # User(t) /\ reader[q] = "open"
      BY <2>2
    <3>2. CASE q \in open
      BY <3>1, <3>2
    <3>3. CASE \E u \in Threads : HasReader(u) /\ User(u) = q
      BY <1>1, <3>3, OthersStay
    <3> QED
      BY <3>1, <3>2, <3>3 DEF Readers, ReadersAreKnown
  <2> QED
    BY <2>1, <2>2 DEF ReadersAreKnown
<1> QED
  BY <1>3, <1>4, <1>5 DEF Readers

\* A query moves on in the call it was asked by.
LEMMA AskedReaderMoves ==
    ASSUME IInv, Readers, NEW t \in Threads, Inside(t), Asking(t), Asking(t)', on' = on,
           at[t] # "return", at'[t] # "opening", open' = open,
           NEW r \in {"open", "ended", "refused", "dropped"},
           reader' = [reader EXCEPT ![User(t)] = r],
           reader \in [Queries -> {"none", "opening", "open", "ended", "refused", "dropped"}],
           at'[t] \in {"attach to drain", "drain"} => r = "open",
           at'[t] = "drained" => r = "ended",
           r = "open" => HasReader(t)'
    PROVE  Readers'
<1>1. User(t)' = User(t) /\ User(t) \in Queries \ open
  BY DEF User, Readers, AskedOnce
<1>2. \A u \in Threads : (Asking(u)' <=> Asking(u)) /\ User(u)' = User(u)
  <2>1. \A u \in Threads \ {t} : (Asking(u)' <=> Asking(u)) /\ User(u)' = User(u)
    BY OthersStay
  <2> QED
    BY <1>1, <2>1
<1>3. AskedOnce'
  <2>1. \A u, v \in Threads : Asking(u)' /\ Asking(v)' /\ User(u)' = User(v)' => u = v
    BY <1>2 DEF Readers, AskedOnce
  <2>2. ASSUME NEW u \in Threads, Asking(u)'
        PROVE  User(u)' \in Queries \ open'
    <3>1. Asking(u) /\ User(u)' = User(u)
      BY <1>2, <2>2
    <3> QED
      BY <3>1 DEF Readers, AskedOnce
  <2>3. ASSUME NEW q \in Queries, reader'[q] = "none"
        PROVE  q \notin open' /\ \A u \in Threads : Asking(u)' => User(u)' # q
    <3>1. reader[q] = "none"
      BY <1>1, <2>3
    <3> QED
      BY <1>2, <3>1 DEF Readers, AskedOnce
  <2> QED
    BY <2>1, <2>2, <2>3 DEF AskedOnce
<1>4. \A u \in Threads \ {t} : Asking(u) => User(u) # User(t)
  BY DEF Readers, AskedOnce
<1>5. ReadersFollow'
  <2>1. ASSUME NEW u \in Threads \ {t}, at'[u] \in {"opening", "attach to drain", "drain", "drained"}
        PROVE  User(u) # User(t) /\ at'[u] = at[u] /\ User(u)' = User(u) /\ User(u) \in Queries
    BY <1>4, <2>1, OthersStay DEF Readers, AskedOnce, Asking
  <2>2. \A q \in Queries \cap open' : reader'[q] \in {"open", "ended"}
    BY <1>1 DEF Readers, ReadersFollow
  <2>3. ASSUME NEW u \in Threads \ {t}
        PROVE  ReaderFollows(u)'
    <3>1. ReaderFollows(u)
      BY DEF Readers, ReadersFollow
    <3> QED
      BY <2>1, <3>1 DEF ReaderFollows
  <2>4. ReaderFollows(t)'
    BY <1>1 DEF ReaderFollows
  <2> QED
    BY <2>2, <2>3, <2>4 DEF ReadersFollow
<1>6. ReadersAreKnown'
  <2>1. ASSUME NEW q \in Queries, reader'[q] = "opening"
        PROVE  \E u \in Threads : at'[u] = "opening" /\ User(u)' = q
    <3>1. q # User(t) /\ reader[q] = "opening"
      BY <2>1
    <3>2. PICK u \in Threads : at[u] = "opening" /\ User(u) = q
      BY <3>1 DEF Readers, ReadersAreKnown
    <3> QED
      BY <3>1, <3>2, OthersStay
  <2>2. ASSUME NEW q \in Queries, reader'[q] = "open"
        PROVE  q \in open' \/ \E u \in Threads : HasReader(u)' /\ User(u)' = q
    <3>1. CASE q = User(t)
      BY <1>1, <2>2, <3>1
    <3>2. CASE q # User(t)
      <4>1. reader[q] = "open"
        BY <2>2, <3>2
      <4>2. CASE q \in open
        BY <4>2
      <4>3. CASE \E u \in Threads : HasReader(u) /\ User(u) = q
        BY <3>2, <4>3, OthersStay
      <4> QED
        BY <4>1, <4>2, <4>3 DEF Readers, ReadersAreKnown
    <3> QED
      BY <3>1, <3>2
  <2> QED
    BY <2>1, <2>2 DEF ReadersAreKnown
<1> QED
  BY <1>3, <1>5, <1>6 DEF Readers


\* The readers in the calls that are there ...
LEMMA ReadersStay ==
    ASSUME IInv, StreamsInv, Readers, CallsAreAwaited, StatementsAreRun, NEW t \in Threads, Inside(t)
    PROVE  Readers'
<1> USE DEF Goto
<1>1. reader \in [Queries -> {"none", "opening", "open", "ended", "refused", "dropped"}]
  BY ReaderTypes
<1>2. Queries \cap (Ops \cup Inserts \cup Asks) = {}
  BY UsersAssumption DEF Files
<1>3. /\ at[t] # "python" => Kind(t) \in KindsAt(at[t])
      /\ at \in [Threads -> Places]
  BY DEF IInv, Typed
<1>4. on' = on => Kind(t)' = Kind(t) /\ User(t)' = User(t)
  BY DEF Kind, User
<1>5. ASSUME reader' = reader, on' = on, \A q \in Queries : q \in open' <=> q \in open,
             at[t] \in {"lock", "inside", "close", "discard", "insert", "statement", "attach",
                        "calling"},
             NEW to \in Places \ {"opening", "attach to drain", "drain", "drained"},
             at' = [at EXCEPT ![t] = to]
      PROVE  Readers'
  <2>1. Kind(t) \notin {"open", "query_arrow"}
    BY <1>3, <1>5 DEF KindsAt
  <2>2. ~Asking(t)' /\ ~HasReader(t)
    BY <1>3, <1>4, <1>5, <2>1 DEF Asking, HasReader
  <2> QED
    BY <1>3, <1>5, <2>2, ReadersSame
<1>6. CASE Refuse(t) \/ Called(t)
  BY <1>5, <1>6 DEF Refuse, Called, streamVars, fileVars, Places
<1>7. CASE Lock(t)
  <2>1. Kind(t) \in {"read", "write", "close", "discard"}
    BY <1>3, <1>7 DEF Lock, KindsAt
  <2>2. PICK to \in {"inside", "close", "discard"} : at' = [at EXCEPT ![t] = to]
    BY <1>7, <2>1 DEF Lock, Detaches
  <2> QED
    BY <1>5, <1>7, <2>2 DEF Lock, streamVars, Places
<1>8. CASE Read(t)
  <2>1. reader' = reader /\ on' = on /\ open' = open /\ at[t] = "inside"
    BY <1>8 DEF Read, Streams!Receive
  <2>2. at' = [at EXCEPT ![t] = "inside"] \/ at' = [at EXCEPT ![t] = "return"]
    BY <1>8 DEF Read
  <2> QED
    BY <1>5, <2>1, <2>2 DEF Places
<1>9. CASE Write(t)
  BY <1>5, <1>9 DEF Write, streamVars, Places
<1>10. CASE CommitNative(t) \/ CommitPython(t)
  <2>1. reader' = reader /\ on' = on /\ open' = open /\ at[t] = "close"
    BY <1>10 DEF CommitNative, CommitPython, Streams!Begin, Streams!channels, fileVars, streamVars
  <2>2. at' = [at EXCEPT ![t] = "insert"] \/ at' = [at EXCEPT ![t] = "statement"]
    BY <1>10 DEF CommitNative, CommitPython
  <2> QED
    BY <1>5, <2>1, <2>2 DEF Places
<1>11. CASE NativeDone(t) \/ CommitAgain(t)
  <2>1. User(t) \notin Queries
    BY <1>2, <1>11 DEF NativeDone, CommitAgain, CallsAreAwaited
  <2>2. reader' = reader /\ on' = on /\ open' \in {open, open \ {User(t)}}
    BY <1>11 DEF NativeDone, CommitAgain, streamVars, Committed, CommitFails
  <2>3. at[t] \in {"insert", "close"} /\ at' = [at EXCEPT ![t] = "return"]
    BY <1>11 DEF NativeDone, CommitAgain
  <2> QED
    BY <1>5, <2>1, <2>2, <2>3 DEF Places
<1>12. CASE Statement(t) \/ Attach(t)
  <2>1. reader' = reader /\ on' = on /\ open' = open /\ at[t] \in {"statement", "attach"}
    BY <1>12 DEF Statement, Attach, fileVars, streamVars
  <2>2. at' = [at EXCEPT ![t] = "attach"] \/ at' = [at EXCEPT ![t] = "statement"]
    BY <1>12 DEF Statement, Attach
  <2> QED
    BY <1>5, <2>1, <2>2 DEF Places
<1>13. CASE PythonDone(t)
  <2>1. User(t) \notin Queries
    BY <1>2, <1>13 DEF PythonDone, StatementsAreRun
  <2>2. reader' = reader /\ on' = on /\ open' \in {open, open \ {User(t)}}
    BY <1>13 DEF PythonDone, streamVars, fileVars, Committed, CommitFails
  <2>3. at[t] = "statement" /\ at' = [at EXCEPT ![t] = "return"]
    BY <1>13 DEF PythonDone
  <2> QED
    BY <1>5, <2>1, <2>2, <2>3 DEF Places
<1>14. CASE AttachToDrain(t)
  <2>1. /\ at[t] = "attach to drain" /\ at'[t] = "drain"
        /\ reader' = reader /\ on' = on /\ open' = open
    BY <1>3, <1>14 DEF AttachToDrain, streamVars, fileVars
  <2>2. Asking(t) /\ HasReader(t)'
    BY <2>1 DEF Asking, HasReader
  <2> QED
    BY <1>4, <2>1, <2>2, ReadersSame
<1>15. CASE Drain(t)
  <2>1. on' = on /\ open' = open /\ Kind(t) = "query_arrow" /\ Asking(t) /\ User(t) \in Queries
    BY <1>3, <1>15, CallKinds DEF Drain, KindsAt, Asking, fileVars, IInv
  <2>2. CASE Goto(t, "drain", "drain") /\ Streams!Receive(User(t))
    <3>1. at[t] = "drain" /\ at'[t] = "drain" /\ reader' = reader
      BY <1>3, <2>2 DEF Streams!Receive
    <3>2. HasReader(t)'
      BY <3>1 DEF HasReader
    <3> QED
      BY <1>4, <2>1, <3>1, <3>2, ReadersSame
  <2>3. CASE Goto(t, "drain", "drained") /\ Streams!ReceiveEnd(User(t))
    <3>1. at[t] = "drain" /\ at'[t] = "drained" /\ reader' = [reader EXCEPT ![User(t)] = "ended"]
      BY <1>3, <2>3 DEF Streams!ReceiveEnd
    <3>2. Asking(t)'
      BY <3>1 DEF Asking
    <3> QED
      BY <1>1, <2>1, <3>1, <3>2, AskedReaderMoves
  <2>4. CASE Goto(t, "drained", "return") /\ Streams!Drop(User(t))
    <3>1. at[t] = "drained" /\ at'[t] = "return" /\ reader' = [reader EXCEPT ![User(t)] = "dropped"]
      BY <1>3, <2>4 DEF Streams!Drop
    <3>2. Asking(t)'
      BY <1>4, <2>1, <3>1 DEF Asking
    <3> QED
      BY <1>1, <2>1, <3>1, <3>2, AskedReaderMoves
  <2> QED
    BY <1>15, <2>2, <2>3, <2>4 DEF Drain
<1>16. CASE Opened(t)
  <2>1. /\ on' = on /\ open' = open /\ at[t] = "opening" /\ Kind(t) \in {"open", "query_arrow"}
        /\ Asking(t)
    BY <1>3, <1>16 DEF Opened, KindsAt, Asking, fileVars
  <2>2. at'[t] = IF Kind(t) = "query_arrow" /\ schema[User(t)] = "schema"
                 THEN "attach to drain" ELSE "return"
    BY <1>3, <1>16 DEF Opened
  <2>3. Asking(t)'
    BY <1>4, <2>1, <2>2 DEF Asking
  <2>4. CASE schema[User(t)] = "schema"
    <3>1. reader' = [reader EXCEPT ![User(t)] = "open"]
      BY <1>16, <2>4 DEF Opened, Streams!Opened
    <3>2. HasReader(t)'
      BY <1>4, <2>1, <2>2, <2>4 DEF HasReader
    <3> QED
      BY <1>1, <1>16, <2>1, <2>2, <2>3, <2>4, <3>1, <3>2, AskedReaderMoves
  <2>5. CASE schema[User(t)] # "schema"
    <3>1. reader' = [reader EXCEPT ![User(t)] = "refused"] /\ at'[t] = "return"
      BY <1>16, <2>2, <2>5 DEF Opened, Streams!Opened
    <3> QED
      BY <1>1, <1>16, <2>1, <2>3, <3>1, AskedReaderMoves
  <2> QED
    BY <2>4, <2>5
<1>17. CASE ReadEnd(t) \/ CloseQuery(t) \/ Discard(t)
  <2>1. /\ Holding(t) /\ at' = [at EXCEPT ![t] = "return"] /\ on' = on
        /\ at[t] \in {"inside", "close", "discard"}
    BY <1>17 DEF ReadEnd, CloseQuery, Discard, Holding
  <2>2. at'[t] = "return"
    BY <1>3, <2>1
  <2>3. CASE reader' = reader /\ \A q \in Queries : q \in open' <=> q \in open
    BY <1>5, <2>1, <2>3 DEF Places
  <2>4. CASE User(t) \in Queries /\ reader' # reader
    <3>1. \/ reader' = [reader EXCEPT ![User(t)] = "ended"] /\ open' = open
          \/ reader' = [reader EXCEPT ![User(t)] = "dropped"] /\ open' = open \ {User(t)}
      BY <1>17, <2>4
         DEF ReadEnd, CloseQuery, Discard, Streams!ReceiveEnd, Streams!Drop, Committed, streamVars
    <3> QED
      BY <1>1, <2>1, <2>2, <2>4, <3>1, FileReaderEnds
  <2>5. reader' # reader => User(t) \in Queries
    <3>1. ReadEnd(t) => User(t) \in Queries
      BY <1>3, CallKinds DEF ReadEnd, IInv
    <3> QED
      BY <1>17, <3>1 DEF CloseQuery, Discard, streamVars
  <2>6. reader' = reader => \A q \in Queries : q \in open' <=> q \in open
    <3>1. CASE ReadEnd(t)
      BY <3>1 DEF ReadEnd
    <3>2. CASE CloseQuery(t)
      <4>1. reader[User(t)] # "dropped" /\ reader' = [reader EXCEPT ![User(t)] = "dropped"]
        BY <3>2 DEF CloseQuery, Streams!Drop
      <4> QED
        BY <1>1, <3>2, <4>1 DEF CloseQuery
    <3>3. CASE Discard(t) /\ User(t) \in Queries
      <4>1. reader[User(t)] # "dropped" /\ reader' = [reader EXCEPT ![User(t)] = "dropped"]
        BY <3>3 DEF Discard, Streams!Drop
      <4> QED
        BY <1>1, <3>3, <4>1
    <3>4. CASE Discard(t) /\ User(t) \notin Queries
      BY <3>4 DEF Discard
    <3> QED
      BY <1>17, <3>1, <3>2, <3>3, <3>4
  <2> QED
    BY <2>3, <2>4, <2>5, <2>6
<1>18. CASE Return(t)
  <2> DEFINE p == User(t)
  <2>1. /\ at[t] = "return" /\ at'[t] = "python" /\ reader' = reader
        /\ open' = IF Kind(t) = "open" /\ reader[p] = "open" THEN open \cup {p} ELSE open
    BY <1>3, <1>18 DEF Return, streamVars
  <2>2. ~Asking(t)' /\ ~HasReader(t)'
    BY <2>1 DEF Asking, HasReader
  <2>3. Kind(t) = "open" => /\ p \in Queries \ open
                            /\ \A u \in Threads \ {t} : Asking(u) => User(u) # p
    BY <2>1 DEF Readers, AskedOnce, Asking
  <2>4. \A u \in Threads \ {t} :
           /\ at'[u] = at[u] /\ User(u)' = User(u)
           /\ Asking(u)' = Asking(u) /\ HasReader(u)' = HasReader(u)
    BY OthersStay
  <2>5. AskedOnce'
    <3>1. ASSUME NEW u \in Threads, Asking(u)'
          PROVE  User(u)' \in Queries \ open' /\ u # t /\ Asking(u) /\ User(u)' = User(u)
      <4>1. u # t
        BY <2>2, <3>1
      <4> QED
        BY <2>1, <2>3, <2>4, <3>1, <4>1 DEF Readers, AskedOnce
    <3>2. ASSUME NEW u \in Threads, NEW v \in Threads, Asking(u)', Asking(v)', User(u)' = User(v)'
          PROVE  u = v
      BY <3>1, <3>2 DEF Readers, AskedOnce
    <3>3. ASSUME NEW q \in Queries, reader'[q] = "none"
          PROVE  q \notin open' /\ \A u \in Threads : Asking(u)' => User(u)' # q
      BY <2>1, <3>1, <3>3 DEF Readers, AskedOnce
    <3> QED
      BY <3>1, <3>2, <3>3 DEF AskedOnce
  <2>6. ReadersFollow'
    <3>1. \A q \in Queries \cap open' : reader'[q] \in {"open", "ended"}
      BY <2>1 DEF Readers, ReadersFollow
    <3>2. ASSUME NEW u \in Threads
          PROVE  ReaderFollows(u)'
      <4>1. ReaderFollows(u)
        BY DEF Readers, ReadersFollow
      <4> QED
        BY <2>1, <2>4, <4>1 DEF ReaderFollows
    <3> QED
      BY <3>1, <3>2 DEF ReadersFollow
  <2>7. ReadersAreKnown'
    <3>1. ASSUME NEW q \in Queries, reader'[q] = "opening"
          PROVE  \E u \in Threads : at'[u] = "opening" /\ User(u)' = q
      <4>1. PICK u \in Threads : at[u] = "opening" /\ User(u) = q
        BY <2>1, <3>1 DEF Readers, ReadersAreKnown
      <4> QED
        BY <2>1, <2>4, <4>1
    <3>2. ASSUME NEW q \in Queries, reader'[q] = "open", q \notin open'
          PROVE  \E u \in Threads : HasReader(u)' /\ User(u)' = q
      <4>1. q \notin open /\ reader[q] = "open"
        BY <2>1, <3>2
      <4>2. PICK u \in Threads : HasReader(u) /\ User(u) = q
        BY <4>1 DEF Readers, ReadersAreKnown
      <4>3. u # t
        BY <2>1, <3>2, <4>1, <4>2 DEF HasReader
      <4> QED
        BY <2>4, <4>2, <4>3
    <3> QED
      BY <3>1, <3>2 DEF ReadersAreKnown
  <2> QED
    BY <2>5, <2>6, <2>7 DEF Readers
<1> QED
  BY <1>6, <1>7, <1>8, <1>9, <1>10, <1>11, <1>12, <1>13, <1>14, <1>15, <1>16, <1>17, <1>18 DEF Inside

\* ... in a call that begins ...
LEMMA ReadersBegin ==
    ASSUME IInv, StreamsInv, Readers, NEW t \in Threads, Begin(t)
    PROVE  Readers'
<1>1. PICK c \in left[t] :
         CallQuery(t, c) \/ CallFile(t, c) \/ CallNative(t, c) \/ CallPython(t, c)
  BY DEF Begin
<1>2. /\ at[t] = "python" /\ on' = [on EXCEPT ![t] = c] /\ open' = open
      /\ \E to \in {"opening", "lock", "calling", "statement"} : at'[t] = to
      /\ c \in AllCalls
  BY <1>1 DEF CallQuery, CallFile, CallNative, CallPython, Call, Goto, fileVars, IInv, Typed
<1>3. Kind(t)' = c[1] /\ User(t)' = c[2] /\ ~Asking(t) /\ ~HasReader(t)
  BY <1>2 DEF Kind, User, Asking, HasReader, IInv, Typed
<1>4. \A u \in Threads \ {t} :
         /\ at'[u] = at[u] /\ User(u)' = User(u)
         /\ Asking(u)' = Asking(u) /\ HasReader(u)' = HasReader(u)
  BY OthersStay
<1>5. CASE CallFile(t, c) \/ CallNative(t, c) \/ CallPython(t, c)
  <2>1. reader' = reader /\ at'[t] \in {"lock", "calling", "statement"}
    BY <1>5
       DEF CallFile, CallNative, CallPython, Call, Goto, Streams!Begin, Streams!channels, streamVars,
           IInv, Typed
  <2>2. ~Asking(t)'
    BY <2>1 DEF Asking
  <2> QED
    BY <1>2, <1>3, <2>1, <2>2, ReadersSame
<1>6. CASE CallQuery(t, c)
  <2> DEFINE p == c[2]
  <2>1. /\ p \in Queries /\ at'[t] = "opening"
        /\ reader[p] = "none" /\ reader' = [reader EXCEPT ![p] = "opening"]
    BY <1>2, <1>6 DEF CallQuery, Call, Goto, Streams!Query, AllCalls, IInv, Typed
  <2>2. p \notin open /\ \A u \in Threads : Asking(u) => User(u) # p
    BY <2>1 DEF Readers, AskedOnce
  <2>3. reader'[p] = "opening" /\ \A q \in Queries \ {p} : reader'[q] = reader[q]
    BY <2>1, ReaderTypes
  <2>4. AskedOnce'
    <3>1. ASSUME NEW u \in Threads, Asking(u)'
          PROVE  /\ User(u)' \in Queries \ open'
                 /\ u # t => Asking(u) /\ User(u)' = User(u) /\ User(u) # p
      BY <1>2, <1>3, <1>4, <2>1, <2>2, <3>1 DEF Readers, AskedOnce
    <3>2. ASSUME NEW u \in Threads, NEW v \in Threads, Asking(u)', Asking(v)', User(u)' = User(v)'
          PROVE  u = v
      BY <1>3, <3>1, <3>2 DEF Readers, AskedOnce
    <3>3. ASSUME NEW q \in Queries, reader'[q] = "none"
          PROVE  q \notin open' /\ \A u \in Threads : Asking(u)' => User(u)' # q
      <4>1. q # p /\ reader[q] = "none"
        BY <2>3, <3>3
      <4> QED
        BY <1>2, <1>3, <3>1, <4>1 DEF Readers, AskedOnce
    <3> QED
      BY <3>1, <3>2, <3>3 DEF AskedOnce
  <2>5. ReadersFollow'
    <3>1. \A q \in Queries \cap open' : reader'[q] \in {"open", "ended"}
      BY <1>2, <2>2, <2>3 DEF Readers, ReadersFollow
    <3>2. ASSUME NEW u \in Threads \ {t}
          PROVE  ReaderFollows(u)'
      <4>1. CASE ~Asking(u)
        BY <1>4, <4>1 DEF Asking, ReaderFollows
      <4>2. CASE Asking(u)
        <5>1. User(u) \in Queries \ {p} /\ ReaderFollows(u)
          BY <2>2, <4>2 DEF Readers, AskedOnce, ReadersFollow
        <5>2. reader'[User(u)'] = reader[User(u)]
          BY <1>4, <2>3, <5>1
        <5> QED
          BY <1>4, <5>1, <5>2 DEF ReaderFollows
      <4> QED
        BY <4>1, <4>2
    <3>3. ReaderFollows(t)'
      BY <1>3, <2>1, <2>3 DEF ReaderFollows
    <3> QED
      BY <3>1, <3>2, <3>3 DEF ReadersFollow
  <2>6. ReadersAreKnown'
    <3>1. ASSUME NEW q \in Queries \ {p}, reader'[q] = "opening"
          PROVE  \E u \in Threads : at'[u] = "opening" /\ User(u)' = q
      <4>1. PICK u \in Threads : at[u] = "opening" /\ User(u) = q
        BY <2>3, <3>1 DEF Readers, ReadersAreKnown
      <4> QED
        BY <1>2, <1>4, <4>1
    <3>2. ASSUME NEW q \in Queries, reader'[q] = "open"
          PROVE  q \in open' \/ \E u \in Threads : HasReader(u)' /\ User(u)' = q
      <4>1. reader[q] = "open"
        BY <2>3, <3>2
      <4>2. CASE \E u \in Threads : HasReader(u) /\ User(u) = q
        BY <1>3, <1>4, <4>2
      <4> QED
        BY <1>2, <4>1, <4>2 DEF Readers, ReadersAreKnown
    <3> QED
      BY <1>3, <2>1, <3>1, <3>2 DEF ReadersAreKnown
  <2> QED
    BY <2>4, <2>5, <2>6 DEF Readers
<1> QED
  BY <1>1, <1>5, <1>6

\* ... and while the workers go on.
LEMMA WorkersReadNothing ==
    ASSUME NEW x, Work(x)
    PROVE  reader' = reader /\ UNCHANGED <<adapterVars, fileVars, left, at, on, gil>>
<1>1. CASE Streams!Worker(x)
  BY <1>1
     DEF Work, Streams!Worker, Streams!Fetch, Streams!FetchTimesOut, Streams!FullChunk,
         Streams!ShortChunk, Streams!Send, Streams!SendLast, Streams!Exhausted, Streams!NoRows,
         Streams!FetchSchema, Streams!EmptyBatch, Streams!QueryFails, Streams!Report,
         Streams!TakeCore, Streams!Acquire, Streams!channels
<1>2. CASE Streams!Other(x)
  BY <1>2
     DEF Work, Streams!Other, Streams!OpAcquire, Streams!OpTimesOut, Streams!OpRun,
         Streams!TakeCore, Streams!Acquire, Streams!channels
<1> QED
  BY <1>1, <1>2 DEF Work

LEMMA ReadersWork ==
    ASSUME Readers, reader' = reader, at' = at, on' = on, open' = open
    PROVE  Readers'
<1>1. AskedOnce'
  BY DEF Readers, AskedOnce, Asking, User, Kind
<1>2. ReadersFollow'
  BY DEF Readers, ReadersFollow, ReaderFollows, User
<1>3. ReadersAreKnown'
  <2>1. \A u \in Threads : at'[u] = at[u] /\ (HasReader(u)' <=> HasReader(u)) /\ User(u)' = User(u)
    BY DEF HasReader, User, Kind
  <2>2. ReadersAreKnown
    BY DEF Readers
  <2> QED
    BY <2>1, <2>2 DEF ReadersAreKnown
<1> QED
  BY <1>1, <1>2, <1>3 DEF Readers

-----------------------------------------------------------------------------
(***************************************************************************)
(* What was begun has a thread waiting for it, and the calls are those of  *)
(* one program.                                                            *)
(***************************************************************************)

\* The call that a database makes for a thread is begun with the thread there,
\* and ended when the thread leaves.
LEMMA AwaitedStay ==
    ASSUME IInv, CallsAreAwaited, StartedOnce, NEW t \in Threads, Inside(t) \/ Begin(t),
           \A o \in Ops : pc'[o] = pc[o] \/ (at'[t] \in {"insert", "calling"} /\ User(t)' = o),
           at[t] \in {"insert", "calling"} => pc[User(t)] = "ended",
           at'[t] \in {"insert", "calling"} => User(t)' \in Ops /\ pc'[User(t)'] # "idle"
    PROVE  CallsAreAwaited'
<1>1. \A u \in Threads \ {t} : at'[u] = at[u] /\ User(u)' = User(u)
  BY OthersStay
<1>2. ASSUME NEW o \in Ops,
             ~ \E u \in Threads : at'[u] \in {"insert", "calling"} /\ User(u)' = o
      PROVE  pc'[o] \in {"idle", "ended"}
  <2>1. pc'[o] = pc[o]
    BY <1>2
  <2>2. CASE \E u \in Threads : at[u] \in {"insert", "calling"} /\ User(u) = o
    BY <1>1, <1>2, <2>1, <2>2
  <2> QED
    BY <2>1, <2>2 DEF CallsAreAwaited
<1>3. ASSUME NEW u \in Threads, at'[u] \in {"insert", "calling"}
      PROVE  User(u)' \in Ops /\ pc'[User(u)'] # "idle"
  BY <1>1, <1>3 DEF CallsAreAwaited, StartedOnce
<1> QED
  BY <1>2, <1>3 DEF CallsAreAwaited

LEMMA CallsStayAwaited ==
    ASSUME IInv, CallsAreAwaited, NEW t \in Threads, Inside(t) \/ Begin(t)
    PROVE  CallsAreAwaited'
<1> USE DEF Goto
<1>1. at \in [Threads -> Places] /\ pc \in [Queries \cup Ops -> WorkerPlaces]
  BY DEF IInv, Typed
<1>2. StartedOnce
  BY QueriesStartOnce
     DEF IInv, Inside, Begin, Opened, AttachToDrain, Drain, Refuse, Lock, Read, ReadEnd, Write,
         CloseQuery, CommitNative, NativeDone, CommitAgain, CommitPython, Statement, Attach,
         PythonDone, Discard, Called, Return, CallQuery, CallFile, CallNative, CallPython
<1>3. ASSUME pc' = pc, at'[t] \notin {"insert", "calling"},
             at[t] \in {"insert", "calling"} => pc[User(t)] = "ended"
      PROVE  CallsAreAwaited'
  BY <1>2, <1>3, AwaitedStay
<1>4. CASE Opened(t) \/ Drain(t) \/ Read(t) \/ ReadEnd(t) \/ CloseQuery(t) \/ Discard(t)
  <2>1. pc' = pc
    BY <1>4
       DEF Opened, Drain, Read, ReadEnd, CloseQuery, Discard, Streams!Opened, Streams!Receive,
           Streams!ReceiveEnd, Streams!Drop, streamVars
  <2>2. at[t] \notin {"insert", "calling"} /\ at'[t] \notin {"insert", "calling"}
    BY <1>1, <1>4 DEF Opened, Drain, Read, ReadEnd, CloseQuery, Discard
  <2> QED
    BY <1>3, <2>1, <2>2
<1>5. CASE \/ AttachToDrain(t) \/ Refuse(t) \/ Lock(t) \/ Write(t) \/ CommitAgain(t)
           \/ CommitPython(t) \/ Statement(t) \/ Attach(t) \/ PythonDone(t) \/ Return(t)
  <2>1. pc' = pc
    BY <1>5
       DEF AttachToDrain, Refuse, Lock, Write, CommitAgain, CommitPython, Statement, Attach,
           PythonDone, Return, streamVars
  <2>2. at[t] \notin {"insert", "calling"} /\ at'[t] \notin {"insert", "calling"}
    <3>1. Lock(t) => Kind(t) \in {"read", "write", "close", "discard"}
      BY DEF Lock, IInv, Typed, KindsAt
    <3> QED
      BY <1>1, <1>5, <3>1
         DEF AttachToDrain, Refuse, Lock, Write, CommitAgain, CommitPython, Statement, Attach,
             PythonDone, Return
  <2> QED
    BY <1>3, <2>1, <2>2
<1>6. CASE NativeDone(t) \/ Called(t)
  BY <1>1, <1>3, <1>6 DEF NativeDone, Called, streamVars
<1>7. CASE CommitNative(t)
  <2>1. /\ at[t] = "close" /\ at'[t] = "insert" /\ User(t) \in Ops /\ User(t)' = User(t)
        /\ pc' = [pc EXCEPT ![User(t)] = "acquire"]
    BY <1>1, <1>7 DEF CommitNative, User, Streams!Begin, Streams!Goto
  <2> QED
    BY <1>1, <1>2, <2>1, AwaitedStay
<1>8. CASE Begin(t)
  <2>1. PICK c \in left[t] :
           CallQuery(t, c) \/ CallFile(t, c) \/ CallNative(t, c) \/ CallPython(t, c)
    BY <1>8 DEF Begin
  <2>2. c \in AllCalls /\ on \in [Threads -> AllCalls \cup {NoCall}]
    BY DEF IInv, Typed
  <2>3. CASE CallQuery(t, c)
    <3>1. /\ at[t] = "python" /\ at'[t] = "opening" /\ c[2] \in Queries
          /\ pc' = [pc EXCEPT ![c[2]] = "acquire"]
      BY <1>1, <2>2, <2>3 DEF CallQuery, Call, Streams!Query, Streams!Goto, AllCalls
    <3>2. \A o \in Ops : pc'[o] = pc[o]
      BY <1>1, <3>1, UsersAssumption
    <3> QED
      BY <1>2, <3>1, <3>2, AwaitedStay
  <2>4. CASE CallFile(t, c) \/ CallPython(t, c)
    BY <1>1, <1>3, <2>4 DEF CallFile, CallPython, Call, streamVars
  <2>5. CASE CallNative(t, c)
    <3>1. /\ at[t] = "python" /\ at'[t] = "calling" /\ c[2] \in Ops /\ User(t)' = c[2]
          /\ pc' = [pc EXCEPT ![c[2]] = "acquire"]
      BY <1>1, <2>2, <2>5, UsersAssumption
         DEF CallNative, Call, User, Streams!Begin, Streams!Goto, AllCalls
    <3> QED
      BY <1>1, <1>2, <3>1, AwaitedStay
  <2> QED
    BY <2>1, <2>3, <2>4, <2>5
<1> QED
  BY <1>4, <1>5, <1>6, <1>7, <1>8 DEF Inside

\* A worker and another call move on once they were begun.
LEMMA CallsWork ==
    ASSUME IInv, CallsAreAwaited, NEW x \in Queries \cup Ops, Work(x)
    PROVE  CallsAreAwaited'
<1>1. at' = at /\ \A u \in Threads : User(u)' = User(u)
  BY WorkersReadNothing DEF User
<1>2. StartedOnce
  BY QueriesStartOnce DEF IInv, Work
<1>3. ASSUME NEW o \in Ops, pc[o] \in {"idle", "ended"}
      PROVE  pc'[o] = pc[o]
  <2>1. CASE Streams!Other(x)
    <3>1. pc' = pc \/ (pc[x] \notin {"idle", "ended"} /\ \E to : pc' = [pc EXCEPT ![x] = to])
      BY <2>1
         DEF Streams!Other, Streams!OpAcquire, Streams!OpTimesOut, Streams!OpRun,
             Streams!TakeCore, Streams!Acquire, Streams!Goto
    <3> QED
      BY <1>3, <3>1 DEF IInv, Typed
  <2>2. CASE x \in Queries /\ Streams!Worker(x)
    <3>1. pc' = pc \/ \E to : pc' = [pc EXCEPT ![x] = to]
      BY <2>2
         DEF Streams!Worker, Streams!Fetch, Streams!FetchTimesOut, Streams!FullChunk,
             Streams!ShortChunk, Streams!Send, Streams!SendLast, Streams!Exhausted,
             Streams!NoRows, Streams!FetchSchema, Streams!EmptyBatch, Streams!QueryFails,
             Streams!Report, Streams!TakeCore, Streams!Acquire, Streams!Goto
    <3>2. x # o
      BY <2>2, UsersAssumption
    <3> QED
      BY <3>1, <3>2 DEF IInv, Typed
  <2> QED
    BY <2>1, <2>2 DEF Work
<1> QED
  BY <1>1, <1>2, <1>3 DEF CallsAreAwaited, StartedOnce

\* A statement, and where the call is after it.
LEMMA StatementMoves ==
    ASSUME NEW c, Adapter!Statement(c)
    PROVE  \E to \in StepPlaces \ {"idle"} : step' = [step EXCEPT ![c] = to]
<1> USE DEF Adapter!Goto, StepPlaces
<1>1. CASE Adapter!Execute(c)
  BY <1>1 DEF Adapter!Execute
<1>2. CASE Adapter!Fetch(c)
  BY <1>2 DEF Adapter!Fetch
<1>3. CASE Adapter!Register(c)
  BY <1>3 DEF Adapter!Register
<1>4. CASE Adapter!Delete(c)
  BY <1>4 DEF Adapter!Delete
<1>5. CASE Adapter!InsertRegistered(c)
  BY <1>5 DEF Adapter!InsertRegistered
<1>6. CASE Adapter!InsertChunk(c)
  BY <1>6 DEF Adapter!InsertChunk
<1>7. CASE Adapter!Fail(c)
  BY <1>7 DEF Adapter!Fail
<1>8. CASE Adapter!Unregister(c)
  BY <1>8 DEF Adapter!Unregister
<1> QED
  BY <1>1, <1>2, <1>3, <1>4, <1>5, <1>6, <1>7, <1>8 DEF Adapter!Statement

LEMMA StartMoves ==
    ASSUME NEW c, Adapter!Start(c)
    PROVE  \E to \in StepPlaces \ {"idle"} : step' = [step EXCEPT ![c] = to]
<1> DEFINE to == IF c \in Asks THEN "execute" ELSE IF adapter = "duckdb" THEN "register" ELSE "delete"
<1>1. step' = [step EXCEPT ![c] = to]
  BY DEF Adapter!Start, Adapter!Goto
<1>2. to \in StepPlaces \ {"idle"}
  BY DEF StepPlaces
<1> HIDE DEF to
<1> QED
  BY <1>1, <1>2

\* A statement is asked for and run with the thread there, to its end.
LEMMA RunStay ==
    ASSUME IInv, StatementsAreRun, NEW t \in Threads, Inside(t) \/ Begin(t),
           step' \in [Inserts \cup Asks -> StepPlaces],
           \A c \in Inserts : 
              step'[c] = step[c] \/ (at'[t] \in {"statement", "attach"} /\ User(t)' = c),
           \A c \in Inserts \cup Asks : step'[c] = "idle" => step[c] = "idle",
           at[t] \in {"statement", "attach"} =>
             \/ at'[t] \in {"statement", "attach"} /\ User(t)' = User(t)
             \/ Adapter!Finished(User(t)),
           at'[t] \in {"statement", "attach"} =>
             User(t)' \in Inserts \cup Asks /\ step'[User(t)'] # "idle"
    PROVE  StatementsAreRun'
<1>1. \A u \in Threads \ {t} : at'[u] = at[u] /\ User(u)' = User(u)
  BY OthersStay
<1>2. ASSUME NEW c \in Inserts,
             ~ \E u \in Threads : at'[u] \in {"statement", "attach"} /\ User(u)' = c
      PROVE  step'[c] \in {"idle", "ok", "error"}
  <2>1. step'[c] = step[c]
    BY <1>2
  <2>2. CASE \E u \in Threads : at[u] \in {"statement", "attach"} /\ User(u) = c
    BY <1>1, <1>2, <2>1, <2>2 DEF Adapter!Finished
  <2> QED
    BY <2>1, <2>2 DEF StatementsAreRun, Adapter!Finished
<1>3. ASSUME NEW u \in Threads, at'[u] \in {"statement", "attach"}
      PROVE  User(u)' \in Inserts \cup Asks /\ step'[User(u)'] # "idle"
  BY <1>1, <1>3 DEF StatementsAreRun
<1> QED
  BY <1>2, <1>3 DEF StatementsAreRun, Adapter!Finished

LEMMA StatementsStayRun ==
    ASSUME IInv, StatementsAreRun, NEW t \in Threads, Inside(t) \/ Begin(t)
    PROVE  StatementsAreRun'
<1> USE DEF Goto
<1>1. at \in [Threads -> Places] /\ step \in [Inserts \cup Asks -> StepPlaces]
  BY DEF IInv, Typed, StatementsAreRun
<1>2. ASSUME step' = step, at'[t] \notin {"statement", "attach"},
             at[t] \in {"statement", "attach"} => Adapter!Finished(User(t))
      PROVE  StatementsAreRun'
  BY <1>1, <1>2, RunStay
<1>3. CASE Opened(t) \/ AttachToDrain(t) \/ Drain(t) \/ Refuse(t) \/ Read(t) \/ ReadEnd(t) \/ Write(t)
  BY <1>1, <1>2, <1>3
     DEF Opened, AttachToDrain, Drain, Refuse, Read, ReadEnd, Write, adapterVars
<1>4. CASE \/ CloseQuery(t) \/ CommitNative(t) \/ NativeDone(t) \/ CommitAgain(t) \/ Discard(t)
           \/ Called(t) \/ Return(t)
  BY <1>1, <1>2, <1>4
     DEF CloseQuery, CommitNative, NativeDone, CommitAgain, Discard, Called, Return, adapterVars
<1>5. CASE Lock(t)
  <2>1. Kind(t) \in {"read", "write", "close", "discard"}
    BY <1>5 DEF Lock, IInv, Typed, KindsAt
  <2> QED
    BY <1>1, <1>2, <1>5, <2>1 DEF Lock, adapterVars
<1>6. CASE PythonDone(t)
  BY <1>1, <1>2, <1>6 DEF PythonDone, adapterVars
<1>7. CASE Attach(t)
  <2>1. step' = step /\ at[t] = "attach" /\ at'[t] = "statement" /\ User(t)' = User(t)
    BY <1>1, <1>7 DEF Attach, adapterVars, User
  <2>2. User(t) \in Inserts \cup Asks /\ step[User(t)] # "idle"
    BY <2>1 DEF StatementsAreRun
  <2> QED
    BY <1>1, <2>1, <2>2, RunStay
<1>8. CASE Statement(t)
  <2>1. /\ at[t] = "statement" /\ at'[t] \in {"statement", "attach"} /\ User(t)' = User(t)
        /\ Adapter!Statement(User(t))
    BY <1>1, <1>8 DEF Statement, User
  <2>2. User(t) \in Inserts \cup Asks
    BY <2>1 DEF StatementsAreRun
  <2>3. PICK to \in StepPlaces \ {"idle"} : step' = [step EXCEPT ![User(t)] = to]
    BY <2>1, StatementMoves
  <2> QED
    BY <1>1, <2>1, <2>2, <2>3, RunStay
<1>9. CASE CommitPython(t)
  <2>1. /\ at[t] = "close" /\ at'[t] = "statement" /\ User(t)' = User(t) /\ User(t) \in Inserts
        /\ Adapter!Start(User(t))
    BY <1>1, <1>9 DEF CommitPython, User
  <2>2. PICK to \in StepPlaces \ {"idle"} : step' = [step EXCEPT ![User(t)] = to]
    BY <2>1, StartMoves
  <2> QED
    BY <1>1, <2>1, <2>2, RunStay
<1>10. CASE Begin(t)
  <2>1. PICK c \in left[t] :
           CallQuery(t, c) \/ CallFile(t, c) \/ CallNative(t, c) \/ CallPython(t, c)
    BY <1>10 DEF Begin
  <2>2. c \in AllCalls /\ on \in [Threads -> AllCalls \cup {NoCall}]
    BY DEF IInv, Typed
  <2>3. CASE CallQuery(t, c) \/ CallFile(t, c) \/ CallNative(t, c)
    BY <1>1, <1>2, <2>3 DEF CallQuery, CallFile, CallNative, Call, adapterVars
  <2>4. CASE CallPython(t, c)
    <3>1. /\ at[t] = "python" /\ at'[t] = "statement" /\ User(t)' = c[2]
          /\ c[2] \in Asks /\ Adapter!Start(c[2])
      BY <1>1, <2>2, <2>4 DEF CallPython, Call, User, AllCalls
    <3>2. PICK to \in StepPlaces \ {"idle"} : step' = [step EXCEPT ![c[2]] = to]
      BY <3>1, StartMoves
    <3> QED
      BY <1>1, <3>1, <3>2, RunStay
  <2> QED
    BY <2>1, <2>3, <2>4
<1> QED
  BY <1>3, <1>4, <1>5, <1>6, <1>7, <1>8, <1>9, <1>10 DEF Inside

\* No call is taken from another program.
LEMMA ProgramStays ==
    ASSUME IInv, OneProgram, NEW t \in Threads, Inside(t) \/ Begin(t)
    PROVE  OneProgram'
<1>1. PICK p \in Programs : \A u \in Threads :
         /\ left[u] \subseteq p.calls[u]
         /\ at[u] # "python" => on[u] \in p.calls[u]
  BY DEF OneProgram
<1> SUFFICES \A u \in Threads :
         /\ left'[u] \subseteq p.calls[u]
         /\ at'[u] # "python" => on'[u] \in p.calls[u]
  BY DEF OneProgram
<1>2. /\ left \in [Threads -> SUBSET AllCalls] /\ on \in [Threads -> AllCalls \cup {NoCall}]
      /\ at \in [Threads -> Places]
  BY DEF IInv, Typed
<1>3. CASE on' = on /\ left' = left /\ at[t] # "python" /\ \E to : at' = [at EXCEPT ![t] = to]
  BY <1>1, <1>2, <1>3
<1> USE DEF Goto
<1>4. CASE \/ Opened(t) \/ AttachToDrain(t) \/ Drain(t) \/ Lock(t) \/ Read(t) \/ Write(t)
           \/ CloseQuery(t) \/ CommitNative(t) \/ NativeDone(t) \/ CommitAgain(t)
  BY <1>3, <1>4
     DEF Opened, AttachToDrain, Drain, Lock, Read, Write, CloseQuery, CommitNative, NativeDone,
         CommitAgain
<1>5. CASE CommitPython(t) \/ Statement(t) \/ Attach(t) \/ PythonDone(t) \/ Discard(t) \/ Called(t)
  BY <1>3, <1>5 DEF CommitPython, Statement, Attach, PythonDone, Discard, Called
<1>6. CASE Refuse(t) \/ ReadEnd(t)
  BY <1>1, <1>2, <1>6 DEF Refuse, ReadEnd
<1>7. CASE Return(t)
  BY <1>1, <1>2, <1>7 DEF Return
<1>8. CASE Begin(t)
  <2>1. PICK c \in left[t] : \E to : Call(t, c, to)
    BY <1>8 DEF Begin, CallQuery, CallFile, CallNative, CallPython
  <2> QED
    BY <1>1, <1>2, <2>1 DEF Call
<1> QED
  BY <1>4, <1>5, <1>6, <1>7, <1>8 DEF Inside

-----------------------------------------------------------------------------
(***************************************************************************)
(* The whole invariant.                                                    *)
(***************************************************************************)

Waits == GilAt /\ LocksAreHeld /\ Readers /\ CallsAreAwaited /\ StatementsAreRun /\ OneProgram

WaitInv == IInv /\ StreamsInv /\ Waits

LEMMA InitWaits == Init => Waits
<1> SUFFICES ASSUME Init
             PROVE  Waits
  OBVIOUS
<1>1. /\ at = [t \in Threads |-> "python"] /\ gil = None /\ lock = [f \in Files |-> None]
      /\ open = Files \ Queries /\ reader = [q \in Queries |-> "none"]
  BY DEF Init, Streams!Init
<1>2. \A t \in Threads : at[t] = "python" /\ ~Asking(t) /\ ~HasReader(t)
  BY <1>1 DEF Asking, HasReader
<1>3. GilAt /\ LocksAreHeld
  BY <1>1, UsersAssumption DEF GilAt, LocksAreHeld
<1>4. Readers
  BY <1>1, <1>2 DEF Readers, AskedOnce, ReadersFollow, ReaderFollows, ReadersAreKnown, Asking
<1>5. CallsAreAwaited
  <2>1. \A o \in Ops : pc[o] \in {"idle", "ended"}
    BY DEF Init, Streams!Init, Streams!Tasks
  <2> QED
    BY <1>2, <2>1 DEF CallsAreAwaited
<1>6. StatementsAreRun
  <2>1. step = [c \in Inserts \cup Asks |-> "idle"]
    BY DEF Init, Adapter!Init, Adapter!Calls
  <2> QED
    BY <1>2, <2>1 DEF StatementsAreRun, StepPlaces
<1>7. OneProgram
  BY <1>2 DEF Init, OneProgram
<1> QED
  BY <1>3, <1>4, <1>5, <1>6, <1>7 DEF Waits

LEMMA WaitsWork ==
    ASSUME WaitInv, NEW x \in Queries \cup Ops, Work(x)
    PROVE  Waits'
<1>1. reader' = reader /\ UNCHANGED <<adapterVars, fileVars, left, at, on, gil>>
  BY WorkersReadNothing
<1>2. CallsAreAwaited'
  BY CallsWork DEF WaitInv, Waits
<1>3. Readers'
  BY <1>1, ReadersWork DEF WaitInv, Waits, fileVars
<1>4. GilAt' /\ LocksAreHeld'
  BY <1>1 DEF WaitInv, Waits, GilAt, LocksAreHeld, Holding, Kind, User, fileVars
<1>5. StatementsAreRun' /\ OneProgram'
  BY <1>1 DEF WaitInv, Waits, StatementsAreRun, OneProgram, Adapter!Finished, User, adapterVars
<1> QED
  BY <1>2, <1>3, <1>4, <1>5 DEF Waits

LEMMA WaitsStutter ==
    ASSUME Waits, ReturnConnection \/ UNCHANGED vars
    PROVE  Waits'
<1>1. UNCHANGED <<pc, reader, step, lock, open, left, at, on, gil>>
  BY DEF ReturnConnection, Streams!ReturnConnection, Streams!channels, vars, streamVars,
         adapterVars, fileVars
<1>2. GilAt' /\ LocksAreHeld'
  BY <1>1 DEF Waits, GilAt, LocksAreHeld, Holding, Kind, User
<1>3. Readers'
  BY <1>1, ReadersWork DEF Waits
<1>4. CallsAreAwaited' /\ StatementsAreRun' /\ OneProgram'
  BY <1>1 DEF Waits, CallsAreAwaited, StatementsAreRun, OneProgram, Adapter!Finished, User
<1> QED
  BY <1>2, <1>3, <1>4 DEF Waits

LEMMA WaitsStay ==
    ASSUME WaitInv, [Next]_vars
    PROVE  Waits'
<1>1. ASSUME NEW t \in Threads, Inside(t) \/ Begin(t)
      PROVE  Waits'
  BY <1>1, GilStays, LocksStay, ReadersStay, ReadersBegin, CallsStayAwaited, StatementsStayRun,
     ProgramStays DEF WaitInv, Waits
<1> QED
  BY <1>1, WaitsWork, WaitsStutter DEF WaitInv, Next, Run

-----------------------------------------------------------------------------
(***************************************************************************)
(* When nothing can go on.                                                 *)
(***************************************************************************)

\* Who has a lock has it to itself.
LEMMA OneHolder ==
    ASSUME IInv, NEW t \in Threads, NEW u \in Threads, Holding(t), Holding(u), User(t) = User(u)
    PROVE  t = u
BY DEF IInv, LockHeld

\* A file that is to be closed has no call of a database running: that would be
\* the call of a thread that has the lock, or a call by itself.
LEMMA NothingRuns ==
    ASSUME WaitInv, NEW u \in Threads, at[u] = "close"
    PROVE  /\ User(u) \in Ops => pc[User(u)] \in {"idle", "ended"}
           /\ User(u) \in Inserts => step[User(u)] = "idle" \/ Adapter!Finished(User(u))
<1>1. /\ IInv /\ Holding(u) /\ Kind(u) = "close" /\ on[u] \in AllCalls
      /\ \A t \in Threads : at[t] # "python" => on[t] \in AllCalls /\ Kind(t) \in KindsAt(at[t])
  BY DEF WaitInv, IInv, Typed, Holding, KindsAt
<1>2. ASSUME User(u) \in Ops, NEW t \in Threads, at[t] \in {"insert", "calling"}, User(t) = User(u)
      PROVE  FALSE
  <2>1. CASE at[t] = "insert"
    BY <1>1, <1>2, <2>1, OneHolder DEF Holding
  <2>2. CASE at[t] = "calling"
    <3>1. on[t] = <<"call", User(u)>> /\ on[u] = <<"close", User(u)>>
      <4>1. \A c \in AllCalls : c = <<c[1], c[2]>>
        BY DEF AllCalls
      <4>2. Kind(t) = "call" /\ on[t] \in AllCalls
        BY <1>1, <2>2 DEF KindsAt
      <4> QED
        BY <1>1, <1>2, <4>1, <4>2 DEF Kind, User
    <3>2. PICK p \in Programs : \A v \in Threads : at[v] # "python" => on[v] \in p.calls[v]
      BY DEF WaitInv, Waits, OneProgram
    <3>3. <<"call", User(u)>> \in p.calls[t] /\ <<"close", User(u)>> \in p.calls[u]
      BY <2>2, <3>1, <3>2
    <3> QED
      BY <1>2, <3>3, ProgramsAssumption
  <2> QED
    BY <1>2, <2>1, <2>2
<1>3. ASSUME User(u) \in Inserts,
             NEW t \in Threads, at[t] \in {"statement", "attach"}, User(t) = User(u)
      PROVE  FALSE
  <2>1. Kind(t) \in {"close", "ask"}
    BY <1>1, <1>3 DEF KindsAt
  <2>2. Kind(t) # "ask"
    BY <1>1, <1>3, CallKinds, UsersAssumption DEF Files, IInv
  <2> QED
    BY <1>1, <1>3, <2>2, OneHolder DEF Holding
<1> QED
  BY <1>2, <1>3 DEF WaitInv, Waits, CallsAreAwaited, StatementsAreRun

\* Nothing goes on in the native database, but a call has begun there: a worker
\* is blocked with the runtime.
LEMMA RuntimeBlocked ==
    ASSUME WaitInv, Stopped, NEW x \in Queries \cup Ops, S!InRuntime(x)
    PROVE  core \in Queries /\ Streams!Blocked(core)
<1>1. \A y \in Queries \cup Ops : ~S!CanStep(y)
  BY SameGuards DEF Stopped
<1>2. S!Tasks = Queries \cup Ops
  BY DEF S!Tasks
<1>3. core \in Queries /\ S!Blocked(core)
  BY <1>1, <1>2, Constants, S!CoreIsBlocked DEF WaitInv, StreamsInv
<1> QED
  BY <1>3, SameGuards

LEMMA CallBlocked ==
    ASSUME WaitInv, Stopped, NEW o \in Ops, pc[o] \notin {"idle", "ended"}
    PROVE  core \in Queries /\ Streams!Blocked(core)
<1>1. S!InRuntime(o)
  BY DEF WaitInv, StreamsInv, S!Settled, S!CallPlaces, S!InRuntime
<1> QED
  BY <1>1, RuntimeBlocked

\* Whoever has the lock of a file waits for the GIL, or in the database, or is
\* about to go on.
LEMMA HolderWaits ==
    ASSUME WaitInv, Stopped, NEW u \in Threads, Holding(u)
    PROVE  /\ lock[User(u)] = u
           /\ \/ at[u] \in {"inside", "statement"} /\ gil = u
              \/ at[u] \in {"close", "attach"} /\ User(u) \in Inserts /\ ~CanAttach(u)
              \/ at[u] = "insert" /\ core \in Queries /\ Streams!Blocked(core)
<1>1. /\ IInv /\ User(u) \in open /\ lock[User(u)] = u /\ ~CanGoOn(u)
      /\ at[u] \in {"inside", "close", "discard", "insert", "statement", "attach"}
      /\ at[u] \in {"statement", "attach"} => Kind(u) # "ask"
  BY DEF WaitInv, IInv, LockHeld, Stopped, Holding
<1>2. User(u) \in Files /\ (User(u) \in Queries => CanDrop(User(u)))
  BY <1>1 DEF IInv, Typed, WaitInv, Waits, Readers, ReadersFollow, CanDrop
<1>3. CASE at[u] \in {"inside", "statement"}
  BY <1>1, <1>3 DEF WaitInv, Waits, GilAt
<1>4. CASE at[u] = "close"
  <2>1. ~CanClose(u)
    BY <1>1, <1>4 DEF CanGoOn
  <2>2. User(u) \notin Queries /\ User(u) \notin Ops
    BY <1>2, <1>4, <2>1, NothingRuns DEF CanClose
  <2>3. User(u) \in Inserts
    BY <1>2, <2>2 DEF Files
  <2> QED
    BY <1>1, <1>4, <2>1, <2>3, NothingRuns DEF CanClose
<1>5. CASE at[u] = "discard"
  BY <1>1, <1>2, <1>5 DEF CanGoOn
<1>6. CASE at[u] = "insert"
  <2>1. User(u) \in Ops /\ pc[User(u)] \notin {"idle", "ended"}
    BY <1>1, <1>6 DEF CanGoOn, WaitInv, Waits, CallsAreAwaited
  <2> QED
    BY <1>1, <1>6, <2>1, CallBlocked
<1>7. CASE at[u] = "attach"
  <2>1. ~CanAttach(u)
    BY <1>1, <1>7 DEF CanGoOn
  <2>2. User(u) \in Inserts
    <3>1. User(u) \in Inserts \cup Asks
      BY <1>7 DEF WaitInv, Waits, StatementsAreRun
    <3> QED
      BY <1>2, <3>1, UsersAssumption
  <2> QED
    BY <1>1, <1>7, <2>1, <2>2
<1> QED
  BY <1>1, <1>3, <1>4, <1>5, <1>6, <1>7

\* A thread that waits for the next batch of a query waits for a worker that
\* fetches rows, without the runtime.
LEMMA ReaderWaits ==
    ASSUME WaitInv, Stopped, NEW q \in Queries, reader[q] = "open", ~CanReceive(q)
    PROVE  core \in Queries \ {q} /\ Streams!Blocked(core) /\ ~pool.ownThread
<1>1. batches[q] = << >> /\ pc[q] # "ended" /\ ~Streams!CanStep(q)
  BY DEF CanReceive, Stopped
<1>2. /\ S!AtPlace(q) /\ S!ReaderKnows(q) /\ S!ReaderAt(q)
      /\ pc[q] \in {"idle", "acquire", "fetch", "send", "send last", "acquire again", "describe",
                    "run", "report", "ended"}
  BY DEF WaitInv, StreamsInv, S!IInv, S!QueryInv, S!Settled, S!Typed, S!TypeOK, S!Tasks
<1>3. schema[q] = "schema" /\ "schema" # None /\ pc[q] # "idle"
  BY <1>2, Constants DEF S!ReaderKnows, S!ReaderAt
<1>4. Streams!CanSend(q)
  BY <1>1 DEF Streams!CanSend
<1>5. pc[q] = "fetch"
  BY <1>1, <1>2, <1>3, <1>4 DEF S!AtPlace, Streams!CanStep
<1>6. core \in Queries /\ Streams!Blocked(core)
  BY <1>5, RuntimeBlocked DEF S!InRuntime
<1>7. ~Streams!Blocked(q)
  BY <1>4 DEF Streams!Blocked
<1>8. ~pool.ownThread
  BY <1>1, <1>5 DEF Streams!CanStep, Streams!Progress
<1> QED
  BY <1>6, <1>7, <1>8

LEMMA FreezesByCycles == WaitInv => FreezesOnlyByCycles
<1> SUFFICES ASSUME WaitInv, gil # None, Stopped
             PROVE  Cycle
  BY DEF FreezesOnlyByCycles
<1> DEFINE g == gil
<1>1. /\ g \in Threads /\ ~CanGoOn(g) /\ CanAttach(g)
      /\ at[g] \in {"lock", "inside", "drain", "drained", "statement", "return"}
      /\ \A t \in Threads : at[t] \in {"inside", "statement"} => t = g
  BY DEF WaitInv, Waits, GilAt, Stopped, CanAttach
<1>2. at[g] \notin {"return", "drained", "statement"}
  <2>1. at[g] = "drained" => CanDrop(User(g))
    BY <1>1 DEF WaitInv, Waits, Readers, ReadersFollow, ReaderFollows, CanDrop
  <2>2. at[g] = "statement" => step[User(g)] # "idle"
    BY <1>1 DEF WaitInv, Waits, StatementsAreRun
  <2> QED
    BY <1>1, <2>1, <2>2 DEF CanGoOn
<1>3. CASE at[g] = "lock"
  <2> DEFINE u == lock[User(g)]
  <2>1. User(g) \in Files /\ u # None
    <3>1. IInv /\ Kind(g) \in {"read", "write", "close", "discard"}
      BY <1>1, <1>3 DEF WaitInv, IInv, Typed, KindsAt
    <3>2. User(g) \in Queries \cup Files
      BY <1>1, <1>3, <3>1, CallKinds DEF IInv
    <3> QED
      BY <1>1, <1>3, <3>2 DEF Files, CanGoOn
  <2>2. u \in Threads /\ Holding(u) /\ User(u) = User(g)
    BY <2>1 DEF WaitInv, Waits, LocksAreHeld, IInv, Typed
  <2>3. CASE at[u] \in {"inside", "statement"} /\ gil = u
    BY <1>3, <2>3
  <2>4. CASE at[u] \in {"close", "attach"} /\ User(u) \in Inserts
    BY <1>1, <1>3, <2>2, <2>4 DEF Cycle, LockCycle
  <2>5. CASE at[u] = "insert" /\ core \in Queries /\ Streams!Blocked(core)
    BY <1>1, <1>3, <2>2, <2>5 DEF Cycle, CloseCycle
  <2> QED
    BY <2>2, <2>3, <2>4, <2>5, HolderWaits
<1>4. CASE at[g] \in {"inside", "drain"}
  <2>1. User(g) \in Queries /\ reader[User(g)] = "open" /\ ~CanReceive(User(g))
    <3>1. CASE at[g] = "inside"
      <4>1. Kind(g) = "read" /\ User(g) \in Queries
        <5>1. IInv /\ Kind(g) \in {"read", "write"}
          BY <1>1, <3>1 DEF WaitInv, IInv, Typed, KindsAt
        <5>2. Kind(g) = "read"
          BY <1>1, <3>1, <5>1 DEF CanGoOn
        <5> QED
          BY <1>1, <3>1, <5>1, <5>2, CallKinds DEF IInv
      <4>2. User(g) \in open
        BY <1>1, <3>1 DEF WaitInv, IInv, LockHeld, Holding
      <4> QED
        BY <1>1, <3>1, <4>1, <4>2 DEF WaitInv, Waits, Readers, ReadersFollow, CanGoOn
    <3>2. CASE at[g] = "drain"
      BY <1>1, <3>2
         DEF WaitInv, Waits, Readers, ReadersFollow, ReaderFollows, AskedOnce, Asking, CanGoOn
    <3> QED
      BY <1>4, <3>1, <3>2
  <2> QED
    BY <1>1, <1>4, <2>1, ReaderWaits DEF Cycle, RuntimeCycle
<1> QED
  BY <1>1, <1>2, <1>3, <1>4

\* With the GIL free, a worker that is blocked has a reader in an open file.
LEMMA BlockedReader ==
    ASSUME WaitInv, Stopped, gil = None, NEW q \in Queries, Streams!Blocked(q)
    PROVE  q \in open /\ reader[q] = "open"
<1>1. schema[q] = "schema" /\ reader[q] \in {"opening", "open"}
  BY SameGuards, Constants, S!BlockedHasMore DEF WaitInv, StreamsInv
<1>2. \A t \in Threads : CanAttach(t) /\ ~CanGoOn(t)
  BY DEF Stopped, CanAttach
<1>3. reader[q] # "opening"
  <2> SUFFICES ASSUME reader[q] = "opening"
               PROVE  FALSE
    OBVIOUS
  <2>1. PICK t \in Threads : at[t] = "opening" /\ User(t) = q
    BY DEF WaitInv, Waits, Readers, ReadersAreKnown
  <2>2. Streams!CanOpen(q)
    BY <1>1, Constants DEF Streams!CanOpen
  <2> QED
    BY <1>2, <2>1, <2>2 DEF CanGoOn
<1>4. ASSUME NEW t \in Threads, HasReader(t)
      PROVE  FALSE
  <2>1. at[t] # "drain"
    BY UsersAssumption DEF WaitInv, Waits, GilAt
  <2> QED
    BY <1>2, <1>4, <2>1 DEF HasReader, CanGoOn
<1> QED
  BY <1>1, <1>3, <1>4 DEF WaitInv, Waits, Readers, ReadersAreKnown

LEMMA WaitsForReaders == WaitInv => WaitsOnlyForReaders
<1> SUFFICES ASSUME WaitInv, gil = None, Stopped, NEW t \in Threads, at[t] # "python"
             PROVE  core \in Queries /\ Streams!Blocked(core)
  BY BlockedReader DEF WaitsOnlyForReaders
<1>1. IInv /\ ~CanGoOn(t) /\ \A u \in Threads : CanAttach(u) /\ gil # u
  BY UsersAssumption DEF WaitInv, Stopped, CanAttach
<1>2. at[t] \in {"opening", "lock", "inside", "close", "discard", "insert", "calling"}
  <2>1. at[t] \notin {"inside", "drain", "drained", "statement"}
    BY <1>1 DEF WaitInv, Waits, GilAt
  <2>2. at[t] \notin {"return", "attach", "attach to drain"}
    BY <1>1 DEF CanGoOn
  <2> QED
    BY <2>1, <2>2 DEF WaitInv, IInv, Typed, Places
<1>3. ASSUME NEW u \in Threads, Holding(u)
      PROVE  core \in Queries /\ Streams!Blocked(core)
  BY <1>1, <1>3, HolderWaits
<1>4. CASE Holding(t)
  BY <1>3, <1>4
<1>5. CASE at[t] = "opening"
  <2> DEFINE q == User(t)
  <2>1. q \in Queries /\ reader[q] = "opening" /\ ~Streams!CanOpen(q)
    BY <1>1, <1>5
       DEF WaitInv, Waits, Readers, ReadersFollow, ReaderFollows, AskedOnce, Asking, CanGoOn
  <2>2. schema[q] = None
    BY <2>1 DEF Streams!CanOpen
  <2>3. S!ReaderAt(q) /\ ~Streams!CanStep(q)
    BY <2>1 DEF WaitInv, StreamsInv, S!Settled, Stopped
  <2>4. pc[q] \notin {"idle", "report", "ended"}
    BY <2>1, <2>2, <2>3 DEF S!ReaderAt, Streams!CanStep
  <2> QED
    BY <2>1, <2>4, RuntimeBlocked DEF S!InRuntime
<1>6. CASE at[t] = "calling"
  <2>1. User(t) \in Ops /\ pc[User(t)] \notin {"idle", "ended"}
    BY <1>1, <1>6 DEF WaitInv, Waits, CallsAreAwaited, CanGoOn
  <2> QED
    BY <2>1, CallBlocked
<1>7. CASE at[t] = "lock"
  <2>1. User(t) \in Files /\ lock[User(t)] # None
    <3>1. Kind(t) \in {"read", "write", "close", "discard"}
      BY <1>7 DEF WaitInv, IInv, Typed, KindsAt
    <3>2. User(t) \in Queries \cup Files
      BY <1>1, <1>7, <3>1, CallKinds DEF IInv
    <3> QED
      BY <1>1, <1>7, <3>2 DEF Files, CanGoOn
  <2>2. lock[User(t)] \in Threads /\ Holding(lock[User(t)])
    BY <2>1 DEF WaitInv, Waits, LocksAreHeld, IInv, Typed
  <2> QED
    BY <1>3, <2>2
<1> QED
  BY <1>2, <1>4, <1>5, <1>6, <1>7 DEF Holding

-----------------------------------------------------------------------------
(***************************************************************************)
(* The theorems about waiting.                                             *)
(***************************************************************************)

LEMMA WaitInvariance == Spec => []WaitInv
<1>1. Init => WaitInv
  BY InitIInv, InitStreams, InitWaits DEF WaitInv
<1>2. WaitInv /\ [Next]_vars => WaitInv'
  BY StepKeepsFiles, StreamsKeep, WaitsStay DEF WaitInv
<1> QED
  BY <1>1, <1>2, PTL DEF Spec

\* Whatever the threads call of their files and databases, in any number: when
\* a call that has the GIL can end no more, it waits for the lock of a file in
\* the hands of a thread that waits for the GIL or in a database whose readers
\* need the GIL, or it reads a query whose worker is kept out of the runtime by
\* that of another query (the detach calls of PyDbFile and the bindings).
THEOREM ThreadsFreezeOnlyByCycles == Spec => []FreezesOnlyByCycles
BY WaitInvariance, FreezesByCycles, PTL

\* And with the GIL free, the calls that are left wait for a reader with an
\* open file, which any thread can read or close: no call waits for one that
\* has returned, for a query whose file is gone, or for another that waits.
THEOREM ThreadsWaitForReaders == Spec => []WaitsOnlyForReaders
BY WaitInvariance, WaitsForReaders, PTL

-----------------------------------------------------------------------------
(***************************************************************************)
(* The rows and answers of the calls of a Python adapter.  While a call    *)
(* overlaps no other, the statements are its own: what DuckDB has under    *)
(* the name, or ODBC's chunks, are the rows it has put into its table, and *)
(* those of the calls before it stay where they were put.                  *)
(***************************************************************************)

\* The places of a call: of a query, of an insert.
AskSteps == {"idle", "execute", "fetch", "ok"}
InsertSteps ==
    {"idle", "register", "delete", "insert", "unregister", "unregister failed", "ok", "error"}

AdapterTyped ==
    /\ adapter \in {"duckdb", "odbc"}
    /\ request \in [Inserts -> [relation : Relations, mode : {"append", "truncate"}]]
    /\ table \in [Relations -> Seq(Inserts \X Nat)]
    /\ registered \in Inserts \cup {None}
    /\ executed \in Adapter!Calls \cup {None}
    /\ step \in [Adapter!Calls -> AskSteps \cup InsertSteps]
    /\ \A c \in Asks : step[c] \in AskSteps
    /\ \A c \in Inserts : step[c] \in InsertSteps
    /\ sent \in [Inserts -> Nat]
    /\ answer \in [Asks -> Adapter!Calls \cup {None}]
    /\ overlapped \in [Adapter!Calls -> BOOLEAN]

\* While a call that has met no other is in progress, it is alone.
Alone ==
    \A c, d \in Adapter!Calls :
        Adapter!InProgress(c) /\ Adapter!InProgress(d) /\ c # d => overlapped[c]

\* The name stands for the rows of an insert in progress, with DuckDB.
Registered ==
    /\ registered # None =>
          /\ adapter = "duckdb"
          /\ step[registered] \in {"delete", "insert", "unregister", "unregister failed"}
    /\ adapter = "odbc" =>
          \A c \in Inserts : step[c] \in {"idle", "delete", "insert", "ok", "error"}

\* An insert that has met no other has the rows in the table that it has
\* inserted, and the name.
OwnInsert(c) ==
    /\ \A r \in Relations \ {Adapter!Target(c)} : Adapter!PlacesOf(c, table[r]) = {}
    /\ step[c] \in {"idle", "register", "delete"} =>
          Adapter!PlacesOf(c, table[Adapter!Target(c)]) = {} /\ sent[c] = 0
    /\ step[c] = "insert" =>
          IF adapter = "duckdb" THEN Adapter!PlacesOf(c, table[Adapter!Target(c)]) = {}
          ELSE sent[c] < Chunks /\ Adapter!HasFirst(sent[c], c, table[Adapter!Target(c)])
    /\ step[c] = "unregister" => Adapter!HasFirst(Chunks, c, table[Adapter!Target(c)])
    /\ step[c] = "ok" =>
          \/ Adapter!HasFirst(Chunks, c, table[Adapter!Target(c)])
          \/ \E d \in Inserts \ {c} :
                /\ step[d] # "idle" /\ Adapter!Target(d) = Adapter!Target(c)
                /\ request[d].mode = "truncate"

OwnAnswer(c) ==
    /\ answer[c] \in {None, c}
    /\ step[c] = "fetch" => executed = c

OInv ==
    /\ AdapterTyped /\ Alone /\ Registered
    /\ \A c \in Inserts : ~overlapped[c] => OwnInsert(c)
    /\ \A c \in Asks : ~overlapped[c] => OwnAnswer(c)

\* Rows of others come after the rows there are.
LEMMA RowsOfOthers ==
    ASSUME NEW s \in Seq(Inserts \X Nat), NEW t \in Seq(Inserts \X Nat), NEW c,
           \A i \in DOMAIN t : t[i][1] # c
    PROVE  /\ Adapter!PlacesOf(c, s \o t) = Adapter!PlacesOf(c, s)
           /\ \A n \in Nat : Adapter!HasFirst(n, c, s) => Adapter!HasFirst(n, c, s \o t)
<1> DEFINE both == s \o t
<1>1. /\ DOMAIN s = 1 .. Len(s) /\ DOMAIN t = 1 .. Len(t) /\ DOMAIN both = 1 .. Len(s) + Len(t)
      /\ Len(s) \in Nat /\ Len(t) \in Nat
      /\ \A i \in 1 .. Len(s) + Len(t) : both[i] = IF i <= Len(s) THEN s[i] ELSE t[i - Len(s)]
  BY ConcatProperties, LenProperties
<1> HIDE DEF both
<1>2. \A i \in DOMAIN s : i \in DOMAIN both /\ both[i] = s[i]
  BY <1>1
<1>3. ASSUME NEW i \in DOMAIN both \ DOMAIN s
      PROVE  both[i][1] # c
  <2>1. ~(i <= Len(s)) /\ i \in 1 .. Len(s) + Len(t) /\ i - Len(s) \in DOMAIN t
    BY <1>1
  <2>2. both[i] = t[i - Len(s)]
    BY <1>1, <2>1
  <2> QED
    BY <2>1, <2>2
<1>4. Adapter!PlacesOf(c, both) = Adapter!PlacesOf(c, s)
  BY <1>2, <1>3 DEF Adapter!PlacesOf
<1>5. \A i \in Adapter!PlacesOf(c, s) : both[i] = s[i]
  BY <1>2 DEF Adapter!PlacesOf
<1>6. ASSUME NEW n \in Nat, Adapter!HasFirst(n, c, s)
      PROVE  Adapter!HasFirst(n, c, both)
  <2>1. \A i, j \in Adapter!PlacesOf(c, s) : i < j => s[i][2] < s[j][2]
    BY <1>6 DEF Adapter!HasFirst
  <2>2. { s[i][2] : i \in Adapter!PlacesOf(c, s) } = 1 .. n
    BY <1>6 DEF Adapter!HasFirst
  <2>3. { both[i][2] : i \in Adapter!PlacesOf(c, s) } = { s[i][2] : i \in Adapter!PlacesOf(c, s) }
    BY <1>5
  <2>4. \A i, j \in Adapter!PlacesOf(c, s) : i < j => both[i][2] < both[j][2]
    BY <1>5, <2>1
  <2> QED
    BY <1>4, <2>2, <2>3, <2>4 DEF Adapter!HasFirst
<1> QED
  BY <1>4, <1>6 DEF both

\* The next chunk of a call comes after the first n.
LEMMA NextRow ==
    ASSUME NEW s \in Seq(Inserts \X Nat), NEW c \in Inserts, NEW n \in Nat,
           Adapter!HasFirst(n, c, s)
    PROVE  Adapter!HasFirst(n + 1, c, Append(s, <<c, n + 1>>))
<1> DEFINE more == Append(s, <<c, n + 1>>)
           last == Len(s) + 1
<1>1. /\ DOMAIN s = 1 .. Len(s) /\ DOMAIN more = 1 .. Len(s) + 1 /\ Len(s) \in Nat
      /\ \A i \in 1 .. Len(s) : more[i] = s[i]
      /\ more[Len(s) + 1] = <<c, n + 1>>
  BY AppendProperties, LenProperties
<1> HIDE DEF more
<1>2. /\ last \in DOMAIN more /\ more[last] = <<c, n + 1>> /\ last \notin DOMAIN s
      /\ DOMAIN more = DOMAIN s \cup {last}
      /\ \A i \in DOMAIN s : more[i] = s[i] /\ i < last /\ i \in Nat
  BY <1>1
<1>3. last \in Nat
  BY <1>1
<1> HIDE DEF last
<1>4. Adapter!PlacesOf(c, more) = Adapter!PlacesOf(c, s) \cup {last}
  BY <1>2 DEF Adapter!PlacesOf
<1>5. \A i \in Adapter!PlacesOf(c, s) : i \in DOMAIN s /\ s[i][2] \in 1 .. n
  BY DEF Adapter!HasFirst, Adapter!PlacesOf
<1>6. { more[i][2] : i \in Adapter!PlacesOf(c, more) } = 1 .. n + 1
  <2>1. { more[i][2] : i \in Adapter!PlacesOf(c, more) } =
        { s[i][2] : i \in Adapter!PlacesOf(c, s) } \cup {n + 1}
    BY <1>2, <1>4, <1>5
  <2>2. { s[i][2] : i \in Adapter!PlacesOf(c, s) } = 1 .. n
    BY DEF Adapter!HasFirst
  <2>3. (1 .. n) \cup {n + 1} = 1 .. n + 1
    OBVIOUS
  <2> QED
    BY <2>1, <2>2, <2>3
<1>7. ASSUME NEW i \in Adapter!PlacesOf(c, more), NEW j \in Adapter!PlacesOf(c, more), i < j
      PROVE  more[i][2] < more[j][2]
  <2>1. i # last
    BY <1>2, <1>3, <1>4, <1>5, <1>7
  <2>2. i \in Adapter!PlacesOf(c, s)
    BY <1>4, <2>1
  <2>3. CASE j = last
    <3>1. more[i][2] \in 1 .. n /\ more[j][2] = n + 1
      BY <1>2, <1>5, <2>2, <2>3
    <3> QED
      BY <3>1
  <2>4. CASE j # last
    <3>1. j \in Adapter!PlacesOf(c, s)
      BY <1>4, <2>4
    <3>2. s[i][2] < s[j][2]
      BY <1>7, <2>2, <3>1 DEF Adapter!HasFirst
    <3> QED
      BY <1>2, <1>5, <2>2, <3>1, <3>2
  <2> QED
    BY <2>3, <2>4
<1> QED
  BY <1>6, <1>7 DEF Adapter!HasFirst, more

\* All chunks of a call come where there is none.
LEMMA AllRows ==
    ASSUME NEW s \in Seq(Inserts \X Nat), NEW c \in Inserts,
           Adapter!PlacesOf(c, s) = {}
    PROVE  /\ Adapter!AllOf(c) \in Seq(Inserts \X Nat)
           /\ \A i \in DOMAIN Adapter!AllOf(c) : Adapter!AllOf(c)[i][1] = c
           /\ Adapter!HasFirst(Chunks, c, s \o Adapter!AllOf(c))
<1> DEFINE t == Adapter!AllOf(c)
           both == s \o t
<1>1. t = [n \in 1 .. Chunks |-> <<c, n>>] /\ Chunks \in Nat
  BY ChunksAssumption DEF Adapter!AllOf
<1>2. /\ t \in Seq(Inserts \X Nat) /\ Len(t) = Chunks /\ DOMAIN t = 1 .. Chunks
      /\ \A i \in 1 .. Chunks : t[i] = <<c, i>>
  <2>1. \A n \in 1 .. Chunks : <<c, n>> \in Inserts \X Nat
    OBVIOUS
  <2> QED
    BY <1>1, <2>1
<1> HIDE DEF t
<1>3. /\ DOMAIN s = 1 .. Len(s) /\ DOMAIN both = 1 .. Len(s) + Chunks /\ Len(s) \in Nat
      /\ \A i \in 1 .. Len(s) + Chunks : both[i] = IF i <= Len(s) THEN s[i] ELSE t[i - Len(s)]
  <2>1. /\ both \in Seq(Inserts \X Nat) /\ Len(both) = Len(s) + Len(t)
        /\ \A i \in 1 .. Len(s) + Len(t) : both[i] = IF i <= Len(s) THEN s[i] ELSE t[i - Len(s)]
    BY <1>2, ConcatProperties
  <2> HIDE DEF both
  <2> QED
    BY <1>2, <2>1, LenProperties
<1> HIDE DEF both
<1>4. \A i \in DOMAIN s : s[i][1] # c
  BY DEF Adapter!PlacesOf
<1>5. ASSUME NEW i \in DOMAIN both
      PROVE  /\ i <= Len(s) => both[i][1] # c
             /\ i > Len(s) => both[i] = <<c, i - Len(s)>> /\ i - Len(s) \in 1 .. Chunks
  <2>1. i <= Len(s) => both[i] = s[i] /\ i \in DOMAIN s
    BY <1>3
  <2>2. i > Len(s) => i - Len(s) \in 1 .. Chunks /\ both[i] = t[i - Len(s)]
    BY <1>1, <1>3
  <2> QED
    BY <1>2, <1>4, <2>1, <2>2
<1>6. Adapter!PlacesOf(c, both) = { i \in DOMAIN both : i > Len(s) }
  BY <1>3, <1>5 DEF Adapter!PlacesOf
<1>7. { both[i][2] : i \in Adapter!PlacesOf(c, both) } = 1 .. Chunks
  <2>1. \A i \in Adapter!PlacesOf(c, both) : both[i][2] \in 1 .. Chunks
    BY <1>5, <1>6
  <2>2. ASSUME NEW n \in 1 .. Chunks
        PROVE  \E i \in Adapter!PlacesOf(c, both) : both[i][2] = n
    <3>1. n + Len(s) \in DOMAIN both /\ n + Len(s) > Len(s) /\ (n + Len(s)) - Len(s) = n
      BY <1>1, <1>3
    <3>2. both[n + Len(s)] = <<c, n>>
      BY <1>5, <3>1
    <3> QED
      BY <1>6, <3>1, <3>2
  <2> QED
    BY <2>1, <2>2
<1>8. \A i, j \in Adapter!PlacesOf(c, both) : i < j => both[i][2] < both[j][2]
  <2>1. \A i \in Adapter!PlacesOf(c, both) : both[i][2] = i - Len(s) /\ i \in Nat
    BY <1>3, <1>5, <1>6
  <2> QED
    BY <1>3, <2>1
<1>9. Adapter!HasFirst(Chunks, c, both)
  BY <1>7, <1>8 DEF Adapter!HasFirst
<1> QED
  BY <1>2, <1>9 DEF both, t

-----------------------------------------------------------------------------
(* The steps of a call.                                                    *)

\* Nobody who has met no other call is in the way of a call in progress.
LEMMA NotTogether ==
    ASSUME OInv, NEW c \in Adapter!Calls, NEW d \in Adapter!Calls \ {c},
           Adapter!InProgress(c), ~overlapped[d]
    PROVE  ~Adapter!InProgress(d)
BY DEF OInv, Alone

\* An insert that is not in progress keeps its rows.
LEMMA OthersKeepRows ==
    ASSUME OInv, NEW c \in Adapter!Calls, NEW d \in Inserts \ {c}, OwnInsert(d),
           ~Adapter!InProgress(d), step'[d] = step[d], sent'[d] = sent[d],
           UNCHANGED <<adapter, request>>,
           \A e \in Inserts : step[e] # "idle" => step'[e] # "idle",
           \A r \in Relations :
              \/ table'[r] = table[r]
              \/ \E more \in Seq(Inserts \X Nat) :
                    /\ table'[r] = table[r] \o more
                    /\ \A i \in DOMAIN more : more[i][1] # d
              \/ /\ table'[r] = << >> /\ c \in Inserts
                 /\ r = Adapter!Target(c) /\ request[c].mode = "truncate" /\ step'[c] # "idle"
    PROVE  OwnInsert(d)'
<1>1. step[d] \in {"idle", "ok", "error"} /\ step'[d] = step[d]
  BY DEF Adapter!InProgress, Adapter!Finished
<1>2. \A r \in Relations : table[r] \in Seq(Inserts \X Nat)
  BY DEF OInv, AdapterTyped
<1>3. \A n : Adapter!PlacesOf(n, << >>) = {}
  BY DEF Adapter!PlacesOf
<1>4. Adapter!Target(d) \in Relations /\ Adapter!Target(d)' = Adapter!Target(d)
  BY DEF OInv, AdapterTyped, Adapter!Target
<1>5. \A r \in Relations : Adapter!PlacesOf(d, table[r]) = {} => Adapter!PlacesOf(d, table'[r]) = {}
  BY <1>2, <1>3, RowsOfOthers
<1>6. CASE step[d] = "ok"
  <2>1. Chunks \in Nat
    BY ChunksAssumption
  <2>2. Adapter!HasFirst(Chunks, d, table[Adapter!Target(d)]) =>
           \/ Adapter!HasFirst(Chunks, d, table'[Adapter!Target(d)])
           \/ \E e \in Inserts \ {d} :
                 /\ step'[e] # "idle" /\ Adapter!Target(e) = Adapter!Target(d)
                 /\ request[e].mode = "truncate"
    BY <1>2, <1>4, <2>1, RowsOfOthers
  <2>3. \/ Adapter!HasFirst(Chunks, d, table'[Adapter!Target(d)])
        \/ \E e \in Inserts \ {d} :
              /\ step'[e] # "idle" /\ Adapter!Target(e) = Adapter!Target(d)
              /\ request[e].mode = "truncate"
    BY <1>6, <2>2 DEF OwnInsert
  <2> QED
    BY <1>1, <1>4, <1>5, <1>6, <2>3 DEF OwnInsert, Adapter!Target
<1>7. CASE step[d] # "ok"
  BY <1>1, <1>4, <1>5, <1>7 DEF OwnInsert, Adapter!Target
<1> QED
  BY <1>6, <1>7

\* The calls and what is none.
LEMMA CallFacts ==
    /\ Adapter!Calls = Inserts \cup Asks /\ Inserts \cap Asks = {}
    /\ None \notin Adapter!Calls
BY UsersAssumption DEF Files, Adapter!Calls

\* A call that starts meets those in progress.
LEMMA StartKeeps ==
    ASSUME OInv, NEW c \in Adapter!Calls, Adapter!Start(c)
    PROVE  OInv'
<1> DEFINE to == IF c \in Asks THEN "execute"
                 ELSE IF adapter = "duckdb" THEN "register" ELSE "delete"
<1>1. /\ step[c] = "idle" /\ step' = [step EXCEPT ![c] = to]
      /\ overlapped' = [d \in Adapter!Calls |->
                          \/ overlapped[d]
                          \/ d = c /\ \E e \in Adapter!Calls : Adapter!InProgress(e)
                          \/ Adapter!InProgress(d)]
      /\ UNCHANGED <<adapter, request, table, registered, executed, sent, answer>>
  BY DEF Adapter!Start, Adapter!Goto, Adapter!asked
<1>2. /\ c \in Asks => to = "execute"
      /\ c \in Inserts => to = IF adapter = "duckdb" THEN "register" ELSE "delete"
  BY CallFacts
<1> HIDE DEF to
<1>3. AdapterTyped /\ step \in [Adapter!Calls -> AskSteps \cup InsertSteps]
  BY DEF OInv, AdapterTyped
<1>4. step'[c] = to /\ \A d \in Adapter!Calls \ {c} : step'[d] = step[d]
  BY <1>1, <1>3
<1>5. AdapterTyped'
  <2>1. overlapped' \in [Adapter!Calls -> BOOLEAN]
    <3>1. \A d \in Adapter!Calls : overlapped[d] \in BOOLEAN
      BY <1>3 DEF AdapterTyped
    <3> QED
      BY <1>1, <3>1
  <2>2. to \in AskSteps \cup InsertSteps /\ (c \in Asks => to \in AskSteps)
        /\ (c \in Inserts => to \in InsertSteps)
    BY <1>2, CallFacts DEF AskSteps, InsertSteps
  <2>3. /\ step' \in [Adapter!Calls -> AskSteps \cup InsertSteps]
        /\ \A d \in Asks : step'[d] \in AskSteps
        /\ \A d \in Inserts : step'[d] \in InsertSteps
    BY <1>1, <1>3, <1>4, <2>2, CallFacts DEF AdapterTyped
  <2> QED
    BY <1>1, <1>3, <2>1, <2>3 DEF AdapterTyped
<1>6. \A d \in Adapter!Calls \ {c} : Adapter!InProgress(d)' <=> Adapter!InProgress(d)
  BY <1>4 DEF Adapter!InProgress, Adapter!Finished
<1>7. Alone'
  <2> SUFFICES ASSUME NEW x \in Adapter!Calls, NEW y \in Adapter!Calls, x # y,
                      Adapter!InProgress(x)', Adapter!InProgress(y)'
               PROVE  overlapped'[x]
    BY DEF Alone
  <2>1. CASE x = c
    <3>1. Adapter!InProgress(y)
      BY <1>6, <2>1
    <3> QED
      BY <1>1, <2>1, <3>1
  <2>2. CASE x # c
    <3>1. Adapter!InProgress(x)
      BY <1>6, <2>2
    <3> QED
      BY <1>1, <3>1
  <2> QED
    BY <2>1, <2>2
<1>8. Registered'
  <2>1. registered # None => registered # c /\ registered \in Adapter!Calls
    BY <1>1, <1>3, CallFacts DEF OInv, Registered, AdapterTyped
  <2>2. adapter = "odbc" =>
           \A d \in Inserts : step'[d] \in {"idle", "delete", "insert", "ok", "error"}
    <3>1. c \in Inserts /\ adapter = "odbc" => to = "delete"
      BY <1>2
    <3> QED
      BY <1>4, <3>1, CallFacts DEF OInv, Registered
  <2> QED
    BY <1>1, <1>4, <2>1, <2>2 DEF OInv, Registered
<1>9. ASSUME NEW d \in Adapter!Calls, ~overlapped'[d]
      PROVE  ~overlapped[d] /\ ~Adapter!InProgress(d)
  BY <1>1, <1>9
<1>10. ASSUME NEW d \in Inserts, ~overlapped'[d]
       PROVE  OwnInsert(d)'
  <2>1. d \in Adapter!Calls /\ ~overlapped[d] /\ ~Adapter!InProgress(d) /\ OwnInsert(d)
    BY <1>9, <1>10, CallFacts DEF OInv
  <2>2. CASE d = c
    <3>1. step'[d] \in {"register", "delete"} /\ step[d] = "idle"
      BY <1>1, <1>2, <1>4, <2>2
    <3> QED
      BY <1>1, <2>1, <3>1 DEF OwnInsert, Adapter!Target
  <2>3. CASE d # c
    <3>1. step'[d] = step[d] /\ \A e \in Inserts : step[e] # "idle" => step'[e] # "idle"
      BY <1>1, <1>4, <2>1, <2>3, CallFacts
    <3> QED
      BY <1>1, <2>1, <2>3, <3>1, OthersKeepRows
  <2> QED
    BY <2>2, <2>3
<1>11. ASSUME NEW d \in Asks, ~overlapped'[d]
       PROVE  OwnAnswer(d)'
  <2>1. d \in Adapter!Calls /\ ~overlapped[d] /\ ~Adapter!InProgress(d) /\ OwnAnswer(d)
    BY <1>9, <1>11, CallFacts DEF OInv
  <2>2. step'[d] # "fetch"
    BY <1>2, <1>4, <2>1 DEF Adapter!InProgress, Adapter!Finished
  <2> QED
    BY <1>1, <2>1, <2>2 DEF OwnAnswer
<1> QED
  BY <1>5, <1>7, <1>8, <1>10, <1>11 DEF OInv

\* Where a statement takes its call.
LEMMA StatementGoesOn ==
    ASSUME OInv, NEW c \in Adapter!Calls, Adapter!Statement(c)
    PROVE  /\ Adapter!InProgress(c)
           /\ step'[c] # "idle" /\ \A d \in Adapter!Calls \ {c} : step'[d] = step[d]
           /\ step' \in [Adapter!Calls -> AskSteps \cup InsertSteps]
           /\ c \in Asks => step'[c] \in AskSteps
           /\ c \in Inserts => step'[c] \in InsertSteps
           /\ UNCHANGED <<adapter, request, overlapped>>
<1> USE DEF Adapter!Goto, Adapter!asked, Adapter!InProgress, Adapter!Finished
<1>1. step \in [Adapter!Calls -> AskSteps \cup InsertSteps]
  BY DEF OInv, AdapterTyped
<1>2. CASE c \in Asks
  <2>1. Adapter!Execute(c) \/ Adapter!Fetch(c)
    BY <1>2 DEF Adapter!Statement
  <2> QED
    BY <1>1, <1>2, <2>1, CallFacts DEF Adapter!Execute, Adapter!Fetch, AskSteps
<1>3. CASE c \notin Asks
  <2>1. \/ Adapter!Register(c) \/ Adapter!Delete(c) \/ Adapter!InsertRegistered(c)
        \/ Adapter!InsertChunk(c) \/ Adapter!Fail(c) \/ Adapter!Unregister(c)
    BY <1>3 DEF Adapter!Statement
  <2> QED
    BY <1>1, <1>3, <2>1
       DEF Adapter!Register, Adapter!Delete, Adapter!InsertRegistered, Adapter!InsertChunk,
           Adapter!Fail, Adapter!Unregister, InsertSteps
<1> QED
  BY <1>2, <1>3

\* What a statement of an insert does to the tables: it adds rows of one
\* insert in progress, or removes all.
LEMMA StatementRows ==
    ASSUME OInv, NEW c \in Inserts, Adapter!Statement(c)
    PROVE  \E e \in Inserts :
              /\ Adapter!InProgress(e)
              /\ \A r \in Relations :
                    \/ table'[r] = table[r]
                    \/ \E more \in Seq(Inserts \X Nat) :
                          /\ table'[r] = table[r] \o more
                          /\ \A i \in DOMAIN more : more[i][1] = e
                    \/ /\ table'[r] = << >>
                       /\ r = Adapter!Target(c) /\ request[c].mode = "truncate"
<1>0. c \in Adapter!Calls /\ c \notin Asks
  BY CallFacts
<1>1. Adapter!InProgress(c)
  BY <1>0, StatementGoesOn
<1>2. /\ table \in [Relations -> Seq(Inserts \X Nat)] /\ Adapter!Target(c) \in Relations
      /\ sent[c] \in Nat
  BY DEF OInv, AdapterTyped, Adapter!Target
<1>3. CASE table' = table
  BY <1>1, <1>3
<1>4. CASE Adapter!Delete(c)
  <2>1. table' = table \/ (request[c].mode = "truncate"
                           /\ table' = [table EXCEPT ![Adapter!Target(c)] = << >>])
    BY <1>4 DEF Adapter!Delete
  <2> QED
    BY <1>1, <1>2, <2>1
<1>5. CASE Adapter!InsertRegistered(c)
  <2> DEFINE more == Adapter!AllOf(registered)
  <2>1. /\ registered \in Inserts
        /\ table' = [table EXCEPT ![Adapter!Target(c)] = @ \o more]
    BY <1>5 DEF Adapter!InsertRegistered, OInv, AdapterTyped
  <2>2. Adapter!InProgress(registered)
    BY <2>1, CallFacts DEF OInv, Registered, Adapter!InProgress, Adapter!Finished, Adapter!Calls
  <2>3. Adapter!PlacesOf(registered, << >>) = {} /\ << >> \in Seq(Inserts \X Nat)
    BY EmptySeq DEF Adapter!PlacesOf
  <2>4. more \in Seq(Inserts \X Nat) /\ \A i \in DOMAIN more : more[i][1] = registered
    BY <2>1, <2>3, AllRows
  <2> HIDE DEF more
  <2> QED
    BY <1>2, <2>1, <2>2, <2>4
<1>6. CASE Adapter!InsertChunk(c)
  <2> DEFINE row == <<c, sent[c] + 1>>
  <2>1. table' = [table EXCEPT ![Adapter!Target(c)] = Append(@, row)]
    BY <1>6 DEF Adapter!InsertChunk
  <2>2. row \in Inserts \X Nat /\ row[1] = c
    BY <1>2
  <2> HIDE DEF row
  <2>3. <<row>> \in Seq(Inserts \X Nat) /\ \A i \in DOMAIN <<row>> : <<row>>[i][1] = c
    BY <2>2
  <2>4. \A s \in Seq(Inserts \X Nat) : Append(s, row) = s \o <<row>>
    BY <2>2, AppendIsConcat
  <2> QED
    BY <1>1, <1>2, <2>1, <2>3, <2>4
<1> QED
  BY <1>0, <1>3, <1>4, <1>5, <1>6
     DEF Adapter!Statement, Adapter!Register, Adapter!Fail, Adapter!Unregister

\* The other calls that have met none keep what they have.
LEMMA StatementKeepsOthers ==
    ASSUME OInv, NEW c \in Adapter!Calls, Adapter!Statement(c)
    PROVE  /\ \A d \in Inserts \ {c} : ~overlapped[d] => OwnInsert(d)'
           /\ \A d \in Asks \ {c} : ~overlapped[d] => OwnAnswer(d)'
<1>1. /\ Adapter!InProgress(c)
      /\ step'[c] # "idle" /\ \A d \in Adapter!Calls \ {c} : step'[d] = step[d]
      /\ UNCHANGED <<adapter, request, overlapped>>
  BY StatementGoesOn
<1>2. \A d \in Adapter!Calls \ {c} : ~overlapped[d] => ~Adapter!InProgress(d)
  BY <1>1, NotTogether
<1>3. ASSUME NEW d \in Inserts \ {c}, ~overlapped[d]
      PROVE  OwnInsert(d)'
  <2>1. /\ OwnInsert(d) /\ ~Adapter!InProgress(d) /\ step'[d] = step[d]
        /\ \A e \in Inserts : step[e] # "idle" => step'[e] # "idle"
    BY <1>1, <1>2, <1>3, CallFacts DEF OInv
  <2>2. CASE c \in Asks
    <3>1. UNCHANGED <<table, sent>>
      BY <2>2 DEF Adapter!Statement, Adapter!Execute, Adapter!Fetch
    <3> QED
      BY <1>1, <1>3, <2>1, <3>1, OthersKeepRows
  <2>3. CASE c \in Inserts
    <3>1. PICK e \in Inserts :
              /\ Adapter!InProgress(e)
              /\ \A r \in Relations :
                    \/ table'[r] = table[r]
                    \/ \E more \in Seq(Inserts \X Nat) :
                          /\ table'[r] = table[r] \o more
                          /\ \A i \in DOMAIN more : more[i][1] = e
                    \/ /\ table'[r] = << >>
                       /\ r = Adapter!Target(c) /\ request[c].mode = "truncate"
      BY <2>3, StatementRows
    <3>2. e # d
      BY <2>1, <3>1
    <3>3. \A r \in Relations :
              \/ table'[r] = table[r]
              \/ \E more \in Seq(Inserts \X Nat) :
                    /\ table'[r] = table[r] \o more
                    /\ \A i \in DOMAIN more : more[i][1] # d
              \/ /\ table'[r] = << >> /\ c \in Inserts
                 /\ r = Adapter!Target(c) /\ request[c].mode = "truncate" /\ step'[c] # "idle"
      BY <1>1, <2>3, <3>1, <3>2
    <3>4. sent'[d] = sent[d]
      BY <1>3, <2>3, CallFacts
         DEF Adapter!Statement, Adapter!Register, Adapter!Delete, Adapter!InsertRegistered,
             Adapter!InsertChunk, Adapter!Fail, Adapter!Unregister, OInv, AdapterTyped
    <3> QED
      BY <1>1, <1>3, <2>1, <3>3, <3>4, OthersKeepRows
  <2> QED
    BY <2>2, <2>3, CallFacts
<1>4. ASSUME NEW d \in Asks \ {c}, ~overlapped[d]
      PROVE  OwnAnswer(d)'
  <2>1. OwnAnswer(d) /\ step'[d] = step[d] /\ step[d] # "fetch"
    BY <1>1, <1>2, <1>4, CallFacts DEF OInv, Adapter!InProgress, Adapter!Finished
  <2>2. answer'[d] = answer[d]
    BY <1>4
       DEF Adapter!Statement, Adapter!Execute, Adapter!Fetch, Adapter!Register, Adapter!Delete,
           Adapter!InsertRegistered, Adapter!InsertChunk, Adapter!Fail, Adapter!Unregister, OInv,
           AdapterTyped
  <2> QED
    BY <2>1, <2>2 DEF OwnAnswer
<1> QED
  BY <1>3, <1>4

\* An insert that has met none goes on with its rows.
LEMMA StatementKeepsOwn ==
    ASSUME OInv, NEW c \in Inserts, Adapter!Statement(c), ~overlapped[c]
    PROVE  OwnInsert(c)'
<1> USE DEF Adapter!Goto, Adapter!asked
<1>0. c \in Adapter!Calls /\ c \notin Asks
  BY CallFacts
<1> DEFINE r == Adapter!Target(c)
<1>1. /\ OwnInsert(c) /\ Adapter!InProgress(c)
      /\ table \in [Relations -> Seq(Inserts \X Nat)] /\ r \in Relations
      /\ sent \in [Inserts -> Nat] /\ step \in [Adapter!Calls -> AskSteps \cup InsertSteps]
      /\ UNCHANGED <<adapter, request>> /\ Chunks \in Nat \ {0}
  BY <1>0, StatementGoesOn, ChunksAssumption DEF OInv, AdapterTyped, Adapter!Target
<1>2. \A x \in Relations \ {r} : Adapter!PlacesOf(c, table[x]) = {}
  BY <1>1 DEF OwnInsert
<1>3. r' = r
  BY <1>1 DEF Adapter!Target
<1>4. ASSUME NEW rows,
             \A x \in Relations \ {r} : table'[x] = table[x],
             table'[r] = rows,
             step'[c] \in {"idle", "register", "delete"} =>
                Adapter!PlacesOf(c, rows) = {} /\ sent'[c] = 0,
             step'[c] = "insert" =>
                IF adapter = "duckdb" THEN Adapter!PlacesOf(c, rows) = {}
                ELSE sent'[c] < Chunks /\ Adapter!HasFirst(sent'[c], c, rows),
             step'[c] \in {"unregister", "ok"} => Adapter!HasFirst(Chunks, c, rows)
      PROVE  OwnInsert(c)'
  BY <1>1, <1>2, <1>3, <1>4 DEF OwnInsert
<1> HIDE DEF r
<1>5. CASE Adapter!Register(c)
  <2>1. step[c] = "register" /\ step'[c] = "delete" /\ UNCHANGED <<table, sent>>
    BY <1>0, <1>1, <1>5 DEF Adapter!Register
  <2>2. Adapter!PlacesOf(c, table[r]) = {} /\ sent[c] = 0
    BY <1>1, <2>1 DEF OwnInsert, r
  <2> QED
    BY <1>4, <2>1, <2>2
<1>6. CASE Adapter!Delete(c)
  <2>1. step[c] = "delete" /\ step'[c] = "insert" /\ UNCHANGED <<sent>>
    BY <1>0, <1>1, <1>6 DEF Adapter!Delete
  <2>2. Adapter!PlacesOf(c, table[r]) = {} /\ sent[c] = 0
    BY <1>1, <2>1 DEF OwnInsert, r
  <2>3. Adapter!PlacesOf(c, << >>) = {}
    BY DEF Adapter!PlacesOf
  <2>4. table' = table \/ table' = [table EXCEPT ![r] = << >>]
    BY <1>6 DEF Adapter!Delete, r
  <2>5. Adapter!PlacesOf(c, table'[r]) = {} /\ \A x \in Relations \ {r} : table'[x] = table[x]
    BY <1>1, <2>2, <2>3, <2>4
  <2>6. Adapter!HasFirst(0, c, table'[r])
    BY <2>5 DEF Adapter!HasFirst
  <2> QED
    BY <1>1, <1>4, <2>1, <2>2, <2>5, <2>6
<1>7. CASE Adapter!InsertRegistered(c)
  <2>1. /\ step[c] = "insert" /\ step'[c] = "unregister" /\ adapter = "duckdb"
        /\ registered # None
        /\ table' = [table EXCEPT ![r] = @ \o Adapter!AllOf(registered)]
    BY <1>0, <1>1, <1>7 DEF Adapter!InsertRegistered, r
  <2>2. registered = c
    <3>1. registered \in Adapter!Calls /\ Adapter!InProgress(registered)
      BY <2>1, CallFacts
         DEF OInv, AdapterTyped, Registered, Adapter!InProgress, Adapter!Finished
    <3> QED
      BY <1>0, <1>1, <3>1, NotTogether
  <2>3. Adapter!PlacesOf(c, table[r]) = {}
    BY <1>1, <2>1 DEF OwnInsert, r
  <2>4. /\ Adapter!HasFirst(Chunks, c, table'[r])
        /\ \A x \in Relations \ {r} : table'[x] = table[x]
    BY <1>1, <2>1, <2>2, <2>3, AllRows
  <2> QED
    BY <1>4, <2>1, <2>4
<1>8. CASE Adapter!InsertChunk(c)
  <2>1. /\ step[c] = "insert" /\ adapter = "odbc" /\ sent'[c] = sent[c] + 1
        /\ step'[c] = IF sent[c] + 1 < Chunks THEN "insert" ELSE "ok"
        /\ table' = [table EXCEPT ![r] = Append(@, <<c, sent[c] + 1>>)]
    BY <1>0, <1>1, <1>8 DEF Adapter!InsertChunk, r
  <2>2. sent[c] < Chunks /\ Adapter!HasFirst(sent[c], c, table[r]) /\ sent[c] \in Nat
    BY <1>1, <2>1 DEF OwnInsert, r
  <2>3. /\ Adapter!HasFirst(sent[c] + 1, c, table'[r])
        /\ \A x \in Relations \ {r} : table'[x] = table[x]
    BY <1>1, <2>1, <2>2, NextRow
  <2>4. ~(sent[c] + 1 < Chunks) => sent[c] + 1 = Chunks
    BY <1>1, <2>2
  <2> QED
    BY <1>4, <2>1, <2>3, <2>4
<1>9. CASE Adapter!Fail(c)
  <2>1. step'[c] \in {"error", "unregister failed"} /\ UNCHANGED table
    BY <1>0, <1>1, <1>9 DEF Adapter!Fail
  <2> QED
    BY <1>4, <2>1
<1>10. CASE Adapter!Unregister(c)
  <2>1. /\ \/ step[c] = "unregister" /\ step'[c] = "ok"
           \/ step'[c] = "error"
        /\ UNCHANGED table
    BY <1>0, <1>1, <1>10 DEF Adapter!Unregister
  <2>2. step[c] = "unregister" => Adapter!HasFirst(Chunks, c, table[r])
    BY <1>1 DEF OwnInsert, r
  <2> QED
    BY <1>4, <2>1, <2>2
<1> QED
  BY <1>0, <1>5, <1>6, <1>7, <1>8, <1>9, <1>10 DEF Adapter!Statement

\* A statement keeps the types.
LEMMA StatementKeepsTypes ==
    ASSUME OInv, NEW c \in Adapter!Calls, Adapter!Statement(c)
    PROVE  AdapterTyped'
<1>0. AdapterTyped
  BY DEF OInv
<1>1. /\ step' \in [Adapter!Calls -> AskSteps \cup InsertSteps]
      /\ \A d \in Asks : step'[d] \in AskSteps
      /\ \A d \in Inserts : step'[d] \in InsertSteps
      /\ UNCHANGED <<adapter, request, overlapped>>
  BY <1>0, StatementGoesOn, CallFacts DEF AdapterTyped
<1>2. CASE c \in Asks
  <2>1. /\ UNCHANGED <<table, registered, sent>>
        /\ executed' \in {executed, c} /\ answer' \in {answer, [answer EXCEPT ![c] = executed],
                                                        [answer EXCEPT ![c] = c]}
    BY <1>2 DEF Adapter!Statement, Adapter!Execute, Adapter!Fetch
  <2> QED
    BY <1>0, <1>1, <1>2, <2>1 DEF AdapterTyped
<1>3. CASE c \in Inserts
  <2>1. /\ executed' \in {executed, c} /\ registered' \in {registered, c, None}
        /\ sent' \in {sent, [sent EXCEPT ![c] = @ + 1]} /\ answer' = answer
    BY <1>3, CallFacts
       DEF Adapter!Statement, Adapter!Register, Adapter!Delete, Adapter!InsertRegistered,
           Adapter!InsertChunk, Adapter!Fail, Adapter!Unregister, Adapter!asked
  <2>2. sent' \in [Inserts -> Nat]
    <3>1. sent \in [Inserts -> Nat] /\ sent[c] + 1 \in Nat
      BY <1>0, <1>3 DEF AdapterTyped
    <3>2. sent' = sent \/ sent' = [sent EXCEPT ![c] = sent[c] + 1]
      BY <2>1
    <3> QED
      BY <3>1, <3>2, Zenon
  <2>3. table' \in [Relations -> Seq(Inserts \X Nat)]
    <3>1. ASSUME NEW r \in Relations
          PROVE  table'[r] \in Seq(Inserts \X Nat)
      <4>1. table[r] \in Seq(Inserts \X Nat)
        BY <1>0 DEF AdapterTyped
      <4>2. \/ table'[r] = table[r]
            \/ \E more \in Seq(Inserts \X Nat) : table'[r] = table[r] \o more
            \/ table'[r] = << >>
        BY <1>3, StatementRows
      <4>3. << >> \in Seq(Inserts \X Nat)
        BY EmptySeq
      <4>4. \A more \in Seq(Inserts \X Nat) : table[r] \o more \in Seq(Inserts \X Nat)
        BY <4>1, ConcatProperties
      <4> QED
        BY <4>1, <4>2, <4>3, <4>4
    <3>2. \/ table' = table
          \/ \E rows : table' = [table EXCEPT ![Adapter!Target(c)] = rows]
      BY <1>3, CallFacts
         DEF Adapter!Statement, Adapter!Register, Adapter!Delete, Adapter!InsertRegistered,
             Adapter!InsertChunk, Adapter!Fail, Adapter!Unregister
    <3>3. table \in [Relations -> Seq(Inserts \X Nat)]
      BY <1>0 DEF AdapterTyped
    <3> QED
      BY <3>1, <3>2, <3>3
  <2> QED
    BY <1>0, <1>1, <1>3, <2>1, <2>2, <2>3, CallFacts DEF AdapterTyped
<1> QED
  BY <1>2, <1>3, CallFacts

\* A statement keeps what the calls have.
LEMMA StatementKeeps ==
    ASSUME OInv, NEW c \in Adapter!Calls, Adapter!Statement(c)
    PROVE  OInv'
<1>1. /\ Adapter!InProgress(c)
      /\ step'[c] # "idle" /\ \A d \in Adapter!Calls \ {c} : step'[d] = step[d]
      /\ UNCHANGED <<adapter, request, overlapped>>
  BY StatementGoesOn
<1>2. AdapterTyped'
  BY StatementKeepsTypes
<1>3. Alone'
  <2>1. \A d \in Adapter!Calls : Adapter!InProgress(d)' => Adapter!InProgress(d)
    BY <1>1 DEF Adapter!InProgress, Adapter!Finished
  <2> QED
    BY <1>1, <2>1 DEF OInv, Alone
<1>4. Registered'
  <2> USE DEF Adapter!Goto
  <2>1. step \in [Adapter!Calls -> AskSteps \cup InsertSteps]
    BY DEF OInv, AdapterTyped
  <2>2. CASE c \in Asks
    <3>1. registered' = registered /\ (registered # None => registered \in Adapter!Calls \ {c})
      BY <2>2, CallFacts
         DEF Adapter!Statement, Adapter!Execute, Adapter!Fetch, OInv, AdapterTyped
    <3> QED
      BY <1>1, <2>2, <3>1, CallFacts DEF OInv, Registered
  <2>3. CASE c \in Inserts
    <3>1. c \in Adapter!Calls /\ c \notin Asks /\ c # None
      BY <2>3, CallFacts
    <3>2. Registered /\ (registered # None => registered \in Adapter!Calls)
          /\ adapter \in {"duckdb", "odbc"} /\ step[c] \in InsertSteps
      BY <2>3, CallFacts DEF OInv, AdapterTyped
    <3>3. /\ registered' # None =>
                /\ adapter = "duckdb"
                /\ step'[registered'] \in {"delete", "insert", "unregister", "unregister failed"}
          /\ adapter = "odbc" => step'[c] \in {"idle", "delete", "insert", "ok", "error"}
      <4>1. CASE Adapter!Register(c)
        BY <1>1, <2>1, <2>3, <3>1, <3>2, <4>1 DEF Adapter!Register, Registered
      <4>2. CASE Adapter!Delete(c)
        BY <1>1, <2>1, <2>3, <3>1, <3>2, <4>2 DEF Adapter!Delete, Registered
      <4>3. CASE Adapter!InsertRegistered(c)
        BY <1>1, <2>1, <2>3, <3>1, <3>2, <4>3 DEF Adapter!InsertRegistered, Registered
      <4>4. CASE Adapter!InsertChunk(c)
        BY <1>1, <2>1, <2>3, <3>1, <3>2, <4>4 DEF Adapter!InsertChunk, Registered
      <4>5. CASE Adapter!Fail(c)
        BY <1>1, <2>1, <2>3, <3>1, <3>2, <4>5 DEF Adapter!Fail, Registered
      <4>6. CASE Adapter!Unregister(c)
        BY <1>1, <2>1, <2>3, <3>1, <3>2, <4>6 DEF Adapter!Unregister, Registered
      <4> QED
        BY <3>1, <4>1, <4>2, <4>3, <4>4, <4>5, <4>6 DEF Adapter!Statement
    <3> QED
      BY <1>1, <3>2, <3>3, CallFacts DEF Registered
  <2> QED
    BY <2>2, <2>3, CallFacts
<1>5. \A d \in Inserts : ~overlapped'[d] => OwnInsert(d)'
  BY <1>1, StatementKeepsOthers, StatementKeepsOwn
<1>6. ASSUME NEW d \in Asks, ~overlapped'[d]
      PROVE  OwnAnswer(d)'
  <2>1. CASE d # c
    BY <1>1, <1>6, <2>1, StatementKeepsOthers
  <2>2. CASE d = c
    <3>1. Adapter!Execute(c) \/ Adapter!Fetch(c)
      BY <1>6, <2>2 DEF Adapter!Statement
    <3>2. OwnAnswer(c) /\ step \in [Adapter!Calls -> AskSteps \cup InsertSteps]
          /\ answer \in [Asks -> Adapter!Calls \cup {None}]
      BY <1>1, <1>6, <2>2 DEF OInv, AdapterTyped
    <3> QED
      BY <1>6, <2>2, <3>1, <3>2
         DEF Adapter!Execute, Adapter!Fetch, Adapter!Goto, OwnAnswer
  <2> QED
    BY <2>1, <2>2
<1> QED
  BY <1>2, <1>3, <1>4, <1>5, <1>6 DEF OInv

\* What the calls have is theirs as long as nothing happens to it.
LEMMA OwnStutter ==
    ASSUME OInv, UNCHANGED adapterVars
    PROVE  OInv'
<1>1. UNCHANGED <<adapter, request, table, registered, executed, step, sent, answer, overlapped>>
  BY DEF adapterVars
<1>2. AdapterTyped' /\ Alone' /\ Registered'
  BY <1>1 DEF OInv, AdapterTyped, Alone, Registered, Adapter!InProgress, Adapter!Finished
<1>3. ASSUME NEW c \in Inserts, ~overlapped'[c]
      PROVE  OwnInsert(c)'
  <2>1. OwnInsert(c)
    BY <1>1, <1>3 DEF OInv
  <2> DEFINE r == Adapter!Target(c)
  <2>2. \A d \in Inserts : Adapter!Target(d)' = Adapter!Target(d)
    BY <1>1 DEF Adapter!Target
  <2>3. r' = r
    BY <1>3, <2>2
  <2> HIDE DEF r
  <2>4. \A x \in Relations \ {r'} : Adapter!PlacesOf(c, table'[x]) = {}
    BY <1>1, <2>1, <2>3 DEF OwnInsert, r
  <2>5. /\ step'[c] \in {"idle", "register", "delete"} =>
              Adapter!PlacesOf(c, table'[r']) = {} /\ sent'[c] = 0
        /\ step'[c] = "insert" =>
              IF adapter' = "duckdb" THEN Adapter!PlacesOf(c, table'[r']) = {}
              ELSE sent'[c] < Chunks /\ Adapter!HasFirst(sent'[c], c, table'[r'])
        /\ step'[c] = "unregister" => Adapter!HasFirst(Chunks, c, table'[r'])
    BY <1>1, <2>1, <2>3 DEF OwnInsert, r
  <2>6. step'[c] = "ok" =>
              \/ Adapter!HasFirst(Chunks, c, table'[r'])
              \/ \E d \in Inserts \ {c} :
                    /\ step'[d] # "idle" /\ Adapter!Target(d)' = r'
                    /\ request'[d].mode = "truncate"
    BY <1>1, <2>1, <2>2, <2>3 DEF OwnInsert, r
  <2> QED
    BY <2>4, <2>5, <2>6 DEF OwnInsert, r
<1>4. ASSUME NEW c \in Asks, ~overlapped'[c]
      PROVE  OwnAnswer(c)'
  BY <1>1, <1>4 DEF OInv, OwnAnswer
<1> QED
  BY <1>2, <1>3, <1>4 DEF OInv

LEMMA InitOwn == Init => OInv
<1> SUFFICES ASSUME Init
             PROVE  OInv
  OBVIOUS
<1>1. /\ adapter \in {"duckdb", "odbc"}
      /\ request \in [Inserts -> [relation : Relations, mode : {"append", "truncate"}]]
      /\ table = [r \in Relations |-> << >>]
      /\ registered = None /\ executed = None
      /\ step = [c \in Adapter!Calls |-> "idle"]
      /\ sent = [c \in Inserts |-> 0]
      /\ answer = [c \in Asks |-> None]
      /\ overlapped = [c \in Adapter!Calls |-> FALSE]
  BY ProgramsAssumption DEF Init, Adapter!Init
<1>2. AdapterTyped
  BY <1>1, CallFacts, EmptySeq DEF AdapterTyped, AskSteps, InsertSteps
<1>3. Alone /\ Registered
  BY <1>1, CallFacts DEF Alone, Registered, Adapter!InProgress
<1>4. ASSUME NEW c \in Inserts
      PROVE  OwnInsert(c)
  <2>1. /\ \A r \in Relations : Adapter!PlacesOf(c, table[r]) = {}
        /\ Adapter!Target(c) \in Relations /\ step[c] = "idle" /\ sent[c] = 0
    BY <1>1, CallFacts DEF Adapter!PlacesOf, Adapter!Target
  <2> QED
    BY <2>1 DEF OwnInsert
<1>5. \A c \in Asks : OwnAnswer(c)
  BY <1>1, CallFacts DEF OwnAnswer
<1> QED
  BY <1>2, <1>3, <1>4, <1>5 DEF OInv

\* The threads take the adapter through its own steps.
LEMMA AdapterSteps ==
    ASSUME WaitInv, [Next]_vars
    PROVE  \/ UNCHANGED adapterVars
           \/ \E c \in Adapter!Calls : Adapter!Start(c) \/ Adapter!Statement(c)
<1>1. CASE ReturnConnection \/ UNCHANGED vars
  BY <1>1 DEF ReturnConnection, vars
<1>2. CASE \E x \in Queries \cup Ops : Work(x)
  BY <1>2, WorkersReadNothing DEF WaitInv
<1>3. ASSUME NEW t \in Threads, Inside(t)
      PROVE  \/ UNCHANGED adapterVars
             \/ \E c \in Adapter!Calls : Adapter!Start(c) \/ Adapter!Statement(c)
  <2>1. CASE Statement(t)
    <3>1. at[t] = "statement" /\ Adapter!Statement(User(t))
      BY <2>1 DEF Statement, Goto
    <3>2. User(t) \in Adapter!Calls
      BY <3>1, CallFacts DEF WaitInv, Waits, StatementsAreRun
    <3> QED
      BY <3>1, <3>2
  <2>2. CASE CommitPython(t)
    BY <2>2, CallFacts DEF CommitPython
  <2>3. CASE \/ Opened(t) \/ AttachToDrain(t) \/ Drain(t) \/ Refuse(t) \/ Lock(t) \/ Read(t)
             \/ ReadEnd(t) \/ Write(t) \/ CloseQuery(t) \/ CommitNative(t) \/ NativeDone(t)
    BY <2>3 DEF Opened, AttachToDrain, Drain, Refuse, Lock, Read, ReadEnd, Write, CloseQuery,
                CommitNative, NativeDone
  <2>4. CASE \/ Attach(t) \/ PythonDone(t) \/ CommitAgain(t) \/ Discard(t) \/ Called(t) \/ Return(t)
    BY <2>4 DEF Attach, PythonDone, CommitAgain, Discard, Called, Return
  <2> QED
    BY <1>3, <2>1, <2>2, <2>3, <2>4 DEF Inside
<1>4. ASSUME NEW t \in Threads, Begin(t)
      PROVE  \/ UNCHANGED adapterVars
             \/ \E c \in Adapter!Calls : Adapter!Start(c) \/ Adapter!Statement(c)
  <2>1. PICK c \in left[t] :
           CallQuery(t, c) \/ CallFile(t, c) \/ CallNative(t, c) \/ CallPython(t, c)
    BY <1>4 DEF Begin
  <2>2. CASE CallQuery(t, c) \/ CallFile(t, c) \/ CallNative(t, c)
    BY <2>2 DEF CallQuery, CallFile, CallNative
  <2>3. CASE CallPython(t, c)
    <3>1. left[t] \subseteq AllCalls
      BY DEF WaitInv, IInv, Typed
    <3>2. c \in AllCalls /\ c[1] = "ask" /\ Adapter!Start(c[2])
      BY <2>1, <2>3, <3>1 DEF CallPython
    <3>3. c[2] \in Asks
      BY <3>2 DEF AllCalls
    <3> QED
      BY <3>2, <3>3, CallFacts
  <2> QED
    BY <2>1, <2>2, <2>3
<1> QED
  BY <1>1, <1>2, <1>3, <1>4 DEF Next, Run

LEMMA OwnKept ==
    ASSUME WaitInv, OInv, [Next]_vars
    PROVE  OInv'
BY AdapterSteps, OwnStutter, StartKeeps, StatementKeeps

LEMMA OwnRows == OInv => OwnRowsUnlessOverlapped
<1> SUFFICES ASSUME OInv, NEW c \in Adapter!Calls, ~overlapped[c]
             PROVE  IF c \in Asks THEN answer[c] \in {None, c}
                    ELSE /\ \A r \in Relations \ {Adapter!Target(c)} :
                               Adapter!PlacesOf(c, table[r]) = {}
                         /\ step[c] = "ok" =>
                              \/ Adapter!HasFirst(Chunks, c, table[Adapter!Target(c)])
                              \/ \E d \in Inserts \ {c} :
                                    /\ step[d] # "idle" /\ Adapter!Target(d) = Adapter!Target(c)
                                    /\ request[d].mode = "truncate"
  BY DEF OwnRowsUnlessOverlapped, Adapter!OwnRowsUnlessOverlapped
<1>1. CASE c \in Asks
  BY <1>1 DEF OInv, OwnAnswer
<1>2. CASE c \in Inserts
  BY <1>2, CallFacts DEF OInv, OwnInsert
<1> QED
  BY <1>1, <1>2, CallFacts

\* Whatever the threads call of the files of a Python adapter, and whichever
\* statements fail: an insert or a query that no other call overlapped has its
\* own rows: its table gets all its rows once, and no other table any of them;
\* a query answers with its own result (duckdb.py:46-74, odbc.py:41-71).
THEOREM CallsHaveTheirRows == Spec => []OwnRowsUnlessOverlapped
<1>1. Init => OInv
  BY InitOwn
<1>2. WaitInv /\ OInv /\ [Next]_vars => OInv'
  BY OwnKept
<1> QED
  BY <1>1, <1>2, WaitInvariance, OwnRows, PTL DEF Spec

===============================================================================
