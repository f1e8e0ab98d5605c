-------------------------- MODULE PieceCacheProofs --------------------------
(***************************************************************************)
(* Theorems about PieceCache for every number of caches, pieces, blocks,   *)
(* objects, threads and readers, and every set of operations.              *)
(***************************************************************************)
EXTENDS PieceCache, FiniteSetTheorems, TLAPS

\* The operation a thread is in bounds where its program counter can be, and says whether it
\* holds a piece, or at least names a cache.
Consistent(pc, op, c, o) ==
  /\ pc = "idle" => op = "none"
  /\ op = "none" => pc = "idle" /\ c = None /\ o = None
  /\ op = "resize" => pc \in {"evict", "evlock", "evloop", "evsub"} /\ o = None
  /\ op \notin {"none", "resize"} => c \in Cache
  /\ op \in {"write", "read", "hash", "mark", "reader"} => o \in Obj
  /\ op \in {"close", "drop"} =>
       pc \in {"close", "closing", "closesub", "diskclose", "unreg"} /\ o = None
  /\ op = "write" => pc \in {"write", "fill", "gadd"}
  /\ pc \in {"outer", "refetch", "waitrange", "parked", "serve"} => op = "reader"
  /\ pc \in {"mark", "clear", "release", "gsub"} => op = "hash"
  /\ pc \in {"markmp", "persist", "diskwrite", "ret"} => op = "mark"
  /\ pc \in {"hydrate", "load", "access"} => op \in {"read", "hash", "reader"}
  /\ pc \in {"fill", "gadd"} => op \in {"write", "read", "hash", "reader"}
  /\ pc \in {"evict", "evlock", "evloop", "evsub"} =>
       op \in {"read", "hash", "reader", "mark", "resize"}
  /\ pc \in {"close", "closing", "closesub", "diskclose", "unreg"} => op \in {"close", "drop"}
  /\ pc = "write" => op = "write"

ThreadOK == \A t \in Thread : Consistent(th[t].pc, th[t].op, th[t].c, th[t].o)

\* A registered reader names a cache.
ReaderOK == \A r \in Reader : reader[r].state # "none" => reader[r].c \in Cache

\* A free object exists whenever one is asked for.
LEMMA FreshFree == Free # {} => Fresh \in Free
<1> SUFFICES ASSUME Free # {} PROVE Fresh \in Free
  OBVIOUS
<1>1. \E o \in Obj : o \in Free
  BY DEF Free
<1> QED
  BY <1>1 DEF Fresh

LEMMA MemPieceTypes ==
  ASSUME NEW m \in MemPieceType
  PROVE  /\ NewMemPiece \in MemPieceType
         /\ Released(m) \in MemPieceType
         /\ Completed(m) \in MemPieceType
         /\ Loaded(m) \in MemPieceType
         /\ \A b \in Block : Written(m, b) \in MemPieceType
         /\ m.accounted \in Int
<1> USE DEF MemPieceType
<1>0. NumBlocks \in Int
  BY ConstantsAssumption
<1>1. NewMemPiece \in MemPieceType
  BY DEF NewMemPiece
<1>2. Released(m) \in MemPieceType
  <2>1. m.done \in BOOLEAN
    OBVIOUS
  <2> QED
    BY <2>1 DEF Released, NewMemPiece
<1>3. Completed(m) \in MemPieceType
  BY DEF Completed
<1>4. Loaded(m) \in MemPieceType
  <2>1. Block \in SUBSET Block /\ m.accounted + NumBlocks \in Int
    BY <1>0
  <2> QED
    BY <2>1 DEF Loaded
<1>5. ASSUME NEW b \in Block
      PROVE  Written(m, b) \in MemPieceType
  <2>1. m.bytes \cup {b} \in SUBSET Block /\ m.written \cup {b} \in SUBSET Block
    OBVIOUS
  <2>2. m.accounted + 1 \in Int
    OBVIOUS
  <2> QED
    BY <2>1, <2>2 DEF Written
<1>6. QED
  BY <1>1, <1>2, <1>3, <1>4, <1>5

LEMMA WakeType ==
  ASSUME TypeOK, NEW o, Wake(o)
  PROVE  parkedOn' \in [Reader -> Obj \cup {None}]
  BY DEF TypeOK, Wake

LEMMA ThreadTypes ==
  /\ IdleThread \in ThreadType
  /\ NoReader \in ReaderType
  /\ NewClient \in ClientType
  /\ [NewClient EXCEPT !.have = TRUE] \in ClientType
  /\ [NewClient EXCEPT !.have = FALSE] \in ClientType
<1>1. 0 \in Idx /\ 1 \in Block
  BY ConstantsAssumption DEF Idx, Block
<1>2. IdleThread \in ThreadType
  BY <1>1 DEF IdleThread, ThreadType, PCs, OpNames
<1>3. QED
  BY <1>1, <1>2 DEF NoReader, ReaderType, NewClient, ClientType

-----------------------------------------------------------------------------
(* Type correctness: TypeOK is inductive together with ThreadOK *)

\* One thread gets a new record, the others keep theirs.
LEMMA SetThread ==
  ASSUME TypeOK, ThreadOK, NEW t \in Thread, NEW y \in ThreadType,
         th' = [th EXCEPT ![t] = y], Consistent(y.pc, y.op, y.c, y.o)
  PROVE  th' \in [Thread -> ThreadType] /\ ThreadOK'
<1>1. th' \in [Thread -> ThreadType]
  BY DEF TypeOK
<1>2. ASSUME NEW u \in Thread
      PROVE  Consistent(th[u].pc, th[u].op, th[u].c, th[u].o)'
  <2>1. CASE u = t
    <3>1. th'[u] = y
      BY <2>1 DEF TypeOK
    <3> QED
      BY <3>1 DEF Consistent
  <2>2. CASE u # t
    <3>1. th'[u] = th[u]
      BY <2>2 DEF TypeOK
    <3> QED
      BY <3>1 DEF ThreadOK, Consistent
  <2> QED
    BY <2>1, <2>2
<1> QED
  BY <1>1, <1>2 DEF ThreadOK

\* A thread moves to pc with a new count ...
LEMMA GotoNType ==
  ASSUME TypeOK, ThreadOK, NEW t \in Thread, NEW pc \in PCs, NEW n \in Int,
         GotoN(t, pc, n),
         Consistent(pc, th[t].op, th[t].c, th[t].o)
  PROVE  /\ th' \in [Thread -> ThreadType] /\ ThreadOK'
         /\ \A u \in Thread \ {t} : th'[u] = th[u]
         /\ th'[t].pc = pc /\ th'[t].op = th[t].op /\ th'[t].c = th[t].c
         /\ th'[t].o = th[t].o /\ th'[t].p = th[t].p /\ th'[t].b = th[t].b
<1> DEFINE y == [th[t] EXCEPT !.pc = pc, !.n = n]
<1>1. th[t] \in ThreadType
  BY DEF TypeOK
<1>2. /\ y \in ThreadType /\ y.pc = pc /\ y.op = th[t].op /\ y.c = th[t].c /\ y.o = th[t].o
      /\ y.p = th[t].p /\ y.b = th[t].b
  BY <1>1 DEF ThreadType
<1>3. /\ th' = [th EXCEPT ![t] = y]
      /\ \A u \in Thread \ {t} : th'[u] = th[u]
      /\ th'[t] = y
  BY DEF TypeOK, GotoN
<1> HIDE DEF y
<1>4. th' \in [Thread -> ThreadType] /\ ThreadOK'
  BY <1>2, <1>3, SetThread
<1> QED
  BY <1>2, <1>3, <1>4

\* ... or keeps the count it has.
LEMMA GotoType ==
  ASSUME TypeOK, ThreadOK, NEW t \in Thread, NEW pc \in PCs, Goto(t, pc),
         Consistent(pc, th[t].op, th[t].c, th[t].o)
  PROVE  /\ th' \in [Thread -> ThreadType] /\ ThreadOK'
         /\ \A u \in Thread \ {t} : th'[u] = th[u]
         /\ th'[t].pc = pc /\ th'[t].op = th[t].op /\ th'[t].c = th[t].c
         /\ th'[t].o = th[t].o /\ th'[t].p = th[t].p /\ th'[t].b = th[t].b
<1>1. th[t] \in ThreadType /\ th[t].n \in Int
  BY DEF TypeOK, ThreadType
<1>2. [th[t] EXCEPT !.pc = pc, !.n = th[t].n] = [th[t] EXCEPT !.pc = pc]
  BY <1>1 DEF ThreadType
<1>3. GotoN(t, pc, th[t].n)
  BY <1>2 DEF Goto, GotoN, TypeOK
<1> QED
  BY <1>1, <1>3, GotoNType

LEMMA FinishType ==
  ASSUME TypeOK, ThreadOK, NEW t \in Thread, Finish(t)
  PROVE  /\ th' \in [Thread -> ThreadType] /\ ThreadOK'
         /\ \A u \in Thread \ {t} : th'[u] = th[u]
         /\ th'[t] = IdleThread
<1>1. /\ IdleThread \in ThreadType
      /\ Consistent(IdleThread.pc, IdleThread.op, IdleThread.c, IdleThread.o)
  BY ThreadTypes DEF Consistent, IdleThread
<1>2. th' = [th EXCEPT ![t] = IdleThread]
  BY DEF Finish
<1> QED
  BY <1>1, <1>2, SetThread DEF TypeOK

\* GetOrCreateMemPiece keeps the types, gives the thread a piece of cache c, and touches no
\* object but the one it creates.
LEMMA GetOrCreateType ==
  ASSUME TypeOK, ThreadOK,
         NEW t \in Thread, NEW c \in Cache, NEW p \in Idx, NEW b \in Block,
         NEW pc \in PCs, NEW op \in OpNames \cup {"mark"},
         GetOrCreate(t, c, p, pc, op, b),
         \A o \in Obj : Consistent(pc, op, c, o)
  PROVE  /\ obj' \in [Obj -> MemPieceType]
         /\ pieces' \in [Cache -> [Idx -> Obj \cup {None}]]
         /\ th' \in [Thread -> ThreadType] /\ ThreadOK'
         /\ \A u \in Thread \ {t} : th'[u] = th[u]
         /\ th'[t].pc = pc /\ th'[t].op = op /\ th'[t].c = c /\ th'[t].p = p
         /\ obj' = obj \/ \E o \in Obj : obj' = [obj EXCEPT ![o] = NewMemPiece]
<1> DEFINE create == c \in closed \/ pieces[c][p] = None
           o == IF create THEN Fresh ELSE pieces[c][p]
           y == [th[t] EXCEPT !.pc = pc, !.op = op, !.c = c, !.p = p, !.b = b, !.o = o]
<1>1. o \in Obj
  BY FreshFree DEF GetOrCreate, TypeOK, Free
<1>2. obj' = IF create THEN [obj EXCEPT ![o] = NewMemPiece] ELSE obj
  BY DEF GetOrCreate
<1>3. NewMemPiece \in MemPieceType
  BY DEF NewMemPiece, MemPieceType
<1>4. /\ obj' \in [Obj -> MemPieceType]
      /\ obj' = obj \/ \E x \in Obj : obj' = [obj EXCEPT ![x] = NewMemPiece]
  BY <1>1, <1>2, <1>3 DEF TypeOK
<1>5. pieces' = IF c \in closed THEN pieces ELSE [pieces EXCEPT ![c][p] = o]
  BY DEF GetOrCreate
<1>6. pieces' \in [Cache -> [Idx -> Obj \cup {None}]]
  BY <1>1, <1>5 DEF TypeOK
<1>7. th' = [th EXCEPT ![t] = [@ EXCEPT !.pc = pc, !.op = op, !.c = c, !.p = p,
                                       !.b = b, !.o = o]]
  BY DEF GetOrCreate
<1> HIDE DEF create, o
<1>8. th[t] \in ThreadType
  BY DEF TypeOK
<1>9. /\ y \in ThreadType /\ y.pc = pc /\ y.op = op /\ y.c = c /\ y.p = p /\ y.o = o
  BY <1>1, <1>8 DEF ThreadType
<1>10. th' = [th EXCEPT ![t] = y] /\ th'[t] = y /\ \A u \in Thread \ {t} : th'[u] = th[u]
  BY <1>7 DEF TypeOK
<1> HIDE DEF y
<1>11. Consistent(y.pc, y.op, y.c, y.o)
  BY <1>1, <1>9
<1>12. th' \in [Thread -> ThreadType] /\ ThreadOK'
  BY <1>9, <1>10, <1>11, SetThread
<1> QED
  BY <1>4, <1>6, <1>9, <1>10, <1>12

\* The eviction pass is over: the thread drops its candidates and goes on.
LEMMA AfterEvictType ==
  ASSUME TypeOK, ThreadOK, NEW t \in Thread, AfterEvict(t),
         th[t].pc \in {"evict", "evlock", "evloop"}
  PROVE  /\ th' \in [Thread -> ThreadType] /\ ThreadOK'
         /\ \A u \in Thread \ {t} : th'[u] = th[u]
         /\ th'[t].pc # "parked"
<1>1. CASE th[t].op = "resize"
  BY <1>1, FinishType DEF AfterEvict, IdleThread
<1>2. CASE th[t].op # "resize"
  <2> DEFINE pc == IF th[t].op = "mark" THEN "ret" ELSE "access"
             y == [th[t] EXCEPT !.pc = pc, !.cands = {}, !.cap = 0]
  <2>1. th[t] \in ThreadType /\ {} \in SUBSET Cand /\ pc \in PCs /\ pc # "parked"
    BY DEF TypeOK, PCs
  <2>2. /\ y \in ThreadType /\ y.pc = pc /\ y.op = th[t].op /\ y.c = th[t].c /\ y.o = th[t].o
    BY <2>1 DEF ThreadType
  <2>3. th' = [th EXCEPT ![t] = y] /\ th'[t] = y /\ \A u \in Thread \ {t} : th'[u] = th[u]
    BY <1>2 DEF AfterEvict, LeaveEvict, TypeOK
  <2>4. Consistent(pc, th[t].op, th[t].c, th[t].o)
    BY <1>2 DEF ThreadOK, Consistent
  <2> HIDE DEF y
  <2>5. th' \in [Thread -> ThreadType] /\ ThreadOK'
    BY <2>2, <2>3, <2>4, SetThread
  <2> QED
    BY <2>1, <2>2, <2>3, <2>5
<1> QED
  BY <1>1, <1>2

\* The accounting of a write or of a hydration is over.
LEMMA AfterFillType ==
  ASSUME TypeOK, ThreadOK, NEW t \in Thread, AfterFill(t), th[t].pc \in {"fill", "gadd"}
  PROVE  /\ th' \in [Thread -> ThreadType] /\ ThreadOK'
         /\ \A u \in Thread \ {t} : th'[u] = th[u]
         /\ th'[t].pc # "parked"
         /\ updates' \in SUBSET (Cache \X Idx)
<1>1. CASE th[t].op = "write"
  BY <1>1, FinishType DEF AfterFill, IdleThread, TypeOK
<1>2. CASE th[t].op # "write"
  <2>1. Consistent("evict", th[t].op, th[t].c, th[t].o) /\ th[t].c \in Cache /\ th[t].p \in Idx
    BY <1>2 DEF ThreadOK, Consistent, TypeOK, ThreadType
  <2>2. GotoN(t, "evict", 0) /\ SpawnUpdate(th[t].c, th[t].p)
    BY <1>2 DEF AfterFill
  <2>3. updates' \in SUBSET (Cache \X Idx)
    BY <2>1, <2>2 DEF SpawnUpdate, TypeOK
  <2> QED
    BY <2>1, <2>2, <2>3, GotoNType DEF PCs
<1> QED
  BY <1>1, <1>2

\* What every step of a running thread guarantees: types, the other threads, and that the
\* objects it changes are woken or brand new.
MemStep ==
  \/ UNCHANGED <<obj, parkedOn>>
  \/ \E o \in Obj : Wake(o) /\ \A x \in Obj \ {o} : obj'[x] = obj[x]
  \/ UNCHANGED parkedOn /\ \E o \in Obj : obj' = [obj EXCEPT ![o] = NewMemPiece]

Moved(t) ==
  /\ th' \in [Thread -> ThreadType] /\ ThreadOK'
  /\ \A u \in Thread \ {t} : th'[u] = th[u]
  /\ th'[t].pc # "parked"

StepOK(t) == TypeOK' /\ Moved(t) /\ MemStep /\ th[t].pc # "parked"

\* What the client is told of a piece is a Boolean.
LEMMA CompleteIsBoolean ==
  ASSUME TypeOK, NEW c \in Cache, NEW p \in Idx
  PROVE  PieceComplete(c, p) \in BOOLEAN
  BY DEF PieceComplete

LEMMA WriteAt_Type ==
  ASSUME TypeOK, ThreadOK, NEW t \in Thread, WriteAt(t)
  PROVE  StepOK(t)
<1>1. Consistent("fill", th[t].op, th[t].c, th[t].o)
  BY DEF WriteAt, ThreadOK, Consistent
<1>2. Moved(t)
  BY SMTT(20), <1>1, GotoNType DEF WriteAt, Moved, PCs
<1>0. /\ th[t].c \in Cache /\ th[t].p \in Idx /\ th[t].o \in Obj /\ th[t].b \in Block
      /\ obj[th[t].o] \in MemPieceType
  BY DEF WriteAt, ThreadOK, Consistent, TypeOK, ThreadType
<1>3. /\ obj' \in [Obj -> MemPieceType]
      /\ \A x \in Obj \ {th[t].o} : obj'[x] = obj[x]
  BY <1>0, MemPieceTypes DEF WriteAt, TypeOK
<1>4. parkedOn' \in [Reader -> Obj \cup {None}]
  BY WakeType DEF WriteAt
<1> QED
  BY <1>0, <1>2, <1>3, <1>4 DEF WriteAt, StepOK, Moved, TypeOK, MemStep, Idle,
         memVars, cacheVars, fillVars, evictVars, diskVars, clientVars

LEMMA UpdateFilled_Type ==
  ASSUME TypeOK, ThreadOK, NEW t \in Thread, UpdateFilled(t)
  PROVE  StepOK(t)
<1>1. th[t].c \in Cache /\ th[t].n \in Int /\ Consistent("gadd", th[t].op, th[t].c, th[t].o)
  BY DEF UpdateFilled, ThreadOK, Consistent, TypeOK, ThreadType
<1>2. Moved(t) /\ updates' \in SUBSET (Cache \X Idx)
  <2>1. CASE th[t].c \in closed
    BY <2>1, AfterFillType DEF UpdateFilled, Moved
  <2>2. CASE th[t].c \notin closed
    BY <1>1, <2>2, GotoType DEF UpdateFilled, Moved, PCs, TypeOK
  <2> QED
    BY <2>1, <2>2
<1>3. filled' \in [Cache -> Int]
  BY <1>1 DEF UpdateFilled, TypeOK
<1> QED
  BY <1>2, <1>3 DEF UpdateFilled, StepOK, Moved, TypeOK, MemStep, Idle,
         memVars, cacheVars, fillVars, evictVars, diskVars, clientVars

LEMMA AddGlobalFilled_Type ==
  ASSUME TypeOK, ThreadOK, NEW t \in Thread, AddGlobalFilled(t)
  PROVE  StepOK(t)
<1>1. Moved(t) /\ updates' \in SUBSET (Cache \X Idx)
  BY AfterFillType DEF AddGlobalFilled, Moved
<1>2. globalFilled' \in Int
  BY DEF AddGlobalFilled, TypeOK, ThreadType
<1> QED
  BY <1>1, <1>2 DEF AddGlobalFilled, StepOK, Moved, TypeOK, MemStep, Idle,
         memVars, cacheVars, fillVars, evictVars, diskVars, clientVars

LEMMA Hydrate_Type ==
  ASSUME TypeOK, ThreadOK, NEW t \in Thread, Hydrate(t)
  PROVE  StepOK(t)
<1>1. /\ Consistent("load", th[t].op, th[t].c, th[t].o)
     /\ Consistent("access", th[t].op, th[t].c, th[t].o)
  BY DEF Hydrate, ThreadOK, Consistent
<1>2. Moved(t)
  BY <1>1, GotoType DEF Hydrate, Moved, PCs
<1> QED
  BY <1>2 DEF Hydrate, StepOK, Moved, TypeOK, MemStep, Idle,
         memVars, cacheVars, fillVars, evictVars, diskVars, clientVars

LEMMA LoadComplete_Type ==
  ASSUME TypeOK, ThreadOK, NEW t \in Thread, LoadComplete(t)
  PROVE  StepOK(t)
<1>0. /\ th[t].o \in Obj /\ obj[th[t].o] \in MemPieceType /\ NumBlocks \in Int
      /\ Consistent("access", th[t].op, th[t].c, th[t].o)
      /\ Consistent("fill", th[t].op, th[t].c, th[t].o)
  BY ConstantsAssumption DEF LoadComplete, ThreadOK, Consistent, TypeOK, ThreadType
<1>1. CASE obj[th[t].o].data
  <2>1. Moved(t)
    BY <1>0, <1>1, GotoType DEF LoadComplete, Moved, PCs
  <2> QED
    BY <1>1, <2>1 DEF LoadComplete, StepOK, Moved, TypeOK, MemStep, Idle,
         memVars, cacheVars, fillVars, evictVars, diskVars, clientVars
<1>2. CASE ~obj[th[t].o].data
  <2>1. Moved(t)
    BY <1>0, <1>2, GotoNType DEF LoadComplete, Moved, PCs
  <2>2. /\ obj' \in [Obj -> MemPieceType]
        /\ \A x \in Obj \ {th[t].o} : obj'[x] = obj[x]
    BY <1>0, <1>2, MemPieceTypes DEF LoadComplete, TypeOK
  <2>3. parkedOn' \in [Reader -> Obj \cup {None}]
    BY <1>2, WakeType DEF LoadComplete
  <2> QED
    BY <1>0, <1>2, <2>1, <2>2, <2>3 DEF LoadComplete, StepOK, Moved, TypeOK, MemStep, Idle,
         memVars, cacheVars, fillVars, evictVars, diskVars, clientVars
<1> QED
  BY <1>1, <1>2

LEMMA AccessRead_Type ==
  ASSUME TypeOK, ThreadOK, NEW t \in Thread, AccessRead(t)
  PROVE  StepOK(t)
<1>2. Moved(t)
  BY FinishType DEF AccessRead, Moved, PCs, IdleThread
<1> QED
  BY <1>2 DEF AccessRead, StepOK, Moved, TypeOK, MemStep, Idle,
         memVars, cacheVars, fillVars, evictVars, diskVars, clientVars

LEMMA AccessHash_Type ==
  ASSUME TypeOK, ThreadOK, NEW t \in Thread, AccessHash(t)
  PROVE  StepOK(t)
<1>1. /\ Consistent("mark", th[t].op, th[t].c, th[t].o)
     /\ Consistent("clear", th[t].op, th[t].c, th[t].o)
  BY DEF AccessHash, ThreadOK, Consistent
<1>2. Moved(t)
  BY <1>1, GotoType DEF AccessHash, Moved, PCs
<1> QED
  BY <1>2 DEF AccessHash, StepOK, Moved, TypeOK, MemStep, Idle,
         memVars, cacheVars, fillVars, evictVars, diskVars, clientVars

LEMMA MarkGet_Type ==
  ASSUME TypeOK, ThreadOK, NEW t \in Thread, MarkGet(t)
  PROVE  StepOK(t)
<1>0. /\ th[t].c \in Cache /\ th[t].p \in Idx /\ 1 \in Block
      /\ \A o \in Obj : Consistent("markmp", "mark", th[t].c, o)
  BY ConstantsAssumption DEF MarkGet, ThreadOK, Consistent, TypeOK, ThreadType, Block
<1>1. GetOrCreate(t, th[t].c, th[t].p, "markmp", "mark", 1)
  BY DEF MarkGet
<1>2. /\ obj' \in [Obj -> MemPieceType]
      /\ pieces' \in [Cache -> [Idx -> Obj \cup {None}]]
      /\ Moved(t)
      /\ obj' = obj \/ \E o \in Obj : obj' = [obj EXCEPT ![o] = NewMemPiece]
  BY <1>0, <1>1, GetOrCreateType DEF Moved, PCs
<1> QED
  BY <1>2 DEF MarkGet, StepOK, Moved, TypeOK, MemStep, Idle,
         memVars, cacheVars, fillVars, evictVars, diskVars, clientVars

LEMMA MarkComplete_Type ==
  ASSUME TypeOK, ThreadOK, NEW t \in Thread, MarkComplete(t)
  PROVE  StepOK(t)
<1>1. /\ Consistent("persist", th[t].op, th[t].c, th[t].o)
      /\ Consistent("evict", th[t].op, th[t].c, th[t].o)
  BY DEF MarkComplete, ThreadOK, Consistent
<1>2. Moved(t)
  BY <1>1, GotoType DEF MarkComplete, Moved, PCs
<1>0. /\ th[t].c \in Cache /\ th[t].p \in Idx /\ th[t].o \in Obj /\ th[t].b \in Block
      /\ obj[th[t].o] \in MemPieceType
  BY DEF MarkComplete, ThreadOK, Consistent, TypeOK, ThreadType
<1>3. /\ obj' \in [Obj -> MemPieceType]
      /\ \A x \in Obj \ {th[t].o} : obj'[x] = obj[x]
  BY <1>0, MemPieceTypes DEF MarkComplete, TypeOK
<1>4. parkedOn' \in [Reader -> Obj \cup {None}]
  BY WakeType DEF MarkComplete
<1> QED
  BY <1>0, <1>2, <1>3, <1>4 DEF MarkComplete, StepOK, Moved, TypeOK, MemStep, Idle,
         memVars, cacheVars, fillVars, evictVars, diskVars, clientVars

LEMMA Snapshot_Type ==
  ASSUME TypeOK, ThreadOK, NEW t \in Thread, Snapshot(t)
  PROVE  StepOK(t)
<1>1. /\ Consistent("diskwrite", th[t].op, th[t].c, th[t].o)
     /\ Consistent("evict", th[t].op, th[t].c, th[t].o)
  BY DEF Snapshot, ThreadOK, Consistent
<1>2. Moved(t)
  BY <1>1, GotoType DEF Snapshot, Moved, PCs
<1> QED
  BY <1>2 DEF Snapshot, StepOK, Moved, TypeOK, MemStep, Idle,
         memVars, cacheVars, fillVars, evictVars, diskVars, clientVars

LEMMA WritePiece_Type ==
  ASSUME TypeOK, ThreadOK, NEW t \in Thread, WritePiece(t)
  PROVE  StepOK(t)
<1>1. Consistent("evict", th[t].op, th[t].c, th[t].o)
  BY DEF WritePiece, ThreadOK, Consistent
<1>2. Moved(t)
  BY <1>1, GotoType DEF WritePiece, Moved, PCs
<1>0. /\ th[t].c \in Cache /\ th[t].p \in Idx /\ th[t].o \in Obj /\ th[t].b \in Block
      /\ obj[th[t].o] \in MemPieceType
  BY DEF WritePiece, ThreadOK, Consistent, TypeOK, ThreadType
<1>3. have' \in [Cache -> SUBSET Idx]
  BY <1>0 DEF WritePiece, TypeOK
<1> QED
  BY <1>2, <1>3 DEF WritePiece, StepOK, Moved, TypeOK, MemStep, Idle,
         memVars, cacheVars, fillVars, evictVars, diskVars, clientVars

LEMMA ClearDisk_Type ==
  ASSUME TypeOK, ThreadOK, NEW t \in Thread, ClearDisk(t)
  PROVE  StepOK(t)
<1>1. Consistent("release", th[t].op, th[t].c, th[t].o)
  BY DEF ClearDisk, ThreadOK, Consistent
<1>2. Moved(t)
  BY <1>1, GotoType DEF ClearDisk, Moved, PCs
<1>0. /\ th[t].c \in Cache /\ th[t].p \in Idx /\ th[t].o \in Obj /\ th[t].b \in Block
      /\ obj[th[t].o] \in MemPieceType
  BY DEF ClearDisk, ThreadOK, Consistent, TypeOK, ThreadType
<1>3. have' \in [Cache -> SUBSET Idx]
  BY <1>0 DEF ClearDisk, TypeOK
<1> QED
  BY <1>2, <1>3 DEF ClearDisk, StepOK, Moved, TypeOK, MemStep, Idle,
         memVars, cacheVars, fillVars, evictVars, diskVars, clientVars

LEMMA HashReturn_Type ==
  ASSUME TypeOK, ThreadOK, NEW t \in Thread, HashReturn(t)
  PROVE  StepOK(t)
<1>1. Moved(t)
  BY FinishType DEF HashReturn, Moved, IdleThread
<1>2. th[t].c \in Cache /\ th[t].p \in Idx
  BY DEF HashReturn, ThreadOK, Consistent, TypeOK, ThreadType
<1>3. [NewClient EXCEPT !.have = PieceComplete(th[t].c, th[t].p)] \in ClientType
  BY <1>2, CompleteIsBoolean DEF NewClient, ClientType
<1>4. client' \in [Cache -> [Idx -> ClientType]]
  BY <1>2, <1>3 DEF HashReturn, TypeOK
<1> QED
  BY <1>1, <1>4 DEF HashReturn, StepOK, Moved, TypeOK, MemStep, Idle,
         memVars, cacheVars, fillVars, evictVars, diskVars, clientVars

LEMMA MarkNotComplete_Type ==
  ASSUME TypeOK, ThreadOK, NEW t \in Thread, MarkNotComplete(t)
  PROVE  StepOK(t)
<1> DEFINE c == th[t].c
           p == th[t].p
           o == pieces[c][p]
<1>0. c \in Cache /\ p \in Idx /\ Consistent("gsub", th[t].op, th[t].c, th[t].o)
  BY DEF MarkNotComplete, ThreadOK, Consistent, TypeOK, ThreadType
<1>1. CASE c \in closed \/ o = None
  <2>1. GotoN(t, "gsub", 0) /\ UNCHANGED <<obj, pieces, filled, parkedOn>>
    BY <1>1 DEF MarkNotComplete
  <2>2. Moved(t)
    BY <1>0, <2>1, GotoNType DEF Moved, PCs
  <2> QED
    BY <2>1, <2>2 DEF MarkNotComplete, StepOK, Moved, TypeOK, MemStep, Idle,
         memVars, cacheVars, fillVars, evictVars, diskVars, clientVars
<1>2. CASE ~(c \in closed \/ o = None)
  <2>1. o \in Obj /\ obj[o] \in MemPieceType /\ obj[o].accounted \in Int
    BY <1>0, <1>2, MemPieceTypes DEF TypeOK
  <2>2. /\ GotoN(t, "gsub", obj[o].accounted)
        /\ filled' = [filled EXCEPT ![c] = @ - obj[o].accounted]
        /\ obj' = [obj EXCEPT ![o] = Released(@)]
        /\ Wake(o)
        /\ pieces' = [pieces EXCEPT ![c][p] = None]
    BY <1>2 DEF MarkNotComplete
  <2>3. Moved(t)
    BY ZenonT(40), <1>0, <2>1, <2>2, GotoNType DEF Moved, PCs
  <2> HIDE DEF o
  <2>4. /\ obj' \in [Obj -> MemPieceType] /\ \A x \in Obj \ {o} : obj'[x] = obj[x]
        /\ filled' \in [Cache -> Int]
        /\ pieces' \in [Cache -> [Idx -> Obj \cup {None}]]
    BY <1>0, <2>1, <2>2, MemPieceTypes DEF TypeOK
  <2>5. parkedOn' \in [Reader -> Obj \cup {None}]
    BY <2>2, WakeType
  <2> QED
    BY <2>1, <2>2, <2>3, <2>4, <2>5 DEF MarkNotComplete, StepOK, Moved, TypeOK, MemStep, Idle,
         memVars, cacheVars, fillVars, evictVars, diskVars, clientVars
<1> QED
  BY <1>1, <1>2

LEMMA MarkNotCompleteSub_Type ==
  ASSUME TypeOK, ThreadOK, NEW t \in Thread, MarkNotCompleteSub(t)
  PROVE  StepOK(t)
<1>1. Moved(t)
  BY FinishType DEF MarkNotCompleteSub, Moved, IdleThread
<1>2. th[t].c \in Cache /\ th[t].p \in Idx /\ th[t].n \in Int /\ NewClient \in ClientType
  BY ThreadTypes DEF MarkNotCompleteSub, ThreadOK, Consistent, TypeOK, ThreadType
<1>3. client' \in [Cache -> [Idx -> ClientType]] /\ globalFilled' \in Int
  BY <1>2 DEF MarkNotCompleteSub, TypeOK
<1> QED
  BY <1>1, <1>3 DEF MarkNotCompleteSub, StepOK, Moved, TypeOK, MemStep, Idle,
         memVars, cacheVars, fillVars, evictVars, diskVars, clientVars

LEMMA EvictCheck_Type ==
  ASSUME TypeOK, ThreadOK, NEW t \in Thread, EvictCheck(t)
  PROVE  StepOK(t)
<1>1. Consistent("evlock", th[t].op, th[t].c, th[t].o)
  BY DEF EvictCheck, ThreadOK, Consistent
<1>2. Moved(t)
  BY <1>1, GotoType, AfterEvictType DEF EvictCheck, Moved, PCs
<1> QED
  BY <1>2 DEF EvictCheck, StepOK, Moved, TypeOK, MemStep, Idle,
         memVars, cacheVars, fillVars, evictVars, diskVars, clientVars

LEMMA EvictLock_Type ==
  ASSUME TypeOK, ThreadOK, NEW t \in Thread, EvictLock(t)
  PROVE  StepOK(t)
<1>1. CASE globalFilled <= capacity
  <2>1. Moved(t)
    BY <1>1, AfterEvictType DEF EvictLock, Moved
  <2> QED
    BY <1>1, <2>1 DEF EvictLock, StepOK, Moved, TypeOK, MemStep, Idle,
         memVars, cacheVars, fillVars, evictVars, diskVars, clientVars
<1>2. CASE ~(globalFilled <= capacity)
  <2> DEFINE y == [th[t] EXCEPT !.pc = "evloop", !.cap = capacity, !.todo = caches]
  <2>1. th[t] \in ThreadType /\ capacity \in Nat /\ caches \in SUBSET Cache
    BY ConstantsAssumption DEF TypeOK
  <2>2. /\ y \in ThreadType /\ y.pc = "evloop"
        /\ y.op = th[t].op /\ y.c = th[t].c /\ y.o = th[t].o
    BY <2>1 DEF ThreadType, PCs
  <2>3. th' = [th EXCEPT ![t] = y] /\ th'[t] = y /\ \A u \in Thread \ {t} : th'[u] = th[u]
    BY <1>2 DEF EvictLock, TypeOK
  <2>4. Consistent("evloop", th[t].op, th[t].c, th[t].o)
    BY DEF EvictLock, ThreadOK, Consistent
  <2> HIDE DEF y
  <2>5. Moved(t)
    BY <2>2, <2>3, <2>4, SetThread DEF Moved
  <2> QED
    BY <1>2, <2>5 DEF EvictLock, StepOK, Moved, TypeOK, MemStep, Idle,
         memVars, cacheVars, fillVars, evictVars, diskVars, clientVars
<1> QED
  BY <1>1, <1>2

\* The candidates of a cache are pieces of that cache.
LEMMA CandidatesType ==
  ASSUME NEW c \in Cache
  PROVE  Candidates(c) \in SUBSET Cand
  BY DEF Candidates, Cand

LEMMA Collect_Type ==
  ASSUME TypeOK, ThreadOK, NEW t \in Thread, NEW c \in Cache, Collect(t, c)
  PROVE  StepOK(t)
<1> DEFINE y == [th[t] EXCEPT !.todo = @ \ {c}, !.cands = @ \cup Candidates(c)]
<1>1. th[t] \in ThreadType /\ Candidates(c) \in SUBSET Cand
  BY CandidatesType DEF TypeOK
<1>2. th[t].todo \ {c} \in SUBSET Cache /\ th[t].cands \cup Candidates(c) \in SUBSET Cand
  BY <1>1 DEF ThreadType
<1>3. /\ y \in ThreadType /\ y.pc = th[t].pc
      /\ y.op = th[t].op /\ y.c = th[t].c /\ y.o = th[t].o
  BY <1>1, <1>2 DEF ThreadType
<1>4. th' = [th EXCEPT ![t] = y] /\ th'[t] = y /\ \A u \in Thread \ {t} : th'[u] = th[u]
  BY DEF Collect, TypeOK
<1>5. Consistent(th[t].pc, th[t].op, th[t].c, th[t].o) /\ th[t].pc # "parked"
  BY DEF Collect, ThreadOK
<1> HIDE DEF y
<1>6. Moved(t)
  BY <1>3, <1>4, <1>5, SetThread DEF Moved
<1> QED
  BY <1>6 DEF Collect, StepOK, Moved, TypeOK, MemStep, Idle,
         memVars, cacheVars, fillVars, evictVars, diskVars, clientVars

LEMMA EvictDone_Type ==
  ASSUME TypeOK, ThreadOK, NEW t \in Thread, EvictDone(t)
  PROVE  StepOK(t)
<1>1. Moved(t)
  BY AfterEvictType DEF EvictDone, Moved
<1> QED
  BY <1>1 DEF EvictDone, StepOK, Moved, TypeOK, MemStep, Idle,
         memVars, cacheVars, fillVars, evictVars, diskVars, clientVars

LEMMA EvictPiece_Type ==
  ASSUME TypeOK, ThreadOK, NEW t \in Thread, NEW k \in th[t].cands, EvictPiece(t, k)
  PROVE  StepOK(t)
<1>0. /\ th[t] \in ThreadType /\ th[t].cands \ {k} \in SUBSET Cand
      /\ k.c \in Cache /\ k.p \in Idx /\ k.o \in Obj
      /\ Consistent("evsub", th[t].op, th[t].c, th[t].o)
      /\ Consistent("evloop", th[t].op, th[t].c, th[t].o)
  BY DEF EvictPiece, ThreadOK, Consistent, TypeOK, ThreadType, Cand
<1>1. CASE StillEvictable(k)
  <2> DEFINE n == obj[k.o].accounted
             y == [th[t] EXCEPT !.pc = "evsub", !.n = n, !.cands = @ \ {k}]
  <2>1. n \in Int /\ obj[k.o] \in MemPieceType
    BY <1>0, MemPieceTypes DEF TypeOK
  <2>2. /\ y \in ThreadType /\ y.pc = "evsub"
        /\ y.op = th[t].op /\ y.c = th[t].c /\ y.o = th[t].o
    BY <1>0, <2>1 DEF ThreadType, PCs
  <2>3. th' = [th EXCEPT ![t] = y] /\ th'[t] = y /\ \A u \in Thread \ {t} : th'[u] = th[u]
    BY <1>1 DEF EvictPiece, TypeOK
  <2> HIDE DEF y
  <2>4. Moved(t)
    BY <1>0, <2>2, <2>3, SetThread DEF Moved
  <2>5. /\ obj' = [obj EXCEPT ![k.o] = Released(@)] /\ Wake(k.o)
        /\ pieces' = [pieces EXCEPT ![k.c][k.p] = None]
        /\ filled' = [filled EXCEPT ![k.c] = @ - n]
        /\ SpawnUpdate(k.c, k.p)
    BY <1>1 DEF EvictPiece
  <2> HIDE DEF n
  <2>6. /\ obj' \in [Obj -> MemPieceType] /\ \A x \in Obj \ {k.o} : obj'[x] = obj[x]
        /\ pieces' \in [Cache -> [Idx -> Obj \cup {None}]]
        /\ filled' \in [Cache -> Int]
    BY <1>0, <2>1, <2>5, MemPieceTypes DEF TypeOK
  <2>7. updates' \in SUBSET (Cache \X Idx)
    BY <1>0, <2>5 DEF SpawnUpdate, TypeOK
  <2>8. parkedOn' \in [Reader -> Obj \cup {None}]
    BY <2>5, WakeType
  <2> QED
    BY <1>0, <2>4, <2>5, <2>6, <2>7, <2>8 DEF EvictPiece, StepOK, Moved, TypeOK, MemStep, Idle,
         memVars, cacheVars, fillVars, evictVars, diskVars, clientVars
<1>2. CASE ~StillEvictable(k)
  <2> DEFINE y == [th[t] EXCEPT !.cands = @ \ {k}]
  <2>1. /\ y \in ThreadType /\ y.pc = "evloop"
        /\ y.op = th[t].op /\ y.c = th[t].c /\ y.o = th[t].o
    BY <1>0 DEF ThreadType, EvictPiece
  <2>2. th' = [th EXCEPT ![t] = y] /\ th'[t] = y /\ \A u \in Thread \ {t} : th'[u] = th[u]
    BY <1>2 DEF EvictPiece, TypeOK
  <2> HIDE DEF y
  <2>3. Moved(t)
    BY <1>0, <2>1, <2>2, SetThread DEF Moved
  <2> QED
    BY <1>2, <2>3 DEF EvictPiece, StepOK, Moved, TypeOK, MemStep, Idle,
         memVars, cacheVars, fillVars, evictVars, diskVars, clientVars
<1> QED
  BY <1>1, <1>2

LEMMA EvictSub_Type ==
  ASSUME TypeOK, ThreadOK, NEW t \in Thread, EvictSub(t)
  PROVE  StepOK(t)
<1>1. Consistent("evloop", th[t].op, th[t].c, th[t].o)
  BY DEF EvictSub, ThreadOK, Consistent
<1>2. Moved(t)
  BY <1>1, GotoNType DEF EvictSub, Moved, PCs
<1>3. globalFilled' \in Int
  BY DEF EvictSub, TypeOK, ThreadType
<1> QED
  BY <1>2, <1>3 DEF EvictSub, StepOK, Moved, TypeOK, MemStep, Idle,
         memVars, cacheVars, fillVars, evictVars, diskVars, clientVars

LEMMA CloseBegin_Type ==
  ASSUME TypeOK, ThreadOK, NEW t \in Thread, CloseBegin(t)
  PROVE  StepOK(t)
<1>1. Consistent("closing", th[t].op, th[t].c, th[t].o)
  BY DEF CloseBegin, ThreadOK, Consistent
<1>2. Moved(t)
  BY <1>1, GotoType DEF CloseBegin, Moved, PCs
<1>3. th[t].c \in Cache
  BY DEF CloseBegin, ThreadOK, Consistent
<1> QED
  BY <1>2, <1>3 DEF CloseBegin, StepOK, Moved, TypeOK, MemStep, Idle,
         memVars, cacheVars, fillVars, evictVars, diskVars, clientVars

LEMMA CloseRelease_Type ==
  ASSUME TypeOK, ThreadOK, NEW t \in Thread, NEW p \in Idx, CloseRelease(t, p)
  PROVE  StepOK(t)
<1> DEFINE c == th[t].c
           o == pieces[c][p]
<1>0. c \in Cache /\ Consistent("closing", th[t].op, th[t].c, th[t].o)
  BY DEF CloseRelease, ThreadOK, Consistent
<1>1. o \in Obj /\ obj[o] \in MemPieceType /\ th[t].n + obj[o].accounted \in Int
  <2>1. o \in Obj /\ obj[o] \in MemPieceType
    BY <1>0 DEF CloseRelease, TypeOK
  <2>2. obj[o].accounted \in Int /\ th[t].n \in Int
    BY <2>1, MemPieceTypes DEF TypeOK, ThreadType
  <2> QED
    BY <2>1, <2>2
<1>2. /\ GotoN(t, "closing", th[t].n + obj[o].accounted)
      /\ obj' = [obj EXCEPT ![o] = Released(@)] /\ Wake(o)
      /\ pieces' = [pieces EXCEPT ![c][p] = None]
  BY DEF CloseRelease
<1>3. Moved(t)
  BY <1>0, <1>1, <1>2, GotoNType DEF Moved, PCs
<1> HIDE DEF o
<1>4. /\ obj' \in [Obj -> MemPieceType] /\ \A x \in Obj \ {o} : obj'[x] = obj[x]
      /\ pieces' \in [Cache -> [Idx -> Obj \cup {None}]]
  BY <1>0, <1>1, <1>2, MemPieceTypes DEF TypeOK
<1>5. parkedOn' \in [Reader -> Obj \cup {None}]
  BY <1>2, WakeType
<1> QED
  BY <1>1, <1>2, <1>3, <1>4, <1>5 DEF CloseRelease, StepOK, Moved, TypeOK, MemStep, Idle,
         memVars, cacheVars, fillVars, evictVars, diskVars, clientVars

LEMMA CloseEnd_Type ==
  ASSUME TypeOK, ThreadOK, NEW t \in Thread, CloseEnd(t)
  PROVE  StepOK(t)
<1>1. Consistent("closesub", th[t].op, th[t].c, th[t].o)
  BY DEF CloseEnd, ThreadOK, Consistent
<1>2. Moved(t)
  BY <1>1, GotoType DEF CloseEnd, Moved, PCs
<1>3. filled' \in [Cache -> Int] /\ lock' \in [Cache -> Thread \cup {None}]
  <2>1. /\ filled' = [filled EXCEPT ![th[t].c] = 0]
        /\ lock' = [lock EXCEPT ![th[t].c] = None]
    BY DEF CloseEnd
  <2>2. th[t].c \in Cache
    BY DEF CloseEnd, ThreadOK, Consistent
  <2>3. filled' \in [Cache -> Int]
    BY <2>1, <2>2 DEF TypeOK
  <2> QED
    BY <2>1, <2>2, <2>3 DEF TypeOK
<1> QED
  BY <1>2, <1>3 DEF CloseEnd, StepOK, Moved, TypeOK, MemStep, Idle,
         memVars, cacheVars, fillVars, evictVars, diskVars, clientVars

LEMMA CloseSub_Type ==
  ASSUME TypeOK, ThreadOK, NEW t \in Thread, CloseSub(t)
  PROVE  StepOK(t)
<1>1. Consistent("diskclose", th[t].op, th[t].c, th[t].o)
  BY DEF CloseSub, ThreadOK, Consistent
<1>2. Moved(t)
  BY <1>1, GotoNType DEF CloseSub, Moved, PCs
<1>3. globalFilled' \in Int
  BY DEF CloseSub, TypeOK, ThreadType
<1> QED
  BY <1>2, <1>3 DEF CloseSub, StepOK, Moved, TypeOK, MemStep, Idle,
         memVars, cacheVars, fillVars, evictVars, diskVars, clientVars

LEMMA DiskClose_Type ==
  ASSUME TypeOK, ThreadOK, NEW t \in Thread, DiskClose(t)
  PROVE  StepOK(t)
<1>1. th[t].op = "drop" => Consistent("unreg", th[t].op, th[t].c, th[t].o)
  BY DEF DiskClose, ThreadOK, Consistent
<1>2. Moved(t)
  BY <1>1, GotoType, FinishType DEF DiskClose, Moved, PCs, IdleThread
<1> QED
  BY <1>2 DEF DiskClose, StepOK, Moved, TypeOK, MemStep, Idle,
         memVars, cacheVars, fillVars, evictVars, diskVars, clientVars

LEMMA DeleteCache_Type ==
  ASSUME TypeOK, ThreadOK, NEW t \in Thread, DeleteCache(t)
  PROVE  StepOK(t)
<1>2. Moved(t)
  BY FinishType DEF DeleteCache, Moved, PCs, IdleThread
<1> QED
  BY <1>2 DEF DeleteCache, StepOK, Moved, TypeOK, MemStep, Idle,
         memVars, cacheVars, fillVars, evictVars, diskVars, clientVars

\* The client records a chunk, a hash in progress, or what Completion told it.
LEMMA SetClient ==
  ASSUME TypeOK, NEW c \in Cache, NEW p \in Idx, NEW m \in ClientType,
         client' = [client EXCEPT ![c][p] = m]
  PROVE  client' \in [Cache -> [Idx -> ClientType]]
  BY DEF TypeOK

LEMMA SetDirty ==
  ASSUME TypeOK, NEW c \in Cache, NEW p \in Idx, NEW b \in Block,
         client' = [client EXCEPT ![c][p].dirty = @ \cup {b}]
  PROVE  client' \in [Cache -> [Idx -> ClientType]]
<1>1. client[c][p] \in ClientType
  BY DEF TypeOK
<1> DEFINE m == [client[c][p] EXCEPT !.dirty = @ \cup {b}]
<1>2. m \in ClientType
  BY <1>1 DEF ClientType
<1>3. client' = [client EXCEPT ![c][p] = m]
  OBVIOUS
<1> HIDE DEF m
<1> QED
  BY <1>2, <1>3, SetClient

LEMMA SetHashing ==
  ASSUME TypeOK, NEW c \in Cache, NEW p \in Idx,
         client' = [client EXCEPT ![c][p].hashing = TRUE]
  PROVE  client' \in [Cache -> [Idx -> ClientType]]
<1>1. client[c][p] \in ClientType
  BY DEF TypeOK
<1> DEFINE m == [client[c][p] EXCEPT !.hashing = TRUE]
<1>2. m \in ClientType
  BY <1>1 DEF ClientType
<1>3. client' = [client EXCEPT ![c][p] = m]
  OBVIOUS
<1> HIDE DEF m
<1> QED
  BY <1>2, <1>3, SetClient

LEMMA SetHave ==
  ASSUME TypeOK, NEW c \in Cache, NEW p \in Idx, NEW v \in BOOLEAN,
         client' = [client EXCEPT ![c][p].have = v]
  PROVE  client' \in [Cache -> [Idx -> ClientType]]
<1>1. client[c][p] \in ClientType
  BY DEF TypeOK
<1> DEFINE m == [client[c][p] EXCEPT !.have = v]
<1>2. m \in ClientType
  BY <1>1 DEF ClientType
<1>3. client' = [client EXCEPT ![c][p] = m]
  OBVIOUS
<1> HIDE DEF m
<1> QED
  BY <1>2, <1>3, SetClient

LEMMA SetPos ==
  ASSUME TypeOK, NEW r \in Reader, NEW n \in Idx, reader' = [reader EXCEPT ![r].pos = n]
  PROVE  reader' \in [Reader -> ReaderType]
<1>1. reader[r] \in ReaderType
  BY DEF TypeOK
<1> DEFINE m == [reader[r] EXCEPT !.pos = n]
<1>2. m \in ReaderType
  BY <1>1 DEF ReaderType
<1>3. reader' = [reader EXCEPT ![r] = m]
  OBVIOUS
<1> HIDE DEF m
<1> QED
  BY <1>2, <1>3 DEF TypeOK

LEMMA BeginWrite_Type ==
  ASSUME TypeOK, ThreadOK, NEW t \in Thread, NEW c \in Cache, NEW p \in Idx, NEW b \in Block,
         BeginWrite(t, c, p, b)
  PROVE  StepOK(t)
<1>0. /\ t \in Thread /\ c \in Cache /\ p \in Idx /\ b \in Block
      /\ \A o \in Obj : Consistent("write", "write", c, o)
  BY ConstantsAssumption DEF BeginWrite, ThreadOK, Consistent, TypeOK, ThreadType, ReaderType, Thread, Block
<1>1. GetOrCreate(t, c, p, "write", "write", b)
  BY DEF BeginWrite
<1>2. /\ obj' \in [Obj -> MemPieceType]
      /\ pieces' \in [Cache -> [Idx -> Obj \cup {None}]]
      /\ Moved(t)
      /\ obj' = obj \/ \E o \in Obj : obj' = [obj EXCEPT ![o] = NewMemPiece]
  <2>1. "write" \in PCs /\ "write" \in OpNames \cup {"mark"} /\ "write" # "parked"
    BY DEF PCs, OpNames
  <2> QED
    BY <1>0, <1>1, <2>1, GetOrCreateType DEF Moved
<1>3. client' \in [Cache -> [Idx -> ClientType]]
  BY <1>0, SetDirty DEF BeginWrite
<1> QED
  BY <1>2, <1>3 DEF BeginWrite, StepOK, Moved, TypeOK, MemStep, Idle,
         memVars, cacheVars, fillVars, evictVars, diskVars, clientVars

LEMMA BeginRead_Type ==
  ASSUME TypeOK, ThreadOK, NEW t \in Thread, NEW c \in Cache, NEW p \in Idx,
         BeginRead(t, c, p)
  PROVE  StepOK(t)
<1>0. /\ t \in Thread /\ c \in Cache /\ p \in Idx /\ 1 \in Block
      /\ \A o \in Obj : Consistent("hydrate", "read", c, o)
  BY ConstantsAssumption DEF BeginRead, ThreadOK, Consistent, TypeOK, ThreadType, ReaderType, Thread, Block
<1>1. GetOrCreate(t, c, p, "hydrate", "read", 1)
  BY DEF BeginRead
<1>2. /\ obj' \in [Obj -> MemPieceType]
      /\ pieces' \in [Cache -> [Idx -> Obj \cup {None}]]
      /\ Moved(t)
      /\ obj' = obj \/ \E o \in Obj : obj' = [obj EXCEPT ![o] = NewMemPiece]
  <2>1. "hydrate" \in PCs /\ "read" \in OpNames \cup {"mark"} /\ "hydrate" # "parked"
    BY DEF PCs, OpNames
  <2> QED
    BY <1>0, <1>1, <2>1, GetOrCreateType DEF Moved
<1> QED
  BY <1>2 DEF BeginRead, StepOK, Moved, TypeOK, MemStep, Idle,
         memVars, cacheVars, fillVars, evictVars, diskVars, clientVars

LEMMA BeginHash_Type ==
  ASSUME TypeOK, ThreadOK, NEW t \in Thread, NEW c \in Cache, NEW p \in Idx,
         BeginHash(t, c, p)
  PROVE  StepOK(t)
<1>0. /\ t \in Thread /\ c \in Cache /\ p \in Idx /\ 1 \in Block
      /\ \A o \in Obj : Consistent("hydrate", "hash", c, o)
  BY ConstantsAssumption DEF BeginHash, ThreadOK, Consistent, TypeOK, ThreadType, ReaderType, Thread, Block
<1>1. GetOrCreate(t, c, p, "hydrate", "hash", 1)
  BY DEF BeginHash
<1>2. /\ obj' \in [Obj -> MemPieceType]
      /\ pieces' \in [Cache -> [Idx -> Obj \cup {None}]]
      /\ Moved(t)
      /\ obj' = obj \/ \E o \in Obj : obj' = [obj EXCEPT ![o] = NewMemPiece]
  <2>1. "hydrate" \in PCs /\ "hash" \in OpNames \cup {"mark"} /\ "hydrate" # "parked"
    BY DEF PCs, OpNames
  <2> QED
    BY <1>0, <1>1, <2>1, GetOrCreateType DEF Moved
<1>3. client' \in [Cache -> [Idx -> ClientType]]
  BY <1>0, SetHashing DEF BeginHash
<1> QED
  BY <1>2, <1>3 DEF BeginHash, StepOK, Moved, TypeOK, MemStep, Idle,
         memVars, cacheVars, fillVars, evictVars, diskVars, clientVars

LEMMA SetGlobalCapacity_Type ==
  ASSUME TypeOK, ThreadOK, NEW t \in Thread, NEW n \in Capacities, SetGlobalCapacity(t, n)
  PROVE  StepOK(t)
<1> DEFINE y == [th[t] EXCEPT !.pc = "evict", !.op = "resize"]
<1>1. th[t] \in ThreadType /\ th[t].c = None /\ th[t].o = None
  BY DEF SetGlobalCapacity, Idle, ThreadOK, Consistent, TypeOK
<1>2. /\ y \in ThreadType /\ y.pc = "evict" /\ y.op = "resize" /\ y.c = None /\ y.o = None
  BY <1>1 DEF ThreadType, PCs, OpNames
<1>3. th' = [th EXCEPT ![t] = y] /\ th'[t] = y /\ \A u \in Thread \ {t} : th'[u] = th[u]
  BY DEF SetGlobalCapacity, TypeOK
<1>4. Consistent("evict", "resize", None, None)
  BY DEF Consistent
<1> HIDE DEF y
<1>5. Moved(t)
  BY <1>2, <1>3, <1>4, SetThread DEF Moved
<1> QED
  BY <1>5 DEF SetGlobalCapacity, StepOK, Moved, TypeOK, MemStep, Idle,
         memVars, cacheVars, fillVars, evictVars, diskVars, clientVars

LEMMA BeginClose_Type ==
  ASSUME TypeOK, ThreadOK, NEW t \in Thread, NEW c \in Cache, BeginClose(t, c)
  PROVE  StepOK(t)
<1> DEFINE y == [th[t] EXCEPT !.pc = "close", !.op = "close", !.c = c]
<1>1. th[t] \in ThreadType /\ th[t].c = None /\ th[t].o = None
  BY DEF BeginClose, Idle, ThreadOK, Consistent, TypeOK
<1>2. /\ y \in ThreadType /\ y.pc = "close" /\ y.op = "close" /\ y.c = c /\ y.o = None
  BY <1>1 DEF ThreadType, PCs, OpNames
<1>3. th' = [th EXCEPT ![t] = y] /\ th'[t] = y /\ \A u \in Thread \ {t} : th'[u] = th[u]
  BY DEF BeginClose, TypeOK
<1>4. Consistent("close", "close", c, None)
  BY DEF Consistent
<1> HIDE DEF y
<1>5. Moved(t)
  BY <1>2, <1>3, <1>4, SetThread DEF Moved
<1> QED
  BY <1>5 DEF BeginClose, StepOK, Moved, TypeOK, MemStep, Idle,
         memVars, cacheVars, fillVars, evictVars, diskVars, clientVars

LEMMA BeginDrop_Type ==
  ASSUME TypeOK, ThreadOK, NEW t \in Thread, NEW c \in Cache, BeginDrop(t, c)
  PROVE  StepOK(t)
<1> DEFINE y == [th[t] EXCEPT !.pc = "close", !.op = "drop", !.c = c]
<1>1. th[t] \in ThreadType /\ th[t].c = None /\ th[t].o = None
  BY DEF BeginDrop, Idle, ThreadOK, Consistent, TypeOK
<1>2. /\ y \in ThreadType /\ y.pc = "close" /\ y.op = "drop" /\ y.c = c /\ y.o = None
  BY <1>1 DEF ThreadType, PCs, OpNames
<1>3. th' = [th EXCEPT ![t] = y] /\ th'[t] = y /\ \A u \in Thread \ {t} : th'[u] = th[u]
  BY DEF BeginDrop, TypeOK
<1>4. Consistent("close", "drop", c, None)
  BY DEF Consistent
<1> HIDE DEF y
<1>5. Moved(t)
  BY <1>2, <1>3, <1>4, SetThread DEF Moved
<1> QED
  BY <1>5 DEF BeginDrop, StepOK, Moved, TypeOK, MemStep, Idle,
         memVars, cacheVars, fillVars, evictVars, diskVars, clientVars

LEMMA BeginStream_Type ==
  ASSUME TypeOK, ThreadOK, ReaderOK, NEW r \in Thread, r \in Reader, NEW b \in Block,
         BeginStream(r, b)
  PROVE  StepOK(r)
<1>0. /\ r \in Thread /\ reader[r].c \in Cache /\ reader[r].pos \in Idx /\ b \in Block
      /\ \A o \in Obj : Consistent("hydrate", "reader", reader[r].c, o)
  BY DEF BeginStream, Consistent, TypeOK, ReaderType, ReaderOK, Thread
<1>1. GetOrCreate(r, reader[r].c, reader[r].pos, "hydrate", "reader", b)
  BY DEF BeginStream
<1>2. /\ obj' \in [Obj -> MemPieceType]
      /\ pieces' \in [Cache -> [Idx -> Obj \cup {None}]]
      /\ Moved(r)
      /\ obj' = obj \/ \E o \in Obj : obj' = [obj EXCEPT ![o] = NewMemPiece]
  <2>1. "hydrate" \in PCs /\ "reader" \in OpNames \cup {"mark"} /\ "hydrate" # "parked"
    BY DEF PCs, OpNames
  <2> QED
    BY <1>0, <1>1, <2>1, GetOrCreateType DEF Moved
<1> QED
  BY <1>2 DEF BeginStream, StepOK, Moved, TypeOK, MemStep, Idle,
         memVars, cacheVars, fillVars, evictVars, diskVars, clientVars

LEMMA Outer_Type ==
  ASSUME TypeOK, ThreadOK, NEW r \in Thread, r \in Reader, Outer(r)
  PROVE  StepOK(r)
<1>0. /\ r \in Thread /\ th[r].c \in Cache /\ th[r].p \in Idx /\ th[r].b \in Block
      /\ \A o \in Obj : Consistent("hydrate", "reader", th[r].c, o)
  BY ConstantsAssumption DEF Outer, ThreadOK, Consistent, TypeOK, ThreadType, ReaderType, Thread, Block
<1>1. GetOrCreate(r, th[r].c, th[r].p, "hydrate", "reader", th[r].b)
  BY DEF Outer
<1>2. /\ obj' \in [Obj -> MemPieceType]
      /\ pieces' \in [Cache -> [Idx -> Obj \cup {None}]]
      /\ Moved(r)
      /\ obj' = obj \/ \E o \in Obj : obj' = [obj EXCEPT ![o] = NewMemPiece]
  <2>1. "hydrate" \in PCs /\ "reader" \in OpNames \cup {"mark"} /\ "hydrate" # "parked"
    BY DEF PCs, OpNames
  <2> QED
    BY <1>0, <1>1, <2>1, GetOrCreateType DEF Moved
<1> QED
  BY <1>2 DEF Outer, StepOK, Moved, TypeOK, MemStep, Idle,
         memVars, cacheVars, fillVars, evictVars, diskVars, clientVars

LEMMA Refetch_Type ==
  ASSUME TypeOK, ThreadOK, NEW r \in Thread, r \in Reader, Refetch(r)
  PROVE  StepOK(r)
<1>0. /\ r \in Thread /\ th[r].c \in Cache /\ th[r].p \in Idx /\ th[r].b \in Block
      /\ \A o \in Obj : Consistent("waitrange", "reader", th[r].c, o)
  BY ConstantsAssumption DEF Refetch, ThreadOK, Consistent, TypeOK, ThreadType, ReaderType, Thread, Block
<1>1. GetOrCreate(r, th[r].c, th[r].p, "waitrange", "reader", th[r].b)
  BY DEF Refetch
<1>2. /\ obj' \in [Obj -> MemPieceType]
      /\ pieces' \in [Cache -> [Idx -> Obj \cup {None}]]
      /\ Moved(r)
      /\ obj' = obj \/ \E o \in Obj : obj' = [obj EXCEPT ![o] = NewMemPiece]
  <2>1. "waitrange" \in PCs /\ "reader" \in OpNames \cup {"mark"} /\ "waitrange" # "parked"
    BY DEF PCs, OpNames
  <2> QED
    BY <1>0, <1>1, <2>1, GetOrCreateType DEF Moved
<1> QED
  BY <1>2 DEF Refetch, StepOK, Moved, TypeOK, MemStep, Idle,
         memVars, cacheVars, fillVars, evictVars, diskVars, clientVars

LEMMA AccessStream_Type ==
  ASSUME TypeOK, ThreadOK, NEW r \in Thread, r \in Reader, AccessStream(r)
  PROVE  StepOK(r)
<1>0. r \in Thread /\ th[r].c \in Cache /\ th[r].p \in Idx
  BY DEF AccessStream, ThreadOK, Consistent, TypeOK, ThreadType, Thread
<1>1. Consistent("refetch", th[r].op, th[r].c, th[r].o)
  BY <1>0 DEF AccessStream, ThreadOK, Consistent
<1>2. Moved(r)
  <2>1. CASE reader[r].state # "open"
    BY <2>1, FinishType DEF AccessStream, Moved, IdleThread
  <2>2. CASE reader[r].state = "open"
    BY <1>1, <2>2, GotoType DEF AccessStream, Moved, PCs
  <2> QED
    BY <2>1, <2>2
<1>3. PieceComplete(th[r].c, th[r].p) \in BOOLEAN
  BY <1>0, CompleteIsBoolean
<1>4. client' \in [Cache -> [Idx -> ClientType]]
  BY <1>0, <1>3, SetHave DEF AccessStream, TypeOK
<1> QED
  BY <1>2, <1>4 DEF AccessStream, StepOK, Moved, TypeOK, MemStep, Idle,
         memVars, cacheVars, fillVars, evictVars, diskVars, clientVars

\* The one step after which a reader is parked.
LEMMA WaitRange_Type ==
  ASSUME TypeOK, ThreadOK, NEW r \in Thread, r \in Reader, WaitRange(r)
  PROVE  /\ TypeOK' /\ ThreadOK'
         /\ \A u \in Thread \ {r} : th'[u] = th[u]
         /\ th'[r].o = th[r].o /\ th'[r].b = th[r].b
         /\ th'[r].pc = (IF HasRange(obj[th[r].o], th[r].b) THEN "serve" ELSE "parked")
<1>0. /\ r \in Thread /\ th[r].o \in Obj
      /\ Consistent("serve", th[r].op, th[r].c, th[r].o)
      /\ Consistent("parked", th[r].op, th[r].c, th[r].o)
  BY DEF WaitRange, ThreadOK, Consistent, Thread
<1>1. Goto(r, IF HasRange(obj[th[r].o], th[r].b) THEN "serve" ELSE "parked")
  BY DEF WaitRange
<1>2. /\ th' \in [Thread -> ThreadType] /\ ThreadOK'
      /\ \A u \in Thread \ {r} : th'[u] = th[u]
      /\ th'[r].o = th[r].o /\ th'[r].b = th[r].b
      /\ th'[r].pc = (IF HasRange(obj[th[r].o], th[r].b) THEN "serve" ELSE "parked")
  BY <1>0, <1>1, GotoType DEF PCs
<1>3. parkedOn' \in [Reader -> Obj \cup {None}]
  BY <1>0 DEF WaitRange, TypeOK
<1> QED
  BY <1>2, <1>3 DEF WaitRange, Moved, TypeOK, MemStep, Idle,
         memVars, cacheVars, fillVars, evictVars, diskVars, clientVars

LEMMA Unpark_Type ==
  ASSUME TypeOK, ThreadOK, NEW r \in Thread, r \in Reader, Unpark(r)
  PROVE  TypeOK' /\ Moved(r)
<1>1. r \in Thread /\ Consistent("refetch", th[r].op, th[r].c, th[r].o)
  BY DEF Unpark, ThreadOK, Consistent, Thread
<1>2. Moved(r)
  BY SMTT(20), <1>1, GotoType, FinishType DEF Unpark, Moved, PCs, IdleThread
<1>3. parkedOn' \in [Reader -> Obj \cup {None}]
  BY DEF Unpark, TypeOK
<1> QED
  BY <1>2, <1>3 DEF Unpark, Moved, TypeOK, MemStep, Idle,
         memVars, cacheVars, fillVars, evictVars, diskVars, clientVars

LEMMA GiveUp_Type ==
  ASSUME TypeOK, ThreadOK, NEW r \in Thread, r \in Reader, GiveUp(r)
  PROVE  TypeOK' /\ Moved(r)
<1>1. r \in Thread
  BY DEF GiveUp, ThreadOK, Consistent, Thread
<1>2. Moved(r)
  BY <1>1, FinishType DEF GiveUp, Moved, PCs, IdleThread
<1>3. parkedOn' \in [Reader -> Obj \cup {None}]
  BY DEF GiveUp, TypeOK
<1> QED
  BY <1>2, <1>3 DEF GiveUp, Moved, TypeOK, MemStep, Idle,
         memVars, cacheVars, fillVars, evictVars, diskVars, clientVars

LEMMA Serve_Type ==
  ASSUME TypeOK, ThreadOK, NEW r \in Thread, r \in Reader, Serve(r)
  PROVE  StepOK(r)
<1>1. /\ r \in Thread /\ Consistent("outer", th[r].op, th[r].c, th[r].o)
  BY DEF Serve, ThreadOK, Consistent, Thread
<1>2. Moved(r)
  BY <1>1, GotoType, FinishType DEF Serve, Moved, PCs, IdleThread
<1> DEFINE next == IF th[r].b = NumBlocks /\ th[r].p < LastPiece THEN th[r].p + 1 ELSE th[r].p
<1>3. next \in Idx
  BY <1>1, ConstantsAssumption DEF TypeOK, ThreadType, Idx
<1>4. reader' \in [Reader -> ReaderType]
  <2>1. reader' = reader \/ reader' = [reader EXCEPT ![r].pos = next]
    BY DEF Serve
  <2> HIDE DEF next
  <2> QED
    BY <1>3, <2>1, SetPos DEF TypeOK
<1> QED
  BY <1>2, <1>4 DEF Serve, StepOK, Moved, TypeOK, MemStep, Idle,
         memVars, cacheVars, fillVars, evictVars, diskVars, clientVars

\* Steps of the environment, which leave the threads and the pieces alone.
EnvOK == TypeOK' /\ UNCHANGED <<th, obj, parkedOn>>

LEMMA OpenTorrent_Type ==
  ASSUME TypeOK, NEW c \in Cache, OpenTorrent(c)
  PROVE  EnvOK
<1>1. ASSUME NEW p \in Idx
      PROVE  [NewClient EXCEPT !.have = PieceComplete(c, p)] \in ClientType
  BY <1>1, CompleteIsBoolean DEF NewClient, ClientType
<1>2. client' \in [Cache -> [Idx -> ClientType]]
  BY <1>1 DEF OpenTorrent, TypeOK
<1> QED
  BY <1>2 DEF OpenTorrent, EnvOK, TypeOK, memVars, cacheVars, fillVars, evictVars, diskVars, clientVars

LEMMA UpdateCompletion_Type ==
  ASSUME TypeOK, NEW c \in Cache, NEW p \in Idx, UpdateCompletion(c, p)
  PROVE  EnvOK
<1>1. PieceComplete(c, p) \in BOOLEAN
  BY CompleteIsBoolean
<1>2. client' \in [Cache -> [Idx -> ClientType]]
  BY <1>1, SetHave DEF UpdateCompletion
<1> QED
  BY <1>2 DEF UpdateCompletion, EnvOK, TypeOK, memVars, cacheVars, fillVars, evictVars, diskVars, clientVars

LEMMA OpenReader_Type ==
  ASSUME TypeOK, NEW r \in Reader, NEW c \in Cache, OpenReader(r, c)
  PROVE  EnvOK
<1>1. [state |-> "open", c |-> c, pos |-> 0] \in ReaderType
  BY ConstantsAssumption DEF ReaderType, Idx
<1> QED
  BY <1>1 DEF OpenReader, EnvOK, TypeOK, memVars, cacheVars, fillVars, evictVars, diskVars, clientVars

LEMMA Seek_Type ==
  ASSUME TypeOK, NEW r \in Reader, NEW p \in Idx, Seek(r, p)
  PROVE  EnvOK
<1>1. reader' \in [Reader -> ReaderType]
  BY SetPos DEF Seek
<1> QED
  BY <1>1 DEF Seek, EnvOK, TypeOK, memVars, cacheVars, fillVars, evictVars, diskVars, clientVars

LEMMA CloseReader_Type ==
  ASSUME TypeOK, NEW r \in Reader, CloseReader(r)
  PROVE  EnvOK
<1> DEFINE m == [reader[r] EXCEPT !.state = "closing"]
<1>1. m \in ReaderType /\ reader' = [reader EXCEPT ![r] = m]
  BY DEF CloseReader, TypeOK, ReaderType
<1> HIDE DEF m
<1>2. reader' \in [Reader -> ReaderType]
  BY <1>1 DEF TypeOK
<1> QED
  BY <1>2 DEF CloseReader, EnvOK, TypeOK, memVars, cacheVars, fillVars, evictVars, diskVars, clientVars

LEMMA UnregisterReader_Type ==
  ASSUME TypeOK, NEW r \in Reader, UnregisterReader(r)
  PROVE  EnvOK
<1>1. reader' \in [Reader -> ReaderType]
  BY ThreadTypes DEF UnregisterReader, TypeOK
<1> QED
  BY <1>1 DEF UnregisterReader, EnvOK, TypeOK, memVars, cacheVars, fillVars, evictVars, diskVars, clientVars

-----------------------------------------------------------------------------
(* The step lemmas *)

TInv == TypeOK /\ ThreadOK /\ ReaderOK

LEMMA Step_Type ==
  ASSUME TInv, NEW t \in Thread, Step(t)
  PROVE  StepOK(t)
<1> USE DEF TInv
<1>1. CASE WriteAt(t) \/ UpdateFilled(t) \/ AddGlobalFilled(t)
  BY <1>1, WriteAt_Type, UpdateFilled_Type, AddGlobalFilled_Type
<1>2. CASE Hydrate(t) \/ LoadComplete(t) \/ AccessRead(t) \/ AccessHash(t)
  BY <1>2, Hydrate_Type, LoadComplete_Type, AccessRead_Type, AccessHash_Type
<1>3. CASE MarkGet(t) \/ MarkComplete(t) \/ Snapshot(t) \/ WritePiece(t) \/ HashReturn(t)
  BY <1>3, MarkGet_Type, MarkComplete_Type, Snapshot_Type, WritePiece_Type, HashReturn_Type
<1>4. CASE ClearDisk(t) \/ MarkNotComplete(t) \/ MarkNotCompleteSub(t)
  BY <1>4, ClearDisk_Type, MarkNotComplete_Type, MarkNotCompleteSub_Type
<1>5. CASE EvictCheck(t) \/ EvictLock(t) \/ EvictDone(t) \/ EvictSub(t)
  BY <1>5, EvictCheck_Type, EvictLock_Type, EvictDone_Type, EvictSub_Type
<1>6. CASE \E c \in Cache : Collect(t, c)
  BY <1>6, Collect_Type
<1>7. CASE \E k \in th[t].cands : EvictPiece(t, k)
  BY <1>7, EvictPiece_Type
<1>8. CASE CloseBegin(t) \/ CloseEnd(t) \/ CloseSub(t) \/ DiskClose(t) \/ DeleteCache(t)
  BY <1>8, CloseBegin_Type, CloseEnd_Type, CloseSub_Type, DiskClose_Type, DeleteCache_Type
<1>9. CASE \E p \in Idx : CloseRelease(t, p)
  BY <1>9, CloseRelease_Type
<1> QED
  BY <1>1, <1>2, <1>3, <1>4, <1>5, <1>6, <1>7, <1>8, <1>9 DEF Step

LEMMA Begin_Type ==
  ASSUME TInv, NEW t \in Thread, Begin(t)
  PROVE  StepOK(t)
<1> USE DEF TInv
<1>1. CASE \E c \in Cache, p \in Idx : BeginRead(t, c, p)
  BY <1>1, BeginRead_Type
<1>2. CASE \E c \in Cache, p \in Idx : BeginHash(t, c, p)
  BY <1>2, BeginHash_Type
<1>3. CASE \E c \in Cache, p \in Idx, b \in Block : BeginWrite(t, c, p, b)
  BY <1>3, BeginWrite_Type
<1>4. CASE \E n \in Capacities : SetGlobalCapacity(t, n)
  BY <1>4, SetGlobalCapacity_Type
<1>5. CASE \E c \in Cache : BeginClose(t, c) \/ BeginDrop(t, c)
  BY <1>5, BeginClose_Type, BeginDrop_Type
<1> QED
  BY <1>1, <1>2, <1>3, <1>4, <1>5 DEF Begin

\* The steps of a reader that leave the parked state, or enter it.
Parking(r) == WaitRange(r) \/ Unpark(r) \/ GiveUp(r)

\* Every step is a step of one thread that is not parked, a reader parking or waking up, or
\* a step of the environment.
LEMMA NextCases ==
  ASSUME TInv, Next
  PROVE  \/ \E t \in Thread : StepOK(t)
         \/ \E r \in Reader : Parking(r)
         \/ EnvOK
<1> USE DEF TInv
<1>0. Worker \subseteq Thread /\ Reader \subseteq Thread
  BY DEF Thread
<1>1. CASE \E c \in Cache : OpenTorrent(c)
  BY <1>1, OpenTorrent_Type
<1>2. CASE \E t \in Worker : Begin(t)
  BY <1>0, <1>2, Begin_Type
<1>3. CASE \E t \in Thread : Step(t)
  BY <1>3, Step_Type
<1>4. CASE \E c \in Cache, p \in Idx : UpdateCompletion(c, p)
  BY <1>4, UpdateCompletion_Type
<1>5. ASSUME NEW r \in Reader, ReaderStep(r) \/ GiveUp(r)
      PROVE  StepOK(r) \/ Parking(r)
  BY <1>0, <1>5, Outer_Type, AccessStream_Type, Refetch_Type, Serve_Type
     DEF ReaderStep, Parking
<1>6. ASSUME NEW r \in Reader, CloseReader(r) \/ UnregisterReader(r)
      PROVE  EnvOK
  BY <1>6, CloseReader_Type, UnregisterReader_Type
<1>7. ASSUME NEW r \in Reader, \E c \in Cache : OpenReader(r, c)
      PROVE  EnvOK
  BY <1>7, OpenReader_Type
<1>8. ASSUME NEW r \in Reader, \E p \in Idx : Seek(r, p)
      PROVE  EnvOK
  BY <1>8, Seek_Type
<1>9. ASSUME NEW r \in Reader, \E b \in Block : BeginStream(r, b)
      PROVE  StepOK(r)
  BY <1>0, <1>9, BeginStream_Type
<1> QED
  BY <1>0, <1>1, <1>2, <1>3, <1>4, <1>5, <1>6, <1>7, <1>8, <1>9 DEF Next

\* A reader's cache only changes when it is opened or unregistered.
LEMMA ReaderOK_Step ==
  ASSUME TInv, [Next]_vars
  PROVE  ReaderOK'
<1> USE DEF TInv
<1>1. CASE UNCHANGED reader
  BY <1>1 DEF ReaderOK
<1>2. ASSUME NEW r \in Reader, NEW c \in Cache, OpenReader(r, c)
      PROVE  ReaderOK'
  BY <1>2 DEF OpenReader, ReaderOK, TypeOK
<1>3. ASSUME NEW r \in Reader,
             reader[r].state # "none",
             \/ reader' = [reader EXCEPT ![r] = NoReader]
             \/ \E p \in Idx : reader' = [reader EXCEPT ![r].pos = p]
             \/ reader' = [reader EXCEPT ![r].state = "closing"]
      PROVE  ReaderOK'
  <2>1. ASSUME NEW q \in Reader, reader'[q].state # "none"
        PROVE  reader'[q].c \in Cache
    <3>1. reader \in [Reader -> ReaderType] /\ reader[r].c \in Cache
      BY <1>3 DEF TypeOK, ReaderOK
    <3>2. CASE q # r
      <4>1. reader'[q] = reader[q]
        BY <1>3, <3>1, <3>2
      <4> QED
        BY <2>1, <4>1 DEF ReaderOK
    <3>3. CASE q = r
      <4>1. CASE reader' = [reader EXCEPT ![r] = NoReader]
        BY <2>1, <3>1, <3>3, <4>1 DEF NoReader
      <4>2. CASE \E p \in Idx : reader' = [reader EXCEPT ![r].pos = p]
        BY <3>1, <3>3, <4>2 DEF ReaderType
      <4>3. CASE reader' = [reader EXCEPT ![r].state = "closing"]
        BY <3>1, <3>3, <4>3 DEF ReaderType
      <4> QED
        BY <1>3, <4>1, <4>2, <4>3
    <3> QED
      BY <3>2, <3>3
  <2> QED
    BY <2>1 DEF ReaderOK
<1>4. ASSUME NEW r \in Reader, Serve(r)
      PROVE  ReaderOK'
  <2> DEFINE next == IF th[r].b = NumBlocks /\ th[r].p < LastPiece THEN th[r].p + 1 ELSE th[r].p
  <2>1. next \in Idx
    BY ConstantsAssumption DEF TypeOK, ThreadType, Idx, Thread
  <2>2. \/ UNCHANGED reader
        \/ reader[r].state # "none" /\ reader' = [reader EXCEPT ![r].pos = next]
    BY <1>4 DEF Serve
  <2> HIDE DEF next
  <2> QED
    BY <1>1, <1>3, <2>1, <2>2
<1>5. ASSUME NEW r \in Reader,
             CloseReader(r) \/ UnregisterReader(r) \/ \E p \in Idx : Seek(r, p)
      PROVE  ReaderOK'
  BY <1>3, <1>5 DEF CloseReader, UnregisterReader, Seek
<1>6. ASSUME NEW t \in Thread, Step(t)
      PROVE  UNCHANGED reader
  BY <1>6 DEF Step, WriteAt, UpdateFilled, AddGlobalFilled, Hydrate, LoadComplete, AccessRead,
     AccessHash, MarkGet, MarkComplete, Snapshot, WritePiece, HashReturn, ClearDisk,
     MarkNotComplete, MarkNotCompleteSub, EvictCheck, EvictLock, EvictDone, EvictSub, Collect,
     EvictPiece, CloseBegin, CloseEnd, CloseSub, DiskClose, DeleteCache, CloseRelease
<1>7. ASSUME NEW t \in Worker, Begin(t)
      PROVE  UNCHANGED reader
  BY <1>7 DEF Begin, BeginRead, BeginHash, BeginWrite, SetGlobalCapacity, BeginClose, BeginDrop
<1>8. ASSUME NEW r \in Reader, ReaderStep(r) \/ GiveUp(r) \/ \E b \in Block : BeginStream(r, b)
      PROVE  Serve(r) \/ UNCHANGED reader
  BY <1>8 DEF ReaderStep, Outer, AccessStream, Refetch, WaitRange, Unpark, GiveUp, BeginStream
<1> QED
  BY <1>1, <1>2, <1>4, <1>5, <1>6, <1>7, <1>8 DEF Next, vars, OpenTorrent, UpdateCompletion

LEMMA TInv_Init == Init => TInv
<1> SUFFICES ASSUME Init PROVE TInv
  OBVIOUS
<1>1. 0 \in Idx
  BY ConstantsAssumption DEF Idx
<1>2. NewMemPiece \in MemPieceType
  BY DEF NewMemPiece, MemPieceType
<1>3. TypeOK
  BY <1>2, ThreadTypes DEF Init, TypeOK
<1>4. ThreadOK
  <2>1. ASSUME NEW t \in Thread PROVE th[t] = IdleThread
    BY DEF Init
  <2> QED
    BY <2>1 DEF ThreadOK, Consistent, IdleThread
<1>5. ReaderOK
  BY DEF Init, ReaderOK, NoReader
<1> QED
  BY <1>3, <1>4, <1>5 DEF TInv

LEMMA TInv_Step == TInv /\ [Next]_vars => TInv'
<1> SUFFICES ASSUME TInv, [Next]_vars PROVE TInv'
  OBVIOUS
<1>0. ReaderOK'
  BY ReaderOK_Step
<1>1. CASE UNCHANGED vars
  BY <1>0, <1>1 DEF TInv, TypeOK, ThreadOK, vars
<1>2. CASE \E t \in Thread : StepOK(t)
  BY <1>0, <1>2 DEF StepOK, Moved, TInv
<1>3. ASSUME NEW r \in Reader, Parking(r)
      PROVE  TypeOK' /\ ThreadOK'
  <2>1. r \in Thread /\ TypeOK /\ ThreadOK
    BY DEF Thread, TInv
  <2>2. CASE WaitRange(r)
    BY <2>1, <2>2, WaitRange_Type
  <2>3. CASE Unpark(r) \/ GiveUp(r)
    BY <2>1, <2>3, Unpark_Type, GiveUp_Type DEF Moved
  <2> QED
    BY <1>3, <2>2, <2>3 DEF Parking
<1>4. CASE EnvOK
  BY <1>0, <1>4 DEF EnvOK, TInv, ThreadOK
<1> QED
  BY <1>0, <1>1, <1>2, <1>3, <1>4, NextCases DEF TInv

\* Every variable keeps its type, and every goroutine holds a piece (or at least names a
\* cache) exactly where the code has one in a local variable: no step of the cache, of the
\* eviction pass, of teardown or of a reader dereferences a missing piece.
THEOREM TypeCorrect == Spec => [](TypeOK /\ ThreadOK)
<1>1. TInv => TypeOK /\ ThreadOK
  BY DEF TInv
<1> QED
  BY <1>1, TInv_Init, TInv_Step, PTL DEF Spec

-----------------------------------------------------------------------------
(* A closed cache stays empty *)

\* A step that puts nothing into a closed cache, and neither closes nor unlocks one.
Calm ==
  /\ closed' = closed /\ lock' = lock
  /\ \A c \in closed : /\ filled'[c] = filled[c]
                       /\ \A p \in Idx : pieces'[c][p] \in {pieces[c][p], None}

LEMMA CalmKeeps == NoResurrection /\ Calm => NoResurrection'
<1> SUFFICES ASSUME NoResurrection, Calm,
                    NEW c \in closed', lock'[c] = None
             PROVE  filled'[c] = 0 /\ \A p \in Idx : pieces'[c][p] = None
  BY DEF NoResurrection
<1>1. c \in closed /\ lock[c] = None
  BY DEF Calm
<1> QED
  BY <1>1 DEF Calm, NoResurrection

\* GetOrCreateMemPiece hands out a detached piece of a closed cache.
LEMMA GetOrCreateCalm ==
  ASSUME TypeOK, NEW t, NEW c \in Cache, NEW p \in Idx, NEW pc, NEW op, NEW b,
         GetOrCreate(t, c, p, pc, op, b), UNCHANGED <<closed, lock, filled>>
  PROVE  Calm
<1> DEFINE o == IF c \in closed \/ pieces[c][p] = None THEN Fresh ELSE pieces[c][p]
<1>1. pieces' = IF c \in closed THEN pieces ELSE [pieces EXCEPT ![c][p] = o]
  BY DEF GetOrCreate
<1> HIDE DEF o
<1> QED
  BY <1>1 DEF Calm, TypeOK

LEMMA StepCalm ==
  ASSUME TInv, NEW t \in Thread, Step(t)
  PROVE  Calm \/ CloseBegin(t) \/ CloseEnd(t)
<1> USE DEF TInv
<1>1. CASE \/ WriteAt(t) \/ AddGlobalFilled(t) \/ Hydrate(t) \/ LoadComplete(t)
           \/ AccessRead(t) \/ AccessHash(t) \/ MarkComplete(t) \/ Snapshot(t)
           \/ WritePiece(t) \/ HashReturn(t) \/ ClearDisk(t) \/ MarkNotCompleteSub(t)
           \/ EvictCheck(t) \/ EvictLock(t) \/ EvictDone(t) \/ EvictSub(t)
           \/ (\E c \in Cache : Collect(t, c))
           \/ CloseSub(t) \/ DiskClose(t) \/ DeleteCache(t)
  <2>1. UNCHANGED <<closed, lock, filled, pieces>>
    BY <1>1 DEF WriteAt, AddGlobalFilled, Hydrate, LoadComplete, AccessRead, AccessHash,
       MarkComplete, Snapshot, WritePiece, HashReturn, ClearDisk, MarkNotCompleteSub,
       EvictCheck, EvictLock, EvictDone, EvictSub, Collect, CloseSub, DiskClose, DeleteCache,
       memVars, cacheVars, fillVars
  <2> QED
    BY <2>1 DEF Calm
<1>2. CASE UpdateFilled(t)
  BY <1>2 DEF UpdateFilled, Calm, TypeOK, memVars, cacheVars, fillVars
<1>3. CASE MarkGet(t)
  <2>1. th[t].c \in Cache /\ th[t].p \in Idx
    BY <1>3 DEF MarkGet, ThreadOK, Consistent, TypeOK, ThreadType
  <2> QED
    BY <1>3, <2>1, GetOrCreateCalm DEF MarkGet, memVars, cacheVars, fillVars
<1>4. CASE MarkNotComplete(t)
  <2>1. th[t].c \in Cache /\ th[t].p \in Idx
    BY <1>4 DEF MarkNotComplete, ThreadOK, Consistent, TypeOK, ThreadType
  <2>2. /\ closed' = closed /\ lock' = lock
        /\ \/ filled' = filled /\ pieces' = pieces
           \/ /\ th[t].c \notin closed
              /\ \E n : filled' = [filled EXCEPT ![th[t].c] = n]
              /\ pieces' = [pieces EXCEPT ![th[t].c][th[t].p] = None]
    BY <1>4 DEF MarkNotComplete, memVars, cacheVars, fillVars
  <2> QED
    BY <2>1, <2>2 DEF Calm, TypeOK
<1>5. CASE \E k \in th[t].cands : EvictPiece(t, k)
  <2>1. PICK k \in th[t].cands : EvictPiece(t, k)
    BY <1>5
  <2>2. k.c \in Cache /\ k.p \in Idx
    BY DEF TypeOK, ThreadType, Cand
  <2>3. /\ closed' = closed /\ lock' = lock
        /\ \/ filled' = filled /\ pieces' = pieces
           \/ /\ k.c \notin closed
              /\ \E n : filled' = [filled EXCEPT ![k.c] = n]
              /\ pieces' = [pieces EXCEPT ![k.c][k.p] = None]
    BY <2>1 DEF EvictPiece, StillEvictable, memVars, cacheVars, fillVars
  <2> QED
    BY <2>2, <2>3 DEF Calm, TypeOK
<1>6. CASE \E p \in Idx : CloseRelease(t, p)
  <2>1. PICK p \in Idx : CloseRelease(t, p)
    BY <1>6
  <2>2. /\ closed' = closed /\ lock' = lock /\ filled' = filled
        /\ pieces' = [pieces EXCEPT ![th[t].c][p] = None]
    BY <2>1 DEF CloseRelease, memVars, cacheVars, fillVars
  <2>3. th[t].c \in Cache
    BY <2>1 DEF CloseRelease, ThreadOK, Consistent
  <2> QED
    BY <2>2, <2>3 DEF Calm, TypeOK
<1> QED
  BY <1>1, <1>2, <1>3, <1>4, <1>5, <1>6 DEF Step

LEMMA BeginCalm ==
  ASSUME TInv, NEW t \in Thread, Begin(t)
  PROVE  Calm
<1> USE DEF TInv
<1>1. ASSUME NEW c \in Cache, NEW p \in Idx,
             \/ BeginRead(t, c, p) \/ BeginHash(t, c, p)
             \/ \E b \in Block : BeginWrite(t, c, p, b)
      PROVE  Calm
  BY <1>1, GetOrCreateCalm DEF BeginRead, BeginHash, BeginWrite, memVars, cacheVars, fillVars
<1>2. CASE \/ \E n \in Capacities : SetGlobalCapacity(t, n)
           \/ \E c \in Cache : BeginClose(t, c) \/ BeginDrop(t, c)
  BY <1>2 DEF SetGlobalCapacity, BeginClose, BeginDrop, Calm, memVars, cacheVars, fillVars
<1> QED
  BY <1>1, <1>2 DEF Begin

LEMMA ReaderCalm ==
  ASSUME TInv, NEW r \in Reader,
         \/ ReaderStep(r) \/ GiveUp(r) \/ CloseReader(r) \/ UnregisterReader(r)
         \/ \E c \in Cache : OpenReader(r, c)
         \/ \E p \in Idx : Seek(r, p)
         \/ \E b \in Block : BeginStream(r, b)
  PROVE  Calm
<1> USE DEF TInv
<1>0. r \in Thread
  BY DEF Thread
<1>1. CASE Outer(r) \/ Refetch(r)
  <2>1. th[r].c \in Cache /\ th[r].p \in Idx
    BY <1>0, <1>1 DEF Outer, Refetch, ThreadOK, Consistent, TypeOK, ThreadType
  <2> QED
    BY <1>1, <2>1, GetOrCreateCalm DEF Outer, Refetch, memVars, cacheVars, fillVars
<1>2. CASE \E b \in Block : BeginStream(r, b)
  <2>1. PICK b \in Block : BeginStream(r, b)
    BY <1>2
  <2>2. reader[r].c \in Cache /\ reader[r].pos \in Idx
    BY <2>1 DEF BeginStream, ReaderOK, TypeOK, ReaderType
  <2> QED
    BY <2>1, <2>2, GetOrCreateCalm DEF BeginStream, memVars, cacheVars, fillVars
<1>3. CASE \/ AccessStream(r) \/ WaitRange(r) \/ Unpark(r) \/ Serve(r) \/ GiveUp(r)
           \/ CloseReader(r) \/ UnregisterReader(r)
           \/ (\E c \in Cache : OpenReader(r, c)) \/ (\E p \in Idx : Seek(r, p))
  BY <1>3 DEF AccessStream, WaitRange, Unpark, Serve, GiveUp, CloseReader, UnregisterReader,
     OpenReader, Seek, Calm, memVars, cacheVars, fillVars
<1> QED
  BY <1>1, <1>2, <1>3 DEF ReaderStep

LEMMA NoResurrection_Step ==
  ASSUME TInv, NoResurrection, [Next]_vars
  PROVE  NoResurrection'
<1>1. ASSUME NEW t \in Thread, CloseBegin(t)
      PROVE  NoResurrection'
  <2>1. th[t].c \in Cache
    BY <1>1 DEF CloseBegin, TInv, ThreadOK, Consistent
  <2>2. /\ closed' = closed \cup {th[t].c} /\ lock' = [lock EXCEPT ![th[t].c] = t]
        /\ UNCHANGED <<filled, pieces>>
    BY <1>1 DEF CloseBegin, memVars, cacheVars, fillVars
  <2>3. lock'[th[t].c] = t /\ \A c \in Cache \ {th[t].c} : lock'[c] = lock[c]
    BY <2>1, <2>2 DEF TInv, TypeOK
  <2>4. t # None /\ closed' \subseteq Cache
    BY <2>1, <2>2, ConstantsAssumption DEF TInv, TypeOK
  <2> QED
    BY <2>2, <2>3, <2>4 DEF NoResurrection
<1>2. ASSUME NEW t \in Thread, CloseEnd(t)
      PROVE  NoResurrection'
  <2>1. th[t].c \in Cache
    BY <1>2 DEF CloseEnd, TInv, ThreadOK, Consistent
  <2>2. /\ closed' = closed /\ pieces' = pieces
        /\ filled' = [filled EXCEPT ![th[t].c] = 0]
        /\ lock' = [lock EXCEPT ![th[t].c] = None]
        /\ \A p \in Idx : pieces[th[t].c][p] = None
    BY <1>2 DEF CloseEnd, memVars, cacheVars, fillVars
  <2>3. /\ filled'[th[t].c] = 0
        /\ \A c \in Cache \ {th[t].c} : filled'[c] = filled[c] /\ lock'[c] = lock[c]
        /\ closed \subseteq Cache
    BY <2>1, <2>2 DEF TInv, TypeOK
  <2> QED
    BY <2>2, <2>3 DEF NoResurrection
<1>3. CASE UNCHANGED vars
  BY <1>3 DEF vars, NoResurrection
<1>4. CASE \/ \E c \in Cache : OpenTorrent(c)
           \/ \E c \in Cache, p \in Idx : UpdateCompletion(c, p)
  <2>1. Calm
    BY <1>4 DEF OpenTorrent, UpdateCompletion, Calm, memVars, cacheVars, fillVars
  <2> QED
    BY <2>1, CalmKeeps
<1>5. ASSUME NEW t \in Worker, Begin(t)
      PROVE  NoResurrection'
  BY <1>5, BeginCalm, CalmKeeps DEF Thread
<1>6. ASSUME NEW t \in Thread, Step(t)
      PROVE  NoResurrection'
  BY <1>1, <1>2, <1>6, StepCalm, CalmKeeps
<1> QED
  BY <1>3, <1>4, <1>5, <1>6, ReaderCalm, CalmKeeps DEF Next

\* A torn-down cache stays empty for ever, whatever the goroutines that still hold its pieces
\* do (Cache.Close against GetOrCreateMemPiece, UpdateFilled, MarkNotComplete, evictPiece).
THEOREM ClosedStaysEmpty == Spec => []NoResurrection
<1>1. Init => NoResurrection
  BY DEF Init, NoResurrection
<1>2. TInv /\ NoResurrection /\ [Next]_vars => NoResurrection'
  BY NoResurrection_Step
<1> QED
  BY <1>1, <1>2, TInv_Init, TInv_Step, PTL DEF Spec

-----------------------------------------------------------------------------
(* No wakeup is lost *)

\* A reader whose channel is still open sits in the select, on the piece it fetched, and that
\* piece lacks its range: whoever adds the range closes the channel in the same critical
\* section.
ParkedOK ==
  \A r \in Reader : parkedOn[r] # None =>
    /\ th[r].pc = "parked" /\ parkedOn[r] = th[r].o
    /\ ~HasRange(obj[th[r].o], th[r].b)

LEMMA ParkedOK_Step ==
  ASSUME TInv, ParkedOK, [Next]_vars
  PROVE  ParkedOK'
<1> USE DEF TInv
<1>0. Reader \subseteq Thread
  BY DEF Thread
<1>1. ASSUME NEW t \in Thread, StepOK(t)
      PROVE  ParkedOK'
  <2> SUFFICES ASSUME NEW r \in Reader, parkedOn'[r] # None
               PROVE  /\ th'[r].pc = "parked" /\ parkedOn'[r] = th'[r].o
                      /\ ~HasRange(obj'[th'[r].o], th'[r].b)
    BY DEF ParkedOK
  <2>1. parkedOn'[r] = parkedOn[r]
    BY <1>1 DEF StepOK, MemStep, Wake
  <2>2. /\ th[r].pc = "parked" /\ parkedOn[r] = th[r].o
        /\ ~HasRange(obj[th[r].o], th[r].b)
    BY <2>1 DEF ParkedOK
  <2>3. r \in Thread /\ r # t /\ th'[r] = th[r]
    BY <1>0, <1>1, <2>2 DEF StepOK, Moved
  <2>4. th[r].o \in Obj
    BY <2>2, <2>3 DEF ThreadOK, Consistent
  <2>5. ~HasRange(obj'[th[r].o], th[r].b)
    <3>1. CASE UNCHANGED obj
      BY <2>2, <3>1
    <3>2. CASE \E o \in Obj : Wake(o) /\ \A x \in Obj \ {o} : obj'[x] = obj[x]
      <4>1. PICK o \in Obj : Wake(o) /\ \A x \in Obj \ {o} : obj'[x] = obj[x]
        BY <3>2
      <4>2. th[r].o # o
        <5>1. parkedOn' = [q \in Reader |-> IF parkedOn[q] = o THEN None ELSE parkedOn[q]]
          BY <4>1 DEF Wake
        <5> QED
          BY <2>1, <2>2, <5>1
      <4> QED
        BY <2>2, <2>4, <4>1, <4>2
    <3>3. CASE \E o \in Obj : obj' = [obj EXCEPT ![o] = NewMemPiece]
      <4>1. PICK o \in Obj : obj' = [obj EXCEPT ![o] = NewMemPiece]
        BY <3>3
      <4>2. CASE th[r].o = o
        <5>1. obj'[o] = NewMemPiece
          BY <4>1 DEF TypeOK
        <5> QED
          BY <4>2, <5>1 DEF HasRange, NewMemPiece
      <4>3. CASE th[r].o # o
        BY <2>2, <2>4, <4>1, <4>3 DEF TypeOK
      <4> QED
        BY <4>2, <4>3
    <3> QED
      BY <1>1, <3>1, <3>2, <3>3 DEF StepOK, MemStep
  <2> QED
    BY <2>1, <2>2, <2>3, <2>5
<1>2. ASSUME NEW q \in Reader, WaitRange(q)
      PROVE  ParkedOK'
  <2>1. /\ \A u \in Thread \ {q} : th'[u] = th[u]
        /\ th'[q].o = th[q].o /\ th'[q].b = th[q].b
        /\ th'[q].pc = (IF HasRange(obj[th[q].o], th[q].b) THEN "serve" ELSE "parked")
    BY <1>0, <1>2, WaitRange_Type
  <2>2. /\ obj' = obj /\ th[q].pc = "waitrange"
        /\ IF HasRange(obj[th[q].o], th[q].b) THEN parkedOn' = parkedOn
           ELSE parkedOn' = [parkedOn EXCEPT ![q] = th[q].o]
    BY <1>2 DEF WaitRange
  <2>3. parkedOn[q] = None
    BY <2>2 DEF ParkedOK
  <2>4. ASSUME NEW r \in Reader, parkedOn'[r] # None
        PROVE  /\ th'[r].pc = "parked" /\ parkedOn'[r] = th'[r].o
               /\ ~HasRange(obj'[th'[r].o], th'[r].b)
    <3>1. CASE r = q
      BY <2>1, <2>2, <2>3, <2>4, <3>1 DEF TypeOK
    <3>2. CASE r # q
      <4>1. parkedOn'[r] = parkedOn[r] /\ th'[r] = th[r]
        BY <1>0, <2>1, <2>2, <3>2 DEF TypeOK
      <4> QED
        BY <2>2, <2>4, <4>1 DEF ParkedOK
    <3> QED
      BY <3>1, <3>2
  <2> QED
    BY <2>4 DEF ParkedOK
<1>3. ASSUME NEW q \in Reader, Unpark(q) \/ GiveUp(q)
      PROVE  ParkedOK'
  <2>1. Moved(q)
    BY <1>0, <1>3, Unpark_Type, GiveUp_Type
  <2>2. obj' = obj /\ parkedOn' = [parkedOn EXCEPT ![q] = None]
    BY <1>3 DEF Unpark, GiveUp
  <2>3. ASSUME NEW r \in Reader, parkedOn'[r] # None
        PROVE  parkedOn'[r] = parkedOn[r] /\ th'[r] = th[r]
    BY <1>0, <2>1, <2>2, <2>3 DEF TypeOK, Moved
  <2> QED
    BY <2>2, <2>3 DEF ParkedOK
<1>4. CASE EnvOK
  BY <1>4 DEF EnvOK, ParkedOK
<1>5. CASE UNCHANGED vars
  BY <1>5 DEF vars, ParkedOK
<1> QED
  BY <1>1, <1>2, <1>3, <1>4, <1>5, NextCases DEF Parking

\* No wakeup is lost: a reader asleep on a piece waits for a range that piece does not have
\* (MemPiece.WaitRange against WriteAt, MarkComplete, LoadComplete and ReleaseAndSize).
THEOREM NoWakeupLost == Spec => []NoLostWakeup
<1>1. Init => ParkedOK
  BY DEF Init, ParkedOK
<1>2. TInv /\ ParkedOK /\ [Next]_vars => ParkedOK'
  BY ParkedOK_Step
<1>3. ParkedOK => NoLostWakeup
  BY DEF ParkedOK, NoLostWakeup, Asleep, Awake
<1> QED
  BY <1>1, <1>2, <1>3, TInv_Init, TInv_Step, PTL DEF Spec

-----------------------------------------------------------------------------
(* What is served has been received, and what is on disk is kept *)

\* Nobody works on a cache that has not been opened, and one being released has been closed.
OpenOK ==
  /\ \A t \in Thread : /\ th[t].c # None => Started(th[t].c)
                       /\ th[t].pc \in {"closing", "closesub", "diskclose", "unreg"} => th[t].c \in closed
  /\ \A r \in Reader : reader[r].state # "none" => Started(reader[r].c)
  /\ \A c \in torrentSet : Started(c)
  /\ \A u \in updates : Started(u[1])

\* An object stands for one piece of one cache, in the map and in every local variable.
OwnOK ==
  /\ \A t, u \in Thread : th[t].o # None /\ th[t].o = th[u].o => th[t].c = th[u].c /\ th[t].p = th[u].p
  /\ \A t \in Thread, c \in Cache, p \in Idx :
       th[t].o # None /\ th[t].o = pieces[c][p] => th[t].c = c /\ th[t].p = p
  /\ \A c, d \in Cache, p, q \in Idx :
       pieces[c][p] # None /\ pieces[c][p] = pieces[d][q] => c = d /\ p = q

\* A marked block has arrived, and a complete piece with a buffer has all of them.
ReceivedOK(m) ==
  /\ m.written \subseteq m.bytes
  /\ m.complete /\ m.data => m.bytes = Block
  /\ m.bytes # {} => m.data

\* The piece is complete neither in the map nor on disk.
Incomplete(c, p) ==
  /\ ~(c \in DiskCaches /\ p \in have[c])
  /\ pieces[c][p] # None => ~obj[pieces[c][p]].complete

\* The thread's piece is still the one in the map, unless the cache has been closed.
Current(t) == th[t].c \notin closed => pieces[th[t].c][th[t].p] = th[t].o

\* A write goes to an incomplete piece that is not being hashed.
WritingOK(t) ==
  th[t].op = "write" =>
    /\ ~client[th[t].c][th[t].p].hashing
    /\ Incomplete(th[t].c, th[t].p) /\ ~obj[th[t].o].complete
    /\ Current(t)

\* A hash reads an incomplete piece, which stays in the map until the hash has failed; ...
HashingOK(t) ==
  th[t].op = "hash" =>
    /\ client[th[t].c][th[t].p].hashing
    /\ Incomplete(th[t].c, th[t].p)
    /\ th[t].pc \in {"hydrate", "access", "mark", "clear", "release", "gsub"}
    /\ th[t].pc # "gsub" => Current(t)
    /\ th[t].pc = "mark" /\ th[t].c \notin closed => obj[th[t].o].bytes = Block

\* ... one that has matched is marked with all its bytes, unless the cache has been closed.
MarkingOK(t) ==
  th[t].op = "mark" =>
    /\ client[th[t].c][th[t].p].hashing
    /\ th[t].pc = "markmp" =>
         /\ Incomplete(th[t].c, th[t].p) /\ Current(t)
         /\ th[t].c \notin closed \/ obj[th[t].o].data => obj[th[t].o].bytes = Block

\* A reload from disk is of a piece that is there.
LoadingOK(t) == th[t].pc = "load" => th[t].c \in DiskCaches /\ th[t].p \in have[th[t].c]

\* A reader about to be served holds a piece with its block; one that has left the map is
\* not written any more.
ServingOK(r) ==
  th[r].pc = "serve" /\ th[r].c \notin closed =>
    /\ obj[th[r].o].data \/ pieces[th[r].c][th[r].p] # th[r].o
    /\ obj[th[r].o].data => th[r].b \in obj[th[r].o].bytes

OneHash ==
  \A t, u \in Thread :
    th[t].op \in {"hash", "mark"} /\ th[u].op \in {"hash", "mark"}
      /\ th[t].c = th[u].c /\ th[t].p = th[u].p => t = u

BusyOK == \A t \in Thread : WritingOK(t) /\ HashingOK(t) /\ MarkingOK(t) /\ LoadingOK(t)

\* In a live cache a complete piece in the map has its buffer.
MappedOK ==
  \A c \in Cache \ closed, p \in Idx :
    pieces[c][p] # None /\ obj[pieces[c][p]].complete => obj[pieces[c][p]].data

\* The client knows of every complete piece, and has received no chunk of it.
KnownOK ==
  \A c \in Cache, p \in Idx :
    /\ Started(c) /\ PieceComplete(c, p) => client[c][p].have \/ client[c][p].hashing
    /\ client[c][p].have /\ ~client[c][p].hashing => client[c][p].dirty = {}

PiecesOK ==
  /\ OwnOK /\ OneHash /\ BusyOK /\ MappedOK /\ KnownOK
  /\ \A o \in Obj : ReceivedOK(obj[o])
  /\ \A r \in Reader : ServingOK(r)

PieceInv == OpenOK /\ PiecesOK

-----------------------------------------------------------------------------
(* Steps that touch no piece *)

\* Only t moves, ...
Only(t) == \A u \in Thread \ {t} : th'[u] = th[u]

\* ... and goes on with the piece it has ...
Keeps(t) ==
  /\ th'[t].op = th[t].op /\ th'[t].c = th[t].c /\ th'[t].p = th[t].p
  /\ th'[t].o = th[t].o /\ th'[t].b = th[t].b

\* ... or has none.
Rests(t) == th'[t].op \in {"none", "resize", "close", "drop"}

Closing == {"closing", "closesub", "diskclose", "unreg"}

\* What has to hold where a thread goes.
Arrives(t) ==
  /\ th'[t].pc = "load" => th[t].c \in DiskCaches /\ th[t].p \in have[th[t].c]
  /\ th[t].op = "hash" =>
       /\ th'[t].pc \in {"hydrate", "access", "mark", "clear", "release", "gsub"}
       /\ th[t].pc = "gsub" => th'[t].pc = "gsub"
       /\ th'[t].pc = "mark" => obj[th[t].o].bytes = Block
  /\ th'[t].pc # "markmp"
  /\ th'[t].pc = "serve" => HasRange(obj[th[t].o], th[t].b)

Advance(t) == Only(t) /\ (Rests(t) \/ (Keeps(t) /\ Arrives(t)))

\* The bits of the caches that have files.
SameDisk == \A c \in DiskCaches : have'[c] = have[c]

Quiet == UNCHANGED <<obj, pieces, client>> /\ SameDisk /\ closed \subseteq closed'

LEMMA Locals ==
  ASSUME TInv, NEW t \in Thread,
         \/ th[t].op \in {"write", "read", "hash", "mark", "reader"}
         \/ th[t].pc \in {"load", "serve", "markmp"}
  PROVE  /\ th[t].c \in Cache /\ th[t].p \in Idx /\ th[t].o \in Obj /\ th[t].b \in Block
         /\ th[t].o # None
  BY ConstantsAssumption DEF TInv, ThreadOK, Consistent, TypeOK, ThreadType

LEMMA GotoMoves ==
  ASSUME TypeOK, NEW t \in Thread, NEW pc, Goto(t, pc)
  PROVE  Only(t) /\ Keeps(t) /\ th'[t].pc = pc
<1>1. th[t] \in ThreadType
  BY DEF TypeOK
<1>2. th'[t] = [th[t] EXCEPT !.pc = pc] /\ Only(t)
  BY DEF TypeOK, Goto, Only
<1> QED
  BY <1>1, <1>2 DEF Keeps, ThreadType

LEMMA GotoNMoves ==
  ASSUME TypeOK, NEW t \in Thread, NEW pc, NEW n, GotoN(t, pc, n)
  PROVE  Only(t) /\ Keeps(t) /\ th'[t].pc = pc
<1>1. th[t] \in ThreadType
  BY DEF TypeOK
<1>2. th'[t] = [th[t] EXCEPT !.pc = pc, !.n = n] /\ Only(t)
  BY DEF TypeOK, GotoN, Only
<1> QED
  BY <1>1, <1>2 DEF Keeps, ThreadType

LEMMA FinishMoves ==
  ASSUME TypeOK, NEW t \in Thread, Finish(t)
  PROVE  Only(t) /\ th'[t] = IdleThread /\ Rests(t) /\ th'[t].c = None /\ th'[t].pc = "idle"
  BY DEF TypeOK, Finish, Only, Rests, IdleThread

LEMMA AfterEvictMoves ==
  ASSUME TypeOK, ThreadOK, NEW t \in Thread, AfterEvict(t),
         th[t].pc \in {"evict", "evlock", "evloop"}
  PROVE  /\ Only(t)
         /\ \/ Rests(t) /\ th'[t].c = None /\ th'[t].pc = "idle"
            \/ Keeps(t) /\ th'[t].pc \in {"ret", "access"}
<1>1. CASE th[t].op = "resize"
  BY <1>1, FinishMoves DEF AfterEvict
<1>2. CASE th[t].op # "resize"
  <2>1. th[t] \in ThreadType
    BY DEF TypeOK
  <2>2. PICK pc \in {"ret", "access"} : LeaveEvict(t, pc)
    BY <1>2 DEF AfterEvict
  <2>3. th'[t] = [th[t] EXCEPT !.pc = pc, !.cands = {}, !.cap = 0] /\ Only(t)
    BY <2>2 DEF TypeOK, LeaveEvict, Only
  <2> QED
    BY <2>1, <2>2, <2>3 DEF Keeps, ThreadType
<1> QED
  BY <1>1, <1>2

LEMMA AfterFillMoves ==
  ASSUME TypeOK, NEW t \in Thread, AfterFill(t)
  PROVE  /\ Only(t)
         /\ \/ Rests(t) /\ th'[t].c = None /\ th'[t].pc = "idle" /\ updates' = updates
            \/ Keeps(t) /\ th'[t].pc = "evict" /\ SpawnUpdate(th[t].c, th[t].p)
<1>1. CASE th[t].op = "write"
  BY <1>1, FinishMoves DEF AfterFill
<1>2. CASE th[t].op # "write"
  BY <1>2, GotoNMoves DEF AfterFill
<1> QED
  BY <1>1, <1>2

\* A quiet step keeps everything about the pieces.
LEMMA QuietOwn ==
  ASSUME TInv, TInv', OwnOK, NEW t \in Thread, Only(t),
         \/ Rests(t)
         \/ th'[t].o = th[t].o /\ th'[t].c = th[t].c /\ th'[t].p = th[t].p,
         \A c \in Cache, p \in Idx : pieces'[c][p] \in {pieces[c][p], None}
  PROVE  OwnOK'
<1>1. \A u \in Thread : \/ th'[u].o = None
                        \/ th'[u].o = th[u].o /\ th'[u].c = th[u].c /\ th'[u].p = th[u].p
  BY DEF Only, Rests, TInv, ThreadOK, Consistent
<1> QED
  BY <1>1, SMTT(20) DEF OwnOK

\* What the other threads of a piece rely on.
Undisturbed(u) ==
  /\ th'[u] = th[u]
  /\ th[u].op \in {"write", "hash", "mark"} =>
       /\ client'[th[u].c][th[u].p].hashing = client[th[u].c][th[u].p].hashing
       /\ th[u].op \in {"write", "hash"} \/ th[u].pc = "markmp" =>
            /\ Incomplete(th[u].c, th[u].p)'
            /\ th[u].pc # "gsub" /\ th[u].c \notin closed' => pieces'[th[u].c][th[u].p] = pieces[th[u].c][th[u].p]
            /\ obj'[th[u].o].complete => obj[th[u].o].complete
            /\ \/ obj[th[u].o].bytes \subseteq obj'[th[u].o].bytes /\ (obj'[th[u].o].data => obj[th[u].o].data)
               \/ obj'[th[u].o].bytes = Block
               \/ th[u].c \in closed' /\ ~obj'[th[u].o].data
               \/ th[u].op = "write"
  /\ th[u].pc = "load" => have[th[u].c] \subseteq have'[th[u].c]

Works(t) == WritingOK(t) /\ HashingOK(t) /\ MarkingOK(t) /\ LoadingOK(t)

LEMMA UndisturbedWorks ==
  ASSUME TInv, TInv', NEW u \in Thread, Works(u), Undisturbed(u), closed \subseteq closed'
  PROVE  Works(u)'
<1>1. WritingOK(u)'
  <2>1. th[u].op = "write" => th[u].pc # "gsub"
    BY DEF TInv, ThreadOK, Consistent
  <2> QED
    BY <2>1 DEF Works, WritingOK, Undisturbed, Current
<1>2. ASSUME th[u].op \in {"hash", "mark"},
             \/ obj[th[u].o].bytes \subseteq obj'[th[u].o].bytes /\ (obj'[th[u].o].data => obj[th[u].o].data)
             \/ obj'[th[u].o].bytes = Block
             \/ th[u].c \in closed' /\ ~obj'[th[u].o].data,
             th[u].c \notin closed \/ obj[th[u].o].data => obj[th[u].o].bytes = Block,
             th[u].c \notin closed' \/ obj'[th[u].o].data
      PROVE  obj'[th[u].o].bytes = Block
  <2>1. obj'[th[u].o].bytes \subseteq Block
    BY <1>2, Locals DEF TInv, TypeOK, MemPieceType
  <2>2. CASE obj'[th[u].o].bytes = Block
    BY <2>2
  <2>3. CASE obj[th[u].o].bytes = Block /\ obj[th[u].o].bytes \subseteq obj'[th[u].o].bytes
    BY <2>1, <2>3
  <2> QED
    BY <1>2, <2>2, <2>3
<1>3. HashingOK(u)'
  <2> SUFFICES ASSUME th[u].op = "hash" PROVE HashingOK(u)'
    BY DEF HashingOK, Undisturbed
  <2>1. /\ client'[th[u].c][th[u].p].hashing /\ Incomplete(th[u].c, th[u].p)'
        /\ th[u].pc \in {"hydrate", "access", "mark", "clear", "release", "gsub"}
        /\ th[u].pc # "gsub" => Current(u)'
    BY DEF Works, HashingOK, Undisturbed, Current
  <2>2. ASSUME th[u].pc = "mark", th[u].c \notin closed' PROVE obj'[th[u].o].bytes = Block
    <3>1. obj[th[u].o].bytes = Block
      BY <2>2 DEF Works, HashingOK
    <3> QED
      BY <1>2, <2>2, <3>1 DEF Undisturbed
  <2> QED
    BY <2>1, <2>2 DEF HashingOK, Undisturbed
<1>5. MarkingOK(u)'
  <2> SUFFICES ASSUME th[u].op = "mark" PROVE MarkingOK(u)'
    BY DEF MarkingOK, Undisturbed
  <2>1. /\ client'[th[u].c][th[u].p].hashing
        /\ th[u].pc = "markmp" => Incomplete(th[u].c, th[u].p)' /\ Current(u)'
    BY DEF Works, MarkingOK, Undisturbed, Current
  <2>2. ASSUME th[u].pc = "markmp", th[u].c \notin closed' \/ obj'[th[u].o].data
        PROVE  obj'[th[u].o].bytes = Block
    <3>1. th[u].c \notin closed \/ obj[th[u].o].data => obj[th[u].o].bytes = Block
      BY <2>2 DEF Works, MarkingOK
    <3> QED
      BY <1>2, <2>2, <3>1 DEF Undisturbed
  <2> QED
    BY <2>1, <2>2 DEF MarkingOK, Undisturbed
<1>4. LoadingOK(u)'
  BY DEF Works, LoadingOK, Undisturbed
<1> QED
  BY <1>1, <1>3, <1>4, <1>5 DEF Works

LEMMA QuietWorks ==
  ASSUME TInv, TInv', NEW t \in Thread, BusyOK, Quiet, Advance(t)
  PROVE  BusyOK'
<1>1. ASSUME NEW u \in Thread PROVE Works(u)
  BY DEF BusyOK, Works
<1>2. ASSUME NEW c \in Cache, NEW p \in Idx, Incomplete(c, p) PROVE Incomplete(c, p)'
  BY <1>2 DEF Incomplete, Quiet, SameDisk
<1>3. ASSUME NEW u \in Thread \ {t} PROVE Works(u)'
  <2>1. th[u].op \in {"write", "hash", "mark"} => th[u].c \in Cache /\ th[u].p \in Idx
    BY Locals
  <2>2. Undisturbed(u)
    BY <1>1, <1>2, <2>1 DEF Undisturbed, Quiet, SameDisk, Advance, Only, Works, WritingOK,
       HashingOK,
       MarkingOK, LoadingOK
  <2> QED
    BY <1>1, <2>2, UndisturbedWorks DEF Quiet
<1>4. CASE Rests(t)
  <2>1. Works(t)'
    BY <1>4 DEF Rests, Works, WritingOK, HashingOK, MarkingOK, LoadingOK, TInv, ThreadOK, Consistent
  <2> QED
    BY <1>3, <2>1 DEF BusyOK, Works
<1>5. CASE Keeps(t) /\ Arrives(t)
  <2>1. th[t].op \in {"write", "hash", "mark"} => th[t].c \in Cache /\ th[t].p \in Idx
    BY Locals
  <2>2. WritingOK(t)'
    BY <1>1, <1>2, <1>5, <2>1 DEF Works, WritingOK, Keeps, Quiet, Current
  <2>3. HashingOK(t)'
    BY <1>1, <1>2, <1>5, <2>1 DEF Works, HashingOK, Keeps, Arrives, Quiet, Current
  <2>4. MarkingOK(t)'
    BY <1>1, <1>2, <1>5, <2>1 DEF Works, MarkingOK, Keeps, Arrives, Quiet, Current
  <2>5. LoadingOK(t)'
    BY <1>1, <1>5 DEF Works, LoadingOK, Keeps, Arrives, Quiet, SameDisk
  <2> QED
    BY <1>3, <2>2, <2>3, <2>4, <2>5 DEF BusyOK, Works
<1> QED
  BY <1>4, <1>5 DEF Advance

LEMMA QuietServes ==
  ASSUME TInv, TInv', NEW t \in Thread, \A r \in Reader : ServingOK(r),
         \A o \in Obj : ReceivedOK(obj[o]), Quiet, Advance(t)
  PROVE  \A r \in Reader : ServingOK(r)'
<1> SUFFICES ASSUME NEW r \in Reader, th'[r].pc = "serve", th'[r].c \notin closed'
             PROVE  /\ obj'[th'[r].o].data \/ pieces'[th'[r].c][th'[r].p] # th'[r].o
                    /\ obj'[th'[r].o].data => th'[r].b \in obj'[th'[r].o].bytes
  BY DEF ServingOK
<1>0. r \in Thread
  BY DEF Thread
<1>1. CASE r # t
  BY <1>0, <1>1 DEF Advance, Only, Quiet, ServingOK
<1>2. CASE r = t
  <2>1. th'[r].op = "reader" /\ ~Rests(t)
    BY <1>0, <1>2 DEF TInv, ThreadOK, Consistent, Rests
  <2>2. Keeps(r) /\ HasRange(obj[th[r].o], th[r].b)
    BY <1>2, <2>1 DEF Advance, Arrives
  <2>3. th[r].o \in Obj /\ th[r].b \in Block
    BY <1>0, <2>1, <2>2, Locals DEF Keeps
  <2>4. obj[th[r].o].data /\ th[r].b \in obj[th[r].o].bytes
    BY <2>2, <2>3 DEF HasRange, ReceivedOK
  <2> QED
    BY <2>2, <2>4 DEF Keeps, Quiet
<1> QED
  BY <1>1, <1>2

\* Threads that hash keep the piece they hash.
LEMMA OneHashKeeps ==
  ASSUME OneHash, NEW t \in Thread, Only(t),
         \/ th'[t].op \notin {"hash", "mark"}
         \/ th[t].op \in {"hash", "mark"} /\ th'[t].c = th[t].c /\ th'[t].p = th[t].p
  PROVE  OneHash'
  BY DEF OneHash, Only

LEMMA KnownKeeps ==
  ASSUME TInv, KnownOK, \A c \in Cache : Started(c)' => Started(c),
         \A c \in Cache, p \in Idx : PieceComplete(c, p)' => PieceComplete(c, p), UNCHANGED client
  PROVE  KnownOK'
  BY DEF KnownOK

LEMMA QuietComplete ==
  ASSUME TInv, Quiet, NEW c \in Cache, NEW p \in Idx
  PROVE  PieceComplete(c, p)' <=> PieceComplete(c, p)
  BY DEF Quiet, SameDisk, PieceComplete, IsComplete

\* Which caches have been opened, and what the client has been told of them.
SameOpen == \A c \in Cache : Started(c)' <=> Started(c)

LEMMA QuietOK ==
  ASSUME TInv, TInv', PiecesOK, NEW t \in Thread, Quiet, Advance(t), SameOpen
  PROVE  PiecesOK'
<1>1. OwnOK'
  BY QuietOwn DEF PiecesOK, Advance, Keeps, Quiet
<1>2. OneHash'
  BY OneHashKeeps DEF PiecesOK, Advance, Keeps, Rests
<1>3. BusyOK' /\ \A r \in Reader : ServingOK(r)'
  BY QuietWorks, QuietServes DEF PiecesOK
<1>4. MappedOK'
  BY DEF PiecesOK, MappedOK, Quiet
<1>5. KnownOK'
  BY QuietComplete, KnownKeeps DEF PiecesOK, Quiet, SameOpen
<1>6. \A o \in Obj : ReceivedOK(obj[o])'
  BY DEF PiecesOK, Quiet, ReceivedOK
<1> QED
  BY <1>1, <1>2, <1>3, <1>4, <1>5, <1>6 DEF PiecesOK

-----------------------------------------------------------------------------
(* The quiet steps *)

\* What OpenOK needs of a step of t.
OpenKept(t) ==
  /\ SameOpen /\ closed \subseteq closed' /\ Only(t)
  /\ th'[t].c \in {None, th[t].c} \/ Started(th'[t].c)
  /\ th'[t].pc \in Closing => th'[t].c \in closed'
  /\ \A r \in Reader : reader'[r].state # "none" => reader[r].state # "none" /\ reader'[r].c = reader[r].c
  /\ torrentSet' = torrentSet
  /\ \A u \in updates' : u \in updates \/ u[1] \in torrentSet

LEMMA OpenKeeps ==
  ASSUME TInv, TInv', OpenOK, NEW t \in Thread, OpenKept(t)
  PROVE  OpenOK'
<1>0. \A c \in Cache : c \in caches \cup closed => c \in caches' \cup closed'
  BY DEF OpenKept, SameOpen, Started
<1>1. ASSUME NEW u \in Thread
      PROVE  /\ th'[u].c # None => th'[u].c \in caches' \cup closed'
             /\ th'[u].pc \in Closing => th'[u].c \in closed'
  <2>1. th'[u].c # None => th'[u].c \in Cache
    BY DEF TInv, TypeOK, ThreadType
  <2>2. CASE u = t
    BY <1>0, <2>1, <2>2 DEF OpenKept, OpenOK, Started
  <2>3. CASE u # t
    BY <1>0, <2>1, <2>3 DEF OpenKept, OpenOK, Only, Closing, Started
  <2> QED
    BY <2>2, <2>3
<1>2. ASSUME NEW r \in Reader, reader'[r].state # "none" PROVE reader'[r].c \in caches' \cup closed'
  <2>1. reader'[r].c \in Cache /\ reader'[r].c \in caches \cup closed
    BY <1>2 DEF OpenKept, OpenOK, TInv, ReaderOK, Started
  <2> QED
    BY <1>0, <2>1
<1>3. \A c \in torrentSet' : c \in caches' \cup closed'
  BY <1>0 DEF OpenKept, OpenOK, TInv, TypeOK, Started
<1>4. ASSUME NEW u \in updates' PROVE u[1] \in caches' \cup closed'
  <2>1. u[1] \in Cache
    BY DEF TInv, TypeOK
  <2>2. u[1] \in caches \cup closed
    BY DEF OpenKept, OpenOK, Started
  <2> QED
    BY <1>0, <2>1, <2>2
<1> QED
  BY <1>1, <1>2, <1>3, <1>4 DEF OpenOK, Closing, Started

\* A step of t that keeps the map, the objects and what the client knows.
QuietStep(t) == Quiet /\ Advance(t) /\ OpenKept(t)

\* The caches, the readers and the torrents are the same.
Still == UNCHANGED <<closed, caches, torrentSet, reader>>

LEMMA StillOpen ==
  ASSUME OpenOK, NEW t \in Thread, Only(t), Still,
         th'[t].c \in {None, th[t].c},
         th'[t].pc \in Closing => th[t].pc \in Closing /\ th'[t].c = th[t].c,
         \A u \in updates' : u \in updates \/ u[1] \in torrentSet
  PROVE  OpenKept(t)
  BY DEF OpenKept, Still, SameOpen, Started, OpenOK, Closing

LEMMA SpawnOpen ==
  ASSUME NEW c, NEW p, SpawnUpdate(c, p)
  PROVE  \A u \in updates' : u \in updates \/ u[1] \in torrentSet
  BY DEF SpawnUpdate

LEMMA UpdateFilledQuiet ==
  ASSUME TInv, TInv', OpenOK, PiecesOK, NEW t \in Thread, UpdateFilled(t) \/ AddGlobalFilled(t)
  PROVE  QuietStep(t)
<1>1. /\ UNCHANGED <<obj, pieces, client, have>> /\ Still
      /\ th[t].pc \in {"fill", "gadd"}
      /\ \/ AfterFill(t)
         \/ Goto(t, "gadd") /\ UNCHANGED updates
  BY DEF UpdateFilled, AddGlobalFilled, Still, cacheVars, memVars, diskVars
<1>2. th[t].op # "hash"
  BY <1>1 DEF PiecesOK, BusyOK, HashingOK
<1>3. CASE AfterFill(t)
  <2>0. TypeOK
    BY DEF TInv
  <2>1. Only(t) /\ (Rests(t) \/ (Keeps(t) /\ th'[t].pc = "evict"))
    BY <1>3, <2>0, AfterFillMoves
  <2>2. OpenKept(t)
    BY <1>1, <1>3, AfterFillMoves, StillOpen, SpawnOpen DEF TInv, Keeps, Closing
  <2> QED
    BY <1>1, <1>2, <2>1, <2>2 DEF QuietStep, Quiet, SameDisk, Still, Advance, Arrives
<1>4. CASE Goto(t, "gadd") /\ UNCHANGED updates
  <2>1. Only(t) /\ Keeps(t) /\ th'[t].pc = "gadd"
    BY <1>4, GotoMoves DEF TInv
  <2>2. OpenKept(t)
    BY <1>1, <1>4, <2>1, StillOpen DEF Keeps, Closing
  <2> QED
    BY <1>1, <1>2, <2>1, <2>2 DEF QuietStep, Quiet, SameDisk, Still, Advance, Arrives
<1> QED
  BY <1>1, <1>3, <1>4

\* The pieces and the client are as they were.
SamePieces == UNCHANGED <<obj, pieces, client, have>>

LEMMA RestQuiet ==
  ASSUME TInv, OpenOK, NEW t \in Thread, Finish(t), SamePieces, Still, UNCHANGED updates
  PROVE  QuietStep(t)
<1>1. Only(t) /\ Rests(t) /\ th'[t].c = None /\ th'[t].pc = "idle"
  BY FinishMoves DEF TInv
<1>2. OpenKept(t)
  BY <1>1, StillOpen DEF Closing
<1> QED
  BY <1>1, <1>2 DEF QuietStep, Quiet, SameDisk, SamePieces, Still, Advance

LEMMA MoveQuiet ==
  ASSUME TInv, OpenOK, NEW t \in Thread, SamePieces, Still, UNCHANGED updates,
         Only(t), Keeps(t), Arrives(t), th'[t].pc \in Closing => th[t].pc \in Closing
  PROVE  QuietStep(t)
<1>1. OpenKept(t)
  BY StillOpen DEF Keeps
<1> QED
  BY <1>1 DEF QuietStep, Quiet, SameDisk, SamePieces, Still, Advance

\* Places a thread that does not hash may go to without ado.
LEMMA GotoQuiet ==
  ASSUME TInv, OpenOK, NEW t \in Thread, NEW pc, SamePieces, Still, UNCHANGED updates,
         Goto(t, pc) \/ (\E n : GotoN(t, pc, n)),
         pc \notin {"load", "markmp", "serve"}, th[t].op # "hash",
         pc \in Closing => th[t].pc \in Closing
  PROVE  QuietStep(t)
<1>1. Only(t) /\ Keeps(t) /\ th'[t].pc = pc
  BY GotoMoves, GotoNMoves DEF TInv
<1> QED
  BY <1>1, MoveQuiet DEF Arrives

LEMMA AfterEvictQuiet ==
  ASSUME TInv, OpenOK, NEW t \in Thread, SamePieces, Still, UNCHANGED updates,
         AfterEvict(t), th[t].pc \in {"evict", "evlock", "evloop"}, th[t].op # "hash"
  PROVE  QuietStep(t)
<1>1. /\ Only(t)
      /\ \/ Rests(t) /\ th'[t].c = None /\ th'[t].pc = "idle"
         \/ Keeps(t) /\ th'[t].pc \in {"ret", "access"}
  BY AfterEvictMoves DEF TInv
<1>2. OpenKept(t)
  BY <1>1, StillOpen DEF Keeps, Closing
<1> QED
  BY <1>1, <1>2 DEF QuietStep, Quiet, SameDisk, SamePieces, Still, Advance, Arrives

LEMMA HydrateQuiet ==
  ASSUME TInv, OpenOK, PiecesOK, NEW t \in Thread, Hydrate(t)
  PROVE  QuietStep(t)
<1>1. /\ SamePieces /\ Still /\ UNCHANGED updates /\ th[t].pc = "hydrate"
      /\ \/ Goto(t, "load") /\ th[t].c \in DiskCaches /\ th[t].p \in have[th[t].c]
         \/ Goto(t, "access")
  BY DEF Hydrate, SamePieces, Still, cacheVars, memVars, diskVars, clientVars
<1>2. CASE Goto(t, "load") /\ th[t].c \in DiskCaches /\ th[t].p \in have[th[t].c]
  <2>1. Only(t) /\ Keeps(t) /\ th'[t].pc = "load"
    BY <1>2, GotoMoves DEF TInv
  <2>2. th[t].op # "hash"
    BY <1>2 DEF PiecesOK, BusyOK, HashingOK, Incomplete
  <2> QED
    BY <1>1, <1>2, <2>1, <2>2, MoveQuiet DEF Arrives, Closing
<1>3. CASE Goto(t, "access")
  <2>1. Only(t) /\ Keeps(t) /\ th'[t].pc = "access"
    BY <1>3, GotoMoves DEF TInv
  <2> QED
    BY <1>1, <2>1, MoveQuiet DEF Arrives, Closing
<1> QED
  BY <1>1, <1>2, <1>3

LEMMA AccessQuiet ==
  ASSUME TInv, OpenOK, NEW t \in Thread, AccessRead(t) \/ AccessHash(t)
  PROVE  QuietStep(t)
<1>1. SamePieces /\ Still /\ UNCHANGED updates
  BY DEF AccessRead, AccessHash, SamePieces, Still, cacheVars, memVars, diskVars, clientVars
<1>2. CASE AccessRead(t)
  BY <1>1, <1>2, RestQuiet DEF AccessRead
<1>3. CASE AccessHash(t)
  <2>1. th[t].pc = "access"
    BY <1>3 DEF AccessHash
  <2>2. CASE obj[th[t].o].bytes = Block /\ Goto(t, "mark")
    <3>1. Only(t) /\ Keeps(t) /\ th'[t].pc = "mark"
      BY <2>2, GotoMoves DEF TInv
    <3> QED
      BY <1>1, <2>1, <2>2, <3>1, MoveQuiet DEF Arrives, Closing
  <2>3. CASE Goto(t, "clear")
    <3>1. Only(t) /\ Keeps(t) /\ th'[t].pc = "clear"
      BY <2>3, GotoMoves DEF TInv
    <3> QED
      BY <1>1, <2>1, <3>1, MoveQuiet DEF Arrives, Closing
  <2> QED
    BY <1>3, <2>2, <2>3 DEF AccessHash
<1> QED
  BY <1>2, <1>3

\* A thread that runs an eviction pass, or closes a cache, is not hashing.
LEMMA NotHashing ==
  ASSUME PiecesOK, NEW t \in Thread,
         th[t].pc \notin {"hydrate", "access", "mark", "clear", "release", "gsub"}
  PROVE  th[t].op # "hash"
  BY DEF PiecesOK, BusyOK, HashingOK

LEMMA EvictQuiet ==
  ASSUME TInv, OpenOK, PiecesOK, NEW t \in Thread,
         \/ EvictCheck(t) \/ EvictLock(t) \/ EvictDone(t) \/ EvictSub(t) \/ Snapshot(t)
         \/ \E c \in Cache : Collect(t, c)
  PROVE  QuietStep(t)
<1>1. SamePieces /\ Still /\ UNCHANGED updates
  BY DEF EvictCheck, EvictLock, EvictDone, EvictSub, Snapshot, Collect, SamePieces, Still,
     cacheVars,
     memVars, diskVars, clientVars
<1>2. th[t].pc \in {"evict", "evlock", "evloop", "evsub", "persist"} /\ th[t].op # "hash"
  BY NotHashing DEF EvictCheck, EvictLock, EvictDone, EvictSub, Snapshot, Collect
<1>3. CASE AfterEvict(t) /\ th[t].pc \in {"evict", "evlock", "evloop"}
  BY <1>1, <1>2, <1>3, AfterEvictQuiet
<1>4. CASE \E pc \in {"evlock", "evloop", "diskwrite", "evict"} : Goto(t, pc) \/ (\E n : GotoN(t, pc, n))
  BY <1>1, <1>2, <1>4, GotoQuiet DEF Closing
<1>5. CASE \/ th' = [th EXCEPT ![t].pc = "evloop", ![t].cap = capacity, ![t].todo = caches]
           \/ \E c \in Cache :
                /\ th[t].pc = "evloop"
                /\ th' = [th EXCEPT ![t].todo = @ \ {c}, ![t].cands = @ \cup Candidates(c)]
  <2>1. th[t] \in ThreadType
    BY DEF TInv, TypeOK
  <2>2. /\ Only(t)
        /\ \/ th'[t] = [th[t] EXCEPT !.pc = "evloop", !.cap = capacity, !.todo = caches]
           \/ \E c \in Cache :
                /\ th[t].pc = "evloop"
                /\ th'[t] = [th[t] EXCEPT !.todo = @ \ {c}, !.cands = @ \cup Candidates(c)]
    BY <1>5 DEF TInv, TypeOK, Only
  <2>3. Keeps(t) /\ th'[t].pc = "evloop"
    BY <2>1, <2>2 DEF Keeps, ThreadType
  <2> QED
    BY <1>1, <1>2, <2>2, <2>3, MoveQuiet DEF Arrives, Closing
<1> QED
  BY <1>3, <1>4, <1>5 DEF EvictCheck, EvictLock, EvictDone, EvictSub, Snapshot, Collect

LEMMA CloseQuiet ==
  ASSUME TInv, OpenOK, PiecesOK, NEW t \in Thread,
         CloseEnd(t) \/ CloseSub(t) \/ DiskClose(t)
  PROVE  QuietStep(t)
<1>1. SamePieces /\ Still /\ UNCHANGED updates
  BY DEF CloseEnd, CloseSub, DiskClose, SamePieces, Still, cacheVars, memVars, diskVars, clientVars
<1>2. th[t].pc \in Closing /\ th[t].op # "hash"
  BY NotHashing DEF CloseEnd, CloseSub, DiskClose, Closing
<1>3. \/ Finish(t)
      \/ \E pc \in {"closesub", "diskclose", "unreg"} : Goto(t, pc) \/ (\E n : GotoN(t, pc, n))
  BY DEF CloseEnd, CloseSub, DiskClose
<1>4. CASE Finish(t)
  BY <1>1, <1>4, RestQuiet
<1>5. CASE \E pc \in {"closesub", "diskclose", "unreg"} : Goto(t, pc) \/ (\E n : GotoN(t, pc, n))
  BY <1>1, <1>2, <1>5, GotoQuiet
<1> QED
  BY <1>3, <1>4, <1>5

LEMMA CloseBeginQuiet ==
  ASSUME TInv, OpenOK, PiecesOK, NEW t \in Thread, CloseBegin(t)
  PROVE  QuietStep(t)
<1>1. /\ UNCHANGED <<obj, pieces, client, have, caches, torrentSet, reader, updates>>
      /\ th[t].pc = "close" /\ closed' = closed \cup {th[t].c} /\ Goto(t, "closing")
  BY DEF CloseBegin, memVars, diskVars, clientVars
<1>2. Only(t) /\ Keeps(t) /\ th'[t].pc = "closing"
  BY <1>1, GotoMoves DEF TInv
<1>3. th[t].op \in {"close", "drop"} /\ th[t].c \in Cache /\ Started(th[t].c)
  BY <1>1, ConstantsAssumption DEF TInv, ThreadOK, Consistent, OpenOK
<1>4. SameOpen
  BY <1>1, <1>3 DEF SameOpen, Started
<1>5. OpenKept(t)
  BY <1>1, <1>2, <1>4 DEF OpenKept, Keeps
<1> QED
  BY <1>1, <1>2, <1>3, <1>5 DEF QuietStep, Quiet, SameDisk, Advance, Rests, Keeps

LEMMA DeleteCacheQuiet ==
  ASSUME TInv, OpenOK, NEW t \in Thread, DeleteCache(t)
  PROVE  QuietStep(t)
<1>1. /\ UNCHANGED <<obj, pieces, client, have, closed, torrentSet, reader, updates>>
      /\ th[t].pc = "unreg" /\ caches' = caches \ {th[t].c} /\ Finish(t)
  BY DEF DeleteCache, memVars, diskVars, clientVars
<1>2. Only(t) /\ Rests(t) /\ th'[t].c = None /\ th'[t].pc = "idle"
  BY <1>1, FinishMoves DEF TInv
<1>3. th[t].c \in closed
  BY <1>1 DEF OpenOK
<1>4. SameOpen
  BY <1>1, <1>3 DEF SameOpen, Started
<1>5. OpenKept(t)
  BY <1>1, <1>2, <1>4 DEF OpenKept, Closing
<1> QED
  BY <1>1, <1>2, <1>5 DEF QuietStep, Quiet, SameDisk, Advance

\* An idle thread starts an operation that holds no piece.
LEMMA BeginQuiet ==
  ASSUME TInv, OpenOK, NEW t \in Thread,
         \/ \E n \in Capacities : SetGlobalCapacity(t, n)
         \/ \E c \in Cache : BeginClose(t, c) \/ BeginDrop(t, c)
  PROVE  QuietStep(t)
<1>1. /\ UNCHANGED <<obj, pieces, client, have, closed, caches, torrentSet, reader, updates>>
      /\ \/ th' = [th EXCEPT ![t].pc = "evict", ![t].op = "resize"]
         \/ \E c \in caches : \/ th' = [th EXCEPT ![t].pc = "close", ![t].op = "close", ![t].c = c]
                              \/ th' = [th EXCEPT ![t].pc = "close", ![t].op = "drop", ![t].c = c]
  BY DEF SetGlobalCapacity, BeginClose, BeginDrop, cacheVars, memVars, diskVars, clientVars
<1>2. th[t] \in ThreadType
  BY DEF TInv, TypeOK
<1>3. /\ Only(t)
      /\ \/ th'[t] = [th[t] EXCEPT !.pc = "evict", !.op = "resize"]
         \/ \E c \in caches : \/ th'[t] = [th[t] EXCEPT !.pc = "close", !.op = "close", !.c = c]
                              \/ th'[t] = [th[t] EXCEPT !.pc = "close", !.op = "drop", !.c = c]
  BY <1>1 DEF TInv, TypeOK, Only
<1>4. /\ th'[t].op \in {"resize", "close", "drop"} /\ th'[t].pc \notin Closing
      /\ th'[t].c = th[t].c \/ Started(th'[t].c)
  BY <1>2, <1>3 DEF ThreadType, Closing, Started
<1>5. OpenKept(t)
  BY <1>1, <1>3, <1>4 DEF OpenKept, SameOpen, Started
<1> QED
  BY <1>1, <1>3, <1>4, <1>5 DEF QuietStep, Quiet, SameDisk, Advance, Rests

\* The steps of a reader between its lookups.
LEMMA ReadQuiet ==
  ASSUME TInv, OpenOK, PiecesOK, NEW r \in Reader,
         WaitRange(r) \/ Unpark(r) \/ GiveUp(r) \/ Serve(r)
  PROVE  QuietStep(r)
<1>0. r \in Thread
  BY DEF Thread
<1>1. SamePieces /\ UNCHANGED <<updates, closed, caches, torrentSet>>
  BY DEF WaitRange, Unpark, GiveUp, Serve, SamePieces, cacheVars, memVars, diskVars, clientVars
<1>2. th[r].op = "reader" /\ th[r].pc \notin Closing
  BY <1>0 DEF WaitRange, Unpark, GiveUp, Serve, TInv, ThreadOK, Consistent, Closing
<1>3. CASE WaitRange(r)
  <2>1. \/ HasRange(obj[th[r].o], th[r].b) /\ Goto(r, "serve")
        \/ Goto(r, "parked")
    BY <1>3 DEF WaitRange
  <2>2. Still
    BY <1>1, <1>3 DEF WaitRange, Still
  <2>3. CASE HasRange(obj[th[r].o], th[r].b) /\ Goto(r, "serve")
    <3>1. Only(r) /\ Keeps(r) /\ th'[r].pc = "serve"
      BY <1>0, <2>3, GotoMoves DEF TInv
    <3> QED
      BY <1>0, <1>1, <1>2, <2>2, <2>3, <3>1, MoveQuiet DEF Arrives, Closing
  <2>4. CASE Goto(r, "parked")
    BY <1>0, <1>1, <1>2, <2>2, <2>4, GotoQuiet DEF Closing
  <2> QED
    BY <2>1, <2>3, <2>4
<1>4. CASE Unpark(r) \/ GiveUp(r)
  <2>1. Finish(r) \/ Goto(r, "refetch")
    BY <1>4 DEF Unpark, GiveUp
  <2>2. Still
    BY <1>1, <1>4 DEF Unpark, GiveUp, Still
  <2> QED
    BY <1>0, <1>1, <1>2, <2>1, <2>2, RestQuiet, GotoQuiet DEF Closing
<1>5. CASE Serve(r)
  <2>1. CASE Goto(r, "outer") /\ UNCHANGED reader
    <3>1. Still
      BY <1>1, <2>1 DEF Still
    <3> QED
      BY <1>0, <1>1, <1>2, <2>1, <3>1, GotoQuiet DEF Closing
  <2>2. CASE Finish(r)
    <3>1. Only(r) /\ Rests(r) /\ th'[r].c = None /\ th'[r].pc = "idle"
      BY <1>0, <2>2, FinishMoves DEF TInv
    <3>2. reader' = reader \/ \E n : reader' = [reader EXCEPT ![r].pos = n]
      BY <1>5 DEF Serve
    <3>3. \A q \in Reader : reader'[q].state = reader[q].state /\ reader'[q].c = reader[q].c
      <4>1. \A q \in Reader : reader[q] \in ReaderType
        BY DEF TInv, TypeOK
      <4>2. \A q \in Reader : reader'[q] = reader[q] \/ \E n : reader'[q] = [reader[q] EXCEPT !.pos = n]
        BY <3>2 DEF TInv, TypeOK
      <4> QED
        BY <4>1, <4>2 DEF ReaderType
    <3>4. OpenKept(r)
      BY <1>1, <3>1, <3>3 DEF OpenKept, SameOpen, Started, Closing
    <3> QED
      BY <1>1, <3>1, <3>4 DEF QuietStep, Quiet, SameDisk, SamePieces, Advance
  <2> QED
    BY <1>5, <2>1, <2>2 DEF Serve
<1> QED
  BY <1>3, <1>4, <1>5

\* A step that moves no thread.
LEMMA EnvQuietOK ==
  ASSUME TInv, TInv', PiecesOK, SamePieces, UNCHANGED <<closed, th>>, SameOpen
  PROVE  PiecesOK'
<1>0. Quiet
  BY DEF Quiet, SameDisk, SamePieces
<1>1. OwnOK' /\ OneHash' /\ MappedOK' /\ \A o \in Obj : ReceivedOK(obj[o])'
  BY DEF PiecesOK, OwnOK, OneHash, MappedOK, ReceivedOK, SamePieces
<1>2. BusyOK'
  BY DEF PiecesOK, BusyOK, WritingOK, HashingOK, MarkingOK, LoadingOK, Incomplete, Current,
     SamePieces
<1>3. \A r \in Reader : ServingOK(r)'
  BY DEF PiecesOK, ServingOK, SamePieces
<1>4. KnownOK'
  BY <1>0, QuietComplete, KnownKeeps DEF PiecesOK, SamePieces, SameOpen
<1> QED
  BY <1>1, <1>2, <1>3, <1>4 DEF PiecesOK

LEMMA EnvQuiet ==
  ASSUME TInv, TInv', OpenOK, PiecesOK, NEW r \in Reader,
         \/ CloseReader(r) \/ UnregisterReader(r)
         \/ \E c \in Cache : OpenReader(r, c)
         \/ \E p \in Idx : Seek(r, p)
  PROVE  OpenOK' /\ PiecesOK'
<1>1. SamePieces /\ UNCHANGED <<closed, caches, th, updates>>
  BY DEF CloseReader, UnregisterReader, OpenReader, Seek, SamePieces, cacheVars, memVars, diskVars,
     clientVars
<1>2. PiecesOK'
  BY <1>1, EnvQuietOK DEF SameOpen, Started
<1>3. \A c \in torrentSet' : c \in torrentSet \/ c \in caches
  BY DEF CloseReader, UnregisterReader, OpenReader, Seek, cacheVars
<1>4. \/ \E c \in caches : reader' = [reader EXCEPT ![r] = [state |-> "open", c |-> c, pos |-> 0]]
      \/ reader' = [reader EXCEPT ![r] = NoReader]
      \/ reader[r].state # "none" /\ reader' = [reader EXCEPT ![r].state = "closing"]
      \/ \E p \in Idx : reader' = [reader EXCEPT ![r].pos = p]
  BY DEF CloseReader, UnregisterReader, OpenReader, Seek
<1>5. ASSUME NEW q \in Reader, reader'[q].state # "none"
      PROVE  reader'[q].c \in caches \/ (reader[q].state # "none" /\ reader'[q].c = reader[q].c)
  BY <1>4, <1>5 DEF TInv, TypeOK, ReaderType, NoReader
<1> QED
  BY <1>1, <1>2, <1>3, <1>5 DEF OpenOK, Started

-----------------------------------------------------------------------------
(* GetOrCreateMemPiece *)

\* Thread t has piece o of cache c, which is the one in the map of a live cache; if it was
\* not there before, it is new and nobody else knows it.
Gets(t, c, p, op, o) ==
  /\ Only(t) /\ o \in Obj
  /\ th'[t].op = op /\ th'[t].c = c /\ th'[t].p = p /\ th'[t].o = o
  /\ \/ /\ c \notin closed /\ pieces[c][p] = o
        /\ UNCHANGED <<obj, pieces>>
     \/ /\ c \in closed \/ pieces[c][p] = None
        /\ \A u \in Thread : th[u].o # o
        /\ \A d \in Cache, q \in Idx : pieces[d][q] # o
        /\ obj' = [obj EXCEPT ![o] = NewMemPiece]
        /\ pieces' = IF c \in closed THEN pieces ELSE [pieces EXCEPT ![c][p] = o]

LEMMA GetOrCreateGets ==
  ASSUME TInv, NEW t \in Thread, NEW c \in Cache, NEW p \in Idx, NEW pc, NEW op, NEW b,
         GetOrCreate(t, c, p, pc, op, b)
  PROVE  /\ \E o \in Obj : Gets(t, c, p, op, o)
         /\ th'[t].pc = pc /\ lock[c] = None
<1> DEFINE create == c \in closed \/ pieces[c][p] = None
           o == IF create THEN Fresh ELSE pieces[c][p]
<1>1. create => o \in Free
  BY FreshFree DEF GetOrCreate
<1>2. o \in Obj
  BY <1>1 DEF TInv, TypeOK, Free
<1>3. /\ lock[c] = None
      /\ obj' = IF create THEN [obj EXCEPT ![o] = NewMemPiece] ELSE obj
      /\ pieces' = IF c \in closed THEN pieces ELSE [pieces EXCEPT ![c][p] = o]
      /\ th' = [th EXCEPT ![t] = [@ EXCEPT !.pc = pc, !.op = op, !.c = c, !.p = p, !.b = b, !.o = o]]
  BY DEF GetOrCreate
<1>4. ~create => pieces[c][p] = o /\ c \notin closed
  OBVIOUS
<1> HIDE DEF o
<1>5. th[t] \in ThreadType
  BY DEF TInv, TypeOK
<1>6. /\ th'[t] = [th[t] EXCEPT !.pc = pc, !.op = op, !.c = c, !.p = p, !.b = b, !.o = o]
      /\ Only(t)
  BY <1>3 DEF TInv, TypeOK, Only
<1>7. th'[t].pc = pc /\ th'[t].op = op /\ th'[t].c = c /\ th'[t].p = p /\ th'[t].o = o
  BY <1>5, <1>6 DEF ThreadType
<1>8. CASE create
  <2>1. /\ \A u \in Thread : th[u].o # o
        /\ \A d \in Cache, q \in Idx : pieces[d][q] # o
    BY <1>1, <1>2, <1>8 DEF Free, Held, Mapped
  <2> QED
    BY <1>2, <1>3, <1>6, <1>7, <1>8, <2>1 DEF Gets
<1>9. CASE ~create
  <2>1. pieces' = pieces
    BY <1>3, <1>4, <1>9 DEF TInv, TypeOK
  <2> QED
    BY <1>2, <1>3, <1>4, <1>6, <1>7, <1>9, <2>1 DEF Gets
<1> QED
  BY <1>3, <1>7, <1>8, <1>9

\* What it leaves alone: objects that somebody has, and places that are taken.
LEMMA GetsKeeps ==
  ASSUME TInv, NEW t \in Thread, NEW c \in Cache, NEW p \in Idx, NEW op, NEW o, Gets(t, c, p, op, o)
  PROVE  /\ \A u \in Thread : th[u].o \in Obj => obj'[th[u].o] = obj[th[u].o]
         /\ \A d \in Cache, q \in Idx : pieces[d][q] # None =>
              pieces'[d][q] = pieces[d][q] /\ obj'[pieces[d][q]] = obj[pieces[d][q]]
         /\ \A d \in Cache, q \in Idx : pieces'[d][q] # pieces[d][q] =>
              /\ d = c /\ q = p /\ pieces'[d][q] = o /\ obj'[o] = NewMemPiece
              /\ \A u \in Thread : th[u].o # o
         /\ \A x \in Obj : obj'[x] = obj[x] \/ obj'[x] = NewMemPiece
<1>0. /\ \A d \in Cache, q \in Idx : pieces[d][q] \in Obj \cup {None}
      /\ obj \in [Obj -> MemPieceType] /\ pieces \in [Cache -> [Idx -> Obj \cup {None}]]
  BY DEF TInv, TypeOK
<1>1. CASE UNCHANGED <<obj, pieces>>
  BY <1>1
<1>2. CASE /\ c \in closed \/ pieces[c][p] = None
           /\ \A u \in Thread : th[u].o # o
           /\ \A d \in Cache, q \in Idx : pieces[d][q] # o
           /\ obj' = [obj EXCEPT ![o] = NewMemPiece]
           /\ pieces' = IF c \in closed THEN pieces ELSE [pieces EXCEPT ![c][p] = o]
  <2>1. o \in Obj /\ obj'[o] = NewMemPiece /\ \A x \in Obj \ {o} : obj'[x] = obj[x]
    BY <1>0, <1>2 DEF Gets
  <2>2. \A d \in Cache, q \in Idx : \/ pieces'[d][q] = pieces[d][q]
                                    \/ d = c /\ q = p /\ pieces[d][q] = None /\ pieces'[d][q] = o
    BY <1>0, <1>2
  <2> QED
    BY <1>0, <1>2, <2>1, <2>2
<1> QED
  BY <1>1, <1>2 DEF Gets

LEMMA GetsOwn ==
  ASSUME TInv, OwnOK, NEW t \in Thread, NEW c \in Cache, NEW p \in Idx, NEW op, NEW o,
         Gets(t, c, p, op, o)
  PROVE  OwnOK'
<1>1. /\ Only(t) /\ th'[t].o = o /\ th'[t].c = c /\ th'[t].p = p /\ o \in Obj /\ o # None
  BY ConstantsAssumption DEF Gets
<1>2. CASE c \notin closed /\ pieces[c][p] = o /\ UNCHANGED <<obj, pieces>>
  <2>1. \A u \in Thread : th[u].o = o => th[u].c = c /\ th[u].p = p
    BY <1>1, <1>2 DEF OwnOK
  <2>2. \A d \in Cache, q \in Idx : pieces[d][q] = o => d = c /\ q = p
    BY <1>1, <1>2 DEF OwnOK
  <2> QED
    BY <1>1, <1>2, <2>1, <2>2, SMTT(20) DEF OwnOK, Only
<1>3. CASE /\ \A u \in Thread : th[u].o # o
           /\ \A d \in Cache, q \in Idx : pieces[d][q] # o
  <2>1. \A d \in Cache, q \in Idx : pieces'[d][q] = pieces[d][q] \/ (d = c /\ q = p /\ pieces'[d][q] = o)
    BY GetsKeeps
  <2> QED
    BY <1>1, <1>3, <2>1, SMTT(20) DEF OwnOK, Only
<1> QED
  BY <1>2, <1>3 DEF Gets

LEMMA GetsOthers ==
  ASSUME TInv, PiecesOK, NEW t \in Thread, NEW c \in Cache, NEW p \in Idx, NEW op, NEW o,
         Gets(t, c, p, op, o),
         SameDisk, UNCHANGED closed, NEW u \in Thread \ {t},
         th[u].op \in {"write", "hash", "mark"} =>
           client'[th[u].c][th[u].p].hashing = client[th[u].c][th[u].p].hashing
  PROVE  Undisturbed(u)
<1>0. Only(t) /\ th'[u] = th[u]
  BY DEF Gets, Only
<1>1. /\ th[u].op \in {"write", "hash", "mark"} => th[u].c \in Cache /\ th[u].p \in Idx /\ th[u].o \in Obj /\ th[u].o # None
      /\ th[u].pc = "load" => th[u].c \in DiskCaches
  BY Locals DEF PiecesOK, BusyOK, LoadingOK
<1>2. ASSUME NEW d \in Cache, NEW q \in Idx, Incomplete(d, q) PROVE Incomplete(d, q)'
  <2>1. \/ pieces'[d][q] = pieces[d][q] /\ (pieces[d][q] # None => obj'[pieces[d][q]] = obj[pieces[d][q]])
        \/ ~obj'[pieces'[d][q]].complete
    BY GetsKeeps DEF NewMemPiece
  <2> QED
    BY <1>2, <2>1 DEF Incomplete, SameDisk
<1>3. ASSUME th[u].op \in {"write", "hash"} \/ (th[u].op = "mark" /\ th[u].pc = "markmp")
      PROVE  /\ Incomplete(th[u].c, th[u].p)'
             /\ th[u].pc # "gsub" /\ th[u].c \notin closed' => pieces'[th[u].c][th[u].p] = pieces[th[u].c][th[u].p]
             /\ obj'[th[u].o] = obj[th[u].o]
  <2>1. Incomplete(th[u].c, th[u].p)
    BY <1>3 DEF PiecesOK, BusyOK, WritingOK, HashingOK, MarkingOK
  <2>2. th[u].pc # "gsub" => Current(u)
    BY <1>3 DEF PiecesOK, BusyOK, WritingOK, HashingOK, MarkingOK
  <2>3. th[u].pc # "gsub" /\ th[u].c \notin closed => pieces[th[u].c][th[u].p] # None
    BY <1>1, <1>3, <2>2 DEF Current
  <2>4. th[u].c \in Cache /\ th[u].p \in Idx /\ th[u].o \in Obj
    BY <1>1, <1>3
  <2>5. Incomplete(th[u].c, th[u].p)'
    BY <1>2, <2>1, <2>4, <1>0
  <2>6. obj'[th[u].o] = obj[th[u].o]
    BY <2>4, GetsKeeps
  <2>7. th[u].pc # "gsub" /\ th[u].c \notin closed' => pieces'[th[u].c][th[u].p] = pieces[th[u].c][th[u].p]
    BY <2>3, <2>4, GetsKeeps
  <2> QED
    BY <2>5, <2>6, <2>7
<1> QED
  BY <1>0, <1>1, <1>3 DEF Undisturbed, SameDisk

\* A lookup keeps everything about the pieces, if what the thread does next may be done with
\* the piece it has got.
LEMMA GetsOK ==
  ASSUME TInv, TInv', PiecesOK, NEW t \in Thread, NEW c \in Cache, NEW p \in Idx, NEW op, NEW o,
         Gets(t, c, p, op, o), SameDisk, UNCHANGED closed, SameOpen,
         \A u \in Thread \ {t} : th[u].op \in {"write", "hash", "mark"} =>
           client'[th[u].c][th[u].p].hashing = client[th[u].c][th[u].p].hashing,
         \A d \in Cache, q \in Idx :
           /\ client'[d][q].have = client[d][q].have
           /\ client[d][q].hashing => client'[d][q].hashing
           /\ client'[d][q].have /\ ~client'[d][q].hashing => client'[d][q].dirty = client[d][q].dirty,
         th'[t].pc # "serve", Works(t)', OneHash'
  PROVE  PiecesOK'
<1>0. Only(t)
  BY DEF Gets
<1>1. OwnOK'
  BY GetsOwn DEF PiecesOK
<1>2. ASSUME NEW u \in Thread PROVE Works(u)'
  <2>1. CASE u = t
    BY <2>1
  <2>2. CASE u # t
    <3>1. Undisturbed(u)
      BY <2>2, GetsOthers
    <3>2. Works(u)
      BY DEF PiecesOK, BusyOK, Works
    <3> QED
      BY <3>1, <3>2, UndisturbedWorks
  <2> QED
    BY <2>1, <2>2
<1>3. BusyOK'
  BY <1>2 DEF BusyOK, Works
<1>4. MappedOK'
  <2> SUFFICES ASSUME NEW d \in Cache \ closed, NEW q \in Idx, pieces'[d][q] # None,
                      obj'[pieces'[d][q]].complete
               PROVE  obj'[pieces'[d][q]].data
    BY DEF MappedOK
  <2>1. pieces'[d][q] = pieces[d][q] /\ obj'[pieces[d][q]] = obj[pieces[d][q]]
    BY GetsKeeps DEF NewMemPiece
  <2> QED
    BY <2>1 DEF PiecesOK, MappedOK
<1>5. KnownOK'
  <2>1. ASSUME NEW d \in Cache, NEW q \in Idx, PieceComplete(d, q)' PROVE PieceComplete(d, q)
    <3>1. CASE pieces'[d][q] # None /\ IsComplete(obj'[pieces'[d][q]])
      <4>1. pieces'[d][q] = pieces[d][q] /\ obj'[pieces[d][q]] = obj[pieces[d][q]]
        BY <3>1, GetsKeeps DEF NewMemPiece, IsComplete
      <4> QED
        BY <3>1, <4>1 DEF PieceComplete
    <3>2. CASE d \in DiskCaches /\ q \in have'[d]
      BY <3>2 DEF PieceComplete, SameDisk
    <3> QED
      BY <2>1, <3>1, <3>2 DEF PieceComplete, IsComplete
  <2>2. ASSUME NEW d \in Cache, NEW q \in Idx, Started(d)', PieceComplete(d, q)'
        PROVE  client'[d][q].have \/ client'[d][q].hashing
    BY <2>1, <2>2 DEF PiecesOK, KnownOK, SameOpen
  <2>3. ASSUME NEW d \in Cache, NEW q \in Idx, client'[d][q].have, ~client'[d][q].hashing
        PROVE  client'[d][q].dirty = {}
    BY <2>3 DEF PiecesOK, KnownOK
  <2> QED
    BY <2>2, <2>3 DEF KnownOK
<1>6. ASSUME NEW x \in Obj PROVE ReceivedOK(obj[x])'
  <2>1. obj'[x] = obj[x] \/ obj'[x] = NewMemPiece
    BY GetsKeeps
  <2> QED
    BY <2>1 DEF PiecesOK, ReceivedOK, NewMemPiece
<1>7. ASSUME NEW r \in Reader PROVE ServingOK(r)'
  <2>1. CASE r = t
    BY <2>1 DEF ServingOK
  <2>2. CASE r # t
    <3> SUFFICES ASSUME th[r].pc = "serve", th[r].c \notin closed
                 PROVE  /\ obj'[th[r].o].data \/ pieces'[th[r].c][th[r].p] # th[r].o
                        /\ obj'[th[r].o].data => th[r].b \in obj'[th[r].o].bytes
      BY <1>0, <2>2 DEF ServingOK, Only, Thread
    <3>1. r \in Thread /\ th[r].o \in Obj /\ th[r].o # None /\ th[r].c \in Cache /\ th[r].p \in Idx
      BY Locals DEF Thread
    <3>2. obj'[th[r].o] = obj[th[r].o]
      BY <3>1, GetsKeeps
    <3>3. pieces'[th[r].c][th[r].p] = th[r].o => pieces[th[r].c][th[r].p] = th[r].o
      BY <3>1, GetsKeeps
    <3> QED
      BY <3>2, <3>3 DEF PiecesOK, ServingOK
  <2> QED
    BY <2>1, <2>2
<1> QED
  BY <1>1, <1>3, <1>4, <1>5, <1>6, <1>7 DEF PiecesOK

\* The reads, of the client and of a reader, ask nothing of the piece they get.
LEMMA LookupOK ==
  ASSUME TInv, TInv', OpenOK, PiecesOK, NEW t \in Thread, NEW c \in Cache, NEW p \in Idx, NEW b,
         NEW pc \in {"hydrate", "waitrange"}, NEW op \in {"read", "reader"},
         GetOrCreate(t, c, p, pc, op, b), UNCHANGED <<client, have>>, Still, UNCHANGED updates, Started(c)
  PROVE  OpenOK' /\ PiecesOK'
<1>1. PICK o \in Obj : Gets(t, c, p, op, o)
  BY GetOrCreateGets
<1>2. th'[t].pc = pc
  BY GetOrCreateGets
<1>3. Only(t) /\ th'[t].op = op /\ th'[t].c = c
  BY <1>1 DEF Gets
<1>4. OpenKept(t)
  BY <1>2, <1>3 DEF OpenKept, Still, SameOpen, Started, Closing
<1>5. Works(t)'
  BY <1>2, <1>3 DEF Works, WritingOK, HashingOK, MarkingOK, LoadingOK
<1>6. OneHash'
  BY <1>3, OneHashKeeps DEF PiecesOK
<1>7. PiecesOK'
  BY <1>1, <1>2, <1>5, <1>6, GetsOK DEF SameDisk, Still, SameOpen, Started
<1> QED
  BY <1>4, <1>7, OpenKeeps

LEMMA ReadsOK ==
  ASSUME TInv, TInv', OpenOK, PiecesOK, NEW t \in Thread,
         \/ \E c \in Cache, p \in Idx : BeginRead(t, c, p)
         \/ t \in Reader /\ (Outer(t) \/ Refetch(t) \/ \E b \in Block : BeginStream(t, b))
  PROVE  OpenOK' /\ PiecesOK'
<1>1. CASE \E c \in Cache, p \in Idx : BeginRead(t, c, p)
  <2>1. PICK c \in Cache, p \in Idx : BeginRead(t, c, p)
    BY <1>1
  <2>2. /\ GetOrCreate(t, c, p, "hydrate", "read", 1) /\ Started(c)
        /\ UNCHANGED <<client, have, updates>> /\ Still
    BY <2>1 DEF BeginRead, Still, cacheVars, diskVars, clientVars
  <2> QED
    BY <2>2, LookupOK
<1>2. CASE t \in Reader /\ (Outer(t) \/ Refetch(t))
  <2>1. th[t].op = "reader"
    BY <1>2 DEF Outer, Refetch, TInv, ThreadOK, Consistent
  <2>2. th[t].c \in Cache /\ th[t].p \in Idx /\ Started(th[t].c)
    BY <2>1, Locals, ConstantsAssumption DEF OpenOK
  <2>3. /\ \/ GetOrCreate(t, th[t].c, th[t].p, "hydrate", "reader", th[t].b)
           \/ GetOrCreate(t, th[t].c, th[t].p, "waitrange", "reader", th[t].b)
        /\ UNCHANGED <<client, have, updates>> /\ Still
    BY <1>2 DEF Outer, Refetch, Still, cacheVars, diskVars, clientVars
  <2> QED
    BY <2>2, <2>3, LookupOK
<1>3. CASE t \in Reader /\ \E b \in Block : BeginStream(t, b)
  <2>1. PICK b \in Block : BeginStream(t, b)
    BY <1>3
  <2>2. /\ reader[t].state = "open"
        /\ GetOrCreate(t, reader[t].c, reader[t].pos, "hydrate", "reader", b)
        /\ UNCHANGED <<client, have, updates>> /\ Still
    BY <2>1 DEF BeginStream, Still, cacheVars, diskVars, clientVars
  <2>3. reader[t].c \in Cache /\ reader[t].pos \in Idx /\ Started(reader[t].c)
    BY <1>3, <2>2 DEF TInv, ReaderOK, TypeOK, ReaderType, OpenOK
  <2> QED
    BY <2>2, <2>3, LookupOK
<1> QED
  BY <1>1, <1>2, <1>3

\* A piece that the client is still fetching is incomplete.
LEMMA FetchedIncomplete ==
  ASSUME TInv, PiecesOK, NoResurrection, NEW c \in Cache, NEW p \in Idx, Started(c), lock[c] = None,
         ~client[c][p].have, ~client[c][p].hashing
  PROVE  Incomplete(c, p)
<1>1. ~PieceComplete(c, p)
  BY DEF PiecesOK, KnownOK
<1>2. ASSUME pieces[c][p] # None PROVE ~obj[pieces[c][p]].complete
  <2>1. c \notin closed
    BY <1>2 DEF NoResurrection
  <2> QED
    BY <1>1, <1>2, <2>1 DEF PieceComplete, IsComplete, PiecesOK, MappedOK
<1> QED
  BY <1>1, <1>2 DEF Incomplete, PieceComplete

\* What a lookup of an incomplete piece yields.
LEMMA GetsIncomplete ==
  ASSUME TInv, NEW t \in Thread, NEW c \in Cache, NEW p \in Idx, NEW op, NEW o,
         Gets(t, c, p, op, o),
         SameDisk, UNCHANGED closed, Incomplete(c, p)
  PROVE  /\ Incomplete(th[t].c, th[t].p)' /\ Current(t)' /\ ~obj'[o].complete
         /\ th'[t].c = c /\ th'[t].p = p /\ th'[t].o = o
<1>0. /\ th'[t].c = c /\ th'[t].p = p /\ th'[t].o = o /\ o \in Obj /\ o # None
      /\ pieces \in [Cache -> [Idx -> Obj \cup {None}]] /\ obj \in [Obj -> MemPieceType]
  BY ConstantsAssumption DEF Gets, TInv, TypeOK
<1>1. CASE c \notin closed /\ pieces[c][p] = o /\ UNCHANGED <<obj, pieces>>
  BY <1>0, <1>1 DEF Incomplete, Current, SameDisk
<1>2. CASE /\ c \in closed \/ pieces[c][p] = None
           /\ \A d \in Cache, q \in Idx : pieces[d][q] # o
           /\ obj' = [obj EXCEPT ![o] = NewMemPiece]
           /\ pieces' = IF c \in closed THEN pieces ELSE [pieces EXCEPT ![c][p] = o]
  <2>1. ~obj'[o].complete
    BY <1>0, <1>2 DEF NewMemPiece
  <2>2. pieces'[c][p] = IF c \in closed THEN pieces[c][p] ELSE o
    BY <1>0, <1>2
  <2>3. pieces'[c][p] # None => ~obj'[pieces'[c][p]].complete
    <3>1. CASE pieces'[c][p] = o
      BY <2>1, <3>1
    <3>2. CASE pieces'[c][p] # o /\ pieces'[c][p] # None
      <4>1. pieces'[c][p] = pieces[c][p] /\ pieces[c][p] \in Obj
        BY <1>0, <2>2, <3>2
      <4>2. obj'[pieces[c][p]] = obj[pieces[c][p]]
        BY <1>0, <1>2, <3>2, <4>1
      <4> QED
        BY <3>2, <4>1, <4>2 DEF Incomplete
    <3> QED
      BY <3>1, <3>2
  <2> QED
    BY <1>0, <2>1, <2>2, <2>3 DEF Incomplete, Current, SameDisk
<1> QED
  BY <1>0, <1>1, <1>2 DEF Gets

\* Only the chunks of one piece change, ...
LEMMA ClientDirty ==
  ASSUME TypeOK, NEW c \in Cache, NEW p \in Idx, NEW b,
         client' = [client EXCEPT ![c][p].dirty = @ \cup {b}]
  PROVE  \A d \in Cache, q \in Idx :
           /\ client'[d][q].have = client[d][q].have /\ client'[d][q].hashing = client[d][q].hashing
           /\ d # c \/ q # p => client'[d][q] = client[d][q]
<1>1. \A d \in Cache, q \in Idx : client[d][q] \in ClientType
  BY DEF TypeOK
<1>2. \A d \in Cache, q \in Idx :
        client'[d][q] = IF d = c /\ q = p THEN [client[c][p] EXCEPT !.dirty = @ \cup {b}] ELSE client[d][q]
  BY DEF TypeOK
<1> QED
  BY <1>1, <1>2 DEF ClientType

\* ... or its hash begins.
LEMMA ClientHashing ==
  ASSUME TypeOK, NEW c \in Cache, NEW p \in Idx,
         client' = [client EXCEPT ![c][p].hashing = TRUE]
  PROVE  /\ client'[c][p].hashing
         /\ \A d \in Cache, q \in Idx :
              /\ client'[d][q].have = client[d][q].have /\ client'[d][q].dirty = client[d][q].dirty
              /\ d # c \/ q # p => client'[d][q] = client[d][q]
<1>1. \A d \in Cache, q \in Idx : client[d][q] \in ClientType
  BY DEF TypeOK
<1>2. \A d \in Cache, q \in Idx :
        client'[d][q] = IF d = c /\ q = p THEN [client[c][p] EXCEPT !.hashing = TRUE] ELSE client[d][q]
  BY DEF TypeOK
<1> QED
  BY <1>1, <1>2 DEF ClientType

LEMMA BeginWriteOK ==
  ASSUME TInv, TInv', OpenOK, PiecesOK, NoResurrection, NEW t \in Thread,
         NEW c \in Cache, NEW p \in Idx, NEW b \in Block, BeginWrite(t, c, p, b)
  PROVE  OpenOK' /\ PiecesOK'
<1>1. /\ GetOrCreate(t, c, p, "write", "write", b) /\ Started(c) /\ Still /\ UNCHANGED <<have, updates>>
      /\ ~client[c][p].have /\ ~client[c][p].hashing
      /\ client' = [client EXCEPT ![c][p].dirty = @ \cup {b}]
  BY DEF BeginWrite, Still, cacheVars, diskVars
<1>2. PICK o \in Obj : Gets(t, c, p, "write", o)
  BY <1>1, GetOrCreateGets
<1>3. th'[t].pc = "write" /\ lock[c] = None
  BY <1>1, GetOrCreateGets
<1>4. Only(t) /\ th'[t].op = "write" /\ th'[t].c = c
  BY <1>2 DEF Gets
<1>5. OpenKept(t)
  BY <1>1, <1>3, <1>4 DEF OpenKept, Still, SameOpen, Started, Closing
<1>6. \A d \in Cache, q \in Idx :
        /\ client'[d][q].have = client[d][q].have /\ client'[d][q].hashing = client[d][q].hashing
        /\ d # c \/ q # p => client'[d][q] = client[d][q]
  BY <1>1, ClientDirty DEF TInv
<1>7. Works(t)'
  <2>1. Incomplete(c, p)
    BY <1>1, <1>3, FetchedIncomplete
  <2>2. /\ Incomplete(th[t].c, th[t].p)' /\ Current(t)' /\ ~obj'[o].complete
        /\ th'[t].c = c /\ th'[t].p = p /\ th'[t].o = o
    BY <1>1, <1>2, <2>1, GetsIncomplete DEF SameDisk, Still
  <2> QED
    BY <1>1, <1>3, <1>4, <1>6, <2>2 DEF Works, WritingOK, HashingOK, MarkingOK, LoadingOK
<1>8. OneHash'
  BY <1>4, OneHashKeeps DEF PiecesOK
<1>9. PiecesOK'
  <2>1. \A u \in Thread \ {t} : th[u].op \in {"write", "hash", "mark"} =>
           client'[th[u].c][th[u].p].hashing = client[th[u].c][th[u].p].hashing
    BY <1>6, Locals
  <2>2. \A d \in Cache, q \in Idx :
           /\ client'[d][q].have = client[d][q].have
           /\ client[d][q].hashing => client'[d][q].hashing
           /\ client'[d][q].have /\ ~client'[d][q].hashing => client'[d][q].dirty = client[d][q].dirty
    BY <1>1, <1>6
  <2> QED
    BY <1>1, <1>2, <1>3, <1>7, <1>8, <2>1, <2>2, GetsOK DEF SameDisk, Still, SameOpen, Started
<1> QED
  BY <1>5, <1>9, OpenKeeps

LEMMA BeginHashOK ==
  ASSUME TInv, TInv', OpenOK, PiecesOK, NoResurrection, NEW t \in Thread,
         NEW c \in Cache, NEW p \in Idx, BeginHash(t, c, p)
  PROVE  OpenOK' /\ PiecesOK'
<1>1. /\ GetOrCreate(t, c, p, "hydrate", "hash", 1) /\ Started(c) /\ Still /\ UNCHANGED <<have, updates>>
      /\ client[c][p].dirty = Block /\ ~client[c][p].hashing /\ ~WriteActive(c, p)
      /\ client' = [client EXCEPT ![c][p].hashing = TRUE]
  BY DEF BeginHash, Still, cacheVars, diskVars
<1>2. PICK o \in Obj : Gets(t, c, p, "hash", o)
  BY <1>1, GetOrCreateGets
<1>3. th'[t].pc = "hydrate" /\ lock[c] = None
  BY <1>1, GetOrCreateGets
<1>4. Only(t) /\ th'[t].op = "hash" /\ th'[t].c = c /\ th'[t].p = p
  BY <1>2 DEF Gets
<1>5. OpenKept(t)
  BY <1>1, <1>3, <1>4 DEF OpenKept, Still, SameOpen, Started, Closing
<1>6. /\ client'[c][p].hashing
      /\ \A d \in Cache, q \in Idx :
           /\ client'[d][q].have = client[d][q].have /\ client'[d][q].dirty = client[d][q].dirty
           /\ d # c \/ q # p => client'[d][q] = client[d][q]
  BY <1>1, ClientHashing DEF TInv
<1>7. ASSUME NEW u \in Thread, th[u].op \in {"write", "hash", "mark"}
      PROVE  th[u].c # c \/ th[u].p # p
  <2>1. CASE th[u].op = "write"
    BY <1>1, <2>1 DEF WriteActive
  <2>2. CASE th[u].op \in {"hash", "mark"}
    <3>1. client[th[u].c][th[u].p].hashing
      BY <2>2 DEF PiecesOK, BusyOK, HashingOK, MarkingOK
    <3> QED
      BY <1>1, <3>1
  <2> QED
    BY <1>7, <2>1, <2>2
<1>8. Works(t)'
  <2>0. 1 \in Block
    BY ConstantsAssumption DEF Block
  <2>1. ~client[c][p].have
    BY <1>1, <2>0 DEF PiecesOK, KnownOK
  <2>2. Incomplete(c, p)
    BY <1>1, <1>3, <2>1, FetchedIncomplete
  <2>3. /\ Incomplete(th[t].c, th[t].p)' /\ Current(t)' /\ ~obj'[o].complete
        /\ th'[t].c = c /\ th'[t].p = p /\ th'[t].o = o
    BY <1>1, <1>2, <2>2, GetsIncomplete DEF SameDisk, Still
  <2> QED
    BY <1>3, <1>4, <1>6, <2>3 DEF Works, WritingOK, HashingOK, MarkingOK, LoadingOK
<1>9. OneHash'
  BY <1>4, <1>7 DEF PiecesOK, OneHash, Only
<1>10. PiecesOK'
  <2>1. \A u \in Thread \ {t} : th[u].op \in {"write", "hash", "mark"} =>
           client'[th[u].c][th[u].p].hashing = client[th[u].c][th[u].p].hashing
    BY <1>6, <1>7, Locals
  <2>2. \A d \in Cache, q \in Idx :
           /\ client'[d][q].have = client[d][q].have
           /\ client[d][q].hashing => client'[d][q].hashing
           /\ client'[d][q].have /\ ~client'[d][q].hashing => client'[d][q].dirty = client[d][q].dirty
    BY <1>6
  <2> QED
    BY <1>1, <1>2, <1>3, <1>8, <1>9, <2>1, <2>2, GetsOK DEF SameDisk, Still, SameOpen, Started
<1> QED
  BY <1>5, <1>10, OpenKeeps

LEMMA MarkGetOK ==
  ASSUME TInv, TInv', OpenOK, PiecesOK, NEW t \in Thread, MarkGet(t)
  PROVE  OpenOK' /\ PiecesOK'
<1> DEFINE c == th[t].c
           p == th[t].p
<1>1. /\ GetOrCreate(t, c, p, "markmp", "mark", 1) /\ Still /\ UNCHANGED <<client, have, updates>>
      /\ th[t].pc = "mark"
  BY DEF MarkGet, Still, cacheVars, diskVars, clientVars
<1>2. th[t].op = "hash" /\ c \in Cache /\ p \in Idx /\ th[t].o \in Obj /\ th[t].o # None /\ Started(c)
  <2>1. th[t].op = "hash"
    BY <1>1 DEF TInv, ThreadOK, Consistent
  <2> QED
    BY <2>1, Locals, ConstantsAssumption DEF OpenOK
<1>3. /\ client[c][p].hashing /\ Incomplete(c, p) /\ Current(t)
      /\ c \notin closed => obj[th[t].o].bytes = Block
  BY <1>1, <1>2 DEF PiecesOK, BusyOK, HashingOK
<1> HIDE DEF c, p
<1>4. PICK o \in Obj : Gets(t, c, p, "mark", o)
  BY <1>1, <1>2, GetOrCreateGets
<1>5. th'[t].pc = "markmp"
  BY <1>1, <1>2, GetOrCreateGets
<1>6. Only(t) /\ th'[t].op = "mark" /\ th'[t].c = c /\ th'[t].p = p
  BY <1>4 DEF Gets
<1>7. OpenKept(t)
  BY <1>1, <1>2, <1>5, <1>6 DEF OpenKept, Still, SameOpen, Started, Closing
<1>8. Works(t)'
  <2>1. /\ Incomplete(th[t].c, th[t].p)' /\ Current(t)' /\ ~obj'[o].complete
        /\ th'[t].c = c /\ th'[t].p = p /\ th'[t].o = o
    BY <1>1, <1>2, <1>3, <1>4, GetsIncomplete DEF SameDisk, Still
  <2>2. c \notin closed \/ obj'[o].data => obj'[o].bytes = Block
    <3>1. CASE c \notin closed
      <4>1. pieces[c][p] = th[t].o
        BY <1>3, <3>1 DEF Current, c, p
      <4>2. o = th[t].o /\ obj' = obj
        BY <1>2, <1>4, <3>1, <4>1 DEF Gets
      <4> QED
        BY <1>3, <3>1, <4>2
    <3>2. CASE c \in closed
      BY <1>4, <3>2 DEF Gets, NewMemPiece, TInv, TypeOK
    <3> QED
      BY <3>1, <3>2
  <2> QED
    BY <1>1, <1>3, <1>5, <1>6, <2>1, <2>2 DEF Works, WritingOK, HashingOK, MarkingOK, LoadingOK,
       Still
<1>9. OneHash'
  BY <1>2, <1>6, OneHashKeeps DEF PiecesOK, c, p
<1>10. PiecesOK'
  BY <1>1, <1>2, <1>4, <1>5, <1>8, <1>9, GetsOK DEF SameDisk, Still, SameOpen, Started
<1> QED
  BY <1>7, <1>10, OpenKeeps

-----------------------------------------------------------------------------
(* WriteAt, LoadComplete and MarkComplete: one object changes *)

\* The thread relies on its piece being incomplete.
Active(u) == th[u].op \in {"write", "hash"} \/ (th[u].op = "mark" /\ th[u].pc = "markmp")

SamePiece(t, u) == th[u].c = th[t].c /\ th[u].p = th[t].p

\* Thread t changes its object to m: it takes nothing away, completes it only if nobody else
\* works on the piece and the client knows, and gives it a buffer only with all its bytes or
\* while it is in the map.
Edits(t, m) ==
  LET o == th[t].o
      c == th[t].c
      p == th[t].p
  IN /\ obj' = [obj EXCEPT ![o] = m]
     /\ ReceivedOK(m) /\ m \in MemPieceType
     /\ obj[o].bytes \subseteq m.bytes /\ (obj[o].data => m.data)
     /\ m.data /\ ~obj[o].data => m.bytes = Block \/ Current(t)
     /\ m.complete /\ ~obj[o].complete =>
          /\ \A u \in Thread \ {t} : Active(u) => ~SamePiece(t, u)
          /\ client[c][p].have \/ client[c][p].hashing
          /\ c \notin closed /\ pieces[c][p] = o => m.data
     /\ m.data /\ ~obj[o].data =>
          \/ m.bytes = Block
          \/ \A u \in Thread : th[u].op \in {"hash", "mark"} => ~SamePiece(t, u)
     /\ IsComplete(m) => IsComplete(obj[o]) \/ client[c][p].have \/ client[c][p].hashing

LEMMA EditsOK ==
  ASSUME TInv, TInv', PiecesOK, NEW t \in Thread, NEW m, Edits(t, m),
         th[t].op \in {"write", "read", "reader", "mark"}, Only(t), Keeps(t), th'[t].pc # "serve",
         UNCHANGED <<pieces, client, have, closed>>, SameOpen, Works(t)'
  PROVE  PiecesOK'
<1> DEFINE o == th[t].o
           c == th[t].c
           p == th[t].p
<1>0. o \in Obj /\ o # None /\ c \in Cache /\ p \in Idx
  BY Locals
<1>1. obj'[o] = m /\ \A x \in Obj \ {o} : obj'[x] = obj[x]
  BY <1>0 DEF Edits, TInv, TypeOK
<1>2. \A u \in Thread : th[u].o = o => SamePiece(t, u)
  BY <1>0 DEF PiecesOK, OwnOK, SamePiece
<1>3. \A d \in Cache, q \in Idx : pieces[d][q] = o => d = c /\ q = p
  BY <1>0 DEF PiecesOK, OwnOK
<1>3a. \A d \in Cache, q \in Idx : pieces[d][q] \in Obj \cup {None}
  BY DEF TInv, TypeOK
<1>4. OwnOK' /\ OneHash'
  <2>1. OwnOK'
    BY QuietOwn DEF PiecesOK, Keeps
  <2> QED
    BY <2>1, OneHashKeeps DEF PiecesOK, Keeps
<1>5. ASSUME NEW u \in Thread PROVE Works(u)'
  <2>1. CASE u = t
    BY <2>1
  <2>2. CASE u # t
    <3>0. th'[u] = th[u]
      BY <2>2 DEF Only
    <3>1. ASSUME Active(u)
          PROVE  /\ Incomplete(th[u].c, th[u].p)'
                 /\ obj'[th[u].o].complete => obj[th[u].o].complete
                 /\ \/ obj[th[u].o].bytes \subseteq obj'[th[u].o].bytes /\ (obj'[th[u].o].data => obj[th[u].o].data)
                    \/ obj'[th[u].o].bytes = Block
                    \/ th[u].op = "write"
      <4>0. th[u].c \in Cache /\ th[u].p \in Idx /\ th[u].o \in Obj /\ Incomplete(th[u].c, th[u].p)
        BY <3>1, Locals DEF Active, PiecesOK, BusyOK, WritingOK, HashingOK, MarkingOK
      <4>1. SamePiece(t, u) => (m.complete => obj[o].complete)
        BY <2>2, <3>1 DEF Edits
      <4>2. pieces[th[u].c][th[u].p] # None => ~obj'[pieces[th[u].c][th[u].p]].complete
        <5>1. CASE pieces[th[u].c][th[u].p] = o
          BY <1>0, <1>1, <1>3, <4>0, <4>1, <5>1 DEF Incomplete, SamePiece
        <5>2. CASE pieces[th[u].c][th[u].p] # o
          BY <1>1, <1>3a, <4>0, <5>2 DEF Incomplete
        <5> QED
          BY <5>1, <5>2
      <4>3. Incomplete(th[u].c, th[u].p)'
        BY <3>0, <4>0, <4>2 DEF Incomplete
      <4>4. CASE th[u].o = o
        BY <1>1, <1>2, <3>1, <4>1, <4>3, <4>4 DEF Edits, Active
      <4>5. CASE th[u].o # o
        BY <1>1, <4>0, <4>3, <4>5
      <4> QED
        BY <4>4, <4>5
    <3>2. Undisturbed(u)
      BY <3>0, <3>1 DEF Undisturbed, Active
    <3>3. Works(u)
      BY DEF PiecesOK, BusyOK, Works
    <3> QED
      BY <3>2, <3>3, UndisturbedWorks
  <2> QED
    BY <2>1, <2>2
<1>6. MappedOK'
  <2> SUFFICES ASSUME NEW d \in Cache \ closed, NEW q \in Idx, pieces[d][q] # None,
                      obj'[pieces[d][q]].complete
               PROVE  obj'[pieces[d][q]].data
    BY DEF MappedOK
  <2>1. CASE pieces[d][q] = o
    BY <1>1, <1>3, <2>1 DEF Edits, PiecesOK, MappedOK
  <2>2. CASE pieces[d][q] # o
    BY <1>1, <1>3a, <2>2 DEF PiecesOK, MappedOK
  <2> QED
    BY <2>1, <2>2
<1>7. KnownOK'
  <2>1. ASSUME NEW d \in Cache, NEW q \in Idx, PieceComplete(d, q)'
        PROVE  PieceComplete(d, q) \/ client[d][q].have \/ client[d][q].hashing
    <3>1. CASE pieces[d][q] # None /\ IsComplete(obj'[pieces[d][q]])
      <4>1. CASE pieces[d][q] = o
        BY <1>0, <1>1, <1>3, <3>1, <4>1 DEF Edits, PieceComplete
      <4>2. CASE pieces[d][q] # o
        BY <1>1, <1>3a, <3>1, <4>2 DEF PieceComplete
      <4> QED
        BY <4>1, <4>2
    <3>2. CASE d \in DiskCaches /\ q \in have[d]
      BY <3>2 DEF PieceComplete
    <3> QED
      BY <2>1, <3>1, <3>2 DEF PieceComplete, IsComplete
  <2> QED
    BY <2>1 DEF PiecesOK, KnownOK, SameOpen
<1>8. ASSUME NEW x \in Obj PROVE ReceivedOK(obj[x])'
  <2>1. CASE x = o
    BY <1>1, <2>1 DEF Edits, ReceivedOK
  <2>2. CASE x # o
    BY <1>1, <2>2 DEF PiecesOK, ReceivedOK
  <2> QED
    BY <2>1, <2>2
<1>9. ASSUME NEW r \in Reader PROVE ServingOK(r)'
  <2>1. CASE r = t
    BY <2>1 DEF ServingOK
  <2>2. CASE r # t
    <3> SUFFICES ASSUME th[r].pc = "serve", th[r].c \notin closed
                 PROVE  /\ obj'[th[r].o].data \/ pieces[th[r].c][th[r].p] # th[r].o
                        /\ obj'[th[r].o].data => th[r].b \in obj'[th[r].o].bytes
      BY <2>2 DEF ServingOK, Only, Thread
    <3>0. r \in Thread /\ th[r].o \in Obj /\ th[r].b \in Block
      BY Locals DEF Thread
    <3>1. /\ obj[th[r].o].data \/ pieces[th[r].c][th[r].p] # th[r].o
          /\ obj[th[r].o].data => th[r].b \in obj[th[r].o].bytes
      BY DEF PiecesOK, ServingOK
    <3>2. CASE th[r].o = o
      <4>1. SamePiece(t, r)
        BY <1>2, <3>0, <3>2
      <4>2. CASE obj[o].data
        BY <1>1, <3>1, <3>2, <4>2 DEF Edits
      <4>3. CASE ~obj[o].data
        <5>1. pieces[th[r].c][th[r].p] # o
          BY <3>1, <3>2, <4>3
        <5>2. ~Current(t)
          BY <4>1, <5>1 DEF Current, SamePiece
        <5> QED
          BY <1>1, <3>0, <3>2, <4>3, <5>1, <5>2 DEF Edits
      <4> QED
        BY <4>2, <4>3
    <3>3. CASE th[r].o # o
      BY <1>1, <3>0, <3>1, <3>3
    <3> QED
      BY <3>2, <3>3
  <2> QED
    BY <2>1, <2>2
<1>10. BusyOK'
  BY <1>5 DEF BusyOK, Works
<1> QED
  BY <1>4, <1>6, <1>7, <1>8, <1>9, <1>10 DEF PiecesOK

\* Nobody hashes a piece that is being written.
LEMMA WriterAlone ==
  ASSUME PiecesOK, NEW t \in Thread, th[t].op = "write", NEW u \in Thread,
         th[u].op \in {"hash", "mark"}
  PROVE  ~SamePiece(t, u)
  BY DEF PiecesOK, BusyOK, WritingOK, HashingOK, MarkingOK, SamePiece

\* Nobody else relies on a piece that is being marked.
LEMMA MarkerAlone ==
  ASSUME PiecesOK, NEW t \in Thread, th[t].op \in {"hash", "mark"}, NEW u \in Thread \ {t},
         Active(u)
  PROVE  ~SamePiece(t, u)
<1>1. client[th[t].c][th[t].p].hashing
  BY DEF PiecesOK, BusyOK, HashingOK, MarkingOK
<1>2. CASE th[u].op = "write"
  BY <1>1, <1>2 DEF PiecesOK, BusyOK, WritingOK, SamePiece
<1>3. CASE th[u].op \in {"hash", "mark"}
  BY <1>3 DEF PiecesOK, OneHash, SamePiece
<1> QED
  BY <1>2, <1>3 DEF Active

LEMMA WriteAtOK ==
  ASSUME TInv, TInv', OpenOK, PiecesOK, NEW t \in Thread, WriteAt(t)
  PROVE  OpenOK' /\ PiecesOK'
<1> DEFINE m == Written(obj[th[t].o], th[t].b)
<1>1. /\ th[t].pc = "write" /\ obj' = [obj EXCEPT ![th[t].o] = m] /\ GotoN(t, "fill", 1)
      /\ UNCHANGED <<pieces, client, have, updates>> /\ Still
  BY DEF WriteAt, Still, cacheVars, diskVars, clientVars
<1>2. th[t].op = "write"
  BY <1>1 DEF TInv, ThreadOK, Consistent
<1>3. th[t].o \in Obj /\ th[t].b \in Block /\ obj[th[t].o] \in MemPieceType
  BY <1>2, Locals DEF TInv, TypeOK
<1>4. Only(t) /\ Keeps(t) /\ th'[t].pc = "fill"
  BY <1>1, GotoNMoves DEF TInv
<1>5. /\ ~client[th[t].c][th[t].p].hashing /\ Incomplete(th[t].c, th[t].p)
      /\ ~obj[th[t].o].complete /\ Current(t) /\ ReceivedOK(obj[th[t].o])
  BY <1>2, <1>3 DEF PiecesOK, BusyOK, WritingOK
<1>6. /\ m.data /\ m.bytes = obj[th[t].o].bytes \cup {th[t].b}
      /\ m.complete = obj[th[t].o].complete
      /\ m.written = IF obj[th[t].o].tracked THEN obj[th[t].o].written \cup {th[t].b}
                     ELSE obj[th[t].o].written
      /\ m \in MemPieceType
  BY <1>3, MemPieceTypes DEF Written, MemPieceType
<1> HIDE DEF m
<1>7. ReceivedOK(m)
  BY <1>5, <1>6 DEF ReceivedOK
<1>8. Edits(t, m)
  BY <1>1, <1>2, <1>5, <1>6, <1>7, WriterAlone DEF Edits, IsComplete
<1>9. Works(t)'
  <2>1. obj'[th[t].o] = m /\ \A x \in Obj \ {th[t].o} : obj'[x] = obj[x]
    BY <1>1, <1>3 DEF TInv, TypeOK
  <2>2. pieces[th[t].c][th[t].p] # None => ~obj'[pieces[th[t].c][th[t].p]].complete
    <3>1. th[t].c \in Cache /\ th[t].p \in Idx
      BY <1>2, Locals
    <3>2. pieces[th[t].c][th[t].p] \in Obj \cup {None}
      BY <3>1 DEF TInv, TypeOK
    <3> QED
      BY <1>5, <1>6, <2>1, <3>2 DEF Incomplete
  <2>3. WritingOK(t)'
    BY <1>1, <1>4, <1>5, <1>6, <2>1, <2>2 DEF WritingOK, Incomplete, Current, Keeps, Still
  <2> QED
    BY <1>2, <1>4, <2>3 DEF Works, HashingOK, MarkingOK, LoadingOK, Keeps
<1>10. OpenKept(t)
  BY <1>1, <1>4, StillOpen DEF Keeps, Closing
<1>11. PiecesOK'
  BY <1>1, <1>2, <1>4, <1>8, <1>9, EditsOK DEF Still, SameOpen, Started
<1> QED
  BY <1>10, <1>11, OpenKeeps

LEMMA LoadCompleteOK ==
  ASSUME TInv, TInv', OpenOK, PiecesOK, NEW t \in Thread, LoadComplete(t)
  PROVE  OpenOK' /\ PiecesOK'
<1> DEFINE m == Loaded(obj[th[t].o])
<1>1. /\ th[t].pc = "load" /\ UNCHANGED <<pieces, client, have, updates>> /\ Still
      /\ \/ Goto(t, "access") /\ UNCHANGED obj
         \/ /\ ~obj[th[t].o].data /\ obj' = [obj EXCEPT ![th[t].o] = m] /\ GotoN(t, "fill", NumBlocks)
  BY DEF LoadComplete, Still, cacheVars, diskVars, clientVars
<1>2. th[t].op \in {"read", "reader"} /\ th[t].c \in DiskCaches /\ th[t].p \in have[th[t].c]
  <2>1. th[t].op # "hash"
    BY <1>1, NotHashing
  <2> QED
    BY <1>1, <2>1 DEF TInv, ThreadOK, Consistent, PiecesOK, BusyOK, LoadingOK
<1>3. th[t].c \in Cache /\ th[t].p \in Idx /\ th[t].o \in Obj /\ obj[th[t].o] \in MemPieceType
  BY <1>2, Locals DEF TInv, TypeOK
<1>4. CASE Goto(t, "access") /\ UNCHANGED obj
  <2>1. QuietStep(t)
    BY <1>1, <1>2, <1>4, GotoQuiet DEF SamePieces, Closing
  <2> QED
    BY <2>1, QuietOK, OpenKeeps DEF QuietStep, OpenKept
<1>5. CASE ~obj[th[t].o].data /\ obj' = [obj EXCEPT ![th[t].o] = m] /\ GotoN(t, "fill", NumBlocks)
  <2>1. Only(t) /\ Keeps(t) /\ th'[t].pc = "fill"
    BY <1>5, GotoNMoves DEF TInv
  <2>2. m.data /\ m.bytes = Block /\ m \in MemPieceType /\ m.written \subseteq Block
    BY <1>3, MemPieceTypes DEF Loaded, MemPieceType
  <2> HIDE DEF m
  <2>3. ReceivedOK(m)
    BY <2>2 DEF ReceivedOK
  <2>4. client[th[t].c][th[t].p].have \/ client[th[t].c][th[t].p].hashing
    <3>1. Started(th[t].c) /\ PieceComplete(th[t].c, th[t].p)
      BY <1>2, <1>3, ConstantsAssumption DEF OpenOK, PieceComplete
    <3> QED
      BY <1>3, <3>1 DEF PiecesOK, KnownOK
  <2>5. ASSUME NEW u \in Thread, Active(u) PROVE ~SamePiece(t, u)
    BY <1>2, <2>5 DEF Active, SamePiece, PiecesOK, BusyOK, WritingOK, HashingOK, MarkingOK,
       Incomplete
  <2>6. Edits(t, m)
    <3>1. obj[th[t].o].bytes \subseteq Block
      BY <1>3 DEF MemPieceType
    <3> QED
      BY <1>5, <2>2, <2>3, <2>4, <2>5, <3>1 DEF Edits
  <2>7. Works(t)'
    BY <1>2, <2>1 DEF Works, WritingOK, HashingOK, MarkingOK, LoadingOK, Keeps
  <2>8. OpenKept(t)
    BY <1>1, <2>1, StillOpen DEF Keeps, Closing
  <2>9. PiecesOK'
    BY <1>1, <1>2, <2>1, <2>6, <2>7, EditsOK DEF Still, SameOpen, Started
  <2> QED
    BY <2>8, <2>9, OpenKeeps
<1> QED
  BY <1>1, <1>4, <1>5

LEMMA MarkCompleteOK ==
  ASSUME TInv, TInv', OpenOK, PiecesOK, NEW t \in Thread, MarkComplete(t)
  PROVE  OpenOK' /\ PiecesOK'
<1> DEFINE m == Completed(obj[th[t].o])
<1>1. /\ th[t].pc = "markmp" /\ UNCHANGED <<pieces, client, have, updates>> /\ Still
      /\ obj' = [obj EXCEPT ![th[t].o] = m]
      /\ \E pc \in {"persist", "evict"} : Goto(t, pc)
  BY DEF MarkComplete, Still, cacheVars, diskVars, clientVars
<1>2. th[t].op = "mark"
  BY <1>1 DEF TInv, ThreadOK, Consistent
<1>3. th[t].o \in Obj /\ obj[th[t].o] \in MemPieceType
  BY <1>2, Locals DEF TInv, TypeOK
<1>4. Only(t) /\ Keeps(t) /\ th'[t].pc \in {"persist", "evict"}
  BY <1>1, GotoMoves DEF TInv
<1>5. /\ client[th[t].c][th[t].p].hashing /\ ReceivedOK(obj[th[t].o])
      /\ th[t].c \notin closed \/ obj[th[t].o].data => obj[th[t].o].bytes = Block
  BY <1>1, <1>2, <1>3 DEF PiecesOK, BusyOK, MarkingOK
<1>6. /\ m.data = obj[th[t].o].data /\ m.bytes = obj[th[t].o].bytes /\ m \in MemPieceType
      /\ m.written = IF obj[th[t].o].data /\ obj[th[t].o].tracked THEN Block ELSE obj[th[t].o].written
  BY <1>3, MemPieceTypes DEF Completed, MemPieceType
<1> HIDE DEF m
<1>7. ReceivedOK(m)
  BY <1>5, <1>6 DEF ReceivedOK
<1>8. 1 \in Block
  BY ConstantsAssumption DEF Block
<1>9. th[t].c \notin closed => m.data
  BY <1>5, <1>6, <1>8 DEF ReceivedOK
<1>10. Edits(t, m)
  BY <1>1, <1>2, <1>5, <1>6, <1>7, <1>9, MarkerAlone DEF Edits
<1>11. Works(t)'
  BY <1>1, <1>2, <1>4, <1>5 DEF Works, WritingOK, HashingOK, MarkingOK, LoadingOK, Keeps
<1>12. OpenKept(t)
  BY <1>1, <1>4, StillOpen DEF Keeps, Closing
<1>13. PiecesOK'
  BY <1>1, <1>2, <1>4, <1>10, <1>11, EditsOK DEF Still, SameOpen, Started
<1> QED
  BY <1>12, <1>13, OpenKeeps

-----------------------------------------------------------------------------
(* MarkNotComplete, evictPiece and Close: a piece leaves the map *)

Drops(t, c, p) ==
  /\ Only(t) /\ Keeps(t) /\ th'[t].pc # "serve"
  /\ pieces[c][p] # None
  /\ obj' = [obj EXCEPT ![pieces[c][p]] = Released(@)]
  /\ pieces' = [pieces EXCEPT ![c][p] = None]
  /\ \/ c \in closed
     \/ \A u \in Thread \ {t} : Active(u) => ~(th[u].c = c /\ th[u].p = p)

\* What becomes of the objects and of the map.
LEMMA DropsEffect ==
  ASSUME TInv, PiecesOK, NEW t \in Thread, NEW c \in Cache, NEW p \in Idx, Drops(t, c, p)
  PROVE  /\ pieces[c][p] \in Obj
         /\ ~obj'[pieces[c][p]].data /\ ~obj'[pieces[c][p]].complete
         /\ obj'[pieces[c][p]].bytes = {} /\ obj'[pieces[c][p]].written = {}
         /\ \A x \in Obj \ {pieces[c][p]} : obj'[x] = obj[x]
         /\ pieces'[c][p] = None
         /\ \A d \in Cache, q \in Idx :
              d # c \/ q # p => /\ pieces'[d][q] = pieces[d][q]
                                /\ pieces[d][q] # None => obj'[pieces[d][q]] = obj[pieces[d][q]]
         /\ \A u \in Thread : th[u].o = pieces[c][p] => th[u].c = c /\ th[u].p = p
<1>1. pieces[c][p] \in Obj /\ \A d \in Cache, q \in Idx : pieces[d][q] \in Obj \cup {None}
  BY DEF Drops, TInv, TypeOK
<1>2. /\ obj'[pieces[c][p]] = Released(obj[pieces[c][p]])
      /\ \A x \in Obj \ {pieces[c][p]} : obj'[x] = obj[x]
  BY <1>1 DEF Drops, TInv, TypeOK
<1>3. /\ pieces'[c][p] = None
      /\ \A d \in Cache, q \in Idx : d # c \/ q # p => pieces'[d][q] = pieces[d][q]
  BY DEF Drops, TInv, TypeOK
<1>4. \A d \in Cache, q \in Idx : pieces[d][q] = pieces[c][p] => d = c /\ q = p
  BY DEF Drops, PiecesOK, OwnOK
<1>5. \A u \in Thread : th[u].o = pieces[c][p] => th[u].c = c /\ th[u].p = p
  BY DEF Drops, PiecesOK, OwnOK
<1> QED
  BY <1>1, <1>2, <1>3, <1>4, <1>5 DEF Released

LEMMA DropsIncomplete ==
  ASSUME TInv, PiecesOK, NEW t \in Thread, NEW c \in Cache, NEW p \in Idx, Drops(t, c, p),
         UNCHANGED have,
         NEW u \in Thread, th'[u].c = th[u].c, th'[u].p = th[u].p, th[u].c \in Cache, th[u].p \in Idx,
         Incomplete(th[u].c, th[u].p)
  PROVE  Incomplete(th[u].c, th[u].p)'
<1>1. CASE th[u].c = c /\ th[u].p = p
  BY <1>1, DropsEffect DEF Incomplete
<1>2. CASE th[u].c # c \/ th[u].p # p
  BY <1>2, DropsEffect DEF Incomplete
<1> QED
  BY <1>1, <1>2

LEMMA DropsOK ==
  ASSUME TInv, TInv', PiecesOK, NEW t \in Thread, NEW c \in Cache, NEW p \in Idx, Drops(t, c, p),
         UNCHANGED <<client, have, closed>>, SameOpen, Works(t)'
  PROVE  PiecesOK'
<1> DEFINE o == pieces[c][p]
<1>1. /\ o \in Obj /\ o # None /\ ~obj'[o].data /\ ~obj'[o].complete
      /\ obj'[o].bytes = {} /\ obj'[o].written = {}
      /\ \A x \in Obj \ {o} : obj'[x] = obj[x]
      /\ pieces'[c][p] = None
      /\ \A d \in Cache, q \in Idx :
           d # c \/ q # p => /\ pieces'[d][q] = pieces[d][q]
                             /\ pieces[d][q] # None => obj'[pieces[d][q]] = obj[pieces[d][q]]
      /\ \A u \in Thread : th[u].o = o => th[u].c = c /\ th[u].p = p
  <2>1. pieces[c][p] # None
    BY DEF Drops
  <2> QED
    BY <2>1, DropsEffect
<1> HIDE DEF o
<1>2. OwnOK' /\ OneHash'
  <2>1. \A d \in Cache, q \in Idx : pieces'[d][q] \in {pieces[d][q], None}
    BY <1>1
  <2>2. OwnOK'
    BY <2>1, QuietOwn DEF PiecesOK, Drops, Keeps
  <2> QED
    BY <2>2, OneHashKeeps DEF PiecesOK, Drops, Keeps
<1>3. ASSUME NEW u \in Thread PROVE Works(u)'
  <2>1. CASE u = t
    BY <2>1
  <2>2. CASE u # t
    <3>0. th'[u] = th[u]
      BY <2>2 DEF Drops, Only
    <3>1. ASSUME Active(u)
          PROVE  /\ Incomplete(th[u].c, th[u].p)'
                 /\ th[u].c \notin closed => pieces'[th[u].c][th[u].p] = pieces[th[u].c][th[u].p]
                 /\ obj'[th[u].o].complete => obj[th[u].o].complete
                 /\ \/ obj[th[u].o].bytes \subseteq obj'[th[u].o].bytes /\ (obj'[th[u].o].data => obj[th[u].o].data)
                    \/ th[u].c \in closed /\ ~obj'[th[u].o].data
      <4>0. th[u].c \in Cache /\ th[u].p \in Idx /\ th[u].o \in Obj /\ Incomplete(th[u].c, th[u].p)
        BY <3>1, Locals DEF Active, PiecesOK, BusyOK, WritingOK, HashingOK, MarkingOK
      <4>1. th[u].c = c /\ th[u].p = p => c \in closed
        BY <2>2, <3>1 DEF Drops
      <4>2. Incomplete(th[u].c, th[u].p)'
        BY <3>0, <4>0, DropsIncomplete
      <4>3. th[u].c \notin closed => pieces'[th[u].c][th[u].p] = pieces[th[u].c][th[u].p]
        BY <1>1, <4>0, <4>1
      <4>4. CASE th[u].o = o
        BY <1>1, <4>1, <4>2, <4>3, <4>4
      <4>5. CASE th[u].o # o
        BY <1>1, <4>0, <4>2, <4>3, <4>5
      <4> QED
        BY <4>4, <4>5
    <3>2. Undisturbed(u)
      BY <3>0, <3>1 DEF Undisturbed, Active
    <3>3. Works(u)
      BY DEF PiecesOK, BusyOK, Works
    <3> QED
      BY <3>2, <3>3, UndisturbedWorks
  <2> QED
    BY <2>1, <2>2
<1>4. BusyOK'
  BY <1>3 DEF BusyOK, Works
<1>5. MappedOK'
  <2> SUFFICES ASSUME NEW d \in Cache \ closed, NEW q \in Idx, pieces'[d][q] # None,
                      obj'[pieces'[d][q]].complete
               PROVE  obj'[pieces'[d][q]].data
    BY DEF MappedOK
  <2>1. d # c \/ q # p
    BY <1>1
  <2>2. pieces'[d][q] = pieces[d][q] /\ obj'[pieces[d][q]] = obj[pieces[d][q]]
    BY <1>1, <2>1
  <2> QED
    BY <2>2 DEF PiecesOK, MappedOK
<1>6. KnownOK'
  <2>1. ASSUME NEW d \in Cache, NEW q \in Idx, PieceComplete(d, q)' PROVE PieceComplete(d, q)
    <3>1. CASE pieces'[d][q] # None /\ IsComplete(obj'[pieces'[d][q]])
      <4>1. d # c \/ q # p
        BY <1>1, <3>1
      <4> QED
        BY <1>1, <3>1, <4>1 DEF PieceComplete
    <3>2. CASE d \in DiskCaches /\ q \in have[d]
      BY <3>2 DEF PieceComplete
    <3> QED
      BY <2>1, <3>1, <3>2 DEF PieceComplete, IsComplete
  <2> QED
    BY <2>1, KnownKeeps DEF PiecesOK, SameOpen
<1>7. ASSUME NEW x \in Obj PROVE ReceivedOK(obj[x])'
  <2>1. CASE x = o
    BY <1>1, <2>1 DEF ReceivedOK
  <2>2. CASE x # o
    BY <1>1, <2>2 DEF PiecesOK, ReceivedOK
  <2> QED
    BY <2>1, <2>2
<1>8. ASSUME NEW r \in Reader PROVE ServingOK(r)'
  <2>1. CASE r = t
    BY <2>1 DEF ServingOK, Drops
  <2>2. CASE r # t
    <3> SUFFICES ASSUME th[r].pc = "serve", th[r].c \notin closed
                 PROVE  /\ obj'[th[r].o].data \/ pieces'[th[r].c][th[r].p] # th[r].o
                        /\ obj'[th[r].o].data => th[r].b \in obj'[th[r].o].bytes
      BY <2>2 DEF ServingOK, Drops, Only, Thread
    <3>0. r \in Thread /\ th[r].o \in Obj /\ th[r].o # None /\ th[r].c \in Cache /\ th[r].p \in Idx
      BY Locals DEF Thread
    <3>1. CASE th[r].o = o
      BY <1>1, <3>0, <3>1
    <3>2. CASE th[r].o # o
      BY <1>1, <3>0, <3>2 DEF PiecesOK, ServingOK
    <3> QED
      BY <3>1, <3>2
  <2> QED
    BY <2>1, <2>2
<1> QED
  BY <1>2, <1>4, <1>5, <1>6, <1>7, <1>8 DEF PiecesOK

LEMMA MarkNotCompleteOK ==
  ASSUME TInv, TInv', OpenOK, PiecesOK, NEW t \in Thread, MarkNotComplete(t)
  PROVE  OpenOK' /\ PiecesOK'
<1> DEFINE c == th[t].c
           p == th[t].p
<1>1. /\ th[t].pc = "release" /\ UNCHANGED <<client, have, updates>> /\ Still
      /\ \/ (\E n : GotoN(t, "gsub", n)) /\ UNCHANGED <<obj, pieces>>
         \/ /\ \E n : GotoN(t, "gsub", n)
            /\ c \notin closed /\ pieces[c][p] # None
            /\ obj' = [obj EXCEPT ![pieces[c][p]] = Released(@)]
            /\ pieces' = [pieces EXCEPT ![c][p] = None]
  BY DEF MarkNotComplete, Still, cacheVars, diskVars, clientVars
<1>2. th[t].op = "hash"
  BY <1>1 DEF TInv, ThreadOK, Consistent
<1>3. c \in Cache /\ p \in Idx
  BY <1>2, Locals
<1>4. Only(t) /\ Keeps(t) /\ th'[t].pc = "gsub"
  BY <1>1, GotoNMoves DEF TInv
<1>5. OpenKept(t)
  BY <1>1, <1>4, StillOpen DEF Keeps, Closing
<1>6. CASE UNCHANGED <<obj, pieces>>
  <2>1. Arrives(t)
    BY <1>1, <1>4 DEF Arrives
  <2> QED
    BY <1>1, <1>4, <1>5, <1>6, <2>1, OpenKeeps, QuietOK DEF Advance, Quiet, SameDisk, Still,
       OpenKept
<1>7. CASE /\ pieces[c][p] # None
           /\ obj' = [obj EXCEPT ![pieces[c][p]] = Released(@)]
           /\ pieces' = [pieces EXCEPT ![c][p] = None]
  <2>1. \A u \in Thread \ {t} : Active(u) => ~(th[u].c = c /\ th[u].p = p)
    BY <1>2, MarkerAlone DEF SamePiece
  <2> HIDE DEF c, p
  <2>2. Drops(t, c, p)
    BY <1>4, <1>7, <2>1 DEF Drops
  <2>3. Incomplete(th[t].c, th[t].p)'
    BY <1>1, <1>2, <1>3, <1>4, <2>2, DropsIncomplete DEF PiecesOK, BusyOK, HashingOK, Keeps, c, p
  <2>4. Works(t)'
    BY <1>1, <1>2, <1>4, <2>3 DEF Works, WritingOK, HashingOK, MarkingOK, LoadingOK, Keeps,
       PiecesOK, BusyOK
  <2>5. PiecesOK'
    BY <1>1, <1>3, <2>2, <2>4, DropsOK DEF Still, SameOpen, Started
  <2> QED
    BY <1>5, <2>5, OpenKeeps
<1> QED
  BY <1>1, <1>6, <1>7

LEMMA EvictPieceOK ==
  ASSUME TInv, TInv', OpenOK, PiecesOK, NEW t \in Thread, NEW k \in th[t].cands, EvictPiece(t, k)
  PROVE  OpenOK' /\ PiecesOK'
<1>1. /\ th[t].pc = "evloop" /\ UNCHANGED <<client, have>> /\ Still
      /\ \/ /\ StillEvictable(k)
            /\ th' = [th EXCEPT ![t].pc = "evsub", ![t].n = obj[k.o].accounted, ![t].cands = @ \ {k}]
            /\ obj' = [obj EXCEPT ![k.o] = Released(@)]
            /\ pieces' = [pieces EXCEPT ![k.c][k.p] = None]
            /\ SpawnUpdate(k.c, k.p)
         \/ /\ th' = [th EXCEPT ![t].cands = @ \ {k}]
            /\ UNCHANGED <<obj, pieces, updates>>
  BY DEF EvictPiece, Still, cacheVars, diskVars
<1>2. k.c \in Cache /\ k.p \in Idx /\ k.o \in Obj /\ k.o # None
  BY ConstantsAssumption DEF TInv, TypeOK, ThreadType, Cand
<1>3. th[t].op # "hash" /\ th[t].op # "write"
  BY <1>1 DEF TInv, ThreadOK, Consistent, PiecesOK, BusyOK, HashingOK
<1>4. th[t] \in ThreadType
  BY DEF TInv, TypeOK
<1>5. Only(t) /\ Keeps(t) /\ th'[t].pc \in {"evloop", "evsub"}
  <2>1. Only(t) /\ (\/ th'[t] = [th[t] EXCEPT !.pc = "evsub", !.n = obj[k.o].accounted, !.cands = @ \ {k}]
                    \/ th'[t] = [th[t] EXCEPT !.cands = @ \ {k}])
    BY <1>1 DEF TInv, TypeOK, Only
  <2> QED
    BY <1>1, <1>4, <2>1 DEF Keeps, ThreadType
<1>6. OpenKept(t)
  BY <1>1, <1>5, StillOpen, SpawnOpen DEF Keeps, Closing
<1>7. CASE UNCHANGED <<obj, pieces>>
  <2>1. Arrives(t)
    BY <1>3, <1>5 DEF Arrives
  <2> QED
    BY <1>1, <1>5, <1>6, <1>7, <2>1, OpenKeeps, QuietOK DEF Advance, Quiet, SameDisk, Still,
       OpenKept
<1>8. CASE /\ StillEvictable(k)
           /\ obj' = [obj EXCEPT ![k.o] = Released(@)]
           /\ pieces' = [pieces EXCEPT ![k.c][k.p] = None]
  <2>1. pieces[k.c][k.p] = k.o /\ obj[k.o].complete
    BY <1>8 DEF StillEvictable, IsComplete
  <2>2. ASSUME NEW u \in Thread, Active(u) PROVE ~(th[u].c = k.c /\ th[u].p = k.p)
    BY <1>2, <2>1, <2>2 DEF Active, PiecesOK, BusyOK, WritingOK, HashingOK, MarkingOK, Incomplete
  <2>3. Drops(t, k.c, k.p)
    BY <1>2, <1>5, <1>8, <2>1, <2>2 DEF Drops
  <2>4. Works(t)'
    BY <1>1, <1>3, <1>5 DEF Works, WritingOK, HashingOK, MarkingOK, LoadingOK, Keeps, PiecesOK,
       BusyOK
  <2>5. PiecesOK'
    BY <1>1, <1>2, <2>3, <2>4, DropsOK DEF Still, SameOpen, Started
  <2> QED
    BY <1>6, <2>5, OpenKeeps
<1> QED
  BY <1>1, <1>7, <1>8

LEMMA CloseReleaseOK ==
  ASSUME TInv, TInv', OpenOK, PiecesOK, NEW t \in Thread, NEW p \in Idx, CloseRelease(t, p)
  PROVE  OpenOK' /\ PiecesOK'
<1> DEFINE c == th[t].c
<1>1. /\ th[t].pc = "closing" /\ UNCHANGED <<client, have, updates>> /\ Still
      /\ \E n : GotoN(t, "closing", n)
      /\ pieces[c][p] # None
      /\ obj' = [obj EXCEPT ![pieces[c][p]] = Released(@)]
      /\ pieces' = [pieces EXCEPT ![c][p] = None]
  BY DEF CloseRelease, Still, cacheVars, diskVars, clientVars
<1>2. th[t].op \in {"close", "drop"} /\ c \in Cache /\ c \in closed
  BY <1>1 DEF TInv, ThreadOK, Consistent, OpenOK
<1>3. Only(t) /\ Keeps(t) /\ th'[t].pc = "closing"
  BY <1>1, GotoNMoves DEF TInv
<1>4. OpenKept(t)
  BY <1>1, <1>3, StillOpen DEF Keeps, Closing
<1> HIDE DEF c
<1>5. Drops(t, c, p)
  BY <1>1, <1>2, <1>3 DEF Drops
<1>6. Works(t)'
  BY <1>2, <1>3 DEF Works, WritingOK, HashingOK, MarkingOK, LoadingOK, Keeps
<1>7. PiecesOK'
  BY <1>1, <1>2, <1>5, <1>6, DropsOK DEF Still, SameOpen, Started
<1> QED
  BY <1>4, <1>7, OpenKeeps

-----------------------------------------------------------------------------
(* What the client is told, and what goes to disk *)

\* A thread stays where it is, goes on with its piece, or lets go of it.
Settles(u) == th'[u] = th[u] \/ Rests(u) \/ (Keeps(u) /\ th'[u].pc # "serve")

LEMMA StaysOK ==
  ASSUME TInv, TInv', PiecesOK, UNCHANGED <<obj, pieces, closed>>, \A u \in Thread : Settles(u),
         BusyOK', KnownOK'
  PROVE  PiecesOK'
<1>1. OwnOK'
  <2>1. \A u \in Thread : \/ th'[u].o = None
                          \/ th'[u].o = th[u].o /\ th'[u].c = th[u].c /\ th'[u].p = th[u].p
    BY DEF Settles, Keeps, Rests, TInv, ThreadOK, Consistent
  <2> QED
    BY <2>1, SMTT(20) DEF PiecesOK, OwnOK
<1>2. OneHash'
  BY DEF PiecesOK, OneHash, Settles, Keeps, Rests
<1>3. MappedOK' /\ \A o \in Obj : ReceivedOK(obj[o])'
  BY DEF PiecesOK, MappedOK, ReceivedOK
<1>4. ASSUME NEW r \in Reader PROVE ServingOK(r)'
  <2>1. r \in Thread
    BY DEF Thread
  <2>2. th'[r].pc = "serve" => th'[r] = th[r]
    BY <2>1 DEF Settles, Rests, TInv, ThreadOK, Consistent
  <2> QED
    BY <2>2 DEF PiecesOK, ServingOK
<1> QED
  BY <1>1, <1>2, <1>3, <1>4 DEF PiecesOK

\* The client hears nothing new of the piece, or what it hears is true and nobody at work on
\* the piece is hurt.
Told(c, p) ==
  \/ client'[c][p] = client[c][p] /\ (Started(c)' => Started(c))
  \/ /\ PieceComplete(c, p) => client'[c][p].have \/ client'[c][p].hashing
     /\ client'[c][p].have /\ ~client'[c][p].hashing => client'[c][p].dirty = {}
     /\ \A u \in Thread :
          th'[u] = th[u] /\ th[u].op \in {"write", "hash", "mark"} /\ th[u].c = c /\ th[u].p = p =>
            client'[c][p].hashing = client[c][p].hashing

LEMMA ToldOK ==
  ASSUME TInv, TInv', PiecesOK, UNCHANGED <<obj, pieces, closed, have>>,
         \A u \in Thread : \/ th'[u] = th[u] \/ Rests(u)
                           \/ Keeps(u) /\ th'[u].op = "reader" /\ th'[u].pc = "refetch",
         \A c \in Cache, p \in Idx : Told(c, p)
  PROVE  PiecesOK'
<1>1. \A u \in Thread : Settles(u)
  BY DEF Settles
<1>2. ASSUME NEW u \in Thread PROVE Works(u)'
  <2>1. CASE th'[u] = th[u]
    <3>1. Works(u)
      BY DEF PiecesOK, BusyOK, Works
    <3>2. ASSUME th[u].op \in {"write", "hash", "mark"}
          PROVE  client'[th[u].c][th[u].p].hashing = client[th[u].c][th[u].p].hashing
      BY <2>1, <3>2, Locals DEF Told
    <3>3. Undisturbed(u)
      BY <2>1, <3>1, <3>2 DEF Undisturbed, Incomplete, Works, WritingOK, HashingOK, MarkingOK
    <3> QED
      BY <3>1, <3>3, UndisturbedWorks
  <2>2. CASE Rests(u) \/ (th'[u].op = "reader" /\ th'[u].pc = "refetch")
    BY <2>2 DEF Rests, Works, WritingOK, HashingOK, MarkingOK, LoadingOK, TInv, ThreadOK, Consistent
  <2> QED
    BY <2>1, <2>2
<1>3. BusyOK'
  BY <1>2 DEF BusyOK, Works
<1>4. KnownOK'
  <2>1. ASSUME NEW c \in Cache, NEW p \in Idx PROVE PieceComplete(c, p)' <=> PieceComplete(c, p)
    BY DEF PieceComplete, IsComplete
  <2> QED
    BY <2>1 DEF PiecesOK, KnownOK, Told
<1> QED
  BY <1>1, <1>3, <1>4, StaysOK

\* Completion is asked again, of a cache that has been opened.
LEMMA AskedAgain ==
  ASSUME TInv, PiecesOK, NEW c \in Cache, NEW p \in Idx, Started(c), SameOpen,
         client' = [client EXCEPT ![c][p].have = PieceComplete(c, p)]
  PROVE  \A d \in Cache, q \in Idx : Told(d, q)
<1>1. /\ client'[c][p] = [client[c][p] EXCEPT !.have = PieceComplete(c, p)]
      /\ \A d \in Cache, q \in Idx : d # c \/ q # p => client'[d][q] = client[d][q]
  BY DEF TInv, TypeOK
<1>2. client[c][p] \in ClientType
  BY DEF TInv, TypeOK
<1>3. /\ client'[c][p].have = PieceComplete(c, p)
      /\ client'[c][p].hashing = client[c][p].hashing /\ client'[c][p].dirty = client[c][p].dirty
  BY <1>1, <1>2 DEF ClientType
<1>4. Told(c, p)
  BY <1>3 DEF Told, PiecesOK, KnownOK
<1> QED
  BY <1>1, <1>4 DEF Told, SameOpen

LEMMA UpdateCompletionOK ==
  ASSUME TInv, TInv', OpenOK, PiecesOK, NEW c \in Cache, NEW p \in Idx, UpdateCompletion(c, p)
  PROVE  OpenOK' /\ PiecesOK'
<1>1. /\ UNCHANGED <<obj, pieces, have, th>> /\ Still /\ updates' \subseteq updates /\ <<c, p>> \in updates
      /\ client' = [client EXCEPT ![c][p].have = PieceComplete(c, p)]
  BY DEF UpdateCompletion, Still, cacheVars, memVars, diskVars
<1>2. Started(c)
  BY <1>1 DEF OpenOK
<1>3. SameOpen
  BY <1>1 DEF SameOpen, Started, Still
<1>4. PiecesOK'
  BY <1>1, <1>2, <1>3, AskedAgain, ToldOK DEF Still
<1> QED
  BY <1>1, <1>4 DEF OpenOK, Started, Still

LEMMA OpenTorrentOK ==
  ASSUME TInv, TInv', OpenOK, PiecesOK, NEW c \in Cache, OpenTorrent(c)
  PROVE  OpenOK' /\ PiecesOK'
<1>1. /\ UNCHANGED <<obj, pieces, have, th, closed, torrentSet, reader, updates>>
      /\ ~Started(c) /\ caches' = caches \cup {c}
      /\ client' = [client EXCEPT ![c] = [p \in Idx |-> [NewClient EXCEPT !.have = PieceComplete(c, p)]]]
  BY DEF OpenTorrent, Started, memVars
<1>2. /\ \A p \in Idx : client'[c][p] = [NewClient EXCEPT !.have = PieceComplete(c, p)]
      /\ \A d \in Cache \ {c} : client'[d] = client[d]
  BY <1>1 DEF TInv, TypeOK
<1>3. \A u \in Thread : th[u].c # c
  BY <1>1, ConstantsAssumption DEF OpenOK
<1>4. ASSUME NEW p \in Idx PROVE Told(c, p)
  <2>1. client'[c][p].have = PieceComplete(c, p) /\ client'[c][p].dirty = {}
    BY <1>2 DEF NewClient
  <2> QED
    BY <1>3, <2>1 DEF Told
<1>5. ASSUME NEW d \in Cache \ {c}, NEW p \in Idx PROVE Told(d, p)
  BY <1>1, <1>2 DEF Told, Started
<1>6. PiecesOK'
  BY <1>1, <1>4, <1>5, ToldOK
<1> QED
  BY <1>1, <1>6 DEF OpenOK, Started

LEMMA AccessStreamOK ==
  ASSUME TInv, TInv', OpenOK, PiecesOK, NEW r \in Reader, AccessStream(r)
  PROVE  OpenOK' /\ PiecesOK'
<1>0. r \in Thread
  BY DEF Thread
<1>1. /\ UNCHANGED <<obj, pieces, have, updates>> /\ Still /\ th[r].op = "reader" /\ th[r].pc = "access"
      /\ Finish(r) \/ Goto(r, "refetch")
      /\ \/ UNCHANGED client
         \/ client' = [client EXCEPT ![th[r].c][th[r].p].have = PieceComplete(th[r].c, th[r].p)]
  BY DEF AccessStream, Still, cacheVars, memVars, diskVars
<1>2. CASE UNCHANGED client
  <2>1. QuietStep(r)
    BY <1>0, <1>1, <1>2, RestQuiet, GotoQuiet DEF SamePieces, Closing
  <2> QED
    BY <1>0, <2>1, QuietOK, OpenKeeps DEF QuietStep, OpenKept
<1>3. CASE client' = [client EXCEPT ![th[r].c][th[r].p].have = PieceComplete(th[r].c, th[r].p)]
  <2>1. /\ Only(r)
        /\ \/ Rests(r) /\ th'[r].c = None /\ th'[r].pc = "idle"
           \/ Keeps(r) /\ th'[r].pc = "refetch"
    BY <1>0, <1>1, FinishMoves, GotoMoves DEF TInv
  <2>2. OpenKept(r)
    BY <1>0, <1>1, <2>1, StillOpen DEF Keeps, Closing
  <2>3. th[r].c \in Cache /\ th[r].p \in Idx /\ Started(th[r].c)
    BY <1>0, <1>1, Locals, ConstantsAssumption DEF OpenOK
  <2>4. \A u \in Thread : \/ th'[u] = th[u] \/ Rests(u)
                          \/ Keeps(u) /\ th'[u].op = "reader" /\ th'[u].pc = "refetch"
    BY <1>0, <1>1, <2>1 DEF Only, Keeps
  <2>5. PiecesOK'
    BY <1>1, <1>3, <2>2, <2>3, <2>4, AskedAgain, ToldOK DEF OpenKept, Still
  <2> QED
    BY <1>0, <2>2, <2>5, OpenKeeps
<1> QED
  BY <1>1, <1>2, <1>3

\* The call that marks a piece, or drops one that failed its hash, returns.
LEMMA ReturnsOK ==
  ASSUME TInv, TInv', OpenOK, PiecesOK, NEW t \in Thread, HashReturn(t) \/ MarkNotCompleteSub(t)
  PROVE  OpenOK' /\ PiecesOK'
<1> DEFINE c == th[t].c
           p == th[t].p
<1>1. /\ UNCHANGED <<obj, pieces, have, updates>> /\ Still /\ Finish(t)
      /\ \/ th[t].pc = "ret" /\ client' = [client EXCEPT ![c][p] = [NewClient EXCEPT !.have = PieceComplete(c, p)]]
         \/ th[t].pc = "gsub" /\ client' = [client EXCEPT ![c][p] = NewClient]
  BY DEF HashReturn, MarkNotCompleteSub, Still, cacheVars, memVars, diskVars
<1>2. th[t].op \in {"hash", "mark"} /\ (th[t].pc = "gsub" => th[t].op = "hash")
  BY <1>1 DEF TInv, ThreadOK, Consistent
<1>3. c \in Cache /\ p \in Idx
  BY <1>2, Locals
<1>4. Only(t) /\ Rests(t) /\ th'[t].c = None /\ th'[t].pc = "idle"
  BY <1>1, FinishMoves DEF TInv
<1>5. th'[t] # th[t]
  BY <1>1, <1>4
<1>6. OpenKept(t)
  BY <1>1, <1>4, StillOpen DEF Closing
<1>7. \A u \in Thread \ {t} : th[u].op \in {"write", "hash", "mark"} => ~(th[u].c = c /\ th[u].p = p)
  BY <1>2, WriterAlone DEF PiecesOK, OneHash, SamePiece
<1>8. /\ PieceComplete(c, p) => client'[c][p].have
      /\ client'[c][p].dirty = {}
      /\ \A d \in Cache, q \in Idx : d # c \/ q # p => client'[d][q] = client[d][q]
  <2>1. CASE th[t].pc = "ret" /\ client' = [client EXCEPT ![c][p] = [NewClient EXCEPT !.have = PieceComplete(c, p)]]
    <3>1. /\ client'[c][p] = [NewClient EXCEPT !.have = PieceComplete(c, p)]
          /\ \A d \in Cache, q \in Idx : d # c \/ q # p => client'[d][q] = client[d][q]
      BY <1>3, <2>1 DEF TInv, TypeOK
    <3> QED
      BY <3>1 DEF NewClient
  <2>2. CASE th[t].pc = "gsub" /\ client' = [client EXCEPT ![c][p] = NewClient]
    <3>1. /\ client'[c][p] = NewClient
          /\ \A d \in Cache, q \in Idx : d # c \/ q # p => client'[d][q] = client[d][q]
      BY <1>3, <2>2 DEF TInv, TypeOK
    <3>2. ~PieceComplete(c, p)
      BY <1>2, <2>2 DEF PiecesOK, BusyOK, HashingOK, Incomplete, PieceComplete, IsComplete
    <3> QED
      BY <3>1, <3>2 DEF NewClient
  <2> QED
    BY <1>1, <2>1, <2>2
<1>9. \A d \in Cache, q \in Idx : Told(d, q)
  <2>1. Told(c, p)
    BY <1>5, <1>7, <1>8 DEF Told
  <2> QED
    BY <1>6, <1>8, <2>1 DEF Told, OpenKept, SameOpen
<1>10. PiecesOK'
  BY <1>1, <1>4, <1>9, ToldOK DEF Still, Only
<1> QED
  BY <1>6, <1>10, OpenKeeps

LEMMA ClearDiskOK ==
  ASSUME TInv, TInv', OpenOK, PiecesOK, NEW t \in Thread, ClearDisk(t)
  PROVE  OpenOK' /\ PiecesOK'
<1>1. /\ UNCHANGED <<obj, pieces, client, updates>> /\ Still /\ Goto(t, "release") /\ th[t].pc = "clear"
      /\ have' = [have EXCEPT ![th[t].c] = @ \ {th[t].p}]
  BY DEF ClearDisk, Still, cacheVars, memVars, clientVars
<1>2. th[t].op = "hash"
  BY <1>1 DEF TInv, ThreadOK, Consistent
<1>3. th[t].c \in Cache /\ Incomplete(th[t].c, th[t].p)
  BY <1>2, Locals DEF PiecesOK, BusyOK, HashingOK
<1>4. SameDisk
  <2> SUFFICES ASSUME NEW d \in DiskCaches PROVE have'[d] = have[d]
    BY DEF SameDisk
  <2>1. d \in Cache /\ have \in [Cache -> SUBSET Idx]
    BY ConstantsAssumption DEF TInv, TypeOK
  <2>2. CASE d # th[t].c
    BY <1>1, <2>1, <2>2
  <2>3. CASE d = th[t].c
    <3>1. have'[d] = have[d] \ {th[t].p} /\ th[t].p \notin have[d]
      BY <1>1, <1>3, <2>1, <2>3 DEF Incomplete
    <3> QED
      BY <3>1
  <2> QED
    BY <2>2, <2>3
<1>5. Only(t) /\ Keeps(t) /\ th'[t].pc = "release"
  BY <1>1, GotoMoves DEF TInv
<1>6. OpenKept(t)
  BY <1>1, <1>5, StillOpen DEF Keeps, Closing
<1>7. Quiet /\ Advance(t)
  BY <1>1, <1>4, <1>5 DEF Quiet, Advance, Arrives, Still
<1> QED
  BY <1>6, <1>7, QuietOK, OpenKeeps DEF OpenKept

LEMMA WritePieceOK ==
  ASSUME TInv, TInv', OpenOK, PiecesOK, NEW t \in Thread, WritePiece(t)
  PROVE  OpenOK' /\ PiecesOK'
<1> DEFINE c == th[t].c
           p == th[t].p
<1>1. /\ UNCHANGED <<obj, pieces, client, updates>> /\ Still /\ Goto(t, "evict") /\ th[t].pc = "diskwrite"
      /\ have' = have \/ have' = [have EXCEPT ![c] = @ \cup {p}]
  BY DEF WritePiece, Still, cacheVars, memVars, clientVars
<1>2. th[t].op = "mark"
  BY <1>1 DEF TInv, ThreadOK, Consistent
<1>3. c \in Cache /\ p \in Idx /\ client[c][p].hashing
  BY <1>2, Locals DEF PiecesOK, BusyOK, MarkingOK
<1>4. \A d \in Cache, q \in Idx : /\ q \in have'[d] => q \in have[d] \/ (d = c /\ q = p)
                                  /\ have[d] \subseteq have'[d]
  BY <1>1, <1>3 DEF TInv, TypeOK
<1>5. Only(t) /\ Keeps(t) /\ th'[t].pc = "evict"
  BY <1>1, GotoMoves DEF TInv
<1>6. OpenKept(t)
  BY <1>1, <1>5, StillOpen DEF Keeps, Closing
<1>7. ASSUME NEW u \in Thread PROVE Works(u)'
  <2>1. CASE u = t
    BY <1>1, <1>2, <1>3, <1>5, <2>1 DEF Works, WritingOK, HashingOK, MarkingOK, LoadingOK, Keeps
  <2>2. CASE u # t
    <3>1. th'[u] = th[u] /\ Works(u)
      BY <1>5, <2>2 DEF Only, PiecesOK, BusyOK, Works
    <3>2. ASSUME Active(u) PROVE Incomplete(th[u].c, th[u].p)'
      <4>1. th[u].c \in Cache /\ th[u].p \in Idx /\ Incomplete(th[u].c, th[u].p)
        BY <3>1, <3>2, Locals DEF Active, Works, WritingOK, HashingOK, MarkingOK
      <4>2. th[u].c # c \/ th[u].p # p
        BY <1>2, <2>2, <3>2, MarkerAlone DEF SamePiece
      <4> QED
        BY <1>1, <1>4, <3>1, <4>1, <4>2 DEF Incomplete
    <3>3. th[u].pc = "load" => have[th[u].c] \subseteq have'[th[u].c]
      BY <1>4, <3>1, Locals
    <3>4. Undisturbed(u)
      BY <1>1, <3>1, <3>2, <3>3 DEF Undisturbed, Active
    <3> QED
      BY <1>1, <3>1, <3>4, UndisturbedWorks DEF Still
  <2> QED
    BY <2>1, <2>2
<1>8. KnownOK'
  <2>1. ASSUME NEW d \in Cache, NEW q \in Idx, PieceComplete(d, q)'
        PROVE  PieceComplete(d, q) \/ (d = c /\ q = p)
    BY <1>1, <1>4, <2>1 DEF PieceComplete, IsComplete
  <2> QED
    BY <1>1, <1>3, <1>6, <2>1 DEF PiecesOK, KnownOK, OpenKept, SameOpen
<1>9. PiecesOK'
  <2>1. BusyOK'
    BY <1>7 DEF BusyOK, Works
  <2> QED
    BY <1>1, <1>5, <1>8, <2>1, StaysOK DEF Settles, Only, Still
<1> QED
  BY <1>6, <1>9, OpenKeeps

-----------------------------------------------------------------------------
(* The invariant holds *)

LEMMA QuietInv ==
  ASSUME TInv, TInv', PieceInv, NEW t \in Thread, QuietStep(t)
  PROVE  PieceInv'
  BY QuietOK, OpenKeeps DEF PieceInv, QuietStep, OpenKept

LEMMA PieceInv_Init == Init => PieceInv
<1> SUFFICES ASSUME Init PROVE PieceInv
  OBVIOUS
<1>0. \A r \in Reader : r \in Thread
  BY DEF Thread
<1>1. \A t \in Thread : /\ th[t].pc = "idle" /\ th[t].op = "none" /\ th[t].c = None /\ th[t].o = None
  BY DEF Init, IdleThread
<1>2. \A c \in Cache, p \in Idx : pieces[c][p] = None
  BY DEF Init
<1>3. \A o \in Obj : ~obj[o].complete /\ obj[o].bytes = {} /\ obj[o].written = {}
  BY DEF Init, NewMemPiece
<1>4. \A c \in Cache, p \in Idx : ~client[c][p].have /\ ~Started(c)
  BY DEF Init, NewClient, Started
<1>5. OpenOK
  BY <1>1 DEF Init, OpenOK, NoReader
<1>6. OwnOK /\ OneHash /\ BusyOK /\ MappedOK
  BY <1>1, <1>2 DEF OwnOK, OneHash, BusyOK, WritingOK, HashingOK, MarkingOK, LoadingOK, MappedOK
<1>7. KnownOK
  BY <1>4 DEF KnownOK
<1>8. /\ \A o \in Obj : ReceivedOK(obj[o])
      /\ \A r \in Reader : ServingOK(r)
  BY <1>0, <1>1, <1>3 DEF ReceivedOK, ServingOK
<1> QED
  BY <1>5, <1>6, <1>7, <1>8 DEF PieceInv, PiecesOK

LEMMA PieceInv_Step ==
  ASSUME TInv, TInv', NoResurrection, PieceInv, [Next]_vars
  PROVE  PieceInv'
<1> USE DEF PieceInv
<1>1. ASSUME NEW t \in Thread, Step(t)
      PROVE  PieceInv'
  <2>1. CASE \/ UpdateFilled(t) \/ AddGlobalFilled(t) \/ Hydrate(t) \/ AccessRead(t) \/ AccessHash(t)
             \/ EvictCheck(t) \/ EvictLock(t) \/ EvictDone(t) \/ EvictSub(t) \/ Snapshot(t)
             \/ \E c \in Cache : Collect(t, c)
             \/ CloseBegin(t) \/ CloseEnd(t) \/ CloseSub(t) \/ DiskClose(t) \/ DeleteCache(t)
    <3>1. QuietStep(t)
      BY <2>1, UpdateFilledQuiet, HydrateQuiet, AccessQuiet, EvictQuiet, CloseQuiet,
         CloseBeginQuiet,
         DeleteCacheQuiet
    <3> QED
      BY <3>1, QuietInv
  <2>2. CASE WriteAt(t) \/ LoadComplete(t) \/ MarkGet(t) \/ MarkComplete(t)
    BY <2>2, WriteAtOK, LoadCompleteOK, MarkGetOK, MarkCompleteOK
  <2>3. CASE WritePiece(t) \/ HashReturn(t) \/ ClearDisk(t) \/ MarkNotComplete(t) \/ MarkNotCompleteSub(t)
    BY <2>3, WritePieceOK, ReturnsOK, ClearDiskOK, MarkNotCompleteOK
  <2>4. CASE (\E k \in th[t].cands : EvictPiece(t, k)) \/ (\E p \in Idx : CloseRelease(t, p))
    BY <2>4, EvictPieceOK, CloseReleaseOK
  <2> QED
    BY <1>1, <2>1, <2>2, <2>3, <2>4 DEF Step
<1>2. ASSUME NEW t \in Worker, Begin(t)
      PROVE  PieceInv'
  <2>0. t \in Thread
    BY DEF Thread
  <2>1. CASE \E c \in Cache, p \in Idx : BeginRead(t, c, p)
    BY <2>0, <2>1, ReadsOK
  <2>2. CASE \E c \in Cache, p \in Idx : BeginHash(t, c, p) \/ \E b \in Block : BeginWrite(t, c, p, b)
    BY <2>0, <2>2, BeginHashOK, BeginWriteOK
  <2>3. CASE \/ \E n \in Capacities : SetGlobalCapacity(t, n)
             \/ \E c \in Cache : BeginClose(t, c) \/ BeginDrop(t, c)
    BY <2>0, <2>3, BeginQuiet, QuietInv
  <2> QED
    BY <1>2, <2>1, <2>2, <2>3 DEF Begin
<1>3. ASSUME NEW r \in Reader,
             \/ ReaderStep(r) \/ GiveUp(r) \/ CloseReader(r) \/ UnregisterReader(r)
             \/ \E c \in Cache : OpenReader(r, c)
             \/ \E p \in Idx : Seek(r, p)
             \/ \E b \in Block : BeginStream(r, b)
      PROVE  PieceInv'
  <2>0. r \in Thread
    BY DEF Thread
  <2>1. CASE WaitRange(r) \/ Unpark(r) \/ GiveUp(r) \/ Serve(r)
    BY <2>0, <2>1, ReadQuiet, QuietInv
  <2>2. CASE Outer(r) \/ Refetch(r) \/ \E b \in Block : BeginStream(r, b)
    BY <2>0, <2>2, ReadsOK
  <2>3. CASE AccessStream(r)
    BY <2>3, AccessStreamOK
  <2>4. CASE \/ CloseReader(r) \/ UnregisterReader(r)
             \/ \E c \in Cache : OpenReader(r, c)
             \/ \E p \in Idx : Seek(r, p)
    BY <2>4, EnvQuiet
  <2> QED
    BY <1>3, <2>1, <2>2, <2>3, <2>4 DEF ReaderStep
<1>4. CASE \/ \E c \in Cache : OpenTorrent(c)
           \/ \E c \in Cache, p \in Idx : UpdateCompletion(c, p)
  BY <1>4, OpenTorrentOK, UpdateCompletionOK
<1>5. CASE UNCHANGED vars
  <2>1. /\ SamePieces /\ UNCHANGED <<closed, th>> /\ SameOpen
        /\ UNCHANGED <<caches, reader, torrentSet, updates>>
    BY <1>5 DEF vars, SamePieces, SameOpen, Started
  <2>2. PiecesOK'
    BY <2>1, EnvQuietOK
  <2> QED
    BY <2>1, <2>2 DEF OpenOK, Started
<1> QED
  BY <1>1, <1>2, <1>3, <1>4, <1>5 DEF Next

LEMMA PieceInv_Holds == Spec => []PieceInv
<1>1. TInv /\ TInv' /\ NoResurrection /\ PieceInv /\ [Next]_vars => PieceInv'
  BY PieceInv_Step
<1>2. Init => NoResurrection
  BY DEF Init, NoResurrection
<1>3. TInv /\ NoResurrection /\ [Next]_vars => NoResurrection'
  BY NoResurrection_Step
<1> QED
  BY <1>1, <1>2, <1>3, PieceInv_Init, TInv_Init, TInv_Step, PTL DEF Spec

\* What a reader of a live cache is served has been received (Reader.Read, MemPiece.WaitRange
\* and MemPiece.ReadAt), for any number of torrents, pieces, blocks, readers and goroutines.
THEOREM ReceivedIsServed == Spec => []ServedBytesReceived
<1>1. PieceInv => ServedBytesReceived
  BY DEF PieceInv, PiecesOK, ServingOK, ServedBytesReceived
<1> QED
  BY <1>1, PieceInv_Holds, PTL

\* A piece whose disk bit is set is complete to the client, or being hashed, for as long as the
\* cache is registered (Cache.pieceComplete, evictPiece and Piece.MarkNotComplete).
THEOREM DiskIsKept == Spec => []DiskPieceKept
<1>1. TInv /\ PieceInv => DiskPieceKept
  BY ConstantsAssumption
     DEF PieceInv, PiecesOK, KnownOK, PieceComplete, Started, DiskPieceKept, TInv, TypeOK
<1> QED
  BY <1>1, PieceInv_Holds, TInv_Init, TInv_Step, PTL DEF Spec

-----------------------------------------------------------------------------
(* Eviction spares the piece under a reader *)

\* A running Read is of the piece its reader is registered at, so that the eviction pass finds
\* the piece inside the reader's window.
WindowOK == \A r \in Reader : Reading(r) => reader[r].c = th[r].c /\ reader[r].pos = th[r].p

\* No Read begins, and a running one stays with its piece.
Follows(u) ==
  th'[u].op = "reader" => th[u].op = "reader" /\ th'[u].c = th[u].c /\ th'[u].p = th[u].p

LEMMA FollowsKeeps ==
  ASSUME WindowOK, UNCHANGED reader, \A u \in Thread : Follows(u)
  PROVE  WindowOK'
  BY DEF WindowOK, Reading, Follows, Thread

LEMMA OnlyFollows ==
  ASSUME NEW t \in Thread, Only(t),
         Keeps(t) \/ Rests(t) \/ th'[t].op \in {"write", "hash", "mark", "read"}
  PROVE  \A u \in Thread : Follows(u)
  BY DEF Only, Keeps, Rests, Follows

LEMMA EvictPieceMoves ==
  ASSUME TypeOK, NEW t \in Thread, NEW k, EvictPiece(t, k)
  PROVE  Only(t) /\ Keeps(t)
<1>1. th[t] \in ThreadType
  BY DEF TypeOK
<1>2. /\ Only(t)
      /\ \/ th'[t] = [th[t] EXCEPT !.pc = "evsub", !.n = obj[k.o].accounted, !.cands = @ \ {k}]
         \/ th'[t] = [th[t] EXCEPT !.cands = @ \ {k}]
  BY DEF EvictPiece, TypeOK, Only
<1> QED
  BY <1>1, <1>2 DEF Keeps, ThreadType

\* A lookup gives t a piece and leaves the others theirs.
LEMMA LookupMoves ==
  ASSUME TInv, NEW t \in Thread, NEW c \in Cache, NEW p \in Idx, NEW pc, NEW op, NEW b,
         GetOrCreate(t, c, p, pc, op, b)
  PROVE  /\ Only(t) /\ th'[t].op = op /\ th'[t].c = c /\ th'[t].p = p
         /\ \A u \in Thread : th[u].o \in Obj => obj'[th[u].o] = obj[th[u].o]
<1>1. PICK o \in Obj : Gets(t, c, p, op, o)
  BY GetOrCreateGets
<1> QED
  BY <1>1, GetsKeeps DEF Gets

LEMMA StepReader ==
  ASSUME NEW t \in Thread, Step(t)
  PROVE  UNCHANGED reader
  BY DEF Step, WriteAt, UpdateFilled, AddGlobalFilled, Hydrate, LoadComplete, AccessRead,
     AccessHash, MarkGet, MarkComplete, Snapshot, WritePiece, HashReturn, ClearDisk, MarkNotComplete,
     MarkNotCompleteSub, EvictCheck, EvictLock, EvictDone, EvictSub, Collect, EvictPiece,
     CloseBegin, CloseEnd, CloseSub, DiskClose, DeleteCache, CloseRelease

LEMMA WindowOK_Step ==
  ASSUME TInv, TInv', OpenOK, PiecesOK, WindowOK, [Next]_vars
  PROVE  WindowOK'
<1>0. TypeOK
  BY DEF TInv
<1>1. ASSUME NEW t \in Thread, Step(t)
      PROVE  WindowOK'
  <2>1. UNCHANGED reader
    BY <1>1, StepReader
  <2>2. CASE \/ UpdateFilled(t) \/ AddGlobalFilled(t) \/ Hydrate(t) \/ AccessRead(t) \/ AccessHash(t)
             \/ EvictCheck(t) \/ EvictLock(t) \/ EvictDone(t) \/ EvictSub(t) \/ Snapshot(t)
             \/ \E c \in Cache : Collect(t, c)
             \/ CloseBegin(t) \/ CloseEnd(t) \/ CloseSub(t) \/ DiskClose(t) \/ DeleteCache(t)
    <3>1. QuietStep(t)
      BY <2>2, UpdateFilledQuiet, HydrateQuiet, AccessQuiet, EvictQuiet, CloseQuiet,
         CloseBeginQuiet,
         DeleteCacheQuiet
    <3> QED
      BY <2>1, <3>1, OnlyFollows, FollowsKeeps DEF QuietStep, Advance
  <2>3. CASE WriteAt(t) \/ LoadComplete(t) \/ MarkComplete(t) \/ WritePiece(t) \/ ClearDisk(t) \/ MarkNotComplete(t)
             \/ \E p \in Idx : CloseRelease(t, p)
    <3>1. (\E pc : Goto(t, pc)) \/ (\E pc, n : GotoN(t, pc, n))
      BY <2>3 DEF WriteAt, LoadComplete, MarkComplete, WritePiece, ClearDisk, MarkNotComplete,
         CloseRelease
    <3> QED
      BY <1>0, <2>1, <3>1, GotoMoves, GotoNMoves, OnlyFollows, FollowsKeeps
  <2>4. CASE HashReturn(t) \/ MarkNotCompleteSub(t)
    BY <1>0, <2>1, <2>4, FinishMoves, OnlyFollows, FollowsKeeps DEF HashReturn, MarkNotCompleteSub
  <2>5. CASE \E k \in th[t].cands : EvictPiece(t, k)
    BY <1>0, <2>1, <2>5, EvictPieceMoves, OnlyFollows, FollowsKeeps
  <2>6. CASE MarkGet(t)
    <3>1. th[t].c \in Cache /\ th[t].p \in Idx
      BY <2>6, Locals DEF MarkGet, TInv, ThreadOK, Consistent
    <3> QED
      BY <2>1, <2>6, <3>1, LookupMoves, OnlyFollows, FollowsKeeps DEF MarkGet
  <2> QED
    BY <1>1, <2>2, <2>3, <2>4, <2>5, <2>6 DEF Step
<1>2. ASSUME NEW t \in Worker, Begin(t)
      PROVE  WindowOK'
  <2>0. t \in Thread
    BY DEF Thread
  <2>1. UNCHANGED reader
    BY <1>2 DEF Begin, BeginRead, BeginHash, BeginWrite, SetGlobalCapacity, BeginClose, BeginDrop
  <2>2. CASE \E c \in Cache, p \in Idx :
               BeginRead(t, c, p) \/ BeginHash(t, c, p) \/ \E b \in Block : BeginWrite(t, c, p, b)
    BY <2>0, <2>1, <2>2, LookupMoves, OnlyFollows, FollowsKeeps DEF BeginRead, BeginHash, BeginWrite
  <2>3. CASE \/ \E n \in Capacities : SetGlobalCapacity(t, n)
             \/ \E c \in Cache : BeginClose(t, c) \/ BeginDrop(t, c)
    BY <2>0, <2>1, <2>3, BeginQuiet, OnlyFollows, FollowsKeeps DEF QuietStep, Advance
  <2> QED
    BY <1>2, <2>2, <2>3 DEF Begin
<1>3. ASSUME NEW r \in Reader,
             \/ ReaderStep(r) \/ GiveUp(r) \/ CloseReader(r) \/ UnregisterReader(r)
             \/ \E c \in Cache : OpenReader(r, c)
             \/ \E p \in Idx : Seek(r, p)
             \/ \E b \in Block : BeginStream(r, b)
      PROVE  WindowOK'
  <2>0. r \in Thread /\ th[r] \in ThreadType /\ reader[r] \in ReaderType
    BY <1>0 DEF Thread, TypeOK
  <2>1. CASE Unpark(r) \/ GiveUp(r) \/ AccessStream(r) \/ WaitRange(r)
    <3>1. Finish(r) \/ \E pc : Goto(r, pc)
      BY <2>1 DEF Unpark, GiveUp, AccessStream, WaitRange
    <3>2. UNCHANGED reader
      BY <2>1 DEF Unpark, GiveUp, AccessStream, WaitRange
    <3> QED
      BY <1>0, <2>0, <3>1, <3>2, FinishMoves, GotoMoves, OnlyFollows, FollowsKeeps
  <2>2. CASE Serve(r)
    <3>1. CASE Goto(r, "outer") /\ UNCHANGED reader
      BY <1>0, <2>0, <3>1, GotoMoves, OnlyFollows, FollowsKeeps
    <3>2. CASE Finish(r)
      <4>1. th'[r].op = "none" /\ Only(r)
        BY <1>0, <2>0, <3>2, FinishMoves DEF IdleThread
      <4>2. \A q \in Reader \ {r} : reader'[q] = reader[q] /\ th'[q] = th[q]
        BY <2>2, <4>1 DEF Serve, TInv, TypeOK, Only, Thread
      <4> QED
        BY <4>1, <4>2 DEF WindowOK, Reading
    <3> QED
      BY <2>2, <3>1, <3>2 DEF Serve
  <2>3. CASE Outer(r) \/ Refetch(r)
    <3>1. th[r].op = "reader" /\ UNCHANGED reader
      BY <2>0, <2>3 DEF Outer, Refetch, TInv, ThreadOK, Consistent
    <3>2. Only(r) /\ th'[r].c = th[r].c /\ th'[r].p = th[r].p
      BY <2>0, <2>3, <3>1, Locals, LookupMoves DEF Outer, Refetch
    <3> QED
      BY <3>1, <3>2, FollowsKeeps DEF Follows, Only
  <2>4. CASE \E b \in Block : BeginStream(r, b)
    <3>1. reader[r].c \in Cache /\ reader[r].pos \in Idx /\ UNCHANGED reader
      BY <2>0, <2>4 DEF BeginStream, TInv, ReaderOK, ReaderType
    <3>2. Only(r) /\ th'[r].c = reader[r].c /\ th'[r].p = reader[r].pos
      BY <2>0, <2>4, <3>1, LookupMoves DEF BeginStream
    <3> QED
      BY <3>1, <3>2 DEF WindowOK, Reading, Only, Thread
  <2>5. CASE (\E c \in Cache : OpenReader(r, c)) \/ (\E p \in Idx : Seek(r, p))
    <3>1. th' = th /\ th[r].op # "reader" /\ \A q \in Reader \ {r} : reader'[q] = reader[q]
      BY <2>0, <2>5 DEF OpenReader, Seek, Idle, TInv, TypeOK, ThreadOK, Consistent
    <3> QED
      BY <3>1 DEF WindowOK, Reading
  <2>6. CASE CloseReader(r) \/ UnregisterReader(r)
    <3>1. /\ th' = th /\ \A q \in Reader \ {r} : reader'[q] = reader[q]
          /\ reader'[r] = [reader[r] EXCEPT !.state = "closing"] \/ reader'[r] = NoReader
      BY <2>6 DEF CloseReader, UnregisterReader, TInv, TypeOK
    <3>2. reader'[r].state # "open"
      BY <2>0, <3>1 DEF NoReader, ReaderType
    <3> QED
      BY <3>1, <3>2 DEF WindowOK, Reading
  <2> QED
    BY <1>3, <2>1, <2>2, <2>3, <2>4, <2>5, <2>6 DEF ReaderStep
<1>4. CASE \/ \E c \in Cache : OpenTorrent(c)
           \/ \E c \in Cache, p \in Idx : UpdateCompletion(c, p)
           \/ UNCHANGED vars
  BY <1>4 DEF OpenTorrent, UpdateCompletion, vars, WindowOK, Reading
<1> QED
  BY <1>1, <1>2, <1>3, <1>4 DEF Next

LEMMA InWindow ==
  ASSUME TypeOK, NEW r \in Reader, reader[r].state = "open"
  PROVE  reader[r].pos \in Protected(reader[r].c)
<1>1. reader[r].pos \in Idx /\ reader[r].pos \in Int
  BY ConstantsAssumption DEF TypeOK, ReaderType, Idx
<1>2. reader[r].pos - Back <= reader[r].pos /\ reader[r].pos <= reader[r].pos + Ahead
  BY <1>1, ConstantsAssumption
<1>3. reader[r].pos \in Window(r)
  BY <1>1, <1>2 DEF Window
<1> QED
  BY <1>1, <1>3 DEF Protected

\* Who takes the buffer from a piece that somebody has.
LEMMA LosesBuffer ==
  ASSUME TInv, OpenOK, PiecesOK, [Next]_vars, NEW u \in Thread, th[u].o \in Obj,
         obj[th[u].o].data, ~obj'[th[u].o].data
  PROVE  \E t \in Thread, c \in Cache, p \in Idx :
           /\ pieces[c][p] = th[u].o
           /\ \/ c \in closed
              \/ th[t].pc = "release" /\ th[t].c = c /\ th[t].p = p
              \/ p \notin Protected(c)
<1>0. obj \in [Obj -> MemPieceType] /\ obj[th[u].o] \in MemPieceType
  BY DEF TInv, TypeOK
<1>1. obj' # obj /\ obj'[th[u].o] # obj[th[u].o]
  OBVIOUS
<1>2. ASSUME NEW o \in Obj, NEW m, obj' = [obj EXCEPT ![o] = m]
      PROVE  th[u].o = o /\ ~m.data
  BY <1>0, <1>1, <1>2
<1>3. ASSUME NEW t \in Thread, Step(t)
      PROVE  \E c \in Cache, p \in Idx :
               /\ pieces[c][p] = th[u].o
               /\ \/ c \in closed
                  \/ th[t].pc = "release" /\ th[t].c = c /\ th[t].p = p
                  \/ p \notin Protected(c)
  <2>1. CASE WriteAt(t) \/ LoadComplete(t) \/ MarkComplete(t)
    <3>1. th[t].o \in Obj
      BY <2>1 DEF WriteAt, LoadComplete, MarkComplete, TInv, ThreadOK, Consistent
    <3>2. PICK m : /\ obj' = [obj EXCEPT ![th[t].o] = m]
                   /\ m \in {Loaded(obj[th[t].o]), Completed(obj[th[t].o])} \/ \E b : m = Written(obj[th[t].o], b)
      BY <1>1, <2>1 DEF WriteAt, LoadComplete, MarkComplete
    <3>3. th[u].o = th[t].o /\ ~m.data
      BY <1>2, <3>1, <3>2
    <3>4. m.data
      BY <1>0, <3>2, <3>3 DEF Loaded, Completed, Written, MemPieceType
    <3> QED
      BY <3>3, <3>4
  <2>2. CASE MarkGet(t)
    <3>1. th[t].c \in Cache /\ th[t].p \in Idx
      BY <2>2, Locals DEF MarkGet, TInv, ThreadOK, Consistent
    <3> QED
      BY <1>1, <2>2, <3>1, LookupMoves DEF MarkGet
  <2>3. CASE MarkNotComplete(t)
    <3>1. /\ th[t].pc = "release" /\ pieces[th[t].c][th[t].p] # None
          /\ obj' = [obj EXCEPT ![pieces[th[t].c][th[t].p]] = Released(@)]
      BY <1>1, <2>3 DEF MarkNotComplete
    <3>2. th[t].c \in Cache /\ th[t].p \in Idx
      BY <3>1, Locals DEF TInv, ThreadOK, Consistent
    <3>3. pieces[th[t].c][th[t].p] = th[u].o
      BY <1>2, <3>1, <3>2 DEF TInv, TypeOK
    <3> QED
      BY <3>1, <3>2, <3>3
  <2>4. CASE \E k \in th[t].cands : EvictPiece(t, k)
    <3>1. PICK k \in th[t].cands : EvictPiece(t, k)
      BY <2>4
    <3>2. k.c \in Cache /\ k.p \in Idx /\ k.o \in Obj
      BY DEF TInv, TypeOK, ThreadType, Cand
    <3>3. StillEvictable(k) /\ obj' = [obj EXCEPT ![k.o] = Released(@)]
      BY <1>1, <3>1 DEF EvictPiece
    <3>4. k.o = th[u].o
      BY <1>2, <3>2, <3>3
    <3> QED
      BY <3>2, <3>3, <3>4 DEF StillEvictable
  <2>5. CASE \E p \in Idx : CloseRelease(t, p)
    <3>1. PICK p \in Idx : CloseRelease(t, p)
      BY <2>5
    <3>2. /\ th[t].pc = "closing" /\ pieces[th[t].c][p] # None
          /\ obj' = [obj EXCEPT ![pieces[th[t].c][p]] = Released(@)]
      BY <3>1 DEF CloseRelease
    <3>3. th[t].c \in closed /\ th[t].c \in Cache
      BY <3>2 DEF OpenOK, TInv, TypeOK
    <3>4. pieces[th[t].c][p] = th[u].o
      BY <1>2, <3>2, <3>3 DEF TInv, TypeOK
    <3> QED
      BY <3>3, <3>4
  <2> QED
    BY <1>1, <1>3, <2>1, <2>2, <2>3, <2>4, <2>5
    DEF Step, UpdateFilled, AddGlobalFilled, Hydrate, AccessRead, AccessHash, Snapshot, WritePiece,
        HashReturn, ClearDisk, MarkNotCompleteSub, EvictCheck, EvictLock, EvictDone, EvictSub, Collect,
        CloseBegin, CloseEnd, CloseSub, DiskClose, DeleteCache, memVars
<1>4. ~\E t \in Worker : Begin(t)
  <2> SUFFICES ASSUME NEW t \in Worker, Begin(t) PROVE FALSE
    OBVIOUS
  <2>1. t \in Thread
    BY DEF Thread
  <2>2. ~\E c \in Cache, p \in Idx :
          BeginRead(t, c, p) \/ BeginHash(t, c, p) \/ \E b \in Block : BeginWrite(t, c, p, b)
    BY <1>1, <2>1, LookupMoves DEF BeginRead, BeginHash, BeginWrite
  <2> QED
    BY <1>1, <2>2 DEF Begin, SetGlobalCapacity, BeginClose, BeginDrop, memVars
<1>5. ASSUME NEW r \in Reader PROVE ~ReaderStep(r) /\ ~\E b \in Block : BeginStream(r, b)
  <2>0. r \in Thread
    BY DEF Thread
  <2>1. ~Outer(r) /\ ~Refetch(r)
    <3>1. th[r].pc \in {"outer", "refetch"} => th[r].c \in Cache /\ th[r].p \in Idx
      BY <2>0, Locals DEF TInv, ThreadOK, Consistent
    <3> QED
      BY <1>1, <2>0, <3>1, LookupMoves DEF Outer, Refetch
  <2>2. ~\E b \in Block : BeginStream(r, b)
    <3>1. reader[r].state = "open" => reader[r].c \in Cache /\ reader[r].pos \in Idx
      BY DEF TInv, ReaderOK, TypeOK, ReaderType
    <3> QED
      BY <1>1, <2>0, <3>1, LookupMoves DEF BeginStream
  <2> QED
    BY <1>1, <2>1, <2>2 DEF ReaderStep, AccessStream, WaitRange, Unpark, Serve, memVars
<1>6. \E t \in Thread : Step(t)
  BY <1>1, <1>4, <1>5 DEF Next, OpenTorrent, UpdateCompletion, GiveUp, CloseReader,
     UnregisterReader,
     OpenReader, Seek, memVars, vars
<1> QED
  BY <1>3, <1>6

\* The piece a running Read is at loses its buffer only to teardown or to a failed hash
\* (evictPiece's second look at the reader windows), whatever the eviction pass collected.
THEOREM ReadersSpared == Spec => EvictionSparesReaders
<1> DEFINE Spared == \A r \in Reader :
             Reading(r) /\ obj[th[r].o].data /\ ~obj'[th[r].o].data =>
               \/ th[r].c \in closed
               \/ \E t \in Thread : /\ th[t].pc = "release"
                                    /\ th[t].c = th[r].c /\ th[t].p = th[r].p
<1>1. Init => WindowOK
  BY DEF Init, WindowOK, Reading, NoReader
<1>2. TInv /\ TInv' /\ PieceInv /\ WindowOK /\ [Next]_vars => WindowOK'
  BY WindowOK_Step DEF PieceInv
<1>3. TInv /\ PieceInv /\ WindowOK /\ [Next]_vars => Spared
  <2> SUFFICES ASSUME TInv, PieceInv, WindowOK, [Next]_vars, NEW r \in Reader,
                      Reading(r), obj[th[r].o].data, ~obj'[th[r].o].data, th[r].c \notin closed
               PROVE  \E t \in Thread : /\ th[t].pc = "release"
                                        /\ th[t].c = th[r].c /\ th[t].p = th[r].p
    OBVIOUS
  <2>1. r \in Thread /\ th[r].o \in Obj /\ th[r].o # None
    BY Locals DEF Thread, Reading
  <2>2. PICK t \in Thread, c \in Cache, p \in Idx :
           /\ pieces[c][p] = th[r].o
           /\ \/ c \in closed
              \/ th[t].pc = "release" /\ th[t].c = c /\ th[t].p = p
              \/ p \notin Protected(c)
    BY <2>1, LosesBuffer DEF PieceInv
  <2>3. th[r].c = c /\ th[r].p = p
    BY <2>1, <2>2 DEF PieceInv, PiecesOK, OwnOK
  <2>4. p \in Protected(c)
    BY <2>3, InWindow DEF WindowOK, Reading, TInv
  <2> QED
    BY <2>2, <2>3, <2>4
<1>4. Spec => [](TInv /\ PieceInv /\ WindowOK)
  BY <1>1, <1>2, PieceInv_Holds, TInv_Init, TInv_Step, PTL DEF Spec
<1>5. TInv /\ PieceInv /\ WindowOK /\ [Next]_vars => [Spared]_vars
  BY <1>3
<1> QED
  BY <1>4, <1>5, PTL DEF Spec, EvictionSparesReaders

-----------------------------------------------------------------------------
(* What happens to the piece a reader holds *)

\* A complete object stays complete.
Lasts(o) == IsComplete(obj[o]) => IsComplete(obj'[o])

\* A failed hash is about to take the piece.
FailedHash(c, p) == \E t \in Thread : th[t].pc = "release" /\ th[t].c = c /\ th[t].p = p

\* What takes a piece off the map of a live cache wakes who sleeps on it; it is an eviction, of a
\* piece in no reader's window, or a failed hash, of an incomplete one.
MapStep ==
  /\ closed \subseteq closed'
  /\ \A c \in Cache \ closed', p \in Idx : pieces[c][p] # None =>
       \/ pieces'[c][p] = pieces[c][p] /\ Lasts(pieces[c][p])
       \/ /\ Wake(pieces[c][p])
          /\ p \notin Protected(c) \/ (FailedHash(c, p) /\ ~IsComplete(obj[pieces[c][p]]))

\* In a live cache without files only the piece in the map becomes complete.
GainStep ==
  \A r \in Reader : Reading(r) /\ IsComplete(obj'[th[r].o]) =>
    \/ IsComplete(obj[th[r].o])
    \/ th[r].c \in closed \cup DiskCaches
    \/ pieces'[th[r].c][th[r].p] = th[r].o

\* A Read keeps its piece or takes the one in the map, and it comes to wait on the latter.
ReadStep ==
  \A r \in Reader : Reading(r)' =>
    \/ /\ Reading(r) /\ th'[r].c = th[r].c /\ th'[r].p = th[r].p /\ th'[r].o = th[r].o
       /\ th'[r].pc = "waitrange" => th[r].pc = "waitrange"
    \/ th'[r].c \notin closed' => pieces'[th'[r].c][th'[r].p] = th'[r].o

FetchStep == MapStep /\ GainStep /\ ReadStep

\* A step of t that takes and maps no piece.
LEMMA PlainFetch ==
  ASSUME TInv, NEW t \in Thread, Only(t), closed \subseteq closed', UNCHANGED pieces,
         \A o \in Obj : Lasts(o), GainStep,
         Rests(t) \/ (Keeps(t) /\ UNCHANGED reader /\ th'[t].pc # "waitrange"),
         \A r \in Reader \ {t} : reader'[r].state = "open" => reader[r].state = "open"
  PROVE  FetchStep
<1>1. MapStep
  <2>1. \A c \in Cache, p \in Idx : pieces[c][p] # None => pieces[c][p] \in Obj
    BY DEF TInv, TypeOK
  <2> QED
    BY <2>1 DEF MapStep
<1>2. ReadStep
  BY DEF ReadStep, Reading, Only, Rests, Keeps, Thread
<1> QED
  BY <1>1, <1>2 DEF FetchStep

\* A look-up by t.
LEMMA LookupFetch ==
  ASSUME TInv, NEW t \in Thread, NEW c \in Cache, NEW p \in Idx, NEW pc, NEW op, NEW b,
         GetOrCreate(t, c, p, pc, op, b), Still
  PROVE  FetchStep
<1>1. PICK o \in Obj : Gets(t, c, p, op, o)
  BY GetOrCreateGets
<1>2. c \notin closed => pieces'[c][p] = o
  BY <1>1 DEF Gets, TInv, TypeOK
<1>3. MapStep
  BY <1>1, GetsKeeps DEF MapStep, Lasts, Still
<1>4. GainStep
  <2>1. \A r \in Reader : Reading(r) => r \in Thread /\ th[r].o \in Obj
    BY Locals DEF Reading, Thread
  <2> QED
    BY <1>1, <2>1, GetsKeeps DEF GainStep
<1>5. ReadStep
  BY <1>1, <1>2 DEF ReadStep, Reading, Gets, Only, Thread, Still
<1> QED
  BY <1>3, <1>4, <1>5 DEF FetchStep

\* A piece is dropped: by eviction, by a failed hash or in a closed cache.
LEMMA DropFetch ==
  ASSUME TInv, PieceInv, NEW t \in Thread, NEW c \in Cache, NEW p \in Idx, Only(t), Keeps(t), Still,
         th'[t].pc # "waitrange", pieces[c][p] # None, obj' = [obj EXCEPT ![pieces[c][p]] = Released(@)],
         Wake(pieces[c][p]), pieces' = [pieces EXCEPT ![c][p] = None],
         \/ c \in closed
         \/ p \notin Protected(c)
         \/ FailedHash(c, p) /\ ~IsComplete(obj[pieces[c][p]])
  PROVE  FetchStep
<1>1. /\ \A x \in Obj \ {pieces[c][p]} : obj'[x] = obj[x]
      /\ \A d \in Cache, q \in Idx : /\ pieces[d][q] \in Obj \cup {None}
                                     /\ pieces'[d][q] = IF d = c /\ q = p THEN None ELSE pieces[d][q]
  BY DEF TInv, TypeOK
<1>2. MapStep
  <2>1. \A d \in Cache, q \in Idx : d # c \/ q # p => pieces[d][q] # pieces[c][p]
    BY DEF PieceInv, PiecesOK, OwnOK
  <2>2. \A d \in Cache, q \in Idx :
          (d # c \/ q # p) /\ pieces[d][q] # None => pieces'[d][q] = pieces[d][q] /\ Lasts(pieces[d][q])
    BY <1>1, <2>1 DEF Lasts
  <2> QED
    BY <2>2 DEF MapStep, Still
<1>3. GainStep
  <2>1. obj'[pieces[c][p]] = Released(obj[pieces[c][p]])
    BY <1>1 DEF TInv, TypeOK
  <2>2. ~IsComplete(obj'[pieces[c][p]])
    BY <2>1 DEF IsComplete, Released
  <2>3. \A r \in Reader : Reading(r) => r \in Thread /\ th[r].o \in Obj
    BY Locals DEF Reading, Thread
  <2> QED
    BY <1>1, <2>2, <2>3 DEF GainStep
<1>4. ReadStep
  BY DEF ReadStep, Reading, Only, Keeps, Thread, Still
<1> QED
  BY <1>2, <1>3, <1>4 DEF FetchStep

\* The steps that change neither map nor objects.
LEMMA QuietFetch ==
  ASSUME TInv, NEW t \in Thread, QuietStep(t), UNCHANGED reader, th'[t].pc # "waitrange"
  PROVE  FetchStep
  BY PlainFetch DEF QuietStep, Quiet, Advance, OpenKept, Lasts, GainStep

\* WriteAt, LoadComplete and MarkComplete take no bytes away; a write completes no piece, a
\* reload is of a piece on disk, and what is marked is in the map.
LEMMA EditFetch ==
  ASSUME TInv, PieceInv, NEW t \in Thread, WriteAt(t) \/ LoadComplete(t) \/ MarkComplete(t)
  PROVE  FetchStep
<1>0. TypeOK /\ th[t].pc \in {"write", "load", "markmp"} /\ th[t].o \in Obj
  BY Locals DEF WriteAt, LoadComplete, MarkComplete, TInv, ThreadOK, Consistent
<1>1. Only(t) /\ Keeps(t) /\ th'[t].pc # "waitrange"
  <2>1. \E pc \in {"fill", "access", "persist", "evict"} : Goto(t, pc) \/ \E n : GotoN(t, pc, n)
    BY DEF WriteAt, LoadComplete, MarkComplete
  <2> QED
    BY <1>0, <2>1, GotoMoves, GotoNMoves
<1>2. UNCHANGED <<pieces, closed, reader>>
  BY DEF WriteAt, LoadComplete, MarkComplete, cacheVars
<1>3. /\ \A x \in Obj : x # th[t].o => obj'[x] = obj[x]
      /\ Lasts(th[t].o)
      /\ IsComplete(obj'[th[t].o]) =>
           \/ IsComplete(obj[th[t].o])
           \/ th[t].c \in closed \cup DiskCaches
           \/ pieces[th[t].c][th[t].p] = th[t].o
  <2>1. obj \in [Obj -> MemPieceType] /\ obj[th[t].o] \in MemPieceType
    BY <1>0 DEF TypeOK
  <2>2. CASE WriteAt(t)
    <3>1. obj' = [obj EXCEPT ![th[t].o] = Written(@, th[t].b)]
      BY <2>2 DEF WriteAt
    <3>2. th[t].op = "write"
      BY <2>2 DEF WriteAt, TInv, ThreadOK, Consistent
    <3>3. ~obj[th[t].o].complete
      BY <3>2 DEF PieceInv, PiecesOK, BusyOK, WritingOK
    <3> QED
      BY <1>0, <2>1, <3>1, <3>3 DEF Written, MemPieceType, Lasts, IsComplete
  <2>3. CASE LoadComplete(t)
    <3>1. obj' = obj \/ obj' = [obj EXCEPT ![th[t].o] = Loaded(@)]
      BY <2>3 DEF LoadComplete
    <3>2. th[t].c \in DiskCaches
      BY <2>3 DEF LoadComplete, PieceInv, PiecesOK, BusyOK, LoadingOK
    <3>3. IsComplete(Loaded(obj[th[t].o]))
      BY <2>1 DEF Loaded, MemPieceType, IsComplete
    <3> QED
      BY <1>0, <2>1, <3>1, <3>2, <3>3 DEF Lasts
  <2>4. CASE MarkComplete(t)
    <3>1. obj' = [obj EXCEPT ![th[t].o] = Completed(@)]
      BY <2>4 DEF MarkComplete
    <3>2. th[t].pc = "markmp" /\ th[t].op = "mark"
      BY <2>4 DEF MarkComplete, TInv, ThreadOK, Consistent
    <3>3. th[t].c \notin closed => pieces[th[t].c][th[t].p] = th[t].o
      BY <3>2 DEF PieceInv, PiecesOK, BusyOK, MarkingOK, Current
    <3> QED
      BY <1>0, <2>1, <3>1, <3>3 DEF Completed, MemPieceType, Lasts, IsComplete
  <2> QED
    BY <2>2, <2>3, <2>4
<1>4. \A x \in Obj : Lasts(x)
  BY <1>3 DEF Lasts
<1>5. GainStep
  <2> SUFFICES ASSUME NEW r \in Reader, Reading(r), IsComplete(obj'[th[r].o]), ~IsComplete(obj[th[r].o])
               PROVE  th[r].c \in closed \cup DiskCaches \/ pieces[th[r].c][th[r].p] = th[r].o
    BY <1>2 DEF GainStep
  <2>1. r \in Thread /\ th[r].o \in Obj /\ th[r].o # None
    BY Locals DEF Reading, Thread
  <2>2. th[r].o = th[t].o
    BY <1>3, <2>1
  <2>3. th[r].c = th[t].c /\ th[r].p = th[t].p
    BY <2>1, <2>2 DEF PieceInv, PiecesOK, OwnOK
  <2> QED
    BY <1>3, <2>2, <2>3
<1> QED
  BY <1>1, <1>2, <1>4, <1>5, PlainFetch

Waiting == {"refetch", "waitrange", "parked"}

\* A goroutine's own steps do not take it into a wait loop.
LEMMA StepMoves ==
  ASSUME TInv, PieceInv, NEW t \in Thread, Step(t)
  PROVE  Only(t) /\ th'[t].pc \notin Waiting /\ th'[t].pc # "close"
<1> USE DEF Waiting
<1>0. TypeOK /\ ThreadOK /\ th[t] \in ThreadType
  BY DEF TInv, TypeOK
<1>1. CASE \E pc \in PCs \ (Waiting \cup {"close"}) : Goto(t, pc) \/ (\E n : GotoN(t, pc, n))
  BY <1>0, <1>1, GotoMoves, GotoNMoves
<1>2. CASE Finish(t)
  BY <1>0, <1>2, FinishMoves
<1>3. CASE AfterEvict(t) /\ th[t].pc \in {"evict", "evlock", "evloop"}
  BY <1>0, <1>3, AfterEvictMoves
<1>4. CASE AfterFill(t)
  BY <1>0, <1>4, AfterFillMoves
<1>5. CASE WriteAt(t) \/ Hydrate(t) \/ LoadComplete(t) \/ AccessHash(t) \/ MarkComplete(t) \/ Snapshot(t)
           \/ WritePiece(t) \/ ClearDisk(t) \/ MarkNotComplete(t) \/ EvictSub(t) \/ CloseBegin(t)
           \/ CloseEnd(t) \/ CloseSub(t) \/ \E p \in Idx : CloseRelease(t, p)
  BY <1>1, <1>5 DEF WriteAt, Hydrate, LoadComplete, AccessHash, MarkComplete, Snapshot, WritePiece,
     ClearDisk, MarkNotComplete, EvictSub, CloseBegin, CloseEnd, CloseSub, CloseRelease, PCs
<1>6. CASE AccessRead(t) \/ HashReturn(t) \/ MarkNotCompleteSub(t) \/ DiskClose(t) \/ DeleteCache(t)
  BY <1>1, <1>2, <1>6 DEF AccessRead, HashReturn, MarkNotCompleteSub, DiskClose, DeleteCache, PCs
<1>7. CASE UpdateFilled(t) \/ AddGlobalFilled(t)
  BY <1>1, <1>4, <1>7 DEF UpdateFilled, AddGlobalFilled, PCs
<1>8. CASE EvictCheck(t) \/ EvictDone(t)
  BY <1>1, <1>3, <1>8 DEF EvictCheck, EvictDone, PCs
<1>9. CASE EvictLock(t)
  <2>1. CASE th' = [th EXCEPT ![t].pc = "evloop", ![t].cap = capacity, ![t].todo = caches]
    <3>1. Only(t) /\ th'[t] = [th[t] EXCEPT !.pc = "evloop", !.cap = capacity, !.todo = caches]
      BY <2>1 DEF TInv, TypeOK, Only
    <3> QED
      BY <1>0, <3>1 DEF ThreadType
  <2> QED
    BY <1>3, <1>9, <2>1 DEF EvictLock
<1>10. CASE (\E c \in Cache : Collect(t, c)) \/ (\E k \in th[t].cands : EvictPiece(t, k))
  <2>1. Only(t) /\ th'[t].pc \in {th[t].pc, "evsub"} /\ th[t].pc = "evloop"
    <3>1. CASE \E k \in th[t].cands : EvictPiece(t, k)
      <4>1. PICK k \in th[t].cands : EvictPiece(t, k)
        BY <3>1
      <4>2. \/ th'[t] = [th[t] EXCEPT !.pc = "evsub", !.n = obj[k.o].accounted, !.cands = @ \ {k}]
            \/ th'[t] = [th[t] EXCEPT !.cands = @ \ {k}]
        BY <4>1 DEF EvictPiece, TInv, TypeOK
      <4> QED
        BY <1>0, <4>1, <4>2, EvictPieceMoves DEF EvictPiece, ThreadType
    <3>2. CASE \E c \in Cache : Collect(t, c)
      <4>1. PICK c \in Cache : Collect(t, c)
        BY <3>2
      <4>2. Only(t) /\ th'[t] = [th[t] EXCEPT !.todo = @ \ {c}, !.cands = @ \cup Candidates(c)]
        BY <4>1 DEF Collect, TInv, TypeOK, Only
      <4> QED
        BY <1>0, <4>1, <4>2 DEF Collect, ThreadType
    <3> QED
      BY <1>10, <3>1, <3>2
  <2> QED
    BY <2>1
<1>11. CASE MarkGet(t)
  <2>1. th[t].c \in Cache /\ th[t].p \in Idx
    BY <1>11, Locals DEF MarkGet, TInv, ThreadOK, Consistent
  <2> QED
    BY <1>11, <2>1, LookupMoves, GetOrCreateGets DEF MarkGet
<1> QED
  BY <1>5, <1>6, <1>7, <1>8, <1>9, <1>10, <1>11 DEF Step

LEMMA StepFetch ==
  ASSUME TInv, TInv', PieceInv, NEW t \in Thread, Step(t)
  PROVE  FetchStep
<1>0. /\ TypeOK /\ OpenOK /\ PiecesOK /\ UNCHANGED reader
      /\ Only(t) /\ th'[t].pc # "waitrange"
  BY StepReader, StepMoves DEF TInv, PieceInv, Waiting
<1>1. CASE \/ UpdateFilled(t) \/ AddGlobalFilled(t) \/ Hydrate(t) \/ AccessRead(t) \/ AccessHash(t)
           \/ EvictCheck(t) \/ EvictLock(t) \/ EvictDone(t) \/ EvictSub(t) \/ Snapshot(t)
           \/ \E c \in Cache : Collect(t, c)
           \/ CloseBegin(t) \/ CloseEnd(t) \/ CloseSub(t) \/ DiskClose(t) \/ DeleteCache(t)
  <2>1. QuietStep(t)
    BY <1>0, <1>1, UpdateFilledQuiet, HydrateQuiet, AccessQuiet, EvictQuiet, CloseQuiet,
       CloseBeginQuiet, DeleteCacheQuiet
  <2> QED
    BY <1>0, <2>1, QuietFetch
<1>2. CASE WriteAt(t) \/ LoadComplete(t) \/ MarkComplete(t)
  BY <1>2, EditFetch
<1>3. CASE MarkGet(t)
  <2>1. th[t].pc = "mark" /\ th[t].op = "hash"
    BY <1>3 DEF MarkGet, TInv, ThreadOK, Consistent
  <2>2. th[t].c \in Cache /\ th[t].p \in Idx
    BY <1>0, <2>1, Locals
  <2>3. GetOrCreate(t, th[t].c, th[t].p, "markmp", "mark", 1) /\ Still
    BY <1>3 DEF MarkGet, Still, cacheVars
  <2> QED
    BY <2>2, <2>3, LookupFetch
<1>4. CASE WritePiece(t) \/ ClearDisk(t)
  <2>1. UNCHANGED <<closed, obj, pieces>> /\ \E pc : Goto(t, pc)
    BY <1>4 DEF WritePiece, ClearDisk, cacheVars, memVars
  <2>2. Keeps(t)
    BY <1>0, <2>1, GotoMoves
  <2> QED
    BY <1>0, <2>1, <2>2, PlainFetch DEF Lasts, GainStep
<1>5. CASE MarkNotComplete(t)
  <2> DEFINE c == th[t].c
             p == th[t].p
  <2>1. /\ th[t].pc = "release" /\ Still /\ \E n : GotoN(t, "gsub", n)
        /\ \/ UNCHANGED <<obj, pieces>>
           \/ /\ c \notin closed /\ pieces[c][p] # None
              /\ obj' = [obj EXCEPT ![pieces[c][p]] = Released(@)]
              /\ pieces' = [pieces EXCEPT ![c][p] = None]
              /\ Wake(pieces[c][p])
    BY <1>5 DEF MarkNotComplete, Still, cacheVars
  <2>2. th[t].op = "hash"
    BY <2>1 DEF TInv, ThreadOK, Consistent
  <2>3. c \in Cache /\ p \in Idx
    BY <2>2, Locals
  <2>4. Keeps(t)
    BY <1>0, <2>1, GotoNMoves
  <2>5. CASE UNCHANGED <<obj, pieces>>
    BY <1>0, <2>1, <2>4, <2>5, PlainFetch DEF Lasts, GainStep, Still
  <2>6. FailedHash(c, p)
    BY <2>1 DEF FailedHash
  <2>7. pieces[c][p] # None => ~IsComplete(obj[pieces[c][p]])
    BY <1>0, <2>2 DEF PiecesOK, BusyOK, HashingOK, Incomplete, IsComplete
  <2> HIDE DEF c, p
  <2>8. CASE /\ pieces[c][p] # None
             /\ obj' = [obj EXCEPT ![pieces[c][p]] = Released(@)]
             /\ pieces' = [pieces EXCEPT ![c][p] = None]
             /\ Wake(pieces[c][p])
    BY <1>0, <2>1, <2>3, <2>4, <2>6, <2>7, <2>8, DropFetch
  <2> QED
    BY <2>1, <2>5, <2>8 DEF c, p
<1>6. CASE HashReturn(t) \/ MarkNotCompleteSub(t)
  <2>1. Finish(t) /\ UNCHANGED <<obj, pieces, closed>>
    BY <1>6 DEF HashReturn, MarkNotCompleteSub, cacheVars, memVars
  <2>2. Rests(t)
    BY <1>0, <2>1, FinishMoves
  <2> QED
    BY <1>0, <2>1, <2>2, PlainFetch DEF Lasts, GainStep
<1>7. CASE \E k \in th[t].cands : EvictPiece(t, k)
  <2>1. PICK k \in th[t].cands : EvictPiece(t, k)
    BY <1>7
  <2>2. k.c \in Cache /\ k.p \in Idx /\ k.o \in Obj /\ k.o # None /\ Still
    BY <2>1, ConstantsAssumption DEF EvictPiece, TInv, TypeOK, ThreadType, Cand, Still, cacheVars
  <2>3. Keeps(t)
    BY <1>0, <2>1, EvictPieceMoves
  <2>4. CASE UNCHANGED <<obj, pieces>>
    BY <1>0, <2>2, <2>3, <2>4, PlainFetch DEF Still, Lasts, GainStep
  <2>5. CASE /\ StillEvictable(k) /\ obj' = [obj EXCEPT ![k.o] = Released(@)] /\ Wake(k.o)
             /\ pieces' = [pieces EXCEPT ![k.c][k.p] = None]
    <3>1. pieces[k.c][k.p] = k.o /\ k.p \notin Protected(k.c)
      BY <2>5 DEF StillEvictable
    <3> QED
      BY <1>0, <2>2, <2>3, <2>5, <3>1, DropFetch
  <2> QED
    BY <2>1, <2>4, <2>5 DEF EvictPiece
<1>8. CASE \E p \in Idx : CloseRelease(t, p)
  <2>1. PICK p \in Idx : CloseRelease(t, p)
    BY <1>8
  <2>2. /\ th[t].pc = "closing" /\ Still /\ pieces[th[t].c][p] # None
        /\ obj' = [obj EXCEPT ![pieces[th[t].c][p]] = Released(@)] /\ Wake(pieces[th[t].c][p])
        /\ pieces' = [pieces EXCEPT ![th[t].c][p] = None]
        /\ \E n : GotoN(t, "closing", n)
    BY <2>1 DEF CloseRelease, Still, cacheVars
  <2>3. Keeps(t)
    BY <1>0, <2>2, GotoNMoves
  <2>4. th[t].c \in closed /\ th[t].c \in Cache
    BY <1>0, <2>2 DEF OpenOK, TypeOK
  <2> QED
    BY <1>0, <2>2, <2>3, <2>4, DropFetch
<1> QED
  BY <1>1, <1>2, <1>3, <1>4, <1>5, <1>6, <1>7, <1>8 DEF Step

LEMMA BeginFetch ==
  ASSUME TInv, PieceInv, NEW t \in Worker, Begin(t)
  PROVE  FetchStep
<1>0. t \in Thread /\ t \notin Reader
  BY ConstantsAssumption DEF Thread
<1>1. CASE \E c \in Cache, p \in Idx :
             BeginRead(t, c, p) \/ BeginHash(t, c, p) \/ \E b \in Block : BeginWrite(t, c, p, b)
  <2>1. \E c \in Cache, p \in Idx : \E b, op, pc : GetOrCreate(t, c, p, pc, op, b)
    BY <1>1 DEF BeginRead, BeginHash, BeginWrite
  <2>2. Still
    BY <1>1 DEF BeginRead, BeginHash, BeginWrite, Still, cacheVars
  <2> QED
    BY <1>0, <2>1, <2>2, LookupFetch
<1>2. CASE \/ \E n \in Capacities : SetGlobalCapacity(t, n)
           \/ \E c \in Cache : BeginClose(t, c) \/ BeginDrop(t, c)
  <2>1. QuietStep(t) /\ UNCHANGED reader
    BY <1>0, <1>2, BeginQuiet DEF PieceInv, SetGlobalCapacity, BeginClose, BeginDrop
  <2>2. th'[t].pc # "waitrange"
    <3>1. th[t] \in ThreadType
      BY <1>0 DEF TInv, TypeOK
    <3>2. ASSUME NEW n \in Capacities, SetGlobalCapacity(t, n) PROVE th'[t].pc # "waitrange"
      <4>1. th'[t] = [th[t] EXCEPT !.pc = "evict", !.op = "resize"]
        BY <1>0, <3>2 DEF SetGlobalCapacity, TInv, TypeOK
      <4> QED
        BY <3>1, <4>1 DEF ThreadType
    <3>3. ASSUME NEW c \in Cache, BeginClose(t, c) \/ BeginDrop(t, c) PROVE th'[t].pc # "waitrange"
      <4>1. \E op : th'[t] = [th[t] EXCEPT !.pc = "close", !.op = op, !.c = c]
        BY <1>0, <3>3 DEF BeginClose, BeginDrop, TInv, TypeOK
      <4> QED
        BY <3>1, <4>1 DEF ThreadType
    <3> QED
      BY <1>2, <3>2, <3>3
  <2> QED
    BY <1>0, <2>1, <2>2, QuietFetch
<1> QED
  BY <1>1, <1>2 DEF Begin

LEMMA ReaderFetch ==
  ASSUME TInv, PieceInv, NEW r \in Reader,
         \/ ReaderStep(r) \/ GiveUp(r) \/ CloseReader(r) \/ UnregisterReader(r)
         \/ \E c \in Cache : OpenReader(r, c)
         \/ \E p \in Idx : Seek(r, p)
         \/ \E b \in Block : BeginStream(r, b)
  PROVE  FetchStep
<1>0. r \in Thread /\ TypeOK /\ OpenOK /\ PiecesOK
  BY DEF Thread, TInv, PieceInv
<1>1. CASE WaitRange(r) \/ Unpark(r) \/ GiveUp(r) \/ Serve(r) \/ AccessStream(r)
  <2>1. /\ UNCHANGED <<closed, obj, pieces>>
        /\ \/ UNCHANGED reader /\ \E pc \in {"serve", "parked", "refetch", "outer"} : Goto(r, pc)
           \/ Finish(r) /\ \A q \in Reader \ {r} : reader'[q] = reader[q]
    BY <1>1 DEF WaitRange, Unpark, GiveUp, Serve, AccessStream, TInv, TypeOK, cacheVars, memVars
  <2>2. Only(r) /\ (Rests(r) \/ (Keeps(r) /\ UNCHANGED reader /\ th'[r].pc # "waitrange"))
    BY <1>0, <2>1, FinishMoves, GotoMoves
  <2> QED
    BY <1>0, <2>1, <2>2, PlainFetch DEF Lasts, GainStep
<1>2. CASE Outer(r) \/ Refetch(r)
  <2>1. th[r].op = "reader"
    BY <1>0, <1>2 DEF Outer, Refetch, TInv, ThreadOK, Consistent
  <2>2. th[r].c \in Cache /\ th[r].p \in Idx
    BY <1>0, <2>1, Locals
  <2>3. /\ \/ GetOrCreate(r, th[r].c, th[r].p, "hydrate", "reader", th[r].b)
           \/ GetOrCreate(r, th[r].c, th[r].p, "waitrange", "reader", th[r].b)
        /\ Still
    BY <1>2 DEF Outer, Refetch, Still, cacheVars
  <2> QED
    BY <1>0, <2>2, <2>3, LookupFetch
<1>3. CASE \E b \in Block : BeginStream(r, b)
  <2>1. PICK b \in Block : BeginStream(r, b)
    BY <1>3
  <2>2. Still /\ GetOrCreate(r, reader[r].c, reader[r].pos, "hydrate", "reader", b)
    BY <2>1 DEF BeginStream, Still, cacheVars
  <2>3. reader[r].c \in Cache /\ reader[r].pos \in Idx
    BY <1>0, <2>1 DEF BeginStream, TInv, ReaderOK, TypeOK, ReaderType
  <2> QED
    BY <1>0, <2>2, <2>3, LookupFetch
<1>4. CASE \/ CloseReader(r) \/ UnregisterReader(r)
           \/ \E c \in Cache : OpenReader(r, c)
           \/ \E p \in Idx : Seek(r, p)
  <2>1. /\ UNCHANGED <<th, obj, pieces, closed>>
        /\ \A q \in Reader \ {r} : reader'[q] = reader[q]
    BY <1>4 DEF CloseReader, UnregisterReader, OpenReader, Seek, TInv, TypeOK, memVars, cacheVars
  <2>2. th[r].op = "reader" => reader'[r].state # "open"
    <3>1. CASE CloseReader(r) \/ UnregisterReader(r)
      BY <3>1 DEF CloseReader, UnregisterReader, TInv, TypeOK, ReaderType, NoReader
    <3>2. CASE (\E c \in Cache : OpenReader(r, c)) \/ (\E p \in Idx : Seek(r, p))
      BY <1>0, <3>2 DEF OpenReader, Seek, Idle, TInv, ThreadOK, Consistent
    <3> QED
      BY <1>4, <3>1, <3>2
  <2> QED
    BY <2>1, <2>2 DEF FetchStep, MapStep, GainStep, ReadStep, Reading, Lasts
<1> QED
  BY <1>1, <1>2, <1>3, <1>4 DEF ReaderStep

LEMMA NextFetch ==
  ASSUME TInv, TInv', PieceInv, [Next]_vars
  PROVE  FetchStep
<1>1. CASE \E t \in Thread : Step(t)
  BY <1>1, StepFetch
<1>2. CASE \E t \in Worker : Begin(t)
  BY <1>2, BeginFetch
<1>3. CASE \E r \in Reader :
             \/ ReaderStep(r) \/ GiveUp(r) \/ CloseReader(r) \/ UnregisterReader(r)
             \/ \E c \in Cache : OpenReader(r, c)
             \/ \E p \in Idx : Seek(r, p)
             \/ \E b \in Block : BeginStream(r, b)
  BY <1>3, ReaderFetch
<1>4. CASE \/ \E c \in Cache : OpenTorrent(c)
           \/ \E c \in Cache, p \in Idx : UpdateCompletion(c, p)
           \/ UNCHANGED vars
  <2>1. UNCHANGED <<th, obj, pieces, closed, reader>>
    BY <1>4 DEF OpenTorrent, UpdateCompletion, vars, memVars, cacheVars
  <2> QED
    BY <2>1 DEF FetchStep, MapStep, GainStep, ReadStep, Reading, Lasts
<1> QED
  BY <1>1, <1>2, <1>3, <1>4 DEF Next

\* A reader that comes to sleep has just found its range missing.
LEMMA ComesToSleep ==
  ASSUME TInv, [Next]_vars, NEW r \in Reader, parkedOn'[r] # None
  PROVE  parkedOn'[r] = parkedOn[r] \/ th[r].pc = "waitrange"
<1>1. ASSUME NEW t \in Thread, StepOK(t) PROVE parkedOn'[r] = parkedOn[r]
  BY <1>1 DEF StepOK, MemStep, Wake
<1>2. ASSUME NEW q \in Reader, Parking(q) PROVE parkedOn'[r] = parkedOn[r] \/ th[r].pc = "waitrange"
  <2>1. CASE WaitRange(q)
    <3>1. th[q].pc = "waitrange" /\ (parkedOn' = parkedOn \/ parkedOn' = [parkedOn EXCEPT ![q] = th[q].o])
      BY <2>1 DEF WaitRange
    <3> QED
      BY <3>1 DEF TInv, TypeOK
  <2>2. CASE Unpark(q) \/ GiveUp(q)
    BY <2>2 DEF Unpark, GiveUp, TInv, TypeOK
  <2> QED
    BY <1>2, <2>1, <2>2 DEF Parking
<1> QED
  BY <1>1, <1>2, NextCases DEF EnvOK, vars

\* Nothing but a failed hash strands a reader, and only between its refetch and its wait: every
\* other step keeps the piece a Read is about to wait on in the map of a live cache, or wakes who
\* waits on it (Reader.Read's wait loop against MarkNotComplete, evictPiece and Close).
THEOREM StrandedByFailedHashOnly == Spec => StrandedOnlyByFailedHash
<1> DEFINE Strands ==
      \A r \in Reader :
        Astray(r)' =>
          \/ Astray(r)
          \/ /\ th[r].pc = "waitrange"
             /\ \E t \in Thread : /\ th[t].pc = "release"
                                  /\ th[t].c = th[r].c /\ th[t].p = th[r].p
<1>1. Init => WindowOK /\ ParkedOK
  BY DEF Init, WindowOK, Reading, NoReader, ParkedOK
<1>2. TInv /\ TInv' /\ PieceInv /\ WindowOK /\ [Next]_vars => WindowOK'
  BY WindowOK_Step DEF PieceInv
<1>3. TInv /\ ParkedOK /\ [Next]_vars => ParkedOK'
  BY ParkedOK_Step
<1>4. TInv /\ TInv' /\ PieceInv /\ WindowOK /\ ParkedOK' /\ [Next]_vars => Strands
  <2> SUFFICES ASSUME TInv, TInv', PieceInv, WindowOK, ParkedOK', [Next]_vars, NEW r \in Reader,
                      Astray(r)'
               PROVE  \/ Astray(r)
                      \/ th[r].pc = "waitrange" /\ FailedHash(th[r].c, th[r].p)
    BY DEF FailedHash
  <2>1. FetchStep
    BY NextFetch
  <2>2. /\ th'[r].pc \in {"waitrange", "parked"} /\ Reading(r)' /\ th'[r].c \notin closed'
        /\ pieces'[th'[r].c][th'[r].p] # th'[r].o
        /\ th'[r].pc = "parked" => parkedOn'[r] # None /\ parkedOn'[r] = th'[r].o
    BY DEF Astray, Stranded, OnMapped, ParkedOK, Reading, TInv, ThreadOK, Consistent, Thread
  <2>3. /\ Reading(r) /\ th'[r].c = th[r].c /\ th'[r].p = th[r].p /\ th'[r].o = th[r].o
        /\ th'[r].pc = "waitrange" => th[r].pc = "waitrange"
    BY <2>1, <2>2 DEF FetchStep, ReadStep
  <2>4. th[r].c \in Cache \ closed' /\ th[r].c \notin closed /\ th[r].p \in Idx /\ th[r].o # None
    BY <2>1, <2>2, <2>3, Locals DEF Reading, Thread, FetchStep, MapStep
  <2>5. CASE pieces[th[r].c][th[r].p] = th[r].o
    <3>1. Wake(th[r].o) /\ (th[r].p \notin Protected(th[r].c) \/ FailedHash(th[r].c, th[r].p))
      BY <2>1, <2>2, <2>3, <2>4, <2>5 DEF FetchStep, MapStep
    <3>2. th[r].p \in Protected(th[r].c)
      BY <2>3, InWindow DEF WindowOK, Reading, TInv
    <3>3. th'[r].pc # "parked"
      BY <2>2, <2>3, <2>4, <3>1 DEF Wake
    <3> QED
      BY <2>2, <2>3, <3>1, <3>2, <3>3
  <2>6. CASE pieces[th[r].c][th[r].p] # th[r].o
    <3>1. th[r].pc = "waitrange" \/ parkedOn[r] # None
      BY <2>2, <2>3, ComesToSleep
    <3> QED
      BY <2>3, <2>4, <2>6, <3>1 DEF Astray, Stranded, OnMapped, Reading
  <2> QED
    BY <2>5, <2>6
<1>5. Spec => [](TInv /\ PieceInv /\ WindowOK /\ ParkedOK)
  BY <1>1, <1>2, <1>3, PieceInv_Holds, TInv_Init, TInv_Step, PTL DEF Spec
<1>6. TInv /\ TInv' /\ PieceInv /\ WindowOK /\ ParkedOK' /\ [Next]_vars => [Strands]_vars
  BY <1>4
<1> QED
  BY <1>5, <1>6, PTL DEF Spec, StrandedOnlyByFailedHash

-----------------------------------------------------------------------------
(* A sleeping reader's piece is fetched *)

\* In a live cache a complete piece that a Read holds is the one in the map.
HoldsOK ==
  \A r \in Reader : Reading(r) /\ th[r].c \notin closed /\ IsComplete(obj[th[r].o]) =>
    pieces[th[r].c][th[r].p] = th[r].o

\* What a reader looks at and is complete stays in the map.
LEMMA CompleteStays ==
  ASSUME TInv, WindowOK, FetchStep, NEW r \in Reader, Reading(r), th[r].c \notin closed',
         pieces[th[r].c][th[r].p] # None, IsComplete(obj[pieces[th[r].c][th[r].p]])
  PROVE  /\ pieces'[th[r].c][th[r].p] = pieces[th[r].c][th[r].p]
         /\ IsComplete(obj'[pieces[th[r].c][th[r].p]])
<1>1. th[r].c \in Cache \ closed' /\ th[r].p \in Idx
  BY Locals DEF Reading, Thread
<1>2. th[r].p \in Protected(th[r].c)
  BY InWindow DEF WindowOK, Reading, TInv
<1> QED
  BY <1>1, <1>2 DEF FetchStep, MapStep, Lasts

LEMMA HoldsOK_Step ==
  ASSUME TInv, WindowOK, FetchStep, DiskCaches = {}, HoldsOK
  PROVE  HoldsOK'
<1> SUFFICES ASSUME NEW r \in Reader, Reading(r)', th'[r].c \notin closed', IsComplete(obj'[th'[r].o]),
                    pieces'[th'[r].c][th'[r].p] # th'[r].o
             PROVE  FALSE
  BY DEF HoldsOK
<1>1. /\ Reading(r) /\ th'[r].c = th[r].c /\ th'[r].p = th[r].p /\ th'[r].o = th[r].o
      /\ th[r].c \notin closed
  BY DEF FetchStep, ReadStep, MapStep
<1>2. IsComplete(obj[th[r].o])
  BY <1>1 DEF FetchStep, GainStep
<1>3. pieces[th[r].c][th[r].p] = th[r].o /\ th[r].o # None
  BY <1>1, <1>2, Locals DEF HoldsOK, Reading, Thread
<1> QED
  BY <1>1, <1>2, <1>3, CompleteStays

\* What the client believes of the piece a Read waits for is true, or about to be corrected.
AskedOK ==
  \A r \in Reader :
    Reading(r) /\ th[r].c \notin closed /\ th[r].pc \in Waiting
      /\ client[th[r].c][th[r].p].have =>
        PieceComplete(th[r].c, th[r].p) \/ <<th[r].c, th[r].p>> \in updates

\* The client learns the truth, an update is dropped only when it has, and a Read starts to wait
\* when the client has been asked.
AskStep ==
  /\ \A c \in Cache, p \in Idx :
       client'[c][p].have => client[c][p].have \/ PieceComplete(c, p)
  /\ \A c \in Cache, p \in Idx :
       <<c, p>> \in updates /\ client'[c][p].have => <<c, p>> \in updates' \/ PieceComplete(c, p)
  /\ \A r \in Reader :
       Reading(r)' /\ th'[r].pc \in Waiting =>
         /\ Reading(r) /\ th'[r].c = th[r].c /\ th'[r].p = th[r].p
         /\ \/ th[r].pc \in Waiting
            \/ client'[th[r].c][th[r].p].have /\ th[r].c \notin closed =>
                 PieceComplete(th[r].c, th[r].p)

LEMMA AskKeeps ==
  ASSUME TInv, WindowOK, FetchStep, DiskCaches = {}, AskedOK, AskStep
  PROVE  AskedOK'
<1> SUFFICES ASSUME NEW r \in Reader, Reading(r)', th'[r].c \notin closed', th'[r].pc \in Waiting,
                    client'[th'[r].c][th'[r].p].have
             PROVE  PieceComplete(th[r].c, th[r].p)' \/ <<th'[r].c, th'[r].p>> \in updates'
  BY DEF AskedOK
<1>1. Reading(r) /\ th'[r].c = th[r].c /\ th'[r].p = th[r].p /\ th[r].c \notin closed
  BY DEF AskStep, FetchStep, MapStep
<1>2. th[r].c \in Cache /\ th[r].p \in Idx
  BY <1>1, Locals DEF Reading, Thread
<1>3. PieceComplete(th[r].c, th[r].p) \/ <<th[r].c, th[r].p>> \in updates'
  BY <1>1, <1>2 DEF AskStep, AskedOK
<1>4. ASSUME PieceComplete(th[r].c, th[r].p) PROVE PieceComplete(th[r].c, th[r].p)'
  <2>1. pieces[th[r].c][th[r].p] # None /\ IsComplete(obj[pieces[th[r].c][th[r].p]])
    BY <1>4 DEF PieceComplete
  <2>2. pieces'[th[r].c][th[r].p] # None /\ IsComplete(obj'[pieces'[th[r].c][th[r].p]])
    BY <1>1, <2>1, CompleteStays
  <2> QED
    BY <1>1, <2>2 DEF PieceComplete, IsComplete
<1> QED
  BY <1>1, <1>3, <1>4

\* The client forgets its chunks when a hash has been dealt with.
LEMMA ResetEffect ==
  ASSUME TypeOK, NEW t \in Thread, HashReturn(t) \/ MarkNotCompleteSub(t), th[t].c \in Cache,
         th[t].p \in Idx
  PROVE  /\ client'[th[t].c][th[t].p].dirty = {}
         /\ client'[th[t].c][th[t].p].have => PieceComplete(th[t].c, th[t].p)
         /\ \A d \in Cache, q \in Idx :
              d # th[t].c \/ q # th[t].p => client'[d][q] = client[d][q]
<1>1. PICK m \in {NewClient, [NewClient EXCEPT !.have = PieceComplete(th[t].c, th[t].p)]} :
        client' = [client EXCEPT ![th[t].c][th[t].p] = m]
  BY DEF HashReturn, MarkNotCompleteSub
<1>2. m.dirty = {} /\ (m.have => PieceComplete(th[t].c, th[t].p))
  BY <1>1 DEF NewClient
<1>3. /\ client'[th[t].c][th[t].p] = m
      /\ \A d \in Cache, q \in Idx :
           d # th[t].c \/ q # th[t].p => client'[d][q] = client[d][q]
  BY <1>1 DEF TypeOK
<1> QED
  BY <1>2, <1>3
LEMMA StepAsks ==
  ASSUME TInv, PieceInv, NEW t \in Thread, Step(t)
  PROVE  AskStep
<1>0. Only(t) /\ th'[t].pc \notin Waiting /\ UNCHANGED reader
  BY StepMoves, StepReader
<1>1. \A r \in Reader :
        Reading(r)' /\ th'[r].pc \in Waiting => Reading(r) /\ th'[r] = th[r]
  BY <1>0 DEF Only, Reading, Thread
<1>2. updates \subseteq updates'
  <2>1. ASSUME NEW c, NEW p, SpawnUpdate(c, p) PROVE updates \subseteq updates'
    BY <2>1 DEF SpawnUpdate
  <2> QED
    BY <2>1 DEF Step, WriteAt, UpdateFilled, AddGlobalFilled, AfterFill, Hydrate, LoadComplete,
       AccessRead,
       AccessHash, MarkGet, MarkComplete, Snapshot, WritePiece, HashReturn, ClearDisk, MarkNotComplete,
       MarkNotCompleteSub, EvictCheck, EvictLock, EvictDone, EvictSub, Collect, EvictPiece,
       CloseBegin, CloseEnd, CloseSub, DiskClose, DeleteCache, CloseRelease, clientVars
<1>3. \A c \in Cache, p \in Idx :
        client'[c][p].have => client[c][p].have \/ PieceComplete(c, p)
  <2>1. CASE HashReturn(t) \/ MarkNotCompleteSub(t)
    <3>1. th[t].c \in Cache /\ th[t].p \in Idx
      BY <2>1, Locals DEF HashReturn, MarkNotCompleteSub, TInv, ThreadOK, Consistent
    <3> QED
      BY <2>1, <3>1, ResetEffect DEF TInv
  <2>2. CASE ~(HashReturn(t) \/ MarkNotCompleteSub(t))
    <3>1. UNCHANGED client
      BY <2>2 DEF Step, WriteAt, UpdateFilled, AddGlobalFilled, Hydrate, LoadComplete, AccessRead,
         AccessHash, MarkGet, MarkComplete, Snapshot, WritePiece, ClearDisk, MarkNotComplete, EvictCheck,
         EvictLock, EvictDone, EvictSub, Collect, EvictPiece, CloseBegin, CloseEnd, CloseSub, DiskClose,
         DeleteCache, CloseRelease, clientVars
    <3> QED
      BY <3>1
  <2> QED
    BY <2>1, <2>2
<1> QED
  BY <1>1, <1>2, <1>3 DEF AskStep

LEMMA BeginAsks ==
  ASSUME TInv, PieceInv, NEW t \in Worker, Begin(t)
  PROVE  AskStep
<1>0. t \in Thread /\ t \notin Reader
  BY ConstantsAssumption DEF Thread
<1>1. UNCHANGED <<reader, updates>>
  BY DEF Begin, BeginRead, BeginHash, BeginWrite, SetGlobalCapacity, BeginClose, BeginDrop,
     clientVars
<1>2. Only(t)
  <2>1. CASE \/ \E n \in Capacities : SetGlobalCapacity(t, n)
             \/ \E c \in Cache : BeginClose(t, c) \/ BeginDrop(t, c)
    BY <1>0, <2>1, BeginQuiet DEF PieceInv, QuietStep, Advance
  <2> QED
    BY <1>0, <2>1, LookupMoves DEF Begin, BeginRead, BeginHash, BeginWrite
<1>3. \A c \in Cache, p \in Idx : client'[c][p].have = client[c][p].have
  <2>1. ASSUME NEW c \in Cache, NEW p \in Idx, NEW b \in Block, BeginWrite(t, c, p, b)
        PROVE  \A d \in Cache, q \in Idx : client'[d][q].have = client[d][q].have
    BY <2>1, ClientDirty DEF BeginWrite, TInv
  <2>2. ASSUME NEW c \in Cache, NEW p \in Idx, BeginHash(t, c, p)
        PROVE  \A d \in Cache, q \in Idx : client'[d][q].have = client[d][q].have
    BY <2>2, ClientHashing DEF BeginHash, TInv
  <2> QED
    BY <2>1, <2>2 DEF Begin, BeginRead, SetGlobalCapacity, BeginClose, BeginDrop, clientVars
<1> QED
  BY <1>0, <1>1, <1>2, <1>3 DEF AskStep, Reading, Only, Thread

LEMMA AskedTruth ==
  ASSUME TypeOK, NEW c \in Cache, NEW p \in Idx,
         client' = [client EXCEPT ![c][p].have = PieceComplete(c, p)]
  PROVE  /\ client'[c][p].have => PieceComplete(c, p)
         /\ \A d \in Cache, q \in Idx : d # c \/ q # p => client'[d][q] = client[d][q]
<1>1. client[c][p] \in ClientType
  BY DEF TypeOK
<1>2. /\ client'[c][p] = [client[c][p] EXCEPT !.have = PieceComplete(c, p)]
      /\ \A d \in Cache, q \in Idx : d # c \/ q # p => client'[d][q] = client[d][q]
  BY DEF TypeOK
<1>3. client'[c][p].have => PieceComplete(c, p)
  BY <1>1, <1>2 DEF ClientType
<1> QED
  BY <1>2, <1>3

LEMMA ReaderAsks ==
  ASSUME TInv, PieceInv, HoldsOK, NEW r \in Reader,
         \/ ReaderStep(r) \/ GiveUp(r) \/ CloseReader(r) \/ UnregisterReader(r)
         \/ \E c \in Cache : OpenReader(r, c)
         \/ \E p \in Idx : Seek(r, p)
         \/ \E b \in Block : BeginStream(r, b)
  PROVE  AskStep
<1>0. r \in Thread /\ TypeOK
  BY DEF Thread, TInv
<1>1. UNCHANGED updates
  BY DEF ReaderStep, Outer, AccessStream, Refetch, WaitRange, Unpark, Serve, GiveUp, CloseReader,
     UnregisterReader, OpenReader, Seek, BeginStream, clientVars
<1>2. CASE WaitRange(r) \/ Unpark(r) \/ GiveUp(r) \/ Serve(r)
  <2>1. UNCHANGED client
    BY <1>2 DEF WaitRange, Unpark, GiveUp, Serve, clientVars
  <2>2. \/ UNCHANGED reader /\ th[r].pc \in Waiting /\ \E pc : Goto(r, pc)
        \/ UNCHANGED reader /\ Goto(r, "outer")
        \/ Finish(r) /\ \A q \in Reader \ {r} : reader'[q] = reader[q]
    BY <1>2 DEF WaitRange, Unpark, GiveUp, Serve, TInv, TypeOK, Waiting
  <2>3. /\ Only(r)
        /\ \/ UNCHANGED reader /\ th[r].pc \in Waiting /\ Keeps(r)
           \/ UNCHANGED reader /\ th'[r].pc = "outer"
           \/ th'[r].pc = "idle" /\ \A q \in Reader \ {r} : reader'[q] = reader[q]
    BY <1>0, <2>2, GotoMoves, FinishMoves
  <2> QED
    BY <1>1, <2>1, <2>3 DEF AskStep, Reading, Only, Keeps, Thread, Waiting
<1>3. CASE Outer(r) \/ Refetch(r)
  <2>1. th[r].op = "reader" /\ UNCHANGED <<reader, client>> /\ (Refetch(r) => th[r].pc \in Waiting)
    BY <1>0, <1>3 DEF Outer, Refetch, TInv, ThreadOK, Consistent, clientVars, Waiting
  <2>2. th[r].c \in Cache /\ th[r].p \in Idx
    BY <1>0, <2>1, Locals
  <2>3. /\ Only(r) /\ th'[r].c = th[r].c /\ th'[r].p = th[r].p
        /\ Outer(r) => th'[r].pc = "hydrate"
    BY <1>0, <1>3, <2>2, LookupMoves, GetOrCreateGets DEF Outer, Refetch
  <2> QED
    BY <1>1, <1>3, <2>1, <2>3 DEF AskStep, Reading, Only, Thread, Waiting
<1>4. CASE \E b \in Block : BeginStream(r, b)
  <2>1. UNCHANGED <<reader, client>> /\ reader[r].c \in Cache /\ reader[r].pos \in Idx
    BY <1>0, <1>4 DEF BeginStream, TInv, ReaderOK, TypeOK, ReaderType, clientVars
  <2>2. Only(r) /\ th'[r].pc = "hydrate"
    BY <1>0, <1>4, <2>1, LookupMoves, GetOrCreateGets DEF BeginStream
  <2> QED
    BY <1>1, <2>1, <2>2 DEF AskStep, Reading, Only, Thread, Waiting
<1>5. CASE AccessStream(r)
  <2> DEFINE c == th[r].c
             p == th[r].p
  <2>1. /\ UNCHANGED reader /\ th[r].op = "reader"
        /\ Finish(r) \/ Goto(r, "refetch")
        /\ \/ IsComplete(obj[th[r].o]) /\ UNCHANGED client
           \/ client' = [client EXCEPT ![c][p].have = PieceComplete(c, p)]
    BY <1>5 DEF AccessStream
  <2>2. Only(r) /\ (th'[r].pc = "idle" \/ Keeps(r))
    BY <1>0, <2>1, FinishMoves, GotoMoves
  <2>3. c \in Cache /\ p \in Idx /\ th[r].o # None
    BY <1>0, <2>1, Locals
  <2>4. ASSUME client' = [client EXCEPT ![c][p].have = PieceComplete(c, p)]
        PROVE  /\ client'[c][p].have => PieceComplete(c, p)
               /\ \A d \in Cache, q \in Idx : d # c \/ q # p => client'[d][q] = client[d][q]
    BY <1>0, <2>3, <2>4, AskedTruth
  <2>5. \A d \in Cache, q \in Idx : client'[d][q].have => client[d][q].have \/ PieceComplete(d, q)
    BY <2>1, <2>4
  <2>6. Reading(r) /\ client'[c][p].have /\ c \notin closed => PieceComplete(c, p)
    BY <2>1, <2>3, <2>4 DEF HoldsOK, PieceComplete
  <2>7. ASSUME NEW q \in Reader, Reading(q)', th'[q].pc \in Waiting
        PROVE  /\ Reading(q) /\ th'[q].c = th[q].c /\ th'[q].p = th[q].p
               /\ q = r \/ th[q].pc \in Waiting
    BY <2>1, <2>2, <2>7 DEF Reading, Only, Keeps, Thread, Waiting
  <2> QED
    BY <1>1, <2>5, <2>6, <2>7 DEF AskStep
<1>6. CASE \/ CloseReader(r) \/ UnregisterReader(r)
           \/ \E c \in Cache : OpenReader(r, c)
           \/ \E p \in Idx : Seek(r, p)
  <2>1. /\ UNCHANGED <<th, client>>
        /\ \A q \in Reader \ {r} : reader'[q] = reader[q]
    BY <1>6 DEF CloseReader, UnregisterReader, OpenReader, Seek, TInv, TypeOK, clientVars
  <2>2. th[r].op = "reader" => reader'[r].state # "open"
    <3>1. CASE CloseReader(r) \/ UnregisterReader(r)
      BY <3>1 DEF CloseReader, UnregisterReader, TInv, TypeOK, ReaderType, NoReader
    <3>2. CASE (\E c \in Cache : OpenReader(r, c)) \/ (\E p \in Idx : Seek(r, p))
      BY <1>0, <3>2 DEF OpenReader, Seek, Idle, TInv, ThreadOK, Consistent
    <3> QED
      BY <1>6, <3>1, <3>2
  <2> QED
    BY <1>1, <2>1, <2>2 DEF AskStep, Reading
<1> QED
  BY <1>2, <1>3, <1>4, <1>5, <1>6 DEF ReaderStep

LEMMA NextAsks ==
  ASSUME TInv, PieceInv, HoldsOK, [Next]_vars
  PROVE  AskStep
<1>1. CASE UNCHANGED vars
  BY <1>1 DEF vars, AskStep, Reading
<1>2. ASSUME NEW c \in Cache, OpenTorrent(c) PROVE AskStep
  <2>1. /\ UNCHANGED <<th, reader, updates>>
        /\ \A p \in Idx : client'[c][p] = [NewClient EXCEPT !.have = PieceComplete(c, p)]
        /\ \A d \in Cache \ {c} : client'[d] = client[d]
    BY <1>2 DEF OpenTorrent, TInv, TypeOK
  <2>2. \A p \in Idx : client'[c][p].have = PieceComplete(c, p)
    BY <2>1 DEF NewClient
  <2> QED
    BY <2>1, <2>2 DEF AskStep, Reading
<1>3. ASSUME NEW c \in Cache, NEW p \in Idx, UpdateCompletion(c, p) PROVE AskStep
  <2>1. /\ UNCHANGED <<th, reader>> /\ updates' = updates \ {<<c, p>>}
        /\ client' = [client EXCEPT ![c][p].have = PieceComplete(c, p)]
    BY <1>3 DEF UpdateCompletion
  <2>2. /\ client'[c][p].have => PieceComplete(c, p)
        /\ \A d \in Cache, q \in Idx : d # c \/ q # p => client'[d][q] = client[d][q]
    BY <2>1, AskedTruth DEF TInv
  <2> QED
    BY <2>1, <2>2 DEF AskStep, Reading
<1> QED
  BY <1>1, <1>2, <1>3, StepAsks, BeginAsks, ReaderAsks DEF Next

\* In stream mode a reader that has not been stranded never sleeps on a piece that the client
\* believes complete: the client is fetching it or about to be told (Reader.Read and evictPiece
\* calling UpdateCompletion).
THEOREM SleepersAreFetched ==
  ASSUME DiskCaches = {}
  PROVE  Spec => []SleeperIsFetched
<1> DEFINE Inv == WindowOK /\ ParkedOK /\ HoldsOK /\ AskedOK
<1>1. Init => Inv
  BY DEF Init, AskedOK, Reading, NoReader, ParkedOK, WindowOK, HoldsOK
<1>2. TInv /\ TInv' /\ PieceInv /\ Inv /\ [Next]_vars => Inv'
  BY NextFetch, NextAsks, AskKeeps, HoldsOK_Step, ParkedOK_Step, WindowOK_Step DEF PieceInv
<1>3. TInv /\ Inv => SleeperIsFetched
  <2> SUFFICES ASSUME TInv, AskedOK, ParkedOK, NEW r \in Reader, Asleep(r),
                      th[r].c \notin closed, OnMapped(r), client[th[r].c][th[r].p].have
               PROVE  <<th[r].c, th[r].p>> \in updates
    BY DEF SleeperIsFetched
  <2>1. Reading(r) /\ th[r].pc = "parked"
    BY DEF Asleep, Awake, Reading, TInv, ThreadOK, Consistent, Thread
  <2>2. ~HasRange(obj[th[r].o], th[r].b)
    BY DEF ParkedOK, Asleep, Awake
  <2>3. ~PieceComplete(th[r].c, th[r].p)
    BY <2>2 DEF OnMapped, PieceComplete, IsComplete, HasRange
  <2> QED
    BY <2>1, <2>3 DEF AskedOK, Waiting
<1> QED
  BY <1>1, <1>2, <1>3, PieceInv_Holds, TInv_Init, TInv_Step, PTL DEF Spec

-----------------------------------------------------------------------------
(* The two accountants *)

\* The units that Total counts.
Units(S, w) == UNION {{x} \X (1..w[x]) : x \in S}

\* A weighing of S whose total is a number.
Counted(S, w) == w \in [S -> Nat] /\ IsFiniteSet(Units(S, w))

LEMMA CountedTotal ==
  ASSUME NEW S, NEW w, Counted(S, w)
  PROVE  Total(S, w) \in Nat
  BY FS_CardinalityType DEF Counted, Total, Units

LEMMA NothingCounted ==
  ASSUME NEW S, NEW w \in [S -> Nat], \A x \in S : w[x] = 0
  PROVE  Counted(S, w) /\ Total(S, w) = 0
<1>1. Units(S, w) = {}
  <2>1. ASSUME NEW u, u \in Units(S, w) PROVE FALSE
    <3>1. PICK x \in S : u \in {x} \X (1..w[x])
      BY <2>1 DEF Units
    <3>2. 1..w[x] = {}
      BY SMT
    <3> QED
      BY <3>1, <3>2
  <2> QED
    BY <2>1
<1> QED
  BY <1>1, FS_EmptySet DEF Counted, Total, Units

LEMMA Column ==
  ASSUME NEW x, NEW n \in Nat
  PROVE  IsFiniteSet({x} \X (1..n)) /\ Cardinality({x} \X (1..n)) = n
<1>1. IsFiniteSet({x}) /\ Cardinality({x}) = 1
  BY FS_Singleton
<1>2. IsFiniteSet(1..n) /\ Cardinality(1..n) = n
  BY FS_Interval
<1>3. \A X, T : IsFiniteSet(X) /\ IsFiniteSet(T) =>
             IsFiniteSet(X \X T) /\ Cardinality(X \X T) = Cardinality(X) * Cardinality(T)
  BY FS_Product
<1>4. /\ IsFiniteSet({x} \X (1..n))
      /\ Cardinality({x} \X (1..n)) = Cardinality({x}) * Cardinality(1..n)
  BY <1>1, <1>2, <1>3, Zenon
<1>5. 1 * n = n
  OBVIOUS
<1> QED
  BY <1>1, <1>2, <1>4, <1>5, Zenon

\* One weight changes, and the total with it.
LEMMA Change ==
  ASSUME NEW S, NEW w, NEW v, Counted(S, w), v \in [S -> Nat], NEW x \in S,
         \A y \in S \ {x} : v[y] = w[y]
  PROVE  Counted(S, v) /\ Total(S, v) = Total(S, w) - w[x] + v[x]
<1> DEFINE R == UNION {{y} \X (1..w[y]) : y \in S \ {x}}
           A == {x} \X (1..w[x])
           B == {x} \X (1..v[x])
<1>1. w[x] \in Nat /\ v[x] \in Nat
  BY DEF Counted
<1>2. Units(S, w) = R \cup A /\ Units(S, v) = R \cup B
  BY DEF Units
<1>3. R \cap A = {} /\ R \cap B = {}
  OBVIOUS
<1>4. IsFiniteSet(R)
  <2>1. R \in SUBSET Units(S, w)
    BY <1>2
  <2> QED
    BY <2>1, FS_Subset DEF Counted
<1>5. /\ IsFiniteSet(A) /\ Cardinality(A) = w[x]
      /\ IsFiniteSet(B) /\ Cardinality(B) = v[x]
  BY <1>1, Column
<1>6. Cardinality(R) \in Nat
  BY <1>4, FS_CardinalityType
<1> HIDE DEF R, A, B
<1>7. Cardinality(R \cup A) = Cardinality(R) + w[x] - Cardinality(R \cap A)
  BY <1>4, <1>5, FS_Union
<1>8. /\ Cardinality(R \cup B) = Cardinality(R) + v[x] - Cardinality(R \cap B)
      /\ IsFiniteSet(R \cup B)
  BY <1>4, <1>5, FS_Union
<1>9. Cardinality({}) = 0
  BY FS_EmptySet
<1>10. Total(S, w) = Cardinality(R) + w[x] /\ Total(S, v) = Cardinality(R) + v[x]
  <2>1. Total(S, w) = Cardinality(R \cup A) /\ Total(S, v) = Cardinality(R \cup B)
    BY <1>2 DEF Total, Units
  <2>2. Cardinality(R \cap A) = 0 /\ Cardinality(R \cap B) = 0
    BY <1>3, <1>9, Zenon
  <2> QED
    BY <1>1, <1>6, <1>7, <1>8, <2>1, <2>2
<1>11. Counted(S, v)
  BY <1>2, <1>8 DEF Counted
<1> QED
  BY <1>1, <1>6, <1>10, <1>11

\* The caches whose accountant is exact: a reload from disk may be accounted after the piece has
\* gone, and teardown resets the accountant while writers are still on their way.
Live == Cache \ (closed \cup DiskCaches)

\* What a thread has still to add to the global accountant, and to subtract from it.
Adding(t)  == IF th[t].pc \in {"fill", "gadd"} THEN th[t].n ELSE 0
Subbing(t) == IF th[t].pc \in {"gsub", "evsub"} THEN th[t].n ELSE 0

ByPiece(c)  == [p \in Idx |-> Bytes(c, p)]
ByWriter(c) == [t \in Thread |-> Unfilled(c, t)]
Resident    == [x \in Cache \X Idx |-> Bytes(x[1], x[2])]
Adds        == [t \in Thread |-> Adding(t)]
Subs        == [t \in Thread |-> Subbing(t)]

AmountsOK ==
  /\ \A o \in Obj : obj[o].accounted \in Nat
  /\ \A t \in Thread : th[t].pc \in {"fill", "gadd", "gsub", "evsub"} => th[t].n \in Nat

CacheLedger(c) == Counted(Idx, ByPiece(c)) /\ Counted(Thread, ByWriter(c)) /\ FilledExactIn(c)

GlobalLedger ==
  /\ Counted(Cache \X Idx, Resident) /\ Counted(Thread, Adds) /\ Counted(Thread, Subs)
  /\ globalFilled = Total(Cache \X Idx, Resident) - Total(Thread, Adds) + Total(Thread, Subs)

\* In between, the global accountant is off by exactly what is on its way.
LedgerInv ==
  /\ AmountsOK
  /\ \A c \in Live : CacheLedger(c)
  /\ Live = Cache => GlobalLedger

\* Thread t moves no byte of a live piece, and settles what it owed.
Clears(t) ==
  /\ Only(t) /\ closed \subseteq closed'
  /\ \A c \in Live', p \in Idx : Bytes(c, p)' = Bytes(c, p)
  /\ \A c \in Live' : filled'[c] = filled[c] + Unfilled(c, t) - Unfilled(c, t)'
  /\ Live' = Cache =>
       globalFilled' = globalFilled + Adding(t) - Adding(t)' - Subbing(t) + Subbing(t)'

\* Thread t moves bytes of one piece of a live cache.
Posts(t, c, p) ==
  /\ Only(t) /\ closed' = closed /\ c \in Live
  /\ \A d \in Live, q \in Idx : d # c \/ q # p => Bytes(d, q)' = Bytes(d, q)
  /\ \A d \in Live \ {c} : filled'[d] = filled[d] + Unfilled(d, t) - Unfilled(d, t)'
  /\ filled'[c] = filled[c] + Unfilled(c, t) - Unfilled(c, t)' + Bytes(c, p)' - Bytes(c, p)
  /\ Live = Cache =>
       globalFilled' = globalFilled + Adding(t) - Adding(t)' - Subbing(t) + Subbing(t)'
                         + Bytes(c, p)' - Bytes(c, p)

LEMMA BytesNat ==
  ASSUME TInv, AmountsOK, NEW c \in Cache, NEW p \in Idx
  PROVE  Bytes(c, p) \in Nat
  BY DEF TInv, TypeOK, AmountsOK, Bytes

LEMMA OwedNat ==
  ASSUME AmountsOK, NEW t \in Thread
  PROVE  Adding(t) \in Nat /\ Subbing(t) \in Nat /\ \A c : Unfilled(c, t) \in Nat
  BY DEF AmountsOK, Adding, Subbing, Unfilled

LEMMA OthersOwe ==
  ASSUME NEW t \in Thread, Only(t), NEW u \in Thread \ {t}
  PROVE  /\ Adding(u)' = Adding(u) /\ Subbing(u)' = Subbing(u)
         /\ \A c : Unfilled(c, u)' = Unfilled(c, u)
  BY DEF Only, Adding, Subbing, Unfilled

LEMMA WriterTotal ==
  ASSUME TInv', AmountsOK', NEW t \in Thread, Only(t), NEW c \in Cache, Counted(Thread, ByWriter(c))
  PROVE  /\ Counted(Thread, ByWriter(c)')
         /\ Total(Thread, ByWriter(c)') = Total(Thread, ByWriter(c)) - Unfilled(c, t) + Unfilled(c, t)'
<1>0. ByWriter(c)' \in [Thread -> Nat]
  <2>1. \A u \in Thread : Unfilled(c, u)' \in Nat
    BY DEF AmountsOK, Unfilled
  <2> QED
    BY <2>1 DEF ByWriter
<1>1. /\ \A u \in Thread \ {t} : ByWriter(c)'[u] = ByWriter(c)[u]
      /\ ByWriter(c)[t] = Unfilled(c, t) /\ ByWriter(c)'[t] = Unfilled(c, t)'
  BY OthersOwe DEF ByWriter
<1> DEFINE v == ByWriter(c)'
<1> HIDE DEF v
<1>2. Counted(Thread, v) /\ Total(Thread, v) = Total(Thread, ByWriter(c)) - ByWriter(c)[t] + v[t]
  BY <1>0, <1>1, Change DEF v
<1> QED
  BY <1>1, <1>2 DEF v

LEMMA GlobalTotals ==
  ASSUME TInv', AmountsOK', NEW t \in Thread, Only(t), Counted(Thread, Adds), Counted(Thread, Subs)
  PROVE  /\ Counted(Thread, Adds') /\ Counted(Thread, Subs')
         /\ Total(Thread, Adds') = Total(Thread, Adds) - Adding(t) + Adding(t)'
         /\ Total(Thread, Subs') = Total(Thread, Subs) - Subbing(t) + Subbing(t)'
<1>0. Adds' \in [Thread -> Nat] /\ Subs' \in [Thread -> Nat]
  <2>1. \A u \in Thread : Adding(u)' \in Nat /\ Subbing(u)' \in Nat
    BY DEF AmountsOK, Adding, Subbing
  <2> QED
    BY <2>1 DEF Adds, Subs
<1>1. /\ \A u \in Thread \ {t} : Adds'[u] = Adds[u] /\ Subs'[u] = Subs[u]
      /\ Adds[t] = Adding(t) /\ Adds'[t] = Adding(t)'
      /\ Subs[t] = Subbing(t) /\ Subs'[t] = Subbing(t)'
  BY OthersOwe DEF Adds, Subs
<1> DEFINE v == Adds'
           w == Subs'
<1> HIDE DEF v, w
<1>2. Counted(Thread, v) /\ Total(Thread, v) = Total(Thread, Adds) - Adds[t] + v[t]
  <2>1. v \in [Thread -> Nat] /\ \A u \in Thread \ {t} : v[u] = Adds[u]
    BY <1>0, <1>1 DEF v
  <2> QED
    BY <2>1, Change
<1>3. Counted(Thread, w) /\ Total(Thread, w) = Total(Thread, Subs) - Subs[t] + w[t]
  <2>1. w \in [Thread -> Nat] /\ \A u \in Thread \ {t} : w[u] = Subs[u]
    BY <1>0, <1>1 DEF w
  <2> QED
    BY <2>1, Change
<1> QED
  BY <1>1, <1>2, <1>3 DEF v, w

LEMMA LiveShrinks ==
  ASSUME closed \subseteq closed'
  PROVE  Live' \subseteq Live /\ (Live' = Cache => Live = Cache)
  BY DEF Live

\* The books stay right when a thread settles what it owed.
LEMMA ClearsLedger ==
  ASSUME TInv, TInv', LedgerInv, AmountsOK', NEW t \in Thread, Clears(t)
  PROVE  LedgerInv'
<1>0. Only(t) /\ Live' \subseteq Live /\ (Live' = Cache => Live = Cache)
  BY LiveShrinks DEF Clears
<1>1. ASSUME NEW c \in Live' PROVE CacheLedger(c)'
  <2>1. c \in Cache /\ c \in Live /\ CacheLedger(c)
    BY <1>0 DEF Live, LedgerInv
  <2>2. ByPiece(c)' = ByPiece(c)
    BY DEF Clears, ByPiece
  <2>3. /\ Counted(Thread, ByWriter(c)')
        /\ Total(Thread, ByWriter(c)') = Total(Thread, ByWriter(c)) - Unfilled(c, t) + Unfilled(c, t)'
    BY <1>0, <2>1, WriterTotal DEF CacheLedger
  <2>4. filled'[c] = filled[c] + Unfilled(c, t) - Unfilled(c, t)'
    BY DEF Clears
  <2>5. filled[c] = Total(Idx, ByPiece(c)) - Total(Thread, ByWriter(c))
    BY <2>1 DEF CacheLedger, FilledExactIn, ByPiece, ByWriter
  <2>6. /\ Total(Idx, ByPiece(c)) \in Nat /\ Total(Thread, ByWriter(c)) \in Nat
        /\ Unfilled(c, t) \in Nat /\ Unfilled(c, t)' \in Nat
    <3>1. Unfilled(c, t)' \in Nat
      BY DEF AmountsOK, Unfilled
    <3> QED
      BY <2>1, <3>1, CountedTotal, OwedNat DEF CacheLedger, LedgerInv
  <2>7. filled'[c] = Total(Idx, ByPiece(c)) - Total(Thread, ByWriter(c)')
    BY <2>3, <2>4, <2>5, <2>6
  <2>8. FilledExactIn(c)'
    BY <2>2, <2>7 DEF FilledExactIn, ByPiece, ByWriter
  <2> QED
    BY <2>1, <2>2, <2>3, <2>8 DEF CacheLedger
<1>2. ASSUME Live' = Cache PROVE GlobalLedger'
  <2>1. GlobalLedger
    BY <1>0, <1>2 DEF LedgerInv
  <2>2. Resident' = Resident
    BY <1>2 DEF Clears, Resident
  <2>3. /\ Counted(Thread, Adds') /\ Counted(Thread, Subs')
        /\ Total(Thread, Adds') = Total(Thread, Adds) - Adding(t) + Adding(t)'
        /\ Total(Thread, Subs') = Total(Thread, Subs) - Subbing(t) + Subbing(t)'
    BY <1>0, <2>1, GlobalTotals DEF GlobalLedger
  <2>4. globalFilled' = globalFilled + Adding(t) - Adding(t)' - Subbing(t) + Subbing(t)'
    BY <1>2 DEF Clears
  <2>5. /\ Total(Cache \X Idx, Resident) \in Nat
        /\ Total(Thread, Adds) \in Nat /\ Total(Thread, Subs) \in Nat
        /\ Adding(t) \in Nat /\ Adding(t)' \in Nat /\ Subbing(t) \in Nat /\ Subbing(t)' \in Nat
    <3>1. Adding(t)' \in Nat /\ Subbing(t)' \in Nat
      BY DEF AmountsOK, Adding, Subbing
    <3> QED
      BY <2>1, <3>1, CountedTotal, OwedNat DEF GlobalLedger, LedgerInv
  <2>6. globalFilled = Total(Cache \X Idx, Resident) - Total(Thread, Adds) + Total(Thread, Subs)
    BY <2>1 DEF GlobalLedger
  <2>7. globalFilled' = Total(Cache \X Idx, Resident) - Total(Thread, Adds') + Total(Thread, Subs')
    BY <2>3, <2>4, <2>5, <2>6
  <2> QED
    BY <2>1, <2>2, <2>3, <2>7 DEF GlobalLedger
<1> QED
  BY <1>1, <1>2 DEF LedgerInv

\* The resident bytes of a cache, and of all, change by those of the piece.
LEMMA PieceTotals ==
  ASSUME TInv', AmountsOK', NEW t \in Thread, NEW c \in Cache, NEW p \in Idx, Posts(t, c, p)
  PROVE  /\ Counted(Idx, ByPiece(c)) =>
              /\ Counted(Idx, ByPiece(c)')
              /\ Total(Idx, ByPiece(c)') = Total(Idx, ByPiece(c)) - Bytes(c, p) + Bytes(c, p)'
         /\ Live = Cache /\ Counted(Cache \X Idx, Resident) =>
              /\ Counted(Cache \X Idx, Resident')
              /\ Total(Cache \X Idx, Resident')
                   = Total(Cache \X Idx, Resident) - Bytes(c, p) + Bytes(c, p)'
<1>0. \A d \in Cache, q \in Idx : Bytes(d, q)' \in Nat
  BY DEF TInv, TypeOK, AmountsOK, Bytes
<1>1. ASSUME Counted(Idx, ByPiece(c))
      PROVE  /\ Counted(Idx, ByPiece(c)')
             /\ Total(Idx, ByPiece(c)') = Total(Idx, ByPiece(c)) - Bytes(c, p) + Bytes(c, p)'
  <2> DEFINE v == ByPiece(c)'
  <2>1. v \in [Idx -> Nat] /\ v[p] = Bytes(c, p)' /\ ByPiece(c)[p] = Bytes(c, p)
    BY <1>0 DEF ByPiece
  <2>2. \A q \in Idx \ {p} : v[q] = ByPiece(c)[q]
    BY DEF ByPiece, Posts
  <2> HIDE DEF v
  <2>3. Counted(Idx, v) /\ Total(Idx, v) = Total(Idx, ByPiece(c)) - ByPiece(c)[p] + v[p]
    BY <1>1, <2>1, <2>2, Change
  <2> QED
    BY <2>1, <2>3 DEF v
<1>2. ASSUME Live = Cache, Counted(Cache \X Idx, Resident)
      PROVE  /\ Counted(Cache \X Idx, Resident')
             /\ Total(Cache \X Idx, Resident')
                  = Total(Cache \X Idx, Resident) - Bytes(c, p) + Bytes(c, p)'
  <2> DEFINE v == Resident'
             x == <<c, p>>
  <2>0. x \in Cache \X Idx /\ x[1] = c /\ x[2] = p
    OBVIOUS
  <2>1. v \in [Cache \X Idx -> Nat]
    BY <1>0 DEF Resident
  <2>4. v[x] = Bytes(c, p)' /\ Resident[x] = Bytes(c, p)
    BY <2>0 DEF Resident
  <2>2. \A y \in (Cache \X Idx) \ {x} : v[y] = Resident[y]
    <3>1. ASSUME NEW y \in (Cache \X Idx) \ {x} PROVE Bytes(y[1], y[2])' = Bytes(y[1], y[2])
      <4>1. y[1] \in Live /\ y[2] \in Idx /\ (y[1] # c \/ y[2] # p)
        BY <1>2
      <4> QED
        BY <4>1 DEF Posts
    <3> QED
      BY <3>1 DEF Resident
  <2> HIDE DEF v, x
  <2>3. /\ Counted(Cache \X Idx, v)
        /\ Total(Cache \X Idx, v) = Total(Cache \X Idx, Resident) - Resident[x] + v[x]
    BY <1>2, <2>0, <2>1, <2>2, Change
  <2> QED
    BY <2>3, <2>4 DEF v
<1> QED
  BY <1>1, <1>2

\* The books stay right when a thread moves bytes of one piece.
LEMMA PostsLedger ==
  ASSUME TInv, TInv', LedgerInv, AmountsOK', NEW t \in Thread, NEW c \in Cache, NEW p \in Idx,
         Posts(t, c, p)
  PROVE  LedgerInv'
<1>0. Only(t) /\ Live' = Live /\ c \in Live
  BY DEF Posts, Live
<1>1. ASSUME NEW d \in Live' PROVE CacheLedger(d)'
  <2>1. d \in Cache /\ d \in Live /\ CacheLedger(d)
    BY <1>0 DEF Live, LedgerInv
  <2> DEFINE delta == IF d = c THEN Bytes(c, p)' - Bytes(c, p) ELSE 0
  <2>0. Bytes(c, p) \in Nat /\ Bytes(c, p)' \in Nat
    <3>1. Bytes(c, p)' \in Nat
      BY DEF TInv, TypeOK, AmountsOK, Bytes
    <3> QED
      BY <3>1, BytesNat DEF LedgerInv
  <2>2. /\ Counted(Idx, ByPiece(d)')
        /\ Total(Idx, ByPiece(d)') = Total(Idx, ByPiece(d)) + delta
    <3>1. CASE d = c
      <4>1. Total(Idx, ByPiece(d)) \in Nat
        BY <2>1, CountedTotal DEF CacheLedger
      <4> QED
        BY <2>0, <2>1, <3>1, <4>1, PieceTotals DEF CacheLedger
    <3>2. CASE d # c
      <4>1. ByPiece(d)' = ByPiece(d)
        BY <2>1, <3>2 DEF Posts, ByPiece
      <4>2. Total(Idx, ByPiece(d)) \in Nat
        BY <2>1, CountedTotal DEF CacheLedger
      <4> QED
        BY <2>1, <3>2, <4>1, <4>2 DEF CacheLedger
    <3> QED
      BY <3>1, <3>2
  <2>3. /\ Counted(Thread, ByWriter(d)')
        /\ Total(Thread, ByWriter(d)') = Total(Thread, ByWriter(d)) - Unfilled(d, t) + Unfilled(d, t)'
    BY <1>0, <2>1, WriterTotal DEF CacheLedger
  <2>5. filled[d] = Total(Idx, ByPiece(d)) - Total(Thread, ByWriter(d))
    BY <2>1 DEF CacheLedger, FilledExactIn, ByPiece, ByWriter
  <2>6. /\ Total(Idx, ByPiece(d)) \in Nat /\ Total(Thread, ByWriter(d)) \in Nat
        /\ Unfilled(d, t) \in Nat /\ Unfilled(d, t)' \in Nat /\ delta \in Int
    <3>1. Unfilled(d, t)' \in Nat
      BY DEF AmountsOK, Unfilled
    <3> QED
      BY <2>0, <2>1, <3>1, CountedTotal, OwedNat DEF CacheLedger, LedgerInv
  <2>4. filled'[d] = filled[d] + Unfilled(d, t) - Unfilled(d, t)' + delta
    <3>0. filled[d] \in Int
      BY <2>1 DEF TInv, TypeOK
    <3>1. CASE d = c
      BY <2>0, <2>6, <3>0, <3>1 DEF Posts
    <3>2. CASE d # c
      BY <2>1, <2>6, <3>0, <3>2 DEF Posts
    <3> QED
      BY <3>1, <3>2
  <2> HIDE DEF delta
  <2>7. filled'[d] = Total(Idx, ByPiece(d)') - Total(Thread, ByWriter(d)')
    BY <2>2, <2>3, <2>4, <2>5, <2>6
  <2>8. FilledExactIn(d)'
    BY <2>7 DEF FilledExactIn, ByPiece, ByWriter
  <2> QED
    BY <2>2, <2>3, <2>8 DEF CacheLedger
<1>2. ASSUME Live' = Cache PROVE GlobalLedger'
  <2>1. GlobalLedger /\ Live = Cache
    BY <1>0, <1>2 DEF LedgerInv
  <2>2. /\ Counted(Cache \X Idx, Resident')
        /\ Total(Cache \X Idx, Resident')
             = Total(Cache \X Idx, Resident) - Bytes(c, p) + Bytes(c, p)'
    BY <2>1, PieceTotals DEF GlobalLedger
  <2>3. /\ Counted(Thread, Adds') /\ Counted(Thread, Subs')
        /\ Total(Thread, Adds') = Total(Thread, Adds) - Adding(t) + Adding(t)'
        /\ Total(Thread, Subs') = Total(Thread, Subs) - Subbing(t) + Subbing(t)'
    BY <1>0, <2>1, GlobalTotals DEF GlobalLedger
  <2>4. globalFilled' = globalFilled + Adding(t) - Adding(t)' - Subbing(t) + Subbing(t)'
                          + Bytes(c, p)' - Bytes(c, p)
    BY <2>1 DEF Posts
  <2>5. /\ Total(Cache \X Idx, Resident) \in Nat
        /\ Total(Thread, Adds) \in Nat /\ Total(Thread, Subs) \in Nat
        /\ Adding(t) \in Nat /\ Adding(t)' \in Nat /\ Subbing(t) \in Nat /\ Subbing(t)' \in Nat
        /\ Bytes(c, p) \in Nat /\ Bytes(c, p)' \in Nat
    <3>1. Adding(t)' \in Nat /\ Subbing(t)' \in Nat
      BY DEF AmountsOK, Adding, Subbing
    <3>2. Bytes(c, p)' \in Nat
      BY DEF TInv, TypeOK, AmountsOK, Bytes
    <3> QED
      BY <2>1, <3>1, <3>2, CountedTotal, OwedNat, BytesNat DEF GlobalLedger, LedgerInv
  <2>6. globalFilled = Total(Cache \X Idx, Resident) - Total(Thread, Adds) + Total(Thread, Subs)
    BY <2>1 DEF GlobalLedger
  <2>7. globalFilled' = Total(Cache \X Idx, Resident') - Total(Thread, Adds') + Total(Thread, Subs')
    BY <2>2, <2>3, <2>4, <2>5, <2>6
  <2> QED
    BY <2>2, <2>3, <2>7 DEF GlobalLedger
<1> QED
  BY <1>1, <1>2 DEF LedgerInv

\* They are not touched when no thread moves.
LEMMA StillLedger ==
  ASSUME LedgerInv, closed \subseteq closed', UNCHANGED <<th, obj, pieces, filled, globalFilled>>
  PROVE  LedgerInv'
<1>1. AmountsOK'
  BY DEF LedgerInv, AmountsOK
<1>2. \A c, p : Bytes(c, p)' = Bytes(c, p)
  BY DEF Bytes
<1>3. \A c, t : Unfilled(c, t)' = Unfilled(c, t)
  BY DEF Unfilled
<1>4. \A c : ByPiece(c)' = ByPiece(c) /\ ByWriter(c)' = ByWriter(c) /\ FilledExactIn(c)' = FilledExactIn(c)
  BY <1>2, <1>3 DEF ByPiece, ByWriter, FilledExactIn, Total
<1>5. Resident' = Resident /\ Adds' = Adds /\ Subs' = Subs
  BY <1>2 DEF Resident, Adds, Subs, Adding, Subbing
<1> QED
  BY <1>1, <1>4, <1>5, LiveShrinks DEF LedgerInv, CacheLedger, GlobalLedger

LEMMA LedgerInv_Init == Init => LedgerInv
<1> SUFFICES ASSUME Init PROVE LedgerInv
  OBVIOUS
<1>0. \A c \in Cache, p \in Idx : Bytes(c, p) = 0
  BY DEF Init, Bytes
<1>1. \A t \in Thread : /\ Adding(t) = 0 /\ Subbing(t) = 0
                        /\ \A c : Unfilled(c, t) = 0
  BY DEF Init, IdleThread, Adding, Subbing, Unfilled
<1>2. AmountsOK
  <2>1. \A o \in Obj : obj[o].accounted \in Nat
    BY DEF Init, NewMemPiece
  <2>2. \A t \in Thread : th[t].pc = "idle"
    BY DEF Init, IdleThread
  <2> QED
    BY <2>1, <2>2 DEF AmountsOK
<1>3. ASSUME NEW c \in Cache PROVE CacheLedger(c)
  <2>1. /\ ByPiece(c) \in [Idx -> Nat] /\ \A p \in Idx : ByPiece(c)[p] = 0
        /\ ByWriter(c) \in [Thread -> Nat] /\ \A t \in Thread : ByWriter(c)[t] = 0
    BY <1>0, <1>1 DEF ByPiece, ByWriter
  <2>2. /\ Counted(Idx, ByPiece(c)) /\ Total(Idx, ByPiece(c)) = 0
        /\ Counted(Thread, ByWriter(c)) /\ Total(Thread, ByWriter(c)) = 0
    BY <2>1, NothingCounted
  <2>3. filled[c] = 0
    BY DEF Init
  <2>4. filled[c] = Total(Idx, ByPiece(c)) - Total(Thread, ByWriter(c))
    BY <2>2, <2>3
  <2> QED
    BY <2>2, <2>4 DEF CacheLedger, FilledExactIn, ByPiece, ByWriter
<1>4. GlobalLedger
  <2>1. /\ Resident \in [Cache \X Idx -> Nat] /\ \A x \in Cache \X Idx : Resident[x] = 0
        /\ Adds \in [Thread -> Nat] /\ \A t \in Thread : Adds[t] = 0
        /\ Subs \in [Thread -> Nat] /\ \A t \in Thread : Subs[t] = 0
    BY <1>0, <1>1 DEF Resident, Adds, Subs
  <2>2. /\ Counted(Cache \X Idx, Resident) /\ Total(Cache \X Idx, Resident) = 0
        /\ Counted(Thread, Adds) /\ Total(Thread, Adds) = 0
        /\ Counted(Thread, Subs) /\ Total(Thread, Subs) = 0
    BY <2>1, NothingCounted
  <2>3. globalFilled = 0
    BY DEF Init
  <2> QED
    BY <2>2, <2>3 DEF GlobalLedger
<1> QED
  BY <1>2, <1>3, <1>4 DEF LedgerInv, Live

\* Where a thread owes nothing.
Square(pc) == pc \in PCs \ {"fill", "gadd", "gsub", "evsub"}

LEMMA SquareOwes ==
  ASSUME NEW t \in Thread
  PROVE  /\ Square(th[t].pc) => /\ Adding(t) = 0 /\ Subbing(t) = 0
                                /\ \A c : Unfilled(c, t) = 0
         /\ Square(th'[t].pc) => /\ Adding(t)' = 0 /\ Subbing(t)' = 0
                                 /\ \A c : Unfilled(c, t)' = 0
  BY DEF Square, Adding, Subbing, Unfilled

LEMMA AmountsKept ==
  ASSUME AmountsOK, NEW t \in Thread, Only(t), \A o \in Obj : obj'[o].accounted \in Nat,
         Square(th'[t].pc) \/ th'[t].n \in Nat
  PROVE  AmountsOK'
<1>1. ASSUME NEW u \in Thread, th'[u].pc \in {"fill", "gadd", "gsub", "evsub"}
      PROVE  th'[u].n \in Nat
  BY <1>1 DEF AmountsOK, Only, Square
<1> QED
  BY <1>1 DEF AmountsOK

LEMMA GotoOwes ==
  ASSUME TypeOK, NEW t \in Thread, NEW pc
  PROVE  /\ Goto(t, pc) => th'[t].n = th[t].n
         /\ \A n : GotoN(t, pc, n) => th'[t].n = n
<1>1. th[t] \in ThreadType
  BY DEF TypeOK
<1>2. ASSUME Goto(t, pc) PROVE th'[t].n = th[t].n
  <2>1. th'[t] = [th[t] EXCEPT !.pc = pc]
    BY <1>2 DEF TypeOK, Goto
  <2> QED
    BY <1>1, <2>1 DEF ThreadType
<1>3. ASSUME NEW n, GotoN(t, pc, n) PROVE th'[t].n = n
  <2>1. th'[t] = [th[t] EXCEPT !.pc = pc, !.n = n]
    BY <1>3 DEF TypeOK, GotoN
  <2> QED
    BY <1>1, <2>1 DEF ThreadType
<1> QED
  BY <1>2, <1>3

\* A thread that owes nothing before and after moves no accounted byte.
LEMMA SquareClears ==
  ASSUME TInv, TInv', AmountsOK, NEW t \in Thread, Only(t), Square(th[t].pc), Square(th'[t].pc),
         UNCHANGED <<pieces, filled, globalFilled>>, closed \subseteq closed',
         \A o \in Obj : obj'[o].accounted = obj[o].accounted
  PROVE  AmountsOK' /\ Clears(t)
<1>1. AmountsOK'
  BY AmountsKept DEF AmountsOK
<1>2. \A c \in Cache, p \in Idx : Bytes(c, p)' = Bytes(c, p)
  BY DEF Bytes, TInv, TypeOK
<1>3. filled \in [Cache -> Int] /\ globalFilled \in Int /\ Live' \subseteq Cache
  BY DEF TInv, TypeOK, Live
<1>4. \A c \in Live' : filled'[c] = filled[c] + Unfilled(c, t) - Unfilled(c, t)'
  BY <1>3, SquareOwes
<1>5. globalFilled' = globalFilled + Adding(t) - Adding(t)' - Subbing(t) + Subbing(t)'
  BY <1>3, SquareOwes
<1> QED
  BY <1>1, <1>2, <1>3, <1>4, <1>5 DEF Clears

\* A lookup brings no bytes: a new piece has none, and it is new.
LEMMA LookupClears ==
  ASSUME TInv, TInv', AmountsOK, NEW t \in Thread, NEW c \in Cache, NEW p \in Idx, NEW pc, NEW op, NEW b,
         GetOrCreate(t, c, p, pc, op, b), Square(th[t].pc), Square(pc),
         UNCHANGED <<filled, globalFilled, closed>>
  PROVE  AmountsOK' /\ Clears(t)
<1>1. PICK o \in Obj : Gets(t, c, p, op, o) /\ th'[t].pc = pc
  BY GetOrCreateGets
<1>2. CASE UNCHANGED <<obj, pieces>>
  BY <1>1, <1>2, SquareClears DEF Gets
<1>3. CASE /\ c \in closed \/ pieces[c][p] = None
           /\ \A d \in Cache, q \in Idx : pieces[d][q] # o
           /\ obj' = [obj EXCEPT ![o] = NewMemPiece]
           /\ pieces' = IF c \in closed THEN pieces ELSE [pieces EXCEPT ![c][p] = o]
  <2>0. /\ obj'[o] = NewMemPiece /\ \A x \in Obj \ {o} : obj'[x] = obj[x]
        /\ NewMemPiece.accounted = 0
    BY <1>3 DEF TInv, TypeOK, NewMemPiece
  <2>1. AmountsOK'
    BY <1>1, <2>0, AmountsKept DEF AmountsOK, Gets
  <2>2. ASSUME NEW d \in Cache, NEW q \in Idx PROVE Bytes(d, q)' = Bytes(d, q)
    <3>1. CASE pieces'[d][q] = pieces[d][q]
      BY <1>3, <2>0, <3>1 DEF Bytes, TInv, TypeOK
    <3>2. CASE pieces'[d][q] # pieces[d][q]
      <4>1. d = c /\ q = p /\ pieces[d][q] = None /\ pieces'[d][q] = o
        BY <1>3, <3>2 DEF TInv, TypeOK
      <4> QED
        BY <2>0, <4>1, ConstantsAssumption DEF Bytes
    <3> QED
      BY <3>1, <3>2
  <2>3. filled \in [Cache -> Int] /\ globalFilled \in Int /\ Live' \subseteq Cache
    BY DEF TInv, TypeOK, Live
  <2>4. \A d \in Live' : filled'[d] = filled[d] + Unfilled(d, t) - Unfilled(d, t)'
    BY <1>1, <2>3, SquareOwes
  <2>5. globalFilled' = globalFilled + Adding(t) - Adding(t)' - Subbing(t) + Subbing(t)'
    BY <1>1, <2>3, SquareOwes
  <2> QED
    BY <1>1, <2>1, <2>2, <2>3, <2>4, <2>5 DEF Clears, Gets
<1> QED
  BY <1>1, <1>2, <1>3 DEF Gets

\* The bytes of a piece other than the one whose object changes.
LEMMA OtherBytes ==
  ASSUME TInv, PieceInv, NEW c \in Cache, NEW p \in Idx, NEW o \in Obj,
         \A x \in Obj \ {o} : obj'[x] = obj[x],
         pieces[c][p] # o, pieces'[c][p] = pieces[c][p]
  PROVE  Bytes(c, p)' = Bytes(c, p)
  BY DEF Bytes, TInv, TypeOK

\* A write accounts its block in the piece and owes it to both accountants.
LEMMA WriteAtBooks ==
  ASSUME TInv, TInv', PieceInv, LedgerInv, NEW t \in Thread, WriteAt(t)
  PROVE  AmountsOK' /\ (Clears(t) \/ \E c \in Cache, p \in Idx : Posts(t, c, p))
<1>0. TypeOK /\ AmountsOK /\ th[t].op = "write" /\ th[t].pc = "write"
  BY DEF WriteAt, TInv, ThreadOK, Consistent, LedgerInv
<1>1. PICK o \in Obj, c \in Cache, p \in Idx :
        th[t].o = o /\ th[t].c = c /\ th[t].p = p /\ o # None
  BY <1>0, Locals
<1>2. /\ obj'[o] = Written(obj[o], th[t].b) /\ \A x \in Obj \ {o} : obj'[x] = obj[x]
  BY <1>0, <1>1 DEF WriteAt, TypeOK
<1>3. obj[o] \in MemPieceType
  BY <1>0, <1>1 DEF TypeOK
<1>4. obj'[o].accounted = obj[o].accounted + 1
  BY <1>2, <1>3 DEF Written, MemPieceType
<1>5. Only(t) /\ Keeps(t) /\ th'[t].pc = "fill" /\ th'[t].n = 1
  BY <1>0, GotoNMoves, GotoOwes DEF WriteAt
<1>6. UNCHANGED <<pieces, filled, globalFilled, closed>>
  BY DEF WriteAt, fillVars, cacheVars
<1>7. AmountsOK'
  BY <1>0, <1>1, <1>2, <1>4, <1>5, AmountsKept DEF AmountsOK
<1>8. /\ Adding(t) = 0 /\ Adding(t)' = 1 /\ Subbing(t) = 0 /\ Subbing(t)' = 0
      /\ Unfilled(c, t) = 0 /\ Unfilled(c, t)' = 1
      /\ \A d : d # c => Unfilled(d, t) = 0 /\ Unfilled(d, t)' = 0
  BY <1>0, <1>1, <1>5 DEF Adding, Subbing, Unfilled, Keeps
<1>9. \A d \in Cache, q \in Idx : d # c \/ q # p => Bytes(d, q)' = Bytes(d, q)
  <2>1. \A d \in Cache, q \in Idx : d # c \/ q # p => pieces[d][q] # o
    BY <1>1 DEF PieceInv, PiecesOK, OwnOK
  <2> QED
    BY <1>1, <1>2, <1>6, <2>1, OtherBytes
<1>10. filled \in [Cache -> Int] /\ globalFilled \in Int /\ obj[o].accounted \in Nat
  BY <1>0, <1>1 DEF TypeOK, AmountsOK
<1>11. CASE c \in Live
  <2>1. pieces[c][p] = o
    BY <1>0, <1>1, <1>11 DEF Live, PieceInv, PiecesOK, BusyOK, WritingOK, Current
  <2>2. Bytes(c, p) = obj[o].accounted /\ Bytes(c, p)' = obj[o].accounted + 1
    BY <1>1, <1>4, <1>6, <2>1 DEF Bytes
  <2>3. filled'[c] = filled[c] + Unfilled(c, t) - Unfilled(c, t)' + Bytes(c, p)' - Bytes(c, p)
    BY <1>1, <1>6, <1>8, <1>10, <2>2
  <2>4. globalFilled' = globalFilled + Adding(t) - Adding(t)' - Subbing(t) + Subbing(t)'
                          + Bytes(c, p)' - Bytes(c, p)
    BY <1>6, <1>8, <1>10, <2>2
  <2>5. \A d \in Live \ {c} : filled'[d] = filled[d] + Unfilled(d, t) - Unfilled(d, t)'
    BY <1>6, <1>8, <1>10 DEF Live
  <2>6. Posts(t, c, p)
    BY <1>5, <1>6, <1>9, <1>11, <2>3, <2>4, <2>5 DEF Posts, Live
  <2> QED
    BY <1>1, <1>7, <2>6
<1>12. CASE c \notin Live
  <2>1. Live' = Live /\ Live # Cache
    BY <1>1, <1>6, <1>12 DEF Live
  <2>2. \A d \in Live : filled'[d] = filled[d] + Unfilled(d, t) - Unfilled(d, t)'
    BY <1>6, <1>8, <1>10, <1>12 DEF Live
  <2>3. Clears(t)
    BY <1>5, <1>6, <1>9, <1>12, <2>1, <2>2 DEF Clears, Live
  <2> QED
    BY <1>7, <2>3
<1> QED
  BY <1>11, <1>12

\* A reload is of a disk cache: the caches without a disk keep their books.
LEMMA LoadCompleteBooks ==
  ASSUME TInv, TInv', PieceInv, LedgerInv, NEW t \in Thread, LoadComplete(t)
  PROVE  AmountsOK' /\ Clears(t)
<1>0. TypeOK /\ AmountsOK /\ th[t].pc = "load"
  BY DEF LoadComplete, TInv, LedgerInv
<1>1. PICK o \in Obj, c \in Cache, p \in Idx :
        th[t].o = o /\ th[t].c = c /\ th[t].p = p /\ o # None
  BY <1>0, Locals
<1>2. c \in DiskCaches
  BY <1>0, <1>1 DEF PieceInv, PiecesOK, BusyOK, LoadingOK
<1>3. UNCHANGED <<pieces, filled, globalFilled, closed>>
  BY DEF LoadComplete, fillVars, cacheVars
<1>4. CASE obj[o].data
  <2>1. (Goto(t, "access") \/ Goto(t, "evict")) /\ UNCHANGED obj
    BY <1>1, <1>4 DEF LoadComplete, memVars
  <2>2. Only(t) /\ th'[t].pc \in {"access", "evict"}
    BY <1>0, <2>1, GotoMoves
  <2> QED
    BY <1>0, <1>3, <2>1, <2>2, SquareClears DEF Square, PCs
<1>5. CASE ~obj[o].data
  <2>1. obj' = [obj EXCEPT ![o] = Loaded(@)] /\ GotoN(t, "fill", NumBlocks)
    BY <1>1, <1>5 DEF LoadComplete
  <2>2. /\ obj'[o] = Loaded(obj[o]) /\ \A x \in Obj \ {o} : obj'[x] = obj[x]
        /\ obj[o] \in MemPieceType
    BY <1>0, <2>1 DEF TypeOK
  <2>3. obj'[o].accounted = obj[o].accounted + NumBlocks
    BY <2>2 DEF Loaded, MemPieceType
  <2>4. Only(t) /\ Keeps(t) /\ th'[t].pc = "fill" /\ th'[t].n = NumBlocks
    BY <1>0, <2>1, GotoNMoves, GotoOwes
  <2>5. AmountsOK'
    BY <1>0, <2>2, <2>3, <2>4, AmountsKept, ConstantsAssumption DEF AmountsOK
  <2>6. \A d \in Cache, q \in Idx : d # c => Bytes(d, q)' = Bytes(d, q)
    <3>1. \A d \in Cache, q \in Idx : d # c => pieces[d][q] # o
      BY <1>1 DEF PieceInv, PiecesOK, OwnOK
    <3> QED
      BY <1>3, <2>2, <3>1, OtherBytes
  <2>7. \A d : d # c => Unfilled(d, t) = 0 /\ Unfilled(d, t)' = 0
    BY <1>1, <2>4 DEF Unfilled, Keeps
  <2>8. Live' = Live /\ Live # Cache /\ c \notin Live
    BY <1>2, <1>3 DEF Live
  <2>9. filled \in [Cache -> Int]
    BY <1>0 DEF TypeOK
  <2>10. \A d \in Live : filled'[d] = filled[d] + Unfilled(d, t) - Unfilled(d, t)'
    BY <1>3, <2>7, <2>8, <2>9 DEF Live
  <2> QED
    BY <1>3, <2>4, <2>5, <2>6, <2>8, <2>10 DEF Clears, Live
<1> QED
  BY <1>4, <1>5

\* UpdateFilled moves what the writer owes from the cache's books to the global ones.
LEMMA UpdateFilledBooks ==
  ASSUME TInv, TInv', PieceInv, LedgerInv, NEW t \in Thread, UpdateFilled(t)
  PROVE  AmountsOK' /\ Clears(t)
<1>0. TypeOK /\ AmountsOK /\ th[t].pc = "fill" /\ th[t].n \in Nat
  BY DEF UpdateFilled, TInv, LedgerInv, AmountsOK
<1>1. PICK c \in Cache : th[t].c = c
  BY <1>0 DEF TInv, ThreadOK, Consistent
<1>2. UNCHANGED <<obj, pieces, globalFilled, closed>>
  BY DEF UpdateFilled, memVars, cacheVars
<1>3. \A d \in Cache, q \in Idx : Bytes(d, q)' = Bytes(d, q)
  BY <1>2 DEF Bytes
<1>4. filled \in [Cache -> Int] /\ globalFilled \in Int /\ Live' = Live
  BY <1>0, <1>2 DEF TypeOK, Live
<1>5. CASE c \in closed
  <2>1. Only(t) /\ Square(th'[t].pc) /\ UNCHANGED filled
    BY <1>0, <1>1, <1>5, AfterFillMoves DEF UpdateFilled, Square, PCs
  <2>2. AmountsOK'
    BY <1>0, <1>2, <2>1, AmountsKept DEF AmountsOK
  <2>3. c \notin Live /\ Live # Cache
    BY <1>5 DEF Live
  <2>4. \A d : d # c => Unfilled(d, t) = 0 /\ Unfilled(d, t)' = 0
    BY <1>1, <2>1, SquareOwes DEF Unfilled
  <2>5. \A d \in Live : filled'[d] = filled[d] + Unfilled(d, t) - Unfilled(d, t)'
    BY <1>4, <2>1, <2>3, <2>4 DEF Live
  <2> QED
    BY <1>2, <1>3, <1>4, <2>1, <2>2, <2>3, <2>5 DEF Clears, Live
<1>6. CASE c \notin closed
  <2>1. filled' = [filled EXCEPT ![c] = @ + th[t].n] /\ Goto(t, "gadd")
    BY <1>1, <1>6 DEF UpdateFilled
  <2>2. Only(t) /\ Keeps(t) /\ th'[t].pc = "gadd" /\ th'[t].n = th[t].n
    BY <1>0, <2>1, GotoMoves, GotoOwes
  <2>3. AmountsOK'
    BY <1>0, <1>2, <2>2, AmountsKept DEF AmountsOK
  <2>4. /\ Unfilled(c, t) = th[t].n /\ \A d : d # c => Unfilled(d, t) = 0
        /\ \A d : Unfilled(d, t)' = 0
        /\ Adding(t) = th[t].n /\ Adding(t)' = th[t].n /\ Subbing(t) = 0 /\ Subbing(t)' = 0
    BY <1>0, <1>1, <2>2 DEF Unfilled, Adding, Subbing
  <2>5. \A d \in Cache : filled'[d] = filled[d] + Unfilled(d, t) - Unfilled(d, t)'
    BY <1>0, <1>4, <2>1, <2>4
  <2>6. globalFilled' = globalFilled + Adding(t) - Adding(t)' - Subbing(t) + Subbing(t)'
    BY <1>0, <1>2, <1>4, <2>4
  <2> QED
    BY <1>2, <1>3, <1>4, <2>2, <2>3, <2>5, <2>6 DEF Clears, Live
<1> QED
  BY <1>5, <1>6

\* The atomic additions and subtractions settle what is owed to the global accountant.
LEMMA GlobalBooks ==
  ASSUME TInv, TInv', LedgerInv, NEW t \in Thread,
         \/ AddGlobalFilled(t) \/ MarkNotCompleteSub(t) \/ EvictSub(t)
  PROVE  AmountsOK' /\ Clears(t)
<1>0. /\ TypeOK /\ AmountsOK /\ th[t].pc \in {"gadd", "gsub", "evsub"}
      /\ th[t].n \in Nat
  BY DEF AddGlobalFilled, MarkNotCompleteSub, EvictSub, TInv, LedgerInv, AmountsOK
<1>1. Only(t) /\ Square(th'[t].pc)
  <2>1. CASE AddGlobalFilled(t)
    BY <1>0, <2>1, AfterFillMoves DEF AddGlobalFilled, Square, PCs
  <2>2. CASE MarkNotCompleteSub(t)
    BY <1>0, <2>2, FinishMoves DEF MarkNotCompleteSub, Square, PCs
  <2>3. CASE EvictSub(t)
    BY <1>0, <2>3, GotoNMoves DEF EvictSub, Square, PCs
  <2> QED
    BY <2>1, <2>2, <2>3
<1>2. UNCHANGED <<obj, pieces, filled, closed>>
  BY DEF AddGlobalFilled, MarkNotCompleteSub, EvictSub, memVars, cacheVars, fillVars
<1>3. globalFilled' = IF th[t].pc = "gadd" THEN globalFilled + th[t].n ELSE globalFilled - th[t].n
  BY DEF AddGlobalFilled, MarkNotCompleteSub, EvictSub
<1>4. \A d \in Cache, q \in Idx : Bytes(d, q)' = Bytes(d, q)
  BY <1>2 DEF Bytes
<1>5. AmountsOK'
  BY <1>0, <1>1, <1>2, AmountsKept DEF AmountsOK
<1>6. /\ Adding(t) = (IF th[t].pc = "gadd" THEN th[t].n ELSE 0)
      /\ Subbing(t) = (IF th[t].pc = "gadd" THEN 0 ELSE th[t].n)
      /\ \A d : Unfilled(d, t) = 0
  BY <1>0 DEF Adding, Subbing, Unfilled
<1>7. filled \in [Cache -> Int] /\ globalFilled \in Int /\ Live' = Live
  BY <1>0, <1>2 DEF TypeOK, Live
<1>8. \A d \in Live : filled'[d] = filled[d] + Unfilled(d, t) - Unfilled(d, t)'
  BY <1>1, <1>2, <1>6, <1>7, SquareOwes DEF Live
<1>9. Adding(t)' = 0 /\ Subbing(t)' = 0
  BY <1>1, SquareOwes
<1>10. globalFilled' = globalFilled + Adding(t) - Adding(t)' - Subbing(t) + Subbing(t)'
  BY <1>0, <1>3, <1>6, <1>7, <1>9
<1> QED
  BY <1>1, <1>2, <1>4, <1>5, <1>7, <1>8, <1>10 DEF Clears, Live

\* A piece of a live cache goes, its bytes leave the cache's books, and the thread owes them to
\* the global ones.
LEMMA DropBooks ==
  ASSUME TInv, TInv', PieceInv, AmountsOK, NEW t \in Thread, NEW c \in Cache \ closed, NEW p \in Idx,
         NEW o \in Obj, pieces[c][p] = o,
         Only(t), Square(th[t].pc), th'[t].pc \in {"gsub", "evsub"}, th'[t].n = obj[o].accounted,
         obj' = [obj EXCEPT ![o] = Released(@)], pieces' = [pieces EXCEPT ![c][p] = None],
         filled' = [filled EXCEPT ![c] = @ - obj[o].accounted],
         UNCHANGED <<closed, globalFilled>>
  PROVE  AmountsOK' /\ (Clears(t) \/ Posts(t, c, p))
<1>0. TypeOK /\ o # None
  BY ConstantsAssumption DEF TInv
<1>1. /\ obj'[o].accounted = 0 /\ \A x \in Obj \ {o} : obj'[x] = obj[x]
      /\ pieces'[c][p] = None
      /\ \A d \in Cache, q \in Idx : d # c \/ q # p => pieces'[d][q] = pieces[d][q]
  BY <1>0 DEF TypeOK, Released
<1>2. AmountsOK'
  BY <1>1, AmountsKept DEF AmountsOK
<1>3. \A d \in Cache, q \in Idx : d # c \/ q # p => Bytes(d, q)' = Bytes(d, q)
  <2>1. \A d \in Cache, q \in Idx : d # c \/ q # p => pieces[d][q] # o
    BY <1>0 DEF PieceInv, PiecesOK, OwnOK
  <2> QED
    BY <1>1, <2>1, OtherBytes
<1>4. Bytes(c, p) = obj[o].accounted /\ Bytes(c, p)' = 0
  BY <1>0, <1>1 DEF Bytes
<1>5. /\ \A d : Unfilled(d, t) = 0 /\ Unfilled(d, t)' = 0
      /\ Adding(t) = 0 /\ Subbing(t) = 0 /\ Adding(t)' = 0 /\ Subbing(t)' = obj[o].accounted
  BY SquareOwes DEF Unfilled, Adding, Subbing
<1>6. /\ filled \in [Cache -> Int] /\ globalFilled \in Int /\ Live' = Live
      /\ obj[o].accounted \in Nat
  BY <1>0 DEF TypeOK, Live, AmountsOK
<1>7. \A d \in Cache \ {c} : filled'[d] = filled[d] + Unfilled(d, t) - Unfilled(d, t)'
  BY <1>5, <1>6
<1>8. CASE c \in Live
  <2>1. filled'[c] = filled[c] + Unfilled(c, t) - Unfilled(c, t)' + Bytes(c, p)' - Bytes(c, p)
    BY <1>4, <1>5, <1>6
  <2>2. globalFilled' = globalFilled + Adding(t) - Adding(t)' - Subbing(t) + Subbing(t)'
                          + Bytes(c, p)' - Bytes(c, p)
    BY <1>4, <1>5, <1>6
  <2> QED
    BY <1>2, <1>3, <1>7, <1>8, <2>1, <2>2 DEF Posts, Live
<1>9. CASE c \notin Live
  <2>1. Live # Cache
    BY <1>9
  <2> QED
    BY <1>2, <1>3, <1>6, <1>7, <1>9, <2>1 DEF Clears, Live
<1> QED
  BY <1>8, <1>9

LEMMA MarkNotCompleteBooks ==
  ASSUME TInv, TInv', PieceInv, LedgerInv, NEW t \in Thread, MarkNotComplete(t)
  PROVE  AmountsOK' /\ (Clears(t) \/ \E c \in Cache, p \in Idx : Posts(t, c, p))
<1>0. TypeOK /\ AmountsOK /\ th[t].pc = "release" /\ th[t].op = "hash"
  BY DEF MarkNotComplete, TInv, ThreadOK, Consistent, LedgerInv
<1>1. PICK c \in Cache, p \in Idx : th[t].c = c /\ th[t].p = p
  BY <1>0, Locals
<1>2. UNCHANGED <<closed, globalFilled>>
  BY DEF MarkNotComplete, cacheVars
<1>3. Square(th[t].pc)
  BY <1>0 DEF Square, PCs
<1>4. CASE c \in closed \/ pieces[c][p] = None
  <2>1. GotoN(t, "gsub", 0) /\ UNCHANGED <<obj, pieces, filled>>
    BY <1>1, <1>4 DEF MarkNotComplete
  <2>2. Only(t) /\ th'[t].pc = "gsub" /\ th'[t].n = 0
    BY <1>0, <2>1, GotoNMoves, GotoOwes
  <2>3. AmountsOK'
    BY <1>0, <2>1, <2>2, AmountsKept DEF AmountsOK
  <2>4. \A d \in Cache, q \in Idx : Bytes(d, q)' = Bytes(d, q)
    BY <2>1 DEF Bytes
  <2>5. /\ \A d : Unfilled(d, t) = 0 /\ Unfilled(d, t)' = 0
        /\ Adding(t) = 0 /\ Subbing(t) = 0 /\ Adding(t)' = 0 /\ Subbing(t)' = 0
    BY <1>3, <2>2, SquareOwes DEF Unfilled, Adding, Subbing
  <2>6. filled \in [Cache -> Int] /\ globalFilled \in Int /\ Live' = Live
    BY <1>0, <1>2 DEF TypeOK, Live
  <2>7. \A d \in Live : filled'[d] = filled[d] + Unfilled(d, t) - Unfilled(d, t)'
    BY <2>1, <2>5, <2>6 DEF Live
  <2>8. globalFilled' = globalFilled + Adding(t) - Adding(t)' - Subbing(t) + Subbing(t)'
    BY <1>2, <2>5, <2>6
  <2> QED
    BY <1>2, <2>2, <2>3, <2>4, <2>6, <2>7, <2>8 DEF Clears, Live
<1>5. CASE c \notin closed /\ pieces[c][p] # None
  <2>1. PICK o \in Obj : pieces[c][p] = o
    BY <1>0, <1>5 DEF TypeOK
  <2>2. /\ GotoN(t, "gsub", obj[o].accounted)
        /\ filled' = [filled EXCEPT ![c] = @ - obj[o].accounted]
        /\ obj' = [obj EXCEPT ![o] = Released(@)]
        /\ pieces' = [pieces EXCEPT ![c][p] = None]
    BY <1>1, <1>5, <2>1 DEF MarkNotComplete
  <2>3. Only(t) /\ th'[t].pc = "gsub" /\ th'[t].n = obj[o].accounted
    BY <1>0, <2>2, GotoNMoves, GotoOwes
  <2> QED
    BY <1>0, <1>2, <1>3, <1>5, <2>1, <2>2, <2>3, DropBooks
<1> QED
  BY <1>4, <1>5

LEMMA EvictPieceBooks ==
  ASSUME TInv, TInv', PieceInv, LedgerInv, NEW t \in Thread, NEW k \in th[t].cands, EvictPiece(t, k)
  PROVE  AmountsOK' /\ (Clears(t) \/ \E c \in Cache, p \in Idx : Posts(t, c, p))
<1>0. /\ TypeOK /\ AmountsOK /\ th[t].pc = "evloop" /\ Only(t)
      /\ th[t] \in ThreadType /\ UNCHANGED <<closed, globalFilled>>
  BY EvictPieceMoves DEF EvictPiece, TInv, TypeOK, LedgerInv, cacheVars
<1>1. k.c \in Cache /\ k.p \in Idx /\ k.o \in Obj
  BY <1>0 DEF ThreadType, Cand
<1>2. Square(th[t].pc)
  BY <1>0 DEF Square, PCs
<1>3. CASE StillEvictable(k)
  <2>1. /\ filled' = [filled EXCEPT ![k.c] = @ - obj[k.o].accounted]
        /\ th' = [th EXCEPT ![t].pc = "evsub", ![t].n = obj[k.o].accounted, ![t].cands = @ \ {k}]
        /\ obj' = [obj EXCEPT ![k.o] = Released(@)]
        /\ pieces' = [pieces EXCEPT ![k.c][k.p] = None]
    BY <1>3 DEF EvictPiece
  <2>2. th'[t] = [th[t] EXCEPT !.pc = "evsub", !.n = obj[k.o].accounted, !.cands = @ \ {k}]
    BY <1>0, <2>1 DEF TypeOK
  <2>3. th'[t].pc = "evsub" /\ th'[t].n = obj[k.o].accounted
    BY <1>0, <2>2 DEF ThreadType
  <2>4. pieces[k.c][k.p] = k.o /\ k.c \in Cache \ closed
    BY <1>1, <1>3 DEF StillEvictable
  <2> QED
    BY <1>0, <1>1, <1>2, <2>1, <2>3, <2>4, DropBooks
<1>4. CASE ~StillEvictable(k)
  <2>1. th' = [th EXCEPT ![t].cands = @ \ {k}] /\ UNCHANGED <<obj, pieces, filled>>
    BY <1>4 DEF EvictPiece
  <2>2. th'[t] = [th[t] EXCEPT !.cands = @ \ {k}]
    BY <1>0, <2>1 DEF TypeOK
  <2>3. th'[t].pc = th[t].pc
    BY <1>0, <2>2 DEF ThreadType
  <2> QED
    BY <1>0, <1>2, <2>1, <2>3, SquareClears
<1> QED
  BY <1>3, <1>4

\* Teardown touches the books of its own cache only, which has been closed.
LEMMA CloseBooks ==
  ASSUME TInv, TInv', PieceInv, LedgerInv, NEW t \in Thread,
         \/ CloseEnd(t) \/ CloseSub(t) \/ \E p \in Idx : CloseRelease(t, p)
  PROVE  AmountsOK' /\ Clears(t)
<1>0. TypeOK /\ AmountsOK /\ th[t].pc \in {"closing", "closesub"} /\ UNCHANGED closed
  BY DEF CloseEnd, CloseSub, CloseRelease, TInv, LedgerInv, cacheVars
<1>1. PICK c \in Cache : th[t].c = c /\ c \in closed
  BY <1>0 DEF TInv, ThreadOK, Consistent, PieceInv, OpenOK
<1>2. /\ Live' = Live /\ Live # Cache /\ c \notin Live /\ Live \subseteq Cache
      /\ filled \in [Cache -> Int]
  BY <1>0, <1>1 DEF Live, TypeOK
<1>3. Square(th[t].pc)
  BY <1>0 DEF Square, PCs
<1>4. Only(t) /\ Square(th'[t].pc)
  <2>1. \E pc \in {"closing", "closesub", "diskclose"} : Goto(t, pc) \/ \E n : GotoN(t, pc, n)
    BY DEF CloseEnd, CloseSub, CloseRelease
  <2> QED
    BY <1>0, <2>1, GotoMoves, GotoNMoves DEF Square, PCs
<1>5. \A d : Unfilled(d, t) = 0 /\ Unfilled(d, t)' = 0
  BY <1>3, <1>4, SquareOwes
<1>6. \A d \in Live : filled'[d] = filled[d] + Unfilled(d, t) - Unfilled(d, t)'
  <2>1. \A d \in Live : filled'[d] = filled[d]
    BY <1>0, <1>1, <1>2 DEF CloseEnd, CloseSub, CloseRelease, fillVars
  <2> QED
    BY <1>2, <1>5, <2>1
<1>7. CASE UNCHANGED <<obj, pieces>>
  <2>1. AmountsOK'
    BY <1>0, <1>4, <1>7, AmountsKept DEF AmountsOK
  <2>2. \A d \in Cache, q \in Idx : Bytes(d, q)' = Bytes(d, q)
    BY <1>7 DEF Bytes
  <2> QED
    BY <1>0, <1>2, <1>4, <1>6, <2>1, <2>2 DEF Clears
<1>8. CASE \E p \in Idx : CloseRelease(t, p)
  <2>1. PICK p \in Idx : CloseRelease(t, p)
    BY <1>8
  <2>2. PICK o \in Obj : pieces[c][p] = o /\ o # None
    BY <1>0, <1>1, <2>1 DEF CloseRelease, TypeOK
  <2>3. /\ obj' = [obj EXCEPT ![o] = Released(@)]
        /\ pieces' = [pieces EXCEPT ![c][p] = None]
    BY <1>1, <2>1, <2>2 DEF CloseRelease
  <2>4. /\ obj'[o].accounted = 0 /\ \A x \in Obj \ {o} : obj'[x] = obj[x]
        /\ \A d \in Cache \ {c}, q \in Idx : pieces'[d][q] = pieces[d][q]
    BY <1>0, <2>3 DEF TypeOK, Released
  <2>5. AmountsOK'
    BY <1>0, <1>4, <2>4, AmountsKept DEF AmountsOK
  <2>6. \A d \in Live, q \in Idx : Bytes(d, q)' = Bytes(d, q)
    <3>1. \A d \in Cache \ {c}, q \in Idx : pieces[d][q] # o
      BY <2>2 DEF PieceInv, PiecesOK, OwnOK
    <3> QED
      BY <1>2, <2>4, <3>1, OtherBytes
  <2> QED
    BY <1>0, <1>2, <1>4, <1>6, <2>5, <2>6 DEF Clears
<1> QED
  BY <1>7, <1>8 DEF CloseEnd, CloseSub, memVars

\* The steps that owe nothing before or after.
LEMMA SquareStep ==
  ASSUME TInv, TInv', PieceInv, LedgerInv, NEW t \in Thread,
         \/ Hydrate(t) \/ AccessRead(t) \/ AccessHash(t) \/ MarkComplete(t) \/ Snapshot(t)
         \/ WritePiece(t) \/ HashReturn(t) \/ ClearDisk(t) \/ EvictCheck(t) \/ EvictLock(t)
         \/ EvictDone(t) \/ CloseBegin(t) \/ DiskClose(t) \/ DeleteCache(t)
         \/ \E c \in Cache : Collect(t, c)
  PROVE  AmountsOK' /\ Clears(t)
<1> DEFINE Busy == {"fill", "gadd", "gsub", "evsub"}
<1>0. TypeOK /\ ThreadOK /\ th[t] \in ThreadType /\ AmountsOK /\ th'[t] \in ThreadType
  BY DEF TInv, TypeOK, LedgerInv
<1>1. th[t].pc \notin Busy
  BY DEF Hydrate, AccessRead, AccessHash, MarkComplete, Snapshot, WritePiece, HashReturn,
     ClearDisk, EvictCheck, EvictLock, EvictDone, CloseBegin, DiskClose, DeleteCache, Collect
<1>2. Only(t) /\ th'[t].pc \notin Busy
  <2>1. CASE \E pc \in PCs \ Busy : Goto(t, pc)
    BY <1>0, <2>1, GotoMoves
  <2>2. CASE Finish(t)
    BY <1>0, <2>2, FinishMoves
  <2>3. CASE AfterEvict(t) /\ th[t].pc \in {"evict", "evlock", "evloop"}
    BY <1>0, <2>3, AfterEvictMoves
  <2>4. CASE Hydrate(t) \/ AccessHash(t) \/ MarkComplete(t) \/ Snapshot(t) \/ WritePiece(t)
             \/ ClearDisk(t) \/ CloseBegin(t)
    BY <2>1, <2>4 DEF Hydrate, AccessHash, MarkComplete, Snapshot, WritePiece, ClearDisk,
       CloseBegin, PCs
  <2>5. CASE AccessRead(t) \/ HashReturn(t) \/ DiskClose(t) \/ DeleteCache(t)
    BY <2>1, <2>2, <2>5 DEF AccessRead, HashReturn, DiskClose, DeleteCache, PCs
  <2>6. CASE EvictCheck(t) \/ EvictDone(t)
    BY <2>1, <2>3, <2>6 DEF EvictCheck, EvictDone, PCs
  <2>7. CASE EvictLock(t)
    <3>1. CASE th' = [th EXCEPT ![t].pc = "evloop", ![t].cap = capacity, ![t].todo = caches]
      <4>1. Only(t) /\ th'[t] = [th[t] EXCEPT !.pc = "evloop", !.cap = capacity, !.todo = caches]
        BY <1>0, <3>1 DEF TypeOK, Only
      <4> QED
        BY <1>0, <4>1 DEF ThreadType
    <3> QED
      BY <2>3, <2>7, <3>1 DEF EvictLock
  <2>8. CASE \E c \in Cache : Collect(t, c)
    <3>1. PICK c \in Cache : Collect(t, c)
      BY <2>8
    <3>2. Only(t) /\ th'[t] = [th[t] EXCEPT !.todo = @ \ {c}, !.cands = @ \cup Candidates(c)]
      BY <1>0, <3>1 DEF Collect, TypeOK, Only
    <3> QED
      BY <1>0, <1>1, <3>2 DEF ThreadType
  <2> QED
    BY <2>4, <2>5, <2>6, <2>7, <2>8
<1>3. Square(th[t].pc) /\ Square(th'[t].pc)
  BY <1>0, <1>1, <1>2 DEF Square, ThreadType
<1>4. UNCHANGED <<pieces, filled, globalFilled>> /\ closed \subseteq closed'
  BY DEF Hydrate, AccessRead, AccessHash, MarkComplete, Snapshot, WritePiece, HashReturn,
     ClearDisk, EvictCheck, EvictLock, EvictDone, CloseBegin, DiskClose, DeleteCache, Collect,
     memVars, fillVars, cacheVars
<1>5. \A o \in Obj : obj'[o].accounted = obj[o].accounted
  <2>1. CASE MarkComplete(t)
    <3>1. obj' = [obj EXCEPT ![th[t].o] = Completed(@)]
      BY <2>1 DEF MarkComplete
    <3>2. ASSUME NEW o \in Obj PROVE obj'[o].accounted = obj[o].accounted
      <4>1. obj[o] \in MemPieceType
        BY <1>0 DEF TypeOK
      <4>2. Completed(obj[o]).accounted = obj[o].accounted
        BY <4>1 DEF Completed, MemPieceType
      <4>3. obj'[o] = obj[o] \/ obj'[o] = Completed(obj[o])
        BY <1>0, <3>1 DEF TypeOK
      <4> QED
        BY <4>2, <4>3
    <3> QED
      BY <3>2
  <2>2. CASE UNCHANGED obj
    BY <2>2
  <2> QED
    BY <2>1, <2>2 DEF Hydrate, AccessRead, AccessHash, Snapshot, WritePiece, HashReturn,
       ClearDisk, EvictCheck, EvictLock, EvictDone, CloseBegin, DiskClose, DeleteCache, Collect,
       memVars
<1> QED
  BY <1>0, <1>2, <1>3, <1>4, <1>5, SquareClears

\* Calls begin without owing anything.
LEMMA BeginBooks ==
  ASSUME TInv, TInv', LedgerInv, NEW t \in Thread, Begin(t)
  PROVE  AmountsOK' /\ Clears(t)
<1>0. TypeOK /\ AmountsOK /\ th[t] \in ThreadType /\ th'[t] \in ThreadType
  BY DEF TInv, TypeOK, LedgerInv
<1>1. Square(th[t].pc)
  BY DEF Begin, BeginRead, BeginHash, BeginWrite, SetGlobalCapacity, BeginClose, BeginDrop, Idle,
     Square, PCs
<1>2. UNCHANGED <<filled, globalFilled, closed>>
  BY DEF Begin, BeginRead, BeginHash, BeginWrite, SetGlobalCapacity, BeginClose, BeginDrop,
     fillVars, cacheVars
<1>3. CASE \E c \in Cache, p \in Idx :
             BeginRead(t, c, p) \/ BeginHash(t, c, p) \/ \E b \in Block : BeginWrite(t, c, p, b)
  <2>1. PICK c \in Cache, p \in Idx :
          BeginRead(t, c, p) \/ BeginHash(t, c, p) \/ \E b \in Block : BeginWrite(t, c, p, b)
    BY <1>3
  <2>2. \E pc \in {"hydrate", "write"} : \E op, b : GetOrCreate(t, c, p, pc, op, b)
    BY <2>1 DEF BeginRead, BeginHash, BeginWrite
  <2>3. Square("hydrate") /\ Square("write")
    BY DEF Square, PCs
  <2> QED
    BY <1>0, <1>1, <1>2, <2>2, <2>3, LookupClears
<1>4. CASE \/ \E n \in Capacities : SetGlobalCapacity(t, n)
           \/ \E c \in Cache : BeginClose(t, c) \/ BeginDrop(t, c)
  <2>1. UNCHANGED <<obj, pieces>>
    BY <1>4 DEF SetGlobalCapacity, BeginClose, BeginDrop, memVars
  <2>2. \/ th' = [th EXCEPT ![t].pc = "evict", ![t].op = "resize"]
        \/ \E c, op : th' = [th EXCEPT ![t].pc = "close", ![t].op = op, ![t].c = c]
    BY <1>4 DEF SetGlobalCapacity, BeginClose, BeginDrop
  <2>3. Only(t) /\ th'[t].pc \in {"evict", "close"}
    <3>1. CASE th' = [th EXCEPT ![t].pc = "evict", ![t].op = "resize"]
      <4>1. Only(t) /\ th'[t] = [th[t] EXCEPT !.pc = "evict", !.op = "resize"]
        BY <1>0, <3>1 DEF TypeOK, Only
      <4> QED
        BY <1>0, <4>1 DEF ThreadType
    <3>2. ASSUME NEW c, NEW op, th' = [th EXCEPT ![t].pc = "close", ![t].op = op, ![t].c = c]
          PROVE  Only(t) /\ th'[t].pc = "close"
      <4>1. Only(t) /\ th'[t] = [th[t] EXCEPT !.pc = "close", !.op = op, !.c = c]
        BY <1>0, <3>2 DEF TypeOK, Only
      <4> QED
        BY <1>0, <4>1 DEF ThreadType
    <3> QED
      BY <2>2, <3>1, <3>2
  <2> QED
    BY <1>0, <1>1, <1>2, <2>1, <2>3, SquareClears DEF Square, PCs
<1> QED
  BY <1>3, <1>4 DEF Begin

\* Readers neither.
LEMMA ReaderBooks ==
  ASSUME TInv, TInv', LedgerInv, NEW r \in Reader,
         ReaderStep(r) \/ GiveUp(r) \/ \E b \in Block : BeginStream(r, b)
  PROVE  AmountsOK' /\ Clears(r)
<1>0. /\ TypeOK /\ AmountsOK /\ r \in Thread /\ th[r] \in ThreadType
      /\ UNCHANGED <<filled, globalFilled, closed>>
  BY DEF TInv, TypeOK, LedgerInv, Thread, ReaderStep, Outer, AccessStream, Refetch, WaitRange, Unpark,
     Serve, GiveUp, BeginStream, fillVars, cacheVars
<1>1. Square(th[r].pc)
  BY DEF ReaderStep, Outer, AccessStream, Refetch, WaitRange, Unpark, Serve, GiveUp, BeginStream,
     Idle, Square, PCs
<1>2. CASE Outer(r) \/ Refetch(r) \/ \E b \in Block : BeginStream(r, b)
  <2>1. \E c \in Cache, p \in Idx, pc \in {"hydrate", "waitrange"} :
          \E op, b : GetOrCreate(r, c, p, pc, op, b)
    <3>1. CASE Outer(r) \/ Refetch(r)
      <4>1. th[r].c \in Cache /\ th[r].p \in Idx
        BY <1>0, <3>1, Locals DEF Outer, Refetch, TInv, ThreadOK, Consistent
      <4> QED
        BY <3>1, <4>1 DEF Outer, Refetch
    <3>2. CASE \E b \in Block : BeginStream(r, b)
      <4>1. reader[r].state = "open"
        BY <3>2 DEF BeginStream
      <4>2. reader[r].c \in Cache /\ reader[r].pos \in Idx
        BY <4>1 DEF TInv, TypeOK, ReaderOK, ReaderType
      <4> QED
        BY <3>2, <4>2 DEF BeginStream
    <3> QED
      BY <1>2, <3>1, <3>2
  <2>2. Square("hydrate") /\ Square("waitrange")
    BY DEF Square, PCs
  <2> QED
    BY <1>0, <1>1, <2>1, <2>2, LookupClears
<1>3. CASE AccessStream(r) \/ WaitRange(r) \/ Unpark(r) \/ Serve(r) \/ GiveUp(r)
  <2>1. Finish(r) \/ \E pc \in {"refetch", "serve", "parked", "outer"} : Goto(r, pc)
    BY <1>3 DEF AccessStream, WaitRange, Unpark, Serve, GiveUp
  <2>2. Only(r) /\ Square(th'[r].pc)
    BY <1>0, <2>1, FinishMoves, GotoMoves DEF Square, PCs
  <2>3. UNCHANGED <<obj, pieces>>
    BY <1>3 DEF AccessStream, WaitRange, Unpark, Serve, GiveUp, memVars
  <2> QED
    BY <1>0, <1>1, <2>2, <2>3, SquareClears
<1> QED
  BY <1>2, <1>3 DEF ReaderStep

LEMMA StepBooks ==
  ASSUME TInv, TInv', PieceInv, LedgerInv, NEW t \in Thread, Step(t)
  PROVE  AmountsOK' /\ (Clears(t) \/ \E c \in Cache, p \in Idx : Posts(t, c, p))
<1>1. CASE WriteAt(t) \/ UpdateFilled(t) \/ AddGlobalFilled(t) \/ LoadComplete(t)
  BY <1>1, WriteAtBooks, UpdateFilledBooks, GlobalBooks, LoadCompleteBooks
<1>2. CASE MarkNotComplete(t) \/ MarkNotCompleteSub(t) \/ EvictSub(t)
  BY <1>2, MarkNotCompleteBooks, GlobalBooks
<1>3. CASE \E k \in th[t].cands : EvictPiece(t, k)
  BY <1>3, EvictPieceBooks
<1>4. CASE CloseEnd(t) \/ CloseSub(t) \/ \E p \in Idx : CloseRelease(t, p)
  BY <1>4, CloseBooks
<1>5. CASE MarkGet(t)
  <2>1. th[t].c \in Cache /\ th[t].p \in Idx
    BY <1>5, Locals DEF MarkGet, TInv, ThreadOK, Consistent
  <2>2. Square(th[t].pc) /\ Square("markmp")
    BY <1>5 DEF MarkGet, Square, PCs
  <2>3. UNCHANGED <<filled, globalFilled, closed>> /\ AmountsOK
    BY <1>5 DEF MarkGet, fillVars, cacheVars, LedgerInv
  <2> QED
    BY <1>5, <2>1, <2>2, <2>3, LookupClears DEF MarkGet
<1>6. CASE \/ Hydrate(t) \/ AccessRead(t) \/ AccessHash(t) \/ MarkComplete(t) \/ Snapshot(t)
           \/ WritePiece(t) \/ HashReturn(t) \/ ClearDisk(t) \/ EvictCheck(t) \/ EvictLock(t)
           \/ EvictDone(t) \/ CloseBegin(t) \/ DiskClose(t) \/ DeleteCache(t)
           \/ \E c \in Cache : Collect(t, c)
  BY <1>6, SquareStep
<1> QED
  BY <1>1, <1>2, <1>3, <1>4, <1>5, <1>6 DEF Step

LEMMA LedgerInv_Step ==
  ASSUME TInv, TInv', PieceInv, LedgerInv, [Next]_vars
  PROVE  LedgerInv'
<1>1. ASSUME NEW t \in Thread, AmountsOK', Clears(t) \/ \E c \in Cache, p \in Idx : Posts(t, c, p)
      PROVE  LedgerInv'
  BY <1>1, ClearsLedger, PostsLedger
<1>2. ASSUME NEW t \in Thread, Step(t) PROVE LedgerInv'
  BY <1>1, <1>2, StepBooks
<1>3. ASSUME NEW t \in Worker, Begin(t) PROVE LedgerInv'
  <2>1. t \in Thread
    BY DEF Thread
  <2> QED
    BY <1>1, <1>3, <2>1, BeginBooks
<1>4. ASSUME NEW r \in Reader, ReaderStep(r) \/ GiveUp(r) \/ \E b \in Block : BeginStream(r, b)
      PROVE  LedgerInv'
  <2>1. r \in Thread
    BY DEF Thread
  <2> QED
    BY <1>1, <1>4, <2>1, ReaderBooks
<1>5. CASE \/ \E c \in Cache : OpenTorrent(c)
           \/ \E c \in Cache, p \in Idx : UpdateCompletion(c, p)
           \/ \E r \in Reader : \/ CloseReader(r) \/ UnregisterReader(r)
                                \/ \E c \in Cache : OpenReader(r, c)
                                \/ \E p \in Idx : Seek(r, p)
           \/ UNCHANGED vars
  <2>1. UNCHANGED <<th, obj, pieces, filled, globalFilled, closed>>
    BY <1>5 DEF OpenTorrent, UpdateCompletion, CloseReader, UnregisterReader, OpenReader, Seek, vars,
       memVars, fillVars, cacheVars
  <2> QED
    BY <2>1, StillLedger
<1> QED
  BY <1>2, <1>3, <1>4, <1>5 DEF Next

\* No torrent is closed where neither Close nor a drop ever begins.
NeverClosed == closed = {} /\ \A t \in Thread : th[t].pc # "close"

\* A thread moves to somewhere else than teardown.
Elsewhere(t) == closed' = closed /\ Only(t) /\ th'[t].pc # "close"

LEMMA StepElsewhere ==
  ASSUME TInv, PieceInv, NeverClosed, NEW t \in Thread, Step(t)
  PROVE  Elsewhere(t)
<1>1. ~CloseBegin(t)
  BY DEF CloseBegin, NeverClosed
<1>2. closed' = closed
  BY <1>1 DEF Step, WriteAt, UpdateFilled, AddGlobalFilled, Hydrate, LoadComplete, AccessRead,
     AccessHash, MarkGet, MarkComplete, Snapshot, WritePiece, HashReturn, ClearDisk,
     MarkNotComplete, MarkNotCompleteSub, EvictCheck, EvictLock, EvictDone, EvictSub, Collect,
     EvictPiece, CloseEnd, CloseSub, DiskClose, DeleteCache, CloseRelease, cacheVars
<1> QED
  BY <1>2, StepMoves DEF Elsewhere

LEMMA BeginElsewhere ==
  ASSUME TInv, "close" \notin Ops, "drop" \notin Ops, NEW t \in Thread, Begin(t)
  PROVE  Elsewhere(t)
<1>0. TypeOK /\ th[t] \in ThreadType
  BY DEF TInv, TypeOK
<1>1. CASE \E c \in Cache, p \in Idx :
             BeginRead(t, c, p) \/ BeginHash(t, c, p) \/ \E b \in Block : BeginWrite(t, c, p, b)
  <2>1. PICK c \in Cache, p \in Idx :
          BeginRead(t, c, p) \/ BeginHash(t, c, p) \/ \E b \in Block : BeginWrite(t, c, p, b)
    BY <1>1
  <2>2. closed' = closed /\ \E pc \in {"hydrate", "write"} : \E op, b : GetOrCreate(t, c, p, pc, op, b)
    BY <2>1 DEF BeginRead, BeginHash, BeginWrite, cacheVars
  <2> QED
    BY <2>2, LookupMoves, GetOrCreateGets DEF Elsewhere
<1>2. CASE \E n \in Capacities : SetGlobalCapacity(t, n)
  <2>1. closed' = closed /\ th' = [th EXCEPT ![t].pc = "evict", ![t].op = "resize"]
    BY <1>2 DEF SetGlobalCapacity, cacheVars
  <2>2. Only(t) /\ th'[t] = [th[t] EXCEPT !.pc = "evict", !.op = "resize"]
    BY <1>0, <2>1 DEF TypeOK, Only
  <2>3. th'[t].pc = "evict"
    BY <1>0, <2>2 DEF ThreadType
  <2> QED
    BY <2>1, <2>2, <2>3 DEF Elsewhere
<1> QED
  BY <1>1, <1>2 DEF Begin, BeginClose, BeginDrop

LEMMA ReaderElsewhere ==
  ASSUME TInv, NEW r \in Reader, ReaderStep(r) \/ GiveUp(r) \/ \E b \in Block : BeginStream(r, b)
  PROVE  Elsewhere(r)
<1>0. TypeOK /\ r \in Thread /\ th[r] \in ThreadType /\ closed' = closed
  BY DEF TInv, TypeOK, Thread, ReaderStep, Outer, AccessStream, Refetch, WaitRange, Unpark, Serve,
     GiveUp, BeginStream, cacheVars
<1>1. CASE Outer(r) \/ Refetch(r)
  <2>1. th[r].c \in Cache /\ th[r].p \in Idx
    BY <1>0, <1>1, Locals DEF Outer, Refetch, TInv, ThreadOK, Consistent
  <2> QED
    BY <1>0, <1>1, <2>1, LookupMoves, GetOrCreateGets DEF Outer, Refetch, Elsewhere
<1>2. CASE \E b \in Block : BeginStream(r, b)
  <2>1. reader[r].c \in Cache /\ reader[r].pos \in Idx
    BY <1>2 DEF BeginStream, TInv, TypeOK, ReaderOK, ReaderType
  <2> QED
    BY <1>0, <1>2, <2>1, LookupMoves, GetOrCreateGets DEF BeginStream, Elsewhere
<1>3. CASE AccessStream(r) \/ WaitRange(r) \/ Unpark(r) \/ Serve(r) \/ GiveUp(r)
  <2>1. Finish(r) \/ \E pc \in {"refetch", "serve", "parked", "outer"} : Goto(r, pc)
    BY <1>3 DEF AccessStream, WaitRange, Unpark, Serve, GiveUp
  <2> QED
    BY <1>0, <2>1, FinishMoves, GotoMoves DEF Elsewhere
<1> QED
  BY <1>1, <1>2, <1>3 DEF ReaderStep

LEMMA NeverClosed_Step ==
  ASSUME TInv, PieceInv, NeverClosed, "close" \notin Ops, "drop" \notin Ops, [Next]_vars
  PROVE  NeverClosed'
<1>1. ASSUME NEW t \in Thread, Elsewhere(t) PROVE NeverClosed'
  BY <1>1 DEF Elsewhere, NeverClosed, Only
<1>2. ASSUME NEW t \in Thread, Step(t) PROVE NeverClosed'
  BY <1>1, <1>2, StepElsewhere
<1>3. ASSUME NEW t \in Worker, Begin(t) PROVE NeverClosed'
  <2>1. t \in Thread
    BY DEF Thread
  <2> QED
    BY <1>1, <1>3, <2>1, BeginElsewhere
<1>4. ASSUME NEW r \in Reader, ReaderStep(r) \/ GiveUp(r) \/ \E b \in Block : BeginStream(r, b)
      PROVE  NeverClosed'
  <2>1. r \in Thread
    BY DEF Thread
  <2> QED
    BY <1>1, <1>4, <2>1, ReaderElsewhere
<1>5. CASE \/ \E c \in Cache : OpenTorrent(c)
           \/ \E c \in Cache, p \in Idx : UpdateCompletion(c, p)
           \/ \E r \in Reader : \/ CloseReader(r) \/ UnregisterReader(r)
                                \/ \E c \in Cache : OpenReader(r, c)
                                \/ \E p \in Idx : Seek(r, p)
           \/ UNCHANGED vars
  <2>1. UNCHANGED <<th, closed>>
    BY <1>5 DEF OpenTorrent, UpdateCompletion, CloseReader, UnregisterReader, OpenReader, Seek, vars,
       cacheVars
  <2> QED
    BY <2>1 DEF NeverClosed
<1> QED
  BY <1>2, <1>3, <1>4, <1>5 DEF Next

LEMMA LedgerInv_Holds == Spec => []LedgerInv
<1>1. TInv /\ TInv' /\ PieceInv /\ LedgerInv /\ [Next]_vars => LedgerInv'
  BY LedgerInv_Step
<1> QED
  BY <1>1, LedgerInv_Init, PieceInv_Holds, TInv_Init, TInv_Step, PTL DEF Spec

LEMMA NeverClosed_Holds ==
  ASSUME "close" \notin Ops, "drop" \notin Ops
  PROVE  Spec => []NeverClosed
<1>1. Init => NeverClosed
  BY DEF Init, NeverClosed, IdleThread
<1>2. TInv /\ PieceInv /\ NeverClosed /\ [Next]_vars => NeverClosed'
  BY NeverClosed_Step
<1> QED
  BY <1>1, <1>2, PieceInv_Holds, TInv_Init, TInv_Step, PTL DEF Spec

\* Until its torrent is closed, the accountant of a cache without a disk is exact in every state:
\* Cache.filled is the bytes of the pieces in the map, less what writers have put in a piece and
\* not yet added, whatever writes, hash failures, evictions and resizes interleave, and whatever
\* happens to the other caches (WriteAt and UpdateFilled against ReleaseAndSize).
THEOREM LiveFilledExact == Spec => [](\A c \in Cache \ (closed \cup DiskCaches) : FilledExactIn(c))
<1>1. LedgerInv => \A c \in Cache \ (closed \cup DiskCaches) : FilledExactIn(c)
  BY DEF LedgerInv, Live, CacheLedger
<1> QED
  BY <1>1, LedgerInv_Holds, PTL

\* In stream mode, as long as no torrent is closed, no cache's accountant ever drifts
\* (Cache.filled).
THEOREM FilledStaysExact ==
  ASSUME "close" \notin Ops, "drop" \notin Ops, DiskCaches = {}
  PROVE  Spec => []FilledExact
<1>1. LedgerInv /\ NeverClosed => FilledExact
  BY DEF LedgerInv, NeverClosed, Live, CacheLedger, FilledExact
<1> QED
  BY <1>1, LedgerInv_Holds, NeverClosed_Holds, PTL

\* In stream mode, as long as no torrent is closed, the global accountant that decides evictions is
\* the total of resident bytes over all caches whenever no call is running
\* (Storage.globalFilled).
THEOREM GlobalFilledStaysExact ==
  ASSUME "close" \notin Ops, "drop" \notin Ops, DiskCaches = {}
  PROVE  Spec => []GlobalFilledExact
<1>1. LedgerInv /\ NeverClosed => GlobalFilledExact
  <2> SUFFICES ASSUME LedgerInv, NeverClosed, \A t \in Thread : th[t].pc = "idle"
               PROVE  globalFilled = Total(Cache \X Idx, Resident)
    BY DEF GlobalFilledExact, Resident
  <2>1. GlobalLedger
    BY DEF LedgerInv, NeverClosed, Live
  <2>2. /\ Adds \in [Thread -> Nat] /\ \A t \in Thread : Adds[t] = 0
        /\ Subs \in [Thread -> Nat] /\ \A t \in Thread : Subs[t] = 0
    BY DEF Adds, Subs, Adding, Subbing
  <2>3. Total(Thread, Adds) = 0 /\ Total(Thread, Subs) = 0
    BY <2>2, NothingCounted
  <2>4. Total(Cache \X Idx, Resident) \in Nat
    BY <2>1, CountedTotal DEF GlobalLedger
  <2> QED
    BY <2>1, <2>3, <2>4 DEF GlobalLedger
<1> QED
  BY <1>1, LedgerInv_Holds, NeverClosed_Holds, PTL
=============================================================================
