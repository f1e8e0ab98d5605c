----------------------------- MODULE PieceCache -----------------------------
(***************************************************************************)
(* The RAM piece cache of storage/: MemPiece objects, the Cache map that   *)
(* names them, the per-torrent and the global byte accountants, the        *)
(* cross-torrent eviction pass, the disk spill and reload, the streaming   *)
(* Reader that waits for blocks, and teardown.                             *)
(*                                                                         *)
(* Every goroutine is a thread with a program counter; one action is one   *)
(* critical section of the code (Cache.mu, MemPiece.mu, Storage.evictMu)   *)
(* or one atomic counter update, so the threads interleave exactly where   *)
(* the code releases a lock.  A MemPiece is an object with an identity: a  *)
(* thread keeps the pointer that GetOrCreateMemPiece gave it while the     *)
(* cache may drop or replace the map entry.                                *)
(*                                                                         *)
(* Bytes are counted in blocks (16 KiB in the code).  The anacrolix client *)
(* that calls the storage is external: `client' is the part of its state   *)
(* that decides which calls it makes.                                      *)
(***************************************************************************)
EXTENDS Integers, FiniteSets

CONSTANTS
  Cache,        \* Cache objects (one per OpenTorrent)
  LastPiece,    \* piece indices are 0..LastPiece
  NumBlocks,    \* blocks per piece
  Obj,          \* pool of MemPiece identities; one is reused once unreferenced
  Worker,       \* goroutines of the client and of teardown
  Reader,       \* storage.Reader values, each read by its own goroutine
  None,         \* no object / no thread
  Capacities,   \* the values globalCapacity is set to, in blocks (positive: it is clamped)
  DiskCaches,   \* the caches opened in disk mode
  Back, Ahead,  \* a reader protects cur-Back .. cur+Ahead (2 and >= 2 in the code)
  Edge,         \* and the first and last Edge pieces of its file (3 in the code)
  Ops,          \* which operations the environment performs in this instance
  MaxDrift      \* bound: no new operation once the accountant is this far off

Idx    == 0..LastPiece
Block  == 1..NumBlocks
Thread == Worker \cup Reader

OpNames == {"write", "read", "hash", "badhash", "close", "drop", "reader", "closereader",
            "resize"}

ASSUME ConstantsAssumption ==
  /\ LastPiece \in Nat /\ NumBlocks \in Nat \ {0}
  /\ Back \in Nat /\ Ahead \in Nat /\ Edge \in Nat
  /\ Capacities \subseteq Nat \ {0} /\ Capacities # {} /\ MaxDrift \in Nat
  /\ DiskCaches \subseteq Cache /\ Ops \subseteq OpNames
  /\ None \notin Obj /\ None \notin Thread /\ None \notin Cache
  /\ Worker \cap Reader = {}

VARIABLES
  obj,           \* the MemPiece objects
  pieces,        \* Cache.pieces: index -> MemPiece
  filled,        \* Cache.filled
  closed,        \* caches with Cache.closed set
  lock,          \* Cache.mu while Close holds it over several piece releases
  caches,        \* Storage.caches: the caches an eviction pass visits
  torrentSet,    \* caches whose Cache.torrent is non-nil
  globalFilled,  \* Storage.globalFilled
  capacity,      \* Storage.globalCapacity
  evictMu,       \* Storage.evictMu
  have,          \* diskBacking.have
  diskOpen,      \* caches whose .dat handle is open
  reader,        \* the Reader fields eviction looks at
  parkedOn,      \* the MemPiece whose notify channel a reader is blocked on
  client,        \* anacrolix: per piece, chunks received, completion, hashing
  updates,       \* goroutines spawned for Piece.UpdateCompletion
  th             \* thread-local state

vars == <<obj, pieces, filled, closed, lock, caches, torrentSet, globalFilled, capacity, evictMu,
          have, diskOpen, reader, parkedOn, client, updates, th>>

\* Groups for UNCHANGED.
memVars    == <<obj, pieces, parkedOn>>
cacheVars  == <<closed, lock, caches, torrentSet>>
fillVars   == <<filled, globalFilled>>
evictVars  == <<capacity, evictMu>>
diskVars   == <<have, diskOpen>>
clientVars == <<client, updates>>

-----------------------------------------------------------------------------
(* Types *)

MemPieceType ==
  [data : BOOLEAN,               \* m.data # nil
   bytes : SUBSET Block,         \* the blocks of data that hold received bytes
   tracked : BOOLEAN,            \* m.writtenBlocks # nil
   written : SUBSET Block,       \* m.writtenBlocks
   complete : BOOLEAN,
   accounted : Int,
   done : BOOLEAN]               \* m.doneCh is closed

NewMemPiece ==
  [data |-> FALSE, bytes |-> {}, tracked |-> TRUE, written |-> {},
   complete |-> FALSE, accounted |-> 0, done |-> FALSE]

PCs == {"idle", "write", "fill", "gadd", "hydrate", "load", "access", "mark", "markmp",
        "persist", "diskwrite", "clear", "release", "gsub", "evict", "evlock", 
        "evloop", "evsub", "close", "closing", "closesub", "diskclose", "unreg", "ret",
        "outer", "refetch", "waitrange", "parked", "serve"}

Cand == [c : Cache, p : Idx, o : Obj]

ThreadType ==
  [pc : PCs, op : OpNames \cup {"none", "mark"}, c : Cache \cup {None}, p : Idx, b : Block,
   o : Obj \cup {None}, n : Int, cap : Nat, cands : SUBSET Cand, todo : SUBSET Cache]

IdleThread ==
  [pc |-> "idle", op |-> "none", c |-> None, p |-> 0, b |-> 1,
   o |-> None, n |-> 0, cap |-> 0, cands |-> {}, todo |-> {}]

ReaderType == [state : {"none", "open", "closing"}, c : Cache \cup {None}, pos : Idx]
NoReader   == [state |-> "none", c |-> None, pos |-> 0]

ClientType == [dirty : SUBSET Block, have : BOOLEAN, hashing : BOOLEAN]
NewClient  == [dirty |-> {}, have |-> FALSE, hashing |-> FALSE]

TypeOK ==
  /\ obj \in [Obj -> MemPieceType]
  /\ pieces \in [Cache -> [Idx -> Obj \cup {None}]]
  /\ filled \in [Cache -> Int]
  /\ closed \in SUBSET Cache
  /\ lock \in [Cache -> Thread \cup {None}]
  /\ caches \in SUBSET Cache
  /\ torrentSet \in SUBSET Cache
  /\ globalFilled \in Int
  /\ capacity \in Capacities
  /\ evictMu \in Thread \cup {None}
  /\ have \in [Cache -> SUBSET Idx]
  /\ diskOpen \in SUBSET Cache
  /\ reader \in [Reader -> ReaderType]
  /\ parkedOn \in [Reader -> Obj \cup {None}]
  /\ client \in [Cache -> [Idx -> ClientType]]
  /\ updates \in SUBSET (Cache \X Idx)
  /\ th \in [Thread -> ThreadType]

-----------------------------------------------------------------------------
(* MemPiece: each operator is the new value of one object *)

IsComplete(m) == m.complete /\ m.data

\* ReleaseAndSize: buffer, blocks, complete and accounted go; writtenBlocks is nil from now
\* on; the done channel stays as it is.  The caller subtracts m.accounted.
Released(m) ==
  [data |-> FALSE, bytes |-> {}, tracked |-> FALSE, written |-> {},
   complete |-> FALSE, accounted |-> 0, done |-> m.done]

\* Mutant: a write that forgets m.accounted.
WrittenUnaccounted(m, b) ==
  [m EXCEPT !.data = TRUE, !.bytes = @ \cup {b},
            !.written = IF m.tracked THEN @ \cup {b} ELSE @]

\* WriteAt of one block; a released piece has no writtenBlocks left to mark.
Written(m, b) ==
  [m EXCEPT !.data = TRUE, !.bytes = @ \cup {b},
            !.written = IF m.tracked THEN @ \cup {b} ELSE @,
            !.accounted = @ + 1]

\* MarkComplete: without a buffer the blocks stay unmarked, but the piece is complete.
Completed(m) ==
  [m EXCEPT !.complete = TRUE, !.done = TRUE,
            !.written = IF m.data /\ m.tracked THEN Block ELSE @]

\* LoadComplete on a piece without data.
Loaded(m) ==
  [m EXCEPT !.data = TRUE, !.bytes = Block, !.complete = TRUE, !.done = TRUE,
            !.written = IF m.tracked THEN Block ELSE @,
            !.accounted = @ + NumBlocks]

\* Mutant: any allocated buffer counts as data.
HasRangeUntracked(m, b) == m.data

HasRange(m, b) == m.data /\ (m.complete \/ (m.tracked /\ b \in m.written))

\* Mutant: the notify channel is never closed.
WakeNobody(o) == UNCHANGED parkedOn

\* wake: closes the notify channel of o, releasing every reader blocked on it.
Wake(o) == parkedOn' = [r \in Reader |-> IF parkedOn[r] = o THEN None ELSE parkedOn[r]]

-----------------------------------------------------------------------------
(* Cache helpers *)

Mapped == {o \in Obj : \E c \in Cache, p \in Idx : pieces[c][p] = o}
Held   == {o \in Obj : \E t \in Thread : th[t].o = o \/ \E k \in th[t].cands : k.o = o}
Free   == Obj \ (Mapped \cup Held)
Fresh  == CHOOSE o \in Obj : o \in Free

\* GetOrCreateMemPiece by thread t; then t continues at pc.  A closed cache hands out a
\* detached piece.
GetOrCreate(t, c, p, pc, op, b) ==
  LET create == c \in closed \/ pieces[c][p] = None
      o == IF create THEN Fresh ELSE pieces[c][p]
  IN /\ lock[c] = None
     /\ create => Free # {}
     /\ obj' = IF create THEN [obj EXCEPT ![o] = NewMemPiece] ELSE obj
     /\ pieces' = IF c \in closed THEN pieces ELSE [pieces EXCEPT ![c][p] = o]
     /\ th' = [th EXCEPT ![t] = [@ EXCEPT !.pc = pc, !.op = op, !.c = c, !.p = p,
                                          !.b = b, !.o = o]]

\* GetActiveWindow plus the head and foot of the file (the file is the whole torrent).
Window(r) ==
  LET cur == IF reader[r].state = "open" THEN reader[r].pos ELSE 0
      lo  == IF reader[r].state = "open" THEN cur - Back ELSE 0
      hi  == IF reader[r].state = "open" THEN cur + Ahead ELSE 0
  IN {i \in Idx : lo <= i /\ i <= hi} \cup {i \in Idx : i < Edge \/ i > LastPiece - Edge}

\* getReaderWindows
Protected(c) ==
  {i \in Idx : \E r \in Reader :
                 reader[r].state # "none" /\ reader[r].c = c /\ i \in Window(r)}

\* Mutant: completion looks at RAM only.
PieceCompleteInRAM(c, p) == pieces[c][p] # None /\ IsComplete(obj[pieces[c][p]])

\* pieceComplete: resident and complete, or on disk.
PieceComplete(c, p) ==
  \/ pieces[c][p] # None /\ IsComplete(obj[pieces[c][p]])
  \/ c \in DiskCaches /\ p \in have[c]

Goto(t, pc)  == th' = [th EXCEPT ![t].pc = pc]
GotoN(t, pc, n) == th' = [th EXCEPT ![t].pc = pc, ![t].n = n]
Finish(t)    == th' = [th EXCEPT ![t] = IdleThread]
Idle(t)      == th[t].pc = "idle"
InDrift      == globalFilled <= MaxDrift /\ globalFilled >= -MaxDrift
Started(c)   == c \in caches \/ c \in closed
SpawnUpdate(c, p) ==
  updates' = IF c \in torrentSet THEN updates \cup {<<c, p>>} ELSE updates
WriteActive(c, p) == \E t \in Thread : th[t].op = "write" /\ th[t].c = c /\ th[t].p = p

-----------------------------------------------------------------------------
(* Storage.OpenTorrent and Piece.WriteAt *)

OpenTorrent(c) ==
  /\ c \notin caches /\ c \notin closed
  /\ caches' = caches \cup {c}
  /\ diskOpen' = IF c \in DiskCaches THEN diskOpen \cup {c} ELSE diskOpen
  /\ client' = [client EXCEPT ![c] =
                 [p \in Idx |-> [NewClient EXCEPT !.have = PieceComplete(c, p)]]]
  /\ UNCHANGED <<memVars, fillVars, evictVars, closed, lock, torrentSet, have, reader, updates, th>>

\* The client writes a chunk it has not received yet, to a piece it is not hashing.
BeginWrite(t, c, p, b) ==
  /\ "write" \in Ops /\ Idle(t) /\ InDrift /\ Started(c)
  /\ ~client[c][p].have /\ ~client[c][p].hashing /\ b \notin client[c][p].dirty
  /\ GetOrCreate(t, c, p, "write", "write", b)
  /\ client' = [client EXCEPT ![c][p].dirty = @ \cup {b}]
  /\ UNCHANGED <<cacheVars, fillVars, evictVars, diskVars, reader, parkedOn, updates>>

WriteAt(t) ==
  /\ th[t].pc = "write"
  /\ obj' = [obj EXCEPT ![th[t].o] = Written(@, th[t].b)]
  /\ Wake(th[t].o)
  /\ GotoN(t, "fill", 1)
  /\ UNCHANGED <<cacheVars, fillVars, evictVars, diskVars, clientVars, pieces, reader>>

\* Once its bytes are accounted a write returns; a hydration tells the client, if the cache
\* knows its torrent, and goes on to evictAfterComplete.
AfterFill(t) ==
  IF th[t].op = "write" THEN Finish(t) /\ UNCHANGED updates
  ELSE /\ GotoN(t, "evict", 0)
       /\ SpawnUpdate(th[t].c, th[t].p)

\* Mutant: late writers account into a closed cache.
UpdateFilledAfterClose(t) ==
  /\ th[t].pc = "fill" /\ lock[th[t].c] = None
  /\ filled' = [filled EXCEPT ![th[t].c] = @ + th[t].n]
  /\ Goto(t, "gadd")
  /\ UNCHANGED <<cacheVars, memVars, evictVars, diskVars, clientVars, globalFilled, reader>>

\* UpdateFilled: the critical section ...
UpdateFilled(t) ==
  LET c == th[t].c IN
  /\ th[t].pc = "fill" /\ lock[c] = None
  /\ IF c \in closed
     THEN UNCHANGED filled /\ AfterFill(t)
     ELSE /\ filled' = [filled EXCEPT ![c] = @ + th[t].n]
          /\ Goto(t, "gadd") /\ UNCHANGED updates
  /\ UNCHANGED <<cacheVars, memVars, evictVars, diskVars, globalFilled, reader, client>>

\* ... and the atomic add after the unlock.
AddGlobalFilled(t) ==
  /\ th[t].pc = "gadd"
  /\ globalFilled' = globalFilled + th[t].n
  /\ AfterFill(t)
  /\ UNCHANGED <<cacheVars, memVars, evictVars, diskVars, filled, reader, client>>

-----------------------------------------------------------------------------
(* Piece.ReadAt (seeding reads and the client's hash reads) and hydrateIfNeeded *)

BeginRead(t, c, p) ==
  /\ "read" \in Ops /\ Idle(t) /\ InDrift /\ Started(c)
  /\ client[c][p].have
  /\ GetOrCreate(t, c, p, "hydrate", "read", 1)
  /\ UNCHANGED <<cacheVars, fillVars, evictVars, diskVars, clientVars, reader, parkedOn>>

\* The client hashes a piece once every chunk is in and no chunk write is still running.
BeginHash(t, c, p) ==
  /\ "hash" \in Ops /\ Idle(t) /\ InDrift /\ Started(c)
  /\ client[c][p].dirty = Block /\ ~client[c][p].hashing /\ ~WriteActive(c, p)
  /\ GetOrCreate(t, c, p, "hydrate", "hash", 1)
  /\ client' = [client EXCEPT ![c][p].hashing = TRUE]
  /\ UNCHANGED <<cacheVars, fillVars, evictVars, diskVars, reader, parkedOn, updates>>

\* HasData, disk.Has and disk.ReadPiece; a closed file handle fails the read.
Hydrate(t) ==
  LET c == th[t].c IN
  /\ th[t].pc = "hydrate"
  /\ IF /\ c \in DiskCaches /\ ~obj[th[t].o].data
        /\ th[t].p \in have[c] /\ c \in diskOpen
     THEN Goto(t, "load") ELSE Goto(t, "access")
  /\ UNCHANGED <<cacheVars, memVars, fillVars, evictVars, diskVars, clientVars, reader>>

LoadComplete(t) ==
  LET o == th[t].o IN
  /\ th[t].pc = "load"
  /\ IF obj[o].data
     THEN Goto(t, "access") /\ UNCHANGED <<obj, parkedOn>>
     ELSE /\ obj' = [obj EXCEPT ![o] = Loaded(@)]
          /\ Wake(o)
          /\ GotoN(t, "fill", NumBlocks)
  /\ UNCHANGED <<cacheVars, fillVars, evictVars, diskVars, clientVars, pieces, reader>>

\* MemPiece.ReadAt for a seeding read: bytes or ErrPieceEvicted, and the call returns.
AccessRead(t) ==
  /\ th[t].pc = "access" /\ th[t].op = "read"
  /\ Finish(t)
  /\ UNCHANGED <<cacheVars, memVars, fillVars, evictVars, diskVars, clientVars, reader>>

\* The hash read: only a piece with every block present can match its hash; the peers may
\* have sent bad bytes all the same ("badhash").
AccessHash(t) ==
  /\ th[t].pc = "access" /\ th[t].op = "hash"
  /\ \/ obj[th[t].o].bytes = Block /\ Goto(t, "mark")
     \/ (obj[th[t].o].bytes # Block \/ "badhash" \in Ops) /\ Goto(t, "clear")
  /\ UNCHANGED <<cacheVars, memVars, fillVars, evictVars, diskVars, clientVars, reader>>

-----------------------------------------------------------------------------
(* Piece.MarkComplete: get the piece, mark it, persist it, evict *)

MarkGet(t) ==
  /\ th[t].pc = "mark"
  /\ GetOrCreate(t, th[t].c, th[t].p, "markmp", "mark", 1)
  /\ UNCHANGED <<cacheVars, fillVars, evictVars, diskVars, clientVars, reader, parkedOn>>

MarkComplete(t) ==
  /\ th[t].pc = "markmp"
  /\ obj' = [obj EXCEPT ![th[t].o] = Completed(@)]
  /\ Wake(th[t].o)
  /\ Goto(t, IF th[t].c \in DiskCaches THEN "persist" ELSE "evict")
  /\ UNCHANGED <<cacheVars, fillVars, evictVars, diskVars, clientVars, pieces, reader>>

\* persistIfDisk: disk.Has and Snapshot ...
Snapshot(t) ==
  /\ th[t].pc = "persist"
  /\ Goto(t, IF th[t].p \notin have[th[t].c] /\ IsComplete(obj[th[t].o])
             THEN "diskwrite" ELSE "evict")
  /\ UNCHANGED <<cacheVars, memVars, fillVars, evictVars, diskVars, clientVars, reader>>

\* ... then WritePiece, which fails on a closed handle and then sets no bit.
WritePiece(t) ==
  /\ th[t].pc = "diskwrite"
  /\ have' = IF th[t].c \in diskOpen THEN [have EXCEPT ![th[t].c] = @ \cup {th[t].p}] ELSE have
  /\ Goto(t, "evict")
  /\ UNCHANGED <<cacheVars, memVars, fillVars, evictVars, clientVars, diskOpen, reader>>

\* MarkComplete returned: the client pends the chunks anew and asks Completion again.
HashReturn(t) ==
  /\ th[t].pc = "ret" /\ lock[th[t].c] = None
  /\ client' = [client EXCEPT ![th[t].c][th[t].p] =
                 [NewClient EXCEPT !.have = PieceComplete(th[t].c, th[t].p)]]
  /\ Finish(t)
  /\ UNCHANGED <<cacheVars, memVars, fillVars, evictVars, diskVars, reader, updates>>

-----------------------------------------------------------------------------
(* Piece.MarkNotComplete: clear the disk bit, then drop the piece from RAM *)

ClearDisk(t) ==
  /\ th[t].pc = "clear"
  /\ have' = [have EXCEPT ![th[t].c] = @ \ {th[t].p}]
  /\ Goto(t, "release")
  /\ UNCHANGED <<cacheVars, memVars, fillVars, evictVars, clientVars, diskOpen, reader>>

MarkNotComplete(t) ==
  LET c == th[t].c
      o == pieces[c][th[t].p]
  IN /\ th[t].pc = "release" /\ lock[c] = None
     /\ IF c \in closed \/ o = None
        THEN /\ GotoN(t, "gsub", 0)
             /\ UNCHANGED <<obj, pieces, filled, parkedOn>>
        ELSE /\ GotoN(t, "gsub", obj[o].accounted)
             /\ filled' = [filled EXCEPT ![c] = @ - obj[o].accounted]
             /\ obj' = [obj EXCEPT ![o] = Released(@)]
             /\ Wake(o)
             /\ pieces' = [pieces EXCEPT ![c][th[t].p] = None]
     /\ UNCHANGED <<cacheVars, evictVars, diskVars, clientVars, globalFilled, reader>>

MarkNotCompleteSub(t) ==
  /\ th[t].pc = "gsub"
  /\ globalFilled' = globalFilled - th[t].n
  /\ client' = [client EXCEPT ![th[t].c][th[t].p] = NewClient]
  /\ Finish(t)
  /\ UNCHANGED <<cacheVars, memVars, evictVars, diskVars, filled, reader, updates>>

-----------------------------------------------------------------------------
(* Storage.SetGlobalCapacity and evictGlobalIfNeeded *)

\* Mutant: the clamp to a positive minimum is missing.
SetGlobalCapacityUnclamped(t, n) ==
  /\ "resize" \in Ops /\ Idle(t) /\ n # capacity
  /\ capacity' = n - 1
  /\ th' = [th EXCEPT ![t].pc = "evict", ![t].op = "resize"]
  /\ UNCHANGED <<cacheVars, memVars, fillVars, diskVars, clientVars, evictMu, reader>>

SetGlobalCapacity(t, n) ==
  /\ "resize" \in Ops /\ Idle(t) /\ n # capacity
  /\ capacity' = n
  /\ th' = [th EXCEPT ![t].pc = "evict", ![t].op = "resize"]
  /\ UNCHANGED <<cacheVars, memVars, fillVars, diskVars, clientVars, evictMu, reader>>

LeaveEvict(t, pc) == th' = [th EXCEPT ![t].pc = pc, ![t].cands = {}, ![t].cap = 0]

\* Where evictAfterComplete returns to.
AfterEvict(t) ==
  IF th[t].op = "resize" THEN Finish(t)
  ELSE LeaveEvict(t, IF th[t].op = "mark" THEN "ret" ELSE "access")

\* The unlocked check.
EvictCheck(t) ==
  /\ th[t].pc = "evict"
  /\ IF capacity <= 0 \/ globalFilled <= capacity THEN AfterEvict(t) ELSE Goto(t, "evlock")
  /\ UNCHANGED <<cacheVars, memVars, fillVars, evictVars, diskVars, clientVars, reader>>

\* evictMu taken: check again, and remember the capacity and the caches to visit.
EvictLock(t) ==
  /\ th[t].pc = "evlock" /\ evictMu = None
  /\ IF globalFilled <= capacity
     THEN AfterEvict(t) /\ UNCHANGED evictMu
     ELSE /\ evictMu' = t
          /\ th' = [th EXCEPT ![t].pc = "evloop", ![t].cap = capacity, ![t].todo = caches]
  /\ UNCHANGED <<cacheVars, memVars, fillVars, diskVars, clientVars, capacity, reader>>

\* collectEvictCandidates of one cache.
Candidates(c) ==
  IF c \in closed THEN {}
  ELSE {k \in [c : {c}, p : Idx \ Protected(c), o : Obj] :
          pieces[c][k.p] = k.o /\ IsComplete(obj[k.o])}

Collect(t, c) ==
  /\ th[t].pc = "evloop" /\ c \in th[t].todo /\ lock[c] = None
  /\ th' = [th EXCEPT ![t].todo = @ \ {c}, ![t].cands = @ \cup Candidates(c)]
  /\ UNCHANGED <<cacheVars, memVars, fillVars, evictVars, diskVars, clientVars, reader>>

\* Mutant: evictMu is not released.
EvictDoneLocked(t) ==
  /\ th[t].pc = "evloop" /\ th[t].todo = {}
  /\ th[t].cands = {} \/ globalFilled <= th[t].cap
  /\ AfterEvict(t)
  /\ UNCHANGED <<cacheVars, memVars, fillVars, evictVars, diskVars, clientVars, reader>>

\* The pass ends when nothing is left or the total fits.
EvictDone(t) ==
  /\ th[t].pc = "evloop" /\ th[t].todo = {}
  /\ th[t].cands = {} \/ globalFilled <= th[t].cap
  /\ evictMu' = None
  /\ AfterEvict(t)
  /\ UNCHANGED <<cacheVars, memVars, fillVars, diskVars, clientVars, capacity, reader>>

\* Mutant: the window is only checked when the candidate is collected.
StillEvictableUnguarded(k) ==
  k.c \notin closed /\ pieces[k.c][k.p] = k.o /\ IsComplete(obj[k.o])

\* What evictPiece checks again under Cache.mu before it drops k.
StillEvictable(k) ==
  /\ k.c \notin closed
  /\ pieces[k.c][k.p] = k.o
  /\ IsComplete(obj[k.o])
  /\ k.p \notin Protected(k.c)

\* evictPiece.  Candidates are taken by last access; access times are not modelled, so any
\* order is allowed.  The UpdateCompletion goroutine is spawned after the global subtraction;
\* it does not read the accountant, so spawning it here changes nothing.
EvictPiece(t, k) ==
  /\ th[t].pc = "evloop" /\ th[t].todo = {} /\ k \in th[t].cands
  /\ globalFilled > th[t].cap
  /\ lock[k.c] = None
  /\ IF StillEvictable(k)
     THEN /\ filled' = [filled EXCEPT ![k.c] = @ - obj[k.o].accounted]
          /\ th' = [th EXCEPT ![t].pc = "evsub", ![t].n = obj[k.o].accounted,
                              ![t].cands = @ \ {k}]
          /\ obj' = [obj EXCEPT ![k.o] = Released(@)]
          /\ Wake(k.o)
          /\ pieces' = [pieces EXCEPT ![k.c][k.p] = None]
          /\ SpawnUpdate(k.c, k.p)
     ELSE /\ th' = [th EXCEPT ![t].cands = @ \ {k}]
          /\ UNCHANGED <<obj, pieces, filled, parkedOn, updates>>
  /\ UNCHANGED <<cacheVars, evictVars, diskVars, globalFilled, reader, client>>

\* Mutant: an eviction leaves the global accountant alone.
EvictSubForgotten(t) ==
  /\ th[t].pc = "evsub"
  /\ GotoN(t, "evloop", 0)
  /\ UNCHANGED <<cacheVars, memVars, fillVars, evictVars, diskVars, clientVars, reader>>

EvictSub(t) ==
  /\ th[t].pc = "evsub"
  /\ globalFilled' = globalFilled - th[t].n
  /\ GotoN(t, "evloop", 0)
  /\ UNCHANGED <<cacheVars, memVars, evictVars, diskVars, clientVars, filled, reader>>

\* A spawned Piece.UpdateCompletion: the client asks Piece.Completion again.
UpdateCompletion(c, p) ==
  /\ <<c, p>> \in updates /\ lock[c] = None
  /\ updates' = updates \ {<<c, p>>}
  /\ client' = [client EXCEPT ![c][p].have = PieceComplete(c, p)]
  /\ UNCHANGED <<cacheVars, memVars, fillVars, evictVars, diskVars, reader, th>>

-----------------------------------------------------------------------------
(* Teardown: Cache.Close, and dropTorrent's RemoveDisk, Close, DeleteCache *)

BeginClose(t, c) ==
  /\ "close" \in Ops /\ Idle(t) /\ c \in caches /\ c \notin closed
  /\ th' = [th EXCEPT ![t].pc = "close", ![t].op = "close", ![t].c = c]
  /\ UNCHANGED <<cacheVars, memVars, fillVars, evictVars, diskVars, clientVars, reader>>

\* RemoveDisk closes and deletes the files first; the bits stay in memory.
BeginDrop(t, c) ==
  /\ "drop" \in Ops /\ Idle(t) /\ c \in caches /\ lock[c] = None
  /\ diskOpen' = diskOpen \ {c}
  /\ th' = [th EXCEPT ![t].pc = "close", ![t].op = "drop", ![t].c = c]
  /\ UNCHANGED <<cacheVars, memVars, fillVars, evictVars, clientVars, have, reader>>

\* Close holds Cache.mu from here to CloseEnd; writers of a piece hold only MemPiece.mu.
CloseBegin(t) ==
  LET c == th[t].c IN
  /\ th[t].pc = "close" /\ lock[c] = None
  /\ closed' = closed \cup {c}
  /\ lock' = [lock EXCEPT ![c] = t]
  /\ Goto(t, "closing")
  /\ UNCHANGED <<memVars, fillVars, evictVars, diskVars, clientVars, caches, torrentSet, reader>>

CloseRelease(t, p) ==
  LET c == th[t].c
      o == pieces[c][p]
  IN /\ th[t].pc = "closing" /\ o # None
     /\ GotoN(t, "closing", th[t].n + obj[o].accounted)
     /\ obj' = [obj EXCEPT ![o] = Released(@)]
     /\ Wake(o)
     /\ pieces' = [pieces EXCEPT ![c][p] = None]
     /\ UNCHANGED <<cacheVars, fillVars, evictVars, diskVars, clientVars, reader>>

CloseEnd(t) ==
  LET c == th[t].c IN
  /\ th[t].pc = "closing" /\ \A p \in Idx : pieces[c][p] = None
  /\ filled' = [filled EXCEPT ![c] = 0]
  /\ lock' = [lock EXCEPT ![c] = None]
  /\ Goto(t, "closesub")
  /\ UNCHANGED <<memVars, evictVars, diskVars, clientVars, closed, caches, torrentSet, globalFilled, reader>>

CloseSub(t) ==
  /\ th[t].pc = "closesub"
  /\ globalFilled' = globalFilled - th[t].n
  /\ GotoN(t, "diskclose", 0)
  /\ UNCHANGED <<cacheVars, memVars, evictVars, diskVars, clientVars, filled, reader>>

DiskClose(t) ==
  /\ th[t].pc = "diskclose"
  /\ diskOpen' = diskOpen \ {th[t].c}
  /\ IF th[t].op = "drop" THEN Goto(t, "unreg") ELSE Finish(t)
  /\ UNCHANGED <<cacheVars, memVars, fillVars, evictVars, clientVars, have, reader>>

\* DeleteCache: its own Close finds an empty map; the cache leaves Storage.caches.
DeleteCache(t) ==
  /\ th[t].pc = "unreg" /\ lock[th[t].c] = None
  /\ caches' = caches \ {th[t].c}
  /\ Finish(t)
  /\ UNCHANGED <<memVars, fillVars, evictVars, diskVars, clientVars, closed, lock, torrentSet, reader>>

-----------------------------------------------------------------------------
(* storage.Reader *)

OpenReader(r, c) ==
  /\ "reader" \in Ops /\ Idle(r) /\ reader[r].state = "none" /\ c \in caches
  /\ lock[c] = None
  /\ reader' = [reader EXCEPT ![r] = [state |-> "open", c |-> c, pos |-> 0]]
  /\ torrentSet' = torrentSet \cup {c}
  /\ UNCHANGED <<memVars, fillVars, evictVars, diskVars, clientVars, closed, lock, caches, th>>

Seek(r, p) ==
  /\ Idle(r) /\ reader[r].state = "open" /\ p # reader[r].pos
  /\ reader' = [reader EXCEPT ![r].pos = p]
  /\ UNCHANGED <<cacheVars, memVars, fillVars, evictVars, diskVars, clientVars, th>>

\* Read of one block at the reader's position.
BeginStream(r, b) ==
  /\ Idle(r) /\ InDrift /\ reader[r].state = "open"
  /\ GetOrCreate(r, reader[r].c, reader[r].pos, "hydrate", "reader", b)
  /\ UNCHANGED <<cacheVars, fillVars, evictVars, diskVars, clientVars, reader, parkedOn>>

\* An evicted piece restarts the outer loop of Read.
Outer(r) ==
  /\ th[r].pc = "outer"
  /\ GetOrCreate(r, th[r].c, th[r].p, "hydrate", "reader", th[r].b)
  /\ UNCHANGED <<cacheVars, fillVars, evictVars, diskVars, clientVars, reader, parkedOn>>

\* Mutant: Read does not make the client look again at an incomplete piece.
AccessStreamSilent(r) ==
  /\ th[r].pc = "access" /\ th[r].op = "reader"
  /\ IF reader[r].state # "open" THEN Finish(r) ELSE Goto(r, "refetch")
  /\ UNCHANGED <<cacheVars, memVars, fillVars, evictVars, diskVars, clientVars, reader>>

\* After hydration: an incomplete piece makes the client look again, a closed reader returns.
AccessStream(r) ==
  LET c == th[r].c
      p == th[r].p
  IN /\ th[r].pc = "access" /\ th[r].op = "reader"
     /\ \/ IsComplete(obj[th[r].o]) /\ UNCHANGED client
        \/ /\ ~IsComplete(obj[th[r].o]) /\ lock[c] = None
           /\ client' = [client EXCEPT ![c][p].have = PieceComplete(c, p)]
     /\ IF reader[r].state # "open" THEN Finish(r) ELSE Goto(r, "refetch")
     /\ UNCHANGED <<cacheVars, memVars, fillVars, evictVars, diskVars, reader, updates>>

\* Mutant: the wait loop keeps the piece the outer loop fetched.
RefetchOnce(r) ==
  /\ th[r].pc = "refetch"
  /\ Goto(r, "waitrange")
  /\ UNCHANGED <<memVars, cacheVars, fillVars, evictVars, diskVars, clientVars, reader>>

\* The wait loop fetches the piece anew each time round ...
Refetch(r) ==
  /\ th[r].pc = "refetch"
  /\ GetOrCreate(r, th[r].c, th[r].p, "waitrange", "reader", th[r].b)
  /\ UNCHANGED <<cacheVars, fillVars, evictVars, diskVars, clientVars, reader, parkedOn>>

\* ... and checks the range and takes the notify channel under the piece's lock.
WaitRange(r) ==
  LET o == th[r].o IN
  /\ th[r].pc = "waitrange"
  /\ IF HasRange(obj[o], th[r].b)
     THEN Goto(r, "serve") /\ UNCHANGED parkedOn
     ELSE Goto(r, "parked") /\ parkedOn' = [parkedOn EXCEPT ![r] = o]
  /\ UNCHANGED <<cacheVars, fillVars, evictVars, diskVars, clientVars, obj, pieces, reader>>

\* The select returns: the notify or the done channel of the piece, or closeCh, is closed.
Awake(r) == parkedOn[r] = None \/ obj[th[r].o].done \/ reader[r].state # "open"

Unpark(r) ==
  /\ th[r].pc = "parked" /\ Awake(r)
  /\ parkedOn' = [parkedOn EXCEPT ![r] = None]
  /\ IF reader[r].state # "open" THEN Finish(r) ELSE Goto(r, "refetch")
  /\ UNCHANGED <<cacheVars, fillVars, evictVars, diskVars, clientVars, obj, pieces, reader>>

\* The wait budget, the caller's deadline or its context ends the read.
GiveUp(r) ==
  /\ th[r].pc = "parked"
  /\ parkedOn' = [parkedOn EXCEPT ![r] = None]
  /\ Finish(r)
  /\ UNCHANGED <<cacheVars, fillVars, evictVars, diskVars, clientVars, obj, pieces, reader>>

\* MemPiece.ReadAt: the bytes, and the position moves on past the last block; or
\* ErrPieceEvicted, and the outer loop starts over.
Serve(r) ==
  LET next == IF th[r].b = NumBlocks /\ th[r].p < LastPiece THEN th[r].p + 1 ELSE th[r].p
  IN /\ th[r].pc = "serve"
     /\ IF obj[th[r].o].data
        THEN /\ reader' = IF reader[r].state = "none" THEN reader
                          ELSE [reader EXCEPT ![r].pos = next]
             /\ Finish(r)
        ELSE Goto(r, "outer") /\ UNCHANGED reader
     /\ UNCHANGED <<cacheVars, memVars, fillVars, evictVars, diskVars, clientVars>>

\* Close from any goroutine: first the flag, then UnregisterReader.
CloseReader(r) ==
  /\ "closereader" \in Ops
  /\ reader[r].state = "open"
  /\ reader' = [reader EXCEPT ![r].state = "closing"]
  /\ UNCHANGED <<cacheVars, memVars, fillVars, evictVars, diskVars, clientVars, th>>

UnregisterReader(r) ==
  /\ reader[r].state = "closing" /\ lock[reader[r].c] = None
  /\ reader' = [reader EXCEPT ![r] = NoReader]
  /\ UNCHANGED <<cacheVars, memVars, fillVars, evictVars, diskVars, clientVars, th>>

-----------------------------------------------------------------------------

Init ==
  /\ obj = [o \in Obj |-> NewMemPiece]
  /\ pieces = [c \in Cache |-> [p \in Idx |-> None]]
  /\ filled = [c \in Cache |-> 0]
  /\ closed = {}
  /\ lock = [c \in Cache |-> None]
  /\ caches = {}
  /\ torrentSet = {}
  /\ globalFilled = 0
  /\ capacity \in Capacities
  /\ evictMu = None
  /\ have \in [Cache -> SUBSET Idx]   \* the bitmap of an earlier run
  /\ \A c \in Cache \ DiskCaches : have[c] = {}
  /\ diskOpen = {}
  /\ reader = [r \in Reader |-> NoReader]
  /\ parkedOn = [r \in Reader |-> None]
  /\ client = [c \in Cache |-> [p \in Idx |-> NewClient]]
  /\ updates = {}
  /\ th = [t \in Thread |-> IdleThread]

\* What a goroutine does once it has started an operation.
Step(t) ==
  \/ WriteAt(t) \/ UpdateFilled(t) \/ AddGlobalFilled(t)
  \/ Hydrate(t) \/ LoadComplete(t) \/ AccessRead(t) \/ AccessHash(t)
  \/ MarkGet(t) \/ MarkComplete(t) \/ Snapshot(t) \/ WritePiece(t) \/ HashReturn(t)
  \/ ClearDisk(t) \/ MarkNotComplete(t) \/ MarkNotCompleteSub(t)
  \/ EvictCheck(t) \/ EvictLock(t) \/ EvictDone(t) \/ EvictSub(t)
  \/ \E c \in Cache : Collect(t, c)
  \/ \E k \in th[t].cands : EvictPiece(t, k)
  \/ CloseBegin(t) \/ CloseEnd(t) \/ CloseSub(t) \/ DiskClose(t) \/ DeleteCache(t)
  \/ \E p \in Idx : CloseRelease(t, p)

ReaderStep(r) ==
  Outer(r) \/ AccessStream(r) \/ Refetch(r) \/ WaitRange(r) \/ Unpark(r) \/ Serve(r)

Begin(t) ==
  \/ \E c \in Cache, p \in Idx :
       BeginRead(t, c, p) \/ BeginHash(t, c, p) \/ \E b \in Block : BeginWrite(t, c, p, b)
  \/ \E n \in Capacities : SetGlobalCapacity(t, n)
  \/ \E c \in Cache : BeginClose(t, c) \/ BeginDrop(t, c)

Next ==
  \/ \E c \in Cache : OpenTorrent(c)
  \/ \E t \in Worker : Begin(t)
  \/ \E t \in Thread : Step(t)
  \/ \E c \in Cache, p \in Idx : UpdateCompletion(c, p)
  \/ \E r \in Reader :
       \/ ReaderStep(r) \/ GiveUp(r) \/ CloseReader(r) \/ UnregisterReader(r)
       \/ \E c \in Cache : OpenReader(r, c)
       \/ \E p \in Idx : Seek(r, p)
       \/ \E b \in Block : BeginStream(r, b)

Spec == Init /\ [][Next]_vars

\* A started goroutine keeps running, and Go's mutexes do not starve a waiter.  Nothing is
\* assumed of the client's calls, of timeouts or of the player.
Fairness ==
  /\ \A t \in Thread : WF_vars(Step(t)) /\ SF_vars(EvictLock(t))
  /\ \A r \in Reader : WF_vars(ReaderStep(r))

LiveSpec == Spec /\ Fairness
-----------------------------------------------------------------------------
(* Properties *)

\* The sum of w over S, as the number of its units.
Total(S, w) == Cardinality(UNION {{x} \X (1..w[x]) : x \in S})

\* Bytes resident for a piece of one cache.
Bytes(c, p) == IF pieces[c][p] = None THEN 0 ELSE obj[pieces[c][p]].accounted

\* Bytes a thread has put in a piece and not yet added to Cache.filled.
Unfilled(c, t) == IF th[t].pc = "fill" /\ th[t].c = c THEN th[t].n ELSE 0

\* Cache.filled of one cache is the bytes of its mapped pieces, less what writers have still to
\* add.
FilledExactIn(c) ==
  filled[c] = Total(Idx, [p \in Idx |-> Bytes(c, p)]) - Total(Thread, [t \in Thread |-> Unfilled(c, t)])

\* No interleaving of writes, hash failures and evictions makes Cache.filled drift from what is
\* resident (WriteAt/UpdateFilled against ReleaseAndSize).
FilledExact == \A c \in Cache : FilledExactIn(c)

\* At rest, the global accountant is the total of resident bytes over all caches
\* (Storage.globalFilled).
GlobalFilledExact ==
  (\A t \in Thread : th[t].pc = "idle") =>
    globalFilled = Total(Cache \X Idx, [x \in Cache \X Idx |-> Bytes(x[1], x[2])])

\* A torn-down cache stays empty: a late WriteAt, hydration or accounting call of a goroutine
\* that was already running when Close took the lock cannot put bytes or pieces back
\* (Cache.Close against GetOrCreateMemPiece and UpdateFilled).
NoResurrection ==
  \A c \in closed : lock[c] = None =>
    filled[c] = 0 /\ \A p \in Idx : pieces[c][p] = None

\* The reader is inside Read, past the point where it fetched its piece.
Reading(r) == th[r].op = "reader" /\ reader[r].state = "open"

\* A reader of a live cache that found its range ready is only ever given blocks that arrived
\* or were reloaded from disk, never the zeros of a fresh buffer (WaitRange and the `complete'
\* flag against WriteAt, ReleaseAndSize and LoadComplete).
ServedBytesReceived ==
  \A r \in Reader :
    th[r].pc = "serve" /\ th[r].c \notin closed /\ obj[th[r].o].data =>
      th[r].b \in obj[th[r].o].bytes

\* The piece under a live reader loses its buffer only to teardown or to a failed hash of
\* that very piece, never to the eviction pass, however stale the pass's candidate list is
\* (evictPiece re-validation against Reader.GetActiveWindow).
EvictionSparesReaders ==
  [][\A r \in Reader :
       Reading(r) /\ obj[th[r].o].data /\ ~obj'[th[r].o].data =>
         \/ th[r].c \in closed
         \/ \E t \in Thread : /\ th[t].pc = "release"
                              /\ th[t].c = th[r].c /\ th[t].p = th[r].p]_vars

\* Blocked in the select with neither of the piece's channels closed.
Asleep(r) == th[r].pc = "parked" /\ ~Awake(r)

\* No wakeup is lost: a reader asleep on a piece is waiting for a range that piece does not
\* have (MemPiece.WaitRange takes the channel under the lock of the check).
NoLostWakeup == \A r \in Reader : Asleep(r) => ~HasRange(obj[th[r].o], th[r].b)

\* The reader holds the piece the cache maps.
OnMapped(r) == pieces[th[r].c][th[r].p] = th[r].o

\* It waits on the notify channel of a piece that is not the one a live cache maps: whoever
\* downloads the piece anew will close another channel.
Stranded(r) ==
  parkedOn[r] # None /\ reader[r].state = "open" /\ th[r].c \notin closed /\ ~OnMapped(r)

\* About to wait on such a piece, or waiting on it already.
Astray(r) ==
  \/ Stranded(r)
  \/ th[r].pc = "waitrange" /\ Reading(r) /\ th[r].c \notin closed /\ ~OnMapped(r)

\* Nothing but a failed hash strands a reader, and only one way: MarkNotComplete takes the very
\* piece between the reader's refetch and its wait.  No eviction pass gets in between, every
\* round of the wait loop starts from the piece that is mapped then, and whatever drops a piece
\* wakes who sleeps on it already (Reader.Read against MarkNotComplete, evictPiece and the
\* download that follows).
StrandedOnlyByFailedHash ==
  [][\A r \in Reader :
       Astray(r)' =>
         \/ Astray(r)
         \/ /\ th[r].pc = "waitrange"
            /\ \E t \in Thread : /\ th[t].pc = "release"
                                 /\ th[t].c = th[r].c /\ th[t].p = th[r].p]_vars

\* A reader that is not stranded never sleeps on a piece the client believes complete, which
\* nobody would then download: the client is still fetching it, or is about to be told
\* (UpdateCompletion from Reader.Read and from evictPiece).
SleeperIsFetched ==
  \A r \in Reader : LET c == th[r].c
                        p == th[r].p
                    IN Asleep(r) /\ c \notin closed /\ OnMapped(r) =>
                         ~client[c][p].have \/ <<c, p>> \in updates

\* A piece persisted on disk is never downloaded again, whatever RAM eviction does: the
\* client keeps believing it complete (Cache.pieceComplete).
DiskPieceKept ==
  \A c \in caches \cap DiskCaches, p \in Idx :
    p \in have[c] => client[c][p].have \/ client[c][p].hashing

\* The block a reader waits for is in the piece the cache maps.
Available(r) ==
  LET o == pieces[th[r].c][th[r].p] IN o # None /\ HasRange(obj[o], th[r].b)

\* Data that is there and stays there reaches the reader that asked for it, unless a failed hash
\* has stranded it (WaitRange, wake and the refetch loop of Reader.Read).
AvailableIsServed ==
  \A r \in Reader :
    (Reading(r) /\ Available(r) /\ ~Stranded(r)) ~> (~Reading(r) \/ ~Available(r) \/ Stranded(r))

\* Every storage call returns: no thread waits for ever on Cache.mu or evictMu, or stays in
\* the eviction loop.
CallsReturn == \A t \in Worker : th[t].pc # "idle" ~> th[t].pc = "idle"
=============================================================================
