---------------------------- MODULE DiskBacking ----------------------------
(***************************************************************************)
(* The disk backing of one torrent (storage/disk.go) and how the cache     *)
(* attaches, uses and removes it (storage/storage.go, storage/cache.go):   *)
(* the .dat file, the bitmap sidecar and its temporary file, the bits in   *)
(* memory, and the threads that touch them.  The process may die between   *)
(* any two steps and finds the files as they are when it starts again.     *)
(*                                                                         *)
(* A dying process keeps what the kernel has taken; a power failure, which *)
(* may undo writes in any order because nothing calls fsync, is not        *)
(* modelled.  The bytes of a piece are verified before they are written,   *)
(* so writing a piece anew never changes good bytes.                       *)
(***************************************************************************)
EXTENDS Integers, FiniteSets

CONSTANTS
  Piece,
  Hasher,     \* goroutines of the torrent client that report a piece's hash
  Attacher,   \* request handlers that put the torrent into disk mode
  Teardown,   \* the goroutine of dropTorrent
  Backing,    \* pool of diskBacking objects; one is reused once nobody refers to it
  None

ASSUME DiskAssumption ==
  /\ None \notin Backing /\ None \notin Piece /\ \A S \in SUBSET Piece : None # S
  /\ None \notin Hasher \cup Attacher \cup {Teardown}
  /\ Hasher \cap Attacher = {} /\ Teardown \notin Hasher \cup Attacher

VARIABLES
  cache,      \* the torrent's Cache
  diskMode,   \* Storage.diskModes
  backing,    \* the diskBacking objects
  dat,        \* <hash>.dat: the pieces it holds whole, among zeros and half-written ones
  bitmap,     \* <hash>.bitmap
  tmp,        \* <hash>.bitmap.tmp
  th,         \* the threads
  kept,       \* history: pieces whose bit was saved and not cleared since
  dropped     \* history: the torrent was deleted at least once

vars == <<cache, diskMode, backing, dat, bitmap, tmp, th, kept, dropped>>
files == <<dat, bitmap, tmp>>
histVars == <<kept, dropped>>

Thread == Hasher \cup Attacher \cup {Teardown}

\* A cache before OpenTorrent (~open), live, and closed.
NoCache  == [open |-> FALSE, closed |-> FALSE, disk |-> None]
Unused   == [open |-> FALSE, have |-> {}, mu |-> None]
Idle     == [pc |-> "idle", p |-> None, b |-> None, old |-> FALSE]

Steps == {"idle", "persist", "write", "clear", "save", "fill", "rename",
          "create", "load", "set", "remove", "unlink", "unlink2", "close", "drop"}
ThreadRec  == [pc : Steps, p : Piece \cup {None}, b : Backing \cup {None},
               old : BOOLEAN]     \* the cache it works for has been dropped
BackingRec == [open : BOOLEAN, have : SUBSET Piece, mu : Thread \cup {None}]

TypeOK ==
  /\ cache \in [open : BOOLEAN, closed : BOOLEAN, disk : Backing \cup {None}]
  /\ diskMode \in BOOLEAN
  /\ backing \in [Backing -> BackingRec]
  /\ \A f \in {dat, bitmap, tmp} : f = None \/ f \subseteq Piece
  /\ th \in [Thread -> ThreadRec]
  /\ kept \subseteq Piece
  /\ dropped \in BOOLEAN

Goto(t, pc)  == th' = [th EXCEPT ![t].pc = pc]
Return(t)    == th' = [th EXCEPT ![t] = Idle]
Free(t)      == backing[th[t].b].mu = None
Unlocked(bk, t) == [bk EXCEPT ![th[t].b].mu = None]

-----------------------------------------------------------------------------
(* newDiskBacking, OpenTorrent and attachDisk *)

InUse == {cache.disk} \cup {th[t].b : t \in Thread}

\* What loadBitmap makes of the sidecar: a missing one leaves every bit unset.
Bits == IF bitmap = None THEN {} ELSE bitmap

\* In disk mode OpenTorrent opens a backing of its own, under the storage lock; when that fails,
\* as in stream mode, the cache has none.
OpenTorrent ==
  /\ ~cache.open
  /\ \/ /\ cache' = [NoCache EXCEPT !.open = TRUE]
        /\ UNCHANGED <<backing, dat>>
     \/ /\ diskMode
        /\ \E b \in Backing \ InUse :
             /\ cache' = [NoCache EXCEPT !.open = TRUE, !.disk = b]
             /\ backing' = [backing EXCEPT ![b] = [Unused EXCEPT !.open = TRUE, !.have = Bits]]
        /\ dat' = IF dat = None THEN {} ELSE dat
  /\ UNCHANGED <<diskMode, bitmap, tmp, th, histVars>>

\* SetMode and the first half of attachDisk: nothing to attach for stream mode or for a torrent
\* without a cache, with a backing, or closed.
SetMode(a, disk) ==
  /\ th[a] = Idle
  /\ diskMode' = disk
  /\ IF disk /\ cache.open /\ ~cache.closed /\ cache.disk = None
     THEN Goto(a, "create") ELSE UNCHANGED th
  /\ UNCHANGED <<cache, backing, files, histVars>>

\* The data file is created if it is not there and given its full length.
Create(a) ==
  \E b \in Backing \ InUse :
    /\ th[a].pc = "create"
    /\ dat' = IF dat = None THEN {} ELSE dat
    /\ backing' = [backing EXCEPT ![b] = [Unused EXCEPT !.open = TRUE]]
    /\ th' = [th EXCEPT ![a].pc = "load", ![a].b = b]
    /\ UNCHANGED <<cache, diskMode, bitmap, tmp, histVars>>

CreateFails(a) ==
  /\ th[a].pc = "create"
  /\ Return(a)
  /\ UNCHANGED <<cache, diskMode, backing, files, histVars>>

LoadBitmap(a) ==
  /\ th[a].pc = "load"
  /\ backing' = [backing EXCEPT ![th[a].b].have = Bits]
  /\ Goto(a, "set")
  /\ UNCHANGED <<cache, diskMode, files, histVars>>

\* Mutant: the loser of the race keeps its file open.
SetDiskLeaks(a) ==
  /\ th[a].pc = "set"
  /\ cache' = IF cache.disk = None /\ ~cache.closed /\ ~th[a].old
              THEN [cache EXCEPT !.disk = th[a].b] ELSE cache
  /\ Return(a)
  /\ UNCHANGED <<backing, diskMode, files, histVars>>

\* The second half of attachDisk: the one that finds no backing and a live cache wins, the
\* others close theirs.
SetDisk(a) ==
  /\ th[a].pc = "set"
  /\ IF cache.disk = None /\ ~cache.closed /\ ~th[a].old
     THEN cache' = [cache EXCEPT !.disk = th[a].b] /\ UNCHANGED backing
     ELSE backing' = [backing EXCEPT ![th[a].b].open = FALSE] /\ UNCHANGED cache
  /\ Return(a)
  /\ UNCHANGED <<diskMode, files, histVars>>

-----------------------------------------------------------------------------
(* Piece.MarkComplete and MarkNotComplete; the client has one hash of a piece under way *)

Hashed(h, p, pc) ==
  /\ th[h] = Idle
  /\ cache.open
  /\ \A g \in Hasher : th[g].p # p
  /\ cache.disk # None      \* otherwise the torrent is, as yet, in stream mode
  /\ th' = [th EXCEPT ![h] = [Idle EXCEPT !.pc = pc, !.p = p, !.b = cache.disk]]
  /\ UNCHANGED <<cache, diskMode, backing, files, histVars>>

\* persistIfDisk: what is on disk already is not written again.
MarkComplete(h, p) ==
  /\ cache.disk # None => p \notin backing[cache.disk].have
  /\ Hashed(h, p, "persist")

MarkNotComplete(h, p) == Hashed(h, p, "clear")

\* Mutant: the bit is set, and the bitmap saved, before the bytes are there.
WritePieceBitFirst(h) ==
  /\ th[h].pc = "persist" /\ Free(h)
  /\ IF backing[th[h].b].open
     THEN /\ backing' = [backing EXCEPT ![th[h].b].mu = h, ![th[h].b].have = @ \cup {th[h].p}]
          /\ Goto(h, "write")
     ELSE Return(h) /\ UNCHANGED backing
  /\ UNCHANGED <<cache, diskMode, files, histVars>>

\* WritePiece takes the lock and begins to write; a closed file refuses.
WritePiece(h) ==
  /\ th[h].pc = "persist" /\ Free(h)
  /\ IF backing[th[h].b].open
     THEN backing' = [backing EXCEPT ![th[h].b].mu = h] /\ Goto(h, "write")
     ELSE Return(h) /\ UNCHANGED backing
  /\ UNCHANGED <<cache, diskMode, files, histVars>>

\* The bytes are written and the bit is set ...
Written(h) ==
  /\ th[h].pc = "write"
  /\ dat' = dat \cup {th[h].p}
  /\ backing' = [backing EXCEPT ![th[h].b].have = @ \cup {th[h].p}]
  /\ Goto(h, "save")
  /\ UNCHANGED <<cache, diskMode, bitmap, tmp, histVars>>

\* ... or the disk is full and the piece stays out of the bitmap.
WriteFails(h) ==
  /\ th[h].pc = "write"
  /\ backing' = Unlocked(backing, h)
  /\ Return(h)
  /\ UNCHANGED <<cache, diskMode, files, histVars>>

\* Clear drops a bit that is set, on a closed backing too.
Clear(h) ==
  /\ th[h].pc = "clear" /\ Free(h)
  /\ IF th[h].p \in backing[th[h].b].have
     THEN /\ backing' = [backing EXCEPT ![th[h].b].have = @ \ {th[h].p}, ![th[h].b].mu = h]
          /\ kept' = kept \ {th[h].p}
          /\ Goto(h, "save")
     ELSE Return(h) /\ UNCHANGED <<backing, kept>>
  /\ UNCHANGED <<cache, diskMode, files, dropped>>

\* Mutant: the bitmap itself is truncated and written.
OpenTmpInPlace(h) ==
  /\ th[h].pc = "save"
  /\ tmp' = {}
  /\ bitmap' = {}
  /\ Goto(h, "fill")
  /\ UNCHANGED <<cache, diskMode, backing, dat, histVars>>

\* saveBitmapLocked: os.WriteFile truncates the temporary file, writes it ...
OpenTmp(h) ==
  /\ th[h].pc = "save"
  /\ tmp' = {}
  /\ Goto(h, "fill")
  /\ UNCHANGED <<cache, diskMode, backing, dat, bitmap, histVars>>

FillTmp(h) ==
  /\ th[h].pc = "fill"
  /\ tmp' = backing[th[h].b].have
  /\ Goto(h, "rename")
  /\ UNCHANGED <<cache, diskMode, backing, dat, bitmap, histVars>>

\* ... or fails, and the old bitmap stays.
FillFails(h) ==
  /\ th[h].pc = "fill"
  /\ backing' = Unlocked(backing, h)
  /\ Return(h)
  /\ UNCHANGED <<cache, diskMode, files, histVars>>

\* The rename replaces the bitmap as a whole.
Rename(h) ==
  /\ th[h].pc = "rename"
  /\ bitmap' = IF tmp = None THEN bitmap ELSE tmp
  /\ tmp' = None
  /\ kept' = kept \cup backing[th[h].b].have
  /\ backing' = Unlocked(backing, h)
  /\ Return(h)
  /\ UNCHANGED <<cache, diskMode, dat, dropped>>

-----------------------------------------------------------------------------
(* The goroutine of dropTorrent: RemoveDisk, Close, DeleteCache and Drop *)

DropTorrent ==
  /\ th[Teardown] = Idle /\ cache.open
  /\ th' = [th EXCEPT ![Teardown].pc = IF cache.disk = None THEN "close" ELSE "remove",
                      ![Teardown].b = cache.disk]
  /\ dropped' = TRUE
  /\ UNCHANGED <<cache, diskMode, backing, files, kept>>

\* Remove takes the backing's lock and closes the data file ...
Remove ==
  /\ th[Teardown].pc = "remove" /\ Free(Teardown)
  /\ backing' = [backing EXCEPT ![th[Teardown].b].open = FALSE, ![th[Teardown].b].mu = Teardown]
  /\ Goto(Teardown, "unlink")
  /\ UNCHANGED <<cache, diskMode, files, histVars>>

\* ... deletes it, and then the bitmap.
UnlinkData ==
  /\ th[Teardown].pc = "unlink"
  /\ dat' = None
  /\ Goto(Teardown, "unlink2")
  /\ UNCHANGED <<cache, diskMode, backing, bitmap, tmp, histVars>>

UnlinkBitmap ==
  /\ th[Teardown].pc = "unlink2"
  /\ bitmap' = None
  /\ backing' = Unlocked(backing, Teardown)
  /\ Goto(Teardown, "close")
  /\ UNCHANGED <<cache, diskMode, dat, tmp, histVars>>

\* Cache.Close marks the cache closed, and closes the backing it has by then.
Close ==
  /\ th[Teardown].pc = "close"
  /\ cache.disk # None => backing[cache.disk].mu = None
  /\ cache' = [cache EXCEPT !.closed = TRUE]
  /\ backing' = IF cache.disk = None THEN backing
                ELSE [backing EXCEPT ![cache.disk].open = FALSE]
  /\ Goto(Teardown, "drop")
  /\ UNCHANGED <<diskMode, files, histVars>>

\* DeleteCache and Drop: the client knows the torrent no more.
Drop ==
  /\ th[Teardown].pc = "drop"
  /\ cache' = NoCache
  /\ th' = [t \in Thread |-> IF t = Teardown THEN Idle
                            ELSE [th[t] EXCEPT !.old = th[t].pc # "idle"]]
  /\ UNCHANGED <<diskMode, backing, files, histVars>>

-----------------------------------------------------------------------------

\* The process dies and starts again: the modes are in memory only, until SetMode is called for
\* the torrents the catalog lists.
Crash ==
  /\ cache' = NoCache
  /\ diskMode' = FALSE
  /\ backing' = [b \in Backing |-> Unused]
  /\ th' = [t \in Thread |-> Idle]
  /\ UNCHANGED <<files, histVars>>

Init ==
  /\ cache = NoCache
  /\ diskMode = FALSE
  /\ backing = [b \in Backing |-> Unused]
  /\ dat = None /\ bitmap = None /\ tmp = None
  /\ th = [t \in Thread |-> Idle]
  /\ kept = {}
  /\ dropped = FALSE

Next ==
  \/ OpenTorrent \/ Crash
  \/ \E a \in Attacher : \/ \E disk \in BOOLEAN : SetMode(a, disk)
                         \/ Create(a) \/ CreateFails(a) \/ LoadBitmap(a) \/ SetDisk(a)
  \/ \E h \in Hasher :
       \/ \E p \in Piece : MarkComplete(h, p) \/ MarkNotComplete(h, p)
       \/ WritePiece(h) \/ Written(h) \/ WriteFails(h) \/ Clear(h)
       \/ OpenTmp(h) \/ FillTmp(h) \/ FillFails(h) \/ Rename(h)
  \/ DropTorrent \/ Remove \/ UnlinkData \/ UnlinkBitmap \/ Close \/ Drop

Spec == Init /\ [][Next]_vars

-----------------------------------------------------------------------------
(* Properties *)

\* The pieces a backing calls present are in the file, whole and verified.
GoodBits(b) == backing[b].have # {} => dat # None /\ backing[b].have \subseteq dat

\* "A set bit means good data": who reads through the cache's backing, while nobody is changing
\* it, finds the whole verified piece behind every set bit, after any crash and any failed write
\* (ReadPiece against WritePiece, Remove and loadBitmap).
SetBitIsGood ==
  \A b \in Backing : b = cache.disk /\ backing[b].open /\ backing[b].mu = None => GoodBits(b)

\* Until the torrent is deleted for the first time, the same of every open backing, the loser's
\* of an attach race too (WritePiece, newDiskBacking).
BitIsGoodUntilDrop ==
  ~dropped => \A b \in Backing : backing[b].open /\ backing[b].mu = None => GoodBits(b)

\* A piece whose bit was saved is in the bitmap that the next run loads, whatever else is being
\* written, attached or dying, until its hash fails or the torrent is deleted: it is never
\* downloaded again (saveBitmapLocked, and attachDisk, whose loser has read an older bitmap).
KeptIsOnDisk == ~dropped => kept \subseteq Bits

\* Once nothing is attaching, writing or dropping, the only open data file is that of the cache's
\* own backing: a lost attach race and a close in the middle of one leak no handle.
NoHandleLeaks ==
  (\A t \in Thread : th[t].pc = "idle") =>
    {b \in Backing : backing[b].open} = IF cache.open THEN {cache.disk} \ {None} ELSE {}
=============================================================================
