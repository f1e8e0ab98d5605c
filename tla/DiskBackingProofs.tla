------------------------- MODULE DiskBackingProofs -------------------------
(***************************************************************************)
(* What DiskBacking promises of the files and the handles, for any number  *)
(* of pieces, goroutines and backings, and any number of crashes.          *)
(***************************************************************************)
EXTENDS DiskBacking, TLAPS

Holding  == {"write", "save", "fill", "rename", "unlink", "unlink2"}
HasherPc == {"persist", "write", "clear", "save", "fill", "rename"}
RemovePc == {"remove", "unlink", "unlink2"}

\* Where each thread can be, and with which backing.
ThreadsOK ==
  /\ \A h \in Hasher : \/ th[h] = Idle
                       \/ th[h].pc \in HasherPc /\ th[h].p \in Piece /\ th[h].b \in Backing
  /\ \A a \in Attacher : \/ th[a] = Idle
                         \/ th[a].pc = "create" /\ th[a].b = None
                         \/ th[a].pc \in {"load", "set"} /\ th[a].b \in Backing
  /\ \/ th[Teardown] = Idle
     \/ th[Teardown].pc \in {"close", "drop"} \cup RemovePc /\ cache.open
  /\ th[Teardown].pc \in RemovePc => th[Teardown].b = cache.disk /\ cache.disk # None
  /\ cache.closed <=> th[Teardown].pc = "drop"
  /\ ~cache.open => cache.disk = None

\* Whoever is still at work when there is no cache works for one that is gone.
StragglersOK == ~cache.open => \A t \in Thread : th[t].pc = "idle" \/ th[t].old

\* An attacher has its backing to itself until the cache takes it.
PrivateOK ==
  \A a \in Attacher : th[a].b # None =>
    /\ th[a].b # cache.disk
    /\ backing[th[a].b].open
    /\ \A t \in Thread \ {a} : th[t].b # th[a].b

\* A backing's lock is held by whoever is changing it or its files.
HoldersLock ==
  \A t \in Thread : th[t].pc \in Holding => th[t].b \in Backing /\ backing[th[t].b].mu = t

LocksHeld ==
  \A b \in Backing : backing[b].mu # None =>
    th[backing[b].mu].b = b /\ th[backing[b].mu].pc \in Holding

LocksOK == HoldersLock /\ LocksHeld

\* What is open is the cache's or an attacher's, and is written only while it is the cache's.
OpenIsOwned ==
  \A b \in Backing : backing[b].open =>
    \/ b = cache.disk /\ th[Teardown].pc \notin {"unlink", "unlink2", "drop"}
    \/ \E a \in Attacher : th[a].b = b

UsedIsOpen ==
  /\ th[Teardown].pc = "idle" /\ cache.disk # None => backing[cache.disk].open
  /\ \A h \in Hasher : th[h].pc = "write" => backing[th[h].b].open
  /\ cache.disk # None /\ backing[cache.disk].open => dat # None
  /\ cache.disk = None /\ ~cache.closed =>
       \A a \in Attacher : th[a].b # None /\ ~th[a].old => dat # None

HandlesOK == OpenIsOwned /\ UsedIsOpen

\* Until the torrent is deleted the files only gain, and every backing in use agrees with them.
IntactThreads ==
  /\ th[Teardown] = Idle
  /\ \A t \in Thread : ~th[t].old
  /\ \A h \in Hasher : th[h] # Idle => th[h].b = cache.disk

IntactFiles ==
  /\ \A h \in Hasher : th[h].pc = "rename" => tmp = backing[th[h].b].have
  /\ \A b \in Backing : backing[b].open => dat # None /\ backing[b].have \subseteq dat
  /\ bitmap # None => dat # None /\ bitmap \subseteq dat

IntactKept ==
  /\ kept \subseteq Bits
  /\ cache.disk # None => kept \subseteq backing[cache.disk].have
  /\ cache.disk = None =>
       \A a \in Attacher : th[a].pc = "set" => kept \subseteq backing[th[a].b].have

Intact == IntactThreads /\ IntactFiles /\ IntactKept

DiskInv ==
  /\ TypeOK /\ ThreadsOK /\ StragglersOK
  /\ PrivateOK /\ LocksOK /\ HandlesOK
  /\ (~dropped => Intact)

-----------------------------------------------------------------------------
(* What an action does to the threads and to the backings. *)

Typed == th' \in [Thread -> ThreadRec] /\ backing' \in [Backing -> BackingRec]

OthersStay(t) == \A u \in Thread \ {t} : th'[u] = th[u]

Moved(t, pc, p, b) ==
  /\ th'[t].pc = pc /\ th'[t].p = p /\ th'[t].b = b /\ th'[t].old = th[t].old
  /\ OthersStay(t)

Rested(t) == th'[t] = Idle /\ OthersStay(t)

Changed(b, open, have, mu) ==
  /\ backing'[b].open = open /\ backing'[b].have = have /\ backing'[b].mu = mu
  /\ \A c \in Backing \ {b} : backing'[c] = backing[c]

InRange ==
  /\ cache.disk \in Backing \cup {None}
  /\ \A t \in Thread : th[t].b \in Backing \cup {None}
  /\ \A b \in Backing : backing[b].mu \in Thread \cup {None}

LEMMA Ranges ==
  ASSUME TypeOK
  PROVE  InRange
  BY DEF InRange, TypeOK, ThreadRec, BackingRec

LEMMA UnusedIdle == Unused \in BackingRec /\ Idle \in ThreadRec
  BY DEF Unused, BackingRec, Idle, ThreadRec, Steps

LEMMA GotoMoves ==
  ASSUME TypeOK, NEW t \in Thread, NEW pc \in Steps, Goto(t, pc)
  PROVE  th' \in [Thread -> ThreadRec] /\ Moved(t, pc, th[t].p, th[t].b)
  BY DEF TypeOK, ThreadRec, Goto, Moved, OthersStay

LEMMA ReturnRests ==
  ASSUME TypeOK, NEW t \in Thread, Return(t)
  PROVE  th' \in [Thread -> ThreadRec] /\ Rested(t)
  BY DEF TypeOK, ThreadRec, Steps, Return, Rested, OthersStay, Idle

LEMMA CloseChanges ==
  ASSUME TypeOK, NEW b \in Backing, backing' = [backing EXCEPT ![b].open = FALSE]
  PROVE  /\ backing' \in [Backing -> BackingRec]
         /\ Changed(b, FALSE, backing[b].have, backing[b].mu)
  BY DEF TypeOK, BackingRec, Changed

LEMMA RemoveChanges ==
  ASSUME TypeOK, NEW b \in Backing, NEW t \in Thread,
         backing' = [backing EXCEPT ![b].open = FALSE, ![b].mu = t]
  PROVE  /\ backing' \in [Backing -> BackingRec]
         /\ Changed(b, FALSE, backing[b].have, t)
  BY DEF TypeOK, BackingRec, Changed

LEMMA DropTorrentMoves ==
  ASSUME TypeOK, DropTorrent, NEW pc \in Steps,
         pc = IF cache.disk = None THEN "close" ELSE "remove"
  PROVE  th' \in [Thread -> ThreadRec] /\ Moved(Teardown, pc, None, cache.disk)
  <1>1. th' = [th EXCEPT ![Teardown].pc = pc, ![Teardown].b = cache.disk]
    BY DEF DropTorrent
  <1>2. Teardown \in Thread /\ th[Teardown] = Idle /\ cache.disk \in Backing \cup {None}
    BY Ranges DEF InRange, Thread, DropTorrent
  <1>3. th[Teardown].pc = "idle" /\ th[Teardown].p = None /\ th[Teardown].b = None
    BY <1>2 DEF Idle
  <1>4. th \in [Thread -> ThreadRec]
    BY DEF TypeOK
  <1>5. [th[Teardown] EXCEPT !.pc = pc, !.b = cache.disk] \in ThreadRec
    BY <1>2, <1>4 DEF ThreadRec
  <1>6. th' = [th EXCEPT ![Teardown] = [th[Teardown] EXCEPT !.pc = pc, !.b = cache.disk]]
    BY <1>1, <1>2, <1>4
  <1>7. th' \in [Thread -> ThreadRec]
    BY <1>2, <1>4, <1>5, <1>6
  <1> QED
    BY <1>2, <1>3, <1>4, <1>6, <1>7 DEF ThreadRec, Moved, OthersStay

\* Create with the backing it takes.
CreateWith(a, b) ==
  /\ th[a].pc = "create"
  /\ dat' = IF dat = None THEN {} ELSE dat
  /\ backing' = [backing EXCEPT ![b] = [Unused EXCEPT !.open = TRUE]]
  /\ th' = [th EXCEPT ![a].pc = "load", ![a].b = b]
  /\ UNCHANGED <<cache, diskMode, bitmap, tmp, histVars>>

LEMMA CreateMoves ==
  ASSUME TypeOK, NEW a \in Thread, NEW b \in Backing, CreateWith(a, b)
  PROVE  /\ th' \in [Thread -> ThreadRec] /\ backing' \in [Backing -> BackingRec]
         /\ Moved(a, "load", th[a].p, b) /\ Changed(b, TRUE, {}, None)
         /\ th[a].pc = "create" /\ UNCHANGED <<cache, diskMode, bitmap, tmp, histVars>>
         /\ dat' = (IF dat = None THEN {} ELSE dat)
  <1>1. th' \in [Thread -> ThreadRec] /\ Moved(a, "load", th[a].p, b)
    BY DEF TypeOK, ThreadRec, Steps, Moved, OthersStay, CreateWith
  <1>2. backing' \in [Backing -> BackingRec] /\ Changed(b, TRUE, {}, None)
    BY DEF TypeOK, BackingRec, Changed, Unused, CreateWith
  <1> QED
    BY <1>1, <1>2 DEF CreateWith

LEMMA HashedMoves ==
  ASSUME TypeOK, NEW h \in Thread, NEW p \in Piece, NEW pc \in {"persist", "clear"}, Hashed(h, p, pc)
  PROVE  th' \in [Thread -> ThreadRec] /\ Moved(h, pc, p, cache.disk)
  <1>1. cache.disk \in Backing \cup {None} /\ pc \in Steps /\ th[h] = Idle
    BY Ranges DEF InRange, Steps, Hashed
  <1> DEFINE r == [Idle EXCEPT !.pc = pc, !.p = p, !.b = cache.disk]
  <1>2. th' = [th EXCEPT ![h] = r]
    BY DEF Hashed
  <1>3. r.pc = pc /\ r.p = p /\ r.b = cache.disk /\ r.old = FALSE
    BY DEF Idle
  <1>4. r \in ThreadRec
    BY <1>1, UnusedIdle DEF ThreadRec
  <1>5. th[h].old = FALSE
    BY <1>1 DEF Idle
  <1> QED
    <2> HIDE DEF r
    <2> QED
      BY <1>2, <1>3, <1>4, <1>5 DEF TypeOK, Moved, OthersStay

LEMMA OpenTorrentOpens ==
  ASSUME TypeOK, OpenTorrent
  PROVE  /\ Typed
         /\ ~cache.open /\ UNCHANGED <<diskMode, bitmap, tmp, th, histVars>>
         /\ \/ /\ cache' = [open |-> TRUE, closed |-> FALSE, disk |-> None]
               /\ UNCHANGED <<backing, dat>>
            \/ \E b \in Backing :
                 /\ \A t \in Thread : th[t].b # b
                 /\ cache' = [open |-> TRUE, closed |-> FALSE, disk |-> b]
                 /\ Changed(b, TRUE, Bits, None)
                 /\ dat' = (IF dat = None THEN {} ELSE dat)
  <1>1. ~cache.open /\ UNCHANGED <<diskMode, bitmap, tmp, th, histVars>>
    BY DEF OpenTorrent
  <1>2. CASE cache' = [NoCache EXCEPT !.open = TRUE] /\ UNCHANGED <<backing, dat>>
    BY <1>1, <1>2 DEF NoCache, TypeOK, Typed
  <1>3. ASSUME NEW b \in Backing \ InUse,
               cache' = [NoCache EXCEPT !.open = TRUE, !.disk = b],
               backing' = [backing EXCEPT ![b] = [Unused EXCEPT !.open = TRUE, !.have = Bits]],
               dat' = IF dat = None THEN {} ELSE dat
        PROVE  /\ Typed
               /\ \A t \in Thread : th[t].b # b
               /\ cache' = [open |-> TRUE, closed |-> FALSE, disk |-> b]
               /\ Changed(b, TRUE, Bits, None)
    <2>1. \A t \in Thread : th[t].b # b
      BY DEF InUse
    <2> DEFINE r == [Unused EXCEPT !.open = TRUE, !.have = Bits]
    <2>2. r.open = TRUE /\ r.have = Bits /\ r.mu = None
      BY DEF Unused
    <2>3. Bits \in SUBSET Piece
      BY DEF Bits, TypeOK
    <2>4. r \in BackingRec
      BY <2>3, UnusedIdle DEF BackingRec
    <2>5. backing' \in [Backing -> BackingRec] /\ Changed(b, TRUE, Bits, None)
      <3>1. backing' = [backing EXCEPT ![b] = r]
        BY <1>3
      <3> HIDE DEF r
      <3> QED
        BY <3>1, <2>2, <2>4 DEF TypeOK, Changed
    <2>6. th' \in [Thread -> ThreadRec]
      BY <1>1 DEF TypeOK
    <2> QED
      BY <1>3, <2>1, <2>5, <2>6 DEF Typed, NoCache
  <1>4. \/ cache' = [NoCache EXCEPT !.open = TRUE] /\ UNCHANGED <<backing, dat>>
        \/ \E b \in Backing \ InUse :
             /\ cache' = [NoCache EXCEPT !.open = TRUE, !.disk = b]
             /\ backing' = [backing EXCEPT ![b] = [Unused EXCEPT !.open = TRUE, !.have = Bits]]
             /\ dat' = IF dat = None THEN {} ELSE dat
    BY DEF OpenTorrent
  <1> QED
    BY <1>1, <1>2, <1>3, <1>4 DEF NoCache

LEMMA DropMoves ==
  ASSUME TypeOK, Drop
  PROVE  /\ Typed
         /\ UNCHANGED <<diskMode, backing, files, histVars>>
         /\ cache' = [open |-> FALSE, closed |-> FALSE, disk |-> None]
         /\ th[Teardown].pc = "drop" /\ th'[Teardown] = Idle
         /\ \A t \in Thread \ {Teardown} :
              /\ th'[t].pc = th[t].pc /\ th'[t].p = th[t].p /\ th'[t].b = th[t].b
              /\ th'[t].old = (th[t].pc # "idle")
         /\ \A t \in Thread : th[t] = Idle => th'[t] = Idle
  <1>1. Idle \in ThreadRec
    BY DEF Idle, ThreadRec, Steps
  <1>2. th \in [Thread -> ThreadRec] /\ Teardown \in Thread
    BY DEF TypeOK, Thread
  <1>3. \A t \in Thread : [th[t] EXCEPT !.old = th[t].pc # "idle"] \in ThreadRec
    BY <1>2 DEF ThreadRec
  <1>4. th' = [t \in Thread |-> IF t = Teardown THEN Idle
                               ELSE [th[t] EXCEPT !.old = th[t].pc # "idle"]]
    BY DEF Drop
  <1>5. th' \in [Thread -> ThreadRec] /\ th'[Teardown] = Idle
    BY <1>1, <1>2, <1>3, <1>4
  <1>6. \A t \in Thread \ {Teardown} : th'[t] = [th[t] EXCEPT !.old = th[t].pc # "idle"]
    BY <1>4
  <1>7. ASSUME NEW t \in Thread, th[t] = Idle PROVE th'[t] = Idle
    <2>1. th[t].pc = "idle" /\ th[t].old = FALSE
      BY <1>7 DEF Idle
    <2>2. [th[t] EXCEPT !.old = FALSE] = th[t]
      BY <1>2, <2>1 DEF ThreadRec
    <2> QED
      BY <1>5, <1>6, <1>7, <2>1, <2>2
  <1> QED
    BY <1>2, <1>5, <1>6, <1>7 DEF TypeOK, ThreadRec, Typed, Drop, NoCache

LEMMA CrashClears ==
  ASSUME TypeOK, Crash
  PROVE  /\ Typed
         /\ UNCHANGED <<files, histVars>> /\ diskMode' = FALSE
         /\ cache' = [open |-> FALSE, closed |-> FALSE, disk |-> None]
         /\ \A t \in Thread : th'[t] = Idle
         /\ \A b \in Backing : backing'[b] = Unused
  BY UnusedIdle DEF Crash, NoCache, Typed

LEMMA UnlockChanges ==
  ASSUME TypeOK, NEW t \in Thread, th[t].b \in Backing, backing' = Unlocked(backing, t)
  PROVE  /\ backing' \in [Backing -> BackingRec]
         /\ Changed(th[t].b, backing[th[t].b].open, backing[th[t].b].have, None)
  BY DEF TypeOK, BackingRec, Unlocked, Changed

-----------------------------------------------------------------------------

LEMMA WrittenKeeps ==
  ASSUME DiskInv, NEW h \in Hasher, Written(h)
  PROVE  DiskInv'
  <1> USE DiskAssumption DEF DiskInv, Thread
  <1>r. InRange
    BY Ranges
  <1>h. h \in Thread /\ th[h].b \in Backing /\ th[h].p \in Piece
    BY DEF ThreadsOK, Idle, Written
  <1>1. /\ Typed
        /\ Moved(h, "save", th[h].p, th[h].b)
        /\ Changed(th[h].b, backing[th[h].b].open, backing[th[h].b].have \cup {th[h].p}, backing[th[h].b].mu)
    BY <1>h, GotoMoves DEF Steps, TypeOK, Typed, Changed, BackingRec, Written
  <1>2. TypeOK'
    BY <1>h, <1>1 DEF TypeOK, Typed, HandlesOK, PrivateOK, BackingRec, Written, histVars,
       OpenIsOwned, UsedIsOpen
  <1>3. StragglersOK'
    BY <1>h, <1>1, <1>r DEF StragglersOK, ThreadsOK, TypeOK, Typed, Moved, OthersStay, Idle,
       Written, histVars
  <1>4. ThreadsOK'
    BY <1>h, <1>1, <1>r DEF ThreadsOK, InRange, StragglersOK, TypeOK, Typed, Moved, OthersStay,
       Changed, Idle, Written, histVars, HasherPc, RemovePc
  <1>5. PrivateOK'
    BY <1>h, <1>1, <1>r DEF PrivateOK, InRange, ThreadsOK, TypeOK, Typed, Moved, OthersStay,
       Changed, Idle, Written, histVars, HasherPc, RemovePc
  <1>6. LocksOK'
    <2>1. \A t \in Thread : t # h => th'[t] = th[t]
      BY <1>1 DEF Moved, OthersStay
    <2>2. \A b \in Backing : backing'[b].mu = backing[b].mu
      BY <1>1 DEF Changed
    <2>3. /\ th[h].pc = "write" /\ th'[h].pc = "save" /\ th'[h].b = th[h].b
      BY <1>1 DEF Moved, Written
    <2>4. \A t \in Thread : th'[t].b = th[t].b /\ (th'[t].pc \in Holding <=> th[t].pc \in Holding)
      BY <2>1, <2>3 DEF Holding
    <2> QED
      BY <2>2, <2>4, <1>r DEF LocksOK, InRange, HoldersLock, LocksHeld
  <1>7. HandlesOK'
    <2>1. OpenIsOwned'
      BY <1>h, <1>1, <1>r DEF HandlesOK, InRange, ThreadsOK, PrivateOK, LocksOK, TypeOK, Typed,
         Moved, OthersStay, Changed, Idle, Written, histVars, Holding, HasherPc, RemovePc,
         OpenIsOwned, UsedIsOpen, HoldersLock, LocksHeld
    <2>2. UsedIsOpen'
      BY <1>h, <1>1, <1>r DEF HandlesOK, InRange, ThreadsOK, PrivateOK, LocksOK, TypeOK, Typed,
         Moved, OthersStay, Changed, Idle, Written, histVars, Holding, HasherPc, RemovePc,
         OpenIsOwned, UsedIsOpen, HoldersLock, LocksHeld
    <2> QED
      BY <2>1, <2>2 DEF HandlesOK
  <1>8. ~dropped' => Intact'
    <2>1. ~dropped' => IntactThreads'
      BY <1>h, <1>1, <1>r DEF Intact, InRange, ThreadsOK, PrivateOK, LocksOK, HandlesOK, Bits,
         TypeOK, Typed, Moved, OthersStay, Changed, Idle, Written, histVars, Holding, HasherPc,
         RemovePc, IntactThreads, IntactFiles, IntactKept, HoldersLock, LocksHeld, OpenIsOwned,
         UsedIsOpen
    <2>2. ~dropped' => IntactFiles'
      BY <1>h, <1>1, <1>r, SMTT(20) DEF Intact, InRange, ThreadsOK, PrivateOK, LocksOK, HandlesOK,
         Bits, TypeOK, Typed, Moved, OthersStay, Changed, Idle, Written, histVars, Holding,
         HasherPc, RemovePc, IntactThreads, IntactFiles, IntactKept, HoldersLock, LocksHeld,
         OpenIsOwned, UsedIsOpen
    <2>3. ~dropped' => IntactKept'
      BY <1>h, <1>1, <1>r DEF Intact, InRange, ThreadsOK, PrivateOK, LocksOK, HandlesOK, Bits,
         TypeOK, Typed, Moved, OthersStay, Changed, Idle, Written, histVars, Holding, HasherPc,
         RemovePc, IntactThreads, IntactFiles, IntactKept, HoldersLock, LocksHeld, OpenIsOwned,
         UsedIsOpen
    <2> QED
      BY <2>1, <2>2, <2>3 DEF Intact
  <1> QED
    BY <1>2, <1>3, <1>4, <1>5, <1>6, <1>7, <1>8

LEMMA WriteFailsKeeps ==
  ASSUME DiskInv, NEW h \in Hasher, WriteFails(h)
  PROVE  DiskInv'
  <1> USE DiskAssumption DEF DiskInv, Thread
  <1>r. InRange
    BY Ranges
  <1>h. h \in Thread /\ th[h].b \in Backing /\ th[h].p \in Piece
    BY DEF ThreadsOK, Idle, WriteFails
  <1>1. /\ Typed
        /\ Rested(h)
        /\ Changed(th[h].b, backing[th[h].b].open, backing[th[h].b].have, None)
    BY <1>h, ReturnRests, UnlockChanges DEF Typed, WriteFails
  <1>2. TypeOK'
    BY <1>h, <1>1 DEF TypeOK, Typed, WriteFails, files, histVars
  <1>3. StragglersOK'
    BY <1>h, <1>1, <1>r DEF StragglersOK, ThreadsOK, TypeOK, Typed, Rested, OthersStay, Idle,
       WriteFails, files, histVars
  <1>4. ThreadsOK'
    BY <1>h, <1>1, <1>r DEF ThreadsOK, InRange, StragglersOK, TypeOK, Typed, Rested, OthersStay,
       Changed, Idle, WriteFails, files, histVars, HasherPc, RemovePc
  <1>5. PrivateOK'
    BY <1>h, <1>1, <1>r DEF PrivateOK, InRange, ThreadsOK, TypeOK, Typed, Rested, OthersStay,
       Changed, Idle, WriteFails, files, histVars, HasherPc, RemovePc
  <1>6. LocksOK'
    BY <1>h, <1>1, <1>r DEF LocksOK, InRange, ThreadsOK, PrivateOK, TypeOK, Typed, Rested,
       OthersStay, Changed, Idle, WriteFails, files, histVars, Holding, HasherPc, RemovePc,
       HoldersLock, LocksHeld
  <1>7. HandlesOK'
    BY <1>h, <1>1, <1>r DEF HandlesOK, InRange, ThreadsOK, PrivateOK, LocksOK, TypeOK, Typed,
       Rested, OthersStay, Changed, Idle, WriteFails, files, histVars, Holding, HasherPc, RemovePc,
       OpenIsOwned, UsedIsOpen, HoldersLock, LocksHeld
  <1>8. ~dropped' => Intact'
    BY <1>h, <1>1, <1>r DEF Intact, InRange, ThreadsOK, PrivateOK, LocksOK, HandlesOK, Bits, TypeOK,
       Typed, Rested, OthersStay, Changed, Idle, WriteFails, files, histVars, Holding, HasherPc,
       RemovePc, IntactThreads, IntactFiles, IntactKept, HoldersLock, LocksHeld, OpenIsOwned,
       UsedIsOpen
  <1> QED
    BY <1>2, <1>3, <1>4, <1>5, <1>6, <1>7, <1>8

LEMMA FillFailsKeeps ==
  ASSUME DiskInv, NEW h \in Hasher, FillFails(h)
  PROVE  DiskInv'
  <1> USE DiskAssumption DEF DiskInv, Thread
  <1>r. InRange
    BY Ranges
  <1>h. h \in Thread /\ th[h].b \in Backing /\ th[h].p \in Piece
    BY DEF ThreadsOK, Idle, FillFails
  <1>1. /\ Typed
        /\ Rested(h)
        /\ Changed(th[h].b, backing[th[h].b].open, backing[th[h].b].have, None)
    BY <1>h, ReturnRests, UnlockChanges DEF Typed, FillFails
  <1>2. TypeOK'
    BY <1>h, <1>1 DEF TypeOK, Typed, FillFails, files, histVars
  <1>3. StragglersOK'
    BY <1>h, <1>1, <1>r DEF StragglersOK, ThreadsOK, TypeOK, Typed, Rested, OthersStay, Idle,
       FillFails, files, histVars
  <1>4. ThreadsOK'
    BY <1>h, <1>1, <1>r DEF ThreadsOK, InRange, StragglersOK, TypeOK, Typed, Rested, OthersStay,
       Changed, Idle, FillFails, files, histVars, HasherPc, RemovePc
  <1>5. PrivateOK'
    BY <1>h, <1>1, <1>r DEF PrivateOK, InRange, ThreadsOK, TypeOK, Typed, Rested, OthersStay,
       Changed, Idle, FillFails, files, histVars, HasherPc, RemovePc
  <1>6. LocksOK'
    BY <1>h, <1>1, <1>r DEF LocksOK, InRange, ThreadsOK, PrivateOK, TypeOK, Typed, Rested,
       OthersStay, Changed, Idle, FillFails, files, histVars, Holding, HasherPc, RemovePc,
       HoldersLock, LocksHeld
  <1>7. HandlesOK'
    BY <1>h, <1>1, <1>r DEF HandlesOK, InRange, ThreadsOK, PrivateOK, LocksOK, TypeOK, Typed,
       Rested, OthersStay, Changed, Idle, FillFails, files, histVars, Holding, HasherPc, RemovePc,
       OpenIsOwned, UsedIsOpen, HoldersLock, LocksHeld
  <1>8. ~dropped' => Intact'
    <2>1. ~dropped' => IntactThreads'
      BY <1>h, <1>1, <1>r DEF Intact, InRange, ThreadsOK, PrivateOK, LocksOK, HandlesOK, Bits,
         TypeOK, Typed, Rested, OthersStay, Changed, Idle, FillFails, files, histVars, Holding,
         HasherPc, RemovePc, IntactThreads, IntactFiles, IntactKept, HoldersLock, LocksHeld,
         OpenIsOwned, UsedIsOpen
    <2>2. ~dropped' => IntactFiles'
      BY <1>h, <1>1, <1>r DEF Intact, InRange, ThreadsOK, PrivateOK, LocksOK, HandlesOK, Bits,
         TypeOK, Typed, Rested, OthersStay, Changed, Idle, FillFails, files, histVars, Holding,
         HasherPc, RemovePc, IntactThreads, IntactFiles, IntactKept, HoldersLock, LocksHeld,
         OpenIsOwned, UsedIsOpen
    <2>3. ~dropped' => IntactKept'
      BY <1>h, <1>1, <1>r DEF Intact, InRange, ThreadsOK, PrivateOK, LocksOK, HandlesOK, Bits,
         TypeOK, Typed, Rested, OthersStay, Changed, Idle, FillFails, files, histVars, Holding,
         HasherPc, RemovePc, IntactThreads, IntactFiles, IntactKept, HoldersLock, LocksHeld,
         OpenIsOwned, UsedIsOpen
    <2> QED
      BY <2>1, <2>2, <2>3 DEF Intact
  <1> QED
    BY <1>2, <1>3, <1>4, <1>5, <1>6, <1>7, <1>8

LEMMA RenameKeeps ==
  ASSUME DiskInv, NEW h \in Hasher, Rename(h)
  PROVE  DiskInv'
  <1> USE DiskAssumption DEF DiskInv, Thread
  <1>r. InRange
    BY Ranges
  <1>h. h \in Thread /\ th[h].b \in Backing /\ th[h].p \in Piece
    BY DEF ThreadsOK, Idle, Rename
  <1>1. /\ Typed
        /\ Rested(h)
        /\ Changed(th[h].b, backing[th[h].b].open, backing[th[h].b].have, None)
    BY <1>h, ReturnRests, UnlockChanges DEF Typed, Rename
  <1>2. TypeOK'
    BY <1>h, <1>1 DEF TypeOK, Typed, HandlesOK, PrivateOK, BackingRec, Rename, OpenIsOwned,
       UsedIsOpen
  <1>3. StragglersOK'
    BY <1>h, <1>1, <1>r DEF StragglersOK, ThreadsOK, TypeOK, Typed, Rested, OthersStay, Idle, Rename
  <1>4. ThreadsOK'
    BY <1>h, <1>1, <1>r DEF ThreadsOK, InRange, StragglersOK, TypeOK, Typed, Rested, OthersStay,
       Changed, Idle, Rename, HasherPc, RemovePc
  <1>5. PrivateOK'
    BY <1>h, <1>1, <1>r DEF PrivateOK, InRange, ThreadsOK, TypeOK, Typed, Rested, OthersStay,
       Changed, Idle, Rename, HasherPc, RemovePc
  <1>6. LocksOK'
    BY <1>h, <1>1, <1>r DEF LocksOK, InRange, ThreadsOK, PrivateOK, TypeOK, Typed, Rested,
       OthersStay, Changed, Idle, Rename, Holding, HasherPc, RemovePc, HoldersLock, LocksHeld
  <1>7. HandlesOK'
    BY <1>h, <1>1, <1>r DEF HandlesOK, InRange, ThreadsOK, PrivateOK, LocksOK, TypeOK, Typed,
       Rested, OthersStay, Changed, Idle, Rename, Holding, HasherPc, RemovePc, OpenIsOwned,
       UsedIsOpen, HoldersLock, LocksHeld
  <1>8. ~dropped' => Intact'
    <2>1. ~dropped' => IntactThreads'
      BY <1>h, <1>1, <1>r DEF Intact, InRange, ThreadsOK, PrivateOK, LocksOK, HandlesOK, Bits,
         TypeOK, Typed, Rested, OthersStay, Changed, Idle, Rename, Holding, HasherPc, RemovePc,
         IntactThreads, IntactFiles, IntactKept, HoldersLock, LocksHeld, OpenIsOwned, UsedIsOpen
    <2>2. ~dropped' => IntactFiles'
      BY <1>h, <1>1, <1>r DEF Intact, InRange, ThreadsOK, PrivateOK, LocksOK, HandlesOK, Bits,
         TypeOK, Typed, Rested, OthersStay, Changed, Idle, Rename, Holding, HasherPc, RemovePc,
         IntactThreads, IntactFiles, IntactKept, HoldersLock, LocksHeld, OpenIsOwned, UsedIsOpen
    <2>3. ~dropped' => IntactKept'
      BY <1>h, <1>1, <1>r DEF Intact, InRange, ThreadsOK, PrivateOK, LocksOK, HandlesOK, Bits,
         TypeOK, Typed, Rested, OthersStay, Changed, Idle, Rename, Holding, HasherPc, RemovePc,
         IntactThreads, IntactFiles, IntactKept, HoldersLock, LocksHeld, OpenIsOwned, UsedIsOpen
    <2> QED
      BY <2>1, <2>2, <2>3 DEF Intact
  <1> QED
    BY <1>2, <1>3, <1>4, <1>5, <1>6, <1>7, <1>8

LEMMA OpenTmpKeeps ==
  ASSUME DiskInv, NEW h \in Hasher, OpenTmp(h)
  PROVE  DiskInv'
  <1> USE DiskAssumption DEF DiskInv, Thread
  <1>r. InRange
    BY Ranges
  <1>h. h \in Thread /\ th[h].b \in Backing /\ th[h].p \in Piece
    BY DEF ThreadsOK, Idle, OpenTmp
  <1>1. /\ Typed
        /\ Moved(h, "fill", th[h].p, th[h].b)
        /\ backing' = backing
    BY <1>h, GotoMoves DEF Steps, TypeOK, Typed, OpenTmp
  <1>2. TypeOK'
    BY <1>h, <1>1 DEF TypeOK, Typed, HandlesOK, PrivateOK, BackingRec, OpenTmp, histVars,
       OpenIsOwned, UsedIsOpen
  <1>3. StragglersOK'
    BY <1>h, <1>1, <1>r DEF StragglersOK, ThreadsOK, TypeOK, Typed, Moved, OthersStay, Idle,
       OpenTmp, histVars
  <1>4. ThreadsOK'
    BY <1>h, <1>1, <1>r DEF ThreadsOK, InRange, StragglersOK, TypeOK, Typed, Moved, OthersStay,
       Idle, OpenTmp, histVars, HasherPc, RemovePc
  <1>5. PrivateOK'
    BY <1>h, <1>1, <1>r DEF PrivateOK, InRange, ThreadsOK, TypeOK, Typed, Moved, OthersStay, Idle,
       OpenTmp, histVars, HasherPc, RemovePc
  <1>6. LocksOK'
    BY <1>h, <1>1, <1>r DEF LocksOK, InRange, ThreadsOK, PrivateOK, TypeOK, Typed, Moved,
       OthersStay, Idle, OpenTmp, histVars, Holding, HasherPc, RemovePc, HoldersLock, LocksHeld
  <1>7. HandlesOK'
    BY <1>h, <1>1, <1>r DEF HandlesOK, InRange, ThreadsOK, PrivateOK, LocksOK, TypeOK, Typed, Moved,
       OthersStay, Idle, OpenTmp, histVars, Holding, HasherPc, RemovePc, OpenIsOwned, UsedIsOpen,
       HoldersLock, LocksHeld
  <1>8. ~dropped' => Intact'
    BY <1>h, <1>1, <1>r DEF Intact, InRange, ThreadsOK, PrivateOK, LocksOK, HandlesOK, Bits, TypeOK,
       Typed, Moved, OthersStay, Idle, OpenTmp, histVars, Holding, HasherPc, RemovePc,
       IntactThreads, IntactFiles, IntactKept, HoldersLock, LocksHeld, OpenIsOwned, UsedIsOpen
  <1> QED
    BY <1>2, <1>3, <1>4, <1>5, <1>6, <1>7, <1>8

LEMMA FillTmpKeeps ==
  ASSUME DiskInv, NEW h \in Hasher, FillTmp(h)
  PROVE  DiskInv'
  <1> USE DiskAssumption DEF DiskInv, Thread
  <1>r. InRange
    BY Ranges
  <1>h. h \in Thread /\ th[h].b \in Backing /\ th[h].p \in Piece
    BY DEF ThreadsOK, Idle, FillTmp
  <1>1. /\ Typed
        /\ Moved(h, "rename", th[h].p, th[h].b)
        /\ backing' = backing
    BY <1>h, GotoMoves DEF Steps, TypeOK, Typed, FillTmp
  <1>2. TypeOK'
    BY <1>h, <1>1 DEF TypeOK, Typed, HandlesOK, PrivateOK, BackingRec, FillTmp, histVars,
       OpenIsOwned, UsedIsOpen
  <1>3. StragglersOK'
    BY <1>h, <1>1, <1>r DEF StragglersOK, ThreadsOK, TypeOK, Typed, Moved, OthersStay, Idle,
       FillTmp, histVars
  <1>4. ThreadsOK'
    BY <1>h, <1>1, <1>r DEF ThreadsOK, InRange, StragglersOK, TypeOK, Typed, Moved, OthersStay,
       Idle, FillTmp, histVars, HasherPc, RemovePc
  <1>5. PrivateOK'
    BY <1>h, <1>1, <1>r DEF PrivateOK, InRange, ThreadsOK, TypeOK, Typed, Moved, OthersStay, Idle,
       FillTmp, histVars, HasherPc, RemovePc
  <1>6. LocksOK'
    BY <1>h, <1>1, <1>r DEF LocksOK, InRange, ThreadsOK, PrivateOK, TypeOK, Typed, Moved,
       OthersStay, Idle, FillTmp, histVars, Holding, HasherPc, RemovePc, HoldersLock, LocksHeld
  <1>7. HandlesOK'
    BY <1>h, <1>1, <1>r DEF HandlesOK, InRange, ThreadsOK, PrivateOK, LocksOK, TypeOK, Typed, Moved,
       OthersStay, Idle, FillTmp, histVars, Holding, HasherPc, RemovePc, OpenIsOwned, UsedIsOpen,
       HoldersLock, LocksHeld
  <1>8. ~dropped' => Intact'
    BY <1>h, <1>1, <1>r DEF Intact, InRange, ThreadsOK, PrivateOK, LocksOK, HandlesOK, Bits, TypeOK,
       Typed, Moved, OthersStay, Idle, FillTmp, histVars, Holding, HasherPc, RemovePc,
       IntactThreads, IntactFiles, IntactKept, HoldersLock, LocksHeld, OpenIsOwned, UsedIsOpen
  <1> QED
    BY <1>2, <1>3, <1>4, <1>5, <1>6, <1>7, <1>8

LEMMA WritePieceKeeps ==
  ASSUME DiskInv, NEW h \in Hasher, WritePiece(h)
  PROVE  DiskInv'
  <1> USE DiskAssumption DEF DiskInv, Thread
  <1>r. InRange
    BY Ranges
  <1>h. h \in Thread /\ th[h].b \in Backing /\ th[h].p \in Piece
    BY DEF ThreadsOK, Idle, WritePiece
  <1>1. /\ Typed
        /\ \/ /\ backing[th[h].b].open
              /\ Moved(h, "write", th[h].p, th[h].b)
              /\ Changed(th[h].b, TRUE, backing[th[h].b].have, h)
           \/ Rested(h) /\ backing' = backing
    BY <1>h, GotoMoves, ReturnRests DEF Steps, TypeOK, Typed, Changed, BackingRec, WritePiece, Free
  <1>2. TypeOK'
    BY <1>h, <1>1 DEF TypeOK, Typed, WritePiece, files, histVars
  <1>3. StragglersOK'
    <2>1. cache' = cache /\ \A t \in Thread \ {h} : th'[t] = th[t]
      BY <1>1 DEF Moved, Rested, OthersStay, WritePiece
    <2>2. th'[h].pc = "idle" \/ (th'[h].old = th[h].old /\ th[h].pc # "idle")
      <3>1. th[h].pc = "persist"
        BY DEF WritePiece
      <3>2. CASE Moved(h, "write", th[h].p, th[h].b)
        BY <3>1, <3>2 DEF Moved
      <3>3. CASE Rested(h)
        BY <3>3 DEF Rested, Idle
      <3> QED
        BY <3>2, <3>3, <1>1
    <2> QED
      BY <2>1, <2>2 DEF StragglersOK
  <1>4. ThreadsOK'
    BY <1>h, <1>1, <1>r DEF ThreadsOK, InRange, StragglersOK, TypeOK, Typed, Moved, Rested,
       OthersStay, Changed, Idle, WritePiece, files, histVars, Free, HasherPc, RemovePc
  <1>5. PrivateOK'
    BY <1>h, <1>1, <1>r DEF PrivateOK, InRange, ThreadsOK, TypeOK, Typed, Moved, Rested, OthersStay,
       Changed, Idle, WritePiece, files, histVars, Free, HasherPc, RemovePc
  <1>6. LocksOK'
    <2>1. HoldersLock'
      BY <1>h, <1>1, <1>r DEF LocksOK, InRange, ThreadsOK, PrivateOK, TypeOK, Typed, Moved, Rested,
         OthersStay, Changed, Idle, WritePiece, files, histVars, Free, Holding, HasherPc, RemovePc,
         HoldersLock, LocksHeld
    <2>2. LocksHeld'
      BY <1>h, <1>1, <1>r DEF LocksOK, InRange, ThreadsOK, PrivateOK, TypeOK, Typed, Moved, Rested,
         OthersStay, Changed, Idle, WritePiece, files, histVars, Free, Holding, HasherPc, RemovePc,
         HoldersLock, LocksHeld
    <2> QED
      BY <2>1, <2>2 DEF LocksOK
  <1>7. HandlesOK'
    BY <1>h, <1>1, <1>r DEF HandlesOK, InRange, ThreadsOK, PrivateOK, LocksOK, TypeOK, Typed, Moved,
       Rested, OthersStay, Changed, Idle, WritePiece, files, histVars, Free, Holding, HasherPc,
       RemovePc, OpenIsOwned, UsedIsOpen, HoldersLock, LocksHeld
  <1>8. ~dropped' => Intact'
    <2>1. ~dropped' => IntactThreads'
      BY <1>h, <1>1, <1>r DEF Intact, InRange, ThreadsOK, PrivateOK, LocksOK, HandlesOK, Bits,
         TypeOK, Typed, Moved, Rested, OthersStay, Changed, Idle, WritePiece, files, histVars, Free,
         Holding, HasherPc, RemovePc, IntactThreads, IntactFiles, IntactKept, HoldersLock,
         LocksHeld, OpenIsOwned, UsedIsOpen
    <2>2. ~dropped' => IntactFiles'
      BY <1>h, <1>1, <1>r DEF Intact, InRange, ThreadsOK, PrivateOK, LocksOK, HandlesOK, Bits,
         TypeOK, Typed, Moved, Rested, OthersStay, Changed, Idle, WritePiece, files, histVars, Free,
         Holding, HasherPc, RemovePc, IntactThreads, IntactFiles, IntactKept, HoldersLock,
         LocksHeld, OpenIsOwned, UsedIsOpen
    <2>3. ~dropped' => IntactKept'
      BY <1>h, <1>1, <1>r DEF Intact, InRange, ThreadsOK, PrivateOK, LocksOK, HandlesOK, Bits,
         TypeOK, Typed, Moved, Rested, OthersStay, Changed, Idle, WritePiece, files, histVars, Free,
         Holding, HasherPc, RemovePc, IntactThreads, IntactFiles, IntactKept, HoldersLock,
         LocksHeld, OpenIsOwned, UsedIsOpen
    <2> QED
      BY <2>1, <2>2, <2>3 DEF Intact
  <1> QED
    BY <1>2, <1>3, <1>4, <1>5, <1>6, <1>7, <1>8

LEMMA ClearKeeps ==
  ASSUME DiskInv, NEW h \in Hasher, Clear(h)
  PROVE  DiskInv'
  <1> USE DiskAssumption DEF DiskInv, Thread
  <1>r. InRange
    BY Ranges
  <1>h. h \in Thread /\ th[h].b \in Backing /\ th[h].p \in Piece
    BY DEF ThreadsOK, Idle, Clear
  <1>1. /\ Typed
        /\ \/ /\ th[h].p \in backing[th[h].b].have
              /\ kept' = kept \ {th[h].p}
              /\ Moved(h, "save", th[h].p, th[h].b)
              /\ Changed(th[h].b, backing[th[h].b].open, backing[th[h].b].have \ {th[h].p}, h)
           \/ Rested(h) /\ UNCHANGED <<backing, kept>>
    BY <1>h, GotoMoves, ReturnRests DEF Steps, TypeOK, Typed, Changed, BackingRec, Clear, Free
  <1>2. TypeOK'
    BY <1>h, <1>1 DEF TypeOK, Typed, Clear, files
  <1>3. StragglersOK'
    BY <1>h, <1>1, <1>r DEF StragglersOK, ThreadsOK, TypeOK, Typed, Moved, Rested, OthersStay, Idle,
       Clear, files
  <1>4. ThreadsOK'
    BY <1>h, <1>1, <1>r DEF ThreadsOK, InRange, StragglersOK, TypeOK, Typed, Moved, Rested,
       OthersStay, Changed, Idle, Clear, files, Free, HasherPc, RemovePc
  <1>5. PrivateOK'
    BY <1>h, <1>1, <1>r DEF PrivateOK, InRange, ThreadsOK, TypeOK, Typed, Moved, Rested, OthersStay,
       Changed, Idle, Clear, files, Free, HasherPc, RemovePc
  <1>6. LocksOK'
    <2>1. HoldersLock'
      BY <1>h, <1>1, <1>r DEF LocksOK, InRange, ThreadsOK, PrivateOK, TypeOK, Typed, Moved, Rested,
         OthersStay, Changed, Idle, Clear, files, Free, Holding, HasherPc, RemovePc, HoldersLock,
         LocksHeld
    <2>2. LocksHeld'
      BY <1>h, <1>1, <1>r DEF LocksOK, InRange, ThreadsOK, PrivateOK, TypeOK, Typed, Moved, Rested,
         OthersStay, Changed, Idle, Clear, files, Free, Holding, HasherPc, RemovePc, HoldersLock,
         LocksHeld
    <2> QED
      BY <2>1, <2>2 DEF LocksOK
  <1>7. HandlesOK'
    <2>1. OpenIsOwned'
      BY <1>h, <1>1, <1>r DEF HandlesOK, InRange, ThreadsOK, PrivateOK, LocksOK, TypeOK, Typed,
         Moved, Rested, OthersStay, Changed, Idle, Clear, files, Free, Holding, HasherPc, RemovePc,
         OpenIsOwned, UsedIsOpen, HoldersLock, LocksHeld
    <2>2. UsedIsOpen'
      BY <1>h, <1>1, <1>r, SMTT(20) DEF HandlesOK, InRange, ThreadsOK, PrivateOK, LocksOK, TypeOK,
         Typed, Moved, Rested, OthersStay, Changed, Idle, Clear, files, Free, Holding, HasherPc,
         RemovePc, OpenIsOwned, UsedIsOpen, HoldersLock, LocksHeld
    <2> QED
      BY <2>1, <2>2 DEF HandlesOK
  <1>8. ~dropped' => Intact'
    <2>1. ~dropped' => IntactThreads'
      BY <1>h, <1>1, <1>r DEF Intact, InRange, ThreadsOK, PrivateOK, LocksOK, HandlesOK, Bits,
         TypeOK, Typed, Moved, Rested, OthersStay, Changed, Idle, Clear, files, Free, Holding,
         HasherPc, RemovePc, IntactThreads, IntactFiles, IntactKept, HoldersLock, LocksHeld,
         OpenIsOwned, UsedIsOpen
    <2>2. ~dropped' => IntactFiles'
      BY <1>h, <1>1, <1>r DEF Intact, InRange, ThreadsOK, PrivateOK, LocksOK, HandlesOK, Bits,
         TypeOK, Typed, Moved, Rested, OthersStay, Changed, Idle, Clear, files, Free, Holding,
         HasherPc, RemovePc, IntactThreads, IntactFiles, IntactKept, HoldersLock, LocksHeld,
         OpenIsOwned, UsedIsOpen
    <2>3. ~dropped' => IntactKept'
      BY <1>h, <1>1, <1>r, SMTT(20) DEF Intact, InRange, ThreadsOK, PrivateOK, LocksOK, HandlesOK,
         Bits, TypeOK, Typed, Moved, Rested, OthersStay, Changed, Idle, Clear, files, Free, Holding,
         HasherPc, RemovePc, IntactThreads, IntactFiles, IntactKept, HoldersLock, LocksHeld,
         OpenIsOwned, UsedIsOpen
    <2> QED
      BY <2>1, <2>2, <2>3 DEF Intact
  <1> QED
    BY <1>2, <1>3, <1>4, <1>5, <1>6, <1>7, <1>8

LEMMA SetModeKeeps ==
  ASSUME DiskInv, NEW a \in Attacher, NEW disk \in BOOLEAN, SetMode(a, disk)
  PROVE  DiskInv'
  <1> USE DiskAssumption DEF DiskInv, Thread
  <1>r. InRange
    BY Ranges
  <1>h. a \in Thread /\ th[a].b = None /\ th[a].p = None
    BY DEF SetMode, Idle
  <1>1. /\ Typed /\ diskMode' \in BOOLEAN
        /\ UNCHANGED <<cache, backing, files, histVars>>
        /\ \/ th' = th
           \/ cache.open /\ ~cache.closed /\ cache.disk = None /\ Moved(a, "create", None, None)
    BY <1>h, GotoMoves DEF Steps, TypeOK, Typed, SetMode
  <1>2. TypeOK'
    BY <1>h, <1>1 DEF TypeOK, Typed, files, histVars
  <1>3. StragglersOK'
    BY <1>h, <1>1, <1>r DEF StragglersOK, ThreadsOK, TypeOK, Typed, Moved, OthersStay, Idle, files,
       histVars
  <1>4. ThreadsOK'
    BY <1>h, <1>1, <1>r DEF ThreadsOK, InRange, StragglersOK, TypeOK, Typed, Moved, OthersStay,
       Idle, files, histVars, HasherPc, RemovePc
  <1>5. PrivateOK'
    BY <1>h, <1>1, <1>r DEF PrivateOK, InRange, ThreadsOK, TypeOK, Typed, Moved, OthersStay, Idle,
       files, histVars, HasherPc, RemovePc
  <1>6. LocksOK'
    BY <1>h, <1>1, <1>r DEF LocksOK, InRange, ThreadsOK, PrivateOK, TypeOK, Typed, Moved,
       OthersStay, Idle, files, histVars, Holding, HasherPc, RemovePc, HoldersLock, LocksHeld
  <1>7. HandlesOK'
    BY <1>h, <1>1, <1>r DEF HandlesOK, InRange, ThreadsOK, PrivateOK, LocksOK, TypeOK, Typed, Moved,
       OthersStay, Idle, files, histVars, Holding, HasherPc, RemovePc, OpenIsOwned, UsedIsOpen,
       HoldersLock, LocksHeld
  <1>8. ~dropped' => Intact'
    BY <1>h, <1>1, <1>r DEF Intact, InRange, ThreadsOK, PrivateOK, LocksOK, HandlesOK, Bits, TypeOK,
       Typed, Moved, OthersStay, Idle, files, histVars, Holding, HasherPc, RemovePc, IntactThreads,
       IntactFiles, IntactKept, HoldersLock, LocksHeld, OpenIsOwned, UsedIsOpen
  <1> QED
    BY <1>2, <1>3, <1>4, <1>5, <1>6, <1>7, <1>8

LEMMA CreateFailsKeeps ==
  ASSUME DiskInv, NEW a \in Attacher, CreateFails(a)
  PROVE  DiskInv'
  <1> USE DiskAssumption DEF DiskInv, Thread
  <1>r. InRange
    BY Ranges
  <1>h. a \in Thread /\ th[a].pc # "idle"
    BY DEF CreateFails
  <1>1. Typed /\ Rested(a) /\ backing' = backing
    BY <1>h, ReturnRests DEF TypeOK, Typed, CreateFails
  <1>2. TypeOK'
    BY <1>h, <1>1 DEF TypeOK, Typed, CreateFails, files, histVars
  <1>3. StragglersOK'
    BY <1>h, <1>1, <1>r DEF StragglersOK, ThreadsOK, TypeOK, Typed, Rested, OthersStay, Idle,
       CreateFails, files, histVars
  <1>4. ThreadsOK'
    BY <1>h, <1>1, <1>r DEF ThreadsOK, InRange, StragglersOK, TypeOK, Typed, Rested, OthersStay,
       Idle, CreateFails, files, histVars, HasherPc, RemovePc
  <1>5. PrivateOK'
    BY <1>h, <1>1, <1>r DEF PrivateOK, InRange, ThreadsOK, TypeOK, Typed, Rested, OthersStay, Idle,
       CreateFails, files, histVars, HasherPc, RemovePc
  <1>6. LocksOK'
    BY <1>h, <1>1, <1>r DEF LocksOK, InRange, ThreadsOK, PrivateOK, TypeOK, Typed, Rested,
       OthersStay, Idle, CreateFails, files, histVars, Holding, HasherPc, RemovePc, HoldersLock,
       LocksHeld
  <1>7. HandlesOK'
    BY <1>h, <1>1, <1>r DEF HandlesOK, InRange, ThreadsOK, PrivateOK, LocksOK, TypeOK, Typed,
       Rested, OthersStay, Idle, CreateFails, files, histVars, Holding, HasherPc, RemovePc,
       OpenIsOwned, UsedIsOpen, HoldersLock, LocksHeld
  <1>8. ~dropped' => Intact'
    BY <1>h, <1>1, <1>r DEF Intact, InRange, ThreadsOK, PrivateOK, LocksOK, HandlesOK, Bits, TypeOK,
       Typed, Rested, OthersStay, Idle, CreateFails, files, histVars, Holding, HasherPc, RemovePc,
       IntactThreads, IntactFiles, IntactKept, HoldersLock, LocksHeld, OpenIsOwned, UsedIsOpen
  <1> QED
    BY <1>2, <1>3, <1>4, <1>5, <1>6, <1>7, <1>8

LEMMA LoadBitmapKeeps ==
  ASSUME DiskInv, NEW a \in Attacher, LoadBitmap(a)
  PROVE  DiskInv'
  <1> USE DiskAssumption DEF DiskInv, Thread
  <1>r. InRange
    BY Ranges
  <1>h. a \in Thread /\ th[a].b \in Backing
    BY DEF ThreadsOK, Idle, LoadBitmap
  <1>1. /\ Typed
        /\ Moved(a, "set", th[a].p, th[a].b)
        /\ Changed(th[a].b, backing[th[a].b].open, Bits, backing[th[a].b].mu)
    BY <1>h, GotoMoves DEF Steps, TypeOK, Typed, Changed, BackingRec, LoadBitmap, Bits
  <1>2. TypeOK'
    BY <1>h, <1>1 DEF TypeOK, Typed, LoadBitmap, files, histVars
  <1>3. StragglersOK'
    BY <1>h, <1>1, <1>r DEF StragglersOK, ThreadsOK, TypeOK, Typed, Moved, OthersStay, Idle,
       LoadBitmap, files, histVars
  <1>4. ThreadsOK'
    BY <1>h, <1>1, <1>r DEF ThreadsOK, InRange, StragglersOK, TypeOK, Typed, Moved, OthersStay,
       Changed, Idle, LoadBitmap, files, histVars, HasherPc, RemovePc
  <1>5. PrivateOK'
    BY <1>h, <1>1, <1>r DEF PrivateOK, InRange, ThreadsOK, TypeOK, Typed, Moved, OthersStay,
       Changed, Idle, LoadBitmap, files, histVars, HasherPc, RemovePc
  <1>6. LocksOK'
    <2>1. HoldersLock'
      BY <1>h, <1>1, <1>r DEF LocksOK, InRange, ThreadsOK, PrivateOK, TypeOK, Typed, Moved,
         OthersStay, Changed, Idle, LoadBitmap, files, histVars, Holding, HasherPc, RemovePc,
         HoldersLock, LocksHeld
    <2>2. LocksHeld'
      BY <1>h, <1>1, <1>r DEF LocksOK, InRange, ThreadsOK, PrivateOK, TypeOK, Typed, Moved,
         OthersStay, Changed, Idle, LoadBitmap, files, histVars, Holding, HasherPc, RemovePc,
         HoldersLock, LocksHeld
    <2> QED
      BY <2>1, <2>2 DEF LocksOK
  <1>7. HandlesOK'
    BY <1>h, <1>1, <1>r DEF HandlesOK, InRange, ThreadsOK, PrivateOK, LocksOK, TypeOK, Typed, Moved,
       OthersStay, Changed, Idle, LoadBitmap, files, histVars, Holding, HasherPc, RemovePc,
       OpenIsOwned, UsedIsOpen, HoldersLock, LocksHeld
  <1>8. ~dropped' => Intact'
    <2>1. ~dropped' => IntactThreads'
      BY <1>h, <1>1, <1>r DEF Intact, InRange, ThreadsOK, PrivateOK, LocksOK, HandlesOK, Bits,
         TypeOK, Typed, Moved, OthersStay, Changed, Idle, LoadBitmap, files, histVars, Holding,
         HasherPc, RemovePc, IntactThreads, IntactFiles, IntactKept, HoldersLock, LocksHeld,
         OpenIsOwned, UsedIsOpen
    <2>2. ~dropped' => IntactFiles'
      BY <1>h, <1>1, <1>r DEF Intact, InRange, ThreadsOK, PrivateOK, LocksOK, HandlesOK, Bits,
         TypeOK, Typed, Moved, OthersStay, Changed, Idle, LoadBitmap, files, histVars, Holding,
         HasherPc, RemovePc, IntactThreads, IntactFiles, IntactKept, HoldersLock, LocksHeld,
         OpenIsOwned, UsedIsOpen
    <2>3. ~dropped' => IntactKept'
      BY <1>h, <1>1, <1>r DEF Intact, InRange, ThreadsOK, PrivateOK, LocksOK, HandlesOK, Bits,
         TypeOK, Typed, Moved, OthersStay, Changed, Idle, LoadBitmap, files, histVars, Holding,
         HasherPc, RemovePc, IntactThreads, IntactFiles, IntactKept, HoldersLock, LocksHeld,
         OpenIsOwned, UsedIsOpen
    <2> QED
      BY <2>1, <2>2, <2>3 DEF Intact
  <1> QED
    BY <1>2, <1>3, <1>4, <1>5, <1>6, <1>7, <1>8

LEMMA SetDiskKeeps ==
  ASSUME DiskInv, NEW a \in Attacher, SetDisk(a)
  PROVE  DiskInv'
  <1> USE DiskAssumption DEF DiskInv, Thread
  <1>r. InRange
    BY Ranges
  <1>h. a \in Thread /\ th[a].b \in Backing
    BY DEF ThreadsOK, Idle, SetDisk
  <1>1. /\ Typed
        /\ th[a].pc = "set" /\ UNCHANGED <<diskMode, files, histVars>>
        /\ Rested(a)
        /\ \/ /\ cache.disk = None /\ ~cache.closed /\ ~th[a].old
              /\ cache' = [cache EXCEPT !.disk = th[a].b] /\ backing' = backing
           \/ /\ Changed(th[a].b, FALSE, backing[th[a].b].have, backing[th[a].b].mu)
              /\ cache' = cache
    <2>1. th[a].pc = "set" /\ th' \in [Thread -> ThreadRec] /\ Rested(a)
      BY <1>h, ReturnRests DEF SetDisk
    <2>2. CASE cache.disk = None /\ ~cache.closed /\ ~th[a].old
      BY <2>1, <2>2 DEF TypeOK, Typed, SetDisk
    <2>3. CASE ~(cache.disk = None /\ ~cache.closed /\ ~th[a].old)
      <3>1. backing' = [backing EXCEPT ![th[a].b].open = FALSE] /\ cache' = cache
        BY <2>3 DEF SetDisk
      <3>2. /\ backing' \in [Backing -> BackingRec]
            /\ Changed(th[a].b, FALSE, backing[th[a].b].have, backing[th[a].b].mu)
        BY <1>h, <3>1, CloseChanges
      <3> QED
        BY <2>1, <3>1, <3>2 DEF Typed, SetDisk
    <2> QED
      BY <2>2, <2>3
  <1>2. TypeOK'
    <2>1. cache' \in [open : BOOLEAN, closed : BOOLEAN, disk : Backing \cup {None}]
      BY <1>h, <1>1 DEF TypeOK
    <2> QED
      BY <1>1, <2>1 DEF TypeOK, Typed, files, histVars
  <1>3. StragglersOK'
    <2>1. cache'.open = cache.open
      BY <1>1 DEF TypeOK
    <2> QED
      BY <1>1, <2>1 DEF StragglersOK, Rested, OthersStay, Idle
  <1>4. ThreadsOK'
    BY <1>h, <1>1, <1>r DEF ThreadsOK, InRange, StragglersOK, TypeOK, Typed, Rested, OthersStay,
       Changed, Idle, files, histVars, HasherPc, RemovePc
  <1>5. PrivateOK'
    BY <1>h, <1>1, <1>r DEF PrivateOK, InRange, ThreadsOK, TypeOK, Typed, Rested, OthersStay,
       Changed, Idle, files, histVars, HasherPc, RemovePc
  <1>6. LocksOK'
    BY <1>h, <1>1, <1>r DEF LocksOK, InRange, ThreadsOK, PrivateOK, TypeOK, Typed, Rested,
       OthersStay, Changed, Idle, files, histVars, Holding, HasherPc, RemovePc, HoldersLock,
       LocksHeld
  <1>7. HandlesOK'
    BY <1>h, <1>1, <1>r DEF HandlesOK, InRange, ThreadsOK, PrivateOK, LocksOK, TypeOK, Typed,
       Rested, OthersStay, Changed, Idle, files, histVars, Holding, HasherPc, RemovePc, OpenIsOwned,
       UsedIsOpen, HoldersLock, LocksHeld
  <1>8. ~dropped' => Intact'
    <2>1. ~dropped' => IntactThreads'
      BY <1>h, <1>1, <1>r DEF Intact, InRange, ThreadsOK, PrivateOK, LocksOK, HandlesOK, Bits,
         TypeOK, Typed, Rested, OthersStay, Changed, Idle, files, histVars, Holding, HasherPc,
         RemovePc, IntactThreads, IntactFiles, IntactKept, HoldersLock, LocksHeld, OpenIsOwned,
         UsedIsOpen
    <2>2. ~dropped' => IntactFiles'
      BY <1>h, <1>1, <1>r DEF Intact, InRange, ThreadsOK, PrivateOK, LocksOK, HandlesOK, Bits,
         TypeOK, Typed, Rested, OthersStay, Changed, Idle, files, histVars, Holding, HasherPc,
         RemovePc, IntactThreads, IntactFiles, IntactKept, HoldersLock, LocksHeld, OpenIsOwned,
         UsedIsOpen
    <2>3. ~dropped' => IntactKept'
      BY <1>h, <1>1, <1>r DEF Intact, InRange, ThreadsOK, PrivateOK, LocksOK, HandlesOK, Bits,
         TypeOK, Typed, Rested, OthersStay, Changed, Idle, files, histVars, Holding, HasherPc,
         RemovePc, IntactThreads, IntactFiles, IntactKept, HoldersLock, LocksHeld, OpenIsOwned,
         UsedIsOpen
    <2> QED
      BY <2>1, <2>2, <2>3 DEF Intact
  <1> QED
    BY <1>2, <1>3, <1>4, <1>5, <1>6, <1>7, <1>8

LEMMA DropTorrentKeeps ==
  ASSUME DiskInv, DropTorrent
  PROVE  DiskInv'
  <1> USE DiskAssumption DEF DiskInv, Thread
  <1>r. InRange
    BY Ranges
  <1>h. Teardown \in Thread
    OBVIOUS
  <1>1. /\ Typed /\ dropped' = TRUE
        /\ UNCHANGED <<cache, diskMode, backing, files, kept>>
        /\ th[Teardown] = Idle /\ cache.open
        /\ Moved(Teardown, IF cache.disk = None THEN "close" ELSE "remove", None, cache.disk)
    <2> DEFINE pc == IF cache.disk = None THEN "close" ELSE "remove"
    <2>1. th[Teardown] = Idle /\ cache.open /\ pc \in Steps /\ cache.disk \in Backing \cup {None}
      BY <1>r DEF InRange, Steps, DropTorrent
    <2> HIDE DEF pc
    <2>2. th' \in [Thread -> ThreadRec] /\ Moved(Teardown, pc, None, cache.disk)
      BY <2>1, DropTorrentMoves DEF pc
    <2> QED
      BY <2>1, <2>2 DEF pc, Typed, TypeOK, DropTorrent
  <1>2. TypeOK'
    BY <1>h, <1>1 DEF TypeOK, Typed, files
  <1>3. StragglersOK'
    BY <1>h, <1>1, <1>r DEF StragglersOK, ThreadsOK, TypeOK, Typed, Moved, OthersStay, Idle, files
  <1>4. ThreadsOK'
    BY <1>h, <1>1, <1>r DEF ThreadsOK, InRange, StragglersOK, TypeOK, Typed, Moved, OthersStay,
       Idle, files, HasherPc, RemovePc
  <1>5. PrivateOK'
    BY <1>h, <1>1, <1>r DEF PrivateOK, InRange, ThreadsOK, TypeOK, Typed, Moved, OthersStay, Idle,
       files, HasherPc, RemovePc
  <1>6. LocksOK'
    BY <1>h, <1>1, <1>r DEF LocksOK, InRange, ThreadsOK, PrivateOK, TypeOK, Typed, Moved,
       OthersStay, Idle, files, Holding, HasherPc, RemovePc, HoldersLock, LocksHeld
  <1>7. HandlesOK'
    BY <1>h, <1>1, <1>r DEF HandlesOK, InRange, ThreadsOK, PrivateOK, LocksOK, TypeOK, Typed, Moved,
       OthersStay, Idle, files, Holding, HasherPc, RemovePc, OpenIsOwned, UsedIsOpen, HoldersLock,
       LocksHeld
  <1>8. ~dropped' => Intact'
    BY <1>h, <1>1, <1>r DEF Intact, InRange, ThreadsOK, PrivateOK, LocksOK, HandlesOK, Bits, TypeOK,
       Typed, Moved, OthersStay, Idle, files, Holding, HasherPc, RemovePc, IntactThreads,
       IntactFiles, IntactKept, HoldersLock, LocksHeld, OpenIsOwned, UsedIsOpen
  <1> QED
    BY <1>2, <1>3, <1>4, <1>5, <1>6, <1>7, <1>8

LEMMA RemoveKeeps ==
  ASSUME DiskInv, Remove
  PROVE  DiskInv'
  <1> USE DiskAssumption DEF DiskInv, Thread
  <1>r. InRange
    BY Ranges
  <1>h. Teardown \in Thread /\ th[Teardown].b \in Backing
    BY <1>r DEF InRange, ThreadsOK, RemovePc, Idle, Remove
  <1>1. /\ Typed
        /\ Moved(Teardown, "unlink", th[Teardown].p, th[Teardown].b)
        /\ Changed(th[Teardown].b, FALSE, backing[th[Teardown].b].have, Teardown)
    <2>1. th' \in [Thread -> ThreadRec] /\ Moved(Teardown, "unlink", th[Teardown].p, th[Teardown].b)
      BY <1>h, GotoMoves DEF Steps, Remove
    <2>2. /\ backing' \in [Backing -> BackingRec]
          /\ Changed(th[Teardown].b, FALSE, backing[th[Teardown].b].have, Teardown)
      BY <1>h, RemoveChanges DEF Remove
    <2> QED
      BY <2>1, <2>2 DEF Typed
  <1>2. TypeOK'
    BY <1>h, <1>1 DEF TypeOK, Typed, Remove, files, histVars
  <1>3. StragglersOK'
    BY <1>h, <1>1, <1>r DEF StragglersOK, ThreadsOK, TypeOK, Typed, Moved, OthersStay, Idle, Remove,
       files, histVars
  <1>4. ThreadsOK'
    BY <1>h, <1>1, <1>r DEF ThreadsOK, InRange, StragglersOK, TypeOK, Typed, Moved, OthersStay,
       Changed, Idle, Remove, files, histVars, Free, HasherPc, RemovePc
  <1>5. PrivateOK'
    BY <1>h, <1>1, <1>r DEF PrivateOK, InRange, ThreadsOK, TypeOK, Typed, Moved, OthersStay,
       Changed, Idle, Remove, files, histVars, Free, HasherPc, RemovePc
  <1>6. LocksOK'
    <2>1. /\ th[Teardown].pc = "remove" /\ backing[th[Teardown].b].mu = None
          /\ \A b \in Backing : b # th[Teardown].b => backing'[b] = backing[b]
          /\ \A t \in Thread : t # Teardown => th'[t] = th[t]
      BY <1>1 DEF Changed, Moved, OthersStay, Remove, Free
    <2>2. ASSUME NEW t \in Thread, th'[t].pc \in Holding
          PROVE  th'[t].b \in Backing /\ backing'[th'[t].b].mu = t
      <3>1. CASE t = Teardown
        BY <3>1, <1>h, <1>1 DEF Changed, Moved
      <3>2. CASE t # Teardown
        <4>1. th[t].b \in Backing /\ backing[th[t].b].mu = t /\ th'[t] = th[t]
          BY <3>2, <2>1, <2>2 DEF LocksOK, HoldersLock, LocksHeld
        <4>2. th[t].b # th[Teardown].b
          BY <4>1, <2>1
        <4> QED
          BY <4>1, <4>2, <2>1
      <3> QED
        BY <3>1, <3>2
    <2>3. ASSUME NEW b \in Backing, backing'[b].mu # None
          PROVE  th'[backing'[b].mu].b = b /\ th'[backing'[b].mu].pc \in Holding
      <3>1. CASE b = th[Teardown].b
        BY <3>1, <1>1 DEF Changed, Moved, Holding
      <3>2. CASE b # th[Teardown].b
        <4>1. backing'[b] = backing[b] /\ backing[b].mu \in Thread
          BY <3>2, <2>1, <2>3, <1>r DEF InRange
        <4>2. th[backing[b].mu].b = b /\ th[backing[b].mu].pc \in Holding
          BY <4>1, <2>3 DEF LocksOK, HoldersLock, LocksHeld
        <4> QED
          BY <4>1, <4>2, <2>1 DEF Holding
      <3> QED
        BY <3>1, <3>2
    <2> QED
      BY <2>2, <2>3 DEF LocksOK, HoldersLock, LocksHeld
  <1>7. HandlesOK'
    <2>1. OpenIsOwned'
      BY <1>h, <1>1, <1>r, SMTT(20) DEF HandlesOK, InRange, ThreadsOK, PrivateOK, LocksOK, TypeOK,
         Typed, Moved, OthersStay, Changed, Idle, Remove, files, histVars, Free, Holding, HasherPc,
         RemovePc, OpenIsOwned, UsedIsOpen, HoldersLock, LocksHeld
    <2>2. UsedIsOpen'
      BY <1>h, <1>1, <1>r, SMTT(20) DEF HandlesOK, InRange, ThreadsOK, PrivateOK, LocksOK, TypeOK,
         Typed, Moved, OthersStay, Changed, Idle, Remove, files, histVars, Free, Holding, HasherPc,
         RemovePc, OpenIsOwned, UsedIsOpen, HoldersLock, LocksHeld
    <2> QED
      BY <2>1, <2>2 DEF HandlesOK
  <1>8. ~dropped' => Intact'
    <2>1. ~dropped' => IntactThreads'
      BY DEF Intact, Idle, Remove, histVars, IntactThreads, IntactFiles, IntactKept
    <2>2. ~dropped' => IntactFiles'
      BY DEF Intact, Idle, Remove, histVars, IntactThreads, IntactFiles, IntactKept
    <2>3. ~dropped' => IntactKept'
      BY DEF Intact, Idle, Remove, histVars, IntactThreads, IntactFiles, IntactKept
    <2> QED
      BY <2>1, <2>2, <2>3 DEF Intact
  <1> QED
    BY <1>2, <1>3, <1>4, <1>5, <1>6, <1>7, <1>8

LEMMA UnlinkDataKeeps ==
  ASSUME DiskInv, UnlinkData
  PROVE  DiskInv'
  <1> USE DiskAssumption DEF DiskInv, Thread
  <1>r. InRange
    BY Ranges
  <1>h. Teardown \in Thread /\ th[Teardown].b \in Backing
    BY <1>r DEF InRange, ThreadsOK, RemovePc, Idle, UnlinkData
  <1>1. /\ Typed
        /\ Moved(Teardown, "unlink2", th[Teardown].p, th[Teardown].b)
        /\ backing' = backing
    BY <1>h, GotoMoves DEF Steps, TypeOK, Typed, UnlinkData
  <1>2. TypeOK'
    BY <1>h, <1>1 DEF TypeOK, Typed, UnlinkData, histVars
  <1>3. StragglersOK'
    BY <1>h, <1>1, <1>r DEF StragglersOK, ThreadsOK, TypeOK, Typed, Moved, OthersStay, Idle,
       UnlinkData, histVars
  <1>4. ThreadsOK'
    BY <1>h, <1>1, <1>r DEF ThreadsOK, InRange, StragglersOK, TypeOK, Typed, Moved, OthersStay,
       Idle, UnlinkData, histVars, HasherPc, RemovePc
  <1>5. PrivateOK'
    BY <1>h, <1>1, <1>r DEF PrivateOK, InRange, ThreadsOK, TypeOK, Typed, Moved, OthersStay, Idle,
       UnlinkData, histVars, HasherPc, RemovePc
  <1>6. LocksOK'
    BY <1>h, <1>1, <1>r DEF LocksOK, InRange, ThreadsOK, PrivateOK, TypeOK, Typed, Moved,
       OthersStay, Idle, UnlinkData, histVars, Holding, HasherPc, RemovePc, HoldersLock, LocksHeld
  <1>7. HandlesOK'
    BY <1>h, <1>1, <1>r DEF HandlesOK, InRange, ThreadsOK, PrivateOK, LocksOK, TypeOK, Typed, Moved,
       OthersStay, Idle, UnlinkData, histVars, Holding, HasherPc, RemovePc, OpenIsOwned, UsedIsOpen,
       HoldersLock, LocksHeld
  <1>8. ~dropped' => Intact'
    BY <1>h, <1>1, <1>r DEF Intact, InRange, ThreadsOK, PrivateOK, LocksOK, HandlesOK, Bits, TypeOK,
       Typed, Moved, OthersStay, Idle, UnlinkData, histVars, Holding, HasherPc, RemovePc,
       IntactThreads, IntactFiles, IntactKept, HoldersLock, LocksHeld, OpenIsOwned, UsedIsOpen
  <1> QED
    BY <1>2, <1>3, <1>4, <1>5, <1>6, <1>7, <1>8

LEMMA UnlinkBitmapKeeps ==
  ASSUME DiskInv, UnlinkBitmap
  PROVE  DiskInv'
  <1> USE DiskAssumption DEF DiskInv, Thread
  <1>r. InRange
    BY Ranges
  <1>h. Teardown \in Thread /\ th[Teardown].b \in Backing
    BY <1>r DEF InRange, ThreadsOK, RemovePc, Idle, UnlinkBitmap
  <1>1. /\ Typed
        /\ Moved(Teardown, "close", th[Teardown].p, th[Teardown].b)
        /\ Changed(th[Teardown].b, backing[th[Teardown].b].open, backing[th[Teardown].b].have, None)
    BY <1>h, GotoMoves, UnlockChanges DEF Steps, TypeOK, Typed, UnlinkBitmap
  <1>2. TypeOK'
    BY <1>h, <1>1 DEF TypeOK, Typed, UnlinkBitmap, histVars
  <1>3. StragglersOK'
    BY <1>h, <1>1, <1>r DEF StragglersOK, ThreadsOK, TypeOK, Typed, Moved, OthersStay, Idle,
       UnlinkBitmap, histVars
  <1>4. ThreadsOK'
    BY <1>h, <1>1, <1>r DEF ThreadsOK, InRange, StragglersOK, TypeOK, Typed, Moved, OthersStay,
       Changed, Idle, UnlinkBitmap, histVars, HasherPc, RemovePc
  <1>5. PrivateOK'
    BY <1>h, <1>1, <1>r DEF PrivateOK, InRange, ThreadsOK, TypeOK, Typed, Moved, OthersStay,
       Changed, Idle, UnlinkBitmap, histVars, HasherPc, RemovePc
  <1>6. LocksOK'
    BY <1>h, <1>1, <1>r DEF LocksOK, InRange, ThreadsOK, PrivateOK, TypeOK, Typed, Moved,
       OthersStay, Changed, Idle, UnlinkBitmap, histVars, Holding, HasherPc, RemovePc, HoldersLock,
       LocksHeld
  <1>7. HandlesOK'
    BY <1>h, <1>1, <1>r DEF HandlesOK, InRange, ThreadsOK, PrivateOK, LocksOK, TypeOK, Typed, Moved,
       OthersStay, Changed, Idle, UnlinkBitmap, histVars, Holding, HasherPc, RemovePc, OpenIsOwned,
       UsedIsOpen, HoldersLock, LocksHeld
  <1>8. ~dropped' => Intact'
    BY <1>h, <1>1, <1>r DEF Intact, InRange, ThreadsOK, PrivateOK, LocksOK, HandlesOK, Bits, TypeOK,
       Typed, Moved, OthersStay, Changed, Idle, UnlinkBitmap, histVars, Holding, HasherPc, RemovePc,
       IntactThreads, IntactFiles, IntactKept, HoldersLock, LocksHeld, OpenIsOwned, UsedIsOpen
  <1> QED
    BY <1>2, <1>3, <1>4, <1>5, <1>6, <1>7, <1>8

LEMMA CloseKeeps ==
  ASSUME DiskInv, Close
  PROVE  DiskInv'
  <1> USE DiskAssumption DEF DiskInv, Thread
  <1>r. InRange
    BY Ranges
  <1>h. Teardown \in Thread
    OBVIOUS
  <1>1. /\ Typed
        /\ Moved(Teardown, "drop", th[Teardown].p, th[Teardown].b)
        /\ \/ cache.disk = None /\ backing' = backing
           \/ /\ cache.disk \in Backing /\ backing[cache.disk].mu = None
              /\ Changed(cache.disk, FALSE, backing[cache.disk].have, None)
    <2>1. th' \in [Thread -> ThreadRec] /\ Moved(Teardown, "drop", th[Teardown].p, th[Teardown].b)
      BY <1>h, GotoMoves DEF Steps, Close
    <2>2. CASE cache.disk = None
      BY <2>1, <2>2 DEF TypeOK, Typed, Close
    <2>3. CASE cache.disk # None
      <3>1. cache.disk \in Backing /\ backing[cache.disk].mu = None
        BY <2>3, <1>r DEF InRange, Close
      <3>2. backing' = [backing EXCEPT ![cache.disk].open = FALSE]
        BY <2>3 DEF Close
      <3>3. backing' \in [Backing -> BackingRec] /\ Changed(cache.disk, FALSE, backing[cache.disk].have, None)
        BY <3>1, <3>2, CloseChanges
      <3> QED
        BY <2>1, <3>1, <3>3 DEF Typed
    <2> QED
      BY <2>2, <2>3
  <1>2. TypeOK'
    BY <1>h, <1>1 DEF TypeOK, Typed, Close, files, histVars
  <1>3. StragglersOK'
    BY <1>h, <1>1, <1>r DEF StragglersOK, ThreadsOK, TypeOK, Typed, Moved, OthersStay, Idle, Close,
       files, histVars
  <1>4. ThreadsOK'
    BY <1>h, <1>1, <1>r DEF ThreadsOK, InRange, StragglersOK, TypeOK, Typed, Moved, OthersStay,
       Changed, Idle, Close, files, histVars, HasherPc, RemovePc
  <1>5. PrivateOK'
    BY <1>h, <1>1, <1>r DEF PrivateOK, InRange, ThreadsOK, TypeOK, Typed, Moved, OthersStay,
       Changed, Idle, Close, files, histVars, HasherPc, RemovePc
  <1>6. LocksOK'
    <2>1. HoldersLock'
      BY <1>h, <1>1, <1>r DEF LocksOK, InRange, ThreadsOK, PrivateOK, TypeOK, Typed, Moved,
         OthersStay, Changed, Idle, Close, files, histVars, Holding, HasherPc, RemovePc,
         HoldersLock, LocksHeld
    <2>2. LocksHeld'
      BY <1>h, <1>1, <1>r DEF LocksOK, InRange, ThreadsOK, PrivateOK, TypeOK, Typed, Moved,
         OthersStay, Changed, Idle, Close, files, histVars, Holding, HasherPc, RemovePc,
         HoldersLock, LocksHeld
    <2> QED
      BY <2>1, <2>2 DEF LocksOK
  <1>7. HandlesOK'
    BY <1>h, <1>1, <1>r DEF HandlesOK, InRange, ThreadsOK, PrivateOK, LocksOK, TypeOK, Typed, Moved,
       OthersStay, Changed, Idle, Close, files, histVars, Holding, HasherPc, RemovePc, OpenIsOwned,
       UsedIsOpen, HoldersLock, LocksHeld
  <1>8. ~dropped' => Intact'
    BY <1>h, <1>1, <1>r DEF Intact, InRange, ThreadsOK, PrivateOK, LocksOK, HandlesOK, Bits, TypeOK,
       Typed, Moved, OthersStay, Changed, Idle, Close, files, histVars, Holding, HasherPc, RemovePc,
       IntactThreads, IntactFiles, IntactKept, HoldersLock, LocksHeld, OpenIsOwned, UsedIsOpen
  <1> QED
    BY <1>2, <1>3, <1>4, <1>5, <1>6, <1>7, <1>8

LEMMA HashedKeeps ==
  ASSUME DiskInv, NEW h \in Hasher, NEW p \in Piece, NEW pc \in {"persist", "clear"}, Hashed(h, p, pc)
  PROVE  DiskInv'
  <1> USE DiskAssumption DEF DiskInv, Thread
  <1>r. InRange
    BY Ranges
  <1>h. h \in Thread
    OBVIOUS
  <1>1. /\ Typed
        /\ UNCHANGED <<cache, diskMode, backing, files, histVars>>
        /\ cache.open /\ cache.disk \in Backing
        /\ Moved(h, pc, p, cache.disk)
    <2>1. cache.disk \in Backing
      BY <1>r DEF InRange, Hashed
    <2>2. th' \in [Thread -> ThreadRec] /\ Moved(h, pc, p, cache.disk)
      BY <1>h, HashedMoves
    <2> QED
      BY <2>1, <2>2 DEF TypeOK, Typed, Hashed
  <1>2. TypeOK'
    BY <1>h, <1>1 DEF TypeOK, Typed, files, histVars
  <1>3. StragglersOK'
    BY <1>h, <1>1, <1>r DEF StragglersOK, ThreadsOK, TypeOK, Typed, Moved, OthersStay, Idle, files,
       histVars
  <1>4. ThreadsOK'
    BY <1>h, <1>1, <1>r DEF ThreadsOK, InRange, StragglersOK, TypeOK, Typed, Moved, OthersStay,
       Idle, files, histVars, HasherPc, RemovePc
  <1>5. PrivateOK'
    BY <1>h, <1>1, <1>r DEF PrivateOK, InRange, ThreadsOK, TypeOK, Typed, Moved, OthersStay, Idle,
       files, histVars, HasherPc, RemovePc
  <1>6. LocksOK'
    <2>1. th[h].pc = "idle" /\ th'[h].pc = pc
      BY <1>1 DEF Hashed, Idle, Moved
    <2>2. \A t \in Thread \ {h} : th'[t] = th[t]
      BY <1>1 DEF Moved, OthersStay
    <2> QED
      BY <2>1, <2>2, <1>1, <1>r DEF LocksOK, InRange, Holding, HoldersLock, LocksHeld
  <1>7. HandlesOK'
    BY <1>h, <1>1, <1>r DEF HandlesOK, InRange, ThreadsOK, PrivateOK, LocksOK, TypeOK, Typed, Moved,
       OthersStay, Idle, files, histVars, Holding, HasherPc, RemovePc, OpenIsOwned, UsedIsOpen,
       HoldersLock, LocksHeld
  <1>8. ~dropped' => Intact'
    BY <1>h, <1>1, <1>r DEF Intact, InRange, ThreadsOK, PrivateOK, LocksOK, HandlesOK, Bits, TypeOK,
       Typed, Moved, OthersStay, Idle, files, histVars, Holding, HasherPc, RemovePc, IntactThreads,
       IntactFiles, IntactKept, HoldersLock, LocksHeld, OpenIsOwned, UsedIsOpen
  <1> QED
    BY <1>2, <1>3, <1>4, <1>5, <1>6, <1>7, <1>8

LEMMA CreateKeeps ==
  ASSUME DiskInv, NEW a \in Attacher, NEW b \in Backing \ InUse, CreateWith(a, b)
  PROVE  DiskInv'
  <1> USE DiskAssumption DEF DiskInv, Thread
  <1>r. InRange
    BY Ranges
  <1>h. a \in Thread /\ b \in Backing /\ b # cache.disk /\ \A t \in Thread : th[t].b # b
    BY DEF InUse
  <1>1. /\ Typed
        /\ th[a].pc = "create" /\ UNCHANGED <<cache, diskMode, bitmap, tmp, histVars>>
        /\ dat' = (IF dat = None THEN {} ELSE dat)
        /\ Moved(a, "load", th[a].p, b)
        /\ Changed(b, TRUE, {}, None)
    BY <1>h, CreateMoves DEF Typed, CreateWith
  <1>2. TypeOK'
    BY <1>h, <1>1 DEF TypeOK, Typed, histVars
  <1>3. StragglersOK'
    BY <1>h, <1>1, <1>r DEF StragglersOK, ThreadsOK, TypeOK, Typed, Moved, OthersStay, Idle,
       histVars
  <1>4. ThreadsOK'
    BY <1>h, <1>1, <1>r DEF ThreadsOK, InRange, StragglersOK, TypeOK, Typed, Moved, OthersStay,
       Changed, Idle, histVars, HasherPc, RemovePc
  <1>5. PrivateOK'
    BY <1>h, <1>1, <1>r DEF PrivateOK, InRange, ThreadsOK, TypeOK, Typed, Moved, OthersStay,
       Changed, Idle, histVars, HasherPc, RemovePc
  <1>6. LocksOK'
    BY <1>h, <1>1, <1>r DEF LocksOK, InRange, ThreadsOK, PrivateOK, TypeOK, Typed, Moved,
       OthersStay, Changed, Idle, histVars, Holding, HasherPc, RemovePc, HoldersLock, LocksHeld
  <1>7. HandlesOK'
    BY <1>h, <1>1, <1>r DEF HandlesOK, InRange, ThreadsOK, PrivateOK, LocksOK, TypeOK, Typed, Moved,
       OthersStay, Changed, Idle, histVars, Holding, HasherPc, RemovePc, OpenIsOwned, UsedIsOpen,
       HoldersLock, LocksHeld
  <1>8. ~dropped' => Intact'
    BY <1>h, <1>1, <1>r DEF Intact, InRange, ThreadsOK, PrivateOK, LocksOK, HandlesOK, Bits, TypeOK,
       Typed, Moved, OthersStay, Changed, Idle, histVars, Holding, HasherPc, RemovePc,
       IntactThreads, IntactFiles, IntactKept, HoldersLock, LocksHeld, OpenIsOwned, UsedIsOpen
  <1> QED
    BY <1>2, <1>3, <1>4, <1>5, <1>6, <1>7, <1>8

LEMMA OpenTorrentKeeps ==
  ASSUME DiskInv, OpenTorrent
  PROVE  DiskInv'
  <1> USE DiskAssumption DEF DiskInv, Thread
  <1>r. InRange
    BY Ranges
  <1>1. /\ Typed
        /\ ~cache.open /\ UNCHANGED <<diskMode, bitmap, tmp, th, histVars>>
        /\ \/ /\ cache' = [open |-> TRUE, closed |-> FALSE, disk |-> None]
              /\ UNCHANGED <<backing, dat>>
           \/ \E b \in Backing :
                /\ \A t \in Thread : th[t].b # b
                /\ cache' = [open |-> TRUE, closed |-> FALSE, disk |-> b]
                /\ Changed(b, TRUE, Bits, None)
                /\ dat' = (IF dat = None THEN {} ELSE dat)
    BY OpenTorrentOpens
  <1>2. TypeOK'
    <2>1. dat' = None \/ dat' \subseteq Piece
      BY <1>1 DEF TypeOK
    <2>2. cache' \in [open : BOOLEAN, closed : BOOLEAN, disk : Backing \cup {None}]
      <3>1. \E d \in Backing \cup {None} : cache' = [open |-> TRUE, closed |-> FALSE, disk |-> d]
        BY <1>1
      <3> QED
        BY <3>1
    <2> QED
      BY <1>1, <2>1, <2>2 DEF TypeOK, Typed, histVars
  <1>3. StragglersOK'
    BY <1>1, <1>r DEF StragglersOK, ThreadsOK, TypeOK, Typed, Idle, histVars
  <1>4. ThreadsOK'
    BY <1>1, <1>r DEF ThreadsOK, InRange, StragglersOK, TypeOK, Typed, Changed, Idle, histVars,
       HasherPc, RemovePc
  <1>5. PrivateOK'
    BY <1>1, <1>r DEF PrivateOK, InRange, ThreadsOK, TypeOK, Typed, Changed, Idle, histVars,
       HasherPc, RemovePc
  <1>6. LocksOK'
    BY <1>1, <1>r DEF LocksOK, InRange, ThreadsOK, PrivateOK, TypeOK, Typed, Changed, Idle,
       histVars, Holding, HasherPc, RemovePc, HoldersLock, LocksHeld
  <1>7. HandlesOK'
    BY <1>1, <1>r DEF HandlesOK, InRange, ThreadsOK, PrivateOK, LocksOK, TypeOK, Typed, Changed,
       Idle, histVars, Holding, HasherPc, RemovePc, OpenIsOwned, UsedIsOpen, HoldersLock, LocksHeld
  <1>8. ~dropped' => Intact'
    BY <1>1, <1>r DEF Intact, InRange, ThreadsOK, PrivateOK, LocksOK, HandlesOK, Bits, TypeOK,
       Typed, Changed, Idle, histVars, Holding, HasherPc, RemovePc, IntactThreads, IntactFiles,
       IntactKept, HoldersLock, LocksHeld, OpenIsOwned, UsedIsOpen
  <1> QED
    BY <1>2, <1>3, <1>4, <1>5, <1>6, <1>7, <1>8

LEMMA DropKeeps ==
  ASSUME DiskInv, Drop
  PROVE  DiskInv'
  <1> USE DiskAssumption DEF DiskInv, Thread
  <1>r. InRange
    BY Ranges
  <1>1. /\ Typed
        /\ UNCHANGED <<diskMode, backing, files, histVars>>
        /\ cache' = [open |-> FALSE, closed |-> FALSE, disk |-> None]
        /\ th[Teardown].pc = "drop" /\ th'[Teardown] = Idle
        /\ \A t \in Thread \ {Teardown} : /\ th'[t].pc = th[t].pc /\ th'[t].p = th[t].p /\ th'[t].b = th[t].b
                                           /\ th'[t].old = (th[t].pc # "idle")
        /\ \A t \in Thread : th[t] = Idle => th'[t] = Idle
    BY DropMoves
  <1>2. TypeOK'
    BY <1>1 DEF TypeOK, Typed, files, histVars
  <1>3. StragglersOK'
    BY <1>1, <1>r DEF StragglersOK, ThreadsOK, TypeOK, Typed, Idle, files, histVars
  <1>4. ThreadsOK'
    <2>1. ASSUME NEW h \in Hasher
          PROVE  \/ th'[h] = Idle
                 \/ th'[h].pc \in HasherPc /\ th'[h].p \in Piece /\ th'[h].b \in Backing
      BY <1>1 DEF ThreadsOK
    <2>2. ASSUME NEW a \in Attacher
          PROVE  \/ th'[a] = Idle
                 \/ th'[a].pc = "create" /\ th'[a].b = None
                 \/ th'[a].pc \in {"load", "set"} /\ th'[a].b \in Backing
      BY <1>1 DEF ThreadsOK
    <2>3. th'[Teardown] = Idle /\ th'[Teardown].pc = "idle" /\ ~cache'.closed /\ cache'.disk = None
      BY <1>1 DEF Idle
    <2> QED
      BY <2>1, <2>2, <2>3 DEF ThreadsOK, RemovePc
  <1>5. PrivateOK'
    BY <1>1, <1>r DEF PrivateOK, InRange, ThreadsOK, TypeOK, Typed, Idle, files, histVars, HasherPc,
       RemovePc
  <1>6. LocksOK'
    BY <1>1, <1>r DEF LocksOK, InRange, ThreadsOK, PrivateOK, TypeOK, Typed, Idle, files, histVars,
       Holding, HasherPc, RemovePc, HoldersLock, LocksHeld
  <1>7. HandlesOK'
    BY <1>1, <1>r DEF HandlesOK, InRange, ThreadsOK, PrivateOK, LocksOK, TypeOK, Typed, Idle, files,
       histVars, Holding, HasherPc, RemovePc, OpenIsOwned, UsedIsOpen, HoldersLock, LocksHeld
  <1>8. ~dropped' => Intact'
    BY <1>1, <1>r DEF Intact, InRange, ThreadsOK, PrivateOK, LocksOK, HandlesOK, Bits, TypeOK,
       Typed, Idle, files, histVars, Holding, HasherPc, RemovePc, IntactThreads, IntactFiles,
       IntactKept, HoldersLock, LocksHeld, OpenIsOwned, UsedIsOpen
  <1> QED
    BY <1>2, <1>3, <1>4, <1>5, <1>6, <1>7, <1>8

LEMMA CrashKeeps ==
  ASSUME DiskInv, Crash
  PROVE  DiskInv'
  <1> USE DiskAssumption DEF DiskInv, Thread
  <1>r. InRange
    BY Ranges
  <1>1. /\ Typed
        /\ UNCHANGED <<files, histVars>> /\ diskMode' = FALSE
        /\ cache' = [open |-> FALSE, closed |-> FALSE, disk |-> None]
        /\ \A t \in Thread : th'[t] = Idle
        /\ \A b \in Backing : backing'[b] = Unused
    BY CrashClears DEF TypeOK, Typed
  <1>2. TypeOK'
    BY <1>1 DEF TypeOK, Typed, files, histVars
  <1>3. StragglersOK'
    BY <1>1, <1>r DEF StragglersOK, ThreadsOK, TypeOK, Typed, Idle, Unused, files, histVars
  <1>4. ThreadsOK'
    BY <1>1, <1>r DEF ThreadsOK, InRange, StragglersOK, TypeOK, Typed, Idle, Unused, files,
       histVars, HasherPc, RemovePc
  <1>5. PrivateOK'
    BY <1>1, <1>r DEF PrivateOK, InRange, ThreadsOK, TypeOK, Typed, Idle, Unused, files, histVars,
       HasherPc, RemovePc
  <1>6. LocksOK'
    BY <1>1, <1>r DEF LocksOK, InRange, ThreadsOK, PrivateOK, TypeOK, Typed, Idle, Unused, files,
       histVars, Holding, HasherPc, RemovePc, HoldersLock, LocksHeld
  <1>7. HandlesOK'
    BY <1>1, <1>r DEF HandlesOK, InRange, ThreadsOK, PrivateOK, LocksOK, TypeOK, Typed, Idle,
       Unused, files, histVars, Holding, HasherPc, RemovePc, OpenIsOwned, UsedIsOpen, HoldersLock,
       LocksHeld
  <1>8. ~dropped' => Intact'
    BY <1>1, <1>r DEF Intact, InRange, ThreadsOK, PrivateOK, LocksOK, HandlesOK, Bits, TypeOK,
       Typed, Idle, Unused, files, histVars, Holding, HasherPc, RemovePc, IntactThreads,
       IntactFiles, IntactKept, HoldersLock, LocksHeld, OpenIsOwned, UsedIsOpen
  <1> QED
    BY <1>2, <1>3, <1>4, <1>5, <1>6, <1>7, <1>8

-----------------------------------------------------------------------------

LEMMA InitInv == Init => DiskInv
  <1> SUFFICES ASSUME Init PROVE DiskInv
    OBVIOUS
  <1>1. /\ \A t \in Thread : th[t] = Idle
        /\ \A b \in Backing : backing[b] = Unused
        /\ th[Teardown] = Idle
    BY DEF Init, Thread
  <1>2. TypeOK
    BY UnusedIdle DEF Init, TypeOK, NoCache
  <1>3. ThreadsOK /\ StragglersOK /\ PrivateOK /\ LocksOK /\ HandlesOK
    BY <1>1, DiskAssumption DEF Init, NoCache, Idle, Unused, Thread, ThreadsOK, StragglersOK,
       PrivateOK, LocksOK, HandlesOK, Holding, RemovePc, HoldersLock, LocksHeld, OpenIsOwned,
       UsedIsOpen
  <1>4. Intact
    BY <1>1, DiskAssumption DEF Init, NoCache, Idle, Unused, Thread, Intact, Bits, IntactThreads,
       IntactFiles, IntactKept
  <1> QED
    BY <1>2, <1>3, <1>4 DEF DiskInv

LEMMA StepInv == DiskInv /\ [Next]_vars => DiskInv'
  <1> SUFFICES ASSUME DiskInv, [Next]_vars PROVE DiskInv'
    OBVIOUS
  <1>1. CASE OpenTorrent \/ Crash
    BY <1>1, OpenTorrentKeeps, CrashKeeps
  <1>2. ASSUME NEW a \in Attacher,
               \/ \E disk \in BOOLEAN : SetMode(a, disk)
               \/ Create(a) \/ CreateFails(a) \/ LoadBitmap(a) \/ SetDisk(a)
        PROVE  DiskInv'
    <2>1. CASE Create(a)
      <3>1. PICK b \in Backing \ InUse : CreateWith(a, b)
        BY <2>1 DEF Create, CreateWith
      <3> QED
        BY <3>1, CreateKeeps
    <2> QED
      BY <1>2, <2>1, SetModeKeeps, CreateFailsKeeps, LoadBitmapKeeps, SetDiskKeeps
  <1>3. ASSUME NEW h \in Hasher, NEW p \in Piece, MarkComplete(h, p) \/ MarkNotComplete(h, p)
        PROVE  DiskInv'
    BY <1>3, HashedKeeps DEF MarkComplete, MarkNotComplete
  <1>4. ASSUME NEW h \in Hasher, \/ WritePiece(h) \/ Written(h) \/ WriteFails(h) \/ Clear(h)
                                 \/ OpenTmp(h) \/ FillTmp(h) \/ FillFails(h) \/ Rename(h)
        PROVE  DiskInv'
    BY <1>4, WritePieceKeeps, WrittenKeeps, WriteFailsKeeps, ClearKeeps, OpenTmpKeeps, FillTmpKeeps,
       FillFailsKeeps, RenameKeeps
  <1>5. CASE DropTorrent \/ Remove \/ UnlinkData \/ UnlinkBitmap \/ Close \/ Drop
    BY <1>5, DropTorrentKeeps, RemoveKeeps, UnlinkDataKeeps, UnlinkBitmapKeeps, CloseKeeps,
       DropKeeps
  <1>6. CASE UNCHANGED vars
    BY <1>6 DEF vars, DiskInv, TypeOK, ThreadsOK, StragglersOK, PrivateOK, LocksOK, HandlesOK,
       Intact, Bits, HoldersLock, LocksHeld, OpenIsOwned, UsedIsOpen, IntactThreads, IntactFiles,
       IntactKept
  <1> QED
    BY <1>1, <1>2, <1>3, <1>4, <1>5, <1>6 DEF Next

LEMMA AlwaysInv == Spec => []DiskInv
  BY InitInv, StepInv, PTL DEF Spec

\* A set bit means good data, until the torrent is deleted for the first time: whatever crashes,
\* failed writes and attach races come before (WritePiece, loadBitmap, attachDisk).
THEOREM BitsAreGood == Spec => []BitIsGoodUntilDrop
  <1>1. DiskInv => BitIsGoodUntilDrop
    BY DEF DiskInv, Intact, BitIsGoodUntilDrop, GoodBits, IntactThreads, IntactFiles, IntactKept
  <1> QED
    BY <1>1, AlwaysInv, PTL

\* A piece whose bit was saved is never downloaded again: no save, by whichever backing, loses it
\* until its hash fails or the torrent is deleted (saveBitmapLocked, attachDisk).
THEOREM SavedStaysSaved == Spec => []KeptIsOnDisk
  <1>1. DiskInv => KeptIsOnDisk
    BY DEF DiskInv, Intact, KeptIsOnDisk, IntactThreads, IntactFiles, IntactKept
  <1> QED
    BY <1>1, AlwaysInv, PTL

\* No data file stays open that the cache does not own, once nobody is at work on the torrent:
\* neither the loser of an attach race nor one whose cache was closed leaks its handle (attachDisk,
\* Close).
THEOREM HandlesAreOwned == Spec => []NoHandleLeaks
  <1>1. ASSUME DiskInv, \A t \in Thread : th[t].pc = "idle"
        PROVE  {b \in Backing : backing[b].open} = IF cache.open THEN {cache.disk} \ {None} ELSE {}
    <2>1. \A a \in Attacher : th[a].b = None
      BY <1>1 DEF DiskInv, ThreadsOK, Thread, Idle
    <2>2. Teardown \in Thread /\ th[Teardown].pc = "idle"
      BY <1>1 DEF Thread
    <2>3. cache.disk \in Backing \cup {None}
      BY <1>1, Ranges DEF DiskInv, InRange
    <2>4. \A b \in Backing : backing[b].open <=> b = cache.disk
      BY <1>1, <2>1, <2>2, DiskAssumption DEF DiskInv, HandlesOK, OpenIsOwned, UsedIsOpen
    <2>5. ~cache.open => cache.disk = None
      BY <1>1 DEF DiskInv, ThreadsOK
    <2> QED
      BY <2>3, <2>4, <2>5, DiskAssumption
  <1>2. DiskInv => NoHandleLeaks
    BY <1>1 DEF NoHandleLeaks
  <1> QED
    BY <1>2, AlwaysInv, PTL
=============================================================================
