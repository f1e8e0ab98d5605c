----------------------------- MODULE Lifecycle -----------------------------
(***************************************************************************)
(* How long a torrent lives: playback sessions and their keepalives, the   *)
(* reaper, the add, download, delete and pin handlers, the detached        *)
(* teardown that dropTorrent starts, and RestorePinned after a restart     *)
(* (handlers/playback.go, torrents.go, manage.go, library.go).             *)
(*                                                                         *)
(* One action is one critical section of lifecycleMu, one catalog call or  *)
(* one call of the torrent client.  Time is counted in reaper periods: it  *)
(* advances when the reaper wakes up, so an age of n means n rounds ago.   *)
(* The catalog's own file is the subject of Catalog; what a drop does      *)
(* inside the piece cache is the subject of PieceCache.                    *)
(***************************************************************************)
EXTENDS Integers, FiniteSets

CONSTANTS
  Hash,          \* infohashes
  Session,       \* player instances
  Request,       \* goroutines of the add, download and delete handlers
  Teardown,      \* goroutines started by dropTorrent; one is reused once it has ended
  None,
  SessionTTL,    \* sessionTTL and torrentGrace, in reaper periods
  TorrentGrace,
  MaxStreams,    \* maxStreams
  MaxAdds,       \* bound: how often a torrent is added or downloaded
  Ops            \* which operations the users perform in this instance

OpNames == {"play", "add", "timeout", "download", "save", "delete", "pin", "restart"}
Modes   == {"", "stream", "disk"}

ASSUME LifecycleAssumption ==
  /\ SessionTTL \in Nat /\ TorrentGrace \in Nat /\ MaxStreams \in Nat \ {0} /\ MaxAdds \in Nat
  /\ Ops \subseteq OpNames /\ None \notin Hash

VARIABLES
  playback,     \* session -> hash it watches and the age of its last ping
  torrentSeen,  \* hash -> age of the grace clock
  dropping,     \* hashes with a drop in flight
  torrents,     \* Client.Torrents()
  info,         \* those whose metadata has arrived
  caches,       \* hashes with a cache in Storage.caches
  catalog,      \* Catalog.entries
  reaper,       \* the reaper goroutine
  req,          \* the handler goroutines
  td,           \* the teardown goroutines
  restore,      \* what RestorePinned has still to add
  adds,         \* how often ResolveTorrent has been called
  veteran       \* history, read by no action: sessions that were live when the round began

vars == <<playback, torrentSeen, dropping, torrents, info, caches, catalog, reaper, req, td,
          restore, adds, veteran>>

\* Groups for UNCHANGED.
lifeVars   == <<playback, torrentSeen, dropping>>
clientVars == <<torrents, info, caches>>
userVars   == <<req, adds>>

Age(n) == 0..n + 1                       \* an age saturates once it exceeds its limit
Older(a, n) == IF a <= n THEN a + 1 ELSE a

NoSession == [hash |-> None, age |-> 0]
NoEntry   == [known |-> FALSE, pinned |-> FALSE, mode |-> "", source |-> FALSE]
Asleep    == [pc |-> "sleep", todo |-> {}, h |-> None]
NoReq     == [pc |-> "idle", h |-> None, disk |-> FALSE]
NoTd      == [pc |-> "none", h |-> None]

SessionRec == [hash : Hash \cup {None}, age : Age(SessionTTL)]
EntryRec   == [known : BOOLEAN, pinned : BOOLEAN, mode : Modes, source : BOOLEAN]
ReaperRec  == [pc : {"sleep", "sweep", "list", "next", "touch", "count", "claim"},
               todo : SUBSET Hash, h : Hash \cup {None}]
ReqRec     == [pc : {"idle", "wait", "lost", "seen", "upsert", "resolve", "disk", "remove"},
               h : Hash \cup {None}, disk : BOOLEAN]
TdRec      == [pc : {"none", "cache", "drop", "clear"}, h : Hash \cup {None}]

TypeOK ==
  /\ playback \in [Session -> SessionRec]
  /\ torrentSeen \in [Hash -> Age(TorrentGrace) \cup {None}]
  /\ dropping \in SUBSET Hash
  /\ torrents \in SUBSET Hash
  /\ info \in SUBSET Hash
  /\ caches \in SUBSET Hash
  /\ catalog \in [Hash -> EntryRec]
  /\ reaper \in ReaperRec
  /\ req \in [Request -> ReqRec]
  /\ td \in [Teardown -> TdRec]
  /\ restore \in SUBSET Hash
  /\ adds \in 0..MaxAdds
  /\ veteran \in SUBSET Session

-----------------------------------------------------------------------------
(* Shared by the handlers *)

Live            == {s \in Session : playback[s].hash # None}
Watching(h)     == {s \in Session : playback[s].hash = h}     \* torrentRefcountLocked
IsPersistent(h) == catalog[h].known /\ (catalog[h].pinned \/ catalog[h].mode = "disk")

\* Catalog.Upsert: a non-empty source or mode overwrites, the pin stays.
Upsert(h, source, mode) ==
  catalog' = [catalog EXCEPT ![h] =
               [known |-> TRUE, pinned |-> @.pinned,
                mode |-> IF mode = "" THEN @.mode ELSE mode, source |-> @.source \/ source]]

\* ResolveTorrent: the client adds the torrent, or returns the one it has.
Resolve(h) ==
  /\ adds < MaxAdds /\ adds' = adds + 1
  /\ torrents' = torrents \cup {h}

Start(q, pc, h, disk) == /\ req[q].pc = "idle"
                         /\ req' = [req EXCEPT ![q] = [pc |-> pc, h |-> h, disk |-> disk]]
Next_(q, pc)          == req' = [req EXCEPT ![q].pc = pc]
Return(q)             == req' = [req EXCEPT ![q] = NoReq]

\* Mutant: dropTorrent does not ask whether a drop is in flight.
ClaimAgain(h) ==
  /\ \E g \in Teardown : td[g].pc = "none" /\ td' = [td EXCEPT ![g] = [pc |-> "cache", h |-> h]]
  /\ dropping' = dropping \cup {h}
  /\ playback' = [s \in Session |-> IF s \in Watching(h) THEN NoSession ELSE playback[s]]
  /\ torrentSeen' = [torrentSeen EXCEPT ![h] = None]
  /\ veteran' = veteran \ Watching(h)

\* dropTorrent up to the start of its goroutine.  The purge of the per-file caches leaves
\* nothing this module models.
Claim(h) ==
  \/ h \in dropping /\ UNCHANGED <<lifeVars, td, veteran>>
  \/ /\ h \notin dropping
     /\ \E g \in Teardown : td[g].pc = "none" /\ td' = [td EXCEPT ![g] = [pc |-> "cache", h |-> h]]
     /\ dropping' = dropping \cup {h}
     /\ playback' = [s \in Session |-> IF s \in Watching(h) THEN NoSession ELSE playback[s]]
     /\ torrentSeen' = [torrentSeen EXCEPT ![h] = None]
     /\ veteran' = veteran \ Watching(h)

-----------------------------------------------------------------------------
(* Players *)

\* HandlePlaybackKeepalive: a new session needs room under the cap, an old one may also have
\* moved to another torrent.
Keepalive(s, h) ==
  /\ "play" \in Ops
  /\ s \in Live \/ Cardinality(Live) < MaxStreams
  /\ playback' = [playback EXCEPT ![s] = [hash |-> h, age |-> 0]]
  /\ veteran' = IF playback[s].hash = h THEN veteran ELSE veteran \ {s}
  /\ UNCHANGED <<clientVars, userVars, torrentSeen, dropping, catalog, reaper, td, restore>>

\* HandlePlaybackStop
Stop(s) ==
  /\ s \in Live
  /\ playback' = [playback EXCEPT ![s] = NoSession]
  /\ veteran' = veteran \ {s}
  /\ UNCHANGED <<clientVars, userVars, torrentSeen, dropping, catalog, reaper, td, restore>>

-----------------------------------------------------------------------------
(* The reaper *)

\* The sleep ends: everything is one period older.
Wake ==
  /\ reaper.pc = "sleep"
  /\ reaper' = [reaper EXCEPT !.pc = "sweep"]
  /\ playback' = [s \in Session |->
                   IF s \in Live THEN [playback[s] EXCEPT !.age = Older(@, SessionTTL)]
                   ELSE NoSession]
  /\ torrentSeen' = [h \in Hash |->
                      IF torrentSeen[h] = None THEN None ELSE Older(torrentSeen[h], TorrentGrace)]
  /\ veteran' = Live
  /\ UNCHANGED <<clientVars, userVars, dropping, catalog, td, restore>>

\* Expire the sessions whose keepalive lapsed.
Sweep ==
  LET expired == {s \in Live : playback[s].age > SessionTTL} IN
  /\ reaper.pc = "sweep"
  /\ reaper' = [reaper EXCEPT !.pc = "list"]
  /\ playback' = [s \in Session |-> IF s \in expired THEN NoSession ELSE playback[s]]
  /\ veteran' = veteran \ expired
  /\ UNCHANGED <<clientVars, userVars, torrentSeen, dropping, catalog, td, restore>>

\* Client.Torrents()
List ==
  /\ reaper.pc = "list"
  /\ reaper' = [reaper EXCEPT !.pc = "next", !.todo = torrents]
  /\ UNCHANGED <<lifeVars, clientVars, userVars, catalog, td, restore, veteran>>

\* The next torrent, and isPersistentTorrent; or the round is over.
Visit ==
  /\ reaper.pc = "next"
  /\ \/ /\ reaper.todo = {}
        /\ reaper' = Asleep
     \/ \E h \in reaper.todo :
          reaper' = [pc |-> IF IsPersistent(h) THEN "touch" ELSE "count",
                     todo |-> reaper.todo \ {h}, h |-> h]
  /\ UNCHANGED <<lifeVars, clientVars, userVars, catalog, td, restore, veteran>>

\* A persistent torrent's clock is kept fresh.
Touch ==
  /\ reaper.pc = "touch"
  /\ torrentSeen' = [torrentSeen EXCEPT ![reaper.h] = 0]
  /\ reaper' = [reaper EXCEPT !.pc = "next"]
  /\ UNCHANGED <<clientVars, userVars, playback, dropping, catalog, td, restore, veteran>>

\* Mutant: the reaper looks at the clock alone.
CountClockOnly ==
  LET h == reaper.h IN
  /\ reaper.pc = "count"
  /\ IF torrentSeen[h] # None /\ torrentSeen[h] > TorrentGrace
     THEN reaper' = [reaper EXCEPT !.pc = "claim"] /\ UNCHANGED torrentSeen
     ELSE /\ torrentSeen' = [torrentSeen EXCEPT ![h] = IF @ = None THEN 0 ELSE @]
          /\ reaper' = [reaper EXCEPT !.pc = "next"]
  /\ UNCHANGED <<clientVars, userVars, playback, dropping, catalog, td, restore, veteran>>

\* Mutant: a session-less torrent never starts its clock.
CountNoClock ==
  LET h == reaper.h IN
  /\ reaper.pc = "count"
  /\ IF Watching(h) = {} /\ torrentSeen[h] # None /\ torrentSeen[h] > TorrentGrace
     THEN reaper' = [reaper EXCEPT !.pc = "claim"]
     ELSE reaper' = [reaper EXCEPT !.pc = "next"]
  /\ torrentSeen' = [torrentSeen EXCEPT ![h] = IF Watching(h) # {} THEN 0 ELSE @]
  /\ UNCHANGED <<clientVars, userVars, playback, dropping, catalog, td, restore, veteran>>

\* The refcount and the grace clock, under the lock.
Count ==
  LET h == reaper.h
      seen == torrentSeen[h]
      idle == Watching(h) = {} /\ seen # None
  IN /\ reaper.pc = "count"
     /\ torrentSeen' = IF idle THEN torrentSeen ELSE [torrentSeen EXCEPT ![h] = 0]
     /\ reaper' = [reaper EXCEPT !.pc = IF idle /\ seen > TorrentGrace THEN "claim" ELSE "next"]
     /\ UNCHANGED <<clientVars, userVars, playback, dropping, catalog, td, restore, veteran>>

\* The lock was released in between.
Reap ==
  /\ reaper.pc = "claim"
  /\ Claim(reaper.h)
  /\ reaper' = [reaper EXCEPT !.pc = "next"]
  /\ UNCHANGED <<clientVars, userVars, catalog, restore>>

-----------------------------------------------------------------------------
(* The goroutine of dropTorrent *)

\* Mutant: the goroutine returns once it has closed the cache; the client keeps the torrent.
CloseCacheOnly(g) ==
  /\ td[g].pc = "cache"
  /\ caches' = caches \ {td[g].h}
  /\ td' = [td EXCEPT ![g].pc = "clear"]
  /\ UNCHANGED <<lifeVars, userVars, torrents, info, catalog, reaper, restore, veteran>>

\* RemoveDisk, Close and DeleteCache, if the torrent has a cache.
CloseCache(g) ==
  /\ td[g].pc = "cache"
  /\ caches' = caches \ {td[g].h}
  /\ td' = [td EXCEPT ![g].pc = "drop"]
  /\ UNCHANGED <<lifeVars, userVars, torrents, info, catalog, reaper, restore, veteran>>

\* Torrent.Drop: whoever waits for this torrent's metadata waits in vain.
Drop(g) ==
  LET h == td[g].h IN
  /\ td[g].pc = "drop"
  /\ torrents' = torrents \ {h}
  /\ info' = info \ {h}
  /\ req' = [q \in Request |-> IF req[q].pc = "wait" /\ req[q].h = h
                               THEN [req[q] EXCEPT !.pc = "lost"] ELSE req[q]]
  /\ td' = [td EXCEPT ![g].pc = "clear"]
  /\ UNCHANGED <<lifeVars, adds, caches, catalog, reaper, restore, veteran>>

ClearDropping(g) ==
  /\ td[g].pc = "clear"
  /\ dropping' = dropping \ {td[g].h}
  /\ td' = [td EXCEPT ![g] = NoTd]
  /\ UNCHANGED <<clientVars, userVars, playback, torrentSeen, catalog, reaper, restore, veteran>>

-----------------------------------------------------------------------------
(* Requests *)

\* Metadata arrives from the swarm and the client opens the storage.
GotInfo(h) ==
  /\ h \in torrents \ info
  /\ info' = info \cup {h}
  /\ caches' = caches \cup {h}
  /\ UNCHANGED <<lifeVars, userVars, torrents, catalog, reaper, td, restore, veteran>>

\* HandleGetFiles: resolve ...
Add(q, h, disk) ==
  /\ "add" \in Ops
  /\ Resolve(h)
  /\ Start(q, "wait", h, disk)
  /\ UNCHANGED <<lifeVars, info, caches, catalog, reaper, td, restore, veteran>>

\* ... wait for the metadata, or give up after 45 seconds ...
AddInfo(q) ==
  /\ req[q].pc = "wait" /\ req[q].h \in info
  /\ Next_(q, "seen")
  /\ UNCHANGED <<lifeVars, clientVars, adds, catalog, reaper, td, restore, veteran>>

AddTimeout(q) ==
  /\ \/ req[q].pc = "lost"
     \/ "timeout" \in Ops /\ req[q].pc = "wait" /\ req[q].h \notin info
  /\ Return(q)
  /\ UNCHANGED <<lifeVars, clientVars, adds, catalog, reaper, td, restore, veteran>>

\* ... start the grace clock ...
AddSeen(q) ==
  /\ req[q].pc = "seen"
  /\ torrentSeen' = [torrentSeen EXCEPT ![req[q].h] = 0]
  /\ Next_(q, "upsert")
  /\ UNCHANGED <<clientVars, adds, playback, dropping, catalog, reaper, td, restore, veteran>>

\* ... and remember the torrent in the catalog.
AddUpsert(q) ==
  /\ req[q].pc = "upsert"
  /\ Upsert(req[q].h, TRUE, IF req[q].disk THEN "disk" ELSE "stream")
  /\ Return(q)
  /\ UNCHANGED <<lifeVars, clientVars, adds, reaper, td, restore, veteran>>

\* HandleSaveLibrary: catalog only, no mode.
SaveLibrary(h) ==
  /\ "save" \in Ops
  /\ Upsert(h, TRUE, "")
  /\ UNCHANGED <<lifeVars, clientVars, userVars, reaper, td, restore, veteran>>

\* HandleDownloadSaved: look the remembered source up, resolve it, switch the entry to disk
\* mode; a DELETE may come in between.
DownloadSaved(q, h) ==
  /\ "download" \in Ops /\ catalog[h].known /\ catalog[h].source
  /\ Start(q, "resolve", h, TRUE)
  /\ UNCHANGED <<lifeVars, clientVars, adds, catalog, reaper, td, restore, veteran>>

DownloadResolve(q) ==
  /\ req[q].pc = "resolve"
  /\ Resolve(req[q].h)
  /\ Next_(q, "disk")
  /\ UNCHANGED <<lifeVars, info, caches, catalog, reaper, td, restore, veteran>>

DownloadUpsert(q) ==
  /\ req[q].pc = "disk"
  /\ Upsert(req[q].h, FALSE, "disk")
  /\ Return(q)
  /\ UNCHANGED <<lifeVars, clientVars, adds, reaper, td, restore, veteran>>

\* HandleDeleteTorrent: drop, then forget the catalog entry.
Delete(q, h) ==
  /\ "delete" \in Ops
  /\ Claim(h)
  /\ Start(q, "remove", h, FALSE)
  /\ UNCHANGED <<clientVars, adds, catalog, reaper, restore>>

DeleteRemove(q) ==
  /\ req[q].pc = "remove"
  /\ catalog' = [catalog EXCEPT ![req[q].h] = NoEntry]
  /\ Return(q)
  /\ UNCHANGED <<lifeVars, clientVars, adds, reaper, td, restore, veteran>>

\* setPinned: an unknown hash gets a bare entry.
SetPinned(h, pinned) ==
  /\ "pin" \in Ops
  /\ catalog' = [catalog EXCEPT ![h].known = TRUE, ![h].pinned = pinned]
  /\ UNCHANGED <<lifeVars, clientVars, userVars, reaper, td, restore, veteran>>

-----------------------------------------------------------------------------
(* Restart *)

\* The process ends and starts again: only the catalog is left.
Restart ==
  /\ "restart" \in Ops
  /\ veteran' = {}
  /\ restore' = {h \in Hash : catalog[h].pinned /\ catalog[h].source}
  /\ playback' = [s \in Session |-> NoSession]
  /\ torrentSeen' = [h \in Hash |-> None]
  /\ dropping' = {} /\ torrents' = {} /\ info' = {} /\ caches' = {}
  /\ reaper' = Asleep
  /\ req' = [q \in Request |-> NoReq]
  /\ td' = [g \in Teardown |-> NoTd]
  /\ UNCHANGED <<adds, catalog>>

\* RestorePinned adds the pinned torrents one by one.
RestorePinned(h) ==
  /\ h \in restore
  /\ restore' = restore \ {h}
  /\ torrents' = torrents \cup {h}
  /\ UNCHANGED <<lifeVars, userVars, info, caches, catalog, reaper, td, veteran>>

-----------------------------------------------------------------------------

Init ==
  /\ playback = [s \in Session |-> NoSession]
  /\ torrentSeen = [h \in Hash |-> None]
  /\ dropping = {} /\ torrents = {} /\ info = {} /\ caches = {}
  /\ catalog = [h \in Hash |-> NoEntry]
  /\ reaper = Asleep
  /\ req = [q \in Request |-> NoReq]
  /\ td = [g \in Teardown |-> NoTd]
  /\ restore = {}
  /\ adds = 0
  /\ veteran = {}

ReaperStep == Wake \/ Sweep \/ List \/ Visit \/ Touch \/ Count \/ Reap

TeardownStep(g) == CloseCache(g) \/ Drop(g) \/ ClearDropping(g)

RequestStep(q) ==
  \/ AddInfo(q) \/ AddTimeout(q) \/ AddSeen(q) \/ AddUpsert(q)
  \/ DownloadResolve(q) \/ DownloadUpsert(q) \/ DeleteRemove(q)

User ==
  \/ \E s \in Session : Stop(s) \/ \E h \in Hash : Keepalive(s, h)
  \/ \E h \in Hash : SaveLibrary(h) \/ \E b \in BOOLEAN : SetPinned(h, b)
  \/ \E q \in Request, h \in Hash :
       DownloadSaved(q, h) \/ Delete(q, h) \/ \E d \in BOOLEAN : Add(q, h, d)

Next ==
  \/ User \/ ReaperStep \/ Restart
  \/ \E g \in Teardown : TeardownStep(g)
  \/ \E q \in Request : RequestStep(q)
  \/ \E h \in Hash : GotInfo(h) \/ RestorePinned(h)

Spec == Init /\ [][Next]_vars

\* The reaper's loop, the teardown goroutines and the handlers keep running; users, the swarm
\* and timeouts owe nothing.
Fairness ==
  /\ WF_vars(ReaperStep)
  /\ \A g \in Teardown : WF_vars(TeardownStep(g))
  /\ \A q \in Request : WF_vars(RequestStep(q))

LiveSpec == Spec /\ Fairness

-----------------------------------------------------------------------------
(* Properties *)

Tearing(h) == {g \in Teardown : td[g].pc # "none" /\ td[g].h = h}

\* The reaper and DELETE never tear the same torrent down twice at once, and the `dropping'
\* mark is there exactly while a teardown runs: it neither outlives it, which would make the
\* torrent undroppable, nor ends early (dropTorrent).
OneTeardown ==
  \A h \in Hash : Cardinality(Tearing(h)) = (IF h \in dropping THEN 1 ELSE 0)

\* A torrent with metadata that nobody is dropping has its piece cache registered, however
\* adds, metadata and teardowns interleave: a request never finds a torrent it cannot read
\* (OpenTorrent, HandleGetFiles against the goroutine of dropTorrent).
ResolvedHasCache == info \ dropping \subseteq caches

\* The reaper never decides against a torrent that a session has been watching since before
\* the round began, whatever sessions start, stop, expire or move meanwhile
\* (ReapPlaybackSessions: expiry, refcount and grace clock).
WatchedIsSpared ==
  reaper.pc = "claim" => \A s \in veteran : playback[s].hash # reaper.h

\* A torrent nobody watches and nobody keeps is dropped in the end: the grace clock gets
\* started, it runs out, and no leftover `dropping' mark stands in the way
\* (ReapPlaybackSessions, dropTorrent).
AbandonedIsDropped ==
  \A h \in Hash : h \in torrents ~> (h \notin torrents \/ Watching(h) # {} \/ IsPersistent(h))
=============================================================================
