# TLA+ models of TorrentGo

TorrentGo is a BitTorrent streaming engine: it adds torrents on demand, keeps their pieces in a
bounded RAM cache (or spills them to disk), serves them to players while they download, directly or
as HLS renditions that it cuts and transcodes on the fly, extracts subtitles, metadata and thumbnails,
and drops a torrent when nobody watches it any more. This directory holds TLA+ models of the parts
that own shared state, the TLC configurations that check them and TLAPS proofs about them.

Run from this directory: `tlc -config PieceCache_faults.cfg MCPieceCache`, `tlapm PieceCacheProofs.tla`.

## The system

| Part | State | Operations | Interacts with |
| --- | --- | --- | --- |
| `storage` piece cache | `MemPiece` objects, `Cache.pieces`, `filled`, `closed`, `Storage.caches`, `globalFilled`, `globalCapacity`, `evictMu` | `WriteAt`, `ReadAt`, `MarkComplete`, `MarkNotComplete`, eviction, `Close`, `DeleteCache`, `SetGlobalCapacity` | called by the anacrolix client's goroutines, by readers and by teardown |
| `storage.Reader` | position, registration, closed flag | `Read`, `Seek`, `Close` | protects a window from eviction; waits on a piece's channels; makes the client look at a piece again |
| `diskBacking` | have bits, `.dat` handle, bitmap file and its temporary file | `newDiskBacking`, `WritePiece`, `Clear`, `Remove`, `Close`; `attachDisk` | spill and reload of the cache; survives restart |
| playback sessions and reaper | `playback`, `torrentSeen`, `dropping` under `lifecycleMu` | keepalive, stop, the reaper's rounds, `dropTorrent` and its detached goroutine | torrent client, piece cache, catalog, every per-file cache |
| catalog | `entries`, `catalog.json` | `Upsert`, `SetPinned`, `Remove`, `persist`, load | all add, pin, save, download and delete handlers; `RestorePinned` |
| extraction executor | `inflight` per class under a mutex and a condition variable | `Acquire`, release, cancellation | subtitle and thumbnail jobs |
| subtitle, metadata and thumbnail handlers | `subtitleCache`, `subtitleExtracted`, `subtitleWinBad`, `metadataCache`, `durationCache`, `ThumbnailCache`, three single-flight groups | window, whole-file and single-track extraction, probe, thumbnail | executor; `dropTorrent` purges them |
| rendition manager | generation state, pipeline, tokens of the admission gates | `Acquire`, `Segment`, `Release` | providers |
| HLS handlers | `hlsSegList`, `hlsStreamLayout`, `segCache`, two single-flight groups | playlist, init and segment requests of video, audio, external audio and subtitles | segment production, audio transcoders; `dropTorrent` purges them |
| continuous audio transcoders | `audioCont`, `audioContCount`, frames of each transcoder | start, seek restart, wait, slice, drop | single flight, `dropTorrent` |
| segment grid and production | `segList`; demuxer, muxer and timestamp state of one segment; slots of the transcode gate | `computeSegList`, `uniformSegList`, `produceSegmentRetry`, `Segment` | libav |
| codecs, container indexes, analyzer, preload, server, config, auth, logging, UI | none of their own that is shared | parsing, set-up, wiring | - |

What is hard: goroutines of the client, of readers, of HTTP handlers and of teardown meet in one
cache whose locks are released between the steps of one operation; a `MemPiece` pointer outlives its
map entry; two byte counters must agree with what is resident; wakeups go to objects that are
replaced; the reaper decides under a lock and acts after releasing it; teardown runs detached while
requests add the same torrent again; the catalog and the bitmap are read after a crash; single flights
share one client's work with others; a condition variable is woken by contexts; tokens have to come
back on every error path; segments are cut independently of each other and have to fit together.
`PROJECT.json` lists each of these hazards at its line with the properties that cover it.

What makes the parts correct: no byte is counted twice or forgotten; eviction never takes what a
player is reading; a waiting player is woken, and somebody is fetching what it waits for; a closed
cache stays empty; every call returns; a torrent is torn down once at a time, never from under a
player, and always in the end; a restart brings back what was kept and believes nothing else; nobody
fails because another client left; admission lets in no more than its limit and forgets nobody; what a
player is sent was cut from one grid and has every frame once.

## Modules

* `PieceCache`: storage/ without priorities. Every goroutine is a thread with a program counter; an
  action is one critical section of `Cache.mu`, `MemPiece.mu` or `evictMu`, or one atomic add, so
  threads interleave exactly where the code unlocks. `Close` holds `Cache.mu` over several piece
  releases, during which writers, who hold only `MemPiece.mu`, may run: `lock` models that. An object
  of `Obj` is a `MemPiece` pointer. `client` is the part of the anacrolix client that decides its
  calls (external): it writes chunks it has not got, hashes a piece when every chunk is in and no
  write to it is running, and re-reads `Completion` when told.
* `DiskBacking`: the three files of one torrent, the `diskBacking` objects that refer to them, and the
  threads that hash, attach (`SetMode`) and drop. One action per system call or critical section;
  `Crash` may come between any two. `PieceCache` treats the backing as a set of bits that is always
  right; `DiskBacking` says when it is.
* `Lifecycle`: sessions, reaper, handlers, teardown goroutine, restart. An action is one critical
  section of `lifecycleMu`, one catalog call or one call of the client. Time is counted in reaper
  periods.
* `Catalog`: `persist` step by step over inodes, with crashes, failing writes and renames, and any number of
  writers on the one temporary file. The history variables (`saved`, `touched`, `lone`, `taken`, `clash`, `failed`)
  record which persist has met another and what the last to run alone has saved; no action reads them.
  `Lifecycle` treats a catalog call as one durable step; `Catalog` says when that is justified.
* `Semaphore`: the abstract specification of an admission point. The executor's classes are shown to
  implement it (`ClassesAreSemaphores`) through a refinement mapping from the executor's state.
* `Executor`: `Acquire` with its mutex, condition variable and `context.AfterFunc`. A waiter enters the
  list before it unlocks, as `sync.Cond` does; the check of the context and the wait are two steps,
  between which the context may end.
* `Extraction`: the handlers for one file, composed with `Executor` (EXTENDS): its requests are the
  executor's jobs. `UsesExecutor` says that every behaviour of the composition is one of `Executor`.
  Metadata and duration have a cache each and one flight. `GetOrProbeDuration` may begin at any time, as its
  callers do: the builder of a grid, and the goroutine that every metadata request starts to warm HLS up
  (what else that goroutine does, grid, layout and transcoder, is in `Hls` like any other request).
* `Rendition`: the tour over candidates in the manager's order, admission, prepare, prime,
  commit, and then `Segment` and `Release` on the committed generation. The sort of the candidates goes
  comparison by comparison, each of which reads the devices' loads as they are then.
* `Segmenter`: the grids, and the production of one segment as a function from the packets the demuxer
  yields to the samples the muxer gets, with retries and the transcode gate around it. libav is
  external: a frame is a pair of timestamps and a key flag, and a file comes with the `index` of its
  keyframes. `SourceAssumption` names what is taken from libav and the containers, each part because
  the code relies on it: the index has the keyframes' times in order (`IsIndexed`), a stream is stored in
  decoding order (`IsOrdered`), what is decoded before a keyframe is shown before it (`IsGrouped`), sound is
  not stored before a keyframe that is shown no later (`IsInterleaved`), there is no more than a packet
  for a tick (`IsSparse`, without which the dts that `sanitizeCopyDTS` counts up would overtake the pts), and a
  packet whose pts the demuxer leaves unset is shown when it is decoded (`IsTimed`). A packet with neither
  timestamp makes the muxer refuse it: one of the failures of an attempt.
* `AudioCont`: transcoders, `getAudioCont`, the wait loops and `dropAudioCont`. Positions are frames.
* `Hls`: every rendition request, composed with `AudioCont` (EXTENDS): look-ups of grid and layout with
  their single flights, the segment cache, production, the purge. What a segment holds is the business
  of `Segmenter`; here it is the grid it was cut from and its size.
* `MC*`: instances, symmetry and views. `*Proofs`: the theorems about a module,
  with the inductive invariant they need at the top.

A definition whose comment begins with "Mutant" is a plausible bug in the definition after it. The
specifications do not use them; `PROJECT.json` says which property each one breaks, and maps every
other definition to its source lines.

## Runs

| Run | Shows |
| --- | --- |
| `cache_faults` | two torrents, two workers, a reader, failed hashes: `filled` equals resident bytes at every step and `globalFilled` at rest; no wakeup is lost; a reader of a live cache is never given bytes that did not arrive; the eviction pass, whose candidate list is stale, spares the piece being read; nothing but a failed hash between refetch and wait leaves a reader waiting on an object that is not mapped |
| `cache_stream` | a reader of a stream-mode torrent moves between two pieces while pieces fail their hash and the budget changes: the client is fetching the mapped piece it sleeps on, and what stays available is served unless a failed hash has stranded it |
| `cache_disk` | disk mode: a persisted piece is never downloaded again, a cache that is closed or dropped under running calls stays empty, every call returns |
| `disk_crash` | hashes, two attaching requests, a delete, failing writes and a crash at any step: until the torrent is deleted a set bit means whole data and a saved bit is never lost; no lost attach race leaks a file handle |
| `disk_vbit` | violation: see below |
| `life_teardown` | all the handlers, restarts and the reaper on one torrent: one teardown at a time; a resolved torrent has its cache |
| `life_reaper` | a player moves between two torrents: the reaper never decides against one watched since before the round, and an abandoned one is dropped |
| `catalog_crash` | two writers that may clash, over two torrents, crashes, writes and renames that fail: once a persist has run alone, the file is up to date whenever nothing is under way, and a restart brings back what was saved unless persists have clashed since; what a clash costs is each other's mutations or the whole file, never the entry of a torrent that nobody has touched in a file that can be read |
| `extract_requests` | windows that fall back on the whole file and on single tracks; metadata, durations and whole-file requests under a drop; thumbnails at the cache's limit; clients leave at any moment: one batch per file, nobody fails because somebody else left (a thumbnail's followers excepted), a slow file is not taken for one without an index, the thumbnail list matches its map, the executor forgets nobody and admits no more than its limit, and every request returns unless new ones keep overtaking it |
| `rendition_tour` | two acquisitions and two readers over two devices and the CPU, with every category of failure: a token that is out is held by somebody, nobody uses a pipeline that is being closed, an ended generation never runs again, acquisitions and releases come to an end |
| `segment_tiles` | seven small files with B pictures, open groups, unset timestamps, variable rate and boundaries that truncate: the grid cuts at the first keyframe that will do, the muxer gets valid gapless samples, copying moves no picture and loses none, and every frame that has a time is in one segment |
| `hls_serve` | video, audio, external audio, subtitle and playlist requests race for grid, layout, cache and transcoders, seek in a track whose grid need not begin at its first frame, trip the cap and meet a drop: the byte count is exact and within the limit, everything served was cut from one grid, an audio segment has no hole, the count of transcoders is never above what is stored, and every request is answered |

`disk_vbit` violates `disk.go:17-18`, "so a set bit means good data": `Remove` deletes the data before the
bitmap (and `Clear` on a removed backing writes the bitmap anew), so a process that dies in between
leaves bits without data; the next time the torrent is added, an empty data file is created, the bits are
loaded, and the pieces count as complete and read as zeros. `disk_crash` therefore states its properties up
to the first delete.

### Divergences without a run

Met while modelling; the models behave as the code does, and the properties are stated so far as they hold.

Storage and lifecycle:

* `storage/cache.go:161`: `UpdateFilled` skips a closed cache although `Close` has already subtracted the
  bytes, which leaves `globalFilled` low for good. `cache_faults` has no close.
* `storage/cache.go:386`: a read reloads a piece object that has left the map meanwhile, and its bytes
  stay counted. `cache_faults` has no disk.
* `storage/mempiece.go:93`: a write that still holds a piece which `Close` has released allocates the buffer anew,
  and a reader already past its wait is given its zeros. `ServedBytesReceived` is about live caches.
* `storage/reader.go:136`: a failed hash between refetch and wait leaves the reader asleep on
  an orphan until its budget ends, where line 133 says that nothing can strand it. The runs have failed hashes:
  `StrandedOnlyByFailedHash` says that this is the only way, and `AvailableIsServed` and `SleeperIsFetched`
  leave out a reader that is stranded so.
* `storage/reader.go:136`: in disk mode the wait loop never hydrates again; a piece persisted just after the
  reader looked is neither loaded nor downloaded. `cache_stream` has no disk.
* `storage/piece.go:47`: an eviction pass of another thread may take a piece between mark and persist.
* `storage/storage.go:127`: the retroactive attach is called "safe because no piece has completed yet"; a
  piece that has completed is never persisted.
* `handlers/playback.go:181`: a session that starts between the reaper's refcount and the claim is purged
  with the torrent, where line 157 says that a watched one is never touched. `WatchedIsSpared` is about
  sessions that were there when the round began.
* `handlers/playback.go:172`: a session that starts and stops between two rounds does not restart the
  grace clock.
* `handlers/torrents.go:595`: a torrent added while its teardown is under way is dropped by it.
* `handlers/torrents.go:114`: a torrent pinned before it has a source is not restored.
* `catalog/catalog.go:136`: adding a disk-mode torrent again without a mode makes it a stream.
* `catalog/catalog.go:84`, `:94`: of two concurrent mutations the older snapshot may be renamed last, and one
  writer may rename the temporary file that the other has just truncated; a restart then loses a mutation, or
  the whole catalog. Both are in the behaviours of `Catalog`: `QuietIsDurable` asks nothing
  from a clash until the next persist that runs alone, and `CrashKeepsSaved` only what a clash cannot cost.

Extraction and HLS:

* `handlers/metadata.go:136`: `getOrProbeDuration` shares the flight `metadataSFG`, key included, with the metadata
  handler, but its function returns the cached duration, a `float64`, if it finds one (line 138), where line 99
  asserts bytes (`base.([]byte)`). One request probes; two others, one for the duration and one for the
  metadata, have looked into the caches before it stores its results. When its flight is over, the one for the
  duration leads the next, the one for the metadata joins it and is handed a number: its handler panics. Every
  metadata request starts one for the duration (line 62), so that two clients that open a file at once suffice.
  `Extraction` has the flight as it is, with a `number` among its results.
* `handlers/thumbnails.go:203`: the leader waits for a slot with its own context, so that its leaving fails
  everybody who joined; line 209 detaches only the decoding.
* `media/segment.go:206`: on the uniform grid, a B picture decoded after the first packet at or past the end
  is in neither segment, where line 312 says that consecutive segments abut exactly. `SegmentsTile` asks
  for every frame once on the keyframe grid, in audio, and in sources without reordering.
* `media/segment.go:138`: seconds become ticks by truncation; a start that falls short makes the copy repeat
  the group of pictures before it (against line 234). Of such files `SegmentsTile`
  asks only that nothing is lost.
* `media/segment.go:286`: the leading pictures of an open group in Matroska, whose first packet has no dts, are
  moved behind their keyframe. `SamplesAbut` excepts them.
* `handlers/hls.go:107`: the cache key of an external audio segment omits the video file whose grid it was cut
  by, where line 84 promises that it lines up with the video. `ServedFitsPlaylist` leaves external audio out.
* `handlers/torrents.go:575`: a production that was running during the purge puts its segment afterwards; when
  the torrent comes back with another grid, the old segment is served. `ServedFitsPlaylist` ends at a drop.
* `handlers/hlsaudiocont.go:62`: of two requests that see the same seek the second deletes the transcoder the
  first has started; that one goes on, and dropTorrent cannot find it (against line 24). Both lower the
  count, so it may be too low. `CountIsNotHigh` says that it is never too high but for the increments and
  decrements that are on their way, since a deletion and its decrement, a store and its increment are two steps.
* `handlers/hlsaudiocont.go:71`: the cap is checked and the count raised in different steps.
* `handlers/hlsaudiocont.go:43`: `producedTo` already includes the start, which is added again; forward seeks
  are recognised late.
* `handlers/hlsaudiocont.go:143`: a follower of a flight may get a transcoder that starts after its window.
  `SliceIsContiguous` asks for the frames from where the transcoder began.
* `media/audiocont.go:109`: `Free` may come before the goroutine has ended, and a transcoder that failed stays
  stored until the next seek.

### Bounds

* `PieceCache`: bytes are counted in blocks; a piece has one or two, a torrent one or two pieces, and the
  budget is one or two blocks, so that every completion is over budget and eviction always has work.
  `Back = Ahead = Edge = 0` protects exactly the current piece, so that a two-piece torrent has a piece to
  evict; the code protects more. `Obj` bounds live `MemPiece` objects; every run has one for each map slot
  and each thread that can hold one, so the bound does not block. `MaxDrift` stops new operations once the
  accountant is far off. Two workers (or a worker and a reader) suffice for every pair of operations to
  overlap at every pair of points.
* `DiskBacking`: two pieces (one bit saved by somebody else), two hashes, two attaching requests, two
  `diskBacking` objects; a third attach waits until nobody refers to one of them. The process dies, not the
  machine: nothing calls fsync, and what a power failure does is not modelled.
* `Catalog`: two writers meet at every pair of steps; three inodes are the catalog, the temporary file and one
  that a writer still has open after it was renamed over. An entry is there or not: what it says is copied as it
  is, and which of two values a file has is all the properties ask.
* `Lifecycle`: TTL and grace are one round, in `life_reaper` none (a session that did not ping since the last
  round has lapsed), which leaves room for a second torrent; ages saturate one past the limit, since only
  "exceeded" is ever asked. `MaxAdds` is 2: add, drop, add again. A teardown goroutine that has ended is
  reused; two suffice since a torrent has at most one.
* `Extraction`: two requests, one slot per class, one track, two thumbnail positions for a cache of one, one
  drop. `Scenarios` splits the operations into four mixes: windows with their fallbacks, metadata and the batch
  under a drop, metadata and durations under a drop, thumbnails. Metadata and durations take no slot; the other
  mixes share nothing but the executor, and a job of one class is like any other of it there.
* `Rendition`: two requests, two callers of `Segment`, one token per gate. The two inventories make every
  kind of candidate come up; a rendition's name is reused when nobody is at it. Providers name the devices in
  any order. `sort.SliceStable` is an insertion sort up to twenty devices, which is how it is modelled; the two loads of
  one comparison are read in one step.
* `Segmenter`: `Source` is a list of seven files of at most ten packets, each with one of the difficulties
  (a tick is the grid's tolerance; the target is scaled down to nine ticks, three frames); `shortStart` and `shortEnd` say
  which boundaries truncate, `torn` which packet a read at the download front may tear, `unset` which packets
  come without a pts, `untimed` which pictures leave the decoder without one. Segments are asked
  for in order, and only productions that need the gate overlap (`InOrder`): productions share nothing else,
  so that no other order gives another result.
* `Hls`, `AudioCont`: a track of three frames; the copy grid begins at the second, the uniform one has two frames a
  segment, or what is left. A transcoder starts at a keyframe inside the track, or at its beginning when seeking
  fails. A cache of two bytes (frames), a cap of one transcoder, two `Tc` objects (a start waits while both are
  referred to). `Scenarios` bounds what is asked in one behaviour and how often: a cold start under a drop,
  audio requests that seek, init beside segments of two files, audio under a drop, and everything else. Two
  requests meet at every pair of steps; what takes three of them is proved (`HlsProofs`), not run.
* Views drop what no action reads: garbage objects, and history after it has lost its meaning.

Deadlock is checked for `Lifecycle` (the reaper always goes on), `Catalog`, `DiskBacking`, `Extraction` and
`Rendition`; in `PieceCache`, `Segmenter` and `Hls` the environment may run out of things to do, so there
it is not, and `CallsReturn`, `ProductionReturns` and `EveryRequestReturns` take its place.

### Fairness

A goroutine that has started an operation goes on: weak fairness of its steps. Where it waits for a mutex
or a channel that others take again and again, strong fairness: Go's mutexes hand over to a waiter that
has starved for a millisecond and its channels serve waiters in order (`EvictLock`, the executor's mutex,
`ReleaseEnter` on `pipelineMu`, `acquire` of the transcode gate). Nothing is assumed of the client's calls,
of users, of the swarm, or that a context or a deadline ends; where a wait may not end without one, the
property says so or the wait is for somebody who owes an answer. Demuxing, decoding, probing and priming
return, with data, an error or their deadline, as the deadlines in the code make them.

## Proofs

`PieceCacheProofs`, for any number of caches, pieces, blocks, objects, workers and readers and any set
of operations, from `ConstantsAssumption` (naturals, disjoint threads, `None` outside the pools):

* `TypeCorrect`: `Spec => [](TypeOK /\ ThreadOK)`. `TypeOK` alone is not inductive: an action reads
  `pieces[th[t].c]` and `obj[th[t].o]`, which needs to know that at that program counter the thread
  does hold a cache and an object. `ThreadOK` states that per program counter, `ReaderOK` the same
  of registered readers; `TInv` is their conjunction, preserved action by action (one lemma each).
* `ClosedStaysEmpty`: `Spec => []NoResurrection`. Every action other than `CloseBegin` and the
  closing thread's own steps satisfies `Calm`: it puts nothing into a closed cache that is not
  being emptied; and `CloseEnd` establishes the property.
* `NoWakeupLost`: `Spec => []NoLostWakeup`. Strengthened by `ParkedOK`: a parked reader is registered
  with the object its thread holds and that object lacks the range; every action that gives an object
  a range also wakes it.
* `ReceivedIsServed` and `DiskIsKept`: `ServedBytesReceived` and `DiskPieceKept`, from `PieceInv`. That the bytes
  of a piece are what its ranges say can be disturbed by anybody who holds the object, so the invariant
  says who may: one object for each piece of a cache (`OwnOK`) and one hash of it at a time (`OneHash`);
  what a worker between two critical sections has seen and is about to do (`WritingOK`, `HashingOK`,
  `MarkingOK`, `LoadingOK`); and that the client knows of every complete piece (`KnownOK`). With these, a range
  that is marked has arrived (`ReceivedOK`), and a reader past its wait keeps its range (`ServingOK`).
* `ReadersSpared`: `Spec => EvictionSparesReaders`, an action property. A running read is at the cache and the
  position its reader is registered with (`WindowOK`), so the second look of `evictPiece` sees it.
* `StrandedByFailedHashOnly`: `Spec => StrandedOnlyByFailedHash`, an action property. `MapStep` says of every step that
  it keeps the piece objects of a live cache in the map, except for one it wakes everybody on, which is in no
  reader's window or has failed its hash; `ReadStep`, that a read keeps its piece or takes the mapped one.
* `SleepersAreFetched`: `Spec => []SleeperIsFetched`, where no torrent is backed by disk (with files, the second
  divergence at `reader.go:136` is a counterexample). `AskedOK`: what the client believes of a piece somebody
  waits for is true or about to be corrected; `HoldsOK`: a complete piece that a read holds is the mapped one.
* `LiveFilledExact`: in every state, of every cache that has no disk and has not been closed, `filled` is the
  bytes of its mapped pieces less what writers have put in a piece and not yet added (`FilledExactIn`), with
  closes, drops and disk caches beside it. `FilledStaysExact` and `GlobalFilledStaysExact` are `FilledExact` and
  `GlobalFilledExact` where no torrent is closed or backed by disk, which is what `cache_faults` runs; the
  divergences at `cache.go:161` and `:386` are the counterexamples otherwise. `GlobalFilledExact` speaks of rest
  and is far from inductive: `LedgerInv` says what `globalFilled` is in between, namely resident bytes less what
  threads are still to add (`Adding`) plus what they are still to subtract (`Subbing`). Every step of a thread
  either settles its own debts (`Clears`) or moves the bytes of one mapped piece (`Posts`), since an object
  stands for one piece (`OwnOK`) and a running write goes to the mapped one (`WritingOK`). A sum is the number of
  its units (`Total`), so that it changes with one weight (`Change`) by facts about finite sets and without
  induction; that the units are finitely many is part of the invariant, so no set is assumed finite.

`ExtractionProofs` holds the executor's theorems too. For any finite set of jobs, any classes and any positive limits (`ExecutorAssumption`):

* `NoWaiterForgotten`: `ExecSpec => []WaitersHaveReason`. The invariant `ExecInv` adds that the mutex is
  held exactly between check and wait (`MutexOK`), that a count is the number of jobs with a slot
  (`CountOK`), and that what a job about to wait has seen is still so (`ParkOK`): a context that ends
  then has its waker blocked on the mutex.
* `ExecutorImplementsSemaphore`: `ExecSpec => ClassesAreSemaphores`, the refinement of `Semaphore`: jobs from
  call to slot are asking, jobs with a slot inside. `CountOK` turns the counter's test into the bound on
  `inside`; a step maps to one abstract action or a stutter.

For the composition (with `ExtractionAssumption`): `HandlersUseExecutor`, `Spec => UsesExecutor`, step by step:
every action of a handler is an `Executor` action or leaves its variables alone. From it follow
`NoRequestForgotten` and `ExtractionIsAdmitted`, the two theorems above for the composed system.

The module also proves the handlers' own invariants, `BatchIsDoneOnce`, `OnlyLeaversAreCancelled`,
`SlowWindowsAreKept` and `ThumbsAreListed`, for any requests, tracks, pictures and limits (model values
differ from each other: `None` is no job, a picture is no path). `ExtInv` says of each request that it
leads its flight while it works (`FlightOK`: so one batch at a time, and whoever rechecks after it finds it
done), that a context that has ended is the own one of a client that left (`EndedOK`, `CancelledOK`), and
that a pass over the windows has stored what it passed or knows that it stopped early (`WindowOK`). Of the
thumbnail cache, `ListOK` says that the list is free of duplicates and has the elements of the map;
the lemmas about `RemoveFirst`, `Append` and `Tail` turn this into the cardinality.

`DiskBackingProofs`, for any pieces, backings, hashers and attachers (`DiskAssumption`): `BitsAreGood`,
`SavedStaysSaved` and `HandlesAreOwned`, all from `DiskInv`. What a bit means can only be followed if it is
known who may touch a backing: `PrivateOK` (an attacher has its backing to itself until the cache takes
it), `LocksOK` (a backing's lock is held exactly by whoever is changing it or its files) and `HandlesOK`
(an open handle is the cache's or an attacher's). `Intact` says the rest until the torrent is deleted:
bits, bitmap and data only gain, a temporary bitmap about to be renamed is that of its backing, and the
bitmap an attacher has read is not behind what was saved while the cache has no backing.

`RenditionProofs`, for any finite set of requests, any callers, gates and limits (`RenditionAssumption`):
`NoTokenLeaks` and `PipelineIsGuarded`. The tokens are counted by cardinalities, and each step adds or
removes one holder of one gate (`CandidateOK`: who is at a gate has a candidate). For the pipeline,
`CallersOK` and `OwnerOK` tie "in use" and "closing" to the pipeline's mutex, and `UnknownOK` says that
nobody knows a rendition before it is committed.

`LifecycleProofs`, for any torrents, sessions, requests and teardown goroutines: `TeardownIsExclusive`,
`CacheIsThere` and `WatchersAreSafe`. `MarksOK` makes marks and running teardowns a bijection;
`ReopenedOK` is what `ResolvedHasCache` needs at the moment a teardown takes its mark away: once the
client has dropped the torrent, metadata can only come with a new cache.

`CatalogProofs`, for any hashes, inodes and writers (`CatalogAssumption`): `QuietCatalogIsDurable`, and the action
property `CrashUndoesNothing`. No hypothesis keeps writers apart; the invariant
says what a persist that has met no other can rely on (`LoneOK`: the temporary file is its own, and holds what
it took once the write is done), that somebody is on the way to save what the file does not have
(`PendingOK`), and that every snapshot in use, the catalog and a temporary file in use agree with what was last
saved but for the hashes mutated since (`UntouchedOK`).

`HlsProofs`, for any files, requests, transcoders, track lengths, keyframes, grids and limits
(`AudioContAssumption`, `HlsAssumption`; a grid's cuts increase):

* `CacheIsExact`: `Spec => []CacheExact`, the sum included. `BytesTo` sums the list of entries; what it is for
  a list with an entry removed, put in front or cut off at the back is shown by lemmas that need induction.
  The provers cannot instantiate the library's induction rules, but they can use that strict inclusion of
  finite sets is well-founded: `LeastNatural` derives the least-number principle from it, and
  `SumsExist`, `SumsUnique` and `SameGrowth` argue by a least counterexample.
* `OneGridIsServed`: `Spec => []ServedFitsPlaylist`. A request that builds a grid leads its flight
  (`BuilderLeads`), who leads it is building and, before the first drop, has no grid before it or has yet
  to look (`LeaderBuilds`), so a grid is stored only where there was none; hence everything in a request
  (`OneGrid`) and in the cache (`CacheOneGrid`) was cut by the file's one grid. Segments of external audio are
  excepted: their keys do not name the video.
* `SlicesAreWhole` and `CountNeverHigh`: `SliceIsContiguous` and `CountIsNotHigh`. A transcoder that has its
  config has every frame from its first to its position (`TranscoderOK`: `Free` takes both away together);
  a caller that has stopped waiting finds it past its window, and stays so because a transcode only goes
  on (`Later`). Only the leader of a track's flight stores a transcoder, and the place is empty then; each
  deletion that takes something from the map has its decrement on the way (`CountOK`).

`SegmenterProofs`, for any files that satisfy `SourceAssumption`, any segment length above the tolerance and any
number of workers, slots and attempts (`SegmenterAssumption`):

* `GridsAreGreedy`: `Spec => []GridIsGreedy`. The grids are recursive functions over the keyframes. `CutsExist`
  and `CutsAreGreedy` climb along them: a set that has the first number and with each the next has all
  (`Climb`, from the well-foundedness of the naturals), which stands in for the induction rules. What the
  cuts of the first keyframes satisfy (`GreedyTo`) is stronger than the property: no keyframe looked at lies a
  whole segment past the last cut.
* `SamplesAlwaysAbut`: `Spec => []SamplesAbut`, from `SegInv`, an invariant of every production at every packet.
  `Links`: the samples written and the one held make a chain. `CopyOK`: a copy begins with a packet that may
  begin one, and its last dts is the packet's own or counted up from the first pts by less than the packets
  in between (`Tame`), which is why the repair leaves a picture shown after the first where it is.
* `SegmentsAlwaysTile`: `Spec => []SegmentsTile`. `TakenOK`: a production has written, holds or has in the decoder
  exactly those packets up to its position that belong to its window; when it ends these are the
  segment's (`Covers`). Then it is a matter of the windows: `WindowCovers` and `KeyCovers` show that each packet
  is covered by the segment whose interval it falls in, and `KeyCoversOnly` by no other.

All inductive invariants were checked by TLC on the instances of the runs before they were proved.
`TypeOK` is checked for `PieceCache`; in the other modules it is part of the inductive invariant.

Only model-checked: liveness, since fairness is outside the prover: `AvailableIsServed`, `CallsReturn`,
`AbandonedIsDropped`, `ToursEnd`, `ProductionReturns` and the two `EveryRequestReturns`. Every safety and action
property of the runs that pass is stated by a theorem. Where a theorem has a hypothesis (`FilledStaysExact`,
`GlobalFilledStaysExact`, `SleepersAreFetched`), the run has the same one.

## Not modelled, and abstractions

* Last-access order in the piece cache: an eviction pass takes candidates in any order, so what holds here
  holds for LRU. The segment and thumbnail caches keep their order.
* Priorities, read classes and wait budgets: a reader may give up at any time. `Storage.Close`, `WaitForPieces`
  and preload.
* HTTP validation, link formats, playlists as text, and errors that return without changing state.
* In `Extraction` a drop empties its five maps in one step; what a request finds between two of them is left out.
  So is the master playlist's probe outside the flight (`hls.go:121`), which stores in the same caches what
  any other probe stores.
* Media metadata in the catalog; only source, pin and mode matter to the lifecycle.
* The progressive stream (`stream.go`): its read-ahead buffer belongs to one goroutine, over the reader that
  `PieceCache` models.
* The container indexes and FFmpeg set-up: parsers and library calls without shared state; `Segmenter` takes
  the keyframes and packets they yield as given. The analyzer's only call is commented out.
* The rendition package is called by its tests only; no handler uses it yet.
* The parts listed as `not_modelled` in `PROJECT.json`, with the reason.

## Plan

The safety properties are proved; what is left is to widen the models: `Storage.Close` and `WaitForPieces` in
`PieceCache`, preload, and the progressive stream's read-ahead.
