----------------------------- MODULE Extraction -----------------------------
(***************************************************************************)
(* The extraction handlers of one file of one torrent: metadata probe,     *)
(* subtitles (a window around the playhead, the whole file in one batch, a *)
(* single track) and thumbnails, with their caches, their single flights   *)
(* and the executor that admits them, while clients leave and the torrent  *)
(* is dropped and added again (handlers/subtitles.go, thumbnails.go,       *)
(* metadata.go, dropTorrent).                                              *)
(*                                                                         *)
(* A request is a goroutine.  A step is one access of a cache, one entry   *)
(* to or exit from a single flight, or the demuxing of one track; the      *)
(* executor's own steps are those of Executor.  Demuxing is external: it   *)
(* yields data, fails, or runs into its deadline.                          *)
(***************************************************************************)
EXTENDS Executor, SequencesExt

CONSTANTS
  Tracks,      \* text subtitle tracks, 1..Tracks
  Thumb,       \* thumbnail positions, rounded
  MaxThumbs,   \* ThumbnailCache.maxSize
  MaxDrops,    \* bound: how often the torrent is dropped
  Scenarios,   \* bound: which kinds of operation meet in one behaviour
  None

\* The ways a request takes through the handlers.
Path == {"meta", "duration", "window", "whole", "single", "thumb"}

ASSUME ExtractionAssumption ==
  /\ Tracks \in Nat /\ MaxThumbs \in Nat \ {0} /\ MaxDrops \in Nat
  /\ {"window", "heavy"} \subseteq Class
  /\ None \notin Job \cup {"fresh", "stale"}
  /\ Thumb \cap Path = {}
  /\ Scenarios \subseteq SUBSET {"meta", "duration", "window", "whole", "other", "thumb", "drop"}

VARIABLES
  req,         \* the request goroutines
  flight,      \* single-flight key -> the request whose function runs
  metadata,    \* metadataCache has the file
  duration,    \* durationCache has the file
  subs,        \* subtitleCache
  extracted,   \* subtitleExtracted
  winBad,      \* subtitleWinBad
  thumbs,      \* ThumbnailCache.items: position -> "fresh", "stale" or None
  order,       \* ThumbnailCache.order, least recently used first
  torrent,     \* "active"; "dropping" once purged; "gone" for the client
  seekable,    \* whether the container can be read from the middle
  drops,
  scenario     \* the kinds of operation of this behaviour; never changes

probeVars == <<metadata, duration>>
subVars == <<subs, extracted, winBad>>
cacheVars == <<probeVars, subVars>>
thumbVars == <<thumbs, order>>
worldVars == <<torrent, seekable, drops, scenario>>
vars == <<execVars, req, flight, cacheVars, thumbVars, worldVars>>

\* A subtitle request names a track, whether windowed, and whether the format is the one the
\* batches produce.
SubKey == [track : 1..Tracks, window : BOOLEAN, native : BOOLEAN]
Flight == {"meta", "window", "whole"} \cup Thumb

NoReq == [pc |-> "idle", path |-> "meta", key |-> None, left |-> FALSE, todo |-> 0,
          stored |-> FALSE, res |-> "ok"]

Pcs == {"idle", "load", "batched", "fly", "follow", "recheck", "probe", "open", "store", "acquire",
         "work", "release", "mark", "reload", "reply"}

\* What a request or the function of a flight returns; "number" where it is a duration and not
\* the bytes of the metadata.
Result == {"ok", "number", "later", "cancelled", "error"}

TypeOK ==
  /\ ExecTypeOK
  /\ req \in [Job -> [pc : Pcs, path : Path, key : SubKey \cup Thumb \cup {None}, left : BOOLEAN,
                      todo : 0..Tracks, stored : BOOLEAN, res : Result]]
  /\ flight \in [Flight -> Job \cup {None}]
  /\ metadata \in BOOLEAN /\ duration \in BOOLEAN
  /\ extracted \in BOOLEAN /\ winBad \in BOOLEAN /\ seekable \in BOOLEAN
  /\ subs \in SUBSET SubKey
  /\ thumbs \in [Thumb -> {"fresh", "stale", None}]
  /\ order \in Seq(Thumb)
  /\ torrent \in {"active", "dropping", "gone"}
  /\ drops \in 0..MaxDrops
  /\ scenario \in Scenarios

-----------------------------------------------------------------------------
(* Requests *)

Step(r, pc) == req' = [req EXCEPT ![r].pc = pc]
Reply(r, res) == req' = [req EXCEPT ![r].pc = "reply", ![r].res = res]

Begin(r, path, key, pc) ==
  /\ req[r].pc = "idle"
  /\ req' = [req EXCEPT ![r] = [NoReq EXCEPT !.pc = pc, !.path = path, !.key = key]]
  /\ UNCHANGED <<execVars, flight, cacheVars, thumbVars, worldVars>>

HandleGetMediaMetadata(r) == Begin(r, "meta", None, "load")

\* The grid's builder asks for the duration: a segment or playlist request, or the goroutine that
\* every metadata request starts to warm HLS up (what else that one does is in Hls).
GetOrProbeDuration(r) == Begin(r, "duration", None, "load")

\* A request with a start is windowed, unless windows do not work for this file.
HandleGetSubtitles(r, key) ==
  Begin(r, IF key.window /\ ~winBad THEN "window" ELSE "whole",
        [key EXCEPT !.window = @ /\ ~winBad], "load")

\* The thumbnail handler asks the client for the torrent first.
HandleGetThumbnail(r, k) == torrent # "gone" /\ Begin(r, "thumb", k, "load")

\* The client goes away. What runs detached from its context does not notice; the only wait that
\* could is the one for a slot, so leaving before it is the same as leaving then.
ClientLeaves(r) ==
  /\ req[r].pc = "work" /\ ~req[r].left
  /\ req' = [req EXCEPT ![r].left = TRUE]
  /\ UNCHANGED <<execVars, flight, cacheVars, thumbVars, worldVars>>

Finish(r) ==
  /\ req[r].pc = "reply"
  /\ req' = [req EXCEPT ![r] = NoReq]
  /\ UNCHANGED <<execVars, flight, cacheVars, thumbVars, worldVars>>

-----------------------------------------------------------------------------
(* ThumbnailCache *)

\* Mutant: remove leaves the key in the order.
RemoveItemOnly(k) == thumbs' = [thumbs EXCEPT ![k] = None] /\ UNCHANGED order

remove(k) ==
  /\ thumbs' = [thumbs EXCEPT ![k] = None]
  /\ order' = RemoveFirst(order, k)

moveToMRU(k) == order' = Append(RemoveFirst(order, k), k)

\* Get: an entry past its time to live is removed.
ThumbGet(k) ==
  \/ thumbs[k] = None /\ UNCHANGED thumbVars
  \/ thumbs[k] = "stale" /\ remove(k)
  \/ thumbs[k] = "fresh" /\ moveToMRU(k) /\ UNCHANGED thumbs

\* Set: at the limit the least recently used entry goes first.
ThumbSet(k) ==
  LET full == Cardinality({t \in Thumb : thumbs[t] # None}) >= MaxThumbs /\ order # <<>>
  IN IF thumbs[k] # None
     THEN moveToMRU(k) /\ thumbs' = [thumbs EXCEPT ![k] = "fresh"]
     ELSE /\ thumbs' = [t \in Thumb |-> IF t = k THEN "fresh"
                                        ELSE IF full /\ t = Head(order) THEN None ELSE thumbs[t]]
          /\ order' = Append(IF full THEN Tail(order) ELSE order, k)

\* Time passes.
ThumbAges(k) ==
  /\ thumbs[k] = "fresh"
  /\ thumbs' = [thumbs EXCEPT ![k] = "stale"]
  /\ UNCHANGED <<execVars, req, flight, cacheVars, order, worldVars>>

-----------------------------------------------------------------------------
(* Caches and single flights *)

\* The duration shares the metadata's flight.
FlightOf(r) == CASE req[r].path = "thumb"    -> req[r].key
                 [] req[r].path = "duration" -> "meta"
                 [] OTHER                    -> req[r].path

Hit(r) == CASE req[r].path = "meta"     -> metadata
            [] req[r].path = "duration" -> duration
            [] req[r].path = "thumb"    -> thumbs[req[r].key] = "fresh"
            [] OTHER                    -> req[r].key \in subs

\* The look-up before the flight.
Load(r) ==
  /\ req[r].pc = "load"
  /\ IF req[r].path = "thumb" THEN ThumbGet(req[r].key) ELSE UNCHANGED thumbVars
  /\ \/ Hit(r) /\ Reply(r, "ok")
     \/ ~Hit(r) /\ Step(r, IF req[r].path = "whole" THEN "batched" ELSE "fly")
  /\ UNCHANGED <<execVars, flight, cacheVars, worldVars>>

\* The whole file's second look-up: after the batch there is no flight to join.
Batched(r) ==
  /\ req[r].pc = "batched"
  /\ Step(r, IF extracted THEN "reload" ELSE "fly")
  /\ UNCHANGED <<execVars, flight, cacheVars, thumbVars, worldVars>>

\* singleflight.Do (external): the first one runs the function, the others wait for its result.
Fly(r) ==
  /\ req[r].pc = "fly"
  /\ IF flight[FlightOf(r)] = None
     THEN /\ flight' = [flight EXCEPT ![FlightOf(r)] = r]
          /\ Step(r, IF req[r].path = "meta" THEN "probe" ELSE "recheck")
     ELSE UNCHANGED flight /\ Step(r, "follow")
  /\ UNCHANGED <<execVars, cacheVars, thumbVars, worldVars>>

\* Mutant: the result of a failed function reaches its leader only.
LandAlone(r, res) ==
  LET k == FlightOf(r)
      aboard == {r} \cup {q \in Job : res = "ok" /\ req[q].pc = "follow" /\ FlightOf(q) = k}
      again(q) == req[q].path \in {"duration", "window", "whole"} /\ res \in {"ok", "number"}
  IN /\ flight' = [flight EXCEPT ![k] = None]
     /\ req' = [q \in Job |-> IF q \in aboard
                              THEN [req[q] EXCEPT !.pc = IF again(q) THEN "reload" ELSE "reply",
                                                  !.res = res]
                              ELSE req[q]]

\* The function has returned: its result goes to the leader and to everybody who followed.
Land(r, res) ==
  LET k == FlightOf(r)
      aboard == {r} \cup {q \in Job : req[q].pc = "follow" /\ FlightOf(q) = k}
      again(q) == req[q].path \in {"duration", "window", "whole"} /\ res \in {"ok", "number"}
  IN /\ flight' = [flight EXCEPT ![k] = None]
     /\ req' = [q \in Job |-> IF q \in aboard
                              THEN [req[q] EXCEPT !.pc = IF again(q) THEN "reload" ELSE "reply",
                                                  !.res = res]
                              ELSE req[q]]

\* Mutant: the whole-file batch does not look again once it leads the flight.
RecheckNot(r) ==
  /\ req[r].pc = "recheck"
  /\ Step(r, "probe")
  /\ UNCHANGED <<flight, execVars, cacheVars, thumbVars, worldVars>>

\* Inside the flight: another one may have landed since the look-up. A duration that has been
\* stored meanwhile is what this flight returns, to everybody who shares it.
Recheck(r) ==
  LET done == IF req[r].path = "whole" THEN extracted ELSE Hit(r) IN
  /\ req[r].pc = "recheck"
  /\ IF req[r].path = "thumb" THEN ThumbGet(req[r].key) ELSE UNCHANGED thumbVars
  /\ \/ done /\ Land(r, IF req[r].path = "duration" THEN "number" ELSE "ok")
     \/ ~done /\ Step(r, IF req[r].path = "thumb" THEN "acquire" ELSE "probe") /\ UNCHANGED flight
  /\ UNCHANGED <<execVars, cacheVars, worldVars>>

\* probeAndCacheMetadata has the metadata: that is all there is to its own flight, a batch goes on.
Probed(r) == IF req[r].path \in {"meta", "duration"} THEN Land(r, "ok")
             ELSE Step(r, "acquire") /\ UNCHANGED flight

\* The double check; the duration may be missing where the metadata are there.
Probe(r) ==
  /\ req[r].pc = "probe"
  /\ \/ metadata /\ Probed(r)
     \/ ~metadata /\ Step(r, "open") /\ UNCHANGED flight
  /\ UNCHANGED <<execVars, cacheVars, thumbVars, worldVars>>

\* The probe, under its own time limit; a torrent that has gone cannot be opened. The duration is
\* stored first, and not at all if it is zero.
ProbeTracks(r) ==
  /\ req[r].pc = "open"
  /\ \/ /\ torrent # "gone"
        /\ duration' \in {duration, TRUE}
        /\ Step(r, "store") /\ UNCHANGED flight
     \/ Land(r, "error") /\ UNCHANGED duration
  /\ UNCHANGED <<execVars, metadata, subVars, thumbVars, worldVars>>

StoreMetadata(r) ==
  /\ req[r].pc = "store"
  /\ metadata' = TRUE
  /\ Probed(r)
  /\ UNCHANGED <<execVars, duration, subVars, thumbVars, worldVars>>

\* After the flight, and after a batch: the key itself, or the next wider extraction.
Reload(r) ==
  /\ req[r].pc = "reload"
  /\ \/ Hit(r) /\ Reply(r, "ok")
     \/ ~Hit(r) /\ req[r].path = "duration" /\ Reply(r, "error")
     \/ ~Hit(r) /\ req[r].path = "window" /\ req' = [req EXCEPT ![r].pc = "load", ![r].path = "whole",
                                                                ![r].key.window = FALSE]
     \/ ~Hit(r) /\ req[r].path = "whole" /\ req' = [req EXCEPT ![r].pc = "acquire", ![r].path = "single"]
  /\ UNCHANGED <<execVars, flight, cacheVars, thumbVars, worldVars>>

-----------------------------------------------------------------------------
(* Admission and demuxing *)

Batch(r)   == req[r].path \in {"window", "whole"}
Working(r) == req[r].pc = "work" /\ job[r].pc = "slot"

ClassOf(r) == IF req[r].path \in {"window", "thumb"} THEN "window" ELSE "heavy"

\* Batches are admitted with a context of their own, a single track and a thumbnail with the
\* request's.
OwnContext(r) == req[r].path \in {"single", "thumb"}

Acquire(r) ==
  /\ req[r].pc = "acquire"
  /\ Call(r, ClassOf(r))
  /\ req' = [req EXCEPT ![r].pc = "work", ![r].stored = FALSE, ![r].res = "ok",
                        ![r].todo = IF Batch(r) THEN Tracks ELSE 0]
  /\ UNCHANGED <<flight, cacheVars, thumbVars, worldVars>>

\* Mutant: a batch waits with the context of whoever leads it.
ContextEndsAny(r) ==
  /\ req[r].pc = "work" /\ req[r].left
  /\ Expire(r)
  /\ UNCHANGED <<req, flight, cacheVars, thumbVars, worldVars>>

ContextEnds(r) ==
  /\ req[r].pc = "work" /\ req[r].left /\ OwnContext(r)
  /\ Expire(r)
  /\ UNCHANGED <<req, flight, cacheVars, thumbVars, worldVars>>

\* The result of a request that demuxes, for itself or for its flight.
Conclude(r, res) == IF req[r].path = "single" THEN Reply(r, res) /\ UNCHANGED flight ELSE Land(r, res)

NotAdmitted(r) ==
  /\ req[r].pc = "work" /\ job[r].pc = "failed"
  /\ Return(r)
  /\ Conclude(r, "cancelled")
  /\ UNCHANGED <<cacheVars, thumbVars, worldVars>>

\* Mutant: a track that ran into the deadline is skipped like one that cannot be read.
DemuxTrackLate(r) ==
  LET key == [track |-> Tracks - req[r].todo + 1, window |-> req[r].path = "window", native |-> TRUE] IN
  /\ Working(r) /\ req[r].todo > 0
  /\ \/ /\ torrent # "gone" /\ (req[r].path = "window" => seekable)
        /\ subs' = subs \cup {key}
        /\ req' = [req EXCEPT ![r].todo = @ - 1, ![r].stored = TRUE]
     \/ /\ req' = [req EXCEPT ![r].todo = @ - 1]
        /\ UNCHANGED subs
  /\ UNCHANGED <<execVars, flight, probeVars, extracted, winBad, thumbVars, worldVars>>

\* A batch reads one track after the other and stores each in the format of its codec. One that
\* cannot be opened or read is skipped; the deadline ends the batch.
DemuxTrack(r) ==
  LET key == [track |-> Tracks - req[r].todo + 1, window |-> req[r].path = "window", native |-> TRUE] IN
  /\ Working(r) /\ req[r].todo > 0
  /\ \/ /\ torrent # "gone" /\ (req[r].path = "window" => seekable)
        /\ subs' = subs \cup {key}
        /\ req' = [req EXCEPT ![r].todo = @ - 1, ![r].stored = TRUE]
     \/ /\ torrent = "gone" \/ req[r].path = "whole" \/ ~seekable
        /\ req' = [req EXCEPT ![r].todo = @ - 1]
        /\ UNCHANGED subs
     \/ /\ req' = [req EXCEPT ![r].pc = "release", ![r].res = "later"]
        /\ UNCHANGED subs
  /\ UNCHANGED <<execVars, flight, probeVars, extracted, winBad, thumbVars, worldVars>>

\* One track or one picture: cached if it could be read.
DemuxOne(r) ==
  /\ Working(r) /\ ~Batch(r)
  /\ \/ /\ torrent # "gone"
        /\ IF req[r].path = "thumb" THEN ThumbSet(req[r].key) /\ UNCHANGED subs
                                    ELSE subs' = subs \cup {req[r].key} /\ UNCHANGED thumbVars
        /\ Step(r, "release")
     \/ req' = [req EXCEPT ![r].pc = "release", ![r].res = "error"] /\ UNCHANGED <<subs, thumbVars>>
  /\ UNCHANGED <<execVars, flight, probeVars, extracted, winBad, worldVars>>

\* A batch is over after its last track, anything else when it says so.
Over(r) == req[r].pc = "release" \/ (Working(r) /\ Batch(r) /\ req[r].todo = 0)

\* The deferred release runs on every way out.
Leave(r) ==
  /\ Over(r)
  /\ Release(r)
  /\ \/ Batch(r) /\ req[r].res = "ok" /\ Step(r, "mark") /\ UNCHANGED flight
     \/ ~(Batch(r) /\ req[r].res = "ok") /\ Conclude(r, req[r].res)
  /\ UNCHANGED <<cacheVars, thumbVars, worldVars>>

\* The batch is done: never again for the whole file; no windows if a window held nothing.
Mark(r) ==
  /\ req[r].pc = "mark"
  /\ extracted' = (extracted \/ req[r].path = "whole")
  /\ winBad' = (winBad \/ (req[r].path = "window" /\ ~req[r].stored))
  /\ Land(r, "ok")
  /\ UNCHANGED <<execVars, probeVars, subs, thumbVars, worldVars>>

-----------------------------------------------------------------------------
(* The torrent *)

\* dropTorrent purges the per-file maps, the thumbnails not among them ...
Purge ==
  /\ "drop" \in scenario /\ torrent = "active" /\ drops < MaxDrops
  /\ torrent' = "dropping" /\ drops' = drops + 1
  /\ metadata' = FALSE /\ duration' = FALSE
  /\ subs' = {} /\ extracted' = FALSE /\ winBad' = FALSE
  /\ UNCHANGED <<execVars, req, flight, thumbVars, seekable, scenario>>

\* ... and its goroutine drops it from the client, from where it may come back.
ClientDrop ==
  /\ torrent = "dropping" /\ torrent' = "gone"
  /\ UNCHANGED <<execVars, req, flight, cacheVars, thumbVars, seekable, drops, scenario>>

ReAdd ==
  /\ torrent = "gone" /\ torrent' = "active"
  /\ UNCHANGED <<execVars, req, flight, cacheVars, thumbVars, seekable, drops, scenario>>

-----------------------------------------------------------------------------

Init ==
  /\ ExecInit
  /\ req = [r \in Job |-> NoReq]
  /\ flight = [k \in Flight |-> None]
  /\ metadata = FALSE /\ duration = FALSE
  /\ subs = {} /\ extracted = FALSE /\ winBad = FALSE
  /\ thumbs = [k \in Thumb |-> None] /\ order = <<>>
  /\ scenario \in Scenarios
  /\ torrent = "active" /\ seekable \in {TRUE, "window" \notin scenario} /\ drops = 0

\* The subtitles the clients of this behaviour ask for.
Asked == {k \in SubKey :  \/ "window" \in scenario /\ k.window /\ k.native
                          \/ "whole" \in scenario /\ ~k.window /\ k.native
                          \/ "other" \in scenario /\ ~k.window /\ ~k.native}

\* What a request does without its client or the torrent having a say.
Progress(r) ==
  \/ Load(r) \/ Batched(r) \/ Fly(r) \/ Recheck(r)
  \/ Probe(r) \/ ProbeTracks(r) \/ StoreMetadata(r) \/ Reload(r)
  \/ Acquire(r) \/ ContextEnds(r) \/ NotAdmitted(r)
  \/ DemuxTrack(r) \/ DemuxOne(r) \/ Leave(r) \/ Mark(r)
  \/ Finish(r)

ExecutorStep(r) ==
  Internal(r) /\ UNCHANGED <<req, flight, cacheVars, thumbVars, worldVars>>

Next ==
  \/ \E r \in Job :
       \/ "meta" \in scenario /\ HandleGetMediaMetadata(r)
       \/ "duration" \in scenario /\ GetOrProbeDuration(r)
       \/ \E key \in Asked : HandleGetSubtitles(r, key)
       \/ \E k \in Thumb : "thumb" \in scenario /\ HandleGetThumbnail(r, k)
       \/ ClientLeaves(r)
       \/ Progress(r)
       \/ ExecutorStep(r)
  \/ \E k \in Thumb : ThumbAges(k)
  \/ Purge \/ ClientDrop \/ ReAdd

Spec == Init /\ [][Next]_vars

\* A request that has been started goes on, and gets the executor's mutex if it waits for it.
LiveSpec == Spec /\ \A r \in Job : SF_vars(Progress(r) \/ ExecutorStep(r))

-----------------------------------------------------------------------------
(* Properties *)

\* The requests use the executor as its own specification says it is used: what is proved of it
\* holds here (Acquire and the deferred release).
UsesExecutor == ExecSpec

\* The thumbnail cache's list and map hold the same keys, once each, and no more than the limit,
\* through expiry, refresh and eviction (Get, Set, remove, moveToMRU).
ThumbListMatchesMap ==
  /\ {order[i] : i \in 1..Len(order)} = {k \in Thumb : thumbs[k] # None}
  /\ Len(order) = Cardinality({k \in Thumb : thumbs[k] # None})
  /\ Len(order) <= MaxThumbs

\* "One demux per file, ever": once the batch has been done nobody is at it again, whoever else
\* was on the way when it landed (getOrExtractSubtitle).
OneBatchPerFile ==
  extracted => \A r \in Job : req[r].path = "whole" =>
                 req[r].pc \notin {"probe", "open", "store", "acquire", "work"}

\* A client that leaves takes nobody else's subtitles with it: only a request whose own client has
\* left ends as cancelled (the detached contexts of getOrExtractSubtitle and its window).
LeaverHurtsNobody ==
  \A r \in Job : req[r].pc = "reply" /\ req[r].res = "cancelled" /\ req[r].path # "thumb" => req[r].left

\* A file whose windows can be read is not given up on because they came late: only a pass that
\* lost the torrent may have marked it (subtitleWinBad against the deadline).
SlowIsNotUnseekable == winBad /\ seekable => drops > 0

\* Every request is answered unless new ones keep taking the slot it waits for: no flight, slot or
\* wait is left behind by one that fails, times out or is abandoned (the flights and Acquire).
EveryRequestReturns ==
  \A r \in Job : <>[](req[r].pc # "idle") => []<>(\E q \in Job : req[q].pc = "load")
=============================================================================
