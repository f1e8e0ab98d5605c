-------------------------------- MODULE Hls --------------------------------
(***************************************************************************)
(* The HLS handlers (handlers/hls.go, hlscache.go, hlsmedia.go,            *)
(* hlsindex.go): every rendition request of a file first gets the file's   *)
(* segment grid, then its artifact from the segment cache or from the      *)
(* producer, and puts it there, while other requests do the same and the   *)
(* torrent is dropped and added again (dropTorrent).                       *)
(*                                                                         *)
(* A request is a goroutine; a step is one access of a map or the cache,   *)
(* one entry to or exit from a single flight, or one production.  The      *)
(* continuous audio transcoders are those of AudioCont, how a segment is   *)
(* cut is the business of Segmenter, and probing and reading an index are  *)
(* external: they succeed or fail.                                         *)
(***************************************************************************)
EXTENDS AudioCont, Sequences, SequencesExt

CONSTANTS
  File,         \* the video files of the torrent
  Ext,          \* its external audio file
  Artifact,     \* what is asked for: [kind, file, n]
  Copied,       \* the audio files whose track is AAC
  Cut,          \* grid -> starts of its segments
  MaxBytes,     \* segCache.maxBytes
  Scenarios     \* bound: what is asked in one behaviour, how many requests and drops there are,
                \* and whether a grid and the layouts are there at the start

Kind == {"index", "v", "vinit", "a", "ainit", "xa", "xinit", "s"}
Grid == {"copy", "uniform"}
Data == [grid : Grid, size : 1..Length]

ASSUME HlsAssumption ==
  /\ Track = File \cup {Ext} /\ Copied \subseteq Track
  /\ Artifact \subseteq [kind : Kind, file : File, n : Nat]
  /\ \A g \in Grid : /\ Cut[g] \in Seq(0..(Length - 1)) /\ Cut[g] # <<>>
                     /\ \A i \in 2..Len(Cut[g]) : Cut[g][i - 1] < Cut[g][i]
  /\ None \notin Grid \cup Win \cup Data
  /\ MaxBytes \in Nat \ {0}
  /\ \A s \in Scenarios :
       s.ask \subseteq Artifact /\ s.requests \in Nat /\ s.drops \in Nat /\ s.grid \in Grid \cup {None}

VARIABLES
  req,          \* the request goroutines
  segList,      \* hlsSegList: file -> grid
  layout,       \* hlsStreamLayout has the file
  flight,       \* hlsSegSFG, hlsLayoutSFG: key -> the request whose function runs
  cache,        \* segCache: the list of entries, most recently used first
  curBytes,
  torrent,      \* "active", where dropTorrent is, or "gone"
  drops, asked, \* how often that has happened
  scenario      \* the bounds of this behaviour; never changes

hlsVars   == <<req, segList, layout, flight, cache, curBytes>>
worldVars == <<torrent, drops, asked, scenario>>
vars      == <<contVars, hlsVars, worldVars>>

NoReq == [pc |-> "idle", art |-> None, what |-> "grid", again |-> FALSE, grid |-> None, data |-> None]

Lookup == {"grid", "layout"}
Key    == [kind : Kind, file : Track, n : Nat]

CacheEntry == [key : Key, data : Data]
ReqRec == [pc : {"idle", "load", "fly", "follow", "recheck", "probe", "index", "uniform", "leaf",
                 "produce", "cont", "put", "reply"},
           art : Artifact \cup {None}, what : Lookup, again : BOOLEAN, grid : Grid \cup {None},
           data : Data \cup {None}]

TypeOK ==
  /\ ContTypeOK
  /\ req \in [Req -> ReqRec]
  /\ segList \in [File -> Grid \cup {None}]
  /\ layout \in [Track -> BOOLEAN]
  /\ flight \in [Lookup \X Track -> Req \cup {None}]
  /\ cache \in Seq(CacheEntry)
  /\ curBytes \in Nat
  /\ torrent \in {"active", "layouts", "segments", "audio", "gone"}
  /\ scenario \in Scenarios /\ drops \in 0..scenario.drops /\ asked \in 0..scenario.requests

Init ==
  /\ ContInit
  /\ req = [r \in Req |-> NoReq]
  /\ scenario \in Scenarios
  /\ segList = [f \in File |-> scenario.grid]
  /\ layout = [f \in Track |-> scenario.grid # None]
  /\ flight = [k \in Lookup \X Track |-> None]
  /\ cache = <<>> /\ curBytes = 0
  /\ torrent = "active" /\ drops = 0 /\ asked = 0

Goes(r, pc) == req' = [req EXCEPT ![r].pc = pc]

\* The file an artifact is produced from, and whether its frames come from a transcoder.
Source(a) == IF a.kind \in {"xa", "xinit"} THEN Ext ELSE a.file
isCont(a) == a.kind \in {"a", "ainit", "xa", "xinit"} /\ Source(a) \notin Copied
isInit(a) == a.kind \in {"vinit", "ainit", "xinit"}

\* The cache keys: the ones of an external audio file do not name the video file.
cacheKey(a) == [kind |-> a.kind, file |-> Source(a), n |-> IF isInit(a) THEN 0 ELSE a.n]

count(g) == Len(Cut[g])

extinf(g, n) == (IF n + 1 < count(g) THEN Cut[g][n + 2] ELSE Length) - Cut[g][n + 1]
window(g, n) == [lo |-> Cut[g][n + 1], hi |-> Cut[g][n + 1] + extinf(g, n)]

-----------------------------------------------------------------------------
(* HandleHls and the renditions *)

\* Every rendition starts with the grid of the video file.
HandleHls(r, a) ==
  /\ req[r].pc = "idle"
  /\ a \in scenario.ask
  /\ asked < scenario.requests /\ asked' = asked + 1
  /\ req' = [req EXCEPT ![r] = [NoReq EXCEPT !.pc = "load", !.art = a]]
  /\ UNCHANGED <<contVars, segList, layout, flight, cache, curBytes, torrent, drops, scenario>>

Failed(q) == [q EXCEPT !.pc = "reply", !.data = None]

-----------------------------------------------------------------------------
(* getSegList, getStreamLayout: a map in front of a single flight *)

\* The grid is the video file's, and so is the layout it is built from; with a grid, the layout is
\* that of the file the artifact comes from.
LookupFile(q) == IF q.what = "grid" \/ q.grid = None THEN q.art.file ELSE Source(q.art)
LookupKey(q)  == <<q.what, LookupFile(q)>>
Leads(r, what) == flight[<<what, req[r].art.file>>] = r
Cached(q) == IF q.what = "grid" THEN segList[q.art.file] # None ELSE layout[LookupFile(q)]

\* Who gets the grid goes on to its artifact, or produces the video's init, which asks twice.
GotGrid(q, g) == [q EXCEPT !.grid = g, !.pc = IF q.again THEN "produce" ELSE "leaf"]

\* Who gets the layout builds the grid it leads the flight of, or produces its artifact.
GotLayout(r) ==
  LET q == req[r] IN
  IF Leads(r, "grid") THEN [q EXCEPT !.pc = "index"]
  ELSE IF q.art.kind = "vinit" THEN [q EXCEPT !.pc = "load", !.what = "grid", !.again = TRUE]
  ELSE [q EXCEPT !.pc = "produce"]

\* Without a layout the grid is uniform.
NoLayout(r) == IF Leads(r, "grid") THEN [req[r] EXCEPT !.pc = "uniform"] ELSE Failed(req[r])

Got(r) == IF req[r].what = "grid" THEN GotGrid(req[r], segList[req[r].art.file]) ELSE GotLayout(r)

LoadMap(r) ==
  /\ req[r].pc = "load"
  /\ req' = [req EXCEPT ![r] = IF Cached(req[r]) THEN Got(r) ELSE [req[r] EXCEPT !.pc = "fly"]]
  /\ UNCHANGED <<contVars, segList, layout, flight, cache, curBytes, worldVars>>

FlyLookup(r) ==
  LET k == LookupKey(req[r]) IN
  /\ req[r].pc = "fly"
  /\ IF flight[k] = None THEN flight' = [flight EXCEPT ![k] = r] /\ Goes(r, "recheck")
                         ELSE UNCHANGED flight /\ Goes(r, "follow")
  /\ UNCHANGED <<contVars, segList, layout, cache, curBytes, worldVars>>

\* The flight lands: everybody on it goes on as after says.
LandLookup(r, after) ==
  LET k == LookupKey(req[r]) IN
  /\ flight' = [flight EXCEPT ![k] = None]
  /\ req' = [q \in Req |-> IF q = r \/ (req[q].pc = "follow" /\ LookupKey(req[q]) = k) THEN after[q]
                           ELSE req[q]]

\* Mutant: the map is not looked at again inside the flight.
RecheckNever(r) ==
  /\ req[r].pc = "recheck"
  /\ UNCHANGED flight /\ Goes(r, "probe")
  /\ UNCHANGED <<contVars, segList, layout, cache, curBytes, worldVars>>

RecheckMap(r) ==
  /\ req[r].pc = "recheck"
  /\ IF Cached(req[r]) THEN LandLookup(r, [q \in Req |-> Got(q)])
                       ELSE UNCHANGED flight /\ Goes(r, "probe")
  /\ UNCHANGED <<contVars, segList, layout, cache, curBytes, worldVars>>

\* buildSegList: the duration, which may not be had, then the layout.
ProbeDuration(r) ==
  /\ req[r].pc = "probe" /\ req[r].what = "grid"
  /\ \/ /\ torrent # "gone"
        /\ req' = [req EXCEPT ![r].what = "layout", ![r].pc = "load"]
        /\ UNCHANGED flight
     \/ LandLookup(r, [q \in Req |-> Failed(req[q])])
  /\ UNCHANGED <<contVars, segList, layout, cache, curBytes, worldVars>>

\* probeStreamLayout: retried until it succeeds or its time is over; a torrent that is gone cannot
\* be probed.
ProbeLayout(r) ==
  /\ req[r].pc = "probe" /\ req[r].what = "layout"
  /\ \/ /\ torrent # "gone"
        /\ layout' = [layout EXCEPT ![LookupFile(req[r])] = TRUE]
        /\ LandLookup(r, [q \in Req |-> GotLayout(q)])
     \/ UNCHANGED layout /\ LandLookup(r, [q \in Req |-> NoLayout(q)])
  /\ UNCHANGED <<contVars, segList, cache, curBytes, worldVars>>

\* The keyframe grid if the index can be read in time, else the uniform one; stored.
Index(r) ==
  LET f == req[r].art.file
      k == <<"grid", f>>
  IN \E g \in Grid :
       /\ req[r].pc = "index" \/ (req[r].pc = "uniform" /\ g = "uniform")
       /\ g = "copy" => torrent # "gone"
       /\ segList' = [segList EXCEPT ![f] = g]
       /\ flight' = [flight EXCEPT ![k] = None]
       /\ req' = [q \in Req |-> IF q = r THEN GotGrid([req[q] EXCEPT !.what = "grid"], g)
                                ELSE IF req[q].pc = "follow" /\ LookupKey(req[q]) = k THEN GotGrid(req[q], g)
                                ELSE req[q]]
       /\ UNCHANGED <<contVars, layout, cache, curBytes, worldVars>>

-----------------------------------------------------------------------------
(* serveProduced and segCache *)

At(k) == {i \in 1..Len(cache) : cache[i].key = k}

\* get moves its entry to the front.
Hit(r) ==
  LET k == cacheKey(req[r].art) IN
  \E i \in At(k) :
    /\ cache' = <<cache[i]>> \o RemoveAt(cache, i)
    /\ req' = [req EXCEPT ![r].pc = "reply", ![r].data = cache[i].data]

\* A subtitle segment needs no layout.
Miss(r) ==
  /\ At(cacheKey(req[r].art)) = {}
  /\ req' = [req EXCEPT ![r].pc = IF req[r].art.kind = "s" THEN "produce" ELSE "load",
                        ![r].what = "layout"]
  /\ UNCHANGED cache

\* The playlist is the grid; a segment outside it is not found.
Leaf(r) ==
  LET a == req[r].art IN
  /\ req[r].pc = "leaf"
  /\ \/ a.kind = "index" /\ Goes(r, "reply") /\ UNCHANGED cache
     \/ a.kind # "index" /\ ~isInit(a) /\ a.n >= count(req[r].grid) /\ Goes(r, "reply") /\ UNCHANGED cache
     \/ a.kind # "index" /\ (isInit(a) \/ a.n < count(req[r].grid)) /\ (Hit(r) \/ Miss(r))
  /\ UNCHANGED <<contVars, segList, layout, flight, curBytes, worldVars>>

\* produceVideoSegment, produceVideoInit, the copied audio and the subtitles.
Produce(r) ==
  LET a == req[r].art
      g == req[r].grid
  IN /\ req[r].pc = "produce" /\ ~isCont(a)
     /\ \/ /\ torrent # "gone"
           /\ req' = [req EXCEPT ![r].pc = "put",
                                 ![r].data = [grid |-> g, size |-> IF isInit(a) THEN 1 ELSE extinf(g, a.n)]]
        \/ req' = [req EXCEPT ![r] = Failed(@)]
     /\ UNCHANGED <<contVars, segList, layout, flight, cache, curBytes, worldVars>>

\* produceAudioInit, produceAudioSegment of a track that is not AAC.
ProduceCont(r) ==
  LET a == req[r].art IN
  /\ req[r].pc = "produce" /\ isCont(a)
  /\ IF isInit(a) THEN Call(r, Source(a), None, 0)
     ELSE LET w == window(req[r].grid, a.n) IN Call(r, Source(a), w, IF a.n > 0 THEN w.lo ELSE 0)
  /\ Goes(r, "cont")
  /\ UNCHANGED <<segList, layout, flight, cache, curBytes, worldVars>>

ProducedCont(r) ==
  LET q == req[r]
      data == [grid |-> q.grid, size |-> IF isInit(q.art) THEN 1 ELSE Cardinality(call[r].got)]
  IN /\ q.pc = "cont"
     /\ Return(r)
     /\ req' = [req EXCEPT ![r] = IF call[r].pc = "err" THEN Failed(q)
                                  ELSE [q EXCEPT !.pc = "put", !.data = data]]
     /\ UNCHANGED <<segList, layout, flight, cache, curBytes, worldVars>>

\* The bytes of the first n entries, for every n, and of all of them.
BytesTo(entries) ==
  LET sum[n \in 0..Len(entries)] == IF n = 0 THEN 0 ELSE sum[n - 1] + entries[n].data.size
  IN sum
Size(entries) == BytesTo(entries)[Len(entries)]

\* Evicts from the back until what is left fits; the front entry always stays.
Evict(entries, bytes) ==
  LET kept(n) == bytes - (Size(entries) - BytesTo(entries)[n])
      n == CHOOSE i \in 1..Len(entries) :
             /\ i = 1 \/ kept(i) <= MaxBytes
             /\ \A j \in (i + 1)..Len(entries) : kept(j) > MaxBytes
  IN <<SubSeq(entries, 1, n), kept(n)>>

\* items[k]; the cache without that entry and the entry's bytes, if there is one.
Item(k)    == CHOOSE i \in At(k) : TRUE
Without(k) == IF At(k) = {} THEN cache ELSE RemoveAt(cache, Item(k))
Old(k)     == IF At(k) = {} THEN 0 ELSE cache[Item(k)].data.size

\* Mutant: a replaced entry's bytes stay counted.
PutAdds(r) ==
  LET k == cacheKey(req[r].art)
      d == req[r].data
      e == Evict(<<[key |-> k, data |-> d]>> \o Without(k), curBytes + d.size)
  IN /\ req[r].pc = "put"
     /\ cache' = e[1] /\ curBytes' = e[2]
     /\ Goes(r, "reply")
     /\ UNCHANGED <<contVars, segList, layout, flight, worldVars>>

\* put: replaces the entry another request may have put meanwhile.
Put(r) ==
  LET k == cacheKey(req[r].art)
      d == req[r].data
      e == Evict(<<[key |-> k, data |-> d]>> \o Without(k), curBytes + d.size - Old(k))
  IN /\ req[r].pc = "put"
     /\ cache' = e[1] /\ curBytes' = e[2]
     /\ Goes(r, "reply")
     /\ UNCHANGED <<contVars, segList, layout, flight, worldVars>>

Finish(r) ==
  /\ req[r].pc = "reply"
  /\ req' = [req EXCEPT ![r] = NoReq]
  /\ UNCHANGED <<contVars, segList, layout, flight, cache, curBytes, worldVars>>

-----------------------------------------------------------------------------
(* dropTorrent, one step for each map, one for the cache and three for a
   transcoder; the torrent's own steps are in Lifecycle *)

PurgeMaps ==
  /\ torrent = "active" /\ drops < scenario.drops
  /\ segList' = [f \in File |-> None]
  /\ torrent' = "layouts" /\ drops' = drops + 1
  /\ UNCHANGED <<contVars, req, layout, flight, cache, curBytes, asked, scenario>>

PurgeLayouts ==
  /\ torrent = "layouts"
  /\ layout' = [f \in Track |-> FALSE]
  /\ torrent' = "segments"
  /\ UNCHANGED <<contVars, req, segList, flight, cache, curBytes, drops, asked, scenario>>

\* purgePrefix: every entry is the torrent's; then dropAudioCont begins.
PurgeSegments ==
  /\ torrent = "segments"
  /\ cache' = <<>> /\ curBytes' = curBytes - Size(cache)
  /\ dropKeys' = Track
  /\ torrent' = "audio"
  /\ UNCHANGED <<audioCont, audioContCount, contFlight, tc, call, dropSees, dropLowers, req, segList,
                 layout, flight, drops, asked, scenario>>

\* Then the piece cache and the client lose the torrent.
DropAudio ==
  /\ torrent = "audio"
  /\ \/ ((\E k \in Track : DropSee(k) \/ DropCont(k)) \/ DropLower) /\ UNCHANGED torrent
     \/ DropEnd /\ torrent' = "gone"
  /\ UNCHANGED <<hlsVars, drops, asked, scenario>>

ReAdd ==
  /\ torrent = "gone"
  /\ torrent' = "active"
  /\ UNCHANGED <<contVars, hlsVars, drops, asked, scenario>>

-----------------------------------------------------------------------------
Progress(r) ==
  \/ LoadMap(r) \/ FlyLookup(r) \/ RecheckMap(r) \/ ProbeDuration(r) \/ ProbeLayout(r) \/ Index(r)
  \/ Leaf(r) \/ Produce(r) \/ ProduceCont(r) \/ ProducedCont(r) \/ Put(r) \/ Finish(r)
  \/ Step(r) /\ UNCHANGED <<hlsVars, worldVars>>

Transcode(t) == Run(t) /\ UNCHANGED <<hlsVars, worldVars>>

Next ==
  \/ \E r \in Req : (\E a \in Artifact : HandleHls(r, a)) \/ Progress(r)
  \/ \E t \in Tc : Transcode(t)
  \/ PurgeMaps \/ PurgeLayouts \/ PurgeSegments \/ DropAudio \/ ReAdd

Spec == Init /\ [][Next]_vars

\* The goroutines of requests and transcoders go on.
LiveSpec == Spec /\ (\A r \in Req : WF_vars(Progress(r))) /\ (\A t \in Tc : WF_vars(Transcode(t)))

-----------------------------------------------------------------------------
(* Properties *)

\* The cache's byte count is exact and within the limit but for a single entry, and no key is
\* there twice, through races of misses, replacement, eviction and purge (put, purgePrefix).
CacheExact ==
  /\ curBytes = Size(cache)
  /\ curBytes <= MaxBytes \/ Len(cache) = 1
  /\ \A i, j \in 1..Len(cache) : cache[i].key = cache[j].key => i = j

\* As long as the torrent is not dropped every answer for a file was cut from the grid that this
\* request, and so every playlist of the file, has: however requests meet in the flights, there is
\* one grid (getSegList, serveProduced).
ServedFitsPlaylist ==
  \A r \in Req : (drops = 0 /\ req[r].pc = "reply" /\ req[r].data # None
                  /\ req[r].art.kind \notin {"xa", "xinit"})
                 => req[r].data.grid = req[r].grid

\* Every request is answered: no flight, wait or transcoder that was replaced, failed or freed
\* keeps one for good (getSegList, getStreamLayout, getAudioCont, produceAudioSegmentCont).
EveryRequestReturns == \A r \in Req : req[r].pc # "idle" ~> req[r].pc = "idle"
=============================================================================
