----------------------------- MODULE Segmenter -----------------------------
(***************************************************************************)
(* How a file becomes HLS segments: the grid of segment boundaries         *)
(* (handlers/hlsindex.go) and the production of one segment of a rendition *)
(* by demuxing, copying or transcoding, and muxing (produceSegmentRetry,   *)
(* media/segment.go, media/video.go, the gate of media/transcode_gate.go). *)
(*                                                                         *)
(* Time is counted in ticks of a millisecond timebase.  A source is the    *)
(* list of its packets in file order with what libav reports of them; the  *)
(* demuxer, the decoder and the encoder are external.  A segment is the    *)
(* list of the samples that reach the muxer.  Productions are independent  *)
(* of each other but for the gate, and each may fail and be retried.       *)
(***************************************************************************)
EXTENDS Integers, Sequences, FiniteSets

CONSTANTS
  Source,       \* bound: the files a behaviour may be about
  Target,       \* hlsSegmentSeconds
  Worker,       \* requests that produce a segment
  Limit,        \* slots of processVideoTranscodes
  MaxAttempts,  \* attempts of produceSegmentRetry
  None

\* The 0.001 s by which the grid is lenient.
Eps == 1

Renditions   == {"video", "audio"}
Stream(s, r) == {i \in DOMAIN s.pkts : s.pkts[i].st = r}
KeyAt(s)     == {i \in Stream(s, "video") : s.pkts[i].key}

IsSource(s) ==
  /\ s.dur \in Nat \ {0} /\ s.base \in Int /\ s.period \in Nat /\ s.fps \in Nat \ {0}
  /\ s.reorder \in Nat /\ s.mkv \in BOOLEAN
  /\ s.unset \subseteq DOMAIN s.pkts /\ s.untimed \subseteq DOMAIN s.pkts
  /\ s.pkts \in Seq([st : Renditions, pts : Int, dts : Int, key : BOOLEAN])

\* The container's index: the times of the keyframes in order.
IsIndexed(s) ==
  /\ s.index \in Seq(Int) /\ s.index # <<>>
  /\ \A i, k \in DOMAIN s.index : i < k => s.index[i] < s.index[k]
  /\ {s.index[i] : i \in DOMAIN s.index} = {s.pkts[i].pts : i \in KeyAt(s)}

\* A stream is stored in decoding order, and where nothing is reordered in display order.
IsOrdered(s) ==
  /\ \A i \in DOMAIN s.pkts : s.pkts[i].dts <= s.pkts[i].pts
  /\ \A r \in Renditions : \A i, k \in Stream(s, r) : i < k =>
       /\ s.pkts[i].dts < s.pkts[k].dts
       /\ r = "audio" \/ s.reorder = 0 => s.pkts[i].pts < s.pkts[k].pts

\* Pictures decoded before a keyframe are shown before it, and no picture for a single tick.
IsGrouped(s) ==
  /\ \A k \in KeyAt(s), i \in Stream(s, "video") : i < k => s.pkts[i].pts + 2 <= s.pkts[k].pts
  /\ \A i, k \in Stream(s, "video") : i <= k /\ s.pkts[k].pts < s.dur => s.pkts[i].pts + 2 <= s.dur

\* Sound is not stored before a keyframe that is shown no later.
IsInterleaved(s) ==
  \A k \in KeyAt(s), i \in Stream(s, "audio") : s.pkts[k].pts <= s.pkts[i].pts => k < i

\* A packet that a copy may begin with: any of audio, of video a keyframe or the very first.
Entry(s, r) == {i \in Stream(s, r) : r = "audio" \/ s.pkts[i].key \/ \A k \in Stream(s, r) : i <= k}

\* From there on, the packets of a stream do not come thicker than one per tick.
IsSparse(s) ==
  \A r \in Renditions : \A i \in Entry(s, r), k \in Stream(s, r) :
    i < k /\ s.pkts[i].pts <= s.pkts[k].pts =>
      Cardinality(Stream(s, r) \cap ((i + 1)..k)) <= s.pkts[k].pts - s.pkts[i].pts

\* A packet whose pts the demuxer leaves unset is shown when it is decoded, and has that dts.
IsTimed(s) == \A i \in s.unset : ~s.mkv /\ i \notin s.torn /\ s.pkts[i].pts = s.pkts[i].dts

ASSUME SegmenterAssumption ==
  /\ Target \in Nat /\ Target > Eps /\ Limit \in Nat \ {0} /\ MaxAttempts \in Nat \ {0}
  /\ None \notin Int /\ None \notin [pts : Int, dts : Int, dur : Int, of : Nat]

\* What the demuxer and the container are taken to be like (external).
ASSUME SourceAssumption ==
  \A s \in Source : /\ IsSource(s) /\ IsIndexed(s) /\ IsOrdered(s) /\ IsGrouped(s)
                     /\ IsInterleaved(s) /\ IsSparse(s) /\ IsTimed(s)

VARIABLES
  src,      \* the file
  grid,     \* its segList
  slots,    \* workers that hold a slot of the gate
  job,      \* what each worker is doing
  made      \* the segments produced: rendition -> number -> samples or None

vars == <<src, grid, slots, job, made>>

-----------------------------------------------------------------------------
(* The grid *)

\* Mutant: measured from the first keyframe after the cut instead of at it.
CutsLate(kfs, least) ==
  LET cut[i \in 1..Len(kfs)] ==
        IF i = 1 THEN <<kfs[1]>>
        ELSE IF kfs[i] - cut[i - 1][Len(cut[i - 1])] > least + Eps THEN Append(cut[i - 1], kfs[i])
        ELSE cut[i - 1]
  IN cut[Len(kfs)]

\* The keyframes a new segment starts at, of the first i.
Cuts(kfs, least) ==
  LET cut[i \in 1..Len(kfs)] ==
        IF i = 1 THEN <<kfs[1]>>
        ELSE IF kfs[i] - cut[i - 1][Len(cut[i - 1])] >= least THEN Append(cut[i - 1], kfs[i])
        ELSE cut[i - 1]
  IN cut[Len(kfs)]

computeSegList(kfs, dur) ==
  LET base == kfs[1]
      cuts == Cuts(kfs, Target - Eps)
      last == cuts[Len(cuts)] - base
  IN [starts |-> [i \in 0..(Len(cuts) - 1) |-> cuts[i + 1] - base],
      end |-> IF dur - base <= last THEN last + Target ELSE dur - base,
      base |-> base, transcode |-> FALSE]

uniformSegList(dur, base) ==
  LET end   == IF dur - base <= 0 THEN dur ELSE dur - base
      count == (end - Eps + Target - 1) \div Target
  IN [starts |-> [i \in 0..(IF count < 1 THEN 0 ELSE count - 1) |-> i * Target],
      end |-> end, base |-> base, transcode |-> TRUE]

\* The container's index, if it can be read in time.
tryIndexSegList(s) == computeSegList(s.index, s.dur)

\* Copy for H.264 with an index; without the stream layout the boundaries count from zero.
buildSegList(s) ==
  {uniformSegList(s.dur, 0), uniformSegList(s.dur, s.base)} \cup
  (IF s.codec = "h264" THEN {tryIndexSegList(s)} ELSE {})

count     == Cardinality(DOMAIN grid.starts)
Seg       == DOMAIN grid.starts
extinf(n) == (IF n + 1 \in Seg THEN grid.starts[n + 1] ELSE grid.end) - grid.starts[n]
srcStart(n) == grid.starts[n] + grid.base

-----------------------------------------------------------------------------
(* One production *)

\* The sample of a packet; of is the packet's place in the file.
Sample == [pts : Int, dts : Int, dur : Int, of : Nat]

Idle == [pc |-> "idle", rend |-> "video", n |-> 0, attempt |-> 1, pos |-> 1, fresh |-> TRUE,
         last |-> None, held |-> None, lastDur |-> 0, out |-> <<>>, dpb |-> {}, lastPTS |-> None]

Pcs == {"idle", "gate", "open", "read", "drain", "flush", "backoff"}

Job == [pc : Pcs, rend : Renditions, n : Nat, attempt : 1..MaxAttempts, pos : Nat, fresh : BOOLEAN,
        last : Int \cup {None}, held : Sample \cup {None}, lastDur : Nat, out : Seq(Sample),
        dpb : SUBSET Nat, lastPTS : Int \cup {None}]

TypeOK ==
  /\ src \in Source /\ grid \in buildSegList(src)
  /\ slots \subseteq Worker
  /\ job \in [Worker -> Job]
  /\ \A w \in Worker : /\ job[w].n \in Seg /\ job[w].pos \in 1..(Len(src.pkts) + 1)
                       /\ job[w].dpb \subseteq Stream(src, job[w].rend)
  /\ made \in [Renditions -> [Seg -> Seq(Sample) \cup {None}]]

Init ==
  /\ src \in Source
  /\ grid \in buildSegList(src)
  /\ slots = {}
  /\ job = [w \in Worker |-> Idle]
  /\ made = [r \in Renditions |-> [n \in Seg |-> None]]

\* buildOutputPlan: the grid says so, and it does for whatever is not H.264; AAC is copied, and
\* other audio never comes here.
Transcodes(j) == j.rend = "video" /\ grid.transcode

\* int64(seconds * den / num) truncates: a boundary that has no exact double may come out one
\* tick early, and startSec + durSec is another double than the next start.
startTS(n) == IF srcStart(n) \in src.shortStart THEN srcStart(n) - 1 ELSE srcStart(n)
endTS(n)   == LET e == srcStart(n) + extinf(n) IN IF e \in src.shortEnd THEN e - 1 ELSE e

Busy == {w \in Worker : job[w].pc # "idle"}

\* Bound: segments are asked for in order, and those that need no slot of the gate one after the
\* other. Productions share nothing else, so that no other order gives another result.
InOrder(r, n) ==
  /\ \A m \in 0..(n - 1) : made[r][m] # None \/ \E w \in Busy : job[w].rend = r /\ job[w].n = m
  /\ Busy = {} \/ (r = "video" /\ grid.transcode)

\* produceSegmentRetry, for a segment that is not in the cache.
produceSegmentRetry(w, r, n) ==
  /\ job[w].pc = "idle" /\ made[r][n] = None
  /\ InOrder(r, n)
  /\ Stream(src, r) # {}
  /\ job' = [job EXCEPT ![w] = [Idle EXCEPT !.rend = r, !.n = n,
                                 !.pc = IF r = "video" /\ grid.transcode THEN "gate" ELSE "open"]]
  /\ UNCHANGED <<src, grid, slots, made>>

\* processVideoTranscodes.acquire
acquire(w) ==
  /\ job[w].pc = "gate" /\ Cardinality(slots) < Limit
  /\ slots' = slots \cup {w}
  /\ job' = [job EXCEPT ![w].pc = "open"]
  /\ UNCHANGED <<src, grid, made>>

\* SeekFrame (external) with the backward flag, on the video stream: the last indexed keyframe at
\* or before the target, else the first packet.
SeekFrame(s, ts) ==
  LET before == {i \in KeyAt(s) : s.pkts[i].pts <= ts}
  IN IF before = {} THEN 1 ELSE CHOOSE i \in before : \A k \in before : k <= i

\* Demuxer and muxer open, header written, position sought.
Open(w) ==
  /\ job[w].pc = "open"
  /\ job' = [job EXCEPT ![w].pc = "read", ![w].pos = SeekFrame(src, startTS(job[w].n))]
  /\ UNCHANGED <<src, grid, slots, made>>

\* fragWriter.write: the packet held so far gets the distance to the new one as its duration.
write(j, s) ==
  LET d    == s.dts - j.held.dts
      prev == IF d > 0 THEN [j.held EXCEPT !.dur = d] ELSE j.held
  IN IF j.held = None THEN [j EXCEPT !.held = s]
     ELSE [j EXCEPT !.held = s, !.out = Append(@, prev), !.lastDur = IF d > 0 THEN d ELSE @]

\* fragWriter.finish
finish(j) ==
  LET dur == IF j.lastDur > 0 THEN j.lastDur ELSE IF j.held.dur > 0 THEN j.held.dur ELSE 1
  IN IF j.held = None THEN j.out ELSE Append(j.out, [j.held EXCEPT !.dur = dur])

\* Mutant: the dts of every packet is taken from its pts.
sanitizeFromPts(j, pts, dts) ==
  LET e == IF j.last # None /\ pts <= j.last THEN j.last + 1 ELSE pts IN [dts |-> e, pts |-> e]

\* sanitizeCopyDTS: a defined and strictly increasing dts, a pts that is not before it.
sanitizeCopyDTS(j, pts, dts) ==
  LET d == IF dts = None THEN pts ELSE dts
      e == IF j.last # None /\ d <= j.last THEN j.last + 1 ELSE d
  IN [dts |-> e, pts |-> IF pts < e THEN e ELSE pts]

\* ReadFrame (external) leaves the first packet after a seek without a dts in a Matroska file,
\* and a packet at the download front (bound: those in torn) may be misread with a dts that goes
\* back.
ReadDts(j, p) ==
  IF src.mkv /\ j.fresh THEN {None}
  ELSE {p.dts} \cup {p.dts - 2 * src.period : i \in src.torn \cap {j.pos}}

Pkt(j)  == src.pkts[j.pos]
Left(j) == j.pos <= Len(src.pkts)

\* An unset pts is replaced by the dts.
ReadPts(j) == IF j.pos \in src.unset THEN None ELSE Pkt(j).pts
Pts(j)     == IF ReadPts(j) = None THEN Pkt(j).dts ELSE ReadPts(j)

\* Mutant: copied video is trimmed to the window like audio.
KeptTrimmed(j) == Pkt(j).st = j.rend /\ Pts(j) \in startTS(j.n)..(endTS(j.n) - 1)

\* The window of an audio copy.
Kept(j) == Pkt(j).st = j.rend /\ (j.rend = "audio" => Pts(j) \in startTS(j.n)..(endTS(j.n) - 1))

\* The end of the file, or the first packet of the rendition at or past the end of the window.
Ends(j) == Left(j) => (Pkt(j).st = j.rend /\ Pts(j) >= endTS(j.n))

ReadEnd(w) ==
  /\ job[w].pc = "read" /\ Ends(job[w])
  /\ job' = [job EXCEPT ![w].pc = "flush"]
  /\ UNCHANGED <<src, grid, slots, made>>

\* A packet of another stream, or audio outside the window.
Skip(w) ==
  /\ job[w].pc = "read" /\ ~Ends(job[w])
  /\ ~Kept(job[w])
  /\ job' = [job EXCEPT ![w].pos = @ + 1]
  /\ UNCHANGED <<src, grid, slots, made>>

CopyPacket(w) ==
  LET j == job[w] IN
  /\ j.pc = "read" /\ ~Ends(j)
  /\ Kept(j) /\ ~Transcodes(j)
  /\ \E dts \in ReadDts(j, Pkt(j)) :
       LET t == sanitizeCopyDTS(j, Pts(j), dts)
           s == [pts |-> t.pts, dts |-> t.dts, dur |-> 0, of |-> j.pos]
       IN job' = [job EXCEPT ![w] = [write(j, s) EXCEPT !.pos = @ + 1, !.fresh = FALSE,
                                                      !.last = t.dts]]
  /\ UNCHANGED <<src, grid, slots, made>>

\* videoEncoder.feed: the packet goes to the decoder (external), which holds back as many
\* pictures as the stream reorders.
feed(w) ==
  LET j == job[w] IN
  /\ j.pc = "read" /\ ~Ends(j)
  /\ Kept(j) /\ Transcodes(j)
  /\ job' = [job EXCEPT ![w].dpb = @ \cup {j.pos}, ![w].pos = @ + 1,
                        ![w].pc = IF Cardinality(j.dpb) < src.reorder THEN "read" ELSE "drain"]
  /\ UNCHANGED <<src, grid, slots, made>>

\* The next picture the decoder gives.
Picture(j) == CHOOSE i \in j.dpb : \A k \in j.dpb : src.pkts[i].pts <= src.pkts[k].pts

\* It has a pts, inside the window and on an increasing timeline.
Placed(j, i) == LET pts == src.pkts[i].pts IN
  /\ i \notin src.untimed
  /\ pts \in startTS(j.n)..(endTS(j.n) - 1)
  /\ j.lastPTS # None => pts > j.lastPTS

\* RescaleQ to the encoder's timebase, the frame period if it is known, and back.
Rescale(pts) == ((2 * pts + src.fps) \div (2 * src.fps)) * src.fps

\* encode: the encoder (external) reorders nothing; the dts is kept increasing.
encode(j, i) ==
  LET pts == Rescale(src.pkts[i].pts)
      dts == IF j.last # None /\ pts <= j.last THEN j.last + 1 ELSE pts
  IN [write(j, [pts |-> dts, dts |-> dts, dur |-> 0, of |-> i])
        EXCEPT !.last = dts, !.lastPTS = src.pkts[i].pts]

\* drainDecoder: the picture the decoder gives for a packet, or all of them on flush.
drainDecoder(w) ==
  LET j == job[w]
      i == Picture(j)
  IN /\ j.pc \in {"drain", "flush"} /\ j.dpb # {}
     /\ job' = [job EXCEPT ![w] = [(IF Placed(j, i) THEN encode(j, i) ELSE j)
                                    EXCEPT !.dpb = @ \ {i}, !.pc = IF @ = "drain" THEN "read" ELSE @]]
     /\ UNCHANGED <<src, grid, slots, made>>

\* Everything flushed, trailer written; the handler caches the segment.
Finish(w) ==
  LET j == job[w] IN
  /\ j.pc = "flush" /\ j.dpb = {}
  /\ made' = [made EXCEPT ![j.rend][j.n] = finish(j)]
  /\ slots' = slots \ {w}
  /\ job' = [job EXCEPT ![w] = Idle]
  /\ UNCHANGED <<src, grid>>

\* An error of the demuxer or the muxer, of a packet without any timestamp too: what the attempt
\* held is freed.
Fail(w) ==
  LET j == job[w] IN
  /\ j.pc \in {"open", "read", "drain", "flush"}
  /\ slots' = slots \ {w}
  /\ job' = [job EXCEPT ![w] = [Idle EXCEPT !.rend = j.rend, !.n = j.n, !.attempt = j.attempt,
                                 !.pc = "backoff"]]
  /\ UNCHANGED <<src, grid, made>>

\* Mutant: the attempts are not counted.
RetryForever(w) ==
  /\ job[w].pc = "backoff"
  /\ job' = [job EXCEPT ![w].pc = IF Transcodes(job[w]) THEN "gate" ELSE "open"]
  /\ UNCHANGED <<src, grid, slots, made>>

\* Three attempts, each with a fresh reader.
Retry(w) ==
  LET j == job[w] IN
  /\ j.pc = "backoff"
  /\ \/ /\ j.attempt < MaxAttempts
        /\ job' = [job EXCEPT ![w].attempt = @ + 1,
                              ![w].pc = IF Transcodes(j) THEN "gate" ELSE "open"]
     \/ j.attempt = MaxAttempts /\ job' = [job EXCEPT ![w] = Idle]
  /\ UNCHANGED <<src, grid, slots, made>>

\* The next attempt's reader cannot be opened: no further attempt. (If it is the first's, nothing
\* has begun.)
ReopenFails(w) ==
  /\ job[w].pc = "backoff" /\ job[w].attempt < MaxAttempts
  /\ job' = [job EXCEPT ![w] = Idle]
  /\ UNCHANGED <<src, grid, slots, made>>

\* The client leaves: the context ends the wait for a slot, the reads and the backoff.
Cancel(w) ==
  /\ job[w].pc \in {"gate", "open", "read", "backoff"}
  /\ slots' = slots \ {w}
  /\ job' = [job EXCEPT ![w] = Idle]
  /\ UNCHANGED <<src, grid, made>>

Work(w) ==
  \/ acquire(w) \/ Open(w) \/ ReadEnd(w) \/ Skip(w) \/ CopyPacket(w) \/ feed(w)
  \/ drainDecoder(w) \/ Finish(w) \/ Retry(w)

Next == \E w \in Worker :
          \/ \E r \in Renditions, n \in Seg : produceSegmentRetry(w, r, n)
          \/ Work(w) \/ Fail(w) \/ ReopenFails(w) \/ Cancel(w)

Spec == Init /\ [][Next]_vars

LiveSpec == Spec /\ \A w \in Worker : WF_vars(Work(w)) /\ SF_vars(acquire(w))

-----------------------------------------------------------------------------
(* Properties *)

Made(r)      == \A n \in Seg : made[r][n] # None
Carriers(r, i) == {n \in Seg : \E k \in DOMAIN made[r][n] : made[r][n][k].of = i}
Of(r)        == {i \in DOMAIN src.pkts : src.pkts[i].st = r /\ src.pkts[i].pts \in srcStart(0)..(src.dur - 1)}
Exact        == src.shortStart = {} /\ src.shortEnd = {}

\* The copy grid cuts at keyframes only, never before the target length (less the tolerance) and
\* never past a keyframe that would do; no segment is empty (computeSegList, "open a new segment
\* at the first keyframe that is >= hlsSegmentSeconds past the current segment start").
GridIsGreedy ==
  LET keys == {src.pkts[i].pts : i \in KeyAt(src)} IN
  /\ \A n \in Seg : extinf(n) > 0
  /\ ~grid.transcode =>
       \A n \in Seg :
         /\ srcStart(n) \in keys
         /\ n > 0 => srcStart(n) - srcStart(n - 1) >= Target - Eps
         /\ \A k \in keys : k >= srcStart(n) + Target - Eps =>
                            n + 1 \in Seg /\ srcStart(n + 1) <= k

\* What reaches the muxer is valid and gapless: dts strictly increasing and not after the pts,
\* every sample with the distance to its successor as its duration and the last one with a
\* positive one, whatever the demuxer leaves unset or misreads; and the repair never moves a copied
\* picture, except one that is shown before the keyframe its segment starts with (sanitizeCopyDTS,
\* encode, fragWriter).
SamplesAbut ==
  \A r \in Renditions, n \in Seg : made[r][n] # None =>
    LET s == made[r][n] IN
    \A k \in DOMAIN s :
      /\ s[k].dur > 0 /\ s[k].pts >= s[k].dts
      /\ k > 1 => s[k - 1].dts + s[k - 1].dur = s[k].dts
      /\ LET pts == src.pkts[s[k].of].pts
         IN (r = "audio" \/ ~grid.transcode) /\ pts >= s[1].pts => s[k].pts = pts

\* The segments of a rendition tile it.  A copied video loses no packet at a boundary, not even the
\* pictures that are decoded after the next keyframe and shown before it, nor when a boundary is
\* converted a tick short; and where the boundaries convert exactly and decoding order is display
\* order or the grid is keyframe-aligned, every frame that has a time is in exactly one segment (Segment's end
\* test, the audio trim, the window of drainDecoder).
SegmentsTile ==
  \A r \in Renditions : Made(r) =>
    \A i \in Of(r) :
      /\ r = "video" /\ ~grid.transcode => Carriers(r, i) # {}
      /\ Exact /\ (r = "audio" \/ ~grid.transcode \/ (src.reorder = 0 /\ i \notin src.untimed)) =>
           Cardinality(Carriers(r, i)) = 1

\* Every production returns: it is given a slot, its retries end (produceSegmentRetry, acquire).
ProductionReturns == \A w \in Worker : job[w].pc # "idle" ~> job[w].pc = "idle"
=============================================================================
