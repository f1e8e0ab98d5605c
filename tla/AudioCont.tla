----------------------------- MODULE AudioCont -----------------------------
(***************************************************************************)
(* The continuous audio transcoders (handlers/hlsaudiocont.go,             *)
(* media/audiocont.go): one background goroutine per non-AAC track that    *)
(* encodes the track from some position on, and the requests that start    *)
(* it, wait for it, cut their segment out of its frames, or replace it     *)
(* because they look like a seek, while the torrent may be dropped.        *)
(*                                                                         *)
(* Positions are counted in encoded frames; a segment is a window of them. *)
(* Seeking, decoding and encoding are external: the goroutine starts at    *)
(* the last keyframe at or before the asked position and yields one frame  *)
(* after the other, or fails.                                              *)
(***************************************************************************)
EXTENDS Integers, FiniteSets

CONSTANTS
  Req,              \* request goroutines
  Track,            \* keys of audioCont: a file and an audio track of it
  Length,           \* frames of a track
  KeyPos,           \* positions of the video's keyframes
  MaxTranscoders,   \* maxAudioTranscoders
  Tc,               \* bound: transcoders that are referred to at once
  None

ASSUME AudioContAssumption ==
  /\ Length \in Nat \ {0} /\ MaxTranscoders \in Nat \ {0}
  /\ KeyPos \subseteq Nat /\ 0 \in KeyPos
  /\ IsFiniteSet(Track) /\ None \notin Req \cup Tc \cup Track

VARIABLES
  audioCont,        \* the map: track -> transcoder
  audioContCount,
  contFlight,       \* audioContSFG: track -> the request whose function runs
  tc,               \* the transcoders
  call,             \* what each request is doing here
  dropKeys,         \* the tracks dropAudioCont has yet to come to
  dropSees,         \* the transcoder it is about to stop
  dropLowers        \* it has deleted a key and is about to lower the count

dropVars == <<dropKeys, dropSees, dropLowers>>
contVars == <<audioCont, audioContCount, contFlight, tc, call, dropKeys, dropSees, dropLowers>>

\* The window of a segment, [lo, hi).
Win == {w \in [lo : 0..(Length - 1), hi : 1..Length] : w.lo < w.hi}
Frames(w) == w.lo..(w.hi - 1)

NoTc   == [pc |-> "ended", track |-> None, start |-> 0, first |-> 0, pos |-> 0, producedTo |-> 0,
           frames |-> {}, config |-> FALSE, rate |-> FALSE, cancelled |-> TRUE, complete |-> FALSE,
           err |-> TRUE]
NoCall == [pc |-> "out", track |-> None, win |-> None, from |-> 0, cont |-> None, got |-> {}]

ContPcs == {"out", "load", "look", "replace", "delete", "lower", "fly", "follow", "recheck", "cap",
            "start", "raise", "wait", "slice", "ok", "err"}

TcRec   == [pc : {"open", "read", "ended"}, track : Track \cup {None}, start : 0..(Length - 1),
            first : 0..(Length - 1), pos : 0..Length, producedTo : 0..Length,
            frames : SUBSET (0..(Length - 1)), config : BOOLEAN, rate : BOOLEAN,
            cancelled : BOOLEAN, complete : BOOLEAN, err : BOOLEAN]
CallRec == [pc : ContPcs, track : Track \cup {None}, win : Win \cup {None}, from : 0..(Length - 1),
            cont : Tc \cup {None}, got : SUBSET (0..(Length - 1))]

ContTypeOK ==
  /\ audioCont \in [Track -> Tc \cup {None}]
  /\ audioContCount \in Int
  /\ contFlight \in [Track -> Req \cup {None}]
  /\ tc \in [Tc -> TcRec]
  /\ call \in [Req -> CallRec]
  /\ dropKeys \subseteq Track /\ dropSees \in Tc \cup {None} /\ dropLowers \in BOOLEAN

ContInit ==
  /\ audioCont = [k \in Track |-> None]
  /\ audioContCount = 0
  /\ contFlight = [k \in Track |-> None]
  /\ tc = [t \in Tc |-> NoTc]
  /\ call = [r \in Req |-> NoCall]
  /\ dropKeys = {} /\ dropSees = None /\ dropLowers = FALSE

Goto(r, pc) == call' = [call EXCEPT ![r].pc = pc]

-----------------------------------------------------------------------------
(* getAudioCont *)

\* A request for the init segment has no window; from is where a transcoder it starts begins.
Call(r, k, win, from) ==
  /\ call[r].pc = "out"
  /\ call' = [call EXCEPT ![r] = [NoCall EXCEPT !.pc = "load", !.track = k, !.win = win,
                                                !.from = from]]
  /\ UNCHANGED <<audioCont, audioContCount, contFlight, tc, dropVars>>

\* The segment begins before the transcoder's start, or more than one and a half segments past
\* what is taken for the position reached: the start plus producedTo.
isSeek(t, w) ==
  /\ w # None
  /\ \/ w.lo < t.start
     \/ t.rate /\ 2 * w.lo > 2 * (t.start + t.producedTo) + 3 * (w.hi - w.lo)

Load(r) ==
  LET t == audioCont[call[r].track] IN
  /\ call[r].pc = "load"
  /\ call' = [call EXCEPT ![r].cont = t,
                          ![r].pc = IF t = None THEN "fly" ELSE IF call[r].win = None THEN "wait"
                                    ELSE "look"]
  /\ UNCHANGED <<audioCont, audioContCount, contFlight, tc, dropVars>>

\* How far the transcoder has come by now, and its rate: the rate is published before the first
\* frame, so that to read the one after the other finds what was so at one moment.
Look(r) ==
  /\ call[r].pc = "look"
  /\ Goto(r, IF isSeek(tc[call[r].cont], call[r].win) THEN "replace" ELSE "wait")
  /\ UNCHANGED <<audioCont, audioContCount, contFlight, tc, dropVars>>

Cancelled(t) == [t EXCEPT !.cancelled = TRUE]

\* Free: frames and codec config.
Freed(t) == [t EXCEPT !.frames = {}, !.config = FALSE]

\* The old one is cancelled and freed; its goroutine may still be running.
Replace(r) ==
  /\ call[r].pc = "replace"
  /\ tc' = [tc EXCEPT ![call[r].cont] = Freed(Cancelled(@))]
  /\ Goto(r, "delete")
  /\ UNCHANGED <<audioCont, audioContCount, contFlight, dropVars>>

\* Delete of the key, whatever is stored there by now ...
Delete(r) ==
  /\ call[r].pc = "delete"
  /\ audioCont' = [audioCont EXCEPT ![call[r].track] = None]
  /\ call' = [call EXCEPT ![r].pc = "lower", ![r].cont = None]
  /\ UNCHANGED <<audioContCount, contFlight, tc, dropVars>>

\* ... and then the count.
Lower(r) ==
  /\ call[r].pc = "lower"
  /\ audioContCount' = audioContCount - 1
  /\ Goto(r, "fly")
  /\ UNCHANGED <<audioCont, contFlight, tc, dropVars>>

\* singleflight (external): the first caller of a key runs the function, the others wait.
Fly(r) ==
  LET k == call[r].track IN
  /\ call[r].pc = "fly"
  /\ IF contFlight[k] = None THEN contFlight' = [contFlight EXCEPT ![k] = r] /\ Goto(r, "recheck")
                             ELSE UNCHANGED contFlight /\ Goto(r, "follow")
  /\ UNCHANGED <<audioCont, audioContCount, tc, dropVars>>

\* Mutant: nobody else is told.
LandOne(r, t) ==
  /\ contFlight' = [contFlight EXCEPT ![call[r].track] = None]
  /\ call' = [call EXCEPT ![r].cont = t, ![r].pc = IF t = None THEN "err" ELSE "wait"]

\* Its result goes to everybody who waits.
Land(r, t) ==
  LET k == call[r].track
      lands(q) == q = r \/ (call[q].pc = "follow" /\ call[q].track = k)
  IN /\ contFlight' = [contFlight EXCEPT ![k] = None]
     /\ call' = [q \in Req |-> IF lands(q)
                               THEN [call[q] EXCEPT !.cont = t, !.pc = IF t = None THEN "err" ELSE "wait"]
                               ELSE call[q]]

\* Another request has started one in the meantime.
Recheck(r) ==
  LET t == audioCont[call[r].track] IN
  /\ call[r].pc = "recheck"
  /\ IF t # None THEN Land(r, t) ELSE Goto(r, "cap") /\ UNCHANGED contFlight
  /\ UNCHANGED <<audioCont, audioContCount, tc, dropVars>>

\* The cap, then the stream layout, which may not be had.
Cap(r) ==
  /\ call[r].pc = "cap"
  /\ \/ audioContCount >= MaxTranscoders /\ Land(r, None)
     \/ audioContCount < MaxTranscoders /\ Goto(r, "start") /\ UNCHANGED contFlight
     \/ audioContCount < MaxTranscoders /\ Land(r, None)
  /\ UNCHANGED <<audioCont, audioContCount, tc, dropVars>>

\* Nobody refers to it any more and its goroutine has ended.
Collectable(t) ==
  /\ tc[t].pc = "ended"
  /\ \A k \in Track : audioCont[k] # t /\ dropSees # t
  /\ \A r \in Req : call[r].cont # t

FirstPos(start) == CHOOSE p \in KeyPos : p <= start /\ \A q \in KeyPos : q <= start => q <= p

\* NewContinuousAAC, its goroutine, stored ...
Start(r) ==
  LET k == call[r].track
      t == CHOOSE u \in Tc : Collectable(u)
  IN /\ call[r].pc = "start"
     /\ \E u \in Tc : Collectable(u)
     /\ tc' = [tc EXCEPT ![t] = [NoTc EXCEPT !.pc = "open", !.track = k, !.start = call[r].from,
                                  !.cancelled = FALSE, !.err = FALSE]]
     /\ audioCont' = [audioCont EXCEPT ![k] = t]
     /\ call' = [call EXCEPT ![r].cont = t, ![r].pc = "raise"]
     /\ UNCHANGED <<audioContCount, contFlight, dropVars>>

\* ... and counted.
Raise(r) ==
  /\ call[r].pc = "raise"
  /\ audioContCount' = audioContCount + 1
  /\ Land(r, call[r].cont)
  /\ UNCHANGED <<audioCont, tc, dropVars>>

-----------------------------------------------------------------------------
(* The goroutine *)

Ends(t, failed) == [t EXCEPT !.pc = "ended", !.complete = ~failed, !.err = failed]

\* The head of the packet loop: the context, then the end of the file.
LoopHead(t) ==
  IF t.cancelled THEN Ends(t, TRUE) ELSE IF t.pos = Length THEN Ends(t, FALSE) ELSE [t EXCEPT !.pc = "read"]

\* The reader is opened and the position sought, without which it stays at the beginning; then the
\* codecs are opened and the codec config is published.
Open(t) ==
  /\ tc[t].pc = "open"
  /\ \/ \E p \in {0, FirstPos(tc[t].start)} :
          tc' = [tc EXCEPT ![t] = LoopHead([@ EXCEPT !.first = p, !.pos = p, !.config = TRUE,
                                                     !.rate = TRUE])]
     \/ tc' = [tc EXCEPT ![t] = Ends(@, TRUE)]
  /\ UNCHANGED <<audioCont, audioContCount, contFlight, call, dropVars>>

\* A packet read, decoded and encoded: a frame is appended, also if the context has ended since.
Appended(t) == [t EXCEPT !.frames = @ \cup {t.pos}, !.producedTo = t.pos + 1, !.pos = t.pos + 1]

AppendFrame(t) ==
  /\ tc[t].pc = "read"
  /\ \/ tc' = [tc EXCEPT ![t] = LoopHead(Appended(@))]
     \/ tc' = [tc EXCEPT ![t] = Ends(@, TRUE)]
  /\ UNCHANGED <<audioCont, audioContCount, contFlight, call, dropVars>>

Run(t) == Open(t) \/ AppendFrame(t)

-----------------------------------------------------------------------------
(* produceAudioInitCont, produceAudioSegmentCont *)

\* Mutant: the transcode has only to have reached the segment.
ReadyEarly(r) ==
  LET t == tc[call[r].cont] IN
  IF call[r].win = None THEN t.config ELSE t.rate /\ (t.complete \/ t.producedTo > call[r].win.lo)

Ready(r) ==
  LET t == tc[call[r].cont] IN
  IF call[r].win = None THEN t.config ELSE t.rate /\ (t.complete \/ t.producedTo >= call[r].win.hi)

\* One round of the wait loop: the error first.
Poll(r) ==
  /\ call[r].pc = "wait"
  /\ \/ tc[call[r].cont].err /\ Goto(r, "err")
     \/ ~tc[call[r].cont].err /\ Ready(r) /\ Goto(r, "slice")
  /\ UNCHANGED <<audioCont, audioContCount, contFlight, tc, dropVars>>

\* The deadline passes, or the client leaves.
GiveUp(r) ==
  /\ call[r].pc = "wait"
  /\ ~tc[call[r].cont].err /\ ~Ready(r)
  /\ Goto(r, "err")
  /\ UNCHANGED <<audioCont, audioContCount, contFlight, tc, dropVars>>

\* SegmentFromAAC, InitFromAAC: a snapshot under the lock, which the transcoder may have been
\* freed before.
Slice(r) ==
  LET t   == tc[call[r].cont]
      got == IF call[r].win = None THEN {} ELSE t.frames \cap Frames(call[r].win)
  IN /\ call[r].pc = "slice"
     /\ call' = [call EXCEPT ![r].got = got, ![r].pc = IF t.config /\ (call[r].win # None => got # {})
                                                       THEN "ok" ELSE "err"]
     /\ UNCHANGED <<audioCont, audioContCount, contFlight, tc, dropVars>>

Return(r) ==
  /\ call[r].pc \in {"ok", "err"}
  /\ call' = [call EXCEPT ![r] = NoCall]
  /\ UNCHANGED <<audioCont, audioContCount, contFlight, tc, dropVars>>

-----------------------------------------------------------------------------
(* dropAudioCont *)

\* The range over the map comes to a track of the torrent that is stored, each once, in any order.
DropSee(k) ==
  /\ k \in dropKeys /\ dropSees = None /\ ~dropLowers /\ audioCont[k] # None
  /\ dropSees' = audioCont[k]
  /\ UNCHANGED <<audioCont, audioContCount, contFlight, tc, call, dropKeys, dropLowers>>

\* It ends when it has come to all that are there.
DropEnd ==
  /\ dropSees = None /\ ~dropLowers /\ \A k \in dropKeys : audioCont[k] = None
  /\ dropKeys' = {}
  /\ UNCHANGED <<audioCont, audioContCount, contFlight, tc, call, dropSees, dropLowers>>

\* Cancelled and freed, and the key deleted, whatever is stored there by now ...
DropCont(k) ==
  /\ k \in dropKeys /\ dropSees # None /\ ~dropLowers
  /\ tc[dropSees].track = k
  /\ tc' = [tc EXCEPT ![dropSees] = Freed(Cancelled(@))]
  /\ audioCont' = [audioCont EXCEPT ![k] = None]
  /\ dropKeys' = dropKeys \ {k} /\ dropSees' = None /\ dropLowers' = TRUE
  /\ UNCHANGED <<audioContCount, contFlight, call>>

\* Mutant: the count is not lowered.
DropLowerNever ==
  /\ dropLowers /\ dropLowers' = FALSE
  /\ UNCHANGED <<audioCont, audioContCount, contFlight, tc, call, dropKeys, dropSees>>

\* ... and then the count lowered.
DropLower ==
  /\ dropLowers /\ dropLowers' = FALSE
  /\ audioContCount' = audioContCount - 1
  /\ UNCHANGED <<audioCont, contFlight, tc, call, dropKeys, dropSees>>

\* What a request does of itself.
Step(r) ==
  \/ Load(r) \/ Look(r) \/ Replace(r) \/ Delete(r) \/ Lower(r) \/ Fly(r) \/ Recheck(r) \/ Cap(r)
  \/ Start(r) \/ Raise(r) \/ Poll(r) \/ GiveUp(r) \/ Slice(r)

-----------------------------------------------------------------------------
(* Properties *)

\* A segment that is served has every frame of its window from where its transcoder began: neither
\* a transcode that is behind nor Free under a running goroutine leaves a part of the frames to be
\* taken for the whole (produceAudioSegmentCont, SegmentFromAAC, Free).
SliceIsContiguous ==
  \A r \in Req : (call[r].pc = "ok" /\ call[r].win # None) =>
    call[r].got = {p \in Frames(call[r].win) : p >= tc[call[r].cont].first}

\* The count never exceeds the transcoders stored, but for the decrements and increments that are
\* on their way, whatever races to delete them: a lost decrement cannot shut new tracks out for good
\* (audioContCount).
CountIsNotHigh ==
  LET stored   == {k \in Track : audioCont[k] # None}
      raising  == {r \in Req : call[r].pc = "raise"}
      lowering == {r \in Req : call[r].pc = "lower"} \cup (IF dropLowers THEN {None} ELSE {})
  IN audioContCount + Cardinality(raising) <= Cardinality(stored) + Cardinality(lowering)
=============================================================================
