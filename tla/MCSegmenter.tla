---------------------------- MODULE MCSegmenter ----------------------------
(* Instances of Segmenter for TLC. *)
EXTENDS Segmenter, TLC

V(pts, dts, key) == [st |-> "video", pts |-> pts, dts |-> dts, key |-> key]
A(pts)           == [st |-> "audio", pts |-> pts, dts |-> pts, key |-> TRUE]

H264 == [codec |-> "h264", base |-> 0, dur |-> 27, period |-> 3, fps |-> 3, reorder |-> 1, mkv |-> TRUE,
         shortStart |-> {}, shortEnd |-> {}, torn |-> {5}, unset |-> {}, untimed |-> {}, pkts |-> <<>>,
         index |-> <<>>]
Hevc == [H264 EXCEPT !.codec = "hevc"]

\* Closed groups of pictures with a B picture each, from tick 2.
Closed == [H264 EXCEPT !.base = 2, !.dur = 29,
  !.pkts = <<V(2, -1, TRUE), V(8, 2, FALSE), V(5, 5, FALSE), V(11, 8, TRUE), V(17, 11, FALSE),
             V(14, 14, FALSE), V(20, 17, TRUE), V(26, 20, FALSE), V(23, 23, FALSE)>>]

\* Open groups: a picture decoded after the keyframe is shown before it.
Opened == [H264 EXCEPT !.dur = 30,
  !.pkts = <<V(0, -3, TRUE), V(6, 0, FALSE), V(3, 3, FALSE), V(12, 6, TRUE), V(9, 9, FALSE),
             V(18, 12, FALSE), V(15, 15, FALSE), V(24, 18, TRUE), V(21, 21, FALSE), V(27, 24, FALSE)>>]

\* More keyframes than boundaries, one of them within the tolerance, in an MP4 file; two packets
\* come without a pts.
Dense == [H264 EXCEPT !.mkv = FALSE, !.reorder = 0, !.unset = {3, 4},
  !.pkts = <<V(0, 0, TRUE), V(6, 6, TRUE), V(9, 9, TRUE), V(12, 12, FALSE), V(17, 17, TRUE),
             V(21, 21, TRUE), V(24, 24, FALSE)>>]

\* A boundary whose conversion falls short.
Short == [Closed EXCEPT !.shortStart = {11}]

\* AAC frames that do not fall on the boundaries.
Aac == [H264 EXCEPT !.dur = 25, !.reorder = 0,
  !.pkts = <<V(0, 0, TRUE), A(0), A(4), A(8), V(11, 11, TRUE), A(12), A(16), V(20, 20, TRUE), A(20), A(24)>>]

\* A variable frame rate, two frames within one period; nothing is reordered. The fourth packet
\* comes without a pts, the fifth's picture too.
Variable == [Hevc EXCEPT !.reorder = 0, !.dur = 24, !.mkv = FALSE, !.unset = {4}, !.untimed = {5},
  !.pkts = <<V(0, 0, TRUE), V(3, 3, FALSE), V(6, 6, FALSE), V(7, 7, FALSE), V(12, 12, FALSE),
             V(16, 16, FALSE), V(18, 18, TRUE), V(21, 21, FALSE)>>]

\* B pictures across the boundaries of a uniform grid.
Reordered == [Hevc EXCEPT !.dur = 24,
  !.pkts = <<V(0, -3, TRUE), V(6, 0, FALSE), V(3, 3, FALSE), V(12, 6, FALSE), V(9, 9, FALSE),
             V(18, 12, FALSE), V(15, 15, FALSE), V(21, 18, FALSE)>>]

Keys(s) == SelectSeq(s.pkts, LAMBDA p : p.st = "video" /\ p.key)

Files == {[s EXCEPT !.index = [i \in DOMAIN Keys(s) |-> Keys(s)[i].pts]] :
            s \in {Closed, Opened, Dense, Short, Aac, Variable, Reordered}}
=============================================================================
