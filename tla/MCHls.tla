------------------------------- MODULE MCHls -------------------------------
(* Instances of Hls for TLC. *)
EXTENDS Hls

CONSTANTS f1, f2

Art(kind, f, n) == [kind |-> kind, file |-> f, n |-> n]

\* Two frames a segment, or what is left; the first keyframe is the second frame.
Cuts == [g \in Grid |-> IF g = "copy" THEN <<1>> ELSE <<0, 2>>]

Mix(ask, requests, dropped, grid) ==
  [ask |-> ask, requests |-> requests, drops |-> dropped, grid |-> grid]

\* A cold start with a drop, video only.
Cold == Mix({Art("v", f1, 0), Art("v", f1, 1)}, 2, 1, None)

\* Audio seeks back and forth, or begins where the grid does; the init beside a segment and another
\* file's; audio under a drop.
Seek(n, grid) == Mix({Art("a", f1, 0), Art("a", f1, n)}, 2, 0, grid)
Opening       == Mix({Art("a", f1, 0), Art("ainit", f1, 0), Art("ainit", f2, 0)}, 2, 0, "uniform")
Dropped       == Mix({Art("a", f1, 1)}, 2, 1, "uniform")

\* The video init, external audio of two videos, playlist, subtitles.
Others == Mix({Art("vinit", f1, 0), Art("xa", f1, 0), Art("xa", f2, 0), Art("xinit", f1, 0),
               Art("index", f1, 0), Art("s", f1, 0)}, 2, 0, None)

Mixes     == {Cold, Seek(1, "uniform"), Seek(0, "copy"), Opening, Dropped, Others}
Artifacts == UNION {m.ask : m \in Mixes}
=============================================================================
