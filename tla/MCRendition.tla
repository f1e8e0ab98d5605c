---------------------------- MODULE MCRendition ----------------------------
(* Instances of Rendition for TLC. *)
EXTENDS Rendition, TLC

CONSTANTS d1, d2

\* Two devices and the CPU; a machine with one of them, where copying may do.
Machines == {{d1, d2, "cpu"}, {"copy", d2}}

NoOrder == <<>>
Scores  == (d1 :> 2 @@ d2 :> 1)
=============================================================================
