--------------------------- MODULE MCDiskBacking ---------------------------
(* Instances of DiskBacking for TLC. *)
EXTENDS DiskBacking, TLC

\* Pieces, goroutines of one kind and objects are interchangeable.
Symmetry == Permutations(Piece) \cup Permutations(Hasher)
              \cup Permutations(Attacher) \cup Permutations(Backing)

\* What an object nobody refers to holds does not matter, nor, after a delete, what was kept.
View == <<cache, diskMode, [b \in Backing |-> IF b \in InUse \/ backing[b].open
                                              THEN backing[b] ELSE Unused],
          dat, bitmap, tmp, th, IF dropped THEN {} ELSE kept, dropped>>
=============================================================================
