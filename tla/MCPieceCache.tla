---------------------------- MODULE MCPieceCache ----------------------------
(* Instances of PieceCache for TLC. *)
EXTENDS PieceCache, TLC

\* Client goroutines are interchangeable.
WorkerSymmetry == Permutations(Worker)

\* An unreferenced MemPiece is garbage: what it last held cannot be observed.
View == <<[o \in Obj |-> IF o \in Free THEN NewMemPiece ELSE obj[o]],
          pieces, filled, closed, lock, caches, torrentSet, globalFilled, capacity, evictMu,
          have, diskOpen, reader, parkedOn, client, updates, th>>
=============================================================================
