----------------------------- MODULE MCCatalog -----------------------------
(* Instances of Catalog for TLC. *)
EXTENDS Catalog, TLC

\* Goroutines, inodes and infohashes are interchangeable.
Symmetry == Permutations(Writer) \cup Permutations(Inode) \cup Permutations(Hash)

\* What an inode without a name held, that nobody has open, is never read again.
View ==
  <<entries, writer, [i \in Inode |-> IF i \in Unused THEN Garbled ELSE content[i]],
    tmp, file, histVars>>
=============================================================================
