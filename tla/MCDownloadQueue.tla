--------------------------- MODULE MCDownloadQueue ---------------------------
(* Small instances of DownloadQueue for TLC. *)
EXTENDS DownloadQueue, TLC

Symmetry == Permutations(Games) \cup Permutations(Threads)
=============================================================================
