---------------------------- MODULE MCHighlander ----------------------------
(* Highlander for TLC: processes are interchangeable, and so are directories. *)
EXTENDS Highlander, TLC

Symmetry == Permutations(Procs) \cup Permutations(Dirs)

=============================================================================
