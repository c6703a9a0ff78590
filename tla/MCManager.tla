----------------------------- MODULE MCManager -----------------------------
(* Small instances of Manager for TLC.                                     *)
EXTENDS ManagerPool, TLC

\* Goroutines, callers, targets and definitions are interchangeable.
Symmetry == Permutations(Threads) \cup Permutations(Starters)
                \cup Permutations(Keys) \cup Permutations(Defs)
=============================================================================
