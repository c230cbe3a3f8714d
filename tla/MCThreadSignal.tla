--------------------------- MODULE MCThreadSignal ---------------------------
(* ThreadSignal for TLC: the threads are interchangeable.                  *)
EXTENDS ThreadSignal, TLC

Symmetry == Permutations(Thread)
=============================================================================
