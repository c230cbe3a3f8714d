---------------------------- MODULE MCResources -----------------------------
(* Model of CInterface: the threads are alike, and so are the Lingers of   *)
(* callers in Rust.                                                        *)
EXTENDS CInterface, TLC

Alike == Permutations(Thread) \cup Permutations(Cont \ C)
=============================================================================
