---------------------------- MODULE MCPreemption ----------------------------
(***************************************************************************)
(* Small instances of Preemption.                                          *)
(***************************************************************************)
EXTENDS Preemption

CONSTANTS t1, t2, c1, c2

(* Any thread may resume any function: a Continuation is Send.             *)
Movable == Thread \X Cont
=============================================================================
