---------------------------- MODULE MCScheduler ----------------------------
(* Instances of Scheduler for TLC. *)
EXTENDS Scheduler, TLC

ObjSymmetry == Permutations(Objs)
=============================================================================
