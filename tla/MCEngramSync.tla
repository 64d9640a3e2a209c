---------------------------- MODULE MCEngramSync ----------------------------
(***************************************************************************)
(* An instance of EngramSync for TLC: two clients, a memory with one       *)
(* field, and a space with a record of another machine, or one that is a   *)
(* row here, or one whose row was deleted.                                 *)
(***************************************************************************)
EXTENDS EngramSync

CONSTANTS a, b

Past(n, k, deleted) ==
  [records |-> [i \in 1..n |-> Blank], linked |-> k, tombs |-> deleted]

Foreign == Past(1, 0, {})
Linked == Past(1, 1, {})
Deleted == Past(1, 0, {1})

OneRecord == {Foreign, Linked, Deleted}

=============================================================================
