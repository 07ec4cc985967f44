---------------------------- MODULE MCClientSync ----------------------------
(* Instances of ClientSync for TLC. *)
EXTENDS ClientSync, TLC

Symmetry == Permutations(Req) \cup Permutations(Cancellable) \cup Permutations(Server)
=============================================================================
