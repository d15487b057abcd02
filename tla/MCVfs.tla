-------------------------------- MODULE MCVfs ---------------------------------
(* Vfs on a few clients. *)
EXTENDS Vfs, TLC
Symmetry == Permutations(Client) \cup Permutations(Name)
===============================================================================
