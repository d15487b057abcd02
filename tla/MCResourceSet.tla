----------------------------- MODULE MCResourceSet -----------------------------
(* ResourceSet on a few connections. *)
EXTENDS ResourceSet, TLC
ConnSymmetry == Permutations(Conn)
===============================================================================
