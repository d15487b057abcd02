-------------------------- MODULE MCResourceSequence --------------------------
(* ResourceSequence on a few connections, numbered. *)
EXTENDS ResourceSequence

\* Up to a renaming of the connections, those that wait come last.  (Liveness is
\* checked, so TLC's own symmetry can not be used.)
SortedInit ==
  /\ Init
  /\ \A c, d \in Conn : c < d /\ ask[c].wait => ask[d].wait

SortedSpec == SortedInit /\ [][Next]_vars /\ Fairness
===============================================================================
