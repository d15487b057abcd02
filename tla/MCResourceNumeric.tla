-------------------------- MODULE MCResourceNumeric --------------------------
(* ResourceNumeric on a few connections. *)
EXTENDS ResourceNumeric, TLC

ConnSymmetry == Permutations(Conn)

\* At most two ask for the same quantity, at most one for more than there is, and
\* at most one does not wait.
MixInit ==
  /\ Init
  /\ \A q \in Request : Cardinality({c \in Conn : ask[c].req = q}) <= 2
  /\ Cardinality({c \in Conn : ask[c].req > Total}) <= 1
  /\ Cardinality({c \in Conn : ~ask[c].wait}) <= 1

MixSpec == MixInit /\ [][Next]_vars
===============================================================================
