--------------------------- MODULE MCResourceSimple ---------------------------
(* ResourceSimple on a few connections. *)
EXTENDS SimpleService, TLC

ConnSymmetry == Permutations(Conn)

\* No two ask for the same mode, so that four are enough for the scan to pass over
\* a request and serve the next one; all wait but, perhaps, the one that asks for
\* the weakest mode.
MixInit ==
  /\ Init
  /\ \A c, d \in Conn : c # d => ask[c].req # ask[d].req
  /\ \A c \in Conn : ask[c].wait \/ \A d \in Conn : ask[c].req <= ask[d].req

MixSpec == MixInit /\ [][Next]_vars
===============================================================================
