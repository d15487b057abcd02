----------------------------- MODULE MCResourceHier -----------------------------
(* ResourceHier on a few connections and a small tree. *)
EXTENDS ResourceHier, TLC

ConnSymmetry == Permutations(Conn)

\* Names at three depths, two of them siblings.
TreeRequest ==
  { [path |-> <<"a">>, mode |-> 3],
    [path |-> <<"a", "b">>, mode |-> 5],
    [path |-> <<"a", "b", "d">>, mode |-> 3],
    [path |-> <<"a", "c">>, mode |-> 5] }

\* No two ask for the same, so that four are enough for the scan to pass over a
\* request and serve the next one; all wait but the one that asks for /a/c.
TreeInit ==
  /\ Init
  /\ \A c, d \in Conn : c # d => ask[c].req # ask[d].req
  /\ \A c \in Conn : ask[c].wait <=> ask[c].req.path # <<"a", "c">>

TreeSpec == TreeInit /\ [][Next]_vars
===============================================================================
