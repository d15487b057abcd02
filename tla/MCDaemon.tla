------------------------------- MODULE MCDaemon -------------------------------
(* Daemon on three clients.  Liveness can not be checked under symmetry, so    *)
(* the run starts from one representative of each choice of requests of        *)
(* interest.                                                                   *)
EXTENDS Daemon
CONSTANTS c1, c2, c3, a, b

Creates(n) == [name |-> n, create |-> TRUE, wait |-> TRUE]
Waits(n) == [name |-> n, create |-> FALSE, wait |-> TRUE]
Asks(n) == [name |-> n, create |-> FALSE, wait |-> FALSE]

\* c1 creates resource a.  The others both wait for it in the incubator; or one
\* does and one creates it too or can not wait; or all three create it; or one
\* creates another resource, for which the third waits.
MixInit ==
  /\ DaemonStarts
  /\ want[c1] = Creates(a)
  /\ <<want[c2], want[c3]>> \in {<<Waits(a), Waits(a)>>, <<Waits(a), Creates(a)>>,
                                 <<Waits(a), Asks(a)>>, <<Creates(a), Creates(a)>>,
                                 <<Creates(b), Waits(b)>>}

MixSpec == MixInit /\ [][DaemonNext]_daemonVars /\ Fairness
===============================================================================
