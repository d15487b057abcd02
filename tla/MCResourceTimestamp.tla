------------------------- MODULE MCResourceTimestamp -------------------------
(* ResourceTimestamp on a few connections and a short stretch of time. *)
EXTENDS ResourceTimestamp, TLC

ConnSymmetry == Permutations(Conn)

\* In the format of seconds local time is not UTC, and one client does not wait.
MixInit ==
  /\ Init
  /\ offset = IF format = "second" THEN 1 ELSE 0
  /\ Cardinality({c \in Conn : ~ask[c].wait}) = IF format = "second" THEN 1 ELSE 0

\* The beginning of the next slot and a little more (fractions: a few slots).
Horizon == CASE format = "fraction" -> Start + SEC
             [] format = "second"   -> Start + SEC + MSEC
             [] format = "minute"   -> MaxClock

\* "second" and "minute" take the same branches: the clock is set back in one of them.
MixSpec == MixInit /\ [][Next /\ now' <= Horizon /\ (steppedBack' => format = "second")]_vars
===============================================================================
