------------------------------ MODULE MCSession ------------------------------
(***************************************************************************)
(* Two programs: one may call flom_handle_lock twice, on one connection or *)
(* on two, the other once.                                                 *)
(***************************************************************************)
EXTENDS Session

CONSTANTS h1, h2, a, b

R(n, q, create, timeout) ==
  [name |-> n, quantity |-> q, create |-> create, timeout |-> timeout]

\* The first asks with a timeout, for a resource it creates or not, or for more than
\* another resource has, or does not wait; the second waits for ever.
SomeAsks ==
  h1 :> {R(a, 1, TRUE, "positive"), R(a, 1, FALSE, "positive"), R(a, 1, FALSE, "zero"),
         R(b, 2, TRUE, "positive")} @@
  h2 :> {R(a, 1, TRUE, "negative")}

\* The second waits, in the incubator if need be, for more than there is.
TooMuchAsks ==
  h1 :> {R(a, 1, TRUE, "positive")} @@
  h2 :> {R(a, 2, FALSE, "negative")}

AllRequests == UNION {SomeAsks[h] \cup TooMuchAsks[h] : h \in {h1, h2}}

TwiceAndOnce == h1 :> 2 @@ h2 :> 1

\* What the first does after its first call: the same again; a name of another locker,
\* or back from it; not to wait any more, in the incubator; to wait where it was told
\* that it can not.
Again ==
  { <<R(a, 1, TRUE, "positive"), R(a, 1, TRUE, "positive")>>,
    <<R(a, 1, TRUE, "positive"), R(b, 2, TRUE, "positive")>>,
    <<R(b, 2, TRUE, "positive"), R(a, 1, TRUE, "positive")>>,
    <<R(a, 1, FALSE, "positive"), R(a, 1, FALSE, "zero")>>,
    <<R(a, 1, FALSE, "zero"), R(a, 1, FALSE, "positive")>> }

AgainNext == Next /\ (locks'[h1] > 1 /\ locks[h1] = 1 => <<request[h1], request'[h1]>> \in Again)

AgainSpec == Init /\ [][AgainNext]_vars /\ Fairness
==============================================================================
