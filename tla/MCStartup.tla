------------------------------ MODULE MCStartup ------------------------------
EXTENDS Startup, TLC

CONSTANTS c1, c2, c3

MCClient == {c1, c2, c3}

As(address, lifespan, role) == [address |-> address, lifespan |-> lifespan, role |-> role]

All(x, y, z) == c1 :> x @@ c2 :> y @@ c3 :> z

\* Two clients that race, with a third one, with `flom -x` or with a client that
\* must not start a daemon; at a path, at a port, and with a multicast group.
MCConfs == {
  All(As("path", "finite", "lock"), As("path", "finite", "lock"), As("path", "forever", "lock")),
  All(As("path", "finite", "lock"), As("path", "forever", "lock"), As("path", "finite", "immediate")),
  All(As("path", "forever", "lock"), As("path", "zero", "lock"), As("path", "finite", "quiesce")),
  All(As("port", "finite", "lock"), As("port", "forever", "lock"), As("port", "finite", "quiesce")),
  All(As("port+group", "finite", "lock"), As("group", "finite", "lock"), As("group", "forever", "quiesce")),
  All(As("group", "finite", "lock"), As("group", "forever", "lock"), As("group", "finite", "immediate")),
  All(As("group", "forever", "lock"), As("group", "zero", "lock"), As("group", "finite", "quiesce"))}
==============================================================================
