----------------------------- MODULE LockService -----------------------------
(***************************************************************************)
(* What flom promises of one lockable resource, with no threads, sockets,  *)
(* messages or lists: clients ask for modes, hold them or stand in a queue, *)
(* and leave.  The service never takes a lock, or a place in the queue,    *)
(* from a client that has not left, unless it stops altogether.            *)
(***************************************************************************)
EXTENDS Naturals, Sequences

CONSTANTS Client,           \* each asks for one lock
          Mode,             \* lock modes
          Compatible(_, _)  \* may the second mode be granted beside the first?

VARIABLES mode,     \* [Client -> the mode it asks for]
          here,     \* the clients that have not left
          held,     \* the clients that hold their lock
          queue,    \* the clients that wait, the oldest first
          running   \* FALSE once the service has stopped

vars == <<mode, here, held, queue, running>>

Waiting(c) == \E k \in DOMAIN queue : queue[k] = c
Without(s, k) == SubSeq(s, 1, k - 1) \o SubSeq(s, k + 1, Len(s))
Grantable(c) == \A d \in held : Compatible(mode[d], mode[c])

Init ==
  /\ mode \in [Client -> Mode]
  /\ here = Client
  /\ held = {}
  /\ queue = <<>>
  /\ running = TRUE

\* A newcomer is served at once if its mode goes with those held, whoever waits.
Acquire(c) ==
  /\ c \notin held /\ ~Waiting(c)
  /\ Grantable(c)
  /\ held' = held \cup {c}
  /\ UNCHANGED <<mode, here, queue, running>>

Enqueue(c) ==
  /\ c \notin held /\ ~Waiting(c)
  /\ ~Grantable(c)
  /\ queue' = Append(queue, c)
  /\ UNCHANGED <<mode, here, held, running>>

\* The first waiter that can be served is.
Promote(k) ==
  /\ Grantable(queue[k])
  /\ \A j \in 1..(k - 1) : ~Grantable(queue[j])
  /\ held' = held \cup {queue[k]}
  /\ queue' = Without(queue, k)
  /\ UNCHANGED <<mode, here, running>>

\* A client unlocks, disconnects or dies: nothing happens yet.
Leave(c) ==
  /\ here' = here \ {c}
  /\ UNCHANGED <<mode, held, queue, running>>

Release(c) ==
  /\ c \in held \ here
  /\ held' = held \ {c}
  /\ UNCHANGED <<mode, here, queue, running>>

Withdraw(k) ==
  /\ queue[k] \notin here
  /\ queue' = Without(queue, k)
  /\ UNCHANGED <<mode, here, held, running>>

Stop ==
  /\ running' = FALSE
  /\ held' = {}
  /\ queue' = <<>>
  /\ UNCHANGED <<mode, here>>

Next ==
  \/ \E c \in Client : Leave(c)
  \/ running /\ \/ \E c \in Client : Acquire(c) \/ Enqueue(c) \/ Release(c)
                \/ \E k \in DOMAIN queue : Promote(k) \/ Withdraw(k)
                \/ Stop

Spec == Init /\ [][Next]_vars
==============================================================================
