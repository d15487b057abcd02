---------------------------- MODULE SimpleService ----------------------------
(***************************************************************************)
(* A simple resource and its locker implement the abstract lock service.   *)
(***************************************************************************)
EXTENDS ResourceSimple

\* The lists of a thread that has left its loop mean nothing any more.
Alive == thread # "dead"

Service ==
  INSTANCE LockService WITH
    Client     <- Conn,
    Mode       <- Request,
    Compatible <- Compatible,
    mode       <- [c \in Conn |-> ask[c].req],
    here       <- {c \in Conn : peer[c] \in {"none", "up"}},
    held       <- IF Alive THEN {holders[k].conn : k \in DOMAIN holders} ELSE {},
    queue      <- IF Alive THEN [k \in DOMAIN waitings |-> waitings[k].conn] ELSE <<>>,
    running    <- Alive

\* Every step of the clients, of the callbacks inmsg, clean and waitings, and of the
\* loop that calls them (a failed send, a second clean, the end of the thread) is a
\* step of the abstract service or changes nothing in it: no lock is lost or taken
\* away from a client that is still there, no grant overtakes a waiter that could
\* have been served, two clients never hold incompatible modes.
ImplementsService == Service!Spec
==============================================================================
