------------------------------- MODULE Startup -------------------------------
(***************************************************************************)
(* How a client gets to a daemon: flom_client_connect (flom_client.c), the *)
(* daemons clients start when they find none (flom_daemon and the flom_    *)
(* listen_* functions of flom_daemon.c), and how daemons end: after their  *)
(* lifespan, on request of `flom -x` (flom_client_shutdown,                *)
(* flom_daemon_mngmnt.c), or killed.                                       *)
(*                                                                         *)
(* There is no registry of daemons: clients that start at the same time,   *)
(* or while a daemon is leaving, race for a lock file and a socket path,   *)
(* for a TCP port, or for the answer to a multicast datagram.  What the    *)
(* kernel does with those is modelled from how the code uses it.           *)
(***************************************************************************)
EXTENDS Naturals, FiniteSets

CONSTANTS Client,    \* processes, each of which connects once
          Confs,     \* the configurations they may have: subset of [Client -> Conf]
          MaxKills   \* bound: daemons killed by something else

\* path: a local socket; port: a unicast address; group: a multicast address, where
\* daemons on a port of their own answer; port+group: both.
Addresses == {"path", "port", "port+group", "group"}

\* The address, the lifespan of the daemons that the client would start (zero for
\* the handles of libflom, which start none), and what it wants: a lock, or that the
\* daemon shuts down.
Conf == [address  : Addresses,
         lifespan : {"zero", "finite", "forever"},
         role     : {"lock", "immediate", "quiesce"}]

ASSUME StartupAssumption ==
  /\ Confs \subseteq [Client -> Conf]
  /\ MaxKills \in Nat

\* flom_daemon is called at most twice by a client.
Daemon == Client \X {1, 2}

VARIABLES conf,     \* [Client -> its configuration]
          pc,       \* [Client -> where flom_client_connect is]
          addr,     \* [Client -> the address it uses now]
          child,    \* [Client -> the last daemon it has started, if any]
          link,     \* [Client -> state of its connection]
          to,       \* [Client -> the daemon it is connected, or will connect, to]
          phase,    \* [Daemon -> how far it is]
          told,     \* [Daemon -> what it wrote to the process that started it]
          serves,   \* [Daemon -> the address it listens at]
          span,     \* [Daemon -> its lifespan]
          path,     \* whose socket the path of the local socket leads to
          flock,    \* who has the lock file
          kills     \* daemons killed so far

clientVars == <<conf, pc, addr, child, link, to>>
serverVars == <<phase, told, serves, span, path, flock, kills>>
startVars == <<clientVars, serverVars>>

Nobody == <<"nobody", 0>>

\* idle: about to connect; wait: in flom_daemon, reading the pipe; again: about to
\* connect for the second time; direct: a daemon on a port of its own has answered;
\* the others are final.
Pc == {"idle", "wait", "again", "direct", "OK", "DAEMON_NOT_STARTED", "CONNECT_ERROR", "ERROR"}

\* forked, then for a path: locked; bound; listening; loop: flom_accept_loop;
\* leaving: the loop is over; closed: flom_conns_free; dead.
Phase == {"none", "forked", "locked", "bound", "listening", "loop", "leaving", "closed", "dead"}

Rc == {"none", "OK", "FLOCK_ERROR", "BIND_ERROR", "LISTEN_ERROR"}

StartInit ==
  /\ conf \in Confs
  /\ pc = [c \in Client |-> "idle"]
  /\ addr = [c \in Client |-> conf[c].address]
  /\ child = [c \in Client |-> Nobody]
  /\ link = [c \in Client |-> "none"]
  /\ to = [c \in Client |-> Nobody]
  /\ phase = [d \in Daemon |-> "none"]
  /\ told = [d \in Daemon |-> "none"]
  /\ serves = [d \in Daemon |-> "none"]
  /\ span = [d \in Daemon |-> "none"]
  /\ path = Nobody
  /\ flock = Nobody
  /\ kills = 0

(***************************************************************************)
(* The client.                                                             *)
(***************************************************************************)

\* The kernel takes connections for a daemon that listens, even if it has left its
\* loop.
Listens(d) == phase[d] \in {"listening", "loop", "leaving"}

\* connect(), to a path or to a port: the daemons that would get the connection.
Reachable(a) ==
  IF a = "path"
  THEN {d \in Daemon : path = d /\ Listens(d)}
  ELSE {d \in Daemon : serves[d] = "port" /\ Listens(d)}

IsGroup(c) == addr[c] = "group"

\* flom_listen: where a daemon started for the address a will listen.
Place(a) == CASE a = "path" -> "path" [] a = "group" -> "own" [] OTHER -> "port"

\* flom_daemon, up to the read from the pipe.
StartDaemon(c) ==
  LET d == IF child[c] = Nobody THEN <<c, 1>> ELSE <<c, 2>> IN
  /\ pc' = [pc EXCEPT ![c] = "wait"]
  /\ child' = [child EXCEPT ![c] = d]
  /\ phase' = [phase EXCEPT ![d] = "forked"]
  /\ serves' = [serves EXCEPT ![d] = Place(addr[c])]
  /\ span' = [span EXCEPT ![d] = conf[c].lifespan]

Connected(c, d) ==
  /\ pc' = [pc EXCEPT ![c] = "OK"]
  /\ link' = [link EXCEPT ![c] = "backlog"]
  /\ to' = [to EXCEPT ![c] = d]

Fail(c, rc) == pc' = [pc EXCEPT ![c] = rc]

\* No daemon: start one, if that is allowed (flom_client_shutdown does not) and if
\* a daemon would live at all.
NoDaemon(c) ==
  \/ conf[c].role = "lock" /\ conf[c].lifespan # "zero" /\ StartDaemon(c)
  \/ /\ conf[c].role = "lock" /\ conf[c].lifespan = "zero" /\ Fail(c, "CONNECT_ERROR")
     /\ UNCHANGED <<child, phase, serves, span>>
  \/ /\ conf[c].role # "lock" /\ Fail(c, "DAEMON_NOT_STARTED")
     /\ UNCHANGED <<child, phase, serves, span>>

\* flom_client_connect_local and flom_client_connect_tcp, the first attempt.
ConnectFirst(c) ==
  /\ pc[c] = "idle" /\ ~IsGroup(c)
  /\ \/ /\ \E d \in Reachable(addr[c]) : Connected(c, d)
        /\ UNCHANGED <<child, phase, serves, span>>
     \/ /\ Reachable(addr[c]) = {}
        /\ NoDaemon(c)
        /\ UNCHANGED <<link, to>>
  /\ UNCHANGED <<conf, addr, told, path, flock, kills>>

\* flom_daemon returns.  That another daemon was faster is not an error, if it is
\* found out the usual way.
Tolerated(c) ==
  {"OK"} \cup CASE Place(addr[c]) = "path" -> {"FLOCK_ERROR"}
                [] Place(addr[c]) = "port" -> {"BIND_ERROR"}
                [] OTHER                   -> {}

DaemonReturns(c) ==
  /\ pc[c] = "wait"
  /\ told[child[c]] # "none"
  /\ pc' = [pc EXCEPT ![c] = IF told[child[c]] \in Tolerated(c) THEN "again" ELSE "ERROR"]
  /\ UNCHANGED <<conf, addr, child, link, to, serverVars>>

\* The second attempt starts nothing.
ConnectAgain(c) ==
  /\ pc[c] = "again" /\ ~IsGroup(c)
  /\ \/ \E d \in Reachable(addr[c]) : Connected(c, d)
     \/ Reachable(addr[c]) = {} /\ Fail(c, "DAEMON_NOT_STARTED") /\ UNCHANGED <<link, to>>
  /\ UNCHANGED <<conf, addr, child, serverVars>>

\* Who answers a discover message: the main loops of the daemons that have joined
\* the group.
Announces(d) ==
  /\ phase[d] = "loop"
  /\ serves[d] \in {"own", "port"}
  /\ conf[d[1]].address \in {"group", "port+group"}

\* flom_client_discover_udp gets the answer of d.  A daemon with a configured
\* address tells it: it goes in the configuration and flom_client_connect_tcp is
\* called; the others are connected to where the answer came from.
DiscoverReply(c) ==
  /\ pc[c] \in {"idle", "again"} /\ IsGroup(c)
  /\ \E d \in Daemon :
       /\ Announces(d)
       /\ \/ /\ serves[d] = "port"
             /\ addr' = [addr EXCEPT ![c] = "port"]
             /\ pc' = [pc EXCEPT ![c] = "idle"]
             /\ UNCHANGED to
          \/ /\ serves[d] = "own"
             /\ to' = [to EXCEPT ![c] = d]
             /\ pc' = [pc EXCEPT ![c] = "direct"]
             /\ UNCHANGED addr
  /\ UNCHANGED <<conf, child, link, serverVars>>

\* Nobody answers any of the attempts: there is no daemon, or the datagrams are lost.
DiscoverRefused(c) ==
  /\ IsGroup(c)
  /\ \/ pc[c] = "idle" /\ NoDaemon(c)
     \/ pc[c] = "again" /\ Fail(c, "ERROR") /\ UNCHANGED <<child, phase, serves, span>>
  /\ UNCHANGED <<conf, addr, link, to, told, path, flock, kills>>

\* flom_client_discover_udp_connect.
ConnectDirect(c) ==
  /\ pc[c] = "direct"
  /\ \/ Listens(to[c]) /\ Connected(c, to[c])
     \/ ~Listens(to[c]) /\ Fail(c, "CONNECT_ERROR") /\ UNCHANGED <<link, to>>
  /\ UNCHANGED <<conf, addr, child, serverVars>>

\* A client of a daemon disconnects, or dies; so does one whose daemon is gone.
Leave(c) ==
  /\ link[c] \in {"backlog", "served"}
  /\ link' = [link EXCEPT ![c] = "closed"]
  /\ UNCHANGED <<conf, pc, addr, child, to, serverVars>>

(***************************************************************************)
(* The daemon.                                                             *)
(***************************************************************************)

Step(d, from, next) ==
  /\ phase[d] = from
  /\ phase' = [phase EXCEPT ![d] = next]

\* Mutant of Refuse: the daemon exits before it writes to the pipe.
RefuseSilently(d, from, rc) ==
  /\ Step(d, from, "dead")
  /\ UNCHANGED <<told, path, flock>>

\* A failure of flom_listen: the reason code is written to the pipe, and that's all.
Refuse(d, from, rc) ==
  /\ Step(d, from, "dead")
  /\ told' = [told EXCEPT ![d] = rc]
  /\ UNCHANGED <<path, flock>>

\* flom_listen_local: the lock file.
Flock(d) ==
  /\ serves[d] = "path"
  /\ \/ /\ flock = Nobody
        /\ Step(d, "forked", "locked")
        /\ flock' = d
        /\ UNCHANGED <<told, path>>
     \/ flock # Nobody /\ Refuse(d, "forked", "FLOCK_ERROR")

\* flom_listen_local: what is left of an earlier daemon is unlinked, and the path
\* bound.
BindPath(d) ==
  /\ serves[d] = "path"
  /\ Step(d, "locked", "bound")
  /\ path' = d
  /\ UNCHANGED <<told, flock>>

OthersListen(d) == \E e \in Daemon \ {d} : serves[e] = "port" /\ Listens(e)

\* flom_tcp_listen: with SO_REUSEADDR, bind() fails only if somebody listens.
BindPort(d) ==
  /\ serves[d] = "port"
  /\ \/ ~OthersListen(d) /\ Step(d, "forked", "bound") /\ UNCHANGED <<told, path, flock>>
     \/ OthersListen(d) /\ Refuse(d, "forked", "BIND_ERROR")

\* flom_listen_tcp_automatic: a port of its own.
BindOwn(d) ==
  /\ serves[d] = "own"
  /\ Step(d, "forked", "bound")
  /\ UNCHANGED <<told, path, flock>>

\* Mutant of Listen: with SO_REUSEPORT set, several processes may listen at a port.
ListenShared(d) ==
  /\ Step(d, "bound", "listening")
  /\ UNCHANGED <<told, path, flock>>

\* listen(): of two that have bound a port, one succeeds.
Listen(d) ==
  \/ /\ ~(serves[d] = "port" /\ OthersListen(d))
     /\ Step(d, "bound", "listening")
     /\ UNCHANGED <<told, path, flock>>
  \/ serves[d] = "port" /\ OthersListen(d) /\ Refuse(d, "bound", "LISTEN_ERROR")

\* The father is told, and flom_accept_loop starts.
Ready(d) ==
  /\ Step(d, "listening", "loop")
  /\ told' = [told EXCEPT ![d] = "OK"]
  /\ UNCHANGED <<path, flock>>

\* poll() times out, with no locker and no connection: the loop ends.
LifespanEnds(d) ==
  /\ span[d] = "finite"
  /\ \A c \in Client : to[c] = d => link[c] \notin {"backlog", "served"}
  /\ Step(d, "loop", "leaving")
  /\ UNCHANGED <<told, path, flock>>

\* flom_listen_clean: the path, whoever has bound it, and the end of the process,
\* which releases the lock file.
Unlink(d) ==
  /\ Step(d, "closed", "dead")
  /\ path' = IF serves[d] = "path" THEN Nobody ELSE path
  /\ flock' = IF flock = d THEN Nobody ELSE flock
  /\ UNCHANGED told

\* The connections of d are reset.
Reset(d) ==
  link' = [c \in Client |-> IF to[c] = d /\ link[c] \in {"backlog", "served"}
                            THEN "reset" ELSE link[c]]

\* Mutant of CloseListener: the lock file goes with the other descriptors.
CloseFlock(d) ==
  /\ Step(d, "leaving", "closed")
  /\ Reset(d)
  /\ flock' = IF flock = d THEN Nobody ELSE flock
  /\ UNCHANGED <<told, path>>

\* Mutant of CloseListener: the listener is left to those who are still connecting.
CloseKeepsBacklog(d) ==
  /\ Step(d, "leaving", "closed")
  /\ UNCHANGED <<link, told, path, flock>>

\* flom_listen_clean: flom_conns_free closes the listener, with the connections that
\* nobody has accepted.
CloseListener(d) ==
  /\ Step(d, "leaving", "closed")
  /\ Reset(d)
  /\ UNCHANGED <<told, path, flock>>

DaemonStep(d) ==
  \/ /\ Flock(d) \/ BindPath(d) \/ BindPort(d) \/ BindOwn(d) \/ Listen(d) \/ Ready(d) \/ Unlink(d)
     /\ UNCHANGED <<clientVars, serves, span, kills>>
  \/ CloseListener(d) /\ UNCHANGED <<conf, pc, addr, child, to, serves, span, kills>>

ExpireStep(d) == LifespanEnds(d) /\ UNCHANGED <<clientVars, serves, span, kills>>

\* Mutant of Accept: the request to quiesce changes nothing.
AcceptIgnores(c) ==
  /\ link[c] = "backlog" /\ phase[to[c]] = "loop"
  /\ conf[c].role # "immediate"
  /\ link' = [link EXCEPT ![c] = "served"]
  /\ UNCHANGED <<conf, pc, addr, child, to, serverVars>>

\* accept(), of a client that locks, or the message of one that shuts down: in the
\* quiesce mode a grace time becomes the lifespan.
Accept(c) ==
  /\ link[c] = "backlog" /\ phase[to[c]] = "loop"
  /\ conf[c].role # "immediate"
  /\ link' = [link EXCEPT ![c] = "served"]
  /\ span' = IF conf[c].role = "quiesce" THEN [span EXCEPT ![to[c]] = "finite"] ELSE span
  /\ UNCHANGED <<conf, pc, addr, child, to, phase, told, serves, path, flock, kills>>

\* The end of a process that cleans nothing: its descriptors are closed, the path
\* stays.
Die(d) ==
  /\ phase' = [phase EXCEPT ![d] = "dead"]
  /\ flock' = IF flock = d THEN Nobody ELSE flock
  /\ Reset(d)
  /\ UNCHANGED <<conf, pc, addr, child, to, told, serves, span, path>>

\* exit(0), as asked.
Immediate(c) ==
  /\ link[c] = "backlog" /\ phase[to[c]] = "loop"
  /\ conf[c].role = "immediate"
  /\ Die(to[c])
  /\ UNCHANGED kills

Kill(d) ==
  /\ phase[d] \notin {"none", "dead"}
  /\ kills < MaxKills
  /\ kills' = kills + 1
  /\ Die(d)

-------------------------------------------------------------------------------
ConnectStep(c) ==
  \/ ConnectFirst(c) \/ DaemonReturns(c) \/ ConnectAgain(c)
  \/ DiscoverReply(c) \/ DiscoverRefused(c) \/ ConnectDirect(c)

Serve(c) == Accept(c) \/ Immediate(c)

StartNext ==
  \/ \E c \in Client : ConnectStep(c) \/ Leave(c) \/ Serve(c)
  \/ \E d \in Daemon : DaemonStep(d) \/ ExpireStep(d) \/ Kill(d)

StartSpec == StartInit /\ [][StartNext]_startVars

\* Processes that are not blocked run; poll() times out if nothing happens; a client
\* that is served ends with its connection some day.  One that nobody has accepted is
\* blocked in recv(), and need not leave.
StartupFairness ==
  /\ \A c \in Client : /\ WF_startVars(ConnectStep(c))
                       /\ WF_startVars(Serve(c))
                       /\ WF_startVars(link[c] = "served" /\ Leave(c))
  /\ \A d \in Daemon : WF_startVars(DaemonStep(d)) /\ WF_startVars(ExpireStep(d))

FairStartup == StartSpec /\ StartupFairness

-------------------------------------------------------------------------------
(***************************************************************************)
(* Properties.                                                             *)
(***************************************************************************)

\* Phases, reason codes and the owners of path and lock file.
StartTypeOK ==
  /\ conf \in Confs
  /\ pc \in [Client -> Pc]
  /\ addr \in [Client -> Addresses]
  /\ child \in [Client -> Daemon \cup {Nobody}]
  /\ link \in [Client -> {"none", "backlog", "served", "closed", "reset"}]
  /\ to \in [Client -> Daemon \cup {Nobody}]
  /\ phase \in [Daemon -> Phase]
  /\ told \in [Daemon -> Rc]
  /\ serves \in [Daemon -> {"none", "path", "port", "own"}]
  /\ span \in [Daemon -> {"none", "finite", "forever"}]
  /\ path \in Daemon \cup {Nobody}
  /\ flock \in Daemon \cup {Nobody}
  /\ kills \in 0..MaxKills

\* Clients with the same path, or the same port, that are being served at the same
\* time are served by the same daemon, whatever was started, left or killed
\* meanwhile: otherwise both could hold the same lock.  (Multicast gives no such
\* guarantee: two clients that discover nobody start a daemon each.)
SameDaemon ==
  \A c1, c2 \in Client :
    /\ link[c1] = "served" /\ link[c2] = "served"
    /\ serves[to[c1]] = serves[to[c2]] /\ serves[to[c1]] # "own"
    => to[c1] = to[c2]

\* A daemon that has found its place can be reached: the path leads to it as long as
\* it accepts connections, although every daemon that leaves, and every one that
\* starts, unlinks whatever is there.
LoopReachable ==
  \A d \in Daemon : phase[d] \in {"listening", "loop"} /\ serves[d] = "path" => path = d

\* A client that starts a daemon and fails finds its daemon gone already or, at a
\* path, the lock file in the hands of another one: what a killed daemon leaves
\* behind is never the reason, and the daemon answers its father in time.
OwnDaemonReached ==
  \A c \in Client :
    pc[c] \in {"DAEMON_NOT_STARTED", "ERROR"} /\ child[c] # Nobody /\ addr[c] # "group" =>
      /\ told[child[c]] = "OK" => phase[child[c]] \in {"closed", "dead"}
      /\ addr[c] = "path" => told[child[c]] \in {"OK", "FLOCK_ERROR"}

\* A daemon killed before it has answered leaves its father in read() for ever: the
\* father has the writing end of the pipe, too.
Bereft(c) ==
  pc[c] = "wait" /\ phase[child[c]] = "dead" /\ told[child[c]] = "none" /\ kills > 0

\* flom_client_connect returns, with that exception.
ConnectReturns ==
  \A c \in Client : <>(pc[c] \notin {"idle", "wait", "again", "direct"} \/ Bereft(c))

\* A connection that nobody has accepted is accepted or refused, although its client may
\* wait for ever: the daemon whose lifespan ends closes those that came while it was
\* leaving, and so does the end of its process.
BacklogSettled ==
  \A c \in Client : link[c] = "backlog" ~> link[c] # "backlog"

\* A daemon ends once its clients have left, if its lifespan is finite, and if it
\* has got a quiesce request, even one started to live for ever.
ShutdownCompletes ==
  \A d \in Daemon :
    \/ span[d] = "finite"
    \/ \E c \in Client : conf[c].role = "quiesce" /\ link[c] = "served" /\ to[c] = d
    ~> phase[d] = "dead"

\* Daemons are where their clients, and above all who started them, look for them.
DaemonReached ==
  /\ StartTypeOK
  /\ LoopReachable
  /\ OwnDaemonReached
===============================================================================
