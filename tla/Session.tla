------------------------------- MODULE Session -------------------------------
(***************************************************************************)
(* The lock session of a program: the handles of libflom (flom_handle.c)   *)
(* and the client protocol below them (flom_client.c), composed with the   *)
(* daemon at the other end of the sockets.  Here the daemon is what the    *)
(* modules Daemon and ResourceNumeric say of it, without their inner       *)
(* steps: a main thread that creates numeric resources on demand, keeps    *)
(* the clients of missing ones in the incubator, and one locker for each   *)
(* resource.  Messages between the two ends are in transit on sockets, a   *)
(* call blocks while it waits for one, and gives up when its timeout       *)
(* expires: what a handle believes and what the daemon has may differ.     *)
(* An answer to a client that is gone may fail, and then so may the thread *)
(* that sends it: the connections of a failed locker are closed, those in  *)
(* its pipe are lost.                                                      *)
(***************************************************************************)
EXTENDS Naturals, Sequences, FiniteSets, SequencesExt

CONSTANTS Handle,     \* handles, each of a process of its own
          Name,       \* names of numeric resources
          Request,    \* the settings the programs lock with
          Asks,       \* and those each of them chooses from
          Total,      \* the quantity of every resource
          MaxLocks,   \* bound: calls of flom_handle_lock, for each handle
          MaxCrashes  \* bound: crashes of the daemon

\* timeout: 0 does not wait; a positive number of milliseconds; negative, for ever.
Setting == [name : Name, quantity : Nat, create : BOOLEAN,
            timeout : {"zero", "positive", "negative"}]

ASSUME SessionAssumption ==
  /\ IsFiniteSet(Handle)
  /\ {"none", "main", "closed"} \cap Name = {}   \* they say where a connection is
  /\ Request \subseteq Setting /\ Request # {}
  /\ Asks \in [Handle -> SUBSET Request]
  /\ Total \in Nat
  /\ MaxLocks \in [Handle -> Nat]
  /\ MaxCrashes \in Nat

\* The sockets: the n-th connection of a handle.
Conn == UNION {{h} \X (1..MaxLocks[h]) : h \in Handle}

VARIABLES state,     \* [Handle -> State]: handle->state
          request,   \* [Handle -> the settings of the last lock]
          call,      \* [Handle -> where the running call is blocked]
          result,    \* [Handle -> what the last flom_handle_lock returned]
          opened,    \* [Handle -> connections opened so far]
          locks,     \* [Handle -> calls of flom_handle_lock so far]
          end,       \* [Conn -> is the client's end open, half closed, closed?]
          up,        \* [Conn -> messages on their way to the daemon]
          down,      \* [Conn -> answers on their way to the client]
          server,    \* [Conn -> who has the connection in the daemon]
          msg,       \* [Conn -> the LOCK message no locker has read yet]
          pipe,      \* [Name -> connections on their way to the locker]
          hup,       \* [Conn -> has the daemon shut down its sending half?]
          null_fd,   \* connections the main thread has closed and not yet removed
          moved,     \* a message was handled, the main thread's pass is over
          exists,    \* the resources that have a locker
          holders,   \* [Name -> granted locks]
          waitings,  \* [Name -> enqueued requests]
          scan,      \* [Name -> the clean whose scan of the queue is running]
          thread,    \* [Name -> is the thread of the locker in its loop?]
          crashes,   \* crashes of the daemon so far
          asked      \* [Conn -> the LOCK messages sent on it] (history)

handleVars == <<state, request, call, result, opened, locks>>
socketVars == <<end, up, down, asked>>
mainVars == <<server, msg, pipe, hup, null_fd, moved, exists>>
lockerVars == <<holders, waitings, scan, thread>>
daemonVars == <<mainVars, lockerVars, crashes>>
vars == <<handleVars, socketVars, daemonVars>>

\* "FREED": flom_handle_delete; "EXITED": the process has ended.
State == {"INIT", "CONNECTED", "LOCKED", "DISCONNECTED", "CLEANED", "FREED", "EXITED"}

\* "lock": the first recv of flom_client_lock; "wait": flom_client_wait_lock; the
\* others: the recv of flom_client_disconnect, and the function that led there.
Call == {"none", "lock", "wait", "unlock", "clean", "delete"}

\* BROKEN: the socket failed, or the answer made no sense.
Result == {"NONE", "OK", "TIMEOUT", "REFUSED", "BROKEN"}

Answer == [step : {16, 24},
           rc : {"OK", "ENQUEUED", "WAIT_RESOURCE", "BUSY", "IMPOSSIBLE", "CANT_WAIT"}]

Lock(r) == [verb |-> "LOCK", req |-> r]
Unlock(r) == [verb |-> "UNLOCK", req |-> r]
Message == [verb : {"LOCK", "UNLOCK"}, req : Request]
Entry == [conn : Conn, quantity : Nat]

\* step: that of the answer it will get, 24 if it has been in the incubator.
NoMsg == [step |-> 0]
Pending == {NoMsg} \cup [step : {16, 24}, req : Request]

\* A scan: the connection that was cleaned and why, "unlock" (an UNLOCK message) or
\* "error"; "reclean": it failed, and the connection is to be closed and cleaned.
NoScan == [path |-> "none"]
Scan == {NoScan} \cup [path : {"unlock", "error", "reclean"}, conn : Conn]

\* "ends": it has left its loop, and will close its connections; "orphan": it has
\* closed its pipe in place of a connection (see the module Locker).
Thread == {"loop", "ends", "dead", "orphan"}

Init ==
  /\ state = [h \in Handle |-> "INIT"]
  /\ request \in [Handle -> {CHOOSE r \in Request : TRUE}]
  /\ call = [h \in Handle |-> "none"]
  /\ result = [h \in Handle |-> "NONE"]
  /\ opened = [h \in Handle |-> 0]
  /\ locks = [h \in Handle |-> 0]
  /\ end = [c \in Conn |-> "none"]
  /\ up = [c \in Conn |-> <<>>]
  /\ down = [c \in Conn |-> <<>>]
  /\ asked = [c \in Conn |-> <<>>]
  /\ server = [c \in Conn |-> "none"]
  /\ msg = [c \in Conn |-> NoMsg]
  /\ pipe = [n \in Name |-> <<>>]
  /\ hup = [c \in Conn |-> FALSE]
  /\ null_fd = {}
  /\ moved = FALSE
  /\ exists = {}
  /\ holders = [n \in Name |-> <<>>]
  /\ waitings = [n \in Name |-> <<>>]
  /\ scan = [n \in Name |-> NoScan]
  /\ thread = [n \in Name |-> "loop"]
  /\ crashes = 0

(***************************************************************************)
(* The handle.                                                             *)
(***************************************************************************)

\* The connection of the handle, if it has opened one.
Current(h) == <<h, opened[h]>>

\* The states in which the settings of a request can be changed are those in which
\* flom_handle_lock may be called, so a program sets and locks in one step here;
\* create can be set only while the handle has no connection.
MayLock(h, r) ==
  /\ call[h] = "none"
  /\ state[h] \in {"INIT", "CONNECTED", "DISCONNECTED"}
  /\ state[h] = "CONNECTED" => r.create = request[h].create

\* The daemon has closed its end of the socket.
Closed(c) == server[c] = "closed" \/ c \in null_fd

\* The socket takes a message.  If the daemon has closed its end it takes it all the
\* same, and the message is lost, or refuses it.
Sent(c, m) == IF Closed(c) THEN up ELSE [up EXCEPT ![c] = Append(@, m)]
SendFails(c) == Closed(c)

\* flom_handle_lock up to the first recv: connect if necessary, send LOCK.
LockCall(h, r) ==
  LET fresh == state[h] # "CONNECTED"
      c == IF fresh THEN <<h, opened[h] + 1>> ELSE Current(h)
  IN
  /\ MayLock(h, r)
  /\ locks[h] < MaxLocks[h]
  /\ locks' = [locks EXCEPT ![h] = @ + 1]
  /\ opened' = [opened EXCEPT ![h] = IF fresh THEN @ + 1 ELSE @]
  /\ state' = [state EXCEPT ![h] = "CONNECTED"]
  /\ request' = [request EXCEPT ![h] = r]
  /\ end' = [end EXCEPT ![c] = "open"]
  /\ server' = [server EXCEPT ![c] = IF fresh THEN "main" ELSE @]
  /\ \/ /\ SendFails(c)
        /\ result' = [result EXCEPT ![h] = "BROKEN"]
        /\ UNCHANGED <<call, up, asked>>
     \/ /\ call' = [call EXCEPT ![h] = "lock"]
        /\ up' = Sent(c, Lock(r))
        /\ asked' = [asked EXCEPT ![c] = Append(@, r)]
        /\ result' = [result EXCEPT ![h] = "NONE"]
  /\ UNCHANGED <<down, msg, pipe, hup, null_fd, moved, exists, lockerVars, crashes>>

\* The call of flom_handle_lock returns: LOCKED, or still CONNECTED.
Return(h, rc) ==
  /\ call' = [call EXCEPT ![h] = "none"]
  /\ result' = [result EXCEPT ![h] = rc]
  /\ state' = [state EXCEPT ![h] = IF rc = "OK" THEN "LOCKED" ELSE @]

Continue(h, where) ==
  /\ call' = [call EXCEPT ![h] = where]
  /\ UNCHANGED <<result, state>>

\* Mutant of LockAnswer: any answer but a refusal is a grant.
LockAnswerHasty(h, a) ==
  CASE a.step # 16 -> Return(h, "BROKEN")
    [] a.rc \in {"OK", "ENQUEUED", "WAIT_RESOURCE"} -> Return(h, "OK")
    [] OTHER -> Return(h, "REFUSED")

\* What flom_client_lock makes of the first answer.
LockAnswer(h, a) ==
  CASE a.step # 16 -> Return(h, "BROKEN")
    [] a.step = 16 /\ a.rc = "OK" -> Return(h, "OK")
    [] a.step = 16 /\ a.rc \in {"ENQUEUED", "WAIT_RESOURCE"} -> Continue(h, "wait")
    [] a.step = 16 /\ a.rc \in {"BUSY", "IMPOSSIBLE", "CANT_WAIT"} -> Return(h, "REFUSED")

\* What flom_client_wait_lock makes of the answers that follow, and flom_client_lock
\* of its result: the reason code is looked at only to see if it is ENQUEUED, the
\* last step must be 24 (or 32, which no resource sends).
WaitAnswer(h, a) ==
  IF a.rc = "ENQUEUED"
  THEN Continue(h, "wait")
  ELSE Return(h, IF a.step = 24 THEN "OK" ELSE "BROKEN")

\* recv returns an answer.
Recv(h) ==
  LET c == Current(h) IN
  /\ call[h] \in {"lock", "wait"}
  /\ down[c] # <<>>
  /\ IF call[h] = "lock" THEN LockAnswer(h, Head(down[c])) ELSE WaitAnswer(h, Head(down[c]))
  /\ down' = [down EXCEPT ![c] = Tail(@)]
  /\ UNCHANGED <<request, opened, locks, end, up, asked, daemonVars>>

\* There is nothing to read and there will be nothing.
Eof(c) == down[c] = <<>> /\ (Closed(c) \/ hup[c])

\* recv returns 0 bytes, which is an error.
RecvError(h) ==
  /\ call[h] \in {"lock", "wait"}
  /\ Eof(Current(h))
  /\ Return(h, "BROKEN")
  /\ UNCHANGED <<request, opened, locks, socketVars, daemonVars>>

\* poll() in flom_conn_recv times out: the request stays where it is.
RecvTimeout(h) ==
  /\ call[h] \in {"lock", "wait"}
  /\ request[h].timeout = "positive"
  /\ down[Current(h)] = <<>> /\ ~Eof(Current(h))
  /\ Return(h, "TIMEOUT")
  /\ UNCHANGED <<request, opened, locks, socketVars, daemonVars>>

\* flom_client_disconnect up to its recv, in function f.
Disconnect(h, f) ==
  /\ state' = [state EXCEPT ![h] = "CONNECTED"]
  /\ call' = [call EXCEPT ![h] = f]
  /\ end' = [end EXCEPT ![Current(h)] = "shut"]

Stay(h) == UNCHANGED <<call, end>>

\* The last state of a handle f is called on.
Final(f) == CASE f = "unlock" -> "DISCONNECTED"
              [] f = "clean"  -> "CLEANED"
              [] f = "delete" -> "FREED"

\* flom_handle_unlock, flom_handle_clean and flom_handle_delete of a LOCKED handle:
\* UNLOCK is sent.  If it can not be, delete frees the handle all the same, and the
\* others leave it LOCKED.
UnlockLocked(h, f) ==
  LET c == Current(h) IN
  /\ state[h] = "LOCKED"
  /\ \/ /\ Disconnect(h, f)
        /\ up' = Sent(c, Unlock(request[h]))
     \/ /\ SendFails(c)
        /\ state' = IF f = "delete" THEN [state EXCEPT ![h] = "FREED"] ELSE state
        /\ Stay(h)
        /\ UNCHANGED up

\* The same functions of a handle that is only CONNECTED: unlock disconnects it,
\* clean refuses, delete frees it and leaves the socket open.
UnlockConnected(h, f) ==
  /\ state[h] = "CONNECTED"
  /\ \/ f = "unlock" /\ Disconnect(h, f)
     \/ f = "delete" /\ state' = [state EXCEPT ![h] = "FREED"] /\ Stay(h)
  /\ UNCHANGED up

\* And of one without a connection: only clean and delete do something.
UnlockIdle(h, f) ==
  /\ \/ f = "clean" /\ state[h] \in {"INIT", "DISCONNECTED"}
     \/ f = "delete" /\ state[h] \in {"INIT", "DISCONNECTED", "CLEANED"}
  /\ state' = [state EXCEPT ![h] = Final(f)]
  /\ Stay(h)
  /\ UNCHANGED up

UnlockCall(h, f) ==
  /\ call[h] = "none"
  /\ UnlockLocked(h, f) \/ UnlockConnected(h, f) \/ UnlockIdle(h, f)
  /\ UNCHANGED <<request, result, opened, locks, down, asked, daemonVars>>

\* The recv of flom_client_disconnect returns: the daemon has closed the connection,
\* or an answer nobody waits for any more is there.  The socket is closed.
Bye(h) ==
  LET c == Current(h) IN
  /\ call[h] \in {"unlock", "clean", "delete"}
  /\ down[c] # <<>> \/ Eof(c)
  /\ state' = [state EXCEPT ![h] = Final(call[h])]
  /\ call' = [call EXCEPT ![h] = "none"]
  /\ end' = [end EXCEPT ![c] = "gone"]
  /\ down' = [down EXCEPT ![c] = <<>>]
  /\ UNCHANGED <<request, result, opened, locks, up, asked, daemonVars>>

\* The process ends, whatever it was doing: all its sockets are closed.  (One that
\* has none ends unnoticed.)
Exit(h) ==
  /\ \E c \in Conn : c[1] = h /\ end[c] \in {"open", "shut"}
  /\ state' = [state EXCEPT ![h] = "EXITED"]
  /\ call' = [call EXCEPT ![h] = "none"]
  /\ result' = [result EXCEPT ![h] = "NONE"]
  /\ end' = [c \in Conn |-> IF c[1] = h /\ end[c] # "none" THEN "gone" ELSE end[c]]
  /\ down' = [c \in Conn |-> IF c[1] = h THEN <<>> ELSE down[c]]
  /\ UNCHANGED <<request, opened, locks, up, asked, daemonVars>>
(***************************************************************************)
(* The daemon.                                                             *)
(***************************************************************************)

\* The units the records of a list have taken.
Sum(s) ==
  LET upTo[k \in 0..Len(s)] == IF k = 0 THEN 0 ELSE upTo[k - 1] + s[k].quantity
  IN  upTo[Len(s)]

can_lock(n, q) == Sum(holders[n]) + q <= Total

\* An answer is put in the socket, unless one of the two sides has closed it.
Answered(c, step, rc) ==
  IF hup[c] \/ c \in null_fd \/ end[c] = "gone"
  THEN down
  ELSE [down EXCEPT ![c] = Append(@, [step |-> step, rc |-> rc])]

\* flom_tcp_send finds a reset on the socket, or no socket at all: not the
\* SEND_ERROR that flom_locker_loop_pollin ignores.
ConnectionClosed(c) == end[c] = "gone" \/ c \in null_fd

\* A LOCK message in the locker of n, whatever resource the message is about.
inmsg(c, n, r, step) ==
  LET e == [conn |-> c, quantity |-> r.quantity] IN
  \/ /\ can_lock(n, r.quantity)
     /\ holders' = [holders EXCEPT ![n] = <<e>> \o @]
     /\ down' = Answered(c, step, "OK")
     /\ UNCHANGED waitings
  \/ /\ ~can_lock(n, r.quantity)
     /\ r.quantity <= Total /\ r.timeout # "zero"
     /\ waitings' = [waitings EXCEPT ![n] = Append(@, e)]
     /\ down' = Answered(c, step, "ENQUEUED")
     /\ UNCHANGED holders
  \/ /\ ~can_lock(n, r.quantity)
     /\ r.quantity > Total \/ r.timeout = "zero"
     /\ down' = Answered(c, step, IF r.quantity > Total THEN "IMPOSSIBLE" ELSE "BUSY")
     /\ UNCHANGED <<holders, waitings>>

\* The locker of n is in its loop and no scan is running.
Polling(n) == n \in exists /\ thread[n] = "loop" /\ scan[n] = NoScan

\* The locker of n takes the next connection, and its message, from the pipe.  One
\* the main thread has closed ends the thread: flom_conns_set_events refuses it.
\* If the answer finds a reset, what is closed and cleaned is the pipe.
LockerTake(n) ==
  /\ Polling(n) /\ pipe[n] # <<>>
  /\ LET c == Head(pipe[n]) IN
     /\ inmsg(c, n, msg[c].req, msg[c].step)
     /\ msg' = [msg EXCEPT ![c] = NoMsg]
     /\ \/ c \notin null_fd /\ UNCHANGED thread
        \/ c \in null_fd /\ thread' = [thread EXCEPT ![n] = "ends"]
        \/ c \notin null_fd /\ ConnectionClosed(c) /\ thread' = [thread EXCEPT ![n] = "orphan"]
  /\ pipe' = [pipe EXCEPT ![n] = Tail(@)]
  /\ UNCHANGED <<handleVars, end, up, asked, server, hup, null_fd, moved, exists, scan, crashes>>

\* Connections the locker of n polls.
Polled(c, n) == Polling(n) /\ server[c] = n /\ msg[c] = NoMsg

\* A second LOCK on a connection the locker has.  If the answer finds a reset the
\* connection is closed and cleaned.
LockerLock(c, n) ==
  /\ Polled(c, n)
  /\ up[c] # <<>> /\ Head(up[c]).verb = "LOCK"
  /\ inmsg(c, n, Head(up[c]).req, 16)
  /\ \/ UNCHANGED scan
     \/ ConnectionClosed(c) /\ scan' = [scan EXCEPT ![n] = [path |-> "reclean", conn |-> c]]
  /\ up' = [up EXCEPT ![c] = Tail(@)]
  /\ UNCHANGED <<handleVars, end, asked, mainVars, thread, crashes>>

FirstOf(s, c) == SelectInSeq(s, LAMBDA e : e.conn = c)

\* Mutant of clean: a connection that holds nothing is not looked for in the queue.
clean_holders(c, n, path) ==
  LET h == FirstOf(holders[n], c) IN
  /\ holders' = IF h # 0 THEN [holders EXCEPT ![n] = RemoveAt(@, h)] ELSE holders
  /\ scan' = [scan EXCEPT ![n] = IF h # 0 /\ waitings[n] # <<>>
                                 THEN [path |-> path, conn |-> c] ELSE NoScan]
  /\ UNCHANGED waitings

\* clean takes one record away: the first the connection has as a holder, and then
\* the queue is scanned, or, if it holds nothing, the first it has in the queue.
clean(c, n, path) ==
  LET h == FirstOf(holders[n], c)
      w == FirstOf(waitings[n], c)
  IN
  /\ holders' = IF h # 0 THEN [holders EXCEPT ![n] = RemoveAt(@, h)] ELSE holders
  /\ waitings' = IF h = 0 /\ w # 0 THEN [waitings EXCEPT ![n] = RemoveAt(@, w)] ELSE waitings
  /\ scan' = [scan EXCEPT ![n] = IF h # 0 /\ waitings[n] # <<>>
                                 THEN [path |-> path, conn |-> c] ELSE NoScan]

\* The daemon closes its end of the socket: what it has not read is lost.
Close(c) ==
  /\ server' = [server EXCEPT ![c] = "closed"]
  /\ up' = [up EXCEPT ![c] = <<>>]
  /\ hup' = [hup EXCEPT ![c] = FALSE]

\* What a locker that cleans connections leaves alone.
cleanFrame == <<handleVars, end, down, asked, msg, pipe, null_fd, moved, exists, thread, crashes>>

\* UNLOCK: clean; or, if it is about another resource, an error, which closes and
\* cleans the connection.
LockerUnlock(c, n) ==
  /\ Polled(c, n)
  /\ up[c] # <<>> /\ Head(up[c]).verb = "UNLOCK"
  /\ \/ /\ Head(up[c]).req.name = n
        /\ clean(c, n, "unlock")
        /\ up' = [up EXCEPT ![c] = Tail(@)]
        /\ UNCHANGED <<server, hup>>
     \/ /\ Head(up[c]).req.name # n
        /\ clean(c, n, "error")
        /\ Close(c)
  /\ UNCHANGED cleanFrame

\* Nothing more will come from the client.  A socket closed at the other end is
\* reported (POLLHUP, POLLERR) even if there is something left to read.
HungUp(c) == end[c] = "gone" \/ (end[c] = "shut" /\ up[c] = <<>>)

\* Mutant of LockerEof: the connection is cleaned and stays in the table.
LockerEofKeeps(c, n) ==
  /\ Polled(c, n)
  /\ HungUp(c)
  /\ clean(c, n, "error")
  /\ UNCHANGED <<cleanFrame, server, up, hup>>

LockerEof(c, n) ==
  /\ Polled(c, n)
  /\ HungUp(c)
  /\ clean(c, n, "error")
  /\ Close(c)
  /\ UNCHANGED cleanFrame

\* The entry the scan of the queue comes to: the first request that fits.
FirstFit(n, k) ==
  /\ can_lock(n, waitings[n][k].quantity)
  /\ \A j \in 1..(k - 1) : ~can_lock(n, waitings[n][j].quantity)

Scanning(n) == thread[n] = "loop" /\ scan[n].path \in {"unlock", "error"}

scanFrame == <<handleVars, end, up, asked, mainVars, crashes>>

\* It is granted, which a client that is gone does not hear.
Grant(n) ==
  /\ Scanning(n)
  /\ \E k \in DOMAIN waitings[n] :
       LET e == waitings[n][k] IN
       /\ FirstFit(n, k)
       /\ ~Closed(e.conn) /\ ~hup[e.conn]
       /\ waitings' = [waitings EXCEPT ![n] = RemoveAt(@, k)]
       /\ holders' = [holders EXCEPT ![n] = <<e>> \o @]
       /\ down' = Answered(e.conn, 24, "OK")
  /\ UNCHANGED <<scanFrame, scan, thread>>

\* The grant can not be sent: the request is dropped, the scan and the clean end
\* with an error.  After an UNLOCK message the connection is closed and cleaned
\* again; everywhere else the thread leaves its loop.
GrantFails(n) ==
  /\ Scanning(n)
  /\ \E k \in DOMAIN waitings[n] :
       LET c == waitings[n][k].conn IN
       /\ FirstFit(n, k)
       /\ Closed(c) \/ hup[c] \/ end[c] = "gone"
       /\ waitings' = [waitings EXCEPT ![n] = RemoveAt(@, k)]
  /\ IF scan[n].path = "unlock"
     THEN scan' = [scan EXCEPT ![n].path = "reclean"] /\ UNCHANGED thread
     ELSE scan' = [scan EXCEPT ![n] = NoScan] /\ thread' = [thread EXCEPT ![n] = "ends"]
  /\ UNCHANGED <<scanFrame, down, holders>>

\* The scan comes to the end of the queue.
ScanEnd(n) ==
  /\ Scanning(n)
  /\ \A k \in DOMAIN waitings[n] : ~can_lock(n, waitings[n][k].quantity)
  /\ scan' = [scan EXCEPT ![n] = NoScan]
  /\ UNCHANGED <<scanFrame, down, holders, waitings, thread>>

\* The second clean, of the connection whose handling failed.
Reclean(n) ==
  /\ thread[n] = "loop" /\ scan[n].path = "reclean"
  /\ clean(scan[n].conn, n, "error")
  /\ Close(scan[n].conn)
  /\ UNCHANGED cleanFrame

\* The connections in the table of the locker of n: not those still in its pipe.
Table(n) == {c \in Conn : server[c] = n /\ msg[c] = NoMsg}

\* The connections cs are closed and forgotten.
CloseAll(cs) ==
  /\ server' = [c \in Conn |-> IF c \in cs THEN "closed" ELSE server[c]]
  /\ up' = [c \in Conn |-> IF c \in cs THEN <<>> ELSE up[c]]
  /\ hup' = [c \in Conn |-> hup[c] /\ c \notin cs]
  /\ null_fd' = null_fd \ cs

\* A thread that has left its loop closes its connections, and its end of the pipe
\* with what is in it (flom_conns_free).
LockerFrees(n) ==
  /\ thread[n] = "ends"
  /\ thread' = [thread EXCEPT ![n] = "dead"]
  /\ CloseAll(Table(n))
  /\ UNCHANGED <<handleVars, end, down, asked, msg, pipe, moved, exists, holders, waitings, scan,
                 crashes>>

\* An idle locker ends, with whatever its resource still has.
Expire(n) ==
  /\ Polling(n)
  /\ \A c \in Conn : server[c] # n
  /\ exists' = exists \ {n}
  /\ holders' = [holders EXCEPT ![n] = <<>>]
  /\ waitings' = [waitings EXCEPT ![n] = <<>>]
  /\ UNCHANGED <<handleVars, socketVars, server, msg, pipe, hup, null_fd, moved, scan, thread,
                 crashes>>

\* The daemon is gone and its sockets are closed.  (Another one takes its place for
\* who connects later.)
Down ==
  /\ server' = [c \in Conn |-> IF server[c] = "none" THEN "none" ELSE "closed"]
  /\ up' = [c \in Conn |-> <<>>]
  /\ hup' = [c \in Conn |-> FALSE]
  /\ null_fd' = {}
  /\ moved' = FALSE
  /\ msg' = [c \in Conn |-> NoMsg]
  /\ pipe' = [n \in Name |-> <<>>]
  /\ exists' = {}
  /\ holders' = [n \in Name |-> <<>>]
  /\ waitings' = [n \in Name |-> <<>>]
  /\ scan' = [n \in Name |-> NoScan]
  /\ thread' = [n \in Name |-> "loop"]

Crash ==
  /\ crashes < MaxCrashes
  /\ crashes' = crashes + 1
  /\ Down
  /\ UNCHANGED <<handleVars, end, down, asked>>

(***************************************************************************)
(* The main thread: a pass over its connections closes those that are over *)
(* and ends with the first message that is handled (in whatever order they *)
(* are); what it has closed leaves the table at the next turn.             *)
(***************************************************************************)

Lingering == {c \in null_fd : server[c] = "main"}

\* The end of a pass makes a difference if something is to be removed.
Moved == moved' = (Lingering' # {})

MsgRead(c) == up' = [up EXCEPT ![c] = Tail(@)]

\* The connection waits for a resource: its flag says so, also when it was closed in
\* this pass.
Incubated(c) == server[c] = "main" /\ msg[c] # NoMsg

\* flom_accept_loop_transfer: the request c goes to the locker of its resource; a
\* new locker takes from the incubator the requests for its resource with it.
\* (The connection itself is no more in the incubator, whatever its flag says: its
\* message is the one just read.)
TransferConn(c, r) ==
  LET n == r.name
      others == IF n \in exists THEN {}
                ELSE {d \in Conn \ {c} : Incubated(d) /\ msg[d].req.name = n}
  IN
  /\ n \in exists \/ r.create
  /\ thread[n] \in {"loop", "ends"}
  /\ exists' = exists \cup {n}
  /\ server' = [d \in Conn |-> IF d \in others \cup {c} THEN n ELSE server[d]]
  /\ msg' = [msg EXCEPT ![c] = [step |-> 16, req |-> r]]
  /\ pipe' = [pipe EXCEPT ![n] = @ \o <<c>> \o SetToSeq(others)]
  /\ MsgRead(c)
  /\ UNCHANGED <<down, hup, null_fd, lockerVars>>
  /\ Moved

\* The thread of the locker has closed its end of the pipe: an error the main loop
\* does not survive.
TransferFails(r) ==
  /\ r.name \in exists /\ thread[r.name] \in {"dead", "orphan"}
  /\ Down
  /\ UNCHANGED down

\* A connection in the incubator now has the message just read.
Overwrites(c, r) == msg' = IF Incubated(c) THEN [msg EXCEPT ![c].req = r] ELSE msg

\* flom_accept_loop_reply fails when the daemon has shut down its half of the
\* socket (a LOCK after LOCK_CANT_WAIT, on a handle still CONNECTED) or the client
\* is gone: an error the main loop does not survive, or, if it is a reset, the end
\* of the connection.
ReplyFails(c, r) ==
  \/ /\ hup[c] \/ end[c] = "gone"
     /\ Down
     /\ UNCHANGED down
  \/ /\ end[c] = "gone"
     /\ null_fd' = null_fd \cup {c}
     /\ up' = [up EXCEPT ![c] = <<>>]
     /\ Overwrites(c, r)
     /\ UNCHANGED <<down, server, pipe, hup, moved, exists, lockerVars>>

\* The resource does not exist and the client waits for it: the incubator.
Incubate(c, r) ==
  /\ r.name \notin exists /\ ~r.create /\ r.timeout # "zero"
  /\ \/ /\ ~hup[c]
        /\ down' = Answered(c, 16, "WAIT_RESOURCE")
        /\ msg' = [msg EXCEPT ![c] = [step |-> 24, req |-> r]]
        /\ MsgRead(c)
        /\ UNCHANGED <<server, pipe, hup, null_fd, exists, lockerVars>>
        /\ Moved
     \/ ReplyFails(c, r)

\* It does not exist and the client does not wait.  A connection that was in the
\* incubator for an earlier request stays there, with the message just read.
CantWait(c, r) ==
  /\ r.name \notin exists /\ ~r.create /\ r.timeout = "zero"
  /\ \/ /\ ~hup[c]
        /\ down' = Answered(c, 16, "CANT_WAIT")
        /\ hup' = [hup EXCEPT ![c] = TRUE]
        /\ Overwrites(c, r)
        /\ MsgRead(c)
        /\ UNCHANGED <<server, pipe, null_fd, exists, lockerVars>>
        /\ Moved
     \/ ReplyFails(c, r)

\* flom_accept_loop_pollin: a LOCK message is read.
MainLock(c) ==
  /\ ~moved
  /\ server[c] = "main" /\ up[c] # <<>>
  /\ LET r == Head(up[c]).req IN
       TransferConn(c, r) \/ TransferFails(r) \/ Incubate(c, r) \/ CantWait(c, r)
  /\ UNCHANGED <<handleVars, end, asked, crashes>>

\* Mutant of MainEof: nobody looks at the connections in the incubator.
MainEofNotIncubated(c) ==
  /\ ~moved
  /\ server[c] = "main" /\ c \notin null_fd /\ ~Incubated(c)
  /\ HungUp(c)
  /\ null_fd' = null_fd \cup {c}
  /\ up' = [up EXCEPT ![c] = <<>>]
  /\ UNCHANGED <<handleVars, end, down, asked, server, msg, pipe, hup, moved, exists, lockerVars,
                 crashes>>

\* A client of the main thread has left: flom_conns_close_fd closes the socket and
\* marks the connection as one to remove.
MainEof(c) ==
  /\ ~moved
  /\ server[c] = "main" /\ c \notin null_fd
  /\ HungUp(c)
  /\ null_fd' = null_fd \cup {c}
  /\ up' = [up EXCEPT ![c] = <<>>]
  /\ UNCHANGED <<handleVars, end, down, asked, server, msg, pipe, hup, moved, exists, lockerVars,
                 crashes>>

\* flom_conns_clean, at the start of the next turn.
ConnsClean ==
  /\ Lingering # {}
  /\ CloseAll(Lingering)
  /\ msg' = [c \in Conn |-> IF c \in Lingering THEN NoMsg ELSE msg[c]]
  /\ moved' = FALSE
  /\ UNCHANGED <<handleVars, end, down, asked, pipe, exists, lockerVars, crashes>>

-------------------------------------------------------------------------------
ClientStep(h) == Recv(h) \/ RecvError(h) \/ Bye(h)

\* Whoever has the connection in the daemon reads from it, or closes it.
ServeConn(c) ==
  \/ MainLock(c)
  \/ MainEof(c)
  \/ \E n \in Name : LockerLock(c, n) \/ LockerUnlock(c, n) \/ LockerEof(c, n)

\* What a locker does besides: its pipe, its scans, its end.
LockerStep(n) ==
  \/ LockerTake(n)
  \/ Grant(n) \/ GrantFails(n) \/ ScanEnd(n)
  \/ Reclean(n)
  \/ LockerFrees(n)

Next ==
  \/ \E h \in Handle :
       \/ \E r \in Asks[h] : LockCall(h, r)
       \/ \E f \in {"unlock", "clean", "delete"} : UnlockCall(h, f)
       \/ ClientStep(h)
       \/ RecvTimeout(h)
       \/ Exit(h)
  \/ \E c \in Conn : ServeConn(c)
  \/ ConnsClean
  \/ \E n \in Name : LockerStep(n) \/ Expire(n)
  \/ Crash

Spec == Init /\ [][Next]_vars

\* The threads of the daemon poll all their connections in turn; a blocked recv
\* returns once there is something to read.  Programs need not call anything.
Fairness ==
  /\ \A h \in Handle : WF_vars(ClientStep(h))
  /\ \A c \in Conn : WF_vars(ServeConn(c))
  /\ WF_vars(ConnsClean)
  /\ \A n \in Name : WF_vars(LockerStep(n))

FairSpec == Spec /\ Fairness

-------------------------------------------------------------------------------
(***************************************************************************)
(* Properties.                                                             *)
(***************************************************************************)

\* States, blocked calls, messages and records are what their names say.
TypeOK ==
  /\ state \in [Handle -> State]
  /\ request \in [Handle -> Request]
  /\ call \in [Handle -> Call]
  /\ result \in [Handle -> Result]
  /\ opened \in [Handle -> Nat] /\ locks \in [Handle -> Nat]
  /\ end \in [Conn -> {"none", "open", "shut", "gone"}]
  /\ up \in [Conn -> Seq(Message)]
  /\ down \in [Conn -> Seq(Answer)]
  /\ asked \in [Conn -> Seq(Request)]
  /\ server \in [Conn -> Name \cup {"none", "main", "closed"}]
  /\ msg \in [Conn -> Pending]
  /\ pipe \in [Name -> Seq(Conn)]
  /\ hup \in [Conn -> BOOLEAN]
  /\ null_fd \subseteq Conn
  /\ moved \in BOOLEAN
  /\ exists \subseteq Name
  /\ holders \in [Name -> Seq(Entry)] /\ waitings \in [Name -> Seq(Entry)]
  /\ scan \in [Name -> Scan]
  /\ thread \in [Name -> Thread]
  /\ crashes \in 0..MaxCrashes

\* The handle is LOCKED, and the daemon that told it so still has the connection.
Locked(h) ==
  /\ state[h] = "LOCKED" /\ call[h] = "none"
  /\ server[Current(h)] \in Name

\* All the requests of the connection could be satisfied.
Possible(c) == \A k \in DOMAIN asked[c] : asked[c][k].quantity <= Total

Has(list, n, c) == \E k \in DOMAIN list[n] : list[n][k].conn = c

\* A handle that is LOCKED has a lock: the daemon has a record of it among the
\* holders, and, unless flom_handle_lock was called again on the connection after
\* a timeout, it is on the resource and for the quantity the handle asked for.
\* (A request that can never be satisfied is the exception: see
\* ImpossibleIsRefused.)
LockedIsHeld ==
  \A h \in Handle :
    LET c == Current(h) IN
    Locked(h) /\ Possible(c) =>
      /\ Has(holders, server[c], c)
      /\ Len(asked[c]) = 1 =>
           \E k \in DOMAIN holders[request[h].name] :
             holders[request[h].name][k] = [conn |-> c, quantity |-> request[h].quantity]

\* The handles that have been told they hold units of n.
Told(n) ==
  {h \in Handle : /\ Locked(h) /\ request[h].name = n
                  /\ Len(asked[Current(h)]) = 1 /\ Possible(Current(h))}

\* What numeric resources are for: the programs that have been told they hold
\* units of a resource never hold more than it has, together.
Exclusion ==
  \A n \in Name :
    LET hs == SetToSeq(Told(n))
    IN  Sum([k \in DOMAIN hs |-> [conn |-> Current(hs[k]), quantity |-> request[hs[k]].quantity]])
          <= Total

\* A connection that has been closed, by the end of either side or in the middle of
\* a wait, leaves nothing in a locker that works, if one LOCK was sent on it: not even
\* if it was closed while it waited in the incubator and handed over all the same.
NothingLeftBehind ==
  \A c \in Conn, n \in Name :
    Closed(c) /\ Len(asked[c]) <= 1 /\ thread[n] = "loop" =>
      ~Has(holders, n, c) /\ ~Has(waitings, n, c)

\* A program that was told it can not have the lock does not have it, and is in no
\* queue where it could be given to it later.
RefusedHoldsNothing ==
  \A h \in Handle, n \in Name :
    result[h] = "REFUSED" /\ opened[h] > 0 /\ Len(asked[Current(h)]) = 1 =>
      ~Has(holders, n, Current(h)) /\ ~Has(waitings, n, Current(h))

\* A thread has failed and will not come back to the connection: it was in the pipe
\* of a locker that has ended, or with one that has lost its pipe.
Stranded(c) ==
  /\ server[c] \in Name
  /\ \/ thread[server[c]] = "dead" /\ msg[c] # NoMsg
     \/ thread[server[c]] = "orphan"

\* flom_handle_unlock, flom_handle_clean and flom_handle_delete return, although
\* flom_client_disconnect waits for the daemon without a timeout; and so does a
\* flom_handle_lock that was told not to wait.  The exception is what a send to a
\* client that is gone does to a locker: the connections in its pipe stay open, and
\* nobody reads from them.
CallsReturn ==
  \A h \in Handle :
    (\/ call[h] \in {"unlock", "clean", "delete"}
     \/ call[h] \in {"lock", "wait"} /\ request[h].timeout = "zero")
      ~> (call[h] = "none" \/ Stranded(Current(h)))

\* The daemon ends up closing the connections of the clients that have left,
\* wherever they were: in the incubator, in a pipe, in a queue, with a locker whose
\* thread ends; but not in the pipe of that one.
GoneIsNoticed ==
  \A c \in Conn : end[c] \in {"shut", "gone"} ~> (Closed(c) \/ Stranded(c))

\* "The lock can not be obtained because the resource can not host the request
\* (example: asking 12 numeric unities for a resource defined with a total quantity
\* of 9)": the documented meaning of FLOM_RC_LOCK_IMPOSSIBLE.
ImpossibleIsRefused ==
  \A h \in Handle : state[h] = "LOCKED" => request[h].quantity <= Total

\* What the programs believe is true: LOCKED handles have locks, that the resources have
\* to give.
BeliefsSound ==
  /\ TypeOK
  /\ LockedIsHeld
  /\ Exclusion

\* No locker that works has a record for a client that is gone or was refused.
NoStrayRecord ==
  /\ NothingLeftBehind
  /\ RefusedHoldsNothing
===============================================================================
