-------------------------------- MODULE Locker --------------------------------
(***************************************************************************)
(* The thread that owns one resource (flom_locker.c) as seen by the        *)
(* resource it drives: the connections in its table, the peers behind      *)
(* them, the events poll() reports, and where control goes when a callback *)
(* of the resource fails.  The modules Resource* extend this one with the  *)
(* state and the callbacks (inmsg, clean, waitings) of one resource type.  *)
(*                                                                         *)
(* The thread runs one callback at a time, but the peers it talks to fail  *)
(* while the callback runs.  The only callback that sends more than one    *)
(* message is the scan of the waiting queue, so the scan is the one cut in *)
(* steps: the variable job holds what the thread is in the middle of.      *)
(***************************************************************************)
EXTENDS Naturals, Sequences, FiniteSets, SequencesExt

CONSTANTS Conn,     \* connections handed over to this locker, each used once
          Request,  \* what a LOCK message may ask for
          Retry     \* may a program call flom_handle_lock again on a handle
                    \* whose last call timed out?

ASSUME RetryAssumption == Retry \in BOOLEAN

VARIABLES ask,      \* [Conn -> request and wait flag]: the handle's settings
          conn,     \* [Conn -> ConnState]
          peer,     \* [Conn -> PeerState]: the process at the other end
          inbox,    \* [Conn -> MsgVerb]: the message waiting to be read
          answer,   \* [Conn -> Answer]: the last answer put in the peer's socket
          vfs,      \* the holders/ and waitings/ directories of the status tree
          job,      \* the scan, or the second clean, the thread is busy with
          thread,   \* what became of the thread
          aborted   \* the last scan of the queue gave up half way (history)

lockerVars == <<ask, conn, peer, inbox, answer, vfs, job, thread, aborted>>

ConnState == {"new", "piped", "open", "closed"}
PeerState == {"none", "up", "closing", "gone"}
MsgVerb == {"NONE", "LOCK", "UNLOCK", "ROLLBACK"}
Answer == {"NONE", "OK", "LOCK_ENQUEUED", "LOCK_BUSY", "LOCK_IMPOSSIBLE"}
Ask == [req : Request, wait : BOOLEAN]

Idle == [path |-> "idle"]

\* path: from where the clean that started the scan was called, which decides
\* what an error does; "reclean": a POLLIN handler failed and the loop is about
\* to close the connection and clean it again; "timeout": the scan was started by
\* the timeout callback (of a timestamp resource) and conn is the first waiter.
Job == {Idle} \cup
       [path : {"unlock", "error", "second", "reclean", "timeout"},
        conn : Conn, i : Nat]

VfsNode == {"holders", "waitings"} \X Conn

LockerTypeOK ==
  /\ ask \in [Conn -> Ask]
  /\ conn \in [Conn -> ConnState]
  /\ peer \in [Conn -> PeerState]
  /\ inbox \in [Conn -> MsgVerb]
  /\ answer \in [Conn -> Answer]
  /\ vfs \subseteq VfsNode
  /\ job \in Job
  /\ thread \in {"loop", "orphan", "dead"}
  /\ aborted \in BOOLEAN

LockerInit ==
  /\ ask \in [Conn -> Ask]
  /\ conn = [c \in Conn |-> "new"]
  /\ peer = [c \in Conn |-> "none"]
  /\ inbox = [c \in Conn |-> "NONE"]
  /\ answer = [c \in Conn |-> "NONE"]
  /\ vfs = {}
  /\ job = Idle
  /\ thread = "loop"
  /\ aborted = FALSE

\* The thread sits in poll(): no callback is running.
Polling == thread = "loop" /\ job = Idle

(***************************************************************************)
(* The peers.                                                              *)
(***************************************************************************)

\* The main thread writes the connection, with the LOCK message it has read
\* from it, in the pipe of the locker.
Transfer(c) ==
  /\ thread = "loop"
  /\ conn[c] = "new"
  /\ conn' = [conn EXCEPT ![c] = "piped"]
  /\ peer' = [peer EXCEPT ![c] = "up"]
  /\ inbox' = [inbox EXCEPT ![c] = "LOCK"]
  /\ UNCHANGED <<ask, answer, vfs, job, thread, aborted>>

\* flom_handle_lock on a handle still CONNECTED after a failure: the answer was
\* LOCK_BUSY (or LOCK_IMPOSSIBLE), or, when Retry, the program stopped waiting.
RetryLock(c) ==
  /\ conn[c] = "open" /\ peer[c] = "up" /\ inbox[c] = "NONE"
  /\ answer[c] \in {"LOCK_BUSY", "LOCK_IMPOSSIBLE"} \/ (Retry /\ ask[c].wait)
  /\ inbox' = [inbox EXCEPT ![c] = "LOCK"]
  /\ UNCHANGED <<ask, conn, peer, answer, vfs, job, thread, aborted>>

\* flom_handle_unlock (or flom_handle_unlock_rollback) on a LOCKED handle: the
\* UNLOCK message and then the shutdown of the sending half of the socket.
Unlock(c, verb) ==
  /\ conn[c] = "open" /\ peer[c] = "up" /\ inbox[c] = "NONE"
  /\ answer[c] = "OK"
  /\ inbox' = [inbox EXCEPT ![c] = verb]
  /\ peer' = [peer EXCEPT ![c] = "closing"]
  /\ UNCHANGED <<ask, conn, answer, vfs, job, thread, aborted>>

\* flom_handle_unlock on a handle that is CONNECTED but not LOCKED, because the
\* lock failed or because the program stopped waiting for it.
Disconnect(c) ==
  /\ conn[c] \in {"piped", "open"} /\ peer[c] = "up"
  /\ ask[c].wait \/ answer[c] \notin {"NONE", "OK"}
  /\ peer' = [peer EXCEPT ![c] = "closing"]
  /\ UNCHANGED <<ask, conn, inbox, answer, vfs, job, thread, aborted>>

\* The process at the other end dies; what it has sent may still be read.
Crash(c) ==
  /\ conn[c] \in {"piped", "open"} /\ peer[c] \in {"up", "closing"}
  /\ peer' = [peer EXCEPT ![c] = "gone"]
  /\ UNCHANGED <<ask, conn, inbox, answer, vfs, job, thread, aborted>>

(***************************************************************************)
(* What the callbacks of the resources are built from.                     *)
(***************************************************************************)

\* The results of flom_conn_send: the socket of a live peer takes the message;
\* to a dead one it may take it all the same, refuse it or report the reset.
SendRc(c) ==
  IF peer[c] \in {"up", "closing"} /\ conn[c] # "closed"
  THEN {"OK"}
  ELSE {"OK", "SEND_ERROR", "CONNECTION_CLOSED"}

VfsAdd(dir, c) == vfs' = vfs \cup {<<dir, c>>}

\* flom_vfs_ram_tree_move_locker_conn: the node must be below waitings/.
VfsMove(c) ==
  vfs' = IF <<"waitings", c>> \in vfs
         THEN (vfs \ {<<"waitings", c>>}) \cup {<<"holders", c>>}
         ELSE vfs

VfsDel(c) == vfs' = {n \in vfs : n[2] # c}

\* Lists of records with a field conn: the first record of connection c.
HasEntry(s, c) == \E k \in DOMAIN s : s[k].conn = c

\* Mutant of IsFirstOf: the record at the head, whosever it is.
IsHead(s, k, c) == k = 1

IsFirstOf(s, k, c) ==
  /\ s[k].conn = c
  /\ \A j \in 1..(k - 1) : s[j].conn # c

\* A thread that closed the pipe in place of a connection takes one of its clients
\* for the main thread from then on: "orphan", and what it does is not modelled.

\* The tail of flom_locker_loop_pollin for a LOCK message: the answer rc is
\* sent back.  SEND_ERROR is ignored.  Any other failure makes the loop close
\* and clean the connection that was polled: for a connection that came in with
\* this very message, that is the pipe from the main thread.
Reply(c, rc) ==
  /\ conn' = [conn EXCEPT ![c] = "open"]
  /\ inbox' = [inbox EXCEPT ![c] = "NONE"]
  /\ \/ /\ "OK" \in SendRc(c)
        /\ answer' = [answer EXCEPT ![c] = rc]
        /\ UNCHANGED <<job, thread>>
     \/ /\ "SEND_ERROR" \in SendRc(c)
        /\ UNCHANGED <<answer, job, thread>>
     \/ /\ "CONNECTION_CLOSED" \in SendRc(c)
        /\ conn[c] = "piped"
        /\ thread' = "orphan"
        /\ UNCHANGED <<answer, job>>
     \/ /\ "CONNECTION_CLOSED" \in SendRc(c)
        /\ conn[c] = "open"
        /\ job' = [path |-> "reclean", conn |-> c, i |-> 1]
        /\ UNCHANGED <<answer, thread>>
  /\ UNCHANGED <<ask, peer, aborted>>

CanRead(c, verb) ==
  Polling /\ conn[c] \in {"piped", "open"} /\ inbox[c] = verb

\* The peer has closed and all it had sent was read.
HungUp(c) == peer[c] = "closing" /\ inbox[c] = "NONE"

\* The event on connection c that makes the thread clean it, and the path taken:
\* "unlock", an UNLOCK message was read; "error", poll reported POLLERR or POLLHUP,
\* or a peer that hung up: there is nothing left to read (recv of 0 bytes is an
\* error in flom_tcp_recv_msg, so the branch of pollin for 0 bytes is never taken);
\* "second", a POLLIN handler failed after its own clean or reply.
CleanEvent(c, path) ==
  /\ thread = "loop"
  /\ conn[c] = "open" \/ path = "second"
  /\ CASE path = "unlock" -> job = Idle /\ inbox[c] \in {"UNLOCK", "ROLLBACK"}
       [] path = "error"  -> job = Idle /\ (peer[c] = "gone" \/ HungUp(c))
       [] path = "second" -> job # Idle /\ job.path = "reclean" /\ job.conn = c

\* Mutant of CloseFd: the descriptor is left open.
LeaveFdOpen(c, path) ==
  /\ conn' = conn
  /\ inbox' = [inbox EXCEPT ![c] = "NONE"]

\* Every path but "unlock" starts with flom_conns_close_fd.
CloseFd(c, path) ==
  /\ conn' = IF path = "unlock" THEN conn ELSE [conn EXCEPT ![c] = "closed"]
  /\ inbox' = [inbox EXCEPT ![c] = "NONE"]

\* Mutant of StartScan: the scan begins at the second entry of the queue.
ScanFromSecond(c, path) ==
  /\ CloseFd(c, path)
  /\ job' = [path |-> path, conn |-> c, i |-> 2]
  /\ UNCHANGED <<ask, peer, answer, vfs, thread, aborted>>

\* The clean released a lock: flom_resource_*_waitings starts.
StartScan(c, path) ==
  /\ CloseFd(c, path)
  /\ job' = [path |-> path, conn |-> c, i |-> 1]
  /\ UNCHANGED <<ask, peer, answer, vfs, thread, aborted>>

\* The clean released nothing: it deletes the node of the connection and ends.
EndClean(c, path) ==
  /\ CloseFd(c, path)
  /\ VfsDel(c)
  /\ job' = Idle
  /\ UNCHANGED <<ask, peer, answer, thread, aborted>>

CleanPath == {"unlock", "error", "second"}

Scanning == thread = "loop" /\ job # Idle /\ job.path # "reclean"

\* The queue is over: the clean that started the scan deletes its node and ends.
ScanEnd ==
  /\ VfsDel(job.conn)
  /\ job' = Idle
  /\ aborted' = FALSE
  /\ UNCHANGED <<ask, conn, peer, inbox, answer, thread>>

\* Mutant of ScanSkip: the scan stops at the first entry it can not serve.
ScanSkipStops == ScanEnd

\* The entry at the cursor stays in the queue.
ScanSkip ==
  /\ job' = [job EXCEPT !.i = @ + 1]
  /\ UNCHANGED <<ask, conn, peer, inbox, answer, vfs, thread, aborted>>

\* The entry at the cursor, of connection c, left the queue for the holders.
ScanGrant(c) ==
  /\ "OK" \in SendRc(c)
  /\ answer' = [answer EXCEPT ![c] = "OK"]
  /\ VfsMove(c)
  /\ UNCHANGED <<ask, conn, peer, inbox, job, thread, aborted>>

\* The grant to connection c could not be sent: the scan gives up and the clean
\* returns the error before it deletes its node.  After an UNLOCK message the loop
\* closes the connection and cleans it again; everywhere else the thread leaves
\* its loop, closing all its connections (flom_conns_free).
ScanAbort(c) ==
  /\ SendRc(c) # {"OK"}
  /\ aborted' = TRUE
  /\ \/ /\ job.path = "unlock"
        /\ job' = [path |-> "reclean", conn |-> job.conn, i |-> 1]
        /\ UNCHANGED <<conn, thread>>
     \/ /\ job.path \in {"error", "second", "timeout"}
        /\ job' = Idle
        /\ thread' = "dead"
        /\ conn' = [d \in Conn |-> IF conn[d] = "open" THEN "closed" ELSE conn[d]]
  /\ UNCHANGED <<ask, peer, inbox, answer, vfs>>

Peers(verbs) ==
  \E c \in Conn :
    \/ Transfer(c)
    \/ RetryLock(c)
    \/ \E verb \in verbs : Unlock(c, verb)
    \/ Disconnect(c)
    \/ Crash(c)

-------------------------------------------------------------------------------
\* flom_client_disconnect blocks in recv until the server closes: the thread
\* closes the connection of every client that is leaving, unless it has lost
\* its loop or the pipe of the main thread.
DisconnectCompletes ==
  \A c \in Conn :
    peer[c] = "closing" ~> (conn[c] = "closed" \/ peer[c] = "gone" \/ thread # "loop")
===============================================================================
