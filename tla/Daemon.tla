-------------------------------- MODULE Daemon --------------------------------
(***************************************************************************)
(* The daemon: the main thread that accepts the clients (flom_daemon.c),   *)
(* the threads that serve a resource each (flom_locker.c), and what the    *)
(* two share without a lock: the pipe on which connections are handed      *)
(* over, the two sequence numbers, the counter of idle periods, and the    *)
(* two descriptors of the pipe.  What a locker does with a connection is   *)
(* the business of the modules Resource*; here a locker has clients, loses *)
(* them, and starts, idles, is dismissed, ends, or fails.                  *)
(***************************************************************************)
EXTENDS Naturals, Sequences, FiniteSets, SequencesExt

CONSTANTS Client,       \* client connections, each used once
          Name          \* names of resources

ASSUME DaemonAssumption == IsFiniteSet(Client)

FLOM_LOCKER_MAX_IDLE_PERIODS == 1

VARIABLES want,       \* [Client -> the LOCK message it sends]
          alive,      \* [Client -> is the process still there?]
          place,      \* [Client -> where the daemon has its connection]
          conns,      \* the table of the main thread, the listener left out
          null_fd,    \* the clients whose descriptor the main thread has closed
          incubator,  \* the nodes below incubator/ of the status tree
          daemon,     \* has the main loop ended, and how?
          main,       \* what the main thread is doing
          again,      \* chklockers_again
          lockers,    \* the array of lockers, as identifiers
          started,    \* identifiers given so far
          name,       \* [Id -> name of the resource]
          write_pipe, read_pipe,          \* [Id -> is the descriptor not NULL?]
          write_sequence, read_sequence,  \* [Id -> Nat]
          idle_periods,                   \* [Id -> Nat]
          pipe,       \* [Id -> tokens written and not read yet]
          table,      \* [Id -> clients in the table of the locker]
          threads     \* [Id -> what the thread of the locker is doing]

clientVars == <<want, alive>>
mainVars == <<place, conns, null_fd, incubator, daemon, main, again, lockers, started,
              name, write_pipe, write_sequence>>
lockersVars == <<read_pipe, read_sequence, idle_periods, table, threads>>
daemonVars == <<clientVars, mainVars, lockersVars, pipe>>

\* Every client starts at most one locker.
Id == 1..Cardinality(Client)

\* What of a LOCK message decides where the client goes.  The
\* connection of a client with a name that is not valid, or whose resource can not
\* be initialised, is shut down like that of one that neither creates nor waits, and
\* is not told apart from it.
Message == [name : Name, create : BOOLEAN, wait : BOOLEAN]

\* "backlog": not accepted yet; "unread": in the table of the main thread, its
\* LOCK message not read; "refused", "incubator": still there, and answered.
Place == {"none", "backlog", "unread", "refused", "incubator", "locker", "closed"}
InTable == {"unread", "refused", "incubator"}

Main == [pc : {"poll"}] \cup [pc : {"scan"}, i : Nat, n : Nat]
          \cup [pc : {"incubate", "chk", "chkidle", "join"}, i : Nat]

Token == [client : Client, sequence : Nat]

Poll == [pc |-> "poll"]
Chk(k) == [pc |-> "chk", i |-> k]

DaemonStarts ==
  /\ want \in [Client -> Message]
  /\ alive = [c \in Client |-> FALSE]
  /\ place = [c \in Client |-> "none"]
  /\ conns = <<>>
  /\ null_fd = {}
  /\ incubator = {}
  /\ daemon = "up"
  /\ main = Poll
  /\ again = FALSE
  /\ lockers = <<>>
  /\ started = 0
  /\ name = [l \in Id |-> "none"]
  /\ write_pipe = [l \in Id |-> FALSE]
  /\ read_pipe = [l \in Id |-> FALSE]
  /\ write_sequence = [l \in Id |-> 0]
  /\ read_sequence = [l \in Id |-> 0]
  /\ idle_periods = [l \in Id |-> 0]
  /\ pipe = [l \in Id |-> <<>>]
  /\ table = [l \in Id |-> {}]
  /\ threads = [l \in Id |-> "none"]

(***************************************************************************)
(* The clients.                                                            *)
(***************************************************************************)

\* Connect and send a LOCK message.
Connect(c) ==
  /\ daemon \in {"up", "ending"}
  /\ place[c] = "none"
  /\ place' = [place EXCEPT ![c] = "backlog"]
  /\ alive' = [alive EXCEPT ![c] = TRUE]
  /\ UNCHANGED <<want, conns, null_fd, incubator, daemon, main, again, lockers, started,
                 name, write_pipe, write_sequence, lockersVars, pipe>>

\* Unlock and disconnect, give up, or die.
Leave(c) ==
  /\ alive[c]
  /\ alive' = [alive EXCEPT ![c] = FALSE]
  /\ UNCHANGED <<want, mainVars, lockersVars, pipe>>

(***************************************************************************)
(* The main thread: flom_accept_loop.  A pass over the descriptors poll()  *)
(* has reported looks first at the listener, then at connections 1..n in   *)
(* order, and is over when a message was handled.                          *)
(***************************************************************************)

\* flom_conns_clean has nothing left to remove from the table.
Cleaned == \A k \in DOMAIN conns : conns[k] \notin null_fd

\* The pass may come to connection k: it starts, or has not got that far.
Reaches(k) ==
  /\ daemon = "up"
  /\ \/ main = Poll /\ Cleaned
     \/ main.pc = "scan" /\ main.i <= k /\ k <= main.n

\* The pass goes on behind connection k.
Behind(k) == [pc |-> "scan", i |-> k + 1,
              n |-> IF main.pc = "poll" THEN Len(conns) ELSE main.n]

\* Mutant of RemoveFast: the last connection goes, whichever was asked for.
RemoveLast(s, k) == Front(s)

\* g_ptr_array_remove_index_fast: the last connection takes the place of the
\* removed one.
RemoveFast(s, k) == Front([s EXCEPT ![k] = Last(s)])

\* flom_conns_clean, at the start of a turn: the first connection that was closed
\* leaves the table and is destroyed.
ConnsClean(k) ==
  /\ daemon = "up" /\ main = Poll
  /\ conns[k] \in null_fd
  /\ \A j \in 1..(k - 1) : conns[j] \notin null_fd
  /\ place' = [place EXCEPT ![conns[k]] = "closed"]
  /\ conns' = RemoveFast(conns, k)
  /\ UNCHANGED <<clientVars, null_fd, incubator, daemon, main, again, lockers, started,
                 name, write_pipe, write_sequence, lockersVars, pipe>>

Accept(c) ==
  /\ daemon = "up" /\ main = Poll /\ Cleaned
  /\ place[c] = "backlog"
  /\ place' = [place EXCEPT ![c] = "unread"]
  /\ conns' = Append(conns, c)
  /\ main' = Behind(0)
  /\ UNCHANGED <<clientVars, null_fd, incubator, daemon, again, lockers, started, name,
                 write_pipe, write_sequence, lockersVars, pipe>>

\* POLLHUP, or nothing to read: flom_conns_close_fd closes the descriptor and marks
\* the connection as one to remove.  It stays in the table until the next turn, and
\* in the incubator if it was there.
Drop(k) ==
  /\ Reaches(k)
  /\ ~alive[conns[k]]
  /\ null_fd' = null_fd \cup {conns[k]}
  /\ main' = Behind(k)
  /\ UNCHANGED <<clientVars, place, conns, incubator, daemon, again, lockers, started, name,
                 write_pipe, write_sequence, lockersVars, pipe>>

\* The locker a LOCK message is for: the first of the array that is not being
\* dismissed and has the name.
Serves(l, n) == write_pipe[l] /\ read_pipe[l] /\ name[l] = n

Found(k, n) ==
  /\ Serves(lockers[k], n)
  /\ \A j \in 1..(k - 1) : ~Serves(lockers[j], n)

NotFound(n) == \A k \in DOMAIN lockers : ~Serves(lockers[k], n)

\* flom_accept_loop_transfer_conn: connection k goes to locker l.  The write
\* fails if the thread of the locker has closed its end.
TransferConn(k, l) ==
  /\ write_sequence' = [write_sequence EXCEPT ![l] = @ + 1]
  /\ IF threads[l] = "failed"
     THEN /\ daemon' = "failed"
          /\ UNCHANGED <<place, conns, pipe>>
     ELSE /\ pipe' = [pipe EXCEPT ![l] =
                        Append(@, [client |-> conns[k], sequence |-> write_sequence'[l]])]
          /\ place' = [place EXCEPT ![conns[k]] = "locker"]
          /\ conns' = RemoveFast(conns, k)
          /\ UNCHANGED daemon

\* flom_accept_loop_transfer, a locker is found.
TransferFound(k) ==
  LET n == want[conns[k]].name IN
  /\ \E j \in DOMAIN lockers : Found(j, n) /\ TransferConn(k, lockers[j])
  /\ main' = Chk(1)
  /\ UNCHANGED <<clientVars, null_fd, incubator, again, lockers, started, name,
                 write_pipe, lockersVars>>

\* flom_accept_loop_transfer, none is found and the client creates one:
\* flom_accept_loop_start_locker, the transfer, and then the incubator.
TransferCreate(k) ==
  LET n == want[conns[k]].name
      l == started + 1
  IN
  /\ NotFound(n)
  /\ want[conns[k]].create
  /\ started' = l
  /\ lockers' = Append(lockers, l)
  /\ name' = [name EXCEPT ![l] = n]
  /\ write_pipe' = [write_pipe EXCEPT ![l] = TRUE]
  /\ read_pipe' = [read_pipe EXCEPT ![l] = TRUE]
  /\ threads' = [threads EXCEPT ![l] = "poll"]
  /\ TransferConn(k, l)
  /\ main' = [pc |-> "incubate", i |-> 1]
  /\ UNCHANGED <<clientVars, null_fd, incubator, again, read_sequence, idle_periods,
                 table>>

\* The answer of the main thread to client c: a dead one may make the send fail,
\* with an error that ends the main loop, or close the connection.
MainReply(k, where, nodes) ==
  LET c == conns[k] IN
  /\ \/ /\ place' = [place EXCEPT ![c] = where]
        /\ incubator' = nodes
        /\ main' = Chk(1)
        /\ UNCHANGED <<null_fd, daemon>>
     \/ /\ ~alive[c]
        /\ daemon' = "failed"
        /\ UNCHANGED <<place, null_fd, incubator, main>>
     \/ /\ ~alive[c]
        /\ null_fd' = null_fd \cup {c}
        /\ main' = Behind(k)
        /\ UNCHANGED <<place, incubator, daemon>>
  /\ UNCHANGED <<clientVars, conns, again, lockers, started, name, write_pipe, write_sequence,
                 lockersVars, pipe>>

\* flom_accept_loop_transfer, none is found and the client does not create one:
\* it waits in the incubator or is sent away.
TransferRefuse(k) ==
  LET m == want[conns[k]] IN
  /\ NotFound(m.name)
  /\ ~m.create
  /\ IF m.wait THEN MainReply(k, "incubator", incubator \cup {conns[k]})
               ELSE MainReply(k, "refused", incubator)

TransferStep(k) ==
  /\ Reaches(k)
  /\ place[conns[k]] = "unread"
  /\ TransferFound(k) \/ TransferCreate(k) \/ TransferRefuse(k)

\* A turn of the loop over the incubator, after a locker has been started: the
\* cursor moves on only if the connection under it stays.  The loop looks at the
\* flag wait and the name, so it takes a connection closed earlier in this pass too,
\* and flom_conns_trns_fd overwrites its mark.
Matches(k, l) == place[conns[k]] = "incubator" /\ want[conns[k]].name = name[l]

\* Mutant of IncubateTake: the cursor moves on after a transfer too.
IncubateTakeSkips(k, l) ==
  /\ Matches(k, l)
  /\ TransferConn(k, l)
  /\ incubator' = incubator \ {conns[k]}
  /\ main' = [main EXCEPT !.i = @ + 1]

IncubateTake(k, l) ==
  /\ Matches(k, l)
  /\ TransferConn(k, l)
  /\ incubator' = incubator \ {conns[k]}
  /\ UNCHANGED main

IncubateSkip(k, l) ==
  /\ ~Matches(k, l)
  /\ main' = [main EXCEPT !.i = @ + 1]
  /\ UNCHANGED <<place, conns, incubator, daemon, write_sequence, pipe>>

IncubateEnd(k) ==
  /\ k > Len(conns)
  /\ main' = Chk(1)
  /\ UNCHANGED <<place, conns, incubator, daemon, write_sequence, pipe>>

Incubate ==
  /\ daemon = "up"
  /\ main.pc = "incubate"
  /\ \/ /\ main.i \in DOMAIN conns
        /\ IncubateTake(main.i, Last(lockers)) \/ IncubateSkip(main.i, Last(lockers))
     \/ IncubateEnd(main.i)
  /\ UNCHANGED <<clientVars, null_fd, again, lockers, started, name, write_pipe,
                 lockersVars>>

\* The pass over the descriptors is over: the lockers are checked.
ScanDone ==
  /\ daemon = "up" /\ main.pc = "scan"
  /\ main' = IF lockers = <<>> THEN Poll ELSE Chk(1)
  /\ UNCHANGED <<clientVars, place, conns, null_fd, incubator, daemon, again, lockers,
                 started, name, write_pipe, write_sequence, lockersVars, pipe>>

\* poll() has nothing to report before its timeout.
Quiet == \A c \in Client : /\ place[c] \notin {"backlog", "unread"}
                           /\ place[c] \in InTable => alive[c]

\* poll() times out: the loop ends if there is no locker and no connection, and
\* the timeout was not the zero one asked for by chklockers.
Timeout ==
  /\ daemon = "up" /\ main = Poll /\ Quiet
  /\ again' = FALSE
  /\ daemon' = IF lockers = <<>> /\ ~again /\ conns = <<>> THEN "ending" ELSE daemon
  /\ main' = IF lockers # <<>> THEN Chk(1) ELSE Poll
  /\ UNCHANGED <<clientVars, place, conns, null_fd, incubator, lockers, started, name,
                 write_pipe, write_sequence, lockersVars, pipe>>

\* The listener is closed, whoever is in its backlog.
Close ==
  /\ daemon = "ending"
  /\ daemon' = "ended"
  /\ place' = [c \in Client |-> IF place[c] = "backlog" THEN "closed" ELSE place[c]]
  /\ UNCHANGED <<clientVars, conns, null_fd, incubator, main, again, lockers, started, name,
                 write_pipe, write_sequence, lockersVars, pipe>>

(***************************************************************************)
(* flom_accept_loop_chklockers: it reads what the locker threads write, so *)
(* each variable it looks at is a step of its own.                         *)
(***************************************************************************)

Checking(pc) == daemon = "up" /\ main.pc = pc

chkFrame == <<clientVars, place, conns, null_fd, incubator, daemon, started, name,
              write_sequence, lockersVars, pipe>>

ChkEnd ==
  /\ Checking("chk") /\ main.i > Len(lockers)
  /\ main' = Poll
  /\ again' = FALSE
  /\ UNCHANGED <<chkFrame, lockers, write_pipe>>

\* Mutant of ChkSequence: the sequence numbers are not compared.
ChkSequenceSkipped ==
  /\ Checking("chk") /\ main.i \in DOMAIN lockers
  /\ main' = [pc |-> "chkidle", i |-> main.i]
  /\ UNCHANGED <<chkFrame, again, lockers, write_pipe>>

\* First the sequence numbers: is there a token the locker has not read?
ChkSequence ==
  /\ Checking("chk") /\ main.i \in DOMAIN lockers
  /\ LET l == lockers[main.i] IN
       main' = IF write_sequence[l] = read_sequence[l]
               THEN [pc |-> "chkidle", i |-> main.i]
               ELSE Chk(main.i + 1)
  /\ UNCHANGED <<chkFrame, again, lockers, write_pipe>>

\* Then the idle periods: the pipe is closed, or the thread joined.
ChkIdle ==
  /\ Checking("chkidle")
  /\ LET l == lockers[main.i]
         idle == idle_periods[l] > FLOM_LOCKER_MAX_IDLE_PERIODS
     IN \/ /\ idle /\ write_pipe[l]
           /\ write_pipe' = [write_pipe EXCEPT ![l] = FALSE]
           /\ main' = Chk(main.i + 1)
        \/ /\ idle /\ ~write_pipe[l] /\ ~read_pipe[l]
           /\ main' = [pc |-> "join", i |-> main.i]
           /\ UNCHANGED write_pipe
        \/ /\ ~idle \/ (~write_pipe[l] /\ read_pipe[l])
           /\ main' = Chk(main.i + 1)
           /\ UNCHANGED write_pipe
  /\ UNCHANGED <<chkFrame, again, lockers>>

\* g_thread_join waits for the thread; then the locker leaves the array.
ChkJoin ==
  /\ Checking("join")
  /\ threads[lockers[main.i]] = "exit"
  /\ lockers' = RemoveAt(lockers, main.i)
  /\ again' = TRUE
  /\ main' = Poll
  /\ UNCHANGED <<chkFrame, write_pipe>>

(***************************************************************************)
(* The thread of a locker: flom_locker_loop.                               *)
(***************************************************************************)

threadFrame == <<clientVars, conns, null_fd, incubator, daemon, main, again, lockers,
                 started, name, write_pipe, write_sequence>>

Running == daemon = "up"

\* The loop reaches poll(), as flom_conns_set_events finds every descriptor open.
Polls(l) == Running /\ threads[l] = "poll" /\ table[l] \cap null_fd = {}

\* poll() times out, which it does only while the locker may still become idle.
LockerTimeout(l) ==
  /\ Polls(l)
  /\ pipe[l] = <<>> /\ write_pipe[l]
  /\ \A c \in table[l] : alive[c]
  /\ idle_periods[l] <= FLOM_LOCKER_MAX_IDLE_PERIODS
  /\ threads' = [threads EXCEPT ![l] = "tick"]
  /\ UNCHANGED <<threadFrame, place, read_pipe, read_sequence, idle_periods, table, pipe>>

\* The period counts if the pipe is the only descriptor.
LockerTick(l) ==
  /\ Running /\ threads[l] = "tick"
  /\ idle_periods' = [idle_periods EXCEPT ![l] = IF table[l] = {} THEN @ + 1 ELSE @]
  /\ threads' = [threads EXCEPT ![l] = "poll"]
  /\ UNCHANGED <<threadFrame, place, read_pipe, read_sequence, table, pipe>>

\* flom_locker_loop_pollin on the pipe: the locker is not idle any more ...
LockerPollin(l) ==
  /\ Polls(l)
  /\ pipe[l] # <<>>
  /\ idle_periods' = [idle_periods EXCEPT ![l] = 0]
  /\ threads' = [threads EXCEPT ![l] = "token"]
  /\ UNCHANGED <<threadFrame, place, read_pipe, read_sequence, table, pipe>>

\* ... and only then it imports the connection and owns up to having read the
\* token.  A closed connection is imported as well, and its message handled; the
\* answer can not be sent, and with that or not the thread ends at its next turn.
LockerImport(l) ==
  /\ Running /\ threads[l] = "token"
  /\ table' = [table EXCEPT ![l] = @ \cup {Head(pipe[l]).client}]
  /\ read_sequence' = [read_sequence EXCEPT ![l] = Head(pipe[l]).sequence]
  /\ pipe' = [pipe EXCEPT ![l] = Tail(@)]
  /\ threads' = [threads EXCEPT ![l] = "poll"]
  /\ UNCHANGED <<threadFrame, place, read_pipe, idle_periods>>

\* The connection of a client that has left is closed, by flom_locker_loop_pollin
\* (which is an activity) or on POLLERR or POLLHUP (which is none).
LockerDrop(l, c) ==
  /\ Polls(l)
  /\ c \in table[l] /\ ~alive[c]
  /\ table' = [table EXCEPT ![l] = @ \ {c}]
  /\ place' = [place EXCEPT ![c] = "closed"]
  /\ idle_periods' \in {idle_periods, [idle_periods EXCEPT ![l] = 0]}
  /\ UNCHANGED <<threadFrame, read_pipe, read_sequence, threads, pipe>>

\* Mutant of LockerHup: the main thread is not told.
LockerHupSilent(l) ==
  /\ Polls(l)
  /\ ~write_pipe[l] /\ pipe[l] = <<>>
  /\ threads' = [threads EXCEPT ![l] = IF table[l] = {} THEN "exit" ELSE @]
  /\ UNCHANGED <<threadFrame, place, read_pipe, read_sequence, idle_periods, table, pipe>>

\* Mutant of LockerHup: the loop does not end when no descriptor is left.
LockerHupStays(l) ==
  /\ Polls(l)
  /\ ~write_pipe[l] /\ pipe[l] = <<>>
  /\ read_pipe' = [read_pipe EXCEPT ![l] = FALSE]
  /\ UNCHANGED <<threadFrame, place, read_sequence, idle_periods, table, threads, pipe>>

\* The pipe was closed and is empty: its other end is closed, and the loop ends
\* as no descriptor is left.  (OneActiveLocker has it that none is.)
LockerHup(l) ==
  /\ Polls(l)
  /\ ~write_pipe[l] /\ pipe[l] = <<>>
  /\ read_pipe' = [read_pipe EXCEPT ![l] = FALSE]
  /\ threads' = [threads EXCEPT ![l] = IF table[l] = {} THEN "exit" ELSE @]
  /\ UNCHANGED <<threadFrame, place, read_sequence, idle_periods, table, pipe>>

\* An error ends the loop, or makes it lose the pipe: the connections are closed
\* (those in the pipe are lost), and nobody tells the main thread.
LockerEnds(l) ==
  /\ Running /\ threads[l] = "poll"
  /\ threads' = [threads EXCEPT ![l] = "failed"]
  /\ place' = [c \in Client |-> IF c \in table[l] THEN "closed" ELSE place[c]]
  /\ table' = [table EXCEPT ![l] = {}]
  /\ UNCHANGED <<threadFrame, read_pipe, read_sequence, idle_periods, pipe>>

\* What serving a client can do: a send fails in the scan of a clean, a protocol
\* error, ...
LockerFail(l) == table[l] # {} /\ LockerEnds(l)

\* What a closed connection does: flom_conns_set_events refuses FLOM_NULL_FD.
LockerCorrupted(l) == table[l] \cap null_fd # {} /\ LockerEnds(l)

Locker(l) ==
  \/ LockerTimeout(l)
  \/ LockerTick(l)
  \/ LockerPollin(l)
  \/ LockerImport(l)
  \/ \E c \in Client : LockerDrop(l, c)
  \/ LockerHup(l)
  \/ LockerCorrupted(l)

MainThread ==
  \/ \E c \in Client : Accept(c)
  \/ \E k \in DOMAIN conns : ConnsClean(k) \/ Drop(k) \/ TransferStep(k)
  \/ Incubate
  \/ ScanDone
  \/ Timeout
  \/ Close
  \/ ChkEnd
  \/ ChkSequence
  \/ ChkIdle
  \/ ChkJoin

DaemonNext ==
  \/ \E c \in Client : Connect(c) \/ Leave(c)
  \/ MainThread
  \/ \E l \in Id : Locker(l) \/ LockerFail(l)

DaemonSpec == DaemonStarts /\ [][DaemonNext]_daemonVars

\* Both kinds of thread keep running, and a pass of the main thread over the
\* descriptors ends; no client has to do anything.
Fairness == WF_daemonVars(MainThread) /\ \A l \in Id : WF_daemonVars(Locker(l))

-------------------------------------------------------------------------------
(***************************************************************************)
(* Properties.                                                             *)
(***************************************************************************)

\* The variables of both kinds of thread are well typed; a locker never counts
\* more idle periods than it takes to be dismissed.
DaemonTypeOK ==
  /\ want \in [Client -> Message]
  /\ alive \in [Client -> BOOLEAN]
  /\ place \in [Client -> Place]
  /\ conns \in Seq(Client)
  /\ null_fd \subseteq Client
  /\ incubator \subseteq Client
  /\ daemon \in {"up", "ending", "ended", "failed"}
  /\ main \in Main
  /\ again \in BOOLEAN
  /\ lockers \in Seq(Id)
  /\ started \in 0..Cardinality(Client)
  /\ name \in [Id -> Name \cup {"none"}]
  /\ write_pipe \in [Id -> BOOLEAN]
  /\ read_pipe \in [Id -> BOOLEAN]
  /\ write_sequence \in [Id -> Nat]
  /\ read_sequence \in [Id -> Nat]
  /\ idle_periods \in [Id -> 0..(FLOM_LOCKER_MAX_IDLE_PERIODS + 1)]
  /\ pipe \in [Id -> Seq(Token)]
  /\ table \in [Id -> SUBSET Client]
  /\ threads \in [Id -> {"none", "poll", "tick", "token", "exit", "failed"}]

\* The clients a locker has, or will have: in its table or on their way to it.
Clients(l) == table[l] \cup {pipe[l][k].client : k \in DOMAIN pipe[l]}

\* The dismissal of an idle locker never races with a hand over: a locker whose
\* pipe the main thread has closed has no client and gets none, so the clients of
\* a resource never are with two lockers that know nothing of each other.
OneActiveLocker ==
  /\ \A l \in Id : ~write_pipe[l] => Clients(l) = {}
  /\ \A j, k \in DOMAIN lockers :
       write_pipe[lockers[j]] /\ write_pipe[lockers[k]]
         /\ name[lockers[j]] = name[lockers[k]] => j = k

\* The hand over loses and duplicates nothing: a connection is in the table of
\* the main thread, a closed one until flom_conns_clean, or with exactly one locker,
\* according to where it should be.  A closed connection gets to a locker only out of
\* the incubator, never as one whose message is being read.
HandedOverOnce ==
  daemon = "up" =>
    /\ \A c \in Client :
         /\ Cardinality({k \in DOMAIN conns : conns[k] = c}) =
              (IF place[c] \in InTable THEN 1 ELSE 0)
         /\ Cardinality({l \in Id : c \in Clients(l)}) =
              (IF place[c] = "locker" THEN 1 ELSE 0)
    /\ \A l \in Id : table[l] \cap {pipe[l][k].client : k \in DOMAIN pipe[l]} = {}
    /\ \A c \in null_fd : /\ ~alive[c]
                          /\ place[c] = "locker" => want[c].wait /\ ~want[c].create

\* Nobody waits in the incubator for a resource that exists: once the main thread
\* is done with a new locker, all the clients that were waiting for it have been
\* handed over, and nobody enters for the name of a locker that takes clients.
IncubatorServed ==
  daemon = "up" /\ main.pc # "incubate" =>
    \A c \in Client : place[c] = "incubator" => NotFound(want[c].name)

\* The daemon ends by itself only when it serves nobody: no client holds or waits
\* for a lock, none is in the incubator.
EndedNobodyServed ==
  daemon \in {"ending", "ended"} =>
    \A c \in Client : place[c] \in {"none", "backlog", "closed"}

\* The status tree shows every client that waits for a resource to be created, and
\* beside them only clients that left while they waited, which the main loop drops
\* without a call of flom_vfs_ram_tree_del_conn; never one that a locker serves.
IncubatorShown ==
  daemon = "up" /\ main.pc # "incubate" =>
    LET waiting == {c \in Client : place[c] = "incubator"}
    IN  /\ waiting \subseteq incubator
        /\ \A c \in incubator \ waiting : place[c] = "closed" /\ ~alive[c]

\* The main thread never waits for ever in g_thread_join, where it serves nobody.
JoinReturns == main.pc = "join" ~> main.pc # "join"

\* A client handed over to a locker gets to its table, unless the thread fails.
TokenServed ==
  \A l \in Id :
    pipe[l] # <<>> ~> (pipe[l] = <<>> \/ threads[l] = "failed" \/ daemon # "up")

\* A closed connection that was handed over ends the thread of its locker, and with
\* it the other clients of the resource are disconnected: none stays half served.
CorruptedEnds ==
  \A l \in Id :
    table[l] \cap null_fd # {} ~> (threads[l] = "failed" \/ daemon # "up")

\* "activated daemon will die after lifespan inactivity time": if the clients all
\* leave and no thread has left its loop on an error, the lockers go idle, are
\* dismissed and joined, and the main loop ends.  (A thread that failed is never
\* joined, and its locker keeps the daemon alive.)
DaemonEnds ==
  <>[](\A c \in Client : ~alive[c]) =>
    <>(daemon # "up" \/ \E l \in Id : threads[l] = "failed")

\* The tables of the threads have every connection exactly once.
ConnectionsAccounted ==
  /\ DaemonTypeOK
  /\ HandedOverOnce

\* The incubator keeps nobody whose resource exists, and is shown as it is.
IncubatorSound ==
  /\ IncubatorServed
  /\ IncubatorShown

\* No thread waits for ever for another: joins return, tokens are read, and a closed
\* connection does not keep a locker from either serving its clients or ending.
ThreadsAdvance ==
  /\ JoinReturns
  /\ TokenServed
  /\ CorruptedEnds

\* The daemon ends when, and only when, it serves nobody.
EndsWhenIdle ==
  /\ []EndedNobodyServed
  /\ DaemonEnds
===============================================================================
