# FLoM in TLA+

FLoM is a lock manager: a daemon hands out locks on named resources to clients,
which are programs linked to `libflom` or commands started by the `flom` command
line. This directory models the daemon (the main thread, the locker threads, the six
types of resource, the status tree), the client library, the messages between them,
and how daemons are found, started and ended. Paths below are relative to the root
of the repository; `src/src/` is the directory of the C sources.

## 1. Inventory

| component | state | operations | talks to |
|---|---|---|---|
| main thread (`flom_daemon.c`) | table of connections, array of lockers, incubator | accept, read a message, find or start a locker, hand the connection over, incubate, dismiss and join idle lockers, end | clients (sockets), lockers (pipe and shared struct), status tree |
| locker thread (`flom_locker.c`, `flom_conns.c`) | table of connections, idle periods, sequence number of the last token, deadline of its poll | poll, import a connection, read a message, reply, close and clean, end | main thread, its resource, clients |
| simple resource (`flom_resource_simple.c`) | holders, queue | `inmsg` (LOCK, UNLOCK), `clean`, `waitings` | called by its locker; sends grants |
| numeric resource (`flom_resource_numeric.c`) | units out, holders, queue | the same | the same |
| sequence resource (`flom_resource_sequence.c`) | locks out, next value, rolled back values, holders, queue | the same, and `get` | the same |
| set resource (`flom_resource_set.c`) | elements, index, queue | the same | the same |
| hierarchical resource (`flom_resource_hier.c`) | tree of names with holders on each level, queue | the same, and garbage collection | the same |
| timestamp resource (`flom_resource_timestamp.c`) | last timestamp, locks out, holders, queue | the same, `get` and `timeout` | the same, and the timeout of `poll` |
| status tree (`flom_vfs.c`) | a tree of nodes for lockers, holders, waiters, incubated clients; a mutex | add, move, delete, search | main thread, lockers, FUSE |
| FUSE front end (`flom_fuse.c`) | the inodes the kernel remembers | lookup, getattr, readdir, open, read | status tree |
| client and handle (`flom_client.c`, `flom_handle.c`) | state of a handle, connection | connect, lock, wait, unlock, clean, delete, disconnect | daemon |
| daemon start and shutdown (`flom_daemon.c`, `flom_client.c`, `flom_daemon_mngmnt.c`) | lock file, socket path, ports, lifespan | fork, listen, answer the father, discover, shut down | kernel, clients |
| message codec (`flom_msg.c`) | message structs | serialize, parse, free, step by step | network, both ends |
| network (`flom_tcp.c`, `flom_tls.c`) | receive buffers | send, receive, frame | the same |
| names, configuration, command line, traces, bindings | none of interest | conversions and system calls | |

What is hard here: clients die at any point, and the daemon finds out either by a
failing send in the middle of a callback or by `poll`; the two kinds of thread share a
struct without a lock; connections move between tables; a queue is scanned while its
entries fail; a client gives up while its grant is on its way; daemons are started by
whoever finds none, with no registry; messages have no length. `PROJECT.json` lists the
hazards at their lines.

What makes the components correct:

* a resource never grants incompatible locks, units it does not have, a number, an
  element or a timestamp twice; it forgets nobody (lists, answers and status tree
  agree), keeps nothing for a connection that is gone, and serves whoever can be served;
* the locker closes every connection whose client leaves, and wakes up in time;
* the main thread hands a connection to exactly one locker, never to one it is
  dismissing; the incubator does not keep a client whose resource exists; the daemon
  ends when, and only when, nobody is served;
* what a handle believes the daemon has recorded, and what the daemon has recorded
  somebody will give back;
* clients of one address meet in one daemon;
* a message is acted upon as it was sent, once and whole;
* a search in the status tree finds the node that was meant.

## 2. Modules

`Locker` is the shell all the resources share; `ResourceSimple`, `ResourceNumeric`,
`ResourceSequence`, `ResourceSet`, `ResourceHier` and `ResourceTimestamp` extend it
with the state and the callbacks of one type of resource. `Daemon` composes the main
thread with any number of locker threads; there a resource is only a name. `Session`
composes handles, sockets and a daemon of numeric resources. `Startup` composes clients
with the daemons they start; `Msg` the two ends of a connection; `Vfs` the threads that
write the status tree with the one that reads it. `LockService` is an abstract
specification and `SimpleService` the mapping to it. `MC*` give the symmetry sets, the
requests and the initial states of the runs. The modules
whose names end in `Proofs` hold lemmas, theorems and the inductive
invariants they need (section 4); `DaemonProofs` is about `Daemon` and `ResourceNumeric`,
`ClientProofs` about `Session` and `Startup`, `TreeProofs` about `ResourceHier` and `Vfs`.
For that reason what other modules call `Init`, `Next`, `Spec` and `TypeOK` is
`DaemonStarts`, `DaemonNext`, `DaemonSpec` and `DaemonTypeOK` in `Daemon`, `StartInit`,
`StartNext`, `StartSpec` and `StartTypeOK` in `Startup`, and `TreeInit`, `TreeNext`,
`TreeSpec` and `TreeTypeOK` in `Vfs`. Definitions whose comment says `Mutant of` are
plausible mistakes in the definition they name, and nothing uses them.

### Locker

A connection is `new`, then `piped` (the main thread wrote it in the pipe), then
`open` (in the table of the thread), then `closed`. The peer behind it is `up`,
`closing` (it has shut down its sending half) or `gone`. `inbox` is the message
not read yet; `answer` is the last reply put in the peer's socket.

A callback runs to its end before the next one, so it is one action, with one
exception: the scan of the queue (`*_waitings`) sends a message for every grant,
and any client may die between two sends. It runs as steps: `job` holds the
cursor, the connection whose clean started the scan and the path by which that
clean was called, because the path decides what an error does:

| path | where `clean` was called | a failing scan makes |
|---|---|---|
| `unlock` | `inmsg`, message UNLOCK | the handler fail; the loop closes and cleans again |
| `eof` | `flom_locker_loop_pollin`, recv returned 0 | the same |
| `error` | loop, POLLERR or POLLHUP | the thread leave its loop |
| `second` | loop, after a handler failed | the thread leave its loop |

`SendRc` gives the outcomes of `flom_conn_send`: to a live peer it succeeds; to a
dead one it may succeed (the kernel takes the bytes), fail with SEND_ERROR, or
fail with CONNECTION_CLOSED, which the replying code treats differently from
SEND_ERROR. A reply on a connection just taken from the pipe that fails with the
latter closes descriptor 0 of the table, the pipe; from there the thread takes a
client for the main thread, and the model stops (`thread = "orphan"`).

Abstractions: a message is its verb; there is one message of a client in flight
(the library waits for the answer before it sends another); `Conn` is used once
per connection; memory that cannot be allocated is not modelled; the client's
settings `ask` are fixed for the life of the handle. `aborted` is a history
variable: the last scan gave up.

### The resources

`holders` (a `GSList`, newest first) and `waitings` (a `GQueue`, oldest first) are
sequences of records. `LockGrant`, `LockEnqueue`, `LockBusy` are the three
outcomes of `inmsg` for LOCK; `CleanHolder` and `CleanWaiter` the two of `clean`;
`WaitingsEnd`, `WaitingsSkip`, `WaitingsPop` a turn of the loop of `waitings`.
UNLOCK is the path `unlock` of `Clean`. In the sequence and the timestamp the value is
taken before the grant is sent; in the others, but the hierarchical one, the lock is
recorded after it.

`ResourceHier` keeps the tree as the set `nodes` of the names that have an element,
each name the sequence of its levels, and `holders` as one list for each name.
`can_lock` visits the line from the root through the name and all that is below;
`add_locker` adds the missing part of the line; `gc`, which ends every clean, removes
what has no holder in it or below it. `name` is `resource->name`: `init` sets it to
the name of the first client (`FirstNamesResource`; it is read first, `ReadInOrder`),
UNLOCK to the name it carries,
and `clean` looks for the lock of any connection at the deepest element on its line.
A grant that can not be sent frees a record that is already in the tree (`freed`);
what the thread does when it then reads the tree is undefined, so its steps end
there, and the properties speak of the states before.

`ResourceTimestamp` adds a clock that advances and may once be set back. `deadline` is
what `next_deadline` asks of the loop, `wake` when its `poll` times out, `Timeout` the
callback. `get_timeout` is the arithmetic of `flom_locker_loop_get_timeout`: the
difference of the microseconds is divided by 1000 as C does, towards zero, and one
millisecond is added, so `poll` ends up to two milliseconds after the deadline. A tick
stands for a microsecond, `MSEC` and `SEC` say how many make a millisecond and a second.
`format` is the finest specifier of the name's format, which is all `init` takes from
it; `Printed` is what `strftime` makes of a time in it, in a time zone of `offset`
seconds. It stands for the whole local time: a format that leaves out the date or the
hour prints the same again after a day or an hour, and is not what `StampsUnique` is
about.

### LockService and SimpleService

`LockService` is what FLoM promises of one resource, without threads, messages or
lists: clients hold modes or stand in a queue, and leave. A newcomer is served if it
fits beside who holds, the first waiter that fits is served, nobody loses a lock or a
place before he leaves, unless the service stops altogether. `SimpleService` maps
`ResourceSimple` on it: `held` and `queue` are the two lists of the thread (empty once
it has ended), `here` the peers that are up. `ImplementsService` is a property of the
run `simple`, so every step of the clients, of the callbacks, of a scan cut short and
of the loop around them is a step of the service or none.

### Daemon

Every read and write of the variables the threads share is a step of its own:
`ChkSequence` reads the sequence numbers, `ChkIdle` the idle periods (and closes
the pipe), `ChkJoin` is `g_thread_join`; in the locker `LockerPollin` resets
`idle_periods`, and `LockerImport` then imports the connection and sets
`read_sequence`. The variables are plain `int`s; the model takes the order of the
program, which the C standard does not promise. `conns` leaves the listener out.
A client sends one LOCK message and leaves once (the daemon shuts down its sending
half to a client it refuses, so asking again on that connection leads nowhere). A
client with an invalid name, or whose resource can not be initialised, is not told
apart from one that neither creates nor waits. Discovery and management are in
`Startup`.

A turn of the main loop is a pass over the connections `poll` has reported, in the order
of the table (`main.i`), that ends with the first message handled. A connection found
hung up in the pass is only closed and marked (`Drop`, `null_fd`); `ConnsClean` removes
it at the next turn. Until then it is in the table with its flag `wait`: if a LOCK later
in the same pass starts the locker it was waiting for, `IncubateTake` hands it over, and
its mark is overwritten. `LockerImport` takes it in, and the thread ends on the
descriptor -1 (`LockerCorrupted`), with the clients it has.

`LockerFail` stands for every other error that ends a locker's loop or makes it lose the
pipe; it happens only to a locker that has clients, since errors come from their
connections. A timeout is a nondeterministic step enabled when `poll` has nothing
else to report.

### Session

A handle has the states of `flom_handle.h`; `call` is where a call is blocked: in the
`recv` of `flom_client_lock`, of `flom_client_wait_lock` or of `flom_client_disconnect`.
A connection has two ends (`end`, `server`) and messages in transit in both directions
(`up`, `down`); `RecvTimeout` ends a wait at any moment, the program may then lock
again on the same connection, unlock, clean, delete the handle or end. `server` says
who has the connection in the daemon: the main thread (with `msg` set: the incubator),
or a locker, in whose `pipe` it may still be. The daemon's steps are those
of `Daemon` and `ResourceNumeric`, with the scan as single grants and the replies of
step 16 and 24; `Crash` ends the daemon at any point, and a client that comes later
meets a new one. `asked` is a history variable.

The main thread closes in one turn and removes in the next, as in `Daemon` (`MainEof`,
`ConnsClean`; `moved` says that the turn has handled its message); in what order a pass
comes to the connections is left open. A grant that can not be sent (`GrantFails`) cuts
the scan short: after an UNLOCK the connection is closed and cleaned once more
(`Reclean`), everywhere else the thread leaves its loop (`thread`), closes the
connections in its table (`LockerFrees`) and leaves those in its pipe alone, open and
unread. A locker that is handed a closed connection ends in the same way; one that
closes its pipe in place of a connection is `orphan`, as in `Locker`, and takes no more
steps. The main thread does not know; the next connection it hands over to such a
locker ends the daemon (`TransferFails`). `Stranded` names the connections nobody will
read from any more.

### Startup

`pc` follows `flom_client_connect` for a local socket, a unicast address, a multicast
group, and a group with a known port; `phase` follows a daemon from the fork through
lock file, bind, listen, the answer in the pipe, the loop, and `flom_listen_clean`, one
system call at a time. `path` is whose socket the path leads to, `flock` who has the
lock file. `Kill` ends a daemon at any point; `Immediate` and the quiesce branch of
`Accept` are the two shutdown requests. The kernel (backlog, SO_REUSEADDR, flock, loss
of datagrams) is modelled from how the code uses it and is marked external in the map
where a definition is nothing else. What happens on a connection is in `Session`. A client
in the backlog is blocked in its first `recv`: it may be killed, and need not leave.

### Msg

A struct `flom_msg_s` has a header and a union: `body` is an array of half words, and
each kind of message has a layout in it, so that what one kind leaves can be read as
another. Serialization gives a sequence of bytes, where one stands for the name and
attributes of an element; parsing goes element by element, frees what the struct had
where the code does, and rejects what the parser rejects. `Transmit` puts a message in the
link, `Read` takes any part of what is there that `recv` may return, up to `want`, which
is computed as `flom_tcp_recv_msg` does from the closing tag. The client, the main thread
and the locker use the structs they use in the code, with buffers `Large` and `Small`.
A message that is not for a daemon, or a peer to be checked on a connection without TLS,
ends the accept loop and with it all connections (`flom_daemon.c:1411`, `1426`); of the
one connection of this module that is its end.

### Vfs

`node` maps the addresses in use to name and parent; `NewAddr` gives out the lowest free
ones, so that an address is used again as soon as it can be. `place` says which thread has
the connection of a client. `FindByName` is the depth-first search of the code, `last_uid` the counter the
numbers of connections and lockers come from. Updates hold the mutex and are one step;
the main thread's handing over of the incubator is several, with the locker's steps in
between. A FUSE callback is a search, then the use of what it found. The kernel may ask
for any inode it has seen. `fault` records the first use of memory that is no node.
A grant that can not be sent changes nothing in the tree (`Grant` has no branch for it;
`VfsMirror` of `ResourceSimple` is about that case).

## 3. Runs

| run | shows |
|---|---|
| `simple` | four clients, modes CR, PR, PW, EX: `HoldersCompatible` and `EntriesHonoured` (`TypeOK`, `NoDanglingEntry`, `AnswersHonoured`, `VfsMirror`) through every mix of grants, unlocks, deaths, failed sends and second cleans; `NoLostWakeup` where the scan has to pass over a request; `ImplementsService`, the refinement of `LockService` |
| `numeric` | `Accounted`: the counter equals the sum of what is held, is never above the total, and clients know what they hold; `NobodyStranded`: nobody is enqueued for more than there is, nobody that fits is left unserved |
| `sequence` | `ValuesSound`: numbers are unique until the `guint` wraps around, 0 is never handed out even then; `LocksServed`; `HolesOnlyFromAborts`: a number of a transactional sequence is lost only by an aborted scan; `DisconnectCompletes`: who disconnects is not left blocked |
| `set` | `ElementsHonoured`: the element a client was told is the one recorded for it, and nobody who is gone has one; `NoLostWakeup`: nobody waits while one is free |
| `hier` | `LineCompatible`: locks above and below each other are compatible; `RecordsHonoured`: pruning the tree hides none of them, and clients know what they hold; `NoLostWakeup`: nobody waits whose line is free; `CleanedWhereNamed`: a connection that is closed while the resource remembers its name leaves nothing behind |
| `timestamp` | `StampsUnique`: no two locks print the same timestamp, while the clock moves between `can_lock` and `get`; `PlacesHonoured`: counter, list and answers agree; `WokenInTime`: a waiter kept only by the clock is woken when the next slot has begun, not before and less than two milliseconds after |
| `daemon` | `OneActiveLocker`: the dismissal handshake; `ConnectionsAccounted`: the hand over; `IncubatorSound`: the incubator and what the status tree shows of it; `ThreadsAdvance`: joins return, tokens are read, a thread with a closed connection ends; `EndsWhenIdle`: the end of the daemon; all with threads that fail and connections that are closed before they are removed |
| `session` | `BeliefsSound`: a LOCKED handle has its lock recorded, and quantities handed out never exceed the resource; `NoStrayRecord`: nothing stays, in a locker that works, of a session that is closed or was refused; both when timeouts race grants, closed connections are handed over, lockers fail and the daemon dies; `CallsReturn`: blocked calls return; `GoneIsNoticed`: the daemon notices who leaves, wherever it was; both but for the pipe of a locker that has failed |
| `session_impossible` | refutes `ImpossibleIsRefused`, see below |
| `startup` | `SameDaemon`: clients of one path or port are never served by two daemons; `DaemonReached`: a daemon in its loop can be reached, and who starts a daemon reaches it; with daemons that leave, are shut down or killed meanwhile; `ConnectReturns`; `BacklogSettled`: a connection nobody has accepted is accepted or reset, also by a daemon that is leaving, though its client waits for ever; `ShutdownCompletes` |
| `msg` | `ReceivedIsSent`: what is acted upon is what was sent; `ReadsExact`: a receiver stops exactly at the end of a message and within its buffer; `StructsSound`: unions are never misread; `EveryMessageHeard`: every message that fits is heard |
| `vfs` | `TreeSound`: the tree shows what the daemon has, though nodes are found by numbers shared by clients and lockers; `InodeKept`: a granted client keeps its inode; `StaleInodeAnswered`: inodes that are gone are answered |

Many of these are conjunctions of parts named in the module (the type invariant `TypeOK`
of a module is one of them); the parts are the formulas to prove one by one.

One run TLC refutes, against a line of the repository (see `findings`).

`session_impossible`: a client waits in the incubator for 2 units of a resource that
another one creates with 1. The locker answers LOCK_IMPOSSIBLE at step 24;
`flom_client_wait_lock` looks at the reason code only to see whether it is
LOCK_ENQUEUED, and returns OK: the handle is LOCKED and has nothing.

### What the code does and the properties leave room for

Where the code deviates from what one would like to say, the property says what does
hold and its comment names the exception. The exceptions:

* A scan that meets a dead waiter returns at once (`flom_resource_simple.c:489`, and the
  same in the other types); the waiters behind it wait until somebody else leaves.
  `NoLostWakeup` speaks of scans that ended (`aborted`).
* A client that locks again on one connection, after its own timeout, has two records,
  and `clean` removes one (`flom_resource_simple.c:327`): the other survives the
  connection. `NoDanglingEntry` is checked with `Retry = FALSE`, `NothingLeftBehind`
  speaks of connections with one request; `Session` has the retry, and `LockedIsHeld`
  and `Exclusion` hold with it.
* `flom_resource_hier_clean` looks at the name the resource remembers, and leaves the
  lock of a client that had another name (`flom_resource_hier.c:615`), though the loop calls
  it to "clean locks and/or queued locks" (`flom_locker.c:313`). One client locks /a/b/d,
  another one /a, and leaves without UNLOCK: its lock is looked for at /a/b/d, the name
  the resource was created for, and stays. `CleanedWhereNamed` says that it happens in no
  other case. A grant that can not be sent frees a record that stays in the tree.
* Timestamps repeat when the clock is set back and the format has fractions of a second,
  and when the offset of the time zone is not a multiple of the slot. A grant to a
  newcomer or by the scan of a clean does not ask for the next deadline, and an event
  between the deadline and the timeout puts it off; a waiter then waits for the idle
  timeout. `poll` counts whole milliseconds, and one more: with fractions finer than
  that a waiter is woken many slots after the next one.
* A connection closed in the incubator may be handed over before it is removed, and ends
  the locker it comes to (`flom_daemon.c:1796`, `flom_conns.c:138`).
* A locker whose thread ends on an error closes the connections it has, but not those in
  its pipe: their clients are blocked until they time out or the daemon ends
  (`Stranded`, excepted in `CallsReturn` and `GoneIsNoticed`), and its records stay
  (`NothingLeftBehind` speaks of lockers that work).
* A locker thread that left its loop on an error stays in the array and its daemon does
  not end by itself (`flom_daemon.c:2056`; `doc/lifespan.txt:17` promises it):
  `DaemonEnds` excepts it. A client that leaves the incubator stays in the status tree.
* A LOCK sent again on a connection refused with LOCK_CANT_WAIT ends the daemon, for the
  answer can not be sent (`flom_daemon.c:1716`). So does any client that dies before
  an answer of the main thread (`flom_daemon.c:1143`). A client can not tell: its handle stays LOCKED
  until it unlocks.
* A daemon killed before it answers leaves its father in `read` for ever, since the
  father keeps the writing end of the pipe (`flom_daemon.c:175`): `Bereft`.
* Clients that discover nobody in a multicast group at the same time start a daemon
  each: `SameDaemon` does not speak of groups.
* A request between 512 and 1024 bytes is written by the client and refused by the
  daemon. Half a message blocks the thread that reads it until the rest comes.
* `flom_fuse_read` of an inode that is gone replies and then follows a NULL pointer; a
  callback uses its node after the mutex is released. `StaleInodeAnswered` says that
  nothing else goes wrong.
* The index of a set moves one place on from where the search started, not past the
  element granted, so the element granted last may be granted next while another is free.

### Bounds

Three clients are a holder, a waiter, and somebody who interferes; the scan
needs four to pass over a waiter and serve the next (two holders compatible with
each other, of which one leaves, and two waiters). Among CR, PR, PW and EX
compatibility is not an equivalence (CR fits PR and PW, which exclude each other). With
four clients not every choice of requests is explored: `MixSpec` takes each mode once
(`simple`), each quantity at most twice (`numeric`), and lets at most one client not
wait. Quantities 1, 2, 4 of 3 have a request that fits beside another, one that
excludes another, and one that never fits. A `guint` of 3 values lets the counter wrap
with three clients. A set of two elements with four clients has a full set and two
waiters. The tree has names at three depths, two of them siblings, and each of four
clients asks for another one (`TreeSpec`), so that a request for the root is passed over
for one below a sibling.

* `timestamp`: a millisecond has two ticks and a second two milliseconds, so that a
  deadline may fall in the middle of a millisecond and the difference of the microseconds
  may be negative; minutes have two seconds. Each format runs past the beginning of its
  next slot (`Horizon`, `MaxClock`); an idle poll is longer than a slot of the fine ones.
  Three clients: in the format of seconds local time is not UTC, one client does not wait
  and the clock may be set back; in the others all wait and the clock goes on.
* `daemon`: three clients, so that two wait in the incubator when the third creates the
  resource, and two names; liveness rules out symmetry, so the run starts from five
  representative choices of requests.
* `session`: one handle may lock twice (`MaxLocks`), on one connection or two, with or
  without waiting, for a resource it creates or not; the other once, waiting for ever;
  one crash (`MaxCrashes`). Its second request depends on the first (`Again`): the same, one
  for the other locker, or one that waits where the first did not, or the other way round.
  The three connections are enough for a client that waits in the incubator, leaves, and
  is handed over to a locker the other one starts, and for a scan that fails while another
  connection is in the pipe.
* `startup`: three clients, of which two race and the third races with them, shuts the
  daemon down or may not start one, in seven configurations; one daemon is killed, at any
  point (`MaxKills`).
* `msg`: one client with each of 19 configurations that make a difference, two requests;
  the buffers are scaled to 26 and 32 tokens, and names reach their last byte and pass it.
* `vfs`: two clients of two resources, two lockers: a client and a locker can
  have neighbouring numbers, and addresses freed by one are taken by the other.

`CHECK_DEADLOCK FALSE` everywhere: every client is used a bounded number of times, so
all behaviours end.

### Fairness

* `ResourceSequence!Fairness`: weak fairness of the handlers of each connection, since
  `poll` is level-triggered and a pass over the descriptors is cut short only when a
  connection was closed, which happens once for each; and of the scan, a loop.
* `Daemon!Fairness`: weak fairness of the main thread and of each locker thread.
* `Session!Fairness`: a blocked `recv` returns when there is something to read, and the
  threads of the daemon poll all their connections in turn. No fairness of timeouts
  and none of the programs, which need not call anything; a wait for a lock need not end.
* `Startup!StartupFairness`: processes that are not blocked run, a `poll` with nothing to report
  times out, and programs that are served end with their connection (or else no daemon
  would have to). A client in the backlog is blocked, and nothing makes it leave.
* `Msg!Fairness`: each end reads what is there and handles what it has read. Nothing
  makes UDP deliver.

## 4. Theorems

The theorems hold for any set of connections or clients and whatever the named
assumptions of the modules allow: modes within 0..5 (`ModeAssumption`), any tree of
names with one root (`HierAssumption`; its second conjunct only says that a name is a
sequence), any `Total` and a `guint` of more than two values (`SequenceAssumption`), a
set of at least one element (`SetAssumption`), slots and polls of any positive length,
seconds of any number of milliseconds above one, and any stretch of time
(`TimeAssumption`), finitely many clients of the daemon
(`DaemonAssumption`), any total and any quantities (`TotalAssumption`,
`QuantityAssumption`), any requests, bounds and quantities of the handles
(`SessionAssumption`; no name is one of the three strings that say where else a
connection is), any configurations of the clients and any bound on the kills
(`StartupAssumption`), finitely many clients of the status tree and any bound on its
lockers (`VfsAssumption`).

Where a theorem begins with `ASSUME ~Retry`, it is about handles that do not lock
again on one connection after their own timeout. With a second LOCK the connection has
two records, `clean` removes one, and the statement is false, as section 3 says. All
other theorems hold for both values of `Retry`.

Every invariant below was checked by TLC on the run of its module before it was proved.

### The shell and the lists

`LockerProofs` states what `RemoveAt`, appending and prepending do to a list: length,
entries, order of what is left (`ClientProofs`, which has no locker of this kind, says the
same of its pipes and lists). It has, for each operator of `Locker`, a lemma on types
and one on `Honest(G, W)`: G and W are the connections that have a lock
and that wait, they are disjoint and not closed, a live client was told OK if and only
if it is in G and LOCK_ENQUEUED if and only if it is in W, nobody with a record still
has a LOCK message to be read, and the status tree has a node for each of them and for
nobody else, but for the connection whose clean is under way. `Distinct` says that no
connection is twice in a list. `NoTimeout` says that no scan was started by a
timeout, which only the timestamp resource has. The resources share these lemmas and
only show how each of their steps changes G and W.

### ResourceSimpleProofs

* `TypeCorrect`: `TypeOK` is inductive.
* `MutualExclusion`: `HoldersCompatible` is inductive together with `TypeOK`. A new
  holder was checked against every other (`can_lock`), in one direction; the other
  direction holds because the table is symmetric (`CompatibleSymmetric`).
* `WakeupsNotLost`: `NoLostWakeup` is not inductive, because it says nothing about
  a scan that is under way. `ScanInv` does: while the scan is at entry i no request
  before i fits the holders, and when no scan runs none does. Grants during the scan
  only add holders, so a request that was blocked stays blocked (`CanLockShrinks`);
  only a clean removes a holder, and it starts a scan at 1.
* `EntriesKept` (`~Retry`): `EntriesHonoured` from `ListsInv`, which is `Honest` of the
  two lists and `Distinct` of each. `Distinct` is needed because `clean` removes the
  first record of a connection only.
* `ServiceImplemented` (`~Retry`): the refinement `Spec => Service!Spec`, from all the
  invariants above and `ModesInv` (a record has the mode its connection asks for). The
  refinement is shown action by action. `ScanInv` is what makes a grant in the middle of
  the queue a grant to the first waiter that fits.

### ResourceSequenceProofs

* `ValuesKept`: `ValuesSound` from `ValuesInv`: until the counter wraps around, the
  values held are different, so are those rolled back, no value is both, none of them
  was committed, and all are behind the counter (`Passed`), which is why the next one is
  new. The counts in the property come from these by `FS_CountingElements`.
* `HolesExplained`: the action property `HolesOnlyFromAborts`, step by step; it needs the
  types only.
* `SequenceServed` (`~Retry`): `LocksServed`. `locked` stays a natural number because it
  is the length of the list (`TypeInv` has both); `ScanInv` is simpler than above, since
  whether there is room does not depend on who asks.

### ResourceSetProofs

* `ElementsKept` (`~Retry`): `ElementsHonoured` from `OwnersInv`, which is `Honest` of the
  owners of the elements, and `OwnersTold`: an element is with a connection that was told
  of this element. The second makes sure that nobody has two.
* `WakeupsNotLost`: the scan goes past an entry only when the search finds nothing.
* `NoElementIdle`: no element is free then. The search is circular and starts at
  `index`; that it meets every element is shown with the place nearest to `index` where
  it could have stopped.

### ResourceTimestampProofs

Every step either leaves the clock and the timestamps alone, takes a timestamp, asks for
a deadline or moves the clock (`ClockSteps`); `ClockInv` is shown along these four.

* `TimestampsUnique`: `StampsUnique` from `StampsInv`: the slots of the timestamps rise.
  `can_lock` compares slots, which for fractions of a second needs that the clock is not
  behind the last timestamp (`PassedMeansLater`); what prints the same is of one slot
  (`PrintedIsSlot`).
* `WaitersWoken`: `WokenInTime` from `WakeInv`: the deadline asked for is that of the last
  timestamp, and until it is reached `poll` waits for it and less than two milliseconds
  more. `PassedAtDeadline` says that the slot has passed exactly from the deadline on; it
  rests on lemmas about quotients (`Quotient`, `QuotientReaches`, `SlotReaches`), since
  slots are divisions by constants nobody knows. `Truncation` and `Waited` do the same for
  the milliseconds: the quotient of C is less than one away on either side, so the one
  that is added makes up for it.
* `PlacesKept` (`~Retry`): `PlacesHonoured` from `PlacesInv` (`Honest`, `Distinct`). The scan
  of the timeout callback belongs to no connection (`TimeoutHonest`).

### TreeProofs

The first part is about `ResourceHier`.

* `LinesCompatible`: `LineCompatible` is not inductive, because `can_lock` visits only
  what is in `nodes`, and `gc` removes from it. `TreeInv` adds that whoever has a holder
  is in `nodes` with all that is above it (`HoldersReachable`), and that a queued request
  is what its connection asks for (`QueueAsks`), since `add_locker` takes the name from
  there.
* `WakeupsNotLost`: `ScanInv` as above; `gc` changes no answer of `can_lock`.
* `RecordsKept` (`~Retry`): `RecordsHonoured` from `RecordsInv`: `Honest`, and every
  record is at the name its connection asks for (`Placed`), as long as no record was
  freed while in the tree.
* `NamedCleaned` (`~Retry`): the action property `CleanedWhereNamed`, from the same
  invariant: the lock of the connection is where `clean` looks for it.

The second part is about `Vfs`. The prover has no induction, so two things about the
operators come first. `Below` is defined with a recursive function; `BelowUp` shows that
such a function exists, as the least set of addresses closed under its equation, and so
that a node is below `a` if it is `a` or its parent is below `a`. `NewAddr` picks
addresses by rank; `Ranked` and `NewAddrs` show that there are enough and that they are
free. `StatusInv` is inductive and says

* where every node hangs (`Shape`): the four fixed directories, directories of lockers,
  their two lists, directories of clients in a list or in the incubator, files. With it
  the search from any directory is read off (`Walk`, `FoundUid`, `FoundList`);
* that each locker of the array has one directory with two lists, and no other has one
  (`LockersShown`); that each directory of a list has an owner who holds or waits
  there, is being cleaned, or whose locker has failed (`ListedShown`); that the
  incubator shows who is in it, who has just been taken out and clients that are gone
  (`IncubatorShown`). A search by number in the whole tree meets the right directory only
  because of
* `UidsSound`: clients and lockers draw their numbers from one counter, and no number is
  drawn twice;
* that a locker whose clients are in the tree stays up while they are with it
  (`ControlSound`), and `last_uid` counts clients and lockers (`Counted`);
* of the FUSE thread (`FuseSound`), that a node it holds is in the tree or marked freed,
  and that a callback for an inode that was gone holds none.

* `TreeKept`: `TreeSound`. One lemma for each update says what it does to the sets of
  directories (`ConnDirShape`, `LockerShape`, `MoveShape`, `CleanupShape`), one for each
  kind of step that the tree and the threads agree after it.
* `StaleInodesAnswered`: `StaleInodeAnswered`, through every race of a callback with the
  updates (`TouchSound`, `FuseFreed`).
* `InodesKept`: the action property `InodeKept`. Only deletions take nodes away; after one
  of them the invariant says that the client still has a directory, deletions add none,
  and no two had its number: it is the same one.

### DaemonProofs

All four rest on `DaemonInv`, which says of each locker that equal sequence numbers mean
an empty pipe, tokens are numbered in order, and enough idle periods mean no client in
the table and none being taken (`LockerSound`); of the main thread, that the pipe of the
locker it has just compared stays empty until it has looked at the idle periods
(`ArraySound`); that each connection is in one table or pipe, once (`TablesSound`); that
nobody in the incubator asks for a name that has a locker, but for the part of the table
the loop has not visited yet (`IncubatorKept`); and that the clients of connections the
main thread has closed are gone, and that the pass that closed them does not come back to
them, so they reach a locker only out of the incubator (`ClosedSound`).

* `DismissalSafe`, `ConnectionsKept`, `IncubatorEmptied` are `OneActiveLocker`,
  `ConnectionsAccounted` and `IncubatorSound`.
* `NobodyServedAtEnd` is the safety half of `EndsWhenIdle`.

`Counted` bounds the number of lockers by the clients that have gone past the main
thread, so that there are always ids left for them.

The second part is about `ResourceNumeric`.

* `UnitsKept`, for both values of `Retry`: `locked` is the sum of the quantities of the
  list of holders, and never above the total (`UnitsInv`). A lock is granted only when
  its quantity fits, a clean subtracts what the record it removes has. `Sum` is a
  recursive function on the length of a list; that it exists and is unique (`Sums`), and
  what prepending and removing an entry do to it (`SumPrepended`, `SumRemoved`), is shown
  with the least length for which it would fail, without an induction rule.
* `UnitsAccounted` (`~Retry`): `Accounted`, from `UnitsInv` and `ListsInv` (`Honest`,
  `Distinct`), as in `ResourceSimpleProofs`.
* `NobodyIsStranded`: `NobodyStranded` from `ScanInv`. Before the cursor of a scan every
  request asks for more than is left; a grant only takes units away, so they stay blocked.

### ClientProofs

The first part is about `Session`: the handles, the sockets, and the daemon with its
locks, for any number of handles, locks, timeouts, retries and crashes. `SessionInv`
says

* of a handle (`Handles`), that its state, the call it is blocked in and what it has
  asked agree, and that a handle that has a connection remembers what it sent there;
* of a connection (`Conns`), what may be in each direction of the socket, depending on
  the two ends; that a LOCK which is the only one of its connection is in one place: on
  its way, with the main thread, in the pipe, or in one record (`Once`); that a request
  that was refused is in none (`Dropped`); and that whoever was told OK, or has the
  answer on its way, has the record, as long as the daemon has the connection
  (`HeldSound`);
* of each name, that the pipe has the connections that were handed over, each once
  (`Pipes`), that records belong to connections of the locker and have the quantity that
  was asked (`Records`), that a locker that scans works and cleans for a connection whose
  client has left (`Scanned`), and that what the records of the holders add up to is
  within the total (`Committed`).

Closed connections that are not removed yet are part of `Conns` (`NullSound`): their
client has left, and they are with the main thread, in the pipe of a locker, or with one
that has left its loop.

* `BeliefsAreSound`: `BeliefsSound`. `LockedIsHeld` is `HeldSound`; `Exclusion`, that the
  quantities of all who believe they hold a lock fit together, compares the sum over
  these handles with the sum of the list, where each has a record of its own.
* `NoRecordIsStray`: `NoStrayRecord`, from `Once` and `Dropped`: the record that a `clean`
  removes is the only one, and the record of a connection that was closed before it was
  handed over is in a locker that has ended.

The second part is about `Startup`.
`StartupInv` says that a daemon is started once (`Fresh`); that the path and the lock
file belong to the daemon its phase says, and that two daemons of one place are never
both past the lock or the bind (`Owned`); that a connection leads to a daemon
that listens (`Linked`); that a client waits for a daemon it has started
(`Fathered`); and what a client that failed has seen of it (`OwnDaemonReached`).

* `DaemonsReached`, `OneDaemonServes` are `DaemonReached` and `SameDaemon`.

### Only model-checked

Liveness under fairness and ENABLED, which the prover does not reach: `ThreadsAdvance`,
`EndsWhenIdle`, `DisconnectCompletes`, `CallsReturn`, `GoneIsNoticed`, `ConnectReturns`,
`BacklogSettled`, `ShutdownCompletes`, `EveryMessageHeard`. And what is
computed by recursion over a structure: the codec of `Msg` (`StructsSound`,
`ReceivedIsSent`, `ReadsExact`: a serialization of any number of elements, and a parser
that takes them one by one).

## 5. Plan

Done: all the modules above with their runs, and the theorems. Left, if the project goes
on: the theorems of `Msg`.

## 6. Not modelled

* Resource names (`flom_rsrc.c` but the compatibility table and the constants of a type):
  regular expressions, a conversion without state.
* Configuration (`flom_config.c`), command line (`main.c`, `flom_exec.c`), traces, texts
  of errors: parsing, setters, getters and output. (Worth knowing: `flom_config_clone`
  copies the pointers to the TLS paths, not the strings, `flom_config.c:1407`.)
* Language bindings: a C++ wrapper and generated code around `flom_handle.c`.
* In TLS the handshake, which is OpenSSL's and blocks the main thread
  (`flom_daemon.c:1339`), in the network layer the translation of
  names and the socket options, in the codec PING, which has the form of DISCOVER, in
  FUSE the mounting and the layout of replies.
* The main thread's multicast socket as a connection: a DISCOVER of another protocol
  level makes the daemon close it (`flom_daemon.c:1401`), and it is no more discovered.
* The mutex of the status tree while the daemon ends (`flom_vfs.c:332`).
