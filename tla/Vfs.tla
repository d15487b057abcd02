--------------------------------- MODULE Vfs ----------------------------------
(***************************************************************************)
(* The status tree (flom_vfs.c), which the daemon shows as a file system,  *)
(* and the callbacks of FUSE that read it (flom_fuse.c).  The tree has a   *)
(* mutex; the main thread and the locker threads update it, each update    *)
(* under the mutex and so one step.  A callback takes the mutex for each   *)
(* search, and uses what it has found after it has released it: it is      *)
(* several steps.                                                          *)
(*                                                                         *)
(* Directories are found by their name in all the tree below a node; the   *)
(* directory of a client and that of a locker have a number for a name,    *)
(* drawn from one counter.  The number of an inode is the address of the   *)
(* node, and addresses are used again.  The contents of files and the      *)
(* times are left out; a client has one request at a time.                 *)
(***************************************************************************)
EXTENDS Naturals, FiniteSets, FiniteSetsExt

CONSTANTS Client,    \* connections, each used once
          Name,      \* names of resources, one locker at a time for each
          MaxLocker  \* bound: lockers started in a behaviour

ASSUME VfsAssumption == IsFiniteSet(Client) /\ MaxLocker \in Nat

VARIABLES last_uid,  \* the counter of the main thread
          want,      \* [Client -> the resource it asks for]
          place,     \* [Client -> where the daemon has its connection, and its uid]
          locker,    \* [Name -> state and uid of the locker, if any]
          started,   \* lockers started so far
          main,      \* what the main thread is in the middle of
          node,      \* flom_vfs_ram_tree: [addresses in use -> name and parent]
          top,       \* the highest address used so far
          fuse,      \* the callback the FUSE thread is in, and the nodes it holds
          fault      \* what a callback has done to memory that is not a node

daemonVars == <<last_uid, want, place, locker, started, main>>
treeVars == <<daemonVars, node, top, fuse, fault>>

\* The nodes that are always there.
Fixed == 1..4

Dir(d) == [kind |-> d, uid |-> 0]
Uid(u) == [kind |-> "uid", uid |-> u]
File == [kind |-> "file", uid |-> 0]
NULL == 0

\* "table": with the main thread; "piped": handed over, not read by the locker yet;
\* "open": with its locker, without a lock; "unlocking", "closing": clean has
\* taken its lock away and grants locks to others.
Place == [state : {"none", "table", "incubator", "piped", "open", "waiting", "holder",
                  "unlocking", "closing", "gone"},
         uid : Nat]
Leaving == {"unlocking", "closing"}
WithLocker == {"piped", "open", "waiting", "holder"} \cup Leaving

\* The threads of the daemon between two of their steps; "ended": the main loop is
\* over and the tree is gone.
MainIdle == [op |-> "poll"]
FuseIdle == [op |-> "idle"]
NoFault == [kind |-> "none"]

TreeInit ==
  /\ last_uid = 0
  /\ want \in [Client -> Name]
  /\ place = [c \in Client |-> [state |-> "none", uid |-> 0]]
  /\ locker = [n \in Name |-> [state |-> "none", uid |-> 0]]
  /\ started = 0
  /\ main = MainIdle
  \* flom_vfs_ram_tree_init
  /\ node = << [name |-> Dir("root"), up |-> NULL],
               [name |-> Dir("status"), up |-> 1],
               [name |-> Dir("lockers"), up |-> 2],
               [name |-> Dir("incubator"), up |-> 2] >>
  /\ top = 4
  /\ fuse = FuseIdle
  /\ fault = NoFault

(***************************************************************************)
(* Searches.                                                               *)
(***************************************************************************)

Root == 1

\* The node a and all that is below it.
Below(a) ==
  LET under[b \in DOMAIN node] == b = a \/ (b # Root /\ under[node[b].up])
  IN  {b \in DOMAIN node : under[b]}

\* flom_vfs_ram_tree_find_node_by_name: all the tree below the node is searched in
\* pre-order, so a directory is met before what is inside.
FindByName(start, name) ==
  LET found == {b \in Below(start) : node[b].name = name}
  IN  {b \in found : \A a \in found \ {b} : b \notin Below(a)}

\* flom_vfs_ram_tree_find_child_by_name, flom_vfs_ram_tree_retrieve_children.
Children(a) == {b \in DOMAIN node \ {Root} : node[b].up = a}
ChildByName(a, name) == {b \in Children(a) : node[b].name = name}

TheDir(d) == CHOOSE b \in FindByName(Root, Dir(d)) : TRUE

-------------------------------------------------------------------------------
(***************************************************************************)
(* Updates.                                                                *)
(***************************************************************************)

\* Addresses for n new nodes: the allocator gives out freed memory first.
NewAddr(n) ==
  LET free == (1..(top + n)) \ DOMAIN node
  IN  [i \in 1..n |-> CHOOSE a \in free : Cardinality({b \in free : b < a}) = i - 1]

Grow(added) ==
  /\ node' = [b \in DOMAIN added \cup DOMAIN node |->
                IF b \in DOMAIN added THEN added[b] ELSE node[b]]
  /\ top' = Max({top} \cup DOMAIN added)
  /\ UNCHANGED fuse

\* flom_vfs_ram_tree_cleanup of a node: it is freed with all that is below it, and
\* what the FUSE thread holds of it is a pointer to nothing.
Cleanup(a) ==
  /\ node' = [b \in DOMAIN node \ Below(a) |-> node[b]]
  /\ fuse' = IF fuse = FuseIdle THEN fuse
             ELSE [fuse EXCEPT !.freed = @ \cup ({fuse.node, fuse.parent} \cap Below(a))]
  /\ UNCHANGED top

\* What is searched is not there.
Untouched == UNCHANGED <<node, top, fuse>>

\* A directory for a client, and one node for its files.
AddConnDir(dir, uid) ==
  LET a == NewAddr(2)
  IN  Grow([b \in {a[1], a[2]} |->
              IF b = a[1] THEN [name |-> Uid(uid), up |-> dir]
              ELSE [name |-> File, up |-> a[1]]])

\* flom_vfs_ram_tree_add_incubator_conn.
AddIncubatorConn(uid) == AddConnDir(TheDir("incubator"), uid)

\* flom_vfs_ram_tree_add_locker: the directory of a locker, with its two directories;
\* its files are left out.
AddLocker(uid) ==
  LET a == NewAddr(3)
  IN  Grow([b \in {a[1], a[2], a[3]} |->
              IF b = a[1] THEN [name |-> Uid(uid), up |-> TheDir("lockers")]
              ELSE [name |-> Dir(IF b = a[2] THEN "holders" ELSE "waitings"), up |-> a[1]]])

\* flom_vfs_ram_tree_del_locker.
DelLocker(uid) ==
  LET found == FindByName(TheDir("lockers"), Uid(uid))
  IN  IF found = {} THEN Untouched ELSE \E a \in found : Cleanup(a)

\* flom_vfs_ram_tree_add_locker_conn.
AddLockerConn(lockerUid, connUid, d) ==
  LET dirs == FindByName(TheDir("lockers"), Uid(lockerUid))
  IN  IF dirs = {} THEN Untouched
      ELSE \E l \in dirs :
             LET lists == FindByName(l, Dir(d))
             IN  IF lists = {} THEN Untouched ELSE \E a \in lists : AddConnDir(a, connUid)

\* flom_vfs_ram_tree_del_conn: the directory of the client, in the incubator or
\* below any locker.
DelConn(uid, incubating) ==
  LET found == FindByName(TheDir(IF incubating THEN "incubator" ELSE "lockers"), Uid(uid))
  IN  IF found = {} THEN Untouched ELSE \E a \in found : Cleanup(a)

\* Mutant of MoveLockerConn: a new directory is made below holders, and the old one
\* is deleted.
MoveLockerConnCopies(uid) ==
  \E a \in FindByName(TheDir("lockers"), Uid(uid)) :
    LET old == node[a].up
        holders == FindByName(node[old].up, Dir("holders"))
        new == NewAddr(2)
    IN  \E h \in holders :
          /\ node' = [b \in (DOMAIN node \ Below(a)) \cup {new[1], new[2]} |->
                        IF b = new[1] THEN [name |-> Uid(uid), up |-> h]
                        ELSE IF b = new[2] THEN [name |-> File, up |-> new[1]]
                        ELSE node[b]]
          /\ top' = Max({top, new[1], new[2]})
          /\ UNCHANGED fuse

\* flom_vfs_ram_tree_move_locker_conn: the directory of the client, which has to be
\* below waitings, is moved below holders of the same locker.
MoveLockerConn(uid) ==
  LET found == FindByName(TheDir("lockers"), Uid(uid))
  IN  IF found = {} THEN Untouched
      ELSE \E a \in found :
             LET old == node[a].up
                 holders == FindByName(node[old].up, Dir("holders"))
             IN  IF node[old].name # Dir("waitings") \/ holders = {} THEN Untouched
                 ELSE \E h \in holders :
                        /\ node' = [node EXCEPT ![a].up = h]
                        /\ UNCHANGED <<top, fuse>>

-------------------------------------------------------------------------------
(***************************************************************************)
(* The main thread.                                                        *)
(***************************************************************************)

\* flom_conns_get_new_uid.
NewUid == last_uid + 1

\* Mutant of LockerUid: lockers are counted by themselves.
LockerUidOwn == started + 1

LockerUid == NewUid

Become(c, s) == place' = [place EXCEPT ![c].state = s]

Accept(c) ==
  /\ main = MainIdle
  /\ place[c].state = "none"
  /\ place' = [place EXCEPT ![c] = [state |-> "table", uid |-> NewUid]]
  /\ last_uid' = NewUid
  /\ UNCHANGED <<want, locker, started, main, node, top, fuse, fault>>

\* flom_accept_loop_transfer, the client can not create the resource and waits.
Incubate(c) ==
  /\ main = MainIdle
  /\ place[c].state = "table" /\ locker[want[c]].state = "none"
  /\ Become(c, "incubator")
  /\ AddIncubatorConn(place[c].uid)
  /\ UNCHANGED <<last_uid, want, locker, started, main, fault>>

\* flom_accept_loop_transfer, a new locker: it is shown before it is given a client;
\* the incubator is looked at next.
StartLocker(c) ==
  /\ main = MainIdle
  /\ place[c].state = "table" /\ locker[want[c]].state = "none"
  /\ started < MaxLocker
  /\ locker' = [locker EXCEPT ![want[c]] = [state |-> "up", uid |-> LockerUid]]
  /\ last_uid' = NewUid
  /\ started' = started + 1
  /\ AddLocker(LockerUid)
  /\ Become(c, "piped")
  /\ main' = [op |-> "scan", name |-> want[c]]
  /\ UNCHANGED <<want, fault>>

\* flom_accept_loop_transfer, to a locker that exists; one that has failed is still
\* in the array, and the client is lost.
HandOver(c) ==
  /\ main = MainIdle
  /\ place[c].state = "table" /\ locker[want[c]].state # "none"
  /\ Become(c, IF locker[want[c]].state = "up" THEN "piped" ELSE "gone")
  /\ UNCHANGED <<last_uid, want, locker, started, main, node, top, fuse, fault>>

\* A client of the incubator is handed over to the new locker ...
TransferIncubated(c) ==
  /\ main.op = "scan"
  /\ place[c].state = "incubator" /\ want[c] = main.name
  /\ Become(c, IF locker[want[c]].state = "up" THEN "piped" ELSE "gone")
  /\ main' = [op |-> "del", name |-> main.name, client |-> c]
  /\ UNCHANGED <<last_uid, want, locker, started, node, top, fuse, fault>>

\* ... and only then its directory is deleted, by the uid read from the connection,
\* which its locker may have closed and freed: what is read then is the uid, or
\* what the allocator has put there, which is no uid.
DelIncubated ==
  /\ main.op = "del"
  /\ \E u \in {place[main.client].uid}
              \cup (IF place[main.client].state = "gone" THEN {0} ELSE {}) :
       DelConn(u, TRUE)
  /\ main' = [op |-> "scan", name |-> main.name]
  /\ UNCHANGED <<last_uid, want, place, locker, started, fault>>

IncubatorDone ==
  /\ main.op = "scan"
  /\ \A c \in Client : ~(place[c].state = "incubator" /\ want[c] = main.name)
  /\ main' = MainIdle
  /\ UNCHANGED <<last_uid, want, place, locker, started, node, top, fuse, fault>>

\* A client that the main thread still has has left, and flom_conns_clean removes its
\* connection (until then it may be handed over as any other); the tree is not told.
Drop(c) ==
  /\ main = MainIdle
  /\ place[c].state \in {"table", "incubator"}
  /\ Become(c, "gone")
  /\ UNCHANGED <<last_uid, want, locker, started, main, node, top, fuse, fault>>

Clients(n) == {c \in Client : want[c] = n /\ place[c].state \in WithLocker}

\* flom_accept_loop_chklockers: an idle locker is joined and leaves the array.
JoinLocker(n) ==
  /\ main = MainIdle
  /\ locker[n].state = "up" /\ Clients(n) = {}
  /\ locker' = [locker EXCEPT ![n] = [state |-> "none", uid |-> 0]]
  /\ DelLocker(locker[n].uid)
  /\ UNCHANGED <<last_uid, want, place, started, main, fault>>

\* The end of flom_accept_loop, when a file system that is busy could not be
\* unmounted: the tree is freed while the FUSE thread runs.
End ==
  /\ main = MainIdle
  /\ \A n \in Name : locker[n].state = "none"
  /\ \A c \in Client : place[c].state \in {"none", "gone"}
  /\ main' = [op |-> "ended"]
  /\ Cleanup(Root)
  /\ UNCHANGED <<last_uid, want, place, locker, started, fault>>

-------------------------------------------------------------------------------
(***************************************************************************)
(* A locker thread, as far as the tree is told of its clients.             *)
(***************************************************************************)

Free(n) == locker[n].state = "up" /\ \A c \in Clients(n) : place[c].state \notin Leaving

Inmsg(c, s) ==
  /\ Free(want[c])
  /\ place[c].state \in {"piped", "open"}
  /\ Become(c, s)
  /\ UNCHANGED <<last_uid, want, locker, started, main, fault>>

\* The three outcomes of LOCK.
Hold(c) == Inmsg(c, "holder") /\ AddLockerConn(locker[want[c]].uid, place[c].uid, "holders")
Enqueue(c) == Inmsg(c, "waiting") /\ AddLockerConn(locker[want[c]].uid, place[c].uid, "waitings")
Refuse(c) == Inmsg(c, "open") /\ place[c].state = "piped" /\ Untouched

\* The scan of the queue, or the timeout of a timestamp resource.  A grant that can not
\* be sent takes the request from the queue and leaves the tree as it is, with the
\* client among those that wait, until its connection is cleaned: nothing changes here
\* (the queue itself is in the module ResourceSimple).
Grant(c) ==
  /\ locker[want[c]].state = "up"
  /\ place[c].state = "waiting"
  /\ Become(c, "holder")
  /\ MoveLockerConn(place[c].uid)
  /\ UNCHANGED <<last_uid, want, locker, started, main, fault>>

\* clean, for an UNLOCK or a connection that is closed: the lock is taken away ...
CleanStart(c, s) ==
  /\ Free(want[c])
  /\ place[c].state \in (IF s = "closing" THEN {"open", "waiting", "holder"} ELSE {"holder"})
  /\ Become(c, s)
  /\ UNCHANGED <<last_uid, want, locker, started, main, node, top, fuse, fault>>

\* ... and the tree is told at the end, after the scan that lets others have it.
CleanEnd(c) ==
  /\ locker[want[c]].state = "up"
  /\ place[c].state \in Leaving
  /\ Become(c, IF place[c].state = "closing" THEN "gone" ELSE "open")
  /\ DelConn(place[c].uid, FALSE)
  /\ UNCHANGED <<last_uid, want, locker, started, main, fault>>

\* The thread leaves its loop on an error: its connections are closed, the locker
\* stays in the array, and in the tree with all its clients.
LockerFail(n) ==
  /\ locker[n].state = "up" /\ Clients(n) # {}
  /\ locker' = [locker EXCEPT ![n].state = "failed"]
  /\ place' = [c \in Client |-> IF c \in Clients(n) THEN [place[c] EXCEPT !.state = "gone"]
                               ELSE place[c]]
  /\ UNCHANGED <<last_uid, want, started, main, node, top, fuse, fault>>

-------------------------------------------------------------------------------
(***************************************************************************)
(* The callbacks of FUSE.                                                  *)
(***************************************************************************)

Op == {"getattr", "lookup", "readdir", "open", "read"}

\* Mutant of Find: the inode is taken for the node it was.
FindTrusts(ino) == ino

\* flom_vfs_ram_tree_find.
Find(ino) == IF ino \in DOMAIN node THEN ino ELSE NULL

\* The FUSE thread starts a callback with an inode that the kernel has been told
\* of, now or before, and finds its node.  It opens and reads none of the four directories
\* that are always there.
Search(op, ino) ==
  [op |-> op, pc |-> "found", node |-> Find(ino), parent |-> NULL,
   stale |-> ino \notin DOMAIN node, freed |-> {Find(ino)} \ (DOMAIN node \cup {NULL})]

Callback(op, ino) ==
  /\ fuse = FuseIdle
  /\ op \in {"open", "read"} => ino \notin Fixed
  /\ fuse' = Search(op, ino)
  /\ UNCHANGED <<daemonVars, node, top, fault>>

\* The thread reads the node a after it has released the mutex, and goes on; it
\* goes no further when what it has read is not a node.
Touch(a, next) ==
  /\ IF a = NULL \/ a \in fuse.freed
     THEN /\ fault' = [kind |-> IF a = NULL THEN "null" ELSE "dangling",
                       op |-> fuse.op, stale |-> fuse.stale]
          /\ fuse' = FuseIdle
     ELSE fault' = fault /\ fuse' = next
  /\ UNCHANGED <<daemonVars, node, top>>

FuseReply == fuse' = FuseIdle /\ UNCHANGED <<daemonVars, node, top, fault>>

\* flom_fuse_stat, in getattr and at the end of lookup: a missing node is answered
\* with attributes that are all zero.
FuseStat ==
  /\ fuse.op = "getattr"
  /\ IF fuse.node = NULL THEN FuseReply ELSE Touch(fuse.node, FuseIdle)

\* flom_fuse_open: the node is looked at to tell files from directories.
FuseOpen ==
  /\ fuse.op = "open"
  /\ IF fuse.node = NULL THEN FuseReply ELSE Touch(fuse.node, FuseIdle)

\* flom_fuse_read: a missing node is answered and read all the same, and the content
\* of a directory is NULL.
FuseRead ==
  /\ fuse.op = "read"
  /\ IF fuse.node \in DOMAIN node \ fuse.freed /\ node[fuse.node].name # File
     THEN Touch(NULL, FuseIdle)
     ELSE Touch(fuse.node, FuseIdle)

\* flom_fuse_lookup: the child is searched below a parent found before ...
FuseLookup ==
  /\ fuse.op = "lookup" /\ fuse.pc = "found"
  /\ IF fuse.node = NULL THEN FuseReply
     ELSE \E b \in {NULL} \cup Children(fuse.node) :
            Touch(fuse.node, IF b = NULL THEN FuseIdle
                             ELSE [fuse EXCEPT !.pc = "child", !.node = b, !.freed = {}])

\* ... and its address is read and searched once more.
FuseEntry ==
  /\ fuse.op = "lookup" /\ fuse.pc = "child"
  /\ Touch(fuse.node, Search("getattr", fuse.node))

\* flom_fuse_readdir: the parent of the node is searched ...
FuseParent ==
  /\ fuse.op = "readdir" /\ fuse.pc = "found"
  /\ IF fuse.node = NULL THEN FuseReply
     ELSE Touch(fuse.node, [fuse EXCEPT !.pc = "list",
                                        !.parent = IF fuse.node = Root THEN Root
                                                   ELSE node[fuse.node].up])

\* ... then the node is read and its children are copied under the mutex ...
FuseList ==
  /\ fuse.op = "readdir" /\ fuse.pc = "list"
  /\ Touch(fuse.node, IF node[fuse.node].name = File THEN FuseIdle
                      ELSE [fuse EXCEPT !.pc = "dotdot"])

\* ... and the parent is read for the entry "..".
FuseDotdot ==
  /\ fuse.op = "readdir" /\ fuse.pc = "dotdot"
  /\ Touch(fuse.parent, FuseIdle)

Fuse ==
  \/ \E op \in Op, ino \in 1..top : Callback(op, ino)
  \/ FuseStat \/ FuseOpen \/ FuseRead
  \/ FuseLookup \/ FuseEntry
  \/ FuseParent \/ FuseList \/ FuseDotdot

\* A fault is the end of the process.
TreeNext ==
  /\ fault = NoFault
  /\ \/ \E c \in Client : \/ Accept(c) \/ Incubate(c) \/ StartLocker(c) \/ HandOver(c)
                           \/ TransferIncubated(c) \/ Drop(c)
                           \/ Hold(c) \/ Enqueue(c) \/ Refuse(c) \/ Grant(c) \/ CleanEnd(c)
                           \/ \E s \in Leaving : CleanStart(c, s)
     \/ DelIncubated \/ IncubatorDone \/ End
     \/ \E n \in Name : JoinLocker(n) \/ LockerFail(n)
     \/ Fuse

TreeSpec == TreeInit /\ [][TreeNext]_treeVars

-------------------------------------------------------------------------------
(***************************************************************************)
(* Properties.                                                             *)
(***************************************************************************)

\* The variables are well typed; every node but the root hangs below another one, and
\* files have nothing below them.
TreeTypeOK ==
  /\ last_uid \in 0..(Cardinality(Client) + MaxLocker)
  /\ want \in [Client -> Name]
  /\ place \in [Client -> Place]
  /\ locker \in [Name -> [state : {"none", "up", "failed"}, uid : Nat]]
  /\ main.op \in {"poll", "scan", "del", "ended"}
  /\ DOMAIN node \subseteq 1..top /\ top \in Nat
  /\ \A a \in DOMAIN node \ {Root} :
       node[a].up \in DOMAIN node /\ node[node[a].up].name # File
  /\ fuse = FuseIdle \/ fuse.op \in Op
  /\ fault.kind \in {"none", "null", "dangling"}

Uids(a) == {node[b].name.uid : b \in {b \in Children(a) : node[b].name # File}}
UidsOf(states, n) == {place[c].uid : c \in {c \in Client : want[c] = n /\ place[c].state \in states}}

\* The tree shows what the daemon has: one directory for every locker, and in it as
\* holders those who hold, as waitings those who wait, beside them at most the
\* connection whose clean is under way; in the incubator everybody who is there, and
\* beside them only the client being handed over and clients that are gone.  Every
\* search by uid has met the directory meant by it, whichever thread asked.
TreeMirrors ==
  LET lockersDir == TheDir("lockers")
      shown == Uids(TheDir("incubator"))
      waiting == {place[c].uid : c \in {c \in Client : place[c].state = "incubator"}}
      gone == {place[c].uid : c \in {c \in Client : place[c].state = "gone"}}
      moving == IF main.op = "del" THEN {place[main.client].uid} ELSE {}
  IN  main.op # "ended" =>
        /\ Uids(lockersDir) = {locker[n].uid : n \in {n \in Name : locker[n].state # "none"}}
        /\ \A n \in Name : locker[n].state = "up" =>
             \A d \in ChildByName(lockersDir, Uid(locker[n].uid)) :
               \A list \in {<<"holders", "holder">>, <<"waitings", "waiting">>} :
                 \A a \in ChildByName(d, Dir(list[1])) :
                   /\ UidsOf({list[2]}, n) \subseteq Uids(a)
                   /\ Uids(a) \subseteq UidsOf({list[2]} \cup Leaving, n)
        /\ waiting \subseteq shown
        /\ shown \subseteq waiting \cup gone \cup moving

ConnDirs(c) == FindByName(TheDir("lockers"), Uid(place[c].uid))

\* Who is granted the lock it waited for keeps its directory, moved from waitings to
\* holders: the inode a reader has of it stays good as long as the client has to do
\* with the resource.
InodeKept ==
  [][\A c \in Client :
       place[c].state \in {"waiting", "holder"} /\ place'[c].state \in {"waiting", "holder"}
         => \A a \in ConnDirs(c) :
              a \in DOMAIN node' /\ node'[a].name = Uid(place[c].uid)]_<<place, node>>

\* The kernel keeps the numbers of inodes that are gone: a callback for one of them
\* is answered, and touches no freed memory even if it races with updates; but
\* flom_fuse_read, which goes on with the node it has not found.  Freed memory is
\* touched only by a callback that has lost the node it had found.
StaleInodeAnswered ==
  fault # NoFault =>
    IF fault.stale THEN fault.op = "read" /\ fault.kind = "null"
    ELSE (fault.kind = "dangling" \/ fault.op = "read")

\* The tree is a tree, and shows what the daemon has.
TreeSound ==
  /\ TreeTypeOK
  /\ TreeMirrors
===============================================================================
