------------------------------ MODULE ResourceHier ------------------------------
(***************************************************************************)
(* A hierarchical resource: a tree of names /a/b/c that are locked in the  *)
(* six DLM modes (flom_resource_hier.c).  A lock excludes what is above and *)
(* below its name, never its siblings.  All the names below one root are   *)
(* one resource with one locker; the resource remembers a single name, the *)
(* one it was created for or the last one unlocked, and clean looks for    *)
(* the lock of any connection there.                                       *)
(***************************************************************************)
EXTENDS Locker

\* A request is a name, the sequence of its levels, and a mode.
Path == {r.path : r \in Request}

\* The main thread gives a locker only the names that begin with its root.
ASSUME HierAssumption ==
  /\ \A r \in Request : DOMAIN r = {"path", "mode"} /\ r.mode \in 0..5
  /\ \A p \in Path : p \in Seq({p[k] : k \in DOMAIN p})
  /\ \A p, q \in Path : p # <<>> /\ Head(p) = Head(q)

VARIABLES nodes,     \* the names that have an element in the tree
          holders,   \* [Node -> the GSList of granted locks, the newest first]
          waitings,  \* the GQueue of enqueued requests, the oldest first
          name,      \* resource->name
          freed      \* a record that is in a list of holders has been freed

hierVars == <<nodes, holders, waitings, name, freed>>
vars == <<lockerVars, hierVars>>

\* The name of every element from the root to path.
Line(path) == {SubSeq(path, 1, k) : k \in 1..Len(path)}

Node == UNION {Line(path) : path \in Path}
Holder == [conn : Conn, mode : 0..5]
Waiter == [conn : Conn, req : Request]

\* The modes NL, CR, CW, PR, PW, EX are 0..5.  A row for each mode already
\* held: the modes that may be granted beside it.
lock_table ==
  << {0, 1, 2, 3, 4, 5},
     {0, 1, 2, 3, 4},
     {0, 1, 2},
     {0, 1, 3},
     {0, 1},
     {0} >>

Compatible(old, new) == new \in lock_table[old + 1]

NodeAllows(n, mode) ==
  \A k \in DOMAIN holders[n] : Compatible(holders[n][k].mode, mode)

\* Mutant of can_lock: the visit ends at the last level of the name.
can_lock_above(req) ==
  \A n \in nodes : IsPrefix(n, req.path) => NodeAllows(n, req.mode)

\* The visit goes down the levels of the name, and from the last one to every
\* element below.
can_lock(req) ==
  \A n \in nodes :
    IsPrefix(n, req.path) \/ IsPrefix(req.path, n) => NodeAllows(n, req.mode)

Init ==
  /\ LockerInit
  /\ name \in {ask[c].req.path : c \in Conn}
  /\ nodes = Line(name)
  /\ holders = [n \in Node |-> <<>>]
  /\ waitings = <<>>
  /\ freed = FALSE

\* The first connection handed over is the one the resource was created for.
FirstNamesResource ==
  \A c \in Conn :
    (\A d \in Conn : conn[d] = "new") /\ conn'[c] # "new" => name = ask[c].req.path

\* The pipe keeps the order: it is the first one read, too.
ReadInOrder(c) ==
  (\A d \in Conn : conn[d] \in {"new", "piped"}) => name = ask[c].req.path

\* The elements of the name that are missing are added to the tree; the record
\* goes to the last one.
add_locker(c) ==
  /\ nodes' = nodes \cup Line(ask[c].req.path)
  /\ holders' = [holders EXCEPT ![ask[c].req.path] =
                   <<[conn |-> c, mode |-> ask[c].req.mode]>> \o @]

LockGrant(c) ==
  /\ can_lock(ask[c].req)
  /\ add_locker(c)
  /\ VfsAdd("holders", c)
  /\ Reply(c, "OK")
  /\ UNCHANGED <<waitings, name, freed>>

LockEnqueue(c) ==
  /\ ~can_lock(ask[c].req)
  /\ ask[c].wait
  /\ waitings' = Append(waitings, [conn |-> c, req |-> ask[c].req])
  /\ VfsAdd("waitings", c)
  /\ Reply(c, "LOCK_ENQUEUED")
  /\ UNCHANGED <<nodes, holders, name, freed>>

LockBusy(c) ==
  /\ ~can_lock(ask[c].req)
  /\ ~ask[c].wait
  /\ Reply(c, "LOCK_BUSY")
  /\ UNCHANGED <<vfs, hierVars>>

Lock(c) ==
  /\ CanRead(c, "LOCK")
  /\ ReadInOrder(c)
  /\ LockGrant(c) \/ LockEnqueue(c) \/ LockBusy(c)

\* Mutant of gc: an element without holders goes, whatever is below it.
gc_all == nodes' = {n \in nodes : Len(n) = 1 \/ holders[n] # <<>>}

\* Elements with no holder in them and below them are removed, the root is kept.
gc ==
  nodes' = {n \in nodes :
              Len(n) = 1 \/ \E m \in nodes : IsPrefix(n, m) /\ holders[m] # <<>>}

\* An UNLOCK message carries the name its client has locked; the other events
\* that clean a connection leave the name as it is.
change_name(c, path) == IF path = "unlock" THEN ask[c].req.path ELSE name

\* Mutant of Located: the search does not leave the root.
LocatedRoot(n, path) == n \in nodes /\ Len(n) = 1

\* The element clean comes to: the deepest one on the line of the name.
Located(n, path) ==
  /\ n \in nodes \cap Line(path)
  /\ \A m \in nodes \cap Line(path) : Len(m) <= Len(n)

\* The element that was found holds a lock of the connection.
CleanHolder(c, path, n) ==
  /\ \E k \in DOMAIN holders[n] :
       /\ IsFirstOf(holders[n], k, c)
       /\ holders' = [holders EXCEPT ![n] = RemoveAt(@, k)]
  /\ StartScan(c, path)
  /\ UNCHANGED <<nodes, waitings, freed>>

CleanWaiter(c, path, n) ==
  /\ ~HasEntry(holders[n], c)
  /\ \/ \E k \in DOMAIN waitings :
          /\ IsFirstOf(waitings, k, c)
          /\ waitings' = RemoveAt(waitings, k)
     \/ ~HasEntry(waitings, c) /\ UNCHANGED waitings
  /\ EndClean(c, path)
  /\ gc
  /\ UNCHANGED <<holders, freed>>

Clean(c, path) ==
  /\ CleanEvent(c, path)
  /\ name' = change_name(c, path)
  /\ \E n \in nodes : /\ Located(n, change_name(c, path))
                      /\ CleanHolder(c, path, n) \/ CleanWaiter(c, path, n)

\* A turn of the loop of waitings; the clean that called it ends with gc.
WaitingsEnd ==
  /\ job.i > Len(waitings)
  /\ ScanEnd
  /\ gc
  /\ UNCHANGED <<holders, waitings, name, freed>>

WaitingsSkip ==
  /\ job.i \in DOMAIN waitings
  /\ ~can_lock(waitings[job.i].req)
  /\ ScanSkip
  /\ UNCHANGED hierVars

\* The record is put in the tree before the grant is sent, and freed when it can
\* not be sent.
WaitingsPop ==
  /\ job.i \in DOMAIN waitings
  /\ can_lock(waitings[job.i].req)
  /\ waitings' = RemoveAt(waitings, job.i)
  /\ add_locker(waitings[job.i].conn)
  /\ \/ ScanGrant(waitings[job.i].conn) /\ UNCHANGED freed
     \/ ScanAbort(waitings[job.i].conn) /\ freed' = TRUE
  /\ UNCHANGED name

Waitings == Scanning /\ (WaitingsEnd \/ WaitingsSkip \/ WaitingsPop)

\* Once a freed record is in the tree the next visit reads it, and what the thread
\* does from then on has no meaning: it is not modelled.
Thread ==
  /\ ~freed
  /\ \/ \E c \in Conn : Lock(c)
     \/ \E c \in Conn, path \in CleanPath : Clean(c, path)
     \/ Waitings

Next ==
  \/ Peers({"UNLOCK"}) /\ FirstNamesResource /\ UNCHANGED hierVars
  \/ Thread

Spec == Init /\ [][Next]_vars

-------------------------------------------------------------------------------
(***************************************************************************)
(* Properties.                                                             *)
(***************************************************************************)

\* The tree is a set of names, each with its list of records.
TypeOK ==
  /\ LockerTypeOK
  /\ nodes \subseteq Node
  /\ holders \in [Node -> Seq(Holder)]
  /\ waitings \in Seq(Waiter)
  /\ name \in Path
  /\ freed \in BOOLEAN

\* Two granted locks on one line of the tree have compatible modes, whichever was
\* granted first and whatever elements came and went between them
\* (flom_resource_hier_can_lock looks above and below).
LineCompatible ==
  \A p, q \in Node : IsPrefix(p, q) =>
    \A j \in DOMAIN holders[p], k \in DOMAIN holders[q] :
      p # q \/ j # k => Compatible(holders[p][j].mode, holders[q][k].mode)

\* Every granted lock can be reached from the root: flom_resource_hier_gc never
\* takes away an element on the way to one, which can_lock would then not see.
HoldersReachable ==
  \A n \in Node : holders[n] # <<>> => Line(n) \subseteq nodes

\* A live client that was told OK has one lock, at the name it asked for and
\* nowhere else in the tree; one that was told LOCK_ENQUEUED is in the queue and
\* has none.
AnswersHonoured ==
  thread # "dead" /\ ~freed =>
    \A c \in Conn : conn[c] = "open" /\ peer[c] = "up" =>
      /\ {n \in Node : HasEntry(holders[n], c)} =
           IF answer[c] = "OK" THEN {ask[c].req.path} ELSE {}
      /\ answer[c] = "LOCK_ENQUEUED" <=> HasEntry(waitings, c)

\* When the thread is back in poll() after a scan that ran to its end, every
\* request in the queue is kept there by a lock above, below or at its name.
NoLostWakeup ==
  Polling /\ ~aborted /\ ~freed =>
    \A w \in DOMAIN waitings : ~can_lock(waitings[w].req)

\* A connection closed while the resource remembers its name leaves nothing
\* behind in the tree; also when gc has already taken the element away.
CleanedWhereNamed ==
  [][\A c \in Conn :
       conn[c] = "open" /\ conn'[c] = "closed" /\ thread' = "loop"
         /\ name' = ask[c].req.path
       => \A n \in Node : ~HasEntry(holders'[n], c)]_vars

\* The locks in the tree are those clients were told of, where they asked for them, and
\* can_lock sees them all.
RecordsHonoured ==
  /\ TypeOK
  /\ HoldersReachable
  /\ AnswersHonoured
===============================================================================
