------------------------------ MODULE ResourceSet ------------------------------
(***************************************************************************)
(* A set of resources: a lock is granted on whichever element is free      *)
(* (flom_resource_set.c), and the answer tells the client which one.       *)
(***************************************************************************)
EXTENDS Locker

CONSTANTS Size,  \* the number of elements in the resource's name
          Free   \* a NULL connection

ASSUME SetAssumption == Size \in Nat \ {0} /\ Free \notin Conn

VARIABLES elements,  \* [Element -> the connection that holds it, or Free]
          index,     \* where the search for a free element starts
          waitings,  \* the GQueue of enqueued requests, the oldest first
          told       \* [Conn -> the element named in its last OK answer]

setVars == <<elements, index, waitings, told>>
vars == <<lockerVars, setVars>>

Element == 0..(Size - 1)
None == Size
Waiter == [conn : Conn]

\* How far from index the search meets element e, going round.
Distance(e) == (e + Size - index) % Size

\* flom_resource_set_can_lock returns TRUE and element e.
can_lock(e) ==
  /\ elements[e] = Free
  /\ \A f \in Element : Distance(f) < Distance(e) => elements[f] # Free

Full == \A e \in Element : ~can_lock(e)

Init ==
  /\ LockerInit
  /\ elements = [e \in Element |-> Free]
  /\ index = 0
  /\ waitings = <<>>
  /\ told = [c \in Conn |-> None]

\* Mutant of Take: the client is told the element the search started from.
TakeTellsIndex(c, e) ==
  /\ elements' = [elements EXCEPT ![e] = c]
  /\ told' = [told EXCEPT ![c] = index]
  /\ index' = (index + 1) % Size

\* Element e is given to c; index moves one place on from where the search began,
\* wherever e was.
Take(c, e) ==
  /\ elements' = [elements EXCEPT ![e] = c]
  /\ told' = [told EXCEPT ![c] = e]
  /\ index' = (index + 1) % Size

LockGrant(c) ==
  /\ \E e \in Element : can_lock(e) /\ Take(c, e)
  /\ VfsAdd("holders", c)
  /\ Reply(c, "OK")
  /\ UNCHANGED waitings

LockEnqueue(c) ==
  /\ Full
  /\ ask[c].wait
  /\ waitings' = Append(waitings, [conn |-> c])
  /\ VfsAdd("waitings", c)
  /\ Reply(c, "LOCK_ENQUEUED")
  /\ UNCHANGED <<elements, index, told>>

LockBusy(c) ==
  /\ Full
  /\ ~ask[c].wait
  /\ Reply(c, "LOCK_BUSY")
  /\ UNCHANGED <<vfs, setVars>>

Lock(c) ==
  /\ CanRead(c, "LOCK")
  /\ LockGrant(c) \/ LockEnqueue(c) \/ LockBusy(c)

\* clean of a connection that holds an element: the first one it holds.
CleanHolder(c, path) ==
  \E e \in Element :
    /\ elements[e] = c
    /\ \A f \in 0..(e - 1) : elements[f] # c
    /\ elements' = [elements EXCEPT ![e] = Free]
    /\ UNCHANGED <<index, waitings, told>>
    /\ StartScan(c, path)

CleanWaiter(c, path) ==
  /\ \/ \E k \in DOMAIN waitings :
          /\ IsFirstOf(waitings, k, c)
          /\ waitings' = RemoveAt(waitings, k)
     \/ ~HasEntry(waitings, c) /\ UNCHANGED waitings
  /\ UNCHANGED <<elements, index, told>>
  /\ EndClean(c, path)

Clean(c, path) ==
  /\ CleanEvent(c, path)
  /\ \/ CleanHolder(c, path)
     \/ (\A e \in Element : elements[e] # c) /\ CleanWaiter(c, path)

\* A turn of the loop of waitings.
WaitingsEnd ==
  /\ job.i > Len(waitings)
  /\ ScanEnd
  /\ UNCHANGED setVars

WaitingsSkip ==
  /\ job.i \in DOMAIN waitings
  /\ Full
  /\ ScanSkip
  /\ UNCHANGED setVars

\* The element is taken after the grant has been sent.
WaitingsPop ==
  /\ job.i \in DOMAIN waitings
  /\ waitings' = RemoveAt(waitings, job.i)
  /\ \E e \in Element :
       /\ can_lock(e)
       /\ \/ /\ ScanGrant(waitings[job.i].conn)
             /\ Take(waitings[job.i].conn, e)
          \/ /\ ScanAbort(waitings[job.i].conn)
             /\ UNCHANGED <<elements, index, told>>

Waitings == Scanning /\ (WaitingsEnd \/ WaitingsSkip \/ WaitingsPop)

Next ==
  \/ Peers({"UNLOCK"}) /\ UNCHANGED setVars
  \/ \E c \in Conn : Lock(c)
  \/ \E c \in Conn, path \in CleanPath : Clean(c, path)
  \/ Waitings

Spec == Init /\ [][Next]_vars

-------------------------------------------------------------------------------
(***************************************************************************)
(* Properties.                                                             *)
(***************************************************************************)

\* Each element has a connection or none, index is the place of an element.
TypeOK ==
  /\ LockerTypeOK
  /\ elements \in [Element -> Conn \cup {Free}]
  /\ index \in Element
  /\ waitings \in Seq(Waiter)
  /\ told \in [Conn -> Element \cup {None}]

\* A live client that was told OK holds exactly the element named in the answer,
\* so no two live clients were told the same element; one that was told
\* LOCK_ENQUEUED holds none and is in the queue.
ToldElementHeld ==
  thread # "dead" =>
    \A c \in Conn : conn[c] = "open" /\ peer[c] = "up" =>
      /\ answer[c] = "OK" => {e \in Element : elements[e] = c} = {told[c]}
      /\ answer[c] # "OK" => \A e \in Element : elements[e] # c
      /\ answer[c] = "LOCK_ENQUEUED" <=> HasEntry(waitings, c)

\* While the thread lives an element is held, and a place in the queue taken, by a
\* connection of its table only.
NoDanglingEntry ==
  thread # "dead" =>
    /\ \A e \in Element : elements[e] # Free => conn[elements[e]] = "open"
    /\ \A k \in DOMAIN waitings : conn[waitings[k].conn] = "open"

\* When the thread is back in poll() after a scan that ran to its end, nobody
\* waits while an element is free.
NoLostWakeup == Polling /\ ~aborted => waitings = <<>> \/ Full

\* Elements are with the clients that were told so, and with nobody who is gone.
ElementsHonoured ==
  /\ TypeOK
  /\ ToldElementHeld
  /\ NoDanglingEntry
===============================================================================
