---------------------------- MODULE ResourceSimple ----------------------------
(***************************************************************************)
(* A simple resource: one name, locked in one of the six DLM modes         *)
(* (flom_resource_simple.c), driven by its locker thread.  A request is a  *)
(* lock mode.                                                              *)
(***************************************************************************)
EXTENDS Locker

ASSUME ModeAssumption == Request \subseteq 0..5

VARIABLES holders,   \* the GSList of granted locks, the newest first
          waitings   \* the GQueue of enqueued requests, the oldest first

vars == <<lockerVars, holders, waitings>>

Entry == [conn : Conn, mode : Request]

\* The modes NL, CR, CW, PR, PW, EX are 0..5.  A row for each mode already
\* held: the modes that may be granted beside it.
lock_table ==
  << {0, 1, 2, 3, 4, 5},
     {0, 1, 2, 3, 4},
     {0, 1, 2},
     {0, 1, 3},
     {0, 1},
     {0} >>

Compatible(old, new) == new \in lock_table[old + 1]

\* Mutant of can_lock: only the newest holder is looked at.
can_lock_newest(mode) ==
  \A k \in DOMAIN holders : k = 1 => Compatible(holders[k].mode, mode)

can_lock(mode) ==
  \A k \in DOMAIN holders : Compatible(holders[k].mode, mode)

Init ==
  /\ LockerInit
  /\ holders = <<>>
  /\ waitings = <<>>

AddHolder(e) == holders' = <<e>> \o holders

EntryOf(c) == [conn |-> c, mode |-> ask[c].req]

\* inmsg, LOCK, the mode fits the holders: the connection becomes one.
LockGrant(c) ==
  /\ can_lock(ask[c].req)
  /\ AddHolder(EntryOf(c))
  /\ VfsAdd("holders", c)
  /\ Reply(c, "OK")
  /\ UNCHANGED waitings

\* inmsg, LOCK, it does not and the client can wait: the end of the queue.
LockEnqueue(c) ==
  /\ ~can_lock(ask[c].req)
  /\ ask[c].wait
  /\ waitings' = Append(waitings, EntryOf(c))
  /\ VfsAdd("waitings", c)
  /\ Reply(c, "LOCK_ENQUEUED")
  /\ UNCHANGED holders

\* inmsg, LOCK, it does not and the client can not wait.
LockBusy(c) ==
  /\ ~can_lock(ask[c].req)
  /\ ~ask[c].wait
  /\ Reply(c, "LOCK_BUSY")
  /\ UNCHANGED <<holders, waitings, vfs>>

Lock(c) ==
  /\ CanRead(c, "LOCK")
  /\ LockGrant(c) \/ LockEnqueue(c) \/ LockBusy(c)

\* clean of a connection that holds a lock: drop the first one found and look
\* for waiters to serve.
CleanHolder(c, path) ==
  \E k \in DOMAIN holders :
    /\ IsFirstOf(holders, k, c)
    /\ holders' = RemoveAt(holders, k)
    /\ UNCHANGED waitings
    /\ StartScan(c, path)

\* Mutant of CleanWaiter: the queue is not searched.
CleanWaiterSkipped(c, path) ==
  /\ UNCHANGED <<holders, waitings>>
  /\ EndClean(c, path)

\* clean of any other connection: leave the queue, if it is there.
CleanWaiter(c, path) ==
  /\ \/ \E k \in DOMAIN waitings :
          /\ IsFirstOf(waitings, k, c)
          /\ waitings' = RemoveAt(waitings, k)
     \/ ~HasEntry(waitings, c) /\ UNCHANGED waitings
  /\ UNCHANGED holders
  /\ EndClean(c, path)

Clean(c, path) ==
  /\ CleanEvent(c, path)
  /\ \/ CleanHolder(c, path)
     \/ ~HasEntry(holders, c) /\ CleanWaiter(c, path)

\* A turn of the loop of waitings, with the cursor on entry job.i: past the end,
WaitingsEnd ==
  /\ job.i > Len(waitings)
  /\ ScanEnd
  /\ UNCHANGED <<holders, waitings>>

\* on a request that does not fit the holders,
WaitingsSkip ==
  /\ job.i \in DOMAIN waitings
  /\ ~can_lock(waitings[job.i].mode)
  /\ ScanSkip
  /\ UNCHANGED <<holders, waitings>>

\* Mutant of WaitingsPop: of the requests that fit the newest is served.
WaitingsPopNewest ==
  \E k \in DOMAIN waitings :
    /\ job.i \in DOMAIN waitings
    /\ can_lock(waitings[job.i].mode) /\ can_lock(waitings[k].mode)
    /\ \A j \in (k + 1)..Len(waitings) : ~can_lock(waitings[j].mode)
    /\ waitings' = RemoveAt(waitings, k)
    /\ \/ ScanGrant(waitings[k].conn) /\ AddHolder(waitings[k])
       \/ ScanAbort(waitings[k].conn) /\ UNCHANGED holders

\* on one that does: it leaves the queue, and becomes a holder once the grant
\* has been sent.
WaitingsPop ==
  /\ job.i \in DOMAIN waitings
  /\ can_lock(waitings[job.i].mode)
  /\ waitings' = RemoveAt(waitings, job.i)
  /\ \/ ScanGrant(waitings[job.i].conn) /\ AddHolder(waitings[job.i])
     \/ ScanAbort(waitings[job.i].conn) /\ UNCHANGED holders

Waitings == Scanning /\ (WaitingsEnd \/ WaitingsSkip \/ WaitingsPop)

Next ==
  \/ Peers({"UNLOCK"}) /\ UNCHANGED <<holders, waitings>>
  \/ \E c \in Conn : Lock(c)
  \/ \E c \in Conn, path \in CleanPath : Clean(c, path)
  \/ Waitings

Spec == Init /\ [][Next]_vars

-------------------------------------------------------------------------------
(***************************************************************************)
(* Properties.                                                             *)
(***************************************************************************)

\* The lists hold records of connections and modes, the rest is well typed.
TypeOK ==
  /\ LockerTypeOK
  /\ holders \in Seq(Entry)
  /\ waitings \in Seq(Entry)

\* Two locks granted at the same time are compatible in the DLM table, whatever
\* mix of direct grants, grants by the scan, failed sends and second cleans
\* (can_lock, inmsg, waitings) led there.
HoldersCompatible ==
  \A j, k \in DOMAIN holders :
    j # k => Compatible(holders[j].mode, holders[k].mode)

\* clean leaves nothing behind: while the thread lives, a lock or a place in
\* the queue belongs to a connection of its table, and to each connection at
\* most one.  (A record of a closed connection is a dangling pointer: the next
\* flom_conns_clean frees the connection.)
NoDanglingEntry ==
  thread # "dead" =>
    LET all == holders \o waitings IN
      /\ \A k \in DOMAIN all : conn[all[k].conn] = "open"
      /\ \A j, k \in DOMAIN all : all[j].conn = all[k].conn => j = k

\* What a live client was told is what the resource believes: OK means it is a
\* holder, LOCK_ENQUEUED that it still is in the queue (so that the grant it
\* waits for can come), LOCK_BUSY that it is in neither.
AnswersHonoured ==
  thread # "dead" =>
    \A c \in Conn : conn[c] = "open" /\ peer[c] = "up" =>
      /\ answer[c] = "OK" <=> HasEntry(holders, c)
      /\ answer[c] = "LOCK_ENQUEUED" <=> HasEntry(waitings, c)

\* A scan that ran to its end leaves no request in the queue that could be
\* served: when the thread is back in poll() every waiter conflicts with some
\* holder, unless the last scan was aborted.
NoLostWakeup ==
  Polling /\ ~aborted =>
    \A k \in DOMAIN waitings : ~can_lock(waitings[k].mode)

\* The status tree shows the lists of the resource: when the thread is back in
\* poll() each holder is below holders/ and each waiter below waitings/, and a
\* node shown for anybody else is that of a dead peer not yet cleaned.
VfsMirror ==
  Polling =>
    LET lists == {<<"holders", holders[k].conn>> : k \in DOMAIN holders} \cup
                 {<<"waitings", waitings[k].conn>> : k \in DOMAIN waitings}
    IN /\ lists \subseteq vfs
       /\ \A n \in vfs \ lists : conn[n[2]] = "open" /\ peer[n[2]] = "gone"

\* The lists of the resource, the table of the thread, what clients were told and what
\* the status tree shows agree, whatever clean, inmsg and aborted scans did.
EntriesHonoured ==
  /\ TypeOK
  /\ NoDanglingEntry
  /\ AnswersHonoured
  /\ VfsMirror
===============================================================================
