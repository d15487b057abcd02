---------------------------- MODULE ResourceNumeric ----------------------------
(***************************************************************************)
(* A numeric resource: Total units of something, of which every request    *)
(* takes some (flom_resource_numeric.c), driven by its locker thread.  A   *)
(* request is a quantity.                                                  *)
(***************************************************************************)
EXTENDS Locker, Integers

CONSTANT Total   \* the number in the brackets of the resource's name

ASSUME TotalAssumption == Total \in Nat

\* The command line takes only positive quantities; a configuration file or the
\* API may also ask for none.
ASSUME QuantityAssumption == Request \subseteq Nat

VARIABLES locked,    \* locked_quantity
          holders,   \* the GSList of granted locks, the newest first
          waitings   \* the GQueue of enqueued requests, the oldest first

vars == <<lockerVars, locked, holders, waitings>>

Entry == [conn : Conn, quantity : Request]

can_lock(quantity) == Total - locked >= quantity

Init ==
  /\ LockerInit
  /\ locked = 0
  /\ holders = <<>>
  /\ waitings = <<>>

AddHolder(e) ==
  /\ holders' = <<e>> \o holders
  /\ locked' = locked + e.quantity

EntryOf(c) == [conn |-> c, quantity |-> ask[c].req]

\* A request larger than the resource is never enqueued.
CanWait(c) == ask[c].req <= Total /\ ask[c].wait

LockGrant(c) ==
  /\ can_lock(ask[c].req)
  /\ AddHolder(EntryOf(c))
  /\ VfsAdd("holders", c)
  /\ Reply(c, "OK")
  /\ UNCHANGED waitings

LockEnqueue(c) ==
  /\ ~can_lock(ask[c].req)
  /\ CanWait(c)
  /\ waitings' = Append(waitings, EntryOf(c))
  /\ VfsAdd("waitings", c)
  /\ Reply(c, "LOCK_ENQUEUED")
  /\ UNCHANGED <<locked, holders>>

LockRefuse(c) ==
  /\ ~can_lock(ask[c].req)
  /\ ~CanWait(c)
  /\ Reply(c, IF ask[c].req > Total THEN "LOCK_IMPOSSIBLE" ELSE "LOCK_BUSY")
  /\ UNCHANGED <<locked, holders, waitings, vfs>>

Lock(c) ==
  /\ CanRead(c, "LOCK")
  /\ LockGrant(c) \/ LockEnqueue(c) \/ LockRefuse(c)

\* Mutant of CleanHolder: a unit is given back whatever the holder had taken.
CleanHolderOne(c, path) ==
  \E k \in DOMAIN holders :
    /\ IsFirstOf(holders, k, c)
    /\ holders' = RemoveAt(holders, k)
    /\ locked' = locked - 1
    /\ UNCHANGED waitings
    /\ StartScan(c, path)

\* clean of a connection that holds units: give them back and look for waiters.
CleanHolder(c, path) ==
  \E k \in DOMAIN holders :
    /\ IsFirstOf(holders, k, c)
    /\ holders' = RemoveAt(holders, k)
    /\ locked' = locked - holders[k].quantity
    /\ UNCHANGED waitings
    /\ StartScan(c, path)

CleanWaiter(c, path) ==
  /\ \/ \E k \in DOMAIN waitings :
          /\ IsFirstOf(waitings, k, c)
          /\ waitings' = RemoveAt(waitings, k)
     \/ ~HasEntry(waitings, c) /\ UNCHANGED waitings
  /\ UNCHANGED <<locked, holders>>
  /\ EndClean(c, path)

Clean(c, path) ==
  /\ CleanEvent(c, path)
  /\ \/ CleanHolder(c, path)
     \/ ~HasEntry(holders, c) /\ CleanWaiter(c, path)

\* A turn of the loop of waitings.
WaitingsEnd ==
  /\ job.i > Len(waitings)
  /\ ScanEnd
  /\ UNCHANGED <<locked, holders, waitings>>

WaitingsSkip ==
  /\ job.i \in DOMAIN waitings
  /\ ~can_lock(waitings[job.i].quantity)
  /\ ScanSkip
  /\ UNCHANGED <<locked, holders, waitings>>

\* The units are taken after the grant has been sent.
WaitingsPop ==
  /\ job.i \in DOMAIN waitings
  /\ can_lock(waitings[job.i].quantity)
  /\ waitings' = RemoveAt(waitings, job.i)
  /\ \/ ScanGrant(waitings[job.i].conn) /\ AddHolder(waitings[job.i])
     \/ ScanAbort(waitings[job.i].conn) /\ UNCHANGED <<locked, holders>>

Waitings == Scanning /\ (WaitingsEnd \/ WaitingsSkip \/ WaitingsPop)

Next ==
  \/ Peers({"UNLOCK"}) /\ UNCHANGED <<locked, holders, waitings>>
  \/ \E c \in Conn : Lock(c)
  \/ \E c \in Conn, path \in CleanPath : Clean(c, path)
  \/ Waitings

Spec == Init /\ [][Next]_vars

-------------------------------------------------------------------------------
(***************************************************************************)
(* Properties.                                                             *)
(***************************************************************************)

\* The counter is a number of units, the lists hold records of connections and
\* quantities.
TypeOK ==
  /\ LockerTypeOK
  /\ locked \in Int
  /\ holders \in Seq(Entry)
  /\ waitings \in Seq(Entry)

\* The units the records of a list have taken.
Sum(s) ==
  LET upTo[k \in 0..Len(s)] == IF k = 0 THEN 0 ELSE upTo[k - 1] + s[k].quantity
  IN  upTo[Len(s)]

\* locked_quantity, which inmsg, clean and waitings update apart from the list,
\* is what the holders have taken together, after any mix of grants, aborted
\* scans and second cleans.
QuantityAccounted == locked = Sum(holders)

\* Never more units are out than the resource has.
NeverOvercommitted == Sum(holders) <= Total

\* When the thread is back in poll() after a scan that ran to its end, no request
\* in the queue fits in what is left, even if the one in front of it is larger.
NoLostWakeup ==
  Polling /\ ~aborted =>
    \A k \in DOMAIN waitings : ~can_lock(waitings[k].quantity)

\* Whoever waits can be served once everybody else has left: a client is never
\* enqueued for more than the resource has, where it would wait for ever.
WaitersCanBeServed == \A k \in DOMAIN waitings : waitings[k].quantity <= Total

\* A live client knows what it holds: it was told OK exactly when its units are
\* accounted for, and LOCK_ENQUEUED exactly when it is in the queue.
AnswersHonoured ==
  thread # "dead" =>
    \A c \in Conn : conn[c] = "open" /\ peer[c] = "up" =>
      /\ answer[c] = "OK" <=> HasEntry(holders, c)
      /\ answer[c] = "LOCK_ENQUEUED" <=> HasEntry(waitings, c)

\* The units out are those of the holders, are there, and are known to their clients.
Accounted ==
  /\ TypeOK
  /\ QuantityAccounted
  /\ NeverOvercommitted
  /\ AnswersHonoured

\* Who waits can be served, and is as soon as a scan finds room for it.
NobodyStranded ==
  /\ NoLostWakeup
  /\ WaitersCanBeServed
===============================================================================
