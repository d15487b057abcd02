--------------------------- MODULE ResourceSequence ---------------------------
(***************************************************************************)
(* A sequence: every holder of one of its Total locks gets a number of its *)
(* own (flom_resource_sequence.c).  If the sequence is transactional, the  *)
(* number of a holder that does not commit is given to a later one.        *)
(***************************************************************************)
EXTENDS Locker

CONSTANTS Total,   \* the number in the brackets of the resource's name
          Guint    \* the values of a guint are 0..(Guint - 1): 2^32 in the code

ASSUME SequenceAssumption == Total \in Nat /\ Guint \in Nat /\ Guint > 2

VARIABLES transactional,  \* the prefix of the name is _S_ and not _s_
          locked,         \* locked_quantity
          next_value,     \* a guint
          rolled_back,    \* the GQueue of the values to use again
          holders,        \* the GSList of granted locks, the newest first
          waitings,       \* the GQueue of enqueued requests, the oldest first
          committed,      \* the values whose holder is done (history)
          wrapped         \* the counter has started again from 1 (history)

seqVars == <<transactional, locked, next_value, rolled_back, holders, waitings,
             committed, wrapped>>
vars == <<lockerVars, seqVars>>

Value == 0..(Guint - 1)
Holder == [conn : Conn, value : Value]
Waiter == [conn : Conn]

can_lock == Total - locked > 0

Init ==
  /\ LockerInit
  /\ transactional \in BOOLEAN
  /\ locked = 0
  /\ next_value = 1
  /\ rolled_back = <<>>
  /\ holders = <<>>
  /\ waitings = <<>>
  /\ committed = {}
  /\ wrapped = FALSE

\* Mutant of get: 0 is a value like the others.
get_zero(v) ==
  \/ /\ rolled_back # <<>>
     /\ v = Head(rolled_back)
     /\ rolled_back' = Tail(rolled_back)
     /\ UNCHANGED <<next_value, wrapped>>
  \/ /\ rolled_back = <<>>
     /\ v = next_value
     /\ next_value' = (v + 1) % Guint
     /\ wrapped' = (wrapped \/ next_value = 0)
     /\ UNCHANGED rolled_back

\* flom_resource_sequence_get returns v: a rolled back value if there is one,
\* else the next one, 0 excepted.
get(v) ==
  \/ /\ rolled_back # <<>>
     /\ v = Head(rolled_back)
     /\ rolled_back' = Tail(rolled_back)
     /\ UNCHANGED <<next_value, wrapped>>
  \/ /\ rolled_back = <<>>
     /\ v = IF next_value = 0 THEN 1 ELSE next_value
     /\ next_value' = (v + 1) % Guint
     /\ wrapped' = (wrapped \/ next_value = 0)
     /\ UNCHANGED rolled_back

AddHolder(c, v) ==
  /\ holders' = <<[conn |-> c, value |-> v]>> \o holders
  /\ locked' = locked + 1

LockGrant(c) ==
  /\ can_lock
  /\ \E v \in Value : get(v) /\ AddHolder(c, v)
  /\ VfsAdd("holders", c)
  /\ Reply(c, "OK")
  /\ UNCHANGED <<transactional, waitings, committed>>

LockEnqueue(c) ==
  /\ ~can_lock
  /\ ask[c].wait
  /\ waitings' = Append(waitings, [conn |-> c])
  /\ VfsAdd("waitings", c)
  /\ Reply(c, "LOCK_ENQUEUED")
  /\ UNCHANGED <<transactional, locked, next_value, rolled_back, holders, committed, wrapped>>

LockBusy(c) ==
  /\ ~can_lock
  /\ ~ask[c].wait
  /\ Reply(c, "LOCK_BUSY")
  /\ UNCHANGED <<vfs, seqVars>>

Lock(c) ==
  /\ CanRead(c, "LOCK")
  /\ LockGrant(c) \/ LockEnqueue(c) \/ LockBusy(c)

\* The rollback flag of a holder is TRUE until an UNLOCK message says otherwise,
\* and inmsg goes from that message straight to clean.
Rollback(c, path) == ~(path = "unlock" /\ inbox[c] = "UNLOCK")

\* Mutant of Settle: only an explicit rollback gives the value back.
SettleExplicit(v, c, path) ==
  IF transactional /\ path = "unlock" /\ inbox[c] = "ROLLBACK"
  THEN rolled_back' = Append(rolled_back, v) /\ UNCHANGED committed
  ELSE committed' = committed /\ UNCHANGED rolled_back

\* What becomes of the value v of a holder that leaves.
Settle(v, c, path) ==
  IF transactional /\ Rollback(c, path)
  THEN rolled_back' = Append(rolled_back, v) /\ UNCHANGED committed
  ELSE committed' = committed \cup {v} /\ UNCHANGED rolled_back

CleanHolder(c, path) ==
  \E k \in DOMAIN holders :
    /\ IsFirstOf(holders, k, c)
    /\ Settle(holders[k].value, c, path)
    /\ holders' = RemoveAt(holders, k)
    /\ locked' = locked - 1
    /\ UNCHANGED <<transactional, next_value, waitings, wrapped>>
    /\ StartScan(c, path)

CleanWaiter(c, path) ==
  /\ \/ \E k \in DOMAIN waitings :
          /\ IsFirstOf(waitings, k, c)
          /\ waitings' = RemoveAt(waitings, k)
     \/ ~HasEntry(waitings, c) /\ UNCHANGED waitings
  /\ UNCHANGED <<transactional, locked, next_value, rolled_back, holders, committed, wrapped>>
  /\ EndClean(c, path)

\* (inmsg refuses an UNLOCK message of a connection that is not a holder; the
\* invariant UnlockFromHolder says that none comes.)
Clean(c, path) ==
  /\ CleanEvent(c, path)
  /\ \/ CleanHolder(c, path)
     \/ ~HasEntry(holders, c) /\ CleanWaiter(c, path)

\* A turn of the loop of waitings.
WaitingsEnd ==
  /\ job.i > Len(waitings)
  /\ ScanEnd
  /\ UNCHANGED seqVars

WaitingsSkip ==
  /\ job.i \in DOMAIN waitings
  /\ ~can_lock
  /\ ScanSkip
  /\ UNCHANGED seqVars

\* The value is taken before the grant is sent: if that fails it is gone.
WaitingsPop ==
  /\ job.i \in DOMAIN waitings
  /\ can_lock
  /\ waitings' = RemoveAt(waitings, job.i)
  /\ \E v \in Value :
       /\ get(v)
       /\ \/ /\ ScanGrant(waitings[job.i].conn)
             /\ AddHolder(waitings[job.i].conn, v)
          \/ /\ ScanAbort(waitings[job.i].conn)
             /\ UNCHANGED <<locked, holders>>
  /\ UNCHANGED <<transactional, committed>>

Waitings == Scanning /\ (WaitingsEnd \/ WaitingsSkip \/ WaitingsPop)

Next ==
  \/ Peers({"UNLOCK", "ROLLBACK"}) /\ UNCHANGED seqVars
  \/ \E c \in Conn : Lock(c)
  \/ \E c \in Conn, path \in CleanPath : Clean(c, path)
  \/ Waitings

Spec == Init /\ [][Next]_vars

\* The thread serves every descriptor poll() reports: a pass over them stops
\* early only when a connection is closed, and each is closed once.
Fairness ==
  /\ \A c \in Conn : WF_vars(Lock(c)) /\ WF_vars(\E p \in CleanPath : Clean(c, p))
  /\ WF_vars(Waitings)

-------------------------------------------------------------------------------
(***************************************************************************)
(* Properties.                                                             *)
(***************************************************************************)

\* Counters, values and lists are well typed.
TypeOK ==
  /\ LockerTypeOK
  /\ transactional \in BOOLEAN
  /\ locked \in Nat
  /\ next_value \in Value
  /\ rolled_back \in Seq(Value)
  /\ holders \in Seq(Holder)
  /\ waitings \in Seq(Waiter)
  /\ committed \subseteq Value
  /\ wrapped \in BOOLEAN

Held == {holders[k].value : k \in DOMAIN holders}
Reusable == {rolled_back[k] : k \in DOMAIN rolled_back}

\* A number belongs to one holder: it is not handed out again while the lock is
\* held, nor after a commit, and once after a rollback (get, clean, waitings), so
\* long as the counter has not wrapped around.
ValuesUnique ==
  ~wrapped =>
    /\ Cardinality(Held) = Len(holders)
    /\ Cardinality(Reusable) = Len(rolled_back)
    /\ Held \cap Reusable = {}
    /\ (Held \cup Reusable) \cap committed = {}

\* Each number produced so far is held, committed, or to be used again.
NoHole ==
  LET last == IF next_value = 0 THEN Guint - 1 ELSE next_value - 1
  IN 1..last \subseteq Held \cup Reusable \cup committed

\* A transactional sequence has no holes but those made by aborted scans, which
\* have taken a number for a client that could not be told.
HolesOnlyFromAborts ==
  [][ transactional /\ ~wrapped' /\ NoHole /\ ~NoHole' => aborted' ]_vars

\* locked_quantity, updated apart from the list, is the number of the holders,
\* and the resource has room for them.
LocksAccounted == locked = Len(holders) /\ locked <= Total

\* 0 is never handed out, not even when the counter wraps around: in the queue of
\* rolled back values it would read as the end of the queue.
NoZeroValue == 0 \notin Held \cup Reusable

\* When the thread is back in poll() after a scan that ran to its end, nobody
\* waits while there is room.
NoLostWakeup == Polling /\ ~aborted => waitings = <<>> \/ ~can_lock

\* An UNLOCK message comes from a holder, so the error of inmsg for one that does
\* not (OBJ_CORRUPTED, which would close the connection) is never met.
UnlockFromHolder ==
  \A c \in Conn : conn[c] = "open" /\ inbox[c] \in {"UNLOCK", "ROLLBACK"} =>
    HasEntry(holders, c)

\* get hands out numbers of its own to everybody, never 0, also around the end of the
\* counter and after rollbacks.
ValuesSound ==
  /\ TypeOK
  /\ ValuesUnique
  /\ NoZeroValue

\* The locks counted are those of the holders, who alone unlock, and nobody waits for
\* one that is free.
LocksServed ==
  /\ LocksAccounted
  /\ UnlockFromHolder
  /\ NoLostWakeup
===============================================================================
