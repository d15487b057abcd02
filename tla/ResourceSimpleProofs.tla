------------------------- MODULE ResourceSimpleProofs -------------------------
(***************************************************************************)
(* Proofs about ResourceSimple, for any set of connections, any choice of  *)
(* lock modes, and whether or not programs retry a lock that timed out.    *)
(***************************************************************************)
EXTENDS SimpleService, LockerProofs

-------------------------------------------------------------------------------
(* Type correctness. *)

\* inmsg on a LOCK message keeps the types.
LEMMA LockType ==
  ASSUME TypeOK, NEW c \in Conn, Lock(c)
  PROVE  TypeOK'
  <1>1. EntryOf(c) \in Entry
    BY DEF TypeOK, LockerTypeOK, Ask, EntryOf, Entry
  <1>2. /\ holders' \in Seq(Entry)
        /\ waitings' \in Seq(Entry)
    <2>1. CASE LockGrant(c)
      BY <1>1, <2>1, PrependProperties DEF LockGrant, AddHolder, TypeOK
    <2>2. CASE LockEnqueue(c)
      BY <1>1, <2>2, AppendProperties DEF LockEnqueue, TypeOK
    <2>3. CASE LockBusy(c)
      BY <2>3 DEF LockBusy, TypeOK
    <2>4. QED
      BY <2>1, <2>2, <2>3 DEF Lock
  <1>3. vfs' \subseteq VfsNode
    BY DEF Lock, LockGrant, LockEnqueue, LockBusy, VfsAdd, VfsNode, TypeOK,
           LockerTypeOK
  <1>4. PICK rc \in Answer : Reply(c, rc)
    BY DEF Lock, LockGrant, LockEnqueue, LockBusy, Answer
  <1>5. LockerTypeOK'
    BY <1>3, <1>4, ReplyType DEF TypeOK
  <1>6. QED
    BY <1>2, <1>5 DEF TypeOK

\* clean keeps the types, whoever calls it.
LEMMA CleanType ==
  ASSUME TypeOK, NEW c \in Conn, NEW path \in CleanPath, Clean(c, path)
  PROVE  TypeOK'
  <1>1. CASE CleanHolder(c, path)
    <2>1. PICK k \in DOMAIN holders :
            /\ holders' = RemoveAt(holders, k)
            /\ UNCHANGED waitings
            /\ StartScan(c, path)
      BY <1>1 DEF CleanHolder
    <2>2. LockerTypeOK'
      BY <2>1, StartScanType DEF TypeOK
    <2>3. holders' \in Seq(Entry)
      BY <2>1, RemoveAtProperties DEF TypeOK
    <2>4. QED
      BY <2>1, <2>2, <2>3 DEF TypeOK
  <1>2. CASE CleanWaiter(c, path)
    <2>1. LockerTypeOK'
      BY <1>2, EndCleanType DEF CleanWaiter, TypeOK
    <2>2. waitings' \in Seq(Entry)
      BY <1>2, RemoveAtProperties DEF CleanWaiter, TypeOK
    <2>3. QED
      BY <1>2, <2>1, <2>2 DEF CleanWaiter, TypeOK
  <1>3. QED
    BY <1>1, <1>2 DEF Clean

\* Every turn of the scan keeps the types.
LEMMA WaitingsType ==
  ASSUME TypeOK, Waitings
  PROVE  TypeOK'
  <1>1. LockerTypeOK /\ Scanning
    BY DEF TypeOK, Waitings
  <1>2. CASE WaitingsEnd \/ WaitingsSkip
    <2>1. job.conn \in Conn
      BY <1>1, JobFields DEF Scanning
    <2>2. LockerTypeOK'
      BY <1>1, <1>2, <2>1, ScanType DEF WaitingsEnd, WaitingsSkip
    <2>3. UNCHANGED <<holders, waitings>>
      BY <1>2 DEF WaitingsEnd, WaitingsSkip
    <2>4. QED
      BY <2>2, <2>3 DEF TypeOK
  <1>3. CASE WaitingsPop
    <2>1. waitings[job.i] \in Entry /\ waitings[job.i].conn \in Conn
      <3>1. waitings[job.i] \in Entry
        BY <1>3, ElementOfSeq, LenProperties DEF WaitingsPop, TypeOK
      <3>2. QED
        BY <3>1 DEF Entry
    <2>2. LockerTypeOK'
      BY <1>1, <1>3, <2>1, ScanType DEF WaitingsPop
    <2>3. waitings' \in Seq(Entry)
      BY <1>3, RemoveAtProperties DEF WaitingsPop, TypeOK
    <2>4. holders' \in Seq(Entry)
      <3>1. holders \in Seq(Entry)
        BY DEF TypeOK
      <3>2. <<waitings[job.i]>> \o holders \in Seq(Entry)
        BY <2>1, <3>1, PrependProperties
      <3>3. holders' = <<waitings[job.i]>> \o holders \/ holders' = holders
        BY <1>3 DEF WaitingsPop, AddHolder
      <3>4. QED
        BY <3>1, <3>2, <3>3
    <2>5. QED
      BY <2>2, <2>3, <2>4 DEF TypeOK
  <1>4. QED
    BY <1>2, <1>3 DEF Waitings

\* Every step keeps the types.
LEMMA TypeStep ==
  ASSUME TypeOK, [Next]_vars
  PROVE  TypeOK'
  <1>1. CASE Peers({"UNLOCK"}) /\ UNCHANGED <<holders, waitings>>
    <2>1. LockerTypeOK'
      BY <1>1, PeersType DEF TypeOK, MsgVerb
    <2>2. QED
      BY <1>1, <2>1 DEF TypeOK
  <1>2. ASSUME NEW c \in Conn, Lock(c)
        PROVE  TypeOK'
    BY <1>2, LockType
  <1>3. ASSUME NEW c \in Conn, NEW path \in CleanPath, Clean(c, path)
        PROVE  TypeOK'
    BY <1>3, CleanType
  <1>4. CASE Waitings
    BY <1>4, WaitingsType
  <1>5. CASE UNCHANGED vars
    BY <1>5 DEF vars, lockerVars, TypeOK, LockerTypeOK
  <1>6. QED
    BY <1>1, <1>2, <1>3, <1>4, <1>5 DEF Next

\* The lists hold only records of connections and modes, and the variables of the
\* thread keep their types: flom_locker_loop and the callbacks of a simple
\* resource are well typed for every set of connections.
THEOREM TypeCorrect == Spec => []TypeOK
  <1>1. Init => TypeOK
    BY LockerInitType, EmptySeq DEF Init, TypeOK
  <1>2. TypeOK /\ [Next]_vars => TypeOK'
    BY TypeStep
  <1>3. QED
    BY <1>1, <1>2, PTL DEF Spec

-------------------------------------------------------------------------------
(* Granted locks are compatible. *)

\* The lock table is symmetric: it does not matter who came first.
LEMMA CompatibleSymmetric ==
  ASSUME NEW a \in Request, NEW b \in Request, Compatible(a, b)
  PROVE  Compatible(b, a)
  <1>1. a \in 0..5 /\ b \in 0..5
    BY ModeAssumption
  <1>2. QED
    BY <1>1 DEF Compatible, lock_table

\* A request that can_lock accepts can join the holders.
LEMMA AddHolderCompatible ==
  ASSUME TypeOK, HoldersCompatible, NEW e \in Entry, can_lock(e.mode), AddHolder(e)
  PROVE  HoldersCompatible'
  <1> DEFINE new == <<e>> \o holders
  <1>1. holders' = new
    BY DEF AddHolder
  <1>2. /\ Len(holders) \in Nat
        /\ DOMAIN holders = 1..Len(holders)
        /\ \A k \in 1..Len(holders) : holders[k] \in Entry
    BY ElementOfSeq, LenProperties DEF TypeOK
  <1>3. /\ DOMAIN new = 1..(Len(holders) + 1)
        /\ \A k \in 1..(Len(holders) + 1) :
             new[k] = IF k = 1 THEN e ELSE holders[k - 1]
    BY PrependProperties DEF TypeOK
  <1> HIDE DEF new
  <1>4. \A k \in 1..Len(holders) : /\ Compatible(holders[k].mode, e.mode)
                                   /\ Compatible(e.mode, holders[k].mode)
    BY <1>2, CompatibleSymmetric DEF can_lock, Entry
  <1>5. ASSUME NEW j \in 1..(Len(holders) + 1), NEW k \in 1..(Len(holders) + 1), j # k
        PROVE  Compatible(new[j].mode, new[k].mode)
    <2>1. CASE j = 1
      <3>1. k - 1 \in 1..Len(holders) /\ new[j] = e /\ new[k] = holders[k - 1]
        BY <1>2, <1>3, <1>5, <2>1
      <3>2. QED BY <1>4, <3>1
    <2>2. CASE k = 1
      <3>1. j - 1 \in 1..Len(holders) /\ new[k] = e /\ new[j] = holders[j - 1]
        BY <1>2, <1>3, <1>5, <2>2
      <3>2. QED BY <1>4, <3>1
    <2>3. CASE j # 1 /\ k # 1
      <3>1. /\ j - 1 \in 1..Len(holders) /\ new[j] = holders[j - 1]
            /\ k - 1 \in 1..Len(holders) /\ new[k] = holders[k - 1]
            /\ j - 1 # k - 1
        BY <1>2, <1>3, <1>5, <2>3
      <3>2. QED BY <1>2, <3>1 DEF HoldersCompatible
    <2>4. QED BY <2>1, <2>2, <2>3
  <1>6. QED
    BY <1>1, <1>3, <1>5 DEF HoldersCompatible

\* Any holder can leave.
LEMMA RemoveHolderCompatible ==
  ASSUME TypeOK, HoldersCompatible, NEW k \in DOMAIN holders,
         holders' = RemoveAt(holders, k)
  PROVE  HoldersCompatible'
  <1> DEFINE new == RemoveAt(holders, k)
  <1>1. Len(holders) \in Nat /\ DOMAIN holders = 1..Len(holders)
    BY LenProperties DEF TypeOK
  <1>2. /\ DOMAIN new = 1..(Len(holders) - 1)
        /\ \A j \in 1..(Len(holders) - 1) :
             new[j] = IF j < k THEN holders[j] ELSE holders[j + 1]
    BY RemoveAtProperties DEF TypeOK
  <1> HIDE DEF new
  <1>3. ASSUME NEW i \in 1..(Len(holders) - 1), NEW j \in 1..(Len(holders) - 1), i # j
        PROVE  Compatible(new[i].mode, new[j].mode)
    <2> DEFINE oi == IF i < k THEN i ELSE i + 1
               oj == IF j < k THEN j ELSE j + 1
    <2>1. oi \in DOMAIN holders /\ oj \in DOMAIN holders /\ oi # oj
      BY <1>1, <1>3
    <2>2. new[i] = holders[oi] /\ new[j] = holders[oj]
      BY <1>2
    <2>3. QED
      BY <2>1, <2>2 DEF HoldersCompatible
  <1>4. QED
    BY <1>2, <1>3 DEF new, HoldersCompatible

\* Two granted locks are always compatible in the DLM table: no interleaving of
\* requests, releases, dying peers, aborted scans and second cleans lets can_lock
\* miss a holder.
THEOREM MutualExclusion == Spec => []HoldersCompatible
  <1>1. Init => HoldersCompatible
    BY DEF Init, HoldersCompatible
  <1>2. TypeOK /\ HoldersCompatible /\ [Next]_vars => HoldersCompatible'
    <2> SUFFICES ASSUME TypeOK, HoldersCompatible, [Next]_vars
                 PROVE  HoldersCompatible'
      OBVIOUS
    <2>1. CASE UNCHANGED holders
      BY <2>1 DEF HoldersCompatible
    <2>2. ASSUME NEW c \in Conn, Lock(c)
          PROVE  HoldersCompatible'
      <3>1. CASE LockGrant(c)
        <4>1. EntryOf(c) \in Entry /\ EntryOf(c).mode = ask[c].req
          BY DEF TypeOK, LockerTypeOK, Ask, EntryOf, Entry
        <4>2. QED
          BY <3>1, <4>1, AddHolderCompatible DEF LockGrant
      <3>2. QED
        BY <2>1, <2>2, <3>1 DEF Lock, LockEnqueue, LockBusy
    <2>3. ASSUME NEW c \in Conn, NEW path \in CleanPath, Clean(c, path)
          PROVE  HoldersCompatible'
      BY <2>1, <2>3, RemoveHolderCompatible DEF Clean, CleanHolder, CleanWaiter
    <2>4. CASE Waitings
      <3>1. CASE WaitingsPop
        <4>1. waitings[job.i] \in Entry
          BY <3>1, ElementOfSeq, LenProperties DEF WaitingsPop, TypeOK
        <4>2. QED
          BY <2>1, <3>1, <4>1, AddHolderCompatible DEF WaitingsPop
      <3>2. QED
        BY <2>1, <2>4, <3>1 DEF Waitings, WaitingsEnd, WaitingsSkip
    <2>5. QED
      BY <2>1, <2>2, <2>3, <2>4 DEF Next, vars
  <1>3. QED
    BY <1>1, <1>2, TypeCorrect, PTL DEF Spec

-------------------------------------------------------------------------------
(* No lost wakeup. *)

\* Blocked: ~can_lock, the holders a parameter.  ScanInv, what the scan knows: the entries behind the cursor could not be served, and
\* between two scans nobody can be, unless the last one was aborted.
Blocked(locks, mode) == \E k \in DOMAIN locks : ~Compatible(locks[k].mode, mode)

ScanInv ==
  thread = "loop" =>
    /\ Scanning => \A k \in DOMAIN waitings :
                     k < job.i => Blocked(holders, waitings[k].mode)
    /\ ~Scanning /\ ~aborted => \A k \in DOMAIN waitings :
                                 Blocked(holders, waitings[k].mode)

\* A new holder never makes a lock possible that was not.
LEMMA CanLockShrinks ==
  ASSUME TypeOK, NEW e \in Entry, AddHolder(e), NEW mode, Blocked(holders, mode)
  PROVE  Blocked(holders', mode)
  <1>1. PICK k \in DOMAIN holders : ~Compatible(holders[k].mode, mode)
    BY DEF Blocked
  <1>2. k \in 1..Len(holders) /\ Len(holders) \in Nat
    BY LenProperties DEF TypeOK
  <1>3. k + 1 \in DOMAIN holders' /\ holders'[k + 1] = holders[k]
    BY <1>2, PrependProperties DEF AddHolder, TypeOK
  <1>4. QED
    BY <1>1, <1>3 DEF Blocked

\* The queue without one entry has no entry the queue did not have; those in
\* front of the removed one keep their place.
LEMMA PopKeepsEntries ==
  ASSUME TypeOK, NEW k \in DOMAIN waitings, waitings' = RemoveAt(waitings, k)
  PROVE  /\ \A j \in DOMAIN waitings' : \E i \in DOMAIN waitings :
               waitings'[j] = waitings[i]
         /\ \A j \in DOMAIN waitings' : j < k =>
               j \in DOMAIN waitings /\ waitings'[j] = waitings[j]
  <1>1. Len(waitings) \in Nat /\ DOMAIN waitings = 1..Len(waitings)
    BY LenProperties DEF TypeOK
  <1>2. /\ DOMAIN waitings' = 1..(Len(waitings) - 1)
        /\ \A j \in 1..(Len(waitings) - 1) :
             waitings'[j] = IF j < k THEN waitings[j] ELSE waitings[j + 1]
    BY RemoveAtProperties DEF TypeOK
  <1>3. ASSUME NEW j \in DOMAIN waitings'
        PROVE  j \in DOMAIN waitings /\ j + 1 \in DOMAIN waitings
    BY <1>1, <1>2
  <1>4. QED
    BY <1>2, <1>3

\* inmsg between two scans.
LEMMA LockScanInv ==
  ASSUME TypeOK, ScanInv, NEW c \in Conn, Lock(c)
  PROVE  ScanInv'
  <1>1. thread = "loop" /\ ~Scanning
    BY DEF Lock, CanRead, Polling, Scanning
  <1>2. aborted' = aborted /\ ~Scanning'
    BY <1>1 DEF Lock, LockGrant, LockEnqueue, LockBusy, Reply, CanRead, Polling, Scanning,
           Idle
  <1>3. SUFFICES ASSUME ~aborted, NEW k \in DOMAIN waitings'
                 PROVE  Blocked(holders', waitings'[k].mode)
    BY <1>2 DEF ScanInv
  <1>4. \A j \in DOMAIN waitings : Blocked(holders, waitings[j].mode)
    BY <1>1, <1>3 DEF ScanInv
  <1>5. CASE LockGrant(c)
    <2>1. EntryOf(c) \in Entry
      BY DEF TypeOK, LockerTypeOK, Ask, EntryOf, Entry
    <2>2. waitings' = waitings /\ AddHolder(EntryOf(c))
      BY <1>5 DEF LockGrant
    <2>3. Blocked(holders, waitings[k].mode)
      BY <1>4, <2>2
    <2>4. QED
      BY <2>1, <2>2, <2>3, CanLockShrinks
  <1>6. CASE LockEnqueue(c)
    <2>1. EntryOf(c) \in Entry /\ EntryOf(c).mode = ask[c].req
      BY DEF TypeOK, LockerTypeOK, Ask, EntryOf, Entry
    <2>2. /\ Len(waitings) \in Nat
          /\ DOMAIN waitings = 1..Len(waitings)
          /\ DOMAIN waitings' = 1..(Len(waitings) + 1)
          /\ waitings'[Len(waitings) + 1] = EntryOf(c)
          /\ \A j \in 1..Len(waitings) : waitings'[j] = waitings[j]
      BY <1>6, <2>1, AppendProperties, LenProperties DEF LockEnqueue, TypeOK
    <2>3. Blocked(holders, waitings'[k].mode)
      BY <1>4, <1>6, <2>1, <2>2 DEF LockEnqueue, Blocked, can_lock
    <2>4. QED
      BY <1>6, <2>3 DEF LockEnqueue
  <1>7. CASE LockBusy(c)
    BY <1>4, <1>7 DEF LockBusy
  <1>8. QED
    BY <1>5, <1>6, <1>7 DEF Lock

\* clean either starts a scan, with nothing behind the cursor, or shortens the
\* queue without touching the holders.
LEMMA CleanScanInv ==
  ASSUME TypeOK, ScanInv, NEW c \in Conn, NEW path \in CleanPath, Clean(c, path)
  PROVE  ScanInv'
  <1>1. thread = "loop" /\ ~Scanning
    BY DEF Clean, CleanEvent, HungUp, Scanning, CleanPath
  <1>2. CASE CleanHolder(c, path)
    <2>1. thread' = "loop" /\ job' = [path |-> path, conn |-> c, i |-> 1]
      BY <1>1, <1>2 DEF CleanHolder, StartScan
    <2>2. Scanning' /\ job'.i = 1
      BY <2>1 DEF Scanning, Idle, CleanPath
    <2>3. \A k \in DOMAIN waitings' : ~(k < 1)
      BY CleanType, LenProperties DEF TypeOK
    <2>4. QED
      BY <2>2, <2>3 DEF ScanInv
  <1>3. CASE CleanWaiter(c, path)
    <2>1. thread' = "loop" /\ ~Scanning' /\ aborted' = aborted /\ holders' = holders
      BY <1>1, <1>3 DEF CleanWaiter, EndClean, Scanning
    <2>2. ASSUME NEW j \in DOMAIN waitings'
          PROVE  \E i \in DOMAIN waitings : waitings'[j] = waitings[i]
      BY <1>3, PopKeepsEntries DEF CleanWaiter
    <2>3. QED
      BY <1>1, <2>1, <2>2 DEF ScanInv
  <1>4. QED
    BY <1>2, <1>3 DEF Clean

\* A turn of the scan.
LEMMA WaitingsScanInv ==
  ASSUME TypeOK, ScanInv, Waitings
  PROVE  ScanInv'
  <1>1. /\ thread = "loop" /\ Scanning
        /\ \A k \in DOMAIN waitings : k < job.i => Blocked(holders, waitings[k].mode)
    BY DEF Waitings, Scanning, ScanInv
  <1>2. /\ job \in [path : {"unlock", "error", "second", "reclean", "timeout"},
                    conn : Conn, i : Nat]
        /\ job.i \in Nat
        /\ Len(waitings) \in Nat
        /\ DOMAIN waitings = 1..Len(waitings)
    BY <1>1, JobFields, LenProperties DEF TypeOK, Scanning
  <1>3. CASE WaitingsEnd
    <2>1. ~Scanning' /\ waitings' = waitings /\ holders' = holders
      BY <1>3 DEF WaitingsEnd, ScanEnd, Scanning
    <2>2. \A k \in DOMAIN waitings : Blocked(holders, waitings[k].mode)
      BY <1>1, <1>2, <1>3 DEF WaitingsEnd
    <2>3. QED
      BY <2>1, <2>2 DEF ScanInv
  <1>4. CASE WaitingsSkip
    <2>1. /\ waitings' = waitings /\ holders' = holders
          /\ thread' = "loop" /\ job' = [job EXCEPT !.i = @ + 1]
      BY <1>1, <1>4 DEF WaitingsSkip, ScanSkip
    <2>2. job'.i = job.i + 1 /\ job'.path = job.path
      BY <1>2, <2>1
    <2>3. Scanning'
      BY <1>1, <1>2, <2>1, <2>2 DEF Scanning, Idle
    <2>4. \A k \in DOMAIN waitings : k < job.i + 1 => Blocked(holders, waitings[k].mode)
      BY <1>1, <1>2, <1>4 DEF WaitingsSkip, Blocked, can_lock
    <2>5. QED
      BY <2>1, <2>2, <2>3, <2>4 DEF ScanInv
  <1>5. CASE WaitingsPop
    <2>1. /\ job.i \in DOMAIN waitings
          /\ waitings[job.i] \in Entry
          /\ waitings' = RemoveAt(waitings, job.i)
      BY <1>5, ElementOfSeq, LenProperties DEF WaitingsPop, TypeOK
    <2>2. CASE ScanGrant(waitings[job.i].conn) /\ AddHolder(waitings[job.i])
      <3>1. job' = job /\ Scanning'
        BY <1>1, <2>2 DEF ScanGrant, Scanning
      <3>2. ASSUME NEW k \in DOMAIN waitings', k < job.i
            PROVE  Blocked(holders', waitings'[k].mode)
        <4>1. k \in DOMAIN waitings /\ waitings'[k] = waitings[k]
          BY <2>1, <3>2, PopKeepsEntries
        <4>2. Blocked(holders, waitings[k].mode)
          BY <1>1, <3>2, <4>1
        <4>3. QED
          BY <2>1, <2>2, <4>1, <4>2, CanLockShrinks
      <3>3. QED
        BY <3>1, <3>2 DEF ScanInv
    <2>3. CASE ScanAbort(waitings[job.i].conn)
      <3>1. aborted' = TRUE /\ (job' = Idle \/ job'.path = "reclean")
        BY <2>3 DEF ScanAbort
      <3>2. ~Scanning'
        BY <3>1 DEF Scanning
      <3>3. QED
        BY <3>1, <3>2 DEF ScanInv
    <2>4. QED
      BY <1>5, <2>2, <2>3 DEF WaitingsPop
  <1>6. QED
    BY <1>3, <1>4, <1>5 DEF Waitings

\* Every step keeps what the scan knows.
LEMMA ScanStep ==
  ASSUME TypeOK, ScanInv, [Next]_vars
  PROVE  ScanInv'
  <1>1. CASE UNCHANGED <<thread, job, aborted, holders, waitings>>
    BY <1>1 DEF ScanInv, Scanning
  <1>2. CASE Peers({"UNLOCK"}) /\ UNCHANGED <<holders, waitings>>
    <2>1. UNCHANGED <<thread, job, aborted>>
      BY <1>2 DEF Peers, Transfer, RetryLock, Unlock, Disconnect, Crash
    <2> QED
      BY <1>1, <1>2, <2>1
  <1> QED
    BY <1>1, <1>2, LockScanInv, CleanScanInv, WaitingsScanInv DEF Next, vars, lockerVars

\* When the thread is back in poll() after scans that ran to their end, every
\* queued request conflicts with some holder: flom_resource_simple_waitings
\* forgets nobody, in one pass, however the queue and the holders look.
THEOREM WakeupsNotLost == Spec => []NoLostWakeup
  <1>1. Init => ScanInv
    BY DEF Init, LockerInit, ScanInv, Scanning
  <1>2. TypeOK /\ ScanInv /\ [Next]_vars => ScanInv'
    BY ScanStep
  <1>3. ScanInv => NoLostWakeup
    BY DEF ScanInv, NoLostWakeup, Polling, Scanning, Blocked, can_lock
  <1>4. QED
    BY <1>1, <1>2, <1>3, TypeCorrect, PTL DEF Spec

-------------------------------------------------------------------------------
(* The records of the lists, the answers and the status tree agree. *)

\* No connection has two records in a list, and the two lists tell the truth about
\* the connections in them.
ListsInv ==
  /\ Honest(Conns(holders), Conns(waitings))
  /\ Distinct(holders)
  /\ Distinct(waitings)

\* inmsg on a LOCK message: nobody who reads it has a record already.
LEMMA LockLists ==
  ASSUME TypeOK, ListsInv, NEW c \in Conn, Lock(c)
  PROVE  ListsInv'
  <1>1. /\ LockerTypeOK /\ CanRead(c, "LOCK")
        /\ holders \in Seq(Entry) /\ waitings \in Seq(Entry)
        /\ Honest(Conns(holders), Conns(waitings))
        /\ Distinct(holders) /\ Distinct(waitings)
    BY DEF TypeOK, ListsInv, Lock
  <1>2. EntryOf(c) \in Entry /\ EntryOf(c).conn = c
    BY <1>1 DEF LockerTypeOK, Ask, EntryOf, Entry
  <1>3. c \notin Conns(holders) /\ c \notin Conns(waitings)
    BY <1>1, HonestNewcomer
  <1>4. CASE LockGrant(c)
    <2>1. /\ holders' = <<EntryOf(c)>> \o holders /\ waitings' = waitings
          /\ Reply(c, "OK") /\ VfsAdd("holders", c)
      BY <1>4 DEF LockGrant, AddHolder
    <2>2. Distinct(holders') /\ Conns(holders') = Conns(holders) \cup {c}
      BY <1>1, <1>2, <1>3, <2>1, PrependedConn
    <2>3. Honest(Conns(holders), Conns(waitings))'
      BY <1>1, <2>1, <2>2, HonestReply DEF Answer
    <2> QED
      BY <1>1, <2>1, <2>2, <2>3 DEF ListsInv
  <1>5. CASE LockEnqueue(c)
    <2>1. /\ waitings' = Append(waitings, EntryOf(c)) /\ holders' = holders
          /\ Reply(c, "LOCK_ENQUEUED") /\ VfsAdd("waitings", c)
      BY <1>5 DEF LockEnqueue
    <2>2. Distinct(waitings') /\ Conns(waitings') = Conns(waitings) \cup {c}
      BY <1>1, <1>2, <1>3, <2>1, AppendedConn
    <2>3. Honest(Conns(holders), Conns(waitings))'
      BY <1>1, <2>1, <2>2, HonestReply DEF Answer
    <2> QED
      BY <1>1, <2>1, <2>2, <2>3 DEF ListsInv
  <1>6. CASE LockBusy(c)
    <2>1. Reply(c, "LOCK_BUSY") /\ UNCHANGED <<holders, waitings, vfs>>
      BY <1>6 DEF LockBusy
    <2>2. Honest(Conns(holders), Conns(waitings))'
      BY <1>1, <2>1, HonestReply DEF Answer
    <2> QED
      BY <1>1, <2>1, <2>2 DEF ListsInv
  <1> QED
    BY <1>4, <1>5, <1>6 DEF Lock

\* clean leaves its connection without a record in either list.
LEMMA CleanLists ==
  ASSUME TypeOK, ListsInv, NEW c \in Conn, NEW path \in CleanPath, Clean(c, path)
  PROVE  ListsInv'
  <1>1. /\ LockerTypeOK /\ CleanEvent(c, path)
        /\ holders \in Seq(Entry) /\ waitings \in Seq(Entry)
        /\ Honest(Conns(holders), Conns(waitings))
        /\ Distinct(holders) /\ Distinct(waitings)
    BY DEF TypeOK, ListsInv, Clean
  <1>2. CASE CleanHolder(c, path)
    <2>1. PICK k \in DOMAIN holders :
            /\ holders[k].conn = c
            /\ holders' = RemoveAt(holders, k)
            /\ UNCHANGED waitings
            /\ StartScan(c, path)
      BY <1>2 DEF CleanHolder, IsFirstOf
    <2>2. c \in Conns(holders)
      BY <2>1 DEF Conns
    <2>3. Distinct(holders') /\ Conns(holders') = Conns(holders) \ {c}
      BY <1>1, <2>1, RemovedConn
    <2>4. Honest(Conns(holders), Conns(waitings))'
      BY <1>1, <2>1, <2>2, <2>3, HonestRelease
    <2> QED
      BY <1>1, <2>1, <2>3, <2>4 DEF ListsInv
  <1>3. CASE ~HasEntry(holders, c) /\ CleanWaiter(c, path)
    <2>1. UNCHANGED holders /\ EndClean(c, path) /\ c \notin Conns(holders)
      BY <1>3, HasEntryConns DEF CleanWaiter
    <2>2. Distinct(waitings') /\ Conns(waitings') = Conns(waitings) \ {c}
      <3>1. CASE HasEntry(waitings, c)
        <4>1. PICK k \in DOMAIN waitings :
                waitings[k].conn = c /\ waitings' = RemoveAt(waitings, k)
          BY <1>3, <3>1 DEF CleanWaiter, IsFirstOf
        <4> QED
          BY <1>1, <4>1, RemovedConn
      <3>2. CASE ~HasEntry(waitings, c)
        <4>1. waitings' = waitings
          BY <1>3, <3>2 DEF CleanWaiter, IsFirstOf, HasEntry
        <4>2. c \notin Conns(waitings)
          BY <3>2, HasEntryConns
        <4> QED
          BY <1>1, <4>1, <4>2
      <3> QED
        BY <3>1, <3>2
    <2>3. Honest(Conns(holders), Conns(waitings))'
      BY <1>1, <2>1, <2>2, HonestWithdraw
    <2> QED
      BY <1>1, <2>1, <2>2, <2>3 DEF ListsInv
  <1> QED
    BY <1>2, <1>3 DEF Clean

\* Every turn of the scan moves one connection, or none.
LEMMA WaitingsLists ==
  ASSUME TypeOK, ListsInv, NoTimeout, Waitings
  PROVE  ListsInv'
  <1>1. /\ LockerTypeOK /\ Scanning /\ job.path # "timeout"
        /\ holders \in Seq(Entry) /\ waitings \in Seq(Entry)
        /\ Honest(Conns(holders), Conns(waitings))
        /\ Distinct(holders) /\ Distinct(waitings)
    BY DEF TypeOK, ListsInv, Waitings, Scanning, NoTimeout
  <1>2. CASE WaitingsEnd
    <2>1. ScanEnd /\ UNCHANGED <<holders, waitings>>
      BY <1>2 DEF WaitingsEnd
    <2>2. Honest(Conns(holders), Conns(waitings))'
      BY <1>1, <2>1, HonestScanEnd
    <2> QED
      BY <1>1, <2>1, <2>2 DEF ListsInv
  <1>3. CASE WaitingsSkip
    <2>1. ScanSkip /\ UNCHANGED <<holders, waitings>>
      BY <1>3 DEF WaitingsSkip
    <2>2. Honest(Conns(holders), Conns(waitings))'
      BY <1>1, <2>1, HonestScanSkip
    <2> QED
      BY <1>1, <2>1, <2>2 DEF ListsInv
  <1>4. CASE WaitingsPop
    <2> DEFINE e == waitings[job.i]
    <2>1. job.i \in DOMAIN waitings /\ waitings' = RemoveAt(waitings, job.i)
      BY <1>4 DEF WaitingsPop
    <2>2. e \in Entry /\ e.conn \in Conn
      <3>1. e \in Entry
        BY <1>1, <2>1, ElementOfSeq, LenProperties
      <3> QED
        BY <3>1 DEF Entry
    <2>3. e.conn \in Conns(waitings)
      BY <2>1 DEF Conns
    <2>4. Distinct(waitings') /\ Conns(waitings') = Conns(waitings) \ {e.conn}
      BY <1>1, <2>1, RemovedConn
    <2>5. e.conn \notin Conns(holders)
      BY <1>1, <2>2, <2>3 DEF Honest, HonestTo, Scanning
    <2>6. \/ ScanGrant(e.conn) /\ holders' = <<e>> \o holders
          \/ ScanAbort(e.conn) /\ UNCHANGED holders
      BY <1>4 DEF WaitingsPop, AddHolder
    <2> HIDE DEF e
    <2>7. CASE ScanGrant(e.conn) /\ holders' = <<e>> \o holders
      <3>1. Distinct(holders') /\ Conns(holders') = Conns(holders) \cup {e.conn}
        BY <1>1, <2>2, <2>5, <2>7, PrependedConn
      <3>2. Honest(Conns(holders), Conns(waitings))'
        BY <1>1, <2>2, <2>3, <2>4, <2>7, <3>1, HonestScanGrant
      <3> QED
        BY <2>4, <3>1, <3>2 DEF ListsInv
    <2>8. CASE ScanAbort(e.conn) /\ UNCHANGED holders
      <3>1. Honest(Conns(holders), Conns(waitings))'
        BY <1>1, <2>2, <2>3, <2>4, <2>8, HonestScanAbort
      <3> QED
        BY <1>1, <2>4, <2>8, <3>1 DEF ListsInv
    <2> QED
      BY <2>6, <2>7, <2>8
  <1> QED
    BY <1>2, <1>3, <1>4 DEF Waitings

\* No step of a simple resource starts a scan of the timeout callback.
LEMMA NoTimeoutKept ==
  ASSUME TypeOK, NoTimeout, [Next]_vars
  PROVE  NoTimeout'
  <1>1. LockerTypeOK
    BY DEF TypeOK
  <1>2. ASSUME NEW c \in Conn, Lock(c)
        PROVE  \E rc \in Answer : Reply(c, rc)
    BY <1>2 DEF Lock, LockGrant, LockEnqueue, LockBusy, Answer
  <1>3. ASSUME NEW c \in Conn, NEW path \in CleanPath, Clean(c, path)
        PROVE  StartScan(c, path) \/ EndClean(c, path)
    BY <1>3 DEF Clean, CleanHolder, CleanWaiter
  <1>4. CASE Waitings
    <2>1. Scanning /\ (ScanEnd \/ ScanSkip \/ \E e : ScanGrant(e) \/ ScanAbort(e))
      BY <1>4 DEF Waitings, WaitingsEnd, WaitingsSkip, WaitingsPop
    <2> QED
      BY <1>1, <2>1, NoTimeoutStep
  <1> QED
    BY <1>1, <1>2, <1>3, <1>4, NoTimeoutStep DEF Next, vars, lockerVars

\* Honest lists make every part of EntriesHonoured true.
LEMMA ListsHonoured ==
  ASSUME TypeOK, ListsInv
  PROVE  EntriesHonoured
  <1>1. /\ LockerTypeOK
        /\ holders \in Seq(Entry) /\ waitings \in Seq(Entry)
        /\ Distinct(holders) /\ Distinct(waitings)
        /\ Conns(holders) \subseteq Conn /\ Conns(waitings) \subseteq Conn
    <2>1. \A e \in Entry : e.conn \in Conn
      BY DEF Entry
    <2> QED
      BY <2>1, ConnsType DEF TypeOK, ListsInv
  <1>2. \A c \in Conn : /\ HonestTo(c, Conns(holders), Conns(waitings))
                        /\ ShownAs(c, Conns(holders), Conns(waitings))
    BY DEF ListsInv, Honest
  <1>3. NoDanglingEntry
    <2> SUFFICES ASSUME thread # "dead"
                 PROVE  LET all == holders \o waitings IN
                          /\ \A k \in DOMAIN all : conn[all[k].conn] = "open"
                          /\ \A j, k \in DOMAIN all : all[j].conn = all[k].conn => j = k
      BY DEF NoDanglingEntry
    <2> DEFINE all == holders \o waitings
               h == Len(holders)
    <2>1. h \in Nat /\ Len(waitings) \in Nat /\ DOMAIN holders = 1..h
          /\ DOMAIN waitings = 1..Len(waitings)
      BY <1>1, LenProperties
    <2>2. /\ DOMAIN all = 1..(h + Len(waitings))
          /\ \A k \in 1..(h + Len(waitings)) :
               all[k] = IF k <= h THEN holders[k] ELSE waitings[k - h]
      BY <1>1, ConcatProperties, LenProperties
    <2> HIDE DEF all, h
    <2>3. \A k \in DOMAIN all :
            \/ k \in DOMAIN holders /\ all[k] = holders[k]
            \/ k - h \in DOMAIN waitings /\ all[k] = waitings[k - h] /\ k \notin DOMAIN holders
      BY <2>1, <2>2
    <2>4. \A c \in Conns(holders) \cup Conns(waitings) :
            conn[c] = "open" /\ ~(c \in Conns(holders) /\ c \in Conns(waitings))
      BY <1>1, <1>2 DEF HonestTo
    <2>5. \A k \in DOMAIN all :
            \/ k \in DOMAIN holders /\ all[k] = holders[k] /\ all[k].conn \in Conns(holders)
            \/ /\ k - h \in DOMAIN waitings /\ all[k] = waitings[k - h]
               /\ all[k].conn \in Conns(waitings)
      BY <2>3 DEF Conns
    <2>6. ASSUME NEW j \in DOMAIN all, NEW k \in DOMAIN all, all[j].conn = all[k].conn
          PROVE  j = k
      <3>1. CASE all[j].conn \in Conns(holders)
        BY <1>1, <2>4, <2>5, <2>6, <3>1 DEF Distinct
      <3>2. CASE all[j].conn \notin Conns(holders)
        <4>1. /\ j - h \in DOMAIN waitings /\ all[j] = waitings[j - h]
              /\ k - h \in DOMAIN waitings /\ all[k] = waitings[k - h]
          BY <2>5, <2>6, <3>2
        <4>2. j - h = k - h
          BY <1>1, <2>6, <4>1 DEF Distinct
        <4> QED
          BY <2>1, <2>2, <4>2
      <3> QED
        BY <3>1, <3>2
    <2> QED
      BY <2>4, <2>5, <2>6 DEF all
  <1>4. AnswersHonoured
    BY <1>2, HasEntryConns DEF AnswersHonoured, HonestTo
  <1>5. VfsMirror
    <2> SUFFICES ASSUME Polling
                 PROVE  VfsMirror
      BY DEF VfsMirror
    <2> DEFINE lists == {<<"holders", holders[k].conn>> : k \in DOMAIN holders} \cup
                        {<<"waitings", waitings[k].conn>> : k \in DOMAIN waitings}
    <2>1. /\ \A k \in DOMAIN holders : holders[k].conn \in Conns(holders)
          /\ \A k \in DOMAIN waitings : waitings[k].conn \in Conns(waitings)
      BY DEF Conns
    <2>2. \A c \in Conn :
            /\ c \in Conns(holders) => <<"holders", c>> \in vfs
            /\ c \in Conns(waitings) => <<"waitings", c>> \in vfs
            /\ <<"holders", c>> \in vfs =>
                 c \in Conns(holders) \/ (conn[c] = "open" /\ peer[c] = "gone")
            /\ <<"waitings", c>> \in vfs =>
                 c \in Conns(waitings) \/ (conn[c] = "open" /\ peer[c] = "gone")
      BY <1>2 DEF ShownAs, Polling, BusyWith
    <2>3. lists \subseteq vfs
      BY <1>1, <2>1, <2>2
    <2>4. ASSUME NEW n \in vfs \ lists
          PROVE  conn[n[2]] = "open" /\ peer[n[2]] = "gone"
      <3>1. PICK d \in {"holders", "waitings"}, c \in Conn : n = <<d, c>>
        BY <1>1, <2>4 DEF LockerTypeOK, VfsNode
      <3>2. /\ d = "holders" => c \notin Conns(holders)
            /\ d = "waitings" => c \notin Conns(waitings)
        BY <2>4, <3>1 DEF Conns
      <3> HIDE DEF lists
      <3>3. n[2] = c /\ <<d, c>> \in vfs
        BY <2>4, <3>1
      <3> QED
        BY <2>2, <3>1, <3>2, <3>3
    <2> QED
      BY <2>3, <2>4 DEF VfsMirror
  <1> QED
    BY <1>3, <1>4, <1>5 DEF EntriesHonoured

\* Both lists are empty at the beginning.
LEMMA ListsInit == Init => ListsInv /\ NoTimeout
  <1> SUFFICES ASSUME Init
               PROVE  ListsInv /\ NoTimeout
    OBVIOUS
  <1>1. Conns(holders) = {} /\ Conns(waitings) = {}
    BY DEF Init, Conns
  <1>2. Distinct(holders) /\ Distinct(waitings)
    BY DEF Init, Distinct
  <1>3. Honest({}, {}) /\ NoTimeout
    BY HonestInit DEF Init, LockerInit, NoTimeout
  <1> QED
    BY <1>1, <1>2, <1>3 DEF ListsInv

\* The induction of the theorem below.
LEMMA ListsStep ==
  ASSUME ~Retry, TypeOK, ListsInv, NoTimeout, [Next]_vars
  PROVE  ListsInv'
  <1>1. CASE Peers({"UNLOCK"}) /\ UNCHANGED <<holders, waitings>>
    <2>1. Honest(Conns(holders), Conns(waitings))'
      BY <1>1, HonestPeers DEF TypeOK, ListsInv
    <2> QED
      BY <1>1, <2>1 DEF ListsInv
  <1>2. CASE UNCHANGED vars
    BY <1>2 DEF vars, lockerVars, ListsInv, Honest, HonestTo, ShownAs, BusyWith, Conns,
                Distinct
  <1> QED
    BY <1>1, <1>2, LockLists, CleanLists, WaitingsLists DEF Next

\* While no program locks a handle again whose last call timed out, a record in the
\* lists belongs to an open connection and to each connection at most one, every live
\* client has what it was told, and the status tree shows the lists: through dying
\* peers, failed sends, aborted scans and second cleans (flom_resource_simple_inmsg,
\* _clean, _waitings and flom_locker_loop).
THEOREM EntriesKept ==
  ASSUME ~Retry
  PROVE  Spec => []EntriesHonoured
  <1>1. Init => ListsInv /\ NoTimeout
    BY ListsInit
  <1>2. TypeOK /\ ListsInv /\ NoTimeout /\ [Next]_vars => (ListsInv /\ NoTimeout)'
    BY ListsStep, NoTimeoutKept
  <1>3. TypeOK /\ ListsInv => EntriesHonoured
    BY ListsHonoured
  <1>4. QED
    BY <1>1, <1>2, <1>3, TypeCorrect, PTL DEF Spec

-------------------------------------------------------------------------------
(* A simple resource and its locker implement the lock service. *)

\* A record has the mode its connection asks for.
ModesInv ==
  /\ \A k \in DOMAIN holders : holders[k].mode = ask[holders[k].conn].req
  /\ \A k \in DOMAIN waitings : waitings[k].mode = ask[waitings[k].conn].req

\* No step changes what a connection asks for.
LEMMA AskKept ==
  ASSUME [Next]_vars
  PROVE  ask' = ask
  <1>1. Peers({"UNLOCK"}) => ask' = ask
    BY DEF Peers, Transfer, RetryLock, Unlock, Disconnect, Crash
  <1>2. \A c \in Conn : Lock(c) => ask' = ask
    BY DEF Lock, LockGrant, LockEnqueue, LockBusy, Reply
  <1>3. \A c \in Conn, path \in CleanPath : Clean(c, path) => ask' = ask
    BY DEF Clean, CleanHolder, CleanWaiter, StartScan, EndClean
  <1>4. Waitings => ask' = ask
    BY DEF Waitings, WaitingsEnd, WaitingsSkip, WaitingsPop, ScanEnd, ScanSkip,
           ScanGrant, ScanAbort
  <1> QED
    BY <1>1, <1>2, <1>3, <1>4 DEF Next, vars, lockerVars

\* Every step keeps the modes of the records.
LEMMA ModesKept ==
  ASSUME TypeOK, ModesInv, [Next]_vars
  PROVE  ModesInv'
  <1>1. ask' = ask
    BY AskKept
  <1>2. holders \in Seq(Entry) /\ waitings \in Seq(Entry)
    BY DEF TypeOK
  <1>3. ASSUME NEW c \in Conn, Lock(c)
        PROVE  ModesInv'
    <2>1. EntryOf(c) \in Entry /\ EntryOf(c).mode = ask[EntryOf(c).conn].req
      BY DEF TypeOK, LockerTypeOK, Ask, EntryOf, Entry
    <2>2. \/ holders' = <<EntryOf(c)>> \o holders /\ waitings' = waitings
          \/ holders' = holders /\ waitings' = Append(waitings, EntryOf(c))
          \/ holders' = holders /\ waitings' = waitings
      BY <1>3 DEF Lock, LockGrant, LockEnqueue, LockBusy, AddHolder
    <2>3. \A j \in DOMAIN holders' :
            holders'[j] = EntryOf(c) \/ \E i \in DOMAIN holders : holders'[j] = holders[i]
      BY <1>2, <2>1, <2>2, RecordsPrepended
    <2>4. \A j \in DOMAIN waitings' :
            waitings'[j] = EntryOf(c) \/ \E i \in DOMAIN waitings : waitings'[j] = waitings[i]
      BY <1>2, <2>1, <2>2, RecordsFrom
    <2> QED
      BY <1>1, <2>1, <2>3, <2>4 DEF ModesInv
  <1>4. ASSUME NEW c \in Conn, NEW path \in CleanPath, Clean(c, path)
        PROVE  ModesInv'
    <2>1. /\ holders' = holders \/ \E k \in DOMAIN holders : holders' = RemoveAt(holders, k)
          /\ waitings' = waitings \/ \E k \in DOMAIN waitings : waitings' = RemoveAt(waitings, k)
      BY <1>4 DEF Clean, CleanHolder, CleanWaiter
    <2>2. \A j \in DOMAIN holders' : \E i \in DOMAIN holders : holders'[j] = holders[i]
      BY <1>2, <2>1, RecordsFrom
    <2>3. \A j \in DOMAIN waitings' : \E i \in DOMAIN waitings : waitings'[j] = waitings[i]
      BY <1>2, <2>1, RecordsFrom
    <2> QED
      BY <1>1, <2>2, <2>3 DEF ModesInv
  <1>5. CASE Waitings
    <2>1. CASE WaitingsPop
      <3> DEFINE e == waitings[job.i]
      <3>1. /\ job.i \in DOMAIN waitings /\ waitings' = RemoveAt(waitings, job.i)
            /\ holders' = <<e>> \o holders \/ holders' = holders
        BY <2>1 DEF WaitingsPop, AddHolder
      <3>2. e \in Entry
        BY <1>2, <3>1, ElementOfSeq, LenProperties
      <3>3. e.mode = ask[e.conn].req
        BY <3>1 DEF ModesInv
      <3> HIDE DEF e
      <3>4. \A j \in DOMAIN waitings' : \E i \in DOMAIN waitings : waitings'[j] = waitings[i]
        BY <1>2, <3>1, RecordsFrom
      <3>5. \A j \in DOMAIN holders' :
              holders'[j] = e \/ \E i \in DOMAIN holders : holders'[j] = holders[i]
        <4>1. CASE holders' = <<e>> \o holders
          BY <1>2, <3>2, <4>1, RecordsPrepended
        <4>2. CASE holders' = holders
          BY <4>2
        <4> QED
          BY <3>1, <4>1, <4>2
      <3> QED
        BY <1>1, <3>3, <3>4, <3>5 DEF ModesInv
    <2>2. CASE UNCHANGED <<holders, waitings>>
      BY <1>1, <2>2 DEF ModesInv
    <2> QED
      BY <1>5, <2>1, <2>2 DEF Waitings, WaitingsEnd, WaitingsSkip
  <1>6. CASE UNCHANGED <<holders, waitings>>
    BY <1>1, <1>6 DEF ModesInv
  <1> QED
    BY <1>3, <1>4, <1>5, <1>6 DEF Next, vars

\* The queue of the service: the connections of a list of records.
Queue(s) == [k \in DOMAIN s |-> s[k].conn]

\* It is as long as the list.
LEMMA QueueProperties ==
  ASSUME NEW s \in Seq(Entry)
  PROVE  /\ Queue(s) \in Seq(Conn) /\ Len(Queue(s)) = Len(s)
         /\ DOMAIN Queue(s) = DOMAIN s
         /\ \A k \in DOMAIN s : Queue(s)[k] = s[k].conn
  <1>1. /\ Len(s) \in Nat /\ DOMAIN s = 1..Len(s)
        /\ \A k \in 1..Len(s) : s[k] \in Entry
    BY ElementOfSeq, LenProperties
  <1>2. Queue(s) \in [1..Len(s) -> Conn]
    BY <1>1 DEF Queue, Entry
  <1>3. Queue(s) \in Seq(Conn)
    BY <1>1, <1>2, SeqDef
  <1>4. Len(Queue(s)) = Len(s)
    BY <1>1, <1>2
  <1> QED
    BY <1>1, <1>3, <1>4 DEF Queue

\* Taking out a record is Without.
LEMMA QueueRemove ==
  ASSUME NEW s \in Seq(Entry), NEW k \in DOMAIN s
  PROVE  Queue(RemoveAt(s, k)) = Service!Without(Queue(s), k)
  <1> DEFINE new == RemoveAt(s, k)
             old == Queue(s)
             rest == RemoveAt(old, k)
  <1>1. /\ Len(s) \in Nat /\ DOMAIN s = 1..Len(s) /\ k \in 1..Len(s)
    BY LenProperties
  <1>2. /\ new \in Seq(Entry) /\ Len(new) = Len(s) - 1
        /\ DOMAIN new = 1..(Len(s) - 1)
        /\ \A j \in 1..(Len(s) - 1) : new[j] = IF j < k THEN s[j] ELSE s[j + 1]
    BY RemoveAtProperties
  <1>3. /\ old \in Seq(Conn) /\ Len(old) = Len(s) /\ k \in DOMAIN old
        /\ \A j \in 1..Len(s) : old[j] = s[j].conn
    BY <1>1, QueueProperties
  <1>4. /\ Queue(new) \in Seq(Conn) /\ Len(Queue(new)) = Len(s) - 1
        /\ \A j \in 1..(Len(s) - 1) : Queue(new)[j] = new[j].conn
    BY <1>2, QueueProperties
  <1> HIDE DEF old, new
  <1>5. /\ rest \in Seq(Conn) /\ Len(rest) = Len(s) - 1
        /\ \A j \in 1..(Len(s) - 1) : rest[j] = IF j < k THEN old[j] ELSE old[j + 1]
    BY <1>3, RemoveAtProperties
  <1> HIDE DEF rest
  <1>6. \A j \in 1..(Len(s) - 1) : j \in 1..Len(s) /\ j + 1 \in 1..Len(s)
    BY <1>1
  <1>7. \A j \in 1..(Len(s) - 1) : Queue(new)[j] = rest[j]
    BY <1>2, <1>3, <1>4, <1>5, <1>6
  <1>8. Queue(new) = rest
    BY <1>1, <1>4, <1>5, <1>7, SeqEqual
  <1>9. rest = Service!Without(old, k)
    BY DEF rest, Service!Without, RemoveAt
  <1> QED
    BY <1>8, <1>9 DEF new, old

\* A record at the end is its connection at the end.
LEMMA QueueAppend ==
  ASSUME NEW s \in Seq(Entry), NEW e \in Entry
  PROVE  Queue(Append(s, e)) = Append(Queue(s), e.conn)
  <1> DEFINE new == Append(s, e)
             old == Queue(s)
             more == Append(old, e.conn)
  <1>1. /\ Len(s) \in Nat /\ DOMAIN s = 1..Len(s)
    BY LenProperties
  <1>2. /\ new \in Seq(Entry) /\ Len(new) = Len(s) + 1
        /\ DOMAIN new = 1..(Len(s) + 1)
        /\ \A j \in 1..(Len(s) + 1) : new[j] = IF j = Len(s) + 1 THEN e ELSE s[j]
    BY AppendedProperties
  <1>3. /\ old \in Seq(Conn) /\ Len(old) = Len(s)
        /\ \A j \in 1..Len(s) : old[j] = s[j].conn
    BY <1>1, QueueProperties
  <1>4. /\ Queue(new) \in Seq(Conn) /\ Len(Queue(new)) = Len(s) + 1
        /\ \A j \in 1..(Len(s) + 1) : Queue(new)[j] = new[j].conn
    BY <1>2, QueueProperties
  <1> HIDE DEF old, new
  <1>5. /\ more \in Seq(Conn) /\ Len(more) = Len(s) + 1
        /\ \A j \in 1..(Len(s) + 1) : more[j] = IF j = Len(s) + 1 THEN e.conn ELSE old[j]
    BY <1>3, AppendedProperties DEF Entry
  <1> HIDE DEF more
  <1>6. \A j \in 1..(Len(s) + 1) : j = Len(s) + 1 \/ j \in 1..Len(s)
    BY <1>1
  <1>7. \A j \in 1..(Len(s) + 1) : Queue(new)[j] = more[j]
    BY <1>2, <1>3, <1>4, <1>5, <1>6
  <1>8. Queue(new) = more
    BY <1>1, <1>4, <1>5, <1>7, SeqEqual
  <1> QED
    BY <1>8 DEF new, old, more

\* While the thread lives, what the service calls grantable is what can_lock accepts.
LEMMA GrantableIsCanLock ==
  ASSUME TypeOK, ModesInv, Alive, NEW c \in Conn
  PROVE  Service!Grantable(c) <=> can_lock(ask[c].req)
  <1>1. /\ DOMAIN holders = 1..Len(holders)
        /\ \A k \in 1..Len(holders) : holders[k] \in Entry
    BY ElementOfSeq, LenProperties DEF TypeOK
  <1>2. \A k \in DOMAIN holders :
          /\ holders[k].conn \in Conn
          /\ holders[k].mode = ask[holders[k].conn].req
    BY <1>1 DEF ModesInv, Entry
  <1> QED
    BY <1>2 DEF Service!Grantable, can_lock

\* What a client does is Leave, or nothing to the service.
LEMMA PeersImplement ==
  ASSUME TypeOK, Peers({"UNLOCK"}), UNCHANGED <<holders, waitings>>, ListsInv
  PROVE  [Service!Next]_(Service!vars)
  <1>1. PICK c \in Conn : \/ Transfer(c)
                          \/ RetryLock(c)
                          \/ \E verb \in {"UNLOCK"} : Unlock(c, verb)
                          \/ Disconnect(c)
                          \/ Crash(c)
    BY DEF Peers
  <1>2. UNCHANGED <<ask, thread, holders, waitings>> /\ (Alive' <=> Alive)
    BY <1>1 DEF Transfer, RetryLock, Unlock, Disconnect, Crash, Alive
  <1>3. peer \in [Conn -> PeerState] /\ HonestTo(c, Conns(holders), Conns(waitings))
    BY DEF TypeOK, LockerTypeOK, ListsInv, Honest
  <1>4. CASE Transfer(c) \/ RetryLock(c)
    <2>1. peer' = peer \/ (peer[c] = "none" /\ peer' = [peer EXCEPT ![c] = "up"])
      BY <1>3, <1>4 DEF Transfer, RetryLock, HonestTo
    <2>2. UNCHANGED {d \in Conn : peer[d] \in {"none", "up"}}
      BY <1>3, <2>1
    <2> QED
      BY <1>2, <2>2 DEF Service!vars
  <1>5. CASE ~(Transfer(c) \/ RetryLock(c))
    <2>1. \/ peer' = [peer EXCEPT ![c] = "closing"]
          \/ peer' = [peer EXCEPT ![c] = "gone"]
      BY <1>1, <1>5 DEF Unlock, Disconnect, Crash
    <2>2. {d \in Conn : peer[d] \in {"none", "up"}}' =
            {d \in Conn : peer[d] \in {"none", "up"}} \ {c}
      BY <1>3, <2>1
    <2>3. Service!Leave(c)
      BY <1>2, <2>2 DEF Service!Leave
    <2> QED
      BY <2>3 DEF Service!Next
  <1> QED
    BY <1>4, <1>5

\* inmsg on a LOCK message is Acquire, Enqueue or, with LOCK_BUSY, nothing.
LEMMA LockImplements ==
  ASSUME TypeOK, ListsInv, ModesInv, NEW c \in Conn, Lock(c)
  PROVE  [Service!Next]_(Service!vars)
  <1>1. /\ LockerTypeOK /\ CanRead(c, "LOCK")
        /\ holders \in Seq(Entry) /\ waitings \in Seq(Entry)
        /\ Honest(Conns(holders), Conns(waitings))
        /\ Distinct(holders) /\ Distinct(waitings)
    BY DEF TypeOK, ListsInv, Lock
  <1>2. EntryOf(c) \in Entry /\ EntryOf(c).conn = c
    BY <1>1 DEF LockerTypeOK, Ask, EntryOf, Entry
  <1>3. c \notin Conns(holders) /\ c \notin Conns(waitings)
    BY <1>1, HonestNewcomer
  <1>4. Alive /\ Alive' /\ ask' = ask /\ peer' = peer
    BY DEF Lock, CanRead, Polling, LockGrant, LockEnqueue, LockBusy, Reply, Alive
  <1>5. ~Service!Waiting(c)
    BY <1>3, <1>4 DEF Service!Waiting, Conns
  <1>6. Service!Grantable(c) <=> can_lock(ask[c].req)
    BY <1>4, GrantableIsCanLock
  <1>7. CASE LockGrant(c)
    <2>1. holders' = <<EntryOf(c)>> \o holders /\ waitings' = waitings /\ Service!Grantable(c)
      BY <1>6, <1>7 DEF LockGrant, AddHolder
    <2>2. Conns(holders') = Conns(holders) \cup {c}
      BY <1>1, <1>2, <1>3, <2>1, PrependedConn
    <2>3. Service!Acquire(c)
      BY <1>3, <1>4, <1>5, <2>1, <2>2 DEF Service!Acquire, Conns
    <2> QED
      BY <1>4, <2>3 DEF Service!Next
  <1>8. CASE LockEnqueue(c)
    <2>1. waitings' = Append(waitings, EntryOf(c)) /\ holders' = holders /\ ~Service!Grantable(c)
      BY <1>6, <1>8 DEF LockEnqueue
    <2>2. Queue(waitings') = Append(Queue(waitings), c)
      BY <1>1, <1>2, <2>1, QueueAppend
    <2>3. Service!Enqueue(c)
      BY <1>3, <1>4, <1>5, <2>1, <2>2 DEF Service!Enqueue, Conns, Queue
    <2> QED
      BY <1>4, <2>3 DEF Service!Next
  <1>9. CASE LockBusy(c)
    BY <1>4, <1>9 DEF LockBusy, Service!vars
  <1> QED
    BY <1>7, <1>8, <1>9 DEF Lock

\* clean is Release or Withdraw of a client that has left, or nothing.
LEMMA CleanImplements ==
  ASSUME TypeOK, ListsInv, NEW c \in Conn, NEW path \in CleanPath, Clean(c, path)
  PROVE  [Service!Next]_(Service!vars)
  <1>1. /\ LockerTypeOK /\ CleanEvent(c, path)
        /\ holders \in Seq(Entry) /\ waitings \in Seq(Entry)
        /\ Honest(Conns(holders), Conns(waitings))
        /\ Distinct(holders) /\ Distinct(waitings)
    BY DEF TypeOK, ListsInv, Clean
  <1>2. peer[c] \in {"closing", "gone"}
    BY <1>1, CleanedHasLeft
  <1>3. Alive /\ Alive' /\ ask' = ask /\ peer' = peer
    BY DEF Clean, CleanEvent, CleanHolder, CleanWaiter, StartScan, EndClean, Alive
  <1>4. CASE CleanHolder(c, path)
    <2>1. PICK k \in DOMAIN holders :
            /\ holders[k].conn = c
            /\ holders' = RemoveAt(holders, k)
            /\ UNCHANGED waitings
      BY <1>4 DEF CleanHolder, IsFirstOf
    <2>2. c \in Conns(holders)
      BY <2>1 DEF Conns
    <2>3. Conns(holders') = Conns(holders) \ {c}
      BY <1>1, <2>1, RemovedConn
    <2>4. Service!Release(c)
      BY <1>2, <1>3, <2>1, <2>2, <2>3 DEF Service!Release, Conns
    <2> QED
      BY <1>3, <2>4 DEF Service!Next
  <1>5. ASSUME NEW k \in DOMAIN waitings, waitings[k].conn = c,
               waitings' = RemoveAt(waitings, k), UNCHANGED holders
        PROVE  [Service!Next]_(Service!vars)
    <2>1. Queue(waitings') = Service!Without(Queue(waitings), k)
      BY <1>1, <1>5, QueueRemove
    <2>2. DOMAIN Queue(waitings) = DOMAIN waitings /\ Queue(waitings)[k] = c
      BY <1>5 DEF Queue
    <2>3. Service!Withdraw(k)
      BY <1>2, <1>3, <1>5, <2>1, <2>2 DEF Service!Withdraw, Queue
    <2>4. k \in DOMAIN (IF Alive THEN [j \in DOMAIN waitings |-> waitings[j].conn] ELSE <<>>)
      BY <1>3
    <2> QED
      BY <1>3, <2>3, <2>4 DEF Service!Next
  <1>6. CASE UNCHANGED <<holders, waitings>>
    BY <1>3, <1>6 DEF Service!vars
  <1> QED
    BY <1>4, <1>5, <1>6 DEF Clean, CleanWaiter, IsFirstOf

\* A turn of the scan is Promote of the first waiter that can be served, Withdraw of a
\* dead one, Stop, or nothing.
LEMMA WaitingsImplements ==
  ASSUME TypeOK, ListsInv, ModesInv, ScanInv, Waitings
  PROVE  [Service!Next]_(Service!vars)
  <1>1. /\ LockerTypeOK /\ Scanning
        /\ holders \in Seq(Entry) /\ waitings \in Seq(Entry)
        /\ Honest(Conns(holders), Conns(waitings))
        /\ Distinct(holders) /\ Distinct(waitings)
    BY DEF TypeOK, ListsInv, Waitings
  <1>2. Alive /\ thread = "loop" /\ ask' = ask /\ peer' = peer
    BY DEF Waitings, WaitingsEnd, WaitingsSkip, WaitingsPop, ScanEnd, ScanSkip, ScanGrant,
           ScanAbort, Scanning, Alive
  <1>3. CASE WaitingsEnd \/ WaitingsSkip
    <2>1. UNCHANGED <<holders, waitings, thread>>
      BY <1>3 DEF WaitingsEnd, WaitingsSkip, ScanEnd, ScanSkip
    <2> QED
      BY <1>2, <2>1 DEF Service!vars, Alive
  <1>4. CASE WaitingsPop
    <2>0. PICK i \in DOMAIN waitings : i = job.i
      BY <1>4 DEF WaitingsPop
    <2> DEFINE e == waitings[i]
    <2>1. i \in DOMAIN waitings /\ waitings' = RemoveAt(waitings, i) /\ can_lock(e.mode)
      BY <1>4, <2>0 DEF WaitingsPop
    <2>2. e \in Entry /\ e.conn \in Conn /\ e.mode = ask[e.conn].req
      <3>1. e \in Entry
        BY <1>1, <2>1, ElementOfSeq, LenProperties
      <3> QED
        BY <2>1, <3>1 DEF Entry, ModesInv
    <2>3. e.conn \in Conns(waitings)
      BY <2>1 DEF Conns
    <2>4. e.conn \notin Conns(holders)
      BY <1>1, <2>2, <2>3 DEF Honest, HonestTo, Scanning
    <2>5. \/ ScanGrant(e.conn) /\ holders' = <<e>> \o holders
          \/ ScanAbort(e.conn) /\ UNCHANGED holders
      BY <1>4, <2>0 DEF WaitingsPop, AddHolder
    <2>6. Queue(waitings') = Service!Without(Queue(waitings), i)
      BY <1>1, <2>1, QueueRemove
    <2>7. DOMAIN Queue(waitings) = DOMAIN waitings /\ Queue(waitings)[i] = e.conn
      BY <2>1 DEF Queue
    <2>8. i \in DOMAIN (IF Alive THEN [j \in DOMAIN waitings |-> waitings[j].conn] ELSE <<>>)
      BY <1>2, <2>1
    <2>9. ASSUME NEW j \in 1..(i - 1)
          PROVE  ~Service!Grantable(Queue(waitings)[j])
      <3>1. /\ Len(waitings) \in Nat /\ DOMAIN waitings = 1..Len(waitings) /\ i \in Nat
            /\ \A k \in 1..Len(waitings) : waitings[k] \in Entry
        BY <1>1, <2>1, ElementOfSeq, LenProperties
      <3>2. j \in DOMAIN waitings /\ j < i
        BY <2>1, <3>1
      <3>3. Blocked(holders, waitings[j].mode)
        BY <1>1, <1>2, <2>0, <3>2 DEF ScanInv
      <3>4. waitings[j].conn \in Conn /\ waitings[j].mode = ask[waitings[j].conn].req
        BY <3>1, <3>2 DEF ModesInv, Entry
      <3>5. ~can_lock(ask[waitings[j].conn].req)
        BY <3>3, <3>4 DEF Blocked, can_lock
      <3> QED
        BY <1>2, <3>2, <3>4, <3>5, GrantableIsCanLock DEF Queue
    <2>10. Service!Grantable(e.conn)
      BY <1>2, <2>1, <2>2, GrantableIsCanLock
    <2> HIDE DEF e
    <2>11. CASE ScanGrant(e.conn) /\ holders' = <<e>> \o holders
      <3>1. Conns(holders') = Conns(holders) \cup {e.conn}
        BY <1>1, <2>2, <2>4, <2>11, PrependedConn
      <3>2. Alive'
        BY <1>2, <2>11 DEF ScanGrant, Alive
      <3>3. Service!Promote(i)
        BY <1>2, <2>6, <2>7, <2>9, <2>10, <3>1, <3>2 DEF Service!Promote, Conns, Queue
      <3> QED
        BY <1>2, <2>8, <3>3 DEF Service!Next
    <2>12. CASE ScanAbort(e.conn) /\ UNCHANGED holders
      <3>1. peer[e.conn] = "gone"
        BY <1>1, <2>2, <2>3, <2>12, AbortedIsGone
      <3>2. CASE thread' = thread
        <4>1. Alive'
          BY <1>2, <3>2 DEF Alive
        <4>2. Service!Withdraw(i)
          BY <1>2, <2>6, <2>7, <2>12, <3>1, <4>1 DEF Service!Withdraw, Queue
        <4> QED
          BY <1>2, <2>8, <4>2 DEF Service!Next
      <3>3. CASE thread' = "dead"
        <4>1. ~Alive'
          BY <3>3 DEF Alive
        <4>2. Service!Stop
          BY <1>2, <4>1 DEF Service!Stop
        <4> QED
          BY <1>2, <4>2 DEF Service!Next
      <3> QED
        BY <2>12, <3>2, <3>3 DEF ScanAbort
    <2> QED
      BY <2>5, <2>11, <2>12
  <1> QED
    BY <1>3, <1>4 DEF Waitings

\* The resource begins as the service does.
LEMMA InitImplements == Init => Service!Init
  <1> SUFFICES ASSUME Init
               PROVE  Service!Init
    OBVIOUS
  <1>1. /\ ask \in [Conn -> Ask] /\ peer = [c \in Conn |-> "none"]
        /\ holders = <<>> /\ waitings = <<>> /\ Alive
    BY DEF Init, LockerInit, Alive
  <1>2. [c \in Conn |-> ask[c].req] \in [Conn -> Request]
    BY <1>1 DEF Ask
  <1>3. {c \in Conn : peer[c] \in {"none", "up"}} = Conn
    BY <1>1
  <1>4. {holders[k].conn : k \in DOMAIN holders} = {}
    BY <1>1
  <1>5. [k \in DOMAIN waitings |-> waitings[k].conn] = <<>>
    BY <1>1
  <1> QED
    BY <1>1, <1>2, <1>3, <1>4, <1>5 DEF Service!Init

\* While no program locks a handle again whose last call timed out, the simple
\* resource and its locker thread implement the lock service, step by step: a lock or
\* a place in the queue is taken only from a client that has left, the scan serves the
\* first waiter that can be served, and nobody holds what can_lock did not accept.
THEOREM ServiceImplemented ==
  ASSUME ~Retry
  PROVE  Spec => ImplementsService
  <1> DEFINE Inv == TypeOK /\ ListsInv /\ NoTimeout /\ ModesInv /\ ScanInv
  <1>1. Init => Inv
    <2>1. Init => TypeOK
      BY LockerInitType, EmptySeq DEF Init, TypeOK
    <2>2. Init => ModesInv
      BY DEF Init, ModesInv
    <2>3. Init => ScanInv
      BY DEF Init, LockerInit, ScanInv, Scanning
    <2> QED
      BY <2>1, <2>2, <2>3, ListsInit
  <1>2. Inv /\ [Next]_vars => Inv'
    BY TypeStep, ListsStep, NoTimeoutKept, ModesKept, ScanStep
  <1>3. Inv /\ [Next]_vars => [Service!Next]_(Service!vars)
    <2> SUFFICES ASSUME Inv, [Next]_vars
                 PROVE  [Service!Next]_(Service!vars)
      OBVIOUS
    <2>1. CASE UNCHANGED vars
      BY <2>1 DEF vars, lockerVars, Service!vars, Alive
    <2> QED
      BY <2>1, PeersImplement, LockImplements, CleanImplements, WaitingsImplements DEF Next
  <1>4. QED
    BY <1>1, <1>2, <1>3, InitImplements, PTL DEF Spec, ImplementsService, Service!Spec
===============================================================================
