-------------------------- MODULE ResourceSetProofs --------------------------
(***************************************************************************)
(* Proofs about ResourceSet, for any set of connections and any number of  *)
(* elements.                                                               *)
(***************************************************************************)
EXTENDS ResourceSet, LockerProofs, WellFoundedInduction

-------------------------------------------------------------------------------
(* Type correctness. *)

\* index goes round.
LEMMA IndexType ==
  ASSUME index \in Element
  PROVE  (index + 1) % Size \in Element
  BY SetAssumption DEF Element

\* Giving an element to a connection keeps the types.
LEMMA TakeType ==
  ASSUME TypeOK, NEW c \in Conn, NEW e \in Element, Take(c, e)
  PROVE  /\ elements' \in [Element -> Conn \cup {Free}]
         /\ index' \in Element
         /\ told' \in [Conn -> Element \cup {None}]
  <1>1. index' \in Element
    BY IndexType DEF Take, TypeOK
  <1> QED
    BY <1>1 DEF Take, TypeOK

\* inmsg on a LOCK message keeps the types.
LEMMA LockType ==
  ASSUME TypeOK, NEW c \in Conn, Lock(c)
  PROVE  TypeOK'
  <1>1. PICK rc \in Answer : Reply(c, rc)
    BY DEF Lock, LockGrant, LockEnqueue, LockBusy, Answer
  <1>2. vfs' \subseteq VfsNode
    BY DEF Lock, LockGrant, LockEnqueue, LockBusy, VfsAdd, VfsNode, TypeOK, LockerTypeOK
  <1>3. LockerTypeOK'
    BY <1>1, <1>2, ReplyType DEF TypeOK
  <1>4. CASE LockGrant(c)
    BY <1>3, <1>4, TakeType DEF LockGrant, TypeOK
  <1>5. CASE LockEnqueue(c)
    <2>1. [conn |-> c] \in Waiter
      BY DEF Waiter
    <2>2. waitings' \in Seq(Waiter)
      BY <1>5, <2>1, AppendedProperties DEF LockEnqueue, TypeOK
    <2> QED
      BY <1>3, <1>5, <2>2 DEF LockEnqueue, TypeOK
  <1>6. CASE LockBusy(c)
    BY <1>3, <1>6 DEF LockBusy, setVars, TypeOK
  <1> QED
    BY <1>4, <1>5, <1>6 DEF Lock

\* clean keeps the types.
LEMMA CleanType ==
  ASSUME TypeOK, NEW c \in Conn, NEW path \in CleanPath, Clean(c, path)
  PROVE  TypeOK'
  <1>1. CASE CleanHolder(c, path)
    <2>1. LockerTypeOK'
      BY <1>1, StartScanType DEF CleanHolder, TypeOK
    <2>2. elements' \in [Element -> Conn \cup {Free}]
      BY <1>1 DEF CleanHolder, TypeOK
    <2> QED
      BY <1>1, <2>1, <2>2 DEF CleanHolder, TypeOK
  <1>2. CASE CleanWaiter(c, path)
    <2>1. LockerTypeOK'
      BY <1>2, EndCleanType DEF CleanWaiter, TypeOK
    <2>2. waitings' \in Seq(Waiter)
      BY <1>2, RemoveAtProperties DEF CleanWaiter, TypeOK
    <2> QED
      BY <1>2, <2>1, <2>2 DEF CleanWaiter, TypeOK
  <1> QED
    BY <1>1, <1>2 DEF Clean

\* The record at the cursor is that of a connection.
LEMMA CursorConn ==
  ASSUME TypeOK, job.i \in DOMAIN waitings
  PROVE  waitings[job.i].conn \in Conn
  <1>1. waitings[job.i] \in Waiter
    BY ElementOfSeq, LenProperties DEF TypeOK
  <1> QED
    BY <1>1 DEF Waiter

\* Every turn of the scan keeps the types.
LEMMA WaitingsType ==
  ASSUME TypeOK, Waitings
  PROVE  TypeOK'
  <1>1. LockerTypeOK /\ Scanning
    BY DEF TypeOK, Waitings
  <1>2. CASE WaitingsEnd \/ WaitingsSkip
    <2>1. job.conn \in Conn
      BY <1>1, JobFields DEF Scanning
    <2>2. LockerTypeOK'
      BY <1>1, <1>2, <2>1, ScanType DEF WaitingsEnd, WaitingsSkip
    <2>3. UNCHANGED setVars
      BY <1>2 DEF WaitingsEnd, WaitingsSkip
    <2> QED
      BY <2>2, <2>3 DEF setVars, TypeOK
  <1>3. CASE WaitingsPop
    <2>1. waitings[job.i].conn \in Conn
      BY <1>3, CursorConn DEF WaitingsPop
    <2>2. LockerTypeOK'
      BY <1>1, <1>3, <2>1, ScanType DEF WaitingsPop
    <2>3. waitings' \in Seq(Waiter)
      BY <1>3, RemoveAtProperties DEF WaitingsPop, TypeOK
    <2>4. /\ elements' \in [Element -> Conn \cup {Free}]
          /\ index' \in Element
          /\ told' \in [Conn -> Element \cup {None}]
      <3>1. \/ UNCHANGED <<elements, index, told>>
            \/ \E e \in Element : Take(waitings[job.i].conn, e)
        BY <1>3 DEF WaitingsPop
      <3> QED
        BY <2>1, <3>1, TakeType DEF TypeOK
    <2> QED
      BY <2>2, <2>3, <2>4 DEF TypeOK
  <1> QED
    BY <1>2, <1>3 DEF Waitings

\* Every step keeps the types.
LEMMA TypeStep ==
  ASSUME TypeOK, [Next]_vars
  PROVE  TypeOK'
  <1>1. CASE Peers({"UNLOCK"}) /\ UNCHANGED setVars
    <2>1. LockerTypeOK'
      BY <1>1, PeersType DEF TypeOK, MsgVerb
    <2> QED
      BY <1>1, <2>1 DEF setVars, TypeOK
  <1>2. CASE UNCHANGED vars
    BY <1>2 DEF vars, lockerVars, setVars, TypeOK, LockerTypeOK
  <1> QED
    BY <1>1, <1>2, LockType, CleanType, WaitingsType DEF Next

\* The first state is well typed.
LEMMA TypeInit == Init => TypeOK
  BY LockerInitType, EmptySeq, SetAssumption DEF Init, TypeOK, Element, None

-------------------------------------------------------------------------------
(* Elements are with the clients that were told so. *)

\* The connections that hold an element.
Owners == {c \in Conn : \E e \in Element : elements[e] = c}

\* An element is held by a connection that was told of this element, so that none
\* holds two.
OwnersTold == \A e \in Element : elements[e] # Free => told[elements[e]] = e

OwnersInv ==
  /\ Honest(Owners, Conns(waitings))
  /\ Distinct(waitings)
  /\ OwnersTold

\* A free element is taken by a connection that has none.
LEMMA TakeOwners ==
  ASSUME TypeOK, OwnersTold, NEW c \in Conn, c \notin Owners, NEW e \in Element,
         elements[e] = Free, Take(c, e)
  PROVE  OwnersTold' /\ Owners' = Owners \cup {c}
  <1>1. /\ elements' = [elements EXCEPT ![e] = c]
        /\ told' = [told EXCEPT ![c] = e]
        /\ elements \in [Element -> Conn \cup {Free}]
        /\ told \in [Conn -> Element \cup {None}]
        /\ c # Free
    BY SetAssumption DEF Take, TypeOK
  <1>2. ASSUME NEW f \in Element, elements'[f] # Free
        PROVE  told'[elements'[f]] = f
    <2>1. CASE f = e
      BY <1>1, <2>1
    <2>2. CASE f # e
      <3>1. elements'[f] = elements[f] /\ elements[f] \in Conn /\ elements[f] # c
        BY <1>1, <1>2, <2>2 DEF Owners
      <3> QED
        BY <1>1, <1>2, <3>1 DEF OwnersTold
    <2> QED
      BY <2>1, <2>2
  <1>3. ASSUME NEW d \in Conn
        PROVE  d \in Owners' <=> d \in Owners \/ d = c
    <2>1. elements'[e] = c /\ \A f \in Element : f # e => elements'[f] = elements[f]
      BY <1>1
    <2>2. d # Free
      BY SetAssumption
    <2> QED
      BY <2>1, <2>2 DEF Owners
  <1>4. Owners' \subseteq Conn /\ Owners \subseteq Conn
    BY DEF Owners
  <1>5. Owners' = Owners \cup {c}
    BY <1>3, <1>4
  <1> QED
    BY <1>2, <1>5 DEF OwnersTold

\* inmsg on a LOCK message.
LEMMA LockOwners ==
  ASSUME TypeOK, OwnersInv, NEW c \in Conn, Lock(c)
  PROVE  OwnersInv'
  <1>1. /\ LockerTypeOK /\ CanRead(c, "LOCK") /\ waitings \in Seq(Waiter)
        /\ Honest(Owners, Conns(waitings)) /\ Distinct(waitings) /\ OwnersTold
    BY DEF TypeOK, OwnersInv, Lock
  <1>2. c \notin Owners /\ c \notin Conns(waitings)
    BY <1>1, HonestNewcomer
  <1>3. CASE LockGrant(c)
    <2>1. PICK e \in Element : can_lock(e) /\ Take(c, e)
      BY <1>3 DEF LockGrant
    <2>2. waitings' = waitings /\ Reply(c, "OK") /\ VfsAdd("holders", c)
      BY <1>3 DEF LockGrant
    <2>3. OwnersTold' /\ Owners' = Owners \cup {c}
      BY <1>1, <1>2, <2>1, TakeOwners DEF can_lock
    <2>4. Honest(Owners, Conns(waitings))'
      BY <1>1, <2>2, <2>3, HonestReply DEF Answer
    <2> QED
      BY <1>1, <2>2, <2>3, <2>4 DEF OwnersInv
  <1>4. CASE ~LockGrant(c)
    <2>1. UNCHANGED <<elements, index, told>>
      BY <1>4 DEF Lock, LockEnqueue, LockBusy, setVars
    <2>2. Owners' = Owners /\ OwnersTold'
      BY <1>1, <2>1 DEF Owners, OwnersTold
    <2>3. CASE LockEnqueue(c)
      <3>1. /\ waitings' = Append(waitings, [conn |-> c])
            /\ Reply(c, "LOCK_ENQUEUED") /\ VfsAdd("waitings", c)
        BY <2>3 DEF LockEnqueue
      <3>2. [conn |-> c] \in Waiter /\ [conn |-> c].conn = c
        BY DEF Waiter
      <3>3. Distinct(waitings') /\ Conns(waitings') = Conns(waitings) \cup {c}
        BY <1>1, <1>2, <3>1, <3>2, AppendedConn
      <3>4. Honest(Owners, Conns(waitings))'
        BY <1>1, <2>2, <3>1, <3>3, HonestReply DEF Answer
      <3> QED
        BY <2>2, <3>3, <3>4 DEF OwnersInv
    <2>4. CASE LockBusy(c)
      <3>1. Reply(c, "LOCK_BUSY") /\ UNCHANGED <<vfs, waitings>>
        BY <2>4 DEF LockBusy, setVars
      <3>2. Honest(Owners, Conns(waitings))'
        BY <1>1, <2>2, <3>1, HonestReply DEF Answer
      <3> QED
        BY <1>1, <2>2, <3>1, <3>2 DEF OwnersInv
    <2> QED
      BY <1>4, <2>3, <2>4 DEF Lock
  <1> QED
    BY <1>3, <1>4

\* clean.
LEMMA CleanOwners ==
  ASSUME TypeOK, OwnersInv, NEW c \in Conn, NEW path \in CleanPath, Clean(c, path)
  PROVE  OwnersInv'
  <1>1. /\ LockerTypeOK /\ CleanEvent(c, path) /\ waitings \in Seq(Waiter)
        /\ Honest(Owners, Conns(waitings)) /\ Distinct(waitings) /\ OwnersTold
    BY DEF TypeOK, OwnersInv, Clean
  <1>2. CASE CleanHolder(c, path)
    <2>1. PICK e \in Element :
            /\ elements[e] = c
            /\ elements' = [elements EXCEPT ![e] = Free]
            /\ UNCHANGED <<index, waitings, told>>
            /\ StartScan(c, path)
      BY <1>2 DEF CleanHolder
    <2>2. /\ elements \in [Element -> Conn \cup {Free}]
          /\ \A d \in Conn : d # Free
      BY SetAssumption DEF TypeOK
    <2>3. \A f \in Element : elements[f] = c => f = e
      BY <1>1, <2>1, <2>2 DEF OwnersTold
    <2>4. elements'[e] = Free /\ \A f \in Element : f # e => elements'[f] = elements[f]
      BY <2>1, <2>2
    <2>5. c \in Owners /\ Owners' = Owners \ {c}
      BY <2>1, <2>2, <2>3, <2>4 DEF Owners
    <2>6. OwnersTold'
      BY <1>1, <2>1, <2>4 DEF OwnersTold
    <2>7. Honest(Owners, Conns(waitings))'
      BY <1>1, <2>1, <2>5, HonestRelease
    <2> QED
      BY <1>1, <2>1, <2>6, <2>7 DEF OwnersInv
  <1>3. CASE (\A e \in Element : elements[e] # c) /\ CleanWaiter(c, path)
    <2>1. UNCHANGED <<elements, index, told>> /\ EndClean(c, path)
      BY <1>3 DEF CleanWaiter
    <2>2. c \notin Owners /\ Owners' = Owners /\ OwnersTold'
      BY <1>1, <1>3, <2>1 DEF Owners, OwnersTold
    <2>3. Distinct(waitings') /\ Conns(waitings') = Conns(waitings) \ {c}
      <3>1. CASE HasEntry(waitings, c)
        <4>1. PICK k \in DOMAIN waitings :
                waitings[k].conn = c /\ waitings' = RemoveAt(waitings, k)
          BY <1>3, <3>1 DEF CleanWaiter, IsFirstOf
        <4> QED
          BY <1>1, <4>1, RemovedConn
      <3>2. CASE ~HasEntry(waitings, c)
        <4>1. waitings' = waitings
          BY <1>3, <3>2 DEF CleanWaiter, IsFirstOf, HasEntry
        <4>2. c \notin Conns(waitings)
          BY <3>2, HasEntryConns
        <4> QED
          BY <1>1, <4>1, <4>2
      <3> QED
        BY <3>1, <3>2
    <2>4. Honest(Owners, Conns(waitings))'
      BY <1>1, <2>1, <2>2, <2>3, HonestWithdraw
    <2> QED
      BY <2>2, <2>3, <2>4 DEF OwnersInv
  <1> QED
    BY <1>2, <1>3 DEF Clean

\* A turn of the scan.
LEMMA WaitingsOwners ==
  ASSUME TypeOK, OwnersInv, NoTimeout, Waitings
  PROVE  OwnersInv'
  <1>1. /\ LockerTypeOK /\ Scanning /\ job.path # "timeout" /\ waitings \in Seq(Waiter)
        /\ Honest(Owners, Conns(waitings)) /\ Distinct(waitings) /\ OwnersTold
    BY DEF TypeOK, OwnersInv, Waitings, Scanning, NoTimeout
  <1>2. CASE WaitingsEnd \/ WaitingsSkip
    <2>1. (ScanEnd \/ ScanSkip) /\ UNCHANGED <<elements, index, waitings, told>>
      BY <1>2 DEF WaitingsEnd, WaitingsSkip, setVars
    <2>2. Owners' = Owners /\ OwnersTold'
      BY <1>1, <2>1 DEF Owners, OwnersTold
    <2>3. Honest(Owners, Conns(waitings))'
      BY <1>1, <2>1, <2>2, HonestScanEnd, HonestScanSkip
    <2> QED
      BY <1>1, <2>1, <2>2, <2>3 DEF OwnersInv
  <1>3. CASE WaitingsPop
    <2>1. PICK c \in Conn, e \in Element :
            /\ c = waitings[job.i].conn
            /\ can_lock(e)
            /\ \/ ScanGrant(c) /\ Take(c, e)
               \/ ScanAbort(c) /\ UNCHANGED <<elements, index, told>>
      BY <1>3, CursorConn DEF WaitingsPop
    <2>2. job.i \in DOMAIN waitings /\ waitings' = RemoveAt(waitings, job.i)
      BY <1>3 DEF WaitingsPop
    <2>3. c \in Conns(waitings)
      BY <2>1, <2>2 DEF Conns
    <2>4. Distinct(waitings') /\ Conns(waitings') = Conns(waitings) \ {c}
      BY <1>1, <2>1, <2>2, RemovedConn
    <2>5. c \notin Owners
      BY <1>1, <2>3 DEF Honest, HonestTo, Scanning
    <2>6. CASE ScanGrant(c) /\ Take(c, e)
      <3>1. OwnersTold' /\ Owners' = Owners \cup {c}
        BY <1>1, <2>1, <2>5, <2>6, TakeOwners DEF can_lock
      <3>2. Honest(Owners, Conns(waitings))'
        BY <1>1, <2>3, <2>4, <2>6, <3>1, HonestScanGrant
      <3> QED
        BY <2>4, <3>1, <3>2 DEF OwnersInv
    <2>7. CASE ScanAbort(c) /\ UNCHANGED <<elements, index, told>>
      <3>1. Owners' = Owners /\ OwnersTold'
        BY <1>1, <2>7 DEF Owners, OwnersTold
      <3>2. Honest(Owners, Conns(waitings))'
        BY <1>1, <2>3, <2>4, <2>7, <3>1, HonestScanAbort
      <3> QED
        BY <2>4, <3>1, <3>2 DEF OwnersInv
    <2> QED
      BY <2>1, <2>6, <2>7
  <1> QED
    BY <1>2, <1>3 DEF Waitings

\* No step of a set starts a scan of the timeout callback.
LEMMA NoTimeoutKept ==
  ASSUME TypeOK, NoTimeout, [Next]_vars
  PROVE  NoTimeout'
  <1>1. LockerTypeOK
    BY DEF TypeOK
  <1>2. ASSUME NEW c \in Conn, Lock(c)
        PROVE  \E rc \in Answer : Reply(c, rc)
    BY <1>2 DEF Lock, LockGrant, LockEnqueue, LockBusy, Answer
  <1>3. ASSUME NEW c \in Conn, NEW path \in CleanPath, Clean(c, path)
        PROVE  StartScan(c, path) \/ EndClean(c, path)
    BY <1>3 DEF Clean, CleanHolder, CleanWaiter
  <1>4. CASE Waitings
    <2>1. Scanning /\ (ScanEnd \/ ScanSkip \/ \E e : ScanGrant(e) \/ ScanAbort(e))
      BY <1>4 DEF Waitings, WaitingsEnd, WaitingsSkip, WaitingsPop
    <2> QED
      BY <1>1, <2>1, NoTimeoutStep
  <1> QED
    BY <1>1, <1>2, <1>3, <1>4, NoTimeoutStep DEF Next, vars, lockerVars

\* The invariant says what the run checks.
LEMMA OwnersHonoured ==
  ASSUME TypeOK, OwnersInv
  PROVE  ElementsHonoured
  <1>1. /\ elements \in [Element -> Conn \cup {Free}]
        /\ Honest(Owners, Conns(waitings)) /\ OwnersTold
        /\ Conns(waitings) \subseteq Conn
        /\ \A d \in Conn : d # Free
    <2>1. \A e \in Waiter : e.conn \in Conn
      BY DEF Waiter
    <2> QED
      BY <2>1, ConnsType, SetAssumption DEF TypeOK, OwnersInv
  <1>2. \A c \in Conn : HonestTo(c, Owners, Conns(waitings))
    BY <1>1 DEF Honest
  <1>3. \A e \in Element : elements[e] # Free => elements[e] \in Owners
    BY <1>1 DEF Owners
  <1>4. NoDanglingEntry
    <2>1. \A k \in DOMAIN waitings : waitings[k].conn \in Conns(waitings)
      BY DEF Conns
    <2>2. Owners \subseteq Conn
      BY DEF Owners
    <2> QED
      BY <1>1, <1>2, <1>3, <2>1, <2>2 DEF NoDanglingEntry, HonestTo
  <1>5. ToldElementHeld
    <2> SUFFICES ASSUME thread # "dead", NEW c \in Conn, conn[c] = "open", peer[c] = "up"
                 PROVE  /\ answer[c] = "OK" => {e \in Element : elements[e] = c} = {told[c]}
                        /\ answer[c] # "OK" => \A e \in Element : elements[e] # c
                        /\ answer[c] = "LOCK_ENQUEUED" <=> HasEntry(waitings, c)
      BY DEF ToldElementHeld
    <2>1. /\ answer[c] = "OK" <=> c \in Owners
          /\ answer[c] = "LOCK_ENQUEUED" <=> HasEntry(waitings, c)
      BY <1>2, HasEntryConns DEF HonestTo
    <2>2. \A e \in Element : elements[e] = c => told[c] = e
      BY <1>1 DEF OwnersTold
    <2> QED
      BY <2>1, <2>2 DEF Owners
  <1> QED
    BY <1>4, <1>5 DEF ElementsHonoured

\* Nobody owns or waits at the beginning.
LEMMA OwnersInit == Init => OwnersInv /\ NoTimeout
  <1> SUFFICES ASSUME Init
               PROVE  OwnersInv /\ NoTimeout
    OBVIOUS
  <1>1. Owners = {} /\ OwnersTold
    BY SetAssumption DEF Init, Owners, OwnersTold
  <1>2. Conns(waitings) = {} /\ Distinct(waitings)
    BY DEF Init, Conns, Distinct
  <1>3. Honest({}, {}) /\ NoTimeout
    BY HonestInit DEF Init, LockerInit, NoTimeout
  <1> QED
    BY <1>1, <1>2, <1>3 DEF OwnersInv

\* Every step keeps the invariant.
LEMMA OwnersStep ==
  ASSUME ~Retry, TypeOK, OwnersInv, NoTimeout, [Next]_vars
  PROVE  OwnersInv'
  <1>1. CASE Peers({"UNLOCK"}) /\ UNCHANGED setVars
    <2>1. UNCHANGED <<elements, index, waitings, told>>
      BY <1>1 DEF setVars
    <2>2. Owners' = Owners /\ Conns(waitings)' = Conns(waitings)
      BY <2>1 DEF Owners, Conns
    <2>3. Honest(Owners, Conns(waitings))'
      BY <1>1, <2>2, HonestPeers DEF TypeOK, OwnersInv
    <2> QED
      BY <2>1, <2>3 DEF OwnersInv, OwnersTold
  <1>2. CASE UNCHANGED vars
    BY <1>2 DEF vars, lockerVars, setVars, OwnersInv, OwnersTold, Owners, Honest, HonestTo,
                ShownAs, BusyWith, Conns, Distinct
  <1> QED
    BY <1>1, <1>2, LockOwners, CleanOwners, WaitingsOwners DEF Next

\* While no program locks a handle again whose last call timed out, a live client that
\* was told OK has exactly the element named in the answer, however index goes round
\* and whoever dies, and no element is with a connection that was closed
\* (flom_resource_set_inmsg, _clean, _waitings).
THEOREM ElementsKept ==
  ASSUME ~Retry
  PROVE  Spec => []ElementsHonoured
  <1> DEFINE Inv == TypeOK /\ OwnersInv /\ NoTimeout
  <1>1. Init => Inv
    BY TypeInit, OwnersInit
  <1>2. Inv /\ [Next]_vars => Inv'
    BY TypeStep, OwnersStep, NoTimeoutKept
  <1>3. Inv => ElementsHonoured
    BY OwnersHonoured
  <1>4. QED
    BY <1>1, <1>2, <1>3, PTL DEF Spec

-------------------------------------------------------------------------------
(* No lost wakeup. *)

\* What the scan knows: it goes past an entry only when no element is free, and it
\* ends past the last one.
ScanInv ==
  thread = "loop" =>
    /\ Scanning /\ job.i > 1 => Full
    /\ ~Scanning /\ ~aborted => waitings = <<>> \/ Full

\* Full is about the elements and the index only.
LEMMA FullKept ==
  ASSUME UNCHANGED <<elements, index>>
  PROVE  Full' <=> Full
  BY DEF Full, can_lock, Distance

\* From wherever the search starts and going round, it meets a free element if there
\* is one: Full means that none is.
LEMMA FullMeansNoneFree ==
  ASSUME TypeOK
  PROVE  Full <=> \A e \in Element : elements[e] # Free
  <1> DEFINE R == OpToRel(<, Nat)
             D == {Distance(e) : e \in {f \in Element : elements[f] = Free}}
  <1>1. IsWellFoundedOn(R, Nat)
    BY NatLessThanWellFounded, Zenon
  <1>2. \A x, y \in Nat : x < y => <<x, y>> \in R
    BY DEF OpToRel
  <1>3. \A e \in Element : Distance(e) \in Nat
    BY SetAssumption DEF Distance, TypeOK, Element
  <1> HIDE DEF R
  <1>4. ASSUME Full, NEW e \in Element, elements[e] = Free
        PROVE  FALSE
    <2>1. D \subseteq Nat /\ D # {}
      BY <1>3, <1>4
    <2>2. PICK x \in D : \A y \in D : ~(<<y, x>> \in R)
      BY <1>1, <2>1, WFMin
    <2>3. PICK f \in Element : elements[f] = Free /\ x = Distance(f)
      OBVIOUS
    <2>4. \A g \in Element : Distance(g) < Distance(f) => elements[g] # Free
      BY <1>2, <1>3, <2>2, <2>3
    <2> QED
      BY <1>4, <2>3, <2>4 DEF Full, can_lock
  <1> QED
    BY <1>4 DEF Full, can_lock

\* inmsg between two scans.
LEMMA LockScanInv ==
  ASSUME TypeOK, ScanInv, NEW c \in Conn, Lock(c)
  PROVE  ScanInv'
  <1>1. thread = "loop" /\ ~Scanning
    BY DEF Lock, CanRead, Polling, Scanning
  <1>2. aborted' = aborted /\ ~Scanning'
    BY <1>1 DEF Lock, LockGrant, LockEnqueue, LockBusy, Reply, CanRead, Polling, Scanning, Idle
  <1>3. CASE LockGrant(c)
    BY <1>1, <1>2, <1>3 DEF LockGrant, ScanInv, Full
  <1>4. CASE ~LockGrant(c)
    <2>1. Full /\ UNCHANGED <<elements, index>>
      BY <1>4 DEF Lock, LockEnqueue, LockBusy, setVars
    <2> QED
      BY <1>2, <2>1, FullKept DEF ScanInv
  <1> QED
    BY <1>3, <1>4

\* clean starts a scan or shortens the queue.
LEMMA CleanScanInv ==
  ASSUME TypeOK, ScanInv, NEW c \in Conn, NEW path \in CleanPath, Clean(c, path)
  PROVE  ScanInv'
  <1>1. thread = "loop" /\ ~Scanning
    BY DEF Clean, CleanEvent, HungUp, Scanning, CleanPath
  <1>2. CASE CleanHolder(c, path)
    <2>1. thread' = "loop" /\ job' = [path |-> path, conn |-> c, i |-> 1]
      BY <1>1, <1>2 DEF CleanHolder, StartScan
    <2>2. Scanning' /\ job'.i = 1
      BY <2>1 DEF Scanning, Idle, CleanPath
    <2> QED
      BY <2>2 DEF ScanInv
  <1>3. CASE CleanWaiter(c, path)
    <2>1. /\ thread' = "loop" /\ ~Scanning' /\ aborted' = aborted
          /\ UNCHANGED <<elements, index>>
      BY <1>1, <1>3 DEF CleanWaiter, EndClean, Scanning
    <2>2. waitings = <<>> => waitings' = <<>>
      BY <1>3 DEF CleanWaiter
    <2> QED
      BY <1>1, <2>1, <2>2, FullKept DEF ScanInv
  <1> QED
    BY <1>2, <1>3 DEF Clean

\* A turn of the scan.
LEMMA WaitingsScanInv ==
  ASSUME TypeOK, ScanInv, Waitings
  PROVE  ScanInv'
  <1>1. thread = "loop" /\ Scanning /\ (job.i > 1 => Full)
    BY DEF Waitings, Scanning, ScanInv
  <1>2. /\ job \in [path : {"unlock", "error", "second", "reclean", "timeout"},
                    conn : Conn, i : Nat]
        /\ job.i \in Nat
        /\ waitings \in Seq(Waiter) /\ Len(waitings) \in Nat
    BY <1>1, JobFields, LenProperties DEF TypeOK, Scanning
  <1>3. CASE WaitingsEnd
    <2>1. ~Scanning' /\ UNCHANGED <<elements, index, waitings>> /\ job.i > Len(waitings)
      BY <1>3 DEF WaitingsEnd, ScanEnd, Scanning, setVars
    <2>2. CASE Len(waitings) = 0
      BY <1>2, <2>1, <2>2, EmptySeq DEF ScanInv
    <2>3. CASE Len(waitings) # 0
      <3>1. Full
        BY <1>1, <1>2, <2>1, <2>3
      <3> QED
        BY <2>1, <3>1, FullKept DEF ScanInv
    <2> QED
      BY <2>2, <2>3
  <1>4. CASE WaitingsSkip
    <2>1. Full /\ UNCHANGED <<elements, index>> /\ thread' = thread
          /\ job' = [job EXCEPT !.i = @ + 1]
      BY <1>4 DEF WaitingsSkip, ScanSkip, setVars
    <2>2. Scanning'
      BY <1>1, <1>2, <2>1 DEF Scanning, Idle
    <2> QED
      BY <2>1, <2>2, FullKept DEF ScanInv
  <1>5. CASE WaitingsPop
    <2>1. ~Full
      BY <1>5 DEF WaitingsPop, Full
    <2>2. ~(job.i > 1)
      BY <1>1, <2>1
    <2>3. \/ UNCHANGED <<job, thread>>
          \/ aborted' = TRUE /\ (job' = Idle \/ job'.path = "reclean")
      BY <1>5 DEF WaitingsPop, ScanGrant, ScanAbort
    <2> QED
      BY <1>1, <2>2, <2>3 DEF ScanInv, Scanning
  <1> QED
    BY <1>3, <1>4, <1>5 DEF Waitings

\* When the thread is back in poll() after a scan that ran to its end, nobody waits
\* while an element is free (flom_resource_set_waitings).
THEOREM WakeupsNotLost == Spec => []NoLostWakeup
  <1>1. Init => TypeOK /\ ScanInv
    <2>1. Init => ScanInv
      BY DEF Init, LockerInit, ScanInv, Scanning
    <2> QED
      BY <2>1, TypeInit
  <1>2. TypeOK /\ ScanInv /\ [Next]_vars => (TypeOK /\ ScanInv)'
    <2> SUFFICES ASSUME TypeOK, ScanInv, [Next]_vars
                 PROVE  ScanInv'
      BY TypeStep
    <2>1. CASE UNCHANGED <<thread, job, aborted, setVars>>
      <3>1. UNCHANGED <<elements, index, waitings, thread, job, aborted>>
        BY <2>1 DEF setVars
      <3> QED
        BY <3>1, FullKept DEF ScanInv, Scanning
    <2>2. CASE Peers({"UNLOCK"}) /\ UNCHANGED setVars
      <3>1. UNCHANGED <<thread, job, aborted>>
        BY <2>2 DEF Peers, Transfer, RetryLock, Unlock, Disconnect, Crash
      <3> QED
        BY <2>1, <2>2, <3>1
    <2> QED
      BY <2>1, <2>2, LockScanInv, CleanScanInv, WaitingsScanInv DEF Next, vars, lockerVars
  <1>3. ScanInv => NoLostWakeup
    BY DEF ScanInv, NoLostWakeup, Polling, Scanning
  <1>4. QED
    BY <1>1, <1>2, <1>3, PTL DEF Spec

\* The same, said of the elements: can_lock finds a free one wherever its search
\* starts, so while somebody waits every element has a holder.
THEOREM NoElementIdle ==
  Spec => [](Polling /\ ~aborted /\ waitings # <<>> => \A e \in Element : elements[e] # Free)
  <1>1. Init => TypeOK
    BY TypeInit
  <1>2. TypeOK /\ [Next]_vars => TypeOK'
    BY TypeStep
  <1>3. TypeOK /\ NoLostWakeup =>
          (Polling /\ ~aborted /\ waitings # <<>> => \A e \in Element : elements[e] # Free)
    BY FullMeansNoneFree DEF NoLostWakeup
  <1>4. QED
    BY <1>1, <1>2, <1>3, WakeupsNotLost, PTL DEF Spec
===============================================================================
