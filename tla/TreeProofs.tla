------------------------------ MODULE TreeProofs ------------------------------
(***************************************************************************)
(* Proofs about the two trees of the daemon: that of a hierarchical        *)
(* resource (ResourceHier), for any set of connections and any tree of     *)
(* names, and the status tree (Vfs), for any clients, resources and number *)
(* of lockers, and however high addresses go.                              *)
(*                                                                         *)
(* The two modules share no variable; each has its specification.          *)
(***************************************************************************)
EXTENDS ResourceHier, Vfs, LockerProofs, FiniteSetTheorems, WellFoundedInduction

-------------------------------------------------------------------------------
(***************************************************************************)
(* The hierarchical resource.                                              *)
(***************************************************************************)


-------------------------------------------------------------------------------
(* Names and the elements on their line. *)

\* The levels names are made of.
Level == UNION {{p[k] : k \in DOMAIN p} : p \in Path}

\* A name is a sequence of levels, and is not empty.
LEMMA PathType ==
  ASSUME NEW p \in Path
  PROVE  p \in Seq(Level) /\ Len(p) \in Nat /\ Len(p) >= 1
  <1>1. p \in Seq({p[k] : k \in DOMAIN p}) /\ p # <<>>
    BY HierAssumption
  <1>2. {p[k] : k \in DOMAIN p} \subseteq Level
    BY DEF Level
  <1>3. p \in Seq(Level)
    BY <1>1, <1>2, SeqMonotonic
  <1> QED
    BY <1>1, <1>3, EmptySeq, LenProperties

\* The elements on the line of a name are its prefixes.
LEMMA LineProperties ==
  ASSUME NEW p \in Seq(Level), NEW n \in Line(p)
  PROVE  /\ n \in Seq(Level)
         /\ Len(n) \in 1..Len(p)
         /\ IsPrefix(n, p)
         /\ Len(n) >= Len(p) => n = p
  <1>1. PICK k \in 1..Len(p) : n = SubSeq(p, 1, k)
    BY DEF Line
  <1>2. Len(p) \in Nat
    BY LenProperties
  <1>3. n \in Seq(Level) /\ Len(n) = k /\ \A i \in 1..k : n[i] = p[i]
    BY <1>1, <1>2
  <1>4. SubSeq(n, 1, k) = n
    BY <1>2, <1>3
  <1>5. IsPrefix(n, p)
    BY <1>1, <1>2, <1>3, <1>4 DEF IsPrefix
  <1>6. k >= Len(p) => n = p
    BY <1>1, <1>2
  <1> QED
    BY <1>2, <1>3, <1>5, <1>6

\* A name is the last element of its line.
LEMMA LastOfLine ==
  ASSUME NEW p \in Seq(Level), Len(p) >= 1
  PROVE  p \in Line(p)
  <1>1. Len(p) \in 1..Len(p)
    BY LenProperties
  <1>2. SubSeq(p, 1, Len(p)) = p
    BY LenProperties
  <1>3. SubSeq(p, 1, Len(p)) \in Line(p)
    BY <1>1, Zenon DEF Line
  <1> QED
    BY <1>2, <1>3

\* Every element of the tree has a name, and is on its own line.
LEMMA NodeProperties ==
  ASSUME NEW n \in Node
  PROVE  n \in Seq(Level) /\ Len(n) \in Nat /\ Len(n) >= 1 /\ n \in Line(n) /\ IsPrefix(n, n)
  <1>1. PICK p \in Path : n \in Line(p)
    BY DEF Node
  <1>2. n \in Seq(Level) /\ Len(n) \in Nat /\ Len(n) >= 1
    BY <1>1, PathType, LineProperties, LenProperties
  <1> QED
    BY <1>2, LastOfLine DEF IsPrefix

\* A name that can be asked for is that of an element, and so is its line.
LEMMA PathIsNode ==
  ASSUME NEW p \in Path
  PROVE  p \in Node /\ Line(p) \subseteq Node
  BY PathType, LastOfLine DEF Node

\* What a request is.
LEMMA RequestType ==
  ASSUME LockerTypeOK, NEW c \in Conn
  PROVE  /\ ask[c].req \in Request
         /\ ask[c].req.path \in Path
         /\ ask[c].req.path \in Node
         /\ Line(ask[c].req.path) \subseteq Node
         /\ [conn |-> c, mode |-> ask[c].req.mode] \in Holder
         /\ [conn |-> c, req |-> ask[c].req] \in Waiter
  <1>1. ask[c].req \in Request
    BY DEF LockerTypeOK, Ask
  <1>2. ask[c].req.path \in Path
    BY <1>1 DEF Path
  <1>3. ask[c].req.mode \in 0..5
    BY <1>1, HierAssumption
  <1> QED
    BY <1>1, <1>2, <1>3, PathIsNode DEF Holder, Waiter

-------------------------------------------------------------------------------
(* Type correctness. *)

\* A new record, in a new element or in an old one, keeps the types.
LEMMA AddType ==
  ASSUME TypeOK, NEW c \in Conn, add_locker(c)
  PROVE  nodes' \subseteq Node /\ holders' \in [Node -> Seq(Holder)]
  <1> DEFINE p == ask[c].req.path
             e == [conn |-> c, mode |-> ask[c].req.mode]
  <1>1. /\ LockerTypeOK /\ nodes \subseteq Node /\ holders \in [Node -> Seq(Holder)]
        /\ nodes' = nodes \cup Line(p)
        /\ holders' = [holders EXCEPT ![p] = <<e>> \o @]
    BY DEF TypeOK, add_locker
  <1>2. p \in Node /\ Line(p) \subseteq Node /\ e \in Holder
    BY <1>1, RequestType
  <1> HIDE DEF p, e
  <1>3. <<e>> \o holders[p] \in Seq(Holder)
    BY <1>1, <1>2, PrependProperties
  <1> QED
    BY <1>1, <1>2, <1>3

\* inmsg on a LOCK message keeps the types.
LEMMA LockType ==
  ASSUME TypeOK, NEW c \in Conn, Lock(c)
  PROVE  TypeOK'
  <1>1. PICK rc \in Answer : Reply(c, rc)
    BY DEF Lock, LockGrant, LockEnqueue, LockBusy, Answer
  <1>2. vfs' \subseteq VfsNode
    BY DEF Lock, LockGrant, LockEnqueue, LockBusy, VfsAdd, VfsNode, TypeOK, LockerTypeOK
  <1>3. LockerTypeOK'
    BY <1>1, <1>2, ReplyType DEF TypeOK
  <1>4. CASE LockGrant(c)
    <2>1. nodes' \subseteq Node /\ holders' \in [Node -> Seq(Holder)]
      BY <1>4, AddType DEF LockGrant
    <2> QED
      BY <1>3, <1>4, <2>1 DEF LockGrant, TypeOK
  <1>5. CASE LockEnqueue(c)
    <2>1. waitings' \in Seq(Waiter)
      BY <1>5, RequestType, AppendedProperties DEF LockEnqueue, TypeOK
    <2> QED
      BY <1>3, <1>5, <2>1 DEF LockEnqueue, TypeOK
  <1>6. CASE LockBusy(c)
    BY <1>3, <1>6 DEF LockBusy, hierVars, TypeOK
  <1> QED
    BY <1>4, <1>5, <1>6 DEF Lock

\* clean keeps the types.
LEMMA CleanType ==
  ASSUME TypeOK, NEW c \in Conn, NEW path \in CleanPath, Clean(c, path)
  PROVE  TypeOK'
  <1>1. name' \in Path
    BY RequestType DEF Clean, change_name, TypeOK
  <1>2. PICK n \in nodes : CleanHolder(c, path, n) \/ CleanWaiter(c, path, n)
    BY DEF Clean
  <1>3. n \in Node /\ holders \in [Node -> Seq(Holder)] /\ holders[n] \in Seq(Holder)
    BY DEF TypeOK
  <1>4. CASE CleanHolder(c, path, n)
    <2>1. PICK k \in DOMAIN holders[n] : holders' = [holders EXCEPT ![n] = RemoveAt(@, k)]
      BY <1>4 DEF CleanHolder
    <2>2. RemoveAt(holders[n], k) \in Seq(Holder)
      BY <1>3, RemoveAtProperties
    <2>3. holders' \in [Node -> Seq(Holder)]
      BY <1>3, <2>1, <2>2
    <2>4. LockerTypeOK'
      BY <1>4, StartScanType DEF CleanHolder, TypeOK
    <2> QED
      BY <1>1, <1>4, <2>3, <2>4 DEF CleanHolder, TypeOK
  <1>5. CASE CleanWaiter(c, path, n)
    <2>1. LockerTypeOK'
      BY <1>5, EndCleanType DEF CleanWaiter, TypeOK
    <2>2. waitings' \in Seq(Waiter)
      BY <1>5, RemoveAtProperties DEF CleanWaiter, TypeOK
    <2>3. nodes' \subseteq Node
      BY <1>5 DEF CleanWaiter, gc, TypeOK
    <2> QED
      BY <1>1, <1>5, <2>1, <2>2, <2>3 DEF CleanWaiter, TypeOK
  <1> QED
    BY <1>2, <1>4, <1>5

\* The record at the cursor is that of a connection.
LEMMA CursorConn ==
  ASSUME TypeOK, job.i \in DOMAIN waitings
  PROVE  waitings[job.i].conn \in Conn
  <1>1. waitings[job.i] \in Waiter
    BY ElementOfSeq, LenProperties DEF TypeOK
  <1> QED
    BY <1>1 DEF Waiter

\* Every turn of the scan keeps the types.
LEMMA WaitingsType ==
  ASSUME TypeOK, Waitings
  PROVE  TypeOK'
  <1>1. LockerTypeOK /\ Scanning
    BY DEF TypeOK, Waitings
  <1>2. job.conn \in Conn
    BY <1>1, JobFields DEF Scanning
  <1>3. CASE WaitingsEnd
    <2>1. LockerTypeOK'
      BY <1>1, <1>2, <1>3, ScanType DEF WaitingsEnd
    <2>2. nodes' \subseteq Node
      BY <1>3 DEF WaitingsEnd, gc, TypeOK
    <2> QED
      BY <1>3, <2>1, <2>2 DEF WaitingsEnd, TypeOK
  <1>4. CASE WaitingsSkip
    <2>1. LockerTypeOK'
      BY <1>1, <1>2, <1>4, ScanType DEF WaitingsSkip
    <2> QED
      BY <1>4, <2>1 DEF WaitingsSkip, hierVars, TypeOK
  <1>5. CASE WaitingsPop
    <2>1. PICK c \in Conn : c = waitings[job.i].conn
      BY <1>5, CursorConn DEF WaitingsPop
    <2>2. /\ ScanGrant(c) \/ ScanAbort(c)
          /\ add_locker(c)
          /\ waitings' = RemoveAt(waitings, job.i) /\ job.i \in DOMAIN waitings
          /\ name' = name /\ (freed' = freed \/ freed' = TRUE)
      BY <1>5, <2>1 DEF WaitingsPop
    <2>3. LockerTypeOK'
      BY <1>1, <2>2, ScanType
    <2>4. nodes' \subseteq Node /\ holders' \in [Node -> Seq(Holder)]
      BY <2>2, AddType
    <2>5. waitings' \in Seq(Waiter)
      BY <2>2, RemoveAtProperties DEF TypeOK
    <2> QED
      BY <2>2, <2>3, <2>4, <2>5 DEF TypeOK
  <1> QED
    BY <1>3, <1>4, <1>5 DEF Waitings

\* Every step keeps the types.
LEMMA TypeStep ==
  ASSUME TypeOK, [Next]_vars
  PROVE  TypeOK'
  <1>1. CASE Peers({"UNLOCK"}) /\ UNCHANGED hierVars
    <2>1. LockerTypeOK'
      BY <1>1, PeersType DEF TypeOK, MsgVerb
    <2> QED
      BY <1>1, <2>1 DEF hierVars, TypeOK
  <1>2. CASE UNCHANGED vars
    BY <1>2 DEF vars, lockerVars, hierVars, TypeOK, LockerTypeOK
  <1> QED
    BY <1>1, <1>2, LockType, CleanType, WaitingsType DEF Next, Thread

\* The tree begins with the line of the first name.
LEMMA TypeInit == Init => TypeOK
  <1> SUFFICES ASSUME Init
               PROVE  TypeOK
    OBVIOUS
  <1>1. LockerTypeOK
    BY LockerInitType DEF Init
  <1>2. name \in Path /\ nodes \subseteq Node
    BY <1>1, RequestType DEF Init
  <1> QED
    BY <1>1, <1>2, EmptySeq DEF Init, TypeOK

-------------------------------------------------------------------------------
(* can_lock sees every lock, so that locks on one line are compatible. *)

\* A record of the queue has the request of its connection.
QueueAsks == \A k \in DOMAIN waitings : waitings[k].req = ask[waitings[k].conn].req

\* No step changes what a connection asks for.
LEMMA AskKept ==
  ASSUME [Next]_vars
  PROVE  ask' = ask
  <1>1. Peers({"UNLOCK"}) => ask' = ask
    BY DEF Peers, Transfer, RetryLock, Unlock, Disconnect, Crash
  <1>2. \A c \in Conn : Lock(c) => ask' = ask
    BY DEF Lock, LockGrant, LockEnqueue, LockBusy, Reply
  <1>3. \A c \in Conn, path \in CleanPath : Clean(c, path) => ask' = ask
    BY DEF Clean, CleanHolder, CleanWaiter, StartScan, EndClean
  <1>4. Waitings => ask' = ask
    BY DEF Waitings, WaitingsEnd, WaitingsSkip, WaitingsPop, ScanEnd, ScanSkip,
           ScanGrant, ScanAbort
  <1> QED
    BY <1>1, <1>2, <1>3, <1>4 DEF Next, Thread, vars, lockerVars

\* Every step keeps the requests in the queue.
LEMMA QueueAsksStep ==
  ASSUME TypeOK, QueueAsks, [Next]_vars
  PROVE  QueueAsks'
  <1>1. ask' = ask /\ waitings \in Seq(Waiter)
    BY AskKept DEF TypeOK
  <1>2. \/ waitings' = waitings
        \/ \E k \in DOMAIN waitings : waitings' = RemoveAt(waitings, k)
        \/ \E c \in Conn : waitings' = Append(waitings, [conn |-> c, req |-> ask[c].req])
    <2>1. \A c \in Conn : Lock(c) =>
            \/ waitings' = waitings
            \/ waitings' = Append(waitings, [conn |-> c, req |-> ask[c].req])
      BY DEF Lock, LockGrant, LockEnqueue, LockBusy, hierVars
    <2>2. \A c \in Conn, path \in CleanPath : Clean(c, path) =>
            waitings' = waitings \/ \E k \in DOMAIN waitings : waitings' = RemoveAt(waitings, k)
      BY DEF Clean, CleanHolder, CleanWaiter
    <2>3. Waitings =>
            waitings' = waitings \/ \E k \in DOMAIN waitings : waitings' = RemoveAt(waitings, k)
      BY DEF Waitings, WaitingsEnd, WaitingsSkip, WaitingsPop, hierVars
    <2> QED
      BY <2>1, <2>2, <2>3 DEF Next, Thread, vars, hierVars
  <1>3. CASE waitings' = waitings
    BY <1>1, <1>3 DEF QueueAsks
  <1>4. ASSUME NEW k \in DOMAIN waitings, waitings' = RemoveAt(waitings, k)
        PROVE  QueueAsks'
    <2>1. \A j \in DOMAIN waitings' : \E i \in DOMAIN waitings : waitings'[j] = waitings[i]
      BY <1>1, <1>4, RecordsFrom
    <2> QED
      BY <1>1, <2>1 DEF QueueAsks
  <1>5. ASSUME NEW c \in Conn, waitings' = Append(waitings, [conn |-> c, req |-> ask[c].req])
        PROVE  QueueAsks'
    <2> DEFINE e == [conn |-> c, req |-> ask[c].req]
    <2>1. e \in Waiter /\ e.conn = c /\ e.req = ask[c].req
      BY RequestType DEF TypeOK
    <2> HIDE DEF e
    <2>2. waitings' = Append(waitings, e)
      BY <1>5 DEF e
    <2>3. \A j \in DOMAIN waitings' :
            waitings'[j] = e \/ \E i \in DOMAIN waitings : waitings'[j] = waitings[i]
      BY <1>1, <2>1, <2>2, RecordsFrom
    <2> QED
      BY <1>1, <2>1, <2>3 DEF QueueAsks
  <1> QED
    BY <1>2, <1>3, <1>4, <1>5

\* A record in the tree: the elements on its way are there.
LEMMA AddReachable ==
  ASSUME TypeOK, HoldersReachable, NEW c \in Conn, add_locker(c)
  PROVE  HoldersReachable'
  <1> DEFINE p == ask[c].req.path
  <1>1. /\ holders \in [Node -> Seq(Holder)] /\ p \in Node
        /\ nodes' = nodes \cup Line(p)
    BY RequestType DEF TypeOK, add_locker
  <1>2. \A n \in Node : n # p => holders'[n] = holders[n]
    BY <1>1 DEF add_locker
  <1> HIDE DEF p
  <1> QED
    BY <1>1, <1>2 DEF HoldersReachable

\* gc takes away no element on the way to a record.
LEMMA GcReachable ==
  ASSUME TypeOK, HoldersReachable, gc, UNCHANGED holders
  PROVE  HoldersReachable'
  <1> SUFFICES ASSUME NEW n \in Node, holders[n] # <<>>, NEW m \in Line(n)
               PROVE  m \in nodes'
    BY DEF HoldersReachable
  <1>1. m \in nodes /\ n \in nodes
    BY NodeProperties DEF HoldersReachable
  <1>2. IsPrefix(m, n)
    BY NodeProperties, LineProperties
  <1> QED
    BY <1>1, <1>2 DEF gc

\* A record more, if can_lock accepts it.
LEMMA AddCompatible ==
  ASSUME TypeOK, HoldersReachable, LineCompatible, NEW c \in Conn,
         can_lock(ask[c].req), add_locker(c)
  PROVE  LineCompatible'
  <1> DEFINE p == ask[c].req.path
             mode == ask[c].req.mode
             e == [conn |-> c, mode |-> mode]
  <1>1. /\ holders \in [Node -> Seq(Holder)] /\ p \in Node /\ e \in Holder
        /\ holders' = [holders EXCEPT ![p] = <<e>> \o @]
        /\ mode \in 0..5 /\ e.mode = mode
    <2>1. e \in Holder
      BY RequestType DEF TypeOK
    <2> QED
      BY <2>1, RequestType DEF TypeOK, add_locker, Holder
  <1>2. \A n \in Node : IsPrefix(n, p) \/ IsPrefix(p, n) =>
          \A k \in DOMAIN holders[n] : Compatible(holders[n][k].mode, mode)
    <2> SUFFICES ASSUME NEW n \in Node, IsPrefix(n, p) \/ IsPrefix(p, n),
                        NEW k \in DOMAIN holders[n]
                 PROVE  Compatible(holders[n][k].mode, mode)
      OBVIOUS
    <2>1. holders[n] \in Seq(Holder) /\ holders[n] # <<>>
      BY <1>1
    <2>2. n \in nodes
      BY <2>1, NodeProperties DEF HoldersReachable
    <2> QED
      BY <2>2 DEF can_lock, NodeAllows
  <1>3. \A a, b \in 0..5 : Compatible(a, b) => Compatible(b, a)
    BY DEF Compatible, lock_table
  <1> HIDE DEF p, e, mode
  <1>4. \A n \in Node : \A k \in DOMAIN holders[n] : holders[n][k].mode \in 0..5
    <2> SUFFICES ASSUME NEW n \in Node, NEW k \in DOMAIN holders[n]
                 PROVE  holders[n][k].mode \in 0..5
      OBVIOUS
    <2>1. holders[n][k] \in Holder
      BY <1>1, ElementOfSeq, LenProperties
    <2> QED
      BY <2>1 DEF Holder
  <1>4a. \A n \in Node : IsPrefix(n, p) \/ IsPrefix(p, n) =>
           \A k \in DOMAIN holders[n] : Compatible(mode, holders[n][k].mode)
    BY <1>1, <1>2, <1>3, <1>4
  <1>5. \A n \in Node : n # p => holders'[n] = holders[n]
    BY <1>1
  <1>6. /\ DOMAIN holders'[p] = 1..(Len(holders[p]) + 1)
        /\ \A j \in 1..(Len(holders[p]) + 1) :
             holders'[p][j] = IF j = 1 THEN e ELSE holders[p][j - 1]
        /\ Len(holders[p]) \in Nat /\ DOMAIN holders[p] = 1..Len(holders[p])
    <2>1. holders'[p] = <<e>> \o holders[p] /\ holders[p] \in Seq(Holder)
      BY <1>1
    <2> QED
      BY <1>1, <2>1, PrependProperties, LenProperties
  <1>7. \A j \in DOMAIN holders'[p] :
          \/ j = 1 /\ holders'[p][j] = e
          \/ j # 1 /\ j - 1 \in DOMAIN holders[p] /\ holders'[p][j] = holders[p][j - 1]
    BY <1>6
  <1>8. IsPrefix(p, p)
    BY <1>1, NodeProperties
  <1>9. SUFFICES ASSUME NEW q \in Node, NEW r \in Node, IsPrefix(q, r),
                        NEW j \in DOMAIN holders'[q], NEW k \in DOMAIN holders'[r],
                        q # r \/ j # k
                 PROVE  Compatible(holders'[q][j].mode, holders'[r][k].mode)
    BY DEF LineCompatible
  <1>10. CASE q = p /\ r = p
    <2>1. CASE j = 1
      BY <1>1, <1>7, <1>8, <1>9, <1>10, <1>4a, <2>1
    <2>2. CASE k = 1
      BY <1>1, <1>2, <1>7, <1>8, <1>9, <1>10, <2>2
    <2>3. CASE j # 1 /\ k # 1
      <3>1. /\ j - 1 \in DOMAIN holders[p] /\ holders'[p][j] = holders[p][j - 1]
            /\ k - 1 \in DOMAIN holders[p] /\ holders'[p][k] = holders[p][k - 1]
        BY <1>7, <1>9, <1>10, <2>3
      <3>2. j - 1 # k - 1
        BY <1>6, <1>9, <1>10
      <3> QED
        BY <1>1, <1>8, <1>10, <3>1, <3>2 DEF LineCompatible
    <2> QED
      BY <2>1, <2>2, <2>3
  <1>11. CASE q = p /\ r # p
    <2>1. holders'[r] = holders[r] /\ k \in DOMAIN holders[r]
      BY <1>5, <1>9, <1>11
    <2>2. CASE j = 1
      BY <1>1, <1>7, <1>9, <1>11, <1>4a, <2>1, <2>2
    <2>3. CASE j # 1
      <3>1. j - 1 \in DOMAIN holders[p] /\ holders'[p][j] = holders[p][j - 1]
        BY <1>7, <1>9, <1>11, <2>3
      <3> QED
        BY <1>9, <1>11, <2>1, <3>1 DEF LineCompatible
    <2> QED
      BY <2>2, <2>3
  <1>12. CASE q # p /\ r = p
    <2>1. holders'[q] = holders[q] /\ j \in DOMAIN holders[q]
      BY <1>5, <1>9, <1>12
    <2>2. CASE k = 1
      BY <1>1, <1>2, <1>7, <1>9, <1>12, <2>1, <2>2
    <2>3. CASE k # 1
      <3>1. k - 1 \in DOMAIN holders[p] /\ holders'[p][k] = holders[p][k - 1]
        BY <1>7, <1>9, <1>12, <2>3
      <3> QED
        BY <1>9, <1>12, <2>1, <3>1 DEF LineCompatible
    <2> QED
      BY <2>2, <2>3
  <1>13. CASE q # p /\ r # p
    BY <1>5, <1>9, <1>13 DEF LineCompatible
  <1> QED
    BY <1>10, <1>11, <1>12, <1>13

\* A record less.
LEMMA RemoveTree ==
  ASSUME TypeOK, HoldersReachable, LineCompatible, NEW n \in Node, NEW k \in DOMAIN holders[n],
         holders' = [holders EXCEPT ![n] = RemoveAt(@, k)], UNCHANGED nodes
  PROVE  HoldersReachable' /\ LineCompatible'
  <1>1. /\ holders \in [Node -> Seq(Holder)]
        /\ holders'[n] = RemoveAt(holders[n], k)
        /\ \A m \in Node : m # n => holders'[m] = holders[m]
        /\ Len(holders[n]) \in Nat /\ DOMAIN holders[n] = 1..Len(holders[n])
    BY LenProperties DEF TypeOK
  <1>2. /\ DOMAIN holders'[n] = 1..(Len(holders[n]) - 1)
        /\ \A j \in 1..(Len(holders[n]) - 1) :
             holders'[n][j] = IF j < k THEN holders[n][j] ELSE holders[n][j + 1]
    <2>1. holders[n] \in Seq(Holder)
      BY <1>1
    <2> QED
      BY <1>1, <2>1, RemoveAtProperties
  <1> DEFINE From(m, j) == IF m = n /\ ~(j < k) THEN j + 1 ELSE j
  <1>3. \A m \in Node : \A j \in DOMAIN holders'[m] :
          From(m, j) \in DOMAIN holders[m] /\ holders'[m][j] = holders[m][From(m, j)]
    BY <1>1, <1>2
  <1>4. \A m \in Node : \A i, j \in DOMAIN holders'[m] : From(m, i) = From(m, j) => i = j
    BY <1>1, <1>2
  <1>5. HoldersReachable'
    <2>1. holders[n] # <<>>
      BY <1>1
    <2> QED
      BY <1>1, <2>1 DEF HoldersReachable
  <1> HIDE DEF From
  <1>6. LineCompatible'
    <2> SUFFICES ASSUME NEW p \in Node, NEW q \in Node, IsPrefix(p, q),
                        NEW i \in DOMAIN holders'[p], NEW j \in DOMAIN holders'[q],
                        p # q \/ i # j
                 PROVE  Compatible(holders'[p][i].mode, holders'[q][j].mode)
      BY DEF LineCompatible
    <2>1. p # q \/ From(p, i) # From(q, j)
      BY <1>4
    <2> QED
      BY <1>3, <2>1 DEF LineCompatible
  <1> QED
    BY <1>5, <1>6

TreeInv == HoldersReachable /\ LineCompatible /\ QueueAsks

\* Every step keeps the locks of a line reachable and compatible.
LEMMA TreeStep ==
  ASSUME TypeOK, TreeInv, [Next]_vars
  PROVE  TreeInv'
  <1>1. QueueAsks'
    BY QueueAsksStep DEF TreeInv
  <1>2. HoldersReachable /\ LineCompatible
    BY DEF TreeInv
  <1>3. CASE UNCHANGED <<nodes, holders>>
    BY <1>1, <1>2, <1>3 DEF TreeInv, HoldersReachable, LineCompatible
  <1>4. CASE gc /\ UNCHANGED holders
    <2>1. HoldersReachable'
      BY <1>2, <1>4, GcReachable
    <2>2. LineCompatible'
      BY <1>2, <1>4 DEF LineCompatible
    <2> QED
      BY <1>1, <2>1, <2>2 DEF TreeInv
  <1>5. ASSUME NEW c \in Conn, can_lock(ask[c].req), add_locker(c)
        PROVE  TreeInv'
    BY <1>1, <1>2, <1>5, AddReachable, AddCompatible DEF TreeInv
  <1>6. ASSUME NEW c \in Conn, Lock(c)
        PROVE  TreeInv'
    BY <1>3, <1>5, <1>6 DEF Lock, LockGrant, LockEnqueue, LockBusy, hierVars
  <1>7. ASSUME NEW c \in Conn, NEW path \in CleanPath, Clean(c, path)
        PROVE  TreeInv'
    <2>1. PICK n \in nodes : CleanHolder(c, path, n) \/ CleanWaiter(c, path, n)
      BY <1>7 DEF Clean
    <2>2. n \in Node
      BY DEF TypeOK
    <2>3. CASE CleanHolder(c, path, n)
      <3>1. PICK k \in DOMAIN holders[n] :
              holders' = [holders EXCEPT ![n] = RemoveAt(@, k)] /\ UNCHANGED nodes
        BY <2>3 DEF CleanHolder
      <3>2. HoldersReachable' /\ LineCompatible'
        BY <1>2, <2>2, <3>1, RemoveTree
      <3> QED
        BY <1>1, <3>2 DEF TreeInv
    <2>4. CASE CleanWaiter(c, path, n)
      BY <1>4, <2>4 DEF CleanWaiter
    <2> QED
      BY <2>1, <2>3, <2>4
  <1>8. CASE Waitings
    <2>1. CASE WaitingsPop
      <3>1. PICK c \in Conn : c = waitings[job.i].conn
        BY <2>1, CursorConn DEF WaitingsPop
      <3>2. can_lock(ask[c].req) /\ add_locker(c)
        BY <2>1, <3>1 DEF WaitingsPop, TreeInv, QueueAsks
      <3> QED
        BY <1>5, <3>2
    <2> QED
      BY <1>3, <1>4, <1>8, <2>1 DEF Waitings, WaitingsEnd, WaitingsSkip, hierVars
  <1> QED
    BY <1>3, <1>6, <1>7, <1>8 DEF Next, Thread, vars, hierVars

\* The tree begins without locks.
LEMMA TreeInvInit == Init => TreeInv
  <1> SUFFICES ASSUME Init
               PROVE  TreeInv
    OBVIOUS
  <1>1. \A n \in Node : holders[n] = <<>>
    BY DEF Init
  <1>2. HoldersReachable /\ LineCompatible
    BY <1>1 DEF HoldersReachable, LineCompatible
  <1>3. QueueAsks
    BY DEF Init, QueueAsks
  <1> QED
    BY <1>2, <1>3 DEF TreeInv

\* Two granted locks on one line of the tree are compatible, whatever elements
\* add_locker and gc add and remove between the two grants: no lock is ever out of
\* the sight of can_lock, above or below.
THEOREM LinesCompatible == Spec => []LineCompatible
  <1>1. Init => TypeOK /\ TreeInv
    BY TypeInit, TreeInvInit
  <1>2. TypeOK /\ TreeInv /\ [Next]_vars => (TypeOK /\ TreeInv)'
    BY TypeStep, TreeStep
  <1>3. TreeInv => LineCompatible
    BY DEF TreeInv
  <1>4. QED
    BY <1>1, <1>2, <1>3, PTL DEF Spec

-------------------------------------------------------------------------------
(* No lost wakeup. *)

\* What the scan knows: the requests behind the cursor can not be served, and between
\* two scans none can, unless the last one was aborted.
ScanInv ==
  thread = "loop" /\ ~freed =>
    /\ Scanning => \A k \in DOMAIN waitings : k < job.i => ~can_lock(waitings[k].req)
    /\ ~Scanning /\ ~aborted => \A k \in DOMAIN waitings : ~can_lock(waitings[k].req)

\* A record more never makes a lock possible that was not.
LEMMA AddBlocks ==
  ASSUME TypeOK, NEW c \in Conn, add_locker(c), NEW req, ~can_lock(req)
  PROVE  ~can_lock(req)'
  <1> DEFINE p == ask[c].req.path
             e == [conn |-> c, mode |-> ask[c].req.mode]
  <1>1. /\ p \in Node /\ e \in Holder /\ holders \in [Node -> Seq(Holder)]
        /\ nodes \subseteq Node
        /\ nodes' = nodes \cup Line(p)
        /\ holders' = [holders EXCEPT ![p] = <<e>> \o @]
    BY RequestType DEF TypeOK, add_locker
  <1> HIDE DEF p, e
  <1>2. PICK n \in nodes : /\ IsPrefix(n, req.path) \/ IsPrefix(req.path, n)
                           /\ ~NodeAllows(n, req.mode)
    BY DEF can_lock
  <1>3. PICK k \in DOMAIN holders[n] : ~Compatible(holders[n][k].mode, req.mode)
    BY <1>2 DEF NodeAllows
  <1>4. n \in Node /\ holders[n] \in Seq(Holder) /\ n \in nodes'
    BY <1>1
  <1>5. \E j \in DOMAIN holders'[n] : holders'[n][j] = holders[n][k]
    <2>1. CASE n # p
      BY <1>1, <1>4, <2>1
    <2>2. CASE n = p
      <3>1. holders'[n] = <<e>> \o holders[n]
        BY <1>1, <2>2
      <3>2. k \in 1..Len(holders[n]) /\ Len(holders[n]) \in Nat
        BY <1>4, LenProperties
      <3>3. k + 1 \in DOMAIN holders'[n] /\ holders'[n][k + 1] = holders[n][k]
        BY <1>1, <1>4, <3>1, <3>2, PrependProperties
      <3> QED
        BY <3>3
    <2> QED
      BY <2>1, <2>2
  <1> QED
    BY <1>2, <1>3, <1>4, <1>5 DEF can_lock, NodeAllows

\* gc takes no lock away that blocks a request.
LEMMA GcBlocks ==
  ASSUME TypeOK, gc, UNCHANGED holders, NEW req, ~can_lock(req)
  PROVE  ~can_lock(req)'
  <1>1. PICK n \in nodes : /\ IsPrefix(n, req.path) \/ IsPrefix(req.path, n)
                           /\ ~NodeAllows(n, req.mode)
    BY DEF can_lock
  <1>2. n \in Node /\ holders[n] \in Seq(Holder) /\ holders[n] # <<>>
    BY <1>1 DEF TypeOK, NodeAllows
  <1>3. n \in nodes'
    BY <1>2, NodeProperties DEF gc
  <1> QED
    BY <1>1, <1>3 DEF can_lock, NodeAllows

\* can_lock is about the tree only.
LEMMA SameTreeBlocks ==
  ASSUME UNCHANGED <<nodes, holders>>, NEW req, ~can_lock(req)
  PROVE  ~can_lock(req)'
  BY DEF can_lock, NodeAllows

\* inmsg between two scans.
LEMMA LockScanInv ==
  ASSUME TypeOK, ScanInv, ~freed, NEW c \in Conn, Lock(c)
  PROVE  ScanInv'
  <1>1. thread = "loop" /\ ~Scanning
    BY DEF Lock, CanRead, Polling, Scanning
  <1>2. aborted' = aborted /\ ~Scanning'
    BY <1>1 DEF Lock, LockGrant, LockEnqueue, LockBusy, Reply, CanRead, Polling, Scanning, Idle
  <1>3. SUFFICES ASSUME ~aborted
                 PROVE  \A k \in DOMAIN waitings' : ~can_lock(waitings[k].req)'
    BY <1>2 DEF ScanInv
  <1>4. \A k \in DOMAIN waitings : ~can_lock(waitings[k].req)
    BY <1>1, <1>3 DEF ScanInv
  <1>5. CASE LockGrant(c)
    <2>1. add_locker(c) /\ waitings' = waitings
      BY <1>5 DEF LockGrant
    <2> QED
      BY <1>4, <2>1, AddBlocks
  <1>6. CASE LockEnqueue(c)
    <2> DEFINE e == [conn |-> c, req |-> ask[c].req]
    <2>1. /\ waitings' = Append(waitings, e) /\ UNCHANGED <<nodes, holders>>
          /\ e \in Waiter /\ e.req = ask[c].req /\ ~can_lock(ask[c].req)
      BY <1>6, RequestType DEF LockEnqueue, TypeOK
    <2> HIDE DEF e
    <2>2. \A k \in DOMAIN waitings' :
            waitings'[k] = e \/ \E i \in DOMAIN waitings : waitings'[k] = waitings[i]
      BY <2>1, RecordsFrom DEF TypeOK
    <2>3. ASSUME NEW k \in DOMAIN waitings'
          PROVE  ~can_lock(waitings'[k].req)
      BY <1>4, <2>1, <2>2
    <2> QED
      BY <2>1, <2>3, SameTreeBlocks
  <1>7. CASE LockBusy(c)
    <2>1. UNCHANGED <<nodes, holders, waitings>>
      BY <1>7 DEF LockBusy, hierVars
    <2> QED
      BY <1>4, <2>1, SameTreeBlocks
  <1> QED
    BY <1>5, <1>6, <1>7 DEF Lock

\* clean starts a scan, or shortens the queue.
LEMMA CleanScanInv ==
  ASSUME TypeOK, ScanInv, ~freed, NEW c \in Conn, NEW path \in CleanPath, Clean(c, path)
  PROVE  ScanInv'
  <1>1. thread = "loop" /\ ~Scanning
    BY DEF Clean, CleanEvent, HungUp, Scanning, CleanPath
  <1>2. PICK n \in nodes : CleanHolder(c, path, n) \/ CleanWaiter(c, path, n)
    BY DEF Clean
  <1>3. CASE CleanHolder(c, path, n)
    <2>1. thread' = "loop" /\ job' = [path |-> path, conn |-> c, i |-> 1]
      BY <1>1, <1>3 DEF CleanHolder, StartScan
    <2>2. Scanning' /\ job'.i = 1
      BY <2>1 DEF Scanning, Idle, CleanPath
    <2>3. \A k \in DOMAIN waitings' : ~(k < 1)
      BY CleanType, LenProperties DEF TypeOK
    <2> QED
      BY <2>2, <2>3 DEF ScanInv
  <1>4. CASE CleanWaiter(c, path, n)
    <2>1. /\ thread' = "loop" /\ ~Scanning' /\ aborted' = aborted /\ holders' = holders
          /\ gc
      BY <1>1, <1>4 DEF CleanWaiter, EndClean, Scanning
    <2>2. \A j \in DOMAIN waitings' : \E i \in DOMAIN waitings : waitings'[j] = waitings[i]
      BY <1>4, RecordsFrom DEF CleanWaiter, TypeOK
    <2>3. ASSUME ~aborted, NEW j \in DOMAIN waitings'
          PROVE  ~can_lock(waitings'[j].req)
      BY <1>1, <2>2, <2>3 DEF ScanInv
    <2> QED
      BY <2>1, <2>3, GcBlocks DEF ScanInv
  <1> QED
    BY <1>2, <1>3, <1>4

\* A turn of the scan.
LEMMA WaitingsScanInv ==
  ASSUME TypeOK, ScanInv, ~freed, Waitings
  PROVE  ScanInv'
  <1>1. /\ thread = "loop" /\ Scanning
        /\ \A k \in DOMAIN waitings : k < job.i => ~can_lock(waitings[k].req)
    BY DEF Waitings, Scanning, ScanInv
  <1>2. /\ job \in [path : {"unlock", "error", "second", "reclean", "timeout"},
                    conn : Conn, i : Nat]
        /\ job.i \in Nat
        /\ waitings \in Seq(Waiter) /\ Len(waitings) \in Nat
        /\ DOMAIN waitings = 1..Len(waitings)
    BY <1>1, JobFields, LenProperties DEF TypeOK, Scanning
  <1>3. CASE WaitingsEnd
    <2>1. ~Scanning' /\ UNCHANGED <<holders, waitings>> /\ gc
      BY <1>3 DEF WaitingsEnd, ScanEnd, Scanning
    <2>2. \A k \in DOMAIN waitings : ~can_lock(waitings[k].req)
      BY <1>1, <1>2, <1>3 DEF WaitingsEnd
    <2> QED
      BY <2>1, <2>2, GcBlocks DEF ScanInv
  <1>4. CASE WaitingsSkip
    <2>1. /\ UNCHANGED <<nodes, holders, waitings>>
          /\ thread' = "loop" /\ job' = [job EXCEPT !.i = @ + 1]
      BY <1>1, <1>4 DEF WaitingsSkip, ScanSkip, hierVars
    <2>2. job'.i = job.i + 1 /\ job'.path = job.path
      BY <1>2, <2>1
    <2>3. Scanning'
      BY <1>1, <1>2, <2>1, <2>2 DEF Scanning, Idle
    <2>4. \A k \in DOMAIN waitings : k < job.i + 1 => ~can_lock(waitings[k].req)
      BY <1>1, <1>2, <1>4 DEF WaitingsSkip
    <2> QED
      BY <2>1, <2>2, <2>3, <2>4, SameTreeBlocks DEF ScanInv
  <1>5. CASE WaitingsPop
    <2>1. PICK c \in Conn : c = waitings[job.i].conn
      BY <1>5, CursorConn DEF WaitingsPop
    <2>2. /\ job.i \in DOMAIN waitings /\ waitings' = RemoveAt(waitings, job.i)
          /\ add_locker(c)
          /\ \/ ScanGrant(c)
             \/ ScanAbort(c) /\ freed' = TRUE
      BY <1>5, <2>1 DEF WaitingsPop
    <2>3. CASE ScanGrant(c)
      <3>1. job' = job /\ Scanning'
        BY <1>1, <2>3 DEF ScanGrant, Scanning
      <3>2. ASSUME NEW k \in DOMAIN waitings', k < job.i
            PROVE  ~can_lock(waitings'[k].req)
        <4>a. /\ DOMAIN waitings' = 1..(Len(waitings) - 1)
              /\ \A j \in 1..(Len(waitings) - 1) :
                   waitings'[j] = IF j < job.i THEN waitings[j] ELSE waitings[j + 1]
          BY <1>2, <2>2, RemoveAtProperties
        <4>1. k \in DOMAIN waitings /\ waitings'[k] = waitings[k]
          BY <1>2, <3>2, <4>a
        <4> QED
          BY <1>1, <3>2, <4>1
      <3>3. ASSUME NEW k \in DOMAIN waitings', k < job.i
            PROVE  ~can_lock(waitings[k].req)'
        BY <2>2, <3>2, <3>3, AddBlocks
      <3> QED
        BY <3>1, <3>3 DEF ScanInv
    <2>4. CASE ScanAbort(c) /\ freed' = TRUE
      BY <2>4 DEF ScanInv
    <2> QED
      BY <2>2, <2>3, <2>4
  <1> QED
    BY <1>3, <1>4, <1>5 DEF Waitings

\* When the thread is back in poll() after a scan that ran to its end, every queued
\* request is kept there by a lock above, below or at its name, also after gc.
THEOREM WakeupsNotLost == Spec => []NoLostWakeup
  <1>1. Init => TypeOK /\ ScanInv
    <2>1. Init => ScanInv
      BY DEF Init, LockerInit, ScanInv, Scanning
    <2> QED
      BY <2>1, TypeInit
  <1>2. TypeOK /\ ScanInv /\ [Next]_vars => (TypeOK /\ ScanInv)'
    <2> SUFFICES ASSUME TypeOK, ScanInv, [Next]_vars
                 PROVE  ScanInv'
      BY TypeStep
    <2>1. CASE UNCHANGED <<thread, job, aborted, hierVars>>
      <3>1. UNCHANGED <<nodes, holders, waitings, freed, thread, job, aborted>>
        BY <2>1 DEF hierVars
      <3> QED
        BY <3>1, SameTreeBlocks DEF ScanInv, Scanning
    <2>2. CASE Peers({"UNLOCK"}) /\ UNCHANGED hierVars
      <3>1. UNCHANGED <<thread, job, aborted>>
        BY <2>2 DEF Peers, Transfer, RetryLock, Unlock, Disconnect, Crash
      <3> QED
        BY <2>1, <2>2, <3>1
    <2> QED
      BY <2>1, <2>2, LockScanInv, CleanScanInv, WaitingsScanInv
         DEF Next, Thread, vars, lockerVars
  <1>3. ScanInv => NoLostWakeup
    BY DEF ScanInv, NoLostWakeup, Polling, Scanning
  <1>4. QED
    BY <1>1, <1>2, <1>3, PTL DEF Spec

-------------------------------------------------------------------------------
(* What the clients were told. *)

\* The connections the resource still keeps a lock for.  A record of a closed one may
\* also be in the tree: clean did not find it, because it looked under another name.
Granted == {c \in Conn : conn[c] # "closed" /\ HasEntry(holders[ask[c].req.path], c)}

\* A record is at the name its connection asked for, and there is one.
Placed ==
  \A n \in Node : /\ Distinct(holders[n])
                  /\ \A c \in Conn : HasEntry(holders[n], c) => n = ask[c].req.path

\* The second clean of a connection finds it open: without a scan that gave up, it was
\* asked for by the loop that could not send an answer.
RecleanOpen == job # Idle /\ job.path = "reclean" => conn[job.conn] = "open"

\* All of it, while no freed record is in the tree.
RecordsGood ==
  /\ Honest(Granted, Conns(waitings))
  /\ Distinct(waitings)
  /\ Placed
  /\ RecleanOpen
  /\ NoTimeout

RecordsInv == ~freed => RecordsGood

\* add_locker gives a lock to a connection that had none.
LEMMA AddGranted ==
  ASSUME TypeOK, Placed, NEW c \in Conn, c \notin Granted, conn[c] # "closed",
         add_locker(c), ask' = ask,
         \A d \in Conn : conn'[d] = "closed" <=> conn[d] = "closed"
  PROVE  Placed' /\ Granted' = Granted \cup {c}
  <1>1. PICK p \in Node : p = ask[c].req.path
    BY RequestType DEF TypeOK
  <1>2. PICK e \in Holder : e = [conn |-> c, mode |-> ask[c].req.mode]
    BY RequestType DEF TypeOK
  <1>3. /\ holders \in [Node -> Seq(Holder)] /\ e.conn = c
        /\ holders' = [holders EXCEPT ![p] = <<e>> \o @]
    BY <1>1, <1>2 DEF TypeOK, add_locker
  <1>4. holders'[p] = <<e>> \o holders[p] /\ holders[p] \in Seq(Holder)
    BY <1>3
  <1>5. c \notin Conns(holders[p])
    BY <1>1, HasEntryConns DEF Granted
  <1>6. Distinct(holders'[p]) /\ Conns(holders'[p]) = Conns(holders[p]) \cup {c}
    BY <1>3, <1>4, <1>5, PrependedConn DEF Placed
  <1>7. \A n \in Node : n # p => holders'[n] = holders[n]
    BY <1>3
  <1>8. \A n \in Node, d \in Conn :
          HasEntry(holders'[n], d) <=> HasEntry(holders[n], d) \/ (n = p /\ d = c)
    BY <1>6, <1>7, HasEntryConns
  <1>9. Placed'
    BY <1>1, <1>6, <1>7, <1>8 DEF Placed
  <1>10. \A d \in Conn : ask[d].req.path \in Node
    BY RequestType DEF TypeOK
  <1>11. \A d \in Conn : d \in Granted' <=> d \in Granted \/ d = c
    BY <1>1, <1>8, <1>10 DEF Granted
  <1> QED
    BY <1>9, <1>11 DEF Granted

\* Once its record is taken out, a connection has none in the whole tree.
LEMMA TakeRecord ==
  ASSUME TypeOK, Placed, NEW n \in Node, NEW k \in DOMAIN holders[n], NEW c \in Conn,
         holders[n][k].conn = c, holders'[n] = RemoveAt(holders[n], k), ask' = ask,
         \A m \in Node : m # n => holders'[m] = holders[m]
  PROVE  /\ Placed'
         /\ \A m \in Node : ~HasEntry(holders'[m], c)
         /\ \A m \in Node, d \in Conn :
              d # c => (HasEntry(holders'[m], d) <=> HasEntry(holders[m], d))
  <1>1. holders \in [Node -> Seq(Holder)] /\ holders[n] \in Seq(Holder)
    BY DEF TypeOK
  <1>2. Distinct(holders'[n]) /\ Conns(holders'[n]) = Conns(holders[n]) \ {c}
    BY <1>1, RemovedConn DEF Placed
  <1>3. HasEntry(holders[n], c)
    BY DEF HasEntry
  <1>4. \A m \in Node, d \in Conn :
          HasEntry(holders'[m], d) <=> HasEntry(holders[m], d) /\ ~(m = n /\ d = c)
    BY <1>2, HasEntryConns
  <1>5. Placed'
    BY <1>2, <1>4 DEF Placed
  <1> QED
    BY <1>3, <1>4, <1>5 DEF Placed

\* clean finds the element of a name somebody holds.
LEMMA LocatedIsName ==
  ASSUME TypeOK, HoldersReachable, NEW p \in Path, holders[p] # <<>>, NEW n,
         Located(n, p)
  PROVE  n = p
  <1>1. p \in Node /\ p \in Seq(Level) /\ p \in Line(p) /\ Len(p) \in Nat
    BY PathIsNode, NodeProperties
  <1>2. p \in nodes
    BY <1>1 DEF HoldersReachable
  <1>3. n \in Line(p) /\ Len(p) <= Len(n)
    BY <1>1, <1>2 DEF Located
  <1>4. Len(n) \in Nat
    BY <1>1, <1>3, LineProperties
  <1> QED
    BY <1>1, <1>3, <1>4, LineProperties

\* Closing nothing and touching no record leaves the locks where they are.
LEMMA SameGranted ==
  ASSUME UNCHANGED <<ask, holders>>,
         \A d \in Conn : conn'[d] = "closed" <=> conn[d] = "closed"
  PROVE  Granted' = Granted /\ (Placed => Placed')
  BY DEF Granted, Placed

\* inmsg on a LOCK message.
LEMMA LockRecords ==
  ASSUME TypeOK, RecordsGood, NEW c \in Conn, Lock(c)
  PROVE  RecordsGood'
  <1>1. /\ LockerTypeOK /\ CanRead(c, "LOCK") /\ waitings \in Seq(Waiter)
        /\ Honest(Granted, Conns(waitings)) /\ Distinct(waitings) /\ Placed
        /\ RecleanOpen /\ NoTimeout
    BY DEF TypeOK, RecordsGood, Lock
  <1>2. c \notin Granted /\ c \notin Conns(waitings)
    BY <1>1, HonestNewcomer
  <1>3. conn[c] \in {"piped", "open"} /\ job = Idle
    BY <1>1 DEF CanRead, Polling
  <1>4. PICK rc \in Answer : Reply(c, rc)
    BY DEF Lock, LockGrant, LockEnqueue, LockBusy, Answer
  <1>5. /\ conn' = [conn EXCEPT ![c] = "open"] /\ ask' = ask
        /\ job' = job \/ (job' = [path |-> "reclean", conn |-> c, i |-> 1])
    BY <1>4 DEF Reply
  <1>6. \A d \in Conn : conn'[d] = "closed" <=> conn[d] = "closed"
    BY <1>1, <1>3, <1>5 DEF LockerTypeOK
  <1>7. RecleanOpen' /\ NoTimeout'
    <2>1. NoTimeout'
      BY <1>1, <1>4, NoTimeoutStep
    <2>2. CASE job' = job
      BY <1>3, <2>1, <2>2 DEF RecleanOpen
    <2>3. CASE job' = [path |-> "reclean", conn |-> c, i |-> 1]
      <3>1. job'.conn = c /\ conn'[c] = "open"
        BY <1>1, <1>5, <2>3 DEF LockerTypeOK
      <3> QED
        BY <2>1, <3>1 DEF RecleanOpen
    <2> QED
      BY <1>5, <2>1, <2>2, <2>3
  <1>8. CASE LockGrant(c)
    <2>1. add_locker(c) /\ Reply(c, "OK") /\ VfsAdd("holders", c) /\ waitings' = waitings
      BY <1>8 DEF LockGrant
    <2>2. Placed' /\ Granted' = Granted \cup {c}
      BY <1>1, <1>2, <1>3, <1>5, <1>6, <2>1, AddGranted
    <2>3. Honest(Granted, Conns(waitings))'
      BY <1>1, <2>1, <2>2, HonestReply DEF Answer
    <2> QED
      BY <1>1, <1>7, <2>1, <2>2, <2>3 DEF RecordsGood
  <1>9. CASE LockEnqueue(c)
    <2>1. /\ waitings' = Append(waitings, [conn |-> c, req |-> ask[c].req])
          /\ Reply(c, "LOCK_ENQUEUED") /\ VfsAdd("waitings", c) /\ holders' = holders
      BY <1>9 DEF LockEnqueue
    <2>2. Placed' /\ Granted' = Granted
      BY <1>1, <1>5, <1>6, <2>1, SameGranted
    <2>3. PICK e \in Waiter : e = [conn |-> c, req |-> ask[c].req]
      BY <1>1, RequestType
    <2>4. Distinct(waitings') /\ Conns(waitings') = Conns(waitings) \cup {c}
      BY <1>1, <1>2, <2>1, <2>3, AppendedConn
    <2>5. Honest(Granted, Conns(waitings))'
      BY <1>1, <2>1, <2>2, <2>4, HonestReply DEF Answer
    <2> QED
      BY <1>7, <2>2, <2>4, <2>5 DEF RecordsGood
  <1>10. CASE LockBusy(c)
    <2>1. Reply(c, "LOCK_BUSY") /\ UNCHANGED <<vfs, holders, waitings>>
      BY <1>10 DEF LockBusy, hierVars
    <2>2. Placed' /\ Granted' = Granted
      BY <1>1, <1>5, <1>6, <2>1, SameGranted
    <2>3. Honest(Granted, Conns(waitings))'
      BY <1>1, <2>1, <2>2, HonestReply DEF Answer
    <2> QED
      BY <1>1, <1>7, <2>1, <2>2, <2>3 DEF RecordsGood
  <1> QED
    BY <1>8, <1>9, <1>10 DEF Lock

\* The clean of a connection that is open takes its lock, when clean looks under the
\* name it has locked: an UNLOCK message always brings that name.
LEMMA CleanRecords ==
  ASSUME TypeOK, HoldersReachable, RecordsGood, NEW c \in Conn, NEW path \in CleanPath,
         Clean(c, path)
  PROVE  /\ RecordsGood'
         /\ name' = ask[c].req.path => \A n \in Node : ~HasEntry(holders'[n], c)
  <1>1. /\ LockerTypeOK /\ CleanEvent(c, path) /\ waitings \in Seq(Waiter)
        /\ Honest(Granted, Conns(waitings)) /\ Distinct(waitings) /\ Placed
        /\ RecleanOpen /\ NoTimeout
    BY DEF TypeOK, RecordsGood, Clean
  <1>2. PICK n \in nodes : /\ Located(n, name')
                           /\ CleanHolder(c, path, n) \/ CleanWaiter(c, path, n)
    BY DEF Clean
  <1>3. n \in Node /\ ask[c].req.path \in Path /\ ask[c].req.path \in Node
    BY <1>1, RequestType DEF TypeOK
  <1>4. conn[c] = "open"
    BY <1>1 DEF CleanEvent, RecleanOpen, CleanPath
  <1>5. (StartScan(c, path) \/ EndClean(c, path)) /\ ask' = ask /\ CloseFd(c, path)
    BY <1>2 DEF CleanHolder, CleanWaiter, StartScan, EndClean
  <1>6. job' = Idle \/ (job' = [path |-> path, conn |-> c, i |-> 1])
    BY <1>5 DEF StartScan, EndClean
  <1>7. RecleanOpen' /\ NoTimeout'
    <2>1. NoTimeout'
      BY <1>1, <1>5, NoTimeoutStep
    <2>2. RecleanOpen'
      BY <1>6 DEF RecleanOpen, CleanPath
    <2> QED
      BY <2>1, <2>2
  <1>8. CASE CleanHolder(c, path, n)
    <2>1. PICK k \in DOMAIN holders[n] :
            /\ holders[n][k].conn = c
            /\ holders' = [holders EXCEPT ![n] = RemoveAt(@, k)]
      BY <1>8 DEF CleanHolder, IsFirstOf
    <2>2. StartScan(c, path) /\ waitings' = waitings
      BY <1>8 DEF CleanHolder
    <2>3. /\ Placed'
          /\ \A m \in Node : ~HasEntry(holders'[m], c)
          /\ \A m \in Node, d \in Conn :
               d # c => (HasEntry(holders'[m], d) <=> HasEntry(holders[m], d))
      <3>1. Placed /\ n \in Node /\ ask' = ask
        BY <1>1, <1>3, <1>5
      <3>2. /\ holders'[n] = RemoveAt(holders[n], k)
            /\ \A m \in Node : m # n => holders'[m] = holders[m]
        BY <2>1, <3>1 DEF TypeOK
      <3> QED
        BY <2>1, <3>1, <3>2, TakeRecord
    <2>4. c \in Granted
      <3>1. HasEntry(holders[n], c)
        BY <2>1 DEF HasEntry
      <3> QED
        BY <1>1, <1>3, <1>4, <3>1 DEF Granted, Placed
    <2>5. \A d \in Conn : d # c => conn'[d] = conn[d]
      BY <1>1, <1>5 DEF CloseFd, LockerTypeOK
    <2>6. \A d \in Conn : ask[d].req.path \in Node
      BY <1>1, RequestType
    <2>7. \A d \in Conn : d \in Granted' <=> d \in Granted /\ d # c
      BY <1>5, <2>3, <2>5, <2>6 DEF Granted
    <2>8. Granted' = Granted \ {c}
      BY <2>7 DEF Granted
    <2>9. Honest(Granted, Conns(waitings))'
      BY <1>1, <2>2, <2>4, <2>8, HonestRelease
    <2> QED
      BY <1>1, <1>7, <2>2, <2>3, <2>9 DEF RecordsGood
  <1>9. CASE CleanWaiter(c, path, n)
    <2>1. ~HasEntry(holders[n], c) /\ EndClean(c, path) /\ holders' = holders
      BY <1>9 DEF CleanWaiter
    <2>2. name' = ask[c].req.path => \A m \in Node : ~HasEntry(holders[m], c)
      <3> SUFFICES ASSUME name' = ask[c].req.path, NEW m \in Node, HasEntry(holders[m], c)
                   PROVE  FALSE
        OBVIOUS
      <3>1. m = ask[c].req.path
        BY <1>1 DEF Placed
      <3>2. holders[m] # <<>>
        BY DEF HasEntry
      <3>3. n = m
        BY <1>2, <1>3, <3>1, <3>2, LocatedIsName
      <3> QED
        BY <2>1, <3>3
    <2>3. c \in Granted => path # "unlock"
      <3> SUFFICES ASSUME c \in Granted, path = "unlock"
                   PROVE  FALSE
        OBVIOUS
      <3>1. name' = ask[c].req.path
        BY DEF Clean, change_name
      <3> QED
        BY <1>3, <2>2, <3>1 DEF Granted
    <2>4. \A d \in Conn : d # c => conn'[d] = conn[d]
      BY <1>1, <1>5 DEF CloseFd, LockerTypeOK
    <2>5. path # "unlock" => conn'[c] = "closed"
      BY <1>1, <1>5 DEF CloseFd, LockerTypeOK
    <2>6. path = "unlock" => conn'[c] = conn[c]
      BY <1>5 DEF CloseFd
    <2>7. \A d \in Conn : d \in Granted' <=> d \in Granted /\ d # c
      BY <1>5, <2>1, <2>3, <2>4, <2>5, <2>6 DEF Granted
    <2>8. Granted' = Granted \ {c}
      BY <2>7 DEF Granted
    <2>9. Placed'
      BY <1>1, <1>5, <2>1 DEF Placed
    <2>10. Distinct(waitings') /\ Conns(waitings') = Conns(waitings) \ {c}
      <3>1. CASE \E k \in DOMAIN waitings :
                   IsFirstOf(waitings, k, c) /\ waitings' = RemoveAt(waitings, k)
        <4>1. PICK k \in DOMAIN waitings :
                waitings[k].conn = c /\ waitings' = RemoveAt(waitings, k)
          BY <3>1 DEF IsFirstOf
        <4> QED
          BY <1>1, <4>1, RemovedConn
      <3>2. CASE ~HasEntry(waitings, c) /\ UNCHANGED waitings
        <4>1. c \notin Conns(waitings)
          BY <3>2, HasEntryConns
        <4> QED
          BY <1>1, <3>2, <4>1
      <3> QED
        BY <1>9, <3>1, <3>2 DEF CleanWaiter
    <2>11. Honest(Granted, Conns(waitings))'
      BY <1>1, <2>1, <2>8, <2>10, HonestWithdraw
    <2> QED
      BY <1>7, <2>1, <2>2, <2>9, <2>10, <2>11 DEF RecordsGood
  <1> QED
    BY <1>2, <1>8, <1>9

\* A turn of the scan; the one that gives up leaves a freed record in the tree.
LEMMA WaitingsRecords ==
  ASSUME TypeOK, RecordsGood, Waitings
  PROVE  freed' \/ RecordsGood'
  <1>1. /\ LockerTypeOK /\ Scanning /\ job.path # "timeout" /\ waitings \in Seq(Waiter)
        /\ Honest(Granted, Conns(waitings)) /\ Distinct(waitings) /\ Placed
        /\ RecleanOpen /\ NoTimeout
    BY DEF TypeOK, RecordsGood, Waitings, Scanning, NoTimeout
  <1>2. CASE WaitingsEnd \/ WaitingsSkip
    <2>1. (ScanEnd \/ ScanSkip) /\ UNCHANGED <<holders, waitings>>
      BY <1>2 DEF WaitingsEnd, WaitingsSkip, hierVars
    <2>2. UNCHANGED <<ask, conn>>
      BY <2>1 DEF ScanEnd, ScanSkip
    <2>3. Granted' = Granted /\ Placed'
      BY <1>1, <2>1, <2>2, SameGranted
    <2>4. Honest(Granted, Conns(waitings))'
      BY <1>1, <2>1, <2>3, HonestScanEnd, HonestScanSkip
    <2>5. NoTimeout'
      BY <1>1, <2>1, NoTimeoutStep
    <2>6. RecleanOpen'
      <3>1. job # Idle /\ job.path # "reclean"
        BY <1>1 DEF Scanning
      <3>2. CASE ScanEnd
        BY <3>2 DEF ScanEnd, RecleanOpen
      <3>3. CASE ScanSkip
        <4>1. job' = [job EXCEPT !.i = @ + 1]
          BY <3>3 DEF ScanSkip
        <4>2. job'.path = job.path
          BY <1>1, <3>1, <4>1, JobFields
        <4> QED
          BY <3>1, <4>2 DEF RecleanOpen
      <3> QED
        BY <2>1, <3>2, <3>3
    <2> QED
      BY <1>1, <2>1, <2>3, <2>4, <2>5, <2>6 DEF RecordsGood
  <1>3. CASE WaitingsPop /\ ~freed'
    <2>1. PICK c \in Conn : c = waitings[job.i].conn
      BY <1>3, CursorConn DEF WaitingsPop
    <2>2. /\ job.i \in DOMAIN waitings /\ waitings' = RemoveAt(waitings, job.i)
          /\ add_locker(c) /\ ScanGrant(c)
      BY <1>3, <2>1 DEF WaitingsPop
    <2>3. UNCHANGED <<ask, conn, job>>
      BY <2>2 DEF ScanGrant
    <2>4. c \in Conns(waitings)
      BY <2>1, <2>2 DEF Conns
    <2>5. Distinct(waitings') /\ Conns(waitings') = Conns(waitings) \ {c}
      BY <1>1, <2>1, <2>2, RemovedConn
    <2>6. c \notin Granted /\ conn[c] = "open"
      BY <1>1, <2>4 DEF Honest, HonestTo, Scanning
    <2>7. Placed' /\ Granted' = Granted \cup {c}
      BY <1>1, <2>2, <2>3, <2>6, AddGranted
    <2>8. Honest(Granted, Conns(waitings))'
      BY <1>1, <2>2, <2>4, <2>5, <2>7, HonestScanGrant
    <2>9. RecleanOpen' /\ NoTimeout'
      BY <1>1, <2>3 DEF RecleanOpen, NoTimeout
    <2> QED
      BY <2>5, <2>7, <2>8, <2>9 DEF RecordsGood
  <1> QED
    BY <1>2, <1>3 DEF Waitings

\* Every step keeps the invariant.
LEMMA RecordsStep ==
  ASSUME ~Retry, TypeOK, HoldersReachable, RecordsInv, [Next]_vars
  PROVE  RecordsInv'
  <1>1. CASE Peers({"UNLOCK"}) /\ UNCHANGED hierVars
    <2> SUFFICES ASSUME RecordsGood
                 PROVE  RecordsGood'
      BY <1>1 DEF RecordsInv, hierVars
    <2>1. UNCHANGED <<holders, waitings>>
      BY <1>1 DEF hierVars
    <2>2. PICK c \in Conn : \/ Transfer(c)
                            \/ RetryLock(c)
                            \/ \E verb \in {"UNLOCK"} : Unlock(c, verb)
                            \/ Disconnect(c)
                            \/ Crash(c)
      BY <1>1 DEF Peers
    <2>3. UNCHANGED <<ask, job>>
      BY <2>2 DEF Transfer, RetryLock, Unlock, Disconnect, Crash
    <2>4. conn' = conn \/ (conn[c] = "new" /\ conn' = [conn EXCEPT ![c] = "piped"])
      BY <2>2 DEF Transfer, RetryLock, Unlock, Disconnect, Crash
    <2>5. \A d \in Conn : /\ conn'[d] = "closed" <=> conn[d] = "closed"
                          /\ conn[d] = "open" => conn'[d] = "open"
      BY <2>4 DEF TypeOK, LockerTypeOK
    <2>6. Granted' = Granted /\ Placed'
      BY <2>1, <2>3, <2>5, SameGranted DEF RecordsGood
    <2>7. Honest(Granted, Conns(waitings))'
      BY <1>1, <2>1, <2>6, HonestPeers DEF TypeOK, RecordsGood
    <2>8. job # Idle => job.conn \in Conn
      BY JobFields DEF TypeOK
    <2>9. RecleanOpen' /\ NoTimeout'
      BY <2>3, <2>5, <2>8 DEF RecordsGood, RecleanOpen, NoTimeout
    <2> QED
      BY <2>1, <2>6, <2>7, <2>9 DEF RecordsGood, Distinct
  <1>2. CASE UNCHANGED vars
    BY <1>2 DEF vars, lockerVars, hierVars, RecordsInv, RecordsGood, Granted, Placed, Honest,
                HonestTo, ShownAs, BusyWith, Conns, Distinct, RecleanOpen, NoTimeout
  <1>3. CASE Thread
    <2>1. RecordsGood
      BY <1>3 DEF Thread, RecordsInv
    <2> QED
      BY <1>3, <2>1, LockRecords, CleanRecords, WaitingsRecords DEF Thread, RecordsInv
  <1> QED
    BY <1>1, <1>2, <1>3 DEF Next

\* Nobody has a lock at the beginning.
LEMMA RecordsInit == Init => RecordsInv
  <1> SUFFICES ASSUME Init
               PROVE  RecordsGood
    BY DEF RecordsInv
  <1>1. \A n \in Node : holders[n] = <<>>
    BY DEF Init
  <1>2. Placed
    BY <1>1 DEF Placed, Distinct, HasEntry
  <1>3. Granted = {}
    <2>1. \A c \in Conn : ask[c].req.path \in Node
      BY TypeInit, RequestType DEF TypeOK
    <2> QED
      BY <1>1, <2>1 DEF Granted, HasEntry
  <1>4. Conns(waitings) = {} /\ Distinct(waitings)
    BY DEF Init, Conns, Distinct
  <1>5. Honest({}, {}) /\ NoTimeout /\ RecleanOpen
    BY HonestInit DEF Init, LockerInit, NoTimeout, RecleanOpen
  <1> QED
    BY <1>2, <1>3, <1>4, <1>5 DEF RecordsGood

\* While no program locks a handle again whose last call timed out, a live client that
\* was told OK has one lock, at the name it asked for and nowhere else in the tree, and
\* one that was told LOCK_ENQUEUED is in the queue; gc never takes away an element on
\* the way to a lock (flom_resource_hier_inmsg, _clean, _waitings, _gc).
THEOREM RecordsKept ==
  ASSUME ~Retry
  PROVE  Spec => []RecordsHonoured
  <1> DEFINE Inv == TypeOK /\ TreeInv /\ RecordsInv
  <1>1. Init => Inv
    BY TypeInit, TreeInvInit, RecordsInit
  <1>2. Inv /\ [Next]_vars => Inv'
    BY TypeStep, TreeStep, RecordsStep DEF TreeInv
  <1>3. Inv => RecordsHonoured
    <2> SUFFICES ASSUME TypeOK, TreeInv, RecordsInv
                 PROVE  RecordsHonoured
      OBVIOUS
    <2>1. AnswersHonoured
      <3> SUFFICES ASSUME ~freed, NEW c \in Conn, conn[c] = "open", peer[c] = "up"
                   PROVE  /\ {n \in Node : HasEntry(holders[n], c)} =
                               IF answer[c] = "OK" THEN {ask[c].req.path} ELSE {}
                          /\ answer[c] = "LOCK_ENQUEUED" <=> HasEntry(waitings, c)
        BY DEF AnswersHonoured
      <3>1. HonestTo(c, Granted, Conns(waitings)) /\ Placed
        BY DEF RecordsInv, RecordsGood, Honest
      <3>2. /\ answer[c] = "OK" <=> c \in Granted
            /\ answer[c] = "LOCK_ENQUEUED" <=> HasEntry(waitings, c)
        BY <3>1, HasEntryConns DEF HonestTo
      <3>3. ask[c].req.path \in Node
        BY RequestType DEF TypeOK
      <3>4. c \in Granted <=> HasEntry(holders[ask[c].req.path], c)
        BY DEF Granted
      <3>5. \A n \in Node : HasEntry(holders[n], c) => n = ask[c].req.path
        BY <3>1 DEF Placed
      <3> QED
        BY <3>2, <3>3, <3>4, <3>5
    <2> QED
      BY <2>1 DEF RecordsHonoured, TreeInv
  <1>4. QED
    BY <1>1, <1>2, <1>3, PTL DEF Spec

\* Only a clean closes an open connection while the thread goes on.
LEMMA ClosedByClean ==
  ASSUME TypeOK, Thread, NEW c \in Conn, conn[c] = "open", conn'[c] = "closed",
         thread' = "loop"
  PROVE  \E path \in CleanPath : Clean(c, path)
  <1>1. ASSUME NEW d \in Conn, Lock(d)
        PROVE  FALSE
    <2>1. conn' = [conn EXCEPT ![d] = "open"]
      BY <1>1 DEF Lock, LockGrant, LockEnqueue, LockBusy, Reply
    <2> QED
      BY <2>1 DEF TypeOK, LockerTypeOK
  <1>2. ASSUME Waitings
        PROVE  FALSE
    <2>1. ScanEnd \/ ScanSkip \/ (\E d : ScanGrant(d) \/ ScanAbort(d))
      BY <1>2 DEF Waitings, WaitingsEnd, WaitingsSkip, WaitingsPop
    <2> QED
      BY <2>1 DEF ScanEnd, ScanSkip, ScanGrant, ScanAbort
  <1>3. ASSUME NEW d \in Conn, NEW path \in CleanPath, Clean(d, path)
        PROVE  d = c
    <2>1. CloseFd(d, path)
      BY <1>3 DEF Clean, CleanHolder, CleanWaiter, StartScan, EndClean
    <2> QED
      BY <2>1 DEF CloseFd, TypeOK, LockerTypeOK
  <1> QED
    BY <1>1, <1>2, <1>3 DEF Thread

\* A connection that is closed while the resource remembers the name it has locked
\* leaves nothing in the tree, whatever gc and the other connections did before
\* (flom_resource_hier_clean).
THEOREM NamedCleaned ==
  ASSUME ~Retry
  PROVE  Spec => CleanedWhereNamed
  <1> DEFINE Inv == TypeOK /\ TreeInv /\ RecordsInv
  <1>1. Init => Inv
    BY TypeInit, TreeInvInit, RecordsInit
  <1>2. Inv /\ [Next]_vars => Inv'
    BY TypeStep, TreeStep, RecordsStep DEF TreeInv
  <1>3. ASSUME Inv, [Next]_vars, NEW c \in Conn, conn[c] = "open", conn'[c] = "closed",
               thread' = "loop", name' = ask[c].req.path
        PROVE  \A n \in Node : ~HasEntry(holders'[n], c)
    <2>1. Thread
      <3>1. Peers({"UNLOCK"}) => conn'[c] # "closed"
        BY <1>3 DEF Peers, Transfer, RetryLock, Unlock, Disconnect, Crash, TypeOK, LockerTypeOK
      <3>2. UNCHANGED vars => conn'[c] # "closed"
        BY <1>3 DEF vars, lockerVars
      <3> QED
        BY <1>3, <3>1, <3>2 DEF Next
    <2>2. PICK path \in CleanPath : Clean(c, path)
      BY <1>3, <2>1, ClosedByClean
    <2>3. RecordsGood /\ HoldersReachable
      BY <1>3, <2>1 DEF Thread, RecordsInv, TreeInv
    <2> QED
      BY <1>3, <2>2, <2>3, CleanRecords
  <1>4. Inv /\ [Next]_vars =>
          [\A c \in Conn :
             conn[c] = "open" /\ conn'[c] = "closed" /\ thread' = "loop"
               /\ name' = ask[c].req.path
             => \A n \in Node : ~HasEntry(holders'[n], c)]_vars
    BY <1>3
  <1>5. QED
    BY <1>1, <1>2, <1>4, PTL DEF Spec, CleanedWhereNamed

-------------------------------------------------------------------------------
(***************************************************************************)
(* The status tree.                                                        *)
(***************************************************************************)

\* The two lists of a locker, and the one that shows a client in state s.
ListNames == {Dir("holders"), Dir("waitings")}
ListFor(s) == Dir(IF s = "holder" THEN "holders" ELSE "waitings")

\* The directories of lockers, their lists, the directories of clients in a list, and
\* those in the incubator.
Grown == DOMAIN node \ Fixed
LockerDirs == {a \in Grown : node[a].up = 3}
ListDirs == {a \in Grown : node[a].name \in ListNames}
Listed == {a \in Grown : node[a].up \in ListDirs}
Incubated == {a \in Grown : node[a].up = 4}

\* A record of a node, and the name of a directory that is a uid.
IsNode(r) == r = [name |-> r.name, up |-> r.up]
IsUid(nm) == nm = Uid(nm.uid)

\* What hangs where.
NodeSound(a) ==
  \/ node[a].up \in {3, 4} /\ IsUid(node[a].name)
  \/ node[a].up \in LockerDirs /\ node[a].name \in ListNames
  \/ node[a].up \in ListDirs /\ IsUid(node[a].name)
  \/ node[a].up \in Listed \cup Incubated /\ node[a].name = File

\* The nodes of flom_vfs_ram_tree_init are never touched again.
FixedSound ==
  /\ Fixed \subseteq DOMAIN node
  /\ node[1] = [name |-> Dir("root"), up |-> NULL]
  /\ node[2] = [name |-> Dir("status"), up |-> 1]
  /\ node[3] = [name |-> Dir("lockers"), up |-> 2]
  /\ node[4] = [name |-> Dir("incubator"), up |-> 2]

\* The tree is the four directories and what hangs below them.
Shape ==
  /\ \A a \in DOMAIN node : IsNode(node[a])
  /\ FixedSound
  /\ \A a \in Grown : NodeSound(a)

\* One directory for every locker of the array, each with its two lists.
LockersShown ==
  /\ \A a \in LockerDirs :
       \E n \in Name : locker[n].state # "none" /\ node[a].name = Uid(locker[n].uid)
  /\ \A n \in Name : locker[n].state # "none" =>
       \E a \in LockerDirs : node[a].name = Uid(locker[n].uid)
  /\ \A a, b \in LockerDirs : node[a].name = node[b].name => a = b
  /\ \A l \in LockerDirs, d \in ListNames :
       \E a \in ListDirs : node[a].name = d /\ node[a].up = l
  /\ \A a, b \in ListDirs : node[a].name = node[b].name /\ node[a].up = node[b].up => a = b

\* The directory a of a list is the one of client c: it is in the list, and below the
\* locker, that c has to do with, or its clean is under way, or its locker has failed.
Belongs(a, c) ==
  /\ node[a].name = Uid(place[c].uid)
  /\ node[node[node[a].up].up].name = Uid(locker[want[c]].uid)
  /\ \/ place[c].state \in Leaving
     \/ place[c].state \in {"holder", "waiting"} /\ node[node[a].up].name = ListFor(place[c].state)
     \/ place[c].state = "gone" /\ locker[want[c]].state = "failed"

\* Every directory of a list has an owner and everybody who holds or waits has one.
ListedShown ==
  /\ \A a \in Listed : \E c \in Client : Belongs(a, c)
  /\ \A a, b \in Listed : node[a].name = node[b].name => a = b
  /\ \A c \in Client : place[c].state \in {"holder", "waiting"} =>
       \E a \in Listed : node[a].name = Uid(place[c].uid)

\* Clients that may have a directory in the incubator: the main thread deletes it after
\* it has handed the client over, and does not when the client has left.
Kept(c) == place[c].state \in {"incubator", "gone"} \/ (main.op = "del" /\ main.client = c)

\* The incubator shows these clients, once each, and everybody who is there.
IncubatorShown ==
  /\ \A a \in Incubated : \E c \in Client : Kept(c) /\ node[a].name = Uid(place[c].uid)
  /\ \A a, b \in Incubated : node[a].name = node[b].name => a = b
  /\ \A c \in Client : place[c].state = "incubator" =>
       \E a \in Incubated : node[a].name = Uid(place[c].uid)

\* The tree and the threads of the daemon agree.
TreeShown == Shape /\ LockersShown /\ ListedShown /\ IncubatorShown

\* flom_conns_get_new_uid: no uid is given twice, be it to clients or to lockers.
UidsSound ==
  /\ \A c \in Client : IF place[c].state = "none" THEN place[c].uid = 0
                       ELSE place[c].uid \in 1..last_uid
  /\ \A n \in Name : IF locker[n].state = "none" THEN locker[n].uid = 0
                     ELSE locker[n].uid \in 1..last_uid
  /\ \A c, d \in Client : place[c].uid = place[d].uid /\ place[c].uid # 0 => c = d
  /\ \A n, m \in Name : locker[n].uid = locker[m].uid /\ locker[n].uid # 0 => n = m
  /\ \A c \in Client, n \in Name : place[c].uid = locker[n].uid => place[c].uid = 0

\* What the main thread may be in the middle of.
MainType == {MainIdle, [op |-> "ended"]} \cup [op : {"scan"}, name : Name]
            \cup [op : {"del"}, name : Name, client : Client]

\* A client is with a locker only if that is up; the locker whose clients are taken out of
\* the incubator is still in the array; nobody is left at the end.
ControlSound ==
  /\ main \in MainType
  /\ \A c \in Client : place[c].state \in WithLocker => locker[want[c]].state = "up"
  /\ main.op \in {"scan", "del"} => locker[main.name].state # "none"
  /\ main.op = "del" => place[main.client].state \notin {"none", "table", "incubator"}
  /\ main.op = "ended" => /\ \A n \in Name : locker[n].state = "none"
                          /\ \A c \in Client : place[c].state \in {"none", "gone"}

\* The uids given so far are those of the clients accepted and the lockers started.
Counted ==
  /\ last_uid = Cardinality({c \in Client : place[c].state # "none"}) + started
  /\ started \in 0..MaxLocker

\* The types of the variables of the daemon.
DaemonTyped ==
  /\ last_uid \in Nat
  /\ want \in [Client -> Name]
  /\ place \in [Client -> Place]
  /\ locker \in [Name -> [state : {"none", "up", "failed"}, uid : Nat]]

\* All that the proof needs of the daemon without the tree.
DaemonSound == DaemonTyped /\ UidsSound /\ ControlSound /\ Counted

\* A callback between two of its steps.
FuseType == [op : Op, pc : {"found", "child", "list", "dotdot"}, node : Nat, parent : Nat,
             stale : BOOLEAN, freed : SUBSET (Nat \ {NULL})]
\* The node a callback has is in the tree, unless it has been freed since; a callback for
\* an inode that was gone has none.
CallbackSound(f) ==
  /\ f \in FuseType
  /\ f.node # NULL /\ f.node \notin f.freed => f.node \in DOMAIN node
  /\ f.stale => f.node = NULL /\ f.pc = "found"
  /\ f.pc # "found" => f.node # NULL
  /\ f.pc \in {"list", "dotdot"} => f.parent # NULL

\* The FUSE thread between two steps.
FuseSound == fuse # FuseIdle => CallbackSound(fuse)

\* The inductive invariant of the status tree.
StatusInv ==
  /\ DaemonSound
  /\ top \in Nat /\ DOMAIN node \subseteq 1..top
  /\ IF main.op = "ended" THEN DOMAIN node = {} ELSE TreeShown
  /\ FuseSound
  /\ StaleInodeAnswered /\ fault.kind \in {"none", "null", "dangling"}

-------------------------------------------------------------------------------
\* Every node but the root hangs below a node.
Rooted == \A b \in DOMAIN node \ {Root} : node[b].up \in DOMAIN node

\* What Below computes: the recursive function of its definition exists (the least set
\* closed under its equation is one), so it satisfies the equation.
LEMMA BelowUp ==
  ASSUME Rooted, NEW a
  PROVE  /\ Below(a) \subseteq DOMAIN node
         /\ \A b \in DOMAIN node :
              b \in Below(a) <=> b = a \/ (b # Root /\ node[b].up \in Below(a))
  <1> DEFINE D == DOMAIN node
             step(S, b) == b = a \/ (b # Root /\ node[b].up \in S)
             closed(S) == \A b \in D : step(S, b) => b \in S
             L == {b \in D : \A S \in SUBSET D : closed(S) => b \in S}
             rec(f) == f = [b \in D |-> b = a \/ (b # Root /\ f[node[b].up])]
             under == CHOOSE f : rec(f)
  <1>1. closed(L)
    <2> SUFFICES ASSUME NEW b \in D, step(L, b), NEW S \in SUBSET D, closed(S) PROVE b \in S
      OBVIOUS
    <2>1. CASE b = a
      BY <2>1
    <2>2. CASE b # Root /\ node[b].up \in L
      BY <2>2
    <2> QED
      BY <2>1, <2>2
  <1>2. ASSUME NEW b \in L PROVE step(L, b)
    <2>1. SUFFICES ASSUME ~step(L, b) PROVE FALSE
      OBVIOUS
    <2>2. closed(L \ {b})
      <3> SUFFICES ASSUME NEW x \in D, step(L \ {b}, x) PROVE x \in L \ {b}
        OBVIOUS
      <3>1. step(L, x)
        OBVIOUS
      <3>2. x \in L
        BY <1>1, <3>1
      <3>3. x # b
        BY <2>1, <3>1
      <3> QED
        BY <3>2, <3>3
    <2>3. L \ {b} \in SUBSET D
      OBVIOUS
    <2> QED
      BY <1>2, <2>2, <2>3
  <1>3. \A b \in D : b \in L <=> step(L, b)
    BY <1>1, <1>2
  <1> HIDE DEF L
  <1>4. rec([b \in D |-> b \in L])
    <2> DEFINE g == [b \in D |-> b \in L]
    <2>1. ASSUME NEW b \in D PROVE (b \in L) = (b = a \/ (b # Root /\ g[node[b].up]))
      <3>1. b # Root => node[b].up \in D
        BY DEF Rooted
      <3>2. b # Root => g[node[b].up] = (node[b].up \in L)
        BY <3>1, Zenon
      <3>3. (b \in L) <=> (b = a \/ (b # Root /\ node[b].up \in L))
        BY <1>3, Zenon
      <3>4. (b \in L) <=> (b = a \/ (b # Root /\ g[node[b].up]))
        BY <3>2, <3>3, Zenon
      <3> HIDE DEF g
      <3> QED
        BY <3>4
    <2> QED
      BY <2>1, Zenon
  <1>5. rec(under)
    BY <1>4, Zenon
  <1>6. Below(a) = {b \in D : under[b]}
    BY Zenon DEF Below
  <1> HIDE DEF under
  <1>7. ASSUME NEW b \in D PROVE under[b] = (b = a \/ (b # Root /\ under[node[b].up]))
    BY <1>5, Zenon
  <1>8. ASSUME NEW b \in D PROVE b \in Below(a) <=> b = a \/ (b # Root /\ node[b].up \in Below(a))
    <2>1. b \in Below(a) <=> under[b]
      BY <1>6, Zenon
    <2>2. b # Root => node[b].up \in D
      BY DEF Rooted
    <2>3. b # Root => (node[b].up \in Below(a) <=> under[node[b].up])
      BY <1>6, <2>2, Zenon
    <2> QED
      BY <1>7, <2>1, <2>3, Zenon
  <1> QED
    BY <1>6, <1>8, Zenon

\* A set of numbers that is not empty has a least one.
LEMMA LeastAddress ==
  ASSUME NEW D, D \subseteq Nat, D # {}
  PROVE  \E x \in D : \A y \in D : x <= y
  <1> DEFINE R == OpToRel(<, Nat)
  <1>1. IsWellFoundedOn(R, Nat)
    BY NatLessThanWellFounded, Zenon
  <1>2. \A x, y \in Nat : x < y => <<x, y>> \in R
    BY DEF OpToRel
  <1> HIDE DEF R
  <1>3. PICK x \in D : \A y \in D : ~(<<y, x>> \in R)
    BY <1>1, WFMin
  <1>4. ASSUME NEW y \in D PROVE x <= y
    <2>1. x \in Nat /\ y \in Nat /\ ~(y < x)
      BY <1>2, <1>3
    <2> QED
      BY <2>1
  <1> QED
    BY <1>4

\* How many members of F are less than a.
Rank(F, a) == Cardinality({b \in F : b < a})

\* A set of numbers has a least, a second and a third member.
LEMMA Ranked ==
  ASSUME NEW F, F \subseteq Nat, NEW n \in {2, 3},
         NEW p \in F, NEW q \in F, p # q, n = 3 => \E r \in F : r # p /\ r # q
  PROVE  \A i \in 1..n : \E a \in F : Rank(F, a) = i - 1
  <1>1. PICK x \in F : \A y \in F : x <= y
    BY LeastAddress
  <1>2. Rank(F, x) = 0
    <2>1. ASSUME NEW b \in F PROVE ~(b < x)
      BY <1>1
    <2>2. {b \in F : b < x} = {}
      BY <2>1
    <2> QED
      BY <2>2, FS_EmptySet DEF Rank
  <1>3. PICK y \in F \ {x} : \A z \in F \ {x} : y <= z
    <2>1. F \ {x} \subseteq Nat /\ F \ {x} # {}
      BY <1>1
    <2> QED
      BY <2>1, LeastAddress
  <1>4. Rank(F, y) = 1
    <2>1. ASSUME NEW b \in F PROVE b < y <=> b = x
      BY <1>1, <1>3
    <2>2. {b \in F : b < y} = {x}
      BY <1>1, <2>1
    <2> QED
      BY <2>2, FS_Singleton DEF Rank
  <1>5. n = 3 => \E z \in F : Rank(F, z) = 2
    <2> HAVE n = 3
    <2>1. F \ {x, y} \subseteq Nat /\ F \ {x, y} # {}
      BY <1>1, <1>3
    <2>2. PICK z \in F \ {x, y} : \A w \in F \ {x, y} : z <= w
      BY <2>1, LeastAddress
    <2>3. ASSUME NEW b \in F PROVE b < z <=> b \in {x, y}
      BY <1>1, <1>3, <2>2
    <2>4. {b \in F : b < z} = {x} \cup {y} /\ x # y
      BY <1>1, <1>3, <2>3
    <2>5. IsFiniteSet({x}) /\ Cardinality({x}) = 1
      BY FS_Singleton
    <2>6. Cardinality({x} \cup {y}) = Cardinality({x}) + 1
      BY <2>4, <2>5, FS_AddElement
    <2>7. Cardinality({x} \cup {y}) = 2
      BY <2>5, <2>6
    <2>8. Rank(F, z) = 2
      BY <2>4, <2>7, Zenon DEF Rank
    <2> QED
      BY <2>2, <2>8, Zenon
  <1>6. ASSUME NEW i \in 1..n PROVE \E a \in F : Rank(F, a) = i - 1
    <2>1. i = 1 \/ i = 2 \/ (n = 3 /\ i = 3)
      OBVIOUS
    <2>2. CASE i = 1
      <3>1. i - 1 = 0
        BY <2>2
      <3> QED
        BY <1>2, <3>1, Zenon
    <2>3. CASE i = 2
      <3>1. i - 1 = 1
        BY <2>3
      <3> QED
        BY <1>3, <1>4, <3>1, Zenon
    <2>4. CASE n = 3 /\ i = 3
      <3>1. i - 1 = 2
        BY <2>4
      <3> QED
        BY <1>5, <2>4, <3>1, Zenon
    <2> QED
      BY <2>1, <2>2, <2>3, <2>4
  <1> QED
    BY <1>6

\* The allocator finds new addresses, and they are different.
LEMMA NewAddrs ==
  ASSUME top \in Nat, DOMAIN node \subseteq 1..top, NEW n \in {2, 3}
  PROVE  /\ \A i \in 1..n : NewAddr(n)[i] \in (1..(top + n)) \ DOMAIN node
         /\ \A i, j \in 1..n : i # j => NewAddr(n)[i] # NewAddr(n)[j]
  <1>1. PICK F : F = (1..(top + n)) \ DOMAIN node
    OBVIOUS
  <1>2. F \subseteq Nat /\ top + 1 \in F /\ top + 2 \in F /\ (n = 3 => top + 3 \in F)
    BY <1>1
  <1>3. top + 1 # top + 2 /\ top + 3 # top + 1 /\ top + 3 # top + 2
    OBVIOUS
  <1>4. \A i \in 1..n : \E a \in F : Rank(F, a) = i - 1
    <2>1. PICK p \in F, q \in F : p # q /\ (n = 3 => \E r \in F : r # p /\ r # q)
      BY <1>2, <1>3
    <2>2. F \subseteq Nat
      BY <1>2
    <2> QED
      BY <2>1, <2>2, Ranked
  <1>5. NewAddr(n) = [i \in 1..n |-> CHOOSE a \in F : Rank(F, a) = i - 1]
    BY <1>1 DEF NewAddr, Rank
  <1>6. ASSUME NEW i \in 1..n
        PROVE  /\ NewAddr(n)[i] \in F
               /\ Rank(F, NewAddr(n)[i]) = i - 1
    <2>1. \E a \in F : Rank(F, a) = i - 1
      BY <1>4
    <2>2. NewAddr(n)[i] = CHOOSE a \in F : Rank(F, a) = i - 1
      BY <1>5
    <2> QED
      BY <2>1, <2>2
  <1>7. ASSUME NEW i \in 1..n, NEW j \in 1..n, NewAddr(n)[i] = NewAddr(n)[j] PROVE i = j
    <2>1. i - 1 = j - 1
      BY <1>6, <1>7
    <2> QED
      BY <2>1
  <1> QED
    BY <1>1, <1>6, <1>7

\* A name that one node has at most is found at that node.
LEMMA FoundOnce ==
  ASSUME NEW start, NEW nm, NEW S,
         S = {b \in Below(start) : node[b].name = nm},
         \A x, y \in S : x = y
  PROVE  FindByName(start, nm) = S
  BY DEF FindByName

\* Where the nodes of each kind hang.
LEMMA Kinds ==
  ASSUME Shape
  PROVE  /\ Rooted
         /\ Fixed \cap Grown = {} /\ DOMAIN node = Fixed \cup Grown
         /\ \A a \in LockerDirs : a \in Grown /\ node[a].up = 3 /\ IsUid(node[a].name)
         /\ \A a \in ListDirs : a \in Grown /\ node[a].up \in LockerDirs /\ node[a].name \in ListNames
         /\ \A a \in Listed : a \in Grown /\ node[a].up \in ListDirs /\ IsUid(node[a].name)
         /\ \A a \in Incubated : a \in Grown /\ node[a].up = 4 /\ IsUid(node[a].name)
         /\ \A a \in Grown : \/ a \in LockerDirs \cup ListDirs \cup Listed \cup Incubated
                             \/ node[a].name = File /\ node[a].up \in Listed \cup Incubated
  <1>0. /\ \A nm : IsUid(nm) => nm \notin ListNames /\ nm # File
        /\ \A nm \in ListNames : nm # File
    BY DEF IsUid, Uid, ListNames, Dir, File
  <1>1. \A a \in Grown : NodeSound(a)
    BY DEF Shape
  <1>2. Fixed \cap Grown = {} /\ DOMAIN node = Fixed \cup Grown /\ 3 \notin Grown /\ 4 \notin Grown
    BY DEF Fixed, Grown, Shape, FixedSound
  <1>3. ASSUME NEW a \in LockerDirs PROVE a \in Grown /\ node[a].up = 3 /\ IsUid(node[a].name)
    BY <1>1, <1>2 DEF LockerDirs, NodeSound, ListDirs, Listed, Incubated
  <1>4. ASSUME NEW a \in Incubated PROVE a \in Grown /\ node[a].up = 4 /\ IsUid(node[a].name)
    BY <1>1, <1>2 DEF LockerDirs, NodeSound, ListDirs, Listed, Incubated
  <1>5. ASSUME NEW a \in ListDirs
        PROVE  a \in Grown /\ node[a].up \in LockerDirs /\ node[a].name \in ListNames
    BY <1>0, <1>1 DEF NodeSound, ListDirs
  <1>6. ASSUME NEW a \in Listed
        PROVE  a \in Grown /\ node[a].up \in ListDirs /\ IsUid(node[a].name)
    <2>1. a \in Grown /\ node[a].up \in ListDirs
      BY DEF Listed
    <2>2. node[a].up \notin {3, 4}
      BY <1>2, <2>1 DEF ListDirs
    <2>3. node[a].up \notin LockerDirs /\ node[a].up \notin Incubated
      BY <1>0, <1>3, <1>4, <1>5, <2>1
    <2>4. node[a].up \notin Listed
      <3>1. node[node[a].up].up \in LockerDirs
        BY <1>5, <2>1
      <3>2. node[node[a].up].up \notin ListDirs
        BY <1>0, <1>3, <1>5, <3>1
      <3> QED
        BY <3>2 DEF Listed
    <2> QED
      BY <1>1, <2>1, <2>2, <2>3, <2>4 DEF NodeSound
  <1>7. ASSUME NEW a \in Grown
        PROVE  \/ a \in LockerDirs \cup ListDirs \cup Listed \cup Incubated
               \/ node[a].name = File /\ node[a].up \in Listed \cup Incubated
    BY <1>1 DEF LockerDirs, NodeSound, ListDirs, Listed, Incubated
  <1>8. Rooted
    <2> SUFFICES ASSUME NEW b \in DOMAIN node \ {Root} PROVE node[b].up \in DOMAIN node
      BY DEF Rooted
    <2>1. CASE b \in Grown
      <3>1. {3, 4} \subseteq DOMAIN node
        BY DEF Fixed, Shape, FixedSound
      <3> QED
        BY <1>2, <1>3, <1>4, <1>5, <1>6, <1>7, <2>1, <3>1
    <2>2. CASE b \in Fixed
      BY <2>2 DEF Fixed, Shape, FixedSound, Root
    <2> QED
      BY <1>2, <2>1, <2>2
  <1> QED
    BY <1>2, <1>3, <1>4, <1>5, <1>6, <1>7, <1>8

\* No node is of two kinds, for they differ in their names or in where they hang.
LEMMA KindsDiffer ==
  ASSUME Shape
  PROVE  /\ \A a \in LockerDirs : a \notin ListDirs /\ a \notin Listed /\ a \notin Incubated
         /\ \A a \in ListDirs : a \notin Listed /\ a \notin Incubated
         /\ \A a \in Listed : a \notin Incubated
         /\ \A a \in Grown : node[a].name = File =>
              a \notin LockerDirs /\ a \notin ListDirs /\ a \notin Listed /\ a \notin Incubated
         /\ 3 \notin Grown /\ 4 \notin Grown
  <1>1. 3 \notin Grown /\ 4 \notin Grown
    BY DEF Grown, Fixed
  <1>2. \A nm : IsUid(nm) => nm \notin ListNames /\ nm # File
    BY DEF IsUid, Uid, ListNames, Dir, File
  <1>3. \A nm \in ListNames : nm # File
    BY DEF ListNames, Dir, File
  <1> QED
    BY <1>1, <1>2, <1>3, Kinds

\* What is below a node, walking up from each kind.
LEMMA Walk ==
  ASSUME Shape, NEW a
  PROVE  /\ 1 \in Below(a) <=> a = 1
         /\ 2 \in Below(a) <=> a \in {1, 2}
         /\ 3 \in Below(a) <=> a \in {1, 2, 3}
         /\ 4 \in Below(a) <=> a \in {1, 2, 4}
         /\ \A b \in Grown : b \in Below(a) <=> b = a \/ node[b].up \in Below(a)
         /\ Below(a) \subseteq DOMAIN node
  <1>1. Rooted
    BY Kinds
  <1>2. {1, 2, 3, 4} \subseteq DOMAIN node /\ node[2].up = 1 /\ node[3].up = 2 /\ node[4].up = 2
    BY DEF Shape, FixedSound, Fixed
  <1>3. \A b \in DOMAIN node : b \in Below(a) <=> b = a \/ (b # Root /\ node[b].up \in Below(a))
    BY <1>1, BelowUp
  <1>4. Below(a) \subseteq DOMAIN node
    BY <1>1, BelowUp
  <1>5. 1 \in Below(a) <=> a = 1
    BY <1>2, <1>3 DEF Root
  <1>6. 2 \in Below(a) <=> a \in {1, 2}
    BY <1>2, <1>3, <1>5 DEF Root
  <1>7. 3 \in Below(a) <=> a \in {1, 2, 3}
    BY <1>2, <1>3, <1>6 DEF Root
  <1>8. 4 \in Below(a) <=> a \in {1, 2, 4}
    BY <1>2, <1>3, <1>6 DEF Root
  <1>9. \A b \in Grown : b \in Below(a) <=> b = a \/ node[b].up \in Below(a)
    BY <1>3 DEF Root, Grown, Fixed
  <1> QED
    BY <1>4, <1>5, <1>6, <1>7, <1>8, <1>9

\* Names of different kinds differ.
LEMMA Names ==
  /\ \A nm : IsUid(nm) => nm \notin ListNames /\ nm # File /\ \A d : d # "uid" => nm # Dir(d)
  /\ \A nm \in ListNames : nm # File /\ nm # Dir("lockers") /\ nm # Dir("incubator")
  /\ \A d : d # "file" => File # Dir(d)
  /\ \A u : IsUid(Uid(u))
  /\ \A u, v : Uid(u) = Uid(v) => u = v
  BY DEF IsUid, Uid, ListNames, Dir, File

\* The two directories that updates begin with are where they always were.
LEMMA Directories ==
  ASSUME Shape
  PROVE  TheDir("lockers") = 3 /\ TheDir("incubator") = 4
  <1>1. ASSUME NEW b \in Grown PROVE node[b].name # Dir("lockers") /\ node[b].name # Dir("incubator")
    BY Kinds, Names
  <1>2. ASSUME NEW d \in {"lockers", "incubator"}, NEW x \in {3, 4}, x = IF d = "lockers" THEN 3 ELSE 4
        PROVE  TheDir(d) = x
    <2> DEFINE S == {b \in Below(Root) : node[b].name = Dir(d)}
    <2>1. Below(Root) \subseteq Fixed \cup Grown /\ 3 \in Below(Root) /\ 4 \in Below(Root)
      BY Walk, Kinds DEF Root
    <2>2. \A b \in Fixed : node[b].name = Dir(d) <=> b = x
      BY <1>2 DEF Shape, FixedSound, Fixed, Dir
    <2>3. x \in Fixed
      BY DEF Fixed
    <2>4. S = {x}
      BY <1>1, <1>2, <2>1, <2>2, <2>3
    <2>5. FindByName(Root, Dir(d)) = {x}
      BY <2>4, FoundOnce
    <2> QED
      BY <2>5 DEF TheDir
  <1> QED
    BY <1>2

\* The search below the lockers: a uid is that of one locker or of one client.
LEMMA FoundUid ==
  ASSUME Shape, LockersShown, ListedShown, UidsSound, NEW u
  PROVE  /\ FindByName(3, Uid(u)) = {b \in LockerDirs \cup Listed : node[b].name = Uid(u)}
         /\ \A x, y \in LockerDirs \cup Listed : node[x].name = Uid(u) /\ node[y].name = Uid(u) => x = y
  <1>1. ASSUME NEW x \in LockerDirs, NEW y \in Listed, node[x].name = node[y].name PROVE FALSE
    <2>1. PICK n \in Name : locker[n].state # "none" /\ node[x].name = Uid(locker[n].uid)
      BY DEF LockersShown
    <2>2. PICK c \in Client : node[y].name = Uid(place[c].uid)
      BY DEF ListedShown, Belongs
    <2>3. place[c].uid = locker[n].uid
      BY <1>1, <2>1, <2>2, Names
    <2>4. locker[n].uid \in 1..last_uid /\ locker[n].uid = 0
      BY <2>1, <2>3 DEF UidsSound
    <2> QED
      BY <2>4
  <1>2. \A x, y \in LockerDirs \cup Listed : node[x].name = Uid(u) /\ node[y].name = Uid(u) => x = y
    BY <1>1 DEF LockersShown, ListedShown
  <1> DEFINE S == {b \in Below(3) : node[b].name = Uid(u)}
  <1>3. Below(3) \subseteq Fixed \cup Grown
    BY Walk, Kinds
  <1>4. \A b \in Fixed : node[b].name # Uid(u)
    BY DEF Shape, FixedSound, Fixed, Dir, Uid
  <1>5. ASSUME NEW b \in Grown, node[b].name = Uid(u) PROVE b \in Below(3) <=> b \in LockerDirs \cup Listed
    <2>1. node[b].name # File /\ node[b].name \notin ListNames
      BY <1>5, Names
    <2>2. b \in LockerDirs \cup Listed \cup Incubated
      BY <2>1, Kinds
    <2>3. 3 \in Below(3) /\ 4 \notin Below(3) /\ b # 3
      BY Walk DEF Grown, Fixed
    <2>4. CASE b \in LockerDirs
      BY <2>3, <2>4, Kinds, Walk
    <2>5. CASE b \in Listed
      <3>1. node[b].up \in ListDirs /\ node[node[b].up].up \in LockerDirs
        BY <2>5, Kinds
      <3>2. node[node[b].up].up \in Below(3)
        BY <2>3, <3>1, Kinds, Walk
      <3>3. node[b].up \in Below(3)
        BY <3>1, <3>2, Kinds, Walk
      <3> QED
        BY <2>5, <3>3, Walk
    <2>6. CASE b \in Incubated
      BY <2>3, <2>6, Kinds, KindsDiffer, Walk
    <2> QED
      BY <2>2, <2>4, <2>5, <2>6
  <1>6. LockerDirs \cup Listed \subseteq Grown
    BY Kinds
  <1>7. S = {b \in LockerDirs \cup Listed : node[b].name = Uid(u)}
    BY <1>3, <1>4, <1>5, <1>6
  <1>8. FindByName(3, Uid(u)) = S
    BY <1>2, <1>7, FoundOnce
  <1> QED
    BY <1>2, <1>7, <1>8

\* The search in the incubator.
LEMMA FoundIncubated ==
  ASSUME Shape, IncubatorShown, NEW u
  PROVE  FindByName(4, Uid(u)) = {b \in Incubated : node[b].name = Uid(u)}
  <1> DEFINE S == {b \in Below(4) : node[b].name = Uid(u)}
  <1>1. Below(4) \subseteq Fixed \cup Grown
    BY Walk, Kinds
  <1>2. \A b \in Fixed : node[b].name # Uid(u)
    BY DEF Shape, FixedSound, Fixed, Dir, Uid
  <1>3. 4 \in Below(4) /\ 3 \notin Below(4) /\ 4 \notin Grown
    BY Walk DEF Grown, Fixed
  <1>4. \A b \in LockerDirs : b \notin Below(4)
    BY <1>3, Walk, Kinds
  <1>5. \A b \in ListDirs : b \notin Below(4)
    BY <1>3, <1>4, Walk, Kinds
  <1>6. \A b \in Listed : b \notin Below(4)
    BY <1>3, <1>5, Walk, Kinds
  <1>7. \A b \in Incubated : b \in Below(4)
    BY <1>3, Walk, Kinds
  <1>8. ASSUME NEW b \in Grown, node[b].name = Uid(u) PROVE b \in Below(4) <=> b \in Incubated
    <2>1. node[b].name # File
      BY <1>8, Names
    <2> QED
      BY <1>4, <1>5, <1>6, <1>7, <2>1, Kinds
  <1>9. S = {b \in Incubated : node[b].name = Uid(u)}
    BY <1>1, <1>2, <1>8, Kinds
  <1>10. \A x, y \in S : x = y
    BY <1>9 DEF IncubatorShown
  <1> QED
    BY <1>9, <1>10, FoundOnce

\* What is below a locker, and below a client.
LEMMA BelowLocker ==
  ASSUME Shape, NEW l \in LockerDirs
  PROVE  /\ Below(l) \subseteq Grown
         /\ \A b \in LockerDirs : b \in Below(l) <=> b = l
         /\ \A b \in ListDirs : b \in Below(l) <=> node[b].up = l
         /\ \A b \in Listed : b \in Below(l) <=> node[node[b].up].up = l
         /\ \A b \in Incubated : b \notin Below(l)
  <1>1. l \in Grown /\ l \notin {1, 2, 3, 4}
    BY Kinds DEF Grown, Fixed
  <1>2. 1 \notin Below(l) /\ 2 \notin Below(l) /\ 3 \notin Below(l) /\ 4 \notin Below(l)
    BY <1>1, Walk
  <1>3. Below(l) \subseteq Grown
    BY <1>2, Walk, Kinds DEF Grown, Fixed
  <1>4. \A b \in LockerDirs : b \in Below(l) <=> b = l
    BY <1>2, Walk, Kinds
  <1>5. ASSUME NEW b \in ListDirs PROVE b \in Below(l) <=> node[b].up = l
    BY <1>4, Walk, Kinds, KindsDiffer
  <1>6. ASSUME NEW b \in Listed PROVE b \in Below(l) <=> node[node[b].up].up = l
    BY <1>5, Walk, Kinds, KindsDiffer
  <1>7. ASSUME NEW b \in Incubated PROVE b \notin Below(l)
    BY <1>2, Walk, Kinds, KindsDiffer
  <1> QED
    BY <1>3, <1>4, <1>5, <1>6, <1>7

\* What is below the directory of a client.
LEMMA BelowClient ==
  ASSUME Shape, NEW a \in Listed \cup Incubated
  PROVE  /\ Below(a) \subseteq Grown
         /\ \A b \in LockerDirs \cup ListDirs : b \notin Below(a)
         /\ \A b \in Listed \cup Incubated : b \in Below(a) <=> b = a
  <1>1. a \in Grown /\ a \notin {1, 2, 3, 4}
    BY Kinds DEF Grown, Fixed
  <1>2. 1 \notin Below(a) /\ 2 \notin Below(a) /\ 3 \notin Below(a) /\ 4 \notin Below(a)
    BY <1>1, Walk
  <1>3. Below(a) \subseteq Grown
    BY <1>2, Walk, Kinds DEF Grown, Fixed
  <1>4. \A b \in LockerDirs : b \notin Below(a)
    BY <1>2, Walk, Kinds, KindsDiffer
  <1>5. \A b \in ListDirs : b \notin Below(a)
    BY <1>4, Walk, Kinds, KindsDiffer
  <1>6. \A b \in Listed \cup Incubated : b \in Below(a) <=> b = a
    BY <1>2, <1>5, Walk, Kinds
  <1> QED
    BY <1>3, <1>4, <1>5, <1>6

\* The search of a list of a locker.
LEMMA FoundList ==
  ASSUME Shape, LockersShown, NEW l \in LockerDirs, NEW d \in ListNames
  PROVE  /\ FindByName(l, d) = {b \in ListDirs : node[b].name = d /\ node[b].up = l}
         /\ FindByName(l, d) # {}
  <1> DEFINE S == {b \in Below(l) : node[b].name = d}
  <1>1. S = {b \in ListDirs : node[b].name = d /\ node[b].up = l}
    BY BelowLocker DEF ListDirs
  <1>2. \A x, y \in S : x = y
    BY <1>1 DEF LockersShown
  <1>3. S # {}
    BY <1>1 DEF LockersShown
  <1>4. FindByName(l, d) = S
    BY <1>2, FoundOnce
  <1> QED
    BY <1>1, <1>3, <1>4

-------------------------------------------------------------------------------
(* Updates. *)

\* The tree without a node and what is below it.
LEMMA CleanupShape ==
  ASSUME Shape, NEW a \in LockerDirs \cup Listed \cup Incubated,
         node' = [b \in DOMAIN node \ Below(a) |-> node[b]]
  PROVE  /\ Shape'
         /\ Grown' = Grown \ Below(a)
         /\ LockerDirs' = LockerDirs \ Below(a)
         /\ ListDirs' = ListDirs \ Below(a)
         /\ Listed' = Listed \ Below(a)
         /\ Incubated' = Incubated \ Below(a)
         /\ \A b \in Grown' : node'[b] = node[b]
  <1>1. Below(a) \subseteq Grown
    BY BelowLocker, BelowClient
  <1>2. DOMAIN node' = DOMAIN node \ Below(a) /\ \A b \in DOMAIN node' : node'[b] = node[b]
    OBVIOUS
  <1>3. Grown' = Grown \ Below(a)
    BY <1>2 DEF Grown
  <1>4. \A b \in Grown' : node'[b] = node[b]
    BY <1>2 DEF Grown
  <1>5. LockerDirs' = LockerDirs \ Below(a)
    BY <1>3, <1>4 DEF LockerDirs
  <1>6. ListDirs' = ListDirs \ Below(a)
    BY <1>3, <1>4 DEF ListDirs
  <1>7. ASSUME NEW b \in Grown' PROVE b \in Grown /\ node[b].up \notin Below(a)
    BY <1>3, Walk
  <1>8. Incubated' = Incubated \ Below(a)
    BY <1>3, <1>4 DEF Incubated
  <1>9. Listed' = Listed \ Below(a)
    <2>1. \A b \in Grown' : node'[b].up \in ListDirs' <=> node[b].up \in ListDirs
      BY <1>4, <1>6, <1>7
    <2> QED
      BY <1>3, <2>1 DEF Listed
  <1>10. FixedSound'
    BY <1>1, <1>2, Kinds DEF Shape, FixedSound, Fixed
  <1>11. ASSUME NEW b \in Grown' PROVE NodeSound(b)'
    <2>1. NodeSound(b) /\ node'[b] = node[b]
      BY <1>4, <1>7 DEF Shape
    <2> QED
      BY <1>5, <1>6, <1>7, <1>8, <1>9, <2>1 DEF NodeSound
  <1>12. \A b \in DOMAIN node' : IsNode(node'[b])
    BY <1>2 DEF Shape
  <1>13. Shape'
    BY <1>10, <1>11, <1>12 DEF Shape
  <1> QED
    BY <1>3, <1>4, <1>5, <1>6, <1>8, <1>9, <1>13

\* The tree with a directory for a client.
LEMMA ConnDirShape ==
  ASSUME Shape, top \in Nat, DOMAIN node \subseteq 1..top,
         NEW dir \in ListDirs \cup {4}, NEW u \in Nat, AddConnDir(dir, u)
  PROVE  /\ Shape'
         /\ top' \in Nat /\ DOMAIN node' \subseteq 1..top'
         /\ \A b \in DOMAIN node : b \in DOMAIN node' /\ node'[b] = node[b]
         /\ LockerDirs' = LockerDirs
         /\ ListDirs' = ListDirs
         /\ \E a : /\ a \notin DOMAIN node
                   /\ node'[a] = [name |-> Uid(u), up |-> dir]
                   /\ Listed' = Listed \cup (IF dir = 4 THEN {} ELSE {a})
                   /\ Incubated' = Incubated \cup (IF dir = 4 THEN {a} ELSE {})
  <1>1. PICK a, f : a = NewAddr(2)[1] /\ f = NewAddr(2)[2]
    OBVIOUS
  <1>2. a \in 1..(top + 2) /\ f \in 1..(top + 2) /\ a \notin DOMAIN node /\ f \notin DOMAIN node /\ a # f
    BY <1>1, NewAddrs
  <1>3. PICK added : added = [b \in {a, f} |->
              IF b = a THEN [name |-> Uid(u), up |-> dir] ELSE [name |-> File, up |-> a]]
    OBVIOUS
  <1>4. Grow(added)
    BY <1>1, <1>3 DEF AddConnDir
  <1>5. /\ DOMAIN node' = DOMAIN node \cup {a, f}
        /\ \A b \in DOMAIN node : node'[b] = node[b]
        /\ node'[a] = [name |-> Uid(u), up |-> dir]
        /\ node'[f] = [name |-> File, up |-> a]
    BY <1>2, <1>3, <1>4 DEF Grow
  <1>6. top' = Max({top, a, f})
    <2>1. {top} \cup DOMAIN added = {top, a, f}
      BY <1>3
    <2> QED
      BY <1>4, <2>1 DEF Grow
  <1>7. top' \in Nat /\ DOMAIN node' \subseteq 1..top'
    <2>1. \E x \in {top, a, f} : \A y \in {top, a, f} : x >= y
      BY <1>2
    <2>2. top' \in {top, a, f} /\ \A y \in {top, a, f} : top' >= y
      BY <1>6, <2>1 DEF Max
    <2> QED
      BY <1>2, <1>5, <2>2
  <1>8. a \notin Fixed /\ f \notin Fixed
    BY <1>2 DEF Shape, FixedSound
  <1>9. Grown' = Grown \cup {a, f} /\ a \notin Grown /\ f \notin Grown
    BY <1>2, <1>5, <1>8 DEF Grown
  <1>10. \A b \in Grown : node'[b] = node[b]
    BY <1>5 DEF Grown
  <1>11. dir \in DOMAIN node /\ dir # 3 /\ (dir = 4 \/ dir \in ListDirs) /\ 4 \notin ListDirs
    BY Kinds, KindsDiffer DEF Shape, FixedSound, Fixed
  <1>12. a # 3 /\ a # 4 /\ IsUid(node'[a].name) /\ node'[a].name \notin ListNames /\ node'[f].name \notin ListNames
    BY <1>5, <1>8, Names DEF Fixed
  <1>13. LockerDirs' = LockerDirs
    BY <1>5, <1>9, <1>10, <1>11, <1>12 DEF LockerDirs
  <1>14. ListDirs' = ListDirs
    BY <1>9, <1>10, <1>12 DEF ListDirs
  <1>15. \A b \in Grown : node[b].up \in DOMAIN node
    BY Kinds DEF Rooted, Root, Grown, Fixed
  <1>16. Listed' = Listed \cup (IF dir = 4 THEN {} ELSE {a})
    <2>1. a \notin ListDirs
      BY <1>9 DEF ListDirs
    <2> QED
      BY <1>5, <1>9, <1>10, <1>11, <1>14, <2>1 DEF Listed
  <1>17. Incubated' = Incubated \cup (IF dir = 4 THEN {a} ELSE {})
    BY <1>5, <1>9, <1>10, <1>11, <1>12 DEF Incubated
  <1>18. FixedSound'
    BY <1>5 DEF Shape, FixedSound, Fixed
  <1>19. ASSUME NEW b \in Grown' PROVE NodeSound(b)'
    <2>1. CASE b \in Grown
      <3>1. NodeSound(b) /\ node'[b] = node[b]
        BY <1>10, <2>1 DEF Shape
      <3> QED
        BY <1>13, <1>14, <1>16, <1>17, <3>1 DEF NodeSound
    <2>2. CASE b = a
      BY <1>5, <1>11, <1>12, <1>14, <2>2 DEF NodeSound
    <2>3. CASE b = f
      BY <1>5, <1>16, <1>17, <2>3 DEF NodeSound
    <2> QED
      BY <1>9, <2>1, <2>2, <2>3
  <1>20. \A b \in DOMAIN node' : IsNode(node'[b])
    <2>1. IsNode(node'[a]) /\ IsNode(node'[f])
      BY <1>5 DEF IsNode
    <2> QED
      BY <1>5, <2>1 DEF Shape
  <1>21. Shape'
    BY <1>18, <1>19, <1>20 DEF Shape
  <1> QED
    BY <1>2, <1>5, <1>7, <1>13, <1>14, <1>16, <1>17, <1>21

\* The tree with the directories of a locker.
LEMMA LockerShape ==
  ASSUME Shape, top \in Nat, DOMAIN node \subseteq 1..top, NEW u \in Nat, AddLocker(u)
  PROVE  /\ Shape'
         /\ top' \in Nat /\ DOMAIN node' \subseteq 1..top'
         /\ \A b \in DOMAIN node : b \in DOMAIN node' /\ node'[b] = node[b]
         /\ Listed' = Listed
         /\ Incubated' = Incubated
         /\ \E l, h, w :
              /\ l \notin DOMAIN node /\ h \notin DOMAIN node /\ w \notin DOMAIN node
              /\ l # h /\ l # w /\ h # w
              /\ node'[l] = [name |-> Uid(u), up |-> 3]
              /\ node'[h] = [name |-> Dir("holders"), up |-> l]
              /\ node'[w] = [name |-> Dir("waitings"), up |-> l]
              /\ LockerDirs' = LockerDirs \cup {l}
              /\ ListDirs' = ListDirs \cup {h, w}
  <1>1. PICK l, h, w : l = NewAddr(3)[1] /\ h = NewAddr(3)[2] /\ w = NewAddr(3)[3]
    OBVIOUS
  <1>2. /\ l \in 1..(top + 3) /\ h \in 1..(top + 3) /\ w \in 1..(top + 3)
        /\ l \notin DOMAIN node /\ h \notin DOMAIN node /\ w \notin DOMAIN node
        /\ l # h /\ l # w /\ h # w
    BY <1>1, NewAddrs
  <1>3. PICK added : added = [b \in {l, h, w} |->
              IF b = l THEN [name |-> Uid(u), up |-> 3]
              ELSE [name |-> Dir(IF b = h THEN "holders" ELSE "waitings"), up |-> l]]
    OBVIOUS
  <1>4. Grow(added)
    BY <1>1, <1>3, Directories DEF AddLocker
  <1>5. /\ DOMAIN node' = DOMAIN node \cup {l, h, w}
        /\ \A b \in DOMAIN node : node'[b] = node[b]
        /\ node'[l] = [name |-> Uid(u), up |-> 3]
        /\ node'[h] = [name |-> Dir("holders"), up |-> l]
        /\ node'[w] = [name |-> Dir("waitings"), up |-> l]
    BY <1>2, <1>3, <1>4 DEF Grow
  <1>6. top' = Max({top, l, h, w})
    <2>1. {top} \cup DOMAIN added = {top, l, h, w}
      BY <1>3
    <2> QED
      BY <1>4, <2>1 DEF Grow
  <1>7. top' \in Nat /\ DOMAIN node' \subseteq 1..top'
    <2>1. \E x \in {top, l, h, w} : \A y \in {top, l, h, w} : x >= y
      BY <1>2
    <2>2. top' \in {top, l, h, w} /\ \A y \in {top, l, h, w} : top' >= y
      BY <1>6, <2>1 DEF Max
    <2> QED
      BY <1>2, <1>5, <2>2
  <1>8. l \notin Fixed /\ h \notin Fixed /\ w \notin Fixed /\ l \notin {3, 4}
    BY <1>2 DEF Shape, FixedSound, Fixed
  <1>9. Grown' = Grown \cup {l, h, w} /\ l \notin Grown /\ h \notin Grown /\ w \notin Grown
    BY <1>2, <1>5, <1>8 DEF Grown
  <1>10. \A b \in Grown : node'[b] = node[b]
    BY <1>5 DEF Grown
  <1>12. /\ IsUid(node'[l].name) /\ node'[l].name \notin ListNames
         /\ node'[h].name \in ListNames /\ node'[w].name \in ListNames
    BY <1>5, Names DEF ListNames
  <1>13. LockerDirs' = LockerDirs \cup {l}
    BY <1>5, <1>8, <1>9, <1>10 DEF LockerDirs
  <1>14. ListDirs' = ListDirs \cup {h, w}
    BY <1>9, <1>10, <1>12 DEF ListDirs
  <1>15. \A b \in Grown : node[b].up \in DOMAIN node
    BY Kinds DEF Rooted, Root, Grown, Fixed
  <1>16. Listed' = Listed
    <2>1. node'[l].up \notin ListDirs' /\ node'[h].up \notin ListDirs' /\ node'[w].up \notin ListDirs'
      <3>1. 3 \notin ListDirs /\ l \notin ListDirs /\ 3 \notin {h, w}
        BY <1>2, <1>8, <1>9, KindsDiffer DEF ListDirs, Fixed
      <3> QED
        BY <1>2, <1>5, <1>14, <3>1
    <2>2. \A b \in Grown : node[b].up \in ListDirs' <=> node[b].up \in ListDirs
      BY <1>2, <1>14, <1>15
    <2> QED
      BY <1>9, <1>10, <2>1, <2>2 DEF Listed
  <1>17. Incubated' = Incubated
    BY <1>5, <1>8, <1>9, <1>10 DEF Incubated
  <1>18. FixedSound'
    BY <1>5 DEF Shape, FixedSound, Fixed
  <1>19. ASSUME NEW b \in Grown' PROVE NodeSound(b)'
    <2>1. CASE b \in Grown
      <3>1. NodeSound(b) /\ node'[b] = node[b]
        BY <1>10, <2>1 DEF Shape
      <3> QED
        BY <1>13, <1>14, <1>16, <1>17, <3>1 DEF NodeSound
    <2>2. CASE b = l
      BY <1>5, <1>12, <2>2 DEF NodeSound
    <2>3. CASE b \in {h, w}
      BY <1>5, <1>12, <1>13, <2>3 DEF NodeSound
    <2> QED
      BY <1>9, <2>1, <2>2, <2>3
  <1>20. \A b \in DOMAIN node' : IsNode(node'[b])
    <2>1. IsNode(node'[l]) /\ IsNode(node'[h]) /\ IsNode(node'[w])
      BY <1>5 DEF IsNode
    <2> QED
      BY <1>5, <2>1 DEF Shape
  <1>21. Shape'
    BY <1>18, <1>19, <1>20 DEF Shape
  <1> QED
    BY <1>2, <1>5, <1>7, <1>13, <1>14, <1>16, <1>17, <1>21

\* The tree after a client is moved to another list.
LEMMA MoveShape ==
  ASSUME Shape, NEW a \in Listed, NEW h \in ListDirs, node' = [node EXCEPT ![a].up = h]
  PROVE  /\ Shape'
         /\ DOMAIN node' = DOMAIN node
         /\ LockerDirs' = LockerDirs
         /\ ListDirs' = ListDirs
         /\ Listed' = Listed
         /\ Incubated' = Incubated
         /\ \A b \in DOMAIN node : node'[b] = IF b = a THEN [name |-> node[a].name, up |-> h] ELSE node[b]
  <1>1. a \in Grown /\ a \in DOMAIN node /\ h \notin {3, 4} /\ node[a].up \notin {3, 4} /\ IsUid(node[a].name)
    BY Kinds, KindsDiffer DEF Grown
  <1>2. node[a] = [name |-> node[a].name, up |-> node[a].up]
    BY <1>1 DEF Shape, IsNode
  <1>3. DOMAIN node' = DOMAIN node
    OBVIOUS
  <1>4. ASSUME NEW b \in DOMAIN node
        PROVE  node'[b] = IF b = a THEN [name |-> node[a].name, up |-> h] ELSE node[b]
    BY <1>1, <1>2
  <1>5. Grown' = Grown
    BY <1>3 DEF Grown
  <1>6. \A b \in Grown : node'[b] = IF b = a THEN [name |-> node[a].name, up |-> h] ELSE node[b]
    BY <1>4 DEF Grown
  <1>7. LockerDirs' = LockerDirs
    BY <1>1, <1>5, <1>6 DEF LockerDirs
  <1>8. ListDirs' = ListDirs
    BY <1>5, <1>6 DEF ListDirs
  <1>9. Listed' = Listed
    BY <1>5, <1>6, <1>8 DEF Listed
  <1>10. Incubated' = Incubated
    BY <1>1, <1>5, <1>6 DEF Incubated
  <1>11. FixedSound'
    <2>1. a \notin Fixed
      BY <1>1 DEF Grown
    <2> QED
      BY <1>3, <1>4, <2>1 DEF Shape, FixedSound, Fixed
  <1>12. ASSUME NEW b \in Grown' PROVE NodeSound(b)'
    <2>1. NodeSound(b)
      BY <1>5 DEF Shape
    <2> QED
      BY <1>1, <1>5, <1>6, <1>7, <1>8, <1>9, <1>10, <2>1 DEF NodeSound
  <1>13. \A b \in DOMAIN node' : IsNode(node'[b])
    BY <1>3, <1>4 DEF Shape, IsNode
  <1>14. Shape'
    BY <1>11, <1>12, <1>13 DEF Shape
  <1> QED
    BY <1>3, <1>4, <1>7, <1>8, <1>9, <1>10, <1>14

-------------------------------------------------------------------------------
(* The threads, without the tree. *)

\* The steps of the daemon and those of the FUSE thread.
DaemonStep ==
  \/ \E c \in Client : \/ Accept(c) \/ Incubate(c) \/ StartLocker(c) \/ HandOver(c)
                       \/ TransferIncubated(c) \/ Drop(c)
                       \/ Hold(c) \/ Enqueue(c) \/ Refuse(c) \/ Grant(c) \/ CleanEnd(c)
                       \/ \E s \in Leaving : CleanStart(c, s)
  \/ DelIncubated \/ IncubatorDone \/ End
  \/ \E n \in Name : JoinLocker(n) \/ LockerFail(n)

\* A client that changes only its state, in a step of the main thread or of its locker.
LEMMA BecomeFields ==
  ASSUME DaemonTyped, NEW c \in Client, NEW s, Become(c, s)
  PROVE  /\ \A d \in Client : place'[d].uid = place[d].uid
         /\ \A d \in Client : place'[d].state = IF d = c THEN s ELSE place[d].state
         /\ DOMAIN place' = Client
  BY DEF Become, DaemonTyped, Place

\* Such a step keeps the type.
LEMMA BecomeTyped ==
  ASSUME DaemonTyped, NEW c \in Client, NEW s, Become(c, s),
         s \in {"none", "table", "incubator", "piped", "open", "waiting", "holder",
                "unlocking", "closing", "gone"}
  PROVE  place' \in [Client -> Place]
  BY DEF Become, DaemonTyped, Place

\* Such a client neither comes nor goes, and every uid stays.
LEMMA BecomeSound ==
  ASSUME DaemonSound, NEW c \in Client, NEW s, Become(c, s),
         place[c].state # "none",
         s \in {"table", "incubator", "piped", "open", "waiting", "holder",
                "unlocking", "closing", "gone"},
         s \in WithLocker => locker[want[c]].state = "up",
         main' \in MainType,
         main'.op \in {"scan", "del"} => locker[main'.name].state # "none",
         main'.op = "del" => place'[main'.client].state \notin {"none", "table", "incubator"},
         main'.op # "ended",
         UNCHANGED <<last_uid, want, locker, started>>
  PROVE  DaemonSound'
  <1>1. DaemonTyped /\ UidsSound /\ ControlSound /\ Counted
    BY DEF DaemonSound
  <1>2. DaemonTyped'
    BY <1>1, BecomeTyped DEF DaemonTyped
  <1>3. /\ \A d \in Client : place'[d].uid = place[d].uid
        /\ \A d \in Client : place'[d].state = IF d = c THEN s ELSE place[d].state
    BY <1>1, BecomeFields
  <1>4. \A d \in Client : place'[d].state = "none" <=> place[d].state = "none"
    BY <1>3
  <1>5. UidsSound'
    BY <1>1, <1>3, <1>4 DEF UidsSound
  <1>6. Counted'
    <2>1. {d \in Client : place'[d].state # "none"} = {d \in Client : place[d].state # "none"}
      BY <1>4
    <2> QED
      BY <1>1, <2>1 DEF Counted
  <1>7. ControlSound'
    <2>1. \A d \in Client : place'[d].state \in WithLocker => locker'[want'[d]].state = "up"
      BY <1>1, <1>3 DEF ControlSound
    <2> QED
      BY <2>1 DEF ControlSound
  <1> QED
    BY <1>2, <1>5, <1>6, <1>7 DEF DaemonSound

\* The fields of the state of the main thread.
LEMMA MainTypes ==
  ASSUME main \in MainType
  PROVE  /\ main.op \in {"poll", "scan", "del", "ended"}
         /\ main.op = "poll" <=> main = MainIdle
         /\ main.op \in {"scan", "del"} => main.name \in Name
         /\ main.op = "del" => main.client \in Client
  BY DEF MainType, MainIdle

\* Every step of the daemon keeps its own part of the invariant.
LEMMA DaemonSoundStep ==
  ASSUME DaemonSound, DaemonStep
  PROVE  DaemonSound'
  <1>1. DaemonTyped /\ UidsSound /\ ControlSound /\ Counted /\ main \in MainType
    BY DEF DaemonSound, ControlSound
  <1>2. MainIdle.op = "poll" /\ MainIdle \in MainType
    BY DEF MainIdle, MainType
  <1>3. ASSUME NEW c \in Client, Accept(c) PROVE DaemonSound'
    <2>1. /\ main = MainIdle /\ place[c].state = "none"
          /\ place' = [place EXCEPT ![c] = [state |-> "table", uid |-> last_uid + 1]]
          /\ last_uid' = last_uid + 1
          /\ UNCHANGED <<want, locker, started, main>>
      BY <1>3 DEF Accept, NewUid
    <2>2. DaemonTyped'
      BY <1>1, <2>1 DEF DaemonTyped, Place
    <2>3. /\ place'[c] = [state |-> "table", uid |-> last_uid + 1]
          /\ \A d \in Client \ {c} : place'[d] = place[d]
      BY <1>1, <2>1 DEF DaemonTyped
    <2>4. UidsSound'
      BY <1>1, <2>1, <2>3 DEF UidsSound, DaemonTyped, Place
    <2>5. Counted'
      <3> DEFINE S == {d \in Client : place[d].state # "none"}
      <3>1. {d \in Client : place'[d].state # "none"} = S \cup {c} /\ c \notin S
        BY <2>1, <2>3
      <3>2. IsFiniteSet(S)
        BY VfsAssumption, FS_Subset
      <3>3. Cardinality(S \cup {c}) = Cardinality(S) + 1 /\ Cardinality(S) \in Nat
        BY <3>1, <3>2, FS_AddElement, FS_CardinalityType
      <3>4. started \in Nat
        BY <1>1, VfsAssumption DEF Counted
      <3>5. last_uid = Cardinality(S) + started /\ started \in 0..MaxLocker
        BY <1>1 DEF Counted
      <3>6. Cardinality({d \in Client : place'[d].state # "none"}) = Cardinality(S) + 1
        BY <3>1, <3>3
      <3> HIDE DEF S
      <3>7. last_uid' = Cardinality({d \in Client : place'[d].state # "none"}) + started'
        BY <2>1, <3>3, <3>4, <3>5, <3>6
      <3> QED
        BY <2>1, <3>5, <3>7 DEF Counted
    <2>6. ControlSound'
      BY <1>1, <1>2, <2>1, <2>3 DEF ControlSound, WithLocker, Leaving
    <2> QED
      BY <2>2, <2>4, <2>5, <2>6 DEF DaemonSound
  <1>4. ASSUME NEW c \in Client, Incubate(c) PROVE DaemonSound'
    BY <1>1, <1>2, <1>4, BecomeSound DEF Incubate, WithLocker, Leaving
  <1>5. ASSUME NEW c \in Client, StartLocker(c) PROVE DaemonSound'
    <2>1. /\ main = MainIdle /\ place[c].state = "table" /\ locker[want[c]].state = "none"
          /\ started < MaxLocker
          /\ locker' = [locker EXCEPT ![want[c]] = [state |-> "up", uid |-> last_uid + 1]]
          /\ last_uid' = last_uid + 1
          /\ started' = started + 1
          /\ Become(c, "piped")
          /\ main' = [op |-> "scan", name |-> want[c]]
          /\ want' = want
      BY <1>5 DEF StartLocker, LockerUid, NewUid
    <2>2. want[c] \in Name
      BY <1>1 DEF DaemonTyped
    <2>3. DaemonTyped'
      <3>1. place' \in [Client -> Place]
        BY <1>1, <2>1, BecomeTyped
      <3> QED
        BY <1>1, <2>1, <2>2, <3>1 DEF DaemonTyped
    <2>4. /\ \A d \in Client : place'[d].uid = place[d].uid
          /\ \A d \in Client : place'[d].state = IF d = c THEN "piped" ELSE place[d].state
      BY <1>1, <2>1, BecomeFields
    <2>5. /\ locker'[want[c]] = [state |-> "up", uid |-> last_uid + 1]
          /\ \A n \in Name \ {want[c]} : locker'[n] = locker[n]
      BY <1>1, <2>1, <2>2 DEF DaemonTyped
    <2>6. UidsSound'
      <3>1. \A d \in Client : IF place'[d].state = "none" THEN place'[d].uid = 0
                              ELSE place'[d].uid \in 1..last_uid'
        <4>1. last_uid \in Nat /\ 1..last_uid \subseteq 1..last_uid'
          BY <1>1, <2>1 DEF DaemonTyped
        <4>2. \A d \in Client : place'[d].state = "none" <=> place[d].state = "none"
          BY <2>1, <2>4
        <4>3. \A d \in Client : IF place[d].state = "none" THEN place[d].uid = 0
                                ELSE place[d].uid \in 1..last_uid
          BY <1>1 DEF UidsSound
        <4> QED
          BY <2>4, <4>1, <4>2, <4>3
      <3>2. \A n \in Name : IF locker'[n].state = "none" THEN locker'[n].uid = 0
                            ELSE locker'[n].uid \in 1..last_uid'
        BY <1>1, <2>1, <2>5 DEF UidsSound, DaemonTyped
      <3>3. \A d \in Client : place[d].uid # last_uid + 1
        BY <1>1 DEF UidsSound, DaemonTyped
      <3>4. \A n \in Name : locker[n].uid # last_uid + 1
        BY <1>1 DEF UidsSound, DaemonTyped
      <3> QED
        BY <1>1, <2>4, <2>5, <3>1, <3>2, <3>3, <3>4 DEF UidsSound
    <2>7. Counted'
      <3>1. {d \in Client : place'[d].state # "none"} = {d \in Client : place[d].state # "none"}
        BY <2>1, <2>4
      <3>2. IsFiniteSet({d \in Client : place[d].state # "none"})
        BY VfsAssumption, FS_Subset
      <3>3. Cardinality({d \in Client : place[d].state # "none"}) \in Nat
        BY <3>2, FS_CardinalityType
      <3>4. /\ last_uid = Cardinality({d \in Client : place[d].state # "none"}) + started
            /\ started \in 0..MaxLocker
        BY <1>1 DEF Counted
      <3>5. last_uid' = Cardinality({d \in Client : place[d].state # "none"}) + started'
        BY <2>1, <3>3, <3>4
      <3>6. started' \in 0..MaxLocker
        BY <2>1, <3>4, VfsAssumption
      <3> QED
        BY <3>1, <3>5, <3>6 DEF Counted
    <2>8. ControlSound'
      <3>1. main' \in MainType /\ main'.op = "scan" /\ main'.name = want[c]
        BY <2>1, <2>2 DEF MainType
      <3>2. \A d \in Client : place'[d].state \in WithLocker => locker'[want'[d]].state = "up"
        <4> SUFFICES ASSUME NEW d \in Client, place'[d].state \in WithLocker
                     PROVE  locker'[want[d]].state = "up"
          BY <2>1
        <4>1. want[d] \in Name
          BY <1>1 DEF DaemonTyped
        <4>2. CASE want[d] = want[c]
          BY <2>5, <4>2
        <4>3. CASE want[d] # want[c]
          BY <1>1, <2>4, <2>5, <4>1, <4>3 DEF ControlSound
        <4> QED
          BY <4>2, <4>3
      <3> QED
        BY <2>5, <3>1, <3>2 DEF ControlSound
    <2> QED
      BY <2>3, <2>6, <2>7, <2>8 DEF DaemonSound
  <1>6. ASSUME NEW c \in Client, HandOver(c) PROVE DaemonSound'
    BY <1>1, <1>2, <1>6, BecomeSound DEF HandOver, WithLocker, Leaving
  <1>7. ASSUME NEW c \in Client, TransferIncubated(c) PROVE DaemonSound'
    <2>1. main.name \in Name /\ main.op = "scan" /\ locker[main.name].state # "none"
      BY <1>1, <1>7, MainTypes DEF TransferIncubated, ControlSound
    <2>2. main' = [op |-> "del", name |-> main.name, client |-> c] /\ main' \in MainType
      BY <1>7, <2>1 DEF TransferIncubated, MainType
    <2>3. Become(c, IF locker[want[c]].state = "up" THEN "piped" ELSE "gone")
      BY <1>7 DEF TransferIncubated
    <2>4. place'[c].state \in {"piped", "gone"}
      BY <1>1, <2>3, BecomeFields
    <2> QED
      BY <1>1, <1>7, <2>1, <2>2, <2>3, <2>4, BecomeSound DEF TransferIncubated, WithLocker, Leaving
  <1>8. ASSUME NEW c \in Client, Drop(c) PROVE DaemonSound'
    BY <1>1, <1>2, <1>8, BecomeSound DEF Drop, WithLocker, Leaving
  \* The steps of a locker.
  <1>9. ASSUME NEW c \in Client, NEW s, Become(c, s), locker[want[c]].state = "up",
               place[c].state \in WithLocker, s \in WithLocker \cup {"gone"},
               UNCHANGED <<last_uid, want, locker, started, main>>
        PROVE  DaemonSound'
    <2>1. /\ place[c].state # "none"
          /\ s \in {"table", "incubator", "piped", "open", "waiting", "holder",
                    "unlocking", "closing", "gone"}
          /\ s \notin {"none", "table", "incubator"}
      BY <1>9 DEF WithLocker, Leaving
    <2>2. main'.op = "del" => place'[main'.client].state \notin {"none", "table", "incubator"}
      <3>1. main.op = "del" => main.client \in Client
        BY <1>1, MainTypes
      <3> QED
        BY <1>1, <1>9, <2>1, <3>1, BecomeFields DEF ControlSound
    <2>3. main.op # "ended"
      BY <1>1, <1>9 DEF ControlSound, DaemonTyped
    <2>4. main'.op \in {"scan", "del"} => locker[main'.name].state # "none"
      BY <1>1, <1>9 DEF ControlSound
    <2> QED
      BY <1>1, <1>9, <2>1, <2>2, <2>3, <2>4, BecomeSound
  <1>10. ASSUME NEW c \in Client, Hold(c) \/ Enqueue(c) \/ Refuse(c) PROVE DaemonSound'
    BY <1>9, <1>10 DEF Hold, Enqueue, Refuse, Inmsg, Free, WithLocker, Leaving
  <1>11. ASSUME NEW c \in Client, Grant(c) PROVE DaemonSound'
    BY <1>9, <1>11 DEF Grant, WithLocker, Leaving
  <1>12. ASSUME NEW c \in Client, CleanEnd(c) PROVE DaemonSound'
    BY <1>9, <1>12 DEF CleanEnd, WithLocker, Leaving
  <1>13. ASSUME NEW c \in Client, NEW s \in Leaving, CleanStart(c, s) PROVE DaemonSound'
    BY <1>9, <1>13 DEF CleanStart, Free, WithLocker, Leaving
  <1>14. ASSUME main' \in MainType, main'.op \in {"scan", "poll", "ended"},
                main'.op = "scan" => locker[main'.name].state # "none",
                main'.op = "ended" => /\ \A n \in Name : locker[n].state = "none"
                                      /\ \A c \in Client : place[c].state \in {"none", "gone"},
                UNCHANGED <<last_uid, want, place, locker, started>>
         PROVE  DaemonSound'
    BY <1>1, <1>14 DEF DaemonSound, DaemonTyped, UidsSound, ControlSound, Counted
  <1>15. ASSUME DelIncubated PROVE DaemonSound'
    <2>1. main.name \in Name /\ locker[main.name].state # "none"
      BY <1>1, <1>15, MainTypes DEF DelIncubated, ControlSound
    <2>2. main' = [op |-> "scan", name |-> main.name] /\ main' \in MainType
      BY <1>15, <2>1 DEF DelIncubated, MainType
    <2> QED
      BY <1>14, <1>15, <2>1, <2>2 DEF DelIncubated
  <1>16. ASSUME IncubatorDone PROVE DaemonSound'
    BY <1>2, <1>14, <1>16 DEF IncubatorDone
  <1>17. ASSUME End PROVE DaemonSound'
    <2>1. main' = [op |-> "ended"] /\ main' \in MainType
      BY <1>17 DEF End, MainType
    <2> QED
      BY <1>14, <1>17, <2>1 DEF End
  <1>18. ASSUME NEW n \in Name, JoinLocker(n) PROVE DaemonSound'
    <2>1. /\ main = MainIdle /\ locker[n].state = "up" /\ Clients(n) = {}
          /\ locker' = [locker EXCEPT ![n] = [state |-> "none", uid |-> 0]]
          /\ UNCHANGED <<last_uid, want, place, started, main>>
      BY <1>18 DEF JoinLocker
    <2>2. locker'[n] = [state |-> "none", uid |-> 0] /\ \A m \in Name \ {n} : locker'[m] = locker[m]
      BY <1>1, <2>1 DEF DaemonTyped
    <2>3. DaemonTyped'
      BY <1>1, <2>1 DEF DaemonTyped
    <2>4. UidsSound'
      BY <1>1, <2>1, <2>2 DEF UidsSound
    <2>5. ControlSound'
      <3>1. \A d \in Client : place[d].state \in WithLocker => want[d] # n
        BY <2>1 DEF Clients
      <3>2. \A d \in Client : place[d].state \in WithLocker => locker'[want[d]].state = "up"
        BY <1>1, <2>2, <3>1 DEF ControlSound, DaemonTyped
      <3> QED
        BY <1>1, <1>2, <2>1, <3>2 DEF ControlSound
    <2>6. Counted'
      BY <1>1, <2>1 DEF Counted
    <2> QED
      BY <2>3, <2>4, <2>5, <2>6 DEF DaemonSound
  <1>19. ASSUME NEW n \in Name, LockerFail(n) PROVE DaemonSound'
    <2>1. /\ locker[n].state = "up"
          /\ locker' = [locker EXCEPT ![n].state = "failed"]
          /\ place' = [c \in Client |-> IF c \in Clients(n) THEN [place[c] EXCEPT !.state = "gone"]
                                        ELSE place[c]]
          /\ UNCHANGED <<last_uid, want, started, main>>
      BY <1>19 DEF LockerFail
    <2>2. \A m \in Name : /\ locker'[m].uid = locker[m].uid
                          /\ locker'[m].state = IF m = n THEN "failed" ELSE locker[m].state
      BY <1>1, <2>1 DEF DaemonTyped
    <2>3. \A c \in Client : /\ place'[c].uid = place[c].uid
                            /\ place'[c].state = IF c \in Clients(n) THEN "gone" ELSE place[c].state
      BY <1>1, <2>1 DEF DaemonTyped, Place
    <2>4. \A c \in Clients(n) : place[c].state \in WithLocker /\ place[c].state # "none"
      BY DEF Clients, WithLocker, Leaving
    <2>5. DaemonTyped'
      <3>1. place' \in [Client -> Place]
        BY <1>1, <2>1 DEF DaemonTyped, Place
      <3>2. locker' \in [Name -> [state : {"none", "up", "failed"}, uid : Nat]]
        BY <1>1, <2>1 DEF DaemonTyped
      <3> QED
        BY <1>1, <2>1, <3>1, <3>2 DEF DaemonTyped
    <2>6. UidsSound'
      <3>1. \A c \in Client : place'[c].state = "none" <=> place[c].state = "none"
        BY <2>3, <2>4
      <3>2. \A m \in Name : locker'[m].state = "none" <=> locker[m].state = "none"
        BY <2>1, <2>2
      <3> QED
        BY <1>1, <2>1, <2>2, <2>3, <3>1, <3>2 DEF UidsSound
    <2>7. ControlSound'
      <3>1. ASSUME NEW d \in Client, place'[d].state \in WithLocker PROVE locker'[want[d]].state = "up"
        <4>1. d \notin Clients(n) /\ place[d].state \in WithLocker
          BY <2>3, <3>1 DEF WithLocker, Leaving
        <4>2. want[d] # n /\ want[d] \in Name
          BY <1>1, <4>1 DEF Clients, DaemonTyped
        <4> QED
          BY <1>1, <2>2, <4>1, <4>2 DEF ControlSound
      <3>2. main.op # "ended"
        BY <1>1, <2>1 DEF ControlSound
      <3>3. main.op \in {"scan", "del"} => locker'[main.name].state # "none"
        BY <1>1, <2>2, MainTypes DEF ControlSound
      <3>4. main.op = "del" => place'[main.client].state \notin {"none", "table", "incubator"}
        BY <1>1, <2>3, MainTypes DEF ControlSound
      <3> QED
        BY <1>1, <2>1, <3>1, <3>2, <3>3, <3>4 DEF ControlSound
    <2>8. Counted'
      <3>1. {d \in Client : place'[d].state # "none"} = {d \in Client : place[d].state # "none"}
        BY <2>3, <2>4
      <3> QED
        BY <1>1, <2>1, <3>1 DEF Counted
    <2> QED
      BY <2>5, <2>6, <2>7, <2>8 DEF DaemonSound
  <1> QED
    BY <1>3, <1>4, <1>5, <1>6, <1>7, <1>8, <1>10, <1>11, <1>12, <1>13, <1>15, <1>16, <1>17, <1>18,
       <1>19 DEF DaemonStep

-------------------------------------------------------------------------------
(* What the tree shows, step by step. *)

\* A directory with the uid of a client is that client's.
LEMMA Owner ==
  ASSUME DaemonSound, ListedShown, NEW a \in Listed, NEW c \in Client,
         node[a].name = Uid(place[c].uid)
  PROVE  Belongs(a, c)
  <1>1. PICK d \in Client : Belongs(a, d)
    BY DEF ListedShown
  <1>2. place[d].uid = place[c].uid
    BY <1>1, Names DEF Belongs
  <1>3. place[d].state # "none"
    BY <1>1 DEF Belongs, Leaving
  <1>4. place[d].uid \in 1..last_uid
    BY <1>3 DEF DaemonSound, UidsSound
  <1>5. place[d].uid # 0
    BY <1>4
  <1>6. d = c
    BY <1>2, <1>5 DEF DaemonSound, UidsSound
  <1> QED
    BY <1>1, <1>6

\* The locker of a client that is in a list has a directory, the one the list is in.
LEMMA OwnLocker ==
  ASSUME DaemonSound, Shape, LockersShown, NEW a \in Listed, NEW c \in Client, Belongs(a, c)
  PROVE  /\ want[c] \in Name /\ locker[want[c]].state # "none"
         /\ node[a].up \in ListDirs
         /\ node[node[a].up].up \in LockerDirs
         /\ node[node[node[a].up].up].name = Uid(locker[want[c]].uid)
  <1>1. node[a].up \in ListDirs /\ node[node[a].up].up \in LockerDirs
    BY Kinds
  <1>2. PICK n \in Name : locker[n].state # "none" /\ node[node[node[a].up].up].name = Uid(locker[n].uid)
    BY <1>1 DEF LockersShown
  <1>3. locker[n].uid = locker[want[c]].uid
    BY <1>2, Names DEF Belongs
  <1>4. locker[n].uid \in 1..last_uid
    BY <1>2 DEF DaemonSound, UidsSound
  <1>5. want[c] \in Name
    BY DEF DaemonSound, DaemonTyped
  <1>6. locker[n].uid # 0
    BY <1>4
  <1>7. n = want[c]
    BY <1>3, <1>5, <1>6 DEF DaemonSound, UidsSound
  <1> QED
    BY <1>1, <1>2, <1>7

\* A tree that does not change.
LEMMA SameTree ==
  ASSUME node' = node
  PROVE  /\ Grown' = Grown /\ LockerDirs' = LockerDirs /\ ListDirs' = ListDirs
         /\ Listed' = Listed /\ Incubated' = Incubated
         /\ Shape => Shape'
  BY DEF Grown, LockerDirs, ListDirs, Listed, Incubated, Shape, FixedSound, NodeSound

\* What a client may become while the tree is not told.
Silent(c) ==
  /\ place'[c].uid = place[c].uid \/ place[c].state = "none"
  /\ place[c].state \in {"holder", "waiting"} \cup Leaving =>
       \/ place'[c].state = place[c].state
       \/ place'[c].state \in Leaving
       \/ place'[c].state = "gone" /\ locker'[want[c]].state = "failed"
  /\ place[c].state = "gone" => place'[c].state = "gone"
  /\ place'[c].state \in {"holder", "waiting", "incubator"} => place'[c].state = place[c].state

\* Lockers that keep their directory.
SameLockers ==
  \A n \in Name : /\ locker'[n].uid = locker[n].uid
                  /\ locker'[n].state = "none" <=> locker[n].state = "none"
                  /\ locker[n].state = "failed" => locker'[n].state = "failed"

\* A directory keeps its owner in a step the tree is not told of.
LEMMA BelongsKept ==
  ASSUME DaemonSound, Shape, LockersShown, SameLockers, want' = want,
         NEW a \in Listed, NEW c \in Client, Belongs(a, c), Silent(c),
         node'[a] = node[a], node'[node[a].up] = node[node[a].up],
         node'[node[node[a].up].up] = node[node[node[a].up].up]
  PROVE  Belongs(a, c)'
  <1>1. want[c] \in Name
    BY DEF DaemonSound, DaemonTyped
  <1>2. place[c].state # "none" /\ place'[c].uid = place[c].uid
    BY DEF Belongs, Silent, Leaving
  <1>3. \/ place'[c].state \in Leaving
        \/ place'[c].state \in {"holder", "waiting"} /\ node[node[a].up].name = ListFor(place'[c].state)
        \/ place'[c].state = "gone" /\ locker'[want[c]].state = "failed"
    BY <1>1 DEF Belongs, Silent, SameLockers
  <1>4. locker'[want[c]].uid = locker[want[c]].uid
    BY <1>1 DEF SameLockers
  <1> QED
    BY <1>2, <1>3, <1>4 DEF Belongs

\* A step the tree is not told of leaves it in line with the lockers and with the clients.
LEMMA StillShown ==
  ASSUME DaemonSound, TreeShown, node' = node, want' = want, SameLockers,
         \A c \in Client : Silent(c),
         \A c \in Client : Kept(c) => Kept(c)'
  PROVE  TreeShown'
  <1>1. Shape /\ LockersShown /\ ListedShown /\ IncubatorShown
    BY DEF TreeShown
  <1>2. /\ LockerDirs' = LockerDirs /\ ListDirs' = ListDirs
        /\ Listed' = Listed /\ Incubated' = Incubated /\ Shape'
    BY <1>1, SameTree
  <1>3. LockersShown'
    BY <1>1, <1>2 DEF LockersShown, SameLockers
  <1>4. ListedShown'
    <2>1. ASSUME NEW a \in Listed PROVE \E c \in Client : Belongs(a, c)'
      <3>1. PICK c \in Client : Belongs(a, c)
        BY <1>1 DEF ListedShown
      <3>2. Belongs(a, c)'
        BY <1>1, <3>1, BelongsKept
      <3> QED
        BY <3>2
    <2>2. ASSUME NEW c \in Client, place'[c].state \in {"holder", "waiting"}
          PROVE  \E a \in Listed : node[a].name = Uid(place'[c].uid)
      BY <1>1, <2>2 DEF ListedShown, Silent
    <2> QED
      BY <1>1, <1>2, <2>1, <2>2 DEF ListedShown
  <1>5. IncubatorShown'
    <2>1. ASSUME NEW a \in Incubated PROVE \E c \in Client : Kept(c)' /\ node[a].name = Uid(place'[c].uid)
      <3>1. PICK c \in Client : Kept(c) /\ node[a].name = Uid(place[c].uid)
        BY <1>1 DEF IncubatorShown
      <3>2. place[c].state # "none"
        BY <3>1 DEF Kept, DaemonSound, ControlSound
      <3> QED
        BY <3>1, <3>2 DEF Silent
    <2>2. ASSUME NEW c \in Client, place'[c].state = "incubator"
          PROVE  \E a \in Incubated : node[a].name = Uid(place'[c].uid)
      BY <1>1, <2>2 DEF IncubatorShown, Silent
    <2> QED
      BY <1>1, <1>2, <2>1, <2>2 DEF IncubatorShown
  <1> QED
    BY <1>2, <1>3, <1>4, <1>5 DEF TreeShown

\* The steps that leave the tree alone.
LEMMA SilentStep ==
  ASSUME DaemonSound, TreeShown,
         \/ \E c \in Client : \/ Accept(c) \/ HandOver(c) \/ TransferIncubated(c) \/ Drop(c)
                              \/ Refuse(c) \/ \E s \in Leaving : CleanStart(c, s)
         \/ IncubatorDone
         \/ \E n \in Name : LockerFail(n)
  PROVE  TreeShown' /\ UNCHANGED <<node, top, fuse>>
  <1>1. DaemonTyped /\ main \in MainType /\ MainIdle.op = "poll"
    BY DEF DaemonSound, ControlSound, MainIdle
  <1>2. ASSUME NEW c \in Client, NEW s, Become(c, s), node' = node, want' = want, locker' = locker,
               s \notin {"holder", "waiting", "incubator"},
               place[c].state \notin {"none", "gone"},
               place[c].state \in {"holder", "waiting"} \cup Leaving => s \in Leaving,
               main' = main \/ main.op # "del",
               place[c].state = "incubator" => s = "gone" \/ main' = [op |-> "del", name |-> main.name, client |-> c]
        PROVE  TreeShown'
    <2>1. \A d \in Client : /\ place'[d].uid = place[d].uid
                            /\ place'[d].state = IF d = c THEN s ELSE place[d].state
      BY <1>1, <1>2, BecomeFields
    <2>2. \A d \in Client : Silent(d)
      BY <1>2, <2>1 DEF Silent, Leaving
    <2>3. SameLockers
      BY <1>2 DEF SameLockers
    <2>4. ASSUME NEW d \in Client, Kept(d) PROVE Kept(d)'
      <3>1. CASE place[d].state \in {"incubator", "gone"}
        BY <1>2, <2>1, <3>1 DEF Kept
      <3>2. CASE main.op = "del" /\ main.client = d
        BY <1>2, <3>2 DEF Kept
      <3> QED
        BY <2>4, <3>1, <3>2 DEF Kept
    <2> QED
      BY <1>2, <2>2, <2>3, <2>4, StillShown
  <1>3. ASSUME NEW c \in Client, Accept(c) PROVE TreeShown'
    <2>1. place' = [place EXCEPT ![c] = [state |-> "table", uid |-> last_uid + 1]] /\ place[c].state = "none"
      BY <1>3 DEF Accept, NewUid
    <2>2. /\ place'[c] = [state |-> "table", uid |-> last_uid + 1]
          /\ \A d \in Client \ {c} : place'[d] = place[d]
      BY <1>1, <2>1 DEF DaemonTyped
    <2>3. \A d \in Client : Silent(d)
      BY <2>1, <2>2 DEF Silent, Leaving
    <2>4. node' = node /\ want' = want /\ SameLockers /\ main' = main
      BY <1>3 DEF Accept, SameLockers
    <2>5. main.op # "del"
      BY <1>1, <1>3 DEF Accept
    <2>6. \A d \in Client : Kept(d) => Kept(d)'
      BY <2>1, <2>2, <2>4, <2>5 DEF Kept
    <2> QED
      BY <2>3, <2>4, <2>6, StillShown
  <1>4. ASSUME NEW c \in Client, HandOver(c) PROVE TreeShown'
    BY <1>1, <1>2, <1>4 DEF HandOver, Leaving
  <1>5. ASSUME NEW c \in Client, TransferIncubated(c) PROVE TreeShown'
    BY <1>1, <1>2, <1>5 DEF TransferIncubated, Leaving
  <1>6. ASSUME NEW c \in Client, Drop(c) PROVE TreeShown'
    BY <1>1, <1>2, <1>6 DEF Drop, Leaving
  <1>7. ASSUME NEW c \in Client, Refuse(c) PROVE TreeShown'
    BY <1>1, <1>2, <1>7 DEF Refuse, Inmsg, Untouched, Leaving
  <1>8. ASSUME NEW c \in Client, NEW s \in Leaving, CleanStart(c, s) PROVE TreeShown'
    BY <1>1, <1>2, <1>8 DEF CleanStart, Leaving
  <1>9. ASSUME IncubatorDone PROVE TreeShown'
    <2>1. node' = node /\ want' = want /\ place' = place /\ locker' = locker /\ main.op = "scan"
      BY <1>9 DEF IncubatorDone
    <2>2. SameLockers /\ \A d \in Client : Silent(d)
      BY <2>1 DEF SameLockers, Silent
    <2>3. \A d \in Client : Kept(d) => Kept(d)'
      BY <2>1 DEF Kept
    <2> QED
      BY <2>1, <2>2, <2>3, StillShown
  <1>10. ASSUME NEW n \in Name, LockerFail(n) PROVE TreeShown'
    <2>1. /\ locker[n].state = "up"
          /\ locker' = [locker EXCEPT ![n].state = "failed"]
          /\ place' = [c \in Client |-> IF c \in Clients(n) THEN [place[c] EXCEPT !.state = "gone"]
                                        ELSE place[c]]
          /\ UNCHANGED <<want, main, node>>
      BY <1>10 DEF LockerFail
    <2>2. \A m \in Name : /\ locker'[m].uid = locker[m].uid
                          /\ locker'[m].state = IF m = n THEN "failed" ELSE locker[m].state
      BY <1>1, <2>1 DEF DaemonTyped
    <2>3. \A c \in Client : /\ place'[c].uid = place[c].uid
                            /\ place'[c].state = IF c \in Clients(n) THEN "gone" ELSE place[c].state
      BY <1>1, <2>1 DEF DaemonTyped, Place
    <2>4. \A c \in Clients(n) : want[c] = n /\ place[c].state \in WithLocker
      BY DEF Clients
    <2>5. SameLockers
      BY <2>1, <2>2 DEF SameLockers
    <2>6. \A c \in Client : Silent(c)
      BY <2>2, <2>3, <2>4 DEF Silent
    <2>7. \A c \in Client : Kept(c) => Kept(c)'
      BY <2>1, <2>3, <2>4 DEF Kept
    <2> QED
      BY <2>1, <2>5, <2>6, <2>7, StillShown
  <1>11. UNCHANGED <<node, top, fuse>>
    BY DEF Accept, HandOver, TransferIncubated, Drop, Refuse, Untouched, CleanStart, IncubatorDone, LockerFail
  <1> QED
    BY <1>3, <1>4, <1>5, <1>6, <1>7, <1>8, <1>9, <1>10, <1>11

\* flom_vfs_ram_tree_add_incubator_conn.
LEMMA IncubateStep ==
  ASSUME DaemonSound, TreeShown, top \in Nat, DOMAIN node \subseteq 1..top,
         NEW c \in Client, Incubate(c)
  PROVE  /\ TreeShown' /\ top' \in Nat /\ DOMAIN node' \subseteq 1..top' /\ fuse' = fuse
         /\ \A b \in DOMAIN node : b \in DOMAIN node' /\ node'[b] = node[b]
  <1>1. /\ Shape /\ LockersShown /\ ListedShown /\ IncubatorShown
        /\ DaemonTyped /\ UidsSound /\ main \in MainType /\ MainIdle.op = "poll"
    BY DEF TreeShown, DaemonSound, ControlSound, MainIdle
  <1>2. /\ main = MainIdle /\ place[c].state = "table" /\ Become(c, "incubator")
        /\ AddConnDir(4, place[c].uid)
        /\ UNCHANGED <<want, locker, main>>
    BY <1>1, Directories DEF Incubate, AddIncubatorConn
  <1>3. place[c].uid \in Nat
    BY <1>1 DEF DaemonTyped, Place
  <1>4. \A d \in Client : /\ place'[d].uid = place[d].uid
                          /\ place'[d].state = IF d = c THEN "incubator" ELSE place[d].state
    BY <1>1, <1>2, BecomeFields
  <1>5. PICK x : /\ x \notin DOMAIN node
                 /\ node'[x] = [name |-> Uid(place[c].uid), up |-> 4]
                 /\ Listed' = Listed
                 /\ Incubated' = Incubated \cup {x}
    <2>1. PICK dir \in ListDirs \cup {4} : dir = 4 /\ AddConnDir(dir, place[c].uid)
      BY <1>2
    <2>2. AddConnDir(dir, place[c].uid)
      BY <2>1
    <2>3. \E x : /\ x \notin DOMAIN node
                 /\ node'[x] = [name |-> Uid(place[c].uid), up |-> dir]
                 /\ Listed' = Listed \cup (IF dir = 4 THEN {} ELSE {x})
                 /\ Incubated' = Incubated \cup (IF dir = 4 THEN {x} ELSE {})
      BY <1>1, <1>3, <2>2, ConnDirShape
    <2> QED
      BY <2>1, <2>3
  <1>6. /\ Shape' /\ top' \in Nat /\ DOMAIN node' \subseteq 1..top'
        /\ \A b \in DOMAIN node : b \in DOMAIN node' /\ node'[b] = node[b]
        /\ LockerDirs' = LockerDirs /\ ListDirs' = ListDirs
    BY <1>1, <1>2, <1>3, ConnDirShape
  <1>7. \A b \in LockerDirs \cup ListDirs \cup Listed \cup Incubated : b \in DOMAIN node /\ node'[b] = node[b]
    BY <1>1, <1>6, Kinds
  <1>8. LockersShown'
    BY <1>1, <1>2, <1>6, <1>7 DEF LockersShown
  <1>9. ListedShown'
    <2>1. ASSUME NEW a \in Listed PROVE \E d \in Client : Belongs(a, d)'
      <3>1. PICK d \in Client : Belongs(a, d)
        BY <1>1 DEF ListedShown
      <3>2. d # c
        BY <1>2, <3>1 DEF Belongs, Leaving
      <3>3. Silent(d) /\ SameLockers
        BY <1>2, <1>4, <3>2 DEF Silent, SameLockers
      <3>4. node[a].up \in ListDirs /\ node[node[a].up].up \in LockerDirs
        BY <1>1, Kinds
      <3>5. Belongs(a, d)'
        BY <1>1, <1>2, <1>7, <3>1, <3>3, <3>4, BelongsKept
      <3> QED
        BY <3>5
    <2>2. ASSUME NEW d \in Client, place'[d].state \in {"holder", "waiting"}
          PROVE  \E a \in Listed : node'[a].name = Uid(place'[d].uid)
      BY <1>1, <1>4, <1>7, <2>2 DEF ListedShown
    <2> QED
      BY <1>1, <1>5, <1>7, <2>1, <2>2 DEF ListedShown
  <1>10. IncubatorShown'
    <2>1. main'.op # "del" /\ main.op # "del"
      BY <1>1, <1>2
    <2>2. ASSUME NEW a \in Incubated PROVE node'[a] = node[a] /\ node[a].name # Uid(place[c].uid)
      <3>1. PICK d \in Client : Kept(d) /\ node[a].name = Uid(place[d].uid)
        BY <1>1 DEF IncubatorShown
      <3>2. d # c /\ place[d].state # "none"
        BY <1>2, <2>1, <3>1 DEF Kept
      <3>3. place[d].uid # 0
        BY <1>1, <3>2 DEF UidsSound
      <3>4. place[d].uid # place[c].uid
        BY <1>1, <3>2, <3>3 DEF UidsSound
      <3> QED
        BY <1>7, <3>1, <3>4, Names
    <2>3. ASSUME NEW a \in Incubated' PROVE \E d \in Client : Kept(d)' /\ node'[a].name = Uid(place'[d].uid)
      <3>1. CASE a = x
        BY <1>4, <1>5, <3>1 DEF Kept
      <3>2. CASE a \in Incubated
        <4>1. PICK d \in Client : Kept(d) /\ node[a].name = Uid(place[d].uid)
          BY <1>1, <3>2 DEF IncubatorShown
        <4> QED
          BY <1>4, <2>1, <2>2, <3>2, <4>1 DEF Kept
      <3> QED
        BY <1>5, <3>1, <3>2
    <2>4. \A a, b \in Incubated' : node'[a].name = node'[b].name => a = b
      BY <1>1, <1>5, <2>2 DEF IncubatorShown
    <2>5. ASSUME NEW d \in Client, place'[d].state = "incubator"
          PROVE  \E a \in Incubated' : node'[a].name = Uid(place'[d].uid)
      <3>1. CASE d = c
        BY <1>4, <1>5, <3>1
      <3>2. CASE d # c
        BY <1>1, <1>4, <1>5, <2>2, <2>5, <3>2 DEF IncubatorShown
      <3> QED
        BY <3>1, <3>2
    <2> QED
      BY <2>3, <2>4, <2>5 DEF IncubatorShown
  <1>11. fuse' = fuse
    BY <1>2 DEF AddConnDir, Grow
  <1> QED
    BY <1>6, <1>8, <1>9, <1>10, <1>11 DEF TreeShown

\* flom_vfs_ram_tree_add_locker.
LEMMA StartStep ==
  ASSUME DaemonSound, TreeShown, top \in Nat, DOMAIN node \subseteq 1..top,
         NEW c \in Client, StartLocker(c)
  PROVE  /\ TreeShown' /\ top' \in Nat /\ DOMAIN node' \subseteq 1..top' /\ fuse' = fuse
         /\ \A b \in DOMAIN node : b \in DOMAIN node' /\ node'[b] = node[b]
  <1>1. /\ Shape /\ LockersShown /\ ListedShown /\ IncubatorShown
        /\ DaemonTyped /\ UidsSound /\ main \in MainType /\ MainIdle.op = "poll"
    BY DEF TreeShown, DaemonSound, ControlSound, MainIdle
  <1>2. /\ main = MainIdle /\ place[c].state = "table" /\ locker[want[c]].state = "none"
        /\ locker' = [locker EXCEPT ![want[c]] = [state |-> "up", uid |-> last_uid + 1]]
        /\ AddLocker(last_uid + 1)
        /\ Become(c, "piped")
        /\ main' = [op |-> "scan", name |-> want[c]]
        /\ want' = want
    BY DEF StartLocker, LockerUid, NewUid
  <1>3. last_uid + 1 \in Nat /\ want[c] \in Name
    BY <1>1 DEF DaemonTyped
  <1>4. \A d \in Client : /\ place'[d].uid = place[d].uid
                          /\ place'[d].state = IF d = c THEN "piped" ELSE place[d].state
    BY <1>1, <1>2, BecomeFields
  <1>5. /\ locker'[want[c]] = [state |-> "up", uid |-> last_uid + 1]
        /\ \A n \in Name \ {want[c]} : locker'[n] = locker[n]
    BY <1>1, <1>2, <1>3 DEF DaemonTyped
  <1>6. PICK l, h, w :
          /\ l \notin DOMAIN node /\ h \notin DOMAIN node /\ w \notin DOMAIN node
          /\ l # h /\ l # w /\ h # w
          /\ node'[l] = [name |-> Uid(last_uid + 1), up |-> 3]
          /\ node'[h] = [name |-> Dir("holders"), up |-> l]
          /\ node'[w] = [name |-> Dir("waitings"), up |-> l]
          /\ LockerDirs' = LockerDirs \cup {l}
          /\ ListDirs' = ListDirs \cup {h, w}
    BY <1>1, <1>2, <1>3, LockerShape
  <1>7. /\ Shape' /\ top' \in Nat /\ DOMAIN node' \subseteq 1..top'
        /\ \A b \in DOMAIN node : b \in DOMAIN node' /\ node'[b] = node[b]
        /\ Listed' = Listed /\ Incubated' = Incubated
    BY <1>1, <1>2, <1>3, LockerShape
  <1>8. \A b \in LockerDirs \cup ListDirs \cup Listed \cup Incubated : b \in DOMAIN node /\ node'[b] = node[b]
    BY <1>1, <1>7, Kinds
  <1>9. LockersShown'
    <2>1. ASSUME NEW a \in LockerDirs
          PROVE  \E n \in Name \ {want[c]} : /\ locker[n].state # "none" /\ node'[a].name = Uid(locker[n].uid)
                                             /\ locker[n].uid # last_uid + 1
      <3>1. PICK n \in Name : locker[n].state # "none" /\ node[a].name = Uid(locker[n].uid)
        BY <1>1 DEF LockersShown
      <3>2. locker[n].uid # last_uid + 1
        BY <1>1, <3>1 DEF UidsSound, DaemonTyped
      <3> QED
        BY <1>2, <1>8, <3>1, <3>2
    <2>2. \A a \in LockerDirs : node'[a].name # node'[l].name
      BY <1>6, <2>1, Names
    <2>3. \A a \in LockerDirs' :
            \E n \in Name : locker'[n].state # "none" /\ node'[a].name = Uid(locker'[n].uid)
      <3>1. locker'[want[c]].state # "none" /\ node'[l].name = Uid(locker'[want[c]].uid)
        BY <1>5, <1>6
      <3> QED
        BY <1>3, <1>5, <1>6, <2>1, <3>1
    <2>4. ASSUME NEW n \in Name, locker'[n].state # "none"
          PROVE  \E a \in LockerDirs' : node'[a].name = Uid(locker'[n].uid)
      <3>1. CASE n = want[c]
        BY <1>5, <1>6, <3>1
      <3>2. CASE n # want[c]
        BY <1>1, <1>5, <1>6, <1>8, <2>4, <3>2 DEF LockersShown
      <3> QED
        BY <3>1, <3>2
    <2>5. \A a, b \in LockerDirs' : node'[a].name = node'[b].name => a = b
      BY <1>1, <1>6, <1>8, <2>2 DEF LockersShown
    <2>6. ASSUME NEW k \in LockerDirs', NEW d \in ListNames
          PROVE  \E a \in ListDirs' : node'[a].name = d /\ node'[a].up = k
      <3>1. CASE k = l
        BY <1>6, <3>1 DEF ListNames
      <3>2. CASE k \in LockerDirs
        BY <1>1, <1>6, <1>8, <3>2 DEF LockersShown
      <3> QED
        BY <1>6, <3>1, <3>2
    <2>7. \A a, b \in ListDirs' : node'[a].name = node'[b].name /\ node'[a].up = node'[b].up => a = b
      <3>1. \A a \in ListDirs : node'[a].up # l
        BY <1>1, <1>6, <1>8, Kinds
      <3>2. Dir("holders") # Dir("waitings")
        BY DEF Dir
      <3> QED
        BY <1>1, <1>6, <1>8, <3>1, <3>2 DEF LockersShown
    <2> QED
      BY <2>3, <2>4, <2>5, <2>6, <2>7 DEF LockersShown
  <1>10. ListedShown'
    <2>1. ASSUME NEW a \in Listed PROVE \E d \in Client : Belongs(a, d)'
      <3>1. PICK d \in Client : Belongs(a, d)
        BY <1>1 DEF ListedShown
      <3>2. d # c /\ place'[d].uid = place[d].uid /\ place'[d].state = place[d].state
        BY <1>2, <1>4, <3>1 DEF Belongs, Leaving
      <3>3. want[d] \in Name \ {want[c]}
        BY <1>1, <1>2, <3>1, OwnLocker
      <3>4. node[a].up \in ListDirs /\ node[node[a].up].up \in LockerDirs
        BY <1>1, Kinds
      <3>5. Belongs(a, d)'
        BY <1>2, <1>5, <1>8, <3>1, <3>2, <3>3, <3>4 DEF Belongs
      <3> QED
        BY <3>5
    <2>2. ASSUME NEW d \in Client, place'[d].state \in {"holder", "waiting"}
          PROVE  \E a \in Listed : node'[a].name = Uid(place'[d].uid)
      BY <1>1, <1>4, <1>8, <2>2 DEF ListedShown
    <2> QED
      BY <1>1, <1>7, <1>8, <2>1, <2>2 DEF ListedShown
  <1>11. IncubatorShown'
    <2>1. main.op # "del"
      BY <1>1, <1>2
    <2>2. \A d \in Client : Kept(d) => Kept(d)'
      BY <1>2, <1>4, <2>1 DEF Kept
    <2> QED
      BY <1>1, <1>4, <1>7, <1>8, <2>2 DEF IncubatorShown
  <1>12. fuse' = fuse
    BY <1>2 DEF AddLocker, Grow
  <1> QED
    BY <1>7, <1>9, <1>10, <1>11, <1>12 DEF TreeShown

\* flom_vfs_ram_tree_add_locker_conn, for a client that gets the lock or is enqueued.
LEMMA AddListedStep ==
  ASSUME DaemonSound, TreeShown, top \in Nat, DOMAIN node \subseteq 1..top,
         NEW c \in Client, NEW s \in {"holder", "waiting"}, NEW d \in {"holders", "waitings"},
         Dir(d) = ListFor(s), Inmsg(c, s), AddLockerConn(locker[want[c]].uid, place[c].uid, d)
  PROVE  /\ TreeShown' /\ top' \in Nat /\ DOMAIN node' \subseteq 1..top' /\ fuse' = fuse
         /\ \A b \in DOMAIN node : b \in DOMAIN node' /\ node'[b] = node[b]
  <1>1. /\ Shape /\ LockersShown /\ ListedShown /\ IncubatorShown
        /\ DaemonTyped /\ UidsSound /\ ControlSound
    BY DEF TreeShown, DaemonSound
  <1>2. /\ locker[want[c]].state = "up" /\ place[c].state \in {"piped", "open"} /\ Become(c, s)
        /\ UNCHANGED <<want, locker, main>>
    BY DEF Inmsg, Free
  <1>3. place[c].uid \in Nat /\ want[c] \in Name
    BY <1>1 DEF DaemonTyped, Place
  <1>4. \A e \in Client : /\ place'[e].uid = place[e].uid
                          /\ place'[e].state = IF e = c THEN s ELSE place[e].state
    BY <1>1, <1>2, BecomeFields
  <1>5. PICK l \in LockerDirs : node[l].name = Uid(locker[want[c]].uid)
    BY <1>1, <1>2, <1>3 DEF LockersShown
  <1>6. FindByName(TheDir("lockers"), Uid(locker[want[c]].uid)) = {l}
    BY <1>1, <1>5, Directories, FoundUid
  <1>7. Dir(d) \in ListNames
    BY DEF ListNames
  <1>8. PICK dir \in ListDirs : node[dir].name = Dir(d) /\ node[dir].up = l /\ AddConnDir(dir, place[c].uid)
    <2>1. FindByName(l, Dir(d)) = {b \in ListDirs : node[b].name = Dir(d) /\ node[b].up = l}
      BY <1>1, <1>7, FoundList
    <2>2. FindByName(l, Dir(d)) # {}
      BY <1>1, <1>7, FoundList
    <2> QED
      BY <1>6, <2>1, <2>2 DEF AddLockerConn
  <1>9. dir # 4
    BY <1>1, Kinds, KindsDiffer
  <1>10. PICK x : /\ x \notin DOMAIN node
                  /\ node'[x] = [name |-> Uid(place[c].uid), up |-> dir]
                  /\ Listed' = Listed \cup {x}
                  /\ Incubated' = Incubated
    <2>1. \E x : /\ x \notin DOMAIN node
                 /\ node'[x] = [name |-> Uid(place[c].uid), up |-> dir]
                 /\ Listed' = Listed \cup (IF dir = 4 THEN {} ELSE {x})
                 /\ Incubated' = Incubated \cup (IF dir = 4 THEN {x} ELSE {})
      BY <1>1, <1>3, <1>8, ConnDirShape
    <2> QED
      BY <1>9, <2>1
  <1>11. /\ Shape' /\ top' \in Nat /\ DOMAIN node' \subseteq 1..top'
         /\ \A b \in DOMAIN node : b \in DOMAIN node' /\ node'[b] = node[b]
         /\ LockerDirs' = LockerDirs /\ ListDirs' = ListDirs
    BY <1>1, <1>3, <1>8, ConnDirShape
  <1>12. \A b \in LockerDirs \cup ListDirs \cup Listed \cup Incubated : b \in DOMAIN node /\ node'[b] = node[b]
    BY <1>1, <1>11, Kinds
  <1>13. LockersShown'
    BY <1>1, <1>2, <1>11, <1>12 DEF LockersShown
  <1>14. ASSUME NEW a \in Listed PROVE node[a].name # Uid(place[c].uid)
    <2>1. SUFFICES ASSUME node[a].name = Uid(place[c].uid) PROVE FALSE
      OBVIOUS
    <2>2. Belongs(a, c)
      BY <1>1, <2>1, Owner
    <2> QED
      BY <1>2, <2>2 DEF Belongs, Leaving
  <1>15. ListedShown'
    <2>1. Belongs(x, c)'
      <3>1. node'[x].name = Uid(place'[c].uid) /\ node'[x].up = dir
        BY <1>4, <1>10
      <3>2. node'[dir].name = ListFor(s) /\ node'[dir].up = l
        BY <1>8, <1>12
      <3>3. node'[l].name = Uid(locker'[want'[c]].uid)
        BY <1>2, <1>5, <1>12
      <3> QED
        BY <1>4, <3>1, <3>2, <3>3 DEF Belongs
    <2>2. ASSUME NEW a \in Listed PROVE \E e \in Client : Belongs(a, e)'
      <3>1. PICK e \in Client : Belongs(a, e)
        BY <1>1 DEF ListedShown
      <3>2. e # c
        BY <1>14, <3>1 DEF Belongs
      <3>3. Silent(e) /\ SameLockers
        BY <1>2, <1>4, <3>2 DEF Silent, SameLockers
      <3>4. node[a].up \in ListDirs /\ node[node[a].up].up \in LockerDirs
        BY <1>1, Kinds
      <3>5. Belongs(a, e)'
        BY <1>1, <1>2, <1>12, <3>1, <3>3, <3>4, BelongsKept
      <3> QED
        BY <3>5
    <2>3. \A a, b \in Listed' : node'[a].name = node'[b].name => a = b
      BY <1>1, <1>10, <1>12, <1>14 DEF ListedShown
    <2>4. ASSUME NEW e \in Client, place'[e].state \in {"holder", "waiting"}
          PROVE  \E a \in Listed' : node'[a].name = Uid(place'[e].uid)
      <3>1. CASE e = c
        BY <1>4, <1>10, <3>1
      <3>2. CASE e # c
        BY <1>1, <1>4, <1>10, <1>12, <2>4, <3>2 DEF ListedShown
      <3> QED
        BY <3>1, <3>2
    <2>5. \A a \in Listed' : \E e \in Client : Belongs(a, e)'
      BY <1>10, <2>1, <2>2
    <2> QED
      BY <2>3, <2>4, <2>5 DEF ListedShown
  <1>16. IncubatorShown'
    <2>1. \A e \in Client : Kept(e) => Kept(e)'
      BY <1>2, <1>4 DEF Kept
    <2> QED
      BY <1>1, <1>4, <1>10, <1>12, <2>1 DEF IncubatorShown
  <1>17. fuse' = fuse
    BY <1>8 DEF AddConnDir, Grow
  <1> QED
    BY <1>11, <1>13, <1>15, <1>16, <1>17 DEF TreeShown

\* flom_vfs_ram_tree_move_locker_conn.
LEMMA GrantStep ==
  ASSUME DaemonSound, TreeShown, NEW c \in Client, Grant(c)
  PROVE  /\ TreeShown' /\ DOMAIN node' = DOMAIN node /\ UNCHANGED <<top, fuse>>
         /\ \A b \in DOMAIN node : node'[b].name = node[b].name
  <1>1. /\ Shape /\ LockersShown /\ ListedShown /\ IncubatorShown
        /\ DaemonTyped /\ UidsSound /\ ControlSound
    BY DEF TreeShown, DaemonSound
  <1>2. /\ place[c].state = "waiting" /\ Become(c, "holder") /\ MoveLockerConn(place[c].uid)
        /\ UNCHANGED <<want, locker, main>>
    BY DEF Grant
  <1>3. \A e \in Client : /\ place'[e].uid = place[e].uid
                          /\ place'[e].state = IF e = c THEN "holder" ELSE place[e].state
    BY <1>1, <1>2, BecomeFields
  <1>4. PICK a \in Listed : node[a].name = Uid(place[c].uid)
    BY <1>1, <1>2 DEF ListedShown
  <1>5. Belongs(a, c)
    BY <1>1, <1>4, Owner
  <1>6. FindByName(TheDir("lockers"), Uid(place[c].uid)) = {a}
    BY <1>1, <1>4, Directories, FoundUid
  <1>7. node[a].up \in ListDirs /\ node[node[a].up].up \in LockerDirs /\ node[node[a].up].name = Dir("waitings")
    BY <1>1, <1>2, <1>5, Kinds DEF Belongs, ListFor, Leaving
  <1>8. PICK l : l = node[node[a].up].up
    OBVIOUS
  <1>9. Dir("holders") \in ListNames /\ l \in LockerDirs
    BY <1>7, <1>8 DEF ListNames
  <1>10. PICK h \in ListDirs : /\ node[h].name = Dir("holders") /\ node[h].up = l
                               /\ node' = [node EXCEPT ![a].up = h]
                               /\ UNCHANGED <<top, fuse>>
    <2>1. FindByName(l, Dir("holders")) = {b \in ListDirs : node[b].name = Dir("holders") /\ node[b].up = l}
      BY <1>1, <1>9, FoundList
    <2>2. FindByName(l, Dir("holders")) # {}
      BY <1>1, <1>9, FoundList
    <2> QED
      BY <1>2, <1>6, <1>7, <1>8, <2>1, <2>2 DEF MoveLockerConn
  <1>11. /\ Shape' /\ DOMAIN node' = DOMAIN node
         /\ LockerDirs' = LockerDirs /\ ListDirs' = ListDirs /\ Listed' = Listed /\ Incubated' = Incubated
         /\ \A b \in DOMAIN node : node'[b] = IF b = a THEN [name |-> node[a].name, up |-> h] ELSE node[b]
    BY <1>1, <1>10, MoveShape
  <1>12. \A b \in LockerDirs \cup ListDirs \cup Incubated : b # a
    BY <1>1, KindsDiffer
  <1>13. \A b \in LockerDirs \cup ListDirs \cup Listed \cup Incubated : b \in DOMAIN node
    BY <1>1, Kinds
  <1>14. /\ \A b \in LockerDirs \cup ListDirs \cup Incubated : node'[b] = node[b]
         /\ \A b \in Listed : node'[b].name = node[b].name /\ (b # a => node'[b] = node[b])
    BY <1>11, <1>12, <1>13
  <1>15. LockersShown'
    BY <1>1, <1>2, <1>11, <1>14 DEF LockersShown
  <1>16. ListedShown'
    <2>1. Belongs(a, c)'
      <3>1. node'[a].up = h /\ node'[h].up = l /\ node'[h].name = Dir("holders") /\ node'[l] = node[l]
        BY <1>9, <1>10, <1>11, <1>13, <1>14
      <3>2. node'[a].name = Uid(place'[c].uid) /\ place'[c].state = "holder"
        BY <1>3, <1>4, <1>14
      <3>3. node[l].name = Uid(locker'[want'[c]].uid)
        BY <1>2, <1>5, <1>8 DEF Belongs
      <3> QED
        BY <3>1, <3>2, <3>3 DEF Belongs, ListFor
    <2>2. ASSUME NEW b \in Listed, b # a PROVE \E e \in Client : Belongs(b, e)'
      <3>1. PICK e \in Client : Belongs(b, e)
        BY <1>1 DEF ListedShown
      <3>2. e # c
        BY <1>1, <1>4, <2>2, <3>1 DEF Belongs, ListedShown
      <3>3. Silent(e) /\ SameLockers
        BY <1>2, <1>3, <3>2 DEF Silent, SameLockers
      <3>4. node[b].up \in ListDirs /\ node[node[b].up].up \in LockerDirs
        BY <1>1, Kinds
      <3>5. Belongs(b, e)'
        BY <1>1, <1>2, <1>14, <2>2, <3>1, <3>3, <3>4, BelongsKept
      <3> QED
        BY <3>5
    <2>3. \A x, y \in Listed' : node'[x].name = node'[y].name => x = y
      BY <1>1, <1>11, <1>14 DEF ListedShown
    <2>4. ASSUME NEW e \in Client, place'[e].state \in {"holder", "waiting"}
          PROVE  \E b \in Listed' : node'[b].name = Uid(place'[e].uid)
      <3>1. place[e].state \in {"holder", "waiting"}
        BY <1>2, <1>3, <2>4
      <3> QED
        BY <1>1, <1>3, <1>11, <1>14, <3>1 DEF ListedShown
    <2>5. \A b \in Listed' : \E e \in Client : Belongs(b, e)'
      BY <1>11, <2>1, <2>2
    <2> QED
      BY <2>3, <2>4, <2>5 DEF ListedShown
  <1>17. IncubatorShown'
    <2>1. \A e \in Client : Kept(e) => Kept(e)'
      BY <1>2, <1>3 DEF Kept
    <2> QED
      BY <1>1, <1>2, <1>3, <1>11, <1>14, <2>1 DEF IncubatorShown
  <1> QED
    BY <1>10, <1>11, <1>15, <1>16, <1>17 DEF TreeShown

\* An update that deletes at most one directory.
Deletes == Untouched \/ \E a \in LockerDirs \cup Listed \cup Incubated : Cleanup(a)

\* flom_vfs_ram_tree_del_conn below the lockers, at the end of clean.
LEMMA CleanEndStep ==
  ASSUME DaemonSound, TreeShown, NEW c \in Client, CleanEnd(c)
  PROVE  TreeShown' /\ Deletes
  <1>1. /\ Shape /\ LockersShown /\ ListedShown /\ IncubatorShown
        /\ DaemonTyped /\ UidsSound /\ ControlSound
    BY DEF TreeShown, DaemonSound
  <1>2. PICK s \in {"gone", "open"} : Become(c, s)
    BY DEF CleanEnd
  <1>3. place[c].state \in Leaving /\ DelConn(place[c].uid, FALSE) /\ UNCHANGED <<want, locker, main>>
    BY DEF CleanEnd
  <1>4. \A e \in Client : /\ place'[e].uid = place[e].uid
                          /\ place'[e].state = IF e = c THEN s ELSE place[e].state
    BY <1>1, <1>2, BecomeFields
  <1>5. \A e \in Client : Kept(e) => Kept(e)'
    BY <1>3, <1>4 DEF Kept, Leaving
  <1>6. SameLockers
    BY <1>3 DEF SameLockers
  <1>7. place[c].uid # 0
    <2>1. place[c].uid \in 1..last_uid
      BY <1>1, <1>3 DEF UidsSound, Leaving
    <2> QED
      BY <2>1
  <1>8. ASSUME NEW b \in LockerDirs PROVE node[b].name # Uid(place[c].uid)
    <2>1. PICK n \in Name : node[b].name = Uid(locker[n].uid)
      BY <1>1 DEF LockersShown
    <2>2. locker[n].uid # place[c].uid
      BY <1>1, <1>7 DEF UidsSound
    <2> QED
      BY <2>1, <2>2, Names
  <1>9. PICK found : /\ found = {b \in Listed : node[b].name = Uid(place[c].uid)}
                     /\ IF found = {} THEN Untouched ELSE \E a \in found : Cleanup(a)
    <2>1. FindByName(TheDir("lockers"), Uid(place[c].uid)) = {b \in Listed : node[b].name = Uid(place[c].uid)}
      BY <1>1, <1>8, Directories, FoundUid
    <2> QED
      BY <1>3, <2>1 DEF DelConn
  <1>10. ASSUME NEW b \in Listed, node[b].name # Uid(place[c].uid),
                node'[b] = node[b], node'[node[b].up] = node[node[b].up],
                node'[node[node[b].up].up] = node[node[node[b].up].up]
         PROVE  \E e \in Client : Belongs(b, e)'
    <2>1. PICK e \in Client : Belongs(b, e)
      BY <1>1 DEF ListedShown
    <2>2. e # c
      BY <1>10, <2>1 DEF Belongs
    <2>3. Silent(e)
      BY <1>4, <2>2 DEF Silent
    <2>4. Belongs(b, e)'
      BY <1>1, <1>3, <1>6, <1>10, <2>1, <2>3, BelongsKept
    <2> QED
      BY <2>4
  <1>11. CASE found = {}
    <2>1. Untouched /\ node' = node
      BY <1>9, <1>11 DEF Untouched
    <2>2. /\ LockerDirs' = LockerDirs /\ ListDirs' = ListDirs
          /\ Listed' = Listed /\ Incubated' = Incubated /\ Shape'
      BY <1>1, <2>1, SameTree
    <2>3. LockersShown'
      BY <1>1, <1>3, <2>1, <2>2 DEF LockersShown
    <2>4. \A b \in Listed' : \E e \in Client : Belongs(b, e)'
      BY <1>9, <1>10, <1>11, <2>1, <2>2
    <2>5. ListedShown'
      BY <1>1, <1>2, <1>4, <2>1, <2>2, <2>4 DEF ListedShown
    <2>6. IncubatorShown'
      BY <1>1, <1>2, <1>4, <1>5, <2>1, <2>2 DEF IncubatorShown
    <2> QED
      BY <2>1, <2>2, <2>3, <2>5, <2>6 DEF TreeShown, Deletes
  <1>12. CASE found # {}
    <2>1. PICK a \in Listed : node[a].name = Uid(place[c].uid) /\ Cleanup(a)
      BY <1>9, <1>12
    <2>2. node' = [b \in DOMAIN node \ Below(a) |-> node[b]]
      BY <2>1 DEF Cleanup
    <2>3. /\ \A b \in LockerDirs \cup ListDirs : b \notin Below(a)
          /\ \A b \in Listed \cup Incubated : b \in Below(a) <=> b = a
      BY <1>1, BelowClient
    <2>4. /\ Shape' /\ \A b \in Grown' : node'[b] = node[b]
          /\ LockerDirs' = LockerDirs /\ ListDirs' = ListDirs /\ Listed' = Listed \ {a}
          /\ Incubated' = Incubated
      <3>1. /\ Shape' /\ \A b \in Grown' : node'[b] = node[b]
            /\ LockerDirs' = LockerDirs \ Below(a) /\ ListDirs' = ListDirs \ Below(a)
            /\ Listed' = Listed \ Below(a) /\ Incubated' = Incubated \ Below(a)
        BY <1>1, <2>2, CleanupShape
      <3>2. a \notin Incubated
        BY <1>1, KindsDiffer
      <3> QED
        BY <2>3, <3>1, <3>2
    <2>5. \A b \in LockerDirs' \cup ListDirs' \cup Listed' \cup Incubated' : node'[b] = node[b]
      BY <2>4 DEF LockerDirs, ListDirs, Listed, Incubated
    <2>6. LockersShown'
      BY <1>1, <1>3, <2>4, <2>5 DEF LockersShown
    <2>7. ASSUME NEW b \in Listed' PROVE \E e \in Client : Belongs(b, e)'
      <3>1. b \in Listed /\ node[b].name # Uid(place[c].uid)
        BY <1>1, <2>1, <2>4, <2>7 DEF ListedShown
      <3>2. node[b].up \in ListDirs /\ node[node[b].up].up \in LockerDirs
        BY <1>1, <3>1, Kinds
      <3> QED
        BY <1>10, <2>4, <2>5, <3>1, <3>2
    <2>8. ASSUME NEW e \in Client, place'[e].state \in {"holder", "waiting"}
          PROVE  \E b \in Listed' : node'[b].name = Uid(place'[e].uid)
      <3>1. e # c /\ place[e].state \in {"holder", "waiting"}
        BY <1>2, <1>4, <2>8
      <3>2. PICK b \in Listed : node[b].name = Uid(place[e].uid)
        BY <1>1, <3>1 DEF ListedShown
      <3>3. place[e].uid # place[c].uid
        BY <1>1, <1>7, <3>1 DEF UidsSound
      <3>4. b # a
        BY <2>1, <3>2, <3>3, Names
      <3> QED
        BY <1>4, <2>4, <2>5, <3>2, <3>4
    <2>9. ListedShown'
      <3>1. \A x, y \in Listed' : node'[x].name = node'[y].name => x = y
        BY <1>1, <2>4, <2>5 DEF ListedShown
      <3> QED
        BY <2>7, <2>8, <3>1 DEF ListedShown
    <2>10. IncubatorShown'
      BY <1>1, <1>2, <1>4, <1>5, <2>4, <2>5 DEF IncubatorShown
    <2> QED
      BY <2>1, <2>4, <2>6, <2>9, <2>10 DEF TreeShown, Deletes
  <1> QED
    BY <1>11, <1>12

\* flom_vfs_ram_tree_del_conn in the incubator, after the client is handed over.
LEMMA DelIncubatedStep ==
  ASSUME DaemonSound, TreeShown, DelIncubated
  PROVE  TreeShown' /\ Deletes
  <1>1. /\ Shape /\ LockersShown /\ ListedShown /\ IncubatorShown
        /\ DaemonTyped /\ UidsSound /\ ControlSound /\ main \in MainType
    BY DEF TreeShown, DaemonSound, ControlSound
  <1>2. PICK c \in Client : main.op = "del" /\ main.client = c
    BY <1>1, MainTypes DEF DelIncubated
  <1>3. main' = [op |-> "scan", name |-> main.name] /\ UNCHANGED <<want, locker, place>>
    BY DEF DelIncubated
  <1>4. place[c].state \notin {"none", "table", "incubator"}
    BY <1>1, <1>2 DEF ControlSound
  <1>5. PICK u : (u = place[c].uid \/ (place[c].state = "gone" /\ u = 0)) /\ DelConn(u, TRUE)
    BY <1>2 DEF DelIncubated
  <1>6. PICK found : /\ found = {b \in Incubated : node[b].name = Uid(u)}
                     /\ IF found = {} THEN Untouched ELSE \E a \in found : Cleanup(a)
    <2>1. FindByName(TheDir("incubator"), Uid(u)) = {b \in Incubated : node[b].name = Uid(u)}
      BY <1>1, Directories, FoundIncubated
    <2> QED
      BY <1>5, <2>1 DEF DelConn
  <1>7. SameLockers /\ \A e \in Client : Silent(e)
    BY <1>3 DEF SameLockers, Silent
  \* Who is left in the incubator once the client's directory is not.
  <1>8. ASSUME NEW b \in Incubated, node[b].name # Uid(u)
        PROVE  \E e \in Client : Kept(e)' /\ node[b].name = Uid(place[e].uid)
    <2>1. PICK e \in Client : Kept(e) /\ node[b].name = Uid(place[e].uid)
      BY <1>1 DEF IncubatorShown
    <2>2. place[e].state \in {"incubator", "gone"}
      BY <1>2, <1>5, <1>8, <2>1 DEF Kept
    <2> QED
      BY <1>3, <2>1, <2>2 DEF Kept
  <1>9. CASE found = {}
    <2>1. Untouched /\ node' = node
      BY <1>6, <1>9 DEF Untouched
    <2>2. /\ LockerDirs' = LockerDirs /\ ListDirs' = ListDirs
          /\ Listed' = Listed /\ Incubated' = Incubated /\ Shape'
      BY <1>1, <2>1, SameTree
    <2>3. LockersShown'
      BY <1>1, <1>3, <2>1, <2>2 DEF LockersShown
    <2>4. ListedShown'
      BY <1>1, <1>3, <2>1, <2>2 DEF ListedShown, Belongs
    <2>5. IncubatorShown'
      BY <1>1, <1>3, <1>6, <1>8, <1>9, <2>1, <2>2 DEF IncubatorShown
    <2> QED
      BY <2>1, <2>2, <2>3, <2>4, <2>5 DEF TreeShown, Deletes
  <1>10. CASE found # {}
    <2>1. PICK a \in Incubated : node[a].name = Uid(u) /\ Cleanup(a)
      BY <1>6, <1>10
    <2>2. node' = [b \in DOMAIN node \ Below(a) |-> node[b]]
      BY <2>1 DEF Cleanup
    <2>3. /\ \A b \in LockerDirs \cup ListDirs : b \notin Below(a)
          /\ \A b \in Listed \cup Incubated : b \in Below(a) <=> b = a
      BY <1>1, BelowClient
    <2>4. /\ Shape' /\ \A b \in Grown' : node'[b] = node[b]
          /\ LockerDirs' = LockerDirs /\ ListDirs' = ListDirs /\ Listed' = Listed
          /\ Incubated' = Incubated \ {a}
      <3>1. /\ Shape' /\ \A b \in Grown' : node'[b] = node[b]
            /\ LockerDirs' = LockerDirs \ Below(a) /\ ListDirs' = ListDirs \ Below(a)
            /\ Listed' = Listed \ Below(a) /\ Incubated' = Incubated \ Below(a)
        BY <1>1, <2>2, CleanupShape
      <3>2. a \notin Listed
        BY <1>1, KindsDiffer
      <3> QED
        BY <2>3, <3>1, <3>2
    <2>5. \A b \in LockerDirs' \cup ListDirs' \cup Listed' \cup Incubated' : node'[b] = node[b]
      BY <2>4 DEF LockerDirs, ListDirs, Listed, Incubated
    <2>6. LockersShown'
      BY <1>1, <1>3, <2>4, <2>5 DEF LockersShown
    <2>7. ListedShown'
      <3>1. ASSUME NEW b \in Listed' PROVE \E e \in Client : Belongs(b, e)'
        <4>1. PICK e \in Client : Belongs(b, e)
          BY <1>1, <2>4 DEF ListedShown
        <4>2. node[b].up \in ListDirs /\ node[node[b].up].up \in LockerDirs
          BY <1>1, <2>4, Kinds
        <4>3. Belongs(b, e)'
          BY <1>1, <1>3, <1>7, <2>4, <2>5, <4>1, <4>2, BelongsKept
        <4> QED
          BY <4>3
      <3> QED
        BY <1>1, <1>3, <2>4, <2>5, <3>1 DEF ListedShown
    <2>8. ASSUME NEW e \in Client, place[e].state = "incubator"
          PROVE  \E b \in Incubated' : node'[b].name = Uid(place[e].uid)
      <3>1. PICK b \in Incubated : node[b].name = Uid(place[e].uid)
        BY <1>1, <2>8 DEF IncubatorShown
      <3>2. place[e].uid \in 1..last_uid
        BY <1>1, <2>8 DEF UidsSound
      <3>3. place[e].uid # u
        <4>1. place[e].uid # 0 /\ e # c
          BY <1>4, <2>8, <3>2
        <4> QED
          BY <1>1, <1>5, <4>1 DEF UidsSound
      <3>4. b # a
        BY <2>1, <3>1, <3>3, Names
      <3> QED
        BY <2>4, <2>5, <3>1, <3>4
    <2>9. IncubatorShown'
      <3>1. ASSUME NEW b \in Incubated' PROVE \E e \in Client : Kept(e)' /\ node'[b].name = Uid(place'[e].uid)
        <4>1. b \in Incubated /\ node[b].name # Uid(u)
          BY <1>1, <2>1, <2>4 DEF IncubatorShown
        <4> QED
          BY <1>3, <1>8, <2>5, <4>1
      <3>2. \A x, y \in Incubated' : node'[x].name = node'[y].name => x = y
        BY <1>1, <2>4, <2>5 DEF IncubatorShown
      <3> QED
        BY <1>3, <2>8, <3>1, <3>2 DEF IncubatorShown
    <2> QED
      BY <2>1, <2>4, <2>6, <2>7, <2>9 DEF TreeShown, Deletes
  <1> QED
    BY <1>9, <1>10

\* flom_vfs_ram_tree_del_locker.
LEMMA JoinStep ==
  ASSUME DaemonSound, TreeShown, NEW n \in Name, JoinLocker(n)
  PROVE  TreeShown' /\ Deletes
  <1>1. /\ Shape /\ LockersShown /\ ListedShown /\ IncubatorShown
        /\ DaemonTyped /\ UidsSound /\ ControlSound
    BY DEF TreeShown, DaemonSound
  <1>2. /\ locker[n].state = "up" /\ Clients(n) = {}
        /\ locker' = [locker EXCEPT ![n] = [state |-> "none", uid |-> 0]]
        /\ DelLocker(locker[n].uid)
        /\ UNCHANGED <<want, place, main>>
    BY DEF JoinLocker
  <1>3. locker'[n] = [state |-> "none", uid |-> 0] /\ \A m \in Name \ {n} : locker'[m] = locker[m]
    BY <1>1, <1>2 DEF DaemonTyped
  <1>4. PICK l \in LockerDirs : node[l].name = Uid(locker[n].uid)
    BY <1>1, <1>2 DEF LockersShown
  <1>5. FindByName(TheDir("lockers"), Uid(locker[n].uid)) = {l}
    BY <1>1, <1>4, Directories, FoundUid
  <1>6. Cleanup(l)
    BY <1>2, <1>5 DEF DelLocker
  <1>7. node' = [b \in DOMAIN node \ Below(l) |-> node[b]]
    BY <1>6 DEF Cleanup
  <1>8. ASSUME NEW b \in Listed, NEW e \in Client, Belongs(b, e) PROVE want[e] \in Name \ {n} /\ b \notin Below(l)
    <2>1. /\ want[e] \in Name /\ locker[want[e]].state # "none"
          /\ node[node[node[b].up].up].name = Uid(locker[want[e]].uid)
      BY <1>1, <1>8, OwnLocker
    <2>2. want[e] # n
      <3>1. SUFFICES ASSUME want[e] = n PROVE FALSE
        OBVIOUS
      <3>2. place[e].state \in WithLocker
        BY <1>2, <1>8, <3>1 DEF Belongs, WithLocker
      <3> QED
        BY <1>2, <3>1, <3>2 DEF Clients
    <2>3. locker[n].uid \in 1..last_uid
      BY <1>1, <1>2 DEF UidsSound
    <2>4. locker[want[e]].uid # locker[n].uid
      BY <1>1, <2>1, <2>2, <2>3 DEF UidsSound
    <2>5. node[node[b].up].up # l
      BY <1>4, <2>1, <2>4, Names
    <2> QED
      BY <1>1, <2>1, <2>2, <2>5, BelowLocker
  <1>9. /\ Shape' /\ \A b \in Grown' : node'[b] = node[b]
        /\ LockerDirs' = LockerDirs \ Below(l) /\ ListDirs' = ListDirs \ Below(l)
        /\ Listed' = Listed \ Below(l) /\ Incubated' = Incubated \ Below(l)
    BY <1>1, <1>7, CleanupShape
  <1>10. /\ LockerDirs' = LockerDirs \ {l}
         /\ ListDirs' = {b \in ListDirs : node[b].up # l}
         /\ Listed' = Listed /\ Incubated' = Incubated
    <2>1. LockerDirs' = LockerDirs \ {l} /\ ListDirs' = {b \in ListDirs : node[b].up # l} /\ Incubated' = Incubated
      BY <1>1, <1>9, BelowLocker
    <2>2. Listed' = Listed
      BY <1>1, <1>8, <1>9 DEF ListedShown
    <2> QED
      BY <2>1, <2>2
  <1>11. \A b \in LockerDirs' \cup ListDirs' \cup Listed' \cup Incubated' : node'[b] = node[b]
    BY <1>9 DEF LockerDirs, ListDirs, Listed, Incubated
  <1>12. LockersShown'
    <2>1. ASSUME NEW a \in LockerDirs'
          PROVE  \E m \in Name : locker'[m].state # "none" /\ node'[a].name = Uid(locker'[m].uid)
      <3>1. a \in LockerDirs /\ a # l
        BY <1>10
      <3>2. PICK m \in Name : locker[m].state # "none" /\ node[a].name = Uid(locker[m].uid)
        BY <1>1, <3>1 DEF LockersShown
      <3>3. m # n
        BY <1>1, <1>4, <3>1, <3>2 DEF LockersShown
      <3> QED
        BY <1>3, <1>11, <3>2, <3>3
    <2>2. ASSUME NEW m \in Name, locker'[m].state # "none"
          PROVE  \E a \in LockerDirs' : node'[a].name = Uid(locker'[m].uid)
      <3>1. m # n /\ locker'[m] = locker[m]
        BY <1>3, <2>2
      <3>2. PICK a \in LockerDirs : node[a].name = Uid(locker[m].uid)
        BY <1>1, <2>2, <3>1 DEF LockersShown
      <3>3. locker[n].uid \in 1..last_uid
        BY <1>1, <1>2 DEF UidsSound
      <3>4. locker[m].uid # locker[n].uid
        BY <1>1, <3>1, <3>3 DEF UidsSound
      <3>5. a # l
        BY <1>4, <3>2, <3>4, Names
      <3> QED
        BY <1>10, <1>11, <3>1, <3>2, <3>5
    <2>3. \A a, b \in LockerDirs' : node'[a].name = node'[b].name => a = b
      BY <1>1, <1>10, <1>11 DEF LockersShown
    <2>4. ASSUME NEW k \in LockerDirs', NEW d \in ListNames
          PROVE  \E a \in ListDirs' : node'[a].name = d /\ node'[a].up = k
      <3>1. k \in LockerDirs /\ k # l
        BY <1>10
      <3>2. PICK a \in ListDirs : node[a].name = d /\ node[a].up = k
        BY <1>1, <3>1 DEF LockersShown
      <3> QED
        BY <1>10, <1>11, <3>1, <3>2
    <2>5. \A a, b \in ListDirs' : node'[a].name = node'[b].name /\ node'[a].up = node'[b].up => a = b
      BY <1>1, <1>10, <1>11 DEF LockersShown
    <2> QED
      BY <2>1, <2>2, <2>3, <2>4, <2>5 DEF LockersShown
  <1>13. ListedShown'
    <2>1. ASSUME NEW b \in Listed' PROVE \E e \in Client : Belongs(b, e)'
      <3>1. b \in Listed
        BY <1>10
      <3>2. PICK e \in Client : Belongs(b, e)
        BY <1>1, <3>1 DEF ListedShown
      <3>3. want[e] \in Name \ {n} /\ node[b].up \in ListDirs /\ node[node[b].up].up \in LockerDirs
        BY <1>1, <1>8, <3>1, <3>2, Kinds
      <3>4. b \notin Below(l)
        BY <1>8, <3>1, <3>2
      <3>5. node[node[b].up].up # l
        BY <1>1, <3>1, <3>4, BelowLocker
      <3>6. node[b].up \in ListDirs' /\ node[node[b].up].up \in LockerDirs'
        BY <1>10, <3>3, <3>5
      <3>7. Belongs(b, e)'
        BY <1>2, <1>3, <1>11, <2>1, <3>2, <3>3, <3>6 DEF Belongs
      <3> QED
        BY <3>7
    <2> QED
      BY <1>1, <1>2, <1>10, <1>11, <2>1 DEF ListedShown
  <1>14. IncubatorShown'
    BY <1>1, <1>2, <1>10, <1>11 DEF IncubatorShown, Kept
  <1> QED
    BY <1>6, <1>9, <1>12, <1>13, <1>14 DEF TreeShown, Deletes

\* The end of the daemon frees all the tree.
LEMMA EndStep ==
  ASSUME Shape, Cleanup(Root)
  PROVE  DOMAIN node' = {}
  <1>1. {1, 2, 3, 4} \subseteq Below(Root)
    BY Walk DEF Root
  <1>2. \A b \in LockerDirs : b \in Below(Root)
    BY <1>1, Walk, Kinds
  <1>3. \A b \in ListDirs : b \in Below(Root)
    BY <1>2, Walk, Kinds
  <1>4. \A b \in Listed \cup Incubated : b \in Below(Root)
    BY <1>1, <1>3, Walk, Kinds
  <1>5. \A b \in Grown : b \in Below(Root)
    BY <1>2, <1>3, <1>4, Walk, Kinds
  <1>6. DOMAIN node \subseteq Below(Root)
    BY <1>1, <1>5, Kinds DEF Fixed
  <1>7. DOMAIN node' = DOMAIN node \ Below(Root)
    BY DEF Cleanup
  <1> QED
    BY <1>6, <1>7

-------------------------------------------------------------------------------
(* The FUSE thread. *)

\* The FUSE thread is in a callback or in none.
LEMMA FuseIsIdle ==
  /\ FuseIdle.op = "idle" /\ "idle" \notin Op
  /\ NoFault.kind = "none"
  /\ \A f \in FuseType : f # FuseIdle /\ f.op \in Op
  BY DEF FuseIdle, NoFault, FuseType, Op

\* Nodes that are added or moved do no harm to the callback.
LEMMA FuseKept ==
  ASSUME FuseSound, fuse' = fuse, DOMAIN node \subseteq DOMAIN node'
  PROVE  FuseSound'
  BY DEF FuseSound, CallbackSound

\* Nodes that are freed are marked in the callback that has them.
LEMMA FuseFreed ==
  ASSUME FuseSound, top \in Nat, DOMAIN node \subseteq 1..top, NEW a, Cleanup(a)
  PROVE  FuseSound'
  <1>1. /\ DOMAIN node' = DOMAIN node \ Below(a)
        /\ fuse' = IF fuse = FuseIdle THEN fuse
                   ELSE [fuse EXCEPT !.freed = @ \cup ({fuse.node, fuse.parent} \cap Below(a))]
    BY DEF Cleanup
  <1>2. Below(a) \subseteq DOMAIN node
    BY DEF Below
  <1>3. CASE fuse = FuseIdle
    BY <1>1, <1>3 DEF FuseSound
  <1>4. CASE fuse # FuseIdle
    <2>1. /\ fuse \in FuseType
          /\ fuse.node # NULL /\ fuse.node \notin fuse.freed => fuse.node \in DOMAIN node
          /\ fuse.stale => fuse.node = NULL /\ fuse.pc = "found"
          /\ fuse.pc # "found" => fuse.node # NULL
          /\ fuse.pc \in {"list", "dotdot"} => fuse.parent # NULL
      BY <1>4 DEF FuseSound, CallbackSound
    <2>2. PICK more : more = {fuse.node, fuse.parent} \cap Below(a)
      OBVIOUS
    <2>3. fuse' = [fuse EXCEPT !.freed = @ \cup more]
      BY <1>1, <1>4, <2>2
    <2>4. more \subseteq Nat \ {NULL}
      BY <1>2, <2>2 DEF NULL
    <2>5. fuse' \in FuseType
      BY <2>1, <2>3, <2>4 DEF FuseType
    <2>6. /\ fuse'.node = fuse.node /\ fuse'.parent = fuse.parent /\ fuse'.stale = fuse.stale
          /\ fuse'.pc = fuse.pc /\ fuse'.freed = fuse.freed \cup more
      BY <2>1, <2>3 DEF FuseType
    <2>7. fuse'.node # NULL /\ fuse'.node \notin fuse'.freed => fuse'.node \in DOMAIN node'
      BY <1>1, <2>1, <2>2, <2>6
    <2> QED
      BY <2>1, <2>5, <2>6, <2>7 DEF FuseSound, CallbackSound
  <1> QED
    BY <1>3, <1>4

\* A callback reads a node.
LEMMA TouchSound ==
  ASSUME FuseSound, StaleInodeAnswered, fault.kind \in {"none", "null", "dangling"},
         fuse # FuseIdle, NEW a, NEW f, Touch(a, f),
         a # NULL \/ fuse.op = "read",
         fuse.stale => a = NULL,
         a # NULL /\ a \notin fuse.freed => f = FuseIdle \/ CallbackSound(f)
  PROVE  FuseSound' /\ StaleInodeAnswered' /\ fault'.kind \in {"none", "null", "dangling"}
  <1>1. node' = node
    BY DEF Touch
  <1>2. CASE a = NULL \/ a \in fuse.freed
    <2>1. /\ fault' = [kind |-> IF a = NULL THEN "null" ELSE "dangling", op |-> fuse.op, stale |-> fuse.stale]
          /\ fuse' = FuseIdle
      BY <1>2 DEF Touch
    <2>2. FuseSound'
      BY <2>1 DEF FuseSound
    <2>3. fuse.stale => fuse.op = "read"
      BY DEF StaleInodeAnswered
    <2> QED
      BY <2>1, <2>2, <2>3 DEF StaleInodeAnswered
  <1>3. CASE ~(a = NULL \/ a \in fuse.freed)
    <2>1. fault' = fault /\ fuse' = f
      BY <1>3 DEF Touch
    <2>2. StaleInodeAnswered'
      BY <2>1 DEF StaleInodeAnswered
    <2>3. FuseSound'
      BY <1>1, <1>3, <2>1 DEF FuseSound, CallbackSound
    <2> QED
      BY <2>1, <2>2, <2>3
  <1> QED
    BY <1>2, <1>3

\* A search gives the node of an inode, or nothing.
LEMMA SearchSound ==
  ASSUME top \in Nat, DOMAIN node \subseteq 1..top, NEW op \in Op, NEW ino \in Nat
  PROVE  CallbackSound(Search(op, ino))
  <1>1. Search(op, ino) = [op |-> op, pc |-> "found", node |-> Find(ino), parent |-> NULL,
                           stale |-> ino \notin DOMAIN node,
                           freed |-> {Find(ino)} \ (DOMAIN node \cup {NULL})]
    BY DEF Search
  <1>2. Find(ino) = (IF ino \in DOMAIN node THEN ino ELSE NULL) /\ NULL \in Nat /\ NULL \notin DOMAIN node
    BY DEF Find, NULL
  <1>3. {Find(ino)} \ (DOMAIN node \cup {NULL}) = {}
    BY <1>2
  <1>4. PICK stale \in BOOLEAN : stale = (ino \notin DOMAIN node)
    OBVIOUS
  <1>5. Search(op, ino) = [op |-> op, pc |-> "found", node |-> Find(ino), parent |-> NULL,
                           stale |-> stale, freed |-> {}]
    BY <1>1, <1>3, <1>4
  <1>6. Find(ino) \in Nat /\ {} \in SUBSET (Nat \ {NULL})
    BY <1>2
  <1> DEFINE f == Search(op, ino)
  <1>7. f \in FuseType
    BY <1>2, <1>5, <1>6 DEF FuseType
  <1>8. f.node = Find(ino) /\ f.stale = stale /\ f.pc = "found"
    BY <1>5
  <1>9. f.node # NULL => f.node \in DOMAIN node
    BY <1>2, <1>8
  <1>10. f.stale => f.node = NULL
    BY <1>2, <1>4, <1>8
  <1>11. ASSUME NEW g, g = f PROVE CallbackSound(g)
    <2> HIDE DEF f
    <2> QED
      BY <1>7, <1>8, <1>9, <1>10, <1>11 DEF CallbackSound
  <1> QED
    BY <1>11

\* The callbacks change nothing of the daemon and of the tree.
LEMMA FuseReads ==
  ASSUME Fuse
  PROVE  UNCHANGED <<daemonVars, node, top>>
  BY DEF Fuse, Callback, FuseStat, FuseOpen, FuseRead, FuseLookup, FuseEntry, FuseParent, FuseList,
         FuseDotdot, Touch, FuseReply

\* The steps of the callbacks, in the order of the code.
LEMMA FuseStep ==
  ASSUME FuseSound, StaleInodeAnswered, fault.kind \in {"none", "null", "dangling"},
         top \in Nat, DOMAIN node \subseteq 1..top, Rooted, Fuse
  PROVE  /\ FuseSound' /\ StaleInodeAnswered' /\ fault'.kind \in {"none", "null", "dangling"}
         /\ UNCHANGED <<daemonVars, node, top>>
  <1>1. UNCHANGED <<daemonVars, node, top>>
    BY FuseReads
  <1> DEFINE Good == FuseSound' /\ StaleInodeAnswered' /\ fault'.kind \in {"none", "null", "dangling"}
  <1>2. ASSUME FuseReply PROVE Good
    BY <1>2 DEF FuseReply, FuseSound, StaleInodeAnswered
  <1>3. ASSUME NEW op \in Op, NEW ino \in 1..top, Callback(op, ino) PROVE Good
    <2>1. fuse' = Search(op, ino) /\ node' = node /\ fault' = fault
      BY <1>3 DEF Callback
    <2>2. CallbackSound(Search(op, ino))
      BY SearchSound
    <2>3. FuseSound'
      BY <2>1, <2>2 DEF FuseSound, CallbackSound
    <2> QED
      BY <2>1, <2>3 DEF StaleInodeAnswered
  <1>4. ASSUME fuse.op \in Op
        PROVE  /\ fuse # FuseIdle /\ CallbackSound(fuse) /\ fuse \in FuseType
               /\ fuse.stale => fuse.node = NULL /\ fuse.pc = "found"
    BY <1>4, FuseIsIdle DEF FuseSound, CallbackSound
  <1>5. "getattr" \in Op /\ "open" \in Op /\ "read" \in Op /\ "lookup" \in Op /\ "readdir" \in Op
    BY DEF Op
  <1>6. ASSUME FuseStat \/ FuseOpen PROVE Good
    <2>1. fuse.op \in Op
      BY <1>5, <1>6 DEF FuseStat, FuseOpen
    <2>2. CASE fuse.node = NULL
      BY <1>2, <1>6, <2>2 DEF FuseStat, FuseOpen
    <2>3. CASE fuse.node # NULL
      <3>1. Touch(fuse.node, FuseIdle)
        BY <1>6, <2>3 DEF FuseStat, FuseOpen
      <3> QED
        BY <1>4, <2>1, <2>3, <3>1, TouchSound
    <2> QED
      BY <2>2, <2>3
  <1>7. ASSUME FuseRead PROVE Good
    <2>1. fuse.op = "read"
      BY <1>7 DEF FuseRead
    <2>2. PICK a : Touch(a, FuseIdle) /\ (a = NULL \/ a = fuse.node)
      BY <1>7 DEF FuseRead
    <2> QED
      BY <1>4, <1>5, <2>1, <2>2, TouchSound
  <1>8. ASSUME FuseLookup PROVE Good
    <2>1. fuse.op = "lookup" /\ fuse.op \in Op
      BY <1>5, <1>8 DEF FuseLookup
    <2>2. CASE fuse.node = NULL
      BY <1>2, <1>8, <2>2 DEF FuseLookup
    <2>3. CASE fuse.node # NULL
      <3>1. PICK b \in {NULL} \cup Children(fuse.node) :
              Touch(fuse.node, IF b = NULL THEN FuseIdle
                               ELSE [fuse EXCEPT !.pc = "child", !.node = b, !.freed = {}])
        BY <1>8, <2>3 DEF FuseLookup
      <3>2. PICK f : f = (IF b = NULL THEN FuseIdle
                          ELSE [fuse EXCEPT !.pc = "child", !.node = b, !.freed = {}])
        OBVIOUS
      <3>3. f = FuseIdle \/ CallbackSound(f)
        <4>1. CASE b = NULL
          BY <3>2, <4>1
        <4>2. CASE b # NULL
          <5>1. b \in DOMAIN node /\ b \in Nat
            BY <3>1, <4>2 DEF Children
          <5>2. f = [fuse EXCEPT !.pc = "child", !.node = b, !.freed = {}]
            BY <3>2, <4>2
          <5>3. fuse \in FuseType /\ ~fuse.stale
            BY <1>4, <2>1, <2>3
          <5>4. f \in FuseType
            BY <5>1, <5>2, <5>3 DEF FuseType
          <5>5. f.pc = "child" /\ f.node = b /\ f.stale = fuse.stale
            BY <5>2, <5>3 DEF FuseType
          <5> QED
            BY <4>2, <5>1, <5>3, <5>4, <5>5 DEF CallbackSound
        <4> QED
          BY <4>1, <4>2
      <3>4. Touch(fuse.node, f)
        BY <3>1, <3>2
      <3> QED
        BY <1>4, <2>1, <2>3, <3>3, <3>4, TouchSound
    <2> QED
      BY <2>2, <2>3
  <1>9. ASSUME FuseEntry PROVE Good
    <2>1. fuse.op \in Op /\ fuse.pc = "child" /\ Touch(fuse.node, Search("getattr", fuse.node))
      BY <1>5, <1>9 DEF FuseEntry
    <2>2. fuse.node \in Nat /\ fuse.node # NULL
      BY <1>4, <2>1 DEF CallbackSound, FuseType
    <2>3. CallbackSound(Search("getattr", fuse.node))
      BY <1>5, <2>2, SearchSound
    <2> QED
      BY <1>4, <2>1, <2>2, <2>3, TouchSound
  <1>10. ASSUME FuseParent PROVE Good
    <2>1. fuse.op = "readdir" /\ fuse.op \in Op
      BY <1>5, <1>10 DEF FuseParent
    <2>2. CASE fuse.node = NULL
      BY <1>2, <1>10, <2>2 DEF FuseParent
    <2>3. CASE fuse.node # NULL
      <3>1. PICK p : p = IF fuse.node = Root THEN Root ELSE node[fuse.node].up
        OBVIOUS
      <3>2. PICK f : f = [fuse EXCEPT !.pc = "list", !.parent = p]
        OBVIOUS
      <3>3. Touch(fuse.node, f)
        BY <1>10, <2>3, <3>1, <3>2 DEF FuseParent
      <3>4. ASSUME fuse.node \notin fuse.freed PROVE CallbackSound(f)
        <4>1. fuse \in FuseType /\ ~fuse.stale /\ fuse.node \in DOMAIN node
          BY <1>4, <2>1, <2>3, <3>4 DEF CallbackSound
        <4>2. p \in Nat /\ p # NULL
          BY <3>1, <4>1 DEF Rooted, Root, NULL
        <4>3. f \in FuseType
          BY <3>2, <4>1, <4>2 DEF FuseType
        <4>4. f.pc = "list" /\ f.parent = p /\ f.node = fuse.node /\ f.stale = fuse.stale
          BY <3>2, <4>1 DEF FuseType
        <4> QED
          BY <2>3, <4>1, <4>2, <4>3, <4>4 DEF CallbackSound
      <3> QED
        BY <1>4, <2>1, <2>3, <3>3, <3>4, TouchSound
    <2> QED
      BY <2>2, <2>3
  <1>11. ASSUME FuseList PROVE Good
    <2>1. fuse.op \in Op /\ fuse.pc = "list"
      BY <1>5, <1>11 DEF FuseList
    <2>2. PICK f : /\ f = FuseIdle \/ f = [fuse EXCEPT !.pc = "dotdot"]
                   /\ Touch(fuse.node, f)
      BY <1>11 DEF FuseList
    <2>3. fuse \in FuseType /\ ~fuse.stale /\ fuse.node # NULL /\ fuse.parent # NULL
      BY <1>4, <2>1 DEF CallbackSound
    <2>4. f = FuseIdle \/ CallbackSound(f)
      <3>1. CASE f = [fuse EXCEPT !.pc = "dotdot"]
        <4>1. f \in FuseType
          BY <2>3, <3>1 DEF FuseType
        <4>2. /\ f.pc = "dotdot" /\ f.node = fuse.node /\ f.parent = fuse.parent
              /\ f.stale = fuse.stale /\ f.freed = fuse.freed
          BY <2>3, <3>1 DEF FuseType
        <4> QED
          BY <1>4, <2>1, <2>3, <4>1, <4>2 DEF CallbackSound
      <3> QED
        BY <2>2, <3>1
    <2> QED
      BY <1>4, <2>1, <2>2, <2>3, <2>4, TouchSound
  <1>12. ASSUME FuseDotdot PROVE Good
    <2>1. fuse.op \in Op /\ fuse.pc = "dotdot" /\ Touch(fuse.parent, FuseIdle)
      BY <1>5, <1>12 DEF FuseDotdot
    <2>2. fuse.parent # NULL /\ ~fuse.stale
      BY <1>4, <2>1 DEF CallbackSound
    <2> QED
      BY <1>4, <2>1, <2>2, TouchSound
  <1> QED
    BY <1>1, <1>3, <1>6, <1>7, <1>8, <1>9, <1>10, <1>11, <1>12 DEF Fuse

-------------------------------------------------------------------------------
(* The invariant. *)

\* When the main loop is over nothing is left to do for the daemon.
LEMMA EndedRests ==
  ASSUME DaemonSound, main.op = "ended"
  PROVE  ~DaemonStep
  <1>1. DaemonTyped /\ main # MainIdle
    BY DEF DaemonSound, MainIdle
  <1>2. \A n \in Name : locker[n].state = "none"
    BY DEF DaemonSound, ControlSound
  <1>3. \A c \in Client : want[c] \in Name /\ place[c].state \in {"none", "gone"}
    BY <1>1 DEF DaemonSound, ControlSound, DaemonTyped
  <1>4. ASSUME NEW c \in Client
        PROVE  /\ ~Accept(c) /\ ~Incubate(c) /\ ~StartLocker(c) /\ ~HandOver(c)
               /\ ~TransferIncubated(c) /\ ~Drop(c)
    BY <1>1 DEF Accept, Incubate, StartLocker, HandOver, TransferIncubated, Drop
  <1>5. ASSUME NEW c \in Client
        PROVE  /\ ~Hold(c) /\ ~Enqueue(c) /\ ~Refuse(c) /\ ~Grant(c) /\ ~CleanEnd(c)
               /\ \A s \in Leaving : ~CleanStart(c, s)
    BY <1>2, <1>3 DEF Hold, Enqueue, Refuse, Inmsg, Free, Grant, CleanEnd, CleanStart
  <1>6. ~DelIncubated /\ ~IncubatorDone /\ ~End
    BY <1>1 DEF DelIncubated, IncubatorDone, End
  <1>7. ASSUME NEW n \in Name PROVE ~JoinLocker(n) /\ ~LockerFail(n)
    BY <1>1, <1>2 DEF JoinLocker, LockerFail
  <1> QED
    BY <1>4, <1>5, <1>6, <1>7 DEF DaemonStep

\* A deletion, by any of the three functions that delete.
LEMMA DeletesSound ==
  ASSUME Deletes, top \in Nat, DOMAIN node \subseteq 1..top, FuseSound
  PROVE  top' \in Nat /\ DOMAIN node' \subseteq 1..top' /\ FuseSound'
  <1>1. CASE Untouched
    <2>1. node' = node /\ top' = top /\ fuse' = fuse
      BY <1>1 DEF Untouched
    <2>2. FuseSound'
      BY <2>1, FuseKept
    <2> QED
      BY <2>1, <2>2
  <1>2. ASSUME NEW a, Cleanup(a) PROVE top' \in Nat /\ DOMAIN node' \subseteq 1..top' /\ FuseSound'
    <2>1. FuseSound'
      BY <1>2, FuseFreed
    <2>2. top' = top /\ DOMAIN node' \subseteq DOMAIN node
      BY <1>2 DEF Cleanup
    <2> QED
      BY <2>1, <2>2
  <1> QED
    BY <1>1, <1>2 DEF Deletes

\* No node goes, and none gets another name.
NodesKept == fuse' = fuse /\ \A b \in DOMAIN node : b \in DOMAIN node' /\ node'[b].name = node[b].name

\* Every step of the daemon but the last one keeps the tree in line with the threads, and
\* either deletes one directory or keeps all of them.
LEMMA DaemonTreeStep ==
  ASSUME DaemonSound, TreeShown, top \in Nat, DOMAIN node \subseteq 1..top, FuseSound,
         DaemonStep, ~End
  PROVE  /\ TreeShown' /\ top' \in Nat /\ DOMAIN node' \subseteq 1..top' /\ FuseSound'
         /\ NodesKept \/ Deletes
  <1> DEFINE Bounded == top' \in Nat /\ DOMAIN node' \subseteq 1..top'
             Good == TreeShown' /\ Bounded /\ FuseSound' /\ (NodesKept \/ Deletes)
  <1>1. ASSUME NodesKept PROVE FuseSound'
    <2>1. fuse' = fuse /\ DOMAIN node \subseteq DOMAIN node'
      BY <1>1 DEF NodesKept
    <2> QED
      BY <2>1, FuseKept
  <1>2. ASSUME \/ \E c \in Client : \/ Accept(c) \/ HandOver(c) \/ TransferIncubated(c) \/ Drop(c)
                                    \/ Refuse(c) \/ \E s \in Leaving : CleanStart(c, s)
               \/ IncubatorDone
               \/ \E n \in Name : LockerFail(n)
        PROVE  Good
    <2>1. TreeShown' /\ UNCHANGED <<node, top, fuse>>
      BY <1>2, SilentStep
    <2>2. NodesKept /\ Bounded
      BY <2>1 DEF NodesKept
    <2> QED
      BY <1>1, <2>1, <2>2
  <1>3. ASSUME /\ TreeShown' /\ top' \in Nat /\ DOMAIN node' \subseteq 1..top' /\ fuse' = fuse
               /\ \A b \in DOMAIN node : b \in DOMAIN node' /\ node'[b] = node[b]
        PROVE  Good
    <2>1. NodesKept
      BY <1>3 DEF NodesKept
    <2> QED
      BY <1>1, <1>3, <2>1
  <1>4. ASSUME NEW c \in Client, Incubate(c) PROVE Good
    BY <1>3, <1>4, IncubateStep
  <1>5. ASSUME NEW c \in Client, StartLocker(c) PROVE Good
    BY <1>3, <1>5, StartStep
  <1>6. ASSUME NEW c \in Client, Hold(c) PROVE Good
    <2>1. Dir("holders") = ListFor("holder")
      BY DEF ListFor
    <2> QED
      BY <1>3, <1>6, <2>1, AddListedStep DEF Hold
  <1>7. ASSUME NEW c \in Client, Enqueue(c) PROVE Good
    <2>1. Dir("waitings") = ListFor("waiting")
      BY DEF ListFor
    <2> QED
      BY <1>3, <1>7, <2>1, AddListedStep DEF Enqueue
  <1>8. ASSUME NEW c \in Client, Grant(c) PROVE Good
    <2>1. /\ TreeShown' /\ DOMAIN node' = DOMAIN node /\ UNCHANGED <<top, fuse>>
          /\ \A b \in DOMAIN node : node'[b].name = node[b].name
      BY <1>8, GrantStep
    <2>2. NodesKept
      BY <2>1 DEF NodesKept
    <2> QED
      BY <1>1, <2>1, <2>2
  <1>9. ASSUME TreeShown', Deletes PROVE Good
    BY <1>9, DeletesSound
  <1>10. ASSUME NEW c \in Client, CleanEnd(c) PROVE Good
    BY <1>9, <1>10, CleanEndStep
  <1>11. ASSUME DelIncubated PROVE Good
    BY <1>9, <1>11, DelIncubatedStep
  <1>12. ASSUME NEW n \in Name, JoinLocker(n) PROVE Good
    BY <1>9, <1>12, JoinStep
  <1> HIDE DEF Good
  <1>13. Good
    BY <1>2, <1>4, <1>5, <1>6, <1>7, <1>8, <1>10, <1>11, <1>12 DEF DaemonStep
  <1> QED
    BY <1>13 DEF Good

\* Only the last step of the daemon ends it, and none of its steps is a fault.
LEMMA DaemonEnds ==
  ASSUME DaemonSound, DaemonStep
  PROVE  fault' = fault /\ (main'.op = "ended" <=> End)
  <1>1. main.op # "ended" /\ main \in MainType
    BY EndedRests DEF DaemonSound, ControlSound
  <1>2. ASSUME End PROVE main'.op = "ended" /\ fault' = fault
    BY <1>2 DEF End
  <1>3. ASSUME NEW c \in Client,
               \/ Accept(c) \/ Incubate(c) \/ StartLocker(c) \/ HandOver(c)
               \/ TransferIncubated(c) \/ Drop(c)
               \/ Hold(c) \/ Enqueue(c) \/ Refuse(c) \/ Grant(c) \/ CleanEnd(c)
               \/ \E s \in Leaving : CleanStart(c, s)
        PROVE  main'.op # "ended" /\ fault' = fault
    <2>1. CASE StartLocker(c)
      BY <2>1 DEF StartLocker
    <2>2. CASE TransferIncubated(c)
      BY <2>2 DEF TransferIncubated
    <2>3. CASE Accept(c) \/ Incubate(c) \/ HandOver(c) \/ Drop(c)
      BY <1>1, <2>3 DEF Accept, Incubate, HandOver, Drop
    <2>4. CASE Hold(c) \/ Enqueue(c) \/ Refuse(c)
      BY <1>1, <2>4 DEF Hold, Enqueue, Refuse, Inmsg
    <2>5. CASE Grant(c) \/ CleanEnd(c) \/ \E s \in Leaving : CleanStart(c, s)
      BY <1>1, <2>5 DEF Grant, CleanEnd, CleanStart
    <2> QED
      BY <1>3, <2>1, <2>2, <2>3, <2>4, <2>5
  <1>4. ASSUME DelIncubated \/ IncubatorDone PROVE main'.op # "ended" /\ fault' = fault
    <2>1. CASE DelIncubated
      BY <2>1 DEF DelIncubated
    <2>2. CASE IncubatorDone
      BY <2>2 DEF IncubatorDone, MainIdle
    <2> QED
      BY <1>4, <2>1, <2>2
  <1>5. ASSUME NEW n \in Name, JoinLocker(n) \/ LockerFail(n) PROVE main'.op # "ended" /\ fault' = fault
    BY <1>1, <1>5 DEF JoinLocker, LockerFail
  <1> QED
    BY <1>2, <1>3, <1>4, <1>5 DEF DaemonStep

\* Nothing shown is nothing that can be lost.
LEMMA EmptyIsRooted ==
  ASSUME DOMAIN node = {}
  PROVE  Rooted
  BY DEF Rooted

\* The invariant is inductive.
LEMMA StatusInvStep ==
  ASSUME StatusInv, [TreeNext]_treeVars
  PROVE  StatusInv'
  <1>1. /\ DaemonSound /\ top \in Nat /\ DOMAIN node \subseteq 1..top /\ FuseSound
        /\ StaleInodeAnswered /\ fault.kind \in {"none", "null", "dangling"}
        /\ IF main.op = "ended" THEN DOMAIN node = {} ELSE TreeShown
    BY DEF StatusInv
  <1>2. ASSUME UNCHANGED <<daemonVars, node, top>>,
               FuseSound', StaleInodeAnswered', fault'.kind \in {"none", "null", "dangling"}
        PROVE  StatusInv'
    <2>1. DaemonSound'
      BY <1>1, <1>2 DEF DaemonSound, DaemonTyped, UidsSound, ControlSound, Counted, daemonVars
    <2>2. TreeShown => TreeShown'
      BY <1>2, SameTree DEF TreeShown, LockersShown, ListedShown, Belongs, IncubatorShown, Kept, daemonVars
    <2>3. main' = main /\ node' = node /\ top' = top
      BY <1>2 DEF daemonVars
    <2> QED
      BY <1>1, <1>2, <2>1, <2>2, <2>3 DEF StatusInv
  <1>3. CASE UNCHANGED treeVars
    <2>1. UNCHANGED <<daemonVars, node, top>> /\ fuse' = fuse /\ fault' = fault /\ node' = node
      BY <1>3 DEF treeVars
    <2>2. FuseSound'
      BY <1>1, <2>1, FuseKept
    <2>3. StaleInodeAnswered'
      BY <1>1, <2>1 DEF StaleInodeAnswered
    <2> QED
      BY <1>1, <1>2, <2>1, <2>2, <2>3
  <1>4. CASE Fuse
    <2>1. Rooted
      BY <1>1, EmptyIsRooted, Kinds DEF TreeShown
    <2> QED
      BY <1>1, <1>2, <1>4, <2>1, FuseStep
  <1>5. CASE DaemonStep
    <2>1. main.op # "ended" /\ TreeShown
      BY <1>1, <1>5, EndedRests
    <2>2. DaemonSound' /\ fault' = fault /\ (main'.op = "ended" <=> End)
      BY <1>1, <1>5, DaemonSoundStep, DaemonEnds
    <2>3. StaleInodeAnswered'
      BY <1>1, <2>2 DEF StaleInodeAnswered
    <2>4. CASE End
      <3>1. Cleanup(Root)
        BY <2>4 DEF End
      <3>2. DOMAIN node' = {} /\ top' = top
        BY <2>1, <3>1, EndStep DEF TreeShown, Cleanup
      <3>3. FuseSound'
        BY <1>1, <3>1, FuseFreed
      <3> QED
        BY <1>1, <2>2, <2>3, <2>4, <3>2, <3>3 DEF StatusInv
    <2>5. CASE ~End
      <3>1. TreeShown' /\ top' \in Nat /\ DOMAIN node' \subseteq 1..top' /\ FuseSound'
        BY <1>1, <1>5, <2>1, <2>5, DaemonTreeStep
      <3> QED
        BY <1>1, <2>2, <2>3, <2>5, <3>1 DEF StatusInv
    <2> QED
      BY <2>4, <2>5
  <1> QED
    BY <1>3, <1>4, <1>5 DEF TreeNext, DaemonStep

\* The tree of flom_vfs_ram_tree_init, with nobody connected yet.
LEMMA StatusInvInit ==
  ASSUME TreeInit
  PROVE  StatusInv
  <1>1. /\ last_uid = 0 /\ started = 0 /\ want \in [Client -> Name]
        /\ place = [c \in Client |-> [state |-> "none", uid |-> 0]]
        /\ locker = [n \in Name |-> [state |-> "none", uid |-> 0]]
        /\ main = MainIdle /\ top = 4 /\ fuse = FuseIdle /\ fault = NoFault
    BY DEF TreeInit
  <1>2. \A c \in Client : place[c].state = "none" /\ place[c].uid = 0
    BY <1>1
  <1>3. \A n \in Name : locker[n].state = "none" /\ locker[n].uid = 0
    BY <1>1
  <1>4. DaemonTyped
    BY <1>1 DEF DaemonTyped, Place
  <1>5. UidsSound
    BY <1>2, <1>3 DEF UidsSound
  <1>6. ControlSound
    BY <1>1, <1>2 DEF ControlSound, MainType, MainIdle, WithLocker, Leaving
  <1>7. Counted
    <2>1. {c \in Client : place[c].state # "none"} = {}
      BY <1>2
    <2> QED
      BY <1>1, <2>1, FS_EmptySet, VfsAssumption DEF Counted
  <1>8. /\ DOMAIN node = 1..4
        /\ node[1] = [name |-> Dir("root"), up |-> NULL]
        /\ node[2] = [name |-> Dir("status"), up |-> 1]
        /\ node[3] = [name |-> Dir("lockers"), up |-> 2]
        /\ node[4] = [name |-> Dir("incubator"), up |-> 2]
    BY DEF TreeInit
  <1>9. Grown = {}
    BY <1>8 DEF Grown, Fixed
  <1>10. LockerDirs = {} /\ ListDirs = {} /\ Listed = {} /\ Incubated = {}
    BY <1>9 DEF LockerDirs, ListDirs, Listed, Incubated
  <1>11. Shape
    <2>1. FixedSound
      BY <1>8 DEF FixedSound, Fixed
    <2>2. \A a \in DOMAIN node : a = 1 \/ a = 2 \/ a = 3 \/ a = 4
      BY <1>8
    <2>3. \A a \in DOMAIN node : IsNode(node[a])
      BY <1>8, <2>2 DEF IsNode
    <2> QED
      BY <1>9, <2>1, <2>3 DEF Shape
  <1>12. TreeShown
    BY <1>2, <1>3, <1>10, <1>11 DEF TreeShown, LockersShown, ListedShown, IncubatorShown
  <1>13. main.op = "poll" /\ fault.kind = "none"
    BY <1>1 DEF MainIdle, NoFault
  <1>14. DOMAIN node \subseteq 1..top /\ top \in Nat
    BY <1>1, <1>8
  <1>15. FuseSound /\ StaleInodeAnswered
    BY <1>1 DEF FuseSound, StaleInodeAnswered
  <1> QED
    BY <1>4, <1>5, <1>6, <1>7, <1>12, <1>13, <1>14, <1>15 DEF StatusInv, DaemonSound

-------------------------------------------------------------------------------
(* What the invariant says of the tree. *)

\* What is directly below the two directories, a locker and a list.
LEMMA ChildrenOf ==
  ASSUME Shape
  PROVE  /\ Children(3) = LockerDirs /\ Children(4) = Incubated
         /\ \A l \in LockerDirs, d \in ListNames :
              \A a \in ChildByName(l, d) : a \in ListDirs /\ node[a].up = l /\ node[a].name = d
         /\ \A a \in ListDirs : Children(a) = {b \in Listed : node[b].up = a}
  <1>1. /\ DOMAIN node = Fixed \cup Grown /\ Fixed \cap Grown = {}
        /\ LockerDirs \subseteq Grown /\ ListDirs \subseteq Grown
    BY Kinds
  <1>2. \A b \in Fixed \ {Root} : node[b].up \in Fixed /\ node[b].up # 3 /\ node[b].up # 4
    BY DEF Shape, FixedSound, Fixed, Root
  <1>3. Root \in Fixed
    BY DEF Root, Fixed
  <1>4. DOMAIN node \ {Root} = Grown \cup (Fixed \ {Root})
    BY <1>1, <1>3
  <1>5. Children(3) = LockerDirs /\ Children(4) = Incubated
    BY <1>2, <1>4 DEF Children, LockerDirs, Incubated
  <1>6. ASSUME NEW a \in Grown PROVE Children(a) = {b \in Grown : node[b].up = a}
    BY <1>1, <1>2, <1>4 DEF Children
  <1>7. ASSUME NEW l \in LockerDirs, NEW d \in ListNames, NEW a \in ChildByName(l, d)
        PROVE  a \in ListDirs /\ node[a].up = l /\ node[a].name = d
    BY <1>1, <1>6 DEF ChildByName, ListDirs
  <1>8. ASSUME NEW a \in ListDirs PROVE Children(a) = {b \in Listed : node[b].up = a}
    BY <1>1, <1>6 DEF Listed
  <1> QED
    BY <1>5, <1>7, <1>8

\* The list of a locker shows who holds, or who waits.
LEMMA ListShows ==
  ASSUME DaemonSound, TreeShown, NEW n \in Name, locker[n].state = "up",
         NEW l \in LockerDirs, node[l].name = Uid(locker[n].uid),
         NEW d \in {"holders", "waitings"}, NEW s \in {"holder", "waiting"}, Dir(d) = ListFor(s),
         NEW a \in ChildByName(l, Dir(d))
  PROVE  UidsOf({s}, n) \subseteq Uids(a) /\ Uids(a) \subseteq UidsOf({s} \cup Leaving, n)
  <1>1. /\ Shape /\ LockersShown /\ ListedShown
        /\ DaemonTyped /\ UidsSound
    BY DEF TreeShown, DaemonSound
  <1>2. a \in ListDirs /\ node[a].up = l /\ node[a].name = Dir(d)
    BY <1>1, ChildrenOf DEF ListNames
  <1>3. Uids(a) = {node[b].name.uid : b \in {b \in Listed : node[b].up = a}}
    <2>1. Children(a) = {b \in Listed : node[b].up = a}
      BY <1>1, <1>2, ChildrenOf
    <2>2. \A b \in Listed : node[b].name # File
      BY <1>1, Kinds, Names
    <2> QED
      BY <2>1, <2>2 DEF Uids
  <1>4. \A u : Uid(u).uid = u
    BY DEF Uid
  <1>5. \A t \in {"holder", "waiting"} : t \notin Leaving /\ t # "gone" /\ (ListFor(t) = ListFor(s) => t = s)
    BY DEF Leaving, ListFor, Dir
  <1>6. ASSUME NEW c \in Client, want[c] = n, place[c].state = s PROVE place[c].uid \in Uids(a)
    <2>1. PICK b \in Listed : node[b].name = Uid(place[c].uid)
      BY <1>1, <1>6 DEF ListedShown
    <2>2. Belongs(b, c)
      BY <1>1, <2>1, Owner
    <2>3. /\ node[b].up \in ListDirs /\ node[node[b].up].up \in LockerDirs
          /\ node[node[node[b].up].up].name = Uid(locker[n].uid)
      BY <1>1, <1>6, <2>2, OwnLocker
    <2>4. node[node[b].up].up = l
      BY <1>1, <2>3 DEF LockersShown
    <2>5. node[node[b].up].name = ListFor(s)
      BY <1>5, <1>6, <2>2 DEF Belongs
    <2>6. node[b].up = a
      BY <1>1, <1>2, <2>3, <2>4, <2>5 DEF LockersShown
    <2>7. node[b].name.uid = place[c].uid
      BY <1>4, <2>1
    <2> QED
      BY <1>3, <2>6, <2>7
  <1>7. ASSUME NEW b \in Listed, node[b].up = a
        PROVE  \E c \in Client : /\ node[b].name.uid = place[c].uid
                                 /\ want[c] = n /\ place[c].state \in {s} \cup Leaving
    <2>1. PICK c \in Client : Belongs(b, c)
      BY <1>1 DEF ListedShown
    <2>2. want[c] \in Name /\ locker[want[c]].state # "none"
      BY <1>1, <2>1, OwnLocker
    <2>3. Uid(locker[want[c]].uid) = Uid(locker[n].uid)
      BY <1>2, <1>7, <2>1 DEF Belongs
    <2>4. locker[want[c]].uid = locker[n].uid
      BY <2>3, Names
    <2>5. locker[n].uid # 0
      BY <1>1 DEF UidsSound
    <2>6. want[c] = n
      BY <1>1, <2>2, <2>4, <2>5 DEF UidsSound
    <2>7. place[c].state \in {s} \cup Leaving
      BY <1>2, <1>5, <1>7, <2>1, <2>6 DEF Belongs
    <2>8. node[b].name.uid = place[c].uid
      BY <1>4, <2>1 DEF Belongs
    <2> QED
      BY <2>6, <2>7, <2>8
  <1>8. UidsOf({s}, n) \subseteq Uids(a)
    BY <1>6 DEF UidsOf
  <1>9. Uids(a) \subseteq UidsOf({s} \cup Leaving, n)
    BY <1>3, <1>7 DEF UidsOf
  <1> QED
    BY <1>8, <1>9

\* From the invariant: the tree shows what the daemon has.
LEMMA StatusInvMirrors ==
  ASSUME StatusInv
  PROVE  TreeMirrors
  <1>1. CASE main.op = "ended"
    BY <1>1 DEF TreeMirrors
  <1>2. CASE main.op # "ended"
    <2>1. /\ DaemonSound /\ TreeShown
          /\ Shape /\ LockersShown /\ ListedShown /\ IncubatorShown
      BY <1>2 DEF StatusInv, TreeShown
    <2>2. TheDir("lockers") = 3 /\ TheDir("incubator") = 4
      BY <2>1, Directories
    <2>3. \A u : Uid(u).uid = u /\ Uid(u) # File
      BY DEF Uid, File
    <2>4. Uids(3) = {node[b].name.uid : b \in LockerDirs}
      <3>1. Children(3) = LockerDirs /\ \A b \in LockerDirs : node[b].name # File
        BY <2>1, Kinds, Names, ChildrenOf
      <3> QED
        BY <3>1 DEF Uids
    <2>5. Uids(4) = {node[b].name.uid : b \in Incubated}
      <3>1. Children(4) = Incubated /\ \A b \in Incubated : node[b].name # File
        BY <2>1, Kinds, Names, ChildrenOf
      <3> QED
        BY <3>1 DEF Uids
    <2> DEFINE waiting == {place[c].uid : c \in {c \in Client : place[c].state = "incubator"}}
               gone == {place[c].uid : c \in {c \in Client : place[c].state = "gone"}}
               moving == IF main.op = "del" THEN {place[main.client].uid} ELSE {}
    <2>6. Uids(3) = {locker[n].uid : n \in {n \in Name : locker[n].state # "none"}}
      <3>1. ASSUME NEW b \in LockerDirs
            PROVE  \E n \in Name : locker[n].state # "none" /\ node[b].name.uid = locker[n].uid
        BY <2>1, <2>3 DEF LockersShown
      <3>2. ASSUME NEW n \in Name, locker[n].state # "none"
            PROVE  \E b \in LockerDirs : node[b].name.uid = locker[n].uid
        <4>1. PICK b \in LockerDirs : node[b].name = Uid(locker[n].uid)
          BY <2>1, <3>2 DEF LockersShown
        <4> QED
          BY <2>3, <4>1
      <3> QED
        BY <2>4, <3>1, <3>2
    <2>7. ASSUME NEW n \in Name, locker[n].state = "up", NEW l \in ChildByName(3, Uid(locker[n].uid)),
                 NEW list \in {<<"holders", "holder">>, <<"waitings", "waiting">>},
                 NEW a \in ChildByName(l, Dir(list[1]))
          PROVE  /\ UidsOf({list[2]}, n) \subseteq Uids(a)
                 /\ Uids(a) \subseteq UidsOf({list[2]} \cup Leaving, n)
      <3>1. l \in LockerDirs /\ node[l].name = Uid(locker[n].uid)
        BY <2>1, ChildrenOf DEF ChildByName
      <3>2. /\ list[1] \in {"holders", "waitings"} /\ list[2] \in {"holder", "waiting"}
            /\ Dir(list[1]) = ListFor(list[2])
        BY DEF ListFor
      <3> QED
        BY <2>1, <2>7, <3>1, <3>2, ListShows
    <2>8. waiting \subseteq Uids(4)
      <3>1. ASSUME NEW c \in Client, place[c].state = "incubator"
            PROVE  \E b \in Incubated : node[b].name.uid = place[c].uid
        <4>1. PICK b \in Incubated : node[b].name = Uid(place[c].uid)
          BY <2>1, <3>1 DEF IncubatorShown
        <4> QED
          BY <2>3, <4>1
      <3> QED
        BY <2>5, <3>1
    <2>9. Uids(4) \subseteq waiting \cup gone \cup moving
      <3>1. ASSUME NEW b \in Incubated PROVE node[b].name.uid \in waiting \cup gone \cup moving
        <4>1. PICK c \in Client : Kept(c) /\ node[b].name = Uid(place[c].uid)
          BY <2>1 DEF IncubatorShown
        <4>2. node[b].name.uid = place[c].uid
          BY <2>3, <4>1
        <4> QED
          BY <4>1, <4>2 DEF Kept
      <3> QED
        BY <2>5, <3>1
    <2> QED
      BY <2>2, <2>6, <2>7, <2>8, <2>9 DEF TreeMirrors
  <1> QED
    BY <1>1, <1>2

\* From the invariant: types, and the form of the tree.
LEMMA StatusInvTyped ==
  ASSUME StatusInv
  PROVE  TreeTypeOK
  <1>1. /\ DaemonTyped /\ Counted /\ main \in MainType
        /\ top \in Nat /\ DOMAIN node \subseteq 1..top
        /\ fault.kind \in {"none", "null", "dangling"}
    BY DEF StatusInv, DaemonSound, ControlSound
  <1>2. last_uid \in 0..(Cardinality(Client) + MaxLocker)
    <2> DEFINE S == {c \in Client : place[c].state # "none"}
    <2>1. S \subseteq Client
      OBVIOUS
    <2>2. /\ Cardinality(S) \in Nat /\ Cardinality(Client) \in Nat
          /\ Cardinality(S) <= Cardinality(Client)
      BY <2>1, VfsAssumption, FS_Subset, FS_CardinalityType
    <2>3. last_uid = Cardinality(S) + started /\ started \in 0..MaxLocker /\ MaxLocker \in Nat
      BY <1>1, VfsAssumption DEF Counted
    <2> HIDE DEF S
    <2> QED
      BY <2>2, <2>3
  <1>3. ASSUME NEW a \in DOMAIN node \ {Root}
        PROVE  node[a].up \in DOMAIN node /\ node[node[a].up].name # File
    <2>1. Shape
      BY <1>3 DEF StatusInv, TreeShown
    <2>2. node[a].up \in DOMAIN node
      BY <2>1, Kinds DEF Rooted
    <2>3. CASE a \in Fixed
      <3>1. a \in {2, 3, 4}
        BY <2>3 DEF Fixed, Root
      <3>2. node[a].up = 1 \/ node[a].up = 2
        BY <2>1, <3>1 DEF Shape, FixedSound
      <3> QED
        BY <2>1, <2>2, <3>2, Names DEF Shape, FixedSound
    <2>4. CASE a \in Grown
      <3>1. node[3].name # File /\ node[4].name # File
        BY <2>1, Names DEF Shape, FixedSound
      <3>2. \A b \in LockerDirs \cup ListDirs \cup Listed \cup Incubated : node[b].name # File
        BY <2>1, Kinds, Names
      <3>3. node[a].up \in {3, 4} \cup LockerDirs \cup ListDirs \cup Listed \cup Incubated
        BY <2>1, <2>4, Kinds
      <3> QED
        BY <2>2, <3>1, <3>2, <3>3
    <2> QED
      BY <2>1, <2>3, <2>4, Kinds
  <1>4. fuse = FuseIdle \/ fuse.op \in Op
    BY FuseIsIdle DEF StatusInv, FuseSound, CallbackSound
  <1>5. main.op \in {"poll", "scan", "del", "ended"}
    BY <1>1, MainTypes
  <1> QED
    BY <1>1, <1>2, <1>3, <1>4, <1>5 DEF TreeTypeOK, DaemonTyped

-------------------------------------------------------------------------------
(* Inodes. *)

\* A connection has one uid all its life.
LEMMA UidKept ==
  ASSUME DaemonSound, DaemonStep, NEW c \in Client, place[c].state # "none"
  PROVE  place'[c].uid = place[c].uid
  <1>1. DaemonTyped
    BY DEF DaemonSound
  <1>2. ASSUME NEW d \in Client, NEW s, Become(d, s) PROVE place'[c].uid = place[c].uid
    BY <1>1, <1>2, BecomeFields
  <1>3. ASSUME NEW d \in Client, Accept(d) PROVE place'[c].uid = place[c].uid
    BY <1>1, <1>3 DEF Accept, DaemonTyped
  <1>4. ASSUME NEW d \in Client,
               \/ Incubate(d) \/ StartLocker(d) \/ HandOver(d) \/ TransferIncubated(d) \/ Drop(d)
               \/ Hold(d) \/ Enqueue(d) \/ Refuse(d) \/ Grant(d) \/ CleanEnd(d)
               \/ \E s \in Leaving : CleanStart(d, s)
        PROVE  \E s : Become(d, s)
    BY <1>4 DEF Incubate, StartLocker, HandOver, TransferIncubated, Drop, Hold, Enqueue, Refuse, Inmsg,
                Grant, CleanEnd, CleanStart
  <1>5. ASSUME DelIncubated \/ IncubatorDone \/ End \/ \E n \in Name : JoinLocker(n)
        PROVE  place' = place
    BY <1>5 DEF DelIncubated, IncubatorDone, End, JoinLocker
  <1>6. ASSUME NEW n \in Name, LockerFail(n) PROVE place'[c].uid = place[c].uid
    BY <1>1, <1>6 DEF LockerFail, DaemonTyped, Place
  <1> QED
    BY <1>2, <1>3, <1>4, <1>5, <1>6 DEF DaemonStep

\* The directory that a search by the uid of a waiting client or a holder meets.
LEMMA ConnDirShown ==
  ASSUME DaemonSound, TreeShown, NEW c \in Client, NEW a \in ConnDirs(c)
  PROVE  a \in LockerDirs \cup Listed /\ a \in DOMAIN node /\ node[a].name = Uid(place[c].uid)
  <1>1. Shape /\ LockersShown /\ ListedShown /\ UidsSound
    BY DEF DaemonSound, TreeShown
  <1>2. ConnDirs(c) = {b \in LockerDirs \cup Listed : node[b].name = Uid(place[c].uid)}
    BY <1>1, Directories, FoundUid DEF ConnDirs
  <1> QED
    BY <1>1, <1>2, Kinds

\* One step of InodeKept: the deletion of another directory leaves the one of c, which the
\* invariant after the step says is there, and no two have its name.
LEMMA InodeStep ==
  ASSUME StatusInv, StatusInv', [TreeNext]_treeVars, NEW c \in Client,
         place[c].state \in {"waiting", "holder"}, place'[c].state \in {"waiting", "holder"},
         NEW a \in ConnDirs(c)
  PROVE  a \in DOMAIN node' /\ node'[a].name = Uid(place[c].uid)
  <1>1. main.op # "ended" /\ main'.op # "ended"
    BY DEF StatusInv, DaemonSound, ControlSound
  <1>2. /\ DaemonSound /\ TreeShown /\ DaemonSound' /\ TreeShown'
        /\ top \in Nat /\ DOMAIN node \subseteq 1..top /\ FuseSound
    BY <1>1 DEF StatusInv
  <1>3. a \in LockerDirs \cup Listed /\ a \in DOMAIN node /\ node[a].name = Uid(place[c].uid)
    BY <1>2, ConnDirShown
  <1>4. CASE UNCHANGED node
    BY <1>3, <1>4
  <1>5. CASE DaemonStep
    <2>1. ~End /\ place'[c].uid = place[c].uid
      BY <1>1, <1>2, <1>5, DaemonEnds, UidKept
    <2>2. NodesKept \/ Deletes
      BY <1>2, <1>5, <2>1, DaemonTreeStep
    <2>3. CASE NodesKept
      BY <1>3, <2>3 DEF NodesKept
    <2>4. ASSUME NEW x \in LockerDirs \cup Listed \cup Incubated, Cleanup(x)
          PROVE  a \in DOMAIN node' /\ node'[a].name = Uid(place[c].uid)
      <3>1. PICK b \in Listed' : node'[b].name = Uid(place[c].uid)
        BY <1>2, <2>1 DEF TreeShown, ListedShown
      <3>2. Shape /\ LockersShown /\ ListedShown /\ UidsSound
        BY <1>2 DEF TreeShown, DaemonSound
      <3>3. Listed' = Listed \ Below(x) /\ \A y \in Grown' : node'[y] = node[y]
        BY <2>4, <3>2, CleanupShape DEF Cleanup
      <3>4. b \in Listed /\ b \in Grown' /\ b \in DOMAIN node'
        BY <3>1, <3>3 DEF Listed, Grown
      <3>5. node[b].name = Uid(place[c].uid)
        BY <3>1, <3>3, <3>4
      <3>6. a = b
        BY <1>3, <3>2, <3>4, <3>5, FoundUid
      <3> QED
        BY <3>1, <3>4, <3>6
    <2>5. CASE Untouched
      BY <1>4, <2>5 DEF Untouched
    <2> QED
      BY <2>2, <2>3, <2>4, <2>5 DEF Deletes
  <1>6. CASE Fuse
    <2>1. node' = node
      BY <1>6, FuseReads
    <2> QED
      BY <1>4, <2>1
  <1>7. CASE UNCHANGED treeVars
    BY <1>4, <1>7 DEF treeVars
  <1> QED
    BY <1>5, <1>6, <1>7 DEF TreeNext, DaemonStep

\* The invariant holds always.
LEMMA StatusInvHolds == TreeSpec => []StatusInv
  <1>1. TreeInit => StatusInv
    BY StatusInvInit
  <1>2. StatusInv /\ [TreeNext]_treeVars => StatusInv'
    BY StatusInvStep
  <1> QED
    BY <1>1, <1>2, PTL DEF TreeSpec

\* The status tree, for any clients, resources and number of lockers: every update of
\* flom_vfs.c by the main thread and by the lockers leaves a tree, in which each search
\* by uid meets the directory it means, and which shows the lockers that run, who holds,
\* who waits and who is in the incubator.
THEOREM TreeKept == TreeSpec => []TreeSound
  <1>1. StatusInv => TreeSound
    BY StatusInvTyped, StatusInvMirrors DEF TreeSound
  <1> QED
    BY <1>1, StatusInvHolds, PTL

\* The callbacks of flom_fuse.c, whatever the daemon does between their steps: an inode
\* that is gone is answered and leads to no freed memory; only flom_fuse_read goes on
\* with the node it has not found.
THEOREM StaleInodesAnswered == TreeSpec => []StaleInodeAnswered
  <1>1. StatusInv => StaleInodeAnswered
    BY DEF StatusInv
  <1> QED
    BY <1>1, StatusInvHolds, PTL

\* flom_vfs_ram_tree_move_locker_conn moves the directory of who is granted a lock, and no
\* deletion for another client or locker takes it: its inode stays good.
THEOREM InodesKept == TreeSpec => InodeKept
  <1> DEFINE KeptBy == \A c \in Client :
               place[c].state \in {"waiting", "holder"} /\ place'[c].state \in {"waiting", "holder"}
                 => \A a \in ConnDirs(c) :
                      a \in DOMAIN node' /\ node'[a].name = Uid(place[c].uid)
  <1>1. StatusInv /\ StatusInv' /\ [TreeNext]_treeVars => KeptBy
    BY InodeStep
  <1>2. StatusInv /\ StatusInv' /\ [TreeNext]_treeVars => [KeptBy]_<<place, node>>
    BY <1>1
  <1>3. InodeKept <=> [][KeptBy]_<<place, node>>
    BY DEF InodeKept
  <1> HIDE DEF KeptBy
  <1> QED
    BY <1>2, <1>3, StatusInvHolds, PTL DEF TreeSpec
===============================================================================
