----------------------------- MODULE LockerProofs -----------------------------
(***************************************************************************)
(* What every resource is built from: lists, and the operators of Locker.  *)
(* The proofs about the resources cite these lemmas, one for each operator *)
(* they call: what it does to a list, that it keeps the variables of the   *)
(* thread well typed, and that it is honest with the clients.              *)
(***************************************************************************)
EXTENDS Locker, SequenceTheorems, TLAPS

-------------------------------------------------------------------------------
(* Lists: g_slist_prepend is <<e>> \o s, g_queue_push_tail is Append(s, e),   *)
(* g_slist_remove and g_queue_pop_nth are RemoveAt(s, k).                     *)

\* Taking out entry k shifts the entries behind it one place to the front.
LEMMA RemoveAtProperties ==
  ASSUME NEW S, NEW s \in Seq(S), NEW k \in DOMAIN s
  PROVE  /\ RemoveAt(s, k) \in Seq(S)
         /\ Len(RemoveAt(s, k)) = Len(s) - 1
         /\ DOMAIN RemoveAt(s, k) = 1..(Len(s) - 1)
         /\ \A j \in 1..(Len(s) - 1) :
              RemoveAt(s, k)[j] = IF j < k THEN s[j] ELSE s[j + 1]
  <1> DEFINE front == SubSeq(s, 1, k - 1)
             back  == SubSeq(s, k + 1, Len(s))
  <1>1. k \in 1..Len(s) /\ Len(s) \in Nat
    BY LenProperties
  <1>2. /\ front \in Seq(S)
        /\ Len(front) = k - 1
        /\ \A j \in 1..(k - 1) : front[j] = s[j]
    BY <1>1
  <1>3. /\ back \in Seq(S)
        /\ Len(back) = Len(s) - k
        /\ \A j \in 1..(Len(s) - k) : back[j] = s[k + j]
    BY <1>1
  <1>4. RemoveAt(s, k) = front \o back
    BY DEF RemoveAt
  <1> HIDE DEF front, back
  <1>5. /\ front \o back \in Seq(S)
        /\ Len(front \o back) = Len(s) - 1
    BY <1>1, <1>2, <1>3, ConcatProperties
  <1>6. ASSUME NEW j \in 1..(Len(s) - 1)
        PROVE  (front \o back)[j] = IF j < k THEN s[j] ELSE s[j + 1]
    <2>1. (front \o back)[j] = IF j <= k - 1 THEN front[j] ELSE back[j - (k - 1)]
      BY <1>1, <1>2, <1>3, ConcatProperties
    <2>2. CASE j < k
      BY <1>1, <1>2, <2>1, <2>2
    <2>3. CASE ~(j < k)
      <3>1. j - (k - 1) \in 1..(Len(s) - k) /\ k + (j - (k - 1)) = j + 1
        BY <1>1, <2>3
      <3>2. QED BY <1>1, <1>3, <2>1, <2>3, <3>1
    <2>4. QED BY <2>2, <2>3
  <1>7. DOMAIN (front \o back) = 1..(Len(s) - 1)
    BY <1>5, LenProperties
  <1>8. QED BY <1>4, <1>5, <1>6, <1>7

\* Putting an entry in front shifts all the others one place to the back.
LEMMA PrependProperties ==
  ASSUME NEW S, NEW s \in Seq(S), NEW e \in S
  PROVE  /\ <<e>> \o s \in Seq(S)
         /\ Len(<<e>> \o s) = Len(s) + 1
         /\ DOMAIN (<<e>> \o s) = 1..(Len(s) + 1)
         /\ \A j \in 1..(Len(s) + 1) :
              (<<e>> \o s)[j] = IF j = 1 THEN e ELSE s[j - 1]
  <1>1. <<e>> \in Seq(S) /\ Len(<<e>>) = 1 /\ <<e>>[1] = e
    OBVIOUS
  <1>2. Len(s) \in Nat
    BY LenProperties
  <1>3. /\ <<e>> \o s \in Seq(S)
        /\ Len(<<e>> \o s) = Len(s) + 1
        /\ \A j \in 1..(1 + Len(s)) :
             (<<e>> \o s)[j] = IF j <= 1 THEN <<e>>[j] ELSE s[j - 1]
    BY <1>1, <1>2, ConcatProperties
  <1>4. DOMAIN (<<e>> \o s) = 1..(Len(s) + 1)
    BY <1>3, LenProperties
  <1>5. QED BY <1>1, <1>2, <1>3, <1>4

\* Putting an entry at the end leaves the others where they are.
LEMMA AppendedProperties ==
  ASSUME NEW S, NEW s \in Seq(S), NEW e \in S
  PROVE  /\ Append(s, e) \in Seq(S)
         /\ Len(Append(s, e)) = Len(s) + 1
         /\ DOMAIN Append(s, e) = 1..(Len(s) + 1)
         /\ \A j \in 1..(Len(s) + 1) : Append(s, e)[j] = IF j = Len(s) + 1 THEN e ELSE s[j]
  <1>1. Append(s, e) \in Seq(S) /\ Len(Append(s, e)) = Len(s) + 1
    BY AppendProperties
  <1>2. DOMAIN Append(s, e) = 1..(Len(s) + 1)
    BY <1>1, LenProperties
  <1>3. \A j \in 1..(Len(s) + 1) : Append(s, e)[j] = IF j = Len(s) + 1 THEN e ELSE s[j]
    BY LenProperties, AppendProperties
  <1> QED
    BY <1>1, <1>2, <1>3

\* Reading takes the first entry; the others move one place to the front.
LEMMA ReadProperties ==
  ASSUME NEW S, NEW s \in Seq(S), s # <<>>
  PROVE  /\ Head(s) \in S /\ Head(s) = s[1] /\ 1 \in DOMAIN s
         /\ Tail(s) \in Seq(S)
         /\ Len(Tail(s)) = Len(s) - 1
         /\ DOMAIN Tail(s) = 1..(Len(s) - 1)
         /\ \A j \in 1..(Len(s) - 1) : Tail(s)[j] = s[j + 1] /\ j + 1 \in DOMAIN s
  <1>1. Len(s) \in Nat /\ Len(s) # 0 /\ DOMAIN s = 1..Len(s)
    BY LenProperties, EmptySeq
  <1>2. /\ Head(s) \in S /\ Tail(s) \in Seq(S) /\ Len(Tail(s)) = Len(s) - 1
        /\ \A i \in 1..Len(Tail(s)) : Tail(s)[i] = s[i + 1]
    BY HeadTailProperties
  <1>3. DOMAIN Tail(s) = 1..(Len(s) - 1)
    BY <1>2, LenProperties
  <1>4. Head(s) = s[1]
    OBVIOUS
  <1> QED
    BY <1>1, <1>2, <1>3, <1>4

\* A list without one of its records, or with one more, has no others.
LEMMA RecordsFrom ==
  ASSUME NEW S, NEW s \in Seq(S)
  PROVE  /\ \A k \in DOMAIN s : \A j \in DOMAIN RemoveAt(s, k) :
              \E i \in DOMAIN s : RemoveAt(s, k)[j] = s[i]
         /\ \A e \in S : \A j \in DOMAIN Append(s, e) :
              Append(s, e)[j] = e \/ \E i \in DOMAIN s : Append(s, e)[j] = s[i]
  <1>1. Len(s) \in Nat /\ DOMAIN s = 1..Len(s)
    BY LenProperties
  <1>2. ASSUME NEW k \in DOMAIN s, NEW j \in DOMAIN RemoveAt(s, k)
        PROVE  \E i \in DOMAIN s : RemoveAt(s, k)[j] = s[i]
    <2>1. /\ j \in 1..(Len(s) - 1)
          /\ RemoveAt(s, k)[j] = IF j < k THEN s[j] ELSE s[j + 1]
      BY RemoveAtProperties
    <2>2. j \in DOMAIN s /\ j + 1 \in DOMAIN s
      BY <1>1, <2>1
    <2> QED
      BY <2>1, <2>2
  <1>3. ASSUME NEW e \in S, NEW j \in DOMAIN Append(s, e)
        PROVE  Append(s, e)[j] = e \/ \E i \in DOMAIN s : Append(s, e)[j] = s[i]
    <2>1. /\ j \in 1..(Len(s) + 1)
          /\ Append(s, e)[j] = IF j = Len(s) + 1 THEN e ELSE s[j]
      BY AppendedProperties
    <2>2. j = Len(s) + 1 \/ j \in DOMAIN s
      BY <1>1, <2>1
    <2> QED
      BY <2>1, <2>2
  <1> QED
    BY <1>2, <1>3

\* The same of a record put in front.
LEMMA RecordsPrepended ==
  ASSUME NEW S, NEW s \in Seq(S), NEW e \in S, NEW new, new = <<e>> \o s
  PROVE  \A j \in DOMAIN new : new[j] = e \/ \E i \in DOMAIN s : new[j] = s[i]
  <1>1. Len(s) \in Nat /\ DOMAIN s = 1..Len(s)
    BY LenProperties
  <1>2. /\ DOMAIN new = 1..(Len(s) + 1)
        /\ \A j \in 1..(Len(s) + 1) : new[j] = IF j = 1 THEN e ELSE s[j - 1]
    BY PrependProperties
  <1>3. \A j \in DOMAIN new : j = 1 \/ j - 1 \in DOMAIN s
    BY <1>1, <1>2
  <1> QED
    BY <1>2, <1>3

-------------------------------------------------------------------------------
(* Types. *)

\* The initial state of the thread is well typed.
LEMMA LockerInitType == LockerInit => LockerTypeOK
  BY DEF LockerInit, LockerTypeOK, ConnState, PeerState, MsgVerb, Answer, Job,
         Idle, VfsNode

\* Connecting, sending, leaving and dying keep the types.
LEMMA PeersType ==
  ASSUME LockerTypeOK, NEW verbs \in SUBSET MsgVerb, Peers(verbs)
  PROVE  LockerTypeOK'
  <1>1. PICK c \in Conn : \/ Transfer(c)
                          \/ RetryLock(c)
                          \/ \E verb \in verbs : Unlock(c, verb)
                          \/ Disconnect(c)
                          \/ Crash(c)
    BY DEF Peers
  <1>2. CASE Transfer(c)
    BY <1>2 DEF Transfer, LockerTypeOK, ConnState, PeerState, MsgVerb
  <1>3. CASE RetryLock(c)
    BY <1>3 DEF RetryLock, LockerTypeOK, MsgVerb
  <1>4. ASSUME NEW verb \in verbs, Unlock(c, verb)
        PROVE  LockerTypeOK'
    BY <1>4 DEF Unlock, LockerTypeOK, PeerState, MsgVerb
  <1>5. CASE Disconnect(c)
    BY <1>5 DEF Disconnect, LockerTypeOK, PeerState
  <1>6. CASE Crash(c)
    BY <1>6 DEF Crash, LockerTypeOK, PeerState
  <1>7. QED
    BY <1>1, <1>2, <1>3, <1>4, <1>5, <1>6

\* The answer to a LOCK message keeps the types, if the status tree does.
LEMMA ReplyType ==
  ASSUME LockerTypeOK, NEW c \in Conn, NEW rc \in Answer, Reply(c, rc),
         vfs' \subseteq VfsNode
  PROVE  LockerTypeOK'
  <1>1. [path |-> "reclean", conn |-> c, i |-> 1] \in Job
    BY DEF Job
  <1>2. QED
    BY <1>1 DEF Reply, LockerTypeOK, ConnState, MsgVerb

\* Closing the connection to clean keeps the types.
LEMMA CloseFdType ==
  ASSUME LockerTypeOK, NEW c \in Conn, NEW path, CloseFd(c, path)
  PROVE  conn' \in [Conn -> ConnState] /\ inbox' \in [Conn -> MsgVerb]
  BY DEF CloseFd, LockerTypeOK, ConnState, MsgVerb

\* The start of a scan keeps the types.
LEMMA StartScanType ==
  ASSUME LockerTypeOK, NEW c \in Conn, NEW path \in CleanPath, StartScan(c, path)
  PROVE  LockerTypeOK'
  <1>1. [path |-> path, conn |-> c, i |-> 1] \in Job
    BY DEF Job, CleanPath
  <1>2. CloseFd(c, path)
    BY DEF StartScan
  <1>3. QED
    BY <1>1, <1>2, CloseFdType DEF StartScan, LockerTypeOK

\* The end of a clean without scan keeps the types.
LEMMA EndCleanType ==
  ASSUME LockerTypeOK, NEW c \in Conn, NEW path \in CleanPath, EndClean(c, path)
  PROVE  LockerTypeOK'
  <1>1. Idle \in Job
    BY DEF Job
  <1>2. CloseFd(c, path)
    BY DEF EndClean
  <1>3. QED
    BY <1>1, <1>2, CloseFdType DEF EndClean, LockerTypeOK, VfsDel

\* A job that is not Idle has a path, a connection and a cursor.
LEMMA JobFields ==
  ASSUME LockerTypeOK, job # Idle
  PROVE  /\ job \in [path : {"unlock", "error", "second", "reclean", "timeout"},
                     conn : Conn, i : Nat]
         /\ job.conn \in Conn
         /\ job.i \in Nat
  BY DEF LockerTypeOK, Job

\* Each of the four ways a turn of the scan ends keeps the types.
LEMMA ScanType ==
  ASSUME LockerTypeOK, Scanning, NEW c \in Conn,
         ScanEnd \/ ScanSkip \/ ScanGrant(c) \/ ScanAbort(c)
  PROVE  LockerTypeOK'
  <1>1. /\ job \in [path : {"unlock", "error", "second", "reclean", "timeout"},
                    conn : Conn, i : Nat]
        /\ job.conn \in Conn
        /\ job.i \in Nat
    BY JobFields DEF Scanning
  <1>2. CASE ScanEnd
    <2>1. Idle \in Job
      BY DEF Job
    <2>2. QED
      BY <1>2, <2>1 DEF ScanEnd, LockerTypeOK, VfsDel
  <1>3. CASE ScanSkip
    <2>1. [job EXCEPT !.i = @ + 1] \in
            [path : {"unlock", "error", "second", "reclean", "timeout"},
             conn : Conn, i : Nat]
      BY <1>1
    <2>2. [job EXCEPT !.i = @ + 1] \in Job
      BY <2>1 DEF Job
    <2>3. QED
      BY <1>3, <2>2 DEF ScanSkip, LockerTypeOK
  <1>4. CASE ScanGrant(c)
    <2>1. vfs' \subseteq VfsNode
      BY <1>4 DEF ScanGrant, VfsMove, LockerTypeOK, VfsNode
    <2>2. QED
      BY <1>4, <2>1 DEF ScanGrant, LockerTypeOK, Answer
  <1>5. CASE ScanAbort(c)
    <2>1. Idle \in Job /\ [path |-> "reclean", conn |-> job.conn, i |-> 1] \in Job
      BY <1>1 DEF Job
    <2>2. conn' \in [Conn -> ConnState]
      BY <1>5 DEF ScanAbort, LockerTypeOK, ConnState
    <2>3. QED
      BY <1>5, <2>1, <2>2 DEF ScanAbort, LockerTypeOK
  <1>6. QED
    BY <1>2, <1>3, <1>4, <1>5

-------------------------------------------------------------------------------
(* What the thread owes the connections of its table. *)

\* The clean, or the second clean, of connection c is under way.
BusyWith(c) == job # Idle /\ job.path # "timeout" /\ job.conn = c

\* H is the set of the connections with a granted lock, W that of the queue.  What
\* connection c was told, what it may send and where it is agree: a granted lock or
\* a place in the queue is that of an open connection whose LOCK message has been
\* answered, and a connection is cleaned only when its peer has left.
HonestTo(c, H, W) ==
  /\ conn[c] = "new" <=> peer[c] = "none"
  /\ inbox[c] \in {"UNLOCK", "ROLLBACK"} =>
       peer[c] \in {"closing", "gone"} /\ (conn[c] = "open" => c \in H)
  /\ thread = "dead" => conn[c] # "open"
  /\ conn[c] = "open" /\ peer[c] = "up" =>
       /\ answer[c] = "OK" <=> c \in H
       /\ answer[c] = "LOCK_ENQUEUED" <=> c \in W
  /\ thread # "dead" /\ c \in H \cup W => conn[c] = "open" /\ inbox[c] # "LOCK"
  /\ thread # "dead" => c \notin H \cap W
  /\ BusyWith(c) => /\ peer[c] \in {"closing", "gone"}
                    /\ job.path # "reclean" => c \notin H \cup W

\* The status tree shows c where it is; it also shows c for a while after its lock is
\* gone, until the clean under way, or that of the dead peer, is done.
ShownAs(c, H, W) ==
  LET late == BusyWith(c) \/ (conn[c] = "open" /\ peer[c] = "gone") IN
  thread # "dead" =>
    /\ c \in H => <<"holders", c>> \in vfs
    /\ c \in W => <<"waitings", c>> \in vfs
    /\ <<"holders", c>> \in vfs => c \in H \/ late
    /\ <<"waitings", c>> \in vfs => c \in W \/ late

Honest(H, W) == \A c \in Conn : HonestTo(c, H, W) /\ ShownAs(c, H, W)

\* The connections that have a record in a list.
Conns(s) == {s[k].conn : k \in DOMAIN s}

\* No connection has two.
Distinct(s) == \A j, k \in DOMAIN s : s[j].conn = s[k].conn => j = k

\* Nothing is owed to anybody before the first connection.
LEMMA HonestInit == LockerInit => Honest({}, {})
  BY DEF LockerInit, Honest, HonestTo, ShownAs, BusyWith

\* What the clients do disturbs nothing, if none of them sends a second LOCK message
\* while the first one is served.
LEMMA HonestPeers ==
  ASSUME LockerTypeOK, ~Retry, NEW H, NEW W, Honest(H, W),
         NEW verbs \in SUBSET {"UNLOCK", "ROLLBACK"}, Peers(verbs)
  PROVE  Honest(H, W)'
  <1>1. PICK c \in Conn : \/ Transfer(c)
                          \/ RetryLock(c)
                          \/ \E verb \in verbs : Unlock(c, verb)
                          \/ Disconnect(c)
                          \/ Crash(c)
    BY DEF Peers
  <1>2. SUFFICES ASSUME NEW d \in Conn
                 PROVE  HonestTo(d, H, W)' /\ ShownAs(d, H, W)'
    BY DEF Honest
  <1>3. HonestTo(d, H, W) /\ ShownAs(d, H, W) /\ HonestTo(c, H, W) /\ ShownAs(c, H, W)
    BY DEF Honest
  <1>4. CASE Transfer(c)
    BY <1>3, <1>4 DEF Transfer, LockerTypeOK, HonestTo, ShownAs, BusyWith
  <1>5. CASE RetryLock(c)
    BY <1>3, <1>5 DEF RetryLock, LockerTypeOK, HonestTo, ShownAs, BusyWith
  <1>6. ASSUME NEW verb \in verbs, Unlock(c, verb)
        PROVE  HonestTo(d, H, W)' /\ ShownAs(d, H, W)'
    BY <1>3, <1>6 DEF Unlock, LockerTypeOK, HonestTo, ShownAs, BusyWith
  <1>7. CASE Disconnect(c)
    BY <1>3, <1>7 DEF Disconnect, LockerTypeOK, HonestTo, ShownAs, BusyWith
  <1>8. CASE Crash(c)
    BY <1>3, <1>8 DEF Crash, LockerTypeOK, HonestTo, ShownAs, BusyWith
  <1>9. QED
    BY <1>1, <1>4, <1>5, <1>6, <1>7, <1>8

\* A connection whose LOCK message is read has no lock and no place in the queue.
LEMMA HonestNewcomer ==
  ASSUME NEW H, NEW W, Honest(H, W), NEW c \in Conn, CanRead(c, "LOCK")
  PROVE  c \notin H /\ c \notin W
  BY DEF Honest, HonestTo, CanRead, Polling

\* The answer goes to a connection that now has what the answer says.
LEMMA HonestReply ==
  ASSUME LockerTypeOK, NEW H, NEW W, Honest(H, W), NEW c \in Conn,
         CanRead(c, "LOCK"), NEW rc \in Answer, Reply(c, rc), NEW G, NEW V,
         \/ rc = "OK" /\ G = H \cup {c} /\ V = W /\ VfsAdd("holders", c)
         \/ rc = "LOCK_ENQUEUED" /\ G = H /\ V = W \cup {c} /\ VfsAdd("waitings", c)
         \/ rc \in {"LOCK_BUSY", "LOCK_IMPOSSIBLE"} /\ G = H /\ V = W /\ UNCHANGED vfs
  PROVE  Honest(G, V)'
  <1>1. c \notin H /\ c \notin W
    BY HonestNewcomer
  <1>2. SUFFICES ASSUME NEW d \in Conn
                 PROVE  HonestTo(d, G, V)' /\ ShownAs(d, G, V)'
    BY DEF Honest
  <1>3. HonestTo(d, H, W) /\ ShownAs(d, H, W)
    BY DEF Honest
  <1>4. /\ thread = "loop" /\ job = Idle /\ inbox[c] = "LOCK"
        /\ conn[c] \in {"piped", "open"}
        /\ conn' = [conn EXCEPT ![c] = "open"]
        /\ inbox' = [inbox EXCEPT ![c] = "NONE"]
        /\ UNCHANGED peer
        /\ thread' # "dead"
        /\ job' # Idle => job'.conn = c /\ job'.path = "reclean"
        /\ job' # Idle => peer[c] \notin {"up", "closing"}
        /\ answer' = answer \/ answer' = [answer EXCEPT ![c] = rc]
        /\ peer[c] = "up" => answer' = [answer EXCEPT ![c] = rc]
    BY DEF CanRead, Polling, Reply, SendRc
  <1>5. d \in G <=> d \in H \/ (d = c /\ rc = "OK")
    OBVIOUS
  <1>6. d \in V <=> d \in W \/ (d = c /\ rc = "LOCK_ENQUEUED")
    OBVIOUS
  <1>7. HonestTo(c, H, W)
    BY DEF Honest
  <1>8. HonestTo(d, G, V)'
    <2>1. CASE d = c
      BY <1>1, <1>3, <1>4, <1>5, <1>6, <2>1
         DEF LockerTypeOK, HonestTo, BusyWith, PeerState
    <2>2. CASE d # c
      BY <1>1, <1>3, <1>4, <1>5, <1>6, <2>2 DEF LockerTypeOK, HonestTo, BusyWith
    <2> QED
      BY <2>1, <2>2
  <1>9. ShownAs(d, G, V)'
    <2>1. vfs' = vfs \/ vfs' = vfs \cup {<<"holders", c>>} \/ vfs' = vfs \cup {<<"waitings", c>>}
      BY DEF VfsAdd
    <2>2. CASE d = c
      BY <1>1, <1>3, <1>4, <1>5, <1>6, <2>2
         DEF LockerTypeOK, ShownAs, BusyWith, VfsAdd
    <2>3. CASE d # c
      BY <1>1, <1>3, <1>4, <1>5, <1>6, <2>1, <2>3 DEF LockerTypeOK, ShownAs, BusyWith
    <2> QED
      BY <2>2, <2>3
  <1> QED
    BY <1>8, <1>9

\* Only a connection whose peer has left is cleaned.
LEMMA CleanedHasLeft ==
  ASSUME NEW H, NEW W, Honest(H, W), NEW c \in Conn, NEW path \in CleanPath,
         CleanEvent(c, path)
  PROVE  peer[c] \in {"closing", "gone"}
  <1>1. HonestTo(c, H, W)
    BY DEF Honest
  <1>2. \/ inbox[c] \in {"UNLOCK", "ROLLBACK"}
        \/ peer[c] = "gone" \/ HungUp(c)
        \/ job # Idle /\ job.path = "reclean" /\ job.conn = c
    BY DEF CleanEvent, CleanPath
  <1> QED
    BY <1>1, <1>2 DEF HonestTo, BusyWith, HungUp

\* A clean that releases a lock starts the scan.
LEMMA HonestRelease ==
  ASSUME LockerTypeOK, NEW H, NEW W, Honest(H, W), NEW c \in Conn,
         NEW path \in CleanPath, CleanEvent(c, path), StartScan(c, path),
         c \in H, NEW G, G = H \ {c}
  PROVE  Honest(G, W)'
  <1>1. peer[c] \in {"closing", "gone"}
    BY CleanedHasLeft
  <1>2. SUFFICES ASSUME NEW d \in Conn
                 PROVE  HonestTo(d, G, W)' /\ ShownAs(d, G, W)'
    BY DEF Honest
  <1>3. HonestTo(d, H, W) /\ ShownAs(d, H, W) /\ HonestTo(c, H, W)
    BY DEF Honest
  <1>4. /\ thread = "loop" /\ thread' = "loop"
        /\ conn' = IF path = "unlock" THEN conn ELSE [conn EXCEPT ![c] = "closed"]
        /\ inbox' = [inbox EXCEPT ![c] = "NONE"]
        /\ UNCHANGED <<peer, answer, vfs>>
        /\ job' = [path |-> path, conn |-> c, i |-> 1]
        /\ job = Idle \/ job.conn = c
    BY DEF CleanEvent, StartScan, CloseFd, CleanPath
  <1>5. job' # Idle /\ job'.conn = c /\ job'.path # "timeout"
    BY <1>4 DEF Idle, CleanPath
  <1>6. HonestTo(d, G, W)'
    BY <1>1, <1>3, <1>4, <1>5 DEF HonestTo, BusyWith, LockerTypeOK
  <1>7. ShownAs(d, G, W)'
    BY <1>1, <1>3, <1>4, <1>5 DEF ShownAs, BusyWith, LockerTypeOK
  <1> QED
    BY <1>6, <1>7

\* A clean that finds no lock takes its connection out of the queue and ends.
LEMMA HonestWithdraw ==
  ASSUME LockerTypeOK, NEW H, NEW W, Honest(H, W), NEW c \in Conn,
         NEW path \in CleanPath, CleanEvent(c, path), EndClean(c, path),
         NEW G, G = H \ {c}, NEW V, V = W \ {c}
  PROVE  Honest(G, V)'
  <1>1. peer[c] \in {"closing", "gone"}
    BY CleanedHasLeft
  <1>2. SUFFICES ASSUME NEW d \in Conn
                 PROVE  HonestTo(d, G, V)' /\ ShownAs(d, G, V)'
    BY DEF Honest
  <1>3. HonestTo(d, H, W) /\ ShownAs(d, H, W) /\ HonestTo(c, H, W)
    BY DEF Honest
  <1>4. /\ thread = "loop" /\ thread' = "loop"
        /\ conn' = IF path = "unlock" THEN conn ELSE [conn EXCEPT ![c] = "closed"]
        /\ inbox' = [inbox EXCEPT ![c] = "NONE"]
        /\ UNCHANGED <<peer, answer>>
        /\ vfs' = {n \in vfs : n[2] # c}
        /\ job' = Idle
        /\ job = Idle \/ job.conn = c
    BY DEF CleanEvent, EndClean, CloseFd, CleanPath, VfsDel
  <1>5. HonestTo(d, G, V)'
    BY <1>1, <1>3, <1>4 DEF HonestTo, BusyWith, LockerTypeOK
  <1>6. ShownAs(d, G, V)'
    <2>1. /\ <<"holders", d>> \in vfs' <=> d # c /\ <<"holders", d>> \in vfs
          /\ <<"waitings", d>> \in vfs' <=> d # c /\ <<"waitings", d>> \in vfs
      BY <1>4
    <2> QED
      BY <1>1, <1>3, <1>4, <2>1 DEF ShownAs, BusyWith, LockerTypeOK
  <1> QED
    BY <1>5, <1>6

\* The end of the scan of a clean is the end of that clean.
LEMMA HonestScanEnd ==
  ASSUME LockerTypeOK, NEW H, NEW W, Honest(H, W), Scanning, job.path # "timeout", ScanEnd
  PROVE  Honest(H, W)'
  <1>1. SUFFICES ASSUME NEW d \in Conn
                 PROVE  HonestTo(d, H, W)' /\ ShownAs(d, H, W)'
    BY DEF Honest
  <1>2. HonestTo(d, H, W) /\ ShownAs(d, H, W)
    BY DEF Honest
  <1>3. /\ job # Idle /\ job.path # "reclean" /\ job' = Idle /\ thread = "loop"
        /\ UNCHANGED <<conn, peer, inbox, answer, thread>>
        /\ vfs' = {n \in vfs : n[2] # job.conn}
    BY DEF ScanEnd, Scanning, VfsDel
  <1>4. HonestTo(d, H, W)'
    BY <1>2, <1>3 DEF HonestTo, BusyWith
  <1>5. /\ <<"holders", d>> \in vfs' <=> d # job.conn /\ <<"holders", d>> \in vfs
        /\ <<"waitings", d>> \in vfs' <=> d # job.conn /\ <<"waitings", d>> \in vfs
    BY <1>3
  <1>6. ShownAs(d, H, W)'
    BY <1>2, <1>3, <1>5 DEF ShownAs, HonestTo, BusyWith
  <1> QED
    BY <1>4, <1>6

\* Passing over an entry changes nothing.
LEMMA HonestScanSkip ==
  ASSUME LockerTypeOK, NEW H, NEW W, Honest(H, W), Scanning, ScanSkip
  PROVE  Honest(H, W)'
  <1>1. job \in [path : {"unlock", "error", "second", "reclean", "timeout"},
                 conn : Conn, i : Nat]
    BY JobFields DEF Scanning
  <1>2. job'.path = job.path /\ job'.conn = job.conn /\ job # Idle
    BY <1>1 DEF ScanSkip, Scanning
  <1>3. job' # Idle
    BY <1>1, <1>2 DEF Idle
  <1>4. UNCHANGED <<conn, peer, inbox, answer, vfs, thread>>
    BY DEF ScanSkip
  <1> QED
    BY <1>2, <1>3, <1>4 DEF Honest, HonestTo, ShownAs, BusyWith

\* A waiter that is granted the lock is told so and shown below holders/.
LEMMA HonestScanGrant ==
  ASSUME LockerTypeOK, NEW H, NEW W, Honest(H, W), Scanning, NEW c \in W, c \in Conn,
         ScanGrant(c), NEW G, G = H \cup {c}, NEW V, V = W \ {c}
  PROVE  Honest(G, V)'
  <1>1. SUFFICES ASSUME NEW d \in Conn
                 PROVE  HonestTo(d, G, V)' /\ ShownAs(d, G, V)'
    BY DEF Honest
  <1>2. HonestTo(d, H, W) /\ ShownAs(d, H, W) /\ HonestTo(c, H, W) /\ ShownAs(c, H, W)
    BY DEF Honest
  <1>3. /\ job # Idle /\ job.path # "reclean" /\ thread = "loop"
        /\ UNCHANGED <<conn, peer, inbox, job, thread>>
        /\ answer' = [answer EXCEPT ![c] = "OK"]
    BY DEF ScanGrant, Scanning
  <1>4. vfs' = (vfs \ {<<"waitings", c>>}) \cup {<<"holders", c>>}
    BY <1>2, <1>3 DEF ScanGrant, VfsMove, ShownAs
  <1>5. ~BusyWith(c)
    BY <1>2, <1>3 DEF HonestTo, BusyWith
  <1>6. HonestTo(d, G, V)'
    BY <1>2, <1>3, <1>5 DEF HonestTo, BusyWith, LockerTypeOK
  <1>7. /\ <<"holders", d>> \in vfs' <=> d = c \/ <<"holders", d>> \in vfs
        /\ <<"waitings", d>> \in vfs' <=> d # c /\ <<"waitings", d>> \in vfs
    BY <1>4
  <1>8. ShownAs(d, G, V)'
    BY <1>2, <1>3, <1>5, <1>7 DEF ShownAs, HonestTo, BusyWith
  <1> QED
    BY <1>6, <1>8

\* A waiter the grant can not be sent to is dead.
LEMMA AbortedIsGone ==
  ASSUME LockerTypeOK, NEW H, NEW W, Honest(H, W), Scanning, NEW c \in W, c \in Conn,
         ScanAbort(c)
  PROVE  conn[c] = "open" /\ peer[c] = "gone"
  <1>1. HonestTo(c, H, W) /\ thread = "loop"
    BY DEF Honest, Scanning
  <1>2. conn[c] = "open" /\ peer[c] # "none"
    BY <1>1 DEF HonestTo
  <1>3. peer[c] \notin {"up", "closing"}
    BY <1>2 DEF ScanAbort, SendRc
  <1> QED
    BY <1>2, <1>3 DEF LockerTypeOK, PeerState

\* It leaves the queue; its node in the status tree stays until it is cleaned.
LEMMA HonestScanAbort ==
  ASSUME LockerTypeOK, NEW H, NEW W, Honest(H, W), Scanning, NEW c \in W, c \in Conn,
         ScanAbort(c), NEW V, V = W \ {c}
  PROVE  Honest(H, V)'
  <1>1. conn[c] = "open" /\ peer[c] = "gone"
    BY AbortedIsGone
  <1>2. SUFFICES ASSUME NEW d \in Conn
                 PROVE  HonestTo(d, H, V)' /\ ShownAs(d, H, V)'
    BY DEF Honest
  <1>3. HonestTo(d, H, W) /\ ShownAs(d, H, W)
    BY DEF Honest
  <1>4. job # Idle /\ job.path # "reclean" /\ thread = "loop"
    BY DEF Scanning
  <1>5. UNCHANGED <<peer, inbox, answer, vfs>>
    BY DEF ScanAbort
  <1>6. CASE job.path = "unlock"
    <2>1. /\ job' = [path |-> "reclean", conn |-> job.conn, i |-> 1]
          /\ UNCHANGED <<conn, thread>>
      BY <1>6 DEF ScanAbort
    <2>2. job'.path = "reclean" /\ job'.conn = job.conn
      BY <2>1
    <2>3. BusyWith(d)' <=> BusyWith(d)
      BY <1>4, <1>6, <2>1, <2>2 DEF BusyWith, Idle
    <2>4. HonestTo(d, H, V)'
      BY <1>1, <1>3, <1>4, <1>5, <2>1, <2>2, <2>3 DEF HonestTo
    <2>5. ShownAs(d, H, V)'
      BY <1>1, <1>3, <1>4, <1>5, <2>1, <2>3 DEF ShownAs
    <2> QED
      BY <2>4, <2>5
  <1>7. CASE job.path # "unlock"
    <2>1. /\ job' = Idle /\ thread' = "dead"
          /\ conn' = [x \in Conn |-> IF conn[x] = "open" THEN "closed" ELSE conn[x]]
      BY <1>7 DEF ScanAbort
    <2>2. conn'[d] = IF conn[d] = "open" THEN "closed" ELSE conn[d]
      BY <2>1
    <2>3. HonestTo(d, H, V)'
      BY <1>3, <1>5, <2>1, <2>2 DEF HonestTo, BusyWith
    <2> QED
      BY <2>1, <2>3 DEF ShownAs
  <1> QED
    BY <1>6, <1>7

-------------------------------------------------------------------------------
(* Lists of records with a field conn, no two of the same connection. *)

\* A record taken out takes its connection with it.
LEMMA RemovedConn ==
  ASSUME NEW S, NEW s \in Seq(S), Distinct(s), NEW k \in DOMAIN s
  PROVE  /\ Distinct(RemoveAt(s, k))
         /\ Conns(RemoveAt(s, k)) = Conns(s) \ {s[k].conn}
  <1> DEFINE new == RemoveAt(s, k)
             From(j) == IF j < k THEN j ELSE j + 1
  <1>1. Len(s) \in Nat /\ DOMAIN s = 1..Len(s)
    BY LenProperties
  <1>2. /\ DOMAIN new = 1..(Len(s) - 1)
        /\ \A j \in 1..(Len(s) - 1) : new[j] = IF j < k THEN s[j] ELSE s[j + 1]
    BY RemoveAtProperties
  <1> HIDE DEF new
  <1>3. \A j \in DOMAIN new : From(j) \in DOMAIN s /\ From(j) # k /\ new[j] = s[From(j)]
    BY <1>1, <1>2
  <1>4. \A i, j \in DOMAIN new : From(i) = From(j) => i = j
    BY <1>1, <1>2
  <1>5. \A i \in DOMAIN s : i # k => \E j \in DOMAIN new : From(j) = i
    <2> SUFFICES ASSUME NEW i \in DOMAIN s, i # k
                 PROVE  \E j \in DOMAIN new : From(j) = i
      OBVIOUS
    <2>1. CASE i < k
      <3>1. i \in DOMAIN new /\ From(i) = i
        BY <1>1, <1>2, <2>1
      <3> QED
        BY <3>1
    <2>2. CASE ~(i < k)
      <3>1. i - 1 \in DOMAIN new /\ From(i - 1) = i
        BY <1>1, <1>2, <2>2
      <3> QED
        BY <3>1
    <2> QED
      BY <2>1, <2>2
  <1> HIDE DEF From
  <1>6. Distinct(new)
    BY <1>3, <1>4 DEF Distinct
  <1>7. Conns(new) \subseteq Conns(s) \ {s[k].conn}
    BY <1>3 DEF Conns, Distinct
  <1>8. Conns(s) \ {s[k].conn} \subseteq Conns(new)
    BY <1>3, <1>5 DEF Conns
  <1> QED
    BY <1>6, <1>7, <1>8 DEF new

\* A record put in front brings its connection.
LEMMA PrependedConn ==
  ASSUME NEW S, NEW s \in Seq(S), Distinct(s), NEW e \in S, e.conn \notin Conns(s)
  PROVE  /\ Distinct(<<e>> \o s)
         /\ Conns(<<e>> \o s) = Conns(s) \cup {e.conn}
  <1> DEFINE new == <<e>> \o s
  <1>1. Len(s) \in Nat /\ DOMAIN s = 1..Len(s)
    BY LenProperties
  <1>2. /\ DOMAIN new = 1..(Len(s) + 1)
        /\ \A j \in 1..(Len(s) + 1) : new[j] = IF j = 1 THEN e ELSE s[j - 1]
    BY PrependProperties
  <1> HIDE DEF new
  <1>3. \A j \in DOMAIN new : j = 1 \/ (j - 1 \in DOMAIN s /\ new[j] = s[j - 1])
    BY <1>1, <1>2
  <1>4. \A j \in DOMAIN s : j + 1 \in DOMAIN new /\ new[j + 1] = s[j]
    BY <1>1, <1>2
  <1>5. 1 \in DOMAIN new /\ new[1] = e
    BY <1>1, <1>2
  <1>6. ASSUME NEW i \in DOMAIN new, NEW j \in DOMAIN new, new[i].conn = new[j].conn
        PROVE  i = j
    <2>1. i \in Nat /\ j \in Nat
      BY <1>1, <1>2
    <2>2. CASE i = 1
      BY <1>3, <1>5, <1>6, <2>2 DEF Conns
    <2>3. CASE j = 1
      BY <1>3, <1>5, <1>6, <2>3 DEF Conns
    <2>4. CASE i # 1 /\ j # 1
      <3>1. i - 1 = j - 1
        BY <1>3, <1>6, <2>4 DEF Distinct
      <3> QED
        BY <2>1, <3>1
    <2> QED
      BY <2>2, <2>3, <2>4
  <1>7. Conns(new) \subseteq Conns(s) \cup {e.conn}
    BY <1>3, <1>5 DEF Conns
  <1>8. Conns(s) \cup {e.conn} \subseteq Conns(new)
    BY <1>4, <1>5 DEF Conns
  <1> QED
    BY <1>6, <1>7, <1>8 DEF new, Distinct

\* The same of a record put at the end.
LEMMA AppendedConn ==
  ASSUME NEW S, NEW s \in Seq(S), Distinct(s), NEW e \in S, e.conn \notin Conns(s)
  PROVE  /\ Distinct(Append(s, e))
         /\ Conns(Append(s, e)) = Conns(s) \cup {e.conn}
  <1> DEFINE new == Append(s, e)
             last == Len(s) + 1
  <1>1. Len(s) \in Nat /\ DOMAIN s = 1..Len(s)
    BY LenProperties
  <1>2. /\ DOMAIN new = 1..(Len(s) + 1)
        /\ \A j \in 1..(Len(s) + 1) : new[j] = IF j = Len(s) + 1 THEN e ELSE s[j]
    BY AppendedProperties
  <1> HIDE DEF new
  <1>3. \A j \in DOMAIN new : j = last \/ (j \in DOMAIN s /\ new[j] = s[j])
    BY <1>1, <1>2
  <1>4. \A j \in DOMAIN s : j \in DOMAIN new /\ new[j] = s[j]
    BY <1>1, <1>2
  <1>5. last \in DOMAIN new /\ new[last] = e
    BY <1>1, <1>2
  <1> HIDE DEF last
  <1>6. Distinct(new)
    BY <1>3, <1>5 DEF Distinct, Conns
  <1>7. Conns(new) \subseteq Conns(s) \cup {e.conn}
    BY <1>3, <1>5 DEF Conns
  <1>8. Conns(s) \cup {e.conn} \subseteq Conns(new)
    BY <1>4, <1>5 DEF Conns
  <1> QED
    BY <1>6, <1>7, <1>8 DEF new

\* Whose record is in the list.
LEMMA HasEntryConns ==
  ASSUME NEW s, NEW c
  PROVE  HasEntry(s, c) <=> c \in Conns(s)
  BY DEF HasEntry, Conns

\* The records of a list are records of connections.
LEMMA ConnsType ==
  ASSUME NEW S, NEW s \in Seq(S), \A e \in S : e.conn \in Conn
  PROVE  Conns(s) \subseteq Conn
  <1>1. \A k \in DOMAIN s : s[k] \in S
    BY ElementOfSeq, LenProperties
  <1> QED
    BY <1>1 DEF Conns

-------------------------------------------------------------------------------
(* The resources without a timeout callback. *)

\* No scan is started by a timeout.
NoTimeout == job # Idle => job.path # "timeout"

\* No step starts one, if the resource does not.
LEMMA NoTimeoutStep ==
  ASSUME LockerTypeOK, NoTimeout,
         \/ \E verbs : Peers(verbs)
         \/ \E c, rc : Reply(c, rc)
         \/ \E c : \E path \in CleanPath : StartScan(c, path) \/ EndClean(c, path)
         \/ Scanning /\ (ScanEnd \/ ScanSkip \/ \E c : ScanGrant(c) \/ ScanAbort(c))
         \/ UNCHANGED job
  PROVE  NoTimeout'
  <1>1. CASE UNCHANGED job
    BY <1>1 DEF NoTimeout
  <1>2. CASE \E verbs : Peers(verbs)
    BY <1>1, <1>2 DEF Peers, Transfer, RetryLock, Unlock, Disconnect, Crash
  <1>3. ASSUME NEW c, NEW rc, Reply(c, rc)
        PROVE  NoTimeout'
    <2>1. job' = job \/ job' = [path |-> "reclean", conn |-> c, i |-> 1]
      BY <1>3 DEF Reply
    <2> QED
      BY <1>1, <2>1 DEF NoTimeout
  <1>4. ASSUME NEW c, NEW path \in CleanPath, StartScan(c, path) \/ EndClean(c, path)
        PROVE  NoTimeout'
    <2>1. job' = Idle \/ job' = [path |-> path, conn |-> c, i |-> 1]
      BY <1>4 DEF StartScan, EndClean
    <2> QED
      BY <2>1 DEF NoTimeout, CleanPath
  <1>5. CASE Scanning /\ (ScanEnd \/ ScanSkip \/ \E c : ScanGrant(c) \/ ScanAbort(c))
    <2>1. job \in [path : {"unlock", "error", "second", "reclean", "timeout"},
                   conn : Conn, i : Nat]
      BY <1>5, JobFields DEF Scanning
    <2>2. \/ job' = Idle \/ job' = job \/ job' = [job EXCEPT !.i = @ + 1]
          \/ job' = [path |-> "reclean", conn |-> job.conn, i |-> 1]
      BY <1>5 DEF ScanEnd, ScanSkip, ScanGrant, ScanAbort
    <2>3. job' = [job EXCEPT !.i = @ + 1] => job'.path = job.path
      BY <2>1
    <2> QED
      BY <1>5, <2>2, <2>3 DEF NoTimeout, Scanning
  <1> QED
    BY <1>1, <1>2, <1>3, <1>4, <1>5
===============================================================================
