----------------------------- MODULE ClientProofs -----------------------------
(***************************************************************************)
(* Proofs about the client's side, in two parts.                           *)
(*                                                                         *)
(* Session, for any number of handles, connections, names, settings and    *)
(* crashes: what a program believes about its locks is what the daemon     *)
(* has, and the daemon has no record of a client that is gone or was       *)
(* refused.                                                                *)
(*                                                                         *)
(* Startup, for any number of clients, any configurations and any number   *)
(* of kills: daemons are where their clients look for them, and clients of *)
(* one path or port that are served are served by one daemon.              *)
(***************************************************************************)
EXTENDS Session, Startup, SequenceTheorems, FiniteSetTheorems, WellFoundedInduction, TLAPS

\* The handle and the socket it uses.
HandleSound(h) ==
  /\ opened[h] <= locks[h] /\ locks[h] <= MaxLocks[h]
  /\ state[h] = "INIT" => opened[h] = 0
  /\ state[h] \in {"CONNECTED", "LOCKED"} => opened[h] > 0
  /\ call[h] # "none" => state[h] = "CONNECTED"
  /\ call[h] \in {"lock", "wait"} => end[Current(h)] = "open"
  /\ call[h] = "none" /\ state[h] \in {"CONNECTED", "LOCKED"} => end[Current(h)] = "open"

\* What the handle asked for last is what was asked on its connection, if that was
\* asked once and the daemon has not closed it.
Remembered(h) ==
  opened[h] > 0 /\ Len(asked[Current(h)]) = 1 /\ server[Current(h)] # "closed" =>
    asked[Current(h)][1] = request[h]

Asked(c, r) == \E j \in DOMAIN asked[c] : asked[c][j] = r

\* A connection nobody has opened yet is untouched, and LOCK is the first thing sent
\* on one that has been; UNLOCK is sent after the socket has been half closed and
\* never reaches the main thread; what the daemon has of a request is what was asked.
SocketSound(c) ==
  /\ c[2] > opened[c[1]] =>
       /\ end[c] = "none" /\ server[c] = "none"
       /\ up[c] = <<>> /\ down[c] = <<>> /\ asked[c] = <<>>
  /\ asked[c] = <<>> => c[2] > opened[c[1]]
  /\ end[c] = "open" \/ server[c] = "main" => \A k \in DOMAIN up[c] : up[c][k].verb = "LOCK"
  /\ \A k \in DOMAIN up[c] : up[c][k].verb = "LOCK" => Asked(c, up[c][k].req)

\* The request a connection carries to its locker.  One that does not wait leaves the
\* incubator only with its sending half shut down, or when its client has left.
MsgSound(c) ==
  /\ server[c] \in Name => \E j \in DOMAIN asked[c] : asked[c][j].name = server[c]
  /\ msg[c] # NoMsg =>
       /\ server[c] \in Name \cup {"main"}
       /\ Asked(c, msg[c].req)
       /\ msg[c].step = 24 /\ msg[c].req.timeout = "zero" => hup[c] \/ end[c] # "open"

\* What the main thread has closed and not removed is a client that has left; a locker
\* that has taken such a connection from its pipe has left its loop.
NullSound(c) ==
  c \in null_fd =>
    /\ end[c] # "open"
    /\ server[c] \in Name \cup {"main"}
    /\ server[c] \in Name /\ msg[c] = NoMsg => thread[server[c]] # "loop"

\* The pipe of a locker holds its connections, with their messages, once.
PipeSound(n) ==
  /\ \A k \in DOMAIN pipe[n] : server[pipe[n][k]] = n /\ msg[pipe[n][k]] # NoMsg
  /\ \A j, k \in DOMAIN pipe[n] : pipe[n][j] = pipe[n][k] => j = k

\* A locker has records of its connections, and of those it has closed, for what
\* they asked.
RecordSound(list, n) ==
  \A k \in DOMAIN list[n] :
    /\ server[list[n][k].conn] \in {n, "closed"}
    /\ \E j \in DOMAIN asked[list[n][k].conn] :
         asked[list[n][k].conn][j].quantity = list[n][k].quantity

Recorded(c) == \E n \in Name : Has(holders, n, c) \/ Has(waitings, n, c)
Stray(c) == \E n \in Name : thread[n] = "loop" /\ (Has(holders, n, c) \/ Has(waitings, n, c))
Unread(c) == \E k \in DOMAIN up[c] : up[c][k].verb = "LOCK"

\* The same of a list of records.
HasConn(s, c) == \E k \in DOMAIN s : s[k].conn = c
OnceFor(s, c) == \A j, k \in DOMAIN s : s[j].conn = c /\ s[k].conn = c => j = k

\* A LOCK that is the only one of its connection is in one place: on its way to the
\* daemon, in the hands of the main thread or in a pipe, or in one record of a
\* locker that has the connection, or has failed.
Once(c) ==
  /\ \A j, k \in DOMAIN up[c] : up[c][j].verb = "LOCK" /\ up[c][k].verb = "LOCK" => j = k
  /\ Unread(c) => msg[c] = NoMsg
  /\ Unread(c) \/ msg[c] # NoMsg => ~Recorded(c)
  /\ server[c] = "closed" => ~Stray(c)
  /\ \A n \in Name : /\ OnceFor(holders[n], c) /\ OnceFor(waitings[n], c)
                     /\ ~(Has(holders, n, c) /\ Has(waitings, n, c))

Refusal(a) == a.step = 16 /\ a.rc \in {"BUSY", "IMPOSSIBLE", "CANT_WAIT"}

\* The client has been, or will be, told that it can not have the lock.
IsRefused(c) ==
  \/ \E k \in DOMAIN down[c] : Refusal(down[c][k])
  \/ result[c[1]] = "REFUSED" /\ c[2] = opened[c[1]]

\* Then the request is nowhere in the daemon, or on its way to it.
Dropped(c) == IsRefused(c) => ~Unread(c) /\ msg[c] = NoMsg /\ ~Recorded(c)

Single(c) == Len(asked[c]) <= 1

\* The answers from which a client concludes that it has the lock.
Grants(a) == a.rc = "OK" \/ (a.step = 24 /\ a.rc # "ENQUEUED")

\* The client has concluded so, or will.
IsGranted(c) ==
  \/ \E k \in DOMAIN down[c] : Grants(down[c][k])
  \/ state[c[1]] = "LOCKED" /\ c[2] = opened[c[1]]

\* Then a locker has the record, as long as the client does not leave and the daemon
\* has the connection.
HeldSound(c) ==
  end[c] = "open" /\ IsGranted(c) =>
    /\ server[c] \in Name \cup {"closed"}
    /\ server[c] \in Name /\ Possible(c) => Has(holders, server[c], c)

ConnSound(c) ==
  /\ SocketSound(c) /\ MsgSound(c) /\ NullSound(c) /\ HeldSound(c)
  /\ Single(c) => Once(c) /\ Dropped(c)

\* A locker that scans its queue works, and still has the connection that it cleaned
\* for, or is to clean: its client has left.
ScanSound(n) ==
  scan[n] # NoScan =>
    /\ thread[n] = "loop"
    /\ scan[n].path # "error" =>
         /\ server[scan[n].conn] = n /\ msg[scan[n].conn] = NoMsg
         /\ end[scan[n].conn] # "open"

Handles == \A h \in Handle : HandleSound(h) /\ Remembered(h)
Conns == \A c \in Conn : ConnSound(c)
Pipes == \A n \in Name : PipeSound(n)
Records == \A n \in Name : RecordSound(holders, n) /\ RecordSound(waitings, n)
Scanned == \A n \in Name : ScanSound(n)
Committed == \A n \in Name : Sum(holders[n]) <= Total

\* The inductive invariant.
SessionInv == TypeOK /\ Handles /\ Conns /\ Pipes /\ Records /\ Scanned /\ Committed

-------------------------------------------------------------------------------
(***************************************************************************)
(* The operators on lists.                                                 *)
(***************************************************************************)

\* A record that is taken out of a list leaves the others in their order.
LEMMA RemoveAtProperties ==
  ASSUME NEW S, NEW s \in Seq(S), NEW k \in DOMAIN s
  PROVE  /\ RemoveAt(s, k) \in Seq(S)
         /\ Len(RemoveAt(s, k)) = Len(s) - 1
         /\ DOMAIN RemoveAt(s, k) = 1..(Len(s) - 1)
         /\ \A j \in 1..(Len(s) - 1) :
              RemoveAt(s, k)[j] = IF j < k THEN s[j] ELSE s[j + 1]
  <1> DEFINE front == SubSeq(s, 1, k - 1)
             back  == SubSeq(s, k + 1, Len(s))
  <1>1. k \in 1..Len(s) /\ Len(s) \in Nat
    BY LenProperties
  <1>2. /\ front \in Seq(S)
        /\ Len(front) = k - 1
        /\ \A j \in 1..(k - 1) : front[j] = s[j]
    BY <1>1
  <1>3. /\ back \in Seq(S)
        /\ Len(back) = Len(s) - k
        /\ \A j \in 1..(Len(s) - k) : back[j] = s[k + j]
    BY <1>1
  <1>4. RemoveAt(s, k) = front \o back
    BY DEF RemoveAt
  <1> HIDE DEF front, back
  <1>5. /\ front \o back \in Seq(S)
        /\ Len(front \o back) = Len(s) - 1
    BY <1>1, <1>2, <1>3, ConcatProperties
  <1>6. ASSUME NEW j \in 1..(Len(s) - 1)
        PROVE  (front \o back)[j] = IF j < k THEN s[j] ELSE s[j + 1]
    <2>1. (front \o back)[j] = IF j <= k - 1 THEN front[j] ELSE back[j - (k - 1)]
      BY <1>1, <1>2, <1>3, ConcatProperties
    <2>2. CASE j < k
      BY <1>1, <1>2, <2>1, <2>2
    <2>3. CASE ~(j < k)
      <3>1. j - (k - 1) \in 1..(Len(s) - k) /\ k + (j - (k - 1)) = j + 1
        BY <1>1, <2>3
      <3>2. QED BY <1>1, <1>3, <2>1, <2>3, <3>1
    <2>4. QED BY <2>2, <2>3
  <1>7. DOMAIN (front \o back) = 1..(Len(s) - 1)
    BY <1>5, LenProperties
  <1>8. QED BY <1>4, <1>5, <1>6, <1>7

\* A new holder comes first.
LEMMA PrependProperties ==
  ASSUME NEW S, NEW s \in Seq(S), NEW e \in S
  PROVE  /\ <<e>> \o s \in Seq(S)
         /\ Len(<<e>> \o s) = Len(s) + 1
         /\ DOMAIN (<<e>> \o s) = 1..(Len(s) + 1)
         /\ \A j \in 1..(Len(s) + 1) :
              (<<e>> \o s)[j] = IF j = 1 THEN e ELSE s[j - 1]
  <1>1. <<e>> \in Seq(S) /\ Len(<<e>>) = 1 /\ <<e>>[1] = e
    OBVIOUS
  <1>2. Len(s) \in Nat
    BY LenProperties
  <1>3. /\ <<e>> \o s \in Seq(S)
        /\ Len(<<e>> \o s) = Len(s) + 1
        /\ \A j \in 1..(1 + Len(s)) :
             (<<e>> \o s)[j] = IF j <= 1 THEN <<e>>[j] ELSE s[j - 1]
    BY <1>1, <1>2, ConcatProperties
  <1>4. DOMAIN (<<e>> \o s) = 1..(Len(s) + 1)
    BY <1>3, LenProperties
  <1>5. QED BY <1>1, <1>2, <1>3, <1>4

\* What is sent or enqueued comes last.
LEMMA AppendedProperties ==
  ASSUME NEW S, NEW s \in Seq(S), NEW e \in S
  PROVE  /\ Append(s, e) \in Seq(S)
         /\ Len(Append(s, e)) = Len(s) + 1
         /\ DOMAIN Append(s, e) = 1..(Len(s) + 1)
         /\ \A j \in 1..(Len(s) + 1) : Append(s, e)[j] = IF j = Len(s) + 1 THEN e ELSE s[j]
  <1>1. Append(s, e) \in Seq(S) /\ Len(Append(s, e)) = Len(s) + 1
    BY AppendProperties
  <1>2. DOMAIN Append(s, e) = 1..(Len(s) + 1)
    BY <1>1, LenProperties
  <1>3. \A j \in 1..(Len(s) + 1) : Append(s, e)[j] = IF j = Len(s) + 1 THEN e ELSE s[j]
    BY LenProperties, AppendProperties
  <1> QED
    BY <1>1, <1>2, <1>3

\* What is read is the first message.
LEMMA ReadProperties ==
  ASSUME NEW S, NEW s \in Seq(S), s # <<>>
  PROVE  /\ Head(s) \in S /\ Head(s) = s[1] /\ 1 \in DOMAIN s
         /\ Tail(s) \in Seq(S)
         /\ Len(Tail(s)) = Len(s) - 1
         /\ DOMAIN Tail(s) = 1..(Len(s) - 1)
         /\ \A j \in 1..(Len(s) - 1) : Tail(s)[j] = s[j + 1] /\ j + 1 \in DOMAIN s
  <1>1. Len(s) \in Nat /\ Len(s) # 0 /\ DOMAIN s = 1..Len(s)
    BY LenProperties, EmptySeq
  <1>2. /\ Head(s) \in S /\ Tail(s) \in Seq(S) /\ Len(Tail(s)) = Len(s) - 1
        /\ \A i \in 1..Len(Tail(s)) : Tail(s)[i] = s[i + 1]
    BY HeadTailProperties
  <1>3. DOMAIN Tail(s) = 1..(Len(s) - 1)
    BY <1>2, LenProperties
  <1>4. Head(s) = s[1]
    OBVIOUS
  <1> QED
    BY <1>1, <1>2, <1>3, <1>4

\* A set of numbers that is not empty has a least one.
LEMMA LeastElement ==
  ASSUME NEW D, D \subseteq Nat, D # {}
  PROVE  \E x \in D : \A y \in D : x <= y
  <1> DEFINE R == OpToRel(<, Nat)
  <1>1. IsWellFoundedOn(R, Nat)
    BY NatLessThanWellFounded, Zenon
  <1>2. \A x, y \in Nat : x < y => <<x, y>> \in R
    BY DEF OpToRel
  <1> HIDE DEF R
  <1>3. PICK x \in D : \A y \in D : ~(<<y, x>> \in R)
    BY <1>1, WFMin
  <1>4. ASSUME NEW y \in D PROVE x <= y
    <2>1. x \in Nat /\ y \in Nat /\ ~(y < x)
      BY <1>2, <1>3
    <2> QED
      BY <2>1
  <1> QED
    BY <1>4

\* The first record of a connection, if it has one.
LEMMA FirstOfProperties ==
  ASSUME NEW s \in Seq(Entry), NEW c
  PROVE  \/ FirstOf(s, c) = 0 /\ \A k \in DOMAIN s : s[k].conn # c
         \/ FirstOf(s, c) # 0 /\ FirstOf(s, c) \in DOMAIN s /\ s[FirstOf(s, c)].conn = c
  <1> DEFINE I == {i \in 1..Len(s) : s[i].conn = c}
  <1>1. Len(s) \in Nat /\ DOMAIN s = 1..Len(s)
    BY LenProperties
  <1>2. FirstOf(s, c) = IF I # {} THEN Min(I) ELSE 0
    BY DEF FirstOf, SelectInSeq
  <1>3. CASE I = {}
    BY <1>1, <1>2, <1>3
  <1>4. CASE I # {}
    <2>0. I \subseteq Nat
      BY <1>1
    <2>1. \E x \in I : \A y \in I : x <= y
      BY <1>4, <2>0, LeastElement
    <2>2. Min(I) \in I
      BY <2>1 DEF Min
    <2> QED
      BY <1>1, <1>2, <1>4, <2>2
  <1> QED
    BY <1>3, <1>4

\* The list of a finite set: it has members of the set only, and none twice.
LEMMA SetToSeqProperties ==
  ASSUME NEW S, IsFiniteSet(S)
  PROVE  /\ SetToSeq(S) \in Seq(S)
         /\ \A j, k \in DOMAIN SetToSeq(S) : SetToSeq(S)[j] = SetToSeq(S)[k] => j = k
  <1>1. Cardinality(S) \in Nat /\ ExistsBijection(1..Cardinality(S), S)
    BY FS_CardinalityType
  <1>2. PICK f \in [1..Cardinality(S) -> S] :
          \A j, k \in 1..Cardinality(S) : f[j] = f[k] => j = k
    BY <1>1 DEF ExistsBijection, Bijection, Injection, IsInjective
  <1>3. IsInjective(f)
    BY <1>2 DEF IsInjective
  <1>4. SetToSeq(S) \in [1..Cardinality(S) -> S] /\ IsInjective(SetToSeq(S))
    BY <1>3 DEF SetToSeq
  <1> QED
    BY <1>1, <1>4 DEF IsInjective

-------------------------------------------------------------------------------
(***************************************************************************)
(* Sums of quantities.                                                     *)
(***************************************************************************)

\* f[k] is what the first k records of s have taken.
Sums(f, s, n) ==
  /\ f \in [0..n -> Nat]
  /\ f[0] = 0
  /\ \A k \in 1..n : f[k] = f[k - 1] + s[k].quantity

LEMMA EntryFields ==
  ASSUME NEW s \in Seq(Entry), NEW k \in DOMAIN s
  PROVE  s[k].conn \in Conn /\ s[k].quantity \in Nat
  <1>1. s[k] \in Entry
    BY ElementOfSeq
  <1> QED
    BY <1>1 DEF Entry

LEMMA SumsExist ==
  ASSUME NEW s \in Seq(Entry)
  PROVE  \E f : Sums(f, s, Len(s))
  <1> DEFINE D == {n \in 0..Len(s) : ~\E f : Sums(f, s, n)}
  <1>1. Len(s) \in Nat /\ DOMAIN s = 1..Len(s)
    BY LenProperties
  <1>2. SUFFICES ASSUME D # {} PROVE FALSE
    BY <1>1
  <1>3. D \subseteq Nat
    BY <1>1
  <1>4. PICK m \in D : \A y \in D : m <= y
    BY <1>2, <1>3, LeastElement
  <1>5. m \in Nat /\ m <= Len(s) /\ ~\E f : Sums(f, s, m)
    BY <1>1, <1>4
  <1>6. CASE m = 0
    <2>1. PICK f : f = [k \in 0..0 |-> 0]
      OBVIOUS
    <2>2. Sums(f, s, 0)
      BY <2>1 DEF Sums
    <2> QED
      BY <1>5, <1>6, <2>2
  <1>7. CASE m # 0
    <2>1. m - 1 \in 0..Len(s) /\ m - 1 \notin D
      BY <1>1, <1>4, <1>5, <1>7
    <2>2. PICK f : Sums(f, s, m - 1)
      BY <2>1
    <2>3. PICK g : g = [k \in 0..m |-> IF k = m THEN f[m - 1] + s[m].quantity ELSE f[k]]
      OBVIOUS
    <2>4. s[m].quantity \in Nat
      BY <1>1, <1>5, <1>7, EntryFields
    <2>5. f \in [0..(m - 1) -> Nat] /\ f[m - 1] \in Nat
      BY <1>5, <1>7, <2>2 DEF Sums
    <2>6. g \in [0..m -> Nat]
      BY <1>5, <1>7, <2>3, <2>4, <2>5
    <2>7. g[0] = 0
      BY <1>5, <1>7, <2>2, <2>3 DEF Sums
    <2>8. ASSUME NEW k \in 1..m PROVE g[k] = g[k - 1] + s[k].quantity
      <3>1. CASE k = m
        BY <1>5, <1>7, <2>3, <3>1
      <3>2. CASE k # m
        <4>1. k \in 1..(m - 1) /\ k \in 0..m /\ k - 1 \in 0..m /\ k - 1 # m
          BY <1>5, <3>2
        <4>2. f[k] = f[k - 1] + s[k].quantity
          BY <4>1, <2>2 DEF Sums
        <4> QED
          BY <2>3, <3>2, <4>1, <4>2
      <3> QED
        BY <3>1, <3>2
    <2>9. Sums(g, s, m)
      BY <2>6, <2>7, <2>8 DEF Sums
    <2> QED
      BY <1>5, <2>9
  <1> QED
    BY <1>6, <1>7

LEMMA SumProperties ==
  ASSUME NEW s \in Seq(Entry)
  PROVE  \E f : Sums(f, s, Len(s)) /\ Sum(s) = f[Len(s)]
  <1> DEFINE rec(f) == f = [k \in 0..Len(s) |-> IF k = 0 THEN 0 ELSE f[k - 1] + s[k].quantity]
             upTo == CHOOSE f : rec(f)
  <1>1. Len(s) \in Nat
    BY LenProperties
  <1>2. PICK g : Sums(g, s, Len(s))
    BY SumsExist
  <1>3. rec(g)
    BY <1>1, <1>2 DEF Sums
  <1>4. rec(upTo)
    BY <1>3, Zenon
  <1>5. Sum(s) = upTo[Len(s)]
    BY DEF Sum
  <1> HIDE DEF upTo
  <1>6. \A k \in 0..Len(s) : upTo[k] = IF k = 0 THEN 0 ELSE upTo[k - 1] + s[k].quantity
    BY <1>4
  <1>7. ASSUME NEW k \in 0..Len(s) PROVE upTo[k] = g[k]
    <2> DEFINE D == {j \in 0..Len(s) : upTo[j] # g[j]}
    <2>1. SUFFICES ASSUME D # {} PROVE FALSE
      OBVIOUS
    <2>2. D \subseteq Nat
      BY <1>1
    <2>3. PICK m \in D : \A y \in D : m <= y
      BY <2>1, <2>2, LeastElement
    <2>4. m \in 0..Len(s) /\ upTo[m] # g[m]
      BY <2>3
    <2>5. m # 0
      BY <1>1, <1>2, <1>6, <2>4 DEF Sums
    <2>6. m - 1 \in 0..Len(s) /\ m \in 1..Len(s) /\ m - 1 \notin D
      BY <1>1, <2>2, <2>3, <2>4, <2>5
    <2>7. upTo[m - 1] = g[m - 1]
      BY <2>6
    <2>8. g[m] = g[m - 1] + s[m].quantity
      BY <1>2, <2>6 DEF Sums
    <2>9. upTo[m] = upTo[m - 1] + s[m].quantity
      BY <1>6, <2>4, <2>5
    <2> QED
      BY <2>4, <2>7, <2>8, <2>9
  <1> QED
    BY <1>1, <1>2, <1>5, <1>7

LEMMA SumType ==
  ASSUME NEW s \in Seq(Entry)
  PROVE  Sum(s) \in Nat
  BY SumProperties, LenProperties DEF Sums

LEMMA SumEmpty == Sum(<<>>) = 0
  <1>1. <<>> \in Seq(Entry) /\ Len(<<>>) = 0
    OBVIOUS
  <1> QED
    BY <1>1, SumProperties DEF Sums

\* Two counts that start and grow alike end alike.
LEMMA CountsAgree ==
  ASSUME NEW m \in Nat, NEW F, NEW G, \A k \in 0..m : F[k] \in Nat /\ G[k] \in Nat,
         F[0] = G[0], \A k \in 1..m : F[k] - F[k - 1] = G[k] - G[k - 1]
  PROVE  F[m] = G[m]
  <1> DEFINE D == {k \in 0..m : F[k] # G[k]}
  <1>1. SUFFICES ASSUME D # {} PROVE FALSE
    OBVIOUS
  <1>2. D \subseteq Nat
    OBVIOUS
  <1>3. PICK x \in D : \A y \in D : x <= y
    BY <1>1, <1>2, LeastElement
  <1>4. x \in 1..m /\ x - 1 \in 0..m /\ x - 1 \notin D
    BY <1>2, <1>3
  <1>5. F[x - 1] = G[x - 1] /\ F[x] # G[x] /\ F[x] - F[x - 1] = G[x] - G[x - 1]
    BY <1>3, <1>4
  <1>6. F[x] \in Nat /\ G[x] \in Nat /\ F[x - 1] \in Nat /\ G[x - 1] \in Nat
    BY <1>4
  <1> QED
    BY <1>5, <1>6

\* A new holder takes its units.
LEMMA SumPrepended ==
  ASSUME NEW s \in Seq(Entry), NEW e \in Entry
  PROVE  Sum(<<e>> \o s) = e.quantity + Sum(s)
  <1>1. PICK t : t = <<e>> \o s
    OBVIOUS
  <1>2. /\ t \in Seq(Entry) /\ Len(t) = Len(s) + 1
        /\ \A j \in 1..(Len(s) + 1) : t[j] = IF j = 1 THEN e ELSE s[j - 1]
    BY <1>1, PrependProperties
  <1>3. Len(s) \in Nat /\ e.quantity \in Nat
    BY LenProperties DEF Entry
  <1>4. PICK f : Sums(f, s, Len(s)) /\ Sum(s) = f[Len(s)]
    BY SumProperties
  <1>5. PICK g : Sums(g, t, Len(t)) /\ Sum(t) = g[Len(t)]
    BY <1>2, SumProperties
  <1>6. PICK F : F = [k \in 0..Len(s) |-> g[k + 1]]
    OBVIOUS
  <1>7. PICK G : G = [k \in 0..Len(s) |-> e.quantity + f[k]]
    OBVIOUS
  <1>a. /\ \A k \in 0..Len(s) : f[k] \in Nat
        /\ \A k \in 0..(Len(s) + 1) : g[k] \in Nat
    BY <1>2, <1>4, <1>5 DEF Sums
  <1>8. \A k \in 0..Len(s) : F[k] \in Nat /\ G[k] \in Nat
    <2> SUFFICES ASSUME NEW k \in 0..Len(s) PROVE F[k] \in Nat /\ G[k] \in Nat
      OBVIOUS
    <2>1. k + 1 \in 0..(Len(s) + 1)
      BY <1>3
    <2>2. F[k] = g[k + 1] /\ G[k] = e.quantity + f[k]
      BY <1>6, <1>7
    <2>3. g[k + 1] \in Nat /\ f[k] \in Nat
      BY <1>a, <2>1
    <2> QED
      BY <1>3, <2>2, <2>3
  <1>9. F[0] = G[0]
    <2>1. g[1] = g[0] + t[1].quantity /\ g[0] = 0 /\ t[1] = e
      BY <1>2, <1>3, <1>5 DEF Sums
    <2> QED
      BY <1>3, <1>4, <1>6, <1>7, <2>1 DEF Sums
  <1>10. ASSUME NEW k \in 1..Len(s) PROVE F[k] - F[k - 1] = G[k] - G[k - 1]
    <2>1. k \in 0..Len(s) /\ k - 1 \in 0..Len(s) /\ k + 1 \in 1..Len(t) /\ (k + 1) - 1 = k
      BY <1>2, <1>3
    <2>2. t[k + 1] = s[k]
      BY <1>2, <1>3, <2>1
    <2>3. g[k + 1] = g[k] + s[k].quantity
      BY <1>5, <2>1, <2>2 DEF Sums
    <2>4. f[k] = f[k - 1] + s[k].quantity
      BY <1>4, <2>1 DEF Sums
    <2>5. /\ F[k] = g[k + 1] /\ F[k - 1] = g[k]
          /\ G[k] = e.quantity + f[k] /\ G[k - 1] = e.quantity + f[k - 1]
      BY <1>6, <1>7, <2>1
    <2>6. s[k].quantity \in Nat /\ g[k] \in Nat /\ f[k - 1] \in Nat
      <3>1. k \in DOMAIN s /\ k \in 0..(Len(s) + 1)
        BY <1>3, LenProperties
      <3> QED
        BY <1>a, <2>1, <3>1, EntryFields
    <2> QED
      BY <1>3, <2>3, <2>4, <2>5, <2>6
  <1>11. F[Len(s)] = G[Len(s)]
    BY <1>3, <1>8, <1>9, <1>10, CountsAgree
  <1> QED
    BY <1>1, <1>2, <1>3, <1>4, <1>5, <1>6, <1>7, <1>11

\* A record that is taken out gives its units back.
LEMMA SumRemoved ==
  ASSUME NEW s \in Seq(Entry), NEW i \in DOMAIN s
  PROVE  Sum(s) = Sum(RemoveAt(s, i)) + s[i].quantity
  <1>1. PICK t : t = RemoveAt(s, i)
    OBVIOUS
  <1>2. /\ t \in Seq(Entry) /\ Len(t) = Len(s) - 1
        /\ \A j \in 1..(Len(s) - 1) : t[j] = IF j < i THEN s[j] ELSE s[j + 1]
    BY <1>1, RemoveAtProperties
  <1>3. Len(s) \in Nat /\ i \in 1..Len(s) /\ DOMAIN s = 1..Len(s) /\ s[i].quantity \in Nat
    BY LenProperties, EntryFields
  <1>4. PICK f : Sums(f, s, Len(s)) /\ Sum(s) = f[Len(s)]
    BY SumProperties
  <1>5. PICK g : Sums(g, t, Len(t)) /\ Sum(t) = g[Len(t)]
    BY <1>2, SumProperties
  <1>6. PICK F : F = [k \in 0..Len(s) |-> IF k < i THEN g[k] ELSE g[k - 1] + s[i].quantity]
    OBVIOUS
  <1>7. /\ \A k \in 0..Len(s) : f[k] \in Nat
        /\ \A k \in 0..(Len(s) - 1) : g[k] \in Nat
    BY <1>2, <1>3, <1>4, <1>5 DEF Sums
  <1>8. ASSUME NEW k \in 0..Len(s) PROVE F[k] \in Nat /\ f[k] \in Nat
    <2>1. f[k] \in Nat
      BY <1>7
    <2>2. CASE k < i
      <3>1. F[k] = g[k] /\ k \in 0..(Len(s) - 1)
        BY <1>3, <1>6, <2>2
      <3> QED
        BY <1>7, <2>1, <3>1
    <2>3. CASE ~(k < i)
      <3>1. F[k] = g[k - 1] + s[i].quantity /\ k - 1 \in 0..(Len(s) - 1)
        BY <1>3, <1>6, <2>3
      <3>2. g[k - 1] \in Nat
        BY <1>7, <3>1
      <3> QED
        BY <1>3, <2>1, <3>1, <3>2
    <2> QED
      BY <2>2, <2>3
  <1>9. F[0] = f[0]
    BY <1>3, <1>4, <1>5, <1>6 DEF Sums
  <1>10. ASSUME NEW k \in 1..Len(s) PROVE F[k] - F[k - 1] = f[k] - f[k - 1]
    <2>1. k \in 0..Len(s) /\ k - 1 \in 0..Len(s) /\ s[k].quantity \in Nat
      BY <1>3, EntryFields
    <2>2. f[k] = f[k - 1] + s[k].quantity
      BY <1>4, <2>1 DEF Sums
    <2>3. CASE k < i
      <3>1. k \in 1..Len(t) /\ t[k] = s[k] /\ k \in 0..(Len(s) - 1) /\ k - 1 \in 0..(Len(s) - 1)
        BY <1>2, <1>3, <2>3
      <3>2. g[k] = g[k - 1] + s[k].quantity
        BY <1>5, <3>1 DEF Sums
      <3>3. F[k] = g[k] /\ F[k - 1] = g[k - 1]
        BY <1>3, <1>6, <2>1, <2>3
      <3>4. g[k - 1] \in Nat /\ f[k - 1] \in Nat
        BY <1>7, <2>1, <3>1
      <3>5. F[k] - F[k - 1] = s[k].quantity
        BY <2>1, <3>2, <3>3, <3>4
      <3>6. f[k] - f[k - 1] = s[k].quantity
        BY <2>1, <2>2, <3>4
      <3> QED
        BY <3>5, <3>6
    <2>4. CASE k = i
      <3>1. F[k] = g[k - 1] + s[i].quantity /\ F[k - 1] = g[k - 1]
        BY <1>3, <1>6, <2>1, <2>4
      <3>2. k - 1 \in 0..(Len(s) - 1)
        BY <1>3
      <3>3. g[k - 1] \in Nat /\ f[k - 1] \in Nat
        BY <1>7, <2>1, <3>2
      <3>4. F[k] - F[k - 1] = s[k].quantity
        BY <2>1, <2>4, <3>1, <3>3
      <3>5. f[k] - f[k - 1] = s[k].quantity
        BY <2>1, <2>2, <3>3
      <3> QED
        BY <3>4, <3>5
    <2>5. CASE k > i
      <3>1. k - 1 \in 1..Len(t) /\ (k - 1) + 1 = k /\ ~(k - 1 < i) /\ t[k - 1] = s[k]
        BY <1>2, <1>3, <2>5
      <3>2. g[k - 1] = g[(k - 1) - 1] + s[k].quantity
        BY <1>5, <3>1 DEF Sums
      <3>3. F[k] = g[k - 1] + s[i].quantity /\ F[k - 1] = g[(k - 1) - 1] + s[i].quantity
        BY <1>3, <1>6, <2>1, <2>5
      <3>4. k - 1 \in 0..(Len(s) - 1) /\ (k - 1) - 1 \in 0..(Len(s) - 1)
        BY <1>3, <2>5
      <3>5. g[k - 1] \in Nat /\ g[(k - 1) - 1] \in Nat /\ f[k - 1] \in Nat /\ s[i].quantity \in Nat
        BY <1>3, <1>7, <2>1, <3>4
      <3>6. F[k] - F[k - 1] = s[k].quantity
        <4> HIDE <1>3, <1>7, <1>6
        <4>1. PICK a : a = g[(k - 1) - 1]
          OBVIOUS
        <4>2. PICK q : q = s[i].quantity
          OBVIOUS
        <4>3. F[k] = (a + s[k].quantity) + q /\ F[k - 1] = a + q
          BY <3>2, <3>3, <4>1, <4>2
        <4>4. a \in Nat /\ q \in Nat /\ s[k].quantity \in Nat
          BY <2>1, <3>5, <4>1, <4>2
        <4> QED
          BY <4>3, <4>4
      <3>7. f[k] - f[k - 1] = s[k].quantity
        BY <2>1, <2>2, <3>5
      <3> QED
        BY <3>6, <3>7
    <2> QED
      BY <1>3, <2>3, <2>4, <2>5
  <1>11. F[Len(s)] = f[Len(s)]
    BY <1>3, <1>8, <1>9, <1>10, CountsAgree
  <1> QED
    BY <1>1, <1>2, <1>3, <1>4, <1>5, <1>6, <1>11

\* Records of different connections that are all in a list sum up to no more than it
\* does.
LEMMA SumOfSome ==
  ASSUME NEW b \in Seq(Entry), NEW s \in Seq(Entry),
         \A j, k \in DOMAIN b : b[j].conn = b[k].conn => j = k,
         \A j \in DOMAIN b : \E k \in DOMAIN s : s[k] = b[j]
  PROVE  Sum(b) <= Sum(s)
  <1> DEFINE Some(x, y) ==
               /\ \A j, k \in DOMAIN x : x[j].conn = x[k].conn => j = k
               /\ \A j \in DOMAIN x : \E k \in DOMAIN y : y[k] = x[j]
             D == {n \in Nat : \E x, y \in Seq(Entry) : Len(x) = n /\ Some(x, y) /\ ~(Sum(x) <= Sum(y))}
  <1>1. SUFFICES ASSUME D # {} PROVE FALSE
    BY LenProperties
  <1>2. D \subseteq Nat
    OBVIOUS
  <1>3. PICK m \in D : \A n \in D : m <= n
    BY <1>1, <1>2, LeastElement
  <1>4. PICK x \in Seq(Entry), y \in Seq(Entry) : Len(x) = m /\ Some(x, y) /\ ~(Sum(x) <= Sum(y))
    BY <1>3
  <1>5. m \in Nat /\ DOMAIN x = 1..m /\ Sum(x) \in Nat /\ Sum(y) \in Nat
    BY <1>4, LenProperties, SumType
  <1>6. CASE m = 0
    <2>1. x = <<>>
      BY <1>4, <1>6, EmptySeq
    <2> QED
      BY <1>4, <1>5, <2>1, SumEmpty
  <1>7. CASE m # 0
    <2>1. m \in DOMAIN x
      BY <1>5, <1>7
    <2>2. PICK k \in DOMAIN y : y[k] = x[m]
      BY <1>4, <2>1
    <2>3. PICK u : u = RemoveAt(x, m)
      OBVIOUS
    <2>4. PICK v : v = RemoveAt(y, k)
      OBVIOUS
    <2>5. /\ u \in Seq(Entry) /\ Len(u) = m - 1 /\ DOMAIN u = 1..(m - 1)
          /\ \A j \in 1..(m - 1) : u[j] = x[j]
      <3>1. /\ u \in Seq(Entry) /\ Len(u) = Len(x) - 1 /\ DOMAIN u = 1..(Len(x) - 1)
            /\ \A j \in 1..(Len(x) - 1) : u[j] = IF j < m THEN x[j] ELSE x[j + 1]
        BY <2>1, <2>3, RemoveAtProperties
      <3> QED
        BY <1>4, <1>5, <3>1
    <2>6. /\ v \in Seq(Entry) /\ DOMAIN v = 1..(Len(y) - 1)
          /\ \A j \in 1..(Len(y) - 1) : v[j] = IF j < k THEN y[j] ELSE y[j + 1]
      BY <2>4, RemoveAtProperties
    <2>7. Len(y) \in Nat /\ DOMAIN y = 1..Len(y)
      BY LenProperties
    <2>8. \A j \in DOMAIN y : j # k => \E l \in DOMAIN v : v[l] = y[j]
      <3> SUFFICES ASSUME NEW j \in DOMAIN y, j # k PROVE \E l \in DOMAIN v : v[l] = y[j]
        OBVIOUS
      <3>1. CASE j < k
        <4>1. j \in 1..(Len(y) - 1) /\ v[j] = y[j]
          BY <2>6, <2>7, <3>1
        <4> QED
          BY <2>6, <4>1
      <3>2. CASE j > k
        <4>1. j - 1 \in 1..(Len(y) - 1) /\ ~(j - 1 < k) /\ (j - 1) + 1 = j
          BY <2>7, <3>2
        <4>2. v[j - 1] = y[j]
          BY <2>6, <4>1
        <4> QED
          BY <2>6, <4>1, <4>2
      <3> QED
        BY <2>7, <3>1, <3>2
    <2>9. \A j \in DOMAIN u : j \in DOMAIN x /\ j # m /\ u[j] = x[j]
      BY <1>5, <2>5
    <2>10. \A i, j \in DOMAIN u : u[i].conn = u[j].conn => i = j
      BY <1>4, <2>9
    <2>11. ASSUME NEW j \in DOMAIN u PROVE \E l \in DOMAIN v : v[l] = u[j]
      <3>1. PICK i \in DOMAIN y : y[i] = x[j]
        BY <1>4, <2>9
      <3>2. i # k
        BY <1>4, <2>1, <2>2, <2>9, <3>1
      <3> QED
        BY <2>8, <2>9, <3>1, <3>2
    <2>12. Some(u, v)
      BY <2>10, <2>11
    <2>13. m - 1 \in Nat /\ m - 1 \notin D
      <3>1. m - 1 \in Nat /\ ~(m <= m - 1)
        BY <1>5, <1>7
      <3> QED
        BY <1>3, <3>1
    <2>14. Sum(u) <= Sum(v)
      BY <2>5, <2>6, <2>12, <2>13
    <2>15. Sum(x) = Sum(u) + x[m].quantity
      BY <2>1, <2>3, SumRemoved
    <2>16. Sum(y) = Sum(v) + x[m].quantity
      BY <2>2, <2>4, SumRemoved
    <2>17. Sum(u) \in Nat /\ Sum(v) \in Nat /\ x[m].quantity \in Nat
      BY <2>1, <2>5, <2>6, SumType, EntryFields
    <2> QED
      BY <1>4, <2>14, <2>15, <2>16, <2>17
  <1> QED
    BY <1>6, <1>7

-------------------------------------------------------------------------------
(***************************************************************************)
(* Types.                                                                  *)
(***************************************************************************)

LEMMA ConnNames ==
  /\ \A c \in Conn : c = <<c[1], c[2]>> /\ c[1] \in Handle /\ c[2] \in 1..MaxLocks[c[1]]
  /\ \A h \in Handle : \A k \in 1..MaxLocks[h] : <<h, k>> \in Conn
  BY DEF Conn

LEMMA ConnFinite == IsFiniteSet(Conn)
  <1> DEFINE F == [h \in Handle |-> {h} \X (1..MaxLocks[h])]
             T == {{h} \X (1..MaxLocks[h]) : h \in Handle}
  <1>1. IsFiniteSet(Handle) /\ \A h \in Handle : MaxLocks[h] \in Nat
    BY SessionAssumption
  <1>2. F \in Surjection(Handle, T)
    BY DEF Surjection
  <1>3. IsFiniteSet(T)
    BY <1>1, <1>2, FS_Surjection
  <1>4. ASSUME NEW t \in T PROVE IsFiniteSet(t)
    <2>1. PICK h \in Handle : t = {h} \X (1..MaxLocks[h])
      OBVIOUS
    <2>2. IsFiniteSet({h})
      BY FS_Singleton
    <2>3. IsFiniteSet(1..MaxLocks[h])
      BY <1>1, FS_Interval
    <2> QED
      BY <2>1, <2>2, <2>3, FS_Product
  <1>5. Conn = UNION T
    BY DEF Conn
  <1> HIDE DEF T
  <1> QED
    BY <1>3, <1>4, <1>5, FS_UNION

LEMMA CurrentConn ==
  ASSUME TypeOK, NEW h \in Handle, HandleSound(h), opened[h] > 0
  PROVE  Current(h) \in Conn /\ Current(h)[1] = h /\ Current(h)[2] = opened[h]
  <1>1. opened[h] \in 1..MaxLocks[h]
    BY SessionAssumption DEF TypeOK, HandleSound
  <1> QED
    BY <1>1, ConnNames DEF Current

LEMMA RequestFields ==
  ASSUME NEW r \in Request
  PROVE  /\ Lock(r) \in Message /\ Unlock(r) \in Message
         /\ r.name \in Name /\ r.quantity \in Nat
  BY SessionAssumption DEF Setting, Lock, Unlock, Message

LEMMA PendingFields ==
  ASSUME NEW m \in Pending, m # NoMsg
  PROVE  m.step \in {16, 24} /\ m.req \in Request
  BY DEF Pending

LEMMA TypeInit == Init => TypeOK
  <1> SUFFICES ASSUME Init PROVE TypeOK
    OBVIOUS
  <1>1. (CHOOSE r \in Request : TRUE) \in Request
    BY SessionAssumption
  <1>2. request \in [Handle -> Request]
    BY <1>1 DEF Init
  <1>3. MaxCrashes \in Nat
    BY SessionAssumption
  <1>4. NoScan \in Scan /\ "loop" \in Thread
    BY DEF Scan, Thread
  <1>5. scan \in [Name -> Scan] /\ thread \in [Name -> Thread]
    BY <1>4 DEF Init
  <1>6. /\ state \in [Handle -> State] /\ call \in [Handle -> Call] /\ result \in [Handle -> Result]
    BY DEF Init, State, Call, Result
  <1>7. msg \in [Conn -> Pending]
    BY DEF Init, Pending
  <1>8. /\ end \in [Conn -> {"none", "open", "shut", "gone"}]
        /\ up \in [Conn -> Seq(Message)] /\ down \in [Conn -> Seq(Answer)]
        /\ asked \in [Conn -> Seq(Request)]
        /\ server \in [Conn -> Name \cup {"none", "main", "closed"}]
        /\ pipe \in [Name -> Seq(Conn)]
        /\ hup \in [Conn -> BOOLEAN] /\ null_fd \subseteq Conn
    BY DEF Init
  <1>a. moved \in BOOLEAN
    BY Zenon DEF Init
  <1>9. /\ exists \subseteq Name
        /\ holders \in [Name -> Seq(Entry)] /\ waitings \in [Name -> Seq(Entry)]
        /\ opened \in [Handle -> Nat] /\ locks \in [Handle -> Nat]
        /\ crashes \in 0..MaxCrashes
    BY <1>3 DEF Init
  <1> QED
    BY <1>2, <1>5, <1>6, <1>7, <1>8, <1>9, <1>a DEF TypeOK

\* The calls of the program.
LEMMA LockCallConn ==
  ASSUME TypeOK, NEW h \in Handle, HandleSound(h), NEW r, LockCall(h, r), NEW c,
         c = IF state[h] # "CONNECTED" THEN <<h, opened[h] + 1>> ELSE Current(h)
  PROVE  c \in Conn /\ c[1] = h
  <1>1. opened[h] \in Nat /\ locks[h] \in Nat /\ MaxLocks[h] \in Nat
    BY SessionAssumption DEF TypeOK
  <1>2. CASE state[h] # "CONNECTED"
    <2>1. opened[h] + 1 \in 1..MaxLocks[h]
      BY <1>1 DEF LockCall, HandleSound
    <2> QED
      BY <1>2, <2>1, ConnNames
  <1>3. CASE state[h] = "CONNECTED"
    <2>1. opened[h] > 0
      BY <1>3 DEF HandleSound
    <2> QED
      BY <1>3, <2>1, CurrentConn
  <1> QED
    BY <1>2, <1>3

LEMMA LockCallType ==
  ASSUME TypeOK, NEW h \in Handle, HandleSound(h), NEW r \in Request, LockCall(h, r)
  PROVE  TypeOK'
  <1>1. PICK c : c = IF state[h] # "CONNECTED" THEN <<h, opened[h] + 1>> ELSE Current(h)
    OBVIOUS
  <1>2. c \in Conn
    BY <1>1, LockCallConn
  <1>3. /\ up' \in [Conn -> Seq(Message)]
        /\ asked' \in [Conn -> Seq(Request)]
        /\ call' \in [Handle -> Call]
        /\ result' \in [Handle -> Result]
    <2>1. Append(up[c], Lock(r)) \in Seq(Message)
      BY <1>2, RequestFields, AppendedProperties DEF TypeOK
    <2>2. Append(asked[c], r) \in Seq(Request)
      BY <1>2, AppendedProperties DEF TypeOK
    <2>3. Sent(c, Lock(r)) \in [Conn -> Seq(Message)]
      BY <1>2, <2>1 DEF TypeOK, Sent
    <2>4. CASE UNCHANGED <<call, up, asked>>
      BY <1>1, <2>4 DEF LockCall, TypeOK, Result
    <2>5. CASE /\ call' = [call EXCEPT ![h] = "lock"]
               /\ up' = Sent(c, Lock(r))
               /\ asked' = [asked EXCEPT ![c] = Append(@, r)]
               /\ result' = [result EXCEPT ![h] = "NONE"]
      BY <1>2, <2>2, <2>3, <2>5 DEF TypeOK, Result, Call
    <2> QED
      BY <1>1, <2>4, <2>5 DEF LockCall
  <1>4. /\ locks' \in [Handle -> Nat] /\ opened' \in [Handle -> Nat]
        /\ state' \in [Handle -> State] /\ request' \in [Handle -> Request]
    BY DEF LockCall, TypeOK, State
  <1>5. /\ end' \in [Conn -> {"none", "open", "shut", "gone"}]
        /\ server' \in [Conn -> Name \cup {"none", "main", "closed"}]
    BY <1>1, <1>2 DEF LockCall, TypeOK
  <1>6. UNCHANGED <<down, msg, pipe, hup, null_fd, moved, exists, lockerVars, crashes>>
    BY DEF LockCall
  <1> QED
    BY <1>3, <1>4, <1>5, <1>6 DEF TypeOK, lockerVars

LEMMA ReturnType ==
  ASSUME TypeOK, NEW h \in Handle,
         (\E rc \in Result : Return(h, rc)) \/ Continue(h, "wait")
  PROVE  /\ call' \in [Handle -> Call] /\ result' \in [Handle -> Result]
         /\ state' \in [Handle -> State]
  <1>1. ASSUME NEW rc \in Result, Return(h, rc)
        PROVE  /\ call' \in [Handle -> Call] /\ result' \in [Handle -> Result]
               /\ state' \in [Handle -> State]
    <2>1. call' \in [Handle -> Call]
      BY <1>1 DEF Return, TypeOK, Call
    <2>2. result' \in [Handle -> Result]
      BY <1>1 DEF Return, TypeOK
    <2>3. CASE rc = "OK"
      BY <1>1, <2>1, <2>2, <2>3 DEF Return, TypeOK, State
    <2>4. CASE rc # "OK"
      BY <1>1, <2>1, <2>2, <2>4 DEF Return, TypeOK
    <2> QED
      BY <2>3, <2>4
  <1>2. CASE Continue(h, "wait")
    BY <1>2 DEF Continue, TypeOK, Call
  <1> QED
    BY <1>1, <1>2

LEMMA RecvType ==
  ASSUME TypeOK, NEW h \in Handle, HandleSound(h), Recv(h)
  PROVE  TypeOK'
  <1>1. PICK c : c = Current(h)
    OBVIOUS
  <1>2. c \in Conn
    BY <1>1, CurrentConn DEF Recv, HandleSound
  <1>3. Head(down[c]) \in Answer /\ Tail(down[c]) \in Seq(Answer)
    BY <1>1, <1>2, ReadProperties DEF TypeOK, Recv
  <1>4. down' = [down EXCEPT ![c] = Tail(@)]
    BY <1>1 DEF Recv
  <1>5. down' \in [Conn -> Seq(Answer)]
    BY <1>2, <1>3, <1>4 DEF TypeOK
  <1>6. \/ LockAnswer(h, Head(down[c])) \/ WaitAnswer(h, Head(down[c]))
    BY <1>1 DEF Recv
  <1>7. (\E rc \in Result : Return(h, rc)) \/ Continue(h, "wait")
    BY <1>3, <1>6 DEF LockAnswer, WaitAnswer, Answer, Result
  <1>8. /\ call' \in [Handle -> Call] /\ result' \in [Handle -> Result]
        /\ state' \in [Handle -> State]
    BY <1>7, ReturnType
  <1> QED
    BY <1>5, <1>8 DEF Recv, TypeOK, daemonVars, mainVars, lockerVars

LEMMA RecvNothingType ==
  ASSUME TypeOK, NEW h \in Handle, RecvError(h) \/ RecvTimeout(h)
  PROVE  TypeOK'
  <1>1. \E rc \in Result : Return(h, rc)
    BY DEF RecvError, RecvTimeout, Result
  <1>2. /\ call' \in [Handle -> Call] /\ result' \in [Handle -> Result]
        /\ state' \in [Handle -> State]
    BY <1>1, ReturnType
  <1>3. UNCHANGED <<request, opened, locks, socketVars, daemonVars>>
    BY DEF RecvError, RecvTimeout
  <1> QED
    BY <1>2, <1>3 DEF TypeOK, socketVars, daemonVars, mainVars, lockerVars

LEMMA UnlockCallType ==
  ASSUME TypeOK, NEW h \in Handle, HandleSound(h), NEW f \in {"unlock", "clean", "delete"},
         UnlockCall(h, f)
  PROVE  TypeOK'
  <1>1. UNCHANGED <<request, result, opened, locks, down, asked, daemonVars>>
    BY DEF UnlockCall
  <1>2. request[h] \in Request
    BY DEF TypeOK
  <1>a. /\ state' = state \/ \E s \in State : state' = [state EXCEPT ![h] = s]
        /\ call' = call \/ call' = [call EXCEPT ![h] = f]
    <2>1. CASE UnlockLocked(h, f)
      BY <2>1 DEF UnlockLocked, Disconnect, Stay, State
    <2>2. CASE UnlockConnected(h, f)
      BY <2>2 DEF UnlockConnected, Disconnect, Stay, State
    <2>3. CASE UnlockIdle(h, f)
      BY <2>3 DEF UnlockIdle, Stay, State, Final
    <2> QED
      BY <2>1, <2>2, <2>3 DEF UnlockCall
  <1>3. state' \in [Handle -> State] /\ call' \in [Handle -> Call]
    <2>1. state' \in [Handle -> State]
      BY <1>a DEF TypeOK
    <2>2. f \in Call /\ call \in [Handle -> Call]
      BY DEF TypeOK, Call
    <2>3. call' \in [Handle -> Call]
      BY <1>a, <2>2
    <2> QED
      BY <2>1, <2>3
  <1>4. end' \in [Conn -> {"none", "open", "shut", "gone"}]
    BY DEF UnlockCall, UnlockLocked, UnlockConnected, UnlockIdle, Disconnect, Stay, TypeOK
  <1>5. up' \in [Conn -> Seq(Message)]
    <2>1. CASE UNCHANGED up
      BY <2>1 DEF TypeOK
    <2>2. CASE state[h] = "LOCKED" /\ up' = Sent(Current(h), Unlock(request[h]))
      <3>1. Current(h) \in Conn
        BY <2>2, CurrentConn DEF HandleSound
      <3>2. Append(up[Current(h)], Unlock(request[h])) \in Seq(Message)
        BY <1>2, <3>1, RequestFields, AppendedProperties DEF TypeOK
      <3> QED
        BY <2>2, <3>1, <3>2 DEF Sent, TypeOK
    <2> QED
      BY <2>1, <2>2 DEF UnlockCall, UnlockLocked, UnlockConnected, UnlockIdle
  <1> QED
    BY <1>1, <1>3, <1>4, <1>5 DEF TypeOK, daemonVars, mainVars, lockerVars

LEMMA LeaveType ==
  ASSUME TypeOK, NEW h \in Handle, Bye(h) \/ Exit(h)
  PROVE  TypeOK'
  <1>1. <<>> \in Seq(Answer)
    OBVIOUS
  <1>2. /\ state' \in [Handle -> State] /\ call' \in [Handle -> Call]
        /\ result' \in [Handle -> Result]
    <2>1. CASE Bye(h)
      BY <2>1 DEF Bye, Final, TypeOK, State, Call, Result
    <2>2. CASE Exit(h)
      BY <2>2 DEF Exit, Final, TypeOK, State, Call, Result
    <2> QED
      BY <2>1, <2>2
  <1>3. end' \in [Conn -> {"none", "open", "shut", "gone"}] /\ down' \in [Conn -> Seq(Answer)]
    <2>1. CASE Bye(h)
      BY <1>1, <2>1 DEF Bye, TypeOK
    <2>2. CASE Exit(h)
      BY <1>1, <2>2 DEF Exit, TypeOK
    <2> QED
      BY <2>1, <2>2
  <1>4. UNCHANGED <<request, opened, locks, up, asked, daemonVars>>
    BY DEF Bye, Exit
  <1> QED
    BY <1>2, <1>3, <1>4 DEF TypeOK, daemonVars, mainVars, lockerVars

-------------------------------------------------------------------------------
(***************************************************************************)
(* What the steps of the daemon do to lists, answers and records.          *)
(***************************************************************************)

\* t is s with the record e added, somewhere.
Gains(s, e, t) ==
  /\ \A j \in DOMAIN t : t[j] = e \/ \E i \in DOMAIN s : t[j] = s[i]
  /\ HasConn(t, e.conn)
  /\ \A x : HasConn(s, x) => HasConn(t, x)
  /\ \A x : HasConn(t, x) => x = e.conn \/ HasConn(s, x)
  /\ \A x : OnceFor(s, x) /\ (x = e.conn => ~HasConn(s, x)) => OnceFor(t, x)

\* t is s without one of the records of the connection c.
Loses(s, c, t) ==
  /\ \A j \in DOMAIN t : \E i \in DOMAIN s : t[j] = s[i]
  /\ \A x : HasConn(s, x) /\ x # c => HasConn(t, x)
  /\ \A x : HasConn(t, x) => HasConn(s, x)
  /\ \A x : OnceFor(s, x) => OnceFor(t, x)
  /\ OnceFor(s, c) => ~HasConn(t, c)

\* t[p] is e, and f says where the other records of t are in s.
Shifted(s, e, t, p, f) ==
  /\ p \in DOMAIN t /\ t[p] = e
  /\ \A j \in DOMAIN t : j # p => f[j] \in DOMAIN s /\ t[j] = s[f[j]]
  /\ \A i, j \in DOMAIN t : i # p /\ j # p /\ f[i] = f[j] => i = j
  /\ \A i \in DOMAIN s : \E j \in DOMAIN t : t[j] = s[i]

LEMMA ShiftedGains ==
  ASSUME NEW s, NEW t, NEW e, NEW p, NEW f, Shifted(s, e, t, p, f)
  PROVE  Gains(s, e, t)
  <1> USE DEF Shifted
  <1>1. \A j \in DOMAIN t : t[j] = e \/ \E i \in DOMAIN s : t[j] = s[i]
    OBVIOUS
  <1>2. HasConn(t, e.conn) /\ \A x : HasConn(s, x) => HasConn(t, x)
    BY DEF HasConn
  <1>3. \A x : HasConn(t, x) => x = e.conn \/ HasConn(s, x)
    BY DEF HasConn
  <1>4. ASSUME NEW x, OnceFor(s, x), x = e.conn => ~HasConn(s, x)
        PROVE  OnceFor(t, x)
    <2> SUFFICES ASSUME NEW i \in DOMAIN t, NEW j \in DOMAIN t, t[i].conn = x, t[j].conn = x
                 PROVE  i = j
      BY DEF OnceFor
    <2>1. CASE i = p /\ j # p
      BY <1>4, <2>1 DEF HasConn
    <2>2. CASE i # p /\ j = p
      BY <1>4, <2>2 DEF HasConn
    <2>3. CASE i # p /\ j # p
      BY <1>4, <2>3 DEF OnceFor
    <2> QED
      BY <2>1, <2>2, <2>3
  <1> QED
    BY <1>1, <1>2, <1>3, <1>4 DEF Gains

LEMMA PrependGains ==
  ASSUME NEW s \in Seq(Entry), NEW e \in Entry
  PROVE  Gains(s, e, <<e>> \o s) /\ <<e>> \o s \in Seq(Entry)
  <1>1. PICK t : t = <<e>> \o s
    OBVIOUS
  <1>2. /\ t \in Seq(Entry) /\ DOMAIN t = 1..(Len(s) + 1)
        /\ \A j \in 1..(Len(s) + 1) : t[j] = IF j = 1 THEN e ELSE s[j - 1]
    BY <1>1, PrependProperties
  <1>3. Len(s) \in Nat /\ DOMAIN s = 1..Len(s)
    BY LenProperties
  <1>4. PICK f : f = [j \in 1..(Len(s) + 1) |-> j - 1]
    OBVIOUS
  <1>5. 1 \in DOMAIN t /\ t[1] = e
    BY <1>2, <1>3
  <1>6. \A j \in DOMAIN t : j # 1 => f[j] \in DOMAIN s /\ t[j] = s[f[j]]
    BY <1>2, <1>3, <1>4
  <1>7. \A i, j \in DOMAIN t : i # 1 /\ j # 1 /\ f[i] = f[j] => i = j
    BY <1>2, <1>3, <1>4
  <1>8. ASSUME NEW i \in DOMAIN s PROVE \E j \in DOMAIN t : t[j] = s[i]
    <2>1. i + 1 \in DOMAIN t /\ i + 1 # 1 /\ (i + 1) - 1 = i
      BY <1>2, <1>3
    <2> QED
      BY <1>2, <2>1
  <1>9. Gains(s, e, t)
    BY <1>5, <1>6, <1>7, <1>8, ShiftedGains DEF Shifted
  <1> QED
    BY <1>1, <1>2, <1>9

LEMMA AppendGains ==
  ASSUME NEW s \in Seq(Entry), NEW e \in Entry
  PROVE  Gains(s, e, Append(s, e)) /\ Append(s, e) \in Seq(Entry)
  <1>1. PICK t : t = Append(s, e)
    OBVIOUS
  <1>2. /\ t \in Seq(Entry) /\ DOMAIN t = 1..(Len(s) + 1)
        /\ \A j \in 1..(Len(s) + 1) : t[j] = IF j = Len(s) + 1 THEN e ELSE s[j]
    BY <1>1, AppendedProperties
  <1>3. Len(s) \in Nat /\ DOMAIN s = 1..Len(s)
    BY LenProperties
  <1>4. PICK f : f = [j \in 1..(Len(s) + 1) |-> j]
    OBVIOUS
  <1>5. PICK p : p = Len(s) + 1
    OBVIOUS
  <1>6. p \in DOMAIN t /\ t[p] = e
    BY <1>2, <1>3, <1>5
  <1>7. \A j \in DOMAIN t : j # p => f[j] \in DOMAIN s /\ t[j] = s[f[j]]
    BY <1>2, <1>3, <1>4, <1>5
  <1>8. \A i, j \in DOMAIN t : i # p /\ j # p /\ f[i] = f[j] => i = j
    BY <1>2, <1>3, <1>4
  <1>9. \A i \in DOMAIN s : \E j \in DOMAIN t : t[j] = s[i]
    <2>1. \A i \in DOMAIN s : i \in DOMAIN t /\ i # p /\ t[i] = s[i]
      BY <1>2, <1>3, <1>5
    <2> QED
      BY <2>1
  <1>10. Gains(s, e, t)
    BY <1>6, <1>7, <1>8, <1>9, ShiftedGains DEF Shifted
  <1> QED
    BY <1>1, <1>2, <1>10

LEMMA RemoveLoses ==
  ASSUME NEW s \in Seq(Entry), NEW k \in DOMAIN s
  PROVE  /\ Loses(s, s[k].conn, RemoveAt(s, k)) /\ RemoveAt(s, k) \in Seq(Entry)
         /\ Sum(RemoveAt(s, k)) <= Sum(s)
  <1>1. PICK t : t = RemoveAt(s, k)
    OBVIOUS
  <1>2. /\ t \in Seq(Entry) /\ DOMAIN t = 1..(Len(s) - 1)
        /\ \A j \in 1..(Len(s) - 1) : t[j] = IF j < k THEN s[j] ELSE s[j + 1]
    BY <1>1, RemoveAtProperties
  <1>3. Len(s) \in Nat /\ DOMAIN s = 1..Len(s) /\ k \in 1..Len(s)
    BY LenProperties
  <1>4. PICK f : f = [j \in 1..(Len(s) - 1) |-> IF j < k THEN j ELSE j + 1]
    OBVIOUS
  <1>5. \A j \in DOMAIN t : f[j] \in DOMAIN s /\ f[j] # k /\ t[j] = s[f[j]]
    BY <1>2, <1>3, <1>4
  <1>6. \A i, j \in DOMAIN t : f[i] = f[j] => i = j
    BY <1>2, <1>3, <1>4
  <1>7. ASSUME NEW i \in DOMAIN s, i # k PROVE \E j \in DOMAIN t : t[j] = s[i]
    <2>1. CASE i < k
      <3>1. i \in DOMAIN t /\ t[i] = s[i]
        BY <1>2, <1>3, <2>1
      <3> QED
        BY <3>1
    <2>2. CASE i > k
      <3>1. i - 1 \in DOMAIN t /\ ~(i - 1 < k) /\ (i - 1) + 1 = i
        BY <1>2, <1>3, <2>2
      <3>2. t[i - 1] = s[i]
        BY <1>2, <3>1
      <3> QED
        BY <3>1, <3>2
    <2> QED
      BY <1>3, <1>7, <2>1, <2>2
  <1>8. \A j \in DOMAIN t : \E i \in DOMAIN s : t[j] = s[i]
    BY <1>5
  <1>9. \A x : HasConn(s, x) /\ x # s[k].conn => HasConn(t, x)
    BY <1>7 DEF HasConn
  <1>10. \A x : HasConn(t, x) => HasConn(s, x)
    BY <1>8 DEF HasConn
  <1>11. \A x : OnceFor(s, x) => OnceFor(t, x)
    BY <1>5, <1>6 DEF OnceFor
  <1>12. OnceFor(s, s[k].conn) => ~HasConn(t, s[k].conn)
    BY <1>5 DEF OnceFor, HasConn
  <1>13. Sum(s) = Sum(t) + s[k].quantity /\ Sum(t) \in Nat /\ Sum(s) \in Nat /\ s[k].quantity \in Nat
    BY <1>1, <1>2, SumRemoved, SumType, EntryFields
  <1>14. Sum(t) <= Sum(s)
    BY <1>13
  <1> QED
    BY <1>1, <1>2, <1>8, <1>9, <1>10, <1>11, <1>12, <1>14 DEF Loses

\* One locker's list changes: a record more, or one of a connection less.
Adds(old, new, n, e) ==
  /\ new \in [Name -> Seq(Entry)]
  /\ \A m \in Name : m # n => new[m] = old[m]
  /\ Gains(old[n], e, new[n])

Drops(old, new, n, c) ==
  /\ new \in [Name -> Seq(Entry)]
  /\ \A m \in Name : m # n => new[m] = old[m]
  /\ Loses(old[n], c, new[n])

\* At most the answer a is sent, to c.
NewAnswer(c, a) ==
  /\ down' \in [Conn -> Seq(Answer)]
  /\ \A x \in Conn : x # c => down'[x] = down[x]
  /\ \A k \in DOMAIN down'[c] :
       (\E j \in DOMAIN down[c] : down'[c][k] = down[c][j]) \/ (down'[c][k] = a /\ ~hup[c])

LEMMA NothingLost ==
  ASSUME NEW s, NEW c, ~HasConn(s, c)
  PROVE  Loses(s, c, s)
  BY DEF Loses

LEMMA AnsweredEffect ==
  ASSUME TypeOK, NEW c \in Conn, NEW step, NEW rc, NEW a, a = [step |-> step, rc |-> rc],
         a \in Answer, down' = Answered(c, step, rc)
  PROVE  NewAnswer(c, a)
  <1>1. CASE hup[c] \/ c \in null_fd \/ end[c] = "gone"
    <2>1. down' = down
      BY <1>1 DEF Answered
    <2> QED
      BY <2>1 DEF TypeOK, NewAnswer
  <1>2. CASE ~(hup[c] \/ c \in null_fd \/ end[c] = "gone")
    <2>1. down' = [down EXCEPT ![c] = Append(down[c], a)]
      BY <1>2 DEF Answered
    <2>2. down[c] \in Seq(Answer)
      BY DEF TypeOK
    <2>3. /\ Append(down[c], a) \in Seq(Answer)
          /\ DOMAIN Append(down[c], a) = 1..(Len(down[c]) + 1)
          /\ \A j \in 1..(Len(down[c]) + 1) :
               Append(down[c], a)[j] = IF j = Len(down[c]) + 1 THEN a ELSE down[c][j]
      BY <2>2, AppendedProperties
    <2>4. Len(down[c]) \in Nat /\ DOMAIN down[c] = 1..Len(down[c])
      BY <2>2, LenProperties
    <2>5. down' \in [Conn -> Seq(Answer)] /\ down'[c] = Append(down[c], a)
      BY <2>1, <2>3 DEF TypeOK
    <2>6. \A x \in Conn : x # c => down'[x] = down[x]
      BY <2>1 DEF TypeOK
    <2>7. \A k \in DOMAIN down'[c] : (k \in DOMAIN down[c] /\ down'[c][k] = down[c][k]) \/ down'[c][k] = a
      BY <2>3, <2>4, <2>5
    <2> QED
      BY <1>2, <2>5, <2>6, <2>7 DEF NewAnswer
  <1> QED
    BY <1>1, <1>2

\* A new holder, where there is room for it.
LEMMA HolderAdded ==
  ASSUME TypeOK, NEW n \in Name, NEW e \in Entry, can_lock(n, e.quantity),
         holders' = [holders EXCEPT ![n] = <<e>> \o holders[n]]
  PROVE  Adds(holders, holders', n, e) /\ Sum(holders'[n]) <= Total
  <1>1. holders[n] \in Seq(Entry)
    BY DEF TypeOK
  <1>2. Gains(holders[n], e, <<e>> \o holders[n]) /\ <<e>> \o holders[n] \in Seq(Entry)
    BY <1>1, PrependGains
  <1>3. holders'[n] = <<e>> \o holders[n]
    BY DEF TypeOK
  <1>4. Adds(holders, holders', n, e)
    BY <1>2, <1>3 DEF TypeOK, Adds
  <1>5. Sum(holders'[n]) = e.quantity + Sum(holders[n])
    BY <1>1, <1>3, SumPrepended
  <1>6. Sum(holders[n]) \in Nat /\ e.quantity \in Nat
    BY <1>1, SumType DEF Entry
  <1> QED
    BY <1>4, <1>5, <1>6 DEF can_lock

\* inmsg grants, enqueues or refuses.
LEMMA InmsgEffect ==
  ASSUME TypeOK, NEW c \in Conn, NEW n \in Name, NEW r \in Request, NEW step \in {16, 24},
         inmsg(c, n, r, step), NEW e, e = [conn |-> c, quantity |-> r.quantity]
  PROVE  /\ e \in Entry
         /\ \/ /\ Adds(holders, holders', n, e) /\ Sum(holders'[n]) <= Total
               /\ waitings' = waitings
               /\ NewAnswer(c, [step |-> step, rc |-> "OK"])
            \/ /\ Adds(waitings, waitings', n, e)
               /\ holders' = holders
               /\ NewAnswer(c, [step |-> step, rc |-> "ENQUEUED"])
            \/ /\ holders' = holders /\ waitings' = waitings
               /\ r.quantity > Total
               /\ NewAnswer(c, [step |-> step, rc |-> "IMPOSSIBLE"])
            \/ /\ holders' = holders /\ waitings' = waitings
               /\ r.timeout = "zero"
               /\ NewAnswer(c, [step |-> step, rc |-> "BUSY"])
  <1>1. e \in Entry
    BY RequestFields DEF Entry
  <1>2. CASE /\ can_lock(n, r.quantity)
             /\ holders' = [holders EXCEPT ![n] = <<e>> \o @]
             /\ down' = Answered(c, step, "OK")
             /\ UNCHANGED waitings
    <2>1. [step |-> step, rc |-> "OK"] \in Answer
      BY DEF Answer
    <2>2. NewAnswer(c, [step |-> step, rc |-> "OK"])
      BY <1>2, <2>1, AnsweredEffect
    <2>3. can_lock(n, e.quantity) /\ holders' = [holders EXCEPT ![n] = <<e>> \o holders[n]]
      BY <1>2 DEF TypeOK
    <2> QED
      BY <1>1, <1>2, <2>2, <2>3, HolderAdded
  <1>3. CASE /\ waitings' = [waitings EXCEPT ![n] = Append(@, e)]
             /\ down' = Answered(c, step, "ENQUEUED")
             /\ UNCHANGED holders
    <2>1. [step |-> step, rc |-> "ENQUEUED"] \in Answer
      BY DEF Answer
    <2>2. NewAnswer(c, [step |-> step, rc |-> "ENQUEUED"])
      BY <1>3, <2>1, AnsweredEffect
    <2>3. waitings[n] \in Seq(Entry) /\ waitings'[n] = Append(waitings[n], e)
      BY <1>3 DEF TypeOK
    <2>4. Gains(waitings[n], e, waitings'[n]) /\ waitings'[n] \in Seq(Entry)
      BY <1>1, <2>3, AppendGains
    <2>5. Adds(waitings, waitings', n, e)
      BY <1>3, <2>3, <2>4 DEF TypeOK, Adds
    <2> QED
      BY <1>1, <1>3, <2>2, <2>5
  <1>4. CASE /\ r.quantity > Total \/ r.timeout = "zero"
             /\ down' = Answered(c, step, IF r.quantity > Total THEN "IMPOSSIBLE" ELSE "BUSY")
             /\ UNCHANGED <<holders, waitings>>
    <2>1. [step |-> step, rc |-> "IMPOSSIBLE"] \in Answer /\ [step |-> step, rc |-> "BUSY"] \in Answer
      BY DEF Answer
    <2>2. CASE r.quantity > Total
      <3>1. NewAnswer(c, [step |-> step, rc |-> "IMPOSSIBLE"])
        BY <1>4, <2>1, <2>2, AnsweredEffect
      <3> QED
        BY <1>1, <1>4, <2>2, <3>1
    <2>3. CASE ~(r.quantity > Total)
      <3>1. NewAnswer(c, [step |-> step, rc |-> "BUSY"])
        BY <1>4, <2>1, <2>3, AnsweredEffect
      <3> QED
        BY <1>1, <1>4, <2>3, <3>1
    <2> QED
      BY <2>2, <2>3
  <1> QED
    BY <1>2, <1>3, <1>4 DEF inmsg

\* clean takes a record of the connection away, if there is one.
LEMMA CleanEffect ==
  ASSUME TypeOK, NEW c \in Conn, NEW n \in Name, NEW how, clean(c, n, how)
  PROVE  /\ Drops(holders, holders', n, c)
         /\ \A m \in Name : Sum(holders'[m]) <= Sum(holders[m])
         /\ \/ Has(holders, n, c) /\ waitings' = waitings
            \/ Drops(waitings, waitings', n, c)
  <1>1. holders[n] \in Seq(Entry) /\ waitings[n] \in Seq(Entry)
    BY DEF TypeOK
  <1>2. PICK h : h = FirstOf(holders[n], c)
    OBVIOUS
  <1>3. PICK w : w = FirstOf(waitings[n], c)
    OBVIOUS
  <1>4. /\ holders' = IF h # 0 THEN [holders EXCEPT ![n] = RemoveAt(@, h)] ELSE holders
        /\ waitings' = IF h = 0 /\ w # 0 THEN [waitings EXCEPT ![n] = RemoveAt(@, w)] ELSE waitings
    BY <1>2, <1>3 DEF clean
  <1>5. \A m \in Name : Sum(holders[m]) \in Nat
    BY SumType DEF TypeOK
  <1>6. CASE h # 0
    <2>1. h \in DOMAIN holders[n] /\ holders[n][h].conn = c
      BY <1>1, <1>2, <1>6, FirstOfProperties
    <2>2. /\ Loses(holders[n], c, RemoveAt(holders[n], h)) /\ RemoveAt(holders[n], h) \in Seq(Entry)
          /\ Sum(RemoveAt(holders[n], h)) <= Sum(holders[n])
      BY <1>1, <2>1, RemoveLoses
    <2>3. holders' = [holders EXCEPT ![n] = RemoveAt(holders[n], h)]
      BY <1>4, <1>6
    <2>4. Drops(holders, holders', n, c)
      BY <2>2, <2>3 DEF TypeOK, Drops
    <2>5. \A m \in Name : Sum(holders'[m]) <= Sum(holders[m])
      BY <1>5, <2>2, <2>3 DEF TypeOK
    <2> QED
      BY <1>4, <1>6, <2>1, <2>4, <2>5 DEF Has
  <1>7. CASE h = 0
    <2>1. ~HasConn(holders[n], c) /\ holders' = holders
      BY <1>1, <1>2, <1>4, <1>7, FirstOfProperties DEF HasConn
    <2>2. Drops(holders, holders', n, c)
      BY <2>1, NothingLost DEF TypeOK, Drops
    <2>3. \A m \in Name : Sum(holders'[m]) <= Sum(holders[m])
      BY <1>5, <2>1
    <2>4. CASE w = 0
      <3>1. ~HasConn(waitings[n], c) /\ waitings' = waitings
        BY <1>1, <1>3, <1>4, <2>4, FirstOfProperties DEF HasConn
      <3>2. Drops(waitings, waitings', n, c)
        BY <3>1, NothingLost DEF TypeOK, Drops
      <3> QED
        BY <2>2, <2>3, <3>2
    <2>5. CASE w # 0
      <3>1. w \in DOMAIN waitings[n] /\ waitings[n][w].conn = c
        BY <1>1, <1>3, <2>5, FirstOfProperties
      <3>2. Loses(waitings[n], c, RemoveAt(waitings[n], w)) /\ RemoveAt(waitings[n], w) \in Seq(Entry)
        BY <1>1, <3>1, RemoveLoses
      <3>3. waitings' = [waitings EXCEPT ![n] = RemoveAt(waitings[n], w)]
        BY <1>4, <1>7, <2>5
      <3>4. Drops(waitings, waitings', n, c)
        BY <3>2, <3>3 DEF TypeOK, Drops
      <3> QED
        BY <2>2, <2>3, <3>4
    <2> QED
      BY <2>4, <2>5
  <1> QED
    BY <1>6, <1>7

\* The scan moves a record from the queue to the holders, or drops it.
LEMMA GrantEffect ==
  ASSUME TypeOK, NEW n \in Name, Grant(n) \/ GrantFails(n)
  PROVE  \E k \in DOMAIN waitings[n] : \E e \in Entry :
           /\ e = waitings[n][k]
           /\ Drops(waitings, waitings', n, e.conn)
           /\ \/ /\ server[e.conn] # "closed" /\ ~hup[e.conn]
                 /\ Adds(holders, holders', n, e) /\ Sum(holders'[n]) <= Total
                 /\ NewAnswer(e.conn, [step |-> 24, rc |-> "OK"])
              \/ holders' = holders /\ down' = down
  <1>1. waitings[n] \in Seq(Entry)
    BY DEF TypeOK
  <1>2. PICK k \in DOMAIN waitings[n] :
          /\ FirstFit(n, k)
          /\ waitings' = [waitings EXCEPT ![n] = RemoveAt(@, k)]
          /\ \/ /\ server[waitings[n][k].conn] # "closed" /\ ~hup[waitings[n][k].conn]
                /\ holders' = [holders EXCEPT ![n] = <<waitings[n][k]>> \o @]
                /\ down' = Answered(waitings[n][k].conn, 24, "OK")
             \/ holders' = holders /\ down' = down
    BY DEF Grant, GrantFails, Closed
  <1>3. PICK e : e = waitings[n][k]
    OBVIOUS
  <1>4. e \in Entry /\ e.conn \in Conn
    <2>1. waitings[n][k] \in Entry
      BY <1>1, ElementOfSeq
    <2> QED
      BY <1>3, <2>1 DEF Entry
  <1>5. Loses(waitings[n], e.conn, RemoveAt(waitings[n], k)) /\ RemoveAt(waitings[n], k) \in Seq(Entry)
    BY <1>1, <1>3, RemoveLoses
  <1>6. Drops(waitings, waitings', n, e.conn)
    BY <1>2, <1>5 DEF TypeOK, Drops
  <1>7. CASE /\ server[e.conn] # "closed" /\ ~hup[e.conn]
             /\ holders' = [holders EXCEPT ![n] = <<e>> \o @]
             /\ down' = Answered(e.conn, 24, "OK")
    <2>1. [step |-> 24, rc |-> "OK"] \in Answer
      BY DEF Answer
    <2>2. NewAnswer(e.conn, [step |-> 24, rc |-> "OK"])
      BY <1>4, <1>7, <2>1, AnsweredEffect
    <2>3. can_lock(n, e.quantity) /\ holders' = [holders EXCEPT ![n] = <<e>> \o holders[n]]
      BY <1>2, <1>3, <1>7 DEF TypeOK, FirstFit
    <2>4. Adds(holders, holders', n, e) /\ Sum(holders'[n]) <= Total
      BY <1>4, <2>3, HolderAdded
    <2> QED
      BY <1>3, <1>4, <1>6, <1>7, <2>2, <2>4
  <1>8. CASE holders' = holders /\ down' = down
    BY <1>3, <1>4, <1>6, <1>8
  <1> QED
    BY <1>2, <1>3, <1>7, <1>8

\* Nobody is twice in the lists a and q, or is c.
Apart(a, c, q) ==
  /\ \A j, k \in DOMAIN a : a[j] = a[k] => j = k
  /\ \A j, k \in DOMAIN q : q[j] = q[k] => j = k
  /\ \A k \in DOMAIN a : a[k] # c
  /\ \A k \in DOMAIN q : q[k] # c
  /\ \A j \in DOMAIN a, k \in DOMAIN q : a[j] # q[k]

Written(a, c, q, p) ==
  /\ \A k \in DOMAIN p : p[k] = c \/ (\E j \in DOMAIN a : p[k] = a[j])
                           \/ (\E j \in DOMAIN q : p[k] = q[j])
  /\ \A j, k \in DOMAIN p : p[j] = p[k] => j = k

\* Connections written to a pipe: those that were there, c, and the list q of others.
LEMMA WrittenProperties ==
  ASSUME NEW S, NEW a \in Seq(S), NEW c \in S, NEW q \in Seq(S), NEW p, p = a \o <<c>> \o q,
         Apart(a, c, q)
  PROVE  p \in Seq(S) /\ Written(a, c, q, p)
  <1>1. PICK b : b = a \o <<c>>
    OBVIOUS
  <1>2. <<c>> \in Seq(S) /\ Len(<<c>>) = 1 /\ <<c>>[1] = c
    OBVIOUS
  <1>3. /\ Len(a) \in Nat /\ DOMAIN a = 1..Len(a) /\ Len(q) \in Nat /\ DOMAIN q = 1..Len(q)
    BY LenProperties
  <1>4. /\ b \in Seq(S) /\ Len(b) = Len(a) + 1
        /\ \A k \in 1..(Len(a) + 1) : b[k] = IF k <= Len(a) THEN a[k] ELSE <<c>>[k - Len(a)]
    BY <1>1, <1>2, <1>3, ConcatProperties
  <1>5. \A k \in 1..(Len(a) + 1) : b[k] = IF k <= Len(a) THEN a[k] ELSE c
    <2> SUFFICES ASSUME NEW k \in 1..(Len(a) + 1), ~(k <= Len(a)) PROVE b[k] = c
      BY <1>4
    <2>1. k - Len(a) = 1
      BY <1>3
    <2> QED
      BY <1>2, <1>4, <2>1
  <1>6. /\ p \in Seq(S) /\ Len(p) = Len(b) + Len(q)
        /\ \A k \in 1..(Len(b) + Len(q)) : p[k] = IF k <= Len(b) THEN b[k] ELSE q[k - Len(b)]
    BY <1>1, <1>4, ConcatProperties
  <1>7. DOMAIN p = 1..(Len(a) + 1 + Len(q))
    BY <1>3, <1>4, <1>6, LenProperties
  <1>8. \A k \in DOMAIN p :
          \/ k <= Len(a) /\ k \in DOMAIN a /\ p[k] = a[k]
          \/ k = Len(a) + 1 /\ p[k] = c
          \/ k > Len(a) + 1 /\ k - (Len(a) + 1) \in DOMAIN q /\ p[k] = q[k - (Len(a) + 1)]
    <2> SUFFICES ASSUME NEW k \in DOMAIN p
                 PROVE  \/ k <= Len(a) /\ k \in DOMAIN a /\ p[k] = a[k]
                        \/ k = Len(a) + 1 /\ p[k] = c
                        \/ k > Len(a) + 1 /\ k - (Len(a) + 1) \in DOMAIN q /\ p[k] = q[k - (Len(a) + 1)]
      OBVIOUS
    <2>1. k \in Nat /\ k \in 1..(Len(b) + Len(q))
      BY <1>3, <1>4, <1>7
    <2>2. CASE k <= Len(a) + 1
      <3>1. k \in 1..(Len(a) + 1) /\ p[k] = b[k]
        BY <1>3, <1>4, <1>6, <1>7, <2>1, <2>2
      <3> QED
        BY <1>3, <1>5, <3>1
    <2>3. CASE k > Len(a) + 1
      <3>1. p[k] = q[k - (Len(a) + 1)]
        BY <1>3, <1>4, <1>6, <2>1, <2>3
      <3>2. k - (Len(a) + 1) \in 1..Len(q)
        BY <1>3, <1>7, <2>3
      <3> QED
        BY <1>3, <2>3, <3>1, <3>2
    <2> QED
      BY <1>3, <2>1, <2>2, <2>3
  <1>9. ASSUME NEW j \in DOMAIN p, NEW k \in DOMAIN p, p[j] = p[k] PROVE j = k
    <2>1. j \in Nat /\ k \in Nat
      BY <1>3, <1>7
    <2>2. CASE j <= Len(a)
      BY <1>3, <1>8, <1>9, <2>1, <2>2 DEF Apart
    <2>3. CASE j = Len(a) + 1
      BY <1>3, <1>8, <1>9, <2>1, <2>3 DEF Apart
    <2>4. CASE j > Len(a) + 1
      <3>1. j - (Len(a) + 1) \in DOMAIN q /\ p[j] = q[j - (Len(a) + 1)]
        BY <1>3, <1>8, <2>1, <2>4
      <3>2. k > Len(a) + 1 /\ k - (Len(a) + 1) \in DOMAIN q /\ p[k] = q[k - (Len(a) + 1)]
        BY <1>3, <1>8, <1>9, <2>1, <3>1 DEF Apart
      <3>3. j - (Len(a) + 1) = k - (Len(a) + 1)
        BY <1>9, <3>1, <3>2 DEF Apart
      <3> QED
        BY <1>3, <2>1, <3>3
    <2> QED
      BY <1>3, <2>1, <2>2, <2>3, <2>4
  <1> QED
    BY <1>6, <1>8, <1>9 DEF Written

\* The connections a step of the main thread hands over to the locker of n: c, whose
\* message has been read, and others out of the incubator.
HandsOver(c, r, others) ==
  /\ others \subseteq Conn /\ c \notin others
  /\ \A d \in others : Incubated(d) /\ msg[d].req.name = r.name
  /\ server' \in [Conn -> Name \cup {"none", "main", "closed"}]
  /\ \A d \in Conn : server'[d] = IF d \in others \cup {c} THEN r.name ELSE server[d]
  /\ msg' \in [Conn -> Pending]
  /\ msg'[c] = [step |-> 16, req |-> r]
  /\ \A d \in Conn : d # c => msg'[d] = msg[d]
  /\ pipe' \in [Name -> Seq(Conn)]
  /\ \A m \in Name : m # r.name => pipe'[m] = pipe[m]
  /\ \A k \in DOMAIN pipe'[r.name] :
       \/ pipe'[r.name][k] \in others \cup {c}
       \/ \E j \in DOMAIN pipe[r.name] : pipe'[r.name][k] = pipe[r.name][j]
  /\ \A j, k \in DOMAIN pipe'[r.name] : pipe'[r.name][j] = pipe'[r.name][k] => j = k

LEMMA TransferEffect ==
  ASSUME TypeOK, Pipes, NEW c \in Conn, server[c] = "main", NEW r \in Request, TransferConn(c, r)
  PROVE  \E others : HandsOver(c, r, others)
  <1>1. PICK n : n = r.name
    OBVIOUS
  <1>2. n \in Name /\ n \notin {"none", "main", "closed"}
    BY <1>1, RequestFields, SessionAssumption
  <1>3. PICK others : others = IF n \in exists THEN {}
                               ELSE {d \in Conn \ {c} : Incubated(d) /\ msg[d].req.name = n}
    OBVIOUS
  <1>4. PICK q : q = SetToSeq(others)
    OBVIOUS
  <1>5. /\ server' = [d \in Conn |-> IF d \in others \cup {c} THEN n ELSE server[d]]
        /\ msg' = [msg EXCEPT ![c] = [step |-> 16, req |-> r]]
        /\ pipe' = [pipe EXCEPT ![n] = pipe[n] \o <<c>> \o q]
    BY <1>1, <1>3, <1>4 DEF TransferConn, TypeOK
  <1>6. others \subseteq Conn /\ c \notin others /\ \A d \in others : Incubated(d) /\ msg[d].req.name = n
    BY <1>3
  <1>7. IsFiniteSet(others)
    BY <1>6, ConnFinite, FS_Subset
  <1>8. q \in Seq(others) /\ \A j, k \in DOMAIN q : q[j] = q[k] => j = k
    BY <1>4, <1>7, SetToSeqProperties
  <1>9. \A k \in DOMAIN q : q[k] \in others
    BY <1>8, ElementOfSeq
  <1>10. q \in Seq(Conn)
    BY <1>6, <1>8, SeqMonotonic
  <1>11. pipe[n] \in Seq(Conn)
    BY <1>2 DEF TypeOK
  <1>12. /\ \A k \in DOMAIN pipe[n] : server[pipe[n][k]] = n
         /\ \A j, k \in DOMAIN pipe[n] : pipe[n][j] = pipe[n][k] => j = k
    BY <1>2 DEF Pipes, PipeSound
  <1>13. \A d \in others : server[d] = "main"
    BY <1>6 DEF Incubated
  <1>14. PICK p : p = pipe[n] \o <<c>> \o q
    OBVIOUS
  <1>15. Apart(pipe[n], c, q)
    BY <1>2, <1>6, <1>8, <1>9, <1>12, <1>13 DEF Apart
  <1>16. /\ p \in Seq(Conn)
         /\ \A k \in DOMAIN p : p[k] = c \/ (\E j \in DOMAIN pipe[n] : p[k] = pipe[n][j])
                                  \/ (\E j \in DOMAIN q : p[k] = q[j])
         /\ \A j, k \in DOMAIN p : p[j] = p[k] => j = k
    <2>1. p \in Seq(Conn) /\ Written(pipe[n], c, q, p)
      BY <1>10, <1>11, <1>14, <1>15, WrittenProperties
    <2> QED
      BY <2>1 DEF Written
  <1>17. pipe' = [pipe EXCEPT ![n] = p]
    BY <1>5, <1>14
  <1>18. pipe'[n] = p /\ pipe' \in [Name -> Seq(Conn)] /\ \A m \in Name : m # n => pipe'[m] = pipe[m]
    BY <1>2, <1>16, <1>17 DEF TypeOK
  <1>19. \A k \in DOMAIN pipe'[n] :
           \/ pipe'[n][k] \in others \cup {c}
           \/ \E j \in DOMAIN pipe[n] : pipe'[n][k] = pipe[n][j]
    BY <1>9, <1>16, <1>18
  <1>20. /\ msg' \in [Conn -> Pending] /\ msg'[c] = [step |-> 16, req |-> r]
         /\ \A d \in Conn : d # c => msg'[d] = msg[d]
    BY <1>5 DEF TypeOK, Pending
  <1>21. /\ server' \in [Conn -> Name \cup {"none", "main", "closed"}]
         /\ \A d \in Conn : server'[d] = IF d \in others \cup {c} THEN n ELSE server[d]
    BY <1>2, <1>5 DEF TypeOK
  <1>22. HandsOver(c, r, others)
    BY <1>1, <1>6, <1>16, <1>18, <1>19, <1>20, <1>21 DEF HandsOver
  <1> QED
    BY <1>22

-------------------------------------------------------------------------------
(***************************************************************************)
(* The steps of the daemon.                                                *)
(***************************************************************************)

\* The daemon does nothing to handles, and never reopens a connection.
DaemonSide ==
  /\ UNCHANGED <<handleVars, end, asked>>
  /\ \A x \in Conn : server[x] \in Name \cup {"closed"} => server'[x] \in {server[x], "closed"}

LEMMA HandlesKept ==
  ASSUME TypeOK, Handles, DaemonSide
  PROVE  Handles'
  <1> SUFFICES ASSUME NEW h \in Handle PROVE HandleSound(h)' /\ Remembered(h)'
    BY DEF Handles
  <1>1. HandleSound(h) /\ Remembered(h)
    BY DEF Handles
  <1>2. HandleSound(h)'
    BY <1>1 DEF HandleSound, Current, DaemonSide, handleVars
  <1>3. CASE opened[h] > 0
    <2>1. Current(h) \in Conn /\ Current(h)' = Current(h)
      BY <1>1, <1>3, CurrentConn DEF DaemonSide, handleVars, Current
    <2> QED
      BY <1>1, <1>2, <2>1 DEF Remembered, DaemonSide, handleVars
  <1>4. CASE ~(opened[h] > 0)
    BY <1>2, <1>4 DEF Remembered, DaemonSide, handleVars
  <1> QED
    BY <1>3, <1>4

\* A step that leaves the connection x and its records alone.
SameFor(x) ==
  /\ up'[x] = up[x] /\ msg'[x] = msg[x] /\ server'[x] = server[x] /\ hup'[x] = hup[x]
  /\ down'[x] = down[x]
  /\ x \in null_fd' <=> x \in null_fd
  /\ \A m \in Name : /\ thread'[m] = "loop" => thread[m] = "loop"
                     /\ HasConn(holders'[m], x) <=> HasConn(holders[m], x)
                     /\ HasConn(waitings'[m], x) <=> HasConn(waitings[m], x)
                     /\ OnceFor(holders[m], x) => OnceFor(holders'[m], x)
                     /\ OnceFor(waitings[m], x) => OnceFor(waitings'[m], x)

LEMMA ConnKept ==
  ASSUME NEW x \in Conn, ConnSound(x), DaemonSide, SameFor(x)
  PROVE  ConnSound(x)'
  <1>1. \A m \in Name : /\ Has(holders, m, x)' <=> Has(holders, m, x)
                        /\ Has(waitings, m, x)' <=> Has(waitings, m, x)
    BY DEF SameFor, Has, HasConn
  <1>2. (Recorded(x)' <=> Recorded(x)) /\ (Stray(x)' => Stray(x))
    BY <1>1 DEF Recorded, Stray, SameFor
  <1>3. Unread(x)' <=> Unread(x)
    BY DEF SameFor, Unread
  <1>4. Single(x)' <=> Single(x)
    BY DEF Single, DaemonSide
  <1>5. SocketSound(x)'
    BY DEF ConnSound, SocketSound, Asked, SameFor, DaemonSide, handleVars
  <1>6. MsgSound(x)'
    BY DEF ConnSound, MsgSound, Asked, SameFor, DaemonSide
  <1>a. NullSound(x)'
    BY DEF ConnSound, NullSound, SameFor, DaemonSide
  <1>7. ASSUME Single(x) PROVE Once(x)'
    BY <1>1, <1>2, <1>3, <1>7 DEF ConnSound, Once, SameFor
  <1>8. ASSUME Single(x) PROVE Dropped(x)'
    <2>1. IsRefused(x)' <=> IsRefused(x)
      BY DEF IsRefused, SameFor, DaemonSide, handleVars
    <2> QED
      BY <1>2, <1>3, <1>8, <2>1 DEF ConnSound, Dropped, SameFor
  <1>9. HeldSound(x)'
    <2>1. IsGranted(x)' <=> IsGranted(x)
      BY DEF IsGranted, SameFor, DaemonSide, handleVars
    <2>2. Possible(x)' <=> Possible(x)
      BY DEF Possible, DaemonSide
    <2> QED
      BY <1>1, <2>1, <2>2 DEF ConnSound, HeldSound, SameFor, DaemonSide
  <1> QED
    BY <1>4, <1>5, <1>6, <1>a, <1>7, <1>8, <1>9 DEF ConnSound

\* The scans of the lockers that a step has nothing to do with.
LEMMA ScansKept ==
  ASSUME TypeOK, Scanned, NEW N,
         \A m \in Name : m \notin N => scan'[m] = scan[m] /\ thread'[m] = thread[m],
         \A x \in Conn : server[x] \notin N /\ msg[x] = NoMsg /\ end[x] # "open" =>
           \/ server[x] \notin Name
           \/ server'[x] = server[x] /\ msg'[x] = NoMsg /\ end'[x] # "open",
         \A n \in Name : n \in N => ScanSound(n)'
  PROVE  Scanned'
  <1> SUFFICES ASSUME NEW m \in Name, m \notin N PROVE ScanSound(m)'
    BY DEF Scanned
  <1>1. ScanSound(m) /\ scan'[m] = scan[m] /\ thread'[m] = thread[m] /\ scan[m] \in Scan
    BY DEF Scanned, TypeOK
  <1>2. scan[m] # NoScan => scan[m].conn \in Conn
    BY <1>1 DEF Scan
  <1> QED
    BY <1>1, <1>2 DEF ScanSound

\* Every record of the list new of the locker n is old, or of a connection it has.
FromOld(new, n) ==
  \A k \in DOMAIN new :
    \/ \E j \in DOMAIN holders[n] : new[k] = holders[n][j]
    \/ \E j \in DOMAIN waitings[n] : new[k] = waitings[n][j]
    \/ /\ new[k].conn \in Conn /\ server[new[k].conn] = n
       /\ \E j \in DOMAIN asked[new[k].conn] : asked[new[k].conn][j].quantity = new[k].quantity

LEMMA RecordsKept ==
  ASSUME TypeOK, Records, DaemonSide, \A n \in Name : FromOld(holders'[n], n) /\ FromOld(waitings'[n], n)
  PROVE  Records'
  <1>1. ASSUME NEW n \in Name, NEW new, FromOld(new, n), NEW k \in DOMAIN new
        PROVE  /\ server'[new[k].conn] \in {n, "closed"}
               /\ \E j \in DOMAIN asked[new[k].conn] :
                    asked[new[k].conn][j].quantity = new[k].quantity
    <2>1. /\ new[k].conn \in Conn /\ server[new[k].conn] \in {n, "closed"}
          /\ \E j \in DOMAIN asked[new[k].conn] :
               asked[new[k].conn][j].quantity = new[k].quantity
      <3>1. CASE \E j \in DOMAIN holders[n] : new[k] = holders[n][j]
        <4>1. PICK j \in DOMAIN holders[n] : new[k] = holders[n][j]
          BY <3>1
        <4>2. holders[n] \in Seq(Entry)
          BY DEF TypeOK
        <4>3. new[k].conn \in Conn
          BY <4>1, <4>2, EntryFields
        <4> QED
          BY <4>1, <4>3 DEF Records, RecordSound
      <3>2. CASE \E j \in DOMAIN waitings[n] : new[k] = waitings[n][j]
        <4>1. PICK j \in DOMAIN waitings[n] : new[k] = waitings[n][j]
          BY <3>2
        <4>2. waitings[n] \in Seq(Entry)
          BY DEF TypeOK
        <4>3. new[k].conn \in Conn
          BY <4>1, <4>2, EntryFields
        <4> QED
          BY <4>1, <4>3 DEF Records, RecordSound
      <3> QED
        BY <1>1, <3>1, <3>2 DEF FromOld
    <2>2. server'[new[k].conn] \in {n, "closed"}
      BY <2>1 DEF DaemonSide
    <2> QED
      BY <2>1, <2>2
  <1>2. asked' = asked
    BY DEF DaemonSide
  <1> QED
    BY <1>1, <1>2 DEF Records, RecordSound

LEMMA AddsOld ==
  ASSUME NEW list, \/ list = holders \/ list = waitings, NEW new, NEW n \in Name, NEW e,
         Adds(list, new, n, e), e.conn \in Conn, server[e.conn] = n,
         \E j \in DOMAIN asked[e.conn] : asked[e.conn][j].quantity = e.quantity
  PROVE  \A m \in Name : FromOld(new[m], m)
  BY DEF Adds, Gains, FromOld

LEMMA DropsOld ==
  ASSUME NEW list, \/ list = holders \/ list = waitings, NEW new, NEW n \in Name, NEW c,
         Drops(list, new, n, c)
  PROVE  \A m \in Name : FromOld(new[m], m)
  BY DEF Drops, Loses, FromOld

LEMMA SameOld == \A m \in Name : FromOld(holders[m], m) /\ FromOld(waitings[m], m)
  BY DEF FromOld

\* What adding and dropping records does for another connection, and for none.
LEMMA AddsOthers ==
  ASSUME NEW old, NEW new, NEW n, NEW e, NEW x, Adds(old, new, n, e), x # e.conn
  PROVE  \A m \in Name : /\ HasConn(new[m], x) <=> HasConn(old[m], x)
                         /\ OnceFor(old[m], x) => OnceFor(new[m], x)
  BY DEF Adds, Gains

LEMMA DropsOthers ==
  ASSUME NEW old, NEW new, NEW n, NEW c, NEW x, Drops(old, new, n, c), x # c
  PROVE  \A m \in Name : /\ HasConn(new[m], x) <=> HasConn(old[m], x)
                         /\ OnceFor(old[m], x) => OnceFor(new[m], x)
  BY DEF Drops, Loses

\* The locker of n handles the LOCK message r of its connection c.
Takes(c, n, r, step) ==
  /\ inmsg(c, n, r, step)
  /\ server[c] = n /\ Asked(c, r)
  /\ step = 24 /\ r.timeout = "zero" => hup[c] \/ end[c] # "open"
  /\ UNCHANGED <<handleVars, end, asked, server, hup, null_fd, moved, exists, crashes>>
  /\ scan' \in [Name -> Scan] /\ thread' \in [Name -> Thread]
  /\ \A m \in Name : m # n => scan'[m] = scan[m] /\ thread'[m] = thread[m]
  /\ thread[n] = "loop" /\ (c \in null_fd => thread'[n] # "loop")
  /\ up' \in [Conn -> Seq(Message)] /\ msg' \in [Conn -> Pending] /\ pipe' \in [Name -> Seq(Conn)]
  /\ \A x \in Conn : x # c => up'[x] = up[x] /\ msg'[x] = msg[x]
  /\ msg'[c] = NoMsg
  /\ \A k \in DOMAIN up'[c] : \E j \in DOMAIN up[c] : up'[c][k] = up[c][j]
  /\ Single(c) => (Unread(c) \/ msg[c] # NoMsg) /\ ~Unread(c)'

LEMMA TakesConn ==
  ASSUME SessionInv, NEW c \in Conn, NEW n \in Name, NEW r \in Request, NEW step \in {16, 24},
         Takes(c, n, r, step)
  PROVE  ConnSound(c)'
  <1>1. PICK e : e = [conn |-> c, quantity |-> r.quantity]
    OBVIOUS
  <1>2. TypeOK /\ ConnSound(c) /\ n # "main" /\ n # "none" /\ n # "closed" /\ e.conn = c
    BY <1>1, SessionAssumption DEF SessionInv, Conns
  <1>3. /\ \/ /\ Adds(holders, holders', n, e)
              /\ waitings' = waitings
              /\ NewAnswer(c, [step |-> step, rc |-> "OK"])
           \/ /\ Adds(waitings, waitings', n, e)
              /\ holders' = holders
              /\ NewAnswer(c, [step |-> step, rc |-> "ENQUEUED"])
           \/ /\ holders' = holders /\ waitings' = waitings
              /\ r.quantity > Total
              /\ NewAnswer(c, [step |-> step, rc |-> "IMPOSSIBLE"])
           \/ /\ holders' = holders /\ waitings' = waitings
              /\ r.timeout = "zero"
              /\ NewAnswer(c, [step |-> step, rc |-> "BUSY"])
    <2>1. inmsg(c, n, r, step)
      BY DEF Takes
    <2> QED
      BY <1>1, <1>2, <2>1, InmsgEffect
  <1>4. SocketSound(c)'
    <2>1. SocketSound(c) /\ ~(c[2] > opened[c[1]])
      BY <1>2 DEF ConnSound, SocketSound, Takes
    <2>2. opened' = opened /\ end' = end /\ server' = server /\ asked' = asked
      BY DEF Takes, handleVars
    <2>3. \A k \in DOMAIN up'[c] : \E j \in DOMAIN up[c] : up'[c][k] = up[c][j]
      BY DEF Takes
    <2> QED
      BY <2>1, <2>2, <2>3 DEF SocketSound, Asked
  <1>5. MsgSound(c)' /\ NullSound(c)'
    BY <1>2 DEF ConnSound, MsgSound, NullSound, Takes
  <1>6. (Single(c)' <=> Single(c)) /\ (Possible(c)' <=> Possible(c))
    BY DEF Single, Possible, Takes
  <1>7. ASSUME Single(c) PROVE Once(c)' /\ Dropped(c)'
    <2>1. ~Recorded(c) /\ ~IsRefused(c) /\ ~Unread(c)' /\ Once(c)
      BY <1>2, <1>7 DEF ConnSound, Once, Dropped, Takes
    <2>2. \A m \in Name : ~HasConn(holders[m], c) /\ ~HasConn(waitings[m], c)
      BY <2>1 DEF Recorded, Has, HasConn
    <2>3. ASSUME NEW m \in Name
          PROVE  /\ OnceFor(holders'[m], c) /\ OnceFor(waitings'[m], c)
                 /\ ~(HasConn(holders'[m], c) /\ HasConn(waitings'[m], c))
      <3>1. OnceFor(holders[m], c) /\ OnceFor(waitings[m], c)
        BY <2>1 DEF Once
      <3> QED
        BY <1>2, <1>3, <2>2, <3>1 DEF Adds, Gains
    <2>4. Once(c)'
      BY <1>2, <2>1, <2>3 DEF Once, Has, HasConn, Unread, Takes
    <2>5. ASSUME IsRefused(c)' PROVE holders' = holders /\ waitings' = waitings
      <3>1. ~(result[c[1]] = "REFUSED" /\ c[2] = opened[c[1]])
        BY <2>1 DEF IsRefused
      <3>2. PICK k \in DOMAIN down'[c] : Refusal(down'[c][k])
        BY <2>5, <3>1 DEF IsRefused, Takes, handleVars
      <3>3. ~\E j \in DOMAIN down[c] : down'[c][k] = down[c][j]
        BY <2>1, <3>2 DEF IsRefused
      <3> QED
        BY <1>3, <3>2, <3>3 DEF NewAnswer, Refusal
    <2>6. Dropped(c)'
      BY <2>1, <2>5 DEF Dropped, Recorded, Has, Takes
    <2> QED
      BY <2>4, <2>6
  <1>8. HeldSound(c)'
    <2> SUFFICES ASSUME end[c] = "open", IsGranted(c)', Possible(c)
                 PROVE  HasConn(holders'[n], c)
      BY <1>2, <1>6 DEF HeldSound, Has, HasConn, Takes
    <2>1. HasConn(holders[n], c) => HasConn(holders'[n], c)
      BY <1>3 DEF Adds, Gains
    <2>2. CASE IsGranted(c)
      BY <1>2, <2>1, <2>2 DEF ConnSound, HeldSound, Has, HasConn, Takes
    <2>3. CASE ~IsGranted(c)
      <3>1. PICK k \in DOMAIN down'[c] : Grants(down'[c][k])
        BY <2>3 DEF IsGranted, Takes, handleVars
      <3>2. ~\E j \in DOMAIN down[c] : down'[c][k] = down[c][j]
        BY <2>3, <3>1 DEF IsGranted
      <3>3. ~(r.quantity > Total)
        <4>1. PICK j \in DOMAIN asked[c] : asked[c][j] = r
          BY DEF Takes, Asked
        <4>2. r.quantity <= Total
          BY <4>1 DEF Possible
        <4>3. r.quantity \in Nat /\ Total \in Nat
          BY RequestFields, SessionAssumption
        <4> QED
          BY <4>2, <4>3
      <3>4. CASE Adds(holders, holders', n, e)
        BY <1>2, <3>4 DEF Adds, Gains
      <3>5. CASE NewAnswer(c, [step |-> step, rc |-> "ENQUEUED"])
        BY <3>1, <3>2, <3>5 DEF NewAnswer, Grants
      <3>6. CASE r.timeout = "zero" /\ NewAnswer(c, [step |-> step, rc |-> "BUSY"])
        <4>1. down'[c][k] = [step |-> step, rc |-> "BUSY"] /\ ~hup[c]
          BY <3>1, <3>2, <3>6 DEF NewAnswer
        <4>2. step = 24
          BY <3>1, <4>1 DEF Grants
        <4> QED
          BY <3>6, <4>1, <4>2 DEF Takes
      <3> QED
        BY <1>3, <3>3, <3>4, <3>5, <3>6
    <2> QED
      BY <2>2, <2>3
  <1> QED
    BY <1>4, <1>5, <1>6, <1>7, <1>8 DEF ConnSound

LEMMA TakesInv ==
  ASSUME SessionInv, NEW c \in Conn, NEW n \in Name, NEW r \in Request, NEW step \in {16, 24},
         Takes(c, n, r, step), Pipes', ScanSound(n)'
  PROVE  SessionInv'
  <1>1. PICK e : e = [conn |-> c, quantity |-> r.quantity]
    OBVIOUS
  <1>2. TypeOK /\ e.conn = c /\ e.quantity = r.quantity
    BY <1>1 DEF SessionInv
  <1>3. /\ \/ /\ Adds(holders, holders', n, e) /\ Sum(holders'[n]) <= Total
              /\ waitings' = waitings
           \/ /\ Adds(waitings, waitings', n, e)
              /\ holders' = holders
           \/ holders' = holders /\ waitings' = waitings
        /\ \E a : NewAnswer(c, a)
    BY <1>1, <1>2, InmsgEffect DEF Takes
  <1>4. DaemonSide
    BY DEF DaemonSide, Takes
  <1>5. TypeOK'
    <2>1. holders' \in [Name -> Seq(Entry)] /\ waitings' \in [Name -> Seq(Entry)]
      BY <1>2, <1>3 DEF TypeOK, Adds
    <2>2. down' \in [Conn -> Seq(Answer)]
      BY <1>3 DEF NewAnswer
    <2> QED
      BY <1>2, <2>1, <2>2 DEF TypeOK, Takes, handleVars
  <1>6. Handles'
    BY <1>2, <1>4, HandlesKept DEF SessionInv
  <1>7. ASSUME NEW x \in Conn PROVE ConnSound(x)'
    <2>1. CASE x = c
      BY <2>1, TakesConn
    <2>2. CASE x # c
      <3>1. \A m \in Name : /\ HasConn(holders'[m], x) <=> HasConn(holders[m], x)
                            /\ OnceFor(holders[m], x) => OnceFor(holders'[m], x)
        BY <1>2, <1>3, <2>2, AddsOthers
      <3>2. \A m \in Name : /\ HasConn(waitings'[m], x) <=> HasConn(waitings[m], x)
                            /\ OnceFor(waitings[m], x) => OnceFor(waitings'[m], x)
        BY <1>2, <1>3, <2>2, AddsOthers
      <3>3. down'[x] = down[x]
        BY <1>3, <2>2 DEF NewAnswer
      <3>4. SameFor(x)
        BY <2>2, <3>1, <3>2, <3>3 DEF SameFor, Takes
      <3> QED
        BY <1>4, <3>4, ConnKept DEF SessionInv, Conns
    <2> QED
      BY <2>1, <2>2
  <1>8. Records'
    <2>1. \E j \in DOMAIN asked[e.conn] : asked[e.conn][j].quantity = e.quantity
      BY <1>2 DEF Takes, Asked
    <2>2. e.conn \in Conn /\ server[e.conn] = n
      BY <1>2 DEF Takes
    <2>3. \A m \in Name : FromOld(holders'[m], m)
      BY <1>3, <2>1, <2>2, AddsOld, SameOld
    <2>4. \A m \in Name : FromOld(waitings'[m], m)
      BY <1>3, <2>1, <2>2, AddsOld, SameOld
    <2> QED
      BY <1>2, <1>4, <2>3, <2>4, RecordsKept DEF SessionInv
  <1>9. Committed'
    BY <1>3 DEF SessionInv, Committed, Adds
  <1>10. Scanned'
    <2>1. \A x \in Conn : server[x] \notin {n} /\ msg[x] = NoMsg /\ end[x] # "open" =>
            server'[x] = server[x] /\ msg'[x] = NoMsg /\ end'[x] # "open"
      BY DEF Takes
    <2>2. \A m \in Name : m \notin {n} => scan'[m] = scan[m] /\ thread'[m] = thread[m]
      BY DEF Takes
    <2>3. \A m \in Name : m \in {n} => ScanSound(m)'
      OBVIOUS
    <2> QED
      BY <1>2, <2>1, <2>2, <2>3, ScansKept DEF SessionInv
  <1> QED
    BY <1>5, <1>6, <1>7, <1>8, <1>9, <1>10 DEF SessionInv, Conns

LEMMA LockerTakeInv ==
  ASSUME SessionInv, NEW n \in Name, LockerTake(n)
  PROVE  SessionInv'
  <1>1. TypeOK /\ Conns /\ Pipes
    BY DEF SessionInv
  <1>2. PICK s : s = pipe[n]
    OBVIOUS
  <1>3. s \in Seq(Conn) /\ s # <<>>
    BY <1>1, <1>2 DEF TypeOK, LockerTake
  <1>4. PICK c : c = Head(s)
    OBVIOUS
  <1>5. /\ c \in Conn /\ c = s[1] /\ 1 \in DOMAIN s /\ Tail(s) \in Seq(Conn)
        /\ DOMAIN Tail(s) = 1..(Len(s) - 1)
        /\ \A j \in 1..(Len(s) - 1) : Tail(s)[j] = s[j + 1] /\ j + 1 \in DOMAIN s
    BY <1>3, <1>4, ReadProperties
  <1>6. server[c] = n /\ msg[c] # NoMsg
    BY <1>1, <1>2, <1>5 DEF Pipes, PipeSound
  <1>7. ConnSound(c) /\ msg[c] \in Pending
    BY <1>1, <1>5 DEF Conns, TypeOK
  <1>8. PICK r : r = msg[c].req
    OBVIOUS
  <1>9. PICK step : step = msg[c].step
    OBVIOUS
  <1>10. r \in Request /\ step \in {16, 24}
    BY <1>6, <1>7, <1>8, <1>9, PendingFields
  <1>11. /\ inmsg(c, n, r, step)
         /\ msg' = [msg EXCEPT ![c] = NoMsg]
         /\ pipe' = [pipe EXCEPT ![n] = Tail(s)]
         /\ UNCHANGED <<handleVars, end, up, asked, server, hup, null_fd, moved, exists, scan, crashes>>
    BY <1>1, <1>2, <1>4, <1>8, <1>9 DEF LockerTake, TypeOK
  <1>a. /\ thread[n] = "loop" /\ scan[n] = NoScan
        /\ \/ c \notin null_fd /\ thread' = thread
           \/ thread' = [thread EXCEPT ![n] = "ends"]
           \/ thread' = [thread EXCEPT ![n] = "orphan"]
    BY <1>2, <1>4 DEF LockerTake, Polling
  <1>b. /\ scan' \in [Name -> Scan] /\ thread' \in [Name -> Thread]
        /\ \A m \in Name : m # n => scan'[m] = scan[m] /\ thread'[m] = thread[m]
        /\ c \in null_fd => thread'[n] # "loop"
    BY <1>1, <1>11, <1>a DEF TypeOK, Thread
  <1>c. ScanSound(n)'
    BY <1>11, <1>a DEF ScanSound
  <1>12. Takes(c, n, r, step)
    <2>1. Asked(c, r) /\ (step = 24 /\ r.timeout = "zero" => hup[c] \/ end[c] # "open")
      BY <1>6, <1>7, <1>8, <1>9 DEF ConnSound, MsgSound
    <2>2. msg' \in [Conn -> Pending] /\ msg'[c] = NoMsg /\ \A x \in Conn : x # c => msg'[x] = msg[x]
      BY <1>1, <1>5, <1>11 DEF TypeOK, Pending
    <2>3. pipe' \in [Name -> Seq(Conn)] /\ up' \in [Conn -> Seq(Message)]
      BY <1>1, <1>5, <1>11 DEF TypeOK
    <2>4. Single(c) => ~Unread(c)
      BY <1>6, <1>7 DEF ConnSound, Once
    <2>5. Single(c) => ~Unread(c)'
      BY <1>11, <2>4 DEF Unread
    <2> QED
      BY <1>6, <1>11, <1>a, <1>b, <2>1, <2>2, <2>3, <2>5 DEF Takes
  <1>13. Pipes'
    <2> SUFFICES ASSUME NEW m \in Name PROVE PipeSound(m)'
      BY DEF Pipes
    <2>1. PipeSound(m)
      BY <1>1 DEF Pipes
    <2>2. server' = server /\ \A x \in Conn : x # c => msg'[x] = msg[x]
      BY <1>1, <1>11 DEF TypeOK
    <2>3. CASE m # n
      <3>1. pipe'[m] = pipe[m] /\ \A k \in DOMAIN pipe[m] : pipe[m][k] \in Conn
        <4>1. pipe[m] \in Seq(Conn)
          BY <1>1 DEF TypeOK
        <4>2. \A k \in DOMAIN pipe[m] : pipe[m][k] \in Conn
          BY <4>1, ElementOfSeq
        <4> QED
          BY <1>1, <1>11, <2>3, <4>2 DEF TypeOK
      <3> QED
        BY <1>6, <2>1, <2>2, <2>3, <3>1 DEF PipeSound
    <2>4. CASE m = n
      <3>1. pipe'[n] = Tail(s) /\ Len(s) \in Nat
        BY <1>1, <1>3, <1>11, LenProperties DEF TypeOK
      <3>2. \A j \in DOMAIN Tail(s) : j + 1 \in DOMAIN s /\ Tail(s)[j] = s[j + 1] /\ j + 1 # 1
        BY <1>5, <3>1
      <3>3. \A j \in DOMAIN Tail(s) : Tail(s)[j] # c /\ server[Tail(s)[j]] = n /\ msg[Tail(s)[j]] # NoMsg
        BY <1>2, <1>5, <2>1, <2>4, <3>2 DEF PipeSound
      <3>4. \A j \in DOMAIN Tail(s) : Tail(s)[j] \in Conn
        BY <1>5, ElementOfSeq
      <3>5. ASSUME NEW j \in DOMAIN Tail(s), NEW k \in DOMAIN Tail(s), Tail(s)[j] = Tail(s)[k]
            PROVE  j = k
        <4>1. j + 1 = k + 1
          BY <1>2, <2>1, <2>4, <3>2, <3>5 DEF PipeSound
        <4>2. j \in Nat /\ k \in Nat
          BY <1>5, <3>1
        <4> QED
          BY <4>1, <4>2
      <3> QED
        BY <2>2, <2>4, <3>1, <3>3, <3>4, <3>5 DEF PipeSound
    <2> QED
      BY <2>3, <2>4
  <1> QED
    BY <1>5, <1>10, <1>12, <1>13, <1>c, TakesInv

\* t is what is left of the messages s when the first one has been read.
Rest(s, t) ==
  /\ Head(s) \in Message /\ Head(s).req \in Request /\ t \in Seq(Message)
  /\ 1 \in DOMAIN s /\ s[1] = Head(s)
  /\ \A k \in DOMAIN t : \E j \in DOMAIN s : t[k] = s[j]
  /\ (\A j, k \in DOMAIN s : s[j].verb = "LOCK" /\ s[k].verb = "LOCK" => j = k) =>
       /\ \A j, k \in DOMAIN t : t[j].verb = "LOCK" /\ t[k].verb = "LOCK" => j = k
       /\ Head(s).verb = "LOCK" => \A k \in DOMAIN t : t[k].verb # "LOCK"

LEMMA MessageRead ==
  ASSUME NEW s \in Seq(Message), s # <<>>, NEW t, t = Tail(s)
  PROVE  Rest(s, t)
  <1>1. /\ Head(s) \in Message /\ t \in Seq(Message)
        /\ 1 \in DOMAIN s /\ s[1] = Head(s) /\ DOMAIN t = 1..(Len(s) - 1)
        /\ \A j \in 1..(Len(s) - 1) : t[j] = s[j + 1] /\ j + 1 \in DOMAIN s
    BY ReadProperties
  <1>2. Len(s) \in Nat
    BY LenProperties
  <1>3. \A j \in DOMAIN t : j \in Nat /\ j + 1 \in DOMAIN s /\ t[j] = s[j + 1] /\ j + 1 # 1
    BY <1>1, <1>2
  <1>4. Head(s).req \in Request
    BY <1>1 DEF Message
  <1>5. ASSUME \A j, k \in DOMAIN s : s[j].verb = "LOCK" /\ s[k].verb = "LOCK" => j = k
        PROVE  /\ \A j, k \in DOMAIN t : t[j].verb = "LOCK" /\ t[k].verb = "LOCK" => j = k
               /\ Head(s).verb = "LOCK" => \A k \in DOMAIN t : t[k].verb # "LOCK"
    <2>1. ASSUME NEW j \in DOMAIN t, NEW k \in DOMAIN t, t[j].verb = "LOCK", t[k].verb = "LOCK"
          PROVE  j = k
      <3>1. j + 1 = k + 1
        BY <1>3, <1>5, <2>1
      <3> QED
        BY <1>3, <3>1
    <2>2. ASSUME Head(s).verb = "LOCK", NEW k \in DOMAIN t PROVE t[k].verb # "LOCK"
      BY <1>1, <1>3, <1>5, <2>2
    <2> QED
      BY <2>1, <2>2
  <1> QED
    BY <1>1, <1>3, <1>4, <1>5 DEF Rest

\* Where the only LOCK of a connection is not, when it is the message that is read.
LEMMA OnlyLock ==
  ASSUME NEW c, ConnSound(c), Single(c), NEW t, Rest(up[c], t), Head(up[c]).verb = "LOCK"
  PROVE  /\ Unread(c) /\ msg[c] = NoMsg /\ ~Recorded(c) /\ ~IsRefused(c)
         /\ \A k \in DOMAIN t : t[k].verb # "LOCK"
  <1>1. Unread(c)
    BY DEF Unread, Rest
  <1>2. Once(c) /\ Dropped(c)
    BY DEF ConnSound
  <1>3. \A k \in DOMAIN t : t[k].verb # "LOCK"
    BY <1>2 DEF Once, Rest
  <1> QED
    BY <1>1, <1>2, <1>3 DEF Once, Dropped

LEMMA LockerLockInv ==
  ASSUME SessionInv, NEW c \in Conn, NEW n \in Name, LockerLock(c, n)
  PROVE  SessionInv'
  <1>1. TypeOK /\ Conns /\ Pipes /\ ConnSound(c)
    BY DEF SessionInv, Conns
  <1>2. server[c] = n /\ msg[c] = NoMsg /\ up[c] # <<>> /\ Head(up[c]).verb = "LOCK"
    BY DEF LockerLock, Polled
  <1>a. /\ thread[n] = "loop" /\ scan[n] = NoScan
        /\ scan' = scan \/ (ConnectionClosed(c) /\ scan' = [scan EXCEPT ![n] = [path |-> "reclean", conn |-> c]])
    BY DEF LockerLock, Polled, Polling
  <1>b. c \notin null_fd
    BY <1>1, <1>2, <1>a DEF ConnSound, NullSound
  <1>3. PICK t : t = Tail(up[c])
    OBVIOUS
  <1>4. PICK r : r = Head(up[c]).req
    OBVIOUS
  <1>5. /\ r \in Request /\ t \in Seq(Message)
        /\ 1 \in DOMAIN up[c] /\ up[c][1] = Head(up[c])
        /\ \A k \in DOMAIN t : \E j \in DOMAIN up[c] : t[k] = up[c][j]
        /\ Single(c) => Unread(c) /\ \A k \in DOMAIN t : t[k].verb # "LOCK"
    <2>1. up[c] \in Seq(Message)
      BY <1>1 DEF TypeOK
    <2>2. Rest(up[c], t)
      BY <1>2, <1>3, <2>1, MessageRead
    <2>3. Single(c) => Unread(c) /\ \A k \in DOMAIN t : t[k].verb # "LOCK"
      BY <1>1, <1>2, <2>2, OnlyLock
    <2> QED
      BY <1>4, <2>2, <2>3 DEF Rest
  <1>6. /\ inmsg(c, n, r, 16)
        /\ up' = [up EXCEPT ![c] = t]
        /\ UNCHANGED <<handleVars, end, asked, server, msg, pipe, hup, null_fd, moved, exists, thread, crashes>>
    BY <1>1, <1>3, <1>4 DEF LockerLock, TypeOK, mainVars
  <1>c. /\ scan' \in [Name -> Scan] /\ thread' \in [Name -> Thread]
        /\ \A m \in Name : m # n => scan'[m] = scan[m] /\ thread'[m] = thread[m]
    <2>1. [path |-> "reclean", conn |-> c] \in Scan
      BY DEF Scan
    <2> QED
      BY <1>1, <1>6, <1>a, <2>1 DEF TypeOK
  <1>d. ScanSound(n)'
    <2>1. CASE scan' = scan
      BY <1>a, <2>1 DEF ScanSound
    <2>2. CASE ConnectionClosed(c) /\ scan' = [scan EXCEPT ![n] = [path |-> "reclean", conn |-> c]]
      <3>1. scan'[n].conn = c
        BY <1>1, <2>2 DEF TypeOK
      <3> QED
        BY <1>2, <1>6, <1>a, <1>b, <2>2, <3>1 DEF ScanSound, ConnectionClosed
    <2> QED
      BY <1>a, <2>1, <2>2
  <1>7. Takes(c, n, r, 16)
    <2>1. Asked(c, r)
      BY <1>1, <1>2, <1>4, <1>5 DEF ConnSound, SocketSound
    <2>2. /\ up' \in [Conn -> Seq(Message)] /\ up'[c] = t
          /\ \A x \in Conn : x # c => up'[x] = up[x]
      BY <1>1, <1>5, <1>6 DEF TypeOK
    <2>3. Single(c) => Unread(c) /\ ~Unread(c)'
      BY <1>5, <2>2 DEF Unread
    <2>4. msg' \in [Conn -> Pending] /\ pipe' \in [Name -> Seq(Conn)]
      BY <1>1, <1>6 DEF TypeOK
    <2> QED
      BY <1>2, <1>5, <1>6, <1>a, <1>b, <1>c, <2>1, <2>2, <2>3, <2>4 DEF Takes
  <1>8. Pipes'
    BY <1>1, <1>6 DEF Pipes, PipeSound
  <1> QED
    BY <1>5, <1>7, <1>8, <1>d, TakesInv

\* No pipe holds a connection that has no message for a locker.
LEMMA PipesKept ==
  ASSUME TypeOK, Pipes, msg' = msg, pipe' = pipe,
         NEW c \in Conn, msg[c] = NoMsg, \A x \in Conn : x # c => server'[x] = server[x]
  PROVE  Pipes'
  <1> SUFFICES ASSUME NEW m \in Name PROVE PipeSound(m)'
    BY DEF Pipes
  <1>1. PipeSound(m)
    BY DEF Pipes
  <1>2. pipe[m] \in Seq(Conn)
    BY DEF TypeOK
  <1>3. \A k \in DOMAIN pipe[m] : pipe[m][k] \in Conn
    BY <1>2, ElementOfSeq
  <1> QED
    BY <1>1, <1>3 DEF PipeSound

\* The locker of n cleans the connection c, which the client has half closed at
\* least, and reads a message from it or closes it.
Cleans(c, n, how) ==
  /\ clean(c, n, how) /\ how \in {"unlock", "error"}
  /\ server[c] = n /\ msg[c] = NoMsg /\ end[c] # "open" /\ thread[n] = "loop"
  /\ UNCHANGED cleanFrame
  /\ server' \in [Conn -> Name \cup {"none", "main", "closed"}] /\ hup' \in [Conn -> BOOLEAN]
  /\ up' \in [Conn -> Seq(Message)]
  /\ \A x \in Conn : x # c => server'[x] = server[x] /\ hup'[x] = hup[x] /\ up'[x] = up[x]
  /\ server'[c] \in {n, "closed"} /\ (how = "unlock" => server'[c] = n)
  /\ \A k \in DOMAIN up'[c] : \E j \in DOMAIN up[c] : up'[c][k] = up[c][j]
  /\ (\A j, k \in DOMAIN up[c] : up[c][j].verb = "LOCK" /\ up[c][k].verb = "LOCK" => j = k) =>
       \A j, k \in DOMAIN up'[c] : up'[c][j].verb = "LOCK" /\ up'[c][k].verb = "LOCK" => j = k

LEMMA CleansConn ==
  ASSUME SessionInv, NEW c \in Conn, NEW n \in Name, NEW how, Cleans(c, n, how)
  PROVE  ConnSound(c)'
  <1>1. TypeOK /\ Records /\ ConnSound(c) /\ n # "main" /\ n # "none" /\ n # "closed"
    BY SessionAssumption DEF SessionInv, Conns
  <1>2. server[c] = n /\ msg[c] = NoMsg /\ msg'[c] = NoMsg /\ end[c] # "open" /\ clean(c, n, how)
    BY DEF Cleans, cleanFrame
  <1>a. NullSound(c)'
    BY <1>1, <1>2 DEF ConnSound, NullSound, Cleans, cleanFrame
  <1>3. /\ Drops(holders, holders', n, c)
        /\ \/ Has(holders, n, c) /\ waitings' = waitings
           \/ Drops(waitings, waitings', n, c)
    BY <1>1, <1>2, CleanEffect
  <1>4. SocketSound(c)'
    <2>1. SocketSound(c) /\ ~(c[2] > opened[c[1]])
      BY <1>1, <1>2 DEF ConnSound, SocketSound
    <2>2. opened' = opened /\ end' = end /\ asked' = asked /\ server'[c] # "main" /\ server'[c] # "none"
      BY <1>1, <1>2 DEF Cleans, cleanFrame, handleVars
    <2>3. \A k \in DOMAIN up'[c] : \E j \in DOMAIN up[c] : up'[c][k] = up[c][j]
      BY DEF Cleans
    <2> QED
      BY <1>2, <2>1, <2>2, <2>3 DEF SocketSound, Asked
  <1>5. MsgSound(c)'
    <2>1. server'[c] \in Name => server'[c] = server[c]
      BY <1>2, SessionAssumption DEF Cleans
    <2>2. asked' = asked
      BY DEF Cleans, cleanFrame
    <2> QED
      BY <1>1, <1>2, <2>1, <2>2 DEF ConnSound, MsgSound
  <1>6. Single(c)' <=> Single(c)
    BY DEF Single, Cleans, cleanFrame
  <1>7. ASSUME Single(c) PROVE Once(c)' /\ Dropped(c)'
    <2>1. Once(c) /\ Dropped(c)
      BY <1>1, <1>7 DEF ConnSound
    <2>2. ASSUME NEW m \in Name PROVE ~HasConn(holders'[m], c) /\ ~HasConn(waitings'[m], c)
      <3>1. CASE m = n
        <4>1. /\ OnceFor(holders[n], c) /\ OnceFor(waitings[n], c)
              /\ ~(HasConn(holders[n], c) /\ HasConn(waitings[n], c))
          BY <2>1 DEF Once, Has, HasConn
        <4>2. ~HasConn(holders'[n], c)
          BY <1>3, <4>1 DEF Drops, Loses
        <4>3. ~HasConn(waitings'[n], c)
          BY <1>3, <4>1 DEF Drops, Loses, Has, HasConn
        <4> QED
          BY <3>1, <4>2, <4>3
      <3>2. CASE m # n
        <4>1. holders'[m] = holders[m] /\ waitings'[m] = waitings[m]
          BY <1>3, <3>2 DEF Drops
        <4>2. ~HasConn(holders[m], c) /\ ~HasConn(waitings[m], c)
          BY <1>1, <1>2, <3>2 DEF Records, RecordSound, HasConn
        <4> QED
          BY <4>1, <4>2
      <3> QED
        BY <3>1, <3>2
    <2>3. ~Recorded(c)' /\ ~Stray(c)'
      BY <2>2 DEF Recorded, Stray, Has, HasConn
    <2>4. \A m \in Name : /\ OnceFor(holders'[m], c) /\ OnceFor(waitings'[m], c)
                          /\ ~(Has(holders, m, c)' /\ Has(waitings, m, c)')
      BY <2>2 DEF OnceFor, HasConn, Has
    <2>5. \A j, k \in DOMAIN up'[c] : up'[c][j].verb = "LOCK" /\ up'[c][k].verb = "LOCK" => j = k
      BY <2>1 DEF Once, Cleans
    <2>6. Unread(c)' => Unread(c)
      BY DEF Unread, Cleans
    <2>7. IsRefused(c)' <=> IsRefused(c)
      BY DEF IsRefused, Cleans, cleanFrame, handleVars
    <2> QED
      BY <1>2, <2>1, <2>3, <2>4, <2>5, <2>6, <2>7 DEF Once, Dropped
  <1>8. HeldSound(c)'
    BY <1>2 DEF HeldSound, Cleans, cleanFrame
  <1> QED
    BY <1>4, <1>5, <1>6, <1>7, <1>8, <1>a DEF ConnSound

LEMMA CleansInv ==
  ASSUME SessionInv, NEW c \in Conn, NEW n \in Name, NEW how, Cleans(c, n, how)
  PROVE  SessionInv'
  <1>1. TypeOK /\ clean(c, n, how)
    BY DEF SessionInv, Cleans
  <1>2. /\ Drops(holders, holders', n, c)
        /\ \A m \in Name : Sum(holders'[m]) <= Sum(holders[m])
        /\ waitings' = waitings \/ Drops(waitings, waitings', n, c)
    BY <1>1, CleanEffect
  <1>3. DaemonSide
    BY DEF DaemonSide, Cleans, cleanFrame
  <1>a. /\ scan' \in [Name -> Scan] /\ scan'[n] \in {NoScan, [path |-> how, conn |-> c]}
        /\ \A m \in Name : m # n => scan'[m] = scan[m]
    <2>1. [path |-> how, conn |-> c] \in Scan /\ NoScan \in Scan
      BY DEF Scan, Cleans
    <2> QED
      BY <1>1, <2>1 DEF clean, TypeOK
  <1>4. TypeOK'
    <2>1. holders' \in [Name -> Seq(Entry)] /\ waitings' \in [Name -> Seq(Entry)]
      BY <1>1, <1>2 DEF TypeOK, Drops
    <2> QED
      BY <1>1, <1>a, <2>1 DEF TypeOK, Cleans, cleanFrame, handleVars
  <1>5. Handles'
    BY <1>1, <1>3, HandlesKept DEF SessionInv
  <1>6. ASSUME NEW x \in Conn PROVE ConnSound(x)'
    <2>1. CASE x = c
      BY <2>1, CleansConn
    <2>2. CASE x # c
      <3>1. \A m \in Name : /\ HasConn(holders'[m], x) <=> HasConn(holders[m], x)
                            /\ OnceFor(holders[m], x) => OnceFor(holders'[m], x)
        BY <1>2, <2>2, DropsOthers
      <3>2. \A m \in Name : /\ HasConn(waitings'[m], x) <=> HasConn(waitings[m], x)
                            /\ OnceFor(waitings[m], x) => OnceFor(waitings'[m], x)
        BY <1>2, <2>2, DropsOthers
      <3>3. SameFor(x)
        BY <2>2, <3>1, <3>2 DEF SameFor, Cleans, cleanFrame
      <3> QED
        BY <1>3, <3>3, ConnKept DEF SessionInv, Conns
    <2> QED
      BY <2>1, <2>2
  <1>7. Pipes'
    BY <1>1, PipesKept DEF SessionInv, Cleans, cleanFrame
  <1>8. Records'
    <2>1. \A m \in Name : FromOld(holders'[m], m)
      BY <1>2, DropsOld
    <2>2. \A m \in Name : FromOld(waitings'[m], m)
      BY <1>2, DropsOld, SameOld
    <2> QED
      BY <1>1, <1>3, <2>1, <2>2, RecordsKept DEF SessionInv
  <1>9. Committed'
    <2> SUFFICES ASSUME NEW m \in Name PROVE Sum(holders'[m]) <= Total
      BY DEF Committed
    <2>1. Sum(holders[m]) <= Total
      BY DEF SessionInv, Committed
    <2>2. holders[m] \in Seq(Entry) /\ holders'[m] \in Seq(Entry)
      BY <1>1, <1>4 DEF TypeOK
    <2>3. Sum(holders[m]) \in Nat /\ Sum(holders'[m]) \in Nat /\ Total \in Nat
      BY <2>2, SumType, SessionAssumption
    <2>4. Sum(holders'[m]) <= Sum(holders[m])
      BY <1>2
    <2> QED
      BY <2>1, <2>3, <2>4
  <1>10. Scanned'
    <2>1. \A x \in Conn : server[x] \notin {n} /\ msg[x] = NoMsg /\ end[x] # "open" =>
            server'[x] = server[x] /\ msg'[x] = NoMsg /\ end'[x] # "open"
      BY DEF Cleans, cleanFrame
    <2>2. \A m \in Name : m \notin {n} => scan'[m] = scan[m] /\ thread'[m] = thread[m]
      BY <1>a DEF Cleans, cleanFrame
    <2>3. ScanSound(n)'
      <3>1. CASE scan'[n] = NoScan
        BY <3>1 DEF ScanSound
      <3>2. CASE scan'[n] = [path |-> how, conn |-> c]
        <4>1. scan'[n].path = how /\ scan'[n].conn = c
          BY <3>2
        <4>2. thread'[n] = "loop" /\ msg'[c] = NoMsg /\ end'[c] # "open"
          BY DEF Cleans, cleanFrame
        <4>3. how # "error" => server'[c] = n
          BY DEF Cleans
        <4> QED
          BY <4>1, <4>2, <4>3 DEF ScanSound
      <3> QED
        BY <1>a, <3>1, <3>2
    <2>4. \A m \in Name : m \in {n} => ScanSound(m)'
      BY <2>3
    <2> QED
      BY <1>1, <2>1, <2>2, <2>4, ScansKept DEF SessionInv
  <1> QED
    BY <1>4, <1>5, <1>6, <1>7, <1>8, <1>9, <1>10 DEF SessionInv, Conns

\* A connection that is closed.
LEMMA CloseEffect ==
  ASSUME TypeOK, NEW c \in Conn, Close(c)
  PROVE  /\ server' \in [Conn -> Name \cup {"none", "main", "closed"}] /\ hup' \in [Conn -> BOOLEAN]
         /\ up' \in [Conn -> Seq(Message)]
         /\ server'[c] = "closed" /\ up'[c] = <<>> /\ DOMAIN up'[c] = {}
         /\ \A x \in Conn : x # c => server'[x] = server[x] /\ hup'[x] = hup[x] /\ up'[x] = up[x]
  BY DEF Close, TypeOK

LEMMA LockerEofInv ==
  ASSUME SessionInv, NEW c \in Conn, NEW n \in Name, LockerEof(c, n)
  PROVE  SessionInv'
  <1>1. TypeOK /\ Close(c)
    BY DEF SessionInv, LockerEof
  <1>2. /\ clean(c, n, "error") /\ thread[n] = "loop"
        /\ server[c] = n /\ msg[c] = NoMsg /\ end[c] # "open"
    BY DEF LockerEof, Polled, Polling, HungUp
  <1>3. Cleans(c, n, "error")
    BY <1>1, <1>2, CloseEffect DEF LockerEof, Cleans
  <1> QED
    BY <1>3, CleansInv

LEMMA LockerUnlockInv ==
  ASSUME SessionInv, NEW c \in Conn, NEW n \in Name, LockerUnlock(c, n)
  PROVE  SessionInv'
  <1>1. TypeOK /\ ConnSound(c)
    BY DEF SessionInv, Conns
  <1>2. /\ server[c] = n /\ msg[c] = NoMsg /\ thread[n] = "loop"
        /\ up[c] # <<>> /\ Head(up[c]).verb = "UNLOCK"
        /\ UNCHANGED cleanFrame
    BY DEF LockerUnlock, Polled, Polling
  <1>3. PICK t : t = Tail(up[c])
    OBVIOUS
  <1>4. up[c] \in Seq(Message)
    BY <1>1 DEF TypeOK
  <1>5. Rest(up[c], t)
    BY <1>2, <1>3, <1>4, MessageRead
  <1>6. end[c] # "open"
    BY <1>1, <1>2, <1>5 DEF ConnSound, SocketSound, Rest
  <1>7. CASE clean(c, n, "error") /\ Close(c)
    <2>1. Cleans(c, n, "error")
      BY <1>1, <1>2, <1>6, <1>7, CloseEffect DEF Cleans
    <2> QED
      BY <2>1, CleansInv
  <1>8. CASE clean(c, n, "unlock") /\ up' = [up EXCEPT ![c] = t] /\ UNCHANGED <<server, hup>>
    <2>1. /\ up' \in [Conn -> Seq(Message)] /\ up'[c] = t
          /\ \A x \in Conn : x # c => up'[x] = up[x]
      BY <1>1, <1>5, <1>8 DEF TypeOK, Rest
    <2>2. server' = server /\ hup' = hup /\ server \in [Conn -> Name \cup {"none", "main", "closed"}]
          /\ hup \in [Conn -> BOOLEAN]
      BY <1>1, <1>8 DEF TypeOK
    <2>3. Cleans(c, n, "unlock")
      BY <1>2, <1>5, <1>6, <1>8, <2>1, <2>2 DEF Cleans, Rest
    <2> QED
      BY <2>3, CleansInv
  <1> QED
    BY <1>1, <1>3, <1>7, <1>8 DEF LockerUnlock, TypeOK

LEMMA RecleanInv ==
  ASSUME SessionInv, NEW n \in Name, Reclean(n)
  PROVE  SessionInv'
  <1>1. TypeOK /\ ScanSound(n) /\ thread[n] = "loop" /\ scan[n].path = "reclean" /\ scan[n] \in Scan
    BY DEF SessionInv, Scanned, Reclean, TypeOK
  <1>2. PICK c : c = scan[n].conn
    OBVIOUS
  <1>3. c \in Conn /\ server[c] = n /\ msg[c] = NoMsg /\ end[c] # "open"
    BY <1>1, <1>2 DEF ScanSound, Scan, NoScan
  <1>4. Cleans(c, n, "error")
    BY <1>1, <1>2, <1>3, CloseEffect DEF Reclean, Cleans
  <1> QED
    BY <1>3, <1>4, CleansInv

\* The scan grants the request of c, whose record is e, or drops it.
Scans(c, n, e) ==
  /\ thread[n] = "loop" /\ HasConn(waitings[n], c) /\ server[c] \in {n, "closed"}
  /\ Drops(waitings, waitings', n, c)
  /\ \/ /\ server[c] = n /\ e.conn = c
        /\ Adds(holders, holders', n, e)
        /\ NewAnswer(c, [step |-> 24, rc |-> "OK"])
     \/ holders' = holders /\ down' = down
  /\ \A m \in Name : thread'[m] = "loop" => thread[m] = "loop"
  /\ UNCHANGED scanFrame

LEMMA ScansConn ==
  ASSUME SessionInv, NEW c \in Conn, NEW n \in Name, NEW e, Scans(c, n, e)
  PROVE  ConnSound(c)'
  <1>1. ConnSound(c) /\ n # "main" /\ n # "none" /\ n # "closed"
    BY SessionAssumption DEF SessionInv, Conns
  <1>2. UNCHANGED <<handleVars, end, up, asked, server, msg, hup, null_fd>>
    BY DEF Scans, scanFrame, mainVars
  <1>3. SocketSound(c)'
    BY <1>1, <1>2 DEF ConnSound, SocketSound, Asked, handleVars, Scans
  <1>4. MsgSound(c)' /\ NullSound(c)'
    <2>1. MsgSound(c)'
      BY <1>1, <1>2 DEF ConnSound, MsgSound, Asked
    <2>2. NullSound(c)'
      BY <1>1, <1>2 DEF ConnSound, NullSound, Scans
    <2> QED
      BY <2>1, <2>2
  <1>5. (Single(c)' <=> Single(c)) /\ (Possible(c)' <=> Possible(c)) /\ (Unread(c)' <=> Unread(c))
    BY <1>2 DEF Single, Possible, Unread
  <1>6. \A m \in Name : m # n => holders'[m] = holders[m] /\ waitings'[m] = waitings[m]
    BY DEF Scans, Adds, Drops
  <1>7. ASSUME Single(c) PROVE Once(c)' /\ Dropped(c)'
    <2>1. Once(c) /\ Dropped(c)
      BY <1>1, <1>7 DEF ConnSound
    <2>2. Recorded(c) /\ Stray(c)
      BY DEF Recorded, Stray, Has, HasConn, Scans
    <2>3. ~Unread(c) /\ msg[c] = NoMsg /\ server[c] # "closed" /\ ~IsRefused(c)
      BY <2>1, <2>2 DEF Once, Dropped
    <2>4. /\ OnceFor(holders[n], c) /\ OnceFor(waitings[n], c) /\ HasConn(waitings[n], c)
          /\ ~HasConn(holders[n], c)
      BY <2>1 DEF Once, Has, HasConn, Scans
    <2>5. OnceFor(waitings'[n], c) /\ ~HasConn(waitings'[n], c)
      BY <2>4 DEF Scans, Drops, Loses
    <2>6. OnceFor(holders'[n], c)
      BY <2>4 DEF Scans, Adds, Gains
    <2>7. ASSUME NEW m \in Name
          PROVE  /\ OnceFor(holders'[m], c) /\ OnceFor(waitings'[m], c)
                 /\ ~(HasConn(holders'[m], c) /\ HasConn(waitings'[m], c))
      <3>1. CASE m = n
        BY <2>5, <2>6, <3>1
      <3>2. CASE m # n
        BY <1>6, <2>1, <3>2 DEF Once, Has, HasConn
      <3> QED
        BY <3>1, <3>2
    <2>8. Once(c)'
      <3>1. \A j, k \in DOMAIN up'[c] : up'[c][j].verb = "LOCK" /\ up'[c][k].verb = "LOCK" => j = k
        BY <1>2, <2>1 DEF Once
      <3>2. ~Unread(c)' /\ msg'[c] = NoMsg /\ server'[c] # "closed"
        BY <1>2, <1>5, <2>3
      <3> QED
        BY <2>7, <3>1, <3>2 DEF Once, Has, HasConn
    <2>9. ~IsRefused(c)'
      <3>1. \A k \in DOMAIN down'[c] : ~Refusal(down'[c][k])
        BY <2>3 DEF IsRefused, Scans, NewAnswer, Refusal
      <3> QED
        BY <1>2, <2>3, <3>1 DEF IsRefused, handleVars
    <2> QED
      BY <2>8, <2>9 DEF Dropped
  <1>8. HeldSound(c)'
    <2>1. CASE server[c] = n /\ e.conn = c /\ Adds(holders, holders', n, e)
      <3>1. HasConn(holders'[n], c)
        BY <2>1 DEF Adds, Gains
      <3>2. server'[c] = n
        BY <1>2, <2>1
      <3> QED
        BY <3>1, <3>2 DEF HeldSound, Has, HasConn
    <2>2. CASE holders' = holders /\ down' = down
      BY <1>1, <1>2, <1>5, <2>2 DEF ConnSound, HeldSound, IsGranted, Has, handleVars
    <2> QED
      BY <2>1, <2>2 DEF Scans
  <1> QED
    BY <1>3, <1>4, <1>5, <1>7, <1>8 DEF ConnSound

LEMMA GrantInv ==
  ASSUME SessionInv, NEW n \in Name, Grant(n) \/ GrantFails(n)
  PROVE  SessionInv'
  <1>1. TypeOK /\ Records /\ ScanSound(n)
    BY DEF SessionInv, Scanned
  <1>2. PICK k \in DOMAIN waitings[n] : \E e \in Entry :
           /\ e = waitings[n][k]
           /\ Drops(waitings, waitings', n, e.conn)
           /\ \/ /\ server[e.conn] # "closed" /\ ~hup[e.conn]
                 /\ Adds(holders, holders', n, e) /\ Sum(holders'[n]) <= Total
                 /\ NewAnswer(e.conn, [step |-> 24, rc |-> "OK"])
              \/ holders' = holders /\ down' = down
    BY <1>1, GrantEffect
  <1>3. PICK e \in Entry :
           /\ e = waitings[n][k]
           /\ Drops(waitings, waitings', n, e.conn)
           /\ \/ /\ server[e.conn] # "closed" /\ ~hup[e.conn]
                 /\ Adds(holders, holders', n, e) /\ Sum(holders'[n]) <= Total
                 /\ NewAnswer(e.conn, [step |-> 24, rc |-> "OK"])
              \/ holders' = holders /\ down' = down
    BY <1>2
  <1>4. PICK c : c = e.conn
    OBVIOUS
  <1>5. c \in Conn
    BY <1>4 DEF Entry
  <1>6. /\ server[c] \in {n, "closed"}
        /\ \E j \in DOMAIN asked[c] : asked[c][j].quantity = e.quantity
    BY <1>1, <1>3, <1>4 DEF Records, RecordSound
  <1>7. UNCHANGED scanFrame /\ thread[n] = "loop" /\ scan[n] # NoScan /\ scan[n] \in Scan
    BY <1>1 DEF Grant, GrantFails, Scanning, NoScan, TypeOK
  <1>a. UNCHANGED <<handleVars, end, up, asked, server, msg, pipe, hup, null_fd, moved, exists, crashes>>
    BY <1>7 DEF scanFrame, mainVars
  <1>b. \/ UNCHANGED <<scan, thread>>
        \/ /\ scan[n].path = "unlock" /\ scan' = [scan EXCEPT ![n].path = "reclean"]
           /\ thread' = thread
        \/ /\ scan' = [scan EXCEPT ![n] = NoScan] /\ thread' = [thread EXCEPT ![n] = "ends"]
    BY DEF Grant, GrantFails
  <1>c. /\ scan' \in [Name -> Scan] /\ thread' \in [Name -> Thread]
        /\ \A m \in Name : thread'[m] = "loop" => thread[m] = "loop"
        /\ \A m \in Name : m # n => scan'[m] = scan[m] /\ thread'[m] = thread[m]
        /\ ScanSound(n)'
    <2>1. CASE UNCHANGED <<scan, thread>>
      BY <1>1, <1>a, <2>1 DEF TypeOK, ScanSound
    <2>2. CASE /\ scan[n].path = "unlock" /\ scan' = [scan EXCEPT ![n].path = "reclean"]
               /\ thread' = thread
      <3>1. PICK d \in Conn : scan[n] = [path |-> "unlock", conn |-> d]
        BY <1>7, <2>2 DEF Scan, NoScan
      <3>2. scan'[n] = [path |-> "reclean", conn |-> d] /\ \A m \in Name : m # n => scan'[m] = scan[m]
        BY <1>1, <2>2, <3>1 DEF TypeOK
      <3>3. [path |-> "reclean", conn |-> d] \in Scan
        BY DEF Scan
      <3>4. scan' \in [Name -> Scan]
        BY <1>1, <2>2, <3>2, <3>3 DEF TypeOK
      <3>5. ScanSound(n)'
        BY <1>1, <1>7, <1>a, <2>2, <3>1, <3>2 DEF ScanSound
      <3> QED
        BY <1>1, <2>2, <3>2, <3>4, <3>5 DEF TypeOK
    <2>3. CASE scan' = [scan EXCEPT ![n] = NoScan] /\ thread' = [thread EXCEPT ![n] = "ends"]
      <3>1. NoScan \in Scan /\ "ends" \in Thread
        BY DEF Scan, Thread
      <3>2. scan'[n] = NoScan
        BY <1>1, <2>3 DEF TypeOK
      <3> QED
        BY <1>1, <2>3, <3>1, <3>2 DEF TypeOK, ScanSound
    <2> QED
      BY <1>b, <2>1, <2>2, <2>3
  <1>8. Scans(c, n, e)
    <2>1. HasConn(waitings[n], c)
      BY <1>3, <1>4 DEF HasConn
    <2> QED
      BY <1>3, <1>4, <1>6, <1>7, <1>c, <2>1 DEF Scans
  <1>9. DaemonSide
    BY <1>a DEF DaemonSide
  <1>10. TypeOK'
    <2>1. holders' \in [Name -> Seq(Entry)] /\ waitings' \in [Name -> Seq(Entry)]
      BY <1>1, <1>3 DEF TypeOK, Adds, Drops
    <2>2. down' \in [Conn -> Seq(Answer)]
      BY <1>1, <1>3 DEF TypeOK, NewAnswer
    <2> QED
      BY <1>1, <1>a, <1>c, <2>1, <2>2 DEF TypeOK, handleVars
  <1>11. Handles'
    BY <1>1, <1>9, HandlesKept DEF SessionInv
  <1>12. ASSUME NEW x \in Conn PROVE ConnSound(x)'
    <2>1. CASE x = c
      BY <1>8, <2>1, ScansConn
    <2>2. CASE x # c
      <3>1. \A m \in Name : /\ HasConn(holders'[m], x) <=> HasConn(holders[m], x)
                            /\ OnceFor(holders[m], x) => OnceFor(holders'[m], x)
        <4>1. CASE Adds(holders, holders', n, e)
          BY <1>4, <2>2, <4>1, AddsOthers
        <4> QED
          BY <1>3, <4>1
      <3>2. \A m \in Name : /\ HasConn(waitings'[m], x) <=> HasConn(waitings[m], x)
                            /\ OnceFor(waitings[m], x) => OnceFor(waitings'[m], x)
        BY <1>3, <1>4, <2>2, DropsOthers
      <3>3. down'[x] = down[x]
        BY <1>3, <1>4, <2>2 DEF NewAnswer
      <3>4. SameFor(x)
        BY <1>a, <1>c, <3>1, <3>2, <3>3 DEF SameFor
      <3> QED
        BY <1>9, <3>4, ConnKept DEF SessionInv, Conns
    <2> QED
      BY <2>1, <2>2
  <1>13. Pipes'
    BY <1>a DEF SessionInv, Pipes, PipeSound
  <1>14. Records'
    <2>1. \A m \in Name : FromOld(waitings'[m], m)
      BY <1>3, DropsOld
    <2>2. \A m \in Name : FromOld(holders'[m], m)
      <3>1. CASE server[c] = n /\ Adds(holders, holders', n, e)
        BY <1>4, <1>5, <1>6, <3>1, AddsOld
      <3>2. CASE holders' = holders
        BY <3>2, SameOld
      <3> QED
        BY <1>3, <1>4, <1>6, <3>1, <3>2
    <2> QED
      BY <1>1, <1>9, <2>1, <2>2, RecordsKept
  <1>15. Committed'
    BY <1>3 DEF SessionInv, Committed, Adds
  <1>16. Scanned'
    <2>1. \A x \in Conn : server[x] \notin {n} /\ msg[x] = NoMsg /\ end[x] # "open" =>
            server'[x] = server[x] /\ msg'[x] = NoMsg /\ end'[x] # "open"
      BY <1>a
    <2>2. \A m \in Name : m \notin {n} => scan'[m] = scan[m] /\ thread'[m] = thread[m]
      BY <1>c
    <2>3. \A m \in Name : m \in {n} => ScanSound(m)'
      BY <1>c
    <2> QED
      BY <1>1, <2>1, <2>2, <2>3, ScansKept DEF SessionInv
  <1> QED
    BY <1>10, <1>11, <1>12, <1>13, <1>14, <1>15, <1>16 DEF SessionInv, Conns

LEMMA ScanEndInv ==
  ASSUME SessionInv, NEW n \in Name, ScanEnd(n)
  PROVE  SessionInv'
  <1>1. TypeOK /\ Records /\ Conns /\ Pipes /\ Committed /\ Handles /\ Scanned
    BY DEF SessionInv
  <1>2. /\ UNCHANGED <<handleVars, end, up, asked, server, msg, pipe, hup, null_fd, moved, exists, crashes>>
        /\ UNCHANGED <<down, holders, waitings, thread>>
        /\ scan' = [scan EXCEPT ![n] = NoScan]
    BY DEF ScanEnd, scanFrame, mainVars
  <1>3. scan' \in [Name -> Scan] /\ scan'[n] = NoScan /\ \A m \in Name : m # n => scan'[m] = scan[m]
    <2>1. NoScan \in Scan
      BY DEF Scan
    <2> QED
      BY <1>1, <1>2, <2>1 DEF TypeOK
  <1>4. DaemonSide
    BY <1>2 DEF DaemonSide
  <1>5. TypeOK'
    BY <1>1, <1>2, <1>3 DEF TypeOK, handleVars
  <1>6. Handles'
    BY <1>1, <1>4, HandlesKept
  <1>7. ASSUME NEW x \in Conn PROVE ConnSound(x)'
    <2>1. SameFor(x)
      BY <1>2 DEF SameFor
    <2> QED
      BY <1>1, <1>4, <2>1, ConnKept DEF Conns
  <1>8. Pipes' /\ Records' /\ Committed'
    BY <1>1, <1>2 DEF Pipes, PipeSound, Records, RecordSound, Committed
  <1>9. Scanned'
    BY <1>1, <1>2, <1>3 DEF Scanned, ScanSound
  <1> QED
    BY <1>5, <1>6, <1>7, <1>8, <1>9 DEF SessionInv, Conns


-------------------------------------------------------------------------------
\* A locker that ends has no connections, so nobody relies on its records.
LEMMA ExpireInv ==
  ASSUME SessionInv, NEW n \in Name, Expire(n)
  PROVE  SessionInv'
  <1>1. TypeOK /\ Records /\ Conns /\ Pipes /\ Committed /\ Handles /\ Scanned
    BY DEF SessionInv
  <1>2. /\ UNCHANGED <<handleVars, socketVars, server, msg, pipe, hup, null_fd, moved, scan, thread, crashes>>
        /\ \A c \in Conn : server[c] # n
        /\ exists' \subseteq Name
        /\ holders' = [holders EXCEPT ![n] = <<>>]
        /\ waitings' = [waitings EXCEPT ![n] = <<>>]
    BY <1>1 DEF Expire, TypeOK
  <1>3. /\ holders'[n] = <<>> /\ waitings'[n] = <<>>
        /\ \A m \in Name : m # n => holders'[m] = holders[m] /\ waitings'[m] = waitings[m]
        /\ holders' \in [Name -> Seq(Entry)] /\ waitings' \in [Name -> Seq(Entry)]
    BY <1>1, <1>2 DEF TypeOK
  <1>4. DOMAIN holders'[n] = {} /\ DOMAIN waitings'[n] = {}
    BY <1>3
  <1>5. DaemonSide
    BY <1>2 DEF DaemonSide, socketVars
  <1>6. TypeOK'
    BY <1>1, <1>2, <1>3 DEF TypeOK, handleVars, socketVars
  <1>7. Handles'
    BY <1>1, <1>5, HandlesKept
  <1>8. ASSUME NEW x \in Conn PROVE ConnSound(x)'
    <2>1. ConnSound(x) /\ server[x] # n
      BY <1>1, <1>2 DEF Conns
    <2>2. /\ \A m \in Name : /\ Has(holders, m, x)' => Has(holders, m, x)
                             /\ Has(waitings, m, x)' => Has(waitings, m, x)
                             /\ OnceFor(holders[m], x) => OnceFor(holders'[m], x)
                             /\ OnceFor(waitings[m], x) => OnceFor(waitings'[m], x)
                             /\ m # n => (Has(holders, m, x)' <=> Has(holders, m, x))
      BY <1>3, <1>4 DEF Has, OnceFor
    <2>3. (Recorded(x)' => Recorded(x)) /\ (Stray(x)' => Stray(x))
      BY <1>2, <2>2 DEF Recorded, Stray
    <2>4. SocketSound(x)' /\ MsgSound(x)' /\ NullSound(x)'
      BY <1>2, <2>1 DEF ConnSound, SocketSound, MsgSound, NullSound, Asked, handleVars, socketVars
    <2>5. (Single(x)' <=> Single(x)) /\ (Unread(x)' <=> Unread(x)) /\ (Possible(x)' <=> Possible(x))
          /\ (IsRefused(x)' <=> IsRefused(x)) /\ (IsGranted(x)' <=> IsGranted(x))
      BY <1>2 DEF Single, Unread, IsRefused, IsGranted, Possible, handleVars, socketVars
    <2>6. ASSUME Single(x) PROVE Once(x)' /\ Dropped(x)'
      <3>1. Once(x) /\ Dropped(x)
        BY <2>1, <2>6 DEF ConnSound
      <3>2. Dropped(x)'
        BY <1>2, <2>3, <2>5, <3>1 DEF Dropped
      <3>3. Once(x)'
        BY <1>2, <2>2, <2>3, <2>5, <3>1 DEF Once, socketVars
      <3> QED
        BY <3>2, <3>3
    <2>7. HeldSound(x)'
      BY <1>2, <2>1, <2>2, <2>5 DEF ConnSound, HeldSound, socketVars
    <2> QED
      BY <2>4, <2>5, <2>6, <2>7 DEF ConnSound
  <1>9. Pipes'
    BY <1>1, <1>2 DEF Pipes, PipeSound
  <1>10. Records'
    <2>1. \A m \in Name : FromOld(holders'[m], m) /\ FromOld(waitings'[m], m)
      BY <1>3, <1>4 DEF FromOld
    <2> QED
      BY <1>1, <1>5, <2>1, RecordsKept
  <1>11. Committed'
    <2>1. Sum(holders'[n]) <= Total
      BY <1>3, SumEmpty, SessionAssumption
    <2> QED
      BY <1>1, <1>3, <2>1 DEF Committed
  <1>12. Scanned'
    BY <1>1, <1>2 DEF Scanned, ScanSound, socketVars
  <1> QED
    BY <1>6, <1>7, <1>8, <1>9, <1>10, <1>11, <1>12 DEF SessionInv, Conns

\* A daemon that is gone has closed everything.
LEMMA DownInv ==
  ASSUME SessionInv, Down, UNCHANGED <<handleVars, end, down, asked>>, crashes' \in 0..MaxCrashes
  PROVE  SessionInv'
  <1>1. TypeOK /\ Records /\ Conns /\ Handles
    BY DEF SessionInv
  <1>2. /\ server' = [c \in Conn |-> IF server[c] = "none" THEN "none" ELSE "closed"]
        /\ \A c \in Conn : up'[c] = <<>> /\ DOMAIN up'[c] = {} /\ msg'[c] = NoMsg
        /\ \A n \in Name : /\ DOMAIN pipe'[n] = {} /\ holders'[n] = <<>>
                           /\ DOMAIN holders'[n] = {} /\ DOMAIN waitings'[n] = {}
    BY DEF Down
  <1>3. TypeOK'
    <2>1. NoScan \in Scan /\ "loop" \in Thread /\ NoMsg \in Pending
      BY DEF Scan, Thread, Pending
    <2>2. /\ scan' \in [Name -> Scan] /\ thread' \in [Name -> Thread] /\ msg' \in [Conn -> Pending]
      BY <2>1 DEF Down
    <2>3. /\ up' \in [Conn -> Seq(Message)] /\ pipe' \in [Name -> Seq(Conn)]
          /\ server' \in [Conn -> Name \cup {"none", "main", "closed"}]
          /\ hup' \in [Conn -> BOOLEAN] /\ null_fd' \subseteq Conn
          /\ exists' \subseteq Name
          /\ holders' \in [Name -> Seq(Entry)] /\ waitings' \in [Name -> Seq(Entry)]
      BY DEF Down
    <2>4. moved' \in BOOLEAN
      BY Zenon DEF Down
    <2> QED
      BY <1>1, <2>2, <2>3, <2>4 DEF TypeOK, handleVars
  <1>4. \A x \in Conn : server[x] \in Name \cup {"closed"} => server'[x] = "closed"
    BY <1>2, SessionAssumption
  <1>5. DaemonSide
    BY <1>4 DEF DaemonSide
  <1>6. Handles'
    BY <1>1, <1>5, HandlesKept
  <1>7. ASSUME NEW x \in Conn PROVE ConnSound(x)'
    <2>1. ConnSound(x)
      BY <1>1 DEF Conns
    <2>2. SocketSound(x)'
      BY <1>2, <2>1 DEF ConnSound, SocketSound, handleVars
    <2>3. server'[x] \in {"none", "closed"} /\ server'[x] \notin Name
      BY <1>2, SessionAssumption
    <2>4. MsgSound(x)' /\ NullSound(x)'
      BY <1>2, <2>3 DEF MsgSound, NullSound, Down
    <2>5. ~Recorded(x)' /\ ~Stray(x)' /\ ~Unread(x)' /\ msg'[x] = NoMsg
      BY <1>2 DEF Recorded, Stray, Unread, Has
    <2>6. Once(x)'
      BY <1>2, <2>5 DEF Once, Has, OnceFor
    <2>7. Dropped(x)'
      BY <2>5 DEF Dropped
    <2>8. HeldSound(x)'
      <3>1. IsGranted(x)' <=> IsGranted(x)
        BY DEF IsGranted, handleVars
      <3> QED
        BY <1>4, <2>1, <2>3, <3>1 DEF ConnSound, HeldSound
    <2> QED
      BY <2>2, <2>4, <2>6, <2>7, <2>8 DEF ConnSound
  <1>8. Pipes'
    BY <1>2 DEF Pipes, PipeSound
  <1>9. Records'
    BY <1>2 DEF Records, RecordSound
  <1>10. Committed'
    BY <1>2, SumEmpty, SessionAssumption DEF Committed
  <1>11. Scanned'
    BY DEF Scanned, ScanSound, Down
  <1> QED
    BY <1>3, <1>6, <1>7, <1>8, <1>9, <1>10, <1>11 DEF SessionInv, Conns

LEMMA CrashInv ==
  ASSUME SessionInv, Crash
  PROVE  SessionInv'
  <1>1. crashes' \in 0..MaxCrashes
    BY SessionAssumption DEF SessionInv, TypeOK, Crash
  <1> QED
    BY <1>1, DownInv DEF Crash

-------------------------------------------------------------------------------
\* The main thread: what it has of a connection when it reads a message from it.
AtMain(c, r, t) ==
  /\ server[c] = "main" /\ r \in Request
  /\ Rest(up[c], t) /\ Head(up[c]).verb = "LOCK" /\ Asked(c, r)
  /\ ~(c[2] > opened[c[1]]) /\ ~(end[c] = "open" /\ IsGranted(c))

LEMMA MainReads ==
  ASSUME SessionInv, NEW c \in Conn, server[c] = "main", up[c] # <<>>,
         NEW r, r = Head(up[c]).req, NEW t, t = Tail(up[c])
  PROVE  AtMain(c, r, t)
  <1>1. TypeOK /\ ConnSound(c)
    BY DEF SessionInv, Conns
  <1>2. up[c] \in Seq(Message)
    BY <1>1 DEF TypeOK
  <1>3. Rest(up[c], t)
    BY <1>2, MessageRead
  <1>4. Head(up[c]).verb = "LOCK" /\ Asked(c, r) /\ ~(c[2] > opened[c[1]])
    BY <1>1, <1>3 DEF ConnSound, SocketSound, Rest
  <1>5. ~(end[c] = "open" /\ IsGranted(c))
    BY <1>1, SessionAssumption DEF ConnSound, HeldSound
  <1> QED
    BY <1>3, <1>4, <1>5 DEF AtMain, Rest

\* A message is read: only that socket changes.
LEMMA MsgReadEffect ==
  ASSUME TypeOK, NEW c \in Conn, NEW t, t = Tail(up[c]), t \in Seq(Message), MsgRead(c)
  PROVE  up' \in [Conn -> Seq(Message)] /\ up'[c] = t /\ \A x \in Conn : x # c => up'[x] = up[x]
  BY DEF MsgRead, TypeOK

\* The lockers that the main thread does not touch.
LEMMA MainScans ==
  ASSUME TypeOK, Scanned, UNCHANGED <<end, scan, thread>>,
         \A x \in Conn : server[x] # "main" => server'[x] = server[x] /\ msg'[x] = msg[x]
  PROVE  Scanned'
  <1> SUFFICES ASSUME NEW m \in Name, scan[m] # NoScan PROVE ScanSound(m)'
    BY DEF Scanned, ScanSound
  <1>1. ScanSound(m) /\ scan[m] \in Scan /\ m # "main"
    BY SessionAssumption DEF Scanned, TypeOK
  <1>2. scan[m].conn \in Conn
    BY <1>1 DEF Scan
  <1> QED
    BY <1>1, <1>2 DEF ScanSound

\* Connections and their requests go to a locker.
Transfers(c, r, t, others) ==
  /\ AtMain(c, r, t) /\ HandsOver(c, r, others)
  /\ exists' \subseteq Name
  /\ up' \in [Conn -> Seq(Message)] /\ up'[c] = t
  /\ \A x \in Conn : x # c => up'[x] = up[x]
  /\ moved' \in BOOLEAN
  /\ UNCHANGED <<handleVars, end, asked, down, hup, null_fd, lockerVars, crashes>>

LEMMA TransfersRead ==
  ASSUME SessionInv, NEW c \in Conn, NEW r, NEW t, NEW others, Transfers(c, r, t, others)
  PROVE  ConnSound(c)'
  <1>1. ConnSound(c)
    BY DEF SessionInv, Conns
  <1>2. AtMain(c, r, t) /\ HandsOver(c, r, others)
    BY DEF Transfers
  <1>3. /\ server'[c] = r.name /\ r.name \in Name /\ r.name \notin {"none", "main", "closed"}
        /\ msg'[c] = [step |-> 16, req |-> r]
    BY <1>2, RequestFields, SessionAssumption DEF AtMain, HandsOver
  <1>4. /\ up'[c] = t
        /\ UNCHANGED <<handleVars, end, asked, down, hup, null_fd, holders, waitings, thread>>
    BY DEF Transfers, lockerVars
  <1>5. \A k \in DOMAIN t : \E j \in DOMAIN up[c] : t[k] = up[c][j]
    BY <1>2 DEF AtMain, Rest
  <1>6. SocketSound(c)'
    <2>1. SocketSound(c) /\ ~(c[2] > opened[c[1]])
      BY <1>1, <1>2 DEF ConnSound, AtMain
    <2> QED
      BY <1>3, <1>4, <1>5, <2>1 DEF SocketSound, Asked, handleVars
  <1>7. MsgSound(c)'
    <2>1. Asked(c, r) /\ asked' = asked
      BY <1>2, <1>4 DEF AtMain
    <2>2. msg'[c].step = 16 /\ msg'[c].req = r
      BY <1>3
    <2> QED
      BY <1>3, <2>1, <2>2 DEF MsgSound, Asked
  <1>a. NullSound(c)'
    BY <1>1, <1>3, <1>4 DEF ConnSound, NullSound, NoMsg
  <1>8. Single(c)' <=> Single(c)
    BY <1>4 DEF Single
  <1>9. ASSUME Single(c) PROVE Once(c)' /\ Dropped(c)'
    <2>1. /\ ~Recorded(c) /\ ~IsRefused(c)
          /\ \A k \in DOMAIN t : t[k].verb # "LOCK"
      BY <1>1, <1>2, <1>9, OnlyLock DEF AtMain
    <2>2. ~Recorded(c)' /\ ~IsRefused(c)'
      BY <1>4, <2>1 DEF Recorded, Has, IsRefused, handleVars
    <2>3. ~Unread(c)'
      BY <1>4, <2>1 DEF Unread
    <2>4. Once(c)
      BY <1>1, <1>9 DEF ConnSound
    <2> QED
      BY <1>3, <1>4, <2>1, <2>2, <2>3, <2>4 DEF Once, Dropped, Has
  <1>10. HeldSound(c)'
    BY <1>2, <1>4 DEF AtMain, HeldSound, IsGranted, handleVars
  <1> QED
    BY <1>6, <1>7, <1>8, <1>9, <1>10, <1>a DEF ConnSound

LEMMA TransfersOther ==
  ASSUME SessionInv, NEW c \in Conn, NEW r, NEW t, NEW others, Transfers(c, r, t, others),
         NEW d \in others
  PROVE  ConnSound(d)'
  <1>1. AtMain(c, r, t) /\ HandsOver(c, r, others)
    BY DEF Transfers
  <1>2. /\ d \in Conn /\ d # c /\ server'[d] = r.name /\ server[d] = "main"
        /\ msg'[d] = msg[d] /\ msg[d] # NoMsg /\ msg[d].req.name = r.name
    BY <1>1 DEF HandsOver, Incubated
  <1>3. r.name \in Name /\ r.name \notin {"none", "main", "closed"}
    BY <1>1, RequestFields, SessionAssumption DEF AtMain
  <1>4. up'[d] = up[d] /\ UNCHANGED <<handleVars, end, asked, down, hup, null_fd, holders, waitings, thread>>
    BY <1>2 DEF Transfers, lockerVars
  <1>5. ConnSound(d)
    BY <1>2 DEF SessionInv, Conns
  <1>6. SocketSound(d)'
    BY <1>2, <1>3, <1>4, <1>5 DEF ConnSound, SocketSound, Asked, handleVars
  <1>7. MsgSound(d)'
    <2>1. MsgSound(d) /\ asked' = asked /\ hup' = hup /\ end' = end
      BY <1>4, <1>5 DEF ConnSound
    <2> QED
      BY <1>2, <1>3, <2>1 DEF MsgSound, Asked
  <1>a. NullSound(d)'
    BY <1>2, <1>3, <1>4, <1>5 DEF ConnSound, NullSound
  <1>8. /\ Single(d)' <=> Single(d)
        /\ Unread(d)' <=> Unread(d)
        /\ Recorded(d)' <=> Recorded(d)
        /\ IsRefused(d)' <=> IsRefused(d)
    BY <1>4 DEF Single, Unread, Recorded, Has, IsRefused, handleVars
  <1>9. ASSUME Single(d) PROVE Once(d)' /\ Dropped(d)'
    <2>1. Once(d) /\ Dropped(d)
      BY <1>5, <1>9 DEF ConnSound
    <2> QED
      BY <1>2, <1>3, <1>4, <1>8, <2>1 DEF Once, Dropped, Has
  <1>10. HeldSound(d)'
    BY <1>2, <1>4, <1>5, SessionAssumption DEF ConnSound, HeldSound, IsGranted, handleVars
  <1> QED
    BY <1>6, <1>7, <1>8, <1>9, <1>10, <1>a DEF ConnSound

LEMMA TransfersPipes ==
  ASSUME SessionInv, NEW c \in Conn, NEW r, NEW t, NEW others, Transfers(c, r, t, others)
  PROVE  Pipes'
  <1> SUFFICES ASSUME NEW m \in Name PROVE PipeSound(m)'
    BY DEF Pipes
  <1>1. AtMain(c, r, t) /\ HandsOver(c, r, others) /\ TypeOK /\ PipeSound(m)
    BY DEF Transfers, SessionInv, Pipes
  <1>2. r.name \in Name /\ m # "main"
    BY <1>1, RequestFields, SessionAssumption DEF AtMain
  <1>3. pipe[m] \in Seq(Conn)
    BY <1>1 DEF TypeOK
  <1>4. \A k \in DOMAIN pipe[m] : pipe[m][k] \in Conn
    BY <1>3, ElementOfSeq
  <1>5. \A x \in others \cup {c} : server[x] = "main" /\ server'[x] = r.name /\ msg'[x] # NoMsg
    <2>1. server[c] = "main" /\ server'[c] = r.name /\ msg'[c].step = 16
      BY <1>1 DEF AtMain, HandsOver
    <2>2. msg'[c] # NoMsg
      BY <2>1 DEF NoMsg
    <2>3. \A x \in others : server[x] = "main" /\ server'[x] = r.name /\ msg'[x] # NoMsg
      BY <1>1 DEF HandsOver, Incubated
    <2> QED
      BY <2>1, <2>2, <2>3
  <1>6. \A k \in DOMAIN pipe[m] : server'[pipe[m][k]] = m /\ msg'[pipe[m][k]] # NoMsg
    <2> SUFFICES ASSUME NEW k \in DOMAIN pipe[m]
                 PROVE  server'[pipe[m][k]] = m /\ msg'[pipe[m][k]] # NoMsg
      OBVIOUS
    <2>1. server[pipe[m][k]] = m /\ msg[pipe[m][k]] # NoMsg /\ pipe[m][k] \in Conn
      BY <1>1, <1>4 DEF PipeSound
    <2>2. pipe[m][k] \notin others \cup {c}
      BY <1>2, <1>5, <2>1
    <2> QED
      BY <1>1, <2>1, <2>2 DEF HandsOver
  <1>7. CASE m # r.name
    <2>1. pipe'[m] = pipe[m]
      BY <1>1, <1>7 DEF HandsOver
    <2> QED
      BY <1>1, <1>6, <2>1 DEF PipeSound
  <1>8. CASE m = r.name
    <2>1. /\ \A k \in DOMAIN pipe'[m] :
               \/ pipe'[m][k] \in others \cup {c}
               \/ \E j \in DOMAIN pipe[m] : pipe'[m][k] = pipe[m][j]
          /\ \A j, k \in DOMAIN pipe'[m] : pipe'[m][j] = pipe'[m][k] => j = k
      BY <1>1, <1>8 DEF HandsOver
    <2>2. \A k \in DOMAIN pipe'[m] : server'[pipe'[m][k]] = m /\ msg'[pipe'[m][k]] # NoMsg
      BY <1>5, <1>6, <1>8, <2>1
    <2> QED
      BY <2>1, <2>2 DEF PipeSound
  <1> QED
    BY <1>7, <1>8

LEMMA TransfersInv ==
  ASSUME SessionInv, NEW c \in Conn, NEW r, NEW t, NEW others, Transfers(c, r, t, others)
  PROVE  SessionInv'
  <1>1. TypeOK /\ Conns /\ Records /\ Handles /\ Committed /\ Scanned
    BY DEF SessionInv
  <1>2. AtMain(c, r, t) /\ HandsOver(c, r, others)
    BY DEF Transfers
  <1>3. UNCHANGED <<handleVars, end, asked, down, hup, null_fd, holders, waitings, scan, thread, crashes>>
    BY DEF Transfers, lockerVars
  <1>4. \A x \in Conn : x \notin others \cup {c} => /\ server'[x] = server[x] /\ msg'[x] = msg[x]
                                                     /\ up'[x] = up[x]
    BY <1>2 DEF HandsOver, Transfers
  <1>5. \A x \in others \cup {c} : server[x] = "main"
    BY <1>2 DEF AtMain, HandsOver, Incubated
  <1>6. DaemonSide
    BY <1>3, <1>4, <1>5, SessionAssumption DEF DaemonSide
  <1>7. TypeOK'
    BY <1>1, <1>2, <1>3 DEF TypeOK, Transfers, HandsOver, handleVars
  <1>8. Handles'
    BY <1>1, <1>6, HandlesKept
  <1>9. ASSUME NEW x \in Conn PROVE ConnSound(x)'
    <2>1. CASE x = c
      BY <2>1, TransfersRead
    <2>2. CASE x \in others
      BY <2>2, TransfersOther
    <2>3. CASE x \notin others \cup {c}
      <3>1. SameFor(x)
        BY <1>3, <1>4, <2>3 DEF SameFor
      <3> QED
        BY <1>1, <1>6, <3>1, ConnKept DEF Conns
    <2> QED
      BY <2>1, <2>2, <2>3
  <1>10. Pipes'
    BY TransfersPipes
  <1>11. Records'
    <2>1. \A m \in Name : FromOld(holders'[m], m) /\ FromOld(waitings'[m], m)
      BY <1>3, SameOld
    <2> QED
      BY <1>1, <1>6, <2>1, RecordsKept
  <1>12. Committed'
    BY <1>1, <1>3 DEF Committed
  <1>13. Scanned'
    BY <1>1, <1>3, <1>4, <1>5, MainScans
  <1> QED
    BY <1>7, <1>8, <1>9, <1>10, <1>11, <1>12, <1>13 DEF SessionInv, Conns

\* The connection stays with the main thread, and is told why.
MainAnswers(c, r, t, rc) ==
  /\ AtMain(c, r, t) /\ rc \in {"WAIT_RESOURCE", "CANT_WAIT"}
  /\ NewAnswer(c, [step |-> 16, rc |-> rc])
  /\ up' \in [Conn -> Seq(Message)] /\ up'[c] = t
  /\ msg' \in [Conn -> Pending] /\ hup' \in [Conn -> BOOLEAN]
  /\ \A x \in Conn : x # c => up'[x] = up[x] /\ msg'[x] = msg[x] /\ hup'[x] = hup[x]
  /\ msg'[c] # NoMsg =>
       /\ Asked(c, msg'[c].req)
       /\ msg'[c].step = 24 /\ msg'[c].req.timeout = "zero" => hup'[c]
  /\ rc = "CANT_WAIT" /\ msg[c] = NoMsg => msg'[c] = NoMsg
  /\ moved' \in BOOLEAN
  /\ UNCHANGED <<handleVars, end, asked, server, pipe, null_fd, exists, lockerVars, crashes>>

LEMMA MainAnswersConn ==
  ASSUME SessionInv, NEW c \in Conn, NEW r, NEW t, NEW rc, MainAnswers(c, r, t, rc)
  PROVE  ConnSound(c)'
  <1>1. ConnSound(c) /\ AtMain(c, r, t) /\ "main" \notin Name
    BY SessionAssumption DEF SessionInv, Conns, MainAnswers
  <1>2. up'[c] = t /\ UNCHANGED <<handleVars, end, asked, server, null_fd, holders, waitings, thread>>
    BY DEF MainAnswers, lockerVars
  <1>3. \A k \in DOMAIN t : \E j \in DOMAIN up[c] : t[k] = up[c][j]
    BY <1>1 DEF AtMain, Rest
  <1>4. SocketSound(c)'
    <2>1. SocketSound(c) /\ ~(c[2] > opened[c[1]])
      BY <1>1 DEF ConnSound, AtMain
    <2> QED
      BY <1>2, <1>3, <2>1 DEF SocketSound, Asked, handleVars
  <1>5. MsgSound(c)'
    <2>1. server'[c] = "main"
      BY <1>1, <1>2 DEF AtMain
    <2>2. msg'[c] # NoMsg =>
            /\ Asked(c, msg'[c].req)
            /\ msg'[c].step = 24 /\ msg'[c].req.timeout = "zero" => hup'[c]
      BY DEF MainAnswers
    <2> QED
      BY <1>1, <1>2, <2>1, <2>2 DEF MsgSound, Asked
  <1>a. NullSound(c)'
    BY <1>1, <1>2 DEF ConnSound, NullSound, AtMain
  <1>6. Single(c)' <=> Single(c)
    BY <1>2 DEF Single
  <1>7. ASSUME Single(c) PROVE Once(c)' /\ Dropped(c)'
    <2>1. /\ ~Recorded(c) /\ ~IsRefused(c) /\ msg[c] = NoMsg
          /\ \A k \in DOMAIN t : t[k].verb # "LOCK"
      BY <1>1, <1>7, OnlyLock DEF AtMain
    <2>2. ~Recorded(c)' /\ ~Unread(c)'
      BY <1>2, <2>1 DEF Recorded, Has, Unread
    <2>3. Once(c)
      BY <1>1, <1>7 DEF ConnSound
    <2>4. Once(c)'
      BY <1>1, <1>2, <2>1, <2>2, <2>3 DEF Once, Has, AtMain
    <2>5. ASSUME IsRefused(c)' PROVE msg'[c] = NoMsg
      <3>1. ~(result'[c[1]] = "REFUSED" /\ c[2] = opened'[c[1]])
        BY <1>2, <2>1 DEF IsRefused, handleVars
      <3>2. PICK k \in DOMAIN down'[c] : Refusal(down'[c][k])
        BY <2>5, <3>1 DEF IsRefused
      <3>3. ~\E j \in DOMAIN down[c] : down'[c][k] = down[c][j]
        BY <2>1, <3>2 DEF IsRefused
      <3>4. down'[c][k] = [step |-> 16, rc |-> rc]
        BY <3>3 DEF MainAnswers, NewAnswer
      <3>5. rc # "WAIT_RESOURCE"
        BY <3>2, <3>4 DEF Refusal
      <3> QED
        BY <2>1, <3>5 DEF MainAnswers
    <2> QED
      BY <2>2, <2>4, <2>5 DEF Dropped
  <1>8. HeldSound(c)'
    <2> SUFFICES ASSUME end[c] = "open", IsGranted(c)' PROVE FALSE
      BY <1>2 DEF HeldSound
    <2>1. ~IsGranted(c)
      BY <1>1 DEF AtMain
    <2>2. PICK k \in DOMAIN down'[c] : Grants(down'[c][k])
      BY <1>2, <2>1 DEF IsGranted, handleVars
    <2>3. ~\E j \in DOMAIN down[c] : down'[c][k] = down[c][j]
      BY <2>1, <2>2 DEF IsGranted
    <2>4. down'[c][k] = [step |-> 16, rc |-> rc] /\ rc # "OK"
      BY <2>3 DEF MainAnswers, NewAnswer
    <2> QED
      BY <2>2, <2>4 DEF Grants
  <1> QED
    BY <1>4, <1>5, <1>6, <1>7, <1>8, <1>a DEF ConnSound

\* The pipes hold nothing the main thread has.
LEMMA MainPipes ==
  ASSUME TypeOK, Pipes, NEW c \in Conn, server[c] = "main", pipe' = pipe,
         \A x \in Conn : x # c => msg'[x] = msg[x] /\ server'[x] = server[x]
  PROVE  Pipes'
  <1> SUFFICES ASSUME NEW m \in Name PROVE PipeSound(m)'
    BY DEF Pipes
  <1>1. PipeSound(m) /\ m # "main"
    BY SessionAssumption DEF Pipes
  <1>2. pipe[m] \in Seq(Conn)
    BY DEF TypeOK
  <1>3. \A k \in DOMAIN pipe[m] : pipe[m][k] \in Conn
    BY <1>2, ElementOfSeq
  <1> QED
    BY <1>1, <1>3 DEF PipeSound

LEMMA MainAnswersInv ==
  ASSUME SessionInv, NEW c \in Conn, NEW r, NEW t, NEW rc, MainAnswers(c, r, t, rc)
  PROVE  SessionInv'
  <1>1. TypeOK /\ Conns /\ Records /\ Handles /\ Committed /\ Pipes /\ Scanned
    BY DEF SessionInv
  <1>2. UNCHANGED <<handleVars, end, asked, server, pipe, null_fd, exists, holders, waitings, scan, thread,
                    crashes>>
    BY DEF MainAnswers, lockerVars
  <1>3. DaemonSide
    BY <1>2 DEF DaemonSide
  <1>4. TypeOK'
    BY <1>1, <1>2 DEF TypeOK, MainAnswers, NewAnswer, handleVars
  <1>5. Handles'
    BY <1>1, <1>3, HandlesKept
  <1>6. ASSUME NEW x \in Conn PROVE ConnSound(x)'
    <2>1. CASE x = c
      BY <2>1, MainAnswersConn
    <2>2. CASE x # c
      <3>1. SameFor(x)
        BY <1>2, <2>2 DEF SameFor, MainAnswers, NewAnswer
      <3> QED
        BY <1>1, <1>3, <3>1, ConnKept DEF Conns
    <2> QED
      BY <2>1, <2>2
  <1>7. Pipes'
    <2>1. server[c] = "main"
      BY DEF MainAnswers, AtMain
    <2>2. \A x \in Conn : x # c => msg'[x] = msg[x] /\ server'[x] = server[x]
      BY <1>2 DEF MainAnswers
    <2> QED
      BY <1>1, <1>2, <2>1, <2>2, MainPipes
  <1>8. Records'
    <2>1. \A m \in Name : FromOld(holders'[m], m) /\ FromOld(waitings'[m], m)
      BY <1>2, SameOld
    <2> QED
      BY <1>1, <1>3, <2>1, RecordsKept
  <1>9. Committed'
    BY <1>1, <1>2 DEF Committed
  <1>10. Scanned'
    <2>1. \A x \in Conn : server[x] # "main" => server'[x] = server[x] /\ msg'[x] = msg[x]
      BY <1>2 DEF MainAnswers, AtMain
    <2> QED
      BY <1>1, <1>2, <2>1, MainScans
  <1> QED
    BY <1>4, <1>5, <1>6, <1>7, <1>8, <1>9, <1>10 DEF SessionInv, Conns

\* The main thread closes the socket of a client that has left.
Marks(c) ==
  /\ server[c] = "main" /\ end[c] # "open"
  /\ null_fd' = null_fd \cup {c}
  /\ up' = [up EXCEPT ![c] = <<>>]
  /\ msg' \in [Conn -> Pending] /\ \A x \in Conn : x # c => msg'[x] = msg[x]
  /\ msg'[c] # NoMsg => msg[c] # NoMsg /\ Asked(c, msg'[c].req)
  /\ UNCHANGED <<handleVars, end, down, asked, server, pipe, hup, moved, exists, lockerVars, crashes>>

LEMMA MarksInv ==
  ASSUME SessionInv, NEW c \in Conn, Marks(c)
  PROVE  SessionInv'
  <1>1. /\ TypeOK /\ Conns /\ Records /\ Handles /\ Committed /\ Pipes /\ Scanned
        /\ "main" \notin Name /\ ConnSound(c)
    BY SessionAssumption DEF SessionInv, Conns
  <1>2. server[c] = "main" /\ end[c] # "open"
    BY DEF Marks
  <1>3. /\ up' \in [Conn -> Seq(Message)] /\ up'[c] = <<>> /\ DOMAIN up'[c] = {}
        /\ \A x \in Conn : x # c => up'[x] = up[x] /\ (x \in null_fd' <=> x \in null_fd)
        /\ null_fd' \subseteq Conn
    BY <1>1 DEF Marks, TypeOK
  <1>4. UNCHANGED <<handleVars, end, down, asked, server, pipe, hup, moved, exists, holders, waitings, scan,
                    thread, crashes>>
    BY DEF Marks, lockerVars
  <1>5. DaemonSide
    BY <1>4 DEF DaemonSide
  <1>6. TypeOK'
    BY <1>1, <1>3, <1>4 DEF TypeOK, handleVars, Marks
  <1>7. Handles'
    BY <1>1, <1>5, HandlesKept
  <1>8. ConnSound(c)'
    <2>1. SocketSound(c)'
      BY <1>1, <1>2, <1>3, <1>4 DEF ConnSound, SocketSound, handleVars
    <2>2. MsgSound(c)' /\ NullSound(c)'
      BY <1>1, <1>2, <1>4 DEF MsgSound, NullSound, Marks, Asked
    <2>3. \A m \in Name : ~Has(holders, m, c) /\ ~Has(waitings, m, c)
      BY <1>1, <1>2 DEF Records, RecordSound, Has
    <2>4. \A m \in Name : ~Has(holders, m, c)' /\ ~Has(waitings, m, c)'
      BY <1>4, <2>3 DEF Has
    <2>5. ~Recorded(c)' /\ ~Stray(c)' /\ ~Unread(c)'
      BY <1>3, <2>4 DEF Recorded, Stray, Unread
    <2>6. Once(c)'
      BY <1>3, <2>4, <2>5 DEF Once, OnceFor, Has
    <2>7. Single(c)' <=> Single(c)
      BY <1>4 DEF Single
    <2>8. Single(c) => Dropped(c)'
      <3>1. IsRefused(c)' <=> IsRefused(c)
        BY <1>4 DEF IsRefused, handleVars
      <3> QED
        BY <1>1, <2>5, <3>1 DEF ConnSound, Dropped, Marks
    <2>9. HeldSound(c)'
      BY <1>2, <1>4 DEF HeldSound
    <2> QED
      BY <2>1, <2>2, <2>6, <2>7, <2>8, <2>9 DEF ConnSound
  <1>9. ASSUME NEW x \in Conn PROVE ConnSound(x)'
    <2>1. CASE x # c
      <3>1. SameFor(x)
        BY <1>3, <1>4, <2>1 DEF SameFor, Marks
      <3> QED
        BY <1>1, <1>5, <3>1, ConnKept DEF Conns
    <2> QED
      BY <1>8, <2>1
  <1>10. Pipes'
    <2>1. \A x \in Conn : x # c => msg'[x] = msg[x] /\ server'[x] = server[x]
      BY <1>4 DEF Marks
    <2> QED
      BY <1>1, <1>2, <1>4, <2>1, MainPipes
  <1>11. Records' /\ Committed'
    BY <1>1, <1>4 DEF Records, RecordSound, Committed
  <1>12. Scanned'
    <2>1. \A x \in Conn : server[x] # "main" => server'[x] = server[x] /\ msg'[x] = msg[x]
      BY <1>2, <1>4 DEF Marks
    <2> QED
      BY <1>1, <1>4, <2>1, MainScans
  <1> QED
    BY <1>6, <1>7, <1>9, <1>10, <1>11, <1>12 DEF SessionInv, Conns

\* A request in the incubator gets the settings of the message just read.
LEMMA OverwritesEffect ==
  ASSUME TypeOK, NEW c \in Conn, server[c] = "main", NEW r \in Request, Overwrites(c, r)
  PROVE  /\ msg' \in [Conn -> Pending] /\ (msg'[c] # NoMsg => msg'[c].req = r)
         /\ \A x \in Conn : x # c => msg'[x] = msg[x]
         /\ msg[c] = NoMsg => msg'[c] = NoMsg
  <1>1. CASE Incubated(c)
    <2>1. msg[c] \in [step : {16, 24}, req : Request] /\ msg[c] # NoMsg
      BY <1>1 DEF TypeOK, Pending, Incubated
    <2>2. PICK p : p = [msg[c] EXCEPT !.req = r]
      OBVIOUS
    <2>3. p \in [step : {16, 24}, req : Request] /\ p.req = r
      BY <2>1, <2>2
    <2>4. p \in Pending
      BY <2>3 DEF Pending
    <2>5. msg' = [msg EXCEPT ![c] = p]
      BY <1>1, <2>2 DEF Overwrites
    <2> QED
      BY <2>1, <2>3, <2>4, <2>5 DEF TypeOK
  <1>2. CASE ~Incubated(c)
    <2>1. msg[c] = NoMsg /\ msg' = msg
      BY <1>2 DEF Incubated, Overwrites
    <2> QED
      BY <2>1 DEF TypeOK
  <1> QED
    BY <1>1, <1>2

LEMMA MovedType ==
  ASSUME Moved
  PROVE  moved' \in BOOLEAN
  BY Zenon DEF Moved

LEMMA MainLockInv ==
  ASSUME SessionInv, NEW c \in Conn, MainLock(c)
  PROVE  SessionInv'
  <1>1. TypeOK /\ Pipes
    BY DEF SessionInv
  <1>2. server[c] = "main" /\ up[c] # <<>>
    BY DEF MainLock
  <1>3. PICK r : r = Head(up[c]).req
    OBVIOUS
  <1>4. PICK t : t = Tail(up[c])
    OBVIOUS
  <1>5. AtMain(c, r, t)
    BY <1>2, <1>3, <1>4, MainReads
  <1>6. r \in Request /\ t \in Seq(Message) /\ Asked(c, r)
    BY <1>5 DEF AtMain, Rest
  <1>7. UNCHANGED <<handleVars, end, asked, crashes>>
    BY DEF MainLock
  <1>8. CASE TransferConn(c, r)
    <2>1. PICK others : HandsOver(c, r, others)
      BY <1>1, <1>2, <1>6, <1>8, TransferEffect
    <2>2. MsgRead(c) /\ UNCHANGED <<down, hup, null_fd, lockerVars>> /\ exists' = exists \cup {r.name}
      BY <1>8 DEF TransferConn
    <2>a. moved' \in BOOLEAN
      BY <1>8, MovedType DEF TransferConn
    <2>3. up' \in [Conn -> Seq(Message)] /\ up'[c] = t /\ \A x \in Conn : x # c => up'[x] = up[x]
      BY <1>1, <1>4, <1>6, <2>2, MsgReadEffect
    <2>4. exists' \subseteq Name
      BY <1>1, <1>6, <2>2, RequestFields DEF TypeOK
    <2>5. Transfers(c, r, t, others)
      BY <1>5, <1>7, <2>1, <2>2, <2>3, <2>4, <2>a DEF Transfers
    <2> QED
      BY <2>5, TransfersInv
  <1>a. CASE Down /\ UNCHANGED down
    <2>1. crashes' \in 0..MaxCrashes
      BY <1>1, <1>7 DEF TypeOK
    <2> QED
      BY <1>7, <1>a, <2>1, DownInv
  <1>9. CASE ReplyFails(c, r)
    <2>1. CASE /\ end[c] = "gone"
               /\ null_fd' = null_fd \cup {c}
               /\ up' = [up EXCEPT ![c] = <<>>]
               /\ Overwrites(c, r)
               /\ UNCHANGED <<down, server, pipe, hup, moved, exists, lockerVars>>
      <3>1. /\ msg' \in [Conn -> Pending] /\ (msg'[c] # NoMsg => msg'[c].req = r)
            /\ \A x \in Conn : x # c => msg'[x] = msg[x]
            /\ msg[c] = NoMsg => msg'[c] = NoMsg
        BY <1>1, <1>2, <1>6, <2>1, OverwritesEffect
      <3>2. Marks(c)
        BY <1>2, <1>6, <1>7, <2>1, <3>1 DEF Marks
      <3> QED
        BY <3>2, MarksInv
    <2> QED
      BY <1>9, <1>a, <2>1 DEF ReplyFails
  <1>10. CASE Incubate(c, r) /\ ~ReplyFails(c, r)
    <2>1. /\ r.timeout # "zero" /\ down' = Answered(c, 16, "WAIT_RESOURCE")
          /\ msg' = [msg EXCEPT ![c] = [step |-> 24, req |-> r]]
          /\ MsgRead(c)
          /\ UNCHANGED <<server, pipe, hup, null_fd, exists, lockerVars>>
      BY <1>10 DEF Incubate
    <2>a. moved' \in BOOLEAN
      BY <1>10, MovedType DEF Incubate
    <2>2. up' \in [Conn -> Seq(Message)] /\ up'[c] = t /\ \A x \in Conn : x # c => up'[x] = up[x]
      BY <1>1, <1>4, <1>6, <2>1, MsgReadEffect
    <2>3. PICK a : a = [step |-> 16, rc |-> "WAIT_RESOURCE"]
      OBVIOUS
    <2>4. a \in Answer
      BY <2>3 DEF Answer
    <2>5. NewAnswer(c, a)
      BY <1>1, <2>1, <2>3, <2>4, AnsweredEffect
    <2>6. [step |-> 24, req |-> r] \in Pending
      BY <1>6 DEF Pending
    <2>7. /\ msg' \in [Conn -> Pending] /\ msg'[c].req = r
          /\ \A x \in Conn : x # c => msg'[x] = msg[x]
      BY <1>1, <2>1, <2>6 DEF TypeOK
    <2>8. hup' = hup /\ hup' \in [Conn -> BOOLEAN]
      BY <1>1, <2>1 DEF TypeOK
    <2>9. MainAnswers(c, r, t, "WAIT_RESOURCE")
      BY <1>5, <1>6, <1>7, <2>1, <2>2, <2>3, <2>5, <2>7, <2>8, <2>a DEF MainAnswers
    <2> QED
      BY <2>9, MainAnswersInv
  <1>11. CASE CantWait(c, r) /\ ~ReplyFails(c, r)
    <2>1. /\ down' = Answered(c, 16, "CANT_WAIT")
          /\ hup' = [hup EXCEPT ![c] = TRUE]
          /\ Overwrites(c, r)
          /\ MsgRead(c)
          /\ UNCHANGED <<server, pipe, null_fd, exists, lockerVars>>
      BY <1>11 DEF CantWait
    <2>a. moved' \in BOOLEAN
      BY <1>11, MovedType DEF CantWait
    <2>2. up' \in [Conn -> Seq(Message)] /\ up'[c] = t /\ \A x \in Conn : x # c => up'[x] = up[x]
      BY <1>1, <1>4, <1>6, <2>1, MsgReadEffect
    <2>3. PICK a : a = [step |-> 16, rc |-> "CANT_WAIT"]
      OBVIOUS
    <2>4. a \in Answer
      BY <2>3 DEF Answer
    <2>5. NewAnswer(c, a)
      BY <1>1, <2>1, <2>3, <2>4, AnsweredEffect
    <2>6. /\ msg' \in [Conn -> Pending] /\ (msg'[c] # NoMsg => msg'[c].req = r)
          /\ \A x \in Conn : x # c => msg'[x] = msg[x]
          /\ msg[c] = NoMsg => msg'[c] = NoMsg
      BY <1>1, <1>2, <1>6, <2>1, OverwritesEffect
    <2>7. /\ hup' \in [Conn -> BOOLEAN] /\ hup'[c]
          /\ \A x \in Conn : x # c => hup'[x] = hup[x]
      BY <1>1, <2>1 DEF TypeOK
    <2>8. MainAnswers(c, r, t, "CANT_WAIT")
      BY <1>5, <1>6, <1>7, <2>1, <2>2, <2>3, <2>5, <2>6, <2>7, <2>a DEF MainAnswers
    <2> QED
      BY <2>8, MainAnswersInv
  <1>12. TransferConn(c, r) \/ TransferFails(r) \/ Incubate(c, r) \/ CantWait(c, r)
    BY <1>3 DEF MainLock
  <1>13. CASE TransferFails(r)
    BY <1>13, <1>a DEF TransferFails
  <1> QED
    BY <1>8, <1>9, <1>10, <1>11, <1>12, <1>13

LEMMA MainEofInv ==
  ASSUME SessionInv, NEW c \in Conn, MainEof(c)
  PROVE  SessionInv'
  <1>1. TypeOK /\ ConnSound(c)
    BY DEF SessionInv, Conns
  <1>2. Marks(c)
    BY <1>1 DEF MainEof, HungUp, Marks, TypeOK, ConnSound, MsgSound
  <1> QED
    BY <1>2, MarksInv

\* The connections cs are closed and forgotten: they are out of the pipes, and no locker
\* that goes on has a record of them.
Closes(cs) ==
  /\ cs \subseteq Conn /\ CloseAll(cs)
  /\ \A x \in cs : /\ server[x] \in Name \cup {"main"}
                   /\ server[x] = "main" \/ msg[x] = NoMsg
                   /\ \A m \in Name : thread'[m] = "loop" => server[x] # m
  /\ msg' = [x \in Conn |-> IF x \in cs THEN NoMsg ELSE msg[x]]
  /\ thread' \in [Name -> Thread] /\ moved' \in BOOLEAN
  /\ \A m \in Name : thread'[m] = "loop" <=> thread[m] = "loop"
  /\ UNCHANGED <<handleVars, end, down, asked, pipe, exists, holders, waitings, scan, crashes>>

LEMMA ClosesConn ==
  ASSUME SessionInv, NEW cs, Closes(cs), NEW x \in cs
  PROVE  ConnSound(x)'
  <1>1. TypeOK /\ Records /\ ConnSound(x) /\ x \in Conn /\ "closed" \notin Name
    BY SessionAssumption DEF SessionInv, Conns, Closes
  <1>2. /\ server'[x] = "closed" /\ up'[x] = <<>> /\ DOMAIN up'[x] = {} /\ x \notin null_fd'
        /\ msg'[x] = NoMsg
    BY <1>1 DEF Closes, CloseAll
  <1>3. UNCHANGED <<handleVars, end, down, asked, holders, waitings>>
    BY DEF Closes
  <1>4. server[x] \in Name \cup {"main"} /\ \A m \in Name : thread'[m] = "loop" => server[x] # m
    BY DEF Closes
  <1>5. SocketSound(x)'
    BY <1>1, <1>2, <1>3, <1>4, SessionAssumption DEF ConnSound, SocketSound, handleVars
  <1>6. MsgSound(x)' /\ NullSound(x)'
    BY <1>1, <1>2 DEF MsgSound, NullSound
  <1>7. \A m \in Name : /\ Has(holders, m, x)' <=> Has(holders, m, x)
                        /\ Has(waitings, m, x)' <=> Has(waitings, m, x)
    BY <1>3 DEF Has
  <1>8. ~Unread(x)' /\ (Recorded(x)' <=> Recorded(x))
    BY <1>2, <1>7 DEF Unread, Recorded
  <1>9. ~Stray(x)'
    <2> SUFFICES ASSUME NEW m \in Name, thread'[m] = "loop"
                 PROVE  ~Has(holders, m, x) /\ ~Has(waitings, m, x)
      BY <1>7 DEF Stray
    <2>1. server[x] \notin {m, "closed"}
      BY <1>4, SessionAssumption
    <2> QED
      BY <1>1, <2>1 DEF Records, RecordSound, Has
  <1>10. Single(x)' <=> Single(x)
    BY <1>3 DEF Single
  <1>11. ASSUME Single(x) PROVE Once(x)' /\ Dropped(x)'
    <2>1. Once(x) /\ Dropped(x)
      BY <1>1, <1>11 DEF ConnSound
    <2>2. IsRefused(x)' <=> IsRefused(x)
      BY <1>3 DEF IsRefused, handleVars
    <2>3. Dropped(x)'
      BY <1>2, <1>8, <2>1, <2>2 DEF Dropped
    <2>4. Once(x)'
      BY <1>2, <1>3, <1>7, <1>8, <1>9, <2>1 DEF Once
    <2> QED
      BY <2>3, <2>4
  <1>12. HeldSound(x)'
    BY <1>1, <1>2 DEF HeldSound
  <1> QED
    BY <1>5, <1>6, <1>10, <1>11, <1>12 DEF ConnSound

LEMMA ClosesInv ==
  ASSUME SessionInv, NEW cs, Closes(cs)
  PROVE  SessionInv'
  <1>1. TypeOK /\ Conns /\ Records /\ Handles /\ Committed /\ Pipes /\ Scanned
    BY DEF SessionInv
  <1>2. UNCHANGED <<handleVars, end, down, asked, pipe, exists, holders, waitings, scan, crashes>>
    BY DEF Closes
  <1>3. \A x \in Conn : x \notin cs =>
          /\ server'[x] = server[x] /\ up'[x] = up[x] /\ hup'[x] = hup[x] /\ msg'[x] = msg[x]
          /\ x \in null_fd' <=> x \in null_fd
    BY <1>1 DEF Closes, CloseAll, TypeOK
  <1>4. /\ server' \in [Conn -> Name \cup {"none", "main", "closed"}] /\ hup' \in [Conn -> BOOLEAN]
        /\ up' \in [Conn -> Seq(Message)] /\ null_fd' \subseteq Conn
    BY <1>1 DEF Closes, CloseAll, TypeOK
  <1>5. msg' \in [Conn -> Pending]
    <2>1. NoMsg \in Pending
      BY DEF Pending
    <2> QED
      BY <1>1, <2>1 DEF Closes, TypeOK
  <1>6. \A x \in cs : x \in Conn /\ server'[x] = "closed"
    BY DEF Closes, CloseAll
  <1>7. DaemonSide
    BY <1>2, <1>3, <1>6 DEF DaemonSide
  <1>8. TypeOK'
    BY <1>1, <1>2, <1>4, <1>5 DEF TypeOK, handleVars, Closes
  <1>9. Handles'
    BY <1>1, <1>7, HandlesKept
  <1>10. ASSUME NEW x \in Conn PROVE ConnSound(x)'
    <2>1. CASE x \notin cs
      <3>1. SameFor(x)
        BY <1>2, <1>3, <2>1 DEF SameFor, Closes
      <3> QED
        BY <1>1, <1>7, <3>1, ConnKept DEF Conns
    <2>2. CASE x \in cs
      BY <2>2, ClosesConn
    <2> QED
      BY <2>1, <2>2
  <1>11. Pipes'
    <2> SUFFICES ASSUME NEW m \in Name PROVE PipeSound(m)'
      BY DEF Pipes
    <2>1. PipeSound(m) /\ m # "main"
      BY <1>1, SessionAssumption DEF Pipes
    <2>2. pipe[m] \in Seq(Conn)
      BY <1>1 DEF TypeOK
    <2>3. \A k \in DOMAIN pipe[m] : pipe[m][k] \in Conn
      BY <2>2, ElementOfSeq
    <2>4. \A k \in DOMAIN pipe[m] : pipe[m][k] \notin cs
      BY <2>1 DEF PipeSound, Closes
    <2> QED
      BY <1>2, <1>3, <2>1, <2>3, <2>4 DEF PipeSound
  <1>12. Records'
    <2>1. \A m \in Name : FromOld(holders'[m], m) /\ FromOld(waitings'[m], m)
      BY <1>2, SameOld
    <2> QED
      BY <1>1, <1>7, <2>1, RecordsKept
  <1>13. Committed'
    BY <1>1, <1>2 DEF Committed
  <1>14. Scanned'
    <2> SUFFICES ASSUME NEW m \in Name, scan[m] # NoScan PROVE ScanSound(m)'
      BY <1>2 DEF Scanned, ScanSound
    <2>1. ScanSound(m) /\ scan[m] \in Scan
      BY <1>1 DEF Scanned, TypeOK
    <2>2. scan[m].conn \in Conn
      BY <2>1 DEF Scan
    <2>3. thread'[m] = "loop"
      BY <2>1 DEF ScanSound, Closes
    <2>4. server[scan[m].conn] = m => scan[m].conn \notin cs
      BY <2>3 DEF Closes
    <2> QED
      BY <1>2, <1>3, <2>1, <2>2, <2>3, <2>4 DEF ScanSound
  <1> QED
    BY <1>8, <1>9, <1>10, <1>11, <1>12, <1>13, <1>14 DEF SessionInv, Conns

LEMMA LockerFreesInv ==
  ASSUME SessionInv, NEW n \in Name, LockerFrees(n)
  PROVE  SessionInv'
  <1>1. TypeOK
    BY DEF SessionInv
  <1>2. /\ thread' = [thread EXCEPT ![n] = "dead"] /\ thread[n] = "ends" /\ CloseAll(Table(n))
        /\ UNCHANGED <<handleVars, end, down, asked, msg, pipe, moved, exists, holders, waitings, scan, crashes>>
    BY DEF LockerFrees
  <1>3. thread' \in [Name -> Thread] /\ \A m \in Name : thread'[m] = "loop" <=> thread[m] = "loop"
    BY <1>1, <1>2 DEF TypeOK, Thread
  <1>4. thread'[n] = "dead"
    BY <1>1, <1>2 DEF TypeOK
  <1>5. \A x \in Table(n) : x \in Conn /\ server[x] = n /\ msg[x] = NoMsg
    BY DEF Table
  <1>6. msg' = [x \in Conn |-> IF x \in Table(n) THEN NoMsg ELSE msg[x]]
    BY <1>1, <1>2, <1>5 DEF TypeOK
  <1>7. moved' \in BOOLEAN
    BY <1>1, <1>2 DEF TypeOK
  <1>8. \A x \in Table(n) : \A m \in Name : thread'[m] = "loop" => server[x] # m
    BY <1>4, <1>5
  <1>9. Closes(Table(n))
    BY <1>2, <1>3, <1>5, <1>6, <1>7, <1>8 DEF Closes
  <1> QED
    BY <1>9, ClosesInv

LEMMA ConnsCleanInv ==
  ASSUME SessionInv, ConnsClean
  PROVE  SessionInv'
  <1>1. TypeOK /\ "main" \notin Name
    BY SessionAssumption DEF SessionInv
  <1>2. \A x \in Lingering : x \in Conn /\ server[x] = "main"
    BY <1>1 DEF Lingering, TypeOK
  <1>3. moved' \in BOOLEAN
    BY Zenon DEF ConnsClean
  <1>4. thread' \in [Name -> Thread] /\ \A m \in Name : thread'[m] = thread[m]
    BY <1>1 DEF ConnsClean, lockerVars, TypeOK
  <1>5. /\ CloseAll(Lingering)
        /\ msg' = [c \in Conn |-> IF c \in Lingering THEN NoMsg ELSE msg[c]]
        /\ UNCHANGED <<handleVars, end, down, asked, pipe, exists, holders, waitings, scan, crashes>>
    BY DEF ConnsClean, lockerVars
  <1>6. Closes(Lingering)
    BY <1>1, <1>2, <1>3, <1>4, <1>5 DEF Closes
  <1> QED
    BY <1>6, ClosesInv

-------------------------------------------------------------------------------
(***************************************************************************)
(* The steps of the clients.                                               *)
(***************************************************************************)

\* For the connection x a step of a client is at most the end of its use: it may close
\* it, read answers from it and send UNLOCK on it when it has been half closed.
Quiet(x) ==
  /\ asked'[x] = asked[x] /\ server'[x] = server[x] /\ msg'[x] = msg[x] /\ hup'[x] = hup[x]
  /\ holders' = holders /\ waitings' = waitings /\ thread' = thread
  /\ x \in null_fd' <=> x \in null_fd
  /\ x[2] > opened'[x[1]] <=> x[2] > opened[x[1]]
  /\ x[2] > opened[x[1]] => end'[x] = end[x] /\ up'[x] = up[x] /\ down'[x] = down[x]
  /\ end'[x] = "open" => end[x] = "open"
  /\ \/ up'[x] = up[x]
     \/ /\ end'[x] # "open" /\ server[x] # "main"
        /\ \A k \in DOMAIN up'[x] : \/ k \in DOMAIN up[x] /\ up'[x][k] = up[x][k]
                                    \/ up'[x][k].verb = "UNLOCK"
  /\ IsRefused(x)' => IsRefused(x)
  /\ end'[x] = "open" /\ IsGranted(x)' => IsGranted(x)

LEMMA QuietConn ==
  ASSUME NEW x \in Conn, ConnSound(x), Quiet(x)
  PROVE  ConnSound(x)'
  <1>1. /\ asked'[x] = asked[x] /\ server'[x] = server[x] /\ msg'[x] = msg[x] /\ hup'[x] = hup[x]
        /\ holders' = holders /\ waitings' = waitings /\ thread' = thread
        /\ end'[x] = "open" => end[x] = "open"
        /\ x \in null_fd' <=> x \in null_fd
    BY DEF Quiet
  <1>2. \A k \in DOMAIN up'[x] : \/ k \in DOMAIN up[x] /\ up'[x][k] = up[x][k]
                                 \/ up'[x][k].verb = "UNLOCK"
    BY DEF Quiet
  <1>3. SocketSound(x)'
    <2>1. SocketSound(x)
      BY DEF ConnSound
    <2>2. x[2] > opened'[x[1]] => /\ end'[x] = "none" /\ server'[x] = "none"
                                  /\ up'[x] = <<>> /\ down'[x] = <<>> /\ asked'[x] = <<>>
      BY <1>1, <2>1 DEF SocketSound, Quiet
    <2>3. asked'[x] = <<>> => x[2] > opened'[x[1]]
      BY <1>1, <2>1 DEF SocketSound, Quiet
    <2>4. end'[x] = "open" \/ server'[x] = "main" => \A k \in DOMAIN up'[x] : up'[x][k].verb = "LOCK"
      BY <1>1, <2>1 DEF SocketSound, Quiet
    <2>5. \A k \in DOMAIN up'[x] : up'[x][k].verb = "LOCK" => Asked(x, up'[x][k].req)
      BY <1>2, <2>1 DEF SocketSound
    <2> QED
      BY <1>1, <2>2, <2>3, <2>4, <2>5 DEF SocketSound, Asked
  <1>4. MsgSound(x)' /\ NullSound(x)'
    <2>1. MsgSound(x)'
      BY <1>1 DEF ConnSound, MsgSound, Asked
    <2>2. NullSound(x)'
      BY <1>1 DEF ConnSound, NullSound
    <2> QED
      BY <2>1, <2>2
  <1>5. /\ (Single(x)' <=> Single(x)) /\ (Possible(x)' <=> Possible(x))
        /\ (Recorded(x)' <=> Recorded(x)) /\ (Stray(x)' <=> Stray(x))
    BY <1>1 DEF Single, Possible, Recorded, Stray, Has
  <1>6. Unread(x)' => Unread(x)
    BY <1>2 DEF Unread
  <1>7. ASSUME Single(x) PROVE Once(x)' /\ Dropped(x)'
    <2>1. Once(x) /\ Dropped(x)
      BY <1>7 DEF ConnSound
    <2>2. \A j, k \in DOMAIN up'[x] : up'[x][j].verb = "LOCK" /\ up'[x][k].verb = "LOCK" => j = k
      BY <1>2, <2>1 DEF Once
    <2>3. Once(x)'
      BY <1>1, <1>5, <1>6, <2>1, <2>2 DEF Once, Has
    <2>4. Dropped(x)'
      BY <1>1, <1>5, <1>6, <2>1 DEF Dropped, Quiet
    <2> QED
      BY <2>3, <2>4
  <1>8. HeldSound(x)'
    BY <1>1, <1>5 DEF ConnSound, HeldSound, Has, Quiet
  <1> QED
    BY <1>3, <1>4, <1>5, <1>7, <1>8 DEF ConnSound

\* A step of the process that has the handle h, other than flom_handle_lock.
ClientSide(h) ==
  /\ UNCHANGED <<request, opened, locks, asked, daemonVars>>
  /\ \A x \in Conn : x[1] # h => end'[x] = end[x] /\ up'[x] = up[x] /\ down'[x] = down[x]
  /\ \A g \in Handle : g # h => state'[g] = state[g] /\ call'[g] = call[g] /\ result'[g] = result[g]
  /\ \A x \in Conn : x[1] = h => Quiet(x)
  /\ HandleSound(h)' /\ TypeOK'

LEMMA ClientSideInv ==
  ASSUME SessionInv, NEW h \in Handle, ClientSide(h)
  PROVE  SessionInv'
  <1>1. TypeOK /\ Handles /\ Conns /\ Pipes /\ Records /\ Committed /\ Scanned
    BY DEF SessionInv
  <1>2. UNCHANGED <<request, opened, locks, asked, server, msg, pipe, hup, null_fd, holders, waitings, scan,
                    thread>>
    BY DEF ClientSide, daemonVars, mainVars, lockerVars
  <1>3. ASSUME NEW g \in Handle PROVE HandleSound(g)' /\ Remembered(g)'
    <2>1. HandleSound(g) /\ Remembered(g)
      BY <1>1 DEF Handles
    <2>2. Remembered(g)'
      BY <1>2, <2>1 DEF Remembered, Current
    <2>3. CASE g = h
      BY <2>2, <2>3 DEF ClientSide
    <2>4. CASE g # h
      <3>1. state'[g] = state[g] /\ call'[g] = call[g]
        BY <2>4 DEF ClientSide
      <3>2. CASE opened[g] > 0
        <4>1. Current(g) \in Conn /\ Current(g)[1] = g
          BY <1>1, <2>1, <3>2, CurrentConn
        <4>2. end'[Current(g)] = end[Current(g)] /\ Current(g)' = Current(g)
          BY <1>2, <2>4, <4>1 DEF ClientSide, Current
        <4> QED
          BY <1>2, <2>1, <2>2, <3>1, <4>2 DEF HandleSound
      <3>3. CASE ~(opened[g] > 0)
        BY <1>2, <2>1, <2>2, <3>1, <3>3 DEF HandleSound
      <3> QED
        BY <3>2, <3>3
    <2> QED
      BY <2>3, <2>4
  <1>4. ASSUME NEW x \in Conn PROVE ConnSound(x)'
    <2>1. ConnSound(x) /\ x[1] \in Handle
      BY <1>1, ConnNames DEF Conns
    <2>2. CASE x[1] # h
      <3>1. /\ end'[x] = end[x] /\ up'[x] = up[x] /\ down'[x] = down[x]
            /\ state'[x[1]] = state[x[1]] /\ result'[x[1]] = result[x[1]]
        BY <2>1, <2>2 DEF ClientSide
      <3>2. Quiet(x)
        BY <1>2, <3>1 DEF Quiet, IsRefused, IsGranted
      <3> QED
        BY <2>1, <3>2, QuietConn
    <2>3. CASE x[1] = h
      BY <2>1, <2>3, QuietConn DEF ClientSide
    <2> QED
      BY <2>2, <2>3
  <1>5. Pipes'
    BY <1>1, <1>2 DEF Pipes, PipeSound
  <1>6. Records'
    BY <1>1, <1>2 DEF Records, RecordSound
  <1>7. Committed'
    BY <1>1, <1>2 DEF Committed
  <1>8. Scanned'
    <2>1. \A x \in Conn : end[x] # "open" => end'[x] # "open"
      BY DEF ClientSide, Quiet
    <2> SUFFICES ASSUME NEW m \in Name, scan[m] # NoScan PROVE ScanSound(m)'
      BY <1>2 DEF Scanned, ScanSound
    <2>2. ScanSound(m) /\ scan[m] \in Scan
      BY <1>1 DEF Scanned, TypeOK
    <2>3. scan[m].conn \in Conn
      BY <2>2 DEF Scan
    <2> QED
      BY <1>2, <2>1, <2>2, <2>3 DEF ScanSound
  <1> QED
    BY <1>3, <1>4, <1>5, <1>6, <1>7, <1>8 DEF SessionInv, Handles, Conns, ClientSide

\* What a call that gets an answer concludes from it.
Concludes(h, a) ==
  \/ /\ result' = result /\ state' = state
     /\ call' = [call EXCEPT ![h] = "wait"]
  \/ /\ call' = [call EXCEPT ![h] = "none"]
     /\ \E rc \in Result :
          /\ result' = [result EXCEPT ![h] = rc]
          /\ rc = "REFUSED" => Refusal(a)
          /\ state' = [state EXCEPT ![h] = IF rc = "OK" THEN "LOCKED" ELSE @]
          /\ rc = "OK" => Grants(a)

LEMMA AnswerTaken ==
  ASSUME NEW h \in Handle, NEW a \in Answer, LockAnswer(h, a) \/ WaitAnswer(h, a)
  PROVE  Concludes(h, a)
  <1>1. CASE LockAnswer(h, a)
    <2>1. CASE Continue(h, "wait")
      BY <2>1 DEF Continue, Concludes
    <2>2. CASE Return(h, "BROKEN")
      BY <2>2 DEF Return, Concludes, Result
    <2>3. CASE Return(h, "OK") /\ a.rc = "OK"
      BY <2>3 DEF Return, Concludes, Result, Grants
    <2>4. CASE Return(h, "REFUSED") /\ a.step = 16 /\ a.rc \in {"BUSY", "IMPOSSIBLE", "CANT_WAIT"}
      BY <2>4 DEF Return, Concludes, Result, Refusal
    <2> QED
      BY <1>1, <2>1, <2>2, <2>3, <2>4 DEF LockAnswer, Answer
  <1>2. CASE WaitAnswer(h, a)
    <2>1. CASE Continue(h, "wait")
      BY <2>1 DEF Continue, Concludes
    <2>2. CASE Return(h, "BROKEN")
      BY <2>2 DEF Return, Concludes, Result
    <2>3. CASE Return(h, "OK") /\ a.rc # "ENQUEUED" /\ a.step = 24
      BY <2>3 DEF Return, Concludes, Result, Grants
    <2> QED
      BY <1>2, <2>1, <2>2, <2>3 DEF WaitAnswer
  <1> QED
    BY <1>1, <1>2

\* A blocked flom_handle_lock goes on, or returns, after an answer or without one.
Resumes(h) ==
  /\ call[h] \in {"lock", "wait"}
  /\ UNCHANGED <<request, opened, locks, end, up, asked, daemonVars>>
  /\ \/ down' = down /\ \E rc \in {"BROKEN", "TIMEOUT"} : Return(h, rc)
     \/ /\ down[Current(h)] # <<>>
        /\ down' = [down EXCEPT ![Current(h)] = Tail(down[Current(h)])]
        /\ Concludes(h, Head(down[Current(h)]))

LEMMA ResumesInv ==
  ASSUME SessionInv, NEW h \in Handle, Resumes(h), TypeOK'
  PROVE  SessionInv'
  <1>1. TypeOK /\ HandleSound(h)
    BY DEF SessionInv, Handles
  <1>2. PICK c : c = Current(h)
    OBVIOUS
  <1>3. state[h] = "CONNECTED" /\ opened[h] > 0 /\ end[c] = "open"
    BY <1>1, <1>2 DEF Resumes, HandleSound
  <1>4. c \in Conn /\ c[1] = h /\ c[2] = opened[h]
    BY <1>1, <1>2, <1>3, CurrentConn
  <1>5. down[c] \in Seq(Answer)
    BY <1>1, <1>4 DEF TypeOK
  <1>6. /\ UNCHANGED <<request, opened, locks, end, up, asked>>
        /\ UNCHANGED <<server, msg, pipe, hup, null_fd, exists, holders, waitings, thread, crashes>>
    BY DEF Resumes, daemonVars, mainVars, lockerVars
  <1>7. \E rc \in Result \cup {"wait"} :
          /\ rc # "wait" => result' = [result EXCEPT ![h] = rc] /\ call' = [call EXCEPT ![h] = "none"]
          /\ rc = "wait" => result' = result /\ call' = [call EXCEPT ![h] = "wait"]
          /\ rc = "REFUSED" => \E k \in DOMAIN down[c] : Refusal(down[c][k])
          /\ state' = [state EXCEPT ![h] = IF rc = "OK" THEN "LOCKED" ELSE @]
          /\ rc = "OK" => \E k \in DOMAIN down[c] : Grants(down[c][k])
    <2>1. CASE \E rc \in {"BROKEN", "TIMEOUT"} : Return(h, rc)
      BY <2>1 DEF Return, Result
    <2>2. CASE down[c] # <<>> /\ Concludes(h, Head(down[c]))
      <3>1. 1 \in DOMAIN down[c] /\ down[c][1] = Head(down[c])
        BY <1>5, <2>2, ReadProperties
      <3>2. CASE result' = result /\ state' = state /\ call' = [call EXCEPT ![h] = "wait"]
        <4>1. state' = [state EXCEPT ![h] = state[h]]
          BY <1>1, <3>2 DEF TypeOK
        <4>2. "wait" \in Result \cup {"wait"} /\ "wait" # "OK" /\ "wait" # "REFUSED"
          OBVIOUS
        <4> QED
          BY <3>2, <4>1, <4>2
      <3>3. CASE ~(result' = result /\ state' = state /\ call' = [call EXCEPT ![h] = "wait"])
        BY <2>2, <3>1, <3>3 DEF Concludes, Result
      <3> QED
        BY <3>2, <3>3
    <2> QED
      BY <1>2, <2>1, <2>2 DEF Resumes
  <1>8. PICK rc \in Result \cup {"wait"} :
          /\ rc # "wait" => result' = [result EXCEPT ![h] = rc] /\ call' = [call EXCEPT ![h] = "none"]
          /\ rc = "wait" => result' = result /\ call' = [call EXCEPT ![h] = "wait"]
          /\ rc = "REFUSED" => \E k \in DOMAIN down[c] : Refusal(down[c][k])
          /\ state' = [state EXCEPT ![h] = IF rc = "OK" THEN "LOCKED" ELSE @]
          /\ rc = "OK" => \E k \in DOMAIN down[c] : Grants(down[c][k])
    BY <1>7
  <1>9. /\ state'[h] = IF rc = "OK" THEN "LOCKED" ELSE "CONNECTED"
        /\ rc # "wait" => result'[h] = rc
        /\ rc = "wait" => result'[h] = result[h]
        /\ call'[h] = IF rc = "wait" THEN "wait" ELSE "none"
        /\ \A g \in Handle : g # h => state'[g] = state[g] /\ call'[g] = call[g] /\ result'[g] = result[g]
    BY <1>1, <1>3, <1>8 DEF TypeOK
  <1>10. /\ \A x \in Conn : x # c => down'[x] = down[x]
         /\ \A k \in DOMAIN down'[c] : \E j \in DOMAIN down[c] : down'[c][k] = down[c][j]
    <2>1. CASE down' = down
      BY <2>1
    <2>2. CASE down[c] # <<>> /\ down' = [down EXCEPT ![c] = Tail(down[c])]
      <3>1. /\ DOMAIN Tail(down[c]) = 1..(Len(down[c]) - 1)
            /\ \A j \in 1..(Len(down[c]) - 1) : Tail(down[c])[j] = down[c][j + 1] /\ j + 1 \in DOMAIN down[c]
        BY <1>5, <2>2, ReadProperties
      <3>2. \A j \in DOMAIN Tail(down[c]) : \E i \in DOMAIN down[c] : Tail(down[c])[j] = down[c][i]
        BY <3>1
      <3>3. down'[c] = Tail(down[c]) /\ \A x \in Conn : x # c => down'[x] = down[x]
        BY <1>1, <1>4, <2>2 DEF TypeOK
      <3> QED
        BY <3>2, <3>3
    <2> QED
      BY <1>2, <2>1, <2>2 DEF Resumes
  <1>11. ASSUME NEW x \in Conn, x[1] = h PROVE Quiet(x)
    <2>1. x # c => ~(x[2] = opened[h])
      BY <1>4, <1>11, ConnNames
    <2>2. IsRefused(x)' => IsRefused(x)
      <3>1. CASE x = c
        BY <1>4, <1>6, <1>8, <1>9, <1>10, <3>1 DEF IsRefused
      <3>2. CASE x # c
        BY <1>6, <1>10, <1>11, <2>1, <3>2 DEF IsRefused
      <3> QED
        BY <3>1, <3>2
    <2>3. IsGranted(x)' => IsGranted(x)
      <3>1. CASE x = c
        BY <1>4, <1>6, <1>8, <1>9, <1>10, <3>1 DEF IsGranted
      <3>2. CASE x # c
        BY <1>6, <1>10, <1>11, <2>1, <3>2 DEF IsGranted
      <3> QED
        BY <3>1, <3>2
    <2>4. x[2] > opened[x[1]] => down'[x] = down[x]
      <3>1. opened[h] \in Nat
        BY <1>1 DEF TypeOK
      <3>2. x[2] > opened[x[1]] => x # c
        BY <1>4, <1>11, <3>1
      <3> QED
        BY <1>10, <3>2
    <2> QED
      BY <1>6, <2>2, <2>3, <2>4 DEF Quiet
  <1>12. HandleSound(h)'
    BY <1>1, <1>2, <1>3, <1>6, <1>9 DEF HandleSound, Current
  <1>13. ClientSide(h)
    <2>1. \A x \in Conn : x[1] # h => end'[x] = end[x] /\ up'[x] = up[x] /\ down'[x] = down[x]
      BY <1>4, <1>6, <1>10
    <2>2. UNCHANGED <<request, opened, locks, asked, daemonVars>>
      BY DEF Resumes
    <2> QED
      BY <1>9, <1>11, <1>12, <2>1, <2>2 DEF ClientSide
  <1> QED
    BY <1>13, ClientSideInv

LEMMA RecvInv ==
  ASSUME SessionInv, NEW h \in Handle, Recv(h) \/ RecvError(h) \/ RecvTimeout(h)
  PROVE  SessionInv'
  <1>1. TypeOK /\ HandleSound(h)
    BY DEF SessionInv, Handles
  <1>2. CASE Recv(h)
    <2>1. PICK c : c = Current(h)
      OBVIOUS
    <2>2. call[h] \in {"lock", "wait"} /\ down[c] # <<>>
      BY <1>2, <2>1 DEF Recv
    <2>3. opened[h] > 0
      BY <1>1, <2>2 DEF HandleSound
    <2>4. c \in Conn
      BY <1>1, <2>1, <2>3, CurrentConn
    <2>5. down[c] \in Seq(Answer)
      BY <1>1, <2>4 DEF TypeOK
    <2>6. Head(down[c]) \in Answer
      BY <2>2, <2>5, ReadProperties
    <2>7. LockAnswer(h, Head(down[c])) \/ WaitAnswer(h, Head(down[c]))
      BY <1>2, <2>1 DEF Recv
    <2>8. Concludes(h, Head(down[c]))
      BY <2>6, <2>7, AnswerTaken
    <2>9. down' = [down EXCEPT ![c] = Tail(down[c])]
      BY <1>2, <2>1 DEF Recv
    <2>10. Resumes(h)
      BY <1>2, <2>1, <2>2, <2>8, <2>9 DEF Resumes, Recv
    <2>11. TypeOK'
      BY <1>1, <1>2, RecvType
    <2> QED
      BY <2>10, <2>11, ResumesInv
  <1>3. CASE RecvError(h) \/ RecvTimeout(h)
    <2>1. Resumes(h)
      BY <1>3 DEF Resumes, RecvError, RecvTimeout, socketVars
    <2>2. TypeOK'
      BY <1>1, <1>3, RecvNothingType
    <2> QED
      BY <2>1, <2>2, ResumesInv
  <1> QED
    BY <1>2, <1>3

\* flom_handle_unlock, clean and delete half close the socket, and send UNLOCK, if the
\* handle is LOCKED, to a locker.
LEMMA DisconnectInv ==
  ASSUME SessionInv, NEW h \in Handle, NEW f \in {"unlock", "clean", "delete"}, call[h] = "none",
         NEW c, c = Current(h), Disconnect(h, f),
         \/ state[h] = "LOCKED" /\ up' = Sent(c, Unlock(request[h]))
         \/ state[h] = "CONNECTED" /\ up' = up,
         UNCHANGED <<request, result, opened, locks, down, asked, daemonVars>>, TypeOK'
  PROVE  SessionInv'
  <1>1. TypeOK /\ HandleSound(h)
    BY DEF SessionInv, Handles
  <1>2. opened[h] > 0 /\ end[c] = "open"
    BY <1>1 DEF HandleSound
  <1>3. c \in Conn /\ c[1] = h /\ c[2] = opened[h]
    BY <1>1, <1>2, CurrentConn
  <1>4. UNCHANGED <<server, msg, pipe, hup, null_fd, exists, holders, waitings, thread, crashes>>
    BY DEF daemonVars, mainVars, lockerVars
  <1>5. /\ state'[h] = "CONNECTED" /\ call'[h] = f /\ end'[c] = "shut"
        /\ \A g \in Handle : g # h => state'[g] = state[g] /\ call'[g] = call[g]
        /\ \A x \in Conn : x # c => end'[x] = end[x]
    BY <1>1, <1>3 DEF Disconnect, TypeOK
  <1>6. /\ \A x \in Conn : x # c => up'[x] = up[x]
        /\ \/ up'[c] = up[c]
           \/ /\ server[c] # "main"
              /\ \A k \in DOMAIN up'[c] : \/ k \in DOMAIN up[c] /\ up'[c][k] = up[c][k]
                                          \/ up'[c][k].verb = "UNLOCK"
    <2>1. CASE up' = up
      BY <2>1
    <2>2. CASE state[h] = "LOCKED" /\ up' = [up EXCEPT ![c] = Append(up[c], Unlock(request[h]))]
      <3>1. ConnSound(c) /\ IsGranted(c)
        BY <1>3, <2>2 DEF SessionInv, Conns, IsGranted
      <3>2. server[c] # "main"
        BY <1>2, <3>1, SessionAssumption DEF ConnSound, HeldSound
      <3>3. up[c] \in Seq(Message) /\ request[h] \in Request
        BY <1>1, <1>3 DEF TypeOK
      <3>4. Unlock(request[h]) \in Message /\ Unlock(request[h]).verb = "UNLOCK"
        BY <3>3, RequestFields DEF Unlock
      <3>5. /\ DOMAIN Append(up[c], Unlock(request[h])) = 1..(Len(up[c]) + 1)
            /\ \A j \in 1..(Len(up[c]) + 1) :
                 Append(up[c], Unlock(request[h]))[j] = IF j = Len(up[c]) + 1 THEN Unlock(request[h]) ELSE up[c][j]
        BY <3>3, <3>4, AppendedProperties
      <3>6. Len(up[c]) \in Nat /\ DOMAIN up[c] = 1..Len(up[c])
        BY <3>3, LenProperties
      <3>7. up'[c] = Append(up[c], Unlock(request[h])) /\ \A x \in Conn : x # c => up'[x] = up[x]
        BY <1>1, <1>3, <2>2 DEF TypeOK
      <3>8. \A k \in DOMAIN up'[c] : \/ k \in DOMAIN up[c] /\ up'[c][k] = up[c][k]
                                     \/ up'[c][k].verb = "UNLOCK"
        BY <3>4, <3>5, <3>6, <3>7
      <3> QED
        BY <3>2, <3>7, <3>8
    <2> QED
      BY <2>1, <2>2 DEF Sent
  <1>7. ASSUME NEW x \in Conn, x[1] = h PROVE Quiet(x)
    <2>1. x # c => ~(x[2] = opened[h])
      BY <1>3, <1>7, ConnNames
    <2>2. (IsRefused(x)' => IsRefused(x)) /\ (IsGranted(x)' => IsGranted(x))
      BY <1>5, <1>7 DEF IsRefused, IsGranted
    <2>3. x[2] > opened[x[1]] => x # c
      <3>1. opened[h] \in Nat
        BY <1>1 DEF TypeOK
      <3> QED
        BY <1>3, <1>7, <3>1
    <2> QED
      BY <1>2, <1>4, <1>5, <1>6, <2>2, <2>3 DEF Quiet
  <1>8. HandleSound(h)'
    BY <1>1, <1>2, <1>5 DEF HandleSound
  <1>9. ClientSide(h)
    <2>1. \A x \in Conn : x[1] # h => end'[x] = end[x] /\ up'[x] = up[x] /\ down'[x] = down[x]
      BY <1>3, <1>5, <1>6
    <2> QED
      BY <1>5, <1>7, <1>8, <2>1 DEF ClientSide
  <1> QED
    BY <1>9, ClientSideInv

\* Or leave the socket as it is, and the handle too unless it is cleaned or freed.
LEMMA StayInv ==
  ASSUME SessionInv, NEW h \in Handle, call[h] = "none", Stay(h), up' = up,
         state' = state \/ \E s \in {"CLEANED", "FREED"} : state' = [state EXCEPT ![h] = s],
         UNCHANGED <<request, result, opened, locks, down, asked, daemonVars>>, TypeOK'
  PROVE  SessionInv'
  <1>1. TypeOK /\ HandleSound(h)
    BY DEF SessionInv, Handles
  <1>2. UNCHANGED <<server, msg, pipe, hup, null_fd, exists, holders, waitings, thread, crashes>>
    BY DEF daemonVars, mainVars, lockerVars
  <1>3. /\ state'[h] \in {state[h], "CLEANED", "FREED"}
        /\ \A g \in Handle : g # h => state'[g] = state[g]
        /\ call' = call /\ end' = end
    BY <1>1 DEF Stay, TypeOK
  <1>4. ASSUME NEW x \in Conn, x[1] = h PROVE Quiet(x)
    <2>1. (IsRefused(x)' => IsRefused(x)) /\ (IsGranted(x)' => IsGranted(x))
      BY <1>3, <1>4 DEF IsRefused, IsGranted
    <2> QED
      BY <1>2, <1>3, <2>1 DEF Quiet
  <1>5. HandleSound(h)'
    BY <1>1, <1>3 DEF HandleSound, Current
  <1>6. ClientSide(h)
    BY <1>3, <1>4, <1>5 DEF ClientSide
  <1> QED
    BY <1>6, ClientSideInv

LEMMA UnlockCallInv ==
  ASSUME SessionInv, NEW h \in Handle, NEW f \in {"unlock", "clean", "delete"}, UnlockCall(h, f)
  PROVE  SessionInv'
  <1>1. TypeOK /\ HandleSound(h)
    BY DEF SessionInv, Handles
  <1>2. /\ call[h] = "none"
        /\ UNCHANGED <<request, result, opened, locks, down, asked, daemonVars>>
    BY DEF UnlockCall
  <1>3. TypeOK'
    BY <1>1, UnlockCallType
  <1>4. PICK c : c = Current(h)
    OBVIOUS
  <1>5. CASE /\ Disconnect(h, f)
             /\ \/ state[h] = "LOCKED" /\ up' = Sent(c, Unlock(request[h]))
                \/ state[h] = "CONNECTED" /\ up' = up
    BY <1>2, <1>3, <1>4, <1>5, DisconnectInv
  <1>6. CASE /\ Stay(h) /\ up' = up
             /\ state' = state \/ \E s \in {"CLEANED", "FREED"} : state' = [state EXCEPT ![h] = s]
    BY <1>2, <1>3, <1>6, StayInv
  <1>7. CASE UnlockLocked(h, f)
    BY <1>4, <1>5, <1>6, <1>7 DEF UnlockLocked
  <1>8. CASE UnlockConnected(h, f)
    BY <1>5, <1>6, <1>8 DEF UnlockConnected
  <1>9. CASE UnlockIdle(h, f)
    BY <1>6, <1>9 DEF UnlockIdle, Final
  <1> QED
    BY <1>7, <1>8, <1>9 DEF UnlockCall

LEMMA ByeInv ==
  ASSUME SessionInv, NEW h \in Handle, Bye(h)
  PROVE  SessionInv'
  <1>1. TypeOK /\ HandleSound(h)
    BY DEF SessionInv, Handles
  <1>2. PICK c : c = Current(h)
    OBVIOUS
  <1>3. opened[h] > 0
    BY <1>1 DEF Bye, HandleSound
  <1>4. c \in Conn /\ c[1] = h /\ c[2] = opened[h] /\ opened[h] \in Nat
    BY <1>1, <1>2, <1>3, CurrentConn DEF TypeOK
  <1>5. /\ UNCHANGED <<request, result, opened, locks, up, asked>>
        /\ UNCHANGED <<server, msg, pipe, hup, null_fd, exists, holders, waitings, thread, crashes>>
    BY DEF Bye, daemonVars, mainVars, lockerVars
  <1>6. /\ state'[h] \in {"DISCONNECTED", "CLEANED", "FREED"} /\ call'[h] = "none"
        /\ \A g \in Handle : g # h => state'[g] = state[g] /\ call'[g] = call[g]
    BY <1>1 DEF Bye, Final, TypeOK
  <1>7. /\ end'[c] = "gone" /\ down'[c] = <<>> /\ DOMAIN down'[c] = {}
        /\ \A x \in Conn : x # c => end'[x] = end[x] /\ down'[x] = down[x]
    BY <1>1, <1>2, <1>4 DEF Bye, TypeOK
  <1>8. ASSUME NEW x \in Conn, x[1] = h PROVE Quiet(x)
    <2>1. IsRefused(x)' => IsRefused(x)
      <3>1. CASE x = c
        BY <1>5, <1>7, <3>1 DEF IsRefused
      <3>2. CASE x # c
        BY <1>5, <1>7, <3>2 DEF IsRefused
      <3> QED
        BY <3>1, <3>2
    <2>2. end'[x] = "open" => x # c
      BY <1>7
    <2>3. end'[x] = "open" /\ IsGranted(x)' => IsGranted(x)
      BY <1>5, <1>6, <1>7, <1>8, <2>2 DEF IsGranted
    <2>4. x[2] > opened[x[1]] => x # c
      BY <1>4, <1>8
    <2> QED
      BY <1>5, <1>7, <2>1, <2>2, <2>3, <2>4 DEF Quiet
  <1>9. HandleSound(h)'
    BY <1>1, <1>5, <1>6 DEF HandleSound
  <1>10. TypeOK'
    BY <1>1, LeaveType
  <1>11. ClientSide(h)
    <2>1. \A x \in Conn : x[1] # h => end'[x] = end[x] /\ up'[x] = up[x] /\ down'[x] = down[x]
      BY <1>4, <1>5, <1>7
    <2>2. UNCHANGED <<request, opened, locks, asked, daemonVars>>
      BY DEF Bye
    <2> QED
      BY <1>5, <1>6, <1>8, <1>9, <1>10, <2>1, <2>2 DEF ClientSide
  <1> QED
    BY <1>11, ClientSideInv

LEMMA ExitInv ==
  ASSUME SessionInv, NEW h \in Handle, Exit(h)
  PROVE  SessionInv'
  <1>1. TypeOK /\ HandleSound(h) /\ Conns
    BY DEF SessionInv, Handles
  <1>2. /\ UNCHANGED <<request, opened, locks, up, asked>>
        /\ UNCHANGED <<server, msg, pipe, hup, null_fd, exists, holders, waitings, thread, crashes>>
    BY DEF Exit, daemonVars, mainVars, lockerVars
  <1>3. /\ state'[h] = "EXITED" /\ call'[h] = "none" /\ result'[h] = "NONE"
        /\ \A g \in Handle : g # h => state'[g] = state[g] /\ call'[g] = call[g] /\ result'[g] = result[g]
    BY <1>1 DEF Exit, TypeOK
  <1>4. \A x \in Conn : /\ x[1] = h => /\ end'[x] = IF end[x] # "none" THEN "gone" ELSE "none"
                                       /\ down'[x] = <<>> /\ DOMAIN down'[x] = {}
                        /\ x[1] # h => end'[x] = end[x] /\ down'[x] = down[x]
    BY DEF Exit
  <1>5. ASSUME NEW x \in Conn, x[1] = h PROVE Quiet(x)
    <2>1. end'[x] # "open" /\ down'[x] = <<>> /\ DOMAIN down'[x] = {}
      BY <1>4, <1>5
    <2>2. ~IsRefused(x)'
      BY <1>3, <1>5, <2>1 DEF IsRefused
    <2>3. x[2] > opened[x[1]] => end'[x] = end[x] /\ down'[x] = down[x]
      BY <1>1, <1>4, <1>5 DEF Conns, ConnSound, SocketSound
    <2> QED
      BY <1>2, <2>1, <2>2, <2>3 DEF Quiet
  <1>6. HandleSound(h)'
    BY <1>1, <1>2, <1>3 DEF HandleSound
  <1>7. TypeOK'
    BY <1>1, LeaveType
  <1>8. UNCHANGED <<request, opened, locks, asked, daemonVars>>
    BY DEF Exit
  <1>9. ClientSide(h)
    BY <1>2, <1>3, <1>4, <1>5, <1>6, <1>7, <1>8 DEF ClientSide
  <1> QED
    BY <1>9, ClientSideInv

\* flom_handle_lock sends r on the connection c, which is new or the one it has.
Sends(h, r, c, fresh) ==
  /\ fresh = (state[h] # "CONNECTED")
  /\ c = IF fresh THEN <<h, opened[h] + 1>> ELSE Current(h)
  /\ c \in Conn /\ c[1] = h /\ call[h] = "none" /\ c \notin null_fd
  /\ locks'[h] = locks[h] + 1 /\ locks[h] < MaxLocks[h]
  /\ opened'[h] = IF fresh THEN opened[h] + 1 ELSE opened[h]
  /\ state'[h] = "CONNECTED" /\ request'[h] = r /\ end'[c] = "open"
  /\ server'[c] = IF fresh THEN "main" ELSE server[c]
  /\ \A g \in Handle : g # h => /\ locks'[g] = locks[g] /\ opened'[g] = opened[g]
                                /\ state'[g] = state[g] /\ request'[g] = request[g]
                                /\ call'[g] = call[g] /\ result'[g] = result[g]
  /\ \A x \in Conn : x # c => /\ end'[x] = end[x] /\ server'[x] = server[x]
                              /\ up'[x] = up[x] /\ asked'[x] = asked[x]
  /\ \/ /\ server[c] = "closed" /\ result'[h] = "BROKEN" /\ call'[h] = "none"
        /\ up' = up /\ asked' = asked
     \/ /\ call'[h] = "lock" /\ result'[h] = "NONE" /\ asked'[c] = Append(asked[c], r)
        /\ up'[c] = IF server[c] = "closed" THEN up[c] ELSE Append(up[c], Lock(r))
  /\ UNCHANGED <<down, msg, pipe, hup, null_fd, moved, exists, holders, waitings, scan, thread, crashes>>

LEMMA LockCallSends ==
  ASSUME SessionInv, NEW h \in Handle, NEW r \in Request, LockCall(h, r)
  PROVE  \E c, fresh : Sends(h, r, c, fresh)
  <1>0. TypeOK /\ HandleSound(h)
    BY DEF SessionInv, Handles
  <1>1. PICK fresh : fresh = (state[h] # "CONNECTED")
    OBVIOUS
  <1>2. PICK c : c = IF fresh THEN <<h, opened[h] + 1>> ELSE Current(h)
    OBVIOUS
  <1>3. c \in Conn /\ c[1] = h
    BY <1>0, <1>1, <1>2, LockCallConn
  <1>b. c \notin null_fd
    <2>1. ConnSound(c) /\ opened[h] \in Nat
      BY <1>0, <1>3 DEF SessionInv, Conns, TypeOK
    <2>2. CASE fresh
      <3>1. c[2] > opened[c[1]]
        BY <1>2, <2>1, <2>2
      <3>2. server[c] = "none"
        BY <2>1, <3>1 DEF ConnSound, SocketSound
      <3> QED
        BY <2>1, <3>2, SessionAssumption DEF ConnSound, NullSound
    <2>3. CASE ~fresh
      <3>1. end[c] = "open"
        BY <1>0, <1>1, <1>2, <2>3 DEF HandleSound, LockCall, MayLock
      <3> QED
        BY <2>1, <3>1 DEF ConnSound, NullSound
    <2> QED
      BY <1>1, <2>2, <2>3
  <1>4. /\ call[h] = "none" /\ locks[h] < MaxLocks[h]
        /\ locks' = [locks EXCEPT ![h] = locks[h] + 1]
        /\ opened' = [opened EXCEPT ![h] = IF fresh THEN opened[h] + 1 ELSE opened[h]]
        /\ state' = [state EXCEPT ![h] = "CONNECTED"]
        /\ request' = [request EXCEPT ![h] = r]
        /\ end' = [end EXCEPT ![c] = "open"]
        /\ server' = [server EXCEPT ![c] = IF fresh THEN "main" ELSE server[c]]
        /\ \/ /\ SendFails(c)
              /\ result' = [result EXCEPT ![h] = "BROKEN"]
              /\ UNCHANGED <<call, up, asked>>
           \/ /\ call' = [call EXCEPT ![h] = "lock"]
              /\ up' = Sent(c, Lock(r))
              /\ asked' = [asked EXCEPT ![c] = Append(asked[c], r)]
              /\ result' = [result EXCEPT ![h] = "NONE"]
        /\ UNCHANGED <<down, msg, pipe, hup, null_fd, moved, exists, holders, waitings, scan, thread, crashes>>
    BY <1>1, <1>2 DEF LockCall, MayLock, lockerVars
  <1>5. /\ locks'[h] = locks[h] + 1
        /\ opened'[h] = IF fresh THEN opened[h] + 1 ELSE opened[h]
        /\ state'[h] = "CONNECTED" /\ request'[h] = r
        /\ \A g \in Handle : g # h => /\ locks'[g] = locks[g] /\ opened'[g] = opened[g]
                                      /\ state'[g] = state[g] /\ request'[g] = request[g]
    BY <1>0, <1>4 DEF TypeOK
  <1>6. /\ end'[c] = "open" /\ server'[c] = IF fresh THEN "main" ELSE server[c]
        /\ \A x \in Conn : x # c => end'[x] = end[x] /\ server'[x] = server[x]
    BY <1>0, <1>3, <1>4 DEF TypeOK
  <1>a. /\ call[h] = "none" /\ locks[h] < MaxLocks[h]
        /\ UNCHANGED <<down, msg, pipe, hup, null_fd, moved, exists, holders, waitings, scan, thread, crashes>>
    BY <1>4
  <1>7. CASE /\ SendFails(c)
             /\ result' = [result EXCEPT ![h] = "BROKEN"]
             /\ UNCHANGED <<call, up, asked>>
    <2>1. result'[h] = "BROKEN" /\ \A g \in Handle : g # h => result'[g] = result[g]
      BY <1>0, <1>7 DEF TypeOK
    <2> QED
      BY <1>1, <1>2, <1>3, <1>5, <1>6, <1>7, <1>a, <1>b, <2>1 DEF Sends, SendFails, Closed
  <1>8. CASE /\ call' = [call EXCEPT ![h] = "lock"]
             /\ up' = Sent(c, Lock(r))
             /\ asked' = [asked EXCEPT ![c] = Append(asked[c], r)]
             /\ result' = [result EXCEPT ![h] = "NONE"]
    <2>1. /\ result'[h] = "NONE" /\ call'[h] = "lock"
          /\ \A g \in Handle : g # h => result'[g] = result[g] /\ call'[g] = call[g]
      BY <1>0, <1>8 DEF TypeOK
    <2>2. /\ asked'[c] = Append(asked[c], r)
          /\ up'[c] = IF server[c] = "closed" THEN up[c] ELSE Append(up[c], Lock(r))
          /\ \A x \in Conn : x # c => up'[x] = up[x] /\ asked'[x] = asked[x]
      BY <1>0, <1>3, <1>8, <1>b DEF TypeOK, Sent, Closed
    <2>3. \A g \in Handle : g # h => /\ locks'[g] = locks[g] /\ opened'[g] = opened[g]
                                     /\ state'[g] = state[g] /\ request'[g] = request[g]
                                     /\ call'[g] = call[g] /\ result'[g] = result[g]
      BY <1>5, <2>1
    <2>4. \A x \in Conn : x # c => /\ end'[x] = end[x] /\ server'[x] = server[x]
                                   /\ up'[x] = up[x] /\ asked'[x] = asked[x]
      BY <1>6, <2>2
    <2>5. /\ call'[h] = "lock" /\ result'[h] = "NONE" /\ asked'[c] = Append(asked[c], r)
          /\ up'[c] = IF server[c] = "closed" THEN up[c] ELSE Append(up[c], Lock(r))
      BY <2>1, <2>2
    <2>6. /\ locks'[h] = locks[h] + 1
          /\ opened'[h] = IF fresh THEN opened[h] + 1 ELSE opened[h]
          /\ state'[h] = "CONNECTED" /\ request'[h] = r /\ end'[c] = "open"
          /\ server'[c] = IF fresh THEN "main" ELSE server[c]
      BY <1>5, <1>6
    <2>7. Sends(h, r, c, fresh)
      BY <1>1, <1>2, <1>3, <1>a, <1>b, <2>3, <2>4, <2>5, <2>6 DEF Sends
    <2> QED
      BY <2>7
  <1> QED
    BY <1>4, <1>7, <1>8

\* Nobody has seen the connection that is opened.
LEMMA FreshConn ==
  ASSUME SessionInv, NEW c \in Conn, c[2] > opened[c[1]]
  PROVE  /\ server[c] = "none" /\ up[c] = <<>> /\ down[c] = <<>> /\ asked[c] = <<>>
         /\ msg[c] = NoMsg /\ c \notin null_fd
         /\ \A m \in Name : ~Has(holders, m, c) /\ ~Has(waitings, m, c)
  <1>1. ConnSound(c) /\ Records /\ "none" \notin Name
    BY SessionAssumption DEF SessionInv, Conns
  <1>2. server[c] = "none" /\ up[c] = <<>> /\ down[c] = <<>> /\ asked[c] = <<>>
    BY <1>1 DEF ConnSound, SocketSound
  <1>3. msg[c] = NoMsg
    BY <1>1, <1>2, SessionAssumption DEF ConnSound, MsgSound
  <1>5. c \notin null_fd
    BY <1>1, <1>2, SessionAssumption DEF ConnSound, NullSound
  <1>4. \A m \in Name : ~Has(holders, m, c) /\ ~Has(waitings, m, c)
    BY <1>1, <1>2 DEF Records, RecordSound, Has
  <1> QED
    BY <1>2, <1>3, <1>4, <1>5

LEMMA SendsFresh ==
  ASSUME SessionInv, NEW h \in Handle, NEW r \in Request, NEW c, NEW fresh, Sends(h, r, c, fresh), fresh
  PROVE  /\ server[c] = "none" /\ asked'[c] = <<r>> /\ ConnSound(c)'
  <1>1. TypeOK /\ c \in Conn /\ c[1] = h /\ opened[h] \in Nat /\ c = <<h, opened[h] + 1>>
    BY DEF SessionInv, TypeOK, Sends
  <1>2. c[2] = opened[h] + 1 /\ opened'[h] = opened[h] + 1
    BY <1>1 DEF Sends
  <1>3. /\ server[c] = "none" /\ up[c] = <<>> /\ down[c] = <<>> /\ asked[c] = <<>>
        /\ msg[c] = NoMsg /\ c \notin null_fd
        /\ \A m \in Name : ~Has(holders, m, c) /\ ~Has(waitings, m, c)
    BY <1>1, <1>2, FreshConn
  <1>4. /\ asked'[c] = Append(asked[c], r) /\ up'[c] = Append(up[c], Lock(r)) /\ result'[h] = "NONE"
        /\ server'[c] = "main" /\ state'[h] = "CONNECTED" /\ down' = down /\ msg' = msg
        /\ holders' = holders /\ waitings' = waitings /\ null_fd' = null_fd
    BY <1>3 DEF Sends
  <1>5. asked'[c] = <<r>> /\ up'[c] = <<Lock(r)>> /\ down'[c] = <<>> /\ msg'[c] = NoMsg
    BY <1>3, <1>4
  <1>6. /\ DOMAIN up'[c] = {1} /\ up'[c][1].verb = "LOCK" /\ up'[c][1].req = r
        /\ DOMAIN asked'[c] = {1} /\ asked'[c][1] = r /\ asked'[c] # <<>> /\ DOMAIN down'[c] = {}
    BY <1>5 DEF Lock
  <1>7. SocketSound(c)'
    <2>1. ~(c[2] > opened'[c[1]])
      BY <1>1, <1>2
    <2> QED
      BY <1>6, <2>1 DEF SocketSound, Asked
  <1>8. MsgSound(c)' /\ NullSound(c)'
    BY <1>3, <1>4, <1>5, SessionAssumption DEF MsgSound, NullSound
  <1>9. \A m \in Name : ~Has(holders, m, c)' /\ ~Has(waitings, m, c)'
    BY <1>3, <1>4 DEF Has
  <1>10. Once(c)'
    <2>1. ~Recorded(c)' /\ \A m \in Name : OnceFor(holders'[m], c) /\ OnceFor(waitings'[m], c)
      BY <1>9 DEF Recorded, Has, OnceFor
    <2> QED
      BY <1>4, <1>5, <1>6, <1>9, <2>1 DEF Once
  <1>11. Dropped(c)'
    BY <1>1, <1>4, <1>6 DEF Dropped, IsRefused
  <1>12. HeldSound(c)'
    BY <1>1, <1>4, <1>6 DEF HeldSound, IsGranted
  <1> QED
    BY <1>3, <1>5, <1>7, <1>8, <1>10, <1>11, <1>12 DEF ConnSound

\* A second LOCK on a connection.
LEMMA SendsAgain ==
  ASSUME SessionInv, NEW h \in Handle, NEW r \in Request, NEW c, NEW fresh, Sends(h, r, c, fresh), ~fresh
  PROVE  /\ ConnSound(c)'
         /\ server'[c] = "closed" \/ Len(asked'[c]) # 1
         /\ \A j \in DOMAIN asked[c] : j \in DOMAIN asked'[c] /\ asked'[c][j] = asked[c][j]
  <1>1. TypeOK /\ HandleSound(h) /\ state[h] = "CONNECTED" /\ call[h] = "none"
    BY DEF SessionInv, Handles, Sends
  <1>2. c \in Conn /\ c = Current(h) /\ c[1] = h /\ opened'[h] = opened[h] /\ end'[c] = "open"
        /\ server'[c] = server[c] /\ down' = down /\ msg' = msg /\ hup' = hup
        /\ holders' = holders /\ waitings' = waitings /\ thread' = thread /\ null_fd' = null_fd
    BY DEF Sends
  <1>3. end[c] = "open" /\ c[2] = opened[h] /\ opened[h] \in Nat
    BY <1>1, <1>2 DEF HandleSound, Current, TypeOK
  <1>4. ~(c[2] > opened[h]) /\ ConnSound(c)
    BY <1>2, <1>3 DEF SessionInv, Conns
  <1>5. (IsRefused(c)' => IsRefused(c)) /\ (IsGranted(c)' => IsGranted(c))
    BY <1>2 DEF IsRefused, IsGranted, Sends
  <1>6. CASE server[c] = "closed" /\ up' = up /\ asked' = asked
    <2>1. Quiet(c)
      BY <1>2, <1>3, <1>5, <1>6 DEF Quiet
    <2> QED
      BY <1>2, <1>4, <1>6, <2>1, QuietConn
  <1>7. CASE /\ asked'[c] = Append(asked[c], r)
             /\ up'[c] = IF server[c] = "closed" THEN up[c] ELSE Append(up[c], Lock(r))
    <2>1. asked[c] \in Seq(Request) /\ up[c] \in Seq(Message) /\ Lock(r) \in Message
      BY <1>1, <1>2, RequestFields DEF TypeOK
    <2>2. asked[c] # <<>>
      BY <1>2, <1>4 DEF ConnSound, SocketSound
    <2>3. Len(asked[c]) \in Nat /\ DOMAIN asked[c] = 1..Len(asked[c]) /\ Len(asked[c]) # 0
      BY <2>1, <2>2, LenProperties, EmptySeq
    <2>4. /\ DOMAIN Append(asked[c], r) = 1..(Len(asked[c]) + 1)
          /\ \A j \in 1..(Len(asked[c]) + 1) :
               Append(asked[c], r)[j] = IF j = Len(asked[c]) + 1 THEN r ELSE asked[c][j]
      BY <2>1, AppendedProperties
    <2>5. Len(Append(asked[c], r)) = Len(asked[c]) + 1
      BY <2>1
    <2>6. ~Single(c)' /\ Len(asked'[c]) # 1
      BY <1>7, <2>3, <2>5 DEF Single
    <2>7. \A j \in DOMAIN asked[c] : j \in DOMAIN asked'[c] /\ asked'[c][j] = asked[c][j]
      BY <1>7, <2>3, <2>4
    <2>8. \E j \in DOMAIN asked'[c] : asked'[c][j] = r
      BY <1>7, <2>3, <2>4
    <2>9. \A k \in DOMAIN up'[c] : \/ k \in DOMAIN up[c] /\ up'[c][k] = up[c][k]
                                   \/ up'[c][k] = Lock(r)
      <3>1. CASE up'[c] = up[c]
        BY <3>1
      <3>2. CASE up'[c] = Append(up[c], Lock(r))
        <4>1. /\ DOMAIN Append(up[c], Lock(r)) = 1..(Len(up[c]) + 1)
              /\ \A j \in 1..(Len(up[c]) + 1) :
                   Append(up[c], Lock(r))[j] = IF j = Len(up[c]) + 1 THEN Lock(r) ELSE up[c][j]
          BY <2>1, AppendedProperties
        <4>2. Len(up[c]) \in Nat /\ DOMAIN up[c] = 1..Len(up[c])
          BY <2>1, LenProperties
        <4> QED
          BY <3>2, <4>1, <4>2
      <3> QED
        BY <1>7, <3>1, <3>2
    <2>10. SocketSound(c)'
      <3>1. SocketSound(c) /\ Lock(r).verb = "LOCK" /\ Lock(r).req = r
        BY <1>4 DEF ConnSound, Lock
      <3>2. ~(c[2] > opened'[c[1]])
        BY <1>2, <1>4
      <3>3. asked'[c] # <<>>
        BY <2>8
      <3>4. \A k \in DOMAIN up'[c] : up'[c][k].verb = "LOCK"
        BY <1>3, <2>9, <3>1 DEF SocketSound
      <3>5. \A k \in DOMAIN up'[c] : \E j \in DOMAIN asked'[c] : asked'[c][j] = up'[c][k].req
        <4> SUFFICES ASSUME NEW k \in DOMAIN up'[c]
                     PROVE  \E j \in DOMAIN asked'[c] : asked'[c][j] = up'[c][k].req
          OBVIOUS
        <4>1. CASE up'[c][k] = Lock(r)
          BY <2>8, <3>1, <4>1
        <4>2. CASE k \in DOMAIN up[c] /\ up'[c][k] = up[c][k]
          <5>1. Asked(c, up[c][k].req)
            BY <3>1, <3>4, <4>2 DEF SocketSound
          <5> QED
            BY <2>7, <4>2, <5>1 DEF Asked
        <4> QED
          BY <2>9, <4>1, <4>2
      <3> QED
        BY <3>2, <3>3, <3>4, <3>5 DEF SocketSound, Asked
    <2>11. MsgSound(c)' /\ NullSound(c)'
      BY <1>2, <1>3, <1>4, <2>7 DEF ConnSound, MsgSound, NullSound, Asked
    <2>12. HeldSound(c)'
      <3>1. Possible(c)' => Possible(c)
        BY <2>7 DEF Possible
      <3> QED
        BY <1>2, <1>3, <1>4, <1>5, <3>1 DEF ConnSound, HeldSound, Has
    <2> QED
      BY <2>6, <2>7, <2>10, <2>11, <2>12 DEF ConnSound
  <1> QED
    BY <1>6, <1>7 DEF Sends

LEMMA LockCallInv ==
  ASSUME SessionInv, NEW h \in Handle, NEW r \in Request, LockCall(h, r)
  PROVE  SessionInv'
  <1>1. TypeOK /\ Handles /\ Conns /\ Pipes /\ Records /\ Scanned /\ Committed /\ HandleSound(h)
    BY DEF SessionInv, Handles
  <1>2. \E c, fresh : Sends(h, r, c, fresh)
    BY LockCallSends
  <1>3. PICK c, fresh : Sends(h, r, c, fresh)
    BY <1>2
  <1>4. /\ c \in Conn /\ c[1] = h /\ fresh \in BOOLEAN
        /\ UNCHANGED <<down, msg, pipe, hup, null_fd, moved, exists, holders, waitings, scan, thread, crashes>>
        /\ opened[h] \in Nat /\ locks[h] \in Nat /\ MaxLocks[h] \in Nat
    BY <1>1, <1>3, SessionAssumption DEF Sends, TypeOK
  <1>5. /\ ConnSound(c)'
        /\ fresh => server[c] = "none" /\ asked'[c] = <<r>>
        /\ ~fresh => /\ server'[c] = server[c]
                     /\ server'[c] = "closed" \/ Len(asked'[c]) # 1
                     /\ \A j \in DOMAIN asked[c] : j \in DOMAIN asked'[c] /\ asked'[c][j] = asked[c][j]
    <2>1. CASE fresh
      BY <1>3, <2>1, SendsFresh
    <2>2. CASE ~fresh
      <3>1. server'[c] = server[c]
        BY <1>3, <2>2 DEF Sends
      <3> QED
        BY <1>3, <2>2, <3>1, SendsAgain
    <2> QED
      BY <1>4, <2>1, <2>2
  <1>6. TypeOK'
    BY <1>1, LockCallType
  <1>7. Current(h)' = c
    <2>1. CASE fresh
      BY <1>3, <2>1 DEF Sends, Current
    <2>2. CASE ~fresh
      BY <1>3, <2>2 DEF Sends, Current
    <2> QED
      BY <1>4, <2>1, <2>2
  <1>8. HandleSound(h)' /\ Remembered(h)'
    <2>1. opened'[h] <= locks'[h] /\ locks'[h] <= MaxLocks[h] /\ opened'[h] > 0
      <3>1. CASE fresh
        BY <1>1, <1>3, <1>4, <3>1 DEF Sends, HandleSound
      <3>2. CASE ~fresh
        <4>1. /\ state[h] = "CONNECTED" /\ opened'[h] = opened[h]
              /\ locks'[h] = locks[h] + 1 /\ locks[h] < MaxLocks[h]
          BY <1>3, <3>2 DEF Sends
        <4>2. opened[h] <= locks[h] /\ opened[h] > 0
          BY <1>1, <4>1 DEF HandleSound
        <4> QED
          BY <1>4, <4>1, <4>2
      <3> QED
        BY <1>4, <3>1, <3>2
    <2>2. HandleSound(h)'
      BY <1>3, <1>7, <2>1 DEF Sends, HandleSound
    <2>3. request'[h] = r
      BY <1>3 DEF Sends
    <2>4. Remembered(h)'
      BY <1>4, <1>5, <1>7, <2>3 DEF Remembered
    <2> QED
      BY <2>2, <2>4
  <1>9. ASSUME NEW g \in Handle, g # h PROVE HandleSound(g)' /\ Remembered(g)'
    <2>1. HandleSound(g) /\ Remembered(g)
      BY <1>1 DEF Handles
    <2>2. /\ locks'[g] = locks[g] /\ opened'[g] = opened[g]
          /\ state'[g] = state[g] /\ request'[g] = request[g] /\ call'[g] = call[g]
      BY <1>3, <1>9 DEF Sends
    <2>3. CASE opened[g] > 0
      <3>1. Current(g) \in Conn /\ Current(g)[1] = g /\ Current(g)' = Current(g)
        BY <1>1, <2>1, <2>2, <2>3, CurrentConn DEF Current
      <3>2. /\ end'[Current(g)] = end[Current(g)] /\ server'[Current(g)] = server[Current(g)]
            /\ asked'[Current(g)] = asked[Current(g)]
        BY <1>3, <1>4, <1>9, <3>1 DEF Sends
      <3> QED
        BY <2>1, <2>2, <3>1, <3>2 DEF HandleSound, Remembered
    <2>4. CASE ~(opened[g] > 0)
      BY <2>1, <2>2, <2>4 DEF HandleSound, Remembered
    <2> QED
      BY <2>3, <2>4
  <1>10. ASSUME NEW x \in Conn, x # c PROVE ConnSound(x)'
    <2>1. /\ end'[x] = end[x] /\ server'[x] = server[x] /\ up'[x] = up[x] /\ asked'[x] = asked[x]
      BY <1>3, <1>10 DEF Sends
    <2>2. x[1] \in Handle /\ x = <<x[1], x[2]>> /\ c = <<c[1], c[2]>> /\ x[2] \in Nat
      BY <1>4, ConnNames, SessionAssumption
    <2>3. x[2] > opened'[x[1]] <=> x[2] > opened[x[1]]
      <3>1. CASE x[1] # h
        BY <1>3, <2>2, <3>1 DEF Sends
      <3>2. CASE x[1] = h /\ fresh
        <4>1. c[2] = opened[h] + 1 /\ opened'[h] = opened[h] + 1
          BY <1>3, <3>2 DEF Sends
        <4>2. x[2] # opened[h] + 1
          BY <1>4, <1>10, <2>2, <3>2, <4>1
        <4> QED
          BY <1>4, <2>2, <3>2, <4>1, <4>2
      <3>3. CASE x[1] = h /\ ~fresh
        BY <1>3, <3>3 DEF Sends
      <3> QED
        BY <1>4, <3>1, <3>2, <3>3
    <2>4. (IsRefused(x)' => IsRefused(x)) /\ (IsGranted(x)' => IsGranted(x))
      <3>1. CASE x[1] # h
        <4>1. state'[x[1]] = state[x[1]] /\ result'[x[1]] = result[x[1]] /\ opened'[x[1]] = opened[x[1]]
          BY <1>3, <2>2, <3>1 DEF Sends
        <4> QED
          BY <1>4, <4>1 DEF IsRefused, IsGranted
      <3>2. CASE x[1] = h
        <4>1. state'[h] = "CONNECTED" /\ result'[h] # "REFUSED"
          BY <1>3 DEF Sends
        <4> QED
          BY <1>4, <3>2, <4>1 DEF IsRefused, IsGranted
      <3> QED
        BY <3>1, <3>2
    <2>5. Quiet(x)
      BY <1>4, <2>1, <2>3, <2>4 DEF Quiet
    <2> QED
      BY <1>1, <2>5, QuietConn DEF Conns
  <1>11. \A x \in Conn : server[x] # "none" => server'[x] = server[x]
    BY <1>3, <1>5, <1>4 DEF Sends
  <1>12. Pipes'
    <2> SUFFICES ASSUME NEW m \in Name PROVE PipeSound(m)'
      BY DEF Pipes
    <2>1. PipeSound(m) /\ m # "none"
      BY <1>1, SessionAssumption DEF Pipes
    <2>2. pipe[m] \in Seq(Conn)
      BY <1>1 DEF TypeOK
    <2>3. \A k \in DOMAIN pipe[m] : pipe[m][k] \in Conn
      BY <2>2, ElementOfSeq
    <2> QED
      BY <1>4, <1>11, <2>1, <2>3 DEF PipeSound
  <1>13. Records'
    <2>1. ASSUME NEW list, list = holders \/ list = waitings, NEW m \in Name, RecordSound(list, m),
                 NEW k \in DOMAIN list[m]
          PROVE  /\ server'[list[m][k].conn] \in {m, "closed"}
                 /\ \E j \in DOMAIN asked'[list[m][k].conn] :
                      asked'[list[m][k].conn][j].quantity = list[m][k].quantity
      <3>1. list[m] \in Seq(Entry)
        BY <1>1, <2>1 DEF TypeOK
      <3>2. PICK x : x = list[m][k].conn
        OBVIOUS
      <3>3. x \in Conn
        BY <2>1, <3>1, <3>2, EntryFields
      <3>4. server[x] \in {m, "closed"} /\ m # "none"
        BY <2>1, <3>2, SessionAssumption DEF RecordSound
      <3>5. PICK j \in DOMAIN asked[x] : asked[x][j].quantity = list[m][k].quantity
        BY <2>1, <3>2 DEF RecordSound
      <3>6. j \in DOMAIN asked'[x] /\ asked'[x][j] = asked[x][j]
        <4>1. CASE x # c
          BY <1>3, <3>3, <4>1 DEF Sends
        <4>2. CASE x = c
          BY <1>4, <1>5, <3>4, <4>2
        <4> QED
          BY <4>1, <4>2
      <3> QED
        BY <1>11, <3>2, <3>3, <3>4, <3>5, <3>6
    <2>2. \A m \in Name : RecordSound(holders, m) /\ RecordSound(waitings, m)
      BY <1>1 DEF Records
    <2>3. ASSUME NEW m \in Name PROVE RecordSound(holders, m)'
      <3>1. \A k \in DOMAIN holders[m] :
              /\ server'[holders[m][k].conn] \in {m, "closed"}
              /\ \E j \in DOMAIN asked'[holders[m][k].conn] :
                   asked'[holders[m][k].conn][j].quantity = holders[m][k].quantity
        BY <2>1, <2>2
      <3> QED
        BY <1>4, <3>1 DEF RecordSound
    <2>4. ASSUME NEW m \in Name PROVE RecordSound(waitings, m)'
      <3>1. \A k \in DOMAIN waitings[m] :
              /\ server'[waitings[m][k].conn] \in {m, "closed"}
              /\ \E j \in DOMAIN asked'[waitings[m][k].conn] :
                   asked'[waitings[m][k].conn][j].quantity = waitings[m][k].quantity
        BY <2>1, <2>2
      <3> QED
        BY <1>4, <3>1 DEF RecordSound
    <2> QED
      BY <2>3, <2>4 DEF Records
  <1>14. Committed'
    BY <1>1, <1>4 DEF Committed
  <1>15. Scanned'
    <2>1. ASSUME NEW x \in Conn, server[x] # "none", end[x] # "open" PROVE end'[x] # "open"
      <3>1. CASE x # c
        BY <1>3, <2>1, <3>1 DEF Sends
      <3>2. CASE x = c /\ fresh
        BY <1>5, <2>1, <3>2
      <3>3. CASE x = c /\ ~fresh
        <4>1. state[h] = "CONNECTED" /\ call[h] = "none" /\ c = Current(h)
          BY <1>3, <3>3 DEF Sends
        <4> QED
          BY <1>1, <2>1, <3>3, <4>1 DEF HandleSound
      <3> QED
        BY <1>4, <3>1, <3>2, <3>3
    <2> SUFFICES ASSUME NEW m \in Name, scan[m] # NoScan PROVE ScanSound(m)'
      BY <1>4 DEF Scanned, ScanSound
    <2>2. ScanSound(m) /\ scan[m] \in Scan /\ m # "none"
      BY <1>1, SessionAssumption DEF Scanned, TypeOK
    <2>3. scan[m].conn \in Conn
      BY <2>2 DEF Scan
    <2> QED
      BY <1>4, <1>11, <2>1, <2>2, <2>3 DEF ScanSound
  <1> QED
    BY <1>5, <1>6, <1>8, <1>9, <1>10, <1>12, <1>13, <1>14, <1>15 DEF SessionInv, Handles, Conns

-------------------------------------------------------------------------------
(***************************************************************************)
(* The invariant, and what it says of the programs and of the daemon.      *)
(***************************************************************************)

LEMMA SessionInit == Init => SessionInv
  <1> SUFFICES ASSUME Init PROVE SessionInv
    OBVIOUS
  <1>1. TypeOK
    BY TypeInit
  <1>2. Handles
    <2>1. \A h \in Handle : MaxLocks[h] \in Nat
      BY SessionAssumption
    <2> QED
      BY <2>1 DEF Init, Handles, HandleSound, Remembered
  <1>3. ASSUME NEW c \in Conn PROVE ConnSound(c)
    <2>1. c[1] \in Handle /\ c[2] \in Nat /\ c[2] > 0
      BY ConnNames, SessionAssumption
    <2>2. /\ end[c] = "none" /\ server[c] = "none" /\ msg[c] = NoMsg /\ asked[c] = <<>>
          /\ up[c] = <<>> /\ DOMAIN up[c] = {} /\ down[c] = <<>> /\ DOMAIN down[c] = {}
          /\ result[c[1]] = "NONE" /\ opened[c[1]] = 0 /\ c \notin null_fd
      BY <2>1 DEF Init
    <2>3. SocketSound(c)
      BY <2>1, <2>2 DEF SocketSound
    <2>4. MsgSound(c) /\ NullSound(c) /\ HeldSound(c)
      BY <2>2, SessionAssumption DEF MsgSound, NullSound, HeldSound
    <2>5. \A n \in Name : DOMAIN holders[n] = {} /\ DOMAIN waitings[n] = {}
      BY DEF Init
    <2>6. Once(c) /\ Dropped(c)
      BY <2>2, <2>5 DEF Once, OnceFor, Has, Dropped, IsRefused, Unread, Recorded, Stray
    <2> QED
      BY <2>3, <2>4, <2>6 DEF ConnSound
  <1>4. Pipes
    BY DEF Init, Pipes, PipeSound
  <1>5. Records
    BY DEF Init, Records, RecordSound
  <1>6. Committed
    BY SumEmpty, SessionAssumption DEF Init, Committed
  <1>7. Scanned
    BY DEF Init, Scanned, ScanSound
  <1> QED
    BY <1>1, <1>2, <1>3, <1>4, <1>5, <1>6, <1>7 DEF SessionInv, Conns

LEMMA SessionStep == SessionInv /\ [Next]_vars => SessionInv'
  <1> SUFFICES ASSUME SessionInv, [Next]_vars PROVE SessionInv'
    OBVIOUS
  <1>1. ASSUME NEW h \in Handle, NEW r \in Asks[h], LockCall(h, r) PROVE SessionInv'
    <2>1. r \in Request
      BY SessionAssumption
    <2> QED
      BY <1>1, <2>1, LockCallInv
  <1>2. ASSUME NEW h \in Handle, NEW f \in {"unlock", "clean", "delete"}, UnlockCall(h, f)
        PROVE  SessionInv'
    BY <1>2, UnlockCallInv
  <1>3. ASSUME NEW h \in Handle, Recv(h) \/ RecvError(h) \/ RecvTimeout(h) PROVE SessionInv'
    BY <1>3, RecvInv
  <1>4. ASSUME NEW h \in Handle, Bye(h) PROVE SessionInv'
    BY <1>4, ByeInv
  <1>5. ASSUME NEW h \in Handle, Exit(h) PROVE SessionInv'
    BY <1>5, ExitInv
  <1>6. ASSUME NEW c \in Conn, MainLock(c) PROVE SessionInv'
    BY <1>6, MainLockInv
  <1>7. ASSUME NEW c \in Conn, MainEof(c) PROVE SessionInv'
    BY <1>7, MainEofInv
  <1>8. ASSUME NEW c \in Conn, NEW n \in Name, LockerLock(c, n) PROVE SessionInv'
    BY <1>8, LockerLockInv
  <1>9. ASSUME NEW c \in Conn, NEW n \in Name, LockerUnlock(c, n) PROVE SessionInv'
    BY <1>9, LockerUnlockInv
  <1>10. ASSUME NEW c \in Conn, NEW n \in Name, LockerEof(c, n) PROVE SessionInv'
    BY <1>10, LockerEofInv
  <1>11. ASSUME NEW n \in Name, LockerTake(n) PROVE SessionInv'
    BY <1>11, LockerTakeInv
  <1>12. ASSUME NEW n \in Name, Grant(n) \/ GrantFails(n) PROVE SessionInv'
    BY <1>12, GrantInv
  <1>a. ASSUME NEW n \in Name, ScanEnd(n) PROVE SessionInv'
    BY <1>a, ScanEndInv
  <1>b. ASSUME NEW n \in Name, Reclean(n) PROVE SessionInv'
    BY <1>b, RecleanInv
  <1>c. ASSUME NEW n \in Name, LockerFrees(n) PROVE SessionInv'
    BY <1>c, LockerFreesInv
  <1>d. CASE ConnsClean
    BY <1>d, ConnsCleanInv
  <1>13. ASSUME NEW n \in Name, Expire(n) PROVE SessionInv'
    BY <1>13, ExpireInv
  <1>14. CASE Crash
    BY <1>14, CrashInv
  <1>15. CASE UNCHANGED vars
    <2>1. UNCHANGED <<handleVars, socketVars, daemonVars>>
      BY <1>15 DEF vars
    <2>2. UNCHANGED <<state, request, call, result, opened, locks>>
      BY <2>1 DEF handleVars
    <2>3. UNCHANGED <<end, up, down, asked>>
      BY <2>1 DEF socketVars
    <2>4. UNCHANGED <<server, msg, pipe, hup, null_fd, moved, exists, holders, waitings, scan, thread,
                      crashes>>
      BY <2>1 DEF daemonVars, mainVars, lockerVars
    <2>a. TypeOK /\ (moved \in BOOLEAN)'
      BY <2>4, Zenon DEF SessionInv, TypeOK
    <2>5. TypeOK'
      BY <2>2, <2>3, <2>4, <2>a DEF TypeOK
    <2>6. DaemonSide
      BY <2>1, <2>3, <2>4 DEF DaemonSide
    <2>7. Handles'
      BY <2>6, HandlesKept DEF SessionInv
    <2>8. ASSUME NEW x \in Conn PROVE ConnSound(x)'
      <3>1. SameFor(x)
        BY <2>3, <2>4 DEF SameFor
      <3> QED
        BY <2>6, <3>1, ConnKept DEF SessionInv, Conns
    <2>9. Pipes'
      BY <2>4 DEF SessionInv, Pipes, PipeSound
    <2>10. Records'
      BY <2>3, <2>4 DEF SessionInv, Records, RecordSound
    <2>11. Committed'
      BY <2>4 DEF SessionInv, Committed
    <2>12. Scanned'
      BY <2>3, <2>4 DEF SessionInv, Scanned, ScanSound
    <2> QED
      BY <2>5, <2>7, <2>8, <2>9, <2>10, <2>11, <2>12 DEF SessionInv, Conns
  <1>16. CASE \E h \in Handle :
                \/ \E r \in Asks[h] : LockCall(h, r)
                \/ \E f \in {"unlock", "clean", "delete"} : UnlockCall(h, f)
                \/ ClientStep(h) \/ RecvTimeout(h) \/ Exit(h)
    BY <1>1, <1>2, <1>3, <1>4, <1>5, <1>16 DEF ClientStep
  <1>17. CASE \E c \in Conn : ServeConn(c)
    BY <1>6, <1>7, <1>8, <1>9, <1>10, <1>17 DEF ServeConn
  <1>18. CASE \E n \in Name : LockerStep(n) \/ Expire(n)
    BY <1>11, <1>12, <1>13, <1>18, <1>a, <1>b, <1>c DEF LockerStep
  <1> QED
    BY <1>14, <1>15, <1>d, <1>16, <1>17, <1>18 DEF Next

LEMMA SessionInvariant == Spec => []SessionInv
  BY SessionInit, SessionStep, PTL DEF Spec

\* A LOCKED handle and its record.
LEMMA LockedRecord ==
  ASSUME SessionInv, NEW h \in Handle, Locked(h), Possible(Current(h)), NEW c, c = Current(h)
  PROVE  /\ c \in Conn /\ Has(holders, server[c], c)
         /\ Len(asked[c]) = 1 =>
              /\ request[h].name \in Name
              /\ \E k \in DOMAIN holders[request[h].name] :
                   holders[request[h].name][k] = [conn |-> c, quantity |-> request[h].quantity]
  <1>1. TypeOK /\ HandleSound(h) /\ Remembered(h) /\ Records
    BY DEF SessionInv, Handles
  <1>2. state[h] = "LOCKED" /\ call[h] = "none" /\ server[c] \in Name
    BY DEF Locked
  <1>3. opened[h] > 0 /\ end[c] = "open"
    BY <1>1, <1>2 DEF HandleSound
  <1>4. c \in Conn /\ c[1] = h /\ c[2] = opened[h]
    BY <1>1, <1>3, CurrentConn
  <1>5. ConnSound(c) /\ IsGranted(c)
    BY <1>2, <1>4 DEF SessionInv, Conns, IsGranted
  <1>6. Has(holders, server[c], c)
    BY <1>2, <1>3, <1>5 DEF ConnSound, HeldSound
  <1>7. ASSUME Len(asked[c]) = 1
        PROVE  /\ request[h].name \in Name
               /\ \E k \in DOMAIN holders[request[h].name] :
                    holders[request[h].name][k] = [conn |-> c, quantity |-> request[h].quantity]
    <2>1. asked[c] \in Seq(Request)
      BY <1>1, <1>4 DEF TypeOK
    <2>2. DOMAIN asked[c] = {1}
      BY <1>7, <2>1, LenProperties
    <2>3. asked[c][1] = request[h]
      BY <1>1, <1>2, <1>3, <1>7, SessionAssumption DEF Remembered
    <2>4. request[h].name = server[c]
      BY <1>2, <1>5, <2>2, <2>3 DEF ConnSound, MsgSound
    <2>5. PICK n \in Name : n = server[c]
      BY <1>2
    <2>6. PICK k \in DOMAIN holders[n] : holders[n][k].conn = c
      BY <1>6, <2>5 DEF Has
    <2>7. holders[n] \in Seq(Entry)
      BY <1>1 DEF TypeOK
    <2>8. holders[n][k] \in Entry
      BY <2>6, <2>7, ElementOfSeq
    <2>9. holders[n][k].quantity = request[h].quantity
      BY <1>1, <2>2, <2>3, <2>6 DEF Records, RecordSound
    <2>10. holders[n][k] = [conn |-> c, quantity |-> request[h].quantity]
      BY <2>6, <2>8, <2>9 DEF Entry
    <2> QED
      BY <2>4, <2>5, <2>6, <2>10
  <1> QED
    BY <1>4, <1>6, <1>7

\* The units the programs believe they have are among those the daemon has given.
LEMMA ToldIsHeld ==
  ASSUME SessionInv, NEW n \in Name, NEW hs, hs = SetToSeq(Told(n))
  PROVE  Sum([k \in DOMAIN hs |-> [conn |-> Current(hs[k]), quantity |-> request[hs[k]].quantity]])
           <= Total
  <1>1. TypeOK /\ Sum(holders[n]) <= Total
    BY DEF SessionInv, Committed
  <1>2. Told(n) \subseteq Handle
    BY DEF Told
  <1>3. IsFiniteSet(Told(n))
    BY <1>2, SessionAssumption, FS_Subset
  <1>4. hs \in Seq(Told(n)) /\ \A j, k \in DOMAIN hs : hs[j] = hs[k] => j = k
    BY <1>3, SetToSeqProperties
  <1>5. Len(hs) \in Nat /\ DOMAIN hs = 1..Len(hs)
    BY <1>4, LenProperties
  <1>6. \A k \in DOMAIN hs : hs[k] \in Told(n)
    BY <1>4, ElementOfSeq
  <1>7. PICK b : b = [k \in DOMAIN hs |-> [conn |-> Current(hs[k]), quantity |-> request[hs[k]].quantity]]
    OBVIOUS
  <1>8. /\ DOMAIN b = 1..Len(hs)
        /\ \A k \in 1..Len(hs) : b[k] = [conn |-> Current(hs[k]), quantity |-> request[hs[k]].quantity]
    BY <1>5, <1>7
  <1>9. ASSUME NEW k \in 1..Len(hs)
        PROVE  /\ b[k] \in Entry
               /\ \E i \in DOMAIN holders[n] : holders[n][i] = b[k]
    <2>1. PICK h \in Handle : h = hs[k]
      BY <1>2, <1>5, <1>6
    <2>2. PICK c : c = Current(h)
      OBVIOUS
    <2>3. Locked(h) /\ request[h].name = n /\ Len(asked[c]) = 1 /\ Possible(Current(h))
      BY <1>5, <1>6, <2>1, <2>2 DEF Told
    <2>4. /\ c \in Conn
          /\ \E i \in DOMAIN holders[n] : holders[n][i] = [conn |-> c, quantity |-> request[h].quantity]
      BY <2>2, <2>3, LockedRecord
    <2>5. request[h].quantity \in Nat
      BY <1>1, RequestFields DEF TypeOK
    <2>6. b[k] = [conn |-> c, quantity |-> request[h].quantity]
      BY <1>8, <2>1, <2>2
    <2> QED
      BY <2>4, <2>5, <2>6 DEF Entry
  <1>10. b \in Seq(Entry)
    <2>1. b \in [1..Len(hs) -> Entry]
      BY <1>5, <1>7, <1>8, <1>9
    <2> QED
      BY <1>5, <2>1, SeqDef
  <1>11. ASSUME NEW j \in DOMAIN b, NEW k \in DOMAIN b, b[j].conn = b[k].conn PROVE j = k
    <2>1. Current(hs[j]) = Current(hs[k])
      BY <1>8, <1>11
    <2>2. hs[j] = hs[k]
      BY <2>1 DEF Current
    <2> QED
      BY <1>4, <1>5, <1>8, <2>2
  <1>12. holders[n] \in Seq(Entry)
    BY <1>1 DEF TypeOK
  <1>13. Sum(b) <= Sum(holders[n])
    BY <1>8, <1>9, <1>10, <1>11, <1>12, SumOfSome
  <1>14. Sum(b) \in Nat /\ Sum(holders[n]) \in Nat /\ Total \in Nat
    BY <1>10, <1>12, SumType, SessionAssumption
  <1>15. Sum(b) <= Total
    BY <1>1, <1>13, <1>14
  <1> QED
    BY <1>7, <1>15

\* What the programs believe is true, whatever they, the daemon and the network do:
\* the handles flom_handle_lock has left LOCKED have their record among the holders of
\* the resource, for the quantity they asked for, and all of them together hold no
\* more than the resource has.
THEOREM BeliefsAreSound == Spec => []BeliefsSound
  <1>1. ASSUME SessionInv PROVE BeliefsSound
    <2>1. TypeOK
      BY <1>1 DEF SessionInv
    <2>2. LockedIsHeld
      BY <1>1, LockedRecord DEF LockedIsHeld
    <2>3. Exclusion
      BY <1>1, ToldIsHeld DEF Exclusion
    <2> QED
      BY <2>1, <2>2, <2>3 DEF BeliefsSound
  <1> QED
    BY <1>1, SessionInvariant, PTL

\* No locker that works has a record for a connection that has been closed (even if it
\* was handed over after the main thread had closed it, before flom_conns_clean), and
\* no locker has one for a client that was told it can not have the lock, if one LOCK
\* was sent on the connection.
THEOREM NoRecordIsStray == Spec => []NoStrayRecord
  <1>1. ASSUME SessionInv PROVE NoStrayRecord
    <2>1. ASSUME NEW c \in Conn, NEW n \in Name, Closed(c), Len(asked[c]) <= 1, thread[n] = "loop"
          PROVE  ~Has(holders, n, c) /\ ~Has(waitings, n, c)
      <3>1. Once(c) /\ NullSound(c) /\ RecordSound(holders, n) /\ RecordSound(waitings, n)
        BY <1>1, <2>1 DEF SessionInv, Conns, ConnSound, Single, Records
      <3>2. CASE server[c] = "closed"
        <4>1. ~Stray(c)
          BY <3>1, <3>2 DEF Once
        <4> QED
          BY <2>1, <4>1 DEF Stray
      <3>3. CASE c \in null_fd /\ msg[c] # NoMsg
        <4>1. ~Recorded(c)
          BY <3>1, <3>3 DEF Once
        <4> QED
          BY <4>1 DEF Recorded
      <3>4. CASE c \in null_fd /\ msg[c] = NoMsg
        <4>1. server[c] # n /\ server[c] # "closed"
          BY <2>1, <3>1, <3>4, SessionAssumption DEF NullSound
        <4> QED
          BY <3>1, <4>1 DEF RecordSound, Has
      <3> QED
        BY <2>1, <3>2, <3>3, <3>4 DEF Closed
    <2>2. ASSUME NEW h \in Handle, NEW n \in Name,
                 result[h] = "REFUSED", opened[h] > 0, Len(asked[Current(h)]) = 1
          PROVE  ~Has(holders, n, Current(h)) /\ ~Has(waitings, n, Current(h))
      <3>1. PICK c : c = Current(h)
        OBVIOUS
      <3>2. c \in Conn /\ c[1] = h /\ c[2] = opened[h]
        BY <1>1, <2>2, <3>1, CurrentConn DEF SessionInv, Handles
      <3>3. Single(c) /\ IsRefused(c)
        <4>1. Len(asked[c]) = 1
          BY <2>2, <3>1
        <4>2. Single(c)
          BY <4>1 DEF Single
        <4>3. IsRefused(c)
          BY <2>2, <3>2 DEF IsRefused
        <4> QED
          BY <4>2, <4>3
      <3>4. Dropped(c)
        BY <1>1, <3>2, <3>3 DEF SessionInv, Conns, ConnSound
      <3>5. ~Recorded(c)
        BY <3>3, <3>4 DEF Dropped
      <3> QED
        BY <3>1, <3>5 DEF Recorded
    <2>3. NothingLeftBehind
      BY <2>1 DEF NothingLeftBehind
    <2>4. RefusedHoldsNothing
      BY <2>2 DEF RefusedHoldsNothing
    <2> QED
      BY <2>3, <2>4 DEF NoStrayRecord
  <1> QED
    BY <1>1, SessionInvariant, PTL

-------------------------------------------------------------------------------
(***************************************************************************)
(* Startup.                                                                *)
(***************************************************************************)

\* The phases in which a daemon of a path has the lock file, and those in which the
\* path leads to it.
HasFlock(d) == phase[d] \in {"locked", "bound", "listening", "loop", "leaving", "closed"}
HasPath(d) == phase[d] \in {"bound", "listening", "loop", "leaving"}

\* A client starts a daemon only under an identity that nobody has used.
Fresh ==
  \A c \in Client :
    /\ child[c] \in {Nobody, <<c, 1>>, <<c, 2>>}
    /\ child[c] = Nobody => phase[<<c, 1>>] = "none"
    /\ child[c] # <<c, 2>> => phase[<<c, 2>>] = "none"
    /\ pc[c] = "idle" => child[c] # <<c, 2>>
    /\ IsGroup(c) => child[c] # <<c, 2>> /\ (pc[c] = "idle" => child[c] = Nobody)
    /\ child[c] # Nobody => conf[c].role = "lock" /\ conf[c].lifespan # "zero"
    /\ pc[c] \in {"wait", "again"} => child[c] # Nobody

\* The lock file, the path and the port each belong to one daemon; a daemon that has
\* answered its father is in its loop, on its way out, or dead.
Owned ==
  /\ \A d \in Daemon :
       /\ phase[d] # "none" => serves[d] # "none"
       /\ serves[d] = "path" /\ HasFlock(d) => flock = d
       /\ serves[d] = "path" /\ HasPath(d) => path = d
       /\ told[d] = "OK" => phase[d] \in {"loop", "leaving", "closed", "dead"}
       /\ told[d] \notin {"none", "OK"} => phase[d] = "dead"
       /\ serves[d] = "path" => told[d] \in {"none", "OK", "FLOCK_ERROR"}
  /\ \A d, e \in Daemon :
       serves[d] = "port" /\ Listens(d) /\ serves[e] = "port" /\ Listens(e) => d = e

\* A connection leads to a daemon that listens.
Linked ==
  \A c \in Client :
    /\ link[c] \in {"backlog", "served"} => to[c] \in Daemon /\ Listens(to[c])
    /\ pc[c] = "direct" => to[c] \in Daemon
    /\ link[c] # "none" => pc[c] = "OK"

\* The daemon of a client that waits for it, or has just been told of it, is at the
\* client's address; what the daemon has answered is known.
Fathered ==
  \A c \in Client :
    /\ pc[c] \in {"wait", "again"} =>
         serves[child[c]] = Place(addr[c])
    /\ pc[c] = "again" => told[child[c]] # "none"
    /\ pc[c] \in {"DAEMON_NOT_STARTED", "ERROR"} /\ child[c] # Nobody /\ addr[c] # "group"
         => told[child[c]] # "none"

\* The inductive invariant.
StartupInv == StartTypeOK /\ Fresh /\ Owned /\ Linked /\ Fathered /\ OwnDaemonReached

-------------------------------------------------------------------------------
LEMMA NobodyIsNoDaemon == Nobody \notin Daemon
  BY DEF Nobody, Daemon

\* A daemon is named by its father and a number.
LEMMA DaemonNames ==
  \A c, e \in Client : \A i, j \in {1, 2} :
    <<c, i>> \in Daemon /\ (<<c, i>> = <<e, j>> <=> c = e /\ i = j)
  BY DEF Daemon

LEMMA StartupInit == StartInit => StartupInv
  <1> SUFFICES ASSUME StartInit PROVE StartupInv
    OBVIOUS
  <1>1. StartTypeOK
    BY StartupAssumption DEF StartInit, StartTypeOK, Conf, Pc, Phase, Rc
  <1>2. Fresh
    BY NobodyIsNoDaemon DEF StartInit, Fresh, Daemon, IsGroup, Nobody
  <1>3. Owned /\ Linked /\ Fathered /\ OwnDaemonReached
    BY DEF StartInit, Owned, Linked, Fathered, OwnDaemonReached, HasFlock, HasPath, Listens
  <1> QED
    BY <1>1, <1>2, <1>3 DEF StartupInv

LEMMA PlaceValues ==
  ASSUME NEW a
  PROVE  /\ Place(a) \in {"path", "port", "own"}
         /\ Place(a) = "path" <=> a = "path"
         /\ Place(a) = "own" <=> a = "group"
  BY Zenon DEF Place

LEMMA ToleratedValues ==
  ASSUME NEW c
  PROVE  "OK" \in Tolerated(c)
  BY Zenon DEF Tolerated

\* flom_client_connect returns an error.
LEMMA RefusedInv ==
  ASSUME StartupInv, NEW c \in Client, pc[c] # "OK",
         NEW rc \in {"DAEMON_NOT_STARTED", "CONNECT_ERROR", "ERROR"},
         pc' = [pc EXCEPT ![c] = rc],
         UNCHANGED <<conf, addr, child, link, to, serverVars>>,
         \/ rc = "CONNECT_ERROR" \/ child[c] = Nobody \/ addr[c] = "group"
         \/ /\ told[child[c]] # "none"
            /\ told[child[c]] = "OK" => phase[child[c]] \in {"closed", "dead"}
            /\ addr[c] = "path" => told[child[c]] \in {"OK", "FLOCK_ERROR"}
  PROVE  StartupInv'
  <1> USE DEF serverVars
  <1>1. StartTypeOK'
    BY DEF StartupInv, StartTypeOK, Pc
  <1>2. Fresh'
    BY DEF StartupInv, StartTypeOK, Fresh, IsGroup
  <1>3. Owned'
    BY DEF StartupInv, Owned, HasFlock, HasPath, Listens
  <1>4. Linked'
    BY DEF StartupInv, StartTypeOK, Linked, Listens
  <1>5. Fathered'
    BY DEF StartupInv, StartTypeOK, Fathered
  <1>6. OwnDaemonReached'
    BY DEF StartupInv, StartTypeOK, OwnDaemonReached
  <1> QED
    BY <1>1, <1>2, <1>3, <1>4, <1>5, <1>6 DEF StartupInv

\* A client starts a daemon.
LEMMA StartDaemonInv ==
  ASSUME StartupInv, NEW c \in Client, pc[c] = "idle", NoDaemon(c),
         UNCHANGED <<conf, addr, link, to, told, path, flock, kills>>
  PROVE  StartupInv'
  <1> USE NobodyIsNoDaemon
  <1>c. conf[c] \in Conf
    BY StartupAssumption DEF StartupInv, StartTypeOK
  <1>1. CASE conf[c].role = "lock" /\ conf[c].lifespan # "zero" /\ StartDaemon(c)
    <2>1. PICK d \in Daemon :
             /\ \/ child[c] = Nobody /\ d = <<c, 1>>
                \/ child[c] = <<c, 1>> /\ d = <<c, 2>>
             /\ pc' = [pc EXCEPT ![c] = "wait"]
             /\ child' = [child EXCEPT ![c] = d]
             /\ phase' = [phase EXCEPT ![d] = "forked"]
             /\ serves' = [serves EXCEPT ![d] = Place(addr[c])]
             /\ span' = [span EXCEPT ![d] = conf[c].lifespan]
      <3>1. child[c] = Nobody \/ child[c] = <<c, 1>>
        BY DEF StartupInv, Fresh
      <3>2. <<c, 1>> \in Daemon /\ <<c, 2>> \in Daemon
        BY DaemonNames
      <3>3. CASE child[c] = Nobody
        BY <1>1, <3>2, <3>3 DEF StartDaemon
      <3>4. CASE child[c] # Nobody
        BY <1>1, <3>1, <3>2, <3>4 DEF StartDaemon
      <3> QED
        BY <3>3, <3>4
    <2>2. phase[d] = "none"
      BY <2>1 DEF StartupInv, Fresh
    <2>3. \A x \in Client : child[x] # d
      <3> TAKE x \in Client
      <3>1. child[x] \in {Nobody, <<x, 1>>, <<x, 2>>}
        BY DEF StartupInv, Fresh
      <3>2. <<x, 1>> = d \/ <<x, 2>> = d => x = c
        BY <2>1, DaemonNames
      <3>3. <<c, 1>> # <<c, 2>>
        OBVIOUS
      <3> QED
        BY <2>1, <3>1, <3>2, <3>3
    <2>4. Place(addr[c]) \in {"path", "port", "own"}
      BY PlaceValues
    <2>5. StartTypeOK'
      BY <1>c, <1>1, <2>1, <2>4 DEF StartupInv, StartTypeOK, Pc, Phase, Conf
    <2>6. Fresh'
      <3> SUFFICES ASSUME NEW x \in Client
                   PROVE  /\ child'[x] \in {Nobody, <<x, 1>>, <<x, 2>>}
                          /\ child'[x] = Nobody => phase'[<<x, 1>>] = "none"
                          /\ child'[x] # <<x, 2>> => phase'[<<x, 2>>] = "none"
                          /\ pc'[x] = "idle" => child'[x] # <<x, 2>>
                          /\ IsGroup(x)' => /\ child'[x] # <<x, 2>>
                                            /\ pc'[x] = "idle" => child'[x] = Nobody
                          /\ child'[x] # Nobody => conf[x].role = "lock" /\ conf[x].lifespan # "zero"
                          /\ pc'[x] \in {"wait", "again"} => child'[x] # Nobody
        BY DEF Fresh
      <3>1. <<x, 1>> \in Daemon /\ <<x, 2>> \in Daemon /\ <<x, 1>> # <<x, 2>>
        BY DaemonNames
      <3>2. CASE x = c
        BY <1>1, <2>1, <3>1, <3>2 DEF StartupInv, StartTypeOK, Fresh, IsGroup
      <3>3. CASE x # c
        <4>1. d # <<x, 1>> /\ d # <<x, 2>>
          BY <2>1, <3>3, DaemonNames
        <4> QED
          BY <2>1, <3>1, <3>3, <4>1 DEF StartupInv, StartTypeOK, Fresh, IsGroup
      <3> QED
        BY <3>2, <3>3
    <2>7. Owned'
      BY <2>1, <2>2, <2>4 DEF StartupInv, StartTypeOK, Owned, HasFlock, HasPath, Listens
    <2>8. Linked'
      BY <2>1, <2>2 DEF StartupInv, StartTypeOK, Linked, Listens
    <2>9. Fathered'
      BY <2>1, <2>3, <2>4 DEF StartupInv, StartTypeOK, Fathered, Fresh
    <2>10. OwnDaemonReached'
      BY <2>1, <2>3 DEF StartupInv, StartTypeOK, OwnDaemonReached
    <2> QED
      BY <2>5, <2>6, <2>7, <2>8, <2>9, <2>10 DEF StartupInv
  <1>2. CASE /\ conf[c].role = "lock" /\ conf[c].lifespan = "zero" /\ Fail(c, "CONNECT_ERROR")
             /\ UNCHANGED <<child, phase, serves, span>>
    BY <1>2, RefusedInv DEF Fail, serverVars
  <1>3. CASE /\ conf[c].role # "lock" /\ Fail(c, "DAEMON_NOT_STARTED")
             /\ UNCHANGED <<child, phase, serves, span>>
    <2>1. child[c] = Nobody
      BY <1>3 DEF StartupInv, Fresh
    <2> QED
      BY <1>3, <2>1, RefusedInv DEF Fail, serverVars
  <1> QED
    BY <1>1, <1>2, <1>3 DEF NoDaemon

\* A connection is made to a daemon that listens.
LEMMA ConnectedInv ==
  ASSUME StartupInv, NEW c \in Client, NEW d \in Daemon, Listens(d), Connected(c, d),
         UNCHANGED <<conf, addr, child, serverVars>>
  PROVE  StartupInv'
  <1> USE DEF serverVars, Connected
  <1>1. StartTypeOK'
    BY DEF StartupInv, StartTypeOK, Pc
  <1>2. Fresh'
    BY DEF StartupInv, StartTypeOK, Fresh, IsGroup
  <1>3. Owned'
    BY DEF StartupInv, Owned, HasFlock, HasPath, Listens
  <1>4. Linked'
    BY DEF StartupInv, StartTypeOK, Linked, Listens
  <1>5. Fathered' /\ OwnDaemonReached'
    BY DEF StartupInv, StartTypeOK, Fathered, OwnDaemonReached
  <1> QED
    BY <1>1, <1>2, <1>3, <1>4, <1>5 DEF StartupInv

LEMMA HasChild ==
  ASSUME StartupInv, NEW c \in Client, pc[c] \in {"wait", "again"}
  PROVE  child[c] \in Daemon
  <1>1. child[c] # Nobody
    BY DEF StartupInv, Fresh
  <1>2. child[c] \in Daemon \cup {Nobody}
    BY DEF StartupInv, StartTypeOK
  <1> QED
    BY <1>1, <1>2

\* The steps of flom_client_connect: the second attempt fails only if the daemon
\* that the client has started no longer listens, since one that does is at the
\* client's address.
LEMMA ClientStepInv ==
  ASSUME StartupInv, NEW c \in Client, ConnectStep(c)
  PROVE  StartupInv'
  <1> USE NobodyIsNoDaemon
  <1>r. \A a : Reachable(a) \subseteq {d \in Daemon : Listens(d)}
    BY DEF Reachable
  <1>1. CASE ConnectFirst(c)
    <2>1. CASE \E d \in Reachable(addr[c]) : Connected(c, d)
      BY <1>1, <1>r, <2>1, ConnectedInv DEF ConnectFirst, serverVars
    <2>2. CASE NoDaemon(c) /\ UNCHANGED <<link, to>>
      BY <1>1, <2>2, StartDaemonInv DEF ConnectFirst
    <2> QED
      BY <1>1, <2>1, <2>2 DEF ConnectFirst
  <1>2. CASE DaemonReturns(c)
    <2>0. pc[c] = "wait"
      BY <1>2 DEF DaemonReturns
    <2>1. child[c] \in Daemon
      BY <1>2, HasChild DEF DaemonReturns
    <2>2. CASE told[child[c]] \in Tolerated(c)
      <3>1. pc' = [pc EXCEPT ![c] = "again"] /\ UNCHANGED <<conf, addr, child, link, to, serverVars>>
        BY <1>2, <2>2 DEF DaemonReturns
      <3> USE <3>1 DEF serverVars
      <3>2. StartTypeOK'
        BY DEF StartupInv, StartTypeOK, Pc
      <3>3. Fresh'
        BY <2>0 DEF StartupInv, StartTypeOK, Fresh, IsGroup
      <3>4. Owned'
        BY DEF StartupInv, Owned, HasFlock, HasPath, Listens
      <3>5. Linked'
        BY <2>0 DEF StartupInv, StartTypeOK, Linked, Listens
      <3>6. Fathered' /\ OwnDaemonReached'
        BY <1>2 DEF StartupInv, StartTypeOK, Fathered, OwnDaemonReached, DaemonReturns
      <3> QED
        BY <3>2, <3>3, <3>4, <3>5, <3>6 DEF StartupInv
    <2>3. CASE told[child[c]] \notin Tolerated(c)
      <3>1. told[child[c]] # "OK"
        BY <2>3, ToleratedValues
      <3>2. addr[c] = "path" => told[child[c]] = "FLOCK_ERROR"
        BY <1>2, <2>1, <3>1, PlaceValues DEF DaemonReturns, StartupInv, Fathered, Owned
      <3> QED
        BY <1>2, <2>3, <3>1, <3>2, RefusedInv DEF DaemonReturns
    <2> QED
      BY <2>2, <2>3
  <1>3. CASE ConnectAgain(c)
    <2>1. CASE \E d \in Reachable(addr[c]) : Connected(c, d)
      BY <1>3, <1>r, <2>1, ConnectedInv DEF ConnectAgain
    <2>2. CASE Reachable(addr[c]) = {} /\ Fail(c, "DAEMON_NOT_STARTED") /\ UNCHANGED <<link, to>>
      <3>0. pc[c] = "again"
        BY <1>3 DEF ConnectAgain
      <3>1. child[c] \in Daemon /\ told[child[c]] # "none" /\ serves[child[c]] = Place(addr[c])
        BY <3>0, HasChild DEF StartupInv, Fathered
      <3>2. Place(addr[c]) # "own" /\ (Place(addr[c]) = "path" <=> addr[c] = "path")
        BY <1>3, PlaceValues DEF ConnectAgain, IsGroup
      <3>3. Place(addr[c]) \in {"path", "port"}
        BY <3>2, PlaceValues
      <3>4. ~Listens(child[c])
        BY <2>2, <3>1, <3>2, <3>3 DEF Reachable, StartupInv, Owned, Listens, HasPath
      <3>5. told[child[c]] = "OK" => phase[child[c]] \in {"closed", "dead"}
        BY <3>1, <3>4 DEF StartupInv, Owned, Listens
      <3>6. addr[c] = "path" => told[child[c]] \in {"OK", "FLOCK_ERROR"}
        BY <3>1, <3>2 DEF StartupInv, Owned
      <3> QED
        BY <1>3, <2>2, <3>0, <3>1, <3>5, <3>6, RefusedInv DEF ConnectAgain, Fail
    <2> QED
      BY <1>3, <2>1, <2>2 DEF ConnectAgain
  <1>4. CASE DiscoverReply(c)
    <2> USE DEF serverVars
    <2>0. /\ pc[c] \in {"idle", "again"} /\ addr[c] = "group"
          /\ UNCHANGED <<conf, child, link, serverVars>>
      BY <1>4 DEF DiscoverReply, IsGroup
    <2>1. CASE /\ addr' = [addr EXCEPT ![c] = "port"]
               /\ pc' = [pc EXCEPT ![c] = "idle"]
               /\ UNCHANGED to
      <3> USE <2>1
      <3>1. StartTypeOK'
        BY <2>0 DEF StartupInv, StartTypeOK, Pc, Addresses
      <3>2. Fresh'
        BY <2>0 DEF StartupInv, StartTypeOK, Fresh, IsGroup
      <3>3. Owned'
        BY <2>0 DEF StartupInv, Owned, HasFlock, HasPath, Listens
      <3>4. Linked'
        BY <2>0 DEF StartupInv, StartTypeOK, Linked, Listens
      <3>5. Fathered' /\ OwnDaemonReached'
        BY <2>0 DEF StartupInv, StartTypeOK, Fathered, OwnDaemonReached
      <3> QED
        BY <3>1, <3>2, <3>3, <3>4, <3>5 DEF StartupInv
    <2>2. CASE \E d \in Daemon : /\ to' = [to EXCEPT ![c] = d]
                                 /\ pc' = [pc EXCEPT ![c] = "direct"]
                                 /\ UNCHANGED addr
      <3>0. link[c] \notin {"backlog", "served"}
        BY <2>0 DEF StartupInv, Linked
      <3>1. StartTypeOK'
        BY <2>0, <2>2 DEF StartupInv, StartTypeOK, Pc
      <3>2. Fresh'
        <4>1. pc' = [pc EXCEPT ![c] = "direct"] /\ UNCHANGED addr
          BY <2>2
        <4> QED
          BY <2>0, <4>1 DEF StartupInv, StartTypeOK, Fresh, IsGroup
      <3>3. Owned'
        BY <2>0 DEF StartupInv, Owned, HasFlock, HasPath, Listens
      <3>4. Linked'
        BY <2>0, <2>2, <3>0 DEF StartupInv, StartTypeOK, Linked, Listens
      <3>5. Fathered' /\ OwnDaemonReached'
        BY <2>0, <2>2 DEF StartupInv, StartTypeOK, Fathered, OwnDaemonReached
      <3> QED
        BY <3>1, <3>2, <3>3, <3>4, <3>5 DEF StartupInv
    <2> QED
      BY <1>4, <2>1, <2>2 DEF DiscoverReply
  <1>5. CASE DiscoverRefused(c)
    <2>1. CASE pc[c] = "idle" /\ NoDaemon(c)
      BY <1>5, <2>1, StartDaemonInv DEF DiscoverRefused
    <2>2. CASE Fail(c, "ERROR") /\ UNCHANGED <<child, phase, serves, span>>
      BY <1>5, <2>2, RefusedInv DEF DiscoverRefused, IsGroup, Fail, serverVars
    <2> QED
      BY <1>5, <2>1, <2>2 DEF DiscoverRefused
  <1>6. CASE ConnectDirect(c)
    <2>1. to[c] \in Daemon
      BY <1>6 DEF ConnectDirect, StartupInv, Linked
    <2>2. CASE Listens(to[c]) /\ Connected(c, to[c])
      BY <1>6, <2>1, <2>2, ConnectedInv DEF ConnectDirect
    <2>3. CASE Fail(c, "CONNECT_ERROR") /\ UNCHANGED <<link, to>>
      BY <1>6, <2>3, RefusedInv DEF ConnectDirect, Fail
    <2> QED
      BY <1>6, <2>2, <2>3 DEF ConnectDirect
  <1> QED
    BY <1>1, <1>2, <1>3, <1>4, <1>5, <1>6 DEF ConnectStep

-------------------------------------------------------------------------------
\* A daemon that exists goes on or dies, and keeps its name.
LEMMA FreshKept ==
  ASSUME StartupInv, NEW d \in Daemon, NEW p \in Phase, phase[d] # "none",
         phase' = [phase EXCEPT ![d] = p],
         UNCHANGED <<conf, pc, addr, child>>
  PROVE  Fresh'
  <1> SUFFICES ASSUME NEW x \in Client
               PROVE  /\ child[x] = Nobody => phase'[<<x, 1>>] = "none"
                      /\ child[x] # <<x, 2>> => phase'[<<x, 2>>] = "none"
    BY DEF StartupInv, Fresh, IsGroup
  <1>1. /\ child[x] = Nobody => phase[<<x, 1>>] = "none"
        /\ child[x] # <<x, 2>> => phase[<<x, 2>>] = "none"
    BY DEF StartupInv, Fresh
  <1>2. <<x, 1>> \in Daemon /\ <<x, 2>> \in Daemon
    BY DaemonNames
  <1> QED
    BY <1>1, <1>2 DEF StartupInv, StartTypeOK

\* flom_listen and the end of flom_daemon, step by step: who has the lock file, the
\* path and the port.
LEMMA PlaceOwned ==
  ASSUME StartupInv, NEW d \in Daemon, UNCHANGED <<serves, span, kills>>,
         \/ Flock(d) \/ BindPath(d) \/ BindPort(d) \/ BindOwn(d) \/ Listen(d)
         \/ Ready(d) \/ Unlink(d) \/ LifespanEnds(d) \/ CloseListener(d)
  PROVE  /\ \E p \in Phase : phase[d] # "none" /\ phase' = [phase EXCEPT ![d] = p]
         /\ told' \in [Daemon -> Rc]
         /\ path' \in Daemon \cup {Nobody} /\ flock' \in Daemon \cup {Nobody}
         /\ Owned'
         /\ Listens(d)' \/ ~Listens(d) \/ CloseListener(d)
         /\ \A e \in Daemon : told'[e] # told[e] => e = d /\ told[e] = "none" /\ phase[e] # "dead"
         /\ \A e \in Daemon : phase[e] \in {"closed", "dead"} => phase'[e] \in {"closed", "dead"}
  <1> USE NobodyIsNoDaemon DEF StartupInv, StartTypeOK, Owned, Step, Refuse, Phase, Rc, Listens, HasFlock, HasPath
  <1>1. CASE Flock(d)
    BY <1>1 DEF Flock
  <1>2. CASE BindPath(d)
    BY <1>2 DEF BindPath
  <1>3. CASE BindPort(d)
    BY <1>3 DEF BindPort
  <1>4. CASE BindOwn(d)
    BY <1>4 DEF BindOwn
  <1>5. CASE Listen(d)
    BY <1>5 DEF Listen, OthersListen
  <1>6. CASE Ready(d)
    BY <1>6 DEF Ready
  <1>7. CASE Unlink(d)
    BY <1>7 DEF Unlink
  <1>8. CASE LifespanEnds(d)
    BY <1>8 DEF LifespanEnds
  <1>9. CASE CloseListener(d)
    BY <1>9 DEF CloseListener
  <1> QED
    BY <1>1, <1>2, <1>3, <1>4, <1>5, <1>6, <1>7, <1>8, <1>9

\* The connections of a daemon that goes are reset, the others stay.
LEMMA ResetLinked ==
  ASSUME StartupInv, NEW d \in Daemon, NEW p \in Phase, phase' = [phase EXCEPT ![d] = p],
         Reset(d), UNCHANGED <<pc, to>>
  PROVE  link' \in [Client -> {"none", "backlog", "served", "closed", "reset"}] /\ Linked'
  BY DEF StartupInv, StartTypeOK, Reset, Linked, Listens

LEMMA DaemonStepInv ==
  ASSUME StartupInv, NEW d \in Daemon, DaemonStep(d) \/ ExpireStep(d)
  PROVE  StartupInv'
  <1>1. /\ UNCHANGED <<conf, pc, addr, child, to, serves, span, kills>>
        /\ UNCHANGED link \/ CloseListener(d)
        /\ \/ Flock(d) \/ BindPath(d) \/ BindPort(d) \/ BindOwn(d) \/ Listen(d)
           \/ Ready(d) \/ Unlink(d) \/ LifespanEnds(d) \/ CloseListener(d)
    BY DEF DaemonStep, ExpireStep, clientVars
  <1>2. PICK p \in Phase : phase[d] # "none" /\ phase' = [phase EXCEPT ![d] = p]
    BY <1>1, PlaceOwned
  <1>3. Owned'
    BY <1>1, PlaceOwned
  <1>4. Fresh'
    BY <1>1, <1>2, FreshKept
  <1>5. link' \in [Client -> {"none", "backlog", "served", "closed", "reset"}] /\ Linked'
    <2>1. CASE CloseListener(d)
      BY <1>1, <1>2, <2>1, ResetLinked DEF CloseListener
    <2>2. CASE ~CloseListener(d)
      <3>1. UNCHANGED link /\ (Listens(d)' \/ ~Listens(d))
        BY <1>1, <2>2, PlaceOwned
      <3> QED
        BY <1>1, <1>2, <3>1 DEF StartupInv, StartTypeOK, Linked, Listens
    <2> QED
      BY <2>1, <2>2
  <1>6. StartTypeOK'
    <2>1. /\ told' \in [Daemon -> Rc]
          /\ path' \in Daemon \cup {Nobody} /\ flock' \in Daemon \cup {Nobody}
      BY <1>1, PlaceOwned
    <2> QED
      BY <1>1, <1>2, <1>5, <2>1 DEF StartupInv, StartTypeOK
  <1>7. Fathered' /\ OwnDaemonReached'
    <2>1. /\ \A e \in Daemon : told'[e] # told[e] => e = d /\ told[e] = "none" /\ phase[e] # "dead"
          /\ \A e \in Daemon : phase[e] \in {"closed", "dead"} => phase'[e] \in {"closed", "dead"}
      BY <1>1, PlaceOwned
    <2>2. told' \in [Daemon -> Rc]
      BY <1>1, PlaceOwned
    <2>3. \A c \in Client : child[c] \in Daemon \cup {Nobody}
      BY DEF StartupInv, StartTypeOK
    <2>4. \A c \in Client : pc[c] \in {"wait", "again"} => child[c] \in Daemon
      BY HasChild
    <2>5. Fathered'
      BY <1>1, <2>1, <2>3, <2>4 DEF StartupInv, Fathered
    <2>6. OwnDaemonReached'
      BY <1>1, <2>1, <2>3 DEF StartupInv, Fathered, OwnDaemonReached
    <2> QED
      BY <2>5, <2>6
  <1> QED
    BY <1>3, <1>4, <1>5, <1>6, <1>7 DEF StartupInv

\* A client leaves, or is accepted: daemons keep their places.
LEMMA ServeInv ==
  ASSUME StartupInv, NEW c \in Client, Leave(c) \/ Accept(c)
  PROVE  StartupInv'
  <1>1. /\ UNCHANGED <<conf, pc, addr, child, to, phase, told, serves, path, flock, kills>>
        /\ link[c] \in {"backlog", "served"}
        /\ \E l \in {"closed", "served"} : link' = [link EXCEPT ![c] = l]
        /\ span' = span \/ span' = [span EXCEPT ![to[c]] = "finite"]
    BY DEF Leave, Accept, serverVars
  <1>2. StartTypeOK'
    BY <1>1 DEF StartupInv, StartTypeOK
  <1>3. Fresh'
    BY <1>1 DEF StartupInv, Fresh, IsGroup
  <1>4. Owned'
    BY <1>1 DEF StartupInv, Owned, HasFlock, HasPath, Listens
  <1>5. Linked'
    BY <1>1 DEF StartupInv, StartTypeOK, Linked, Listens
  <1>6. Fathered' /\ OwnDaemonReached'
    BY <1>1 DEF StartupInv, Fathered, OwnDaemonReached
  <1> QED
    BY <1>2, <1>3, <1>4, <1>5, <1>6 DEF StartupInv

\* A daemon is killed, or exits because it is asked to: it leaves the path behind,
\* which then leads to nobody that listens.
LEMMA DieInv ==
  ASSUME StartupInv, NEW d \in Daemon, phase[d] # "none", Die(d),
         UNCHANGED kills \/ (kills < MaxKills /\ kills' = kills + 1)
  PROVE  StartupInv'
  <1> USE NobodyIsNoDaemon DEF Die
  <1>p. "dead" \in Phase
    BY DEF Phase
  <1>1. link' \in [Client -> {"none", "backlog", "served", "closed", "reset"}] /\ Linked'
    BY <1>p, ResetLinked
  <1>2. StartTypeOK'
    BY <1>p, <1>1, StartupAssumption DEF StartupInv, StartTypeOK
  <1>3. Fresh'
    BY <1>p, FreshKept
  <1>4. Owned'
    BY DEF StartupInv, StartTypeOK, Owned, HasFlock, HasPath, Listens
  <1>5. Fathered'
    BY DEF StartupInv, Fathered
  <1>6. OwnDaemonReached'
    BY DEF StartupInv, StartTypeOK, OwnDaemonReached
  <1> QED
    BY <1>1, <1>2, <1>3, <1>4, <1>5, <1>6 DEF StartupInv

LEMMA StartupStep == StartupInv /\ [StartNext]_startVars => StartupInv'
  <1> SUFFICES ASSUME StartupInv, [StartNext]_startVars PROVE StartupInv'
    OBVIOUS
  <1>1. ASSUME NEW c \in Client, ConnectStep(c) PROVE StartupInv'
    BY <1>1, ClientStepInv
  <1>2. ASSUME NEW c \in Client, Leave(c) \/ Accept(c) PROVE StartupInv'
    BY <1>2, ServeInv
  <1>3. ASSUME NEW c \in Client, Immediate(c) PROVE StartupInv'
    <2>1. to[c] \in Daemon /\ phase[to[c]] # "none"
      BY <1>3 DEF Immediate, StartupInv, Linked
    <2> QED
      BY <1>3, <2>1, DieInv DEF Immediate
  <1>4. ASSUME NEW d \in Daemon, DaemonStep(d) \/ ExpireStep(d) PROVE StartupInv'
    BY <1>4, DaemonStepInv
  <1>5. ASSUME NEW d \in Daemon, Kill(d) PROVE StartupInv'
    BY <1>5, DieInv DEF Kill
  <1>6. CASE UNCHANGED startVars
    <2> USE <1>6 DEF startVars, clientVars, serverVars, StartupInv
    <2>1. StartTypeOK' /\ Linked'
      BY DEF StartTypeOK, Linked, Listens
    <2>2. Fresh'
      BY DEF Fresh, IsGroup
    <2>3. Owned'
      BY DEF Owned, Listens, HasFlock, HasPath
    <2>4. Fathered' /\ OwnDaemonReached'
      BY DEF Fathered, OwnDaemonReached
    <2> QED
      BY <2>1, <2>2, <2>3, <2>4
  <1> QED
    BY <1>1, <1>2, <1>3, <1>4, <1>5, <1>6 DEF StartNext, Serve

LEMMA StartupInvariant == StartSpec => []StartupInv
  BY StartupInit, StartupStep, PTL DEF StartSpec

-------------------------------------------------------------------------------
\* However clients race to start daemons at a path, at a port or with a multicast
\* group, and whatever daemons leave, are shut down or killed meanwhile: the path
\* leads to the daemon that accepts connections there (flom_listen_local unlinks and
\* binds under the lock file, flom_listen_clean unlinks before it releases it), and a
\* client whose own daemon (flom_client_connect_local, _tcp) cannot be reached finds
\* it gone, or never started because another one has the lock file.
THEOREM DaemonsReached == StartSpec => []DaemonReached
  <1>1. StartupInv => DaemonReached
    BY DEF StartupInv, DaemonReached, LoopReachable, Owned, HasPath
  <1> QED
    BY <1>1, StartupInvariant, PTL

\* Clients that are served at one path, or at one port, at the same time are served
\* by the same daemon: the locks of one do count for the other.  The lock file is
\* what makes it so for the path, listen() for the port.
THEOREM OneDaemonServes == StartSpec => []SameDaemon
  <1>1. ASSUME StartupInv, NEW c1 \in Client, NEW c2 \in Client,
               link[c1] = "served", link[c2] = "served",
               serves[to[c1]] = serves[to[c2]], serves[to[c1]] # "own"
        PROVE  to[c1] = to[c2]
    <2>1. to[c1] \in Daemon /\ Listens(to[c1]) /\ to[c2] \in Daemon /\ Listens(to[c2])
      BY <1>1 DEF StartupInv, Linked
    <2>2. serves[to[c1]] \in {"path", "port"}
      BY <1>1, <2>1 DEF StartupInv, StartTypeOK, Owned, Listens
    <2> QED
      BY <1>1, <2>1, <2>2 DEF StartupInv, Owned, HasPath, Listens
  <1>2. StartupInv => SameDaemon
    BY <1>1 DEF SameDaemon
  <1> QED
    BY <1>2, StartupInvariant, PTL
===============================================================================
