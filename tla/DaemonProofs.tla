----------------------------- MODULE DaemonProofs -----------------------------
(***************************************************************************)
(* Proofs about the daemon, in two parts.                                  *)
(*                                                                         *)
(* Daemon, for any number of clients and any names: the main thread and    *)
(* the threads of the lockers, which share their variables without a lock, *)
(* never lose a connection or hand it over twice, and never dismiss a      *)
(* locker that has, or is about to get, a client.                          *)
(*                                                                         *)
(* ResourceNumeric, for any set of connections, any quantities and any     *)
(* total: the units that are out are those of the holders and never more   *)
(* than there are, and nobody is left waiting for what is free.            *)
(***************************************************************************)
EXTENDS Daemon, ResourceNumeric, LockerProofs, FiniteSetTheorems, WellFoundedInduction

\* The clients that have gone past the main thread.  Every locker was started for
\* another one of them.
Past == {c \in Client : place[c] \in {"locker", "closed"}}

Counted == started <= Cardinality(Past)

\* What is known of each locker: those not started yet are untouched; the main thread
\* writes only to lockers of the array, which have not closed their end; tokens are
\* numbered in order, so equal sequence numbers mean an empty pipe; and one that has
\* counted enough idle periods to be dismissed has no client, nor is it taking one.
LockerSound(l) ==
  /\ l > started => /\ threads[l] = "none" /\ ~write_pipe[l] /\ table[l] = {}
                    /\ pipe[l] = <<>> /\ write_sequence[l] = 0 /\ read_sequence[l] = 0
  /\ write_pipe[l] => read_pipe[l] /\ \E k \in DOMAIN lockers : lockers[k] = l
  /\ ~write_pipe[l] => table[l] = {} /\ pipe[l] = <<>>
  /\ daemon = "up" =>
       /\ write_sequence[l] = read_sequence[l] + Len(pipe[l])
       /\ \A k \in DOMAIN pipe[l] : pipe[l][k].sequence = read_sequence[l] + k
  /\ threads[l] = "token" => pipe[l] # <<>>
  /\ threads[l] = "exit" => ~write_pipe[l]
  /\ idle_periods[l] > FLOM_LOCKER_MAX_IDLE_PERIODS =>
       table[l] = {} /\ threads[l] \notin {"token", "tick"}

\* The array of lockers, and what the main thread remembers of it from one step to
\* the next: the pipe of the locker whose sequence numbers it has compared stays
\* empty until it has looked at the idle periods.
ArraySound ==
  /\ \A j, k \in DOMAIN lockers : lockers[j] = lockers[k] => j = k
  /\ \A k \in DOMAIN lockers : lockers[k] <= started
  /\ \A j, k \in DOMAIN lockers :
       write_pipe[lockers[j]] /\ write_pipe[lockers[k]]
         /\ name[lockers[j]] = name[lockers[k]] => j = k
  /\ main.pc \in {"chkidle", "join"} => main.i \in DOMAIN lockers
  /\ main.pc = "chkidle" /\ daemon = "up" => pipe[lockers[main.i]] = <<>>
  /\ main.pc = "incubate" => lockers # <<>> /\ write_pipe[lockers[Len(lockers)]]

LockersSound == ArraySound /\ \A l \in Id : LockerSound(l)

\* Connections: each is in the table of the main thread, in the table of a locker or
\* in a pipe, once, and its place says which.
ConnsSound ==
  /\ \A j, k \in DOMAIN conns : conns[j] = conns[k] => j = k
  /\ \A c \in Client : place[c] \in InTable <=> \E k \in DOMAIN conns : conns[k] = c

InPipe(c, l) == \E k \in DOMAIN pipe[l] : pipe[l][k].client = c

HandedSound ==
  /\ \A l \in Id : \A c \in Client : c \in table[l] \/ InPipe(c, l) => place[c] = "locker"
  /\ \A l, m \in Id : \A c \in Client :
       /\ c \in table[l] /\ c \in table[m] => l = m
       /\ InPipe(c, l) /\ InPipe(c, m) => l = m
       /\ ~(c \in table[l] /\ InPipe(c, m))
  /\ \A c \in Client : place[c] = "locker" => \E l \in Id : c \in table[l] \/ InPipe(c, l)
  /\ \A l \in Id : \A j, k \in DOMAIN pipe[l] : pipe[l][j].client = pipe[l][k].client => j = k

TablesSound == ConnsSound /\ HandedSound

\* The incubator: while the main thread goes through it, only the clients from its
\* cursor on may wait for the new locker, and nobody waits for another one.
IncubatorKept ==
  /\ \A c \in Client : place[c] = "incubator" =>
       /\ c \in incubator
       /\ \A j \in DOMAIN lockers :
            Serves(lockers[j], want[c].name) =>
              /\ main.pc = "incubate" /\ j = Len(lockers)
              /\ \A k \in DOMAIN conns : conns[k] = c => k >= main.i
  /\ \A c \in incubator : place[c] = "incubator" \/ (place[c] = "closed" /\ ~alive[c])

\* The connections the main thread has closed: their clients are gone; the pass that
\* closed them does not come back to them, so the only way to a locker is out of the
\* incubator, where those wait that do not create.
ClosedSound ==
  /\ \A c \in null_fd :
       /\ ~alive[c] /\ place[c] \in InTable \cup {"locker", "closed"}
       /\ place[c] = "locker" => want[c].wait /\ ~want[c].create
  /\ \A c \in Client : place[c] = "incubator" => want[c].wait /\ ~want[c].create
  /\ main.pc = "scan" => \A k \in DOMAIN conns : conns[k] \in null_fd => k < main.i

\* The inductive invariant.
DaemonInv == /\ DaemonTypeOK /\ Counted /\ LockersSound /\ TablesSound /\ ClosedSound
             /\ daemon = "up" => IncubatorKept
             /\ EndedNobodyServed

-------------------------------------------------------------------------------
(***************************************************************************)
(* The operators.                                                          *)
(***************************************************************************)

\* g_ptr_array_remove_index_fast: the last entry moves to the place of the removed
\* one.
LEMMA RemoveFastProperties ==
  ASSUME NEW S, NEW s \in Seq(S), NEW k \in DOMAIN s
  PROVE  /\ RemoveFast(s, k) \in Seq(S)
         /\ DOMAIN RemoveFast(s, k) = 1..(Len(s) - 1)
         /\ \A j \in 1..(Len(s) - 1) : RemoveFast(s, k)[j] = IF j = k THEN s[Len(s)] ELSE s[j]
  <1> DEFINE t == [s EXCEPT ![k] = s[Len(s)]]
  <1>1. Len(s) \in Nat /\ DOMAIN s = 1..Len(s) /\ Len(s) \in DOMAIN s /\ s[Len(s)] \in S
    BY LenProperties, ElementOfSeq
  <1>2. /\ t \in Seq(S) /\ Len(t) = Len(s)
        /\ \A j \in DOMAIN s : t[j] = IF j = k THEN s[Len(s)] ELSE s[j]
    BY <1>1, ExceptSeq
  <1> HIDE DEF t
  <1>3. RemoveFast(s, k) = SubSeq(t, 1, Len(s) - 1)
    BY <1>2 DEF RemoveFast, Front, Last, t
  <1>4. /\ SubSeq(t, 1, Len(s) - 1) \in Seq(S)
        /\ Len(SubSeq(t, 1, Len(s) - 1)) = Len(s) - 1
        /\ \A j \in 1..(Len(s) - 1) : SubSeq(t, 1, Len(s) - 1)[j] = t[j]
    BY <1>1, <1>2
  <1>5. DOMAIN SubSeq(t, 1, Len(s) - 1) = 1..(Len(s) - 1)
    BY <1>4, LenProperties
  <1> QED
    BY <1>1, <1>2, <1>3, <1>4, <1>5

\* From a table that has nobody twice it takes out that one, and nobody else.
LEMMA RemoveFastOnce ==
  ASSUME NEW S, NEW s \in Seq(S), NEW k \in DOMAIN s,
         \A i, j \in DOMAIN s : s[i] = s[j] => i = j
  PROVE  /\ \A i, j \in DOMAIN RemoveFast(s, k) :
              RemoveFast(s, k)[i] = RemoveFast(s, k)[j] => i = j
         /\ \A c : (\E j \in DOMAIN RemoveFast(s, k) : RemoveFast(s, k)[j] = c)
                     <=> (c # s[k] /\ \E j \in DOMAIN s : s[j] = c)
  <1>1. Len(s) \in Nat /\ DOMAIN s = 1..Len(s)
    BY LenProperties
  <1>2. /\ DOMAIN RemoveFast(s, k) = 1..(Len(s) - 1)
        /\ \A j \in 1..(Len(s) - 1) : RemoveFast(s, k)[j] = IF j = k THEN s[Len(s)] ELSE s[j]
    BY RemoveFastProperties
  <1>3. \A i, j \in DOMAIN RemoveFast(s, k) :
          RemoveFast(s, k)[i] = RemoveFast(s, k)[j] => i = j
    BY <1>1, <1>2
  <1>4. ASSUME NEW j \in DOMAIN RemoveFast(s, k)
        PROVE  RemoveFast(s, k)[j] # s[k] /\ \E i \in DOMAIN s : s[i] = RemoveFast(s, k)[j]
    BY <1>1, <1>2
  <1>5. ASSUME NEW j \in DOMAIN s, s[j] # s[k]
        PROVE  \E i \in DOMAIN RemoveFast(s, k) : RemoveFast(s, k)[i] = s[j]
    <2>1. CASE j = Len(s)
      BY <1>1, <1>2, <1>5, <2>1
    <2>2. CASE j # Len(s)
      BY <1>1, <1>2, <1>5, <2>2
    <2> QED
      BY <2>1, <2>2
  <1> QED
    BY <1>3, <1>4, <1>5

LEMMA MainValues ==
  ASSUME main \in Main
  PROVE  /\ main.pc \in {"poll", "scan", "incubate", "chk", "chkidle", "join"}
         /\ main.pc = "scan" => main.i \in Nat /\ main.n \in Nat
         /\ main.pc \in {"incubate", "chk", "chkidle", "join"} =>
              /\ main.i \in Nat
              /\ [main EXCEPT !.i = @ + 1] \in Main
              /\ [main EXCEPT !.i = @ + 1].pc = main.pc
              /\ [main EXCEPT !.i = @ + 1].i = main.i + 1
  BY DEF Main

LEMMA MainStates ==
  /\ Poll \in Main /\ Poll.pc = "poll"
  /\ \A k \in Nat : /\ Chk(k) \in Main /\ Chk(k).pc = "chk"
                    /\ [pc |-> "chkidle", i |-> k] \in Main
                    /\ [pc |-> "join", i |-> k] \in Main
                    /\ [pc |-> "incubate", i |-> k] \in Main
  BY DEF Main, Poll, Chk

\* The pass over the descriptors goes on.
LEMMA BehindFacts ==
  ASSUME main \in Main, main.pc \in {"poll", "scan"}, conns \in Seq(Client), NEW k \in Nat
  PROVE  Behind(k) \in Main /\ Behind(k).pc = "scan" /\ Behind(k).i = k + 1
  <1>1. Len(conns) \in Nat
    BY LenProperties
  <1>2. (IF main.pc = "poll" THEN Len(conns) ELSE main.n) \in Nat
    BY <1>1, MainValues
  <1> QED
    BY <1>2 DEF Behind, Main

LEMMA ReachFacts ==
  ASSUME main \in Main, conns \in Seq(Client), NEW k \in DOMAIN conns, Reaches(k)
  PROVE  /\ daemon = "up" /\ k \in Nat /\ main.pc \in {"poll", "scan"}
         /\ Behind(k) \in Main /\ Behind(k).pc = "scan" /\ Behind(k).i = k + 1
  <1>1. k \in Nat
    BY LenProperties
  <1>2. daemon = "up" /\ main.pc \in {"poll", "scan"}
    BY DEF Reaches, Poll
  <1> QED
    BY <1>1, <1>2, BehindFacts

-------------------------------------------------------------------------------
(***************************************************************************)
(* Types.                                                                  *)
(***************************************************************************)

LEMMA Ids ==
  /\ Cardinality(Client) \in Nat
  /\ \A l \in Id : l \in Nat \ {0} /\ l <= Cardinality(Client)
  /\ \A l \in Nat \ {0} : l <= Cardinality(Client) => l \in Id
  BY DaemonAssumption, FS_CardinalityType DEF Id

\* The hand over of connection k to locker l.
LEMMA TransferConnType ==
  ASSUME DaemonTypeOK, NEW k \in DOMAIN conns, NEW l \in Id, TransferConn(k, l)
  PROVE  /\ place' \in [Client -> Place] /\ conns' \in Seq(Client)
         /\ daemon' \in {"up", "ending", "ended", "failed"}
         /\ write_sequence' \in [Id -> Nat] /\ pipe' \in [Id -> Seq(Token)]
  <1>1. conns[k] \in Client
    BY ElementOfSeq DEF DaemonTypeOK
  <1>2. write_sequence' \in [Id -> Nat]
    BY DEF DaemonTypeOK, TransferConn
  <1>3. CASE threads[l] = "failed"
    BY <1>2, <1>3 DEF DaemonTypeOK, TransferConn
  <1>4. CASE threads[l] # "failed"
    <2>1. [client |-> conns[k], sequence |-> write_sequence'[l]] \in Token
      BY <1>1, <1>2 DEF Token
    <2>2. pipe[l] \in Seq(Token)
      BY DEF DaemonTypeOK
    <2>3. Append(pipe[l], [client |-> conns[k], sequence |-> write_sequence'[l]]) \in Seq(Token)
      BY <2>1, <2>2, AppendedProperties
    <2>4. pipe' \in [Id -> Seq(Token)]
      BY <1>4, <2>3 DEF DaemonTypeOK, TransferConn
    <2>5. conns' \in Seq(Client)
      BY <1>4, RemoveFastProperties DEF DaemonTypeOK, TransferConn
    <2>6. place' \in [Client -> Place] /\ daemon' \in {"up", "ending", "ended", "failed"}
      BY <1>4 DEF DaemonTypeOK, TransferConn, Place
    <2> QED
      BY <1>2, <2>4, <2>5, <2>6
  <1> QED
    BY <1>3, <1>4

\* Clients that are past the main thread stay so: a locker can be started only as
\* long as a client is left for it.
LEMMA PastGrows ==
  ASSUME Past \subseteq Past', Counted, started \in Nat, UNCHANGED started
  PROVE  Counted'
  <1>1. IsFiniteSet(Past) /\ IsFiniteSet(Past')
    BY DaemonAssumption, FS_Subset DEF Past
  <1>2. Cardinality(Past) <= Cardinality(Past') /\ Cardinality(Past) \in Nat /\ Cardinality(Past') \in Nat
    BY <1>1, FS_Subset, FS_CardinalityType
  <1> QED
    BY <1>2 DEF Counted

LEMMA RoomLeft ==
  ASSUME NEW c \in Client, c \notin Past, started \in Nat, Counted
  PROVE  started + 1 \in Id /\ started + 1 <= Cardinality(Past \cup {c})
  <1>1. IsFiniteSet(Past) /\ IsFiniteSet(Past \cup {c}) /\ Cardinality(Past \cup {c}) <= Cardinality(Client)
    BY DaemonAssumption, FS_Subset DEF Past
  <1>2. Cardinality(Past \cup {c}) = Cardinality(Past) + 1
    BY <1>1, FS_AddElement
  <1>3. Cardinality(Past) \in Nat
    BY <1>1, FS_CardinalityType
  <1> QED
    BY <1>1, <1>2, <1>3, Ids DEF Counted

\* A locker is started: it is the next one, and its client is taken by it.
LEMMA CreateFacts ==
  ASSUME DaemonInv, NEW k \in DOMAIN conns, place[conns[k]] = "unread", TransferCreate(k)
  PROVE  /\ conns[k] \in Client /\ started + 1 \in Id
         /\ threads[started + 1] = "none"
         /\ place' = [place EXCEPT ![conns[k]] = "locker"]
         /\ conns' = RemoveFast(conns, k)
         /\ pipe' = [pipe EXCEPT ![started + 1] = Append(pipe[started + 1],
                       [client |-> conns[k], sequence |-> 1])]
         /\ write_sequence' = [write_sequence EXCEPT ![started + 1] = 1]
         /\ daemon' = daemon
         /\ Counted'
  <1>1. conns[k] \in Client /\ started \in Nat
    BY ElementOfSeq, Ids DEF DaemonInv, DaemonTypeOK
  <1>2. conns[k] \notin Past
    BY DEF Past
  <1>3. started + 1 \in Id /\ started + 1 <= Cardinality(Past \cup {conns[k]})
    BY <1>1, <1>2, RoomLeft DEF DaemonInv
  <1>4. threads[started + 1] = "none" /\ write_sequence[started + 1] = 0
    BY <1>1, <1>3 DEF DaemonInv, LockersSound, LockerSound
  <1>5. write_sequence' = [write_sequence EXCEPT ![started + 1] = 1] /\ write_sequence'[started + 1] = 1
    BY <1>3, <1>4 DEF DaemonInv, DaemonTypeOK, TransferCreate, TransferConn
  <1>6. /\ place' = [place EXCEPT ![conns[k]] = "locker"]
        /\ conns' = RemoveFast(conns, k)
        /\ daemon' = daemon
        /\ pipe' = [pipe EXCEPT ![started + 1] = Append(pipe[started + 1],
                       [client |-> conns[k], sequence |-> 1])]
    BY <1>4, <1>5 DEF TransferCreate, TransferConn
  <1>7. Past' = Past \cup {conns[k]}
    BY <1>1, <1>6 DEF Past, DaemonInv, DaemonTypeOK
  <1>8. Counted'
    BY <1>3, <1>7 DEF Counted, TransferCreate
  <1> QED
    BY <1>1, <1>3, <1>4, <1>5, <1>6, <1>8

\* A client of the array that is found is a locker.
LEMMA FoundFacts ==
  ASSUME DaemonInv, NEW k \in DOMAIN conns, TransferFound(k)
  PROVE  \E j \in DOMAIN lockers :
           /\ lockers[j] \in Id /\ Serves(lockers[j], want[conns[k]].name)
           /\ TransferConn(k, lockers[j])
  BY ElementOfSeq DEF DaemonInv, DaemonTypeOK, TransferFound, Found

LEMMA LastLocker ==
  ASSUME DaemonInv, main.pc = "incubate"
  PROVE  /\ Last(lockers) = lockers[Len(lockers)] /\ Len(lockers) \in DOMAIN lockers
         /\ Last(lockers) \in Id /\ write_pipe[Last(lockers)]
  <1>1. lockers \in Seq(Id) /\ lockers # <<>>
    BY DEF DaemonInv, DaemonTypeOK, LockersSound, ArraySound
  <1>2. Len(lockers) \in Nat /\ Len(lockers) # 0 /\ DOMAIN lockers = 1..Len(lockers)
    BY <1>1, LenProperties, EmptySeq
  <1> QED
    BY <1>1, <1>2, ElementOfSeq DEF Last, DaemonInv, LockersSound, ArraySound

LEMMA MainType ==
  ASSUME DaemonInv, MainThread
  PROVE  DaemonTypeOK' /\ Counted'
  <1> USE DEF clientVars, lockersVars
  <1>0. DaemonTypeOK /\ Counted /\ started \in Nat
    BY Ids DEF DaemonInv, DaemonTypeOK
  <1>1. ASSUME NEW c \in Client, Accept(c) PROVE DaemonTypeOK' /\ Counted'
    <2>1. DaemonTypeOK'
      <3>1. Behind(0) \in Main
        BY <1>0, <1>1, BehindFacts, MainStates DEF Accept, DaemonTypeOK
      <3> QED
        BY <1>0, <1>1, <3>1, AppendedProperties DEF Accept, DaemonTypeOK, Place
    <2>2. Past \subseteq Past' /\ UNCHANGED started
      BY <1>0, <1>1 DEF Accept, DaemonTypeOK, Past
    <2> QED
      BY <1>0, <2>1, <2>2, PastGrows
  <1>2. ASSUME NEW k \in DOMAIN conns, ConnsClean(k) \/ Drop(k) PROVE DaemonTypeOK' /\ Counted'
    <2>1. CASE ConnsClean(k)
      <3>1. DaemonTypeOK'
        BY <1>0, <2>1, RemoveFastProperties DEF ConnsClean, DaemonTypeOK, Place
      <3>2. Past \subseteq Past' /\ UNCHANGED started
        BY <1>0, <2>1 DEF ConnsClean, DaemonTypeOK, Past
      <3> QED
        BY <1>0, <3>1, <3>2, PastGrows
    <2>2. CASE Drop(k)
      <3>1. conns[k] \in Client /\ Behind(k) \in Main
        BY <1>0, <2>2, ElementOfSeq, ReachFacts DEF Drop, DaemonTypeOK
      <3>2. DaemonTypeOK'
        BY <1>0, <2>2, <3>1 DEF Drop, DaemonTypeOK
      <3>3. Past \subseteq Past' /\ UNCHANGED started
        BY <2>2 DEF Drop, Past
      <3> QED
        BY <1>0, <3>2, <3>3, PastGrows
    <2> QED
      BY <1>2, <2>1, <2>2
  <1>3. ASSUME NEW k \in DOMAIN conns, TransferFound(k) PROVE DaemonTypeOK' /\ Counted'
    <2>1. PICK l \in Id : TransferConn(k, l)
      BY <1>3, FoundFacts
    <2>2. /\ place' \in [Client -> Place] /\ conns' \in Seq(Client)
          /\ daemon' \in {"up", "ending", "ended", "failed"}
          /\ write_sequence' \in [Id -> Nat] /\ pipe' \in [Id -> Seq(Token)]
      BY <1>0, <2>1, TransferConnType
    <2>3. DaemonTypeOK'
      BY <1>0, <1>3, <2>2, MainStates DEF TransferFound, DaemonTypeOK
    <2>4. Past \subseteq Past' /\ UNCHANGED started
      BY <1>0, <1>3, <2>1 DEF TransferFound, TransferConn, DaemonTypeOK, Past
    <2> QED
      BY <1>0, <2>3, <2>4, PastGrows
  <1>4. ASSUME NEW k \in DOMAIN conns, place[conns[k]] = "unread", TransferCreate(k)
        PROVE  DaemonTypeOK' /\ Counted'
    <2>0. started + 1 \in Id /\ Counted' /\ conns[k] \in Client
      BY <1>4, CreateFacts
    <2>1. /\ place' \in [Client -> Place] /\ conns' \in Seq(Client)
          /\ daemon' \in {"up", "ending", "ended", "failed"}
          /\ write_sequence' \in [Id -> Nat] /\ pipe' \in [Id -> Seq(Token)]
      BY <1>0, <1>4, <2>0, TransferConnType DEF TransferCreate
    <2>2. want[conns[k]].name \in Name
      BY <1>0, <2>0 DEF DaemonTypeOK, Message
    <2>3. started' \in 0..Cardinality(Client) /\ lockers' \in Seq(Id)
      BY <1>0, <1>4, <2>0, Ids, AppendedProperties DEF TransferCreate, DaemonTypeOK
    <2>4. DaemonTypeOK'
      BY <1>0, <1>4, <2>0, <2>1, <2>2, <2>3, MainStates DEF TransferCreate, DaemonTypeOK
    <2> QED
      BY <2>0, <2>4
  <1>5. ASSUME NEW k \in DOMAIN conns, Reaches(k), place[conns[k]] = "unread", TransferRefuse(k)
        PROVE  DaemonTypeOK' /\ Counted'
    <2>1. conns[k] \in Client /\ Behind(k) \in Main
      BY <1>0, <1>5, ElementOfSeq, ReachFacts DEF DaemonTypeOK
    <2>2. PICK where \in {"incubator", "refused"}, nodes \in SUBSET Client : MainReply(k, where, nodes)
      BY <1>0, <1>5, <2>1 DEF TransferRefuse, DaemonTypeOK
    <2>3. /\ place' \in [Client -> Place] /\ null_fd' \subseteq Client /\ incubator' \subseteq Client
          /\ daemon' \in {"up", "ending", "ended", "failed"} /\ main' \in Main
      <3>1. main' \in Main
        BY <1>0, <2>1, <2>2, MainStates DEF MainReply, DaemonTypeOK
      <3>2. place' \in [Client -> Place]
        BY <1>0, <2>2 DEF MainReply, DaemonTypeOK, Place
      <3> QED
        BY <1>0, <2>1, <2>2, <3>1, <3>2 DEF MainReply, DaemonTypeOK
    <2>4. DaemonTypeOK'
      BY <1>0, <2>2, <2>3 DEF MainReply, DaemonTypeOK
    <2>5. Past \subseteq Past' /\ UNCHANGED started
      BY <1>0, <1>5, <2>1, <2>2 DEF MainReply, DaemonTypeOK, Past
    <2> QED
      BY <1>0, <2>4, <2>5, PastGrows
  <1>6. ASSUME Incubate PROVE DaemonTypeOK' /\ Counted'
    <2> DEFINE l == Last(lockers)
    <2>1. l \in Id
      BY <1>6, LastLocker DEF Incubate
    <2>2. /\ place' \in [Client -> Place] /\ conns' \in Seq(Client)
          /\ daemon' \in {"up", "ending", "ended", "failed"}
          /\ write_sequence' \in [Id -> Nat] /\ pipe' \in [Id -> Seq(Token)]
      BY <1>0, <1>6, <2>1, TransferConnType
      DEF Incubate, IncubateTake, IncubateSkip, IncubateEnd, DaemonTypeOK
    <2>3. main' \in Main /\ incubator' \subseteq Client
      BY <1>0, <1>6, MainValues, MainStates
      DEF Incubate, IncubateTake, IncubateSkip, IncubateEnd, DaemonTypeOK
    <2>4. DaemonTypeOK'
      BY <1>0, <1>6, <2>2, <2>3 DEF Incubate, DaemonTypeOK
    <2>5. Past \subseteq Past' /\ UNCHANGED started
      BY <1>0, <1>6 DEF Incubate, IncubateTake, IncubateSkip, IncubateEnd, TransferConn, DaemonTypeOK, Past
    <2> QED
      BY <1>0, <2>4, <2>5, PastGrows
  <1>7. ASSUME ScanDone \/ Timeout \/ ChkEnd \/ ChkSequence \/ ChkIdle \/ ChkJoin
        PROVE  DaemonTypeOK' /\ Counted'
    <2> USE DEF chkFrame, Checking
    <2>1. main' \in Main
      <3>1. CASE ScanDone \/ Timeout \/ ChkEnd \/ ChkJoin
        BY <1>0, <3>1, MainStates DEF ScanDone, Timeout, ChkEnd, ChkJoin, DaemonTypeOK
      <3>2. CASE ChkSequence \/ ChkIdle
        <4>1. main.i \in Nat /\ main.i + 1 \in Nat
          BY <1>0, <3>2, MainValues DEF ChkSequence, ChkIdle, DaemonTypeOK
        <4> QED
          BY <3>2, <4>1, MainStates DEF ChkSequence, ChkIdle
      <3> QED
        BY <1>7, <3>1, <3>2
    <2>2. lockers' \in Seq(Id)
      <3>1. CASE ChkJoin
        <4>1. main.i \in DOMAIN lockers
          BY <3>1 DEF ChkJoin, DaemonInv, LockersSound, ArraySound
        <4> QED
          BY <1>0, <3>1, <4>1, RemoveAtProperties DEF ChkJoin, DaemonTypeOK
      <3>2. CASE ~ChkJoin
        BY <1>0, <1>7, <3>2 DEF ScanDone, Timeout, ChkEnd, ChkSequence, ChkIdle, DaemonTypeOK
      <3> QED
        BY <3>1, <3>2
    <2>3. DaemonTypeOK'
      BY <1>0, <1>7, <2>1, <2>2
      DEF ScanDone, Timeout, ChkEnd, ChkSequence, ChkIdle, ChkJoin, DaemonTypeOK
    <2>4. Past' = Past /\ UNCHANGED started
      BY <1>7 DEF ScanDone, Timeout, ChkEnd, ChkSequence, ChkIdle, ChkJoin, Past
    <2> QED
      BY <1>0, <2>3, <2>4, PastGrows
  <1>8. ASSUME Close PROVE DaemonTypeOK' /\ Counted'
    <2>1. DaemonTypeOK'
      BY <1>0, <1>8 DEF Close, DaemonTypeOK, Place
    <2>2. Past \subseteq Past' /\ UNCHANGED started
      BY <1>0, <1>8 DEF Close, DaemonTypeOK, Past
    <2> QED
      BY <1>0, <2>1, <2>2, PastGrows
  <1> QED
    BY <1>1, <1>2, <1>3, <1>4, <1>5, <1>6, <1>7, <1>8 DEF MainThread, TransferStep

LEMMA ThreadType ==
  ASSUME DaemonInv, NEW l \in Id, Locker(l) \/ LockerFail(l)
  PROVE  DaemonTypeOK' /\ Counted'
  <1> USE DEF clientVars, threadFrame
  <1>0. DaemonTypeOK /\ Counted /\ started \in Nat
    BY Ids DEF DaemonInv, DaemonTypeOK
  <1>1. UNCHANGED <<clientVars, conns, null_fd, incubator, daemon, main, again, lockers, started,
                    name, write_pipe, write_sequence>>
    BY DEF Locker, LockerTimeout, LockerTick, LockerPollin, LockerImport, LockerDrop, LockerHup,
           LockerFail, LockerCorrupted, LockerEnds, Polls
  <1>2. place' \in [Client -> Place] /\ Past \subseteq Past'
    <2>1. CASE \E c \in Client : LockerDrop(l, c)
      BY <1>0, <2>1 DEF LockerDrop, DaemonTypeOK, Place, Past
    <2>2. CASE LockerEnds(l)
      BY <1>0, <2>2 DEF LockerEnds, DaemonTypeOK, Place, Past
    <2>3. CASE UNCHANGED place
      BY <1>0, <2>3 DEF DaemonTypeOK, Past
    <2> QED
      BY <2>1, <2>2, <2>3 DEF Locker, LockerTimeout, LockerTick, LockerPollin, LockerImport, LockerHup,
         LockerFail, LockerCorrupted
  <1>3. read_pipe' \in [Id -> BOOLEAN]
        /\ threads' \in [Id -> {"none", "poll", "tick", "token", "exit", "failed"}]
    BY <1>0 DEF Locker, LockerTimeout, LockerTick, LockerPollin, LockerImport, LockerDrop,
       LockerHup, LockerFail, LockerCorrupted, LockerEnds, Polls, DaemonTypeOK
  <1>4. idle_periods' \in [Id -> 0..(FLOM_LOCKER_MAX_IDLE_PERIODS + 1)]
    <2>1. CASE LockerTick(l)
      <3>1. idle_periods[l] <= FLOM_LOCKER_MAX_IDLE_PERIODS
        <4>1. threads[l] = "tick" /\ LockerSound(l)
          BY <2>1 DEF LockerTick, DaemonInv, LockersSound
        <4>2. idle_periods[l] \in 0..(FLOM_LOCKER_MAX_IDLE_PERIODS + 1)
          BY <1>0 DEF DaemonTypeOK
        <4> QED
          BY <4>1, <4>2 DEF LockerSound, FLOM_LOCKER_MAX_IDLE_PERIODS
      <3> QED
        BY <1>0, <2>1, <3>1 DEF LockerTick, DaemonTypeOK, FLOM_LOCKER_MAX_IDLE_PERIODS
    <2>2. CASE ~LockerTick(l)
      <3>1. idle_periods' \in {idle_periods, [idle_periods EXCEPT ![l] = 0]}
        BY <2>2 DEF Locker, LockerTimeout, LockerPollin, LockerImport, LockerDrop, LockerHup,
           LockerFail, LockerCorrupted, LockerEnds, Polls
      <3>2. 0 \in 0..(FLOM_LOCKER_MAX_IDLE_PERIODS + 1)
        BY DEF FLOM_LOCKER_MAX_IDLE_PERIODS
      <3> QED
        BY <1>0, <3>1, <3>2 DEF DaemonTypeOK
    <2> QED
      BY <2>1, <2>2
  <1>5. /\ read_sequence' \in [Id -> Nat] /\ pipe' \in [Id -> Seq(Token)]
        /\ table' \in [Id -> SUBSET Client]
    <2>1. CASE LockerImport(l)
      <3>1. pipe[l] \in Seq(Token) /\ pipe[l] # <<>>
        BY <1>0, <2>1 DEF LockerImport, DaemonTypeOK, DaemonInv, LockersSound, LockerSound
      <3>2. Head(pipe[l]) \in Token /\ Tail(pipe[l]) \in Seq(Token)
        BY <3>1, ReadProperties
      <3> QED
        BY <1>0, <2>1, <3>2 DEF LockerImport, DaemonTypeOK, Token
    <2>2. CASE ~LockerImport(l)
      <3>1. /\ UNCHANGED <<read_sequence, pipe>>
            /\ \E t \in SUBSET table[l] : table' = table \/ table' = [table EXCEPT ![l] = t]
        BY <2>2 DEF Locker, LockerTimeout, LockerTick, LockerPollin, LockerDrop, LockerHup,
           LockerFail, LockerCorrupted, LockerEnds, Polls
      <3>2. table \in [Id -> SUBSET Client] /\ table[l] \subseteq Client
        BY <1>0 DEF DaemonTypeOK
      <3>3. table' \in [Id -> SUBSET Client]
        BY <3>1, <3>2
      <3> QED
        BY <1>0, <3>1, <3>3 DEF DaemonTypeOK
    <2> QED
      BY <2>1, <2>2
  <1>6. DaemonTypeOK'
    BY <1>0, <1>1, <1>2, <1>3, <1>4, <1>5 DEF DaemonTypeOK
  <1> QED
    BY <1>0, <1>1, <1>2, <1>6, PastGrows

-------------------------------------------------------------------------------
(***************************************************************************)
(* The lockers.                                                            *)
(***************************************************************************)

LEMMA LockerFrame ==
  ASSUME DaemonInv, daemon' = "up" => daemon = "up",
         UNCHANGED <<started, lockers, write_pipe, read_pipe, threads, table, pipe,
                     write_sequence, read_sequence, idle_periods>>
  PROVE  \A l \in Id : LockerSound(l)'
  BY DEF DaemonInv, LockersSound, LockerSound

\* A token is written, to a locker that reads, or the main loop fails.
LEMMA TransferConnLockers ==
  ASSUME DaemonInv, daemon = "up", NEW k \in DOMAIN conns, NEW l \in Id, write_pipe[l],
         TransferConn(k, l),
         UNCHANGED <<started, lockers, write_pipe, read_pipe, threads, table, read_sequence, idle_periods>>
  PROVE  \A m \in Id : LockerSound(m)'
  <1> SUFFICES ASSUME NEW m \in Id PROVE LockerSound(m)'
    OBVIOUS
  <1>1. LockerSound(m) /\ LockerSound(l)
    BY DEF DaemonInv, LockersSound
  <1>2. pipe \in [Id -> Seq(Token)] /\ write_sequence \in [Id -> Nat] /\ read_sequence[l] \in Nat
    BY DEF DaemonInv, DaemonTypeOK
  <1>3. CASE m # l
    <2>1. pipe'[m] = pipe[m] /\ write_sequence'[m] = write_sequence[m]
      BY <1>2, <1>3 DEF TransferConn
    <2> QED
      BY <1>1, <2>1 DEF LockerSound
  <1>4. CASE m = l /\ threads[l] = "failed"
    <2>1. pipe' = pipe /\ daemon' = "failed"
      BY <1>4 DEF TransferConn
    <2> QED
      BY <1>1, <1>4, <2>1 DEF LockerSound
  <1>5. CASE m = l /\ threads[l] # "failed"
    <2> DEFINE e == [client |-> conns[k], sequence |-> write_sequence[l] + 1]
    <2>1. e \in Token /\ e.sequence = write_sequence[l] + 1
      BY <1>2, ElementOfSeq DEF DaemonInv, DaemonTypeOK, Token
    <2>2. pipe'[l] = Append(pipe[l], e) /\ write_sequence'[l] = write_sequence[l] + 1
      BY <1>2, <1>5 DEF TransferConn
    <2>3. pipe[l] \in Seq(Token) /\ Len(pipe[l]) \in Nat /\ DOMAIN pipe[l] = 1..Len(pipe[l])
      BY <1>2, LenProperties
    <2> HIDE DEF e
    <2>4. /\ Len(pipe'[l]) = Len(pipe[l]) + 1
          /\ DOMAIN pipe'[l] = 1..(Len(pipe[l]) + 1)
          /\ \A j \in 1..(Len(pipe[l]) + 1) :
               pipe'[l][j] = IF j = Len(pipe[l]) + 1 THEN e ELSE pipe[l][j]
      BY <2>1, <2>2, <2>3, AppendedProperties
    <2>5. write_sequence[l] = read_sequence[l] + Len(pipe[l])
      BY <1>1 DEF LockerSound
    <2>6. \A j \in DOMAIN pipe'[l] : pipe'[l][j].sequence = read_sequence[l] + j
      <3> SUFFICES ASSUME NEW j \in 1..(Len(pipe[l]) + 1)
                   PROVE  pipe'[l][j].sequence = read_sequence[l] + j
        BY <2>4
      <3>1. CASE j = Len(pipe[l]) + 1
        <4>1. pipe'[l][j] = e
          BY <2>4, <3>1
        <4>2. write_sequence[l] + 1 = read_sequence[l] + j
          <5>1. \A a, b, n \in Nat : a = b + n => a + 1 = b + (n + 1)
            OBVIOUS
          <5>2. write_sequence[l] \in Nat /\ read_sequence[l] \in Nat /\ Len(pipe[l]) \in Nat
            BY <1>2, <2>3
          <5>3. write_sequence[l] + 1 = read_sequence[l] + (Len(pipe[l]) + 1)
            BY <2>5, <5>1, <5>2
          <5> QED
            BY <3>1, <5>3
        <4> QED
          BY <2>1, <4>1, <4>2
      <3>2. CASE j \in DOMAIN pipe[l]
        <4>1. pipe'[l][j] = pipe[l][j]
          BY <2>3, <2>4, <3>2
        <4> QED
          BY <1>1, <3>2, <4>1 DEF LockerSound
      <3> QED
        BY <2>3, <3>1, <3>2
    <2>7. write_sequence'[l] = read_sequence[l] + Len(pipe'[l])
      BY <1>2, <2>2, <2>3, <2>4, <2>5
    <2>8. pipe'[l] # <<>>
      BY <2>3, <2>4
    <2> QED
      BY <1>1, <1>5, <2>6, <2>7, <2>8 DEF LockerSound
  <1> QED
    BY <1>3, <1>4, <1>5

\* A locker is started, for a name that no other one serves.
LEMMA CreateLockers ==
  ASSUME DaemonInv, daemon = "up", NEW k \in DOMAIN conns, place[conns[k]] = "unread", TransferCreate(k)
  PROVE  LockersSound'
  <1> DEFINE l == started + 1
             e == [client |-> conns[k], sequence |-> 1]
  <1>1. /\ l \in Id /\ started \in Nat /\ e \in Token /\ e.sequence = 1
        /\ pipe' = [pipe EXCEPT ![l] = Append(pipe[l], e)]
        /\ write_sequence' = [write_sequence EXCEPT ![l] = 1]
        /\ daemon' = daemon
    <2>1. started \in Nat
      BY Ids DEF DaemonInv, DaemonTypeOK
    <2>2. conns[k] \in Client
      BY CreateFacts
    <2>3. e \in Token /\ e.sequence = 1
      BY <2>2 DEF Token
    <2> QED
      BY <2>1, <2>3, CreateFacts
  <1>2. /\ started' = l
        /\ lockers' = Append(lockers, l)
        /\ name' = [name EXCEPT ![l] = want[conns[k]].name]
        /\ write_pipe' = [write_pipe EXCEPT ![l] = TRUE]
        /\ read_pipe' = [read_pipe EXCEPT ![l] = TRUE]
        /\ threads' = [threads EXCEPT ![l] = "poll"]
        /\ main' = [pc |-> "incubate", i |-> 1]
        /\ UNCHANGED <<read_sequence, idle_periods, table>>
    BY DEF TransferCreate
  <1>3. \A m \in Id : LockerSound(m)
    BY DEF DaemonInv, LockersSound
  <1>4. /\ threads[l] = "none" /\ ~write_pipe[l] /\ table[l] = {}
        /\ pipe[l] = <<>> /\ write_sequence[l] = 0 /\ read_sequence[l] = 0
    BY <1>1, <1>3 DEF LockerSound
  <1> HIDE DEF e
  <1>5. Len(lockers) \in Nat /\ DOMAIN lockers = 1..Len(lockers) /\ \A j \in DOMAIN lockers : lockers[j] \in Id
    BY LenProperties, ElementOfSeq DEF DaemonInv, DaemonTypeOK
  <1>6. /\ DOMAIN lockers' = 1..(Len(lockers) + 1) /\ Len(lockers') = Len(lockers) + 1
        /\ \A j \in 1..(Len(lockers) + 1) :
             lockers'[j] = IF j = Len(lockers) + 1 THEN l ELSE lockers[j]
    <2>1. lockers \in Seq(Id)
      BY DEF DaemonInv, DaemonTypeOK
    <2> HIDE DEF l
    <2> QED
      BY <1>1, <1>2, <2>1, AppendedProperties
  <1>7. \A j \in DOMAIN lockers : lockers[j] \in Nat /\ lockers[j] <= started /\ lockers[j] # l
    BY <1>1, <1>5, Ids DEF DaemonInv, LockersSound, ArraySound
  <1>8. ASSUME NEW m \in Id PROVE LockerSound(m)'
    <2>1. CASE m = l
      <3>1. pipe'[l] = Append(<<>>, e)
        BY <1>1, <1>4 DEF DaemonInv, DaemonTypeOK
      <3>2. Len(pipe'[l]) = 1 /\ DOMAIN pipe'[l] = 1..1 /\ pipe'[l][1] = e /\ pipe'[l] # <<>>
        BY <3>1
      <3>3. /\ threads'[l] = "poll" /\ write_pipe'[l] /\ read_pipe'[l] /\ write_sequence'[l] = 1
        BY <1>1, <1>2 DEF DaemonInv, DaemonTypeOK
      <3>4. \E j \in DOMAIN lockers' : lockers'[j] = l
        BY <1>5, <1>6
      <3>5. \A j \in DOMAIN pipe'[l] : pipe'[l][j].sequence = read_sequence[l] + j
        BY <1>1, <1>4, <3>2
      <3>6. idle_periods[l] > FLOM_LOCKER_MAX_IDLE_PERIODS => table[l] = {} /\ threads'[l] \notin {"token", "tick"}
        BY <1>4, <3>3
      <3> QED
        BY <1>1, <1>2, <1>4, <2>1, <3>2, <3>3, <3>4, <3>5, <3>6 DEF LockerSound
    <2>2. CASE m # l
      <3>1. /\ pipe'[m] = pipe[m] /\ threads'[m] = threads[m] /\ write_pipe'[m] = write_pipe[m]
            /\ read_pipe'[m] = read_pipe[m] /\ write_sequence'[m] = write_sequence[m]
        BY <1>1, <1>2, <2>2 DEF DaemonInv, DaemonTypeOK
      <3>2. m > started' => m > started
        BY <1>1, <1>2, Ids
      <3>3. \A j \in DOMAIN lockers : j \in DOMAIN lockers' /\ lockers'[j] = lockers[j]
        BY <1>5, <1>6
      <3> QED
        <4>1. LockerSound(m) /\ daemon' = daemon /\ UNCHANGED <<read_sequence, idle_periods, table>>
          BY <1>1, <1>2, <1>3
        <4> HIDE DEF l
        <4> QED
          BY <3>1, <3>2, <3>3, <4>1 DEF LockerSound
    <2> QED
      BY <2>1, <2>2
  <1>9. ArraySound'
    <2>1. \A i, j \in DOMAIN lockers' : lockers'[i] = lockers'[j] => i = j
      BY <1>5, <1>6, <1>7 DEF DaemonInv, LockersSound, ArraySound
    <2>2. \A j \in DOMAIN lockers' : lockers'[j] <= started'
      BY <1>1, <1>2, <1>5, <1>6, <1>7
    <2>3. \A j \in DOMAIN lockers : write_pipe[lockers[j]] => name[lockers[j]] # want[conns[k]].name
      BY <1>3, <1>5 DEF TransferCreate, NotFound, Serves, LockerSound
    <2>4. \A j \in DOMAIN lockers : /\ write_pipe'[lockers[j]] = write_pipe[lockers[j]]
                                    /\ name'[lockers[j]] = name[lockers[j]]
      BY <1>1, <1>2, <1>5, <1>7 DEF DaemonInv, DaemonTypeOK
    <2>5. name'[l] = want[conns[k]].name /\ write_pipe'[l]
      BY <1>1, <1>2 DEF DaemonInv, DaemonTypeOK
    <2>6. \A i, j \in DOMAIN lockers' :
             write_pipe'[lockers'[i]] /\ write_pipe'[lockers'[j]]
               /\ name'[lockers'[i]] = name'[lockers'[j]] => i = j
      BY <1>5, <1>6, <2>3, <2>4, <2>5 DEF DaemonInv, LockersSound, ArraySound
    <2>7. lockers' # <<>> /\ write_pipe'[lockers'[Len(lockers')]]
      BY <1>5, <1>6, <2>5
    <2> QED
      BY <1>2, <2>1, <2>2, <2>6, <2>7 DEF ArraySound
  <1> QED
    BY <1>8, <1>9 DEF LockersSound

\* The main thread: the pipe it closes is that of a locker that has no client, has
\* read every token, and can get no other one.
LEMMA MainLockers ==
  ASSUME DaemonInv, MainThread
  PROVE  LockersSound'
  <1>0. ArraySound /\ DaemonTypeOK /\ \A l \in Id : LockerSound(l)
    BY DEF DaemonInv, LockersSound
  <1>1. CASE \/ \E c \in Client : Accept(c)
             \/ \E k \in DOMAIN conns :
                  ConnsClean(k) \/ Drop(k) \/ (TransferStep(k) /\ TransferRefuse(k))
             \/ ScanDone \/ Timeout \/ Close \/ ChkEnd
    <2>1. /\ UNCHANGED <<started, name, lockers, write_pipe, read_pipe, threads, table, pipe,
                         write_sequence, read_sequence, idle_periods>>
          /\ daemon' = "up" => daemon = "up"
      BY <1>1 DEF Accept, ConnsClean, Drop, TransferStep, TransferRefuse, MainReply, ScanDone, Timeout,
         Close, ChkEnd, chkFrame, lockersVars, Reaches, Checking
    <2>2. main' = main \/ main'.pc \in {"poll", "scan", "chk"}
      <3>1. Chk(1).pc = "chk"
        BY MainStates
      <3>2. main' \in {main, Poll, Chk(1)} \/ \E k : main' = Behind(k)
        BY <1>1 DEF Accept, ConnsClean, Drop, TransferRefuse, MainReply, ScanDone, Timeout, Close, ChkEnd
      <3>3. \A k : Behind(k).pc = "scan"
        BY DEF Behind
      <3> QED
        BY <3>1, <3>2, <3>3, MainStates
    <2>3. ArraySound'
      BY <1>0, <2>1, <2>2 DEF ArraySound
    <2> QED
      BY <2>1, <2>3, LockerFrame DEF LockersSound
  <1>2. ASSUME NEW k \in DOMAIN conns, TransferStep(k), TransferFound(k) PROVE LockersSound'
    <2>1. PICK j \in DOMAIN lockers :
            /\ lockers[j] \in Id /\ Serves(lockers[j], want[conns[k]].name)
            /\ TransferConn(k, lockers[j])
      BY <1>2, FoundFacts
    <2>2. daemon = "up" /\ write_pipe[lockers[j]]
      BY <1>2, <2>1 DEF TransferStep, Reaches, Serves
    <2>3. /\ UNCHANGED <<started, name, lockers, write_pipe, read_pipe, threads, table, read_sequence,
                         idle_periods>>
          /\ main' = Chk(1)
      BY <1>2 DEF TransferFound, lockersVars
    <2>4. ArraySound'
      BY <1>0, <2>3, MainStates DEF ArraySound
    <2> QED
      BY <2>1, <2>2, <2>3, <2>4, TransferConnLockers DEF LockersSound
  <1>3. ASSUME NEW k \in DOMAIN conns, TransferStep(k), TransferCreate(k) PROVE LockersSound'
    BY <1>3, CreateLockers DEF TransferStep, Reaches
  <1>4. CASE Incubate
    <2> DEFINE l == Last(lockers)
    <2>1. l \in Id /\ write_pipe[l] /\ daemon = "up"
      BY <1>4, LastLocker DEF Incubate
    <2>2. UNCHANGED <<started, name, lockers, write_pipe, read_pipe, threads, table, read_sequence,
                      idle_periods>>
      BY <1>4 DEF Incubate, lockersVars
    <2>3. main'.pc \in {"incubate", "chk"}
      <3>1. main.pc = "incubate" /\ main \in Main
        BY <1>0, <1>4 DEF Incubate, DaemonTypeOK
      <3>2. main' \in {main, Chk(1), [main EXCEPT !.i = @ + 1]}
        BY <1>4 DEF Incubate, IncubateTake, IncubateSkip, IncubateEnd
      <3>3. Chk(1).pc = "chk"
        BY MainStates
      <3> QED
        BY <3>1, <3>2, <3>3, MainValues
    <2>4. ArraySound'
      BY <1>0, <1>4, <2>2, <2>3 DEF ArraySound, Incubate
    <2>5. CASE UNCHANGED <<daemon, write_sequence, pipe>>
      BY <2>2, <2>4, <2>5, LockerFrame DEF LockersSound
    <2>6. CASE main.i \in DOMAIN conns /\ IncubateTake(main.i, l)
      BY <2>1, <2>2, <2>4, <2>6, TransferConnLockers DEF LockersSound, IncubateTake
    <2> QED
      BY <1>4, <2>5, <2>6 DEF Incubate, IncubateSkip, IncubateEnd
  <1>5. CASE ChkSequence
    <2>1. UNCHANGED <<daemon, started, name, lockers, write_pipe, read_pipe, threads, table, pipe,
                      write_sequence, read_sequence, idle_periods>>
      BY <1>5 DEF ChkSequence, chkFrame, lockersVars
    <2>2. main.i \in DOMAIN lockers /\ lockers[main.i] \in Id /\ daemon = "up"
      BY <1>0, <1>5, ElementOfSeq DEF ChkSequence, DaemonTypeOK, Checking
    <2>3. write_sequence[lockers[main.i]] = read_sequence[lockers[main.i]]
            => pipe[lockers[main.i]] = <<>>
      <3>1. pipe[lockers[main.i]] \in Seq(Token) /\ read_sequence[lockers[main.i]] \in Nat
        BY <1>0, <2>2 DEF DaemonTypeOK
      <3>2. write_sequence[lockers[main.i]] = read_sequence[lockers[main.i]] + Len(pipe[lockers[main.i]])
        BY <1>0, <2>2 DEF LockerSound
      <3> QED
        BY <3>1, <3>2, LenProperties, EmptySeq
    <2>4. main'.pc = "chk" \/ (main'.pc = "chkidle" /\ main'.i = main.i /\ pipe[lockers[main.i]] = <<>>)
      <3>a. main \in Main /\ main.pc = "chk"
        BY <1>0, <1>5 DEF ChkSequence, Checking, DaemonTypeOK
      <3>b. main.i \in Nat
        BY <3>a, MainValues
      <3>1. main.i \in Nat /\ main.i + 1 \in Nat
        BY <3>b
      <3>2. Chk(main.i + 1).pc = "chk"
        BY <3>1, MainStates
      <3> QED
        BY <1>5, <2>3, <3>2 DEF ChkSequence
    <2>5. ArraySound'
      BY <1>0, <2>1, <2>2, <2>4 DEF ArraySound
    <2> QED
      BY <2>1, <2>5, LockerFrame DEF LockersSound
  <1>6. CASE ChkIdle
    <2>1. /\ UNCHANGED <<daemon, started, name, lockers, read_pipe, threads, table, pipe,
                         write_sequence, read_sequence, idle_periods>>
          /\ daemon = "up" /\ main.pc = "chkidle"
      BY <1>6 DEF ChkIdle, chkFrame, lockersVars, Checking
    <2> DEFINE l == lockers[main.i]
    <2>2. main.i \in DOMAIN lockers /\ l \in Id /\ pipe[l] = <<>>
      BY <1>0, <2>1, ElementOfSeq DEF ArraySound, DaemonTypeOK
    <2>3. main'.pc = "chk" \/ (main'.pc = "join" /\ main'.i = main.i)
      <3>1. main.i \in Nat /\ main.i + 1 \in Nat
        BY <1>0, <2>1, MainValues DEF DaemonTypeOK
      <3>2. Chk(main.i + 1).pc = "chk"
        BY <3>1, MainStates
      <3> QED
        BY <1>6, <3>2 DEF ChkIdle
    <2>4. \/ write_pipe' = write_pipe
          \/ /\ write_pipe' = [write_pipe EXCEPT ![l] = FALSE]
             /\ idle_periods[l] > FLOM_LOCKER_MAX_IDLE_PERIODS
      BY <1>6 DEF ChkIdle
    <2> HIDE DEF l
    <2>5. ASSUME NEW m \in Id PROVE LockerSound(m)'
      <3>1. CASE write_pipe'[m] = write_pipe[m]
        BY <1>0, <2>1, <3>1 DEF LockerSound
      <3>2. CASE m = l /\ ~write_pipe'[m]
        BY <1>0, <2>1, <2>2, <2>4, <3>2 DEF LockerSound
      <3> QED
        BY <1>0, <2>2, <2>4, <3>1, <3>2 DEF DaemonTypeOK
    <2>6. ArraySound'
      <3>1. \A m \in Id : write_pipe'[m] => write_pipe[m]
        BY <1>0, <2>2, <2>4 DEF DaemonTypeOK
      <3>2. \A j \in DOMAIN lockers : lockers[j] \in Id
        BY <1>0, ElementOfSeq DEF DaemonTypeOK
      <3> QED
        BY <1>0, <2>1, <2>2, <2>3, <3>1, <3>2 DEF ArraySound
    <2> QED
      BY <2>5, <2>6 DEF LockersSound
  <1>7. CASE ChkJoin
    <2>1. /\ UNCHANGED <<daemon, started, name, write_pipe, read_pipe, threads, table, pipe,
                         write_sequence, read_sequence, idle_periods>>
          /\ main' = Poll /\ lockers' = RemoveAt(lockers, main.i)
          /\ main.i \in DOMAIN lockers /\ threads[lockers[main.i]] = "exit"
      BY <1>0, <1>7 DEF ChkJoin, chkFrame, lockersVars, Checking, ArraySound
    <2>2. lockers \in Seq(Id) /\ Len(lockers) \in Nat /\ DOMAIN lockers = 1..Len(lockers)
      BY <1>0, LenProperties DEF DaemonTypeOK
    <2>3. /\ DOMAIN lockers' = 1..(Len(lockers) - 1)
          /\ \A j \in 1..(Len(lockers) - 1) :
               lockers'[j] = IF j < main.i THEN lockers[j] ELSE lockers[j + 1]
      BY <2>1, <2>2, RemoveAtProperties
    <2>4. ASSUME NEW j \in DOMAIN lockers, j # main.i
          PROVE  \E i \in DOMAIN lockers' : lockers'[i] = lockers[j]
      <3>1. CASE j < main.i
        BY <2>1, <2>2, <2>3, <3>1
      <3>2. CASE j > main.i
        <4>1. j - 1 \in DOMAIN lockers' /\ lockers'[j - 1] = lockers[j]
          BY <2>1, <2>2, <2>3, <3>2
        <4> QED
          BY <4>1
      <3> QED
        BY <2>1, <2>2, <2>4, <3>1, <3>2
    <2>5. lockers[main.i] \in Id /\ ~write_pipe[lockers[main.i]]
      BY <1>0, <2>1, <2>2, ElementOfSeq DEF LockerSound
    <2>6. ASSUME NEW m \in Id PROVE LockerSound(m)'
      <3>1. write_pipe[m] => \E i \in DOMAIN lockers' : lockers'[i] = m
        BY <1>0, <2>4, <2>5 DEF LockerSound
      <3> QED
        BY <1>0, <2>1, <3>1 DEF LockerSound
    <2>7. ArraySound'
      <3>1. ASSUME NEW j \in DOMAIN lockers'
            PROVE  \E i \in DOMAIN lockers : lockers'[j] = lockers[i] /\ i = IF j < main.i THEN j ELSE j + 1
        BY <2>1, <2>2, <2>3
      <3>2. \A i, j \in DOMAIN lockers' :
              (IF i < main.i THEN i ELSE i + 1) = (IF j < main.i THEN j ELSE j + 1) => i = j
        BY <2>1, <2>2, <2>3
      <3> QED
        BY <1>0, <2>1, <3>1, <3>2, MainStates DEF ArraySound
    <2> QED
      BY <2>6, <2>7 DEF LockersSound
  <1> QED
    BY <1>1, <1>2, <1>3, <1>4, <1>5, <1>6, <1>7 DEF MainThread, TransferStep

\* The thread of a locker: it counts periods only while it has no client, and starts
\* from zero before it takes one.
LEMMA ThreadLockers ==
  ASSUME DaemonInv, NEW l \in Id, Locker(l) \/ LockerFail(l)
  PROVE  LockersSound'
  <1>0. ArraySound /\ DaemonTypeOK /\ \A m \in Id : LockerSound(m)
    BY DEF DaemonInv, LockersSound
  <1>1. /\ UNCHANGED <<daemon, main, lockers, started, name, write_pipe, write_sequence>>
        /\ daemon = "up" /\ threads[l] # "none"
    BY DEF Locker, LockerTimeout, LockerTick, LockerPollin, LockerImport, LockerDrop, LockerHup,
           LockerFail, LockerCorrupted, LockerEnds, Polls, threadFrame, Running
  <1>2. \A m \in Id \ {l} : /\ threads'[m] = threads[m] /\ read_pipe'[m] = read_pipe[m]
                            /\ table'[m] = table[m] /\ pipe'[m] = pipe[m]
                            /\ read_sequence'[m] = read_sequence[m]
                            /\ idle_periods'[m] = idle_periods[m]
    <2>1. CASE LockerTimeout(l) \/ LockerTick(l) \/ LockerPollin(l)
      BY <1>0, <2>1 DEF DaemonTypeOK, LockerTimeout, LockerTick, LockerPollin
    <2>2. CASE LockerImport(l) \/ LockerHup(l)
      BY <1>0, <2>2 DEF DaemonTypeOK, LockerImport, LockerHup
    <2>3. CASE LockerEnds(l)
      BY <1>0, <2>3 DEF DaemonTypeOK, LockerEnds
    <2>4. CASE \E c \in Client : LockerDrop(l, c)
      BY <1>0, <2>4 DEF DaemonTypeOK, LockerDrop
    <2> QED
      BY <2>1, <2>2, <2>3, <2>4 DEF Locker, LockerFail, LockerCorrupted
  <1>3. ASSUME NEW m \in Id \ {l} PROVE LockerSound(m)'
    BY <1>0, <1>1, <1>2 DEF LockerSound
  <1>4. LockerSound(l) /\ ~(l > started)
    BY <1>0, <1>1 DEF LockerSound
  <1>5. LockerSound(l)' /\ (pipe[l] = <<>> => pipe'[l] = <<>>)
    <2>1. CASE LockerTimeout(l)
      <3>1. threads'[l] = "tick" /\ idle_periods[l] <= FLOM_LOCKER_MAX_IDLE_PERIODS
            /\ UNCHANGED <<read_pipe, read_sequence, idle_periods, table, pipe>>
        BY <1>0, <2>1 DEF LockerTimeout, DaemonTypeOK
      <3>2. ~(idle_periods[l] > FLOM_LOCKER_MAX_IDLE_PERIODS)
        <4>1. idle_periods[l] \in 0..(FLOM_LOCKER_MAX_IDLE_PERIODS + 1)
          BY <1>0 DEF DaemonTypeOK
        <4> QED
          BY <3>1, <4>1 DEF FLOM_LOCKER_MAX_IDLE_PERIODS
      <3> QED
        BY <1>1, <1>4, <3>1, <3>2 DEF LockerSound
    <2>2. CASE LockerTick(l)
      <3>1. /\ threads[l] = "tick" /\ threads'[l] = "poll"
            /\ UNCHANGED <<read_pipe, read_sequence, table, pipe>>
            /\ table[l] = {} \/ idle_periods'[l] = idle_periods[l]
        BY <1>0, <2>2 DEF LockerTick, DaemonTypeOK
      <3> QED
        BY <1>1, <1>4, <3>1 DEF LockerSound
    <2>3. CASE LockerPollin(l)
      <3>1. /\ threads'[l] = "token" /\ pipe[l] # <<>> /\ idle_periods'[l] = 0
            /\ UNCHANGED <<read_pipe, read_sequence, table, pipe>>
        BY <1>0, <2>3 DEF LockerPollin, DaemonTypeOK
      <3>2. ~(idle_periods'[l] > FLOM_LOCKER_MAX_IDLE_PERIODS)
        BY <3>1 DEF FLOM_LOCKER_MAX_IDLE_PERIODS
      <3> QED
        BY <1>1, <1>4, <3>1, <3>2 DEF LockerSound
    <2>4. CASE LockerImport(l)
      <3>1. /\ threads[l] = "token" /\ threads'[l] = "poll" /\ pipe'[l] = Tail(pipe[l])
            /\ read_sequence'[l] = Head(pipe[l]).sequence
            /\ UNCHANGED <<read_pipe, idle_periods>>
        BY <1>0, <2>4 DEF LockerImport, DaemonTypeOK
      <3>2. /\ pipe[l] # <<>> /\ pipe[l] \in Seq(Token) /\ write_pipe[l]
            /\ ~(idle_periods[l] > FLOM_LOCKER_MAX_IDLE_PERIODS)
        BY <1>0, <1>4, <3>1 DEF LockerSound, DaemonTypeOK
      <3>3. /\ Head(pipe[l]) = pipe[l][1] /\ 1 \in DOMAIN pipe[l]
            /\ Len(pipe'[l]) = Len(pipe[l]) - 1
            /\ DOMAIN pipe'[l] = 1..(Len(pipe[l]) - 1)
            /\ \A j \in 1..(Len(pipe[l]) - 1) : pipe'[l][j] = pipe[l][j + 1] /\ j + 1 \in DOMAIN pipe[l]
            /\ Len(pipe[l]) \in Nat
        BY <3>1, <3>2, ReadProperties, LenProperties
      <3>4. /\ read_sequence'[l] = read_sequence[l] + 1 /\ read_sequence[l] \in Nat
            /\ write_sequence[l] = read_sequence[l] + Len(pipe[l])
            /\ \A j \in 1..(Len(pipe[l]) - 1) : pipe'[l][j].sequence = read_sequence[l] + (j + 1)
        <4>1. read_sequence[l] \in Nat
          BY <1>0 DEF DaemonTypeOK
        <4>2. /\ write_sequence[l] = read_sequence[l] + Len(pipe[l])
              /\ \A j \in DOMAIN pipe[l] : pipe[l][j].sequence = read_sequence[l] + j
          BY <1>1, <1>4 DEF LockerSound
        <4> QED
          BY <3>1, <3>3, <4>1, <4>2
      <3>5. write_sequence[l] = read_sequence'[l] + Len(pipe'[l])
        BY <3>3, <3>4
      <3>6. \A j \in DOMAIN pipe'[l] : pipe'[l][j].sequence = read_sequence'[l] + j
        <4> TAKE j \in DOMAIN pipe'[l]
        <4>1. read_sequence[l] + (j + 1) = read_sequence'[l] + j
          BY <3>3, <3>4
        <4> QED
          BY <3>3, <3>4, <4>1
      <3> QED
        BY <1>1, <1>4, <3>1, <3>2, <3>5, <3>6 DEF LockerSound
    <2>5. CASE \E c \in Client : LockerDrop(l, c)
      <3>1. /\ table[l] # {} /\ UNCHANGED <<read_pipe, read_sequence, threads, pipe>>
            /\ idle_periods'[l] \in {idle_periods[l], 0} /\ table'[l] \subseteq table[l]
        BY <1>0, <2>5 DEF LockerDrop, DaemonTypeOK
      <3>2. ~(0 > FLOM_LOCKER_MAX_IDLE_PERIODS)
        BY DEF FLOM_LOCKER_MAX_IDLE_PERIODS
      <3> QED
        BY <1>1, <1>4, <3>1, <3>2 DEF LockerSound
    <2>6. CASE LockerHup(l)
      <3>1. /\ ~write_pipe[l] /\ threads[l] = "poll" /\ threads'[l] \in {"poll", "exit"}
            /\ UNCHANGED <<read_sequence, idle_periods, table, pipe>>
        BY <1>0, <2>6 DEF LockerHup, Polls, DaemonTypeOK
      <3> QED
        BY <1>1, <1>4, <3>1 DEF LockerSound
    <2>7. CASE LockerEnds(l)
      <3>1. /\ threads[l] = "poll" /\ threads'[l] = "failed" /\ table'[l] = {}
            /\ UNCHANGED <<read_pipe, read_sequence, idle_periods, pipe>>
        BY <1>0, <2>7 DEF LockerEnds, DaemonTypeOK
      <3> QED
        BY <1>1, <1>4, <3>1 DEF LockerSound
    <2> QED
      BY <2>1, <2>2, <2>3, <2>4, <2>5, <2>6, <2>7 DEF Locker, LockerFail, LockerCorrupted
  <1>6. ArraySound'
    <2>1. main.pc = "chkidle" => pipe'[lockers[main.i]] = <<>>
      <3> HAVE main.pc = "chkidle"
      <3>1. main.i \in DOMAIN lockers /\ pipe[lockers[main.i]] = <<>>
        BY <1>0, <1>1 DEF ArraySound
      <3>2. lockers \in Seq(Id)
        BY <1>0 DEF DaemonTypeOK
      <3>3. lockers[main.i] \in Id
        BY <3>1, <3>2, ElementOfSeq
      <3> QED
        BY <1>2, <1>5, <3>1, <3>3
    <2> QED
      BY <1>0, <1>1, <2>1 DEF ArraySound
  <1> QED
    BY <1>3, <1>5, <1>6 DEF LockersSound

-------------------------------------------------------------------------------
(***************************************************************************)
(* The connections.                                                        *)
(***************************************************************************)

LEMMA HandedFrame ==
  ASSUME HandedSound, UNCHANGED <<table, pipe>>,
         \A c \in Client : place'[c] = "locker" <=> place[c] = "locker"
  PROVE  HandedSound'
  <1>1. \A c, l : InPipe(c, l)' <=> InPipe(c, l)
    BY DEF InPipe
  <1> QED
    BY <1>1 DEF HandedSound

LEMMA ConnsFrame ==
  ASSUME ConnsSound, UNCHANGED conns,
         \A c \in Client : place'[c] \in InTable <=> place[c] \in InTable
  PROVE  ConnsSound'
  BY DEF ConnsSound

\* A connection leaves the table of the main thread.
LEMMA ConnsRemove ==
  ASSUME DaemonTypeOK, ConnsSound, NEW k \in DOMAIN conns, NEW p \in {"closed", "locker"},
         place' = [place EXCEPT ![conns[k]] = p], conns' = RemoveFast(conns, k)
  PROVE  ConnsSound'
  <1>1. conns \in Seq(Client) /\ place \in [Client -> Place] /\ conns[k] \in Client
    BY ElementOfSeq DEF DaemonTypeOK
  <1>2. /\ \A i, j \in DOMAIN conns' : conns'[i] = conns'[j] => i = j
        /\ \A c : (\E j \in DOMAIN conns' : conns'[j] = c)
                    <=> (c # conns[k] /\ \E j \in DOMAIN conns : conns[j] = c)
    <2>1. \A i, j \in DOMAIN conns : conns[i] = conns[j] => i = j
      BY DEF ConnsSound
    <2>2. /\ \A i, j \in DOMAIN RemoveFast(conns, k) :
               RemoveFast(conns, k)[i] = RemoveFast(conns, k)[j] => i = j
          /\ \A c : (\E j \in DOMAIN RemoveFast(conns, k) : RemoveFast(conns, k)[j] = c)
                      <=> (c # conns[k] /\ \E j \in DOMAIN conns : conns[j] = c)
      BY <1>1, <2>1, RemoveFastOnce, Zenon
    <2> QED
      BY <2>2
  <1>3. \A c \in Client : place'[c] \in InTable <=> (c # conns[k] /\ place[c] \in InTable)
    BY <1>1 DEF InTable
  <1> QED
    BY <1>2, <1>3 DEF ConnsSound

\* A token is in the pipe: the connection is with the locker from now on.
LEMMA TransferConnTables ==
  ASSUME DaemonTypeOK, TablesSound, NEW k \in DOMAIN conns, NEW l \in Id, TransferConn(k, l),
         UNCHANGED table
  PROVE  TablesSound'
  <1>0. ConnsSound /\ HandedSound
    BY DEF TablesSound
  <1>1. CASE threads[l] = "failed"
    BY <1>0, <1>1, HandedFrame, ConnsFrame DEF TransferConn, TablesSound
  <1>2. CASE threads[l] # "failed"
    <2> DEFINE c == conns[k]
               e == [client |-> c, sequence |-> write_sequence'[l]]
    <2>1. /\ place' = [place EXCEPT ![c] = "locker"] /\ conns' = RemoveFast(conns, k)
          /\ pipe' = [pipe EXCEPT ![l] = Append(pipe[l], e)]
      BY <1>2 DEF TransferConn
    <2>2. c \in Client /\ place \in [Client -> Place] /\ pipe \in [Id -> Seq(Token)]
      BY ElementOfSeq DEF DaemonTypeOK
    <2>3. ConnsSound'
      BY <1>0, <2>1, ConnsRemove
    <2>4. e \in Token /\ e.client = c
      <3>1. write_sequence'[l] \in Nat
        BY DEF TransferConn, DaemonTypeOK
      <3> QED
        BY <2>2, <3>1 DEF Token
    <2>5. place[c] \in InTable
      BY <1>0, <2>2 DEF ConnsSound
    <2>6. place[c] # "locker"
      BY <2>5 DEF InTable
    <2> HIDE DEF c, e
    <2>7. Len(pipe[l]) \in Nat /\ DOMAIN pipe[l] = 1..Len(pipe[l])
      BY <2>2, LenProperties
    <2>8. /\ DOMAIN pipe'[l] = 1..(Len(pipe[l]) + 1)
          /\ \A j \in 1..(Len(pipe[l]) + 1) :
               pipe'[l][j] = IF j = Len(pipe[l]) + 1 THEN e ELSE pipe[l][j]
      BY <2>1, <2>2, <2>4, AppendedProperties
    <2>9. ASSUME NEW x, NEW m \in Id
          PROVE  InPipe(x, m)' <=> InPipe(x, m) \/ (x = c /\ m = l)
      <3>1. CASE m # l
        BY <2>1, <2>2, <3>1 DEF InPipe
      <3>2. CASE m = l
        <4>1. InPipe(x, l)' => InPipe(x, l) \/ x = c
          BY <2>4, <2>7, <2>8 DEF InPipe
        <4>2. InPipe(x, l) => InPipe(x, l)'
          BY <2>7, <2>8 DEF InPipe
        <4>3. InPipe(x, l)' <=> \E j \in DOMAIN pipe'[l] : pipe'[l][j].client = x
          BY DEF InPipe
        <4>4. x = c => InPipe(x, l)'
          BY <2>4, <2>7, <2>8, <4>3
        <4> QED
          BY <3>2, <4>1, <4>2, <4>4
      <3> QED
        BY <3>1, <3>2
    <2>10. \A x \in Client : place'[x] = "locker" <=> place[x] = "locker" \/ x = c
      BY <2>1, <2>2
    <2>11. \A m \in Id : c \notin table[m] /\ ~InPipe(c, m)
      BY <1>0, <2>2, <2>6 DEF HandedSound
    <2>12. ASSUME NEW m \in Id, NEW i \in DOMAIN pipe'[m], NEW j \in DOMAIN pipe'[m],
                  pipe'[m][i].client = pipe'[m][j].client
           PROVE  i = j
      <3>1. CASE m # l
        BY <1>0, <2>1, <2>2, <2>12, <3>1 DEF HandedSound
      <3>2. CASE m = l
        <4>1. \A n \in DOMAIN pipe[l] : pipe[l][n].client # c
          BY <2>11 DEF InPipe
        <4>2. \A p, q \in DOMAIN pipe[l] : pipe[l][p].client = pipe[l][q].client => p = q
          BY <1>0 DEF HandedSound
        <4>3. /\ i \in 1..(Len(pipe[l]) + 1) /\ j \in 1..(Len(pipe[l]) + 1)
              /\ pipe'[l][i].client = pipe'[l][j].client
          BY <2>8, <2>12, <3>2
        <4>4. ASSUME NEW k1 \in 1..(Len(pipe[l]) + 1), k1 # Len(pipe[l]) + 1
              PROVE  k1 \in DOMAIN pipe[l] /\ pipe'[l][k1] = pipe[l][k1]
          BY <2>7, <2>8, <4>4
        <4>5. pipe'[l][Len(pipe[l]) + 1].client = c
          BY <2>4, <2>7, <2>8
        <4>6. CASE i = Len(pipe[l]) + 1 \/ j = Len(pipe[l]) + 1
          BY <4>1, <4>3, <4>4, <4>5, <4>6
        <4>7. CASE i # Len(pipe[l]) + 1 /\ j # Len(pipe[l]) + 1
          BY <4>2, <4>3, <4>4, <4>7
        <4> QED
          BY <4>6, <4>7
      <3> QED
        BY <3>1, <3>2
    <2>13. HandedSound'
      BY <1>0, <2>2, <2>9, <2>10, <2>11, <2>12 DEF HandedSound
    <2> QED
      BY <2>3, <2>13 DEF TablesSound
  <1> QED
    BY <1>1, <1>2

LEMMA MainTables ==
  ASSUME DaemonInv, MainThread
  PROVE  TablesSound'
  <1>0. DaemonTypeOK /\ TablesSound /\ ConnsSound /\ HandedSound /\ place \in [Client -> Place] /\ conns \in Seq(Client)
    BY DEF DaemonInv, TablesSound, DaemonTypeOK
  <1>1. ASSUME NEW c \in Client, Accept(c) PROVE TablesSound'
    <2>1. /\ place[c] = "backlog" /\ place' = [place EXCEPT ![c] = "unread"]
          /\ conns' = Append(conns, c) /\ UNCHANGED <<table, pipe>>
      BY <1>1 DEF Accept, lockersVars
    <2>2. HandedSound'
      BY <1>0, <2>1, HandedFrame
    <2>3. Len(conns) \in Nat /\ DOMAIN conns = 1..Len(conns)
      BY <1>0, LenProperties
    <2>4. /\ DOMAIN conns' = 1..(Len(conns) + 1)
          /\ \A j \in 1..(Len(conns) + 1) : conns'[j] = IF j = Len(conns) + 1 THEN c ELSE conns[j]
      BY <1>0, <2>1, AppendedProperties
    <2>5. \A j \in DOMAIN conns : conns[j] # c
      BY <1>0, <2>1 DEF ConnsSound, InTable
    <2>6. \A x \in Client : place'[x] \in InTable <=> x = c \/ place[x] \in InTable
      BY <1>0, <2>1 DEF InTable
    <2>7. \A i, j \in DOMAIN conns' : conns'[i] = conns'[j] => i = j
      BY <1>0, <2>3, <2>4, <2>5 DEF ConnsSound
    <2>8. \A x \in Client : (\E j \in DOMAIN conns' : conns'[j] = x) <=>
                               x = c \/ \E j \in DOMAIN conns : conns[j] = x
      <3> TAKE x \in Client
      <3>1. ASSUME NEW j \in DOMAIN conns' PROVE conns'[j] = c \/ \E i \in DOMAIN conns : conns[i] = conns'[j]
        BY <2>3, <2>4
      <3>2. ASSUME NEW j \in DOMAIN conns PROVE \E i \in DOMAIN conns' : conns'[i] = conns[j]
        BY <2>3, <2>4
      <3>3. \E i \in DOMAIN conns' : conns'[i] = c
        BY <2>3, <2>4
      <3> QED
        BY <3>1, <3>2, <3>3
    <2>9. ConnsSound'
      BY <1>0, <2>6, <2>7, <2>8 DEF ConnsSound
    <2> QED
      BY <2>2, <2>9 DEF TablesSound
  <1>2. ASSUME NEW k \in DOMAIN conns, place' = [place EXCEPT ![conns[k]] = "closed"],
               conns' = RemoveFast(conns, k), UNCHANGED <<table, pipe>>
        PROVE  TablesSound'
    <2>1. conns[k] \in Client
      BY <1>0, ElementOfSeq
    <2>2. place[conns[k]] # "locker"
      BY <1>0, <2>1 DEF ConnsSound, InTable
    <2>3. HandedSound'
      BY <1>0, <1>2, <2>1, <2>2, HandedFrame
    <2> QED
      BY <1>0, <1>2, <2>3, ConnsRemove DEF TablesSound
  <1>3. ASSUME NEW k \in DOMAIN conns, place[conns[k]] = "unread",
               NEW p \in {"incubator", "refused"}, place' = [place EXCEPT ![conns[k]] = p],
               UNCHANGED <<conns, table, pipe>>
        PROVE  TablesSound'
    <2>1. \A c \in Client : place'[c] \in InTable <=> place[c] \in InTable
      BY <1>0, <1>3 DEF InTable
    <2>2. \A c \in Client : place'[c] = "locker" <=> place[c] = "locker"
      BY <1>0, <1>3
    <2> QED
      BY <1>0, <1>3, <2>1, <2>2, ConnsFrame, HandedFrame DEF TablesSound
  <1>4. CASE UNCHANGED <<place, conns, table, pipe>>
    BY <1>0, <1>4, ConnsFrame, HandedFrame DEF TablesSound
  <1>5. ASSUME NEW k \in DOMAIN conns, ConnsClean(k) \/ Drop(k) PROVE TablesSound'
    BY <1>2, <1>4, <1>5 DEF ConnsClean, Drop, lockersVars
  <1>6. ASSUME NEW k \in DOMAIN conns, TransferStep(k) PROVE TablesSound'
    <2>1. CASE TransferFound(k)
      BY <1>0, <2>1, FoundFacts, TransferConnTables DEF TransferFound, lockersVars
    <2>2. CASE TransferCreate(k)
      <3>1. started + 1 \in Id
        BY <1>6, <2>2, CreateFacts DEF TransferStep
      <3> QED
        BY <1>0, <2>2, <3>1, TransferConnTables DEF TransferCreate
    <2>3. CASE TransferRefuse(k)
      <3>1. PICK p \in {"incubator", "refused"} : \E nodes : MainReply(k, p, nodes)
        BY <2>3 DEF TransferRefuse
      <3> QED
        BY <1>3, <1>4, <1>6, <3>1 DEF MainReply, lockersVars, TransferStep
    <2> QED
      BY <1>6, <2>1, <2>2, <2>3 DEF TransferStep
  <1>7. CASE Incubate
    <2>1. CASE UNCHANGED <<place, conns, pipe>>
      BY <1>4, <1>7, <2>1 DEF Incubate, lockersVars
    <2>2. CASE main.i \in DOMAIN conns /\ IncubateTake(main.i, Last(lockers))
      BY <1>0, <1>7, <2>2, LastLocker, TransferConnTables DEF Incubate, IncubateTake, lockersVars
    <2> QED
      BY <1>7, <2>1, <2>2 DEF Incubate, IncubateSkip, IncubateEnd
  <1>8. CASE ScanDone \/ Timeout \/ ChkEnd \/ ChkSequence \/ ChkIdle \/ ChkJoin
    BY <1>4, <1>8 DEF ScanDone, Timeout, ChkEnd, ChkSequence, ChkIdle, ChkJoin, chkFrame, lockersVars
  <1>9. CASE Close
    <2>1. /\ \A c \in Client : place'[c] = IF place[c] = "backlog" THEN "closed" ELSE place[c]
          /\ UNCHANGED <<conns, table, pipe>>
      BY <1>9 DEF Close, lockersVars
    <2>2. \A c \in Client : place'[c] \in InTable <=> place[c] \in InTable
      BY <2>1 DEF InTable
    <2>3. \A c \in Client : place'[c] = "locker" <=> place[c] = "locker"
      BY <2>1
    <2> QED
      BY <1>0, <2>1, <2>2, <2>3, ConnsFrame, HandedFrame DEF TablesSound
  <1> QED
    BY <1>1, <1>5, <1>6, <1>7, <1>8, <1>9 DEF MainThread

LEMMA ThreadTables ==
  ASSUME DaemonInv, NEW l \in Id, Locker(l) \/ LockerFail(l)
  PROVE  TablesSound'
  <1>0. /\ DaemonTypeOK /\ TablesSound /\ ConnsSound /\ HandedSound
        /\ place \in [Client -> Place] /\ table \in [Id -> SUBSET Client] /\ pipe \in [Id -> Seq(Token)]
    BY DEF DaemonInv, TablesSound, DaemonTypeOK
  <1>1. UNCHANGED conns
    BY DEF Locker, LockerTimeout, LockerTick, LockerPollin, LockerImport, LockerDrop, LockerHup,
           LockerFail, LockerCorrupted, LockerEnds, Polls, threadFrame
  <1>2. CASE LockerTimeout(l) \/ LockerTick(l) \/ LockerPollin(l) \/ LockerHup(l)
    <2>1. UNCHANGED <<place, table, pipe>>
      BY <1>2 DEF LockerTimeout, LockerTick, LockerPollin, LockerHup
    <2> QED
      BY <1>0, <1>1, <2>1, ConnsFrame, HandedFrame DEF TablesSound
  <1>3. CASE LockerImport(l)
    <2>1. pipe[l] # <<>>
      BY <1>3 DEF LockerImport, DaemonInv, LockersSound, LockerSound
    <2>2. PICK c \in Client : Head(pipe[l]).client = c
      <3>1. pipe[l] \in Seq(Token)
        BY <1>0
      <3>2. Head(pipe[l]) \in Token
        BY <2>1, <3>1, ReadProperties
      <3> QED
        BY <3>2 DEF Token
    <2>u. \A i, j \in DOMAIN pipe[l] : pipe[l][i].client = pipe[l][j].client => i = j
      BY <1>0 DEF HandedSound
    <2>3. /\ UNCHANGED place
          /\ table' = [table EXCEPT ![l] = table[l] \cup {c}]
          /\ pipe' = [pipe EXCEPT ![l] = Tail(pipe[l])]
      BY <1>3, <2>2 DEF LockerImport
    <2>4. /\ Head(pipe[l]) = pipe[l][1] /\ 1 \in DOMAIN pipe[l] /\ Len(pipe[l]) \in Nat
          /\ DOMAIN pipe[l] = 1..Len(pipe[l])
          /\ DOMAIN pipe'[l] = 1..(Len(pipe[l]) - 1)
          /\ \A j \in 1..(Len(pipe[l]) - 1) : pipe'[l][j] = pipe[l][j + 1] /\ j + 1 \in DOMAIN pipe[l]
      BY <1>0, <2>1, <2>3, ReadProperties, LenProperties
    <2>5. ASSUME NEW x, NEW m \in Id
          PROVE  InPipe(x, m)' <=> InPipe(x, m) /\ ~(x = c /\ m = l)
      <3>1. CASE m # l
        BY <1>0, <2>3, <3>1 DEF InPipe
      <3>2. CASE m = l
        <4>1. InPipe(x, l)' <=> \E j \in DOMAIN pipe'[l] : pipe'[l][j].client = x
          BY DEF InPipe
        <4>2. ASSUME NEW j \in DOMAIN pipe'[l]
              PROVE  pipe'[l][j].client # c /\ InPipe(pipe'[l][j].client, l)
          <5>1. j + 1 # 1 /\ j + 1 \in DOMAIN pipe[l] /\ pipe'[l][j] = pipe[l][j + 1]
            BY <2>4
          <5>2. pipe[l][1].client = c
            BY <2>2, <2>4
          <5>3. pipe[l][j + 1].client # c
            BY <2>u, <2>4, <5>1, <5>2
          <5> QED
            BY <5>1, <5>3 DEF InPipe
        <4>3. ASSUME NEW j \in DOMAIN pipe[l], pipe[l][j].client # c
              PROVE  \E i \in DOMAIN pipe'[l] : pipe'[l][i].client = pipe[l][j].client
          <5>1. j # 1
            BY <2>2, <2>4, <4>3
          <5>2. j - 1 \in DOMAIN pipe'[l] /\ pipe'[l][j - 1] = pipe[l][j]
            BY <2>4, <5>1
          <5> QED
            BY <5>2
        <4> QED
          BY <3>2, <4>1, <4>2, <4>3 DEF InPipe
      <3> QED
        BY <3>1, <3>2
    <2>6. \A m \in Id, x \in Client : x \in table'[m] <=> x \in table[m] \/ (x = c /\ m = l)
      BY <1>0, <2>3
    <2>7. InPipe(c, l)
      BY <2>2, <2>4 DEF InPipe
    <2>8. ASSUME NEW m \in Id, NEW i \in DOMAIN pipe'[m], NEW j \in DOMAIN pipe'[m],
                  pipe'[m][i].client = pipe'[m][j].client
           PROVE  i = j
      <3>1. CASE m # l
        BY <1>0, <2>3, <2>8, <3>1 DEF HandedSound
      <3>2. CASE m = l
        <4>1. i + 1 = j + 1
          <5>1. /\ i + 1 \in DOMAIN pipe[l] /\ pipe'[l][i] = pipe[l][i + 1]
                /\ j + 1 \in DOMAIN pipe[l] /\ pipe'[l][j] = pipe[l][j + 1]
            BY <2>4, <2>8, <3>2
          <5> QED
            BY <2>u, <2>8, <3>2, <5>1
        <4> QED
          BY <2>4, <2>8, <3>2, <4>1
      <3> QED
        BY <3>1, <3>2
    <2>9. HandedSound'
      BY <1>0, <2>3, <2>5, <2>6, <2>7, <2>8 DEF HandedSound
    <2> QED
      BY <1>0, <1>1, <2>3, <2>9, ConnsFrame DEF TablesSound
  <1>4. ASSUME NEW gone \in SUBSET table[l], table' = [table EXCEPT ![l] = table[l] \ gone],
               place' = [x \in Client |-> IF x \in gone THEN "closed" ELSE place[x]], UNCHANGED pipe
        PROVE  TablesSound'
    <2>1. \A x, m : InPipe(x, m)' <=> InPipe(x, m)
      BY <1>4 DEF InPipe
    <2>2. \A m \in Id, x \in Client : x \in table'[m] <=> x \in table[m] /\ x \notin gone
      BY <1>0, <1>4 DEF HandedSound
    <2>3. \A x \in gone : x \in Client /\ place[x] = "locker" /\ \A m \in Id : ~InPipe(x, m)
      BY <1>0 DEF HandedSound
    <2>4. HandedSound'
      BY <1>0, <1>4, <2>1, <2>2, <2>3 DEF HandedSound
    <2>5. \A x \in Client : place'[x] \in InTable <=> place[x] \in InTable
      BY <1>4, <2>3 DEF InTable
    <2> QED
      BY <1>0, <1>1, <2>4, <2>5, ConnsFrame DEF TablesSound
  <1>5. ASSUME NEW c \in Client, LockerDrop(l, c) PROVE TablesSound'
    <2>1. place' = [x \in Client |-> IF x \in {c} THEN "closed" ELSE place[x]]
      BY <1>0, <1>5 DEF LockerDrop
    <2> QED
      BY <1>4, <1>5, <2>1 DEF LockerDrop
  <1>6. CASE LockerEnds(l)
    <2>1. table[l] \ table[l] = {}
      OBVIOUS
    <2> QED
      BY <1>4, <1>6, <2>1 DEF LockerEnds
  <1> QED
    BY <1>2, <1>3, <1>5, <1>6 DEF Locker, LockerFail, LockerCorrupted

-------------------------------------------------------------------------------
(***************************************************************************)
(* The incubator, and the end of the main loop.                            *)
(***************************************************************************)

LEMMA IncubatorFrame ==
  ASSUME DaemonTypeOK, DaemonTypeOK', IncubatorKept, UNCHANGED <<want, name, incubator>>,
         main.pc = "incubate" => UNCHANGED <<main, conns, lockers>>,
         \A m \in Id : write_pipe'[m] /\ read_pipe'[m] => write_pipe[m] /\ read_pipe[m],
         \A j \in DOMAIN lockers' : \E i \in DOMAIN lockers : lockers'[j] = lockers[i],
         \A c \in Client : place'[c] = "incubator" => place[c] = "incubator",
         \A c \in Client : place[c] = "incubator" =>
           place'[c] = "incubator" \/ (place'[c] = "closed" /\ ~alive'[c]),
         \A c \in Client : place[c] = "closed" /\ ~alive[c] => place'[c] = "closed" /\ ~alive'[c]
  PROVE  IncubatorKept'
  <1>1. \A c \in incubator' : place'[c] = "incubator" \/ (place'[c] = "closed" /\ ~alive'[c])
    BY DEF IncubatorKept, DaemonTypeOK
  <1>2. ASSUME NEW c \in Client, place'[c] = "incubator"
        PROVE  /\ c \in incubator'
               /\ \A j \in DOMAIN lockers' :
                    Serves(lockers[j], want[c].name)' =>
                      /\ main'.pc = "incubate" /\ j = Len(lockers')
                      /\ \A k \in DOMAIN conns' : conns'[k] = c => k >= main'.i
    <2>1. place[c] = "incubator" /\ c \in incubator'
      BY <1>2 DEF IncubatorKept
    <2>2. ASSUME NEW j \in DOMAIN lockers', Serves(lockers[j], want[c].name)'
          PROVE  /\ main'.pc = "incubate" /\ j = Len(lockers')
                 /\ \A k \in DOMAIN conns' : conns'[k] = c => k >= main'.i
      <3>1. PICK i \in DOMAIN lockers : lockers'[j] = lockers[i]
        OBVIOUS
      <3>2. lockers[i] \in Id
        BY ElementOfSeq DEF DaemonTypeOK
      <3>3. Serves(lockers[i], want[c].name)
        BY <2>2, <3>1, <3>2 DEF Serves
      <3>4. main.pc = "incubate"
        BY <2>1, <3>3 DEF IncubatorKept
      <3>5. UNCHANGED <<main, conns, lockers>>
        BY <3>4
      <3>6. Serves(lockers[j], want[c].name)
        BY <3>1, <3>3, <3>5
      <3> QED
        BY <2>1, <3>4, <3>5, <3>6 DEF IncubatorKept
    <2> QED
      BY <2>1, <2>2
  <1> QED
    BY <1>1, <1>2 DEF IncubatorKept

LEMMA ThreadIncubator ==
  ASSUME DaemonInv, NEW l \in Id, Locker(l) \/ LockerFail(l)
  PROVE  IncubatorKept'
  <1>0. DaemonTypeOK /\ DaemonTypeOK' /\ HandedSound
    BY ThreadType DEF DaemonInv, TablesSound
  <1>1. /\ UNCHANGED <<want, alive, name, incubator, main, conns, lockers, write_pipe>>
        /\ daemon = "up"
    BY DEF Locker, LockerTimeout, LockerTick, LockerPollin, LockerImport, LockerDrop, LockerHup,
           LockerFail, LockerCorrupted, LockerEnds, Polls, threadFrame, clientVars, Running
  <1>2. IncubatorKept
    BY <1>1 DEF DaemonInv
  <1>3. \A m \in Id : read_pipe'[m] => read_pipe[m]
    BY <1>0 DEF DaemonTypeOK, Locker, LockerTimeout, LockerTick, LockerPollin, LockerImport, LockerDrop,
       LockerHup, LockerFail, LockerCorrupted, LockerEnds, Polls
  <1>4. \A c \in Client : place'[c] = place[c] \/ (place[c] = "locker" /\ place'[c] = "closed")
    <2>1. \A c \in table[l] : place[c] = "locker"
      BY <1>0 DEF HandedSound, DaemonTypeOK
    <2>2. CASE UNCHANGED place
      BY <2>2
    <2>3. CASE LockerEnds(l)
      BY <2>1, <2>3 DEF LockerEnds
    <2>4. CASE \E c \in Client : LockerDrop(l, c)
      BY <1>0, <2>1, <2>4 DEF LockerDrop, DaemonTypeOK
    <2> QED
      BY <2>2, <2>3, <2>4 DEF Locker, LockerTimeout, LockerTick, LockerPollin, LockerImport, LockerHup,
         LockerFail, LockerCorrupted
  <1> QED
    BY <1>0, <1>1, <1>2, <1>3, <1>4, IncubatorFrame

\* The new locker, and the clients that wait for it.
LEMMA CreateIncubator ==
  ASSUME DaemonInv, NEW k \in DOMAIN conns, TransferStep(k), TransferCreate(k)
  PROVE  IncubatorKept'
  <1>0. DaemonTypeOK /\ DaemonTypeOK' /\ daemon = "up" /\ main.pc # "incubate" /\ place[conns[k]] = "unread"
    BY MainType DEF DaemonInv, TransferStep, Reaches, Poll, MainThread
  <1>1. /\ conns[k] \in Client /\ started + 1 \in Id
        /\ place' = [place EXCEPT ![conns[k]] = "locker"]
    BY <1>0, CreateFacts
  <1>2. /\ lockers' = Append(lockers, started + 1) /\ main' = [pc |-> "incubate", i |-> 1]
        /\ name' = [name EXCEPT ![started + 1] = want[conns[k]].name]
        /\ write_pipe' = [write_pipe EXCEPT ![started + 1] = TRUE]
        /\ read_pipe' = [read_pipe EXCEPT ![started + 1] = TRUE]
        /\ UNCHANGED <<want, alive, incubator>>
    BY DEF TransferCreate, clientVars
  <1>3. IncubatorKept
    BY <1>0 DEF DaemonInv
  <1>4. /\ Len(lockers) \in Nat /\ DOMAIN lockers = 1..Len(lockers)
        /\ DOMAIN lockers' = 1..(Len(lockers) + 1) /\ Len(lockers') = Len(lockers) + 1
        /\ \A j \in 1..(Len(lockers) + 1) :
             lockers'[j] = IF j = Len(lockers) + 1 THEN started + 1 ELSE lockers[j]
    <2>1. lockers \in Seq(Id)
      BY <1>0 DEF DaemonTypeOK
    <2> QED
      BY <1>1, <1>2, <2>1, LenProperties, AppendedProperties
  <1>5. \A j \in DOMAIN lockers : lockers[j] \in Id /\ lockers[j] # started + 1
    BY <1>0, Ids, ElementOfSeq DEF DaemonTypeOK, DaemonInv, LockersSound, ArraySound
  <1>6. ASSUME NEW c \in Client, place'[c] = "incubator"
        PROVE  /\ c \in incubator'
               /\ \A j \in DOMAIN lockers' :
                    Serves(lockers[j], want[c].name)' =>
                      /\ main'.pc = "incubate" /\ j = Len(lockers')
                      /\ \A i \in DOMAIN conns' : conns'[i] = c => i >= main'.i
    <2>1. place[c] = "incubator" /\ c \in incubator'
      BY <1>0, <1>1, <1>2, <1>3, <1>6 DEF IncubatorKept, DaemonTypeOK
    <2>2. \A j \in DOMAIN lockers : ~Serves(lockers[j], want[c].name)
      BY <1>0, <1>3, <2>1 DEF IncubatorKept
    <2>3. \A j \in DOMAIN lockers : ~Serves(lockers[j], want[c].name)'
      BY <1>0, <1>2, <1>4, <1>5, <2>2 DEF Serves, DaemonTypeOK
    <2>4. \A i \in DOMAIN conns' : i >= 1
      BY <1>0, LenProperties DEF DaemonTypeOK
    <2> QED
      BY <1>2, <1>4, <2>1, <2>3, <2>4
  <1>7. \A c \in incubator' : place'[c] = "incubator" \/ (place'[c] = "closed" /\ ~alive'[c])
    BY <1>0, <1>1, <1>2, <1>3 DEF IncubatorKept, DaemonTypeOK
  <1> QED
    BY <1>6, <1>7 DEF IncubatorKept

\* A turn of the loop over the incubator.
LEMMA TurnIncubator ==
  ASSUME DaemonInv, Incubate, daemon' = "up"
  PROVE  IncubatorKept'
  <1> DEFINE l == Last(lockers)
  <1>0. /\ DaemonTypeOK /\ DaemonTypeOK' /\ daemon = "up" /\ main.pc = "incubate" /\ main.i \in Nat
        /\ IncubatorKept /\ ConnsSound
    BY MainType, MainValues DEF DaemonInv, TablesSound, Incubate, MainThread, DaemonTypeOK
  <1>1. UNCHANGED <<want, alive, lockers, name, write_pipe, read_pipe>>
    BY DEF Incubate, clientVars, lockersVars
  <1>2. l = lockers[Len(lockers)] /\ l \in Id
    BY <1>0, LastLocker
  <1>s. \A n, m : Serves(m, n)' <=> Serves(m, n)
    BY <1>1 DEF Serves
  <1> HIDE DEF l
  <1>3. CASE main.i \in DOMAIN conns /\ IncubateTake(main.i, l)
    <2>1. threads[l] # "failed"
      BY <1>3 DEF IncubateTake, TransferConn
    <2>2. /\ place' = [place EXCEPT ![conns[main.i]] = "locker"]
          /\ conns' = RemoveFast(conns, main.i)
          /\ incubator' = incubator \ {conns[main.i]}
          /\ UNCHANGED main
      BY <1>3, <2>1 DEF IncubateTake, TransferConn
    <2>3. conns \in Seq(Client) /\ Len(conns) \in Nat /\ DOMAIN conns = 1..Len(conns)
      BY <1>0, LenProperties DEF DaemonTypeOK
    <2>4. /\ DOMAIN conns' = 1..(Len(conns) - 1)
          /\ \A j \in 1..(Len(conns) - 1) :
               conns'[j] = IF j = main.i THEN conns[Len(conns)] ELSE conns[j]
      BY <1>3, <2>2, <2>3, RemoveFastProperties
    <2>5. conns[main.i] \in Client
      BY <1>3, <2>3, ElementOfSeq
    <2>6. \A c \in Client : place'[c] = "incubator" => place[c] = "incubator" /\ c # conns[main.i]
      BY <1>0, <2>2, <2>5 DEF DaemonTypeOK
    <2>7. ASSUME NEW c \in Client, place'[c] = "incubator", NEW j \in DOMAIN lockers,
                 Serves(lockers[j], want[c].name)
          PROVE  j = Len(lockers) /\ \A i \in DOMAIN conns' : conns'[i] = c => i >= main.i
      <3>1. j = Len(lockers) /\ \A i \in DOMAIN conns : conns[i] = c => i >= main.i
        BY <1>0, <2>6, <2>7 DEF IncubatorKept
      <3>2. ASSUME NEW i \in DOMAIN conns', conns'[i] = c PROVE i >= main.i
        BY <1>0, <2>3, <2>4, <3>1, <3>2
      <3> QED
        BY <3>1, <3>2
    <2>8. \A c \in incubator' : place'[c] = "incubator" \/ (place'[c] = "closed" /\ ~alive'[c])
      BY <1>0, <1>1, <2>2, <2>5 DEF IncubatorKept, DaemonTypeOK
    <2>9. \A c \in Client : place'[c] = "incubator" => c \in incubator'
      BY <1>0, <2>2, <2>6 DEF IncubatorKept
    <2> QED
      BY <1>0, <1>1, <1>s, <2>2, <2>7, <2>8, <2>9 DEF IncubatorKept
  <1>4. CASE main.i \in DOMAIN conns /\ IncubateSkip(main.i, l)
    <2>1. /\ UNCHANGED <<place, conns, incubator>>
          /\ main'.pc = "incubate" /\ main'.i = main.i + 1
      BY <1>0, <1>4, MainValues DEF IncubateSkip, DaemonTypeOK
    <2>2. ASSUME NEW c \in Client, place[c] = "incubator", NEW j \in DOMAIN lockers,
                 Serves(lockers[j], want[c].name)
          PROVE  j = Len(lockers) /\ \A i \in DOMAIN conns : conns[i] = c => i >= main.i + 1
      <3>1. j = Len(lockers) /\ \A i \in DOMAIN conns : conns[i] = c => i >= main.i
        BY <1>0, <2>2 DEF IncubatorKept
      <3>2. conns[main.i] # c
        BY <1>2, <1>4, <2>2, <3>1 DEF IncubateSkip, Matches, Serves
      <3>3. \A i \in DOMAIN conns : i \in Nat
        <4>1. conns \in Seq(Client)
          BY <1>0 DEF DaemonTypeOK
        <4>2. Len(conns) \in Nat /\ DOMAIN conns = 1..Len(conns)
          BY <4>1, LenProperties
        <4> QED
          BY <4>2
      <3> QED
        BY <1>0, <3>1, <3>2, <3>3
    <2> QED
      BY <1>0, <1>1, <1>s, <2>1, <2>2 DEF IncubatorKept
  <1>5. CASE IncubateEnd(main.i)
    <2>1. UNCHANGED <<place, conns, incubator>> /\ main.i > Len(conns)
      BY <1>5 DEF IncubateEnd
    <2>2. ASSUME NEW c \in Client, place[c] = "incubator", NEW j \in DOMAIN lockers,
                 Serves(lockers[j], want[c].name)
          PROVE  FALSE
      <3>1. PICK i \in DOMAIN conns : conns[i] = c
        BY <1>0, <2>2 DEF ConnsSound, InTable
      <3>2. i >= main.i
        BY <1>0, <2>2, <3>1 DEF IncubatorKept
      <3>3. Len(conns) \in Nat /\ DOMAIN conns = 1..Len(conns)
        BY <1>0, LenProperties DEF DaemonTypeOK
      <3> QED
        BY <1>0, <2>1, <3>1, <3>2, <3>3
    <2> QED
      BY <1>0, <1>1, <1>s, <2>1, <2>2 DEF IncubatorKept
  <1> QED
    BY <1>3, <1>4, <1>5 DEF Incubate, l

LEMMA MainIncubator ==
  ASSUME DaemonInv, MainThread, daemon' = "up"
  PROVE  IncubatorKept'
  <1>0. DaemonTypeOK /\ DaemonTypeOK' /\ ConnsSound
    BY MainType DEF DaemonInv, TablesSound
  <1>1. CASE Incubate
    BY <1>1, TurnIncubator
  <1>2. ASSUME NEW k \in DOMAIN conns, TransferStep(k), TransferCreate(k) PROVE IncubatorKept'
    BY <1>2, CreateIncubator
  <1>3. CASE Close
    BY <1>3 DEF Close
  <1>4. ASSUME daemon = "up", main.pc # "incubate",
               UNCHANGED <<want, alive, name, incubator, read_pipe>>,
               \A m \in Id : write_pipe'[m] => write_pipe[m],
               \A j \in DOMAIN lockers' : \E i \in DOMAIN lockers : lockers'[j] = lockers[i],
               \/ UNCHANGED place
               \/ \E c \in Client : \E p \in Place \ {"incubator"} :
                    /\ place' = [place EXCEPT ![c] = p]
                    /\ place[c] # "incubator" \/ (p = "closed" /\ ~alive[c])
                    /\ place[c] # "closed"
        PROVE  IncubatorKept'
    <2>1. IncubatorKept
      BY <1>4 DEF DaemonInv
    <2>2. /\ \A c \in Client : place'[c] = "incubator" => place[c] = "incubator"
          /\ \A c \in Client : place[c] = "incubator" =>
               place'[c] = "incubator" \/ (place'[c] = "closed" /\ ~alive'[c])
          /\ \A c \in Client : place[c] = "closed" /\ ~alive[c] => place'[c] = "closed" /\ ~alive'[c]
      BY <1>0, <1>4 DEF DaemonTypeOK
    <2> QED
      BY <1>0, <1>4, <2>1, <2>2, IncubatorFrame
  <1>5. ASSUME NEW c \in Client, Accept(c) PROVE IncubatorKept'
    BY <1>4, <1>5 DEF Accept, Poll, clientVars, lockersVars, Place
  <1>6. ASSUME NEW k \in DOMAIN conns PROVE conns[k] \in Client /\ place[conns[k]] \in InTable
    BY <1>0, ElementOfSeq DEF DaemonTypeOK, ConnsSound
  <1>7. ASSUME NEW k \in DOMAIN conns, ConnsClean(k) \/ Drop(k) PROVE IncubatorKept'
    <2>1. CASE ConnsClean(k)
      <3>1. /\ conns[k] \in Client /\ place[conns[k]] # "closed" /\ ~alive[conns[k]]
            /\ place' = [place EXCEPT ![conns[k]] = "closed"] /\ "closed" \in Place \ {"incubator"}
        BY <1>6, <2>1 DEF ConnsClean, InTable, Place, DaemonInv, ClosedSound
      <3> QED
        BY <1>4, <2>1, <3>1 DEF ConnsClean, Poll, clientVars, lockersVars
    <2>2. CASE Drop(k)
      BY <1>4, <2>2 DEF Drop, Reaches, Poll, clientVars, lockersVars
    <2> QED
      BY <1>7, <2>1, <2>2
  <1>8. ASSUME NEW k \in DOMAIN conns, TransferStep(k), TransferFound(k) PROVE IncubatorKept'
    <2>1. /\ place' = [place EXCEPT ![conns[k]] = "locker"] /\ place[conns[k]] = "unread"
          /\ "locker" \in Place \ {"incubator"}
      BY <1>8 DEF TransferStep, TransferFound, TransferConn, Place
    <2>2. daemon = "up" /\ main.pc # "incubate"
          /\ UNCHANGED <<want, alive, name, incubator, read_pipe, write_pipe, lockers>>
      BY <1>8 DEF TransferStep, TransferFound, Reaches, Poll, clientVars, lockersVars
    <2> QED
      BY <1>4, <1>6, <2>1, <2>2
  <1>9. ASSUME NEW k \in DOMAIN conns, TransferStep(k), TransferRefuse(k) PROVE IncubatorKept'
    <2>0. /\ place[conns[k]] = "unread" /\ daemon = "up" /\ main.pc # "incubate"
          /\ UNCHANGED <<want, alive, lockers, name, write_pipe, read_pipe>>
      BY <1>9 DEF TransferStep, Reaches, Poll, TransferRefuse, MainReply, clientVars, lockersVars
    <2>1. \/ UNCHANGED <<incubator, place>>
          \/ UNCHANGED incubator /\ place' = [place EXCEPT ![conns[k]] = "refused"]
          \/ /\ incubator' = incubator \cup {conns[k]}
             /\ place' = [place EXCEPT ![conns[k]] = "incubator"]
             /\ NotFound(want[conns[k]].name)
      BY <1>9 DEF TransferRefuse, MainReply
    <2>2. CASE UNCHANGED incubator /\ place' = [place EXCEPT ![conns[k]] = "refused"]
      <3>1. "refused" \in Place \ {"incubator"}
        BY DEF Place
      <3> QED
        BY <1>4, <1>6, <2>0, <2>2, <3>1
    <2>4. CASE UNCHANGED <<incubator, place>>
      BY <1>4, <2>0, <2>4
    <2>3. CASE /\ incubator' = incubator \cup {conns[k]}
               /\ place' = [place EXCEPT ![conns[k]] = "incubator"]
               /\ NotFound(want[conns[k]].name)
      <3>1. IncubatorKept
        BY <2>0 DEF DaemonInv
      <3>2. \A c \in Client : place'[c] = "incubator" => place[c] = "incubator" \/ c = conns[k]
        BY <1>0, <2>3 DEF DaemonTypeOK
      <3>3. \A c \in Client : place'[c] = "incubator" =>
              \A j \in DOMAIN lockers : ~Serves(lockers[j], want[c].name)
        BY <2>0, <2>3, <3>1, <3>2 DEF IncubatorKept, NotFound
      <3>4. \A n, m : Serves(m, n)' <=> Serves(m, n)
        BY <2>0 DEF Serves
      <3>5. \A c \in Client : place'[c] = "incubator" => c \in incubator'
        BY <2>3, <3>1, <3>2 DEF IncubatorKept
      <3>6. \A c \in incubator' : place'[c] = "incubator" \/ (place'[c] = "closed" /\ ~alive'[c])
        BY <1>0, <1>6, <2>0, <2>3, <3>1 DEF IncubatorKept, DaemonTypeOK
      <3> QED
        BY <2>0, <3>3, <3>4, <3>5, <3>6 DEF IncubatorKept
    <2> QED
      BY <2>1, <2>2, <2>3, <2>4
  <1>10. CASE ScanDone \/ Timeout \/ ChkEnd \/ ChkSequence
    BY <1>4, <1>10 DEF ScanDone, Timeout, ChkEnd, ChkSequence, Checking, chkFrame, clientVars,
       lockersVars, Poll
  <1>11. CASE ChkIdle
    <2>1. \A m \in Id : write_pipe'[m] => write_pipe[m]
      BY <1>0, <1>11 DEF ChkIdle, DaemonTypeOK
    <2> QED
      BY <1>4, <1>11, <2>1 DEF ChkIdle, Checking, chkFrame, clientVars, lockersVars
  <1>12. CASE ChkJoin
    <2>1. main.i \in DOMAIN lockers /\ lockers \in Seq(Id)
      BY <1>12 DEF ChkJoin, Checking, DaemonInv, LockersSound, ArraySound, DaemonTypeOK
    <2>2. \A j \in DOMAIN lockers' : \E i \in DOMAIN lockers : lockers'[j] = lockers[i]
      <3>1. Len(lockers) \in Nat /\ DOMAIN lockers = 1..Len(lockers)
        BY <2>1, LenProperties
      <3>2. /\ DOMAIN lockers' = 1..(Len(lockers) - 1)
            /\ \A j \in 1..(Len(lockers) - 1) :
                 lockers'[j] = IF j < main.i THEN lockers[j] ELSE lockers[j + 1]
        BY <1>12, <2>1, RemoveAtProperties DEF ChkJoin
      <3> QED
        BY <3>1, <3>2
    <2> QED
      BY <1>4, <1>12, <2>2 DEF ChkJoin, Checking, chkFrame, clientVars, lockersVars
  <1> QED
    BY <1>1, <1>2, <1>3, <1>5, <1>7, <1>8, <1>9, <1>10, <1>11, <1>12 DEF MainThread, TransferStep

\* The connections that were closed.
LEMMA MainClosed ==
  ASSUME DaemonInv, MainThread
  PROVE  ClosedSound'
  <1>0. /\ DaemonTypeOK /\ ClosedSound /\ ConnsSound /\ conns \in Seq(Client)
        /\ place \in [Client -> Place] /\ null_fd \subseteq Client /\ main \in Main
    BY DEF DaemonInv, TablesSound, DaemonTypeOK
  <1>k. ASSUME NEW k \in DOMAIN conns PROVE conns[k] \in Client /\ k \in Nat
    BY <1>0, ElementOfSeq, LenProperties
  <1>r. ASSUME NEW k \in DOMAIN conns, Reaches(k)
        PROVE  /\ conns[k] \notin null_fd
               /\ \A j \in DOMAIN conns : conns[j] \in null_fd => j < k
    <2>1. CASE main = Poll /\ Cleaned
      BY <1>k, <2>1 DEF Cleaned
    <2>2. CASE main.pc = "scan" /\ main.i <= k
      BY <1>0, <1>k, <2>2, MainValues DEF ClosedSound
    <2> QED
      BY <1>r, <2>1, <2>2 DEF Reaches
  <1>1. ASSUME NEW c \in Client, Accept(c) PROVE ClosedSound'
    <2>1. /\ UNCHANGED <<want, alive, null_fd>> /\ place' = [place EXCEPT ![c] = "unread"]
          /\ place[c] = "backlog" /\ Cleaned /\ conns' = Append(conns, c)
      BY <1>1 DEF Accept, clientVars
    <2>2. c \notin null_fd
      BY <1>0, <2>1 DEF ClosedSound, InTable
    <2>3. \A k \in DOMAIN conns' : conns'[k] \notin null_fd
      <3>1. Len(conns) \in Nat /\ DOMAIN conns = 1..Len(conns)
        BY <1>0, LenProperties
      <3>2. /\ DOMAIN conns' = 1..(Len(conns) + 1)
            /\ \A j \in 1..(Len(conns) + 1) : conns'[j] = IF j = Len(conns) + 1 THEN c ELSE conns[j]
        BY <1>0, <2>1, AppendedProperties
      <3> QED
        BY <2>1, <2>2, <3>1, <3>2 DEF Cleaned
    <2> QED
      BY <1>0, <2>1, <2>2, <2>3 DEF ClosedSound, InTable
  <1>2. ASSUME NEW k \in DOMAIN conns, ConnsClean(k) PROVE ClosedSound'
    BY <1>0, <1>2, <1>k DEF ConnsClean, ClosedSound, clientVars, Poll
  <1>3. ASSUME NEW k \in DOMAIN conns, Reaches(k), ~alive[conns[k]],
               null_fd' = null_fd \cup {conns[k]}, main' = Behind(k),
               UNCHANGED <<want, alive, place, conns>>
        PROVE  ClosedSound'
    <2>1. main'.pc = "scan" /\ main'.i = k + 1 /\ k \in Nat
      BY <1>0, <1>3, ReachFacts
    <2>2. \A j \in DOMAIN conns : conns[j] \in null_fd' => j < k + 1
      BY <1>0, <1>3, <1>k, <1>r DEF ConnsSound
    <2>3. place[conns[k]] \in InTable
      BY <1>0, <1>k DEF ConnsSound
    <2> QED
      BY <1>0, <1>3, <2>1, <2>2, <2>3 DEF ClosedSound, InTable
  <1>4. ASSUME NEW k \in DOMAIN conns, Drop(k) PROVE ClosedSound'
    BY <1>3, <1>4 DEF Drop, clientVars
  \* A connection that is not closed, or waits in the incubator, is handed over.
  <1>5. ASSUME NEW k \in DOMAIN conns, NEW l, TransferConn(k, l), main'.pc # "scan",
               UNCHANGED <<want, alive, null_fd>>,
               conns[k] \notin null_fd \/ place[conns[k]] = "incubator"
        PROVE  ClosedSound'
    BY <1>0, <1>5, <1>k DEF TransferConn, ClosedSound
  <1>6. ASSUME NEW k \in DOMAIN conns, TransferStep(k) PROVE ClosedSound'
    <2>1. Reaches(k) /\ place[conns[k]] = "unread" /\ conns[k] \notin null_fd
      BY <1>6, <1>r DEF TransferStep
    <2>2. CASE TransferFound(k)
      BY <1>5, <2>1, <2>2, MainStates DEF TransferFound, clientVars
    <2>3. CASE TransferCreate(k)
      BY <1>5, <2>1, <2>3 DEF TransferCreate, clientVars
    <2>4. CASE TransferRefuse(k)
      <3>1. PICK p \in {"incubator", "refused"} :
              /\ \E nodes : MainReply(k, p, nodes)
              /\ p = "incubator" => want[conns[k]].wait /\ ~want[conns[k]].create
        BY <2>4 DEF TransferRefuse
      <3>2. UNCHANGED <<want, alive, conns>>
        BY <3>1 DEF MainReply, clientVars
      <3>3. CASE place' = [place EXCEPT ![conns[k]] = p] /\ main' = Chk(1) /\ UNCHANGED null_fd
        BY <1>0, <1>k, <2>1, <3>1, <3>2, <3>3, MainStates DEF ClosedSound, InTable
      <3>4. CASE UNCHANGED <<place, null_fd, main>>
        BY <1>0, <3>2, <3>4 DEF ClosedSound
      <3>5. CASE UNCHANGED place /\ ~alive[conns[k]] /\ null_fd' = null_fd \cup {conns[k]}
                 /\ main' = Behind(k)
        BY <1>3, <2>1, <3>2, <3>5
      <3> QED
        BY <3>1, <3>3, <3>4, <3>5 DEF MainReply
    <2> QED
      BY <1>6, <2>2, <2>3, <2>4 DEF TransferStep
  <1>7. CASE Incubate
    <2>0. main.pc = "incubate" /\ UNCHANGED <<want, alive, null_fd>>
      BY <1>7 DEF Incubate, clientVars
    <2>1. CASE main.i \in DOMAIN conns /\ IncubateTake(main.i, Last(lockers))
      BY <1>5, <2>0, <2>1 DEF IncubateTake, Matches
    <2>2. CASE UNCHANGED <<place, conns>> /\ main' \in {Chk(1), [main EXCEPT !.i = @ + 1]}
      <3>1. main'.pc # "scan"
        BY <1>0, <2>0, <2>2, MainStates, MainValues
      <3> QED
        BY <1>0, <2>0, <2>2, <3>1 DEF ClosedSound
    <2> QED
      BY <1>7, <2>1, <2>2 DEF Incubate, IncubateSkip, IncubateEnd
  <1>8. CASE ScanDone \/ Timeout \/ ChkEnd \/ ChkSequence \/ ChkIdle \/ ChkJoin
    <2>1. main'.pc # "scan"
      BY <1>8, MainStates DEF ScanDone, Timeout, ChkEnd, ChkSequence, ChkIdle, ChkJoin, Chk
    <2> QED
      BY <1>0, <1>8, <2>1
      DEF ScanDone, Timeout, ChkEnd, ChkSequence, ChkIdle, ChkJoin, chkFrame, clientVars, ClosedSound
  <1>9. CASE Close
    BY <1>0, <1>9 DEF Close, ClosedSound, InTable, clientVars
  <1> QED
    BY <1>1, <1>2, <1>4, <1>6, <1>7, <1>8, <1>9 DEF MainThread

LEMMA ThreadClosed ==
  ASSUME DaemonInv, NEW l \in Id, Locker(l) \/ LockerFail(l)
  PROVE  ClosedSound'
  <1>0. DaemonTypeOK /\ ClosedSound
    BY DEF DaemonInv
  <1>1. UNCHANGED <<want, alive, conns, null_fd, main>>
    BY DEF Locker, LockerTimeout, LockerTick, LockerPollin, LockerImport, LockerDrop, LockerHup,
           LockerFail, LockerCorrupted, LockerEnds, threadFrame, clientVars
  <1>2. \A c \in Client : place'[c] = place[c] \/ place'[c] = "closed"
    BY <1>0 DEF DaemonTypeOK, Locker, LockerTimeout, LockerTick, LockerPollin, LockerImport, LockerDrop,
           LockerHup, LockerFail, LockerCorrupted, LockerEnds
  <1> QED
    BY <1>0, <1>1, <1>2 DEF ClosedSound, DaemonTypeOK

\* The loop ends when its table is empty and so is the array of lockers: a client of
\* a locker would have kept the locker in it.
LEMMA EndedInv ==
  ASSUME DaemonInv, DaemonNext
  PROVE  EndedNobodyServed'
  <1>0. DaemonTypeOK /\ EndedNobodyServed /\ place \in [Client -> Place]
    BY DEF DaemonInv, DaemonTypeOK
  <1>1. ASSUME NEW c \in Client, Connect(c) \/ Leave(c) PROVE EndedNobodyServed'
    BY <1>0, <1>1 DEF Connect, Leave, mainVars, EndedNobodyServed
  <1>2. CASE Close
    BY <1>0, <1>2 DEF Close, EndedNobodyServed
  <1>3. CASE Timeout
    <2>1. CASE lockers = <<>> /\ conns = <<>>
      <3>1. DOMAIN lockers = {} /\ DOMAIN conns = {}
        BY <2>1
      <3>2. \A l \in Id : table[l] = {} /\ DOMAIN pipe[l] = {}
        <4> TAKE l \in Id
        <4>1. LockerSound(l)
          BY DEF DaemonInv, LockersSound
        <4>2. table[l] = {} /\ pipe[l] = <<>>
          BY <3>1, <4>1 DEF LockerSound
        <4> QED
          BY <4>2
      <3>3. \A c \in Client : place[c] \notin InTable /\ place[c] # "locker"
        BY <3>1, <3>2 DEF DaemonInv, TablesSound, ConnsSound, HandedSound, InPipe
      <3> QED
        BY <1>0, <1>3, <3>3 DEF Timeout, EndedNobodyServed, Place, InTable
    <2>2. CASE ~(lockers = <<>> /\ conns = <<>>)
      BY <1>0, <1>3, <2>2 DEF Timeout, EndedNobodyServed
    <2> QED
      BY <2>1, <2>2
  <1>4. CASE daemon' \notin {"ending", "ended"}
    BY <1>4 DEF EndedNobodyServed
  <1>5. ASSUME MainThread, ~Close, ~Timeout PROVE daemon' \notin {"ending", "ended"}
    <2>1. ASSUME NEW c \in Client, Accept(c) PROVE daemon' \notin {"ending", "ended"}
      BY <2>1 DEF Accept
    <2>2. ASSUME NEW k \in DOMAIN conns, ConnsClean(k) \/ Drop(k)
          PROVE  daemon' \notin {"ending", "ended"}
      BY <2>2 DEF ConnsClean, Drop, Reaches
    <2>3. ASSUME NEW k \in DOMAIN conns, TransferStep(k) PROVE daemon' \notin {"ending", "ended"}
      BY <2>3 DEF TransferStep, Reaches, TransferFound, TransferCreate, TransferRefuse, MainReply, TransferConn
    <2>4. CASE Incubate
      BY <2>4 DEF Incubate, IncubateTake, IncubateSkip, IncubateEnd, TransferConn
    <2>5. CASE ScanDone \/ ChkEnd \/ ChkSequence \/ ChkIdle \/ ChkJoin
      BY <2>5 DEF ScanDone, ChkEnd, ChkSequence, ChkIdle, ChkJoin, Checking, chkFrame
    <2> QED
      BY <1>5, <2>1, <2>2, <2>3, <2>4, <2>5 DEF MainThread
  <1>6. ASSUME NEW l \in Id, Locker(l) \/ LockerFail(l) PROVE daemon' \notin {"ending", "ended"}
    BY <1>6 DEF Locker, LockerTimeout, LockerTick, LockerPollin, LockerImport, LockerDrop,
       LockerHup, LockerFail, LockerCorrupted, LockerEnds, Polls, threadFrame, Running
  <1> QED
    BY <1>1, <1>2, <1>3, <1>4, <1>5, <1>6 DEF DaemonNext

\* A client connects or leaves.
LEMMA ClientInv ==
  ASSUME DaemonInv, NEW c \in Client, Connect(c) \/ Leave(c)
  PROVE  /\ DaemonTypeOK' /\ Counted' /\ LockersSound' /\ TablesSound' /\ ClosedSound'
         /\ daemon = "up" => IncubatorKept'
  <1>0. /\ DaemonTypeOK /\ Counted /\ started \in Nat /\ ArraySound /\ ConnsSound /\ HandedSound
        /\ place \in [Client -> Place] /\ alive \in [Client -> BOOLEAN]
    BY Ids DEF DaemonInv, DaemonTypeOK, LockersSound, TablesSound
  <1>1. /\ UNCHANGED <<want, conns, null_fd, incubator, daemon, main, again, lockers, started, name,
                       write_pipe, write_sequence, lockersVars, pipe>>
        /\ \/ place' = place /\ alive' = [alive EXCEPT ![c] = FALSE]
           \/ /\ place[c] = "none" /\ place' = [place EXCEPT ![c] = "backlog"]
              /\ alive' = [alive EXCEPT ![c] = TRUE]
    BY DEF Connect, Leave, mainVars
  <1>2. \A x \in Client : /\ place'[x] = place[x] \/ (place[x] = "none" /\ place'[x] = "backlog")
                          /\ place[x] # "none" /\ ~alive[x] => ~alive'[x]
    BY <1>0, <1>1
  <1>3. DaemonTypeOK'
    <2>1. place' \in [Client -> Place] /\ alive' \in [Client -> BOOLEAN]
      BY <1>0, <1>1 DEF DaemonTypeOK, Place
    <2> QED
      BY <1>0, <1>1, <2>1 DEF DaemonTypeOK, lockersVars
  <1>4. Counted'
    BY <1>0, <1>1, <1>2, PastGrows DEF Past
  <1>5. LockersSound'
    <2>1. ArraySound'
      BY <1>0, <1>1 DEF ArraySound
    <2> QED
      BY <1>1, <2>1, LockerFrame DEF LockersSound, lockersVars
  <1>6. TablesSound'
    <2>1. \A x \in Client : place'[x] \in InTable <=> place[x] \in InTable
      BY <1>2 DEF InTable
    <2>2. \A x \in Client : place'[x] = "locker" <=> place[x] = "locker"
      BY <1>2
    <2> QED
      BY <1>0, <1>1, <2>1, <2>2, ConnsFrame, HandedFrame DEF TablesSound, lockersVars
  <1>7. ASSUME daemon = "up" PROVE IncubatorKept'
    BY <1>0, <1>1, <1>2, <1>3, <1>7, IncubatorFrame DEF DaemonInv, lockersVars
  <1>8. ClosedSound'
    BY <1>0, <1>1, <1>2 DEF DaemonInv, DaemonTypeOK, ClosedSound, InTable
  <1> QED
    BY <1>3, <1>4, <1>5, <1>6, <1>7, <1>8

LEMMA DaemonInit == DaemonStarts => DaemonInv
  <1> SUFFICES ASSUME DaemonStarts PROVE DaemonInv
    OBVIOUS
  <1>1. DaemonTypeOK
    <2>1. 0 \in 0..(FLOM_LOCKER_MAX_IDLE_PERIODS + 1) /\ 0 \in 0..Cardinality(Client)
      BY Ids DEF FLOM_LOCKER_MAX_IDLE_PERIODS
    <2>2. <<>> \in Seq(Client) /\ <<>> \in Seq(Id) /\ <<>> \in Seq(Token)
      BY EmptySeq
    <2> QED
      BY <2>1, <2>2, MainStates DEF DaemonStarts, DaemonTypeOK, Place
  <1>2. Counted
    <2>1. Past = {}
      BY DEF DaemonStarts, Past
    <2> QED
      BY <2>1, FS_EmptySet DEF DaemonStarts, Counted
  <1>3. LockersSound
    <2>1. ASSUME NEW l \in Id PROVE LockerSound(l)
      <3>1. /\ threads[l] = "none" /\ ~write_pipe[l] /\ table[l] = {} /\ idle_periods[l] = 0
            /\ pipe[l] = <<>> /\ write_sequence[l] = 0 /\ read_sequence[l] = 0
        BY DEF DaemonStarts
      <3>2. Len(pipe[l]) = 0 /\ DOMAIN pipe[l] = {}
        BY <3>1
      <3> QED
        BY <3>1, <3>2 DEF LockerSound
    <2>2. lockers = <<>> /\ main.pc = "poll"
      BY DEF DaemonStarts, Poll
    <2>3. DOMAIN lockers = {}
      BY <2>2
    <2>4. ArraySound
      BY <2>2, <2>3 DEF ArraySound
    <2> QED
      BY <2>1, <2>4 DEF LockersSound
  <1>4. TablesSound
    <2>1. /\ \A c \in Client : place[c] = "none"
          /\ DOMAIN conns = {}
          /\ \A l \in Id : table[l] = {} /\ DOMAIN pipe[l] = {}
      BY DEF DaemonStarts
    <2> QED
      BY <2>1 DEF TablesSound, ConnsSound, HandedSound, InPipe, InTable
  <1>5. IncubatorKept /\ EndedNobodyServed /\ ClosedSound
    BY DEF DaemonStarts, IncubatorKept, EndedNobodyServed, ClosedSound, Poll
  <1> QED
    BY <1>1, <1>2, <1>3, <1>4, <1>5 DEF DaemonInv

LEMMA DaemonStutter == DaemonInv /\ UNCHANGED daemonVars => DaemonInv'
  <1> SUFFICES ASSUME DaemonInv, UNCHANGED daemonVars PROVE DaemonInv'
    OBVIOUS
  <1> USE DEF daemonVars, clientVars, mainVars, lockersVars
  <1>1. DaemonTypeOK' /\ Counted'
    BY DEF DaemonInv, DaemonTypeOK, Counted, Past
  <1>2. LockersSound'
    BY LockerFrame DEF DaemonInv, LockersSound, ArraySound
  <1>3. TablesSound'
    BY ConnsFrame, HandedFrame DEF DaemonInv, TablesSound
  <1>4. (daemon = "up" => IncubatorKept') /\ EndedNobodyServed' /\ ClosedSound'
    BY DEF DaemonInv, IncubatorKept, Serves, EndedNobodyServed, ClosedSound
  <1> QED
    BY <1>1, <1>2, <1>3, <1>4 DEF DaemonInv

LEMMA DaemonInvariant == DaemonSpec => []DaemonInv
  <1>1. DaemonInv /\ [DaemonNext]_daemonVars => DaemonInv'
    <2> SUFFICES ASSUME DaemonInv, DaemonNext PROVE DaemonInv'
      BY DaemonStutter
    <2>1. EndedNobodyServed'
      BY EndedInv
    <2>2. CASE MainThread
      BY <2>1, <2>2, MainType, MainLockers, MainTables, MainIncubator, MainClosed DEF DaemonInv
    <2>3. ASSUME NEW c \in Client, Connect(c) \/ Leave(c) PROVE DaemonInv'
      <3>1. daemon' = daemon
        BY <2>3 DEF Connect, Leave, mainVars
      <3> QED
        BY <2>1, <2>3, <3>1, ClientInv DEF DaemonInv
    <2>4. ASSUME NEW l \in Id, Locker(l) \/ LockerFail(l) PROVE DaemonInv'
      BY <2>1, <2>4, ThreadType, ThreadLockers, ThreadTables, ThreadIncubator, ThreadClosed DEF DaemonInv
    <2> QED
      BY <2>2, <2>3, <2>4 DEF DaemonNext
  <1> QED
    BY <1>1, DaemonInit, PTL DEF DaemonSpec

-------------------------------------------------------------------------------
\* A locker whose pipe flom_accept_loop_chklockers has closed has no client and gets
\* none, although the idle periods and the sequence numbers it looks at are written
\* by another thread meanwhile; and no two lockers that take clients have the same
\* name.
THEOREM DismissalSafe == DaemonSpec => []OneActiveLocker
  <1>1. ASSUME DaemonInv, NEW l \in Id, ~write_pipe[l] PROVE Clients(l) = {}
    <2>1. table[l] = {} /\ pipe[l] = <<>>
      BY <1>1 DEF DaemonInv, LockersSound, LockerSound
    <2> QED
      BY <2>1 DEF Clients
  <1>2. DaemonInv => OneActiveLocker
    BY <1>1 DEF OneActiveLocker, DaemonInv, LockersSound, ArraySound
  <1> QED
    BY <1>2, DaemonInvariant, PTL

\* flom_accept_loop_transfer_conn and flom_locker_loop_pollin lose and duplicate
\* nothing: every connection is in the table of the main thread once, or with one
\* locker, once, as its place says; also the ones the main thread has closed, which stay
\* in its table until flom_conns_clean, and which reach a locker only out of the
\* incubator.
THEOREM ConnectionsKept == DaemonSpec => []ConnectionsAccounted
  <1>1. ASSUME NEW S, NEW x \in S, \A y \in S : y = x PROVE Cardinality(S) = 1
    <2>1. S = {x}
      BY <1>1
    <2> QED
      BY <2>1, FS_Singleton
  <1>2. ASSUME DaemonInv, NEW c \in Client
        PROVE  Cardinality({k \in DOMAIN conns : conns[k] = c}) =
                 (IF place[c] \in InTable THEN 1 ELSE 0)
    <2> DEFINE S == {k \in DOMAIN conns : conns[k] = c}
    <2>1. (place[c] \in InTable <=> S # {}) /\ \A j, k \in S : j = k
      BY <1>2 DEF DaemonInv, TablesSound, ConnsSound
    <2> HIDE DEF S
    <2>2. CASE place[c] \in InTable
      <3>1. PICK x \in S : TRUE
        BY <2>1, <2>2
      <3>2. Cardinality(S) = 1
        BY <1>1, <2>1, <3>1
      <3> QED
        BY <2>2, <3>2 DEF S
    <2>3. CASE place[c] \notin InTable
      <3>1. Cardinality(S) = 0
        BY <2>1, <2>3, FS_EmptySet
      <3> QED
        BY <2>3, <3>1 DEF S
    <2> QED
      BY <2>2, <2>3
  <1>3. ASSUME NEW l, NEW c PROVE c \in Clients(l) <=> c \in table[l] \/ InPipe(c, l)
    BY DEF Clients, InPipe
  <1>4. ASSUME DaemonInv, NEW c \in Client
        PROVE  Cardinality({l \in Id : c \in Clients(l)}) =
                 (IF place[c] = "locker" THEN 1 ELSE 0)
    <2> DEFINE S == {l \in Id : c \in Clients(l)}
    <2>1. (place[c] = "locker" <=> S # {}) /\ \A j, k \in S : j = k
      BY <1>3, <1>4 DEF DaemonInv, TablesSound, HandedSound
    <2> HIDE DEF S
    <2>2. CASE place[c] = "locker"
      <3>1. PICK x \in S : TRUE
        BY <2>1, <2>2
      <3>2. Cardinality(S) = 1
        BY <1>1, <2>1, <3>1
      <3> QED
        BY <2>2, <3>2 DEF S
    <2>3. CASE place[c] # "locker"
      <3>1. Cardinality(S) = 0
        BY <2>1, <2>3, FS_EmptySet
      <3> QED
        BY <2>3, <3>1 DEF S
    <2> QED
      BY <2>2, <2>3
  <1>5. ASSUME DaemonInv, NEW l \in Id
        PROVE  table[l] \cap {pipe[l][k].client : k \in DOMAIN pipe[l]} = {}
    <2>1. table[l] \subseteq Client
      BY <1>5 DEF DaemonInv, DaemonTypeOK
    <2>2. \A c \in table[l] : ~InPipe(c, l)
      BY <1>5, <2>1 DEF DaemonInv, TablesSound, HandedSound
    <2> QED
      BY <2>2 DEF InPipe
  <1>6. DaemonInv => ConnectionsAccounted
    BY <1>2, <1>4, <1>5 DEF ConnectionsAccounted, HandedOverOnce, DaemonInv, ClosedSound
  <1> QED
    BY <1>6, DaemonInvariant, PTL

\* Nobody is left in the incubator when the resource exists: flom_accept_loop_
\* transfer moves the connections while it goes through the table that this changes
\* under it; and the status tree shows who waits.
THEOREM IncubatorEmptied == DaemonSpec => []IncubatorSound
  <1>1. ASSUME DaemonInv, daemon = "up", main.pc # "incubate", NEW c \in Client, place[c] = "incubator"
        PROVE  NotFound(want[c].name) /\ c \in incubator
    BY <1>1 DEF DaemonInv, IncubatorKept, NotFound
  <1>2. ASSUME DaemonInv, daemon = "up", NEW c \in incubator, place[c] # "incubator"
        PROVE  place[c] = "closed" /\ ~alive[c]
    BY <1>2 DEF DaemonInv, IncubatorKept
  <1>3. DaemonInv => incubator \subseteq Client
    BY DEF DaemonInv, DaemonTypeOK
  <1>4. DaemonInv => IncubatorSound
    BY <1>1, <1>2, <1>3 DEF IncubatorSound, IncubatorServed, IncubatorShown
  <1> QED
    BY <1>4, DaemonInvariant, PTL

\* The safety half of EndsWhenIdle: a daemon that ends by itself leaves no client
\* that holds or waits for a lock.
THEOREM NobodyServedAtEnd == DaemonSpec => []EndedNobodyServed
  <1>1. DaemonInv => EndedNobodyServed
    BY DEF DaemonInv
  <1> QED
    BY <1>1, DaemonInvariant, PTL

-------------------------------------------------------------------------------
(***************************************************************************)
(* ResourceNumeric.                                                        *)
(***************************************************************************)

-------------------------------------------------------------------------------
(* Sums of quantities. *)

\* f[k] is what the first k records of s have taken.
Sums(f, s, n) ==
  /\ f \in [0..n -> Nat]
  /\ f[0] = 0
  /\ \A k \in 1..n : f[k] = f[k - 1] + s[k].quantity

\* A set of numbers that is not empty has a least one.
LEMMA LeastElement ==
  ASSUME NEW D, D \subseteq Nat, D # {}
  PROVE  \E x \in D : \A y \in D : x <= y
  <1> DEFINE R == OpToRel(<, Nat)
  <1>1. IsWellFoundedOn(R, Nat)
    BY NatLessThanWellFounded, Zenon
  <1>2. \A x, y \in Nat : x < y => <<x, y>> \in R
    BY DEF OpToRel
  <1> HIDE DEF R
  <1>3. PICK x \in D : \A y \in D : ~(<<y, x>> \in R)
    BY <1>1, WFMin
  <1>4. ASSUME NEW y \in D PROVE x <= y
    <2>1. x \in Nat /\ y \in Nat /\ ~(y < x)
      BY <1>2, <1>3
    <2> QED
      BY <2>1
  <1> QED
    BY <1>4

LEMMA EntryFields ==
  ASSUME NEW s \in Seq(Entry), NEW k \in DOMAIN s
  PROVE  s[k].conn \in Conn /\ s[k].quantity \in Nat
  <1>1. s[k] \in Entry
    BY ElementOfSeq
  <1> QED
    BY <1>1, QuantityAssumption DEF Entry

LEMMA SumsExist ==
  ASSUME NEW s \in Seq(Entry)
  PROVE  \E f : Sums(f, s, Len(s))
  <1> DEFINE D == {n \in 0..Len(s) : ~\E f : Sums(f, s, n)}
  <1>1. Len(s) \in Nat /\ DOMAIN s = 1..Len(s)
    BY LenProperties
  <1>2. SUFFICES ASSUME D # {} PROVE FALSE
    BY <1>1
  <1>3. D \subseteq Nat
    BY <1>1
  <1>4. PICK m \in D : \A y \in D : m <= y
    BY <1>2, <1>3, LeastElement
  <1>5. m \in Nat /\ m <= Len(s) /\ ~\E f : Sums(f, s, m)
    BY <1>1, <1>4
  <1>6. CASE m = 0
    <2>1. PICK f : f = [k \in 0..0 |-> 0]
      OBVIOUS
    <2>2. Sums(f, s, 0)
      BY <2>1 DEF Sums
    <2> QED
      BY <1>5, <1>6, <2>2
  <1>7. CASE m # 0
    <2>1. m - 1 \in 0..Len(s) /\ m - 1 \notin D
      BY <1>1, <1>4, <1>5, <1>7
    <2>2. PICK f : Sums(f, s, m - 1)
      BY <2>1
    <2>3. PICK g : g = [k \in 0..m |-> IF k = m THEN f[m - 1] + s[m].quantity ELSE f[k]]
      OBVIOUS
    <2>4. s[m].quantity \in Nat
      BY <1>1, <1>5, <1>7, EntryFields
    <2>5. f \in [0..(m - 1) -> Nat] /\ f[m - 1] \in Nat
      BY <1>5, <1>7, <2>2 DEF Sums
    <2>6. g \in [0..m -> Nat]
      BY <1>5, <1>7, <2>3, <2>4, <2>5
    <2>7. g[0] = 0
      BY <1>5, <1>7, <2>2, <2>3 DEF Sums
    <2>8. ASSUME NEW k \in 1..m PROVE g[k] = g[k - 1] + s[k].quantity
      <3>1. CASE k = m
        BY <1>5, <1>7, <2>3, <3>1
      <3>2. CASE k # m
        <4>1. k \in 1..(m - 1) /\ k \in 0..m /\ k - 1 \in 0..m /\ k - 1 # m
          BY <1>5, <3>2
        <4>2. f[k] = f[k - 1] + s[k].quantity
          BY <4>1, <2>2 DEF Sums
        <4> QED
          BY <2>3, <3>2, <4>1, <4>2
      <3> QED
        BY <3>1, <3>2
    <2>9. Sums(g, s, m)
      BY <2>6, <2>7, <2>8 DEF Sums
    <2> QED
      BY <1>5, <2>9
  <1> QED
    BY <1>6, <1>7

LEMMA SumProperties ==
  ASSUME NEW s \in Seq(Entry)
  PROVE  \E f : Sums(f, s, Len(s)) /\ Sum(s) = f[Len(s)]
  <1> DEFINE rec(f) == f = [k \in 0..Len(s) |-> IF k = 0 THEN 0 ELSE f[k - 1] + s[k].quantity]
             upTo == CHOOSE f : rec(f)
  <1>1. Len(s) \in Nat
    BY LenProperties
  <1>2. PICK g : Sums(g, s, Len(s))
    BY SumsExist
  <1>3. rec(g)
    BY <1>1, <1>2 DEF Sums
  <1>4. rec(upTo)
    BY <1>3, Zenon
  <1>5. Sum(s) = upTo[Len(s)]
    BY DEF Sum
  <1> HIDE DEF upTo
  <1>6. \A k \in 0..Len(s) : upTo[k] = IF k = 0 THEN 0 ELSE upTo[k - 1] + s[k].quantity
    BY <1>4
  <1>7. ASSUME NEW k \in 0..Len(s) PROVE upTo[k] = g[k]
    <2> DEFINE D == {j \in 0..Len(s) : upTo[j] # g[j]}
    <2>1. SUFFICES ASSUME D # {} PROVE FALSE
      OBVIOUS
    <2>2. D \subseteq Nat
      BY <1>1
    <2>3. PICK m \in D : \A y \in D : m <= y
      BY <2>1, <2>2, LeastElement
    <2>4. m \in 0..Len(s) /\ upTo[m] # g[m]
      BY <2>3
    <2>5. m # 0
      BY <1>1, <1>2, <1>6, <2>4 DEF Sums
    <2>6. m - 1 \in 0..Len(s) /\ m \in 1..Len(s) /\ m - 1 \notin D
      BY <1>1, <2>2, <2>3, <2>4, <2>5
    <2>7. upTo[m - 1] = g[m - 1]
      BY <2>6
    <2>8. g[m] = g[m - 1] + s[m].quantity
      BY <1>2, <2>6 DEF Sums
    <2>9. upTo[m] = upTo[m - 1] + s[m].quantity
      BY <1>6, <2>4, <2>5
    <2> QED
      BY <2>4, <2>7, <2>8, <2>9
  <1> QED
    BY <1>1, <1>2, <1>5, <1>7

LEMMA SumType ==
  ASSUME NEW s \in Seq(Entry)
  PROVE  Sum(s) \in Nat
  BY SumProperties, LenProperties DEF Sums

LEMMA SumEmpty == Sum(<<>>) = 0
  <1>1. <<>> \in Seq(Entry) /\ Len(<<>>) = 0
    OBVIOUS
  <1> QED
    BY <1>1, SumProperties DEF Sums

\* Two counts that start and grow alike end alike.
LEMMA CountsAgree ==
  ASSUME NEW m \in Nat, NEW F, NEW G, \A k \in 0..m : F[k] \in Nat /\ G[k] \in Nat,
         F[0] = G[0], \A k \in 1..m : F[k] - F[k - 1] = G[k] - G[k - 1]
  PROVE  F[m] = G[m]
  <1> DEFINE D == {k \in 0..m : F[k] # G[k]}
  <1>1. SUFFICES ASSUME D # {} PROVE FALSE
    OBVIOUS
  <1>2. D \subseteq Nat
    OBVIOUS
  <1>3. PICK x \in D : \A y \in D : x <= y
    BY <1>1, <1>2, LeastElement
  <1>4. x \in 1..m /\ x - 1 \in 0..m /\ x - 1 \notin D
    BY <1>2, <1>3
  <1>5. F[x - 1] = G[x - 1] /\ F[x] # G[x] /\ F[x] - F[x - 1] = G[x] - G[x - 1]
    BY <1>3, <1>4
  <1>6. F[x] \in Nat /\ G[x] \in Nat /\ F[x - 1] \in Nat /\ G[x - 1] \in Nat
    BY <1>4
  <1> QED
    BY <1>5, <1>6

\* A new holder takes its units.
LEMMA SumPrepended ==
  ASSUME NEW s \in Seq(Entry), NEW e \in Entry
  PROVE  Sum(<<e>> \o s) = e.quantity + Sum(s)
  <1>1. PICK t : t = <<e>> \o s
    OBVIOUS
  <1>2. /\ t \in Seq(Entry) /\ Len(t) = Len(s) + 1
        /\ \A j \in 1..(Len(s) + 1) : t[j] = IF j = 1 THEN e ELSE s[j - 1]
    BY <1>1, PrependProperties
  <1>3. Len(s) \in Nat /\ e.quantity \in Nat
    BY LenProperties, QuantityAssumption DEF Entry
  <1>4. PICK f : Sums(f, s, Len(s)) /\ Sum(s) = f[Len(s)]
    BY SumProperties
  <1>5. PICK g : Sums(g, t, Len(t)) /\ Sum(t) = g[Len(t)]
    BY <1>2, SumProperties
  <1>6. PICK F : F = [k \in 0..Len(s) |-> g[k + 1]]
    OBVIOUS
  <1>7. PICK G : G = [k \in 0..Len(s) |-> e.quantity + f[k]]
    OBVIOUS
  <1>a. /\ \A k \in 0..Len(s) : f[k] \in Nat
        /\ \A k \in 0..(Len(s) + 1) : g[k] \in Nat
    BY <1>2, <1>4, <1>5 DEF Sums
  <1>8. \A k \in 0..Len(s) : F[k] \in Nat /\ G[k] \in Nat
    <2> SUFFICES ASSUME NEW k \in 0..Len(s) PROVE F[k] \in Nat /\ G[k] \in Nat
      OBVIOUS
    <2>1. k + 1 \in 0..(Len(s) + 1)
      BY <1>3
    <2>2. F[k] = g[k + 1] /\ G[k] = e.quantity + f[k]
      BY <1>6, <1>7
    <2>3. g[k + 1] \in Nat /\ f[k] \in Nat
      BY <1>a, <2>1
    <2> QED
      BY <1>3, <2>2, <2>3
  <1>9. F[0] = G[0]
    <2>1. g[1] = g[0] + t[1].quantity /\ g[0] = 0 /\ t[1] = e
      BY <1>2, <1>3, <1>5 DEF Sums
    <2> QED
      BY <1>3, <1>4, <1>6, <1>7, <2>1 DEF Sums
  <1>10. ASSUME NEW k \in 1..Len(s) PROVE F[k] - F[k - 1] = G[k] - G[k - 1]
    <2>1. k \in 0..Len(s) /\ k - 1 \in 0..Len(s) /\ k + 1 \in 1..Len(t) /\ (k + 1) - 1 = k
      BY <1>2, <1>3
    <2>2. t[k + 1] = s[k]
      BY <1>2, <1>3, <2>1
    <2>3. g[k + 1] = g[k] + s[k].quantity
      BY <1>5, <2>1, <2>2 DEF Sums
    <2>4. f[k] = f[k - 1] + s[k].quantity
      BY <1>4, <2>1 DEF Sums
    <2>5. /\ F[k] = g[k + 1] /\ F[k - 1] = g[k]
          /\ G[k] = e.quantity + f[k] /\ G[k - 1] = e.quantity + f[k - 1]
      BY <1>6, <1>7, <2>1
    <2>6. s[k].quantity \in Nat /\ g[k] \in Nat /\ f[k - 1] \in Nat
      <3>1. k \in DOMAIN s /\ k \in 0..(Len(s) + 1)
        BY <1>3, LenProperties
      <3> QED
        BY <1>a, <2>1, <3>1, EntryFields
    <2> QED
      BY <1>3, <2>3, <2>4, <2>5, <2>6
  <1>11. F[Len(s)] = G[Len(s)]
    BY <1>3, <1>8, <1>9, <1>10, CountsAgree
  <1> QED
    BY <1>1, <1>2, <1>3, <1>4, <1>5, <1>6, <1>7, <1>11

\* A record that is taken out gives its units back.
LEMMA SumRemoved ==
  ASSUME NEW s \in Seq(Entry), NEW i \in DOMAIN s
  PROVE  Sum(s) = Sum(RemoveAt(s, i)) + s[i].quantity
  <1>1. PICK t : t = RemoveAt(s, i)
    OBVIOUS
  <1>2. /\ t \in Seq(Entry) /\ Len(t) = Len(s) - 1
        /\ \A j \in 1..(Len(s) - 1) : t[j] = IF j < i THEN s[j] ELSE s[j + 1]
    BY <1>1, RemoveAtProperties
  <1>3. Len(s) \in Nat /\ i \in 1..Len(s) /\ DOMAIN s = 1..Len(s) /\ s[i].quantity \in Nat
    BY LenProperties, EntryFields
  <1>4. PICK f : Sums(f, s, Len(s)) /\ Sum(s) = f[Len(s)]
    BY SumProperties
  <1>5. PICK g : Sums(g, t, Len(t)) /\ Sum(t) = g[Len(t)]
    BY <1>2, SumProperties
  <1>6. PICK F : F = [k \in 0..Len(s) |-> IF k < i THEN g[k] ELSE g[k - 1] + s[i].quantity]
    OBVIOUS
  <1>7. /\ \A k \in 0..Len(s) : f[k] \in Nat
        /\ \A k \in 0..(Len(s) - 1) : g[k] \in Nat
    BY <1>2, <1>3, <1>4, <1>5 DEF Sums
  <1>8. ASSUME NEW k \in 0..Len(s) PROVE F[k] \in Nat /\ f[k] \in Nat
    <2>1. f[k] \in Nat
      BY <1>7
    <2>2. CASE k < i
      <3>1. F[k] = g[k] /\ k \in 0..(Len(s) - 1)
        BY <1>3, <1>6, <2>2
      <3> QED
        BY <1>7, <2>1, <3>1
    <2>3. CASE ~(k < i)
      <3>1. F[k] = g[k - 1] + s[i].quantity /\ k - 1 \in 0..(Len(s) - 1)
        BY <1>3, <1>6, <2>3
      <3>2. g[k - 1] \in Nat
        BY <1>7, <3>1
      <3> QED
        BY <1>3, <2>1, <3>1, <3>2
    <2> QED
      BY <2>2, <2>3
  <1>9. F[0] = f[0]
    BY <1>3, <1>4, <1>5, <1>6 DEF Sums
  <1>10. ASSUME NEW k \in 1..Len(s) PROVE F[k] - F[k - 1] = f[k] - f[k - 1]
    <2>1. k \in 0..Len(s) /\ k - 1 \in 0..Len(s) /\ s[k].quantity \in Nat
      BY <1>3, EntryFields
    <2>2. f[k] = f[k - 1] + s[k].quantity
      BY <1>4, <2>1 DEF Sums
    <2>3. CASE k < i
      <3>1. k \in 1..Len(t) /\ t[k] = s[k] /\ k \in 0..(Len(s) - 1) /\ k - 1 \in 0..(Len(s) - 1)
        BY <1>2, <1>3, <2>3
      <3>2. g[k] = g[k - 1] + s[k].quantity
        BY <1>5, <3>1 DEF Sums
      <3>3. F[k] = g[k] /\ F[k - 1] = g[k - 1]
        BY <1>3, <1>6, <2>1, <2>3
      <3>4. g[k - 1] \in Nat /\ f[k - 1] \in Nat
        BY <1>7, <2>1, <3>1
      <3>5. F[k] - F[k - 1] = s[k].quantity
        BY <2>1, <3>2, <3>3, <3>4
      <3>6. f[k] - f[k - 1] = s[k].quantity
        BY <2>1, <2>2, <3>4
      <3> QED
        BY <3>5, <3>6
    <2>4. CASE k = i
      <3>1. F[k] = g[k - 1] + s[i].quantity /\ F[k - 1] = g[k - 1]
        BY <1>3, <1>6, <2>1, <2>4
      <3>2. k - 1 \in 0..(Len(s) - 1)
        BY <1>3
      <3>3. g[k - 1] \in Nat /\ f[k - 1] \in Nat
        BY <1>7, <2>1, <3>2
      <3>4. F[k] - F[k - 1] = s[k].quantity
        BY <2>1, <2>4, <3>1, <3>3
      <3>5. f[k] - f[k - 1] = s[k].quantity
        BY <2>1, <2>2, <3>3
      <3> QED
        BY <3>4, <3>5
    <2>5. CASE k > i
      <3>1. k - 1 \in 1..Len(t) /\ (k - 1) + 1 = k /\ ~(k - 1 < i) /\ t[k - 1] = s[k]
        BY <1>2, <1>3, <2>5
      <3>2. g[k - 1] = g[(k - 1) - 1] + s[k].quantity
        BY <1>5, <3>1 DEF Sums
      <3>3. F[k] = g[k - 1] + s[i].quantity /\ F[k - 1] = g[(k - 1) - 1] + s[i].quantity
        BY <1>3, <1>6, <2>1, <2>5
      <3>4. k - 1 \in 0..(Len(s) - 1) /\ (k - 1) - 1 \in 0..(Len(s) - 1)
        BY <1>3, <2>5
      <3>5. g[k - 1] \in Nat /\ g[(k - 1) - 1] \in Nat /\ f[k - 1] \in Nat /\ s[i].quantity \in Nat
        BY <1>3, <1>7, <2>1, <3>4
      <3>6. F[k] - F[k - 1] = s[k].quantity
        <4> HIDE <1>3, <1>7, <1>6
        <4>1. PICK a : a = g[(k - 1) - 1]
          OBVIOUS
        <4>2. PICK q : q = s[i].quantity
          OBVIOUS
        <4>3. F[k] = (a + s[k].quantity) + q /\ F[k - 1] = a + q
          BY <3>2, <3>3, <4>1, <4>2
        <4>4. a \in Nat /\ q \in Nat /\ s[k].quantity \in Nat
          BY <2>1, <3>5, <4>1, <4>2
        <4> QED
          BY <4>3, <4>4
      <3>7. f[k] - f[k - 1] = s[k].quantity
        BY <2>1, <2>2, <3>5
      <3> QED
        BY <3>6, <3>7
    <2> QED
      BY <1>3, <2>3, <2>4, <2>5
  <1>11. F[Len(s)] = f[Len(s)]
    BY <1>3, <1>8, <1>9, <1>10, CountsAgree
  <1> QED
    BY <1>1, <1>2, <1>3, <1>4, <1>5, <1>6, <1>11

-------------------------------------------------------------------------------
(* Type correctness. *)

\* inmsg on a LOCK message keeps the types.
LEMMA LockType ==
  ASSUME TypeOK, NEW c \in Conn, Lock(c)
  PROVE  TypeOK'
  <1>1. EntryOf(c) \in Entry
    BY DEF TypeOK, LockerTypeOK, Ask, EntryOf, Entry
  <1>e. EntryOf(c).quantity \in Nat
    BY <1>1, QuantityAssumption DEF Entry
  <1>2. /\ holders' \in Seq(Entry)
        /\ waitings' \in Seq(Entry)
        /\ locked' \in Int
    <2>1. CASE LockGrant(c)
      <3>1. holders' = <<EntryOf(c)>> \o holders /\ waitings' = waitings
            /\ locked' = locked + EntryOf(c).quantity
        BY <2>1 DEF LockGrant, AddHolder
      <3>2. holders' \in Seq(Entry)
        BY <1>1, <3>1, PrependProperties DEF TypeOK
      <3> QED
        BY <1>e, <3>1, <3>2 DEF TypeOK
    <2>2. CASE LockEnqueue(c)
      BY <1>1, <2>2, AppendProperties DEF LockEnqueue, TypeOK
    <2>3. CASE LockRefuse(c)
      BY <2>3 DEF LockRefuse, TypeOK
    <2>4. QED
      BY <2>1, <2>2, <2>3 DEF Lock
  <1>3. vfs' \subseteq VfsNode
    BY DEF Lock, LockGrant, LockEnqueue, LockRefuse, VfsAdd, VfsNode, TypeOK,
           LockerTypeOK
  <1>4. PICK rc \in Answer : Reply(c, rc)
    BY DEF Lock, LockGrant, LockEnqueue, LockRefuse, Answer
  <1>5. LockerTypeOK'
    BY <1>3, <1>4, ReplyType DEF TypeOK
  <1>6. QED
    BY <1>2, <1>5 DEF TypeOK

\* clean keeps the types, whoever calls it.
LEMMA CleanType ==
  ASSUME TypeOK, NEW c \in Conn, NEW path \in CleanPath, Clean(c, path)
  PROVE  TypeOK'
  <1>1. CASE CleanHolder(c, path)
    <2>1. PICK k \in DOMAIN holders :
            /\ holders' = RemoveAt(holders, k)
            /\ locked' = locked - holders[k].quantity
            /\ UNCHANGED waitings
            /\ StartScan(c, path)
      BY <1>1 DEF CleanHolder
    <2>2. LockerTypeOK'
      BY <2>1, StartScanType DEF TypeOK
    <2>3. holders' \in Seq(Entry)
      BY <2>1, RemoveAtProperties DEF TypeOK
    <2>4. locked' \in Int
      <3>1. holders[k].quantity \in Nat
        BY <2>1, EntryFields DEF TypeOK
      <3> QED
        BY <2>1, <3>1 DEF TypeOK
    <2>5. QED
      BY <2>1, <2>2, <2>3, <2>4 DEF TypeOK
  <1>2. CASE CleanWaiter(c, path)
    <2>1. LockerTypeOK'
      BY <1>2, EndCleanType DEF CleanWaiter, TypeOK
    <2>2. waitings' \in Seq(Entry)
      BY <1>2, RemoveAtProperties DEF CleanWaiter, TypeOK
    <2>3. QED
      BY <1>2, <2>1, <2>2 DEF CleanWaiter, TypeOK
  <1>3. QED
    BY <1>1, <1>2 DEF Clean

\* Every turn of the scan keeps the types.
LEMMA WaitingsType ==
  ASSUME TypeOK, Waitings
  PROVE  TypeOK'
  <1>1. LockerTypeOK /\ Scanning
    BY DEF TypeOK, Waitings
  <1>2. CASE WaitingsEnd \/ WaitingsSkip
    <2>1. job.conn \in Conn
      BY <1>1, JobFields DEF Scanning
    <2>2. LockerTypeOK'
      BY <1>1, <1>2, <2>1, ScanType DEF WaitingsEnd, WaitingsSkip
    <2>3. UNCHANGED <<locked, holders, waitings>>
      BY <1>2 DEF WaitingsEnd, WaitingsSkip
    <2>4. QED
      BY <2>2, <2>3 DEF TypeOK
  <1>3. CASE WaitingsPop
    <2>1. waitings[job.i] \in Entry /\ waitings[job.i].conn \in Conn
      <3>1. waitings[job.i] \in Entry
        BY <1>3, ElementOfSeq, LenProperties DEF WaitingsPop, TypeOK
      <3>2. QED
        BY <3>1 DEF Entry
    <2>2. LockerTypeOK'
      BY <1>1, <1>3, <2>1, ScanType DEF WaitingsPop
    <2>3. waitings' \in Seq(Entry)
      BY <1>3, RemoveAtProperties DEF WaitingsPop, TypeOK
    <2>4. holders' \in Seq(Entry)
      <3>1. holders \in Seq(Entry)
        BY DEF TypeOK
      <3>2. <<waitings[job.i]>> \o holders \in Seq(Entry)
        BY <2>1, <3>1, PrependProperties
      <3>3. holders' = <<waitings[job.i]>> \o holders \/ holders' = holders
        BY <1>3 DEF WaitingsPop, AddHolder
      <3>4. QED
        BY <3>1, <3>2, <3>3
    <2>5. locked' \in Int
      <3>1. waitings[job.i].quantity \in Nat
        BY <2>1, QuantityAssumption DEF Entry
      <3>2. locked' = locked + waitings[job.i].quantity \/ locked' = locked
        BY <1>3 DEF WaitingsPop, AddHolder
      <3> QED
        BY <3>1, <3>2 DEF TypeOK
    <2>6. QED
      BY <2>2, <2>3, <2>4, <2>5 DEF TypeOK
  <1>4. QED
    BY <1>2, <1>3 DEF Waitings

\* Every step keeps the types.
LEMMA TypeStep ==
  ASSUME TypeOK, [Next]_vars
  PROVE  TypeOK'
  <1>1. CASE Peers({"UNLOCK"}) /\ UNCHANGED <<locked, holders, waitings>>
    <2>1. LockerTypeOK'
      BY <1>1, PeersType DEF TypeOK, MsgVerb
    <2>2. QED
      BY <1>1, <2>1 DEF TypeOK
  <1>2. ASSUME NEW c \in Conn, Lock(c)
        PROVE  TypeOK'
    BY <1>2, LockType
  <1>3. ASSUME NEW c \in Conn, NEW path \in CleanPath, Clean(c, path)
        PROVE  TypeOK'
    BY <1>3, CleanType
  <1>4. CASE Waitings
    BY <1>4, WaitingsType
  <1>5. CASE UNCHANGED vars
    BY <1>5 DEF vars, lockerVars, TypeOK, LockerTypeOK
  <1>6. QED
    BY <1>1, <1>2, <1>3, <1>4, <1>5 DEF Next

-------------------------------------------------------------------------------
(* No lost wakeup. *)

\* Blocked: ~can_lock, the units out a parameter.  ScanInv, what the scan knows: the
\* entries behind the cursor could not be served, and between two scans nobody can
\* be, unless the last one was aborted.
Blocked(n, quantity) == ~(Total - n >= quantity)

ScanInv ==
  thread = "loop" =>
    /\ Scanning => \A k \in DOMAIN waitings :
                     k < job.i => Blocked(locked, waitings[k].quantity)
    /\ ~Scanning /\ ~aborted => \A k \in DOMAIN waitings :
                                 Blocked(locked, waitings[k].quantity)

\* A new holder never makes a lock possible that was not.
LEMMA CanLockShrinks ==
  ASSUME TypeOK, NEW e \in Entry, AddHolder(e), NEW quantity \in Nat,
         Blocked(locked, quantity)
  PROVE  Blocked(locked', quantity)
  <1>1. e.quantity \in Nat /\ locked \in Int /\ Total \in Nat
    BY QuantityAssumption, TotalAssumption DEF Entry, TypeOK
  <1>2. locked' = locked + e.quantity
    BY DEF AddHolder
  <1> QED
    BY <1>1, <1>2 DEF Blocked

\* The queue without one entry has no entry the queue did not have; those in
\* front of the removed one keep their place.
LEMMA PopKeepsEntries ==
  ASSUME TypeOK, NEW k \in DOMAIN waitings, waitings' = RemoveAt(waitings, k)
  PROVE  /\ \A j \in DOMAIN waitings' : \E i \in DOMAIN waitings :
               waitings'[j] = waitings[i]
         /\ \A j \in DOMAIN waitings' : j < k =>
               j \in DOMAIN waitings /\ waitings'[j] = waitings[j]
  <1>1. Len(waitings) \in Nat /\ DOMAIN waitings = 1..Len(waitings)
    BY LenProperties DEF TypeOK
  <1>2. /\ DOMAIN waitings' = 1..(Len(waitings) - 1)
        /\ \A j \in 1..(Len(waitings) - 1) :
             waitings'[j] = IF j < k THEN waitings[j] ELSE waitings[j + 1]
    BY RemoveAtProperties DEF TypeOK
  <1>3. ASSUME NEW j \in DOMAIN waitings'
        PROVE  j \in DOMAIN waitings /\ j + 1 \in DOMAIN waitings
    BY <1>1, <1>2
  <1>4. QED
    BY <1>2, <1>3

\* inmsg between two scans.
LEMMA LockScanInv ==
  ASSUME TypeOK, ScanInv, NEW c \in Conn, Lock(c)
  PROVE  ScanInv'
  <1>1. thread = "loop" /\ ~Scanning
    BY DEF Lock, CanRead, Polling, Scanning
  <1>2. aborted' = aborted /\ ~Scanning'
    BY <1>1 DEF Lock, LockGrant, LockEnqueue, LockRefuse, Reply, CanRead, Polling, Scanning,
           Idle
  <1>3. SUFFICES ASSUME ~aborted, NEW k \in DOMAIN waitings'
                 PROVE  Blocked(locked', waitings'[k].quantity)
    BY <1>2 DEF ScanInv
  <1>4. \A j \in DOMAIN waitings : Blocked(locked, waitings[j].quantity)
    BY <1>1, <1>3 DEF ScanInv
  <1>5. CASE LockGrant(c)
    <2>1. EntryOf(c) \in Entry
      BY DEF TypeOK, LockerTypeOK, Ask, EntryOf, Entry
    <2>2. waitings' = waitings /\ AddHolder(EntryOf(c))
      BY <1>5 DEF LockGrant
    <2>3. Blocked(locked, waitings[k].quantity)
      BY <1>4, <2>2
    <2>4. waitings[k].quantity \in Nat
      BY <2>2, EntryFields DEF TypeOK
    <2>5. QED
      BY <2>1, <2>2, <2>3, <2>4, CanLockShrinks
  <1>6. CASE LockEnqueue(c)
    <2>1. EntryOf(c) \in Entry /\ EntryOf(c).quantity = ask[c].req
      BY DEF TypeOK, LockerTypeOK, Ask, EntryOf, Entry
    <2>2. /\ Len(waitings) \in Nat
          /\ DOMAIN waitings = 1..Len(waitings)
          /\ DOMAIN waitings' = 1..(Len(waitings) + 1)
          /\ waitings'[Len(waitings) + 1] = EntryOf(c)
          /\ \A j \in 1..Len(waitings) : waitings'[j] = waitings[j]
      BY <1>6, <2>1, AppendProperties, LenProperties DEF LockEnqueue, TypeOK
    <2>3. Blocked(locked, waitings'[k].quantity)
      BY <1>4, <1>6, <2>1, <2>2 DEF LockEnqueue, Blocked, can_lock
    <2>4. QED
      BY <1>6, <2>3 DEF LockEnqueue
  <1>7. CASE LockRefuse(c)
    BY <1>4, <1>7 DEF LockRefuse
  <1>8. QED
    BY <1>5, <1>6, <1>7 DEF Lock

\* clean either starts a scan, with nothing behind the cursor, or shortens the
\* queue without touching the holders.
LEMMA CleanScanInv ==
  ASSUME TypeOK, ScanInv, NEW c \in Conn, NEW path \in CleanPath, Clean(c, path)
  PROVE  ScanInv'
  <1>1. thread = "loop" /\ ~Scanning
    BY DEF Clean, CleanEvent, HungUp, Scanning, CleanPath
  <1>2. CASE CleanHolder(c, path)
    <2>1. thread' = "loop" /\ job' = [path |-> path, conn |-> c, i |-> 1]
      BY <1>1, <1>2 DEF CleanHolder, StartScan
    <2>2. Scanning' /\ job'.i = 1
      BY <2>1 DEF Scanning, Idle, CleanPath
    <2>3. \A k \in DOMAIN waitings' : ~(k < 1)
      BY CleanType, LenProperties DEF TypeOK
    <2>4. QED
      BY <2>2, <2>3 DEF ScanInv
  <1>3. CASE CleanWaiter(c, path)
    <2>1. thread' = "loop" /\ ~Scanning' /\ aborted' = aborted /\ locked' = locked
      BY <1>1, <1>3 DEF CleanWaiter, EndClean, Scanning
    <2>2. ASSUME NEW j \in DOMAIN waitings'
          PROVE  \E i \in DOMAIN waitings : waitings'[j] = waitings[i]
      BY <1>3, PopKeepsEntries DEF CleanWaiter
    <2>3. QED
      BY <1>1, <2>1, <2>2 DEF ScanInv
  <1>4. QED
    BY <1>2, <1>3 DEF Clean

\* A turn of the scan.
LEMMA WaitingsScanInv ==
  ASSUME TypeOK, ScanInv, Waitings
  PROVE  ScanInv'
  <1>1. /\ thread = "loop" /\ Scanning
        /\ \A k \in DOMAIN waitings : k < job.i => Blocked(locked, waitings[k].quantity)
    BY DEF Waitings, Scanning, ScanInv
  <1>2. /\ job \in [path : {"unlock", "error", "second", "reclean", "timeout"},
                    conn : Conn, i : Nat]
        /\ job.i \in Nat
        /\ Len(waitings) \in Nat
        /\ DOMAIN waitings = 1..Len(waitings)
    BY <1>1, JobFields, LenProperties DEF TypeOK, Scanning
  <1>3. CASE WaitingsEnd
    <2>1. ~Scanning' /\ waitings' = waitings /\ locked' = locked
      BY <1>3 DEF WaitingsEnd, ScanEnd, Scanning
    <2>2. \A k \in DOMAIN waitings : Blocked(locked, waitings[k].quantity)
      BY <1>1, <1>2, <1>3 DEF WaitingsEnd
    <2>3. QED
      BY <2>1, <2>2 DEF ScanInv
  <1>4. CASE WaitingsSkip
    <2>1. /\ waitings' = waitings /\ locked' = locked
          /\ thread' = "loop" /\ job' = [job EXCEPT !.i = @ + 1]
      BY <1>1, <1>4 DEF WaitingsSkip, ScanSkip
    <2>2. job'.i = job.i + 1 /\ job'.path = job.path
      BY <1>2, <2>1
    <2>3. Scanning'
      BY <1>1, <1>2, <2>1, <2>2 DEF Scanning, Idle
    <2>4. \A k \in DOMAIN waitings : k < job.i + 1 => Blocked(locked, waitings[k].quantity)
      BY <1>1, <1>2, <1>4 DEF WaitingsSkip, Blocked, can_lock
    <2>5. QED
      BY <2>1, <2>2, <2>3, <2>4 DEF ScanInv
  <1>5. CASE WaitingsPop
    <2>1. /\ job.i \in DOMAIN waitings
          /\ waitings[job.i] \in Entry
          /\ waitings' = RemoveAt(waitings, job.i)
      BY <1>5, ElementOfSeq, LenProperties DEF WaitingsPop, TypeOK
    <2>2. CASE ScanGrant(waitings[job.i].conn) /\ AddHolder(waitings[job.i])
      <3>1. job' = job /\ Scanning'
        BY <1>1, <2>2 DEF ScanGrant, Scanning
      <3>2. ASSUME NEW k \in DOMAIN waitings', k < job.i
            PROVE  Blocked(locked', waitings'[k].quantity)
        <4>1. k \in DOMAIN waitings /\ waitings'[k] = waitings[k]
          BY <2>1, <3>2, PopKeepsEntries
        <4>2. Blocked(locked, waitings[k].quantity)
          BY <1>1, <3>2, <4>1
        <4>3. waitings[k].quantity \in Nat
          BY <4>1, EntryFields DEF TypeOK
        <4>4. QED
          BY <2>1, <2>2, <4>1, <4>2, <4>3, CanLockShrinks
      <3>3. QED
        BY <3>1, <3>2 DEF ScanInv
    <2>3. CASE ScanAbort(waitings[job.i].conn)
      <3>1. aborted' = TRUE /\ (job' = Idle \/ job'.path = "reclean")
        BY <2>3 DEF ScanAbort
      <3>2. ~Scanning'
        BY <3>1 DEF Scanning
      <3>3. QED
        BY <3>1, <3>2 DEF ScanInv
    <2>4. QED
      BY <1>5, <2>2, <2>3 DEF WaitingsPop
  <1>6. QED
    BY <1>3, <1>4, <1>5 DEF Waitings

\* Every step keeps what the scan knows.
LEMMA ScanStep ==
  ASSUME TypeOK, ScanInv, [Next]_vars
  PROVE  ScanInv'
  <1>1. CASE UNCHANGED <<thread, job, aborted, locked, waitings>>
    BY <1>1 DEF ScanInv, Scanning
  <1>2. CASE Peers({"UNLOCK"}) /\ UNCHANGED <<locked, holders, waitings>>
    <2>1. UNCHANGED <<thread, job, aborted>>
      BY <1>2 DEF Peers, Transfer, RetryLock, Unlock, Disconnect, Crash
    <2> QED
      BY <1>1, <1>2, <2>1
  <1> QED
    BY <1>1, <1>2, LockScanInv, CleanScanInv, WaitingsScanInv DEF Next, vars, lockerVars

-------------------------------------------------------------------------------
(* The records of the lists and the answers agree. *)

\* No connection has two records in a list, and the two lists tell the truth about
\* the connections in them.
ListsInv ==
  /\ Honest(Conns(holders), Conns(waitings))
  /\ Distinct(holders)
  /\ Distinct(waitings)

\* inmsg on a LOCK message: nobody who reads it has a record already.
LEMMA LockLists ==
  ASSUME TypeOK, ListsInv, NEW c \in Conn, Lock(c)
  PROVE  ListsInv'
  <1>1. /\ LockerTypeOK /\ CanRead(c, "LOCK")
        /\ holders \in Seq(Entry) /\ waitings \in Seq(Entry)
        /\ Honest(Conns(holders), Conns(waitings))
        /\ Distinct(holders) /\ Distinct(waitings)
    BY DEF TypeOK, ListsInv, Lock
  <1>2. EntryOf(c) \in Entry /\ EntryOf(c).conn = c
    BY <1>1 DEF LockerTypeOK, Ask, EntryOf, Entry
  <1>3. c \notin Conns(holders) /\ c \notin Conns(waitings)
    BY <1>1, HonestNewcomer
  <1>4. CASE LockGrant(c)
    <2>1. /\ holders' = <<EntryOf(c)>> \o holders /\ waitings' = waitings
          /\ Reply(c, "OK") /\ VfsAdd("holders", c)
      BY <1>4 DEF LockGrant, AddHolder
    <2>2. Distinct(holders') /\ Conns(holders') = Conns(holders) \cup {c}
      BY <1>1, <1>2, <1>3, <2>1, PrependedConn
    <2>3. Honest(Conns(holders), Conns(waitings))'
      BY <1>1, <2>1, <2>2, HonestReply DEF Answer
    <2> QED
      BY <1>1, <2>1, <2>2, <2>3 DEF ListsInv
  <1>5. CASE LockEnqueue(c)
    <2>1. /\ waitings' = Append(waitings, EntryOf(c)) /\ holders' = holders
          /\ Reply(c, "LOCK_ENQUEUED") /\ VfsAdd("waitings", c)
      BY <1>5 DEF LockEnqueue
    <2>2. Distinct(waitings') /\ Conns(waitings') = Conns(waitings) \cup {c}
      BY <1>1, <1>2, <1>3, <2>1, AppendedConn
    <2>3. Honest(Conns(holders), Conns(waitings))'
      BY <1>1, <2>1, <2>2, HonestReply DEF Answer
    <2> QED
      BY <1>1, <2>1, <2>2, <2>3 DEF ListsInv
  <1>6. CASE LockRefuse(c)
    <2>1. PICK rc \in {"LOCK_BUSY", "LOCK_IMPOSSIBLE"} :
            Reply(c, rc) /\ UNCHANGED <<holders, waitings, vfs>>
      BY <1>6 DEF LockRefuse
    <2>2. Honest(Conns(holders), Conns(waitings))'
      BY <1>1, <2>1, HonestReply DEF Answer
    <2> QED
      BY <1>1, <2>1, <2>2 DEF ListsInv
  <1> QED
    BY <1>4, <1>5, <1>6 DEF Lock

\* clean leaves its connection without a record in either list.
LEMMA CleanLists ==
  ASSUME TypeOK, ListsInv, NEW c \in Conn, NEW path \in CleanPath, Clean(c, path)
  PROVE  ListsInv'
  <1>1. /\ LockerTypeOK /\ CleanEvent(c, path)
        /\ holders \in Seq(Entry) /\ waitings \in Seq(Entry)
        /\ Honest(Conns(holders), Conns(waitings))
        /\ Distinct(holders) /\ Distinct(waitings)
    BY DEF TypeOK, ListsInv, Clean
  <1>2. CASE CleanHolder(c, path)
    <2>1. PICK k \in DOMAIN holders :
            /\ holders[k].conn = c
            /\ holders' = RemoveAt(holders, k)
            /\ UNCHANGED waitings
            /\ StartScan(c, path)
      BY <1>2 DEF CleanHolder, IsFirstOf
    <2>2. c \in Conns(holders)
      BY <2>1 DEF Conns
    <2>3. Distinct(holders') /\ Conns(holders') = Conns(holders) \ {c}
      BY <1>1, <2>1, RemovedConn
    <2>4. Honest(Conns(holders), Conns(waitings))'
      BY <1>1, <2>1, <2>2, <2>3, HonestRelease
    <2> QED
      BY <1>1, <2>1, <2>3, <2>4 DEF ListsInv
  <1>3. CASE ~HasEntry(holders, c) /\ CleanWaiter(c, path)
    <2>1. UNCHANGED holders /\ EndClean(c, path) /\ c \notin Conns(holders)
      BY <1>3, HasEntryConns DEF CleanWaiter
    <2>2. Distinct(waitings') /\ Conns(waitings') = Conns(waitings) \ {c}
      <3>1. CASE HasEntry(waitings, c)
        <4>1. PICK k \in DOMAIN waitings :
                waitings[k].conn = c /\ waitings' = RemoveAt(waitings, k)
          BY <1>3, <3>1 DEF CleanWaiter, IsFirstOf
        <4> QED
          BY <1>1, <4>1, RemovedConn
      <3>2. CASE ~HasEntry(waitings, c)
        <4>1. waitings' = waitings
          BY <1>3, <3>2 DEF CleanWaiter, IsFirstOf, HasEntry
        <4>2. c \notin Conns(waitings)
          BY <3>2, HasEntryConns
        <4> QED
          BY <1>1, <4>1, <4>2
      <3> QED
        BY <3>1, <3>2
    <2>3. Honest(Conns(holders), Conns(waitings))'
      BY <1>1, <2>1, <2>2, HonestWithdraw
    <2> QED
      BY <1>1, <2>1, <2>2, <2>3 DEF ListsInv
  <1> QED
    BY <1>2, <1>3 DEF Clean

\* Every turn of the scan moves one connection, or none.
LEMMA WaitingsLists ==
  ASSUME TypeOK, ListsInv, NoTimeout, Waitings
  PROVE  ListsInv'
  <1>1. /\ LockerTypeOK /\ Scanning /\ job.path # "timeout"
        /\ holders \in Seq(Entry) /\ waitings \in Seq(Entry)
        /\ Honest(Conns(holders), Conns(waitings))
        /\ Distinct(holders) /\ Distinct(waitings)
    BY DEF TypeOK, ListsInv, Waitings, Scanning, NoTimeout
  <1>2. CASE WaitingsEnd
    <2>1. ScanEnd /\ UNCHANGED <<holders, waitings>>
      BY <1>2 DEF WaitingsEnd
    <2>2. Honest(Conns(holders), Conns(waitings))'
      BY <1>1, <2>1, HonestScanEnd
    <2> QED
      BY <1>1, <2>1, <2>2 DEF ListsInv
  <1>3. CASE WaitingsSkip
    <2>1. ScanSkip /\ UNCHANGED <<holders, waitings>>
      BY <1>3 DEF WaitingsSkip
    <2>2. Honest(Conns(holders), Conns(waitings))'
      BY <1>1, <2>1, HonestScanSkip
    <2> QED
      BY <1>1, <2>1, <2>2 DEF ListsInv
  <1>4. CASE WaitingsPop
    <2> DEFINE e == waitings[job.i]
    <2>1. job.i \in DOMAIN waitings /\ waitings' = RemoveAt(waitings, job.i)
      BY <1>4 DEF WaitingsPop
    <2>2. e \in Entry /\ e.conn \in Conn
      <3>1. e \in Entry
        BY <1>1, <2>1, ElementOfSeq, LenProperties
      <3> QED
        BY <3>1 DEF Entry
    <2>3. e.conn \in Conns(waitings)
      BY <2>1 DEF Conns
    <2>4. Distinct(waitings') /\ Conns(waitings') = Conns(waitings) \ {e.conn}
      BY <1>1, <2>1, RemovedConn
    <2>5. e.conn \notin Conns(holders)
      BY <1>1, <2>2, <2>3 DEF Honest, HonestTo, Scanning
    <2>6. \/ ScanGrant(e.conn) /\ holders' = <<e>> \o holders
          \/ ScanAbort(e.conn) /\ UNCHANGED holders
      BY <1>4 DEF WaitingsPop, AddHolder
    <2> HIDE DEF e
    <2>7. CASE ScanGrant(e.conn) /\ holders' = <<e>> \o holders
      <3>1. Distinct(holders') /\ Conns(holders') = Conns(holders) \cup {e.conn}
        BY <1>1, <2>2, <2>5, <2>7, PrependedConn
      <3>2. Honest(Conns(holders), Conns(waitings))'
        BY <1>1, <2>2, <2>3, <2>4, <2>7, <3>1, HonestScanGrant
      <3> QED
        BY <2>4, <3>1, <3>2 DEF ListsInv
    <2>8. CASE ScanAbort(e.conn) /\ UNCHANGED holders
      <3>1. Honest(Conns(holders), Conns(waitings))'
        BY <1>1, <2>2, <2>3, <2>4, <2>8, HonestScanAbort
      <3> QED
        BY <1>1, <2>4, <2>8, <3>1 DEF ListsInv
    <2> QED
      BY <2>6, <2>7, <2>8
  <1> QED
    BY <1>2, <1>3, <1>4 DEF Waitings

\* No step of a numeric resource starts a scan of the timeout callback.
LEMMA NoTimeoutKept ==
  ASSUME TypeOK, NoTimeout, [Next]_vars
  PROVE  NoTimeout'
  <1>1. LockerTypeOK
    BY DEF TypeOK
  <1>2. ASSUME NEW c \in Conn, Lock(c)
        PROVE  \E rc \in Answer : Reply(c, rc)
    BY <1>2 DEF Lock, LockGrant, LockEnqueue, LockRefuse, Answer
  <1>3. ASSUME NEW c \in Conn, NEW path \in CleanPath, Clean(c, path)
        PROVE  StartScan(c, path) \/ EndClean(c, path)
    BY <1>3 DEF Clean, CleanHolder, CleanWaiter
  <1>4. CASE Waitings
    <2>1. Scanning /\ (ScanEnd \/ ScanSkip \/ \E e : ScanGrant(e) \/ ScanAbort(e))
      BY <1>4 DEF Waitings, WaitingsEnd, WaitingsSkip, WaitingsPop
    <2> QED
      BY <1>1, <2>1, NoTimeoutStep
  <1> QED
    BY <1>1, <1>2, <1>3, <1>4, NoTimeoutStep DEF Next, vars, lockerVars

\* Both lists are empty at the beginning.
LEMMA ListsInit == Init => ListsInv /\ NoTimeout
  <1> SUFFICES ASSUME Init
               PROVE  ListsInv /\ NoTimeout
    OBVIOUS
  <1>1. Conns(holders) = {} /\ Conns(waitings) = {}
    BY DEF Init, Conns
  <1>2. Distinct(holders) /\ Distinct(waitings)
    BY DEF Init, Distinct
  <1>3. Honest({}, {}) /\ NoTimeout
    BY HonestInit DEF Init, LockerInit, NoTimeout
  <1> QED
    BY <1>1, <1>2, <1>3 DEF ListsInv

\* The induction of the theorem below.
LEMMA ListsStep ==
  ASSUME ~Retry, TypeOK, ListsInv, NoTimeout, [Next]_vars
  PROVE  ListsInv'
  <1>1. CASE Peers({"UNLOCK"}) /\ UNCHANGED <<locked, holders, waitings>>
    <2>1. Honest(Conns(holders), Conns(waitings))'
      BY <1>1, HonestPeers DEF TypeOK, ListsInv
    <2> QED
      BY <1>1, <2>1 DEF ListsInv
  <1>2. CASE UNCHANGED vars
    BY <1>2 DEF vars, lockerVars, ListsInv, Honest, HonestTo, ShownAs, BusyWith, Conns,
                Distinct
  <1> QED
    BY <1>1, <1>2, LockLists, CleanLists, WaitingsLists DEF Next


-------------------------------------------------------------------------------
(* The units. *)

\* The counter is the sum of the list, and within the resource's size.
UnitsInv == TypeOK /\ QuantityAccounted /\ NeverOvercommitted

\* A record that can_lock accepts takes its units.
LEMMA AddHolderUnits ==
  ASSUME UnitsInv, NEW e \in Entry, can_lock(e.quantity), AddHolder(e)
  PROVE  QuantityAccounted' /\ NeverOvercommitted'
  <1>1. e.quantity \in Nat /\ locked \in Int /\ Total \in Nat /\ holders \in Seq(Entry)
    BY QuantityAssumption, TotalAssumption DEF Entry, UnitsInv, TypeOK
  <1>2. Sum(holders) \in Nat /\ locked = Sum(holders)
    BY <1>1, SumType DEF UnitsInv, QuantityAccounted
  <1>3. holders' = <<e>> \o holders /\ locked' = locked + e.quantity
    BY DEF AddHolder
  <1>4. Sum(holders') = e.quantity + Sum(holders)
    BY <1>1, <1>3, SumPrepended
  <1>5. Total - locked >= e.quantity
    BY DEF can_lock
  <1>6. locked' = Sum(holders') /\ Sum(holders') <= Total
    BY <1>1, <1>2, <1>3, <1>4, <1>5
  <1> QED
    BY <1>6 DEF QuantityAccounted, NeverOvercommitted

\* A record that is taken out gives back what it had taken.
LEMMA RemoveHolderUnits ==
  ASSUME UnitsInv, NEW k \in DOMAIN holders, holders' = RemoveAt(holders, k),
         locked' = locked - holders[k].quantity
  PROVE  QuantityAccounted' /\ NeverOvercommitted'
  <1>1. Total \in Nat /\ holders \in Seq(Entry) /\ Sum(holders) <= Total
    BY TotalAssumption DEF UnitsInv, TypeOK, NeverOvercommitted
  <1>2. Sum(holders) \in Nat /\ locked = Sum(holders)
    BY <1>1, SumType DEF UnitsInv, QuantityAccounted
  <1>3. Sum(holders) = Sum(holders') + holders[k].quantity
    BY <1>1, SumRemoved
  <1>4. holders[k].quantity \in Nat
    BY <1>1, EntryFields
  <1>5. Sum(holders') \in Nat
    <2>1. holders' \in Seq(Entry)
      BY <1>1, RemoveAtProperties
    <2> QED
      BY <2>1, SumType
  <1>6. locked' = Sum(holders') /\ Sum(holders') <= Total
    BY <1>1, <1>2, <1>3, <1>4, <1>5
  <1> QED
    BY <1>6 DEF QuantityAccounted, NeverOvercommitted

\* Nobody is in the queue for more than there is.
LEMMA WaitersStep ==
  ASSUME TypeOK, WaitersCanBeServed, [Next]_vars
  PROVE  WaitersCanBeServed'
  <1>1. waitings \in Seq(Entry)
    BY DEF TypeOK
  <1>2. CASE UNCHANGED waitings
    BY <1>2 DEF WaitersCanBeServed
  <1>3. ASSUME NEW k \in DOMAIN waitings, waitings' = RemoveAt(waitings, k)
        PROVE  WaitersCanBeServed'
    BY <1>3, PopKeepsEntries DEF WaitersCanBeServed
  <1>4. ASSUME NEW c \in Conn, Lock(c)
        PROVE  WaitersCanBeServed'
    <2>1. CASE LockEnqueue(c)
      <3>1. EntryOf(c) \in Entry /\ EntryOf(c).quantity <= Total
        BY <2>1 DEF LockEnqueue, CanWait, TypeOK, LockerTypeOK, Ask, EntryOf, Entry
      <3>2. waitings' = Append(waitings, EntryOf(c))
        BY <2>1 DEF LockEnqueue
      <3>3. \A j \in DOMAIN waitings' :
              waitings'[j] = EntryOf(c) \/ \E i \in DOMAIN waitings : waitings'[j] = waitings[i]
        BY <1>1, <3>1, <3>2, RecordsFrom
      <3> QED
        BY <3>1, <3>3 DEF WaitersCanBeServed
    <2> QED
      BY <1>2, <1>4, <2>1 DEF Lock, LockGrant, LockRefuse
  <1>5. ASSUME NEW c \in Conn, NEW path \in CleanPath, Clean(c, path)
        PROVE  WaitersCanBeServed'
    BY <1>2, <1>3, <1>5 DEF Clean, CleanHolder, CleanWaiter
  <1>6. CASE Waitings
    BY <1>2, <1>3, <1>6 DEF Waitings, WaitingsEnd, WaitingsSkip, WaitingsPop
  <1> QED
    BY <1>2, <1>4, <1>5, <1>6 DEF Next, vars

LEMMA UnitsStep ==
  ASSUME UnitsInv, [Next]_vars
  PROVE  UnitsInv'
  <1>t. TypeOK /\ TypeOK'
    BY TypeStep DEF UnitsInv
  <1> SUFFICES QuantityAccounted' /\ NeverOvercommitted'
    BY <1>t DEF UnitsInv
  <1>1. CASE UNCHANGED <<locked, holders>>
    BY <1>1 DEF UnitsInv, QuantityAccounted, NeverOvercommitted
  <1>2. ASSUME NEW c \in Conn, Lock(c)
        PROVE  QuantityAccounted' /\ NeverOvercommitted'
    <2>1. CASE LockGrant(c)
      <3>1. EntryOf(c) \in Entry /\ EntryOf(c).quantity = ask[c].req
        BY <1>t DEF TypeOK, LockerTypeOK, Ask, EntryOf, Entry
      <3>2. can_lock(EntryOf(c).quantity) /\ AddHolder(EntryOf(c))
        BY <2>1, <3>1 DEF LockGrant
      <3> QED
        BY <3>1, <3>2, AddHolderUnits
    <2> QED
      BY <1>1, <1>2, <2>1 DEF Lock, LockEnqueue, LockRefuse
  <1>3. ASSUME NEW c \in Conn, NEW path \in CleanPath, Clean(c, path)
        PROVE  QuantityAccounted' /\ NeverOvercommitted'
    <2>1. CASE CleanHolder(c, path)
      <3>1. PICK k \in DOMAIN holders :
              holders' = RemoveAt(holders, k) /\ locked' = locked - holders[k].quantity
        BY <2>1 DEF CleanHolder
      <3> QED
        BY <3>1, RemoveHolderUnits
    <2> QED
      BY <1>1, <1>3, <2>1 DEF Clean, CleanWaiter
  <1>4. CASE Waitings
    <2>1. CASE WaitingsPop
      <3>1. waitings[job.i] \in Entry
        BY <1>t, <2>1, ElementOfSeq, LenProperties DEF WaitingsPop, TypeOK
      <3>2. \/ AddHolder(waitings[job.i]) /\ can_lock(waitings[job.i].quantity)
            \/ UNCHANGED <<locked, holders>>
        BY <2>1 DEF WaitingsPop
      <3> QED
        BY <1>1, <3>1, <3>2, AddHolderUnits
    <2> QED
      BY <1>1, <1>4, <2>1 DEF Waitings, WaitingsEnd, WaitingsSkip
  <1> QED
    BY <1>1, <1>2, <1>3, <1>4 DEF Next, vars

\* locked_quantity, which flom_resource_numeric_inmsg, _clean and _waitings update
\* apart from the list, is what the holders have taken together and never more than
\* the resource has, whatever is asked for, whoever dies, and however often a program
\* locks again on one connection.
THEOREM UnitsKept == Spec => [](QuantityAccounted /\ NeverOvercommitted)
  <1>1. Init => UnitsInv
    <2> SUFFICES ASSUME Init PROVE UnitsInv
      OBVIOUS
    <2>1. TypeOK
      BY LockerInitType, EmptySeq DEF Init, TypeOK
    <2>2. Sum(holders) = 0 /\ locked = 0
      BY SumEmpty DEF Init
    <2> QED
      BY <2>1, <2>2, TotalAssumption DEF UnitsInv, QuantityAccounted, NeverOvercommitted
  <1>2. UnitsInv /\ [Next]_vars => UnitsInv'
    BY UnitsStep
  <1>3. UnitsInv => QuantityAccounted /\ NeverOvercommitted
    BY DEF UnitsInv
  <1> QED
    BY <1>1, <1>2, <1>3, PTL DEF Spec

LEMMA TypeCorrect == Spec => []TypeOK
  <1>1. Init => TypeOK
    BY LockerInitType, EmptySeq DEF Init, TypeOK
  <1>2. TypeOK /\ [Next]_vars => TypeOK'
    BY TypeStep
  <1> QED
    BY <1>1, <1>2, PTL DEF Spec

\* While no program locks a handle again whose last call timed out, every live client
\* of a numeric resource was told what the lists have of it, and the units of the
\* lists are accounted for: Accounted, for any quantities and any total.
THEOREM UnitsAccounted ==
  ASSUME ~Retry
  PROVE  Spec => []Accounted
  <1>1. Init => ListsInv /\ NoTimeout
    BY ListsInit
  <1>2. TypeOK /\ ListsInv /\ NoTimeout /\ [Next]_vars => (ListsInv /\ NoTimeout)'
    BY ListsStep, NoTimeoutKept
  <1>3. ListsInv => AnswersHonoured
    BY HasEntryConns DEF ListsInv, Honest, HonestTo, AnswersHonoured
  <1>4. TypeOK /\ QuantityAccounted /\ NeverOvercommitted /\ ListsInv => Accounted
    BY <1>3 DEF Accounted
  <1> QED
    BY <1>1, <1>2, <1>4, TypeCorrect, UnitsKept, PTL DEF Spec

\* Nobody is enqueued for more units than the resource has, and when the thread is
\* back in poll() after scans that ran to their end no queued request fits in what is
\* left: flom_resource_numeric_waitings passes over a large request and forgets no
\* small one behind it.
THEOREM NobodyIsStranded == Spec => []NobodyStranded
  <1>1. Init => ScanInv /\ WaitersCanBeServed
    BY DEF Init, LockerInit, ScanInv, Scanning, WaitersCanBeServed
  <1>2. TypeOK /\ ScanInv /\ WaitersCanBeServed /\ [Next]_vars
          => (ScanInv /\ WaitersCanBeServed)'
    BY ScanStep, WaitersStep
  <1>3. ScanInv /\ WaitersCanBeServed => NobodyStranded
    BY DEF ScanInv, NobodyStranded, NoLostWakeup, Polling, Scanning, Blocked, can_lock
  <1> QED
    BY <1>1, <1>2, <1>3, TypeCorrect, PTL DEF Spec
===============================================================================
