------------------------ MODULE ResourceSequenceProofs ------------------------
(***************************************************************************)
(* Proofs about ResourceSequence, for any set of connections, any number of *)
(* locks and any width of the counter.                                     *)
(***************************************************************************)
EXTENDS ResourceSequence, LockerProofs, FiniteSetTheorems

-------------------------------------------------------------------------------
(* Lists of records with a field value, and lists of values. *)

\* The values in a list of records, and in a list of values.
Values(s) == {s[k].value : k \in DOMAIN s}
Elements(s) == {s[k] : k \in DOMAIN s}

\* No value is twice in the list.
Apart(s) == \A j, k \in DOMAIN s : s[j].value = s[k].value => j = k
Single(s) == \A j, k \in DOMAIN s : s[j] = s[k] => j = k

\* A record put in front brings its value.
LEMMA PrependedValue ==
  ASSUME NEW S, NEW s \in Seq(S), NEW e \in S
  PROVE  /\ Values(<<e>> \o s) = Values(s) \cup {e.value}
         /\ Apart(s) /\ e.value \notin Values(s) => Apart(<<e>> \o s)
  <1> DEFINE new == <<e>> \o s
  <1>1. Len(s) \in Nat /\ DOMAIN s = 1..Len(s)
    BY LenProperties
  <1>2. /\ DOMAIN new = 1..(Len(s) + 1)
        /\ \A j \in 1..(Len(s) + 1) : new[j] = IF j = 1 THEN e ELSE s[j - 1]
    BY PrependProperties
  <1> HIDE DEF new
  <1>3. \A j \in DOMAIN new : j = 1 \/ (j - 1 \in DOMAIN s /\ new[j] = s[j - 1])
    BY <1>1, <1>2
  <1>4. \A j \in DOMAIN s : j + 1 \in DOMAIN new /\ new[j + 1] = s[j]
    BY <1>1, <1>2
  <1>5. 1 \in DOMAIN new /\ new[1] = e
    BY <1>1, <1>2
  <1>6. Values(new) \subseteq Values(s) \cup {e.value}
    BY <1>3, <1>5 DEF Values
  <1>7. Values(s) \cup {e.value} \subseteq Values(new)
    BY <1>4, <1>5 DEF Values
  <1>8. ASSUME Apart(s), e.value \notin Values(s), NEW i \in DOMAIN new, NEW j \in DOMAIN new,
               new[i].value = new[j].value
        PROVE  i = j
    <2>1. i \in Nat /\ j \in Nat
      BY <1>1, <1>2
    <2>2. CASE i = 1
      BY <1>3, <1>5, <1>8, <2>2 DEF Values
    <2>3. CASE j = 1
      BY <1>3, <1>5, <1>8, <2>3 DEF Values
    <2>4. CASE i # 1 /\ j # 1
      <3>1. i - 1 = j - 1
        BY <1>3, <1>8, <2>4 DEF Apart
      <3> QED
        BY <2>1, <3>1
    <2> QED
      BY <2>2, <2>3, <2>4
  <1> QED
    BY <1>6, <1>7, <1>8 DEF new, Apart

\* A record taken out takes its value with it, if no other record has it.
LEMMA RemovedValue ==
  ASSUME NEW S, NEW s \in Seq(S), NEW k \in DOMAIN s
  PROVE  /\ Values(RemoveAt(s, k)) \subseteq Values(s)
         /\ Values(s) \subseteq Values(RemoveAt(s, k)) \cup {s[k].value}
         /\ Apart(s) => Apart(RemoveAt(s, k)) /\ s[k].value \notin Values(RemoveAt(s, k))
  <1> DEFINE new == RemoveAt(s, k)
             From(j) == IF j < k THEN j ELSE j + 1
  <1>1. Len(s) \in Nat /\ DOMAIN s = 1..Len(s)
    BY LenProperties
  <1>2. /\ DOMAIN new = 1..(Len(s) - 1)
        /\ \A j \in 1..(Len(s) - 1) : new[j] = IF j < k THEN s[j] ELSE s[j + 1]
    BY RemoveAtProperties
  <1> HIDE DEF new
  <1>3. \A j \in DOMAIN new : From(j) \in DOMAIN s /\ From(j) # k /\ new[j] = s[From(j)]
    BY <1>1, <1>2
  <1>4. \A i, j \in DOMAIN new : From(i) = From(j) => i = j
    BY <1>1, <1>2
  <1>5. \A i \in DOMAIN s : i # k => \E j \in DOMAIN new : From(j) = i
    <2> SUFFICES ASSUME NEW i \in DOMAIN s, i # k
                 PROVE  \E j \in DOMAIN new : From(j) = i
      OBVIOUS
    <2>1. CASE i < k
      <3>1. i \in DOMAIN new /\ From(i) = i
        BY <1>1, <1>2, <2>1
      <3> QED
        BY <3>1
    <2>2. CASE ~(i < k)
      <3>1. i - 1 \in DOMAIN new /\ From(i - 1) = i
        BY <1>1, <1>2, <2>2
      <3> QED
        BY <3>1
    <2> QED
      BY <2>1, <2>2
  <1> HIDE DEF From
  <1>6. Values(new) \subseteq Values(s)
    BY <1>3 DEF Values
  <1>7. Values(s) \subseteq Values(new) \cup {s[k].value}
    BY <1>3, <1>5 DEF Values
  <1>8. Apart(s) => Apart(new)
    BY <1>3, <1>4 DEF Apart
  <1>9. Apart(s) => s[k].value \notin Values(new)
    BY <1>3 DEF Apart, Values
  <1> QED
    BY <1>6, <1>7, <1>8, <1>9 DEF new

\* The first value of the queue is read and taken out.
LEMMA HeadElement ==
  ASSUME NEW S, NEW s \in Seq(S), s # <<>>
  PROVE  /\ Head(s) \in Elements(s)
         /\ Elements(Tail(s)) \subseteq Elements(s)
         /\ Elements(s) \subseteq Elements(Tail(s)) \cup {Head(s)}
         /\ Single(s) => Single(Tail(s)) /\ Head(s) \notin Elements(Tail(s))
  <1> DEFINE new == Tail(s)
             head == Head(s)
  <1>1. Len(s) \in Nat /\ DOMAIN s = 1..Len(s)
    BY LenProperties
  <1>2. /\ head = s[1] /\ 1 \in DOMAIN s
        /\ DOMAIN new = 1..(Len(s) - 1)
        /\ \A j \in 1..(Len(s) - 1) : new[j] = s[j + 1] /\ j + 1 \in DOMAIN s
    BY ReadProperties
  <1> HIDE DEF new, head
  <1>3. \A j \in DOMAIN new : j \in Nat /\ j + 1 # 1 /\ j + 1 \in DOMAIN s /\ new[j] = s[j + 1]
    BY <1>1, <1>2
  <1>4. \A j \in DOMAIN s : j # 1 => j - 1 \in DOMAIN new /\ new[j - 1] = s[j]
    BY <1>1, <1>2
  <1>5. head \in Elements(s) /\ Elements(new) \subseteq Elements(s)
    BY <1>2, <1>3 DEF Elements
  <1>6. Elements(s) \subseteq Elements(new) \cup {head}
    BY <1>2, <1>4 DEF Elements
  <1>7. ASSUME Single(s), NEW i \in DOMAIN new, NEW j \in DOMAIN new, new[i] = new[j]
        PROVE  i = j
    <2>1. i + 1 = j + 1
      BY <1>3, <1>7 DEF Single
    <2> QED
      BY <1>3, <2>1
  <1>8. Single(s) => head \notin Elements(new)
    BY <1>2, <1>3 DEF Single, Elements
  <1> QED
    BY <1>5, <1>6, <1>7, <1>8 DEF new, head, Single

\* A value appended to the queue.
LEMMA AppendedElement ==
  ASSUME NEW S, NEW s \in Seq(S), NEW e \in S
  PROVE  /\ Elements(Append(s, e)) = Elements(s) \cup {e}
         /\ Single(s) /\ e \notin Elements(s) => Single(Append(s, e))
  <1> DEFINE new == Append(s, e)
             last == Len(s) + 1
  <1>1. Len(s) \in Nat /\ DOMAIN s = 1..Len(s)
    BY LenProperties
  <1>2. /\ DOMAIN new = 1..(Len(s) + 1)
        /\ \A j \in 1..(Len(s) + 1) : new[j] = IF j = Len(s) + 1 THEN e ELSE s[j]
    BY AppendedProperties
  <1> HIDE DEF new
  <1>3. \A j \in DOMAIN new : j = last \/ (j \in DOMAIN s /\ new[j] = s[j])
    BY <1>1, <1>2
  <1>4. \A j \in DOMAIN s : j \in DOMAIN new /\ new[j] = s[j]
    BY <1>1, <1>2
  <1>5. last \in DOMAIN new /\ new[last] = e
    BY <1>1, <1>2
  <1> HIDE DEF last
  <1>6. Elements(new) \subseteq Elements(s) \cup {e}
    BY <1>3, <1>5 DEF Elements
  <1>7. Elements(s) \cup {e} \subseteq Elements(new)
    BY <1>4, <1>5 DEF Elements
  <1>8. Single(s) /\ e \notin Elements(s) => Single(new)
    BY <1>3, <1>5 DEF Single, Elements
  <1> QED
    BY <1>6, <1>7, <1>8 DEF new

\* A list without repetitions has as many values as records.
LEMMA CountValues ==
  ASSUME NEW S, NEW s \in Seq(S)
  PROVE  /\ Apart(s) => Cardinality(Values(s)) = Len(s)
         /\ Single(s) => Cardinality(Elements(s)) = Len(s)
  <1>1. Len(s) \in Nat /\ DOMAIN s = 1..Len(s)
    BY LenProperties
  <1>2. ASSUME Apart(s)
        PROVE  Cardinality(Values(s)) = Len(s)
    <2> DEFINE f == [k \in 1..Len(s) |-> s[k].value]
    <2>1. f \in Bijection(1..Len(s), Values(s))
      BY <1>1, <1>2 DEF Bijection, Injection, Surjection, IsInjective, Values, Apart
    <2>2. ExistsBijection(1..Len(s), Values(s))
      BY <2>1 DEF ExistsBijection
    <2> QED
      BY <1>1, <2>2, FS_CountingElements
  <1>3. ASSUME Single(s)
        PROVE  Cardinality(Elements(s)) = Len(s)
    <2> DEFINE f == [k \in 1..Len(s) |-> s[k]]
    <2>1. f \in Bijection(1..Len(s), Elements(s))
      BY <1>1, <1>3 DEF Bijection, Injection, Surjection, IsInjective, Elements, Single
    <2>2. ExistsBijection(1..Len(s), Elements(s))
      BY <2>1 DEF ExistsBijection
    <2> QED
      BY <1>1, <2>2, FS_CountingElements
  <1> QED
    BY <1>2, <1>3

-------------------------------------------------------------------------------
(* The counter and the queue of the values to use again. *)

\* The counter goes to the next value, and to 0 after the last one.
LEMMA NextValue ==
  ASSUME NEW v \in Value
  PROVE  /\ (v + 1) % Guint = IF v + 1 = Guint THEN 0 ELSE v + 1
         /\ (v + 1) % Guint \in Value
  <1>1. v \in Nat /\ v < Guint /\ Guint \in Nat /\ Guint > 2
    BY SequenceAssumption DEF Value
  <1>2. CASE v + 1 = Guint
    BY <1>1, <1>2 DEF Value
  <1>3. CASE v + 1 < Guint
    BY <1>1, <1>3 DEF Value
  <1> QED
    BY <1>1, <1>2, <1>3

\* get keeps the types.
LEMMA GetType ==
  ASSUME TypeOK, NEW v \in Value, get(v)
  PROVE  next_value' \in Value /\ rolled_back' \in Seq(Value) /\ wrapped' \in BOOLEAN
  <1>1. CASE rolled_back # <<>>
    <2>1. rolled_back' = Tail(rolled_back) /\ UNCHANGED <<next_value, wrapped>>
      BY <1>1 DEF get
    <2> QED
      BY <1>1, <2>1, ReadProperties DEF TypeOK
  <1>2. CASE rolled_back = <<>>
    <2>1. /\ next_value' = (v + 1) % Guint /\ rolled_back' = rolled_back
          /\ wrapped' = (wrapped \/ next_value = 0)
      BY <1>2 DEF get
    <2> QED
      BY <2>1, NextValue DEF TypeOK
  <1> QED
    BY <1>1, <1>2

-------------------------------------------------------------------------------
(* Type correctness; locked_quantity stays a natural number because it is the *)
(* length of the list.                                                        *)

TypeInv == TypeOK /\ LocksAccounted

\* A lock given to a connection is counted.
LEMMA AddType ==
  ASSUME TypeInv, can_lock, NEW c \in Conn, NEW v \in Value, AddHolder(c, v)
  PROVE  holders' \in Seq(Holder) /\ locked' \in Nat /\ LocksAccounted'
  <1>1. PICK e \in Holder : e = [conn |-> c, value |-> v]
    BY DEF Holder
  <1>2. holders' = <<e>> \o holders /\ locked' = locked + 1
    BY <1>1 DEF AddHolder
  <1>3. holders' \in Seq(Holder) /\ Len(holders') = Len(holders) + 1
    BY <1>2, PrependProperties DEF TypeInv, TypeOK
  <1>4. locked \in Nat /\ locked = Len(holders) /\ Total - locked > 0 /\ Total \in Nat
    BY SequenceAssumption DEF TypeInv, TypeOK, LocksAccounted, can_lock
  <1> QED
    BY <1>2, <1>3, <1>4 DEF LocksAccounted

\* inmsg on a LOCK message keeps the types and the account.
LEMMA LockType ==
  ASSUME TypeInv, NEW c \in Conn, Lock(c)
  PROVE  TypeInv'
  <1>0. TypeOK /\ LocksAccounted /\ LockerTypeOK
    BY DEF TypeInv, TypeOK
  <1>1. PICK rc \in Answer : Reply(c, rc)
    BY DEF Lock, LockGrant, LockEnqueue, LockBusy, Answer
  <1>2. vfs' \subseteq VfsNode
    BY <1>0 DEF Lock, LockGrant, LockEnqueue, LockBusy, VfsAdd, VfsNode, LockerTypeOK
  <1>3. LockerTypeOK'
    BY <1>0, <1>1, <1>2, ReplyType
  <1>4. CASE LockGrant(c)
    <2>1. PICK v \in Value : can_lock /\ get(v) /\ AddHolder(c, v)
      BY <1>4 DEF LockGrant
    <2>2. next_value' \in Value /\ rolled_back' \in Seq(Value) /\ wrapped' \in BOOLEAN
      BY <1>0, <2>1, GetType
    <2>3. holders' \in Seq(Holder) /\ locked' \in Nat /\ LocksAccounted'
      BY <2>1, AddType
    <2>4. UNCHANGED <<transactional, waitings, committed>>
      BY <1>4 DEF LockGrant
    <2> QED
      BY <1>0, <1>3, <2>2, <2>3, <2>4 DEF TypeInv, TypeOK
  <1>5. CASE LockEnqueue(c)
    <2>1. [conn |-> c] \in Waiter
      BY DEF Waiter
    <2>2. waitings' \in Seq(Waiter)
      BY <1>0, <1>5, <2>1, AppendedProperties DEF LockEnqueue, TypeOK
    <2> QED
      BY <1>0, <1>3, <1>5, <2>2 DEF LockEnqueue, TypeInv, TypeOK, LocksAccounted
  <1>6. CASE LockBusy(c)
    BY <1>0, <1>3, <1>6 DEF LockBusy, seqVars, TypeInv, TypeOK, LocksAccounted
  <1> QED
    BY <1>4, <1>5, <1>6 DEF Lock

\* clean keeps the types and the account.
LEMMA CleanType ==
  ASSUME TypeInv, NEW c \in Conn, NEW path \in CleanPath, Clean(c, path)
  PROVE  TypeInv'
  <1>0. TypeOK /\ LocksAccounted /\ LockerTypeOK
    BY DEF TypeInv, TypeOK
  <1>1. CASE CleanHolder(c, path)
    <2>1. LockerTypeOK'
      BY <1>0, <1>1, StartScanType DEF CleanHolder
    <2>2. PICK k \in DOMAIN holders : /\ Settle(holders[k].value, c, path)
                                      /\ holders' = RemoveAt(holders, k)
                                      /\ locked' = locked - 1
      BY <1>1 DEF CleanHolder
    <2>3. /\ holders' \in Seq(Holder) /\ Len(holders') = Len(holders) - 1
          /\ Len(holders) \in Nat /\ Len(holders) >= 1
      BY <1>0, <2>2, RemoveAtProperties, LenProperties DEF TypeOK
    <2>4. locked' \in Nat /\ LocksAccounted'
      BY <1>0, <2>2, <2>3, SequenceAssumption DEF TypeOK, LocksAccounted
    <2>5. holders[k].value \in Value
      <3>1. holders[k] \in Holder
        BY <1>0, ElementOfSeq, LenProperties DEF TypeOK
      <3> QED
        BY <3>1 DEF Holder
    <2>6. rolled_back' \in Seq(Value) /\ committed' \subseteq Value
      <3>1. \/ rolled_back' = Append(rolled_back, holders[k].value) /\ committed' = committed
            \/ committed' = committed \cup {holders[k].value} /\ rolled_back' = rolled_back
        BY <2>2 DEF Settle
      <3>2. Append(rolled_back, holders[k].value) \in Seq(Value)
        BY <1>0, <2>5, AppendedProperties DEF TypeOK
      <3> QED
        BY <1>0, <2>5, <3>1, <3>2 DEF TypeOK
    <2>7. UNCHANGED <<transactional, next_value, waitings, wrapped>>
      BY <1>1 DEF CleanHolder
    <2> QED
      BY <1>0, <2>1, <2>3, <2>4, <2>6, <2>7 DEF TypeInv, TypeOK
  <1>2. CASE CleanWaiter(c, path)
    <2>1. LockerTypeOK'
      BY <1>0, <1>2, EndCleanType DEF CleanWaiter
    <2>2. waitings' \in Seq(Waiter)
      BY <1>0, <1>2, RemoveAtProperties DEF CleanWaiter, TypeOK
    <2> QED
      BY <1>0, <1>2, <2>1, <2>2 DEF CleanWaiter, TypeInv, TypeOK, LocksAccounted
  <1> QED
    BY <1>1, <1>2 DEF Clean

\* The record at the cursor is that of a connection.
LEMMA CursorConn ==
  ASSUME TypeOK, job.i \in DOMAIN waitings
  PROVE  waitings[job.i].conn \in Conn
  <1>1. waitings[job.i] \in Waiter
    BY ElementOfSeq, LenProperties DEF TypeOK
  <1> QED
    BY <1>1 DEF Waiter

\* What a turn of the scan that takes a request out of the queue does.
LEMMA PopEffect ==
  ASSUME TypeOK, WaitingsPop
  PROVE  \E c \in Conn, v \in Value :
           /\ job.i \in DOMAIN waitings /\ c = waitings[job.i].conn
           /\ waitings' = RemoveAt(waitings, job.i)
           /\ can_lock /\ get(v) /\ UNCHANGED <<transactional, committed>>
           /\ \/ ScanGrant(c) /\ AddHolder(c, v)
              \/ ScanAbort(c) /\ UNCHANGED <<locked, holders>>
  <1>1. PICK c \in Conn : c = waitings[job.i].conn
    BY CursorConn DEF WaitingsPop
  <1> QED
    BY <1>1 DEF WaitingsPop

\* Every turn of the scan keeps the types and the account.
LEMMA WaitingsType ==
  ASSUME TypeInv, Waitings
  PROVE  TypeInv'
  <1>1. TypeOK /\ LocksAccounted /\ LockerTypeOK /\ Scanning
    BY DEF TypeInv, TypeOK, Waitings
  <1>2. CASE WaitingsEnd \/ WaitingsSkip
    <2>1. job.conn \in Conn
      BY <1>1, JobFields DEF Scanning
    <2>2. LockerTypeOK'
      BY <1>1, <1>2, <2>1, ScanType DEF WaitingsEnd, WaitingsSkip
    <2>3. UNCHANGED seqVars
      BY <1>2 DEF WaitingsEnd, WaitingsSkip
    <2> QED
      BY <1>1, <2>2, <2>3 DEF seqVars, TypeInv, TypeOK, LocksAccounted
  <1>3. CASE WaitingsPop
    <2>1. PICK c \in Conn, v \in Value :
             /\ job.i \in DOMAIN waitings /\ c = waitings[job.i].conn
             /\ waitings' = RemoveAt(waitings, job.i)
             /\ can_lock /\ get(v) /\ UNCHANGED <<transactional, committed>>
             /\ \/ ScanGrant(c) /\ AddHolder(c, v)
                \/ ScanAbort(c) /\ UNCHANGED <<locked, holders>>
      BY <1>1, <1>3, PopEffect
    <2>2. LockerTypeOK'
      BY <1>1, <2>1, ScanType
    <2>3. waitings' \in Seq(Waiter)
      BY <1>1, <2>1, RemoveAtProperties DEF TypeOK
    <2>4. next_value' \in Value /\ rolled_back' \in Seq(Value) /\ wrapped' \in BOOLEAN
      BY <1>1, <2>1, GetType
    <2>5. holders' \in Seq(Holder) /\ locked' \in Nat /\ LocksAccounted'
      <3>1. CASE AddHolder(c, v)
        BY <2>1, <3>1, AddType
      <3>2. CASE UNCHANGED <<locked, holders>>
        BY <1>1, <3>2 DEF TypeOK, LocksAccounted
      <3> QED
        BY <2>1, <3>1, <3>2
    <2> QED
      BY <1>1, <2>1, <2>2, <2>3, <2>4, <2>5 DEF TypeInv, TypeOK
  <1> QED
    BY <1>2, <1>3 DEF Waitings

\* Every step keeps the types and the account.
LEMMA TypeStep ==
  ASSUME TypeInv, [Next]_vars
  PROVE  TypeInv'
  <1>1. CASE Peers({"UNLOCK", "ROLLBACK"}) /\ UNCHANGED seqVars
    <2>1. LockerTypeOK'
      BY <1>1, PeersType DEF TypeInv, TypeOK, MsgVerb
    <2> QED
      BY <1>1, <2>1 DEF seqVars, TypeInv, TypeOK, LocksAccounted
  <1>2. CASE UNCHANGED vars
    BY <1>2 DEF vars, lockerVars, seqVars, TypeInv, TypeOK, LockerTypeOK, LocksAccounted
  <1> QED
    BY <1>1, <1>2, LockType, CleanType, WaitingsType DEF Next

\* The first state is well typed.
LEMMA TypeInit == Init => TypeInv
  <1> SUFFICES ASSUME Init
               PROVE  TypeInv
    OBVIOUS
  <1>1. LockerTypeOK
    BY LockerInitType DEF Init
  <1>2. next_value \in Value /\ locked \in Nat /\ locked <= Total
    BY SequenceAssumption DEF Init, Value
  <1>3. /\ rolled_back \in Seq(Value) /\ holders \in Seq(Holder) /\ waitings \in Seq(Waiter)
        /\ Len(holders) = 0
    BY EmptySeq DEF Init
  <1> QED
    BY <1>1, <1>2, <1>3 DEF Init, TypeInv, TypeOK, LocksAccounted

-------------------------------------------------------------------------------
(* The values handed out. *)

\* Until the counter wraps around, every value in use, to use again or committed is
\* one it has already passed.
Passed(v) == next_value # 0 => v < next_value

ValuesApart ==
  /\ Apart(holders) /\ Single(rolled_back)
  /\ Held \cap Reusable = {}
  /\ (Held \cup Reusable) \cap committed = {}
  /\ \A v \in Held \cup Reusable \cup committed : Passed(v)

ValuesInv == NoZeroValue /\ (~wrapped => ValuesApart)

\* What get returns is not 0 and, while the counter has not wrapped around, nobody
\* else's.
LEMMA GetFresh ==
  ASSUME TypeOK, ValuesInv, NEW v \in Value, get(v)
  PROVE  /\ v # 0
         /\ Reusable' \subseteq Reusable
         /\ ~wrapped' => /\ ~wrapped /\ v \notin Held /\ v \notin Reusable' /\ v \notin committed
                         /\ Single(rolled_back')
                         /\ Passed(v)' /\ \A u \in Value : Passed(u) => Passed(u)'
  <1>1. CASE rolled_back # <<>>
    <2>1. /\ v = Head(rolled_back) /\ rolled_back' = Tail(rolled_back)
          /\ UNCHANGED <<next_value, wrapped>>
      BY <1>1 DEF get
    <2>2. /\ v \in Elements(rolled_back)
          /\ Elements(rolled_back') \subseteq Elements(rolled_back)
          /\ Single(rolled_back) => Single(rolled_back') /\ v \notin Elements(rolled_back')
      BY <1>1, <2>1, HeadElement DEF TypeOK
    <2>3. Reusable = Elements(rolled_back) /\ Reusable' = Elements(rolled_back')
      BY DEF Reusable, Elements
    <2>4. \A u : Passed(u)' <=> Passed(u)
      BY <2>1 DEF Passed
    <2> QED
      BY <2>1, <2>2, <2>3, <2>4 DEF ValuesInv, ValuesApart, NoZeroValue
  <1>2. CASE rolled_back = <<>>
    <2>1. /\ v = IF next_value = 0 THEN 1 ELSE next_value
          /\ next_value' = (v + 1) % Guint /\ rolled_back' = rolled_back
          /\ wrapped' = (wrapped \/ next_value = 0)
      BY <1>2 DEF get
    <2>2. Reusable = {} /\ Reusable' = {} /\ Single(rolled_back')
      BY <1>2, <2>1 DEF Reusable, Single
    <2>3. next_value' = IF v + 1 = Guint THEN 0 ELSE v + 1
      BY <2>1, NextValue
    <2>4. v # 0
      BY <2>1
    <2>5. ASSUME ~wrapped'
          PROVE  /\ ~wrapped /\ v \notin Held /\ v \notin committed
                 /\ Passed(v)' /\ \A u \in Value : Passed(u) => Passed(u)'
      <3>1. ~wrapped /\ next_value # 0 /\ v = next_value
        BY <2>1, <2>5
      <3>2. ValuesApart
        BY <3>1 DEF ValuesInv
      <3>3. v \in Nat /\ ~(v < v) /\ \A u \in Value : u \in Nat
        BY DEF Value
      <3>4. v \notin Held /\ v \notin committed
        BY <3>1, <3>2, <3>3 DEF ValuesApart, Passed
      <3>5. Passed(v)' /\ \A u \in Value : Passed(u) => Passed(u)'
        BY <2>3, <3>1, <3>3 DEF Passed
      <3> QED
        BY <3>1, <3>4, <3>5
    <2> QED
      BY <2>2, <2>4, <2>5
  <1> QED
    BY <1>1, <1>2

\* The values in use are values.
LEMMA UsedType ==
  ASSUME TypeOK
  PROVE  Held \subseteq Value /\ Reusable \subseteq Value /\ committed \subseteq Value
  <1>1. \A k \in DOMAIN holders : holders[k] \in Holder
    BY ElementOfSeq, LenProperties DEF TypeOK
  <1>2. \A k \in DOMAIN rolled_back : rolled_back[k] \in Value
    BY ElementOfSeq, LenProperties DEF TypeOK
  <1> QED
    BY <1>1, <1>2 DEF Held, Reusable, Holder, TypeOK

\* The value is taken, and given to connection c or lost with the grant.
LEMMA GetValuesInv ==
  ASSUME TypeOK, ValuesInv, NEW v \in Value, get(v), committed' = committed, NEW c \in Conn,
         AddHolder(c, v) \/ holders' = holders
  PROVE  ValuesInv'
  <1>1. /\ v # 0
        /\ Reusable' \subseteq Reusable
        /\ ~wrapped' => /\ ~wrapped /\ v \notin Held /\ v \notin Reusable' /\ v \notin committed
                        /\ Single(rolled_back')
                        /\ Passed(v)' /\ \A u \in Value : Passed(u) => Passed(u)'
    BY GetFresh
  <1>2. Held' \subseteq Held \cup {v} /\ (Apart(holders) /\ v \notin Held => Apart(holders'))
    <2>1. CASE AddHolder(c, v)
      <3>1. PICK e \in Holder : e = [conn |-> c, value |-> v]
        BY DEF Holder
      <3>2. holders' = <<e>> \o holders /\ e.value = v
        BY <2>1, <3>1 DEF AddHolder
      <3>3. /\ Values(holders') = Values(holders) \cup {v}
            /\ Apart(holders) /\ v \notin Values(holders) => Apart(holders')
        BY <3>2, PrependedValue DEF TypeOK
      <3>4. Held = Values(holders) /\ Held' = Values(holders')
        BY DEF Held, Values
      <3> QED
        BY <3>3, <3>4
    <2>2. CASE holders' = holders
      BY <2>2 DEF Held
    <2> QED
      BY <2>1, <2>2
  <1>3. NoZeroValue'
    BY <1>1, <1>2 DEF ValuesInv, NoZeroValue
  <1>4. ~wrapped' => ValuesApart'
    <2> SUFFICES ASSUME ~wrapped'
                 PROVE  ValuesApart'
      OBVIOUS
    <2>1. ValuesApart
      BY <1>1 DEF ValuesInv
    <2>2. Apart(holders)' /\ Single(rolled_back)'
      BY <1>1, <1>2, <2>1 DEF ValuesApart
    <2>3. Held' \cap Reusable' = {} /\ (Held' \cup Reusable') \cap committed' = {}
      BY <1>1, <1>2, <2>1 DEF ValuesApart
    <2>4. ASSUME NEW u \in Held' \cup Reusable' \cup committed'
          PROVE  Passed(u)'
      <3>1. CASE u = v
        BY <1>1, <3>1
      <3>2. CASE u # v
        <4>1. u \in Held \cup Reusable \cup committed
          BY <1>1, <1>2, <2>4, <3>2
        <4>2. u \in Value /\ Passed(u)
          BY <2>1, <4>1, UsedType DEF ValuesApart
        <4> QED
          BY <1>1, <4>2
      <3> QED
        BY <3>1, <3>2
    <2> QED
      BY <2>2, <2>3, <2>4 DEF ValuesApart
  <1> QED
    BY <1>3, <1>4 DEF ValuesInv

\* A holder leaves: its value is committed or goes to the queue.
LEMMA SettleValuesInv ==
  ASSUME TypeOK, ValuesInv, NEW c, NEW path, NEW k \in DOMAIN holders,
         Settle(holders[k].value, c, path), holders' = RemoveAt(holders, k),
         UNCHANGED <<next_value, wrapped>>
  PROVE  ValuesInv'
  <1>1. PICK v \in Value : v = holders[k].value /\ v \in Held
    BY UsedType DEF Held
  <1>2. /\ Held' \subseteq Held
        /\ Apart(holders) => Apart(holders') /\ v \notin Held'
    <2>1. /\ Values(holders') \subseteq Values(holders)
          /\ Apart(holders) => Apart(holders') /\ v \notin Values(holders')
      BY <1>1, RemovedValue DEF TypeOK
    <2> QED
      BY <2>1 DEF Held, Values
  <1>3. /\ Reusable' \subseteq Reusable \cup {v}
        /\ committed' \subseteq committed \cup {v}
        /\ Single(rolled_back) /\ v \notin Reusable => Single(rolled_back')
        /\ v \notin Reusable \/ Reusable' = Reusable
        /\ Reusable' = Reusable \/ committed' = committed
    <2>1. CASE rolled_back' = Append(rolled_back, v) /\ committed' = committed
      <3>1. /\ Elements(rolled_back') = Elements(rolled_back) \cup {v}
            /\ Single(rolled_back) /\ v \notin Elements(rolled_back) => Single(rolled_back')
        BY <2>1, AppendedElement DEF TypeOK
      <3>2. Reusable = Elements(rolled_back) /\ Reusable' = Elements(rolled_back')
        BY DEF Reusable, Elements
      <3> QED
        BY <2>1, <3>1, <3>2
    <2>2. CASE committed' = committed \cup {v} /\ rolled_back' = rolled_back
      BY <2>2 DEF Reusable
    <2> QED
      BY <1>1, <2>1, <2>2 DEF Settle
  <1>4. NoZeroValue'
    BY <1>1, <1>2, <1>3 DEF ValuesInv, NoZeroValue
  <1>5. ~wrapped' => ValuesApart'
    <2> SUFFICES ASSUME ~wrapped'
                 PROVE  ValuesApart'
      OBVIOUS
    <2>1. ValuesApart
      BY DEF ValuesInv
    <2>2. v \notin Reusable /\ v \notin committed /\ v \notin Held'
      BY <1>1, <1>2, <2>1 DEF ValuesApart
    <2>3. Apart(holders)' /\ Single(rolled_back)'
      BY <1>2, <1>3, <2>1, <2>2 DEF ValuesApart
    <2>4. Held' \cap Reusable' = {} /\ (Held' \cup Reusable') \cap committed' = {}
      BY <1>2, <1>3, <2>1, <2>2 DEF ValuesApart
    <2>5. ASSUME NEW u \in Held' \cup Reusable' \cup committed'
          PROVE  Passed(u)'
      <3>1. u \in Held \cup Reusable \cup committed
        BY <1>1, <1>2, <1>3, <2>5
      <3> QED
        BY <2>1, <3>1 DEF ValuesApart, Passed
    <2> QED
      BY <2>3, <2>4, <2>5 DEF ValuesApart
  <1> QED
    BY <1>4, <1>5 DEF ValuesInv

\* Every step keeps the values apart.
LEMMA ValuesStep ==
  ASSUME TypeInv, ValuesInv, [Next]_vars
  PROVE  ValuesInv'
  <1>1. TypeOK
    BY DEF TypeInv
  <1>2. CASE UNCHANGED seqVars
    BY <1>2 DEF seqVars, ValuesInv, NoZeroValue, ValuesApart, Apart, Single, Passed, Held,
                Reusable
  <1>3. ASSUME NEW c \in Conn, Lock(c)
        PROVE  ValuesInv'
    <2>1. CASE LockGrant(c)
      <3>1. PICK v \in Value : get(v) /\ AddHolder(c, v) /\ committed' = committed
        BY <2>1 DEF LockGrant
      <3> QED
        BY <1>1, <3>1, GetValuesInv
    <2>2. CASE LockEnqueue(c) \/ LockBusy(c)
      <3>1. UNCHANGED <<next_value, rolled_back, holders, committed, wrapped>>
        BY <2>2 DEF LockEnqueue, LockBusy, seqVars
      <3> QED
        BY <3>1 DEF ValuesInv, NoZeroValue, ValuesApart, Apart, Single, Passed, Held, Reusable
    <2> QED
      BY <1>3, <2>1, <2>2 DEF Lock
  <1>4. ASSUME NEW c \in Conn, NEW path \in CleanPath, Clean(c, path)
        PROVE  ValuesInv'
    <2>1. CASE CleanHolder(c, path)
      <3>1. PICK k \in DOMAIN holders : /\ Settle(holders[k].value, c, path)
                                        /\ holders' = RemoveAt(holders, k)
                                        /\ UNCHANGED <<next_value, wrapped>>
        BY <2>1 DEF CleanHolder
      <3> QED
        BY <1>1, <3>1, SettleValuesInv
    <2>2. CASE CleanWaiter(c, path)
      <3>1. UNCHANGED <<next_value, rolled_back, holders, committed, wrapped>>
        BY <2>2 DEF CleanWaiter
      <3> QED
        BY <3>1 DEF ValuesInv, NoZeroValue, ValuesApart, Apart, Single, Passed, Held, Reusable
    <2> QED
      BY <1>4, <2>1, <2>2 DEF Clean
  <1>5. CASE WaitingsPop
    <2>1. PICK c \in Conn, v \in Value :
             /\ get(v) /\ committed' = committed
             /\ AddHolder(c, v) \/ holders' = holders
      BY <1>1, <1>5, PopEffect
    <2> QED
      BY <1>1, <2>1, GetValuesInv
  <1> QED
    BY <1>2, <1>3, <1>4, <1>5 DEF Next, Waitings, WaitingsEnd, WaitingsSkip, vars

\* Nothing has been handed out at the beginning.
LEMMA ValuesInit == Init => ValuesInv
  <1> SUFFICES ASSUME Init
               PROVE  ValuesInv
    OBVIOUS
  <1>1. holders = <<>> /\ rolled_back = <<>> /\ committed = {}
    BY DEF Init
  <1>2. Held = {} /\ Reusable = {} /\ Apart(holders) /\ Single(rolled_back)
    BY <1>1 DEF Held, Reusable, Apart, Single
  <1> QED
    BY <1>1, <1>2 DEF ValuesInv, NoZeroValue, ValuesApart

\* A number belongs to one holder: get never hands out 0 and, so long as the counter
\* has not wrapped around, never a number that is held, that was committed, or that is
\* still to be used again; clean gives a number back once
\* (flom_resource_sequence_get, _clean, _waitings).
THEOREM ValuesKept == Spec => []ValuesSound
  <1>1. Init => TypeInv /\ ValuesInv
    BY TypeInit, ValuesInit
  <1>2. TypeInv /\ ValuesInv /\ [Next]_vars => (TypeInv /\ ValuesInv)'
    BY TypeStep, ValuesStep
  <1>3. TypeInv /\ ValuesInv => ValuesSound
    <2> SUFFICES ASSUME TypeOK, ValuesInv
                 PROVE  ValuesSound
      BY DEF TypeInv
    <2>1. ~wrapped => /\ Cardinality(Held) = Len(holders)
                      /\ Cardinality(Reusable) = Len(rolled_back)
      <3>1. Held = Values(holders) /\ Reusable = Elements(rolled_back)
        BY DEF Held, Values, Reusable, Elements
      <3>2. ~wrapped => Cardinality(Values(holders)) = Len(holders)
        BY CountValues DEF TypeOK, ValuesInv, ValuesApart
      <3>3. ~wrapped => Cardinality(Elements(rolled_back)) = Len(rolled_back)
        BY CountValues DEF TypeOK, ValuesInv, ValuesApart
      <3> QED
        BY <3>1, <3>2, <3>3
    <2> QED
      BY <2>1 DEF ValuesSound, ValuesUnique, ValuesInv, ValuesApart
  <1>4. QED
    BY <1>1, <1>2, <1>3, PTL DEF Spec

-------------------------------------------------------------------------------
(* No hole in the numbers. *)

\* The values handed out and not lost.
Known == Held \cup Reusable \cup committed

\* A number that get takes and a holder receives is known, and get passes over none.
LEMMA GetKnown ==
  ASSUME TypeOK, NEW v \in Value, get(v), committed' = committed, NEW c \in Conn,
         AddHolder(c, v), ~wrapped', NoHole
  PROVE  NoHole'
  <1>1. Held' = Held \cup {v}
    <2>1. PICK e \in Holder : e = [conn |-> c, value |-> v]
      BY DEF Holder
    <2>2. holders' = <<e>> \o holders /\ e.value = v
      BY <2>1 DEF AddHolder
    <2>3. Values(holders') = Values(holders) \cup {v}
      BY <2>2, PrependedValue DEF TypeOK
    <2> QED
      BY <2>3 DEF Held, Values
  <1>2. CASE rolled_back # <<>>
    <2>1. /\ v = Head(rolled_back) /\ rolled_back' = Tail(rolled_back)
          /\ UNCHANGED next_value
      BY <1>2 DEF get
    <2>2. Elements(rolled_back) \subseteq Elements(rolled_back') \cup {v}
      BY <1>2, <2>1, HeadElement DEF TypeOK
    <2>3. Reusable \subseteq Reusable' \cup {v}
      BY <2>2 DEF Reusable, Elements
    <2>4. Known \subseteq Known'
      BY <1>1, <2>3 DEF Known
    <2> QED
      BY <2>1, <2>4 DEF NoHole, Known
  <1>3. CASE rolled_back = <<>>
    <2>1. /\ v = next_value /\ next_value # 0
          /\ next_value' = (v + 1) % Guint /\ rolled_back' = rolled_back
      BY <1>3 DEF get
    <2>2. next_value' = IF v + 1 = Guint THEN 0 ELSE v + 1
      BY <2>1, NextValue
    <2>3. Reusable' = Reusable
      BY <2>1 DEF Reusable
    <2>4. v \in Nat /\ v # 0 /\ Guint \in Nat
      BY <2>1, SequenceAssumption DEF Value
    <2>5. \A u \in 1..v : u = v \/ u \in 1..(next_value - 1)
      BY <2>1, <2>4
    <2>6. 1..v \subseteq Held' \cup Reusable' \cup committed'
      BY <1>1, <2>1, <2>3, <2>5 DEF NoHole
    <2>7. (IF next_value' = 0 THEN Guint - 1 ELSE next_value' - 1) = v
      BY <2>2, <2>4
    <2> QED
      BY <2>6, <2>7 DEF NoHole
  <1> QED
    BY <1>2, <1>3

\* The number of a holder that leaves stays known.
LEMMA SettleKnown ==
  ASSUME TypeOK, NEW c, NEW path, NEW k \in DOMAIN holders,
         Settle(holders[k].value, c, path), holders' = RemoveAt(holders, k),
         UNCHANGED next_value, NoHole
  PROVE  NoHole'
  <1>1. PICK v \in Value : v = holders[k].value
    BY UsedType DEF Held
  <1>2. Values(holders) \subseteq Values(holders') \cup {v}
    BY <1>1, RemovedValue DEF TypeOK
  <1>3. Held \subseteq Held' \cup {v}
    BY <1>2 DEF Held, Values
  <1>4. Reusable \cup committed \cup {v} \subseteq Reusable' \cup committed'
    <2>1. CASE rolled_back' = Append(rolled_back, v) /\ committed' = committed
      <3>1. Elements(rolled_back') = Elements(rolled_back) \cup {v}
        BY <2>1, AppendedElement DEF TypeOK
      <3> QED
        BY <2>1, <3>1 DEF Reusable, Elements
    <2>2. CASE committed' = committed \cup {v} /\ rolled_back' = rolled_back
      BY <2>2 DEF Reusable
    <2> QED
      BY <1>1, <2>1, <2>2 DEF Settle
  <1>5. Known \subseteq Known'
    BY <1>3, <1>4 DEF Known
  <1> QED
    BY <1>5 DEF NoHole, Known

\* A transactional sequence has no holes but those made by scans that gave up: no other
\* step loses a number (flom_resource_sequence_inmsg, _clean, _waitings).
THEOREM HolesExplained == Spec => HolesOnlyFromAborts
  <1>1. Init => TypeInv
    BY TypeInit
  <1>2. TypeInv /\ [Next]_vars => TypeInv'
    BY TypeStep
  <1>3. TypeInv /\ [Next]_vars =>
          [ transactional /\ ~wrapped' /\ NoHole /\ ~NoHole' => aborted' ]_vars
    <2> SUFFICES ASSUME TypeOK, Next, ~wrapped', NoHole, ~aborted'
                 PROVE  NoHole'
      BY DEF TypeInv
    <2>1. CASE UNCHANGED <<next_value, rolled_back, holders, committed>>
      BY <2>1 DEF NoHole, Held, Reusable
    <2>2. ASSUME NEW c \in Conn, Lock(c)
          PROVE  NoHole'
      <3>1. CASE LockGrant(c)
        <4>1. PICK v \in Value : get(v) /\ AddHolder(c, v) /\ committed' = committed
          BY <3>1 DEF LockGrant
        <4> QED
          BY <4>1, GetKnown
      <3>2. CASE LockEnqueue(c) \/ LockBusy(c)
        BY <2>1, <3>2 DEF LockEnqueue, LockBusy, seqVars
      <3> QED
        BY <2>2, <3>1, <3>2 DEF Lock
    <2>3. ASSUME NEW c \in Conn, NEW path \in CleanPath, Clean(c, path)
          PROVE  NoHole'
      <3>1. CASE CleanHolder(c, path)
        <4>1. PICK k \in DOMAIN holders : /\ Settle(holders[k].value, c, path)
                                          /\ holders' = RemoveAt(holders, k)
                                          /\ UNCHANGED next_value
          BY <3>1 DEF CleanHolder
        <4> QED
          BY <4>1, SettleKnown
      <3>2. CASE CleanWaiter(c, path)
        BY <2>1, <3>2 DEF CleanWaiter
      <3> QED
        BY <2>3, <3>1, <3>2 DEF Clean
    <2>4. CASE WaitingsPop
      <3>1. PICK c \in Conn, v \in Value :
               /\ get(v) /\ committed' = committed
               /\ AddHolder(c, v) \/ ScanAbort(c)
        BY <2>4, PopEffect
      <3>2. ~ScanAbort(c)
        BY DEF ScanAbort
      <3> QED
        BY <3>1, <3>2, GetKnown
    <2> QED
      BY <2>1, <2>2, <2>3, <2>4 DEF Next, Waitings, WaitingsEnd, WaitingsSkip, seqVars
  <1>4. QED
    BY <1>1, <1>2, <1>3, PTL DEF Spec, HolesOnlyFromAborts

-------------------------------------------------------------------------------
(* Locks are with the clients that were told so, and nobody waits for a free one. *)

LocksInv ==
  /\ Honest(Conns(holders), Conns(waitings))
  /\ Distinct(holders) /\ Distinct(waitings)
  /\ NoTimeout

\* A record in front of the list for a connection that has none.
LEMMA AddConn ==
  ASSUME TypeOK, Distinct(holders), NEW c \in Conn, c \notin Conns(holders),
         NEW v \in Value, AddHolder(c, v)
  PROVE  Distinct(holders') /\ Conns(holders') = Conns(holders) \cup {c}
  <1>1. PICK e \in Holder : e = [conn |-> c, value |-> v]
    BY DEF Holder
  <1>2. holders' = <<e>> \o holders /\ e.conn = c
    BY <1>1 DEF AddHolder
  <1> QED
    BY <1>2, PrependedConn DEF TypeOK

\* inmsg on a LOCK message.
LEMMA LockLocks ==
  ASSUME TypeOK, LocksInv, NEW c \in Conn, Lock(c)
  PROVE  LocksInv'
  <1>1. /\ LockerTypeOK /\ CanRead(c, "LOCK") /\ waitings \in Seq(Waiter)
        /\ Honest(Conns(holders), Conns(waitings)) /\ Distinct(holders) /\ Distinct(waitings)
        /\ NoTimeout
    BY DEF TypeOK, LocksInv, Lock
  <1>2. c \notin Conns(holders) /\ c \notin Conns(waitings)
    BY <1>1, HonestNewcomer
  <1>3. NoTimeout'
    <2>1. PICK rc \in Answer : Reply(c, rc)
      BY DEF Lock, LockGrant, LockEnqueue, LockBusy, Answer
    <2> QED
      BY <1>1, <2>1, NoTimeoutStep
  <1>4. CASE LockGrant(c)
    <2>1. PICK v \in Value : AddHolder(c, v)
      BY <1>4 DEF LockGrant
    <2>2. waitings' = waitings /\ Reply(c, "OK") /\ VfsAdd("holders", c)
      BY <1>4 DEF LockGrant
    <2>3. Distinct(holders') /\ Conns(holders') = Conns(holders) \cup {c}
      BY <1>1, <1>2, <2>1, AddConn
    <2>4. Honest(Conns(holders), Conns(waitings))'
      BY <1>1, <2>2, <2>3, HonestReply DEF Answer
    <2> QED
      BY <1>1, <1>3, <2>2, <2>3, <2>4 DEF LocksInv
  <1>5. CASE LockEnqueue(c)
    <2>1. /\ waitings' = Append(waitings, [conn |-> c]) /\ holders' = holders
          /\ Reply(c, "LOCK_ENQUEUED") /\ VfsAdd("waitings", c)
      BY <1>5 DEF LockEnqueue
    <2>2. [conn |-> c] \in Waiter /\ [conn |-> c].conn = c
      BY DEF Waiter
    <2>3. Distinct(waitings') /\ Conns(waitings') = Conns(waitings) \cup {c}
      BY <1>1, <1>2, <2>1, <2>2, AppendedConn
    <2>4. Honest(Conns(holders), Conns(waitings))'
      BY <1>1, <2>1, <2>3, HonestReply DEF Answer
    <2> QED
      BY <1>1, <1>3, <2>1, <2>3, <2>4 DEF LocksInv
  <1>6. CASE LockBusy(c)
    <2>1. Reply(c, "LOCK_BUSY") /\ UNCHANGED <<vfs, holders, waitings>>
      BY <1>6 DEF LockBusy, seqVars
    <2>2. Honest(Conns(holders), Conns(waitings))'
      BY <1>1, <2>1, HonestReply DEF Answer
    <2> QED
      BY <1>1, <1>3, <2>1, <2>2 DEF LocksInv
  <1> QED
    BY <1>4, <1>5, <1>6 DEF Lock

\* clean.
LEMMA CleanLocks ==
  ASSUME TypeOK, LocksInv, NEW c \in Conn, NEW path \in CleanPath, Clean(c, path)
  PROVE  LocksInv'
  <1>1. /\ LockerTypeOK /\ CleanEvent(c, path) /\ waitings \in Seq(Waiter)
        /\ holders \in Seq(Holder)
        /\ Honest(Conns(holders), Conns(waitings)) /\ Distinct(holders) /\ Distinct(waitings)
        /\ NoTimeout
    BY DEF TypeOK, LocksInv, Clean
  <1>2. NoTimeout'
    <2>1. StartScan(c, path) \/ EndClean(c, path)
      BY DEF Clean, CleanHolder, CleanWaiter
    <2> QED
      BY <1>1, <2>1, NoTimeoutStep
  <1>3. CASE CleanHolder(c, path)
    <2>1. PICK k \in DOMAIN holders :
            holders[k].conn = c /\ holders' = RemoveAt(holders, k)
      BY <1>3 DEF CleanHolder, IsFirstOf
    <2>2. StartScan(c, path) /\ waitings' = waitings
      BY <1>3 DEF CleanHolder
    <2>3. Distinct(holders') /\ Conns(holders') = Conns(holders) \ {c}
      BY <1>1, <2>1, RemovedConn
    <2>4. c \in Conns(holders)
      BY <2>1 DEF Conns
    <2>5. Honest(Conns(holders), Conns(waitings))'
      BY <1>1, <2>2, <2>3, <2>4, HonestRelease
    <2> QED
      BY <1>1, <1>2, <2>2, <2>3, <2>5 DEF LocksInv
  <1>4. CASE ~HasEntry(holders, c) /\ CleanWaiter(c, path)
    <2>1. holders' = holders /\ EndClean(c, path)
      BY <1>4 DEF CleanWaiter
    <2>2. c \notin Conns(holders) /\ Conns(holders') = Conns(holders) \ {c}
      BY <1>4, <2>1, HasEntryConns
    <2>3. Distinct(waitings') /\ Conns(waitings') = Conns(waitings) \ {c}
      <3>1. CASE \E k \in DOMAIN waitings :
                   IsFirstOf(waitings, k, c) /\ waitings' = RemoveAt(waitings, k)
        <4>1. PICK k \in DOMAIN waitings :
                waitings[k].conn = c /\ waitings' = RemoveAt(waitings, k)
          BY <3>1 DEF IsFirstOf
        <4> QED
          BY <1>1, <4>1, RemovedConn
      <3>2. CASE ~HasEntry(waitings, c) /\ UNCHANGED waitings
        <4>1. c \notin Conns(waitings)
          BY <3>2, HasEntryConns
        <4> QED
          BY <1>1, <3>2, <4>1
      <3> QED
        BY <1>4, <3>1, <3>2 DEF CleanWaiter
    <2>4. Honest(Conns(holders), Conns(waitings))'
      BY <1>1, <2>1, <2>2, <2>3, HonestWithdraw
    <2> QED
      BY <1>1, <1>2, <2>1, <2>3, <2>4 DEF LocksInv
  <1> QED
    BY <1>3, <1>4 DEF Clean

\* A turn of the scan.
LEMMA WaitingsLocks ==
  ASSUME TypeOK, LocksInv, Waitings
  PROVE  LocksInv'
  <1>1. /\ LockerTypeOK /\ Scanning /\ job.path # "timeout" /\ waitings \in Seq(Waiter)
        /\ Honest(Conns(holders), Conns(waitings)) /\ Distinct(holders) /\ Distinct(waitings)
        /\ NoTimeout
    BY DEF TypeOK, LocksInv, Waitings, Scanning, NoTimeout
  <1>2. NoTimeout'
    <2>1. ScanEnd \/ ScanSkip \/ (\E c : ScanGrant(c) \/ ScanAbort(c))
      BY DEF Waitings, WaitingsEnd, WaitingsSkip, WaitingsPop
    <2> QED
      BY <1>1, <2>1, NoTimeoutStep
  <1>3. CASE WaitingsEnd \/ WaitingsSkip
    <2>1. (ScanEnd \/ ScanSkip) /\ UNCHANGED <<holders, waitings>>
      BY <1>3 DEF WaitingsEnd, WaitingsSkip, seqVars
    <2>2. Honest(Conns(holders), Conns(waitings))'
      BY <1>1, <2>1, HonestScanEnd, HonestScanSkip
    <2> QED
      BY <1>1, <1>2, <2>1, <2>2 DEF LocksInv
  <1>4. CASE WaitingsPop
    <2>1. PICK c \in Conn, v \in Value :
             /\ job.i \in DOMAIN waitings /\ c = waitings[job.i].conn
             /\ waitings' = RemoveAt(waitings, job.i)
             /\ \/ ScanGrant(c) /\ AddHolder(c, v)
                \/ ScanAbort(c) /\ holders' = holders
      BY <1>4, PopEffect
    <2>2. c \in Conns(waitings)
      BY <2>1 DEF Conns
    <2>3. Distinct(waitings') /\ Conns(waitings') = Conns(waitings) \ {c}
      BY <1>1, <2>1, RemovedConn
    <2>4. c \notin Conns(holders)
      BY <1>1, <2>2 DEF Honest, HonestTo, Scanning
    <2>5. CASE ScanGrant(c) /\ AddHolder(c, v)
      <3>1. Distinct(holders') /\ Conns(holders') = Conns(holders) \cup {c}
        BY <1>1, <2>4, <2>5, AddConn
      <3>2. Honest(Conns(holders), Conns(waitings))'
        BY <1>1, <2>2, <2>3, <2>5, <3>1, HonestScanGrant
      <3> QED
        BY <1>2, <2>3, <3>1, <3>2 DEF LocksInv
    <2>6. CASE ScanAbort(c) /\ holders' = holders
      <3>1. Honest(Conns(holders), Conns(waitings))'
        BY <1>1, <2>2, <2>3, <2>6, HonestScanAbort
      <3> QED
        BY <1>1, <1>2, <2>3, <2>6, <3>1 DEF LocksInv
    <2> QED
      BY <2>1, <2>5, <2>6
  <1> QED
    BY <1>3, <1>4 DEF Waitings

\* Every step keeps the invariant.
LEMMA LocksStep ==
  ASSUME ~Retry, TypeOK, LocksInv, [Next]_vars
  PROVE  LocksInv'
  <1>1. CASE Peers({"UNLOCK", "ROLLBACK"}) /\ UNCHANGED seqVars
    <2>1. UNCHANGED <<holders, waitings>>
      BY <1>1 DEF seqVars
    <2>2. Honest(Conns(holders), Conns(waitings))'
      BY <1>1, <2>1, HonestPeers DEF TypeOK, LocksInv
    <2>3. NoTimeout'
      BY <1>1, NoTimeoutStep DEF TypeOK, LocksInv
    <2> QED
      BY <2>1, <2>2, <2>3 DEF LocksInv
  <1>2. CASE UNCHANGED vars
    BY <1>2 DEF vars, lockerVars, seqVars, LocksInv, Honest, HonestTo, ShownAs, BusyWith,
                Conns, Distinct, NoTimeout
  <1> QED
    BY <1>1, <1>2, LockLocks, CleanLocks, WaitingsLocks DEF Next

\* Nobody holds or waits at the beginning.
LEMMA LocksInit == Init => LocksInv
  <1> SUFFICES ASSUME Init
               PROVE  LocksInv
    OBVIOUS
  <1>1. Conns(holders) = {} /\ Conns(waitings) = {} /\ Distinct(holders) /\ Distinct(waitings)
    BY DEF Init, Conns, Distinct
  <1>2. Honest({}, {}) /\ NoTimeout
    BY HonestInit DEF Init, LockerInit, NoTimeout
  <1> QED
    BY <1>1, <1>2 DEF LocksInv

\* What the scan knows: it goes past an entry only when there is no room left.
ScanInv ==
  thread = "loop" =>
    /\ Scanning /\ job.i > 1 => ~can_lock
    /\ ~Scanning /\ ~aborted => waitings = <<>> \/ ~can_lock

\* inmsg between two scans.
LEMMA LockScanInv ==
  ASSUME TypeOK, ScanInv, NEW c \in Conn, Lock(c)
  PROVE  ScanInv'
  <1>1. thread = "loop" /\ ~Scanning
    BY DEF Lock, CanRead, Polling, Scanning
  <1>2. aborted' = aborted /\ ~Scanning'
    BY <1>1 DEF Lock, LockGrant, LockEnqueue, LockBusy, Reply, CanRead, Polling, Scanning
  <1>3. CASE LockGrant(c)
    BY <1>1, <1>2, <1>3 DEF LockGrant, ScanInv
  <1>4. CASE LockEnqueue(c) \/ LockBusy(c)
    <2>1. ~can_lock /\ locked' = locked
      BY <1>4 DEF LockEnqueue, LockBusy, seqVars
    <2> QED
      BY <1>2, <2>1 DEF ScanInv, can_lock
  <1> QED
    BY <1>3, <1>4 DEF Lock

\* clean starts a scan or shortens the queue.
LEMMA CleanScanInv ==
  ASSUME TypeOK, ScanInv, NEW c \in Conn, NEW path \in CleanPath, Clean(c, path)
  PROVE  ScanInv'
  <1>1. thread = "loop" /\ ~Scanning
    BY DEF Clean, CleanEvent, HungUp, Scanning, CleanPath
  <1>2. CASE CleanHolder(c, path)
    <2>1. thread' = "loop" /\ job' = [path |-> path, conn |-> c, i |-> 1]
      BY <1>1, <1>2 DEF CleanHolder, StartScan
    <2>2. Scanning' /\ job'.i = 1
      BY <2>1 DEF Scanning, Idle, CleanPath
    <2> QED
      BY <2>2 DEF ScanInv
  <1>3. CASE CleanWaiter(c, path)
    <2>1. thread' = "loop" /\ ~Scanning' /\ aborted' = aborted /\ locked' = locked
      BY <1>1, <1>3 DEF CleanWaiter, EndClean, Scanning
    <2>2. waitings = <<>> => waitings' = <<>>
      BY <1>3 DEF CleanWaiter
    <2> QED
      BY <1>1, <2>1, <2>2 DEF ScanInv, can_lock
  <1> QED
    BY <1>2, <1>3 DEF Clean

\* A turn of the scan.
LEMMA WaitingsScanInv ==
  ASSUME TypeOK, ScanInv, Waitings
  PROVE  ScanInv'
  <1>1. thread = "loop" /\ Scanning /\ (job.i > 1 => ~can_lock)
    BY DEF Waitings, Scanning, ScanInv
  <1>2. /\ job \in [path : {"unlock", "error", "second", "reclean", "timeout"},
                    conn : Conn, i : Nat]
        /\ job.i \in Nat
        /\ waitings \in Seq(Waiter) /\ Len(waitings) \in Nat
    BY <1>1, JobFields, LenProperties DEF TypeOK, Scanning
  <1>3. CASE WaitingsEnd
    <2>1. ~Scanning' /\ UNCHANGED <<locked, waitings>> /\ job.i > Len(waitings)
      BY <1>3 DEF WaitingsEnd, ScanEnd, Scanning, seqVars
    <2>2. CASE Len(waitings) = 0
      BY <1>2, <2>1, <2>2, EmptySeq DEF ScanInv
    <2>3. CASE Len(waitings) # 0
      <3>1. ~can_lock
        BY <1>1, <1>2, <2>1, <2>3
      <3> QED
        BY <2>1, <3>1 DEF ScanInv, can_lock
    <2> QED
      BY <2>2, <2>3
  <1>4. CASE WaitingsSkip
    <2>1. ~can_lock /\ locked' = locked /\ thread' = thread /\ job' = [job EXCEPT !.i = @ + 1]
      BY <1>4 DEF WaitingsSkip, ScanSkip, seqVars
    <2>2. Scanning'
      BY <1>1, <1>2, <2>1 DEF Scanning, Idle
    <2> QED
      BY <2>1, <2>2 DEF ScanInv, can_lock
  <1>5. CASE WaitingsPop
    <2>1. ~(job.i > 1)
      BY <1>1, <1>5 DEF WaitingsPop
    <2>2. \/ UNCHANGED <<job, thread>>
          \/ aborted' = TRUE /\ (job' = Idle \/ job'.path = "reclean")
      BY <1>5 DEF WaitingsPop, ScanGrant, ScanAbort
    <2> QED
      BY <1>1, <2>1, <2>2 DEF ScanInv, Scanning
  <1> QED
    BY <1>3, <1>4, <1>5 DEF Waitings

\* Every step keeps it.
LEMMA ScanStep ==
  ASSUME TypeOK, ScanInv, [Next]_vars
  PROVE  ScanInv'
  <1>1. CASE UNCHANGED <<thread, job, aborted, seqVars>>
    BY <1>1 DEF seqVars, ScanInv, Scanning, can_lock
  <1>2. CASE Peers({"UNLOCK", "ROLLBACK"}) /\ UNCHANGED seqVars
    <2>1. UNCHANGED <<thread, job, aborted>>
      BY <1>2 DEF Peers, Transfer, RetryLock, Unlock, Disconnect, Crash
    <2> QED
      BY <1>1, <1>2, <2>1
  <1> QED
    BY <1>1, <1>2, LockScanInv, CleanScanInv, WaitingsScanInv DEF Next, vars, lockerVars

\* While no program locks a handle again whose last call timed out: locked_quantity is
\* the number of the holders and never more than the resource has, an UNLOCK message
\* comes from a holder, so that inmsg never refuses one, and nobody waits for a lock
\* that is free (flom_resource_sequence_inmsg, _clean, _waitings).
THEOREM SequenceServed ==
  ASSUME ~Retry
  PROVE  Spec => []LocksServed
  <1> DEFINE Inv == TypeInv /\ LocksInv /\ ScanInv
  <1>1. Init => Inv
    <2>1. Init => ScanInv
      BY DEF Init, LockerInit, ScanInv, Scanning
    <2> QED
      BY <2>1, TypeInit, LocksInit
  <1>2. Inv /\ [Next]_vars => Inv'
    BY TypeStep, LocksStep, ScanStep DEF TypeInv
  <1>3. Inv => LocksServed
    <2> SUFFICES ASSUME TypeInv, LocksInv, ScanInv
                 PROVE  LocksServed
      OBVIOUS
    <2>1. UnlockFromHolder
      BY HasEntryConns DEF UnlockFromHolder, LocksInv, Honest, HonestTo
    <2>2. NoLostWakeup
      BY DEF NoLostWakeup, ScanInv, Polling, Scanning
    <2> QED
      BY <2>1, <2>2 DEF LocksServed, TypeInv
  <1>4. QED
    BY <1>1, <1>2, <1>3, PTL DEF Spec
===============================================================================
