----------------------- MODULE ResourceTimestampProofs -----------------------
(***************************************************************************)
(* Proofs about ResourceTimestamp, for any set of connections, any number  *)
(* of locks, any length of seconds, slots and polls, and any stretch of    *)
(* time.                                                                   *)
(***************************************************************************)
EXTENDS ResourceTimestamp, LockerProofs

-------------------------------------------------------------------------------
(* Slots of time. *)

\* A quotient is the number of whole slots.
LEMMA Quotient ==
  ASSUME NEW a \in Nat, NEW n \in Nat \ {0}
  PROVE  /\ a \div n \in Nat
         /\ n * (a \div n) <= a
         /\ a < n * (a \div n) + n
         /\ a % n = a - n * (a \div n)
         /\ a % n \in Nat
  OBVIOUS

\* A number reaches q slots exactly when it is q times the slot or more.
LEMMA QuotientReaches ==
  ASSUME NEW a \in Nat, NEW n \in Nat \ {0}, NEW q \in Nat
  PROVE  a \div n >= q <=> a >= q * n
  <1>1. PICK k \in Nat : k = a \div n /\ n * k <= a /\ a < n * k + n
    BY Quotient
  <1>2. CASE k >= q
    <2>1. PICK d \in Nat : k = q + d
      BY <1>2
    <2>2. n * k = q * n + n * d /\ n * d \in Nat /\ q * n \in Nat
      BY <2>1
    <2> QED
      BY <1>1, <1>2, <2>2
  <1>3. CASE k < q
    <2>1. PICK d \in Nat : q = k + 1 + d
      BY <1>3
    <2>2. q * n = n * k + n + n * d /\ n * d \in Nat /\ n * k \in Nat
      BY <2>1
    <2> QED
      BY <1>1, <1>3, <2>2
  <1> QED
    BY <1>2, <1>3

\* The seconds and the rest make up the time; an earlier time has no more seconds.
LEMMA Seconds ==
  ASSUME NEW t \in Nat
  PROVE  /\ tv_sec(t) \in Nat /\ tv_usec(t) \in Nat
         /\ tv_sec(t) * SEC \in Nat
         /\ t = tv_sec(t) * SEC + tv_usec(t)
         /\ \A u \in Nat : u <= t => tv_sec(u) <= tv_sec(t)
  <1>1. SEC \in Nat \ {0}
    BY TimeAssumption
  <1>2. /\ tv_sec(t) \in Nat /\ tv_usec(t) \in Nat
        /\ tv_sec(t) * SEC \in Nat
        /\ t = tv_sec(t) * SEC + tv_usec(t)
    BY <1>1, Quotient DEF tv_sec, tv_usec
  <1>3. ASSUME NEW u \in Nat, u <= t
        PROVE  tv_sec(u) <= tv_sec(t)
    <2>1. u \div SEC \in Nat /\ t \div SEC \in Nat /\ u \div SEC >= u \div SEC
      BY <1>1, Quotient
    <2>2. u >= (u \div SEC) * SEC /\ (u \div SEC) * SEC \in Nat
      BY <1>1, <2>1, QuotientReaches
    <2>3. t >= (u \div SEC) * SEC
      BY <1>3, <2>2
    <2>4. t \div SEC >= u \div SEC
      BY <1>1, <2>1, <2>3, QuotientReaches
    <2> QED
      BY <2>1, <2>4 DEF tv_sec
  <1> QED
    BY <1>2, <1>3

\* The truncated quotient is less than a millisecond away.
LEMMA Truncation ==
  ASSUME NEW x \in Int
  PROVE  /\ Milliseconds(x) \in Int
         /\ Milliseconds(x) * MSEC < x + MSEC /\ Milliseconds(x) * MSEC > x - MSEC
  <1>1. MSEC \in Nat \ {0}
    BY TimeAssumption
  <1>2. CASE x >= 0
    <2>1. PICK q \in Nat : q = x \div MSEC /\ MSEC * q <= x /\ x < MSEC * q + MSEC
      BY <1>1, <1>2, Quotient
    <2>2. Milliseconds(x) = q /\ MSEC * q \in Int /\ q * MSEC = MSEC * q
      BY <1>1, <1>2, <2>1 DEF Milliseconds
    <2> QED
      BY <1>1, <2>1, <2>2
  <1>3. CASE x < 0
    <2>1. PICK y \in Nat : y = -x
      BY <1>3
    <2>2. PICK q \in Nat : q = y \div MSEC /\ MSEC * q <= y /\ y < MSEC * q + MSEC
      BY <1>1, Quotient
    <2>3. Milliseconds(x) = -q /\ MSEC * q \in Int /\ (-q) * MSEC = -(MSEC * q)
      BY <1>1, <1>3, <2>1, <2>2 DEF Milliseconds
    <2> QED
      BY <1>1, <2>1, <2>2, <2>3
  <1> QED
    BY <1>2, <1>3

\* A deadline that is not past is waited for, and a little more; the timeout never ends
\* much later than the deadline, or an idle period from now.
LEMMA Waited ==
  ASSUME NEW t \in Nat, NEW d \in Nat
  PROVE  /\ get_timeout(t, d) \in Nat
         /\ get_timeout(t, d) < d + 2 * MSEC \/ get_timeout(t, d) = t + IDLE
         /\ t <= d => get_timeout(t, d) > d /\ get_timeout(t, d) < d + 2 * MSEC
  <1>1. SEC \in Nat \ {0} /\ MSEC \in Nat \ {0} /\ IDLE \in Nat
    BY TimeAssumption
  <1>2. PICK k \in Nat : SEC = k * MSEC
    BY <1>1, TimeAssumption
  <1>3. SEC \div MSEC = k
    <2>1. PICK q \in Nat : q = SEC \div MSEC /\ MSEC * q <= SEC /\ SEC < MSEC * q + MSEC
      BY <1>1, Quotient
    <2>2. q >= k
      BY <1>1, <1>2, <2>1, QuotientReaches
    <2>3. CASE q >= k + 1
      <3>1. SEC >= (k + 1) * MSEC
        BY <1>1, <2>1, <2>3, QuotientReaches
      <3>2. (k + 1) * MSEC = k * MSEC + MSEC
        BY <1>1
      <3> QED
        BY <1>1, <1>2, <3>1, <3>2
    <2> QED
      BY <2>1, <2>2, <2>3
  <1>4. PICK s \in Int : s = tv_sec(d) - tv_sec(t)
    BY Seconds
  <1>5. PICK x \in Int : x = tv_usec(d) - tv_usec(t)
    BY Seconds
  <1>6. d = t + s * SEC + x /\ s * SEC \in Int
    <2>1. PICK a \in Nat, b \in Nat : a = tv_sec(d) /\ b = tv_sec(t)
      BY Seconds
    <2>2. d = a * SEC + tv_usec(d) /\ t = b * SEC + tv_usec(t) /\ tv_usec(d) \in Nat /\ tv_usec(t) \in Nat
      BY <2>1, Seconds
    <2>3. s * SEC = a * SEC - b * SEC /\ a * SEC \in Nat /\ b * SEC \in Nat
      BY <1>1, <1>4, <2>1
    <2> QED
      BY <1>5, <2>2, <2>3
  <1>7. PICK m \in Int : m = Milliseconds(x) /\ m * MSEC < x + MSEC /\ m * MSEC > x - MSEC
    BY Truncation
  <1>8. PICK diff \in Int : diff = s * k + m + 1
    BY <1>7
  <1>9. get_timeout(t, d) = IF diff >= 0 THEN t + diff * MSEC ELSE t + IDLE
    BY <1>3, <1>4, <1>5, <1>7, <1>8 DEF get_timeout
  <1>10. diff * MSEC = s * SEC + m * MSEC + MSEC /\ m * MSEC \in Int /\ diff * MSEC \in Int
    <2>1. diff * MSEC = (s * k) * MSEC + m * MSEC + MSEC
      BY <1>1, <1>7, <1>8
    <2>2. (s * k) * MSEC = s * (k * MSEC)
      BY <1>1
    <2> QED
      BY <1>1, <1>2, <1>7, <1>8, <2>1, <2>2
  <1>11. t + diff * MSEC > d /\ t + diff * MSEC < d + 2 * MSEC
    BY <1>1, <1>6, <1>7, <1>10
  <1>12. diff >= 0 => diff * MSEC >= 0
    BY <1>1
  <1>13. diff < 0 => diff * MSEC < 0
    BY <1>1
  <1> QED
    BY <1>1, <1>9, <1>10, <1>11, <1>12, <1>13

\* The format of a resource that was created.
Formatted == format \in {"fraction", "second", "minute"} /\ offset \in 0..(COARSE - 1)

\* The number of the slot of time t, and the length of a slot.
Slot(t) == IF format = "fraction" THEN t ELSE tv_sec(t) \div IntervalSec
Width == IF format = "fraction" THEN 1 ELSE IntervalSec * SEC

\* The interval that init has found.
LEMMA Interval ==
  ASSUME Formatted
  PROVE  /\ format = "fraction" => IntervalUsec = 1 /\ IntervalSec = 0
         /\ format # "fraction" => IntervalUsec = 0 /\ IntervalSec \in 1..COARSE
         /\ Width \in Nat \ {0}
         /\ Width <= SEC * COARSE
  <1>1. SEC \in Nat \ {0} /\ COARSE \in Nat \ {0}
    BY TimeAssumption
  <1>2. /\ format = "fraction" => IntervalUsec = 1 /\ IntervalSec = 0
        /\ format # "fraction" => IntervalUsec = 0 /\ IntervalSec \in 1..COARSE
    BY <1>1 DEF Formatted, IntervalUsec, IntervalSec
  <1>3. PICK w : w = Width
    OBVIOUS
  <1>4. w \in Nat \ {0} /\ w <= SEC * COARSE
    <2>1. CASE format = "fraction"
      BY <1>1, <1>3, <2>1 DEF Width
    <2>2. CASE format # "fraction"
      <3>1. PICK n \in 1..COARSE : n = IntervalSec
        BY <1>2, <2>2
      <3>2. w = n * SEC
        BY <1>3, <2>2, <3>1 DEF Width
      <3>3. PICK d \in Nat : COARSE = n + d
        BY <1>1, <3>1
      <3>4. SEC * COARSE = n * SEC + SEC * d /\ SEC * d \in Nat /\ n * SEC \in Nat \ {0}
        BY <1>1, <3>1, <3>3
      <3> QED
        BY <3>2, <3>4
    <2> QED
      BY <2>1, <2>2
  <1> QED
    BY <1>2, <1>3, <1>4

\* Slots begin at the multiples of their length.
LEMMA SlotReaches ==
  ASSUME Formatted, NEW t \in Nat, NEW q \in Nat
  PROVE  Slot(t) \in Nat /\ (Slot(t) >= q <=> t >= q * Width)
  <1>1. SEC \in Nat \ {0}
    BY TimeAssumption
  <1>2. CASE format = "fraction"
    <2>1. Slot(t) = t /\ Width = 1
      BY <1>2 DEF Slot, Width
    <2> QED
      BY <2>1
  <1>3. CASE format # "fraction"
    <2>1. PICK n \in Nat \ {0} : n = IntervalSec
      BY <1>3, Interval, TimeAssumption
    <2>2. PICK s \in Nat : s = tv_sec(t) /\ s = t \div SEC
      BY <1>1, Quotient DEF tv_sec
    <2>3. Slot(t) = s \div n /\ Width = n * SEC
      BY <1>3, <2>1, <2>2 DEF Slot, Width
    <2>4. s \div n \in Nat
      BY Quotient
    <2>5. s \div n >= q <=> s >= q * n
      BY QuotientReaches
    <2>6. q * n \in Nat
      OBVIOUS
    <2>7. s >= q * n <=> t >= (q * n) * SEC
      BY <1>1, <2>2, <2>6, QuotientReaches
    <2>8. (q * n) * SEC = q * (n * SEC)
      BY <1>1
    <2> QED
      BY <2>3, <2>4, <2>5, <2>7, <2>8
  <1> QED
    BY <1>2, <1>3

\* can_lock compares slots, provided, for fractions of a second, that the clock was
\* not set back behind the last timestamp.
LEMMA PassedMeansLater ==
  ASSUME Formatted, last \in Nat, NEW t \in Nat, format = "fraction" => t >= last
  PROVE  SlotPassed(t) <=> Slot(t) > Slot(last)
  <1>1. CASE format = "fraction"
    <2>1. IntervalUsec = 1 /\ Slot(t) = t /\ Slot(last) = last
      BY <1>1, Interval DEF Slot
    <2>2. PICK a \in Nat, b \in Nat, x \in Nat, y \in Nat :
            /\ a = tv_sec(t) /\ b = tv_usec(t) /\ x = tv_sec(last) /\ y = tv_usec(last)
      BY Seconds
    <2>3. /\ t = a * SEC + b /\ last = x * SEC + y /\ x <= a
          /\ a * SEC \in Nat /\ x * SEC \in Nat
      BY <1>1, <2>2, Seconds
    <2>4. b \div 1 = b /\ y \div 1 = y
      OBVIOUS
    <2>5. SlotPassed(t) <=> a > x \/ b > y
      BY <2>1, <2>2, <2>4 DEF SlotPassed
    <2>6. CASE a = x
      BY <1>1, <2>1, <2>3, <2>5, <2>6
    <2>7. CASE a > x
      <3>1. t # last
        BY <2>2, <2>7
      <3> QED
        BY <1>1, <2>1, <2>5, <2>7, <3>1
    <2> QED
      BY <2>3, <2>6, <2>7
  <1>2. CASE format # "fraction"
    <2>1. IntervalUsec = 0 /\ IntervalSec > 0
      BY <1>2, Interval, TimeAssumption
    <2> QED
      BY <1>2, <2>1 DEF SlotPassed, Slot
  <1> QED
    BY <1>1, <1>2

\* next_deadline is where the next slot begins, at most the longest slot ahead.
LEMMA DeadlineIsNextSlot ==
  ASSUME Formatted, NEW t \in Nat
  PROVE  /\ next_deadline(t) = (Slot(t) + 1) * Width
         /\ next_deadline(t) \in Nat
         /\ t < next_deadline(t)
         /\ next_deadline(t) <= t + SEC * COARSE
  <1>1. PICK w \in Nat \ {0} : w = Width /\ w <= SEC * COARSE
    BY Interval
  <1>2. PICK q \in Nat : q = Slot(t)
    BY SlotReaches
  <1>3. next_deadline(t) = (q + 1) * w
    <2>1. CASE format = "fraction"
      <3>1. IntervalUsec = 1 /\ IntervalSec = 0 /\ q = t /\ w = 1
        BY <1>1, <1>2, <2>1, Interval DEF Slot, Width
      <3>2. PICK a \in Nat, b \in Nat : a = tv_sec(t) /\ b = tv_usec(t)
        BY Seconds
      <3>3. t = a * SEC + b /\ a * SEC \in Nat
        BY <3>2, Seconds
      <3>4. b \div 1 = b
        OBVIOUS
      <3>5. next_deadline(t) = a * SEC + (b + 1) * 1
        BY <3>1, <3>2, <3>4 DEF next_deadline
      <3> QED
        BY <3>1, <3>3, <3>5
    <2>2. CASE format # "fraction"
      <3>1. PICK n \in Nat \ {0} : n = IntervalSec
        BY <2>2, Interval, TimeAssumption
      <3>2. next_deadline(t) = (q + 1) * n * SEC /\ w = n * SEC
        BY <1>1, <1>2, <2>2, <3>1 DEF next_deadline, Slot, Width
      <3>3. (q + 1) * n * SEC = (q + 1) * (n * SEC)
        BY TimeAssumption
      <3> QED
        BY <3>2, <3>3
    <2> QED
      BY <2>1, <2>2
  <1>4. t >= q * w /\ ~(t >= (q + 1) * w)
    <2>1. q >= q /\ ~(q >= q + 1) /\ q + 1 \in Nat
      OBVIOUS
    <2>2. t >= q * w
      BY <1>1, <1>2, <2>1, SlotReaches
    <2>3. ~(t >= (q + 1) * w)
      BY <1>1, <1>2, <2>1, SlotReaches
    <2> QED
      BY <2>2, <2>3
  <1>5. (q + 1) * w = q * w + w /\ q * w \in Nat
    OBVIOUS
  <1>6. SEC * COARSE \in Nat
    BY TimeAssumption
  <1> QED
    BY <1>1, <1>2, <1>3, <1>4, <1>5, <1>6

\* While the clock has not been set back, the slot of the last timestamp has passed
\* when the deadline asked for is reached.
LEMMA PassedAtDeadline ==
  ASSUME Formatted, last \in Nat, NEW t \in Nat, t >= last
  PROVE  SlotPassed(t) <=> t >= next_deadline(last)
  <1>1. PICK q \in Nat : q = Slot(last)
    BY SlotReaches
  <1>2. PICK s \in Nat : s = Slot(t)
    BY SlotReaches
  <1>3. q + 1 \in Nat /\ (s > q <=> s >= q + 1)
    OBVIOUS
  <1>4. s >= q + 1 <=> t >= (q + 1) * Width
    BY <1>2, <1>3, SlotReaches
  <1>5. next_deadline(last) = (q + 1) * Width
    BY <1>1, DeadlineIsNextSlot
  <1>6. SlotPassed(t) <=> s > q
    BY <1>1, <1>2, PassedMeansLater
  <1> QED
    BY <1>3, <1>4, <1>5, <1>6

-------------------------------------------------------------------------------
(* The clock, the timestamps and the deadline. *)

\* Times are within the bound.
Clocked ==
  /\ Formatted
  /\ now \in 0..(MaxClock + Start) /\ last \in 0..MaxClock
  /\ deadline \in 0..(MaxClock + Start) /\ wake \in 0..(MaxClock + Start + 2 * MSEC + IDLE)
  /\ stamps \in Seq(Nat)

\* The slots of the timestamps given out rise, up to that of the last one.  For
\* fractions of a second this needs a clock that is not set back.
StampsInv ==
  /\ ~steppedBack => last <= now
  /\ (format = "fraction" => ~steppedBack) =>
       /\ \A j, k \in DOMAIN stamps : j < k => Slot(stamps[j]) < Slot(stamps[k])
       /\ \A k \in DOMAIN stamps : Slot(stamps[k]) <= Slot(last)

\* A deadline that was asked for is that of the last timestamp, and until then poll()
\* waits for it, and up to two milliseconds more.
WakeInv ==
  armed /\ ~steppedBack =>
    /\ deadline = next_deadline(last)
    /\ now < deadline => wake > deadline /\ wake < deadline + 2 * MSEC

ClockInv == Clocked /\ StampsInv /\ WakeInv

\* What a step of the thread, or of the clock, does to them.
Unasked ==
  UNCHANGED <<clockVars, stampVars>> /\ wake' \in {wake, get_timeout(now, deadline)}

Stamped == SlotPassed(now) /\ get /\ wake' \in {wake, get_timeout(now', deadline)}

Asked ==
  /\ UNCHANGED <<clockVars, last, stamps>>
  /\ deadline' = next_deadline(last) /\ armed' = TRUE
  /\ wake' = get_timeout(now, deadline')

ClockMoved ==
  /\ UNCHANGED <<format, offset, stampVars, wake>>
  /\ \/ now < MaxClock /\ now' = now + 1 /\ UNCHANGED steppedBack
     \/ now' \in Start..(now - 1) /\ steppedBack' = TRUE

\* Every step does one of these.
LEMMA ClockSteps ==
  ASSUME [Next]_vars
  PROVE  Unasked \/ Stamped \/ Asked \/ ClockMoved
  <1>1. CASE UNCHANGED <<clockVars, stampVars, wake>>
    BY <1>1 DEF Unasked
  <1>2. ASSUME NEW c \in Conn, Lock(c)
        PROVE  Unasked \/ Stamped \/ Asked
    <2>1. CASE LockGrant(c)
      <3>1. SlotPassed(now) /\ get /\ deadline' = deadline
        BY <2>1 DEF LockGrant, can_lock, get
      <3> QED
        BY <1>2, <3>1 DEF Lock, Stamped
    <2>2. CASE LockEnqueue(c)
      BY <1>2, <2>2 DEF Lock, LockEnqueue, Asked, clockVars
    <2>3. CASE LockBusy(c)
      BY <1>2, <2>3 DEF Lock, LockBusy, Unasked, clockVars, stampVars
    <2> QED
      BY <1>2, <2>1, <2>2, <2>3 DEF Lock
  <1>3. ASSUME NEW c \in Conn, NEW path \in CleanPath, Clean(c, path)
        PROVE  Unasked
    BY <1>3 DEF Clean, Unasked
  <1>4. CASE Waitings
    <2>1. CASE WaitingsEnd
      BY <2>1 DEF WaitingsEnd, TimeoutEnd, CleanScanEnd, Asked, Unasked
    <2>2. CASE WaitingsSkip
      BY <1>1, <2>2 DEF WaitingsSkip
    <2>3. CASE WaitingsPop
      BY <2>3 DEF WaitingsPop, can_lock, Stamped
    <2> QED
      BY <1>4, <2>1, <2>2, <2>3 DEF Waitings
  <1>5. CASE Timeout
    BY <1>5 DEF Timeout, TimeoutScan, TimeoutIdle, Unasked
  <1>6. CASE Tick \/ StepBack
    BY <1>6 DEF Tick, StepBack, ClockMoved, stampVars
  <1>7. CASE UNCHANGED vars
    BY <1>1, <1>7 DEF vars
  <1> QED
    BY <1>1, <1>2, <1>3, <1>4, <1>5, <1>6, <1>7 DEF Next

\* Slots and deadlines depend on the format only, which init sets.
LEMMA FormatKept ==
  ASSUME Unasked \/ Stamped \/ Asked \/ ClockMoved
  PROVE  /\ UNCHANGED <<format, offset>> /\ Formatted' = Formatted
         /\ \A t : Slot(t)' = Slot(t) /\ next_deadline(t)' = next_deadline(t)
  <1>1. UNCHANGED <<format, offset>>
    BY DEF Unasked, Stamped, Asked, ClockMoved, clockVars, get
  <1> QED
    BY <1>1 DEF Formatted, Slot, next_deadline, IntervalSec, IntervalUsec

\* Times stay within the bound.
LEMMA ClockedStep ==
  ASSUME Clocked, [Next]_vars
  PROVE  Clocked'
  <1>1. Unasked \/ Stamped \/ Asked \/ ClockMoved
    BY ClockSteps
  <1>2. Formatted /\ Formatted'
    BY <1>1, FormatKept DEF Clocked
  <1>3. PICK start \in Nat : start = Start /\ start = SEC * COARSE
    BY TimeAssumption DEF Start
  <1>4. MaxClock \in Nat /\ IDLE \in Nat /\ MSEC \in Nat
    BY TimeAssumption
  <1>5. /\ now \in 0..(MaxClock + start) /\ last \in 0..MaxClock
        /\ deadline \in 0..(MaxClock + start) /\ wake \in 0..(MaxClock + start + 2 * MSEC + IDLE)
        /\ stamps \in Seq(Nat)
    BY <1>3 DEF Clocked
  <1>6. \A t, d \in 0..(MaxClock + start) : get_timeout(t, d) \in 0..(MaxClock + start + 2 * MSEC + IDLE)
    <2> SUFFICES ASSUME NEW t \in 0..(MaxClock + start), NEW d \in 0..(MaxClock + start)
                 PROVE  get_timeout(t, d) \in 0..(MaxClock + start + 2 * MSEC + IDLE)
      OBVIOUS
    <2>1. t \in Nat /\ d \in Nat
      BY <1>4
    <2>2. PICK w : w = get_timeout(t, d)
      OBVIOUS
    <2>3. w \in Nat /\ (w < d + 2 * MSEC \/ w = t + IDLE)
      BY <2>1, <2>2, Waited
    <2> QED
      BY <1>4, <2>2, <2>3
  <1>7. CASE Unasked
    BY <1>2, <1>3, <1>5, <1>6, <1>7 DEF Unasked, clockVars, stampVars, Clocked, Start
  <1>8. CASE Stamped
    <2>1. /\ now' \in 0..MaxClock /\ last' = now' /\ deadline' = deadline
          /\ stamps' = Append(stamps, now')
      BY <1>4, <1>5, <1>8 DEF Stamped, get
    <2>2. stamps' \in Seq(Nat)
      BY <1>5, <2>1, AppendedProperties
    <2>3. now' \in 0..(MaxClock + start) /\ last' \in 0..MaxClock
      BY <1>4, <2>1
    <2>4. wake' \in 0..(MaxClock + start + 2 * MSEC + IDLE)
      BY <1>5, <1>6, <1>8, <2>3 DEF Stamped
    <2> QED
      BY <1>2, <1>3, <1>5, <2>1, <2>2, <2>3, <2>4 DEF Clocked, Start
  <1>9. CASE Asked
    <2>1. last \in Nat
      BY <1>5
    <2>2. next_deadline(last) \in Nat /\ next_deadline(last) <= last + start
      BY <1>2, <1>3, <2>1, DeadlineIsNextSlot
    <2>3. deadline' \in 0..(MaxClock + start)
      BY <1>4, <1>5, <1>9, <2>2 DEF Asked
    <2>4. wake' \in 0..(MaxClock + start + 2 * MSEC + IDLE)
      BY <1>5, <1>6, <1>9, <2>3 DEF Asked
    <2>5. UNCHANGED <<now, last, stamps>>
      BY <1>9 DEF Asked, clockVars
    <2> QED
      BY <1>2, <1>3, <1>5, <2>3, <2>4, <2>5 DEF Clocked, Start
  <1>10. CASE ClockMoved
    <2>1. UNCHANGED <<last, deadline, wake, stamps>>
      BY <1>10 DEF ClockMoved, stampVars
    <2>2. now' \in 0..(MaxClock + start)
      BY <1>3, <1>4, <1>5, <1>10 DEF ClockMoved
    <2> QED
      BY <1>2, <1>3, <1>5, <2>1, <2>2 DEF Clocked, Start
  <1> QED
    BY <1>1, <1>7, <1>8, <1>9, <1>10

\* A timestamp that is given out is in a later slot than those before it.
LEMMA StampsStep ==
  ASSUME Clocked, StampsInv, [Next]_vars
  PROVE  StampsInv'
  <1>1. Unasked \/ Stamped \/ Asked \/ ClockMoved
    BY ClockSteps
  <1>2. UNCHANGED format /\ \A t : Slot(t)' = Slot(t)
    BY <1>1, FormatKept
  <1>3. now \in Nat /\ last \in Nat /\ stamps \in Seq(Nat) /\ Formatted
    BY TimeAssumption DEF Clocked, Start
  <1>4. CASE UNCHANGED <<last, stamps>> /\ (UNCHANGED <<now, steppedBack>> \/ ClockMoved)
    <2>1. ~steppedBack' => ~steppedBack /\ now <= now'
      BY <1>3, <1>4 DEF ClockMoved
    <2>2. now' \in Nat
      <3>1. PICK start \in Nat : start = Start
        BY TimeAssumption DEF Start
      <3> QED
        BY <1>3, <1>4, <3>1 DEF ClockMoved
    <2>3. ~steppedBack' => last' <= now'
      BY <1>3, <1>4, <2>1, <2>2 DEF StampsInv
    <2>4. (format = "fraction" => ~steppedBack)' => (format = "fraction" => ~steppedBack)
      BY <1>2, <2>1
    <2> QED
      BY <1>2, <1>4, <2>3, <2>4 DEF StampsInv
  <1>5. CASE Stamped
    <2>1. PICK v \in Nat : v = now' /\ now <= v
      BY <1>3, <1>5 DEF Stamped, get
    <2>2. /\ last' = v /\ stamps' = Append(stamps, v) /\ UNCHANGED steppedBack
          /\ SlotPassed(now)
      BY <1>5, <2>1 DEF Stamped, get
    <2>3. ~steppedBack' => last' <= now'
      BY <2>1, <2>2
    <2>4. ASSUME format = "fraction" => ~steppedBack
          PROVE  /\ \A j, k \in DOMAIN stamps' : j < k => Slot(stamps'[j]) < Slot(stamps'[k])
                 /\ \A k \in DOMAIN stamps' : Slot(stamps'[k]) <= Slot(v)
      <3>1. PICK a \in Nat, b \in Nat, m \in Nat : a = Slot(last) /\ b = Slot(v) /\ m = Slot(now)
        BY <1>3, SlotReaches
      <3>2. m > a
        BY <1>3, <2>2, <2>4, <3>1, PassedMeansLater DEF StampsInv
      <3>3. b >= m
        <4>1. now >= m * Width
          BY <1>3, <3>1, SlotReaches
        <4>2. m * Width \in Nat
          BY <1>3, Interval
        <4>3. v >= m * Width
          BY <1>3, <2>1, <4>1, <4>2
        <4> QED
          BY <1>3, <3>1, <4>3, SlotReaches
      <3>4. b > a
        BY <3>2, <3>3
      <3>5. Len(stamps) \in Nat /\ DOMAIN stamps = 1..Len(stamps)
        BY <1>3, LenProperties
      <3>6. /\ DOMAIN stamps' = 1..(Len(stamps) + 1)
            /\ \A j \in 1..(Len(stamps) + 1) :
                 stamps'[j] = IF j = Len(stamps) + 1 THEN v ELSE stamps[j]
        BY <1>3, <2>2, AppendedProperties
      <3>7. \A j \in DOMAIN stamps : Slot(stamps[j]) \in Nat /\ Slot(stamps[j]) <= a
        <4>1. \A j \in DOMAIN stamps : stamps[j] \in Nat
          BY <1>3, ElementOfSeq, LenProperties
        <4> QED
          BY <1>3, <2>4, <3>1, <4>1, SlotReaches DEF StampsInv
      <3>8. \A k \in DOMAIN stamps' : Slot(stamps'[k]) <= Slot(v)
        BY <3>1, <3>4, <3>5, <3>6, <3>7
      <3>9. ASSUME NEW j \in DOMAIN stamps', NEW k \in DOMAIN stamps', j < k
            PROVE  Slot(stamps'[j]) < Slot(stamps'[k])
        <4>1. j \in DOMAIN stamps /\ stamps'[j] = stamps[j]
          BY <3>5, <3>6, <3>9
        <4>2. CASE k = Len(stamps) + 1
          BY <3>1, <3>4, <3>6, <3>7, <4>1, <4>2
        <4>3. CASE k # Len(stamps) + 1
          <5>1. k \in DOMAIN stamps /\ stamps'[k] = stamps[k]
            BY <3>5, <3>6, <4>3
          <5> QED
            BY <2>4, <3>9, <4>1, <5>1 DEF StampsInv
        <4> QED
          BY <4>2, <4>3
      <3> QED
        BY <3>8, <3>9
    <2> QED
      BY <1>2, <2>1, <2>2, <2>3, <2>4 DEF StampsInv
  <1> QED
    BY <1>1, <1>4, <1>5 DEF Unasked, Asked, ClockMoved, clockVars, stampVars

\* poll() waits for the deadline asked for until it is reached.
LEMMA WakeStep ==
  ASSUME Clocked, StampsInv, WakeInv, [Next]_vars
  PROVE  WakeInv'
  <1>1. Unasked \/ Stamped \/ Asked \/ ClockMoved
    BY ClockSteps
  <1>2. \A t : next_deadline(t)' = next_deadline(t)
    BY <1>1, FormatKept
  <1>3. now \in Nat /\ deadline \in Nat /\ wake \in Nat
    BY TimeAssumption DEF Clocked, Start
  <1>4. CASE Unasked
    <2>1. UNCHANGED <<now, steppedBack, last, deadline, armed>> /\ wake' \in {wake, get_timeout(now, deadline)}
      BY <1>4 DEF Unasked, clockVars, stampVars
    <2>2. now < deadline => /\ get_timeout(now, deadline) > deadline
                            /\ get_timeout(now, deadline) < deadline + 2 * MSEC
      BY <1>3, Waited
    <2> QED
      BY <1>2, <2>1, <2>2 DEF WakeInv
  <1>5. CASE Stamped
    BY <1>5 DEF Stamped, get, WakeInv
  <1>6. CASE Asked
    <2>1. now' = now /\ last' = last /\ deadline' = next_deadline(last) /\ wake' = get_timeout(now, deadline')
      BY <1>6 DEF Asked, clockVars
    <2>2. last \in Nat /\ Formatted
      BY TimeAssumption DEF Clocked
    <2>3. next_deadline(last) \in Nat
      BY <2>2, DeadlineIsNextSlot
    <2> QED
      BY <1>2, <1>3, <2>1, <2>3, Waited DEF WakeInv
  <1>7. CASE ClockMoved
    <2>1. UNCHANGED <<last, deadline, wake, armed>>
      BY <1>7 DEF ClockMoved, stampVars
    <2>2. ~steppedBack' => ~steppedBack /\ now' = now + 1
      BY <1>7 DEF ClockMoved
    <2> QED
      BY <1>2, <1>3, <2>1, <2>2 DEF WakeInv
  <1> QED
    BY <1>1, <1>4, <1>5, <1>6, <1>7

\* The clock at the beginning: no timestamp was given, no deadline asked for.
LEMMA ClockInit == Init => ClockInv
  <1> SUFFICES ASSUME Init
               PROVE  ClockInv
    OBVIOUS
  <1>1. SEC \in Nat \ {0} /\ COARSE \in Nat \ {0} /\ MaxClock \in Nat /\ IDLE \in Nat /\ MSEC \in Nat
    BY TimeAssumption
  <1>2. PICK start \in Nat : start = Start /\ start = SEC * COARSE
    BY <1>1 DEF Start
  <1>3. start >= SEC
    <2>1. PICK d \in Nat : COARSE = d + 1
      BY <1>1
    <2>2. SEC * COARSE = SEC * d + SEC /\ SEC * d \in Nat
      BY <1>1, <2>1
    <2> QED
      BY <1>1, <1>2, <2>2
  <1>4. Formatted
    BY DEF Init, Formatted, Format
  <1>5. stamps = <<>> /\ stamps \in Seq(Nat) /\ DOMAIN stamps = {}
    BY EmptySeq DEF Init
  <1>6. now = start /\ last = 0 /\ deadline = start - SEC /\ wake = start + IDLE
    BY <1>2 DEF Init
  <1>7. Clocked
    BY <1>1, <1>2, <1>3, <1>4, <1>5, <1>6 DEF Clocked
  <1>8. StampsInv
    BY <1>5, <1>6 DEF StampsInv
  <1>9. WakeInv
    BY DEF Init, WakeInv
  <1> QED
    BY <1>7, <1>8, <1>9 DEF ClockInv

\* The invariant of the clock.
LEMMA ClockInvariant == Spec => []ClockInv
  <1>1. ClockInv /\ [Next]_vars => ClockInv'
    BY ClockedStep, StampsStep, WakeStep DEF ClockInv
  <1> QED
    BY <1>1, ClockInit, PTL DEF Spec

\* The offset of a time zone that is a whole number of the longest slots, modulo one.
LEMMA WholeOffset ==
  ASSUME Formatted, offset % COARSE = 0
  PROVE  offset = 0
  <1>1. COARSE \in Nat \ {0} /\ offset \in Nat /\ offset < COARSE
    BY TimeAssumption DEF Formatted
  <1>2. PICK q : q = offset \div COARSE
    OBVIOUS
  <1>3. q \in Nat /\ 0 = offset - COARSE * q /\ COARSE * q \in Nat
    BY <1>1, <1>2, Quotient
  <1>4. ASSUME q # 0
        PROVE  FALSE
    <2>1. PICK d \in Nat : q = d + 1
      BY <1>3, <1>4
    <2>2. COARSE * q = COARSE * d + COARSE /\ COARSE * d \in Nat
      BY <1>1, <2>1
    <2> QED
      BY <1>1, <1>3, <2>2
  <1> QED
    BY <1>1, <1>3, <1>4

\* Timestamps that print the same are of one slot: the time zone moves all of them
\* alike, if its offset is a whole number of slots.
LEMMA PrintedIsSlot ==
  ASSUME Formatted, format = "minute" => offset = 0,
         NEW a \in Nat, NEW b \in Nat, Printed(a) = Printed(b)
  PROVE  Slot(a) = Slot(b)
  <1>1. COARSE \in Nat \ {0} /\ SEC \in Nat \ {0} /\ offset \in Nat /\ offset < COARSE
    BY TimeAssumption DEF Formatted
  <1>2. tv_sec(a) \in Nat /\ tv_sec(b) \in Nat
    BY Seconds
  <1>3. CASE format = "fraction"
    <2>1. PICK n \in Nat : n = offset * SEC
      BY <1>1
    <2>2. Printed(a) = a + n /\ Printed(b) = b + n
      BY <1>3, <2>1, Interval DEF Printed
    <2>3. a + n = b + n
      BY <2>2
    <2>4. a = b
      BY <2>3
    <2> QED
      BY <2>4
  <1>4. CASE format = "second"
    <2>1. IntervalSec = 1 /\ IntervalUsec = 0
      BY <1>4 DEF IntervalSec, IntervalUsec
    <2>2. \A n \in Nat : n \div 1 = n
      OBVIOUS
    <2>3. Printed(a) = tv_sec(a) + offset /\ Printed(b) = tv_sec(b) + offset
      BY <1>1, <1>2, <2>1, <2>2 DEF Printed
    <2>4. PICK x \in Nat, y \in Nat : x = tv_sec(a) /\ y = tv_sec(b)
      BY <1>2
    <2>5. x + offset = y + offset
      BY <2>3, <2>4
    <2>6. x = y
      BY <1>1, <2>5
    <2> QED
      BY <1>4, <2>4, <2>6 DEF Slot
  <1>5. CASE format = "minute"
    <2>1. IntervalSec = COARSE /\ IntervalUsec = 0
      BY <1>5 DEF IntervalSec, IntervalUsec
    <2>2. offset = 0
      BY <1>5
    <2>3. tv_sec(a) + offset = tv_sec(a) /\ tv_sec(b) + offset = tv_sec(b)
      BY <1>2, <2>2
    <2> QED
      BY <1>5, <2>1, <2>3 DEF Printed, Slot
  <1> QED
    BY <1>3, <1>4, <1>5 DEF Formatted

\* No two locks print the same timestamp, for slots of any length, though the clock
\* moves between can_lock and get (flom_resource_timestamp_get), with the exceptions
\* StampsUnique names.
THEOREM TimestampsUnique == Spec => []StampsUnique
  <1>1. ClockInv => StampsUnique
    <2> SUFFICES ASSUME ClockInv, format = "fraction" => ~steppedBack,
                        format = "minute" => offset % COARSE = 0,
                        NEW j \in DOMAIN stamps, NEW k \in DOMAIN stamps, j # k
                 PROVE  Printed(stamps[j]) # Printed(stamps[k])
      BY DEF StampsUnique
    <2>1. stamps \in Seq(Nat) /\ Formatted
      BY DEF ClockInv, Clocked
    <2>2. DOMAIN stamps = 1..Len(stamps) /\ Len(stamps) \in Nat
      BY <2>1, LenProperties
    <2>3. stamps[j] \in Nat /\ stamps[k] \in Nat
      BY <2>1, <2>2, ElementOfSeq
    <2>4. Slot(stamps[j]) \in Nat /\ Slot(stamps[k]) \in Nat
      BY <2>1, <2>3, SlotReaches
    <2>5. j < k \/ k < j
      BY <2>2
    <2>6. Slot(stamps[j]) < Slot(stamps[k]) \/ Slot(stamps[k]) < Slot(stamps[j])
      BY <2>5 DEF ClockInv, StampsInv
    <2>7. Slot(stamps[j]) # Slot(stamps[k])
      BY <2>4, <2>6
    <2>8. format = "minute" => offset = 0
      BY <2>1, WholeOffset
    <2> QED
      BY <2>1, <2>3, <2>7, <2>8, PrintedIsSlot
  <1> QED
    BY <1>1, ClockInvariant, PTL

\* A waiter kept only by the clock is woken when the next slot has begun, never before
\* it and less than two milliseconds after, if the deadline was asked for after the last
\* timestamp (flom_resource_timestamp_next_deadline, flom_locker_loop_get_timeout).
THEOREM WaitersWoken == Spec => []WokenInTime
  <1>1. ClockInv => WokenInTime
    <2> SUFFICES ASSUME ClockInv, armed, ~steppedBack, ~SlotPassed(now)
                 PROVE  SlotPassed(wake) /\ \A t \in now..(wake - 2 * MSEC) : ~SlotPassed(t)
      BY DEF WokenInTime
    <2>1. Formatted /\ now \in Nat /\ last \in Nat /\ last <= now
      BY TimeAssumption DEF ClockInv, Clocked, StampsInv, Start
    <2>2. deadline = next_deadline(last) /\ next_deadline(last) \in Nat
      BY <2>1, DeadlineIsNextSlot DEF ClockInv, WakeInv
    <2>3. now < deadline
      BY <2>1, <2>2, PassedAtDeadline
    <2>4. wake > deadline /\ wake < deadline + 2 * MSEC /\ wake \in Nat /\ MSEC \in Nat
      BY <2>3, TimeAssumption DEF ClockInv, WakeInv, Clocked, Start
    <2>5. SlotPassed(wake)
      <3>1. wake \in Nat /\ wake >= last /\ wake >= next_deadline(last)
        BY <2>1, <2>2, <2>3, <2>4
      <3> QED
        BY <2>1, <3>1, PassedAtDeadline
    <2>6. ASSUME NEW t \in now..(wake - 2 * MSEC)
          PROVE  ~SlotPassed(t)
      <3>1. t \in Nat /\ t >= last /\ ~(t >= next_deadline(last))
        BY <2>1, <2>2, <2>3, <2>4
      <3> QED
        BY <2>1, <3>1, PassedAtDeadline
    <2> QED
      BY <2>5, <2>6
  <1> QED
    BY <1>1, ClockInvariant, PTL

-------------------------------------------------------------------------------
(* Places. *)

\* The counter stays a number because it is the length of the list.
TypeInv ==
  /\ LockerTypeOK
  /\ holders \in Seq(Entry) /\ waitings \in Seq(Entry)
  /\ locked \in Int /\ SlotsAccounted

\* What the clients were told and where their records are agree, and no connection has
\* two records.
PlacesInv ==
  /\ Honest(Conns(holders), Conns(waitings))
  /\ Distinct(holders) /\ Distinct(waitings)

\* The record of a connection.
LEMMA Record ==
  ASSUME NEW c \in Conn
  PROVE  [conn |-> c] \in Entry /\ [conn |-> c].conn = c
  BY DEF Entry

\* A place given to a connection is counted.
LEMMA AddType ==
  ASSUME TypeInv, can_lock, NEW c \in Conn, AddHolder(c)
  PROVE  holders' \in Seq(Entry) /\ locked' \in Int /\ SlotsAccounted'
  <1>1. PICK e \in Entry : e = [conn |-> c]
    BY Record
  <1>2. holders' = <<e>> \o holders /\ locked' = locked + 1
    BY <1>1 DEF AddHolder
  <1>3. holders' \in Seq(Entry) /\ Len(holders') = Len(holders) + 1
    BY <1>2, PrependProperties DEF TypeInv
  <1>4. locked \in Int /\ locked = Len(holders) /\ Total - locked > 0 /\ Total \in Nat
    BY TimeAssumption DEF TypeInv, SlotsAccounted, can_lock
  <1> QED
    BY <1>2, <1>3, <1>4 DEF SlotsAccounted

\* The record at the cursor is that of a connection.
LEMMA CursorConn ==
  ASSUME TypeInv, NEW k \in DOMAIN waitings
  PROVE  waitings[k].conn \in Conn
  <1>1. waitings[k] \in Entry
    BY ElementOfSeq, LenProperties DEF TypeInv
  <1> QED
    BY <1>1 DEF Entry

\* inmsg on a LOCK message keeps the types and the account.
LEMMA LockType ==
  ASSUME TypeInv, NEW c \in Conn, Lock(c)
  PROVE  TypeInv'
  <1>0. LockerTypeOK
    BY DEF TypeInv
  <1>1. PICK rc \in Answer : Reply(c, rc)
    BY DEF Lock, LockGrant, LockEnqueue, LockBusy, Answer
  <1>2. vfs' \subseteq VfsNode
    BY <1>0 DEF Lock, LockGrant, LockEnqueue, LockBusy, VfsAdd, VfsNode, LockerTypeOK
  <1>3. LockerTypeOK'
    BY <1>0, <1>1, <1>2, ReplyType
  <1>4. CASE LockGrant(c)
    <2>1. holders' \in Seq(Entry) /\ locked' \in Int /\ SlotsAccounted'
      BY <1>4, AddType DEF LockGrant
    <2> QED
      BY <1>3, <1>4, <2>1 DEF LockGrant, TypeInv
  <1>5. CASE LockEnqueue(c)
    <2>1. waitings' \in Seq(Entry)
      BY <1>5, Record, AppendedProperties DEF LockEnqueue, TypeInv
    <2> QED
      BY <1>3, <1>5, <2>1 DEF LockEnqueue, TypeInv, SlotsAccounted
  <1>6. CASE LockBusy(c)
    BY <1>3, <1>6 DEF LockBusy, listVars, TypeInv, SlotsAccounted
  <1> QED
    BY <1>4, <1>5, <1>6 DEF Lock

\* clean keeps the types and the account.
LEMMA CleanType ==
  ASSUME TypeInv, NEW c \in Conn, NEW path \in CleanPath, Clean(c, path)
  PROVE  TypeInv'
  <1>0. LockerTypeOK
    BY DEF TypeInv
  <1>1. CASE CleanHolder(c, path)
    <2>1. LockerTypeOK'
      BY <1>0, <1>1, StartScanType DEF CleanHolder
    <2>2. PICK k \in DOMAIN holders : holders' = RemoveAt(holders, k) /\ locked' = locked - 1
      BY <1>1 DEF CleanHolder
    <2>3. /\ holders' \in Seq(Entry) /\ Len(holders') = Len(holders) - 1
          /\ Len(holders) \in Nat
      BY <2>2, RemoveAtProperties, LenProperties DEF TypeInv
    <2>4. locked' \in Int /\ SlotsAccounted'
      BY <2>2, <2>3, TimeAssumption DEF TypeInv, SlotsAccounted
    <2> QED
      BY <1>1, <2>1, <2>3, <2>4 DEF CleanHolder, TypeInv
  <1>2. CASE CleanWaiter(c, path)
    <2>1. LockerTypeOK'
      BY <1>0, <1>2, EndCleanType DEF CleanWaiter
    <2>2. waitings' \in Seq(Entry)
      BY <1>2, RemoveAtProperties DEF CleanWaiter, TypeInv
    <2> QED
      BY <1>2, <2>1, <2>2 DEF CleanWaiter, TypeInv, SlotsAccounted
  <1> QED
    BY <1>1, <1>2 DEF Clean

\* A turn of the scan keeps the types and the account.
LEMMA WaitingsType ==
  ASSUME TypeInv, Waitings
  PROVE  TypeInv'
  <1>1. LockerTypeOK /\ Scanning /\ job.conn \in Conn
    BY JobFields DEF TypeInv, Waitings, Scanning
  <1>2. CASE WaitingsEnd \/ WaitingsSkip
    <2>1. UNCHANGED listVars
      BY <1>2 DEF WaitingsEnd, WaitingsSkip
    <2>2. LockerTypeOK'
      <3>1. CASE ScanEnd \/ ScanSkip
        BY <1>1, <3>1, ScanType
      <3>2. CASE TimeoutEnd
        BY <1>1, <3>2 DEF TimeoutEnd, LockerTypeOK, Job
      <3> QED
        BY <1>2, <3>1, <3>2 DEF WaitingsEnd, WaitingsSkip, CleanScanEnd
    <2> QED
      BY <2>1, <2>2 DEF listVars, TypeInv, SlotsAccounted
  <1>3. CASE WaitingsPop
    <2>1. PICK c \in Conn : c = waitings[job.i].conn
      BY <1>3, CursorConn DEF WaitingsPop
    <2>2. LockerTypeOK'
      BY <1>1, <1>3, <2>1, ScanType DEF WaitingsPop
    <2>3. waitings' \in Seq(Entry)
      BY <1>3, RemoveAtProperties DEF WaitingsPop, TypeInv
    <2>4. holders' \in Seq(Entry) /\ locked' \in Int /\ SlotsAccounted'
      <3>1. CASE AddHolder(c)
        BY <1>3, <3>1, AddType DEF WaitingsPop
      <3>2. CASE UNCHANGED <<holders, locked>>
        BY <3>2 DEF TypeInv, SlotsAccounted
      <3> QED
        BY <1>3, <2>1, <3>1, <3>2 DEF WaitingsPop
    <2> QED
      BY <2>2, <2>3, <2>4 DEF TypeInv
  <1> QED
    BY <1>2, <1>3 DEF Waitings

\* Every step keeps the types and the account.
LEMMA TypeStep ==
  ASSUME TypeInv, [Next]_vars
  PROVE  TypeInv'
  <1>1. CASE Peers({"UNLOCK"}) /\ UNCHANGED listVars
    <2>1. LockerTypeOK'
      BY <1>1, PeersType DEF TypeInv, MsgVerb
    <2> QED
      BY <1>1, <2>1 DEF listVars, TypeInv, SlotsAccounted
  <1>2. CASE Timeout
    <2>1. UNCHANGED listVars
      BY <1>2 DEF Timeout
    <2>2. job' \in Job
      <3>1. CASE TimeoutScan
        <4>1. waitings \in Seq(Entry) /\ waitings # <<>>
          BY <3>1 DEF TimeoutScan, TypeInv
        <4>2. 1 \in DOMAIN waitings
          BY <4>1, ReadProperties
        <4>3. waitings[1].conn \in Conn
          BY <4>2, CursorConn
        <4> QED
          BY <3>1, <4>3 DEF TimeoutScan, Job
      <3>2. CASE TimeoutIdle
        BY <3>2 DEF TimeoutIdle, TypeInv, LockerTypeOK
      <3> QED
        BY <1>2, <3>1, <3>2 DEF Timeout
    <2>3. LockerTypeOK'
      BY <1>2, <2>2 DEF Timeout, TypeInv, LockerTypeOK
    <2> QED
      BY <2>1, <2>3 DEF listVars, TypeInv, SlotsAccounted
  <1>3. CASE UNCHANGED <<lockerVars, listVars>>
    BY <1>3 DEF lockerVars, listVars, TypeInv, LockerTypeOK, SlotsAccounted
  <1>4. CASE Tick \/ StepBack
    BY <1>3, <1>4 DEF Tick, StepBack
  <1>5. CASE UNCHANGED vars
    BY <1>3, <1>5 DEF vars
  <1> QED
    BY <1>1, <1>2, <1>4, <1>5, LockType, CleanType, WaitingsType DEF Next

LEMMA TypeInit == Init => TypeInv
  <1> SUFFICES ASSUME Init
               PROVE  TypeInv
    OBVIOUS
  <1>1. LockerTypeOK
    BY LockerInitType DEF Init
  <1>2. holders \in Seq(Entry) /\ waitings \in Seq(Entry) /\ Len(holders) = 0
    BY EmptySeq DEF Init
  <1>3. locked = 0 /\ locked \in Int /\ locked <= Total
    BY TimeAssumption DEF Init
  <1> QED
    BY <1>1, <1>2, <1>3 DEF TypeInv, SlotsAccounted

\* A record in front of the list for a connection that has none.
LEMMA AddConn ==
  ASSUME TypeInv, Distinct(holders), NEW c \in Conn, c \notin Conns(holders), AddHolder(c)
  PROVE  Distinct(holders') /\ Conns(holders') = Conns(holders) \cup {c}
  <1>1. PICK e \in Entry : e = [conn |-> c]
    BY Record
  <1>2. holders' = <<e>> \o holders /\ e.conn = c
    BY <1>1 DEF AddHolder
  <1> QED
    BY <1>2, PrependedConn DEF TypeInv

\* inmsg on a LOCK message.
LEMMA LockPlaces ==
  ASSUME TypeInv, PlacesInv, NEW c \in Conn, Lock(c)
  PROVE  PlacesInv'
  <1>1. /\ LockerTypeOK /\ CanRead(c, "LOCK") /\ waitings \in Seq(Entry)
        /\ Honest(Conns(holders), Conns(waitings)) /\ Distinct(holders) /\ Distinct(waitings)
    BY DEF TypeInv, PlacesInv, Lock
  <1>2. c \notin Conns(holders) /\ c \notin Conns(waitings)
    BY <1>1, HonestNewcomer
  <1>3. CASE LockGrant(c)
    <2>1. AddHolder(c) /\ waitings' = waitings /\ Reply(c, "OK") /\ VfsAdd("holders", c)
      BY <1>3 DEF LockGrant
    <2>2. Distinct(holders') /\ Conns(holders') = Conns(holders) \cup {c}
      BY <1>1, <1>2, <2>1, AddConn
    <2>3. Honest(Conns(holders), Conns(waitings))'
      BY <1>1, <2>1, <2>2, HonestReply DEF Answer
    <2> QED
      BY <1>1, <2>1, <2>2, <2>3 DEF PlacesInv
  <1>4. CASE LockEnqueue(c)
    <2>1. /\ waitings' = Append(waitings, [conn |-> c]) /\ holders' = holders
          /\ Reply(c, "LOCK_ENQUEUED") /\ VfsAdd("waitings", c)
      BY <1>4 DEF LockEnqueue
    <2>2. [conn |-> c] \in Entry /\ [conn |-> c].conn = c
      BY Record
    <2>3. Distinct(waitings') /\ Conns(waitings') = Conns(waitings) \cup {c}
      BY <1>1, <1>2, <2>1, <2>2, AppendedConn
    <2>4. Honest(Conns(holders), Conns(waitings))'
      BY <1>1, <2>1, <2>3, HonestReply DEF Answer
    <2> QED
      BY <1>1, <2>1, <2>3, <2>4 DEF PlacesInv
  <1>5. CASE LockBusy(c)
    <2>1. Reply(c, "LOCK_BUSY") /\ UNCHANGED <<vfs, holders, waitings>>
      BY <1>5 DEF LockBusy, listVars
    <2>2. Honest(Conns(holders), Conns(waitings))'
      BY <1>1, <2>1, HonestReply DEF Answer
    <2> QED
      BY <1>1, <2>1, <2>2 DEF PlacesInv
  <1> QED
    BY <1>3, <1>4, <1>5 DEF Lock

\* clean.
LEMMA CleanPlaces ==
  ASSUME TypeInv, PlacesInv, NEW c \in Conn, NEW path \in CleanPath, Clean(c, path)
  PROVE  PlacesInv'
  <1>1. /\ LockerTypeOK /\ CleanEvent(c, path)
        /\ waitings \in Seq(Entry) /\ holders \in Seq(Entry)
        /\ Honest(Conns(holders), Conns(waitings)) /\ Distinct(holders) /\ Distinct(waitings)
    BY DEF TypeInv, PlacesInv, Clean
  <1>2. CASE CleanHolder(c, path)
    <2>1. PICK k \in DOMAIN holders :
            holders[k].conn = c /\ holders' = RemoveAt(holders, k)
      BY <1>2 DEF CleanHolder, IsFirstOf
    <2>2. StartScan(c, path) /\ waitings' = waitings
      BY <1>2 DEF CleanHolder
    <2>3. Distinct(holders') /\ Conns(holders') = Conns(holders) \ {c}
      BY <1>1, <2>1, RemovedConn
    <2>4. c \in Conns(holders)
      BY <2>1 DEF Conns
    <2>5. Honest(Conns(holders), Conns(waitings))'
      BY <1>1, <2>2, <2>3, <2>4, HonestRelease
    <2> QED
      BY <1>1, <2>2, <2>3, <2>5 DEF PlacesInv
  <1>3. CASE ~HasEntry(holders, c) /\ CleanWaiter(c, path)
    <2>1. holders' = holders /\ EndClean(c, path)
      BY <1>3 DEF CleanWaiter
    <2>2. c \notin Conns(holders) /\ Conns(holders') = Conns(holders) \ {c}
      BY <1>3, <2>1, HasEntryConns
    <2>3. Distinct(waitings') /\ Conns(waitings') = Conns(waitings) \ {c}
      <3>1. CASE \E k \in DOMAIN waitings :
                   IsFirstOf(waitings, k, c) /\ waitings' = RemoveAt(waitings, k)
        <4>1. PICK k \in DOMAIN waitings :
                waitings[k].conn = c /\ waitings' = RemoveAt(waitings, k)
          BY <3>1 DEF IsFirstOf
        <4> QED
          BY <1>1, <4>1, RemovedConn
      <3>2. CASE ~HasEntry(waitings, c) /\ UNCHANGED waitings
        <4>1. c \notin Conns(waitings)
          BY <3>2, HasEntryConns
        <4> QED
          BY <1>1, <3>2, <4>1
      <3> QED
        BY <1>3, <3>1, <3>2 DEF CleanWaiter
    <2>4. Honest(Conns(holders), Conns(waitings))'
      BY <1>1, <2>1, <2>2, <2>3, HonestWithdraw
    <2> QED
      BY <1>1, <2>1, <2>3, <2>4 DEF PlacesInv
  <1> QED
    BY <1>2, <1>3 DEF Clean

\* The scan of the timeout callback belongs to no clean: when it starts and when it
\* ends, nothing changes for the connections.
LEMMA TimeoutHonest ==
  ASSUME NEW H, NEW W, Honest(H, W),
         UNCHANGED <<conn, peer, inbox, answer, vfs, thread>>,
         job = Idle \/ job.path = "timeout",
         job' = Idle \/ job'.path = "timeout"
  PROVE  Honest(H, W)'
  BY DEF Honest, HonestTo, ShownAs, BusyWith

\* A turn of the scan.
LEMMA WaitingsPlaces ==
  ASSUME TypeInv, PlacesInv, Waitings
  PROVE  PlacesInv'
  <1>1. /\ LockerTypeOK /\ Scanning /\ waitings \in Seq(Entry)
        /\ Honest(Conns(holders), Conns(waitings)) /\ Distinct(holders) /\ Distinct(waitings)
    BY DEF TypeInv, PlacesInv, Waitings
  <1>2. CASE WaitingsEnd \/ WaitingsSkip
    <2>1. UNCHANGED <<holders, waitings>>
      BY <1>2 DEF WaitingsEnd, WaitingsSkip, listVars
    <2>2. Honest(Conns(holders), Conns(waitings))'
      <3>1. CASE WaitingsSkip
        BY <1>1, <2>1, <3>1, HonestScanSkip DEF WaitingsSkip
      <3>2. CASE WaitingsEnd /\ job.path = "timeout"
        <4>1. UNCHANGED <<conn, peer, inbox, answer, vfs, thread>> /\ job' = Idle
          BY <3>2 DEF WaitingsEnd, TimeoutEnd
        <4> QED
          BY <1>1, <2>1, <3>2, <4>1, TimeoutHonest
      <3>3. CASE WaitingsEnd /\ job.path # "timeout"
        BY <1>1, <2>1, <3>3, HonestScanEnd DEF WaitingsEnd, CleanScanEnd
      <3> QED
        BY <1>2, <3>1, <3>2, <3>3
    <2> QED
      BY <1>1, <2>1, <2>2 DEF PlacesInv
  <1>3. CASE WaitingsPop
    <2>1. PICK c \in Conn : c = waitings[job.i].conn
      BY <1>3, CursorConn DEF WaitingsPop
    <2>2. /\ job.i \in DOMAIN waitings /\ waitings' = RemoveAt(waitings, job.i)
          /\ \/ ScanGrant(c) /\ AddHolder(c)
             \/ ScanAbort(c) /\ holders' = holders
      BY <1>3, <2>1 DEF WaitingsPop
    <2>3. c \in Conns(waitings)
      BY <2>1, <2>2 DEF Conns
    <2>4. Distinct(waitings') /\ Conns(waitings') = Conns(waitings) \ {c}
      BY <1>1, <2>1, <2>2, RemovedConn
    <2>5. c \notin Conns(holders)
      BY <1>1, <2>3 DEF Honest, HonestTo, Scanning
    <2>6. CASE ScanGrant(c) /\ AddHolder(c)
      <3>1. Distinct(holders') /\ Conns(holders') = Conns(holders) \cup {c}
        BY <1>1, <2>5, <2>6, AddConn
      <3>2. Honest(Conns(holders), Conns(waitings))'
        BY <1>1, <2>3, <2>4, <2>6, <3>1, HonestScanGrant
      <3> QED
        BY <2>4, <3>1, <3>2 DEF PlacesInv
    <2>7. CASE ScanAbort(c) /\ holders' = holders
      <3>1. Honest(Conns(holders), Conns(waitings))'
        BY <1>1, <2>3, <2>4, <2>7, HonestScanAbort
      <3> QED
        BY <1>1, <2>4, <2>7, <3>1 DEF PlacesInv
    <2> QED
      BY <2>2, <2>6, <2>7
  <1> QED
    BY <1>2, <1>3 DEF Waitings

\* Every step keeps the invariant.
LEMMA PlacesStep ==
  ASSUME ~Retry, TypeInv, PlacesInv, [Next]_vars
  PROVE  PlacesInv'
  <1>1. LockerTypeOK /\ Honest(Conns(holders), Conns(waitings))
    BY DEF TypeInv, PlacesInv
  <1>2. CASE Peers({"UNLOCK"}) /\ UNCHANGED listVars
    <2>1. UNCHANGED <<holders, waitings>>
      BY <1>2 DEF listVars
    <2>2. Honest(Conns(holders), Conns(waitings))'
      BY <1>1, <1>2, <2>1, HonestPeers
    <2> QED
      BY <2>1, <2>2 DEF PlacesInv
  <1>3. CASE Timeout
    <2>1. UNCHANGED <<holders, waitings>>
      BY <1>3 DEF Timeout, listVars
    <2>2. UNCHANGED <<conn, peer, inbox, answer, vfs, thread>> /\ job = Idle
      BY <1>3 DEF Timeout, Polling
    <2>3. job' = Idle \/ job'.path = "timeout"
      BY <1>3, <2>2 DEF Timeout, TimeoutScan, TimeoutIdle
    <2>4. Honest(Conns(holders), Conns(waitings))'
      BY <1>1, <2>1, <2>2, <2>3, TimeoutHonest
    <2> QED
      BY <2>1, <2>4 DEF PlacesInv
  <1>4. CASE UNCHANGED <<lockerVars, listVars>>
    BY <1>4 DEF lockerVars, listVars, PlacesInv, Honest, HonestTo, ShownAs, BusyWith,
                Conns, Distinct
  <1>5. CASE Tick \/ StepBack
    BY <1>4, <1>5 DEF Tick, StepBack
  <1>6. CASE UNCHANGED vars
    BY <1>4, <1>6 DEF vars
  <1> QED
    BY <1>2, <1>3, <1>5, <1>6, LockPlaces, CleanPlaces, WaitingsPlaces DEF Next

\* Without a second LOCK of a waiting handle, the places counted are those of the
\* holders and not more than the resource has, and a live client was told what it has
\* (flom_resource_timestamp_inmsg, _clean, _waitings, _timeout).
THEOREM PlacesKept ==
  ASSUME ~Retry
  PROVE  Spec => []PlacesHonoured
  <1> DEFINE Inv == TypeInv /\ PlacesInv
  <1>1. Init => Inv
    <2>1. ASSUME Init
          PROVE  PlacesInv
      <3>1. Conns(holders) = {} /\ Conns(waitings) = {} /\ Distinct(holders) /\ Distinct(waitings)
        BY <2>1 DEF Init, Conns, Distinct
      <3>2. Honest({}, {})
        BY <2>1, HonestInit DEF Init
      <3> QED
        BY <3>1, <3>2 DEF PlacesInv
    <2> QED
      BY <2>1, TypeInit
  <1>2. Inv /\ [Next]_vars => Inv'
    BY TypeStep, PlacesStep
  <1>3. Inv /\ ClockInv => PlacesHonoured
    <2> SUFFICES ASSUME TypeInv, PlacesInv, ClockInv
                 PROVE  PlacesHonoured
      OBVIOUS
    <2>1. PICK start \in Nat : start = Start /\ start = SEC * COARSE
      BY TimeAssumption DEF Start
    <2>2. {now, last, deadline, wake} \subseteq 0..(MaxClock + SEC * COARSE + 2 * MSEC + IDLE)
      <3>1. MaxClock \in Nat /\ MSEC \in Nat /\ IDLE \in Nat
        BY TimeAssumption
      <3>2. /\ now \in 0..(MaxClock + start) /\ last \in 0..MaxClock /\ deadline \in 0..(MaxClock + start)
            /\ wake \in 0..(MaxClock + start + 2 * MSEC + IDLE)
        BY <2>1 DEF ClockInv, Clocked
      <3>3. {now, last, deadline, wake} \subseteq 0..(MaxClock + start + 2 * MSEC + IDLE)
        BY <2>1, <3>1, <3>2
      <3> QED
        BY <2>1, <3>3
    <2>3. TypeOK
      BY <2>2 DEF TypeOK, TypeInv
    <2>4. AnswersHonoured
      BY HasEntryConns DEF AnswersHonoured, PlacesInv, Honest, HonestTo
    <2> QED
      BY <2>3, <2>4 DEF PlacesHonoured, TypeInv
  <1>4. QED
    BY <1>1, <1>2, <1>3, ClockInvariant, PTL DEF Spec
===============================================================================
