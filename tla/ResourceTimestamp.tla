-------------------------- MODULE ResourceTimestamp --------------------------
(***************************************************************************)
(* A timestamp resource (flom_resource_timestamp.c): every lock comes with *)
(* the time, printed in the format of the resource's name, and no two      *)
(* locks may print the same.  At most Total locks are out at a time, and   *)
(* the next one has to wait for the clock to reach the next slot of the    *)
(* format's finest specifier.  It is the one resource that asks its locker *)
(* thread for a deadline and implements the timeout callback.              *)
(*                                                                         *)
(* Time is counted in ticks, the unit of the formats with fractions of a   *)
(* second: SEC of them in a second, MSEC in a millisecond, the unit of     *)
(* poll().  gettimeofday() reads the wall clock, which an administrator    *)
(* may set back.                                                           *)
(***************************************************************************)
EXTENDS Locker, Integers

CONSTANTS Total,      \* the number in the brackets of the resource's name
          SEC,        \* ticks in a second
          MSEC,       \* ticks in a millisecond
          COARSE,     \* seconds in the slot of a format of minutes (or hours)
          IDLE,       \* ticks poll() waits when no deadline lies ahead: one second,
                      \* or the lifespan the client asked for the idle resource
          MaxClock    \* bound: the clock stops there

ASSUME TimeAssumption ==
  /\ {Total, SEC, MSEC, COARSE, IDLE, MaxClock} \subseteq Nat \ {0}
  /\ \E k \in 2..SEC : SEC = k * MSEC

VARIABLES format,     \* the finest specifier in the format of the name
          offset,     \* seconds between local time and UTC
          now,        \* the clock
          steppedBack,\* somebody has set the clock back (history)
          last,       \* last_timestamp
          deadline,   \* next_deadline of the loop of the thread
          wake,       \* when the poll() of the thread times out
          armed,      \* deadline was asked for after the last timestamp (history)
          stamps,     \* the timestamps given out (history)
          holders,    \* the GSList of granted locks, the newest first
          locked,     \* locked_quantity
          waitings    \* the GQueue of enqueued requests, the oldest first

clockVars == <<format, offset, now, steppedBack>>
stampVars == <<last, deadline, armed, stamps>>
listVars == <<holders, locked, waitings>>
vars == <<lockerVars, clockVars, stampVars, wake, listVars>>

\* A record of either list.  The value of the timestamp is not in it: the variable tv
\* of get hides the parameter of that name, so timestamp_value is never written.
Entry == [conn : Conn]

Format == {"fraction", "second", "minute", "day"}

\* The interval init finds in the format, in ticks: the finest fraction of a
\* second, else a second, else minutes or hours.  0: it refuses the format.
IntervalUsec == IF format = "fraction" THEN 1 ELSE 0

IntervalSec ==
  CASE format = "fraction" -> 0
    [] format = "second"   -> 1
    [] format = "minute"   -> COARSE
    [] format = "day"      -> 0

tv_sec(t) == t \div SEC

tv_usec(t) == t % SEC

\* Mutant of SlotPassed: the slot of the last timestamp will do.
SlotReached(t) ==
  IF IntervalUsec > 0
  THEN \/ tv_sec(t) > tv_sec(last)
       \/ tv_usec(t) \div IntervalUsec >= tv_usec(last) \div IntervalUsec
  ELSE tv_sec(t) \div IntervalSec >= tv_sec(last) \div IntervalSec

\* The clock shows another slot than that of the last timestamp.
SlotPassed(t) ==
  IF IntervalUsec > 0
  THEN \/ tv_sec(t) > tv_sec(last)
       \/ tv_usec(t) \div IntervalUsec > tv_usec(last) \div IntervalUsec
  ELSE /\ IntervalSec > 0
       /\ tv_sec(t) \div IntervalSec > tv_sec(last) \div IntervalSec

can_lock == Total - locked > 0 /\ SlotPassed(now)

next_deadline(t) ==
  IF IntervalSec > 0
  THEN (tv_sec(t) \div IntervalSec + 1) * IntervalSec * SEC
  ELSE tv_sec(t) * SEC + (tv_usec(t) \div IntervalUsec + 1) * IntervalUsec

\* What strftime prints of the broken down local time, all of it: a format without
\* the date (or the hour) prints the same again a day (an hour) later.
Printed(t) ==
  IF IntervalUsec > 0 THEN t + offset * SEC
                      ELSE (tv_sec(t) + offset) \div IntervalSec

\* A difference of microseconds in milliseconds: the division of C truncates.
Milliseconds(x) == IF x >= 0 THEN x \div MSEC ELSE -((-x) \div MSEC)

\* Mutant of get_timeout: without the millisecond that makes up for the truncation.
get_timeout_short(t, d) ==
  LET diff == (tv_sec(d) - tv_sec(t)) * (SEC \div MSEC) + Milliseconds(tv_usec(d) - tv_usec(t))
  IN  IF diff >= 0 THEN t + diff * MSEC ELSE t + IDLE

\* When the next poll() times out: one or two milliseconds after the deadline, if that
\* is not past.
get_timeout(t, d) ==
  LET diff == (tv_sec(d) - tv_sec(t)) * (SEC \div MSEC) + Milliseconds(tv_usec(d) - tv_usec(t)) + 1
  IN  IF diff >= 0 THEN t + diff * MSEC ELSE t + IDLE

\* The thread starts with a deadline one second in the past.  (The clock is past
\* the first slot of every format, so that the first request is granted at once.)
Start == SEC * COARSE

Init ==
  /\ LockerInit
  /\ format \in {f \in Format : f # "day"}
  /\ offset \in 0..(COARSE - 1)
  /\ now = Start
  /\ steppedBack = FALSE
  /\ last = 0
  /\ deadline = Start - SEC
  /\ wake = Start + IDLE
  /\ armed = FALSE
  /\ stamps = <<>>
  /\ holders = <<>>
  /\ locked = 0
  /\ waitings = <<>>

Tick ==
  /\ now < MaxClock
  /\ now' = now + 1
  /\ UNCHANGED <<lockerVars, format, offset, steppedBack, stampVars, wake, listVars>>

\* The wall clock is set back, once.
StepBack ==
  /\ ~steppedBack
  /\ steppedBack' = TRUE
  /\ now' \in Start..(now - 1)
  /\ UNCHANGED <<lockerVars, format, offset, stampVars, wake, listVars>>

\* flom_resource_timestamp_get: the clock is read again, and may have moved since
\* can_lock read it.  The deadline of the loop is not changed.
get ==
  /\ now' \in now..(now + 1) /\ now' <= MaxClock
  /\ last' = now'
  /\ stamps' = Append(stamps, now')
  /\ armed' = FALSE
  /\ UNCHANGED <<format, offset, steppedBack, deadline>>

AddHolder(c) ==
  /\ holders' = <<[conn |-> c]>> \o holders
  /\ locked' = locked + 1

LockGrant(c) ==
  /\ can_lock
  /\ get
  /\ AddHolder(c)
  /\ VfsAdd("holders", c)
  /\ Reply(c, "OK")
  /\ UNCHANGED waitings

\* The request goes to the end of the queue and the thread is asked to wake up
\* when the slot of the last timestamp ends.
LockEnqueue(c) ==
  /\ ~can_lock
  /\ ask[c].wait
  /\ deadline' = next_deadline(last)
  /\ armed' = TRUE
  /\ waitings' = Append(waitings, [conn |-> c])
  /\ VfsAdd("waitings", c)
  /\ Reply(c, "LOCK_ENQUEUED")
  /\ UNCHANGED <<clockVars, last, stamps, holders, locked>>

LockBusy(c) ==
  /\ ~can_lock
  /\ ~ask[c].wait
  /\ Reply(c, "LOCK_BUSY")
  /\ UNCHANGED <<clockVars, stampVars, listVars, vfs>>

Lock(c) ==
  /\ CanRead(c, "LOCK")
  /\ LockGrant(c) \/ LockEnqueue(c) \/ LockBusy(c)
  /\ wake' = get_timeout(now', deadline')

CleanHolder(c, path) ==
  \E k \in DOMAIN holders :
    /\ IsFirstOf(holders, k, c)
    /\ holders' = RemoveAt(holders, k)
    /\ locked' = locked - 1
    /\ UNCHANGED waitings
    /\ StartScan(c, path)

CleanWaiter(c, path) ==
  /\ \/ \E k \in DOMAIN waitings :
          /\ IsFirstOf(waitings, k, c)
          /\ waitings' = RemoveAt(waitings, k)
     \/ ~HasEntry(waitings, c) /\ UNCHANGED waitings
  /\ UNCHANGED <<holders, locked>>
  /\ EndClean(c, path)

Clean(c, path) ==
  /\ CleanEvent(c, path)
  /\ \/ CleanHolder(c, path)
     \/ ~HasEntry(holders, c) /\ CleanWaiter(c, path)
  /\ wake' = get_timeout(now, deadline)
  /\ UNCHANGED <<clockVars, stampVars>>

\* poll() returned 0: nobody has sent anything or left before the timeout.
Quiet ==
  \A c \in Conn :
    /\ conn[c] # "piped"
    /\ conn[c] = "open" => inbox[c] = "NONE" /\ peer[c] = "up"

\* The timeout callback: if the queue is not empty and a timestamp can be given,
\* the scan of the queue begins.
TimeoutScan ==
  /\ waitings # <<>> /\ can_lock
  /\ job' = [path |-> "timeout", conn |-> waitings[1].conn, i |-> 1]
  /\ UNCHANGED wake

TimeoutIdle ==
  /\ waitings = <<>> \/ ~can_lock
  /\ wake' = get_timeout(now, deadline)
  /\ UNCHANGED job

Timeout ==
  /\ Polling /\ Quiet /\ now >= wake
  /\ TimeoutScan \/ TimeoutIdle
  /\ UNCHANGED <<ask, conn, peer, inbox, answer, vfs, thread, aborted>>
  /\ UNCHANGED <<clockVars, stampVars, listVars>>

\* The scan of the timeout callback is over: the next deadline is asked for.
TimeoutEnd ==
  /\ job' = Idle /\ aborted' = FALSE
  /\ deadline' = next_deadline(last)
  /\ armed' = TRUE
  /\ wake' = get_timeout(now, next_deadline(last))
  /\ UNCHANGED <<ask, conn, peer, inbox, answer, vfs, thread>>
  /\ UNCHANGED <<clockVars, last, stamps>>

CleanScanEnd ==
  /\ ScanEnd
  /\ wake' = get_timeout(now, deadline)
  /\ UNCHANGED <<clockVars, stampVars>>

\* A turn of the loop of waitings; can_lock reads the clock at every turn.
WaitingsEnd ==
  /\ job.i > Len(waitings)
  /\ IF job.path = "timeout" THEN TimeoutEnd ELSE CleanScanEnd
  /\ UNCHANGED listVars

WaitingsSkip ==
  /\ job.i \in DOMAIN waitings
  /\ ~can_lock
  /\ ScanSkip
  /\ UNCHANGED <<clockVars, stampVars, wake, listVars>>

\* The timestamp is taken before the grant is sent, the place after.
WaitingsPop ==
  /\ job.i \in DOMAIN waitings
  /\ can_lock
  /\ get
  /\ waitings' = RemoveAt(waitings, job.i)
  /\ \/ ScanGrant(waitings[job.i].conn) /\ AddHolder(waitings[job.i].conn)
     \/ ScanAbort(waitings[job.i].conn) /\ UNCHANGED <<holders, locked>>
  /\ UNCHANGED wake

Waitings == Scanning /\ (WaitingsEnd \/ WaitingsSkip \/ WaitingsPop)

Next ==
  \/ Peers({"UNLOCK"}) /\ UNCHANGED <<clockVars, stampVars, wake, listVars>>
  \/ \E c \in Conn : Lock(c)
  \/ \E c \in Conn, path \in CleanPath : Clean(c, path)
  \/ Waitings
  \/ Timeout
  \/ Tick
  \/ StepBack

Spec == Init /\ [][Next]_vars

-------------------------------------------------------------------------------
(***************************************************************************)
(* Properties.                                                             *)
(***************************************************************************)

\* The lists hold records of connections, times are numbers.
TypeOK ==
  /\ LockerTypeOK
  /\ {now, last, deadline, wake} \subseteq 0..(MaxClock + SEC * COARSE + 2 * MSEC + IDLE)
  /\ holders \in Seq(Entry)
  /\ locked \in Int
  /\ waitings \in Seq(Entry)

\* No two locks print the same timestamp, whatever the order of direct grants,
\* grants by a scan and by the timeout, and although get reads the clock again
\* after can_lock.  Two exceptions: fractions of a second once the clock was set
\* back (can_lock takes "not a later second" for "the same second"), and formats
\* of minutes or hours in a time zone whose offset is not a multiple of them
\* (can_lock counts slots in UTC, get prints local time).  The time printed is the
\* whole time: a format that leaves out the date or the hour repeats by itself.
StampsUnique ==
  (format = "fraction" => ~steppedBack) /\ (format = "minute" => offset % COARSE = 0) =>
    \A j, k \in DOMAIN stamps : j # k => Printed(stamps[j]) # Printed(stamps[k])

\* The counter kept apart from the list is its length and never above Total.
SlotsAccounted == locked = Len(holders) /\ locked <= Total

\* A live client was told OK exactly when it holds a place, and LOCK_ENQUEUED
\* exactly when it is in the queue.
AnswersHonoured ==
  thread # "dead" =>
    \A c \in Conn : conn[c] = "open" /\ peer[c] = "up" =>
      /\ answer[c] = "OK" <=> HasEntry(holders, c)
      /\ answer[c] = "LOCK_ENQUEUED" <=> HasEntry(waitings, c)

\* Somebody waits and a place is free: only the clock keeps him in the queue.
ClockAwaited == Polling /\ ~aborted /\ waitings # <<>> /\ locked < Total

\* A waiter kept only by the clock is woken when the next slot has begun, never before
\* it (the callback does not ask again), and less than two milliseconds after it has:
\* the timeout of poll() is a whole number of milliseconds and one more.  (That is at
\* once for a format of seconds or minutes; with fractions finer than a millisecond
\* many slots have passed.)  This provided the deadline was asked for after the last
\* timestamp: a grant by the scan of a clean, or to a newcomer, does not ask, and an
\* event handled after the deadline and before the timeout may put it off: the waiters
\* then wait IDLE more.
WokenInTime ==
  ClockAwaited /\ armed /\ ~steppedBack /\ ~SlotPassed(now) =>
    SlotPassed(wake) /\ \A t \in now..(wake - 2 * MSEC) : ~SlotPassed(t)

\* The places counted are those of the holders, and clients know what they have.
PlacesHonoured ==
  /\ TypeOK
  /\ SlotsAccounted
  /\ AnswersHonoured
===============================================================================
