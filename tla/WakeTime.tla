------------------------------ MODULE WakeTime ------------------------------
(***************************************************************************)
(* When a device is woken up.  The scheduler cuts the day into             *)
(* buckets_number slots, turns a device's bucket into a time of day and    *)
(* picks today's or tomorrow's date for it.  The module follows one device *)
(* through its calendar: it is registered (or delegated by another node),  *)
(* confirmed, and then connected day after day.                            *)
(*                                                                         *)
(* Times are UTC seconds.  now is the clock when the last step was taken,  *)
(* told the wake-up time the device was given, sched the time of the       *)
(* scheduled job.                                                          *)
(***************************************************************************)
EXTENDS Integers

CONSTANTS BucketNumber,  \* buckets_number of this node
          PeerNumber,    \* buckets_number of the node that delegates devices
          Instants,      \* clock readings at which a device first appears
          Ages,          \* seconds since a delegated schedule was worked out
          Pendings,      \* seconds from a registration at a peer to its delegation
                         \* before the ACK
          AckDelays,     \* seconds between RegisterResponse and ACK
          Starts,        \* seconds from sched to the attempt that succeeds
          SessionTimes,  \* seconds from its handshake to its WRITE_REQUEST
          CloseTimes,    \* seconds from there to the rescheduling
          Horizon,       \* bound on the clock
          None           \* absence of a value

SecsPerDay == 86400
AckWindow == 300          \* ACK_TIMEOUT_DURATION_MS
MaxRetries == 5
ResponseTimeout == 30
RetryDelay == 60
\* The last attempt, when no handshake is answered, and the latest it can be,
\* when every attempt but the last fails at its third response.
LastAttempt == (MaxRetries - 1) * (ResponseTimeout + RetryDelay)
LatestAttempt == (MaxRetries - 1) * (3 * ResponseTimeout + RetryDelay)

ASSUME BucketNumbers == BucketNumber \in Nat \ {0} /\ PeerNumber \in Nat \ {0}
ASSUME InstantsAssumption == Instants \subseteq Nat
ASSUME AgesAssumption == Ages \subseteq Nat /\ Pendings \subseteq Nat
ASSUME AckDelaysAssumption == AckDelays \subseteq 0 .. AckWindow
ASSUME StartsAssumption == Starts \subseteq 0 .. LatestAttempt
ASSUME SessionTimesAssumption == SessionTimes \subseteq 0 .. 2 * ResponseTimeout
\* The session's third response and the wait for the device manager's lock.
ASSUME CloseTimesAssumption == CloseTimes \subseteq 0 .. 2 * ResponseTimeout
ASSUME NoneIsNoTime == None \notin Nat

VARIABLES now, phase, bucket, told, sched

vars == <<now, phase, bucket, told, sched>>

Phases == {"new", "unconfirmed", "waiting", "stranded", "missed", "lost"}

-----------------------------------------------------------------------------
(* The arithmetic *)

\* Slip: buckets counted from one.
SlotFromOne(n, b) == (SecsPerDay \div n) * (b + 1)

\* get_time_from_bucket_number, for a node with n buckets.
SlotInSecs(n, b) == (SecsPerDay \div n) * b
TimeFromBucket(n, b) ==
  LET slot == SlotInSecs(n, b)
  IN [sec |-> (slot % 3600) % 60, min |-> (slot % 3600) \div 60, hour |-> slot \div 3600]

HourOf(t) == (t % SecsPerDay) \div 3600
DayOf(t) == t \div SecsPerDay

\* Slip: an hour that has just begun is still taken for today.
DateWithoutMargin(hour, t) == IF hour >= HourOf(t) THEN DayOf(t) ELSE DayOf(t) + 1

\* get_date_from_hour: the day of the wake-up.
DateFromHour(hour, t) == IF hour > HourOf(t) + 1 THEN DayOf(t) ELSE DayOf(t) + 1

\* next_wakeup: the Schedule as a NaiveDateTime, which exists for hours below 24.
NextWakeup(n, b, t) ==
  LET w == TimeFromBucket(n, b)
  IN IF w.hour < 24
     THEN DateFromHour(w.hour, t) * SecsPerDay + w.hour * 3600 + w.min * 60 + w.sec
     ELSE None

-----------------------------------------------------------------------------
(* The calendar of one device *)

Init ==
  /\ now \in Instants
  /\ phase = "new"
  /\ bucket = None
  /\ told = None
  /\ sched = None

\* register_device: a local bucket, and the RegisterResponse tells the time.
Register(b) ==
  /\ phase = "new"
  /\ phase' = "unconfirmed"
  /\ bucket' = b
  /\ told' = NextWakeup(BucketNumber, b, now)
  /\ UNCHANGED <<now, sched>>

\* The ACK arrives: schedule_next_wakeup_job works the time out once more.
Ack(delay) ==
  /\ phase = "unconfirmed"
  /\ phase' = "waiting"
  /\ now' = now + delay
  /\ sched' = NextWakeup(BucketNumber, bucket, now + delay)
  /\ UNCHANGED <<bucket, told>>

\* schedule_delegated_device: the peer's bucket and the peer's time are kept,
\* however long ago that time was worked out.  A job for a second that is past
\* never fires.  Here the peer found the device's row and sent its time.
AcceptDelegated(b, age) ==
  /\ phase = "new"
  /\ now' = now + age
  /\ bucket' = b
  /\ told' = NextWakeup(PeerNumber, b, now)
  /\ sched' = NextWakeup(PeerNumber, b, now)
  /\ phase' = IF sched' > now' THEN "waiting" ELSE "missed"

\* The peer found no row, as when the device is registered and its ACK has not
\* come: it sent its clock plus one day, which is off the bucket's slot, and
\* not the time that the device was told.
AcceptUnscheduled(b, pending, age) ==
  /\ phase = "new"
  /\ now' = now + pending + age
  /\ bucket' = b
  /\ told' = NextWakeup(PeerNumber, b, now)
  /\ sched' = now + pending + SecsPerDay
  /\ phase' = IF sched' > now' THEN "waiting" ELSE "missed"

\* Slip: the next job is created for the following bucket.
ConnectNextBucket(w, s, c) ==
  LET write == sched + w + s IN
  /\ phase = "waiting"
  /\ write <= Horizon
  /\ told <= sched + w
  /\ now' = write + c
  /\ told' = write + SecsPerDay
  /\ sched' = NextWakeup(BucketNumber, bucket + 1, write + c)
  /\ phase' = IF sched' = None THEN "stranded" ELSE "waiting"
  /\ UNCHANGED bucket

\* The job fires at sched and an attempt w seconds later, the device being
\* awake, succeeds: after s seconds WRITE_REQUEST tells the device
\* "now + 1 day", after another c the listener schedules the next job by the
\* bucket.
Connect(w, s, c) ==
  LET write == sched + w + s IN
  /\ phase = "waiting"
  /\ write <= Horizon
  /\ told <= sched + w
  /\ now' = write + c
  /\ told' = write + SecsPerDay
  /\ sched' = NextWakeup(BucketNumber, bucket, write + c)
  /\ phase' = IF sched' = None THEN "stranded" ELSE "waiting"
  /\ UNCHANGED bucket

\* The device wakes up after the last attempt: MaxRetriesExceeded.  (Attempts
\* that fail because datagrams are lost belong to module WakeUp.)
GiveUp ==
  /\ phase = "waiting"
  /\ sched <= Horizon
  /\ told > sched + LastAttempt
  /\ phase' = "lost"
  /\ now' = sched + LastAttempt
  /\ UNCHANGED <<bucket, told, sched>>

Next ==
  \/ \E b \in 0 .. BucketNumber - 1 : Register(b)
  \/ \E delay \in AckDelays : Ack(delay)
  \/ \E b \in 0 .. PeerNumber - 1, age \in Ages :
       \/ AcceptDelegated(b, age)
       \/ \E pending \in Pendings : AcceptUnscheduled(b, pending, age)
  \/ \E w \in Starts, s \in SessionTimes, c \in CloseTimes : Connect(w, s, c)
  \/ GiveUp

Spec == Init /\ [][Next]_vars

-----------------------------------------------------------------------------
(* Properties *)

\* Every variable holds a value of its type; a confirmed device has a bucket
\* and two times.
TypeOK ==
  /\ now \in Nat
  /\ phase \in Phases
  /\ phase = "new" => bucket = None
  /\ phase # "new" => bucket \in Nat /\ told \in Nat
  /\ phase = "waiting" => sched \in Nat

\* A job is always created for a time that is still to come, and for the next
\* occurrence of its slot: a cron job for a past second would never fire, and
\* one more than a day and the two hours of the margin away would skip a day.
AheadOfClock ==
  phase = "waiting" => now < sched /\ sched < now + SecsPerDay + 2 * 3600

\* A time at the second of the day that the device's bucket stands for.
OnSlot(t) == t % SecsPerDay = SlotInSecs(BucketNumber, bucket)

\* A connected device is connected again exactly one day later: neither the
\* retries nor the change of date around midnight skip or double a day.  Only
\* the job of a device that was delegated without a row is off the slot; its
\* first connection brings it back, less than 27 hours after that job.
EveryDay ==
  [][PeerNumber = BucketNumber /\ phase = "waiting" /\ phase' = "waiting" =>
       /\ OnSlot(sched) => sched' = sched + SecsPerDay
       /\ OnSlot(sched)' /\ sched < sched' /\ sched' < sched + SecsPerDay + 3 * 3600]_vars

\* Each bucket of a node is a different second of the day, in bucket order.
SlotsAreOrdered ==
  \A b, c \in 0 .. BucketNumber - 1 :
    b < c => SlotInSecs(BucketNumber, b) < SlotInSecs(BucketNumber, c)

\* A device delegated by a node with the same number of buckets can always be
\* scheduled again after its first connection.
NeverStranded == PeerNumber = BucketNumber => phase # "stranded"

\* "Each device ... wakes up at the scheduled time ... for the HES to connect
\* to": a device that answers whenever it is awake is never given up.  (What
\* WRITE_REQUEST tells it drifts away from the schedule.)
AwakeWhenConnected == phase # "lost"

=============================================================================
