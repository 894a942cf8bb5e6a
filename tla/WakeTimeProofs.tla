--------------------------- MODULE WakeTimeProofs ---------------------------
(***************************************************************************)
(* Proofs about WakeTime for any number of buckets and any clock: a slot   *)
(* is a time of the day, the next wake-up lies ahead and within 26 hours,  *)
(* and rescheduling after a session moves it by exactly one day, or brings *)
(* a job that was off its slot back to it.                                 *)
(***************************************************************************)
EXTENDS WakeTime, TLAPS

-----------------------------------------------------------------------------
(* The arithmetic of buckets *)

\* q * n, the whole slots of a day, is at most the day.
LEMMA SlotLength ==
  ASSUME NEW n \in Nat \ {0}
  PROVE  SecsPerDay \div n \in Nat /\ (SecsPerDay \div n) * n <= SecsPerDay
  BY DEF SecsPerDay

\* get_time_from_bucket_number stays within the day for a bucket of the node.
LEMMA SlotInDay ==
  ASSUME NEW n \in Nat \ {0}, NEW b \in 0 .. n - 1
  PROVE  SlotInSecs(n, b) \in Nat /\ SlotInSecs(n, b) < SecsPerDay
<1>1. PICK q \in Nat : q = SecsPerDay \div n /\ q * n <= SecsPerDay
  BY SlotLength
<1>2. q * b \in Nat
  OBVIOUS
<1>3. q * b < SecsPerDay
  <2>1. CASE q = 0
    <3>1. q * b = 0
      BY <2>1
    <3> QED
      BY <3>1 DEF SecsPerDay
  <2>2. CASE q > 0
    <3>1. PICK r \in Nat : n = b + 1 + r
      <4>1. n - b - 1 \in Nat /\ n = b + 1 + (n - b - 1)
        OBVIOUS
      <4> QED
        BY <4>1
    <3>2. q * n = q * b + q + q * r /\ q * r \in Nat
      BY <3>1
    <3> QED
      BY <1>1, <1>2, <2>2, <3>2 DEF SecsPerDay
  <2> QED
    BY <2>1, <2>2
<1>4. PICK slot \in Nat : slot = q * b
  BY <1>2
<1>5. slot < SecsPerDay
  BY <1>3, <1>4
<1>6. SlotInSecs(n, b) = slot
  BY <1>1, <1>4 DEF SlotInSecs
<1> QED
  BY <1>5, <1>6

\* A day and a second of that day determine the instant, and the reverse.
LEMMA DayAndSecond ==
  ASSUME NEW t \in Nat
  PROVE  /\ t \div 86400 \in Nat /\ t % 86400 \in Nat /\ (t % 86400) < 86400
         /\ t = (t \div 86400) * 86400 + (t % 86400)
OBVIOUS

\* The date and the second of the day of an instant, as chrono splits it.
LEMMA DayOfInstant ==
  ASSUME NEW t \in Nat, NEW day \in Nat, NEW sec \in Nat, sec < 86400, t = day * 86400 + sec
  PROVE  t \div 86400 = day /\ t % 86400 = sec
<1>1. t \div 86400 = day
  OBVIOUS
<1>2. t % 86400 = sec
  OBVIOUS
<1> QED
  BY <1>1, <1>2

\* What comparing whole hours says about the seconds.
LEMMA HoursApart ==
  ASSUME NEW x \in Nat, NEW y \in Nat, x \div 3600 > (y \div 3600) + 1
  PROVE  y + 3600 < x
OBVIOUS

\* Instants whose hours are at most one apart are less than two hours apart.
LEMMA HoursClose ==
  ASSUME NEW x \in Nat, NEW y \in Nat, ~(x \div 3600 > (y \div 3600) + 1)
  PROVE  x < y + 7200
OBVIOUS

\* next_wakeup for a slot within the day: the slot on the chosen date.
LEMMA NextWakeupIsSlot ==
  ASSUME NEW n, NEW b, NEW t, NEW slot \in Nat, slot < 86400, slot = SlotInSecs(n, b),
         NEW date \in Nat, date = DateFromHour(slot \div 3600, t)
  PROVE  NextWakeup(n, b, t) = date * 86400 + slot
<1>1. PICK h \in Nat : h = slot \div 3600 /\ h < 24
  BY SMT
<1>2. PICK r \in Nat : r = slot % 3600 /\ slot = h * 3600 + r
  BY <1>1, SMT
<1>3. PICK m \in Nat : m = r \div 60
  BY SMT
<1>4. PICK s \in Nat : s = r % 60 /\ r = m * 60 + s
  BY <1>3, SMT
<1>5. TimeFromBucket(n, b) = [sec |-> s, min |-> m, hour |-> h]
  <2>1. h = slot \div 3600 /\ m = (slot % 3600) \div 60 /\ s = (slot % 3600) % 60
    BY ONLY <1>1, <1>2, <1>3, <1>4
  <2>2. slot = SlotInSecs(n, b)
    OBVIOUS
  <2> QED
    BY ONLY <2>1, <2>2 DEF TimeFromBucket
<1>6. date = DateFromHour(h, t)
  BY <1>1
<1>7. slot = h * 3600 + m * 60 + s
  BY <1>2, <1>4, SMT
<1>8. NextWakeup(n, b, t) = date * 86400 + h * 3600 + m * 60 + s
  BY ONLY <1>1, <1>5, <1>6, h \in Nat, m \in Nat, s \in Nat, date \in Nat, SMT DEF NextWakeup, SecsPerDay
<1> QED
  BY ONLY <1>7, <1>8, h \in Nat, m \in Nat, s \in Nat, date \in Nat, SMT

\* get_date_from_hour: the chosen date puts any slot ahead of the clock, by at
\* most a day and two hours.
LEMMA DateIsAhead ==
  ASSUME NEW slot \in Nat, slot < 86400, NEW t \in Nat
  PROVE  \E date \in Nat : /\ date = DateFromHour(slot \div 3600, t)
                          /\ t < date * 86400 + slot
                          /\ date * 86400 + slot < t + 86400 + 7200
<1>1. PICK day \in Nat, sec \in Nat :
        day = t \div 86400 /\ sec = t % 86400 /\ sec < 86400 /\ t = day * 86400 + sec
  BY DayAndSecond
<1>2. CASE slot \div 3600 > (sec \div 3600) + 1
  <2>1. DateFromHour(slot \div 3600, t) = day
    BY <1>1, <1>2 DEF DateFromHour, HourOf, DayOf, SecsPerDay
  <2>2. sec + 3600 < slot
    BY <1>2, HoursApart
  <2>3. t < day * 86400 + slot /\ day * 86400 + slot < t + 86400 + 7200
    BY <1>1, <2>2
  <2> QED
    BY <2>1, <2>3
<1>3. CASE ~(slot \div 3600 > (sec \div 3600) + 1)
  <2>1. DateFromHour(slot \div 3600, t) = day + 1
    BY <1>1, <1>3 DEF DateFromHour, HourOf, DayOf, SecsPerDay
  <2>2. slot < sec + 7200
    BY <1>3, HoursClose
  <2>3. PICK date \in Nat : date = day + 1
    BY <1>1
  <2>4. t < date * 86400 + slot /\ date * 86400 + slot < t + 86400 + 7200
    BY <1>1, <2>2, <2>3
  <2> QED
    BY <2>1, <2>3, <2>4
<1> QED
  BY <1>2, <1>3

\* next_wakeup for any bucket, also one of a node with more buckets: either no
\* time at all, because the hour is past 23, or the next occurrence of the slot.
LEMMA NextWakeupCases ==
  ASSUME NEW n \in Nat \ {0}, NEW b \in Nat, NEW t \in Nat
  PROVE  /\ SlotInSecs(n, b) \in Nat
         /\ SlotInSecs(n, b) >= SecsPerDay => NextWakeup(n, b, t) = None
         /\ SlotInSecs(n, b) < SecsPerDay =>
              /\ \E day \in Nat : NextWakeup(n, b, t) = day * SecsPerDay + SlotInSecs(n, b)
              /\ NextWakeup(n, b, t) \in Nat
              /\ t < NextWakeup(n, b, t)
              /\ NextWakeup(n, b, t) < t + SecsPerDay + 2 * 3600
<1>1. PICK q \in Nat : q = SecsPerDay \div n
  BY SlotLength
<1>2. PICK slot \in Nat : slot = q * b
  OBVIOUS
<1>3. slot = SlotInSecs(n, b)
  BY <1>1, <1>2 DEF SlotInSecs
<1>4. ASSUME slot >= 86400 PROVE NextWakeup(n, b, t) = None
  <2>1. PICK h \in Nat : h = slot \div 3600 /\ h >= 24
    BY <1>4
  <2>2. TimeFromBucket(n, b).hour = h
    BY <1>3, <2>1 DEF TimeFromBucket
  <2>3. ~(TimeFromBucket(n, b).hour < 24)
    BY <2>1, <2>2
  <2> QED
    BY <2>3 DEF NextWakeup
<1>5. ASSUME slot < 86400
      PROVE  \E day \in Nat : /\ NextWakeup(n, b, t) = day * 86400 + slot
                             /\ t < day * 86400 + slot
                             /\ day * 86400 + slot < t + 86400 + 7200
  <2>1. PICK day \in Nat : /\ day = DateFromHour(slot \div 3600, t)
                          /\ t < day * 86400 + slot
                          /\ day * 86400 + slot < t + 86400 + 7200
    BY <1>5, DateIsAhead
  <2>2. NextWakeup(n, b, t) = day * 86400 + slot
    BY <1>3, <1>5, <2>1, NextWakeupIsSlot
  <2>3. t < day * 86400 + slot /\ day * 86400 + slot < t + 86400 + 7200
    BY <2>1
  <2> WITNESS day \in Nat
  <2> QED
    BY <2>2, <2>3
<1> QED
  BY <1>3, <1>4, <1>5, SMT DEF SecsPerDay

\* Rescheduling less than an hour after the slot: the next day's slot.
LEMMA NextWakeupIsTomorrow ==
  ASSUME NEW n \in Nat \ {0}, NEW b \in Nat, SlotInSecs(n, b) < SecsPerDay,
         NEW day \in Nat, NEW late \in Nat, late < 3600,
         NEW w \in Nat, w = day * SecsPerDay + SlotInSecs(n, b)
  PROVE  NextWakeup(n, b, w + late) = w + SecsPerDay
<1>1. PICK slot \in Nat : slot = SlotInSecs(n, b) /\ slot < 86400
  <2>1. SlotInSecs(n, b) \in Nat
    BY NextWakeupCases
  <2> QED
    BY <2>1, SMT DEF SecsPerDay
<1>2. PICK t \in Nat : t = w + late
  OBVIOUS
<1>3. w = day * 86400 + slot
  BY <1>1, SMT DEF SecsPerDay
<1>4. t = day * 86400 + slot + late
  BY <1>2, <1>3, SMT
<1>5. DateFromHour(slot \div 3600, t) = day + 1
  <2>1. CASE slot + late < 86400
    <3>1. PICK sec \in Nat : sec = slot + late
      OBVIOUS
    <3>2. t = day * 86400 + sec /\ sec < 86400
      BY <1>4, <2>1, <3>1, SMT
    <3>3. t \div 86400 = day /\ t % 86400 = sec
      BY <3>2, DayOfInstant, SMT
    <3>4. ~(slot \div 3600 > (sec \div 3600) + 1)
      BY <3>1, SMT
    <3> QED
      BY <3>3, <3>4, SMT DEF DateFromHour, HourOf, DayOf, SecsPerDay
  <2>2. CASE slot + late >= 86400
    <3>1. PICK sec \in Nat : sec = slot + late - 86400
      BY <2>2, SMT
    <3>2. PICK tomorrow \in Nat : tomorrow = day + 1
      OBVIOUS
    <3>3. t = tomorrow * 86400 + sec /\ sec < 86400
      BY <1>1, <1>4, <3>1, <3>2, SMT
    <3>4. t \div 86400 = tomorrow /\ t % 86400 = sec
      BY <3>3, DayOfInstant, SMT
    <3>5. slot \div 3600 > (sec \div 3600) + 1
      BY <1>1, <2>2, <3>1, SMT
    <3> QED
      BY <3>2, <3>4, <3>5, SMT DEF DateFromHour, HourOf, DayOf, SecsPerDay
  <2> QED
    BY <2>1, <2>2, SMT
<1>6. PICK date \in Nat : date = day + 1
  OBVIOUS
<1>7. NextWakeup(n, b, t) = date * 86400 + slot
  BY <1>1, <1>5, <1>6, NextWakeupIsSlot
<1>8. date * 86400 + slot = w + 86400
  BY <1>3, <1>6, SMT
<1> QED
  BY <1>2, <1>7, <1>8, SMT DEF SecsPerDay

-----------------------------------------------------------------------------
(* The calendar *)

\* Buckets are the node's own until a peer with another number delegates one.
BucketKnown ==
  /\ phase = "unconfirmed" => bucket \in 0 .. BucketNumber - 1
  /\ PeerNumber = BucketNumber /\ phase # "new" => bucket \in 0 .. BucketNumber - 1

\* The inductive invariant.
Calendar == TypeOK /\ AheadOfClock /\ BucketKnown /\ NeverStranded

\* A bucket of this node: its slot lies within the day, and next_wakeup gives that slot on some date.
LEMMA LocalBucket ==
  ASSUME NEW b \in 0 .. BucketNumber - 1, NEW t \in Nat
  PROVE  /\ b \in Nat
         /\ SlotInSecs(BucketNumber, b) < SecsPerDay
         /\ \E day \in Nat : NextWakeup(BucketNumber, b, t) = day * SecsPerDay + SlotInSecs(BucketNumber, b)
         /\ NextWakeup(BucketNumber, b, t) \in Nat
         /\ t < NextWakeup(BucketNumber, b, t)
         /\ NextWakeup(BucketNumber, b, t) < t + SecsPerDay + 2 * 3600
  BY SlotInDay, NextWakeupCases, BucketNumbers

\* A bucket a peer computed with its own number of buckets: its next_wakeup is at most a day and
\* two hours ahead.
LEMMA PeerBucket ==
  ASSUME NEW b \in 0 .. PeerNumber - 1, NEW t \in Nat
  PROVE  /\ b \in Nat
         /\ NextWakeup(PeerNumber, b, t) \in Nat
         /\ NextWakeup(PeerNumber, b, t) < t + SecsPerDay + 2 * 3600
  BY SlotInDay, NextWakeupCases, BucketNumbers

\* The invariant holds before the device registers.
LEMMA InitCalendar == Init => Calendar
  BY InstantsAssumption DEF Init, Calendar, TypeOK, Phases, AheadOfClock, BucketKnown, NeverStranded

\* Registration, which picks the bucket and tells the device its wake-up, keeps the invariant.
LEMMA RegisterStep ==
  ASSUME Calendar, NEW b \in 0 .. BucketNumber - 1, Register(b)
  PROVE  Calendar'
<1>1. told' \in Nat /\ b \in Nat
  BY LocalBucket DEF Calendar, TypeOK, Register
<1> QED
  BY <1>1 DEF Calendar, TypeOK, Phases, AheadOfClock, BucketKnown, NeverStranded, Register

\* The ACK handler, which schedules the job after the reply, keeps the invariant.
LEMMA AckStep ==
  ASSUME Calendar, NEW delay \in AckDelays, Ack(delay)
  PROVE  Calendar'
<1>1. delay \in Nat /\ now + delay \in Nat
  BY AckDelaysAssumption DEF Calendar, TypeOK, AckWindow
<1>2. bucket \in 0 .. BucketNumber - 1
  BY DEF Calendar, BucketKnown, Ack
<1>3. sched' \in Nat /\ now + delay < sched' /\ sched' < now + delay + SecsPerDay + 2 * 3600
  BY <1>1, <1>2, LocalBucket DEF Ack
<1> QED
  BY <1>1, <1>2, <1>3 DEF Calendar, TypeOK, Phases, AheadOfClock, BucketKnown, NeverStranded, Ack

\* Accepting a delegated device with the bucket its former node chose keeps the invariant.
LEMMA AcceptStep ==
  ASSUME Calendar, NEW b \in 0 .. PeerNumber - 1, NEW age \in Ages, AcceptDelegated(b, age)
  PROVE  Calendar'
<1>1. age \in Nat /\ now \in Nat /\ now + age \in Nat /\ b \in Nat
  BY AgesAssumption, PeerBucket DEF Calendar, TypeOK
<1>2. told' \in Nat /\ sched' \in Nat /\ sched' < now + SecsPerDay + 2 * 3600
  BY <1>1, PeerBucket DEF AcceptDelegated
<1>3. SecsPerDay \in Nat
  BY SMT DEF SecsPerDay
<1>4. AheadOfClock'
  BY <1>1, <1>2, <1>3, SMT DEF AheadOfClock, AcceptDelegated
<1> QED
  BY <1>1, <1>2, <1>4 DEF Calendar, TypeOK, Phases, BucketKnown, NeverStranded, AcceptDelegated

\* So does accepting one that its former node had no row for, a day after the sending.
LEMMA AcceptUnscheduledStep ==
  ASSUME Calendar, NEW b \in 0 .. PeerNumber - 1, NEW pending \in Pendings, NEW age \in Ages,
         AcceptUnscheduled(b, pending, age)
  PROVE  Calendar'
<1>1. pending \in Nat /\ age \in Nat /\ now \in Nat /\ b \in Nat /\ SecsPerDay \in Nat
  BY AgesAssumption, PeerBucket DEF Calendar, TypeOK, SecsPerDay
<1>2. told' \in Nat
  BY <1>1, PeerBucket DEF AcceptUnscheduled
<1>3. now' \in Nat /\ sched' \in Nat /\ sched' <= now' + SecsPerDay
  BY <1>1, SMT DEF AcceptUnscheduled
<1>4. AheadOfClock'
  BY <1>1, <1>3, SMT DEF AheadOfClock, AcceptUnscheduled
<1> QED
  BY <1>1, <1>2, <1>3, <1>4 DEF Calendar, TypeOK, Phases, BucketKnown, NeverStranded, AcceptUnscheduled

\* A session starts at most LatestAttempt after the job and ends two minutes
\* later, well within the hour.
LEMMA SessionIsShort ==
  ASSUME NEW w \in Starts, NEW s \in SessionTimes, NEW c \in CloseTimes
  PROVE  w \in Nat /\ s \in Nat /\ c \in Nat /\ w + s + c < 3600
  BY StartsAssumption, SessionTimesAssumption, CloseTimesAssumption, SMT
     DEF LatestAttempt, MaxRetries, ResponseTimeout, RetryDelay

\* A connection moves the job by one day when the bucket is a local one and the job on its slot.
LEMMA ConnectByOneDay ==
  ASSUME Calendar, NEW w \in Starts, NEW s \in SessionTimes, NEW c \in CloseTimes,
         Connect(w, s, c), PeerNumber = BucketNumber, OnSlot(sched)
  PROVE  sched' = sched + SecsPerDay
<1>1. PICK late \in Nat : late = w + s + c /\ late < 3600
  BY SessionIsShort
<1>2. bucket \in 0 .. BucketNumber - 1 /\ sched \in Nat
  BY DEF Calendar, TypeOK, BucketKnown, Connect
<1>3. PICK day \in Nat : sched = day * SecsPerDay + SlotInSecs(BucketNumber, bucket)
  <2>1. PICK d \in Nat, sec \in Nat : sched = d * 86400 + sec /\ sec = sched % 86400
    BY <1>2, DayAndSecond
  <2>2. sec = SlotInSecs(BucketNumber, bucket)
    BY <2>1 DEF OnSlot, SecsPerDay
  <2>3. sched = d * SecsPerDay + SlotInSecs(BucketNumber, bucket)
    <3>1. sched = d * 86400 + sec
      BY <2>1
    <3>2. 86400 = SecsPerDay
      BY DEF SecsPerDay
    <3> QED
      BY ONLY <2>2, <3>1, <3>2
  <2> QED
    BY <2>3
<1>4. bucket \in Nat /\ SlotInSecs(BucketNumber, bucket) < SecsPerDay
  BY <1>2, SlotInDay, BucketNumbers
<1>5. NextWakeup(BucketNumber, bucket, sched + late) = sched + SecsPerDay
  BY <1>1, <1>2, <1>3, <1>4, NextWakeupIsTomorrow, BucketNumbers
<1>6. sched + w + s + c = sched + late
  BY <1>1, <1>2, SessionIsShort
<1> QED
  BY <1>5, <1>6 DEF Connect

\* A connection brings any job to the slot of its bucket, before 27 hours have passed.
LEMMA ConnectToSlot ==
  ASSUME Calendar, NEW w \in Starts, NEW s \in SessionTimes, NEW c \in CloseTimes,
         Connect(w, s, c), PeerNumber = BucketNumber
  PROVE  OnSlot(sched)' /\ sched < sched' /\ sched' < sched + SecsPerDay + 3 * 3600
<1>1. PICK late \in Nat : late = w + s + c /\ late < 3600
  BY SessionIsShort
<1>2. bucket \in 0 .. BucketNumber - 1 /\ sched \in Nat
  BY DEF Calendar, TypeOK, BucketKnown, Connect
<1>3. PICK t \in Nat : t = sched + late
  BY <1>1, <1>2
<1>4. sched' = NextWakeup(BucketNumber, bucket, t) /\ bucket' = bucket
  <2>1. sched + w + s + c = t
    BY <1>1, <1>2, <1>3, SessionIsShort
  <2> QED
    BY <2>1 DEF Connect
<1>5. PICK day \in Nat : sched' = day * SecsPerDay + SlotInSecs(BucketNumber, bucket)
  BY <1>2, <1>4, LocalBucket
<1>6. PICK slot \in Nat : slot = SlotInSecs(BucketNumber, bucket) /\ slot < 86400
  BY <1>2, SlotInDay, BucketNumbers DEF SecsPerDay
<1>7. sched' \in Nat /\ t < sched' /\ sched' < t + SecsPerDay + 2 * 3600
  BY <1>2, <1>4, LocalBucket
<1>8. sched' % 86400 = slot
  <2>1. sched' = day * 86400 + slot
    BY <1>5, <1>6 DEF SecsPerDay
  <2> QED
    BY <1>6, <1>7, <2>1, DayOfInstant
<1>9. OnSlot(sched)'
  BY <1>4, <1>6, <1>8 DEF OnSlot, SecsPerDay
<1> QED
  BY <1>1, <1>2, <1>3, <1>7, <1>9, SMT DEF SecsPerDay

\* A session with the device, which schedules the next wake-up, keeps the invariant.
LEMMA ConnectStep ==
  ASSUME Calendar, NEW w \in Starts, NEW s \in SessionTimes, NEW c \in CloseTimes, Connect(w, s, c)
  PROVE  Calendar'
<1>1. w \in Nat /\ s \in Nat /\ c \in Nat
  BY SessionIsShort
<1>2. sched \in Nat /\ bucket \in Nat /\ SecsPerDay \in Nat
  BY DEF Calendar, TypeOK, Connect, SecsPerDay
<1>3. PICK t \in Nat : t = sched + w + s + c
  BY <1>1, <1>2
<1>4. now' = t /\ bucket' = bucket /\ told' \in Nat /\ sched' = NextWakeup(BucketNumber, bucket, t)
  BY <1>1, <1>2, <1>3 DEF Connect
<1>5. \/ sched' = None
      \/ sched' \in Nat /\ t < sched' /\ sched' < t + SecsPerDay + 2 * 3600
  BY <1>2, <1>4, NextWakeupCases, BucketNumbers
<1>6. phase' = IF sched' = None THEN "stranded" ELSE "waiting"
  BY DEF Connect
<1>7. TypeOK' /\ AheadOfClock'
  BY <1>2, <1>4, <1>5, <1>6 DEF TypeOK, Phases, AheadOfClock
<1>8. phase # "new" /\ phase # "unconfirmed"
  BY DEF Connect
<1>9. ASSUME PeerNumber = BucketNumber
      PROVE  sched' # None /\ bucket \in 0 .. BucketNumber - 1
  <2>1. bucket \in 0 .. BucketNumber - 1
    BY <1>8, <1>9 DEF Calendar, BucketKnown
  <2> QED
    BY <1>4, <2>1, LocalBucket, NoneIsNoTime
<1>10. BucketKnown' /\ NeverStranded'
  BY <1>4, <1>6, <1>8, <1>9 DEF BucketKnown, NeverStranded
<1> QED
  BY <1>7, <1>10 DEF Calendar

\* Giving the device up after the last attempt keeps the invariant.
LEMMA GiveUpStep ==
  ASSUME Calendar, GiveUp
  PROVE  Calendar'
  BY DEF Calendar, TypeOK, Phases, AheadOfClock, BucketKnown, NeverStranded, GiveUp,
         LastAttempt, MaxRetries, ResponseTimeout, RetryDelay

\* Every step keeps the invariant.
LEMMA CalendarStep ==
  ASSUME Calendar, [Next]_vars
  PROVE  Calendar'
<1>1. CASE UNCHANGED vars
  BY <1>1 DEF Calendar, TypeOK, AheadOfClock, BucketKnown, NeverStranded, vars
<1>2. CASE Next
  BY <1>2, RegisterStep, AckStep, AcceptStep, AcceptUnscheduledStep, ConnectStep, GiveUpStep DEF Next
<1> QED
  BY <1>1, <1>2

\* The whole calendar is kept by every step.
THEOREM CalendarInvariant == Spec => []Calendar
<1>1. Init => Calendar
  BY InitCalendar
<1>2. Calendar /\ [Next]_vars => Calendar'
  BY CalendarStep
<1> QED
  BY <1>1, <1>2, PTL DEF Spec

\* Every variable keeps its type: in particular NextWakeup, which may have no
\* value, always has one where a job is created or a device is told a time.
THEOREM CalendarTypes == Spec => []TypeOK
<1>1. Calendar => TypeOK
  BY DEF Calendar
<1> QED
  BY <1>1, CalendarInvariant, PTL

\* A job is always created for a future time, at most 26 hours ahead, for any
\* number of buckets and at any time of the day.
THEOREM JobsAreAhead == Spec => []AheadOfClock
<1>1. Calendar => AheadOfClock
  BY DEF Calendar
<1> QED
  BY <1>1, CalendarInvariant, PTL

\* A device of a node with the same number of buckets is never left without a
\* next wake-up.
THEOREM AlwaysRescheduled == Spec => []NeverStranded
<1>1. Calendar => NeverStranded
  BY DEF Calendar
<1> QED
  BY <1>1, CalendarInvariant, PTL

\* Two connections of a device are exactly one day apart, whatever the bucket,
\* the retries and the length of the session, once its job is on its slot; and
\* the first connection brings it there.
THEOREM ConnectedEveryDay == Spec => EveryDay
<1> DEFINE Daily == PeerNumber = BucketNumber /\ phase = "waiting" /\ phase' = "waiting" =>
                      /\ OnSlot(sched) => sched' = sched + SecsPerDay
                      /\ OnSlot(sched)' /\ sched < sched' /\ sched' < sched + SecsPerDay + 3 * 3600
<1>1. ASSUME Calendar, [Next]_vars
      PROVE  [Daily]_vars
  <2> SUFFICES ASSUME Next, PeerNumber = BucketNumber, phase = "waiting", phase' = "waiting"
               PROVE  /\ OnSlot(sched) => sched' = sched + SecsPerDay
                      /\ OnSlot(sched)' /\ sched < sched' /\ sched' < sched + SecsPerDay + 3 * 3600
    BY <1>1
  <2>1. PICK w \in Starts, s \in SessionTimes, c \in CloseTimes : Connect(w, s, c)
    BY DEF Next, Register, Ack, AcceptDelegated, AcceptUnscheduled, GiveUp
  <2> QED
    BY <1>1, <2>1, ConnectByOneDay, ConnectToSlot
<1> QED
  BY <1>1, CalendarInvariant, PTL DEF Spec, EveryDay

\* With at most one bucket per second every bucket has its own second of the
\* day, in bucket order.
THEOREM SlotsOrdered == BucketNumber <= SecsPerDay => SlotsAreOrdered
<1> SUFFICES ASSUME BucketNumber <= SecsPerDay,
                    NEW b \in 0 .. BucketNumber - 1, NEW c \in 0 .. BucketNumber - 1, b < c
             PROVE  SlotInSecs(BucketNumber, b) < SlotInSecs(BucketNumber, c)
  BY DEF SlotsAreOrdered
<1>1. PICK q \in Nat : q = SecsPerDay \div BucketNumber /\ q > 0
  <2>1. BucketNumber \in Nat \ {0} /\ SecsPerDay \in Nat
    BY BucketNumbers, SMT DEF SecsPerDay
  <2> QED
    BY <2>1
<1>2. PICK d \in Nat : c = b + 1 + d
  <2>1. c - b - 1 \in Nat /\ c = b + 1 + (c - b - 1)
    BY BucketNumbers
  <2> QED
    BY <2>1
<1>3. b \in Nat /\ c \in Nat
  BY BucketNumbers
<1>4. q * c = q * b + q + q * d /\ q * d \in Nat /\ q * b \in Nat
  BY <1>2, <1>3
<1>5. q * b < q * c
  BY <1>1, <1>4
<1> QED
  BY <1>1, <1>5 DEF SlotInSecs

=============================================================================
