-------------------------- MODULE RegistrationProofs --------------------------
(***************************************************************************)
(* Proofs about Registration, for any set of devices, addresses, nodes and *)
(* permits, and any number of buckets and failures.  Facts is the          *)
(* inductive invariant the safety theorems rest on: an ACK handler writes  *)
(* Registered long after it read PendingAck, so what it may still assume   *)
(* at that point (HandlerFacts) has to be carried along.  The theorems     *)
(* that rest on it say what a status may become, what an ACK stands for,   *)
(* that no device is confirmed without a wake-up, and how far the buckets  *)
(* may get out of balance.                                                 *)
(***************************************************************************)
EXTENDS Registration, FiniteSetTheorems, TLAPS

Facts == TypeOK /\ HandlerFacts /\ LockDiscipline /\ BucketBeforeRegistration

\* The initial state, with empty tables and idle permits, satisfies Facts.
LEMMA InitFacts == Init => Facts
  BY DevicesAssumption, AddrsAssumption, BucketAssumption, FailuresAssumption,
     NodeOfAssumption, TaskNames
     DEF Init, Facts, TypeOK, HandlerFacts, HandlerKnows, OneRegistrar, AddrFirst,
         Registering, Scheduling, Idle, Frame, Handler, PCs, Kinds, LockDiscipline,
         Holds, BucketBeforeRegistration

\* Every step of a handler, a timer or a failure preserves Facts.
LEMMA FactsStep == Facts /\ [Next]_vars => Facts'
<1> SUFFICES ASSUME Facts, [Next]_vars PROVE Facts'
  BY Zenon
<1> USE DevicesAssumption, AddrsAssumption, StatusAssumption, BucketAssumption,
        FailuresAssumption, TaskNames, NodeOfAssumption
<1> USE DEF Facts, TypeOK, HandlerFacts, HandlerKnows, OneRegistrar, AddrFirst,
            Registering, Scheduling, LockDiscipline, Holds, BucketBeforeRegistration,
            Handler, PCs, Kinds, Status, Replies, Frame, Idle, tables,
            Spawn, At, Become, Goto, Return, LockFree, Acquire, Release, Reply
<1>1. CASE UNCHANGED vars
  BY <1>1 DEF vars
<1>2. ASSUME NEW t \in Tasks, NEW a \in Addrs, RecvRegister(t, a) PROVE Facts'
  BY <1>2 DEF RecvRegister
<1>3. ASSUME NEW t \in Tasks, NEW d \in Devices, NEW a \in Addrs, RecvAck(t, d, a)
      PROVE  Facts'
  BY <1>3 DEF RecvAck
<1>4. ASSUME NEW t \in Tasks, NEW d \in Devices, NEW a \in Addrs, RecvIpUpdate(t, d, a)
      PROVE  Facts'
  BY <1>4, SMTT(30) DEF RecvIpUpdate
<1>5. ASSUME NEW t \in Tasks, NEW d \in Devices, AddDevice(t, d) PROVE Facts'
  BY <1>5, SMTT(30) DEF AddDevice
<1>6. ASSUME NEW t \in Tasks, NEW b \in Buckets, PickBucket(t, b) PROVE Facts'
  BY <1>6, SMTT(30) DEF PickBucket
<1>7. ASSUME NEW t \in Tasks, PickBucketOnError(t) PROVE Facts'
  BY <1>7, SMTT(30) DEF PickBucketOnError, Buckets
<1>8. ASSUME NEW t \in Tasks, AddToBucket(t) PROVE Facts'
  BY <1>8, SMTT(30) DEF AddToBucket
<1>9. ASSUME NEW t \in Tasks, RegisterDevice(t) PROVE Facts'
  <2>1. TypeOK' /\ AddrFirst' /\ LockDiscipline' /\ BucketBeforeRegistration'
    BY <1>9 DEF RegisterDevice
  <2>2. ASSUME NEW u \in Tasks PROVE HandlerKnows(u)'
    BY <1>9 DEF RegisterDevice
  <2>3. OneRegistrar'
    BY <1>9 DEF RegisterDevice
  <2> HIDE DEF TypeOK, HandlerKnows, OneRegistrar, AddrFirst, LockDiscipline,
               BucketBeforeRegistration
  <2> QED
    BY <2>1, <2>2, <2>3, Zenon
<1>10. ASSUME NEW t \in Tasks, RespondAndStartTimer(t) PROVE Facts'
  BY <1>10 DEF RespondAndStartTimer
<1>11. ASSUME NEW n \in Nodes, NEW d \in Devices, AckTimeoutFires(n, d) PROVE Facts'
  <2>1. TypeOK' /\ OneRegistrar' /\ AddrFirst' /\ LockDiscipline' /\ BucketBeforeRegistration'
    BY <1>11 DEF AckTimeoutFires
  <2>2. ASSUME NEW u \in Tasks PROVE HandlerKnows(u)'
    BY <1>11 DEF AckTimeoutFires
  <2> HIDE DEF TypeOK, HandlerKnows, OneRegistrar, AddrFirst, LockDiscipline,
               BucketBeforeRegistration
  <2> QED
    BY <2>1, <2>2, Zenon
<1>12. ASSUME NEW t \in Tasks, AckGetDevice(t) PROVE Facts'
  <2>1. CASE Goto(t, "get_registration")
    BY <1>12, <2>1, SMTT(30) DEF AckGetDevice
  <2>2. CASE Return(t)
    BY <1>12, <2>2, SMTT(30) DEF AckGetDevice
  <2> HIDE DEF Facts, Goto, Return, Reply
  <2> QED
    BY <1>12, <2>1, <2>2, Zenon DEF AckGetDevice
<1>13. ASSUME NEW t \in Tasks, AckGetRegistration(t) PROVE Facts'
  <2>1. CASE Return(t)
    <3>1. task[t].dev \in Devices
      BY <1>13, Zenon DEF AckGetRegistration
    <3>2. sent' \subseteq Replies \X Devices
      BY <1>13, <3>1 DEF AckGetRegistration
    <3> QED
      BY <1>13, <2>1, <3>2, SMTT(30) DEF AckGetRegistration
  <2>2. CASE Goto(t, "set_registered") /\ reg[task[t].dev] = "PendingAck" /\ UNCHANGED sent
    <3>1. TypeOK' /\ OneRegistrar' /\ AddrFirst' /\ LockDiscipline' /\ BucketBeforeRegistration'
      BY <1>13, <2>2, SMTT(30) DEF AckGetRegistration
    <3>2. ASSUME NEW u \in Tasks PROVE HandlerKnows(u)'
      BY <1>13, <2>2, SMTT(30) DEF AckGetRegistration
    <3> HIDE DEF TypeOK, HandlerKnows, OneRegistrar, AddrFirst, LockDiscipline,
                 BucketBeforeRegistration
    <3> QED
      BY <3>1, <3>2, Zenon
  <2> HIDE DEF Facts, Goto, Return, Reply
  <2> QED
    BY <1>13, <2>1, <2>2, Zenon DEF AckGetRegistration
<1>14. ASSUME NEW t \in Tasks, AckSetRegistered(t) PROVE Facts'
  <2>1. TypeOK' /\ OneRegistrar' /\ AddrFirst' /\ LockDiscipline' /\ BucketBeforeRegistration'
    BY <1>14 DEF AckSetRegistered
  <2>2. ASSUME NEW u \in Tasks PROVE HandlerKnows(u)'
    BY <1>14, SMTT(30) DEF AckSetRegistered
  <2> HIDE DEF TypeOK, HandlerKnows, OneRegistrar, AddrFirst, LockDiscipline,
               BucketBeforeRegistration
  <2> QED
    BY <2>1, <2>2, Zenon
<1>15. ASSUME NEW t \in Tasks, ScheduleJob(t) PROVE Facts'
  BY <1>15, SMTT(30) DEF ScheduleJob
<1>16. ASSUME NEW t \in Tasks, ScheduleWithoutBucket(t) PROVE Facts'
  BY <1>16, SMTT(30) DEF ScheduleWithoutBucket
<1>17. ASSUME NEW t \in Tasks, SaveConnection(t) PROVE Facts'
  <2>1. task[t].dev \in Devices
    BY <1>17, Zenon DEF SaveConnection
  <2>2. TypeOK'
    BY <1>17, <2>1, SMTT(30) DEF SaveConnection
  <2>3. ASSUME NEW u \in Tasks PROVE HandlerKnows(u)'
    BY <1>17, <2>1, SMTT(30) DEF SaveConnection
  <2>4. OneRegistrar' /\ AddrFirst'
    BY <1>17, SMTT(30) DEF SaveConnection
  <2>5. LockDiscipline' /\ BucketBeforeRegistration'
    BY <1>17, SMTT(30) DEF SaveConnection
  <2> HIDE DEF TypeOK, HandlerKnows, OneRegistrar, AddrFirst, LockDiscipline,
               BucketBeforeRegistration
  <2> QED
    BY <2>2, <2>3, <2>4, <2>5, Zenon
<1>18. ASSUME NEW t \in Tasks, IpGetDevice(t) PROVE Facts'
  <2>1. task[t].dev \in Devices
    BY <1>18, Zenon DEF IpGetDevice
  <2>2. TypeOK'
    BY <1>18, <2>1, SMTT(30) DEF IpGetDevice
  <2>3. ASSUME NEW u \in Tasks PROVE HandlerKnows(u)'
    BY <1>18, <2>1, SMTT(30) DEF IpGetDevice
  <2>4. OneRegistrar' /\ AddrFirst'
    BY <1>18, SMTT(30) DEF IpGetDevice
  <2>5. LockDiscipline' /\ BucketBeforeRegistration'
    BY <1>18, SMTT(30) DEF IpGetDevice
  <2> HIDE DEF TypeOK, HandlerKnows, OneRegistrar, AddrFirst, LockDiscipline,
               BucketBeforeRegistration
  <2> QED
    BY <2>2, <2>3, <2>4, <2>5, Zenon
<1>19. ASSUME NEW t \in Tasks, IpModifyDevice(t) PROVE Facts'
  BY <1>19, SMTT(30) DEF IpModifyDevice
<1>20. ASSUME NEW t \in Tasks, IpGetConnection(t) PROVE Facts'
  <2>1. task[t].dev \in Devices
    BY <1>20, Zenon DEF IpGetConnection
  <2>2. TypeOK'
    BY <1>20, <2>1 DEF IpGetConnection
  <2>3. ASSUME NEW u \in Tasks PROVE HandlerKnows(u)'
    <3>1. CASE Return(t)
      BY <1>20, <3>1, SMTT(30) DEF IpGetConnection
    <3>2. CASE Goto(t, "schedule")
      <4>1. task[t].kind # "ack"
        BY <1>20, Zenon DEF IpGetConnection
      <4> QED
        BY <1>20, <3>2, <4>1, SMTT(30) DEF IpGetConnection
    <3> HIDE DEF HandlerKnows, Goto, Return, Reply
    <3> QED
      BY <1>20, <3>1, <3>2, Zenon DEF IpGetConnection
  <2>4. OneRegistrar' /\ AddrFirst'
    BY <1>20, SMTT(30) DEF IpGetConnection
  <2>5. LockDiscipline' /\ BucketBeforeRegistration'
    BY <1>20, SMTT(30) DEF IpGetConnection
  <2> HIDE DEF TypeOK, HandlerKnows, OneRegistrar, AddrFirst, LockDiscipline,
               BucketBeforeRegistration
  <2> QED
    BY <2>2, <2>3, <2>4, <2>5, Zenon
<1>21. ASSUME NEW t \in Tasks, IpReread(t) PROVE Facts'
  BY <1>21, SMTT(30) DEF IpReread
<1>22. ASSUME NEW t \in Tasks, DatabaseError(t) PROVE Facts'
  <2>1. sent' \subseteq Replies \X Devices
    <3>1. CASE task[t].kind = "ip_update"
      <4>1. task[t].dev \in Devices
        BY <1>22, <3>1, Zenon DEF DatabaseError, DatabaseSteps
      <4> QED
        BY <1>22, <3>1, <4>1 DEF DatabaseError
    <3>2. CASE task[t].kind # "ip_update"
      BY <1>22, <3>2, Zenon DEF DatabaseError
    <3> QED
      BY <3>1, <3>2, Zenon
  <2>2. TypeOK'
    BY <1>22, <2>1, SMTT(30) DEF DatabaseError
  <2>3. HandlerFacts' /\ BucketBeforeRegistration'
    BY <1>22, SMTT(30) DEF DatabaseError
  <2>4. LockDiscipline'
    BY <1>22, SMTT(30) DEF DatabaseError
  <2> HIDE DEF TypeOK, HandlerFacts, LockDiscipline, BucketBeforeRegistration
  <2> QED
    BY <2>2, <2>3, <2>4, Zenon
<1>23. ASSUME NEW n \in Nodes, Crash(n) PROVE Facts'
  BY <1>23, SMTT(30) DEF Crash
<1>24. ASSUME NEW t \in Tasks, IpGetConnectionOnError(t) PROVE Facts'
  <2>1. task[t].kind # "ack"
    BY <1>24, Zenon DEF IpGetConnectionOnError
  <2> QED
    BY <1>24, <2>1, SMTT(30) DEF IpGetConnectionOnError
<1>25. ASSUME NEW n \in Nodes, NEW d \in Devices, AckTimeoutError(n, d) PROVE Facts'
  BY <1>25, SMTT(30) DEF AckTimeoutError
<1> QED
  BY Zenon, <1>1, <1>2, <1>3, <1>4, <1>5, <1>6, <1>7, <1>8, <1>9, <1>10, <1>11, <1>12, <1>13,
     <1>14, <1>15, <1>16, <1>17, <1>18, <1>19, <1>20, <1>21, <1>22, <1>23, <1>24, <1>25
     DEF Next, Recv, HandlerStep

\* Facts holds in every reachable state.
THEOREM FactsInvariant == Spec => []Facts
  BY InitFacts, FactsStep, PTL DEF Spec

\* At each await a handler may rely on what it knew before it, whatever other
\* handlers, timers and crashes did meanwhile.
THEOREM HandlersKnow == Spec => []HandlerFacts
  BY FactsInvariant, PTL DEF Facts

\* Every variable keeps its type.
THEOREM TypeCorrect == Spec => []TypeOK
  BY FactsInvariant, PTL DEF Facts

\* The write lock of a node's device manager is held exactly by the handler
\* that is inside the guarded section, on error paths and after crashes too.
THEOREM LockSafe == Spec => []LockDiscipline
  BY FactsInvariant, PTL DEF Facts

\* Scheduling a registered device never fails for want of a bucket row.
THEOREM BucketFirst == Spec => []BucketBeforeRegistration
  BY FactsInvariant, PTL DEF Facts

-----------------------------------------------------------------------------
(* The life of a registration *)

\* The only transitions of a registration status: it starts as PendingAck, may
\* time out from there, and becomes Registered by a handler at its update.
Moves(d) ==
  \/ reg'[d] = reg[d]
  \/ reg[d] = None /\ reg'[d] = "PendingAck"
  \/ reg[d] = "PendingAck" /\ reg'[d] = "AckTimeout"
  \/ /\ reg'[d] = "Registered"
     /\ \E t \in Tasks : task[t].dev = d /\ task[t].pc = "set_registered"

\* Every step moves the status of every device in one of these ways.
LEMMA RegistrationMoves ==
  ASSUME Facts, [Next]_vars, NEW d \in Devices
  PROVE  Moves(d)
<1> USE DEF Moves, Facts, TypeOK, HandlerFacts, HandlerKnows
<1>1. CASE UNCHANGED reg
  BY <1>1, Zenon
<1>2. ASSUME NEW t \in Tasks, RegisterDevice(t) PROVE Moves(d)
  BY <1>2, Zenon DEF RegisterDevice, At, Registering
<1>3. ASSUME NEW n \in Nodes, NEW e \in Devices, AckTimeoutFires(n, e) PROVE Moves(d)
  BY <1>3, Zenon DEF AckTimeoutFires
<1>4. ASSUME NEW t \in Tasks, AckSetRegistered(t) PROVE Moves(d)
  BY <1>4, Zenon DEF AckSetRegistered, At
<1> QED
  BY <1>1, <1>2, <1>3, <1>4, ZenonT(30)
     DEF Next, Recv, HandlerStep, RecvRegister, RecvAck, RecvIpUpdate, Spawn, AddDevice,
         PickBucket, PickBucketOnError, AddToBucket, RespondAndStartTimer, AckGetDevice,
         AckGetRegistration, ScheduleJob, ScheduleWithoutBucket, SaveConnection,
         IpGetDevice, IpModifyDevice, IpGetConnection, IpReread, DatabaseError, Crash,
         IpGetConnectionOnError, AckTimeoutError,
         tables, vars

\* A Registered device is never taken back, whatever the ACK-timeout tasks do.
THEOREM RegisteredStays == Spec => RegisteredIsFinal
<1>1. Facts /\ [Next]_vars
      => [\A d \in Devices : reg[d] = "Registered" => reg'[d] = "Registered"]_vars
  BY RegistrationMoves, StatusAssumption, Zenon DEF Moves, Status
<1> QED
  BY FactsInvariant, <1>1, PTL DEF Spec, RegisteredIsFinal

\* A handler reaches its update only through a read of PendingAck.
LEMMA OnlyPendingReachesUpdate ==
  ASSUME Facts, [Next]_vars, NEW u \in Tasks,
         task'[u].pc = "set_registered", ~(task'[u] = task[u])
  PROVE  task'[u].dev = task[u].dev /\ reg[task[u].dev] = "PendingAck" /\ reg' = reg
<1> DEFINE Goal == task'[u].dev = task[u].dev /\ reg[task[u].dev] = "PendingAck" /\ reg' = reg
<1> USE DEF Facts, TypeOK, Handler, Goto, Become, Return, Frame, Idle, tables
<1>1. ASSUME NEW t \in Tasks, Recv(t)
      PROVE  Goal
  BY <1>1 DEF Recv, RecvRegister, RecvAck, RecvIpUpdate, Spawn
<1>2. ASSUME NEW t \in Tasks, (\E e \in Devices : AddDevice(t, e)) \/ (\E b \in Buckets : PickBucket(t, b))
             \/ PickBucketOnError(t) \/ AddToBucket(t)
      PROVE  Goal
  BY <1>2, SMTT(30) DEF AddDevice, PickBucket, PickBucketOnError, AddToBucket
<1>3. ASSUME NEW t \in Tasks, RegisterDevice(t) \/ RespondAndStartTimer(t)
      PROVE  Goal
  BY <1>3 DEF RegisterDevice, RespondAndStartTimer
<1>4. ASSUME NEW t \in Tasks, AckGetDevice(t) \/ AckSetRegistered(t)
      PROVE  Goal
  BY <1>4 DEF AckGetDevice, AckSetRegistered
<1>5. ASSUME NEW t \in Tasks, AckGetRegistration(t)
      PROVE  Goal
  BY <1>5 DEF AckGetRegistration
<1>6. ASSUME NEW t \in Tasks, ScheduleJob(t) \/ ScheduleWithoutBucket(t) \/ SaveConnection(t)
      PROVE  Goal
  BY <1>6 DEF ScheduleJob, ScheduleWithoutBucket, SaveConnection
<1>7. ASSUME NEW t \in Tasks, IpGetDevice(t) \/ IpModifyDevice(t) \/ IpGetConnection(t) \/ IpReread(t)
      PROVE  Goal
  BY <1>7 DEF IpGetDevice, IpModifyDevice, IpGetConnection, IpReread
<1>8. ASSUME NEW t \in Tasks, DatabaseError(t) \/ IpGetConnectionOnError(t)
      PROVE  Goal
  BY <1>8 DEF DatabaseError, IpGetConnectionOnError
<1>9. ASSUME NEW n \in Nodes, Crash(n) PROVE Goal
  BY <1>9, Zenon DEF Crash
<1>10. ASSUME NEW n \in Nodes, NEW e \in Devices, AckTimeoutFires(n, e) \/ AckTimeoutError(n, e)
       PROVE  Goal
  BY <1>10, Zenon DEF AckTimeoutFires, AckTimeoutError
<1>11. CASE UNCHANGED vars
  BY <1>11, Zenon DEF vars
<1> QED
  BY <1>1, <1>2, <1>3, <1>4, <1>5, <1>6, <1>7, <1>8, <1>9, <1>10, <1>11, Zenon DEF Next, HandlerStep

\* A closed registration window never opens again.
THEOREM ClosedStays == Spec => ClosedIsFinal
<1>1. ASSUME Facts, [Next]_vars, NEW d \in Devices, Closed(d)
      PROVE  Closed(d)'
  <2>1. reg'[d] = "AckTimeout"
    BY <1>1, RegistrationMoves, StatusAssumption, Zenon DEF Moves, Closed, Status
  <2>2. ASSUME NEW u \in Tasks, task'[u].dev = d, task'[u].pc = "set_registered"
        PROVE  FALSE
    BY <1>1, <2>2, OnlyPendingReachesUpdate, Zenon DEF Closed
  <2> QED
    BY <2>1, <2>2 DEF Closed
<1>2. Facts /\ [Next]_vars => [\A d \in Devices : Closed(d) => Closed(d)']_vars
  BY <1>1
<1> QED
  BY FactsInvariant, <1>2, PTL DEF Spec, ClosedIsFinal

\* A confirming ACK is only sent for a Registered device.
LEMMA AckStep ==
  ASSUME Facts, [Next]_vars, NEW d \in Devices,
         <<"ack", d>> \in sent', <<"ack", d>> \notin sent
  PROVE  reg[d] = "Registered" /\ reg' = reg
<1> DEFINE Goal == reg[d] = "Registered" /\ reg' = reg
<1> USE DEF Facts, TypeOK, HandlerFacts, HandlerKnows, Scheduling, At, Reply, tables
<1>1. ASSUME NEW t \in Tasks, Recv(t)
      PROVE  Goal
  BY <1>1, Zenon DEF Recv, RecvRegister, RecvAck, RecvIpUpdate, Spawn
<1>2. ASSUME NEW t \in Tasks, (\E e \in Devices : AddDevice(t, e)) \/ (\E b \in Buckets : PickBucket(t, b))
             \/ PickBucketOnError(t) \/ AddToBucket(t)
      PROVE  Goal
  BY <1>2, Zenon DEF AddDevice, PickBucket, PickBucketOnError, AddToBucket
<1>3. ASSUME NEW t \in Tasks, RegisterDevice(t) \/ RespondAndStartTimer(t)
      PROVE  Goal
  BY <1>3 DEF RegisterDevice, RespondAndStartTimer
<1>4. ASSUME NEW t \in Tasks, AckGetDevice(t) \/ AckSetRegistered(t)
      PROVE  Goal
  BY <1>4, Zenon DEF AckGetDevice, AckSetRegistered
<1>5. ASSUME NEW t \in Tasks, AckGetRegistration(t)
      PROVE  Goal
  BY <1>5 DEF AckGetRegistration
<1>6. ASSUME NEW t \in Tasks, ScheduleJob(t) \/ ScheduleWithoutBucket(t) \/ SaveConnection(t)
      PROVE  Goal
  BY <1>6 DEF ScheduleJob, ScheduleWithoutBucket, SaveConnection
<1>7. ASSUME NEW t \in Tasks, IpGetDevice(t) \/ IpModifyDevice(t) \/ IpGetConnection(t) \/ IpReread(t)
      PROVE  Goal
  BY <1>7 DEF IpGetDevice, IpModifyDevice, IpGetConnection, IpReread
<1>8. ASSUME NEW t \in Tasks, DatabaseError(t) \/ IpGetConnectionOnError(t)
      PROVE  Goal
  BY <1>8, SMTT(30) DEF DatabaseError, IpGetConnectionOnError
<1>9. ASSUME NEW n \in Nodes, Crash(n) PROVE Goal
  BY <1>9, Zenon DEF Crash
<1>10. ASSUME NEW n \in Nodes, NEW e \in Devices, AckTimeoutFires(n, e) \/ AckTimeoutError(n, e)
       PROVE  Goal
  BY <1>10, Zenon DEF AckTimeoutFires, AckTimeoutError
<1>11. CASE UNCHANGED vars
  BY <1>11, Zenon DEF vars
<1> QED
  BY <1>1, <1>2, <1>3, <1>4, <1>5, <1>6, <1>7, <1>8, <1>9, <1>10, <1>11, Zenon DEF Next, HandlerStep

\* A device that got the confirming ACK is Registered for good.
THEOREM ConfirmedIsRegistered == Spec => []AckMeansRegistered
<1>1. Init => AckMeansRegistered
  BY Zenon DEF Init, AckMeansRegistered
<1>2. AckMeansRegistered /\ Facts /\ [Next]_vars => AckMeansRegistered'
  BY AckStep, RegistrationMoves, StatusAssumption, Zenon DEF AckMeansRegistered, Moves, Status
<1> QED
  BY <1>1, <1>2, FactsInvariant, PTL DEF Spec

\* While nothing fails, every Registered device is or is being scheduled.
THEOREM NoOrphanWithoutFailure == Spec => []RegisteredIsScheduled
<1>1. Init => RegisteredIsScheduled
  BY StatusAssumption, Zenon DEF Init, RegisteredIsScheduled, Status
<1>2. ASSUME RegisteredIsScheduled, Facts, [Next]_vars,
             failures' = 0, NEW d \in Devices, reg'[d] = "Registered"
      PROVE  d \in scheduled' \/ \E t \in Tasks : Scheduling(t, d)'
  <2> DEFINE Goal == d \in scheduled' \/ \E t \in Tasks : Scheduling(t, d)'
  <2> USE <1>2, FailuresAssumption DEF Facts, TypeOK, At
  <2>1. ASSUME NEW t \in Tasks, AckSetRegistered(t), task[t].dev = d PROVE Goal
    BY <2>1, Zenon DEF AckSetRegistered, Scheduling, HandlerFacts, HandlerKnows, Goto, Become, Frame
  <2>2. /\ \A t \in Tasks : ~DatabaseError(t) /\ ~PickBucketOnError(t) /\ ~IpGetConnectionOnError(t)
        /\ \A n \in Nodes : ~Crash(n) /\ \A e \in Devices : ~AckTimeoutError(n, e)
    BY SMTT(30) DEF DatabaseError, PickBucketOnError, IpGetConnectionOnError, Crash, AckTimeoutError
  <2>2a. failures = 0
    BY <2>2, ZenonT(30)
       DEF Next, Recv, HandlerStep, RecvRegister, RecvAck, RecvIpUpdate, Spawn, AddDevice,
           PickBucket, AddToBucket, RegisterDevice, RespondAndStartTimer,
           AckGetDevice, AckGetRegistration, AckSetRegistered,
           AckTimeoutFires, ScheduleJob, ScheduleWithoutBucket, SaveConnection,
           IpGetDevice, IpModifyDevice, IpGetConnection, IpReread, vars
  <2>3. scheduled \subseteq scheduled'
    BY ZenonT(30) DEF Next, Recv, HandlerStep, RecvRegister, RecvAck, RecvIpUpdate, Spawn, AddDevice,
           PickBucket, PickBucketOnError, AddToBucket, RegisterDevice,
           RespondAndStartTimer, AckGetDevice, AckGetRegistration, AckSetRegistered,
           AckTimeoutFires, ScheduleJob, ScheduleWithoutBucket, SaveConnection,
           IpGetDevice, IpModifyDevice, IpGetConnection, IpReread, DatabaseError, Crash,
         IpGetConnectionOnError, AckTimeoutError,
           tables, vars
  <2>4. CASE reg[d] = "Registered" /\ d \notin scheduled
    <3>1. PICK t \in Tasks : Scheduling(t, d)
      BY <2>2a, <2>4, Zenon DEF RegisteredIsScheduled
    <3>2. CASE task'[t] = task[t]
      BY <3>1, <3>2, Zenon DEF Scheduling
    <3>3. CASE task'[t] # task[t]
      <4>1. ScheduleJob(t) \/ ScheduleWithoutBucket(t) \/ SaveConnection(t)
        <5>1. ASSUME NEW u \in Tasks, u # t, Recv(u) \/ HandlerStep(u) PROVE FALSE
          BY <3>3, <5>1, Zenon
             DEF Recv, HandlerStep, RecvRegister, RecvAck, RecvIpUpdate, Spawn,
             AddDevice, PickBucket, AddToBucket, RegisterDevice,
             RespondAndStartTimer, AckGetDevice, AckGetRegistration, AckSetRegistered,
             ScheduleJob, ScheduleWithoutBucket, SaveConnection,
             IpGetDevice, IpModifyDevice, IpGetConnection, IpReread, Goto, Become, Return
        <5>2. UNCHANGED task \/ Recv(t) \/ HandlerStep(t)
          BY <2>2, <5>1, Zenon DEF Next, AckTimeoutFires, vars
        <5> QED
          BY <3>1, <3>3, <5>2, Zenon
             DEF Scheduling, Recv, HandlerStep, RecvRegister, RecvAck, RecvIpUpdate, Spawn,
             AddDevice, PickBucket, AddToBucket, RegisterDevice,
             RespondAndStartTimer, AckGetDevice, AckGetRegistration, AckSetRegistered,
             IpGetDevice, IpModifyDevice, IpGetConnection, IpReread
      <4>2. bucket[d] # None
        BY <2>4, StatusAssumption, Zenon DEF BucketBeforeRegistration, Status
      <4>3. CASE ScheduleJob(t)
        BY <3>1, <4>3, Zenon DEF ScheduleJob, Scheduling, Goto, Become, Frame
      <4>4. CASE SaveConnection(t)
        BY <3>1, <4>4, Zenon DEF SaveConnection, Scheduling
      <4> QED
        BY <3>1, <4>1, <4>2, <4>3, <4>4, Zenon DEF ScheduleWithoutBucket, Scheduling
    <3> QED
      BY <3>2, <3>3, Zenon
  <2>5. CASE reg[d] # "Registered"
    <3>1. \E t \in Tasks : AckSetRegistered(t) /\ task[t].dev = d
      BY <2>5, ZenonT(30) DEF Next, Recv, HandlerStep, RecvRegister, RecvAck, RecvIpUpdate, Spawn,
           AddDevice, PickBucket, PickBucketOnError, AddToBucket, RegisterDevice,
           RespondAndStartTimer, AckGetDevice, AckGetRegistration, AckSetRegistered,
           AckTimeoutFires, ScheduleJob, ScheduleWithoutBucket, SaveConnection,
           IpGetDevice, IpModifyDevice, IpGetConnection, IpReread, DatabaseError, Crash,
         IpGetConnectionOnError, AckTimeoutError,
           tables, vars
    <3> QED
      BY <2>1, <3>1, Zenon
  <2> QED
    BY <2>3, <2>4, <2>5, Zenon
<1>3. RegisteredIsScheduled /\ Facts /\ [Next]_vars => RegisteredIsScheduled'
  BY <1>2 DEF RegisteredIsScheduled
<1> QED
  BY <1>1, <1>3, FactsInvariant, PTL DEF Spec

-----------------------------------------------------------------------------
(* Bucket balance *)

\* Counts and pending picks are numbers.
LEMMA CountsAreNat ==
  \A b \in Buckets : Count(b) \in Nat /\ Cardinality(Picked(b)) \in Nat
                     /\ IsFiniteSet(Picked(b)) /\ Cardinality(Nodes) \in Nat
  BY DevicesAssumption, NodesAssumption, FS_Subset, FS_CardinalityType, Zenon DEF Count, Picked

\* When a handler takes its node's free device-manager lock to pick a bucket, the
\* picks not yet written to T_BUCKETS come from other nodes, one per node.
LEMMA PickedBound ==
  ASSUME Facts, NEW b \in Buckets, NEW t \in Tasks, LockFree(t)
  PROVE  Cardinality(Picked(b) \cup {t}) <= Cardinality(Nodes)
<1> DEFINE S == Picked(b) \cup {t}
           f == [u \in S |-> NodeOf[u]]
<1>1. f \in [S -> Nodes]
  BY NodeOfAssumption DEF Picked
<1>2. ASSUME NEW u \in S, NEW v \in S, f[u] = f[v] PROVE u = v
  BY <1>2, TaskNames, SMTT(30) DEF Facts, LockDiscipline, Holds, Picked, LockFree
<1>3. f \in Injection(S, Nodes)
  BY <1>1, <1>2, Zenon DEF Injection, IsInjective
<1> QED
  BY <1>3, FS_Injection, NodesAssumption, Zenon

\* A step that writes no bucket and adds no pick keeps the balance.
LEMMA QuietStep ==
  ASSUME PicksBalanced, TypeOK, TypeOK', bucket' = bucket, failures' >= failures,
         \A c \in Buckets : Picked(c)' \subseteq Picked(c)
  PROVE  PicksBalanced'
<1>1. ASSUME NEW c \in Buckets
      PROVE  Count(c)' = Count(c) /\ Cardinality(Picked(c)') <= Cardinality(Picked(c))
                                  /\ Cardinality(Picked(c)') \in Nat
  BY CountsAreNat, FS_Subset, FS_CardinalityType, Zenon DEF Count
<1> QED
  BY <1>1, CountsAreNat DEF PicksBalanced, TypeOK

\* Every step keeps the balance of picks and counts.
LEMMA BalanceStep ==
  ASSUME PicksBalanced, Facts, TypeOK', [Next]_vars
  PROVE  PicksBalanced'
<1> USE CountsAreNat DEF At
<1>1. ASSUME NEW t \in Tasks, NEW b \in Buckets, PickBucket(t, b) PROVE PicksBalanced'
  <2>1. \A c \in Buckets : Count(c)' = Count(c)
    BY <1>1, Zenon DEF PickBucket, tables, Count
  <2>2. Picked(b)' = Picked(b) \cup {t}
    BY <1>1, SMTT(30) DEF PickBucket, Picked, Become, Frame, Facts, TypeOK
  <2>3. \A c \in Buckets : c # b => Picked(c)' = Picked(c)
    BY <1>1, Zenon DEF PickBucket, Picked, Become, Frame, Facts, TypeOK
  <2>4. Cardinality(Picked(b)') <= Cardinality(Nodes)
    BY <1>1, <2>2, PickedBound, Zenon DEF PickBucket
  <2>5. Cardinality(Picked(b)') \in Nat
    BY <2>2, FS_AddElement, FS_CardinalityType, Zenon
  <2>6. \A c \in Buckets : Count(b) <= Count(c)
    BY <1>1, Zenon DEF PickBucket, LeastLoaded
  <2>7. failures' = failures /\ failures \in Nat
    BY <1>1 DEF PickBucket, Facts, TypeOK
  <2> QED
    BY <2>1, <2>3, <2>4, <2>5, <2>6, <2>7 DEF PicksBalanced
<1>2. ASSUME NEW t \in Tasks, NEW z \in Buckets, z = 0, PickBucketOnError(t)
      PROVE  PicksBalanced'
  <2>1. \A c \in Buckets : Count(c)' = Count(c)
    BY <1>2, Zenon DEF PickBucketOnError, tables, Count
  <2>2. Picked(z)' = Picked(z) \cup {t}
    BY <1>2, SMTT(30) DEF PickBucketOnError, Picked, Become, Frame, Facts, TypeOK
  <2>3. \A c \in Buckets : c # z => Picked(c)' = Picked(c)
    BY <1>2, Zenon DEF PickBucketOnError, Picked, Become, Frame, Facts, TypeOK
  <2>5. IsFiniteSet(Picked(z)) /\ Cardinality(Picked(z)) \in Nat
    BY Zenon
  <2>5a. Cardinality(Picked(z)') \in Nat /\ Cardinality(Picked(z)') <= Cardinality(Picked(z)) + 1
    <3>1. Cardinality(Picked(z) \cup {t}) = Cardinality(Picked(z)) + 1
          \/ Cardinality(Picked(z) \cup {t}) = Cardinality(Picked(z))
      BY ONLY <2>5, FS_AddElement, SMTT(30)
    <3> QED
      BY <2>2, <2>5, <3>1
  <2>6. failures' = failures + 1 /\ failures \in Nat
    BY <1>2 DEF PickBucketOnError, Facts, TypeOK
  <2> QED
    BY <2>1, <2>3, <2>5, <2>5a, <2>6 DEF PicksBalanced
<1>3. ASSUME NEW t \in Tasks, NEW b \in Buckets, NEW d \in Devices,
             AddToBucket(t), task[t].bucket = b, task[t].dev = d
      PROVE  PicksBalanced'
  <2> DEFINE In(c) == {e \in Devices : bucket[e] = c}
  <2>1. bucket[d] = None /\ bucket \in [Devices -> Buckets \cup {None}]
    BY <1>3, Zenon DEF AddToBucket, Facts, HandlerFacts, HandlerKnows, TypeOK
  <2>2. Picked(b)' = Picked(b) \ {t} /\ t \in Picked(b)
    BY <1>3, <2>1, Zenon DEF AddToBucket, Picked, Become, Frame, Facts, TypeOK
  <2>3. \A c \in Buckets : c # b => Picked(c)' = Picked(c)
    BY <1>3, <2>1, SMTT(30) DEF AddToBucket, Picked, Become, Frame, Facts, TypeOK
  <2>4. In(b)' = In(b) \cup {d} /\ d \notin In(b)
    BY <1>3, <2>1, BucketAssumption, Zenon DEF AddToBucket
  <2>5. \A c \in Buckets : c # b => In(c)' = In(c)
    BY <1>3, <2>1, BucketAssumption, Zenon DEF AddToBucket
  <2>6. IsFiniteSet(In(b))
    BY FS_Subset, DevicesAssumption, Zenon
  <2>7. Count(b)' = Count(b) + 1
    BY <2>4, <2>6, FS_AddElement, Zenon DEF Count
  <2>8. \A c \in Buckets : c # b => Count(c)' = Count(c)
    BY <2>5, Zenon DEF Count
  <2>9. Cardinality(Picked(b)') = Cardinality(Picked(b)) - 1
    BY <2>2, FS_RemoveElement, Zenon
  <2>10. failures' = failures /\ failures \in Nat
    BY <1>3, SMTT(30) DEF AddToBucket, Facts, TypeOK
  <2>11. ASSUME NEW x \in Buckets, NEW c \in Buckets
         PROVE  /\ Count(x)' + Cardinality(Picked(x)') = Count(x) + Cardinality(Picked(x))
                /\ Count(c)' >= Count(c) /\ Count(c)' \in Nat
    BY <2>3, <2>7, <2>8, <2>9
  <2>12. ASSUME NEW x \in Buckets, NEW c \in Buckets
         PROVE  Count(x)' + Cardinality(Picked(x)') <= Count(c)' + Cardinality(Nodes) + failures'
    <3>1. Count(x) + Cardinality(Picked(x)) <= Count(c) + Cardinality(Nodes) + failures
      BY Zenon DEF PicksBalanced
    <3> QED
      BY <2>10, <2>11, <3>1
  <2> QED
    BY <2>12, Zenon DEF PicksBalanced
<1>4. CASE /\ bucket' = bucket
           /\ failures' >= failures
           /\ \A c \in Buckets : Picked(c)' \subseteq Picked(c)
  BY <1>4, QuietStep, Zenon DEF Facts
<1> USE DEF Facts, TypeOK, Picked, tables, Goto, Become, Return, Frame, Idle
<1>5. ASSUME NEW t \in Tasks, Recv(t) PROVE PicksBalanced'
  BY <1>4, <1>5, SMTT(30) DEF Recv, RecvRegister, RecvAck, RecvIpUpdate, Spawn
<1>6. ASSUME NEW t \in Tasks, NEW d \in Devices, AddDevice(t, d) PROVE PicksBalanced'
  BY <1>4, <1>6, SMTT(30) DEF AddDevice
<1>7. ASSUME NEW t \in Tasks, RegisterDevice(t) \/ RespondAndStartTimer(t) PROVE PicksBalanced'
  BY <1>4, <1>7, SMTT(30) DEF RegisterDevice, RespondAndStartTimer
<1>8. ASSUME NEW t \in Tasks, AckGetDevice(t) \/ AckGetRegistration(t) \/ AckSetRegistered(t)
      PROVE  PicksBalanced'
  BY <1>4, <1>8, SMTT(30) DEF AckGetDevice, AckGetRegistration, AckSetRegistered
<1>9. ASSUME NEW t \in Tasks, ScheduleJob(t) \/ ScheduleWithoutBucket(t) \/ SaveConnection(t)
      PROVE  PicksBalanced'
  BY <1>4, <1>9, SMTT(30) DEF ScheduleJob, ScheduleWithoutBucket, SaveConnection
<1>10. ASSUME NEW t \in Tasks, IpGetDevice(t) \/ IpModifyDevice(t) \/ IpGetConnection(t) \/ IpReread(t)
       PROVE  PicksBalanced'
  BY <1>4, <1>10, SMTT(30) DEF IpGetDevice, IpModifyDevice, IpGetConnection, IpReread
<1>11. ASSUME NEW t \in Tasks, DatabaseError(t) \/ IpGetConnectionOnError(t) PROVE PicksBalanced'
  BY <1>4, <1>11, SMTT(30) DEF DatabaseError, IpGetConnectionOnError
<1>12. ASSUME NEW n \in Nodes, Crash(n) PROVE PicksBalanced'
  BY <1>4, <1>12, SMTT(30) DEF Crash
<1>13. ASSUME NEW n \in Nodes, NEW d \in Devices, AckTimeoutFires(n, d) \/ AckTimeoutError(n, d)
       PROVE  PicksBalanced'
  BY <1>4, <1>13, SMTT(30) DEF AckTimeoutFires, AckTimeoutError
<1>14. CASE UNCHANGED vars
  BY <1>4, <1>14 DEF vars
<1>15. ASSUME NEW t \in Tasks, AddToBucket(t) PROVE PicksBalanced'
  BY <1>3, <1>15, Zenon DEF AddToBucket, HandlerFacts, HandlerKnows
<1>16. ASSUME NEW t \in Tasks, PickBucketOnError(t) PROVE PicksBalanced'
  BY <1>2, <1>16, BucketAssumption, SMTT(30) DEF Buckets
<1> HIDE DEF Facts, TypeOK, Picked, tables, Goto, Become, Return, Frame, Idle, At
<1> QED
  BY <1>1, <1>5, <1>6, <1>7, <1>8, <1>9, <1>10, <1>11, <1>12, <1>13, <1>14, <1>15, <1>16, Zenon
     DEF Next, HandlerStep

\* Every bucket stays within one device per node and per failed count query of
\* every other one, also counting the picks that are not written yet.
THEOREM PicksStayBalanced == Spec => []PicksBalanced
<1>1. Init => PicksBalanced
  <2> SUFFICES ASSUME Init PROVE PicksBalanced
    OBVIOUS
  <2>1. \A b \in Buckets : Count(b) = 0 /\ Cardinality(Picked(b)) = 0
    <3>1. \A b \in Buckets : {d \in Devices : bucket[d] = b} = {} /\ Picked(b) = {}
      BY BucketAssumption, Zenon DEF Init, Picked, Idle, Frame
    <3> QED
      BY <3>1, FS_EmptySet DEF Count
  <2> QED
    BY <2>1, CountsAreNat DEF PicksBalanced, Init
<1>2. PicksBalanced /\ Facts /\ Facts' /\ [Next]_vars => PicksBalanced'
  BY BalanceStep DEF Facts
<1> QED
  BY <1>1, <1>2, FactsInvariant, PTL DEF Spec

\* The buckets of the shared table stay balanced although nodes race on it.
THEOREM Balanced == Spec => []BucketsBalanced
<1>1. PicksBalanced /\ Facts => BucketsBalanced
  BY CountsAreNat DEF PicksBalanced, BucketsBalanced, Facts, TypeOK
<1> QED
  BY <1>1, PicksStayBalanced, FactsInvariant, PTL
===============================================================================
