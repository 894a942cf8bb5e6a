---------------------------- MODULE Registration ----------------------------
(***************************************************************************)
(* Device registration through the backdoor: the three message handlers of *)
(* backdoor.rs, the ACK-timeout task, and the four database tables they    *)
(* share.  Several HES nodes may share one database (cluster mode); with   *)
(* one node this is the single-node system.                                *)
(*                                                                         *)
(* Every await on the database or on the device manager's RwLock is the    *)
(* end of a step, so handlers interleave exactly there.  A datagram of any *)
(* kind may arrive at any time, which covers UDP loss, duplication and     *)
(* reordering.  A task holds one permit of the node's semaphore for its    *)
(* whole life: a task slot is a permit.                                    *)
(***************************************************************************)
EXTENDS Integers, FiniteSets

CONSTANTS Devices,      \* the ids Device::new may draw
          V4, V6,       \* source addresses, by family
          Nodes,        \* HES nodes sharing the database
          Tasks,        \* semaphore permits of all nodes
          NodeOf,       \* the node each permit belongs to
          BucketCount,  \* buckets_number, the same on every node
          MaxFailures,  \* bound on crashes and database errors
          None          \* absence of a value

Addrs == V4 \cup V6
Buckets == 0 .. BucketCount - 1
Status == {"PendingAck", "Registered", "AckTimeout"}

ASSUME DevicesAssumption == IsFiniteSet(Devices) /\ None \notin Devices
ASSUME AddrsAssumption == None \notin Addrs /\ V4 \cap V6 = {}
ASSUME StatusAssumption == None \notin Status
ASSUME NodesAssumption == IsFiniteSet(Nodes) /\ IsFiniteSet(Tasks)
ASSUME NodeOfAssumption == NodeOf \in [Tasks -> Nodes]
ASSUME TaskNames == None \notin Tasks
ASSUME BucketAssumption == BucketCount \in Nat \ {0} /\ None \notin Buckets
ASSUME FailuresAssumption == MaxFailures \in Nat

VARIABLES
  addr,       \* T_DEVICES: the stored address of a device
  reg,        \* T_DEVICE_REGISTRATION: its registration status
  bucket,     \* T_BUCKETS: its bucket
  scheduled,  \* T_SCHEDULED_CONNECTIONS: the devices with a row
  task,       \* the handler running in each task slot
  lock,       \* per node, the task holding device_manager.write()
  timers,     \* per node, devices whose ACK-timeout task is sleeping
  sent,       \* replies sent so far, as <<kind, device>>
  failures    \* crashes and database errors so far

tables == <<addr, reg, bucket, scheduled>>
vars == <<addr, reg, bucket, scheduled, task, lock, timers, sent, failures>>

Kinds == {"register", "ack", "ip_update"}
Replies == {"response", "ack", "nack_late", "nack"}
PCs == {"idle", "add_device", "pick_bucket", "add_bucket", "register", "respond",
        "get_device", "get_registration", "set_registered", "modify_device",
        "get_connection", "schedule", "save_connection", "reread"}

Frame(pc, kind, dev, from, b) ==
  [pc |-> pc, kind |-> kind, dev |-> dev, from |-> from, bucket |-> b]
Idle == Frame("idle", "register", None, None, None)
Handler == [pc : PCs, kind : Kinds, dev : Devices \cup {None},
            from : Addrs \cup {None}, bucket : Buckets \cup {None}]

Init ==
  /\ addr = [d \in Devices |-> None]
  /\ reg = [d \in Devices |-> None]
  /\ bucket = [d \in Devices |-> None]
  /\ scheduled = {}
  /\ task = [t \in Tasks |-> Idle]
  /\ lock = [n \in Nodes |-> None]
  /\ timers = [n \in Nodes |-> {}]
  /\ sent = {}
  /\ failures = 0

-----------------------------------------------------------------------------
(* Shared steps *)

\* The number of devices of a bucket, as get_bucket_with_less_devices counts them.
Count(b) == Cardinality({d \in Devices : bucket[d] = b})

\* Slip: the comparison the other way round.
MostLoaded(b) == \A c \in Buckets : Count(b) >= Count(c)

\* The first bucket with the smallest count.
LeastLoaded(b) ==
  /\ \A c \in Buckets : Count(b) <= Count(c)
  /\ \A c \in Buckets : c < b => Count(b) < Count(c)

At(t, pc) == task[t].pc = pc
Become(t, pc, d, b) ==
  task' = [task EXCEPT ![t] = Frame(pc, task[t].kind, d, task[t].from, b)]
Goto(t, pc) == Become(t, pc, task[t].dev, task[t].bucket)
Return(t) == task' = [task EXCEPT ![t] = Idle]
LockFree(t) == lock[NodeOf[t]] = None
Acquire(t) == lock' = [lock EXCEPT ![NodeOf[t]] = t]
Release(t) == lock' = [lock EXCEPT ![NodeOf[t]] = None]
Reply(kind, t) == sent' = sent \cup {<<kind, task[t].dev>>}

-----------------------------------------------------------------------------
(* The receive loop: init_backdoor takes a permit and spawns the handler *)

Spawn(t, h) ==
  /\ At(t, "idle")
  /\ task' = [task EXCEPT ![t] = h]
  /\ UNCHANGED <<tables, lock, timers, sent, failures>>

\* Bound: the model has finitely many ids, one must be left for Device::new.
FreshIdLeft ==
  Cardinality({u \in Tasks : At(u, "add_device")})
    < Cardinality({d \in Devices : addr[d] = None})

RecvRegister(t, a) ==
  /\ FreshIdLeft
  /\ Spawn(t, Frame("add_device", "register", None, a, None))

RecvAck(t, d, a) ==
  Spawn(t, Frame("get_device", "ack", d, a, None))

RecvIpUpdate(t, d, a) ==
  Spawn(t, Frame("get_device", "ip_update", d, a, None))

-----------------------------------------------------------------------------
(* handle_backdoor_register_msg *)

\* Slip: the id is not checked to be new.
AddDeviceAnyId(t, d) ==
  /\ At(t, "add_device")
  /\ addr' = [addr EXCEPT ![d] = task[t].from]
  /\ Become(t, "pick_bucket", d, None)
  /\ UNCHANGED <<reg, bucket, scheduled, lock, timers, sent, failures>>

\* Slip: the registration is written without a bucket.
AddDeviceNoBucket(t, d) ==
  /\ At(t, "add_device")
  /\ addr[d] = None
  /\ addr' = [addr EXCEPT ![d] = task[t].from]
  /\ Become(t, "register", d, None)
  /\ UNCHANGED <<reg, bucket, scheduled, lock, timers, sent, failures>>

\* Device::new draws an id nobody has, then add_device.
AddDevice(t, d) ==
  /\ At(t, "add_device")
  /\ addr[d] = None
  /\ addr' = [addr EXCEPT ![d] = task[t].from]
  /\ Become(t, "pick_bucket", d, None)
  /\ UNCHANGED <<reg, bucket, scheduled, lock, timers, sent, failures>>

\* Takes the device manager's lock and reads the least loaded bucket.
PickBucket(t, b) ==
  /\ At(t, "pick_bucket")
  /\ LockFree(t)
  /\ LeastLoaded(b)
  /\ Acquire(t)
  /\ Become(t, "add_bucket", task[t].dev, b)
  /\ UNCHANGED <<tables, timers, sent, failures>>

\* Slip: a failed count query picks buckets_number, one past the last bucket.
PickEndOnError(t) ==
  /\ At(t, "pick_bucket")
  /\ LockFree(t)
  /\ failures < MaxFailures
  /\ failures' = failures + 1
  /\ Acquire(t)
  /\ Become(t, "add_bucket", task[t].dev, BucketCount)
  /\ UNCHANGED <<tables, timers, sent>>

\* The same step when the count query fails: unwrap_or(0) picks bucket 0.
PickBucketOnError(t) ==
  /\ At(t, "pick_bucket")
  /\ LockFree(t)
  /\ failures < MaxFailures
  /\ failures' = failures + 1
  /\ Acquire(t)
  /\ Become(t, "add_bucket", task[t].dev, 0)
  /\ UNCHANGED <<tables, timers, sent>>

\* add_device_to_bucket, then the lock guard is dropped.
AddToBucket(t) ==
  /\ At(t, "add_bucket")
  /\ bucket' = [bucket EXCEPT ![task[t].dev] = task[t].bucket]
  /\ Release(t)
  /\ Become(t, "register", task[t].dev, None)
  /\ UNCHANGED <<addr, reg, scheduled, timers, sent, failures>>

\* register_device: the registration starts in PendingAck.
RegisterDevice(t) ==
  /\ At(t, "register")
  /\ reg' = [reg EXCEPT ![task[t].dev] = "PendingAck"]
  /\ Goto(t, "respond")
  /\ UNCHANGED <<addr, bucket, scheduled, lock, timers, sent, failures>>

\* Slip: no ACK-timeout task.
RespondOnly(t) ==
  /\ At(t, "respond")
  /\ Reply("response", t)
  /\ Return(t)
  /\ UNCHANGED <<tables, lock, timers, failures>>

\* Sends the RegisterResponse and spawns the ACK-timeout task.
RespondAndStartTimer(t) ==
  /\ At(t, "respond")
  /\ Reply("response", t)
  /\ timers' = [timers EXCEPT ![NodeOf[t]] = @ \cup {task[t].dev}]
  /\ Return(t)
  /\ UNCHANGED <<tables, lock, failures>>

\* Slip: the timeout does not look at the status.
AckTimeoutAlways(n, d) ==
  /\ d \in timers[n]
  /\ timers' = [timers EXCEPT ![n] = @ \ {d}]
  /\ reg' = [reg EXCEPT ![d] = "AckTimeout"]
  /\ UNCHANGED <<addr, bucket, scheduled, task, lock, sent, failures>>

\* spawn_ack_timeout_task wakes up: registration_timeout only acts on PendingAck.
AckTimeoutFires(n, d) ==
  /\ d \in timers[n]
  /\ timers' = [timers EXCEPT ![n] = @ \ {d}]
  /\ reg' = IF reg[d] = "PendingAck" THEN [reg EXCEPT ![d] = "AckTimeout"] ELSE reg
  /\ UNCHANGED <<addr, bucket, scheduled, task, lock, sent, failures>>

\* registration_timeout fails: the error is logged and the task is over.
AckTimeoutError(n, d) ==
  /\ d \in timers[n]
  /\ failures < MaxFailures
  /\ failures' = failures + 1
  /\ timers' = [timers EXCEPT ![n] = @ \ {d}]
  /\ UNCHANGED <<tables, task, lock, sent>>

-----------------------------------------------------------------------------
(* handle_backdoor_ack_msg *)

\* The ACK must come from the stored IPv4 address; ipv6 is not compared.
AckFromDevice(t) ==
  /\ task[t].from \in V4
  /\ task[t].from = addr[task[t].dev]

\* get_device and the address check; an unknown device or address ends the task.
AckGetDevice(t) ==
  /\ At(t, "get_device")
  /\ task[t].kind = "ack"
  /\ IF AckFromDevice(t) THEN Goto(t, "get_registration") ELSE Return(t)
  /\ UNCHANGED <<tables, lock, timers, sent, failures>>

\* Slip: an ACK after the timeout still registers the device.
AckAlwaysInTime(t) ==
  /\ At(t, "get_registration")
  /\ LET status == reg[task[t].dev] IN
     IF status \in {"PendingAck", "AckTimeout"} THEN Goto(t, "set_registered") ELSE Return(t)
  /\ UNCHANGED <<tables, lock, timers, sent, failures>>

\* get_device_registration and the dispatch on the status it returns.
AckGetRegistration(t) ==
  /\ At(t, "get_registration")
  /\ LET status == reg[task[t].dev] IN
     \/ /\ status = None
        /\ Return(t)
        /\ UNCHANGED sent
     \/ /\ status = "AckTimeout"
        /\ Reply("nack_late", t)
        /\ Return(t)
     \/ /\ status = "Registered"
        /\ Reply("ack", t)
        /\ Return(t)
     \/ /\ status = "PendingAck"
        /\ Goto(t, "set_registered")
        /\ UNCHANGED sent
  /\ UNCHANGED <<tables, lock, timers, failures>>

\* update_device_registration: unconditional, whatever the status is by now.
AckSetRegistered(t) ==
  /\ At(t, "set_registered")
  /\ reg' = [reg EXCEPT ![task[t].dev] = "Registered"]
  /\ Goto(t, "schedule")
  /\ UNCHANGED <<addr, bucket, scheduled, lock, timers, sent, failures>>

-----------------------------------------------------------------------------
(* schedule_next_wakeup, called by the ACK and the IP-update handlers *)

\* Reads the bucket and creates the cron job, with the lock held.
ScheduleJob(t) ==
  /\ At(t, "schedule")
  /\ LockFree(t)
  /\ bucket[task[t].dev] # None
  /\ Acquire(t)
  /\ Goto(t, "save_connection")
  /\ UNCHANGED <<tables, timers, sent, failures>>

\* get_bucket_number finds no row: the call fails, an IP update is refused.
ScheduleWithoutBucket(t) ==
  /\ At(t, "schedule")
  /\ LockFree(t)
  /\ bucket[task[t].dev] = None
  /\ IF task[t].kind = "ip_update" THEN Reply("nack", t) ELSE UNCHANGED sent
  /\ Return(t)
  /\ UNCHANGED <<tables, lock, timers, failures>>

\* Slip: the job exists in memory only, no row is written.
SaveNothing(t) ==
  /\ At(t, "save_connection")
  /\ Release(t)
  /\ IF task[t].kind = "ack"
     THEN Reply("ack", t) /\ Return(t)
     ELSE Goto(t, "reread") /\ UNCHANGED sent
  /\ UNCHANGED <<tables, timers, failures>>

\* schedule_connection, the lock is dropped; the ACK handler then confirms.
SaveConnection(t) ==
  /\ At(t, "save_connection")
  /\ scheduled' = scheduled \cup {task[t].dev}
  /\ Release(t)
  /\ IF task[t].kind = "ack"
     THEN Reply("ack", t) /\ Return(t)
     ELSE Goto(t, "reread") /\ UNCHANGED sent
  /\ UNCHANGED <<addr, reg, bucket, timers, failures>>

-----------------------------------------------------------------------------
(* handle_backdoor_ip_update_msg and get_next_wake_time *)

IpGetDevice(t) ==
  /\ At(t, "get_device")
  /\ task[t].kind = "ip_update"
  /\ IF addr[task[t].dev] = None
     THEN Reply("nack", t) /\ Return(t)
     ELSE Goto(t, "modify_device") /\ UNCHANGED sent
  /\ UNCHANGED <<tables, lock, timers, failures>>

IpModifyDevice(t) ==
  /\ At(t, "modify_device")
  /\ addr' = [addr EXCEPT ![task[t].dev] = task[t].from]
  /\ Goto(t, "get_connection")
  /\ UNCHANGED <<reg, bucket, scheduled, lock, timers, sent, failures>>

\* An existing row answers the device; without one a connection is scheduled.
IpGetConnection(t) ==
  /\ At(t, "get_connection")
  /\ IF task[t].dev \in scheduled
     THEN Reply("response", t) /\ Return(t)
     ELSE Goto(t, "schedule") /\ UNCHANGED sent
  /\ UNCHANGED <<tables, lock, timers, failures>>

\* A failed lookup is taken for a missing row: `Err(_)` schedules another one.
IpGetConnectionOnError(t) ==
  /\ At(t, "get_connection")
  /\ failures < MaxFailures
  /\ failures' = failures + 1
  /\ Goto(t, "schedule")
  /\ UNCHANGED <<tables, lock, timers, sent>>

IpReread(t) ==
  /\ At(t, "reread")
  /\ Reply(IF task[t].dev \in scheduled THEN "response" ELSE "nack", t)
  /\ Return(t)
  /\ UNCHANGED <<tables, lock, timers, failures>>

-----------------------------------------------------------------------------
(* Failures *)

DatabaseSteps == PCs \ {"idle", "pick_bucket", "respond", "get_connection"}

\* Slip: an error path that leaves the lock taken.
DatabaseErrorKeepsLock(t) ==
  /\ task[t].pc \in DatabaseSteps
  /\ failures < MaxFailures
  /\ failures' = failures + 1
  /\ IF task[t].kind = "ip_update" THEN Reply("nack", t) ELSE UNCHANGED sent
  /\ Return(t)
  /\ UNCHANGED <<tables, lock, timers>>

\* A database call returns an error: `?` ends the handler, its guard is dropped,
\* and an IP update is answered with a NACK.  (An unreadable message timestamp
\* ends a register or ACK handler at the same places.)
DatabaseError(t) ==
  /\ task[t].pc \in DatabaseSteps
  /\ failures < MaxFailures
  /\ failures' = failures + 1
  /\ IF task[t].kind = "ip_update" THEN Reply("nack", t) ELSE UNCHANGED sent
  /\ lock' = [n \in Nodes |-> IF lock[n] = t THEN None ELSE lock[n]]
  /\ Return(t)
  /\ UNCHANGED <<tables, timers>>

\* A node stops and starts again: its tasks, timers and lock are gone, the
\* tables (PostgreSQL) stay.  Nothing restarts the ACK-timeout tasks.
Crash(n) ==
  /\ failures < MaxFailures
  /\ failures' = failures + 1
  /\ task' = [t \in Tasks |-> IF NodeOf[t] = n THEN Idle ELSE task[t]]
  /\ lock' = [lock EXCEPT ![n] = None]
  /\ timers' = [timers EXCEPT ![n] = {}]
  /\ UNCHANGED <<tables, sent>>

-----------------------------------------------------------------------------

\* One step of the handler in slot t.
HandlerStep(t) ==
  \/ \E d \in Devices : AddDevice(t, d)
  \/ \E b \in Buckets : PickBucket(t, b)
  \/ AddToBucket(t)
  \/ RegisterDevice(t)
  \/ RespondAndStartTimer(t)
  \/ AckGetDevice(t)
  \/ AckGetRegistration(t)
  \/ AckSetRegistered(t)
  \/ ScheduleJob(t)
  \/ ScheduleWithoutBucket(t)
  \/ SaveConnection(t)
  \/ IpGetDevice(t)
  \/ IpModifyDevice(t)
  \/ IpGetConnection(t)
  \/ IpReread(t)

Recv(t) ==
  \/ \E a \in Addrs : RecvRegister(t, a)
  \/ \E d \in Devices, a \in Addrs : RecvAck(t, d, a)
  \/ \E d \in Devices, a \in Addrs : RecvIpUpdate(t, d, a)

Next ==
  \/ \E t \in Tasks : Recv(t) \/ HandlerStep(t) \/ DatabaseError(t)
                      \/ PickBucketOnError(t) \/ IpGetConnectionOnError(t)
  \/ \E n \in Nodes, d \in Devices : AckTimeoutFires(n, d) \/ AckTimeoutError(n, d)
  \/ \E n \in Nodes : Crash(n)

\* tokio runs every ready task, its RwLock is fair (FIFO), and every sleep ends.
Fairness ==
  /\ \A t \in Tasks : SF_vars(HandlerStep(t))
  /\ \A n \in Nodes, d \in Devices : WF_vars(AckTimeoutFires(n, d))

Spec == Init /\ [][Next]_vars /\ Fairness
-----------------------------------------------------------------------------
(* Properties *)

\* Every table, task slot, lock and timer holds a value of its type.
TypeOK ==
  /\ addr \in [Devices -> Addrs \cup {None}]
  /\ reg \in [Devices -> Status \cup {None}]
  /\ bucket \in [Devices -> Buckets \cup {None}]
  /\ scheduled \subseteq Devices
  /\ task \in [Tasks -> Handler]
  /\ lock \in [Nodes -> Tasks \cup {None}]
  /\ timers \in [Nodes -> SUBSET Devices]
  /\ sent \subseteq Replies \X Devices
  /\ failures \in 0 .. MaxFailures

\* A device with a registration or a scheduled connection has a bucket: when an
\* ACK or an IP update schedules a device that got its RegisterResponse,
\* get_bucket_number cannot fail for want of a row.
BucketBeforeRegistration ==
  \A d \in Devices : reg[d] # None \/ d \in scheduled => bucket[d] # None

\* A confirming ACK goes only to a device that is Registered and stays so,
\* although the ACK-timeout task may fire between the handler's read of the
\* status and its update.
AckMeansRegistered ==
  \A d \in Devices : <<"ack", d>> \in sent => reg[d] = "Registered"

\* Without crash or database error, a Registered device has its connection
\* scheduled or an ACK handler is about to schedule it.
Scheduling(t, d) == task[t].dev = d /\ task[t].kind = "ack"
                    /\ task[t].pc \in {"schedule", "save_connection"}
RegisteredIsScheduled ==
  failures = 0 =>
    \A d \in Devices : reg[d] = "Registered" =>
      d \in scheduled \/ \E t \in Tasks : Scheduling(t, d)

\* The lock of a node is held exactly while one of its handlers is between
\* taking device_manager.write() and the database write that ends the guard;
\* in particular no error path leaks it.
Holds(t) == task[t].pc \in {"add_bucket", "save_connection"}
LockDiscipline ==
  \A t \in Tasks : Holds(t) <=> lock[NodeOf[t]] = t

\* get_bucket_with_less_devices balances: no bucket is ahead of another by more
\* than one device per node racing on the shared table, plus one per failed
\* count query (unwrap_or(0)).
BucketsBalanced ==
  \A b, c \in Buckets : Count(b) <= Count(c) + Cardinality(Nodes) + failures

\* What a handler knows at each of its awaits although other handlers, timers
\* and crashes ran in between: a registering handler owns its fresh id, an ACK
\* handler past its status check deals with a registration that exists, and one
\* about to schedule with a device that is Registered.
Registering(t) == task[t].pc \in {"pick_bucket", "add_bucket", "register"}
HandlerKnows(t) ==
  /\ task[t].pc # "idle" => task[t].from \in Addrs
  /\ task[t].pc \notin {"idle", "add_device"} => task[t].dev \in Devices
  /\ task[t].pc = "add_bucket" => task[t].bucket \in Buckets
  /\ Registering(t) => addr[task[t].dev] # None /\ reg[task[t].dev] = None
  /\ task[t].pc \in {"pick_bucket", "add_bucket"} => bucket[task[t].dev] = None
  /\ task[t].pc \in {"register", "save_connection"} => bucket[task[t].dev] # None
  /\ task[t].pc = "set_registered" => reg[task[t].dev] # None
  /\ task[t].pc = "add_device" => task[t].kind = "register"
  /\ task[t].pc \in {"get_registration", "set_registered"} => task[t].kind = "ack"
  /\ task[t].pc \in {"modify_device", "get_connection"} => task[t].kind = "ip_update"
  /\ Scheduling(t, task[t].dev) => reg[task[t].dev] = "Registered"
OneRegistrar ==
  \A t, u \in Tasks :
    Registering(t) /\ Registering(u) /\ task[t].dev = task[u].dev => t = u
AddrFirst ==
  \A d \in Devices : addr[d] = None => reg[d] = None /\ bucket[d] = None
HandlerFacts == (\A t \in Tasks : HandlerKnows(t)) /\ OneRegistrar /\ AddrFirst

\* BucketsBalanced counting the picks still to be written to T_BUCKETS.
Picked(b) == {t \in Tasks : task[t].pc = "add_bucket" /\ task[t].bucket = b}
PicksBalanced ==
  \A b, c \in Buckets :
    Count(b) + Cardinality(Picked(b)) <= Count(c) + Cardinality(Nodes) + failures

\* registration_timeout checks and sets in one step, and no handler writes
\* another status: a Registered device is never taken back.
RegisteredIsFinal ==
  [][\A d \in Devices : reg[d] = "Registered" => reg'[d] = "Registered"]_vars

\* Once the registration window is closed and no handler that read PendingAck
\* is still running, it is closed for good: late ACKs, IP updates, crashes and
\* duplicates leave the device in AckTimeout.
Closed(d) == /\ reg[d] = "AckTimeout"
             /\ \A t \in Tasks : ~(task[t].dev = d /\ task[t].pc = "set_registered")
ClosedIsFinal == [][\A d \in Devices : Closed(d) => Closed(d)']_vars

\* A registration does not stay in PendingAck, unless a failure killed the
\* ACK-timeout task.
PendingIsResolved ==
  \A d \in Devices : reg[d] = "PendingAck" ~> (reg[d] # "PendingAck" \/ failures > 0)

\* Every handler ends and gives its permit back: no handler waits for the
\* device manager's lock for ever.
HandlersFinish ==
  \A t \in Tasks : task[t].pc # "idle" ~> task[t].pc = "idle"

=============================================================================
