# Head-End System: TLA+ models, checks and proofs

The Head-End System (HES) collects readings from battery-powered water meters.
A meter registers over UDP (the "backdoor"), is given a time bucket, sleeps, and
wakes up once a day at the second its bucket stands for; the HES connects to it
then, holds a short session and schedules the next connection. Nodes may form a
cluster that shares one PostgreSQL database, hands devices around and takes over
those of nodes that die.

This directory models the program from the bytes of a datagram to the death of a
node: every await, lock, error path and timer that the properties depend on. TLC
checks small instances; TLAPS proves the main safety properties for every value
of the constants.

## 1. Inventory

| Part | State | Operations | Modelled in |
|---|---|---|---|
| Backdoor (`backdoor/backdoor.rs`) | semaphore permits, one task per datagram, sleeping ACK-timeout tasks | Register, ACK, IP update, ACK timeout | Registration |
| Debug sessions (`backdoor/debug_session.rs`) | session router | session start | WakeUp |
| Scheduler (`scheduler/scheduler.rs`) | cron jobs, `active_tasks`, owned devices | pick a bucket, work out a time, create, cancel, abort, reload | Registration, WakeTime, WakeUp, Ownership |
| Wake-up task (`scheduler/task/wake_up_device.rs`) | attempt, session step | attempts, the session, reschedule signal | WakeUp, Session |
| Mock device (`tools/mock_device`) | step of registration or session | register, answer, time out | Session |
| Reschedule listener (`main.rs`) | bounded channel | receive, schedule | WakeUp |
| Device manager (`device_manager/device_manager.rs`) | `owned_devices` behind a `RwLock` | claim, accept, release, redistribute | Ownership |
| Database (`common/database/*`) | devices, registrations, buckets, scheduled connections | one atomic call each | Registration, WakeUp, Ownership |
| Membership, heartbeats (`cluster/membership.rs`, `heartbeat.rs`, `node.rs`) | list of nodes, status, last heartbeat | join, heartbeat, leave | Membership |
| Failure detector (`cluster/failure_detector.rs`) | probes under way | suspect, probe, declare dead, redistribute | Membership, Ownership |
| Cluster server, manager, delegation (`cluster/server.rs`, `manager.rs`, `delegation.rs`) | tasks, datagrams | start, dispatch, delegate, shut down | Membership, Ownership, Config |
| Wire formats (`cluster/protocol/*`, `common/messages/*`) | none | encode, decode | ByteBuffer, ClusterWire, DeviceWire, Wire |
| Configuration (`config.rs`), JSON-RPC (`rpc/`) | memory, file, running parts | resolve, set, save, hot reload, propagate | Config |
| Metrics, other tools | counters | none that is read back | not modelled |

What makes the system hard to test:

- **Tasks interleave at every await.** A handler reads a status, waits for the
  database, and writes a decision based on the earlier read. The ACK handler
  says so itself (`backdoor.rs`, above line 464).
- **One lock, many waiters.** Handlers and listener all wait for
  `device_manager.write()`, which is held across database calls.
- **A chain of hand-overs.** A device is connected tomorrow only because
  today's task sent its id, the listener received it and a job was created.
- **Two clocks for one appointment.** The device is told a time, the job is
  created for a time, and the two are worked out apart.
- **Ownership in four places.** The table, two sets in memory and the jobs of
  each node change one after the other, while other nodes do the same.
- **UDP.** Datagrams are lost, doubled and reordered, and nothing is sent twice.
- **Crashes.** Database and configuration file survive; jobs, timers, locks and
  membership do not.

`PROJECT.json` lists the hazards with the line at which each bites, and the
properties that would catch it.

## 2. Modules

| Module | Models | Proofs |
|---|---|---|
| `Registration` | backdoor handlers, ACK timeout, bucket choice, the tables | `RegistrationProofs` |
| `WakeTime` | bucket to time of day to date; the calendar of one device | `WakeTimeProofs` |
| `WakeUp` | wake-up jobs, tasks, channel, listener, handlers, debug sessions | `WakeUpFacts`, `WakeUpProofs` |
| `Session` | one wake-up and one meter, datagram by datagram | |
| `Custody` | what the cluster promises about ownership (abstract) | |
| `Ownership` | owners, held devices and jobs of the nodes: start, delegation, shutdown, redistribution | `OwnershipFacts`, `OwnershipProofs` |
| `Membership` | membership lists, heartbeats, failure detector | `MembershipProofs` |
| `ByteBuffer` | what the codecs use of `bytes` | |
| `ClusterWire`, `DeviceWire` | the two codecs, as functions on bytes | |
| `Wire` | a datagram from constructor to handler | |
| `Config` | configuration in memory, file, running parts and peers | `ConfigProofs` |
| `MC...` | instances for TLC | |

The modules look at the same system from several sides, and each abstracts what
another one details. Registration knows that a device has a row for its
connection, but not what the job does. WakeUp knows what jobs do, but not when;
WakeTime knows when, for one device; Session opens the step that WakeUp takes
from the start of an attempt to its outcome. Ownership takes from Membership that
a node which is down is declared dead in the end and one that is up is not;
Membership leaves the devices to Ownership. Session is written on top of
DeviceWire, so its datagrams are real bytes. Definitions prefixed by a comment
"Slip" are plausible mistakes in the code next to them; each one breaks the
property `PROJECT.json` pairs it with, which shows that the property depends on
the code.

### Registration

| Variable | Code |
|---|---|
| `addr`, `reg`, `bucket`, `scheduled` | the four tables: devices, registrations, buckets, scheduled connections |
| `task` | the handler holding each semaphore permit: where it is, its message and what it has read |
| `lock` | per node, the holder of `device_manager.write()` |
| `timers` | per node, devices with a sleeping ACK-timeout task |
| `sent` | the replies sent so far |
| `failures` | crashes and database errors so far, at most `MaxFailures` |

A step ends at an await on the database or the lock. A Register message goes
through `AddDevice`, `PickBucket` (lock taken), `AddToBucket` (lock dropped),
`RegisterDevice`, `RespondAndStartTimer`. An ACK goes through `AckGetDevice`,
`AckGetRegistration`, `AckSetRegistered`, `ScheduleJob` (lock taken) and
`SaveConnection` (lock dropped). An IP update goes through `IpGetDevice`,
`IpModifyDevice`, `IpGetConnection`, and when it finds no row through the same
scheduling steps and `IpReread`. `DatabaseError` is `?` at any of these calls;
where the code swallows an error instead (`unwrap_or(0)`, `Err(_)`), an action
of its own says what it does. Messages may arrive at any time from any address
and any number of times, so loss, duplication and reordering are included.
An IPv6 sender is in the model because the ACK handler compares IPv4 only.

`Crash` assumes PostgreSQL, the engine a cluster requires. With the in-memory
engine a crash starts over from `Init`.

### WakeTime

Time is UTC seconds. `TimeFromBucket`, `DateFromHour` and `NextWakeup` are the
scheduler's functions, with its integer divisions and its comparison
`hour > current + 1`; `Register`, `Ack`, `AcceptDelegated`, `Connect` and
`GiveUp` are the places that call them. `AcceptUnscheduled` is a delegation of a
device for which the sender finds no row, because it has not confirmed yet or the
database fails: the job is created for "now + 1 day" (`delegation.rs` 285), off the
device's slot, while the device was told its slot. `told` is what the device was told
(RegisterResponse or WRITE_REQUEST), `sched` what the job was created for. A
device answers whenever it is awake: attempts that fail because of the network
belong to WakeUp.

Phases: `stranded` means that no date can be built for the device's bucket (the
listener logs an error and there is no next job); `missed` that a delegated
time had passed when it arrived; `lost` that the device woke up after the last
attempt.

### WakeUp

| Variable | Code |
|---|---|
| `row` | scheduled connection of a device: status and job id |
| `registered` | devices whose registration is Registered |
| `job`, `run` | the closure of each job, and the `wake_up_device` task it spawned |
| `active` | `active_tasks`: the handle a debug session would abort |
| `chan` | the reschedule channel |
| `proc` | backdoor handlers and the listener |
| `lock` | holder of `device_manager.write()` |
| `failures` | database and scheduler errors so far |

The store is the in-memory engine, whose `schedule_connection` replaces the row.
(PostgreSQL inserts another one: see sections 5 and 6.) The devices have a bucket
already, which Registration shows. Job ids are drawn again once nothing refers
to them, which stands for fresh ones. A job does not fire while its row is
being written: a job is at least one second ahead (`AheadOfClock`), the write to
memory is faster. A panic of the task ends like an abort.

### Session

One HES task and one meter, which is the repository's mock device. `hes` is where
`run_wake_up` and `run_session` are, with attempt, socket, timer and what was
asked and read; `meter` is the mock device's loop. `net` is a bag of datagrams,
each the bytes that `MessageCodec_encode` returns, and a receiver decodes them
with `MessageCodec_decode`. Each attempt has a socket of its own, so a datagram
for an earlier attempt finds no one (`Unreachable`). Answers are taken by their
type, not by their sequence number, as in the code. A tick is two seconds, and
passes when nothing can be received and no timer is due.

### Ownership and Custody

| Variable | Code |
|---|---|
| `owner`, `row` | `T_BUCKETS.FK_NODE`; whether the device's row of `T_SCHEDULED_CONNECTIONS` says awaiting or lost |
| `phase`, `todo` | how far `main` and `ClusterManager::start` are, and what is left of the loop they are in |
| `peers`, `watched` | nodes in the membership list, and those of them whose entry the detector looks at (Active or suspect) |
| `held`, `sched`, `jobs` | `owned_devices` of device manager and scheduler, devices with a job |
| `task` | cluster server and failure detector of each node, with the locals of the handler they are in |
| `net` | datagrams |
| `disputed`, `missed`, `spent` | history |

Every database call is a step, and so is what follows it up to the next await.
`InGuard` is the write lock of the device manager, held across a whole
acceptance, assignment, claim or reload. `Delegate` is the RPC method, `Shutdown`
and `Leave` the two halves of a graceful end, `Take`, `ScheduleTaken` and
`ReplyAccept` the accepting loop, `ReadOrphans`, `Assign` and `Forget` the
redistribution that every survivor does by itself, and `Start` to `Run` the order
in which `main` loads, claims, serves, reads its devices, enables cluster mode
and reloads. `HandleNodeJoin` and `HandleHeartbeat` change the lists: a NODE_JOIN
makes the entry Starting, whether its sender starts or was told by `cluster.join` to
join a peer it knows; a heartbeat makes it Active, or Draining during a shutdown. A
detector declares dead only what it watches.

`Custody` says the same with four variables: one owner for each device, the
nodes that hold it, the nodes that run, and the devices that are disputed. A device
is taken first and released afterwards; a node that runs lets go of nothing that is
its own. Only these events make it disputed: a lost
DELEGATE_ACCEPT, an error or a crash before it is sent, a second delegation
before the first is over, a delegation to oneself, `claim_all_devices` taking it
from another node, and redistribution. The mapping is
`holders[d] = {n : d \in held[n]}`, `up = {n : phase[n] # "down"}`.

### Membership

Time is counted in heartbeat intervals, and suspect and dead timeouts are whole
numbers of them (3 and 1 by default). `status` and `age` are the list of each
node; `detector` and `server` are its two tasks, each at one datagram or one
candidate at a time. A heartbeat reaches its target within the interval or is
lost; so does NODE_SUSPECT, at any subset of its targets. `lost`, `unheard`, `stops`
and `stopped` are history: how many heartbeats were lost and whose, how often nodes
stopped and which ones did. NODE_JOIN, NODE_LEAVE
and NODE_DEAD are datagrams that arrive in any order. An indirect probe is two
steps of the detector: `HandleSuspectNode` asks a helper, `ProbeEnds` looks at the
list when the five seconds are over. A death is four: the candidates are read
once (`FindDead`), and each is marked, broadcast and removed with awaits between.
`Tick` is possible when everything that takes less than an interval is over.

### ByteBuffer, ClusterWire, DeviceWire, Wire

A message is a record, a datagram a sequence of bytes, and a decoder returns a
value and the rest, an error, or a panic (a read past the end of the buffer).
Encoders and decoders follow the code field by field, with the order of their
checks, their `MIN_SIZE` tests and the `as u16` of every length. Strings are
their bytes; the text of a socket address is given by a constant. A device message
goes to each receiver that handles its type, and each has its buffer: 1024 bytes at
the backdoor, 4096 in a session and at the mock device, 65535 at the cluster server.
A longer datagram is cut, as `recv_from` does. What the decoder makes of it rests on
the model of the `rlp` crate, which is external (`Complete`, `RlpItems`).

### Config

`mem`, `file` and `hot` are the configuration in memory, the YAML file, and the
running parts that follow it. `update` changes the memory under the lock;
`Open` (truncate) and `Write` are two steps after it, with crash and I/O error
between them. Two tasks that write at once leave a `mixed` file. The hot reload,
the broadcast of `config.propagate` and the second save of `cluster.join` follow,
step by step. `Resolve` is the next start: command line before file before
default, with `${VAR}` expanded; of the file only `node_id` and the database type
are parsed, and nothing of it is checked the way `config.set` checks it. `Refuse` is
a start that ends after the save, for a cluster without a shared database or a
backdoor address that is none. `Rebind` follows Linux: the old socket is still open
when the new one is bound, and a wildcard address and another one do not share a port
(`InUse`, external).

## 3. Runs

| Run | Shows |
|---|---|
| `registration_one_node` | Two handlers, two devices, one crash or error anywhere: a confirmed device is Registered and stays so; without failures it is scheduled; bucket before registration; no error path keeps the lock; picks stay balanced; a closed window stays closed. |
| `registration_live` | Every handler ends, and no registration stays in PendingAck, unless a failure took its timer. |
| `wake_time_daily` | From the first, a middle and the last second of each hour, for all 48 buckets: jobs are ahead of the clock, less than 26 hours away, and a connection on the slot is followed by one exactly a day later; a job that a delegation put elsewhere is followed by one on the slot, within 27 hours. |
| `wake_up_jobs` | Two handlers, the listener, three jobs, channel of one, debug sessions, one error: no confirmed device loses its last wake-up without a trace; a wake-up is not doubled on its way from job to job; lock and handles are consistent. |
| `wake_up_live` | A confirmed device is connected again and again until it is marked lost. |
| `session` | An Ok of `run_session` is true: the meter has the time of this attempt, the values are those asked for. A lost datagram costs at most one attempt, a doubled one at most two. The meter closes only sessions that succeeded. Every wake-up ends. |
| `ownership_handover` | Two nodes, two devices, any two of delegation, stop (crash or shutdown) and error, one stop at most: outside a dispute the owner in the table holds the device, no one else does except until the acceptance arrives, and the owner has a job. Every step is a step of `Custody`. |
| `ownership_failover` | Three nodes, a stop, a join of a known peer, two events: the devices of a node that died while another node watched it find another owner. |
| `membership` | Three nodes: without lost heartbeats, and with one node that stops and comes back, two others never suspect each other, in spite of suspicion by hearsay; a node that is down is forgotten by all; in the end two nodes have each other in their lists or neither has, and a false death heals. |
| `wire` | Every kind of message, with the edges of each field, arrives as it was sent, and what is longer than the receiver's buffer is dropped or read as an empty list, never as a shorter one; a status of an older node is understood. |
| `config` | Two nodes: updates and restarts bring no invalid setting in that was not installed; a node keeps its `node_id`; an update that ran alone is what a restart reads; the running parts follow; an undisturbed propagation reaches all. |

One run ends in a counterexample, where the code does something else than its
own comment says (`PROJECT.json` quotes it):

| Run | Shows |
|---|---|
| `wake_time_drift` | WRITE_REQUEST says "now + 1 day" while the job stays at the bucket's second. Each retry moves the device later, and nothing moves it back, until it sleeps through all attempts. |

### Bounds

- Registration: two permits of a node are enough for two handlers to race at
  each pair of awaits; a third would wait for the same lock. Two buckets show
  imbalance. `MaxFailures` is 1, since the properties speak of the first failure.
- WakeTime: the formulas change at hours and at midnight, so the clock starts
  at the edges of each hour. `Horizon` covers two days in the daily run, eleven
  in the drift run. `Pendings` are how long before the delegation the device was
  told its slot, 0 and 290 of the 300 seconds of the ACK window. Deadlock is not checked, because the calendar ends at the
  horizon.
- WakeUp: a channel of one is full at once; the code's 64 needs 65 tasks for
  the same state. Two attempts stand for five: a first, and a last. Three job
  ids let two jobs of a device exist while a third is created. `SpareId` holds
  datagrams back while ids are short, so that the bound on ids never stops the
  code.
- Session: the code's own five attempts, 60 seconds between attempts, 30 and 60
  seconds of timeout. Three lost or doubled datagrams over two wake-ups. The
  second wake-up finds the meter as the first one left it.
- Ownership: with two nodes and two devices one batch can be split; `MaxEvents` 2 and
  `MaxStops` 1 allow each pair of disturbances but two stops. `MaxRequests` counts
  delegations and joins of known peers, `MaxStarts` starts after the first. The
  failover run has a third node, so that two survivors redistribute the same device
  at once; it has no second starts, since a node that comes back meets the property. The proofs remove these
  bounds for all but `DeadOwnsNothing`. Three things are assumed of time: a process
  takes longer to start than a datagram lives; a node is declared dead while it
  is down, after its datagrams have arrived; NODE_DEAD arrives while it is down.
- Membership: three nodes, so that a probe has a helper and suspicion a third
  party. `Disturbances` allows four lost heartbeats, the number that makes a live
  node dead (suspect and dead timeout), or one stop. The proof removes the bound on
  nodes for `Accurate`.
- Wire: the ends of each integer, strings of 0, 1, 55, 56, 256 bytes (where RLP
  changes the form of a length), lists of none, one and two, device messages of 1024,
  1025, 4096 and 4097 bytes, and datagrams just below, above and far above what UDP
  carries.
- Config: two updates at once on one node, from two connections, with a peer's
  update and one crash, error or loss; one node is started twice. Its file holds a
  port that `config.set` refuses, and it may be given options that end `main`.
- Deadlock is off where a system may rest: bounded faults and requests run out.
- Symmetry is used in runs that check safety only.

### Fairness

tokio runs every ready task and its `RwLock` and bounded channel queue their
waiters in order, so a step that is enabled again and again is taken.

- Registration, WakeUp: strong fairness of handler steps and of
  `SendReschedule`, weak fairness of timers, of `Fire` and of the job's own steps.
- Session: weak fairness of receiving and of timers. The first is spelled out
  because TLC would evaluate ENABLED through both codecs; `Receivable` is the same
  condition.
- Ownership: weak fairness of `Work(n)`, whatever the node has to do, in any
  order. That a node starts again is not assumed.
- Membership: weak fairness of clock, heartbeat loop, detector, server and
  of the end of a start or a shutdown.

Nothing is assumed of the network, of failures or of the arrival of messages.

## 4. Proofs

All theorems hold for any sets of nodes and devices (finite in Registration
and Membership), any number of permits, buckets, attempts, failures and events, and any
channel capacity, under the named assumptions of the modules. Every invariant and action
property that a run checks is proved, except those of Session and Wire.

The leaves name their prover where it matters: Zenon takes propositional and
quantifier steps in a fraction of the time that translating them for the SMT
solver needs, and the solver is kept for arithmetic, sequences and case
distinctions.

**Registration.** `Facts` is inductive: `TypeOK`,
`LockDiscipline`, `BucketBeforeRegistration` and `HandlerFacts`. The last one is
the strengthening: what a handler may rely on after an await, such as that it
alone registers its fresh id, and that a registration it is about to set exists.
Without it, the timeout racing an ACK could not be excluded from undoing a
confirmation. From `Facts` follow `ConfirmedIsRegistered`, `RegisteredStays`,
`ClosedStays` and `NoOrphanWithoutFailure`. Balance needs a count as well:
`PicksBalanced` also counts picks that are not written yet, of which
`LockDiscipline` allows one per node (`PickedBound`); `Balanced` follows, for any
number of nodes that share the table and no lock.

**WakeTime.** The invariant carries that a waiting device's job is ahead of the
clock, by how much, and that its bucket is one of the node's; whether the job is on
the slot is no part of it, since a delegation may put it elsewhere. `NextWakeupIsSlot` and
`NextWakeupIsTomorrow` are the arithmetic: slots lie within the day, and a call
made within the retry window of a connection gives exactly the next day.
`ConnectToSlot` is the other case: from anywhere, a connection leads to the slot.
`JobsAreAhead`, `ConnectedEveryDay`, `AlwaysRescheduled` follow. `SlotsOrdered`
shows that up to 86400 buckets different buckets are different seconds.

**WakeUp.** `Facts` consists of `TypeOK`, `LockDiscipline` and `JobFacts`, and
is proved conjunct by conjunct (`TypeStep`, `LockStep`, `JobKnowsStep`,
`ProcKnowsStep`, `RowKnowsStep`). `NothingForgotten` says of each confirmed
device that some job, entry of the channel, or handler will schedule it, or that
it is lost or being lost. `KeptStep` follows the thing that carries the device
through each action. `JobFacts` is needed for it: the row read by a cancel
names a job of the same device, so that removing it is made up for by the
scheduling that follows. `NothingMultiplied` is the action property
`NeverMultiplied`. It counts: `Wakeups` is the sum of three cardinalities, and
a step that no handler takes either shrinks each set or moves one element
(`OneMoves`): from the jobs to the channel (`SendReschedule`), from the channel to the
listener (`ListenerRecv`, where `QueueShrinks` shifts the indices), from the listener
to the jobs (`CreateJob`). It needs to know that the listener never runs a
handler's code (`ListenerKnows`), and that there are finitely many ids and permits
(`FiniteAssumption`).

**Ownership.** `CustodyExact` alone is not inductive: a DELEGATE_ACCEPT that
arrives late could take a device from a node that has become its owner again.
What excludes it is `HandOverFacts`: an undisputed device is in at most one place,
a datagram or an accepting task, and that place names the right nodes. A request
comes from the owner and goes to someone else; a task that has not taken the
device yet accepts it from the owner; one that has taken it, and the acceptance
it sends, belong to the owner and go to the one before. `TaskFacts` adds what the
locals of a task are at each step, and `TypeOK` the types; the four together
(`Facts`) are inductive, conjunct by conjunct (`TypeStep`, `TaskStep`,
`HandOverStep`, `CustodyStep`). `RefinesCustody` maps each action to one of
`Custody` or a stutter; it uses `HandOverFacts` where an acceptance releases
devices, and `TasksRun` where a task takes one: a task at work belongs to a process
that runs. `OwnersWake` needs `JobsKnown` besides: while a node starts, the device
is in the set that goes from `owned_devices` to the scheduler and from there to
the reload, and a row marked lost belongs to a device that was given up.

**Membership.** `DetectorAccurate` proves `Accurate` for any number of nodes, from
`Tolerated`: the suspect timeout is at least three heartbeat intervals, as with the
default settings. With two it is false, and TLC finds the counterexample: a node
that is declared dead when it is back already gets no heartbeat until the lists have
it again, suspects another one meanwhile, and NODE_SUSPECT carries its word.
`Accurate` speaks of states before which no heartbeat was lost (`unheard = {}`) and
at most one stop has happened, and so does the inductive invariant: `Lossless` holds
there. It says that the nodes that have not stopped hear each other in every
interval, that tasks and datagrams have to do with the stopped node only
(`DetectorIn`, `ServerIn`, `MessageIn`), and at which station that node is:
`Draining`, `Leaving`, `Down`, `Starting`, or back. Back, it passes three kinds of
interval: `Joining`, in which it hears of every other node; `Settling`, in which what
the others began before comes to its end; and `Calm`. The stations bound its own ages,
by three in `Calm`, and that is why it suspects nobody.

**Config.** `Inv` is inductive. For each node (`NodeInv`) it says what is in the
memory (`MemoryIn`), in the file and the copies on their way to it (`FileIn`), which
key a task at work carries (`TaskIn`), that memory, file and copies carry the same
`node_id` unless the file was torn (`IdentityIn`), and for updates that ran alone
where the value is: in the file or on its way in the only task that saves
(`SavedIn`), and in the running parts or in the one reload still to come
(`ReloadedIn`). `NetGood` says that datagrams name keys that can be set, and `PromisedInv` that a
promised value is, at each node, in the memory or in a datagram for it. A step of one
node leaves the others alone (`NodeKept`), so each action is proved for its own node
and `OneNode` puts the nodes together. The strengthening is needed because the
properties speak of quiet nodes and restarts, and what they promise goes through the
copies that tasks carry between the update and the file. From `Inv` follow
`ConfigTypes`, `IdentitySurvives`, `SavedAlone` (`Reloaded`: resolving what
`to_file_config` wrote gives back the memory), `ReloadedAlone` and
`PropagationReaches`. `ConfigTypes` needs no assumption about the settings that nodes
are installed with: `Sound` says of memory, file and copies that each setting is one
that `set_config_value` stores as it is or one of `Installed`, and both kinds go
through `to_file_config` and `${VAR}` unharmed (`ExpandedSetting`). The assumptions
are about texts: parsing reads what printing writes, no `${VAR}` is a number, a
boolean or a Uuid, and no variable holds a `${VAR}`.

**Checked by TLC only.** Liveness under fairness (`PendingIsResolved`,
`HandlersFinish`, `KeepsWaking`, `DeadOwnsNothing`, `DownIsForgotten`,
`FalseDeathHeals`, `WakeUpEnds`), which is out of this prover's reach, and the
counterexample. The safety properties of Wire and Session: the codecs are recursive
in the data, and what a recursive definition computes for every input takes an
induction that the installed provers cannot instantiate; Session's datagrams are the
bytes of these codecs, kept in a bag, so its properties rest on the same facts.

## 5. What the results do not say

What the properties leave open, because the code does:

- `RegisteredIsScheduled` and `NeverForgotten` hold without failures only. After
  an error between the update to Registered and the schedule, no later ACK
  schedules the device; when the listener's scheduling fails, nothing tries
  again.
- After an ACK timeout an IP update still schedules the device; the ACK that
  follows is refused.
- A device may have more than one job: two copies of an ACK both see
  PendingAck, and a debug session may reschedule a device whose success is
  already in the channel. Nothing in the code removes the extra job.
  `NeverMultiplied` states what does hold: the hand-over adds none.
- A debug session that starts between the spawn of a wake-up task and the storing
  of its handle does not stop the task.
- A lost device that reports a new address is answered with its old time; no job
  exists.
- A delegated device keeps the bucket number of the node it comes from. Where
  `buckets_number` differs, there may be no time of day for it and the device is
  stranded; `NeverStranded` is about equal numbers.
- A node that releases a device keeps the job it had. When it fires and succeeds,
  the node's listener schedules the next one without asking who owns the device
  (`main.rs` 226-232): from then on two nodes wake the device every day.
- A device delegated without a row is connected a day later at the hour of the
  delegation, when it sleeps; unless the five attempts happen to meet its slot it is
  marked lost. `EveryDay` is about those that are connected.
- Redistribution names new owners in the table and tells no one. A node that gets
  a device this way schedules nothing until it restarts, and each survivor
  redistributes by itself; such devices are disputed. A node that has taken its
  leave is not redistributed: what was rejected or lost at its shutdown stays with it.
- `AttemptsPerFault` counts two attempts for a doubled datagram because answers are
  not matched by sequence number: one is spent on the copy and one on the
  meter's way out of step.
- `FalseDeathHeals` depends on the timeouts. With a suspect timeout of two
  intervals, suspicion by hearsay makes false deaths cascade and the nodes may
  stay split. Two nodes that have removed each other are not brought together by
  anything but a third that knows both, and a new node whose NODE_JOIN is lost
  stays alone. The run loses heartbeats only, and too few for the former.
- Entries that say Starting or Draining are not looked at by the detector; a node
  that dies with such an entry stays in the list, and when every node has it so its
  devices stay with it. `DeadOwnsNothing` asks for one node that watches it.
- Membership has no `cluster.join` to a known peer (`server.rs` 510 makes the entry
  Starting until the next heartbeat); Ownership has.
- NODE_DEAD may go to the node it is about, when its heartbeat came between
  marking and broadcasting (`failure_detector.rs`, 171).
- Two updates of the configuration that overlap may leave a file that is older
  than the memory or mixed. A process that ends while the file is empty starts
  as another node. Files and options are not checked: what is installed stays,
  whatever `config.set` would say of it. Changing `backdoor_ip` alone from or to
  0.0.0.0, the default, never takes effect before a restart, because the port is still
  in use. `main` refuses a cluster with the in-memory database after the
  file has been saved. CONFIG_UPDATE changes the receiver's memory and file, not
  its running parts. A value with `${VAR}` that was set through the RPC is
  expanded at the next start only.
- A list of readings or codes that the receiver's buffer cuts is not an error: the
  decoders iterate over the items, find none in the cut bytes and return an empty list.
- The comment in `common/messages/codec.rs` about an off-by-one in the length of a
  payload does not describe the code as it is: `Delivered` holds.

Not modelled, and why:

- **Locks of membership list and device manager against each other.**
  `server.rs` 363 takes the device manager while it holds the list,
  `failure_detector.rs` 203-209 the list while it holds the device manager. With
  a writer queued between them they wait for each other. The steps of Ownership
  and Membership end at datagrams and database calls, not at these locks.
- **Rows of T_SCHEDULED_CONNECTIONS.** PostgreSQL inserts a row for each
  connection and never removes one; Ownership keeps one status per device, and
  whether a device has a job on a node, not how many.
- **Doubled cluster datagrams.** The network of Ownership is a set without
  copies. A copy of a DELEGATE_REQUEST acts like a second delegation, after which
  the device would count as disputed; one that arrives after the sender has
  released the device is not covered. Session has doubled datagrams.
- **A failed redistribution in the cluster server** leaves an entry marked Dead
  that nothing looks at; the model drops it.
- **Load figures** of heartbeats: they order the nodes that may be chosen, and the
  model allows every order.
- **`rebalance_cluster`, `get_devices_for_delegation`**: no caller.
- **Test mode, socket errors** at the backdoor; the exchange inside a debug session;
  what the cluster server does between its start and a failing `init_backdoor`.
- **Datagrams that take longer than a tick** of two seconds in Session: the clock
  moves when nothing is left to receive.
- **A bucket number of 0** divides by zero; the modules assume one or more.
- **Metrics, the command-line client, JSON-RPC transport, read-only methods**: no
  state that the rest reads.

## 6. Plan

1. The rows PostgreSQL accumulates per device: cancel and update on an arbitrary
   row or on all, and how many jobs a device has after a second restart.
2. The locks of membership list and device manager, with tokio's queue of
   writers.
3. Proofs: Session over abstract messages, so that its properties no longer rest on
   the codecs; `Accurate` when the same node stops twice, which TLC finds to hold for
   three nodes.
