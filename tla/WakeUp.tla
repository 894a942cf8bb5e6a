------------------------------- MODULE WakeUp -------------------------------
(***************************************************************************)
(* The life of a wake-up job on one node: created by schedule_next_wakeup, *)
(* fired by the cron scheduler, run as a task of its own with retries, and *)
(* followed by the next job through the reschedule channel.  Around it run *)
(* the listener of main.rs, the ACK and IP-update handlers, and, when the  *)
(* debug-session-start feature is compiled in, debug sessions.             *)
(*                                                                         *)
(* The store is the in-memory engine: one row per device.  An await is the *)
(* end of a step.  The two procs of a job, its closure and the task it     *)
(* spawns, have a pc each.  Time is left to module WakeTime: a job may     *)
(* fire at any moment after its creation.                                  *)
(***************************************************************************)
EXTENDS Integers, Sequences, FiniteSets

CONSTANTS Devices,
          Jobs,          \* job ids; an id is drawn again once nothing holds it
          Handlers,      \* backdoor tasks
          Listener,      \* the task reading the reschedule channel
          MaxAttempts,   \* MAX_RETRIES
          ChannelCap,    \* capacity of the reschedule channel
          DebugSessions, \* is debug-session-start compiled in?
          MaxFailures,   \* bound on database and scheduler errors
          None           \* absence of a value

ASSUME DevicesAssumption == None \notin Devices
ASSUME JobsAssumption == None \notin Jobs
ASSUME ProcsAssumption == None \notin Handlers \cup {Listener} /\ Listener \notin Handlers
\* Ids are Uuids, and a handler holds one of the semaphore's permits.
ASSUME FiniteAssumption == IsFiniteSet(Jobs) /\ IsFiniteSet(Handlers)
ASSUME BoundsAssumption ==
  /\ MaxAttempts \in Nat \ {0} /\ ChannelCap \in Nat \ {0} /\ MaxFailures \in Nat
  /\ DebugSessions \in BOOLEAN

Procs == Handlers \cup {Listener}

VARIABLES
  row,         \* T_SCHEDULED_CONNECTIONS: status and job_id of a device
  registered,  \* devices whose registration is Registered
  job,         \* the closure of each job
  run,         \* the wake_up_device task it spawned
  active,      \* active_tasks: the job whose task a debug session would abort
  chan,        \* the reschedule channel
  proc,        \* handlers and listener
  lock,        \* who holds device_manager.write()
  failures     \* errors so far

vars == <<row, registered, job, run, active, chan, proc, lock, failures>>

Statuses == {"none", "awaiting", "lost"}
Row(status, j) == [status |-> status, job |-> j]
JobPCs == {"free", "cron", "spawned", "watched", "get_conn", "write_lost"}
Job(pc, d) == [pc |-> pc, dev |-> d]
RunPCs == {"none", "session", "sending", "ok", "err", "aborted"}
Run(pc, n) == [pc |-> pc, attempt |-> n]
ProcPCs == {"idle", "register", "ip_get", "schedule", "save",
            "cancel", "remove", "clear", "abort", "session"}
ProcKinds == {"listener", "ack", "ip_update", "debug"}
Proc(pc, kind, d, j, status) ==
  [pc |-> pc, kind |-> kind, dev |-> d, job |-> j, seen |-> status]

Init ==
  /\ row = [d \in Devices |-> Row("none", None)]
  /\ registered = {}
  /\ job = [j \in Jobs |-> Job("free", None)]
  /\ run = [j \in Jobs |-> Run("none", 0)]
  /\ active = [d \in Devices |-> None]
  /\ chan = <<>>
  /\ proc = [p \in Procs |-> Proc("idle", "listener", None, None, "none")]
  /\ lock = None
  /\ failures = 0

-----------------------------------------------------------------------------
(* Shared steps *)

JobAt(j, pc) == job[j].pc = pc
JobGoto(j, pc) == job' = [job EXCEPT ![j] = Job(pc, job[j].dev)]
JobEnds(j) == /\ job' = [job EXCEPT ![j] = Job("free", None)]
              /\ run' = [run EXCEPT ![j] = Run("none", 0)]
At(p, pc) == proc[p].pc = pc
Become(p, pc, j, status) ==
  proc' = [proc EXCEPT ![p] = Proc(pc, proc[p].kind, proc[p].dev, j, status)]
Goto(p, pc) == Become(p, pc, proc[p].job, proc[p].seen)
Starts(p, pc, kind, d) ==
  /\ At(p, "idle")
  /\ proc' = [proc EXCEPT ![p] = Proc(pc, kind, d, None, "none")]
\* A debug handler goes on to its session, the others are done.
Continue(p) ==
  proc' = [proc EXCEPT ![p] =
    IF proc[p].kind = "debug" THEN Proc("session", "debug", proc[p].dev, None, "none")
    ELSE Proc("idle", "listener", None, None, "none")]
Fails == failures < MaxFailures /\ failures' = failures + 1

\* An id nothing refers to, as good as the fresh one Uuid would draw.
Unused(j) ==
  /\ JobAt(j, "free")
  /\ \A d \in Devices : row[d].job # j
  /\ \A p \in Procs : proc[p].job # j

\* Bound: a datagram is let in only while there are ids for every job that may
\* have to be created, with one per device kept by its row.
SpareId ==
  Cardinality({j \in Jobs : ~JobAt(j, "free")}) + Len(chan) + Cardinality(Devices)
    + Cardinality({p \in Procs : proc[p].pc \notin {"idle", "save", "session"}})
    < Cardinality(Jobs)

-----------------------------------------------------------------------------
(* create_wakeup_job: the closure of the job *)

\* The second has come: wake_up_device is spawned as a task.  Timing: a job is
\* created at least a second ahead (WakeTime), the write of its row to the
\* memory of the same process takes less.
BeingSaved(j) == \E p \in Procs : At(p, "save") /\ proc[p].job = j
Fire(j) ==
  /\ JobAt(j, "cron")
  /\ ~BeingSaved(j)
  /\ JobGoto(j, "spawned")
  /\ run' = [run EXCEPT ![j] = Run("session", 1)]
  /\ UNCHANGED <<row, registered, active, chan, proc, lock, failures>>

\* The abort handle is stored under the device, after the task has started.
InsertHandle(j) ==
  /\ JobAt(j, "spawned")
  /\ active' = [active EXCEPT ![job[j].dev] = j]
  /\ JobGoto(j, "watched")
  /\ UNCHANGED <<row, registered, run, chan, proc, lock, failures>>

\* Slip: the error path does not mark the connection.
HandleDoneForgets(j) ==
  /\ JobAt(j, "watched")
  /\ run[j].pc \in {"ok", "err", "aborted"}
  /\ active' = [active EXCEPT ![job[j].dev] = None]
  /\ JobEnds(j)
  /\ UNCHANGED <<row, registered, chan, proc, lock, failures>>

\* Slip: an aborted job leaves its handle in active_tasks.
HandleDoneKeepsHandle(j) ==
  /\ JobAt(j, "watched")
  /\ run[j].pc \in {"ok", "err", "aborted"}
  /\ IF run[j].pc = "err" THEN JobGoto(j, "get_conn") /\ UNCHANGED run ELSE JobEnds(j)
  /\ UNCHANGED <<row, registered, active, chan, proc, lock, failures>>

\* handle.await returned: the entry of the device is removed, whoever's it is.
\* A success or an abort ends the job, an error marks the connection lost.
HandleDone(j) ==
  /\ JobAt(j, "watched")
  /\ run[j].pc \in {"ok", "err", "aborted"}
  /\ active' = [active EXCEPT ![job[j].dev] = None]
  /\ IF run[j].pc = "err" THEN JobGoto(j, "get_conn") /\ UNCHANGED run ELSE JobEnds(j)
  /\ UNCHANGED <<row, registered, chan, proc, lock, failures>>

\* get_scheduled_connection on the error path.
LostGetConnection(j) ==
  /\ JobAt(j, "get_conn")
  /\ IF row[job[j].dev].status = "none" THEN JobEnds(j) ELSE JobGoto(j, "write_lost") /\ UNCHANGED run
  /\ UNCHANGED <<row, registered, active, chan, proc, lock, failures>>

\* Status Lost and no job, whatever the row says by now.
LostUpdate(j) ==
  /\ JobAt(j, "write_lost")
  /\ row' = [row EXCEPT ![job[j].dev] = Row("lost", None)]
  /\ JobEnds(j)
  /\ UNCHANGED <<registered, active, chan, proc, lock, failures>>

-----------------------------------------------------------------------------
(* wake_up_device *)

\* The whole exchange with the device succeeds.
SessionSucceeds(j) ==
  /\ run[j].pc = "session"
  /\ run' = [run EXCEPT ![j] = Run("sending", run[j].attempt)]
  /\ UNCHANGED <<row, registered, job, active, chan, proc, lock, failures>>

\* Slip: one attempt too many.
SessionFailsOnceMore(j) ==
  /\ run[j].pc = "session"
  /\ run' = [run EXCEPT ![j] = IF run[j].attempt <= MaxAttempts
                               THEN Run("session", run[j].attempt + 1)
                               ELSE Run("err", run[j].attempt)]
  /\ UNCHANGED <<row, registered, job, active, chan, proc, lock, failures>>

\* No answer or a wrong one: up to MAX_RETRIES attempts, then an error.
SessionFails(j) ==
  /\ run[j].pc = "session"
  /\ run' = [run EXCEPT ![j] = IF run[j].attempt < MaxAttempts
                               THEN Run("session", run[j].attempt + 1)
                               ELSE Run("err", run[j].attempt)]
  /\ UNCHANGED <<row, registered, job, active, chan, proc, lock, failures>>

\* The device cannot be read, or has no address: no attempt is made.
DeviceUnreadable(j) ==
  /\ run[j] = Run("session", 1)
  /\ Fails
  /\ run' = [run EXCEPT ![j] = Run("err", 1)]
  /\ UNCHANGED <<row, registered, job, active, chan, proc, lock>>

\* tx.send: waits while the channel is full.
SendReschedule(j) ==
  /\ run[j].pc = "sending"
  /\ Len(chan) < ChannelCap
  /\ chan' = Append(chan, job[j].dev)
  /\ run' = [run EXCEPT ![j] = Run("ok", run[j].attempt)]
  /\ UNCHANGED <<row, registered, job, active, proc, lock, failures>>

-----------------------------------------------------------------------------
(* schedule_next_wakeup: listener, ACK, IP-update and debug handlers *)

\* With the lock held, the bucket is read and the job added to the scheduler.
CreateJob(p, j) ==
  /\ At(p, "schedule")
  /\ lock = None
  /\ Unused(j)
  /\ lock' = p
  /\ job' = [job EXCEPT ![j] = Job("cron", proc[p].dev)]
  /\ Become(p, "save", j, proc[p].seen)
  /\ UNCHANGED <<row, registered, run, active, chan, failures>>

\* schedule_connection replaces the row; the lock is dropped.
SaveConnection(p) ==
  /\ At(p, "save")
  /\ row' = [row EXCEPT ![proc[p].dev] = Row("awaiting", proc[p].job)]
  /\ lock' = None
  /\ Continue(p)
  /\ UNCHANGED <<registered, job, run, active, chan, failures>>

\* Slip: the entry stays in the channel.
ListenerPeek ==
  /\ chan # <<>>
  /\ Starts(Listener, "schedule", "listener", Head(chan))
  /\ UNCHANGED <<row, registered, job, run, active, chan, lock, failures>>

\* main.rs: the listener takes a device from the channel.
ListenerRecv ==
  /\ chan # <<>>
  /\ Starts(Listener, "schedule", "listener", Head(chan))
  /\ chan' = Tail(chan)
  /\ UNCHANGED <<row, registered, job, run, active, lock, failures>>

\* An ACK handler that found PendingAck, and its update to Registered.
RecvAck(p, d) ==
  /\ d \notin registered
  /\ Starts(p, "register", "ack", d)
  /\ UNCHANGED <<row, registered, job, run, active, chan, lock, failures>>

SetRegistered(p) ==
  /\ At(p, "register")
  /\ registered' = registered \cup {proc[p].dev}
  /\ Goto(p, "schedule")
  /\ UNCHANGED <<row, job, run, active, chan, lock, failures>>

\* An IP update: get_next_wake_time answers with any row it finds.
RecvIpUpdate(p, d) ==
  /\ Starts(p, "ip_get", "ip_update", d)
  /\ UNCHANGED <<row, registered, job, run, active, chan, lock, failures>>

IpGetConnection(p) ==
  /\ At(p, "ip_get")
  /\ IF row[proc[p].dev].status = "none" THEN Goto(p, "schedule") ELSE Continue(p)
  /\ UNCHANGED <<row, registered, job, run, active, chan, lock, failures>>

-----------------------------------------------------------------------------
(* debug_session.rs: handle_session_start *)

\* A SessionStartRequest is dropped only once a session has its router entry.
RecvSessionStart(p, d) ==
  /\ DebugSessions
  /\ \A q \in Procs : ~(At(q, "session") /\ proc[q].dev = d)
  /\ Starts(p, "cancel", "debug", d)
  /\ UNCHANGED <<row, registered, job, run, active, chan, lock, failures>>

\* cancel_wakeup_job reads the row, with the lock held until the abort.
CancelGet(p) ==
  /\ At(p, "cancel")
  /\ lock = None
  /\ lock' = p
  /\ LET r == row[proc[p].dev] IN
     IF r.job = None THEN Goto(p, "abort") ELSE Become(p, "remove", r.job, r.status)
  /\ UNCHANGED <<row, registered, job, run, active, chan, failures>>

\* job_scheduler.remove: a job that has not fired yet is gone.  Of one that has,
\* the scheduler may say that it is missing, which ends cancel_wakeup_job.
RemoveJob(p) ==
  /\ At(p, "remove")
  /\ \/ JobAt(proc[p].job, "cron") /\ JobEnds(proc[p].job) /\ Goto(p, "clear")
     \/ ~JobAt(proc[p].job, "cron") /\ UNCHANGED <<job, run>> /\ Goto(p, "clear")
     \/ ~JobAt(proc[p].job, "cron") /\ UNCHANGED <<job, run>> /\ Goto(p, "abort")
  /\ UNCHANGED <<row, registered, active, chan, lock, failures>>

\* The row as it was read, without its job.
ClearJob(p) ==
  /\ At(p, "clear")
  /\ row' = [row EXCEPT ![proc[p].dev] = Row(proc[p].seen, None)]
  /\ Goto(p, "abort")
  /\ UNCHANGED <<registered, job, run, active, chan, lock, failures>>

\* abort_active_wakeup, and the lock is dropped.
AbortActive(p) ==
  /\ At(p, "abort")
  /\ LET d == proc[p].dev
         j == active[d]
     IN /\ active' = [active EXCEPT ![d] = None]
        /\ run' = IF j \in Jobs /\ run[j].pc \in {"session", "sending"}
                  THEN [run EXCEPT ![j] = Run("aborted", run[j].attempt)] ELSE run
  /\ lock' = None
  /\ Become(p, "schedule", None, "none")
  /\ UNCHANGED <<row, registered, job, chan, failures>>

\* The session over the backdoor ends, one way or the other.
EndSession(p) ==
  /\ At(p, "session")
  /\ proc' = [proc EXCEPT ![p] = Proc("idle", "listener", None, None, "none")]
  /\ UNCHANGED <<row, registered, job, run, active, chan, lock, failures>>

-----------------------------------------------------------------------------
(* Errors of the database or of the job scheduler *)

\* Before the job exists: nothing is scheduled.
ScheduleError(p) ==
  /\ At(p, "schedule")
  /\ lock = None
  /\ Fails
  /\ Continue(p)
  /\ UNCHANGED <<row, registered, job, run, active, chan, lock>>

\* Slip: an error path that leaves the lock taken.
SaveErrorKeepsLock(p) ==
  /\ At(p, "save")
  /\ Fails
  /\ Continue(p)
  /\ UNCHANGED <<row, registered, job, run, active, chan, lock>>

\* After it was added: the job is there, the row is not.
SaveError(p) ==
  /\ At(p, "save")
  /\ Fails
  /\ lock' = None
  /\ Continue(p)
  /\ UNCHANGED <<row, registered, job, run, active, chan>>

\* update_device_registration fails: the handler ends.
RegisterError(p) ==
  /\ At(p, "register")
  /\ Fails
  /\ Continue(p)
  /\ UNCHANGED <<row, registered, job, run, active, chan, lock>>

\* An unreadable row is taken for a missing one.
IpGetError(p) ==
  /\ At(p, "ip_get")
  /\ Fails
  /\ Goto(p, "schedule")
  /\ UNCHANGED <<row, registered, job, run, active, chan, lock>>

\* cancel_wakeup_job fails half-way: logged, the abort follows.
CancelError(p) ==
  /\ \/ At(p, "cancel") /\ lock = None
     \/ proc[p].pc \in {"remove", "clear"}
  /\ Fails
  /\ lock' = p
  /\ Goto(p, "abort")
  /\ UNCHANGED <<row, registered, job, run, active, chan>>

\* The lost mark cannot be read or written: logged only.
LostError(j) ==
  /\ job[j].pc \in {"get_conn", "write_lost"}
  /\ Fails
  /\ JobEnds(j)
  /\ UNCHANGED <<row, registered, active, chan, proc, lock>>

-----------------------------------------------------------------------------

\* The closure of a job after it fired, and its task.
JobStep(j) ==
  \/ InsertHandle(j) \/ HandleDone(j) \/ LostGetConnection(j) \/ LostUpdate(j)
  \/ SessionSucceeds(j) \/ SessionFails(j)

\* A step of a handler or of the listener.
ProcStep(p) ==
  \/ \E j \in Jobs : CreateJob(p, j)
  \/ SaveConnection(p) \/ SetRegistered(p) \/ IpGetConnection(p)
  \/ CancelGet(p) \/ RemoveJob(p) \/ ClearJob(p) \/ AbortActive(p) \/ EndSession(p)

Recv(p) ==
  /\ SpareId
  /\ \E d \in Devices : RecvAck(p, d) \/ RecvIpUpdate(p, d) \/ RecvSessionStart(p, d)

Errors ==
  \/ \E p \in Procs : ScheduleError(p) \/ SaveError(p) \/ RegisterError(p)
                      \/ IpGetError(p) \/ CancelError(p)
  \/ \E j \in Jobs : DeviceUnreadable(j) \/ LostError(j)

Next ==
  \/ \E j \in Jobs : Fire(j) \/ JobStep(j) \/ SendReschedule(j)
  \/ ListenerRecv
  \/ \E p \in Procs : ProcStep(p)
  \/ \E p \in Handlers : Recv(p)
  \/ Errors

\* Time passes and tokio runs every ready task.  The RwLock and the channel are
\* fair queues: a waiter that could go again and again gets its turn.
Fairness ==
  /\ \A j \in Jobs : WF_vars(Fire(j)) /\ WF_vars(JobStep(j)) /\ SF_vars(SendReschedule(j))
  /\ WF_vars(ListenerRecv)
  /\ \A p \in Procs : SF_vars(ProcStep(p))

Spec == Init /\ [][Next]_vars /\ Fairness

-----------------------------------------------------------------------------
(* Properties *)

\* Every table, job, task and handler holds a value of its type.
TypeOK ==
  /\ row \in [Devices -> [status : Statuses, job : Jobs \cup {None}]]
  /\ registered \subseteq Devices
  /\ job \in [Jobs -> [pc : JobPCs, dev : Devices \cup {None}]]
  /\ run \in [Jobs -> [pc : RunPCs, attempt : 0 .. MaxAttempts]]
  /\ active \in [Devices -> Jobs \cup {None}]
  /\ chan \in Seq(Devices) /\ Len(chan) <= ChannelCap
  /\ proc \in [Procs -> [pc : ProcPCs, kind : ProcKinds, dev : Devices \cup {None},
                         job : Jobs \cup {None}, seen : Statuses]]
  /\ lock \in Procs \cup {None}
  /\ failures \in 0 .. MaxFailures

\* What will still wake a device up: a job that is to fire or to report, an
\* entry of the channel, or a task about to schedule it.
JobComing(j, d) ==
  /\ job[j].dev = d
  /\ \/ job[j].pc = "cron"
     \/ job[j].pc \in {"spawned", "watched"} /\ run[j].pc \in {"session", "sending"}
QueuedFor(d) == {i \in DOMAIN chan : chan[i] = d}
WillSchedule(p, d) ==
  proc[p].dev = d /\ proc[p].pc \in {"schedule", "cancel", "remove", "clear", "abort"}
Coming(d) ==
  \/ \E j \in Jobs : JobComing(j, d)
  \/ QueuedFor(d) # {}
  \/ \E p \in Procs : WillSchedule(p, d)
\* The error path that is going to write Lost.
Losing(j, d) ==
  /\ job[j].dev = d
  /\ run[j].pc = "err"
  /\ job[j].pc \in {"spawned", "watched", "get_conn", "write_lost"}

\* While nothing fails, a device that was confirmed is never forgotten: it has a
\* wake-up coming, or it was (or is being) marked lost.  A session's success, a
\* full channel, a debug session's cancel and abort, and handlers racing for
\* the same device never lose the last job without a trace.
NeverForgotten ==
  failures = 0 =>
    \A d \in Devices :
      d \in registered \/ row[d].status = "awaiting" =>
        Coming(d) \/ row[d].status = "lost" \/ \E j \in Jobs : Losing(j, d)

\* The device manager's lock is held exactly between taking it and the last
\* database or scheduler call of the guard's scope, on error paths too.
Holds(p) == proc[p].pc \in {"save", "remove", "clear", "abort"}
LockDiscipline == \A p \in Procs : Holds(p) <=> lock = p

\* What a job, a handler and a row may rely on between their awaits: a job that
\* fired has a row unless a write failed; a job being saved is still waiting in
\* the scheduler; an id that a row or a handler remembers was not given to
\* another device; and active_tasks names only tasks of its device that the
\* closure of their job is waiting for.
OwnJob(j, d) == job[j].pc = "free" \/ job[j].dev = d
JobKnows(j) ==
  /\ job[j].pc # "free" => job[j].dev \in Devices
  /\ run[j].pc = "none" <=> job[j].pc \in {"free", "cron"}
  /\ job[j].pc \in {"get_conn", "write_lost"} => run[j].pc = "err"
  /\ failures = 0 /\ job[j].pc # "free" /\ ~BeingSaved(j) => row[job[j].dev].status # "none"
ProcKnows(p) ==
  /\ proc[p].pc # "idle" => proc[p].dev \in Devices
  /\ proc[p].pc \in {"save", "remove", "clear"} => proc[p].job \in Jobs
  /\ proc[p].pc = "save" => JobAt(proc[p].job, "cron") /\ job[proc[p].job].dev = proc[p].dev
  /\ proc[p].pc \in {"remove", "clear"} => proc[p].seen # "none"
  /\ proc[p].job \in Jobs => OwnJob(proc[p].job, proc[p].dev)
RowKnows(d) ==
  /\ row[d].job \in Jobs => row[d].status # "none" /\ OwnJob(row[d].job, d)
  /\ active[d] \in Jobs => JobAt(active[d], "watched") /\ job[active[d]].dev = d
JobFacts ==
  (\A j \in Jobs : JobKnows(j)) /\ (\A p \in Procs : ProcKnows(p)) /\ (\A d \in Devices : RowKnows(d))

\* A wake-up of a device comes from a handler: firing, retrying, reporting and
\* rescheduling hand the one there is on and never make two of it.
Wakeups(d) ==
  Cardinality({j \in Jobs : JobComing(j, d)}) + Cardinality(QueuedFor(d))
    + Cardinality({p \in Procs : WillSchedule(p, d)})
NeverMultiplied ==
  [][(\A p \in Handlers : proc'[p] = proc[p]) =>
       \A d \in Devices : Wakeups(d)' <= Wakeups(d)]_vars

\* A confirmed device is connected to again and again, until it is marked lost:
\* the listener, the full channel and the lock never block each other.
Connected(d) ==
  \/ \E j \in Jobs : job[j].dev = d /\ run[j].pc = "session"
  \/ \E p \in Procs : proc[p].dev = d /\ proc[p].pc = "session"
KeepsWaking ==
  \A d \in Devices :
    d \in registered ~> (Connected(d) \/ row[d].status = "lost" \/ failures > 0)

=============================================================================
