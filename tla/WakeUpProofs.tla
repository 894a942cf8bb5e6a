---------------------------- MODULE WakeUpProofs ----------------------------
(***************************************************************************)
(* Theorems about WakeUp, for any sets of devices, jobs and handlers, any  *)
(* number of attempts and any channel.  Facts is the inductive invariant:  *)
(* a handler cancels, aborts and saves by ids it read several awaits       *)
(* before, so NeverForgotten needs to know what these ids still mean.      *)
(* NeverMultiplied counts the wake-ups that are under way, and asks for    *)
(* finitely many ids and permits.                                          *)
(***************************************************************************)
EXTENDS WakeUpFacts, FiniteSetTheorems

Facts == TypeOK /\ LockDiscipline /\ JobFacts

\* The initial state, with empty tables and nothing running, satisfies Facts.
LEMMA InitFacts == Init => Facts
  BY DevicesAssumption, JobsAssumption, ProcsAssumption, BoundsAssumption
     DEF Init, Facts, TypeOK, LockDiscipline, Holds, JobFacts, JobKnows, ProcKnows, RowKnows,
         OwnJob, BeingSaved, At, JobAt, Row, Job, Run, Proc, Statuses, JobPCs, RunPCs,
         ProcPCs, ProcKinds, Procs

\* Facts holds in every reachable state.
THEOREM FactsInvariant == Spec => []Facts
<1>1. Facts /\ [Next]_vars => Facts'
  <2> SUFFICES ASSUME Facts, [Next]_vars PROVE Facts'
    OBVIOUS
  <2>1. TypeOK' /\ LockDiscipline'
    BY TypeStep, LockStep DEF Facts
  <2>2. JobFacts'
    BY JobKnowsStep, ProcKnowsStep, RowKnowsStep DEF Facts, JobFacts
  <2> QED
    BY <2>1, <2>2 DEF Facts
<1> QED
  BY InitFacts, <1>1, PTL DEF Spec

\* Every table, job, task and handler keeps its type, whatever MAX_RETRIES and
\* the capacity of the channel are.
THEOREM TypeCorrect == Spec => []TypeOK
  BY FactsInvariant, PTL DEF Facts

\* The device manager's lock is released by every handler, also on errors, and
\* never held by two.
THEOREM LockSafe == Spec => []LockDiscipline
  BY FactsInvariant, PTL DEF Facts

\* What rows, handlers and active_tasks remember of a job stays true of it.
THEOREM JobsKnown == Spec => []JobFacts
  BY FactsInvariant, PTL DEF Facts

-----------------------------------------------------------------------------
(* No wake-up is lost *)

\* The reasons why a device is not forgotten.
Kept(d) ==
  d \in registered \/ row[d].status = "awaiting" =>
    Coming(d) \/ row[d].status = "lost" \/ \E j \in Jobs : Losing(j, d)

\* What a step may do to the row and the registration of a device that is kept.
RowKept(d) ==
  \/ row'[d] = row[d] /\ (d \in registered' => d \in registered)
  \/ row'[d].status = "lost"
  \/ Coming(d)'

\* A step of a job keeps a device if it replaces the job's reason by another.
LEMMA JobKept ==
  ASSUME NEW d \in Devices, Kept(d), NEW j \in Jobs, RowKept(d), UNCHANGED proc,
         \A k \in Jobs : k # j => job'[k] = job[k] /\ run'[k] = run[k],
         QueuedFor(d) # {} => Coming(d)',
         JobComing(j, d) => Coming(d)' \/ Losing(j, d)',
         Losing(j, d) => Losing(j, d)' \/ row'[d].status = "lost"
  PROVE  Kept(d)'
<1>1. \A k \in Jobs : k # j /\ JobComing(k, d) => Coming(d)'
  BY Zenon DEF Coming, JobComing
<1>2. \A q \in Procs : WillSchedule(q, d) => Coming(d)'
  BY Zenon DEF Coming, WillSchedule
<1>3. \A k \in Jobs : k # j /\ Losing(k, d) => Losing(k, d)'
  BY Zenon DEF Losing
<1> QED
  BY <1>1, <1>2, <1>3 DEF Kept, RowKept, Coming

\* A step of a handler keeps a device if it replaces the handler's reason, and
\* those of the jobs it touches, by another.
LEMMA ProcKept ==
  ASSUME NEW d \in Devices, Kept(d), NEW p \in Procs, RowKept(d),
         \A q \in Procs : q # p => proc'[q] = proc[q],
         \A k \in Jobs : JobComing(k, d) \/ Losing(k, d) =>
                           (job'[k] = job[k] /\ run'[k] = run[k]) \/ Coming(d)',
         QueuedFor(d) # {} => Coming(d)',
         WillSchedule(p, d) => Coming(d)'
  PROVE  Kept(d)'
<1>1. \A k \in Jobs : JobComing(k, d) => Coming(d)'
  BY Zenon DEF Coming, JobComing
<1>2. \A q \in Procs : WillSchedule(q, d) => Coming(d)'
  BY Zenon DEF Coming, WillSchedule
<1>3. \A k \in Jobs : Losing(k, d) => Coming(d)' \/ Losing(k, d)'
  BY Zenon DEF Losing
<1> QED
  BY <1>1, <1>2, <1>3 DEF Kept, RowKept, Coming

\* While nothing fails, a step leaves each device a reason.
LEMMA KeptStep ==
  ASSUME Facts, Next, failures = 0, failures' = 0, NEW d \in Devices, Kept(d)
  PROVE  Kept(d)'
<1> USE DEF JobAt, At
<1>t. /\ proc = [p \in Procs |-> proc[p]] /\ job = [j \in Jobs |-> job[j]]
      /\ run = [j \in Jobs |-> run[j]] /\ row = [e \in Devices |-> row[e]]
  BY DEF Facts, TypeOK
<1>j. ASSUME NEW j \in Jobs, UNCHANGED <<row, registered, chan, proc>>,
             \A k \in Jobs : k # j => job'[k] = job[k] /\ run'[k] = run[k],
             JobComing(j, d) => JobComing(j, d)' \/ Losing(j, d)',
             Losing(j, d) => Losing(j, d)'
      PROVE  Kept(d)'
  BY <1>j, JobKept, Zenon DEF RowKept, QueuedFor, Coming
<1>1. ASSUME NEW j \in Jobs, Fire(j) PROVE Kept(d)'
  BY <1>t, <1>1, <1>j, Zenon DEF Fire, JobGoto, Job, Run, JobComing, Losing
<1>2. ASSUME NEW j \in Jobs, InsertHandle(j) PROVE Kept(d)'
  BY <1>t, <1>2, <1>j, Zenon DEF InsertHandle, JobGoto, Job, JobComing, Losing
<1>3. ASSUME NEW j \in Jobs, HandleDone(j) \/ LostGetConnection(j) PROVE Kept(d)'
  <2>1. ~JobComing(j, d)
    BY <1>3, Zenon DEF HandleDone, LostGetConnection, JobComing
  <2>2. row[job[j].dev].status # "none"
    <3>1. job[j].pc \in {"watched", "get_conn"}
      BY <1>3, Zenon DEF HandleDone, LostGetConnection
    <3>2. ~BeingSaved(j)
      BY <3>1, Zenon DEF Facts, JobFacts, ProcKnows, BeingSaved
    <3> QED
      BY <3>1, <3>2, Zenon DEF Facts, JobFacts, JobKnows
  <2>3. Losing(j, d) => Losing(j, d)'
    BY <1>t, <1>3, <2>2 DEF HandleDone, LostGetConnection, JobGoto, JobEnds, Job, Losing
  <2>4. \A k \in Jobs : k # j => job'[k] = job[k] /\ run'[k] = run[k]
    BY <1>t, <1>3, Zenon DEF HandleDone, LostGetConnection, JobGoto, JobEnds
  <2> QED
    BY <1>3, <1>j, <2>1, <2>3, <2>4, Zenon DEF HandleDone, LostGetConnection
<1>4. ASSUME NEW j \in Jobs, LostUpdate(j) PROVE Kept(d)'
  <2>1. ~JobComing(j, d) /\ job[j].dev \in Devices
    BY <1>4, Zenon DEF LostUpdate, JobComing, Facts, JobFacts, JobKnows
  <2>2. IF job[j].dev = d THEN row'[d].status = "lost" ELSE row'[d] = row[d] /\ ~Losing(j, d)
    BY <1>t, <1>4, <2>1, Zenon DEF LostUpdate, Row, Losing
  <2>3. \A k \in Jobs : k # j => job'[k] = job[k] /\ run'[k] = run[k]
    BY <1>t, <1>4, Zenon DEF LostUpdate, JobEnds
  <2>4. RowKept(d) /\ (QueuedFor(d) # {} => Coming(d)')
    BY <1>4, <2>2, Zenon DEF LostUpdate, RowKept, QueuedFor, Coming
  <2> QED
    BY <1>4, <2>1, <2>2, <2>3, <2>4, JobKept, Zenon DEF LostUpdate
<1>5. ASSUME NEW j \in Jobs, SessionSucceeds(j) \/ SessionFails(j) PROVE Kept(d)'
  <2>1. job[j].pc \in {"spawned", "watched"}
    BY <1>5, Zenon DEF SessionSucceeds, SessionFails, Facts, TypeOK, JobPCs, JobFacts, JobKnows
  <2> QED
    BY <1>t, <1>5, <1>j, <2>1 DEF SessionSucceeds, SessionFails, Run, JobComing, Losing
<1>6. ASSUME NEW j \in Jobs, SendReschedule(j) PROVE Kept(d)'
  <2>1. /\ job[j].dev \in Devices /\ ~Losing(j, d)
        /\ \A k \in Jobs : k # j => job'[k] = job[k] /\ run'[k] = run[k]
    BY <1>t, <1>6, Zenon DEF SendReschedule, Losing, Facts, JobFacts, JobKnows
  <2>2. chan \in Seq(Devices) /\ chan' = Append(chan, job[j].dev)
    BY <1>6, Zenon DEF SendReschedule, Facts, TypeOK
  <2>3. (job[j].dev = d => Len(chan) + 1 \in QueuedFor(d)') /\ QueuedFor(d) \subseteq QueuedFor(d)'
    BY <2>1, <2>2 DEF QueuedFor
  <2>4. (JobComing(j, d) => Coming(d)') /\ (QueuedFor(d) # {} => Coming(d)')
    BY <2>3, Zenon DEF JobComing, Coming
  <2> QED
    BY <1>6, <2>1, <2>4, JobKept, Zenon DEF SendReschedule, RowKept
<1>7. ASSUME NEW p \in Procs, NEW j \in Jobs, CreateJob(p, j) PROVE Kept(d)'
  <2>1. /\ \A q \in Procs : q # p => proc'[q] = proc[q]
        /\ \A k \in Jobs : k # j => job'[k] = job[k] /\ run'[k] = run[k]
    BY <1>t, <1>7, Zenon DEF CreateJob, Become
  <2>2. ~JobComing(j, d) /\ ~Losing(j, d)
    BY <1>7, Zenon DEF CreateJob, Unused, JobComing, Losing
  <2>3. proc[p].dev = d => JobComing(j, d)'
    BY <1>t, <1>7, Zenon DEF CreateJob, Job, JobComing
  <2>4. (WillSchedule(p, d) => Coming(d)') /\ (QueuedFor(d) # {} => Coming(d)')
    BY <1>7, <2>3, Zenon DEF CreateJob, WillSchedule, QueuedFor, Coming
  <2> QED
    BY <1>7, <2>1, <2>2, <2>4, ProcKept, Zenon DEF CreateJob, RowKept
<1>8. ASSUME NEW p \in Procs, SaveConnection(p) PROVE Kept(d)'
  <2>1. /\ proc[p].dev \in Devices /\ proc[p].job \in Jobs
        /\ job' = job /\ job[proc[p].job].pc = "cron" /\ job[proc[p].job].dev = proc[p].dev
    BY <1>8, Zenon DEF SaveConnection, Facts, JobFacts, ProcKnows
  <2>2. (\A q \in Procs : q # p => proc'[q] = proc[q]) /\ ~WillSchedule(p, d)
    BY <1>t, <1>8, Zenon DEF SaveConnection, Continue, WillSchedule
  <2>3. proc[p].dev = d => Coming(d)'
    BY ONLY <2>1, Zenon DEF Coming, JobComing
  <2>4. proc[p].dev # d => row'[d] = row[d] /\ registered' = registered
    BY <1>t, <1>8, Zenon DEF SaveConnection
  <2>5. QueuedFor(d) # {} => Coming(d)'
    BY <1>8, Zenon DEF SaveConnection, QueuedFor, Coming
  <2> QED
    BY <1>8, <2>2, <2>3, <2>4, <2>5, ProcKept, Zenon DEF SaveConnection, RowKept
<1>9. ASSUME NEW p \in Procs, SetRegistered(p) \/ ClearJob(p) PROVE Kept(d)'
  <2>1. /\ \A q \in Procs : q # p => proc'[q] = proc[q]
        /\ proc'[p].dev = proc[p].dev /\ proc'[p].pc \in {"schedule", "abort"}
    BY <1>t, <1>9 DEF SetRegistered, ClearJob, Goto, Become, Proc
  <2>2. proc[p].dev = d => Coming(d)'
    BY ONLY <2>1, p \in Procs DEF WillSchedule, Coming
  <2>3. proc[p].dev # d => row'[d] = row[d] /\ (d \in registered' => d \in registered)
    BY <1>t, <1>9, Zenon DEF SetRegistered, ClearJob
  <2>4. UNCHANGED <<job, run, chan>>
    BY <1>9, Zenon DEF SetRegistered, ClearJob
  <2>5. QueuedFor(d) # {} => Coming(d)'
    BY <2>4 DEF QueuedFor, Coming
  <2> QED
    BY <2>1, <2>2, <2>3, <2>4, <2>5, ProcKept, Zenon DEF RowKept, WillSchedule
<1>p. ASSUME NEW p \in Procs, UNCHANGED <<row, registered, job, run, chan>>,
             \A q \in Procs : q # p => proc'[q] = proc[q],
             WillSchedule(p, d) => WillSchedule(p, d)'
      PROVE  Kept(d)'
  BY <1>p, ProcKept, Zenon DEF RowKept, QueuedFor, Coming
<1>10. ASSUME NEW p \in Procs, IpGetConnection(p) \/ CancelGet(p) \/ EndSession(p) PROVE Kept(d)'
  <2>1. \A q \in Procs : q # p => proc'[q] = proc[q]
    BY <1>t, <1>10, Zenon DEF IpGetConnection, CancelGet, EndSession, Goto, Become, Continue
  <2>2. WillSchedule(p, d) => WillSchedule(p, d)'
    BY <1>t, <1>10 DEF IpGetConnection, CancelGet, EndSession, Goto, Become, Proc, WillSchedule
  <2> QED
    BY <1>10, <1>p, <2>1, <2>2, Zenon DEF IpGetConnection, CancelGet, EndSession
<1>11. ASSUME NEW p \in Procs, RemoveJob(p) \/ AbortActive(p) PROVE Kept(d)'
  <2>1. /\ \A q \in Procs : q # p => proc'[q] = proc[q]
        /\ proc'[p].dev = proc[p].dev /\ proc'[p].pc \in {"clear", "abort", "schedule"}
    BY <1>t, <1>11, SMTT(30) DEF RemoveJob, AbortActive, Goto, Become, Proc
  <2>2. proc[p].dev = d => Coming(d)'
    BY ONLY <2>1, p \in Procs DEF WillSchedule, Coming
  <2>3. \A k \in Jobs : JobComing(k, d) \/ Losing(k, d) =>
                          (job'[k] = job[k] /\ run'[k] = run[k]) \/ proc[p].dev = d
    <3>1. CASE RemoveJob(p)
      BY <1>t, <3>1, Zenon DEF RemoveJob, JobEnds, JobComing, Losing, Facts, JobFacts, ProcKnows, OwnJob
    <3>2. CASE AbortActive(p)
      BY <1>t, <3>2, SMTT(30) DEF AbortActive, JobComing, Losing, Facts, JobFacts, ProcKnows, RowKnows
    <3> QED
      BY <1>11, <3>1, <3>2, Zenon
  <2>4. UNCHANGED <<row, registered, chan>>
    BY <1>11, Zenon DEF RemoveJob, AbortActive
  <2>5. RowKept(d) /\ (QueuedFor(d) # {} => Coming(d)') /\ (WillSchedule(p, d) => Coming(d)')
    BY <2>2, <2>4, Zenon DEF RowKept, QueuedFor, Coming, WillSchedule
  <2> QED
    BY <2>1, <2>2, <2>3, <2>5, ProcKept, Zenon
<1>12. CASE ListenerRecv
  <2>1. /\ \A q \in Procs : q # Listener => proc'[q] = proc[q]
        /\ Listener \in Procs /\ ~WillSchedule(Listener, d)
        /\ Head(chan) = d => WillSchedule(Listener, d)'
    BY <1>t, <1>12, Zenon DEF ListenerRecv, Starts, Proc, Procs, WillSchedule
  <2>2. chan # <<>> /\ chan \in Seq(Devices) /\ chan' = Tail(chan)
    BY <1>12, Zenon DEF ListenerRecv, Facts, TypeOK
  <2>3. ASSUME NEW i \in QueuedFor(d), Head(chan) # d PROVE i - 1 \in QueuedFor(d)'
    BY <2>2, <2>3 DEF QueuedFor
  <2>4. QueuedFor(d) # {} => Coming(d)'
    BY <2>1, <2>3 DEF Coming
  <2> QED
    BY <1>12, <2>1, <2>4, ProcKept, Zenon DEF ListenerRecv, RowKept
<1>13. ASSUME NEW p \in Procs, NEW e \in Devices,
              RecvAck(p, e) \/ RecvIpUpdate(p, e) \/ RecvSessionStart(p, e)
       PROVE  Kept(d)'
  <2>1. (\A q \in Procs : q # p => proc'[q] = proc[q]) /\ ~WillSchedule(p, d)
    BY <1>t, <1>13, Zenon DEF RecvAck, RecvIpUpdate, RecvSessionStart, Starts, WillSchedule
  <2> QED
    BY <1>13, <1>p, <2>1, Zenon DEF RecvAck, RecvIpUpdate, RecvSessionStart
<1>14. ~Errors
  BY DEF Errors, ScheduleError, SaveError, RegisterError, IpGetError, CancelError,
         DeviceUnreadable, LostError, Fails
<1> QED
  BY <1>1, <1>2, <1>3, <1>4, <1>5, <1>6, <1>7, <1>8, <1>9, <1>10, <1>11, <1>12, <1>13, <1>14, Zenon
     DEF Next, JobStep, ProcStep, Recv, Procs

\* Failures are counted and never taken back.
LEMMA FailuresGrow ==
  ASSUME TypeOK, [Next]_vars
  PROVE  failures' = failures \/ failures' = failures + 1
  BY Zenon DEF Next, JobStep, ProcStep, Recv, Errors, vars, Fails, Fire, InsertHandle, HandleDone,
         LostGetConnection, LostUpdate, SessionSucceeds, SessionFails, SendReschedule,
         SaveConnection, SetRegistered, IpGetConnection, CancelGet, RemoveJob, ClearJob,
         AbortActive, EndSession, CreateJob, ListenerRecv, RecvAck, RecvIpUpdate,
         RecvSessionStart, ScheduleError, SaveError, RegisterError, IpGetError, CancelError,
         DeviceUnreadable, LostError

\* While no database or scheduler call fails, a device that was confirmed always
\* has a wake-up coming or is marked lost: from the ACK handler through the
\* cron job, its task, the channel and the listener to the next job, and
\* through debug sessions that cancel and abort on the way.
THEOREM NothingForgotten == Spec => []NeverForgotten
<1>1. Init => NeverForgotten
  BY DEF Init, NeverForgotten, Row
<1>2. Facts /\ NeverForgotten /\ [Next]_vars => NeverForgotten'
  <2> SUFFICES ASSUME Facts, NeverForgotten, [Next]_vars, failures' = 0, NEW d \in Devices
               PROVE  Kept(d)'
    BY Zenon DEF NeverForgotten, Kept
  <2>1. failures = 0
    BY FailuresGrow, BoundsAssumption DEF Facts, TypeOK
  <2>2. Kept(d)
    BY <2>1, Zenon DEF NeverForgotten, Kept
  <2>3. CASE Next
    BY <2>1, <2>2, <2>3, KeptStep, Zenon
  <2>4. CASE UNCHANGED vars
    BY <2>2, <2>4, Zenon DEF vars, Kept, Coming, JobComing, QueuedFor, WillSchedule, Losing
  <2> QED
    BY <2>3, <2>4
<1> QED
  BY <1>1, <1>2, FactsInvariant, PTL DEF Spec

-----------------------------------------------------------------------------
(* No wake-up is doubled *)

ComingJobs(d) == {j \in Jobs : JobComing(j, d)}
Schedulers(d) == {p \in Procs : WillSchedule(p, d)}

\* The listener of main.rs only ever schedules and saves.
ListenerKnows ==
  proc[Listener].pc \in {"idle", "schedule", "save"} /\ proc[Listener].kind = "listener"

\* Of the steps of a handler the listener takes two.
LEMMA ListenerSteps ==
  ASSUME ListenerKnows, ProcStep(Listener)
  PROVE  SaveConnection(Listener) \/ \E j \in Jobs : CreateJob(Listener, j)
<1> USE DEF ListenerKnows, At
<1>1. ~(SetRegistered(Listener) \/ IpGetConnection(Listener) \/ EndSession(Listener))
  BY Zenon DEF SetRegistered, IpGetConnection, EndSession
<1>2. ~(CancelGet(Listener) \/ RemoveJob(Listener) \/ ClearJob(Listener) \/ AbortActive(Listener))
  BY Zenon DEF CancelGet, RemoveJob, ClearJob, AbortActive
<1> QED
  BY <1>1, <1>2, Zenon DEF ProcStep

\* No step sends the listener into the code of another handler.
LEMMA ListenerStep ==
  ASSUME TypeOK, ListenerKnows, [Next]_vars
  PROVE  ListenerKnows'
<1> USE DEF ListenerKnows, At
<1>t. proc = [p \in Procs |-> proc[p]] /\ Listener \in Procs /\ Listener \notin Handlers
  BY ProcsAssumption DEF TypeOK, Procs
<1>1. CASE proc'[Listener] = proc[Listener]
  BY <1>1, Zenon
<1>2. CASE ListenerRecv
  BY <1>t, <1>2 DEF ListenerRecv, Starts, Proc
<1>3. CASE ProcStep(Listener)
  <2>1. (\E j \in Jobs : CreateJob(Listener, j)) \/ SaveConnection(Listener)
    BY <1>3, ListenerSteps, Zenon
  <2>2. CASE \E j \in Jobs : CreateJob(Listener, j)
    BY <1>t, <2>2 DEF CreateJob, Become, Proc
  <2>3. CASE SaveConnection(Listener)
    BY <1>t, <2>3 DEF SaveConnection, Continue, Proc
  <2> QED
    BY <2>1, <2>2, <2>3, Zenon
<1>4. CASE ScheduleError(Listener) \/ SaveError(Listener)
  BY <1>t, <1>4 DEF ScheduleError, SaveError, Continue, Proc
<1>5. CASE RegisterError(Listener) \/ IpGetError(Listener) \/ CancelError(Listener)
  BY <1>5 DEF RegisterError, IpGetError, CancelError
<1>6. ASSUME NEW p \in Procs, p # Listener,
             ProcStep(p) \/ Recv(p) \/ ScheduleError(p) \/ SaveError(p) \/ RegisterError(p)
               \/ IpGetError(p) \/ CancelError(p)
      PROVE  proc'[Listener] = proc[Listener]
  BY <1>t, <1>6, Zenon DEF ProcStep, CreateJob, SaveConnection, SetRegistered, IpGetConnection,
     CancelGet, RemoveJob, ClearJob, AbortActive, EndSession, Recv, RecvAck, RecvIpUpdate,
     RecvSessionStart, ScheduleError, SaveError, RegisterError, IpGetError, CancelError, Starts,
     Continue, Goto, Become
<1>7. ASSUME NEW j \in Jobs,
             Fire(j) \/ JobStep(j) \/ SendReschedule(j) \/ DeviceUnreadable(j) \/ LostError(j)
      PROVE  proc' = proc
  BY <1>7, Zenon DEF Fire, JobStep, InsertHandle, HandleDone, LostGetConnection, LostUpdate,
     SessionSucceeds, SessionFails, SendReschedule, DeviceUnreadable, LostError
<1>8. CASE UNCHANGED vars
  BY <1>1, <1>8, Zenon DEF vars
<1> QED
  BY <1>t, <1>1, <1>2, <1>3, <1>4, <1>5, <1>6, <1>7, <1>8, Zenon DEF Next, Errors, Procs

\* The three counts behind Wakeups are numbers.
LEMMA CountsFinite ==
  ASSUME TypeOK, NEW d \in Devices
  PROVE  /\ IsFiniteSet(ComingJobs(d)) /\ IsFiniteSet(QueuedFor(d)) /\ IsFiniteSet(Schedulers(d))
         /\ Cardinality(ComingJobs(d)) \in Nat /\ Cardinality(QueuedFor(d)) \in Nat
         /\ Cardinality(Schedulers(d)) \in Nat
<1>1. IsFiniteSet(Procs)
  BY FiniteAssumption, FS_AddElement DEF Procs
<1>2. IsFiniteSet(ComingJobs(d))
  BY FiniteAssumption, FS_Subset, Zenon DEF ComingJobs
<1>3. IsFiniteSet(Schedulers(d))
  BY <1>1, FS_Subset, Zenon DEF Schedulers
<1>4. IsFiniteSet(1 .. Len(chan)) /\ QueuedFor(d) \subseteq 1 .. Len(chan)
  BY FS_Interval DEF TypeOK, QueuedFor
<1>5. IsFiniteSet(QueuedFor(d))
  BY <1>4, FS_Subset, Zenon
<1> QED
  BY <1>2, <1>3, <1>5, FS_CardinalityType, Zenon

\* Nothing is added where each of the three sets shrinks or stays.
LEMMA FewerWakeups ==
  ASSUME TypeOK, TypeOK', NEW d \in Devices, ComingJobs(d)' \subseteq ComingJobs(d),
         QueuedFor(d)' \subseteq QueuedFor(d), Schedulers(d)' \subseteq Schedulers(d)
  PROVE  Wakeups(d)' <= Wakeups(d)
<1>1. /\ Cardinality(ComingJobs(d)') <= Cardinality(ComingJobs(d))
      /\ Cardinality(QueuedFor(d)') <= Cardinality(QueuedFor(d))
      /\ Cardinality(Schedulers(d)') <= Cardinality(Schedulers(d))
  BY CountsFinite, FS_Subset, Zenon
<1>2. /\ Cardinality(ComingJobs(d)) \in Nat /\ Cardinality(QueuedFor(d)) \in Nat
      /\ Cardinality(Schedulers(d)) \in Nat
  BY CountsFinite, Zenon
<1>3. /\ Cardinality(ComingJobs(d)') \in Nat /\ Cardinality(QueuedFor(d)') \in Nat
      /\ Cardinality(Schedulers(d)') \in Nat
  <2>1. /\ IsFiniteSet(ComingJobs(d)') /\ IsFiniteSet(QueuedFor(d)') /\ IsFiniteSet(Schedulers(d)')
    BY CountsFinite, FS_Subset, Zenon
  <2> QED
    BY <2>1, FS_CardinalityType, Zenon
<1> QED
  BY <1>1, <1>2, <1>3 DEF Wakeups, ComingJobs, Schedulers

\* A step that moves a wake-up from one set to another adds none: the set it leaves loses an
\* element, the set it joins gains one at most, and the third does not grow.
LEMMA OneMoves ==
  ASSUME NEW A, NEW B, NEW A2, NEW B2, NEW a, NEW b, IsFiniteSet(A), IsFiniteSet(B),
         a \in A, A2 \subseteq A \ {a}, B2 \subseteq B \cup {b}
  PROVE  /\ Cardinality(A2) \in Nat /\ Cardinality(B2) \in Nat
         /\ Cardinality(A2) + Cardinality(B2) <= Cardinality(A) + Cardinality(B)
<1>1. /\ Cardinality(A) \in Nat /\ Cardinality(B) \in Nat
      /\ IsFiniteSet(A \ {a}) /\ IsFiniteSet(B \cup {b})
  BY FS_CardinalityType, FS_RemoveElement, FS_AddElement, Zenon
<1>2. Cardinality(A \ {a}) = Cardinality(A) - 1 /\ Cardinality(B \cup {b}) <= Cardinality(B) + 1
  <2>1. Cardinality(A \ {a}) = Cardinality(A) - 1
    BY FS_RemoveElement, Zenon
  <2>2. Cardinality(B \cup {b}) = IF b \in B THEN Cardinality(B) ELSE Cardinality(B) + 1
    BY FS_AddElement, Zenon
  <2> QED
    BY ONLY <1>1, <2>1, <2>2
<1>3. Cardinality(A2) <= Cardinality(A \ {a}) /\ IsFiniteSet(A2)
  BY <1>1, FS_Subset, Zenon
<1>4. Cardinality(B2) <= Cardinality(B \cup {b}) /\ IsFiniteSet(B2)
  BY <1>1, FS_Subset, Zenon
<1>5. Cardinality(A2) \in Nat /\ Cardinality(B2) \in Nat
  BY <1>3, <1>4, FS_CardinalityType, Zenon
<1>6. Cardinality(A \ {a}) \in Nat /\ Cardinality(B \cup {b}) \in Nat
  BY <1>1, FS_CardinalityType, Zenon
<1> QED
  BY ONLY <1>1, <1>2, <1>3, <1>4, <1>5, <1>6

\* Taking the head of the channel takes one entry of its device out.
LEMMA QueueShrinks ==
  ASSUME TypeOK, chan # <<>>, chan' = Tail(chan), NEW d \in Devices
  PROVE  /\ IsFiniteSet(QueuedFor(d)')
         /\ Cardinality(QueuedFor(d)') <= Cardinality(QueuedFor(d) \ {1})
         /\ Head(chan) = d => 1 \in QueuedFor(d)
<1> DEFINE S == QueuedFor(d) \ {1}
           T == QueuedFor(d)'
           f == [i \in S |-> i - 1]
<1>1. chan \in Seq(Devices) /\ Len(chan) \in Nat /\ Len(chan') = Len(chan) - 1 /\ Len(chan) >= 1
  BY DEF TypeOK
<1>2. \A i \in 1 .. Len(chan') : chan'[i] = chan[i + 1]
  BY <1>1
<1>3. QueuedFor(d) = {i \in 1 .. Len(chan) : chan[i] = d}
  BY <1>1 DEF QueuedFor
<1>4. T = {i \in 1 .. Len(chan') : chan'[i] = d}
  BY <1>1 DEF QueuedFor
<1>5. ASSUME NEW i \in S PROVE i - 1 \in T
  BY <1>1, <1>2, <1>3, <1>4
<1>6. ASSUME NEW i \in T PROVE i + 1 \in S /\ (i + 1) - 1 = i
  BY <1>1, <1>2, <1>3, <1>4
<1>7. f \in Surjection(S, T)
  <2>1. f \in [S -> T]
    BY <1>5
  <2>2. \A t \in T : \E x \in S : f[x] = t
    BY <1>6
  <2> QED
    BY <2>1, <2>2, Zenon DEF Surjection
<1>8. IsFiniteSet(S)
  BY CountsFinite, FS_RemoveElement, Zenon
<1>9. Head(chan) = d => 1 \in QueuedFor(d)
  BY <1>1, <1>3
<1> HIDE DEF f
<1> QED
  BY <1>7, <1>8, <1>9, FS_Surjection, Zenon

\* A handler that takes a step moves on.
LEMMA HandlersMove ==
  ASSUME TypeOK, NEW p \in Procs,
         ProcStep(p) \/ Recv(p) \/ ScheduleError(p) \/ SaveError(p) \/ RegisterError(p)
           \/ IpGetError(p) \/ CancelError(p)
  PROVE  proc'[p] # proc[p]
<1> USE DEF At
<1>t. proc = [q \in Procs |-> proc[q]]
  BY DEF TypeOK
<1>1. CASE (\E j \in Jobs : CreateJob(p, j)) \/ SetRegistered(p) \/ EndSession(p)
  BY <1>t, <1>1 DEF CreateJob, SetRegistered, EndSession, Goto, Become, Proc
<1>2. CASE SaveConnection(p) \/ ScheduleError(p) \/ SaveError(p) \/ RegisterError(p) \/ IpGetConnection(p)
  <2>1. (Continue(p) \/ Goto(p, "schedule")) /\ proc[p].pc \in {"save", "schedule", "register", "ip_get"}
        /\ (Goto(p, "schedule") => proc[p].pc = "ip_get" \/ Continue(p))
    BY <1>2, Zenon DEF SaveConnection, ScheduleError, SaveError, RegisterError, IpGetConnection
  <2>2. CASE Continue(p)
    BY <1>t, <2>1, <2>2 DEF Continue, Proc
  <2>3. CASE Goto(p, "schedule") /\ proc[p].pc = "ip_get"
    BY <1>t, <2>3 DEF Goto, Become, Proc
  <2> QED
    BY <2>1, <2>2, <2>3, Zenon
<1>3. CASE Recv(p)
  BY <1>t, <1>3 DEF Recv, RecvAck, RecvIpUpdate, RecvSessionStart, Starts, Proc
<1>4. CASE IpGetError(p) \/ CancelError(p)
  BY <1>t, <1>4 DEF IpGetError, CancelError, Goto, Become, Proc
<1>5. CASE CancelGet(p)
  BY <1>t, <1>5 DEF CancelGet, Goto, Become, Proc
<1>6. CASE RemoveJob(p) \/ ClearJob(p)
  BY <1>t, <1>6 DEF RemoveJob, ClearJob, Goto, Become, Proc
<1>7. CASE AbortActive(p)
  BY <1>t, <1>7 DEF AbortActive, Become, Proc
<1> QED
  BY <1>1, <1>2, <1>3, <1>4, <1>5, <1>6, <1>7, Zenon DEF ProcStep

\* A step that no handler takes adds no wake-up of any device.
LEMMA HandedOn ==
  ASSUME Facts, TypeOK', ListenerKnows, Next, \A p \in Handlers : proc'[p] = proc[p],
         NEW d \in Devices
  PROVE  Wakeups(d)' <= Wakeups(d)
<1> USE DEF JobAt, At
<1>t. /\ proc = [p \in Procs |-> proc[p]] /\ job = [j \in Jobs |-> job[j]]
      /\ run = [j \in Jobs |-> run[j]] /\ TypeOK /\ Listener \in Procs
  BY DEF Facts, TypeOK, Procs
<1>f. /\ IsFiniteSet(ComingJobs(d)) /\ IsFiniteSet(QueuedFor(d)) /\ IsFiniteSet(Schedulers(d))
      /\ Cardinality(ComingJobs(d)) \in Nat /\ Cardinality(QueuedFor(d)) \in Nat
      /\ Cardinality(Schedulers(d)) \in Nat
  BY <1>t, CountsFinite, Zenon
<1>h. ASSUME NEW p \in Handlers,
             ProcStep(p) \/ Recv(p) \/ ScheduleError(p) \/ SaveError(p) \/ RegisterError(p)
               \/ IpGetError(p) \/ CancelError(p)
      PROVE  FALSE
  BY <1>t, <1>h, HandlersMove, Zenon DEF Procs
<1>j. ASSUME NEW j \in Jobs, UNCHANGED <<chan, proc>>,
             \A k \in Jobs : k # j => job'[k] = job[k] /\ run'[k] = run[k],
             JobComing(j, d)' => JobComing(j, d)
      PROVE  Wakeups(d)' <= Wakeups(d)
  <2>1. ComingJobs(d)' \subseteq ComingJobs(d)
    BY <1>j, Zenon DEF ComingJobs, JobComing
  <2>2. QueuedFor(d)' \subseteq QueuedFor(d) /\ Schedulers(d)' \subseteq Schedulers(d)
    BY <1>j, Zenon DEF QueuedFor, Schedulers, WillSchedule
  <2> QED
    BY <1>t, <2>1, <2>2, FewerWakeups, Zenon
<1>1. ASSUME NEW j \in Jobs, Fire(j) \/ InsertHandle(j) PROVE Wakeups(d)' <= Wakeups(d)
  <2>1. /\ UNCHANGED <<chan, proc>> /\ \A k \in Jobs : k # j => job'[k] = job[k] /\ run'[k] = run[k]
        /\ job'[j].dev = job[j].dev
        /\ job[j].pc = "cron" \/ (job[j].pc = "spawned" /\ run'[j] = run[j])
        /\ job'[j].pc \in {"spawned", "watched"}
    BY <1>t, <1>1 DEF Fire, InsertHandle, JobGoto, Job
  <2>2. JobComing(j, d)' => JobComing(j, d)
    BY <2>1 DEF JobComing
  <2> QED
    BY <1>j, <2>1, <2>2, Zenon
<1>2. ASSUME NEW j \in Jobs, HandleDone(j) \/ LostGetConnection(j) \/ LostUpdate(j) \/ LostError(j)
      PROVE  Wakeups(d)' <= Wakeups(d)
  <2>1. JobEnds(j) \/ (UNCHANGED run /\ (JobGoto(j, "get_conn") \/ JobGoto(j, "write_lost")))
    BY <1>2, Zenon DEF HandleDone, LostGetConnection, LostUpdate, LostError
  <2>2. job'[j].pc \in {"free", "get_conn", "write_lost"}
    BY <1>t, <2>1 DEF JobEnds, JobGoto, Job
  <2>3. \A k \in Jobs : k # j => job'[k] = job[k] /\ run'[k] = run[k]
    BY <1>t, <2>1, Zenon DEF JobEnds, JobGoto
  <2>4. ~JobComing(j, d)'
    BY <2>2 DEF JobComing
  <2>5. UNCHANGED <<chan, proc>>
    BY <1>2, Zenon DEF HandleDone, LostGetConnection, LostUpdate, LostError
  <2> QED
    BY <1>j, <2>3, <2>4, <2>5, Zenon
<1>3. ASSUME NEW j \in Jobs, SessionSucceeds(j) \/ SessionFails(j) \/ DeviceUnreadable(j)
      PROVE  Wakeups(d)' <= Wakeups(d)
  <2>1. run[j].pc = "session" /\ UNCHANGED <<job, chan, proc>>
    BY <1>3 DEF SessionSucceeds, SessionFails, DeviceUnreadable, Run
  <2>2. \A k \in Jobs : k # j => job'[k] = job[k] /\ run'[k] = run[k]
    BY <1>t, <1>3, Zenon DEF SessionSucceeds, SessionFails, DeviceUnreadable
  <2>3. JobComing(j, d)' => JobComing(j, d)
    BY <2>1, Zenon DEF JobComing
  <2> QED
    BY <1>j, <2>1, <2>2, <2>3, Zenon
<1>4. ASSUME NEW j \in Jobs, SendReschedule(j) PROVE Wakeups(d)' <= Wakeups(d)
  <2>1. /\ job[j].pc \in {"spawned", "watched"} /\ job' = job /\ proc' = proc /\ run'[j].pc = "ok"
        /\ \A k \in Jobs : k # j => run'[k] = run[k]
    <3>1. job[j].pc \in {"spawned", "watched"}
      BY <1>4, Zenon DEF SendReschedule, Facts, TypeOK, JobPCs, JobFacts, JobKnows
    <3> QED
      BY <1>t, <1>4, <3>1 DEF SendReschedule, Run
  <2>2. ComingJobs(d)' \subseteq ComingJobs(d) \ {j} /\ Schedulers(d)' \subseteq Schedulers(d)
    BY <2>1 DEF ComingJobs, JobComing, Schedulers, WillSchedule
  <2>3. chan \in Seq(Devices) /\ chan' = Append(chan, job[j].dev) /\ job[j].dev \in Devices
    BY <1>4, Zenon DEF SendReschedule, Facts, TypeOK, JobFacts, JobKnows
  <2>4. CASE job[j].dev = d
    <3>1. j \in ComingJobs(d)
      BY <1>4, <2>1, <2>4, Zenon DEF ComingJobs, JobComing, SendReschedule
    <3>2. QueuedFor(d)' \subseteq QueuedFor(d) \cup {Len(chan) + 1}
      BY <2>3 DEF QueuedFor
    <3>3. /\ Cardinality(ComingJobs(d)') \in Nat /\ Cardinality(QueuedFor(d)') \in Nat
          /\ Cardinality(ComingJobs(d)') + Cardinality(QueuedFor(d)')
               <= Cardinality(ComingJobs(d)) + Cardinality(QueuedFor(d))
      BY <1>f, <2>2, <3>1, <3>2, OneMoves, Zenon
    <3>4. Cardinality(Schedulers(d)') = Cardinality(Schedulers(d))
      BY <2>1, Zenon DEF Schedulers, WillSchedule
    <3> QED
      BY ONLY <1>f, <3>3, <3>4 DEF Wakeups, ComingJobs, Schedulers
  <2>5. CASE job[j].dev # d
    <3>1. QueuedFor(d)' \subseteq QueuedFor(d)
      BY <2>3, <2>5 DEF QueuedFor
    <3> QED
      BY <1>t, <2>2, <3>1, FewerWakeups, Zenon
  <2> QED
    BY <2>4, <2>5
<1>5. CASE ListenerRecv
  <2>1. /\ chan # <<>> /\ chan' = Tail(chan) /\ UNCHANGED <<job, run>>
        /\ \A q \in Procs : q # Listener => proc'[q] = proc[q]
        /\ proc'[Listener].dev = Head(chan)
    BY <1>t, <1>5 DEF ListenerRecv, Starts, Proc
  <2>2. /\ IsFiniteSet(QueuedFor(d)') /\ Cardinality(QueuedFor(d)') <= Cardinality(QueuedFor(d) \ {1})
        /\ Head(chan) = d => 1 \in QueuedFor(d)
    BY <1>t, <2>1, QueueShrinks, Zenon
  <2>3. Cardinality(ComingJobs(d)') = Cardinality(ComingJobs(d))
    BY <2>1, Zenon DEF ComingJobs, JobComing
  <2>4. Cardinality(QueuedFor(d)') \in Nat
    BY <2>2, FS_CardinalityType, Zenon
  <2>5. CASE Head(chan) = d
    <3>1. Schedulers(d)' \subseteq Schedulers(d) \cup {Listener}
      BY <2>1, Zenon DEF Schedulers, WillSchedule
    <3>2. 1 \in QueuedFor(d) /\ QueuedFor(d) \ {1} \subseteq QueuedFor(d) \ {1}
      BY <2>2, <2>5, Zenon
    <3>3. /\ Cardinality(QueuedFor(d) \ {1}) \in Nat /\ Cardinality(Schedulers(d)') \in Nat
          /\ Cardinality(QueuedFor(d) \ {1}) + Cardinality(Schedulers(d)')
               <= Cardinality(QueuedFor(d)) + Cardinality(Schedulers(d))
      BY <1>f, <3>1, <3>2, OneMoves, Zenon
    <3> QED
      BY ONLY <1>f, <2>2, <2>3, <2>4, <3>3 DEF Wakeups, ComingJobs, Schedulers
  <2>6. CASE Head(chan) # d
    <3>1. Schedulers(d)' \subseteq Schedulers(d)
      BY <2>1, <2>6, Zenon DEF Schedulers, WillSchedule
    <3>2. Cardinality(Schedulers(d)') <= Cardinality(Schedulers(d)) /\ Cardinality(Schedulers(d)') \in Nat
      BY <1>f, <3>1, FS_Subset, FS_CardinalityType, Zenon
    <3>3. Cardinality(QueuedFor(d) \ {1}) <= Cardinality(QueuedFor(d))
          /\ Cardinality(QueuedFor(d) \ {1}) \in Nat
      BY <1>f, FS_Subset, FS_CardinalityType, Zenon
    <3> QED
      BY ONLY <1>f, <2>2, <2>3, <2>4, <3>2, <3>3 DEF Wakeups, ComingJobs, Schedulers
  <2> QED
    BY <2>5, <2>6
<1>6. ASSUME NEW j \in Jobs, CreateJob(Listener, j) PROVE Wakeups(d)' <= Wakeups(d)
  <2>1. /\ chan' = chan /\ proc[Listener].pc = "schedule" /\ proc'[Listener].pc = "save"
        /\ job'[j].dev = proc[Listener].dev
        /\ \A q \in Procs : q # Listener => proc'[q] = proc[q]
        /\ \A k \in Jobs : k # j => job'[k] = job[k] /\ run'[k] = run[k]
    BY <1>t, <1>6 DEF CreateJob, Become, Proc, Job
  <2>2. Schedulers(d)' \subseteq Schedulers(d) \ {Listener}
    BY <2>1 DEF Schedulers, WillSchedule
  <2>3. QueuedFor(d)' = QueuedFor(d)
    BY <2>1, Zenon DEF QueuedFor
  <2>4. CASE proc[Listener].dev = d
    <3>1. Listener \in Schedulers(d)
      BY <1>t, <2>1, <2>4, Zenon DEF Schedulers, WillSchedule
    <3>2. ComingJobs(d)' \subseteq ComingJobs(d) \cup {j}
      BY <2>1, Zenon DEF ComingJobs, JobComing
    <3>3. /\ Cardinality(Schedulers(d)') \in Nat /\ Cardinality(ComingJobs(d)') \in Nat
          /\ Cardinality(Schedulers(d)') + Cardinality(ComingJobs(d)')
               <= Cardinality(Schedulers(d)) + Cardinality(ComingJobs(d))
      BY <1>f, <2>2, <3>1, <3>2, OneMoves, Zenon
    <3> QED
      BY ONLY <1>f, <2>3, <3>3 DEF Wakeups, ComingJobs, Schedulers
  <2>5. CASE proc[Listener].dev # d
    <3>1. ComingJobs(d)' \subseteq ComingJobs(d)
      BY <2>1, <2>5, Zenon DEF ComingJobs, JobComing
    <3> QED
      BY <1>t, <2>2, <2>3, <3>1, FewerWakeups, Zenon
  <2> QED
    BY <2>4, <2>5
<1>7. CASE SaveConnection(Listener) \/ ScheduleError(Listener) \/ SaveError(Listener)
  <2>1. Continue(Listener) /\ UNCHANGED <<job, run, chan>>
    BY <1>7, Zenon DEF SaveConnection, ScheduleError, SaveError
  <2>2. proc'[Listener].pc = "idle" /\ \A q \in Procs : q # Listener => proc'[q] = proc[q]
    BY <1>t, <2>1 DEF Continue, Proc, ListenerKnows
  <2>3. ComingJobs(d)' \subseteq ComingJobs(d) /\ QueuedFor(d)' \subseteq QueuedFor(d)
    BY <2>1, Zenon DEF ComingJobs, JobComing, QueuedFor
  <2>4. Schedulers(d)' \subseteq Schedulers(d)
    BY <2>2, Zenon DEF Schedulers, WillSchedule
  <2> QED
    BY <1>t, <2>3, <2>4, FewerWakeups, Zenon
<1>8. ProcStep(Listener) => SaveConnection(Listener) \/ \E j \in Jobs : CreateJob(Listener, j)
  BY ListenerSteps, Zenon
<1>9. ~(RegisterError(Listener) \/ IpGetError(Listener) \/ CancelError(Listener))
  BY DEF ListenerKnows, RegisterError, IpGetError, CancelError
<1> QED
  BY <1>h, <1>1, <1>2, <1>3, <1>4, <1>5, <1>6, <1>7, <1>8, <1>9, Zenon
     DEF Next, JobStep, Errors, Procs

\* From job to task, through the channel to the listener and the next job, a wake-up is handed
\* on and never doubled: only a handler (an ACK, an IP update, a debug session) can add one.
THEOREM NothingMultiplied == Spec => NeverMultiplied
<1>1. Init => ListenerKnows
  BY DEF Init, ListenerKnows, Proc, Procs
<1>2. ListenerKnows /\ TypeOK /\ [Next]_vars => ListenerKnows'
  BY ListenerStep
<1>3. Spec => []ListenerKnows
  BY <1>1, <1>2, TypeCorrect, PTL DEF Spec
<1>4. ASSUME Facts, ListenerKnows, TypeOK', [Next]_vars
      PROVE  [(\A p \in Handlers : proc'[p] = proc[p]) =>
                \A d \in Devices : Wakeups(d)' <= Wakeups(d)]_vars
  BY <1>4, HandedOn
<1> QED
  BY <1>3, <1>4, FactsInvariant, TypeCorrect, PTL DEF Spec, NeverMultiplied

=============================================================================
