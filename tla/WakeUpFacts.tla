---------------------------- MODULE WakeUpFacts -----------------------------
(***************************************************************************)
(* Proofs about WakeUp, first part: every step preserves the types of the  *)
(* tables, jobs, tasks and handlers, the discipline of the lock, and       *)
(* JobFacts, what jobs, handlers and rows may rely on between their        *)
(* awaits.                                                                 *)
(***************************************************************************)
EXTENDS WakeUp, TLAPS

\* Types are preserved.  An entry is written only for a device or a job: that
\* the ids at hand are ones is part of JobFacts.
LEMMA TypeStep ==
  ASSUME TypeOK, JobFacts, [Next]_vars
  PROVE  TypeOK'
<1> USE DEF TypeOK, Statuses, JobPCs, RunPCs, ProcPCs, ProcKinds
<1>j. \A j \in Jobs : ~JobAt(j, "free") => job[j].dev \in Devices
  BY Zenon DEF JobFacts, JobKnows, JobAt
<1>p. \A p \in Procs : ~At(p, "idle") => proc[p].dev \in Devices
  BY Zenon DEF JobFacts, ProcKnows, At
<1>1. ASSUME NEW j \in Jobs, Fire(j) PROVE TypeOK'
  BY <1>1, BoundsAssumption DEF Fire, JobGoto, Job, Run
<1>2. ASSUME NEW j \in Jobs, InsertHandle(j) PROVE TypeOK'
  BY <1>2, <1>j, Zenon DEF InsertHandle, JobGoto, Job, JobAt
<1>3. ASSUME NEW j \in Jobs, HandleDone(j) PROVE TypeOK'
  <2>1. active' \in [Devices -> Jobs \cup {None}]
    BY <1>3, Zenon DEF HandleDone
  <2>2. CASE JobGoto(j, "get_conn") /\ UNCHANGED run
    BY <1>3, <2>1, <2>2, Zenon DEF HandleDone, JobGoto, Job
  <2>3. CASE JobEnds(j)
    BY <1>3, <2>1, <2>3, BoundsAssumption DEF HandleDone, JobEnds, Job, Run
  <2> QED
    BY <1>3, <2>2, <2>3, Zenon DEF HandleDone
<1>4. ASSUME NEW j \in Jobs, LostGetConnection(j) PROVE TypeOK'
  <2>1. CASE JobGoto(j, "write_lost") /\ UNCHANGED run
    BY <1>4, <2>1, Zenon DEF LostGetConnection, JobGoto, Job
  <2>2. CASE JobEnds(j)
    BY <1>4, <2>2, BoundsAssumption DEF LostGetConnection, JobEnds, Job, Run
  <2> QED
    BY <1>4, <2>1, <2>2, Zenon DEF LostGetConnection
<1>5. ASSUME NEW j \in Jobs, LostUpdate(j) PROVE TypeOK'
  BY <1>5, <1>j, BoundsAssumption DEF LostUpdate, JobEnds, Row, Job, Run, JobAt
<1>6. ASSUME NEW j \in Jobs, SessionSucceeds(j) PROVE TypeOK'
  BY <1>6, Zenon DEF SessionSucceeds, Run
<1>7. ASSUME NEW j \in Jobs, SessionFails(j) PROVE TypeOK'
  BY <1>7, BoundsAssumption DEF SessionFails, Run
<1>8. ASSUME NEW j \in Jobs, SendReschedule(j) PROVE TypeOK'
  <2>1. job[j].dev \in Devices
    BY <1>8, Zenon DEF SendReschedule, JobFacts, JobKnows
  <2> QED
    BY <1>8, <2>1, BoundsAssumption DEF SendReschedule, Run
<1>9. ASSUME NEW j \in Jobs, DeviceUnreadable(j) PROVE TypeOK'
  BY <1>9, BoundsAssumption DEF DeviceUnreadable, Fails, Run
<1>10. ASSUME NEW j \in Jobs, LostError(j) PROVE TypeOK'
  BY <1>10, BoundsAssumption DEF LostError, Fails, JobEnds, Job, Run
<1>11. ASSUME NEW p \in Procs, NEW j \in Jobs, CreateJob(p, j) PROVE TypeOK'
  BY <1>11, Zenon DEF CreateJob, Become, Job, Proc
<1>12. ASSUME NEW p \in Procs, SaveConnection(p) PROVE TypeOK'
  BY <1>12, <1>p, Zenon DEF SaveConnection, Continue, Row, Proc, At
<1>13. CASE ListenerRecv
  BY <1>13, BoundsAssumption DEF ListenerRecv, Starts, Proc, Procs
<1>14. ASSUME NEW p \in Procs, NEW d \in Devices,
              RecvAck(p, d) \/ RecvIpUpdate(p, d) \/ RecvSessionStart(p, d)
       PROVE  TypeOK'
  <2>1. /\ \E pc \in ProcPCs, kind \in ProcKinds : Starts(p, pc, kind, d)
        /\ UNCHANGED <<row, registered, job, run, active, chan, lock, failures>>
    BY <1>14, Zenon DEF RecvAck, RecvIpUpdate, RecvSessionStart
  <2> QED
    BY <2>1 DEF Starts, Proc
<1>15. ASSUME NEW p \in Procs, SetRegistered(p) PROVE TypeOK'
  BY <1>15, <1>p, Zenon DEF SetRegistered, Goto, Become, Proc, At
<1>16. ASSUME NEW p \in Procs, IpGetConnection(p) PROVE TypeOK'
  <2>1. CASE Goto(p, "schedule")
    BY <1>16, <2>1, Zenon DEF IpGetConnection, Goto, Become, Proc
  <2>2. CASE Continue(p)
    BY <1>16, <2>2, Zenon DEF IpGetConnection, Continue, Proc
  <2> QED
    BY <1>16, <2>1, <2>2, Zenon DEF IpGetConnection
<1>17. ASSUME NEW p \in Procs, CancelGet(p) PROVE TypeOK'
  <2>1. row[proc[p].dev].job \in Jobs \cup {None} /\ row[proc[p].dev].status \in Statuses
    BY <1>17, <1>p, Zenon DEF CancelGet, At
  <2>2. \E pc \in ProcPCs, j \in Jobs \cup {None}, status \in Statuses : Become(p, pc, j, status)
    BY <1>17, <2>1, SMTT(30) DEF CancelGet, Goto
  <2>3. lock' = p /\ UNCHANGED <<row, registered, job, run, active, chan, failures>>
    BY <1>17, Zenon DEF CancelGet
  <2> QED
    BY <2>2, <2>3 DEF Become, Proc
<1>18. ASSUME NEW p \in Procs, RemoveJob(p) PROVE TypeOK'
  <2>1. proc[p].job \in Jobs
    BY <1>18, Zenon DEF RemoveJob, At, JobFacts, ProcKnows
  <2>2. CASE JobEnds(proc[p].job) /\ Goto(p, "clear")
    BY <1>18, <2>1, <2>2, BoundsAssumption DEF RemoveJob, JobEnds, Goto, Become, Proc, Job, Run
  <2>3. ASSUME NEW pc \in {"clear", "abort"}, Goto(p, pc), UNCHANGED <<job, run>> PROVE TypeOK'
    BY <1>18, <2>3, Zenon DEF RemoveJob, Goto, Become, Proc
  <2> QED
    BY <1>18, <2>2, <2>3, Zenon DEF RemoveJob
<1>19. ASSUME NEW p \in Procs, ClearJob(p) PROVE TypeOK'
  BY <1>19, <1>p, Zenon DEF ClearJob, Goto, Become, Row, Proc, At
<1>20. ASSUME NEW p \in Procs, AbortActive(p) PROVE TypeOK'
  <2>1. run' \in [Jobs -> [pc : RunPCs, attempt : 0 .. MaxAttempts]]
    BY <1>20, Zenon DEF AbortActive, Run
  <2>2. active' \in [Devices -> Jobs \cup {None}]
    BY <1>20, Zenon DEF AbortActive
  <2> QED
    BY <1>20, <2>1, <2>2, Zenon DEF AbortActive, Become, Proc
<1>21. ASSUME NEW p \in Procs, EndSession(p) PROVE TypeOK'
  BY <1>21, Zenon DEF EndSession, Proc
<1>22. ASSUME NEW p \in Procs, ScheduleError(p) \/ SaveError(p) \/ RegisterError(p) PROVE TypeOK'
  <2>1. /\ Continue(p) /\ Fails /\ lock' \in {lock, None}
        /\ UNCHANGED <<row, registered, job, run, active, chan>>
    BY <1>22, Zenon DEF ScheduleError, SaveError, RegisterError
  <2> QED
    BY <2>1, BoundsAssumption DEF Fails, Continue, Proc
<1>23. ASSUME NEW p \in Procs, IpGetError(p) \/ CancelError(p) PROVE TypeOK'
  <2>1. /\ \E pc \in ProcPCs : Goto(p, pc)
        /\ Fails /\ lock' \in {lock, p} /\ UNCHANGED <<row, registered, job, run, active, chan>>
    BY <1>23, Zenon DEF IpGetError, CancelError
  <2> QED
    BY <2>1, BoundsAssumption DEF Fails, Goto, Become, Proc
<1>24. CASE UNCHANGED vars
  BY <1>24, Zenon DEF vars
<1> QED
  BY <1>1, <1>2, <1>3, <1>4, <1>5, <1>6, <1>7, <1>8, <1>9, <1>10, <1>11, <1>12, <1>13, <1>14,
     <1>15, <1>16, <1>17, <1>18, <1>19, <1>20, <1>21, <1>22, <1>23, <1>24, Zenon
     DEF Next, JobStep, ProcStep, Recv, Errors, Procs

\* Taking and dropping the lock goes with the pc of the handler that does it.
LEMMA LockStep ==
  ASSUME TypeOK, LockDiscipline, [Next]_vars
  PROVE  LockDiscipline'
<1> USE ProcsAssumption DEF LockDiscipline, Holds, At
<1>t. proc = [p \in Procs |-> proc[p]]
  BY DEF TypeOK
<1>n. None \notin Procs
  BY Zenon DEF Procs
<1>1. CASE UNCHANGED <<proc, lock>>
  BY <1>1
<1>2. ASSUME NEW p \in Procs, NEW j \in Jobs, CreateJob(p, j) PROVE LockDiscipline'
  BY <1>t, <1>n, <1>2, Zenon DEF CreateJob, Become, Proc
<1>3. ASSUME NEW p \in Procs, SaveConnection(p) \/ SaveError(p) PROVE LockDiscipline'
  BY <1>t, <1>n, <1>3 DEF SaveConnection, SaveError, Continue, Proc
<1>4. ASSUME NEW p \in Procs, IpGetConnection(p) PROVE LockDiscipline'
  BY <1>t, <1>4 DEF IpGetConnection, Continue, Goto, Become, Proc
<1>5. ASSUME NEW p \in Procs, CancelGet(p) PROVE LockDiscipline'
  BY <1>t, <1>n, <1>5 DEF CancelGet, Goto, Become, Proc
<1>6. ASSUME NEW p \in Procs, RemoveJob(p) \/ ClearJob(p) PROVE LockDiscipline'
  BY <1>t, <1>6 DEF RemoveJob, ClearJob, Goto, Become, Proc
<1>7. ASSUME NEW p \in Procs, AbortActive(p) PROVE LockDiscipline'
  BY <1>t, <1>n, <1>7, Zenon DEF AbortActive, Become, Proc
<1>8. ASSUME NEW p \in Procs, EndSession(p) \/ SetRegistered(p) PROVE LockDiscipline'
  BY <1>t, <1>8 DEF EndSession, SetRegistered, Goto, Become, Proc
<1>9. ASSUME NEW p \in Procs, ScheduleError(p) \/ RegisterError(p) \/ IpGetError(p)
      PROVE LockDiscipline'
  BY <1>t, <1>9 DEF ScheduleError, RegisterError, IpGetError, Continue, Goto, Become, Proc
<1>10. ASSUME NEW p \in Procs, CancelError(p) PROVE LockDiscipline'
  BY <1>t, <1>n, <1>10, Zenon DEF CancelError, Goto, Become, Proc
<1>11. CASE ListenerRecv
  BY <1>t, <1>11, Zenon DEF ListenerRecv, Starts, Proc, Procs
<1>12. ASSUME NEW p \in Procs, NEW d \in Devices,
              RecvAck(p, d) \/ RecvIpUpdate(p, d) \/ RecvSessionStart(p, d)
       PROVE LockDiscipline'
  BY <1>t, <1>12 DEF RecvAck, RecvIpUpdate, RecvSessionStart, Starts, Proc
<1>13. CASE \E j \in Jobs : Fire(j) \/ JobStep(j) \/ SendReschedule(j)
                            \/ DeviceUnreadable(j) \/ LostError(j)
  <2>1. UNCHANGED <<proc, lock>>
    BY <1>13, Zenon DEF Fire, JobStep, InsertHandle, HandleDone, LostGetConnection, LostUpdate,
                 SessionSucceeds, SessionFails, SendReschedule, DeviceUnreadable, LostError
  <2> QED
    BY <1>1, <2>1
<1>14. CASE UNCHANGED vars
  BY <1>1, <1>14, Zenon DEF vars
<1> QED
  BY <1>2, <1>3, <1>4, <1>5, <1>6, <1>7, <1>8, <1>9, <1>10, <1>11, <1>12, <1>13, <1>14, Zenon
     DEF Next, ProcStep, Recv, Errors, Procs

-----------------------------------------------------------------------------
(* What jobs, handlers and rows may rely on *)

\* What is known of a job survives the steps of all the others.
LEMMA JobKnowsStep ==
  ASSUME TypeOK, JobFacts, [Next]_vars, NEW k \in Jobs
  PROVE  JobKnows(k)'
<1> USE DEF JobKnows, JobAt, At
<1>t. /\ proc = [p \in Procs |-> proc[p]] /\ job = [j \in Jobs |-> job[j]]
      /\ run = [j \in Jobs |-> run[j]] /\ row = [d \in Devices |-> row[d]]
      /\ failures \in Nat /\ MaxFailures \in Nat
  BY BoundsAssumption DEF TypeOK
<1>k. JobKnows(k)
  BY Zenon DEF JobFacts
<1>1. ASSUME UNCHANGED <<row, job, failures>>, run'[k].pc = run[k].pc, BeingSaved(k)' = BeingSaved(k)
      PROVE  JobKnows(k)'
  BY <1>k, <1>1, Zenon
<1>2. ASSUME NEW j \in Jobs, Fire(j) \/ InsertHandle(j) PROVE JobKnows(k)'
  BY <1>t, <1>k, <1>2 DEF Fire, InsertHandle, JobGoto, Job, Run, BeingSaved
<1>3. ASSUME NEW j \in Jobs, HandleDone(j) \/ LostGetConnection(j) \/ LostError(j)
      PROVE  JobKnows(k)'
  BY <1>t, <1>k, <1>3 DEF HandleDone, LostGetConnection, LostError, Fails, JobGoto, JobEnds, Job, Run,
                          BeingSaved
<1>4. ASSUME NEW j \in Jobs, LostUpdate(j) PROVE JobKnows(k)'
  BY <1>t, <1>k, <1>4, Zenon DEF LostUpdate, JobEnds, Job, Run, Row, BeingSaved
<1>5. ASSUME NEW j \in Jobs, SessionSucceeds(j) \/ SessionFails(j) \/ SendReschedule(j)
                             \/ DeviceUnreadable(j)
      PROVE  JobKnows(k)'
  <2>1. /\ UNCHANGED <<row, job, proc>> /\ failures' \in {failures, failures + 1}
        /\ \/ run'[k].pc = run[k].pc
           \/ /\ run[k].pc \in {"session", "sending"}
              /\ run'[k].pc \in {"session", "sending", "ok", "err"}
    BY <1>t, <1>5 DEF SessionSucceeds, SessionFails, SendReschedule, DeviceUnreadable, Fails, Run
  <2> QED
    BY <1>t, <1>k, <2>1 DEF BeingSaved
<1>6. ASSUME NEW p \in Procs, NEW j \in Jobs, CreateJob(p, j) PROVE JobKnows(k)'
  <2>1. proc[p].dev \in Devices
    BY <1>6, Zenon DEF CreateJob, JobFacts, ProcKnows
  <2>2. BeingSaved(j)' /\ (k # j => BeingSaved(k)' = BeingSaved(k))
    BY <1>t, <1>6, Zenon DEF CreateJob, Become, Proc, BeingSaved
  <2>3. run[j].pc = "none"
    BY <1>6, Zenon DEF CreateJob, Unused, JobFacts
  <2> QED
    BY <1>t, <1>k, <1>6, <2>1, <2>2, <2>3, Zenon DEF CreateJob, Job
<1>7. ASSUME NEW p \in Procs, SaveConnection(p) PROVE JobKnows(k)'
  <2>1. /\ proc[p].dev \in Devices /\ proc[p].job \in Jobs
        /\ job[proc[p].job].dev = proc[p].dev
    BY <1>7, Zenon DEF SaveConnection, JobFacts, ProcKnows
  <2>2. k # proc[p].job /\ BeingSaved(k) => BeingSaved(k)'
    BY <1>t, <1>7, Zenon DEF SaveConnection, Continue, Proc, BeingSaved
  <2> QED
    BY <1>t, <1>k, <1>7, <2>1, <2>2, Zenon DEF SaveConnection, Row
<1>8. ASSUME NEW p \in Procs, ClearJob(p) PROVE JobKnows(k)'
  <2>1. proc[p].seen # "none" /\ BeingSaved(k)' = BeingSaved(k)
    BY <1>t, <1>8, Zenon DEF ClearJob, JobFacts, ProcKnows, BeingSaved, Goto, Become, Proc
  <2> QED
    BY <1>t, <1>k, <1>8, <2>1, Zenon DEF ClearJob, Row
<1>9. ASSUME NEW p \in Procs, RemoveJob(p) PROVE JobKnows(k)'
  <2>1. BeingSaved(k)' = BeingSaved(k)
    BY <1>t, <1>9 DEF RemoveJob, BeingSaved, Goto, Become, Proc
  <2> QED
    BY <1>t, <1>k, <1>9, <2>1 DEF RemoveJob, JobEnds, Job, Run
<1>10. ASSUME NEW p \in Procs, AbortActive(p) PROVE JobKnows(k)'
  <2>1. BeingSaved(k)' = BeingSaved(k)
    BY <1>t, <1>10, Zenon DEF AbortActive, BeingSaved, Become, Proc
  <2>2. \/ run'[k].pc = run[k].pc
        \/ JobAt(k, "watched") /\ run[k].pc # "none" /\ run'[k].pc = "aborted"
    BY <1>t, <1>10, SMTT(30) DEF AbortActive, Run, JobFacts, RowKnows, ProcKnows
  <2> QED
    BY <1>k, <1>10, <2>1, <2>2, Zenon DEF AbortActive
<1>11. ASSUME NEW p \in Procs, SetRegistered(p) \/ IpGetConnection(p) \/ CancelGet(p) \/ EndSession(p)
       PROVE  JobKnows(k)'
  <2>1. BeingSaved(k)' = BeingSaved(k)
    BY <1>t, <1>11 DEF SetRegistered, IpGetConnection, CancelGet, EndSession, BeingSaved, Goto, Become,
                       Continue, Proc
  <2> QED
    BY <1>1, <1>11, <2>1, Zenon DEF SetRegistered, IpGetConnection, CancelGet, EndSession
<1>12. CASE ListenerRecv
  <2>1. BeingSaved(k)' = BeingSaved(k)
    BY <1>t, <1>12, Zenon DEF ListenerRecv, BeingSaved, Starts, Proc, Procs
  <2> QED
    BY <1>1, <1>12, <2>1, Zenon DEF ListenerRecv
<1>13. ASSUME NEW p \in Procs, NEW d \in Devices,
              RecvAck(p, d) \/ RecvIpUpdate(p, d) \/ RecvSessionStart(p, d)
       PROVE  JobKnows(k)'
  <2>1. BeingSaved(k)' = BeingSaved(k)
    BY <1>t, <1>13 DEF RecvAck, RecvIpUpdate, RecvSessionStart, BeingSaved, Starts, Proc
  <2> QED
    BY <1>1, <1>13, <2>1, Zenon DEF RecvAck, RecvIpUpdate, RecvSessionStart
<1>14. ASSUME NEW p \in Procs,
              ScheduleError(p) \/ SaveError(p) \/ RegisterError(p) \/ IpGetError(p) \/ CancelError(p)
       PROVE  JobKnows(k)'
  BY <1>t, <1>k, <1>14 DEF ScheduleError, SaveError, RegisterError, IpGetError, CancelError, Fails
<1>15. CASE UNCHANGED vars
  BY <1>1, <1>15, Zenon DEF vars, BeingSaved
<1> QED
  BY <1>2, <1>3, <1>4, <1>5, <1>6, <1>7, <1>8, <1>9, <1>10, <1>11, <1>12, <1>13, <1>14, <1>15, Zenon
     DEF Next, JobStep, ProcStep, Recv, Errors, Procs

\* What a handler remembers of a job it read or created stays true while it
\* waits: nobody else ends a job that is being saved.
LEMMA ProcKnowsStep ==
  ASSUME TypeOK, LockDiscipline, JobFacts, [Next]_vars, NEW q \in Procs
  PROVE  ProcKnows(q)'
<1> USE DEF ProcKnows, OwnJob, JobAt, At
<1>t. proc = [p \in Procs |-> proc[p]] /\ job = [j \in Jobs |-> job[j]]
  BY Zenon DEF TypeOK
<1>q. ProcKnows(q)
  BY Zenon DEF JobFacts
<1>1. ASSUME proc' = proc, NEW j \in Jobs, \A i \in Jobs : i # j => job'[i] = job[i],
             job'[j].pc = "free" \/ job'[j].dev = job[j].dev,
             BeingSaved(j) => job'[j].pc = "cron" /\ job'[j].dev = job[j].dev,
             job[j].pc # "free"
      PROVE  ProcKnows(q)'
  BY <1>q, <1>1, Zenon DEF BeingSaved
<1>2. ASSUME NEW j \in Jobs, Fire(j) PROVE ProcKnows(q)'
  BY <1>t, <1>1, <1>2, Zenon DEF Fire, JobGoto, Job
<1>3. ASSUME NEW j \in Jobs,
             InsertHandle(j) \/ HandleDone(j) \/ LostGetConnection(j) \/ LostUpdate(j) \/ LostError(j)
      PROVE  ProcKnows(q)'
  <2>1. ~BeingSaved(j)
    BY <1>3, Zenon DEF InsertHandle, HandleDone, LostGetConnection, LostUpdate, LostError, BeingSaved, JobFacts
  <2>2. /\ proc' = proc /\ job[j].pc # "free"
        /\ (\E pc \in JobPCs : JobGoto(j, pc)) \/ JobEnds(j)
    BY <1>3, Zenon DEF InsertHandle, HandleDone, LostGetConnection, LostUpdate, LostError, JobPCs
  <2> QED
    BY <1>t, <1>1, <2>1, <2>2 DEF JobGoto, JobEnds, Job
<1>4. ASSUME proc'[q] = proc[q], job' = job PROVE ProcKnows(q)'
  BY <1>q, <1>4, Zenon
<1>5. ASSUME NEW j \in Jobs,
             SessionSucceeds(j) \/ SessionFails(j) \/ SendReschedule(j) \/ DeviceUnreadable(j)
      PROVE  ProcKnows(q)'
  BY <1>4, <1>5, Zenon DEF SessionSucceeds, SessionFails, SendReschedule, DeviceUnreadable
<1>6. ASSUME NEW p \in Procs, NEW j \in Jobs, CreateJob(p, j) PROVE ProcKnows(q)'
  <2>1. proc[p].dev \in Devices
    BY <1>6, Zenon DEF CreateJob, JobFacts
  <2>2. CASE q = p
    BY <1>t, <1>6, <2>1, <2>2, Zenon DEF CreateJob, Become, Proc, Job
  <2>3. CASE q # p
    BY <1>t, <1>q, <1>6, <2>3, Zenon DEF CreateJob, Become, Unused
  <2> QED
    BY <2>2, <2>3, Zenon
<1>7. ASSUME NEW p \in Procs,
             SaveConnection(p) \/ SaveError(p) \/ ScheduleError(p) \/ RegisterError(p)
      PROVE  ProcKnows(q)'
  <2>1. Continue(p) /\ job' = job /\ proc[p].dev \in Devices
    BY <1>7, Zenon DEF SaveConnection, SaveError, ScheduleError, RegisterError, JobFacts
  <2> QED
    BY <1>t, <1>4, <2>1, JobsAssumption, Zenon DEF Continue, Proc
<1>8. ASSUME NEW p \in Procs, SetRegistered(p) \/ IpGetError(p) \/ ClearJob(p) \/ CancelError(p)
      PROVE  ProcKnows(q)'
  <2>1. /\ Goto(p, "schedule") \/ Goto(p, "abort")
        /\ job' = job /\ proc[p].dev \in Devices /\ ProcKnows(p)
    BY <1>8, Zenon DEF SetRegistered, IpGetError, ClearJob, CancelError, JobFacts
  <2> QED
    BY <1>t, <1>4, <2>1 DEF Goto, Become, Proc
<1>9. ASSUME NEW p \in Procs, IpGetConnection(p) PROVE ProcKnows(q)'
  <2>1. /\ Goto(p, "schedule") \/ Continue(p)
        /\ job' = job /\ proc[p].dev \in Devices /\ ProcKnows(p)
    BY <1>9, Zenon DEF IpGetConnection, JobFacts
  <2> QED
    BY <1>t, <1>4, <2>1, JobsAssumption DEF Goto, Become, Continue, Proc
<1>10. ASSUME NEW p \in Procs, CancelGet(p) PROVE ProcKnows(q)'
  <2>1. /\ proc[p].dev \in Devices /\ ProcKnows(p) /\ RowKnows(proc[p].dev)
        /\ row[proc[p].dev].job \in Jobs \cup {None}
    BY <1>10, Zenon DEF CancelGet, JobFacts, TypeOK
  <2>2. CASE row[proc[p].dev].job = None
    BY <1>t, <1>4, <1>10, <2>1, <2>2 DEF CancelGet, Goto, Become, Proc
  <2>3. CASE row[proc[p].dev].job # None
    BY <1>t, <1>4, <1>10, <2>1, <2>3, SMTT(30) DEF CancelGet, Become, Proc, RowKnows
  <2> QED
    BY <2>2, <2>3, Zenon
<1>11. ASSUME NEW p \in Procs, RemoveJob(p) PROVE ProcKnows(q)'
  <2>1. /\ ProcKnows(p) /\ proc[p].job \in Jobs /\ proc[p].pc = "remove"
        /\ Goto(p, "clear") \/ Goto(p, "abort")
        /\ job' = job \/ JobEnds(proc[p].job)
    BY <1>11, Zenon DEF RemoveJob, JobFacts
  <2>2. CASE q = p
    BY <1>t, <2>1, <2>2 DEF Goto, Become, Proc, JobEnds, Job
  <2>3. CASE q # p
    <3>1. proc'[q] = proc[q] /\ proc[q].pc # "save"
      BY <1>t, <2>1, <2>3, Zenon DEF Goto, Become, LockDiscipline, Holds
    <3> QED
      BY <1>t, <1>q, <2>1, <3>1 DEF JobEnds, Job
  <2> QED
    BY <2>2, <2>3, Zenon
<1>12. ASSUME NEW p \in Procs, AbortActive(p) \/ EndSession(p) PROVE ProcKnows(q)'
  <2>1. proc[p].dev \in Devices
    BY <1>12, Zenon DEF AbortActive, EndSession, JobFacts
  <2> QED
    BY <1>t, <1>4, <1>12, <2>1, JobsAssumption DEF AbortActive, EndSession, Become, Proc
<1>13. CASE ListenerRecv
  <2>1. Head(chan) \in Devices
    BY <1>13 DEF ListenerRecv, TypeOK
  <2> QED
    BY <1>t, <1>4, <1>13, <2>1, JobsAssumption, Zenon DEF ListenerRecv, Starts, Proc, Procs
<1>14. ASSUME NEW p \in Procs, NEW d \in Devices,
              RecvAck(p, d) \/ RecvIpUpdate(p, d) \/ RecvSessionStart(p, d)
       PROVE  ProcKnows(q)'
  BY <1>t, <1>4, <1>14, JobsAssumption DEF RecvAck, RecvIpUpdate, RecvSessionStart, Starts, Proc
<1>15. CASE UNCHANGED vars
  BY <1>4, <1>15, Zenon DEF vars
<1> QED
  BY <1>2, <1>3, <1>5, <1>6, <1>7, <1>8, <1>9, <1>10, <1>11, <1>12, <1>13, <1>14, <1>15, Zenon
     DEF Next, JobStep, ProcStep, Recv, Errors, Procs

\* The job ids in a row and in active_tasks are those of the device's own jobs.
LEMMA RowKnowsStep ==
  ASSUME TypeOK, JobFacts, [Next]_vars, NEW e \in Devices
  PROVE  RowKnows(e)'
<1> USE DEF RowKnows, OwnJob, JobAt, At
<1>t. /\ job = [j \in Jobs |-> job[j]] /\ row = [d \in Devices |-> row[d]]
      /\ active = [d \in Devices |-> active[d]]
  BY DEF TypeOK
<1>e. RowKnows(e)
  BY Zenon DEF JobFacts
<1>1. ASSUME UNCHANGED <<row, job>>, active'[e] = active[e] \/ active'[e] = None PROVE RowKnows(e)'
  BY <1>e, <1>1, JobsAssumption, Zenon
<1>2. ASSUME NEW j \in Jobs, Fire(j) PROVE RowKnows(e)'
  BY <1>t, <1>e, <1>2, Zenon DEF Fire, JobGoto, Job
<1>3. ASSUME NEW j \in Jobs, InsertHandle(j) PROVE RowKnows(e)'
  BY <1>t, <1>e, <1>3, Zenon DEF InsertHandle, JobGoto, Job
<1>4. ASSUME NEW j \in Jobs, HandleDone(j) PROVE RowKnows(e)'
  <2>1. job[j].dev \in Devices
    BY <1>4, Zenon DEF HandleDone, JobFacts, JobKnows
  <2> QED
    BY <1>t, <1>e, <1>4, <2>1, JobsAssumption DEF HandleDone, JobGoto, JobEnds, Job
<1>5. ASSUME NEW j \in Jobs, LostGetConnection(j) \/ LostError(j) PROVE RowKnows(e)'
  BY <1>t, <1>e, <1>5 DEF LostGetConnection, LostError, JobGoto, JobEnds, Job
<1>6. ASSUME NEW j \in Jobs, LostUpdate(j) PROVE RowKnows(e)'
  BY <1>t, <1>e, <1>6, JobsAssumption, Zenon DEF LostUpdate, JobEnds, Job, Row
<1>7. ASSUME NEW j \in Jobs,
             SessionSucceeds(j) \/ SessionFails(j) \/ SendReschedule(j) \/ DeviceUnreadable(j)
      PROVE  RowKnows(e)'
  BY <1>1, <1>7, Zenon DEF SessionSucceeds, SessionFails, SendReschedule, DeviceUnreadable
<1>8. ASSUME NEW p \in Procs, NEW j \in Jobs, CreateJob(p, j) PROVE RowKnows(e)'
  BY <1>t, <1>e, <1>8, Zenon DEF CreateJob, Unused, Job
<1>9. ASSUME NEW p \in Procs, SaveConnection(p) PROVE RowKnows(e)'
  <2>1. ProcKnows(p)
    BY Zenon DEF JobFacts
  <2> QED
    BY <1>t, <1>e, <1>9, <2>1, Zenon DEF SaveConnection, ProcKnows, Row
<1>10. ASSUME NEW p \in Procs, RemoveJob(p) PROVE RowKnows(e)'
  <2>1. proc[p].job \in Jobs
    BY <1>10, Zenon DEF RemoveJob, JobFacts, ProcKnows
  <2> QED
    BY <1>t, <1>e, <1>10, <2>1 DEF RemoveJob, JobEnds, Job
<1>11. ASSUME NEW p \in Procs, ClearJob(p) PROVE RowKnows(e)'
  BY <1>t, <1>e, <1>11, JobsAssumption, Zenon DEF ClearJob, Row
<1>12. ASSUME NEW p \in Procs, AbortActive(p) PROVE RowKnows(e)'
  BY <1>t, <1>1, <1>12, Zenon DEF AbortActive
<1>13. CASE UNCHANGED <<row, job, active>>
  BY <1>1, <1>13, Zenon
<1>14. ASSUME NEW p \in Procs,
              SetRegistered(p) \/ IpGetConnection(p) \/ CancelGet(p) \/ EndSession(p)
              \/ ScheduleError(p) \/ SaveError(p) \/ RegisterError(p) \/ IpGetError(p) \/ CancelError(p)
       PROVE  RowKnows(e)'
  BY <1>13, <1>14, Zenon DEF SetRegistered, IpGetConnection, CancelGet, EndSession, ScheduleError,
                      SaveError, RegisterError, IpGetError, CancelError
<1>15. ASSUME NEW p \in Procs, NEW d \in Devices,
              RecvAck(p, d) \/ RecvIpUpdate(p, d) \/ RecvSessionStart(p, d)
       PROVE  RowKnows(e)'
  BY <1>13, <1>15, Zenon DEF RecvAck, RecvIpUpdate, RecvSessionStart
<1>16. CASE ListenerRecv \/ UNCHANGED vars
  BY <1>13, <1>16, Zenon DEF ListenerRecv, vars
<1> QED
  BY <1>2, <1>3, <1>4, <1>5, <1>6, <1>7, <1>8, <1>9, <1>10, <1>11, <1>12, <1>14, <1>15, <1>16, Zenon
     DEF Next, JobStep, ProcStep, Recv, Errors, Procs
=============================================================================
