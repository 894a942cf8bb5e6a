--------------------------- MODULE OwnershipFacts ---------------------------
(***************************************************************************)
(* Proofs about Ownership, first part: types, and what the tasks and the   *)
(* datagrams of a hand-over say of each other.                             *)
(***************************************************************************)
EXTENDS Ownership, TLAPS

\* What the pc of a task says of its locals; no node is its own peer.
TaskSound(k, t) ==
  /\ t.pc \in {"idle", "redistribute", "assign"} => t.devs = {} /\ t.done = {}
  /\ t.pc \in {"accept", "schedule", "reply"} => k = "server" /\ t.peer \in Nodes
  /\ t.pc # "schedule" => t.now = None
  /\ t.pc = "schedule" => t.now \in t.done
TaskFacts ==
  /\ \A n \in Nodes, k \in Kinds : TaskSound(k, task[n][k])
  /\ \A n \in Nodes : n \notin peers[n] \cup watched[n]

\* An undisputed device is in one place of one hand-over: in a datagram, which
\* its owner sent to another node, or with a task that got it from its owner, and
\* may have made its node the owner.
Bears(n, d) == d \in task[n]["server"].devs \cup task[n]["server"].done
SoleHandOver(d) ==
  /\ \A m \in net : d \in m.devs => m.from = owner[d] /\ m.to # owner[d]
  /\ \A m1, m2 \in net : d \in m1.devs /\ d \in m2.devs => m1 = m2
  /\ \A m \in net, n \in Nodes : d \in m.devs => ~Bears(n, d)
  /\ \A n, p \in Nodes : Bears(n, d) /\ Bears(p, d) => n = p
  /\ \A n \in Nodes : LET t == task[n]["server"] IN
       /\ d \in t.devs => d \notin t.done /\ t.peer = owner[d] /\ owner[d] # n
       /\ d \in t.done => owner[d] = n /\ t.peer # n
HandOverFacts == \A d \in Devices \ disputed : SoleHandOver(d)

Facts == TypeOK /\ TaskFacts /\ HandOverFacts /\ CustodyExact
-----------------------------------------------------------------------------
(* Types *)

\* An empty plan, and a plan of which one assignment has been done, are plans.
LEMMA PlanTypes ==
  /\ NoPlan \in Plans
  /\ \A p \in Plans, d \in Devices :
       d \in DOMAIN p => p[d] \in Nodes /\ [e \in DOMAIN p \ {d} |-> p[e]] \in Plans
<1>1. NoPlan \in [{} -> Nodes] /\ {} \in SUBSET Devices
  BY DEF NoPlan
<1>2. NoPlan \in Plans
  BY <1>1, Zenon DEF Plans
<1>3. ASSUME NEW p \in Plans, NEW d \in Devices, d \in DOMAIN p
      PROVE  p[d] \in Nodes /\ [e \in DOMAIN p \ {d} |-> p[e]] \in Plans
  <2>1. PICK devs \in SUBSET Devices : p \in [devs -> Nodes]
    BY DEF Plans
  <2>2. [e \in DOMAIN p \ {d} |-> p[e]] \in [devs \ {d} -> Nodes] /\ devs \ {d} \in SUBSET Devices
    BY <2>1
  <2>3. [e \in DOMAIN p \ {d} |-> p[e]] \in Plans
    BY <2>2, Zenon DEF Plans
  <2> QED
    BY <1>3, <2>1, <2>3
<1> QED
  BY <1>2, <1>3

\* An accepting task is a task.
LEMMA AcceptingType ==
  ASSUME NEW pc \in TaskPCs, NEW peer \in Nodes \cup {None}, NEW devs \in SUBSET Devices,
         NEW done \in SUBSET Devices, NEW now \in Devices \cup {None}
  PROVE  Accepting(pc, peer, devs, done, now) \in Tasks
BY PlanTypes DEF Accepting, Tasks

\* A redistributing task is a task.
LEMMA RedistributingType ==
  ASSUME NEW pc \in TaskPCs, NEW peer \in Nodes \cup {None}, NEW nodes \in SUBSET Nodes,
         NEW plan \in Plans
  PROVE  Redistributing(pc, peer, nodes, plan) \in Tasks
BY Zenon DEF Redistributing, Tasks

\* An idle task is a task.
LEMMA IdleType == Idle \in Tasks
BY AcceptingType DEF Idle, TaskPCs

\* Moving one task of one node keeps the type of the tasks.
LEMMA GotoType ==
  ASSUME task \in [Nodes -> [Kinds -> Tasks]], NEW n \in Nodes, NEW k \in Kinds, NEW t \in Tasks,
         Goto(n, k, t)
  PROVE  task' \in [Nodes -> [Kinds -> Tasks]]
BY DEF Goto

\* Moving one task of one node leaves all the others where they are.
LEMMA GotoAt ==
  ASSUME task \in [Nodes -> [Kinds -> Tasks]], NEW n \in Nodes, NEW k \in Kinds, NEW t, Goto(n, k, t)
  PROVE  \A p \in Nodes, j \in Kinds : task'[p][j] = IF p = n /\ j = k THEN t ELSE task[p][j]
BY Zenon DEF Goto

\* The tasks of the other nodes survive the end of a process.
LEMMA StopsAt ==
  ASSUME task \in [Nodes -> [Kinds -> Tasks]], NEW n \in Nodes, Stops(n)
  PROVE  \A p \in Nodes, j \in Kinds : task'[p][j] = IF p = n THEN Idle ELSE task[p][j]
BY DEF Stops

\* The end of a process keeps the types of what it clears.
LEMMA StopsType ==
  ASSUME TypeOK, NEW n \in Nodes, Stops(n)
  PROVE  /\ phase' \in [Nodes -> Phases]
         /\ peers' \in [Nodes -> SUBSET Nodes] /\ watched' \in [Nodes -> SUBSET Nodes]
         /\ held' \in [Nodes -> SUBSET Devices] /\ sched' \in [Nodes -> SUBSET Devices]
         /\ jobs' \in [Nodes -> SUBSET Devices] /\ todo' \in [Nodes -> SUBSET Devices]
         /\ task' \in [Nodes -> [Kinds -> Tasks]] /\ disputed' \subseteq Devices
<1>1. Taken(n) \subseteq Devices
  BY DEF TypeOK, Taken, Tasks
<1>2. [k \in Kinds |-> Idle] \in [Kinds -> Tasks]
  BY IdleType
<1>3. task' \in [Nodes -> [Kinds -> Tasks]]
  BY <1>2, Zenon DEF TypeOK, Stops
<1> QED
  BY <1>1, <1>3, Zenon DEF TypeOK, Stops, Phases

\* Types survive every step.
LEMMA TypeStep ==
  ASSUME TypeOK, TaskFacts, [Next]_vars
  PROVE  TypeOK'
<1> USE DEF db, memory, lists
<1>t. /\ owner \in [Devices -> Nodes] /\ task \in [Nodes -> [Kinds -> Tasks]]
      /\ held \in [Nodes -> SUBSET Devices] /\ sched \in [Nodes -> SUBSET Devices]
      /\ jobs \in [Nodes -> SUBSET Devices] /\ todo \in [Nodes -> SUBSET Devices]
      /\ phase \in [Nodes -> Phases]
      /\ peers \in [Nodes -> SUBSET Nodes] /\ watched \in [Nodes -> SUBSET Nodes]
  BY Zenon DEF TypeOK
<1>f. \A n \in Nodes, k \in Kinds : task[n][k] \in Tasks
  BY <1>t
<1>k. "server" \in Kinds /\ "detector" \in Kinds
  BY DEF Kinds
<1>1. ASSUME NEW n \in Nodes, NEW to \in Nodes, NEW devs \in SUBSET Devices, Delegate(n, to, devs)
      PROVE  TypeOK'
  BY <1>1 DEF Delegate, TypeOK, Request, Message, Messages
<1>2. ASSUME NEW n \in Nodes, Shutdown(n) PROVE TypeOK'
  <2>1. net' \subseteq Messages
    <3>1. CASE UNCHANGED net
      BY <3>1, Zenon DEF TypeOK
    <3>2. CASE \E targets \in SUBSET watched[n] \ {{}} : \E f \in Chunked(held[n], targets) :
                 net' = net \cup {Request(n, t, Share(f, t), "shutdown") : t \in {f[d] : d \in held[n]}}
      <4>0. PICK targets \in SUBSET watched[n] \ {{}} : \E f \in Chunked(held[n], targets) :
              net' = net \cup {Request(n, t, Share(f, t), "shutdown") : t \in {f[d] : d \in held[n]}}
        BY <3>2
      <4>1. PICK f \in Chunked(held[n], targets) :
              net' = net \cup {Request(n, t, Share(f, t), "shutdown") : t \in {f[d] : d \in held[n]}}
        BY <4>0
      <4>2. f \in [held[n] -> targets] /\ targets \subseteq Nodes /\ held[n] \subseteq Devices
        BY <1>t, <4>1 DEF Chunked
      <4>3. \A t \in {f[d] : d \in held[n]} : Request(n, t, Share(f, t), "shutdown") \in Messages
        BY <4>2, Zenon DEF Request, Message, Messages, Share
      <4> QED
        BY <4>1, <4>3, Zenon DEF TypeOK
    <3> QED
      BY <1>2, <3>1, <3>2 DEF Shutdown
  <2>2. phase' \in [Nodes -> Phases] /\ disputed' \subseteq Devices
    BY <1>2, <1>t, Zenon DEF Shutdown, TypeOK, Phases
  <2> QED
    BY <1>2, <2>1, <2>2, Zenon DEF Shutdown, TypeOK
<1>3. ASSUME NEW n \in Nodes, Leave(n) PROVE TypeOK'
  <2>1. net' \subseteq Messages
    BY <1>3, <1>t DEF Leave, NodeLeave, Message, Messages, TypeOK
  <2> QED
    BY <1>3, <2>1, StopsType, Zenon DEF Leave, TypeOK
<1>4. ASSUME NEW n \in Nodes, Crash(n) \/ ClaimError(n) \/ ReloadError(n) PROVE TypeOK'
  BY <1>4, StopsType, Zenon DEF Crash, ClaimError, ReloadError, TypeOK
<1>5. ASSUME NEW n \in Nodes, NEW m \in net, HandleAccept(n, m) \/ HandleLeave(n, m), net' = net \ {m}
      PROVE  TypeOK'
  <2>1. CASE HandleAccept(n, m)
    <3>1. held' \in [Nodes -> SUBSET Devices] /\ sched' \in [Nodes -> SUBSET Devices]
      BY <1>t, <2>1, Zenon DEF HandleAccept
    <3> QED
      BY <1>5, <2>1, <3>1, Zenon DEF HandleAccept, TypeOK
  <2>2. CASE HandleLeave(n, m)
    <3>1. peers' \in [Nodes -> SUBSET Nodes] /\ watched' \in [Nodes -> SUBSET Nodes]
      BY <1>t, <2>2, Zenon DEF HandleLeave, Remove, Without
    <3> QED
      BY <1>5, <2>2, <3>1, Zenon DEF HandleLeave, TypeOK
  <2> QED
    BY <1>5, <2>1, <2>2
<1>6. ASSUME NEW n \in Nodes, NEW m \in net, RejectRequest(n, m) PROVE TypeOK'
  BY <1>6, Zenon DEF RejectRequest, TypeOK
<1>7. ASSUME NEW n \in Nodes, NEW m \in net, AcceptRequest(n, m) PROVE TypeOK'
  <2>1. m.from \in Nodes /\ m.devs \subseteq Devices /\ "accept" \in TaskPCs
    BY DEF TypeOK, Messages, TaskPCs
  <2>2. Accepting("accept", m.from, m.devs, {}, None) \in Tasks
    BY <2>1, AcceptingType, Zenon
  <2>3. task' \in [Nodes -> [Kinds -> Tasks]]
    BY <1>7, <1>t, <1>k, <2>2, GotoType, Zenon DEF AcceptRequest
  <2> QED
    BY <1>7, <2>3, Zenon DEF AcceptRequest, TypeOK
<1>8. ASSUME NEW n \in Nodes, NEW d \in Devices, Take(n, d) PROVE TypeOK'
  <2> DEFINE t == task[n]["server"]
  <2>1. /\ t.peer \in Nodes \cup {None} /\ t.devs \in SUBSET Devices /\ t.done \in SUBSET Devices
        /\ "schedule" \in TaskPCs
    BY <1>f, <1>k, Zenon DEF TaskPCs, Tasks
  <2>2. Accepting("schedule", t.peer, t.devs \ {d}, t.done \cup {d}, d) \in Tasks
    <3> HIDE DEF t
    <3> QED BY <2>1, AcceptingType
  <2>3. task' \in [Nodes -> [Kinds -> Tasks]]
    BY <1>8, <1>t, <1>k, <2>2, GotoType, Zenon DEF Take
  <2> QED
    BY <1>8, <2>3, Zenon DEF Take, Own, Hold, TypeOK
<1>9. ASSUME NEW n \in Nodes, ScheduleTaken(n) PROVE TypeOK'
  <2> DEFINE t == task[n]["server"]
              u == Accepting(IF t.devs = {} THEN "reply" ELSE "accept", t.peer, t.devs, t.done, None)
  <2>1. t \in Tasks /\ t.now \in Devices
    BY <1>9, <1>f, <1>k, SMTT(30) DEF ScheduleTaken, TaskFacts, TaskSound, Tasks
  <2>2. u \in Tasks
    BY <2>1, AcceptingType, ZenonT(30) DEF Tasks, TaskPCs
  <2>3. task' \in [Nodes -> [Kinds -> Tasks]]
    BY <1>9, <1>t, <1>k, <2>2, GotoType, Zenon DEF ScheduleTaken
  <2> QED
    <3>1. jobs' \in [Nodes -> SUBSET Devices] /\ sched' \in [Nodes -> SUBSET Devices]
      BY <1>9, <1>t, <2>1 DEF ScheduleTaken
    <3> QED
      BY <1>9, <2>1, <2>3, <3>1, Zenon DEF ScheduleTaken, TypeOK
<1>10. ASSUME NEW n \in Nodes, ReplyAccept(n) PROVE TypeOK'
  <2> DEFINE t == task[n]["server"]
  <2>1. Accept(n, t.peer, t.done) \in Messages
    BY <1>10, <1>f, <1>k, Zenon DEF ReplyAccept, Accept, Message, Messages, TaskFacts, TaskSound, Tasks
  <2>2. task' \in [Nodes -> [Kinds -> Tasks]]
    BY <1>10, <1>t, <1>k, IdleType, GotoType, Zenon DEF ReplyAccept
  <2> QED
    BY <1>10, <2>1, <2>2, Zenon DEF ReplyAccept, TypeOK
<1>11. ASSUME NEW n \in Nodes, AcceptError(n) PROVE TypeOK'
  <2>1. task[n]["server"].done \subseteq Devices
    BY <1>f, <1>k, Zenon DEF Tasks
  <2>2. task' \in [Nodes -> [Kinds -> Tasks]]
    BY <1>11, <1>t, <1>k, IdleType, GotoType, Zenon DEF AcceptError
  <2>3. jobs' \in [Nodes -> SUBSET Devices]
    <3>1. jobs' \in {jobs, [jobs EXCEPT ![n] = @ \cup ({task[n]["server"].now} \cap Devices)]}
      BY <1>11, Zenon DEF AcceptError
    <3>2. jobs \in [Nodes -> SUBSET Devices]
      BY <1>t, Zenon
    <3>3. [jobs EXCEPT ![n] = @ \cup ({task[n]["server"].now} \cap Devices)] \in [Nodes -> SUBSET Devices]
      <4> DEFINE more == jobs[n] \cup ({task[n]["server"].now} \cap Devices)
      <4>1. jobs[n] \in SUBSET Devices
        BY <1>11, <3>2, Zenon
      <4>2. more \in SUBSET Devices
        BY <4>1, Zenon
      <4> HIDE DEF more
      <4>3. [jobs EXCEPT ![n] = more] \in [Nodes -> SUBSET Devices]
        BY ONLY <3>2, <4>2, SMTT(30)
      <4> QED
        BY <4>3 DEF more
    <3> QED
      BY <3>1, <3>2, <3>3, Zenon
  <2> QED
    BY <1>11, <2>1, <2>2, <2>3, Zenon DEF AcceptError, TypeOK
<1>12. ASSUME NEW n \in Nodes, NEW k \in Kinds, NEW dead \in Nodes, DeclareDead(n, k, dead)
       PROVE  TypeOK'
  <2>1. Redistributing("redistribute", dead, peers[n] \ {dead}, NoPlan) \in Tasks
    BY <1>t, RedistributingType, PlanTypes, Zenon DEF TaskPCs
  <2>2. task' \in [Nodes -> [Kinds -> Tasks]]
    BY <1>12, <1>t, <2>1, GotoType, Zenon DEF DeclareDead
  <2> QED
    BY <1>12, <2>2, Zenon DEF DeclareDead, TypeOK
<1>13. ASSUME NEW n \in Nodes, NEW k \in Kinds, ReadOrphans(n, k) PROVE TypeOK'
  <2>0. PICK active \in SUBSET task[n][k].nodes :
          \E plan \in RoundRobin({d \in Devices : owner[d] = task[n][k].peer}, active \cup {n}) :
            Goto(n, k, Redistributing("assign", task[n][k].peer, {}, plan))
    BY <1>13, Zenon DEF ReadOrphans
  <2>1. PICK plan \in RoundRobin({d \in Devices : owner[d] = task[n][k].peer}, active \cup {n}) :
          Goto(n, k, Redistributing("assign", task[n][k].peer, {}, plan))
    BY <2>0, Zenon
  <2>2. task[n][k].peer \in Nodes \cup {None} /\ task[n][k].nodes \subseteq Nodes
    BY <1>f, Zenon DEF Tasks
  <2>3. plan \in [{d \in Devices : owner[d] = task[n][k].peer} -> Nodes]
    BY <2>1, <2>2, Zenon DEF RoundRobin
  <2>4. plan \in Plans
    BY <2>3, Zenon DEF Plans
  <2>5. Redistributing("assign", task[n][k].peer, {}, plan) \in Tasks
    BY <2>2, <2>4, RedistributingType, Zenon DEF TaskPCs
  <2>6. task' \in [Nodes -> [Kinds -> Tasks]]
    BY <1>t, <2>1, <2>5, GotoType, Zenon
  <2> QED
    BY <1>13, <2>6, Zenon DEF ReadOrphans, TypeOK
<1>14. ASSUME NEW n \in Nodes, NEW k \in Kinds, NEW d \in Devices, Assign(n, k, d) PROVE TypeOK'
  <2> DEFINE t == task[n][k]
              rest == [e \in DOMAIN t.plan \ {d} |-> t.plan[e]]
  <2>1. t.peer \in Nodes \cup {None} /\ t.plan \in Plans
    BY <1>f, Zenon DEF Tasks
  <2>2. t.plan[d] \in Nodes /\ rest \in Plans
    BY <1>14, <2>1, PlanTypes, Zenon DEF Assign
  <2>3. Redistributing("assign", t.peer, {}, rest) \in Tasks
    BY <2>1, <2>2, RedistributingType, Zenon DEF TaskPCs
  <2>4. task' \in [Nodes -> [Kinds -> Tasks]]
    BY <1>14, <1>t, <2>3, GotoType, Zenon DEF Assign
  <2> QED
    <3>0. /\ owner' = [owner EXCEPT ![d] = t.plan[d]]
          /\ held' = held \/ held' = [held EXCEPT ![n] = @ \cup {d}]
      BY <1>14, Zenon DEF Assign, Own, Hold
    <3>1. owner' \in [Devices -> Nodes] /\ held' \in [Nodes -> SUBSET Devices]
      <4> HIDE DEF t
      <4>1. owner' \in [Devices -> Nodes]
        BY <1>t, <2>2, <3>0, Zenon
      <4>2. held' \in [Nodes -> SUBSET Devices]
        <5>1. CASE held' = held
          BY <1>t, <5>1, Zenon
        <5>2. CASE held' = [held EXCEPT ![n] = @ \cup {d}]
          BY <1>t, <5>2, Zenon
        <5> QED
          BY <3>0, <5>1, <5>2, Zenon
      <4> QED
        BY <4>1, <4>2
    <3> QED
      BY <1>14, <2>4, <3>1, Zenon DEF Assign, TypeOK
<1>15. ASSUME NEW n \in Nodes, NEW k \in Kinds, Forget(n, k) \/ AssignError(n, k) PROVE TypeOK'
  <2>1. task' \in [Nodes -> [Kinds -> Tasks]]
    BY <1>15, <1>t, IdleType, GotoType, Zenon DEF Forget, AssignError
  <2>2. peers' \in [Nodes -> SUBSET Nodes] /\ watched' \in [Nodes -> SUBSET Nodes]
    <3>1. Remove(n, task[n][k].peer)
      BY <1>15, Zenon DEF Forget, AssignError
    <3> QED
      BY ONLY <1>t, <3>1 DEF Remove, Without
  <2> QED
    BY <1>15, <2>1, <2>2, Zenon DEF Forget, AssignError, TypeOK
<1>16. ASSUME NEW n \in Nodes, Start(n) PROVE TypeOK'
  BY <1>16, Zenon DEF Start, TypeOK, Phases
<1>17. ASSUME NEW n \in Nodes, NEW d \in Devices, Claim(n, d) \/ Reload(n, d) PROVE TypeOK'
  <2>1. CASE Claim(n, d)
    BY <2>1, Zenon DEF Claim, Own, Hold, TypeOK
  <2>2. CASE Reload(n, d)
    <3>1. /\ jobs' \in [Nodes -> SUBSET Devices] /\ todo' \in [Nodes -> SUBSET Devices]
          /\ row' \in [Devices -> {"awaiting", "lost"}] /\ missed' \subseteq Devices
      <4>1. /\ jobs' = jobs \/ jobs' = [jobs EXCEPT ![n] = @ \cup {d}]
            /\ todo' = [todo EXCEPT ![n] = @ \ {d}] /\ missed' \in {missed, missed \cup {d}}
            /\ row' = [row EXCEPT ![d] = "lost"] \/ row' = [row EXCEPT ![d] = "awaiting"]
        BY <2>2, Zenon DEF Reload
      <4>2. row \in [Devices -> {"awaiting", "lost"}] /\ missed \subseteq Devices
        BY Zenon DEF TypeOK
      <4>3. jobs' \in [Nodes -> SUBSET Devices] /\ todo' \in [Nodes -> SUBSET Devices]
        <5>1. CASE jobs' = jobs
          BY <1>t, <4>1, <5>1, Zenon
        <5>2. CASE jobs' = [jobs EXCEPT ![n] = @ \cup {d}]
          BY <1>t, <4>1, <5>2, Zenon
        <5> QED
          BY <4>1, <5>1, <5>2, Zenon
      <4>4. row' \in [Devices -> {"awaiting", "lost"}]
        <5>1. CASE row' = [row EXCEPT ![d] = "lost"]
          BY <4>2, <5>1
        <5>2. CASE row' = [row EXCEPT ![d] = "awaiting"]
          BY <4>2, <5>2, Zenon
        <5> QED
          BY <4>1, <5>1, <5>2, Zenon
      <4> QED
        BY <4>1, <4>2, <4>3, <4>4, Zenon
    <3> QED
      BY <2>2, <3>1, Zenon DEF Reload, TypeOK
  <2> QED
    BY <1>17, <2>1, <2>2
<1>18. ASSUME NEW n \in Nodes, BeginServing(n) \/ ReadOwned(n) \/ EnableClusterMode(n)
                                \/ ReadAwaiting(n) \/ Run(n)
       PROVE  TypeOK'
  <2>1. CASE BeginServing(n) \/ Run(n)
    BY <2>1, SMTT(30) DEF BeginServing, Run, TypeOK, Phases
  <2>2. CASE ReadOwned(n)
    BY <2>2, Zenon DEF ReadOwned, TypeOK, Phases
  <2>3. CASE EnableClusterMode(n)
    BY <2>3, Zenon DEF EnableClusterMode, TypeOK, Phases
  <2>4. CASE ReadAwaiting(n)
    BY <2>4, Zenon DEF ReadAwaiting, TypeOK, Phases
  <2> QED
    BY <1>18, <2>1, <2>2, <2>3, <2>4, Zenon
<1>19. ASSUME NEW n \in Nodes, Learn(n) PROVE TypeOK'
  <2>0. \A l \in [Nodes -> SUBSET Nodes], a, b \in Nodes :
          /\ With(l, a, b) \in [Nodes -> SUBSET Nodes] /\ Without(l, a, b) \in [Nodes -> SUBSET Nodes]
          /\ Noted(l, a, b) \in [Nodes -> SUBSET Nodes]
    BY DEF With, Without, Noted
  <2>1. peers' \in [Nodes -> SUBSET Nodes] /\ watched' \in [Nodes -> SUBSET Nodes]
    <3>1. PICK p \in Nodes : HandleNodeJoin(n, p) \/ HandleHeartbeat(n, p)
      BY <1>19, Zenon DEF Learn
    <3>2. CASE HandleNodeJoin(n, p)
      <4>1. \/ peers' = With(peers, n, p) /\ watched' = Without(watched, n, p)
            \/ peers' = With(With(peers, n, p), p, n) /\ watched' = Noted(Without(watched, n, p), p, n)
        BY <3>2, Zenon DEF HandleNodeJoin
      <4>2. /\ With(peers, n, p) \in [Nodes -> SUBSET Nodes]
            /\ Without(watched, n, p) \in [Nodes -> SUBSET Nodes]
        BY <1>t, <2>0, Zenon
      <4>3. /\ With(With(peers, n, p), p, n) \in [Nodes -> SUBSET Nodes]
            /\ Noted(Without(watched, n, p), p, n) \in [Nodes -> SUBSET Nodes]
        BY <2>0, <4>2, Zenon
      <4> QED
        BY <4>1, <4>2, <4>3, Zenon
    <3>3. CASE HandleHeartbeat(n, p)
      BY <1>t, <2>0, <3>3, Zenon DEF HandleHeartbeat
    <3> QED
      BY <3>1, <3>2, <3>3
  <2> QED
    BY <1>19, <2>1, Zenon DEF Learn, HandleNodeJoin, HandleHeartbeat, TypeOK
<1>20. ASSUME NEW m \in net, Lose(m) PROVE TypeOK'
  BY <1>20, Zenon DEF Lose, TypeOK, Messages
<1>21. CASE UNCHANGED vars
  BY <1>21, Zenon DEF vars, TypeOK
<1> QED
  BY <1>1, <1>2, <1>3, <1>4, <1>5, <1>6, <1>7, <1>8, <1>9, <1>10, <1>11, <1>12, <1>13, <1>14,
     <1>15, <1>16, <1>17, <1>18, <1>19, <1>20, <1>21, <1>k, Zenon
     DEF Next, Receive, ServerStep, RedistributeStep, StartStep, Errors, HandleDeadNode, HandleNodeDead

-----------------------------------------------------------------------------
(* The locals of the tasks *)

\* A step that moves one task to a sound one keeps every task sound.
LEMMA NewTaskSound ==
  ASSUME NEW k \in Kinds
  PROVE  /\ TaskSound(k, Idle)
         /\ \A peer, nodes, plan : \A pc \in {"redistribute", "assign"} :
              TaskSound(k, Redistributing(pc, peer, nodes, plan))
BY SMTT(30) DEF TaskSound, Idle, Accepting, Redistributing

\* A step of one task keeps its locals sound, and touches no other task.
LEMMA TaskStep ==
  ASSUME TypeOK, TaskFacts, [Next]_vars
  PROVE  TaskFacts'
<1> USE DEF db, memory, lists
<1>t. task \in [Nodes -> [Kinds -> Tasks]] /\ "server" \in Kinds
  BY DEF TypeOK, Kinds
<1>s. \A n \in Nodes, k \in Kinds : TaskSound(k, task[n][k]) /\ task[n][k] \in Tasks
  BY <1>t DEF TaskFacts
<1>p. \A n \in Nodes : n \notin peers[n] \cup watched[n]
  BY DEF TaskFacts
<1>q. peers \in [Nodes -> SUBSET Nodes] /\ watched \in [Nodes -> SUBSET Nodes]
  BY DEF TypeOK
<1>g. ASSUME NEW n \in Nodes, NEW k \in Kinds, NEW u, Goto(n, k, u), TaskSound(k, u)
      PROVE  \A p \in Nodes, j \in Kinds : TaskSound(j, task'[p][j])
  <2>1. ASSUME NEW p \in Nodes, NEW j \in Kinds
        PROVE  (task'[p][j] = u /\ j = k) \/ task'[p][j] = task[p][j]
    BY <1>t, <1>g, GotoAt
  <2> QED
    BY <1>g, <1>s, <2>1, Zenon
<1>0. ASSUME \A p \in Nodes, j \in Kinds : TaskSound(j, task'[p][j]),
             \A p \in Nodes : p \notin peers'[p] \cup watched'[p]
      PROVE  TaskFacts'
  BY <1>0, Zenon DEF TaskFacts, TaskSound
<1>1. ASSUME NEW n \in Nodes, Stops(n) PROVE TaskFacts'
  <2>1. \A p \in Nodes, j \in Kinds : TaskSound(j, task'[p][j])
    <3>1. ASSUME NEW p \in Nodes, NEW j \in Kinds PROVE task'[p][j] = Idle \/ task'[p][j] = task[p][j]
      BY <1>t, <1>1, StopsAt, Zenon
    <3> QED
      BY <1>s, <3>1, NewTaskSound, Zenon
  <2>2. \A p \in Nodes : p \notin peers'[p] \cup watched'[p]
    BY <1>1, <1>p, <1>q, Zenon DEF Stops
  <2> QED
    BY <1>0, <2>1, <2>2
<1>2. ASSUME UNCHANGED <<task, lists>> PROVE TaskFacts'
  BY <1>2, SMTT(30) DEF TaskFacts, TaskSound
<1>3. ASSUME NEW n \in Nodes, NEW m \in net, AcceptRequest(n, m) PROVE TaskFacts'
  <2>1. TaskSound("server", Accepting("accept", m.from, m.devs, {}, None))
    BY Zenon DEF TaskSound, Accepting, TypeOK, Messages
  <2> QED
    BY <1>0, <1>3, <1>g, <1>p, <1>t, <2>1, Zenon DEF AcceptRequest
<1>4. ASSUME NEW n \in Nodes, NEW d \in Devices, Take(n, d) PROVE TaskFacts'
  <2> DEFINE t == task[n]["server"]
  <2>1. TaskSound("server", Accepting("schedule", t.peer, t.devs \ {d}, t.done \cup {d}, d))
    BY <1>4, <1>s, <1>t, Zenon DEF Take, TaskSound, Accepting
  <2> QED
    BY <1>0, <1>4, <1>g, <1>p, <1>t, <2>1, Zenon DEF Take
<1>5. ASSUME NEW n \in Nodes, ScheduleTaken(n) PROVE TaskFacts'
  <2> DEFINE t == task[n]["server"]
  <2>1. TaskSound("server", Accepting(IF t.devs = {} THEN "reply" ELSE "accept",
                                      t.peer, t.devs, t.done, None))
    BY <1>5, <1>s, <1>t, Zenon DEF ScheduleTaken, TaskSound, Accepting
  <2> QED
    BY <1>0, <1>5, <1>g, <1>p, <1>t, <2>1, Zenon DEF ScheduleTaken
<1>6. ASSUME NEW n \in Nodes, ReplyAccept(n) \/ AcceptError(n) PROVE TaskFacts'
  BY <1>0, <1>6, <1>g, <1>p, <1>t, NewTaskSound, Zenon DEF ReplyAccept, AcceptError
<1>7. ASSUME NEW n \in Nodes, NEW k \in Kinds, NEW dead \in Nodes, DeclareDead(n, k, dead)
      PROVE  TaskFacts'
  BY <1>0, <1>7, <1>g, <1>p, NewTaskSound, Zenon DEF DeclareDead
<1>8. ASSUME NEW n \in Nodes, NEW k \in Kinds, ReadOrphans(n, k) PROVE TaskFacts'
  <2>1. PICK plan : Goto(n, k, Redistributing("assign", task[n][k].peer, {}, plan))
    BY <1>8, Zenon DEF ReadOrphans
  <2> QED
    BY <1>0, <1>8, <1>g, <1>p, <2>1, NewTaskSound, Zenon DEF ReadOrphans
<1>9. ASSUME NEW n \in Nodes, NEW k \in Kinds, NEW d \in Devices, Assign(n, k, d) PROVE TaskFacts'
  BY <1>0, <1>9, <1>g, <1>p, NewTaskSound, SMTT(30) DEF Assign
<1>10. ASSUME NEW n \in Nodes, NEW k \in Kinds, Forget(n, k) \/ AssignError(n, k) PROVE TaskFacts'
  <2>1. \A p \in Nodes : p \notin peers'[p] \cup watched'[p]
    BY <1>10, <1>p, <1>q, Zenon DEF Forget, AssignError, Remove, Without
  <2> QED
    BY <1>0, <1>10, <1>g, <2>1, NewTaskSound, Zenon DEF Forget, AssignError
<1>11. ASSUME NEW n \in Nodes, NEW m \in net, HandleLeave(n, m) PROVE TaskFacts'
  <2>1. \A p \in Nodes : p \notin peers'[p] \cup watched'[p]
    BY <1>11, <1>p, <1>q DEF HandleLeave, Remove, Without
  <2> QED
    BY <1>0, <1>11, <1>s, <2>1, Zenon DEF HandleLeave
<1>12. ASSUME NEW n \in Nodes, Learn(n) PROVE TaskFacts'
  <2>1. \A p \in Nodes : p \notin peers'[p] \cup watched'[p]
    BY <1>12, <1>p, <1>q DEF Learn, HandleNodeJoin, HandleHeartbeat, With, Without, Noted
  <2> QED
    BY <1>0, <1>12, <1>s, <2>1, Zenon DEF Learn, HandleNodeJoin, HandleHeartbeat
<1>13. ASSUME Next PROVE TaskFacts'
  <2>1. ASSUME NEW n \in Nodes, \/ \E to \in Nodes, devs \in SUBSET Devices : Delegate(n, to, devs)
                                \/ Shutdown(n) \/ Start(n)
        PROVE  TaskFacts'
    BY <1>2, <2>1, Zenon DEF Delegate, Shutdown, Start
  <2>2. ASSUME NEW n \in Nodes, Leave(n) \/ Crash(n) PROVE TaskFacts'
    BY <1>1, <2>2, Zenon DEF Leave, Crash
  <2>3. ASSUME NEW n \in Nodes, NEW m \in net, Receive(n, m) PROVE TaskFacts'
    BY <1>2, <1>3, <1>11, <2>3, Zenon DEF Receive, RejectRequest, HandleAccept
  <2>4. ASSUME NEW n \in Nodes, ServerStep(n) PROVE TaskFacts'
    BY <1>4, <1>5, <1>6, <2>4 DEF ServerStep
  <2>5. ASSUME NEW n \in Nodes, StartStep(n) PROVE TaskFacts'
    BY <1>2, <2>5, Zenon DEF StartStep, BeginServing, ReadOwned, EnableClusterMode, ReadAwaiting, Run,
                      Claim, Reload
  <2>6. ASSUME NEW n \in Nodes, Errors(n) PROVE TaskFacts'
    BY <1>1, <1>6, <1>10, <2>6, Zenon DEF Errors, ClaimError, ReloadError
  <2>7. ASSUME NEW n \in Nodes, NEW k \in Kinds, RedistributeStep(n, k) PROVE TaskFacts'
    BY <1>8, <1>9, <1>10, <2>7 DEF RedistributeStep
  <2>8. ASSUME NEW n \in Nodes, NEW p \in Nodes, HandleDeadNode(n, p) \/ HandleNodeDead(n, p)
        PROVE  TaskFacts'
    BY <1>7, <2>8, Zenon DEF HandleDeadNode, HandleNodeDead, Kinds
  <2>9. ASSUME NEW m \in net, Lose(m) PROVE TaskFacts'
    BY <1>2, <2>9 DEF Lose
  <2> QED
    BY <1>12, <1>13, <2>1, <2>2, <2>3, <2>4, <2>5, <2>6, <2>7, <2>8, <2>9, Zenon DEF Next
<1> QED
  BY <1>2, <1>13 DEF vars

-----------------------------------------------------------------------------
(* One hand-over at a time *)

\* No step ends a dispute.
LEMMA DisputeStays == ASSUME [Next]_vars PROVE disputed \subseteq disputed'
<1>1. ASSUME NEW n \in Nodes, \/ \E to \in Nodes, devs \in SUBSET Devices : Delegate(n, to, devs)
                              \/ Shutdown(n) \/ Leave(n) \/ Crash(n) \/ Start(n) \/ Learn(n)
      PROVE  disputed \subseteq disputed'
  BY <1>1, Zenon DEF Delegate, Shutdown, Leave, Crash, Stops, Start, Learn, HandleNodeJoin, HandleHeartbeat
<1>2. ASSUME NEW n \in Nodes, NEW m \in net, Receive(n, m) PROVE disputed \subseteq disputed'
  BY <1>2, Zenon DEF Receive, RejectRequest, AcceptRequest, HandleAccept, HandleLeave
<1>3. ASSUME NEW n \in Nodes, ServerStep(n) \/ StartStep(n) PROVE disputed \subseteq disputed'
  BY <1>3, Zenon DEF ServerStep, Take, ScheduleTaken, ReplyAccept, StartStep, BeginServing, ReadOwned,
              EnableClusterMode, ReadAwaiting, Run, Claim, Reload
<1>4. ASSUME NEW n \in Nodes, Errors(n) PROVE disputed \subseteq disputed'
  BY <1>4, Zenon DEF Errors, AcceptError, ClaimError, ReloadError, AssignError, Stops
<1>5. ASSUME NEW n \in Nodes, NEW k \in Kinds, RedistributeStep(n, k) PROVE disputed \subseteq disputed'
  BY <1>5, Zenon DEF RedistributeStep, ReadOrphans, Forget, Assign
<1>6. ASSUME NEW n \in Nodes, NEW p \in Nodes, HandleDeadNode(n, p) \/ HandleNodeDead(n, p)
      PROVE  disputed \subseteq disputed'
  BY <1>6, Zenon DEF HandleDeadNode, HandleNodeDead, DeclareDead
<1>7. ASSUME NEW m \in net, Lose(m) PROVE disputed \subseteq disputed'
  BY <1>7 DEF Lose
<1>8. CASE UNCHANGED vars
  BY <1>8 DEF vars
<1> QED
  BY <1>1, <1>2, <1>3, <1>4, <1>5, <1>6, <1>7, <1>8, Zenon DEF Next

\* A device that is in no new place and has the owner it had.
LEMMA HandOverKept ==
  ASSUME NEW d \in Devices, SoleHandOver(d), owner'[d] = owner[d],
         \A m \in net' : d \in m.devs => m \in net,
         \A p \in Nodes :
           /\ d \in task'[p]["server"].devs =>
                d \in task[p]["server"].devs /\ task'[p]["server"].peer = task[p]["server"].peer
           /\ d \in task'[p]["server"].done =>
                d \in task[p]["server"].done /\ task'[p]["server"].peer = task[p]["server"].peer
  PROVE  SoleHandOver(d)'
BY SMTT(30) DEF SoleHandOver, Bears

\* A node that runs and delegates a device it holds, while no hand-over of it is
\* under way, is its owner.
LEMMA HolderOwns ==
  ASSUME CustodyExact, NEW n \in Nodes, Up(n), NEW d \in Devices \ disputed,
         d \in held[n], ~Handing(d)
  PROVE  owner[d] = n
BY Zenon DEF CustodyExact, AcceptUnderWay, Handing, Kinds

\* A request that names it once is the only place it is in.
LEMMA HandOverBegins ==
  ASSUME TypeOK, NEW d \in Devices, NEW m, ~Handing(d), UNCHANGED <<owner, task>>,
         \A x \in net' : d \in x.devs => x \in net \/ x = m,
         d \in m.devs => m.from = owner[d] /\ m.to # owner[d]
  PROVE  SoleHandOver(d)'
BY Zenon DEF SoleHandOver, Bears, Handing, Kinds

\* No step puts an undisputed device into a second hand-over.
LEMMA HandOverStep ==
  ASSUME TypeOK, TaskFacts, HandOverFacts, CustodyExact, [Next]_vars, NEW d \in Devices \ disputed'
  PROVE  SoleHandOver(d)'
<1> USE DEF db, memory, lists
<1>d. d \in Devices \ disputed /\ SoleHandOver(d)
  BY DisputeStays DEF HandOverFacts
<1>t. task \in [Nodes -> [Kinds -> Tasks]] /\ owner \in [Devices -> Nodes] /\ net \subseteq Messages
  BY Zenon DEF TypeOK
<1>k. "server" \in Kinds /\ \A n \in Nodes, k \in Kinds : TaskSound(k, task[n][k])
  BY DEF Kinds, TaskFacts
<1>0. ASSUME UNCHANGED <<owner, task>>, \A m \in net' : d \in m.devs => m \in net
      PROVE  SoleHandOver(d)'
  BY <1>0, <1>d, HandOverKept, Zenon
<1>g. ASSUME NEW n \in Nodes, NEW k \in Kinds, NEW u, Goto(n, k, u), UNCHANGED owner,
             d \in u.devs => d \in task[n][k].devs /\ u.peer = task[n][k].peer,
             d \in u.done => d \in task[n][k].done /\ u.peer = task[n][k].peer,
             \A m \in net' : d \in m.devs => m \in net
      PROVE  SoleHandOver(d)'
  <2>1. \A p \in Nodes, j \in Kinds : task'[p][j] = IF p = n /\ j = k THEN u ELSE task[p][j]
    BY <1>t, <1>g, GotoAt, SMTT(30)
  <2> QED
    BY <1>d, <1>g, <1>k, <2>1, HandOverKept, Zenon
<1>1. ASSUME NEW n \in Nodes, NEW to \in Nodes, NEW devs \in SUBSET Devices, Delegate(n, to, devs)
      PROVE  SoleHandOver(d)'
  <2>1. CASE d \notin devs
    BY <1>0, <1>1, <2>1, SMTT(30) DEF Delegate, Request, Message
  <2>2. CASE d \in devs
    <3>1. to # n /\ ~Handing(d) /\ Up(n) /\ d \in held[n]
      BY <1>1, <2>2, Zenon DEF Delegate, Up
    <3>2. owner[d] = n
      BY <1>d, <3>1, HolderOwns, Zenon
    <3>3. LET m == Request(n, to, devs, "rebalance") IN net' = net \cup {m} /\ m.from = n /\ m.to = to
      BY <1>1, Zenon DEF Delegate, Request, Message
    <3> QED
      BY <1>1, <3>1, <3>2, <3>3, HandOverBegins, Zenon DEF Delegate
  <2> QED
    BY <2>1, <2>2
<1>2. ASSUME NEW n \in Nodes, Shutdown(n) PROVE SoleHandOver(d)'
  <2>1. CASE UNCHANGED net
    BY <1>0, <1>2, <2>1, Zenon DEF Shutdown
  <2>2. CASE \E targets \in SUBSET watched[n] \ {{}} : \E f \in Chunked(held[n], targets) :
               net' = net \cup {Request(n, t, Share(f, t), "shutdown") : t \in {f[e] : e \in held[n]}}
    <3>1. PICK targets \in SUBSET watched[n] \ {{}} : \E f \in Chunked(held[n], targets) :
            net' = net \cup {Request(n, t, Share(f, t), "shutdown") : t \in {f[e] : e \in held[n]}}
      BY <2>2, Zenon
    <3>2. PICK f \in Chunked(held[n], targets) :
            net' = net \cup {Request(n, t, Share(f, t), "shutdown") : t \in {f[e] : e \in held[n]}}
      BY <3>1, SMTT(30)
    <3>3. f \in [held[n] -> targets] /\ n \notin targets
      BY <3>1, <3>2, Zenon DEF Chunked, TaskFacts
    <3>4. ASSUME NEW m \in net', d \in m.devs, m \notin net
          PROVE  d \in held[n] /\ m = Request(n, f[d], Share(f, f[d]), "shutdown")
      <4>1. PICK t \in {f[e] : e \in held[n]} : m = Request(n, t, Share(f, t), "shutdown")
        BY <3>2, <3>4, Zenon
      <4>2. d \in Share(f, t)
        BY <3>4, <4>1, Zenon DEF Request, Message
      <4>3. d \in held[n] /\ f[d] = t
        BY <3>3, <4>2, Zenon DEF Share
      <4> QED
        BY <4>1, <4>3, Zenon
    <3>5. CASE d \notin held[n]
      BY <1>0, <1>2, <3>4, <3>5, Zenon DEF Shutdown
    <3>6. CASE d \in held[n]
      <4>1. ~Handing(d) /\ Up(n)
        BY <1>2, <3>6, Zenon DEF Shutdown, Up
      <4>2. owner[d] = n
        BY <1>d, <3>6, <4>1, HolderOwns, Zenon
      <4>3. LET m == Request(n, f[d], Share(f, f[d]), "shutdown") IN m.from = n /\ m.to = f[d] /\ f[d] # n
        BY <3>3, <3>6, Zenon DEF Request, Message
      <4> QED
        BY <1>2, <3>4, <4>1, <4>2, <4>3, HandOverBegins, Zenon DEF Shutdown
    <3> QED
      BY <3>5, <3>6, Zenon
  <2> QED
    BY <1>2, <2>1, <2>2, Zenon DEF Shutdown
<1>3. ASSUME NEW n \in Nodes, Stops(n), UNCHANGED owner, \A m \in net' : d \in m.devs => m \in net
      PROVE  SoleHandOver(d)'
  <2>1. \A p \in Nodes, j \in Kinds : task'[p][j] = IF p = n THEN Idle ELSE task[p][j]
    BY <1>3, <1>t, StopsAt, Zenon
  <2>2. Idle.devs = {} /\ Idle.done = {}
    BY Zenon DEF Idle, Accepting
  <2> QED
    BY <1>3, <1>d, <1>k, <2>1, <2>2, HandOverKept, Zenon
<1>4. ASSUME NEW n \in Nodes, Leave(n) PROVE SoleHandOver(d)'
  <2>1. \A m \in net' : d \in m.devs => m \in net
    BY <1>4, SMTT(30) DEF Leave, NodeLeave, Message
  <2> QED
    BY <1>3, <1>4, <2>1, SMTT(30) DEF Leave
<1>5. ASSUME NEW n \in Nodes, NEW m \in net, Receive(n, m) PROVE SoleHandOver(d)'
  <2>1. CASE RejectRequest(n, m)
    BY <1>0, <2>1 DEF RejectRequest
  <2>2. CASE (HandleAccept(n, m) \/ HandleLeave(n, m)) /\ net' = net \ {m}
    BY <1>0, <2>2, Zenon DEF HandleAccept, HandleLeave
  <2>3. CASE AcceptRequest(n, m)
    <3> DEFINE u == Accepting("accept", m.from, m.devs, {}, None)
    <3>0. u.devs = m.devs /\ u.done = {} /\ u.peer = m.from
      BY Zenon DEF Accepting
    <3>1. CASE d \notin m.devs
      BY <1>g, <1>k, <2>3, <3>0, <3>1, Zenon DEF AcceptRequest
    <3>2. CASE d \in m.devs
      <4> HIDE DEF u
      <4>1. \A p \in Nodes, j \in Kinds : task'[p][j] = IF p = n /\ j = "server" THEN u ELSE task[p][j]
        BY <1>t, <1>k, <2>3, GotoAt, SMTT(30) DEF AcceptRequest, u
      <4>2. net' = net \ {m} /\ UNCHANGED owner /\ m.to = n
        BY <1>5, <2>3, Zenon DEF AcceptRequest, Receive
      <4>3. \A x \in net' : d \notin x.devs
        BY <1>d, <3>2, <4>2, Zenon DEF SoleHandOver
      <4>4. \A p \in Nodes : p # n => ~Bears(p, d)'
        BY <1>d, <1>k, <3>2, <4>1, SMTT(30) DEF SoleHandOver, Bears
      <4>5. m.from = owner[d] /\ n # owner[d]
        BY <1>d, <3>2, <4>2, Zenon DEF SoleHandOver
      <4>6. task'[n]["server"] = u
        BY <4>1, <1>k
      <4> QED
        BY <3>0, <4>2, <4>3, <4>4, <4>5, <4>6, Zenon DEF SoleHandOver, Bears
    <3> QED
      BY <3>1, <3>2
  <2> QED
    BY <1>5, <2>1, <2>2, <2>3, Zenon DEF Receive
<1>6. ASSUME NEW n \in Nodes, NEW e \in Devices, Take(n, e) PROVE SoleHandOver(d)'
  <2> DEFINE t == task[n]["server"]
              u == Accepting("schedule", t.peer, t.devs \ {e}, t.done \cup {e}, e)
  <2>0. u.devs = t.devs \ {e} /\ u.done = t.done \cup {e} /\ u.peer = t.peer
    BY Zenon DEF Accepting
  <2>1. owner' = [owner EXCEPT ![e] = n] /\ UNCHANGED net /\ Goto(n, "server", u) /\ e \in t.devs
    BY <1>6, ZenonT(30), SMTT(30) DEF Take, Own
  <2>2. \A p \in Nodes, j \in Kinds : task'[p][j] = IF p = n /\ j = "server" THEN u ELSE task[p][j]
    BY <1>t, <1>k, <2>1, GotoAt, SMTT(30)
  <2>u. task'[n]["server"] = u /\ \A p \in Nodes : p # n => task'[p]["server"] = task[p]["server"]
    BY <2>2, <1>k, Zenon
  <2> HIDE DEF u
  <2>3. CASE e # d
    <3>1. owner'[d] = owner[d]
      BY <1>t, <2>1, <2>3, Zenon
    <3> QED
      BY <1>d, <2>0, <2>1, <2>u, <2>3, <3>1, HandOverKept, SMTT(30)
  <2>4. CASE e = d
    <3>1. owner'[d] = n
      BY <1>t, <2>1, <2>4, Zenon
    <3>2. Bears(n, d) /\ t.peer # n
      BY <1>d, <2>1, <2>4, Zenon DEF SoleHandOver, Bears
    <3>3. \A m \in net' : d \notin m.devs
      BY <1>d, <2>1, <3>2, Zenon DEF SoleHandOver
    <3>4. \A p \in Nodes : p # n => ~Bears(p, d)'
      BY <1>d, <2>u, <3>2, Zenon DEF SoleHandOver, Bears
    <3> QED
      BY <2>0, <2>u, <2>4, <3>1, <3>2, <3>3, <3>4, Zenon DEF SoleHandOver, Bears
  <2> QED
    BY <2>3, <2>4
<1>7. ASSUME NEW n \in Nodes, ScheduleTaken(n) PROVE SoleHandOver(d)'
  <2> DEFINE t == task[n]["server"]
              u == Accepting(IF t.devs = {} THEN "reply" ELSE "accept", t.peer, t.devs, t.done, None)
  <2>1. u.devs = t.devs /\ u.done = t.done /\ u.peer = t.peer
    BY Zenon DEF Accepting
  <2>2. Goto(n, "server", u) /\ UNCHANGED <<owner, net>>
    BY <1>7, Zenon DEF ScheduleTaken
  <2> HIDE DEF u
  <2> QED
    BY <1>g, <1>k, <2>1, <2>2, Zenon
<1>8. ASSUME NEW n \in Nodes, ReplyAccept(n) PROVE SoleHandOver(d)'
  <2> DEFINE t == task[n]["server"]
              m == Accept(n, t.peer, t.done)
  <2>0. Idle.devs = {} /\ Idle.done = {} /\ m.devs = t.done /\ m.from = n /\ m.to = t.peer
    BY Zenon DEF Idle, Accepting, Accept, Message
  <2>1. net' = net \cup {m} /\ Goto(n, "server", Idle) /\ UNCHANGED owner
    BY <1>8, Zenon DEF ReplyAccept
  <2> HIDE DEF m
  <2>2. CASE d \notin t.done
    BY <1>g, <1>k, <2>0, <2>1, <2>2, ZenonT(30), SMTT(30)
  <2>3. CASE d \in t.done
    <3>1. /\ task'[n]["server"] = Idle
          /\ \A p \in Nodes : p # n => task'[p]["server"] = task[p]["server"]
      BY <1>t, <1>k, <2>1, GotoAt, SMTT(30)
    <3>2. Bears(n, d) /\ owner[d] = n /\ t.peer # n
      BY <1>d, <2>3, Zenon DEF SoleHandOver, Bears
    <3>3. \A p \in Nodes : ~Bears(p, d)'
      BY <1>d, <2>0, <3>1, <3>2, Zenon DEF SoleHandOver, Bears
    <3>4. \A x \in net' : d \in x.devs => x = m
      BY <1>d, <2>1, <3>2, Zenon DEF SoleHandOver
    <3>5. owner'[d] = n
      BY <2>1, <3>2, Zenon
    <3> QED
      BY <2>0, <3>2, <3>3, <3>4, <3>5, Zenon DEF SoleHandOver, Bears
  <2> QED
    BY <2>2, <2>3, Zenon
<1>9. ASSUME NEW n \in Nodes, AcceptError(n) PROVE SoleHandOver(d)'
  BY <1>9, <1>g, <1>k, Zenon DEF AcceptError, Idle, Accepting
<1>10. ASSUME NEW n \in Nodes, NEW k \in Kinds,
              \/ \E p \in Nodes : DeclareDead(n, k, p)
              \/ ReadOrphans(n, k) \/ Forget(n, k) \/ AssignError(n, k)
       PROVE  SoleHandOver(d)'
  <2>1. UNCHANGED <<owner, net>> /\ \E u : Goto(n, k, u) /\ u.devs = {} /\ u.done = {}
    <3>0. /\ Idle.devs = {} /\ Idle.done = {}
          /\ \A pc, peer, nodes, plan : LET u == Redistributing(pc, peer, nodes, plan) IN
               u.devs = {} /\ u.done = {}
      BY Zenon DEF Redistributing, Idle, Accepting
    <3>1. CASE \E p \in Nodes : DeclareDead(n, k, p)
      BY <3>0, <3>1, Zenon DEF DeclareDead
    <3>2. CASE ReadOrphans(n, k)
      BY <3>0, <3>2, SMTT(30) DEF ReadOrphans
    <3>3. CASE Forget(n, k) \/ AssignError(n, k)
      BY <3>0, <3>3, Zenon DEF Forget, AssignError
    <3> QED
      BY <1>10, <3>1, <3>2, <3>3, Zenon
  <2> QED
    BY <1>g, <2>1, Zenon
<1>11. ASSUME NEW n \in Nodes, NEW k \in Kinds, NEW e \in Devices, Assign(n, k, e)
       PROVE  SoleHandOver(d)'
  <2>1. e # d /\ UNCHANGED net /\ owner'[d] = owner[d]
    BY <1>11, <1>t, Zenon DEF Assign, Own
  <2>2. PICK u : Goto(n, k, u) /\ u.devs = {} /\ u.done = {}
    BY <1>11, SMTT(30) DEF Assign, Redistributing
  <2>3. \A p \in Nodes, j \in Kinds : task'[p][j] = IF p = n /\ j = k THEN u ELSE task[p][j]
    BY <1>t, <2>2, GotoAt, SMTT(30)
  <2> QED
    BY <1>d, <1>k, <2>1, <2>2, <2>3, HandOverKept, Zenon
<1>12. ASSUME NEW n \in Nodes, NEW e \in Devices, Claim(n, e) PROVE SoleHandOver(d)'
  <2>1. owner'[d] = owner[d] /\ UNCHANGED <<net, task>>
    BY <1>12, <1>t, Zenon DEF Claim, Own
  <2> QED
    BY <1>d, <2>1, HandOverKept, Zenon
<1>13. ASSUME NEW n \in Nodes, StartStep(n) PROVE SoleHandOver(d)'
  BY <1>0, <1>12, <1>13, Zenon DEF StartStep, BeginServing, ReadOwned, EnableClusterMode, ReadAwaiting, Run, Reload
<1>14. ASSUME NEW n \in Nodes, Errors(n) PROVE SoleHandOver(d)'
  BY <1>3, <1>9, <1>10, <1>14, Zenon DEF Errors, ClaimError, ReloadError
<1>15. ASSUME NEW n \in Nodes, Crash(n) \/ Start(n) \/ Learn(n) PROVE SoleHandOver(d)'
  BY <1>0, <1>3, <1>15, Zenon DEF Crash, Start, Learn, HandleNodeJoin, HandleHeartbeat
<1>16. ASSUME NEW m \in net, Lose(m) PROVE SoleHandOver(d)'
  BY <1>0, <1>16, Zenon DEF Lose
<1>17. CASE UNCHANGED vars
  BY <1>0, <1>17, Zenon DEF vars
<1>18. ASSUME NEW n \in Nodes, NEW k \in Kinds, RedistributeStep(n, k) PROVE SoleHandOver(d)'
  BY <1>10, <1>11, <1>18, Zenon DEF RedistributeStep
<1>19. ASSUME NEW n \in Nodes, NEW p \in Nodes, HandleDeadNode(n, p) \/ HandleNodeDead(n, p)
       PROVE  SoleHandOver(d)'
  BY <1>10, <1>19, Zenon DEF HandleDeadNode, HandleNodeDead, Kinds
<1>20. ASSUME NEW n \in Nodes, ServerStep(n) PROVE SoleHandOver(d)'
  BY <1>6, <1>7, <1>8, <1>20, Zenon DEF ServerStep
<1> QED
  BY <1>1, <1>2, <1>4, <1>5, <1>13, <1>14, <1>15, <1>16, <1>17, <1>18, <1>19, <1>20, Zenon DEF Next
=============================================================================
