--------------------------- MODULE OwnershipProofs --------------------------
(***************************************************************************)
(* Proofs about Ownership, second part: custody, the jobs of owners, and   *)
(* the refinement of module Custody.                                       *)
(***************************************************************************)
EXTENDS OwnershipFacts

CustodyOf(n, d) ==
  /\ owner[d] = n => d \in held[n]
  /\ d \in held[n] /\ owner[d] # n => AcceptUnderWay(n, d)

\* Nothing happens to the custody of a device if its owner and its place in the
\* node's memory stay, and no answer that is due gets lost.
LEMMA CustodyKept ==
  ASSUME NEW n \in Nodes, NEW d \in Devices, CustodyOf(n, d), owner'[d] = owner[d],
         d \in held'[n] <=> d \in held[n],
         \A m \in net : m.type = "accept" /\ m.to = n /\ d \in m.devs => m \in net',
         \A p \in Nodes : d \in task[p]["server"].done =>
           d \in task'[p]["server"].done /\ task'[p]["server"].peer = task[p]["server"].peer
  PROVE  CustodyOf(n, d)'
BY Zenon DEF CustodyOf, AcceptUnderWay

\* Every step keeps the custody of undisputed devices.
LEMMA CustodyStep ==
  ASSUME Facts, [Next]_vars, NEW n \in Nodes, NEW d \in Devices \ disputed', Up(n)'
  PROVE  CustodyOf(n, d)'
<1> USE DEF db, memory, lists
<1>d. d \in Devices \ disputed /\ SoleHandOver(d)
  BY DisputeStays DEF Facts, HandOverFacts
<1>c. Up(n) => CustodyOf(n, d)
  BY <1>d, Zenon DEF Facts, CustodyExact, CustodyOf
<1>t. /\ task \in [Nodes -> [Kinds -> Tasks]] /\ owner \in [Devices -> Nodes] /\ net \subseteq Messages
      /\ held \in [Nodes -> SUBSET Devices] /\ phase \in [Nodes -> Phases]
  BY Zenon DEF Facts, TypeOK
<1>k. "server" \in Kinds /\ \A p \in Nodes, k \in Kinds : TaskSound(k, task[p][k])
  BY DEF Kinds, Facts, TaskFacts
<1>0. ASSUME Up(n), UNCHANGED <<owner, task, held>>,
             \A m \in net : m.type = "accept" /\ m.to = n /\ d \in m.devs => m \in net'
      PROVE  CustodyOf(n, d)'
  BY <1>0, <1>c, CustodyKept, Zenon
<1>g. ASSUME NEW q \in Nodes, NEW k \in Kinds, NEW u, Goto(q, k, u), Up(n), owner'[d] = owner[d],
             d \in held'[n] <=> d \in held[n],
             k = "server" /\ d \in task[q][k].done => d \in u.done /\ u.peer = task[q][k].peer,
             \A m \in net : m.type = "accept" /\ m.to = n /\ d \in m.devs => m \in net'
      PROVE  CustodyOf(n, d)'
  <2>1. \A p \in Nodes, j \in Kinds : task'[p][j] = IF p = q /\ j = k THEN u ELSE task[p][j]
    BY <1>t, <1>g, GotoAt
  <2> QED
    BY <1>c, <1>g, <1>k, <2>1, CustodyKept
<1>1. ASSUME NEW q \in Nodes, \/ \E to \in Nodes, devs \in SUBSET Devices : Delegate(q, to, devs)
                              \/ Shutdown(q) \/ Learn(q)
      PROVE  CustodyOf(n, d)'
  <2>1. Up(n)
    BY <1>1, <1>t, Zenon DEF Delegate, Shutdown, Learn, HandleNodeJoin, HandleHeartbeat, Up
  <2> QED
    BY <1>0, <1>1, <2>1, Zenon DEF Delegate, Shutdown, Learn, HandleNodeJoin, HandleHeartbeat
<1>2. ASSUME NEW q \in Nodes, Stops(q), UNCHANGED owner, \A m \in net : m \in net'
      PROVE  CustodyOf(n, d)'
  <2>1. q # n /\ Up(n) /\ held'[n] = held[n]
    BY <1>2, <1>t, Zenon DEF Stops, Up
  <2>2. \A p \in Nodes, j \in Kinds : task'[p][j] = IF p = q THEN Idle ELSE task[p][j]
    BY <1>2, <1>t, StopsAt, Zenon
  <2>3. d \notin task[q]["server"].done
    BY <1>2, <1>k, Zenon DEF Stops, Taken
  <2> QED
    BY <1>2, <1>c, <1>k, <2>1, <2>2, <2>3, CustodyKept, Zenon
<1>3. ASSUME NEW q \in Nodes, Start(q) PROVE CustodyOf(n, d)'
  <2>1. CASE q = n
    BY <1>3, <1>t, <2>1, Zenon DEF Start, CustodyOf
  <2>2. CASE q # n
    <3>1. Up(n) /\ held'[n] = held[n]
      BY <1>3, <1>t, <2>2, Zenon DEF Start, Up
    <3> QED
      BY <1>3, <1>c, <3>1, CustodyKept, Zenon DEF Start
  <2> QED
    BY <2>1, <2>2, Zenon
<1>4. ASSUME NEW q \in Nodes, NEW m \in net, Receive(q, m) PROVE CustodyOf(n, d)'
  <2>1. CASE RejectRequest(q, m)
    BY <1>0, <2>1, Zenon DEF RejectRequest, Up
  <2>2. CASE HandleLeave(q, m) /\ net' = net \ {m}
    BY <1>0, <2>2, Zenon DEF HandleLeave, Up
  <2>3. CASE AcceptRequest(q, m)
    <3>1. task[q]["server"].done = {}
      BY <1>4, <1>k, Zenon DEF Receive, TaskSound
    <3> QED
      BY <1>g, <1>k, <2>3, <3>1, Zenon DEF AcceptRequest, Up
  <2>4. CASE HandleAccept(q, m) /\ net' = net \ {m}
    <3>1. Up(n) /\ UNCHANGED <<owner, task>> /\ m.to = q
      BY <1>4, <2>4, Zenon DEF HandleAccept, Receive, Up
    <3>2. CASE q = n /\ d \in m.devs
      <4>1. owner[d] # n /\ d \notin held'[n]
        BY <1>d, <1>t, <2>4, <3>1, <3>2, Zenon DEF SoleHandOver, HandleAccept
      <4> QED
        BY <3>1, <4>1, Zenon DEF CustodyOf
    <3>3. CASE q # n \/ d \notin m.devs
      <4>1. d \in held'[n] <=> d \in held[n]
        BY <1>t, <2>4, <3>3, Zenon DEF HandleAccept
      <4> QED
        BY <1>c, <2>4, <3>1, <3>3, <4>1, CustodyKept, Zenon
    <3> QED
      BY <3>2, <3>3, Zenon
  <2> QED
    BY <1>4, <2>1, <2>2, <2>3, <2>4, Zenon DEF Receive
<1>5. ASSUME NEW q \in Nodes, NEW e \in Devices, Take(q, e) PROVE CustodyOf(n, d)'
  <2> DEFINE t == task[q]["server"]
              u == Accepting("schedule", t.peer, t.devs \ {e}, t.done \cup {e}, e)
  <2>0. u.done = t.done \cup {e} /\ u.peer = t.peer
    BY Zenon DEF Accepting
  <2>1. /\ Up(n) /\ UNCHANGED net /\ Goto(q, "server", u) /\ e \in t.devs
        /\ owner' = [owner EXCEPT ![e] = q] /\ held' = [held EXCEPT ![q] = @ \cup {e}]
    BY <1>5, Zenon DEF Take, Own, Hold, Up
  <2>2. task'[q]["server"] = u
    BY <1>t, <1>k, <2>1, GotoAt, SMTT(30)
  <2> HIDE DEF u
  <2>3. CASE e # d
    <3>1. owner'[d] = owner[d] /\ (d \in held'[n] <=> d \in held[n])
      BY <1>t, <2>1, <2>3, Zenon
    <3> QED
      BY <1>g, <1>k, <2>0, <2>1, <3>1, Zenon
  <2>4. CASE e = d /\ n = q
    <3>1. owner'[d] = n /\ d \in held'[n]
      BY <1>t, <2>1, <2>4, Zenon
    <3> QED
      BY <3>1, Zenon DEF CustodyOf
  <2>5. CASE e = d /\ n # q
    <3>1. owner'[d] = q /\ held'[n] = held[n]
      BY <1>t, <2>1, <2>5, Zenon
    <3>2. t.peer = owner[d] /\ ~AcceptUnderWay(n, d)
      BY <1>d, <2>1, <2>5, Zenon DEF SoleHandOver, Bears, AcceptUnderWay
    <3>3. d \in held[n] => t.peer = n
      BY <1>c, <2>1, <3>2, Zenon DEF CustodyOf
    <3>4. d \in held[n] => AcceptUnderWay(n, d)'
      BY <2>0, <2>2, <2>5, <3>3, Zenon DEF AcceptUnderWay
    <3> QED
      BY <2>5, <3>1, <3>4, Zenon DEF CustodyOf
  <2> QED
    BY <2>3, <2>4, <2>5, Zenon
<1>6. ASSUME NEW q \in Nodes, ScheduleTaken(q) PROVE CustodyOf(n, d)'
  <2> DEFINE t == task[q]["server"]
              u == Accepting(IF t.devs = {} THEN "reply" ELSE "accept", t.peer, t.devs, t.done, None)
  <2>1. u.done = t.done /\ u.peer = t.peer
    BY Zenon DEF Accepting
  <2>2. Goto(q, "server", u) /\ UNCHANGED <<owner, net, held, phase>>
    BY <1>6, Zenon DEF ScheduleTaken
  <2> HIDE DEF u
  <2> QED
    BY <1>g, <1>k, <2>1, <2>2, Zenon DEF Up
<1>7. ASSUME NEW q \in Nodes, ReplyAccept(q) PROVE CustodyOf(n, d)'
  <2> DEFINE t == task[q]["server"]
              m == Accept(q, t.peer, t.done)
  <2>1. /\ net' = net \cup {m} /\ UNCHANGED <<owner, held, phase>>
        /\ m.type = "accept" /\ m.to = t.peer /\ m.devs = t.done
    BY <1>7, Zenon DEF ReplyAccept, Accept, Message
  <2>2. \A p \in Nodes : p # q => task'[p]["server"] = task[p]["server"]
    BY <1>7, <1>t, <1>k, GotoAt DEF ReplyAccept
  <2> HIDE DEF m
  <2>3. AcceptUnderWay(n, d) => AcceptUnderWay(n, d)'
    BY <2>1, <2>2, Zenon DEF AcceptUnderWay
  <2> QED
    BY <1>c, <2>1, <2>3, Zenon DEF CustodyOf, Up
<1>8. ASSUME NEW q \in Nodes, AcceptError(q) PROVE CustodyOf(n, d)'
  BY <1>g, <1>k, <1>8, Zenon DEF AcceptError, Up
<1>9. ASSUME NEW q \in Nodes, NEW k \in Kinds,
             \/ \E p \in Nodes : DeclareDead(q, k, p)
             \/ ReadOrphans(q, k) \/ Forget(q, k) \/ AssignError(q, k)
      PROVE  CustodyOf(n, d)'
  <2>1. UNCHANGED <<owner, net, held, phase>> /\ \E u : Goto(q, k, u)
    <3>1. CASE \E p \in Nodes : DeclareDead(q, k, p)
      BY <3>1, Zenon DEF DeclareDead
    <3>2. CASE ReadOrphans(q, k)
      BY <3>2, Zenon DEF ReadOrphans
    <3>3. CASE Forget(q, k) \/ AssignError(q, k)
      BY <3>3, Zenon DEF Forget, AssignError
    <3> QED
      BY <1>9, <3>1, <3>2, <3>3, Zenon
  <2>2. task[q][k].done = {}
    BY <1>9, <1>k, Zenon DEF DeclareDead, ReadOrphans, Forget, AssignError, TaskSound
  <2> QED
    BY <1>g, <2>1, <2>2, Zenon DEF Up
<1>10. ASSUME NEW q \in Nodes, NEW k \in Kinds, NEW e \in Devices, Assign(q, k, e)
       PROVE  CustodyOf(n, d)'
  <2>1. e # d /\ UNCHANGED <<net, phase>> /\ owner'[d] = owner[d] /\ (d \in held'[n] <=> d \in held[n])
    BY <1>10, <1>t, SMTT(30) DEF Assign, Own, Hold
  <2>2. task[q][k].done = {} /\ \E u : Goto(q, k, u)
    BY <1>10, <1>k, Zenon DEF Assign, TaskSound
  <2> QED
    BY <1>g, <2>1, <2>2, Zenon DEF Up
<1>11. ASSUME NEW q \in Nodes, NEW e \in Devices, Claim(q, e) PROVE CustodyOf(n, d)'
  <2>1. /\ Up(n) /\ UNCHANGED <<net, task>> /\ owner'[d] = owner[d]
        /\ e = d => owner[d] = q
        /\ held' = [held EXCEPT ![q] = @ \cup {e}]
    BY <1>11, <1>t, Zenon DEF Claim, Own, Hold, Up
  <2>2. CASE e = d /\ q = n
    BY <1>t, <2>1, <2>2, Zenon DEF CustodyOf
  <2>3. CASE e # d \/ q # n
    <3>1. d \in held'[n] <=> d \in held[n]
      BY <1>t, <2>1, <2>3, Zenon
    <3> QED
      BY <1>c, <2>1, <3>1, CustodyKept, Zenon
  <2> QED
    BY <2>2, <2>3, Zenon
<1>12. ASSUME NEW q \in Nodes, StartStep(q) PROVE CustodyOf(n, d)'
  <2>1. CASE \E e \in Devices : Claim(q, e)
    BY <1>11, <2>1, Zenon
  <2>2. CASE \/ BeginServing(q) \/ ReadOwned(q) \/ EnableClusterMode(q) \/ ReadAwaiting(q) \/ Run(q)
             \/ \E e \in Devices : Reload(q, e)
    <3>1. UNCHANGED <<owner, task, held, net>> /\ Up(n)
      BY <1>t, <2>2, Zenon DEF BeginServing, ReadOwned, EnableClusterMode, ReadAwaiting, Run, Reload, Up
    <3> QED
      BY <1>0, <3>1, Zenon
  <2> QED
    BY <1>12, <2>1, <2>2, Zenon DEF StartStep
<1>13. ASSUME NEW m \in net, Lose(m) PROVE CustodyOf(n, d)'
  BY <1>0, <1>13, Zenon DEF Lose, Up
<1>14. ASSUME NEW q \in Nodes, Errors(q) PROVE CustodyOf(n, d)'
  BY <1>2, <1>8, <1>9, <1>14, Zenon DEF Errors, ClaimError, ReloadError
<1>15. ASSUME NEW q \in Nodes, Leave(q) \/ Crash(q) PROVE CustodyOf(n, d)'
  BY <1>2, <1>15, Zenon DEF Leave, Crash
<1>16. CASE UNCHANGED vars
  BY <1>0, <1>16, Zenon DEF vars, Up
<1>17. ASSUME NEW q \in Nodes, NEW k \in Kinds, RedistributeStep(q, k) PROVE CustodyOf(n, d)'
  BY <1>9, <1>10, <1>17, Zenon DEF RedistributeStep
<1>18. ASSUME NEW q \in Nodes, NEW p \in Nodes, HandleDeadNode(q, p) \/ HandleNodeDead(q, p)
       PROVE  CustodyOf(n, d)'
  BY <1>9, <1>18, Zenon DEF HandleDeadNode, HandleNodeDead, Kinds
<1>19. ASSUME NEW q \in Nodes, ServerStep(q) PROVE CustodyOf(n, d)'
  BY <1>5, <1>6, <1>7, <1>19, Zenon DEF ServerStep
<1> QED
  BY <1>1, <1>3, <1>4, <1>12, <1>13, <1>14, <1>15, <1>16, <1>17, <1>18, <1>19, Zenon DEF Next

-----------------------------------------------------------------------------
(* The invariant *)

\* The inductive invariant holds at the start.
LEMMA FactsInit == ASSUME Init PROVE Facts
<1>1. TypeOK
  <2>1. task \in [Nodes -> [Kinds -> Tasks]]
    BY IdleType, Zenon DEF Init
  <2> QED
    BY <2>1, Zenon DEF Init, TypeOK, Phases
<1>2. TaskFacts
  BY NewTaskSound, Zenon DEF Init, TaskFacts
<1>3. HandOverFacts
  BY Zenon DEF Init, HandOverFacts, SoleHandOver, Bears, Idle, Accepting, Kinds
<1>4. CustodyExact
  BY Zenon DEF Init, CustodyExact
<1> QED
  BY <1>1, <1>2, <1>3, <1>4, Zenon DEF Facts

\* Every step keeps the inductive invariant.
LEMMA FactsStep == ASSUME Facts, [Next]_vars PROVE Facts'
<1>1. TypeOK' /\ TaskFacts'
  BY TypeStep, TaskStep DEF Facts
<1>2. HandOverFacts'
  BY HandOverStep, Zenon DEF Facts, HandOverFacts
<1>3. CustodyExact'
  BY CustodyStep DEF CustodyExact, CustodyOf
<1> QED
  BY <1>1, <1>2, <1>3, Zenon DEF Facts

\* Tables, memories, tasks and datagrams keep their types, for any sets of nodes
\* and devices and any number of delegations, stops and errors.
THEOREM TypeCorrect == Spec => []TypeOK
<1>1. Facts => TypeOK
  BY DEF Facts
<1> QED
  BY <1>1, FactsInit, FactsStep, PTL DEF Spec

\* The owner of an undisputed device in T_BUCKETS has it in owned_devices, and who
\* else has it is about to be told (accept_delegation, handle_delegation_accept), for
\* any sets of nodes and devices and any number of delegations, stops and errors.
THEOREM CustodyHolds == Spec => []CustodyExact
<1>1. Facts => CustodyExact
  BY DEF Facts
<1> QED
  BY <1>1, FactsInit, FactsStep, PTL DEF Spec

\* An undisputed device is part of one hand-over at a time (delegation.rs): a second
\* one can only begin as a dispute.
THEOREM OneHandOver == Spec => []HandOverFacts
<1>1. Facts => HandOverFacts
  BY DEF Facts
<1> QED
  BY <1>1, FactsInit, FactsStep, PTL DEF Spec

-----------------------------------------------------------------------------
(* The refinement of Custody *)

Running == {n \in Nodes : Up(n)}

\* The phases of a start and of a shutdown are those of a process that runs.
LEMMA RunningKept ==
  ASSUME TypeOK, NEW n \in Nodes, NEW v, phase[n] # "down", v # "down",
         phase' = [phase EXCEPT ![n] = v]
  PROVE  Running' = Running /\ \A p \in Nodes : Up(p) => Up(p)'
BY Zenon DEF TypeOK, Up, Running

\* A task at work belongs to a process that runs: the tasks end with it.
TasksRun == \A n \in Nodes, k \in Kinds : task[n][k].pc # "idle" => Up(n)

\* A task begins in a serving process, and goes on in a running one.
LEMMA TasksRunStep ==
  ASSUME TypeOK, TasksRun, [Next]_vars
  PROVE  TasksRun'
<1> USE DEF db, memory, lists
<1>t. task \in [Nodes -> [Kinds -> Tasks]] /\ phase \in [Nodes -> Phases] /\ "server" \in Kinds
  BY Zenon DEF TypeOK, Kinds
<1>0. ASSUME UNCHANGED task, \A p \in Nodes : Up(p) => Up(p)' PROVE TasksRun'
  BY <1>0, Zenon DEF TasksRun
<1>p. ASSUME UNCHANGED phase PROVE \A p \in Nodes : Up(p) => Up(p)'
  BY <1>p, Zenon DEF Up
<1>g. ASSUME NEW n \in Nodes, NEW k \in Kinds, NEW t, Goto(n, k, t), Up(n), UNCHANGED phase
      PROVE  TasksRun'
  <2>1. \A p \in Nodes, j \in Kinds : p = n \/ task'[p][j] = task[p][j]
    BY <1>t, <1>g, GotoAt, SMTT(30)
  <2> QED
    BY <1>g, <1>p, <2>1, Zenon DEF TasksRun
<1>s. ASSUME NEW n \in Nodes, Stops(n) PROVE TasksRun'
  <2>1. \A p \in Nodes, j \in Kinds : task'[p][j] = IF p = n THEN Idle ELSE task[p][j]
    BY <1>t, <1>s, StopsAt, Zenon
  <2>2. Idle.pc = "idle" /\ \A p \in Nodes : p # n => phase'[p] = phase[p]
    BY <1>t, <1>s, Zenon DEF Idle, Accepting, Stops
  <2> QED
    BY <2>1, <2>2, Zenon DEF TasksRun, Up
<1>1. ASSUME NEW n \in Nodes, \/ \E to \in Nodes, devs \in SUBSET Devices : Delegate(n, to, devs)
                              \/ Learn(n) \/ \E d \in Devices : Claim(n, d) \/ Reload(n, d)
      PROVE  TasksRun'
  BY <1>0, <1>1, <1>p, Zenon DEF Delegate, Learn, HandleNodeJoin, HandleHeartbeat, Claim, Reload
<1>2. ASSUME NEW n \in Nodes, Shutdown(n) \/ BeginServing(n) \/ ReadOwned(n) \/ EnableClusterMode(n)
                                \/ ReadAwaiting(n) \/ Run(n)
      PROVE  TasksRun'
  <2>1. \E v : phase[n] # "down" /\ v # "down" /\ phase' = [phase EXCEPT ![n] = v]
    BY <1>2, Zenon DEF Shutdown, BeginServing, ReadOwned, EnableClusterMode, ReadAwaiting, Run
  <2>2. \A p \in Nodes : Up(p) => Up(p)'
    BY <2>1, RunningKept, Zenon
  <2> QED
    BY <1>0, <1>2, <2>2, Zenon
       DEF Shutdown, BeginServing, ReadOwned, EnableClusterMode, ReadAwaiting, Run
<1>3. ASSUME NEW n \in Nodes, Leave(n) \/ Crash(n) \/ ClaimError(n) \/ ReloadError(n) PROVE TasksRun'
  BY <1>3, <1>s, Zenon DEF Leave, Crash, ClaimError, ReloadError
<1>4. ASSUME NEW n \in Nodes, Start(n) PROVE TasksRun'
  <2>1. \A p \in Nodes : Up(p) => Up(p)'
    BY <1>4, <1>t, Zenon DEF Start, Up
  <2> QED
    BY <1>0, <1>4, <2>1, Zenon DEF Start
<1>5. ASSUME NEW n \in Nodes, NEW m \in net, Receive(n, m) PROVE TasksRun'
  <2>1. CASE AcceptRequest(n, m)
    BY <1>5, <1>g, <1>t, <2>1, Zenon DEF AcceptRequest, Receive, Serving, Up
  <2>2. CASE RejectRequest(n, m) \/ HandleAccept(n, m) \/ HandleLeave(n, m)
    BY <1>0, <1>p, <2>2, Zenon DEF RejectRequest, HandleAccept, HandleLeave
  <2> QED
    BY <1>5, <2>1, <2>2, Zenon DEF Receive
<1>6. ASSUME NEW n \in Nodes, ServerStep(n) \/ AcceptError(n) PROVE TasksRun'
  <2>1. task[n]["server"].pc # "idle" /\ UNCHANGED phase /\ \E t : Goto(n, "server", t)
    BY <1>6, Zenon DEF ServerStep, AcceptError, Take, ScheduleTaken, ReplyAccept
  <2> QED
    BY <1>g, <1>t, <2>1, Zenon DEF TasksRun
<1>7. ASSUME NEW n \in Nodes, NEW k \in Kinds, RedistributeStep(n, k) \/ AssignError(n, k) PROVE TasksRun'
  <2>1. task[n][k].pc # "idle" /\ UNCHANGED phase /\ \E t : Goto(n, k, t)
    BY <1>7, Zenon DEF RedistributeStep, AssignError, ReadOrphans, Forget, Assign
  <2> QED
    BY <1>g, <2>1, Zenon DEF TasksRun
<1>8. ASSUME NEW n \in Nodes, NEW p \in Nodes, HandleDeadNode(n, p) \/ HandleNodeDead(n, p) PROVE TasksRun'
  <2>1. \E k \in Kinds : DeclareDead(n, k, p)
    BY <1>8, Zenon DEF HandleDeadNode, HandleNodeDead, Kinds
  <2> QED
    BY <1>g, <2>1, Zenon DEF DeclareDead, Serving, Up
<1>9. ASSUME NEW m \in net, Lose(m) PROVE TasksRun'
  BY <1>0, <1>9, <1>p, Zenon DEF Lose
<1>10. CASE UNCHANGED vars
  BY <1>0, <1>10, <1>p, Zenon DEF vars
<1> QED
  BY <1>1, <1>2, <1>3, <1>4, <1>5, <1>6, <1>7, <1>8, <1>9, <1>10, Zenon DEF Next, StartStep, Errors

\* The start of Ownership is a start of Custody.
LEMMA AbstractInit == ASSUME Init PROVE Abstract!Init
<1>1. [d \in Devices |-> {n \in Nodes : d \in held[n]}] = [d \in Devices |-> {owner[d]}]
  BY Zenon DEF Init
<1>2. {n \in Nodes : Up(n)} = Nodes
  BY Zenon DEF Init, Up
<1> QED
  BY <1>1, <1>2, Zenon DEF Init, Abstract!Init

Holders == [d \in Devices |-> {n \in Nodes : d \in held[n]}]

\* What a change of one node's memory means for the holders.
LEMMA HoldersAdd ==
  ASSUME TypeOK, NEW n \in Nodes, NEW d \in Devices, Hold(n, d)
  PROVE  Holders' = [Holders EXCEPT ![d] = @ \cup {n}]
BY ZenonT(30) DEF TypeOK, Hold, Holders

\* Taking devices out of one node's owned_devices takes that node from their holders.
LEMMA HoldersDrop ==
  ASSUME TypeOK, NEW n \in Nodes, NEW ds, held' = [held EXCEPT ![n] = @ \ ds]
  PROVE  Holders' = [d \in Devices |-> IF d \in ds THEN Holders[d] \ {n} ELSE Holders[d]]
BY Zenon DEF TypeOK, Holders

\* The end of a process clears what it held and nothing else.
LEMMA HoldersStop ==
  ASSUME TypeOK, NEW n \in Nodes, held' = [held EXCEPT ![n] = {}]
  PROVE  Holders' = [d \in Devices |-> Holders[d] \ {n}]
BY Zenon DEF TypeOK, Holders

\* A starting process holds what the table says it owns.
LEMMA HoldersRecover ==
  ASSUME TypeOK, NEW n \in Nodes, held' = [held EXCEPT ![n] = {d \in Devices : owner[d] = n}]
  PROVE  Holders' = [d \in Devices |-> IF owner[d] = n THEN Holders[d] \cup {n} ELSE Holders[d] \ {n}]
BY Zenon DEF TypeOK, Holders

\* Every step is one of Custody, or leaves owners, holders, processes and disputes alone.
LEMMA AbstractStep ==
  ASSUME Facts, TasksRun, [Next]_vars
  PROVE  [Abstract!Next]_(Abstract!vars)
<1> USE DEF db, memory, lists
<1>t. TypeOK
  BY Zenon DEF Facts
<1>r. UNCHANGED phase => UNCHANGED Running
  BY Zenon DEF Running, Up
<1>0. ASSUME UNCHANGED <<owner, held, disputed, Running>> PROVE [Abstract!Next]_(Abstract!vars)
  BY <1>0, Zenon DEF Abstract!vars, Running
<1>1. ASSUME NEW ds \in SUBSET Devices, UNCHANGED <<owner, held, Running>>, disputed' = disputed \cup ds
      PROVE  [Abstract!Next]_(Abstract!vars)
  <2>1. Abstract!Dispute(ds)
    BY <1>1, Zenon DEF Abstract!Dispute, Running
  <2> QED
    BY <2>1, Zenon DEF Abstract!Next
<1>2. ASSUME NEW n \in Nodes, NEW d \in Devices, Own(n, d), Hold(n, d), Up(n), UNCHANGED phase,
             disputed' \in {disputed, disputed \cup {d}}
      PROVE  [Abstract!Next]_(Abstract!vars)
  <2>1. Holders' = [Holders EXCEPT ![d] = @ \cup {n}]
    BY <1>t, <1>2, HoldersAdd, Zenon
  <2>2. Abstract!Take(n, d)
    BY <1>2, <1>r, <2>1, Zenon DEF Abstract!Take, Own, Holders, Running
  <2> QED
    BY <2>2, Zenon DEF Abstract!Next
<1>3. ASSUME NEW n \in Nodes, Up(n), Stops(n), UNCHANGED owner PROVE [Abstract!Next]_(Abstract!vars)
  <2>1. Holders' = [d \in Devices |-> Holders[d] \ {n}]
    BY <1>t, <1>3, HoldersStop, Zenon DEF Stops
  <2>2. Taken(n) \in SUBSET Devices
    BY <1>t DEF TypeOK, Taken, Tasks
  <2>3. PICK ds \in SUBSET Devices : ds = Taken(n)
    BY <2>2, Zenon
  <2>4. n \in Running /\ Running' = Running \ {n}
    BY <1>t, <1>3, Zenon DEF TypeOK, Stops, Running, Up
  <2>5. Abstract!Stop(n, ds)
    BY <1>3, <2>1, <2>3, <2>4, Zenon DEF Abstract!Stop, Stops, Holders, Running
  <2> QED
    BY <2>5, Zenon DEF Abstract!Next
<1>4. ASSUME NEW n \in Nodes, \/ \E to \in Nodes, devs \in SUBSET Devices : Delegate(n, to, devs)
                              \/ Shutdown(n)
      PROVE  [Abstract!Next]_(Abstract!vars)
  <2>1. UNCHANGED <<owner, held, Running>> /\ \E ds \in SUBSET Devices : disputed' = disputed \cup ds
    <3>1. CASE Shutdown(n)
      <4>1. {d \in held[n] : Handing(d)} \in SUBSET Devices
        BY <1>t, Zenon DEF TypeOK
      <4> QED
        BY <1>t, <3>1, <4>1, RunningKept, Zenon DEF Shutdown
    <3>2. ASSUME NEW to \in Nodes, NEW devs \in SUBSET Devices, Delegate(n, to, devs)
          PROVE  UNCHANGED <<owner, held, Running>> /\ \E ds \in SUBSET Devices : disputed' = disputed \cup ds
      <4>1. {d \in devs : to = n \/ Handing(d)} \in SUBSET Devices
        BY Zenon
      <4> QED
        BY <1>r, <3>2, <4>1, Zenon DEF Delegate
    <3> QED
      BY <1>4, <3>1, <3>2, Zenon
  <2> QED
    BY <1>1, <2>1, Zenon
<1>5. ASSUME NEW n \in Nodes, Start(n) PROVE [Abstract!Next]_(Abstract!vars)
  <2>1. Holders' = [d \in Devices |-> IF owner[d] = n THEN Holders[d] \cup {n} ELSE Holders[d] \ {n}]
    BY <1>t, <1>5, HoldersRecover, Zenon DEF Start
  <2>2. n \notin Running /\ Running' = Running \cup {n}
    <3>1. /\ phase[n] = "down" /\ phase'[n] # "down"
          /\ \A p \in Nodes : p # n => phase'[p] = phase[p]
      BY <1>t, <1>5, Zenon DEF TypeOK, Start
    <3> QED
      BY <3>1, Zenon DEF Running, Up
  <2>3. Abstract!Recover(n)
    BY <1>5, <2>1, <2>2, Zenon DEF Abstract!Recover, Start, Holders, Running
  <2> QED
    BY <2>3, Zenon DEF Abstract!Next
<1>6. ASSUME NEW n \in Nodes, NEW m \in net, Receive(n, m) PROVE [Abstract!Next]_(Abstract!vars)
  <2>1. CASE RejectRequest(n, m) \/ AcceptRequest(n, m) \/ HandleLeave(n, m)
    BY <1>0, <1>r, <2>1, Zenon DEF RejectRequest, AcceptRequest, HandleLeave
  <2>2. CASE HandleAccept(n, m)
    <3>1. m.devs \in SUBSET Devices
      BY <1>t, Zenon DEF TypeOK, Messages
    <3>2. \A d \in m.devs : owner[d] # n \/ d \in disputed
      BY <1>6, <3>1, Zenon DEF Facts, HandOverFacts, SoleHandOver, Receive
    <3>3. Holders' = [d \in Devices |-> IF d \in m.devs THEN Holders[d] \ {n} ELSE Holders[d]]
      BY <1>t, <2>2, HoldersDrop, Zenon DEF HandleAccept
    <3>4. Abstract!Release(n, m.devs)
      BY <1>6, <1>r, <2>2, <3>2, <3>3, Zenon
         DEF Abstract!Release, HandleAccept, Holders, Running, Receive, Serving, Up
    <3> QED
      BY <3>1, <3>4, Zenon DEF Abstract!Next
  <2> QED
    BY <1>6, <2>1, <2>2, Zenon DEF Receive
<1>7. ASSUME NEW n \in Nodes, ServerStep(n) PROVE [Abstract!Next]_(Abstract!vars)
  <2>1. ASSUME NEW d \in Devices, Take(n, d) PROVE [Abstract!Next]_(Abstract!vars)
    BY <1>2, <2>1, Zenon DEF Take, TasksRun, Kinds
  <2>2. CASE ScheduleTaken(n) \/ ReplyAccept(n)
    BY <1>0, <1>r, <2>2, Zenon DEF ScheduleTaken, ReplyAccept
  <2> QED
    BY <1>7, <2>1, <2>2, Zenon DEF ServerStep
<1>8. ASSUME NEW n \in Nodes, NEW k \in Kinds, NEW d \in Devices, Assign(n, k, d)
      PROVE  [Abstract!Next]_(Abstract!vars)
  <2> DEFINE p == task[n][k].plan[d]
  <2>1. p \in Nodes
    <3>1. task[n][k].plan \in Plans
      BY <1>t DEF TypeOK, Tasks
    <3> QED
      BY <1>8, <3>1, PlanTypes, Zenon DEF Assign
  <2>2. CASE p = n
    BY <1>2, <1>8, <2>2, Zenon DEF Assign, TasksRun
  <2>3. CASE p # n
    <3>1. Abstract!Assign(p, d)
      BY <1>8, <1>r, <2>3, Zenon DEF Abstract!Assign, Assign, Own, Running
    <3> QED
      BY <2>1, <3>1, Zenon DEF Abstract!Next
  <2> QED
    BY <2>2, <2>3, Zenon
<1>9. ASSUME NEW n \in Nodes, NEW k \in Kinds, RedistributeStep(n, k)
      PROVE  [Abstract!Next]_(Abstract!vars)
  BY <1>0, <1>8, <1>9, <1>r, Zenon DEF RedistributeStep, ReadOrphans, Forget
<1>10. ASSUME NEW n \in Nodes, StartStep(n) PROVE [Abstract!Next]_(Abstract!vars)
  <2>1. ASSUME NEW d \in Devices, Claim(n, d) PROVE [Abstract!Next]_(Abstract!vars)
    <3>1. disputed' \in {disputed, disputed \cup {d}}
      BY <2>1, Zenon DEF Claim
    <3> QED
      BY <1>2, <2>1, <3>1, Zenon DEF Claim, Up
  <2>2. ASSUME NEW d \in Devices, Reload(n, d) PROVE [Abstract!Next]_(Abstract!vars)
    BY <1>0, <1>r, <2>2, Zenon DEF Reload
  <2>3. CASE BeginServing(n) \/ ReadOwned(n) \/ EnableClusterMode(n) \/ ReadAwaiting(n) \/ Run(n)
    <3>1. \E v : phase[n] # "down" /\ v # "down" /\ phase' = [phase EXCEPT ![n] = v]
      BY <2>3, Zenon DEF BeginServing, ReadOwned, EnableClusterMode, ReadAwaiting, Run
    <3>2. Running' = Running
      BY <1>t, <3>1, RunningKept, Zenon
    <3> QED
      BY <1>0, <2>3, <3>2, Zenon DEF BeginServing, ReadOwned, EnableClusterMode, ReadAwaiting, Run
  <2> QED
    BY <1>10, <2>1, <2>2, <2>3, Zenon DEF StartStep
<1>11. ASSUME NEW n \in Nodes, Errors(n) PROVE [Abstract!Next]_(Abstract!vars)
  <2>1. CASE AcceptError(n)
    <3>1. task[n]["server"].done \in SUBSET Devices
      BY <1>t DEF TypeOK, Tasks, Kinds
    <3> QED
      BY <1>1, <1>r, <2>1, <3>1, Zenon DEF AcceptError
  <2>2. CASE ClaimError(n) \/ ReloadError(n)
    BY <1>3, <2>2, Zenon DEF ClaimError, ReloadError, Up
  <2>3. CASE \E k \in Kinds : AssignError(n, k)
    BY <1>0, <1>r, <2>3, Zenon DEF AssignError
  <2> QED
    BY <1>11, <2>1, <2>2, <2>3, Zenon DEF Errors
<1>12. ASSUME NEW n \in Nodes, Leave(n) \/ Crash(n) PROVE [Abstract!Next]_(Abstract!vars)
  BY <1>3, <1>12, Zenon DEF Leave, Crash, Up
<1>13. ASSUME NEW n \in Nodes, NEW p \in Nodes, Learn(n) \/ HandleDeadNode(n, p) \/ HandleNodeDead(n, p)
       PROVE  [Abstract!Next]_(Abstract!vars)
  BY <1>0, <1>13, <1>r, Zenon DEF Learn, HandleNodeJoin, HandleHeartbeat, HandleDeadNode, HandleNodeDead, DeclareDead
<1>14. ASSUME NEW m \in net, Lose(m) PROVE [Abstract!Next]_(Abstract!vars)
  <2>1. (IF m.type = "accept" /\ Up(m.to) THEN m.devs ELSE {}) \in SUBSET Devices
    BY <1>t, Zenon DEF TypeOK, Messages
  <2> QED
    BY <1>1, <1>14, <1>r, <2>1, Zenon DEF Lose
<1>15. CASE UNCHANGED vars
  BY <1>0, <1>15, <1>r, Zenon DEF vars
<1> QED
  BY <1>4, <1>5, <1>6, <1>7, <1>9, <1>10, <1>11, <1>12, <1>13, <1>14, <1>15, Zenon DEF Next

\* The cluster implements Custody for any sets of nodes and devices: a device changes
\* hands by being taken and then released, and whatever disturbs that is a dispute.
THEOREM RefinesCustody == Spec => ImplementsCustody
<1>1. ASSUME Facts, TasksRun, [Next]_vars PROVE [Abstract!Next]_(Abstract!vars)
  BY <1>1, AbstractStep, Zenon
<1>2. ASSUME Init PROVE TasksRun
  BY <1>2, Zenon DEF Init, TasksRun, Up
<1>3. ASSUME Facts, TasksRun, [Next]_vars PROVE TasksRun'
  BY <1>3, TasksRunStep, Zenon DEF Facts
<1> QED
  BY <1>1, <1>2, <1>3, AbstractInit, FactsInit, FactsStep, PTL DEF Spec, ImplementsCustody, Abstract!Spec

-----------------------------------------------------------------------------
(* The jobs of the owners *)

\* The owner of an undisputed device has a job for it, or gets one before its node is
\* done starting: the device is in the set that main copies from owned_devices to the
\* scheduler and from there to the reload.
Waits(n, d) == d \in jobs[n] \/ d \in missed \/ task[n]["server"].now = d
WakesOf(n, d) ==
  owner[d] = n =>
    /\ phase[n] \in {"running", "draining"} => Waits(n, d)
    /\ phase[n] \in {"snapped", "reloading"} => d \in todo[n] \/ Waits(n, d)
    /\ phase[n] = "clustered" => d \in sched[n] \/ Waits(n, d)
JobsKnown ==
  /\ \A d \in Devices : row[d] = "lost" => d \in missed
  /\ \A n \in Nodes, d \in Devices \ disputed : WakesOf(n, d)

\* A step that takes no job, set entry or task from the owner keeps it waiting.
LEMMA WakesKept ==
  ASSUME NEW n \in Nodes, NEW d \in Devices, WakesOf(n, d), owner'[d] = n => owner[d] = n,
         \/ phase'[n] = phase[n]
         \/ phase[n] \in {"running", "draining"} /\ phase'[n] \in {"running", "draining"},
         d \in todo[n] => d \in todo'[n], d \in sched[n] => d \in sched'[n],
         d \in jobs[n] => d \in jobs'[n], d \in missed => d \in missed',
         task[n]["server"].now = d => Waits(n, d)'
  PROVE  WakesOf(n, d)'
BY Zenon DEF WakesOf, Waits

\* Every step keeps the owner of an undisputed device waiting for it or about to.
LEMMA WakesStep ==
  ASSUME Facts, JobsKnown, [Next]_vars, NEW n \in Nodes, NEW d \in Devices \ disputed'
  PROVE  WakesOf(n, d)'
<1> USE DEF db, memory, lists
<1>d. d \in Devices \ disputed /\ SoleHandOver(d) /\ WakesOf(n, d)
  BY DisputeStays, Zenon DEF Facts, HandOverFacts, JobsKnown
<1>t. /\ task \in [Nodes -> [Kinds -> Tasks]] /\ owner \in [Devices -> Nodes]
      /\ phase \in [Nodes -> Phases] /\ held \in [Nodes -> SUBSET Devices]
      /\ sched \in [Nodes -> SUBSET Devices] /\ jobs \in [Nodes -> SUBSET Devices]
      /\ todo \in [Nodes -> SUBSET Devices]
  BY Zenon DEF Facts, TypeOK
<1>k. /\ "server" \in Kinds /\ \A p \in Nodes, k \in Kinds : TaskSound(k, task[p][k])
      /\ None # d
  BY OwnershipAssumption, Zenon DEF Kinds, Facts, TaskFacts
<1>0. ASSUME UNCHANGED <<owner, task>>, phase'[n] = phase[n],
             d \in todo[n] => d \in todo'[n], d \in sched[n] => d \in sched'[n],
             d \in jobs[n] => d \in jobs'[n], d \in missed => d \in missed'
      PROVE  WakesOf(n, d)'
  BY <1>0, <1>d, WakesKept, Zenon DEF Waits
<1>g. ASSUME NEW q \in Nodes, NEW k \in Kinds, NEW u, Goto(q, k, u), owner'[d] = n => owner[d] = n,
             k = "server" /\ q = n /\ task[q][k].now = d => Waits(n, d)',
             phase'[n] = phase[n],
             d \in todo[n] => d \in todo'[n], d \in sched[n] => d \in sched'[n],
             d \in jobs[n] => d \in jobs'[n], d \in missed => d \in missed'
      PROVE  WakesOf(n, d)'
  <2>1. q # n \/ k # "server" => task'[n]["server"] = task[n]["server"]
    BY <1>t, <1>k, <1>g, GotoAt, SMTT(30)
  <2>2. task[n]["server"].now = d => Waits(n, d)'
    BY <1>g, <2>1, Zenon DEF Waits
  <2> QED
    BY <1>d, <1>g, <2>2, WakesKept, Zenon
<1>1. ASSUME NEW q \in Nodes, \/ \E to \in Nodes, devs \in SUBSET Devices : Delegate(q, to, devs)
                              \/ Learn(q)
      PROVE  WakesOf(n, d)'
  BY <1>0, <1>1, Zenon DEF Delegate, Learn, HandleNodeJoin, HandleHeartbeat
<1>2. ASSUME NEW q \in Nodes, Shutdown(q) PROVE WakesOf(n, d)'
  <2>1. \/ phase'[n] = phase[n]
        \/ phase[n] \in {"running", "draining"} /\ phase'[n] \in {"running", "draining"}
    BY <1>2, <1>t, Zenon DEF Shutdown
  <2> QED
    BY <1>2, <1>d, <2>1, WakesKept, Zenon DEF Shutdown, Waits
<1>3. ASSUME NEW q \in Nodes, Stops(q), UNCHANGED <<owner, missed>> PROVE WakesOf(n, d)'
  <2>1. CASE q = n
    BY <1>3, <1>t, <2>1, Zenon DEF Stops, WakesOf
  <2>2. CASE q # n
    <3>1. task'[n]["server"] = task[n]["server"]
      BY <1>3, <1>t, <1>k, <2>2, StopsAt, SMTT(30)
    <3>2. /\ phase'[n] = phase[n] /\ jobs'[n] = jobs[n] /\ todo'[n] = todo[n] /\ sched'[n] = sched[n]
      BY <1>3, <1>t, <2>2, Zenon DEF Stops
    <3> QED
      BY <1>3, <1>d, <3>1, <3>2, Zenon DEF WakesOf, Waits
  <2> QED
    BY <2>1, <2>2, Zenon
<1>4. ASSUME NEW q \in Nodes, Start(q) PROVE WakesOf(n, d)'
  <2>1. CASE q = n
    BY <1>4, <1>t, <2>1, Zenon DEF Start, WakesOf
  <2>2. CASE q # n
    <3>1. phase'[n] = phase[n] /\ jobs'[n] = jobs[n] /\ todo'[n] = todo[n] /\ sched'[n] = sched[n]
      BY <1>4, <1>t, <2>2, Zenon DEF Start
    <3> QED
      BY <1>0, <1>4, <3>1, Zenon DEF Start
  <2> QED
    BY <2>1, <2>2, Zenon
<1>5. ASSUME NEW q \in Nodes, NEW m \in net, Receive(q, m) PROVE WakesOf(n, d)'
  <2>1. CASE RejectRequest(q, m) \/ HandleLeave(q, m)
    BY <1>0, <2>1, Zenon DEF RejectRequest, HandleLeave
  <2>2. CASE AcceptRequest(q, m)
    <3>1. task[q]["server"].now = None
      BY <1>5, <1>k, Zenon DEF Receive, TaskSound
    <3> QED
      BY <1>g, <1>k, <2>2, <3>1, Zenon DEF AcceptRequest
  <2>3. CASE HandleAccept(q, m)
    <3>1. CASE q = n /\ d \in m.devs
      <4>1. owner'[d] # n
        BY <1>d, <1>5, <2>3, <3>1, Zenon DEF SoleHandOver, HandleAccept, Receive
      <4> QED
        BY <4>1, Zenon DEF WakesOf
    <3>2. CASE q # n \/ d \notin m.devs
      <4>1. d \in sched[n] => d \in sched'[n]
        BY <1>t, <2>3, <3>2, Zenon DEF HandleAccept
      <4> QED
        BY <1>0, <2>3, <4>1, Zenon DEF HandleAccept
    <3> QED
      BY <3>1, <3>2, Zenon
  <2> QED
    BY <1>5, <2>1, <2>2, <2>3, Zenon DEF Receive
<1>6. ASSUME NEW q \in Nodes, NEW e \in Devices, Take(q, e) PROVE WakesOf(n, d)'
  <2> DEFINE t == task[q]["server"]
              u == Accepting("schedule", t.peer, t.devs \ {e}, t.done \cup {e}, e)
  <2>1. /\ Goto(q, "server", u) /\ UNCHANGED <<phase, sched, jobs, todo, missed>> /\ t.now = None
        /\ owner' = [owner EXCEPT ![e] = q] /\ u.now = e
    BY <1>6, <1>k, Zenon DEF Take, Own, Accepting, TaskSound
  <2>2. task'[q]["server"] = u
    BY <1>t, <1>k, <2>1, GotoAt, SMTT(30)
  <2> HIDE DEF u
  <2>3. CASE e = d /\ q = n
    BY <2>1, <2>2, <2>3, Zenon DEF WakesOf, Waits
  <2>4. CASE e = d /\ q # n
    BY <1>t, <2>1, <2>4, Zenon DEF WakesOf
  <2>5. CASE e # d
    BY <1>g, <1>k, <1>t, <2>1, <2>5, ZenonT(30), SMTT(30)
  <2> QED
    BY <2>3, <2>4, <2>5, Zenon
<1>7. ASSUME NEW q \in Nodes, ScheduleTaken(q) PROVE WakesOf(n, d)'
  <2> DEFINE t == task[q]["server"]
  <2>1. /\ UNCHANGED <<owner, phase, todo>> /\ \E u : Goto(q, "server", u)
        /\ sched' = [sched EXCEPT ![q] = @ \cup {t.now}]
    BY <1>7, Zenon DEF ScheduleTaken
  <2>2. CASE jobs' = [jobs EXCEPT ![q] = @ \cup {t.now}] /\ UNCHANGED missed
    <3>1. /\ d \in sched[n] => d \in sched'[n]
          /\ d \in jobs[n] => d \in jobs'[n]
          /\ q = n /\ t.now = d => d \in jobs'[n]
      BY <1>t, <2>1, <2>2, Zenon
    <3> QED
      BY <1>g, <1>k, <2>1, <2>2, <3>1, Zenon DEF Waits
  <2>3. CASE UNCHANGED jobs /\ missed' = missed \cup {t.now}
    <3>1. d \in sched[n] => d \in sched'[n]
      BY <1>t, <2>1, Zenon
    <3> QED
      BY <1>g, <1>k, <2>1, <2>3, <3>1, Zenon DEF Waits
  <2> QED
    BY <1>7, <2>2, <2>3, Zenon DEF ScheduleTaken
<1>8. ASSUME NEW q \in Nodes, ReplyAccept(q) PROVE WakesOf(n, d)'
  <2>1. task[q]["server"].now = None
    BY <1>8, <1>k, Zenon DEF ReplyAccept, TaskSound
  <2> QED
    BY <1>8, <1>g, <1>k, <2>1, Zenon DEF ReplyAccept
<1>9. ASSUME NEW q \in Nodes, AcceptError(q) PROVE WakesOf(n, d)'
  <2>1. task[q]["server"].now # d
    BY <1>9, <1>k, SMTT(30) DEF AcceptError, TaskSound
  <2>2. d \in jobs[n] => d \in jobs'[n]
    BY <1>9, <1>t, SMTT(30) DEF AcceptError
  <2>3. UNCHANGED <<owner, phase, todo, sched, missed>> /\ Goto(q, "server", Idle)
    BY <1>9, Zenon DEF AcceptError
  <2> QED
    BY <1>g, <1>k, <2>1, <2>2, <2>3, Zenon
<1>10. ASSUME NEW q \in Nodes, NEW k \in Kinds,
              \/ \E p \in Nodes : DeclareDead(q, k, p)
              \/ \E e \in Devices : Assign(q, k, e)
              \/ ReadOrphans(q, k) \/ Forget(q, k) \/ AssignError(q, k)
       PROVE  WakesOf(n, d)'
  <2>1. /\ UNCHANGED <<phase, sched, jobs, todo, missed>> /\ \E u : Goto(q, k, u)
        /\ task[q][k].now = None /\ owner'[d] = owner[d]
    <3>1. CASE \E p \in Nodes : DeclareDead(q, k, p)
      BY <1>k, <3>1, SMTT(30) DEF DeclareDead, TaskSound
    <3>2. CASE ReadOrphans(q, k)
      BY <1>k, <3>2, SMTT(30) DEF ReadOrphans, TaskSound
    <3>3. CASE Forget(q, k) \/ AssignError(q, k)
      BY <1>k, <3>3, SMTT(30) DEF Forget, AssignError, TaskSound
    <3>4. ASSUME NEW e \in Devices, Assign(q, k, e)
          PROVE  /\ UNCHANGED <<phase, sched, jobs, todo, missed>> /\ \E u : Goto(q, k, u)
                 /\ task[q][k].now = None /\ owner'[d] = owner[d]
      <4>1. e # d /\ owner' = [owner EXCEPT ![e] = task[q][k].plan[e]]
        BY <3>4, Zenon DEF Assign, Own
      <4>2. owner'[d] = owner[d]
        BY <1>t, <4>1, Zenon
      <4> QED
        BY <1>k, <3>4, <4>2, SMTT(30) DEF Assign, TaskSound
    <3> QED
      BY <1>10, <3>1, <3>2, <3>3, <3>4, Zenon
  <2> QED
    BY <1>g, <1>k, <2>1, Zenon
<1>11. ASSUME NEW q \in Nodes, NEW e \in Devices, Claim(q, e) PROVE WakesOf(n, d)'
  <2>1. /\ UNCHANGED <<phase, sched, jobs, missed, task>> /\ owner'[d] = owner[d]
        /\ phase[q] = "claiming" /\ todo' = [todo EXCEPT ![q] = @ \ {e}]
    BY <1>11, <1>t, Zenon DEF Claim, Own
  <2>2. CASE q = n
    BY <2>1, <2>2, Zenon DEF WakesOf
  <2>3. CASE q # n
    <3>1. todo'[n] = todo[n]
      BY <1>t, <2>1, <2>3, Zenon
    <3> QED
      BY <1>d, <2>1, <3>1, Zenon DEF WakesOf, Waits
  <2> QED
    BY <2>2, <2>3, Zenon
<1>12. ASSUME NEW q \in Nodes, ReadOwned(q) \/ EnableClusterMode(q) \/ ReadAwaiting(q) \/ Run(q)
                                \/ BeginServing(q), q = n
       PROVE  WakesOf(n, d)'
  <2>1. CASE ReadOwned(q)
    <3>1. owner[d] = n => d \in held[n]
      BY <1>d, <1>12, <2>1, Zenon DEF Facts, CustodyExact, ReadOwned, Up
    <3>2. todo'[n] = held[n] /\ phase'[n] = "snapped" /\ UNCHANGED owner
      BY <1>12, <1>t, <2>1, Zenon DEF ReadOwned
    <3> QED
      BY <3>1, <3>2, Zenon DEF WakesOf
  <2>2. CASE EnableClusterMode(q)
    <3>1. /\ phase[n] = "snapped" /\ phase'[n] = "clustered" /\ sched'[n] = todo[n]
          /\ UNCHANGED <<owner, jobs, missed, task>>
      BY <1>12, <1>t, <2>2, Zenon DEF EnableClusterMode
    <3> QED
      BY <1>d, <3>1, Zenon DEF WakesOf, Waits
  <2>3. CASE ReadAwaiting(q)
    <3>1. /\ phase[n] = "clustered" /\ phase'[n] = "reloading" /\ UNCHANGED <<owner, jobs, missed, task>>
          /\ todo'[n] = {e \in sched[n] : row[e] = "awaiting"}
      BY <1>12, <1>t, <2>3, Zenon DEF ReadAwaiting
    <3>2. row[d] \in {"awaiting", "lost"} /\ (row[d] = "lost" => d \in missed)
      BY Zenon DEF Facts, TypeOK, JobsKnown
    <3> QED
      BY <1>d, <3>1, <3>2, Zenon DEF WakesOf, Waits
  <2>4. CASE Run(q)
    <3>1. /\ phase[n] = "reloading" /\ phase'[n] = "running" /\ todo[n] = {}
          /\ UNCHANGED <<owner, jobs, missed, task>>
      BY <1>12, <1>t, <2>4, Zenon DEF Run
    <3> QED
      BY <1>d, <3>1, Zenon DEF WakesOf, Waits
  <2>5. CASE BeginServing(q)
    <3>1. phase'[n] = "serving"
      BY <1>12, <1>t, <2>5, Zenon DEF BeginServing
    <3> QED
      BY <3>1, Zenon DEF WakesOf
  <2> QED
    BY <1>12, <2>1, <2>2, <2>3, <2>4, <2>5, Zenon
<1>13. ASSUME NEW q \in Nodes, ReadOwned(q) \/ EnableClusterMode(q) \/ ReadAwaiting(q) \/ Run(q)
                                \/ BeginServing(q), q # n
       PROVE  WakesOf(n, d)'
  <2>1. /\ UNCHANGED <<owner, task, jobs, missed>> /\ phase'[n] = phase[n]
        /\ todo'[n] = todo[n] /\ sched'[n] = sched[n]
    BY <1>13, <1>t, Zenon DEF ReadOwned, EnableClusterMode, ReadAwaiting, Run, BeginServing
  <2> QED
    BY <1>0, <2>1, Zenon
<1>14. ASSUME NEW q \in Nodes, NEW e \in Devices, Reload(q, e) PROVE WakesOf(n, d)'
  <2>1. /\ UNCHANGED <<owner, phase, sched, task>> /\ phase[q] = "reloading"
        /\ todo' = [todo EXCEPT ![q] = @ \ {e}]
    BY <1>14, Zenon DEF Reload
  <2>2. /\ d \in jobs[n] => d \in jobs'[n]
        /\ d \in missed => d \in missed'
        /\ q = n /\ e = d => d \in jobs'[n] \/ d \in missed'
    <3>1. CASE UNCHANGED jobs /\ missed' = missed \cup {e}
      BY <3>1, Zenon
    <3>2. CASE jobs' = [jobs EXCEPT ![q] = @ \cup {e}] /\ UNCHANGED missed
      BY <1>t, <3>2, Zenon
    <3> QED
      BY <1>14, <3>1, <3>2, ZenonT(30), SMTT(30) DEF Reload
  <2>3. CASE q = n /\ e = d
    BY <2>1, <2>2, <2>3, Zenon DEF WakesOf, Waits
  <2>4. CASE q # n \/ e # d
    <3>1. d \in todo[n] => d \in todo'[n]
      BY <1>t, <2>1, <2>4, Zenon
    <3> QED
      BY <1>0, <2>1, <2>2, <3>1, Zenon
  <2> QED
    BY <2>3, <2>4, Zenon
<1>15. ASSUME NEW q \in Nodes, StartStep(q) PROVE WakesOf(n, d)'
  BY <1>11, <1>12, <1>13, <1>14, <1>15, Zenon DEF StartStep
<1>16. ASSUME NEW q \in Nodes, Errors(q) PROVE WakesOf(n, d)'
  BY <1>3, <1>9, <1>10, <1>16, Zenon DEF Errors, ClaimError, ReloadError
<1>17. ASSUME NEW q \in Nodes, Leave(q) \/ Crash(q) PROVE WakesOf(n, d)'
  BY <1>3, <1>17, Zenon DEF Leave, Crash
<1>18. ASSUME NEW q \in Nodes, NEW k \in Kinds, RedistributeStep(q, k) PROVE WakesOf(n, d)'
  BY <1>10, <1>18, Zenon DEF RedistributeStep
<1>19. ASSUME NEW q \in Nodes, NEW p \in Nodes, HandleDeadNode(q, p) \/ HandleNodeDead(q, p)
       PROVE  WakesOf(n, d)'
  BY <1>10, <1>19, Zenon DEF HandleDeadNode, HandleNodeDead, Kinds
<1>20. ASSUME NEW q \in Nodes, ServerStep(q) PROVE WakesOf(n, d)'
  BY <1>6, <1>7, <1>8, <1>20, Zenon DEF ServerStep
<1>21. ASSUME NEW m \in net, Lose(m) PROVE WakesOf(n, d)'
  BY <1>0, <1>21, Zenon DEF Lose
<1>22. CASE UNCHANGED vars
  BY <1>0, <1>22, Zenon DEF vars
<1> QED
  BY <1>1, <1>2, <1>4, <1>5, <1>15, <1>16, <1>17, <1>18, <1>19, <1>20, <1>21, <1>22, Zenon DEF Next

\* A connection that is marked lost was given up, and giving up is never taken back.
LEMMA RowStep ==
  ASSUME Facts, JobsKnown, [Next]_vars, NEW d \in Devices, row'[d] = "lost"
  PROVE  d \in missed'
<1> USE DEF db, memory, lists
<1>0. ASSUME UNCHANGED row, missed \subseteq missed' PROVE d \in missed'
  BY <1>0, Zenon DEF JobsKnown
<1>1. ASSUME NEW n \in Nodes, NEW e \in Devices, Reload(n, e) PROVE d \in missed'
  BY <1>1, Zenon DEF Reload, Facts, TypeOK, JobsKnown
<1>2. ASSUME NEW n \in Nodes, \/ \E to \in Nodes, devs \in SUBSET Devices : Delegate(n, to, devs)
                              \/ Shutdown(n) \/ Leave(n) \/ Crash(n) \/ Start(n) \/ Learn(n)
      PROVE  d \in missed'
  BY <1>0, <1>2, Zenon DEF Delegate, Shutdown, Leave, Crash, Stops, Start, Learn, HandleNodeJoin, HandleHeartbeat
<1>3. ASSUME NEW n \in Nodes, NEW m \in net, Receive(n, m) PROVE d \in missed'
  BY <1>0, <1>3, Zenon DEF Receive, RejectRequest, AcceptRequest, HandleAccept, HandleLeave
<1>4. ASSUME NEW n \in Nodes, ServerStep(n) PROVE d \in missed'
  BY <1>0, <1>4, Zenon DEF ServerStep, Take, ScheduleTaken, ReplyAccept
<1>5. ASSUME NEW n \in Nodes, StartStep(n) PROVE d \in missed'
  BY <1>0, <1>1, <1>5, Zenon DEF StartStep, BeginServing, ReadOwned, EnableClusterMode, ReadAwaiting, Run, Claim
<1>6. ASSUME NEW n \in Nodes, Errors(n) PROVE d \in missed'
  BY <1>0, <1>6, Zenon DEF Errors, AcceptError, ClaimError, ReloadError, AssignError
<1>7. ASSUME NEW n \in Nodes, NEW k \in Kinds, RedistributeStep(n, k) PROVE d \in missed'
  BY <1>0, <1>7, Zenon DEF RedistributeStep, ReadOrphans, Forget, Assign
<1>8. ASSUME NEW n \in Nodes, NEW p \in Nodes, HandleDeadNode(n, p) \/ HandleNodeDead(n, p)
      PROVE  d \in missed'
  BY <1>0, <1>8, Zenon DEF HandleDeadNode, HandleNodeDead, DeclareDead
<1>9. ASSUME NEW m \in net, Lose(m) PROVE d \in missed'
  BY <1>0, <1>9, Zenon DEF Lose
<1>10. CASE UNCHANGED vars
  BY <1>0, <1>10, Zenon DEF vars
<1> QED
  BY <1>2, <1>3, <1>4, <1>5, <1>6, <1>7, <1>8, <1>9, <1>10, Zenon DEF Next

\* The owner of an undisputed device wakes it up (schedule_delegated_device,
\* reload_active_connections), for any sets of nodes and devices, whatever is
\* delegated, stopped and started again.
THEOREM OwnersWake == Spec => []OwnerWakes
<1>1. Init => Facts /\ JobsKnown
  BY FactsInit, SMTT(30) DEF Init, JobsKnown, WakesOf, Waits
<1>2. Facts /\ JobsKnown /\ [Next]_vars => (Facts /\ JobsKnown)'
  BY FactsStep, WakesStep, RowStep, Zenon DEF JobsKnown
<1>3. Facts /\ JobsKnown => OwnerWakes
  BY Zenon DEF JobsKnown, WakesOf, Waits, OwnerWakes
<1> QED
  BY <1>1, <1>2, <1>3, PTL DEF Spec
=============================================================================
