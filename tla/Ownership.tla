----------------------------- MODULE Ownership -----------------------------
(***************************************************************************)
(* Who owns a device in a cluster, and who wakes it up: the owner in the   *)
(* shared table T_BUCKETS, the sets of owned devices in the memory of the  *)
(* DeviceManager and of the Scheduler of each node, and the jobs.  They    *)
(* change when a node starts, when devices are delegated by an operator or *)
(* by a node that shuts down, and when the devices of a dead node are      *)
(* redistributed by every node that learns of its death.                   *)
(*                                                                         *)
(* Two tasks of a node take part: the cluster server, which handles one    *)
(* datagram at a time, and the failure detector.  Both work on the         *)
(* DeviceManager under its write lock, which says nothing to the other     *)
(* nodes: every database call is a step.  Datagrams are lost and           *)
(* reordered.  Module Membership says when a node is suspected and         *)
(* declared dead; here a node is declared dead when it is down and its     *)
(* datagrams are gone (timeouts of minutes).                               *)
(***************************************************************************)
EXTENDS Integers, FiniteSets

CONSTANTS Nodes, Devices,
          FirstNodes,      \* nodes configured without seeds
          MaxEvents,       \* bound on requests of an operator (delegations, joins),
                           \* crashes, shutdowns and database errors
          MaxRequests,     \* bound on the requests among them
          MaxStops,        \* bound on the crashes and shutdowns among them
          MaxStarts,       \* bound on new processes
          None

ASSUME OwnershipAssumption ==
  /\ FirstNodes \subseteq Nodes /\ None \notin Nodes \cup Devices /\ MaxEvents \in Nat
  /\ MaxRequests \in Nat /\ MaxStops \in Nat /\ MaxStarts \in Nat

VARIABLES
  owner,     \* T_BUCKETS.FK_NODE
  row,       \* T_SCHEDULED_CONNECTIONS: is a coming connection "awaiting", or "lost"?
  phase,     \* how far the process of each node is
  peers,     \* the nodes in its MembershipList
  watched,   \* those of them its detector looks at: Active or suspect
  held,      \* DeviceManager.owned_devices
  sched,     \* Scheduler.owned_devices; all devices before enable_cluster_mode
  jobs,      \* devices with a job in its JobScheduler
  todo,      \* devices the loop or the assignment main is in still has to do
  task,      \* cluster server and failure detector of each node
  net,       \* datagrams under way
  disputed,  \* history: devices something else than one hand-over happened to
  missed,    \* history: devices whose coming connection was given up
  spent      \* history: requests, stops, failures and starts so far

vars == <<owner, row, phase, peers, watched, held, sched, jobs, todo, task, net, disputed, missed, spent>>
db == <<owner, row>>
memory == <<held, sched, jobs>>
lists == <<peers, watched>>

Phases == {"down", "claiming", "joining", "serving", "snapped", "clustered", "reloading",
           "running", "draining"}
Kinds == {"server", "detector"}
TaskPCs == {"idle", "accept", "schedule", "reply", "redistribute", "assign"}
NoPlan == [d \in {} |-> None]
\* A delegation being accepted: devices to take, and taken; a redistribution: the
\* nodes it may assign to, and the assignments to do.
Accepting(pc, peer, devs, done, now) ==
  [pc |-> pc, peer |-> peer, devs |-> devs, done |-> done, now |-> now,
   nodes |-> {}, plan |-> NoPlan]
Redistributing(pc, peer, nodes, plan) ==
  [pc |-> pc, peer |-> peer, devs |-> {}, done |-> {}, now |-> None,
   nodes |-> nodes, plan |-> plan]
Idle == Accepting("idle", None, {}, {}, None)
Message(type, from, to, devs) == [type |-> type, from |-> from, to |-> to, devs |-> devs]
Request(from, to, devs, why) == Message(why, from, to, devs)
Accept(from, to, devs) == Message("accept", from, to, devs)
NodeLeave(from, to) == Message("leave", from, to, {})

\* The process runs, its background tasks run, it takes requests.
Up(n) == phase[n] # "down"
Serving(n) == phase[n] \notin {"down", "claiming", "joining"}
Active(n) == Serving(n) /\ phase[n] # "draining"

\* device_manager.write(): what a task of the node holds it across.
InGuard(n) ==
  \/ phase[n] \in {"claiming", "reloading"}
  \/ \E k \in Kinds : task[n][k].pc \in {"accept", "schedule", "assign"}

Init ==
  /\ owner \in [Devices -> Nodes]
  /\ row = [d \in Devices |-> "awaiting"]
  /\ phase = [n \in Nodes |-> "running"]
  /\ peers = [n \in Nodes |-> Nodes \ {n}]
  /\ watched = peers
  /\ held = [n \in Nodes |-> {d \in Devices : owner[d] = n}]
  /\ sched = held
  /\ jobs = held
  /\ todo = [n \in Nodes |-> {}]
  /\ task = [n \in Nodes |-> [k \in Kinds |-> Idle]]
  /\ net = {}
  /\ disputed = {}
  /\ missed = {}
  /\ spent = [requests |-> 0, stops |-> 0, failures |-> 0, starts |-> 0]

-----------------------------------------------------------------------------
(* Shared steps *)

Goto(n, k, t) == task' = [task EXCEPT ![n][k] = t]
Spend(what) ==
  /\ spent.requests + spent.stops + spent.failures < MaxEvents
  /\ what = "requests" => spent.requests < MaxRequests
  /\ what = "stops" => spent.stops < MaxStops
  /\ spent' = [spent EXCEPT ![what] = @ + 1]
Hold(n, d) == held' = [held EXCEPT ![n] = @ \cup {d}]
Own(n, d) == owner' = [owner EXCEPT ![d] = n]

\* One entry of a list.
Without(list, n, p) == [list EXCEPT ![n] = @ \ {p}]
With(list, n, p) == [list EXCEPT ![n] = @ \cup {p}]
Remove(n, p) == peers' = Without(peers, n, p) /\ watched' = Without(watched, n, p)

\* A hand-over of the device is under way somewhere.
Handing(d) ==
  \/ \E m \in net : d \in m.devs
  \/ \E n \in Nodes, k \in Kinds : d \in task[n][k].devs \cup task[n][k].done

-----------------------------------------------------------------------------
(* delegation.rs: the delegating side *)

\* device.delegate of the RPC server: the devices are checked against
\* owned_devices; the target is any known node, the node itself included.
\* There is no wait for the answer.
Delegate(n, to, devs) ==
  /\ phase[n] \in {"running", "draining"}
  /\ to \in peers[n] \cup {n}
  /\ devs # {} /\ devs \subseteq held[n]
  /\ Spend("requests")
  /\ net' = net \cup {Request(n, to, devs, "rebalance")}
  /\ disputed' = disputed \cup {d \in devs : to = n \/ Handing(d)}
  /\ UNCHANGED <<db, phase, lists, memory, todo, missed, task>>

\* shutdown_delegation: chunks of equal size, the last one smaller, go to the
\* nodes believed active, in the order of their device counts.
Share(f, to) == {d \in DOMAIN f : f[d] = to}
CeilDiv(a, b) == (a + b - 1) \div b
Chunked(devs, targets) ==
  LET size == CeilDiv(Cardinality(devs), Cardinality(targets)) IN
  {f \in [devs -> targets] :
     /\ \A t \in targets : Cardinality(Share(f, t)) <= size
     /\ Cardinality({t \in targets : Cardinality(Share(f, t)) \notin {0, size}}) <= 1}

Shutdown(n) ==
  /\ phase[n] = "running"
  /\ Spend("stops")
  /\ \/ held[n] = {} /\ UNCHANGED net
     \/ /\ held[n] # {}
        /\ \E targets \in SUBSET watched[n] \ {{}} : \E f \in Chunked(held[n], targets) :
             net' = net \cup {Request(n, t, Share(f, t), "shutdown") : t \in {f[d] : d \in held[n]}}
  /\ phase' = [phase EXCEPT ![n] = "draining"]
  /\ disputed' = disputed \cup {d \in held[n] : Handing(d)}
  /\ UNCHANGED <<db, lists, memory, todo, missed, task>>

\* The process is gone, and with it everything in memory.  A delegation it was
\* accepting is never answered.
Taken(n) == UNION {task[n][k].done : k \in Kinds}
Stops(n) ==
  /\ phase' = [phase EXCEPT ![n] = "down"]
  /\ peers' = [peers EXCEPT ![n] = {}]
  /\ watched' = [watched EXCEPT ![n] = {}]
  /\ held' = [held EXCEPT ![n] = {}]
  /\ sched' = [sched EXCEPT ![n] = {}]
  /\ jobs' = [jobs EXCEPT ![n] = {}]
  /\ todo' = [todo EXCEPT ![n] = {}]
  /\ task' = [task EXCEPT ![n] = [k \in Kinds |-> Idle]]
  /\ disputed' = disputed \cup Taken(n)

\* After two seconds NODE_LEAVE is sent and main returns.
Leave(n) ==
  /\ phase[n] = "draining"
  /\ net' = net \cup {NodeLeave(n, t) : t \in peers[n]}
  /\ Stops(n)
  /\ UNCHANGED <<db, missed, spent>>

\* A crash; also a shutdown_delegation that ends in an error (no active node, an
\* unreadable device), after which main returns without NODE_LEAVE.
Crash(n) ==
  /\ Up(n)
  /\ Spend("stops")
  /\ Stops(n)
  /\ UNCHANGED <<db, missed, net>>

\* handle_node_leave: the node is forgotten, its devices are not looked at.
HandleLeave(n, m) ==
  /\ m.type = "leave"
  /\ Remove(n, m.from)
  /\ UNCHANGED <<db, phase, memory, todo, missed, task, disputed, spent>>

\* Slip: every owned device is released, not only the accepted ones.
HandleAcceptAll(n, m) ==
  /\ m.type = "accept"
  /\ ~InGuard(n)
  /\ held' = [held EXCEPT ![n] = {}]
  /\ sched' = [sched EXCEPT ![n] = @ \ m.devs]
  /\ UNCHANGED <<db, phase, lists, jobs, todo, missed, task, disputed, spent>>

\* handle_delegation_accept: both sets, whoever owns the devices by now.  The
\* job stays in the scheduler.
HandleAccept(n, m) ==
  /\ m.type = "accept"
  /\ ~InGuard(n)
  /\ held' = [held EXCEPT ![n] = @ \ m.devs]
  /\ sched' = [sched EXCEPT ![n] = @ \ m.devs]
  /\ UNCHANGED <<db, phase, lists, jobs, todo, missed, task, disputed, spent>>

-----------------------------------------------------------------------------
(* delegation.rs: the accepting side *)

\* A node that is not active answers with DELEGATE_REJECT; so may one that is
\* overloaded, unless the sender is shutting down.  The sender only logs it
\* (handle_delegation_reject).
RejectRequest(n, m) ==
  /\ m.type \in {"rebalance", "shutdown"}
  /\ m.type = "rebalance" \/ ~Active(n)
  /\ net' = net \ {m}
  /\ UNCHANGED <<db, phase, lists, memory, todo, missed, task, disputed, spent>>

AcceptRequest(n, m) ==
  /\ m.type \in {"rebalance", "shutdown"}
  /\ Active(n)
  /\ ~InGuard(n)
  /\ Goto(n, "server", Accepting("accept", m.from, m.devs, {}, None))
  /\ net' = net \ {m}
  /\ UNCHANGED <<db, phase, lists, memory, todo, missed, disputed, spent>>

\* Slip: the owner is written, owned_devices is not.
TakeWithoutHolding(n, d) ==
  LET t == task[n]["server"] IN
  /\ t.pc = "accept" /\ d \in t.devs
  /\ Own(n, d)
  /\ Goto(n, "server", Accepting("schedule", t.peer, t.devs \ {d}, t.done \cup {d}, d))
  /\ UNCHANGED <<row, phase, lists, memory, todo, missed, net, disputed, spent>>

\* accept_delegation, for each device: set_device_owner, and no await before the
\* insertion into owned_devices.
Take(n, d) ==
  LET t == task[n]["server"] IN
  /\ t.pc = "accept" /\ d \in t.devs
  /\ Own(n, d) /\ Hold(n, d)
  /\ Goto(n, "server", Accepting("schedule", t.peer, t.devs \ {d}, t.done \cup {d}, d))
  /\ UNCHANGED <<row, phase, lists, sched, jobs, todo, missed, net, disputed, spent>>

\* schedule_delegated_device, at the time of the row the sender happened to read:
\* get_scheduled_connection has no order, and the rows of past connections stay.
\* A job for a time that is past never fires.  Before enable_cluster_mode the
\* scheduler has no set to add to.
ScheduleTaken(n) ==
  LET t == task[n]["server"] IN
  /\ t.pc = "schedule"
  /\ \/ row[t.now] = "awaiting" /\ jobs' = [jobs EXCEPT ![n] = @ \cup {t.now}] /\ UNCHANGED missed
     \/ UNCHANGED jobs /\ missed' = missed \cup {t.now}
  /\ sched' = [sched EXCEPT ![n] = @ \cup {t.now}]
  /\ Goto(n, "server", Accepting(IF t.devs = {} THEN "reply" ELSE "accept",
                                 t.peer, t.devs, t.done, None))
  /\ UNCHANGED <<db, phase, lists, held, todo, net, disputed, spent>>

\* The guard is dropped, then DELEGATE_ACCEPT is sent.
ReplyAccept(n) ==
  LET t == task[n]["server"] IN
  /\ t.pc = "reply"
  /\ net' = net \cup {Accept(n, t.peer, t.done)}
  /\ Goto(n, "server", Idle)
  /\ UNCHANGED <<db, phase, lists, memory, todo, missed, disputed, spent>>

\* A database error: what was taken stays taken, with a job or without, and the
\* sender is not told.
AcceptError(n) ==
  LET t == task[n]["server"] IN
  /\ t.pc \in {"accept", "schedule"}
  /\ Spend("failures")
  /\ jobs' \in {jobs, [jobs EXCEPT ![n] = @ \cup ({t.now} \cap Devices)]}
  /\ disputed' = disputed \cup t.done
  /\ Goto(n, "server", Idle)
  /\ UNCHANGED <<db, phase, lists, held, sched, todo, missed, net>>

-----------------------------------------------------------------------------
(* Death of a node: failure_detector.rs, server.rs, redistribute_from_failed *)

\* A task of n takes the node for dead and takes note of the others.  When the
\* second task of n hears of it too, it finds nothing left to do.
DeclareDead(n, k, dead) ==
  /\ Serving(n) /\ task[n][k].pc = "idle"
  /\ dead \in peers[n] /\ ~Up(dead)
  /\ \A m \in net : m.from # dead
  /\ \A j \in Kinds : task[n][j].peer # dead
  /\ Goto(n, k, Redistributing("redistribute", dead, peers[n] \ {dead}, NoPlan))
  /\ UNCHANGED <<db, phase, lists, memory, todo, missed, net, disputed, spent>>

\* Slip: the detector removes the node and leaves its devices to the others.
ForgetOnly(n, dead) ==
  /\ Serving(n) /\ task[n]["detector"].pc = "idle"
  /\ dead \in watched[n] /\ ~Up(dead)
  /\ Remove(n, dead)
  /\ UNCHANGED <<db, phase, memory, todo, missed, net, disputed, spent, task>>

\* handle_dead_node: the detector's timeout.  It tells the others.  Only an entry
\* that said Active can have become suspect, and then dead.
HandleDeadNode(n, dead) == dead \in watched[n] /\ DeclareDead(n, "detector", dead)

\* handle_node_dead: NODE_DEAD from a node whose detector was earlier; it arrives
\* while the node is still down.
HandleNodeDead(n, dead) ==
  /\ \E p \in Nodes \ {n} : Serving(p) /\ (dead \notin peers[p] \/ task[p]["detector"].peer = dead)
  /\ DeclareDead(n, "server", dead)

\* Devices in the order of the table go round the nodes in the order of their
\* device counts: every node gets as many as any other, or one more.
RoundRobin(devs, nodes) ==
  {f \in [devs -> nodes] :
     \A s, t \in nodes : Cardinality(Share(f, s)) <= Cardinality(Share(f, t)) + 1}

\* With the guard, the devices the table still gives to the dead node.  Of the
\* nodes noted, those that were Active, and the node itself.
ReadOrphans(n, k) ==
  LET t == task[n][k] IN
  /\ t.pc = "redistribute"
  /\ ~InGuard(n)
  /\ \E active \in SUBSET t.nodes :
       \E plan \in RoundRobin({d \in Devices : owner[d] = t.peer}, active \cup {n}) :
         Goto(n, k, Redistributing("assign", t.peer, {}, plan))
  /\ UNCHANGED <<db, phase, lists, memory, todo, missed, net, disputed, spent>>

\* Slip: the orphans get the nil owner and wait for claim_unassigned_devices.
AssignNil(n, k, d) ==
  LET t == task[n][k] IN
  /\ t.pc = "assign" /\ d \in DOMAIN t.plan
  /\ Own(None, d)
  /\ Goto(n, k, Redistributing("assign", t.peer, {},
                               [e \in DOMAIN t.plan \ {d} |-> t.plan[e]]))
  /\ disputed' = disputed \cup {d}
  /\ UNCHANGED <<row, phase, lists, memory, todo, missed, net, spent>>

\* set_device_owner; a node that assigns a device to itself also holds it, but
\* schedules nothing.
Assign(n, k, d) ==
  LET t == task[n][k] IN
  /\ t.pc = "assign" /\ d \in DOMAIN t.plan
  /\ Own(t.plan[d], d)
  /\ IF t.plan[d] = n THEN Hold(n, d) ELSE UNCHANGED held
  /\ Goto(n, k, Redistributing("assign", t.peer, {},
                               [e \in DOMAIN t.plan \ {d} |-> t.plan[e]]))
  /\ disputed' = disputed \cup {d}
  /\ UNCHANGED <<row, phase, lists, sched, jobs, todo, missed, net, spent>>

\* remove_node, when all are assigned.
Forget(n, k) ==
  LET t == task[n][k] IN
  /\ t.pc = "assign" /\ t.plan = NoPlan
  /\ Remove(n, t.peer)
  /\ Goto(n, k, Idle)
  /\ UNCHANGED <<db, phase, memory, todo, missed, net, disputed, spent>>

\* A database error: the detector logs it and forgets the node; the server leaves
\* it in the list as Dead, which no one looks at again.
AssignError(n, k) ==
  LET t == task[n][k] IN
  /\ \/ t.pc = "redistribute" /\ ~InGuard(n)
     \/ t.pc = "assign" /\ t.plan # NoPlan
  /\ Spend("failures")
  /\ Remove(n, t.peer)
  /\ Goto(n, k, Idle)
  /\ UNCHANGED <<db, phase, memory, todo, missed, net, disputed>>

-----------------------------------------------------------------------------
(* manager.rs start and main.rs: from a new process to a running node *)

\* load_from_database.  Before enable_cluster_mode the scheduler owns everything.
\* Timing: a process takes longer to start than a datagram lives.
Start(n) ==
  /\ phase[n] = "down"
  /\ \A m \in net : n \notin {m.from, m.to}
  /\ spent.starts < MaxStarts /\ spent' = [spent EXCEPT !.starts = @ + 1]
  /\ phase' = [phase EXCEPT ![n] = IF n \in FirstNodes THEN "claiming" ELSE "joining"]
  /\ held' = [held EXCEPT ![n] = {d \in Devices : owner[d] = n}]
  /\ sched' = [sched EXCEPT ![n] = Devices]
  /\ todo' = [todo EXCEPT ![n] = IF n \in FirstNodes THEN Devices ELSE {}]
  /\ UNCHANGED <<db, lists, jobs, task, net, disputed, missed>>

\* claim_all_devices: every device, whoever owned it.
Claim(n, d) ==
  /\ phase[n] = "claiming" /\ d \in todo[n]
  /\ Own(n, d) /\ Hold(n, d)
  /\ todo' = [todo EXCEPT ![n] = @ \ {d}]
  /\ disputed' = disputed \cup {e \in {d} : owner[e] # n}
  /\ UNCHANGED <<row, phase, lists, sched, jobs, task, net, missed, spent>>

\* An error ends main.
ClaimError(n) ==
  /\ phase[n] = "claiming" /\ todo[n] # {}
  /\ Spend("failures")
  /\ Stops(n)
  /\ UNCHANGED <<db, missed, net>>

\* join_cluster waits for two seconds; claim_unassigned_devices asks for the nil
\* owner, which the table never holds.  The node is registered and active, and its
\* tasks begin.
BeginServing(n) ==
  /\ phase[n] \in {"claiming", "joining"} /\ todo[n] = {}
  /\ phase' = [phase EXCEPT ![n] = "serving"]
  /\ UNCHANGED <<db, lists, memory, todo, missed, task, net, disputed, spent>>

\* get_owned_devices, then enable_cluster_mode: two guards.
ReadOwned(n) ==
  /\ phase[n] = "serving" /\ ~InGuard(n)
  /\ phase' = [phase EXCEPT ![n] = "snapped"]
  /\ todo' = [todo EXCEPT ![n] = held[n]]
  /\ UNCHANGED <<db, lists, memory, task, net, disputed, missed, spent>>

EnableClusterMode(n) ==
  /\ phase[n] = "snapped" /\ ~InGuard(n)
  /\ phase' = [phase EXCEPT ![n] = "clustered"]
  /\ sched' = [sched EXCEPT ![n] = todo[n]]
  /\ UNCHANGED <<db, lists, held, jobs, todo, missed, task, net, disputed, spent>>

\* Slip: the rows are taken for those of other nodes.
ReadAwaitingNone(n) ==
  /\ phase[n] = "clustered" /\ ~InGuard(n)
  /\ phase' = [phase EXCEPT ![n] = "reloading"]
  /\ todo' = [todo EXCEPT ![n] = {}]
  /\ UNCHANGED <<db, lists, memory, task, net, disputed, missed, spent>>

\* reload_active_connections: the awaiting rows of owned devices.
ReadAwaiting(n) ==
  /\ phase[n] = "clustered" /\ ~InGuard(n)
  /\ phase' = [phase EXCEPT ![n] = "reloading"]
  /\ todo' = [todo EXCEPT ![n] = {d \in sched[n] : row[d] = "awaiting"}]
  /\ UNCHANGED <<db, lists, memory, task, net, disputed, missed, spent>>

\* A connection due within five minutes is marked lost, another gets a job.  The
\* update makes all rows of the device equal.
Reload(n, d) ==
  /\ phase[n] = "reloading" /\ d \in todo[n]
  /\ \/ /\ row' = [row EXCEPT ![d] = "lost"]
        /\ missed' = missed \cup {d}
        /\ UNCHANGED jobs
     \/ /\ row' = [row EXCEPT ![d] = "awaiting"]
        /\ jobs' = [jobs EXCEPT ![n] = @ \cup {d}]
        /\ UNCHANGED missed
  /\ todo' = [todo EXCEPT ![n] = @ \ {d}]
  /\ UNCHANGED <<owner, phase, lists, held, sched, task, net, disputed, spent>>

ReloadError(n) ==
  /\ phase[n] = "reloading" /\ todo[n] # {}
  /\ Spend("failures")
  /\ Stops(n)
  /\ UNCHANGED <<db, missed, net>>

Run(n) ==
  /\ phase[n] = "reloading" /\ todo[n] = {}
  /\ phase' = [phase EXCEPT ![n] = "running"]
  /\ UNCHANGED <<db, lists, memory, todo, missed, task, net, disputed, spent>>

\* What p says of itself in heartbeats and answers: Active, or Draining.
Noted(list, n, p) == IF Active(p) THEN With(list, n, p) ELSE Without(list, n, p)

\* handle_node_join at n: p, which starts, was told of n or got a cluster.join, is
\* entered as Starting.  The answer says what n is (handle_status_response).
HandleNodeJoin(n, p) ==
  /\ n # p /\ Serving(n)
  /\ \/ /\ phase[p] = "joining"
        /\ peers' = With(peers, n, p)
        /\ watched' = Without(watched, n, p)
        /\ UNCHANGED spent
     \/ /\ Serving(p)
        /\ IF n \in peers[p] THEN Spend("requests") ELSE UNCHANGED spent
        /\ peers' = With(With(peers, n, p), p, n)
        /\ watched' = Noted(Without(watched, n, p), p, n)
  /\ UNCHANGED <<db, phase, memory, todo, missed, task, net, disputed>>

\* handle_heartbeat at n, of a heartbeat that p sends to the nodes in its list: the
\* entry says Active or, while p shuts down, Draining.
HandleHeartbeat(n, p) ==
  /\ Serving(n) /\ Serving(p) /\ n \in peers[p]
  /\ peers' = With(peers, n, p)
  /\ watched' = Noted(watched, n, p)
  /\ UNCHANGED <<db, phase, memory, todo, missed, task, net, disputed, spent>>

\* A datagram is lost on its way or finds no process.  A delegating node that is
\* up then keeps devices that were taken from it.
Lose(m) ==
  /\ net' = net \ {m}
  /\ disputed' = disputed \cup (IF m.type = "accept" /\ Up(m.to) THEN m.devs ELSE {})
  /\ UNCHANGED <<db, phase, lists, memory, todo, missed, task, spent>>

-----------------------------------------------------------------------------

\* handle_message: one datagram at a time.
Receive(n, m) ==
  /\ m.to = n /\ Serving(n) /\ task[n]["server"].pc = "idle"
  /\ \/ RejectRequest(n, m) \/ AcceptRequest(n, m)
     \/ /\ HandleAccept(n, m) \/ HandleLeave(n, m)
        /\ net' = net \ {m}

ServerStep(n) ==
  \/ \E d \in Devices : Take(n, d)
  \/ ScheduleTaken(n) \/ ReplyAccept(n)
RedistributeStep(n, k) ==
  \/ ReadOrphans(n, k) \/ Forget(n, k)
  \/ \E d \in Devices : Assign(n, k, d)
StartStep(n) ==
  \/ BeginServing(n) \/ ReadOwned(n) \/ EnableClusterMode(n) \/ ReadAwaiting(n) \/ Run(n)
  \/ \E d \in Devices : Claim(n, d) \/ Reload(n, d)
Learn(n) == \E p \in Nodes : HandleNodeJoin(n, p) \/ HandleHeartbeat(n, p)
Errors(n) ==
  \/ AcceptError(n) \/ ClaimError(n) \/ ReloadError(n) \/ \E k \in Kinds : AssignError(n, k)

Next ==
  \/ \E n \in Nodes :
       \/ \E to \in Nodes, devs \in SUBSET Devices : Delegate(n, to, devs)
       \/ Shutdown(n) \/ Leave(n) \/ Crash(n) \/ Start(n)
       \/ \E m \in net : Receive(n, m)
       \/ ServerStep(n) \/ StartStep(n) \/ Errors(n)
       \/ \E k \in Kinds : RedistributeStep(n, k)
       \/ Learn(n)
       \/ \E p \in Nodes : HandleDeadNode(n, p) \/ HandleNodeDead(n, p)
  \/ \E m \in net : Lose(m)

Spec == Init /\ [][Next]_vars

\* A node does some of the work it has: tokio runs every ready task, a datagram is
\* handled or lost, an entry the detector looks at times out when its node is down.  Each of these
\* comes to an end, so nothing is said about their order.  Nothing says that a
\* node starts again.
Work(n) ==
  \/ ServerStep(n) \/ StartStep(n) \/ Leave(n)
  \/ \E k \in Kinds : RedistributeStep(n, k)
  \/ \E p \in Nodes : HandleDeadNode(n, p)
  \/ \E m \in net : m.to = n /\ (Receive(n, m) \/ Lose(m))
Fairness == \A n \in Nodes : WF_vars(Work(n))

LiveSpec == Spec /\ Fairness

-----------------------------------------------------------------------------
(* Properties *)

Plans == UNION {[devs -> Nodes] : devs \in SUBSET Devices}
Tasks == [pc : TaskPCs, peer : Nodes \cup {None}, devs : SUBSET Devices, done : SUBSET Devices,
          now : Devices \cup {None}, nodes : SUBSET Nodes, plan : Plans]
Messages == [type : {"rebalance", "shutdown", "accept", "leave"}, from : Nodes, to : Nodes,
             devs : SUBSET Devices]
TypeOK ==
  /\ owner \in [Devices -> Nodes]
  /\ row \in [Devices -> {"awaiting", "lost"}]
  /\ phase \in [Nodes -> Phases]
  /\ peers \in [Nodes -> SUBSET Nodes] /\ watched \in [Nodes -> SUBSET Nodes]
  /\ held \in [Nodes -> SUBSET Devices] /\ sched \in [Nodes -> SUBSET Devices]
  /\ jobs \in [Nodes -> SUBSET Devices] /\ todo \in [Nodes -> SUBSET Devices]
  /\ task \in [Nodes -> [Kinds -> Tasks]]
  /\ net \subseteq Messages
  /\ disputed \subseteq Devices /\ missed \subseteq Devices

\* What a single undisturbed hand-over guarantees, in every order of datagrams
\* and whatever else crashes or starts: the owner in T_BUCKETS has the device in
\* owned_devices, and a node that has it without being the owner is about to be
\* told.  Only these events can break it for a device: a lost DELEGATE_ACCEPT,
\* an error or a crash before it is sent, a second delegation before the first
\* is over, a delegation to oneself, claim_all_devices and redistribution.
AcceptUnderWay(n, d) ==
  \/ \E m \in net : m.type = "accept" /\ m.to = n /\ d \in m.devs
  \/ \E p \in Nodes : task[p]["server"].peer = n /\ d \in task[p]["server"].done
CustodyExact ==
  \A n \in Nodes, d \in Devices \ disputed : Up(n) =>
    /\ owner[d] = n => d \in held[n]
    /\ d \in held[n] /\ owner[d] # n => AcceptUnderWay(n, d)

\* The owner of such a device wakes it up: once its node runs, it has a job for
\* it, unless a reload found the connection due and marked it lost, or the time
\* it was delegated with was that of a past connection.
OwnerWakes ==
  \A n \in Nodes, d \in Devices \ disputed :
    phase[n] \in {"running", "draining"} /\ owner[d] = n =>
      \/ d \in jobs[n]
      \/ d \in missed
      \/ task[n]["server"].now = d

\* The devices of a node that died without taking its leave do not stay with it,
\* as long as one list has it as Active (get_suspect_candidates): the detector of
\* that node gives them to others in T_BUCKETS (handle_dead_node,
\* redistribute_from_failed), unless a database call fails or another node stops
\* too.  An entry left at Starting by NODE_JOIN or at Draining by a heartbeat does
\* not do.
Known(n) ==
  /\ \A m \in net : m.type = "leave" => m.from # n
  /\ \E a \in Nodes : /\ Serving(a) /\ n \in watched[a]
                      /\ \A k \in Kinds : task[a][k].peer # n
DeadOwnsNothing ==
  \A n \in Nodes, d \in Devices :
    ~Up(n) /\ owner[d] = n /\ Known(n)
      ~> Up(n) \/ owner[d] # n \/ spent.failures > 0 \/ spent.stops > 1

\* The cluster keeps the promise of module Custody.
Abstract == INSTANCE Custody WITH holders <- [d \in Devices |-> {n \in Nodes : d \in held[n]}],
                                  up <- {n \in Nodes : Up(n)}
ImplementsCustody == Abstract!Spec
=============================================================================
