----------------------------- MODULE Membership -----------------------------
(***************************************************************************)
(* The membership list of each node: who is in it, with which status, and  *)
(* how long ago it was last heard of.  Heartbeats, NODE_JOIN and status    *)
(* responses fill it; NODE_LEAVE, the failure detector and NODE_DEAD empty *)
(* it.                                                                     *)
(*                                                                         *)
(* Time is counted in heartbeat intervals.  The suspect and dead timeouts  *)
(* are whole numbers of them (3 and 1 by default).  In each interval every *)
(* heartbeat loop ticks once, the detectors, which look every 10 seconds,  *)
(* have looked, and datagrams, probes, database calls, the start and the   *)
(* end of a process are over.                                              *)
(*                                                                         *)
(* A process has three tasks: the heartbeat loop, the detector, and the    *)
(* server, which handles one datagram at a time.  Module Ownership says    *)
(* what becomes of the devices of a node that is declared dead.            *)
(***************************************************************************)
EXTENDS Integers, FiniteSets

CONSTANTS Nodes,
          FirstSeeds,      \* the seeds in each node's configuration
          SuspectTimeout,  \* in heartbeat intervals
          DeadTimeout,
          Disturbances,    \* bound: how many lost heartbeats go with how many stops
          None

\* In a cluster whose nodes know each other a node has seeds: it joined through them, or
\* saved them when the others joined (handle_node_join).
ASSUME MembershipAssumption ==
  /\ IsFiniteSet(Nodes) /\ None \notin Nodes
  /\ FirstSeeds \in [Nodes -> SUBSET Nodes]
  /\ \A n \in Nodes : Nodes # {n} => FirstSeeds[n] \ {n} # {}
  /\ SuspectTimeout \in Nat \ {0} /\ DeadTimeout \in Nat \ {0}
  /\ <<0, 0>> \in Disturbances /\ Disturbances \subseteq Nat \X Nat

VARIABLES
  local,     \* status of the process: its local_node's, "down", or "leaving" (Draining after
             \* NODE_LEAVE was sent)
  status,    \* status[n][p]: the entry of p in the list of n, or "unknown"
  age,       \* age[n][p]: intervals since last_heartbeat
  seeds,     \* cluster_seeds in the configuration file of each node
  detector,  \* the failure detector of each node
  server,    \* the cluster server of each node
  beaten,    \* nodes whose heartbeat loop has ticked in this interval
  net,       \* datagrams under way, heartbeats excepted
  lost,      \* history: number of lost heartbeats
  unheard,   \* history: the nodes whose heartbeats were lost
  stops,     \* history: number of stops
  stopped    \* history: the nodes that stopped

vars == <<local, status, age, seeds, detector, server, beaten, net, lost, unheard,
          stops, stopped>>
lists == <<status, age>>
tasks == <<detector, server>>
history == <<lost, unheard, stops, stopped>>

\* Bounds on the heartbeats of n that do not reach the nodes missed, and on the stops.
Loses(n, missed) ==
  /\ lost' = lost + Cardinality(missed)
  /\ <<lost', stops>> \in Disturbances
  /\ unheard' = IF missed = {} THEN unheard ELSE unheard \cup {n}
Stops(n) ==
  /\ <<lost, stops + 1>> \in Disturbances
  /\ stops' = stops + 1 /\ stopped' = stopped \cup {n}

\* An age is counted up to what the detector tells apart.
MaxAge == SuspectTimeout + DeadTimeout + 1

Up(n) == local[n] # "down"
Serving(n) == local[n] \in {"active", "draining", "leaving"}
Told(n) == IF local[n] = "leaving" THEN "draining" ELSE local[n]

\* is_available, is_reachable, active_nodes, reachable_nodes, get_node.
Known(n, p) == status[n][p] # "unknown"
ActiveNodes(n) == {p \in Nodes : status[n][p] = "active"}
ReachableNodes(n) == {p \in Nodes : status[n][p] \in {"starting", "active", "draining"}}

Idle == [pc |-> "idle", node |-> None, todo |-> {}]
At(pc, p, todo) == [pc |-> pc, node |-> p, todo |-> todo]

\* A datagram for a process that is gone is gone: see Gone.
ToAll(targets, type, from, about) ==
  {[type |-> type, from |-> from, to |-> t, about |-> about] : t \in {t \in targets : Up(t)}}

Init ==
  /\ local = [n \in Nodes |-> "active"]
  /\ status = [n \in Nodes |-> [p \in Nodes |-> IF p = n THEN "unknown" ELSE "active"]]
  /\ age = [n \in Nodes |-> [p \in Nodes |-> 0]]
  /\ seeds = FirstSeeds
  /\ detector = [n \in Nodes |-> Idle]
  /\ server = [n \in Nodes |-> Idle]
  /\ beaten = {}
  /\ net = {}
  /\ lost = 0 /\ unheard = {}
  /\ stops = 0 /\ stopped = {}

\* remove_node.
Remove(n, p) ==
  /\ status' = [status EXCEPT ![n][p] = "unknown"]
  /\ age' = [age EXCEPT ![n][p] = 0]

-----------------------------------------------------------------------------
(* heartbeat.rs *)

\* Slip: a heartbeat of an unknown node is ignored.
HeartbeatOfKnown(n) ==
  /\ Serving(n) /\ n \notin beaten
  /\ \A p \in ReachableNodes(n) : local[p] # "starting" /\ server[p].pc = "idle"
  /\ \E got \in SUBSET {p \in ReachableNodes(n) : Serving(p)} :
       /\ Loses(n, {p \in ReachableNodes(n) \ got : Serving(p)})
       /\ status' = [p \in Nodes |-> IF p \in got /\ Known(p, n)
                                     THEN [status[p] EXCEPT ![n] = Told(n)] ELSE status[p]]
       /\ age' = [p \in Nodes |-> IF p \in got THEN [age[p] EXCEPT ![n] = 0] ELSE age[p]]
  /\ beaten' = beaten \cup {n}
  /\ UNCHANGED <<local, seeds, tasks, net, stops, stopped>>

\* The loop ticks: every reachable node that is up, and whose server is free,
\* takes the status of n.  Lost heartbeats are counted.
Heartbeat(n) ==
  /\ Serving(n) /\ n \notin beaten
  /\ \A p \in ReachableNodes(n) : local[p] # "starting" /\ server[p].pc = "idle"
  /\ \E got \in SUBSET {p \in ReachableNodes(n) : Serving(p)} :
       /\ Loses(n, {p \in ReachableNodes(n) \ got : Serving(p)})
       /\ status' = [p \in Nodes |-> IF p \in got THEN [status[p] EXCEPT ![n] = Told(n)]
                                     ELSE status[p]]
       /\ age' = [p \in Nodes |-> IF p \in got THEN [age[p] EXCEPT ![n] = 0] ELSE age[p]]
  /\ beaten' = beaten \cup {n}
  /\ UNCHANGED <<local, seeds, tasks, net, stops, stopped>>

-----------------------------------------------------------------------------
(* server.rs: status responses *)

\* handle_status_response at n, of the response handle_status_request built at p:
\* whoever it names and n does not know gets a NODE_JOIN.
Introductions(n, p) ==
  ToAll({q \in ReachableNodes(p) \ {n} : ~Known(n, q) /\ q # p}, "join", n, None)

-----------------------------------------------------------------------------
(* failure_detector.rs *)

DetectorAt(n, pc) == Serving(n) /\ detector[n].pc = pc
Detector(n, d) == detector' = [detector EXCEPT ![n] = d]

\* Marked by mark_suspect in the lists of ns; only an active entry changes.
MarkSuspect(ns, p) ==
  status' = [n \in Nodes |-> IF n \in ns /\ status[n][p] = "active"
                             THEN [status[n] EXCEPT ![p] = "suspect"] ELSE status[n]]

SuspectCandidates(n) == {p \in Nodes : status[n][p] = "active" /\ age[n][p] > SuspectTimeout}

\* get_suspect_candidates and handle_suspect_node: the entry is marked, the
\* reachable nodes that get NODE_SUSPECT mark theirs (handle_node_suspect), and one
\* active node is asked to probe; without one the entry stays suspect.
HandleSuspectNode(n, p) ==
  /\ DetectorAt(n, "idle")
  /\ p \in SuspectCandidates(n)
  /\ \E got \in SUBSET {q \in ReachableNodes(n) \ {p} : Serving(q) /\ server[q].pc = "idle"} :
       MarkSuspect(got \cup {n}, p)
  /\ LET helpers == ActiveNodes(n) \ {p} IN
     \/ helpers = {} /\ UNCHANGED detector
     \/ \E h \in helpers : Detector(n, At("probing", p, {h}))
  /\ UNCHANGED <<local, age, seeds, server, beaten, net, history>>

\* handle_probe_request by the helper h.  Its server sleeps while the answer to its
\* own status request waits in the socket: alive is a node it heard of just before.
\* The answer is handled afterwards (handle_status_response).
ProbeAlive(h, p) == Serving(h) /\ Known(h, p) /\ age[h][p] = 0
Pinged(h, p) == Serving(h) /\ server[h].pc = "idle" /\ Known(h, p) /\ Serving(p)

\* The end of indirect_probe, after 5 seconds: not the answer is looked at, but
\* the time the node was last heard of, which the answer refreshes.
ProbeEnds(n) ==
  LET p == detector[n].node
      h == CHOOSE q \in detector[n].todo : TRUE
  IN
  /\ DetectorAt(n, "probing")
  /\ \E alive \in {FALSE, ProbeAlive(h, p)}, pinged \in {FALSE, Pinged(h, p)} :
       LET saved == Known(n, p) /\ (alive \/ age[n][p] <= SuspectTimeout)
           hears == (IF saved THEN {n} ELSE {}) \cup (IF pinged THEN {h} ELSE {})
       IN /\ status' = [q \in Nodes |-> IF q \notin hears THEN status[q]
                          ELSE [status[q] EXCEPT ![p] = IF q = n THEN "active" ELSE Told(p)]]
          /\ age' = [q \in Nodes |-> IF q \in hears THEN [age[q] EXCEPT ![p] = 0] ELSE age[q]]
          /\ net' = net \cup (IF pinged THEN Introductions(h, p) ELSE {})
  /\ Detector(n, Idle)
  /\ UNCHANGED <<local, seeds, server, beaten, history>>

\* Slip: a suspect is not a candidate.
DeadCandidatesActive(n) ==
  {p \in Nodes : status[n][p] = "active" /\ age[n][p] > SuspectTimeout + DeadTimeout}

\* get_dead_candidates: the list is read once and not again.
DeadCandidates(n) ==
  {p \in Nodes : status[n][p] = "suspect" /\ age[n][p] > SuspectTimeout + DeadTimeout}
FindDead(n) ==
  /\ DetectorAt(n, "idle")
  /\ DeadCandidates(n) # {}
  /\ Detector(n, At("dead", None, DeadCandidates(n)))
  /\ UNCHANGED <<local, lists, seeds, server, beaten, net, history>>

WithoutDead(n, p) ==
  IF detector[n].todo = {p} THEN Idle ELSE At("dead", None, detector[n].todo \ {p})

\* handle_dead_node, for each candidate: mark_dead ...
HandleDeadNode(n, p) ==
  /\ DetectorAt(n, "dead") /\ detector[n].node = None
  /\ p \in detector[n].todo
  /\ IF Known(n, p)
       THEN /\ status' = [status EXCEPT ![n][p] = "dead"]
            /\ Detector(n, At("dead", p, detector[n].todo))
       ELSE /\ UNCHANGED status
            /\ Detector(n, WithoutDead(n, p))
  /\ UNCHANGED <<local, age, seeds, server, beaten, net, history>>

\* ... the database, and NODE_DEAD to whoever is reachable by then: to the node
\* itself, when its heartbeat has come meanwhile ...
BroadcastDead(n) ==
  LET p == detector[n].node IN
  /\ DetectorAt(n, "dead") /\ p # None
  /\ net' = net \cup ToAll(ReachableNodes(n), "dead", n, p)
  /\ Detector(n, At("remove", p, detector[n].todo))
  /\ UNCHANGED <<local, lists, seeds, server, beaten, history>>

\* ... redistribution, and remove_node.
RemoveDead(n) ==
  LET p == detector[n].node IN
  /\ DetectorAt(n, "remove")
  /\ Remove(n, p)
  /\ Detector(n, WithoutDead(n, p))
  /\ UNCHANGED <<local, seeds, server, beaten, net, history>>

-----------------------------------------------------------------------------
(* Time *)

\* A new interval.  In the last one every loop has ticked, the detectors have found
\* all there was to find, and what was begun has ended.
Settled(n) ==
  /\ detector[n].pc = "idle" /\ server[n].pc = "idle"
  /\ SuspectCandidates(n) = {} /\ DeadCandidates(n) = {}
Older == [n \in Nodes |-> [p \in Nodes |->
            IF Known(n, p) /\ age[n][p] < MaxAge THEN age[n][p] + 1 ELSE age[n][p]]]

\* Slip: the heartbeat loop skips an interval.
TickUnbeaten ==
  /\ net = {}
  /\ \A n \in Nodes : local[n] \in {"down", "active", "draining"} /\ Settled(n)
  /\ age' = Older
  /\ beaten' = {}
  /\ UNCHANGED <<local, status, seeds, tasks, net, history>>

Tick ==
  /\ net = {}
  /\ \A n \in Nodes : /\ local[n] \in {"down", "active", "draining"} /\ Settled(n)
                      /\ Serving(n) => n \in beaten
  /\ age' = Older
  /\ beaten' = {}
  /\ UNCHANGED <<local, status, seeds, tasks, net, history>>

-----------------------------------------------------------------------------
(* server.rs: handle_message *)

\* handle_node_join.  The list of reachable nodes is saved as the seeds; the
\* status response is handled when the server of the joining node runs.
HandleNodeJoin(n, m) ==
  LET p == m.from IN
  /\ m.type = "join"
  /\ local[p] # "starting" /\ server[p].pc = "idle"
  /\ status' = [status EXCEPT ![n][p] = "starting",
                              ![p][n] = IF Serving(p) THEN Told(n) ELSE @]
  /\ age' = [age EXCEPT ![n][p] = 0, ![p][n] = 0]
  /\ seeds' = [seeds EXCEPT ![n] = ReachableNodes(n) \cup {p}]
  /\ net' = (net \ {m}) \cup (IF Serving(p) THEN Introductions(p, n) ELSE {})
  /\ UNCHANGED <<local, tasks, beaten, history>>

HandleNodeLeave(n, m) ==
  /\ m.type = "leave"
  /\ Remove(n, m.from)
  /\ net' = net \ {m}
  /\ UNCHANGED <<local, seeds, tasks, beaten, history>>

\* handle_node_dead marks the entry, works on the devices, and removes it.
HandleNodeDead(n, m) ==
  /\ m.type = "dead"
  /\ status' = [status EXCEPT ![n][m.about] = IF @ = "unknown" THEN @ ELSE "dead"]
  /\ server' = [server EXCEPT ![n] = At("remove", m.about, {})]
  /\ net' = net \ {m}
  /\ UNCHANGED <<local, age, seeds, detector, beaten, history>>
ServerRemoves(n) ==
  /\ Serving(n) /\ server[n].pc = "remove"
  /\ Remove(n, server[n].node)
  /\ server' = [server EXCEPT ![n] = Idle]
  /\ UNCHANGED <<local, seeds, detector, beaten, net, history>>

Receive(n, m) ==
  /\ m.to = n /\ Serving(n) /\ server[n].pc = "idle"
  /\ HandleNodeJoin(n, m) \/ HandleNodeLeave(n, m) \/ HandleNodeDead(n, m)

-----------------------------------------------------------------------------
(* manager.rs *)

\* A new process: join_cluster sends NODE_JOIN to the seeds of the configuration.
Start(n) ==
  /\ ~Up(n)
  /\ \A m \in net : m.from # n
  /\ local' = [local EXCEPT ![n] = "starting"]
  /\ net' = net \cup ToAll(seeds[n] \ {n}, "join", n, None)
  /\ beaten' = beaten \ {n}
  /\ UNCHANGED <<lists, seeds, tasks, history>>

\* After two seconds it is active, and its tasks start.
Activate(n) ==
  /\ local[n] = "starting"
  /\ local' = [local EXCEPT ![n] = "active"]
  /\ UNCHANGED <<lists, seeds, tasks, beaten, net, history>>

\* shutdown: Draining while the devices are delegated, then NODE_LEAVE, then a
\* last call to the database.
Shutdown(n) ==
  /\ local[n] = "active"
  /\ Stops(n)
  /\ local' = [local EXCEPT ![n] = "draining"]
  /\ UNCHANGED <<lists, seeds, tasks, beaten, net, lost, unheard>>
SendLeave(n) ==
  /\ local[n] = "draining"
  /\ local' = [local EXCEPT ![n] = "leaving"]
  /\ net' = net \cup ToAll(ReachableNodes(n), "leave", n, None)
  /\ UNCHANGED <<lists, seeds, tasks, beaten, history>>

\* The end of a process, with its socket.
Gone(n) ==
  /\ net' = {m \in net : m.to # n}
  /\ local' = [local EXCEPT ![n] = "down"]
  /\ status' = [status EXCEPT ![n] = [p \in Nodes |-> "unknown"]]
  /\ age' = [age EXCEPT ![n] = [p \in Nodes |-> 0]]
  /\ detector' = [detector EXCEPT ![n] = Idle]
  /\ server' = [server EXCEPT ![n] = Idle]
Exit(n) ==
  /\ local[n] = "leaving"
  /\ Gone(n)
  /\ UNCHANGED <<seeds, beaten, history>>
Crash(n) ==
  /\ local[n] = "active"
  /\ Stops(n)
  /\ Gone(n)
  /\ UNCHANGED <<seeds, beaten, lost, unheard>>

-----------------------------------------------------------------------------

DetectorStep(n) ==
  \/ \E p \in Nodes : HandleSuspectNode(n, p) \/ HandleDeadNode(n, p)
  \/ ProbeEnds(n) \/ FindDead(n) \/ BroadcastDead(n) \/ RemoveDead(n)
ServerStep(n) == ServerRemoves(n) \/ \E m \in net : Receive(n, m)
Stopping(n) == SendLeave(n) \/ Exit(n)

Next ==
  \/ Tick
  \/ \E n \in Nodes :
       \/ Heartbeat(n) \/ DetectorStep(n) \/ ServerStep(n)
       \/ Start(n) \/ Activate(n) \/ Shutdown(n) \/ Stopping(n) \/ Crash(n)

\* Tokio runs every ready task, timers run out, and sockets are read.
Fairness ==
  /\ WF_vars(Tick)
  /\ \A n \in Nodes :
       /\ WF_vars(Heartbeat(n)) /\ WF_vars(DetectorStep(n)) /\ WF_vars(ServerStep(n))
       /\ WF_vars(Activate(n)) /\ WF_vars(Stopping(n))

Spec == Init /\ [][Next]_vars /\ Fairness

-----------------------------------------------------------------------------
(* Properties *)

\* The detector is accurate: while no heartbeat is lost, two nodes that have not
\* stopped hear each other in every interval and are never suspected, whatever a third
\* does that stops and comes back.  That one may be declared dead while it is back
\* already, by some of them and in the lists of all; until every list has it again it
\* misses heartbeats itself, and must not suspect the others meanwhile
\* (handle_node_suspect takes its word).  The suspect timeout leaves just enough room.
Accurate ==
  unheard = {} /\ stops <= 1 => \A n, p \in Nodes \ stopped : n # p =>
    status[n][p] = "active" /\ age[n][p] <= 1

\* The detector is complete: a node that is down, and does not start again, is
\* Active or suspect in no list in the end.  An entry that says Starting or Draining
\* is not looked at by the detector.
DownIsForgotten ==
  \A p \in Nodes :
    ~Up(p) ~> Up(p) \/ \A n \in Nodes : status[n][p] \in {"unknown", "starting", "draining"}

\* In the end the lists agree: of two active nodes each has the other as Active, or
\* neither has the other.  A live node that was declared dead because its heartbeats
\* were lost comes back, as long as it has not removed the other one too; so does a
\* node that stopped and starts again.  Two nodes stay apart for good only after losses
\* in both directions, or when one starts while its seeds are down: join_cluster does
\* not try again.
Spared(n, p) ==
  \/ lost = 0 /\ (stops <= 1 \/ {n, p} \cap stopped = {})
  \/ stops = 0 /\ lost <= SuspectTimeout + DeadTimeout
FalseDeathHeals ==
  <>[](\A n, p \in Nodes : n # p /\ local[n] = "active" /\ local[p] = "active" =>
         /\ status[n][p] = "active" <=> status[p][n] = "active"
         /\ Spared(n, p) => status[n][p] = "active")
=============================================================================
