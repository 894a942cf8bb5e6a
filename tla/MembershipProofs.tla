-------------------------- MODULE MembershipProofs --------------------------
(***************************************************************************)
(* The failure detector is accurate in a cluster of any size: Accurate,    *)
(* while no heartbeat is lost and one node at most stops, with a suspect   *)
(* timeout of three heartbeat intervals or more.                           *)
(*                                                                         *)
(* The invariant says how far the node that stopped has come.  When it is  *)
(* back, three intervals can be told apart: Joining, in which it hears of  *)
(* every other node; Settling, in which what the others began before they  *)
(* heard of it comes to its end, and all of them have its heartbeat; and   *)
(* Calm, the intervals after that.                                         *)
(***************************************************************************)
EXTENDS Membership, TLAPS

Tolerated == SuspectTimeout >= 3

Locals == {"down", "starting", "active", "draining", "leaving"}
Statuses == {"unknown", "starting", "active", "draining", "suspect", "dead"}
Messages == [type : {"join", "leave", "dead"}, from : Nodes, to : Nodes, about : Nodes \cup {None}]
Types ==
  /\ local \in [Nodes -> Locals]
  /\ status \in [Nodes -> [Nodes -> Statuses]]
  /\ age \in [Nodes -> [Nodes -> Nat]]
  /\ seeds \in [Nodes -> SUBSET Nodes]
  /\ DOMAIN detector = Nodes /\ DOMAIN server = Nodes
  /\ beaten \subseteq Nodes
  /\ net \subseteq Messages
  /\ stops \in Nat /\ stopped \subseteq Nodes

\* At most one node has stopped; every node has seeds, and itself not in its list.
OneStopped ==
  /\ stops <= 1
  /\ stops = 0 => stopped = {}
  /\ \A q \in stopped : stopped = {q}
HasSeeds == \A n \in Nodes : Nodes # {n} => seeds[n] \ {n} # {}
NotListed == \A n \in Nodes : status[n][n] = "unknown"

\* The nodes that have not stopped, and what they know of each other.
Lasting == Nodes \ stopped
Hears(n, p) == status[n][p] = "active" /\ age[n][p] <= 1 /\ (p \in beaten => age[n][p] = 0)
Live(n) == local[n] = "active" /\ \A p \in Lasting \ {n} : Hears(n, p)

\* The tasks and the datagrams have to do with the node that stopped only.
DetectorIn(n) ==
  \/ detector[n] = Idle
  \/ /\ detector[n].pc = "probing" /\ detector[n].node \in stopped
     /\ \E h \in Lasting : detector[n].todo = {h}
  \/ /\ detector[n].pc = "dead" /\ detector[n].node \in stopped \cup {None}
     /\ detector[n].todo \subseteq stopped
  \/ /\ detector[n].pc = "remove" /\ detector[n].node \in stopped
     /\ detector[n].todo \subseteq stopped
ServerIn(n) == server[n] = Idle \/ (server[n].pc = "remove" /\ server[n].node \in stopped)
MessageIn(m) ==
  \/ m.type = "join" /\ m.from \in stopped /\ m.to \in Lasting /\ local[m.from] \in {"starting", "active"}
  \/ m.type = "leave" /\ m.from \in stopped /\ m.to \in Lasting /\ local[m.from] \in {"leaving", "down"}
  \/ m.type = "dead" /\ m.about \in stopped
Still == \A n \in Nodes : detector[n] = Idle /\ server[n] = Idle

\* The stations of the node that stopped.
Draining(q) ==
  /\ local[q] = "draining" /\ Still /\ net = {}
  /\ \A n \in Lasting :
       /\ Hears(q, n)
       /\ status[n][q] \in {"active", "draining"} /\ age[n][q] <= 1
       /\ q \in beaten => age[n][q] = 0
Leaving(q) ==
  /\ local[q] = "leaving" /\ Still
  /\ \A m \in net : m.type = "leave"
  /\ \A n \in Lasting :
       /\ status[q][n] = "active" /\ age[q][n] <= 1
       /\ status[n][q] \in {"active", "draining", "unknown"} /\ age[n][q] <= 1
Blank(q) == detector[q] = Idle /\ \A n \in Nodes : status[q][n] = "unknown" /\ age[q][n] = 0
Join(q, n) == [type |-> "join", from |-> q, to |-> n, about |-> None]
AsksSeeds(q) == \A s \in seeds[q] \ {q} : Join(q, s) \in net
Down(q) == local[q] = "down" /\ Blank(q)
Starting(q) == local[q] = "starting" /\ Blank(q) /\ AsksSeeds(q)
Joining(q) ==
  /\ local[q] = "active" /\ detector[q] = Idle
  /\ \A n \in Lasting : status[q][n] \in {"unknown", "active"} /\ age[q][n] = 0
  /\ AsksSeeds(q) \/ \A n \in Lasting : status[q][n] = "active" \/ Join(q, n) \in net
Settling(q) ==
  /\ local[q] = "active" /\ detector[q] = Idle
  /\ \A m \in net : m.type = "dead"
  /\ \A n \in Lasting :
       /\ status[q][n] = "active" /\ age[q][n] <= 1
       /\ q \in beaten /\ Known(n, q) => age[n][q] = 0
Calm(q) ==
  /\ local[q] = "active" /\ Still /\ net = {}
  /\ \A n \in Lasting :
       /\ status[q][n] = "active" /\ age[q][n] <= 3
       /\ Known(n, q) => age[n][q] <= 1
       /\ q \in beaten => status[n][q] = "active" /\ age[n][q] = 0
       /\ status[n][q] # "active" \/ n \in beaten => age[q][n] <= 2
Station(q) ==
  Draining(q) \/ Leaving(q) \/ Down(q) \/ Starting(q) \/ Joining(q) \/ Settling(q) \/ Calm(q)

\* The inductive invariant.
Lossless ==
  /\ Types /\ OneStopped /\ HasSeeds /\ NotListed
  /\ \A n \in Lasting : Live(n)
  /\ \A n \in Nodes : DetectorIn(n) /\ ServerIn(n)
  /\ \A m \in net : MessageIn(m)
  /\ stopped = {} => Still /\ net = {}
  /\ \A q \in stopped : Station(q)
Inv == stops \in Nat /\ (unheard = {} /\ stops <= 1 => Lossless)

-----------------------------------------------------------------------------
(* What Lossless says of the nodes *)

\* The one that stopped, and the others.
LEMMA TheStopped ==
  ASSUME Lossless, NEW q \in stopped
  PROVE  /\ q \in Nodes /\ stopped = {q} /\ Lasting = Nodes \ {q} /\ Station(q)
         /\ \A n \in Nodes : n = q \/ n \in Lasting
         /\ \A n \in Lasting : n \in Nodes /\ n # q /\ Live(n)
  BY Zenon DEF Lossless, OneStopped, Types, Lasting

\* A lasting node hears the others as before when nothing of theirs changes.
LEMMA LiveKept ==
  ASSUME Lossless, stopped' = stopped, beaten' \subseteq beaten \cup stopped,
         \A n \in Lasting : local'[n] = local[n],
         \A n, p \in Lasting : status'[n][p] = status[n][p] /\ age'[n][p] = age[n][p]
  PROVE  \A n \in Lasting' : Live(n)'
  BY DEF Lossless, Live, Hears, Lasting

-----------------------------------------------------------------------------
(* Time *)

\* A new interval: whoever serves has beaten, and all work is done.
LEMMA TickStep ==
  ASSUME Lossless, Tick
  PROVE  Lossless'
<1>0. Types /\ NotListed
  BY DEF Lossless
<1>1. /\ net = {} /\ age' = Older /\ beaten' = {}
      /\ UNCHANGED <<local, status, seeds, detector, server, net, stops, stopped>>
      /\ \A n \in Nodes : /\ local[n] \in {"down", "active", "draining"}
                          /\ Serving(n) => n \in beaten
                          /\ detector[n].pc = "idle" /\ server[n].pc = "idle"
  BY SMTT(30) DEF Tick, Settled, tasks, history
<1> USE <1>1
<1>2. \A n, p \in Nodes : /\ age[n][p] \in Nat /\ age'[n][p] \in Nat /\ age'[n][p] <= age[n][p] + 1
                          /\ ~Known(n, p) => age'[n][p] = age[n][p]
  <2>1. age \in [Nodes -> [Nodes -> Nat]]
    BY <1>0 DEF Types
  <2> QED
    BY <2>1 DEF Older
<1>3. age' \in [Nodes -> [Nodes -> Nat]]
  BY <1>0 DEF Older, Types
<1>4. Still'
  BY Zenon DEF Lossless, DetectorIn, ServerIn, Still, Idle
<1>5. Types' /\ OneStopped' /\ HasSeeds' /\ NotListed' /\ Lasting' = Lasting
  BY <1>0, <1>3, Zenon DEF Types, OneStopped, HasSeeds, NotListed, Lasting, Lossless
<1>6. \A n \in Nodes : DetectorIn(n)' /\ ServerIn(n)'
  BY <1>4, Zenon DEF Still, DetectorIn, ServerIn
<1>7. \A n \in Lasting' : Live(n)'
  <2> SUFFICES ASSUME NEW n \in Lasting, NEW p \in Lasting, p # n
               PROVE  local'[n] = "active" /\ Hears(n, p)'
    BY <1>5, Zenon DEF Live, Lossless
  <2>1. n \in Nodes /\ p \in Nodes /\ local[n] = "active" /\ local[p] = "active" /\ Hears(n, p)
    BY Zenon DEF Lossless, Live, Lasting
  <2>2. p \in beaten
    BY <2>1 DEF Serving
  <2> QED
    BY <1>2, <2>1, <2>2 DEF Hears
<1>8. ASSUME NEW q \in stopped PROVE Station(q)'
  <2>0. /\ q \in Nodes /\ Station(q) /\ \A n \in Lasting : n \in Nodes /\ n # q /\ n \in beaten
        /\ ~Leaving(q) /\ ~Starting(q) /\ detector'[q] = Idle
    BY <1>4, <1>8, TheStopped, Zenon DEF Live, Serving, Leaving, Starting, Still, Idle
  <2> USE <2>0
  <2>1. Draining(q) => Draining(q)'
    <3> SUFFICES ASSUME Draining(q) PROVE Draining(q)'
      OBVIOUS
    <3>1. q \in beaten /\ local'[q] = "draining" /\ net' = {}
      BY Zenon DEF Draining, Serving
    <3>2. \A n \in Lasting : Hears(q, n)'
      BY <1>2, SMTT(30) DEF Draining, Hears
    <3>3. \A n \in Lasting : status'[n][q] \in {"active", "draining"} /\ age'[n][q] <= 1
      BY <1>2, <3>1 DEF Draining
    <3> QED
      BY <1>4, <1>5, <3>1, <3>2, <3>3, Zenon DEF Draining
  <2>2. Down(q) => Down(q)'
    BY <1>2, Zenon DEF Down, Blank, Known, Idle
  <2>3. Joining(q) => Settling(q)'
    <3> SUFFICES ASSUME Joining(q) PROVE Settling(q)'
      OBVIOUS
    <3>1. ASSUME NEW n \in Lasting PROVE status[q][n] = "active"
      <4>1. seeds[q] \ {q} # {}
        BY <3>1 DEF Lossless, HasSeeds
      <4> QED
        BY <3>1, <4>1, Zenon DEF Joining, AsksSeeds
    <3>2. \A n \in Lasting : age'[q][n] <= 1
      BY <1>2 DEF Joining
    <3> QED
      BY <1>5, <3>1, <3>2, Zenon DEF Joining, Settling, Idle
  <2>4. Settling(q) => Calm(q)'
    <3> SUFFICES ASSUME Settling(q) PROVE Calm(q)'
      OBVIOUS
    <3>1. q \in beaten
      BY Zenon DEF Settling, Serving
    <3>2. ASSUME NEW n \in Lasting
          PROVE  /\ status'[q][n] = "active" /\ age'[q][n] <= 2 /\ age'[q][n] \in Nat
                 /\ Known(n, q)' => age'[n][q] <= 1
      BY <1>2, <3>1, <3>2, SMTT(30) DEF Settling, Known
    <3> QED
      BY <1>4, <1>5, <3>2, SMTT(30) DEF Settling, Calm
  <2>5. Calm(q) => Calm(q)'
    <3> SUFFICES ASSUME Calm(q) PROVE Calm(q)'
      BY Zenon
    <3>1. q \in beaten
      BY Zenon DEF Calm, Serving
    <3>2. ASSUME NEW n \in Lasting
          PROVE  /\ status'[q][n] = "active" /\ age'[q][n] <= 3
                 /\ status'[n][q] = "active" /\ age'[n][q] <= 1
      BY <1>2, <3>1, <3>2 DEF Calm
    <3> QED
      BY <1>4, <1>5, <3>2, Zenon DEF Calm
  <2> QED
    BY <2>1, <2>2, <2>3, <2>4, <2>5, Zenon DEF Station
<1> QED
  BY <1>4, <1>5, <1>6, <1>7, <1>8, Zenon DEF Lossless

-----------------------------------------------------------------------------
(* Starting and leaving, and NODE_JOIN *)

\* A process starts again: NODE_JOIN is under way to all its seeds.
LEMMA StartStep ==
  ASSUME Lossless, NEW q \in Nodes, Start(q)
  PROVE  Lossless'
<1>0. Types /\ NotListed /\ \A p \in Nodes : DetectorIn(p) /\ ServerIn(p)
  BY Zenon DEF Lossless
<1>1. /\ local[q] = "down" /\ local' = [local EXCEPT ![q] = "starting"]
      /\ \A m \in net : m.from # q
      /\ net' = net \cup ToAll(seeds[q] \ {q}, "join", q, None)
      /\ beaten' = beaten \ {q}
      /\ UNCHANGED <<status, age, seeds, detector, server, stops, stopped>>
  BY Zenon DEF Start, Up, lists, tasks, history
<1> USE <1>1
<1>2. q \in stopped
  BY Zenon DEF Lossless, Lasting, Live
<1>3. /\ stopped = {q} /\ Down(q) /\ Lasting' = Lasting /\ Lasting = Nodes \ {q}
      /\ \A n \in Lasting : n \in Nodes /\ n # q /\ local[n] = "active" /\ local'[n] = "active"
  <2>1. stopped = {q} /\ Station(q) /\ Lasting = Nodes \ {q} /\ \A n \in Lasting : Live(n)
    BY <1>2, TheStopped
  <2>2. Down(q)
    BY <2>1, Zenon DEF Station, Draining, Leaving, Starting, Joining, Settling, Calm
  <2> QED
    BY <1>0, <2>1, <2>2, Zenon DEF Live, Types, Lasting
<1> USE <1>3
<1>4. \A s \in seeds[q] \ {q} : Join(q, s) \in net'
  BY <1>0, Zenon DEF ToAll, Up, Join, Types
<1>5. \A m \in net' : m \in net \/ (m \in Messages /\ m.type = "join" /\ m.from = q /\ m.to \in Lasting)
  BY <1>0, SMTT(30) DEF ToAll, Messages, Types
<1>6. Types' /\ OneStopped' /\ HasSeeds' /\ NotListed'
  BY <1>0, <1>5, Zenon DEF Types, Locals, OneStopped, HasSeeds, NotListed, Lossless
<1>7. \A n \in Lasting' : Live(n)'
  BY LiveKept, SMTT(30)
<1>8. \A n \in Nodes : DetectorIn(n)' /\ ServerIn(n)'
  BY <1>0, Zenon DEF DetectorIn, ServerIn, Idle
<1>9. \A m \in net' : MessageIn(m)'
  <2> SUFFICES ASSUME NEW m \in net' PROVE MessageIn(m)'
    BY Zenon
  <2>1. local'[q] = "starting"
    BY <1>0, Zenon DEF Types
  <2>2. CASE m \in net
    BY <2>2, Zenon DEF Lossless, MessageIn
  <2>3. CASE m.type = "join" /\ m.from = q /\ m.to \in Lasting
    BY <2>1, <2>3, Zenon DEF MessageIn
  <2> QED
    BY <1>5, <2>2, <2>3, Zenon
<1>10. Starting(q)'
  <2>1. local'[q] = "starting"
    BY <1>0, Zenon DEF Types
  <2> QED
    BY <1>4, <2>1, Zenon DEF Down, Starting, Blank, AsksSeeds, Join, Idle
<1> QED
  BY <1>6, <1>7, <1>8, <1>9, <1>10, Zenon DEF Lossless, Station

\* Its tasks start.
LEMMA ActivateStep ==
  ASSUME Lossless, NEW q \in Nodes, Activate(q)
  PROVE  Lossless'
<1>0. Types /\ NotListed /\ \A p \in Nodes : DetectorIn(p) /\ ServerIn(p)
  BY DEF Lossless
<1>1. /\ local[q] = "starting" /\ local' = [local EXCEPT ![q] = "active"]
      /\ UNCHANGED <<status, age, seeds, detector, server, beaten, net, stops, stopped>>
  BY DEF Activate, lists, tasks, history
<1> USE <1>1
<1>2. q \in stopped
  BY DEF Lossless, Lasting, Live
<1>3. /\ stopped = {q} /\ Starting(q) /\ Lasting' = Lasting /\ Lasting = Nodes \ {q}
      /\ local'[q] = "active" /\ \A n \in Nodes : n # q => local'[n] = local[n]
  <2>1. stopped = {q} /\ Station(q) /\ Lasting = Nodes \ {q}
    BY <1>2, TheStopped, Zenon
  <2>2. Starting(q)
    BY <2>1, Zenon DEF Station, Draining, Leaving, Down, Joining, Settling, Calm
  <2> QED
    BY <1>0, <2>1, <2>2, Zenon DEF Types, Lasting
<1> USE <1>3
<1>4. Types' /\ OneStopped' /\ HasSeeds' /\ NotListed'
  BY <1>0, Zenon DEF Types, Locals, OneStopped, HasSeeds, NotListed, Lossless
<1>5. \A n \in Lasting' : Live(n)'
  BY LiveKept, Zenon
<1>6. \A n \in Nodes : DetectorIn(n)' /\ ServerIn(n)'
  BY <1>0, Zenon DEF DetectorIn, ServerIn, Idle
<1>7. \A m \in net' : MessageIn(m)'
  BY Zenon DEF Lossless, MessageIn
<1>8. Joining(q)'
  BY Zenon DEF Starting, Joining, Blank, AsksSeeds, Join, Idle
<1> QED
  BY <1>4, <1>5, <1>6, <1>7, <1>8, Zenon DEF Lossless, Station

\* NODE_LEAVE.
LEMMA SendLeaveStep ==
  ASSUME Lossless, NEW q \in Nodes, SendLeave(q)
  PROVE  Lossless'
<1>0. Types /\ NotListed /\ \A p \in Nodes : DetectorIn(p) /\ ServerIn(p)
  BY DEF Lossless
<1>1. /\ local[q] = "draining" /\ local' = [local EXCEPT ![q] = "leaving"]
      /\ net' = net \cup ToAll(ReachableNodes(q), "leave", q, None)
      /\ UNCHANGED <<status, age, seeds, detector, server, beaten, stops, stopped>>
  BY DEF SendLeave, lists, tasks, history
<1> USE <1>1
<1>2. q \in stopped
  BY Zenon DEF Lossless, Lasting, Live
<1>3. /\ stopped = {q} /\ Draining(q) /\ Lasting' = Lasting /\ Lasting = Nodes \ {q}
      /\ local'[q] = "leaving" /\ \A n \in Nodes : n # q => local'[n] = local[n]
  <2>1. stopped = {q} /\ Station(q) /\ Lasting = Nodes \ {q}
    BY <1>2, TheStopped, Zenon
  <2>2. Draining(q)
    BY <2>1, Zenon DEF Station, Starting, Leaving, Down, Joining, Settling, Calm
  <2> QED
    BY <1>0, <2>1, <2>2, Zenon DEF Types, Lasting
<1> USE <1>3
<1>4. \A m \in net' : m \in Messages /\ m.type = "leave" /\ m.from = q /\ m.to \in Lasting
  <2>1. net = {} /\ q \notin ReachableNodes(q)
    BY <1>0, Zenon DEF Draining, ReachableNodes, NotListed
  <2> QED
    BY <2>1 DEF ToAll, Messages, ReachableNodes
<1>5. Types' /\ OneStopped' /\ HasSeeds' /\ NotListed'
  BY <1>0, <1>4, Zenon DEF Types, Locals, OneStopped, HasSeeds, NotListed, Lossless
<1>6. \A n \in Lasting' : Live(n)'
  BY LiveKept, Zenon
<1>7. Still' /\ \A n \in Nodes : DetectorIn(n)' /\ ServerIn(n)'
  BY <1>0, Zenon DEF Draining, Still, DetectorIn, ServerIn, Idle
<1>8. \A m \in net' : MessageIn(m)'
  BY <1>4, Zenon DEF MessageIn
<1>9. Leaving(q)'
  BY <1>4, <1>7, Zenon DEF Draining, Leaving, Hears
<1> QED
  BY <1>5, <1>6, <1>7, <1>8, <1>9, Zenon DEF Lossless, Station

\* handle_node_join, and the status response: the node that is back knows this one, and
\* has asked everyone this one knows.
LEMMA JoinStep ==
  ASSUME Lossless, NEW n \in Nodes, NEW m \in net, m.to = n, HandleNodeJoin(n, m)
  PROVE  Lossless'
<1>0. Types /\ NotListed /\ MessageIn(m) /\ \A p \in Nodes : DetectorIn(p) /\ ServerIn(p)
  BY DEF Lossless
<1>1. /\ m.type = "join" /\ local[m.from] # "starting"
      /\ UNCHANGED <<local, detector, server, beaten, stops, stopped>>
  BY Zenon DEF HandleNodeJoin, tasks, history
<1>2. PICK q \in stopped : q = m.from /\ n \in Lasting /\ local[q] = "active"
  BY <1>0, <1>1, Zenon DEF MessageIn
<1>3. q \in Nodes /\ stopped = {q} /\ Lasting = Nodes \ {q} /\ n # q /\ Live(n) /\ Lasting' = Lasting
  BY <1>1, <1>2, TheStopped, Zenon DEF Lasting
<1> USE <1>3
<1>4. Joining(q)
  BY <1>1, <1>2, TheStopped, Zenon DEF Station, Draining, Leaving, Down, Starting, Settling, Calm
<1>5. Serving(q) /\ Told(n) = "active"
  BY <1>2, Zenon DEF Serving, Live, Told
<1>6. /\ status' = [status EXCEPT ![n][q] = "starting", ![q][n] = "active"]
      /\ age' = [age EXCEPT ![n][q] = 0, ![q][n] = 0]
      /\ seeds' = [seeds EXCEPT ![n] = ReachableNodes(n) \cup {q}]
      /\ net' = (net \ {m}) \cup Introductions(q, n)
  BY <1>2, <1>5, Zenon DEF HandleNodeJoin
<1>7. status' \in [Nodes -> [Nodes -> Statuses]] /\ age' \in [Nodes -> [Nodes -> Nat]]
  BY <1>0, <1>6, Zenon DEF Types, Statuses
<1>8. /\ seeds' \in [Nodes -> SUBSET Nodes] /\ \A p \in Nodes : p # n => seeds'[p] = seeds[p]
      /\ q \in seeds'[n]
  BY <1>0, <1>6, Zenon DEF Types, ReachableNodes
<1>9. /\ \A i, x \in Lasting : status'[i][x] = status[i][x] /\ age'[i][x] = age[i][x]
      /\ \A i \in Nodes : status'[i][i] = status[i][i]
      /\ \A i \in Lasting : i # n => status'[q][i] = status[q][i] /\ age'[q][i] = age[q][i]
      /\ status'[q][n] = "active" /\ age'[q][n] = 0
  BY <1>0, <1>6, Zenon DEF Types
<1>10. \A x \in Introductions(q, n) : x \in Messages /\ x.type = "join" /\ x.from = q /\ x.to \in Lasting
  BY SMTT(30) DEF Introductions, ToAll, ReachableNodes, Messages
<1>11. \A i \in Lasting : i # n /\ status[q][i] = "unknown" => Join(q, i) \in Introductions(q, n)
  <2> SUFFICES ASSUME NEW i \in Lasting, i # n, status[q][i] = "unknown"
               PROVE  Join(q, i) \in Introductions(q, n)
    OBVIOUS
  <2>1. status[n][i] = "active" /\ local[i] = "active"
    BY <1>2, TheStopped, Zenon DEF Live, Hears
  <2> QED
    BY <2>1, SMTT(30) DEF Introductions, ToAll, ReachableNodes, Known, Up, Join
<1>12. net' \subseteq Messages
  BY <1>0, <1>6, <1>10, Zenon DEF Types
<1>13. Types' /\ OneStopped'
  BY <1>0, <1>1, <1>7, <1>8, <1>12, Zenon DEF Types, OneStopped, Lossless
<1>14. HasSeeds'
  BY <1>8 DEF HasSeeds, Lossless
<1>15. NotListed'
  BY <1>0, <1>9, Zenon DEF NotListed
<1>16. \A i \in Lasting' : Live(i)'
  BY <1>1, <1>9, LiveKept, Zenon
<1>17. \A p \in Nodes : DetectorIn(p)' /\ ServerIn(p)'
  BY <1>0, <1>1, Zenon DEF DetectorIn, ServerIn, Idle, Lasting
<1>18. \A x \in net' : MessageIn(x)'
  <2> SUFFICES ASSUME NEW x \in net' PROVE MessageIn(x)'
    BY Zenon
  <2>1. CASE x \in net
    BY <1>1, <2>1, Zenon DEF Lossless, MessageIn
  <2>2. CASE x \in Introductions(q, n)
    BY <1>1, <1>2, <1>10, <2>2, Zenon DEF MessageIn
  <2> QED
    BY <1>6, <2>1, <2>2, Zenon
<1>19. Joining(q)'
  <2>1. local'[q] = "active" /\ detector'[q] = Idle
    BY <1>1, <1>4, Zenon DEF Joining, Idle
  <2>2. \A i \in Lasting : status'[q][i] \in {"unknown", "active"} /\ age'[q][i] = 0
    BY <1>4, <1>9, Zenon DEF Joining
  <2>3. \A i \in Lasting : status'[q][i] = "active" \/ Join(q, i) \in net'
    BY <1>4, <1>6, <1>9, <1>11, Zenon DEF Joining
  <2> QED
    BY <2>1, <2>2, <2>3, Zenon DEF Joining, Idle, Join
<1> QED
  BY <1>1, <1>13, <1>14, <1>15, <1>16, <1>17, <1>18, <1>19, Zenon DEF Lossless, Station

-----------------------------------------------------------------------------
(* Heartbeats *)

\* When none is lost, whoever is reachable and serves has the status of n.
Reached(n) == {p \in ReachableNodes(n) : Serving(p)}

\* A heartbeat none of whose calls is lost refreshes its sender at every node it reaches, and
\* resets the time since it was last heard there.
LEMMA HeartbeatArrives ==
  ASSUME Types, unheard' = {}, NEW n \in Nodes, Heartbeat(n)
  PROVE  /\ status' = [p \in Nodes |-> IF p \in Reached(n) THEN [status[p] EXCEPT ![n] = Told(n)]
                                       ELSE status[p]]
         /\ age' = [p \in Nodes |-> IF p \in Reached(n) THEN [age[p] EXCEPT ![n] = 0] ELSE age[p]]
<1>1. PICK got \in SUBSET {p \in ReachableNodes(n) : Serving(p)} :
       /\ Loses(n, {p \in ReachableNodes(n) \ got : Serving(p)})
       /\ status' = [p \in Nodes |-> IF p \in got THEN [status[p] EXCEPT ![n] = Told(n)]
                                     ELSE status[p]]
       /\ age' = [p \in Nodes |-> IF p \in got THEN [age[p] EXCEPT ![n] = 0] ELSE age[p]]
  BY Zenon DEF Heartbeat
<1>2. {p \in ReachableNodes(n) \ got : Serving(p)} = {}
  BY <1>1 DEF Loses
<1>3. got = Reached(n)
  BY <1>2, Zenon DEF Reached
<1> QED
  BY <1>1, <1>3

\* The same entry by entry, with what a heartbeat leaves alone.
LEMMA HeartbeatEffects ==
  ASSUME Lossless, unheard' = {}, NEW n \in Nodes, Heartbeat(n)
  PROVE  /\ UNCHANGED <<local, seeds, detector, server, net, stops, stopped>>
         /\ beaten' = beaten \cup {n} /\ Serving(n) /\ n \notin Reached(n)
         /\ \A p, x \in Nodes : p \notin Reached(n) \/ x # n =>
              status'[p][x] = status[p][x] /\ age'[p][x] = age[p][x]
         /\ \A p \in Reached(n) : p \in Nodes /\ status'[p][n] = Told(n) /\ age'[p][n] = 0
         /\ Types' /\ OneStopped' /\ HasSeeds' /\ NotListed' /\ Lasting' = Lasting
         /\ \A p \in Nodes : DetectorIn(p)' /\ ServerIn(p)'
         /\ \A m \in net' : MessageIn(m)'
         /\ Still => Still'
<1>0. Types /\ NotListed
  BY DEF Lossless
<1> USE <1>0
<1>1. /\ UNCHANGED <<local, seeds, detector, server, net, stops, stopped>>
      /\ beaten' = beaten \cup {n} /\ Serving(n)
  BY SMTT(30) DEF Heartbeat, tasks
<1>2. n \notin Reached(n) /\ Reached(n) \subseteq Nodes
  BY DEF Reached, ReachableNodes, NotListed
<1>3. Told(n) \in Statuses
  BY <1>1 DEF Told, Types, Locals, Statuses, Serving
<1>4. status' \in [Nodes -> [Nodes -> Statuses]] /\ age' \in [Nodes -> [Nodes -> Nat]]
  <2>1. /\ status' = [p \in Nodes |-> IF p \in Reached(n) THEN [status[p] EXCEPT ![n] = Told(n)]
                                     ELSE status[p]]
        /\ age' = [p \in Nodes |-> IF p \in Reached(n) THEN [age[p] EXCEPT ![n] = 0] ELSE age[p]]
    BY HeartbeatArrives
  <2>2. /\ status \in [Nodes -> [Nodes -> Statuses]]
        /\ age \in [Nodes -> [Nodes -> Nat]]
    BY DEF Types
  <2>3. status' \in [Nodes -> [Nodes -> Statuses]]
    BY <1>3, <2>1, <2>2
  <2>4. age' \in [Nodes -> [Nodes -> Nat]]
    BY <2>1, <2>2
  <2> QED
    BY <2>3, <2>4
<1>5. /\ \A p, x \in Nodes : p \notin Reached(n) \/ x # n =>
           status'[p][x] = status[p][x] /\ age'[p][x] = age[p][x]
      /\ \A p \in Reached(n) : status'[p][n] = Told(n) /\ age'[p][n] = 0
  BY <1>2, HeartbeatArrives, SMTT(30) DEF Types
<1>6. Types' /\ OneStopped' /\ HasSeeds' /\ Lasting' = Lasting
  BY <1>1, <1>4, Zenon DEF Types, OneStopped, HasSeeds, Lasting, Lossless
<1>7. NotListed'
  BY <1>2, <1>5 DEF NotListed
<1>8. \A p \in Nodes : DetectorIn(p)' /\ ServerIn(p)'
  BY <1>1, <1>6, Zenon DEF Lossless, DetectorIn, ServerIn, Idle
<1>9. (\A m \in net' : MessageIn(m)') /\ (Still => Still')
  BY <1>1, <1>6, Zenon DEF Lossless, MessageIn, Still, Idle
<1> QED
  BY <1>1, <1>2, <1>5, <1>6, <1>7, <1>8, <1>9, Zenon

\* The heartbeat of a lasting node.
LEMMA LastingBeats ==
  ASSUME Lossless, unheard' = {}, NEW n \in Lasting, Heartbeat(n)
  PROVE  Lossless'
<1>0. n \in Nodes /\ Live(n) /\ Told(n) = "active" /\ \A p \in Lasting : p \in Nodes /\ Live(p)
  BY DEF Lossless, Lasting, Live, Told
<1> USE <1>0
<1>1. \A p \in Lasting : p # n => p \in Reached(n)
  BY Zenon DEF Live, Hears, Reached, ReachableNodes, Serving
<1>2. \A p \in Lasting : Live(p)'
  <2> SUFFICES ASSUME NEW p \in Lasting, NEW x \in Lasting, x # p
               PROVE  local'[p] = "active" /\ Hears(p, x)'
    BY HeartbeatEffects, Zenon DEF Live
  <2>0. local'[p] = "active" /\ Hears(p, x)
    BY HeartbeatEffects, Zenon DEF Live
  <2>1. CASE x = n
    BY <1>1, <2>0, <2>1, HeartbeatEffects, SMTT(30) DEF Hears
  <2>2. CASE x # n
    BY <2>0, <2>2, HeartbeatEffects DEF Hears
  <2> QED
    BY <2>0, <2>1, <2>2
<1>3. ASSUME NEW q \in stopped PROVE Station(q)'
  <2>0. /\ q \in Nodes /\ q # n /\ Station(q) /\ (q \in beaten' <=> q \in beaten)
        /\ \A i \in Lasting : i \in Nodes /\ i # q
    BY <1>3, TheStopped, HeartbeatEffects, Zenon
  <2> USE <2>0
  <2>1. \A i \in Lasting : status'[i][q] = status[i][q] /\ age'[i][q] = age[i][q]
    BY HeartbeatEffects
  <2>2. \A i \in Nodes : i # n => status'[q][i] = status[q][i] /\ age'[q][i] = age[q][i]
    BY HeartbeatEffects
  <2>3. IF q \in Reached(n) THEN status'[q][n] = "active" /\ age'[q][n] = 0
        ELSE status'[q][n] = status[q][n] /\ age'[q][n] = age[q][n]
    BY HeartbeatEffects, Zenon
  <2>4. \A i \in Lasting : i # n => (i \in beaten' <=> i \in beaten)
    BY HeartbeatEffects, Zenon
  <2>5. Draining(q) => Draining(q)'
    <3> SUFFICES ASSUME Draining(q) PROVE Draining(q)'
      OBVIOUS
    <3>1. q \in Reached(n)
      BY Zenon DEF Draining, Reached, ReachableNodes, Serving
    <3>2. \A i \in Lasting : Hears(q, i)'
      BY <2>2, <2>3, <2>4, <3>1 DEF Draining, Hears
    <3>3. local'[q] = "draining" /\ Still' /\ net' = {}
      BY HeartbeatEffects, Zenon DEF Draining
    <3> QED
      BY <2>1, <3>2, <3>3, HeartbeatEffects, Zenon DEF Draining
  <2>6. Leaving(q) => Leaving(q)'
    <3> SUFFICES ASSUME Leaving(q) PROVE Leaving(q)'
      OBVIOUS
    <3>1. \A i \in Lasting : status'[q][i] = "active" /\ age'[q][i] <= 1
      BY <2>2, <2>3 DEF Leaving
    <3>2. local'[q] = "leaving" /\ Still' /\ \A m \in net' : m.type = "leave"
      BY HeartbeatEffects, Zenon DEF Leaving
    <3> QED
      BY <2>1, <3>1, <3>2, HeartbeatEffects, Zenon DEF Leaving
  <2>7. (Down(q) => Down(q)') /\ (Starting(q) => Starting(q)')
    <3> SUFFICES ASSUME Down(q) \/ Starting(q)
                 PROVE  (Down(q) => Down(q)') /\ (Starting(q) => Starting(q)')
      BY Zenon
    <3>1. q \notin Reached(n)
      BY DEF Down, Starting, Reached, Serving
    <3>2. Blank(q)'
      BY <2>2, <2>3, <3>1, HeartbeatEffects, Zenon DEF Down, Starting, Blank, Idle
    <3> QED
      BY <3>2, HeartbeatEffects, Zenon DEF Down, Starting, AsksSeeds, Join
  <2>8. Joining(q) => Joining(q)'
    <3> SUFFICES ASSUME Joining(q) PROVE Joining(q)'
      OBVIOUS
    <3>1. \A i \in Lasting : /\ status'[q][i] \in {"unknown", "active"} /\ age'[q][i] = 0
                             /\ status[q][i] = "active" => status'[q][i] = "active"
      BY <2>2, <2>3, Zenon DEF Joining
    <3>2. local'[q] = "active" /\ detector'[q] = Idle /\ net' = net /\ seeds' = seeds
      BY HeartbeatEffects, Zenon DEF Joining, Idle
    <3> QED
      BY <3>1, <3>2, HeartbeatEffects, Zenon DEF Joining, Idle, AsksSeeds, Join
  <2>9. Settling(q) => Settling(q)'
    <3> SUFFICES ASSUME Settling(q) PROVE Settling(q)'
      OBVIOUS
    <3>1. \A i \in Lasting : status'[q][i] = "active" /\ age'[q][i] <= 1
      BY <2>2, <2>3 DEF Settling
    <3>2. local'[q] = "active" /\ detector'[q] = Idle /\ net' = net
      BY HeartbeatEffects, Zenon DEF Settling, Idle
    <3> QED
      BY <2>1, <3>1, <3>2, HeartbeatEffects DEF Settling, Idle, Known
  <2>10. Calm(q) => Calm(q)'
    <3> SUFFICES ASSUME Calm(q) PROVE Calm(q)'
      OBVIOUS
    <3>1. status[n][q] = "active" => q \in Reached(n)
      BY DEF Calm, Reached, ReachableNodes, Serving
    <3>2. status'[q][n] = "active" /\ age'[q][n] <= 2
      BY <2>3, <3>1 DEF Calm
    <3>3. local'[q] = "active" /\ Still' /\ net' = {}
      BY HeartbeatEffects, Zenon DEF Calm
    <3>4. ASSUME NEW i \in Lasting
          PROVE  /\ status'[q][i] = "active" /\ age'[q][i] <= 3
                 /\ (status'[i][q] # "active" \/ i \in beaten') => age'[q][i] <= 2
      <4>1. CASE i = n
        <5>1. age'[q][n] \in Nat
          BY HeartbeatEffects DEF Types
        <5> QED
          BY <3>2, <4>1, <5>1
      <4>2. CASE i # n
        BY <2>1, <2>2, <2>4, <4>2, Zenon DEF Calm
      <4> QED
        BY <4>1, <4>2, Zenon
    <3>5. \A i \in Lasting : /\ Known(i, q)' => age'[i][q] <= 1
                             /\ q \in beaten' => status'[i][q] = "active" /\ age'[i][q] = 0
      BY <2>1, Zenon DEF Calm, Known
    <3> QED
      BY <3>3, <3>4, <3>5, HeartbeatEffects, Zenon DEF Calm
  <2> QED
    BY <2>5, <2>6, <2>7, <2>8, <2>9, <2>10 DEF Station
<1>4. stopped' = {} => Still' /\ net' = {}
  BY HeartbeatEffects, Zenon DEF Lossless
<1> QED
  BY <1>2, <1>3, <1>4, HeartbeatEffects, Zenon DEF Lossless

\* The heartbeat of the node that stopped: as it drains, and when it is back.
LEMMA StoppedBeats ==
  ASSUME Lossless, unheard' = {}, NEW q \in stopped, Heartbeat(q)
  PROVE  Lossless'
<1>0. /\ q \in Nodes /\ Station(q) /\ stopped = {q}
      /\ \A i \in Lasting : i \in Nodes /\ i # q /\ Live(i)
  BY TheStopped
<1> USE <1>0
<1>1. /\ \A i \in Nodes, x \in Lasting : status'[i][x] = status[i][x] /\ age'[i][x] = age[i][x]
      /\ \A i \in Nodes : status'[q][i] = status[q][i] /\ age'[q][i] = age[q][i]
      /\ q \in beaten' /\ \A i \in Lasting : i \in beaten' <=> i \in beaten
  BY HeartbeatEffects
<1>2. \A i \in Lasting : i \in Reached(q) <=> status[q][i] \in {"starting", "active", "draining"}
  BY DEF Reached, ReachableNodes, Live, Serving
<1>3. \A i \in Lasting : \/ i \in Reached(q) /\ status'[i][q] = Told(q) /\ age'[i][q] = 0
                         \/ i \notin Reached(q) /\ status'[i][q] = status[i][q] /\ age'[i][q] = age[i][q]
  BY HeartbeatEffects
<1>4. \A i \in Lasting : Live(i)'
  <2> SUFFICES ASSUME NEW i \in Lasting, NEW x \in Lasting, x # i
               PROVE  local'[i] = "active" /\ Hears(i, x)'
    BY HeartbeatEffects, Zenon DEF Live
  <2>1. local'[i] = "active" /\ Hears(i, x)
    BY HeartbeatEffects, Zenon DEF Live
  <2> QED
    BY <1>1, <2>1, Zenon DEF Hears
<1>5. ~Down(q) /\ ~Starting(q)
  BY HeartbeatEffects, Zenon DEF Serving, Down, Starting
<1>6. Draining(q) => Draining(q)'
  <2> SUFFICES ASSUME Draining(q) PROVE Draining(q)'
    OBVIOUS
  <2>1. local'[q] = "draining" /\ Still' /\ net' = {} /\ Told(q) = "draining"
    BY HeartbeatEffects, Zenon DEF Draining, Told
  <2>2. \A i \in Lasting : Hears(q, i)'
    BY <1>1, Zenon DEF Draining, Hears
  <2>3. \A i \in Lasting : status'[i][q] = "draining" /\ age'[i][q] = 0
    BY <1>2, <1>3, <2>1, Zenon DEF Draining, Hears
  <2> QED
    BY <2>1, <2>2, <2>3, HeartbeatEffects DEF Draining
<1>7. Leaving(q) => Leaving(q)'
  <2> SUFFICES ASSUME Leaving(q) PROVE Leaving(q)'
    OBVIOUS
  <2>1. local'[q] = "leaving" /\ Still' /\ Told(q) = "draining" /\ \A m \in net' : m.type = "leave"
    BY HeartbeatEffects, Zenon DEF Leaving, Told
  <2>2. \A i \in Lasting : status'[q][i] = "active" /\ age'[q][i] <= 1
    BY <1>1 DEF Leaving
  <2>3. \A i \in Lasting : status'[i][q] = "draining" /\ age'[i][q] = 0
    BY <1>2, <1>3, <2>1, Zenon DEF Leaving
  <2> QED
    BY <2>1, <2>2, <2>3, HeartbeatEffects DEF Leaving
<1>8. Joining(q) => Joining(q)'
  <2> SUFFICES ASSUME Joining(q) PROVE Joining(q)'
    BY Zenon
  <2>1. /\ local' = local /\ seeds' = seeds /\ net' = net /\ detector' = detector /\ Lasting' = Lasting
    BY HeartbeatEffects, Zenon
  <2>2. \A i \in Lasting : status'[q][i] = status[q][i] /\ age'[q][i] = age[q][i]
    BY <1>1, Zenon
  <2> QED
    BY <2>1, <2>2, Zenon DEF Joining, AsksSeeds, Join
<1>9. Settling(q) => Settling(q)'
  <2> SUFFICES ASSUME Settling(q) PROVE Settling(q)'
    OBVIOUS
  <2>1. local'[q] = "active" /\ detector'[q] = Idle /\ net' = net
    BY HeartbeatEffects, Zenon DEF Settling, Idle
  <2>2. \A i \in Lasting : status'[q][i] = "active" /\ age'[q][i] <= 1
    BY <1>1 DEF Settling
  <2>3. \A i \in Lasting : age'[i][q] = 0
    BY <1>2, <1>3, Zenon DEF Settling
  <2> QED
    BY <2>1, <2>2, <2>3, HeartbeatEffects, Zenon DEF Settling, Idle
<1>10. Calm(q) => Calm(q)'
  <2> SUFFICES ASSUME Calm(q) PROVE Calm(q)'
    OBVIOUS
  <2>1. local'[q] = "active" /\ Still' /\ net' = {} /\ Told(q) = "active"
    BY HeartbeatEffects, Zenon DEF Calm, Told
  <2>2. \A i \in Lasting : status'[i][q] = "active" /\ age'[i][q] = 0
    BY <1>2, <1>3, <2>1, Zenon DEF Calm
  <2>3. \A i \in Lasting : /\ status'[q][i] = "active" /\ age'[q][i] <= 3
                           /\ i \in beaten' => age'[q][i] <= 2
    BY <1>1, Zenon DEF Calm
  <2> QED
    BY <2>1, <2>2, <2>3, HeartbeatEffects, SMTT(30) DEF Calm
<1>11. Station(q)'
  BY <1>5, <1>6, <1>7, <1>8, <1>9, <1>10 DEF Station
<1> QED
  BY <1>4, <1>11, HeartbeatEffects, SMTT(30) DEF Lossless

-----------------------------------------------------------------------------
(* The stop *)

\* The first stop is the only one.
LEMMA FirstStop ==
  ASSUME Lossless, stops' <= 1, NEW q \in Nodes, Stops(q)
  PROVE  /\ stopped = {} /\ stopped' = {q} /\ Still /\ net = {} /\ OneStopped'
         /\ Lasting = Nodes /\ Lasting' = Nodes \ {q}
<1>1. stops \in Nat /\ stops' = stops + 1
  BY Zenon DEF Lossless, Types, Stops
<1>2. stops = 0
  BY <1>1
<1>3. stopped = {} /\ stopped' = {q}
  BY <1>2 DEF Lossless, OneStopped, Stops
<1> QED
  BY <1>1, <1>2, <1>3 DEF Lossless, OneStopped, Lasting

\* Those who last hear each other still.
LEMMA StillLive ==
  ASSUME Lossless, NEW q \in Nodes, stopped = {}, stopped' = {q}, beaten' = beaten,
         \A n \in Nodes \ {q} : local'[n] = local[n],
         \A n, p \in Nodes : n # q => status'[n][p] = status[n][p] /\ age'[n][p] = age[n][p]
  PROVE  \A n \in Lasting' : Live(n)'
  BY DEF Lossless, Lasting, Live, Hears

\* shutdown: the node drains, and beats on.
LEMMA ShutdownStep ==
  ASSUME Lossless, stops' <= 1, NEW q \in Nodes, Shutdown(q)
  PROVE  Lossless'
<1>0. Types /\ NotListed
  BY Zenon DEF Lossless
<1>1. /\ local' = [local EXCEPT ![q] = "draining"]
      /\ UNCHANGED <<status, age, seeds, detector, server, beaten, net>>
      /\ Stops(q)
  BY DEF Shutdown, lists, tasks
<1> USE <1>1
<1>2. /\ stopped = {} /\ stopped' = {q} /\ Still /\ net = {} /\ OneStopped'
      /\ Lasting = Nodes /\ Lasting' = Nodes \ {q}
  BY FirstStop
<1> USE <1>2
<1>3. /\ local'[q] = "draining" /\ (\A n \in Nodes : n # q => local'[n] = local[n])
      /\ local' \in [Nodes -> Locals]
  BY <1>0 DEF Types, Locals
<1>4. Types' /\ HasSeeds' /\ NotListed'
  BY <1>0, <1>3 DEF Types, HasSeeds, NotListed, Lossless, Stops
<1>5. \A n \in Lasting' : Live(n)'
  BY <1>3, StillLive
<1>6. Still' /\ \A n \in Nodes : DetectorIn(n)' /\ ServerIn(n)'
  BY Zenon DEF Still, DetectorIn, ServerIn, Idle
<1>7. Draining(q)'
  <2>1. \A n \in Lasting' : n \in Nodes /\ n # q /\ Hears(n, q) /\ Hears(q, n)
    BY DEF Lossless, Live
  <2> QED
    BY <1>3, <1>6, <2>1, Zenon DEF Draining, Hears
<1> QED
  BY <1>4, <1>5, <1>6, <1>7, Zenon DEF Lossless, Station

\* The process is gone, and the datagrams for it.
LEMMA GoneEffects ==
  ASSUME Types, NEW q \in Nodes, Gone(q)
  PROVE  /\ net' = {m \in net : m.to # q} /\ local' \in [Nodes -> Locals]
         /\ local'[q] = "down" /\ \A n \in Nodes : n # q => local'[n] = local[n]
         /\ status' \in [Nodes -> [Nodes -> Statuses]] /\ age' \in [Nodes -> [Nodes -> Nat]]
         /\ \A n, p \in Nodes : n # q => status'[n][p] = status[n][p] /\ age'[n][p] = age[n][p]
         /\ \A p \in Nodes : status'[q][p] = "unknown" /\ age'[q][p] = 0
         /\ DOMAIN detector' = Nodes /\ DOMAIN server' = Nodes
         /\ detector'[q] = Idle /\ server'[q] = Idle
         /\ \A n \in Nodes : n # q => detector'[n] = detector[n] /\ server'[n] = server[n]
<1>1. /\ net' = {m \in net : m.to # q} /\ local' \in [Nodes -> Locals]
      /\ local'[q] = "down" /\ \A n \in Nodes : n # q => local'[n] = local[n]
  BY DEF Types, Gone, Locals
<1>2. /\ status' = [status EXCEPT ![q] = [p \in Nodes |-> "unknown"]]
      /\ age' = [age EXCEPT ![q] = [p \in Nodes |-> 0]]
      /\ status \in [Nodes -> [Nodes -> Statuses]] /\ age \in [Nodes -> [Nodes -> Nat]]
  BY DEF Types, Gone
<1>3. status' \in [Nodes -> [Nodes -> Statuses]] /\ age' \in [Nodes -> [Nodes -> Nat]]
  BY <1>2 DEF Statuses
<1>4. /\ \A n, p \in Nodes : n # q => status'[n][p] = status[n][p] /\ age'[n][p] = age[n][p]
      /\ \A p \in Nodes : status'[q][p] = "unknown" /\ age'[q][p] = 0
  BY <1>2
<1>5. /\ DOMAIN detector' = Nodes /\ DOMAIN server' = Nodes
      /\ detector'[q] = Idle /\ server'[q] = Idle
      /\ \A n \in Nodes : n # q => detector'[n] = detector[n] /\ server'[n] = server[n]
  BY Zenon DEF Types, Gone
<1> QED
  BY <1>1, <1>3, <1>4, <1>5, Zenon

\* After NODE_LEAVE, and one more call to the database.
LEMMA ExitStep ==
  ASSUME Lossless, NEW q \in Nodes, Exit(q)
  PROVE  Lossless'
<1>0. Types /\ NotListed /\ \A p \in Nodes : DetectorIn(p) /\ ServerIn(p)
  BY DEF Lossless
<1> USE <1>0
<1>1. local[q] = "leaving" /\ Gone(q) /\ UNCHANGED <<seeds, beaten, stops, stopped>>
  BY DEF Exit, history
<1> USE <1>1
<1>2. q \in stopped
  BY DEF Lossless, Lasting, Live
<1>3. stopped = {q} /\ Leaving(q) /\ Lasting' = Lasting /\ Lasting = Nodes \ {q}
  <2>1. stopped = {q} /\ Station(q) /\ Lasting = Nodes \ {q}
    BY <1>2, TheStopped
  <2>2. Leaving(q)
    BY <2>1, Zenon DEF Station, Starting, Draining, Down, Joining, Settling, Calm
  <2> QED
    BY <2>1, <2>2 DEF Lasting
<1>4. Types' /\ OneStopped' /\ HasSeeds' /\ NotListed'
  <2>1. OneStopped' /\ HasSeeds'
    BY Zenon DEF OneStopped, HasSeeds, Lossless
  <2>2. NotListed'
    BY GoneEffects DEF NotListed
  <2>3. seeds' \in [Nodes -> SUBSET Nodes] /\ beaten' \subseteq Nodes /\ stops' \in Nat /\ stopped' \subseteq Nodes
    BY Zenon DEF Types
  <2>4. net' \subseteq Messages
    BY GoneEffects DEF Types
  <2>5. Types'
    BY <2>3, <2>4, GoneEffects, Zenon DEF Types
  <2> QED
    BY <2>1, <2>2, <2>5
<1>5. \A n \in Lasting' : Live(n)'
  BY <1>3, GoneEffects, LiveKept
<1>6. \A n \in Nodes : DetectorIn(n)' /\ ServerIn(n)'
  <2>1. \A n \in Nodes : detector'[n] = Idle /\ server'[n] = Idle
    BY <1>3, GoneEffects DEF Leaving, Still
  <2> QED
    BY <2>1, Zenon DEF DetectorIn, ServerIn, Idle
<1>7. \A m \in net' : MessageIn(m)'
  BY <1>3, GoneEffects, SMTT(30) DEF Lossless, MessageIn, Leaving
<1>8. Down(q)'
  BY GoneEffects, Zenon DEF Down, Blank, Idle
<1> QED
  BY <1>3, <1>4, <1>5, <1>6, <1>7, <1>8, Zenon DEF Lossless, Station

\* A crash, in the middle of an interval.
LEMMA CrashStep ==
  ASSUME Lossless, stops' <= 1, NEW q \in Nodes, Crash(q)
  PROVE  Lossless'
<1>0. Types /\ NotListed
  BY DEF Lossless
<1> USE <1>0
<1>1. Gone(q) /\ UNCHANGED <<seeds, beaten>> /\ Stops(q)
  BY DEF Crash
<1> USE <1>1
<1>2. /\ stopped = {} /\ stopped' = {q} /\ Still /\ net = {} /\ OneStopped'
      /\ Lasting = Nodes /\ Lasting' = Nodes \ {q}
  BY FirstStop
<1> USE <1>2
<1>3. Types' /\ HasSeeds'
  <2>1. HasSeeds'
    BY Zenon DEF HasSeeds, Lossless
  <2>2. seeds' \in [Nodes -> SUBSET Nodes] /\ beaten' \subseteq Nodes /\ stops' \in Nat /\ stopped' \subseteq Nodes
    BY DEF Types, Stops
  <2>3. net' \subseteq Messages
    BY GoneEffects DEF Types
  <2> QED
    BY <2>1, <2>2, <2>3, GoneEffects, Zenon DEF Types
<1>4. NotListed'
  BY GoneEffects, SMTT(30) DEF NotListed
<1>5. \A n \in Lasting' : Live(n)'
  BY GoneEffects, StillLive
<1>6. \A n \in Nodes : DetectorIn(n)' /\ ServerIn(n)'
  BY GoneEffects, ZenonT(30) DEF Still, DetectorIn, ServerIn, Idle
<1>7. net' = {}
  BY GoneEffects
<1>8. Down(q)'
  BY GoneEffects, Zenon DEF Down, Blank, Idle
<1> QED
  BY <1>3, <1>4, <1>5, <1>6, <1>7, <1>8, Zenon DEF Lossless, Station

-----------------------------------------------------------------------------
(* Work about the node that stopped *)

\* No lasting node is looked at by the failure detector, and the node that stopped looks
\* at none: neither while it drains nor when it is back.
LEMMA OnlyTheStopped ==
  ASSUME Tolerated, Lossless, NEW n \in Nodes, NEW p \in Nodes,
         status[n][p] \in {"active", "suspect"}, age[n][p] > SuspectTimeout
  PROVE  n \in Lasting /\ p \in stopped /\ ~Draining(p) /\ ~Leaving(p) /\ ~Calm(p)
<1>0. SuspectTimeout \in Nat /\ SuspectTimeout >= 3 /\ age[n][p] \in Nat
  BY MembershipAssumption DEF Tolerated, Lossless, Types
<1>1. n # p
  BY DEF Lossless, NotListed
<1>2. ~(n \in Lasting /\ p \in Lasting)
  BY <1>0, <1>1 DEF Lossless, Live, Hears
<1>3. n \notin stopped
  <2> SUFFICES ASSUME n \in stopped PROVE FALSE
    OBVIOUS
  <2>1. p \in Lasting /\ Station(n)
    BY <1>1, TheStopped, Zenon
  <2> USE <2>1
  <2>2. CASE Draining(n) \/ Leaving(n)
    BY <1>0, <2>2 DEF Draining, Leaving, Hears
  <2>3. CASE Down(n) \/ Starting(n)
    BY <2>3, Zenon DEF Down, Starting, Blank
  <2>4. CASE Joining(n) \/ Settling(n) \/ Calm(n)
    BY <1>0, <2>4 DEF Joining, Settling, Calm
  <2> QED
    BY <2>2, <2>3, <2>4, Zenon DEF Station
<1>4. n \in Lasting /\ p \in stopped
  BY <1>2, <1>3 DEF Lasting
<1>5. ~Draining(p) /\ ~Leaving(p) /\ ~Calm(p)
  BY <1>0, <1>4 DEF Draining, Leaving, Calm, Known
<1> QED
  BY <1>4, <1>5

\* What the failure detectors and the servers do about the node that stopped: it changes
\* what the others say of it, makes no entry that is not fresh, and sends NODE_DEAD.
LEMMA AboutTheStopped ==
  ASSUME Lossless, NEW q \in stopped,
         Down(q) \/ Starting(q) \/ Joining(q) \/ Settling(q),
         UNCHANGED <<local, seeds, beaten, stops, stopped>>,
         status' \in [Nodes -> [Nodes -> Statuses]], age' \in [Nodes -> [Nodes -> Nat]],
         \A n \in Nodes, p \in Lasting : status'[n][p] = status[n][p] /\ age'[n][p] = age[n][p],
         status'[q][q] = "unknown", age'[q][q] = 0 \/ age'[q][q] = age[q][q],
         \A n \in Lasting : Known(n, q)' => age'[n][q] = 0 \/ (Known(n, q) /\ age'[n][q] = age[n][q]),
         net' \subseteq Messages,
         \A m \in net' : m \in net \/ (m.type = "dead" /\ m.about \in stopped),
         \A m \in net : m.type = "join" => m \in net',
         DOMAIN detector' = Nodes, DOMAIN server' = Nodes, detector'[q] = detector[q],
         \A n \in Nodes : DetectorIn(n)' /\ ServerIn(n)'
  PROVE  Lossless'
<1>0. /\ q \in Nodes /\ stopped = {q} /\ Lasting = Nodes \ {q} /\ Lasting' = Lasting
      /\ Types /\ OneStopped /\ HasSeeds /\ NotListed
  BY TheStopped, Zenon DEF Lossless, Lasting
<1> USE <1>0
<1>1. Types' /\ OneStopped' /\ HasSeeds'
  BY Zenon DEF Types, OneStopped, HasSeeds
<1>2. NotListed'
  <2>1. \A n \in Lasting : status'[n][n] = status[n][n]
    BY Zenon DEF Lasting
  <2> QED
    BY ONLY <1>0, <2>1, status'[q][q] = "unknown", Zenon DEF NotListed
<1>3. \A n \in Lasting' : Live(n)'
  BY LiveKept, Zenon
<1>4. \A m \in net' : MessageIn(m)'
  BY Zenon DEF Lossless, MessageIn
<1>5. Blank(q) => Blank(q)'
  <2> SUFFICES ASSUME Blank(q), NEW n \in Nodes
               PROVE  detector'[q] = Idle /\ status'[q][n] = "unknown" /\ age'[q][n] = 0
    BY Zenon DEF Blank, Idle
  <2>1. n = q \/ n \in Lasting
    BY Zenon
  <2> QED
    BY <2>1, Zenon DEF Blank
<1>6. (Down(q) => Down(q)') /\ (Starting(q) => Starting(q)')
  BY <1>5, Zenon DEF Down, Starting, AsksSeeds, Join
<1>6a. \A n \in Lasting : status'[q][n] = status[q][n] /\ age'[q][n] = age[q][n]
  BY Zenon
<1>7. Joining(q) => Joining(q)'
  <2>1. \A n \in Nodes : Join(q, n) \in net => Join(q, n) \in net'
    BY Zenon DEF Join
  <2>2. AsksSeeds(q) => AsksSeeds(q)'
    BY <2>1, Zenon DEF AsksSeeds, Types
  <2>3. local'[q] = local[q] /\ Lasting \subseteq Nodes
    BY Zenon DEF Lasting
  <2> QED
    BY ONLY <1>0, <1>6a, <2>1, <2>2, <2>3, detector'[q] = detector[q], Zenon DEF Joining, Join
<1>8. Settling(q) => Settling(q)'
  <2> SUFFICES ASSUME Settling(q) PROVE Settling(q)'
    BY Zenon
  <2>1. \A m \in net' : m.type = "dead"
    BY Zenon DEF Settling
  <2>2. \A n \in Lasting : q \in beaten' /\ Known(n, q)' => age'[n][q] = 0
    BY Zenon DEF Settling
  <2>3. local'[q] = local[q]
    BY Zenon
  <2> QED
    BY ONLY <1>0, <1>6a, Settling(q), <2>1, <2>2, <2>3, detector'[q] = detector[q], Zenon DEF Settling
<1> QED
  BY <1>1, <1>2, <1>3, <1>4, <1>5, <1>6, <1>7, <1>8, Zenon DEF Lossless, Station

\* Work is going on only while the node that stopped is away, joins or has just joined,
\* and its own detector has none.
Away(q) == Down(q) \/ Starting(q) \/ Joining(q) \/ Settling(q)

\* Work in hand at a detector or a server, or a NodeDead on its way, means that a node is away:
\* nobody handles the death of a node while all of them run.
LEMMA WorkAboutTheStopped ==
  ASSUME Lossless,
         NEW n \in Nodes, detector[n] # Idle \/ server[n] # Idle \/ \E m \in net : m.type = "dead"
  PROVE  /\ detector[n] # Idle => n \in Lasting
         /\ \E q \in stopped : Away(q)
<1>1. stopped # {}
  BY DEF Lossless, Still
<1>2. PICK q \in stopped : stopped = {q}
  BY <1>1, TheStopped
<1>3. ~Draining(q) /\ ~Leaving(q) /\ ~Calm(q)
  BY <1>2, TheStopped, Zenon DEF Draining, Leaving, Calm, Still
<1>4. Away(q)
  BY <1>3, TheStopped DEF Station, Away
<1>5. detector[q] = Idle
  BY <1>4, Zenon DEF Away, Down, Starting, Blank, Joining, Settling
<1> QED
  BY <1>2, <1>4, <1>5, TheStopped

-----------------------------------------------------------------------------
(* server.rs *)

\* The server of a node takes up another work.
LEMMA ServerKept ==
  ASSUME Lossless, NEW n \in Nodes, NEW d, server' = [server EXCEPT ![n] = d],
         detector' = detector, stopped' = stopped,
         d = Idle \/ (d.pc = "remove" /\ d.node \in stopped)
  PROVE  /\ DOMAIN detector' = Nodes /\ DOMAIN server' = Nodes
         /\ \A p \in Nodes : detector'[p] = detector[p] /\ DetectorIn(p)' /\ ServerIn(p)'
<1>1. /\ DOMAIN detector' = Nodes /\ DOMAIN server' = Nodes /\ server'[n] = d
      /\ \A p \in Nodes : p # n => server'[p] = server[p]
  BY DEF Lossless, Types
<1>2. Lasting' = Lasting /\ \A p \in Nodes : DetectorIn(p) /\ ServerIn(p)
  BY DEF Lossless, Lasting
<1>3. \A p \in Nodes : ServerIn(p)'
  BY <1>1, <1>2, Zenon DEF ServerIn, Idle
<1>4. \A p \in Nodes : DetectorIn(p)'
  BY <1>2, Zenon DEF DetectorIn, Idle
<1> QED
  BY <1>1, <1>3, <1>4

\* handle_node_dead: the entry is marked, at the node itself too, which has none.
LEMMA NodeDeadStep ==
  ASSUME Lossless, NEW n \in Nodes, NEW m \in net, HandleNodeDead(n, m)
  PROVE  Lossless'
<1>0. Types /\ NotListed /\ MessageIn(m)
  BY DEF Lossless
<1> USE <1>0
<1>1. /\ m.type = "dead" /\ net' = net \ {m}
      /\ server' = [server EXCEPT ![n] = At("remove", m.about, {})]
      /\ status' = [status EXCEPT ![n][m.about] = IF @ = "unknown" THEN @ ELSE "dead"]
      /\ UNCHANGED <<local, age, seeds, detector, beaten, stops, stopped>>
  BY DEF HandleNodeDead, history
<1> USE <1>1
<1>2. PICK q \in stopped : Away(q)
  BY WorkAboutTheStopped, Zenon
<1>3. m.about = q /\ q \in Nodes /\ stopped = {q}
  BY <1>2, TheStopped DEF MessageIn
<1> USE <1>3
<1>4. PICK d : d = At("remove", q, {})
  OBVIOUS
<1>5. /\ DOMAIN detector' = Nodes /\ DOMAIN server' = Nodes
      /\ \A p \in Nodes : detector'[p] = detector[p] /\ DetectorIn(p)' /\ ServerIn(p)'
  <2>1. server' = [server EXCEPT ![n] = d] /\ d.pc = "remove" /\ d.node \in stopped
    BY <1>4 DEF At
  <2> QED
    BY <2>1, ServerKept, Zenon
<1>6. status' = [status EXCEPT ![n][q] = IF status[n][q] = "unknown" THEN "unknown" ELSE "dead"]
  BY Zenon DEF Types
<1> USE <1>6
<1>7. status' \in [Nodes -> [Nodes -> Statuses]]
  BY DEF Types, Statuses
<1>8. \A i \in Nodes, x \in Lasting : status'[i][x] = status[i][x]
  BY DEF Types, Lasting
<1>9. status'[q][q] = "unknown"
  BY DEF Types, NotListed
<1>10. \A i \in Lasting : Known(i, q)' => Known(i, q)
  BY DEF Types, Known, Lasting
<1>11. /\ age' \in [Nodes -> [Nodes -> Nat]] /\ net' \subseteq Messages
       /\ \A x \in net : x.type = "join" => x \in net'
  BY Zenon DEF Types
<1>12. /\ \A i \in Nodes, x \in Lasting : status'[i][x] = status[i][x] /\ age'[i][x] = age[i][x]
       /\ \A i \in Lasting : Known(i, q)' => age'[i][q] = 0 \/ (Known(i, q) /\ age'[i][q] = age[i][q])
       /\ age'[q][q] = age[q][q]
       /\ \A x \in net' : x \in net \/ (x.type = "dead" /\ x.about \in stopped)
  BY <1>8, <1>10, Zenon
<1> QED
  BY <1>2, <1>5, <1>7, <1>9, <1>11, <1>12, AboutTheStopped, Zenon DEF Away

\* remove_node, at the end of handle_node_dead.
LEMMA ServerRemovesStep ==
  ASSUME Lossless, NEW n \in Nodes, ServerRemoves(n)
  PROVE  Lossless'
<1>0. Types /\ NotListed /\ ServerIn(n)
  BY DEF Lossless
<1> USE <1>0
<1>1. /\ server[n].pc = "remove" /\ Remove(n, server[n].node)
      /\ server' = [server EXCEPT ![n] = Idle]
      /\ UNCHANGED <<local, seeds, detector, beaten, net, stops, stopped>>
  BY DEF ServerRemoves, history
<1> USE <1>1
<1>2. PICK q \in stopped : Away(q)
  BY WorkAboutTheStopped DEF Idle
<1>3. server[n].node = q /\ q \in Nodes /\ stopped = {q}
  BY <1>2, TheStopped DEF ServerIn, Idle
<1> USE <1>3
<1>4. /\ DOMAIN detector' = Nodes /\ DOMAIN server' = Nodes
      /\ \A p \in Nodes : detector'[p] = detector[p] /\ DetectorIn(p)' /\ ServerIn(p)'
  BY ServerKept, Zenon
<1>5. /\ status' = [status EXCEPT ![n][q] = "unknown"]
      /\ age' = [age EXCEPT ![n][q] = 0]
  BY DEF Remove
<1> USE <1>5
<1>6. status' \in [Nodes -> [Nodes -> Statuses]] /\ age' \in [Nodes -> [Nodes -> Nat]]
  BY Zenon DEF Types, Statuses
<1>7. \A i \in Nodes, x \in Lasting : status'[i][x] = status[i][x] /\ age'[i][x] = age[i][x]
  BY Zenon DEF Types, Lasting
<1>8. status'[q][q] = "unknown" /\ (age'[q][q] = 0 \/ age'[q][q] = age[q][q])
  BY Zenon DEF Types, NotListed
<1>9. \A i \in Lasting : Known(i, q)' => Known(i, q) /\ age'[i][q] = age[i][q]
  BY Zenon DEF Types, Known, Lasting
<1>10. net' \subseteq Messages
  BY Zenon DEF Types
<1> QED
  BY <1>2, <1>4, <1>6, <1>7, <1>8, <1>9, <1>10, AboutTheStopped, Zenon DEF Away

\* handle_node_leave: the entry goes.
LEMMA LeaveStep ==
  ASSUME Lossless, NEW n \in Nodes, NEW m \in net, m.to = n, HandleNodeLeave(n, m)
  PROVE  Lossless'
<1>0. Types /\ NotListed /\ MessageIn(m) /\ \A p \in Nodes : DetectorIn(p) /\ ServerIn(p)
  BY DEF Lossless
<1>1. /\ m.type = "leave" /\ Remove(n, m.from) /\ net' = net \ {m}
      /\ UNCHANGED <<local, seeds, detector, server, beaten, stops, stopped>>
  BY DEF HandleNodeLeave, tasks, history
<1> USE <1>1
<1>2. PICK q \in stopped : q = m.from /\ n \in Lasting /\ local[q] \in {"leaving", "down"}
  BY <1>0, Zenon DEF MessageIn
<1>3. q \in Nodes /\ stopped = {q} /\ n # q /\ (Leaving(q) \/ Down(q)) /\ Lasting' = Lasting
  BY <1>2, TheStopped, Zenon DEF Station, Draining, Starting, Joining, Settling, Calm, Lasting
<1> USE <1>3
<1>4. /\ status' = [status EXCEPT ![n][q] = "unknown"]
      /\ age' = [age EXCEPT ![n][q] = 0]
  BY <1>2, Zenon DEF Remove
<1>5. status' \in [Nodes -> [Nodes -> Statuses]] /\ age' \in [Nodes -> [Nodes -> Nat]]
  BY <1>0, <1>4, Zenon DEF Types, Statuses
<1>6. \A i \in Nodes, x \in Lasting : status'[i][x] = status[i][x] /\ age'[i][x] = age[i][x]
  BY <1>0, <1>4, Zenon DEF Types, Lasting
<1>7. status'[q][q] = "unknown" /\ age'[q][q] = age[q][q]
  BY <1>0, <1>4, Zenon DEF Types, NotListed
<1>8. \A i \in Lasting : \/ status'[i][q] = "unknown" /\ age'[i][q] = 0
                         \/ status'[i][q] = status[i][q] /\ age'[i][q] = age[i][q]
  BY <1>0, <1>4, Zenon DEF Types, Lasting
<1>9. /\ net' \subseteq Messages /\ net' \subseteq net
      /\ \A x \in net : x.type = "join" => x \in net'
  BY <1>0, Zenon DEF Types
<1>10. \A p \in Nodes : DetectorIn(p)' /\ ServerIn(p)'
  BY <1>0, Zenon DEF DetectorIn, ServerIn, Idle, Lasting
<1>11. CASE Down(q)
  <2>1. \A i \in Lasting : Known(i, q)' => Known(i, q) /\ age'[i][q] = age[i][q]
    BY <1>8, Zenon DEF Known
  <2>2. DOMAIN detector' = Nodes /\ DOMAIN server' = Nodes /\ detector'[q] = detector[q]
    BY <1>0, Zenon DEF Types
  <2> QED
    BY <1>5, <1>6, <1>7, <1>9, <1>10, <1>11, <2>1, <2>2, AboutTheStopped, Zenon
<1>12. CASE Leaving(q)
  <2>1. Types' /\ OneStopped' /\ HasSeeds'
    BY <1>0, <1>5, <1>9, Zenon DEF Types, OneStopped, HasSeeds, Lossless
  <2>2. NotListed'
    BY <1>0, <1>6, <1>7 DEF NotListed, Lasting
  <2>3. \A i \in Lasting' : Live(i)'
    BY <1>6, LiveKept, Zenon DEF Lasting
  <2>4. \A x \in net' : MessageIn(x)'
    BY <1>9, Zenon DEF Lossless, MessageIn
  <2>5. Leaving(q)'
    <3>1. Still' /\ local'[q] = "leaving" /\ \A x \in net' : x.type = "leave"
      BY <1>9, <1>12, Zenon DEF Leaving, Still, Idle
    <3>2. \A i \in Lasting : status'[q][i] = "active" /\ age'[q][i] <= 1
      BY <1>6, <1>12, Zenon DEF Leaving
    <3>3. \A i \in Lasting : status'[i][q] \in {"active", "draining", "unknown"} /\ age'[i][q] <= 1
      BY <1>8, <1>12 DEF Leaving
    <3> QED
      BY <3>1, <3>2, <3>3, Zenon DEF Leaving
  <2> QED
    BY <1>10, <2>1, <2>2, <2>3, <2>4, <2>5, Zenon DEF Lossless, Station
<1> QED
  BY <1>11, <1>12

-----------------------------------------------------------------------------
(* The failure detector *)

\* The detector of a node takes up another work.
LEMMA DetectorKept ==
  ASSUME Lossless, NEW n \in Nodes, NEW d, Detector(n, d), server' = server, stopped' = stopped,
         \/ d = Idle
         \/ d.pc = "probing" /\ d.node \in stopped /\ \E h \in Lasting : d.todo = {h}
         \/ d.pc = "dead" /\ d.node \in stopped \cup {None} /\ d.todo \subseteq stopped
         \/ d.pc = "remove" /\ d.node \in stopped /\ d.todo \subseteq stopped
  PROVE  /\ DOMAIN detector' = Nodes /\ DOMAIN server' = Nodes
         /\ \A p \in Nodes : p # n => detector'[p] = detector[p]
         /\ \A p \in Nodes : DetectorIn(p)' /\ ServerIn(p)'
<1>1. DOMAIN detector' = Nodes /\ DOMAIN server' = Nodes /\ detector'[n] = d
  BY Zenon DEF Lossless, Types, Detector
<1>2. \A p \in Nodes : p # n => detector'[p] = detector[p]
  BY DEF Lossless, Types, Detector
<1>3. Lasting' = Lasting /\ \A p \in Nodes : DetectorIn(p) /\ ServerIn(p)
  BY DEF Lossless, Lasting
<1>4. \A p \in Nodes : ServerIn(p)'
  BY <1>3, Zenon DEF ServerIn, Idle
<1>5. DetectorIn(n)'
  BY <1>1, <1>3, Zenon DEF DetectorIn, Idle
<1>6. \A p \in Nodes : p # n => DetectorIn(p)'
  BY <1>2, <1>3, Zenon DEF DetectorIn, Idle
<1> QED
  BY <1>1, <1>2, <1>4, <1>5, <1>6

\* What a step that leaves the list of the node that stopped, and what the lists say of
\* the others, alone has to show.
LEMMA DetectorWorks ==
  ASSUME Lossless, NEW q \in stopped, Away(q), NEW n \in Lasting, NEW d, Detector(n, d),
         \/ d = Idle
         \/ d.pc = "probing" /\ d.node \in stopped /\ \E h \in Lasting : d.todo = {h}
         \/ d.pc = "dead" /\ d.node \in stopped \cup {None} /\ d.todo \subseteq stopped
         \/ d.pc = "remove" /\ d.node \in stopped /\ d.todo \subseteq stopped,
         UNCHANGED <<local, seeds, server, beaten, stops, stopped>>,
         status' \in [Nodes -> [Nodes -> Statuses]], age' \in [Nodes -> [Nodes -> Nat]],
         \A i \in Nodes, p \in Lasting : status'[i][p] = status[i][p] /\ age'[i][p] = age[i][p],
         status'[q][q] = "unknown", age'[q][q] = age[q][q],
         \A i \in Lasting : Known(i, q)' => age'[i][q] = 0 \/ (Known(i, q) /\ age'[i][q] = age[i][q]),
         net' \subseteq Messages, net \subseteq net',
         \A m \in net' : m \in net \/ (m.type = "dead" /\ m.about \in stopped)
  PROVE  Lossless'
<1>1. n \in Nodes /\ n # q /\ q \in Nodes
  BY TheStopped, Zenon
<1>2. /\ DOMAIN detector' = Nodes /\ DOMAIN server' = Nodes /\ detector'[q] = detector[q]
      /\ \A p \in Nodes : DetectorIn(p)' /\ ServerIn(p)'
  BY <1>1, DetectorKept, Zenon
<1> QED
  BY <1>2, AboutTheStopped, Zenon DEF Away

\* handle_suspect_node.
LEMMA SuspectStep ==
  ASSUME Tolerated, Lossless, NEW n \in Nodes, NEW q \in Nodes, HandleSuspectNode(n, q)
  PROVE  Lossless'
<1>0. Types /\ NotListed
  BY DEF Lossless
<1>1. /\ status[n][q] = "active" /\ age[n][q] > SuspectTimeout
      /\ UNCHANGED <<local, age, seeds, server, beaten, net, stops, stopped>>
  BY Zenon DEF HandleSuspectNode, SuspectCandidates, history
<1>2. n \in Lasting /\ q \in stopped /\ ~Draining(q) /\ ~Leaving(q) /\ ~Calm(q)
  BY <1>1, OnlyTheStopped, Zenon
<1>3. Away(q)
  BY <1>2, TheStopped DEF Station, Away
<1>4. PICK got \in SUBSET {p \in ReachableNodes(n) \ {q} : Serving(p) /\ server[p].pc = "idle"} :
        MarkSuspect(got \cup {n}, q)
  BY Zenon DEF HandleSuspectNode
<1>5. status' \in [Nodes -> [Nodes -> Statuses]]
  BY <1>0, <1>4, Zenon DEF MarkSuspect, Types, Statuses
<1>6. /\ \A i \in Nodes, p \in Lasting : status'[i][p] = status[i][p]
      /\ \A i \in Nodes : Known(i, q)' => Known(i, q)
      /\ status'[q][q] = "unknown"
  BY <1>0, <1>2, <1>4, TheStopped, Zenon DEF MarkSuspect, Types, Known, NotListed
<1>a. /\ age' \in [Nodes -> [Nodes -> Nat]] /\ net' \subseteq Messages /\ net' = net
      /\ \A i \in Nodes, p \in Nodes : age'[i][p] = age[i][p]
      /\ UNCHANGED <<local, seeds, server, beaten, stops, stopped>>
  BY <1>0, <1>1, Zenon DEF Types
<1>b. /\ \A i \in Nodes, p \in Lasting : status'[i][p] = status[i][p] /\ age'[i][p] = age[i][p]
      /\ \A i \in Lasting : Known(i, q)' => age'[i][q] = 0 \/ (Known(i, q) /\ age'[i][q] = age[i][q])
      /\ age'[q][q] = age[q][q] /\ net \subseteq net'
      /\ \A m \in net' : m \in net \/ (m.type = "dead" /\ m.about \in stopped)
      /\ \A m \in net : m.type = "join" => m \in net'
  BY <1>2, <1>6, <1>a, Zenon DEF Lasting
<1>7. CASE UNCHANGED detector
  <2>1. \A p \in Nodes : DetectorIn(p)' /\ ServerIn(p)'
    BY <1>1, <1>7, Zenon DEF Lossless, DetectorIn, ServerIn, Idle, Lasting
  <2> QED
    <3>1. DOMAIN detector' = Nodes /\ DOMAIN server' = Nodes /\ detector'[q] = detector[q]
      BY <1>0, <1>1, <1>7, Zenon DEF Types
    <3> QED
      BY <1>2, <1>3, <1>5, <1>6, <1>a, <1>b, <2>1, <3>1, AboutTheStopped, Zenon DEF Away
<1>8. CASE \E h \in ActiveNodes(n) \ {q} : Detector(n, At("probing", q, {h}))
  <2>1. PICK h \in ActiveNodes(n) \ {q} : Detector(n, At("probing", q, {h}))
    BY <1>8, Zenon
  <2>2. h \in Lasting
    BY <1>2, TheStopped DEF ActiveNodes
  <2>3. PICK d : d = At("probing", q, {h})
    OBVIOUS
  <2>4. d.pc = "probing" /\ d.node \in stopped /\ \E x \in Lasting : d.todo = {x}
    BY <1>2, <2>2, <2>3, Zenon DEF At
  <2>5. Detector(n, d)
    BY <2>1, <2>3, Zenon
  <2> QED
    BY <1>2, <1>3, <1>5, <1>6, <1>a, <1>b, <2>4, <2>5, DetectorWorks, Zenon
<1> QED
  BY <1>7, <1>8, Zenon DEF HandleSuspectNode

\* A detector that is at work is that of a lasting node, and works on the one that stopped.
LEMMA AtWork ==
  ASSUME Lossless, NEW n \in Nodes, detector[n].pc # "idle"
  PROVE  \E q \in stopped : /\ Away(q) /\ n \in Lasting
                            /\ detector[n].node \in {q, None} /\ detector[n].todo \subseteq Nodes
                            /\ detector[n].pc = "probing" =>
                                 detector[n].node = q /\ \E h \in Lasting : detector[n].todo = {h}
                            /\ detector[n].pc \in {"dead", "remove"} => detector[n].todo \subseteq {q}
                            /\ detector[n].pc = "remove" => detector[n].node = q
<1>1. detector[n] # Idle /\ DetectorIn(n)
  BY DEF Lossless, Idle
<1>2. PICK q \in stopped : Away(q) /\ n \in Lasting
  BY <1>1, WorkAboutTheStopped, Zenon
<1> QED
  BY <1>1, <1>2, TheStopped, Zenon DEF DetectorIn

\* The end of indirect_probe: what it hears of the node that stopped is fresh.
LEMMA ProbeStep ==
  ASSUME Lossless, NEW n \in Nodes, ProbeEnds(n)
  PROVE  Lossless'
<1>0. Types /\ NotListed
  BY Zenon DEF Lossless
<1>1. /\ detector[n].pc = "probing" /\ Detector(n, Idle)
      /\ UNCHANGED <<local, seeds, server, beaten, stops, stopped>>
  BY Zenon DEF ProbeEnds, DetectorAt, history
<1>2. PICK q \in stopped : /\ Away(q) /\ n \in Lasting /\ detector[n].node = q
                           /\ \E h \in Lasting : detector[n].todo = {h}
  BY <1>1, AtWork, Zenon
<1>3. PICK h \in Lasting : detector[n].todo = {h}
  BY <1>2, Zenon
<1>4. (CHOOSE x \in detector[n].todo : TRUE) = h
  BY <1>3, Zenon
<1>5. h \in Nodes /\ q \in Nodes /\ h # q /\ n # q /\ Live(h) /\ stopped = {q}
  BY <1>2, <1>3, TheStopped, Zenon
<1>6. Introductions(h, q) = {}
  <2>1. \A x \in Nodes : x \notin {h, q} => Known(h, x)
    BY <1>3, <1>5, Zenon DEF Live, Hears, Known, Lasting
  <2> QED
    BY <1>5, <2>1, Zenon DEF Introductions, ToAll, ReachableNodes
<1>7. \E hears \in SUBSET {n, h} :
        /\ h \in hears /\ h # n => Serving(q)
        /\ status' = [x \in Nodes |-> IF x \notin hears THEN status[x]
                        ELSE [status[x] EXCEPT ![q] = IF x = n THEN "active" ELSE Told(q)]]
        /\ age' = [x \in Nodes |-> IF x \in hears THEN [age[x] EXCEPT ![q] = 0] ELSE age[x]]
        /\ net' = net
  <2> DEFINE P == detector[n].node
             H == CHOOSE x \in detector[n].todo : TRUE
             saved(alive) == Known(n, P) /\ (alive \/ age[n][P] <= SuspectTimeout)
             hears(alive, pinged) ==
               (IF saved(alive) THEN {n} ELSE {}) \cup (IF pinged THEN {H} ELSE {})
  <2>1. PICK alive \in {FALSE, ProbeAlive(H, P)}, pinged \in {FALSE, Pinged(H, P)} :
          /\ status' = [x \in Nodes |-> IF x \notin hears(alive, pinged) THEN status[x]
                          ELSE [status[x] EXCEPT ![P] = IF x = n THEN "active" ELSE Told(P)]]
          /\ age' = [x \in Nodes |-> IF x \in hears(alive, pinged) THEN [age[x] EXCEPT ![P] = 0] ELSE age[x]]
          /\ net' = net \cup (IF pinged THEN Introductions(H, P) ELSE {})
    BY Zenon DEF ProbeEnds
  <2>2. P = q /\ H = h
    BY <1>2, <1>4, Zenon
  <2> USE <2>2
  <2>3. hears(alive, pinged) \in SUBSET {n, h} /\ net' = net
    BY <1>6, <2>1, Zenon
  <2>4. h \in hears(alive, pinged) /\ h # n => Serving(q)
    <3>1. pinged => Pinged(h, q)
      BY <2>1, Zenon
    <3>2. Pinged(h, q) => Serving(q)
      BY Zenon DEF Pinged
    <3> QED
      BY <3>1, <3>2
  <2> HIDE DEF hears
  <2> QED
    BY <2>1, <2>3, <2>4, Zenon
<1>8. PICK hears \in SUBSET {n, h} :
        /\ h \in hears /\ h # n => Serving(q)
        /\ status' = [x \in Nodes |-> IF x \notin hears THEN status[x]
                        ELSE [status[x] EXCEPT ![q] = IF x = n THEN "active" ELSE Told(q)]]
        /\ age' = [x \in Nodes |-> IF x \in hears THEN [age[x] EXCEPT ![q] = 0] ELSE age[x]]
        /\ net' = net
  BY <1>7, Zenon
<1> USE <1>8
<1>9. Serving(q) => Told(q) \in Statuses
  BY <1>0, <1>5 DEF Told, Types, Locals, Statuses, Serving
<1>10. status' \in [Nodes -> [Nodes -> Statuses]] /\ age' \in [Nodes -> [Nodes -> Nat]]
  BY <1>0, <1>9, Zenon DEF Types, Statuses
<1>11. \A i \in Nodes, p \in Lasting : status'[i][p] = status[i][p] /\ age'[i][p] = age[i][p]
  BY <1>0, <1>5, Zenon DEF Types, Lasting
<1>12. status'[q][q] = "unknown" /\ age'[q][q] = age[q][q]
  BY <1>0, <1>5, Zenon DEF NotListed
<1>13. \A i \in Nodes : age'[i][q] = 0 \/ (status'[i][q] = status[i][q] /\ age'[i][q] = age[i][q])
  BY <1>0, <1>5, Zenon DEF Types
<1>14. \A i \in Lasting : Known(i, q)' => age'[i][q] = 0 \/ (Known(i, q) /\ age'[i][q] = age[i][q])
  BY <1>13, Zenon DEF Known, Lasting
<1> QED
  BY <1>0, <1>1, <1>2, <1>10, <1>11, <1>12, <1>14, DetectorWorks, Zenon DEF Types

\* get_dead_candidates: the node that stopped, at most.
LEMMA FindStep ==
  ASSUME Tolerated, Lossless, NEW n \in Nodes, FindDead(n)
  PROVE  Lossless'
<1>0. Types /\ NotListed
  BY Zenon DEF Lossless
<1>1. /\ Detector(n, At("dead", None, DeadCandidates(n))) /\ DeadCandidates(n) # {}
      /\ UNCHANGED <<local, status, age, seeds, server, beaten, net, stops, stopped>>
  BY Zenon DEF FindDead, lists, history
<1> USE <1>1
<1>2. \A p \in DeadCandidates(n) :
        n \in Lasting /\ p \in stopped /\ ~Draining(p) /\ ~Leaving(p) /\ ~Calm(p)
  <2> SUFFICES ASSUME NEW p \in DeadCandidates(n)
               PROVE  n \in Lasting /\ p \in stopped /\ ~Draining(p) /\ ~Leaving(p) /\ ~Calm(p)
    OBVIOUS
  <2>1. p \in Nodes /\ status[n][p] = "suspect" /\ age[n][p] > SuspectTimeout + DeadTimeout
    BY Zenon DEF DeadCandidates
  <2>2. age[n][p] > SuspectTimeout
    BY <1>0, <2>1, MembershipAssumption DEF Types
  <2> QED
    BY <2>1, <2>2, OnlyTheStopped, Zenon
<1>3. PICK q \in stopped : Away(q) /\ n \in Lasting
  BY <1>2, TheStopped, Zenon DEF Station, Away
<1>4. PICK d : d = At("dead", None, DeadCandidates(n))
  OBVIOUS
<1>5. d.pc = "dead" /\ d.node \in stopped \cup {None} /\ d.todo \subseteq stopped
  BY <1>2, <1>4, Zenon DEF At
<1>6. Detector(n, d) /\ \A i \in Lasting : Known(i, q)' => Known(i, q)
  BY <1>4, Zenon DEF Known
<1>7. status'[q][q] = "unknown" /\ status' \in [Nodes -> [Nodes -> Statuses]]
      /\ age' \in [Nodes -> [Nodes -> Nat]] /\ net' \subseteq Messages
  BY <1>0, Zenon DEF Types, NotListed
<1> QED
  BY <1>3, <1>5, <1>6, <1>7, DetectorWorks, Zenon

\* What is left of the work when one candidate is done.
LEMMA WithoutDeadIn ==
  ASSUME Lossless, NEW n \in Nodes, NEW p, detector[n].todo \subseteq stopped
  PROVE  \/ WithoutDead(n, p) = Idle
         \/ /\ WithoutDead(n, p).pc = "dead" /\ WithoutDead(n, p).node \in stopped \cup {None}
            /\ WithoutDead(n, p).todo \subseteq stopped
  BY Zenon DEF WithoutDead, At

\* handle_dead_node: mark_dead.
LEMMA DeadStep ==
  ASSUME Lossless, NEW n \in Nodes, NEW p \in Nodes, HandleDeadNode(n, p)
  PROVE  Lossless'
<1>0. Types /\ NotListed
  BY DEF Lossless
<1>1. /\ detector[n].pc = "dead" /\ p \in detector[n].todo
      /\ UNCHANGED <<local, age, seeds, server, beaten, net, stops, stopped>>
  BY Zenon DEF HandleDeadNode, DetectorAt, history
<1>2. PICK q \in stopped : Away(q) /\ n \in Lasting /\ detector[n].todo \subseteq {q}
  BY <1>1, AtWork, Zenon
<1>3. p = q /\ n # q /\ q \in Nodes /\ stopped = {q} /\ detector[n].todo \subseteq stopped
  BY <1>1, <1>2, TheStopped, Zenon
<1> USE <1>3
<1>4. \/ status' = [status EXCEPT ![n][q] = "dead"] /\ Known(n, q)
      \/ status' = status
  BY Zenon DEF HandleDeadNode
<1>5. \E d : /\ Detector(n, d)
             /\ \/ d = Idle
                \/ d.pc = "dead" /\ d.node \in stopped \cup {None} /\ d.todo \subseteq stopped
  <2>1. CASE Known(n, p)
    <3>1. PICK d : d = At("dead", p, detector[n].todo)
      OBVIOUS
    <3>2. Detector(n, d) /\ d.pc = "dead" /\ d.node = p /\ d.todo = detector[n].todo
      BY <2>1, <3>1, Zenon DEF HandleDeadNode, At
    <3> QED
      BY <3>2
  <2>2. CASE ~Known(n, p)
    BY <2>2, WithoutDeadIn, Zenon DEF HandleDeadNode
  <2> QED
    BY <2>1, <2>2
<1>6. PICK d : /\ Detector(n, d)
               /\ \/ d = Idle
                  \/ d.pc = "dead" /\ d.node \in stopped \cup {None} /\ d.todo \subseteq stopped
  BY <1>5
<1>7. /\ status' \in [Nodes -> [Nodes -> Statuses]] /\ status'[q][q] = "unknown"
      /\ \A i \in Nodes, x \in Lasting : status'[i][x] = status[i][x]
  <2>1. CASE status' = status
    BY <1>0, <2>1, Zenon DEF Types, NotListed
  <2>2. CASE status' = [status EXCEPT ![n][q] = "dead"]
    <3>1. status' \in [Nodes -> [Nodes -> Statuses]]
      BY <1>0, <2>2, Zenon DEF Types, Statuses
    <3>2. status'[q][q] = "unknown" /\ \A i \in Nodes, x \in Lasting : status'[i][x] = status[i][x]
      BY <1>0, <2>2, Zenon DEF Types, NotListed, Lasting
    <3> QED
      BY <3>1, <3>2, Zenon
  <2> QED
    BY <1>4, <2>1, <2>2
<1>8. \A i \in Lasting : Known(i, q)' => Known(i, q)
  BY <1>0, <1>4, Zenon DEF Types, Known, Lasting
<1>9. age' \in [Nodes -> [Nodes -> Nat]] /\ net' \subseteq Messages
  BY <1>0, <1>1, Zenon DEF Types
<1>10. /\ \A i \in Nodes, x \in Lasting : status'[i][x] = status[i][x] /\ age'[i][x] = age[i][x]
       /\ \A i \in Lasting : Known(i, q)' => age'[i][q] = 0 \/ (Known(i, q) /\ age'[i][q] = age[i][q])
       /\ age'[q][q] = age[q][q] /\ net \subseteq net'
       /\ \A m \in net' : m \in net \/ (m.type = "dead" /\ m.about \in stopped)
  BY <1>1, <1>7, <1>8, Zenon
<1> QED
  BY <1>1, <1>2, <1>6, <1>7, <1>9, <1>10, DetectorWorks, Zenon

\* NODE_DEAD to whoever is reachable.
LEMMA BroadcastStep ==
  ASSUME Lossless, NEW n \in Nodes, BroadcastDead(n)
  PROVE  Lossless'
<1>0. Types /\ NotListed
  BY DEF Lossless
<1>1. /\ detector[n].pc = "dead" /\ detector[n].node # None
      /\ UNCHANGED <<local, status, age, seeds, server, beaten, stops, stopped>>
      /\ net' = net \cup ToAll(ReachableNodes(n), "dead", n, detector[n].node)
      /\ Detector(n, At("remove", detector[n].node, detector[n].todo))
  BY Zenon DEF BroadcastDead, DetectorAt, lists, history
<1> USE <1>1
<1>2. PICK q \in stopped : /\ Away(q) /\ n \in Lasting /\ detector[n].todo \subseteq {q}
                           /\ detector[n].node = q
  BY AtWork, Zenon
<1> USE <1>2
<1>3. n # q /\ q \in Nodes /\ stopped = {q}
  BY TheStopped, Zenon
<1>4. PICK d : d = At("remove", q, detector[n].todo)
  OBVIOUS
<1>5. Detector(n, d) /\ d.pc = "remove" /\ d.node \in stopped /\ d.todo \subseteq stopped
  BY <1>3, <1>4, Zenon DEF At
<1>6. /\ net \subseteq net' /\ net' \subseteq Messages
      /\ \A m \in net' : m \in net \/ (m.type = "dead" /\ m.about \in stopped)
  BY <1>0, <1>3 DEF ToAll, ReachableNodes, Messages, Types
<1>7. /\ status' \in [Nodes -> [Nodes -> Statuses]] /\ status'[q][q] = "unknown"
      /\ age' \in [Nodes -> [Nodes -> Nat]]
      /\ \A i \in Lasting : Known(i, q)' => Known(i, q)
  BY <1>0, <1>3, Zenon DEF Types, NotListed, Known
<1> QED
  BY <1>5, <1>6, <1>7, DetectorWorks, Zenon

\* remove_node, at the end of handle_dead_node.
LEMMA RemoveStep ==
  ASSUME Lossless, NEW n \in Nodes, RemoveDead(n)
  PROVE  Lossless'
<1>0. Types /\ NotListed
  BY DEF Lossless
<1>1. /\ detector[n].pc = "remove" /\ Remove(n, detector[n].node)
      /\ UNCHANGED <<local, seeds, server, beaten, net, stops, stopped>>
      /\ Detector(n, WithoutDead(n, detector[n].node))
  BY DEF RemoveDead, DetectorAt, history
<1> USE <1>1
<1>2. PICK q \in stopped : /\ Away(q) /\ n \in Lasting /\ detector[n].todo \subseteq {q}
                           /\ detector[n].node = q
  BY AtWork, Zenon
<1>3. n # q /\ q \in Nodes /\ stopped = {q} /\ detector[n].todo \subseteq stopped
  BY <1>2, TheStopped
<1>4. /\ status' = [status EXCEPT ![n][q] = "unknown"]
      /\ age' = [age EXCEPT ![n][q] = 0]
  BY <1>2, Zenon DEF Remove
<1>5. /\ status' \in [Nodes -> [Nodes -> Statuses]] /\ age' \in [Nodes -> [Nodes -> Nat]]
      /\ \A i \in Nodes, x \in Lasting : status'[i][x] = status[i][x] /\ age'[i][x] = age[i][x]
      /\ status'[q][q] = "unknown" /\ age'[q][q] = age[q][q]
  BY <1>0, <1>3, <1>4, Zenon DEF Types, Statuses, NotListed, Lasting
<1>6. \A i \in Lasting : Known(i, q)' => Known(i, q) /\ age'[i][q] = age[i][q]
  BY <1>0, <1>3, <1>4, Zenon DEF Types, Known, Lasting
<1>7. net' \subseteq Messages
  BY <1>0, Zenon DEF Types
<1> QED
  BY <1>2, <1>3, <1>5, <1>6, <1>7, WithoutDeadIn, DetectorWorks, Zenon

-----------------------------------------------------------------------------
(* The theorem *)

\* At first everyone knows everyone, and nothing has happened.
LEMMA InvInit ==
  ASSUME Init
  PROVE  Inv
<1>1. Types
  BY MembershipAssumption, Zenon DEF Init, Types, Locals, Statuses
<1>2. OneStopped /\ HasSeeds /\ NotListed
  BY MembershipAssumption, SMTT(30) DEF Init, OneStopped, HasSeeds, NotListed
<1>3. Still /\ net = {} /\ stopped = {} /\ Lasting = Nodes
  BY Zenon DEF Init, Still, Lasting
<1>4. \A n \in Nodes : Live(n) /\ DetectorIn(n) /\ ServerIn(n)
  BY <1>3 DEF Init, Live, Hears, Still, DetectorIn, ServerIn
<1> QED
  BY <1>1, <1>2, <1>3, <1>4, Zenon DEF Init, Inv, Lossless

\* What was lost, or has stopped, stays so.
LEMMA HistoryGrows ==
  ASSUME stops \in Nat, [Next]_vars
  PROVE  /\ unheard' = {} => unheard = {}
         /\ stops' \in Nat /\ (stops' <= 1 => stops <= 1)
<1> DEFINE Grown == unheard \subseteq unheard' /\ stops' \in {stops, stops + 1}
<1>1. ASSUME NEW n \in Nodes PROVE Heartbeat(n) => Grown
  BY Zenon DEF Heartbeat, Loses
<1>2. Tick \/ UNCHANGED vars => Grown
  BY Zenon DEF Tick, vars, history
<1>3. ASSUME NEW n \in Nodes PROVE DetectorStep(n) => Grown
  BY Zenon DEF DetectorStep, HandleSuspectNode, HandleDeadNode, ProbeEnds, FindDead, BroadcastDead,
         RemoveDead, history
<1>4. ASSUME NEW n \in Nodes PROVE ServerStep(n) => Grown
  BY Zenon DEF ServerStep, ServerRemoves, Receive, HandleNodeJoin, HandleNodeLeave, HandleNodeDead, history
<1>5. ASSUME NEW n \in Nodes
      PROVE  Start(n) \/ Activate(n) \/ Shutdown(n) \/ Stopping(n) \/ Crash(n) => Grown
  BY Zenon DEF Start, Activate, Shutdown, Stopping, SendLeave, Exit, Crash, Stops, history
<1>6. Grown
  BY <1>1, <1>2, <1>3, <1>4, <1>5, Zenon DEF Next
<1> QED
  BY <1>6

\* One step.
LEMMA InvStep ==
  ASSUME Tolerated, Inv, [Next]_vars
  PROVE  Inv'
<1>1. stops' \in Nat /\ (unheard' = {} => unheard = {}) /\ (stops' <= 1 => stops <= 1)
  BY HistoryGrows, Zenon DEF Inv
<1> SUFFICES ASSUME unheard' = {}, stops' <= 1, Lossless PROVE Lossless'
  BY <1>1, Zenon DEF Inv
<1>2. CASE UNCHANGED vars
  <2>1. UNCHANGED <<local, status, age, seeds, detector, server, beaten, net, stops, stopped>>
    BY <1>2 DEF vars
  <2> USE <2>1
  <2>2. Types' /\ OneStopped' /\ HasSeeds' /\ NotListed' /\ Lasting' = Lasting
    BY Zenon DEF Lossless, Types, OneStopped, HasSeeds, NotListed, Lasting
  <2> USE <2>2
  <2>3. \A n \in Lasting' : Live(n)'
    BY LiveKept, Zenon
  <2>4. \A n \in Nodes : DetectorIn(n)' /\ ServerIn(n)'
    BY Zenon DEF Lossless, DetectorIn, ServerIn, Idle
  <2>5. (\A m \in net' : MessageIn(m)') /\ (Still => Still')
    BY Zenon DEF Lossless, MessageIn, Still, Idle
  <2> USE <2>5
  <2>6. ASSUME NEW q \in stopped PROVE Station(q)'
    <3>1. Draining(q) => Draining(q)'
      BY Zenon DEF Draining, Hears
    <3>2. Leaving(q) => Leaving(q)'
      BY Zenon DEF Leaving
    <3>3. (Down(q) => Down(q)') /\ (Starting(q) => Starting(q)')
      BY Zenon DEF Down, Starting, Blank, AsksSeeds, Join, Idle
    <3>4. (Joining(q) => Joining(q)') /\ (Settling(q) => Settling(q)')
      BY Zenon DEF Joining, Settling, AsksSeeds, Join, Idle, Known
    <3>5. Calm(q) => Calm(q)'
      BY Zenon DEF Calm, Known
    <3> QED
      BY <2>6, <3>1, <3>2, <3>3, <3>4, <3>5, TheStopped, Zenon DEF Station
  <2> QED
    BY <2>3, <2>4, <2>6, Zenon DEF Lossless
<1>3. CASE Tick
  BY <1>3, TickStep
<1>4. ASSUME NEW n \in Nodes, Heartbeat(n) PROVE Lossless'
  BY <1>4, LastingBeats, StoppedBeats DEF Lasting
<1>5. ASSUME NEW n \in Nodes, DetectorStep(n) PROVE Lossless'
  BY <1>5, SuspectStep, DeadStep, ProbeStep, FindStep, BroadcastStep, RemoveStep DEF DetectorStep
<1>6. ASSUME NEW n \in Nodes, ServerStep(n) PROVE Lossless'
  BY <1>6, ServerRemovesStep, JoinStep, LeaveStep, NodeDeadStep, Zenon DEF ServerStep, Receive
<1>7. ASSUME NEW n \in Nodes, Start(n) \/ Activate(n) \/ Shutdown(n) \/ Stopping(n) \/ Crash(n)
      PROVE  Lossless'
  BY <1>7, StartStep, ActivateStep, ShutdownStep, SendLeaveStep, ExitStep, CrashStep, Zenon DEF Stopping
<1> QED
  BY <1>2, <1>3, <1>4, <1>5, <1>6, <1>7, Zenon DEF Next

\* The inductive invariant holds.
THEOREM LosslessHolds == ASSUME Tolerated PROVE Spec => []Inv
<1>1. Init => Inv
  BY InvInit
<1>2. Inv /\ [Next]_vars => Inv'
  BY InvStep
<1> QED
  BY <1>1, <1>2, PTL DEF Spec

\* The failure detector is accurate, in a cluster of any size: when the suspect timeout
\* is at least three intervals and one node at most stops, by a crash or a shutdown, nodes
\* that last hear each other in every interval and never suspect each other, whenever that
\* node comes back and whatever get_dead_candidates, NODE_SUSPECT, the probes and NODE_DEAD
\* make of it meanwhile.
THEOREM DetectorAccurate == ASSUME Tolerated PROVE Spec => []Accurate
<1>1. Inv => Accurate
  BY Zenon DEF Inv, Lossless, Accurate, Lasting, Live, Hears
<1> QED
  BY <1>1, LosslessHolds, PTL
=============================================================================
