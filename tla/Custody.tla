------------------------------- MODULE Custody -------------------------------
(***************************************************************************)
(* What the cluster promises about the ownership of devices: the table     *)
(* T_BUCKETS names one owner for each device, the nodes keep in memory the *)
(* devices they hold, and a device changes hands by being taken first and  *)
(* released afterwards.  A device is disputed once something other than a  *)
(* single undisturbed hand-over has happened to it.                        *)
(*                                                                         *)
(* Module Ownership is shown to implement this.                            *)
(***************************************************************************)
EXTENDS Integers, FiniteSets

CONSTANTS Nodes, Devices

VARIABLES owner,    \* the owner of each device in the table
          holders,  \* the nodes that have it in memory
          up,       \* the nodes whose process runs
          disputed  \* devices whose custody may be split or missing

vars == <<owner, holders, up, disputed>>

Init ==
  /\ owner \in [Devices -> Nodes]
  /\ holders = [d \in Devices |-> {owner[d]}]
  /\ up = Nodes
  /\ disputed = {}

\* A node becomes the owner and holds the device from then on.
Take(n, d) ==
  /\ n \in up
  /\ owner' = [owner EXCEPT ![d] = n]
  /\ holders' = [holders EXCEPT ![d] = @ \cup {n}]
  /\ disputed' \in {disputed, disputed \cup {d}}
  /\ UNCHANGED up

\* A node lets go of devices that have another owner.
Release(n, ds) ==
  /\ n \in up
  /\ \A d \in ds : owner[d] # n \/ d \in disputed
  /\ holders' = [d \in Devices |-> IF d \in ds THEN holders[d] \ {n} ELSE holders[d]]
  /\ UNCHANGED <<owner, up, disputed>>

\* Another node names the owner, who does not hear of it.
Assign(n, d) ==
  /\ owner' = [owner EXCEPT ![d] = n]
  /\ disputed' = disputed \cup {d}
  /\ UNCHANGED <<holders, up>>

\* A hand-over was disturbed.
Dispute(ds) ==
  /\ disputed' = disputed \cup ds
  /\ UNCHANGED <<owner, holders, up>>

\* A process ends and its memory is gone; a hand-over it had begun is disturbed.
Stop(n, ds) ==
  /\ n \in up /\ up' = up \ {n}
  /\ holders' = [d \in Devices |-> holders[d] \ {n}]
  /\ disputed' = disputed \cup ds
  /\ UNCHANGED owner

\* A node that starts holds what the table says is its own.
Recover(n) ==
  /\ n \notin up /\ up' = up \cup {n}
  /\ holders' = [d \in Devices |-> IF owner[d] = n THEN holders[d] \cup {n} ELSE holders[d] \ {n}]
  /\ UNCHANGED <<owner, disputed>>

Next ==
  \/ \E n \in Nodes, d \in Devices : Take(n, d) \/ Assign(n, d)
  \/ \E n \in Nodes : Recover(n)
  \/ \E n \in Nodes, ds \in SUBSET Devices : Release(n, ds) \/ Stop(n, ds)
  \/ \E ds \in SUBSET Devices : Dispute(ds)

Spec == Init /\ [][Next]_vars
=============================================================================
