-------------------------------- MODULE Config ------------------------------
(***************************************************************************)
(* The configuration of the nodes: ConfigManager (memory and the YAML      *)
(* file), resolve_config at start, the RPC methods that change it          *)
(* (config.set, config.propagate, cluster.join), CONFIG_UPDATE and         *)
(* NODE_JOIN at the cluster server, and the parts of a running node that   *)
(* follow it without a restart: the metrics flag, the backdoor's socket,   *)
(* the name in the membership list.                                        *)
(*                                                                         *)
(* A value is its text, as get_config_value prints it; None is "".  An     *)
(* update changes the memory under the lock, and writes the file after     *)
(* releasing it: fs::write truncates, then writes.                         *)
(***************************************************************************)
EXTENDS Integers, Sequences, FiniteSets, Functions

CONSTANTS Nodes,
          Conns,       \* Conns[n]: RPC connections of n, each handled by its own task
          Address,     \* Address[n]: cluster address of n
          Uuid,        \* Uuid[n][k]: what Uuid::new_v4 returns at n, the k-th time
          Default,     \* HesConfig::default without node_id
          Files,       \* Files[n]: files n may be installed with, FileConfigs or NoFile
          Cli,         \* Cli[n]: command lines of n, what CliOverrides sets
          Env,         \* Env[p]: value of the variable that the pattern p names
          Patterns,    \* texts with a ${VAR}
          U16, Usize,  \* parse::<u16>, parse::<usize> and to_string, as functions on texts
          UuidText,    \* Uuid::parse_str and to_string
          SeedsText,   \* SeedsText[s]: the addresses s joined with commas
          Edits,       \* the <<key, text>> that administrators set
          MaxOps,      \* bound on RPC calls
          MaxFaults,   \* bound on crashes, I/O errors and lost messages
          MaxStarts    \* MaxStarts[n]: bound on starts of n; the last one is not stopped

Server == "server"
Tasks == (UNION Range(Conns)) \cup {Server}
NoFile == [absent |-> "absent"]

VARIABLES
  status,   \* status[n]: "down", "boot" (in resolve_config) or "up"
  mem,      \* mem[n]: HesConfig in memory
  file,     \* file[n]: [st |-> "absent", "empty", "whole" or "mixed", cfg |-> FileConfig]
  hot,      \* hot[n]: whether the cluster and the RPC server run, metrics flag, name,
            \* backdoor address asked for and bound, watch channel changed
  task,     \* task[n][t]: control state and locals of a task
  net,      \* CONFIG_UPDATE and NODE_JOIN messages
  starts,   \* starts[n]: number of starts
  hist      \* history, see below

vars == <<status, mem, file, hot, task, net, starts, hist>>

(***************************************************************************)
(* hist.id[n]      node_id of the first start                             *)
(* hist.torn[n]    the process ended with an emptied file                  *)
(* hist.stale[n]   the last update overlapped another one, or failed       *)
(* hist.astray[n]  some update since the start did, or a rebind failed     *)
(* hist.remote[n]  keys last changed by another node                       *)
(* hist.promised   key -> text of a propagation that nothing disturbed     *)
(* hist.ops, hist.faults   counters                                        *)
(***************************************************************************)

Idle == [pc |-> "idle", op |-> "none", key |-> "none", text |-> "", ip |-> "", snap |-> <<>>]
Off == [cluster |-> FALSE, rpc |-> FALSE, metrics |-> FALSE, name |-> "",
        asked |-> <<>>, bound |-> <<>>, changed |-> FALSE]
Up == {n \in Nodes : status[n] = "up"}
Clustered == {n \in Up : hot[n].cluster}
Quiet(n) == \A t \in Tasks : task[n][t].pc = "idle"

-----------------------------------------------------------------------------
(* HesConfig, FileConfig and their conversions.                            *)

KeyKind ==
  [backdoor_ip |-> "Str", metrics_ip |-> "Str", cluster_ip |-> "Str", rpc_ip |-> "Str",
   backdoor_port |-> "U16", metrics_port |-> "U16", cluster_port |-> "U16", rpc_port |-> "U16",
   metrics_enabled |-> "Bool", cluster_enabled |-> "Bool", rpc_enabled |-> "Bool",
   test_mode |-> "Bool", buckets_number |-> "Usize",
   cluster_seeds |-> "OptStr", node_name |-> "OptStr"]

\* The checks of set_config_value: {the value stored}, or {} for an error.
Validated(key, text) ==
  IF key \notin DOMAIN KeyKind THEN {}   \* read-only or unknown
  ELSE CASE KeyKind[key] = "Str"    -> {text} \ {""}
         [] KeyKind[key] = "U16"    -> {U16[t] : t \in {text} \cap DOMAIN U16} \ {"0"}
         [] KeyKind[key] = "Usize"  -> {Usize[t] : t \in {text} \cap DOMAIN Usize} \ {"0"}
         [] KeyKind[key] = "Bool"   -> {text} \cap {"true", "false"}
         [] KeyKind[key] = "OptStr" -> {text}

\* Default, like CliOverrides, sets the fields of HesConfig other than the node_id: those
\* that main and the methods use, and those that administrators edit.
ASSUME FieldsAssumption ==
  /\ DOMAIN Conns = Nodes /\ DOMAIN Files = Nodes
  /\ "node_id" \notin DOMAIN Default
  /\ {"backdoor_ip", "backdoor_port", "metrics_enabled", "node_name", "cluster_seeds",
      "cluster_enabled", "rpc_enabled", "database_type", "test_mode"} \subseteq DOMAIN Default
  /\ Default["cluster_seeds"] = "" /\ Default["node_name"] = "" /\ Default["test_mode"] = "false"
  /\ \A n \in Nodes : \A cli \in Cli[n] : DOMAIN cli \subseteq DOMAIN Default
  /\ \A c \in {Default} \cup UNION {Cli[n] : n \in Nodes} :
       "database_type" \in DOMAIN c => c["database_type"] \in {"postgres", "in-memory"}
  /\ \A e \in Edits : e[1] \in DOMAIN KeyKind => e[1] \in DOMAIN Default

\* parse reads what to_string prints, no ${VAR} is a number, a boolean or a Uuid, and no
\* variable holds a ${VAR}.
ASSUME TextAssumption ==
  /\ \A t \in DOMAIN U16 : U16[t] \in DOMAIN U16 /\ U16[U16[t]] = U16[t]
  /\ \A t \in DOMAIN Usize : Usize[t] \in DOMAIN Usize /\ Usize[Usize[t]] = Usize[t]
  /\ \A t \in DOMAIN UuidText : /\ UuidText[t] \in DOMAIN UuidText
                                /\ UuidText[UuidText[t]] = UuidText[t]
  /\ Patterns \cap (DOMAIN U16 \cup DOMAIN Usize \cup DOMAIN UuidText \cup {"true", "false"}) = {}
  /\ \A p \in DOMAIN Env : Env[p] \notin Patterns \cup {""}
  /\ \A n \in Nodes : \A k \in 1..MaxStarts[n] :
       Uuid[n][k] \in DOMAIN UuidText /\ UuidText[Uuid[n][k]] = Uuid[n][k]
  /\ \A n \in Nodes : MaxStarts[n] \in Nat

\* None and a false test_mode are not written.
IsWritten(c, k) ==
  ~(k \in {"cluster_seeds", "node_name"} /\ c[k] = "") /\ ~(k = "test_mode" /\ c[k] = "false")

\* A slip: the node_id is left out of the file.
to_file_config_anonymous(c) == Restrict(c, {k \in DOMAIN c : k # "node_id" /\ IsWritten(c, k)})

to_file_config(c) == Restrict(c, {k \in DOMAIN c : IsWritten(c, k)})

\* load_file_config: {the FileConfig}, or {} when a variable is not set or the YAML is broken.
load_file_config(f) ==
  LET Value(x) == IF x \in Patterns THEN Env[x] ELSE x
      named == \A k \in DOMAIN f.cfg : f.cfg[k] \in Patterns => f.cfg[k] \in DOMAIN Env
  IN CASE f.st = "whole" -> {[k \in DOMAIN g |-> Value(g[k])] : g \in {h \in {f.cfg} : named}}
       [] f.st = "mixed" -> {}
       [] OTHER          -> {<<>>}

\* parse_database_type and database_type_to_string.
DatabaseType ==
  [s \in {"postgres", "in-memory", "in_memory", "inmemory"} |->
     IF s = "postgres" THEN "postgres" ELSE "in-memory"]

\* {the configuration}, or {} when the node_id or the database type does not parse.  The
\* other settings are taken as they are.
Parse == [database_type |-> DatabaseType, node_id |-> UuidText]
apply_file_config(c, fc) ==
  {[k \in DOMAIN c |-> IF k \notin DOMAIN g THEN c[k]
                       ELSE IF k \in DOMAIN Parse THEN Parse[k][g[k]] ELSE g[k]] :
     g \in {h \in {fc} : \A k \in DOMAIN h \cap DOMAIN Parse : h[k] \in DOMAIN Parse[k]}}

Overriding(c, d) == [k \in DOMAIN c \cup DOMAIN d |-> IF k \in DOMAIN d THEN d[k] ELSE c[k]]
apply_cli_overrides(c, cli) == Overriding(c, cli)

\* resolve_config up to the save: defaults, then the file, then the command line.
HesConfig_default(id) == Overriding(Default, [node_id |-> id])
Resolved(f, id, cli) ==
  {apply_cli_overrides(c, cli) :
     c \in UNION {apply_file_config(HesConfig_default(id), fc) : fc \in load_file_config(f)}}

-----------------------------------------------------------------------------
Init ==
  /\ status = [n \in Nodes |-> "down"]
  /\ mem = [n \in Nodes |-> <<>>]
  /\ file \in {[n \in Nodes |-> IF f[n] = NoFile THEN [st |-> "absent", cfg |-> <<>>]
                                ELSE [st |-> "whole", cfg |-> f[n]]] :
                f \in {g \in [Nodes -> UNION Range(Files)] : \A n \in Nodes : g[n] \in Files[n]}}
  /\ hot = [n \in Nodes |-> Off]
  /\ task = [n \in Nodes |-> [t \in Tasks |-> Idle]]
  /\ net = {}
  /\ starts = [n \in Nodes |-> 0]
  /\ hist = [id |-> [n \in Nodes |-> ""], torn |-> [n \in Nodes |-> FALSE],
             stale |-> [n \in Nodes |-> FALSE], astray |-> [n \in Nodes |-> FALSE],
             remote |-> [n \in Nodes |-> {}],
             promised |-> <<>>, ops |-> 0, faults |-> 0]

Fault == hist.faults < MaxFaults

-----------------------------------------------------------------------------
(* Start: resolve_config always writes the file; then main.                *)

\* resolve_config up to the truncation of the file.
Resolve(n) ==
  /\ status[n] = "down" /\ starts[n] < MaxStarts[n]
  /\ \E cli \in Cli[n] : \E c \in Resolved(file[n], Uuid[n][starts[n] + 1], cli) :
       /\ mem' = [mem EXCEPT ![n] = c]
       /\ hist' = [hist EXCEPT !.id[n] = IF starts[n] = 0 THEN c["node_id"] ELSE @]
  /\ file' = [file EXCEPT ![n] = [st |-> "empty", cfg |-> <<>>]]
  /\ status' = [status EXCEPT ![n] = "boot"]
  /\ starts' = [starts EXCEPT ![n] = @ + 1]
  /\ UNCHANGED <<hot, task, net>>

Split(text) == CHOOSE s \in DOMAIN SeedsText : SeedsText[s] = text

\* The end of resolve_config.
Saves(n) ==
  /\ status[n] = "boot"
  /\ file' = [file EXCEPT ![n] = [st |-> "whole", cfg |-> to_file_config(mem[n])]]

\* The process ends, and its tasks with it.
Ends(n) ==
  /\ status' = [status EXCEPT ![n] = "down"]
  /\ task' = [task EXCEPT ![n] = [t \in Tasks |-> Idle]]
  /\ mem' = [mem EXCEPT ![n] = <<>>] /\ hot' = [hot EXCEPT ![n] = Off]
  /\ UNCHANGED <<net, starts>>

\* main ends after the save: it refuses a cluster without a shared database, and
\* init_backdoor fails on a text that is no address (what the cluster server does in the
\* moments before that is left out).
Refused(c) ==
  \/ c["cluster_enabled"] = "true" /\ c["database_type"] = "in-memory"
  \/ c["backdoor_ip"] = "" \/ c["backdoor_port"] \notin DOMAIN U16
Refuse(n) == Saves(n) /\ Refused(mem[n]) /\ Ends(n) /\ UNCHANGED hist

\* main sets up what follows the configuration; join_cluster sends NODE_JOIN to the seeds.
Boot(n) ==
  LET c == mem[n]
      addr == <<c["backdoor_ip"], c["backdoor_port"]>>
      clustered == c["cluster_enabled"] = "true"
      seeds == IF clustered THEN Range(Split(c["cluster_seeds"])) ELSE {}
  IN /\ Saves(n) /\ ~Refused(c)
     /\ status' = [status EXCEPT ![n] = "up"]
     /\ hot' = [hot EXCEPT ![n] =
          [cluster |-> clustered, rpc |-> c["rpc_enabled"] = "true",
           metrics |-> c["metrics_enabled"] = "true", asked |-> addr, bound |-> addr,
           changed |-> FALSE,
           name |-> IF c["node_name"] = "" THEN "hostname" ELSE c["node_name"]]]
     /\ net' = net \cup {[type |-> "NODE_JOIN", from |-> n, to |-> p] :
                          p \in {q \in Nodes : Address[q] \in seeds}}
     /\ hist' = [hist EXCEPT !.stale[n] = FALSE, !.astray[n] = FALSE, !.remote[n] = {}]
     /\ UNCHANGED <<mem, task, starts>>

\* A crash, or an I/O error in resolve_config.
Crash(n) ==
  /\ status[n] # "down" /\ starts[n] < MaxStarts[n] /\ Fault /\ Ends(n) /\ UNCHANGED file
  /\ hist' = [hist EXCEPT !.torn[n] = @ \/ file[n].st = "empty", !.promised = <<>>,
                          !.faults = @ + 1]

\* 'q': the runtime drops tasks at an await, and there is none between the lock and the
\* end of fs::write.
Exit(n) ==
  /\ n \in Up /\ starts[n] < MaxStarts[n] /\ \A t \in Tasks : task[n][t].pc \notin {"open", "write"}
  /\ Ends(n) /\ UNCHANGED file
  /\ hist' = [hist EXCEPT !.torn[n] = @ \/ file[n].st = "empty", !.promised = <<>>]

-----------------------------------------------------------------------------
(* ConfigManager::update, in three steps.                                  *)

\* Other tasks between the lock and the end of their reload.
Overlapping(n, t) ==
  \E u \in Tasks \ {t} : task[n][u].pc \in {"open", "write", "flag", "name", "ip", "rebind"}

\* A slip: the text is stored, not the value it was parsed to.
UpdateUnparsed(n, t, op, key, text, v) ==
  LET c == [mem[n] EXCEPT ![key] = text]
  IN /\ mem' = [mem EXCEPT ![n] = c]
     /\ task' = [task EXCEPT ![n][t] = [Idle EXCEPT !.pc = "open", !.op = op, !.key = key,
                                                    !.text = text, !.snap = to_file_config(c)]]
     /\ hist' = [hist EXCEPT !.ops = IF op \in {"set", "propagate"} THEN @ + 1 ELSE @]

\* Under the lock: the memory and a copy of it for the file.
Update(n, t, op, key, text, v) ==
  LET c == [mem[n] EXCEPT ![key] = v]
  IN /\ mem' = [mem EXCEPT ![n] = c]
     /\ task' = [task EXCEPT ![n][t] = [Idle EXCEPT !.pc = "open", !.op = op, !.key = key,
                                                    !.text = text, !.snap = to_file_config(c)]]
     /\ hist' = [hist EXCEPT
                   !.stale[n] = Overlapping(n, t),
                   !.astray[n] = @ \/ Overlapping(n, t),
                   !.remote[n] = IF op = "peer" THEN @ \cup {key} ELSE @ \ {key},
                   !.promised = IF op = "peer" THEN @ ELSE Restrict(@, DOMAIN @ \ {key}),
                   !.ops = IF op \in {"set", "propagate"} THEN @ + 1 ELSE @]

\* A slip: the file is opened without truncation.
OpenKeeps(n, t) ==
  /\ task[n][t].pc = "open"
  /\ task' = [task EXCEPT ![n][t].pc = "write"]
  /\ UNCHANGED <<status, mem, file, hot, net, starts, hist>>

\* fs::write opens the file, which truncates it.
Open(n, t) ==
  /\ task[n][t].pc = "open"
  /\ file' = [file EXCEPT ![n] = [st |-> "empty", cfg |-> <<>>]]
  /\ task' = [task EXCEPT ![n][t].pc = "write"]
  /\ UNCHANGED <<status, mem, hot, net, starts, hist>>

\* and writes: over what another task has written since, the longer text shows through.
Written(f, snap) ==
  {[st |-> "whole", cfg |-> snap]} \cup
  (IF f.st # "empty" /\ f.cfg # snap THEN {[st |-> "mixed", cfg |-> <<>>]} ELSE {})

\* What comes after a successful update: apply_hot_reload and the rest of the method.
Broadcasts(op) == IF op = "propagate" THEN "broadcast" ELSE "idle"

\* A slip: only the port makes the backdoor rebind.
AfterSavePort(op, key) ==
  IF op \notin {"set", "propagate"} THEN "idle"
  ELSE CASE key = "metrics_enabled" -> "flag"
         [] key = "backdoor_port"   -> "ip"
         [] key = "node_name"       -> "name"
         [] OTHER                   -> Broadcasts(op)

AfterSave(op, key) ==
  IF op \notin {"set", "propagate"} THEN "idle"
  ELSE CASE key = "metrics_enabled"                 -> "flag"
         [] key \in {"backdoor_ip", "backdoor_port"} -> "ip"
         [] key = "node_name"                       -> "name"
         [] OTHER                                   -> Broadcasts(op)

\* A task goes on, without the copy of the configuration, or is done.
Goto(n, t, pc) ==
  task' = [task EXCEPT ![n][t] =
             IF pc = "idle" THEN Idle ELSE [@ EXCEPT !.pc = pc, !.snap = <<>>, !.ip = ""]]

Write(n, t) ==
  LET me == task[n][t] IN
  /\ me.pc = "write"
  /\ \E f \in Written(file[n], me.snap) : file' = [file EXCEPT ![n] = f]
  /\ Goto(n, t, AfterSave(me.op, me.key))
  /\ UNCHANGED <<status, mem, hot, net, starts, hist>>

\* An I/O error: the memory keeps the new value, and nothing is reloaded or sent.
WriteFails(n, t) ==
  /\ task[n][t].pc \in {"open", "write"} /\ Fault
  /\ task' = [task EXCEPT ![n][t] = Idle]
  /\ hist' = [hist EXCEPT !.stale[n] = TRUE, !.astray[n] = TRUE, !.faults = @ + 1]
  /\ UNCHANGED <<status, mem, file, hot, net, starts>>

-----------------------------------------------------------------------------
(* The RPC methods.                                                        *)

\* config.set, config.propagate; an invalid value is refused and changes nothing.
Set(n, c, op, key, text) ==
  /\ n \in Up /\ hot[n].rpc /\ task[n][c].pc = "idle" /\ hist.ops < MaxOps
  /\ \E v \in Validated(key, text) : Update(n, c, op, key, text, v)
  /\ UNCHANGED <<status, file, hot, net, starts>>

Flag(n, c) ==
  /\ task[n][c].pc = "flag"
  /\ hot' = [hot EXCEPT ![n].metrics = task[n][c].text = "true"]
  /\ Goto(n, c, Broadcasts(task[n][c].op))
  /\ UNCHANGED <<status, mem, file, net, starts, hist>>

\* The membership list; an empty name leaves it as it was.
Name(n, c) ==
  /\ task[n][c].pc = "name"
  /\ hot' = IF hot[n].cluster /\ task[n][c].text # ""
            THEN [hot EXCEPT ![n].name = task[n][c].text] ELSE hot
  /\ Goto(n, c, Broadcasts(task[n][c].op))
  /\ UNCHANGED <<status, mem, file, net, starts, hist>>

\* Two reads of the configuration, the address and the port.
ReadIp(n, c) ==
  /\ task[n][c].pc = "ip"
  /\ task' = [task EXCEPT ![n][c].pc = "rebind", ![n][c].ip = mem[n]["backdoor_ip"]]
  /\ UNCHANGED <<status, mem, file, hot, net, starts, hist>>

AskRebind(n, c) ==
  /\ task[n][c].pc = "rebind"
  /\ hot' = [hot EXCEPT ![n].asked = <<task[n][c].ip, mem[n]["backdoor_port"]>>,
                        ![n].changed = TRUE]
  /\ Goto(n, c, Broadcasts(task[n][c].op))
  /\ UNCHANGED <<status, mem, file, net, starts, hist>>

\* bind on Linux: the backdoor still holds its old socket, and a wildcard address and another
\* one do not share a port.  (Nor can the same address be bound again, which changes nothing.)
InUse(bound, asked) ==
  /\ bound # asked /\ bound[2] = asked[2] /\ asked[2] # "0"
  /\ "0.0.0.0" \in {bound[1], asked[1]}

\* The backdoor task binds the address, or keeps its socket when it cannot.
Rebind(n) ==
  LET inUse == InUse(hot[n].bound, hot[n].asked) IN
  /\ n \in Up /\ hot[n].changed
  /\ \/ /\ ~inUse
        /\ hot' = [hot EXCEPT ![n].changed = FALSE, ![n].bound = hot[n].asked] /\ UNCHANGED hist
     \/ /\ inUse \/ Fault
        /\ hot' = [hot EXCEPT ![n].changed = FALSE]
        /\ hist' = [hist EXCEPT !.astray[n] = TRUE, !.faults = IF inUse THEN @ ELSE @ + 1]
  /\ UNCHANGED <<status, mem, file, task, net, starts>>

\* broadcast_config_update: the text as it was given, to the reachable peers (a peer that
\* the membership list misses is a lost message).
Broadcast(n, c) ==
  LET me == task[n][c]
      alone == /\ Clustered = Nodes /\ Validated(me.key, me.text) = {mem[n][me.key]}
               /\ \A m \in net : m.type = "CONFIG_UPDATE" => m.key # me.key
  IN /\ me.pc = "broadcast"
     /\ net' = IF ~hot[n].cluster THEN net
               ELSE net \cup {[type |-> "CONFIG_UPDATE", from |-> n, to |-> p, key |-> me.key,
                              text |-> me.text, id |-> hist.ops] : p \in Nodes \ {n}}
     /\ task' = [task EXCEPT ![n][c] = Idle]
     /\ hist' = [hist EXCEPT !.promised =
                   IF alone THEN Overriding(@, [k \in {me.key} |-> me.text]) ELSE Restrict(@, DOMAIN @ \ {me.key})]
     /\ UNCHANGED <<status, mem, file, hot, starts>>

\* cluster.join: NODE_JOIN to the seed, then the seeds are read ...
Join(n, c, seed) ==
  /\ n \in Clustered /\ hot[n].rpc /\ task[n][c].pc = "idle" /\ hist.ops < MaxOps /\ seed # n
  /\ net' = net \cup {[type |-> "NODE_JOIN", from |-> n, to |-> seed]}
  /\ task' = [task EXCEPT ![n][c] = [Idle EXCEPT !.pc = "seeds", !.ip = Address[seed],
                                                 !.text = mem[n]["cluster_seeds"]]]
  /\ hist' = [hist EXCEPT !.ops = @ + 1]
  /\ UNCHANGED <<status, mem, file, hot, starts>>

\* ... and written with the new one at the end.
JoinSaves(n, c) ==
  LET me == task[n][c]
      seeds == Split(me.text)
      added == IF me.ip \in Range(seeds) THEN seeds ELSE Append(seeds, me.ip)
  IN /\ me.pc = "seeds"
     /\ Update(n, c, "join", "cluster_seeds", SeedsText[added], SeedsText[added])
     /\ UNCHANGED <<status, file, hot, net, starts>>

-----------------------------------------------------------------------------
(* The cluster server, one message at a time.                              *)

Receives(n, m, type) ==
  /\ n \in Clustered /\ m \in net /\ m.to = n /\ m.type = type /\ task[n][Server].pc = "idle"
  /\ net' = net \ {m}

\* A slip: the update is acknowledged and not applied.
ServerUpdateIgnored(n, m) ==
  /\ Receives(n, m, "CONFIG_UPDATE")
  /\ UNCHANGED <<status, mem, file, hot, task, starts, hist>>

\* handle_config_update: no hot reload here.  The sender has validated the same text, so
\* the refusal does not occur; the acknowledgement is only logged.
ServerUpdate(n, m) ==
  /\ Receives(n, m, "CONFIG_UPDATE")
  /\ \E v \in Validated(m.key, m.text) : Update(n, Server, "peer", m.key, m.text, v)
  /\ UNCHANGED <<status, file, hot, starts>>

\* handle_node_join: the seeds become the reachable peers, the new one among them.
ServerJoin(n, m) ==
  /\ Receives(n, m, "NODE_JOIN")
  /\ \E s \in DOMAIN SeedsText :
       /\ Address[m.from] \in Range(s) /\ Address[n] \notin Range(s)
       /\ Update(n, Server, "join", "cluster_seeds", SeedsText[s], SeedsText[s])
  /\ UNCHANGED <<status, file, hot, starts>>

Lose(m) ==
  /\ m \in net
  /\ \/ Fault /\ hist' = [hist EXCEPT !.promised = <<>>, !.faults = @ + 1]
     \/ m.to \notin Clustered /\ hist' = [hist EXCEPT !.promised = <<>>]
  /\ net' = net \ {m}
  /\ UNCHANGED <<status, mem, file, hot, task, starts>>

TaskStep(n, t) ==
  Open(n, t) \/ Write(n, t) \/ WriteFails(n, t) \/ Flag(n, t) \/ Name(n, t) \/ ReadIp(n, t)
  \/ AskRebind(n, t) \/ Broadcast(n, t) \/ JoinSaves(n, t)

Next ==
  \/ \E n \in Nodes : Resolve(n) \/ Refuse(n) \/ Boot(n) \/ Crash(n) \/ Exit(n) \/ Rebind(n)
  \/ \E n \in Nodes, t \in Tasks : TaskStep(n, t)
  \/ \E n \in Nodes : \E c \in Conns[n] :
       \/ \E e \in Edits, op \in {"set", "propagate"} : Set(n, c, op, e[1], e[2])
       \/ \E seed \in Nodes : Join(n, c, seed)
  \/ \E m \in net : ServerUpdate(m.to, m) \/ ServerJoin(m.to, m) \/ Lose(m)

Spec == Init /\ [][Next]_vars

-----------------------------------------------------------------------------
(* Properties.                                                             *)

\* The texts that a node is installed with for a key: of the defaults, its files and its
\* command lines, as they are and with their variable read.
Installed(n, k) ==
  LET texts == {c[k] : c \in {d \in {Default} \cup Cli[n] \cup (Files[n] \ {NoFile}) : k \in DOMAIN d}}
  IN texts \cup {Env[p] : p \in texts \cap Patterns \cap DOMAIN Env}

\* The state has the shape of the structures of config.rs: every key of HesConfig is set.
\* Files and options are not checked at the start; but whatever is set later, by administrators
\* or peers, and however often it goes through the file, a setting in memory is either one
\* that set_config_value would store again as it is, or one the node was installed with.
TypeOK ==
  /\ status \in [Nodes -> {"down", "boot", "up"}]
  /\ \A n \in Nodes :
       /\ status[n] # "down" => DOMAIN mem[n] = DOMAIN Default \cup {"node_id"}
       /\ \A k \in DOMAIN mem[n] \cap DOMAIN KeyKind :
            Validated(k, mem[n][k]) = {mem[n][k]} \/ mem[n][k] \in Installed(n, k)
       /\ file[n].st \in {"absent", "empty", "whole", "mixed"}
       /\ \A t \in Tasks : task[n][t].pc \in {"idle", "open", "write", "flag", "name", "ip",
                                              "rebind", "broadcast", "seeds"}

\* The node_id, by which the database and the peers know a node, survives every restart
\* (to_file_config, resolve_config), however updates interleave, fail or come from peers;
\* only a process that ended with the file emptied and not yet rewritten comes back as another.
IdentityKept ==
  \A n \in Nodes : status[n] # "down" /\ ~hist.torn[n] => mem[n]["node_id"] = hist.id[n]

\* "auto-saves changes to disk" (ConfigManager): when the last update of a node ran alone and
\* succeeded, a restart without options resolves to exactly the memory, whatever earlier
\* updates left in the file.  A value that holds a ${VAR} is expanded at the start.
SavedWhenAlone ==
  \A n \in Up : Quiet(n) /\ ~hist.stale[n] /\ Range(mem[n]) \cap Patterns = {}
                  => Resolved(file[n], "fresh", <<>>) = {mem[n]}

\* apply_hot_reload brings the running parts to the configuration: with no task at work and no
\* update since the start that overlapped another or failed, the metrics flag, the name in
\* the membership list and the backdoor's address are those of the memory, except for keys
\* that a peer has changed.
ReloadedWhenAlone ==
  \A n \in Up : Quiet(n) /\ ~hist.astray[n] =>
    LET local == DOMAIN mem[n] \ hist.remote[n] IN
    /\ "metrics_enabled" \in local => hot[n].metrics = (mem[n]["metrics_enabled"] = "true")
    /\ "node_name" \in local /\ mem[n]["node_name"] # "" /\ hot[n].cluster
         => hot[n].name = mem[n]["node_name"]
    /\ {"backdoor_ip", "backdoor_port"} \subseteq local /\ ~hot[n].changed
         => hot[n].bound = <<mem[n]["backdoor_ip"], mem[n]["backdoor_port"]>>

\* config.propagate brings the cluster to one value: a propagation that no other change of the
\* key, loss or restart disturbs has reached every node's memory once nothing is in flight.
PropagationAgrees ==
  (/\ Clustered = Nodes /\ \A n \in Nodes : Quiet(n)
   /\ \A m \in net : m.type # "CONFIG_UPDATE")
  => \A k \in DOMAIN hist.promised, n \in Nodes :
       {mem[n][k]} = Validated(k, hist.promised[k])
=============================================================================
