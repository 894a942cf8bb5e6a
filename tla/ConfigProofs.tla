---------------------------- MODULE ConfigProofs ----------------------------
(***************************************************************************)
(* Proofs about Config: the type invariant and the four other properties   *)
(* of the configuration run, for every number of nodes, connections,       *)
(* updates, faults and starts.                                             *)
(***************************************************************************)
EXTENDS Config, TLAPS

Keys == DOMAIN Default \cup {"node_id"}
EditKeys == DOMAIN KeyKind \cap DOMAIN Default

IsFunction(f) == f = [x \in DOMAIN f |-> f[x]]
Setting(n, k, v) == Validated(k, v) = {v} \/ v \in Installed(n, k)
Sound(n, c) == \A k \in DOMAIN c \cap DOMAIN KeyKind : Setting(n, k, c[k])
IsUuid(id) == id \in DOMAIN UuidText /\ UuidText[id] = id
Fields(c) == IsFunction(c) /\ DOMAIN c = Keys
Good(n, c) ==
  /\ Fields(c) /\ Sound(n, c) /\ IsUuid(c["node_id"])
  /\ c["database_type"] \in {"postgres", "in-memory"}

Saving == {"open", "write"}
Working == Saving \cup {"flag", "name", "ip", "rebind"}
Pcs == Working \cup {"idle", "broadcast", "seeds"}

-----------------------------------------------------------------------------
(* The inductive invariant: what holds of each node, of the messages and   *)
(* of the values promised to the cluster.                                  *)

\* The domains of the variables.
Shape ==
  /\ DOMAIN status = Nodes /\ DOMAIN mem = Nodes /\ DOMAIN file = Nodes /\ DOMAIN hot = Nodes
  /\ DOMAIN task = Nodes /\ DOMAIN starts = Nodes
  /\ DOMAIN hist = {"id", "torn", "stale", "astray", "remote", "promised", "ops", "faults"}
  /\ DOMAIN hist.id = Nodes /\ DOMAIN hist.torn = Nodes /\ DOMAIN hist.stale = Nodes
  /\ DOMAIN hist.astray = Nodes /\ DOMAIN hist.remote = Nodes

\* The structures of a node, and the memory of a running one.
MemoryIn(n) ==
  /\ status[n] \in {"down", "boot", "up"} /\ starts[n] \in Nat
  /\ DOMAIN hot[n] = DOMAIN Off /\ DOMAIN task[n] = Tasks
  /\ IF status[n] = "down" THEN mem[n] = <<>> ELSE Good(n, mem[n]) /\ starts[n] > 0

\* The file, and the copies of the memory on their way to it.
FileIn(n) ==
  /\ file[n].st \in {"absent", "empty", "whole", "mixed"}
  /\ file[n].st = "absent" => starts[n] = 0
  /\ file[n].st = "whole" => Sound(n, file[n].cfg)
  /\ \A t \in Tasks : task[n][t].pc \in Saving => Sound(n, task[n][t].snap)

\* A task at work belongs to a running node and carries a key that can be set; the reload
\* steps belong to the keys they are for.
TaskSound(me) ==
  /\ DOMAIN me = DOMAIN Idle /\ me.pc \in Pcs
  /\ me.pc \in Working \cup {"broadcast"} => me.key \in EditKeys
  /\ me.pc = "flag" => me.key = "metrics_enabled"
  /\ me.pc = "name" => me.key = "node_name"
  /\ me.pc \in {"ip", "rebind"} => me.key \in {"backdoor_ip", "backdoor_port"}
TaskIn(n) ==
  \A t \in Tasks : TaskSound(task[n][t]) /\ (task[n][t].pc # "idle" => status[n] = "up")

\* The node_id: in the memory, the file and the copies, as Uuid prints it.
Carries(c, id) == "node_id" \in DOMAIN c /\ c["node_id"] = id
IdentityIn(n) ==
  ~hist.torn[n] /\ starts[n] > 0 =>
    /\ IsUuid(hist.id[n])
    /\ status[n] # "down" => Carries(mem[n], hist.id[n])
    /\ status[n] = "down" => file[n].st \in {"whole", "mixed"}
    /\ file[n].st = "whole" => Carries(file[n].cfg, hist.id[n])
    /\ \A t \in Tasks : task[n][t].pc \in Saving => Carries(task[n][t].snap, hist.id[n])

\* After an update that ran alone, the memory is in the file, or on its way with nobody else.
Saved(n) == file[n] = [st |-> "whole", cfg |-> to_file_config(mem[n])]
OnItsWay(n, t) ==
  /\ task[n][t].pc \in Saving /\ task[n][t].snap = to_file_config(mem[n])
  /\ task[n][t].pc = "write" => file[n].st = "empty"
SavedIn(n) ==
  status[n] = "up" /\ ~hist.stale[n] =>
    \/ Saved(n) /\ \A t \in Tasks : task[n][t].pc \notin Saving
    \/ \E t \in Tasks : OnItsWay(n, t) /\ \A u \in Tasks \ {t} : task[n][u].pc \notin Saving

\* While no update overlaps another, a task at work is the only one and its value is the
\* memory's, and each part that runs is as the memory says or a task is on its way to it.
AloneIn(n) ==
  /\ \A t, u \in Tasks : task[n][t].pc \in Working /\ task[n][u].pc \in Working => t = u
  /\ \A t \in Tasks : task[n][t].pc \in Working =>
       Validated(task[n][t].key, task[n][t].text) = {mem[n][task[n][t].key]}
  /\ \A t \in Tasks : task[n][t].pc = "rebind" => task[n][t].ip = mem[n]["backdoor_ip"]
Pending(n, keys, pcs) ==
  \E t \in Tasks : /\ task[n][t].pc \in Saving \cup pcs /\ task[n][t].key \in keys
                   /\ task[n][t].op \in {"set", "propagate"}
MetricsIn(n) ==
  \/ "metrics_enabled" \in hist.remote[n] \/ Pending(n, {"metrics_enabled"}, {"flag"})
  \/ hot[n].metrics = (mem[n]["metrics_enabled"] = "true")
NameIn(n) ==
  \/ "node_name" \in hist.remote[n] \/ Pending(n, {"node_name"}, {"name"})
  \/ mem[n]["node_name"] = "" \/ ~hot[n].cluster \/ hot[n].name = mem[n]["node_name"]
BackdoorAddress(n) == <<mem[n]["backdoor_ip"], mem[n]["backdoor_port"]>>
BackdoorIn(n) ==
  \/ "backdoor_ip" \in hist.remote[n] \/ "backdoor_port" \in hist.remote[n]
  \/ Pending(n, {"backdoor_ip", "backdoor_port"}, {"ip", "rebind"})
  \/ hot[n].changed /\ hot[n].asked = BackdoorAddress(n)
  \/ ~hot[n].changed /\ hot[n].bound = BackdoorAddress(n)
ReloadedIn(n) ==
  status[n] = "up" /\ ~hist.astray[n] =>
    AloneIn(n) /\ MetricsIn(n) /\ NameIn(n) /\ BackdoorIn(n)

NodeInv(n) ==
  MemoryIn(n) /\ FileIn(n) /\ TaskIn(n) /\ IdentityIn(n) /\ SavedIn(n) /\ ReloadedIn(n)

NetGood == \A m \in net : m.type = "CONFIG_UPDATE" => m.key \in EditKeys

\* A value promised to the cluster is in the memory of each node, or on its way.
PromisedIn(k) ==
  /\ k \in EditKeys
  /\ \A m \in net : m.type = "CONFIG_UPDATE" /\ m.key = k => m.text = hist.promised[k]
  /\ \A n \in Nodes : \/ Validated(k, hist.promised[k]) = {mem[n][k]}
                      \/ \E m \in net : m.type = "CONFIG_UPDATE" /\ m.to = n /\ m.key = k
PromisedInv ==
  /\ DOMAIN hist.promised # {} => Clustered = Nodes
  /\ \A k \in DOMAIN hist.promised : PromisedIn(k)

Inv == Shape /\ (\A n \in Nodes : NodeInv(n)) /\ NetGood /\ PromisedInv

-----------------------------------------------------------------------------
(* Lemmas about the operators of Config *)

\* The tasks of a node: the server's, and one for each connection.
LEMMA TasksOf == Server \in Tasks /\ \A n \in Nodes : Conns[n] \subseteq Tasks
<1>1. \A n \in Nodes : Conns[n] \in Range(Conns)
  BY FieldsAssumption, Zenon DEF Range
<1> QED
  BY <1>1 DEF Tasks

\* Each key has one of five kinds.
LEMMA Kinds ==
  ASSUME NEW key \in DOMAIN KeyKind
  PROVE  KeyKind[key] \in {"Str", "U16", "Usize", "Bool", "OptStr"}
  BY DEF KeyKind

\* The kinds of the keys that a running node follows, and the keys that cannot be set.
LEMMA KeysOfKinds ==
  /\ {"metrics_enabled", "node_name", "backdoor_ip", "backdoor_port", "cluster_seeds"}
       \subseteq DOMAIN KeyKind
  /\ KeyKind["metrics_enabled"] = "Bool"
  /\ KeyKind["node_name"] = "OptStr" /\ KeyKind["cluster_seeds"] = "OptStr"
  /\ "node_id" \notin DOMAIN KeyKind /\ "database_type" \notin DOMAIN KeyKind
  BY DEF KeyKind

\* set_config_value stores one value, and would store it again: parse reads what
\* to_string prints.
LEMMA ValidatedOnce ==
  ASSUME NEW key, NEW text, NEW v \in Validated(key, text)
  PROVE  /\ Validated(key, text) = {v} /\ Validated(key, v) = {v}
         /\ key \in DOMAIN KeyKind
<1>1. key \in DOMAIN KeyKind
  BY Zenon DEF Validated
<1>2. CASE KeyKind[key] = "Str"
  BY <1>1, <1>2, Zenon DEF Validated
<1>3. CASE KeyKind[key] = "U16"
  <2>1. \A x : Validated(key, x) = {U16[t] : t \in {x} \cap DOMAIN U16} \ {"0"}
    BY <1>1, <1>3 DEF Validated
  <2>2. text \in DOMAIN U16 /\ v = U16[text] /\ v # "0"
    BY <2>1
  <2>3. v \in DOMAIN U16 /\ U16[v] = v
    BY <2>2, TextAssumption, Zenon
  <2> QED
    BY <1>1, <2>1, <2>2, <2>3
<1>4. CASE KeyKind[key] = "Usize"
  <2>1. \A x : Validated(key, x) = {Usize[t] : t \in {x} \cap DOMAIN Usize} \ {"0"}
    BY <1>1, <1>4, Zenon DEF Validated
  <2>2. text \in DOMAIN Usize /\ v = Usize[text] /\ v # "0"
    BY <2>1
  <2>3. v \in DOMAIN Usize /\ Usize[v] = v
    BY <2>2, TextAssumption, Zenon
  <2> QED
    BY <1>1, <2>1, <2>2, <2>3
<1>5. CASE KeyKind[key] = "Bool"
  BY <1>1, <1>5 DEF Validated
<1>6. CASE KeyKind[key] = "OptStr"
  BY <1>1, <1>6 DEF Validated
<1> QED
  BY <1>1, <1>2, <1>3, <1>4, <1>5, <1>6, Kinds

\* A setting that may hold a ${VAR} is a text, and stays valid once the variable is read.
LEMMA ExpandedValid ==
  ASSUME NEW key, NEW p \in Patterns, p \in DOMAIN Env, Validated(key, p) = {p}
  PROVE  Validated(key, Env[p]) = {Env[p]}
<1>1. key \in DOMAIN KeyKind
  BY Zenon DEF Validated
<1>2. CASE KeyKind[key] = "Str"
  BY <1>1, <1>2, TextAssumption, Zenon DEF Validated
<1>3. CASE KeyKind[key] = "U16"
  <2>1. p \in {U16[t] : t \in {p} \cap DOMAIN U16}
    BY <1>1, <1>3 DEF Validated
  <2>2. p \notin DOMAIN U16
    BY TextAssumption, Zenon
  <2> QED
    BY <2>1, <2>2, Zenon
<1>4. CASE KeyKind[key] = "Usize"
  <2>1. p \in {Usize[t] : t \in {p} \cap DOMAIN Usize}
    BY <1>1, <1>4 DEF Validated
  <2>2. p \notin DOMAIN Usize
    BY TextAssumption, Zenon
  <2> QED
    BY <2>1, <2>2, Zenon
<1>5. CASE KeyKind[key] = "Bool"
  BY <1>1, <1>5, TextAssumption, Zenon DEF Validated
<1>6. CASE KeyKind[key] = "OptStr"
  BY <1>1, <1>6, Zenon DEF Validated
<1> QED
  BY <1>1, <1>2, <1>3, <1>4, <1>5, <1>6, Kinds, Zenon

\* So does one that the node was installed with: no variable holds a ${VAR}.
LEMMA ExpandedSetting ==
  ASSUME NEW n, NEW key, NEW p \in Patterns, p \in DOMAIN Env, Setting(n, key, p)
  PROVE  Setting(n, key, Env[p])
<1>1. CASE Validated(key, p) = {p}
  BY <1>1, ExpandedValid, Zenon DEF Setting
<1>2. CASE p \in Installed(n, key)
  <2>1. \A q \in DOMAIN Env : Env[q] \notin Patterns
    BY TextAssumption, Zenon
  <2> QED
    BY <1>2, <2>1, Zenon DEF Setting, Installed
<1> QED
  BY <1>1, <1>2, Zenon DEF Setting

\* The defaults, files and command lines of a node hold what it was installed with.
LEMMA InstalledSound ==
  ASSUME NEW n, NEW c \in {Default} \cup Cli[n] \cup (Files[n] \ {NoFile})
  PROVE  Sound(n, c)
  BY Zenon DEF Sound, Setting, Installed

\* What load_file_config returns: the settings with their variables expanded, or none when
\* there is no text in the file.
LEMMA Loaded ==
  ASSUME NEW f, f.st \in {"absent", "empty", "whole", "mixed"}, NEW fc \in load_file_config(f)
  PROVE  /\ f.st # "mixed"
         /\ f.st # "whole" => fc = <<>>
         /\ f.st = "whole" =>
              /\ fc = [k \in DOMAIN f.cfg |-> IF f.cfg[k] \in Patterns THEN Env[f.cfg[k]] ELSE f.cfg[k]]
              /\ \A k \in DOMAIN f.cfg : f.cfg[k] \in Patterns => f.cfg[k] \in DOMAIN Env
<1>1. CASE f.st = "whole"
  BY <1>1, Zenon DEF load_file_config
<1>2. CASE f.st = "mixed"
  BY <1>2 DEF load_file_config
<1>3. CASE f.st \in {"absent", "empty"}
  BY <1>3, Zenon DEF load_file_config
<1> QED
  BY <1>1, <1>2, <1>3, Zenon

\* load_file_config: whatever it makes of the file (its parse, or nothing where the file is
\* absent, cut off or garbled) holds only settings that are valid or installed.
LEMMA LoadedGood ==
  ASSUME NEW n, NEW f, f.st \in {"absent", "empty", "whole", "mixed"}, NEW fc \in load_file_config(f),
         f.st = "whole" => Sound(n, f.cfg)
  PROVE  Sound(n, fc)
<1>1. CASE f.st = "whole"
  <2>1. IsFunction(fc) /\ DOMAIN fc = DOMAIN f.cfg
    BY <1>1, Loaded DEF IsFunction
  <2>2. ASSUME NEW k \in DOMAIN f.cfg \cap DOMAIN KeyKind PROVE Setting(n, k, fc[k])
    <3>1. Setting(n, k, f.cfg[k])
      BY <1>1, <2>2, Zenon DEF Sound
    <3>2. CASE f.cfg[k] \in Patterns
      BY <1>1, <2>2, <3>1, <3>2, Loaded, ExpandedSetting
    <3>3. CASE f.cfg[k] \notin Patterns
      BY <1>1, <2>2, <3>1, <3>3, Loaded
    <3> QED
      BY <3>2, <3>3, Zenon
  <2> QED
    BY <2>1, <2>2, Zenon DEF Sound
<1>2. CASE f.st # "whole"
  <2>1. fc = <<>> /\ DOMAIN fc = {}
    BY <1>2, Loaded
  <2> QED
    BY <2>1, Zenon DEF Sound
<1> QED
  BY <1>1, <1>2

\* apply_file_config keeps the fields of the configuration and takes the file's settings,
\* the database type and the node_id parsed.
LEMMA Applied ==
  ASSUME NEW c, NEW fc, NEW d \in apply_file_config(c, fc)
  PROVE  /\ IsFunction(d) /\ DOMAIN d = DOMAIN c
         /\ \A k \in DOMAIN c : k \notin DOMAIN fc => d[k] = c[k]
         /\ \A k \in DOMAIN c \cap DOMAIN fc : k \notin {"database_type", "node_id"} => d[k] = fc[k]
         /\ "database_type" \in DOMAIN c \cap DOMAIN fc =>
              fc["database_type"] \in DOMAIN DatabaseType /\ d["database_type"] = DatabaseType[fc["database_type"]]
         /\ "node_id" \in DOMAIN c \cap DOMAIN fc =>
              fc["node_id"] \in DOMAIN UuidText /\ d["node_id"] = UuidText[fc["node_id"]]
<1>1. /\ d = [k \in DOMAIN c |-> IF k \notin DOMAIN fc THEN c[k]
                       ELSE IF k \in DOMAIN Parse THEN Parse[k][fc[k]] ELSE fc[k]]
      /\ \A k \in DOMAIN fc \cap DOMAIN Parse : fc[k] \in DOMAIN Parse[k]
  BY DEF apply_file_config
<1>2. /\ DOMAIN Parse = {"database_type", "node_id"}
      /\ Parse["database_type"] = DatabaseType /\ Parse["node_id"] = UuidText
  BY DEF Parse
<1> QED
  BY <1>1, <1>2, Zenon DEF IsFunction

\* DatabaseType::from_str: the spellings that parse, and that the canonical ones stay as they are.
LEMMA DatabaseTypes ==
  /\ DOMAIN DatabaseType = {"postgres", "in-memory", "in_memory", "inmemory"}
  /\ \A s \in DOMAIN DatabaseType : DatabaseType[s] \in {"postgres", "in-memory"}
  /\ \A s \in {"postgres", "in-memory"} : DatabaseType[s] = s
  BY DEF DatabaseType

\* HesConfig::default has all the fields.
LEMMA DefaultFields ==
  ASSUME NEW id
  PROVE  /\ Fields(HesConfig_default(id)) /\ HesConfig_default(id)["node_id"] = id
         /\ \A k \in DOMAIN Default : HesConfig_default(id)[k] = Default[k]
<1> DEFINE d == HesConfig_default(id)
<1>1. d = [k \in Keys |-> IF k = "node_id" THEN id ELSE Default[k]]
  BY DEF HesConfig_default, Overriding, Keys
<1>2. d["node_id"] = id /\ \A k \in DOMAIN Default : d[k] = Default[k]
  BY <1>1, FieldsAssumption, Zenon DEF Keys
<1>3. DOMAIN d = Keys /\ IsFunction(d)
  BY <1>1 DEF IsFunction
<1> QED
  BY <1>2, <1>3, Zenon DEF Fields

\* Each of them holds what the node was installed with.
LEMMA DefaultGood ==
  ASSUME NEW n, NEW id, IsUuid(id)
  PROVE  Good(n, HesConfig_default(id))
<1> DEFINE d == HesConfig_default(id)
<1>1. /\ Fields(d) /\ d["node_id"] = id /\ \A k \in DOMAIN Default : d[k] = Default[k]
  BY DefaultFields
<1> HIDE DEF d
<1>2. Sound(n, d)
  <2>1. Sound(n, Default) /\ "node_id" \notin DOMAIN KeyKind
    BY InstalledSound, KeysOfKinds
  <2> QED
    BY <1>1, <2>1, Zenon DEF Sound, Fields, Keys
<1>3. d["database_type"] \in {"postgres", "in-memory"}
  BY <1>1, FieldsAssumption, Zenon
<1> QED
  BY <1>1, <1>2, <1>3, Zenon DEF Good, d

\* resolve_config returns all the fields, each with a setting that is valid or installed,
\* and the node_id of the file when it has one.
LEMMA ResolvedGood ==
  ASSUME NEW n \in Nodes, NEW cli \in Cli[n], NEW f, NEW id, NEW c \in Resolved(f, id, cli),
         f.st \in {"absent", "empty", "whole", "mixed"}, f.st = "whole" => Sound(n, f.cfg), IsUuid(id)
  PROVE  /\ Good(n, c) /\ f.st # "mixed"
         /\ f.st = "whole" => \A i : Carries(f.cfg, i) /\ IsUuid(i) => c["node_id"] = i
<1> DEFINE d == HesConfig_default(id)
<1>1. PICK fc \in load_file_config(f) :
        \E b \in apply_file_config(d, fc) : c = apply_cli_overrides(b, cli)
  BY DEF Resolved
<1>2. PICK b \in apply_file_config(d, fc) : c = apply_cli_overrides(b, cli)
  BY <1>1, Zenon
<1>d. Good(n, d)
  BY DefaultGood, Zenon
<1> HIDE DEF d
<1>f. Sound(n, fc)
  BY LoadedGood
<1>3. /\ IsFunction(b) /\ DOMAIN b = Keys
      /\ \A k \in Keys : k \notin DOMAIN fc => b[k] = d[k]
      /\ \A k \in Keys \cap DOMAIN fc : k \notin {"database_type", "node_id"} => b[k] = fc[k]
      /\ "database_type" \in Keys \cap DOMAIN fc =>
           fc["database_type"] \in DOMAIN DatabaseType /\ b["database_type"] = DatabaseType[fc["database_type"]]
      /\ "node_id" \in Keys \cap DOMAIN fc =>
           fc["node_id"] \in DOMAIN UuidText /\ b["node_id"] = UuidText[fc["node_id"]]
  <2>1. DOMAIN d = Keys
    BY <1>d, Zenon DEF Good, Fields
  <2> QED
    BY <2>1, Applied
<1>4. "node_id" \in Keys /\ "database_type" \in Keys
  BY FieldsAssumption, Zenon DEF Keys
<1>5. Good(n, b)
  <2>1. Sound(n, b)
    <3> SUFFICES ASSUME NEW k \in Keys, k \in DOMAIN KeyKind PROVE Setting(n, k, b[k])
      BY <1>3, Zenon DEF Sound
    <3>1. k \notin {"database_type", "node_id"}
      BY KeysOfKinds, Zenon
    <3>2. CASE k \in DOMAIN fc
      BY <1>3, <1>f, <3>1, <3>2, Zenon DEF Sound
    <3>3. CASE k \notin DOMAIN fc
      BY <1>3, <1>d, <3>3, Zenon DEF Good, Fields, Sound
    <3> QED
      BY <3>2, <3>3, Zenon
  <2>2. b["database_type"] \in {"postgres", "in-memory"}
    BY <1>3, <1>4, <1>d, DatabaseTypes, Zenon DEF Good
  <2>3. IsUuid(b["node_id"])
    <3>1. \A t \in DOMAIN UuidText : IsUuid(UuidText[t])
      BY TextAssumption, Zenon DEF IsUuid
    <3> QED
      BY <1>3, <1>4, <1>d, <3>1, Zenon DEF Good
  <2> QED
    BY <1>3, <2>1, <2>2, <2>3, Zenon DEF Good, Fields
<1>6. DOMAIN cli \subseteq DOMAIN Default /\ "node_id" \notin DOMAIN cli
  BY FieldsAssumption, Zenon
<1>7. c = [k \in Keys |-> IF k \in DOMAIN cli THEN cli[k] ELSE b[k]]
  <2>1. DOMAIN b \cup DOMAIN cli = Keys
    BY <1>3, <1>6, Zenon DEF Keys
  <2> QED
    BY <1>2, <2>1, Zenon DEF apply_cli_overrides, Overriding
<1>8. Good(n, c)
  <2>1. Fields(c)
    BY <1>7, Zenon DEF IsFunction, Fields
  <2>2. Sound(n, cli)
    BY InstalledSound, Zenon
  <2>3. "database_type" \in DOMAIN cli => cli["database_type"] \in {"postgres", "in-memory"}
    BY FieldsAssumption, Zenon
  <2>4. Sound(n, c)
    BY <1>5, <1>7, <2>1, <2>2, Zenon DEF Sound, Good, Fields
  <2>5. c["database_type"] \in {"postgres", "in-memory"} /\ IsUuid(c["node_id"])
    BY <1>4, <1>5, <1>6, <1>7, <2>3, Zenon DEF Good
  <2> QED
    BY <2>1, <2>4, <2>5, Zenon DEF Good
<1>9. c["node_id"] = b["node_id"]
  BY <1>4, <1>6, <1>7, Zenon
<1>10. CASE f.st = "whole"
  <2> SUFFICES ASSUME NEW i, Carries(f.cfg, i), IsUuid(i) PROVE c["node_id"] = i
    BY <1>8, <1>10, Zenon
  <2>1. i \notin Patterns
    BY TextAssumption, Zenon DEF IsUuid
  <2>2. "node_id" \in DOMAIN fc /\ fc["node_id"] = i
    BY <1>10, <2>1, Loaded DEF Carries
  <2> QED
    BY <1>3, <1>4, <1>9, <2>2, Zenon DEF IsUuid
<1>11. CASE f.st # "whole"
  <2>1. f.st # "mixed"
    BY Loaded
  <2> QED
    BY <1>8, <1>11, <2>1, Zenon
<1> QED
  BY <1>10, <1>11, Zenon

\* What to_file_config writes can be loaded again.
LEMMA FileConfigGood ==
  ASSUME NEW n, NEW c, Good(n, c)
  PROVE  /\ Sound(n, to_file_config(c)) /\ IsFunction(to_file_config(c))
         /\ \A id : Carries(c, id) => Carries(to_file_config(c), id)
<1> DEFINE g == to_file_config(c)
<1>1. g = [k \in {x \in Keys : IsWritten(c, x)} |-> c[k]]
  BY DEF to_file_config, Restrict, Good, Fields
<1>2. DOMAIN g = {x \in Keys : IsWritten(c, x)} /\ IsFunction(g)
  BY <1>1 DEF IsFunction
<1>3. \A k \in DOMAIN g : k \in Keys /\ g[k] = c[k]
  BY <1>1, <1>2
<1>4. "node_id" \in DOMAIN g
  BY <1>2, Zenon DEF Keys, IsWritten
<1> HIDE DEF g
<1>5. Sound(n, g)
  BY <1>3, Zenon DEF Sound, Good, Fields
<1> QED
  BY <1>2, <1>3, <1>4, <1>5 DEF Carries, g

\* resolve_config reads back what to_file_config has written, when no value holds a ${VAR}.
LEMMA Reloaded ==
  ASSUME NEW n, NEW c, Good(n, c), Range(c) \cap Patterns = {}, NEW id
  PROVE  Resolved([st |-> "whole", cfg |-> to_file_config(c)], id, <<>>) = {c}
<1> DEFINE g == to_file_config(c)
           f == [st |-> "whole", cfg |-> g]
           d == HesConfig_default(id)
<1>1. g = [k \in {x \in Keys : IsWritten(c, x)} |-> c[k]]
  BY DEF to_file_config, Restrict, Good, Fields
<1>2. DOMAIN g = {x \in Keys : IsWritten(c, x)} /\ \A k \in DOMAIN g : k \in Keys /\ g[k] = c[k]
  BY <1>1, Zenon
<1>3. \A k \in DOMAIN g : g[k] \notin Patterns
  BY <1>2, Zenon DEF Range, Good, Fields
<1>i. IsFunction(g)
  BY FileConfigGood
<1> HIDE DEF g
<1>4. load_file_config(f) = {g}
  <2>1. [k \in DOMAIN g |-> IF g[k] \in Patterns THEN Env[g[k]] ELSE g[k]] = g
    BY <1>3, <1>i DEF IsFunction
  <2> QED
    BY <1>3, <2>1 DEF load_file_config
<1>5. Fields(d) /\ \A k \in DOMAIN Default : d[k] = Default[k]
  BY DefaultFields, Zenon
<1> HIDE DEF d
<1>6. apply_file_config(d, g) = {c}
  <2>p. /\ DOMAIN Parse = {"database_type", "node_id"}
        /\ Parse["database_type"] = DatabaseType /\ Parse["node_id"] = UuidText
    BY DEF Parse
  <2>1. \A k \in DOMAIN g \cap DOMAIN Parse : g[k] \in DOMAIN Parse[k] /\ Parse[k][g[k]] = c[k]
    <3>1. \A s \in {"postgres", "in-memory"} : s \in DOMAIN DatabaseType /\ DatabaseType[s] = s
      BY DatabaseTypes
    <3>2. /\ c["database_type"] \in DOMAIN DatabaseType
          /\ DatabaseType[c["database_type"]] = c["database_type"]
          /\ c["node_id"] \in DOMAIN UuidText /\ UuidText[c["node_id"]] = c["node_id"]
      BY <3>1, Zenon DEF Good, IsUuid
    <3> QED
      BY <1>2, <2>p, <3>2, Zenon
  <2>2. ASSUME NEW k \in Keys
        PROVE  c[k] = IF k \notin DOMAIN g THEN d[k]
                      ELSE IF k \in DOMAIN Parse THEN Parse[k][g[k]] ELSE g[k]
    <3>1. CASE k \in DOMAIN g
      BY <1>2, <2>1, <3>1, Zenon
    <3>2. CASE k \notin DOMAIN g
      <4>1. \/ k \in {"cluster_seeds", "node_name"} /\ c[k] = ""
            \/ k = "test_mode" /\ c[k] = "false"
        BY <1>2, <3>2, Zenon DEF IsWritten
      <4>2. k \in DOMAIN Default /\ Default[k] = c[k]
        BY <4>1, FieldsAssumption, Zenon
      <4> QED
        BY <1>5, <3>2, <4>2
    <3> QED
      BY <3>1, <3>2, Zenon
  <2>3. c = [k \in DOMAIN d |-> IF k \notin DOMAIN g THEN d[k]
                      ELSE IF k \in DOMAIN Parse THEN Parse[k][g[k]] ELSE g[k]]
    BY <1>5, <2>2 DEF Good, Fields, IsFunction
  <2>4. \A k \in DOMAIN g \cap DOMAIN Parse : g[k] \in DOMAIN Parse[k]
    BY <2>1, Zenon
  <2> QED
    BY <2>3, <2>4 DEF apply_file_config
<1>7. apply_cli_overrides(c, <<>>) = c
  BY DEF apply_cli_overrides, Overriding, Good, Fields, IsFunction
<1> QED
  BY <1>4, <1>6, <1>7 DEF Resolved, f, d, g

-----------------------------------------------------------------------------
(* Steps, node by node *)

\* Nothing of node n changes.
NodeKept(n) ==
  /\ status'[n] = status[n] /\ mem'[n] = mem[n] /\ file'[n] = file[n] /\ hot'[n] = hot[n]
  /\ task'[n] = task[n] /\ starts'[n] = starts[n]
  /\ hist'.id[n] = hist.id[n] /\ hist'.torn[n] = hist.torn[n] /\ hist'.stale[n] = hist.stale[n]
  /\ hist'.astray[n] = hist.astray[n] /\ hist'.remote[n] = hist.remote[n]

\* A step that leaves a node's part of the state alone keeps what is known of that node.
LEMMA NodeInvKept ==
  ASSUME NEW n, NodeInv(n), NodeKept(n)
  PROVE  NodeInv(n)'
<1>1. MemoryIn(n)' /\ FileIn(n)' /\ TaskIn(n)'
  BY Zenon DEF NodeInv, NodeKept, MemoryIn, FileIn, TaskIn
<1>2. IdentityIn(n)' /\ SavedIn(n)'
  BY DEF NodeInv, NodeKept, IdentityIn, SavedIn, Saved, OnItsWay
<1>3. ReloadedIn(n)'
  BY Zenon DEF NodeInv, NodeKept, ReloadedIn, AloneIn, MetricsIn, NameIn, BackdoorIn, Pending, BackdoorAddress
<1> QED
  BY <1>1, <1>2, <1>3 DEF NodeInv

\* One task of one node changes.
TaskBecomes(n, t, me) ==
  /\ DOMAIN task' = Nodes
  /\ \A m \in Nodes \ {n} : task'[m] = task[m]
  /\ DOMAIN task'[n] = Tasks
  /\ task'[n][t] = me /\ \A u \in Tasks \ {t} : task'[n][u] = task[n][u]

\* What writing the state of one task changes.
LEMMA TaskAt ==
  ASSUME NEW n \in Nodes, NEW t \in Tasks, NEW me, DOMAIN task = Nodes, DOMAIN task[n] = Tasks,
         task' = [task EXCEPT ![n][t] = me]
  PROVE  TaskBecomes(n, t, me)
  BY DEF TaskBecomes

\* Only the history counters and the promises change.
HistKept ==
  /\ DOMAIN hist' = DOMAIN hist /\ hist'.id = hist.id /\ hist'.torn = hist.torn
  /\ hist'.stale = hist.stale /\ hist'.astray = hist.astray /\ hist'.remote = hist.remote

\* What Update changes.
UpdateEffect(n, t, op, key, text, v) ==
  /\ DOMAIN mem' = Nodes /\ \A m \in Nodes \ {n} : mem'[m] = mem[m]
  /\ mem'[n] = [mem[n] EXCEPT ![key] = v]
  /\ TaskBecomes(n, t, task'[n][t]) /\ DOMAIN task'[n][t] = DOMAIN Idle
  /\ task'[n][t].pc = "open" /\ task'[n][t].op = op /\ task'[n][t].key = key
  /\ task'[n][t].text = text /\ task'[n][t].snap = to_file_config(mem'[n])
  /\ DOMAIN hist' = DOMAIN hist /\ hist'.id = hist.id /\ hist'.torn = hist.torn
  /\ DOMAIN hist'.stale = Nodes /\ DOMAIN hist'.astray = Nodes /\ DOMAIN hist'.remote = Nodes
  /\ \A m \in Nodes \ {n} : /\ hist'.stale[m] = hist.stale[m]
                            /\ hist'.astray[m] = hist.astray[m]
                            /\ hist'.remote[m] = hist.remote[m]
  /\ hist'.stale[n] = Overlapping(n, t)
  /\ hist'.astray[n] = (hist.astray[n] \/ Overlapping(n, t))
  /\ hist'.remote[n] = IF op = "peer" THEN hist.remote[n] \cup {key} ELSE hist.remote[n] \ {key}
  /\ hist'.promised = IF op = "peer" THEN hist.promised
                      ELSE Restrict(hist.promised, DOMAIN hist.promised \ {key})

\* Applying one value to the memory (config.set, config.propagate, CONFIG_UPDATE, saved seeds)
\* changes the one setting, and the snapshot to be saved is taken from the memory it leaves.
LEMMA UpdateEffects ==
  ASSUME Shape, NEW n \in Nodes, NEW t \in Tasks, DOMAIN task[n] = Tasks,
         NEW op, NEW key, NEW text, NEW v, Update(n, t, op, key, text, v)
  PROVE  UpdateEffect(n, t, op, key, text, v)
<1> DEFINE c == [mem[n] EXCEPT ![key] = v]
           me == [Idle EXCEPT !.pc = "open", !.op = op, !.key = key, !.text = text,
                              !.snap = to_file_config(c)]
<1>1. mem' = [mem EXCEPT ![n] = c]
  BY Zenon DEF Update
<1>2. mem'[n] = c /\ DOMAIN mem' = Nodes /\ \A m \in Nodes \ {n} : mem'[m] = mem[m]
  BY <1>1, Zenon DEF Shape
<1> HIDE DEF c
<1>3. /\ DOMAIN me = DOMAIN Idle /\ me.pc = "open" /\ me.op = op /\ me.key = key
      /\ me.text = text /\ me.snap = to_file_config(c)
  BY DEF Idle
<1>4. task' = [task EXCEPT ![n][t] = me]
  BY Zenon DEF Update, c
<1> HIDE DEF me
<1>5. TaskBecomes(n, t, me) /\ task'[n][t] = me
  BY <1>4, TaskAt, Zenon DEF Shape, TaskBecomes
<1>6. hist' = [hist EXCEPT
                   !.stale[n] = Overlapping(n, t),
                   !.astray[n] = @ \/ Overlapping(n, t),
                   !.remote[n] = IF op = "peer" THEN @ \cup {key} ELSE @ \ {key},
                   !.promised = IF op = "peer" THEN @ ELSE Restrict(@, DOMAIN @ \ {key}),
                   !.ops = IF op \in {"set", "propagate"} THEN @ + 1 ELSE @]
  BY DEF Update
<1>7. /\ DOMAIN hist' = DOMAIN hist /\ hist'.id = hist.id /\ hist'.torn = hist.torn
      /\ hist'.stale = [hist.stale EXCEPT ![n] = Overlapping(n, t)]
      /\ hist'.astray = [hist.astray EXCEPT ![n] = @ \/ Overlapping(n, t)]
      /\ hist'.remote = [hist.remote EXCEPT ![n] = IF op = "peer" THEN @ \cup {key} ELSE @ \ {key}]
      /\ hist'.promised = IF op = "peer" THEN hist.promised
                             ELSE Restrict(hist.promised, DOMAIN hist.promised \ {key})
  BY <1>6, Zenon DEF Shape
<1>8. /\ DOMAIN hist'.stale = Nodes /\ DOMAIN hist'.astray = Nodes /\ DOMAIN hist'.remote = Nodes
      /\ \A m \in Nodes \ {n} : /\ hist'.stale[m] = hist.stale[m]
                                /\ hist'.astray[m] = hist.astray[m]
                                /\ hist'.remote[m] = hist.remote[m]
      /\ hist'.stale[n] = Overlapping(n, t)
      /\ hist'.astray[n] = (hist.astray[n] \/ Overlapping(n, t))
      /\ hist'.remote[n] = IF op = "peer" THEN hist.remote[n] \cup {key} ELSE hist.remote[n] \ {key}
  BY <1>7, Zenon DEF Shape
<1> QED
  BY <1>2, <1>3, <1>5, <1>7, <1>8, Zenon DEF UpdateEffect, c

\* An update keeps what is known of its node: it changes one setting to a valid value, and
\* one that runs alone has the only copy on the way.
LEMMA UpdateNode ==
  ASSUME Shape, NEW n \in Nodes, NodeInv(n), status[n] = "up", NEW t \in Tasks,
         task[n][t].pc \in {"idle", "seeds"},
         NEW op, NEW key \in EditKeys, NEW text, NEW v \in Validated(key, text),
         op \in {"set", "propagate", "peer"} \/ (op = "join" /\ key = "cluster_seeds"),
         Update(n, t, op, key, text, v), UNCHANGED <<status, file, hot, starts>>
  PROVE  Shape' /\ NodeInv(n)' /\ \A m \in Nodes \ {n} : NodeKept(m)
<1>k. DOMAIN task[n] = Tasks /\ Good(n, mem[n]) /\ key \in DOMAIN mem[n]
  BY Zenon DEF NodeInv, MemoryIn, EditKeys, Good, Fields, Keys
<1>u. UpdateEffect(n, t, op, key, text, v)
  BY <1>k, UpdateEffects
<1>e. /\ DOMAIN mem' = Nodes /\ \A m \in Nodes \ {n} : mem'[m] = mem[m]
      /\ mem'[n] = [mem[n] EXCEPT ![key] = v]
      /\ TaskBecomes(n, t, task'[n][t]) /\ DOMAIN task'[n][t] = DOMAIN Idle
      /\ task'[n][t].pc = "open" /\ task'[n][t].op = op /\ task'[n][t].key = key
      /\ task'[n][t].text = text /\ task'[n][t].snap = to_file_config(mem'[n])
  BY <1>u, Zenon DEF UpdateEffect
<1>h. /\ DOMAIN hist' = DOMAIN hist /\ hist'.id = hist.id /\ hist'.torn = hist.torn
      /\ DOMAIN hist'.stale = Nodes /\ DOMAIN hist'.astray = Nodes /\ DOMAIN hist'.remote = Nodes
      /\ \A m \in Nodes \ {n} : /\ hist'.stale[m] = hist.stale[m]
                                /\ hist'.astray[m] = hist.astray[m]
                                /\ hist'.remote[m] = hist.remote[m]
      /\ hist'.stale[n] = Overlapping(n, t)
      /\ hist'.astray[n] = (hist.astray[n] \/ Overlapping(n, t))
      /\ hist'.remote[n] = IF op = "peer" THEN hist.remote[n] \cup {key} ELSE hist.remote[n] \ {key}
  BY <1>u, Zenon DEF UpdateEffect
<1>v. Validated(key, text) = {v} /\ Validated(key, v) = {v} /\ key \in DOMAIN KeyKind
  BY ValidatedOnce, Zenon
<1>o. ~Overlapping(n, t) => \A u \in Tasks \ {t} : task'[n][u] = task[n][u] /\ task'[n][u].pc \notin Working
  BY <1>e DEF Overlapping, Working, Saving, TaskBecomes
<1>1. Shape'
  BY <1>e, <1>h, Zenon DEF Shape, TaskBecomes
<1>2. \A m \in Nodes \ {n} : NodeKept(m)
  BY <1>e, <1>h, Zenon DEF NodeKept, TaskBecomes
<1>3. Good(n, mem'[n])
  <2>1. key \notin {"database_type", "node_id"} /\ {"database_type", "node_id"} \subseteq Keys
    BY <1>v, KeysOfKinds, FieldsAssumption, Zenon DEF Keys
  <2>2. Fields(mem'[n])
    BY <1>e, <1>k, Zenon DEF Good, Fields, IsFunction
  <2>3. \A k \in Keys : mem'[n][k] = IF k = key THEN v ELSE mem[n][k]
    BY <1>e, <1>k, Zenon DEF Good, Fields
  <2>4. Sound(n, mem'[n])
    BY <1>k, <1>v, <2>2, <2>3, Zenon DEF Sound, Setting, Good, Fields
  <2> QED
    BY <1>k, <2>1, <2>2, <2>3, <2>4, Zenon DEF Good
<1>4. MemoryIn(n)' /\ FileIn(n)'
  <2>1. Sound(n, task'[n][t].snap)
    BY <1>e, <1>3, FileConfigGood
  <2>2. \A u \in Tasks : u = t \/ task'[n][u] = task[n][u]
    BY <1>e, Zenon DEF TaskBecomes
  <2>3. FileIn(n)'
    BY <2>1, <2>2, Zenon DEF NodeInv, FileIn
  <2> QED
    BY <1>e, <1>3, <2>3, Zenon DEF NodeInv, MemoryIn, TaskBecomes
<1>5. TaskIn(n)'
  <2>1. TaskSound(task'[n][t])
    BY <1>e DEF TaskSound, Pcs, Working, Saving
  <2>2. \A u \in Tasks : u = t \/ task'[n][u] = task[n][u]
    BY <1>e, Zenon DEF TaskBecomes
  <2> QED
    BY <2>1, <2>2, Zenon DEF NodeInv, TaskIn
<1>6. IdentityIn(n)'
  <2>1. key # "node_id"
    BY <1>v, KeysOfKinds, Zenon
  <2>2. \A id : Carries(mem[n], id) => Carries(mem'[n], id) /\ Carries(to_file_config(mem'[n]), id)
    BY <1>e, <1>3, <2>1, FileConfigGood DEF Carries
  <2> QED
    BY <1>e, <1>h, <2>2 DEF NodeInv, IdentityIn, TaskBecomes
<1>7. SavedIn(n)'
  <2>1. SUFFICES ASSUME ~Overlapping(n, t) PROVE SavedIn(n)'
    BY <1>h, Zenon DEF SavedIn
  <2> QED
    BY <1>e, <1>o, <2>1, Zenon DEF SavedIn, OnItsWay, TaskBecomes, Working, Saving
<1>8. ReloadedIn(n)'
  <2>1. SUFFICES ASSUME ~Overlapping(n, t), ~hist.astray[n] PROVE (AloneIn(n) /\ MetricsIn(n) /\ NameIn(n) /\ BackdoorIn(n))'
    BY <1>h, Zenon DEF ReloadedIn
  <2>2. AloneIn(n) /\ MetricsIn(n) /\ NameIn(n) /\ BackdoorIn(n)
    BY <2>1, Zenon DEF NodeInv, ReloadedIn
  <2>3. AloneIn(n)'
    BY <1>e, <1>k, <1>o, <1>v, <2>1 DEF AloneIn, TaskBecomes, Working, Saving
  <2>4. \A u \in Tasks : task[n][u].pc \notin Working
    BY <1>o, <2>1, Zenon DEF Working, Saving
  <2>5. \A k \in Keys : k # key => mem'[n][k] = mem[n][k]
    BY <1>e, <1>k, Zenon DEF Good, Fields
  <2>6. \A keys, pcs : pcs \subseteq Working => ~Pending(n, keys, pcs)
    BY <2>4, Zenon DEF Pending, Working, Saving
  <2>7. \/ \A keys, pcs : key \in keys => Pending(n, keys, pcs)'
        \/ key \in hist'.remote[n] \/ key = "cluster_seeds"
    <3>1. CASE op \in {"set", "propagate"}
      BY <1>e, <3>1, Zenon DEF Pending, Saving
    <3>2. CASE op = "peer"
      BY <1>h, <3>2, Zenon
    <3> QED
      BY <3>1, <3>2, Zenon
  <2>8. \A k : k # key /\ k \in hist.remote[n] => k \in hist'.remote[n]
    BY <1>h, Zenon
  <2>9. {"metrics_enabled", "node_name", "backdoor_ip", "backdoor_port"} \subseteq Keys
    BY FieldsAssumption, Zenon DEF Keys
  <2>10. MetricsIn(n)'
    BY <2>2, <2>5, <2>6, <2>7, <2>8, <2>9 DEF MetricsIn, Working
  <2>11. NameIn(n)'
    <3>1. CASE key = "node_name"
      <4>1. Pending(n, {"node_name"}, {"name"})' \/ "node_name" \in hist'.remote[n]
        BY <2>7, <3>1
      <4> QED
        BY <4>1, Zenon DEF NameIn
    <3>2. CASE key # "node_name"
      <4>1. mem'[n]["node_name"] = mem[n]["node_name"] /\ hot'[n] = hot[n]
        BY <2>5, <2>9, <3>2, Zenon
      <4>2. ~Pending(n, {"node_name"}, {"name"})
        BY <2>6, Zenon DEF Working
      <4> QED
        BY <2>2, <2>8, <3>2, <4>1, <4>2, Zenon DEF NameIn
    <3> QED
      BY <3>1, <3>2, Zenon
  <2>12. BackdoorIn(n)'
    BY <2>2, <2>5, <2>6, <2>7, <2>8, <2>9 DEF BackdoorIn, BackdoorAddress, Working
  <2> QED
    BY <2>3, <2>10, <2>11, <2>12, Zenon
<1> QED
  BY <1>1, <1>2, <1>4, <1>5, <1>6, <1>7, <1>8, Zenon DEF NodeInv

\* A step of one task of a node: the memory, the history and the other tasks stay.
TaskOnly(n, t) ==
  /\ TaskBecomes(n, t, task'[n][t]) /\ DOMAIN file' = Nodes /\ DOMAIN hot' = Nodes
  /\ \A m \in Nodes \ {n} : file'[m] = file[m] /\ hot'[m] = hot[m]
  /\ UNCHANGED <<status, mem, starts>> /\ HistKept

\* A step that touches only one task, the file or the live settings of its node leaves the
\* other nodes as they were.
LEMMA TaskOnlyKeeps ==
  ASSUME Shape, NEW n \in Nodes, NEW t \in Tasks, TaskOnly(n, t)
  PROVE  Shape' /\ \A m \in Nodes \ {n} : NodeKept(m)
  BY Zenon DEF Shape, TaskOnly, TaskBecomes, HistKept, NodeKept

\* The state of a task that goes on.
LEMMA GotoEffects ==
  ASSUME Shape, NEW n \in Nodes, NodeInv(n), NEW t \in Tasks, NEW pc, Goto(n, t, pc)
  PROVE  /\ TaskBecomes(n, t, task'[n][t]) /\ DOMAIN task'[n][t] = DOMAIN Idle
         /\ task'[n][t].pc = pc
         /\ pc # "idle" => /\ task'[n][t].key = task[n][t].key /\ task'[n][t].op = task[n][t].op
                           /\ task'[n][t].text = task[n][t].text
<1> DEFINE me == IF pc = "idle" THEN Idle ELSE [task[n][t] EXCEPT !.pc = pc, !.snap = <<>>, !.ip = ""]
<1>1. DOMAIN task[n] = Tasks /\ DOMAIN task = Nodes /\ DOMAIN task[n][t] = DOMAIN Idle
  BY Zenon DEF NodeInv, MemoryIn, TaskIn, TaskSound, Shape
<1>2. task' = [task EXCEPT ![n][t] = me]
  BY <1>1, Zenon DEF Goto
<1>3. /\ DOMAIN me = DOMAIN Idle /\ me.pc = pc
      /\ pc # "idle" => me.key = task[n][t].key /\ me.op = task[n][t].op /\ me.text = task[n][t].text
  BY <1>1, Zenon DEF Idle
<1> HIDE DEF me
<1>4. TaskBecomes(n, t, me) /\ task'[n][t] = me
  BY <1>1, <1>2, TaskAt, Zenon DEF TaskBecomes
<1> QED
  BY <1>3, <1>4, Zenon

\* Opening the file: the copy that was on its way is the one that writes.
LEMMA OpenNode ==
  ASSUME Shape, NEW n \in Nodes, NodeInv(n), NEW t \in Tasks, Open(n, t)
  PROVE  Shape' /\ NodeInv(n)' /\ \A m \in Nodes \ {n} : NodeKept(m)
<1> DEFINE me == [task[n][t] EXCEPT !.pc = "write"]
<1>1. /\ DOMAIN task[n] = Tasks /\ DOMAIN task = Nodes /\ DOMAIN task[n][t] = DOMAIN Idle
      /\ task[n][t].pc = "open" /\ status[n] = "up"
  BY Zenon DEF NodeInv, MemoryIn, TaskIn, TaskSound, Shape, Open
<1>2. /\ DOMAIN me = DOMAIN Idle /\ me.pc = "write" /\ me.key = task[n][t].key
      /\ me.op = task[n][t].op /\ me.text = task[n][t].text /\ me.snap = task[n][t].snap
  BY <1>1, Zenon DEF Idle
<1>3. task' = [task EXCEPT ![n][t] = me]
  BY <1>1, Zenon DEF Open
<1> HIDE DEF me
<1>4. TaskBecomes(n, t, me) /\ task'[n][t] = me
  BY <1>1, <1>3, TaskAt, Zenon DEF TaskBecomes
<1>5. TaskOnly(n, t) /\ file'[n].st = "empty" /\ hot' = hot
  BY <1>4, Zenon DEF TaskOnly, Open, Shape, HistKept
<1>e. /\ status' = status /\ mem' = mem /\ starts' = starts /\ HistKept
      /\ \A u \in Tasks : /\ task'[n][u].pc \in Saving <=> task[n][u].pc \in Saving
                          /\ task'[n][u].pc \in Working <=> task[n][u].pc \in Working
                          /\ task'[n][u].snap = task[n][u].snap /\ task'[n][u].key = task[n][u].key
                          /\ task'[n][u].op = task[n][u].op /\ task'[n][u].text = task[n][u].text
                          /\ u # t => task'[n][u] = task[n][u]
  BY <1>1, <1>2, <1>4, <1>5, Zenon DEF TaskOnly, TaskBecomes, Saving, Working
<1>6. MemoryIn(n)' /\ FileIn(n)'
  BY <1>4, <1>5, <1>e, Zenon DEF NodeInv, MemoryIn, FileIn, TaskBecomes
<1>7. TaskIn(n)'
  BY <1>1, <1>2, <1>4, <1>e DEF NodeInv, TaskIn, TaskSound, Pcs, Working, Saving
<1>8. IdentityIn(n)'
  BY <1>1, <1>5, <1>e, Zenon DEF NodeInv, IdentityIn, HistKept
<1>9. SavedIn(n)'
  <2>1. SUFFICES ASSUME ~hist.stale[n]
                 PROVE  \E u \in Tasks : OnItsWay(n, u)' /\ \A w \in Tasks \ {u} : task'[n][w].pc \notin Saving
    BY <1>e, Zenon DEF SavedIn, HistKept
  <2>2. task[n][t].snap = to_file_config(mem[n]) /\ \A w \in Tasks \ {t} : task[n][w].pc \notin Saving
    BY <1>1, <2>1, Zenon DEF NodeInv, SavedIn, OnItsWay, Saving
  <2> QED
    BY <1>1, <1>5, <1>e, <2>2 DEF OnItsWay, Saving
<1>10. ReloadedIn(n)'
  <2>1. SUFFICES ASSUME ~hist.astray[n] PROVE (AloneIn(n) /\ MetricsIn(n) /\ NameIn(n) /\ BackdoorIn(n))'
    BY <1>e, Zenon DEF ReloadedIn, HistKept
  <2>2. AloneIn(n) /\ MetricsIn(n) /\ NameIn(n) /\ BackdoorIn(n)
    BY <1>1, <2>1, Zenon DEF NodeInv, ReloadedIn
  <2>3. \A keys, pcs : Pending(n, keys, pcs) => Pending(n, keys, pcs)'
    BY <1>1, <1>2, <1>4, <1>e, Zenon DEF Pending, Saving
  <2>4. AloneIn(n)'
    BY <1>2, <1>4, <1>e, <2>2 DEF AloneIn
  <2> QED
    BY <1>5, <1>e, <2>2, <2>3, <2>4, Zenon DEF MetricsIn, NameIn, BackdoorIn, BackdoorAddress, HistKept
<1> QED
  BY <1>5, <1>6, <1>7, <1>8, <1>9, <1>10, TaskOnlyKeeps, Zenon DEF NodeInv

\* The end of a write that succeeds.  A copy that was alone meets an empty file, and what
\* comes after it reloads the part that the key is for.
LEMMA WriteNode ==
  ASSUME Shape, NEW n \in Nodes, NodeInv(n), NEW t \in Tasks, Write(n, t)
  PROVE  Shape' /\ NodeInv(n)' /\ \A m \in Nodes \ {n} : NodeKept(m)
<1> DEFINE pc == AfterSave(task[n][t].op, task[n][t].key)
<1>1. /\ DOMAIN task[n] = Tasks /\ task[n][t].pc = "write" /\ status[n] = "up"
      /\ task[n][t].key \in EditKeys /\ Sound(n, task[n][t].snap)
  BY Zenon DEF NodeInv, MemoryIn, FileIn, TaskIn, TaskSound, Write, Working, Saving
<1>p. /\ pc \in {"idle", "broadcast", "flag", "name", "ip"}
      /\ pc = "flag" => task[n][t].key = "metrics_enabled"
      /\ pc = "name" => task[n][t].key = "node_name"
      /\ pc = "ip" => task[n][t].key \in {"backdoor_ip", "backdoor_port"}
      /\ task[n][t].op \in {"set", "propagate"} =>
           /\ task[n][t].key = "metrics_enabled" => pc = "flag"
           /\ task[n][t].key = "node_name" => pc = "name"
           /\ task[n][t].key \in {"backdoor_ip", "backdoor_port"} => pc = "ip"
  BY Zenon DEF AfterSave, Broadcasts
<1>2. Goto(n, t, pc)
  BY Zenon DEF Write
<1> HIDE DEF pc
<1>3. /\ TaskBecomes(n, t, task'[n][t]) /\ DOMAIN task'[n][t] = DOMAIN Idle
      /\ task'[n][t].pc = pc
      /\ pc # "idle" => /\ task'[n][t].key = task[n][t].key /\ task'[n][t].op = task[n][t].op
                        /\ task'[n][t].text = task[n][t].text
  BY <1>2, GotoEffects
<1>4. PICK f \in Written(file[n], task[n][t].snap) : file' = [file EXCEPT ![n] = f]
  BY Zenon DEF Write
<1>5. /\ TaskOnly(n, t) /\ file'[n] = f /\ hot' = hot /\ status' = status /\ mem' = mem
      /\ starts' = starts /\ HistKept
  BY <1>3, <1>4, Zenon DEF TaskOnly, Write, Shape, HistKept
<1>6. /\ f = [st |-> "whole", cfg |-> task[n][t].snap] \/ f.st = "mixed"
      /\ file[n].st = "empty" => f = [st |-> "whole", cfg |-> task[n][t].snap]
  BY DEF Written
<1>7. \A u \in Tasks \ {t} : task'[n][u] = task[n][u]
  BY <1>3, Zenon DEF TaskBecomes
<1>8. MemoryIn(n)' /\ FileIn(n)'
  <2>1. file'[n].st \in {"whole", "mixed"} /\ (file'[n].st = "whole" => Sound(n, file'[n].cfg))
    BY <1>1, <1>5, <1>6
  <2>2. \A u \in Tasks : task'[n][u].pc \in Saving => u # t
    BY <1>3, <1>p, Zenon DEF Saving
  <2>3. FileIn(n)'
    BY <1>7, <2>1, <2>2, Zenon DEF NodeInv, FileIn
  <2> QED
    BY <1>3, <1>5, <2>3, Zenon DEF NodeInv, MemoryIn, TaskBecomes
<1>9. TaskIn(n)'
  <2>1. TaskSound(task'[n][t])
    BY <1>1, <1>3, <1>p, Zenon DEF TaskSound, Pcs, Working, Saving
  <2> QED
    BY <1>1, <1>5, <1>7, <2>1, Zenon DEF NodeInv, TaskIn
<1>10. IdentityIn(n)'
  <2>1. SUFFICES ASSUME ~hist.torn[n], starts[n] > 0
                 PROVE  /\ file'[n].st = "whole" => Carries(file'[n].cfg, hist.id[n])
                        /\ \A u \in Tasks : task'[n][u].pc \in Saving => Carries(task'[n][u].snap, hist.id[n])
    BY <1>1, <1>5, Zenon DEF NodeInv, IdentityIn, HistKept
  <2>2. Carries(task[n][t].snap, hist.id[n])
    BY <1>1, <2>1, Zenon DEF NodeInv, IdentityIn, Saving
  <2>3. \A u \in Tasks : task'[n][u].pc \in Saving => u # t
    BY <1>3, <1>p, Zenon DEF Saving
  <2> QED
    BY <1>5, <1>6, <1>7, <2>1, <2>2, <2>3 DEF NodeInv, IdentityIn
<1>11. SavedIn(n)'
  <2>1. SUFFICES ASSUME ~hist.stale[n]
                 PROVE  Saved(n)' /\ \A u \in Tasks : task'[n][u].pc \notin Saving
    BY <1>5, Zenon DEF SavedIn, HistKept
  <2>2. /\ task[n][t].snap = to_file_config(mem[n]) /\ file[n].st = "empty"
        /\ \A u \in Tasks \ {t} : task[n][u].pc \notin Saving
    BY <1>1, <2>1, Zenon DEF NodeInv, SavedIn, OnItsWay, Saving
  <2>3. Saved(n)'
    BY <1>5, <1>6, <2>2, Zenon DEF Saved
  <2> QED
    BY <1>3, <1>p, <1>7, <2>2, <2>3, Zenon DEF Saving
<1>12. ReloadedIn(n)'
  <2>1. SUFFICES ASSUME ~hist.astray[n] PROVE (AloneIn(n) /\ MetricsIn(n) /\ NameIn(n) /\ BackdoorIn(n))'
    BY <1>5, Zenon DEF ReloadedIn, HistKept
  <2>2. AloneIn(n) /\ MetricsIn(n) /\ NameIn(n) /\ BackdoorIn(n)
    BY <1>1, <2>1, Zenon DEF NodeInv, ReloadedIn
  <2>3. \A u \in Tasks \ {t} : task'[n][u].pc \notin Working
    BY <1>1, <1>7, <2>2, Zenon DEF AloneIn, Working, Saving
  <2>4. AloneIn(n)'
    <3>1. Validated(task[n][t].key, task[n][t].text) = {mem[n][task[n][t].key]}
      BY <1>1, <2>2, Zenon DEF AloneIn, Working, Saving
    <3>2. pc \in Working => Validated(task'[n][t].key, task'[n][t].text) = {mem'[n][task'[n][t].key]}
      BY <1>3, <1>5, <3>1, Zenon DEF Working, Saving
    <3> QED
      BY <1>3, <1>p, <2>3, <3>2, Zenon DEF AloneIn, Working, Saving
  <2>5. ASSUME NEW keys, NEW pcs, pcs \subseteq Working, Pending(n, keys, pcs)
        PROVE  task[n][t].key \in keys /\ task[n][t].op \in {"set", "propagate"}
    BY <1>1, <2>2, <2>5, Zenon DEF Pending, AloneIn, Working, Saving
  <2>6. Pending(n, {"metrics_enabled"}, {"flag"}) => Pending(n, {"metrics_enabled"}, {"flag"})'
    BY <1>3, <1>p, <2>5, Zenon DEF Pending, Working
  <2>7. Pending(n, {"node_name"}, {"name"}) => Pending(n, {"node_name"}, {"name"})'
    BY <1>3, <1>p, <2>5, Zenon DEF Pending, Working
  <2>8. Pending(n, {"backdoor_ip", "backdoor_port"}, {"ip", "rebind"})
          => Pending(n, {"backdoor_ip", "backdoor_port"}, {"ip", "rebind"})'
    BY <1>3, <1>p, <2>5, Zenon DEF Pending, Working
  <2> QED
    BY <1>5, <2>2, <2>4, <2>6, <2>7, <2>8, Zenon DEF MetricsIn, NameIn, BackdoorIn, BackdoorAddress, HistKept
<1> QED
  BY <1>5, <1>8, <1>9, <1>10, <1>11, <1>12, TaskOnlyKeeps, Zenon DEF NodeInv

\* A step of a task that has no copy on the way, which leaves the file alone.
LEMMA NotSaving ==
  ASSUME Shape, NEW n \in Nodes, NodeInv(n), NEW t \in Tasks, TaskOnly(n, t), file' = file,
         status[n] = "up", DOMAIN hot'[n] = DOMAIN Off, TaskSound(task'[n][t]),
         task[n][t].pc \notin Saving, task'[n][t].pc \notin Saving
  PROVE  MemoryIn(n)' /\ FileIn(n)' /\ TaskIn(n)' /\ IdentityIn(n)' /\ SavedIn(n)'
<1>1. /\ status' = status /\ mem' = mem /\ starts' = starts /\ HistKept
      /\ DOMAIN task'[n] = Tasks
      /\ \A u \in Tasks \ {t} : task'[n][u] = task[n][u]
  BY Zenon DEF TaskOnly, TaskBecomes
<1>2. MemoryIn(n)' /\ FileIn(n)' /\ TaskIn(n)'
  BY <1>1, Zenon DEF NodeInv, MemoryIn, FileIn, TaskIn
<1>3. IdentityIn(n)'
  BY <1>1, Zenon DEF NodeInv, IdentityIn, HistKept
<1>4. SavedIn(n)'
  <2>1. SUFFICES ASSUME ~hist.stale[n]
                 PROVE  \/ Saved(n)' /\ \A u \in Tasks : task'[n][u].pc \notin Saving
                        \/ \E u \in Tasks : OnItsWay(n, u)' /\ \A w \in Tasks \ {u} : task'[n][w].pc \notin Saving
    BY <1>1, Zenon DEF SavedIn, HistKept
  <2>2. CASE Saved(n) /\ \A u \in Tasks : task[n][u].pc \notin Saving
    BY <1>1, <2>2, Zenon DEF Saved
  <2>3. CASE \E u \in Tasks : OnItsWay(n, u) /\ \A w \in Tasks \ {u} : task[n][w].pc \notin Saving
    <3>1. PICK u \in Tasks : OnItsWay(n, u) /\ \A w \in Tasks \ {u} : task[n][w].pc \notin Saving
      BY <2>3, Zenon
    <3>2. u # t
      BY <3>1, Zenon DEF OnItsWay
    <3>3. OnItsWay(n, u)'
      BY <1>1, <3>1, <3>2, Zenon DEF OnItsWay
    <3> QED
      BY <1>1, <3>1, <3>2, <3>3, Zenon
  <2> QED
    BY <2>1, <2>2, <2>3, Zenon DEF NodeInv, SavedIn
<1> QED
  BY <1>2, <1>3, <1>4, Zenon

\* A step of a task that is not at work before it nor after it.
LEMMA NotWorking ==
  ASSUME Shape, NEW n \in Nodes, NodeInv(n), NEW t \in Tasks, TaskOnly(n, t), file' = file,
         hot' = hot, status[n] = "up", TaskSound(task'[n][t]),
         task[n][t].pc \notin Working, task'[n][t].pc \notin Working
  PROVE  NodeInv(n)'
<1>1. MemoryIn(n)' /\ FileIn(n)' /\ TaskIn(n)' /\ IdentityIn(n)' /\ SavedIn(n)'
  BY NotSaving, Zenon DEF Working, NodeInv, MemoryIn
<1>2. /\ status' = status /\ mem' = mem /\ HistKept
      /\ \A u \in Tasks \ {t} : task'[n][u] = task[n][u]
  BY Zenon DEF TaskOnly, TaskBecomes
<1>3. ReloadedIn(n)'
  <2>1. SUFFICES ASSUME ~hist.astray[n] PROVE (AloneIn(n) /\ MetricsIn(n) /\ NameIn(n) /\ BackdoorIn(n))'
    BY <1>2, Zenon DEF ReloadedIn, HistKept
  <2>2. AloneIn(n) /\ MetricsIn(n) /\ NameIn(n) /\ BackdoorIn(n)
    BY <2>1, Zenon DEF NodeInv, ReloadedIn
  <2>3. AloneIn(n)'
    BY <1>2, <2>2, Zenon DEF AloneIn, Working
  <2>4. \A keys, pcs : pcs \subseteq Working /\ Pending(n, keys, pcs) => Pending(n, keys, pcs)'
    BY <1>2, Zenon DEF Pending, Working
  <2>5. /\ Pending(n, {"metrics_enabled"}, {"flag"}) => Pending(n, {"metrics_enabled"}, {"flag"})'
        /\ Pending(n, {"node_name"}, {"name"}) => Pending(n, {"node_name"}, {"name"})'
        /\ Pending(n, {"backdoor_ip", "backdoor_port"}, {"ip", "rebind"})
             => Pending(n, {"backdoor_ip", "backdoor_port"}, {"ip", "rebind"})'
    BY <2>4, Zenon DEF Working
  <2> QED
    BY <1>2, <2>2, <2>3, <2>5, Zenon DEF MetricsIn, NameIn, BackdoorIn, BackdoorAddress, HistKept
<1> QED
  BY <1>1, <1>3, Zenon DEF NodeInv

\* A task at work goes on to a reload step or finishes, and the others are not at work: what
\* is left to show of the reload is that its own part is as the memory says.
LEMMA ReloadStep ==
  ASSUME Shape, NEW n \in Nodes, NodeInv(n), NEW t \in Tasks, TaskOnly(n, t), file' = file,
         status[n] = "up", DOMAIN hot'[n] = DOMAIN Off, TaskSound(task'[n][t]),
         task[n][t].pc \in Working \ Saving, task'[n][t].pc \notin Working,
         ~hist.astray[n] => (MetricsIn(n) /\ NameIn(n) /\ BackdoorIn(n))'
  PROVE  NodeInv(n)'
<1>1. MemoryIn(n)' /\ FileIn(n)' /\ TaskIn(n)' /\ IdentityIn(n)' /\ SavedIn(n)'
  BY NotSaving, Zenon DEF Working
<1>2. /\ status' = status /\ mem' = mem /\ HistKept
      /\ \A u \in Tasks \ {t} : task'[n][u] = task[n][u]
  BY Zenon DEF TaskOnly, TaskBecomes
<1>3. ~hist.astray[n] => AloneIn(n)'
  BY <1>2, Zenon DEF NodeInv, ReloadedIn, AloneIn, Working
<1> QED
  BY <1>1, <1>2, <1>3, Zenon DEF NodeInv, ReloadedIn, HistKept

\* A failed write: the node is marked as neither saved nor reloaded.
LEMMA WriteFailsNode ==
  ASSUME Shape, NEW n \in Nodes, NodeInv(n), NEW t \in Tasks, WriteFails(n, t)
  PROVE  Shape' /\ NodeInv(n)' /\ \A m \in Nodes \ {n} : NodeKept(m)
<1>1. DOMAIN task[n] = Tasks /\ status[n] = "up" /\ DOMAIN task = Nodes
  BY Zenon DEF NodeInv, MemoryIn, TaskIn, WriteFails, Shape
<1>2. TaskBecomes(n, t, Idle)
  BY <1>1, TaskAt, Zenon DEF WriteFails
<1>3. /\ UNCHANGED <<status, mem, file, hot, starts>>
      /\ hist' = [hist EXCEPT !.stale[n] = TRUE, !.astray[n] = TRUE, !.faults = @ + 1]
  BY Zenon DEF WriteFails
<1>4. /\ DOMAIN hist' = DOMAIN hist /\ hist'.id = hist.id /\ hist'.torn = hist.torn
      /\ hist'.remote = hist.remote
      /\ hist'.stale = [hist.stale EXCEPT ![n] = TRUE]
      /\ hist'.astray = [hist.astray EXCEPT ![n] = TRUE]
  BY <1>3, Zenon DEF Shape
<1>5. /\ DOMAIN hist'.stale = Nodes /\ DOMAIN hist'.astray = Nodes
      /\ hist'.stale[n] = TRUE /\ hist'.astray[n] = TRUE
      /\ \A m \in Nodes \ {n} : hist'.stale[m] = hist.stale[m] /\ hist'.astray[m] = hist.astray[m]
  BY <1>4, Zenon DEF Shape
<1>6. Shape'
  BY <1>2, <1>3, <1>4, <1>5, Zenon DEF Shape, TaskBecomes
<1>7. \A m \in Nodes \ {n} : NodeKept(m)
  BY <1>2, <1>3, <1>4, <1>5, Zenon DEF NodeKept, TaskBecomes
<1>8. /\ DOMAIN task'[n] = Tasks /\ task'[n][t] = Idle /\ Idle.pc = "idle"
      /\ \A u \in Tasks \ {t} : task'[n][u] = task[n][u]
  BY <1>2, Zenon DEF TaskBecomes, Idle
<1>9. MemoryIn(n)' /\ FileIn(n)'
  BY <1>3, <1>8, Zenon DEF NodeInv, MemoryIn, FileIn, Saving
<1>10. TaskIn(n)'
  BY <1>1, <1>3, <1>8 DEF NodeInv, TaskIn, TaskSound, Pcs, Working, Saving
<1>11. IdentityIn(n)'
  BY <1>3, <1>4, <1>8, Zenon DEF NodeInv, IdentityIn, Saving
<1>12. SavedIn(n)' /\ ReloadedIn(n)'
  BY <1>5, Zenon DEF SavedIn, ReloadedIn
<1> QED
  BY <1>6, <1>7, <1>9, <1>10, <1>11, <1>12, Zenon DEF NodeInv

\* What a reload step may rely on: it is alone, and the parts that its key is not for are as
\* the memory says.
LEMMA ReloadAlone ==
  ASSUME NEW n \in Nodes, NodeInv(n), NEW t \in Tasks, task[n][t].pc \in Working \ Saving
  PROVE  /\ status[n] = "up" /\ task[n][t].key \in EditKeys
         /\ ~hist.astray[n] =>
              /\ AloneIn(n) /\ MetricsIn(n) /\ NameIn(n) /\ BackdoorIn(n)
              /\ Validated(task[n][t].key, task[n][t].text) = {mem[n][task[n][t].key]}
              /\ \A keys, pcs : pcs \subseteq Working /\ task[n][t].pc \notin pcs => ~Pending(n, keys, pcs)
<1>1. status[n] = "up" /\ task[n][t].key \in EditKeys
  BY Zenon DEF NodeInv, TaskIn, TaskSound, Working, Saving
<1>2. ASSUME ~hist.astray[n]
      PROVE  /\ AloneIn(n) /\ MetricsIn(n) /\ NameIn(n) /\ BackdoorIn(n)
             /\ Validated(task[n][t].key, task[n][t].text) = {mem[n][task[n][t].key]}
             /\ \A keys, pcs : pcs \subseteq Working /\ task[n][t].pc \notin pcs => ~Pending(n, keys, pcs)
  <2>1. AloneIn(n) /\ MetricsIn(n) /\ NameIn(n) /\ BackdoorIn(n)
    BY <1>1, <1>2, Zenon DEF NodeInv, ReloadedIn
  <2>2. \A u \in Tasks : task[n][u].pc \in Working => u = t
    BY <2>1, Zenon DEF AloneIn
  <2>3. ASSUME NEW keys, NEW pcs, pcs \subseteq Working, task[n][t].pc \notin pcs
        PROVE  ~Pending(n, keys, pcs)
    BY <2>2, <2>3, Zenon DEF Pending, Working
  <2> QED
    BY <2>1, <2>3, Zenon DEF AloneIn
<1> QED
  BY <1>1, <1>2, Zenon

\* The task of a step that ends the reload goes on to the broadcast, or is done.
LEMMA ReloadGoto ==
  ASSUME Shape, NEW n \in Nodes, NodeInv(n), NEW t \in Tasks, task[n][t].pc \in Working \ Saving,
         Goto(n, t, Broadcasts(task[n][t].op)),
         DOMAIN hot' = Nodes, \A m \in Nodes \ {n} : hot'[m] = hot[m],
         UNCHANGED <<status, mem, file, starts, hist>>
  PROVE  /\ TaskOnly(n, t) /\ TaskSound(task'[n][t]) /\ task'[n][t].pc \notin Working
         /\ Shape' /\ \A m \in Nodes \ {n} : NodeKept(m)
<1> DEFINE pc == Broadcasts(task[n][t].op)
<1>1. pc \in {"idle", "broadcast"}
  BY DEF Broadcasts
<1> HIDE DEF pc
<1>2. /\ TaskBecomes(n, t, task'[n][t]) /\ DOMAIN task'[n][t] = DOMAIN Idle
      /\ task'[n][t].pc = pc
      /\ pc # "idle" => task'[n][t].key = task[n][t].key
  BY GotoEffects DEF pc
<1>3. TaskOnly(n, t)
  BY <1>2, Zenon DEF TaskOnly, HistKept, Shape
<1>4. TaskSound(task'[n][t]) /\ task'[n][t].pc \notin Working
  BY <1>1, <1>2, ReloadAlone, Zenon DEF TaskSound, Pcs, Working, Saving
<1> QED
  BY <1>3, <1>4, TaskOnlyKeeps, Zenon

\* The reload of metrics_enabled keeps what is known of its node: the live flag is read from
\* the memory at that moment.
LEMMA FlagNode ==
  ASSUME Shape, NEW n \in Nodes, NodeInv(n), NEW t \in Tasks, Flag(n, t)
  PROVE  Shape' /\ NodeInv(n)' /\ \A m \in Nodes \ {n} : NodeKept(m)
<1>1. task[n][t].pc = "flag" /\ task[n][t].key = "metrics_enabled" /\ DOMAIN hot[n] = DOMAIN Off
  BY Zenon DEF Flag, NodeInv, TaskIn, TaskSound, MemoryIn
<1>2. /\ DOMAIN hot' = Nodes /\ \A m \in Nodes \ {n} : hot'[m] = hot[m]
      /\ hot'[n] = [hot[n] EXCEPT !.metrics = (task[n][t].text = "true")]
  BY Zenon DEF Flag, Shape
<1>3. /\ DOMAIN hot'[n] = DOMAIN Off /\ hot'[n].metrics = (task[n][t].text = "true")
      /\ hot'[n].cluster = hot[n].cluster /\ hot'[n].name = hot[n].name
      /\ hot'[n].changed = hot[n].changed /\ hot'[n].asked = hot[n].asked /\ hot'[n].bound = hot[n].bound
  BY <1>1, <1>2, Zenon DEF Off
<1>4. /\ TaskOnly(n, t) /\ TaskSound(task'[n][t]) /\ task'[n][t].pc \notin Working
      /\ Shape' /\ \A m \in Nodes \ {n} : NodeKept(m)
  BY <1>1, <1>2, ReloadGoto, Zenon DEF Flag, Working, Saving
<1>5. ASSUME ~hist.astray[n] PROVE (MetricsIn(n) /\ NameIn(n) /\ BackdoorIn(n))'
  <2>1. /\ MetricsIn(n) /\ NameIn(n) /\ BackdoorIn(n)
        /\ Validated(task[n][t].key, task[n][t].text) = {mem[n][task[n][t].key]}
        /\ ~Pending(n, {"node_name"}, {"name"})
        /\ ~Pending(n, {"backdoor_ip", "backdoor_port"}, {"ip", "rebind"})
    BY <1>1, <1>5, ReloadAlone, Zenon DEF Working, Saving
  <2>2. mem[n]["metrics_enabled"] = task[n][t].text
    BY <1>1, <2>1, KeysOfKinds, Zenon DEF Validated
  <2>3. mem' = mem /\ hist' = hist
    BY Zenon DEF Flag
  <2>4. MetricsIn(n)'
    BY <1>3, <2>2, <2>3, Zenon DEF MetricsIn
  <2> QED
    BY <1>3, <2>1, <2>3, <2>4, Zenon DEF NameIn, BackdoorIn, BackdoorAddress
<1> QED
  BY <1>1, <1>3, <1>4, <1>5, ReloadStep, ReloadAlone, Zenon DEF Flag, Working, Saving

\* The reload of node_name keeps what is known of its node: it copies the name in the memory.
LEMMA NameNode ==
  ASSUME Shape, NEW n \in Nodes, NodeInv(n), NEW t \in Tasks, Name(n, t)
  PROVE  Shape' /\ NodeInv(n)' /\ \A m \in Nodes \ {n} : NodeKept(m)
<1>1. task[n][t].pc = "name" /\ task[n][t].key = "node_name" /\ DOMAIN hot[n] = DOMAIN Off
  BY Zenon DEF Name, NodeInv, TaskIn, TaskSound, MemoryIn
<1>2. /\ DOMAIN hot' = Nodes /\ \A m \in Nodes \ {n} : hot'[m] = hot[m]
      /\ hot'[n] = IF hot[n].cluster /\ task[n][t].text # ""
                   THEN [hot[n] EXCEPT !.name = task[n][t].text] ELSE hot[n]
  BY Zenon DEF Name, Shape
<1>3. /\ DOMAIN hot'[n] = DOMAIN Off /\ hot'[n].metrics = hot[n].metrics
      /\ hot'[n].cluster = hot[n].cluster
      /\ hot'[n].cluster /\ task[n][t].text # "" => hot'[n].name = task[n][t].text
      /\ hot'[n].changed = hot[n].changed /\ hot'[n].asked = hot[n].asked /\ hot'[n].bound = hot[n].bound
  <2>1. CASE hot[n].cluster /\ task[n][t].text # ""
    <3>1. hot'[n] = [hot[n] EXCEPT !.name = task[n][t].text]
      BY <1>2, <2>1, Zenon
    <3> QED
      BY <1>1, <2>1, <3>1, Zenon DEF Off
  <2>2. CASE ~(hot[n].cluster /\ task[n][t].text # "")
    <3>1. hot'[n] = hot[n]
      BY <1>2, <2>2, Zenon
    <3> QED
      BY <1>1, <2>2, <3>1, Zenon
  <2> QED
    BY <2>1, <2>2, Zenon
<1>4. /\ TaskOnly(n, t) /\ TaskSound(task'[n][t]) /\ task'[n][t].pc \notin Working
      /\ Shape' /\ \A m \in Nodes \ {n} : NodeKept(m)
  BY <1>1, <1>2, ReloadGoto, Zenon DEF Name, Working, Saving
<1>5. ASSUME ~hist.astray[n] PROVE (MetricsIn(n) /\ NameIn(n) /\ BackdoorIn(n))'
  <2>1. /\ MetricsIn(n) /\ NameIn(n) /\ BackdoorIn(n)
        /\ Validated(task[n][t].key, task[n][t].text) = {mem[n][task[n][t].key]}
        /\ ~Pending(n, {"metrics_enabled"}, {"flag"})
        /\ ~Pending(n, {"backdoor_ip", "backdoor_port"}, {"ip", "rebind"})
    BY <1>1, <1>5, ReloadAlone, Zenon DEF Working, Saving
  <2>2. mem[n]["node_name"] = task[n][t].text
    BY <1>1, <2>1, KeysOfKinds, Zenon DEF Validated
  <2>3. mem' = mem /\ hist' = hist
    BY Zenon DEF Name
  <2>4. NameIn(n)'
    BY <1>3, <2>2, <2>3, Zenon DEF NameIn
  <2> QED
    BY <1>3, <2>1, <2>3, <2>4, Zenon DEF MetricsIn, BackdoorIn, BackdoorAddress
<1> QED
  BY <1>1, <1>3, <1>4, <1>5, ReloadStep, ReloadAlone, Zenon DEF Name, Working, Saving

\* The first read of the address: it is the memory's until another update overlaps.
LEMMA ReadIpNode ==
  ASSUME Shape, NEW n \in Nodes, NodeInv(n), NEW t \in Tasks, ReadIp(n, t)
  PROVE  Shape' /\ NodeInv(n)' /\ \A m \in Nodes \ {n} : NodeKept(m)
<1> DEFINE me == [task[n][t] EXCEPT !.pc = "rebind", !.ip = mem[n]["backdoor_ip"]]
<1>1. /\ DOMAIN task[n] = Tasks /\ DOMAIN task = Nodes /\ DOMAIN task[n][t] = DOMAIN Idle
      /\ task[n][t].pc = "ip" /\ status[n] = "up" /\ DOMAIN hot[n] = DOMAIN Off
      /\ TaskSound(task[n][t])
  BY Zenon DEF NodeInv, MemoryIn, TaskIn, TaskSound, Shape, ReadIp
<1>2. /\ DOMAIN me = DOMAIN Idle /\ me.pc = "rebind" /\ me.key = task[n][t].key
      /\ me.op = task[n][t].op /\ me.text = task[n][t].text /\ me.ip = mem[n]["backdoor_ip"]
  BY <1>1, Zenon DEF Idle
<1>3. task' = [task EXCEPT ![n][t] = me]
  BY <1>1, Zenon DEF ReadIp
<1> HIDE DEF me
<1>4. TaskBecomes(n, t, me) /\ task'[n][t] = me
  BY <1>1, <1>3, TaskAt, Zenon DEF TaskBecomes
<1>5. TaskOnly(n, t) /\ UNCHANGED <<file, hot, mem, status, hist>>
  BY <1>4, Zenon DEF TaskOnly, ReadIp, Shape, HistKept
<1>6. TaskSound(task'[n][t])
  BY <1>1, <1>2, <1>4, Zenon DEF TaskSound, Pcs, Working, Saving
<1>7. MemoryIn(n)' /\ FileIn(n)' /\ TaskIn(n)' /\ IdentityIn(n)' /\ SavedIn(n)'
  BY <1>1, <1>2, <1>4, <1>5, <1>6, NotSaving, Zenon DEF Saving
<1>8. ReloadedIn(n)'
  <2>1. SUFFICES ASSUME ~hist.astray[n] PROVE (AloneIn(n) /\ MetricsIn(n) /\ NameIn(n) /\ BackdoorIn(n))'
    BY <1>5, Zenon DEF ReloadedIn
  <2>2. /\ AloneIn(n) /\ MetricsIn(n) /\ NameIn(n) /\ BackdoorIn(n)
        /\ ~Pending(n, {"metrics_enabled"}, {"flag"}) /\ ~Pending(n, {"node_name"}, {"name"})
    BY <1>1, <2>1, ReloadAlone, Zenon DEF Working, Saving
  <2>3. \A u \in Tasks \ {t} : task'[n][u] = task[n][u]
    BY <1>4, Zenon DEF TaskBecomes
  <2>4. AloneIn(n)'
    BY <1>1, <1>2, <1>4, <1>5, <2>2, <2>3 DEF AloneIn, Working, Saving
  <2>5. Pending(n, {"backdoor_ip", "backdoor_port"}, {"ip", "rebind"})
          => Pending(n, {"backdoor_ip", "backdoor_port"}, {"ip", "rebind"})'
    BY <1>1, <1>2, <1>4, <2>3 DEF Pending
  <2> QED
    BY <1>5, <2>2, <2>4, <2>5, Zenon DEF MetricsIn, NameIn, BackdoorIn, BackdoorAddress
<1> QED
  BY <1>5, <1>7, <1>8, TaskOnlyKeeps, Zenon DEF NodeInv

\* Asking the backdoor to rebind keeps what is known of its node: the address sent was read
\* in two steps, and agrees with the memory when no other update ran in between.
LEMMA AskRebindNode ==
  ASSUME Shape, NEW n \in Nodes, NodeInv(n), NEW t \in Tasks, AskRebind(n, t)
  PROVE  Shape' /\ NodeInv(n)' /\ \A m \in Nodes \ {n} : NodeKept(m)
<1> DEFINE addr == <<task[n][t].ip, mem[n]["backdoor_port"]>>
<1>1. /\ task[n][t].pc = "rebind" /\ task[n][t].key \in {"backdoor_ip", "backdoor_port"}
      /\ DOMAIN hot[n] = DOMAIN Off
  BY Zenon DEF AskRebind, NodeInv, TaskIn, TaskSound, MemoryIn
<1>2. /\ DOMAIN hot' = Nodes /\ \A m \in Nodes \ {n} : hot'[m] = hot[m]
      /\ hot'[n] = [hot[n] EXCEPT !.asked = addr, !.changed = TRUE]
  BY Zenon DEF AskRebind, Shape
<1>a. addr = <<task[n][t].ip, mem[n]["backdoor_port"]>>
  BY Zenon
<1> HIDE DEF addr
<1>3. /\ DOMAIN hot'[n] = DOMAIN Off /\ hot'[n].metrics = hot[n].metrics
      /\ hot'[n].cluster = hot[n].cluster /\ hot'[n].name = hot[n].name
      /\ hot'[n].changed = TRUE /\ hot'[n].asked = addr
  BY <1>1, <1>2, Zenon DEF Off
<1>4. /\ TaskOnly(n, t) /\ TaskSound(task'[n][t]) /\ task'[n][t].pc \notin Working
      /\ Shape' /\ \A m \in Nodes \ {n} : NodeKept(m)
  BY <1>1, <1>2, ReloadGoto DEF AskRebind, Working, Saving
<1>5. ASSUME ~hist.astray[n] PROVE (MetricsIn(n) /\ NameIn(n) /\ BackdoorIn(n))'
  <2>1. /\ MetricsIn(n) /\ NameIn(n) /\ AloneIn(n)
        /\ ~Pending(n, {"metrics_enabled"}, {"flag"}) /\ ~Pending(n, {"node_name"}, {"name"})
    BY <1>1, <1>5, ReloadAlone, Zenon DEF Working, Saving
  <2>2. addr = BackdoorAddress(n)
    BY <1>1, <1>a, <2>1, Zenon DEF AloneIn, BackdoorAddress
  <2>3. mem' = mem /\ hist' = hist
    BY Zenon DEF AskRebind
  <2>4. BackdoorIn(n)'
    BY <1>3, <2>2, <2>3, Zenon DEF BackdoorIn, BackdoorAddress
  <2> QED
    BY <1>3, <2>1, <2>3, <2>4, Zenon DEF MetricsIn, NameIn
<1> QED
  BY <1>1, <1>3, <1>4, <1>5, ReloadStep, ReloadAlone, Zenon DEF AskRebind, Working, Saving

\* The backdoor binds what it was last asked for, or stays astray.
LEMMA RebindNode ==
  ASSUME Shape, NEW n \in Nodes, NodeInv(n), Rebind(n)
  PROVE  Shape' /\ NodeInv(n)' /\ \A m \in Nodes \ {n} : NodeKept(m)
<1>1. /\ DOMAIN hot[n] = DOMAIN Off /\ hot[n].changed /\ UNCHANGED <<status, mem, file, task, starts>>
  BY Zenon DEF Rebind, NodeInv, MemoryIn
<1>2. CASE hot' = [hot EXCEPT ![n].changed = FALSE, ![n].bound = hot[n].asked] /\ UNCHANGED hist
  <2>1. /\ DOMAIN hot' = Nodes /\ \A m \in Nodes \ {n} : hot'[m] = hot[m]
        /\ hot'[n] = [hot[n] EXCEPT !.changed = FALSE, !.bound = hot[n].asked]
    BY <1>2, Zenon DEF Shape
  <2>2. /\ DOMAIN hot'[n] = DOMAIN Off /\ hot'[n].metrics = hot[n].metrics
        /\ hot'[n].cluster = hot[n].cluster /\ hot'[n].name = hot[n].name
        /\ ~hot'[n].changed /\ hot'[n].bound = hot[n].asked
    BY <1>1, <2>1 DEF Off
  <2>3. Shape' /\ \A m \in Nodes \ {n} : NodeKept(m)
    BY <1>1, <1>2, <2>1, Zenon DEF Shape, NodeKept
  <2>4. MemoryIn(n)' /\ FileIn(n)' /\ TaskIn(n)' /\ IdentityIn(n)' /\ SavedIn(n)'
    BY <1>1, <1>2, <2>2, Zenon DEF NodeInv, MemoryIn, FileIn, TaskIn, IdentityIn, SavedIn, Saved, OnItsWay
  <2>5. ReloadedIn(n)'
    BY <1>1, <1>2, <2>2, Zenon
       DEF NodeInv, ReloadedIn, AloneIn, MetricsIn, NameIn, BackdoorIn, BackdoorAddress, Pending
  <2> QED
    BY <2>3, <2>4, <2>5, Zenon DEF NodeInv
<1>3. CASE /\ hot' = [hot EXCEPT ![n].changed = FALSE]
           /\ \E k : hist' = [hist EXCEPT !.astray[n] = TRUE, !.faults = k]
  <2>1. /\ DOMAIN hot' = Nodes /\ \A m \in Nodes \ {n} : hot'[m] = hot[m]
        /\ hot'[n] = [hot[n] EXCEPT !.changed = FALSE]
    BY <1>3, Zenon DEF Shape
  <2>2. DOMAIN hot'[n] = DOMAIN Off
    BY <1>1, <2>1, Zenon
  <2>3. /\ DOMAIN hist' = DOMAIN hist /\ hist'.id = hist.id /\ hist'.torn = hist.torn
        /\ hist'.remote = hist.remote /\ hist'.stale = hist.stale
        /\ hist'.astray = [hist.astray EXCEPT ![n] = TRUE]
    BY <1>3, Zenon DEF Shape
  <2>4. /\ DOMAIN hist'.astray = Nodes /\ hist'.astray[n] = TRUE
        /\ \A m \in Nodes \ {n} : hist'.astray[m] = hist.astray[m]
    BY <2>3, Zenon DEF Shape
  <2>5. Shape' /\ \A m \in Nodes \ {n} : NodeKept(m)
    BY <1>1, <2>1, <2>3, <2>4, Zenon DEF Shape, NodeKept
  <2>6. MemoryIn(n)' /\ FileIn(n)' /\ TaskIn(n)' /\ IdentityIn(n)' /\ SavedIn(n)'
    BY <1>1, <2>2, <2>3, Zenon DEF NodeInv, MemoryIn, FileIn, TaskIn, IdentityIn, SavedIn, Saved, OnItsWay
  <2> QED
    BY <2>4, <2>5, <2>6, Zenon DEF NodeInv, ReloadedIn
<1> QED
  BY <1>2, <1>3, Zenon DEF Rebind

\* A node that has started did not start 0 times.
LEMMA Started ==
  ASSUME NEW k \in Nat, k > 0
  PROVE  k # 0
  OBVIOUS

\* The end of a process leaves the file, with the node_id in it unless it is empty.
LEMMA EndsNode ==
  ASSUME Shape, NEW n \in Nodes, NodeInv(n), Ends(n), DOMAIN file' = Nodes,
         \A m \in Nodes \ {n} : file'[m] = file[m],
         file'[n] = file[n] \/ (file'[n] = [st |-> "whole", cfg |-> to_file_config(mem[n])]),
         status[n] # "down", DOMAIN hist' = DOMAIN hist, DOMAIN hist'.torn = Nodes,
         \A m \in Nodes \ {n} : hist'.torn[m] = hist.torn[m],
         ~hist'.torn[n] => ~hist.torn[n] /\ file'[n].st # "empty",
         hist'.id = hist.id, hist'.stale = hist.stale, hist'.astray = hist.astray,
         hist'.remote = hist.remote
  PROVE  Shape' /\ NodeInv(n)' /\ \A m \in Nodes \ {n} : NodeKept(m)
<1>1. /\ DOMAIN status' = Nodes /\ DOMAIN task' = Nodes /\ DOMAIN mem' = Nodes /\ DOMAIN hot' = Nodes
      /\ status'[n] = "down" /\ task'[n] = [t \in Tasks |-> Idle] /\ mem'[n] = <<>> /\ hot'[n] = Off
      /\ \A m \in Nodes \ {n} : /\ status'[m] = status[m] /\ task'[m] = task[m] /\ mem'[m] = mem[m]
                                /\ hot'[m] = hot[m]
      /\ starts' = starts
  BY Zenon DEF Ends, Shape
<1>2. Shape' /\ \A m \in Nodes \ {n} : NodeKept(m)
  BY <1>1, Zenon DEF Shape, NodeKept
<1>3. \A t \in Tasks : task'[n][t] = Idle /\ Idle.pc = "idle"
  BY <1>1, Zenon DEF Idle
<1>4. Good(n, mem[n]) /\ starts[n] \in Nat /\ starts[n] > 0 /\ starts[n] # 0
  BY Started, Zenon DEF NodeInv, MemoryIn
<1>5. MemoryIn(n)' /\ TaskIn(n)'
  BY <1>1, <1>3, Zenon DEF NodeInv, MemoryIn, TaskIn, TaskSound, Pcs, Working, Saving
<1>6. FileIn(n)'
  <2>1. Sound(n, to_file_config(mem[n])) /\ FileIn(n) /\ starts'[n] # 0
    BY <1>1, <1>4, FileConfigGood, Zenon DEF NodeInv
  <2>2. \A t \in Tasks : task'[n][t].pc \notin Saving
    BY <1>3, Zenon DEF Saving
  <2>3. file[n].st # "absent"
    BY <1>4, Zenon DEF NodeInv, FileIn
  <2>4. CASE file'[n] = file[n]
    BY <2>1, <2>2, <2>3, <2>4, Zenon DEF FileIn
  <2>5. CASE file'[n] = [st |-> "whole", cfg |-> to_file_config(mem[n])]
    <3>1. file'[n].st = "whole" /\ file'[n].cfg = to_file_config(mem[n])
      BY <2>5
    <3> QED
      BY <2>1, <2>2, <3>1, Zenon DEF FileIn
  <2> QED
    BY <2>4, <2>5, Zenon
<1>7. IdentityIn(n)'
  <2>1. SUFFICES ASSUME ~hist.torn[n], file'[n].st # "empty"
                 PROVE  /\ IsUuid(hist.id[n])
                        /\ file'[n].st \in {"whole", "mixed"}
                        /\ file'[n].st = "whole" => Carries(file'[n].cfg, hist.id[n])
    BY <1>1, <1>3, Zenon DEF IdentityIn, Saving
  <2>2. /\ IsUuid(hist.id[n]) /\ Carries(mem[n], hist.id[n])
        /\ file[n].st = "whole" => Carries(file[n].cfg, hist.id[n])
    BY <1>4, <2>1, Zenon DEF NodeInv, IdentityIn
  <2>3. Carries(to_file_config(mem[n]), hist.id[n])
    BY <1>4, <2>2, FileConfigGood, Zenon
  <2>4. file[n].st \in {"empty", "whole", "mixed"}
    BY <1>4, Zenon DEF NodeInv, FileIn
  <2>5. CASE file'[n] = [st |-> "whole", cfg |-> to_file_config(mem[n])]
    <3>1. file'[n].st = "whole" /\ file'[n].cfg = to_file_config(mem[n])
      BY <2>5
    <3> QED
      BY <2>2, <2>3, <3>1, Zenon
  <2> QED
    BY <2>1, <2>2, <2>4, <2>5, Zenon
<1> QED
  BY <1>1, <1>2, <1>5, <1>6, <1>7, Zenon DEF NodeInv, SavedIn, ReloadedIn

\* A node that refuses to start, crashes or exits keeps what is known of it: the memory goes,
\* the file stays, and a file cut off in the middle of a save is recorded as torn.
LEMMA StopNode ==
  ASSUME Shape, NEW n \in Nodes, NodeInv(n), Refuse(n) \/ Crash(n) \/ Exit(n)
  PROVE  Shape' /\ NodeInv(n)' /\ \A m \in Nodes \ {n} : NodeKept(m)
<1>1. Ends(n) /\ status[n] # "down"
  BY Zenon DEF Refuse, Saves, Crash, Exit, Up
<1>2. CASE Refuse(n)
  <2>1. /\ DOMAIN file' = Nodes /\ \A m \in Nodes \ {n} : file'[m] = file[m]
        /\ file'[n] = [st |-> "whole", cfg |-> to_file_config(mem[n])] /\ hist' = hist
    BY <1>2, Zenon DEF Refuse, Saves, Shape
  <2>2. ~hist'.torn[n] => ~hist.torn[n] /\ file'[n].st # "empty"
    BY <2>1
  <2> QED
    BY <1>1, <2>1, <2>2, EndsNode, Zenon DEF Shape
<1>3. CASE Crash(n) \/ Exit(n)
  <2>1. /\ file' = file
        /\ \/ hist' = [hist EXCEPT !.torn[n] = @ \/ file[n].st = "empty", !.promised = <<>>, !.faults = @ + 1]
           \/ hist' = [hist EXCEPT !.torn[n] = @ \/ file[n].st = "empty", !.promised = <<>>]
    BY <1>3, Zenon DEF Crash, Exit
  <2>2. /\ DOMAIN hist' = DOMAIN hist /\ hist'.id = hist.id /\ hist'.stale = hist.stale
        /\ hist'.astray = hist.astray /\ hist'.remote = hist.remote
        /\ hist'.torn = [hist.torn EXCEPT ![n] = @ \/ file[n].st = "empty"]
    BY <2>1, Zenon DEF Shape
  <2>3. /\ DOMAIN hist'.torn = Nodes /\ \A m \in Nodes \ {n} : hist'.torn[m] = hist.torn[m]
        /\ ~hist'.torn[n] => ~hist.torn[n] /\ file'[n].st # "empty"
    BY <2>1, <2>2, Zenon DEF Shape
  <2> QED
    BY <1>1, <2>1, <2>2, <2>3, EndsNode, Zenon DEF Shape
<1> QED
  BY <1>2, <1>3, Zenon

\* A start reads the node_id of the file, and on the first one gives the node its id.
LEMMA ResolveNode ==
  ASSUME Shape, NEW n \in Nodes, NodeInv(n), Resolve(n)
  PROVE  Shape' /\ NodeInv(n)' /\ \A m \in Nodes \ {n} : NodeKept(m)
<1> DEFINE id == Uuid[n][starts[n] + 1]
<1>0. PICK cli \in Cli[n] : \E c \in Resolved(file[n], id, cli) :
        /\ mem' = [mem EXCEPT ![n] = c]
        /\ hist' = [hist EXCEPT !.id[n] = IF starts[n] = 0 THEN c["node_id"] ELSE @]
  BY Zenon DEF Resolve
<1>1. PICK c \in Resolved(file[n], id, cli) :
        /\ mem' = [mem EXCEPT ![n] = c]
        /\ hist' = [hist EXCEPT !.id[n] = IF starts[n] = 0 THEN c["node_id"] ELSE @]
  BY <1>0, Zenon
<1>2. /\ status[n] = "down" /\ starts[n] < MaxStarts[n] /\ starts[n] \in Nat
      /\ file' = [file EXCEPT ![n] = [st |-> "empty", cfg |-> <<>>]]
      /\ status' = [status EXCEPT ![n] = "boot"]
      /\ starts' = [starts EXCEPT ![n] = @ + 1] /\ UNCHANGED <<hot, task>>
  BY Zenon DEF Resolve, NodeInv, MemoryIn
<1>3. IsUuid(id)
  <2>1. starts[n] + 1 \in 1..MaxStarts[n]
    <3>1. MaxStarts[n] \in Nat
      BY TextAssumption, Zenon
    <3> QED
      BY <1>2, <3>1
  <2> QED
    BY <2>1, TextAssumption, Zenon DEF IsUuid
<1> HIDE DEF id
<1>4. /\ Good(n, c) /\ file[n].st # "mixed"
      /\ file[n].st = "whole" => \A i : Carries(file[n].cfg, i) /\ IsUuid(i) => c["node_id"] = i
  BY <1>3, ResolvedGood DEF NodeInv, FileIn
<1>5. /\ DOMAIN mem' = Nodes /\ DOMAIN file' = Nodes /\ DOMAIN status' = Nodes /\ DOMAIN starts' = Nodes
      /\ mem'[n] = c /\ file'[n].st = "empty" /\ status'[n] = "boot" /\ starts'[n] = starts[n] + 1
      /\ \A m \in Nodes \ {n} : /\ mem'[m] = mem[m] /\ file'[m] = file[m] /\ status'[m] = status[m]
                                /\ starts'[m] = starts[m]
  BY <1>1, <1>2, Zenon DEF Shape
<1>6. /\ DOMAIN hist' = DOMAIN hist /\ hist'.torn = hist.torn /\ hist'.stale = hist.stale
      /\ hist'.astray = hist.astray /\ hist'.remote = hist.remote
      /\ hist'.id = [hist.id EXCEPT ![n] = IF starts[n] = 0 THEN c["node_id"] ELSE @]
  BY <1>1, Zenon DEF Shape
<1>7. /\ DOMAIN hist'.id = Nodes /\ \A m \in Nodes \ {n} : hist'.id[m] = hist.id[m]
      /\ hist'.id[n] = IF starts[n] = 0 THEN c["node_id"] ELSE hist.id[n]
  BY <1>6, Zenon DEF Shape
<1>8. Shape' /\ \A m \in Nodes \ {n} : NodeKept(m)
  BY <1>2, <1>5, <1>6, <1>7, Zenon DEF Shape, NodeKept
<1>t. TaskIn(n)
  BY Zenon DEF NodeInv
<1>9. \A t \in Tasks : task'[n][t].pc = "idle"
  <2>1. task' = task /\ status[n] = "down" /\ "down" # "up"
    BY ONLY <1>2, Zenon
  <2>2. \A t \in Tasks : task[n][t].pc # "idle" => status[n] = "up"
    BY ONLY <1>t, Zenon DEF TaskIn
  <2> QED
    BY ONLY <2>1, <2>2, Zenon
<1>10. MemoryIn(n)' /\ FileIn(n)'
  BY <1>2, <1>4, <1>5, <1>9 DEF NodeInv, MemoryIn, FileIn, Saving
<1>11. TaskIn(n)'
  BY ONLY <1>2, <1>9, <1>t, Zenon DEF TaskIn
<1>12. IdentityIn(n)'
  <2>1. SUFFICES ASSUME ~hist.torn[n] PROVE IsUuid(hist'.id[n]) /\ Carries(c, hist'.id[n])
    BY <1>5, <1>6, <1>9, Zenon DEF IdentityIn, Saving
  <2>2. "node_id" \in DOMAIN c /\ IsUuid(c["node_id"])
    BY <1>4, Zenon DEF Good, Fields, Keys
  <2>3. CASE starts[n] = 0
    BY <1>4, <1>7, <2>2, <2>3, Zenon DEF Carries
  <2>4. CASE starts[n] > 0
    <3>1. IsUuid(hist.id[n]) /\ Carries(file[n].cfg, hist.id[n]) /\ file[n].st = "whole"
      BY <1>2, <1>4, <2>1, <2>4, Zenon DEF NodeInv, IdentityIn
    <3> QED
      BY <1>4, <1>7, <2>2, <2>4, <3>1, Zenon DEF Carries
  <2> QED
    BY <1>2, <2>3, <2>4
<1> QED
  BY <1>5, <1>8, <1>10, <1>11, <1>12, Zenon DEF NodeInv, SavedIn, ReloadedIn

\* The end of the start: the file is written and the parts are set up from the memory.
LEMMA BootNode ==
  ASSUME Shape, NEW n \in Nodes, NodeInv(n), Boot(n)
  PROVE  Shape' /\ NodeInv(n)' /\ \A m \in Nodes \ {n} : NodeKept(m)
<1> DEFINE c == mem[n]
<1>1. /\ status[n] = "boot" /\ status' = [status EXCEPT ![n] = "up"]
      /\ file' = [file EXCEPT ![n] = [st |-> "whole", cfg |-> to_file_config(c)]]
      /\ hist' = [hist EXCEPT !.stale[n] = FALSE, !.astray[n] = FALSE, !.remote[n] = {}]
      /\ UNCHANGED <<mem, task, starts>>
  BY Zenon DEF Boot, Saves
<1>2. hot' = [hot EXCEPT ![n] =
          [cluster |-> c["cluster_enabled"] = "true", rpc |-> c["rpc_enabled"] = "true",
           metrics |-> c["metrics_enabled"] = "true", asked |-> BackdoorAddress(n),
           bound |-> BackdoorAddress(n), changed |-> FALSE,
           name |-> IF c["node_name"] = "" THEN "hostname" ELSE c["node_name"]]]
  BY Zenon DEF Boot, BackdoorAddress
<1>3. /\ DOMAIN hot' = Nodes /\ \A m \in Nodes \ {n} : hot'[m] = hot[m]
      /\ DOMAIN hot'[n] = DOMAIN Off /\ hot'[n].metrics = (c["metrics_enabled"] = "true")
      /\ hot'[n].bound = BackdoorAddress(n) /\ ~hot'[n].changed
      /\ c["node_name"] # "" => hot'[n].name = c["node_name"]
  BY <1>2, Zenon DEF Shape, Off
<1>4. /\ DOMAIN file' = Nodes /\ DOMAIN status' = Nodes /\ status'[n] = "up"
      /\ file'[n] = [st |-> "whole", cfg |-> to_file_config(c)]
      /\ \A m \in Nodes \ {n} : file'[m] = file[m] /\ status'[m] = status[m]
  BY <1>1, Zenon DEF Shape
<1>5. /\ DOMAIN hist' = DOMAIN hist /\ hist'.id = hist.id /\ hist'.torn = hist.torn
      /\ hist'.stale = [hist.stale EXCEPT ![n] = FALSE]
      /\ hist'.astray = [hist.astray EXCEPT ![n] = FALSE]
      /\ hist'.remote = [hist.remote EXCEPT ![n] = {}]
  BY <1>1, Zenon DEF Shape
<1>6. Shape' /\ \A m \in Nodes \ {n} : NodeKept(m)
  BY <1>1, <1>3, <1>4, <1>5, Zenon DEF Shape, NodeKept
<1>7. Good(n, c) /\ \A t \in Tasks : task'[n][t] = task[n][t] /\ task[n][t].pc = "idle"
  BY <1>1, Zenon DEF NodeInv, MemoryIn, TaskIn
<1>8. MemoryIn(n)' /\ FileIn(n)' /\ TaskIn(n)'
  BY <1>1, <1>3, <1>4, <1>7, FileConfigGood, Zenon DEF NodeInv, MemoryIn, FileIn, TaskIn, Saving
<1>9. IdentityIn(n)'
  BY <1>1, <1>4, <1>5, <1>7, FileConfigGood, Zenon DEF NodeInv, IdentityIn, Saving
<1>10. SavedIn(n)'
  BY <1>1, <1>4, <1>7, Zenon DEF SavedIn, Saved, Saving
<1>11. ReloadedIn(n)'
  <2>1. AloneIn(n)'
    BY <1>7, Zenon DEF AloneIn, Working, Saving
  <2> QED
    BY <1>1, <1>3, <2>1, Zenon DEF ReloadedIn, MetricsIn, NameIn, BackdoorIn, BackdoorAddress
<1> QED
  BY <1>6, <1>8, <1>9, <1>10, <1>11, Zenon DEF NodeInv

\* broadcast_config_update only ends its task.
LEMMA BroadcastNode ==
  ASSUME Shape, NEW n \in Nodes, NodeInv(n), NEW t \in Tasks, Broadcast(n, t)
  PROVE  Shape' /\ NodeInv(n)' /\ \A m \in Nodes \ {n} : NodeKept(m)
<1>1. /\ DOMAIN task[n] = Tasks /\ DOMAIN task = Nodes /\ task[n][t].pc = "broadcast" /\ status[n] = "up"
      /\ task' = [task EXCEPT ![n][t] = Idle] /\ UNCHANGED <<status, mem, file, hot, starts>>
  BY Zenon DEF NodeInv, MemoryIn, TaskIn, Shape, Broadcast
<1>2. TaskBecomes(n, t, Idle) /\ task'[n][t] = Idle
  BY <1>1, TaskAt, Zenon DEF TaskBecomes
<1>3. HistKept
  <2>1. \E x : hist' = [hist EXCEPT !.promised = x]
    BY Zenon DEF Broadcast
  <2> QED
    BY <2>1, Zenon DEF HistKept, Shape
<1>4. TaskOnly(n, t)
  BY <1>1, <1>2, <1>3, Zenon DEF TaskOnly, Shape
<1>5. TaskSound(Idle) /\ Idle.pc \notin Working
  BY Zenon DEF TaskSound, Idle, Pcs, Working, Saving
<1> QED
  BY <1>1, <1>2, <1>4, <1>5, TaskOnlyKeeps, NotWorking, Zenon DEF Working, Saving

\* A join request keeps what is known of its node: it changes no setting before it is answered.
LEMMA JoinNode ==
  ASSUME Shape, NEW n \in Nodes, NodeInv(n), NEW t \in Tasks, NEW seed, Join(n, t, seed)
  PROVE  Shape' /\ NodeInv(n)' /\ \A m \in Nodes \ {n} : NodeKept(m)
<1> DEFINE me == [Idle EXCEPT !.pc = "seeds", !.ip = Address[seed], !.text = mem[n]["cluster_seeds"]]
<1>1. /\ DOMAIN task[n] = Tasks /\ DOMAIN task = Nodes /\ task[n][t].pc = "idle" /\ status[n] = "up"
      /\ task' = [task EXCEPT ![n][t] = me] /\ UNCHANGED <<status, mem, file, hot, starts>>
  BY Zenon DEF NodeInv, MemoryIn, Shape, Join, Clustered, Up
<1>2. DOMAIN me = DOMAIN Idle /\ me.pc = "seeds"
  BY Zenon DEF Idle
<1> HIDE DEF me
<1>3. TaskBecomes(n, t, me) /\ task'[n][t] = me
  BY <1>1, TaskAt, Zenon DEF TaskBecomes
<1>4. HistKept
  BY Zenon DEF HistKept, Shape, Join
<1>5. TaskOnly(n, t)
  BY <1>1, <1>3, <1>4, Zenon DEF TaskOnly, Shape
<1>6. TaskSound(me) /\ me.pc \notin Working
  BY <1>2, Zenon DEF TaskSound, Pcs, Working, Saving
<1> QED
  BY <1>1, <1>3, <1>5, <1>6, TaskOnlyKeeps, NotWorking, Zenon DEF Working, Saving

-----------------------------------------------------------------------------
(* Messages and promises *)

IsUpdate(m) == m.type = "CONFIG_UPDATE"

\* Promises hold as long as the nodes, the settings and the updates in flight are the same.
LEMMA PromisesKept ==
  ASSUME PromisedInv,
         DOMAIN hist'.promised # {} => Clustered' = Clustered,
         \A k \in DOMAIN hist'.promised : /\ k \in DOMAIN hist.promised
                                          /\ hist'.promised[k] = hist.promised[k]
                                          /\ \A n \in Nodes : mem'[n][k] = mem[n][k],
         \A m \in net' : IsUpdate(m) => m \in net, \A m \in net : IsUpdate(m) => m \in net'
  PROVE  PromisedInv'
<1>1. ASSUME NEW k \in DOMAIN hist'.promised PROVE PromisedIn(k)'
  <2>1. PromisedIn(k)
    BY Zenon DEF PromisedInv
  <2>2. /\ k \in EditKeys
        /\ \A m \in net' : m.type = "CONFIG_UPDATE" /\ m.key = k => m.text = hist'.promised[k]
    BY <2>1, Zenon DEF PromisedIn, IsUpdate
  <2>3. ASSUME NEW n \in Nodes
        PROVE  \/ Validated(k, hist'.promised[k]) = {mem'[n][k]}
               \/ \E m \in net' : m.type = "CONFIG_UPDATE" /\ m.to = n /\ m.key = k
    BY <2>1, Zenon DEF PromisedIn, IsUpdate
  <2> QED
    BY <2>2, <2>3, Zenon DEF PromisedIn
<1> QED
  BY <1>1, Zenon DEF PromisedInv

\* There is no promise while a node is not up.
LEMMA NoPromise ==
  ASSUME PromisedInv, NEW n \in Nodes, status[n] # "up"
  PROVE  DOMAIN hist.promised = {}
  BY Zenon DEF PromisedInv, Clustered, Up

\* An update on behalf of an administrator or of a join withdraws the promise of its key.
LEMMA UpdateWithdraws ==
  ASSUME Inv, NEW n \in Nodes, NEW t \in Tasks,
         NEW op, NEW key, NEW text, NEW v, op # "peer",
         Update(n, t, op, key, text, v), UNCHANGED <<status, hot>>,
         \A m \in net' : IsUpdate(m) => m \in net, \A m \in net : IsUpdate(m) => m \in net'
  PROVE  PromisedInv'
<1>1. UpdateEffect(n, t, op, key, text, v)
  BY UpdateEffects, Zenon DEF Inv, NodeInv, MemoryIn
<1>2. /\ mem'[n] = [mem[n] EXCEPT ![key] = v] /\ \A m \in Nodes \ {n} : mem'[m] = mem[m]
      /\ hist'.promised = Restrict(hist.promised, DOMAIN hist.promised \ {key})
  BY <1>1, Zenon DEF UpdateEffect
<1>3. \A k \in DOMAIN hist'.promised :
        k \in DOMAIN hist.promised /\ k # key /\ hist'.promised[k] = hist.promised[k]
  BY <1>2, Zenon DEF Restrict
<1>4. \A k \in DOMAIN hist'.promised : k \in DOMAIN mem[n]
  <2>1. ASSUME NEW k \in DOMAIN hist'.promised PROVE k \in DOMAIN mem[n]
    <3>1. k \in EditKeys /\ status[n] = "up"
      BY <1>3, <2>1 DEF Inv, PromisedInv, PromisedIn, Clustered, Up
    <3> QED
      BY <3>1, Zenon DEF Inv, NodeInv, MemoryIn, Good, Fields, EditKeys, Keys
  <2> QED
    BY <2>1, Zenon
<1>5. \A k \in DOMAIN hist'.promised, m \in Nodes : mem'[m][k] = mem[m][k]
  BY <1>2, <1>3, <1>4, Zenon
<1>6. Clustered' = Clustered
  BY Zenon DEF Clustered, Up
<1> QED
  BY <1>3, <1>5, <1>6, PromisesKept, Zenon DEF Inv

\* CONFIG_UPDATE at a peer brings the promised value into its memory.
LEMMA ServerUpdatePromises ==
  ASSUME Inv, NEW n \in Nodes, NEW m, ServerUpdate(n, m)
  PROVE  PromisedInv'
<1>1. PICK v \in Validated(m.key, m.text) : Update(n, Server, "peer", m.key, m.text, v)
  BY DEF ServerUpdate
<1>2. /\ m \in net /\ m.to = n /\ m.type = "CONFIG_UPDATE" /\ net' = net \ {m} /\ Server \in Tasks
      /\ status' = status /\ hot' = hot /\ status[n] = "up" /\ m.key \in EditKeys
  <2>1. /\ m \in net /\ m.to = n /\ m.type = "CONFIG_UPDATE" /\ net' = net \ {m}
        /\ status' = status /\ hot' = hot /\ n \in Clustered
    BY DEF ServerUpdate, Receives
  <2>2. Server \in Tasks
    BY TasksOf, Zenon
  <2>4. status[n] = "up"
    BY <2>1, Zenon DEF Clustered, Up
  <2>3. m.key \in EditKeys
    BY <2>1, Zenon DEF Inv, NetGood
  <2> QED
    BY <2>1, <2>2, <2>3, <2>4, Zenon
<1>3. UpdateEffect(n, Server, "peer", m.key, m.text, v)
  BY <1>1, <1>2, UpdateEffects, Zenon DEF Inv, NodeInv, MemoryIn
<1>4. /\ mem'[n] = [mem[n] EXCEPT ![m.key] = v] /\ \A p \in Nodes \ {n} : mem'[p] = mem[p]
      /\ hist'.promised = hist.promised
  BY <1>3, Zenon DEF UpdateEffect
<1>5. Validated(m.key, m.text) = {v}
  BY ValidatedOnce, Zenon
<1>6. \A k \in EditKeys : mem'[n][k] = IF k = m.key THEN v ELSE mem[n][k]
  BY <1>2, <1>4, Zenon DEF Inv, NodeInv, MemoryIn, Good, Fields, EditKeys, Keys
<1>7. ASSUME NEW k \in DOMAIN hist.promised PROVE PromisedIn(k)'
  <2>1. PromisedIn(k)
    BY DEF Inv, PromisedInv
  <2>2. /\ k \in EditKeys
        /\ \A w \in net' : w.type = "CONFIG_UPDATE" /\ w.key = k => w.text = hist.promised[k]
    BY <1>2, <2>1, Zenon DEF PromisedIn
  <2>3. ASSUME NEW p \in Nodes
        PROVE  \/ Validated(k, hist.promised[k]) = {mem'[p][k]}
               \/ \E w \in net' : w.type = "CONFIG_UPDATE" /\ w.to = p /\ w.key = k
    <3>1. CASE p = n /\ k = m.key
      BY <1>2, <1>5, <1>6, <2>1, <2>2, <3>1, Zenon DEF PromisedIn
    <3>2. CASE ~(p = n /\ k = m.key)
      <4>1. mem'[p][k] = mem[p][k]
        BY <1>4, <1>6, <2>2, <3>2, Zenon
      <4> QED
        BY <1>2, <2>1, <3>2, <4>1, Zenon DEF PromisedIn
    <3> QED
      BY <3>1, <3>2, Zenon
  <2> QED
    BY <1>4, <2>2, <2>3, Zenon DEF PromisedIn
<1>8. Clustered' = Clustered
  BY <1>2, Zenon DEF Clustered, Up
<1> QED
  BY <1>4, <1>7, <1>8, Zenon DEF Inv, PromisedInv

\* broadcast_config_update makes a promise when nothing else of its key is in flight and the
\* memory still holds the value, and withdraws it otherwise.
LEMMA BroadcastPromises ==
  ASSUME Inv, NEW n \in Nodes, NEW t \in Tasks, Broadcast(n, t)
  PROVE  PromisedInv' /\ NetGood'
<1> DEFINE me == task[n][t]
           new == {[type |-> "CONFIG_UPDATE", from |-> n, to |-> p, key |-> me.key,
                    text |-> me.text, id |-> hist.ops] : p \in Nodes \ {n}}
           alone == /\ Clustered = Nodes /\ Validated(me.key, me.text) = {mem[n][me.key]}
                    /\ \A m \in net : m.type = "CONFIG_UPDATE" => m.key # me.key
<1>1. /\ net' = (IF ~hot[n].cluster THEN net ELSE net \cup new)
      /\ hist' = [hist EXCEPT !.promised =
                   IF alone THEN Overriding(@, [k \in {me.key} |-> me.text])
                   ELSE Restrict(@, DOMAIN @ \ {me.key})]
      /\ UNCHANGED <<status, mem, hot>>
  BY Zenon DEF Broadcast
<1>2. me.key \in EditKeys
  BY Zenon DEF Broadcast, Inv, NodeInv, TaskIn, TaskSound
<1>3. \A m \in new : /\ m.type = "CONFIG_UPDATE" /\ m.key = me.key /\ m.text = me.text
  OBVIOUS
<1>4. ASSUME NEW p \in Nodes \ {n}
      PROVE  \E m \in new : m.type = "CONFIG_UPDATE" /\ m.to = p /\ m.key = me.key
  <2> DEFINE x == [type |-> "CONFIG_UPDATE", from |-> n, to |-> p, key |-> me.key,
                   text |-> me.text, id |-> hist.ops]
  <2>1. x \in new /\ x.type = "CONFIG_UPDATE" /\ x.to = p /\ x.key = me.key
    BY Zenon
  <2> QED
    BY <2>1, Zenon
<1> HIDE DEF new
<1>5. NetGood'
  BY <1>1, <1>2, <1>3, Zenon DEF Inv, NetGood
<1>6. Clustered' = Clustered
  BY <1>1, Zenon DEF Clustered, Up
<1>7. hist'.promised = IF alone THEN Overriding(hist.promised, [k \in {me.key} |-> me.text])
                       ELSE Restrict(hist.promised, DOMAIN hist.promised \ {me.key})
  BY <1>1, Zenon DEF Inv, Shape
<1>8. ASSUME NEW k \in DOMAIN hist.promised, k # me.key, hist'.promised[k] = hist.promised[k]
      PROVE  PromisedIn(k)'
  <2>1. PromisedIn(k)
    BY Zenon DEF Inv, PromisedInv
  <2>2. /\ k \in EditKeys
        /\ \A m \in net' : m.type = "CONFIG_UPDATE" /\ m.key = k => m.text = hist'.promised[k]
    BY <1>1, <1>3, <1>8, <2>1, Zenon DEF PromisedIn
  <2>3. ASSUME NEW p \in Nodes
        PROVE  \/ Validated(k, hist'.promised[k]) = {mem'[p][k]}
               \/ \E m \in net' : m.type = "CONFIG_UPDATE" /\ m.to = p /\ m.key = k
    BY <1>1, <1>8, <2>1, Zenon DEF PromisedIn
  <2> QED
    BY <2>2, <2>3, Zenon DEF PromisedIn
<1>9. CASE alone
  <2>1. /\ DOMAIN hist'.promised = DOMAIN hist.promised \cup {me.key}
        /\ hist'.promised[me.key] = me.text
        /\ \A k \in DOMAIN hist.promised : k # me.key => hist'.promised[k] = hist.promised[k]
    BY <1>7, <1>9, Zenon DEF Overriding
  <2>2. hot[n].cluster /\ net' = net \cup new
    BY <1>1, <1>9, Zenon DEF Clustered
  <2>3. ASSUME NEW k, k = me.key PROVE PromisedIn(k)'
    <3>1. \A m \in net' : m.type = "CONFIG_UPDATE" /\ m.key = k => m.text = hist'.promised[k]
      BY <1>3, <1>9, <2>1, <2>2, <2>3, Zenon
    <3>2. Validated(k, hist'.promised[k]) = {mem'[n][k]}
      BY <1>1, <1>9, <2>1, <2>3, Zenon
    <3>3. \A p \in Nodes \ {n} : \E m \in net' : m.type = "CONFIG_UPDATE" /\ m.to = p /\ m.key = k
      BY <1>4, <2>2, <2>3, Zenon
    <3> QED
      BY <1>2, <2>3, <3>1, <3>2, <3>3, Zenon DEF PromisedIn
  <2>4. Clustered = Nodes
    BY <1>9, Zenon
  <2>5. \A k \in DOMAIN hist'.promised : PromisedIn(k)'
    BY <1>8, <2>1, <2>3, Zenon
  <2> QED
    BY <1>5, <1>6, <2>4, <2>5, Zenon DEF PromisedInv
<1>10. CASE ~alone
  <2>1. \A k \in DOMAIN hist'.promised :
          k \in DOMAIN hist.promised /\ k # me.key /\ hist'.promised[k] = hist.promised[k]
    BY <1>7, <1>10, Zenon DEF Restrict
  <2> QED
    BY <1>5, <1>6, <1>8, <2>1, Zenon DEF Inv, PromisedInv
<1> QED
  BY <1>9, <1>10, Zenon

-----------------------------------------------------------------------------
(* The inductive invariant *)

\* The nodes that a step leaves alone keep what is known of them.
LEMMA OneNode ==
  ASSUME \A m \in Nodes : NodeInv(m), NEW n \in Nodes, NodeInv(n)',
         \A m \in Nodes \ {n} : NodeKept(m)
  PROVE  \A m \in Nodes : NodeInv(m)'
  BY NodeInvKept, Zenon

\* The invariant holds before the first start, whatever files the operator put in place.
LEMMA InvInit == Init => Inv
<1> SUFFICES ASSUME Init PROVE Inv
  OBVIOUS
<1>1. /\ status = [n \in Nodes |-> "down"] /\ mem = [n \in Nodes |-> <<>>]
      /\ hot = [n \in Nodes |-> Off] /\ task = [n \in Nodes |-> [t \in Tasks |-> Idle]]
      /\ net = {} /\ starts = [n \in Nodes |-> 0]
      /\ hist = [id |-> [n \in Nodes |-> ""], torn |-> [n \in Nodes |-> FALSE],
             stale |-> [n \in Nodes |-> FALSE], astray |-> [n \in Nodes |-> FALSE],
             remote |-> [n \in Nodes |-> {}],
             promised |-> <<>>, ops |-> 0, faults |-> 0]
  BY Zenon DEF Init
<1>2. PICK f \in [Nodes -> UNION Range(Files)] :
        /\ \A n \in Nodes : f[n] \in Files[n]
        /\ file = [n \in Nodes |-> IF f[n] = NoFile THEN [st |-> "absent", cfg |-> <<>>]
                                   ELSE [st |-> "whole", cfg |-> f[n]]]
  BY Zenon DEF Init
<1>3. Shape
  BY <1>1, <1>2, Zenon DEF Shape
<1>4. Idle.pc = "idle" /\ hist.promised = <<>>
  BY <1>1, Zenon DEF Idle
<1>5. ASSUME NEW n \in Nodes PROVE NodeInv(n)
  <2>1. /\ status[n] = "down" /\ mem[n] = <<>> /\ hot[n] = Off /\ starts[n] = 0
        /\ DOMAIN task[n] = Tasks /\ \A t \in Tasks : task[n][t] = Idle
    BY <1>1, Zenon
  <2>2. file[n] = [st |-> "absent", cfg |-> <<>>] \/ (f[n] # NoFile /\ file[n] = [st |-> "whole", cfg |-> f[n]])
    BY <1>2, Zenon
  <2>3. ASSUME f[n] # NoFile PROVE Sound(n, f[n])
    <3>1. f[n] \in Files[n] \ {NoFile}
      BY <1>2, <2>3, Zenon
    <3> QED
      BY <3>1, InstalledSound, Zenon
  <2>4. FileIn(n)
    BY <1>4, <2>1, <2>2, <2>3 DEF FileIn, Saving
  <2> QED
    BY <1>4, <2>1, <2>4
       DEF NodeInv, MemoryIn, TaskIn, TaskSound, IdentityIn, SavedIn, ReloadedIn, Pcs, Working, Saving
<1> QED
  <2>1. DOMAIN hist.promised = {}
    BY <1>4
  <2>2. net = {}
    BY <1>1, Zenon
  <2> QED
    BY <1>3, <1>5, <2>1, <2>2, Zenon DEF Inv, NetGood, PromisedInv

\* A step that changes neither the status, the memory, the updates in flight nor the promises.
LEMMA PromisesUntouched ==
  ASSUME PromisedInv, NetGood, UNCHANGED <<status, mem>>,
         \A n \in Nodes : hot'[n].cluster = hot[n].cluster,
         hist'.promised = hist.promised,
         \A m \in net' : IsUpdate(m) => m \in net, \A m \in net : IsUpdate(m) => m \in net'
  PROVE  PromisedInv' /\ NetGood'
<1>1. Clustered' = Clustered
  BY Zenon DEF Clustered, Up
<1>2. PromisedInv'
  BY <1>1, PromisesKept, Zenon
<1> QED
  BY <1>2, Zenon DEF NetGood, IsUpdate

\* The steps of a node that starts or stops.
LEMMA LifeStep ==
  ASSUME Inv, NEW n \in Nodes,
         Resolve(n) \/ Refuse(n) \/ Boot(n) \/ Crash(n) \/ Exit(n)
  PROVE  Inv'
<1>1. Shape' /\ NodeInv(n)' /\ \A m \in Nodes \ {n} : NodeKept(m)
  BY ResolveNode, StopNode, BootNode, Zenon DEF Inv
<1>2. \A m \in net' : IsUpdate(m) => m \in net
  <2>1. CASE Boot(n)
    <3>1. PICK ps : net' = net \cup {[type |-> "NODE_JOIN", from |-> n, to |-> p] : p \in ps}
      BY <2>1, Zenon DEF Boot
    <3> QED
      BY <3>1 DEF IsUpdate
  <2>2. CASE ~Boot(n)
    BY <2>2, Zenon DEF Resolve, Refuse, Crash, Exit, Ends
  <2> QED
    BY <2>1, <2>2, Zenon
<1>3. DOMAIN hist'.promised = {}
  <2>1. CASE Resolve(n) \/ Refuse(n) \/ Boot(n)
    <3>1. status[n] # "up"
      BY <2>1, Zenon DEF Resolve, Refuse, Boot, Saves
    <3>2. hist'.promised = hist.promised
      BY <2>1, Zenon DEF Resolve, Refuse, Boot, Inv, Shape
    <3> QED
      BY <3>1, <3>2, NoPromise, Zenon DEF Inv
  <2>2. CASE Crash(n) \/ Exit(n)
    <3>1. hist'.promised = <<>>
      BY <2>2, Zenon DEF Crash, Exit, Inv, Shape
    <3> QED
      BY <3>1
  <2> QED
    BY <2>1, <2>2, Zenon
<1>4. PromisedInv'
  BY <1>3, Zenon DEF PromisedInv
<1>5. NetGood'
  BY <1>2, Zenon DEF Inv, NetGood, IsUpdate
<1> QED
  BY <1>1, <1>4, <1>5, OneNode, Zenon DEF Inv

\* The steps of a task, and of the backdoor.
LEMMA WorkStep ==
  ASSUME Inv, NEW n \in Nodes, NEW t \in Tasks,
         \/ Open(n, t) \/ Write(n, t) \/ WriteFails(n, t) \/ Flag(n, t) \/ Name(n, t)
         \/ ReadIp(n, t) \/ AskRebind(n, t) \/ Rebind(n)
  PROVE  Inv'
<1>1. Shape' /\ NodeInv(n)' /\ \A m \in Nodes \ {n} : NodeKept(m)
  BY OpenNode, WriteNode, WriteFailsNode, FlagNode, NameNode, ReadIpNode, AskRebindNode, RebindNode, Zenon DEF Inv
<1>2. UNCHANGED <<status, mem, net>>
  BY Zenon DEF Open, Write, WriteFails, Flag, Name, ReadIp, AskRebind, Rebind
<1>3. hist'.promised = hist.promised
  BY Zenon DEF Open, Write, WriteFails, Flag, Name, ReadIp, AskRebind, Rebind, Inv, Shape
<1>4. hot'[n].cluster = hot[n].cluster
  <2>1. DOMAIN hot[n] = DOMAIN Off /\ DOMAIN hot = Nodes
    BY Zenon DEF Inv, Shape, NodeInv, MemoryIn
  <2>2. CASE hot' = hot
    BY <2>2, Zenon
  <2>3. CASE Flag(n, t)
    BY <2>1, <2>3, Zenon DEF Flag, Off
  <2>4. CASE Name(n, t)
    BY <2>1, <2>4, Zenon DEF Name, Off
  <2>5. CASE AskRebind(n, t)
    BY <2>1, <2>5, Zenon DEF AskRebind, Off
  <2>6. CASE Rebind(n)
    BY <2>1, <2>6 DEF Rebind, Off
  <2> QED
    BY <2>2, <2>3, <2>4, <2>5, <2>6, Zenon DEF Open, Write, WriteFails, ReadIp
<1>5. \A m \in Nodes : hot'[m].cluster = hot[m].cluster
  BY <1>1, <1>4, Zenon DEF NodeKept
<1>6. PromisedInv' /\ NetGood'
  BY <1>2, <1>3, <1>5, PromisesUntouched, Zenon DEF Inv
<1> QED
  BY <1>1, <1>6, OneNode, Zenon DEF Inv

\* The updates, and what is sent.
LEMMA SetStep ==
  ASSUME Inv, NEW n \in Nodes, NEW t \in Tasks, NEW e \in Edits, NEW op \in {"set", "propagate"},
         Set(n, t, op, e[1], e[2])
  PROVE  Inv'
<1>1. PICK v \in Validated(e[1], e[2]) : Update(n, t, op, e[1], e[2], v)
  BY Zenon DEF Set
<1>2. e[1] \in EditKeys
  BY <1>1, ValidatedOnce, FieldsAssumption, Zenon DEF EditKeys
<1>3. status[n] = "up" /\ task[n][t].pc = "idle" /\ UNCHANGED <<status, file, hot, net, starts>>
  BY Zenon DEF Set, Up
<1>4. Shape' /\ NodeInv(n)' /\ \A m \in Nodes \ {n} : NodeKept(m)
  BY <1>1, <1>2, <1>3, UpdateNode, Zenon DEF Inv
<1>5. PromisedInv'
  BY <1>1, <1>3, UpdateWithdraws, Zenon
<1>6. NetGood'
  BY <1>3, Zenon DEF Inv, NetGood
<1> QED
  BY <1>4, <1>5, <1>6, OneNode, Zenon DEF Inv

\* Saving the seeds, the end of cluster.join, keeps the invariant.
LEMMA JoinSavesStep ==
  ASSUME Inv, NEW n \in Nodes, NEW t \in Tasks, JoinSaves(n, t)
  PROVE  Inv'
<1>1. PICK s : Update(n, t, "join", "cluster_seeds", s, s)
  BY Zenon DEF JoinSaves
<1>2. "cluster_seeds" \in EditKeys /\ s \in Validated("cluster_seeds", s)
  BY KeysOfKinds, FieldsAssumption, Zenon DEF EditKeys, Validated
<1>3. task[n][t].pc = "seeds" /\ UNCHANGED <<status, file, hot, net, starts>>
  BY Zenon DEF JoinSaves
<1>4. status[n] = "up"
  BY <1>3, Zenon DEF Inv, NodeInv, TaskIn
<1>5. Shape' /\ NodeInv(n)' /\ \A m \in Nodes \ {n} : NodeKept(m)
  BY <1>1, <1>2, <1>3, <1>4, UpdateNode, Zenon DEF Inv
<1>6. PromisedInv'
  BY <1>1, <1>3, UpdateWithdraws, Zenon
<1>7. NetGood'
  BY <1>3, Zenon DEF Inv, NetGood
<1> QED
  BY <1>5, <1>6, <1>7, OneNode, Zenon DEF Inv

\* handle_node_join, which saves the seeds of the node that answers, keeps the invariant.
LEMMA ServerJoinStep ==
  ASSUME Inv, NEW m \in net, ServerJoin(m.to, m)
  PROVE  Inv'
<1> DEFINE n == m.to
<1>1. PICK s : Update(n, Server, "join", "cluster_seeds", s, s)
  BY Zenon DEF ServerJoin
<1>2. "cluster_seeds" \in EditKeys /\ s \in Validated("cluster_seeds", s)
  BY KeysOfKinds, FieldsAssumption, Zenon DEF EditKeys, Validated
<1>3. /\ n \in Clustered /\ m.type = "NODE_JOIN" /\ task[n][Server].pc = "idle" /\ net' = net \ {m}
      /\ UNCHANGED <<status, file, hot, starts>>
  BY Zenon DEF ServerJoin, Receives
<1>4. n \in Nodes /\ status[n] = "up"
  BY <1>3, Zenon DEF Clustered, Up
<1>5. Shape' /\ NodeInv(n)' /\ \A p \in Nodes \ {n} : NodeKept(p)
  BY <1>1, <1>2, <1>3, <1>4, UpdateNode, TasksOf, Zenon DEF Inv
<1>6. PromisedInv'
  <2>1. /\ \A w \in net' : IsUpdate(w) => w \in net
        /\ \A w \in net : IsUpdate(w) => w \in net'
    BY <1>3, Zenon DEF IsUpdate
  <2> QED
    BY <1>1, <1>3, <1>4, <2>1, UpdateWithdraws, TasksOf, Zenon
<1>7. NetGood'
  BY <1>3, Zenon DEF Inv, NetGood
<1> QED
  BY <1>4, <1>5, <1>6, <1>7, OneNode, Zenon DEF Inv

\* handle_config_update keeps the invariant: the text a peer sends is validated again before
\* it is applied.
LEMMA ServerUpdateStep ==
  ASSUME Inv, NEW m \in net, ServerUpdate(m.to, m)
  PROVE  Inv'
<1> DEFINE n == m.to
<1>1. PICK v \in Validated(m.key, m.text) : Update(n, Server, "peer", m.key, m.text, v)
  BY Zenon DEF ServerUpdate
<1>2. /\ n \in Clustered /\ m.type = "CONFIG_UPDATE" /\ task[n][Server].pc = "idle"
      /\ net' = net \ {m} /\ UNCHANGED <<status, file, hot, starts>>
  BY Zenon DEF ServerUpdate, Receives
<1>3. n \in Nodes /\ status[n] = "up"
  BY <1>2, Zenon DEF Clustered, Up
<1>4. m.key \in EditKeys
  BY <1>2, Zenon DEF Inv, NetGood
<1>5. Shape' /\ NodeInv(n)' /\ \A p \in Nodes \ {n} : NodeKept(p)
  BY <1>1, <1>2, <1>3, <1>4, UpdateNode, TasksOf, Zenon DEF Inv
<1>6. PromisedInv'
  BY <1>3, ServerUpdatePromises, Zenon
<1>7. NetGood'
  BY <1>2, Zenon DEF Inv, NetGood
<1> QED
  BY <1>3, <1>5, <1>6, <1>7, OneNode, Zenon DEF Inv

\* A join request keeps the invariant: the message it sends carries no setting.
LEMMA JoinStep ==
  ASSUME Inv, NEW n \in Nodes, NEW t \in Tasks, NEW seed \in Nodes, Join(n, t, seed)
  PROVE  Inv'
<1>1. Shape' /\ NodeInv(n)' /\ \A m \in Nodes \ {n} : NodeKept(m)
  BY JoinNode, Zenon DEF Inv
<1>2. /\ UNCHANGED <<status, mem, hot>>
      /\ net' = net \cup {[type |-> "NODE_JOIN", from |-> n, to |-> seed]}
      /\ hist' = [hist EXCEPT !.ops = @ + 1]
  BY Zenon DEF Join
<1>3. hist'.promised = hist.promised
  BY <1>2, Zenon DEF Inv, Shape
<1>4. /\ \A w \in net' : IsUpdate(w) => w \in net
      /\ \A w \in net : IsUpdate(w) => w \in net'
  BY <1>2 DEF IsUpdate
<1>5. PromisedInv' /\ NetGood'
  BY <1>2, <1>3, <1>4, PromisesUntouched, Zenon DEF Inv
<1> QED
  BY <1>1, <1>5, OneNode, Zenon DEF Inv

\* Losing a message keeps the invariant: it only takes back what was promised.
LEMMA LoseStep ==
  ASSUME Inv, NEW m \in net, Lose(m)
  PROVE  Inv'
<1>1. /\ UNCHANGED <<status, mem, file, hot, task, starts>> /\ net' = net \ {m}
      /\ \/ hist' = [hist EXCEPT !.promised = <<>>, !.faults = @ + 1]
         \/ hist' = [hist EXCEPT !.promised = <<>>]
  BY Zenon DEF Lose
<1>2. HistKept /\ hist'.promised = <<>>
  BY <1>1, Zenon DEF HistKept, Inv, Shape
<1>3. Shape'
  BY <1>1, <1>2, Zenon DEF Inv, Shape, HistKept
<1>4. \A n \in Nodes : NodeKept(n)
  BY <1>1, <1>2, Zenon DEF NodeKept, HistKept
<1>5. DOMAIN hist'.promised = {}
  BY <1>2
<1>6. \A n \in Nodes : NodeInv(n)'
  BY <1>4, NodeInvKept, Zenon DEF Inv
<1> QED
  BY <1>1, <1>3, <1>5, <1>6, Zenon DEF Inv, NetGood, PromisedInv

\* Every step of Next keeps the invariant.
LEMMA InvStep == Inv /\ [Next]_vars => Inv'
<1> SUFFICES ASSUME Inv, [Next]_vars PROVE Inv'
  OBVIOUS
<1>1. CASE \E n \in Nodes : Resolve(n) \/ Refuse(n) \/ Boot(n) \/ Crash(n) \/ Exit(n) \/ Rebind(n)
  BY <1>1, LifeStep, WorkStep, TasksOf, Zenon
<1>2. CASE \E n \in Nodes, t \in Tasks : TaskStep(n, t)
  <2>1. PICK n \in Nodes, t \in Tasks : TaskStep(n, t)
    BY <1>2, Zenon
  <2>2. CASE Broadcast(n, t)
    BY <2>2, BroadcastNode, BroadcastPromises, OneNode, Zenon DEF Inv
  <2>3. CASE JoinSaves(n, t)
    BY <2>3, JoinSavesStep, Zenon
  <2> QED
    BY <2>1, <2>2, <2>3, WorkStep, Zenon DEF TaskStep
<1>3. CASE \E n \in Nodes : \E c \in Conns[n] :
             \/ \E e \in Edits, op \in {"set", "propagate"} : Set(n, c, op, e[1], e[2])
             \/ \E seed \in Nodes : Join(n, c, seed)
  BY <1>3, SetStep, JoinStep, TasksOf, Zenon
<1>4. CASE \E m \in net : ServerUpdate(m.to, m) \/ ServerJoin(m.to, m) \/ Lose(m)
  BY <1>4, ServerUpdateStep, ServerJoinStep, LoseStep, Zenon
<1>5. CASE UNCHANGED vars
  <2>1. Shape' /\ NetGood' /\ PromisedInv'
    BY <1>5 DEF vars, Inv, Shape, NetGood, PromisedInv, PromisedIn, Clustered, Up
  <2>2. \A n \in Nodes : NodeKept(n)
    BY <1>5, Zenon DEF vars, NodeKept
  <2> QED
    BY <2>1, <2>2, NodeInvKept, Zenon DEF Inv
<1> QED
  BY <1>1, <1>2, <1>3, <1>4, <1>5, Zenon DEF Next

\* The inductive invariant holds of every behaviour of the configuration subsystem: valid
\* settings in the memory, the file and every copy and message in flight, the node_id in all of
\* them, and what an update that ran alone has left behind.
THEOREM InvHolds == Spec => []Inv
  BY InvInit, InvStep, PTL DEF Spec

\* The status of the nodes stays a function.
LEMMA StatusFunction == Spec => []IsFunction(status)
<1>1. Init => IsFunction(status)
  BY Zenon DEF Init, IsFunction
<1>2. ASSUME IsFunction(status), [Next]_vars PROVE IsFunction(status)'
  <2>1. status' = status \/ \E n, s : status' = [status EXCEPT ![n] = s]
    <3>1. ASSUME NEW n \in Nodes, Resolve(n) \/ Refuse(n) \/ Boot(n) \/ Crash(n) \/ Exit(n) \/ Rebind(n)
          PROVE  status' = status \/ \E m, s : status' = [status EXCEPT ![m] = s]
      BY <3>1, Zenon DEF Resolve, Refuse, Boot, Crash, Exit, Rebind, Ends
    <3>2. ASSUME NEW n \in Nodes, NEW t \in Tasks, TaskStep(n, t) PROVE status' = status
      BY <3>2, Zenon DEF TaskStep, Open, Write, WriteFails, Flag, Name, ReadIp, AskRebind, Broadcast, JoinSaves
    <3>3. ASSUME NEW n \in Nodes, NEW c, NEW e, NEW op, NEW seed,
                 Set(n, c, op, e[1], e[2]) \/ Join(n, c, seed)
          PROVE  status' = status
      BY <3>3, Zenon DEF Set, Join
    <3>4. ASSUME NEW m \in net, ServerUpdate(m.to, m) \/ ServerJoin(m.to, m) \/ Lose(m)
          PROVE  status' = status
      BY <3>4, Zenon DEF ServerUpdate, ServerJoin, Lose
    <3> QED
      BY <1>2, <3>1, <3>2, <3>3, <3>4, Zenon DEF Next, vars
  <2> QED
    BY <1>2, <2>1, Zenon DEF IsFunction
<1> QED
  BY <1>1, <1>2, PTL DEF Spec

-----------------------------------------------------------------------------
(* Theorems *)

\* Every field of HesConfig is set while a node runs, and whatever administrators and peers
\* set (ConfigManager::update, handle_config_update), and however often it goes through the
\* file (to_file_config, resolve_config), a setting is one that set_config_value would store
\* again, or one that the node's defaults, files or options installed.
THEOREM ConfigTypes == Spec => []TypeOK
<1>1. Inv /\ IsFunction(status) => TypeOK
  <2> SUFFICES ASSUME Inv, IsFunction(status) PROVE TypeOK
    BY Zenon
  <2>1. status \in [Nodes -> {"down", "boot", "up"}]
    <3>1. status = [n \in Nodes |-> status[n]]
      BY Zenon DEF Inv, Shape, IsFunction
    <3>2. \A n \in Nodes : status[n] \in {"down", "boot", "up"}
      BY Zenon DEF Inv, NodeInv, MemoryIn
    <3> QED
      BY <3>1, <3>2, Zenon
  <2>2. ASSUME NEW n \in Nodes
        PROVE  /\ status[n] # "down" => DOMAIN mem[n] = DOMAIN Default \cup {"node_id"}
               /\ \A k \in DOMAIN mem[n] \cap DOMAIN KeyKind :
                    Validated(k, mem[n][k]) = {mem[n][k]} \/ mem[n][k] \in Installed(n, k)
    <3>1. CASE status[n] = "down"
      <4>1. DOMAIN mem[n] = {}
        BY <3>1 DEF Inv, NodeInv, MemoryIn
      <4> QED
        BY <3>1, <4>1, Zenon
    <3>2. CASE status[n] # "down"
      BY <3>2, Zenon DEF Inv, NodeInv, MemoryIn, Good, Fields, Sound, Setting, Keys
    <3> QED
      BY <3>1, <3>2, Zenon
  <2>3. ASSUME NEW n \in Nodes
        PROVE  /\ file[n].st \in {"absent", "empty", "whole", "mixed"}
               /\ \A t \in Tasks : task[n][t].pc \in Pcs
    BY Zenon DEF Inv, NodeInv, FileIn, TaskIn, TaskSound
  <2> QED
    BY <2>1, <2>2, <2>3, Zenon DEF TypeOK, Pcs, Working, Saving
<1> QED
  BY <1>1, InvHolds, StatusFunction, PTL

\* The node_id of a node survives every restart (resolve_config, to_file_config), unless a
\* process ended with the file emptied.
THEOREM IdentitySurvives == Spec => []IdentityKept
<1>1. Inv => IdentityKept
  BY Zenon DEF Inv, NodeInv, MemoryIn, IdentityIn, IdentityKept, Carries
<1> QED
  BY <1>1, InvHolds, PTL

\* When the last update of a node ran alone and succeeded (ConfigManager::update), a restart
\* without options resolves to exactly the memory.
THEOREM SavedAlone == Spec => []SavedWhenAlone
<1>1. Inv => SavedWhenAlone
  <2> SUFFICES ASSUME Inv, NEW n \in Up, Quiet(n), ~hist.stale[n], Range(mem[n]) \cap Patterns = {}
               PROVE  Resolved(file[n], "fresh", <<>>) = {mem[n]}
    BY Zenon DEF SavedWhenAlone
  <2>1. n \in Nodes /\ status[n] = "up" /\ Good(n, mem[n])
    BY Zenon DEF Inv, NodeInv, MemoryIn, Up
  <2>2. file[n] = [st |-> "whole", cfg |-> to_file_config(mem[n])]
    BY <2>1, Zenon DEF Inv, NodeInv, SavedIn, Saved, OnItsWay, Quiet, Saving
  <2> QED
    BY <2>1, <2>2, Reloaded, Zenon
<1> QED
  BY <1>1, InvHolds, PTL

\* apply_hot_reload brings the metrics flag, the name and the backdoor's address to the
\* memory, while no update overlaps another or fails.
THEOREM ReloadedAlone == Spec => []ReloadedWhenAlone
<1>1. Inv => ReloadedWhenAlone
  <2> SUFFICES ASSUME Inv, NEW n \in Up, Quiet(n), ~hist.astray[n]
               PROVE  /\ "metrics_enabled" \notin hist.remote[n]
                           => hot[n].metrics = (mem[n]["metrics_enabled"] = "true")
                      /\ "node_name" \notin hist.remote[n] /\ mem[n]["node_name"] # "" /\ hot[n].cluster
                           => hot[n].name = mem[n]["node_name"]
                      /\ {"backdoor_ip", "backdoor_port"} \cap hist.remote[n] = {} /\ ~hot[n].changed
                           => hot[n].bound = <<mem[n]["backdoor_ip"], mem[n]["backdoor_port"]>>
    BY Zenon DEF ReloadedWhenAlone
  <2>1. n \in Nodes /\ MetricsIn(n) /\ NameIn(n) /\ BackdoorIn(n)
    BY Zenon DEF Inv, NodeInv, ReloadedIn, Up
  <2>2. \A keys : /\ ~Pending(n, keys, {"flag"}) /\ ~Pending(n, keys, {"name"})
                  /\ ~Pending(n, keys, {"ip", "rebind"})
    BY Zenon DEF Pending, Quiet, Saving
  <2> QED
    BY <2>1, <2>2, Zenon DEF MetricsIn, NameIn, BackdoorIn, BackdoorAddress
<1> QED
  BY <1>1, InvHolds, PTL

\* A propagation that nothing disturbs (broadcast_config_update, handle_config_update) has
\* reached the memory of every node once no update is in flight.
THEOREM PropagationReaches == Spec => []PropagationAgrees
<1>1. Inv => PropagationAgrees
  BY Zenon DEF Inv, PromisedInv, PromisedIn, PropagationAgrees
<1> QED
  BY <1>1, InvHolds, PTL
=============================================================================
