------------------------------ MODULE MCConfig ------------------------------
(***************************************************************************)
(* Config on two nodes.  Node "a" is installed with a file that names a    *)
(* variable and holds a port that config.set would refuse; it is started   *)
(* twice, with or without options that end main.  Node "b" is started      *)
(* once, with the defaults and a node_id to be normalised.  Keys that no   *)
(* step of the instance treats apart from another one are left out.        *)
(***************************************************************************)
EXTENDS Config, TLC

CONSTANTS c1, c2, c3

MCConns == "a" :> {c1, c2} @@ "b" :> {c3}

MCAddress == [n \in Nodes |-> IF n = "a" THEN "10.0.0.1:6570" ELSE "10.0.0.2:6570"]

MCUuid == [n \in Nodes |-> IF n = "a" THEN <<"a1", "a2", "a3">> ELSE <<"b1", "b2", "b3">>]

MCDefault ==
  [backdoor_ip |-> "0.0.0.0", backdoor_port |-> "6565", metrics_enabled |-> "true",
   database_type |-> "postgres", postgres_password |-> "HeadEndSystem",
   cluster_enabled |-> "true", node_name |-> "", cluster_seeds |-> "",
   rpc_enabled |-> "true", test_mode |-> "false"]

MCFiles ==
  "a" :> {[postgres_password |-> "${PG}", test_mode |-> "true",
           backdoor_ip |-> "10.0.0.1", backdoor_port |-> "0"]}
  @@ "b" :> {[node_id |-> "B1"]}

MCCli == "a" :> {<<>>, [database_type |-> "in-memory"], [backdoor_port |-> "none"]} @@ "b" :> {<<>>}

MCMaxStarts == "a" :> 2 @@ "b" :> 1

Symmetry == Permutations({c1, c2})

MCEnv == "${PG}" :> "secret"
MCPatterns == {"${PG}", "${UNSET}"}

MCU16 == [t \in {"0", "80", "6565"} |-> t] @@ "0080" :> "80"
MCUuidText == [t \in UNION {Range(MCUuid[n]) : n \in Nodes} |-> t] @@ "B1" :> "b1"
MCUsize == [t \in {"0", "48"} |-> t]

MCSeedsText ==
  <<>> :> "" @@ <<"10.0.0.1:6570">> :> "10.0.0.1:6570" @@ <<"10.0.0.2:6570">> :> "10.0.0.2:6570"
  @@ <<"10.0.0.1:6570", "10.0.0.2:6570">> :> "10.0.0.1:6570,10.0.0.2:6570"
  @@ <<"10.0.0.2:6570", "10.0.0.1:6570">> :> "10.0.0.2:6570,10.0.0.1:6570"

MCEdits == {<<"backdoor_ip", "127.0.0.1">>, <<"backdoor_port", "0080">>, <<"backdoor_port", "0">>,
            <<"metrics_enabled", "false">>, <<"node_name", "north">>, <<"node_name", "${UNSET}">>,
            <<"node_id", "a1">>}
=============================================================================
