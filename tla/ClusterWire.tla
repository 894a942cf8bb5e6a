----------------------------- MODULE ClusterWire ----------------------------
(***************************************************************************)
(* The datagrams of the cluster: ClusterMessageCodec, the header, and the  *)
(* payload of each of the fifteen message types.  What encode writes and   *)
(* what decode checks and reads are written apart, as in the source.       *)
(*                                                                         *)
(* A payload is [variant |-> the arm of ClusterPayload, body |-> fields].  *)
(* encode dispatches on the variant, decode on the type of the message.    *)
(***************************************************************************)
EXTENDS ByteBuffer

CONSTANT Now   \* timestamps, milliseconds as 8 digits

CLUSTER_PROTOCOL_VERSION == 1
CLUSTER_HEADER_SIZE == 30

NodeStatusCode ==
  [Starting |-> 1, Active |-> 2, Draining |-> 3, Suspect |-> 4, Dead |-> 5]
NodeStatusFromCode ==
  1 :> "Starting" @@ 2 :> "Active" @@ 3 :> "Draining" @@ 4 :> "Suspect" @@ 5 :> "Dead"

DelegationReasonCode ==
  [Overload |-> 1, Shutdown |-> 2, Rebalance |-> 3, NodeFailure |-> 4]
DelegationReasonFromCode ==
  1 :> "Overload" @@ 2 :> "Shutdown" @@ 3 :> "Rebalance" @@ 4 :> "NodeFailure"

MessageTypeCode ==
  [Heartbeat |-> 1, HeartbeatAck |-> 2, StatusRequest |-> 16, StatusResponse |-> 17,
   DelegateRequest |-> 32, DelegateAccept |-> 33, DelegateReject |-> 34,
   NodeJoin |-> 48, NodeLeave |-> 49, NodeSuspect |-> 64, NodeDead |-> 65,
   ProbeRequest |-> 80, ProbeResponse |-> 81, ConfigUpdate |-> 96, ConfigUpdateAck |-> 97]
MessageTypeFromCode ==
  1 :> "Heartbeat" @@ 2 :> "HeartbeatAck" @@ 16 :> "StatusRequest" @@ 17 :> "StatusResponse" @@
  32 :> "DelegateRequest" @@ 33 :> "DelegateAccept" @@ 34 :> "DelegateReject" @@
  48 :> "NodeJoin" @@ 49 :> "NodeLeave" @@ 64 :> "NodeSuspect" @@ 65 :> "NodeDead" @@
  80 :> "ProbeRequest" @@ 81 :> "ProbeResponse" @@
  96 :> "ConfigUpdate" @@ 97 :> "ConfigUpdateAck"

-----------------------------------------------------------------------------
(* Payloads: encode, MIN_SIZE and decode of each struct.                   *)

HeartbeatPayload_encode(p) ==
  PutU8(NodeStatusCode[p.status]) \o PutU16(p.bucket_count) \o p.device_count \o
  PutU8(p.load_percent) \o p.max_device_suggested \o
  PutUuids(p.known_nodes)

HeartbeatPayload_MIN_SIZE == U8_SIZE + U16_SIZE + U32_SIZE + U8_SIZE + U32_SIZE + U16_SIZE

HeartbeatPayload_decode ==
  << <<"need", HeartbeatPayload_MIN_SIZE>>, <<"code", "status", NodeStatusFromCode>>,
     <<"u16", "bucket_count">>, <<"bytes", "device_count", U32_SIZE>>, <<"u8", "load_percent">>,
     <<"bytes", "max_device_suggested", U32_SIZE>>, <<"uuids", "known_nodes">> >>

NodeJoinPayload_encode(p) ==
  PutString(p.node_name) \o PutAddr(p.cluster_addr) \o PutU16(p.backdoor_port)

NodeJoinPayload_decode ==
  << <<"need", U16_SIZE + U16_SIZE + U16_SIZE>>, <<"string", "node_name">>,
     <<"need", U16_SIZE + U16_SIZE>>, <<"addr", "cluster_addr">>,
     <<"need", U16_SIZE>>, <<"u16", "backdoor_port">> >>

DelegatedDevicePayload_encode(d) ==
  d.device_id \o encode_optional_string(d.ipv4) \o encode_optional_string(d.ipv6) \o
  d.schedule_time

\* A slip: the length prefixes of the addresses counted, although absent ones have none.
DelegatedDevicePayload_MAX_FLAGS == UUID_SIZE + U8_SIZE + U16_SIZE + U8_SIZE + U16_SIZE + I64_SIZE

DelegatedDevicePayload_MIN_SIZE == UUID_SIZE + U8_SIZE + U8_SIZE + I64_SIZE

DelegatedDevicePayload_decode ==
  << <<"need", DelegatedDevicePayload_MIN_SIZE>>, <<"bytes", "device_id", UUID_SIZE>>,
     <<"option", "ipv4">>, <<"option", "ipv6">>,
     <<"need", 8>>, <<"bytes", "schedule_time", I64_SIZE>> >>

DelegateRequestPayload_encode(p) ==
  PutList(p.devices, DelegatedDevicePayload_encode) \o PutU8(DelegationReasonCode[p.reason])

DelegateRequestPayload_decode ==
  << <<"need", U16_SIZE + U8_SIZE>>, <<"list", "devices", DelegatedDevicePayload_decode>>,
     <<"need", 1>>, <<"code", "reason", DelegationReasonFromCode>> >>

DelegateAcceptPayload_encode(p) == PutUuids(p.accepted_device_ids)

DelegateAcceptPayload_decode ==
  << <<"need", U16_SIZE>>, <<"uuids", "accepted_device_ids">> >>

DelegateRejectPayload_encode(p) == PutString(p.reason)

DelegateRejectPayload_decode == << <<"need", U16_SIZE>>, <<"string", "reason">> >>

NodeSuspectPayload_encode(p) == p.suspect_node_id

NodeSuspectPayload_decode ==
  << <<"need", UUID_SIZE>>, <<"bytes", "suspect_node_id", UUID_SIZE>> >>

NodeDeadPayload_encode(p) == p.dead_node_id

NodeDeadPayload_decode ==
  << <<"need", UUID_SIZE>>, <<"bytes", "dead_node_id", UUID_SIZE>> >>

KnownNodeInfo_encode(k) ==
  k.node_id \o PutString(k.node_name) \o PutAddr(k.cluster_addr) \o
  PutU16(k.backdoor_port) \o PutU8(NodeStatusCode[k.status])

\* One round of the loop in StatusResponsePayload::decode.
KnownNodeInfo_decode ==
  << <<"need", UUID_SIZE + U16_SIZE>>, <<"bytes", "node_id", UUID_SIZE>>,
     <<"string", "node_name">>, <<"need", U16_SIZE>>, <<"addr", "cluster_addr">>,
     <<"need", U16_SIZE + U8_SIZE>>, <<"u16", "backdoor_port">>,
     <<"code", "status", NodeStatusFromCode>> >>

\* The fields before the list, which older nodes send alone.
StatusResponsePayload_fixed(p) ==
  PutString(p.node_name) \o PutU8(NodeStatusCode[p.status]) \o PutU16(p.bucket_count) \o
  p.device_count \o PutU8(p.load_percent) \o p.max_device_suggested \o PutU16(p.backdoor_port)

StatusResponsePayload_encode(p) ==
  StatusResponsePayload_fixed(p) \o PutList(p.known_nodes, KnownNodeInfo_encode)

FIELDS_AFTER_NAME == U8_SIZE + U16_SIZE + U32_SIZE + U8_SIZE + U32_SIZE + U16_SIZE

\* A slip: the list of nodes is read as if every node sent it.
StatusResponsePayload_decode_list ==
  << <<"need", U16_SIZE + FIELDS_AFTER_NAME>>, <<"string", "node_name">>,
     <<"need", FIELDS_AFTER_NAME>>,
     <<"code", "status", NodeStatusFromCode>>, <<"u16", "bucket_count">>,
     <<"bytes", "device_count", U32_SIZE>>, <<"u8", "load_percent">>,
     <<"bytes", "max_device_suggested", U32_SIZE>>, <<"u16", "backdoor_port">>,
     <<"list", "known_nodes", KnownNodeInfo_decode>> >>

StatusResponsePayload_decode ==
  << <<"need", U16_SIZE + FIELDS_AFTER_NAME>>, <<"string", "node_name">>,
     <<"need", FIELDS_AFTER_NAME>>,
     <<"code", "status", NodeStatusFromCode>>, <<"u16", "bucket_count">>,
     <<"bytes", "device_count", U32_SIZE>>, <<"u8", "load_percent">>,
     <<"bytes", "max_device_suggested", U32_SIZE>>, <<"u16", "backdoor_port">>,
     <<"tail", "known_nodes", KnownNodeInfo_decode>> >>

ProbeRequestPayload_encode(p) == p.target_node_id

ProbeRequestPayload_decode ==
  << <<"need", UUID_SIZE>>, <<"bytes", "target_node_id", UUID_SIZE>> >>

ProbeResponsePayload_encode(p) == p.target_node_id \o PutBool(p.is_alive)

ProbeResponsePayload_decode ==
  << <<"need", UUID_SIZE + U8_SIZE>>, <<"bytes", "target_node_id", UUID_SIZE>>,
     <<"bool", "is_alive">> >>

ConfigUpdatePayload_encode(p) == p.update_id \o PutString(p.key) \o PutString(p.value)

ConfigUpdatePayload_decode ==
  << <<"need", UUID_SIZE + U16_SIZE + U16_SIZE>>, <<"bytes", "update_id", UUID_SIZE>>,
     <<"string", "key">>, <<"need", U16_SIZE>>, <<"string", "value">> >>

ConfigUpdateAckPayload_encode(p) ==
  p.update_id \o PutBool(p.success) \o encode_optional_string(p.error_message)

ConfigUpdateAckPayload_decode ==
  << <<"need", UUID_SIZE + U8_SIZE + U8_SIZE>>, <<"bytes", "update_id", UUID_SIZE>>,
     <<"bool", "success">>, <<"option", "error_message">> >>

-----------------------------------------------------------------------------
(* ClusterMessage: the constructors, the header, the codec.                *)

ClusterMessage(node_id, seq, type, variant, body) ==
  [version |-> CLUSTER_PROTOCOL_VERSION, msg_type |-> type, node_id |-> node_id,
   seq |-> seq, timestamp |-> Now, payload |-> [variant |-> variant, body |-> body]]

heartbeat(n, seq, p) == ClusterMessage(n, seq, "Heartbeat", "Heartbeat", p)
heartbeat_ack(n, seq) == ClusterMessage(n, seq, "HeartbeatAck", "Empty", <<>>)
node_join(n, seq, p) == ClusterMessage(n, seq, "NodeJoin", "NodeJoin", p)
node_leave(n, seq) == ClusterMessage(n, seq, "NodeLeave", "Empty", <<>>)
node_suspect(n, seq, id) ==
  ClusterMessage(n, seq, "NodeSuspect", "NodeSuspect", [suspect_node_id |-> id])
node_dead(n, seq, id) ==
  ClusterMessage(n, seq, "NodeDead", "NodeDead", [dead_node_id |-> id])
delegate_request(n, seq, p) == ClusterMessage(n, seq, "DelegateRequest", "DelegateRequest", p)
delegate_accept(n, seq, p) == ClusterMessage(n, seq, "DelegateAccept", "DelegateAccept", p)
delegate_reject(n, seq, reason) ==
  ClusterMessage(n, seq, "DelegateReject", "DelegateReject", [reason |-> reason])
status_request(n, seq) == ClusterMessage(n, seq, "StatusRequest", "Empty", <<>>)
status_response(n, seq, p) == ClusterMessage(n, seq, "StatusResponse", "StatusResponse", p)
probe_request(n, seq, id) ==
  ClusterMessage(n, seq, "ProbeRequest", "ProbeRequest", [target_node_id |-> id])
config_update(n, seq, p) == ClusterMessage(n, seq, "ConfigUpdate", "ConfigUpdate", p)
config_update_ack(n, seq, p) ==
  ClusterMessage(n, seq, "ConfigUpdateAck", "ConfigUpdateAck", p)
probe_response(n, seq, id, alive) ==
  ClusterMessage(n, seq, "ProbeResponse", "ProbeResponse",
                 [target_node_id |-> id, is_alive |-> alive])

ClusterPayload_encode(p) ==
  CASE p.variant = "Empty"           -> <<>>
    [] p.variant = "Heartbeat"       -> HeartbeatPayload_encode(p.body)
    [] p.variant = "NodeJoin"        -> NodeJoinPayload_encode(p.body)
    [] p.variant = "NodeSuspect"     -> NodeSuspectPayload_encode(p.body)
    [] p.variant = "NodeDead"        -> NodeDeadPayload_encode(p.body)
    [] p.variant = "DelegateRequest" -> DelegateRequestPayload_encode(p.body)
    [] p.variant = "DelegateAccept"  -> DelegateAcceptPayload_encode(p.body)
    [] p.variant = "DelegateReject"  -> DelegateRejectPayload_encode(p.body)
    [] p.variant = "StatusResponse"  -> StatusResponsePayload_encode(p.body)
    [] p.variant = "ProbeRequest"    -> ProbeRequestPayload_encode(p.body)
    [] p.variant = "ProbeResponse"   -> ProbeResponsePayload_encode(p.body)
    [] p.variant = "ConfigUpdate"    -> ConfigUpdatePayload_encode(p.body)
    [] p.variant = "ConfigUpdateAck" -> ConfigUpdateAckPayload_encode(p.body)

encode_header(m) ==
  PutU8(m.version) \o PutU8(MessageTypeCode[m.msg_type]) \o m.node_id \o m.seq \o m.timestamp

ClusterMessageCodec_encode(m) == encode_header(m) \o ClusterPayload_encode(m.payload)

decode_header ==
  << <<"need", CLUSTER_HEADER_SIZE>>, <<"u8", "version">>,
     <<"code", "msg_type", MessageTypeFromCode>>, <<"bytes", "node_id", UUID_SIZE>>,
     <<"bytes", "seq", U32_SIZE>>, <<"bytes", "timestamp", 8>> >>

\* For each type, the variant of the payload and how it is read.
decode_payload ==
  [Heartbeat       |-> <<"Heartbeat", HeartbeatPayload_decode>>,
   HeartbeatAck    |-> <<"Empty", <<>> >>,
   StatusRequest   |-> <<"Empty", <<>> >>,
   StatusResponse  |-> <<"StatusResponse", StatusResponsePayload_decode>>,
   DelegateRequest |-> <<"DelegateRequest", DelegateRequestPayload_decode>>,
   DelegateAccept  |-> <<"DelegateAccept", DelegateAcceptPayload_decode>>,
   DelegateReject  |-> <<"DelegateReject", DelegateRejectPayload_decode>>,
   NodeJoin        |-> <<"NodeJoin", NodeJoinPayload_decode>>,
   NodeLeave       |-> <<"Empty", <<>> >>,
   NodeSuspect     |-> <<"NodeSuspect", NodeSuspectPayload_decode>>,
   NodeDead        |-> <<"NodeDead", NodeDeadPayload_decode>>,
   ProbeRequest    |-> <<"ProbeRequest", ProbeRequestPayload_decode>>,
   ProbeResponse   |-> <<"ProbeResponse", ProbeResponsePayload_decode>>,
   ConfigUpdate    |-> <<"ConfigUpdate", ConfigUpdatePayload_decode>>,
   ConfigUpdateAck |-> <<"ConfigUpdateAck", ConfigUpdateAckPayload_decode>>]

\* A datagram shorter than the header is an error; an empty one, Ok(None), is dropped as well.
ClusterMessageCodec_decode(bytes) ==
  LET header == Fields(Reader(bytes), decode_header)
      arm == decode_payload[header.val.msg_type]
      body == Steps([header EXCEPT !.val = <<>>], arm[2])
  IN IF header.st # "ok" THEN header
     ELSE [body EXCEPT !.val = header.val @@ "payload" :> [variant |-> arm[1], body |-> @]]
=============================================================================
