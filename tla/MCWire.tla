------------------------------- MODULE MCWire -------------------------------
(***************************************************************************)
(* Wire with the values at the boundaries of each field: the ends of each  *)
(* integer, empty, short and long strings, lists of none, one and two, and *)
(* the datagrams around the largest one that the socket carries and that   *)
(* each receiver's buffer takes.                                           *)
(***************************************************************************)
EXTENDS Wire

Fill(b, n) == [i \in 1..n |-> b]
Ids == {Fill(0, 16), [i \in 1..16 |-> 255 - i]}
AnId == [i \in 1..16 |-> i]
Words4 == {Fill(0, 4), Fill(255, 4)}
Words8 == {Fill(0, 8), Fill(0, 7) \o <<127>>, Fill(0, 7) \o <<128>>,
           Fill(0, 6) \o <<1, 0>>, Fill(255, 8)}
Texts == {<<>>, <<65>>, Fill(66, 55), Fill(67, 56), Fill(68, 256)}
Lists(S) == {<<>>} \cup {<<x>> : x \in S} \cup {<<x, y>> : x, y \in S}
Statuses == {"Starting", "Active", "Draining", "Suspect", "Dead"}
Ports == {0, 255, 256, 65535}

V4 == "192.0.2.1:6570"
V6 == "[::1]:6570"
TheAddrs == {V4, V6}
TheTexts == (V4 :> <<49, 57, 50, 46, 48, 46, 50, 46, 49, 58, 54, 53, 55, 48>>) @@
            (V6 :> <<91, 58, 58, 49, 93, 58, 54, 53, 55, 48>>)
SomeMillis == <<0, 0, 1, 152, 104, 200, 0, 128>>
SomeTime == <<0, 0, 0, 0, 104, 200, 0, 128>>

Heartbeats ==
  [status : Statuses, bucket_count : Ports, device_count : Words4, load_percent : {0, 100, 255},
   max_device_suggested : Words4, known_nodes : Lists(Ids)]
Joins == [node_name : Texts, cluster_addr : TheAddrs, backdoor_port : Ports]
Options == {NoString, Some(<<>>), Some(<<49, 48>>)}
Devices == [device_id : {AnId}, ipv4 : Options, ipv6 : Options, schedule_time : {Fill(0, 8), Fill(255, 8)}]
Requests ==
  [devices : Lists(Devices), reason : {"Overload", "Shutdown", "Rebalance", "NodeFailure"}]
KnownNodes ==
  [node_id : {AnId}, node_name : {<<>>, Fill(69, 300)}, cluster_addr : TheAddrs,
   backdoor_port : {0, 65535}, status : {"Starting", "Dead"}]
StatusFields ==
  [node_name : {<<>>, Fill(70, 300)}, status : {"Active"}, bucket_count : {0, 65535},
   device_count : {Fill(255, 4)}, load_percent : {100}, max_device_suggested : {Fill(0, 4)},
   backdoor_port : {6565}]
WithNodes(p, nodes) == [f \in DOMAIN p \cup {"known_nodes"} |->
                          IF f = "known_nodes" THEN nodes ELSE p[f]]

\* Values and lists whose datagrams just fit, just do not, and whose length would wrap.
Large ==
  {config_update(AnId, Fill(0, 4), [update_id |-> AnId, key |-> <<65>>, value |-> Fill(66, n)]) :
     n \in {65456, 65457, 65536}} \cup
  {delegate_accept(AnId, Fill(0, 4), [accepted_device_ids |-> Fill(AnId, n)]) : n \in {4092, 4093}}

TheClusterMessages ==
  LET S == Fill(255, 4) IN
  {heartbeat(AnId, s, p) : s \in Words4, p \in Heartbeats} \cup
  {heartbeat_ack(AnId, S), node_leave(AnId, S), status_request(AnId, S)} \cup
  {node_join(AnId, S, p) : p \in Joins} \cup
  {node_suspect(AnId, S, id) : id \in Ids} \cup
  {node_dead(AnId, S, id) : id \in Ids} \cup
  {delegate_request(AnId, S, p) : p \in Requests} \cup
  {delegate_accept(AnId, S, [accepted_device_ids |-> l]) : l \in Lists(Ids)} \cup
  {delegate_reject(AnId, S, t) : t \in Texts} \cup
  {status_response(AnId, S, WithNodes(p, l)) : p \in StatusFields, l \in Lists(KnownNodes)} \cup
  {probe_request(AnId, S, id) : id \in Ids} \cup
  {probe_response(AnId, S, id, b) : id \in Ids, b \in BOOLEAN} \cup
  {config_update(AnId, S, p) : p \in [update_id : Ids, key : Texts, value : Texts]} \cup
  {config_update_ack(AnId, S, p) :
     p \in [update_id : Ids, success : BOOLEAN, error_message : Options]} \cup
  Large

TheOldStatuses == {status_response(AnId, Fill(0, 4), p) : p \in StatusFields}

Values == {<<>>, <<0>>, <<127>>, <<128>>, Fill(0, 8), Fill(255, 54)}
CodedValues == [code : {<<49>>, <<67, 46, 54, 46, 49>>}, value : Values]

\* Texts and values whose datagrams just fill the receiver's buffer, and one byte more.
LargeDevice ==
  LET S == Fill(255, 4) IN
  {new_register_request_message(Fill(49, n), <<65>>) : n \in {971, 972}} \cup
  {new_read_request_message(AnId, S, <<Fill(49, n)>>) : n \in {4044, 4045}} \cup
  {new_read_response_message(AnId, S, <<[code |-> <<49>>, value |-> Fill(255, n)]>>) :
     n \in {968, 969, 4040, 4041}} \cup
  {new_write_request_message(AnId, S, <<[code |-> <<49>>, value |-> Fill(255, n)]>>) :
     n \in {4040, 4041}} \cup
  {new_write_response_message(AnId, S, TRUE, <<Fill(49, n)>>) : n \in {968, 969, 4040, 4041}}

TheDeviceMessages ==
  LET S == Fill(255, 4) IN
  {new_register_request_message(i, a) : i, a \in Texts} \cup
  {new_register_response_message(AnId, S, f, w) : f \in {0, 1, 127, 128, 255}, w \in Words8} \cup
  {new_handshake_message(AnId, S, n) : n \in {<<>>, Zeros(32), Fill(255, 32)}} \cup
  {new_handshake_response_message(AnId, S, f) : f \in {0, 1, 127, 128, 255}} \cup
  {new_nack_message(AnId, S, f) : f \in {0, 1, 127, 128, 255}} \cup
  {new_ack_message(id, s) : id \in Ids, s \in Words4} \cup
  {new_read_request_message(AnId, S, l) : l \in Lists(Texts)} \cup
  {new_read_response_message(AnId, S, l) : l \in Lists(CodedValues)} \cup
  {new_write_request_message(AnId, S, l) : l \in Lists(CodedValues)} \cup
  {new_write_response_message(AnId, S, b, l) : b \in BOOLEAN, l \in Lists(Texts)} \cup
  LargeDevice
=============================================================================
