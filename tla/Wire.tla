-------------------------------- MODULE Wire --------------------------------
(***************************************************************************)
(* A datagram from the constructor of its message to the handler: the      *)
(* sender encodes the message and hands the bytes to the socket, the       *)
(* receiver copies them into its buffer and decodes them.  Both protocols  *)
(* are here: between nodes (ClusterWire) and between the system and the    *)
(* meters (DeviceWire).                                                    *)
(*                                                                         *)
(* The length prefixes of the cluster protocol are `len() as u16`, which   *)
(* wraps; the socket refuses a datagram of more than MAX_DATAGRAM bytes.   *)
(***************************************************************************)
EXTENDS ClusterWire, DeviceWire

CONSTANTS ClusterMessages,   \* what a node sends
          OldStatuses,       \* STATUS_RESPONSEs of a node without the list of nodes
          DeviceMessages     \* what the system and a meter send each other

MAX_DATAGRAM == 65507       \* the payload of a UDP datagram over IPv4
MAX_PACKET_SIZE == 65535    \* the buffer of run_cluster_server
RECV_SIZE == 4096           \* the buffers of recv_msg and of the mock meter
UDP_BUFFER_SIZE == 1024     \* the buffer of the backdoor

VARIABLES
  at,     \* "idle", "sent", "refused", "handled", "dropped" or "panicked"
  proto,  \* "cluster", "old" (a node of the version before), or who receives a device
          \* message: "backdoor", "session" (recv_msg) or "meter"
  sent,   \* <<the message>>
  wire,   \* the datagram, then what decode leaves of it
  size,   \* its length
  got     \* <<the message handed to the handler>>

vars == <<at, proto, sent, wire, size, got>>

Init == at = "idle" /\ proto = "cluster" /\ sent = <<>> /\ wire = <<>> /\ size = 0 /\ got = <<>>

\* send_message, send_msg: encode and send_to; an error of the socket goes to the caller.
SendTo(p, m, bytes) ==
  /\ at = "idle" /\ proto' = p /\ sent' = <<m>> /\ got' = <<>> /\ size' = Len(bytes)
  /\ IF Len(bytes) <= MAX_DATAGRAM THEN wire' = bytes /\ at' = "sent"
     ELSE wire' = <<>> /\ at' = "refused"

SendCluster(m) == \E bytes \in {ClusterMessageCodec_encode(m)} : SendTo("cluster", m, bytes)

\* A node of the version before known_nodes answers with the fields alone.
SendOldStatus(m) ==
  \E bytes \in {encode_header(m) \o StatusResponsePayload_fixed(m.payload.body)} :
    SendTo("old", m, bytes)

\* Who receives a message: the backdoor what a meter sends first, and, in a session that the
\* meter asked for, its answers; recv_msg the answers in a session of the scheduler.
Receivers(m) ==
  CASE m.msg_type = "RegisterRequest" -> {"backdoor"}
    [] m.msg_type \in {"HandshakeResponse", "ReadResponse", "WriteResponse"} -> {"session", "backdoor"}
    [] m.msg_type = "Ack" -> {"backdoor", "meter"}
    [] OTHER -> {"meter"}

SendDevice(m) ==
  \E to \in Receivers(m), bytes \in {MessageCodec_encode(m)} : SendTo(to, m, bytes)

BufferSize(p) ==
  CASE p = "backdoor" -> UDP_BUFFER_SIZE
    [] p \in {"session", "meter"} -> RECV_SIZE
    [] OTHER -> MAX_PACKET_SIZE

Decode(p, bytes) ==
  IF p \in {"cluster", "old"} THEN ClusterMessageCodec_decode(bytes) ELSE MessageCodec_decode(bytes)

\* recv_from into a fixed buffer, which cuts a longer datagram, and one call of decode.  An
\* error is logged and the loop goes on (the backdoor, the cluster server), or it ends the
\* session (recv_msg, the meter).
Receive ==
  /\ at = "sent"
  /\ \E r \in {Decode(proto, SubSeq(wire, 1, Min({size, BufferSize(proto)})))} :
       /\ at' = CASE r.st = "ok" -> "handled" [] r.st = "err" -> "dropped" [] OTHER -> "panicked"
       /\ got' = IF r.st = "ok" THEN <<r.val>> ELSE <<>>
       /\ wire' = r.rest
  /\ UNCHANGED <<proto, sent, size>>

\* The loops go on with the next datagram.
Again ==
  /\ at \in {"handled", "dropped", "refused"}
  /\ at' = "idle" /\ sent' = <<>> /\ wire' = <<>> /\ got' = <<>> /\ proto' = "cluster"
  /\ size' = 0

Next ==
  \/ \E m \in ClusterMessages : SendCluster(m)
  \/ \E m \in OldStatuses : SendOldStatus(m)
  \/ \E m \in DeviceMessages : SendDevice(m)
  \/ Receive
  \/ Again

Spec == Init /\ [][Next]_vars

-----------------------------------------------------------------------------
(* Properties.                                                             *)

\* A message whose datagram fits the buffer of its receiver reaches the handler there
\* unchanged, with no byte left over: no check of a decoder is too strict, no field is read
\* out of order, and no u16 length prefix has wrapped.  A longer datagram, which the buffer
\* cuts, is dropped or, being a list of codes or values, read as an empty list: no receiver
\* takes a part of the list for the whole.
Delivered ==
  proto # "old" /\ at \in {"handled", "dropped", "panicked"} =>
    IF size <= BufferSize(proto) THEN at = "handled" /\ got = sent /\ wire = <<>>
    ELSE \/ at = "dropped"
         \/ /\ at = "handled"
            /\ got[1].msg_type \in {"ReadRequest", "ReadResponse", "WriteRequest"}
            /\ \A f \in DOMAIN got[1].payload.body : got[1].payload.body[f] = <<>>

\* A STATUS_RESPONSE without the list of nodes is read as one with an empty list.
OldNodesUnderstood ==
  proto = "old" /\ at \in {"handled", "dropped", "panicked"} =>
    /\ at = "handled"
    /\ got = <<[sent[1] EXCEPT !.payload.body =
                  [f \in DOMAIN @ \cup {"known_nodes"} |->
                     IF f = "known_nodes" THEN <<>> ELSE @[f]]]>>
=============================================================================
