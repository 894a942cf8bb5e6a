----------------------------- MODULE DeviceWire -----------------------------
(***************************************************************************)
(* The datagrams between the system and the meters: MessageCodec, with a   *)
(* fixed header, an RLP payload that depends on the message type, and a    *)
(* 16 byte tag at the end.  encode and decode are written apart, as in the *)
(* source.                                                                 *)
(*                                                                         *)
(* RLP (the rlp crate) is modelled by its format: an item is a string or a *)
(* list, with a header that tells which and how long it is.                *)
(***************************************************************************)
EXTENDS ByteBuffer, FiniteSets

CONSTANT NowSecs   \* timestamps, seconds as 8 digits

CURRENT_PROTOCOL_VERSION == 1
HEADER_SIZE == 30
MAC_SIZE == 16
MIN_MSG_LEN == HEADER_SIZE + MAC_SIZE
Zeros(w) == [i \in 1..w |-> 0]

-----------------------------------------------------------------------------
(* RLP.                                                                    *)

\* A length as digits without leading zeros; datagrams have at most two.
Digits(n) == IF n < 256 THEN <<n>> ELSE PutU16(n)

RlpHeader(kind, n) ==
  IF n <= 55 THEN <<kind + n>> ELSE <<kind + 55 + Len(Digits(n))>> \o Digits(n)

\* RlpStream::append of bytes, of an integer (no leading zeros), new_list and begin_list.
RlpBytes(s) == IF Len(s) = 1 /\ s[1] < 128 THEN s ELSE RlpHeader(128, Len(s)) \o s
Stripped(s) == LET zeros == {i \in 1..Len(s) : \A j \in 1..i : s[j] = 0}
               IN SubSeq(s, Cardinality(zeros) + 1, Len(s))
RlpUint(digits) == RlpBytes(Stripped(digits))
RlpList(items) == LET body == FlattenSeq(items) IN RlpHeader(192, Len(body)) \o body

\* The item at the head of b: a list or not, where its contents begin, how many bytes.
ItemInfo(b) ==
  LET tag == b[1]
      base == IF tag < 192 THEN 128 ELSE 192
      long == tag - base - 55
      len == IF long = 1 THEN b[2] ELSE b[2] * 256 + b[3]
  IN CASE tag < 128       -> [list |-> FALSE, from |-> 1, len |-> 1]
       [] tag >= 128 /\ tag <= base + 55 ->
            [list |-> tag >= 192, from |-> 2, len |-> tag - base]
       [] OTHER           -> [list |-> tag >= 192, from |-> 2 + long, len |-> len]

Size(i) == i.from + i.len - 1
Contents(b) == LET i == ItemInfo(b) IN SubSeq(b, i.from, Size(i))
IsList(b) == b # <<>> /\ ItemInfo(b).list

Complete(b) == b # <<>> /\ Size(ItemInfo(b)) <= Len(b)

\* The items of a list, by their positions in its contents (Rlp::at, item_count).  at fails
\* where an item, or the list itself, is longer than its bytes, and item_count stops there.
RlpItems(b) ==
  LET c == Contents(b)
      items[p \in 1..(Len(c) + 1)] ==
        LET tail == SubSeq(c, p, Len(c))
            size == Size(ItemInfo(tail))
        IN IF Complete(tail) THEN <<SubSeq(tail, 1, size)>> \o items[p + size] ELSE <<>>
  IN IF Complete(b) THEN items[1] ELSE <<>>

\* Outcomes of decoding are sets: {value}, or {} for PayloadDecodeError.
All(outcomes) ==
  IF \E i \in 1..Len(outcomes) : outcomes[i] = {} THEN {}
  ELSE {[i \in 1..Len(outcomes) |-> CHOOSE v \in outcomes[i] : TRUE]}

Ascii(s) == \A i \in 1..Len(s) : s[i] < 128
Padded(s, w) == Zeros(w - Len(s)) \o s

\* Rlp::as_val for Vec<u8>, for Vec<u8> and String::from_utf8, for u8 and for u64.
AsVal(item, kind) ==
  LET s == Contents(item)
      canonical == s = <<>> \/ s[1] # 0
  IN CASE IsList(item)    -> {}
       [] kind = "bytes"  -> {s}
       [] kind = "string" -> {t \in {s} : Ascii(t)}
       [] kind = "u8"     -> {Padded(t, 1)[1] : t \in {u \in {s} : Len(u) <= 1 /\ canonical}}
       [] kind = "u64"    -> {Padded(t, 8) : t \in {u \in {s} : Len(u) <= 8 /\ canonical}}

\* val_at(0), val_at(1), ... of a list, as the fields of a struct.
AtFields(data, fields) ==
  IF ~IsList(data) THEN {}
  ELSE LET vals(items) ==
             IF Len(items) < Len(fields) THEN {}
             ELSE All([i \in 1..Len(fields) |-> AsVal(items[i], fields[i][2])])
           named(v) == FoldLeft(LAMBDA rec, i : (fields[i][1] :> v[i]) @@ rec,
                                <<>>, [i \in 1..Len(fields) |-> i])
       IN UNION {{named(v) : v \in vals(items)} : items \in {RlpItems(data)}}

\* item_count and a loop over the items.
ForEach(data, item(_)) ==
  IF ~IsList(data) THEN {}
  ELSE UNION {All([i \in 1..Len(items) |-> item(items[i])]) : items \in {RlpItems(data)}}

-----------------------------------------------------------------------------
(* Payloads: encode and decode of each struct.                             *)

HandshakeMessage_encode(p) == RlpList(<<RlpBytes(p.nonce)>>)
HandshakeMessage_decode(data) == AtFields(data, << <<"nonce", "bytes">> >>)

HandshakeResponseMessage_encode(p) == RlpList(<<RlpUint(<<p.status>>)>>)
HandshakeResponseMessage_decode(data) == AtFields(data, << <<"status", "u8">> >>)

RegistryRequestMessage_encode(p) == RlpList(<<RlpBytes(p.imei), RlpBytes(p.ipv6)>>)
RegistryRequestMessage_decode(data) ==
  AtFields(data, << <<"imei", "string">>, <<"ipv6", "string">> >>)

RegistryResponseMessage_encode(p) ==
  RlpList(<<RlpUint(<<p.flag>>), RlpUint(p.next_wake_time)>>)
RegistryResponseMessage_decode(data) ==
  AtFields(data, << <<"flag", "u8">>, <<"next_wake_time", "u64">> >>)

ReadRequestMessage_encode(p) ==
  RlpList([i \in 1..Len(p.obis_codes) |-> RlpBytes(p.obis_codes[i])])
ReadRequestMessage_decode(data) ==
  {[obis_codes |-> codes] : codes \in ForEach(data, LAMBDA item : AsVal(item, "string"))}

\* ObisValue and WriteParameter: a code and the bytes of its value.
Pairs(xs) == [i \in 1..Len(xs) |-> RlpList(<<RlpBytes(xs[i].code), RlpBytes(xs[i].value)>>)]
Pair(item) == AtFields(item, << <<"code", "string">>, <<"value", "bytes">> >>)

ReadResponseMessage_encode(p) == RlpList(Pairs(p.values))
ReadResponseMessage_decode(data) == {[values |-> vs] : vs \in ForEach(data, Pair)}

WriteRequestMessage_encode(p) == RlpList(Pairs(p.parameters))
WriteRequestMessage_decode(data) == {[parameters |-> ps] : ps \in ForEach(data, Pair)}

WriteResponseMessage_encode(p) ==
  RlpList(<<RlpUint(<<IF p.success THEN 1 ELSE 0>>),
            RlpList([i \in 1..Len(p.written_codes) |-> RlpBytes(p.written_codes[i])])>>)
WriteResponseMessage_decode(data) ==
  IF ~IsList(data) \/ Len(RlpItems(data)) < 2 THEN {}
  ELSE {[success |-> s # 0, written_codes |-> codes] :
          s \in AsVal(RlpItems(data)[1], "u8"),
          codes \in ForEach(RlpItems(data)[2], LAMBDA item : AsVal(item, "string"))}

NackMessage_encode(p) == RlpList(<<RlpUint(<<p.error_code>>)>>)
NackMessage_decode(data) == AtFields(data, << <<"error_code", "u8">> >>)

-----------------------------------------------------------------------------
(* Message: types, constructors, codec.                                    *)

MsgTypeCode ==
  [Handshake |-> 0, HandshakeResponse |-> 1, RegisterRequest |-> 2, RegisterResponse |-> 3,
   ReadRequest |-> 10, ReadResponse |-> 11, WriteRequest |-> 20, WriteResponse |-> 21,
   ExecuteRequest |-> 30, ExecuteResponse |-> 31, ActionRequest |-> 40, ActionResponse |-> 41,
   Ack |-> 255, Nack |-> 254, SessionStartRequest |-> 240]
MsgTypeFromCode ==
  0 :> "Handshake" @@ 1 :> "HandshakeResponse" @@ 2 :> "RegisterRequest" @@
  3 :> "RegisterResponse" @@ 10 :> "ReadRequest" @@ 11 :> "ReadResponse" @@
  20 :> "WriteRequest" @@ 21 :> "WriteResponse" @@ 30 :> "ExecuteRequest" @@
  31 :> "ExecuteResponse" @@ 40 :> "ActionRequest" @@ 41 :> "ActionResponse" @@
  254 :> "Nack" @@ 255 :> "Ack" @@ 240 :> "SessionStartRequest"

\* calculate_mac sets the tag to 0.
calculate_mac(m) == [m EXCEPT !.mac = Zeros(MAC_SIZE)]

Message(type, device_id, seq, variant, body) ==
  calculate_mac([version |-> CURRENT_PROTOCOL_VERSION, msg_type |-> type,
                 device_id |-> device_id, seq |-> seq, timestamp |-> NowSecs,
                 payload |-> [variant |-> variant, body |-> body], mac |-> Zeros(MAC_SIZE)])

new_register_request_message(imei, ipv6) ==
  Message("RegisterRequest", Zeros(16), Zeros(4), "RegistryRequest",
          [imei |-> imei, ipv6 |-> ipv6])
new_register_response_message(id, seq, flag, next_wake_time) ==
  Message("RegisterResponse", id, seq, "RegistryResponse",
          [flag |-> flag, next_wake_time |-> next_wake_time])
new_handshake_message(id, seq, nonce) ==
  Message("Handshake", id, seq, "Handshake", [nonce |-> nonce])
new_nack_message(id, seq, error_code) ==
  Message("Nack", id, seq, "Nack", [error_code |-> error_code])
new_ack_message(id, seq) == Message("Ack", id, seq, "Ack", <<>>)
new_handshake_response_message(id, seq, status) ==
  Message("HandshakeResponse", id, seq, "HandshakeResponse", [status |-> status])
new_read_response_message(id, seq, values) ==
  Message("ReadResponse", id, seq, "ReadResponse", [values |-> values])
new_write_response_message(id, seq, success, written_codes) ==
  Message("WriteResponse", id, seq, "WriteResponse",
          [success |-> success, written_codes |-> written_codes])
new_read_request_message(id, seq, obis_codes) ==
  Message("ReadRequest", id, seq, "ReadRequest", [obis_codes |-> obis_codes])
new_write_request_message(id, seq, parameters) ==
  Message("WriteRequest", id, seq, "WriteRequest", [parameters |-> parameters])

MessagePayload_encode(p) ==
  CASE p.variant = "Handshake"         -> HandshakeMessage_encode(p.body)
    [] p.variant = "HandshakeResponse" -> HandshakeResponseMessage_encode(p.body)
    [] p.variant = "RegistryRequest"   -> RegistryRequestMessage_encode(p.body)
    [] p.variant = "RegistryResponse"  -> RegistryResponseMessage_encode(p.body)
    [] p.variant = "ReadRequest"       -> ReadRequestMessage_encode(p.body)
    [] p.variant = "ReadResponse"      -> ReadResponseMessage_encode(p.body)
    [] p.variant = "WriteRequest"      -> WriteRequestMessage_encode(p.body)
    [] p.variant = "WriteResponse"     -> WriteResponseMessage_encode(p.body)
    [] p.variant = "Nack"              -> NackMessage_encode(p.body)
    [] OTHER                           -> <<>>

\* The variant and the body, by the code of the message type.
MessagePayload_decode(code, data) ==
  LET Arm(variant, bodies) == {[variant |-> variant, body |-> b] : b \in bodies}
  IN CASE code = 0   -> Arm("Handshake", HandshakeMessage_decode(data))
       [] code = 1   -> Arm("HandshakeResponse", HandshakeResponseMessage_decode(data))
       [] code = 2   -> Arm("RegistryRequest", RegistryRequestMessage_decode(data))
       [] code = 3   -> Arm("RegistryResponse", RegistryResponseMessage_decode(data))
       [] code = 10  -> Arm("ReadRequest", ReadRequestMessage_decode(data))
       [] code = 11  -> Arm("ReadResponse", ReadResponseMessage_decode(data))
       [] code = 20  -> Arm("WriteRequest", WriteRequestMessage_decode(data))
       [] code = 21  -> Arm("WriteResponse", WriteResponseMessage_decode(data))
       [] code = 254 -> Arm("Nack", NackMessage_decode(data))
       [] OTHER      -> Arm(MsgTypeFromCode[code], {<<>>})

MessageCodec_encode(m) ==
  PutU8(m.version) \o PutU8(MsgTypeCode[m.msg_type]) \o m.device_id \o m.seq \o
  m.timestamp \o MessagePayload_encode(m.payload) \o m.mac

\* The payload is what lies between the header and the last MAC_SIZE bytes.
MessageCodec_decode(bytes) ==
  LET header == << <<"need", MIN_MSG_LEN>>, <<"u8", "version">>, <<"u8", "code">>,
                   <<"bytes", "device_id", UUID_SIZE>>, <<"bytes", "seq", U32_SIZE>>,
                   <<"bytes", "timestamp", 8>> >>
      Rest(r) == Fields(r, << <<"bytes", "data", Len(r.rest) - MAC_SIZE>>,
                              <<"bytes", "mac", MAC_SIZE>> >>)
      msg(v, p) == [f \in {"version", "device_id", "seq", "timestamp", "mac"} |-> v[f]]
                   @@ "msg_type" :> MsgTypeFromCode[v.code] @@ "payload" :> p
      messages(v) ==
        IF v.code \notin DOMAIN MsgTypeFromCode THEN {}
        ELSE {msg(v, p) : p \in MessagePayload_decode(v.code, v.data)}
      Payload(r) == CHOOSE s \in {IF ms = {} THEN Err(r) ELSE [r EXCEPT !.val = CHOOSE m \in ms : TRUE] :
                                    ms \in {messages(r.val)}} : TRUE
  IN Then(Then(Fields(Reader(bytes), header), Rest), Payload)
=============================================================================
