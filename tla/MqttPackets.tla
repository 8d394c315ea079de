----------------------------- MODULE MqttPackets -----------------------------
(***************************************************************************)
(* The MQTT 5 packets of rust-mqtt (packet/v5): what each encodes after    *)
(* its fixed header, the remaining length it computes for that, and what   *)
(* it decodes.  A packet is a record with the fields of the source's       *)
(* struct; a layout is the sequence of <<representation, field>> that      *)
(* encode writes or decode reads, in order.                                *)
(***************************************************************************)
EXTENDS MqttBuffer

CONSTANT MAX_REASONS          \* capacity of a list of reason codes

(* PacketType into u8: also the first byte of a packet made by new(). *)
TypeByte == [ Connect |-> 16, Connack |-> 32, Publish |-> 48, Puback |-> 64, Pubrec |-> 80,
              Pubrel |-> 98, Pubcomp |-> 112, Subscribe |-> 130, Suback |-> 144,
              Unsubscribe |-> 162, Unsuback |-> 176, Pingreq |-> 192, Pingresp |-> 208,
              Disconnect |-> 224, Auth |-> 240 ]

(* PacketType from u8: only the high half counts. *)
TypeOf(header) ==
    LET t == {t \in DOMAIN TypeByte : TypeByte[t] \div 16 = header \div 16}
    IN  IF t = {} THEN "Reserved" ELSE CHOOSE x \in t : TRUE

(* PubrelPacket::new() leaves the fixed header 0. *)
NewHeader(type) == IF type = "Pubrel" THEN 0 ELSE TypeByte[type]

(* QualityOfService into u8; the bits of fixed_header & 0x06. *)
QoSByte == [ QoS0 |-> 0, QoS1 |-> 2, QoS2 |-> 4 ]
HasId(header) == (header \div 2) % 4 # 0

(* add_qos and add_retain. *)
PublishHeader(qos, retain) == 48 + QoSByte[qos] + (IF retain THEN 1 ELSE 0)

(* new() sets the clean start flag; add_username, add_password, add_will. *)
ConnectFlags(user, password, will, retain) ==
    2 + (IF user THEN 128 ELSE 0) + (IF password THEN 64 ELSE 0)
      + (IF will THEN 4 + (IF retain THEN 32 ELSE 0) ELSE 0)

(* add_new_filter of SUBSCRIBE, and of UNSUBSCRIBE. *)
NewFilter(name, qos) == [filter |-> name, sub_options |-> QoSByte[qos] \div 2]
NewName(name) == [filter |-> name, sub_options |-> 1]

(* connect_flags & 0x04, 0x80 and 0x40. *)
WillFlag(p) == (p.connect_flags \div 4) % 2 = 1
UserFlag(p) == (p.connect_flags \div 128) % 2 = 1
PasswordFlag(p) == (p.connect_flags \div 64) % 2 = 1

-----------------------------------------------------------------------------
(* The properties a packet may carry (xxx_property in property.rs). *)
ConnectProperties == {17, 33, 39, 34, 25, 23, 38, 21, 22}
ConnackProperties == {17, 33, 36, 39, 18, 34, 31, 38, 40, 41, 42, 19, 26, 28, 21, 22}
PublishProperties == {1, 2, 35, 8, 9, 38, 11, 3}
PubackProperties  == {31, 38}
PubrecProperties  == {31, 38}
PubrelProperties  == {31, 38}
PubcompProperties == {31, 38}
SubscribeProperties == {11, 38}
SubackProperties  == {31, 38}
UnsubscribeProperties == {38}
UnsubackProperties == {31, 38}
PingProperties    == {}
DisconnectProperties == {17, 31, 38, 28}
AuthProperties    == {21, 22, 31, 38}

Allowed == [ Connect |-> ConnectProperties, Connack |-> ConnackProperties,
             Publish |-> PublishProperties, Puback |-> PubackProperties,
             Pubrec |-> PubrecProperties, Pubrel |-> PubrelProperties,
             Pubcomp |-> PubcompProperties, Subscribe |-> SubscribeProperties,
             Suback |-> SubackProperties, Unsubscribe |-> UnsubscribeProperties,
             Unsuback |-> UnsubackProperties, Pingreq |-> PingProperties,
             Pingresp |-> PingProperties, Disconnect |-> DisconnectProperties,
             Auth |-> AuthProperties ]

-----------------------------------------------------------------------------
Props == << "props", "properties" >>
Ident == << "u16", "packet_identifier" >>
Reason == << "u8", "reason_code" >>

(* property_len and the length of its own encoding. *)
PropsSize(ps) == ps.len + VarintLen(VarintEncode(ps.len))

ConnectLayout(p) ==
    << << "u16", "protocol_name_len" >>, << "u32", "protocol_name" >>,
       << "u8", "protocol_version" >>, << "u8", "connect_flags" >>,
       << "u16", "keep_alive" >>, Props, << "str", "client_id" >> >>
    \o (IF WillFlag(p) THEN << << "props", "will_properties" >>, << "str", "will_topic" >>,
                               << "bin", "will_payload" >> >> ELSE << >>)
    \o (IF UserFlag(p) THEN << << "str", "username" >> >> ELSE << >>)
    \o (IF PasswordFlag(p) THEN << << "bin", "password" >> >> ELSE << >>)

ConnectRemLen(p) ==
    PropsSize(p.properties) + 10 + Len(p.client_id) + 2
    + (IF WillFlag(p) THEN PropsSize(p.will_properties) + Len(p.will_topic) + 2
                           + Len(p.will_payload) + 2 ELSE 0)
    + (IF UserFlag(p) THEN Len(p.username) + 2 ELSE 0)
    + (IF PasswordFlag(p) THEN Len(p.password) + 2 ELSE 0)

PublishLayout(header) ==
    << << "str", "topic_name" >> >> \o (IF HasId(header) THEN << Ident >> ELSE << >>)
    \o << Props, << "message", "message" >> >>

(* Mutant of PublishRemLen: the identifier of QoS 1 and 2 is not counted. *)
PublishRemLenNoId(p) == PropsSize(p.properties) + Len(p.message) + Len(p.topic_name) + 2

PublishRemLen(p) ==
    PropsSize(p.properties) + Len(p.message) + Len(p.topic_name) + 2
    + (IF HasId(p.fixed_header) THEN 2 ELSE 0)

(* The filters' lengths, each with `extra` bytes more, as encode adds them. *)
FiltersSize(p, extra) ==
    FoldLeft(LAMBDA n, f : AsU16(n + Len(f.filter) + extra), 0, p.topic_filters)

SubscribeLayout == << Ident, Props, << "filters", "topic_filters" >> >>
SubscribeRemLen(p) == PropsSize(p.properties) + 2 + FiltersSize(p, 3)

UnsubscribeLayout == << Ident, Props, << "names", "topic_filters" >> >>
UnsubscribeRemLen(p) == PropsSize(p.properties) + 2 + FiltersSize(p, 2)

PubackLayout == << Ident, Reason, Props >>
PubackRemLen(p) == PropsSize(p.properties) + 3
(* A broker may leave out the reason, or the properties, when they are empty. *)
PubackReads(rem) ==
    << Ident >> \o (IF rem # 2 THEN << Reason >> ELSE << >>)
                \o (IF rem >= 4 THEN << Props >> ELSE << >>)

PubrecLayout == << Ident, Reason, Props >>
PubrecRemLen(p) == PropsSize(p.properties) + 3

PubrelLayout == << Ident, Reason, Props >>
PubrelRemLen(p) == PropsSize(p.properties) + 3

PubcompLayout == << Ident, Reason, Props >>
PubcompRemLen(p) == PropsSize(p.properties) + 3

ConnackLayout == << << "u8", "ack_flags" >>, << "u8", "connect_reason_code" >>, Props >>
ConnackRemLen(p) == 2 + PropsSize(p.properties)

DisconnectLayout == << << "u8", "disconnect_reason" >>, Props >>
DisconnectRemLen(p) == 1 + PropsSize(p.properties)
DisconnectReads(rem) == IF rem = 0 THEN << >> ELSE DisconnectLayout

AuthLayout == << << "u8", "auth_reason" >>, Props >>
AuthRemLen(p) == PropsSize(p.properties) + 1

(* SUBACK and UNSUBACK are only decoded: the reasons up to the end of the  *)
(* packet in one, MAX_REASONS of them in the other.                        *)
SubackReads == << Ident, Props, << "codes", "reason_codes" >> >>
UnsubackReads == << Ident, Props, << "maxcodes", "reason_codes" >> >>

PingreqLayout == << >>
PingrespLayout == << >>

-----------------------------------------------------------------------------
Write(kind, v) ==
    CASE kind = "u8"  -> << v >>
      [] kind = "u16" -> U16(v)
      [] kind = "u32" -> U32(v)
      [] kind = "str" -> WriteString(v)
      [] kind = "bin" -> WriteBinary(v)
      [] kind = "props" -> WriteProps(v)
      [] kind = "filters" -> WriteFilters(TRUE, v)
      [] kind = "names" -> WriteFilters(FALSE, v)
      [] OTHER -> v

WriteLayout(p, layout) ==
    FlattenSeq([i \in DOMAIN layout |-> Write(layout[i][1], p[layout[i][2]])])

Layout(p) ==
    CASE p.type = "Connect" -> ConnectLayout(p)
      [] p.type = "Connack" -> ConnackLayout
      [] p.type = "Publish" -> PublishLayout(p.fixed_header)
      [] p.type = "Puback" -> PubackLayout
      [] p.type = "Pubrec" -> PubrecLayout
      [] p.type = "Pubrel" -> PubrelLayout
      [] p.type = "Pubcomp" -> PubcompLayout
      [] p.type = "Subscribe" -> SubscribeLayout
      [] p.type = "Unsubscribe" -> UnsubscribeLayout
      [] p.type = "Pingreq" -> PingreqLayout
      [] p.type = "Pingresp" -> PingrespLayout
      [] p.type = "Disconnect" -> DisconnectLayout
      [] p.type = "Auth" -> AuthLayout
      [] p.type = "Suback" -> SubackReads
      [] p.type = "Unsuback" -> UnsubackReads

RemLen(p) ==
    CASE p.type = "Connect" -> ConnectRemLen(p)
      [] p.type = "Connack" -> ConnackRemLen(p)
      [] p.type = "Publish" -> PublishRemLen(p)
      [] p.type = "Puback" -> PubackRemLen(p)
      [] p.type = "Pubrec" -> PubrecRemLen(p)
      [] p.type = "Pubrel" -> PubrelRemLen(p)
      [] p.type = "Pubcomp" -> PubcompRemLen(p)
      [] p.type = "Subscribe" -> SubscribeRemLen(p)
      [] p.type = "Unsubscribe" -> UnsubscribeRemLen(p)
      [] p.type = "Disconnect" -> DisconnectRemLen(p)
      [] p.type = "Auth" -> AuthRemLen(p)
      [] OTHER -> 0

(* SUBACK and UNSUBACK, as a broker writes them. *)
BrokerEncode(p) ==
    LET body == WriteLayout(p, Layout(p))
    IN  << p.fixed_header >> \o WriteVarint(Len(body)) \o body

(* encode.  Its writes fail at the first that does not fit in the buffer. *)
Encode(p) ==
    IF p.type \in {"Suback", "Unsuback"} THEN BrokerEncode(p)
    ELSE << p.fixed_header >> \o WriteVarint(RemLen(p)) \o WriteLayout(p, Layout(p))

-----------------------------------------------------------------------------
(* The reason codes of a SUBACK: up to byte `end` of the buffer. *)
ReadCodes(r, end) ==
    IF end > Len(r.buf) THEN Fail(r, "InsufficientBufferSize")
    ELSE Got(r, SubSeq(r.buf, r.pos + 1, Min({end, r.pos + MAX_REASONS})), end - r.pos)

(* end: the first byte after the packet, from its remaining length. *)
Read(r, kind, end) ==
    CASE kind = "u8"  -> ReadUint(r, 1)
      [] kind = "u16" -> ReadUint(r, 2)
      [] kind = "u32" -> ReadUint(r, 4)
      [] kind = "str" -> ReadString(r)
      [] kind = "bin" -> ReadBinary(r)
      [] kind = "props" -> ReadProps(r)
      [] kind = "message" -> ReadMessage(r, end)
      [] kind = "codes" -> IF r.pos >= end THEN Got(r, << >>, 0) ELSE ReadCodes(r, end)
      [] kind = "maxcodes" -> ReadCodes(r, r.pos + MAX_REASONS)

Reads(type, header, rem) ==
    CASE type = "Publish" -> PublishLayout(header)
      [] type = "Puback" -> PubackReads(rem)
      [] type = "Disconnect" -> DisconnectReads(rem)
      [] OTHER -> Layout([type |-> type])

(* Packets whose decode only reports WrongPacketToDecode. *)
NoDecode == {"Connect", "Subscribe", "Unsubscribe", "Pingreq"}

(* decode_fixed_header: the first byte, then the remaining length. *)
ReadHeader(buf) == Then(ReadUint(Reader(buf), 1), ReadVarint)

Refused(e) == [err |-> e, set |-> << >>]

(* The fields decoded so far, and one more or again. *)
With(set, field, v) ==
    [f \in DOMAIN set \union {field} |-> IF f = field THEN v ELSE set[f]]

(* A field read: stored, unless the read failed. *)
Store(st, field, q) ==
    [r |-> q, set |-> IF q.err = "ok" THEN With(st.set, field, q.val) ELSE st.set]

(* The fields of a layout, one after the other; `end` is where the packet ends. *)
ReadFields(h, layout, end) ==
    LET read[n \in 0..Len(layout)] ==
            IF n = 0 THEN [r |-> h, set |-> << >>]
            ELSE LET st == read[n - 1]
                 IN  IF st.r.err # "ok" THEN st
                     ELSE Store(st, layout[n][2], Read(st.r, layout[n][1], end))
    IN  read[Len(layout)]

Result(st) == [err |-> st.r.err, set |-> st.set]

(* What a packet of another type, or a PINGRESP that is not empty, is *)
(* refused with.                                                      *)
Mismatch(type) == IF type = "Disconnect" THEN "WrongPacketToDecode" ELSE "PacketTypeMismatch"

DecodeBody(type, buf, h) ==
    IF h.err # "ok" THEN Refused(h.err)
    ELSE IF \/ type # "Auth" /\ TypeOf(buf[1]) # type
            \/ type = "Pingresp" /\ h.val # 0
         THEN Refused(Mismatch(type))
    ELSE Result(ReadFields(h, Reads(type, buf[1], h.val),
                           1 + VarintLen(VarintEncode(h.val)) + h.val))

(* decode of the packet `type`: the error, and the fields it has set.      *)
(* Every packet but AUTH checks the type in the first byte.                *)
Decode(type, buf) ==
    IF type \in NoDecode THEN Refused("WrongPacketToDecode")
    ELSE DecodeBody(type, buf, ReadHeader(buf))
=============================================================================
