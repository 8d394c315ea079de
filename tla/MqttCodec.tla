------------------------------ MODULE MqttCodec ------------------------------
(***************************************************************************)
(* A packet on its way through rust-mqtt's codec: built from a             *)
(* configuration, encoded into a buffer of BUF bytes, and decoded at the   *)
(* other end, whole or cut short.  The sample values have every            *)
(* representation at its edges: empty and long strings, one to four byte   *)
(* variable integers, every property.                                      *)
(***************************************************************************)
EXTENDS MqttPackets

CONSTANTS
    BUF,                      \* size of the write buffer
    MaxCut,                   \* bound on the place of a cut
    LongLen                   \* length of the long sample string

ASSUME CodecAssumption == {BUF, LongLen, MaxCut, MAX_PROPERTIES} \subseteq Nat

VARIABLES
    stage,                    \* "idle", "built", "sent", "cut", "refused", "done" or "cut done"
    packet, wire, decoded

codecVars == << stage, packet, wire, decoded >>

Long == [i \in 1..LongLen |-> 66]
Texts == {<< >>, << 65 >>}

(* Sample values of the property id. *)
Samples(id) ==
    CASE id \in U8Ids  -> {0, 255}
      [] id \in U16Ids -> {1, 65535}
      [] id \in U32Ids -> {0, 16909060}
      [] id \in StringIds \ {31} -> Texts
      [] id = 31 -> Texts \union {Long}
      [] id \in BinaryIds -> {<< >>, << 1, 2 >>}
      [] id = 11 -> {0, 127, 128, 16383, 16384, 2097152, MAX_ENCODABLE}
      [] id = 38 -> {<< << >>, << >> >>, << << 65 >>, Long >>}

Property(id, v) == [id |-> id, val |-> v]

Single == UNION {{<< Property(id, v) >> : v \in Samples(id)} : id \in PropertyIds}
Paired == {Property(33, 1), Property(39, 1), Property(31, << 65 >>), Property(22, << 1 >>),
           Property(11, 128), Property(38, << << 65 >>, << >> >>), Property(1, 1)}

(* Properties the application has put in its configuration. *)
Configs == {<< >>} \union Single \union {<< p, q >> : p \in Paired, q \in Paired}

NoProps == [len |-> 0, list |-> << >>]

(* A packet from new(), with all fields any packet has. *)
Fresh(type, config) ==
    [ type |-> type, fixed_header |-> NewHeader(type),
      properties |-> AddProperties(Allowed[type], config),
      packet_identifier |-> 258, reason_code |-> 0, ack_flags |-> 0,
      connect_reason_code |-> 0, disconnect_reason |-> 0, auth_reason |-> 0,
      protocol_name_len |-> 4, protocol_name |-> 1297175636, protocol_version |-> 5,
      connect_flags |-> 2, keep_alive |-> 180, client_id |-> << >>,
      will_properties |-> NoProps, will_topic |-> << >>, will_payload |-> << >>,
      username |-> << >>, password |-> << >>, topic_name |-> << >>, message |-> << >>,
      topic_filters |-> << >>, reason_codes |-> << 0 >> ]

(* The packets an application can make of p. *)
Variants(p) ==
    CASE p.type = "Connect" ->
            {[p EXCEPT !.connect_flags = ConnectFlags(u, w, l, r), !.client_id = s,
                       !.username = s, !.password = << 1 >>, !.will_topic = s] :
                u, w, l, r \in BOOLEAN, s \in Texts}
      [] p.type = "Publish" ->
            {[p EXCEPT !.fixed_header = PublishHeader(q, r), !.topic_name = s, !.message = m] :
                q \in DOMAIN QoSByte, r \in BOOLEAN, s \in Texts,
                m \in IF p.properties = NoProps THEN Texts \union {Long} ELSE Texts}
      [] p.type = "Subscribe" ->
            {[p EXCEPT !.topic_filters = fs] :
                fs \in UNION {[1..n -> {NewFilter(s, q) : s \in Texts, q \in {"QoS0", "QoS1"}}] :
                                n \in 1..2}}
      [] p.type = "Unsubscribe" -> {[p EXCEPT !.topic_filters = << NewName(s) >>] : s \in Texts}
      [] p.type = "Suback" -> {[p EXCEPT !.reason_codes = [i \in 1..n |-> i]] :
                                n \in 0..MAX_REASONS}
      [] p.type = "Unsuback" -> {[p EXCEPT !.reason_codes = [i \in 1..MAX_REASONS |-> i]]}
      [] OTHER -> {[p EXCEPT !.reason_code = c, !.connect_reason_code = c,
                             !.disconnect_reason = c, !.auth_reason = c] : c \in {0, 24}}

None == [type |-> "none"]

CodecInit == stage = "idle" /\ packet = None /\ wire = << >> /\ decoded = Refused("none")

Build ==
    /\ stage = "idle"
    /\ \E type \in DOMAIN TypeByte, config \in Configs :
         packet' \in Variants(Fresh(type, config))
    /\ stage' = "built"
    /\ UNCHANGED << wire, decoded >>

(* encode, or its InsufficientBufferSize. *)
EncodePacket ==
    /\ stage = "built"
    /\ LET bytes == Encode(packet)
       IN  IF Len(bytes) <= BUF
           THEN wire' = bytes /\ stage' = "sent"
           ELSE wire' = << >> /\ stage' = "refused"
    /\ UNCHANGED << packet, decoded >>

(* The buffer handed to decode ends before the packet does: in its first   *)
(* MaxCut bytes, or just before its last.                                  *)
Cut ==
    /\ stage = "sent"
    /\ \E n \in (0..(Len(wire) - 1)) \ (MaxCut..(Len(wire) - 2)) : wire' = SubSeq(wire, 1, n)
    /\ stage' = "cut"
    /\ UNCHANGED << packet, decoded >>

DecodePacket ==
    /\ stage \in {"sent", "cut"}
    /\ decoded' = Decode(packet.type, wire)
    /\ stage' = IF stage = "cut" THEN "cut done" ELSE "done"
    /\ UNCHANGED << packet, wire >>

Reuse ==
    /\ stage \in {"refused", "done", "cut done"}
    /\ stage' = "idle" /\ packet' = None /\ wire' = << >> /\ decoded' = Refused("none")

CodecNext == Build \/ EncodePacket \/ Cut \/ DecodePacket \/ Reuse

CodecSpec == CodecInit /\ [][CodecNext]_codecVars

-----------------------------------------------------------------------------
(* The remaining length encode computes before it writes is exactly what   *)
(* it then writes, for every packet, flag, QoS and list of properties: one *)
(* byte off and the broker loses the packet boundaries.                    *)
RemLenExact ==
    stage = "sent" =>
        LET h == ReadHeader(wire)
        IN  h.err = "ok" /\ Len(wire) = h.pos + h.val

FieldsOf(p) == {Layout(p)[i][2] : i \in DOMAIN Layout(p)}

Recovered ==
    /\ decoded.err = "ok"
    /\ \A f \in FieldsOf(packet) : decoded.set[f] = packet[f]

HasBinary == \E i \in DOMAIN packet.properties.list : packet.properties.list[i].id \in BinaryIds

(* decode recovers every field of every packet it is written for, in       *)
(* whatever combination of properties, except those decode cannot read     *)
(* back (binary properties, after which read_binary does not advance) and  *)
(* a PUBREL made by new(), which has no packet type.                       *)
RoundTrip ==
    stage = "done" /\ packet.type \notin NoDecode /\ packet.type # "Pubrel" /\ ~HasBinary
        => Recovered

(* A packet cut short is refused wherever the cut is, except inside the    *)
(* message of a PUBLISH, which has no length of its own.                   *)
CutIsRefused ==
    stage = "cut done" /\ ~HasBinary =>
        \/ decoded.err # "ok"
        \/ packet.type = "Publish" /\ IsPrefix(decoded.set["message"], packet.message)
=============================================================================
