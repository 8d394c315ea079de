------------------------------ MODULE MqttClient ------------------------------
(***************************************************************************)
(* The client of rust-mqtt (client.rs over raw_client.rs): one operation   *)
(* at a time sends a packet and, if it wants an answer, polls for exactly  *)
(* one packet, whatever that packet turns out to be.  The other end of the *)
(* stream is a broker: external, it answers in order and may fail.         *)
(***************************************************************************)
EXTENDS MqttReceive, MqttPackets

CONSTANTS
    TX,                       \* bytes the socket's transmit buffer holds
    ID_MAX,                   \* u16::MAX in CountingRng
    SEED,                     \* the CountingRng a client is made with
    CONNECT_SIZE,             \* encoded size of CONNECT, from the configuration
    SUBSCRIBE_SIZE,           \* encoded size of SUBSCRIBE and UNSUBSCRIBE
    PublishSizes,             \* encoded sizes of PUBLISH, from topic and payload
    MaxFaults, MaxPushes      \* bounds on failures, and on messages the broker sends

ASSUME ClientAssumption ==
    /\ PublishSizes \union {TX, ID_MAX, SEED, CONNECT_SIZE, SUBSCRIBE_SIZE, MaxFaults, MaxPushes}
            \subseteq Nat
    /\ SEED <= ID_MAX /\ ID_MAX >= 1

VARIABLES
    connection,               \* connection is Some
    rng,                      \* config.rng
    op,                       \* the operation under way, or just returned
    result,                   \* what it returned, "none" until then
    outbound,                 \* packets the broker has not read
    broker,                   \* "new", "up" or "hung"
    subscribed, delivered,    \* the broker's subscription, identifier of the last PUBLISH it got
    faults, pushes

wireVars == << outbound, broker, subscribed, delivered, faults, pushes >>
clientVars == << receiveVars, connection, rng, op, result, wireVars >>

NoOp == [kind |-> "none", qos |-> "QoS0", id |-> 0]

ClientInit ==
    /\ ReceiveInit
    /\ connection = FALSE /\ rng = SEED /\ op = NoOp /\ result = "none"
    /\ outbound = << >> /\ broker = "new" /\ subscribed = FALSE /\ delivered = 0
    /\ faults = 0 /\ pushes = 0

-----------------------------------------------------------------------------
(* CountingRng::next_u64 *)
NextId == IF rng + 1 > ID_MAX THEN 1 ELSE rng + 1

(* Bytes the socket has taken and the broker not read. *)
Outstanding ==
    LET upTo[k \in 0..Len(outbound)] == IF k = 0 THEN 0 ELSE upTo[k - 1] + outbound[k].size
    IN  upTo[Len(outbound)]

Packet(type, id, qos, size) ==
    [type |-> type, id |-> id, qos |-> qos, size |-> size, cut |-> FALSE]

(* A write waits until the socket can take a byte at least. *)
Room == Outstanding < TX

(* conn.send: how many of the bytes the socket has taken is not looked at. *)
Sent(p) == Append(outbound, [p EXCEPT !.cut = Outstanding + p.size > TX])

(* An operation that sends packet p, as soon as there is room, and then    *)
(* returns, or polls.  p is encoded only with a connection, and refused if *)
(* it exceeds the buffer.                                                  *)
Operation(kind, p, polls) ==
    /\ op = NoOp
    /\ op' = [kind |-> kind, qos |-> p.qos, id |-> p.id]
    /\ IF connection /\ p.size <= BUF /\ peer # "rst"
       THEN /\ Room
            /\ outbound' = Sent(p)
            /\ IF polls THEN result' = "none" /\ StartReceive
                        ELSE result' = "ok" /\ UNCHANGED << rpc, position, i, header, target, buffer >>
       ELSE /\ result' = IF connection /\ p.size > BUF THEN "BuffError" ELSE "NetworkError"
            /\ UNCHANGED << outbound, rpc, position, i, header, target, buffer >>
    /\ UNCHANGED << inbound, peer, connection, broker, subscribed, delivered, faults, pushes >>

(* rng.next_u32() as u16, by the operations that need an identifier. *)
TakeId == rng' = IF connection THEN NextId ELSE rng

ConnectToBroker ==
    Operation("connect", Packet("Connect", 0, "QoS0", CONNECT_SIZE), TRUE) /\ UNCHANGED rng

SendPing == Operation("ping", Packet("Pingreq", 0, "QoS0", 2), TRUE) /\ UNCHANGED rng

SendMessage(qos, size) ==
    Operation("publish", Packet("Publish", NextId, qos, size), qos = "QoS1") /\ TakeId

SubscribeToTopic ==
    Operation("subscribe", Packet("Subscribe", NextId, "QoS0", SUBSCRIBE_SIZE), TRUE) /\ TakeId

UnsubscribeFromTopic ==
    Operation("unsubscribe", Packet("Unsubscribe", NextId, "QoS0", SUBSCRIBE_SIZE), TRUE) /\ TakeId

ReceiveMessage ==
    /\ op = NoOp
    /\ op' = [NoOp EXCEPT !.kind = "receive"]
    /\ IF connection THEN StartReceive /\ UNCHANGED result
       ELSE result' = "NetworkError" /\ UNCHANGED << rpc, position, i, header, target, buffer >>
    /\ UNCHANGED << inbound, peer, connection, rng, wireVars >>

(* What was in flight when a connection is dropped concerns the client no more. *)
ClosedStream ==
    /\ EndReceive
    /\ inbound' = << >> /\ peer' = "open"
    /\ outbound' = << >> /\ broker' = "new" /\ subscribed' = FALSE /\ delivered' = 0

(* disconnect: a failed send is only logged, the connection is taken. *)
Disconnect ==
    /\ op = NoOp
    /\ op' = [NoOp EXCEPT !.kind = "disconnect"]
    /\ result' = IF connection THEN "ok" ELSE "NetworkError"
    /\ connection' = FALSE
    /\ ClosedStream
    /\ UNCHANGED << rng, faults, pushes >>

-----------------------------------------------------------------------------
(* A packet of the broker, without properties, as bytes. *)
Reply(type, id, code) ==
    CASE type = "Connack" -> << 32, 3, 0, code, 0 >>
      [] type = "Pingresp" -> << 208, 0 >>
      [] type = "Puback" -> << 64, 4, id \div 256, id % 256, code, 0 >>
      [] type = "Pubrec" -> << 80, 4, id \div 256, id % 256, code, 0 >>
      [] type = "Suback" -> << 144, 4, id \div 256, id % 256, 0, code >>
      [] type = "Unsuback" -> << 176, 4, id \div 256, id % 256, 0, code >>
      [] type = "Disconnect" -> << 224, 2, code, 0 >>

(* A message: topic "A", identifier 7 where there is one. *)
Message(qos, payload) ==
    IF qos = "QoS1" THEN << 50, 6 + Len(payload), 0, 1, 65, 0, 7, 0 >> \o payload
    ELSE << 48, 4 + Len(payload), 0, 1, 65, 0 >> \o payload

AnswerType == [ Connect |-> "Connack", Pingreq |-> "Pingresp", Subscribe |-> "Suback",
                Unsubscribe |-> "Unsuback" ]

(* The bytes the broker answers packet p with; code # 0 is a refusal. *)
Answer(p, code) ==
    CASE p.type \in DOMAIN AnswerType -> Reply(AnswerType[p.type], p.id, code)
      [] p.type = "Publish" /\ p.qos = "QoS1" -> Reply("Puback", p.id, code)
      [] p.type = "Publish" /\ p.qos = "QoS2" -> Reply("Pubrec", p.id, code)
      [] OTHER -> << >>

-----------------------------------------------------------------------------
Event(kind, id) == [kind |-> kind, id |-> id]
Failed(reason) == Event("Err", reason)

(* The reasons of a SUBACK must be max_subscribe_qos, 0 here; poll::<0>    *)
(* keeps none of them and has nothing to compare.                          *)
Granted(codes) == op.kind = "subscribe" => \A k \in DOMAIN codes : codes[k] = 0

(* poll, once receive_packet has returned a packet of this type that       *)
(* decodes to p.                                                           *)
EventOf(type, p) ==
    IF type \in {"Reserved", "Connect", "Subscribe", "Unsubscribe", "Pingreq"}
    THEN Failed("ProtocolError")
    ELSE IF type \in {"Pubrec", "Pubrel", "Pubcomp", "Auth"}
    THEN Failed("ImplementationSpecificError")
    ELSE IF p.err # "ok" THEN Failed("BuffError")
    ELSE CASE type = "Connack" -> IF p.set["connect_reason_code"] = 0
                                  THEN Event("Connack", 0) ELSE Failed("refused")
           [] type = "Puback" ->
                 IF "reason_code" \in DOMAIN p.set /\ p.set["reason_code"] # 0
                 THEN Failed("refused") ELSE Event("Puback", p.set["packet_identifier"])
           [] type = "Suback" -> IF Granted(p.set["reason_codes"])
                                 THEN Event("Suback", p.set["packet_identifier"])
                                 ELSE Failed("refused")
           [] type = "Unsuback" -> Event("Unsuback", p.set["packet_identifier"])
           [] type = "Pingresp" -> Event("Pingresp", 0)
           [] type = "Publish" -> Event("Message", IF "packet_identifier" \in DOMAIN p.set
                                                   THEN p.set["packet_identifier"] ELSE 0)
           [] type = "Disconnect" -> Event("Disconnect", 0)

Expected == [ connect |-> "Connack", ping |-> "Pingresp", publish |-> "Puback",
              subscribe |-> "Suback", unsubscribe |-> "Unsuback", receive |-> "Message" ]

(* Mutant of Outcome: the identifier of an acknowledgement is not compared. *)
OutcomeAnyId(e) ==
    IF e.kind = "Err" THEN e.id
    ELSE IF e.kind = Expected[op.kind] THEN "ok"
    ELSE IF e.kind = "Disconnect" THEN "refused"
    ELSE "ImplementationSpecificError"

(* Mutant of Outcome: any packet of the broker answers a ping. *)
OutcomeAnyPong(e) ==
    IF e.kind = Expected[op.kind] \/ op.kind = "ping" THEN "ok"
    ELSE "ImplementationSpecificError"

(* The match on the event in each operation of client.rs. *)
Outcome(e) ==
    IF e.kind = "Err" THEN e.id
    ELSE IF e.kind = Expected[op.kind]
         THEN IF e.kind \in {"Puback", "Suback", "Unsuback"} /\ e.id # op.id
              THEN "PacketIdentifierNotFound" ELSE "ok"
    ELSE IF e.kind = "Disconnect" THEN "refused"
    ELSE "ImplementationSpecificError"

Polled == op.kind \in DOMAIN Expected /\ result = "none" /\ rpc = "done"

(* The operation returns on event e; a QoS 1 message is acknowledged first. *)
Return(e, qos1) ==
    LET acks == e.kind = "Message" /\ qos1
    IN  IF acks /\ peer = "rst"
        THEN result' = "NetworkError" /\ UNCHANGED outbound
        ELSE /\ acks => Room
             /\ result' = Outcome(e)
             /\ outbound' = IF acks THEN Sent(Packet("Puback", e.id, "QoS0", 6)) ELSE outbound

PollReturns ==
    /\ Polled
    /\ Return(EventOf(TypeOf(buffer[1]), Decode(TypeOf(buffer[1]), buffer)),
              (buffer[1] \div 2) % 4 = 1)
    /\ EndReceive
    /\ UNCHANGED << inbound, peer, connection, rng, op, broker, subscribed, delivered, faults,
                    pushes >>

PollFails ==
    /\ op.kind \in DOMAIN Expected /\ result = "none" /\ rpc = "err"
    /\ result' = "NetworkError"
    /\ EndReceive
    /\ UNCHANGED << inbound, peer, connection, rng, op, wireVars >>

Receives == ReceiveStep /\ UNCHANGED << connection, rng, op, result, wireVars >>

-----------------------------------------------------------------------------
BrokerReads == connection /\ peer = "open" /\ broker # "hung" /\ outbound # << >>

(* The broker reads the next packet and answers it.  A packet cut off by a *)
(* short write makes no sense to it and ends the connection.               *)
BrokerAnswers ==
    /\ BrokerReads
    /\ LET p == Head(outbound)
       IN  /\ inbound' = IF p.cut THEN inbound ELSE inbound \o Answer(p, 0)
           /\ peer' = IF p.cut THEN "fin" ELSE peer
           /\ broker' = IF p.type = "Connect" THEN "up" ELSE broker
           /\ subscribed' = IF p.type = "Subscribe" THEN TRUE
                            ELSE IF p.type = "Unsubscribe" THEN FALSE ELSE subscribed
           /\ delivered' = IF p.type = "Publish" /\ ~p.cut THEN p.id ELSE delivered
    /\ outbound' = Tail(outbound)
    /\ UNCHANGED << rpc, position, i, header, target, buffer, connection, rng, op, result,
                    faults, pushes >>

(* The broker refuses what it is asked. *)
BrokerRefuses ==
    /\ BrokerReads
    /\ faults < MaxFaults
    /\ faults' = faults + 1
    /\ Head(outbound).type \in {"Connect", "Subscribe"} \/ Head(outbound).qos = "QoS1"
    /\ inbound' = inbound \o Answer(Head(outbound), 135)
    /\ outbound' = Tail(outbound)
    /\ UNCHANGED << rpc, position, i, header, target, buffer, peer, connection, rng, op, result,
                    broker, subscribed, delivered, pushes >>

(* A message for a subscribed client comes at any time. *)
BrokerPublishes ==
    /\ connection /\ peer = "open" /\ broker = "up" /\ subscribed
    /\ pushes < MaxPushes
    /\ pushes' = pushes + 1
    /\ \E qos \in {"QoS0", "QoS1"}, payload \in {<< 66 >>, << 66, 66 >>} :
         inbound' = inbound \o Message(qos, payload)
    /\ UNCHANGED << rpc, position, i, header, target, buffer, peer, connection, rng, op, result,
                    outbound, broker, subscribed, delivered, faults >>

(* The broker says goodbye, closes anywhere in its stream, resets the      *)
(* connection or stops answering.                                          *)
BrokerFails ==
    /\ connection /\ peer = "open" /\ broker # "hung"
    /\ faults < MaxFaults
    /\ faults' = faults + 1
    /\ \/ inbound' = inbound \o Reply("Disconnect", 0, 139) /\ peer' = "fin" /\ UNCHANGED broker
       \/ \E n \in 0..Len(inbound) : inbound' = SubSeq(inbound, 1, n)
          /\ peer' = "fin" /\ UNCHANGED broker
       \/ peer' = "rst" /\ UNCHANGED << inbound, broker >>
       \/ broker' = "hung" /\ UNCHANGED << inbound, peer >>
    /\ UNCHANGED << rpc, position, i, header, target, buffer, connection, rng, op, result,
                    outbound, subscribed, delivered, pushes >>
=============================================================================
