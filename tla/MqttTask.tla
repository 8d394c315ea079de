------------------------------- MODULE MqttTask -------------------------------
(***************************************************************************)
(* mqtt_net_task: connect, then for ever ping, publish and wait, and with  *)
(* any error start over on a new connection.  The same client is also run  *)
(* under an arbitrary application ("library"), since rust-mqtt offers more *)
(* operations than the task uses.                                          *)
(*                                                                         *)
(* MQTTFMT.try_lock always succeeds and is left out: the firmware has one  *)
(* executor and no task main.rs spawns keeps that lock over an await.      *)
(***************************************************************************)
EXTENDS MqttClient

CONSTANT MaxOps               \* bound on the operations of a library client

ASSUME TaskAssumption == MaxOps \in Nat

VARIABLES
    app,                      \* "task" or "library"
    qos,                      \* MQTTQOS of the build
    tpc,                      \* where mqtt_net_task is
    ops                       \* operations of the library client so far

appVars == << app, qos, tpc, ops >>
taskVars == << clientVars, appVars >>

TaskInit ==
    /\ ClientInit
    /\ app \in {"task", "library"}
    /\ qos \in {"QoS0", "QoS1", "QoS2"}
    /\ app = "library" => qos = "QoS0"
    /\ tpc = "dial" /\ ops = 0

(* client.connect: the pool has one connection.  A new one has a new       *)
(* client, with a new CountingRng.                                         *)
Dial(failed) ==
    IF connection \/ failed
    THEN UNCHANGED << receiveVars, connection, rng, outbound, broker, subscribed, delivered >>
    ELSE connection' = TRUE /\ rng' = SEED /\ ClosedStream

(* Mutant of DropClient: the connection stays in the pool. *)
DropClientLeaks == ClosedStream /\ UNCHANGED connection

(* The client goes out of scope, and its connection with it. *)
DropClient == ClosedStream /\ connection' = FALSE

-----------------------------------------------------------------------------
TaskDial ==
    /\ app = "task" /\ tpc = "dial"
    /\ \E failed \in {f \in BOOLEAN : f => faults < MaxFaults} :
         /\ Dial(failed)
         /\ faults' = IF failed THEN faults + 1 ELSE faults
         /\ tpc' = IF connection \/ failed THEN "retry" ELSE "connect"
    /\ UNCHANGED << op, result, pushes, app, qos, ops >>

(* The call the task makes where it is.  Topic and payload, the JSON of an  *)
(* MqttFormat, fit the write buffer.                                       *)
TaskCall ==
    /\ app = "task" /\ op = NoOp
    /\ \/ tpc \in {"connect", "reconnect"} /\ ConnectToBroker
       \/ tpc = "ping" /\ SendPing
       \/ tpc = "disconnect" /\ Disconnect
       \/ /\ tpc = "publish"
          /\ \E size \in {s \in PublishSizes : s <= BUF} : SendMessage(qos, size)
    /\ UNCHANGED appVars

(* Where the task goes on, with a result. *)
After(r) ==
    CASE tpc = "connect" -> IF r = "ok" THEN "ping" ELSE "backoff"
      [] tpc = "ping" -> IF r = "ok" THEN "publish" ELSE "disconnect"
      [] tpc = "disconnect" -> "reconnect"
      [] tpc = "reconnect" -> "dial"
      [] tpc = "publish" -> IF r = "ok" THEN "wait" ELSE "dial"

TaskReturn ==
    /\ app = "task" /\ result # "none"
    /\ op' = NoOp /\ result' = "none"
    /\ tpc' = After(result)
    /\ IF tpc' = "dial" THEN DropClient
       ELSE UNCHANGED << receiveVars, connection, outbound, broker, subscribed, delivered >>
    /\ UNCHANGED << rng, faults, pushes, app, qos, ops >>

(* Mutant of Resume: after the interval the next message goes out at once. *)
ResumeUnpinged == "publish"

(* What follows the rate limiter. *)
Resume == "ping"

(* The 10 s after a failed connect, during which the client still exists,  *)
(* and the interval between two messages.                                  *)
TaskTimer ==
    /\ app = "task"
    /\ \/ /\ tpc \in {"retry", "backoff"} /\ tpc' = "dial"
          /\ IF tpc = "backoff" THEN DropClient
             ELSE UNCHANGED << receiveVars, connection, outbound, broker, subscribed, delivered >>
       \/ /\ tpc = "wait" /\ tpc' = Resume
          /\ UNCHANGED << receiveVars, connection, outbound, broker, subscribed, delivered >>
    /\ UNCHANGED << rng, op, result, faults, pushes, app, qos, ops >>

TaskStep == TaskDial \/ TaskCall \/ TaskReturn \/ TaskTimer

-----------------------------------------------------------------------------
(* An application that connects once and then does as it likes. *)
LibraryOpens ==
    /\ app = "library" /\ tpc = "dial"
    /\ Dial(FALSE)
    /\ tpc' = "connect" /\ ops' = 0
    /\ UNCHANGED << op, result, faults, pushes, app, qos >>

LibraryCalls ==
    /\ app = "library" /\ op = NoOp
    /\ \/ tpc = "connect" /\ ConnectToBroker /\ tpc' = "free"
       \/ /\ tpc = "free" /\ ops < MaxOps /\ UNCHANGED tpc
          /\ \/ SendPing
             \/ \E q \in DOMAIN QoSByte, size \in PublishSizes : SendMessage(q, size)
             \/ SubscribeToTopic
             \/ UnsubscribeFromTopic
             \/ ReceiveMessage
             \/ Disconnect
    /\ ops' = ops + 1
    /\ UNCHANGED << app, qos >>

LibraryReturns ==
    /\ app = "library" /\ result # "none"
    /\ op' = NoOp /\ result' = "none"
    /\ UNCHANGED << receiveVars, connection, rng, wireVars, app, qos, tpc, ops >>

LibraryEnds ==
    /\ app = "library" /\ tpc = "free" /\ op = NoOp
    /\ DropClient
    /\ tpc' = "dial" /\ ops' = 0
    /\ UNCHANGED << rng, op, result, faults, pushes, app, qos >>

LibraryStep == LibraryOpens \/ LibraryCalls \/ LibraryReturns \/ LibraryEnds

-----------------------------------------------------------------------------
(* Once receive_packet spins or has panicked its operation never returns,  *)
(* and with one executor nothing else of the firmware runs any more.       *)
MqttNext ==
    \/ Receives /\ UNCHANGED appVars
    \/ PollReturns /\ UNCHANGED appVars
    \/ PollFails /\ UNCHANGED appVars
    \/ TaskStep
    \/ LibraryStep
    \/ BrokerAnswers /\ UNCHANGED appVars
    \/ BrokerRefuses /\ UNCHANGED appVars
    \/ BrokerPublishes /\ UNCHANGED appVars
    \/ BrokerFails /\ UNCHANGED appVars

(* The executor polls the task whenever it can go on, timers fire, and a   *)
(* broker that has not hung reads its connections.  PollReturns is enabled *)
(* when Polled holds, with room for an acknowledgement, and BrokerAnswers  *)
(* when BrokerReads does, so their weak fairness is written out (TLC is    *)
(* slow to find it out).                                                   *)
MqttFairness ==
    /\ WF_taskVars(Receives /\ UNCHANGED appVars)
    /\ WF_taskVars(PollFails /\ UNCHANGED appVars)
    /\ WF_taskVars(TaskStep)
    /\ []<>~(Polled /\ Room) \/ []<><< PollReturns >>_taskVars
    /\ []<>~BrokerReads \/ []<><< BrokerAnswers >>_taskVars

MqttSpec == TaskInit /\ [][MqttNext]_taskVars /\ MqttFairness

-----------------------------------------------------------------------------
(* send_message with QoS 1 returns Ok only if the broker has this very     *)
(* message, whatever acknowledgements of earlier operations, messages and  *)
(* refusals come in between.                                               *)
AckMeansDelivered ==
    result = "ok" /\ op.kind = "publish" /\ op.qos = "QoS1" => op.id = delivered

(* When send_ping succeeds in mqtt_net_task the two ends are in step:      *)
(* nothing the client sent is unread, and nothing the broker sent, but for *)
(* a goodbye, is left over to be taken for the answer to a later operation. *)
PingMeansInStep ==
    app = "task" /\ result = "ok" /\ op.kind = "ping" =>
        outbound = << >> /\ (peer = "open" => inbound = << >>)

(* The ping before each message keeps mqtt_net_task clear of short writes, *)
(* which conn.send does not notice: no packet is ever cut.                 *)
NoShortWrite == app = "task" => \A k \in DOMAIN outbound : ~outbound[k].cut

(* However connections are refused, reset or closed, the task goes on      *)
(* publishing, unless the peer closes within a packet, when receive_packet *)
(* spins, or goes silent for good: nothing here has a time-out.            *)
PublishesForever ==
    []<>(app = "task" => tpc = "wait" \/ rpc = "spin" \/ broker = "hung")

(* "No response from MQTT server" (mqtt.rs, line 133): a ping comes back,  *)
(* with an error if the broker does not answer it.                         *)
PingComesBack == op.kind = "ping" /\ result = "none" ~> result # "none"
=============================================================================
