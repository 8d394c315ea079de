-------------------------------- MODULE Modbus --------------------------------
(***************************************************************************)
(* modbus_task (tasks/modbus): a gateway between Modbus TCP and Modbus RTU *)
(* on a half duplex RS485 line.  A "bridge" build takes a request from a   *)
(* TCP client, asks an RTU device and answers; a "client" build takes a    *)
(* request from an RTU master, asks a TCP server and answers.  Each pass   *)
(* of process_flow races a timer of 30 s, which may drop it at any await.  *)
(*                                                                         *)
(* tok identifies a request, whoever made it; an answer carries the tok of *)
(* the request it was made for.  An answer of the TCP server is a stream   *)
(* of its id, its length and its bytes <<tok, 1>>, <<tok, 2>>.             *)
(***************************************************************************)
EXTENDS Naturals, FiniteSets, Sequences, SequencesExt

CONSTANTS
    ID_MAX,                   \* u16::MAX
    Toks,                     \* requests told apart: 0..Toks - 1, reused in turn
    MaxPipeline,              \* bound: requests a TCP client has sent ahead
    MaxLate,                  \* bound: answers of the RTU device to come
    MaxFaults                 \* bound: failures of peers, lines and sockets

ASSUME ModbusAssumption == {ID_MAX, Toks, MaxPipeline, MaxLate, MaxFaults} \subseteq Nat \ {0}

VARIABLES
    build,                    \* "bridge" or "client"
    pc,                       \* the await modbus_task is suspended in
    COUNTER,                  \* the transaction id
    req, resp, out,           \* the request under way, its answer, the answer delivered
    tx_en,                    \* the RS485 driver is on
    tcpIn, flight, peer,      \* received stream, what is under way, "open", "fin" or "rst"
    server, device,           \* requests at the TCP server, frames of the RTU device to come
    late,                     \* history: RTU answers were to come when the request was taken
    faults

modbusVars == << build, pc, COUNTER, req, resp, out, tx_en, tcpIn, flight, peer, server, device,
                 late, faults >>
gatewayVars == << COUNTER, req, resp, out, tx_en, late >>
tcpVars == << tcpIn, flight, peer, server >>

None == [id |-> 0, tok |-> 0, body |-> << >>]
Nobody == << >>

ModbusInit ==
    /\ build \in {"bridge", "client"}
    /\ pc = "open" /\ COUNTER = 0 /\ req = None /\ resp = None /\ out = Nobody
    /\ tx_en = FALSE
    /\ tcpIn = << >> /\ flight = << >> /\ peer = "open" /\ server = << >> /\ device = << >>
    /\ late = FALSE /\ faults = 0

Fault == faults < MaxFaults /\ faults' = faults + 1

(* The awaits of process_flow. *)
Flow == {"listen", "tcp_tx", "tcp_header", "tcp_body", "rtu_flush", "rtu_write", "rtu_rx", "rtu_more"}

-----------------------------------------------------------------------------
(* wait_connection or connect, on a new socket. *)
Open ==
    /\ pc = "open" /\ pc' = "listen"
    /\ UNCHANGED << build, gatewayVars, tcpVars, device, faults >>

OpenFails ==
    /\ pc = "open" /\ Fault
    /\ UNCHANGED << build, pc, gatewayVars, tcpVars, device >>

(* Mutant of Reset: a new pass starts with the driver off. *)
ResetDriver ==
    /\ pc = "reset" /\ pc' = "open"
    /\ tcpIn' = << >> /\ flight' = << >> /\ peer' = "open" /\ server' = << >>
    /\ out' = Nobody /\ tx_en' = FALSE
    /\ UNCHANGED << build, COUNTER, req, resp, late, device, faults >>

(* reset: close, wait, abort; the socket is dropped for the next one.      *)
(* tx_en is kept as the dropped pass left it.                              *)
Reset ==
    /\ pc = "reset" /\ pc' = "open"
    /\ tcpIn' = << >> /\ flight' = << >> /\ peer' = "open" /\ server' = << >>
    /\ out' = Nobody
    /\ UNCHANGED << build, COUNTER, req, resp, tx_en, late, device, faults >>

(* process_flow returns an error: the TCP side has ended, or anything else *)
(* is logged and the loop goes on.                                         *)
Return(error) ==
    pc' = IF error \in {"TcpRxFail", "ReadExactError", "timeout"} THEN "reset" ELSE "listen"

(* Mutant of Timeout: while the RTU device is waited for it is only logged. *)
TimeoutNotOnRtu ==
    /\ pc \in Flow
    /\ IF pc \in {"rtu_rx", "rtu_more"} THEN UNCHANGED pc ELSE Return("timeout")
    /\ UNCHANGED << build, gatewayVars, tcpVars, device, faults >>

(* The timer wins the select and process_flow is dropped where it is. *)
Timeout ==
    /\ pc \in Flow
    /\ Return("timeout")
    /\ UNCHANGED << build, gatewayVars, tcpVars, device, faults >>

(* A new request is under way. *)
Take(id) ==
    /\ req' = [id |-> id, tok |-> (req.tok + 1) % Toks, body |-> << >>]
    /\ late' = (device # << >>)
    /\ resp' = None /\ out' = Nobody

(* The conversion of a TCP request keeps its transaction id. *)
ConvertTcpRequest(id) == COUNTER' = id /\ Take(id)

(* Bridge: listen. *)
BridgeListen ==
    /\ build = "bridge" /\ pc = "listen"
    /\ IF tcpIn # << >> /\ peer # "rst"
       THEN /\ tcpIn' = Tail(tcpIn)
            /\ ConvertTcpRequest(Head(tcpIn))
            /\ pc' = "rtu_flush"
       ELSE /\ peer # "open"
            /\ Return("ReadExactError")
            /\ UNCHANGED << tcpIn, COUNTER, req, resp, out, late >>
    /\ UNCHANGED << build, tx_en, flight, peer, server, device, faults >>

increment_transaction_id == IF COUNTER = ID_MAX THEN 0 ELSE COUNTER + 1

(* The conversion of an RTU request gives it the next transaction id. *)
ConvertRtuRequest == COUNTER' = increment_transaction_id /\ Take(COUNTER')

(* Client: listen, with a good checksum.  (A frame with a bad one is       *)
(* logged and changes nothing.)  The line is half duplex: nothing is heard *)
(* with the driver on.                                                     *)
ClientListen ==
    /\ build = "client" /\ pc = "listen" /\ ~tx_en
    /\ ConvertRtuRequest
    /\ pc' = "tcp_tx"
    /\ UNCHANGED << build, tx_en, tcpVars, device, faults >>

-----------------------------------------------------------------------------
(* ModbusRtu::transmit, up to the write: the driver is switched on. *)
RtuFlush ==
    /\ pc = "rtu_flush"
    /\ tx_en' = TRUE
    /\ pc' = "rtu_write"
    /\ UNCHANGED << build, COUNTER, req, resp, out, tcpVars, device, late, faults >>

(* Mutant of DriverOff: the driver stays on. *)
DriverOffNever == UNCHANGED tx_en

DriverOff == tx_en' = FALSE

(* What the RTU device may send for a request.  Its third byte is taken for *)
(* the number of bytes that follow (payload_length): more than there are in *)
(* an exception ("short"), fewer in the answer to a write request ("long"). *)
Frame(tok, kind) == [tok |-> tok, kind |-> kind]

(* Everything is sent and the driver switched off. *)
RtuWritten ==
    /\ pc = "rtu_write"
    /\ DriverOff
    /\ IF build = "bridge"
       THEN /\ pc' = "rtu_rx"
            /\ device' \in {device} \union
                    {Append(device, Frame(req.tok, k)) : k \in {"whole", "short", "long"}}
            /\ Len(device') <= MaxLate
            /\ UNCHANGED out
       ELSE /\ pc' = "listen"
            /\ out' = resp
            /\ UNCHANGED device
    /\ UNCHANGED << build, COUNTER, req, resp, tcpVars, late, faults >>

(* A UART error, which in transmit leaves the driver as it is. *)
RtuError ==
    /\ pc \in {"rtu_flush", "rtu_write", "rtu_rx", "rtu_more"} /\ Fault
    /\ Return("Rtu")
    /\ UNCHANGED << build, gatewayVars, tcpVars, device >>

crc_check(f) == f.kind = "whole"

(* The conversion of an RTU answer: the id is that of the latest request. *)
ConvertRtuAnswer(f) == [id |-> COUNTER, tok |-> f.tok, body |-> << >>]

(* ModbusRtu::receive: as many bytes as announced.  Of a long frame the    *)
(* checksum is wrong, of a short one more bytes are waited for, unless the *)
(* line that falls idle ends the last read, without a byte.                *)
RtuReceive ==
    /\ pc = "rtu_rx" /\ ~tx_en /\ device # << >>
    /\ device' = Tail(device)
    /\ LET f == Head(device)
       IN  \/ /\ f.kind # "short" /\ crc_check(f)
              /\ resp' = ConvertRtuAnswer(f)
              /\ pc' = "tcp_tx"
           \/ f.kind # "short" /\ ~crc_check(f) /\ Return("CrcRx") /\ UNCHANGED resp
           \/ /\ f.kind = "short"
              /\ pc' = "rtu_more" \/ Return("CrcRx")
              /\ UNCHANGED resp
    /\ UNCHANGED << build, COUNTER, req, out, tx_en, late, tcpVars, faults >>

(* The bytes still wanted are taken from another frame. *)
RtuReceiveMore ==
    /\ pc = "rtu_more" /\ device # << >>
    /\ device' = Tail(device)
    /\ Return("CrcRx")
    /\ UNCHANGED << build, gatewayVars, tcpVars, faults >>

(* The UART is not read while the task is elsewhere: what comes is lost. *)
DeviceUnheard ==
    /\ pc \notin {"rtu_rx", "rtu_more"} /\ device # << >>
    /\ device' = Tail(device)
    /\ UNCHANGED << build, pc, gatewayVars, tcpVars, faults >>

-----------------------------------------------------------------------------
(* ModbusTcp::transmit *)
TcpSend ==
    /\ pc = "tcp_tx"
    /\ \/ peer = "rst" /\ Return("Tcp") /\ UNCHANGED << server, out >>
       \/ /\ peer # "rst" /\ build = "bridge"
          /\ pc' = "listen" /\ out' = resp
          /\ UNCHANGED server
       \/ /\ peer # "rst" /\ build = "client"
          /\ pc' = "tcp_header"
          /\ server' = IF peer = "open" THEN Append(server, req) ELSE server
          /\ UNCHANGED out
    /\ UNCHANGED << build, COUNTER, req, resp, tx_en, late, tcpIn, flight, peer, device,
                    faults >>

(* ModbusTcp::receive, the header: how much was read is not looked at, the *)
(* rest stays zero, and without a length the conversion fails.             *)
TcpHeader ==
    /\ pc = "tcp_header"
    /\ \/ peer = "rst" /\ Return("Tcp") /\ UNCHANGED << tcpIn, resp >>
       \/ /\ peer # "rst" /\ Len(tcpIn) >= 2
          /\ resp' = [id |-> tcpIn[1], tok |-> req.tok, body |-> << >>]
          /\ tcpIn' = SubSeq(tcpIn, 3, Len(tcpIn))
          /\ pc' = "tcp_body"
       \/ /\ peer # "rst" /\ Len(tcpIn) < 2 /\ (tcpIn # << >> \/ peer = "fin")
          /\ tcpIn' = << >>
          /\ Return("TcpRxFail")
          /\ UNCHANGED resp
    /\ UNCHANGED << build, COUNTER, req, out, tx_en, late, flight, peer, server, device,
                    faults >>

(* A byte of the body: the next of the stream, or at its end, where read   *)
(* returns 0, the one still in the buffer.                                 *)
NextByte ==
    IF tcpIn # << >> THEN Head(tcpIn)
    ELSE IF resp.body = << >> THEN << >> ELSE Last(resp.body)

(* Mutant of Convert: the transaction id of the answer is not checked. *)
ConvertUnchecked == pc' = "rtu_flush"

(* The conversion of the answer to RTU. *)
Convert ==
    IF resp.id = COUNTER THEN pc' = "rtu_flush"
    ELSE Return("InvalidTransactionId")

TcpBody ==
    /\ pc = "tcp_body"
    /\ \/ peer = "rst" /\ Return("Tcp") /\ UNCHANGED << tcpIn, resp >>
       \/ /\ peer # "rst" /\ (tcpIn # << >> \/ peer = "fin")
          /\ resp' = [resp EXCEPT !.body = Append(@, NextByte)]
          /\ tcpIn' = IF tcpIn = << >> THEN << >> ELSE Tail(tcpIn)
          /\ IF Len(resp'.body) < 2 THEN UNCHANGED pc ELSE Convert
    /\ UNCHANGED << build, COUNTER, req, out, tx_en, late, flight, peer, server, device,
                    faults >>

-----------------------------------------------------------------------------
(* The other ends of the TCP connection: a client asks, a server answers,  *)
(* once or by mistake twice, and the network delivers in pieces.           *)
Connected == pc \in Flow /\ peer = "open"

TcpClientAsks ==
    /\ build = "bridge" /\ Connected /\ Len(tcpIn) < MaxPipeline
    /\ \E id \in 0..ID_MAX : tcpIn' = Append(tcpIn, id)
    /\ UNCHANGED << build, pc, gatewayVars, flight, peer, server, device, faults >>

Answer(r) == << r.id, 2, << r.tok, 1 >>, << r.tok, 2 >> >>

TcpServerAnswers ==
    /\ build = "client" /\ Connected /\ server # << >>
    /\ server' = Tail(server)
    /\ \/ flight' = flight \o Answer(Head(server)) /\ UNCHANGED faults
       \/ flight' = flight \o Answer(Head(server)) \o Answer(Head(server)) /\ Fault
    /\ UNCHANGED << build, pc, gatewayVars, tcpIn, peer, device >>

Deliver ==
    /\ pc \in Flow /\ flight # << >> /\ peer # "rst"
    /\ \E n \in 1..Len(flight) :
         /\ tcpIn' = tcpIn \o SubSeq(flight, 1, n)
         /\ flight' = SubSeq(flight, n + 1, Len(flight))
    /\ UNCHANGED << build, pc, gatewayVars, peer, server, device, faults >>

(* The peer resets the connection, or closes it after a part of what it    *)
(* has to send.                                                            *)
PeerFails ==
    /\ Connected /\ Fault
    /\ \/ peer' = "rst" /\ UNCHANGED << tcpIn, flight >>
       \/ /\ peer' = "fin"
          /\ \E n \in 0..Len(flight) : tcpIn' = tcpIn \o SubSeq(flight, 1, n)
          /\ flight' = << >>
    /\ server' = << >>
    /\ UNCHANGED << build, pc, gatewayVars, device >>

ModbusNext ==
    \/ Open \/ OpenFails \/ Reset \/ Timeout
    \/ BridgeListen \/ ClientListen
    \/ RtuFlush \/ RtuWritten \/ RtuError \/ RtuReceive \/ RtuReceiveMore
    \/ DeviceUnheard
    \/ TcpSend \/ TcpHeader \/ TcpBody
    \/ TcpClientAsks \/ TcpServerAnswers \/ Deliver \/ PeerFails

(* The task runs when it can, the UART sends, sockets are reset and opened, *)
(* and the timer of a pass that is stuck in one await fires; an RTU master  *)
(* goes on polling.  Nothing is assumed of TCP peers and RTU devices.       *)
ModbusSpec ==
    /\ ModbusInit /\ [][ModbusNext]_modbusVars
    /\ WF_modbusVars(Open) /\ WF_modbusVars(Reset)
    /\ WF_modbusVars(BridgeListen) /\ WF_modbusVars(ClientListen)
    /\ WF_modbusVars(RtuFlush) /\ WF_modbusVars(RtuWritten) /\ WF_modbusVars(RtuReceive)
    /\ WF_modbusVars(RtuReceiveMore)
    /\ WF_modbusVars(TcpSend) /\ WF_modbusVars(TcpHeader) /\ WF_modbusVars(TcpBody)
    /\ \A p \in Flow : WF_modbusVars(pc = p /\ Timeout)

-----------------------------------------------------------------------------
(* A client between two passes with the driver left on by a pass that was  *)
(* dropped, or failed, between tx_en.set_high and set_low.                 *)
Deaf == build = "client" /\ tx_en /\ pc \in {"listen", "open", "reset"}

(* Such a client stays deaf: only ModbusRtu::transmit switches the driver  *)
(* off, a client transmits only what it was asked for, and no time-out,    *)
(* reset or new connection touches tx_en.                                  *)
DeafIsForever == [][Deaf => Deaf']_modbusVars

(* The pass is cut in the middle of a transmission. *)
Cut == pc = "rtu_write" /\ (Timeout \/ RtuError)

(* The driver never blocks the RS485 line for good, once no transmission   *)
(* is cut short any more, but for a deaf client and for a bridge that has  *)
(* nothing more to transmit: what an earlier pass left on, the next        *)
(* transmission switches off.                                              *)
DriverReleased ==
    <>[][~Cut]_modbusVars =>
        \/ []<>(~tx_en)
        \/ <>[]Deaf
        \/ build = "bridge" /\ <>[](pc # "rtu_write")

(* The bytes of the TCP server's answer to the request under way. *)
Intact == << << req.tok, 1 >>, << req.tok, 2 >> >>

(* An answer is delivered under the transaction id of its request, and is  *)
(* the answer to it, except in two cases.  RTU frames have no id, so a     *)
(* bridge delivers an answer that comes late, to a request it had given up, *)
(* as the answer to the next one.  And a client pads an answer cut off by   *)
(* the end of the stream with repeated bytes.                               *)
AnswerIsToRequest ==
    out # Nobody =>
        /\ out.id = req.id
        /\ build = "bridge" => late \/ out.tok = req.tok
        /\ build = "client" => out.body = Intact \/ peer = "fin"

(* Whatever the peers do, modbus_task always comes back to wait for a      *)
(* request or a connection: no failure suspends it for ever.               *)
AlwaysComesBack == []<>(pc \in {"listen", "open"})
=============================================================================
