----------------------------- MODULE MqttReceive ------------------------------
(***************************************************************************)
(* receive_packet of rust-mqtt's raw client: one packet is taken from the  *)
(* TCP stream, the fixed header byte by byte, the body in as many reads as *)
(* the network makes of it.  Every read goes to recv_buffer and is copied  *)
(* from there to buffer by insert_ref; both hold BUF bytes.                *)
(***************************************************************************)
EXTENDS Varint, Sequences

CONSTANT BUF                  \* buffer_len and recv_buffer_len

ASSUME BufAssumption == BUF \in Nat /\ BUF >= 5

VARIABLES
    rpc,                      \* "off", "header", "body", "done", "err", "spin" or "panic"
    position,                 \* writer.position
    i,                        \* bytes of the header, then of the body, read so far
    header,                   \* rem_len_len
    target,                   \* target_len
    buffer,                   \* the bytes inserted so far
    inbound,                  \* the bytes of the stream not read yet
    peer                      \* the other end: "open", "fin" or "rst"

receiveVars == << rpc, position, i, header, target, buffer, inbound, peer >>

Smaller(a, b) == IF a <= b THEN a ELSE b

(* get_rem_len: the length is complete, or its fourth byte is there. *)
RemLenKnown(b) == Len(b) >= 2 /\ (b[Len(b)] < 128 \/ Len(b) = 5)

(* The length bytes, in an array of four. *)
RemLenOf(b) == [k \in 1..4 |-> IF k < Len(b) THEN b[k + 1] ELSE 0]

(* receive_packet is entered. *)
StartReceive ==
    /\ rpc' = "header" /\ position' = 0 /\ i' = 0 /\ header' = 0 /\ target' = 0
    /\ buffer' = << >>

(* receive_packet has returned and its packet been used. *)
EndReceive ==
    /\ rpc' = "off" /\ position' = 0 /\ i' = 0 /\ header' = 0 /\ target' = 0
    /\ buffer' = << >>

(* A fourth length byte that says "continue": decode indexes past its array. *)
MalformedLength(b) == Len(b) = 5 /\ b[5] >= 128

(* One byte of the header; with the last one the length of the body. *)
HeaderRead ==
    /\ rpc = "header"
    /\ inbound # << >>
    /\ buffer' = Append(buffer, Head(inbound))
    /\ inbound' = Tail(inbound)
    /\ position' = position + 1
    /\ IF RemLenKnown(buffer')
       THEN IF MalformedLength(buffer')
            THEN rpc' = "panic" /\ UNCHANGED << i, header, target >>
            ELSE /\ rpc' = "body" /\ i' = 0 /\ header' = position'
                 /\ target' = VarintDecode(RemLenOf(buffer'))
       ELSE i' = i + 1 /\ UNCHANGED << rpc, header, target >>
    /\ UNCHANGED peer

(* Mutant of Wanted: the bytes already read are not taken off. *)
WantedAll == target

(* The space offered to the network in recv_buffer[position..]. *)
Wanted == target - i

(* Mutant of SliceEnd: the header is counted in position and again. *)
SliceEndTwice(k) == position + header + k

(* The end of the slice of recv_buffer that is inserted, i being k. *)
SliceEnd(k) == position + k

(* A read of n bytes.  The slice offered and the one inserted, which is    *)
(* position..position + i with i counted from the start of the body, must  *)
(* both lie within recv_buffer: indexing panics otherwise, so the check of *)
(* insert_ref never fails.                                                 *)
BodyRead ==
    /\ rpc = "body"
    /\ position # target + header
    /\ position + Wanted <= BUF
    /\ \E n \in 1..Smaller(Wanted, Len(inbound)) :
         /\ i' = i + n
         /\ inbound' = SubSeq(inbound, n + 1, Len(inbound))
         /\ IF SliceEnd(i') <= BUF
            THEN /\ position' = position + n
                 /\ buffer' = buffer \o SubSeq(inbound, 1, n)
                 /\ UNCHANGED rpc
            ELSE rpc' = "panic" /\ UNCHANGED << position, buffer >>
    /\ UNCHANGED << header, target, peer >>

BodyTooLong ==
    /\ rpc = "body"
    /\ position # target + header
    /\ position + Wanted > BUF
    /\ rpc' = "panic"
    /\ UNCHANGED << position, i, header, target, buffer, inbound, peer >>

BodyDone ==
    /\ rpc = "body"
    /\ position = target + header
    /\ rpc' = "done"
    /\ UNCHANGED << position, i, header, target, buffer, inbound, peer >>

(* A read is asked for, into a slice that lies within recv_buffer. *)
Reading ==
    \/ rpc = "header"
    \/ rpc = "body" /\ position # target + header /\ position + Wanted <= BUF

(* The peer has closed: read returns 0 at once.  The header loop returns   *)
(* NetworkError, the body loop takes the slice of i bytes again, which may *)
(* reach beyond recv_buffer, and asks again, without ever yielding.        *)
ReadZero ==
    /\ Reading
    /\ inbound = << >> /\ peer = "fin"
    /\ rpc' = IF rpc = "header" THEN "err"
              ELSE IF SliceEnd(i) <= BUF THEN "spin" ELSE "panic"
    /\ UNCHANGED << position, i, header, target, buffer, inbound, peer >>

ReadError ==
    /\ Reading
    /\ peer = "rst"
    /\ rpc' = "err"
    /\ UNCHANGED << position, i, header, target, buffer, inbound, peer >>

ReceiveStep == HeaderRead \/ BodyRead \/ BodyTooLong \/ BodyDone \/ ReadZero \/ ReadError

-----------------------------------------------------------------------------
(* The receiver alone, with any stream of bytes. *)
Byte == 0..255

ReceiveInit ==
    /\ rpc = "off" /\ position = 0 /\ i = 0 /\ header = 0 /\ target = 0
    /\ buffer = << >> /\ inbound = << >> /\ peer = "open"

Poll ==
    /\ rpc = "off"
    /\ StartReceive
    /\ UNCHANGED << inbound, peer >>

PollEnds ==
    /\ rpc \in {"done", "err"}
    /\ EndReceive
    /\ UNCHANGED << inbound, peer >>

Arrive ==
    /\ peer = "open"
    /\ \E b \in Byte : inbound' = Append(inbound, b)
    /\ UNCHANGED << rpc, position, i, header, target, buffer, peer >>

PeerEnds ==
    /\ peer = "open"
    /\ peer' \in {"fin", "rst"}
    /\ UNCHANGED << rpc, position, i, header, target, buffer, inbound >>

ReceiveNext == ReceiveStep \/ Poll \/ PollEnds \/ Arrive \/ PeerEnds

ReceiveSpec == ReceiveInit /\ [][ReceiveNext]_receiveVars

-----------------------------------------------------------------------------
(* receive_packet panics only on a malformed length or for a packet with a *)
(* body of more than half the buffer: however the network splits a shorter *)
(* one, every slice of recv_buffer lies within it.                         *)
PanicOnlyOnExcess ==
    rpc = "panic" => MalformedLength(buffer) \/ header + 2 * target > BUF + 1

(* receive_packet never takes a byte beyond its packet, and what it has    *)
(* inserted is what it has counted: position is the bytes in the buffer,   *)
(* the header and the part of the body read.                               *)
NeverOverreads ==
    /\ position = Len(buffer)
    /\ rpc \in {"body", "done"} => i <= target /\ position = header + i
    /\ rpc = "done" => Len(buffer) = header + target
=============================================================================
