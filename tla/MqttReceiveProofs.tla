-------------------------- MODULE MqttReceiveProofs ---------------------------
(***************************************************************************)
(* For every buffer size and every stream of bytes receive_packet stays    *)
(* within its packet and panics only on a length that is malformed or      *)
(* exceeds half the buffer.  The variable byte integers it reads lengths   *)
(* with are exact for every value MQTT allows.                             *)
(***************************************************************************)
EXTENDS MqttReceive, TLAPS

(* One step of the loop of encode splits off a digit base 128. *)
LEMMA OneDigit ==
    ASSUME NEW n \in Nat
    PROVE  \E a \in Nat, t \in Nat :
             a < 128 /\ n % 128 = a /\ Rest(n) = t /\ n = a + 128 * t
<1>1. n % 128 \in Nat /\ n % 128 < 128 /\ n \div 128 \in Nat
      /\ n = (n % 128) + 128 * (n \div 128)
  BY SMT
<1> QED
  BY <1>1 DEF Rest

(* The four digits of a number that encode accepts. *)
LEMMA FourDigits ==
    ASSUME NEW n \in Nat, n <= MAX_ENCODABLE
    PROVE  \E a, b, c, d \in Nat :
             /\ a < 128 /\ b < 128 /\ c < 128 /\ d < 128
             /\ n = a + 128 * b + 16384 * c + 2097152 * d
             /\ VarintEncode(n) =
                  << a + Continue(b + 128 * c + 16384 * d),
                     b + Continue(c + 128 * d), c + Continue(d), d >>
<1>1. PICK a \in Nat, t1 \in Nat :
        a < 128 /\ n % 128 = a /\ Rest(n) = t1 /\ n = a + 128 * t1
  BY OneDigit
<1>2. PICK b \in Nat, t2 \in Nat :
        b < 128 /\ t1 % 128 = b /\ Rest(t1) = t2 /\ t1 = b + 128 * t2
  BY OneDigit
<1>3. PICK c \in Nat, d \in Nat :
        c < 128 /\ t2 % 128 = c /\ Rest(t2) = d /\ t2 = c + 128 * d
  BY OneDigit
<1>4. n <= 268435455
  BY SMT DEF MAX_ENCODABLE
<1>5. d < 128
  BY <1>1, <1>2, <1>3, <1>4, SMT
<1>6. d % 128 = d
  BY <1>5, SMT
<1>7. VarintEncode(n) = << a + Continue(t1), b + Continue(t2), c + Continue(d), d >>
  BY <1>1, <1>2, <1>3, <1>6 DEF VarintEncode
<1>8. t1 = b + 128 * c + 16384 * d
  BY <1>2, <1>3, SMT
<1>9. n = a + 128 * b + 16384 * c + 2097152 * d
  BY <1>1, <1>8, SMT
<1>10. VarintEncode(n) =
         << a + Continue(b + 128 * c + 16384 * d), b + Continue(c + 128 * d), c + Continue(d), d >>
  BY <1>3, <1>7, <1>8
<1> WITNESS a \in Nat, b \in Nat, c \in Nat, d \in Nat
<1> QED
  BY <1>1, <1>2, <1>3, <1>5, <1>9, <1>10

(* Every byte of an encoded value is a byte, and the fourth ends it. *)
THEOREM VarintBytes ==
    ASSUME NEW n \in Nat, n <= MAX_ENCODABLE
    PROVE  /\ \A k \in 1..4 : VarintEncode(n)[k] \in 0..255
           /\ VarintEncode(n)[4] < 128
<1>1. PICK a, b, c, d \in Nat :
        /\ a < 128 /\ b < 128 /\ c < 128 /\ d < 128
        /\ VarintEncode(n) =
             << a + Continue(b + 128 * c + 16384 * d),
                b + Continue(c + 128 * d), c + Continue(d), d >>
  BY FourDigits
<1>2. \A x \in Nat : Continue(x) \in {0, 128}
  BY DEF Continue
<1>3. b + 128 * c + 16384 * d \in Nat /\ c + 128 * d \in Nat
  BY SMT
<1>4. /\ VarintEncode(n)[1] \in 0..255 /\ VarintEncode(n)[2] \in 0..255
      /\ VarintEncode(n)[3] \in 0..255 /\ VarintEncode(n)[4] \in 0..127
  BY <1>1, <1>2, <1>3, SMT
<1> QED
  BY <1>4, SMT

(* decode undoes encode for every value encode accepts: a remaining or     *)
(* property length survives the wire whatever its size.                    *)
THEOREM VarintRoundTrip ==
    ASSUME NEW n \in Nat, n <= MAX_ENCODABLE
    PROVE  VarintDecode(VarintEncode(n)) = n
  BY FourDigits, SMT DEF VarintDecode, VarintLen, Continue

(* The encoding is the shortest possible: a value takes k bytes exactly    *)
(* when it does not fit in k - 1.  The packets' remaining lengths add      *)
(* VarintLen, so they rest on this.                                        *)
THEOREM VarintShortest ==
    ASSUME NEW n \in Nat, n <= MAX_ENCODABLE
    PROVE  VarintLen(VarintEncode(n)) =
               IF n < 128 THEN 1 ELSE IF n < 16384 THEN 2
               ELSE IF n < 2097152 THEN 3 ELSE 4
  BY FourDigits, SMT DEF VarintLen, Continue

-----------------------------------------------------------------------------
(* The shape of the receiver's state.  That a byte is below 256 is not     *)
(* needed, so this also serves for the streams of MqttTask.                *)
ReceiveTypeOK ==
    /\ rpc \in {"off", "header", "body", "done", "err", "spin", "panic"}
    /\ position \in Nat /\ i \in Nat /\ header \in Nat /\ target \in Nat
    /\ buffer \in Seq(Nat) /\ inbound \in Seq(Nat)
    /\ peer \in {"open", "fin", "rst"}

(* In the header the length is not known yet, hence at most four bytes are *)
(* there, none of them the last of a length.                               *)
HeaderPhase == rpc = "header" => Len(buffer) <= 4

ReceiveInv == ReceiveTypeOK /\ HeaderPhase /\ NeverOverreads /\ PanicOnlyOnExcess

(* The length bytes decode to a natural number (VariableByteIntegerDecoder). *)
LEMMA RemLenIsNat ==
    ASSUME NEW b \in Seq(Nat) PROVE VarintDecode(RemLenOf(b)) \in Nat
<1> DEFINE v == RemLenOf(b)
<1>1. ASSUME NEW k \in 1..4 PROVE v[k] \in Nat
  <2>1. v[k] = IF k < Len(b) THEN b[k + 1] ELSE 0
    BY DEF RemLenOf
  <2>2. ASSUME k < Len(b) PROVE b[k + 1] \in Nat
    <3>1. k + 1 \in 1..Len(b)
      BY <2>2
    <3> QED
      BY <3>1
  <2> HIDE DEF v
  <2> QED
    BY <2>1, <2>2
<1>2. v[1] \in Nat /\ v[2] \in Nat /\ v[3] \in Nat /\ v[4] \in Nat
  BY <1>1
<1> HIDE DEF v
<1>3. \A x \in Nat : x % 128 \in Nat
  BY SMT
<1>4. v[1] % 128 \in Nat /\ v[2] % 128 \in Nat /\ v[3] % 128 \in Nat /\ v[4] % 128 \in Nat
  BY <1>2, <1>3
<1> DEFINE k == VarintLen(v)
<1> HIDE DEF k
<1>5. VarintDecode(v) = (v[1] % 128) + (IF k >= 2 THEN 128 * (v[2] % 128) ELSE 0)
                        + (IF k >= 3 THEN 16384 * (v[3] % 128) ELSE 0)
                        + (IF k >= 4 THEN 2097152 * (v[4] % 128) ELSE 0)
  BY SMT DEF VarintDecode, k
<1> HIDE DEF v
<1> DEFINE t2 == IF k >= 2 THEN 128 * (v[2] % 128) ELSE 0
           t3 == IF k >= 3 THEN 16384 * (v[3] % 128) ELSE 0
           t4 == IF k >= 4 THEN 2097152 * (v[4] % 128) ELSE 0
<1>6. t2 \in Nat /\ t3 \in Nat /\ t4 \in Nat
  <2>1. \A x \in Nat : 128 * x \in Nat /\ 16384 * x \in Nat /\ 2097152 * x \in Nat
    BY SMT
  <2> QED
    BY <1>4, <2>1, SMT
<1> HIDE DEF t2, t3, t4
<1>7. VarintDecode(v) \in Nat
  <2>1. VarintDecode(v) = (v[1] % 128) + t2 + t3 + t4
    BY <1>5 DEF t2, t3, t4
  <2> QED
    BY <1>4, <1>6, <2>1, SMT
<1> QED
  BY <1>7 DEF v

(* One byte of the header keeps the invariant. *)
LEMMA HeaderReadKeeps ==
    ASSUME ReceiveInv, HeaderRead PROVE ReceiveInv'
<1> USE BufAssumption DEF ReceiveInv, ReceiveTypeOK, HeaderRead
<1>1. inbound' \in Seq(Nat) /\ buffer' \in Seq(Nat) /\ Len(buffer') = Len(buffer) + 1
  OBVIOUS
<1>2. position' = Len(buffer') /\ Len(buffer') <= 5
  BY <1>1 DEF NeverOverreads, HeaderPhase
<1>3. CASE ~RemLenKnown(buffer')
  <2>1. Len(buffer') <= 4
    BY <1>1, <1>2, <1>3 DEF RemLenKnown
  <2> QED
    BY <1>1, <1>2, <1>3, <2>1 DEF HeaderPhase, NeverOverreads, PanicOnlyOnExcess
<1>4. CASE RemLenKnown(buffer') /\ MalformedLength(buffer')
  BY <1>1, <1>2, <1>4 DEF HeaderPhase, NeverOverreads, PanicOnlyOnExcess
<1>5. CASE RemLenKnown(buffer') /\ ~MalformedLength(buffer')
  <2>1. target' \in Nat /\ header' = position' /\ i' = 0 /\ rpc' = "body"
    BY <1>1, <1>5, RemLenIsNat
  <2> QED
    BY <1>1, <1>2, <2>1 DEF HeaderPhase, NeverOverreads, PanicOnlyOnExcess
<1> QED
  BY <1>3, <1>4, <1>5

(* A read of the body keeps the invariant, whatever its size. *)
LEMMA BodyReadKeeps ==
    ASSUME ReceiveInv, BodyRead PROVE ReceiveInv'
<1> USE BufAssumption DEF ReceiveInv, ReceiveTypeOK
<1>1. PICK n \in 1..Smaller(Wanted, Len(inbound)) :
         /\ i' = i + n
         /\ inbound' = SubSeq(inbound, n + 1, Len(inbound))
         /\ IF SliceEnd(i') <= BUF
            THEN /\ position' = position + n
                 /\ buffer' = buffer \o SubSeq(inbound, 1, n)
                 /\ UNCHANGED rpc
            ELSE rpc' = "panic" /\ UNCHANGED << position, buffer >>
  BY DEF BodyRead
<1>2. /\ rpc = "body" /\ header' = header /\ target' = target /\ peer' = peer
      /\ position = header + i /\ i <= target /\ position = Len(buffer)
  BY DEF BodyRead, NeverOverreads
<1>3. n \in Nat /\ n >= 1 /\ n <= target - i /\ n <= Len(inbound)
  BY <1>1, <1>2 DEF Smaller, Wanted
<1>4. i' \in Nat /\ i' <= target
  BY <1>1, <1>2, <1>3
<1>5. inbound' \in Seq(Nat)
  <2>1. n + 1 \in 1..(Len(inbound) + 1) /\ Len(inbound) \in Nat
    BY <1>3
  <2>2. \A k \in (n + 1)..Len(inbound) : inbound[k] \in Nat
    BY <1>3
  <2> QED
    BY <1>1, <2>1, <2>2
<1>6. CASE SliceEnd(i') <= BUF
  <2>1. SubSeq(inbound, 1, n) \in Seq(Nat) /\ Len(SubSeq(inbound, 1, n)) = n
    BY <1>3
  <2>2. buffer' = buffer \o SubSeq(inbound, 1, n) /\ position' = position + n /\ rpc' = rpc
    BY <1>1, <1>6
  <2>3. buffer' \in Seq(Nat) /\ Len(buffer') = Len(buffer) + n
    BY <2>1, <2>2
  <2> QED
    BY <1>1, <1>2, <1>3, <1>4, <1>5, <2>2, <2>3
    DEF HeaderPhase, NeverOverreads, PanicOnlyOnExcess
<1>7. CASE ~(SliceEnd(i') <= BUF)
  <2>1. rpc' = "panic" /\ position' = position /\ buffer' = buffer
    BY <1>1, <1>2, <1>4, <1>7
  <2>2. header' + 2 * target' > BUF + 1
    BY <1>1, <1>2, <1>3, <1>4, <1>7 DEF SliceEnd
  <2> QED
    BY <1>2, <1>4, <1>5, <2>1, <2>2 DEF HeaderPhase, NeverOverreads, PanicOnlyOnExcess
<1> QED
  BY <1>6, <1>7

(* Every step of the receiver and of the stream keeps the invariant. *)
LEMMA ReceiveInductive == ReceiveInv /\ [ReceiveNext]_receiveVars => ReceiveInv'
<1> SUFFICES ASSUME ReceiveInv, [ReceiveNext]_receiveVars PROVE ReceiveInv'
  OBVIOUS
<1> USE BufAssumption
<1>1. CASE HeaderRead
  BY <1>1, HeaderReadKeeps
<1>2. CASE BodyRead
  BY <1>2, BodyReadKeeps
<1>3. CASE BodyTooLong
  BY <1>3 DEF BodyTooLong, Wanted, ReceiveInv, ReceiveTypeOK, HeaderPhase, NeverOverreads,
              PanicOnlyOnExcess
<1>4. CASE BodyDone \/ ReadError
  BY <1>4 DEF BodyDone, ReadError, Reading, ReceiveInv, ReceiveTypeOK, HeaderPhase,
              NeverOverreads, PanicOnlyOnExcess
<1>9. CASE ReadZero
  <2>1. rpc = "body" => i < target /\ position = header + i
    BY <1>9 DEF ReadZero, Reading, ReceiveInv, ReceiveTypeOK, NeverOverreads
  <2>2. rpc' = "panic" => header' + 2 * target' > BUF + 1
    BY <1>9, <2>1 DEF ReadZero, Reading, SliceEnd, ReceiveInv, ReceiveTypeOK
  <2> QED
    BY <1>9, <2>2 DEF ReadZero, ReceiveInv, ReceiveTypeOK, HeaderPhase, NeverOverreads,
                      PanicOnlyOnExcess
<1>5. ASSUME Poll \/ PollEnds PROVE ReceiveInv'
  <2>1. /\ rpc' \in {"header", "off"} /\ position' = 0 /\ i' = 0 /\ header' = 0 /\ target' = 0
        /\ buffer' = << >> /\ inbound' = inbound /\ peer' = peer
    BY <1>5 DEF Poll, PollEnds, StartReceive, EndReceive
  <2> QED
    BY <2>1 DEF ReceiveInv, ReceiveTypeOK, HeaderPhase, NeverOverreads, PanicOnlyOnExcess
<1>6. CASE Arrive
  BY <1>6 DEF Arrive, Byte, ReceiveInv, ReceiveTypeOK, HeaderPhase, NeverOverreads, PanicOnlyOnExcess
<1>7. CASE PeerEnds
  BY <1>7 DEF PeerEnds, ReceiveInv, ReceiveTypeOK, HeaderPhase, NeverOverreads, PanicOnlyOnExcess
<1>8. CASE UNCHANGED receiveVars
  BY <1>8 DEF receiveVars, ReceiveInv, ReceiveTypeOK, HeaderPhase, NeverOverreads,
              PanicOnlyOnExcess
<1> QED
  BY <1>1, <1>2, <1>3, <1>4, <1>5, <1>6, <1>7, <1>8, <1>9 DEF ReceiveNext, ReceiveStep

(* The receiver's invariant holds always. *)
LEMMA ReceiveAlways == ReceiveSpec => []ReceiveInv
<1>1. ReceiveInit => ReceiveInv
  BY BufAssumption DEF ReceiveInit, ReceiveInv, ReceiveTypeOK, HeaderPhase, NeverOverreads,
                       PanicOnlyOnExcess
<1> QED
  BY <1>1, ReceiveInductive, PTL DEF ReceiveSpec

(* For every buffer and every stream, however it is split into reads,      *)
(* receive_packet panics only on a malformed length or a packet of more    *)
(* than half the buffer.                                                   *)
THEOREM SplitReadsAreSafe == ReceiveSpec => []PanicOnlyOnExcess
<1>1. ReceiveInv => PanicOnlyOnExcess
  BY DEF ReceiveInv
<1> QED
  BY <1>1, ReceiveAlways, PTL

(* For every buffer and every stream receive_packet takes exactly the      *)
(* bytes of its packet and counts them right.                              *)
THEOREM FramingIsKept == ReceiveSpec => []NeverOverreads
<1>1. ReceiveInv => NeverOverreads
  BY DEF ReceiveInv
<1> QED
  BY <1>1, ReceiveAlways, PTL
=============================================================================
