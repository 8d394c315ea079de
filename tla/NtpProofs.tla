------------------------------- MODULE NtpProofs -------------------------------
(***************************************************************************)
(* The RTC of module Ntp follows the server, for a second of any number of *)
(* fractions, an era of any length and any delay of the answer.            *)
(***************************************************************************)
EXTENDS Ntp, TLAPS

-----------------------------------------------------------------------------
(* Division by a constant. *)

(* Quotient and remainder. *)
LEMMA DivMod ==
  ASSUME NEW m \in Nat \ {0}, NEW t \in Int
  PROVE  /\ (t % m) \in 0..(m-1)
         /\ (t \div m) \in Int
         /\ t = m * (t \div m) + (t % m)
  BY Z3

(* Multiples of m are m or more apart. *)
LEMMA MulStep ==
  ASSUME NEW m \in Nat \ {0}, NEW p \in Int, NEW q \in Int, p < q
  PROVE  m * p + m <= m * q
<1>1. m * (q - p - 1) >= 0
  BY Z3
<1>2. m * (q - p - 1) = m * q - m * p - m
  BY Z3
<1> QED  BY <1>1, <1>2, Z3

(* They determine the number, and it determines them. *)
LEMMA ModUnique ==
  ASSUME NEW m \in Nat \ {0}, NEW p \in Int, NEW q \in Int, NEW r \in 0..(m-1), NEW s \in 0..(m-1),
         m * p + r = m * q + s
  PROVE  p = q /\ r = s
<1>1. ~(p < q)
  BY MulStep
<1>2. ~(q < p)
  BY MulStep
<1> QED  BY <1>1, <1>2

(* Read off from any such representation. *)
LEMMA DivOf ==
  ASSUME NEW m \in Nat \ {0}, NEW t \in Int, NEW q \in Int, NEW r \in 0..(m-1), t = m * q + r
  PROVE  (t \div m) = q /\ (t % m) = r
<1> DEFINE d == t \div m
           e == t % m
<1>1. e \in 0..(m-1) /\ d \in Int /\ t = m * d + e
  BY DivMod
<1> HIDE DEF d, e
<1>2. m * d + e = m * q + r
  BY <1>1
<1>3. d = q /\ e = r
  BY <1>1, <1>2, ModUnique
<1> QED  BY <1>3 DEF d, e

(* Taking a time stamp modulo an era of m seconds keeps its fraction and   *)
(* its seconds modulo m.                                                   *)
LEMMA StampParts ==
  ASSUME NEW m \in Nat \ {0}, NEW t \in Nat
  PROVE  /\ (t % (m * m)) \in Int
         /\ (t % (m * m)) \div m = (t \div m) % m
         /\ (t % (m * m)) % m = t % m
<1> DEFINE T == t \div m
           f == t % m
           e == T \div m
           s == T % m
           n == m * m
           v == t % n
<1>1. f \in 0..(m-1) /\ T \in Int /\ t = m * T + f
  BY DivMod
<1> HIDE DEF T, f
<1>2. s \in 0..(m-1) /\ e \in Int /\ T = m * e + s
  BY <1>1, DivMod
<1> HIDE DEF e, s
<1>3. n \in Nat \ {0}
  BY Z3
<1>4. m * s \in 0..(n - m)
  <2>1. m * (m - 1) = n - m
    BY Z3
  <2>2. m * s >= 0 /\ m * s \in Int
    BY <1>2, Z3
  <2>3. m * s <= m * (m - 1)
    <3>1. CASE s = m - 1
      BY <3>1, <2>1, <2>2, <1>3
    <3>2. CASE s < m - 1
      <4>1. m * s + m <= m * (m - 1)
        BY <1>2, <3>2, MulStep
      <4> QED  BY <4>1, <2>1, <2>2, <1>3
    <3> QED  BY <1>2, <3>1, <3>2
  <2> QED  BY <2>1, <2>2, <2>3, <1>3
<1>5. t = n * e + (m * s + f)
  <2>1. m * (m * e + s) = m * m * e + m * s
    BY <1>2, Z3
  <2> QED  BY <2>1, <1>1, <1>2
<1>6. m * s + f \in 0..(n - 1)
  BY <1>1, <1>3, <1>4
<1>7. v = m * s + f
  <2> DEFINE k == m * s + f
  <2>1. k \in 0..(n - 1) /\ t = n * e + k
    BY <1>5, <1>6
  <2> HIDE DEF n, k
  <2>2. (t \div n) = e /\ (t % n) = k
    BY <1>2, <1>3, <2>1, DivOf
  <2> QED  BY <2>2 DEF k
<1>8. v \in Int
  BY <1>6, <1>7
<1> HIDE DEF v
<1>9. (v \div m) = s /\ (v % m) = f
  BY <1>1, <1>2, <1>7, <1>8, DivOf
<1> QED  BY <1>8, <1>9 DEF v, s, f, T, n

-----------------------------------------------------------------------------
(* The inductive invariant. *)

(* The instants of a behaviour. *)
TimesInv ==
    /\ start \in Starts /\ now \in start .. (start + Horizon)
    /\ at \in [1..4 -> Nat]
    /\ \A i \in 1..4 : at[i] \in start .. now
    /\ zone \in Int /\ skew \in Int /\ sent \in 0 .. (U64 - 1)

(* The answer of the server, from the instants it was made at. *)
Answer == [kind |-> "answer", origin |-> sent, mode |-> 4, version |-> 4, stratum |-> 1,
           len |-> 48, recv |-> at[2] % U64, tx |-> at[3] % U64]

(* A datagram is under way only while the client waits, and it is the      *)
(* server's answer or one that the client refuses.                         *)
PacketInv ==
    \/ packet = Nothing
    \/ pc = "recv" /\ packet = [kind |-> "request"]
    \/ pc = "recv" /\ packet.kind = "answer" /\ Refused(packet)
    \/ pc = "recv" /\ packet = Answer

(* The RTC is set after the one answer. *)
RtcInv == rtc \in Int /\ (rtc # Unset => pc = "tick" /\ RtcFollowsServer)

NtpInv == TimesInv /\ PacketInv /\ RtcInv

-----------------------------------------------------------------------------
(* The constants. *)
LEMMA Units ==
  /\ U32 \in Nat \ {0} /\ U32 >= 3 /\ U64 \in Nat /\ U64 > 1
  /\ NTP_TIMESTAMP_DELTA \in 0..(U32 - 1) /\ Horizon \in Nat
  /\ USEC_IN_SEC \in Nat \ {0} /\ Starts \subseteq Nat /\ Skews \subseteq Nat /\ Zones \subseteq Nat
<1>1. U32 \in Nat /\ NTP_TIMESTAMP_DELTA \in Nat /\ USEC_IN_SEC \in Nat /\ Horizon \in Nat
  BY NtpAssumption
<1>2. 1 < USEC_IN_SEC /\ USEC_IN_SEC < U32 /\ NTP_TIMESTAMP_DELTA < U32
  BY NtpAssumption
<1>3. U32 \in Nat \ {0} /\ U32 >= 3
  BY <1>1, <1>2
<1>4. U32 * U32 \in Nat /\ U32 * U32 > 1
  BY <1>3, Z3
<1> QED  BY <1>1, <1>2, <1>3, <1>4, NtpAssumption DEF U64

(* The request's time stamp is a u64. *)
LEMMA StampTypes ==
  ASSUME now \in Int, start \in Int, skew \in Int
  PROVE  get_ntp_timestamp \in 0 .. (U64 - 1)
<1>1. U64 \in Nat \ {0} /\ U32 \in Nat \ {0} /\ USEC_IN_SEC \in Nat \ {0} /\ NTP_TIMESTAMP_DELTA \in Int
  BY Units
<1>2. Micros \in Int
  <2> DEFINE t == (IF gen = "std" THEN now ELSE start) + skew - NTP_TIMESTAMP_DELTA * U32
  <2>1. NTP_TIMESTAMP_DELTA * U32 \in Int
    BY <1>1, Z3
  <2>2. t \in Int
    BY <2>1
  <2> HIDE DEF t
  <2>3. t * USEC_IN_SEC \in Int
    BY <1>1, <2>2, Z3
  <2>4. (t * USEC_IN_SEC) \div U32 \in Int
    BY <1>1, <2>3, DivMod
  <2> QED  BY <2>4 DEF Micros, t
<1>3. timestamp_sec \in Int
  BY <1>1, <1>2, DivMod DEF timestamp_sec
<1>4. timestamp_subsec_micros \in Int
  <2>1. (Micros % USEC_IN_SEC) \in Int /\ (Micros % U32) \in Int
    BY <1>1, <1>2, DivMod
  <2> QED  BY <2>1 DEF timestamp_subsec_micros
<1> DEFINE a == (timestamp_sec + NTP_TIMESTAMP_DELTA) * U32
           b == timestamp_subsec_micros * (U32 - 1)
           c == b \div USEC_IN_SEC
<1>5. a \in Int /\ b \in Int
  BY <1>1, <1>3, <1>4, Z3
<1> HIDE DEF a, b
<1>6. c \in Int
  BY <1>1, <1>5, DivMod
<1> HIDE DEF c
<1>7. (a + c) % U64 \in 0 .. (U64 - 1)
  <2>1. a + c \in Int
    BY <1>5, <1>6
  <2> QED  BY <1>1, <2>1, DivMod
<1> QED  BY <1>7 DEF get_ntp_timestamp, a, b, c

(* A stray datagram is refused. *)
LEMMA StraysRefused ==
  ASSUME NEW p \in Strays, sent \in 0 .. (U64 - 1)
  PROVE  p.kind = "answer" /\ Refused(p)
<1>1. (sent + 1) % U64 # sent
  <2>1. U64 \in Nat \ {0} /\ U64 > 1
    BY Units
  <2>2. CASE sent = U64 - 1
    <3>1. (sent + 1) % U64 = 0
      <4>1. sent + 1 = U64 * 1 + 0 /\ sent + 1 \in Int /\ 0 \in 0..(U64-1)
        BY <2>1, <2>2, Z3
      <4> QED  BY <2>1, <4>1, DivOf
    <3> QED  BY <2>1, <2>2, <3>1
  <2>3. CASE sent < U64 - 1
    <3>1. (sent + 1) % U64 = sent + 1
      <4>1. sent + 1 = U64 * 0 + (sent + 1) /\ sent + 1 \in 0..(U64-1)
        BY <2>1, <2>3, Z3
      <4> QED  BY <2>1, <4>1, DivOf
    <3> QED  BY <3>1
  <2> QED  BY <2>1, <2>2, <2>3
<1> DEFINE other == (sent + 1) % U64
           good == [kind |-> "answer", origin |-> sent, mode |-> 4, version |-> 4, stratum |-> 1,
                    len |-> 48, recv |-> 0, tx |-> 0]
<1>2. p \in {[good EXCEPT !.origin = other], [good EXCEPT !.mode = 3],
             [good EXCEPT !.version = 3], [good EXCEPT !.stratum = 0], [good EXCEPT !.len = 0]}
  BY DEF Strays
<1>3. other # sent
  BY <1>1
<1> HIDE DEF other
<1> QED  BY <1>2, <1>3 DEF Refused

(* What an answer that is accepted sets the RTC to. *)
LEMMA AcceptedSeconds ==
  ASSUME TimesInv, packet = Answer
  PROVE  NtpResult(packet).seconds
            = (at[3] \div U32 - NTP_TIMESTAMP_DELTA) + (IF (at[3] % U32) = U32 - 1 THEN 1 ELSE 0)
<1> DEFINE D == NTP_TIMESTAMP_DELTA
           t == at[3]
           T == t \div U32
           f == t % U32
           v == t % U64
           S == T % U32
           carry == IF f = U32 - 1 THEN 1 ELSE 0
<1>1. U32 \in Nat \ {0} /\ U32 >= 3 /\ D \in 0..(U32-1) /\ Horizon \in Nat
  BY Units
<1>2. t \in Nat /\ D * U32 <= t /\ t < (D + U32 - 1) * U32
  <2>1. start \in Nat /\ D * U32 <= start /\ start + Horizon < (D + U32 - 1) * U32
    BY Units, EpochAssumption DEF TimesInv
  <2>2. t \in Nat /\ start <= t /\ t <= start + Horizon
    BY Units DEF TimesInv
  <2>3. D * U32 \in Int /\ (D + U32 - 1) * U32 \in Int
    BY <1>1, Z3
  <2> QED  BY <1>1, <2>1, <2>2, <2>3
<1>3. NtpResult(packet).seconds = (UnixSeconds(v) + (v % U32) \div (U32 - 1)) % U32
  BY DEF NtpResult, Answer
<1> HIDE DEF D, t
<1>4. f \in 0..(U32-1) /\ T \in Int /\ t = U32 * T + f
  <2>1. t \in Int
    BY <1>2
  <2> QED  BY <1>1, <2>1, DivMod
<1>5. v \in Int /\ v \div U32 = S /\ v % U32 = f
  BY <1>1, <1>2, StampParts DEF U64
<1> HIDE DEF T, f
<1>6. T - D \in 0..(U32 - 2)
  <2>1. ~(T < D)
    <3>1. SUFFICES ASSUME T < D PROVE FALSE
      OBVIOUS
    <3>2. U32 * T + U32 <= U32 * D
      BY <1>1, <1>4, <3>1, MulStep
    <3>3. U32 * D = D * U32 /\ U32 * T \in Int /\ U32 * D \in Int
      BY <1>1, <1>4, Z3
    <3> QED  BY <1>1, <1>2, <1>4, <3>2, <3>3
  <2>2. ~(D + U32 - 2 < T)
    <3>1. SUFFICES ASSUME D + U32 - 2 < T PROVE FALSE
      OBVIOUS
    <3>2. U32 * (D + U32 - 2) + U32 <= U32 * T
      BY <1>1, <1>4, <3>1, MulStep
    <3>3. U32 * (D + U32 - 2) + U32 = (D + U32 - 1) * U32 /\ U32 * T \in Int /\ (D + U32 - 1) * U32 \in Int
      BY <1>1, <1>4, Z3
    <3> QED  BY <1>1, <1>2, <1>4, <3>2, <3>3
  <2> QED  BY <1>1, <1>4, <2>1, <2>2
<1>7. S \in 0..(U32-1) /\ S = (T % U32)
  BY <1>1, <1>4, DivMod
<1>8. (S - D) % U32 = T - D
  <2> DEFINE e == T \div U32
  <2>1. e \in Int /\ T = U32 * e + S
    BY <1>1, <1>4, DivMod
  <2> HIDE DEF e, S
  <2>2. S - D = U32 * (-e) + (T - D)
    <3>1. U32 * (-e) = -(U32 * e)
      BY <1>1, <2>1, Z3
    <3>2. U32 * e \in Int
      BY <1>1, <2>1, Z3
    <3> QED  BY <1>1, <1>4, <1>7, <2>1, <3>1, <3>2
  <2>3. S - D \in Int /\ -e \in Int /\ T - D \in 0..(U32-1)
    BY <1>1, <1>6, <1>7, <2>1
  <2> DEFINE x == S - D
             y == T - D
             z == -e
  <2>4. x \in Int /\ z \in Int /\ y \in 0..(U32-1) /\ x = U32 * z + y
    BY <2>2, <2>3
  <2> HIDE DEF x, y, z
  <2>5. (x % U32) = y
    BY <1>1, <2>4, DivOf
  <2> QED  BY <2>5 DEF x, y
<1>9. UnixSeconds(v) = T - D
  <2>1. UnixSeconds(v) = (S - D) % U32
    BY <1>5 DEF UnixSeconds, D
  <2> QED  BY <2>1, <1>8
<1>10. f \div (U32 - 1) = carry
  <2>1. U32 - 1 \in Nat \ {0}
    BY <1>1
  <2>2. CASE f = U32 - 1
    <3>1. f = (U32 - 1) * 1 + 0 /\ 0 \in 0..(U32 - 1 - 1) /\ f \in Int
      BY <1>1, <1>4, <2>2
    <3>2. f \div (U32 - 1) = 1
      BY <2>1, <3>1, DivOf
    <3> QED  BY <2>2, <3>2
  <2>3. CASE f # U32 - 1
    <3>1. f = (U32 - 1) * 0 + f /\ f \in 0..(U32 - 1 - 1) /\ f \in Int
      BY <1>1, <1>4, <2>3
    <3>2. f \div (U32 - 1) = 0
      BY <2>1, <3>1, DivOf
    <3> QED  BY <2>3, <3>2
  <2> QED  BY <2>2, <2>3
<1>11. (T - D + carry) % U32 = T - D + carry
  <2> DEFINE w == T - D + carry
  <2>1. w \in 0..(U32-1)
    BY <1>1, <1>6
  <2>2. w = U32 * 0 + w /\ w \in Int
    BY <1>1, <2>1
  <2> HIDE DEF w
  <2>3. w % U32 = w
    BY <1>1, <2>1, <2>2, DivOf
  <2> QED  BY <2>3 DEF w
<1>12. NtpResult(packet).seconds = (T - D + carry) % U32
  BY <1>5, <1>3, <1>9, <1>10
<1>13. NtpResult(packet).seconds = (T - D) + carry
  BY <1>11, <1>12
<1> QED  BY <1>13 DEF T, D, t, f

-----------------------------------------------------------------------------
(* The RTC when it is set: the seconds of the answer, without the fraction. *)
LEMMA RtcWhenSet ==
  ASSUME TimesInv, packet = Answer, Receive,
         rtc' = (NtpResult(packet).seconds - zone) * U32
  PROVE  rtc' \in Int /\ RtcFollowsServer'
<1> DEFINE D == NTP_TIMESTAMP_DELTA
           T == at[3] \div U32
           f == at[3] % U32
           carry == IF f = U32 - 1 THEN 1 ELSE 0
           a == at[3]
           n == now
           u == U32
<1>1. u \in Nat \ {0} /\ D \in Int /\ zone \in Int
  BY Units DEF TimesInv
<1>2. a \in Int /\ n \in Int /\ a <= n
  BY Units DEF TimesInv
<1>3. f \in 0..(u-1) /\ T \in Int /\ a = u * T + f
  <2>1. U32 \in Nat \ {0} /\ at[3] \in Int
    BY <1>1, <1>2
  <2> QED  BY <2>1, DivMod
<1> DEFINE seconds == NtpResult(packet).seconds
<1>4. rtc' = (seconds - zone) * u /\ seconds = (T - D) + carry
  BY AcceptedSeconds
<1> HIDE DEF seconds
<1>5. now' = n /\ at'[3] = a /\ at'[4] = n /\ zone' = zone
  BY DEF Receive, TimesInv
<1>6. RtcFollowsServer' =
        (rtc' # Unset =>
           rtc' \in (n - (D + zone) * u - (n - a) - (u - 1)) .. (n - (D + zone) * u + 1))
  BY <1>5 DEF RtcFollowsServer
<1>7. carry \in {0, 1} /\ (carry = 1 => f = u - 1) /\ (carry = 0 => f < u - 1)
  BY <1>1, <1>3
<1> HIDE DEF D, T, f, carry, a, n, u
<1> DEFINE off == (D + zone) * u
           top == u * T
           c == carry * u
<1>8. (seconds - zone) * u = top + c - off
  BY <1>1, <1>3, <1>4, <1>7, Z3
<1>9. off \in Int /\ top \in Int /\ c \in Int /\ (carry = 0 => c = 0) /\ (carry = 1 => c = u)
  BY <1>1, <1>3, <1>7, Z3
<1>10. a = top + f /\ rtc' = top + c - off
  BY <1>3, <1>4, <1>8
<1> HIDE DEF off, top, c
<1>11. rtc' \in Int
  BY <1>9, <1>10
<1>12. rtc' \in (n - off - (n - a) - (u - 1)) .. (n - off + 1)
  <2>1. n - off - (n - a) - (u - 1) \in Int /\ n - off + 1 \in Int
    BY <1>1, <1>2, <1>9
  <2>2. CASE carry = 0
    BY <1>1, <1>2, <1>3, <1>7, <1>9, <1>10, <1>11, <2>1, <2>2
  <2>3. CASE carry = 1
    BY <1>1, <1>2, <1>3, <1>7, <1>9, <1>10, <1>11, <2>1, <2>3
  <2> QED  BY <1>7, <2>2, <2>3
<1> QED  BY <1>6, <1>11, <1>12 DEF off

LEMMA NtpInitial == NtpInit => NtpInv
<1> SUFFICES ASSUME NtpInit PROVE NtpInv
  OBVIOUS
<1>1. TimesInv
  <2>1. start \in Nat /\ Horizon \in Nat /\ now = start /\ start \in Starts
    BY Units DEF NtpInit
  <2>2. now \in start .. (start + Horizon)
    BY <2>1
  <2>3. zone \in Int /\ skew \in Int
    BY Units DEF NtpInit
  <2>4. sent \in 0 .. (U64 - 1)
    BY Units DEF NtpInit
  <2>5. at = [i \in 1..4 |-> start]
    BY DEF NtpInit
  <2>6. at \in [1..4 -> Nat] /\ \A i \in 1..4 : at[i] \in start .. now
    BY <2>1, <2>5
  <2> QED  BY <2>1, <2>2, <2>3, <2>4, <2>6 DEF TimesInv
<1>2. PacketInv
  BY DEF NtpInit, PacketInv
<1>3. RtcInv
  BY DEF NtpInit, RtcInv, Unset
<1> QED  BY <1>1, <1>2, <1>3 DEF NtpInv

(* The instants, in every step. *)
LEMMA TimesStep == TimesInv /\ [NtpNext]_ntpVars => TimesInv'
<1> SUFFICES ASSUME TimesInv, [NtpNext]_ntpVars PROVE TimesInv'
  OBVIOUS
<1>1. start \in Nat /\ Horizon \in Nat /\ now \in Nat /\ start <= now /\ now <= start + Horizon
  BY Units DEF TimesInv
<1>2. ASSUME NEW i \in 1..4, at' = [at EXCEPT ![i] = now], now' = now, start' = start
      PROVE  at' \in [1..4 -> Nat] /\ \A j \in 1..4 : at'[j] \in start' .. now'
  BY <1>1, <1>2 DEF TimesInv
<1>3. CASE Request
  <2>1. sent' \in 0 .. (U64 - 1)
    BY <1>1, <1>3, StampTypes DEF Request, TimesInv
  <2> QED  BY <1>2, <1>3, <2>1 DEF Request, TimesInv
<1>4. CASE ServerReceives
  BY <1>2, <1>4 DEF ServerReceives, TimesInv
<1>5. CASE ServerAnswers
  BY <1>2, <1>5 DEF ServerAnswers, TimesInv
<1>6. CASE Receive
  BY <1>2, <1>6 DEF Receive, TimesInv
<1>7. CASE Elapse
  BY <1>1, <1>7 DEF Elapse, TimesInv
<1>8. CASE UNCHANGED << zone, now, start, at, skew, sent >>
  BY <1>8 DEF TimesInv
<1> QED  BY <1>3, <1>4, <1>5, <1>6, <1>7, <1>8
         DEF NtpNext, RequestFails, Stray, Tick, ntpVars

(* The datagram, in every step. *)
LEMMA PacketStep == NtpInv /\ [NtpNext]_ntpVars => PacketInv'
<1> SUFFICES ASSUME NtpInv, [NtpNext]_ntpVars PROVE PacketInv'
  OBVIOUS
<1> USE DEF NtpInv
<1>1. CASE Request
  BY <1>1 DEF Request, PacketInv
<1>2. CASE RequestFails
  BY <1>2 DEF RequestFails, PacketInv
<1>3. CASE ServerReceives
  BY <1>3 DEF ServerReceives, PacketInv
<1>4. CASE ServerAnswers
  <2>1. pc = "recv" /\ packet.kind = "request"
    BY <1>4 DEF ServerAnswers, PacketInv, Nothing, Answer
  <2>2. at'[2] = at[2] /\ at'[3] = now
    BY <1>4 DEF ServerAnswers, TimesInv
  <2>3. packet' = Answer'
    BY <1>4, <2>2 DEF ServerAnswers, Answer, U64
  <2> QED  BY <1>4, <2>1, <2>3 DEF ServerAnswers, PacketInv
<1>5. CASE Stray
  <2>1. packet'.kind = "answer" /\ Refused(packet')
    BY <1>5, StraysRefused DEF Stray, TimesInv
  <2>2. Refused(packet)'
    BY <1>5, <2>1 DEF Stray, Refused
  <2> QED  BY <1>5, <2>1, <2>2 DEF Stray, PacketInv
<1>6. CASE Receive
  BY <1>6 DEF Receive, PacketInv
<1>7. CASE UNCHANGED << packet, pc, sent, at >>
  BY <1>7 DEF PacketInv, Refused, Answer
<1> QED  BY <1>1, <1>2, <1>3, <1>4, <1>5, <1>6, <1>7
         DEF NtpNext, Tick, Elapse, ntpVars

(* The RTC, in every step. *)
LEMMA RtcStep == NtpInv /\ [NtpNext]_ntpVars => RtcInv'
<1> SUFFICES ASSUME NtpInv, [NtpNext]_ntpVars PROVE RtcInv'
  OBVIOUS
<1> USE DEF NtpInv
<1>1. CASE rtc = Unset /\ rtc' = rtc
  BY <1>1 DEF RtcInv
<1>2. CASE rtc # Unset /\ UNCHANGED << rtc, pc, now, at, zone >>
  BY <1>2 DEF RtcInv, RtcFollowsServer
<1>3. CASE rtc # Unset /\ Elapse
  <2>1. rtc' = rtc + 1 /\ now' = now + 1 /\ at' = at /\ pc' = pc /\ zone' = zone
    BY <1>3 DEF Elapse
  <2> DEFINE lag == at[4] - at[3]
             off == (NTP_TIMESTAMP_DELTA + zone) * U32
  <2>2. off \in Int /\ U32 \in Int
    <3>1. NTP_TIMESTAMP_DELTA \in Int /\ zone \in Int /\ U32 \in Int
      BY Units DEF TimesInv
    <3> QED  BY <3>1, Z3
  <2>3. lag \in Int /\ now \in Int /\ rtc \in Int
    BY Units DEF TimesInv, RtcInv
  <2>4. rtc \in (now - off - lag - (U32 - 1)) .. (now - off + 1)
    BY <1>3 DEF RtcInv, RtcFollowsServer
  <2>5. rtc' \in (now' - off - lag - (U32 - 1)) .. (now' - off + 1) => RtcFollowsServer'
    BY <2>1 DEF RtcFollowsServer
  <2> HIDE DEF lag, off
  <2>6. RtcFollowsServer' /\ rtc' \in Int
    <3>1. rtc' \in Int
      BY <2>1, <2>3
    <3>2. rtc' \in (now' - off - lag - (U32 - 1)) .. (now' - off + 1)
      <4> DEFINE n == now'
                 r == rtc'
      <4>1. r = rtc + 1 /\ n = now + 1
        BY <2>1
      <4> HIDE DEF n, r
      <4>2. r \in (n - off - lag - (U32 - 1)) .. (n - off + 1)
        BY <2>2, <2>3, <2>4, <4>1
      <4> QED  BY <4>2 DEF n, r
    <3> QED  BY <2>5, <3>1, <3>2
  <2> QED  BY <1>3, <2>1, <2>6 DEF RtcInv
<1>4. CASE Receive
  <2>1. rtc = Unset
    BY <1>4 DEF Receive, RtcInv
  <2>2. CASE rtc' = rtc
    BY <1>1, <2>1, <2>2
  <2>3. CASE rtc' # rtc
    <3>1. ~Refused(packet) /\ pc' = "tick" /\ rtc' = (NtpResult(packet).seconds - zone) * U32
      BY <1>4, <2>3 DEF Receive, SetRtc
    <3>2. packet = Answer
      BY <1>4, <3>1 DEF PacketInv, Receive, Nothing
    <3>3. rtc' \in Int /\ RtcFollowsServer'
      BY <1>4, <3>1, <3>2, RtcWhenSet
    <3> QED  BY <3>1, <3>3 DEF RtcInv
  <2> QED  BY <2>2, <2>3
<1>5. CASE Request \/ RequestFails
  BY <1>1, <1>5 DEF Request, RequestFails, RtcInv
<1>6. CASE ServerReceives \/ ServerAnswers \/ Stray
  <2>1. pc = "recv"
    BY <1>6 DEF ServerReceives, ServerAnswers, Stray, PacketInv, Nothing, Answer
  <2> QED  BY <1>1, <1>6, <2>1 DEF ServerReceives, ServerAnswers, Stray, RtcInv
<1>7. CASE Tick \/ UNCHANGED ntpVars
  BY <1>1, <1>2, <1>7 DEF Tick, ntpVars
<1>8. CASE Elapse
  BY <1>1, <1>3, <1>8 DEF Elapse
<1> QED  BY <1>4, <1>5, <1>6, <1>7, <1>8 DEF NtpNext

(* The inductive invariant holds: the instants are in order, a datagram    *)
(* under way is the server's or refused, and the RTC, once set, is right.  *)
THEOREM NtpInvariant == NtpSpec => []NtpInv
<1>1. NtpInv /\ [NtpNext]_ntpVars => NtpInv'
  BY TimesStep, PacketStep, RtcStep DEF NtpInv
<1> QED  BY <1>1, NtpInitial, PTL DEF NtpSpec

(* The RTC that ntp_task sets follows the server to within a second and    *)
(* the delay of the answer, in both eras of NTP, whatever datagrams come   *)
(* in between.                                                             *)
THEOREM RtcAlwaysFollows == NtpSpec => []RtcFollowsServer
<1>1. NtpInv => RtcFollowsServer
  BY DEF NtpInv, RtcInv, RtcFollowsServer
<1> QED  BY <1>1, NtpInvariant, PTL

-----------------------------------------------------------------------------
(* The delay and the offset.  Every conversion rounds; Lag is how far a    *)
(* stamp of the client may be behind its clock.                            *)
Lag == {e \in Nat : USEC_IN_SEC * e <= U32 + 2 * USEC_IN_SEC}

(* A multiple of the modulus makes no difference. *)
LEMMA ModShift ==
  ASSUME NEW m \in Nat \ {0}, NEW t \in Int, NEW k \in Int
  PROVE  (t + m * k) % m = t % m
<1> DEFINE q == t \div m
           r == t % m
           w == t + m * k
<1>1. r \in 0..(m-1) /\ q \in Int /\ t = m * q + r
  BY DivMod
<1> HIDE DEF q, r
<1>2. m * (q + k) = m * q + m * k /\ m * q \in Int /\ m * k \in Int
  BY <1>1, Z3
<1>3. w = m * (q + k) + r /\ w \in Int /\ q + k \in Int
  BY <1>1, <1>2
<1> DEFINE p == q + k
<1>4. w = m * p + r /\ p \in Int
  BY <1>3
<1> HIDE DEF w, p
<1>5. (w % m) = r
  BY <1>1, <1>3, <1>4, DivOf
<1> QED  BY <1>5 DEF w, r

(* A remainder is its number less a multiple. *)
LEMMA ModBack ==
  ASSUME NEW m \in Nat \ {0}, NEW t \in Int
  PROVE  \E k \in Int : t % m = t + m * k
<1> DEFINE q == t \div m
           r == t % m
<1>1. r \in 0..(m-1) /\ q \in Int /\ t = m * q + r
  BY DivMod
<1> HIDE DEF q, r
<1>2. m * (-q) = -(m * q) /\ m * q \in Int
  BY <1>1, Z3
<1>3. r = t + m * (-q) /\ -q \in Int
  BY <1>1, <1>2
<1>4. \E k \in Int : r = t + m * k
  BY <1>3
<1> QED  BY <1>4 DEF r

(* Seconds and microseconds of a clock, as seconds and fraction: in        *)
(* microseconds the loss is that of three roundings.                       *)
LEMMA StampRounding ==
  ASSUME NEW u \in Nat \ {0}, NEW m \in Nat \ {0}, NEW x \in Int
  PROVE  \E e \in Nat :
           /\ m * e <= u + 2 * m
           /\ (((x * m) \div u) \div m) * u + ((((x * m) \div u) % m) * (u - 1)) \div m = x - e
<1> DEFINE q == x \div u
           f == x % u
           b == (f * m) \div u
           g == (f * m) % u
           c == (b * (u - 1)) \div m
           h == (b * (u - 1)) % m
           e == f - c
<1>1. f \in 0..(u-1) /\ q \in Int /\ x = u * q + f
  BY DivMod
<1> HIDE DEF q, f
<1>2. f * m \in Int /\ f * m >= 0 /\ f * m <= u * m - m
  <2>1. f * m \in Int /\ f * m >= 0
    BY <1>1, Z3
  <2>2. (u - 1 - f) * m >= 0
    BY <1>1, Z3
  <2>3. (u - 1 - f) * m = u * m - m - f * m
    BY <1>1, Z3
  <2>4. u * m \in Int
    BY Z3
  <2> QED  BY <2>1, <2>2, <2>3, <2>4
<1>3. g \in 0..(u-1) /\ b \in Int /\ f * m = u * b + g
  <2> DEFINE y == f * m
  <2>1. y \in Int
    BY <1>2
  <2> HIDE DEF y
  <2>2. (y % u) \in 0..(u-1) /\ (y \div u) \in Int /\ y = u * (y \div u) + (y % u)
    BY <2>1, DivMod
  <2> QED  BY <2>2 DEF y
<1> HIDE DEF b, g
<1>4. b \in 0..(m-1)
  <2>1. ~(b < 0)
    <3>1. SUFFICES ASSUME b < 0 PROVE FALSE
      OBVIOUS
    <3>2. u * b + u <= u * 0
      BY <1>3, <3>1, MulStep
    <3>3. u * 0 = 0 /\ u * b \in Int
      BY <1>3, Z3
    <3> QED  BY <1>2, <1>3, <3>2, <3>3
  <2>2. ~(m - 1 < b)
    <3>1. SUFFICES ASSUME m - 1 < b PROVE FALSE
      OBVIOUS
    <3>2. u * (m - 1) + u <= u * b
      BY <1>3, <3>1, MulStep
    <3>3. u * (m - 1) + u = u * m /\ u * b \in Int /\ u * m \in Int
      BY <1>3, Z3
    <3> QED  BY <1>2, <1>3, <3>2, <3>3
  <2> QED  BY <1>3, <2>1, <2>2
<1>5. ((x * m) \div u) = m * q + b
  <2> DEFINE y == x * m
             p == m * q + b
  <2>1. y = u * p + g
    <3>1. (u * q + f) * m = u * (m * q) + f * m
      BY <1>1, Z3
    <3>2. u * (m * q + b) = u * (m * q) + u * b
      BY <1>1, <1>3, Z3
    <3>3. u * (m * q) \in Int /\ u * b \in Int
      BY <1>1, <1>3, Z3
    <3>4. y = u * (m * q) + f * m
      BY <1>1, <3>1
    <3> HIDE DEF y
    <3> QED  BY <1>3, <3>2, <3>3, <3>4
  <2>2. y \in Int /\ p \in Int
    BY <1>1, <1>3, Z3
  <2> HIDE DEF y, p
  <2>3. (y \div u) = p
    BY <1>3, <2>1, <2>2, DivOf
  <2> QED  BY <2>3 DEF y, p
<1>6. ((m * q + b) \div m) = q /\ ((m * q + b) % m) = b
  <2> DEFINE y == m * q + b
  <2>1. y \in Int /\ y = m * q + b
    BY <1>1, <1>3, Z3
  <2> HIDE DEF y
  <2>2. (y \div m) = q /\ (y % m) = b
    BY <1>1, <1>4, <2>1, DivOf
  <2> QED  BY <2>2 DEF y
<1>7. h \in 0..(m-1) /\ c \in Int /\ b * (u - 1) = m * c + h
  <2> DEFINE y == b * (u - 1)
  <2>1. y \in Int
    BY <1>3, Z3
  <2> HIDE DEF y
  <2>2. (y % m) \in 0..(m-1) /\ (y \div m) \in Int /\ y = m * (y \div m) + (y % m)
    BY <2>1, DivMod
  <2> QED  BY <2>2 DEF y
<1>8. (((x * m) \div u) \div m) * u + ((((x * m) \div u) % m) * (u - 1)) \div m = q * u + c
  BY <1>5, <1>6
<1> HIDE DEF c, h
<1>9. q * u + c = x - e
  <2>1. q * u = u * q /\ u * q \in Int
    BY <1>1, Z3
  <2> QED  BY <1>1, <1>7, <2>1
<1>10. e \in Int
  BY <1>1, <1>7
<1>11. m * e = g + b + h
  <2>1. m * (f - c) = f * m - m * c
    BY <1>1, <1>7, Z3
  <2>2. b * (u - 1) = u * b - b
    BY <1>3, Z3
  <2>3. m * c \in Int /\ u * b \in Int
    BY <1>3, <1>7, Z3
  <2> QED  BY <1>3, <1>7, <2>1, <2>2, <2>3
<1> HIDE DEF e
<1>12. m * e >= 0 /\ m * e <= u + 2 * m
  BY <1>3, <1>4, <1>7, <1>11
<1>13. e >= 0
  <2>1. SUFFICES ASSUME e < 0 PROVE FALSE
    BY <1>10
  <2>2. m * e + m <= m * 0
    BY <1>10, <2>1, MulStep
  <2>3. m * 0 = 0 /\ m * e \in Int
    BY <1>10, Z3
  <2> QED  BY <1>12, <2>2, <2>3
<1> QED  BY <1>8, <1>9, <1>10, <1>12, <1>13

(* So the stamp sntpc makes from SystemTime is at most a lag behind. *)
LEMMA StampIsLate ==
  ASSUME gen = "std", now \in Int, skew \in Int
  PROVE  \E e \in Lag : get_ntp_timestamp = (now + skew - e) % U64
<1> DEFINE u == U32
           m == USEC_IN_SEC
           D == NTP_TIMESTAMP_DELTA
           x == now + skew - D * u
           s == ((x * m) \div u) \div m
           c == ((((x * m) \div u) % m) * (u - 1)) \div m
<1>1. u \in Nat \ {0} /\ m \in Nat \ {0} /\ D \in Int
  BY Units
<1>2. D * u \in Int
  BY <1>1, Z3
<1>3. x \in Int /\ now + skew = x + D * u
  BY <1>2
<1>4. get_ntp_timestamp = ((s + D) * u + c) % U64
  BY DEF get_ntp_timestamp, timestamp_sec, timestamp_subsec_micros, Micros
<1> HIDE DEF x
<1>5. PICK e \in Nat : m * e <= u + 2 * m /\ s * u + c = x - e
  BY <1>1, <1>3, StampRounding
<1>6. s \in Int /\ c \in Int
  <2> DEFINE y == x * m
             z == y \div u
             w == z % m
             v == w * (u - 1)
  <2>1. y \in Int
    BY <1>1, <1>3, Z3
  <2> HIDE DEF y
  <2>2. z \in Int
    BY <1>1, <2>1, DivMod
  <2> HIDE DEF z
  <2>3. w \in Int /\ z \div m \in Int
    BY <1>1, <2>2, DivMod
  <2> HIDE DEF w
  <2>4. v \in Int
    BY <1>1, <2>3, Z3
  <2> HIDE DEF v
  <2>5. v \div m \in Int
    BY <1>1, <2>4, DivMod
  <2> QED  BY <2>3, <2>5 DEF v, w, z, y
<1> HIDE DEF s, c
<1>7. (s + D) * u + c = now + skew - e
  <2>1. (s + D) * u = s * u + D * u /\ s * u \in Int
    BY <1>1, <1>6, Z3
  <2> QED  BY <1>2, <1>3, <1>5, <1>6, <2>1
<1>8. e \in Lag
  BY <1>5 DEF Lag
<1> QED  BY <1>4, <1>7, <1>8

(* What is known of the units, for the bounds. *)
LEMMA LagBound ==
  ASSUME NEW e \in Lag
  PROVE  /\ e \in Nat /\ USEC_IN_SEC * e \in Nat
         /\ 2 * (USEC_IN_SEC * e) <= 3 * U32 /\ USEC_IN_SEC * e <= U32 + 2 * USEC_IN_SEC
         /\ 8 * e <= 3 * U32
<1> DEFINE m == USEC_IN_SEC
           u == U32
<1>1. u \in Nat /\ m \in Nat \ {0} /\ 4 <= m /\ 4 * m <= u
  BY Units, ClockAssumption
<1>2. e \in Nat /\ m * e <= u + 2 * m
  BY DEF Lag
<1>3. m * e \in Nat
  BY <1>1, <1>2, Z3
<1>4. 2 * (m * e) <= 3 * u
  BY <1>1, <1>2, <1>3
<1>5. 4 * e <= m * e
  <2>1. (m - 4) * e >= 0
    BY <1>1, <1>2, Z3
  <2>2. (m - 4) * e = m * e - 4 * e
    BY <1>1, <1>2, Z3
  <2> QED  BY <1>2, <1>3, <2>1, <2>2
<1>6. 8 * e <= 3 * u
  BY <1>1, <1>2, <1>3, <1>4, <1>5
<1> QED  BY <1>2, <1>3, <1>4, <1>6

(* An interval in microseconds, from its seconds and fraction. *)
LEMMA ConvertRounding ==
  ASSUME NEW d \in Nat
  PROVE  LET r == convert_delays(d \div U32, d % U32, USEC_IN_SEC)
         IN  /\ r \in Int /\ r * U32 \in Int /\ USEC_IN_SEC * d \in Int
             /\ USEC_IN_SEC * d - U32 <= r * U32
             /\ r * U32 <= USEC_IN_SEC * d + USEC_IN_SEC
<1> DEFINE u == U32
           m == USEC_IN_SEC
           q == d \div u
           f == d % u
           w == (f * m) \div (u - 1)
           z == (f * m) % (u - 1)
           r == q * m + w
<1>1. u \in Nat \ {0} /\ u >= 3 /\ u - 1 \in Nat \ {0} /\ m \in Nat \ {0}
  BY Units
<1>2. f \in 0..(u-1) /\ q \in Int /\ d = u * q + f
  <2>1. d \in Int
    OBVIOUS
  <2> QED  BY <1>1, <2>1, DivMod
<1>3. convert_delays(d \div U32, d % U32, USEC_IN_SEC) = r
  BY DEF convert_delays
<1> HIDE DEF u, m, q, f
<1>4. z \in 0..(u-2) /\ w \in Int /\ f * m = (u - 1) * w + z
  <2> DEFINE y == f * m
             v == u - 1
  <2>1. y \in Int /\ v \in Nat \ {0} /\ v - 1 = u - 2
    BY <1>1, <1>2, Z3
  <2> HIDE DEF y, v
  <2>2. (y % v) \in 0..(v-1) /\ (y \div v) \in Int /\ y = v * (y \div v) + (y % v)
    BY <2>1, DivMod
  <2>3. (y % v) \in 0..(u-2)
    BY <2>1, <2>2
  <2> QED  BY <2>2, <2>3 DEF y, v
<1> HIDE DEF w, z
<1>5. 0 <= w /\ w <= m
  <2> DEFINE v == u - 1
  <2>0. v \in Nat \ {0} /\ f * m = v * w + z /\ z <= v - 1
    BY <1>1, <1>4
  <2>1. f * m \in Int /\ 0 <= f * m /\ f * m <= v * m
    <3>1. f * m \in Int /\ 0 <= f * m
      BY <1>1, <1>2, Z3
    <3>2. (v - f) * m >= 0
      BY <1>1, <1>2, Z3
    <3>3. (v - f) * m = v * m - f * m /\ v * m \in Int
      BY <1>1, <1>2, Z3
    <3> QED  BY <3>1, <3>2, <3>3
  <2> HIDE DEF v
  <2>2. v * w \in Int /\ v * m \in Int /\ v * 0 = 0
    BY <1>1, <1>4, <2>0, Z3
  <2>3. ~(w < 0)
    <3>1. SUFFICES ASSUME w < 0 PROVE FALSE
      OBVIOUS
    <3>2. v * w + v <= v * 0
      BY <1>4, <2>0, <3>1, MulStep
    <3> QED  BY <1>4, <2>0, <2>1, <2>2, <3>2
  <2>4. ~(m < w)
    <3>1. SUFFICES ASSUME m < w PROVE FALSE
      OBVIOUS
    <3>2. v * m + v <= v * w
      BY <1>1, <1>4, <2>0, <3>1, MulStep
    <3> QED  BY <1>4, <2>0, <2>1, <2>2, <3>2
  <2> QED  BY <1>1, <1>4, <2>3, <2>4
<1>6. r \in Int
  BY <1>1, <1>2, <1>4, Z3
<1>7. r * u = m * d - z + w
  <2>1. (q * m + w) * u = m * (u * q) + w * u
    BY <1>1, <1>2, <1>4, Z3
  <2>2. m * (u * q + f) = m * (u * q) + f * m
    BY <1>1, <1>2, Z3
  <2>3. (u - 1) * w = w * u - w
    BY <1>1, <1>4, Z3
  <2>4. m * (u * q) \in Int /\ w * u \in Int
    BY <1>1, <1>2, <1>4, Z3
  <2>5. m * d = m * (u * q) + f * m
    BY <1>2, <2>2
  <2>6. f * m = w * u - w + z
    BY <1>4, <2>3
  <2> HIDE DEF r
  <2>7. r * u = m * (u * q) + w * u
    BY <2>1 DEF r
  <2> QED  BY <1>4, <2>4, <2>5, <2>6, <2>7
<1> HIDE DEF r
<1>8. r * u \in Int /\ m * d \in Int
  BY <1>1, <1>6, Z3
<1>9. m * d - u <= r * u /\ r * u <= m * d + m
  BY <1>1, <1>4, <1>5, <1>7, <1>8
<1> QED  BY <1>3, <1>6, <1>8, <1>9 DEF u, m

(* A number within half an era comes back from its bits. *)
LEMMA SignedOf ==
  ASSUME NEW x \in Int, -U64 < 2 * x, 2 * x + 1 < U64
  PROVE  Signed(x % U64) = x
<1> DEFINE m == U64
           h == m \div 2
<1>1. m \in Nat \ {0}
  BY Units
<1> HIDE DEF m
<1>2. h \in Int /\ 2 * h <= m /\ m <= 2 * h + 1
  <2>1. (m % 2) \in 0..(2-1) /\ (m \div 2) \in Int /\ m = 2 * (m \div 2) + (m % 2)
    BY <1>1, DivMod
  <2> QED  BY <1>1, <2>1
<1> HIDE DEF h
<1>3. -m < 2 * x /\ 2 * x + 1 < m
  BY DEF m
<1>4. CASE x >= 0
  <2>1. x \in 0..(m-1) /\ x = m * 0 + x
    BY <1>1, <1>3, <1>4, Z3
  <2>2. x % m = x
    BY <1>1, <2>1, DivOf
  <2>3. x < h
    BY <1>1, <1>2, <1>3, <1>4
  <2> QED  BY <2>2, <2>3 DEF Signed, m, h
<1>5. CASE x < 0
  <2> DEFINE y == x + m
  <2>1. y \in 0..(m-1) /\ x = m * (-1) + y
    BY <1>1, <1>3, <1>5, Z3
  <2> HIDE DEF y
  <2>2. x % m = y
    BY <1>1, <2>1, DivOf
  <2>3. ~(y < h) /\ y - m = x
    BY <1>1, <1>2, <1>3, <1>5 DEF y
  <2> QED  BY <2>2, <2>3 DEF Signed, m, h
<1> QED  BY <1>4, <1>5

(* Half a number, rounded to zero. *)
LEMMA HalfOf ==
  ASSUME NEW n \in Int
  PROVE  Half(n) \in Int /\ 2 * Half(n) - n \in -1..1
<1> DEFINE a == Abs(n)
           h == a \div 2
<1>1. a \in Nat /\ (n >= 0 => a = n) /\ (n < 0 => a = -n)
  BY DEF Abs
<1> HIDE DEF a
<1>2. h \in Int /\ a - 2 * h \in 0..1
  <2>1. (a % 2) \in 0..(2-1) /\ (a \div 2) \in Int /\ a = 2 * (a \div 2) + (a % 2)
    BY <1>1, DivMod
  <2> QED  BY <1>1, <2>1
<1>3. Half(n) = Signum(n) * h
  BY DEF Half, a
<1> HIDE DEF h
<1>4. CASE n > 0
  <2>1. Half(n) = h
    BY <1>2, <1>3, <1>4 DEF Signum
  <2> QED  BY <1>1, <1>2, <1>4, <2>1
<1>5. CASE n = 0
  <2>1. Half(n) = 0
    BY <1>2, <1>3, <1>5 DEF Signum
  <2> QED  BY <1>5, <2>1
<1>6. CASE n < 0
  <2>1. Half(n) = -h
    BY <1>2, <1>3, <1>6 DEF Signum
  <2> QED  BY <1>1, <1>2, <1>6, <2>1
<1> QED  BY <1>4, <1>5, <1>6

(* A difference with a sign, in microseconds. *)
LEMMA SignedRounding ==
  ASSUME NEW n \in Int
  PROVE  LET o == Signum(n) * convert_delays(Abs(n) \div U32, Abs(n) % U32, USEC_IN_SEC)
         IN  /\ o \in Int /\ o * U32 \in Int /\ n * USEC_IN_SEC \in Int
             /\ o * U32 - n * USEC_IN_SEC \in (-U32)..U32
<1> DEFINE u == U32
           m == USEC_IN_SEC
           a == Abs(n)
           c == convert_delays(a \div u, a % u, m)
           o == Signum(n) * c
<1>1. u \in Nat \ {0} /\ m \in Nat \ {0} /\ m <= u
  BY Units, NtpAssumption
<1>2. a \in Nat /\ (n >= 0 => a = n) /\ (n < 0 => a = -n)
  BY DEF Abs
<1> HIDE DEF a
<1>3. /\ c \in Int /\ c * u \in Int /\ m * a \in Int
      /\ m * a - u <= c * u /\ c * u <= m * a + m
  BY <1>2, ConvertRounding
<1> HIDE DEF c
<1>4. n * m \in Int
  BY <1>1, Z3
<1>5. CASE n >= 0
  <2>1. c * u - n * m \in (-u)..u
    <3>1. m * a = n * m
      BY <1>1, <1>2, <1>5, Z3
    <3> QED  BY <1>1, <1>3, <1>4, <3>1
  <2>2. CASE n > 0
    <3>1. o = c
      BY <1>3, <2>2 DEF Signum
    <3> QED  BY <1>3, <1>4, <2>1, <3>1 DEF a, c
  <2>3. CASE n = 0
    <3>1. o = 0 /\ n * m = 0 /\ 0 * u = 0
      BY <1>1, <1>3, <2>3, Z3 DEF Signum
    <3> HIDE DEF o
    <3>2. o \in Int /\ o * u = 0 /\ o * u - n * m \in (-u)..u
      BY <1>1, <3>1
    <3> QED  BY <1>4, <3>2 DEF a, c, o
  <2> QED  BY <1>5, <2>2, <2>3
<1>6. CASE n < 0
  <2>1. o = -c
    BY <1>3, <1>6 DEF Signum
  <2>2. m * a = -(n * m)
    <3>1. m * (-n) = -(n * m)
      BY <1>1, Z3
    <3> QED  BY <1>2, <1>6, <3>1
  <2>3. (-c) * u = -(c * u)
    BY <1>1, <1>3, Z3
  <2>4. o \in Int /\ o * u = -(c * u)
    BY <1>3, <2>1, <2>3
  <2> HIDE DEF o
  <2>5. o * u \in Int /\ o * u - n * m \in (-u)..u
    BY <1>1, <1>3, <1>4, <2>2, <2>4
  <2> QED  BY <1>4, <2>4, <2>5 DEF a, c, o
<1> QED  BY <1>5, <1>6

(* The four instants of an exchange, and the lag of the client's stamps. *)
Exchange(a1, a2, a3, a4, k, e1, e4) ==
    /\ a1 \in Int /\ a2 \in Int /\ a3 \in Int /\ a4 \in Int
    /\ a1 <= a2 /\ a2 <= a3 /\ a3 <= a4 /\ a4 - a1 <= Horizon
    /\ k \in Skews \union {-s : s \in Skews}
    /\ e1 \in Lag /\ e4 \in Lag

(* Stamps that wrapped around, subtracted. *)
LEMMA TwoStamps ==
  ASSUME NEW m \in Nat \ {0}, NEW x1 \in Int, NEW x2 \in Int
  PROVE  ((x2 % m) - (x1 % m)) % m = (x2 - x1) % m
<1>1. PICK k1 \in Int : x1 % m = x1 + m * k1
  BY ModBack
<1>2. PICK k2 \in Int : x2 % m = x2 + m * k2
  BY ModBack
<1> DEFINE k == k2 - k1
           x == x2 - x1
           y == (x2 % m) - (x1 % m)
<1>3. m * k = m * k2 - m * k1 /\ m * k1 \in Int /\ m * k2 \in Int
  BY Z3
<1>4. y = x + m * k /\ k \in Int /\ x \in Int
  BY <1>1, <1>2, <1>3
<1> HIDE DEF k, x, y
<1>5. y % m = x % m
  BY <1>4, ModShift
<1> QED  BY <1>5 DEF x, y

LEMMA SkewBound ==
  ASSUME NEW k \in Skews \union {-s : s \in Skews}
  PROVE  /\ k \in Int
         /\ 4 * k + 2 * Horizon + 2 * U32 < U64
         /\ -(4 * k) + 2 * Horizon + 2 * U32 < U64
         /\ 2 * Horizon + 2 * U32 < U64
<1>1. Horizon \in Nat /\ U32 \in Nat /\ U64 \in Nat /\ U32 * U32 = U64
  BY Units DEF U64
<1>2. \A s \in Skews : s \in Nat /\ 4 * s + 2 * Horizon + 2 * U32 < U64
  BY Units, ClockAssumption, <1>1
<1>3. CASE k \in Skews
  BY <1>1, <1>2, <1>3
<1>4. CASE k \in {-s : s \in Skews}
  <2>1. PICK s \in Skews : k = -s
    BY <1>4
  <2> QED  BY <1>1, <1>2, <2>1
<1> QED  BY <1>3, <1>4

(* roundtrip_calculate, of the stamps of an exchange. *)
LEMMA RoundtripRight ==
  ASSUME NEW a1, NEW a2, NEW a3, NEW a4, NEW k, NEW e1, NEW e4,
         Exchange(a1, a2, a3, a4, k, e1, e4)
  PROVE  LET delay == (a2 - a1) + (a4 - a3)
             r == roundtrip_calculate((a1 + k - e1) % U64, a2 % U64, a3 % U64,
                                      (a4 + k - e4) % U64)
         IN  delay * USEC_IN_SEC >= 2 * U32 => Abs(r * U32 - delay * USEC_IN_SEC) <= 3 * U32
<1> DEFINE u == U32
           m == USEC_IN_SEC
           delay == (a2 - a1) + (a4 - a3)
           d == delay + e1 - e4
           r == convert_delays(d \div U32, d % U32, USEC_IN_SEC)
<1>1. /\ u \in Nat \ {0} /\ m \in Nat \ {0} /\ 4 * m <= u /\ Horizon \in Nat /\ U64 \in Nat \ {0}
      /\ 2 * Horizon + 2 * u < U64
  BY Units, ClockAssumption, SkewBound DEF Exchange
<1>2. a1 \in Int /\ a2 \in Int /\ a3 \in Int /\ a4 \in Int /\ k \in Int /\ delay \in 0..Horizon
  BY <1>1, SkewBound DEF Exchange
<1>3. e1 \in Nat /\ m * e1 \in Nat /\ 2 * (m * e1) <= 3 * u /\ m * e1 <= u + 2 * m /\ 8 * e1 <= 3 * u
  BY LagBound DEF Exchange
<1>4. e4 \in Nat /\ m * e4 \in Nat /\ 2 * (m * e4) <= 3 * u /\ m * e4 <= u + 2 * m /\ 8 * e4 <= 3 * u
  BY LagBound DEF Exchange
<1> SUFFICES ASSUME delay * m >= 2 * u
             PROVE  Abs(roundtrip_calculate((a1 + k - e1) % U64, a2 % U64, a3 % U64,
                                            (a4 + k - e4) % U64) * u - delay * m) <= 3 * u
  OBVIOUS
<1>5. (((a4 + k - e4) % U64) - ((a1 + k - e1) % U64) - ((a3 % U64) - (a2 % U64))) % U64 = d % U64
  <2> DEFINE x1 == a1 + k - e1
             x4 == a4 + k - e4
  <2>1. x1 \in Int /\ x4 \in Int /\ x4 - x1 - (a3 - a2) = d
    BY <1>2, <1>3, <1>4
  <2> HIDE DEF x1, x4, d
  <2>2. PICK k1 \in Int : x1 % U64 = x1 + U64 * k1
    BY <1>1, <2>1, ModBack
  <2>3. PICK k2 \in Int : a2 % U64 = a2 + U64 * k2
    BY <1>1, <1>2, ModBack
  <2>4. PICK k3 \in Int : a3 % U64 = a3 + U64 * k3
    BY <1>1, <1>2, ModBack
  <2>5. PICK k4 \in Int : x4 % U64 = x4 + U64 * k4
    BY <1>1, <2>1, ModBack
  <2> DEFINE n == k4 - k1 - (k3 - k2)
             y == (x4 % U64) - (x1 % U64) - ((a3 % U64) - (a2 % U64))
  <2>6. /\ U64 * n = U64 * k4 - U64 * k1 - (U64 * k3 - U64 * k2)
        /\ U64 * k1 \in Int /\ U64 * k2 \in Int /\ U64 * k3 \in Int /\ U64 * k4 \in Int
    BY <1>1, Z3
  <2>7. y = d + U64 * n /\ n \in Int /\ d \in Int
    BY <1>2, <2>1, <2>2, <2>3, <2>4, <2>5, <2>6
  <2> HIDE DEF n, y
  <2>8. y % U64 = d % U64
    BY <1>1, <2>7, ModShift
  <2> QED  BY <2>8 DEF x1, x4, y
<1> HIDE DEF delay
<1>6. delay * m \in Int
  BY <1>1, <1>2, Z3
<1>7. d \in Int /\ m * d = delay * m + m * e1 - m * e4
  <2>1. d \in Int
    BY <1>2, <1>3, <1>4
  <2>2. m * (delay + e1 - e4) = delay * m + m * e1 - m * e4
    BY <1>1, <1>2, <1>3, <1>4, Z3
  <2> QED  BY <2>1, <2>2
<1>8. d < U64
  BY <1>1, <1>2, <1>3, <1>4
<1> HIDE DEF d
<1>9. d >= 0
  <2>1. SUFFICES ASSUME d < 0 PROVE FALSE
    BY <1>7
  <2>2. m * d + m <= m * 0
    BY <1>1, <1>7, <2>1, MulStep
  <2>3. m * 0 = 0 /\ m * d \in Int
    BY <1>1, <1>7, Z3
  <2> QED  BY <1>1, <1>3, <1>4, <1>6, <1>7, <2>2, <2>3
<1>10. d % U64 = d
  <2>1. d \in 0..(U64-1) /\ d = U64 * 0 + d
    BY <1>1, <1>7, <1>8, <1>9, Z3
  <2> QED  BY <1>1, <1>7, <2>1, DivOf
<1>11. roundtrip_calculate((a1 + k - e1) % U64, a2 % U64, a3 % U64, (a4 + k - e4) % U64) = r
  BY <1>5, <1>10 DEF roundtrip_calculate
<1>12. r \in Int /\ r * u \in Int /\ m * d \in Int /\ m * d - u <= r * u /\ r * u <= m * d + m
  <2>1. d \in Nat
    BY <1>7, <1>9
  <2> QED  BY <2>1, ConvertRounding
<1> HIDE DEF r
<1> DEFINE w == r * u - delay * m
<1>13. w \in Int /\ -(3 * u) <= w /\ w <= 3 * u
  BY <1>1, <1>3, <1>4, <1>6, <1>7, <1>12
<1> HIDE DEF w
<1>14. Abs(w) <= 3 * u
  BY <1>1, <1>13 DEF Abs
<1> QED  BY <1>11, <1>14 DEF w

(* offset_calculate, of the same. *)
LEMMA OffsetRight ==
  ASSUME NEW a1, NEW a2, NEW a3, NEW a4, NEW k, NEW e1, NEW e4,
         Exchange(a1, a2, a3, a4, k, e1, e4)
  PROVE  LET delay == (a2 - a1) + (a4 - a3)
             o == offset_calculate((a1 + k - e1) % U64, a2 % U64, a3 % U64, (a4 + k - e4) % U64)
         IN  Abs(2 * (o * U32 + k * USEC_IN_SEC)) <= delay * USEC_IN_SEC + 6 * U32
<1> DEFINE u == U32
           m == USEC_IN_SEC
           x1 == a1 + k - e1
           x4 == a4 + k - e4
           p == a2 - x1
           q == a3 - x4
           theta == Half(p + q)
           o == Signum(theta) * convert_delays(Abs(theta) \div U32, Abs(theta) % U32, USEC_IN_SEC)
           go == a2 - a1
           back == a4 - a3
<1>1. /\ u \in Nat \ {0} /\ m \in Nat \ {0} /\ 4 * m <= u /\ Horizon \in Nat /\ U64 \in Nat \ {0}
      /\ 4 * k + 2 * Horizon + 2 * u < U64 /\ -(4 * k) + 2 * Horizon + 2 * u < U64
      /\ u >= 3
  BY Units, ClockAssumption, SkewBound DEF Exchange
<1>2. /\ a1 \in Int /\ a2 \in Int /\ a3 \in Int /\ a4 \in Int /\ k \in Int
      /\ go \in Nat /\ back \in Nat /\ go + back <= Horizon
  BY <1>1, SkewBound DEF Exchange
<1>3. e1 \in Nat /\ m * e1 \in Nat /\ 2 * (m * e1) <= 3 * u /\ m * e1 <= u + 2 * m /\ 8 * e1 <= 3 * u
  BY LagBound DEF Exchange
<1>4. e4 \in Nat /\ m * e4 \in Nat /\ 2 * (m * e4) <= 3 * u /\ m * e4 <= u + 2 * m /\ 8 * e4 <= 3 * u
  BY LagBound DEF Exchange
<1>5. x1 \in Int /\ x4 \in Int /\ p \in Int /\ q \in Int /\ p = go - k + e1 /\ q = -back - k + e4
  BY <1>2, <1>3, <1>4
<1> HIDE DEF x1, x4
<1>6. ((a2 % U64) - (x1 % U64)) % U64 = p % U64 /\ ((a3 % U64) - (x4 % U64)) % U64 = q % U64
  BY <1>1, <1>2, <1>5, TwoStamps
<1> HIDE DEF p, q, go, back
<1>7. Signed(p % U64) = p
  <2>1. -U64 < 2 * p /\ 2 * p + 1 < U64
    BY <1>1, <1>2, <1>3, <1>5
  <2> QED  BY <1>5, <2>1, SignedOf
<1>8. Signed(q % U64) = q
  <2>1. -U64 < 2 * q /\ 2 * q + 1 < U64
    BY <1>1, <1>2, <1>4, <1>5
  <2> QED  BY <1>5, <2>1, SignedOf
<1>9. Signed((p + q) % U64) = p + q
  <2> DEFINE t == p + q
  <2>1. t \in Int /\ -U64 < 2 * t /\ 2 * t + 1 < U64
    BY <1>1, <1>2, <1>3, <1>4, <1>5
  <2> HIDE DEF t
  <2>2. Signed(t % U64) = t
    BY <2>1, SignedOf
  <2> QED  BY <2>2 DEF t
<1>10. offset_calculate(x1 % U64, a2 % U64, a3 % U64, x4 % U64) = o
  <2>1. Signed((Signed(((a2 % U64) - (x1 % U64)) % U64) + Signed(((a3 % U64) - (x4 % U64)) % U64)) % U64)
          = p + q
    BY <1>6, <1>7, <1>8, <1>9
  <2> HIDE DEF theta
  <2>2. Half(Signed((Signed(((a2 % U64) - (x1 % U64)) % U64) + Signed(((a3 % U64) - (x4 % U64)) % U64))
                      % U64)) = theta
    BY <2>1 DEF theta
  <2> QED  BY <2>2 DEF offset_calculate
<1>11. theta \in Int /\ 2 * theta - (p + q) \in -1..1
  <2>1. p + q \in Int
    BY <1>5
  <2> QED  BY <2>1, HalfOf
<1> HIDE DEF theta
<1>12. o \in Int /\ o * u \in Int /\ theta * m \in Int /\ o * u - theta * m \in (-u)..u
  BY <1>11, SignedRounding
<1> HIDE DEF o
<1> DEFINE n == 2 * theta - (p + q)
<1>13. 2 * theta = n + go - back - 2 * k + e1 + e4 /\ n \in -1..1
  BY <1>2, <1>3, <1>4, <1>5, <1>11
<1> HIDE DEF n
<1> DEFINE lhs == 2 * (o * u + k * m)
           M1 == m * e1
           M4 == m * e4
           mg == go * m
           mb == back * m
           mn == n * m
           mk == k * m
           mt == theta * m
           ou == o * u
<1>14. mg \in Nat /\ mb \in Nat /\ mn \in (-m)..m /\ mk \in Int
  <2>1. mg \in Nat /\ mb \in Nat /\ mk \in Int
    BY <1>1, <1>2, Z3
  <2>2. n = -1 \/ n = 0 \/ n = 1
    BY <1>13
  <2>3. mn = -m \/ mn = 0 \/ mn = m
    BY <1>1, <2>2, Z3
  <2> QED  BY <1>1, <2>1, <2>3
<1>15. 2 * mt = mn + mg - mb - 2 * mk + M1 + M4
  <2>1. (2 * theta) * m = 2 * (theta * m)
    BY <1>1, <1>11, Z3
  <2>2. (n + go - back - 2 * k + e1 + e4) * m
          = n * m + go * m - back * m - 2 * (k * m) + m * e1 + m * e4
    BY <1>1, <1>2, <1>3, <1>4, <1>13, Z3
  <2>3. (2 * theta) * m = (n + go - back - 2 * k + e1 + e4) * m
    BY <1>13
  <2> QED  BY <2>1, <2>2, <2>3
<1>16. (go + back) * m = mg + mb
  BY <1>1, <1>2, Z3
<1>17. M1 \in Nat /\ M1 <= u + 2 * m /\ M4 \in Nat /\ M4 <= u + 2 * m
  BY <1>3, <1>4
<1>18. mt \in Int /\ ou \in Int /\ ou - mt \in (-u)..u /\ lhs = 2 * ou + 2 * mk
  <2>1. mt \in Int /\ ou \in Int /\ ou - mt \in (-u)..u
    BY <1>12
  <2> HIDE DEF ou, mk
  <2>2. 2 * (ou + mk) = 2 * ou + 2 * mk
    BY <1>14, <2>1
  <2> QED  BY <2>1, <2>2 DEF ou, mk
<1> HIDE DEF M1, M4, mg, mb, mn, mk, mt, ou, lhs
<1>19. lhs \in Int /\ -(mg + mb + 6 * u) <= lhs /\ lhs <= mg + mb + 6 * u
  BY <1>1, <1>14, <1>15, <1>17, <1>18
<1>20. Abs(lhs) <= mg + mb + 6 * u
  BY <1>1, <1>14, <1>19 DEF Abs
<1> QED  BY <1>10, <1>16, <1>20 DEF lhs, go, back, x1, x4

-----------------------------------------------------------------------------
(* The invariant for the delay and the offset: the request's stamp, the    *)
(* order of the instants up to the datagram under way, and the result,     *)
(* which is of the one answer received.                                    *)
DelayInv ==
    /\ skew \in Skews \union {-s : s \in Skews}
    /\ gen = "std" /\ pc = "recv" => \E e \in Lag : sent = (at[1] + skew - e) % U64
    /\ packet = [kind |-> "request"] => at[1] <= at[2]
    /\ packet = Answer /\ ~Refused(packet) => at[1] <= at[2] /\ at[2] <= at[3]
    /\ result # Nothing => pc \notin {"request", "recv"}
    /\ DelayAndOffset

(* The result is right when the answer is received. *)
LEMMA ResultRight ==
  ASSUME TimesInv, DelayInv, Receive, packet = Answer, ~Refused(packet),
         result' = NtpResult(packet)
  PROVE  DelayAndOffset'
<1> SUFFICES ASSUME gen = "std" PROVE DelayAndOffset'
  BY DEF DelayAndOffset, Receive
<1> DEFINE a1 == at[1]
           a2 == at[2]
           a3 == at[3]
<1>1. PICK e1 \in Lag : sent = (a1 + skew - e1) % U64
  BY DEF DelayInv, Receive
<1>2. now \in Int /\ skew \in Int
  BY Units DEF TimesInv
<1>3. PICK e4 \in Lag : get_ntp_timestamp = (now + skew - e4) % U64
  BY <1>2, StampIsLate
<1>4. Exchange(a1, a2, a3, now, skew, e1, e4)
  <2>1. a1 \in Int /\ a2 \in Int /\ a3 \in Int /\ now \in Int /\ a3 <= now /\ now - a1 <= Horizon
    BY Units DEF TimesInv
  <2>2. a1 <= a2 /\ a2 <= a3
    BY DEF DelayInv
  <2> QED  BY <1>1, <1>3, <2>1, <2>2 DEF Exchange, DelayInv
<1>5. at'[1] = a1 /\ at'[2] = a2 /\ at'[3] = a3 /\ at'[4] = now /\ skew' = skew
  BY DEF Receive, TimesInv
<1>6. /\ result'.roundtrip = roundtrip_calculate((a1 + skew - e1) % U64, a2 % U64, a3 % U64,
                                                 (now + skew - e4) % U64)
      /\ result'.offset = offset_calculate((a1 + skew - e1) % U64, a2 % U64, a3 % U64,
                                           (now + skew - e4) % U64)
  BY <1>1, <1>3 DEF NtpResult, Answer
<1> HIDE DEF a1, a2, a3
<1> DEFINE delay == (a2 - a1) + (now - a3)
           r == result'.roundtrip
           o == result'.offset
<1>7. delay * USEC_IN_SEC >= 2 * U32 => Abs(r * U32 - delay * USEC_IN_SEC) <= 3 * U32
  BY <1>4, <1>6, RoundtripRight
<1>8. Abs(2 * (o * U32 + skew * USEC_IN_SEC)) <= delay * USEC_IN_SEC + 6 * U32
  BY <1>4, <1>6, OffsetRight
<1> QED  BY <1>5, <1>7, <1>8 DEF DelayAndOffset

LEMMA DelayInitial == NtpInit => DelayInv
<1> SUFFICES ASSUME NtpInit PROVE DelayInv
  OBVIOUS
<1>1. packet = Nothing /\ packet # [kind |-> "request"] /\ packet # Answer
  BY DEF NtpInit, Nothing, Answer
<1>2. result = Nothing /\ result.kind # "result"
  BY DEF NtpInit, Nothing
<1> QED  BY <1>1, <1>2 DEF NtpInit, DelayInv, DelayAndOffset

(* The invariant in every step. *)
LEMMA DelayStep == NtpInv /\ DelayInv /\ [NtpNext]_ntpVars => DelayInv'
<1> SUFFICES ASSUME NtpInv, DelayInv, [NtpNext]_ntpVars PROVE DelayInv'
  OBVIOUS
<1> USE DEF NtpInv
<1>1. skew' = skew /\ gen' = gen
  BY DEF NtpNext, Request, RequestFails, ServerReceives, ServerAnswers, Stray, Receive, Tick,
         Elapse, ntpVars
<1>2. ASSUME result = Nothing, result' = result PROVE DelayAndOffset'
  BY <1>2 DEF DelayAndOffset, Nothing
<1>3. ASSUME UNCHANGED << result, at >> PROVE DelayAndOffset'
  BY <1>1, <1>3 DEF DelayInv, DelayAndOffset, Abs
<1>4. ASSUME packet' = Nothing PROVE packet' # [kind |-> "request"] /\ packet' # Answer'
  BY <1>4 DEF Nothing, Answer
<1>5. CASE Request
  <2>1. packet = Nothing /\ result = Nothing
    BY <1>5 DEF Request, PacketInv, DelayInv
  <2>2. packet' = Nothing /\ result' = Nothing /\ pc' = "recv"
    BY <1>5, <2>1 DEF Request, Nothing
  <2>3. gen = "std" => \E e \in Lag : sent' = (at'[1] + skew' - e) % U64
    <3>1. SUFFICES ASSUME gen = "std" PROVE \E e \in Lag : sent' = (at'[1] + skew' - e) % U64
      OBVIOUS
    <3>2. now \in Int /\ skew \in Int /\ at'[1] = now /\ sent' = get_ntp_timestamp
      BY Units, <1>5 DEF TimesInv, Request
    <3> QED  BY <1>1, <3>1, <3>2, StampIsLate
  <2>4. DelayAndOffset'
    BY <1>2, <2>1, <2>2
  <2> QED  BY <1>1, <1>4, <2>2, <2>3, <2>4 DEF DelayInv
<1>6. CASE RequestFails
  <2>1. packet' = Nothing /\ pc' = "tick" /\ UNCHANGED << result, at >>
    BY <1>6 DEF RequestFails, PacketInv
  <2> QED  BY <1>1, <1>3, <1>4, <2>1 DEF DelayInv
<1>7. CASE ServerReceives
  <2>1. result = Nothing /\ result' = result /\ pc = "recv" /\ pc' = pc /\ sent' = sent
    BY <1>7 DEF ServerReceives, DelayInv
  <2>2. at'[1] = at[1] /\ at'[2] = now /\ at[1] <= now
    BY <1>7, Units DEF ServerReceives, TimesInv
  <2>3. packet' # Answer'
    BY <1>7 DEF ServerReceives, Answer
  <2>4. DelayAndOffset'
    BY <1>2, <2>1
  <2> QED  BY <1>1, <2>1, <2>2, <2>3, <2>4 DEF DelayInv
<1>8. CASE ServerAnswers
  <2>1. packet = [kind |-> "request"] /\ pc = "recv"
    BY <1>8 DEF ServerAnswers, PacketInv, Nothing, Answer
  <2>2. result = Nothing /\ result' = result /\ pc' = pc /\ sent' = sent
    BY <1>8, <2>1 DEF ServerAnswers, DelayInv
  <2>3. at'[1] = at[1] /\ at'[2] = at[2] /\ at'[3] = now /\ at[2] <= now
    BY <1>8, Units DEF ServerAnswers, TimesInv
  <2>4. packet' # [kind |-> "request"]
    BY <1>8 DEF ServerAnswers
  <2>5. DelayAndOffset'
    BY <1>2, <2>2
  <2> QED  BY <1>1, <2>1, <2>2, <2>3, <2>4, <2>5 DEF DelayInv
<1>9. CASE Stray
  <2>1. packet'.kind = "answer" /\ Refused(packet')
    BY <1>9, StraysRefused DEF Stray, TimesInv
  <2>2. Refused(packet)' /\ packet' # [kind |-> "request"]
    BY <1>9, <2>1 DEF Stray, Refused
  <2>3. UNCHANGED << result, at, pc, sent >>
    BY <1>9 DEF Stray
  <2> QED  BY <1>1, <1>3, <2>2, <2>3 DEF DelayInv
<1>10. CASE Receive
  <2>1. packet' = Nothing /\ pc' \in {"tick", "panic"} /\ result = Nothing
    BY <1>10 DEF Receive, DelayInv
  <2>2. CASE result' = result
    BY <1>1, <1>2, <1>4, <2>1, <2>2 DEF DelayInv
  <2>3. CASE result' # result
    <3>1. ~Refused(packet) /\ result' = NtpResult(packet)
      BY <1>10, <2>3 DEF Receive
    <3>2. packet = Answer
      BY <1>10, <3>1 DEF PacketInv, Receive, Nothing
    <3>3. DelayAndOffset'
      BY <1>10, <3>1, <3>2, ResultRight
    <3> QED  BY <1>1, <1>4, <2>1, <3>3 DEF DelayInv
  <2> QED  BY <2>2, <2>3
<1>11. CASE UNCHANGED << packet, pc, sent, at, result >>
  BY <1>1, <1>3, <1>11 DEF DelayInv, Answer, Refused
<1> QED  BY <1>5, <1>6, <1>7, <1>8, <1>9, <1>10, <1>11 DEF NtpNext, Tick, Elapse, ntpVars

(* The delay and the offset that sntpc computes are those of the exchange, *)
(* to within the resolution of the stamps, for clocks that differ by less  *)
(* than a quarter era and wherever in the exchange the stamps wrap around. *)
THEOREM DelayAndOffsetRight == NtpSpec => []DelayAndOffset
<1>1. DelayInv => DelayAndOffset
  BY DEF DelayInv
<1> QED  BY <1>1, DelayInitial, DelayStep, NtpInvariant, PTL DEF NtpSpec
=============================================================================
