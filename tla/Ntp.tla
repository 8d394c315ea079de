---------------------------------- MODULE Ntp ----------------------------------
(***************************************************************************)
(* ntp_task (tasks/ntp) and the SNTP client it calls (sntpc): one request  *)
(* after start-up, the checks of the answer, the clock arithmetic, the     *)
(* setting of the RTC, and then a tick per second that publishes it.       *)
(*                                                                         *)
(* Real time is counted in fractions of a second since 1900; a second has  *)
(* U32 fractions and an era of NTP has U32 seconds, so that time stamps    *)
(* are below U64 = U32 * U32 and wrap around (in 2036).                    *)
(***************************************************************************)
EXTENDS Integers

CONSTANTS
    U32,                      \* 2^32: values of a u32
    NTP_TIMESTAMP_DELTA,      \* seconds from 1900 to 1970
    USEC_IN_SEC,
    Zones,                    \* seconds the zone TZ may be ahead of UTC, or behind
    Starts,                   \* instants at which the task may start
    Skews,                    \* what the client's clock may be ahead, or behind
    Horizon                   \* bound: instants in a behaviour after its start

ASSUME NtpAssumption ==
    /\ {U32, NTP_TIMESTAMP_DELTA, USEC_IN_SEC, Horizon} \subseteq Nat
    /\ 1 < USEC_IN_SEC /\ USEC_IN_SEC < U32 /\ NTP_TIMESTAMP_DELTA < U32
    /\ Starts \subseteq Nat /\ Skews \subseteq Nat /\ Zones \subseteq Nat

(* A u32 of seconds since 1970 ends in 2106: the task runs in between, and *)
(* not in the hours of 1970 that a zone is ahead.                          *)
ASSUME EpochAssumption ==
    \A s \in Starts :
        /\ NTP_TIMESTAMP_DELTA * U32 <= s
        /\ \A z \in Zones : (NTP_TIMESTAMP_DELTA + z) * U32 <= s
        /\ s + Horizon < (NTP_TIMESTAMP_DELTA + U32 - 1) * U32

(* A microsecond is several fractions long, and the clocks differ by less  *)
(* than a quarter era, with some room for the delay.                       *)
ASSUME ClockAssumption ==
    /\ 4 <= USEC_IN_SEC /\ 4 * USEC_IN_SEC <= U32
    /\ \A s \in Skews : 4 * s + 2 * Horizon + 2 * U32 < U32 * U32

VARIABLES
    gen,                      \* the generator: "std" (sntpc) or "rtc" (ntp_process.rs)
    checks,                   \* the build has overflow-checks
    zone,                     \* the zone it is built for is ahead of UTC by this
    now, start,               \* real time, and when the task started
    skew,                     \* the client's clock is ahead by this
    pc,
    sent,                     \* SendRequestResult: the origin time stamp
    packet,                   \* the datagram under way to the client
    at,                       \* history: instants of T1 to T4
    result,                   \* NtpResult
    rtc,                      \* fractions since 1970 the RTC shows, once set
    UTC_NOW

ntpVars == << gen, checks, zone, now, start, skew, pc, sent, packet, at, result, rtc, UTC_NOW >>

U64 == U32 * U32
Nothing == [kind |-> "nothing"]
Unset == -1

NtpInit ==
    /\ gen \in {"std", "rtc"} /\ checks \in BOOLEAN
    /\ zone \in Zones \union {-z : z \in Zones}
    /\ now \in Starts /\ start = now /\ skew \in Skews \union {-s : s \in Skews}
    /\ pc = "request" /\ sent = 0 /\ packet = Nothing
    /\ at = [i \in 1..4 |-> now]
    /\ result = Nothing /\ rtc = Unset /\ UTC_NOW = Unset

-----------------------------------------------------------------------------
(* Time stamps. *)

(* The clock of the client, in microseconds since 1970: SystemTime::now,   *)
(* read by init, or the RTC as it was when the task started.               *)
Micros ==
    LET t == (IF gen = "std" THEN now ELSE start) + skew - NTP_TIMESTAMP_DELTA * U32
    IN  (t * USEC_IN_SEC) \div U32

timestamp_sec == Micros \div USEC_IN_SEC

(* The RTC's generator returns all microseconds since 1970, as a u32. *)
timestamp_subsec_micros ==
    IF gen = "std" THEN Micros % USEC_IN_SEC ELSE Micros % U32

get_ntp_timestamp ==
    ((timestamp_sec + NTP_TIMESTAMP_DELTA) * U32
        + (timestamp_subsec_micros * (U32 - 1)) \div USEC_IN_SEC) % U64

(* An i64 with the bits of a u64, and division as Rust does it. *)
Signed(v) == IF v < U64 \div 2 THEN v ELSE v - U64
Abs(n) == IF n < 0 THEN -n ELSE n
Signum(n) == IF n = 0 THEN 0 ELSE IF n < 0 THEN -1 ELSE 1
Half(n) == Signum(n) * (Abs(n) \div 2)

convert_delays(sec, fraction, units) == sec * units + (fraction * units) \div (U32 - 1)

roundtrip_calculate(t1, t2, t3, t4) ==
    LET delta == (t4 - t1 - (t3 - t2)) % U64
    IN  convert_delays(delta \div U32, delta % U32, USEC_IN_SEC)

(* Mutant of offset_calculate: the two differences are of the same sign. *)
offset_mirrored(t1, t2, t3, t4) ==
    LET theta == Half(Signed((Signed((t2 - t1) % U64) + Signed((t4 - t3) % U64)) % U64))
    IN  Signum(theta) * convert_delays(Abs(theta) \div U32, Abs(theta) % U32, USEC_IN_SEC)

(* wrapping_add of the two differences, each an i64. *)
offset_calculate(t1, t2, t3, t4) ==
    LET theta == Half(Signed((Signed((t2 - t1) % U64) + Signed((t3 - t4) % U64)) % U64))
    IN  Signum(theta) * convert_delays(Abs(theta) \div U32, Abs(theta) % U32, USEC_IN_SEC)

(* Mutant of UnixSeconds: the difference is cut off at zero. *)
UnixSecondsSaturating(v) ==
    IF v \div U32 < NTP_TIMESTAMP_DELTA THEN 0 ELSE v \div U32 - NTP_TIMESTAMP_DELTA

(* NtpTimestamp::from and the cast to u32 of its seconds. *)
UnixSeconds(v) == (v \div U32 - NTP_TIMESTAMP_DELTA) % U32

(* Its subtraction of u64s underflows in the era that starts in 2036; so   *)
(* may the addition in NtpResult::new overflow.                            *)
Overflows(v) ==
    \/ v \div U32 < NTP_TIMESTAMP_DELTA
    \/ UnixSeconds(v) + (v % U32) \div (U32 - 1) >= U32

-----------------------------------------------------------------------------
(* get_time: the request is made and sent. *)
Request ==
    /\ pc = "request"
    /\ sent' = get_ntp_timestamp
    /\ at' = [at EXCEPT ![1] = now]
    /\ pc' = "recv"
    /\ UNCHANGED << gen, checks, zone, now, start, skew, packet, result, rtc, UTC_NOW >>

(* Sending it fails: get_time returns an error, which is logged. *)
RequestFails ==
    /\ pc = "request"
    /\ pc' = "tick"
    /\ UNCHANGED << gen, checks, zone, now, start, skew, sent, packet, at, result, rtc, UTC_NOW >>

(* Real time goes on. *)
Elapse ==
    /\ now < start + Horizon
    /\ now' = now + 1
    /\ rtc' = IF rtc = Unset THEN rtc ELSE rtc + 1
    /\ UNCHANGED << gen, checks, zone, start, skew, pc, sent, packet, at, result, UTC_NOW >>

(* The request reaches the server. *)
ServerReceives ==
    /\ pc = "recv" /\ packet = Nothing
    /\ packet' = [kind |-> "request"]
    /\ at' = [at EXCEPT ![2] = now]
    /\ UNCHANGED << gen, checks, zone, now, start, skew, pc, sent, result, rtc, UTC_NOW >>

(* The server answers. *)
ServerAnswers ==
    /\ packet.kind = "request"
    /\ packet' = [kind |-> "answer", origin |-> sent, mode |-> 4, version |-> 4, stratum |-> 1,
                  len |-> 48, recv |-> at[2] % U64, tx |-> now % U64]
    /\ at' = [at EXCEPT ![3] = now]
    /\ UNCHANGED << gen, checks, zone, now, start, skew, pc, sent, result, rtc, UTC_NOW >>

(* Something else comes first: a datagram that is no answer to the request *)
(* in one respect or another.                                              *)
Strays ==
    LET good == [kind |-> "answer", origin |-> sent, mode |-> 4, version |-> 4, stratum |-> 1,
                 len |-> 48, recv |-> 0, tx |-> 0]
    IN  {[good EXCEPT !.origin = (@ + 1) % U64], [good EXCEPT !.mode = 3],
         [good EXCEPT !.version = 3], [good EXCEPT !.stratum = 0], [good EXCEPT !.len = 0]}

Stray ==
    /\ pc = "recv" /\ packet.kind # "answer"
    /\ packet' \in Strays
    /\ UNCHANGED << gen, checks, zone, now, start, skew, pc, sent, at, result, rtc, UTC_NOW >>

(* sntp_process_response and process_response, in their order.  The        *)
(* address it compares is the configured one in any case: recv_from of     *)
(* ntp_process.rs returns that and not the sender's.                       *)
Refused(p) ==
    \/ p.len # 48
    \/ p.origin # sent
    \/ p.mode \notin {4, 5}
    \/ p.version # 4
    \/ p.stratum = 0

(* NtpResult::new carries a fraction of u32::MAX into the seconds. *)
NtpResult(p) ==
    [kind |-> "result",
     seconds |-> (UnixSeconds(p.tx) + (p.tx % U32) \div (U32 - 1)) % U32,
     roundtrip |-> roundtrip_calculate(p.origin, p.recv, p.tx, get_ntp_timestamp),
     offset |-> offset_calculate(p.origin, p.recv, p.tx, get_ntp_timestamp)]

(* Its seconds are taken as local time of the zone TZ; when the zone has   *)
(* no such time, or two, the RTC is not set.                               *)
SetRtc(seconds) == rtc' \in {rtc, (seconds - zone) * U32}

(* An answer is received. *)
Receive ==
    /\ pc = "recv" /\ packet.kind = "answer"
    /\ packet' = Nothing
    /\ at' = [at EXCEPT ![4] = now]
    /\ \/ Refused(packet) /\ pc' = "tick" /\ UNCHANGED << result, rtc >>
       \/ /\ ~Refused(packet) /\ checks /\ Overflows(packet.tx)
          /\ pc' = "panic"
          /\ UNCHANGED << result, rtc >>
       \/ /\ ~Refused(packet) /\ ~(checks /\ Overflows(packet.tx))
          /\ pc' = "tick"
          /\ result' = NtpResult(packet)
          /\ SetRtc(result'.seconds)
    /\ UNCHANGED << gen, checks, zone, now, start, skew, sent, UTC_NOW >>

(* UTC_NOW.signal(rtc.now()), every second. *)
Tick ==
    /\ pc = "tick"
    /\ UTC_NOW' = rtc
    /\ UNCHANGED << gen, checks, zone, now, start, skew, pc, sent, packet, at, result, rtc >>

NtpNext ==
    \/ Request \/ RequestFails \/ ServerReceives \/ ServerAnswers \/ Stray \/ Receive
    \/ Tick \/ Elapse

NtpSpec == NtpInit /\ [][NtpNext]_ntpVars

-----------------------------------------------------------------------------
(* Once set, the RTC shows UTC less the offset of the zone, since UTC was  *)
(* taken for local time; it lags that by the time the answer took and less *)
(* than a second of truncation, and is never more than a fraction ahead,   *)
(* also in the era of NTP that starts in 2036.                             *)
RtcFollowsServer ==
    rtc # Unset =>
        LET true == now - (NTP_TIMESTAMP_DELTA + zone) * U32
        IN  rtc \in (true - (at[4] - at[3]) - (U32 - 1)) .. (true + 1)

(* The delay and the offset of the clock that sntpc computes, from stamps  *)
(* that have a resolution of a microsecond and wrap around: the delay is   *)
(* exact, unless it is below the resolution, and the error of the offset   *)
(* at most half of it, to within three microseconds, as long as the clocks *)
(* differ by less than a quarter era.                                      *)
DelayAndOffset ==
    result.kind = "result" /\ gen = "std" =>
        LET delay == (at[2] - at[1]) + (at[4] - at[3])
            us(n) == n * USEC_IN_SEC
        IN  /\ us(delay) >= 2 * U32 => Abs(result.roundtrip * U32 - us(delay)) <= 3 * U32
            /\ Abs(2 * (result.offset * U32 + us(skew))) <= us(delay) + 6 * U32

(* The generator "returns the fractional part of the timestamp in whole    *)
(* micro seconds" and "should not return microseconds since UNIX EPOCH"    *)
(* (types.rs, line 264): so a request carries the client's time, to within *)
(* a second.                                                               *)
StampIsClock ==
    pc = "recv" => Abs(Signed((sent - (at[1] + skew)) % U64)) <= U32
=============================================================================
