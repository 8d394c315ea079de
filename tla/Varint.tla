------------------------------- MODULE Varint --------------------------------
(***************************************************************************)
(* The variable byte integers of rust-mqtt (encoding/                      *)
(* variable_byte_integer.rs): up to four bytes of seven bits, least        *)
(* significant first, 128 marking that another byte follows.  As in the    *)
(* code a value is always an array of four bytes, zero-filled.             *)
(***************************************************************************)
EXTENDS Integers

MAX_ENCODABLE == 268435455

(* The continuation bit of a byte after which `rest` is still to come. *)
Continue(rest) == IF rest > 0 THEN 128 ELSE 0

(* What is left to encode after one byte: target /= 128. *)
Rest(n) == n \div 128

(* Mutant of VarintEncode: the last byte but one never says "continue". *)
VarintEncodeStopsEarly(n) ==
    << (n % 128) + Continue(Rest(n)),
       (Rest(n) % 128) + Continue(Rest(Rest(n))),
       Rest(Rest(n)) % 128,
       Rest(Rest(Rest(n))) >>

(* encode, for n up to MAX_ENCODABLE: larger values are an EncodingError. *)
VarintEncode(n) ==
    << (n % 128) + Continue(Rest(n)),
       (Rest(n) % 128) + Continue(Rest(Rest(n))),
       (Rest(Rest(n)) % 128) + Continue(Rest(Rest(Rest(n)))),
       Rest(Rest(Rest(n))) % 128 >>

(* len: the bytes of the array that are really sent. *)
VarintLen(v) ==
    CASE v[1] < 128 -> 1
      [] v[1] >= 128 /\ v[2] < 128 -> 2
      [] v[1] >= 128 /\ v[2] >= 128 /\ v[3] < 128 -> 3
      [] OTHER -> 4

(* decode.  Only the bytes up to the first without the continuation bit    *)
(* count; a fourth byte that has it is read past the array (see            *)
(* MqttBuffer!ReadVarint) and does not occur here.                         *)
VarintDecode(v) ==
    LET k == VarintLen(v)
    IN  (v[1] % 128)
        + (IF k >= 2 THEN 128 * (v[2] % 128) ELSE 0)
        + (IF k >= 3 THEN 16384 * (v[3] % 128) ELSE 0)
        + (IF k >= 4 THEN 2097152 * (v[4] % 128) ELSE 0)
=============================================================================
