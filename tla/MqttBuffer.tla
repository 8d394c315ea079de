----------------------------- MODULE MqttBuffer ------------------------------
(***************************************************************************)
(* What rust-mqtt writes to and reads from a byte buffer                   *)
(* (utils/buffer_writer.rs, utils/buffer_reader.rs) and the properties of  *)
(* MQTT 5 packets (packet/v5/property.rs).  A byte is a number, a string   *)
(* or binary value the sequence of its bytes, a property [id, val].        *)
(*                                                                         *)
(* A reader is a record: the buffer, the position (bytes consumed), the    *)
(* value read last and the error, "ok" while there is none.                *)
(***************************************************************************)
EXTENDS Varint, Sequences, FiniteSetsExt, SequencesExt

CONSTANT MAX_PROPERTIES       \* capacity of a packet's property list

-----------------------------------------------------------------------------
(* Writer: integers are big endian, lengths precede strings and binaries.  *)
U16(n) == << n \div 256, n % 256 >>

U32(n) == << n \div 16777216, (n \div 65536) % 256, (n \div 256) % 256, n % 256 >>

WriteVarint(n) == SubSeq(VarintEncode(n), 1, VarintLen(VarintEncode(n)))

WriteString(s) == U16(Len(s)) \o s

WriteBinary(b) == U16(Len(b)) \o b

WriteFilters(sub, fs) ==
    FlattenSeq([i \in DOMAIN fs |->
        WriteString(fs[i].filter) \o (IF sub THEN << fs[i].sub_options >> ELSE << >>)])

-----------------------------------------------------------------------------
(* How each property is represented, by its identifier on the wire. *)
U8Ids     == {1, 23, 25, 36, 37, 40, 41, 42}
U16Ids    == {19, 33, 34, 35}
U32Ids    == {2, 17, 24, 39}
StringIds == {3, 8, 18, 21, 26, 28, 31}
BinaryIds == {9, 22}
PropertyIds == U8Ids \union U16Ids \union U32Ids \union StringIds \union BinaryIds \union {11, 38}

(* The result of an arithmetic operation on u16, without overflow checks. *)
AsU16(n) == n % 65536

(* encoded_len: without the identifier. *)
EncodedLen(p) ==
    CASE p.id \in U8Ids  -> 1
      [] p.id \in U16Ids -> 2
      [] p.id \in U32Ids -> 4
      [] p.id \in StringIds \union BinaryIds -> AsU16(Len(p.val) + 2)
      [] p.id = 11 -> VarintLen(VarintEncode(p.val))
      [] p.id = 38 -> AsU16(Len(p.val[1]) + 2 + Len(p.val[2]) + 2)

(* write_property: the identifier, then the value. *)
WriteProperty(p) ==
    << p.id >> \o
    CASE p.id \in U8Ids  -> << p.val >>
      [] p.id \in U16Ids -> U16(p.val)
      [] p.id \in U32Ids -> U32(p.val)
      [] p.id \in StringIds -> WriteString(p.val)
      [] p.id \in BinaryIds -> WriteBinary(p.val)
      [] p.id = 11 -> WriteVarint(p.val)
      [] p.id = 38 -> WriteString(p.val[1]) \o WriteString(p.val[2])

(* The property length and the properties, as every packet writes them. *)
WriteProps(ps) ==
    WriteVarint(ps.len) \o FlattenSeq([i \in DOMAIN ps.list |-> WriteProperty(ps.list[i])])

(* push_to_properties: what exceeds the capacity is dropped. *)
Push(list, p) == IF Len(list) < MAX_PROPERTIES THEN Append(list, p) ELSE list

(* add_properties: the allowed ones are pushed and all of them counted. *)
AddProperties(allowed, config) ==
    FoldLeft(LAMBDA ps, p :
                 IF p.id \in allowed
                 THEN [len |-> ps.len + EncodedLen(p) + 1, list |-> Push(ps.list, p)]
                 ELSE ps,
             [len |-> 0, list |-> << >>], config)

-----------------------------------------------------------------------------
Reader(buf) == [buf |-> buf, pos |-> 0, val |-> 0, err |-> "ok"]

Fail(r, e) == [r EXCEPT !.err = e]

Got(r, v, n) == [buf |-> r.buf, pos |-> r.pos + n, val |-> v, err |-> r.err]

Holds(r, n) == r.pos + n <= Len(r.buf)

BytesAt(r, from, n) == SubSeq(r.buf, r.pos + from + 1, r.pos + from + n)

(* from_be_bytes, of one, two or four bytes *)
Uint(b) ==
    IF Len(b) = 1 THEN b[1]
    ELSE IF Len(b) = 2 THEN 256 * b[1] + b[2]
    ELSE 16777216 * b[1] + 65536 * b[2] + 256 * b[3] + b[4]

(* read_u8, read_u16, read_u32 *)
ReadUint(r, n) ==
    IF Holds(r, n) THEN Got(r, Uint(BytesAt(r, 0, n)), n)
    ELSE Fail(r, "InsufficientBufferSize")

(* The next read, unless this one failed (the `?` of the source). *)
Then(r, Next(_)) == IF r.err # "ok" THEN r ELSE Next(r)

(* Where a variable byte integer at the reader may end. *)
VarintEnds(r) == {k \in 1..4 : Holds(r, k) => r.buf[r.pos + k] < 128}

TakeVarint(r, k) ==
    IF Holds(r, k) THEN Got(r, VarintDecode(BytesAt(r, 0, k) \o << 0, 0, 0 >>), k)
    ELSE Fail(r, "InsufficientBufferSize")

(* Four bytes that all say "continue" make decode index past its array.    *)
ReadVarint(r) ==
    IF VarintEnds(r) = {} THEN Fail(r, "panic") ELSE TakeVarint(r, Min(VarintEnds(r)))

(* The length and the bytes of a string or binary value at the reader. *)
LengthAt(r) == r.buf[r.pos + 1] * 256 + r.buf[r.pos + 2]
ValueHeld(r) == Holds(r, 2) /\ Holds(r, 2 + LengthAt(r))

(* A byte above 127 stands for one that is not UTF-8. *)
IsUtf8(s) == \A i \in DOMAIN s : s[i] < 128

(* Mutant of ReadString: the position is left before the characters. *)
ReadStringStays(r) ==
    IF ~ValueHeld(r) THEN Fail(r, "InsufficientBufferSize")
    ELSE Got(r, BytesAt(r, 2, LengthAt(r)), 2)

ReadString(r) ==
    IF ~ValueHeld(r) THEN Fail(r, "InsufficientBufferSize")
    ELSE IF ~IsUtf8(BytesAt(r, 2, LengthAt(r))) THEN Fail(r, "Utf8Error")
    ELSE Got(r, BytesAt(r, 2, LengthAt(r)), 2 + LengthAt(r))

(* read_binary moves past the length only: what follows is read again. *)
ReadBinary(r) ==
    IF ~ValueHeld(r) THEN Fail(r, "InsufficientBufferSize")
    ELSE Got(r, BytesAt(r, 2, LengthAt(r)), 2)

ReadPair(r) ==
    Then(ReadString(r), LAMBDA name :
        Then(ReadString(name), LAMBDA value : Got(value, << name.val, value.val >>, 0)))

(* read_message: up to the end of the packet, or of the buffer.  A reader  *)
(* beyond that end, whose remaining length was not in its shortest form,   *)
(* slices backwards.                                                       *)
ReadMessage(r, total) ==
    IF r.pos > total THEN Fail(r, "panic")
    ELSE Got(r, SubSeq(r.buf, r.pos + 1, Min({total, Len(r.buf)})), 0)

(* The value of the property whose identifier i has read. *)
ReadValue(i) ==
    CASE i.val \in U8Ids  -> ReadUint(i, 1)
      [] i.val \in U16Ids -> ReadUint(i, 2)
      [] i.val \in U32Ids -> ReadUint(i, 4)
      [] i.val \in StringIds -> ReadString(i)
      [] i.val \in BinaryIds -> ReadBinary(i)
      [] i.val = 11 -> ReadVarint(i)
      [] i.val = 38 -> ReadPair(i)
      [] OTHER -> Fail(i, "IdNotFound")

(* Property::decode *)
ReadProperty(r) ==
    Then(ReadUint(r, 1), LAMBDA i :
        Then(ReadValue(i), LAMBDA v : Got(v, [id |-> i.val, val |-> v.val], 0)))

(* Mutant of PropsRead: the error that ended the rounds is dropped. *)
PropsReadLenient(len, st) ==
    Got([st.r EXCEPT !.err = "ok"], [len |-> len, list |-> st.list], 0)

(* The list, or the error that ended the rounds. *)
PropsRead(len, st) == Then(st.r, LAMBDA r : Got(r, [len |-> len, list |-> st.list], 0))

(* The rounds of decode_properties, from the reader h on: until the        *)
(* lengths of the properties read (x) add up to the property length.  A    *)
(* list keeps as many of them as it has room for.                          *)
PropsFrom(h, len) ==
    LET kept(list) == SubSeq(list, 1, Min({Len(list), MAX_PROPERTIES}))
        from[pos \in Nat, x \in Nat] ==
            LET q == ReadProperty([h EXCEPT !.pos = pos])
                rest == from[q.pos, x + EncodedLen(q.val) + 1]
            IN  IF x = len THEN [r |-> [h EXCEPT !.pos = pos], list |-> << >>]
                ELSE IF q.err # "ok" THEN [r |-> q, list |-> << >>]
                ELSE [rest EXCEPT !.list = kept(<< q.val >> \o @)]
    IN  from[h.pos, 0]

(* decode_properties *)
ReadProps(r) ==
    Then(ReadVarint(r), LAMBDA h :
        PropsRead(h.val, PropsFrom(h, h.val)))
=============================================================================
