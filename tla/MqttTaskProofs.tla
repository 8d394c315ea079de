---------------------------- MODULE MqttTaskProofs ----------------------------
(***************************************************************************)
(* For every buffer, transmit buffer and broker: what a success of the     *)
(* MQTT client means (client.rs over raw_client.rs, driven by              *)
(* mqtt_net_task or by an arbitrary application).  The argument is about   *)
(* the bytes in flight: the broker's stream is packet after packet, the    *)
(* receiver stands at the start of one whenever an operation begins, and   *)
(* the packets still in flight are none that the next operation could take *)
(* for its own answer.                                                     *)
(***************************************************************************)
EXTENDS MqttTask, MqttReceiveProofs, SequenceTheorems, TLAPS

-----------------------------------------------------------------------------
(* First bytes of the packets a broker sends. *)
Heads == {32, 48, 50, 64, 80, 144, 176, 208, 224}

(* The packet that starts after byte p says that it ends with byte e. *)
Ends(s, p, e) == p + 2 <= Len(s) /\ s[p + 2] = e - p - 2

(* s is packet after packet, the last one possibly cut off; P is where     *)
(* they start.                                                             *)
Framing(s, P) ==
    /\ P \subseteq Nat
    /\ Len(s) > 0 => 0 \in P
    /\ \A p \in P : p < Len(s) /\ s[p + 1] \in Heads
    /\ \A p \in P : p + 2 <= Len(s) => s[p + 2] \in 0..127
    /\ \A p \in P : p + 2 <= Len(s) /\ s[p + 1] = 64 => s[p + 2] = 4
    /\ \A p \in P, e \in Nat : Ends(s, p, e) => e >= Len(s) \/ e \in P
    /\ \A p, q \in P : p < q => p + 2 <= q
    /\ \A p, q \in P, e \in Nat : p < q /\ Ends(s, p, e) => e <= q

(* The last packet is not cut off. *)
Whole(s, P) ==
    \A p \in P : p + 2 <= Len(s) /\ \A e \in Nat : Ends(s, p, e) => e <= Len(s)

(* One packet of a broker. *)
Frame(f) ==
    /\ f \in Seq(Nat) /\ Len(f) >= 2
    /\ f[1] \in Heads
    /\ f[2] \in 0..127 /\ f[2] = Len(f) - 2
    /\ f[1] = 64 => f[2] = 4

(* The bytes of two sequences of bytes, one after the other. *)
LEMMA JoinedBytes ==
    ASSUME NEW a \in Seq(Nat), NEW b \in Seq(Nat)
    PROVE  /\ a \o b \in Seq(Nat) /\ Len(a \o b) = Len(a) + Len(b)
           /\ \A j \in 1..Len(a) : (a \o b)[j] = a[j]
           /\ \A j \in 1..Len(b) : (a \o b)[Len(a) + j] = b[j]
  OBVIOUS

(* A packet sent after whole packets is one more packet of the stream. *)
LEMMA FrameAppended ==
    ASSUME NEW s \in Seq(Nat), NEW f, Frame(f), NEW P, Framing(s, P), Whole(s, P)
    PROVE  LET t == s \o f
               Q == P \union {Len(s)}
           IN  Framing(t, Q) /\ Whole(t, Q)
<1> DEFINE n == Len(s)
           t == s \o f
           Q == P \union {n}
<1>1. n \in Nat /\ f \in Seq(Nat) /\ Len(f) \in Nat /\ Len(f) >= 2
  BY DEF Frame
<1>2. /\ t \in Seq(Nat) /\ Len(t) = n + Len(f)
      /\ \A j \in 1..n : t[j] = s[j]
      /\ \A j \in 1..Len(f) : t[n + j] = f[j]
  BY <1>1, JoinedBytes
<1> HIDE DEF t, n
<1>3. /\ t[n + 1] \in Heads /\ t[n + 2] \in 0..127 /\ (t[n + 1] = 64 => t[n + 2] = 4)
      /\ t[n + 2] = Len(f) - 2
  <2>1. 1 \in 1..Len(f) /\ 2 \in 1..Len(f)
    BY <1>1
  <2>2. t[n + 1] = f[1] /\ t[n + 2] = f[2]
    BY <1>2, <2>1
  <2> QED
    BY <2>2 DEF Frame
<1>4. ASSUME NEW e \in Nat, Ends(t, n, e) PROVE e = Len(t)
  <2>1. t[n + 2] = e - n - 2
    BY <1>4 DEF Ends
  <2>2. Len(f) - 2 = e - n - 2
    BY <1>3, <2>1
  <2> QED
    BY <1>1, <1>2, <2>2
<1>5. \A p \in P : p \in Nat /\ p < n /\ p + 2 <= n
  BY DEF Framing, Whole, n
<1>6. ASSUME NEW p \in P PROVE t[p + 1] = s[p + 1] /\ t[p + 2] = s[p + 2]
  <2>1. p + 1 \in 1..n /\ p + 2 \in 1..n
    BY <1>1, <1>5
  <2> QED
    BY <1>2, <2>1
<1>7. \A p \in P, e \in Nat : Ends(t, p, e) => Ends(s, p, e)
  BY <1>5, <1>6 DEF Ends, n
<1>8. \A p \in P, e \in Nat : Ends(t, p, e) => e <= n /\ (e >= n \/ e \in P)
  BY <1>7 DEF Framing, Whole, n
<1>9. Whole(t, Q)
  <2>1. Len(t) \in Nat /\ Len(t) >= n + 2
    BY <1>1, <1>2
  <2>2. \A p \in Q : p + 2 <= Len(t)
    BY <1>1, <1>5, <2>1
  <2>3. \A p \in P, e \in Nat : Ends(t, p, e) => e <= Len(t)
    BY <1>1, <1>8, <2>1
  <2>4. \A e \in Nat : Ends(t, n, e) => e <= Len(t)
    BY <1>4, <2>1
  <2> QED
    BY <2>2, <2>3, <2>4 DEF Whole
<1>10. Q \subseteq Nat /\ 0 \in Q
  <2>1. Len(s) > 0 => 0 \in P
    BY DEF Framing
  <2> QED
    BY <1>1, <1>5, <2>1 DEF n
<1>11. \A p \in Q : p < Len(t) /\ t[p + 1] \in Heads
  <2>1. \A p \in P : t[p + 1] \in Heads
    BY <1>6 DEF Framing
  <2>2. Len(t) \in Nat /\ Len(t) >= n + 2
    BY <1>1, <1>2
  <2>3. \A p \in Q : p < Len(t)
    BY <1>1, <1>5, <2>2
  <2> QED
    BY <1>3, <2>1, <2>3
<1>12. \A p \in Q : t[p + 2] \in 0..127 /\ (t[p + 1] = 64 => t[p + 2] = 4)
  <2>1. \A p \in P : s[p + 2] \in 0..127 /\ (s[p + 1] = 64 => s[p + 2] = 4)
    BY <1>5 DEF Framing, n
  <2> QED
    BY <1>3, <1>6, <2>1
<1>13. \A p \in Q, e \in Nat : Ends(t, p, e) => e >= Len(t) \/ e \in Q
  BY <1>1, <1>2, <1>4, <1>8
<1>14. \A p, q \in Q : p < q => p + 2 <= q
  <2>1. \A p, q \in P : p < q => p + 2 <= q
    BY DEF Framing
  <2> QED
    BY <1>1, <1>5, <2>1
<1>15. \A p, q \in Q, e \in Nat : p < q /\ Ends(t, p, e) => e <= q
  <2>1. \A p, q \in P, e \in Nat : p < q /\ Ends(t, p, e) => e <= q
    BY <1>7 DEF Framing
  <2> QED
    BY <1>1, <1>5, <1>8, <2>1
<1>16. Framing(t, Q)
  BY <1>10, <1>11, <1>12, <1>13, <1>14, <1>15 DEF Framing
<1> QED
  BY <1>9, <1>16 DEF t, n

(* What is left of a stream that ends early is framed as before. *)
LEMMA StreamCut ==
    ASSUME NEW s \in Seq(Nat), NEW t \in Seq(Nat), Len(t) <= Len(s),
           \A j \in 1..Len(t) : t[j] = s[j],
           NEW P, Framing(s, P)
    PROVE  Framing(t, {p \in P : p < Len(t)})
<1> DEFINE Q == {p \in P : p < Len(t)}
           n == Len(t)
<1>1. n \in Nat /\ Len(s) \in Nat /\ n <= Len(s) /\ P \subseteq Nat
  BY DEF Framing
<1>2. \A j \in 1..n : t[j] = s[j]
  OBVIOUS
<1>3. \A p \in Q : p \in P /\ p \in Nat /\ p < n
  BY <1>1
<1>4. n > 0 => 0 \in Q
  <2>1. Len(s) > 0 => 0 \in P
    BY DEF Framing
  <2> QED
    BY <1>1, <2>1
<1> HIDE DEF n, Q
<1>5. \A p \in Q : t[p + 1] = s[p + 1] /\ (p + 2 <= n => t[p + 2] = s[p + 2])
  BY <1>1, <1>2, <1>3
<1>6. \A p \in Q : t[p + 1] \in Heads
  BY <1>3, <1>5 DEF Framing
<1>7. ASSUME NEW p \in Q, p + 2 <= n
      PROVE  t[p + 2] \in 0..127 /\ (t[p + 1] = 64 => t[p + 2] = 4)
  <2>1. p + 2 <= Len(s) /\ t[p + 1] = s[p + 1] /\ t[p + 2] = s[p + 2]
    BY <1>1, <1>3, <1>5, <1>7
  <2>2. s[p + 2] \in 0..127 /\ (s[p + 1] = 64 => s[p + 2] = 4)
    BY <1>3, <2>1 DEF Framing
  <2> QED
    BY <2>1, <2>2
<1>8. \A p \in Q, e \in Nat : Ends(t, p, e) => Ends(s, p, e)
  BY <1>1, <1>3, <1>5 DEF Ends, n
<1>9. \A p \in Q, e \in Nat : Ends(t, p, e) => e >= n \/ e \in Q
  <2>1. \A p \in P, e \in Nat : Ends(s, p, e) => e >= Len(s) \/ e \in P
    BY DEF Framing
  <2>2. \A e \in P : e < n => e \in Q
    BY DEF Q, n
  <2> QED
    BY <1>1, <1>3, <1>8, <2>1, <2>2
<1>10. \A p, q \in Q : p < q => p + 2 <= q
  BY <1>3 DEF Framing
<1>11. \A p, q \in Q, e \in Nat : p < q /\ Ends(t, p, e) => e <= q
  BY <1>3, <1>8 DEF Framing
<1> QED
  BY <1>3, <1>4, <1>6, <1>7, <1>9, <1>10, <1>11 DEF Framing, Q, n

(* Once its first packet is taken, the rest of the stream is framed. *)
LEMMA FirstTaken ==
    ASSUME NEW s \in Seq(Nat), NEW t \in Seq(Nat), NEW n \in Nat, n >= 2,
           NEW P, Framing(s, P), Ends(s, 0, n), Len(s) = n + Len(t),
           \A j \in 1..Len(t) : t[j] = s[n + j]
    PROVE  LET Q == {p \in Nat : n + p \in P}
           IN  Framing(t, Q) /\ (Whole(s, P) => Whole(t, Q))
<1> DEFINE Q == {p \in Nat : n + p \in P}
           m == Len(t)
<1>1. m \in Nat /\ Len(s) = n + m /\ P \subseteq Nat /\ 0 \in P
  BY DEF Framing
<1>2. \A p \in Q : p \in Nat /\ n + p \in P /\ n + p < Len(s)
  BY DEF Framing
<1>3. \A j \in 1..m : t[j] = s[n + j]
  OBVIOUS
<1> HIDE DEF m
<1>4. m > 0 => 0 \in Q
  <2>1. n >= Len(s) \/ n \in P
    BY <1>1 DEF Framing
  <2> QED
    BY <1>1, <2>1
<1>5. \A p \in Nat : n + p \in P => p \in Q
  OBVIOUS
<1> HIDE DEF Q
<1>6. \A p \in Q : p < m
  BY <1>1, <1>2
<1>7. \A p \in Q : t[p + 1] = s[n + p + 1] /\ (p + 2 <= m => t[p + 2] = s[n + p + 2])
  <2>1. ASSUME NEW p \in Q PROVE t[p + 1] = s[n + p + 1] /\ (p + 2 <= m => t[p + 2] = s[n + p + 2])
    <3>1. p \in Nat /\ p < m
      BY <1>2, <1>6
    <3>2. p + 1 \in 1..m /\ (p + 2 <= m => p + 2 \in 1..m)
      BY <1>1, <3>1
    <3>3. n + (p + 1) = n + p + 1 /\ n + (p + 2) = n + p + 2
      BY <3>1
    <3>4. t[p + 1] = s[n + (p + 1)] /\ (p + 2 <= m => t[p + 2] = s[n + (p + 2)])
      BY <1>3, <3>2
    <3> QED
      BY <3>3, <3>4
  <2> QED
    BY <2>1
<1>8. \A p \in Q : t[p + 1] \in Heads
  BY <1>2, <1>7 DEF Framing
<1>9. ASSUME NEW p \in Q, p + 2 <= m
      PROVE  t[p + 2] \in 0..127 /\ (t[p + 1] = 64 => t[p + 2] = 4)
  <2>1. n + p + 2 <= Len(s) /\ t[p + 1] = s[n + p + 1] /\ t[p + 2] = s[n + p + 2]
    <3>1. p \in Nat
      BY <1>2
    <3>2. n + p + 2 <= Len(s)
      BY <1>1, <1>9, <3>1
    <3> QED
      BY <1>7, <1>9, <3>2
  <2>2. s[n + p + 2] \in 0..127 /\ (s[n + p + 1] = 64 => s[n + p + 2] = 4)
    BY <1>2, <2>1 DEF Framing
  <2> QED
    BY <2>1, <2>2
<1>10. ASSUME NEW p \in Q, NEW e \in Nat, Ends(t, p, e) PROVE Ends(s, n + p, n + e)
  <2>1. p \in Nat /\ p + 2 <= m /\ t[p + 2] = e - p - 2
    BY <1>2, <1>10 DEF Ends, m
  <2>2. s[n + p + 2] = e - p - 2 /\ n + p + 2 <= Len(s)
    <3>1. t[p + 2] = s[n + p + 2]
      BY <1>7, <2>1
    <3>2. n + p + 2 <= Len(s)
      BY <1>1, <2>1
    <3> QED
      BY <2>1, <3>1, <3>2
  <2>3. (n + e) - (n + p) - 2 = e - p - 2
    BY <2>1
  <2> QED
    BY <2>2, <2>3 DEF Ends
<1>11. ASSUME NEW p \in Q, NEW e \in Nat, Ends(t, p, e) PROVE e >= m \/ e \in Q
  <2>1. n + e \in Nat /\ n + p \in P /\ Ends(s, n + p, n + e)
    BY <1>2, <1>10, <1>11
  <2>2. n + e >= Len(s) \/ n + e \in P
    BY <2>1 DEF Framing
  <2> QED
    BY <1>1, <1>5, <2>2
<1>12. \A p, q \in Q : p < q => p + 2 <= q
  <2>1. ASSUME NEW p \in Q, NEW q \in Q, p < q PROVE p + 2 <= q
    <3>1. p \in Nat /\ q \in Nat /\ n + p \in P /\ n + q \in P
      BY <1>2
    <3>2. n + p < n + q => (n + p) + 2 <= n + q
      BY <3>1 DEF Framing
    <3> QED
      BY <2>1, <3>1, <3>2
  <2> QED
    BY <2>1
<1>13. ASSUME NEW p \in Q, NEW q \in Q, NEW e \in Nat, p < q, Ends(t, p, e) PROVE e <= q
  <2>1. p \in Nat /\ q \in Nat /\ n + p \in P /\ n + q \in P /\ n + e \in Nat
    BY <1>2
  <2>2. n + p < n + q /\ Ends(s, n + p, n + e)
    BY <1>10, <1>13, <2>1
  <2>3. n + e <= n + q
    BY <2>1, <2>2 DEF Framing
  <2> QED
    BY <2>1, <2>3
<1>14. Framing(t, Q)
  BY <1>2, <1>4, <1>6, <1>8, <1>9, <1>11, <1>12, <1>13 DEF Framing, m
<1>15. ASSUME Whole(s, P) PROVE Whole(t, Q)
  <2>1. ASSUME NEW p \in Q PROVE p + 2 <= m
    <3>1. (n + p) + 2 <= Len(s) /\ p \in Nat
      BY <1>2, <1>15 DEF Whole
    <3> QED
      BY <1>1, <3>1
  <2>2. ASSUME NEW p \in Q, NEW e \in Nat, Ends(t, p, e) PROVE e <= m
    <3>1. n + e \in Nat /\ n + p \in P /\ Ends(s, n + p, n + e)
      BY <1>2, <1>10, <2>2
    <3>2. n + e <= Len(s)
      BY <1>15, <3>1 DEF Whole
    <3> QED
      BY <1>1, <3>2
  <2> QED
    BY <2>1, <2>2 DEF Whole, m
<1> QED
  BY <1>14, <1>15 DEF Q

-----------------------------------------------------------------------------
(* What the packet that starts after byte p is: a DISCONNECT, a PINGRESP,  *)
(* a PUBLISH, a PUBACK for id, such a PUBACK without an error.             *)
GoodbyeAt(s, p) == s[p + 1] = 224
PongAt(s, p) == s[p + 1] = 208
MessageAt(s, p) == s[p + 1] \in {48, 50}
AckAt(s, p, id) ==
    /\ s[p + 1] = 64 /\ p + 5 <= Len(s)
    /\ \E a, b \in Nat : s[p + 3] = a /\ s[p + 4] = b /\ id = 256 * a + b
GoodAckAt(s, p, id) == AckAt(s, p, id) /\ s[p + 5] = 0

(* The packet of t after byte q is that of s after byte p, or a part of it. *)
Same(s, p, t, q) ==
    /\ t[q + 1] = s[p + 1]
    /\ \A id \in Nat : AckAt(t, q, id) => AckAt(s, p, id)
    /\ \A id \in Nat : GoodAckAt(t, q, id) => GoodAckAt(s, p, id)

(* Bytes that agree make packets that agree. *)
LEMMA SameBytes ==
    ASSUME NEW s, NEW t, NEW p \in Nat, NEW q \in Nat, Len(s) \in Nat, Len(t) \in Nat,
           Len(t) - q <= Len(s) - p, q < Len(t),
           \A j \in 1..(Len(t) - q) : t[q + j] = s[p + j]
    PROVE  Same(s, p, t, q)
<1>1. t[q + 1] = s[p + 1]
  <2>1. 1 \in 1..(Len(t) - q)
    OBVIOUS
  <2> QED
    BY <2>1
<1>2. ASSUME q + 5 <= Len(t)
      PROVE  p + 5 <= Len(s) /\ t[q + 3] = s[p + 3] /\ t[q + 4] = s[p + 4] /\ t[q + 5] = s[p + 5]
  <2>1. 3 \in 1..(Len(t) - q) /\ 4 \in 1..(Len(t) - q) /\ 5 \in 1..(Len(t) - q)
    BY <1>2
  <2>2. p + 5 <= Len(s)
    BY <1>2
  <2> QED
    BY <2>1, <2>2
<1>3. ASSUME NEW id \in Nat, AckAt(t, q, id) PROVE AckAt(s, p, id) /\ t[q + 5] = s[p + 5]
  <2>1. t[q + 1] = 64 /\ q + 5 <= Len(t)
    BY <1>3 DEF AckAt
  <2>2. PICK a \in Nat, b \in Nat : t[q + 3] = a /\ t[q + 4] = b /\ id = 256 * a + b
    BY <1>3 DEF AckAt
  <2>3. p + 5 <= Len(s) /\ s[p + 3] = a /\ s[p + 4] = b /\ t[q + 5] = s[p + 5]
    BY <1>2, <2>1, <2>2
  <2> QED
    BY <1>1, <2>1, <2>2, <2>3 DEF AckAt
<1>4. \A id \in Nat : GoodAckAt(t, q, id) => GoodAckAt(s, p, id)
  BY <1>3 DEF GoodAckAt
<1> QED
  BY <1>1, <1>3, <1>4 DEF Same

(* A packet appended leaves the packets before it as they are. *)
LEMMA AppendSame ==
    ASSUME NEW s \in Seq(Nat), NEW f, Frame(f), NEW P, Framing(s, P), Whole(s, P)
    PROVE  /\ \A p \in P : Same(s, p, s \o f, p) /\ p < Len(s)
           /\ (s \o f)[Len(s) + 1] = f[1]
           /\ Same(f, 0, s \o f, Len(s))
<1> DEFINE t == s \o f
           n == Len(s)
<1>1. f \in Seq(Nat) /\ Len(f) \in Nat /\ Len(f) >= 2 /\ n \in Nat
  BY DEF Frame
<1>2. /\ t \in Seq(Nat) /\ Len(t) = n + Len(f)
      /\ \A j \in 1..n : t[j] = s[j]
      /\ \A j \in 1..Len(f) : t[n + j] = f[j]
  BY <1>1, JoinedBytes
<1> HIDE DEF t
<1>3. Same(f, 0, t, n)
  <2>1. Len(t) \in Nat /\ Len(t) - n = Len(f) /\ n < Len(t)
    BY <1>1, <1>2
  <2>2. \A j \in 1..(Len(t) - n) : t[n + j] = f[0 + j]
    BY <1>1, <1>2, <2>1
  <2>3. Len(t) - n <= Len(f) - 0
    BY <1>1, <2>1
  <2> QED
    BY <1>1, <2>1, <2>2, <2>3, SameBytes
<1>4. t[n + 1] = f[1]
  <2>1. 1 \in 1..Len(f)
    BY <1>1
  <2> QED
    BY <1>2, <2>1
<1>5. ASSUME NEW p \in P PROVE Same(s, p, t, p) /\ p < n
  <2>1. p \in Nat /\ p < n /\ p + 2 <= n /\ s[p + 2] \in 0..127
    BY DEF Framing, Whole
  <2>2. PICK e \in Nat : s[p + 2] = e - p - 2 /\ e >= p + 2
    <3>1. PICK v \in 0..127 : s[p + 2] = v
      BY <2>1
    <3>2. p + 2 + v \in Nat /\ v = (p + 2 + v) - p - 2 /\ p + 2 + v >= p + 2
      BY <2>1
    <3> QED
      BY <3>1, <3>2
  <2>3. Ends(s, p, e)
    BY <2>1, <2>2 DEF Ends
  <2>4. e <= n
    BY <2>3 DEF Whole
  <2>5. s[p + 1] = t[p + 1]
    <3>1. p + 1 \in 1..n
      BY <1>1, <2>1
    <3> QED
      BY <1>2, <3>1
  <2>6. ASSUME s[p + 1] = 64 PROVE p + 5 <= n
    <3>1. s[p + 2] = 4
      BY <2>1, <2>6 DEF Framing
    <3>2. 4 = e - p - 2
      BY <2>2, <3>1
    <3> QED
      BY <1>1, <2>1, <2>4, <3>2
  <2>7. ASSUME s[p + 1] = 64
        PROVE  t[p + 3] = s[p + 3] /\ t[p + 4] = s[p + 4] /\ t[p + 5] = s[p + 5]
    <3>1. p + 5 <= n
      BY <2>6, <2>7
    <3>2. p + 3 \in 1..n /\ p + 4 \in 1..n /\ p + 5 \in 1..n
      BY <1>1, <2>1, <3>1
    <3> QED
      BY <1>2, <3>2
  <2>8. \A id \in Nat : AckAt(t, p, id) => AckAt(s, p, id)
    BY <2>5, <2>6, <2>7 DEF AckAt
  <2>9. \A id \in Nat : GoodAckAt(t, p, id) => GoodAckAt(s, p, id)
    BY <2>5, <2>7, <2>8 DEF GoodAckAt, AckAt
  <2> QED
    BY <2>1, <2>5, <2>8, <2>9 DEF Same
<1> QED
  BY <1>3, <1>4, <1>5 DEF t

-----------------------------------------------------------------------------
(* What poll makes of a packet. *)
Types == DOMAIN TypeByte \union {"Reserved"}

(* The type of a packet is one with the high half of its first byte. *)
LEMMA TypeKnown ==
    ASSUME NEW h \in Nat
    PROVE  /\ TypeOf(h) \in Types
           /\ TypeOf(h) # "Reserved" => TypeByte[TypeOf(h)] \div 16 = h \div 16
<1> DEFINE T == {t \in DOMAIN TypeByte : TypeByte[t] \div 16 = h \div 16}
<1>1. TypeOf(h) = IF T = {} THEN "Reserved" ELSE CHOOSE x \in T : TRUE
  BY DEF TypeOf
<1>2. CASE T = {}
  BY <1>1, <1>2 DEF Types
<1>3. CASE T # {}
  <2>1. (CHOOSE x \in T : TRUE) \in T
    BY <1>3
  <2>2. TypeOf(h) \in T
    BY <1>1, <1>3, <2>1
  <2> QED
    BY <2>2 DEF Types
<1> QED
  BY <1>2, <1>3

(* The packets of a broker that are taken for a PINGRESP, PUBLISH, PUBACK. *)
LEMMA HeadTypes ==
    ASSUME NEW h \in Heads
    PROVE  /\ TypeOf(h) \in Types
           /\ TypeOf(h) = "Pingresp" => h = 208
           /\ TypeOf(h) = "Publish" => h \in {48, 50}
           /\ TypeOf(h) = "Puback" => h = 64
<1>1. h \in Nat
  BY DEF Heads
<1>2. TypeOf(h) \in Types /\ (TypeOf(h) # "Reserved" => TypeByte[TypeOf(h)] \div 16 = h \div 16)
  BY <1>1, TypeKnown
<1>3. 32 \div 16 = 2 /\ 48 \div 16 = 3 /\ 50 \div 16 = 3 /\ 64 \div 16 = 4 /\ 80 \div 16 = 5
      /\ 144 \div 16 = 9 /\ 176 \div 16 = 11 /\ 208 \div 16 = 13 /\ 224 \div 16 = 14
  OBVIOUS
<1>4. ASSUME TypeOf(h) = "Pingresp" PROVE h = 208
  <2>1. h \div 16 = 13
    BY <1>2, <1>3, <1>4 DEF TypeByte
  <2> QED
    BY <1>3, <2>1 DEF Heads
<1>5. ASSUME TypeOf(h) = "Publish" PROVE h \in {48, 50}
  <2>1. h \div 16 = 3
    BY <1>2, <1>3, <1>5 DEF TypeByte
  <2> QED
    BY <1>3, <2>1 DEF Heads
<1>6. ASSUME TypeOf(h) = "Puback" PROVE h = 64
  <2>1. h \div 16 = 4
    BY <1>2, <1>3, <1>6 DEF TypeByte
  <2> QED
    BY <1>3, <2>1 DEF Heads
<1> QED
  BY <1>2, <1>4, <1>5, <1>6

(* Which packets make which events. *)
LEMMA EventKinds ==
    ASSUME NEW type \in Types, NEW p
    PROVE  LET e == EventOf(type, p)
           IN  /\ e.kind = "Pingresp" => type = "Pingresp"
               /\ e.kind = "Message" => type = "Publish"
               /\ e.kind = "Puback" => type = "Puback" /\ p.err = "ok"
                                       /\ e.id = p.set["packet_identifier"]
                                       /\ ("reason_code" \in DOMAIN p.set => p.set["reason_code"] = 0)
               /\ e.kind = "Err" => e.id # "ok"
<1>1. type \in {"Connect", "Connack", "Publish", "Puback", "Pubrec", "Pubrel", "Pubcomp",
                "Subscribe", "Suback", "Unsubscribe", "Unsuback", "Pingreq", "Pingresp",
                "Disconnect", "Auth", "Reserved"}
  BY DEF Types, TypeByte
<1>2. CASE type \in {"Reserved", "Connect", "Subscribe", "Unsubscribe", "Pingreq"}
  <2>1. EventOf(type, p) = Failed("ProtocolError")
    BY <1>2 DEF EventOf
  <2> QED
    BY <2>1 DEF Failed, Event
<1>3. CASE type \in {"Pubrec", "Pubrel", "Pubcomp", "Auth"}
  <2>1. EventOf(type, p) = Failed("ImplementationSpecificError")
    BY <1>3 DEF EventOf
  <2> QED
    BY <2>1 DEF Failed, Event
<1> DEFINE others == {"Connack", "Publish", "Puback", "Suback", "Unsuback", "Pingresp",
                      "Disconnect"}
<1>4. CASE type \in others /\ p.err # "ok"
  <2>1. EventOf(type, p) = Failed("BuffError")
    BY <1>4 DEF EventOf
  <2> QED
    BY <2>1 DEF Failed, Event
<1>5. CASE type = "Puback" /\ p.err = "ok"
  <2>1. EventOf(type, p) = IF "reason_code" \in DOMAIN p.set /\ p.set["reason_code"] # 0
                           THEN Failed("refused") ELSE Event("Puback", p.set["packet_identifier"])
    BY <1>5 DEF EventOf
  <2> QED
    BY <1>5, <2>1 DEF Failed, Event
<1>6. CASE type \in others \ {"Puback"} /\ p.err = "ok"
  <2>1. CASE type = "Connack"
    <3>1. EventOf(type, p) \in {Event("Connack", 0), Failed("refused")}
      BY <1>6, <2>1 DEF EventOf
    <3> QED
      BY <3>1 DEF Failed, Event
  <2>2. CASE type = "Suback"
    <3>1. EventOf(type, p) \in {Event("Suback", p.set["packet_identifier"]), Failed("refused")}
      BY <1>6, <2>2 DEF EventOf
    <3> QED
      BY <3>1 DEF Failed, Event
  <2>3. CASE type = "Unsuback"
    <3>1. EventOf(type, p) = Event("Unsuback", p.set["packet_identifier"])
      BY <1>6, <2>3 DEF EventOf
    <3> QED
      BY <3>1 DEF Event
  <2>4. CASE type = "Pingresp"
    <3>1. EventOf(type, p) = Event("Pingresp", 0)
      BY <1>6, <2>4 DEF EventOf
    <3> QED
      BY <2>4, <3>1 DEF Event
  <2>5. CASE type = "Publish"
    <3>1. EventOf(type, p) = Event("Message", IF "packet_identifier" \in DOMAIN p.set
                                              THEN p.set["packet_identifier"] ELSE 0)
      BY <1>6, <2>5 DEF EventOf
    <3> QED
      BY <2>5, <3>1 DEF Event
  <2>6. CASE type = "Disconnect"
    <3>1. EventOf(type, p) = Event("Disconnect", 0)
      BY <1>6, <2>6 DEF EventOf
    <3> QED
      BY <3>1 DEF Event
  <2> QED
    BY <1>6, <2>1, <2>2, <2>3, <2>4, <2>5, <2>6
<1> QED
  BY <1>1, <1>2, <1>3, <1>4, <1>5, <1>6

(* read_u8 and read_u16 where the buffer holds enough. *)
LEMMA UintRead ==
    ASSUME NEW b \in Seq(Nat), NEW p \in Nat, NEW v
    PROVE  LET r == [buf |-> b, pos |-> p, val |-> v, err |-> "ok"]
           IN  /\ p + 1 <= Len(b) =>
                     ReadUint(r, 1) = [buf |-> b, pos |-> p + 1, val |-> b[p + 1], err |-> "ok"]
               /\ p + 2 <= Len(b) =>
                     ReadUint(r, 2) = [buf |-> b, pos |-> p + 2,
                                       val |-> 256 * b[p + 1] + b[p + 2], err |-> "ok"]
<1> DEFINE r == [buf |-> b, pos |-> p, val |-> v, err |-> "ok"]
<1>1. ASSUME NEW n \in 1..2, p + n <= Len(b)
      PROVE  /\ ReadUint(r, n) = [buf |-> b, pos |-> p + n, val |-> Uint(BytesAt(r, 0, n)), err |-> "ok"]
             /\ Len(BytesAt(r, 0, n)) = n
             /\ \A j \in 1..n : BytesAt(r, 0, n)[j] = b[p + j]
  <2>1. BytesAt(r, 0, n) = SubSeq(b, p + 1, p + n)
    BY DEF BytesAt
  <2>2. Len(SubSeq(b, p + 1, p + n)) = n /\ \A j \in 1..n : SubSeq(b, p + 1, p + n)[j] = b[p + j]
    BY <1>1
  <2>3. ReadUint(r, n) = Got(r, Uint(BytesAt(r, 0, n)), n)
    BY <1>1 DEF ReadUint, Holds
  <2> QED
    BY <2>1, <2>2, <2>3 DEF Got
<1>2. ASSUME p + 1 <= Len(b)
      PROVE  ReadUint(r, 1) = [buf |-> b, pos |-> p + 1, val |-> b[p + 1], err |-> "ok"]
  <2>1. Uint(BytesAt(r, 0, 1)) = b[p + 1]
    BY <1>1, <1>2 DEF Uint
  <2> QED
    BY <1>1, <1>2, <2>1
<1>3. ASSUME p + 2 <= Len(b)
      PROVE  ReadUint(r, 2) = [buf |-> b, pos |-> p + 2, val |-> 256 * b[p + 1] + b[p + 2], err |-> "ok"]
  <2>1. Uint(BytesAt(r, 0, 2)) = 256 * b[p + 1] + b[p + 2]
    BY <1>1, <1>3 DEF Uint
  <2> QED
    BY <1>1, <1>3, <2>1
<1> QED
  BY <1>2, <1>3

LEMMA ReadU16 ==
    ASSUME NEW b \in Seq(Nat), NEW p \in Nat, NEW v, p + 2 <= Len(b)
    PROVE  ReadUint([buf |-> b, pos |-> p, val |-> v, err |-> "ok"], 2) =
             [buf |-> b, pos |-> p + 2, val |-> 256 * b[p + 1] + b[p + 2], err |-> "ok"]
  BY UintRead

(* A layout of three fields is read one field after the other. *)
NextField(st, field, end) ==
    IF st.r.err # "ok" THEN st ELSE Store(st, field[2], Read(st.r, field[1], end))

LEMMA ThreeFields ==
    ASSUME NEW h, NEW layout, Len(layout) = 3, NEW end
    PROVE  ReadFields(h, layout, end) =
             NextField(NextField(NextField([r |-> h, set |-> << >>], layout[1], end),
                                 layout[2], end), layout[3], end)
<1> DEFINE a0 == [r |-> h, set |-> << >>]
           a1 == NextField(a0, layout[1], end)
           a2 == NextField(a1, layout[2], end)
           a3 == NextField(a2, layout[3], end)
           Step(f, n) == IF n = 0 THEN a0 ELSE NextField(f[n - 1], layout[n], end)
           Fields(f) == f = [n \in 0..Len(layout) |-> Step(f, n)]
           g == [n \in 0..3 |-> IF n = 0 THEN a0 ELSE IF n = 1 THEN a1 ELSE IF n = 2 THEN a2 ELSE a3]
<1>1. ReadFields(h, layout, end) = (CHOOSE f : Fields(f))[Len(layout)]
  BY Zenon DEF ReadFields, NextField
<1> HIDE DEF a0, a1, a2, a3
<1>2. Fields(g)
  <2>1. g[0] = a0 /\ g[1] = a1 /\ g[2] = a2 /\ g[3] = a3
    OBVIOUS
  <2>2. \A n \in 0..3 : n \in {0, 1, 2, 3}
    OBVIOUS
  <2>3. \A n \in 0..3 : g[n] = Step(g, n)
    <3>1. g[1] = NextField(g[1 - 1], layout[1], end) /\ g[2] = NextField(g[2 - 1], layout[2], end)
          /\ g[3] = NextField(g[3 - 1], layout[3], end)
      <4>1. 1 - 1 = 0 /\ 2 - 1 = 1 /\ 3 - 1 = 2
        OBVIOUS
      <4> HIDE DEF g
      <4> QED
        BY <2>1, <4>1 DEF a1, a2, a3
    <3> HIDE DEF g
    <3> QED
      BY <2>1, <2>2, <3>1
  <2>4. g = [n \in 0..3 |-> g[n]]
    OBVIOUS
  <2> HIDE DEF g, Step
  <2>5. g = [n \in 0..3 |-> Step(g, n)]
    BY <2>3, <2>4
  <2> QED
    BY <2>5
<1> DEFINE k == CHOOSE f : Fields(f)
<1>3. Fields(k)
  <2> HIDE DEF Fields, g
  <2> QED
    BY <1>2
<1> HIDE DEF k
<1>4. \A n \in 0..3 : k[n] = IF n = 0 THEN a0 ELSE NextField(k[n - 1], layout[n], end)
  BY <1>3
<1>5. k[0] = a0
  BY <1>4
<1>6. k[1] = a1
  <2>1. 1 - 1 = 0
    OBVIOUS
  <2> QED
    BY <1>4, <1>5, <2>1 DEF a1
<1>7. k[2] = a2
  <2>1. 2 - 1 = 1
    OBVIOUS
  <2> QED
    BY <1>4, <1>6, <2>1 DEF a2
<1>8. k[3] = a3
  <2>1. 3 - 1 = 2
    OBVIOUS
  <2> QED
    BY <1>4, <1>7, <2>1 DEF a3
<1> QED
  BY <1>1, <1>8 DEF k, a0, a1, a2, a3

(* decode of a PUBACK with a reason. *)
LEMMA PubackDecoded ==
    ASSUME NEW b \in Seq(Nat), Len(b) = 6, b[1] = 64, b[2] = 4, Decode("Puback", b).err = "ok"
    PROVE  LET p == Decode("Puback", b)
           IN  /\ p.set["packet_identifier"] = 256 * b[3] + b[4]
               /\ "reason_code" \in DOMAIN p.set /\ p.set["reason_code"] = b[5]
<1> DEFINE At(p, v) == [buf |-> b, pos |-> p, val |-> v, err |-> "ok"]
<1>1. ReadUint(Reader(b), 1) = At(1, 64)
  <2>1. Reader(b) = At(0, 0)
    BY DEF Reader
  <2>2. ReadUint(At(0, 0), 1) = [buf |-> b, pos |-> 0 + 1, val |-> b[0 + 1], err |-> "ok"]
    <3>1. 0 \in Nat /\ 0 + 1 <= Len(b)
      OBVIOUS
    <3> QED
      BY <3>1, UintRead, Zenon
  <2> QED
    BY <2>1, <2>2
<1>2. ReadVarint(At(1, 64)) = At(2, 4)
  <2>1. VarintEnds(At(1, 64)) = {k \in 1..4 : Holds(At(1, 64), k) => b[1 + k] < 128}
    BY DEF VarintEnds
  <2>2. 1 \in VarintEnds(At(1, 64)) /\ \A k \in VarintEnds(At(1, 64)) : k \in 1..4
    BY <2>1
  <2> DEFINE S == VarintEnds(At(1, 64))
  <2> HIDE DEF S
  <2>3. Min(S) = 1
    <3>1. 1 \in S /\ \A k \in S : k \in 1..4
      BY <2>2 DEF S
    <3>2. \A y \in S : 1 <= y
      BY <3>1
    <3>3. Min(S) \in S /\ \A y \in S : Min(S) <= y
      BY <3>1, <3>2, Zenon DEF Min
    <3> QED
      BY <3>1, <3>3
  <2>4. ReadVarint(At(1, 64)) = TakeVarint(At(1, 64), 1)
    BY <2>2, <2>3 DEF ReadVarint, S
  <2>5. Holds(At(1, 64), 1)
    BY DEF Holds
  <2> DEFINE v == BytesAt(At(1, 64), 0, 1) \o << 0, 0, 0 >>
  <2>6. v[1] = 4
    <3>1. BytesAt(At(1, 64), 0, 1) = SubSeq(b, 2, 2)
      BY DEF BytesAt
    <3>2. SubSeq(b, 2, 2) \in Seq(Nat) /\ Len(SubSeq(b, 2, 2)) = 1 /\ SubSeq(b, 2, 2)[1] = 4
      OBVIOUS
    <3>3. << 0, 0, 0 >> \in Seq(Nat)
      OBVIOUS
    <3> QED
      BY <3>1, <3>2, <3>3
  <2> HIDE DEF v
  <2>7. VarintLen(v) = 1
    <3>1. v[1] < 128 /\ ~(v[1] >= 128)
      BY <2>6
    <3> QED
      BY <3>1, Zenon DEF VarintLen
  <2>8. VarintDecode(v) = 4
    BY <2>6, <2>7 DEF VarintDecode
  <2>9. TakeVarint(At(1, 64), 1) = Got(At(1, 64), 4, 1)
    BY <2>5, <2>8 DEF TakeVarint, v
  <2> QED
    BY <2>4, <2>9 DEF Got
<1>3. ReadHeader(b) = At(2, 4)
  <2>1. At(1, 64).err = "ok"
    OBVIOUS
  <2> QED
    BY <1>1, <1>2, <2>1 DEF ReadHeader, Then
<1> DEFINE end == 1 + VarintLen(VarintEncode(4)) + 4
           layout == PubackReads(4)
<1>4. Decode("Puback", b) = Result(ReadFields(At(2, 4), layout, end))
  <2>1. Decode("Puback", b) = DecodeBody("Puback", b, At(2, 4))
    BY <1>3 DEF Decode, NoDecode
  <2>2. Reads("Puback", b[1], 4) = layout
    BY Zenon DEF Reads
  <2>3. CASE TypeOf(b[1]) # "Puback"
    <3>1. Decode("Puback", b).err = "PacketTypeMismatch"
      BY <2>1, <2>3 DEF DecodeBody, Mismatch, Refused
    <3> QED
      BY <3>1
  <2>4. CASE TypeOf(b[1]) = "Puback"
    BY <2>1, <2>2, <2>4 DEF DecodeBody
  <2> QED
    BY <2>3, <2>4
<1> HIDE DEF end
<1>5. Len(layout) = 3 /\ layout[1] = Ident /\ layout[2] = Reason /\ layout[3] = Props
  BY DEF PubackReads
<1> HIDE DEF layout
<1> DEFINE id == 256 * b[3] + b[4]
           a0 == [r |-> At(2, 4), set |-> << >>]
           a1 == [r |-> At(4, id), set |-> With(<< >>, "packet_identifier", id)]
           a2 == [r |-> At(5, b[5]), set |-> With(a1.set, "reason_code", b[5])]
           q == ReadProps(At(5, b[5]))
<1>6. NextField(a0, Ident, end) = a1
  <2>1. NextField(a0, Ident, end) = Store(a0, "packet_identifier", Read(At(2, 4), "u16", end))
    BY DEF NextField, Ident
  <2>2. Read(At(2, 4), "u16", end) = ReadUint(At(2, 4), 2)
    BY Zenon DEF Read
  <2>3. ReadUint(At(2, 4), 2) = At(4, id)
    <3>1. 2 \in Nat /\ 2 + 2 <= Len(b) /\ 2 + 2 = 4 /\ 2 + 1 = 3
      OBVIOUS
    <3>2. ReadUint(At(2, 4), 2) = [buf |-> b, pos |-> 2 + 2, val |-> 256 * b[2 + 1] + b[2 + 2],
                                   err |-> "ok"]
      BY <3>1, ReadU16, Zenon
    <3> QED
      BY <3>1, <3>2
  <2> QED
    BY <2>1, <2>2, <2>3 DEF Store
<1>7. NextField(a1, Reason, end) = a2
  <2>1. NextField(a1, Reason, end) = Store(a1, "reason_code", Read(At(4, id), "u8", end))
    BY DEF NextField, Reason
  <2>2. Read(At(4, id), "u8", end) = ReadUint(At(4, id), 1)
    BY Zenon DEF Read
  <2>3. ReadUint(At(4, id), 1) = At(5, b[5])
    <3>1. 4 \in Nat /\ 4 + 1 <= Len(b) /\ 4 + 1 = 5
      OBVIOUS
    <3>2. ReadUint(At(4, id), 1) = [buf |-> b, pos |-> 4 + 1, val |-> b[4 + 1], err |-> "ok"]
      BY <3>1, UintRead, Zenon
    <3> QED
      BY <3>1, <3>2
  <2> QED
    BY <2>1, <2>2, <2>3 DEF Store
<1>8. NextField(a2, Props, end) = Store(a2, "properties", q)
  <2>1. NextField(a2, Props, end) = Store(a2, "properties", Read(At(5, b[5]), "props", end))
    BY DEF NextField, Props
  <2>2. Read(At(5, b[5]), "props", end) = q
    BY Zenon DEF Read
  <2> QED
    BY <2>1, <2>2
<1>9. Decode("Puback", b) = Result(Store(a2, "properties", q))
  BY <1>4, <1>5, <1>6, <1>7, <1>8, ThreeFields
<1> HIDE DEF q, id
<1>10. Decode("Puback", b).set = With(a2.set, "properties", q.val)
  BY <1>9 DEF Result, Store
<1>11. "packet_identifier" \in DOMAIN a1.set /\ a1.set["packet_identifier"] = id
  BY DEF With
<1>12. /\ {"packet_identifier", "reason_code"} \subseteq DOMAIN a2.set
       /\ a2.set["packet_identifier"] = id /\ a2.set["reason_code"] = b[5]
  <2> HIDE DEF a1
  <2> QED
    BY <1>11 DEF With
<1> HIDE DEF a2
<1> QED
  BY <1>10, <1>12 DEF With, id

(* What a ping, or a message of QoS 1, that succeeds has been answered with. *)
LEMMA SuccessIs ==
    ASSUME NEW type \in Types, NEW p, Outcome(EventOf(type, p)) = "ok"
    PROVE  /\ op.kind = "ping" => type = "Pingresp"
           /\ op.kind = "publish" =>
                /\ type = "Puback" /\ p.err = "ok" /\ p.set["packet_identifier"] = op.id
                /\ "reason_code" \in DOMAIN p.set => p.set["reason_code"] = 0
<1> DEFINE e == EventOf(type, p)
<1>1. /\ e.kind = "Pingresp" => type = "Pingresp"
      /\ e.kind = "Puback" => /\ type = "Puback" /\ p.err = "ok"
                              /\ e.id = p.set["packet_identifier"]
                              /\ "reason_code" \in DOMAIN p.set => p.set["reason_code"] = 0
      /\ e.kind = "Err" => e.id # "ok"
  BY EventKinds
<1>2. Outcome(e) = "ok"
  OBVIOUS
<1> HIDE DEF e
<1>3. e.kind # "Err" /\ e.kind = Expected[op.kind]
      /\ (e.kind \in {"Puback", "Suback", "Unsuback"} => e.id = op.id)
  BY <1>1, <1>2 DEF Outcome
<1> QED
  BY <1>1, <1>3 DEF Expected

-----------------------------------------------------------------------------
(* The bytes of the broker that receive_packet has not handed on: those it *)
(* has taken for the packet it is reading, then those still in the stream. *)
Stream == buffer \o inbound

(* Unless receive_packet has given up, or the connection is reset, the     *)
(* receiver stands at the start of a packet when an operation starts.      *)
Aligned ==
    /\ rpc \in {"off", "header", "body", "done"}
    /\ peer = "rst" => rpc # "off" /\ op.kind # "receive"

(* What receive_packet knows of the packet it reads. *)
Phase ==
    /\ rpc = "header" => Len(buffer) <= 1
    /\ rpc \in {"body", "done"} =>
         /\ header = 2
         /\ i <= target /\ Len(buffer) = 2 + i /\ buffer[2] = target
    /\ rpc = "done" => i = target

(* An operation is polling for its answer. *)
Waits == result = "none" /\ rpc # "off"

(* A sequence, of whatever elements. *)
Queue(q) == \E S : q \in Seq(S)

(* The state of the client, whoever uses it. *)
ClientOK ==
    /\ rpc \in {"off", "header", "body", "done", "err", "spin", "panic"}
    /\ peer \in {"open", "fin", "rst"} /\ connection \in BOOLEAN
    /\ buffer \in Seq(Nat) /\ inbound \in Seq(Nat) /\ position = Len(buffer)
    /\ i \in Nat /\ target \in Nat
    /\ rng \in 0..ID_MAX
    /\ Queue(outbound)
    /\ \A k \in 1..Len(outbound) : outbound[k].type \in
          {"Connect", "Pingreq", "Publish", "Subscribe", "Unsubscribe", "Puback"}
    /\ \A k \in 1..Len(outbound) : outbound[k].type # "Puback" => outbound[k].id \in Nat
    /\ op = NoOp \/ result # "none" => rpc = "off"
    /\ op = NoOp => result = "none"
    /\ rpc = "off" => buffer = << >>
    /\ rpc = "err" => (inbound = << >> /\ peer = "fin") \/ peer = "rst"
    /\ ~connection => outbound = << >> /\ inbound = << >> /\ peer = "open" /\ rpc = "off"

-----------------------------------------------------------------------------
(* mqtt_net_task is not in a ping, or about to drop a client after one. *)
BeforePing == tpc \in {"connect", "publish", "wait", "backoff"} \/ (tpc = "ping" /\ op = NoOp)

(* The task is about to send a packet that is answered, other than a ping. *)
BeforeCall == tpc \in {"connect", "publish"} /\ op = NoOp

(* What the task has sent: one packet, and while it pings at most two, the *)
(* PINGREQ being the last.                                                 *)
TaskOK ==
    /\ \A k \in 1..Len(outbound) : outbound[k].type \in {"Connect", "Pingreq", "Publish"}
    /\ \A k \in 1..Len(outbound) : outbound[k].size \in 0..BUF
    /\ ~subscribed
    /\ tpc \in {"dial", "retry", "connect", "ping", "publish", "wait", "backoff", "disconnect",
                "reconnect"}
    /\ tpc \in {"dial", "retry", "backoff", "wait"} => op = NoOp
    /\ op.kind = "ping" => tpc = "ping"
    /\ tpc = "ping" /\ op # NoOp => op.kind = "ping"
    /\ tpc = "disconnect" /\ op # NoOp => ~connection
    /\ op.kind # "receive"
    /\ tpc \in {"dial", "retry", "reconnect"} => ~connection
    /\ BeforeCall => outbound = << >>
    /\ BeforePing => /\ Len(outbound) <= 1
                     /\ \A k \in 1..Len(outbound) : outbound[k].type # "Pingreq"
    /\ op.kind = "ping" /\ Waits =>
         \A k \in 1..Len(outbound) : outbound[k].type = "Pingreq" => k = Len(outbound)
    /\ op.kind = "ping" /\ result = "ok" => outbound = << >>

OnlyGoodbyes(s, P) == \A p \in P : GoodbyeAt(s, p)

(* What the broker has sent the task: before a ping no PINGRESP, before    *)
(* any other call nothing but a DISCONNECT.                                *)
TaskFlight(s, P) ==
    /\ \A p \in P : ~MessageAt(s, p)
    /\ BeforePing => \A p \in P : ~PongAt(s, p)
    /\ BeforeCall => OnlyGoodbyes(s, P)
    /\ op.kind = "ping" /\ result = "ok" => OnlyGoodbyes(s, P)
    /\ op.kind = "ping" /\ Waits =>
         \A p \in P : PongAt(s, p) =>
             outbound = << >> /\ \A q \in P : q > p => GoodbyeAt(s, q)

-----------------------------------------------------------------------------
(* The k-th identifier from now, and what none of the library client's     *)
(* remaining operations will take.                                         *)
IdAfter(k) == IF rng + k <= ID_MAX THEN rng + k ELSE rng + k - ID_MAX
Unused(id) == \A k \in 1..(MaxOps - ops) : IdAfter(k) # id

(* There are as many identifiers as operations, the CONNECT not counted. *)
IdsSuffice == MaxOps <= ID_MAX + 1

LibraryOK ==
    /\ tpc \in {"dial", "connect", "free"}
    /\ ops \in Nat
    /\ tpc = "dial" => ~connection
    /\ tpc # "free" => op = NoOp /\ outbound = << >> /\ ~subscribed
    /\ tpc = "free" => ops >= 1
    /\ tpc = "free" /\ IdsSuffice =>
         \A k \in 1..Len(outbound) : outbound[k].type = "Publish" => Unused(outbound[k].id)

LibraryFlight(s, P) ==
    /\ tpc # "free" => OnlyGoodbyes(s, P)
    /\ tpc = "free" /\ IdsSuffice =>
         \A p \in P, id \in Nat : AckAt(s, p, id) => Unused(id)

-----------------------------------------------------------------------------
(* The task, or a library client whose identifiers do not come round. *)
Accountable == app = "task" \/ IdsSuffice

Publishing == op.kind = "publish" /\ op.qos = "QoS1"

(* The message under way is the last packet sent, if it is not read yet. *)
AckOK ==
    /\ Publishing => op.id \in Nat
    /\ Publishing /\ Waits =>
         \A k \in 1..Len(outbound) :
             outbound[k].type = "Publish" /\ outbound[k].id = op.id => k = Len(outbound)
    /\ Publishing /\ result = "ok" => delivered = op.id /\ outbound = << >>

(* An acknowledgement of it in flight means that the broker has it. *)
AckFlight(s, P) ==
    Publishing /\ Waits =>
        \A p \in P : GoodAckAt(s, p, op.id) => delivered = op.id /\ outbound = << >>

-----------------------------------------------------------------------------
Flight(s, P) ==
    /\ Framing(s, P)
    /\ peer = "open" => Whole(s, P) /\ \A p \in P : ~GoodbyeAt(s, p)
    /\ app = "task" => TaskFlight(s, P)
    /\ app = "library" => LibraryFlight(s, P)
    /\ Accountable => AckFlight(s, P)

AppOK ==
    /\ app \in {"task", "library"}
    /\ app = "task" => TaskOK
    /\ app = "library" => LibraryOK
    /\ Accountable => AckOK

(* The inductive invariant. *)
MqttInv ==
    /\ ClientOK
    /\ AppOK
    /\ Aligned => Phase /\ \E P : Flight(Stream, P)
-----------------------------------------------------------------------------
LEMMA QueueEmpty == Queue(<< >>) /\ Len(<< >>) = 0
<1>1. << >> \in Seq({})
  OBVIOUS
<1> QED
  BY <1>1 DEF Queue

(* A packet sent is the last one. *)
LEMMA QueueAppend ==
    ASSUME NEW q, Queue(q), NEW x
    PROVE  /\ Queue(Append(q, x)) /\ Len(q) \in Nat /\ Len(Append(q, x)) = Len(q) + 1
           /\ \A k \in 1..Len(q) : Append(q, x)[k] = q[k]
           /\ Append(q, x)[Len(q) + 1] = x
           /\ \A k \in 1..Len(Append(q, x)) : k \in 1..Len(q) \/ k = Len(q) + 1
<1>1. PICK S : q \in Seq(S)
  BY DEF Queue
<1> DEFINE T == S \union {x}
<1>2. q \in Seq(T) /\ x \in T
  BY <1>1
<1> HIDE DEF T
<1>3. Append(q, x) \in Seq(T)
  BY <1>2
<1>4. /\ Len(q) \in Nat /\ Len(Append(q, x)) = Len(q) + 1
      /\ \A k \in 1..Len(q) : Append(q, x)[k] = q[k]
      /\ Append(q, x)[Len(q) + 1] = x
  BY <1>2
<1>5. Queue(Append(q, x))
  BY <1>3 DEF Queue
<1> QED
  BY <1>4, <1>5

(* A packet read is the first one. *)
LEMMA QueueTail ==
    ASSUME NEW q, Queue(q), q # << >>
    PROVE  /\ Queue(Tail(q)) /\ Len(q) \in Nat /\ Len(q) >= 1 /\ Len(Tail(q)) = Len(q) - 1
           /\ \A k \in 1..Len(Tail(q)) : k + 1 \in 1..Len(q) /\ Tail(q)[k] = q[k + 1]
           /\ Head(q) = q[1] /\ 1 \in 1..Len(q)
           /\ Len(q) = 1 => Tail(q) = << >>
<1>1. PICK S : q \in Seq(S)
  BY DEF Queue
<1>2. Tail(q) \in Seq(S)
  BY <1>1
<1>3. /\ Len(q) \in Nat /\ Len(q) >= 1 /\ Len(Tail(q)) = Len(q) - 1
      /\ \A k \in 1..Len(Tail(q)) : k + 1 \in 1..Len(q) /\ Tail(q)[k] = q[k + 1]
      /\ Head(q) = q[1]
  BY <1>1
<1>4. Queue(Tail(q))
  BY <1>2 DEF Queue
<1> QED
  BY <1>2, <1>3, <1>4

-----------------------------------------------------------------------------
(* Nothing in flight. *)
LEMMA NothingInFlight ==
    ASSUME rpc = "off", buffer = << >>, inbound = << >>
    PROVE  Phase /\ Flight(Stream, {})
<1>1. Stream = << >>
  BY DEF Stream
<1>2. Framing(Stream, {}) /\ Whole(Stream, {})
  BY <1>1 DEF Framing, Whole
<1>3. Phase
  BY DEF Phase
<1> QED
  BY <1>2, <1>3
  DEF Flight, TaskFlight, LibraryFlight, AckFlight, OnlyGoodbyes

LEMMA Initially ==
    ASSUME TaskInit
    PROVE  MqttInv
<1>1. ClientOK
  <2>1. /\ outbound = << >> /\ Queue(outbound) /\ Len(outbound) = 0
        /\ buffer = << >> /\ buffer \in Seq(Nat) /\ Len(buffer) = 0
        /\ inbound = << >> /\ inbound \in Seq(Nat)
    BY QueueEmpty DEF TaskInit, ClientInit, ReceiveInit
  <2>2. rng \in 0..ID_MAX
    BY ClientAssumption DEF TaskInit, ClientInit
  <2>3. rpc = "off" /\ peer = "open" /\ position = 0 /\ result = "none" /\ i = 0 /\ target = 0
    BY DEF TaskInit, ClientInit, ReceiveInit
  <2>4. connection \in BOOLEAN /\ ~connection
    BY DEF TaskInit, ClientInit
  <2>5. \A k \in 1..Len(outbound) : FALSE
    BY <2>1
  <2> QED
    BY <2>1, <2>2, <2>3, <2>4, <2>5 DEF ClientOK
<1>2. AppOK
  BY DEF TaskInit, ClientInit, ReceiveInit, AppOK, TaskOK, LibraryOK, AckOK, BeforeCall, BeforePing,
         Publishing, NoOp, Waits
<1>3. Phase /\ Flight(Stream, {})
  BY NothingInFlight DEF TaskInit, ClientInit, ReceiveInit
<1> QED
  BY <1>1, <1>2, <1>3 DEF MqttInv

(* The same after a step. *)
LEMMA NothingInFlightThen ==
    ASSUME rpc' = "off", buffer' = << >>, inbound' = << >>
    PROVE  (Phase /\ \E P : Flight(Stream, P))'
<1>1. Stream' = << >>
  BY DEF Stream
<1>2. Framing(Stream', {}) /\ Whole(Stream', {})
  BY <1>1 DEF Framing, Whole
<1>3. Phase'
  BY DEF Phase
<1>4. Flight(Stream, {})'
  BY <1>2 DEF Flight, TaskFlight, LibraryFlight, AckFlight, OnlyGoodbyes
<1> QED
  BY <1>3, <1>4
-----------------------------------------------------------------------------
(* A step of receive_packet leaves the rest of the client as it is. *)
LEMMA AppOKSame ==
    ASSUME AppOK, (rpc' # "off") <=> (rpc # "off"),
           UNCHANGED << outbound, op, result, subscribed, delivered, connection, rng, appVars >>
    PROVE  AppOK'
<1> USE DEF appVars
<1>1. Waits' <=> Waits
  BY DEF Waits
<1>2. app = "task" => TaskOK'
  BY <1>1 DEF AppOK, TaskOK, BeforePing, BeforeCall, NoOp
<1>3. app = "library" => LibraryOK'
  BY DEF AppOK, LibraryOK, IdsSuffice, Unused, IdAfter, NoOp
<1>4. Accountable' => AckOK'
  BY <1>1 DEF AppOK, AckOK, Publishing, Accountable, IdsSuffice
<1> QED
  BY <1>2, <1>3, <1>4 DEF AppOK

LEMMA FlightSame ==
    ASSUME NEW P, Flight(Stream, P), Stream' = Stream, (rpc' # "off") <=> (rpc # "off"),
           UNCHANGED << peer, outbound, op, result, delivered, rng, appVars >>
    PROVE  Flight(Stream, P)'
<1> USE DEF appVars
<1>1. Waits' <=> Waits
  BY DEF Waits
<1>2. app = "task" => TaskFlight(Stream, P)'
  BY <1>1 DEF Flight, TaskFlight, BeforePing, BeforeCall, NoOp, OnlyGoodbyes, GoodbyeAt, PongAt, MessageAt
<1>3. app = "library" => LibraryFlight(Stream, P)'
  BY DEF Flight, LibraryFlight, IdsSuffice, Unused, IdAfter, OnlyGoodbyes, GoodbyeAt
<1>4. Accountable' => AckFlight(Stream, P)'
  BY <1>1 DEF Flight, AckFlight, Publishing, Accountable, IdsSuffice
<1>5. Framing(Stream', P) /\ (peer' = "open" => Whole(Stream', P) /\ \A p \in P : ~GoodbyeAt(Stream', p))
  BY DEF Flight
<1> QED
  BY <1>2, <1>3, <1>4, <1>5 DEF Flight

(* A remaining length of one byte. *)
LEMMA ShortLength ==
    ASSUME NEW b \in Seq(Nat), Len(b) = 2, b[2] \in 0..127
    PROVE  RemLenKnown(b) /\ ~MalformedLength(b) /\ VarintDecode(RemLenOf(b)) = b[2]
<1> DEFINE v == RemLenOf(b)
<1>1. v[1] = b[2]
  BY DEF RemLenOf
<1> HIDE DEF v
<1>2. PICK m \in 0..127 : b[2] = m
  OBVIOUS
<1>3. v[1] = m /\ v[1] < 128 /\ ~(v[1] >= 128) /\ m % 128 = m
  BY <1>1, <1>2
<1>4. VarintLen(v) = 1
  BY <1>3, Zenon DEF VarintLen
<1>5. VarintDecode(v) = m
  BY <1>3, <1>4, SMT DEF VarintDecode
<1> QED
  BY <1>2, <1>5 DEF v, RemLenKnown, MalformedLength

(* The bytes move from the stream to the buffer, in order. *)
LEMMA BytesMoved ==
    ASSUME NEW b \in Seq(Nat), NEW s \in Seq(Nat), NEW n \in 1..Len(s)
    PROVE  LET c == b \o SubSeq(s, 1, n)
               t == SubSeq(s, n + 1, Len(s))
           IN  /\ c \in Seq(Nat) /\ t \in Seq(Nat) /\ Len(c) = Len(b) + n
               /\ \A j \in 1..Len(b) : c[j] = b[j]
               /\ c \o t = b \o s
<1> DEFINE a == SubSeq(s, 1, n)
           c == b \o a
           t == SubSeq(s, n + 1, Len(s))
<1>1. a \in Seq(Nat) /\ Len(a) = n /\ \A j \in 1..n : a[j] = s[j]
  OBVIOUS
<1>2. t \in Seq(Nat) /\ Len(t) = Len(s) - n /\ \A j \in 1..Len(t) : t[j] = s[n + j]
  OBVIOUS
<1> HIDE DEF a, t
<1>3. c \in Seq(Nat) /\ Len(c) = Len(b) + n /\ (\A j \in 1..Len(b) : c[j] = b[j])
      /\ \A j \in 1..n : c[Len(b) + j] = a[j]
  BY <1>1, JoinedBytes
<1> HIDE DEF c
<1>4. c \o t \in Seq(Nat) /\ Len(c \o t) = Len(c) + Len(t)
      /\ (\A j \in 1..Len(c) : (c \o t)[j] = c[j])
      /\ \A j \in 1..Len(t) : (c \o t)[Len(c) + j] = t[j]
  BY <1>2, <1>3, JoinedBytes
<1>5. b \o s \in Seq(Nat) /\ Len(b \o s) = Len(b) + Len(s)
      /\ (\A j \in 1..Len(b) : (b \o s)[j] = b[j])
      /\ \A j \in 1..Len(s) : (b \o s)[Len(b) + j] = s[j]
  BY JoinedBytes
<1>6. ASSUME NEW j \in 1..(Len(b) + Len(s)) PROVE (c \o t)[j] = (b \o s)[j]
  <2>0. Len(b) \in Nat /\ Len(s) \in Nat /\ n \in Nat /\ j \in Nat /\ j >= 1 /\ j <= Len(b) + Len(s)
    OBVIOUS
  <2>1. CASE j <= Len(b)
    <3>1. j \in 1..Len(b) /\ j \in 1..Len(c)
      BY <1>3, <2>1
    <3> QED
      BY <1>3, <1>4, <1>5, <3>1
  <2>2. CASE j > Len(b) /\ j <= Len(b) + n
    <3>1. j - Len(b) \in 1..n /\ j - Len(b) \in 1..Len(s) /\ j \in 1..Len(c)
          /\ Len(b) + (j - Len(b)) = j
      BY <1>3, <2>2
    <3>2. c[j] = a[j - Len(b)] /\ a[j - Len(b)] = s[j - Len(b)] /\ (b \o s)[j] = s[j - Len(b)]
      BY <1>1, <1>3, <1>5, <3>1
    <3> QED
      BY <1>4, <3>1, <3>2
  <2>3. CASE j > Len(b) + n
    <3> DEFINE m == j - Len(b) - n
    <3>1. m \in 1..Len(t) /\ n + m \in 1..Len(s) /\ Len(c) + m = j /\ Len(b) + (n + m) = j
      <4>1. Len(t) = Len(s) - n /\ Len(c) = Len(b) + n
        BY <1>2, <1>3
      <4>2. m \in Int /\ m >= 1 /\ m <= Len(s) - n /\ Len(b) + n + m = j
        BY <2>0, <2>3
      <4> HIDE DEF m
      <4> QED
        BY <2>0, <4>1, <4>2
    <3> HIDE DEF m
    <3>2. (c \o t)[j] = t[m] /\ t[m] = s[n + m] /\ (b \o s)[j] = s[n + m]
      BY <1>2, <1>4, <1>5, <3>1
    <3> QED
      BY <3>2
  <2> QED
    <3>1. j <= Len(b) \/ (j > Len(b) /\ j <= Len(b) + n) \/ j > Len(b) + n
      BY <2>0
    <3> QED
      BY <2>1, <2>2, <2>3, <3>1
<1>7. Len(c \o t) = Len(b) + Len(s)
  BY <1>2, <1>3, <1>4
<1>8. c \o t = b \o s
  BY <1>4, <1>5, <1>6, <1>7, SeqEqual
<1> QED
  BY <1>2, <1>3, <1>8 DEF c, t, a

(* What a step of receive_packet has to respect. *)
LEMMA ReceivingStep ==
    ASSUME MqttInv, rpc # "off", rpc' \in {"header", "body", "done", "err", "spin", "panic"},
           buffer' \in Seq(Nat), inbound' \in Seq(Nat), position' = Len(buffer'),
           i' \in Nat, target' \in Nat,
           rpc' = "err" => (inbound' = << >> /\ peer' = "fin") \/ peer' = "rst",
           Aligned' => Aligned, Aligned' => Phase' /\ Stream' = Stream,
           UNCHANGED << peer, connection, rng, op, result, wireVars, appVars >>
    PROVE  MqttInv'
<1> USE DEF wireVars
<1>1. ClientOK'
  BY DEF MqttInv, ClientOK, NoOp
<1>2. AppOK'
  BY AppOKSame DEF MqttInv, appVars
<1>3. ASSUME Aligned' PROVE (Phase /\ \E P : Flight(Stream, P))'
  <2>1. PICK P : Flight(Stream, P)
    BY <1>3 DEF MqttInv
  <2>2. Flight(Stream, P)'
    BY <1>3, <2>1, FlightSame DEF appVars
  <2> QED
    BY <1>3, <2>2
<1> QED
  BY <1>1, <1>2, <1>3 DEF MqttInv

LEMMA HeaderReadStep ==
    ASSUME MqttInv, HeaderRead, UNCHANGED << connection, rng, op, result, wireVars, appVars >>
    PROVE  MqttInv'
<1>1. /\ rpc = "header" /\ inbound # << >> /\ peer' = peer
      /\ buffer \in Seq(Nat) /\ inbound \in Seq(Nat) /\ position = Len(buffer)
  BY DEF MqttInv, ClientOK, HeaderRead
<1>2. buffer' = buffer \o SubSeq(inbound, 1, 1) /\ inbound' = SubSeq(inbound, 2, Len(inbound))
      /\ 1 \in 1..Len(inbound)
  <2>1. Len(inbound) \in Nat /\ Len(inbound) >= 1
    BY <1>1
  <2>2. Append(buffer, Head(inbound)) = buffer \o SubSeq(inbound, 1, 1)
    BY <1>1, <2>1
  <2>3. Tail(inbound) = SubSeq(inbound, 2, Len(inbound))
    BY <1>1, <2>1
  <2> QED
    BY <2>1, <2>2, <2>3 DEF HeaderRead
<1>3. /\ buffer' \in Seq(Nat) /\ inbound' \in Seq(Nat) /\ Len(buffer') = Len(buffer) + 1
      /\ Stream' = Stream
  <2> DEFINE c == buffer \o SubSeq(inbound, 1, 1)
             t == SubSeq(inbound, 1 + 1, Len(inbound))
  <2>1. c \in Seq(Nat) /\ t \in Seq(Nat) /\ Len(c) = Len(buffer) + 1 /\ c \o t = buffer \o inbound
    BY <1>1, <1>2, BytesMoved, Zenon
  <2>2. buffer' = c /\ inbound' = t
    BY <1>2
  <2> HIDE DEF c, t
  <2> QED
    BY <2>1, <2>2 DEF Stream
<1>4. /\ position' = Len(buffer') /\ rpc' \in {"header", "body", "panic"}
      /\ i' \in Nat /\ target' \in Nat
  <2>1. VarintDecode(RemLenOf(buffer')) \in Nat
    BY <1>3, RemLenIsNat
  <2> QED
    BY <1>1, <1>3, <2>1 DEF HeaderRead, MqttInv, ClientOK
<1>5. Aligned' => Aligned
  BY <1>1, <1>4 DEF Aligned
<1>6. ASSUME Aligned' PROVE Phase'
  <2>1. Len(buffer) <= 1 /\ \E P : Flight(Stream, P)
    BY <1>1, <1>5, <1>6 DEF MqttInv, Phase
  <2>2. CASE Len(buffer) = 0
    <3>1. Len(buffer') = 1
      BY <1>3, <2>2
    <3>2. ~RemLenKnown(buffer')
      BY <3>1 DEF RemLenKnown
    <3>3. rpc' = "header"
      BY <1>1, <3>2 DEF HeaderRead
    <3> QED
      BY <3>1, <3>3 DEF Phase
  <2>3. CASE Len(buffer) = 1
    <3>1. Len(buffer') = 2
      BY <1>3, <2>3
    <3>2. PICK P : Framing(Stream, P)
      BY <2>1 DEF Flight
    <3>3. Len(Stream') >= 2 /\ Stream'[2] = buffer'[2]
      <4>1. Len(Stream') = 2 + Len(inbound') /\ 2 \in 1..2
            /\ \A j \in 1..2 : Stream'[j] = buffer'[j]
        <5>1. Stream' = buffer' \o inbound'
          BY DEF Stream
        <5>2. /\ Len(buffer' \o inbound') = Len(buffer') + Len(inbound')
              /\ \A j \in 1..Len(buffer') : (buffer' \o inbound')[j] = buffer'[j]
          BY <1>3, JoinedBytes, Zenon
        <5> QED
          BY <3>1, <5>1, <5>2
      <4> QED
        BY <1>3, <4>1
    <3>4. Len(Stream) > 0 /\ 0 + 2 <= Len(Stream) /\ Len(Stream) \in Nat
      BY <1>1, <1>3, <3>3 DEF Stream
    <3>5. Stream[0 + 2] \in 0..127
      BY <3>2, <3>4 DEF Framing
    <3>6. buffer'[2] \in 0..127
      BY <1>3, <3>3, <3>5
    <3>7. RemLenKnown(buffer') /\ ~MalformedLength(buffer') /\ VarintDecode(RemLenOf(buffer')) = buffer'[2]
      BY <1>3, <3>1, <3>6, ShortLength
    <3>8. rpc' = "body" /\ i' = 0 /\ header' = position' /\ target' = buffer'[2]
      BY <3>7 DEF HeaderRead
    <3> QED
      BY <1>4, <3>1, <3>6, <3>8 DEF Phase
  <2> QED
    BY <1>1, <2>1, <2>2, <2>3
<1> QED
  BY <1>1, <1>3, <1>4, <1>5, <1>6, ReceivingStep

LEMMA BodyReadStep ==
    ASSUME MqttInv, BodyRead, UNCHANGED << connection, rng, op, result, wireVars, appVars >>
    PROVE  MqttInv'
<1>1. /\ rpc = "body" /\ peer' = peer /\ header' = header /\ target' = target
      /\ buffer \in Seq(Nat) /\ inbound \in Seq(Nat) /\ position = Len(buffer)
  BY DEF MqttInv, ClientOK, BodyRead
<1>2. PICK n \in 1..Smaller(Wanted, Len(inbound)) :
        /\ i' = i + n
        /\ inbound' = SubSeq(inbound, n + 1, Len(inbound))
        /\ IF SliceEnd(i') <= BUF
           THEN position' = position + n /\ buffer' = buffer \o SubSeq(inbound, 1, n) /\ rpc' = rpc
           ELSE rpc' = "panic" /\ position' = position /\ buffer' = buffer
  BY DEF BodyRead
<1>3. i \in Nat /\ target \in Nat /\ n \in Nat /\ n >= 1 /\ n <= target - i /\ n <= Len(inbound)
  BY <1>1 DEF MqttInv, ClientOK, Smaller, Wanted
<1>4. n \in 1..Len(inbound) /\ i' \in Nat /\ target' \in Nat
  BY <1>1, <1>2, <1>3
<1>5. CASE SliceEnd(i') <= BUF
  <2>1. /\ buffer' \in Seq(Nat) /\ inbound' \in Seq(Nat) /\ Len(buffer') = Len(buffer) + n
        /\ (\A j \in 1..Len(buffer) : buffer'[j] = buffer[j])
        /\ Stream' = Stream
    <3> DEFINE c == buffer \o SubSeq(inbound, 1, n)
               t == SubSeq(inbound, n + 1, Len(inbound))
    <3>1. /\ c \in Seq(Nat) /\ t \in Seq(Nat) /\ Len(c) = Len(buffer) + n
          /\ \A j \in 1..Len(buffer) : c[j] = buffer[j]
          /\ c \o t = buffer \o inbound
      BY <1>1, <1>4, BytesMoved, Zenon
    <3>2. buffer' = c /\ inbound' = t
      BY <1>2, <1>5
    <3> HIDE DEF c, t
    <3> QED
      BY <3>1, <3>2 DEF Stream
  <2>2. position' = Len(buffer') /\ rpc' = rpc
    BY <1>1, <1>2, <1>5, <2>1
  <2>3. Aligned' => Aligned
    BY <1>1, <2>2 DEF Aligned
  <2>4. ASSUME Aligned' PROVE Phase'
    <3>1. header = 2 /\ Len(buffer) = 2 + i /\ buffer[2] = target
      BY <1>1, <2>3, <2>4 DEF MqttInv, Phase
    <3>2. 2 \in 1..Len(buffer)
      BY <1>3, <3>1
    <3>3. buffer'[2] = target
      BY <2>1, <3>1, <3>2
    <3> QED
      BY <1>1, <1>2, <1>3, <2>1, <2>2, <3>1, <3>3 DEF Phase
  <2> QED
    BY <1>1, <1>4, <2>1, <2>2, <2>3, <2>4, ReceivingStep
<1>6. CASE ~(SliceEnd(i') <= BUF)
  <2>1. rpc' = "panic" /\ position' = position /\ buffer' = buffer /\ ~Aligned'
    BY <1>2, <1>6 DEF Aligned
  <2>2. inbound' \in Seq(Nat)
    <3>1. SubSeq(inbound, n + 1, Len(inbound)) \in Seq(Nat)
      BY <1>1, <1>4, BytesMoved, Zenon
    <3>2. inbound' = SubSeq(inbound, n + 1, Len(inbound))
      BY <1>2, Zenon
    <3> QED
      BY <3>1, <3>2, Zenon
  <2> QED
    BY <1>1, <1>4, <2>1, <2>2, ReceivingStep
<1> QED
  BY <1>5, <1>6

LEMMA ReceivesStep ==
    ASSUME MqttInv, Receives, UNCHANGED appVars
    PROVE  MqttInv'
<1>1. UNCHANGED << connection, rng, op, result, wireVars >>
  BY DEF Receives
<1>2. /\ buffer \in Seq(Nat) /\ inbound \in Seq(Nat) /\ position = Len(buffer)
      /\ i \in Nat /\ target \in Nat
  BY DEF MqttInv, ClientOK
<1>3. CASE HeaderRead
  BY <1>1, <1>3, HeaderReadStep
<1>4. CASE BodyRead
  BY <1>1, <1>4, BodyReadStep
<1>5. CASE BodyTooLong \/ ReadZero \/ ReadError
  <2>1. /\ rpc # "off" /\ rpc' \in {"panic", "err", "spin"}
        /\ UNCHANGED << position, i, header, target, buffer, inbound, peer >>
        /\ rpc' = "err" => (inbound' = << >> /\ peer' = "fin") \/ peer' = "rst"
    BY <1>5 DEF BodyTooLong, ReadZero, ReadError, Reading
  <2>2. ~Aligned'
    BY <2>1 DEF Aligned
  <2> QED
    BY <1>1, <1>2, <2>1, <2>2, ReceivingStep
<1>6. CASE BodyDone
  <2>1. /\ rpc = "body" /\ position = target + header /\ rpc' = "done"
        /\ UNCHANGED << position, i, header, target, buffer, inbound, peer >>
    BY <1>6 DEF BodyDone
  <2>2. Stream' = Stream
    BY <2>1 DEF Stream
  <2>3. Aligned' => Aligned
    BY <1>1, <2>1 DEF Aligned
  <2>4. ASSUME Aligned' PROVE Phase'
    <3>1. header = 2 /\ i <= target /\ Len(buffer) = 2 + i /\ buffer[2] = target
      BY <2>1, <2>3, <2>4 DEF MqttInv, Phase
    <3>2. i = target
      <4>1. Len(buffer) = target + 2 /\ Len(buffer) = 2 + i
        BY <1>2, <2>1, <3>1
      <4> QED
        BY <1>2, <4>1
    <3> QED
      BY <2>1, <3>1, <3>2 DEF Phase
  <2> QED
    BY <1>1, <1>2, <2>1, <2>2, <2>3, <2>4, ReceivingStep
<1> QED
  BY <1>3, <1>4, <1>5, <1>6 DEF Receives, ReceiveStep
-----------------------------------------------------------------------------
(* A connection that is opened or dropped has nothing in flight. *)
LEMMA StreamCleared ==
    ASSUME ClosedStream, rng' \in 0..ID_MAX, connection' \in BOOLEAN, op' = NoOp => result' = "none"
    PROVE  ClientOK' /\ (Phase /\ \E P : Flight(Stream, P))'
<1>1. /\ rpc' = "off" /\ position' = 0 /\ i' = 0 /\ target' = 0 /\ buffer' = << >>
      /\ inbound' = << >> /\ peer' = "open" /\ outbound' = << >>
  BY DEF ClosedStream, EndReceive
<1>2. buffer' \in Seq(Nat) /\ Len(buffer') = 0 /\ inbound' \in Seq(Nat)
      /\ Queue(outbound') /\ \A k \in 1..Len(outbound') : FALSE
  BY <1>1, QueueEmpty
<1>3. ClientOK'
  BY <1>1, <1>2 DEF ClientOK
<1> QED
  BY <1>1, <1>3, NothingInFlightThen

(* What is left of a client without a connection. *)
LEMMA Unconnected ==
    ASSUME ClientOK, ~connection
    PROVE  outbound = << >> /\ inbound = << >> /\ peer = "open" /\ rpc = "off" /\ buffer = << >>
  BY DEF ClientOK

LEMMA TaskDialStep ==
    ASSUME MqttInv, TaskDial
    PROVE  MqttInv'
<1>1. /\ app = "task" /\ tpc = "dial" /\ op = NoOp /\ ~connection /\ result = "none"
      /\ op' = op /\ result' = result /\ app' = app
  BY DEF MqttInv, ClientOK, AppOK, TaskOK, TaskDial
<1>2. op'.kind = "none"
  BY <1>1 DEF NoOp
<1>3. PICK failed \in BOOLEAN : Dial(failed) /\ tpc' = IF connection \/ failed THEN "retry" ELSE "connect"
  BY DEF TaskDial
<1>4. CASE failed
  <2>1. /\ UNCHANGED << receiveVars, connection, rng, outbound, broker, subscribed, delivered >>
        /\ tpc' = "retry"
    BY <1>3, <1>4 DEF Dial
  <2>2. outbound = << >> /\ inbound = << >> /\ peer = "open" /\ rpc = "off" /\ buffer = << >>
    BY <1>1, Unconnected DEF MqttInv
  <2>3. ClientOK'
    BY <1>1, <2>1 DEF MqttInv, ClientOK, receiveVars, NoOp
  <2>4. AppOK'
    BY <1>1, <1>2, <2>1, <2>2, QueueEmpty
    DEF MqttInv, AppOK, TaskOK, BeforePing, BeforeCall, AckOK, Publishing, Accountable, receiveVars
  <2>5. (Phase /\ \E P : Flight(Stream, P))'
    BY <2>1, <2>2, NothingInFlightThen DEF receiveVars
  <2> QED
    BY <2>3, <2>4, <2>5 DEF MqttInv
<1>5. CASE ~failed
  <2>1. connection' = TRUE /\ rng' = SEED /\ ClosedStream /\ tpc' = "connect"
    BY <1>1, <1>3, <1>5 DEF Dial
  <2>2. ClientOK' /\ (Phase /\ \E P : Flight(Stream, P))'
    BY <1>1, <2>1, StreamCleared, ClientAssumption
  <2>3. AppOK'
    BY <1>1, <1>2, <2>1, QueueEmpty
    DEF AppOK, TaskOK, BeforePing, BeforeCall, AckOK, Publishing, Accountable, ClosedStream
  <2> QED
    BY <2>2, <2>3 DEF MqttInv
<1> QED
  BY <1>4, <1>5

(* mqtt_net_task lets go of its client. *)
LEMMA TaskDrops ==
    ASSUME MqttInv, app = "task", DropClient, tpc' = "dial", op' = NoOp, result' = "none",
           rng' = rng, app' = app
    PROVE  MqttInv'
<1>1. op'.kind = "none"
  BY DEF NoOp
<1>2. ClosedStream /\ connection' = FALSE
  BY DEF DropClient
<1>3. ClientOK' /\ (Phase /\ \E P : Flight(Stream, P))'
  BY <1>2, StreamCleared DEF MqttInv, ClientOK
<1>4. AppOK'
  BY <1>1, <1>2, QueueEmpty
  DEF AppOK, TaskOK, BeforePing, BeforeCall, AckOK, Publishing, Accountable, ClosedStream
<1> QED
  BY <1>3, <1>4 DEF MqttInv

(* mqtt_net_task goes on, between two calls, with the same client. *)
LEMMA TaskGoesOn ==
    ASSUME MqttInv, app = "task", rpc = "off", op' = NoOp, result' = "none",
           UNCHANGED << receiveVars, connection, rng, outbound, subscribed, delivered, app >>,
           \/ tpc \in {"connect", "wait", "publish"} /\ tpc' \in {"ping", "backoff", "wait"}
           \/ tpc = "ping" /\ op.kind = "ping" /\ result = "ok" /\ tpc' = "publish"
           \/ tpc = "ping" /\ op # NoOp /\ tpc' = "disconnect"
           \/ ~connection /\ tpc' \in {"reconnect", "dial"}
    PROVE  MqttInv'
<1> USE DEF receiveVars
<1>1. op'.kind = "none"
  BY DEF NoOp
<1>2. ClientOK'
  BY DEF MqttInv, ClientOK, NoOp
<1>3. ~Waits' /\ ~Publishing'
  BY <1>1 DEF Waits, Publishing
<1>4. AppOK'
  BY <1>1, <1>3, QueueEmpty
  DEF MqttInv, ClientOK, AppOK, TaskOK, BeforePing, BeforeCall, AckOK, Accountable, NoOp
<1>5. ASSUME Aligned' PROVE (Phase /\ \E P : Flight(Stream, P))'
  <2>1. Aligned
    BY <1>5 DEF Aligned
  <2>2. PICK P : Flight(Stream, P)
    BY <2>1 DEF MqttInv
  <2>3. Stream' = Stream /\ peer' = peer
    BY DEF Stream
  <2>4. TaskFlight(Stream, P)
    BY <2>2 DEF Flight
  <2>5. CASE ~connection
    BY <2>5, Unconnected, NothingInFlightThen DEF MqttInv
  <2>6. CASE connection
    <3>1. TaskFlight(Stream, P)'
      <4>1. BeforePing' => \A p \in P : ~PongAt(Stream, p)
        BY <2>4, <2>6 DEF TaskFlight, BeforePing, OnlyGoodbyes, GoodbyeAt, PongAt
      <4>2. BeforeCall' => OnlyGoodbyes(Stream, P)
        BY <2>4, <2>6 DEF TaskFlight, BeforeCall
      <4> QED
        BY <1>1, <2>3, <2>4, <4>1, <4>2
        DEF TaskFlight, OnlyGoodbyes, GoodbyeAt, PongAt, MessageAt
    <3>2. Framing(Stream', P) /\ (peer' = "open" => Whole(Stream', P) /\ \A p \in P : ~GoodbyeAt(Stream', p))
      BY <2>2, <2>3 DEF Flight
    <3>3. Flight(Stream, P)'
      BY <1>3, <3>1, <3>2 DEF Flight, AckFlight
    <3>4. Phase'
      BY DEF Phase
    <3> QED
      BY <3>3, <3>4
  <2> QED
    BY <2>5, <2>6
<1> QED
  BY <1>2, <1>4, <1>5 DEF MqttInv

LEMMA TaskReturnStep ==
    ASSUME MqttInv, TaskReturn
    PROVE  MqttInv'
<1>1. /\ app = "task" /\ result # "none" /\ op # NoOp /\ rpc = "off"
      /\ op' = NoOp /\ result' = "none" /\ tpc' = After(result)
      /\ rng' = rng /\ app' = app
  BY DEF MqttInv, ClientOK, TaskReturn
<1>2. tpc \in {"connect", "ping", "publish", "disconnect", "reconnect"}
  BY <1>1 DEF MqttInv, AppOK, TaskOK
<1>3. \/ tpc = "connect" /\ tpc' \in {"ping", "backoff"}
      \/ tpc = "ping" /\ tpc' = IF result = "ok" THEN "publish" ELSE "disconnect"
      \/ tpc = "disconnect" /\ tpc' = "reconnect"
      \/ tpc = "reconnect" /\ tpc' = "dial"
      \/ tpc = "publish" /\ tpc' \in {"wait", "dial"}
  BY <1>1, <1>2, Zenon DEF After
<1>4. CASE tpc' = "dial"
  <2>1. DropClient
    BY <1>4 DEF TaskReturn
  <2> QED
    BY <1>1, <1>4, <2>1, TaskDrops
<1>5. CASE tpc' # "dial"
  <2>1. UNCHANGED << receiveVars, connection, outbound, broker, subscribed, delivered >>
    BY <1>5 DEF TaskReturn
  <2>2. /\ tpc = "ping" => op.kind = "ping"
        /\ tpc = "disconnect" => ~connection
    BY <1>1 DEF MqttInv, AppOK, TaskOK
  <2> QED
    BY <1>1, <1>3, <1>5, <2>1, <2>2, TaskGoesOn
<1> QED
  BY <1>4, <1>5

LEMMA TaskTimerStep ==
    ASSUME MqttInv, TaskTimer
    PROVE  MqttInv'
<1>1. /\ app = "task" /\ op = NoOp /\ result = "none" /\ rpc = "off"
      /\ op' = NoOp /\ result' = "none" /\ rng' = rng /\ app' = app
  BY DEF MqttInv, ClientOK, AppOK, TaskOK, TaskTimer
<1>2. CASE tpc = "backoff"
  <2>1. DropClient /\ tpc' = "dial"
    BY <1>2 DEF TaskTimer
  <2> QED
    BY <1>1, <2>1, TaskDrops
<1>3. CASE tpc # "backoff"
  <2>1. UNCHANGED << receiveVars, connection, outbound, broker, subscribed, delivered >>
        /\ \/ tpc = "retry" /\ tpc' = "dial"
           \/ tpc = "wait" /\ tpc' = "ping"
    BY <1>3 DEF TaskTimer, Resume
  <2>2. tpc = "retry" => ~connection
    BY <1>1 DEF MqttInv, AppOK, TaskOK
  <2> QED
    BY <1>1, <2>1, <2>2, TaskGoesOn
<1> QED
  BY <1>2, <1>3

-----------------------------------------------------------------------------
LEMMA LibraryOpensStep ==
    ASSUME MqttInv, LibraryOpens
    PROVE  MqttInv'
<1>1. /\ app = "library" /\ tpc = "dial" /\ op = NoOp /\ ~connection /\ result = "none"
      /\ op' = op /\ result' = result /\ app' = app /\ tpc' = "connect" /\ ops' = 0
  BY DEF MqttInv, ClientOK, AppOK, LibraryOK, LibraryOpens
<1>2. op'.kind = "none"
  BY <1>1 DEF NoOp
<1>3. connection' = TRUE /\ rng' = SEED /\ ClosedStream
  BY <1>1 DEF LibraryOpens, Dial
<1>4. ClientOK' /\ (Phase /\ \E P : Flight(Stream, P))'
  BY <1>1, <1>3, StreamCleared, ClientAssumption
<1>5. AppOK'
  BY <1>1, <1>2, <1>3 DEF AppOK, LibraryOK, AckOK, Publishing, Accountable, ClosedStream
<1> QED
  BY <1>4, <1>5 DEF MqttInv

LEMMA LibraryEndsStep ==
    ASSUME MqttInv, LibraryEnds
    PROVE  MqttInv'
<1>1. /\ app = "library" /\ op = NoOp /\ result = "none"
      /\ op' = op /\ result' = result /\ app' = app /\ tpc' = "dial" /\ ops' = 0
      /\ rng' = rng /\ ClosedStream /\ connection' = FALSE
  BY DEF MqttInv, ClientOK, LibraryEnds, DropClient
<1>2. op'.kind = "none"
  BY <1>1 DEF NoOp
<1>3. ClientOK' /\ (Phase /\ \E P : Flight(Stream, P))'
  BY <1>1, StreamCleared DEF MqttInv, ClientOK
<1>4. AppOK'
  BY <1>1, <1>2 DEF AppOK, LibraryOK, AckOK, Publishing, Accountable, ClosedStream
<1> QED
  BY <1>3, <1>4 DEF MqttInv

LEMMA LibraryReturnsStep ==
    ASSUME MqttInv, LibraryReturns
    PROVE  MqttInv'
<1>1. /\ app = "library" /\ op # NoOp /\ rpc = "off" /\ op' = NoOp /\ result' = "none"
      /\ UNCHANGED << receiveVars, connection, rng, wireVars, app, qos, tpc, ops >>
  BY DEF MqttInv, ClientOK, LibraryReturns
<1> USE DEF receiveVars, wireVars
<1>2. op'.kind = "none" /\ tpc = "free"
  BY <1>1 DEF NoOp, MqttInv, AppOK, LibraryOK
<1>3. ClientOK'
  BY <1>1 DEF MqttInv, ClientOK, NoOp
<1>4. ~Waits' /\ ~Publishing'
  BY <1>1, <1>2 DEF Waits, Publishing
<1>5. AppOK'
  BY <1>1, <1>2, <1>4 DEF MqttInv, AppOK, LibraryOK, AckOK, IdsSuffice, Unused, IdAfter
<1>6. ASSUME Aligned' PROVE (Phase /\ \E P : Flight(Stream, P))'
  <2>1. Aligned
    BY <1>1, <1>6 DEF Aligned
  <2>2. PICK P : Flight(Stream, P)
    BY <2>1 DEF MqttInv
  <2>3. Stream' = Stream /\ peer' = peer
    BY <1>1 DEF Stream
  <2>4. LibraryFlight(Stream, P)'
    BY <1>1, <1>2, <2>2, <2>3 DEF Flight, LibraryFlight, IdsSuffice, Unused, IdAfter
  <2>5. Framing(Stream', P) /\ (peer' = "open" => Whole(Stream', P) /\ \A p \in P : ~GoodbyeAt(Stream', p))
    BY <2>2, <2>3 DEF Flight
  <2>6. Flight(Stream, P)'
    BY <1>1, <1>4, <2>4, <2>5 DEF Flight, AckFlight
  <2>7. Phase'
    BY <1>1 DEF Phase
  <2> QED
    BY <2>6, <2>7
<1> QED
  BY <1>3, <1>5, <1>6 DEF MqttInv
-----------------------------------------------------------------------------
(* An operation that polls is one. *)
LEMMA PollsFor ==
    ASSUME op.kind \in DOMAIN Expected
    PROVE  op # NoOp
<1>1. DOMAIN Expected = {"connect", "ping", "publish", "subscribe", "unsubscribe", "receive"}
  BY DEF Expected
<1> QED
  BY <1>1 DEF NoOp

LEMMA PollFailsStep ==
    ASSUME MqttInv, PollFails, UNCHANGED appVars
    PROVE  MqttInv'
<1> USE DEF appVars, wireVars
<1>1. /\ op # NoOp /\ result = "none" /\ rpc = "err" /\ result' = "NetworkError"
      /\ rpc' = "off" /\ position' = 0 /\ i' = 0 /\ target' = 0 /\ buffer' = << >>
      /\ UNCHANGED << inbound, peer, connection, rng, op, wireVars >>
  BY PollsFor DEF PollFails, EndReceive
<1>2. op' # NoOp
  BY <1>1 DEF NoOp
<1>3. ClientOK'
  <2>1. buffer' \in Seq(Nat) /\ Len(buffer') = 0
    BY <1>1
  <2> QED
    BY <1>1, <1>2, <2>1 DEF MqttInv, ClientOK
<1>4. ~Waits' /\ result' # "ok"
  BY <1>1 DEF Waits
<1>5. AppOK'
  <2>1. app = "task" => TaskOK'
    BY <1>1, <1>4 DEF MqttInv, AppOK, TaskOK, BeforePing, BeforeCall, NoOp
  <2>2. app = "library" => LibraryOK'
    BY <1>1, <1>2 DEF MqttInv, AppOK, LibraryOK, IdsSuffice, Unused, IdAfter
  <2>3. Accountable' => AckOK'
    BY <1>1, <1>4 DEF MqttInv, AppOK, AckOK, Publishing, Accountable, IdsSuffice
  <2> QED
    BY <2>1, <2>2, <2>3 DEF MqttInv, AppOK
<1>6. ASSUME Aligned' PROVE (Phase /\ \E P : Flight(Stream, P))'
  <2>1. inbound' = << >>
    BY <1>1, <1>6 DEF Aligned, MqttInv, ClientOK
  <2> QED
    BY <1>1, <2>1, NothingInFlightThen
<1> QED
  BY <1>3, <1>5, <1>6 DEF MqttInv

-----------------------------------------------------------------------------
(* What an operation sends, and how the client is then. *)
LEMMA OperationClient ==
    ASSUME MqttInv, NEW kind, NEW type, NEW id \in Nat, NEW q, NEW size, NEW polls \in BOOLEAN,
           type \in {"Connect", "Pingreq", "Publish", "Subscribe", "Unsubscribe"},
           kind \in {"connect", "ping", "publish", "subscribe", "unsubscribe"},
           Operation(kind, Packet(type, id, q, size), polls), rng' \in 0..ID_MAX
    PROVE  /\ ClientOK'
           /\ op = NoOp /\ op' # NoOp /\ op'.kind = kind /\ op'.qos = q /\ op'.id = id
           /\ rpc = "off" /\ Stream' = Stream /\ peer' = peer /\ connection' = connection
           /\ subscribed' = subscribed /\ delivered' = delivered
           /\ \/ /\ connection /\ peer # "rst" /\ size <= BUF
                 /\ Len(outbound) \in Nat /\ Len(outbound') = Len(outbound) + 1
                 /\ \A k \in 1..Len(outbound) : outbound'[k] = outbound[k]
                 /\ LET p == outbound'[Len(outbound) + 1]
                    IN  p.type = type /\ p.id = id /\ p.size = size
                 /\ \A k \in 1..Len(outbound') : k \in 1..Len(outbound) \/ k = Len(outbound) + 1
                 /\ IF polls THEN rpc' = "header" /\ result' = "none"
                    ELSE rpc' = "off" /\ result' = "ok"
                 /\ buffer' = << >>
              \/ /\ outbound' = outbound /\ rpc' = "off" /\ result' \notin {"none", "ok"}
<1> DEFINE p == Packet(type, id, q, size)
           c == [p EXCEPT !.cut = Outstanding + p.size > TX]
<1>1. /\ op = NoOp /\ rpc = "off" /\ buffer = << >> /\ op' = [kind |-> kind, qos |-> q, id |-> id]
      /\ UNCHANGED << inbound, peer, connection, broker, subscribed, delivered, faults, pushes >>
  BY DEF MqttInv, ClientOK, Operation, Packet
<1>2. op'.kind = kind /\ op'.qos = q /\ op'.id = id /\ op' # NoOp
  BY <1>1 DEF NoOp
<1>3. c.type = type /\ c.id = id /\ c.size = size
  BY DEF Packet
<1> HIDE DEF c
<1>4. CASE connection /\ size <= BUF /\ peer # "rst"
  <2>1. outbound' = Append(outbound, c)
        /\ IF polls THEN result' = "none" /\ StartReceive
           ELSE result' = "ok" /\ UNCHANGED << rpc, position, i, header, target, buffer >>
    BY <1>4 DEF Operation, Packet, Sent, c
  <2>2. /\ Queue(outbound') /\ Len(outbound) \in Nat /\ Len(outbound') = Len(outbound) + 1
        /\ \A k \in 1..Len(outbound) : outbound'[k] = outbound[k]
        /\ outbound'[Len(outbound) + 1] = c
        /\ \A k \in 1..Len(outbound') : k \in 1..Len(outbound) \/ k = Len(outbound) + 1
    <3>1. Queue(outbound)
      BY DEF MqttInv, ClientOK
    <3> QED
      BY <2>1, <3>1, QueueAppend
  <2>3. /\ buffer' = << >> /\ buffer' \in Seq(Nat) /\ position' = Len(buffer')
        /\ i' \in Nat /\ target' \in Nat
        /\ IF polls THEN rpc' = "header" /\ result' = "none" ELSE rpc' = "off" /\ result' = "ok"
    <3>1. i \in Nat /\ target \in Nat /\ position = 0
      BY <1>1 DEF MqttInv, ClientOK
    <3>2. CASE polls
      <4>1. /\ result' = "none" /\ rpc' = "header" /\ position' = 0 /\ i' = 0 /\ target' = 0
            /\ buffer' = << >>
        BY <2>1, <3>2 DEF StartReceive
      <4> QED
        BY <3>2, <4>1
    <3>3. CASE ~polls
      <4>1. /\ result' = "ok" /\ rpc' = "off" /\ position' = 0 /\ i' \in Nat /\ target' \in Nat
            /\ buffer' = << >>
        BY <1>1, <2>1, <3>1, <3>3
      <4> QED
        BY <3>3, <4>1
    <3> QED
      BY <3>2, <3>3
  <2>4. \A k \in 1..Len(outbound') :
          /\ outbound'[k].type \in {"Connect", "Pingreq", "Publish", "Subscribe", "Unsubscribe", "Puback"}
          /\ outbound'[k].type # "Puback" => outbound'[k].id \in Nat
    BY <1>3, <2>2 DEF MqttInv, ClientOK
  <2>5. ClientOK'
    BY <1>1, <1>2, <1>4, <2>2, <2>3, <2>4 DEF MqttInv, ClientOK
  <2>6. Stream' = Stream
    BY <1>1, <2>3 DEF Stream
  <2> QED
    BY <1>1, <1>2, <1>3, <1>4, <2>2, <2>3, <2>5, <2>6
<1>5. CASE ~(connection /\ size <= BUF /\ peer # "rst")
  <2>1. /\ result' \notin {"none", "ok"}
        /\ UNCHANGED << outbound, rpc, position, i, header, target, buffer >>
    BY <1>5 DEF Operation, Packet
  <2>2. ClientOK'
    BY <1>1, <1>2, <2>1 DEF MqttInv, ClientOK
  <2>3. Stream' = Stream
    BY <1>1, <2>1 DEF Stream
  <2> QED
    BY <1>1, <1>2, <2>1, <2>2, <2>3
<1> QED
  BY <1>4, <1>5

(* A call of mqtt_net_task that sends a packet. *)
LEMMA TaskSends ==
    ASSUME MqttInv, app = "task", UNCHANGED appVars,
           NEW kind, NEW type, NEW id \in Nat, NEW q, NEW size \in Nat, NEW polls \in BOOLEAN,
           \/ kind = "connect" /\ type = "Connect" /\ tpc \in {"connect", "reconnect"} /\ polls
           \/ kind = "ping" /\ type = "Pingreq" /\ tpc = "ping" /\ polls
           \/ kind = "publish" /\ type = "Publish" /\ tpc = "publish" /\ (polls <=> q = "QoS1"),
           Operation(kind, Packet(type, id, q, size), polls), rng' \in 0..ID_MAX
    PROVE  MqttInv'
<1> USE DEF appVars
<1> DEFINE last == Len(outbound) + 1
           sends == /\ connection /\ peer # "rst" /\ size <= BUF
                    /\ Len(outbound) \in Nat /\ Len(outbound') = last
                    /\ \A k \in 1..Len(outbound) : outbound'[k] = outbound[k]
                    /\ outbound'[last].type = type /\ outbound'[last].id = id
                    /\ outbound'[last].size = size
                    /\ \A k \in 1..Len(outbound') : k \in 1..Len(outbound) \/ k = last
                    /\ IF polls THEN rpc' = "header" /\ result' = "none"
                       ELSE rpc' = "off" /\ result' = "ok"
                    /\ buffer' = << >>
           fails == outbound' = outbound /\ rpc' = "off" /\ result' \notin {"none", "ok"}
<1>1. /\ ClientOK'
      /\ op = NoOp /\ op' # NoOp /\ op'.kind = kind /\ op'.qos = q /\ op'.id = id
      /\ rpc = "off" /\ Stream' = Stream /\ peer' = peer /\ connection' = connection
      /\ subscribed' = subscribed /\ delivered' = delivered
      /\ sends \/ fails
  <2>1. /\ type \in {"Connect", "Pingreq", "Publish", "Subscribe", "Unsubscribe"}
        /\ kind \in {"connect", "ping", "publish", "subscribe", "unsubscribe"}
    OBVIOUS
  <2> QED
    BY <2>1, OperationClient
<1>2. TaskOK /\ app' = app /\ tpc' = tpc
  BY DEF MqttInv, AppOK
<1>3. /\ BeforeCall => outbound = << >>
      /\ tpc \in {"connect", "publish"} => BeforeCall /\ outbound = << >> /\ Len(outbound) = 0
      /\ tpc = "ping" => BeforePing
      /\ tpc = "reconnect" => ~connection
  BY <1>1, <1>2, QueueEmpty DEF TaskOK, BeforeCall, BeforePing
<1>4. ~BeforeCall' /\ (BeforePing' => tpc \in {"connect", "publish"})
  <2>1. op' # NoOp'
    BY <1>1 DEF NoOp
  <2> QED
    BY <1>1, <1>2, <2>1 DEF BeforeCall, BeforePing, TaskOK
<1>5. CASE fails
  <2>1. ~Waits' /\ result' # "ok"
    BY <1>5 DEF Waits
  <2>2. AppOK'
    <3>1. TaskOK'
      <4>1. tpc = "disconnect" => op = NoOp
        BY <1>1
      <4> QED
        BY <1>1, <1>2, <1>3, <1>4, <1>5, <2>1 DEF TaskOK, NoOp
    <3>2. AckOK'
      BY <1>1, <2>1 DEF AckOK, Publishing
    <3> QED
      BY <1>2, <3>1, <3>2 DEF AppOK
  <2>3. ASSUME Aligned' PROVE (Phase /\ \E P : Flight(Stream, P))'
    <3>1. Aligned
      BY <1>1, <1>5, <2>3 DEF Aligned
    <3>2. PICK P : Flight(Stream, P)
      BY <3>1 DEF MqttInv
    <3>3. TaskFlight(Stream, P) /\ Framing(Stream', P)
          /\ (peer' = "open" => Whole(Stream', P) /\ \A p \in P : ~GoodbyeAt(Stream', p))
      BY <1>1, <3>2 DEF Flight
    <3>4. TaskFlight(Stream, P)'
      BY <1>1, <1>2, <1>3, <1>4, <2>1, <3>3
      DEF TaskFlight, BeforePing, MessageAt, PongAt
    <3>5. Flight(Stream, P)'
      BY <1>2, <2>1, <3>3, <3>4 DEF Flight, AckFlight
    <3>6. Phase'
      BY <1>5 DEF Phase
    <3> QED
      BY <3>5, <3>6
  <2> QED
    BY <1>1, <2>2, <2>3 DEF MqttInv
<1>6. CASE sends
  <2>1. Aligned
    BY <1>1, <1>6 DEF Aligned
  <2>2. PICK P : Flight(Stream, P)
    BY <2>1 DEF MqttInv
  <2>3. TaskFlight(Stream, P) /\ Framing(Stream', P)
        /\ (peer' = "open" => Whole(Stream', P) /\ \A p \in P : ~GoodbyeAt(Stream', p))
    BY <1>1, <2>2 DEF Flight
  <2>4. tpc # "reconnect"
    BY <1>3, <1>6
  <2>5. tpc = "ping" => \A p \in P : ~PongAt(Stream, p)
    BY <1>3, <2>3 DEF TaskFlight
  <2>6. tpc \in {"connect", "publish"} =>
          OnlyGoodbyes(Stream, P) /\ \A p \in P : ~PongAt(Stream, p)
    BY <1>3, <2>3 DEF TaskFlight, OnlyGoodbyes, GoodbyeAt, PongAt
  <2>7. kind = "ping" => result' = "none"
    BY <1>6
  <2>8. TaskFlight(Stream, P)'
    <3>1. \A p \in P : ~PongAt(Stream', p) /\ ~MessageAt(Stream', p)
      BY <1>1, <2>3, <2>4, <2>5, <2>6 DEF TaskFlight
    <3> QED
      BY <1>1, <1>4, <2>7, <3>1 DEF TaskFlight
  <2>9. AckFlight(Stream, P)'
    BY <1>1, <1>3, <2>6 DEF AckFlight, Publishing, OnlyGoodbyes, GoodbyeAt, GoodAckAt, AckAt
  <2>10. Flight(Stream, P)'
    BY <1>2, <2>3, <2>8, <2>9 DEF Flight
  <2>11. Phase'
    BY <1>6 DEF Phase
  <2>12. \A k \in 1..Len(outbound') :
           /\ outbound'[k].type \in {"Connect", "Pingreq", "Publish"}
           /\ outbound'[k].size \in 0..BUF
    BY <1>2, <1>6, BufAssumption DEF TaskOK
  <2>13. tpc \in {"connect", "publish"} =>
           Len(outbound') = 1 /\ \A k \in 1..Len(outbound') : k = 1 /\ outbound'[k].type # "Pingreq"
    BY <1>3, <1>6
  <2>14. tpc = "ping" =>
           \A k \in 1..Len(outbound') : outbound'[k].type = "Pingreq" => k = Len(outbound')
    BY <1>2, <1>3, <1>6 DEF TaskOK
  <2>15. TaskOK'
    <3>1. BeforePing' => Len(outbound') <= 1 /\ \A k \in 1..Len(outbound') : outbound'[k].type # "Pingreq"
      <4>1. BeforePing' =>
              Len(outbound') = 1 /\ \A k \in 1..Len(outbound') : outbound'[k].type # "Pingreq"
        BY <1>4, <2>13, Zenon
      <4>2. Len(outbound') = 1 => Len(outbound') <= 1
        OBVIOUS
      <4> QED
        BY <4>1, <4>2, Zenon
    <3>2. op'.kind = "ping" => tpc = "ping" /\ result' # "ok"
      BY <1>1, <2>7
    <3>3. op'.kind # "receive" /\ (tpc = "ping" => op'.kind = "ping") /\ tpc # "disconnect"
      BY <1>1
    <3> HIDE DEF sends, last, fails
    <3> QED
      BY <1>1, <1>2, <1>4, <2>12, <2>14, <3>1, <3>2, <3>3 DEF TaskOK
  <2>16. AckOK'
    <3>1. Publishing' => kind = "publish" /\ polls
      BY <1>1 DEF Publishing
    <3>2. Publishing' => result' = "none"
      BY <1>6, <3>1
    <3>3. Publishing' => \A k \in 1..Len(outbound') : k = Len(outbound')
      BY <2>13, <3>1
    <3> QED
      BY <1>1, <3>2, <3>3 DEF AckOK
  <2>17. AppOK'
    BY <1>2, <2>15, <2>16 DEF AppOK
  <2> QED
    BY <1>1, <2>10, <2>11, <2>17 DEF MqttInv
<1> HIDE DEF sends, fails
<1> QED
  BY <1>1, <1>5, <1>6

(* disconnect leaves nothing in flight, whoever calls it. *)
LEMMA DisconnectStep ==
    ASSUME MqttInv, Disconnect, UNCHANGED << app, tpc >>,
           \/ app = "task" /\ tpc = "disconnect"
           \/ app = "library" /\ tpc = "free" /\ ops' \in Nat /\ ops' >= 1
    PROVE  MqttInv'
<1>1. /\ op' = [NoOp EXCEPT !.kind = "disconnect"] /\ result' \in {"ok", "NetworkError"}
      /\ connection' = FALSE /\ ClosedStream /\ rng' = rng
  BY DEF Disconnect
<1>2. op'.kind = "disconnect" /\ op' # NoOp /\ op' # NoOp'
  BY <1>1 DEF NoOp
<1>3. ClientOK' /\ (Phase /\ \E P : Flight(Stream, P))'
  BY <1>1, <1>2, StreamCleared DEF MqttInv, ClientOK
<1>4. app = "task" => ~Publishing' /\ ~BeforePing' /\ ~BeforeCall'
  BY <1>2 DEF Publishing, BeforePing, BeforeCall
<1>5. outbound' = << >> /\ Len(outbound') = 0 /\ subscribed' = FALSE
  BY <1>1, QueueEmpty DEF ClosedStream
<1>6. app = "task" => TaskOK'
  BY <1>1, <1>2, <1>4, <1>5 DEF TaskOK
<1>7. app = "library" => LibraryOK'
  BY <1>1, <1>2, <1>5 DEF LibraryOK
<1>8. AckOK'
  BY <1>2 DEF AckOK, Publishing
<1>9. AppOK'
  BY <1>6, <1>7, <1>8 DEF AppOK
<1> QED
  BY <1>3, <1>9 DEF MqttInv

(* The identifiers a client takes. *)
LEMMA NextIdIs ==
    ASSUME rng \in 0..ID_MAX
    PROVE  NextId \in 1..ID_MAX /\ NextId = IdAfter(1)
<1>1. ID_MAX \in Nat /\ ID_MAX >= 1
  BY ClientAssumption
<1> QED
  BY <1>1 DEF NextId, IdAfter

LEMMA TaskCallStep ==
    ASSUME MqttInv, TaskCall
    PROVE  MqttInv'
<1>1. app = "task" /\ UNCHANGED appVars /\ rng \in 0..ID_MAX
  BY DEF TaskCall, MqttInv, ClientOK
<1>2. CASE tpc \in {"connect", "reconnect"} /\ ConnectToBroker
  <2>1. /\ Operation("connect", Packet("Connect", 0, "QoS0", CONNECT_SIZE), TRUE) /\ rng' = rng
        /\ CONNECT_SIZE \in Nat
    BY <1>2, ClientAssumption DEF ConnectToBroker
  <2> QED
    BY <1>1, <1>2, <2>1, TaskSends
<1>3. CASE tpc = "ping" /\ SendPing
  <2>1. Operation("ping", Packet("Pingreq", 0, "QoS0", 2), TRUE) /\ rng' = rng
    BY <1>3 DEF SendPing
  <2> QED
    BY <1>1, <1>3, <2>1, TaskSends
<1>4. CASE tpc = "disconnect" /\ Disconnect
  BY <1>1, <1>4, DisconnectStep DEF appVars
<1>5. ASSUME tpc = "publish", NEW size \in PublishSizes, SendMessage(qos, size) PROVE MqttInv'
  <2>1. /\ Operation("publish", Packet("Publish", NextId, qos, size), qos = "QoS1")
        /\ rng' \in {rng, NextId} /\ size \in Nat /\ (qos = "QoS1") \in BOOLEAN
    BY <1>5, ClientAssumption DEF SendMessage, TakeId
  <2>2. NextId \in Nat /\ NextId \in 0..ID_MAX
    BY <1>1, NextIdIs
  <2>3. rng' \in 0..ID_MAX
    BY <1>1, <2>1, <2>2
  <2> QED
    BY <1>1, <1>5, <2>1, <2>2, <2>3, TaskSends
<1> QED
  BY <1>2, <1>3, <1>4, <1>5 DEF TaskCall

(* Identifiers are taken in turn: what no later operation takes stays so. *)
LEMMA IdsInTurn ==
    ASSUME rng \in 0..ID_MAX, ops \in Nat, ops >= 1, ops < MaxOps, IdsSuffice, ops' = ops + 1
    PROVE  /\ rng' \in {rng, NextId} => \A id : Unused(id) => Unused(id)'
           /\ \A id : Unused(id) => id # NextId
           /\ rng' = NextId => \A k \in 1..(MaxOps - ops') : IdAfter(k)' # NextId
<1>1. ID_MAX \in Nat /\ ID_MAX >= 1 /\ MaxOps \in Nat /\ MaxOps <= ID_MAX + 1
  BY ClientAssumption, TaskAssumption DEF IdsSuffice
<1>2. ASSUME NEW id, Unused(id) PROVE id # NextId
  <2>1. 1 \in 1..(MaxOps - ops)
    BY <1>1
  <2> QED
    BY <1>2, <2>1, NextIdIs DEF Unused
<1>3. ASSUME rng' = NextId, NEW k \in 1..(MaxOps - ops') PROVE IdAfter(k)' = IdAfter(k + 1)
  BY <1>1, <1>3 DEF NextId, IdAfter
<1>4. ASSUME NEW k \in 1..(MaxOps - ops') PROVE k \in 1..(MaxOps - ops) /\ k + 1 \in 1..(MaxOps - ops)
  BY <1>1
<1>5. ASSUME NEW k \in 1..(MaxOps - ops') PROVE IdAfter(k + 1) # IdAfter(1)
  BY <1>1 DEF IdAfter
<1>6. ASSUME rng' \in {rng, NextId}, NEW id, Unused(id) PROVE Unused(id)'
  <2>1. CASE rng' = rng
    <3>1. \A k \in 1..(MaxOps - ops') : IdAfter(k)' = IdAfter(k)
      BY <2>1 DEF IdAfter
    <3> QED
      BY <1>4, <1>6, <3>1 DEF Unused
  <2>2. CASE rng' = NextId
    BY <1>3, <1>4, <1>6, <2>2 DEF Unused
  <2> QED
    BY <1>6, <2>1, <2>2
<1> QED
  BY <1>2, <1>3, <1>5, <1>6, NextIdIs

(* A call of a library client that sends a packet. *)
LEMMA LibrarySends ==
    ASSUME MqttInv, app = "library", app' = app, tpc' = "free", ops' = ops + 1,
           NEW kind, NEW type, NEW id \in Nat, NEW q, NEW size, NEW polls \in BOOLEAN,
           \/ tpc = "connect" /\ kind = "connect" /\ type = "Connect"
           \/ tpc = "free" /\ ops < MaxOps /\ kind \in {"ping", "subscribe", "unsubscribe"}
                 /\ type \in {"Pingreq", "Subscribe", "Unsubscribe"}
           \/ tpc = "free" /\ ops < MaxOps /\ kind = "publish" /\ type = "Publish"
                 /\ id = NextId /\ (polls <=> q = "QoS1") /\ (connection => rng' = NextId),
           Operation(kind, Packet(type, id, q, size), polls), rng' \in {rng, NextId}
    PROVE  MqttInv'
<1> DEFINE last == Len(outbound) + 1
           sends == /\ connection /\ peer # "rst" /\ size <= BUF
                    /\ Len(outbound) \in Nat /\ Len(outbound') = last
                    /\ \A k \in 1..Len(outbound) : outbound'[k] = outbound[k]
                    /\ outbound'[last].type = type /\ outbound'[last].id = id
                    /\ outbound'[last].size = size
                    /\ \A k \in 1..Len(outbound') : k \in 1..Len(outbound) \/ k = last
                    /\ IF polls THEN rpc' = "header" /\ result' = "none"
                       ELSE rpc' = "off" /\ result' = "ok"
                    /\ buffer' = << >>
           fails == outbound' = outbound /\ rpc' = "off" /\ result' \notin {"none", "ok"}
<1>1. rng \in 0..ID_MAX /\ rng' \in 0..ID_MAX
  <2>1. rng \in 0..ID_MAX
    BY DEF MqttInv, ClientOK
  <2>2. NextId \in 0..ID_MAX
    BY <2>1, NextIdIs
  <2> QED
    BY <2>1, <2>2
<1>2. /\ ClientOK'
      /\ op = NoOp /\ op' # NoOp /\ op'.kind = kind /\ op'.qos = q /\ op'.id = id
      /\ rpc = "off" /\ Stream' = Stream /\ peer' = peer /\ connection' = connection
      /\ subscribed' = subscribed /\ delivered' = delivered
      /\ sends \/ fails
  <2>1. /\ type \in {"Connect", "Pingreq", "Publish", "Subscribe", "Unsubscribe"}
        /\ kind \in {"connect", "ping", "publish", "subscribe", "unsubscribe"}
    OBVIOUS
  <2> QED
    BY <1>1, <2>1, OperationClient
<1>3. LibraryOK /\ ops \in Nat /\ (tpc = "free" => ops >= 1)
      /\ (tpc = "connect" => outbound = << >> /\ Len(outbound) = 0)
  BY QueueEmpty DEF MqttInv, AppOK, LibraryOK
<1>4. IdsSuffice' <=> IdsSuffice
  BY DEF IdsSuffice
<1> HIDE DEF sends, fails
<1>5. \A k \in 1..Len(outbound') :
         (k \in 1..Len(outbound) /\ outbound'[k] = outbound[k])
         \/ (sends /\ k = last /\ outbound'[k].type = type /\ outbound'[k].id = id)
  BY <1>2 DEF sends, fails
<1>6. ASSUME tpc = "free", IdsSuffice, NEW x, Unused(x) PROVE Unused(x)' /\ x # NextId
  BY <1>1, <1>3, <1>6, IdsInTurn
<1>7. ASSUME IdsSuffice, NEW k \in 1..Len(outbound'), outbound'[k].type = "Publish"
      PROVE  Unused(outbound[k].id)'
  <2>1. CASE k \in 1..Len(outbound) /\ outbound'[k] = outbound[k]
    <3>1. tpc = "free"
      BY <1>3, <2>1
    <3>2. Unused(outbound[k].id)
      BY <1>3, <1>7, <2>1, <3>1 DEF LibraryOK
    <3>3. PICK x : x = outbound[k].id
      OBVIOUS
    <3>4. Unused(x)'
      BY <1>6, <1>7, <3>1, <3>2, <3>3
    <3> QED
      BY <2>1, <3>3, <3>4 DEF Unused
  <2>2. CASE sends /\ outbound'[k].type = type /\ outbound'[k].id = id
    <3>1. tpc = "free" /\ id = NextId /\ rng' = NextId
      BY <1>7, <2>2 DEF sends
    <3>2. \A j \in 1..(MaxOps - ops') : IdAfter(j)' # NextId
      BY <1>1, <1>3, <1>7, <3>1, IdsInTurn
    <3> QED
      BY <2>2, <3>1, <3>2 DEF Unused
  <2> QED
    BY <1>5, <2>1, <2>2
<1>8. LibraryOK'
  BY <1>3, <1>4, <1>7 DEF LibraryOK
<1>9. Publishing' => kind = "publish" /\ type = "Publish" /\ id = NextId /\ tpc = "free" /\ polls
  BY <1>2 DEF Publishing
<1>10. ASSUME IdsSuffice PROVE AckOK'
  <2>1. Publishing' => result' # "ok"
    BY <1>2, <1>9 DEF sends, fails
  <2>2. ASSUME Publishing', Waits', NEW k \in 1..Len(outbound'),
               outbound'[k].type = "Publish", outbound'[k].id = id
        PROVE  k = Len(outbound')
    <3>1. CASE k \in 1..Len(outbound) /\ outbound'[k] = outbound[k]
      <4>1. Unused(outbound[k].id)
        BY <1>3, <1>9, <1>10, <2>2, <3>1 DEF LibraryOK
      <4>2. outbound[k].id # NextId
        BY <1>6, <1>9, <1>10, <2>2, <4>1
      <4> QED
        BY <1>9, <2>2, <3>1, <4>2
    <3>2. CASE sends /\ k = last
      BY <3>2 DEF sends
    <3> QED
      BY <1>5, <3>1, <3>2
  <2> QED
    BY <1>2, <2>1, <2>2 DEF AckOK
<1>11. AppOK'
  BY <1>4, <1>8, <1>10 DEF AppOK, Accountable
<1>12. ASSUME Aligned' PROVE (Phase /\ \E P : Flight(Stream, P))'
  <2>1. Aligned
    BY <1>2, <1>12 DEF Aligned, sends, fails
  <2>2. PICK P : Flight(Stream, P)
    BY <2>1 DEF MqttInv
  <2>3. LibraryFlight(Stream, P) /\ Framing(Stream', P)
        /\ (peer' = "open" => Whole(Stream', P) /\ \A p \in P : ~GoodbyeAt(Stream', p))
    BY <1>2, <2>2 DEF Flight
  <2>4. ASSUME IdsSuffice, NEW p \in P, NEW x \in Nat, AckAt(Stream, p, x)
        PROVE  Unused(x)' /\ tpc = "free" /\ x # NextId
    <3>1. tpc # "connect"
      BY <2>3, <2>4 DEF LibraryFlight, OnlyGoodbyes, GoodbyeAt, AckAt
    <3>2. tpc = "free"
      BY <3>1
    <3>3. Unused(x)
      BY <2>3, <2>4, <3>2 DEF LibraryFlight
    <3> QED
      BY <1>6, <2>4, <3>2, <3>3
  <2>5. LibraryFlight(Stream, P)'
    BY <1>2, <1>4, <2>4 DEF LibraryFlight
  <2>6. IdsSuffice => AckFlight(Stream, P)'
    BY <1>2, <1>9, <2>4 DEF AckFlight, GoodAckAt
  <2>7. Flight(Stream, P)'
    BY <1>4, <2>3, <2>5, <2>6 DEF Flight, Accountable
  <2>8. Phase'
    <3>1. rpc' = "off" \/ (rpc' = "header" /\ Len(buffer') = 0)
      BY <1>2, QueueEmpty DEF sends, fails
    <3> QED
      BY <3>1 DEF Phase
  <2> QED
    BY <2>7, <2>8
<1> QED
  BY <1>2, <1>11, <1>12 DEF MqttInv

(* A library client waits for a message. *)
LEMMA LibraryReceives ==
    ASSUME MqttInv, app = "library", app' = app, tpc = "free", tpc' = "free", ops < MaxOps,
           ops' = ops + 1, ReceiveMessage
    PROVE  MqttInv'
<1> USE DEF wireVars
<1>1. /\ op = NoOp /\ result = "none" /\ rpc = "off" /\ buffer = << >>
      /\ UNCHANGED << inbound, peer, connection, rng, wireVars >>
      /\ i \in Nat /\ target \in Nat /\ position = 0 /\ rng \in 0..ID_MAX
  BY DEF MqttInv, ClientOK, ReceiveMessage
<1>2. op'.kind = "receive" /\ op' # NoOp /\ op' # NoOp'
  BY DEF NoOp, ReceiveMessage
<1>3. /\ \/ connection /\ rpc' = "header" /\ result' = "none"
         \/ rpc' = "off" /\ result' = "NetworkError"
      /\ buffer' = << >> /\ position' = 0 /\ i' \in Nat /\ target' \in Nat
  <2>1. CASE connection
    BY <1>1, <2>1 DEF ReceiveMessage, StartReceive
  <2>2. CASE ~connection
    BY <1>1, <2>2 DEF ReceiveMessage
  <2> QED
    BY <2>1, <2>2
<1>4. ClientOK'
  <2>1. buffer' \in Seq(Nat) /\ Len(buffer') = 0
    BY <1>3
  <2> QED
    BY <1>1, <1>2, <1>3, <2>1 DEF MqttInv, ClientOK
<1>5. ~Publishing' /\ (IdsSuffice' <=> IdsSuffice)
  BY <1>2 DEF Publishing, IdsSuffice
<1>6. LibraryOK /\ ops \in Nat /\ ops >= 1
  BY DEF MqttInv, AppOK, LibraryOK
<1>7. ASSUME IdsSuffice, NEW x, Unused(x) PROVE Unused(x)'
  BY <1>1, <1>6, <1>7, IdsInTurn
<1>8. LibraryOK'
  <2>1. ASSUME IdsSuffice, NEW k \in 1..Len(outbound), outbound[k].type = "Publish"
        PROVE  Unused(outbound[k].id)'
    <3>1. PICK x : x = outbound[k].id
      OBVIOUS
    <3>2. Unused(x)'
      BY <1>6, <1>7, <2>1, <3>1 DEF LibraryOK
    <3> QED
      BY <1>1, <3>1, <3>2 DEF Unused
  <2> QED
    BY <1>1, <1>5, <1>6, <2>1 DEF LibraryOK
<1>9. AppOK'
  BY <1>5, <1>8 DEF AppOK, AckOK
<1>10. ASSUME Aligned' PROVE (Phase /\ \E P : Flight(Stream, P))'
  <2>1. Aligned
    BY <1>1, <1>2, <1>10 DEF Aligned
  <2>2. PICK P : Flight(Stream, P)
    BY <2>1 DEF MqttInv
  <2>3. Stream' = Stream /\ peer' = peer
    BY <1>1, <1>3 DEF Stream
  <2>4. LibraryFlight(Stream, P) /\ Framing(Stream', P)
        /\ (peer' = "open" => Whole(Stream', P) /\ \A p \in P : ~GoodbyeAt(Stream', p))
    BY <2>2, <2>3 DEF Flight
  <2>5. LibraryFlight(Stream, P)'
    BY <1>5, <1>7, <2>3, <2>4 DEF LibraryFlight
  <2>6. Flight(Stream, P)'
    BY <1>5, <2>4, <2>5 DEF Flight, AckFlight
  <2>7. Phase'
    <3>1. rpc' = "off" \/ (rpc' = "header" /\ Len(buffer') = 0)
      BY <1>3
    <3> QED
      BY <3>1 DEF Phase
  <2> QED
    BY <2>6, <2>7
<1> QED
  BY <1>4, <1>9, <1>10 DEF MqttInv

LEMMA LibraryCallsStep ==
    ASSUME MqttInv, LibraryCalls
    PROVE  MqttInv'
<1>1. app = "library" /\ app' = app /\ ops' = ops + 1 /\ rng \in 0..ID_MAX /\ ops \in Nat
  BY DEF LibraryCalls, MqttInv, ClientOK, AppOK, LibraryOK
<1>2. NextId \in Nat
  BY <1>1, NextIdIs
<1>3. CASE tpc = "connect" /\ ConnectToBroker /\ tpc' = "free"
  <2>1. Operation("connect", Packet("Connect", 0, "QoS0", CONNECT_SIZE), TRUE) /\ rng' = rng
    BY <1>3 DEF ConnectToBroker
  <2> QED
    BY <1>1, <1>3, <2>1, LibrarySends
<1>4. ASSUME tpc = "free", ops < MaxOps, tpc' = tpc, SendPing PROVE MqttInv'
  <2>1. Operation("ping", Packet("Pingreq", 0, "QoS0", 2), TRUE) /\ rng' = rng
    BY <1>4 DEF SendPing
  <2> QED
    BY <1>1, <1>4, <2>1, LibrarySends
<1>5. ASSUME tpc = "free", ops < MaxOps, tpc' = tpc, NEW q, NEW size, SendMessage(q, size)
      PROVE  MqttInv'
  <2>1. /\ Operation("publish", Packet("Publish", NextId, q, size), q = "QoS1")
        /\ (q = "QoS1") \in BOOLEAN /\ rng' \in {rng, NextId} /\ (connection => rng' = NextId)
    BY <1>5 DEF SendMessage, TakeId
  <2> QED
    BY <1>1, <1>2, <1>5, <2>1, LibrarySends
<1>6. ASSUME tpc = "free", ops < MaxOps, tpc' = tpc, SubscribeToTopic PROVE MqttInv'
  <2>1. /\ Operation("subscribe", Packet("Subscribe", NextId, "QoS0", SUBSCRIBE_SIZE), TRUE)
        /\ rng' \in {rng, NextId}
    BY <1>6 DEF SubscribeToTopic, TakeId
  <2> QED
    BY <1>1, <1>2, <1>6, <2>1, LibrarySends
<1>7. ASSUME tpc = "free", ops < MaxOps, tpc' = tpc, UnsubscribeFromTopic PROVE MqttInv'
  <2>1. /\ Operation("unsubscribe", Packet("Unsubscribe", NextId, "QoS0", SUBSCRIBE_SIZE), TRUE)
        /\ rng' \in {rng, NextId}
    BY <1>7 DEF UnsubscribeFromTopic, TakeId
  <2> QED
    BY <1>1, <1>2, <1>7, <2>1, LibrarySends
<1>8. ASSUME tpc = "free", ops < MaxOps, tpc' = tpc, ReceiveMessage PROVE MqttInv'
  BY <1>1, <1>8, LibraryReceives
<1>9. ASSUME tpc = "free", tpc' = tpc, Disconnect PROVE MqttInv'
  <2>1. ops' \in Nat /\ ops' >= 1
    BY <1>1
  <2> QED
    BY <1>1, <1>9, <2>1, DisconnectStep
<1> QED
  BY <1>3, <1>4, <1>5, <1>6, <1>7, <1>8, <1>9 DEF LibraryCalls
-----------------------------------------------------------------------------
(* The bytes of an identifier. *)
LEMMA IdBytes ==
    ASSUME NEW id \in Nat
    PROVE  id \div 256 \in Nat /\ id % 256 \in Nat /\ 256 * (id \div 256) + (id % 256) = id
  BY SMT

(* A packet of six bytes, with an identifier. *)
LEMMA FrameOfSix ==
    ASSUME NEW h \in Heads, NEW a \in Nat, NEW b \in Nat, NEW c \in Nat, NEW d \in Nat
    PROVE  LET f == << h, 4, a, b, c, d >>
           IN  Frame(f) /\ f[1] = h /\ f[3] = a /\ f[4] = b /\ f[5] = c
<1>1. h \in Nat
  BY DEF Heads
<1> QED
  BY <1>1 DEF Frame

(* What the broker answers is nothing or one packet, a PINGRESP to a       *)
(* PINGREQ only, and a PUBACK only to a PUBLISH, with its identifier.      *)
LEMMA AnswerIs ==
    ASSUME NEW p, NEW code \in {0, 135},
           p.type \in {"Connect", "Pingreq", "Publish", "Subscribe", "Unsubscribe", "Puback"},
           p.type # "Puback" => p.id \in Nat
    PROVE  LET f == Answer(p, code)
           IN  \/ f = << >>
               \/ /\ Frame(f)
                  /\ f[1] \notin {48, 50, 224}
                  /\ f[1] = 208 => p.type = "Pingreq"
                  /\ \A id \in Nat : AckAt(f, 0, id) => p.type = "Publish" /\ id = p.id
                  /\ \A id \in Nat : GoodAckAt(f, 0, id) => code = 0
<1> DEFINE f == Answer(p, code)
           a == p.id \div 256
           b == p.id % 256
<1>1. code \in Nat
  OBVIOUS
<1>2. DOMAIN AnswerType = {"Connect", "Pingreq", "Subscribe", "Unsubscribe"}
  BY DEF AnswerType
<1>3. CASE p.type = "Connect"
  <2>1. f = << 32, 3, 0, code, 0 >>
    <3>1. f = Reply("Connack", p.id, code)
      BY <1>2, <1>3 DEF Answer, AnswerType
    <3> QED
      BY <3>1 DEF Reply
  <2>2. Frame(<< 32, 3, 0, code, 0 >>)
    BY <1>1 DEF Frame, Heads
  <2>3. f[1] = 32
    BY <2>1
  <2> HIDE DEF f
  <2> QED
    BY <2>1, <2>2, <2>3 DEF AckAt, GoodAckAt, f
<1>4. CASE p.type = "Pingreq"
  <2>1. f = << 208, 0 >>
    <3>1. f = Reply("Pingresp", p.id, code)
      BY <1>2, <1>4 DEF Answer, AnswerType
    <3> QED
      BY <3>1 DEF Reply
  <2>2. Frame(<< 208, 0 >>)
    BY DEF Frame, Heads
  <2>3. f[1] = 208
    BY <2>1
  <2> HIDE DEF f
  <2> QED
    BY <1>4, <2>1, <2>2, <2>3 DEF AckAt, GoodAckAt, f
<1>5. ASSUME p.type # "Puback" PROVE a \in Nat /\ b \in Nat /\ 256 * a + b = p.id
  BY <1>5, IdBytes
<1> HIDE DEF a, b
<1>6. CASE p.type \in {"Subscribe", "Unsubscribe"}
  <2>1. \E h \in {144, 176} : f = << h, 4, a, b, 0, code >>
    <3>1. f \in {Reply("Suback", p.id, code), Reply("Unsuback", p.id, code)}
      BY <1>2, <1>6 DEF Answer, AnswerType
    <3>2. Reply("Suback", p.id, code) = << 144, 4, a, b, 0, code >>
      BY Zenon DEF Reply, a, b
    <3>3. Reply("Unsuback", p.id, code) = << 176, 4, a, b, 0, code >>
      BY Zenon DEF Reply, a, b
    <3> QED
      BY <3>1, <3>2, <3>3
  <2>2. PICK h \in {144, 176} : f = << h, 4, a, b, 0, code >>
    BY <2>1
  <2>3. Frame(f) /\ f[1] = h
    <3>1. h \in Heads /\ a \in Nat /\ b \in Nat
      BY <1>5, <1>6 DEF Heads
    <3>2. Frame(<< h, 4, a, b, 0, code >>) /\ << h, 4, a, b, 0, code >>[1] = h
      BY <1>1, <3>1, FrameOfSix
    <3> HIDE DEF f
    <3> QED
      BY <2>2, <3>2
  <2> HIDE DEF f
  <2> QED
    BY <2>3 DEF AckAt, GoodAckAt, f
<1>7. CASE p.type = "Publish" /\ p.qos = "QoS1"
  <2>1. f = << 64, 4, a, b, code, 0 >>
    <3>1. f = Reply("Puback", p.id, code)
      BY <1>2, <1>7 DEF Answer
    <3>2. Reply("Puback", p.id, code) = << 64, 4, a, b, code, 0 >>
      BY Zenon DEF Reply, a, b
    <3> QED
      BY <3>1, <3>2
  <2>2. Frame(f) /\ f[1] = 64 /\ f[3] = a /\ f[4] = b /\ f[5] = code
    BY <1>1, <1>5, <1>7, <2>1, FrameOfSix DEF Heads
  <2> HIDE DEF f
  <2>3. ASSUME NEW id \in Nat, AckAt(f, 0, id) PROVE id = p.id
    <3>1. PICK x \in Nat, y \in Nat : f[0 + 3] = x /\ f[0 + 4] = y /\ id = 256 * x + y
      BY <2>3 DEF AckAt
    <3>2. x = a /\ y = b
      BY <2>2, <3>1
    <3> QED
      BY <1>5, <1>7, <3>1, <3>2
  <2>4. ASSUME NEW id \in Nat, GoodAckAt(f, 0, id) PROVE code = 0
    BY <2>2, <2>4 DEF GoodAckAt
  <2> QED
    BY <1>7, <2>2, <2>3, <2>4 DEF f
<1>8. CASE p.type = "Publish" /\ p.qos = "QoS2"
  <2>1. f = << 80, 4, a, b, code, 0 >>
    <3>1. f = Reply("Pubrec", p.id, code)
      BY <1>2, <1>8 DEF Answer
    <3>2. Reply("Pubrec", p.id, code) = << 80, 4, a, b, code, 0 >>
      BY Zenon DEF Reply, a, b
    <3> QED
      BY <3>1, <3>2
  <2>2. Frame(f) /\ f[1] = 80
    BY <1>1, <1>5, <1>8, <2>1, FrameOfSix DEF Heads
  <2> HIDE DEF f
  <2> QED
    BY <2>2 DEF AckAt, GoodAckAt, f
<1>9. CASE p.type = "Puback" \/ (p.type = "Publish" /\ p.qos \notin {"QoS1", "QoS2"})
  <2>1. f = << >>
    BY <1>2, <1>9 DEF Answer
  <2> QED
    BY <2>1
<1> QED
  BY <1>3, <1>4, <1>6, <1>7, <1>8, <1>9

(* A message of the broker, and its goodbye. *)
LEMMA MessageIs ==
    ASSUME NEW q \in {"QoS0", "QoS1"}, NEW payload \in {<< 66 >>, << 66, 66 >>}
    PROVE  Frame(Message(q, payload)) /\ Message(q, payload)[1] \in {48, 50}
<1>1. payload \in Seq(Nat) /\ Len(payload) \in {1, 2}
  <2>1. << 66 >> \in Seq(Nat) /\ Len(<< 66 >>) = 1 /\ << 66, 66 >> \in Seq(Nat) /\ Len(<< 66, 66 >>) = 2
    OBVIOUS
  <2> QED
    BY <2>1, Zenon
<1>2. PICK n \in {1, 2} : Len(payload) = n
  BY <1>1
<1>3. ASSUME NEW a \in Seq(Nat), NEW h \in {48, 50}, NEW m \in 2..8, Len(a) = m, a[1] = h,
             a[2] = m - 2 + n
      PROVE  Frame(a \o payload) /\ (a \o payload)[1] \in {48, 50}
  <2>1. /\ a \o payload \in Seq(Nat) /\ Len(a \o payload) = Len(a) + Len(payload)
        /\ \A j \in 1..Len(a) : (a \o payload)[j] = a[j]
    BY <1>1, JoinedBytes, Zenon
  <2> DEFINE f == a \o payload
  <2> HIDE DEF f
  <2>2. 1 \in 1..m /\ 2 \in 1..m
    OBVIOUS
  <2>3. f \in Seq(Nat) /\ Len(f) = m + n /\ f[1] = h /\ f[2] = m - 2 + n
    BY <1>2, <1>3, <2>1, <2>2 DEF f
  <2>4. m - 2 + n = (m + n) - 2 /\ m - 2 + n \in 0..127 /\ m + n >= 2
    BY <1>2
  <2>5. f[2] = Len(f) - 2 /\ f[2] \in 0..127 /\ Len(f) >= 2
    BY <2>3, <2>4, Zenon
  <2>6. Frame(f) /\ f[1] \in {48, 50}
    BY <2>3, <2>5 DEF Frame, Heads
  <2> QED
    BY <2>6 DEF f
<1>4. CASE q = "QoS1"
  <2> DEFINE a == << 50, 6 + n, 0, 1, 65, 0, 7, 0 >>
  <2>1. Message(q, payload) = a \o payload
    BY <1>2, <1>4 DEF Message
  <2>2. a \in Seq(Nat) /\ Len(a) = 8 /\ a[1] = 50 /\ a[2] = 6 + n
    OBVIOUS
  <2>3. Len(a) \in 2..8 /\ a[2] = Len(a) - 2 + n
    BY <2>2
  <2> HIDE DEF a
  <2> QED
    BY <1>3, <2>1, <2>2, <2>3
<1>5. CASE q = "QoS0"
  <2> DEFINE a == << 48, 4 + n, 0, 1, 65, 0 >>
  <2>1. Message(q, payload) = a \o payload
    BY <1>2, <1>5 DEF Message
  <2>2. a \in Seq(Nat) /\ Len(a) = 6 /\ a[1] = 48 /\ a[2] = 4 + n
    OBVIOUS
  <2>3. Len(a) \in 2..8 /\ a[2] = Len(a) - 2 + n
    BY <2>2
  <2> HIDE DEF a
  <2> QED
    BY <1>3, <2>1, <2>2, <2>3
<1> QED
  BY <1>4, <1>5

LEMMA GoodbyeIs ==
    Frame(Reply("Disconnect", 0, 139)) /\ Reply("Disconnect", 0, 139)[1] = 224
<1> DEFINE f == << 224, 2, 139, 0 >>
<1>1. Reply("Disconnect", 0, 139) = f
  BY Zenon DEF Reply
<1>2. Frame(f) /\ f[1] = 224
  BY DEF Frame, Heads
<1> HIDE DEF f
<1> QED
  BY <1>1, <1>2
-----------------------------------------------------------------------------
(* A packet the broker sends is one more packet of the stream. *)
LEMMA StreamGrows ==
    ASSUME ClientOK, NEW f, Frame(f), NEW P, Framing(Stream, P), Whole(Stream, P),
           buffer' = buffer, inbound' = inbound \o f
    PROVE  \E n \in Nat :
               /\ Framing(Stream', P \union {n}) /\ Whole(Stream', P \union {n})
               /\ \A p \in P : Same(Stream, p, Stream', p) /\ p < n /\ p \in Nat
               /\ Stream'[n + 1] = f[1] /\ Same(f, 0, Stream', n)
<1>1. buffer \in Seq(Nat) /\ inbound \in Seq(Nat) /\ f \in Seq(Nat) /\ Stream \in Seq(Nat)
  BY DEF ClientOK, Stream, Frame
<1>2. Stream' = Stream \o f
  <2>1. (buffer \o inbound) \o f = buffer \o (inbound \o f)
    BY <1>1, ConcatAssociative
  <2>2. Stream' = buffer \o (inbound \o f) /\ Stream = buffer \o inbound
    BY DEF Stream
  <2> QED
    BY <2>1, <2>2, Zenon
<1>3. Len(Stream) \in Nat /\ \A p \in P : p \in Nat
  BY <1>1 DEF Framing
<1>4. PICK n \in Nat : n = Len(Stream)
  BY <1>3
<1>5. Framing(Stream', P \union {n}) /\ Whole(Stream', P \union {n})
  BY <1>1, <1>2, <1>4, FrameAppended, Zenon
<1>6. /\ \A p \in P : Same(Stream, p, Stream', p) /\ p < n
      /\ Stream'[n + 1] = f[1] /\ Same(f, 0, Stream', n)
  BY <1>1, <1>2, <1>4, AppendSame, Zenon
<1> QED
  BY <1>3, <1>5, <1>6

(* The same, whether a packet of the broker comes or not. *)
LEMMA BrokerReadsStep ==
    ASSUME MqttInv, BrokerReads, NEW code \in {0, 135}, outbound' = Tail(outbound),
           app = "task" => ~subscribed', peer' \in {"open", "fin"},
           LET p == Head(outbound)
           IN  \/ inbound' = inbound
               \/ /\ inbound' = inbound \o Answer(p, code) /\ peer' = "open"
                  /\ code = 0 /\ p.type = "Publish" => delivered' = p.id,
           UNCHANGED << rpc, position, i, header, target, buffer, connection, rng, op, result,
                        appVars >>
    PROVE  MqttInv'
<1> USE DEF appVars
<1> DEFINE p == Head(outbound)
           f == Answer(p, code)
<1>1. connection /\ peer = "open" /\ outbound # << >> /\ Queue(outbound)
      /\ buffer \in Seq(Nat) /\ inbound \in Seq(Nat)
  BY DEF BrokerReads, MqttInv, ClientOK
<1>2. /\ Queue(outbound') /\ Len(outbound) \in Nat /\ Len(outbound) >= 1
      /\ Len(outbound') = Len(outbound) - 1
      /\ \A k \in 1..Len(outbound') : k + 1 \in 1..Len(outbound) /\ outbound'[k] = outbound[k + 1]
      /\ p = outbound[1] /\ 1 \in 1..Len(outbound)
      /\ Len(outbound) = 1 => outbound' = << >>
  BY <1>1, QueueTail
<1>3. /\ p.type \in {"Connect", "Pingreq", "Publish", "Subscribe", "Unsubscribe", "Puback"}
      /\ p.type # "Puback" => p.id \in Nat
  BY <1>2 DEF MqttInv, ClientOK
<1>4. \/ inbound' = inbound
      \/ /\ inbound' = inbound \o f /\ peer' = "open" /\ Frame(f)
         /\ f[1] \notin {48, 50, 224}
         /\ f[1] = 208 => p.type = "Pingreq"
         /\ \A id \in Nat : AckAt(f, 0, id) => p.type = "Publish" /\ id = p.id
         /\ \A id \in Nat : GoodAckAt(f, 0, id) => delivered' = id
  <2>1. ASSUME inbound' # inbound
        PROVE  /\ inbound' = inbound \o f /\ peer' = "open"
               /\ code = 0 /\ p.type = "Publish" => delivered' = p.id
    BY <2>1
  <2>2. inbound \o << >> = inbound
    BY <1>1
  <2> HIDE DEF p
  <2>3. \/ f = << >>
        \/ /\ Frame(f)
           /\ f[1] \notin {48, 50, 224}
           /\ f[1] = 208 => p.type = "Pingreq"
           /\ \A id \in Nat : AckAt(f, 0, id) => p.type = "Publish" /\ id = p.id
           /\ \A id \in Nat : GoodAckAt(f, 0, id) => code = 0
    BY <1>3, AnswerIs
  <2>4. \A id \in Nat : GoodAckAt(f, 0, id) => AckAt(f, 0, id)
    BY DEF GoodAckAt
  <2> HIDE DEF f
  <2>5. CASE f = << >>
    <3>1. inbound' = inbound
      BY <2>1, <2>2, <2>5
    <3> QED
      BY <3>1
  <2>6. CASE inbound' # inbound /\ f # << >>
    <3>1. \A id \in Nat : GoodAckAt(f, 0, id) => delivered' = id
      BY <2>1, <2>3, <2>4, <2>6
    <3> QED
      BY <2>1, <2>3, <2>6, <3>1, Zenon
  <2> QED
    BY <2>5, <2>6
<1> HIDE DEF p, f
<1>5. inbound' \in Seq(Nat)
  <2>1. CASE inbound' = inbound
    BY <1>1, <2>1
  <2>2. CASE inbound' = inbound \o f /\ Frame(f)
    <3>1. f \in Seq(Nat)
      BY <2>2 DEF Frame
    <3> QED
      BY <1>1, <2>2, <3>1
  <2> QED
    BY <1>4, <2>1, <2>2
<1>6. ClientOK'
  <2>1. \A k \in 1..Len(outbound') :
          /\ outbound'[k].type \in {"Connect", "Pingreq", "Publish", "Subscribe", "Unsubscribe", "Puback"}
          /\ outbound'[k].type # "Puback" => outbound'[k].id \in Nat
    BY <1>2 DEF MqttInv, ClientOK
  <2>2. rpc # "err"
    BY <1>1 DEF MqttInv, ClientOK
  <2> QED
    BY <1>1, <1>2, <1>5, <2>1, <2>2 DEF MqttInv, ClientOK, NoOp
<1>7. Waits' <=> Waits
  BY DEF Waits
<1>8. app = "task" => TaskOK'
  <2> SUFFICES ASSUME app = "task" PROVE TaskOK'
    OBVIOUS
  <2>1. TaskOK /\ (BeforePing' <=> BeforePing) /\ (BeforeCall' <=> BeforeCall) /\ ~BeforeCall
    BY <1>1 DEF MqttInv, AppOK, TaskOK, BeforePing, BeforeCall, NoOp
  <2>2. \A k \in 1..Len(outbound') : /\ outbound'[k].type \in {"Connect", "Pingreq", "Publish"}
                                     /\ outbound'[k].size \in 0..BUF
    BY <1>2, <2>1 DEF TaskOK
  <2>3. BeforePing => /\ Len(outbound') <= 1
                      /\ \A k \in 1..Len(outbound') : outbound'[k].type # "Pingreq"
    BY <1>2, <2>1 DEF TaskOK
  <2>4. op.kind = "ping" /\ Waits =>
          \A k \in 1..Len(outbound') : outbound'[k].type = "Pingreq" => k = Len(outbound')
    BY <1>2, <2>1 DEF TaskOK
  <2>5. ~(op.kind = "ping" /\ result = "ok")
    BY <1>1, <2>1 DEF TaskOK
  <2> QED
    BY <1>1, <1>7, <2>1, <2>2, <2>3, <2>4, <2>5 DEF TaskOK, NoOp
<1>9. app = "library" => tpc = "free" /\ LibraryOK'
  <2>1. app = "library" => tpc = "free" /\ LibraryOK
    BY <1>1 DEF MqttInv, AppOK, LibraryOK
  <2>2. ASSUME app = "library", IdsSuffice, NEW k \in 1..Len(outbound'), outbound'[k].type = "Publish"
        PROVE  Unused(outbound[k].id)'
    BY <1>2, <2>1, <2>2 DEF LibraryOK, Unused, IdAfter
  <2> QED
    BY <2>1, <2>2 DEF LibraryOK, IdsSuffice, NoOp
<1>10. Accountable' <=> Accountable
  BY DEF Accountable, IdsSuffice
<1>11. ASSUME Accountable PROVE AckOK'
  <2>1. AckOK
    BY <1>11 DEF MqttInv, AppOK
  <2>2. Publishing /\ Waits =>
          \A k \in 1..Len(outbound') :
              outbound'[k].type = "Publish" /\ outbound'[k].id = op.id => k = Len(outbound')
    BY <1>2, <2>1 DEF AckOK
  <2> QED
    BY <1>1, <1>7, <2>1, <2>2 DEF AckOK, Publishing
<1>12. AppOK'
  BY <1>8, <1>9, <1>10, <1>11 DEF MqttInv, AppOK
<1>13. ASSUME Aligned' PROVE (Phase /\ \E P : Flight(Stream, P))'
  <2>1. Aligned
    BY <1>1, <1>13 DEF Aligned
  <2>2. Phase'
    BY <2>1 DEF MqttInv, Phase
  <2>3. PICK P : Flight(Stream, P)
    BY <2>1 DEF MqttInv
  <2>4. /\ Framing(Stream, P) /\ Whole(Stream, P) /\ (\A q \in P : ~GoodbyeAt(Stream, q))
        /\ app = "task" => TaskFlight(Stream, P)
        /\ app = "library" => LibraryFlight(Stream, P)
        /\ Accountable => AckFlight(Stream, P)
    BY <1>1, <2>3 DEF Flight
  <2>5. /\ app = "task" => ~BeforeCall /\ ~(op.kind = "ping" /\ result = "ok")
        /\ app = "task" /\ BeforePing => p.type # "Pingreq"
        /\ app = "task" /\ op.kind = "ping" /\ Waits /\ p.type = "Pingreq" => outbound' = << >>
        /\ app = "task" /\ op.kind = "ping" /\ Waits => \A q \in P : ~PongAt(Stream, q)
    BY <1>1, <1>2, <2>4 DEF MqttInv, AppOK, TaskOK, TaskFlight
  <2>6. /\ Accountable /\ Publishing /\ Waits => \A q \in P : ~GoodAckAt(Stream, q, op.id)
        /\ Accountable /\ Publishing => op.id \in Nat
    BY <1>1, <2>4 DEF AckFlight, MqttInv, AppOK, AckOK
  <2>7. CASE inbound' = inbound
    <3>1. Stream' = Stream
      BY <2>7 DEF Stream
    <3>2. app = "task" => TaskFlight(Stream, P)'
      BY <1>7, <2>4, <2>5, <3>1
      DEF TaskFlight, BeforePing, BeforeCall, NoOp, PongAt, MessageAt
    <3>3. app = "library" => LibraryFlight(Stream, P)'
      BY <1>9, <2>4, <3>1 DEF LibraryFlight, IdsSuffice, Unused, IdAfter
    <3>4. Accountable => AckFlight(Stream, P)'
      BY <1>7, <2>6, <3>1 DEF AckFlight, Publishing
    <3>5. Flight(Stream, P)'
      BY <1>10, <2>4, <3>1, <3>2, <3>3, <3>4 DEF Flight
    <3> QED
      BY <2>2, <3>5
  <2>8. CASE inbound' # inbound
    <3>0. PICK g : g = f
      OBVIOUS
    <3>1. /\ inbound' = inbound \o g /\ peer' = "open" /\ Frame(g)
          /\ g[1] \notin {48, 50, 224}
          /\ g[1] = 208 => p.type = "Pingreq"
          /\ \A id \in Nat : AckAt(g, 0, id) => p.type = "Publish" /\ id = p.id
          /\ \A id \in Nat : GoodAckAt(g, 0, id) => delivered' = id
      BY <1>4, <2>8, <3>0
    <3>2. PICK n \in Nat :
            /\ Framing(Stream', P \union {n}) /\ Whole(Stream', P \union {n})
            /\ \A q \in P : Same(Stream, q, Stream', q) /\ q < n /\ q \in Nat
            /\ Stream'[n + 1] = g[1] /\ Same(g, 0, Stream', n)
      <4>1. /\ ClientOK /\ buffer' = buffer /\ inbound' = inbound \o g
            /\ Frame(g) /\ Framing(Stream, P) /\ Whole(Stream, P)
        BY <2>4, <3>1 DEF MqttInv
      <4> QED
        BY <4>1, StreamGrows
    <3> DEFINE Q == P \union {n}
    <3>3. \A q \in P : Stream'[q + 1] = Stream[q + 1]
      BY <3>2 DEF Same
    <3>4. \A q \in Q : ~GoodbyeAt(Stream', q)
      BY <2>4, <3>1, <3>2, <3>3 DEF GoodbyeAt
    <3>5. app = "task" => TaskFlight(Stream, Q)'
      <4> SUFFICES ASSUME app = "task" PROVE TaskFlight(Stream, Q)'
        OBVIOUS
      <4>0. /\ \A q \in P : ~MessageAt(Stream, q)
            /\ BeforePing => \A q \in P : ~PongAt(Stream, q)
        BY <2>4 DEF TaskFlight
      <4>1. \A q \in Q : ~MessageAt(Stream', q)
        <5>1. \A q \in P : ~MessageAt(Stream', q)
          BY <3>3, <4>0 DEF MessageAt
        <5>2. ~MessageAt(Stream', n)
          BY <3>1, <3>2 DEF MessageAt
        <5> QED
          BY <5>1, <5>2, Zenon
      <4>2. ASSUME BeforePing PROVE \A q \in Q : ~PongAt(Stream', q)
        <5>1. \A q \in P : ~PongAt(Stream', q)
          BY <3>3, <4>0, <4>2 DEF PongAt
        <5>2. ~PongAt(Stream', n)
          BY <2>5, <3>1, <3>2, <4>2 DEF PongAt
        <5> QED
          BY <5>1, <5>2, Zenon
      <4>3. ASSUME op.kind = "ping", Waits, NEW q \in Q, PongAt(Stream', q)
            PROVE  outbound' = << >> /\ \A r \in Q : ~(r > q)
        <5>1. q = n
          BY <2>5, <3>3, <4>3 DEF PongAt
        <5>2. outbound' = << >>
          BY <2>5, <3>1, <3>2, <4>3, <5>1 DEF PongAt
        <5> QED
          BY <3>2, <5>1, <5>2
      <4> HIDE DEF Q
      <4> QED
        BY <1>7, <2>5, <4>1, <4>2, <4>3 DEF TaskFlight, BeforePing, BeforeCall, NoOp
    <3>6. app = "library" => LibraryFlight(Stream, Q)'
      <4>1. ASSUME app = "library", IdsSuffice, NEW q \in Q, NEW id \in Nat, AckAt(Stream', q, id)
            PROVE  Unused(id)
        <5>1. CASE q \in P
          BY <1>9, <2>4, <3>2, <4>1, <5>1 DEF Same, LibraryFlight
        <5>2. CASE q = n
          <6>1. AckAt(g, 0, id)
            BY <3>2, <4>1, <5>2 DEF Same
          <6>2. p.type = "Publish" /\ id = p.id
            BY <3>1, <6>1
          <6> QED
            BY <1>2, <1>9, <4>1, <6>2 DEF MqttInv, AppOK, LibraryOK
        <5> QED
          BY <5>1, <5>2
      <4> HIDE DEF Q
      <4> QED
        BY <1>9, <4>1 DEF LibraryFlight, IdsSuffice, Unused, IdAfter
    <3>7. Accountable => AckFlight(Stream, Q)'
      <4>1. ASSUME Accountable, Publishing, Waits, NEW q \in Q, GoodAckAt(Stream', q, op.id)
            PROVE  delivered' = op.id /\ outbound' = << >>
        <5>1. q = n
          BY <2>6, <3>2, <4>1 DEF Same
        <5>2. GoodAckAt(g, 0, op.id) /\ AckAt(g, 0, op.id)
          BY <2>6, <3>2, <4>1, <5>1 DEF Same, GoodAckAt
        <5>3. p.type = "Publish" /\ op.id = p.id /\ delivered' = op.id
          BY <2>6, <3>1, <4>1, <5>2
        <5>4. Len(outbound) = 1
          BY <1>2, <4>1, <5>3 DEF MqttInv, AppOK, AckOK
        <5> QED
          BY <1>2, <5>3, <5>4
      <4> HIDE DEF Q
      <4> QED
        BY <1>7, <4>1 DEF AckFlight, Publishing
    <3>8. Flight(Stream, Q)'
      BY <1>10, <3>2, <3>4, <3>5, <3>6, <3>7 DEF Flight
    <3> QED
      BY <2>2, <3>8
  <2> QED
    BY <2>7, <2>8
<1> QED
  BY <1>6, <1>12, <1>13 DEF MqttInv

LEMMA BrokerAnswersStep ==
    ASSUME MqttInv, BrokerAnswers, UNCHANGED appVars
    PROVE  MqttInv'
<1> DEFINE p == Head(outbound)
<1>1. BrokerReads /\ outbound' = Tail(outbound)
      /\ UNCHANGED << rpc, position, i, header, target, buffer, connection, rng, op, result >>
  BY DEF BrokerAnswers
<1>2. /\ inbound' = IF p.cut THEN inbound ELSE inbound \o Answer(p, 0)
      /\ peer' = IF p.cut THEN "fin" ELSE peer
      /\ subscribed' = IF p.type = "Subscribe" THEN TRUE
                       ELSE IF p.type = "Unsubscribe" THEN FALSE ELSE subscribed
      /\ delivered' = IF p.type = "Publish" /\ ~p.cut THEN p.id ELSE delivered
  BY DEF BrokerAnswers
<1>3. peer = "open" /\ Queue(outbound) /\ outbound # << >>
  BY <1>1 DEF BrokerReads, MqttInv, ClientOK
<1>4. 1 \in 1..Len(outbound) /\ p = outbound[1]
  BY <1>3, QueueTail
<1>5. app = "task" => ~subscribed'
  <2>1. app = "task" => p.type # "Subscribe" /\ ~subscribed
    BY <1>4 DEF MqttInv, AppOK, TaskOK
  <2> HIDE DEF p
  <2> QED
    BY <1>2, <2>1
<1>6. peer' \in {"open", "fin"}
  BY <1>2, <1>3
<1>7. \/ inbound' = inbound
      \/ /\ inbound' = inbound \o Answer(p, 0) /\ peer' = "open"
         /\ 0 = 0 /\ p.type = "Publish" => delivered' = p.id
  BY <1>2, <1>3
<1> QED
  BY <1>1, <1>5, <1>6, <1>7, BrokerReadsStep

LEMMA BrokerRefusesStep ==
    ASSUME MqttInv, BrokerRefuses, UNCHANGED appVars
    PROVE  MqttInv'
<1>1. /\ BrokerReads /\ outbound' = Tail(outbound)
      /\ inbound' = inbound \o Answer(Head(outbound), 135)
      /\ UNCHANGED << rpc, position, i, header, target, buffer, connection, rng, op, result >>
      /\ peer' = peer /\ subscribed' = subscribed
  BY DEF BrokerRefuses
<1>2. peer' = "open" /\ (app = "task" => ~subscribed')
  BY <1>1 DEF BrokerReads, MqttInv, AppOK, TaskOK
<1>3. 135 # 0
  OBVIOUS
<1> QED
  BY <1>1, <1>2, <1>3, BrokerReadsStep

(* A packet of the broker that answers nothing. *)
LEMMA BrokerSends ==
    ASSUME MqttInv, connection, peer = "open", NEW g, Frame(g), inbound' = inbound \o g,
           \/ g[1] = 224 /\ peer' = "fin"
           \/ g[1] \in {48, 50} /\ peer' = "open" /\ subscribed,
           UNCHANGED << rpc, position, i, header, target, buffer, connection, rng, op, result,
                        outbound, subscribed, delivered, appVars >>
    PROVE  MqttInv'
<1>1. inbound' \in Seq(Nat)
  <2>1. inbound \in Seq(Nat) /\ g \in Seq(Nat)
    BY DEF MqttInv, ClientOK, Frame
  <2> QED
    BY <2>1
<1>2. ClientOK'
  <2>1. rpc # "err"
    BY DEF MqttInv, ClientOK
  <2> QED
    BY <1>1, <2>1 DEF MqttInv, ClientOK, NoOp
<1>3. AppOK'
  BY AppOKSame DEF MqttInv
<1> USE DEF appVars
<1>4. g[1] # 224 => app = "library" /\ tpc = "free"
  BY DEF MqttInv, AppOK, TaskOK, LibraryOK
<1>5. (Waits' <=> Waits) /\ (Accountable' <=> Accountable)
  BY DEF Waits, Accountable, IdsSuffice
<1>6. ASSUME Aligned' PROVE (Phase /\ \E P : Flight(Stream, P))'
  <2>1. Aligned
    BY <1>6 DEF Aligned
  <2>2. Phase'
    BY <2>1 DEF MqttInv, Phase
  <2>3. PICK P : Flight(Stream, P)
    BY <2>1 DEF MqttInv
  <2>4. /\ Framing(Stream, P) /\ Whole(Stream, P) /\ (\A q \in P : ~GoodbyeAt(Stream, q))
        /\ app = "task" => TaskFlight(Stream, P)
        /\ app = "library" => LibraryFlight(Stream, P)
        /\ Accountable => AckFlight(Stream, P)
    BY <2>3 DEF Flight
  <2>5. PICK n \in Nat :
          /\ Framing(Stream', P \union {n}) /\ Whole(Stream', P \union {n})
          /\ \A q \in P : Same(Stream, q, Stream', q) /\ q < n /\ q \in Nat
          /\ Stream'[n + 1] = g[1] /\ Same(g, 0, Stream', n)
    <3>1. /\ ClientOK /\ buffer' = buffer /\ inbound' = inbound \o g
          /\ Frame(g) /\ Framing(Stream, P) /\ Whole(Stream, P)
      BY <2>4 DEF MqttInv
    <3> QED
      BY <3>1, StreamGrows
  <2> DEFINE Q == P \union {n}
  <2>6. \A q \in P : Stream'[q + 1] = Stream[q + 1]
    BY <2>5 DEF Same
  <2>7. ASSUME peer' = "open", NEW q \in Q PROVE ~GoodbyeAt(Stream', q)
    BY <2>4, <2>5, <2>6, <2>7 DEF GoodbyeAt
  <2>8. ASSUME NEW id \in Nat PROVE ~AckAt(Stream', n, id) /\ ~GoodAckAt(Stream', n, id)
    BY <2>5 DEF AckAt, GoodAckAt
  <2>9. app = "task" => TaskFlight(Stream, Q)'
    <3> SUFFICES ASSUME app = "task" PROVE TaskFlight(Stream, Q)'
      OBVIOUS
    <3>1. TaskFlight(Stream, P) /\ g[1] = 224
      BY <1>4, <2>4
    <3>2. GoodbyeAt(Stream', n) /\ ~PongAt(Stream', n) /\ ~MessageAt(Stream', n)
      BY <2>5, <3>1 DEF GoodbyeAt, PongAt, MessageAt
    <3>3. \A q \in P : /\ GoodbyeAt(Stream', q) <=> GoodbyeAt(Stream, q)
                       /\ PongAt(Stream', q) <=> PongAt(Stream, q)
                       /\ MessageAt(Stream', q) <=> MessageAt(Stream, q)
      BY <2>6 DEF GoodbyeAt, PongAt, MessageAt
    <3>4. \A q \in Q : q \in P \/ q = n
      OBVIOUS
    <3> HIDE DEF Q
    <3> QED
      BY <1>5, <3>1, <3>2, <3>3, <3>4
      DEF TaskFlight, BeforePing, BeforeCall, NoOp, OnlyGoodbyes
  <2>10. app = "library" => LibraryFlight(Stream, Q)'
    <3>1. ASSUME app = "library", IdsSuffice, tpc = "free", NEW q \in Q, NEW id \in Nat,
                 AckAt(Stream', q, id)
          PROVE  Unused(id)
      <4>1. q \in P
        BY <2>8, <3>1
      <4> QED
        BY <2>4, <2>5, <3>1, <4>1 DEF Same, LibraryFlight
    <3>2. ASSUME app = "library", tpc # "free", NEW q \in Q PROVE GoodbyeAt(Stream', q)
      <4>1. CASE q \in P
        BY <2>4, <2>6, <3>2, <4>1 DEF LibraryFlight, OnlyGoodbyes, GoodbyeAt
      <4>2. CASE q = n
        BY <1>4, <2>5, <3>2, <4>2 DEF GoodbyeAt
      <4> QED
        BY <4>1, <4>2
    <3> HIDE DEF Q
    <3> QED
      BY <3>1, <3>2 DEF LibraryFlight, IdsSuffice, Unused, IdAfter, OnlyGoodbyes
  <2>11. Accountable => AckFlight(Stream, Q)'
    <3>1. ASSUME Accountable, Publishing, Waits, NEW q \in Q, GoodAckAt(Stream', q, op.id)
          PROVE  delivered = op.id /\ outbound = << >>
      <4>1. op.id \in Nat
        BY <3>1 DEF MqttInv, AppOK, AckOK
      <4>2. q \in P
        BY <2>8, <3>1, <4>1
      <4> QED
        BY <2>4, <2>5, <3>1, <4>1, <4>2 DEF Same, AckFlight
    <3> HIDE DEF Q
    <3> QED
      BY <1>5, <3>1 DEF AckFlight, Publishing
  <2>12. Flight(Stream, Q)'
    BY <1>5, <2>5, <2>7, <2>9, <2>10, <2>11 DEF Flight
  <2> QED
    BY <2>2, <2>12
<1> QED
  BY <1>2, <1>3, <1>6 DEF MqttInv

LEMMA BrokerPublishesStep ==
    ASSUME MqttInv, BrokerPublishes, UNCHANGED appVars
    PROVE  MqttInv'
<1>1. /\ connection /\ peer = "open" /\ subscribed
      /\ UNCHANGED << rpc, position, i, header, target, buffer, peer, connection, rng, op, result,
                      outbound, subscribed, delivered >>
  BY DEF BrokerPublishes
<1>2. PICK q \in {"QoS0", "QoS1"}, payload \in {<< 66 >>, << 66, 66 >>} :
        inbound' = inbound \o Message(q, payload)
  BY DEF BrokerPublishes
<1>3. Frame(Message(q, payload)) /\ Message(q, payload)[1] \in {48, 50}
  BY MessageIs
<1> QED
  BY <1>1, <1>2, <1>3, BrokerSends

(* A stream that ends early, or a connection that is reset. *)
LEMMA FlightPart ==
    ASSUME NEW P, NEW Q, Flight(Stream, P), Q \subseteq P, Framing(Stream', Q),
           \A q \in Q : Same(Stream, q, Stream', q), peer' \in {"fin", "rst"}, AckOK \/ ~Accountable,
           UNCHANGED << rpc, outbound, op, result, delivered, rng, appVars >>
    PROVE  Flight(Stream, Q)'
<1> USE DEF appVars
<1>1. (Waits' <=> Waits) /\ (Accountable' <=> Accountable)
  BY DEF Waits, Accountable, IdsSuffice
<1>2. \A q \in Q : Stream'[q + 1] = Stream[q + 1]
  BY DEF Same
<1>3. app = "task" => TaskFlight(Stream, Q)'
  <2>1. \A q \in Q : /\ q \in P
                     /\ GoodbyeAt(Stream', q) <=> GoodbyeAt(Stream, q)
                     /\ PongAt(Stream', q) <=> PongAt(Stream, q)
                     /\ MessageAt(Stream', q) <=> MessageAt(Stream, q)
    BY <1>2 DEF GoodbyeAt, PongAt, MessageAt
  <2> QED
    BY <1>1, <2>1 DEF Flight, TaskFlight, BeforePing, BeforeCall, NoOp, OnlyGoodbyes
<1>4. app = "library" => LibraryFlight(Stream, Q)'
  <2>1. \A q \in Q, id \in Nat : q \in P /\ (AckAt(Stream', q, id) => AckAt(Stream, q, id))
    BY DEF Same
  <2>2. \A q \in Q : GoodbyeAt(Stream', q) <=> GoodbyeAt(Stream, q)
    BY <1>2 DEF GoodbyeAt
  <2> QED
    BY <2>1, <2>2 DEF Flight, LibraryFlight, IdsSuffice, Unused, IdAfter, OnlyGoodbyes
<1>5. Accountable => AckFlight(Stream, Q)'
  <2>1. \A q \in Q, id \in Nat : q \in P /\ (GoodAckAt(Stream', q, id) => GoodAckAt(Stream, q, id))
    BY DEF Same
  <2>2. Accountable /\ Publishing => op.id \in Nat
    BY DEF AckOK
  <2> QED
    BY <1>1, <2>1, <2>2 DEF Flight, AckFlight, Publishing
<1> QED
  BY <1>1, <1>3, <1>4, <1>5 DEF Flight

LEMMA BrokerFailsStep ==
    ASSUME MqttInv, BrokerFails, UNCHANGED appVars
    PROVE  MqttInv'
<1>1. /\ connection /\ peer = "open"
      /\ UNCHANGED << rpc, position, i, header, target, buffer, connection, rng, op, result,
                      outbound, subscribed, delivered >>
  BY DEF BrokerFails
<1>2. /\ inbound \in Seq(Nat) /\ buffer \in Seq(Nat) /\ rpc # "err"
      /\ AckOK \/ ~Accountable
  BY <1>1 DEF MqttInv, ClientOK, AppOK
<1>3. AppOK'
  BY <1>1, AppOKSame DEF MqttInv
<1>4. CASE inbound' = inbound \o Reply("Disconnect", 0, 139) /\ peer' = "fin"
  BY <1>1, <1>4, GoodbyeIs, BrokerSends
<1>5. ASSUME NEW m \in 0..Len(inbound), inbound' = SubSeq(inbound, 1, m), peer' = "fin"
      PROVE  MqttInv'
  <2>1. /\ inbound' \in Seq(Nat) /\ Len(inbound') = m
        /\ \A j \in 1..m : inbound'[j] = inbound[j]
    BY <1>2, <1>5
  <2>2. ClientOK'
    BY <1>1, <1>2, <1>5, <2>1 DEF MqttInv, ClientOK, NoOp
  <2>3. ASSUME Aligned' PROVE (Phase /\ \E P : Flight(Stream, P))'
    <3>1. Aligned
      BY <1>1, <1>5, <2>3 DEF Aligned
    <3>2. Phase'
      BY <1>1, <3>1 DEF MqttInv, Phase
    <3>3. PICK P : Flight(Stream, P)
      BY <3>1 DEF MqttInv
    <3>4. PICK n \in Nat : n = Len(buffer)
      BY <1>2
    <3>5. /\ Stream \in Seq(Nat) /\ Len(Stream) = n + Len(inbound)
          /\ \A j \in 1..n : Stream[j] = buffer[j]
          /\ \A j \in 1..Len(inbound) : Stream[n + j] = inbound[j]
      BY <1>2, <3>4, JoinedBytes DEF Stream
    <3>6. /\ Stream' \in Seq(Nat) /\ Len(Stream') = n + m
          /\ \A j \in 1..n : Stream'[j] = buffer[j]
          /\ \A j \in 1..m : Stream'[n + j] = inbound'[j]
      <4>1. Stream' = buffer \o inbound'
        BY <1>1 DEF Stream
      <4> QED
        BY <1>2, <2>1, <3>4, <4>1, JoinedBytes
    <3>7. ASSUME NEW j \in 1..(n + m) PROVE Stream'[j] = Stream[j]
      <4>1. CASE j <= n
        <5>1. j \in 1..n
          BY <4>1
        <5> QED
          BY <3>5, <3>6, <5>1
      <4>2. CASE j > n
        <5> DEFINE k == j - n
        <5>1. k \in 1..m /\ k \in 1..Len(inbound) /\ n + k = j
          BY <1>2, <4>2
        <5> HIDE DEF k
        <5>2. Stream'[n + k] = inbound'[k] /\ inbound'[k] = inbound[k] /\ Stream[n + k] = inbound[k]
          BY <2>1, <3>5, <3>6, <5>1
        <5> QED
          BY <5>1, <5>2
      <4> QED
        BY <4>1, <4>2
    <3> DEFINE Q == {p \in P : p < n + m}
    <3>8. /\ Framing(Stream, P) /\ Len(Stream') <= Len(Stream) /\ Len(Stream') \in Nat
          /\ Len(Stream) \in Nat /\ m \in Nat
      <4>1. Len(inbound) \in Nat /\ m <= Len(inbound) /\ m \in Nat
        BY <1>2
      <4>2. Framing(Stream, P)
        BY <3>3 DEF Flight
      <4> QED
        BY <3>5, <3>6, <4>1, <4>2
    <3>9. Framing(Stream', Q)
      BY <3>5, <3>6, <3>7, <3>8, StreamCut
    <3>10. ASSUME NEW q \in Q PROVE Same(Stream, q, Stream', q)
      <4>1. q \in Nat /\ q < Len(Stream')
        BY <3>6, <3>8 DEF Framing
      <4>2. ASSUME NEW j \in 1..(Len(Stream') - q) PROVE Stream'[q + j] = Stream[q + j]
        <5>1. q + j \in 1..(n + m)
          BY <3>6, <3>8, <4>1
        <5> QED
          BY <3>7, <5>1
      <4>3. Len(Stream') - q <= Len(Stream) - q
        BY <3>8, <4>1
      <4> QED
        BY <3>8, <4>1, <4>2, <4>3, SameBytes
    <3>11. Flight(Stream, Q)'
      <4>1. Q \subseteq P
        OBVIOUS
      <4> HIDE DEF Q
      <4> QED
        BY <1>1, <1>2, <1>5, <3>3, <3>9, <3>10, <4>1, FlightPart
    <3> QED
      BY <3>2, <3>11
  <2> QED
    BY <1>3, <2>2, <2>3 DEF MqttInv
<1>6. CASE peer' = "rst" /\ inbound' = inbound
  <2>1. ClientOK'
    BY <1>1, <1>2, <1>6 DEF MqttInv, ClientOK, NoOp
  <2>2. ASSUME Aligned' PROVE (Phase /\ \E P : Flight(Stream, P))'
    <3>1. Aligned
      BY <1>1, <2>2 DEF Aligned
    <3>2. Phase'
      BY <1>1, <3>1 DEF MqttInv, Phase
    <3>3. PICK P : Flight(Stream, P)
      BY <3>1 DEF MqttInv
    <3>4. Stream' = Stream
      BY <1>1, <1>6 DEF Stream
    <3>5. Framing(Stream', P) /\ \A q \in P : Same(Stream, q, Stream', q)
      BY <3>3, <3>4 DEF Flight, Same
    <3>6. Flight(Stream, P)'
      BY <1>1, <1>2, <1>6, <3>3, <3>5, FlightPart
    <3> QED
      BY <3>2, <3>6
  <2> QED
    BY <1>3, <2>1, <2>2 DEF MqttInv
<1>7. CASE inbound' = inbound /\ peer' = peer
  <2>1. ClientOK'
    BY <1>1, <1>2, <1>7 DEF MqttInv, ClientOK, NoOp
  <2>2. ASSUME Aligned' PROVE (Phase /\ \E P : Flight(Stream, P))'
    <3>1. Aligned
      BY <1>1, <1>7, <2>2 DEF Aligned
    <3>2. Phase'
      BY <1>1, <3>1 DEF MqttInv, Phase
    <3>3. PICK P : Flight(Stream, P)
      BY <3>1 DEF MqttInv
    <3>4. Stream' = Stream
      BY <1>1, <1>7 DEF Stream
    <3>5. Flight(Stream, P)'
      BY <1>1, <1>7, <3>3, <3>4, FlightSame
    <3> QED
      BY <3>2, <3>5
  <2> QED
    BY <1>3, <2>1, <2>2 DEF MqttInv
<1> QED
  BY <1>4, <1>5, <1>6, <1>7 DEF BrokerFails
-----------------------------------------------------------------------------
(* The packet that receive_packet hands on is the first of the stream, and *)
(* what poll makes of it is what it is.                                    *)
LEMMA FirstPacket ==
    ASSUME ClientOK, Phase, rpc = "done", NEW P, Framing(Stream, P)
    PROVE  /\ 0 \in P /\ buffer[1] \in Heads /\ Stream[1] = buffer[1]
           /\ Len(buffer) \in Nat /\ Len(buffer) >= 2 /\ Ends(Stream, 0, Len(buffer))
           /\ Len(Stream) = Len(buffer) + Len(inbound)
           /\ \A j \in 1..Len(inbound) : Stream[Len(buffer) + j] = inbound[j]
           /\ \A j \in 1..Len(buffer) : Stream[j] = buffer[j]
<1>1. /\ buffer \in Seq(Nat) /\ inbound \in Seq(Nat) /\ target \in Nat
      /\ i = target /\ Len(buffer) = 2 + i /\ buffer[2] = target
  BY DEF ClientOK, Phase
<1>2. PICK n \in Nat : Len(buffer) = n /\ target = n - 2 /\ n >= 2 /\ buffer[2] = n - 2
  <2>1. 2 + target \in Nat /\ target = (2 + target) - 2 /\ 2 + target >= 2
    BY <1>1
  <2>2. Len(buffer) = 2 + target /\ buffer[2] = (2 + target) - 2
    BY <1>1, <2>1
  <2> QED
    BY <2>1, <2>2
<1>3. /\ Len(Stream) = n + Len(inbound)
      /\ \A j \in 1..n : Stream[j] = buffer[j]
      /\ \A j \in 1..Len(inbound) : Stream[n + j] = inbound[j]
  BY <1>1, <1>2, JoinedBytes DEF Stream
<1>4. 1 \in 1..n /\ 2 \in 1..n /\ Len(inbound) \in Nat
  BY <1>1, <1>2
<1>5. Stream[1] = buffer[1] /\ Stream[2] = n - 2
  BY <1>2, <1>3, <1>4
<1>6. Len(Stream) > 0 /\ 0 + 2 <= Len(Stream)
  BY <1>2, <1>3, <1>4
<1>7. 0 \in P /\ Stream[0 + 1] \in Heads
  BY <1>6 DEF Framing
<1>8. Ends(Stream, 0, n)
  <2>1. 0 + 2 = 2 /\ n - 0 - 2 = n - 2
    OBVIOUS
  <2> QED
    BY <1>5, <1>6, <2>1 DEF Ends
<1> QED
  BY <1>2, <1>3, <1>5, <1>7, <1>8

LEMMA FirstIs ==
    ASSUME ClientOK, Phase, rpc = "done", NEW P, Framing(Stream, P)
    PROVE  LET type == TypeOf(buffer[1])
               d == Decode(type, buffer)
               e == EventOf(type, d)
           IN  /\ type \in Types
               /\ e.kind = "Message" => MessageAt(Stream, 0) /\ type = "Publish"
               /\ op.kind = "ping" /\ Outcome(e) = "ok" => PongAt(Stream, 0)
               /\ op.kind = "publish" /\ Outcome(e) = "ok" =>
                    type = "Puback" /\ GoodAckAt(Stream, 0, op.id)
<1> DEFINE h == buffer[1]
           type == TypeOf(h)
           d == Decode(type, buffer)
           e == EventOf(type, d)
<1>1. /\ 0 \in P /\ h \in Heads /\ Stream[1] = h
      /\ Len(buffer) \in Nat /\ Len(buffer) >= 2 /\ Ends(Stream, 0, Len(buffer))
      /\ Len(Stream) = Len(buffer) + Len(inbound)
      /\ \A j \in 1..Len(buffer) : Stream[j] = buffer[j]
  BY FirstPacket
<1>2. /\ type \in Types
      /\ type = "Pingresp" => h = 208
      /\ type = "Publish" => h \in {48, 50}
      /\ type = "Puback" => h = 64
  BY <1>1, HeadTypes
<1> HIDE DEF h, type, d
<1>3. e.kind = "Message" => type = "Publish"
  BY <1>2, EventKinds
<1>4. e.kind = "Message" => MessageAt(Stream, 0)
  BY <1>1, <1>2, <1>3 DEF MessageAt
<1>5. ASSUME Outcome(e) = "ok"
      PROVE  /\ op.kind = "ping" => type = "Pingresp"
             /\ op.kind = "publish" =>
                  /\ type = "Puback" /\ d.err = "ok" /\ d.set["packet_identifier"] = op.id
                  /\ "reason_code" \in DOMAIN d.set => d.set["reason_code"] = 0
  BY <1>2, <1>5, SuccessIs
<1>6. ASSUME op.kind = "ping", Outcome(e) = "ok" PROVE PongAt(Stream, 0)
  BY <1>1, <1>2, <1>5, <1>6 DEF PongAt
<1>7. ASSUME op.kind = "publish", Outcome(e) = "ok" PROVE type = "Puback" /\ GoodAckAt(Stream, 0, op.id)
  <2>1. type = "Puback" /\ h = 64 /\ d = Decode("Puback", buffer) /\ d.err = "ok"
    BY <1>2, <1>5, <1>7 DEF d
  <2>2. buffer \in Seq(Nat) /\ inbound \in Seq(Nat) /\ Len(inbound) \in Nat
    BY DEF ClientOK
  <2>3. 0 + 2 <= Len(Stream) /\ Stream[0 + 1] = 64
    BY <1>1, <2>1, <2>2
  <2>4. Stream[0 + 2] = 4
    BY <1>1, <2>3 DEF Framing
  <2>5. Len(buffer) = 6
    <3>1. Stream[0 + 2] = Len(buffer) - 0 - 2
      BY <1>1 DEF Ends
    <3>2. 4 = Len(buffer) - 0 - 2
      BY <2>4, <3>1
    <3> QED
      BY <1>1, <3>2
  <2>6. 2 \in 1..6 /\ 3 \in 1..6 /\ 4 \in 1..6 /\ 5 \in 1..6
    OBVIOUS
  <2>7. /\ Stream[2] = buffer[2] /\ Stream[3] = buffer[3]
        /\ Stream[4] = buffer[4] /\ Stream[5] = buffer[5]
    BY <1>1, <2>5, <2>6
  <2>8. buffer[1] = 64 /\ buffer[2] = 4
    BY <2>1, <2>4, <2>7 DEF h
  <2>9. /\ d.set["packet_identifier"] = 256 * buffer[3] + buffer[4]
        /\ "reason_code" \in DOMAIN d.set /\ d.set["reason_code"] = buffer[5]
    BY <2>1, <2>2, <2>5, <2>8, PubackDecoded
  <2>10. op.id = 256 * buffer[3] + buffer[4] /\ buffer[5] = 0
    BY <1>5, <1>7, <2>9
  <2>11. buffer[3] \in Nat /\ buffer[4] \in Nat
    <3>1. 3 \in 1..Len(buffer) /\ 4 \in 1..Len(buffer)
      BY <2>5, <2>6
    <3>2. \A j \in 1..Len(buffer) : buffer[j] \in Nat
      BY <2>2
    <3> QED
      BY <3>1, <3>2
  <2>12. 0 + 5 <= Len(Stream)
    BY <1>1, <2>2, <2>5
  <2>13. AckAt(Stream, 0, op.id)
    <3>1. Stream[0 + 3] = buffer[3] /\ Stream[0 + 4] = buffer[4]
      BY <2>7
    <3> QED
      BY <2>3, <2>10, <2>11, <2>12, <3>1 DEF AckAt
  <2>14. Stream[0 + 5] = 0
    BY <2>7, <2>10
  <2> QED
    BY <2>1, <2>13, <2>14 DEF GoodAckAt
<1> QED
  BY <1>2, <1>3, <1>4, <1>6, <1>7 DEF h, type, d
-----------------------------------------------------------------------------
(* An operation that has its packet returns. *)
LEMMA PollClient ==
    ASSUME MqttInv, PollReturns, NEW e,
           e = EventOf(TypeOf(buffer[1]), Decode(TypeOf(buffer[1]), buffer))
    PROVE  /\ ClientOK' /\ op # NoOp /\ op' # NoOp /\ rpc = "done" /\ result = "none"
           /\ rpc' = "off" /\ buffer' = << >>
           /\ UNCHANGED << inbound, peer, connection, rng, op, subscribed, delivered >>
           /\ result' = Outcome(e) \/ result' = "NetworkError"
           /\ \/ outbound' = outbound
              \/ /\ e.kind = "Message" /\ peer # "rst"
                 /\ Len(outbound) \in Nat /\ Len(outbound') = Len(outbound) + 1
                 /\ \A k \in 1..Len(outbound) : outbound'[k] = outbound[k]
                 /\ outbound'[Len(outbound) + 1].type = "Puback"
                 /\ \A k \in 1..Len(outbound') : k \in 1..Len(outbound) \/ k = Len(outbound) + 1
<1> DEFINE qos1 == (buffer[1] \div 2) % 4 = 1
           p == Packet("Puback", e.id, "QoS0", 6)
           c == [p EXCEPT !.cut = Outstanding + p.size > TX]
<1>1. /\ op # NoOp /\ result = "none" /\ rpc = "done" /\ Return(e, qos1)
      /\ rpc' = "off" /\ position' = 0 /\ i' = 0 /\ target' = 0 /\ buffer' = << >>
      /\ UNCHANGED << inbound, peer, connection, rng, op, subscribed, delivered >>
  BY PollsFor DEF PollReturns, Polled, EndReceive
<1>2. op' # NoOp
  BY <1>1 DEF NoOp
<1>3. c.type = "Puback"
  BY DEF Packet
<1>4. connection
  BY <1>1 DEF MqttInv, ClientOK
<1> HIDE DEF qos1, c
<1>5. buffer' \in Seq(Nat) /\ Len(buffer') = 0
  BY <1>1
<1>6. CASE e.kind = "Message" /\ qos1 /\ peer # "rst"
  <2>1. outbound' = Append(outbound, c) /\ result' = Outcome(e)
    BY <1>1, <1>6 DEF Return, Sent, c
  <2>2. Queue(outbound)
    BY DEF MqttInv, ClientOK
  <2>3. /\ Queue(outbound') /\ Len(outbound) \in Nat /\ Len(outbound') = Len(outbound) + 1
        /\ \A k \in 1..Len(outbound) : outbound'[k] = outbound[k]
        /\ outbound'[Len(outbound) + 1] = c
        /\ \A k \in 1..Len(outbound') : k \in 1..Len(outbound) \/ k = Len(outbound) + 1
    BY <2>1, <2>2, QueueAppend
  <2>4. \A k \in 1..Len(outbound') :
          /\ outbound'[k].type \in {"Connect", "Pingreq", "Publish", "Subscribe", "Unsubscribe", "Puback"}
          /\ outbound'[k].type # "Puback" => outbound'[k].id \in Nat
    BY <1>3, <2>3 DEF MqttInv, ClientOK
  <2>5. ClientOK'
    BY <1>1, <1>2, <1>4, <1>5, <2>3, <2>4 DEF MqttInv, ClientOK
  <2> QED
    BY <1>1, <1>2, <1>3, <1>6, <2>1, <2>3, <2>5
<1>7. CASE ~(e.kind = "Message" /\ qos1 /\ peer # "rst")
  <2>1. outbound' = outbound /\ (result' = Outcome(e) \/ result' = "NetworkError")
    BY <1>1, <1>7 DEF Return
  <2>2. ClientOK'
    BY <1>1, <1>2, <1>4, <1>5, <2>1 DEF MqttInv, ClientOK
  <2> QED
    BY <1>1, <1>2, <2>1, <2>2
<1> QED
  BY <1>6, <1>7

(* The rest of the stream, once an operation has taken its packet. *)
LEMMA FlightRest ==
    ASSUME ClientOK, AppOK, Phase, rpc = "done", result = "none", NEW P, Flight(Stream, P),
           rpc' = "off", buffer' = << >>, op # NoOp,
           UNCHANGED << inbound, peer, op, rng, appVars >>,
           app = "task" /\ op.kind = "ping" /\ result' = "ok" => PongAt(Stream, 0)
    PROVE  \E Q : Flight(Stream, Q)'
<1> USE DEF appVars
<1>1. PICK n : n = Len(buffer)
  OBVIOUS
<1>2. /\ 0 \in P /\ n \in Nat /\ n >= 2 /\ Ends(Stream, 0, n)
      /\ Len(Stream) = n + Len(inbound)
      /\ \A j \in 1..Len(inbound) : Stream[n + j] = inbound[j]
  BY <1>1, FirstPacket DEF Flight
<1>3. PICK Q : Q = {p \in Nat : n + p \in P}
  OBVIOUS
<1>4. /\ buffer \in Seq(Nat) /\ inbound \in Seq(Nat) /\ Len(inbound) \in Nat /\ Len(Stream) \in Nat
      /\ Stream \in Seq(Nat)
  BY DEF ClientOK, Stream
<1>5. Stream' = inbound
  BY <1>4 DEF Stream
<1>6. Framing(inbound, Q) /\ (Whole(Stream, P) => Whole(inbound, Q))
  <2>1. Framing(Stream, P) /\ \A j \in 1..Len(inbound) : inbound[j] = Stream[n + j]
    BY <1>2 DEF Flight
  <2> QED
    BY <1>2, <1>3, <1>4, <2>1, FirstTaken
<1>7. \A q \in Q : q \in Nat /\ n + q \in P /\ n + q > 0 /\ q < Len(inbound)
  BY <1>2, <1>3, <1>6 DEF Framing
<1>8. \A q \in Q : Same(Stream, n + q, inbound, q)
  <2>1. SUFFICES ASSUME NEW q \in Q PROVE Same(Stream, n + q, inbound, q)
    OBVIOUS
  <2>2. q \in Nat /\ n + q \in Nat /\ q < Len(inbound)
    BY <1>2, <1>7
  <2>3. Len(inbound) - q <= Len(Stream) - (n + q)
    BY <1>2, <1>4, <2>2
  <2>4. \A j \in 1..(Len(inbound) - q) : inbound[q + j] = Stream[(n + q) + j]
    <3>1. SUFFICES ASSUME NEW j \in 1..(Len(inbound) - q) PROVE inbound[q + j] = Stream[(n + q) + j]
      OBVIOUS
    <3>2. q + j \in 1..Len(inbound) /\ n + (q + j) = (n + q) + j
      BY <1>2, <1>4, <2>2
    <3>3. Stream[n + (q + j)] = inbound[q + j]
      BY <1>2, <3>2
    <3> QED
      BY <3>2, <3>3
  <2> QED
    BY <1>4, <2>2, <2>3, <2>4, SameBytes
<1>9. \A q \in Q : inbound[q + 1] = Stream[(n + q) + 1]
  BY <1>8 DEF Same
<1>10. \A q \in Q : /\ GoodbyeAt(inbound, q) <=> GoodbyeAt(Stream, n + q)
                    /\ PongAt(inbound, q) <=> PongAt(Stream, n + q)
                    /\ MessageAt(inbound, q) <=> MessageAt(Stream, n + q)
  BY <1>9 DEF GoodbyeAt, PongAt, MessageAt
<1>11. ~Waits' /\ Waits /\ op' # NoOp
  BY DEF Waits, NoOp
<1>12. ASSUME app = "task" PROVE TaskFlight(Stream, Q)'
  <2>1. TaskFlight(Stream, P)
    BY <1>12 DEF Flight
  <2>2. \A q \in Q : ~MessageAt(inbound, q)
    BY <1>7, <1>10, <2>1 DEF TaskFlight
  <2>3. BeforePing' => \A q \in Q : ~PongAt(inbound, q)
    <3>1. BeforePing' => BeforePing
      BY <1>11 DEF BeforePing
    <3> QED
      BY <1>7, <1>10, <2>1, <3>1 DEF TaskFlight
  <2>4. ~BeforeCall'
    BY <1>11 DEF BeforeCall
  <2>5. op'.kind = "ping" /\ result' = "ok" => OnlyGoodbyes(inbound, Q)
    BY <1>2, <1>7, <1>10, <1>11, <1>12, <2>1 DEF TaskFlight, OnlyGoodbyes
  <2> QED
    BY <1>5, <1>11, <2>2, <2>3, <2>4, <2>5 DEF TaskFlight
<1>13. ASSUME app = "library" PROVE LibraryFlight(Stream, Q)'
  <2>1. LibraryFlight(Stream, P)
    BY <1>13 DEF Flight
  <2>2. \A q \in Q, id \in Nat : AckAt(inbound, q, id) => AckAt(Stream, n + q, id)
    BY <1>8 DEF Same
  <2>3. tpc # "free" => OnlyGoodbyes(inbound, Q)
    BY <1>7, <1>10, <2>1 DEF LibraryFlight, OnlyGoodbyes
  <2>4. tpc = "free" /\ IdsSuffice =>
          \A q \in Q, id \in Nat : AckAt(inbound, q, id) => Unused(id)
    BY <1>7, <2>1, <2>2 DEF LibraryFlight
  <2> QED
    BY <1>5, <2>3, <2>4 DEF LibraryFlight, IdsSuffice, Unused, IdAfter
<1>14. AckFlight(Stream, Q)'
  BY <1>11 DEF AckFlight
<1>15. peer' = "open" => Whole(inbound, Q) /\ \A q \in Q : ~GoodbyeAt(inbound, q)
  BY <1>6, <1>7, <1>10 DEF Flight
<1>16. Flight(Stream, Q)'
  BY <1>5, <1>6, <1>12, <1>13, <1>14, <1>15 DEF Flight
<1> QED
  BY <1>16

LEMMA PollReturnsStep ==
    ASSUME MqttInv, PollReturns, UNCHANGED appVars
    PROVE  MqttInv'
<1> USE DEF appVars
<1>1. PICK e : e = EventOf(TypeOf(buffer[1]), Decode(TypeOf(buffer[1]), buffer))
  OBVIOUS
<1>2. /\ ClientOK' /\ op # NoOp /\ op' # NoOp /\ rpc = "done" /\ result = "none"
      /\ rpc' = "off" /\ buffer' = << >>
      /\ UNCHANGED << inbound, peer, connection, rng, op, subscribed, delivered >>
      /\ result' = Outcome(e) \/ result' = "NetworkError"
  BY <1>1, PollClient
<1>3. \/ outbound' = outbound
      \/ /\ e.kind = "Message" /\ peer # "rst"
         /\ Len(outbound) \in Nat /\ Len(outbound') = Len(outbound) + 1
         /\ \A k \in 1..Len(outbound) : outbound'[k] = outbound[k]
         /\ outbound'[Len(outbound) + 1].type = "Puback"
         /\ \A k \in 1..Len(outbound') : k \in 1..Len(outbound) \/ k = Len(outbound) + 1
  BY <1>1, PollClient
<1>4. ClientOK /\ AppOK /\ Waits /\ ~Waits'
  BY <1>2 DEF MqttInv, Waits
<1>5. Aligned <=> ~(peer = "rst" /\ op.kind = "receive")
  BY <1>2 DEF Aligned
<1>6. ASSUME Aligned
      PROVE  Phase /\ \E P : /\ Flight(Stream, P) /\ 0 \in P
                             /\ e.kind = "Message" => MessageAt(Stream, 0)
                             /\ op.kind = "ping" /\ result' = "ok" => PongAt(Stream, 0)
                             /\ op.kind = "publish" /\ result' = "ok" =>
                                  e.kind # "Message" /\ GoodAckAt(Stream, 0, op.id)
  <2>1. Phase
    BY <1>6 DEF MqttInv
  <2>2. PICK P : Flight(Stream, P)
    BY <1>6 DEF MqttInv
  <2>3. Framing(Stream, P)
    BY <2>2 DEF Flight
  <2>4. 0 \in P
    BY <1>2, <1>4, <2>1, <2>3, FirstPacket
  <2>5. LET type == TypeOf(buffer[1])
        IN  /\ e.kind = "Message" => MessageAt(Stream, 0) /\ type = "Publish"
            /\ op.kind = "ping" /\ Outcome(e) = "ok" => PongAt(Stream, 0)
            /\ op.kind = "publish" /\ Outcome(e) = "ok" =>
                 type = "Puback" /\ GoodAckAt(Stream, 0, op.id)
    BY <1>1, <1>2, <1>4, <2>1, <2>3, FirstIs
  <2>6. result' = "ok" => Outcome(e) = "ok"
    BY <1>2
  <2> QED
    BY <2>1, <2>2, <2>4, <2>5, <2>6
<1>7. ASSUME app = "task" PROVE TaskOK' /\ outbound' = outbound
  <2>1. TaskOK /\ Aligned
    BY <1>4, <1>5, <1>7 DEF AppOK, TaskOK
  <2>2. PICK P : /\ Flight(Stream, P) /\ 0 \in P
                 /\ e.kind = "Message" => MessageAt(Stream, 0)
                 /\ op.kind = "ping" /\ result' = "ok" => PongAt(Stream, 0)
    BY <1>6, <2>1
  <2>3. TaskFlight(Stream, P)
    BY <1>7, <2>2 DEF Flight
  <2>4. outbound' = outbound
    BY <1>3, <2>2, <2>3 DEF TaskFlight
  <2>5. op.kind = "ping" /\ result' = "ok" => outbound = << >>
    BY <1>4, <2>2, <2>3 DEF TaskFlight
  <2>6. BeforePing' => BeforePing
    BY <1>2 DEF BeforePing
  <2>7. ~BeforeCall'
    BY <1>2 DEF BeforeCall
  <2> QED
    BY <1>2, <1>4, <2>1, <2>4, <2>5, <2>6, <2>7 DEF TaskOK
<1>8. ASSUME app = "library" PROVE LibraryOK'
  <2>1. LibraryOK /\ tpc = "free"
    BY <1>2, <1>4, <1>8 DEF AppOK, LibraryOK
  <2>2. IdsSuffice => \A k \in 1..Len(outbound') :
          outbound'[k].type = "Publish" => Unused(outbound'[k].id)
    BY <1>3, <2>1 DEF LibraryOK
  <2> QED
    BY <1>2, <2>1, <2>2 DEF LibraryOK, IdsSuffice, Unused, IdAfter
<1>9. ASSUME Accountable' PROVE AckOK'
  <2>1. AckOK /\ Accountable
    BY <1>4, <1>9 DEF AppOK, Accountable, IdsSuffice
  <2>2. ASSUME Publishing, result' = "ok" PROVE delivered = op.id /\ outbound' = << >>
    <3>1. Aligned /\ op.kind = "publish"
      BY <1>5, <2>2 DEF Publishing
    <3>2. PICK P : /\ Flight(Stream, P) /\ 0 \in P
                   /\ e.kind # "Message" /\ GoodAckAt(Stream, 0, op.id)
      BY <1>6, <2>2, <3>1
    <3>3. AckFlight(Stream, P)
      BY <2>1, <3>2 DEF Flight
    <3>4. delivered = op.id /\ outbound = << >>
      BY <1>4, <2>2, <3>2, <3>3 DEF AckFlight
    <3>5. outbound' = outbound
      BY <1>3, <3>2
    <3> QED
      BY <3>4, <3>5
  <2> QED
    BY <1>2, <1>4, <2>1, <2>2 DEF AckOK, Publishing
<1>10. AppOK'
  BY <1>4, <1>7, <1>8, <1>9 DEF AppOK
<1>11. ASSUME Aligned' PROVE (Phase /\ \E P : Flight(Stream, P))'
  <2>1. Aligned
    BY <1>2, <1>5, <1>11 DEF Aligned
  <2>2. PICK P : /\ Flight(Stream, P)
                 /\ op.kind = "ping" /\ result' = "ok" => PongAt(Stream, 0)
    BY <1>6, <2>1
  <2>3. Phase
    BY <1>6, <2>1
  <2>4. \E Q : Flight(Stream, Q)'
    BY <1>2, <1>4, <2>2, <2>3, FlightRest
  <2>5. Phase'
    BY <1>2 DEF Phase
  <2> QED
    BY <2>4, <2>5
<1> QED
  BY <1>2, <1>10, <1>11 DEF MqttInv
-----------------------------------------------------------------------------
LEMMA MqttInductive ==
    ASSUME MqttInv, [MqttNext]_taskVars
    PROVE  MqttInv'
<1>1. CASE UNCHANGED taskVars
  <2>1. UNCHANGED << rpc, position, i, header, target, buffer, inbound, peer, connection, rng, op,
                     result, outbound, broker, subscribed, delivered, appVars >>
    BY <1>1 DEF taskVars, clientVars, receiveVars, wireVars
  <2>2. ClientOK'
    BY <2>1 DEF MqttInv, ClientOK, NoOp
  <2>3. AppOK'
    BY <2>1, AppOKSame DEF MqttInv
  <2>4. ASSUME Aligned' PROVE (Phase /\ \E P : Flight(Stream, P))'
    <3>1. Aligned
      BY <2>1, <2>4 DEF Aligned
    <3>2. Phase'
      BY <2>1, <3>1 DEF MqttInv, Phase
    <3>3. PICK P : Flight(Stream, P)
      BY <3>1 DEF MqttInv
    <3>4. Stream' = Stream
      BY <2>1 DEF Stream
    <3>5. Flight(Stream, P)'
      BY <2>1, <3>3, <3>4, FlightSame
    <3> QED
      BY <3>2, <3>5
  <2> QED
    BY <2>2, <2>3, <2>4 DEF MqttInv
<1>2. CASE TaskStep
  BY <1>2, TaskDialStep, TaskCallStep, TaskReturnStep, TaskTimerStep DEF TaskStep
<1>3. CASE LibraryStep
  BY <1>3, LibraryOpensStep, LibraryCallsStep, LibraryReturnsStep, LibraryEndsStep DEF LibraryStep
<1>4. CASE (Receives \/ PollReturns \/ PollFails) /\ UNCHANGED appVars
  BY <1>4, ReceivesStep, PollReturnsStep, PollFailsStep
<1>5. CASE (BrokerAnswers \/ BrokerRefuses \/ BrokerPublishes \/ BrokerFails) /\ UNCHANGED appVars
  BY <1>5, BrokerAnswersStep, BrokerRefusesStep, BrokerPublishesStep, BrokerFailsStep
<1> QED
  BY <1>1, <1>2, <1>3, <1>4, <1>5 DEF MqttNext

(* What the client, the stream and the broker have in flight fits          *)
(* together, whoever uses the client.                                      *)
THEOREM MqttInvariant == MqttSpec => []MqttInv
<1>1. TaskInit => MqttInv
  BY Initially
<1>2. MqttInv /\ [MqttNext]_taskVars => MqttInv'
  BY MqttInductive
<1> QED  BY <1>1, <1>2, PTL DEF MqttSpec

(* When send_ping succeeds in mqtt_net_task nothing it sent is unread and  *)
(* nothing the broker sent but a goodbye is left over, whatever was lost,  *)
(* refused or late before.                                                 *)
THEOREM PingsInStep == MqttSpec => []PingMeansInStep
<1>1. MqttInv => PingMeansInStep
  <2>1. SUFFICES ASSUME MqttInv, app = "task", result = "ok", op.kind = "ping"
                 PROVE  outbound = << >> /\ (peer = "open" => inbound = << >>)
    BY DEF PingMeansInStep
  <2>2. TaskOK /\ ClientOK
    BY <2>1 DEF MqttInv, AppOK
  <2>3. outbound = << >>
    BY <2>1, <2>2 DEF TaskOK
  <2>4. ASSUME peer = "open" PROVE inbound = << >>
    <3>1. rpc = "off" /\ buffer = << >> /\ inbound \in Seq(Nat)
      BY <2>1, <2>2 DEF ClientOK
    <3>2. Stream = inbound
      BY <3>1 DEF Stream
    <3>3. Aligned
      BY <2>4, <3>1 DEF Aligned
    <3>4. PICK P : Flight(Stream, P)
      BY <2>1, <3>3 DEF MqttInv
    <3>5. \A p \in P : GoodbyeAt(Stream, p) /\ ~GoodbyeAt(Stream, p)
      BY <2>1, <2>4, <3>4 DEF Flight, TaskFlight, OnlyGoodbyes
    <3>6. Len(inbound) > 0 => 0 \in P
      BY <3>2, <3>4 DEF Flight, Framing
    <3> QED
      BY <3>1, <3>5, <3>6
  <2> QED
    BY <2>3, <2>4
<1> QED  BY MqttInvariant, <1>1, PTL

(* An Ok of a QoS 1 send_message means that the broker has this message:   *)
(* in mqtt_net_task always, ...                                            *)
THEOREM TaskAcksMeanDelivered == MqttSpec => [](app = "task" => AckMeansDelivered)
<1>1. MqttInv => (app = "task" => AckMeansDelivered)
  BY DEF MqttInv, AppOK, Accountable, AckOK, Publishing, AckMeansDelivered
<1> QED  BY MqttInvariant, <1>1, PTL

(* ... and in any client that does not use more identifiers than there are *)
(* on one connection.                                                      *)
THEOREM AcksMeanDelivered ==
    ASSUME MaxOps <= ID_MAX + 1
    PROVE  MqttSpec => []AckMeansDelivered
<1>1. MqttInv => AckMeansDelivered
  BY DEF MqttInv, AppOK, Accountable, IdsSuffice, AckOK, Publishing, AckMeansDelivered
<1> QED  BY MqttInvariant, <1>1, PTL
-----------------------------------------------------------------------------
(* What one packet the broker has not read takes up. *)
LEMMA OnePacketOutstanding ==
    ASSUME Len(outbound) \in Nat, Len(outbound) <= 1,
           \A k \in 1..Len(outbound) : outbound[k].size \in 0..BUF
    PROVE  Outstanding \in Nat /\ Outstanding <= BUF /\ (Len(outbound) = 0 => Outstanding = 0)
<1> DEFINE s1 == 0 + outbound[1].size
           n == Len(outbound)
           Step(f, k) == IF k = 0 THEN 0 ELSE f[k - 1] + outbound[k].size
           Sums(f) == f = [k \in 0..n |-> Step(f, k)]
           g == [k \in 0..n |-> IF k = 0 THEN 0 ELSE s1]
<1>1. Outstanding = (CHOOSE f : Sums(f))[n]
  BY Zenon DEF Outstanding
<1> HIDE DEF s1, Step, g
<1>2. n \in {0, 1} /\ \A k \in 0..n : k = 0 \/ (k = 1 /\ n = 1)
  <2>1. n \in Nat /\ n <= 1
    OBVIOUS
  <2> HIDE DEF n
  <2>2. n \in {0, 1}
    BY <2>1
  <2>3. \A k \in 0..n : k = 0 \/ (k = 1 /\ n = 1)
    BY <2>1
  <2> QED
    BY <2>2, <2>3
<1> HIDE DEF n
<1> USE DEF Step, g
<1>3. Sums(g)
  <2>1. g[0] = 0 /\ (n = 1 => g[1] = s1)
    BY <1>2
  <2>2. \A k \in 0..n : g[k] = Step(g, k)
    <3>1. n = 1 => g[1] = g[1 - 1] + outbound[1].size
      <4>1. 1 - 1 = 0
        OBVIOUS
      <4> HIDE DEF g
      <4> QED
        BY <2>1, <4>1 DEF s1
    <3> HIDE DEF g
    <3> QED
      BY <1>2, <2>1, <3>1
  <2>3. g = [k \in 0..n |-> g[k]]
    OBVIOUS
  <2> HIDE DEF g, Step
  <2>4. g = [k \in 0..n |-> Step(g, k)]
    BY <2>2, <2>3
  <2> QED
    BY <2>4
<1> DEFINE f == CHOOSE x : Sums(x)
<1>4. Sums(f)
  <2> HIDE DEF Sums, g
  <2> QED
    BY <1>3
<1> HIDE DEF f
<1>5. \A k \in 0..n : f[k] = IF k = 0 THEN 0 ELSE f[k - 1] + outbound[k].size
  BY <1>4
<1>6. 0 \in 0..n /\ f[0] = 0
  BY <1>2, <1>5
<1>7. ASSUME n = 1 PROVE f[1] = outbound[1].size /\ outbound[1].size \in 0..BUF
  <2>1. 1 \in 0..n /\ 1 - 1 = 0
    BY <1>7
  <2>2. f[1] = f[1 - 1] + outbound[1].size
    BY <1>5, <2>1
  <2>3. outbound[1].size \in 0..BUF
    <3>1. 1 \in 1..Len(outbound)
      BY <1>7 DEF n
    <3> QED
      BY <3>1
  <2>4. f[1] = 0 + outbound[1].size
    BY <1>6, <2>1, <2>2
  <2> QED
    BY <2>3, <2>4, BufAssumption
<1>8. Outstanding = f[n]
  BY <1>1 DEF f
<1>9. CASE n = 0
  BY <1>6, <1>8, <1>9, BufAssumption DEF n
<1>10. CASE n = 1
  BY <1>7, <1>8, <1>10, BufAssumption DEF n
<1> QED
  BY <1>2, <1>9, <1>10

(* mqtt_net_task's packets are whole. *)
Uncut == app = "task" => \A k \in 1..Len(outbound) : ~outbound[k].cut

(* A packet that fits the transmit buffer is sent whole. *)
LEMMA UncutOperation ==
    ASSUME MqttInv, Uncut, NEW kind, NEW type, NEW id, NEW q, NEW size \in Nat, NEW polls,
           Operation(kind, Packet(type, id, q, size), polls), app' = app,
           connection /\ size <= BUF => Outstanding \in Nat /\ Outstanding + size <= TX
    PROVE  Uncut'
<1> DEFINE p == Packet(type, id, q, size)
           c == [p EXCEPT !.cut = Outstanding + p.size > TX]
<1>1. Queue(outbound) /\ TX \in Nat
  BY ClientAssumption DEF MqttInv, ClientOK
<1>2. CASE connection /\ size <= BUF /\ peer # "rst"
  <2>1. outbound' = Append(outbound, c)
    BY <1>2 DEF Operation, Packet, Sent
  <2>2. c.cut = (Outstanding + size > TX)
    BY DEF Packet
  <2>3. ~(Outstanding + size > TX)
    BY <1>1, <1>2
  <2> HIDE DEF c
  <2>4. /\ \A k \in 1..Len(outbound) : outbound'[k] = outbound[k]
        /\ outbound'[Len(outbound) + 1] = c
        /\ \A k \in 1..Len(outbound') : k \in 1..Len(outbound) \/ k = Len(outbound) + 1
    BY <1>1, <2>1, QueueAppend
  <2> QED
    BY <2>2, <2>3, <2>4 DEF Uncut
<1>3. CASE ~(connection /\ size <= BUF /\ peer # "rst")
  <2>1. outbound' = outbound
    BY <1>3 DEF Operation, Packet
  <2> QED
    BY <2>1 DEF Uncut
<1> QED
  BY <1>2, <1>3

LEMMA UncutCall ==
    ASSUME MqttInv, Uncut, TaskCall, BUF + 2 <= TX
    PROVE  Uncut'
<1>1. app = "task" /\ app' = app /\ op = NoOp /\ TaskOK /\ ClientOK
  BY DEF TaskCall, MqttInv, AppOK, appVars
<1>2. /\ TX \in Nat /\ BUF \in Nat /\ CONNECT_SIZE \in Nat /\ PublishSizes \subseteq Nat
      /\ Len(outbound) \in Nat
  BY <1>1, ClientAssumption, BufAssumption, QueueAppend DEF ClientOK
<1>3. \A k \in 1..Len(outbound) : outbound[k].size \in 0..BUF
  BY <1>1 DEF TaskOK
<1>4. tpc \in {"connect", "publish"} => Len(outbound) = 0
  <2>1. tpc \in {"connect", "publish"} => outbound = << >>
    BY <1>1 DEF TaskOK, BeforeCall
  <2> QED
    BY <2>1, QueueEmpty
<1>5. tpc = "ping" => Len(outbound) <= 1
  BY <1>1 DEF TaskOK, BeforePing
<1>6. ASSUME tpc \in {"connect", "publish", "ping"}
      PROVE  Outstanding \in Nat /\ Outstanding <= BUF /\ (tpc # "ping" => Outstanding = 0)
  BY <1>2, <1>3, <1>4, <1>5, <1>6, OnePacketOutstanding
<1>7. CASE tpc \in {"connect", "reconnect"} /\ ConnectToBroker
  <2>1. Operation("connect", Packet("Connect", 0, "QoS0", CONNECT_SIZE), TRUE)
    BY <1>7 DEF ConnectToBroker
  <2>2. tpc = "reconnect" => ~connection
    BY <1>1 DEF TaskOK
  <2>3. connection /\ CONNECT_SIZE <= BUF => Outstanding \in Nat /\ Outstanding + CONNECT_SIZE <= TX
    BY <1>2, <1>6, <1>7, <2>2
  <2> QED
    BY <1>1, <1>2, <2>1, <2>3, UncutOperation
<1>8. CASE tpc = "ping" /\ SendPing
  <2>1. Operation("ping", Packet("Pingreq", 0, "QoS0", 2), TRUE)
    BY <1>8 DEF SendPing
  <2>2. connection /\ 2 <= BUF => Outstanding \in Nat /\ Outstanding + 2 <= TX
    BY <1>2, <1>6, <1>8
  <2> QED
    BY <1>1, <2>1, <2>2, UncutOperation
<1>9. CASE tpc = "disconnect" /\ Disconnect
  <2>1. outbound' = << >>
    BY <1>9 DEF Disconnect, ClosedStream
  <2> QED
    BY <2>1, QueueEmpty DEF Uncut
<1>10. ASSUME tpc = "publish", NEW size \in PublishSizes, SendMessage(qos, size) PROVE Uncut'
  <2>1. Operation("publish", Packet("Publish", NextId, qos, size), qos = "QoS1") /\ size \in Nat
    BY <1>2, <1>10 DEF SendMessage
  <2>2. connection /\ size <= BUF => Outstanding \in Nat /\ Outstanding + size <= TX
    BY <1>2, <1>6, <1>10, <2>1
  <2> QED
    BY <1>1, <2>1, <2>2, UncutOperation
<1> QED
  BY <1>7, <1>8, <1>9, <1>10 DEF TaskCall

(* The task, which subscribes to nothing, has no message to acknowledge. *)
LEMMA TaskNeverAcks ==
    ASSUME MqttInv, PollReturns, app = "task"
    PROVE  outbound' = outbound
<1>1. PICK e : e = EventOf(TypeOf(buffer[1]), Decode(TypeOf(buffer[1]), buffer))
  OBVIOUS
<1>2. rpc = "done" /\ (outbound' = outbound \/ e.kind = "Message")
  BY <1>1, PollClient
<1>3. ClientOK /\ TaskOK
  BY DEF MqttInv, AppOK
<1>4. Aligned
  BY <1>2, <1>3 DEF Aligned, TaskOK
<1>5. Phase
  BY <1>4 DEF MqttInv
<1>6. PICK P : Flight(Stream, P)
  BY <1>4 DEF MqttInv
<1>7. Framing(Stream, P) /\ \A p \in P : ~MessageAt(Stream, p)
  BY <1>6 DEF Flight, TaskFlight
<1>8. 0 \in P
  BY <1>2, <1>3, <1>5, <1>7, FirstPacket
<1>9. e.kind = "Message" => MessageAt(Stream, 0)
  BY <1>1, <1>2, <1>3, <1>5, <1>7, FirstIs
<1> QED
  BY <1>2, <1>7, <1>8, <1>9

LEMMA UncutStep ==
    ASSUME MqttInv, Uncut, [MqttNext]_taskVars, BUF + 2 <= TX
    PROVE  Uncut'
<1> USE DEF appVars, wireVars
<1>1. ASSUME app' = app, outbound' \in {outbound, << >>} PROVE Uncut'
  BY <1>1, QueueEmpty DEF Uncut
<1>2. ASSUME app' = app, app = "library" PROVE Uncut'
  BY <1>2 DEF Uncut
<1>3. ASSUME app' = app, BrokerReads, outbound' = Tail(outbound) PROVE Uncut'
  <2>1. Queue(outbound) /\ outbound # << >>
    BY <1>3 DEF MqttInv, ClientOK, BrokerReads
  <2>2. \A k \in 1..Len(outbound') : k + 1 \in 1..Len(outbound) /\ outbound'[k] = outbound[k + 1]
    BY <1>3, <2>1, QueueTail
  <2> QED
    BY <1>3, <2>2 DEF Uncut
<1>4. CASE UNCHANGED taskVars
  BY <1>1, <1>4 DEF taskVars, clientVars
<1>5. CASE TaskDial
  BY <1>1, <1>5 DEF TaskDial, Dial, ClosedStream
<1>6. CASE TaskCall
  BY <1>6, UncutCall
<1>7. CASE TaskReturn \/ TaskTimer
  BY <1>1, <1>7 DEF TaskReturn, TaskTimer, DropClient, ClosedStream
<1>8. CASE LibraryStep
  BY <1>2, <1>8 DEF LibraryStep, LibraryOpens, LibraryCalls, LibraryReturns, LibraryEnds
<1>9. CASE (Receives \/ PollFails \/ BrokerPublishes \/ BrokerFails) /\ UNCHANGED appVars
  BY <1>1, <1>9 DEF Receives, PollFails, BrokerPublishes, BrokerFails
<1>10. CASE (BrokerAnswers \/ BrokerRefuses) /\ UNCHANGED appVars
  BY <1>3, <1>10 DEF BrokerAnswers, BrokerRefuses
<1>11. CASE PollReturns /\ UNCHANGED appVars
  <2>1. app = "task" => outbound' = outbound
    BY <1>11, TaskNeverAcks
  <2> QED
    BY <1>11, <2>1 DEF Uncut
<1> QED
  BY <1>4, <1>5, <1>6, <1>7, <1>8, <1>9, <1>10, <1>11 DEF MqttNext, TaskStep

(* With a transmit buffer that holds a packet of BUF bytes and a PINGREQ,  *)
(* as the 2048 bytes of TcpClientState do with a BUF_SIZE of 1500, no      *)
(* packet of mqtt_net_task is ever cut by a write conn.send takes for a    *)
(* whole one: the ping before each message sees to it.                     *)
THEOREM NoShortWrites ==
    ASSUME BUF + 2 <= TX
    PROVE  MqttSpec => []NoShortWrite
<1>1. TaskInit => Uncut
  BY QueueEmpty DEF TaskInit, ClientInit, Uncut
<1>2. MqttInv /\ Uncut /\ [MqttNext]_taskVars => Uncut'
  BY UncutStep
<1>3. MqttInv /\ Uncut => NoShortWrite
  <2>1. SUFFICES ASSUME MqttInv, Uncut, app = "task", NEW k \in DOMAIN outbound
                 PROVE  ~outbound[k].cut
    BY DEF NoShortWrite
  <2>2. PICK S : outbound \in Seq(S)
    BY <2>1 DEF MqttInv, ClientOK, Queue
  <2>3. k \in 1..Len(outbound)
    BY <2>1, <2>2
  <2> QED
    BY <2>1, <2>3 DEF Uncut
<1> QED  BY MqttInvariant, <1>1, <1>2, <1>3, PTL DEF MqttSpec
-----------------------------------------------------------------------------
(* Under the client, too, receive_packet keeps its invariant. *)
LEMMA ReceiverStep ==
    ASSUME MqttInv, MqttInv', ReceiveInv, [MqttNext]_taskVars
    PROVE  ReceiveInv'
<1>1. ClientOK' /\ inbound' \in Seq(Nat) /\ peer' \in {"open", "fin", "rst"}
  BY DEF MqttInv, ClientOK
<1>2. CASE UNCHANGED << rpc, position, i, header, target, buffer >>
  BY <1>1, <1>2 DEF ReceiveInv, ReceiveTypeOK, HeaderPhase, NeverOverreads, PanicOnlyOnExcess
<1>3. CASE StartReceive \/ EndReceive
  <2>1. /\ rpc' \in {"header", "off"} /\ position' = 0 /\ i' = 0 /\ header' = 0 /\ target' = 0
        /\ buffer' = << >>
    BY <1>3 DEF StartReceive, EndReceive
  <2> QED
    BY <1>1, <2>1 DEF ReceiveInv, ReceiveTypeOK, HeaderPhase, NeverOverreads, PanicOnlyOnExcess
<1>4. CASE ReceiveStep
  BY <1>4, ReceiveInductive DEF ReceiveNext
<1> DEFINE Receiver == \/ UNCHANGED << rpc, position, i, header, target, buffer >>
                       \/ StartReceive \/ EndReceive \/ ReceiveStep
<1>5. Receiver => ReceiveInv'
  BY <1>2, <1>3, <1>4
<1>6. CASE UNCHANGED taskVars
  BY <1>5, <1>6 DEF taskVars, clientVars, receiveVars
<1>7. CASE Receives \/ PollReturns \/ PollFails
  BY <1>5, <1>7 DEF Receives, PollReturns, PollFails
<1>8. CASE BrokerAnswers \/ BrokerRefuses \/ BrokerPublishes \/ BrokerFails
  BY <1>5, <1>8 DEF BrokerAnswers, BrokerRefuses, BrokerPublishes, BrokerFails
<1>9. CASE TaskDial \/ TaskReturn \/ TaskTimer \/ LibraryOpens \/ LibraryReturns \/ LibraryEnds
  BY <1>5, <1>9 DEF TaskDial, TaskReturn, TaskTimer, LibraryOpens, LibraryReturns, LibraryEnds,
                    Dial, DropClient, ClosedStream, receiveVars
<1>10. ASSUME NEW kind, NEW p, NEW polls, Operation(kind, p, polls) PROVE Receiver
  BY <1>10 DEF Operation
<1>11. ConnectToBroker \/ SendPing \/ SubscribeToTopic \/ UnsubscribeFromTopic => Receiver
  BY <1>10 DEF ConnectToBroker, SendPing, SubscribeToTopic, UnsubscribeFromTopic
<1>12. \A q, size : SendMessage(q, size) => Receiver
  BY <1>10 DEF SendMessage
<1>13. ReceiveMessage \/ Disconnect => Receiver
  BY DEF ReceiveMessage, Disconnect, ClosedStream
<1> HIDE DEF Receiver
<1>14. CASE TaskCall \/ LibraryCalls
  BY <1>5, <1>11, <1>12, <1>13, <1>14 DEF TaskCall, LibraryCalls
<1> QED
  BY <1>6, <1>7, <1>8, <1>9, <1>14 DEF MqttNext, TaskStep, LibraryStep

LEMMA ReceiverAlways == MqttSpec => []ReceiveInv
<1>1. TaskInit => ReceiveInv
  BY DEF TaskInit, ClientInit, ReceiveInit, ReceiveInv, ReceiveTypeOK, HeaderPhase, NeverOverreads,
         PanicOnlyOnExcess
<1>2. MqttInv /\ MqttInv' /\ ReceiveInv /\ [MqttNext]_taskVars => ReceiveInv'
  BY ReceiverStep
<1> QED  BY MqttInvariant, <1>1, <1>2, PTL DEF MqttSpec

(* What is proved of receive_packet with an arbitrary stream holds under   *)
(* the client, where operations start and end it: it panics only on a      *)
(* malformed length or a packet of more than half the buffer, ...          *)
THEOREM ClientPanicsOnlyOnExcess == MqttSpec => []PanicOnlyOnExcess
<1>1. ReceiveInv => PanicOnlyOnExcess
  BY DEF ReceiveInv
<1> QED  BY ReceiverAlways, <1>1, PTL

(* ... and takes the bytes of its packet and no more.                      *)
THEOREM ClientNeverOverreads == MqttSpec => []NeverOverreads
<1>1. ReceiveInv => NeverOverreads
  BY DEF ReceiveInv
<1> QED  BY ReceiverAlways, <1>1, PTL
=============================================================================
