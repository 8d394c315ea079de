---------------------------- MODULE ModbusProofs -----------------------------
(***************************************************************************)
(* Safety of the gateway of module Modbus for any number of requests,      *)
(* ids, devices' late frames and failures.                                 *)
(***************************************************************************)
EXTENDS Modbus, SequenceTheorems, TLAPS

-----------------------------------------------------------------------------
(* Division by a constant, from the quotient and the remainder. *)
LEMMA DivMod ==
  ASSUME NEW m \in Nat \ {0}, NEW t \in Nat
  PROVE  /\ (t % m) \in 0..(m-1)
         /\ (t \div m) \in Nat
         /\ t = m * (t \div m) + (t % m)
  BY Z3

LEMMA MulStep ==
  ASSUME NEW m \in Nat \ {0}, NEW p \in Nat, NEW q \in Nat, p < q
  PROVE  m * p + m <= m * q
<1>1. m * (q - p - 1) >= 0
  BY Z3
<1>2. m * (q - p - 1) = m * q - m * p - m
  BY Z3
<1> QED  BY <1>1, <1>2, Z3

LEMMA ModUnique ==
  ASSUME NEW m \in Nat \ {0}, NEW p \in Nat, NEW q \in Nat, NEW r \in 0..(m-1), NEW s \in 0..(m-1),
         m * p + r = m * q + s
  PROVE  p = q /\ r = s
<1>1. ~(p < q)
  BY MulStep
<1>2. ~(q < p)
  BY MulStep
<1> QED  BY <1>1, <1>2

(* Counting up modulo m. *)
LEMMA ModNext ==
  ASSUME NEW m \in Nat \ {0}, NEW t \in Nat
  PROVE  (t + 1) % m = IF (t % m) = m - 1 THEN 0 ELSE (t % m) + 1
<1> DEFINE q == t \div m
           r == t % m
           p == (t + 1) \div m
           s == (t + 1) % m
<1>1. r \in 0..(m-1) /\ q \in Nat /\ t = m * q + r
  BY DivMod
<1>2. s \in 0..(m-1) /\ p \in Nat /\ t + 1 = m * p + s
  <2>1. t + 1 \in Nat
    OBVIOUS
  <2> QED  BY <2>1, DivMod
<1> HIDE DEF q, r, p, s
<1>3. CASE r = m - 1
  <2>1. m * (q + 1) = m * q + m
    BY <1>1, Z3
  <2>2. m * p + s = m * (q + 1) + 0
    BY <1>1, <1>2, <1>3, <2>1
  <2>3. s = 0
    BY <1>1, <1>2, <2>2, ModUnique
  <2> QED  BY <1>3, <2>3 DEF r, s
<1>4. CASE r # m - 1
  <2>1. m * p + s = m * q + (r + 1) /\ r + 1 \in 0..(m-1)
    BY <1>1, <1>2, <1>4
  <2>2. s = r + 1
    BY <1>1, <1>2, <2>1, ModUnique
  <2> QED  BY <1>4, <2>2 DEF r, s
<1> QED  BY <1>3, <1>4

LEMMA ModSmall ==
  ASSUME NEW m \in Nat \ {0}, NEW r \in 0..(m-1)
  PROVE  r % m = r
<1>1. (r % m) \in 0..(m-1) /\ (r \div m) \in Nat /\ r = m * (r \div m) + (r % m)
  <2>1. r \in Nat
    OBVIOUS
  <2> QED  BY <2>1, DivMod
<1>2. m * 0 + r = m * (r \div m) + (r % m)
  BY <1>1
<1> QED  BY <1>1, <1>2, ModUnique

LEMMA ModNextOf ==
  ASSUME NEW m \in Nat \ {0}, NEW t \in Nat
  PROVE  ((t % m) + 1) % m = (t + 1) % m
<1>1. (t % m) \in 0..(m-1)
  BY DivMod
<1>2. CASE (t % m) = m - 1
  <2>1. (t + 1) % m = 0
    BY <1>2, ModNext
  <2>2. ((t % m) + 1) % m = m % m
    BY <1>2
  <2>3. m % m = 0
    <3>1. (m % m) \in 0..(m-1) /\ (m \div m) \in Nat /\ m = m * (m \div m) + (m % m)
      BY DivMod
    <3>2. m * 1 + 0 = m * (m \div m) + (m % m)
      BY <3>1
    <3> QED  BY <3>1, <3>2, ModUnique
  <2> QED  BY <2>1, <2>2, <2>3
<1>3. CASE (t % m) # m - 1
  <2>1. (t + 1) % m = (t % m) + 1
    BY <1>3, ModNext
  <2>2. (t % m) + 1 \in 0..(m-1)
    BY <1>1, <1>3
  <2> QED  BY <2>1, <2>2, ModSmall
<1> QED  BY <1>2, <1>3

(* Two numbers less than m apart with the same remainder are the same. *)
LEMMA ModSame ==
  ASSUME NEW m \in Nat \ {0}, NEW t \in Nat, NEW n \in Nat, n <= t, t - n < m, (t % m) = (n % m)
  PROVE  n = t
<1> DEFINE q == t \div m
           p == n \div m
           r == t % m
<1>1. r \in 0..(m-1) /\ q \in Nat /\ t = m * q + r
  BY DivMod
<1>2. p \in Nat /\ n = m * p + r
  BY DivMod
<1> HIDE DEF q, p, r
<1>3. ~(p < q)
  <2> SUFFICES ASSUME p < q PROVE FALSE
    OBVIOUS
  <2>1. m * p + m <= m * q
    BY <1>1, <1>2, MulStep
  <2> QED  BY <1>1, <1>2, <2>1
<1>4. ~(q < p)
  <2> SUFFICES ASSUME q < p PROVE FALSE
    OBVIOUS
  <2>1. m * q + m <= m * p
    BY <1>1, <1>2, MulStep
  <2> QED  BY <1>1, <1>2, <2>1
<1> QED  BY <1>1, <1>2, <1>3, <1>4
-----------------------------------------------------------------------------
(* The n-th request of an RTU master: both its id and its tok count the    *)
(* requests, each modulo its range.                                        *)
IdOf(n) == n % (ID_MAX + 1)
TokOf(n) == n % Toks
Request(n) == [id |-> IdOf(n), tok |-> TokOf(n), body |-> << >>]

(* Elements of the TCP stream: ids and lengths, and bytes. *)
Item == Nat \union (Nat \X Nat)

(* What a client build has read of the answer it is reading. *)
Taken == IF pc = "tcp_body" THEN << resp.id, 2 >> \o resp.body ELSE << >>

(* All of the stream that is not dealt with. *)
Stream == Taken \o (tcpIn \o flight)

(* The stream s consists of the whole answers to the requests numbered u. *)
Whole(s, u) ==
    /\ Len(s) = 4 * Len(u)
    /\ \A i \in 1..Len(u) :
         /\ s[4 * i - 3] = IdOf(u[i]) /\ s[4 * i - 2] = 2
         /\ s[4 * i - 1] = << TokOf(u[i]), 1 >> /\ s[4 * i] = << TokOf(u[i]), 2 >>

(* The server has the requests numbered v. *)
Queued(v) ==
    /\ Len(server) = Len(v)
    /\ \A i \in 1..Len(v) : server[i] = Request(v[i])

(* The task has taken request t and not yet sent it. *)
Unsent == IF pc = "tcp_tx" THEN 1 ELSE 0

(* Request t has been sent and its answer not yet been read. *)
Awaited == IF pc \in {"tcp_header", "tcp_body"} THEN 1 ELSE 0

(* Of the answers (u) and requests (v) outstanding, the i-th from the end  *)
(* is for a request at most i - 1 before the last one sent, t - d.         *)
Recent(t, u, v, d) ==
    /\ \A i \in 1..Len(u) : u[i] <= t /\ t <= u[i] + (Len(u) - i) + Len(v) + d
    /\ \A i \in 1..Len(v) : v[i] <= t /\ t <= v[i] + (Len(v) - i) + d

(* Besides the one awaited, as many answers are outstanding as the server  *)
(* has repeated by mistake.                                                *)
Repeated(u, v) == Len(u) + Len(v) <= faults + Awaited

(* Types of what is read of an open connection. *)
StreamTypes ==
    /\ tcpIn \in Seq(Item) /\ flight \in Seq(Item)
    /\ server \in Seq({Request(n) : n \in Nat})
    /\ pc = "tcp_body" => /\ resp.id \in Item
                          /\ resp.body = << >> \/ \E x \in Item : resp.body = << x >>

InStep(t, u, v) ==
    /\ StreamTypes /\ Whole(Stream, u) /\ Queued(v)
    /\ Recent(t, u, v, Unsent) /\ Repeated(u, v)

-----------------------------------------------------------------------------
(* A sequence from its parts. *)
LEMMA SeqParts ==
  ASSUME NEW S, NEW a \in Seq(S)
  PROVE  /\ \A n \in 0..Len(a) :
              /\ SubSeq(a, 1, n) \in Seq(S) /\ SubSeq(a, n + 1, Len(a)) \in Seq(S)
              /\ SubSeq(a, 1, n) \o SubSeq(a, n + 1, Len(a)) = a
         /\ a # << >> => /\ << Head(a) >> \in Seq(S) /\ Tail(a) \in Seq(S)
                         /\ << Head(a) >> \o Tail(a) = a
         /\ Len(a) >= 2 => /\ << a[1], a[2] >> \in Seq(S) /\ SubSeq(a, 3, Len(a)) \in Seq(S)
                           /\ << a[1], a[2] >> \o SubSeq(a, 3, Len(a)) = a
<1>0. Len(a) \in Nat /\ \A i \in 1..Len(a) : a[i] \in S
  BY LenProperties, ElementOfSeq
<1>1. SubSeq(a, 1, Len(a)) = a
  <2>1. /\ SubSeq(a, 1, Len(a)) \in Seq(S)
        /\ Len(SubSeq(a, 1, Len(a))) = IF 1 <= Len(a) THEN Len(a) - 1 + 1 ELSE 0
        /\ \A i \in 1 .. Len(a) - 1 + 1 : SubSeq(a, 1, Len(a))[i] = a[1 + i - 1]
    <3>1. 1 \in Int /\ Len(a) \in Int /\ \A i \in 1..Len(a) : a[i] \in S
      BY <1>0
    <3> QED  BY <3>1, SubSeqProperties
  <2>2. Len(SubSeq(a, 1, Len(a))) = Len(a)
    BY <1>0, <2>1
  <2>3. \A i \in 1..Len(SubSeq(a, 1, Len(a))) : SubSeq(a, 1, Len(a))[i] = a[i]
    BY <1>0, <2>1, <2>2
  <2> QED  BY <2>1, <2>2, <2>3, SeqEqual
<1>2. ASSUME NEW n \in 0..Len(a)
      PROVE  /\ SubSeq(a, 1, n) \in Seq(S) /\ SubSeq(a, n + 1, Len(a)) \in Seq(S)
             /\ Len(SubSeq(a, 1, n)) = n
             /\ \A i \in 1..n : SubSeq(a, 1, n)[i] = a[i]
             /\ SubSeq(a, 1, n) \o SubSeq(a, n + 1, Len(a)) = a
  <2>1. 1 \in Int /\ n \in Int /\ \A i \in 1..n : a[i] \in S
    BY <1>0
  <2>2. /\ SubSeq(a, 1, n) \in Seq(S)
        /\ Len(SubSeq(a, 1, n)) = IF 1 <= n THEN n - 1 + 1 ELSE 0
        /\ \A i \in 1 .. n - 1 + 1 : SubSeq(a, 1, n)[i] = a[1 + i - 1]
    BY <2>1, SubSeqProperties
  <2>3. n + 1 \in Int /\ Len(a) \in Int /\ \A i \in (n + 1)..Len(a) : a[i] \in S
    BY <1>0
  <2>4. SubSeq(a, n + 1, Len(a)) \in Seq(S)
    BY <2>3, SubSeqProperties
  <2>5. 1 \in 1..(Len(a) + 1) /\ n \in (1 - 1)..Len(a) /\ Len(a) \in n..Len(a)
    BY <1>0
  <2>6. SubSeq(a, 1, n) \o SubSeq(a, n + 1, Len(a)) = SubSeq(a, 1, Len(a))
    BY <2>5, ConcatAdjacentSubSeq
  <2>7. Len(SubSeq(a, 1, n)) = n /\ \A i \in 1..n : SubSeq(a, 1, n)[i] = a[i]
    BY <2>2
  <2> QED  BY <1>1, <2>2, <2>4, <2>6, <2>7
<1>3. ASSUME a # << >>
      PROVE  /\ << Head(a) >> \in Seq(S) /\ Tail(a) \in Seq(S)
             /\ << Head(a) >> \o Tail(a) = a
  <2>1. Len(a) >= 1 /\ 1 \in 0..Len(a) /\ 1 \in 1..Len(a)
    BY <1>0, <1>3, EmptySeq
  <2>2. Tail(a) = SubSeq(a, 2, Len(a))
    BY <1>3, TailIsSubSeq
  <2>3. << Head(a) >> = SubSeq(a, 1, 1)
    <3>1. << a[1] >> \in Seq(S) /\ Len(<< a[1] >>) = 1
      BY <1>0, <2>1
    <3>2. SubSeq(a, 1, 1) \in Seq(S) /\ Len(SubSeq(a, 1, 1)) = 1 /\ SubSeq(a, 1, 1)[1] = a[1]
      BY <1>2, <2>1
    <3>3. << a[1] >> = SubSeq(a, 1, 1)
      BY <3>1, <3>2, SeqEqual
    <3> QED  BY <1>3, <3>3
  <2>4. SubSeq(a, 1, 1) \in Seq(S) /\ SubSeq(a, 1 + 1, Len(a)) \in Seq(S)
        /\ SubSeq(a, 1, 1) \o SubSeq(a, 1 + 1, Len(a)) = a
    BY <1>2, <2>1
  <2>5. 1 + 1 = 2
    OBVIOUS
  <2> QED  BY <2>2, <2>3, <2>4, <2>5
<1>4. ASSUME Len(a) >= 2
      PROVE  /\ << a[1], a[2] >> \in Seq(S) /\ SubSeq(a, 3, Len(a)) \in Seq(S)
             /\ << a[1], a[2] >> \o SubSeq(a, 3, Len(a)) = a
  <2>1. 2 \in 0..Len(a) /\ 1 \in 1..2 /\ 2 \in 1..2
    BY <1>0, <1>4
  <2>2. << a[1], a[2] >> \in Seq(S) /\ Len(<< a[1], a[2] >>) = 2
        /\ \A i \in 1..2 : << a[1], a[2] >>[i] = a[i]
    BY <1>0, <1>4
  <2>3. SubSeq(a, 1, 2) \in Seq(S) /\ SubSeq(a, 2 + 1, Len(a)) \in Seq(S)
        /\ Len(SubSeq(a, 1, 2)) = 2 /\ (\A i \in 1..2 : SubSeq(a, 1, 2)[i] = a[i])
        /\ SubSeq(a, 1, 2) \o SubSeq(a, 2 + 1, Len(a)) = a
    BY <1>2, <2>1
  <2>4. << a[1], a[2] >> = SubSeq(a, 1, 2)
    BY <2>2, <2>3, SeqEqual
  <2>5. 2 + 1 = 3
    OBVIOUS
  <2> QED  BY <2>2, <2>3, <2>4, <2>5
<1> QED  BY <1>2, <1>3, <1>4

-----------------------------------------------------------------------------
LEMMA RequestTypes ==
  ASSUME NEW n \in Nat
  PROVE  /\ IdOf(n) \in 0..ID_MAX /\ TokOf(n) \in Nat
         /\ Answer(Request(n)) = << IdOf(n), 2, << TokOf(n), 1 >>, << TokOf(n), 2 >> >>
         /\ Answer(Request(n)) \in Seq(Item)
<1>1. ID_MAX + 1 \in Nat \ {0} /\ Toks \in Nat \ {0}
  BY ModbusAssumption
<1>2. IdOf(n) \in 0..ID_MAX /\ TokOf(n) \in Nat
  <2>1. (n % (ID_MAX + 1)) \in 0..((ID_MAX + 1) - 1) /\ (n % Toks) \in 0..(Toks - 1)
    BY <1>1, DivMod
  <2>2. (ID_MAX + 1) - 1 = ID_MAX /\ 0..(Toks - 1) \subseteq Nat
    BY ModbusAssumption
  <2> QED  BY <2>1, <2>2, Zenon DEF IdOf, TokOf
<1>3. Answer(Request(n)) = << IdOf(n), 2, << TokOf(n), 1 >>, << TokOf(n), 2 >> >>
  BY DEF Answer, Request
<1>4. IdOf(n) \in Item /\ 2 \in Item /\ << TokOf(n), 1 >> \in Item /\ << TokOf(n), 2 >> \in Item
  BY <1>2, ModbusAssumption DEF Item
<1> QED  BY <1>2, <1>3, <1>4

(* Four elements in a row. *)
LEMMA FourItems ==
  ASSUME NEW w, NEW x, NEW y, NEW z
  PROVE  /\ Len(<< w, x, y, z >>) = 4
         /\ << w, x, y, z >>[1] = w /\ << w, x, y, z >>[2] = x
         /\ << w, x, y, z >>[3] = y /\ << w, x, y, z >>[4] = z
  OBVIOUS

(* A stream of whole answers with one more answer at its end. *)
LEMMA WholeMore ==
  ASSUME NEW s \in Seq(Item), NEW u \in Seq(Nat), NEW n \in Nat, Whole(s, u)
  PROVE  /\ s \o Answer(Request(n)) \in Seq(Item)
         /\ Append(u, n) \in Seq(Nat)
         /\ Whole(s \o Answer(Request(n)), Append(u, n))
<1> DEFINE a == Answer(Request(n))
           w == Append(u, n)
           r == s \o a
<1>1. a \in Seq(Item) /\ Len(a) = 4 /\ a[1] = IdOf(n) /\ a[2] = 2
      /\ a[3] = << TokOf(n), 1 >> /\ a[4] = << TokOf(n), 2 >>
  <2>1. a \in Seq(Item) /\ a = << IdOf(n), 2, << TokOf(n), 1 >>, << TokOf(n), 2 >> >>
    BY RequestTypes
  <2> HIDE DEF a
  <2> QED  BY <2>1, FourItems
<1>2. w \in Seq(Nat) /\ Len(w) = Len(u) + 1 /\ (\A i \in 1..Len(u) : w[i] = u[i])
      /\ w[Len(u) + 1] = n
  BY AppendProperties
<1> HIDE DEF a, w
<1>3. r \in Seq(Item) /\ Len(r) = Len(s) + 4
      /\ \A j \in 1..(Len(s) + 4) : r[j] = IF j <= Len(s) THEN s[j] ELSE a[j - Len(s)]
  <2>1. r \in Seq(Item) /\ Len(r) = Len(s) + Len(a)
        /\ \A j \in 1..(Len(s) + Len(a)) : r[j] = IF j <= Len(s) THEN s[j] ELSE a[j - Len(s)]
    BY <1>1, ConcatProperties, Zenon
  <2> QED  BY <1>1, <2>1, Zenon
<1> HIDE DEF r
<1>4. Len(s) = 4 * Len(u) /\ Len(u) \in Nat
  BY LenProperties DEF Whole
<1>5. ASSUME NEW i \in 1..Len(w)
      PROVE  /\ r[4 * i - 3] = IdOf(w[i]) /\ r[4 * i - 2] = 2
             /\ r[4 * i - 1] = << TokOf(w[i]), 1 >> /\ r[4 * i] = << TokOf(w[i]), 2 >>
  <2>1. CASE i \in 1..Len(u)
    <3>1. /\ s[4 * i - 3] = IdOf(u[i]) /\ s[4 * i - 2] = 2
          /\ s[4 * i - 1] = << TokOf(u[i]), 1 >> /\ s[4 * i] = << TokOf(u[i]), 2 >>
      BY <2>1 DEF Whole
    <3>2. \A j \in 1..Len(s) : r[j] = s[j]
      BY <1>3, <1>4
    <3>3. {4 * i - 3, 4 * i - 2, 4 * i - 1, 4 * i} \subseteq 1..Len(s)
      BY <1>4, <2>1
    <3>4. r[4 * i - 3] = s[4 * i - 3] /\ r[4 * i - 2] = s[4 * i - 2]
          /\ r[4 * i - 1] = s[4 * i - 1] /\ r[4 * i] = s[4 * i]
      BY <3>2, <3>3
    <3> QED  BY <1>2, <2>1, <3>1, <3>4, Zenon
  <2>2. CASE i = Len(u) + 1
    <3>1. \A j \in 1..4 : r[Len(s) + j] = a[j]
      <4> TAKE j \in 1..4
      <4>1. Len(s) + j \in 1..(Len(s) + 4) /\ ~(Len(s) + j <= Len(s)) /\ (Len(s) + j) - Len(s) = j
        BY <1>4
      <4> QED  BY <1>3, <4>1, Zenon
    <3>2. /\ 4 * i - 3 = Len(s) + 1 /\ 4 * i - 2 = Len(s) + 2
          /\ 4 * i - 1 = Len(s) + 3 /\ 4 * i = Len(s) + 4
      BY <1>4, <2>2
    <3>3. r[4 * i - 3] = a[1] /\ r[4 * i - 2] = a[2] /\ r[4 * i - 1] = a[3] /\ r[4 * i] = a[4]
      BY <3>1, <3>2
    <3> QED  BY <1>1, <1>2, <2>2, <3>3, Zenon
  <2>3. i \in 1..Len(u) \/ i = Len(u) + 1
    BY <1>2, <1>4
  <2> QED  BY <2>1, <2>2, <2>3, Zenon
<1>6. Whole(r, w)
  BY <1>2, <1>3, <1>4, <1>5 DEF Whole
<1> QED  BY <1>2, <1>3, <1>6 DEF a, w, r

(* The answer a is the one to request n. *)
AnswerTo(a, n) == a[1] = IdOf(n) /\ a[3] = << TokOf(n), 1 >> /\ a[4] = << TokOf(n), 2 >>

(* The first four elements are the answer to the first request. *)
LEMMA WholeLess ==
  ASSUME NEW a \in Seq(Item), Len(a) = 4, NEW s \in Seq(Item), NEW u \in Seq(Nat),
         Whole(a \o s, u)
  PROVE  u # << >> /\ Tail(u) \in Seq(Nat) /\ AnswerTo(a, u[1]) /\ Whole(s, Tail(u))
<1> DEFINE r == a \o s
<1>1. Len(r) = 4 + Len(s) /\ Len(s) \in Nat
      /\ \A j \in 1..(4 + Len(s)) : r[j] = IF j <= 4 THEN a[j] ELSE s[j - 4]
  <2>1. Len(r) = Len(a) + Len(s)
        /\ \A j \in 1..(Len(a) + Len(s)) : r[j] = IF j <= Len(a) THEN a[j] ELSE s[j - Len(a)]
    BY ConcatProperties, Zenon
  <2>2. Len(s) \in Nat
    BY LenProperties
  <2> QED  BY <2>1, <2>2, Zenon
<1>2. Whole(r, u)
  OBVIOUS
<1> HIDE DEF r
<1>3. Len(u) \in Nat \ {0} /\ Len(s) = 4 * (Len(u) - 1)
  BY <1>1, <1>2, LenProperties DEF Whole
<1>4. u # << >>
  BY <1>3
<1> DEFINE w == Tail(u)
<1>5. w \in Seq(Nat) /\ Len(w) = Len(u) - 1 /\ \A i \in 1..Len(w) : w[i] = u[i + 1]
  BY <1>4, HeadTailProperties
<1> HIDE DEF w
<1>6. a[1] = IdOf(u[1]) /\ a[3] = << TokOf(u[1]), 1 >> /\ a[4] = << TokOf(u[1]), 2 >>
  <2>1. r[4 * 1 - 3] = IdOf(u[1]) /\ r[4 * 1 - 1] = << TokOf(u[1]), 1 >>
        /\ r[4 * 1] = << TokOf(u[1]), 2 >>
    <3>1. 1 \in 1..Len(u)
      BY <1>3
    <3> QED  BY <1>2, <3>1, Zenon DEF Whole
  <2>2. \A j \in 1..4 : r[j] = a[j]
    BY <1>1
  <2> QED  BY <2>1, <2>2
<1>7. ASSUME NEW i \in 1..Len(w)
      PROVE  /\ s[4 * i - 3] = IdOf(w[i]) /\ s[4 * i - 2] = 2
             /\ s[4 * i - 1] = << TokOf(w[i]), 1 >> /\ s[4 * i] = << TokOf(w[i]), 2 >>
  <2>1. i + 1 \in 1..Len(u)
    BY <1>3, <1>5
  <2>2. /\ r[4 * (i + 1) - 3] = IdOf(u[i + 1]) /\ r[4 * (i + 1) - 2] = 2
        /\ r[4 * (i + 1) - 1] = << TokOf(u[i + 1]), 1 >>
        /\ r[4 * (i + 1)] = << TokOf(u[i + 1]), 2 >>
    BY <1>2, <2>1 DEF Whole
  <2>3. \A j \in 1..Len(s) : r[j + 4] = s[j]
    <3> TAKE j \in 1..Len(s)
    <3>1. j + 4 \in 1..(4 + Len(s)) /\ ~(j + 4 <= 4) /\ (j + 4) - 4 = j
      BY <1>1
    <3> QED  BY <1>1, <3>1, Zenon
  <2>4. {4 * i - 3, 4 * i - 2, 4 * i - 1, 4 * i} \subseteq 1..Len(s)
    BY <1>3, <1>5
  <2>5. /\ 4 * (i + 1) - 3 = (4 * i - 3) + 4 /\ 4 * (i + 1) - 2 = (4 * i - 2) + 4
        /\ 4 * (i + 1) - 1 = (4 * i - 1) + 4 /\ 4 * (i + 1) = 4 * i + 4
    BY <2>1
  <2> QED  BY <1>5, <2>2, <2>3, <2>4, <2>5
<1>8. Whole(s, w)
  BY <1>3, <1>5, <1>7 DEF Whole
<1> QED  BY <1>4, <1>5, <1>6, <1>8 DEF w, AnswerTo

-----------------------------------------------------------------------------
(* The requests outstanding stay recent: when a request is taken, sent,    *)
(* answered, answered once more, and when an answer is read.               *)
LEMMA RecentTake ==
  ASSUME NEW t \in Nat, NEW u \in Seq(Nat), NEW v \in Seq(Nat), Recent(t, u, v, 0)
  PROVE  Recent(t + 1, u, v, 1)
<1>1. Len(u) \in Nat /\ Len(v) \in Nat /\ (\A i \in 1..Len(u) : u[i] \in Nat)
      /\ \A i \in 1..Len(v) : v[i] \in Nat
  BY LenProperties, ElementOfSeq
<1>2. \A i \in 1..Len(u) : u[i] <= t + 1 /\ t + 1 <= u[i] + (Len(u) - i) + Len(v) + 1
  <2> TAKE i \in 1..Len(u)
  <2>1. u[i] \in Nat /\ u[i] <= t /\ t <= u[i] + (Len(u) - i) + Len(v) + 0
    BY <1>1 DEF Recent
  <2> QED  BY <1>1, <2>1
<1>3. \A i \in 1..Len(v) : v[i] <= t + 1 /\ t + 1 <= v[i] + (Len(v) - i) + 1
  <2> TAKE i \in 1..Len(v)
  <2>1. v[i] \in Nat /\ v[i] <= t /\ t <= v[i] + (Len(v) - i) + 0
    BY <1>1 DEF Recent
  <2> QED  BY <1>1, <2>1
<1> QED  BY <1>2, <1>3 DEF Recent

LEMMA RecentSend ==
  ASSUME NEW t \in Nat, NEW u \in Seq(Nat), NEW v \in Seq(Nat), Recent(t, u, v, 1)
  PROVE  Recent(t, u, Append(v, t), 0)
<1> DEFINE w == Append(v, t)
<1>1. Len(u) \in Nat /\ Len(v) \in Nat /\ (\A i \in 1..Len(u) : u[i] \in Nat)
      /\ \A i \in 1..Len(v) : v[i] \in Nat
  BY LenProperties, ElementOfSeq
<1>2. Len(w) = Len(v) + 1 /\ (\A i \in 1..Len(v) : w[i] = v[i]) /\ w[Len(v) + 1] = t
  BY AppendProperties
<1> HIDE DEF w
<1>3. \A i \in 1..Len(u) : u[i] <= t /\ t <= u[i] + (Len(u) - i) + Len(w) + 0
  BY <1>1, <1>2 DEF Recent
<1>4. ASSUME NEW i \in 1..Len(w) PROVE w[i] <= t /\ t <= w[i] + (Len(w) - i) + 0
  <2>1. CASE i \in 1..Len(v)
    <3>1. v[i] \in Nat /\ v[i] <= t /\ t <= v[i] + (Len(v) - i) + 1 /\ w[i] = v[i]
      BY <1>1, <1>2, <2>1 DEF Recent
    <3> QED  BY <1>1, <1>2, <2>1, <3>1
  <2>2. CASE i = Len(v) + 1
    BY <1>1, <1>2, <2>2
  <2> QED  BY <1>1, <1>2, <2>1, <2>2
<1>5. Recent(t, u, w, 0)
  BY <1>3, <1>4 DEF Recent
<1> QED  BY <1>5 DEF w

LEMMA RecentAnswer ==
  ASSUME NEW t \in Nat, NEW u \in Seq(Nat), NEW v \in Seq(Nat), NEW d \in Nat,
         v # << >>, Recent(t, u, v, d)
  PROVE  Recent(t, Append(u, Head(v)), Tail(v), d)
<1> DEFINE h == Head(v)
           w == Tail(v)
           x == Append(u, h)
<1>1. Len(u) \in Nat /\ Len(v) \in Nat \ {0} /\ (\A i \in 1..Len(u) : u[i] \in Nat)
      /\ (\A i \in 1..Len(v) : v[i] \in Nat) /\ h = v[1] /\ h \in Nat
  BY LenProperties, ElementOfSeq, EmptySeq, HeadTailProperties
<1>2. Len(w) = Len(v) - 1 /\ \A i \in 1..Len(w) : w[i] = v[i + 1]
  BY HeadTailProperties
<1>3. Len(x) = Len(u) + 1 /\ (\A i \in 1..Len(u) : x[i] = u[i]) /\ x[Len(u) + 1] = h
  BY <1>1, AppendProperties
<1> HIDE DEF h, w, x
<1>4. ASSUME NEW i \in 1..Len(x) PROVE x[i] <= t /\ t <= x[i] + (Len(x) - i) + Len(w) + d
  <2>1. CASE i \in 1..Len(u)
    <3>1. u[i] \in Nat /\ u[i] <= t /\ t <= u[i] + (Len(u) - i) + Len(v) + d /\ x[i] = u[i]
      BY <1>1, <1>3, <2>1 DEF Recent
    <3>2. Len(x) = Len(u) + 1 /\ Len(w) = Len(v) - 1 /\ Len(u) \in Nat /\ Len(v) \in Nat
      BY <1>1, <1>2, <1>3
    <3>3. i \in Nat
      BY <2>1, <3>2
    <3>4. \A n, l, k, j, e \in Nat : n + (l - j) + k + e = n + ((l + 1) - j) + (k - 1) + e
      OBVIOUS
    <3>5. u[i] + (Len(u) - i) + Len(v) + d = u[i] + ((Len(u) + 1) - i) + (Len(v) - 1) + d
      BY <3>1, <3>2, <3>3, <3>4
    <3> QED  BY <3>1, <3>2, <3>5, Zenon
  <2>2. CASE i = Len(u) + 1
    <3>1. 1 \in 1..Len(v)
      BY <1>1
    <3>2. v[1] <= t /\ t <= v[1] + (Len(v) - 1) + d /\ x[i] = v[1] /\ v[1] \in Nat
      BY <1>1, <1>3, <2>2, <3>1 DEF Recent
    <3>3. Len(x) - i = 0 /\ Len(w) = Len(v) - 1 /\ Len(v) \in Nat
      BY <1>1, <1>2, <1>3, <2>2
    <3> QED  BY <3>2, <3>3
  <2> QED  BY <1>1, <1>3, <2>1, <2>2
<1>5. ASSUME NEW i \in 1..Len(w) PROVE w[i] <= t /\ t <= w[i] + (Len(w) - i) + d
  <2>1. i + 1 \in 1..Len(v)
    BY <1>1, <1>2
  <2>2. v[i + 1] \in Nat /\ v[i + 1] <= t /\ t <= v[i + 1] + (Len(v) - (i + 1)) + d
    BY <1>1, <2>1 DEF Recent
  <2>3. w[i] = v[i + 1] /\ Len(w) = Len(v) - 1 /\ Len(v) \in Nat
    BY <1>1, <1>2
  <2> QED  BY <2>2, <2>3
<1>6. Recent(t, x, w, d)
  BY <1>4, <1>5 DEF Recent
<1> QED  BY <1>6 DEF h, w, x

LEMMA RecentRepeat ==
  ASSUME NEW t \in Nat, NEW u \in Seq(Nat), NEW v \in Seq(Nat), NEW d \in Nat,
         NEW h \in Nat, Recent(t, Append(u, h), v, d)
  PROVE  Recent(t, Append(Append(u, h), h), v, d)
<1> DEFINE x == Append(u, h)
           y == Append(x, h)
<1>1. x \in Seq(Nat) /\ Len(u) \in Nat /\ Len(x) = Len(u) + 1 /\ x[Len(u) + 1] = h
  BY LenProperties, AppendProperties
<1>2. Recent(t, x, v, d)
  OBVIOUS
<1> HIDE DEF x
<1>3. Len(y) = Len(x) + 1 /\ (\A i \in 1..Len(x) : y[i] = x[i]) /\ y[Len(x) + 1] = h
  BY <1>1, AppendProperties
<1>4. Len(v) \in Nat /\ \A i \in 1..Len(x) : x[i] \in Nat
  BY <1>1, LenProperties, ElementOfSeq
<1> HIDE DEF y
<1>5. ASSUME NEW i \in 1..Len(y) PROVE y[i] <= t /\ t <= y[i] + (Len(y) - i) + Len(v) + d
  <2>1. CASE i \in 1..Len(x)
    <3>1. x[i] \in Nat /\ x[i] <= t /\ t <= x[i] + (Len(x) - i) + Len(v) + d /\ y[i] = x[i]
      BY <1>2, <1>3, <1>4, <2>1 DEF Recent
    <3>2. Len(y) = Len(x) + 1 /\ Len(x) \in Nat /\ Len(v) \in Nat
      BY <1>1, <1>3, <1>4
    <3> QED  BY <2>1, <3>1, <3>2
  <2>2. CASE i = Len(x) + 1
    <3>1. Len(x) \in 1..Len(x)
      BY <1>1
    <3>2. x[Len(x)] <= t /\ t <= x[Len(x)] + (Len(x) - Len(x)) + Len(v) + d
      BY <1>2, <3>1 DEF Recent
    <3> QED  BY <1>1, <1>3, <1>4, <2>2, <3>2
  <2> QED  BY <1>1, <1>3, <2>1, <2>2
<1>6. Recent(t, y, v, d)
  BY <1>2, <1>5 DEF Recent
<1> QED  BY <1>6 DEF x, y

LEMMA RecentRead ==
  ASSUME NEW t \in Nat, NEW u \in Seq(Nat), NEW v \in Seq(Nat), NEW d \in Nat,
         u # << >>, Recent(t, u, v, d)
  PROVE  Recent(t, Tail(u), v, d)
<1> DEFINE w == Tail(u)
<1>1. Len(w) = Len(u) - 1 /\ \A i \in 1..Len(w) : w[i] = u[i + 1]
  BY HeadTailProperties
<1>2. Len(u) \in Nat /\ Len(v) \in Nat /\ (\A i \in 1..Len(u) : u[i] \in Nat)
  BY LenProperties, ElementOfSeq
<1> HIDE DEF w
<1>3. ASSUME NEW i \in 1..Len(w) PROVE w[i] <= t /\ t <= w[i] + (Len(w) - i) + Len(v) + d
  <2>1. i + 1 \in 1..Len(u)
    BY <1>1, <1>2
  <2>2. u[i + 1] \in Nat /\ u[i + 1] <= t /\ t <= u[i + 1] + (Len(u) - (i + 1)) + Len(v) + d
    BY <1>2, <2>1 DEF Recent
  <2>3. w[i] = u[i + 1] /\ Len(w) = Len(u) - 1 /\ Len(u) \in Nat /\ Len(v) \in Nat
    BY <1>1, <1>2
  <2> QED  BY <2>2, <2>3
<1>4. Recent(t, w, v, d)
  BY <1>3 DEF Recent
<1> QED  BY <1>4 DEF w

-----------------------------------------------------------------------------
(* Items in a row. *)
LEMMA Rows ==
  /\ \A a, b, c \in Seq(Item) : (a \o b) \o c = a \o (b \o c)
  /\ \A a, b \in Seq(Item) : a \o b \in Seq(Item)
  /\ \A a \in Seq(Item) : << >> \o a = a /\ a \o << >> = a
  /\ << >> \in Seq(Item)
  /\ \A x \in Item : << x >> \in Seq(Item) /\ Append(<< >>, x) = << x >>
  /\ \A x, y \in Item : Append(<< x >>, y) = << x, y >> /\ << x, y >> \in Seq(Item)
                         /\ << x >> \o << y >> = << x, y >>
<1>1. ASSUME NEW a \in Seq(Item), NEW b \in Seq(Item), NEW c \in Seq(Item)
      PROVE  (a \o b) \o c = a \o (b \o c) /\ a \o b \in Seq(Item)
             /\ << >> \o a = a /\ a \o << >> = a
  BY ConcatAssociative, ConcatProperties, ConcatEmptySeq
<1>2. << >> \in Seq(Item)
  OBVIOUS
<1>3. ASSUME NEW x \in Item PROVE << x >> \in Seq(Item) /\ Append(<< >>, x) = << x >>
  <2>1. << x >> \in Seq(Item) /\ << >> \in Seq(Item)
    OBVIOUS
  <2>2. Append(<< >>, x) = << >> \o << x >>
    BY <2>1, AppendIsConcat
  <2> QED  BY <1>1, <2>1, <2>2
<1>4. ASSUME NEW x \in Item, NEW y \in Item
      PROVE  Append(<< x >>, y) = << x, y >> /\ << x, y >> \in Seq(Item)
             /\ << x >> \o << y >> = << x, y >>
  <2>1. << x, y >> \in Seq(Item) /\ << x >> \in Seq(Item) /\ Len(<< x >>) = 1
    OBVIOUS
  <2> DEFINE a == Append(<< x >>, y)
             b == << x, y >>
  <2>2. a \in Seq(Item) /\ Len(a) = 1 + 1 /\ a[1 + 1] = y /\ \A i \in 1..1 : a[i] = << x >>[i]
    BY <2>1, AppendProperties
  <2>3. Len(b) = 2 /\ b[1] = x /\ b[2] = y /\ << x >>[1] = x
    OBVIOUS
  <2> HIDE DEF a, b
  <2>4. Len(a) = 2 /\ a[1] = x /\ a[2] = y
    BY <2>2, <2>3
  <2>5. a = b
    <3>1. \A i \in 1..Len(a) : a[i] = b[i]
      BY <2>3, <2>4
    <3>2. a \in Seq(Item) /\ b \in Seq(Item)
      BY <2>1, <2>2 DEF b
    <3> QED  BY <2>3, <2>4, <3>1, <3>2, SeqEqual
  <2>6. Append(<< x >>, y) = << x >> \o << y >>
    BY <2>1, AppendIsConcat
  <2> QED  BY <2>1, <2>5, <2>6 DEF a, b
<1> QED  BY <1>1, <1>2, <1>3, <1>4

LEMMA RowsAssoc == \A a, b, c \in Seq(Item) : (a \o b) \o c = a \o (b \o c)
  BY Rows

LEMMA RowsClosed == \A a, b \in Seq(Item) : a \o b \in Seq(Item)
  BY Rows

(* The stream as a sequence of items. *)
LEMMA StreamSeq ==
  ASSUME StreamTypes
  PROVE  Taken \in Seq(Item) /\ tcpIn \o flight \in Seq(Item) /\ Stream \in Seq(Item)
<1>1. tcpIn \o flight \in Seq(Item)
  BY ConcatProperties DEF StreamTypes
<1>2. Taken \in Seq(Item)
  <2>1. CASE pc = "tcp_body"
    <3>1. 2 \in Item
      BY DEF Item
    <3>2. << resp.id, 2 >> \in Seq(Item) /\ resp.body \in Seq(Item)
      BY <2>1, <3>1, Rows, Zenon DEF StreamTypes
    <3> QED  BY <2>1, <3>2, ConcatProperties DEF Taken
  <2>2. CASE pc # "tcp_body"
    BY <2>2 DEF Taken
  <2> QED  BY <2>1, <2>2
<1> QED  BY <1>1, <1>2, ConcatProperties DEF Stream

-----------------------------------------------------------------------------
(* A step that leaves the stream alone. *)
LEMMA KeptStep ==
  ASSUME NEW t, NEW u, NEW v, InStep(t, u, v),
         UNCHANGED << tcpIn, flight, server >>,
         \/ UNCHANGED << pc, resp >>
         \/ {pc, pc'} \intersect {"tcp_tx", "tcp_header", "tcp_body"} = {},
         faults \in Nat, faults' \in Nat, faults' >= faults,
         u \in Seq(Nat), v \in Seq(Nat)
  PROVE  InStep(t, u, v)'
<1>1. Taken' = Taken /\ Unsent' = Unsent /\ Awaited' = Awaited
  BY DEF Taken, Unsent, Awaited
<1>2. Stream' = Stream
  BY <1>1 DEF Stream
<1>3. StreamTypes'
  BY DEF InStep, StreamTypes
<1>4. Repeated(u, v)'
  <2>1. Len(u) \in Nat /\ Len(v) \in Nat /\ Awaited \in Nat
    BY LenProperties DEF Awaited
  <2> QED  BY <1>1, <2>1 DEF InStep, Repeated
<1> QED  BY <1>1, <1>2, <1>3, <1>4 DEF InStep, Queued

(* A request of the RTU master: the answers outstanding are older by one. *)
LEMMA ListenStep ==
  ASSUME NEW t \in Nat, COUNTER = IdOf(t), req = Request(t), ClientListen
  PROVE  /\ COUNTER' = IdOf(t + 1) /\ req' = Request(t + 1)
         /\ \A u, v \in Seq(Nat) : InStep(t, u, v) => InStep(t + 1, u, v)'
<1>1. ID_MAX + 1 \in Nat \ {0} /\ Toks \in Nat \ {0} /\ ID_MAX \in Nat
  BY ModbusAssumption
<1>2. COUNTER' = IdOf(t + 1)
  <2>1. COUNTER' = IF COUNTER = ID_MAX THEN 0 ELSE COUNTER + 1
    BY DEF ClientListen, ConvertRtuRequest, increment_transaction_id
  <2>2. (t + 1) % (ID_MAX + 1)
          = IF (t % (ID_MAX + 1)) = (ID_MAX + 1) - 1 THEN 0 ELSE (t % (ID_MAX + 1)) + 1
    BY <1>1, ModNext
  <2>3. (ID_MAX + 1) - 1 = ID_MAX
    BY <1>1
  <2> QED  BY <2>1, <2>2, <2>3, Zenon DEF IdOf
<1>3. req' = Request(t + 1)
  <2>1. req' = [id |-> COUNTER', tok |-> (req.tok + 1) % Toks, body |-> << >>]
    BY DEF ClientListen, ConvertRtuRequest, Take
  <2>2. (req.tok + 1) % Toks = TokOf(t + 1)
    <3>1. req.tok = (t % Toks)
      BY DEF Request, TokOf
    <3>2. ((t % Toks) + 1) % Toks = (t + 1) % Toks
      BY <1>1, ModNextOf
    <3> QED  BY <3>1, <3>2, Zenon DEF TokOf
  <2> QED  BY <1>2, <2>1, <2>2, Zenon DEF Request
<1>4. ASSUME NEW u \in Seq(Nat), NEW v \in Seq(Nat), InStep(t, u, v)
      PROVE  InStep(t + 1, u, v)'
  <2>1. pc = "listen" /\ pc' = "tcp_tx" /\ UNCHANGED << tcpIn, flight, server, faults >>
    BY DEF ClientListen, tcpVars
  <2>2. Stream' = Stream /\ Unsent = 0 /\ Unsent' = 1 /\ Awaited' = Awaited
    BY <2>1 DEF Stream, Taken, Unsent, Awaited
  <2>3. StreamTypes' /\ Queued(v)' /\ Repeated(u, v)'
    BY <1>4, <2>1, <2>2 DEF InStep, StreamTypes, Queued, Repeated
  <2>4. Recent(t + 1, u, v, 1)
    BY <1>4, <2>2, RecentTake DEF InStep
  <2> QED  BY <1>4, <2>2, <2>3, <2>4 DEF InStep
<1> QED  BY <1>2, <1>3, <1>4

(* The request is sent to the server. *)
LEMMA SendStep ==
  ASSUME NEW t \in Nat, req = Request(t), build = "client", peer = "open", TcpSend,
         faults \in Nat, NEW u \in Seq(Nat), NEW v \in Seq(Nat), InStep(t, u, v)
  PROVE  \E w \in Seq(Nat) : InStep(t, u, w)'
<1>1. pc = "tcp_tx" /\ pc' = "tcp_header" /\ server' = Append(server, req)
      /\ UNCHANGED << tcpIn, flight, faults >>
  BY DEF TcpSend
<1>2. Stream' = Stream /\ Unsent = 1 /\ Unsent' = 0 /\ Awaited = 0 /\ Awaited' = 1
  BY <1>1 DEF Stream, Taken, Unsent, Awaited
<1> DEFINE w == Append(v, t)
<1>3. w \in Seq(Nat) /\ Len(w) = Len(v) + 1 /\ (\A i \in 1..Len(v) : w[i] = v[i])
      /\ w[Len(v) + 1] = t /\ Len(v) \in Nat /\ Len(u) \in Nat
  BY AppendProperties, LenProperties
<1>4. Recent(t, u, w, 0)
  BY <1>2, RecentSend DEF InStep
<1> HIDE DEF w
<1> DEFINE R == {Request(n) : n \in Nat}
<1>5. server \in Seq(R) /\ req \in R
  BY DEF InStep, StreamTypes
<1> HIDE DEF R
<1>6. /\ server' \in Seq(R) /\ Len(server') = Len(server) + 1
      /\ (\A i \in 1..Len(server) : server'[i] = server[i]) /\ server'[Len(server) + 1] = req
  BY <1>1, <1>5, AppendProperties
<1>7. Queued(w)'
  <2>1. Len(server) = Len(v) /\ \A i \in 1..Len(v) : server[i] = Request(v[i])
    BY DEF InStep, Queued
  <2>2. ASSUME NEW i \in 1..Len(w) PROVE server'[i] = Request(w[i])
    <3>1. CASE i \in 1..Len(v)
      BY <1>3, <1>6, <2>1, <3>1
    <3>2. CASE i = Len(v) + 1
      BY <1>3, <1>6, <2>1, <3>2
    <3> QED  BY <1>3, <3>1, <3>2
  <2>3. Len(server') = Len(w)
    BY <1>3, <1>6, <2>1
  <2> QED  BY <2>2, <2>3 DEF Queued
<1>8. StreamTypes'
  BY <1>1, <1>6 DEF InStep, StreamTypes, R
<1>9. Repeated(u, w)'
  BY <1>1, <1>2, <1>3 DEF InStep, Repeated
<1> QED  BY <1>2, <1>3, <1>4, <1>7, <1>8, <1>9 DEF InStep

(* A part of the stream arrives. *)
LEMMA DeliverStep ==
  ASSUME NEW t, NEW u, NEW v, InStep(t, u, v), Deliver
  PROVE  InStep(t, u, v)'
<1>1. tcpIn \in Seq(Item) /\ flight \in Seq(Item)
  BY DEF InStep, StreamTypes
<1>2. PICK n \in 1..Len(flight) : /\ tcpIn' = tcpIn \o SubSeq(flight, 1, n)
                                 /\ flight' = SubSeq(flight, n + 1, Len(flight))
  BY DEF Deliver
<1>3. UNCHANGED << pc, resp, server, faults >>
  BY DEF Deliver, gatewayVars
<1>4. /\ SubSeq(flight, 1, n) \in Seq(Item) /\ SubSeq(flight, n + 1, Len(flight)) \in Seq(Item)
      /\ SubSeq(flight, 1, n) \o SubSeq(flight, n + 1, Len(flight)) = flight
  <2>1. n \in 0..Len(flight)
    BY <1>1
  <2> QED  BY <1>1, <2>1, SeqParts
<1>5. tcpIn' \in Seq(Item) /\ flight' \in Seq(Item) /\ tcpIn' \o flight' = tcpIn \o flight
  <2> DEFINE a == SubSeq(flight, 1, n)
             b == SubSeq(flight, n + 1, Len(flight))
  <2>1. a \in Seq(Item) /\ b \in Seq(Item) /\ a \o b = flight /\ tcpIn' = tcpIn \o a /\ flight' = b
    BY <1>2, <1>4
  <2> HIDE DEF a, b
  <2>2. (tcpIn \o a) \o b = tcpIn \o (a \o b)
    BY <1>1, <2>1, RowsAssoc, Zenon
  <2>3. tcpIn \o a \in Seq(Item)
    BY <1>1, <2>1, RowsClosed, Zenon
  <2> QED  BY <2>1, <2>2, <2>3
<1>6. Stream' = Stream /\ Unsent' = Unsent /\ Awaited' = Awaited
  BY <1>3, <1>5 DEF Stream, Taken, Unsent, Awaited
<1>7. StreamTypes'
  BY <1>3, <1>5 DEF InStep, StreamTypes
<1> QED  BY <1>3, <1>6, <1>7 DEF InStep, Queued, Repeated

(* The server answers, once or twice. *)
LEMMA AnswerStep ==
  ASSUME NEW t \in Nat, NEW u \in Seq(Nat), NEW v \in Seq(Nat), InStep(t, u, v),
         TcpServerAnswers, faults \in Nat
  PROVE  \E x, w \in Seq(Nat) : InStep(t, x, w)'
<1>1. server # << >> /\ server' = Tail(server) /\ UNCHANGED << pc, resp, tcpIn >>
  BY DEF TcpServerAnswers, gatewayVars
<1>2. Unsent' = Unsent /\ Awaited' = Awaited /\ Taken' = Taken /\ Unsent \in Nat /\ Awaited \in Nat
  BY <1>1 DEF Unsent, Awaited, Taken
<1>3. Len(server) = Len(v) /\ (\A i \in 1..Len(v) : server[i] = Request(v[i]))
      /\ server \in Seq({Request(n) : n \in Nat})
  BY DEF InStep, Queued, StreamTypes
<1>4. v # << >> /\ Len(v) \in Nat \ {0} /\ Len(u) \in Nat
  <2>1. Len(server) \in Nat \ {0}
    BY <1>1, <1>3, EmptySeq
  <2> QED  BY <1>3, <2>1, LenProperties
<1> DEFINE h == Head(v)
           w == Tail(v)
<1>5. h \in Nat /\ h = v[1] /\ w \in Seq(Nat) /\ Len(w) = Len(v) - 1
      /\ \A i \in 1..Len(w) : w[i] = v[i + 1]
  BY <1>4, HeadTailProperties
<1>6. Head(server) = Request(h)
  <2>1. 1 \in 1..Len(v) /\ Head(server) = server[1]
    BY <1>1, <1>3, <1>4
  <2> QED  BY <1>3, <1>5, <2>1
<1>7. Recent(t, Append(u, h), w, Unsent) /\ Recent(t, Append(Append(u, h), h), w, Unsent)
  <2>1. Recent(t, Append(u, h), w, Unsent)
    BY <1>2, <1>4, RecentAnswer DEF InStep
  <2> HIDE DEF h, w
  <2> QED  BY <1>2, <1>5, <2>1, RecentRepeat
<1> HIDE DEF h, w
<1>8. Queued(w)' /\ server' \in Seq({Request(n) : n \in Nat})
  <2> DEFINE R == {Request(n) : n \in Nat}
  <2>1. server \in Seq(R)
    BY <1>3
  <2> HIDE DEF R
  <2>2. server' \in Seq(R) /\ Len(server') = Len(server) - 1
        /\ \A i \in 1..Len(server') : server'[i] = server[i + 1]
    BY <1>1, <2>1, HeadTailProperties
  <2>3. Len(server') = Len(w)
    BY <1>3, <1>5, <2>2
  <2>4. ASSUME NEW i \in 1..Len(w) PROVE server'[i] = Request(w[i])
    <3>1. i + 1 \in 1..Len(v)
      BY <1>4, <1>5
    <3> QED  BY <1>3, <1>5, <2>2, <2>3, <3>1
  <2>5. Queued(w)'
    BY <2>3, <2>4 DEF Queued
  <2> QED  BY <2>2, <2>5 DEF R
<1>9. tcpIn \in Seq(Item) /\ flight \in Seq(Item) /\ Taken \in Seq(Item) /\ Stream \in Seq(Item)
      /\ Whole(Stream, u)
  BY StreamSeq DEF InStep, StreamTypes
<1> DEFINE a == Answer(Request(h))
           x == Append(u, h)
           y == Append(x, h)
<1>10. /\ a \in Seq(Item)
       /\ x \in Seq(Nat) /\ y \in Seq(Nat) /\ Len(x) = Len(u) + 1 /\ Len(y) = Len(u) + 2
       /\ Stream \o a \in Seq(Item) /\ Whole(Stream \o a, x) /\ Whole((Stream \o a) \o a, y)
  <2>1. a \in Seq(Item)
    BY <1>5, RequestTypes
  <2>2. Stream \o a \in Seq(Item) /\ x \in Seq(Nat) /\ Whole(Stream \o a, x) /\ Len(x) = Len(u) + 1
    BY <1>5, <1>9, WholeMore, AppendProperties
  <2> HIDE DEF x
  <2>3. y \in Seq(Nat) /\ Whole((Stream \o a) \o a, y) /\ Len(y) = Len(x) + 1
    BY <1>5, <2>2, WholeMore, AppendProperties
  <2> HIDE DEF y, a
  <2> QED  BY <1>4, <2>1, <2>2, <2>3
<1> HIDE DEF a
<1>11. /\ flight \o a \in Seq(Item) /\ (flight \o a) \o a \in Seq(Item)
       /\ Taken \o (tcpIn \o (flight \o a)) = Stream \o a
       /\ Taken \o (tcpIn \o ((flight \o a) \o a)) = (Stream \o a) \o a
  <2>0. \A f \in Seq(Item) : f \o a \in Seq(Item) /\ tcpIn \o f \in Seq(Item)
    BY <1>9, <1>10, RowsClosed, Zenon
  <2>1. ASSUME NEW f \in Seq(Item) PROVE tcpIn \o (f \o a) = (tcpIn \o f) \o a
    <3>1. tcpIn \in Seq(Item) /\ a \in Seq(Item)
      BY <1>9, <1>10
    <3> QED  BY <3>1, RowsAssoc, Zenon
  <2>2. \A f \in Seq(Item) : Taken \o (f \o a) = (Taken \o f) \o a
    BY <1>9, <1>10, RowsAssoc, Zenon
  <2>3. \A f \in Seq(Item) : Taken \o (tcpIn \o (f \o a)) = (Taken \o (tcpIn \o f)) \o a
    BY <2>0, <2>1, <2>2
  <2> QED  BY <1>9, <2>0, <2>3 DEF Stream
<1>12. CASE flight' = flight \o Answer(Head(server)) /\ UNCHANGED faults
  <2>1. flight' = flight \o a
    BY <1>6, <1>12 DEF a
  <2>2. Stream' = Stream \o a
    BY <1>1, <1>2, <1>11, <2>1 DEF Stream
  <2>3. StreamTypes'
    BY <1>1, <1>8, <1>11, <2>1 DEF InStep, StreamTypes
  <2>4. Repeated(x, w)'
    BY <1>2, <1>4, <1>5, <1>10, <1>12 DEF InStep, Repeated
  <2>5. InStep(t, x, w)'
    BY <1>2, <1>7, <1>8, <1>10, <2>2, <2>3, <2>4 DEF InStep
  <2> QED  BY <1>5, <1>10, <2>5
<1>13. CASE flight' = flight \o Answer(Head(server)) \o Answer(Head(server)) /\ Fault
  <2>1. flight' = (flight \o a) \o a /\ faults' = faults + 1
    BY <1>6, <1>13 DEF a, Fault
  <2>2. Stream' = (Stream \o a) \o a
    BY <1>1, <1>2, <1>11, <2>1 DEF Stream
  <2>3. StreamTypes'
    BY <1>1, <1>8, <1>11, <2>1 DEF InStep, StreamTypes
  <2>4. Repeated(y, w)'
    BY <1>2, <1>4, <1>5, <1>10, <2>1 DEF InStep, Repeated
  <2>5. InStep(t, y, w)'
    BY <1>2, <1>7, <1>8, <1>10, <2>2, <2>3, <2>4 DEF InStep
  <2> QED  BY <1>5, <1>10, <2>5
<1> QED  BY <1>12, <1>13 DEF TcpServerAnswers

(* The header of an answer is read: the first two items, which are its id  *)
(* and its length.                                                         *)
LEMMA HeaderStep ==
  ASSUME NEW t \in Nat, NEW u \in Seq(Nat), NEW v \in Seq(Nat), InStep(t, u, v),
         TcpHeader, peer = "open", pc' # "reset"
  PROVE  InStep(t, u, v)'
<1>1. /\ pc = "tcp_header" /\ Len(tcpIn) >= 2 /\ pc' = "tcp_body"
      /\ resp' = [id |-> tcpIn[1], tok |-> req.tok, body |-> << >>]
      /\ tcpIn' = SubSeq(tcpIn, 3, Len(tcpIn))
      /\ UNCHANGED << flight, server, faults >>
  BY DEF TcpHeader, Return
<1>2. tcpIn \in Seq(Item) /\ flight \in Seq(Item) /\ Len(tcpIn) \in Nat
  BY LenProperties DEF InStep, StreamTypes
<1>3. /\ << tcpIn[1], tcpIn[2] >> \in Seq(Item) /\ tcpIn' \in Seq(Item)
      /\ << tcpIn[1], tcpIn[2] >> \o tcpIn' = tcpIn /\ tcpIn[1] \in Item
  BY <1>1, <1>2, SeqParts, ElementOfSeq
<1>4. Taken = << >> /\ Stream = tcpIn \o flight
  <2>1. Taken = << >>
    BY <1>1 DEF Taken
  <2> QED  BY <1>2, <2>1, Rows DEF Stream
<1>5. tcpIn[2] = 2
  <2>1. (tcpIn \o flight)[2] = tcpIn[2] /\ Len(tcpIn \o flight) >= 2
    BY <1>1, <1>2, ConcatProperties, LenProperties
  <2>2. Whole(tcpIn \o flight, u) /\ Len(u) \in Nat
    BY <1>4, LenProperties DEF InStep
  <2>3. 1 \in 1..Len(u)
    BY <2>1, <2>2 DEF Whole
  <2>4. (tcpIn \o flight)[4 * 1 - 2] = 2
    BY <2>2, <2>3, Zenon DEF Whole
  <2> QED  BY <2>1, <2>4
<1>6. Taken' = << tcpIn[1], tcpIn[2] >>
  <2>1. Taken' = << tcpIn[1], 2 >> \o << >>
    BY <1>1 DEF Taken
  <2> QED  BY <1>3, <1>5, <2>1, Rows
<1>7. Stream' = Stream
  <2> DEFINE a == << tcpIn[1], tcpIn[2] >>
  <2>1. a \in Seq(Item) /\ a \o tcpIn' = tcpIn /\ Taken' = a /\ flight' = flight
    BY <1>1, <1>3, <1>6
  <2> HIDE DEF a
  <2>2. a \o (tcpIn' \o flight) = (a \o tcpIn') \o flight
    BY <1>2, <1>3, <2>1, RowsAssoc, Zenon
  <2> QED  BY <1>4, <2>1, <2>2 DEF Stream
<1>8. StreamTypes'
  BY <1>1, <1>3 DEF InStep, StreamTypes
<1>9. Unsent' = Unsent /\ Awaited' = Awaited
  BY <1>1 DEF Unsent, Awaited
<1> QED  BY <1>1, <1>7, <1>8, <1>9 DEF InStep, Queued, Repeated

(* A byte of the body is read, and the answer with it if it is the second: *)
(* then the conversion lets through the answer to request t only.          *)
LEMMA BodyStep ==
  ASSUME NEW t \in Nat, NEW u \in Seq(Nat), NEW v \in Seq(Nat), InStep(t, u, v),
         COUNTER = IdOf(t), req = Request(t),
         resp = [id |-> resp.id, tok |-> resp.tok, body |-> resp.body],
         TcpBody, peer = "open", MaxFaults <= ID_MAX, faults \in 0..MaxFaults
  PROVE  /\ \E w \in Seq(Nat) : InStep(t, w, v)'
         /\ pc' = "rtu_flush" => resp'.id = COUNTER /\ resp'.body = Intact
<1> DEFINE h == Head(tcpIn)
           r == Tail(tcpIn)
           p == << resp.id, 2 >>
<1>1. /\ pc = "tcp_body" /\ tcpIn # << >> /\ tcpIn' = r
      /\ resp' = [resp EXCEPT !.body = Append(resp.body, h)]
      /\ IF Len(resp'.body) < 2 THEN UNCHANGED pc ELSE Convert
      /\ UNCHANGED << flight, server, faults, peer >>
  BY DEF TcpBody, NextByte
<1>2. resp'.id = resp.id /\ resp'.body = Append(resp.body, h)
  <2> HIDE DEF h
  <2> QED  BY <1>1
<1>3. /\ tcpIn \in Seq(Item) /\ flight \in Seq(Item) /\ resp.id \in Item /\ 2 \in Item
      /\ resp.body = << >> \/ \E x \in Item : resp.body = << x >>
  BY <1>1 DEF InStep, StreamTypes, Item
<1>4. h \in Item /\ << h >> \in Seq(Item) /\ r \in Seq(Item) /\ << h >> \o r = tcpIn
  BY <1>1, <1>3, SeqParts, HeadTailProperties
<1>5. p \in Seq(Item) /\ Taken = p \o resp.body
  BY <1>1, <1>3, Rows DEF Taken
<1> HIDE DEF h, r, p
<1>6. r \o flight \in Seq(Item) /\ tcpIn \o flight = << h >> \o (r \o flight)
  <2>1. r \o flight \in Seq(Item)
    BY <1>3, <1>4, RowsClosed, Zenon
  <2>2. (<< h >> \o r) \o flight = << h >> \o (r \o flight)
    BY <1>3, <1>4, RowsAssoc, Zenon
  <2> QED  BY <1>4, <2>1, <2>2
<1>7. CASE resp.body = << >>
  <2>1. resp'.body = << h >> /\ pc' = "tcp_body"
    <3>1. resp'.body = << h >>
      BY <1>2, <1>4, <1>7, Rows
    <3>2. Len(<< h >>) = 1
      OBVIOUS
    <3> QED  BY <1>1, <3>1, <3>2
  <2>2. Taken = p /\ Taken' = p \o << h >>
    <3>1. p \o << >> = p
      BY <1>5, Rows
    <3> QED  BY <1>2, <1>5, <1>7, <2>1, <3>1 DEF Taken, p
  <2>3. Stream' = Stream
    <3>1. (p \o << h >>) \o (r \o flight) = p \o (<< h >> \o (r \o flight))
      BY <1>4, <1>5, <1>6, RowsAssoc, Zenon
    <3> QED  BY <1>1, <1>6, <2>2, <3>1 DEF Stream
  <2>4. StreamTypes'
    BY <1>1, <1>2, <1>3, <1>4, <2>1 DEF InStep, StreamTypes
  <2>5. Unsent' = Unsent /\ Awaited' = Awaited
    BY <1>1, <2>1 DEF Unsent, Awaited
  <2>6. InStep(t, u, v)'
    BY <1>1, <2>3, <2>4, <2>5 DEF InStep, Queued, Repeated
  <2> QED  BY <2>1, <2>6
<1>8. ASSUME NEW x \in Item, resp.body = << x >>
      PROVE  /\ \E w \in Seq(Nat) : InStep(t, w, v)'
             /\ pc' = "rtu_flush" => resp'.id = COUNTER /\ resp'.body = Intact
  <2>1. resp'.body = << x, h >> /\ Convert
    <3>1. resp'.body = << x, h >>
      BY <1>2, <1>4, <1>8, Rows
    <3>2. Len(<< x, h >>) = 2
      OBVIOUS
    <3> QED  BY <1>1, <3>1, <3>2
  <2>2. pc' \in {"rtu_flush", "listen"} /\ (pc' = "rtu_flush" => resp.id = COUNTER)
    BY <1>2, <2>1 DEF Convert, Return
  <2> DEFINE a == << resp.id, 2, x, h >>
  <2>3. a \in Seq(Item) /\ Len(a) = 4 /\ a[1] = resp.id /\ a[3] = x /\ a[4] = h
    BY <1>3, <1>4, <1>8, FourItems
  <2>4. Stream = a \o (r \o flight)
    <3>1. << x >> \in Seq(Item) /\ p \o << x >> \in Seq(Item)
      BY <1>5, <1>8, Rows
    <3>2. (p \o << x >>) \o (<< h >> \o (r \o flight)) = ((p \o << x >>) \o << h >>) \o (r \o flight)
      BY <1>4, <1>6, <3>1, RowsAssoc, Zenon
    <3>3. (p \o << x >>) \o << h >> = a
      <4> DEFINE b == p \o << x >>
                 c == b \o << h >>
      <4>1. Len(p) = 2 /\ p[1] = resp.id /\ p[2] = 2
        BY DEF p
      <4>2. Len(b) = 2 + 1 /\ b[1] = resp.id /\ b[2] = 2 /\ b[3] = x /\ b \in Seq(Item)
        <5>1. << x >> \in Seq(Item) /\ Len(<< x >>) = 1 /\ << x >>[1] = x
          BY <3>1
        <5>2. Len(b) = Len(p) + Len(<< x >>) /\ \A i \in 1..(Len(p) + Len(<< x >>)) :
                 b[i] = IF i <= Len(p) THEN p[i] ELSE << x >>[i - Len(p)]
          BY <1>5, <3>1, ConcatProperties, Zenon
        <5> HIDE DEF b
        <5>3. Len(b) = 2 + 1 /\ \A i \in 1..(2 + 1) : b[i] = IF i <= 2 THEN p[i] ELSE << x >>[i - 2]
          BY <4>1, <5>1, <5>2, Zenon
        <5>4. b[1] = p[1] /\ b[2] = p[2] /\ b[3] = << x >>[1]
          BY <5>3
        <5> QED  BY <3>1, <4>1, <5>1, <5>3, <5>4 DEF b
      <4> HIDE DEF b
      <4>3. Len(c) = 4 /\ c[1] = b[1] /\ c[2] = b[2] /\ c[3] = b[3] /\ c[4] = h /\ c \in Seq(Item)
        <5>1. Len(<< h >>) = 1 /\ << h >>[1] = h
          OBVIOUS
        <5>2. c \in Seq(Item) /\ Len(c) = Len(b) + Len(<< h >>)
              /\ \A i \in 1..(Len(b) + Len(<< h >>)) :
                    c[i] = IF i <= Len(b) THEN b[i] ELSE << h >>[i - Len(b)]
          BY <1>4, <4>2, ConcatProperties, Zenon
        <5> HIDE DEF c
        <5>3. Len(b) = 3
          BY <4>2
        <5>4. Len(c) = 3 + 1 /\ \A i \in 1..(3 + 1) : c[i] = IF i <= 3 THEN b[i] ELSE << h >>[i - 3]
          BY <5>1, <5>2, <5>3, Zenon
        <5>5. c[1] = b[1] /\ c[2] = b[2] /\ c[3] = b[3] /\ c[4] = << h >>[1]
          BY <5>4
        <5>6. 3 + 1 = 4
          OBVIOUS
        <5> QED  BY <5>1, <5>2, <5>4, <5>5, <5>6, Zenon
      <4>4. a[2] = 2
        BY FourItems
      <4> HIDE DEF a, c
      <4>5. \A i \in 1..Len(c) : c[i] = a[i]
        BY <2>3, <4>2, <4>3, <4>4
      <4>6. c = a
        BY <2>3, <4>3, <4>5, SeqEqual
      <4> QED  BY <4>6 DEF b, c
    <3> QED  BY <1>5, <1>6, <1>8, <3>2, <3>3 DEF Stream
  <2> HIDE DEF a
  <2>5. Stream' = r \o flight
    <3>1. Taken' = << >>
      BY <2>2 DEF Taken
    <3> QED  BY <1>1, <1>6, <3>1, Rows DEF Stream
  <2>6. /\ u # << >> /\ Tail(u) \in Seq(Nat) /\ resp.id = IdOf(u[1])
        /\ x = << TokOf(u[1]), 1 >> /\ h = << TokOf(u[1]), 2 >>
        /\ Whole(Stream', Tail(u))
    <3> DEFINE s == r \o flight
    <3>1. Whole(a \o s, u) /\ s \in Seq(Item) /\ a \in Seq(Item) /\ Len(a) = 4
      BY <1>6, <2>3, <2>4 DEF InStep
    <3> HIDE DEF s
    <3>2. u # << >> /\ Tail(u) \in Seq(Nat) /\ AnswerTo(a, u[1]) /\ Whole(s, Tail(u))
      BY <3>1, WholeLess
    <3> QED  BY <2>3, <2>5, <3>2 DEF s, AnswerTo
  <2>7. Unsent = 0 /\ Unsent' = 0 /\ Awaited = 1 /\ Awaited' = 0
    BY <1>1, <2>2 DEF Unsent, Awaited
  <2>8. InStep(t, Tail(u), v)'
    <3>1. Recent(t, Tail(u), v, 0)
      BY <2>6, <2>7, RecentRead DEF InStep
    <3>2. Repeated(Tail(u), v)'
      <4>1. Len(Tail(u)) = Len(u) - 1 /\ Len(u) \in Nat /\ Len(v) \in Nat
        BY <2>6, HeadTailProperties, LenProperties
      <4>2. Len(u) + Len(v) <= faults + 1 /\ faults \in Nat /\ MaxFaults \in Nat
        BY <2>7, ModbusAssumption DEF InStep, Repeated
      <4> DEFINE k == Len(Tail(u))
      <4>3. k = Len(u) - 1
        BY <4>1
      <4> HIDE DEF k
      <4>4. k + Len(v) <= faults + 0
        BY <4>1, <4>2, <4>3
      <4> QED  BY <1>1, <2>7, <4>4 DEF Repeated, k
    <3>3. StreamTypes'
      BY <1>1, <1>4, <2>2 DEF InStep, StreamTypes
    <3> QED  BY <1>1, <2>6, <2>7, <3>1, <3>2, <3>3 DEF InStep, Queued
  <2>9. ASSUME pc' = "rtu_flush" PROVE resp'.id = COUNTER /\ resp'.body = Intact
    <3>1. u[1] \in Nat /\ Len(u) \in Nat \ {0} /\ Len(v) \in Nat /\ 1 \in 1..Len(u)
      BY <2>6, EmptySeq, ElementOfSeq, LenProperties
    <3>2. u[1] <= t /\ t <= u[1] + (Len(u) - 1) + Len(v) + 0
      BY <2>7, <3>1 DEF InStep, Recent
    <3>3. Len(u) + Len(v) <= faults + 1
      BY <2>7 DEF InStep, Repeated
    <3>4. ID_MAX + 1 \in Nat \ {0} /\ ID_MAX \in Nat /\ MaxFaults \in Nat
      BY ModbusAssumption
    <3>5. t - u[1] < ID_MAX + 1
      <4>1. faults \in Nat /\ faults <= ID_MAX
        BY <3>4
      <4>2. (Len(u) - 1) + Len(v) <= ID_MAX
        BY <3>1, <3>3, <3>4, <4>1
      <4> DEFINE n == u[1]
                 k == (Len(u) - 1) + Len(v)
      <4>3. n \in Nat /\ k \in Nat /\ k <= ID_MAX /\ t <= n + k
        BY <3>1, <3>2, <4>2
      <4> HIDE DEF n, k
      <4>4. t - n < ID_MAX + 1
        BY <3>4, <4>3
      <4> QED  BY <4>4 DEF n
    <3>6. (t % (ID_MAX + 1)) = (u[1] % (ID_MAX + 1))
      BY <2>2, <2>6, <2>9 DEF IdOf
    <3>7. u[1] = t
      BY <3>1, <3>2, <3>4, <3>5, <3>6, ModSame
    <3>8. req.tok = TokOf(t)
      BY DEF Request
    <3> QED  BY <1>2, <2>1, <2>2, <2>6, <2>9, <3>7, <3>8 DEF Intact
  <2> QED  BY <2>6, <2>8, <2>9
<1> QED  BY <1>3, <1>7, <1>8

-----------------------------------------------------------------------------
Frames == [tok : Nat, kind : {"whole", "short", "long"}]

(* The driver is off while the answer of a device is received. *)
DriverInv == pc = "rtu_rx" => ~tx_en

(* Unless some were to come when the request was taken, all frames to come *)
(* of the RTU device are for it.                                           *)
DeviceInv ==
    /\ device \in Seq(Frames)
    /\ late \/ \A i \in 1..Len(device) : device[i].tok = req.tok

(* A bridge has an answer for its client. *)
BridgeInv ==
    build = "bridge" /\ pc = "tcp_tx" => resp.id = COUNTER /\ (late \/ resp.tok = req.tok)

(* Of a client build, for the t-th request. *)
ClientInv ==
    build = "client" =>
        /\ pc \notin {"rtu_rx", "rtu_more"} /\ peer \in {"open", "fin", "rst"}
        /\ pc \in {"rtu_flush", "rtu_write"} =>
                resp.id = COUNTER /\ (resp.body = Intact \/ peer = "fin")
        /\ \E t \in Nat :
             /\ COUNTER = IdOf(t) /\ req = Request(t)
             /\ peer = "open" /\ pc # "reset" => \E u, v \in Seq(Nat) : InStep(t, u, v)

RecordsInv ==
    /\ build \in {"bridge", "client"}
    /\ faults \in 0..MaxFaults
    /\ COUNTER = req.id /\ req.tok \in Nat
    /\ resp = [id |-> resp.id, tok |-> resp.tok, body |-> resp.body]

GatewayInv == RecordsInv /\ DriverInv /\ DeviceInv /\ BridgeInv /\ ClientInv /\ AnswerIsToRequest

(* What taking a request leaves. *)
LEMMA TakeKeeps ==
  ASSUME RecordsInv, DeviceInv, NEW id, Take(id), UNCHANGED device
  PROVE  /\ req'.id = id /\ req'.tok \in Nat
         /\ resp' = [id |-> resp'.id, tok |-> resp'.tok, body |-> resp'.body]
         /\ DeviceInv' /\ out' = Nobody
<1>1. req' = [id |-> id, tok |-> (req.tok + 1) % Toks, body |-> << >>]
  BY DEF Take
<1>2. ((req.tok + 1) % Toks) \in Nat
  <2>1. req.tok + 1 \in Nat /\ Toks \in Nat \ {0}
    BY ModbusAssumption DEF RecordsInv
  <2>2. ((req.tok + 1) % Toks) \in 0..(Toks - 1)
    BY <2>1, DivMod
  <2> QED  BY <2>1, <2>2
<1>3. DeviceInv'
  <2>1. late' = (device # << >>) /\ device' = device
    BY DEF Take
  <2>2. CASE device = << >>
    <3>1. 1..Len(device') = {}
      BY <2>1, <2>2
    <3> QED  BY <2>1, <3>1 DEF DeviceInv
  <2>3. CASE device # << >>
    BY <2>1, <2>3 DEF DeviceInv
  <2> QED  BY <2>2, <2>3
<1>4. resp' = [id |-> 0, tok |-> 0, body |-> << >>] /\ out' = Nobody
  BY DEF Take, None
<1> QED  BY <1>1, <1>2, <1>3, <1>4

(* One frame less of the device's. *)
LEMMA DeviceTail ==
  ASSUME DeviceInv, device # << >>, device' = Tail(device), UNCHANGED << late, req >>
  PROVE  DeviceInv' /\ Head(device) \in Frames /\ (late \/ Head(device).tok = req.tok)
<1>1. device \in Seq(Frames) /\ Len(device) \in Nat \ {0}
  BY EmptySeq DEF DeviceInv
<1>2. /\ Head(device) \in Frames /\ Tail(device) \in Seq(Frames)
      /\ Len(Tail(device)) = Len(device) - 1
      /\ \A i \in 1..Len(Tail(device)) : Tail(device)[i] = device[i + 1]
  BY <1>1, HeadTailProperties
<1>3. Head(device) = device[1] /\ 1 \in 1..Len(device)
  BY <1>1
<1>4. ASSUME ~late, NEW i \in 1..Len(device') PROVE device'[i].tok = req'.tok
  <2>1. i + 1 \in 1..Len(device) /\ device'[i] = device[i + 1]
    BY <1>1, <1>2
  <2> QED  BY <1>4, <2>1 DEF DeviceInv
<1> QED  BY <1>2, <1>3, <1>4 DEF DeviceInv

(* Records, driver and RTU device: every step but those of the stream. *)
LEMMA RecordsStep ==
  ASSUME RecordsInv, DriverInv, DeviceInv, BridgeInv, [ModbusNext]_modbusVars
  PROVE  RecordsInv' /\ DriverInv' /\ DeviceInv' /\ BridgeInv'
<1> DEFINE Kept == /\ UNCHANGED << build, COUNTER, req >>
                   /\ faults' = faults \/ Fault
                   /\ resp' = [id |-> resp'.id, tok |-> resp'.tok, body |-> resp'.body]
<1>0. Kept => RecordsInv'
  <2>1. Fault => faults' \in 0..MaxFaults
    BY ModbusAssumption DEF Fault, RecordsInv
  <2> QED  BY <2>1 DEF RecordsInv
<1>1. CASE UNCHANGED modbusVars
  BY <1>1 DEF modbusVars, RecordsInv, DriverInv, DeviceInv, BridgeInv
<1>2. ASSUME UNCHANGED << build, gatewayVars, device >>, faults' = faults \/ Fault,
             pc' = pc \/ pc' \notin {"rtu_rx", "tcp_tx"}
      PROVE  RecordsInv' /\ DriverInv' /\ DeviceInv' /\ BridgeInv'
  <2>1. Kept
    BY <1>2 DEF gatewayVars, RecordsInv
  <2> QED  BY <1>0, <1>2, <2>1 DEF gatewayVars, DriverInv, DeviceInv, BridgeInv
<1>3. CASE Open \/ OpenFails \/ Timeout \/ RtuError
  BY <1>2, <1>3 DEF Open, OpenFails, Timeout, RtuError, Return
<1>4. CASE TcpClientAsks \/ TcpServerAnswers \/ Deliver \/ PeerFails
  BY <1>2, <1>4 DEF TcpClientAsks, TcpServerAnswers, Deliver, PeerFails
<1>5. CASE Reset
  <2>1. Kept
    BY <1>5 DEF Reset, RecordsInv
  <2> QED  BY <1>0, <1>5, <2>1 DEF Reset, DriverInv, DeviceInv, BridgeInv
<1>6. CASE BridgeListen
  <2>1. CASE tcpIn # << >> /\ peer # "rst"
    <3>1. /\ COUNTER' = Head(tcpIn) /\ Take(Head(tcpIn)) /\ UNCHANGED << device, build, faults >>
          /\ pc' = "rtu_flush"
      BY <1>6, <2>1 DEF BridgeListen, ConvertTcpRequest
    <3> HIDE DEF Kept
    <3> QED  BY <3>1, TakeKeeps DEF RecordsInv, DriverInv, BridgeInv
  <2>2. CASE ~(tcpIn # << >> /\ peer # "rst")
    BY <1>2, <1>6, <2>2 DEF BridgeListen, Return, gatewayVars
  <2> QED  BY <2>1, <2>2
<1>7. CASE ClientListen
  <2>1. /\ Take(COUNTER') /\ UNCHANGED << device, build, faults >>
        /\ pc' = "tcp_tx" /\ build = "client"
    BY <1>7 DEF ClientListen, ConvertRtuRequest
  <2> HIDE DEF Kept
  <2> QED  BY <2>1, TakeKeeps DEF RecordsInv, DriverInv, BridgeInv
<1>8. CASE RtuFlush
  <2>1. Kept
    BY <1>8 DEF RtuFlush, RecordsInv
  <2> QED  BY <1>0, <1>8, <2>1 DEF RtuFlush, DriverInv, DeviceInv, BridgeInv
<1>9. CASE RtuWritten
  <2>1. Kept /\ ~tx_en' /\ pc' # "tcp_tx" /\ UNCHANGED late
    BY <1>9 DEF RtuWritten, DriverOff, RecordsInv
  <2>2. DeviceInv'
    <3>1. device' = device \/ \E k \in {"whole", "short", "long"} : device' = Append(device, Frame(req.tok, k))
      BY <1>9 DEF RtuWritten
    <3>2. ASSUME NEW k \in {"whole", "short", "long"}, device' = Append(device, Frame(req.tok, k))
          PROVE  DeviceInv'
      <4> DEFINE f == Frame(req.tok, k)
      <4>1. f \in Frames /\ f.tok = req.tok
        BY DEF Frame, Frames, RecordsInv
      <4> HIDE DEF f
      <4>2. device \in Seq(Frames) /\ Len(device) \in Nat /\ device' = Append(device, f)
        BY <3>2, LenProperties DEF DeviceInv, f
      <4>3. device' \in Seq(Frames) /\ Len(device') = Len(device) + 1
            /\ (\A i \in 1..Len(device) : device'[i] = device[i]) /\ device'[Len(device) + 1] = f
        BY <4>1, <4>2, AppendProperties
      <4>4. ASSUME ~late, NEW i \in 1..Len(device') PROVE device'[i].tok = req.tok
        <5>1. i \in 1..Len(device) \/ i = Len(device) + 1
          BY <4>2, <4>3
        <5> QED  BY <4>1, <4>3, <4>4, <5>1 DEF DeviceInv
      <4>5. req' = req
        BY <2>1
      <4> QED  BY <2>1, <4>3, <4>4, <4>5 DEF DeviceInv
    <3> QED  BY <2>1, <3>1, <3>2 DEF DeviceInv
  <2> QED  BY <1>0, <2>1, <2>2 DEF DriverInv, BridgeInv
<1>10. CASE RtuReceive
  <2>1. /\ pc = "rtu_rx" /\ device # << >> /\ device' = Tail(device)
        /\ UNCHANGED << build, COUNTER, req, tx_en, late, faults >>
        /\ \/ UNCHANGED resp /\ pc' # "tcp_tx"
           \/ resp' = [id |-> COUNTER, tok |-> Head(device).tok, body |-> << >>]
    BY <1>10 DEF RtuReceive, Return, ConvertRtuAnswer
  <2>2. DeviceInv' /\ (late \/ Head(device).tok = req.tok)
    BY <2>1, DeviceTail
  <2>3. Kept /\ ~tx_en'
    BY <2>1 DEF RecordsInv, DriverInv
  <2>4. BridgeInv'
    BY <2>1, <2>2 DEF BridgeInv
  <2> QED  BY <1>0, <2>2, <2>3, <2>4 DEF DriverInv
<1>11. CASE RtuReceiveMore \/ DeviceUnheard
  <2>1. /\ device # << >> /\ device' = Tail(device) /\ UNCHANGED << build, gatewayVars, faults >>
        /\ pc' = pc \/ pc' \notin {"rtu_rx", "tcp_tx"}
    BY <1>11 DEF RtuReceiveMore, DeviceUnheard, Return
  <2>2. DeviceInv'
    BY <2>1, DeviceTail DEF gatewayVars
  <2>3. Kept
    BY <2>1 DEF gatewayVars, RecordsInv
  <2> QED  BY <1>0, <2>1, <2>2, <2>3 DEF gatewayVars, DriverInv, BridgeInv
<1>12. CASE TcpSend \/ TcpHeader \/ TcpBody
  <2>1. /\ UNCHANGED << build, COUNTER, req, tx_en, late, device, faults >>
        /\ pc' \notin {"rtu_rx", "tcp_tx"} \/ pc' = pc
        /\ pc # "tcp_tx" \/ pc' # "tcp_tx"
    BY <1>12 DEF TcpSend, TcpHeader, TcpBody, Return, Convert
  <2>2. resp' = [id |-> resp'.id, tok |-> resp'.tok, body |-> resp'.body]
    BY <1>12 DEF TcpSend, TcpHeader, TcpBody, RecordsInv
  <2>3. Kept
    BY <2>1, <2>2
  <2> QED  BY <1>0, <2>1, <2>3 DEF DriverInv, DeviceInv, BridgeInv
<1> HIDE DEF Kept
<1> QED  BY <1>1, <1>3, <1>4, <1>5, <1>6, <1>7, <1>8, <1>9, <1>10, <1>11, <1>12 DEF ModbusNext

(* The client build stays in step with its server. *)
LEMMA ClientStep ==
  ASSUME RecordsInv, ClientInv, MaxFaults <= ID_MAX, [ModbusNext]_modbusVars
  PROVE  ClientInv'
<1> SUFFICES ASSUME build = "client", build' = "client" PROVE ClientInv'
  <2>1. build' = build
    BY DEF ModbusNext, modbusVars, Open, OpenFails, Reset, Timeout, BridgeListen, ClientListen,
           RtuFlush, RtuWritten, RtuError, RtuReceive, RtuReceiveMore, DeviceUnheard, TcpSend,
           TcpHeader, TcpBody, TcpClientAsks, TcpServerAnswers, Deliver, PeerFails
  <2> QED  BY <2>1 DEF ClientInv
<1>1. faults \in Nat /\ faults \in 0..MaxFaults
      /\ resp = [id |-> resp.id, tok |-> resp.tok, body |-> resp.body]
  BY ModbusAssumption DEF RecordsInv
<1>2. PICK t \in Nat :
             /\ COUNTER = IdOf(t) /\ req = Request(t)
             /\ peer = "open" /\ pc # "reset" => \E u, v \in Seq(Nat) : InStep(t, u, v)
  BY DEF ClientInv
<1>3. pc \notin {"rtu_rx", "rtu_more"} /\ peer \in {"open", "fin", "rst"}
      /\ (pc \in {"rtu_flush", "rtu_write"} => resp.id = COUNTER /\ (resp.body = Intact \/ peer = "fin"))
  BY DEF ClientInv
(* Steps that take no request and leave the stream alone. *)
<1>4. ASSUME UNCHANGED << COUNTER, req, resp, tcpIn, flight, server >>,
             peer' = peer,
             \/ pc' = pc
             \/ pc' = "reset"
             \/ /\ {pc, pc'} \intersect {"tcp_tx", "tcp_header", "tcp_body", "rtu_rx", "rtu_more"} = {}
                /\ pc # "reset" /\ (pc' \in {"rtu_flush", "rtu_write"} => pc = "rtu_flush"),
             faults' = faults \/ Fault
      PROVE  ClientInv'
  <2>1. Intact' = Intact
    BY <1>4 DEF Intact
  <2>2. pc' \notin {"rtu_rx", "rtu_more"}
        /\ (pc' \in {"rtu_flush", "rtu_write"} => resp'.id = COUNTER' /\ (resp'.body = Intact' \/ peer' = "fin"))
    BY <1>3, <1>4, <2>1
  <2>3. faults' \in Nat /\ faults' >= faults
    BY <1>1, <1>4 DEF Fault
  <2>4. ASSUME peer' = "open", pc' # "reset"
        PROVE  \E u, v \in Seq(Nat) : InStep(t, u, v)'
    <3>1. PICK u \in Seq(Nat), v \in Seq(Nat) : InStep(t, u, v)
      BY <1>2, <1>4, <2>4
    <3>2. InStep(t, u, v)'
      BY <1>1, <1>4, <2>3, <2>4, <3>1, KeptStep
    <3> QED  BY <3>2
  <2> QED  BY <1>2, <1>3, <1>4, <2>2, <2>4 DEF ClientInv
<1>5. CASE UNCHANGED modbusVars
  <2>1. UNCHANGED << COUNTER, req, resp, tcpIn, flight, server >> /\ peer' = peer
        /\ pc' = pc /\ faults' = faults
    BY <1>5 DEF modbusVars
  <2> QED  BY <1>4, <2>1
<1>6. CASE Open \/ OpenFails \/ Timeout \/ RtuFlush \/ RtuError \/ DeviceUnheard
  <2>1. UNCHANGED << COUNTER, req, resp, tcpIn, flight, server >> /\ peer' = peer
        /\ (faults' = faults \/ Fault)
    BY <1>6 DEF Open, OpenFails, Timeout, RtuFlush, RtuError, DeviceUnheard, gatewayVars, tcpVars
  <2>2. \/ pc' = pc
        \/ pc' = "reset"
        \/ /\ {pc, pc'} \intersect {"tcp_tx", "tcp_header", "tcp_body", "rtu_rx", "rtu_more"} = {}
           /\ pc # "reset" /\ (pc' \in {"rtu_flush", "rtu_write"} => pc = "rtu_flush")
    BY <1>3, <1>6 DEF Open, OpenFails, Timeout, RtuFlush, RtuError, DeviceUnheard, Return
  <2> QED  BY <1>4, <2>1, <2>2
<1>7. CASE RtuWritten
  <2>1. UNCHANGED << COUNTER, req, resp, tcpIn, flight, server >> /\ peer' = peer
        /\ faults' = faults /\ pc = "rtu_write" /\ pc' = "listen"
    BY <1>7 DEF RtuWritten, tcpVars
  <2> QED  BY <1>4, <2>1
<1>8. CASE Reset
  <2>1. InStep(t, << >>, << >>)'
    <3>1. pc' = "open" /\ tcpIn' = << >> /\ flight' = << >> /\ server' = << >> /\ faults' = faults
      BY <1>8 DEF Reset
    <3>2. Stream' = << >>
      BY <3>1, Rows DEF Stream, Taken
    <3>3. StreamTypes'
      BY <3>1 DEF StreamTypes
    <3>4. Unsent' = 0 /\ Awaited' = 0
      BY <3>1 DEF Unsent, Awaited
    <3>5. Len(<< >>) = 0 /\ 1..0 = {}
      OBVIOUS
    <3>6. Whole(Stream', << >>) /\ Queued(<< >>)' /\ Recent(t, << >>, << >>, Unsent')
      BY <3>1, <3>2, <3>5 DEF Whole, Queued, Recent
    <3>7. Repeated(<< >>, << >>)'
      BY <1>1, <3>1, <3>4, <3>5 DEF Repeated
    <3> QED  BY <3>3, <3>6, <3>7 DEF InStep
  <2>2. << >> \in Seq(Nat)
    OBVIOUS
  <2>3. COUNTER' = COUNTER /\ req' = req /\ pc' = "open" /\ peer' = "open"
    BY <1>8 DEF Reset
  <2> QED  BY <1>2, <2>1, <2>2, <2>3 DEF ClientInv
<1>9. CASE ClientListen
  <2>1. /\ COUNTER' = IdOf(t + 1) /\ req' = Request(t + 1) /\ t + 1 \in Nat
        /\ \A u, v \in Seq(Nat) : InStep(t, u, v) => InStep(t + 1, u, v)'
    BY <1>2, <1>9, ListenStep
  <2>2. pc = "listen" /\ pc' = "tcp_tx" /\ peer' = peer
    BY <1>9 DEF ClientListen, tcpVars
  <2> QED  BY <1>2, <1>3, <2>1, <2>2 DEF ClientInv
<1>10. CASE TcpSend
  <2>1. pc = "tcp_tx" /\ pc' \in {"listen", "tcp_header"} /\ UNCHANGED << COUNTER, req, peer >>
    BY <1>10 DEF TcpSend, Return
  <2>2. ASSUME peer = "open" PROVE \E u, v \in Seq(Nat) : InStep(t, u, v)'
    <3>1. PICK u \in Seq(Nat), v \in Seq(Nat) : InStep(t, u, v)
      BY <1>2, <2>1, <2>2
    <3>2. \E w \in Seq(Nat) : InStep(t, u, w)'
      BY <1>1, <1>2, <1>10, <2>2, <3>1, SendStep
    <3> QED  BY <3>2
  <2> QED  BY <1>2, <1>3, <2>1, <2>2 DEF ClientInv
<1>11. CASE TcpHeader
  <2>1. pc = "tcp_header" /\ pc' \in {"listen", "tcp_body", "reset"} /\ UNCHANGED << COUNTER, req, peer >>
    BY <1>11 DEF TcpHeader, Return
  <2>2. ASSUME peer = "open", pc' # "reset" PROVE \E u, v \in Seq(Nat) : InStep(t, u, v)'
    <3>1. PICK u \in Seq(Nat), v \in Seq(Nat) : InStep(t, u, v)
      BY <1>2, <2>1, <2>2
    <3>2. InStep(t, u, v)'
      BY <1>11, <2>2, <3>1, HeaderStep
    <3> QED  BY <3>2
  <2> QED  BY <1>2, <1>3, <2>1, <2>2 DEF ClientInv
<1>12. CASE TcpBody
  <2>1. pc = "tcp_body" /\ pc' \in {"listen", "tcp_body", "rtu_flush"} /\ UNCHANGED << COUNTER, req, peer >>
    BY <1>12 DEF TcpBody, Convert, Return
  <2>2. Intact' = Intact
    BY <2>1 DEF Intact
  <2>3. ASSUME peer = "open"
        PROVE  /\ \E u, v \in Seq(Nat) : InStep(t, u, v)'
               /\ pc' = "rtu_flush" => resp'.id = COUNTER /\ resp'.body = Intact
    <3>1. PICK u \in Seq(Nat), v \in Seq(Nat) : InStep(t, u, v)
      BY <1>2, <2>1, <2>3
    <3>2. /\ \E w \in Seq(Nat) : InStep(t, w, v)'
          /\ pc' = "rtu_flush" => resp'.id = COUNTER /\ resp'.body = Intact
      BY <1>1, <1>2, <1>12, <2>3, <3>1, BodyStep
    <3> QED  BY <3>2
  <2>4. ASSUME pc' = "rtu_flush" PROVE resp'.id = COUNTER /\ peer # "rst"
    <3>1. peer # "rst" /\ resp.id = COUNTER
          /\ resp' = [resp EXCEPT !.body = Append(resp.body, NextByte)]
      BY <1>12, <2>4 DEF TcpBody, Convert, Return
    <3> DEFINE b == Append(resp.body, NextByte)
    <3>2. resp' = [resp EXCEPT !.body = b]
      BY <3>1
    <3> HIDE DEF b
    <3>3. resp'.id = resp.id
      BY <1>1, <3>2
    <3> QED  BY <3>1, <3>3
  <2> QED  BY <1>2, <1>3, <2>1, <2>2, <2>3, <2>4 DEF ClientInv
<1>13. CASE TcpServerAnswers \/ Deliver
  <2>1. UNCHANGED << pc, COUNTER, req, resp, peer >>
    BY <1>13 DEF TcpServerAnswers, Deliver, gatewayVars
  <2>2. Intact' = Intact
    BY <2>1 DEF Intact
  <2>3. ASSUME peer = "open", pc # "reset" PROVE \E u, v \in Seq(Nat) : InStep(t, u, v)'
    <3>1. PICK u \in Seq(Nat), v \in Seq(Nat) : InStep(t, u, v)
      BY <1>2, <2>3
    <3>2. CASE TcpServerAnswers
      BY <1>1, <3>1, <3>2, AnswerStep
    <3>3. CASE Deliver
      BY <3>1, <3>3, DeliverStep
    <3> QED  BY <1>13, <3>2, <3>3
  <2> QED  BY <1>2, <1>3, <2>1, <2>2, <2>3 DEF ClientInv
<1>14. CASE PeerFails
  <2>1. UNCHANGED << pc, COUNTER, req, resp >> /\ peer = "open" /\ peer' \in {"rst", "fin"}
    BY <1>14 DEF PeerFails, Connected, gatewayVars
  <2>2. Intact' = Intact
    BY <2>1 DEF Intact
  <2> QED  BY <1>2, <1>3, <2>1, <2>2 DEF ClientInv
<1>15. ~(BridgeListen \/ TcpClientAsks \/ RtuReceive \/ RtuReceiveMore)
  BY <1>3 DEF BridgeListen, TcpClientAsks, RtuReceive, RtuReceiveMore
<1> QED  BY <1>5, <1>6, <1>7, <1>8, <1>9, <1>10, <1>11, <1>12, <1>13, <1>14, <1>15 DEF ModbusNext

(* What is delivered is the answer to the request. *)
LEMMA OutStep ==
  ASSUME GatewayInv, [ModbusNext]_modbusVars
  PROVE  AnswerIsToRequest'
<1> USE DEF GatewayInv
<1>1. ASSUME out' = Nobody PROVE AnswerIsToRequest'
  BY <1>1 DEF AnswerIsToRequest
<1>2. ASSUME UNCHANGED << build, req, out, late >>, peer' = peer \/ peer = "open"
      PROVE  AnswerIsToRequest'
  BY <1>2 DEF AnswerIsToRequest, Intact
<1>3. CASE RtuWritten
  <2>1. CASE build = "bridge"
    BY <1>2, <1>3, <2>1 DEF RtuWritten, tcpVars
  <2>2. CASE build = "client"
    <3>1. out' = resp /\ pc = "rtu_write" /\ UNCHANGED << build, req, peer >>
      BY <1>3, <2>2 DEF RtuWritten, tcpVars
    <3> QED  BY <2>2, <3>1 DEF ClientInv, RecordsInv, AnswerIsToRequest, Intact
  <2> QED  BY <2>1, <2>2 DEF RecordsInv
<1>4. CASE TcpSend
  <2>1. CASE build = "bridge" /\ peer # "rst"
    <3>1. out' = resp /\ pc = "tcp_tx" /\ UNCHANGED << build, req, late >>
      BY <1>4, <2>1 DEF TcpSend
    <3> QED  BY <2>1, <3>1 DEF BridgeInv, RecordsInv, AnswerIsToRequest
  <2>2. CASE ~(build = "bridge" /\ peer # "rst")
    <3>1. UNCHANGED << build, req, out, late, peer >>
      BY <1>4, <2>2 DEF TcpSend
    <3> QED  BY <1>2, <3>1
  <2> QED  BY <2>1, <2>2
<1>5. CASE Reset \/ ClientListen
  BY <1>1, <1>5 DEF Reset, ClientListen, ConvertRtuRequest, Take
<1>6. CASE BridgeListen
  <2>1. CASE tcpIn # << >> /\ peer # "rst"
    BY <1>1, <1>6, <2>1 DEF BridgeListen, ConvertTcpRequest, Take
  <2>2. CASE ~(tcpIn # << >> /\ peer # "rst")
    <3>1. UNCHANGED << build, req, out, late, peer >>
      BY <1>6, <2>2 DEF BridgeListen
    <3> QED  BY <1>2, <3>1
  <2> QED  BY <2>1, <2>2
<1>7. CASE Open \/ OpenFails \/ Timeout \/ RtuFlush \/ RtuError \/ RtuReceive \/ RtuReceiveMore
           \/ DeviceUnheard \/ TcpHeader \/ TcpBody \/ TcpClientAsks \/ TcpServerAnswers \/ Deliver
           \/ PeerFails \/ UNCHANGED modbusVars
  <2>1. UNCHANGED << build, req, out, late >> /\ (peer' = peer \/ peer = "open")
    BY <1>7
    DEF Open, OpenFails, Timeout, RtuFlush, RtuError, RtuReceive, RtuReceiveMore, DeviceUnheard,
        TcpHeader, TcpBody, TcpClientAsks, TcpServerAnswers, Deliver, PeerFails, Connected,
        modbusVars, gatewayVars, tcpVars
  <2> QED  BY <1>2, <2>1
<1> QED  BY <1>3, <1>4, <1>5, <1>6, <1>7 DEF ModbusNext

LEMMA GatewayInit == ModbusInit => GatewayInv
<1> SUFFICES ASSUME ModbusInit PROVE GatewayInv
  OBVIOUS
<1> USE DEF ModbusInit
<1>1. RecordsInv
  BY ModbusAssumption DEF RecordsInv, None
<1>2. DriverInv /\ BridgeInv /\ AnswerIsToRequest
  BY DEF DriverInv, BridgeInv, AnswerIsToRequest
<1>3. DeviceInv
  BY DEF DeviceInv
<1>4. ClientInv
  <2>1. COUNTER = IdOf(0) /\ req = Request(0)
    <3>1. ID_MAX + 1 \in Nat \ {0} /\ Toks \in Nat \ {0} /\ 0 \in 0..((ID_MAX + 1) - 1) /\ 0 \in 0..(Toks - 1)
      BY ModbusAssumption
    <3>2. 0 % (ID_MAX + 1) = 0 /\ 0 % Toks = 0
      BY <3>1, ModSmall
    <3> QED  BY <3>2 DEF IdOf, TokOf, Request, None
  <2>2. InStep(0, << >>, << >>)
    <3>1. Stream = << >>
      BY Rows DEF Stream, Taken
    <3>2. StreamTypes
      BY DEF StreamTypes
    <3>3. Unsent = 0 /\ Awaited = 0
      BY DEF Unsent, Awaited
    <3>4. Len(<< >>) = 0 /\ 1..0 = {}
      OBVIOUS
    <3>5. Whole(Stream, << >>) /\ Queued(<< >>) /\ Recent(0, << >>, << >>, Unsent)
      BY <3>1, <3>4 DEF Whole, Queued, Recent
    <3>6. Repeated(<< >>, << >>)
      BY <3>3, <3>4 DEF Repeated
    <3> QED  BY <3>2, <3>5, <3>6 DEF InStep
  <2>3. << >> \in Seq(Nat) /\ 0 \in Nat
    OBVIOUS
  <2> QED  BY <2>1, <2>2, <2>3 DEF ClientInv
<1> QED  BY <1>1, <1>2, <1>3, <1>4 DEF GatewayInv

-----------------------------------------------------------------------------
(* A client build left with its RS485 driver on never hears its master     *)
(* again, whatever is timed out, reset, connected or received since.       *)
THEOREM DeafStaysDeaf == ModbusSpec => DeafIsForever
<1>1. ASSUME Deaf, [ModbusNext]_modbusVars PROVE Deaf'
  <2> USE DEF Deaf
  <2>1. CASE Open \/ OpenFails \/ Reset \/ Timeout
    BY <1>1, <2>1 DEF Open, OpenFails, Reset, Timeout, Return, Flow, gatewayVars
  <2>2. CASE DeviceUnheard \/ TcpServerAnswers \/ Deliver \/ PeerFails
             \/ UNCHANGED modbusVars
    BY <1>1, <2>2 DEF DeviceUnheard, TcpServerAnswers, Deliver, PeerFails, gatewayVars, modbusVars
  <2>3. ~(BridgeListen \/ ClientListen \/ TcpClientAsks)
    BY <1>1 DEF BridgeListen, ClientListen, TcpClientAsks
  <2>4. ~(RtuFlush \/ RtuWritten \/ RtuError \/ RtuReceive \/ RtuReceiveMore)
    BY <1>1 DEF RtuFlush, RtuWritten, RtuError, RtuReceive, RtuReceiveMore
  <2>5. ~(TcpSend \/ TcpHeader \/ TcpBody)
    BY <1>1 DEF TcpSend, TcpHeader, TcpBody
  <2> QED  BY <1>1, <2>1, <2>2, <2>3, <2>4, <2>5 DEF ModbusNext
<1>2. [ModbusNext]_modbusVars => [Deaf => Deaf']_modbusVars
  BY <1>1
<1> QED  BY <1>2, PTL DEF ModbusSpec, DeafIsForever

(* The gateway's invariant, with fewer failures than transaction ids. *)
THEOREM GatewayInvariant ==
  ASSUME MaxFaults <= ID_MAX
  PROVE  ModbusSpec => []GatewayInv
<1>1. GatewayInv /\ [ModbusNext]_modbusVars => GatewayInv'
  BY RecordsStep, ClientStep, OutStep DEF GatewayInv
<1> QED  BY GatewayInit, <1>1, PTL DEF ModbusSpec

(* An answer is delivered under the id of its request and is the answer to *)
(* it, save a late frame of a device and a stream that ends within an      *)
(* answer: as long as a server repeats fewer answers than there are        *)
(* transaction ids, the check in the conversion to RTU lets no other       *)
(* answer through.                                                         *)
THEOREM AnswersMatch ==
  ASSUME MaxFaults <= ID_MAX
  PROVE  ModbusSpec => []AnswerIsToRequest
<1>1. GatewayInv => AnswerIsToRequest
  BY DEF GatewayInv
<1> QED  BY GatewayInvariant, <1>1, PTL
=============================================================================
