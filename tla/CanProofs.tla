------------------------------ MODULE CanProofs -------------------------------
(***************************************************************************)
(* For every channel capacity, every size of the receive queue and any     *)
(* number of frames: can_routine loses, repeats and reorders nothing, its  *)
(* channels stay within their capacity, and CAN2 waits for the filters of  *)
(* CAN1.                                                                   *)
(***************************************************************************)
EXTENDS CanInterfaces, SequenceTheorems, TLAPS

(* A received frame leaves the front of the first of two queues. *)
LEMMA TailOfConcat ==
    ASSUME NEW S, NEW s \in Seq(S), NEW t \in Seq(S), s # << >>
    PROVE  /\ s \o t # << >>
           /\ Head(s \o t) = Head(s)
           /\ Tail(s \o t) = Tail(s) \o t
<1>1. /\ s \o t \in Seq(S) /\ Len(s \o t) = Len(s) + Len(t)
      /\ \A k \in 1 .. Len(s) + Len(t) :
           (s \o t)[k] = IF k <= Len(s) THEN s[k] ELSE t[k - Len(s)]
  BY ConcatProperties
<1>2. Len(s) \in Nat \ {0} /\ Len(t) \in Nat
  BY EmptySeq, LenProperties
<1>3. s \o t # << >>
  BY <1>1, <1>2
<1>4. Tail(s) \in Seq(S) /\ Len(Tail(s)) = Len(s) - 1
      /\ \A k \in 1 .. Len(Tail(s)) : Tail(s)[k] = s[k + 1]
  BY HeadTailProperties
<1>5. Tail(s \o t) \in Seq(S) /\ Len(Tail(s \o t)) = Len(s) + Len(t) - 1
      /\ \A k \in 1 .. Len(s) + Len(t) - 1 : Tail(s \o t)[k] = (s \o t)[k + 1]
  BY <1>1, <1>3, HeadTailProperties
<1>6. Tail(s) \o t \in Seq(S) /\ Len(Tail(s) \o t) = Len(s) - 1 + Len(t)
      /\ \A k \in 1 .. Len(s) - 1 + Len(t) :
           (Tail(s) \o t)[k] = IF k <= Len(s) - 1 THEN Tail(s)[k] ELSE t[k - (Len(s) - 1)]
  BY <1>4, ConcatProperties
<1>7. \A k \in 1 .. Len(Tail(s \o t)) : Tail(s \o t)[k] = (Tail(s) \o t)[k]
  <2> TAKE k \in 1 .. Len(Tail(s \o t))
  <2>1. k \in 1 .. Len(s) + Len(t) - 1 /\ k + 1 \in 1 .. Len(s) + Len(t)
        /\ k \in 1 .. Len(s) - 1 + Len(t)
    BY <1>2, <1>5
  <2>2. CASE k <= Len(s) - 1
    <3>1. k + 1 <= Len(s) /\ k \in 1 .. Len(Tail(s))
      BY <1>2, <1>4, <2>1, <2>2
    <3> QED
      BY <1>1, <1>4, <1>5, <1>6, <2>1, <2>2, <3>1
  <2>3. CASE ~(k <= Len(s) - 1)
    <3>1. ~(k + 1 <= Len(s)) /\ (k + 1) - Len(s) = k - (Len(s) - 1)
      BY <1>2, <2>1, <2>3
    <3> QED
      BY <1>1, <1>5, <1>6, <2>1, <2>3, <3>1
  <2> QED
    BY <2>2, <2>3
<1>8. Tail(s \o t) = Tail(s) \o t
  BY <1>2, <1>5, <1>6, <1>7, SeqEqual
<1>9. Head(s \o t) = Head(s)
  <2>1. (s \o t)[1] = s[1]
    BY <1>1, <1>2
  <2> QED
    BY <1>3, <2>1
<1> QED
  BY <1>3, <1>8, <1>9

(* A frame appended to the last of two queues is appended to both together. *)
LEMMA AppendOfConcat ==
    ASSUME NEW S, NEW s \in Seq(S), NEW t \in Seq(S), NEW e \in S
    PROVE  s \o Append(t, e) = Append(s \o t, e)
<1>1. Append(t, e) = t \o << e >> /\ << e >> \in Seq(S)
  BY AppendIsConcat
<1>2. s \o t \in Seq(S)
  BY ConcatProperties
<1>3. Append(s \o t, e) = (s \o t) \o << e >>
  BY <1>2, AppendIsConcat
<1> QED
  BY <1>1, <1>3, ConcatAssociative

(* Both facts for the queues of numbered frames. *)
LEMMA QueuesOfNumbers ==
    /\ \A s, t, u \in Seq(Nat) : (s \o t) \o u = s \o (t \o u)
    /\ \A s, t \in Seq(Nat), e \in Nat : s \o Append(t, e) = Append(s \o t, e)
<1>1. ASSUME NEW s \in Seq(Nat), NEW t \in Seq(Nat), NEW u \in Seq(Nat)
      PROVE  (s \o t) \o u = s \o (t \o u)
  BY ConcatAssociative
<1>2. ASSUME NEW s \in Seq(Nat), NEW t \in Seq(Nat), NEW e \in Nat
      PROVE  s \o Append(t, e) = Append(s \o t, e)
  BY AppendOfConcat
<1> QED
  BY <1>1, <1>2

-----------------------------------------------------------------------------
(* The numbers are a sequence, one shorter without the first, and one      *)
(* longer with the next.                                                   *)
LEMMA NumbersSeq ==
    ASSUME NEW n \in Nat, NEW m \in Nat, n <= m
    PROVE  /\ Numbers(n, m) \in Seq(Nat)
           /\ Len(Numbers(n, m)) = m - n
           /\ \A k \in 1 .. m - n : Numbers(n, m)[k] = n + k
<1>1. m - n \in Nat /\ \A k \in 1 .. m - n : n + k \in Nat
  OBVIOUS
<1> QED
  BY <1>1 DEF Numbers

LEMMA NumbersNext ==
    ASSUME NEW n \in Nat, NEW m \in Nat, n <= m
    PROVE  Append(Numbers(n, m), m + 1) = Numbers(n, m + 1)
<1> DEFINE a == Append(Numbers(n, m), m + 1)
<1>1. a \in Seq(Nat) /\ Len(a) = m - n + 1
      /\ (\A k \in 1 .. m - n : a[k] = Numbers(n, m)[k]) /\ a[m - n + 1] = m + 1
  <2>1. Numbers(n, m) \in Seq(Nat) /\ Len(Numbers(n, m)) = m - n /\ m + 1 \in Nat
    BY NumbersSeq
  <2> QED
    BY <2>1, AppendProperties
<1>2. Numbers(n, m + 1) \in Seq(Nat) /\ Len(Numbers(n, m + 1)) = m + 1 - n
      /\ \A k \in 1 .. m + 1 - n : Numbers(n, m + 1)[k] = n + k
  <2>1. m + 1 \in Nat /\ n <= m + 1
    OBVIOUS
  <2> QED
    BY <2>1, NumbersSeq
<1>3. \A k \in 1 .. Len(a) : a[k] = Numbers(n, m + 1)[k]
  <2> TAKE k \in 1 .. Len(a)
  <2>1. CASE k = m - n + 1
    BY <1>1, <1>2, <2>1
  <2>2. CASE k # m - n + 1
    <3>1. k \in 1 .. m - n /\ k \in 1 .. m + 1 - n
      BY <1>1, <2>2
    <3> QED
      BY <1>1, <1>2, <3>1, NumbersSeq
  <2> QED
    BY <2>1, <2>2
<1> HIDE DEF a
<1>4. Len(a) = Len(Numbers(n, m + 1))
  BY <1>1, <1>2
<1>5. a = Numbers(n, m + 1)
  BY <1>1, <1>2, <1>3, <1>4, SeqEqual
<1> QED
  BY <1>5 DEF a

LEMMA NumbersTail ==
    ASSUME NEW n \in Nat, NEW m \in Nat, n <= m, Numbers(n, m) # << >>
    PROVE  /\ n < m
           /\ Head(Numbers(n, m)) = n + 1
           /\ Tail(Numbers(n, m)) = Numbers(n + 1, m)
<1> DEFINE a == Numbers(n, m)
<1>1. a \in Seq(Nat) /\ Len(a) = m - n /\ \A k \in 1 .. m - n : a[k] = n + k
  BY NumbersSeq
<1> HIDE DEF a
<1>2. Len(a) \in Nat \ {0} /\ n < m
  BY <1>1, EmptySeq DEF a
<1>3. Head(a) = n + 1
  BY <1>1, <1>2
<1>4. Tail(a) \in Seq(Nat) /\ Len(Tail(a)) = m - n - 1
      /\ \A k \in 1 .. m - n - 1 : Tail(a)[k] = a[k + 1]
  BY <1>1, <1>2, HeadTailProperties
<1>5. Numbers(n + 1, m) \in Seq(Nat) /\ Len(Numbers(n + 1, m)) = m - (n + 1)
      /\ \A k \in 1 .. m - (n + 1) : Numbers(n + 1, m)[k] = n + 1 + k
  <2>1. n + 1 \in Nat /\ n + 1 <= m
    BY <1>2
  <2> QED
    BY <2>1, NumbersSeq
<1>6. \A k \in 1 .. Len(Tail(a)) : Tail(a)[k] = Numbers(n + 1, m)[k]
  <2> TAKE k \in 1 .. Len(Tail(a))
  <2>1. k \in 1 .. m - n - 1 /\ k + 1 \in 1 .. m - n /\ k \in 1 .. m - (n + 1)
    BY <1>2, <1>4
  <2>2. n + (k + 1) = n + 1 + k
    BY <2>1
  <2> QED
    BY <1>1, <1>4, <1>5, <2>1, <2>2
<1>7. Tail(a) = Numbers(n + 1, m)
  <2>1. Len(Tail(a)) = Len(Numbers(n + 1, m))
    BY <1>2, <1>4, <1>5
  <2> QED
    BY <1>4, <1>5, <1>6, <2>1, SeqEqual
<1> QED
  BY <1>2, <1>3, <1>7 DEF a

-----------------------------------------------------------------------------
(* The frame in the hand of can_routine, by its direction. *)
RxHeld == IF canPc = "send" THEN canHeld ELSE << >>
TxHeld == IF canPc = "write" THEN canHeld ELSE << >>

(* The queues hold numbers, and the types of the counters. *)
LEMMA FifoSeqs ==
    ASSUME FifoTypeOK
    PROVE  /\ {chRx, RxHeld, hwRx, TxHeld, chTx} \subseteq Seq(Nat)
           /\ {arrived, taken, queued, written} \subseteq Nat
           /\ taken <= arrived /\ written <= queued
<1>1. RxFrame \subseteq Nat /\ TxFrame \subseteq Nat
  BY FifoAssumption
<1>2. chRx \in Seq(Nat) /\ hwRx \in Seq(Nat) /\ chTx \in Seq(Nat)
  BY <1>1, SeqMonotonic DEF FifoTypeOK, CanTypeOK
<1>3. RxHeld \in Seq(Nat) /\ TxHeld \in Seq(Nat)
  <2>1. \A f \in Nat : << f >> \in Seq(Nat)
    OBVIOUS
  <2>2. << >> \in Seq(Nat)
    OBVIOUS
  <2>3. canPc = "send" => canHeld \in {<< f >> : f \in RxFrame}
    BY DEF FifoTypeOK, CanTypeOK
  <2>4. canPc = "write" => canHeld \in {<< f >> : f \in TxFrame}
    BY DEF FifoTypeOK, CanTypeOK
  <2>5. canPc = "send" => canHeld \in Seq(Nat)
    BY <1>1, <2>1, <2>3
  <2>6. canPc = "write" => canHeld \in Seq(Nat)
    BY <1>1, <2>1, <2>4
  <2> QED
    BY <2>2, <2>5, <2>6 DEF RxHeld, TxHeld
<1>4. {arrived, taken, queued, written} \subseteq Nat /\ taken <= arrived /\ written <= queued
  BY FifoAssumption DEF FifoTypeOK
<1> QED
  BY <1>2, <1>3, <1>4

(* Where the frames are when the loop, the bus and the processor move them: *)
(* the two directions as one queue each.                                   *)
RxQueue == chRx \o RxHeld \o hwRx
TxQueue == TxHeld \o chTx

(* A non-empty sequence is its head and its tail. *)
LEMMA HeadThenTail ==
    ASSUME NEW S, NEW s \in Seq(S), s # << >>
    PROVE  Head(s) \in S /\ Tail(s) \in Seq(S) /\ << Head(s) >> \in Seq(S)
           /\ << Head(s) >> \o Tail(s) = s
<1>1. Head(s) \in S /\ Tail(s) \in Seq(S) /\ Len(Tail(s)) = Len(s) - 1
      /\ \A k \in 1 .. Len(Tail(s)) : Tail(s)[k] = s[k + 1]
  BY HeadTailProperties
<1>2. Len(s) \in Nat \ {0} /\ Head(s) = s[1]
  BY EmptySeq
<1>3. << Head(s) >> \in Seq(S) /\ Len(<< Head(s) >>) = 1 /\ << Head(s) >>[1] = s[1]
  BY <1>1, <1>2
<1> DEFINE h == << Head(s) >>
           c == h \o Tail(s)
<1> HIDE DEF h
<1>4. c \in Seq(S) /\ Len(c) = 1 + Len(Tail(s))
      /\ \A k \in 1 .. 1 + Len(Tail(s)) : c[k] = IF k <= 1 THEN h[k] ELSE Tail(s)[k - 1]
  BY <1>1, <1>3, ConcatProperties DEF h
<1> HIDE DEF c
<1>5. Len(c) = Len(s)
  BY <1>1, <1>2, <1>4
<1>6. \A k \in 1 .. Len(c) : c[k] = s[k]
  <2> TAKE k \in 1 .. Len(c)
  <2>1. CASE k = 1
    BY <1>2, <1>3, <1>4, <1>5, <2>1 DEF h
  <2>2. CASE k # 1
    <3>1. ~(k <= 1) /\ k - 1 \in 1 .. Len(Tail(s)) /\ (k - 1) + 1 = k
          /\ k \in 1 .. 1 + Len(Tail(s))
      BY <1>1, <1>2, <1>4, <2>2
    <3> QED
      BY <1>1, <1>4, <3>1
  <2> QED
    BY <2>1, <2>2
<1>7. c = s
  BY <1>4, <1>5, <1>6, SeqEqual
<1> QED
  BY <1>1, <1>3, <1>7 DEF c, h

(* The loop of can_routine moves frames along and leaves both queues as     *)
(* they are.                                                               *)
LEMMA LoopKeepsQueues ==
    ASSUME FifoTypeOK, CanStep
    PROVE  RxQueue' = RxQueue /\ TxQueue' = TxQueue
<1>1. {chRx, RxHeld, hwRx, TxHeld, chTx} \subseteq Seq(Nat)
  BY FifoSeqs
<1>2. canPc \notin {"send", "write"} => RxHeld = << >> /\ TxHeld = << >>
  BY DEF RxHeld, TxHeld
<1>3. CASE CanRead
  <2>1. /\ RxHeld = << >> /\ TxHeld = << >> /\ hwRx # << >> /\ TxHeld' = << >>
        /\ chTx' = chTx /\ hwRx' = Tail(hwRx)
    BY <1>2, <1>3 DEF CanRead, TxHeld
  <2>2. Head(hwRx) \in Nat /\ Tail(hwRx) \in Seq(Nat) /\ << Head(hwRx) >> \in Seq(Nat)
        /\ << Head(hwRx) >> \o Tail(hwRx) = hwRx
    BY <1>1, <2>1, HeadThenTail
  <2>3. RxQueue = chRx \o hwRx
    BY <1>1, <2>1, ConcatEmptySeq DEF RxQueue
  <2>4. (chRx \o << Head(hwRx) >>) \o Tail(hwRx) = chRx \o hwRx
    <3> DEFINE h == << Head(hwRx) >>
               t == Tail(hwRx)
    <3>1. chRx \in Seq(Nat) /\ h \in Seq(Nat) /\ t \in Seq(Nat) /\ h \o t = hwRx
      BY <1>1, <2>2
    <3> HIDE DEF h, t
    <3>2. (chRx \o h) \o t = chRx \o hwRx
      BY <3>1, QueuesOfNumbers, Zenon
    <3> QED
      BY <3>2 DEF h, t
  <2>5. CASE Full(chRx)
    <3>1. RxHeld' = << Head(hwRx) >> /\ chRx' = chRx
      BY <1>3, <2>5 DEF CanRead, RxHeld
    <3> QED
      BY <2>1, <2>3, <2>4, <3>1 DEF RxQueue, TxQueue
  <2>6. CASE ~Full(chRx)
    <3>1. RxHeld' = << >> /\ chRx' = Append(chRx, Head(hwRx))
      BY <1>3, <2>6 DEF CanRead, RxHeld
    <3>2. chRx' = chRx \o << Head(hwRx) >> /\ chRx' \in Seq(Nat)
      BY <1>1, <2>2, <3>1, AppendIsConcat, AppendProperties
    <3>3. chRx' \o << >> = chRx'
      BY <3>2, ConcatEmptySeq
    <3> QED
      BY <2>1, <2>3, <2>4, <3>1, <3>2, <3>3 DEF RxQueue, TxQueue
  <2> QED
    BY <2>5, <2>6
<1>4. CASE CanForward
  <2>1. RxHeld = canHeld /\ RxHeld' = << >> /\ TxHeld = << >> /\ TxHeld' = << >>
        /\ chRx' = chRx \o canHeld /\ hwRx' = hwRx /\ chTx' = chTx
    BY <1>4 DEF CanForward, RxHeld, TxHeld
  <2>2. chRx' \in Seq(Nat)
    BY <1>1, <2>1, ConcatProperties
  <2>3. chRx' \o << >> = chRx'
    BY <2>2, ConcatEmptySeq
  <2> QED
    BY <2>1, <2>3 DEF RxQueue, TxQueue
<1>5. CASE CanReadError \/ CanBackoffDone
  <2>1. RxHeld = << >> /\ RxHeld' = << >> /\ TxHeld = << >> /\ TxHeld' = << >>
        /\ UNCHANGED << chRx, hwRx, chTx >>
    BY <1>5 DEF CanReadError, CanBackoffDone, RxHeld, TxHeld
  <2> QED
    BY <2>1 DEF RxQueue, TxQueue
<1>6. CASE CanTakeTx
  <2>1. RxHeld = << >> /\ RxHeld' = << >> /\ TxHeld = << >> /\ TxHeld' = << Head(chTx) >>
        /\ chTx # << >> /\ chTx' = Tail(chTx) /\ chRx' = chRx /\ hwRx' = hwRx
    BY <1>6 DEF CanTakeTx, RxHeld, TxHeld
  <2>2. << Head(chTx) >> \o Tail(chTx) = chTx
    BY <1>1, <2>1, HeadThenTail
  <2>3. << >> \o chTx = chTx
    BY <1>1, ConcatEmptySeq
  <2> QED
    BY <2>1, <2>2, <2>3 DEF RxQueue, TxQueue
<1> QED
  BY <1>3, <1>4, <1>5, <1>6 DEF CanStep

-----------------------------------------------------------------------------
(* The inductive invariant of the loop: the types and the order, which the *)
(* counters' types need.                                                   *)
FifoInv == FifoTypeOK /\ RxInOrder /\ TxInOrder

(* A frame from the bus goes to the end of the queue, or is dropped whole. *)
LEMMA ArriveKeeps ==
    ASSUME FifoInv, Arrive PROVE FifoInv'
<1> USE FifoAssumption DEF FifoInv
<1>1. {chRx, RxHeld, hwRx, TxHeld, chTx} \subseteq Seq(Nat) /\ taken <= arrived
      /\ arrived \in Nat /\ taken \in Nat /\ written \in Nat /\ queued \in Nat
  BY FifoSeqs
<1>2. arrived + 1 \in RxFrame /\ arrived + 1 \in Nat /\ arrived < MaxFrames
  BY <1>1 DEF Arrive
<1>3. /\ UNCHANGED << canPc, canHeld, chRx, chTx, taken, queued, written >>
      /\ RxHeld' = RxHeld /\ TxHeld' = TxHeld
  BY DEF Arrive, HwReceive, RxHeld, TxHeld
<1>4. TxInOrder'
  BY <1>3 DEF TxInOrder, TxHeld
<1>5. CASE Len(hwRx) < HwQueue
  <2>1. hwRx' = Append(hwRx, arrived + 1)
    BY <1>5 DEF Arrive, HwReceive
  <2>2. hwRx \in Seq(RxFrame) /\ hwRx' \in Seq(RxFrame) /\ Len(hwRx') = Len(hwRx) + 1
        /\ Len(hwRx) \in Nat
    BY <1>2, <2>1, AppendProperties, LenProperties DEF FifoTypeOK, CanTypeOK
  <2>3. arrived' = arrived + 1
    BY <2>2 DEF Arrive
  <2>4. FifoTypeOK'
    BY <1>1, <1>2, <1>3, <1>5, <2>2, <2>3 DEF FifoTypeOK, CanTypeOK
  <2>5. RxQueue' = Append(RxQueue, arrived + 1)
    <3>1. chRx \o RxHeld \in Seq(Nat)
      BY <1>1, ConcatProperties
    <3>2. hwRx \in Seq(Nat)
      BY <1>1
    <3>3. (chRx \o RxHeld) \o Append(hwRx, arrived + 1)
            = Append((chRx \o RxHeld) \o hwRx, arrived + 1)
      BY <1>2, <3>1, <3>2, QueuesOfNumbers, Zenon
    <3> QED
      BY <1>3, <2>1, <3>3 DEF RxQueue
  <2>6. RxInOrder'
    BY <1>1, <1>3, <2>3, <2>5, NumbersNext DEF RxInOrder, RxQueue, RxHeld
  <2> QED
    BY <1>4, <2>4, <2>6
<1>6. CASE ~(Len(hwRx) < HwQueue)
  <2>1. hwRx' = hwRx /\ arrived' = arrived
    BY <1>6 DEF Arrive, HwReceive
  <2> QED
    BY <1>3, <1>4, <2>1 DEF FifoTypeOK, CanTypeOK, RxInOrder
<1> QED
  BY <1>5, <1>6

(* The processor takes the frame with the next number. *)
LEMMA TakesKeeps ==
    ASSUME FifoInv, ProcessorTakes PROVE FifoInv'
<1> USE FifoAssumption DEF FifoInv
<1>1. {chRx, RxHeld, hwRx, TxHeld, chTx} \subseteq Seq(Nat) /\ taken <= arrived
      /\ arrived \in Nat /\ taken \in Nat /\ written \in Nat /\ queued \in Nat
  BY FifoSeqs
<1>2. /\ UNCHANGED << canPc, canHeld, hwRx, chTx, arrived, queued, written >>
      /\ RxHeld' = RxHeld /\ TxHeld' = TxHeld /\ chRx # << >>
      /\ chRx' = Tail(chRx) /\ taken' = taken + 1
  BY DEF ProcessorTakes, RxHeld, TxHeld
<1>3. TxInOrder'
  BY <1>2 DEF TxInOrder, TxHeld
<1>4. RxQueue # << >> /\ Tail(RxQueue) = RxQueue'
  <2>1. chRx \o RxHeld \in Seq(Nat)
    BY <1>1, ConcatProperties
  <2>2. chRx \o RxHeld # << >> /\ Tail(chRx \o RxHeld) = Tail(chRx) \o RxHeld
    BY <1>1, <1>2, TailOfConcat
  <2>3. (chRx \o RxHeld) \o hwRx # << >>
        /\ Tail((chRx \o RxHeld) \o hwRx) = Tail(chRx \o RxHeld) \o hwRx
    BY <1>1, <2>1, <2>2, TailOfConcat
  <2> QED
    BY <1>2, <2>2, <2>3 DEF RxQueue
<1>5. RxQueue = Numbers(taken, arrived)
  BY DEF RxInOrder, RxQueue, RxHeld
<1>6. taken < arrived /\ RxQueue' = Numbers(taken + 1, arrived)
  BY <1>1, <1>4, <1>5, NumbersTail
<1>7. RxInOrder'
  BY <1>2, <1>6 DEF RxInOrder, RxQueue, RxHeld
<1>8. FifoTypeOK'
  <2>1. chRx \in Seq(RxFrame) /\ Tail(chRx) \in Seq(RxFrame) /\ Len(Tail(chRx)) = Len(chRx) - 1
        /\ Len(chRx) \in Nat /\ Len(chRx) <= FRAME_BUFFER
    BY <1>2, HeadTailProperties, LenProperties DEF FifoTypeOK, CanTypeOK
  <2>2. taken + 1 \in 0 .. arrived
    BY <1>1, <1>6
  <2> QED
    BY <1>2, <2>1, <2>2 DEF FifoTypeOK, CanTypeOK
<1> QED
  BY <1>3, <1>7, <1>8

(* What the processor sends goes to the end of the queue, or is dropped. *)
LEMMA SendsKeeps ==
    ASSUME FifoInv, ProcessorSends PROVE FifoInv'
<1> USE FifoAssumption DEF FifoInv
<1>1. {chRx, RxHeld, hwRx, TxHeld, chTx} \subseteq Seq(Nat) /\ written <= queued
      /\ arrived \in Nat /\ taken \in Nat /\ written \in Nat /\ queued \in Nat
  BY FifoSeqs
<1>2. queued + 1 \in TxFrame /\ queued + 1 \in Nat /\ queued < MaxFrames
  BY <1>1 DEF ProcessorSends
<1>3. /\ UNCHANGED << canPc, canHeld, hwRx, chRx, arrived, taken, written >>
      /\ RxHeld' = RxHeld /\ TxHeld' = TxHeld
  BY DEF ProcessorSends, RxHeld, TxHeld
<1>4. RxInOrder'
  BY <1>3 DEF RxInOrder, RxHeld
<1>5. CASE ~Full(chTx)
  <2>1. chTx' = Append(chTx, queued + 1)
    BY <1>5 DEF ProcessorSends, TrySend
  <2>2. chTx \in Seq(TxFrame) /\ chTx' \in Seq(TxFrame) /\ Len(chTx') = Len(chTx) + 1
        /\ Len(chTx) \in Nat /\ Len(chTx') <= FRAME_BUFFER
    BY <1>2, <1>5, <2>1, AppendProperties, LenProperties DEF FifoTypeOK, CanTypeOK, Full
  <2>3. queued' = queued + 1
    BY <2>2 DEF ProcessorSends
  <2>4. FifoTypeOK'
    BY <1>1, <1>2, <1>3, <2>2, <2>3 DEF FifoTypeOK, CanTypeOK
  <2>5. TxQueue' = Append(TxQueue, queued + 1)
    <3>1. TxHeld \in Seq(Nat) /\ chTx \in Seq(Nat)
      BY <1>1
    <3>2. TxHeld \o Append(chTx, queued + 1) = Append(TxHeld \o chTx, queued + 1)
      BY <1>2, <3>1, QueuesOfNumbers, Zenon
    <3> QED
      BY <1>3, <2>1, <3>2 DEF TxQueue
  <2>6. TxInOrder'
    BY <1>1, <1>3, <2>3, <2>5, NumbersNext DEF TxInOrder, TxQueue, TxHeld
  <2> QED
    BY <1>4, <2>4, <2>6
<1>6. CASE Full(chTx)
  <2>1. chTx' = chTx /\ queued' = queued
    BY <1>6 DEF ProcessorSends, TrySend
  <2> QED
    BY <1>3, <1>4, <2>1 DEF FifoTypeOK, CanTypeOK, TxInOrder
<1> QED
  BY <1>5, <1>6

(* The frame written is the one with the next number. *)
LEMMA WrittenKeeps ==
    ASSUME FifoInv, Written PROVE FifoInv'
<1> USE FifoAssumption DEF FifoInv
<1>1. {chRx, RxHeld, hwRx, TxHeld, chTx} \subseteq Seq(Nat) /\ written <= queued
      /\ arrived \in Nat /\ taken \in Nat /\ written \in Nat /\ queued \in Nat
  BY FifoSeqs
<1>2. /\ UNCHANGED << hwRx, chRx, chTx, arrived, taken, queued >>
      /\ canPc = "write" /\ canPc' = "select" /\ canHeld' = << >> /\ written' = written + 1
  BY DEF Written, CanWritten
<1>3. RxHeld = << >> /\ RxHeld' = << >> /\ TxHeld = canHeld /\ TxHeld' = << >>
  BY <1>2 DEF RxHeld, TxHeld
<1>4. RxInOrder'
  BY <1>2, <1>3 DEF RxInOrder, RxHeld
<1>5. TxHeld # << >> /\ Tail(TxHeld) = << >>
  <2>1. PICK f \in TxFrame : canHeld = << f >>
    BY <1>2 DEF FifoTypeOK, CanTypeOK
  <2> QED
    BY <1>3, <2>1
<1>6. TxQueue # << >> /\ Tail(TxQueue) = << >> \o chTx
  BY <1>1, <1>5, TailOfConcat DEF TxQueue
<1>7. TxQueue = Numbers(written, queued)
  BY DEF TxInOrder, TxQueue, TxHeld
<1>8. written < queued /\ << >> \o chTx = Numbers(written + 1, queued)
  BY <1>1, <1>6, <1>7, NumbersTail
<1>9. TxInOrder'
  BY <1>2, <1>3, <1>8 DEF TxInOrder, TxHeld
<1>10. FifoTypeOK'
  <2>1. written + 1 \in 0 .. queued
    BY <1>1, <1>8
  <2> QED
    BY <1>2, <2>1 DEF FifoTypeOK, CanTypeOK
<1> QED
  BY <1>4, <1>9, <1>10

(* The loop keeps types and capacities; the queues it leaves as they are. *)
LEMMA LoopKeeps ==
    ASSUME FifoInv, Loop PROVE FifoInv'
<1> USE FifoAssumption DEF FifoInv, Loop, counters
<1>1. RxQueue' = RxQueue /\ TxQueue' = TxQueue
  BY LoopKeepsQueues
<1>2. RxInOrder' /\ TxInOrder'
  BY <1>1 DEF RxInOrder, TxInOrder, RxQueue, TxQueue, RxHeld, TxHeld
<1>3. CanTypeOK'
  <2> USE DEF FifoTypeOK, CanTypeOK
  <2>1. CASE CanRead
    <3>1. Head(hwRx) \in RxFrame /\ Tail(hwRx) \in Seq(RxFrame)
          /\ Len(Tail(hwRx)) = Len(hwRx) - 1 /\ Len(hwRx) \in Nat
      BY <2>1, HeadTailProperties, LenProperties DEF CanRead
    <3>2. CASE Full(chRx)
      BY <2>1, <3>1, <3>2 DEF CanRead
    <3>3. CASE ~Full(chRx)
      <4>1. Append(chRx, Head(hwRx)) \in Seq(RxFrame)
            /\ Len(Append(chRx, Head(hwRx))) = Len(chRx) + 1 /\ Len(chRx) \in Nat
        BY <3>1, AppendProperties, LenProperties
      <4>2. /\ chRx' = Append(chRx, Head(hwRx)) /\ hwRx' = Tail(hwRx)
            /\ canPc = "select" /\ UNCHANGED << canPc, canHeld, chTx >>
        BY <2>1, <3>3 DEF CanRead
      <4>3. chRx' \in Seq(RxFrame) /\ Len(chRx') <= FRAME_BUFFER
        BY <3>3, <4>1, <4>2 DEF Full
      <4>4. hwRx' \in Seq(RxFrame) /\ Len(hwRx') <= HwQueue
        BY <3>1, <4>2
      <4> QED
        BY <4>2, <4>3, <4>4
    <3> QED
      BY <3>2, <3>3
  <2>2. CASE CanForward
    <3>1. PICK f \in RxFrame : canHeld = << f >>
      BY <2>2 DEF CanForward
    <3>2. chRx \o << f >> = Append(chRx, f)
      BY AppendIsConcat
    <3>3. Append(chRx, f) \in Seq(RxFrame) /\ Len(Append(chRx, f)) = Len(chRx) + 1
          /\ Len(chRx) \in Nat
      BY AppendProperties, LenProperties
    <3> QED
      BY <2>2, <3>1, <3>2, <3>3 DEF CanForward, Full
  <2>3. CASE CanReadError \/ CanBackoffDone
    BY <2>3 DEF CanReadError, CanBackoffDone
  <2>4. CASE CanTakeTx
    <3>1. Head(chTx) \in TxFrame /\ Tail(chTx) \in Seq(TxFrame)
          /\ Len(Tail(chTx)) = Len(chTx) - 1 /\ Len(chTx) \in Nat
      BY <2>4, HeadTailProperties, LenProperties DEF CanTakeTx
    <3> QED
      BY <2>4, <3>1 DEF CanTakeTx
  <2> QED
    BY <2>1, <2>2, <2>3, <2>4 DEF CanStep
<1>4. FifoTypeOK'
  BY <1>3 DEF FifoTypeOK
<1> QED
  BY <1>2, <1>4

-----------------------------------------------------------------------------
(* From reset to the loop: CAN_READY and what follows it only once CAN1    *)
(* runs, CAN1 only with its filters, and nothing received or in hand       *)
(* before CAN2 runs.                                                       *)
StartInv ==
    /\ CAN_READY \/ start2 # "wait" => start1 = "run"
    /\ start1 # "init" => filters
    /\ start2 # "run" => hwRx = << >> /\ chRx = << >> /\ canPc = "select"

InterfacesInv == FifoInv /\ StartInv

(* Each step of either task, the bus and the processor keeps both. *)
LEMMA InterfacesInductive ==
    InterfacesInv /\ [InterfacesNext]_interfaceVars => InterfacesInv'
<1> SUFFICES ASSUME InterfacesInv, [InterfacesNext]_interfaceVars PROVE InterfacesInv'
  OBVIOUS
<1> USE DEF InterfacesInv
<1>1. ASSUME UNCHANGED fifoVars PROVE FifoInv'
  BY <1>1 DEF fifoVars, canVars, counters, FifoInv, FifoTypeOK, CanTypeOK, RxInOrder, TxInOrder
<1>2. CASE Can1Init
  BY <1>1, <1>2 DEF Can1Init, StartInv, fifoVars, canVars
<1>3. CASE Can1Enabled
  BY <1>1, <1>3 DEF Can1Enabled, StartInv, fifoVars, canVars
<1>4. CASE Can2Init
  BY <1>1, <1>4 DEF Can2Init, StartInv, fifoVars, canVars
<1>5. CASE Can2Enabled
  BY <1>1, <1>5 DEF Can2Enabled, StartInv, fifoVars, canVars
<1>6. CASE Bus2
  BY <1>6, ArriveKeeps DEF Bus2, StartInv, startVars
<1>7. CASE Loop2
  BY <1>7, LoopKeeps, WrittenKeeps DEF Loop2, StartInv, startVars
<1>8. CASE Processor2
  <2>1. FifoInv'
    BY <1>8, TakesKeeps, SendsKeeps DEF Processor2
  <2>2. StartInv'
    BY <1>8 DEF Processor2, StartInv, startVars, ProcessorTakes, ProcessorSends
  <2> QED
    BY <2>1, <2>2
<1>9. CASE UNCHANGED interfaceVars
  BY <1>1, <1>9 DEF interfaceVars, startVars, StartInv, fifoVars, canVars
<1> QED
  BY <1>2, <1>3, <1>4, <1>5, <1>6, <1>7, <1>8, <1>9 DEF InterfacesNext

(* From reset on, order, capacities and start order are kept together. *)
THEOREM InterfacesInvariant == InterfacesSpec => []InterfacesInv
<1>1. InterfacesInit => InterfacesInv
  <2> SUFFICES ASSUME InterfacesInit PROVE InterfacesInv
    OBVIOUS
  <2> USE FifoAssumption DEF InterfacesInit, FifoInit, CanInit
  <2>1. FifoTypeOK /\ StartInv
    BY DEF FifoTypeOK, CanTypeOK, StartInv
  <2>2. << >> \o << >> = << >>
    BY ConcatEmptySeq, EmptySeq
  <2>3. Numbers(0, 0) = << >>
    <3>1. 0 \in Nat /\ 0 <= 0 /\ 0 - 0 = 0
      OBVIOUS
    <3>2. Numbers(0, 0) \in Seq(Nat) /\ Len(Numbers(0, 0)) = 0 - 0
      BY <3>1, NumbersSeq, Zenon
    <3> QED
      BY <3>1, <3>2, EmptySeq
  <2>4. RxInOrder /\ TxInOrder
    BY <2>2, <2>3 DEF RxInOrder, TxInOrder
  <2> QED
    BY <2>1, <2>4 DEF InterfacesInv, FifoInv
<1> QED
  BY <1>1, InterfacesInductive, PTL DEF InterfacesSpec

(* No channel ever exceeds its capacity, and no counter of frames overtakes *)
(* the one before it, for every capacity.                                  *)
THEOREM ChannelsBounded == InterfacesSpec => []FifoTypeOK
<1>1. InterfacesInv => FifoTypeOK
  BY DEF InterfacesInv, FifoInv
<1> QED
  BY <1>1, InterfacesInvariant, PTL

(* What the controller accepts reaches the processor once and in order, for *)
(* every capacity and however long the processor takes.                    *)
THEOREM ReceivesInOrder == InterfacesSpec => []RxInOrder
<1>1. InterfacesInv => RxInOrder
  BY DEF InterfacesInv, FifoInv
<1> QED
  BY <1>1, InterfacesInvariant, PTL

(* What the processor gets into the channel is written once and in order. *)
THEOREM TransmitsInOrder == InterfacesSpec => []TxInOrder
<1>1. InterfacesInv => TxInOrder
  BY DEF InterfacesInv, FifoInv
<1> QED
  BY <1>1, InterfacesInvariant, PTL

(* CAN2 neither starts nor moves a frame before CAN1 has set the filters of *)
(* both, in whatever order the tasks are first polled.                     *)
THEOREM FiltersAlwaysFirst == InterfacesSpec => []FiltersFirst
<1>1. InterfacesInv => FiltersFirst
  BY DEF InterfacesInv, StartInv, FiltersFirst
<1> QED
  BY <1>1, InterfacesInvariant, PTL
=============================================================================
