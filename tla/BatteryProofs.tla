---------------------------- MODULE BatteryProofs ----------------------------
(***************************************************************************)
(* The battery side for every channel capacity, time-out and number of     *)
(* frames: each build implements BmsFeed, the wedge of a ze40 build has no *)
(* way out, and the key counters stay in range.                            *)
(***************************************************************************)
EXTENDS BatterySide, TLAPS

(* A step of the ze40 data path is a step of the feed or leaves it alone.  *)
LEMMA Ze40Feeds == Ze40!Ze40Next => [Feed!FeedNext]_(Feed!feedVars)
<1> SUFFICES ASSUME Ze40!Ze40Next PROVE [Feed!FeedNext]_(Feed!feedVars)
  OBVIOUS
<1>1. CASE Ze40!Update
  BY <1>1 DEF Ze40!Update, Feed!FeedNext, Feed!Deliver
<1>2. CASE Ze40!Clock
  BY <1>2 DEF Ze40!Clock, Ze40!Feed!Second, Ze40!Feed!NotSeen, Feed!FeedNext, Feed!Second, Feed!NotSeen
<1>3. CASE UNCHANGED << last, valid >>
  BY <1>3 DEF Feed!feedVars
<1>4. CASE Ze40!IgnoreFrame \/ (\E t \in {"tx"} : Ze40!RequestNext(t) \/ Ze40!SendResumes(t) \/ Ze40!Periodic(t))
  BY <1>3, <1>4 DEF Ze40!IgnoreFrame, Ze40!RequestNext, Ze40!SendResumes, Ze40!Periodic
<1>5. CASE Ze40!Battery \/ Ze40!CanLoop \/ Ze40!Written
  BY <1>3, <1>5 DEF Ze40!Battery, Ze40!CanLoop, Ze40!Written
<1> QED  BY <1>1, <1>2, <1>4, <1>5 DEF Ze40!Ze40Next, Ze40!Processor

(* The same of ze50, whose periodic task stamps as well as its receiver.   *)
LEMMA Ze50Feeds ==
    ASSUME valid \in BOOLEAN, Ze50!Ze50Next PROVE [Feed!FeedNext]_(Feed!feedVars)
<1>1. CASE Ze50!RxPayload
  BY <1>1 DEF Ze50!RxPayload, Feed!FeedNext, Feed!Deliver
<1>2. CASE Ze50!Clock
  BY <1>2 DEF Ze50!Clock, Ze50!Feed!Second, Ze50!Feed!NotSeen, Feed!FeedNext, Feed!Second, Feed!NotSeen
<1>3. CASE UNCHANGED << last, valid >>
  BY <1>3 DEF Feed!feedVars
<1>4. ASSUME NEW t \in {"tx"}, Ze50!TxRequest(t) PROVE [Feed!FeedNext]_(Feed!feedVars)
  BY <1>3, <1>4 DEF Ze50!TxRequest, Ze50!PushReadings, Feed!FeedNext, Feed!Deliver
<1>5. CASE Ze50!RxIgnore \/ \E t \in {"tx"} : Ze50!TxStart(t) \/ Ze50!TxPreamble(t)
  BY <1>3, <1>5 DEF Ze50!RxIgnore, Ze50!TxStart, Ze50!TxPreamble
<1>6. CASE Ze50!Battery \/ Ze50!CanLoop \/ Ze50!Written
  BY <1>3, <1>6 DEF Ze50!Battery, Ze50!CanLoop, Ze50!Written, Ze50!others
<1> QED  BY <1>1, <1>2, <1>4, <1>5, <1>6 DEF Ze50!Ze50Next, Ze50!Processor, Ze50!Periodic

(* The same of tesla_m3, where an update may fail without a stamp.         *)
LEMMA TeslaFeeds ==
    ASSUME valid \in BOOLEAN, TeslaM3!TeslaNext PROVE [Feed!FeedNext]_(Feed!feedVars)
<1>1. ASSUME NEW r \in TeslaM3!Reports, TeslaM3!RxUpdate(r) PROVE [Feed!FeedNext]_(Feed!feedVars)
  BY <1>1 DEF TeslaM3!RxUpdate, Feed!FeedNext, Feed!Deliver, Feed!Spoil, Feed!feedVars
<1>2. CASE TeslaM3!Clock
  BY <1>2 DEF TeslaM3!Clock, TeslaM3!Feed!Second, TeslaM3!Feed!NotSeen, Feed!FeedNext, Feed!Second, Feed!NotSeen
<1>3. CASE UNCHANGED << last, valid >>
  BY <1>3 DEF Feed!feedVars
<1>4. CASE TeslaM3!RxUndecoded \/ \E r \in TeslaM3!Reports : TeslaM3!RxDecoded(r)
  BY <1>3, <1>4 DEF TeslaM3!RxUndecoded, TeslaM3!RxDecoded
<1>5. CASE TeslaM3!TxBoot \/ \E t \in {"tx"} : TeslaM3!TxSend(t)
  BY <1>3, <1>5 DEF TeslaM3!TxBoot, TeslaM3!TxSend
<1>6. CASE TeslaM3!Battery \/ TeslaM3!CanLoop \/ TeslaM3!Written
  BY <1>3, <1>6 DEF TeslaM3!Battery, TeslaM3!CanLoop, TeslaM3!Written, TeslaM3!others
<1> QED  BY <1>1, <1>2, <1>4, <1>5, <1>6 DEF TeslaM3!TeslaNext, TeslaM3!Processor, TeslaM3!Periodic

-----------------------------------------------------------------------------
(* Whatever the build, a step is a step of the feed or leaves it alone.    *)
LEMMA BatteryFeeds ==
    ASSUME valid \in BOOLEAN, [BatteryNext]_batteryVars
    PROVE  [Feed!FeedNext]_(Feed!feedVars)
<1>1. CASE Ze40!Ze40Next
  BY <1>1, Ze40Feeds
<1>2. CASE Ze50!Ze50Next
  BY <1>2, Ze50Feeds
<1>3. CASE TeslaM3!TeslaNext
  BY <1>3, TeslaFeeds
<1>4. CASE UNCHANGED << last, valid >>
  BY <1>4 DEF Feed!feedVars
<1>5. CASE InKeys(Keys!KeysNext) \/ UNCHANGED batteryVars
  BY <1>4, <1>5 DEF InKeys, batteryVars
<1> QED  BY <1>1, <1>2, <1>3, <1>5 DEF BatteryNext, In40, In50, InTesla

(* LAST_BMS_MESSAGE and BMS.valid change only as BmsFeed allows, in every  *)
(* build: data becomes valid only in a step that also stamps it.           *)
THEOREM BatteryImplementsFeed == BatterySpec => ImplementsFeed
<1>1. BatteryInit => Feed!FeedInit
  BY DEF BatteryInit, Ze40!Ze40Init, Ze50!Ze50Init, TeslaM3!TeslaInit, Ze40!Feed!FeedInit,
         Ze50!Feed!FeedInit, TeslaM3!Feed!FeedInit, Feed!FeedInit, Ze40!Feed!NotSeen,
         Ze50!Feed!NotSeen, TeslaM3!Feed!NotSeen, Feed!NotSeen
<1>2. Feed!FeedInit => valid \in BOOLEAN
  BY DEF Feed!FeedInit
<1>3. valid \in BOOLEAN /\ [Feed!FeedNext]_(Feed!feedVars) => (valid \in BOOLEAN)'
  BY DEF Feed!FeedNext, Feed!Deliver, Feed!Spoil, Feed!Second, Feed!feedVars
<1>4. valid \in BOOLEAN /\ [BatteryNext]_batteryVars => [Feed!FeedNext]_(Feed!feedVars)
  BY BatteryFeeds
<1> QED  BY <1>1, <1>2, <1>3, <1>4, PTL DEF BatterySpec, ImplementsFeed, Feed!FeedSafety

(* Once bms_task and bms_rx of a ze40 build wait for each other's channel  *)
(* they do so for ever, whatever arrives and whatever the periodic task    *)
(* tries to send.                                                          *)
THEOREM Ze40WedgeIsForever == BatterySpec => WedgeIsForever
<1>1. ASSUME Ze40!Ze40Next, Ze40!Wedged PROVE Ze40!Wedged'
  <2> USE DEF Ze40!Wedged, Ze40!Full
  <2>1. CASE Ze40!Processor
    BY <1>1, <2>1 DEF Ze40!Processor, Ze40!IgnoreFrame, Ze40!Update, Ze40!RequestNext,
                      Ze40!SendResumes, Ze40!Receive
  <2>2. ASSUME NEW t \in {"tx"}, Ze40!Periodic(t) PROVE Ze40!Wedged'
    BY <1>1, <2>2 DEF Ze40!Periodic, Ze40!TrySend
  <2>3. CASE Ze40!Battery
    BY <1>1, <2>3 DEF Ze40!Battery, Ze40!HwReceive
  <2>4. CASE Ze40!CanLoop
    BY <1>1, <2>4 DEF Ze40!CanLoop, Ze40!CanStep, Ze40!CanRead, Ze40!CanForward,
                      Ze40!CanReadError, Ze40!CanBackoffDone, Ze40!CanTakeTx
  <2>5. CASE Ze40!Written
    BY <1>1, <2>5 DEF Ze40!Written, Ze40!CanWritten
  <2>6. CASE Ze40!Clock
    BY <1>1, <2>6 DEF Ze40!Clock, Ze40!canVars
  <2> QED  BY <1>1, <2>1, <2>2, <2>3, <2>4, <2>5, <2>6 DEF Ze40!Ze40Next
<1>2. [BatteryNext]_batteryVars =>
        [build = "ze40" /\ Ze40!Wedged => Ze40!Wedged']_batteryVars
  BY <1>1 DEF BatteryNext, In40, In50, InTesla, InKeys
<1> QED  BY <1>2, PTL DEF BatterySpec, WedgeIsForever

(* The key counters never leave 0..3 and never count both, over any        *)
(* sequence of key frames: their unchecked increments cannot overflow.     *)
THEOREM KeyCountersStayBounded == BatterySpec => []KeyCountersBounded
<1> USE DEF KeyCountersBounded, Keys!KeyCountersBounded
<1>1. BatteryInit => KeyCountersBounded
  <2>1. BatteryInit => faa = 0 /\ f55 = 0
    BY Zenon DEF BatteryInit, Keys!KeysInit
  <2> QED  BY <2>1
<1>2. ASSUME KeyCountersBounded, [BatteryNext]_batteryVars PROVE KeyCountersBounded'
  <2>1. CASE UNCHANGED << faa, f55 >>
    BY <1>2, <2>1
  <2>2. ASSUME NEW aa \in BOOLEAN, Keys!X445(aa) PROVE KeyCountersBounded'
    BY <1>2, <2>2 DEF Keys!X445
  <2>3. CASE InKeys(Keys!KeysNext)
    BY <2>1, <2>2, <2>3 DEF InKeys, Keys!KeysNext, Keys!Preamble
  <2>4. CASE UNCHANGED batteryVars
    BY <2>1, <2>4 DEF batteryVars, keysOwn
  <2>5. CASE In40(Ze40!Ze40Next) \/ In50(Ze50!Ze50Next) \/ InTesla(TeslaM3!TeslaNext)
    BY <2>1, <2>5 DEF In40, In50, InTesla, keysOwn
  <2> QED  BY <1>2, <2>3, <2>4, <2>5 DEF BatteryNext
<1> QED  BY <1>1, <1>2, PTL DEF BatterySpec

(* How many of the five preambles of the key that is due were offered in   *)
(* the present turn.                                                       *)
Offered == IF lbc_key = "X5d" THEN counter - 1
           ELSE IF counter = 0 THEN 4 ELSE counter - 6

(* Where the counter is in its round says which key is due. *)
KeyTurn ==
    \/ /\ counter = 0 /\ lbc_key = "None" /\ queuedKey = "None" /\ queuedRun = 0
       /\ before = 0 /\ during = 0 /\ gap = 0
    \/ counter \in 1..5 /\ lbc_key = "X5d"
    \/ counter \in {0} \union (6..9) /\ lbc_key = "Xb2"

(* The history against the turn.  While the key due is the one last        *)
(* queued, its run lies in this turn unless a whole turn was dropped, and  *)
(* everything offered in this turn was queued or dropped since the other   *)
(* key's last.  While it is not, all of this turn was dropped, and the     *)
(* turn before was queued or dropped in full.                              *)
KeyRound ==
    /\ KeyTurn
    /\ queuedKey \in {"None", "X5d", "Xb2"}
    /\ queuedRun \in 0..6 /\ before \in 0..5 /\ during \in 0..5 /\ gap \in 0..5
    /\ queuedKey = "None" => queuedRun <= 1
    /\ queuedRun > 5 => during = 5
    /\ lbc_key # "None" =>
         /\ queuedKey = lbc_key =>
              /\ during + gap < 5 => queuedRun + during + gap <= Offered
              /\ before + queuedRun + during + gap >= Offered
         /\ queuedKey # lbc_key => gap >= Offered
         /\ queuedKey \notin {lbc_key, "None"} => before + queuedRun + during + gap >= 5

(* The two keys are queued by turns of five but for what a full channel    *)
(* drops, for as long as the battery is polled: the ranges of the preamble *)
(* counter leave no gap, and a drop never shifts the turns.                *)
THEOREM KeysAlwaysAlternate == BatterySpec => KeysAlternateEveryFive
<1>1. BatteryInit => KeyRound
  <2>1. BatteryInit => /\ counter = 0 /\ lbc_key = "None" /\ queuedKey = "None"
                       /\ queuedRun = 0 /\ before = 0 /\ during = 0 /\ gap = 0
    BY Zenon DEF BatteryInit, Keys!KeysInit
  <2> QED  BY <2>1 DEF KeyRound, KeyTurn
<1>2. ASSUME KeyRound, [BatteryNext]_batteryVars PROVE KeyRound' /\ [Keys!KeyStep]_batteryVars
  <2>1. CASE UNCHANGED << counter, lbc_key, queuedKey, queuedRun, before, during, gap >>
    <3>1. KeyRound'
      BY <1>2, <2>1 DEF KeyRound, KeyTurn, Offered
    <3>2. Keys!KeyStep
      BY <1>2, <2>1 DEF KeyRound, Keys!KeyStep, Keys!MAX_DROPS
    <3> QED  BY <3>1, <3>2
  <2>2. CASE Keys!Preamble(TRUE)
    <3> USE DEF Keys!Preamble, Keys!Dropped, Keys!UpTo, Keys!MAX_DROPS
    <3>1. KeyTurn' /\ (queuedKey' = queuedKey /\ queuedRun' = queuedRun)
      BY <1>2, <2>2 DEF KeyRound, KeyTurn, Keys!NextKey
    <3>2. KeyRound'
      BY <1>2, <2>2, <3>1 DEF KeyRound, KeyTurn, Offered, Keys!NextKey
    <3>3. Keys!KeyStep
      BY <1>2, <2>2, <3>1 DEF KeyRound, Keys!KeyStep
    <3> QED  BY <3>2, <3>3
  <2>3. CASE Keys!Preamble(FALSE)
    <3> USE DEF Keys!Preamble, Keys!Queued, Keys!UpTo, Keys!MAX_DROPS, Keys!MAX_RUN
    <3>1. KeyTurn' /\ queuedKey' = lbc_key /\ gap' = 0
      BY <1>2, <2>3 DEF KeyRound, KeyTurn, Keys!NextKey
    <3>2. KeyRound'
      <4>1. CASE lbc_key = "None"
        BY <1>2, <2>3, <3>1, <4>1 DEF KeyRound, KeyTurn, Offered, Keys!NextKey
      <4>2. CASE lbc_key # "None" /\ lbc_key = queuedKey
        <5>1. PICK o \in 0..4 : o = Offered
          BY <1>2, <4>2 DEF KeyRound, KeyTurn, Offered
        <5>2. /\ o < 4 => lbc_key' = lbc_key /\ Offered' = o + 1
              /\ o = 4 => lbc_key' \notin {lbc_key, "None"} /\ Offered' = 0
          BY <1>2, <2>3, <4>2, <5>1 DEF KeyRound, KeyTurn, Offered, Keys!NextKey
        <5>3. PICK r \in 0..6, b \in 0..5, d \in 0..5, g \in 0..5 :
                r = queuedRun /\ b = before /\ d = during /\ g = gap
          BY <1>2 DEF KeyRound
        <5>4. /\ d + g < 5 => r + d + g <= o
              /\ b + r + d + g >= o
              /\ r > 5 => d = 5
          BY <1>2, <4>2, <5>1, <5>3 DEF KeyRound
        <5>5. /\ queuedRun' = IF r + 1 > 6 THEN 6 ELSE r + 1
              /\ during' = IF d + g > 5 THEN 5 ELSE d + g
              /\ before' = b
          BY <2>3, <4>2, <5>3
        <5>6. PICK r1 \in 0..6, d1 \in 0..5 :
                /\ r1 = queuedRun' /\ d1 = during'
                /\ d1 < 5 => r1 + d1 <= o + 1
                /\ b + r1 + d1 >= o + 1
                /\ r1 > 5 => d1 = 5
          BY <5>4, <5>5
        <5>7. queuedKey' = lbc_key /\ queuedKey' \in {"X5d", "Xb2"}
          BY <1>2, <3>1, <4>2 DEF KeyRound, KeyTurn
        <5>8. CASE o < 4
          BY <3>1, <4>2, <5>2, <5>5, <5>6, <5>7, <5>8 DEF KeyRound
        <5>9. CASE o = 4
          BY <3>1, <4>2, <5>2, <5>5, <5>6, <5>7, <5>9 DEF KeyRound
        <5> QED  BY <5>8, <5>9
      <4>3. CASE lbc_key # "None" /\ lbc_key # queuedKey
        BY <1>2, <2>3, <3>1, <4>3 DEF KeyRound, KeyTurn, Offered, Keys!NextKey
      <4> QED  BY <4>1, <4>2, <4>3
    <3>3. Keys!KeyStep
      BY <1>2, <2>3 DEF KeyRound, KeyTurn, Offered, Keys!KeyStep
    <3> QED  BY <3>2, <3>3
  <2>4. CASE InKeys(Keys!KeysNext)
    BY <2>1, <2>2, <2>3, <2>4 DEF InKeys, Keys!KeysNext, Keys!X445, Keys!history
  <2>5. CASE UNCHANGED batteryVars
    BY <2>1, <2>5 DEF batteryVars, keysOwn
  <2>6. CASE In40(Ze40!Ze40Next) \/ In50(Ze50!Ze50Next) \/ InTesla(TeslaM3!TeslaNext)
    BY <2>1, <2>6 DEF In40, In50, InTesla, keysOwn
  <2> QED  BY <1>2, <2>4, <2>5, <2>6 DEF BatteryNext
<1> QED  BY <1>1, <1>2, PTL DEF BatterySpec, KeysAlternateEveryFive
=============================================================================
