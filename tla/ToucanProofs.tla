---------------------------- MODULE ToucanProofs -----------------------------
(***************************************************************************)
(* Safety of the control path of module Toucan for every capacity, delay,  *)
(* time-out, answer length and inverter.                                   *)
(***************************************************************************)
EXTENDS Toucan, SequenceTheorems, TLAPS

(* The contactor task is idle, all outputs are off and no "close" waits. *)
Quiet ==
    /\ ~enabled /\ ~pre /\ ~active
    /\ contactorPc = "wait"
    /\ CONTACTOR_STATE # "close"

(* Until the battery is heard nothing valid is known, no answer is under   *)
(* way, and the contactor is quiet.                                        *)
UnseenQuiet == last = NotSeen => Quiet /\ ~valid /\ invPc # "reply"

(* A fault is only known to builds with the Solax task; a build that does  *)
(* not drive the contactor never records a "close".                        *)
FaultOwner ==
    /\ inverter # "solax" => fault = "None"
    /\ ~DrivesContactor => lastCmd = "open"

AgeOK == last \in -1..(Timeout + 1)

ControlInv == AgeOK /\ UnseenQuiet /\ FaultMeansOpen /\ FaultOwner

-----------------------------------------------------------------------------
(* A quiet contactor task stays quiet: there is no "close" to act on. *)
LEMMA QuietStep ==
  ASSUME Quiet, ContactorStep \/ ContactorTick
  PROVE  Quiet'
<1> USE DEF Quiet
<1>1. CASE ContactorTick
  BY <1>1 DEF ContactorTick
<1>2. CASE TurnOff
  BY <1>2 DEF TurnOff
<1>3. CASE NothingToDo
  BY <1>3 DEF NothingToDo, Take, taskVars
<1>4. CASE TurnOn
  BY <1>4 DEF TurnOn, Take
<1>5. CASE PrechargeDone \/ PullInDone
  BY <1>5 DEF PrechargeDone, PullInDone
<1> QED  BY <1>1, <1>2, <1>3, <1>4, <1>5 DEF ContactorStep

(* Everything is off and unseen at reset. *)
LEMMA ControlInit == ToucanInit => ControlInv
  BY LinkAssumption
  DEF ToucanInit, ContactorInit, FeedInit, SolaxInit, ControlInv, AgeOK, UnseenQuiet, Quiet,
      FaultMeansOpen, FaultOwner, NotSeen

(* Steps of the environment, of CAN2 and of the contactor task. *)
LEMMA OtherSteps ==
  ASSUME ControlInv,
         \/ ContactorTask \/ ContactorTimer \/ Can2Task \/ Can2Written \/ InverterFrame
         \/ BmsUpdate \/ BmsSpoiled \/ Clock \/ UNCHANGED vars
  PROVE  ControlInv'
<1> USE DEF ControlInv
<1>1. CASE ContactorTask \/ ContactorTimer
  <2>1. Quiet => Quiet'
    BY <1>1, QuietStep DEF ContactorTask, ContactorTimer
  <2>2. UNCHANGED <<feedVars, linkVars, solaxVars, inverter>>
    BY <1>1 DEF ContactorTask, ContactorTimer
  <2> QED  BY <2>1, <2>2 DEF AgeOK, UnseenQuiet, FaultMeansOpen, FaultOwner,
              feedVars, linkVars, solaxVars
<1>2. CASE Can2Task \/ Can2Written \/ InverterFrame \/ UNCHANGED vars
  <2>1. UNCHANGED <<contactorVars, feedVars, linkVars, solaxVars, inverter>>
    BY <1>2 DEF Can2Task, Can2Written, InverterFrame, vars
  <2> QED  BY <2>1 DEF AgeOK, UnseenQuiet, FaultMeansOpen, FaultOwner, Quiet,
              contactorVars, taskVars, feedVars, linkVars, solaxVars
<1>3. CASE BmsUpdate \/ BmsSpoiled \/ Clock
  <2>1. UNCHANGED <<contactorVars, linkVars, solaxVars, inverter>>
    BY <1>3 DEF BmsUpdate, BmsSpoiled, Clock
  <2>2. AgeOK' /\ (last' = NotSeen => last = NotSeen /\ (~valid => ~valid'))
    BY <1>3, LinkAssumption
    DEF BmsUpdate, BmsSpoiled, Clock, Deliver, Spoil, Second, AgeOK, NotSeen
  <2> QED  BY <2>1, <2>2 DEF UnseenQuiet, FaultMeansOpen, FaultOwner, Quiet,
              contactorVars, taskVars, linkVars, solaxVars
<1> QED  BY <1>1, <1>2, <1>3

(* What a step of any inverter task leaves alone. *)
LEMMA ElsewhereUnchanged ==
  ASSUME UNCHANGED Elsewhere
  PROVE  /\ UNCHANGED <<contactorPc, active, enabled, pre, last, valid>>
         /\ AgeOK => AgeOK'
  BY DEF Elsewhere, taskVars, feedVars, AgeOK

(* Where a command that is not "close" leaves the contactor. *)
LEMMA OrderOpen ==
  ASSUME Order("open"), UNCHANGED Elsewhere
  PROVE  /\ Quiet => Quiet'
         /\ lastCmd = "open" \/ DrivesContactor => lastCmd' = "open"
  BY ElsewhereUnchanged, LinkAssumption DEF Order, Signal, Quiet

(* The Solax task: it acts on a battery that was heard, or opens. *)
LEMMA SolaxSteps ==
  ASSUME ControlInv, inverter = "solax", SolaxStep, UNCHANGED inverter
  PROVE  ControlInv'
<1> USE DEF ControlInv, UnseenQuiet, FaultMeansOpen, FaultOwner
<1>0. UNCHANGED Elsewhere
  BY DEF SolaxStep, SolaxSkip, SolaxTimeout, SolaxCritical, SolaxNoAnswer, SolaxOtherError,
         SolaxReply, SolaxResume
<1>1. CASE SolaxSkip \/ SolaxNoAnswer
  BY <1>0, <1>1, ElsewhereUnchanged
  DEF SolaxSkip, SolaxNoAnswer, linkVars, solaxVars, Quiet
<1>2. CASE SolaxTimeout
  <2>1. Order("open") /\ UNCHANGED <<invPc, initalised, fault>>
    BY <1>2 DEF SolaxTimeout
  <2> QED  BY <1>0, <2>1, ElsewhereUnchanged, OrderOpen, LinkAssumption
<1>3. ASSUME last # NotSeen, NEW ok \in BOOLEAN, Conclude(ok) PROVE ControlInv'
  <2>1. AgeOK' /\ last' # NotSeen
    BY <1>0, <1>3, ElsewhereUnchanged DEF NotSeen
  <2>2. fault' = "InvFault" => lastCmd' = "open" /\ ~initalised'
    BY <1>3, LinkAssumption DEF Conclude, Order, Signal
  <2>3. ~DrivesContactor => lastCmd' = "open"
    BY <1>3 DEF Conclude, Order
  <2> QED  BY <2>1, <2>2, <2>3 DEF NotSeen
<1>4. CASE SolaxCritical \/ SolaxOtherError
  BY <1>3, <1>4 DEF SolaxCritical, SolaxOtherError, BmsSeen
<1>5. ASSUME last # NotSeen, AfterReply PROVE ControlInv'
  <2>1. CASE toSend' = 0
    BY <1>3, <1>5, <2>1 DEF AfterReply
  <2>2. CASE toSend' # 0
    BY <1>0, <1>5, <2>2, ElsewhereUnchanged DEF AfterReply, solaxVars, NotSeen
  <2> QED  BY <2>1, <2>2
<1>6. CASE (\E n \in 1..MaxReply : SolaxReply(n)) \/ SolaxResume
  BY <1>5, <1>6 DEF SolaxReply, SolaxResume, BmsSeen, Resumable
<1> QED  BY <1>1, <1>2, <1>4, <1>6 DEF SolaxStep

(* The Force H2 task: it closes on valid data only, which has been heard. *)
LEMMA H2Steps ==
  ASSUME ControlInv, inverter = "forceh2", H2Step, UNCHANGED <<solaxVars, inverter>>
  PROVE  ControlInv'
<1> USE DEF ControlInv, UnseenQuiet, FaultMeansOpen, FaultOwner, solaxVars
<1>0. UNCHANGED Elsewhere
  BY DEF H2Step, H2Skip, H2Timeout, H2Invalid, H2BadFrame, H2Reply, H2Resume
<1>1. CASE H2Skip \/ H2Invalid
  BY <1>0, <1>1, ElsewhereUnchanged DEF H2Skip, H2Invalid, linkVars, Quiet
<1>2. CASE H2Timeout \/ H2BadFrame
  <2>1. Order("open") /\ UNCHANGED invPc
    BY <1>2 DEF H2Timeout, H2BadFrame
  <2> QED  BY <1>0, <2>1, ElsewhereUnchanged, OrderOpen, LinkAssumption
<1>3. CASE (\E n \in 1..MaxReply : H2Reply(n)) \/ H2Resume
  <2>1. last # NotSeen /\ H2AfterReply
    BY <1>3 DEF H2Reply, H2Resume, Resumable
  <2>2. AgeOK' /\ last' # NotSeen
    BY <1>0, <2>1, ElsewhereUnchanged DEF NotSeen
  <2>3. ~DrivesContactor => lastCmd' = "open"
    BY <2>1 DEF H2AfterReply, Order
  <2> QED  BY <2>2, <2>3 DEF NotSeen
<1> QED  BY <1>1, <1>2, <1>3 DEF H2Step

(* The Pylontech task: every command it gives is "open". *)
LEMMA PylonSteps ==
  ASSUME ControlInv, inverter = "pylontech", PylonStep, UNCHANGED <<solaxVars, inverter>>
  PROVE  ControlInv'
<1> USE DEF ControlInv, UnseenQuiet, FaultMeansOpen, FaultOwner, solaxVars
<1>0. UNCHANGED Elsewhere
  BY DEF PylonStep, PylonTimeout, PylonInvalid, PylonSend, PylonResume
<1>1. Order("open") \/ UNCHANGED <<CONTACTOR_STATE, lastCmd>>
  BY DEF PylonStep, PylonTimeout, PylonInvalid, PylonSend, PylonResume, PylonAfterSend, linkVars
<1>2. (Quiet => Quiet') /\ lastCmd' \in {lastCmd, "open"}
  BY <1>0, <1>1, ElsewhereUnchanged, OrderOpen DEF Quiet
<1>3. last = NotSeen => UNCHANGED invPc
  BY DEF PylonStep, PylonTimeout, PylonInvalid, PylonSend, PylonResume, Resumable, linkVars
<1> QED  BY <1>0, <1>2, <1>3, ElsewhereUnchanged

(* ControlInv is an invariant of the control path. *)
THEOREM ControlInvariant == ToucanSpec => []ControlInv
<1>1. ControlInv /\ [ToucanNext]_vars => ControlInv'
  BY OtherSteps, SolaxSteps, H2Steps, PylonSteps DEF ToucanNext, InverterTask
<1> QED  BY ControlInit, <1>1, PTL DEF ToucanSpec

-----------------------------------------------------------------------------
(* With every inverter the contactors stay de-energised until the battery  *)
(* has been heard.                                                         *)
THEOREM NotEnergisedUnseen == ToucanSpec => []EnergisedMeansSeen
<1>1. ControlInv => EnergisedMeansSeen
  BY DEF ControlInv, UnseenQuiet, Quiet, EnergisedMeansSeen, Energised
<1> QED  BY ControlInvariant, <1>1, PTL

(* InvFault in GLOBALSTATE means the Solax task has commanded "open".      *)
THEOREM FaultKeepsOpen == ToucanSpec => []FaultMeansOpen
<1>1. ControlInv => FaultMeansOpen
  BY DEF ControlInv
<1> QED  BY ControlInvariant, <1>1, PTL

(* A "close" follows a freshness check: it is given on fresh data or at    *)
(* the end of an answer that was blocked after the check.                  *)
THEOREM ClosesOnFreshData == ToucanSpec => CloseOnFreshData
<1> DEFINE A == lastCmd = "open" /\ lastCmd' = "close"
                  => (last \in 0..Timeout) \/ invPc = "reply"
<1>1. ControlInv /\ [ToucanNext]_vars => [A]_vars
  <2> SUFFICES ASSUME ControlInv, ToucanNext, lastCmd = "open", lastCmd' = "close",
                      invPc # "reply"
               PROVE  last \in 0..Timeout
    OBVIOUS
  <2>1. InverterTask
    BY DEF ToucanNext, ContactorTask, ContactorTimer, Can2Task, Can2Written, InverterFrame,
           BmsUpdate, BmsSpoiled, Clock, linkVars
  <2>2. CASE SolaxStep
    BY <2>2, LinkAssumption
    DEF SolaxStep, SolaxSkip, SolaxTimeout, SolaxCritical, SolaxNoAnswer, SolaxOtherError,
        SolaxReply, SolaxResume, Resumable, Conclude, Order, BmsSeen, Stale, NotSeen,
        linkVars, ControlInv, AgeOK
  <2>3. CASE H2Step
    BY <2>3, LinkAssumption
    DEF H2Step, H2Skip, H2Timeout, H2Invalid, H2BadFrame, H2Reply, H2Resume, Resumable,
        Order, Stale, NotSeen, linkVars, ControlInv, AgeOK, UnseenQuiet
  <2>4. CASE PylonStep
    BY <2>4 DEF PylonStep, PylonTimeout, PylonInvalid, PylonSend, PylonResume,
                PylonAfterSend, Order, linkVars
  <2> QED  BY <2>1, <2>2, <2>3, <2>4 DEF InverterTask
<1> QED  BY ControlInvariant, <1>1, PTL DEF ToucanSpec, CloseOnFreshData

-----------------------------------------------------------------------------
(* Channel operations on the two kinds of frames. *)
LEMMA Channels ==
  ASSUME NEW S, NEW ch \in Seq(S)
  PROVE  /\ \A f \in S : Append(ch, f) \in Seq(S) /\ Len(Append(ch, f)) = Len(ch) + 1
         /\ ch # <<>> => /\ Head(ch) \in S /\ Tail(ch) \in Seq(S)
                         /\ Len(Tail(ch)) = Len(ch) - 1
         /\ \A f \in S : ch \o <<f>> \in Seq(S) /\ Len(ch \o <<f>>) = Len(ch) + 1
  OBVIOUS

(* The contactor task and its timer keep the contactor's types. *)
LEMMA ContactorTypes ==
  ASSUME ContactorTypeOK, ContactorStep \/ ContactorTick
  PROVE  ContactorTypeOK'
<1> USE ContactorAssumption DEF ContactorTypeOK, Command
<1>1. CASE TurnOff
  BY <1>1 DEF TurnOff, Take
<1>2. CASE NothingToDo
  BY <1>2 DEF NothingToDo, Take, taskVars
<1>3. CASE TurnOn
  <2>1. CASE Precharge
    BY <1>3, <2>1 DEF TurnOn, Take
  <2>2. CASE ~Precharge
    BY <1>3, <2>2 DEF TurnOn, Take, PullIn
  <2> QED  BY <2>1, <2>2
<1>4. CASE PrechargeDone
  BY <1>4 DEF PrechargeDone, PullIn
<1>5. CASE PullInDone
  BY <1>5 DEF PullInDone
<1>6. CASE ContactorTick
  BY <1>6 DEF ContactorTick
<1> QED  BY <1>1, <1>2, <1>3, <1>4, <1>5, <1>6 DEF ContactorStep

(* CAN2: a frame in hand exactly in "send" and "write", and no channel     *)
(* above its capacity.                                                     *)
LEMMA Can2Types ==
  ASSUME CanTypeOK, CanStep \/ CanWritten \/ \E f \in RxFrame : HwReceive(f)
  PROVE  CanTypeOK'
<1> DEFINE Queues == /\ hwRx \in Seq(RxFrame) /\ Len(hwRx) <= HwQueue
                     /\ chRx \in Seq(RxFrame) /\ Len(chRx) <= FRAME_BUFFER
                     /\ chTx \in Seq(TxFrame) /\ Len(chTx) <= FRAME_BUFFER
           InHand == /\ canPc \in {"select", "send", "backoff", "write"}
                     /\ canHeld \in IF canPc = "send" THEN {<<f>> : f \in RxFrame}
                                    ELSE IF canPc = "write" THEN {<<f>> : f \in TxFrame}
                                    ELSE {<<>>}
<1>0. HwQueue \in Nat /\ FRAME_BUFFER \in Nat
  BY LinkAssumption
<1>1. Queues /\ InHand
  BY DEF CanTypeOK
<1>2. SUFFICES Queues' /\ InHand'
  BY DEF CanTypeOK
<1>3. /\ \A f \in RxFrame : Append(hwRx, f) \in Seq(RxFrame) /\ Len(Append(hwRx, f)) = Len(hwRx) + 1
      /\ \A f \in RxFrame : Append(chRx, f) \in Seq(RxFrame) /\ Len(Append(chRx, f)) = Len(chRx) + 1
      /\ \A f \in RxFrame : chRx \o <<f>> \in Seq(RxFrame) /\ Len(chRx \o <<f>>) = Len(chRx) + 1
      /\ Len(hwRx) \in Nat /\ Len(chRx) \in Nat /\ Len(chTx) \in Nat
  BY <1>1, Channels
<1>4. /\ hwRx # <<>> => /\ Head(hwRx) \in RxFrame /\ Tail(hwRx) \in Seq(RxFrame)
                        /\ Len(Tail(hwRx)) = Len(hwRx) - 1
      /\ chTx # <<>> => /\ Head(chTx) \in TxFrame /\ Tail(chTx) \in Seq(TxFrame)
                        /\ Len(Tail(chTx)) = Len(chTx) - 1
  BY <1>1, Channels
<1>5. ASSUME NEW f \in RxFrame, HwReceive(f) PROVE Queues' /\ InHand'
  BY <1>0, <1>1, <1>3, <1>5 DEF HwReceive
<1>6. CASE CanRead
  <2>1. CASE Full(chRx)
    BY <1>0, <1>1, <1>3, <1>4, <1>6, <2>1 DEF CanRead
  <2>2. CASE ~Full(chRx)
    <3>1. /\ hwRx # <<>> /\ hwRx' = Tail(hwRx) /\ chRx' = Append(chRx, Head(hwRx))
          /\ UNCHANGED <<canPc, canHeld, chTx>>
      BY <1>6, <2>2 DEF CanRead
    <3>2. Len(chRx) < FRAME_BUFFER
      BY <1>0, <1>3, <2>2 DEF Full
    <3>3. Queues'
      BY <1>0, <1>1, <1>3, <1>4, <3>1, <3>2
    <3>4. InHand'
      BY <1>1, <3>1
    <3> QED  BY <3>3, <3>4
  <2> QED  BY <2>1, <2>2
<1>7. CASE CanForward
  <2>1. PICK f \in RxFrame : canHeld = <<f>>
    BY <1>1, <1>7 DEF CanForward
  <2>2. chRx' = chRx \o <<f>>
    BY <1>7, <2>1 DEF CanForward
  <2> QED  BY <1>0, <1>1, <1>3, <1>7, <2>2 DEF CanForward, Full
<1>8. CASE CanReadError \/ CanBackoffDone \/ CanWritten
  BY <1>1, <1>8 DEF CanReadError, CanBackoffDone, CanWritten
<1>9. CASE CanTakeTx
  BY <1>0, <1>1, <1>3, <1>4, <1>9 DEF CanTakeTx
<1> HIDE DEF Queues, InHand
<1> QED  BY <1>5, <1>6, <1>7, <1>8, <1>9 DEF CanStep

(* Sending n frames fills the channel at most, and the task blocks exactly *)
(* while frames are left.                                                  *)
LEMMA SendTypes ==
  ASSUME chTx \in Seq(TxFrame), Len(chTx) <= FRAME_BUFFER,
         NEW n \in 1..MaxReply, NEW pc \in {"receive", "pause"}, SendFrames(n, pc)
  PROVE  /\ chTx' \in Seq(TxFrame) /\ Len(chTx') <= FRAME_BUFFER
         /\ toSend' \in 0..MaxReply
         /\ invPc' \in {"receive", "pause", "reply"}
         /\ invPc' = "reply" <=> toSend' > 0
<1> USE LinkAssumption
<1> DEFINE k == Fits(n)
           new == [i \in 1..k |-> "reply"]
<1>1. k \in 0..n /\ k <= FRAME_BUFFER - Len(chTx)
  BY DEF Fits
<1>2. new \in Seq(TxFrame) /\ Len(new) = k
  <2> HIDE DEF k
  <2> QED  BY <1>1
<1>3. chTx' = chTx \o new /\ toSend' = n - k
  BY DEF SendFrames
<1> HIDE DEF new, k
<1>4. chTx' \in Seq(TxFrame) /\ Len(chTx') = Len(chTx) + k
  <2>1. k \in Nat
    BY <1>1
  <2> QED  BY <1>2, <1>3, <2>1, ConcatProperties
<1>5. toSend' \in 0..MaxReply
  BY <1>1, <1>3
<1>6. invPc' = IF toSend' = 0 THEN pc ELSE "reply"
  BY DEF SendFrames
<1> QED  BY <1>1, <1>4, <1>5, <1>6

(* What an order leaves in the signal and in the history. *)
LEMMA OrderTypes ==
  ASSUME CONTACTOR_STATE \in Command \union {"none"}, lastCmd \in Command,
         NEW c \in Command, Order(c)
  PROVE  CONTACTOR_STATE' \in Command \union {"none"} /\ lastCmd' \in Command
  BY LinkAssumption DEF Order, Signal

(* A received or skipped frame leaves the rest of the channel. *)
LEMMA ReceiveTypes ==
  ASSUME chRx \in Seq(RxFrame), Len(chRx) <= FRAME_BUFFER,
         (\E f \in RxFrame : Receive(f)) \/ NextRound \/ UNCHANGED chRx
  PROVE  chRx' \in Seq(RxFrame) /\ Len(chRx') <= FRAME_BUFFER
<1>1. chRx # <<>> => Tail(chRx) \in Seq(RxFrame) /\ Len(Tail(chRx)) = Len(chRx) - 1
  BY Channels
<1>2. Len(chRx) \in Nat /\ FRAME_BUFFER \in Nat
  BY LinkAssumption
<1>3. chRx' = chRx \/ (chRx # <<>> /\ chRx' = Tail(chRx))
  BY DEF Receive, NextRound
<1> QED  BY <1>1, <1>2, <1>3

(* What every step of an inverter task does to the state it shares: a      *)
(* frame read or not, an answer begun, continued or neither, and an order  *)
(* or none.                                                                *)
LinkStep(pc) ==
    /\ UNCHANGED <<Elsewhere, inverter>>
    /\ (\E f \in RxFrame : Receive(f)) \/ NextRound \/ UNCHANGED chRx
    /\ \/ UNCHANGED <<chTx, invPc, toSend>>
       \/ \E n \in 1..MaxReply : SendFrames(n, pc)
       \/ Resumable /\ SendFrames(toSend, pc)
    /\ (\E c \in Command : Order(c)) \/ UNCHANGED <<CONTACTOR_STATE, lastCmd>>

(* Such a step keeps the types of all it shares. *)
LEMMA LinkTypes ==
  ASSUME ContactorTypeOK, CanTypeOK, FeedTypeOK, LinkTypeOK,
         NEW pc \in {"receive", "pause"}, LinkStep(pc)
  PROVE  ContactorTypeOK' /\ CanTypeOK' /\ FeedTypeOK' /\ LinkTypeOK'
<1>1. chRx' \in Seq(RxFrame) /\ Len(chRx') <= FRAME_BUFFER
  BY ReceiveTypes DEF LinkStep, CanTypeOK
<1>2. CONTACTOR_STATE' \in Command \union {"none"} /\ lastCmd' \in Command
  BY OrderTypes DEF LinkStep, ContactorTypeOK, LinkTypeOK
<1>3. /\ chTx' \in Seq(TxFrame) /\ Len(chTx') <= FRAME_BUFFER
      /\ toSend' \in 0..MaxReply
      /\ invPc' \in {"receive", "pause", "reply"}
      /\ invPc' = "reply" <=> toSend' > 0
  <2>1. CASE UNCHANGED <<chTx, invPc, toSend>>
    BY <2>1 DEF CanTypeOK, LinkTypeOK
  <2>2. ASSUME NEW n \in 1..MaxReply, SendFrames(n, pc) PROVE <1>3!:
    BY <2>2, SendTypes DEF CanTypeOK
  <2>3. CASE Resumable /\ SendFrames(toSend, pc)
    <3>1. toSend \in 1..MaxReply
      BY <2>3, LinkAssumption DEF LinkTypeOK, Resumable
    <3> QED  BY <2>2, <2>3, <3>1
  <2> QED  BY <2>1, <2>2, <2>3 DEF LinkStep
<1>4. UNCHANGED <<taskVars, canPc, canHeld, hwRx, feedVars>>
  BY DEF LinkStep, Elsewhere
<1>5. ContactorTypeOK'
  BY <1>2, <1>4 DEF ContactorTypeOK, taskVars, Command
<1>6. CanTypeOK'
  BY <1>1, <1>3, <1>4 DEF CanTypeOK
<1>7. FeedTypeOK'
  BY <1>4 DEF FeedTypeOK, feedVars
<1>8. LinkTypeOK'
  BY <1>2, <1>3 DEF LinkTypeOK
<1> QED  BY <1>5, <1>6, <1>7, <1>8

(* The steps of the three inverter tasks are such steps. *)
LEMMA SolaxLinkStep ==
  ASSUME SolaxStep, UNCHANGED inverter, SolaxTypeOK
  PROVE  LinkStep("receive") /\ SolaxTypeOK'
<1> USE LinkAssumption DEF LinkStep, Command
<1>0. UNCHANGED Elsewhere
  BY DEF SolaxStep, SolaxSkip, SolaxTimeout, SolaxCritical, SolaxNoAnswer, SolaxOtherError,
         SolaxReply, SolaxResume
<1>1. CASE SolaxSkip \/ SolaxNoAnswer
  BY <1>0, <1>1 DEF SolaxSkip, SolaxNoAnswer, linkVars, solaxVars, SolaxTypeOK
<1>2. CASE SolaxTimeout
  BY <1>0, <1>2 DEF SolaxTimeout, SolaxTypeOK
<1>3. ASSUME NEW ok \in BOOLEAN, Conclude(ok)
      PROVE  (\E c \in Command : Order(c)) /\ SolaxTypeOK'
  BY <1>3 DEF Conclude, SolaxTypeOK
<1>4. CASE SolaxCritical \/ SolaxOtherError
  BY <1>0, <1>3, <1>4 DEF SolaxCritical, SolaxOtherError
<1>5. ASSUME AfterReply
      PROVE  /\ (\E c \in Command : Order(c)) \/ UNCHANGED <<CONTACTOR_STATE, lastCmd>>
             /\ SolaxTypeOK'
  BY <1>3, <1>5 DEF AfterReply, solaxVars, SolaxTypeOK
<1>6. CASE \E n \in 1..MaxReply : SolaxReply(n)
  BY <1>0, <1>5, <1>6 DEF SolaxReply
<1>7. CASE SolaxResume
  BY <1>0, <1>5, <1>7 DEF SolaxResume
<1> QED  BY <1>1, <1>2, <1>4, <1>6, <1>7 DEF SolaxStep

LEMMA H2LinkStep ==
  ASSUME H2Step, UNCHANGED inverter
  PROVE  LinkStep("receive")
<1> USE LinkAssumption DEF LinkStep, Command
<1>1. CASE H2Skip \/ H2Invalid
  BY <1>1 DEF H2Skip, H2Invalid, linkVars
<1>2. CASE H2Timeout \/ H2BadFrame
  BY <1>2 DEF H2Timeout, H2BadFrame
<1>3. H2AfterReply => (\E c \in Command : Order(c)) \/ UNCHANGED <<CONTACTOR_STATE, lastCmd>>
  BY DEF H2AfterReply
<1>4. CASE \E n \in 1..MaxReply : H2Reply(n)
  BY <1>3, <1>4 DEF H2Reply
<1>5. CASE H2Resume
  BY <1>3, <1>5 DEF H2Resume
<1> QED  BY <1>1, <1>2, <1>4, <1>5 DEF H2Step

LEMMA PylonLinkStep ==
  ASSUME PylonStep, UNCHANGED inverter
  PROVE  LinkStep("pause")
<1> USE DEF LinkStep, Command
<1>1. CASE PylonTimeout \/ PylonInvalid
  BY <1>1 DEF PylonTimeout, PylonInvalid, linkVars
<1>2. PylonAfterSend => /\ (\E c \in Command : Order(c)) \/ UNCHANGED <<CONTACTOR_STATE, lastCmd>>
                        /\ NextRound \/ UNCHANGED chRx
  BY DEF PylonAfterSend
<1>3. CASE \E n \in 1..MaxReply : PylonSend(n)
  BY <1>2, <1>3 DEF PylonSend
<1>4. CASE PylonResume
  BY <1>2, <1>4 DEF PylonResume
<1> QED  BY <1>1, <1>3, <1>4 DEF PylonStep

(* The types of all components hold for every capacity and answer length:  *)
(* no channel exceeds its capacity, CAN2 has a frame in hand exactly while *)
(* it forwards or writes one, and an inverter task is blocked exactly      *)
(* while frames of its answer are left.                                    *)
THEOREM ToucanTypeCorrect == ToucanSpec => []ToucanTypeOK
<1>1. ToucanInit => ToucanTypeOK
  <2> SUFFICES ASSUME ToucanInit PROVE ToucanTypeOK
    OBVIOUS
  <2>0. timer = 0 /\ timer \in Nat /\ positives \in 0..2
    BY DEF ToucanInit, ContactorInit, SolaxInit
  <2>1. ContactorTypeOK /\ SolaxTypeOK
    BY <2>0 DEF ToucanInit, ContactorInit, ContactorTypeOK, SolaxInit, SolaxTypeOK
  <2>2. CanTypeOK
    BY LinkAssumption DEF ToucanInit, CanInit, CanTypeOK
  <2>3. last \in -1..(Timeout + 1)
    BY LinkAssumption DEF ToucanInit, FeedInit, NotSeen
  <2>4. FeedTypeOK
    BY <2>3 DEF ToucanInit, FeedInit, FeedTypeOK
  <2>5. LinkTypeOK /\ inverter \in Inverters
    BY LinkAssumption DEF ToucanInit, LinkTypeOK, Command
  <2> QED  BY <2>1, <2>2, <2>4, <2>5 DEF ToucanTypeOK
<1>2. ToucanTypeOK /\ [ToucanNext]_vars => ToucanTypeOK'
  <2> SUFFICES ASSUME ToucanTypeOK, [ToucanNext]_vars PROVE ToucanTypeOK'
    OBVIOUS
  <2> USE DEF ToucanTypeOK
  <2>1. CASE UNCHANGED vars
    BY <2>1 DEF vars, contactorVars, taskVars, canVars, feedVars, linkVars, solaxVars,
                ContactorTypeOK, CanTypeOK, FeedTypeOK, LinkTypeOK, SolaxTypeOK
  <2>2. CASE ContactorTask \/ ContactorTimer
    BY <2>2, ContactorTypes
    DEF ContactorTask, ContactorTimer, canVars, feedVars, linkVars, solaxVars,
        CanTypeOK, FeedTypeOK, LinkTypeOK, SolaxTypeOK
  <2>3. CASE Can2Task \/ Can2Written \/ InverterFrame
    BY <2>3, Can2Types
    DEF Can2Task, Can2Written, InverterFrame, contactorVars, taskVars, feedVars, linkVars,
        solaxVars, ContactorTypeOK, FeedTypeOK, LinkTypeOK, SolaxTypeOK
  <2>4. CASE BmsUpdate \/ BmsSpoiled \/ Clock
    <3>0. last' \in -1..(Timeout + 1)
      BY <2>4, LinkAssumption
      DEF BmsUpdate, BmsSpoiled, Clock, Deliver, Spoil, Second, FeedTypeOK, NotSeen
    <3>1. FeedTypeOK'
      BY <2>4, <3>0
      DEF BmsUpdate, BmsSpoiled, Clock, Deliver, Spoil, Second, FeedTypeOK
    <3> QED  BY <2>4, <3>1
      DEF BmsUpdate, BmsSpoiled, Clock, contactorVars, taskVars, canVars, linkVars, solaxVars,
          ContactorTypeOK, CanTypeOK, LinkTypeOK, SolaxTypeOK
  <2>5. CASE InverterTask
    <3>1. CASE SolaxStep
      BY <2>5, <3>1, SolaxLinkStep, LinkTypes DEF InverterTask
    <3>2. CASE (H2Step \/ PylonStep) /\ UNCHANGED solaxVars
      BY <2>5, <3>2, H2LinkStep, PylonLinkStep, LinkTypes DEF InverterTask, solaxVars, SolaxTypeOK
    <3> QED  BY <2>5, <3>1, <3>2 DEF InverterTask
  <2> QED  BY <2>1, <2>2, <2>3, <2>4, <2>5 DEF ToucanNext
<1> QED  BY <1>1, <1>2, PTL DEF ToucanSpec
=============================================================================
