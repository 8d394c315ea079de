--------------------------- MODULE ContactorProofs ---------------------------
(***************************************************************************)
(* For every pre-charge and pull-in delay, with and without the pre-charge *)
(* output: the invariants of ContactorUnit and the safety part of its      *)
(* refinement of RelaySwitch.                                              *)
(***************************************************************************)
EXTENDS ContactorUnit, TLAPS

(* What each suspension point knows about the outputs. *)
OutputsByPc ==
    /\ contactorPc = "wait" => ~pre /\ enabled = active /\ (active => duty = "hold")
    /\ contactorPc = "precharge" => Precharge /\ pre /\ ~enabled /\ ~active
    /\ contactorPc = "pull_in" => pre = Precharge /\ enabled /\ duty = "full" /\ ~active

(* A pending command is the last one; a busy task with nothing pending is  *)
(* carrying out the last command.                                          *)
CommandsByPc ==
    /\ CONTACTOR_STATE # "none" => CONTACTOR_STATE = lastCmd
    /\ CONTACTOR_STATE = "none" =>
          lastCmd = (IF contactorPc # "wait" \/ active THEN "close" ELSE "open")

(* The time an "open" has waited plus the time it still has to wait. *)
WaitBudget ==
    lastCmd = "open" =>
        /\ contactorPc = "precharge" => sinceOpen + timer + PullInTime <= ReactionTime
        /\ contactorPc = "pull_in" => sinceOpen + timer <= ReactionTime
        /\ active => sinceOpen <= ReactionTime

UnitInv == UnitTypeOK /\ OutputsByPc /\ CommandsByPc /\ WaitBudget

-----------------------------------------------------------------------------
(* The bound is a number of ticks and covers both delays of the sequence. *)
LEMMA ReactionTimeNat ==
    /\ ReactionTime \in Nat
    /\ PullInTime <= ReactionTime
    /\ Precharge => ReactionTime = PrechargeTime + PullInTime
  BY ContactorAssumption DEF ReactionTime

(* The inductive invariant holds initially: the task is idle, all off. *)
LEMMA InitInv == UnitInit => UnitInv
<1> SUFFICES ASSUME UnitInit PROVE UnitInv
  OBVIOUS
<1> USE DEF UnitInit, ContactorInit
<1>0. active \in BOOLEAN /\ enabled \in BOOLEAN /\ pre \in BOOLEAN
  BY Zenon
<1>1. UnitTypeOK
  BY <1>0, ReactionTimeNat DEF UnitTypeOK, ContactorTypeOK, Command
<1>2. OutputsByPc
  BY DEF OutputsByPc
<1>3. CommandsByPc
  BY DEF CommandsByPc
<1>4. WaitBudget
  BY DEF WaitBudget
<1> QED  BY <1>1, <1>2, <1>3, <1>4 DEF UnitInv

(* A new command only changes the slot and restarts the count of an "open". *)
LEMMA OrderInv ==
  ASSUME UnitInv, NEW c \in Command, Order(c)
  PROVE  UnitInv'
<1>1. UnitTypeOK'
  BY ContactorAssumption
  DEF UnitInv, UnitTypeOK, ContactorTypeOK, Order, Signal, taskVars, Command, ReactionTime
<1>2. OutputsByPc'
  BY DEF UnitInv, OutputsByPc, Order, taskVars
<1>3. CommandsByPc'
  BY DEF CommandsByPc, Order, Signal, Command
<1>4. WaitBudget'
  BY ContactorAssumption
  DEF UnitInv, UnitTypeOK, ContactorTypeOK, OutputsByPc, WaitBudget, Order, taskVars,
      Command, ReactionTime
<1> QED  BY <1>1, <1>2, <1>3, <1>4 DEF UnitInv

(* Each step of the task between two awaits. *)
LEMMA StepInv ==
  ASSUME UnitInv, Step
  PROVE  UnitInv'
<1> USE ContactorAssumption
    DEF UnitInv, UnitTypeOK, ContactorTypeOK, OutputsByPc, CommandsByPc, Command
<1>1. CASE TurnOff
  <2>1. UnitTypeOK' /\ OutputsByPc'
    BY <1>1 DEF Step, TurnOff, Take
  <2>2. CommandsByPc' /\ WaitBudget'
    BY <1>1 DEF Step, TurnOff, Take, WaitBudget
  <2> QED  BY <2>1, <2>2
<1>2. CASE NothingToDo
  BY <1>2 DEF Step, NothingToDo, Take, taskVars, WaitBudget, ReactionTime
<1>3. CASE TurnOn
  <2>0. active' \in BOOLEAN /\ enabled' \in BOOLEAN /\ pre' \in BOOLEAN
    BY <1>3, Zenon DEF Step, TurnOn, Take, PullIn
  <2>1. UnitTypeOK'
    BY <1>3, <2>0 DEF Step, TurnOn, Take, PullIn
  <2>2. OutputsByPc'
    BY <1>3 DEF Step, TurnOn, Take, PullIn
  <2>3. CommandsByPc' /\ WaitBudget'
    BY <1>3 DEF Step, TurnOn, Take, PullIn, WaitBudget
  <2> QED  BY <2>1, <2>2, <2>3
<1>4. CASE PrechargeDone
  BY <1>4 DEF Step, PrechargeDone, PullIn, WaitBudget, ReactionTime
<1>5. CASE PullInDone
  <2>0. active' \in BOOLEAN /\ enabled' \in BOOLEAN /\ pre' \in BOOLEAN
    BY <1>5, Zenon DEF Step, PullInDone
  <2>1. UnitTypeOK'
    BY <1>5, <2>0 DEF Step, PullInDone
  <2>2. OutputsByPc'
    BY <1>5 DEF Step, PullInDone
  <2>3. CommandsByPc'
    BY <1>5 DEF Step, PullInDone
  <2>4. WaitBudget'
    BY <1>5, ReactionTimeNat DEF Step, PullInDone, WaitBudget
  <2> QED  BY <2>1, <2>2, <2>3, <2>4
<1> QED  BY <1>1, <1>2, <1>3, <1>4, <1>5 DEF Step, ContactorStep

(* Time moves a waiting "open" towards its end: what the count gains the   *)
(* timer loses, and time does not pass in the wait() that takes it.        *)
LEMMA TickInv ==
  ASSUME UnitInv, Tick
  PROVE  UnitInv'
<1> USE ContactorAssumption
    DEF UnitInv, UnitTypeOK, ContactorTypeOK, OutputsByPc, CommandsByPc, Command
<1>1. CASE contactorPc = "wait"
  BY <1>1 DEF Tick, ContactorTick, ContactorReady, WaitBudget, ReactionTime
<1>2. CASE contactorPc = "precharge"
  BY <1>2 DEF Tick, ContactorTick, ContactorReady, WaitBudget, ReactionTime
<1>3. CASE contactorPc = "pull_in"
  BY <1>3 DEF Tick, ContactorTick, ContactorReady, WaitBudget, ReactionTime
<1> QED  BY <1>1, <1>2, <1>3

(* UnitInv is an invariant of the unit. *)
THEOREM UnitInvariant == UnitSpec => []UnitInv
<1>1. UnitInv /\ [UnitNext]_unitVars => UnitInv'
  <2> SUFFICES ASSUME UnitInv, [UnitNext]_unitVars PROVE UnitInv'
    OBVIOUS
  <2>1. CASE \E c \in Command : Order(c)
    BY <2>1, OrderInv
  <2>2. CASE Step
    BY <2>2, StepInv
  <2>3. CASE Tick
    BY <2>3, TickInv
  <2>4. CASE UNCHANGED unitVars
    BY <2>4 DEF unitVars, contactorVars, taskVars, UnitInv, UnitTypeOK, ContactorTypeOK,
       OutputsByPc, CommandsByPc, WaitBudget
  <2> QED  BY <2>1, <2>2, <2>3, <2>4 DEF UnitNext
<1> QED  BY InitInv, <1>1, PTL DEF UnitSpec

-----------------------------------------------------------------------------
(* The state of the contactor task keeps its types; the timer never        *)
(* exceeds the delay being awaited (tasks/mod.rs, both tasks).             *)
THEOREM TypeCorrect == UnitSpec => []UnitTypeOK
<1>1. UnitInv => UnitTypeOK
  BY DEF UnitInv
<1> QED  BY UnitInvariant, <1>1, PTL

(* Whatever is commanded and when, the outputs of the contactor task are   *)
(* only ever in the safe combinations (tasks/mod.rs, both tasks).          *)
THEOREM OutputsAlwaysSafe == UnitSpec => []OutputsSafe
<1>1. UnitInv => OutputsSafe
  BY DEF UnitInv, UnitTypeOK, ContactorTypeOK, OutputsByPc, OutputsSafe
<1> QED  BY UnitInvariant, <1>1, PTL

(* The one-slot CONTACTOR_STATE never loses the final command.             *)
THEOREM FinalCommandObeyed == UnitSpec => []LastCommandWins
<1>1. UnitInv => LastCommandWins
  BY DEF UnitInv, UnitTypeOK, ContactorTypeOK, CommandsByPc, LastCommandWins
<1> QED  BY UnitInvariant, <1>1, PTL

(* An "open" de-energises both outputs within the closing delays.          *)
THEOREM OpensInTime == UnitSpec => []ReactionBound
<1>1. UnitInv => ReactionBound
  BY ContactorAssumption, ReactionTimeNat
  DEF UnitInv, UnitTypeOK, ContactorTypeOK, OutputsByPc, WaitBudget, ReactionBound
<1> QED  BY UnitInvariant, <1>1, PTL

(* The main contactor is energised after pre-charge only, and dropped on a *)
(* current "open" only.                                                    *)
THEOREM EnergisedInOrder == UnitSpec => EnergiseOrder
<1> DEFINE A == /\ ~enabled /\ enabled' => (Precharge => pre /\ pre')
                /\ enabled /\ ~enabled' => lastCmd = "open"
<1>1. UnitInv /\ [UnitNext]_unitVars => [A]_unitVars
  <2> SUFFICES ASSUME UnitInv, UnitNext PROVE A
    OBVIOUS
  <2> USE DEF UnitInv, UnitTypeOK, ContactorTypeOK, OutputsByPc, CommandsByPc, Command
  <2>1. CASE \E c \in Command : Order(c)
    BY <2>1 DEF Order, taskVars
  <2>2. CASE TurnOff /\ Step
    BY <2>2 DEF TurnOff, Take, Step
  <2>3. CASE NothingToDo \/ Tick
    BY <2>3 DEF NothingToDo, Tick, ContactorTick, taskVars
  <2>4. CASE TurnOn
    BY <2>4, ContactorAssumption DEF TurnOn, Take, PullIn
  <2>5. CASE PrechargeDone
    BY <2>5 DEF PrechargeDone, PullIn
  <2>6. CASE PullInDone
    BY <2>6 DEF PullInDone
  <2> QED  BY <2>1, <2>2, <2>3, <2>4, <2>5, <2>6 DEF UnitNext, Step, ContactorStep
<1> QED  BY UnitInvariant, <1>1, PTL DEF UnitSpec, EnergiseOrder

(* Every behaviour of the contactor task is one of the abstract relay: it  *)
(* starts to close on a current "close" only, never stops half-way, and    *)
(* opens on a current "open" only.                                         *)
THEOREM RefinesSwitchSafety == UnitSpec => Switch!SwitchSafety
<1>1. UnitInit => Switch!SwitchInit
  BY DEF UnitInit, ContactorInit, Switch!SwitchInit
<1>2. UnitInv /\ [UnitNext]_unitVars => [Switch!SwitchNext]_(Switch!switchVars)
  <2> SUFFICES ASSUME UnitInv, [UnitNext]_unitVars
               PROVE  [Switch!SwitchNext]_(Switch!switchVars)
    OBVIOUS
  <2> USE DEF UnitInv, UnitTypeOK, ContactorTypeOK, OutputsByPc, CommandsByPc, Command,
              Switch!SwitchNext, Switch!switchVars
  <2>1. ASSUME NEW c \in Command, Order(c) PROVE Switch!Order(c)
    BY <2>1 DEF Order, taskVars, Switch!Order
  <2>2. CASE TurnOff /\ Step
    BY <2>2 DEF TurnOff, Take, Step, Switch!Open
  <2>3. CASE (NothingToDo /\ Step) \/ Tick
    BY <2>3 DEF NothingToDo, Tick, ContactorTick, Step, taskVars
  <2>4. CASE TurnOn /\ Step
    BY <2>4 DEF TurnOn, Take, PullIn, Step, Switch!StartClosing
  <2>5. CASE PrechargeDone /\ Step
    BY <2>5 DEF PrechargeDone, PullIn, Step
  <2>6. CASE PullInDone /\ Step
    BY <2>6 DEF PullInDone, Step, Switch!FinishClosing
  <2>7. CASE UNCHANGED unitVars
    BY <2>7 DEF unitVars, contactorVars, taskVars
  <2> QED  BY <2>1, <2>2, <2>3, <2>4, <2>5, <2>6, <2>7 DEF UnitNext, Step, ContactorStep
<1> QED  BY UnitInvariant, <1>1, <1>2, PTL DEF UnitSpec, Switch!SwitchSafety

=============================================================================
