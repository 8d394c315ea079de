---------------------------- MODULE ContactorUnit ----------------------------
(***************************************************************************)
(* The contactor task under a commander that may signal any command at any *)
(* time (the inverter tasks are such commanders), with two history         *)
(* variables: the last command signalled and for how long it has been      *)
(* "open".                                                                 *)
(***************************************************************************)
EXTENDS Contactor

VARIABLES
    lastCmd,      \* the last command given to CONTACTOR_STATE.signal
    sinceOpen     \* ticks since lastCmd became "open" (0 while "close")

unitVars == <<contactorVars, lastCmd, sinceOpen>>

(* The longest time an "open" can find the task busy closing. *)
ReactionTime == (IF Precharge THEN PrechargeTime ELSE 0) + PullInTime

UnitInit ==
    /\ ContactorInit
    /\ lastCmd = "open"
    /\ sinceOpen = 0

Order(c) ==
    /\ Signal(c)
    /\ lastCmd' = c
    /\ sinceOpen' = IF c = lastCmd THEN sinceOpen ELSE 0
    /\ UNCHANGED taskVars

Step == ContactorStep /\ UNCHANGED <<lastCmd, sinceOpen>>

(* The count stops one past the bound it is compared with. *)
Tick ==
    /\ ContactorTick
    /\ sinceOpen' = IF lastCmd = "open" /\ sinceOpen <= ReactionTime
                    THEN sinceOpen + 1 ELSE sinceOpen
    /\ UNCHANGED lastCmd

UnitNext == (\E c \in Command : Order(c)) \/ Step \/ Tick

(* Fairness: the executor polls a woken task, and time goes on. *)
UnitSpec ==
    /\ UnitInit /\ [][UnitNext]_unitVars
    /\ WF_unitVars(Step) /\ WF_unitVars(Tick)

-----------------------------------------------------------------------------
(* Types of the task's state and of the two history variables. *)
UnitTypeOK ==
    /\ ContactorTypeOK
    /\ lastCmd \in Command
    /\ sinceOpen \in 0..(ReactionTime + 1)

(* The outputs are always in one of the combinations the hardware is built *)
(* for: pre-charge alone, pre-charge with the main contactor at full duty, *)
(* hold duty only without pre-charge, and nothing energised while the task *)
(* is idle and inactive (tasks/mod.rs, both tasks).                        *)
OutputsSafe ==
    /\ pre => Precharge /\ contactorPc # "wait" /\ (enabled => duty = "full")
    /\ enabled => duty = (IF active THEN "hold" ELSE "full")
    /\ Precharge /\ enabled /\ ~active => pre
    /\ contactorPc = "wait" => enabled = active

(* However commands overwrite each other in the one-slot signal, once the  *)
(* task is back at wait() with an empty slot the relay is in the state the *)
(* last command asked for: no final command is ever lost.                  *)
LastCommandWins ==
    contactorPc = "wait" /\ CONTACTOR_STATE = "none" => active = (lastCmd = "close")

(* An "open" that is not withdrawn has de-energised both outputs after at  *)
(* most the pre-charge and pull-in delays, wherever in the closing         *)
(* sequence it arrived.                                                    *)
ReactionBound ==
    lastCmd = "open" /\ (enabled \/ pre) => sinceOpen <= ReactionTime

(* The main contactor is energised only with pre-charge already on, and    *)
(* is de-energised only when the last command is "open".                   *)
EnergiseOrder ==
    [][/\ ~enabled /\ enabled' => (Precharge => pre /\ pre')
       /\ enabled /\ ~enabled' => lastCmd = "open"]_unitVars

(* The task, seen from its commander, is the abstract relay. *)
Switch == INSTANCE RelaySwitch WITH
    relay <- IF active THEN "closed"
             ELSE IF contactorPc = "wait" THEN "opened" ELSE "closing"

RefinesSwitch == Switch!SwitchSpec
=============================================================================
