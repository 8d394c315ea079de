------------------------------ MODULE Contactor ------------------------------
(***************************************************************************)
(* The contactor task of stm32f407_controller/src/bin/tasks/mod.rs:        *)
(* contactor_main_task (no feature "precharge") and contactor_both_task    *)
(* (feature "precharge").  The task waits on the one-slot signal           *)
(* CONTACTOR_STATE and drives a pre-charge output and a PWM output for the *)
(* main contactor.  A command `true` is written "close", `false` "open".   *)
(*                                                                         *)
(* Between two awaits the task runs without interruption (one cooperative  *)
(* executor), so an action is what happens from one await to the next.     *)
(* Time passes in Tick, one unit being 100 ms.                             *)
(***************************************************************************)
EXTENDS Naturals

CONSTANTS
    Precharge,        \* feature "precharge": contactor_both_task is spawned
    PrechargeTime,    \* Timer::after(500 ms) after pre.set_high(), in ticks
    PullInTime        \* Timer::after(100 ms) at full duty, in ticks

ASSUME ContactorAssumption ==
    /\ Precharge \in BOOLEAN
    /\ PrechargeTime \in Nat \ {0}
    /\ PullInTime \in Nat \ {0}

VARIABLES
    CONTACTOR_STATE,  \* the signal: "none" or the latest command not yet taken
    contactorPc,      \* the await the task is suspended at
    timer,            \* ticks left of the Timer::after it awaits
    active,           \* local `active`
    enabled,          \* PWM channel enabled
    duty,             \* PWM duty: zero at reset, max, or three quarters of max
    pre               \* level of the pre-charge output

taskVars == <<contactorPc, timer, active, enabled, duty, pre>>
contactorVars == <<CONTACTOR_STATE, taskVars>>

Command == {"open", "close"}

ContactorTypeOK ==
    /\ CONTACTOR_STATE \in Command \union {"none"}
    /\ contactorPc \in {"wait", "precharge", "pull_in"}
    /\ timer \in Nat
    /\ contactorPc = "wait" => timer = 0
    /\ contactorPc = "precharge" => timer <= PrechargeTime
    /\ contactorPc = "pull_in" => timer <= PullInTime
    /\ active \in BOOLEAN
    /\ enabled \in BOOLEAN
    /\ duty \in {"zero", "full", "hold"}
    /\ pre \in BOOLEAN

ContactorInit ==
    /\ CONTACTOR_STATE = "none"
    /\ contactorPc = "wait"
    /\ timer = 0
    /\ active = FALSE
    /\ enabled = FALSE
    /\ duty = "zero"
    /\ pre = FALSE

(* Mutant of Signal: the slot keeps the first command, as a queue would. *)
SignalKeepsFirst(c) ==
    CONTACTOR_STATE' = IF CONTACTOR_STATE = "none" THEN c ELSE CONTACTOR_STATE

(* CONTACTOR_STATE.signal(c): the slot keeps the latest command only. *)
Signal(c) == CONTACTOR_STATE' = c

(* CONTACTOR_STATE.wait().await returns c and empties the slot. *)
Take(c) ==
    /\ contactorPc = "wait"
    /\ CONTACTOR_STATE = c
    /\ CONTACTOR_STATE' = "none"

-----------------------------------------------------------------------------
(* Mutant of TurnOff: `active` is not cleared. *)
TurnOffKeepsActive ==
    /\ Take("open") /\ active
    /\ enabled' = FALSE
    /\ pre' = IF Precharge THEN FALSE ELSE pre
    /\ UNCHANGED <<contactorPc, timer, active, duty>>

(* Mutant of TurnOff: the PWM channel is not disabled. *)
TurnOffKeepsPwm ==
    /\ Take("open") /\ active
    /\ pre' = IF Precharge THEN FALSE ELSE pre
    /\ active' = FALSE
    /\ UNCHANGED <<contactorPc, timer, enabled, duty>>

(* (false, true): both outputs off. *)
TurnOff ==
    /\ Take("open") /\ active
    /\ enabled' = FALSE
    /\ pre' = IF Precharge THEN FALSE ELSE pre
    /\ active' = FALSE
    /\ UNCHANGED <<contactorPc, timer, duty>>

(* (true, true) and (false, false): nothing but a log line. *)
NothingToDo ==
    /\ \/ Take("open") /\ ~active
       \/ Take("close") /\ active
    /\ UNCHANGED taskVars

(* Mutant of PullIn: the wrong delay constant. *)
PullInForPrechargeTime ==
    /\ enabled' = TRUE
    /\ duty' = "full"
    /\ contactorPc' = "pull_in"
    /\ timer' = PrechargeTime

(* Full duty on the main contactor, then wait for the armature. *)
PullIn ==
    /\ enabled' = TRUE
    /\ duty' = "full"
    /\ contactorPc' = "pull_in"
    /\ timer' = PullInTime

(* Mutant of TurnOn: the main contactor is driven without pre-charge. *)
TurnOnWithoutPrecharge ==
    /\ Take("close") /\ ~active
    /\ PullIn /\ UNCHANGED <<pre, active>>

(* (true, false): start with the pre-charge output where there is one. *)
TurnOn ==
    /\ Take("close") /\ ~active
    /\ IF Precharge
       THEN /\ pre' = TRUE
            /\ contactorPc' = "precharge"
            /\ timer' = PrechargeTime
            /\ UNCHANGED <<enabled, duty>>
       ELSE PullIn /\ UNCHANGED pre
    /\ UNCHANGED active

(* The pre-charge delay is over. *)
PrechargeDone ==
    /\ contactorPc = "precharge" /\ timer = 0
    /\ PullIn
    /\ UNCHANGED <<CONTACTOR_STATE, active, pre>>

(* Mutant of PullInDone: the pre-charge output stays high. *)
PullInDoneKeepsPre ==
    /\ contactorPc = "pull_in" /\ timer = 0
    /\ duty' = "hold"
    /\ active' = TRUE
    /\ contactorPc' = "wait"
    /\ UNCHANGED <<CONTACTOR_STATE, timer, enabled, pre>>

(* The pull-in delay is over: pre-charge off, hold duty, back to wait(). *)
PullInDone ==
    /\ contactorPc = "pull_in" /\ timer = 0
    /\ pre' = IF Precharge THEN FALSE ELSE pre
    /\ duty' = "hold"
    /\ active' = TRUE
    /\ contactorPc' = "wait"
    /\ UNCHANGED <<CONTACTOR_STATE, timer, enabled>>

ContactorStep == TurnOff \/ NothingToDo \/ TurnOn \/ PrechargeDone \/ PullInDone

(* The task can run: a signal to take, or an expired timer. *)
ContactorReady == IF contactorPc = "wait" THEN CONTACTOR_STATE # "none" ELSE timer = 0

(* 100 ms pass.  A ready task runs at once (the executor polls a woken task *)
(* within microseconds), so time passes only while the task is suspended.   *)
ContactorTick ==
    /\ ~ContactorReady
    /\ timer' = IF timer > 0 THEN timer - 1 ELSE 0
    /\ UNCHANGED <<CONTACTOR_STATE, contactorPc, active, enabled, duty, pre>>
=============================================================================
