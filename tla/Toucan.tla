-------------------------------- MODULE Toucan -------------------------------
(***************************************************************************)
(* The control path from battery data to contactor: the battery's feed     *)
(* (BmsFeed, which the battery modules implement), one inverter task, the  *)
(* CAN task of CAN2 that connects it to the inverter, and the contactor    *)
(* task, as main.rs spawns them.                                           *)
(*                                                                         *)
(* The tasks share one cooperative executor: an action is what one task    *)
(* does from one await that is really pending to the next.  The feed, the  *)
(* bus and the interrupt handler are the environment.                      *)
(***************************************************************************)
EXTENDS InverterSolax, InverterForceH2, InverterPylontech

CONSTANT Inverters    \* the protocols the firmware may be built for

ASSUME InverterAssumption == Inverters \subseteq {"solax", "forceh2", "pylontech"}

VARIABLE inverter     \* the protocol of this build; it never changes

vars == <<contactorVars, canVars, feedVars, linkVars, solaxVars, inverter>>

ToucanInit ==
    /\ ContactorInit /\ CanInit /\ FeedInit /\ SolaxInit
    /\ inverter \in Inverters
    /\ invPc = IF inverter = "pylontech" THEN "pause" ELSE "receive"
    /\ toSend = 0
    /\ lastCmd = "open"

InverterTask ==
    /\ \/ inverter = "solax" /\ SolaxStep
       \/ inverter = "forceh2" /\ H2Step /\ UNCHANGED solaxVars
       \/ inverter = "pylontech" /\ PylonStep /\ UNCHANGED solaxVars
    /\ UNCHANGED inverter

ContactorTask == ContactorStep /\ UNCHANGED <<canVars, feedVars, linkVars, solaxVars, inverter>>

ContactorTimer == ContactorTick /\ UNCHANGED <<canVars, feedVars, linkVars, solaxVars, inverter>>

Can2Task == CanStep /\ UNCHANGED <<contactorVars, feedVars, linkVars, solaxVars, inverter>>

Can2Written == CanWritten /\ UNCHANGED <<contactorVars, feedVars, linkVars, solaxVars, inverter>>

InverterFrame == /\ \E f \in RxFrame : HwReceive(f)
                 /\ UNCHANGED <<contactorVars, feedVars, linkVars, solaxVars, inverter>>

BmsUpdate == Deliver /\ UNCHANGED <<contactorVars, canVars, linkVars, solaxVars, inverter>>

BmsSpoiled == Spoil /\ UNCHANGED <<contactorVars, canVars, linkVars, solaxVars, inverter>>

Clock == Second /\ UNCHANGED <<contactorVars, canVars, linkVars, solaxVars, inverter>>

ToucanNext ==
    \/ InverterTask \/ ContactorTask \/ Can2Task
    \/ ContactorTimer \/ Clock
    \/ Can2Written \/ InverterFrame \/ BmsUpdate \/ BmsSpoiled

(* Woken tasks run and timers fire.  Nothing is assumed of the battery, of *)
(* the inverter or of the bus.                                             *)
ToucanSpec ==
    /\ ToucanInit /\ [][ToucanNext]_vars
    /\ WF_vars(InverterTask) /\ WF_vars(ContactorTask) /\ WF_vars(Can2Task)
    /\ WF_vars(ContactorTimer) /\ WF_vars(Clock)

-----------------------------------------------------------------------------
(* Types of all the components. *)
ToucanTypeOK ==
    /\ ContactorTypeOK /\ CanTypeOK /\ FeedTypeOK /\ LinkTypeOK /\ SolaxTypeOK
    /\ inverter \in Inverters

Energised == enabled \/ pre

(* The contactors are never energised before the battery has been heard:   *)
(* solax checks LAST_BMS_MESSAGE for it, forceh2 only BMS.valid.           *)
EnergisedMeansSeen == Energised => last # NotSeen

(* While GLOBALSTATE reports InvFault the contactor has been told to open  *)
(* and one more positive result does not close it.                         *)
FaultMeansOpen == fault = "InvFault" => lastCmd = "open" /\ ~initalised

(* A "close" is given only on data that was fresh, or became stale while   *)
(* the answer was blocked in the full channel (the check is made before    *)
(* that await, solax.rs:36, forceh2.rs:33).                                *)
CloseOnFreshData ==
    [][lastCmd = "open" /\ lastCmd' = "close"
         => (last \in 0..Timeout) \/ invPc = "reply"]_vars

(* "waits for 2 positive results before activating contactor"              *)
(* (can_processors_solax.rs:104).                                          *)
TwoPositivesToClose ==
    [][lastCmd = "open" /\ lastCmd' = "close" => positives' = 2]_vars

(* inverter_task and inverter_rx wait for each other's channel. *)
Wedged == canPc = "send" /\ Full(chRx) /\ invPc = "reply" /\ Full(chTx)

(* CAN2 stops being served only if the bus never takes a frame or the two  *)
(* tasks wedge (can_interfaces.rs:72 against the send in inverter_rx).     *)
Can2StallsOnlyWhenWedged ==
    \/ []<>(canPc = "select")
    \/ <>[](canPc = "write")
    \/ <>[]Wedged

RequestHandled == Receive("request")

(* Fail-safe: if the battery falls silent and the inverter's requests are  *)
(* still handled, both contactors end up and stay de-energised.            *)
FailSafe ==
    <>[][~BmsUpdate]_vars /\ []<><<RequestHandled>>_vars => <>[]~Energised

(* An answer has been sent completely. *)
Answered == toSend' = 0 /\ (Resumable \/ (Receive("request") /\ chTx' # chTx))

(* The parser turns down no request for good, and the feed stays fresh and *)
(* valid: then, if answers keep being completed, the contactor of a solax  *)
(* or forceh2 build closes and stays closed.                               *)
ClosesWhenHealthy ==
    /\ inverter # "pylontech"
    /\ <>[](last \in 0..Timeout /\ valid)
    /\ <>[][~(SolaxCritical \/ H2BadFrame)]_vars
    /\ []<><<Answered>>_vars
    => <>[](enabled /\ ~pre)
=============================================================================
