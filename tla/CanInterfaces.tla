---------------------------- MODULE CanInterfaces ----------------------------
(***************************************************************************)
(* bms_task (CAN1) and inverter_task (CAN2) of tasks/can_interfaces.rs     *)
(* from reset.  The acceptance filters of both controllers belong to CAN1: *)
(* can1_init sets them and the signal CAN_READY lets inverter_task start.  *)
(* can.enable().await waits for the bus (external).  The loop that follows *)
(* is the same in both tasks and shares nothing; it is followed here on    *)
(* CAN2, with numbered frames (CanFifo), whose processor runs from the     *)
(* start, before the controller is enabled.                                *)
(***************************************************************************)
EXTENDS CanFifo

VARIABLES
    start1, start2,   \* "init" or "wait", then "enabling", then "run"
    CAN_READY,        \* signal taken by inverter_task
    filters           \* can1_init has configured the filter banks

startVars == <<start1, start2, CAN_READY, filters>>
interfaceVars == <<startVars, fifoVars>>

InterfacesInit ==
    /\ start1 = "init" /\ start2 = "wait"
    /\ CAN_READY = FALSE /\ filters = FALSE
    /\ FifoInit

(* bms_task up to can.enable().await. *)
Can1Init ==
    /\ start1 = "init"
    /\ filters' = TRUE
    /\ start1' = "enabling"
    /\ UNCHANGED <<start2, CAN_READY, fifoVars>>

(* Mutant of Can1Enabled: CAN_READY is not signalled. *)
Can1EnabledSilently ==
    /\ start1 = "enabling"
    /\ start1' = "run"
    /\ UNCHANGED <<start2, CAN_READY, filters, fifoVars>>

(* CAN1 is enabled: CAN_READY.signal(true). *)
Can1Enabled ==
    /\ start1 = "enabling"
    /\ CAN_READY' = TRUE
    /\ start1' = "run"
    /\ UNCHANGED <<start2, filters, fifoVars>>

(* Mutant of Can2Init: CAN_READY is not waited for. *)
Can2InitAtOnce ==
    /\ start2 = "wait"
    /\ start2' = "enabling"
    /\ UNCHANGED <<start1, CAN_READY, filters, fifoVars>>

(* inverter_task: CAN_READY.wait().await, can2_init, can.enable().await. *)
Can2Init ==
    /\ start2 = "wait" /\ CAN_READY
    /\ CAN_READY' = FALSE
    /\ start2' = "enabling"
    /\ UNCHANGED <<start1, filters, fifoVars>>

Can2Enabled ==
    /\ start2 = "enabling"
    /\ start2' = "run"
    /\ UNCHANGED <<start1, CAN_READY, filters, fifoVars>>

(* A controller receives, and its loop runs, only once it is enabled. *)
Bus2 == start2 = "run" /\ Arrive /\ UNCHANGED startVars
Loop2 == start2 = "run" /\ (Loop \/ Written) /\ UNCHANGED startVars

Processor2 == (ProcessorTakes \/ ProcessorSends) /\ UNCHANGED startVars

InterfacesNext ==
    \/ Can1Init \/ Can1Enabled \/ Can2Init \/ Can2Enabled
    \/ Bus2 \/ Loop2 \/ Processor2

InLoop(A) == start2 = "run" /\ A /\ UNCHANGED <<startVars, counters>>

(* The executor starts the tasks; enable() depends on the bus.  Once both  *)
(* run, the loop goes on, the processor keeps receiving, the bus takes     *)
(* frames and a read does not fail for ever.                               *)
InterfacesSpec ==
    /\ InterfacesInit /\ [][InterfacesNext]_interfaceVars
    /\ WF_interfaceVars(Can1Init) /\ WF_interfaceVars(Can2Init)
    /\ WF_interfaceVars(InLoop(CanForward)) /\ WF_interfaceVars(InLoop(CanBackoffDone))
    /\ SF_interfaceVars(InLoop(CanRead)) /\ WF_interfaceVars(InLoop(CanTakeTx))
    /\ WF_interfaceVars(ProcessorTakes /\ UNCHANGED startVars)
    /\ WF_interfaceVars(start2 = "run" /\ Written /\ UNCHANGED startVars)

-----------------------------------------------------------------------------
(* CAN2 neither starts nor moves a frame before CAN1 has configured the    *)
(* filter banks of both ("always start can 1 first", main.rs:182).         *)
FiltersFirst == start2 # "wait" \/ hwRx # <<>> \/ chRx # <<>> \/ canPc # "select"
                    => filters /\ start1 = "run"

(* The one signal is enough: when CAN1 comes up CAN2 starts too.           *)
Can2Starts == <>(start1 = "run") => <>(start2 # "wait")

(* With a bus and a processor that go on, everything gets through in both  *)
(* directions once the controller is up and the traffic on the bus pauses, *)
(* what was queued before included.  (It must pause: select prefers the    *)
(* receive side, and MaxFrames ends the traffic here.)                     *)
EverythingGetsThrough ==
    <>(start2 = "run") => <>[](taken = arrived) /\ <>[](written = queued)
=============================================================================
