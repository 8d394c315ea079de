------------------------------- MODULE CanTask -------------------------------
(***************************************************************************)
(* One CAN task of tasks/can_interfaces.rs: the loop around can_routine    *)
(* that bms_task runs on CAN1 and inverter_task on CAN2.  It moves frames  *)
(* from the controller's receive queue to a channel (chRx) and from a      *)
(* channel (chTx) to the controller.  The channels hold FRAME_BUFFER       *)
(* frames: send blocks while the channel is full, try_send drops.          *)
(*                                                                         *)
(* hwRx is the receive queue that the driver's interrupt handler fills     *)
(* (external: embassy-stm32); it drops a frame when full.                  *)
(***************************************************************************)
EXTENDS Naturals, Sequences

CONSTANTS
    RxFrame,          \* classes of received frames
    TxFrame,          \* classes of transmitted frames
    FRAME_BUFFER,     \* capacity of chRx and of chTx (10 in types/mod.rs)
    HwQueue           \* capacity of hwRx

VARIABLES
    canPc,            \* "select", "send" (chRx full), "backoff" or "write"
    canHeld,          \* the frame in hand in "send" and "write", as <<f>>
    hwRx, chRx, chTx

canVars == <<canPc, canHeld, hwRx, chRx, chTx>>

CanTypeOK ==
    /\ canPc \in {"select", "send", "backoff", "write"}
    /\ canHeld \in IF canPc = "send" THEN {<<f>> : f \in RxFrame}
                   ELSE IF canPc = "write" THEN {<<f>> : f \in TxFrame} ELSE {<<>>}
    /\ hwRx \in Seq(RxFrame) /\ Len(hwRx) <= HwQueue
    /\ chRx \in Seq(RxFrame) /\ Len(chRx) <= FRAME_BUFFER
    /\ chTx \in Seq(TxFrame) /\ Len(chTx) <= FRAME_BUFFER

CanInit ==
    /\ canPc = "select"
    /\ canHeld = <<>>
    /\ hwRx = <<>> /\ chRx = <<>> /\ chTx = <<>>

Full(ch) == Len(ch) >= FRAME_BUFFER

(* Mutant of TrySend: the capacity test is missing. *)
TrySendUnbounded(f) == chTx' = Append(chTx, f)

(* try_send: what does not fit is dropped with a log line. *)
TrySend(f) == chTx' = IF Full(chTx) THEN chTx ELSE Append(chTx, f)

(* The interrupt handler stores a frame from the bus, or drops it. *)
HwReceive(f) ==
    /\ hwRx' = IF Len(hwRx) < HwQueue THEN Append(hwRx, f) ELSE hwRx
    /\ UNCHANGED <<canPc, canHeld, chRx, chTx>>

-----------------------------------------------------------------------------
(* Mutant of CanRead: a full channel drops the frame, as try_send would. *)
CanReadDrops ==
    /\ canPc = "select" /\ hwRx # <<>>
    /\ hwRx' = Tail(hwRx)
    /\ chRx' = IF Full(chRx) THEN chRx ELSE Append(chRx, Head(hwRx))
    /\ UNCHANGED <<canPc, canHeld, chTx>>

(* Either::First, read Ok: into the channel at once if there is room, else *)
(* suspended in ch_rx.send with the frame in hand.                         *)
CanRead ==
    /\ canPc = "select" /\ hwRx # <<>>
    /\ hwRx' = Tail(hwRx)
    /\ IF Full(chRx)
       THEN canPc' = "send" /\ canHeld' = <<Head(hwRx)>> /\ UNCHANGED chRx
       ELSE chRx' = Append(chRx, Head(hwRx)) /\ UNCHANGED <<canPc, canHeld>>
    /\ UNCHANGED chTx

(* ch_rx.send resumes when the processor has made room. *)
CanForward ==
    /\ canPc = "send" /\ ~Full(chRx)
    /\ chRx' = chRx \o canHeld
    /\ canPc' = "select" /\ canHeld' = <<>>
    /\ UNCHANGED <<hwRx, chTx>>

(* Either::First, read Err: back off for 50 ms. *)
CanReadError ==
    /\ canPc = "select" /\ hwRx # <<>>
    /\ canPc' = "backoff"
    /\ UNCHANGED <<canHeld, hwRx, chRx, chTx>>

CanBackoffDone ==
    /\ canPc = "backoff"
    /\ canPc' = "select"
    /\ UNCHANGED <<canHeld, hwRx, chRx, chTx>>

(* Mutant of CanTakeTx: the frame is looked at but stays in the channel. *)
CanTakeTxPeeks ==
    /\ canPc = "select" /\ hwRx = <<>> /\ chTx # <<>>
    /\ canPc' = "write" /\ canHeld' = <<Head(chTx)>>
    /\ UNCHANGED <<hwRx, chRx, chTx>>

(* Mutant of CanTakeTx: frames are transmitted only when the channel is full. *)
CanTakeTxWhenFull ==
    /\ canPc = "select" /\ hwRx = <<>> /\ Full(chTx)
    /\ canPc' = "write" /\ canHeld' = <<Head(chTx)>>
    /\ chTx' = Tail(chTx)
    /\ UNCHANGED <<hwRx, chRx>>

(* Either::Second: select polls the receive side first, so a frame is      *)
(* transmitted only while nothing waits in the receive queue.              *)
CanTakeTx ==
    /\ canPc = "select" /\ hwRx = <<>> /\ chTx # <<>>
    /\ canPc' = "write" /\ canHeld' = <<Head(chTx)>>
    /\ chTx' = Tail(chTx)
    /\ UNCHANGED <<hwRx, chRx>>

(* tx.write returns once the controller has a free mailbox (external). *)
CanWritten ==
    /\ canPc = "write"
    /\ canPc' = "select" /\ canHeld' = <<>>
    /\ UNCHANGED <<hwRx, chRx, chTx>>

(* What the executor and the timers guarantee to happen. *)
CanStep == CanRead \/ CanForward \/ CanReadError \/ CanBackoffDone \/ CanTakeTx
=============================================================================
