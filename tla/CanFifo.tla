------------------------------- MODULE CanFifo -------------------------------
(***************************************************************************)
(* One CAN task between a bus and a processor that takes and sends frames  *)
(* whenever it likes.  The frames the controller accepts, and the frames   *)
(* the processor gets into the transmit channel, are numbered, so that     *)
(* loss, duplication and reordering inside can_routine can be told.        *)
(***************************************************************************)
EXTENDS CanTask

CONSTANT MaxFrames    \* bound: frames in each direction

ASSUME FifoAssumption ==
    /\ MaxFrames \in Nat
    /\ RxFrame = 1..MaxFrames /\ TxFrame = 1..MaxFrames
    /\ FRAME_BUFFER \in Nat \ {0} /\ HwQueue \in Nat \ {0}

VARIABLES
    arrived,          \* frames stored in hwRx so far
    taken,            \* frames the processor has received so far
    queued,           \* frames accepted by chTx so far
    written           \* frames written to the controller so far

counters == <<arrived, taken, queued, written>>

fifoVars == <<canVars, counters>>

FifoInit == CanInit /\ arrived = 0 /\ taken = 0 /\ queued = 0 /\ written = 0

Arrive ==
    /\ arrived < MaxFrames
    /\ HwReceive(arrived + 1)
    /\ arrived' = IF hwRx' = hwRx THEN arrived ELSE arrived + 1
    /\ UNCHANGED <<taken, queued, written>>

(* receive() in the processor. *)
ProcessorTakes ==
    /\ chRx # <<>>
    /\ chRx' = Tail(chRx)
    /\ taken' = taken + 1
    /\ UNCHANGED <<canPc, canHeld, hwRx, chTx, arrived, queued, written>>

(* try_send() in the processor, or a send() that is not blocked. *)
ProcessorSends ==
    /\ queued < MaxFrames
    /\ TrySend(queued + 1)
    /\ queued' = IF chTx' = chTx THEN queued ELSE queued + 1
    /\ UNCHANGED <<canPc, canHeld, hwRx, chRx, arrived, taken, written>>

Loop == CanStep /\ UNCHANGED counters

Written ==
    /\ CanWritten
    /\ written' = written + 1
    /\ UNCHANGED <<arrived, taken, queued>>

-----------------------------------------------------------------------------
(* n+1, n+2, ..., m *)
Numbers(n, m) == [i \in 1..(m - n) |-> n + i]

(* Types; in particular no channel exceeds FRAME_BUFFER. *)
FifoTypeOK ==
    /\ CanTypeOK
    /\ arrived \in 0..MaxFrames /\ taken \in 0..arrived
    /\ queued \in 0..MaxFrames /\ written \in 0..queued

(* Every frame the controller accepted is, in order and once, either with  *)
(* the processor, in the channel, in the hand of can_routine or in the     *)
(* receive queue: back-pressure delays frames but loses none.              *)
RxInOrder ==
    chRx \o (IF canPc = "send" THEN canHeld ELSE <<>>) \o hwRx = Numbers(taken, arrived)

(* The same towards the controller: what can_routine has written are the   *)
(* first frames queued, in order, and the next is in its hand.  A frame    *)
(* that the driver takes back for one of higher priority (TransmitStatus,  *)
(* which can_routine ignores) counts as written.                           *)
TxInOrder ==
    (IF canPc = "write" THEN canHeld ELSE <<>>) \o chTx = Numbers(written, queued)
=============================================================================
