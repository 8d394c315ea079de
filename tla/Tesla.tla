-------------------------------- MODULE Tesla --------------------------------
(***************************************************************************)
(* The battery side of a "tesla_m3" build: bms_rx and bms_tx_periodic of   *)
(* tasks/can_processors_tesla_m3.rs with bms_task (CanTask).  decode_frame *)
(* and update_bms are external (tesla_m3_bms) and chosen freely; the pack  *)
(* has integrated contactors, whose reported state decides what bms_rx     *)
(* puts in the signal CONTACTOR.                                           *)
(***************************************************************************)
EXTENDS CanTask

CONSTANTS
    Timeout,
    Arrays            \* number of payloads in `arrays` (6)

VARIABLES
    txPc,             \* "boot" (4 s delay) or "loop"
    txNext,           \* index of the payload sent next
    contactorCommand, \* local contactor_command of bms_rx
    CONTACTOR,        \* signal: "none" or the last command (never taken)
    last, valid

teslaVars == <<canVars, txPc, txNext, contactorCommand, CONTACTOR, last, valid>>

Feed == INSTANCE BmsFeed

TeslaInit ==
    /\ CanInit
    /\ txPc = "boot" /\ txNext = 0
    /\ contactorCommand = "Precharge" /\ CONTACTOR = "none"
    /\ Feed!FeedInit

(* rx.receive().await returns a frame. *)
Receive ==
    /\ chRx # <<>>
    /\ chRx' = Tail(chRx)
    /\ UNCHANGED <<canPc, canHeld, hwRx, chTx, txPc, txNext>>

(* decode_frame Err: the frame is dropped. *)
RxUndecoded == Receive /\ UNCHANGED <<contactorCommand, CONTACTOR, last, valid>>

(* The match on the reported contactor state follows it in                 *)
(* contactor_command; the signal that follows overwrites what it signalled.*)
Contactors(reported) ==
    /\ contactorCommand' = CASE reported = "economized" -> "Close"
                             [] reported = "open" -> "Precharge"
                             [] OTHER -> contactorCommand
    /\ CONTACTOR' = "Precharge"

(* Decoded, with no update due. *)
RxDecoded(reported) == Receive /\ Contactors(reported) /\ UNCHANGED <<last, valid>>

(* Decoded with an update: update_bms Ok stamps, Err does not and may      *)
(* leave the data invalid.                                                 *)
RxUpdate(reported) ==
    /\ Receive /\ Contactors(reported)
    /\ \/ last' = 0 /\ valid' \in BOOLEAN
       \/ last' = last /\ valid' \in {valid, FALSE}

TxBoot ==
    /\ txPc = "boot"
    /\ txPc' = "loop"
    /\ UNCHANGED <<canVars, txNext, contactorCommand, CONTACTOR, last, valid>>

(* Mutant of TxSend: sending counts as hearing the pack. *)
TxSendStamps(t) ==
    /\ txPc = "loop"
    /\ TrySend(t)
    /\ txNext' = (txNext + 1) % Arrays
    /\ last' = 0
    /\ UNCHANGED <<canPc, canHeld, hwRx, chRx, txPc, contactorCommand, CONTACTOR, valid>>

(* Every TX_INTERVAL the next of the payloads, round and round. *)
TxSend(t) ==
    /\ txPc = "loop"
    /\ TrySend(t)
    /\ txNext' = (txNext + 1) % Arrays
    /\ UNCHANGED <<canPc, canHeld, hwRx, chRx, txPc, contactorCommand, CONTACTOR, last, valid>>

Reports == {"economized", "open", "other"}

Processor == RxUndecoded \/ \E r \in Reports : RxDecoded(r) \/ RxUpdate(r)

Periodic == TxBoot \/ \E t \in TxFrame : TxSend(t)

others == <<txPc, txNext, contactorCommand, CONTACTOR, last, valid>>

Battery == (\E f \in RxFrame : HwReceive(f)) /\ UNCHANGED others

CanLoop == CanStep /\ UNCHANGED others

Written == CanWritten /\ UNCHANGED others

Clock == Feed!Second /\ UNCHANGED <<canVars, txPc, txNext, contactorCommand, CONTACTOR>>

TeslaNext == Processor \/ Periodic \/ Battery \/ CanLoop \/ Written \/ Clock
=============================================================================
