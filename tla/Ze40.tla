-------------------------------- MODULE Ze40 ---------------------------------
(***************************************************************************)
(* The battery side of a "ze40" build: bms_rx and bms_tx_periodic of       *)
(* tasks/can_processors_ze40.rs with bms_task (CanTask) between them and   *)
(* the battery.  Frame decoding is in the external crate ze40_bms; bms_rx  *)
(* sees only its results, which are chosen freely.                         *)
(*                                                                         *)
(* Classes of received frames: "rapid" (0x155, 0x424, 0x425, 0x4ae),       *)
(* "diag" (0x7bb), "other" (every other id, and 0x445, which only counts   *)
(* keys: module Ze40Keys).  All transmitted frames are alike.              *)
(***************************************************************************)
EXTENDS CanTask

CONSTANT Timeout

VARIABLES
    rxPc,             \* bms_rx: "receive", or "send" (blocked in tx.send)
    last, valid       \* LAST_BMS_MESSAGE and BMS.valid, as in BmsFeed

ze40Vars == <<canVars, rxPc, last, valid>>

Feed == INSTANCE BmsFeed

Ze40Init == CanInit /\ rxPc = "receive" /\ Feed!FeedInit

(* rx.receive().await returns a frame of class f. *)
Receive(f) ==
    /\ rxPc = "receive"
    /\ chRx # <<>> /\ Head(chRx) = f
    /\ chRx' = Tail(chRx)

(* Filtered out, 0x445, or a decoding error: no effect on the BMS data. *)
IgnoreFrame ==
    /\ \E f \in RxFrame : Receive(f)
    /\ UNCHANGED <<canPc, canHeld, hwRx, chTx, rxPc, last, valid>>

(* Mutant of Update: the stamp is written after the setters, which may     *)
(* return early with valid data.                                           *)
UpdateStampsLast ==
    /\ \E f \in {"rapid", "diag"} : Receive(f)
    /\ \/ last' = 0 /\ valid' = FALSE
       \/ last' = last /\ valid' = TRUE
    /\ UNCHANGED <<canPc, canHeld, hwRx, chTx, rxPc>>

(* rapid_data_processor Ok(true) or diag_data_processor Ok(None): stamp,   *)
(* then set_valid(false), the setters, set_valid(true); a setter that      *)
(* fails returns early and leaves the data invalid.                        *)
Update ==
    /\ \E f \in {"rapid", "diag"} : Receive(f)
    /\ last' = 0
    /\ valid' \in BOOLEAN
    /\ UNCHANGED <<canPc, canHeld, hwRx, chTx, rxPc>>

(* diag_data_processor Ok(Some(next)): tx.send(next).await, which blocks   *)
(* bms_rx while BMS_CHANNEL_TX is full.                                    *)
RequestNext(t) ==
    /\ Receive("diag")
    /\ IF Full(chTx) THEN rxPc' = "send" /\ UNCHANGED chTx
                     ELSE chTx' = Append(chTx, t) /\ UNCHANGED rxPc
    /\ UNCHANGED <<canPc, canHeld, hwRx, last, valid>>

(* Mutant of SendResumes: a full channel drops its oldest frame. *)
SendResumesDropping(t) ==
    /\ rxPc = "send"
    /\ chTx' = Tail(Append(chTx, t))
    /\ rxPc' = "receive"
    /\ UNCHANGED <<canPc, canHeld, hwRx, chRx, last, valid>>

(* A blocked send finds room. *)
SendResumes(t) ==
    /\ rxPc = "send" /\ ~Full(chTx)
    /\ chTx' = Append(chTx, t)
    /\ rxPc' = "receive"
    /\ UNCHANGED <<canPc, canHeld, hwRx, chRx, last, valid>>

(* bms_tx_periodic: the 95 ms and the 5 s ticker both try_send a frame. *)
Periodic(t) ==
    /\ TrySend(t)
    /\ UNCHANGED <<canPc, canHeld, hwRx, chRx, rxPc, last, valid>>

Processor == IgnoreFrame \/ Update \/ \E t \in TxFrame : RequestNext(t) \/ SendResumes(t)

Battery == (\E f \in RxFrame : HwReceive(f)) /\ UNCHANGED <<rxPc, last, valid>>

CanLoop == CanStep /\ UNCHANGED <<rxPc, last, valid>>

Written == CanWritten /\ UNCHANGED <<rxPc, last, valid>>

Clock == Feed!Second /\ UNCHANGED <<canVars, rxPc>>

Ze40Next ==
    \/ Processor \/ (\E t \in TxFrame : Periodic(t))
    \/ Battery \/ CanLoop \/ Written \/ Clock

-----------------------------------------------------------------------------
(* bms_task waits for room in BMS_CHANNEL_RX and bms_rx for room in        *)
(* BMS_CHANNEL_TX: each is the only one that could make room for the other.*)
Wedged == canPc = "send" /\ Full(chRx) /\ rxPc = "send" /\ Full(chTx)
=============================================================================
