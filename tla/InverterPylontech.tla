-------------------------- MODULE InverterPylontech --------------------------
(***************************************************************************)
(* inverter_rx of tasks/can_processors_pylontech.rs (features "pylontech", *)
(* "byd" and "goodwe").  It is driven by a 1 s timer: each round sends the *)
(* BMS data unasked, and takes at most one frame from the inverter, to log *)
(* it.  inverter_comms_valid is set to false at the start of every round   *)
(* and never to true.                                                      *)
(***************************************************************************)
EXTENDS InverterLink

(* recv.try_receive() at the top of the loop, then Timer::after. *)
NextRound == chRx' = IF chRx = <<>> THEN chRx ELSE Tail(chRx)

(* The timer has fired and the BMS has timed out. *)
PylonTimeout ==
    /\ invPc = "pause" /\ Stale
    /\ Order("open")
    /\ NextRound
    /\ UNCHANGED <<Elsewhere, chTx, invPc, toSend>>

(* The data is not valid: skip the round without a command. *)
PylonInvalid ==
    /\ invPc = "pause" /\ ~Stale /\ ~valid
    /\ NextRound
    /\ UNCHANGED <<Elsewhere, chTx, CONTACTOR_STATE, linkVars>>

(* CONTACTOR_STATE.signal(inverter_comms_valid), still false. *)
PylonAfterSend ==
    IF toSend' = 0 THEN Order("open") /\ NextRound
    ELSE UNCHANGED <<CONTACTOR_STATE, lastCmd, chRx>>

(* The timer has fired: send the BMS data. *)
PylonSend(n) ==
    /\ invPc = "pause" /\ ~Stale /\ valid
    /\ SendFrames(n, "pause")
    /\ PylonAfterSend
    /\ UNCHANGED Elsewhere

(* The rest of a blocked round. *)
PylonResume ==
    /\ Resumable
    /\ SendFrames(toSend, "pause")
    /\ PylonAfterSend
    /\ UNCHANGED Elsewhere

PylonStep ==
    \/ PylonTimeout \/ PylonInvalid \/ PylonResume
    \/ \E n \in 1..MaxReply : PylonSend(n)
=============================================================================
