--------------------------- MODULE InverterForceH2 ---------------------------
(***************************************************************************)
(* inverter_rx of tasks/can_processors_pylontech_forceh2.rs (feature       *)
(* "forceh2").  It treats LAST_BMS_MESSAGE = None as recent and relies on  *)
(* BMS.valid instead.                                                      *)
(***************************************************************************)
EXTENDS InverterLink

(* A standard id, or an extended id other than 0x4210. *)
H2Skip ==
    /\ Receive("foreign")
    /\ UNCHANGED <<Elsewhere, chTx, CONTACTOR_STATE, linkVars>>

(* The BMS has timed out. *)
H2Timeout ==
    /\ Receive("request") /\ Stale
    /\ Order("open")
    /\ UNCHANGED <<Elsewhere, chTx, invPc, toSend>>

(* Invalid data: no answer, and the contactor stays as it is. *)
H2Invalid ==
    /\ Receive("request") /\ ~Stale /\ ~valid
    /\ UNCHANGED <<Elsewhere, chTx, CONTACTOR_STATE, linkVars>>

(* parser Err. *)
H2BadFrame ==
    /\ Receive("request") /\ ~Stale /\ valid
    /\ Order("open")
    /\ UNCHANGED <<Elsewhere, chTx, invPc, toSend>>

(* Mutant of H2AfterReply: inverter_comms_valid is not set. *)
H2AfterReplyOpens == IF toSend' = 0 THEN Order("open")
                     ELSE UNCHANGED <<CONTACTOR_STATE, lastCmd>>

(* Once the answer is sent. *)
H2AfterReply == IF toSend' = 0 THEN Order("close")
                ELSE UNCHANGED <<CONTACTOR_STATE, lastCmd>>

(* Mutant of H2Reply: the data is not checked. *)
H2ReplyUnchecked(n) ==
    /\ Receive("request") /\ ~Stale
    /\ SendFrames(n, "receive")
    /\ H2AfterReply
    /\ UNCHANGED Elsewhere

(* parser Ok: send the answer, then close. *)
H2Reply(n) ==
    /\ Receive("request") /\ ~Stale /\ valid
    /\ SendFrames(n, "receive")
    /\ H2AfterReply
    /\ UNCHANGED Elsewhere

H2Resume ==
    /\ Resumable
    /\ SendFrames(toSend, "receive")
    /\ H2AfterReply
    /\ UNCHANGED <<Elsewhere, chRx>>

H2Step ==
    \/ H2Skip \/ H2Timeout \/ H2Invalid \/ H2BadFrame
    \/ (\E n \in 1..MaxReply : H2Reply(n)) \/ H2Resume
=============================================================================
