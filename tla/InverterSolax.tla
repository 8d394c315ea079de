---------------------------- MODULE InverterSolax ----------------------------
(***************************************************************************)
(* inverter_rx of tasks/can_processors_solax.rs (features "solax" and      *)
(* "foxess").  The external parser's result is chosen freely: an answer of *)
(* 1..MaxReply frames, a critical error, a frame that wants no answer, or  *)
(* another error.                                                          *)
(***************************************************************************)
EXTENDS InverterLink

VARIABLES
    initalised,       \* the previous result was positive
    fault,            \* GLOBALSTATE.fault
    positives         \* history: positive results since the last negative one
                      \* or the last deactivation, at most 2

solaxVars == <<initalised, fault, positives>>

SolaxInit == initalised = FALSE /\ fault = "None" /\ positives = 0

SolaxTypeOK ==
    /\ initalised \in BOOLEAN
    /\ fault \in {"None", "InvFault"}
    /\ positives \in 0..2

(* LAST_BMS_MESSAGE is Some and recent. *)
BmsSeen == last # NotSeen /\ ~Stale

(* An extended id other than 0x1871. *)
SolaxSkip ==
    /\ Receive("foreign")
    /\ UNCHANGED <<Elsewhere, chTx, CONTACTOR_STATE, linkVars, solaxVars>>

(* Mutant of SolaxTimeout: a stale feed is reported but not acted on. *)
SolaxTimeoutOnlyLogs ==
    /\ Receive("request") /\ ~BmsSeen
    /\ positives' = IF lastCmd = "close" THEN 0 ELSE positives
    /\ UNCHANGED <<Elsewhere, chTx, CONTACTOR_STATE, linkVars, initalised, fault>>

(* BMS never seen or timed out: open, and keep `initalised` as it is. *)
SolaxTimeout ==
    /\ Receive("request") /\ ~BmsSeen
    /\ Order("open")
    /\ positives' = IF lastCmd = "close" THEN 0 ELSE positives
    /\ UNCHANGED <<Elsewhere, chTx, invPc, toSend, initalised, fault>>

(* Mutant of Conclude: the fault is latched and never cleared. *)
ConcludeKeepsFault(ok) ==
    /\ fault' = IF ok THEN fault ELSE "InvFault"
    /\ Order(IF ok /\ initalised THEN "close" ELSE "open")
    /\ initalised' = ok
    /\ positives' = IF ~ok THEN 0 ELSE IF positives < 2 THEN positives + 1 ELSE 2

(* The end of the loop body: fault while not initalised, contactor,        *)
(* initalised.                                                             *)
Conclude(ok) ==
    /\ fault' = IF initalised THEN fault ELSE IF ok THEN "None" ELSE "InvFault"
    /\ Order(IF ok /\ initalised THEN "close" ELSE "open")
    /\ initalised' = ok
    /\ positives' = IF ~ok THEN 0 ELSE IF positives < 2 THEN positives + 1 ELSE 2

(* InvalidFrameEncode and BadId ("disable contactor"). *)
SolaxCritical ==
    /\ Receive("request") /\ BmsSeen
    /\ Conclude(FALSE)
    /\ UNCHANGED <<Elsewhere, chTx, invPc, toSend>>

(* TimeStamp and UnwantedFrame. *)
SolaxNoAnswer ==
    /\ Receive("request") /\ BmsSeen
    /\ UNCHANGED <<Elsewhere, chTx, CONTACTOR_STATE, linkVars, solaxVars>>

(* Any other parser error counts as a positive result. *)
SolaxOtherError ==
    /\ Receive("request") /\ BmsSeen
    /\ Conclude(TRUE)
    /\ UNCHANGED <<Elsewhere, chTx, invPc, toSend>>

(* Once the answer is sent. *)
AfterReply == IF toSend' = 0 THEN Conclude(TRUE)
              ELSE UNCHANGED <<CONTACTOR_STATE, lastCmd, solaxVars>>

(* Mutant of SolaxReply: the feed is not checked. *)
SolaxReplyUnchecked(n) ==
    /\ Receive("request")
    /\ SendFrames(n, "receive")
    /\ AfterReply
    /\ UNCHANGED Elsewhere

(* The parser's Ok(frames).  Invalid BMS data is logged, no more. *)
SolaxReply(n) ==
    /\ Receive("request") /\ BmsSeen
    /\ SendFrames(n, "receive")
    /\ AfterReply
    /\ UNCHANGED Elsewhere

(* Mutant of SolaxResume: the blocked send is never woken. *)
SolaxNeverResumes == FALSE /\ UNCHANGED <<Elsewhere, chRx, chTx, linkVars, solaxVars>>

(* The rest of a blocked answer. *)
SolaxResume ==
    /\ Resumable
    /\ SendFrames(toSend, "receive")
    /\ AfterReply
    /\ UNCHANGED <<Elsewhere, chRx>>

SolaxStep ==
    \/ SolaxSkip \/ SolaxTimeout \/ SolaxCritical \/ SolaxNoAnswer \/ SolaxOtherError
    \/ (\E n \in 1..MaxReply : SolaxReply(n)) \/ SolaxResume
=============================================================================
