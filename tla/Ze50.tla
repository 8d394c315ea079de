-------------------------------- MODULE Ze50 ---------------------------------
(***************************************************************************)
(* The battery side of a "ze50" build: bms_rx, bms_tx_periodic and update  *)
(* of tasks/can_processors_ze50.rs with bms_task (CanTask).  The battery   *)
(* is polled: bms_tx_periodic asks for the reading ZE50_DATA.req_code, and *)
(* the external process_payload stores an answer and moves req_code on.    *)
(* Of req_code only whether it is 0x1, the first of the loop, matters.     *)
(*                                                                         *)
(* Classes of received frames: "payload" (extended id with data), "other"  *)
(* (standard id, or no data).                                              *)
(***************************************************************************)
EXTENDS CanTask

CONSTANTS
    Timeout,
    InitPayloads      \* number of frames of init_payloads() (external)

VARIABLES
    txPc,             \* ticks of bms_tx_periodic before its loop, 0 in it
    preamble1,        \* preamble_frame_number_1
    reqFirst,         \* ZE50_DATA.req_code = 0x1
    last, valid,
    loop              \* history: "start", then "answered" by a stored answer
                      \* or "pushed" by an update since

ze50Vars == <<canVars, txPc, preamble1, reqFirst, last, valid, loop>>

Feed == INSTANCE BmsFeed

(* Data::default() is external, so the first req_code is left open. *)
Ze50Init ==
    /\ CanInit
    /\ txPc = InitPayloads + 1
    /\ preamble1 = TRUE
    /\ reqFirst \in BOOLEAN
    /\ Feed!FeedInit
    /\ loop = "start"

(* Mutant of Receive: bms_rx first waits for room to answer. *)
ReceiveNeedsTxRoom(f) ==
    /\ chRx # <<>> /\ Head(chRx) = f /\ ~Full(chTx)
    /\ chRx' = Tail(chRx)
    /\ UNCHANGED <<canPc, canHeld, hwRx, chTx, txPc, preamble1>>

(* rx.receive().await returns a frame of class f. *)
Receive(f) ==
    /\ chRx # <<>> /\ Head(chRx) = f
    /\ chRx' = Tail(chRx)
    /\ UNCHANGED <<canPc, canHeld, hwRx, chTx, txPc, preamble1>>

(* A standard id, an empty frame, or an answer that does not decode. *)
RxIgnore ==
    /\ \E f \in RxFrame : Receive(f)
    /\ UNCHANGED <<reqFirst, last, valid, loop>>

(* process_payload Ok: stamp. *)
RxPayload ==
    /\ Receive("payload")
    /\ reqFirst' \in BOOLEAN
    /\ last' = 0
    /\ loop' = "answered"
    /\ UNCHANGED valid

(* The 2 s start delay (no frame) and the 200 ms init frames. *)
TxStart(t) ==
    /\ txPc > 0
    /\ txPc' = txPc - 1
    /\ IF txPc > InitPayloads THEN UNCHANGED chTx ELSE TrySend(t)
    /\ UNCHANGED <<canPc, canHeld, hwRx, chRx, preamble1, reqFirst, last, valid, loop>>

(* t1: the two preambles in turn. *)
TxPreamble(t) ==
    /\ txPc = 0
    /\ preamble1' = ~preamble1
    /\ TrySend(t)
    /\ UNCHANGED <<canPc, canHeld, hwRx, chRx, txPc, reqFirst, last, valid, loop>>

(* update(): stamp, then the setters; one that fails leaves valid FALSE. *)
PushReadings ==
    /\ last' = 0
    /\ valid' \in BOOLEAN
    /\ loop' = IF loop = "start" THEN "start" ELSE "pushed"

(* t2: at req_code 0x1 push the readings to BMS, then ask for req_code. *)
TxRequest(t) ==
    /\ txPc = 0
    /\ IF reqFirst THEN PushReadings ELSE UNCHANGED <<last, valid, loop>>
    /\ TrySend(t)
    /\ UNCHANGED <<canPc, canHeld, hwRx, chRx, txPc, preamble1, reqFirst>>

Processor == RxIgnore \/ RxPayload

Periodic == \E t \in TxFrame : TxStart(t) \/ TxPreamble(t) \/ TxRequest(t)

others == <<txPc, preamble1, reqFirst, last, valid, loop>>

Battery == (\E f \in RxFrame : HwReceive(f)) /\ UNCHANGED others

CanLoop == CanStep /\ UNCHANGED others

Written == CanWritten /\ UNCHANGED others

Clock == Feed!Second /\ UNCHANGED <<canVars, txPc, preamble1, reqFirst, loop>>

Ze50Next == Processor \/ Periodic \/ Battery \/ CanLoop \/ Written \/ Clock

(* Tasks that are woken run and time passes; both tickers keep firing. *)
Ze50Spec ==
    /\ Ze50Init /\ [][Ze50Next]_ze50Vars
    /\ WF_ze50Vars(Processor) /\ WF_ze50Vars(CanLoop) /\ WF_ze50Vars(Clock)
    /\ WF_ze50Vars(\E t \in TxFrame : TxStart(t))
    /\ WF_ze50Vars(\E t \in TxFrame : TxRequest(t))

-----------------------------------------------------------------------------
(* "push vals to ZE50_BMS struct when reading loop has finished" (ze50.rs, *)
(* line 17): once the battery answers, two pushes have an answer between. *)
PushEndsReadingLoop ==
    [][reqFirst /\ (\E t \in TxFrame : TxRequest(t)) => loop # "pushed"]_ze50Vars
=============================================================================
