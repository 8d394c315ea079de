---------------------------- MODULE InverterLink -----------------------------
(***************************************************************************)
(* What the inverter tasks (inverter_rx of the three                       *)
(* tasks/can_processors_<inverter>.rs) have in common: they read frames    *)
(* from INVERTER_CHANNEL_RX (chRx), answer through INVERTER_CHANNEL_TX     *)
(* (chTx) with sends that block while it is full, look at the battery's    *)
(* feed (last, valid), and command the contactor through CONTACTOR_STATE.  *)
(*                                                                         *)
(* Frame classes: "request" is what the task passes to its parser,         *)
(* "foreign" what it skips; all answers are alike.  Modelled without       *)
(* feature "mqtt", whose SEND_MQTT is only a signal to another task.       *)
(***************************************************************************)
EXTENDS Contactor, CanTask, BmsFeed

CONSTANTS
    DrivesContactor,  \* not feature "tesla_m3" (solax and foxess only)
    MaxReply          \* most frames in one answer (external protocol crates)

ASSUME LinkAssumption ==
    /\ FRAME_BUFFER \in Nat \ {0}
    /\ HwQueue \in Nat
    /\ Timeout \in Nat
    /\ DrivesContactor \in BOOLEAN
    /\ MaxReply \in Nat \ {0}
    /\ RxFrame = {"request", "foreign"}
    /\ TxFrame = {"reply"}

VARIABLES
    invPc,            \* "receive", "pause" (1 s timer) or "reply" (blocked)
    toSend,           \* frames of the answer still to be sent in "reply"
    lastCmd           \* history: the last command signalled

linkVars == <<invPc, toSend, lastCmd>>

(* State an inverter task never touches. *)
Elsewhere == <<taskVars, canPc, canHeld, hwRx, feedVars>>

(* recv.receive().await returns a frame of class f. *)
Receive(f) ==
    /\ invPc = "receive"
    /\ chRx # <<>> /\ Head(chRx) = f
    /\ chRx' = Tail(chRx)

(* CONTACTOR_STATE.signal, compiled out for tesla_m3. *)
Order(c) ==
    IF DrivesContactor THEN Signal(c) /\ lastCmd' = c
                       ELSE UNCHANGED <<CONTACTOR_STATE, lastCmd>>

(* How many of n frames fit in the channel now. *)
Fits(n) == LET free == FRAME_BUFFER - Len(chTx) IN IF n <= free THEN n ELSE free

(* Mutant of SendFrames: the capacity of the channel is ignored. *)
SendFramesUnbounded(n, pc) ==
    /\ chTx' = chTx \o [i \in 1..n |-> "reply"]
    /\ toSend' = 0
    /\ invPc' = pc

(* for frame in frames { send(frame).await }: sends what fits and blocks   *)
(* with the rest; the task goes on to pc when all are sent.                *)
SendFrames(n, pc) ==
    /\ chTx' = chTx \o [i \in 1..Fits(n) |-> "reply"]
    /\ toSend' = n - Fits(n)
    /\ invPc' = IF toSend' = 0 THEN pc ELSE "reply"

(* A blocked send wakes up. *)
Resumable == invPc = "reply" /\ ~Full(chTx)

LinkTypeOK ==
    /\ invPc \in {"receive", "pause", "reply"}
    /\ toSend \in 0..MaxReply
    /\ invPc = "reply" <=> toSend > 0
    /\ lastCmd \in Command
=============================================================================
