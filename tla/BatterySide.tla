---------------------------- MODULE BatterySide ------------------------------
(***************************************************************************)
(* The battery side of the firmware, for each battery it can be built for  *)
(* (a Cargo feature): ze40, ze50 or tesla_m3.  All three share bms_task    *)
(* (CanTask) and the feed to the inverter side; what differs is how frames *)
(* are processed and sent.  "ze40 keys" is the key bookkeeping of a ze40   *)
(* build: it shares only the transmit channel with the data path, whose    *)
(* being full is a free choice there, and runs alone here.                 *)
(***************************************************************************)
EXTENDS Naturals, Sequences

CONSTANTS
    FRAME_BUFFER, HwQueue, Timeout, \* as in CanTask and BmsFeed
    InitPayloads,                   \* as in Ze50
    Arrays                          \* as in Tesla

ASSUME BatteryAssumption ==
    /\ {FRAME_BUFFER, HwQueue, Arrays} \subseteq Nat \ {0}
    /\ {Timeout, InitPayloads} \subseteq Nat

VARIABLES
    build,                          \* the feature selected
    canPc, canHeld, hwRx, chRx, chTx,               \* bms_task (CanTask)
    last, valid,                    \* the feed (BmsFeed)
    rxPc,                           \* ze40
    txPc,                           \* ze50 and tesla_m3
    preamble1, reqFirst, loop,      \* ze50
    txNext, contactorCommand, CONTACTOR,                              \* tesla_m3
    faa, f55, LBC_STATUS, counter, lbc_key,         \* ze40 keys
    queuedKey, queuedRun, before, during, gap       \* and their history

canVars == << canPc, canHeld, hwRx, chRx, chTx >>
ze50Own == << preamble1, reqFirst, loop >>
teslaOwn == << txNext, contactorCommand, CONTACTOR >>
keysOwn == << faa, f55, LBC_STATUS, counter, lbc_key,
              queuedKey, queuedRun, before, during, gap >>
batteryVars == << build, canVars, last, valid, rxPc, txPc, ze50Own, teslaOwn, keysOwn >>

(* The classes of received frames each build tells apart. *)
Ze40 == INSTANCE Ze40 WITH RxFrame <- {"rapid", "diag", "other"}, TxFrame <- {"tx"}
Ze50 == INSTANCE Ze50 WITH RxFrame <- {"payload", "other"}, TxFrame <- {"tx"}
TeslaM3 == INSTANCE Tesla WITH RxFrame <- {"frame"}, TxFrame <- {"tx"}
Keys == INSTANCE Ze40Keys
Feed == INSTANCE BmsFeed

Idle40 == rxPc = "receive"
Idle50 == preamble1 = TRUE /\ reqFirst = FALSE /\ loop = "start"
IdleTesla == txNext = 0 /\ contactorCommand = "Precharge" /\ CONTACTOR = "none"

BatteryInit ==
    /\ Keys!KeysInit
    /\ \/ build = "ze40" /\ Ze40!Ze40Init /\ txPc = 0 /\ Idle50 /\ IdleTesla
       \/ build = "ze50" /\ Ze50!Ze50Init /\ Idle40 /\ IdleTesla
       \/ build = "tesla_m3" /\ TeslaM3!TeslaInit /\ Idle40 /\ Idle50
       \/ build = "ze40 keys" /\ Ze40!Ze40Init /\ txPc = 0 /\ Idle50 /\ IdleTesla

(* A step of the build's own, which leaves the variables of the others. *)
In40(A) == build = "ze40" /\ A /\ UNCHANGED << build, txPc, ze50Own, teslaOwn, keysOwn >>
In50(A) == build = "ze50" /\ A /\ UNCHANGED << build, rxPc, teslaOwn, keysOwn >>
InTesla(A) == build = "tesla_m3" /\ A /\ UNCHANGED << build, rxPc, ze50Own, keysOwn >>
InKeys(A) ==
    /\ build = "ze40 keys" /\ A
    /\ UNCHANGED << build, canVars, last, valid, rxPc, txPc, ze50Own, teslaOwn >>

Battery == In40(Ze40!Battery) \/ In50(Ze50!Battery) \/ InTesla(TeslaM3!Battery)

BatteryNext ==
    \/ In40(Ze40!Ze40Next)
    \/ In50(Ze50!Ze50Next)
    \/ InTesla(TeslaM3!TeslaNext)
    \/ InKeys(Keys!KeysNext)

(* In each build the tasks that are woken run, the tickers fire and time   *)
(* passes; nothing is assumed of the battery or of the bus (Written).      *)
BatterySpec ==
    /\ BatteryInit /\ [][BatteryNext]_batteryVars
    /\ WF_batteryVars(In40(Ze40!Processor) \/ In50(Ze50!Processor) \/ InTesla(TeslaM3!Processor))
    /\ WF_batteryVars(In40(Ze40!CanLoop) \/ In50(Ze50!CanLoop) \/ InTesla(TeslaM3!CanLoop))
    /\ WF_batteryVars(In40(Ze40!Clock) \/ In50(Ze50!Clock) \/ InTesla(TeslaM3!Clock))
    /\ WF_batteryVars(In50(Ze50!TxStart("tx")))
    /\ WF_batteryVars(In50(Ze50!TxRequest("tx")))

-----------------------------------------------------------------------------
(* In a ze40 build the mutual wait of bms_task and bms_rx is permanent: no *)
(* frame, timer or task step ever resolves it (can_interfaces.rs:72        *)
(* against can_processors_ze40.rs:180).                                    *)
WedgeIsForever == [][build = "ze40" /\ Ze40!Wedged => Ze40!Wedged']_batteryVars

(* The only ways for bms_task to stop serving CAN1 are a bus that never    *)
(* takes a frame and, in a ze40 build alone, the wedge; in every other     *)
(* case it keeps returning to its select.                                  *)
StallsOnlyWhenWedged ==
    \/ []<>(canPc = "select")
    \/ <>[](canPc = "write")
    \/ build = "ze40" /\ <>[](Ze40!Wedged)

(* Every build keeps its promise to the inverter side: valid data only     *)
(* together with a stamp, and a stamp only with an update.                 *)
ImplementsFeed == Feed!FeedSafety

(* A battery that falls silent makes LAST_BMS_MESSAGE time out, whatever   *)
(* was still queued; a ze50 build excepted that has the first reading      *)
(* outstanding, which update() refreshes for ever.                         *)
SilenceTimesOut ==
    <>[][~Battery]_batteryVars =>
        \/ <>[](last = Feed!NotSeen \/ Feed!Stale)
        \/ build = "ze50" /\ <>[]reqFirst

(* The u8 counters of x445_signal stay below four and never both count, so *)
(* their unchecked += 1 cannot overflow however long the battery repeats a *)
(* key.                                                                    *)
KeyCountersBounded == Keys!KeyCountersBounded

(* The two keys are queued by turns of five but for the preambles that a   *)
(* full BMS_CHANNEL_TX drops, and the drops never shift the turns: a key   *)
(* is queued more than five times in a row only if the other key's five    *)
(* were all dropped meanwhile, and gives way after fewer than five only by *)
(* as many as were dropped.                                                *)
KeysAlternateEveryFive == [][Keys!KeyStep]_batteryVars
=============================================================================
