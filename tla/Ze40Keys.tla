------------------------------ MODULE Ze40Keys -------------------------------
(***************************************************************************)
(* The key bookkeeping of tasks/can_processors_ze40.rs: x445_signal counts *)
(* the battery's key frames (0x445) into LBC_STATUS, and bms_tx_periodic   *)
(* chooses the key that the next preamble frame carries from a counter of  *)
(* its own.  None is the key of the first preamble, before any is chosen.  *)
(* The preamble goes into BMS_CHANNEL_TX with try_send, which drops it     *)
(* when the channel is full; bms_rx and bms_task fill and drain that       *)
(* channel at their own pace, so here it may be full at any preamble.      *)
(***************************************************************************)
EXTENDS Naturals

VARIABLES
    faa, f55,         \* u8 counters of 0xaa and of other key frames in a row
    LBC_STATUS,       \* signal: "none" or the last key signalled (never taken)
    counter, lbc_key, \* of bms_tx_periodic
    queuedKey,        \* history: the key of the last preamble queued,
    queuedRun,        \*   how many in a row were queued with it,
    before,           \*   how many were dropped just before the first of them,
    during,           \*   between the first and the last of them,
    gap               \*   and since the last

history == <<queuedKey, queuedRun, before, during, gap>>
keysVars == <<faa, f55, LBC_STATUS, counter, lbc_key, history>>

(* The history counts saturate: no property tells a larger count apart. *)
MAX_RUN == 6
MAX_DROPS == 5
UpTo(max, n) == IF n > max THEN max ELSE n

KeysInit ==
    /\ faa = 0 /\ f55 = 0
    /\ LBC_STATUS = "none"
    /\ counter = 0 /\ lbc_key = "None"
    /\ queuedKey = "None" /\ queuedRun = 0 /\ before = 0 /\ during = 0 /\ gap = 0

(* Mutant of X445: the counter wraps one frame late and is not cleared by  *)
(* a frame of the other kind.                                              *)
X445NeverClears(aa) ==
    /\ IF aa THEN faa' = (faa + 1) % 5 /\ UNCHANGED f55
             ELSE f55' = (f55 + 1) % 5 /\ UNCHANGED faa
    /\ UNCHANGED <<LBC_STATUS, counter, lbc_key, history>>

(* x445_signal: aa is data[2] = 0xaa; four in a row signal a key. *)
X445(aa) ==
    /\ faa' = IF aa THEN (faa + 1) % 4 ELSE 0
    /\ f55' = IF aa THEN 0 ELSE (f55 + 1) % 4
    /\ LBC_STATUS' = IF aa /\ faa = 3 THEN "X5d"
                     ELSE IF ~aa /\ f55 = 3 THEN "Xb2" ELSE LBC_STATUS
    /\ UNCHANGED <<counter, lbc_key, history>>

(* Mutant of NextKey: 1..=5 written as 1..5. *)
NextKeyOffByOne(c) == IF c \in 1..4 THEN "X5d" ELSE "Xb2"

NextKey(c) == IF c \in 1..5 THEN "X5d" ELSE "Xb2"

(* What try_send makes of the history: the preamble is dropped, or queued  *)
(* as one more of its key's run or as the first of a new run.              *)
Dropped ==
    /\ gap' = UpTo(MAX_DROPS, gap + 1)
    /\ UNCHANGED <<queuedKey, queuedRun, before, during>>

Queued ==
    /\ queuedKey' = lbc_key
    /\ gap' = 0
    /\ IF lbc_key = queuedKey
       THEN /\ queuedRun' = UpTo(MAX_RUN, queuedRun + 1)
            /\ during' = UpTo(MAX_DROPS, during + gap)
            /\ UNCHANGED before
       ELSE queuedRun' = 1 /\ during' = 0 /\ before' = gap

(* t1 of bms_tx_periodic: send with the present key, then choose the next  *)
(* one, whether or not the channel was full.                               *)
Preamble(full) ==
    /\ IF full THEN Dropped ELSE Queued
    /\ counter' = IF counter + 1 \in 1..9 THEN counter + 1 ELSE 0
    /\ lbc_key' = NextKey(counter + 1)
    /\ UNCHANGED <<faa, f55, LBC_STATUS>>

KeysNext == (\E aa \in BOOLEAN : X445(aa)) \/ (\E full \in BOOLEAN : Preamble(full))

-----------------------------------------------------------------------------
(* The u8 counters of x445_signal stay below four and never both count, so *)
(* their unchecked += 1 cannot overflow however long the battery repeats a *)
(* key.                                                                    *)
KeyCountersBounded == faa \in 0..3 /\ f55 \in 0..3 /\ (faa = 0 \/ f55 = 0)

(* What a step may do to the keys queued: more than five in a row carry    *)
(* one key only when the other key's five were all dropped in between; and *)
(* from the second preamble on, a run gives way to the other key only when *)
(* its five were all queued or dropped.                                    *)
KeyStep ==
    /\ queuedRun' > 5 => during' = MAX_DROPS
    /\ queuedKey' # queuedKey /\ queuedKey # "None" =>
          before + queuedRun + during + gap >= 5
=============================================================================
