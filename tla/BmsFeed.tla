------------------------------- MODULE BmsFeed -------------------------------
(***************************************************************************)
(* What the battery side promises the inverter side through the shared     *)
(* LAST_BMS_MESSAGE and BMS (statics/mod.rs): the time of the last update  *)
(* and whether the BMS data is valid.  LAST_BMS_MESSAGE is kept as its age *)
(* in whole seconds, capped one past the time-out, with NotSeen for None.  *)
(* Each battery module is shown to implement FeedSafety.                   *)
(***************************************************************************)
EXTENDS Integers

CONSTANT Timeout      \* LAST_READING_TIMEOUT_SECS (10)

VARIABLES
    last,             \* age of LAST_BMS_MESSAGE in seconds, or NotSeen
    valid             \* BMS.valid

feedVars == <<last, valid>>

NotSeen == -1

FeedTypeOK == last \in -1..(Timeout + 1) /\ valid \in BOOLEAN

FeedInit == last = NotSeen /\ valid = FALSE

(* time.elapsed().as_secs() > LAST_READING_TIMEOUT_SECS *)
Stale == last > Timeout

(* An update from the battery: stamped, and valid or rejected. *)
Deliver == last' = 0 /\ valid' \in BOOLEAN

(* An update that fails half-way leaves the data invalid and unstamped. *)
Spoil == valid' = FALSE /\ UNCHANGED last

(* One second passes. *)
Second ==
    /\ last # NotSeen
    /\ last' = IF last <= Timeout THEN last + 1 ELSE last
    /\ UNCHANGED valid

FeedNext == Deliver \/ Spoil \/ Second

FeedSafety == FeedInit /\ [][FeedNext]_feedVars
=============================================================================
