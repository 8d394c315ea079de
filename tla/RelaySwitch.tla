----------------------------- MODULE RelaySwitch -----------------------------
(***************************************************************************)
(* What the contactor task promises its commanders: a relay that follows   *)
(* the latest command.  Closing takes time and is not interrupted; a relay *)
(* opens only on a current "open" and starts to close only on a current    *)
(* "close"; a command that stays is obeyed.                                *)
(***************************************************************************)
VARIABLES lastCmd, relay

switchVars == <<lastCmd, relay>>

SwitchInit == lastCmd = "open" /\ relay = "opened"

Order(c) == lastCmd' = c /\ UNCHANGED relay

StartClosing == relay = "opened" /\ lastCmd = "close" /\ relay' = "closing"
                /\ UNCHANGED lastCmd

FinishClosing == relay = "closing" /\ relay' = "closed" /\ UNCHANGED lastCmd

Open == relay = "closed" /\ lastCmd = "open" /\ relay' = "opened"
        /\ UNCHANGED lastCmd

SwitchNext == \/ \E c \in {"open", "close"} : Order(c)
              \/ StartClosing \/ FinishClosing \/ Open

SwitchSafety == SwitchInit /\ [][SwitchNext]_switchVars

SwitchSpec == /\ SwitchSafety
              /\ WF_switchVars(StartClosing)
              /\ WF_switchVars(FinishClosing)
              /\ WF_switchVars(Open)
=============================================================================
