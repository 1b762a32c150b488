------------------------------ MODULE TimerPace ------------------------------
(***************************************************************************)
(* Timer with the pace of the main thread, which runs at least once while   *)
(* the counter advances by one word: in the code, every 49 days.            *)
(***************************************************************************)
EXTENDS Timer

VARIABLE behind    \* ghost: ticks since the main thread ran

PacedInit == Init /\ behind = 0

PacedNext ==
    \/ timer_handler /\ behind < WORD /\ behind' = behind + 1
    \/ (Call \/ Register \/ Sleep) /\ behind' = 0

(* The timer keeps ticking, and the main thread runs between its ticks.     *)
PacedSpec ==
    /\ PacedInit
    /\ [][PacedNext]_<<vars, behind>>
    /\ WF_<<vars, behind>>(timer_handler /\ behind < WORD /\ behind' = behind + 1)
    /\ WF_<<vars, behind>>((Register \/ Sleep) /\ behind' = 0)

(* sleep returns, wherever the ticks come between its loads of the two      *)
(* words of the counter and whatever value these combine to.                *)
SleepReturns == pc = "start_low" ~> pc = "run"
=============================================================================
