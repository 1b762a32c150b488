------------------------------- MODULE MCTimer -------------------------------
(* Instances of Timer and TimerPace for TLC. *)
EXTENDS TimerPace

(* fd_timer, and the callback of the command test_timer.                    *)
TwoTasks == {<<"fd_timer", 2>>, <<"callback", 3>>}
=============================================================================
