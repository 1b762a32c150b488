---------------------------- MODULE MCInterrupts ----------------------------
(* Instances of Interrupts for TLC. *)
EXTENDS Interrupts

(* A BIOS that uses the timer and the keyboard, and has left the line of    *)
(* the floppy and most of the slave's masked.                               *)
BiosMask == [c \in {"master", "slave"} |->
                IF c = "master" THEN {3, 4, 5, 6, 7} ELSE {1, 2, 3, 4, 5, 7}]
=============================================================================
