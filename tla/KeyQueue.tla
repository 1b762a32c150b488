------------------------------ MODULE KeyQueue ------------------------------
(***************************************************************************)
(* What the keyboard driver promises to whoever reads stdin: a bounded      *)
(* first-in first-out queue between the interrupt handler, which appends    *)
(* the key of a press or drops it when the queue is full, and one reader,   *)
(* which takes the oldest key and gets its character.  Keys pressed while   *)
(* the driver is still being installed may be flushed.                      *)
(***************************************************************************)
EXTENDS Integers, Sequences

CONSTANTS
    Keys,        \* the 16-bit key codes that can be queued
    Capacity,    \* how many keys the queue holds
    NoKey,       \* "the reader holds no key"
    CharOf(_)    \* the character the reader gets for a key

VARIABLES
    open,        \* the driver is installed, and read calls may come
    queue,       \* the keys pressed and not yet taken, oldest first
    hand,        \* the key the reader has taken and not yet delivered
    char         \* the last character delivered

vars == <<open, queue, hand, char>>

Init ==
    /\ open = FALSE
    /\ queue = <<>>
    /\ hand = NoKey
    /\ char = NoKey

Open ==
    /\ ~open
    /\ open' = TRUE
    /\ queue' = <<>>
    /\ UNCHANGED <<hand, char>>

Press(k) ==
    /\ Len(queue) < Capacity
    /\ queue' = Append(queue, k)
    /\ UNCHANGED <<open, hand, char>>

Take ==
    /\ open
    /\ hand = NoKey
    /\ queue # <<>>
    /\ hand' = Head(queue)
    /\ queue' = Tail(queue)
    /\ UNCHANGED <<open, char>>

Deliver ==
    /\ hand # NoKey
    /\ char' = CharOf(hand)
    /\ hand' = NoKey
    /\ UNCHANGED <<open, queue>>

Next == Open \/ (\E k \in Keys : Press(k)) \/ Take \/ Deliver

Spec == Init /\ [][Next]_vars
=============================================================================
