----------------------------- MODULE MCConsole -----------------------------
(* Instances of Console for TLC. *)
EXTENDS Console

(* ESC, NUL, [, m, K and 1 are what the scan tells apart. *)
Bytes == {ESC, NUL, BRACKET, M, 75, 49}

Plain(t) == [text |-> t, behind |-> NUL]
BeforeNumber(t) == [text |-> t, behind |-> PERCENT]
Number(n, b, z, w) == [value |-> n, base |-> b, pad |-> z, w |-> w]

(* Numbers at the edges of a width, of a base, of strtol and of a long.      *)
Numbers ==
    {Number(n, b, z, w) : n \in {0, 7, 10, 255, 4096, 65535, 65536, 1048575, 1048576},
                          b \in {10, 16}, z \in {ZERO}, w \in {0, 2, 8}}
    \cup {Number(-1, 16, ZERO, 8), Number(-12, 10, NUL, 0)}

Sequences == {<<>>, <<49, SEMICOLON, 51, 53>>, <<SEMICOLON, 52, 52, SEMICOLON>>}

(* Any text of up to four characters, whole sequences of colours, numbers.   *)
SomeTexts ==
    {<<Plain(t)>> : t \in BoundedSeq(Bytes, 4)}
    \cup {<<Sequence(s)>> : s \in Sequences}
    \cup {<<BeforeNumber(<<49>>), n>> : n \in Numbers}

SomeMessages == {<<BeforeNumber(<<75>>), Number(12, 10, NUL, 0)>>, <<Plain(<<75, NUL>>)>>}

(* What the theorems about Console suppose of the texts. *)
ASSUME TextsAssumption == Ended /\ PlainMessages
=============================================================================
