------------------------------ MODULE MCShell ------------------------------
(* Instances of Shell for TLC. *)
EXTENDS Shell

A == 97
B == 98
Keys == {A, B, SPACE, TAB, BS, NEWLINE, NUL, -92}

Dev(name, ops) == [name |-> name, ops |-> ops]
Cmd(name, func) == [name |-> name, func |-> func]

SomeHelp  == <<B>>
SomeForce == <<B>>

(* The screen first, and then the keyboard, two drives and the commands in     *)
(* any order; names begin one another, and one is that of two devices.         *)
SomeModules ==
    {[level |-> 0, devices |-> <<Dev(<<B>>, {"write"})>>,
      commands |-> <<Cmd(<<A, A, A>>, "echo"), Cmd(<<B, B>>, "reboot")>>],
     [level |-> 99, devices |-> <<Dev(<<A>>, {"read"})>>,
      commands |-> <<Cmd(<<A, A>>, "read"), Cmd(<<A, B>>, "seek")>>],
     [level |-> 99, devices |-> <<Dev(<<A, B>>, {"read", "seek"}), Dev(<<A>>, {"read", "seek"})>>,
      commands |-> <<Cmd(<<A>>, "chainload"), Cmd(<<B, A>>, "root")>>]}

SomeLeftovers ==
    {[k \in 0..(BUFFER - 1) |-> NUL], [k \in 0..(BUFFER - 1) |-> IF k = 0 THEN B ELSE NUL]}
=============================================================================
