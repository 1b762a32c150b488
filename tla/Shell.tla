-------------------------------- MODULE Shell --------------------------------
(***************************************************************************)
(* The command line: mod_init_all, which lets the modules register their    *)
(* devices (io.c) and commands (cli.c) in the order of their levels, gets   *)
(* of stdio.c, and the loop of cli_start, which splits a line, looks up its *)
(* command and runs it.  The devices' own operations are in other modules;  *)
(* here they succeed or fail.                                               *)
(*                                                                         *)
(* Abstracted: what a command prints.  Names are short.                     *)
(***************************************************************************)
EXTENDS Strings, FiniteSets

CONSTANTS
    BUFFER,        \* characters of the line buffer, 128 in the code
    SLOTS,         \* strings of string_array, 16 in the code
    Typeable,      \* the characters the keyboard may deliver
    HELP, FORCE,   \* the words "help" and "force", which are a letter here
    Modules,       \* module initialisers: [level, devices, commands]
    Leftovers      \* what the buffer may hold before it is first written

BS      == 8
TAB     == 9
NEWLINE == 10
SPACE   == 32
Blanks  == {SPACE, TAB}

ASSUME SizeAssumption == BUFFER \in Nat \ {0} /\ SLOTS \in Nat \ {0}
ASSUME CharAssumption == Typeable \subseteq -128..127
ASSUME WordAssumption == HELP \in Seq(1..127) /\ FORCE \in Seq(1..127)

Programs == {"help", "echo", "read", "seek", "root", "chainload", "reboot"}
Operations == {"read", "write", "seek"}
Device  == [name : Seq(1..127), ops : SUBSET Operations]
Command == [name : Seq(1..127), func : Programs]
ASSUME ModuleAssumption ==
    \A m \in Modules : /\ m.level \in 0..99
                       /\ m.devices \in Seq(Device) /\ m.commands \in Seq(Command)
ASSUME LeftoverAssumption == Leftovers \subseteq [0..(BUFFER - 1) -> -128..127]

VARIABLES
    started,       \* the modules that are initialised
    first_device,  \* the list of devices, the newest first
    cli_list,      \* the list of commands, the newest first
    pc,            \* where the main thread is
    buffer,        \* the line
    i,             \* the local of gets
    string_array,  \* the words of the line; argn is their number
    command,       \* the command that runs, or none
    device,        \* the devices it has an operation carried out by
    result,        \* how it ended
    shown,         \* ghost: the characters echoed since the prompt
    ended          \* ghost: how gets returned

lists == <<started, first_device, cli_list>>
line  == <<buffer, i, shown, ended>>
run   == <<command, device, result>>
vars  == <<lists, pc, line, string_array, run>>

-----------------------------------------------------------------------------
(* mod_init_all: the linker sorts the initialisers by level, and leaves       *)
(* those of one level in the order it links them.  io_register_device and     *)
(* cli_register put what is registered before the rest.                      *)

Pending == Modules \ started

Reversed(s) == [k \in 1..Len(s) |-> s[Len(s) + 1 - k]]

Registered(list, new) == Reversed(new) \o list

mod_init(m) ==
    /\ pc = "init"
    /\ \A n \in Pending : m.level <= n.level
    /\ started' = started \cup {m}
    /\ first_device' = Registered(first_device, m.devices)
    /\ cli_list' = Registered(cli_list, m.commands)
    /\ UNCHANGED <<pc, line, string_array, run>>

cli_start ==
    /\ pc = "init" /\ Pending = {}
    /\ pc' = "gets"
    /\ UNCHANGED <<lists, line, string_array, run>>

-----------------------------------------------------------------------------
(* gets: one character.  A character that does not fit is written behind the  *)
(* buffer, and nothing can be said of what follows.                          *)

Store(k, c) ==
    IF k < BUFFER THEN buffer' = [buffer EXCEPT ![k] = c] ELSE UNCHANGED buffer

Negative(c) ==
    /\ c < 0
    /\ pc' = "split" /\ ended' = "null"
    /\ UNCHANGED <<buffer, i, shown>>

(* Mutant: the last character is not taken back from the buffer. *)
Delete_EchoOnly ==
    /\ shown # <<>>
    /\ shown' = SubSeq(shown, 1, Len(shown) - 1)
    /\ UNCHANGED <<buffer, i, pc, ended>>

Delete ==
    /\ IF i > 0
       THEN i' = i - 1 /\ Store(i - 1, NUL) /\ shown' = SubSeq(shown, 1, Len(shown) - 1)
       ELSE UNCHANGED <<buffer, i, shown>>
    /\ UNCHANGED <<pc, ended>>

EndOfLine ==
    /\ Store(i, NUL)
    /\ pc' = IF i < BUFFER THEN "split" ELSE "overrun"
    /\ ended' = "newline"
    /\ UNCHANGED <<i, shown>>

Insert(c) ==
    /\ Store(i, c)
    /\ i' = i + 1
    /\ shown' = Append(shown, c)
    /\ pc' = IF i < BUFFER THEN pc ELSE "overrun"
    /\ UNCHANGED ended

Type(c) ==
    /\ pc = "gets"
    /\ \/ Negative(c)
       \/ c = BS /\ Delete
       \/ c = NEWLINE /\ EndOfLine
       \/ c >= 0 /\ c \notin {BS, NEWLINE} /\ Insert(c)
    /\ UNCHANGED <<lists, string_array, run>>

-----------------------------------------------------------------------------
(* cli_start behind gets. *)

(* The string a buffer holds. *)
CString(b) ==
    LET n == FirstFrom(0, BUFFER, LAMBDA k : k = BUFFER \/ b[k] = NUL)
    IN  [k \in 1..n |-> b[k - 1]]

Separators == Blanks

(* A string of more words than the array has room for, with the empty one     *)
(* that ends it, is split behind its end.                                    *)
Split ==
    /\ pc = "split"
    /\ LET words == strsplit(CString(buffer), Separators)
       IN  IF Len(words) < SLOTS
           THEN string_array' = words /\ pc' = "look_up"
           ELSE pc' = "overrun" /\ UNCHANGED string_array
    /\ UNCHANGED <<lists, line, run>>

argn    == Len(string_array)
argv(k) == IF k < argn THEN string_array[k + 1] ELSE <<>>

(* The first entry of a list with the name, as a sequence of one or none.      *)
ByName(list, Same(_)) ==
    LET k == FirstFrom(1, Len(list) + 1, LAMBDA n : n > Len(list) \/ Same(list[n].name))
    IN  IF k > Len(list) THEN <<>> ELSE <<list[k]>>

(* Mutant: a command is found by its first letters. *)
Named_Prefix(name) == SubSeq(name, 1, Len(argv(0))) = argv(0)

Named(name) == strncmp(argv(0), name, 128) = 0

LookUp ==
    /\ pc = "look_up"
    /\ command' = ByName(cli_list, Named)
    /\ pc' = IF command' = <<>> THEN "wrong" ELSE "run"
    /\ UNCHANGED <<lists, line, string_array, device, result>>

-----------------------------------------------------------------------------
(* The commands.  A device carries out its operation well or not.              *)

Running(program) == pc = "run" /\ command[1].func = program

End(r) == pc' = "done" /\ result' = r

Frame == UNCHANGED <<lists, line, string_array, command>>

(* io_device_get_by_name. *)
(* Mutant: the name is not compared to its end. *)
SameName_Prefix(name) == strncmp(name, argv(1), Len(argv(1))) \in {0, 1}

SameName(name) == strcmp(name, argv(1)) = 0

Target == ByName(first_device, SameName)

(* io_read and io_seek: ENOSYS without the operation. *)
Can(op) == op \in Target[1].ops

help == Running("help") /\ End("ok") /\ Frame /\ UNCHANGED device

echo == Running("echo") /\ End("ok") /\ Frame /\ UNCHANGED device

(* The keyboard controller resets the machine. *)
reboot ==
    /\ Running("reboot")
    /\ IF argn > 1 /\ strcmp(argv(1), HELP) = 0
       THEN End("help")
       ELSE pc' = "gone" /\ UNCHANGED result
    /\ Frame /\ UNCHANGED device

(* Every command that needs a device fails without one.                        *)
NoDevice(missing) ==
    /\ \/ missing /\ End("missing")
       \/ ~missing /\ Target = <<>> /\ End("ENOENT")
    /\ UNCHANGED device

(* read and seek: one operation. *)
OneOperation(op) ==
    \/ NoDevice(argn < 2)
    \/ /\ argn >= 2 /\ Target # <<>>
       /\ IF Can(op)
          THEN device' = Target /\ (End("ok") \/ End("failed"))
          ELSE End("ENOSYS") /\ UNCHANGED device

read == Running("read") /\ OneOperation("read") /\ Frame
seek == Running("seek") /\ OneOperation("seek") /\ Frame

(* fs_set_root seeks and reads. *)
root ==
    /\ Running("root")
    /\ \/ NoDevice(argn # 2)
       \/ /\ argn = 2 /\ Target # <<>>
          /\ IF Can("seek") /\ Can("read")
             THEN device' = Target /\ (End("ok") \/ End("failed"))
             ELSE End("failed") /\ UNCHANGED device
    /\ Frame

(* The sector is refused if it ends in neither 0x55 nor 0xAA.                   *)
Refused(force, has55, hasAA) == ~force /\ ~has55 /\ ~hasAA

chainload ==
    /\ Running("chainload")
    /\ \/ NoDevice(argn < 2)
       \/ /\ argn >= 2 /\ Target # <<>>
          /\ ~(Can("seek") /\ Can("read"))
          /\ End("ENOSYS") \/ (Can("seek") /\ End("failed"))
          /\ device' = IF Can("seek") THEN Target ELSE device
       \/ /\ argn >= 2 /\ Target # <<>>
          /\ Can("seek") /\ Can("read")
          /\ device' = Target
          /\ \/ End("failed")
             \/ \E has55, hasAA \in BOOLEAN :
                   IF Refused(argn > 2 /\ strncmp(argv(2), FORCE, Len(FORCE)) = 0, has55, hasAA)
                   THEN End("refused")
                   ELSE pc' = "gone" /\ UNCHANGED result
    /\ Frame

(* The prompt again; the buffer keeps what it holds. *)
Prompt ==
    /\ pc \in {"done", "wrong"}
    /\ pc' = "gets"
    /\ i' = 0 /\ shown' = <<>> /\ ended' = "no"
    /\ string_array' = <<>>
    /\ command' = <<>> /\ device' = <<>> /\ result' = "none"
    /\ UNCHANGED <<lists, buffer>>

-----------------------------------------------------------------------------
Init ==
    /\ started = {} /\ first_device = <<>>
    /\ cli_list = <<[name |-> HELP, func |-> "help"]>>
    /\ pc = "init"
    /\ buffer \in Leftovers
    /\ i = 0 /\ shown = <<>> /\ ended = "no"
    /\ string_array = <<>>
    /\ command = <<>> /\ device = <<>> /\ result = "none"

Execute == help \/ echo \/ reboot \/ read \/ seek \/ root \/ chainload

Next ==
    \/ \E m \in Pending : mod_init(m)
    \/ cli_start
    \/ \E c \in Typeable : Type(c)
    \/ Split \/ LookUp \/ Execute \/ Prompt

Spec == Init /\ [][Next]_vars

-----------------------------------------------------------------------------
(* The words of a line as a user sees them: what lies between two blanks, and  *)
(* behind the last if it is not empty, up to the NUL that some keys give.      *)
Words(s) ==
    LET n       == FirstFrom(0, Len(s), LAMBDA k : Ch(s, k) = NUL)
        blanks  == {k \in 1..n : s[k] \in Blanks}
        nth(k)  == CHOOSE b \in blanks : Cardinality({a \in blanks : a <= b}) = k
        from(k) == IF k = 1 THEN 1 ELSE nth(k - 1) + 1
        last    == Cardinality(blanks) + 1
        count   == IF from(last) > n THEN last - 1 ELSE last
    IN  [k \in 1..count |-> SubSeq(s, from(k), IF k = last THEN n ELSE nth(k) - 1)]

(* A line ended by a newline runs with the words on the screen as its          *)
(* arguments, and the command is the one named by the first of them: it is     *)
(* not found if and only if no module registered it.                           *)
RunsTheLine ==
    pc \in {"run", "wrong"} /\ ended = "newline" =>
        /\ string_array = Words(shown)
        /\ pc = "run" => command[1].name = argv(0)
        /\ pc = "wrong" => \A k \in DOMAIN cli_list : cli_list[k].name # argv(0)

(* Nothing is written outside of the buffer and of string_array unless the     *)
(* line on the screen fills the buffer or has too many words.                  *)
OverrunByLine ==
    pc = "overrun" /\ ended # "null" =>
        Len(shown) >= BUFFER \/ Len(Words(shown)) >= SLOTS

(* An operation is carried out by the device that was named, the newest of     *)
(* that name, and by one that has it; a device that is registered is found.    *)
ActsOnNamed ==
    /\ device # <<>> =>
          \E k \in DOMAIN first_device :
              /\ device[1] = first_device[k] /\ first_device[k].name = argv(1)
              /\ \A n \in 1..(k - 1) : first_device[n].name # argv(1)
              /\ command[1].func = "read" => "read" \in device[1].ops
    /\ result = "ENOENT" => \A k \in DOMAIN first_device : first_device[k].name # argv(1)
=============================================================================
