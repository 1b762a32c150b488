------------------------------ MODULE Keyboard ------------------------------
(***************************************************************************)
(* The PS/2 keyboard driver, devices/keyboard/keyboard.c: the interrupt     *)
(* handler kb_handler, which decodes scan codes and fills a ring buffer,    *)
(* and the reader kb_read / kb_getc, which the main thread runs with        *)
(* interrupts enabled.  The handler runs with interrupts off (irq.c uses    *)
(* interrupt gates), so it is one step; the reader takes a step for every   *)
(* access to the shared buffer, so that an interrupt can come in between.   *)
(*                                                                         *)
(* External: the physical keyboard (which keys are held, the bytes still    *)
(* on the wire) and the timer interrupt, which ends a `hlt`.                *)
(***************************************************************************)
EXTENDS Integers, Sequences

CONSTANTS
    KB_BUFFER_LEN,         \* slots of the ring buffer (32 in keyboard.h)
    Scancodes,             \* the scan codes modelled, without the break bit
    Keyset,                \* the physical keys: [esc |-> BOOLEAN, code |-> scan code]
    MaxRead,               \* bound on nbytes of a read call
    kb_keymap,             \* the four tables of the keymap: Scancodes -> key codes
    kb_shift_keymap,
    kb_altgr_keymap,
    kb_escaped_keymap

KeyCodes == 0..65535       \* uint16_t
ESCAPE   == 224            \* 0xE0

ASSUME LenAssumption == KB_BUFFER_LEN \in 2..256   \* the indices are uint8_t
ASSUME ScanAssumption == Scancodes \subseteq 0..95
ASSUME KeysetAssumption == Keyset \subseteq [esc : BOOLEAN, code : Scancodes]
ASSUME MaxReadAssumption == MaxRead \in Nat \ {0}
ASSUME KeymapAssumption ==
    /\ kb_keymap         \in [Scancodes -> KeyCodes]
    /\ kb_shift_keymap   \in [Scancodes -> KeyCodes]
    /\ kb_altgr_keymap   \in [Scancodes -> KeyCodes]
    /\ kb_escaped_keymap \in [Scancodes -> KeyCodes]

KEY_LCONTROL == 512    \* 0x0200
KEY_LSHIFT   == 768    \* 0x0300
KEY_RSHIFT   == 1024   \* 0x0400
KEY_CAPS     == 1280   \* 0x0500
KEY_LALT     == 5120   \* 0x1400
KEY_RCONTROL == 5376   \* 0x1500
KEY_RALT     == 5888   \* 0x1700

Modifiers == {KEY_LSHIFT, KEY_RSHIFT, KEY_LCONTROL, KEY_RCONTROL,
              KEY_LALT, KEY_RALT, KEY_CAPS}

VARIABLES
    held,        \* external: the physical keys held down
    wire,        \* external: bytes sent by the keyboard and not yet read
    kb_flags,    \* the modifier flags of the driver
    key,         \* kb_buffer.key
    push_index,  \* kb_buffer.push_index
    pop_index,   \* kb_buffer.pop_index
    pc,          \* where the main thread is
    index,       \* the local of kb_getc
    left,        \* bytes kb_read has still to get
    char         \* the last byte kb_read stored in its caller's buffer

phys   == <<held, wire>>
buffer == <<key, push_index, pop_index>>
reader == <<pc, index, left, char>>
vars   == <<held, wire, kb_flags, key, push_index, pop_index, pc, index, left, char>>

NoKey == -1000             \* no character was delivered yet

Slots == 0..(KB_BUFFER_LEN - 1)
Bit   == {0, 1}
PCs   == {"install", "reset", "idle", "check", "hlt", "halted", "pop", "read"}
Flags == [shift : Bit, caps : Bit, lcontrol : Bit, lalt : Bit,
          rcontrol : Bit, ralt : Bit, escaped : Bit]

NextSlot(i) == (i + 1) % KB_BUFFER_LEN

(* A key code stored in a `char`: its low byte, as a signed number.         *)
ToChar(k) == LET b == k % 256 IN IF b > 127 THEN b - 256 ELSE b

-----------------------------------------------------------------------------
(* The physical keyboard.  A key sends its code when it goes down, again    *)
(* while it is held (auto-repeat), and the code with bit 7 set when it is   *)
(* released; some keys send the escape byte first.  The next key event      *)
(* comes after the bytes of the last one were read.  Nobody types before    *)
(* the handler is installed.                                                *)

Bytes(k, down) ==
    LET c == IF down THEN k.code ELSE k.code + 128
    IN  IF k.esc THEN <<ESCAPE, c>> ELSE <<c>>

PressKey(k) ==
    /\ pc # "install"
    /\ wire = <<>>
    /\ wire' = Bytes(k, TRUE)
    /\ held' = held \cup {k}
    /\ UNCHANGED <<kb_flags, buffer, reader>>

ReleaseKey(k) ==
    /\ wire = <<>>
    /\ k \in held
    /\ wire' = Bytes(k, FALSE)
    /\ held' = held \ {k}
    /\ UNCHANGED <<kb_flags, buffer, reader>>

-----------------------------------------------------------------------------
(* The interrupt handler. *)

(* Mutant: the shift flag is looked at before the escape byte. *)
Lookup_ShiftFirst(c) ==
    IF kb_flags.shift = 1        THEN kb_shift_keymap[c]
    ELSE IF kb_flags.escaped = 1 THEN kb_escaped_keymap[c]
    ELSE IF kb_flags.ralt = 1    THEN kb_altgr_keymap[c]
    ELSE kb_keymap[c]

Lookup(c) ==
    IF kb_flags.escaped = 1    THEN kb_escaped_keymap[c]
    ELSE IF kb_flags.shift = 1 THEN kb_shift_keymap[c]
    ELSE IF kb_flags.ralt = 1  THEN kb_altgr_keymap[c]
    ELSE kb_keymap[c]

SetFlags(k, down) ==
    LET d == IF down THEN 1 ELSE 0
    IN  CASE k \in {KEY_LSHIFT, KEY_RSHIFT} -> [kb_flags EXCEPT !.shift = d]
          [] k = KEY_LCONTROL -> [kb_flags EXCEPT !.lcontrol = d]
          [] k = KEY_RCONTROL -> [kb_flags EXCEPT !.rcontrol = d]
          [] k = KEY_LALT     -> [kb_flags EXCEPT !.lalt = d]
          [] k = KEY_RALT     -> [kb_flags EXCEPT !.ralt = d]
          [] k = KEY_CAPS     -> [kb_flags EXCEPT !.caps = (d + @) % 2]
          [] OTHER            -> kb_flags

(* Caps lock swaps the case of the letters: 'a'..'z' is 97..122.            *)
SwapCase(k) ==
    IF k \in 97..122 THEN k - 32 ELSE IF k \in 65..90 THEN k + 32 ELSE k

CapsSwap(k) == IF kb_flags.caps = 1 THEN SwapCase(k) ELSE k

(* Mutant: the handler does not test for a full buffer. *)
Full_Never == FALSE

Full == NextSlot(push_index) = pop_index

(* Mutant: a full buffer keeps its index, but the key is stored. *)
Push_Overwrites(k) ==
    /\ key' = [key EXCEPT ![push_index] = k]
    /\ push_index' = IF Full THEN push_index ELSE NextSlot(push_index)

Push(k) ==
    /\ key' = IF Full THEN key ELSE [key EXCEPT ![push_index] = k]
    /\ push_index' = IF Full THEN push_index ELSE NextSlot(push_index)

Handle(b) ==
    IF b = ESCAPE
    THEN /\ kb_flags' = [kb_flags EXCEPT !.escaped = 1]
         /\ UNCHANGED <<key, push_index>>
    ELSE LET down == b < 128
             k    == Lookup(b % 128)
         IN  /\ kb_flags' = [SetFlags(k, down) EXCEPT !.escaped = 0]
             /\ IF down /\ k # 0 /\ k \notin Modifiers
                THEN Push(CapsSwap(k))
                ELSE UNCHANGED <<key, push_index>>

(* Any interrupt ends a `hlt`. *)
Wake == pc' = IF pc = "halted" THEN "check" ELSE pc

kb_handler ==
    /\ pc # "install"
    /\ wire # <<>>
    /\ Handle(Head(wire))
    /\ wire' = Tail(wire)
    /\ Wake
    /\ UNCHANGED <<held, pop_index, index, left, char>>

TimerIrq ==
    /\ pc = "halted"
    /\ Wake
    /\ UNCHANGED <<phys, kb_flags, buffer, index, left, char>>

-----------------------------------------------------------------------------
(* The main thread: kb_init, then calls of kb_read, for ever. *)

InstallHandler ==
    /\ pc = "install"
    /\ pc' = "reset"
    /\ UNCHANGED <<phys, kb_flags, buffer, index, left, char>>

ResetIndices ==
    /\ pc = "reset"
    /\ pc' = "idle"
    /\ push_index' = 0
    /\ pop_index' = 0
    /\ UNCHANGED <<phys, kb_flags, key, index, left, char>>

kb_read(nbytes) ==
    /\ pc = "idle"
    /\ pc' = "check"
    /\ left' = nbytes
    /\ UNCHANGED <<phys, kb_flags, buffer, index, char>>

(* Mutant: the test takes a buffer with one key for an empty one.           *)
CheckEmpty_OneKey ==
    /\ pc = "check"
    /\ pc' = IF push_index \in {pop_index, NextSlot(pop_index)} THEN "hlt" ELSE "pop"
    /\ UNCHANGED <<phys, kb_flags, buffer, index, left, char>>

(* while (push_index == pop_index) hlt: an interrupt that comes between the *)
(* test and the hlt is not seen by the hlt.                                 *)
CheckEmpty ==
    /\ pc = "check"
    /\ pc' = IF push_index = pop_index THEN "hlt" ELSE "pop"
    /\ UNCHANGED <<phys, kb_flags, buffer, index, left, char>>

Hlt ==
    /\ pc = "hlt"
    /\ pc' = "halted"
    /\ UNCHANGED <<phys, kb_flags, buffer, index, left, char>>

PopIndex ==
    /\ pc = "pop"
    /\ pc' = "read"
    /\ index' = pop_index
    /\ pop_index' = NextSlot(pop_index)
    /\ UNCHANGED <<phys, kb_flags, key, push_index, left, char>>

ReadSlot ==
    /\ pc = "read"
    /\ char' = ToChar(key[index])
    /\ left' = left - 1
    /\ pc' = IF left = 1 THEN "idle" ELSE "check"
    /\ UNCHANGED <<phys, kb_flags, buffer, index>>

-----------------------------------------------------------------------------
(* The buffer is static, all zeroes when the program starts. *)
Init ==
    /\ held = {}
    /\ wire = <<>>
    /\ kb_flags = [shift |-> 0, caps |-> 0, lcontrol |-> 0, lalt |-> 0,
                   rcontrol |-> 0, ralt |-> 0, escaped |-> 0]
    /\ key = [i \in Slots |-> 0]
    /\ push_index = 0
    /\ pop_index = 0
    /\ pc = "install"
    /\ index = 0
    /\ left = 0
    /\ char = NoKey

Main ==
    \/ InstallHandler
    \/ ResetIndices
    \/ \E n \in 1..MaxRead : kb_read(n)
    \/ CheckEmpty
    \/ Hlt
    \/ PopIndex
    \/ ReadSlot

Next ==
    \/ \E k \in Keyset : PressKey(k) \/ ReleaseKey(k)
    \/ kb_handler
    \/ TimerIrq
    \/ Main

Spec == Init /\ [][Next]_vars

(* The processor runs the main thread, the timer keeps interrupting, and a  *)
(* byte on the wire raises its interrupt.                                   *)
FairSpec == Spec /\ WF_vars(Main) /\ WF_vars(TimerIrq) /\ WF_vars(kb_handler)

-----------------------------------------------------------------------------
TypeOK ==
    /\ held \subseteq Keyset
    /\ wire \in Seq(0..255)
    /\ kb_flags \in Flags
    /\ key \in [Slots -> KeyCodes]
    /\ push_index \in Slots
    /\ pop_index \in Slots
    /\ pc \in PCs
    /\ index \in Slots
    /\ left \in 0..MaxRead
    /\ char \in (-128..127) \cup {NoKey}

(* kb_getc moves pop_index on and only then reads the slot it left, with    *)
(* interrupts enabled: between the two, kb_handler must never write that    *)
(* slot, however many keys arrive and wherever the indices wrap.            *)
SlotKept == [][pc = "read" => key'[index] = key[index]]_vars

(* The keys in slots a of a ring with indices p and q, oldest first. *)
Used(p, q)    == (q - p) % KB_BUFFER_LEN
Ring(a, p, q) == [i \in 1..Used(p, q) |-> a[(p + i - 1) % KB_BUFFER_LEN]]

(* What can be queued: every key of the keymap that is not a modifier.      *)
TableKeys ==
    UNION {{t[c] : c \in Scancodes} :
           t \in {kb_keymap, kb_shift_keymap, kb_altgr_keymap, kb_escaped_keymap}}
CharKeys == (TableKeys \cup {SwapCase(k) : k \in TableKeys}) \ ({0} \cup Modifiers)

(* The ring buffer, its indices and the reader between them are a bounded   *)
(* FIFO queue of KB_BUFFER_LEN - 1 keys: none is lost once accepted, none   *)
(* is delivered twice or out of order, and one dropped leaves the rest.     *)
Queue == INSTANCE KeyQueue WITH
            Keys     <- CharKeys,
            Capacity <- KB_BUFFER_LEN - 1,
            NoKey    <- NoKey,
            CharOf   <- ToChar,
            open     <- pc \notin {"install", "reset"},
            queue    <- Ring(key, pop_index, push_index),
            hand     <- IF pc = "read" THEN key[index] ELSE NoKey,
            char     <- char
ImplementsQueue == Queue!Spec

(* The three tables that decode a key without the escape byte agree on the   *)
(* scan codes of the modifiers.                                             *)
ModifiersAgree ==
    \A c \in Scancodes : \A m \in Modifiers :
        /\ kb_shift_keymap[c] = m <=> kb_keymap[c] = m
        /\ kb_altgr_keymap[c] = m <=> kb_keymap[c] = m

(* No modifier sticks: when no key is held and every byte was handled, the  *)
(* flags of shift, control and alt are clear, although the table that       *)
(* decodes a key may be another one at its release than at its press.       *)
NoStuckModifier ==
    held = {} /\ wire = <<>> =>
        /\ kb_flags.shift = 0
        /\ kb_flags.lcontrol = 0 /\ kb_flags.rcontrol = 0
        /\ kb_flags.lalt = 0     /\ kb_flags.ralt = 0
        /\ kb_flags.escaped = 0

(* A reader waiting while a key is in the buffer gets it: the interrupt     *)
(* that comes between the test of the buffer and the hlt is lost, and the   *)
(* next timer tick makes up for it.                                         *)
WaitingReaderServed ==
    (pc \in {"check", "hlt", "halted"} /\ push_index # pop_index) ~> pc = "read"
=============================================================================
