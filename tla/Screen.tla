------------------------------- MODULE Screen -------------------------------
(***************************************************************************)
(* devices/screen/screen.c: screen_putc, screen_scroll and                  *)
(* screen_updatecursor, run by the main thread and, inside it, by the       *)
(* interrupt handlers that print (kb_handler and irq_handler log, the task  *)
(* of test_timer prints).  An interrupt runs to its end before the main     *)
(* thread goes on; the main thread may be interrupted between any two       *)
(* accesses to screen_info or to the ports of the cursor.                   *)
(*                                                                         *)
(* An increment is a load and a store; whether a test that follows one      *)
(* reads the variable again is the compiler's choice, so both happen.  An    *)
(* address is made of two loads, and is made again for the attribute byte.   *)
(* Abstracted: a cell is blank or not, its attribute is not kept, a          *)
(* decrement is one access, and a scroll copies all cells at once.           *)
(* External: the cursor registers of the video controller.                  *)
(***************************************************************************)
EXTENDS Integers, Sequences

CONSTANTS
    T_COLUMNS,     \* 80 in the code
    T_ROWS,        \* 25 in the code
    TAB_WIDTH,     \* 4 in the code
    VIDEO,         \* cells of the video memory, 16384 on the hardware
    RADIX,         \* 256 in the code: a cursor register holds one byte
    Chars,         \* the characters the main thread prints
    IrqTexts,      \* the texts an interrupt handler prints
    CUT_ERASE      \* a handler may print in the middle of a backspace

ASSUME SizeAssumption ==
    /\ T_COLUMNS \in Nat \ {0} /\ T_ROWS \in Nat \ {0} /\ TAB_WIDTH \in Nat \ {0}
    /\ RADIX \in Nat \ {0}
    /\ VIDEO \in Nat /\ VIDEO > T_COLUMNS * T_ROWS

(* '\n', '\r', '\b', '\t', the sequence ESC [ J that calls screen_clear,     *)
(* and any other character.                                                 *)
AnyChar == {"nl", "cr", "bs", "tab", "clear", "x"}

ASSUME CharAssumption == Chars \subseteq AnyChar /\ IrqTexts \subseteq Seq(AnyChar) \ {<<>>}
ASSUME CutAssumption == CUT_ERASE \in BOOLEAN

VARIABLES
    video,         \* the cells of the video memory
    posx, posy,    \* screen_info.posx and posy, uint16_t
    crtc,          \* external: the register selected, and the position's bytes
    cpu,           \* who runs: the main thread or an interrupt
    pc,            \* where each of them is in screen_putc
    ch,            \* the character of its call
    reg,           \* a value it has loaded, or computed from one
    erasing,       \* its call comes from the case '\b' of another
    text,          \* what the interrupt has still to print
    cut,           \* ghost: an interrupt came during the last call
    forward        \* ghost: since the last clear, text went forward, uncut

ghosts == <<cut, forward>>
vars == <<video, posx, posy, crtc, cpu, pc, ch, reg, erasing, text, cut, forward>>
call == <<cpu, ch, erasing, text, cut, forward>>

Threads == {"main", "irq"}
Cells   == 0..(VIDEO - 1)
Console == 0..(T_COLUMNS * T_ROWS - 1)
Blank   == "blank"

Position == posx + posy * T_COLUMNS

Goto(label) == pc' = [pc EXCEPT ![cpu] = label]
At(label)   == pc[cpu] = label
Load(value) == reg' = [reg EXCEPT ![cpu] = value]

-----------------------------------------------------------------------------
(* The calls: one character of the main thread, one text of an interrupt.   *)
(* (An interrupt between two calls prints what the main thread could have.) *)

Putc(c) ==
    /\ cpu = "main" /\ At("idle")
    /\ ch' = [ch EXCEPT !["main"] = c]
    /\ Goto("switch")
    /\ cut' = FALSE
    /\ forward' = (c = "clear" \/ (forward /\ c \in {"x", "nl", "tab"}))
    /\ UNCHANGED <<video, posx, posy, crtc, cpu, reg, erasing, text>>

Interrupt(t) ==
    /\ cpu = "main" /\ ~At("idle")
    /\ CUT_ERASE \/ ch["main"] # "bs"
    /\ cpu' = "irq"
    /\ ch' = [ch EXCEPT !["irq"] = Head(t)]
    /\ text' = Tail(t)
    /\ pc' = [pc EXCEPT !["irq"] = "switch"]
    /\ cut' = TRUE
    /\ forward' = FALSE
    /\ UNCHANGED <<video, posx, posy, crtc, reg, erasing>>

NextTab == ((posx \div TAB_WIDTH) + 1) * TAB_WIDTH

Switch ==
    /\ At("switch")
    /\ CASE ch[cpu] = "nl" -> posx' = 0 /\ Goto("row_load")
         [] ch[cpu] = "cr" -> posx' = 0 /\ Goto("cursor")
         [] ch[cpu] = "bs" -> Goto(IF posx > 0 THEN "back" ELSE "cursor") /\ UNCHANGED posx
         [] ch[cpu] = "tab"   -> Goto("tab_load") /\ UNCHANGED posx
         [] ch[cpu] = "clear" -> Goto("clear") /\ UNCHANGED posx
         [] ch[cpu] = "x"     -> Goto("address") /\ UNCHANGED posx
    /\ UNCHANGED <<video, posy, crtc, reg, call>>

TabLoad ==
    /\ At("tab_load")
    /\ Load(NextTab)
    /\ Goto("tab_store")
    /\ UNCHANGED <<video, posx, posy, crtc, call>>

TabStore ==
    /\ At("tab_store")
    /\ posx' = reg[cpu]
    /\ Goto("tab_test")
    /\ UNCHANGED <<video, posy, crtc, reg, call>>

TabTest ==
    /\ At("tab_test")
    /\ Goto(IF posx > T_COLUMNS THEN "wrap" ELSE "cursor")
    /\ UNCHANGED <<video, posx, posy, crtc, reg, call>>

(* posx--, screen_putc('\0'), posx-- *)
Back ==
    /\ At("back")
    /\ posx' = (posx - 1) % 65536
    /\ erasing' = [erasing EXCEPT ![cpu] = ~@]
    /\ Goto(IF erasing[cpu] THEN "cursor" ELSE "address")
    /\ UNCHANGED <<video, posy, crtc, cpu, reg, ch, text, ghosts>>

-----------------------------------------------------------------------------
(* The default case: a cell, and the position after it. *)

(* A position is loaded in two accesses, in the order the compiler chooses.  *)
LoadPosition(from, x, y, to) ==
    /\ \/ At(from) /\ Load(posx) /\ Goto(y)
       \/ At(from) /\ Load(posy * T_COLUMNS) /\ Goto(x)
       \/ At(x) /\ Load(reg[cpu] + posx) /\ Goto(to)
       \/ At(y) /\ Load(reg[cpu] + posy * T_COLUMNS) /\ Goto(to)
    /\ UNCHANGED <<video, posx, posy, crtc, call>>

Address == LoadPosition("address", "address_x", "address_y", "store")

Cell == IF erasing[cpu] THEN Blank ELSE ch[cpu]

Store ==
    /\ At("store")
    /\ video' = [i \in Cells |-> IF i = reg[cpu] THEN Cell ELSE video[i]]
    /\ Goto("attr")
    /\ UNCHANGED <<posx, posy, crtc, reg, call>>

(* The attribute byte, behind the character byte of the cell where the       *)
(* cursor is by then.                                                       *)
AttrAddress == LoadPosition("attr", "attr_x", "attr_y", "attr_store")

AttrStore ==
    /\ At("attr_store")
    /\ Goto("column_load")
    /\ UNCHANGED <<video, posx, posy, crtc, reg, call>>

ColumnLoad ==
    /\ At("column_load")
    /\ Load((posx + 1) % 65536)
    /\ Goto("column_store")
    /\ UNCHANGED <<video, posx, posy, crtc, call>>

(* Mutant: the end of the row is not looked for. *)
PastEnd_Never(column) == FALSE

PastEnd(column) == column > T_COLUMNS

ColumnStore ==
    /\ At("column_store")
    /\ posx' = reg[cpu]
    /\ Goto("column_test")
    /\ UNCHANGED <<video, posy, crtc, reg, call>>

ColumnTest ==
    /\ At("column_test")
    /\ \E column \in {reg[cpu], posx} : Goto(IF PastEnd(column) THEN "wrap" ELSE "cursor")
    /\ UNCHANGED <<video, posx, posy, crtc, reg, call>>

Wrap ==
    /\ At("wrap")
    /\ posx' = 0
    /\ Goto("row_load")
    /\ UNCHANGED <<video, posy, crtc, reg, call>>

(* posy++, here and in the case '\n'. *)
RowLoad ==
    /\ At("row_load")
    /\ Load(posy + 1)
    /\ Goto("row_store")
    /\ UNCHANGED <<video, posx, posy, crtc, call>>

RowStore ==
    /\ At("row_store")
    /\ posy' = reg[cpu]
    /\ Goto("row_test")
    /\ UNCHANGED <<video, posx, crtc, reg, call>>

(* Mutant: a row below the screen is allowed before it scrolls.             *)
Below_ByOne(row) == row > T_ROWS

Below(row) == row >= T_ROWS

RowTest ==
    /\ At("row_test")
    /\ \E row \in {reg[cpu], posy} : Goto(IF Below(row) THEN "scroll" ELSE "cursor")
    /\ UNCHANGED <<video, posx, posy, crtc, reg, call>>

-----------------------------------------------------------------------------
(* screen_scroll(1).  Its own update of the cursor is made again by the     *)
(* caller.                                                                  *)

(* Mutant: the last row is copied up, and not cleared. *)
Scrolled_NotCleared ==
    [i \in Cells |-> IF i \in Console /\ i + T_COLUMNS \in Console THEN video[i + T_COLUMNS]
                     ELSE video[i]]

Scrolled ==
    [i \in Cells |-> IF i \notin Console THEN video[i]
                     ELSE IF i + T_COLUMNS \in Console THEN video[i + T_COLUMNS]
                     ELSE Blank]

ScrollCells ==
    /\ At("scroll")
    /\ video' = Scrolled
    /\ Goto("scroll_y")
    /\ UNCHANGED <<posx, posy, crtc, reg, call>>

ScrollY ==
    /\ At("scroll_y")
    /\ posy' = T_ROWS - 1
    /\ Goto("scroll_x")
    /\ UNCHANGED <<video, posx, crtc, reg, call>>

ScrollX ==
    /\ At("scroll_x")
    /\ posx' = 0
    /\ Goto("cursor")
    /\ UNCHANGED <<video, posy, crtc, reg, call>>

(* screen_clear, whose update of the cursor is that of Cursor.              *)
Clear ==
    \/ /\ At("clear")
       /\ video' = [i \in Cells |-> IF i \in Console THEN Blank ELSE video[i]]
       /\ Goto("clear_x")
       /\ UNCHANGED <<posx, posy>>
    \/ /\ At("clear_x")
       /\ posx' = 0
       /\ Goto("clear_y")
       /\ UNCHANGED <<video, posy>>
    \/ /\ At("clear_y")
       /\ posy' = 0
       /\ Goto("cursor")
       /\ UNCHANGED <<video, posx>>

-----------------------------------------------------------------------------
(* screen_updatecursor: the position, then each of its bytes. *)

UpdateCursor == LoadPosition("cursor", "cursor_x", "cursor_y", "low_select")

Select(from, register, to) ==
    /\ At(from)
    /\ crtc' = [crtc EXCEPT !.index = register]
    /\ Goto(to)
    /\ UNCHANGED <<video, posx, posy, reg, call>>

WriteData(byte) ==
    crtc' = IF crtc.index = "low" THEN [crtc EXCEPT !.low = byte] ELSE [crtc EXCEPT !.high = byte]

(* Mutant: the high byte of the position is lost. *)
HighByte_Zero(position) == 0

HighByte(position) == position \div RADIX

LowWrite ==
    /\ At("low_write")
    /\ WriteData(reg[cpu] % RADIX)
    /\ Goto("high_select")
    /\ UNCHANGED <<video, posx, posy, reg, call>>

HighWrite ==
    /\ At("high_write")
    /\ WriteData(HighByte(reg[cpu]))
    /\ Goto("return")
    /\ UNCHANGED <<video, posx, posy, reg, call>>

Return ==
    /\ At("return")
    /\ reg' = [reg EXCEPT ![cpu] = 0]
    /\ IF erasing[cpu]
       THEN Goto("back") /\ UNCHANGED <<cpu, ch, text>>
       ELSE IF text # <<>> /\ cpu = "irq"
       THEN /\ ch' = [ch EXCEPT !["irq"] = Head(text)]
            /\ text' = Tail(text)
            /\ Goto("switch")
            /\ UNCHANGED cpu
       ELSE /\ Goto("idle")
            /\ ch' = [ch EXCEPT ![cpu] = "x"]
            /\ cpu' = "main"
            /\ UNCHANGED text
    /\ UNCHANGED <<video, posx, posy, crtc, erasing, ghosts>>

-----------------------------------------------------------------------------
(* screen_init clears the screen. *)
Init ==
    /\ video = [i \in Cells |-> Blank]
    /\ posx = 0 /\ posy = 0
    /\ crtc = [index |-> "high", low |-> 0, high |-> 0]
    /\ cpu = "main"
    /\ pc = [t \in Threads |-> "idle"]
    /\ ch = [t \in Threads |-> "x"]
    /\ reg = [t \in Threads |-> 0]
    /\ erasing = [t \in Threads |-> FALSE]
    /\ text = <<>>
    /\ cut = FALSE
    /\ forward = TRUE

Tab == TabLoad \/ TabStore \/ TabTest

Put == \/ Address \/ Store \/ AttrAddress \/ AttrStore
       \/ ColumnLoad \/ ColumnStore \/ ColumnTest \/ Wrap \/ RowLoad \/ RowStore \/ RowTest

Scroll == ScrollCells \/ ScrollY \/ ScrollX

Cursor == UpdateCursor \/ Select("low_select", "low", "low_write") \/ LowWrite
          \/ Select("high_select", "high", "high_write") \/ HighWrite

Next ==
    \/ \E c \in Chars : Putc(c)
    \/ \E t \in IrqTexts : Interrupt(t)
    \/ Switch \/ Tab \/ Back \/ Put \/ Scroll
    \/ Clear /\ UNCHANGED <<crtc, reg, call>>
    \/ Cursor \/ Return

Spec == Init /\ [][Next]_vars

-----------------------------------------------------------------------------
Labels ==
    {"idle", "switch", "tab_load", "tab_store", "tab_test", "back",
     "address", "address_x", "address_y", "store", "attr", "attr_x", "attr_y", "attr_store",
     "column_load", "column_store", "column_test", "wrap", "row_load", "row_store", "row_test",
     "scroll", "scroll_y", "scroll_x", "clear", "clear_x", "clear_y",
     "cursor", "cursor_x", "cursor_y", "low_select", "low_write", "high_select", "high_write",
     "return"}

TypeOK ==
    /\ video \in [Cells -> {Blank, "x"}]
    /\ posx \in Nat /\ posy \in Nat
    /\ crtc \in [index : {"low", "high"}, low : Nat, high : Nat]
    /\ cpu \in Threads
    /\ pc \in [Threads -> Labels] /\ ch \in [Threads -> AnyChar]
    /\ reg \in [Threads -> Nat] /\ erasing \in [Threads -> BOOLEAN]
    /\ text \in Seq(AnyChar)
    /\ cut \in BOOLEAN /\ forward \in BOOLEAN

Idle == cpu = "main" /\ At("idle")

(* screen.c:89: "Puts a character into the console".  Both bytes of a cell   *)
(* are written to the video memory, although an interrupt may move the       *)
(* cursor between the two loads of either address, the stores and the tests. *)
(* This needs ~CUT_ERASE: a handler that prints between the two decrements   *)
(* of a backspace (screen.c:105-108) can leave 65535 in posx, and the next   *)
(* character is written far behind the video memory.                        *)
InVideo == At("store") \/ At("attr_store") => reg[cpu] \in Cells

(* However two calls cut into each other, other than in a backspace, where   *)
(* the code does not keep it either, the position they leave is on a row of  *)
(* the screen, or one past its end.                                         *)
PositionOnScreen == Idle => posx <= T_COLUMNS /\ posy < T_ROWS

(* Nothing is left of what scrolled up: beyond the cursor all is blank, for *)
(* text that never goes back and is not cut.                                *)
BlankBeyond ==
    Idle /\ forward => \A i \in Console : i > Position => video[i] = Blank

(* The cursor is where the next character will be, after every call that no *)
(* interrupt has cut: its two registers are written one byte at a time.     *)
CursorShown == Idle /\ ~cut => crtc.low + RADIX * crtc.high = Position
=============================================================================
