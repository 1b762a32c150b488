---------------------------- MODULE ScreenProofs ----------------------------
(***************************************************************************)
(* Theorems about the screen.  Of screen_putc, for every size of the screen, *)
(* of a tab and of the video memory that has room for it, and for all texts  *)
(* the main thread and the interrupt handlers may print.  Of vprintf, log and *)
(* the scan for ANSI sequences, for all texts and messages: the second half.  *)
(***************************************************************************)
EXTENDS Screen, Console, SequenceTheorems, Arithmetic

(* A handler prints no backspace, and does not print in the middle of one;  *)
(* the video memory goes on for a row and for a tab behind the screen, and  *)
(* a row is short enough for posx, which has 16 bits.                       *)
Undisturbed ==
    /\ ~CUT_ERASE
    /\ \A t \in IrqTexts : \A i \in DOMAIN t : t[i] # "bs"

Room ==
    /\ VIDEO > (T_COLUMNS * T_ROWS) + T_COLUMNS
    /\ VIDEO > (T_COLUMNS * T_ROWS) + TAB_WIDTH
    /\ T_COLUMNS + TAB_WIDTH < 65535

-----------------------------------------------------------------------------
Types ==
    /\ posx \in Nat /\ posy \in Nat /\ cpu \in Threads
    /\ pc \in [Threads -> Labels] /\ ch \in [Threads -> AnyChar]
    /\ reg \in [Threads -> Nat] /\ erasing \in [Threads -> BOOLEAN]
    /\ text \in Seq(AnyChar \ {"bs"})

(* Who may be where: only the main thread erases, and is not cut in it.     *)
CallsOK ==
    /\ ch["irq"] # "bs" /\ ~erasing["irq"] /\ pc["irq"] # "back"
    /\ erasing["main"] => ch["main"] = "bs"
    /\ pc["main"] = "back" => ch["main"] = "bs"
    /\ cpu = "irq" => pc["main"] # "idle" /\ ch["main"] # "bs"

(* Where the position may be past the end of a row, or of the screen.       *)
Wide == pc["main"] \in {"tab_test", "column_test", "wrap"}
Tall == pc["main"] \in {"row_test", "scroll", "scroll_y"}

(* The first cell of the row the position is on, and of the last one.       *)
RowStart == posy * T_COLUMNS
LastRow  == (T_ROWS - 1) * T_COLUMNS

(* What the main thread has loaded, however old it is. *)
MainRegister ==
    /\ pc["main"] \in {"address_y", "attr_y"} => reg["main"] <= T_COLUMNS
    /\ pc["main"] \in {"address_x", "attr_x"} => reg["main"] <= LastRow
    /\ pc["main"] \in {"store", "attr_store"} => reg["main"] < VIDEO
    /\ pc["main"] = "tab_store" => reg["main"] <= T_COLUMNS + TAB_WIDTH
    /\ pc["main"] \in {"column_store", "column_test"} => reg["main"] <= T_COLUMNS + 1
    /\ pc["main"] \in {"row_store", "row_test"} => reg["main"] <= T_ROWS

MainColumn ==
    cpu = "main" =>
        /\ pc["main"] \in {"tab_test", "wrap"} => posx <= T_COLUMNS + TAB_WIDTH
        /\ pc["main"] = "column_test" => posx = reg["main"] \/ posx <= T_COLUMNS
        /\ ~Wide => posx <= T_COLUMNS

MainRow ==
    cpu = "main" =>
        /\ pc["main"] = "row_test" => posy = reg["main"] \/ posy < T_ROWS
        /\ Tall => posy <= T_ROWS
        /\ ~Tall => posy < T_ROWS

(* Where a character is drawn, and where the cursor is shown.               *)
Drawing ==
    {"address", "address_x", "address_y", "store", "attr", "attr_x", "attr_y", "attr_store",
     "column_load"}

Showing ==
    {"cursor", "cursor_x", "cursor_y", "low_select", "low_write", "high_select", "high_write",
     "return"}

(* The two decrements of a backspace, and the character between them.       *)
Erasing ==
    /\ pc["main"] = "back" => posx >= 1
    /\ erasing["main"] =>
        /\ pc["main"] \in Drawing \cup {"column_store", "column_test"} \cup Showing \cup {"back"}
        /\ pc["main"] \in Drawing => posx < T_COLUMNS
        /\ pc["main"] = "column_store" => reg["main"] >= 1 /\ reg["main"] <= T_COLUMNS
        /\ pc["main"] = "column_test" => posx = reg["main"]
        /\ pc["main"] \notin Drawing \cup {"column_store"} =>
              posx >= 1 /\ posx <= T_COLUMNS

(* The position a handler finds, and what it makes of it. *)
IrqColumn ==
    cpu = "irq" =>
        /\ pc["irq"] \in {"switch", "tab_load"} \cup Drawing =>
              posx <= IF Wide THEN T_COLUMNS + TAB_WIDTH ELSE T_COLUMNS
        /\ pc["irq"] \in {"address_y", "attr_y"} => reg["irq"] = posx
        /\ pc["irq"] \in {"address_x", "attr_x"} => reg["irq"] = RowStart
        /\ pc["irq"] \in {"store", "attr_store"} => reg["irq"] < VIDEO
        /\ pc["irq"] = "column_test" => posx = reg["irq"]
        /\ pc["irq"] \in {"row_load", "row_store", "row_test", "clear_y"} \cup Showing =>
              posx <= T_COLUMNS

(* The row below the screen is one the main thread has seen, and scrolls.   *)
RowKept ==
    posy < T_ROWS \/ (Tall /\ posy = T_ROWS /\ (pc["main"] = "row_test" => reg["main"] = T_ROWS))

IrqRow ==
    cpu = "irq" =>
        /\ pc["irq"] = "row_test" => posy = reg["irq"]
        /\ pc["irq"] \notin {"row_test", "scroll", "scroll_y"} => RowKept

ScreenInv ==
    /\ Types /\ CallsOK /\ MainRegister /\ MainColumn /\ MainRow /\ Erasing
    /\ IrqColumn /\ IrqRow

-----------------------------------------------------------------------------
LEMMA Sizes ==
    /\ T_COLUMNS \in Nat \ {0} /\ T_ROWS \in Nat \ {0} /\ TAB_WIDTH \in Nat \ {0}
    /\ RADIX \in Nat \ {0} /\ VIDEO \in Nat /\ VIDEO > T_COLUMNS * T_ROWS
BY SizeAssumption

(* A position on the screen, or one past the end, or a tab past it, is one   *)
(* of the video memory.                                                     *)
LEMMA PositionFits ==
    ASSUME Room, NEW x \in Nat, NEW y \in Nat,
           \/ x <= T_COLUMNS /\ y <= T_ROWS
           \/ x <= T_COLUMNS + TAB_WIDTH /\ y < T_ROWS
    PROVE  x + y * T_COLUMNS \in Nat /\ x + y * T_COLUMNS < VIDEO
<1>1. y * T_COLUMNS \in Nat
  BY Sizes
<1>2. CASE x <= T_COLUMNS /\ y <= T_ROWS
  <2>1. y * T_COLUMNS <= T_ROWS * T_COLUMNS
    BY <1>2, Sizes
  <2> QED BY <1>1, <1>2, <2>1, Sizes DEF Room
<1>3. CASE x <= T_COLUMNS + TAB_WIDTH /\ y < T_ROWS
  <2>1. y * T_COLUMNS <= (T_ROWS - 1) * T_COLUMNS
    BY <1>3, Sizes
  <2>2. (T_ROWS - 1) * T_COLUMNS = (T_ROWS * T_COLUMNS) - T_COLUMNS
    BY Sizes
  <2> QED BY <1>1, <1>3, <2>1, <2>2, Sizes DEF Room
<1> QED BY <1>2, <1>3

LEMMA NextTabIs ==
    ASSUME posx \in Nat
    PROVE  NextTab \in Nat /\ NextTab > posx /\ NextTab <= posx + TAB_WIDTH
<1> DEFINE q == posx \div TAB_WIDTH
           r == posx % TAB_WIDTH
<1>1. posx = (TAB_WIDTH * q) + r /\ q \in Nat /\ r \in 0..(TAB_WIDTH - 1)
  BY ONLY posx \in Nat, Sizes, DivMod
<1>2. NextTab = (q + 1) * TAB_WIDTH
  BY DEF NextTab
<1> HIDE DEF q, r
<1>3. (q + 1) * TAB_WIDTH = (TAB_WIDTH * q) + TAB_WIDTH
  BY <1>1, Sizes
<1>4. TAB_WIDTH * q \in Nat
  BY <1>1, Sizes
<1> QED BY <1>1, <1>2, <1>3, <1>4, Sizes

LEMMA ScreenInit == ASSUME Init PROVE ScreenInv
BY Sizes DEF Init, ScreenInv, Types, CallsOK, MainRegister, MainColumn, MainRow, Erasing,
             IrqColumn, IrqRow, RowKept, Wide, Tall, Threads, Labels, AnyChar, Drawing, Showing

-----------------------------------------------------------------------------
(* The steps.  Each is one of the main thread, or of a handler.             *)
USE DEF ScreenInv, Types, CallsOK, MainRegister, MainColumn, MainRow, Erasing, IrqColumn, IrqRow,
        RowKept, Wide, Tall, Threads, Labels, AnyChar, Drawing, Showing, At, Goto, Load, call,
        ghosts

LEMMA PutcStep ==
    ASSUME ScreenInv, Undisturbed, Room, NEW c \in Chars, Putc(c) 
    PROVE  ScreenInv'
<1>1. c \in AnyChar
  BY CharAssumption DEF Putc
<1> QED BY <1>1, Sizes DEF Putc

LEMMA InterruptStep ==
    ASSUME ScreenInv, Undisturbed, Room, NEW t \in IrqTexts, Interrupt(t)
    PROVE  ScreenInv'
<1>1. cpu = "main" /\ pc["main"] # "idle" /\ ch["main"] # "bs"
  BY DEF Interrupt, Undisturbed
<1>2. t \in Seq(AnyChar) /\ t # <<>>
  BY CharAssumption
<1>3. Head(t) \in AnyChar \ {"bs"} /\ Tail(t) \in Seq(AnyChar \ {"bs"})
  <2>1. \A i \in 1..Len(t) : t[i] \in AnyChar \ {"bs"}
    BY <1>2 DEF Undisturbed
  <2> HIDE DEF AnyChar
  <2>2. t \in [1..Len(t) -> AnyChar \ {"bs"}] /\ Len(t) \in Nat
    BY <1>2, <2>1
  <2>3. t \in Seq(AnyChar \ {"bs"})
    BY <2>2, SeqDef
  <2> QED BY <1>2, <2>3
<1> QED BY <1>1, <1>3, Sizes DEF Interrupt

LEMMA SwitchStep == ASSUME ScreenInv, Undisturbed, Room, Switch PROVE ScreenInv'
<1>a. CASE cpu = "main"
  <2>1. CASE ch[cpu] = "nl"
    BY <1>a, <2>1, Sizes DEF Switch
  <2>2. CASE ch[cpu] = "cr"
    BY <1>a, <2>2, Sizes DEF Switch
  <2>3. CASE ch[cpu] = "bs"
    BY <1>a, <2>3, Sizes DEF Switch
  <2>4. CASE ch[cpu] = "tab"
    BY <1>a, <2>4, Sizes DEF Switch
  <2>5. CASE ch[cpu] = "clear"
    BY <1>a, <2>5, Sizes DEF Switch
  <2>6. CASE ch[cpu] = "x"
    BY <1>a, <2>6, Sizes DEF Switch
  <2> QED BY <1>a, <2>1, <2>2, <2>3, <2>4, <2>5, <2>6
<1>b. CASE cpu = "irq"
  <2>1. CASE ch[cpu] = "nl"
    BY <1>b, <2>1, Sizes DEF Switch
  <2>2. CASE ch[cpu] = "cr"
    BY <1>b, <2>2, Sizes DEF Switch
  <2>3. CASE ch[cpu] = "bs"
    BY <1>b, <2>3, Sizes DEF Switch
  <2>4. CASE ch[cpu] = "tab"
    BY <1>b, <2>4, Sizes DEF Switch
  <2>5. CASE ch[cpu] = "clear"
    BY SMTT(30), <1>b, <2>5, Sizes DEF Switch
  <2>6. CASE ch[cpu] = "x"
    BY <1>b, <2>6, Sizes DEF Switch
  <2> QED BY <1>b, <2>1, <2>2, <2>3, <2>4, <2>5, <2>6
<1> QED BY <1>a, <1>b

LEMMA TabLoadStep == ASSUME ScreenInv, Undisturbed, Room, TabLoad PROVE ScreenInv'
<1>1. NextTab \in Nat
  BY NextTabIs
<1>a. CASE cpu = "main"
  BY <1>a, <1>1, NextTabIs, Sizes DEF TabLoad
<1>b. CASE cpu = "irq"
  BY <1>b, <1>1, NextTabIs, Sizes DEF TabLoad
<1> QED BY <1>a, <1>b

(* What the main thread loads is on the screen; what a handler loads is where *)
(* the main thread has left the position.                                   *)
LEMMA Loads ==
    ASSUME ScreenInv, Room
    PROVE  /\ RowStart \in Nat /\ RowStart = posy * T_COLUMNS
           /\ LastRow \in Nat /\ LastRow + T_COLUMNS < VIDEO
           /\ posy < T_ROWS => RowStart <= LastRow
           /\ cpu = "irq" /\ pc["irq"] \in Drawing => posx + RowStart < VIDEO
<1>1. RowStart \in Nat /\ LastRow \in Nat
  BY Sizes DEF RowStart, LastRow
<1>2. LastRow + T_COLUMNS < VIDEO
  BY Sizes DEF LastRow, Room
<1>3. posy < T_ROWS => RowStart <= LastRow
  BY Sizes DEF RowStart, LastRow
<1>4. ASSUME cpu = "irq", pc["irq"] \in Drawing PROVE posx + RowStart < VIDEO
  <2>1. \/ posx <= T_COLUMNS /\ posy <= T_ROWS
        \/ posx <= T_COLUMNS + TAB_WIDTH /\ posy < T_ROWS
    BY <1>4, Sizes
  <2> QED BY <2>1, PositionFits DEF RowStart
<1> QED BY <1>1, <1>2, <1>3, <1>4 DEF RowStart

LEMMA AddressStep == ASSUME ScreenInv, Undisturbed, Room, Address PROVE ScreenInv'
<1>0. UNCHANGED <<posx, posy, cpu, ch, erasing, text>> /\ RowStart' = RowStart
  BY DEF Address, LoadPosition, RowStart
<1>a. CASE cpu = "main"
  BY <1>a, <1>0, Loads, Sizes DEF Address, LoadPosition
<1>b. CASE cpu = "irq"
  <2>1. /\ pc[cpu] \in Drawing
        /\ posx + RowStart < VIDEO /\ RowStart \in Nat
        /\ posy * T_COLUMNS = RowStart
    BY <1>b, Loads DEF Address, LoadPosition
  <2>2. CASE At("address")
    BY <1>b, <1>0, <2>1, <2>2 DEF Address, LoadPosition
  <2>3. CASE At("address_x")
    BY <1>b, <1>0, <2>1, <2>3 DEF Address, LoadPosition
  <2>4. CASE At("address_y")
    BY <1>b, <1>0, <2>1, <2>4 DEF Address, LoadPosition
  <2> QED BY <2>2, <2>3, <2>4 DEF Address, LoadPosition
<1> QED BY <1>a, <1>b

LEMMA AttrAddressStep == ASSUME ScreenInv, Undisturbed, Room, AttrAddress PROVE ScreenInv'
<1>0. UNCHANGED <<posx, posy, cpu, ch, erasing, text>> /\ RowStart' = RowStart
  BY DEF AttrAddress, LoadPosition, RowStart
<1>a. CASE cpu = "main"
  BY <1>a, <1>0, Loads, Sizes DEF AttrAddress, LoadPosition
<1>b. CASE cpu = "irq"
  <2>1. /\ pc[cpu] \in Drawing
        /\ posx + RowStart < VIDEO /\ RowStart \in Nat
        /\ posy * T_COLUMNS = RowStart
    BY <1>b, Loads DEF AttrAddress, LoadPosition
  <2>2. CASE At("attr")
    BY <1>b, <1>0, <2>1, <2>2 DEF AttrAddress, LoadPosition
  <2>3. CASE At("attr_x")
    BY <1>b, <1>0, <2>1, <2>3 DEF AttrAddress, LoadPosition
  <2>4. CASE At("attr_y")
    BY <1>b, <1>0, <2>1, <2>4 DEF AttrAddress, LoadPosition
  <2> QED BY <2>2, <2>3, <2>4 DEF AttrAddress, LoadPosition
<1> QED BY <1>a, <1>b

LEMMA AttrStoreStep == ASSUME ScreenInv, Undisturbed, Room, AttrStore PROVE ScreenInv'
<1>a. CASE cpu = "main"
  BY <1>a, Sizes DEF AttrStore
<1>b. CASE cpu = "irq"
  BY <1>b, Sizes DEF AttrStore
<1> QED BY <1>a, <1>b

LEMMA TabStoreStep == ASSUME ScreenInv, Undisturbed, Room, TabStore PROVE ScreenInv'
<1>a. CASE cpu = "main"
  BY <1>a, Sizes DEF TabStore
<1>b. CASE cpu = "irq"
  BY <1>b, Sizes DEF TabStore
<1> QED BY <1>a, <1>b

LEMMA TabTestStep == ASSUME ScreenInv, Undisturbed, Room, TabTest PROVE ScreenInv'
<1>a. CASE cpu = "main"
  BY <1>a, Sizes DEF TabTest
<1>b. CASE cpu = "irq"
  BY <1>b, Sizes DEF TabTest
<1> QED BY <1>a, <1>b

LEMMA BackStep == ASSUME ScreenInv, Undisturbed, Room, Back PROVE ScreenInv'
<1>a. CASE cpu = "main"
  BY <1>a, Sizes DEF Back
<1>b. CASE cpu = "irq"
  BY <1>b, Sizes DEF Back
<1> QED BY <1>a, <1>b

LEMMA StoreStep == ASSUME ScreenInv, Undisturbed, Room, Store PROVE ScreenInv'
<1>a. CASE cpu = "main"
  BY <1>a, Sizes DEF Store
<1>b. CASE cpu = "irq"
  BY <1>b, Sizes DEF Store
<1> QED BY <1>a, <1>b

LEMMA ColumnStoreStep == ASSUME ScreenInv, Undisturbed, Room, ColumnStore PROVE ScreenInv'
<1>a. CASE cpu = "main"
  BY <1>a, Sizes DEF ColumnStore
<1>b. CASE cpu = "irq"
  BY <1>b, Sizes DEF ColumnStore
<1> QED BY <1>a, <1>b

LEMMA WrapStep == ASSUME ScreenInv, Undisturbed, Room, Wrap PROVE ScreenInv'
<1>a. CASE cpu = "main"
  BY <1>a, Sizes DEF Wrap
<1>b. CASE cpu = "irq"
  BY <1>b, Sizes DEF Wrap
<1> QED BY <1>a, <1>b

LEMMA RowStoreStep == ASSUME ScreenInv, Undisturbed, Room, RowStore PROVE ScreenInv'
<1>a. CASE cpu = "main"
  BY <1>a, Sizes DEF RowStore
<1>b. CASE cpu = "irq"
  BY <1>b, Sizes DEF RowStore
<1> QED BY <1>a, <1>b

LEMMA ScrollCellsStep == ASSUME ScreenInv, Undisturbed, Room, ScrollCells PROVE ScreenInv'
<1>a. CASE cpu = "main"
  BY <1>a, Sizes DEF ScrollCells
<1>b. CASE cpu = "irq"
  BY <1>b, Sizes DEF ScrollCells
<1> QED BY <1>a, <1>b

LEMMA ScrollYStep == ASSUME ScreenInv, Undisturbed, Room, ScrollY PROVE ScreenInv'
<1>a. CASE cpu = "main"
  BY <1>a, Sizes DEF ScrollY
<1>b. CASE cpu = "irq"
  BY <1>b, Sizes DEF ScrollY
<1> QED BY <1>a, <1>b

LEMMA ScrollXStep == ASSUME ScreenInv, Undisturbed, Room, ScrollX PROVE ScreenInv'
<1>a. CASE cpu = "main"
  BY <1>a, Sizes DEF ScrollX
<1>b. CASE cpu = "irq"
  BY <1>b, Sizes DEF ScrollX
<1> QED BY <1>a, <1>b

LEMMA LowWriteStep == ASSUME ScreenInv, Undisturbed, Room, LowWrite PROVE ScreenInv'
<1>a. CASE cpu = "main"
  BY <1>a, Sizes DEF LowWrite
<1>b. CASE cpu = "irq"
  BY <1>b, Sizes DEF LowWrite
<1> QED BY <1>a, <1>b

LEMMA HighWriteStep == ASSUME ScreenInv, Undisturbed, Room, HighWrite PROVE ScreenInv'
<1>a. CASE cpu = "main"
  BY <1>a, Sizes DEF HighWrite
<1>b. CASE cpu = "irq"
  BY <1>b, Sizes DEF HighWrite
<1> QED BY <1>a, <1>b

LEMMA ColumnLoadStep == ASSUME ScreenInv, Undisturbed, Room, ColumnLoad PROVE ScreenInv'
<1>a. CASE cpu = "main"
  <2>1. At("column_load") => posx <= T_COLUMNS /\ (posx + 1) % 65536 = posx + 1
    BY <1>a, Sizes DEF Room
  <2> QED BY <1>a, <2>1, Sizes DEF ColumnLoad
<1>b. CASE cpu = "irq"
  BY <1>b, Sizes DEF ColumnLoad
<1> QED BY <1>a, <1>b

LEMMA RowLoadStep == ASSUME ScreenInv, Undisturbed, Room, RowLoad PROVE ScreenInv'
<1>a. CASE cpu = "main"
  BY <1>a, Sizes DEF RowLoad
<1>b. CASE cpu = "irq"
  BY <1>b, Sizes DEF RowLoad
<1> QED BY <1>a, <1>b

LEMMA ColumnTestStep == ASSUME ScreenInv, Undisturbed, Room, ColumnTest PROVE ScreenInv'
<1>a. CASE cpu = "main"
  BY <1>a, Sizes DEF ColumnTest, PastEnd
<1>b. CASE cpu = "irq"
  BY <1>b, Sizes DEF ColumnTest, PastEnd
<1> QED BY <1>a, <1>b

LEMMA RowTestStep == ASSUME ScreenInv, Undisturbed, Room, RowTest PROVE ScreenInv'
<1>a. CASE cpu = "main"
  BY <1>a, Sizes DEF RowTest, Below
<1>b. CASE cpu = "irq"
  BY <1>b, Sizes DEF RowTest, Below
<1> QED BY <1>a, <1>b

LEMMA ClearStep == ASSUME ScreenInv, Undisturbed, Room, Clear, UNCHANGED <<crtc, reg, call>> PROVE ScreenInv'
<1>a. CASE cpu = "main"
  BY <1>a, Sizes DEF Clear
<1>b. CASE cpu = "irq"
  BY <1>b, Sizes DEF Clear
<1> QED BY <1>a, <1>b

LEMMA UpdateCursorStep == ASSUME ScreenInv, Undisturbed, Room, UpdateCursor PROVE ScreenInv'
<1>0. UNCHANGED <<posx, posy, cpu, ch, erasing, text>>
  BY DEF UpdateCursor, LoadPosition
<1>a. CASE cpu = "main"
  BY <1>a, <1>0, Loads, Sizes DEF UpdateCursor, LoadPosition
<1>b. CASE cpu = "irq"
  BY <1>b, <1>0, Loads, Sizes DEF UpdateCursor, LoadPosition
<1> QED BY <1>a, <1>b

LEMMA SelectStep ==
    ASSUME ScreenInv,
           \/ Select("low_select", "low", "low_write")
           \/ Select("high_select", "high", "high_write")
    PROVE  ScreenInv'
<1>a. CASE cpu = "main"
  BY SMTT(30), <1>a, Sizes DEF Select
<1>b. CASE cpu = "irq"
  BY <1>b, Sizes DEF Select
<1> QED BY <1>a, <1>b

LEMMA ReturnStep == ASSUME ScreenInv, Undisturbed, Room, Return PROVE ScreenInv'
<1>a. CASE cpu = "main"
  BY <1>a, Sizes DEF Return
<1>b. CASE cpu = "irq" /\ text # <<>>
  <2>1. Head(text) \in AnyChar \ {"bs"} /\ Tail(text) \in Seq(AnyChar \ {"bs"})
    BY <1>b
  <2>2. /\ pc["irq"] = "return" /\ cpu' = "irq" /\ UNCHANGED <<posx, posy, erasing>>
        /\ ch' = [ch EXCEPT !["irq"] = Head(text)] /\ text' = Tail(text)
        /\ pc' = [pc EXCEPT !["irq"] = "switch"] /\ reg' = [reg EXCEPT !["irq"] = 0]
    BY <1>b DEF Return
  <2> HIDE DEF AnyChar
  <2>3. Types' /\ CallsOK'
    BY <1>b, <2>1, <2>2
  <2>4. MainRegister' /\ MainColumn' /\ MainRow' /\ Erasing'
    BY <1>b, <2>2
  <2>5. IrqColumn' /\ IrqRow'
    BY <1>b, <2>2, Sizes
  <2> QED BY <2>3, <2>4, <2>5
<1>c. CASE cpu = "irq" /\ text = <<>>
  BY <1>c, Sizes DEF Return
<1> QED BY <1>a, <1>b, <1>c

LEMMA ScreenStep == ASSUME ScreenInv, Undisturbed, Room, [Next]_vars PROVE ScreenInv'
<1>1. CASE UNCHANGED vars
  BY <1>1 DEF vars, RowStart
<1>2. CASE Next
  <2> HIDE DEF ScreenInv
  <2>1. ASSUME NEW c \in Chars, Putc(c) PROVE ScreenInv'
    BY <2>1, PutcStep
  <2>2. ASSUME NEW t \in IrqTexts, Interrupt(t) PROVE ScreenInv'
    BY <2>2, InterruptStep
  <2>3. CASE Clear /\ UNCHANGED <<crtc, reg, call>>
    BY <2>3, ClearStep
  <2>4. CASE Switch \/ Tab \/ Back
    BY <2>4, SwitchStep, TabLoadStep, TabStoreStep, TabTestStep, BackStep DEF Tab
  <2>5. CASE Put
    BY <2>5, AddressStep, StoreStep, AttrAddressStep, AttrStoreStep, ColumnLoadStep,
       ColumnStoreStep, ColumnTestStep, WrapStep, RowLoadStep, RowStoreStep, RowTestStep DEF Put
  <2>6. CASE Scroll
    BY <2>6, ScrollCellsStep, ScrollYStep, ScrollXStep DEF Scroll
  <2>7. CASE Cursor \/ Return
    BY <2>7, UpdateCursorStep, SelectStep, LowWriteStep, HighWriteStep, ReturnStep DEF Cursor
  <2> QED BY <1>2, <2>1, <2>2, <2>3, <2>4, <2>5, <2>6, <2>7 DEF Next
<1> QED BY <1>1, <1>2

HIDE DEF ScreenInv

LEMMA ScreenInvariant == Undisturbed /\ Room => (Spec => []ScreenInv)
<1> SUFFICES ASSUME Undisturbed, Room PROVE Spec => []ScreenInv
  OBVIOUS
<1>1. Init => ScreenInv
  BY ScreenInit
<1>2. ScreenInv /\ [Next]_vars => ScreenInv'
  BY ScreenStep
<1> QED BY <1>1, <1>2, PTL DEF Spec

(* Both bytes of every cell that is written are in the video memory, wherever *)
(* a handler that prints cuts into the call, if no handler prints a backspace *)
(* or cuts into one: after a cut between the two decrements of a backspace   *)
(* (screen.c:105-108) the code does write behind the video memory.          *)
THEOREM WritesInVideo == Undisturbed /\ Room => (Spec => []InVideo)
<1> SUFFICES ASSUME Undisturbed, Room PROVE Spec => []InVideo
  OBVIOUS
<1>1. ScreenInv => InVideo
  BY Sizes DEF InVideo, Cells, ScreenInv
<1> QED BY <1>1, ScreenInvariant, PTL

(* After every call the position is on a row of the screen, or one past its  *)
(* end, whatever calls of handlers it was cut by, under the same condition:  *)
(* no handler in the middle of a backspace, and none that prints one.       *)
THEOREM StaysOnScreen == Undisturbed /\ Room => (Spec => []PositionOnScreen)
<1> SUFFICES ASSUME Undisturbed, Room PROVE Spec => []PositionOnScreen
  OBVIOUS
<1>1. ScreenInv => PositionOnScreen
  BY DEF PositionOnScreen, Idle, ScreenInv
<1> QED BY <1>1, ScreenInvariant, PTL

-----------------------------------------------------------------------------
(* The cursor registers, in a call that is not cut.                         *)
CrtcOK == crtc \in [index : {"low", "high"}, low : Nat, high : Nat]

Shows == crtc.low + RADIX * crtc.high = Position

CursorInv ==
    ~cut =>
        /\ cpu = "main"
        /\ pc["main"] = "cursor_x" => reg["main"] = RowStart
        /\ pc["main"] = "cursor_y" => reg["main"] = posx
        /\ pc["main"] \in {"low_select", "low_write", "high_select", "high_write"} =>
              reg["main"] = Position
        /\ pc["main"] = "low_write" => crtc.index = "low"
        /\ pc["main"] \in {"high_select", "high_write"} => crtc.low = Position % RADIX
        /\ pc["main"] = "high_write" => crtc.index = "high"
        /\ pc["main"] \in {"return", "idle"} => Shows

LEMMA CursorInit == ASSUME Init PROVE CrtcOK /\ CursorInv
<1>1. Position = 0
  BY Sizes DEF Init, Position
<1> QED BY <1>1, Sizes DEF Init, CrtcOK, CursorInv, Shows

LEMMA CursorStep ==
    ASSUME ScreenInv, CrtcOK, CursorInv, [Next]_vars
    PROVE  CrtcOK' /\ CursorInv'
<1> USE DEF CrtcOK, CursorInv, Shows, ScreenInv
<1>p. Position \in Nat
  BY Sizes DEF Position
<1>1. CASE UNCHANGED vars
  BY <1>1 DEF vars, Position, RowStart
<1>2. ASSUME NEW c \in Chars, Putc(c) PROVE CrtcOK' /\ CursorInv'
  BY <1>2 DEF Putc
<1>3. ASSUME NEW t \in IrqTexts, Interrupt(t) PROVE CrtcOK' /\ CursorInv'
  BY <1>3 DEF Interrupt
<1>4. CASE Switch \/ Tab \/ Back \/ Put \/ Scroll \/ (Clear /\ UNCHANGED <<crtc, reg, call>>)
  <2> DEFINE Elsewhere ==
               /\ crtc' = crtc /\ cpu' = cpu /\ cut' = cut
               /\ pc'[cpu] \notin (Showing \ {"cursor"}) \cup {"idle"}
  <2>1. (Switch) => Elsewhere
    BY DEF Switch
  <2>2. (Tab) => Elsewhere
    BY DEF Tab, TabLoad, TabStore, TabTest
  <2>3. (Back) => Elsewhere
    BY DEF Back
  <2>3a. (Address \/ AttrAddress) => Elsewhere
    BY DEF Address, AttrAddress, LoadPosition
  <2>4. (Store \/ AttrStore \/ ColumnLoad \/ ColumnStore \/ ColumnTest) => Elsewhere
    BY DEF Store, AttrStore, ColumnLoad, ColumnStore, ColumnTest
  <2>5. (Wrap \/ RowLoad \/ RowStore \/ RowTest) => Elsewhere
    BY DEF Wrap, RowLoad, RowStore, RowTest
  <2>6. (Scroll) => Elsewhere
    BY DEF Scroll, ScrollCells, ScrollY, ScrollX
  <2>7. (Clear /\ UNCHANGED <<crtc, reg, call>>) => Elsewhere
    BY DEF Clear
  <2>8. Elsewhere
    BY ONLY <1>4, <2>1, <2>2, <2>3, <2>3a, <2>4, <2>5, <2>6, <2>7 DEF Put
  <2> QED BY <2>8
<1>5. CASE UpdateCursor
  <2>1. UNCHANGED <<posx, posy, crtc, cpu, cut>> /\ RowStart' = RowStart /\ Position' = Position
    BY <1>5 DEF UpdateCursor, LoadPosition, RowStart, Position
  <2>2. Position = posx + posy * T_COLUMNS /\ RowStart = posy * T_COLUMNS /\ RowStart \in Nat
    BY Sizes DEF Position, RowStart
  <2> QED BY <1>5, <2>1, <2>2 DEF UpdateCursor, LoadPosition
<1>6. CASE Select("low_select", "low", "low_write")
  BY <1>6, <1>p DEF Select, Position
<1>7. CASE Select("high_select", "high", "high_write")
  BY <1>7, <1>p DEF Select, Position
<1>8. CASE LowWrite
  <2>1. Position' = Position
    BY <1>8 DEF LowWrite, Position
  <2>2. reg[cpu] \in Nat /\ reg[cpu] % RADIX \in Nat
    BY DivMod, Sizes
  <2> QED BY <1>8, <2>1, <2>2 DEF LowWrite, WriteData
<1>9. CASE HighWrite
  <2>1. Position' = Position
    BY <1>9 DEF HighWrite, Position
  <2>2. reg[cpu] \in Nat /\ reg[cpu] \div RADIX \in Nat
    BY DivMod, Sizes
  <2>3. (Position % RADIX) + RADIX * (Position \div RADIX) = Position
    BY <1>p, DivMod, Sizes
  <2> QED BY <1>9, <2>1, <2>2, <2>3 DEF HighWrite, WriteData, HighByte
<1>10. CASE Return
  <2>1. Position' = Position
    BY <1>10 DEF Return, Position
  <2> QED BY <1>10, <2>1 DEF Return
<1> QED BY <1>1, <1>2, <1>3, <1>4, <1>5, <1>6, <1>7, <1>8, <1>9, <1>10 DEF Next, Cursor

(* The cursor is shown where the next character goes, after every call that  *)
(* was not cut.                                                             *)
THEOREM CursorFollows == Undisturbed /\ Room => (Spec => []CursorShown)
<1> SUFFICES ASSUME Undisturbed, Room PROVE Spec => []CursorShown
  OBVIOUS
<1>1. Init => CrtcOK /\ CursorInv
  BY CursorInit
<1>2. ScreenInv /\ CrtcOK /\ CursorInv /\ [Next]_vars => CrtcOK' /\ CursorInv'
  BY CursorStep
<1>3. CursorInv => CursorShown
  BY DEF CursorShown, Idle, CursorInv, Shows
<1> QED BY <1>1, <1>2, <1>3, ScreenInvariant, PTL DEF Spec

-----------------------------------------------------------------------------
(* What is behind the position, while text goes forward.                    *)
BlankFrom(k) == \A i \in Console : i >= k => video[i] = Blank

BehindPosition == BlankFrom(Position + 1)
BehindRow      == BlankFrom(RowStart + T_COLUMNS + 1)

BlankInv ==
    forward =>
        /\ cpu = "main" /\ pc["main"] # "back"
        /\ pc["main"] # "idle" => ch["main"] \in {"x", "nl", "tab", "clear"}
        /\ pc["main"] = "switch" /\ ch["main"] # "clear" => BehindPosition
        /\ pc["main"] \in {"tab_load", "tab_store", "tab_test", "column_store", "row_test", "idle"}
                          \cup Drawing \cup Showing => BehindPosition
        /\ pc["main"] = "tab_store" => reg["main"] >= posx
        /\ pc["main"] = "address_x" => reg["main"] = RowStart
        /\ pc["main"] = "address_y" => reg["main"] = posx
        /\ pc["main"] = "store" => reg["main"] = Position
        /\ pc["main"] = "column_store" => reg["main"] = posx + 1
        /\ pc["main"] = "column_test" => posx = reg["main"] /\ BlankFrom(Position)
        /\ pc["main"] \in {"tab_test", "column_test", "wrap", "row_load", "row_store"} => BehindRow
        /\ pc["main"] = "row_store" => reg["main"] = posy + 1
        /\ pc["main"] \in {"row_load", "row_store", "row_test"} => posx = 0
        /\ pc["main"] = "row_test" => posy = reg["main"]
        /\ pc["main"] = "scroll_y" => BlankFrom((T_ROWS - 1) * T_COLUMNS)
        /\ pc["main"] = "scroll_x" => posy = T_ROWS - 1 /\ BlankFrom((T_ROWS - 1) * T_COLUMNS)
        /\ pc["main"] \in {"clear_x", "clear_y"} => BlankFrom(0)

LEMMA BlankMore ==
    ASSUME NEW k \in Nat, NEW m \in Nat, BlankFrom(k), k <= m
    PROVE  BlankFrom(m)
BY Sizes DEF BlankFrom, Console

LEMMA Positions ==
    ASSUME ScreenInv
    PROVE  RowStart \in Nat /\ Position \in Nat /\ Position = posx + RowStart
BY Sizes DEF RowStart, Position, ScreenInv

(* The steps that move nothing and write nothing. *)
LEMMA BlankKept ==
    ASSUME BlankInv, UNCHANGED <<video, posx, posy>>
    PROVE  /\ BehindPosition => BehindPosition'
           /\ BehindRow => BehindRow'
           /\ Position' = Position /\ RowStart' = RowStart
           /\ \A k \in Nat : BlankFrom(k) => (BlankFrom(k))'
BY DEF BehindPosition, BehindRow, BlankFrom, Position, RowStart

LEMMA BlankInit == ASSUME Init PROVE BlankInv
<1>1. Position = 0 /\ BlankFrom(0 + 1)
  BY Sizes DEF Init, Position, BlankFrom, Console, Cells
<1>2. BehindPosition
  BY <1>1 DEF BehindPosition
<1> QED BY <1>2 DEF Init, BlankInv

(* On the screen, what is behind the position is behind its row as well.     *)
LEMMA RowBehind ==
    ASSUME ScreenInv, BehindPosition, posx <= T_COLUMNS
    PROVE  BehindRow
<1>1. Position + 1 <= RowStart + T_COLUMNS + 1 /\ Position + 1 \in Nat /\ RowStart + T_COLUMNS + 1 \in Nat
  BY Positions, Sizes DEF ScreenInv
<1> QED BY <1>1, BlankMore DEF BehindPosition, BehindRow

LEMMA BlankStill ==
    ASSUME ScreenInv, Room, BlankInv, forward,
           \/ Switch /\ ch["main"] # "nl"
           \/ TabLoad \/ TabTest \/ Address \/ AttrAddress \/ AttrStore \/ ColumnLoad \/ ColumnTest \/ RowLoad \/ RowTest
           \/ UpdateCursor \/ Select("low_select", "low", "low_write") \/ LowWrite
           \/ Select("high_select", "high", "high_write") \/ HighWrite \/ Return
    PROVE  BlankInv'
<1> USE DEF ScreenInv, BlankInv
<1>0. cpu = "main"
  OBVIOUS
<1>1. CASE Switch /\ ch["main"] # "nl"
  BY <1>0, <1>1, BlankKept DEF Switch
<1>2. CASE TabLoad
  BY <1>0, <1>2, BlankKept, NextTabIs DEF TabLoad
<1>3. CASE TabTest
  BY <1>0, <1>3, BlankKept DEF TabTest
<1>4. CASE Address
  <2>1. UNCHANGED <<video, posx, posy, cpu, ch, forward>>
    BY <1>4 DEF Address, LoadPosition
  <2>2. Position = posx + RowStart /\ RowStart = posy * T_COLUMNS /\ RowStart \in Nat
    BY Positions DEF RowStart
  <2> QED BY <1>0, <1>4, <2>1, <2>2, BlankKept DEF Address, LoadPosition
<1>4a. CASE AttrAddress
  BY <1>0, <1>4a, BlankKept DEF AttrAddress, LoadPosition
<1>4b. CASE AttrStore
  BY <1>0, <1>4b, BlankKept DEF AttrStore
<1>5. CASE ColumnLoad
  <2>1. (posx + 1) % 65536 = posx + 1
    BY <1>0, <1>5, Sizes DEF ColumnLoad, Room
  <2> QED BY <1>0, <1>5, <2>1, BlankKept DEF ColumnLoad
<1>6. CASE ColumnTest
  <2>1. Position \in Nat
    BY Positions
  <2>2. BehindPosition
    BY <1>0, <1>6, <2>1, BlankMore DEF ColumnTest, BehindPosition
  <2>3. /\ cpu' = cpu /\ UNCHANGED <<video, posx, posy, ch, forward>>
        /\ pc' \in {[pc EXCEPT !["main"] = "wrap"], [pc EXCEPT !["main"] = "cursor"]}
    BY <1>0, <1>6 DEF ColumnTest
  <2> QED BY <1>0, <1>6, <2>2, <2>3, BlankKept DEF ColumnTest
<1>7. CASE RowLoad
  BY <1>0, <1>7, BlankKept DEF RowLoad
<1>8. CASE RowTest
  BY <1>0, <1>8, BlankKept DEF RowTest, Below
<1>9. CASE UpdateCursor
  BY <1>0, <1>9, BlankKept DEF UpdateCursor, LoadPosition
<1>10. CASE Select("low_select", "low", "low_write")
  BY <1>0, <1>10, BlankKept DEF Select
<1>11. CASE Select("high_select", "high", "high_write")
  BY <1>0, <1>11, BlankKept DEF Select
<1>12. CASE LowWrite
  BY <1>0, <1>12, BlankKept DEF LowWrite
<1>13. CASE HighWrite
  BY <1>0, <1>13, BlankKept DEF HighWrite
<1>14. CASE Return
  BY <1>0, <1>14, BlankKept DEF Return
<1> QED BY <1>1, <1>2, <1>3, <1>4, <1>4a, <1>4b, <1>5, <1>6, <1>7, <1>8, <1>9, <1>10, <1>11, <1>12,
           <1>13, <1>14

(* The steps that move the position. *)
LEMMA BlankMoved ==
    ASSUME ScreenInv, Room, BlankInv, forward,
           \/ Switch /\ ch["main"] = "nl"
           \/ TabStore \/ ColumnStore \/ Wrap \/ RowStore
    PROVE  BlankInv'
<1> USE DEF ScreenInv, BlankInv
<1>0. /\ cpu = "main" /\ RowStart \in Nat /\ Position \in Nat /\ Position = posx + RowStart
  BY Positions
<1>1. UNCHANGED <<video, posy>> =>
          /\ RowStart' = RowStart /\ Position' = posx' + RowStart
          /\ BehindRow => BehindRow'
          /\ \A k \in Nat : BlankFrom(k) => (BlankFrom(k))'
  BY DEF RowStart, Position, BehindRow, BlankFrom
<1>2. CASE Switch /\ ch["main"] = "nl"
  <2>1. BehindPosition /\ posx <= T_COLUMNS
    BY <1>0, <1>2 DEF Switch
  <2>2. BehindRow
    BY <2>1, RowBehind
  <2> QED BY <1>0, <1>1, <1>2, <2>2 DEF Switch
<1>3. CASE TabStore
  <2>1. BehindPosition /\ posx <= T_COLUMNS /\ posx' >= posx /\ posx' \in Nat /\ posx \in Nat
    BY <1>0, <1>3 DEF TabStore
  <2>2. BehindRow
    BY <2>1, RowBehind
  <2>3. UNCHANGED <<video, posy>>
    BY <1>3 DEF TabStore
  <2>4. Position' + 1 \in Nat /\ Position + 1 <= Position' + 1
    <3>1. Position' = posx' + RowStart
      BY <1>1, <2>3
    <3>2. Position = posx + RowStart /\ RowStart \in Nat
      BY <1>0
    <3>3. \A a, b, c \in Nat : a <= b => b + c + 1 \in Nat /\ a + c + 1 <= b + c + 1
      OBVIOUS
    <3>4. (posx' + RowStart) + 1 \in Nat /\ (posx + RowStart) + 1 <= (posx' + RowStart) + 1
      BY <2>1, <3>2, <3>3
    <3> QED BY <3>1, <3>2, <3>4
  <2>5. BlankFrom(Position' + 1)
    BY <1>0, <2>1, <2>4, BlankMore DEF BehindPosition
  <2>6. BehindPosition'
    BY <2>3, <2>5 DEF BehindPosition, BlankFrom
  <2> QED BY <1>0, <1>1, <1>3, <2>2, <2>3, <2>6 DEF TabStore
<1>4. CASE ColumnStore
  <2>1. BehindPosition /\ posx <= T_COLUMNS /\ posx' = posx + 1
    BY <1>0, <1>4 DEF ColumnStore
  <2>2. BehindRow
    BY <2>1, RowBehind
  <2>3. UNCHANGED <<video, posy>>
    BY <1>4 DEF ColumnStore
  <2>4. Position' = Position + 1
    BY <1>0, <1>1, <2>1, <2>3
  <2>5. (BlankFrom(Position))'
    BY <2>1, <2>3, <2>4 DEF BehindPosition, BlankFrom
  <2> QED BY <1>0, <1>1, <1>4, <2>2, <2>3, <2>5 DEF ColumnStore
<1>5. CASE Wrap
  BY <1>0, <1>1, <1>5 DEF Wrap
<1>6. CASE RowStore
  <2>1. BehindRow /\ posx = 0 /\ posy' = posy + 1
    BY <1>0, <1>6 DEF RowStore
  <2>2. UNCHANGED <<video, posx>>
    BY <1>6 DEF RowStore
  <2>3. Position' = RowStart + T_COLUMNS
    <3>1. (posy + 1) * T_COLUMNS = (posy * T_COLUMNS) + T_COLUMNS
      BY Sizes
    <3> QED BY <2>1, <2>2, <3>1, Sizes DEF Position, RowStart
  <2>4. BehindPosition'
    BY <2>1, <2>2, <2>3 DEF BehindPosition, BehindRow, BlankFrom
  <2> QED BY <1>0, <1>6, <2>1, <2>4 DEF RowStore
<1> QED BY <1>2, <1>3, <1>4, <1>5, <1>6

(* The steps that write cells, and those behind them. *)
LEMMA BlankWritten ==
    ASSUME ScreenInv, BlankInv, forward,
           \/ Store \/ ScrollCells \/ ScrollY \/ ScrollX
           \/ Clear /\ UNCHANGED <<crtc, reg, call>>
    PROVE  BlankInv'
<1> USE DEF ScreenInv, BlankInv
<1>0. /\ cpu = "main" /\ RowStart \in Nat /\ Position \in Nat /\ Position = posx + RowStart
  BY Positions
<1>c. Console \subseteq Cells
  BY Sizes DEF Console, Cells
<1>1. CASE Store
  <2>1. UNCHANGED <<posx, posy>> /\ reg["main"] = Position /\ BehindPosition
    BY <1>0, <1>1 DEF Store
  <2>2. Position' = Position
    BY <2>1 DEF Position
  <2>3. \A i \in Console : i >= Position + 1 => video'[i] = Blank
    <3>1. ASSUME NEW i \in Console, i >= Position + 1 PROVE video'[i] = Blank
      <4>1. i \in Cells /\ i # reg["main"] /\ video[i] = Blank
        BY <1>0, <1>c, <2>1, <3>1, Sizes DEF BehindPosition, BlankFrom, Console
      <4> QED BY <1>0, <1>1, <4>1 DEF Store
    <3> QED BY <3>1
  <2>4. BehindPosition'
    BY <2>2, <2>3 DEF BehindPosition, BlankFrom
  <2> QED BY <1>0, <1>1, <2>1, <2>4 DEF Store
<1>2. CASE ScrollCells
  <2>1. video' = Scrolled
    BY <1>2 DEF ScrollCells
  <2>2. ASSUME NEW i \in Console, i >= (T_ROWS - 1) * T_COLUMNS PROVE video'[i] = Blank
    <3>1. (T_ROWS - 1) * T_COLUMNS = (T_COLUMNS * T_ROWS) - T_COLUMNS
      BY Sizes
    <3>2. i + T_COLUMNS \notin Console /\ i \in Cells
      BY <1>c, <2>2, <3>1, Sizes DEF Console
    <3> QED BY <2>1, <2>2, <3>2 DEF Scrolled
  <2>3. (BlankFrom((T_ROWS - 1) * T_COLUMNS))'
    BY <2>2 DEF BlankFrom
  <2> QED BY <1>0, <1>2, <2>3 DEF ScrollCells
<1>3. CASE ScrollY
  BY <1>0, <1>3 DEF ScrollY, BlankFrom
<1>4. CASE ScrollX
  <2>1. posx' = 0 /\ posy' = T_ROWS - 1 /\ video' = video /\ BlankFrom((T_ROWS - 1) * T_COLUMNS)
    BY <1>0, <1>4 DEF ScrollX
  <2>2. Position' = (T_ROWS - 1) * T_COLUMNS /\ (T_ROWS - 1) * T_COLUMNS \in Nat
    BY <2>1, Sizes DEF Position
  <2>3. BlankFrom(Position' + 1)
    BY <2>1, <2>2, BlankMore
  <2>4. BehindPosition'
    BY <2>1, <2>3 DEF BehindPosition, BlankFrom
  <2> QED BY <1>0, <1>4, <2>4 DEF ScrollX
<1>5. CASE Clear /\ UNCHANGED <<crtc, reg, call>>
  <2>1. CASE At("clear")
    <3>1. video' = [i \in Cells |-> IF i \in Console THEN Blank ELSE video[i]]
      BY <1>0, <1>5, <2>1 DEF Clear
    <3>2. (BlankFrom(0))'
      BY <1>c, <3>1 DEF BlankFrom
    <3> QED BY <1>0, <1>5, <2>1, <3>2 DEF Clear
  <2>2. CASE At("clear_x")
    BY <1>0, <1>5, <2>2 DEF Clear, BlankFrom
  <2>3. CASE At("clear_y")
    <3>1. Position' + 1 \in Nat
      BY <1>0, <1>5, <2>3, Sizes DEF Clear, Position
    <3>2. BlankFrom(0) /\ video' = video
      BY <1>0, <1>5, <2>3 DEF Clear
    <3>3. BlankFrom(Position' + 1)
      BY <3>1, <3>2, BlankMore
    <3>4. BehindPosition'
      BY <3>2, <3>3 DEF BehindPosition, BlankFrom
    <3> QED BY <1>0, <1>5, <2>3, <3>4 DEF Clear
  <2> QED BY <1>5, <2>1, <2>2, <2>3 DEF Clear
<1> QED BY <1>1, <1>2, <1>3, <1>4, <1>5

LEMMA BlankStep == ASSUME ScreenInv, Room, BlankInv, [Next]_vars PROVE BlankInv'
<1>1. CASE UNCHANGED vars
  BY <1>1 DEF vars, BlankInv, BehindPosition, BehindRow, BlankFrom, Position, RowStart
<1>2. ASSUME NEW c \in Chars, Putc(c) PROVE BlankInv'
  <2>1. UNCHANGED <<video, posx, posy>>
    BY <1>2 DEF Putc
  <2> QED BY <1>2, <2>1, BlankKept DEF Putc, BlankInv, ScreenInv
<1>3. ASSUME NEW t \in IrqTexts, Interrupt(t) PROVE BlankInv'
  BY <1>3 DEF Interrupt, BlankInv
<1>4. ASSUME ~forward, forward' = forward PROVE BlankInv'
  BY <1>4 DEF BlankInv
<1>5. CASE Switch \/ Tab \/ Put \/ Cursor \/ Return
  <2>a. Switch \/ Tab => forward' = forward
    BY DEF Switch, Tab, TabLoad, TabStore, TabTest
  <2>b. Put => forward' = forward
    BY DEF Put, Address, AttrAddress, LoadPosition, Store, AttrStore, ColumnLoad, ColumnStore,
           ColumnTest, Wrap, RowLoad, RowStore, RowTest
  <2>c. Cursor \/ Return => forward' = forward
    BY DEF Cursor, UpdateCursor, LoadPosition, Select, LowWrite, HighWrite, Return
  <2>1. forward' = forward
    BY <1>5, <2>a, <2>b, <2>c
  <2> QED BY <1>4, <1>5, <2>1, BlankStill, BlankMoved, BlankWritten DEF Tab, Put, Cursor
<1>6. CASE Scroll \/ (Clear /\ UNCHANGED <<crtc, reg, call>>)
  <2>1. forward' = forward
    BY <1>6 DEF Scroll, ScrollCells, ScrollY, ScrollX
  <2> QED BY <1>4, <1>6, <2>1, BlankWritten DEF Scroll
<1>7. CASE Back
  <2>1. forward' = forward /\ ~forward
    BY <1>7 DEF Back, BlankInv
  <2> QED BY <1>4, <2>1
<1> QED BY <1>1, <1>2, <1>3, <1>5, <1>6, <1>7 DEF Next

(* Whatever text goes forward over the screen, wraps and scrolls, nothing is *)
(* left behind the position of what was printed before.                     *)
THEOREM NothingBehind == Undisturbed /\ Room => (Spec => []BlankBeyond)
<1> SUFFICES ASSUME Undisturbed, Room PROVE Spec => []BlankBeyond
  OBVIOUS
<1>1. Init => BlankInv
  BY BlankInit
<1>2. ScreenInv /\ BlankInv /\ [Next]_vars => BlankInv'
  BY BlankStep
<1>3. ScreenInv /\ BlankInv => BlankBeyond
  <2> SUFFICES ASSUME ScreenInv, BlankInv, Idle, forward, NEW i \in Console, i > Position
               PROVE  video[i] = Blank
    BY DEF BlankBeyond
  <2>1. BehindPosition
    BY DEF Idle, BlankInv
  <2>2. i >= Position + 1
    BY Positions, Sizes DEF Console
  <2> QED BY <2>1, <2>2 DEF BehindPosition, BlankFrom
<1> QED BY <1>1, <1>2, <1>3, ScreenInvariant, PTL DEF Spec

-----------------------------------------------------------------------------
(* The other types: what is drawn is a character without a meaning of its    *)
(* own.                                                                     *)
Drawn ==
    \A t \in Threads :
        pc[t] \in {"address", "address_x", "address_y", "store"} /\ ~erasing[t] => ch[t] = "x"

OtherTypes ==
    /\ video \in [Cells -> {Blank, "x"}] /\ Drawn
    /\ cut \in BOOLEAN /\ forward \in BOOLEAN

LEMMA OtherTypesStep == ASSUME ScreenInv, OtherTypes, [Next]_vars PROVE OtherTypes'
<1> USE DEF OtherTypes, Drawn, ScreenInv
<1>1. CASE UNCHANGED vars
  BY <1>1 DEF vars
<1>2. ASSUME NEW c \in Chars, Putc(c) PROVE OtherTypes'
  <2>1. cut' \in BOOLEAN /\ forward' \in BOOLEAN
    BY ONLY <1>2, Zenon DEF Putc
  <2> QED BY <1>2, <2>1 DEF Putc
<1>3. ASSUME NEW t \in IrqTexts, Interrupt(t) PROVE OtherTypes'
  BY <1>3 DEF Interrupt
<1>4. CASE Switch
  BY <1>4 DEF Switch
<1>5. CASE Tab
  BY <1>5 DEF Tab, TabLoad, TabStore, TabTest
<1>6. CASE Back
  <2>1. /\ erasing' = [erasing EXCEPT ![cpu] = ~erasing[cpu]] /\ UNCHANGED <<video, ch, cut, forward>>
        /\ pc' = [pc EXCEPT ![cpu] = IF erasing[cpu] THEN "cursor" ELSE "address"]
    BY <1>6 DEF Back
  <2>2. pc'[cpu] = "address" => erasing'[cpu] = TRUE
    <3>1. pc'[cpu] = IF erasing[cpu] THEN "cursor" ELSE "address"
      BY <2>1
    <3>2. erasing'[cpu] = ~erasing[cpu] /\ erasing[cpu] \in BOOLEAN
      BY <2>1
    <3> QED BY <3>1, <3>2
  <2>3. pc'[cpu] \notin {"address_x", "address_y", "store"}
    BY <2>1
  <2>4. ASSUME NEW t \in Threads, t # cpu PROVE pc'[t] = pc[t] /\ erasing'[t] = erasing[t]
    BY <2>1, <2>4
  <2>5. Drawn'
    BY <2>1, <2>2, <2>3, <2>4
  <2> QED BY <2>1, <2>5
<1>7. CASE Store
  <2>1. Cell \in {Blank, "x"}
    BY <1>7 DEF Store, Cell
  <2>2. video' \in [Cells -> {Blank, "x"}]
    BY <1>7, <2>1 DEF Store
  <2> QED BY <1>7, <2>2 DEF Store
<1>8. CASE Address \/ AttrAddress
  BY <1>8 DEF Address, AttrAddress, LoadPosition
<1>8a. CASE AttrStore \/ ColumnLoad \/ ColumnStore \/ ColumnTest
  BY <1>8a DEF AttrStore, ColumnLoad, ColumnStore, ColumnTest
<1>9. CASE Wrap \/ RowLoad \/ RowStore \/ RowTest
  BY <1>9 DEF Wrap, RowLoad, RowStore, RowTest
<1>10. CASE Scroll
  <2>1. Scrolled \in [Cells -> {Blank, "x"}]
    <3>1. \A i \in Console : i + T_COLUMNS \in Console => i + T_COLUMNS \in Cells
      BY Sizes DEF Console, Cells
    <3> QED BY <3>1 DEF Scrolled
  <2> QED BY <1>10, <2>1 DEF Scroll, ScrollCells, ScrollY, ScrollX
<1>11. CASE Clear /\ UNCHANGED <<crtc, reg, call>>
  BY <1>11 DEF Clear
<1>12. CASE Cursor
  BY <1>12 DEF Cursor, UpdateCursor, LoadPosition, Select, LowWrite, HighWrite
<1>13. CASE Return
  BY <1>13 DEF Return
<1> QED BY <1>1, <1>2, <1>3, <1>4, <1>5, <1>6, <1>7, <1>8, <1>8a, <1>9, <1>10, <1>11, <1>12, <1>13
        DEF Next, Put

(* Type correctness of the console, for every size and every text.          *)
THEOREM TypeCorrect == Undisturbed /\ Room => (Spec => []TypeOK)
<1> SUFFICES ASSUME Undisturbed, Room PROVE Spec => []TypeOK
  OBVIOUS
<1>1. Init => OtherTypes /\ CrtcOK /\ CursorInv
  BY CursorInit DEF Init, OtherTypes, Drawn
<1>2. ScreenInv /\ OtherTypes /\ [Next]_vars => OtherTypes'
  BY OtherTypesStep
<1>3. ScreenInv /\ CrtcOK /\ CursorInv /\ [Next]_vars => CrtcOK' /\ CursorInv'
  BY CursorStep
<1>4. ScreenInv /\ OtherTypes /\ CrtcOK => TypeOK
  BY DEF ScreenInv, OtherTypes, CrtcOK, TypeOK
<1> QED BY <1>1, <1>2, <1>3, <1>4, ScreenInvariant, PTL DEF Spec

-----------------------------------------------------------------------------
(* From here on, the console: first what itoa_s makes of a number and strtol  *)
(* of what it made.  The digits, the least significant first, as itoa_last    *)
(* finds them.                                                              *)
Numerals(b) == {c \in (48..57) \cup (97..102) : isdigit(c, b)}

DigitChar(d) == IF d < 10 THEN ZERO + d ELSE 97 + d - 10

IsDigits(f, b) ==
    f = [n \in Nat |-> <<DigitChar(n % b)>> \o (IF n < b THEN <<>> ELSE f[n \div b])]

LEMMA DigitIs ==
    ASSUME NEW b \in {10, 16}, NEW n \in Nat
    PROVE  /\ n % b \in 0..(b - 1) /\ n \div b \in Nat
           /\ ~(n < b) => n \div b < n
           /\ DigitChar(n % b) \in Numerals(b)
           /\ Digit(DigitChar(n % b)) = n % b
<1>1. CASE b = 10
  BY <1>1 DEF DigitChar, Numerals, Digit, isdigit, ZERO
<1>2. CASE b = 16
  BY <1>2 DEF DigitChar, Numerals, Digit, isdigit, ZERO
<1> QED BY <1>1, <1>2

LEMMA DigitsExist ==
    ASSUME NEW b \in {10, 16}
    PROVE  \E f \in [Nat -> Seq(Numerals(b))] : IsDigits(f, b)
<1> DEFINE V == Seq(Numerals(b))
           c(n) == DigitChar(n % b)
           stops == 0..(b - 1)
           base == [n \in Nat |-> <<c(n)>>]
           step == [n \in Nat |-> [x \in V |-> <<c(n)>> \o x]]
           down == [n \in Nat |-> n \div b]
<1>1. \A n \in Nat : c(n) \in Numerals(b) /\ n \div b \in Nat /\ (~(n < b) => n \div b < n)
  BY DigitIs
<1> HIDE DEF c
<1>2. base \in [Nat -> V]
  BY <1>1
<1>3. step \in [Nat -> [V -> V]]
  <2>1. \A n \in Nat : \A x \in V : <<c(n)>> \o x \in V
    BY <1>1, ConcatProperties
  <2> HIDE DEF V
  <2> QED BY <2>1
<1>4. Falls(stops, down)
  <2>1. \A n \in Nat : n \notin stops => ~(n < b)
    OBVIOUS
  <2> QED BY <1>1, <2>1 DEF Falls
<1> HIDE DEF V
<1>5. PICK f : Descends(f, V, stops, base, step, down)
  <2> HIDE DEF stops, base, step, down
  <2> QED BY <1>2, <1>3, <1>4, NatRecursion
<1>6. f \in [Nat -> V]
  BY <1>5 DEF Descends
<1>7. ASSUME NEW n \in Nat PROVE f[n] = <<c(n)>> \o (IF n < b THEN <<>> ELSE f[n \div b])
  <2>1. f[n] = IF n \in stops THEN base[n] ELSE step[n][f[down[n]]]
    <3> HIDE DEF stops, base, step, down
    <3> QED BY <1>5 DEF Descends, Descent
  <2>2. n \in stops <=> n < b
    OBVIOUS
  <2>3. base[n] = <<c(n)>> /\ down[n] = n \div b
    OBVIOUS
  <2>4. ~(n < b) => f[n \div b] \in V
    BY <1>1, <1>6
  <2>5. \A x \in V : step[n][x] = <<c(n)>> \o x
    OBVIOUS
  <2>6. <<c(n)>> \o <<>> = <<c(n)>>
    BY <1>1, ConcatEmptySeq
  <2> HIDE DEF stops, base, step, down
  <2> QED BY <2>1, <2>2, <2>3, <2>4, <2>5, <2>6
<1>8. f = [n \in Nat |-> <<c(n)>> \o (IF n < b THEN <<>> ELSE f[n \div b])]
  BY <1>6, <1>7
<1>9. IsDigits(f, b)
  BY <1>8 DEF IsDigits, c
<1> QED BY <1>6, <1>9 DEF V

(* All solutions of the recursion are the same. *)
LEMMA DigitsSame ==
    ASSUME NEW b \in {10, 16}, NEW f, NEW g, IsDigits(f, b), IsDigits(g, b)
    PROVE  f = g
<1> DEFINE rest(h, n) == IF n < b THEN <<>> ELSE h[n \div b]
           Apart == {n \in Nat : f[n] # g[n]}
<1>1. f = [n \in Nat |-> <<DigitChar(n % b)>> \o rest(f, n)]
  BY DEF IsDigits
<1>2. g = [n \in Nat |-> <<DigitChar(n % b)>> \o rest(g, n)]
  BY DEF IsDigits
<1>3. \A n \in Nat : f[n] = <<DigitChar(n % b)>> \o rest(f, n)
  <2> HIDE DEF rest
  <2> QED BY <1>1
<1>4. \A n \in Nat : g[n] = <<DigitChar(n % b)>> \o rest(g, n)
  <2> HIDE DEF rest
  <2> QED BY <1>2
<1>5. Apart = {}
  <2> SUFFICES ASSUME Apart # {} PROVE FALSE
    OBVIOUS
  <2>1. PICK n \in Apart : \A m \in Apart : n <= m
    <3>1. Apart \in SUBSET Nat
      OBVIOUS
    <3> QED BY <3>1, Least
  <2>2. n \in Nat /\ f[n] # g[n]
    OBVIOUS
  <2>3. rest(f, n) = rest(g, n)
    <3>1. ~(n < b) => n \div b \in Nat /\ ~(n <= n \div b)
      BY <2>2, DigitIs
    <3>2. ~(n < b) => f[n \div b] = g[n \div b]
      BY <2>1, <3>1
    <3> QED BY <3>2
  <2> QED BY <1>3, <1>4, <2>2, <2>3
<1>6. \A n \in Nat : f[n] = g[n]
  BY <1>5
<1>7. f = [n \in Nat |-> f[n]] /\ g = [n \in Nat |-> g[n]]
  <2> HIDE DEF rest
  <2>1. f = [n \in Nat |-> f[n]]
    BY <1>1
  <2>2. g = [n \in Nat |-> g[n]]
    BY <1>2
  <2> QED BY <2>1, <2>2
<1> QED BY <1>6, <1>7

Digits(b) == CHOOSE f : IsDigits(f, b)

LEMMA DigitsAre ==
    ASSUME NEW b \in {10, 16}, NEW n \in Nat
    PROVE  /\ Digits(b)[n] \in Seq(Numerals(b)) /\ Len(Digits(b)[n]) >= 1
           /\ Digits(b)[n][1] = DigitChar(n % b)
           /\ n < b => Len(Digits(b)[n]) = 1
           /\ ~(n < b) =>
                /\ Len(Digits(b)[n]) = 1 + Len(Digits(b)[n \div b])
                /\ \A j \in 2..Len(Digits(b)[n]) : Digits(b)[n][j] = Digits(b)[n \div b][j - 1]
<1> DEFINE D == Digits(b)
           c == DigitChar(n % b)
           t == IF n < b THEN <<>> ELSE D[n \div b]
           w == <<c>>
<1>1. PICK f \in [Nat -> Seq(Numerals(b))] : IsDigits(f, b)
  BY DigitsExist
<1>2. IsDigits(D, b)
  BY <1>1, Zenon DEF Digits
<1> HIDE DEF D
<1>3. D = f
  BY <1>1, <1>2, DigitsSame
<1>4. \A m \in Nat : D[m] \in Seq(Numerals(b))
  BY <1>3
<1>5. D = [m \in Nat |-> <<DigitChar(m % b)>> \o (IF m < b THEN <<>> ELSE D[m \div b])]
  BY <1>2 DEF IsDigits
<1>6. D[n] = <<c>> \o t
  BY <1>5
<1>7. n \div b \in Nat /\ c \in Numerals(b)
  BY DigitIs
<1>8. t \in Seq(Numerals(b))
  BY <1>4, <1>7
<1>9. w \in Seq(Numerals(b)) /\ Len(w) = 1 /\ w[1] = c
  BY <1>7
<1> HIDE DEF c, t, w
<1>10. Len(t) \in Nat
  BY <1>8, LenProperties
<1>11. /\ D[n] \in Seq(Numerals(b)) /\ Len(D[n]) = 1 + Len(t)
       /\ \A j \in 1..(1 + Len(t)) : D[n][j] = IF j <= 1 THEN w[j] ELSE t[j - 1]
  <2>1. /\ w \o t \in Seq(Numerals(b)) /\ Len(w \o t) = Len(w) + Len(t)
        /\ \A j \in 1..(Len(w) + Len(t)) : (w \o t)[j] = IF j <= Len(w) THEN w[j] ELSE t[j - Len(w)]
    BY <1>8, <1>9, ConcatProperties
  <2>2. D[n] = w \o t
    BY <1>6 DEF w
  <2> QED BY <1>9, <2>1, <2>2
<1>12. D[n][1] = c /\ Len(D[n]) >= 1
  <2>1. 1 \in 1..(1 + Len(t)) /\ 1 + Len(t) >= 1
    BY <1>10
  <2>2. D[n][1] = IF 1 <= 1 THEN w[1] ELSE t[1 - 1]
    BY <1>11, <2>1
  <2>3. Len(D[n]) = 1 + Len(t)
    BY <1>11
  <2> QED BY ONLY <1>9, <2>1, <2>2, <2>3
<1>13. n < b => Len(D[n]) = 1
  <2>1. n < b => Len(t) = 0
    BY DEF t
  <2> QED BY <1>11, <2>1
<1>14. \A j \in 2..Len(D[n]) : D[n][j] = t[j - 1]
  BY <1>10, <1>11
<1>15. ~(n < b) => t = D[n \div b]
  BY SMTT(30) DEF t
<1> QED BY <1>11, <1>12, <1>13, <1>14, <1>15 DEF D, c

-----------------------------------------------------------------------------
(* One more digit, to the 16 bits that are kept. *)
Word16 == 0..65535
Shifted(v, b, c) == uint16_t(v * b + Digit(c))

LEMMA KeptType == ASSUME NEW n \in Nat PROVE uint16_t(n) \in Word16
BY DEF uint16_t, Word16

LEMMA ShiftedType ==
    ASSUME NEW b \in {10, 16}, NEW v \in Word16, NEW c
    PROVE  Shifted(v, b, c) \in Word16
<1> DEFINE a == v * b + Digit(c)
<1>1. a \in Nat
  <2>1. Digit(c) \in Nat
    BY DEF Digit
  <2>2. v \in Nat
    BY SMTT(30) DEF Word16
  <2>3. b = 10 \/ b = 16
    OBVIOUS
  <2>4. b = 10 => a \in Nat
    BY ONLY <2>1, <2>2
  <2>5. b = 16 => a \in Nat
    BY ONLY <2>1, <2>2
  <2> QED BY ONLY <2>3, <2>4, <2>5
<1> HIDE DEF a
<1>2. uint16_t(a) \in Word16
  BY <1>1, KeptType
<1> QED BY <1>2 DEF Shifted, a

(* A number is read back digit by digit. *)
Reads(val, s, i, e, b) ==
    /\ val \in [i..e -> Word16] /\ val[i] = 0
    /\ \A k \in (i + 1)..e : val[k] = Shifted(val[k - 1], b, s[k])

(* The digits t, the least significant first, stand in s up to the e-th place. *)
EndsWith(s, e, t) == Len(t) <= e /\ \A j \in 1..Len(t) : s[e + 1 - j] = t[j]

LEMMA SameRemainder ==
    ASSUME NEW a \in Nat, NEW z \in Nat, NEW n \in Nat, n = (65536 * z) + a
    PROVE  a % 65536 = n % 65536
OBVIOUS

LEMMA ShiftNext ==
    ASSUME NEW b \in {10, 16}, NEW n \in Nat
    PROVE  Shifted(uint16_t(n \div b), b, DigitChar(n % b)) = uint16_t(n)
<1> DEFINE x == n \div b
           r == n % b
           y == x \div 65536
           v == x % 65536
<1>1. x \in Nat /\ r \in 0..(b - 1) /\ n = (b * x) + r
  <2>1. b \in Nat \ {0}
    OBVIOUS
  <2> QED BY <2>1, DivMod
<1>2. Digit(DigitChar(r)) = r
  BY DigitIs
<1> HIDE DEF x, r
<1>3. v \in 0..65535 /\ y \in Nat /\ x = (65536 * y) + v
  BY ONLY SMTT(30), <1>1
<1> HIDE DEF v, y
<1>4. ((v * b) + r) % 65536 = n % 65536
  <2>1. CASE b = 10
    <3>1. (v * 10) + r \in Nat /\ 10 * y \in Nat /\ n = (65536 * (10 * y)) + ((v * 10) + r)
      BY ONLY SMTT(30), n \in Nat, <1>1, <1>3, <2>1
    <3>2. ((v * 10) + r) % 65536 = n % 65536
      BY ONLY n \in Nat, <3>1, SameRemainder
    <3> QED BY <2>1, <3>2
  <2>2. CASE b = 16
    <3>1. (v * 16) + r \in Nat /\ 16 * y \in Nat /\ n = (65536 * (16 * y)) + ((v * 16) + r)
      BY ONLY n \in Nat, <1>1, <1>3, <2>2
    <3>2. ((v * 16) + r) % 65536 = n % 65536
      BY ONLY n \in Nat, <3>1, SameRemainder
    <3> QED BY <2>2, <3>2
  <2> QED BY <2>1, <2>2
<1>5. uint16_t(x) = v /\ uint16_t(n) = n % 65536
  BY DEF uint16_t, v
<1>6. Shifted(v, b, DigitChar(r)) = ((v * b) + r) % 65536
  BY ONLY <1>2 DEF Shifted, uint16_t
<1> QED BY <1>4, <1>5, <1>6 DEF x, r

ReadBack(val, s, m, b) ==
    \A n \in Nat, e \in 0..m :
        EndsWith(s, e, Digits(b)[n]) /\ val[e - Len(Digits(b)[n])] = 0 => val[e] = uint16_t(n)

LEMMA DigitsRead ==
    ASSUME NEW b \in {10, 16}, NEW s, NEW m \in Nat, NEW val, Reads(val, s, 0, m, b)
    PROVE  ReadBack(val, s, m, b)
<1> DEFINE D == Digits(b)
           Good(n, e) == EndsWith(s, e, D[n]) /\ val[e - Len(D[n])] = 0 => val[e] = uint16_t(n)
           Bad == {n \in Nat : \E e \in 0..m : ~Good(n, e)}
<1> SUFFICES ASSUME Bad # {} PROVE FALSE
  BY DEF ReadBack
<1>1. PICK n \in Bad : \A k \in Bad : n <= k
  <2>1. Bad \in SUBSET Nat
    OBVIOUS
  <2> HIDE DEF Bad
  <2> QED BY <2>1, Least
<1>2. n \in Nat
  OBVIOUS
<1>3. PICK e \in 0..m : ~Good(n, e)
  OBVIOUS
<1>0. \A k \in Nat : k \notin Bad => \A a \in 0..m : Good(k, a)
  OBVIOUS
<1> DEFINE L == Len(D[n])
           q == n \div b
           r == n % b
<1> HIDE DEF Bad
<1>5. q \in Nat /\ (~(n < b) => ~(n <= q)) /\ Digit(DigitChar(r)) = r /\ r \in 0..(b - 1)
  BY <1>2, DigitIs
<1>4. /\ D[n] \in Seq(Numerals(b)) /\ L >= 1
      /\ D[n][1] = DigitChar(r)
      /\ n < b => L = 1
      /\ ~(n < b) => L = 1 + Len(D[q]) /\ \A j \in 2..L : D[n][j] = D[q][j - 1]
  <2> HIDE DEF Good
  <2> QED BY <1>2, DigitsAre
<1>6. L <= e /\ (\A j \in 1..L : s[e + 1 - j] = D[n][j]) /\ val[e - L] = 0 /\ val[e] # uint16_t(n)
  BY <1>3 DEF EndsWith
<1>7. D[q] \in Seq(Numerals(b))
  <2> HIDE DEF Good, q
  <2> QED BY <1>5, DigitsAre
<1>12. Shifted(uint16_t(q), b, DigitChar(r)) = uint16_t(n)
  <2>1. Shifted(uint16_t(n \div b), b, DigitChar(n % b)) = uint16_t(n)
    BY ONLY <1>2, b \in {10, 16}, ShiftNext
  <2> HIDE DEF Good
  <2> QED BY <2>1
<1>13. n < b => q = 0
  <2>1. CASE b = 10
    BY <1>2, <2>1
  <2>2. CASE b = 16
    BY <1>2, <2>2
  <2> QED BY <2>1, <2>2
<1>14. q \notin Bad /\ e - 1 \in 0..m =>
           (EndsWith(s, e - 1, D[q]) /\ val[(e - 1) - Len(D[q])] = 0 => val[e - 1] = uint16_t(q))
  <2>1. q \notin Bad /\ e - 1 \in 0..m => Good(q, e - 1)
    <3> HIDE DEF Good, q
    <3> QED BY <1>0, <1>5
  <2> QED BY <2>1
<1>15. L \in Nat /\ Len(D[q]) \in Nat
  BY <1>4, <1>7, LenProperties
<1> HIDE DEF Good, D, L, q, r
<1>8. e \in 1..m /\ e - 1 \in 0..m /\ 1 \in 1..L /\ (e + 1) - 1 = e
  BY <1>3, <1>4, <1>6, <1>15
<1>9. s[e] = DigitChar(r)
  <2>1. s[e + 1 - 1] = D[n][1]
    BY <1>6, <1>8
  <2> QED BY <1>4, <1>8, <2>1
<1>10. val[e] = Shifted(val[e - 1], b, DigitChar(r))
  <2>1. e \in (0 + 1)..m
    BY <1>8
  <2>2. \A k \in (0 + 1)..m : val[k] = Shifted(val[k - 1], b, s[k])
    BY DEF Reads
  <2>3. val[e] = Shifted(val[e - 1], b, s[e])
    BY ONLY <2>1, <2>2
  <2> QED BY <1>9, <2>3
<1>11. val[e - 1] = uint16_t(q)
  <2>1. CASE n < b
    <3>1. q = 0 /\ uint16_t(q) = 0
      BY <1>13, <2>1 DEF uint16_t
    <3>2. e - L = e - 1
      BY <1>4, <2>1
    <3> QED BY <1>6, <3>1, <3>2
  <2>2. CASE ~(n < b)
    <3>1. L = 1 + Len(D[q]) /\ Len(D[q]) \in Nat /\ \A j \in 2..L : D[n][j] = D[q][j - 1]
      BY <1>4, <1>15, <2>2
    <3>2. q \notin Bad
      BY <1>1, <1>5, <2>2
    <3>4. EndsWith(s, e - 1, D[q])
      <4> SUFFICES ASSUME NEW j \in 1..Len(D[q]) PROVE s[(e - 1) + 1 - j] = D[q][j]
        BY <1>3, <1>6, <3>1 DEF EndsWith
      <4>1. j + 1 \in 1..L /\ j + 1 \in 2..L /\ (e - 1) + 1 - j = e + 1 - (j + 1) /\ (j + 1) - 1 = j
        BY <1>3, <3>1
      <4>2. s[e + 1 - (j + 1)] = D[n][j + 1]
        BY <1>6, <4>1
      <4>3. D[n][j + 1] = D[q][(j + 1) - 1]
        BY <3>1, <4>1
      <4> QED BY <4>1, <4>2, <4>3
    <3>5. e - L = (e - 1) - Len(D[q])
      BY <1>3, <1>4, <3>1
    <3>6. val[(e - 1) - Len(D[q])] = 0
      BY <1>6, <3>5
    <3> QED BY <1>8, <1>14, <3>2, <3>4, <3>6
  <2> QED BY <2>1, <2>2
<1> QED BY <1>6, <1>10, <1>11, <1>12

(* Of the numbers that a set has from i to n there is a first one. *)
LEMMA FirstOne ==
    ASSUME NEW i \in Nat, NEW n \in Nat, i <= n, NEW S, n \in S
    PROVE  \E k \in i..n : k \in S /\ \A j \in i..(k - 1) : j \notin S
<1> DEFINE T == {k \in i..n : k \in S}
<1>1. T \in SUBSET Nat /\ T # {}
  OBVIOUS
<1>2. PICK k \in T : \A j \in T : k <= j
  BY <1>1, Least
<1>3. \A j \in i..(k - 1) : j \in i..n /\ ~(k <= j)
  BY <1>2
<1> QED BY <1>2, <1>3

(* strtol stops at the first character that is no digit, and reads those      *)
(* before it.                                                               *)
Stopped(s, i, e, b) ==
    /\ e \in i..Len(s)
    /\ e = Len(s) \/ ~isdigit(s[e + 1], b)
    /\ \A j \in i..(e - 1) : j # Len(s) /\ isdigit(s[j + 1], b)

LEMMA StrtolIs ==
    ASSUME NEW b \in {10, 16}, NEW s, NEW V, s \in Seq(V), NEW i \in 0..Len(s)
    PROVE  \E e, val : /\ Stopped(s, i, e, b) /\ Reads(val, s, i, e, b)
                       /\ strtol(s, i, b) = [value |-> val[e], rest |-> e]
<1> DEFINE n == Len(s)
           P(k) == k = n \/ ~isdigit(s[k + 1], b)
           e == CHOOSE k \in i..n : P(k) /\ \A j \in i..(k - 1) : ~P(j)
           Fits(h) == h = [k \in i..e |-> IF k = i THEN 0 ELSE Shifted(h[k - 1], b, s[k])]
           val == CHOOSE h : Fits(h)
<1>1. strtol(s, i, b) = [value |-> val[e], rest |-> e]
  BY DEF strtol, FirstFrom, Shifted, uint16_t
<1>2. n \in Nat /\ i \in Nat /\ i <= n
  BY LenProperties
<1> HIDE DEF P, n
<1>3. e \in i..n /\ P(e) /\ \A j \in i..(e - 1) : ~P(j)
  <2> DEFINE S == {k \in i..n : P(k)}
  <2>1. n \in S
    BY <1>2 DEF P
  <2> HIDE DEF S
  <2>2. PICK k \in i..n : k \in S /\ \A j \in i..(k - 1) : j \notin S
    BY <1>2, <2>1, FirstOne
  <2>3. P(k) /\ \A j \in i..(k - 1) : ~P(j)
    <3>1. \A j \in i..(k - 1) : j \in i..n
      BY <1>2
    <3> QED BY <2>2, <3>1 DEF S
  <2> QED BY <2>3
<1> HIDE DEF e, val, Fits
<1>4. Stopped(s, i, e, b)
  BY <1>3 DEF Stopped, P, n
<1>5. \E h : Fits(h)
  <2> DEFINE W == Word16
             m == e - i
             step == [k \in 1..m |-> [v \in W |-> Shifted(v, b, s[i + k])]]
  <2>1. m \in Nat /\ 0 \in W
    BY <1>2, <1>3 DEF Word16
  <2> HIDE DEF m
  <2>2. StepsOn(step, m, W)
    <3>1. \A k \in 1..m : \A v \in W : Shifted(v, b, s[i + k]) \in W
      <4> SUFFICES ASSUME NEW k \in 1..m, NEW v \in W PROVE Shifted(v, b, s[i + k]) \in W
        OBVIOUS
      <4> QED BY ShiftedType
    <3> HIDE DEF W
    <3> QED BY <3>1 DEF StepsOn
  <2>3. PICK f : Iterates(f, m, W, 0, step)
    <3> HIDE DEF W, step
    <3> QED BY <2>1, <2>2, Recursion
  <2>4. f \in [0..m -> W] /\ f[0] = 0 /\ \A k \in 1..m : f[k] = Shifted(f[k - 1], b, s[i + k])
    <3> HIDE DEF W
    <3>1. f \in [0..m -> W] /\ f[0] = 0 /\ \A k \in 1..m : f[k] = step[k][f[k - 1]]
      <4> HIDE DEF step
      <4> QED BY <2>3 DEF Iterates
    <3>2. ASSUME NEW k \in 1..m PROVE f[k] = Shifted(f[k - 1], b, s[i + k])
      <4>1. k - 1 \in 0..m
        BY <2>1
      <4>2. f[k - 1] \in W
        BY <3>1, <4>1
      <4>3. f[k] = step[k][f[k - 1]]
        BY <3>1
      <4>4. \A v \in W : step[k][v] = Shifted(v, b, s[i + k])
        OBVIOUS
      <4> HIDE DEF step
      <4> QED BY <4>2, <4>3, <4>4
    <3> QED BY <3>1, <3>2
  <2> HIDE DEF W, step
  <2> DEFINE h == [k \in i..e |-> f[k - i]]
  <2>5. \A k \in i..e : h[k] = f[k - i]
    OBVIOUS
  <2>6. h = [k \in i..e |-> h[k]]
    OBVIOUS
  <2> HIDE DEF h
  <2>7. ASSUME NEW k \in i..e
        PROVE  h[k] = IF k = i THEN 0 ELSE Shifted(h[k - 1], b, s[k])
    <3>1. CASE k = i
      <4>1. h[k] = f[k - i] /\ k - i = 0
        BY <1>2, <2>5, <3>1
      <4> QED BY <2>4, <3>1, <4>1
    <3>2. CASE k # i
      <4>1. k - i \in 1..m /\ k - 1 \in i..e /\ (k - 1) - i = (k - i) - 1 /\ i + (k - i) = k
        BY <1>2, <1>3, <3>2 DEF m
      <4>2. h[k] = f[k - i] /\ h[k - 1] = f[(k - i) - 1]
        BY <2>5, <4>1
      <4>3. f[k - i] = Shifted(f[(k - i) - 1], b, s[i + (k - i)])
        BY <2>4, <4>1
      <4> QED BY <3>2, <4>1, <4>2, <4>3
    <3> QED BY <3>1, <3>2
  <2> DEFINE E(k) == IF k = i THEN 0 ELSE Shifted(h[k - 1], b, s[k])
  <2>8. \A k \in i..e : h[k] = E(k)
    BY <2>7
  <2> HIDE DEF E
  <2>9. h = [k \in i..e |-> E(k)]
    BY <2>6, <2>8
  <2> QED BY <2>9 DEF Fits, E
<1>6. Fits(val)
  BY <1>5, Zenon DEF val
<1> DEFINE E(k) == IF k = i THEN 0 ELSE Shifted(val[k - 1], b, s[k])
<1>7. val = [k \in i..e |-> E(k)]
  BY <1>6 DEF Fits
<1> HIDE DEF E
<1>11. \A k \in i..e : val[k] = E(k)
  BY <1>7
<1>8. val[i] = 0 /\ \A k \in (i + 1)..e : val[k] = Shifted(val[k - 1], b, s[k])
  <2>1. i \in i..e
    BY <1>2, <1>3
  <2>2. \A k \in (i + 1)..e : k \in i..e /\ k # i
    BY <1>2, <1>3
  <2>3. E(i) = 0 /\ \A k \in (i + 1)..e : E(k) = Shifted(val[k - 1], b, s[k])
    BY <2>2 DEF E
  <2> QED BY <1>11, <2>1, <2>2, <2>3
<1>9. \A k \in i..e : val[k] \in Word16
  <2> DEFINE T == {k \in Nat : i + k <= e => val[i + k] \in Word16}
  <2>1. 0 \in T
    <3>1. i + 0 = i /\ val[i] \in Word16
      BY <1>2, <1>8 DEF Word16
    <3> QED BY <3>1
  <2>2. ASSUME NEW k \in Nat, k \in T PROVE k + 1 \in T
    <3> SUFFICES ASSUME i + (k + 1) <= e PROVE val[i + (k + 1)] \in Word16
      OBVIOUS
    <3> DEFINE a == i + (k + 1)
    <3>1. a \in (i + 1)..e /\ a - 1 = i + k /\ i + k <= e
      BY <1>2, <1>3
    <3>2. val[i + k] \in Word16
      BY <2>2, <3>1
    <3>3. val[a] = Shifted(val[a - 1], b, s[a])
      BY <1>8, <3>1
    <3> HIDE DEF a
    <3>4. val[a] \in Word16
      BY <3>1, <3>2, <3>3, ShiftedType
    <3> QED BY <3>4 DEF a
  <2>3. \A k \in Nat : k \in T
    <3> HIDE DEF T
    <3> QED BY <2>1, <2>2, Induction
  <2> SUFFICES ASSUME NEW k \in i..e PROVE val[k] \in Word16
    OBVIOUS
  <2>4. k - i \in Nat /\ i + (k - i) = k /\ k <= e
    BY <1>2, <1>3
  <2>5. \A a \in Nat : i + a <= e => val[i + a] \in Word16
    BY <2>3
  <2> HIDE DEF T
  <2> QED BY <2>4, <2>5
<1>10. Reads(val, s, i, e, b)
  <2>1. val = [k \in i..e |-> val[k]]
    BY <1>7, <1>11
  <2>2. val \in [i..e -> Word16]
    BY <1>9, <2>1
  <2> QED BY <1>8, <2>2 DEF Reads
<1> QED BY <1>1, <1>4, <1>10

-----------------------------------------------------------------------------
(* What itoa_s prints. *)
Printed == {MINUS, NUL} \cup (48..57) \cup (97..102)

LEMMA ModType == ASSUME NEW a \in Int, NEW n \in Nat \ {0} PROVE a % n \in Nat
OBVIOUS

LEMMA ItoaLast ==
    ASSUME NEW b \in {10, 16}, NEW value \in Int
    PROVE  /\ itoa_last(value, b) \in Seq(Printed)
           /\ value >= 0 \/ b = 16 => itoa_last(value, b) = Digits(b)[value % ULONG]
           /\ value % ULONG \in Nat
<1> DEFINE D == Digits(b)
           negative == b = 10 /\ value < 0
           n == value % ULONG
           k == (-value) % ULONG
<1>1. itoa_last(value, b) = IF negative THEN <<MINUS>> \o D[k] ELSE D[n]
  BY DEF itoa_last, Digits, IsDigits, DigitChar
<1>2. n \in Nat /\ k \in Nat
  BY WidthAssumption, ModType
<1>3. negative <=> ~(value >= 0 \/ b = 16)
  OBVIOUS
<1> HIDE DEF negative, n, k
<1>4. \A m \in Nat : D[m] \in Seq(Printed)
  <2> SUFFICES ASSUME NEW m \in Nat PROVE D[m] \in Seq(Printed)
    OBVIOUS
  <2>1. D[m] \in Seq(Numerals(b))
    BY DigitsAre
  <2>2. Numerals(b) \in SUBSET Printed
    BY DEF Numerals, Printed
  <2> QED BY <2>1, <2>2, SeqOfMore
<1>5. <<MINUS>> \in Seq(Printed)
  BY DEF Printed
<1> HIDE DEF D
<1>6. <<MINUS>> \o D[k] \in Seq(Printed)
  BY <1>2, <1>4, <1>5, ConcatProperties
<1> QED BY <1>1, <1>2, <1>3, <1>4, <1>6 DEF D, n

LEMMA ReversedIs ==
    ASSUME NEW V, NEW s \in Seq(V)
    PROVE  LET t == [k \in 1..Len(s) |-> s[Len(s) + 1 - k]]
           IN  /\ t \in Seq(V) /\ Len(t) = Len(s)
               /\ \A j \in 1..Len(s) : t[Len(s) + 1 - j] = s[j]
               /\ \A j \in 1..Len(s) : t[j] = s[Len(s) + 1 - j]
<1> DEFINE n == Len(s)
           t == [k \in 1..n |-> s[n + 1 - k]]
<1>1. n \in Nat /\ \A k \in 1..n : s[k] \in V
  BY LenProperties, ElementOfSeq
<1> HIDE DEF n
<1>2. \A k \in 1..n : n + 1 - k \in 1..n /\ n + 1 - (n + 1 - k) = k
  BY <1>1
<1>3. t \in [1..n -> V]
  BY <1>1, <1>2
<1>4. t \in Seq(V) /\ Len(t) = n
  BY <1>1, <1>3, SeqDef
<1>5. \A j \in 1..n : t[j] = s[n + 1 - j]
  OBVIOUS
<1> HIDE DEF t
<1>6. \A j \in 1..n : t[n + 1 - j] = s[j]
  BY <1>2, <1>5
<1> QED BY <1>4, <1>5, <1>6 DEF n, t

(* The padding and the digits of a number, its most significant digit first. *)
Prints(s, last, m, pad) ==
    /\ s \in Seq(Printed) /\ m \in Nat /\ Len(s) = Len(last) + m
    /\ \A j \in 1..Len(last) : s[Len(s) + 1 - j] = last[j]
    /\ \A k \in 1..m : s[k] = pad

Fill(last, w) == IF w > Len(last) THEN w - Len(last) ELSE 0

LEMMA ItoaIs ==
    ASSUME NEW b \in {10, 16}, NEW value \in Int, NEW pad \in {NUL, ZERO}, NEW w \in Nat
    PROVE  Prints(itoa_s(value, b, pad, w), itoa_last(value, b), Fill(itoa_last(value, b), w), pad)
<1> DEFINE last == itoa_last(value, b)
           L == Len(last)
           m == IF w > L THEN w - L ELSE 0
           fill == [k \in 1..m |-> pad]
           all == last \o fill
           n == Len(all)
           s == [k \in 1..n |-> all[n + 1 - k]]
<1>1. itoa_s(value, b, pad, w) = s
  BY DEF itoa_s, Padded
<1>2. last \in Seq(Printed)
  BY ItoaLast
<1> HIDE DEF last
<1>3. L \in Nat /\ m \in Nat
  BY <1>2, LenProperties
<1> HIDE DEF L, m
<1>4. pad \in Printed
  BY DEF Printed, ZERO
<1>5. fill \in Seq(Printed) /\ Len(fill) = m /\ \A k \in 1..m : fill[k] = pad
  <2>1. fill \in [1..m -> Printed]
    BY <1>4
  <2>2. \A k \in 1..m : fill[k] = pad
    OBVIOUS
  <2> HIDE DEF fill
  <2> QED BY <1>3, <2>1, <2>2, SeqDef
<1> HIDE DEF fill
<1>6. /\ all \in Seq(Printed) /\ n = L + m
      /\ \A k \in 1..(L + m) : all[k] = IF k <= L THEN last[k] ELSE fill[k - L]
  BY <1>2, <1>5, ConcatProperties DEF L
<1> HIDE DEF all
<1>7. /\ s \in Seq(Printed) /\ Len(s) = n
      /\ \A j \in 1..n : s[n + 1 - j] = all[j]
      /\ \A j \in 1..n : s[j] = all[n + 1 - j]
  BY <1>6, ReversedIs
<1> HIDE DEF s, n
<1>8. \A j \in 1..L : s[Len(s) + 1 - j] = last[j]
  BY <1>3, <1>6, <1>7
<1>9. ASSUME NEW k \in 1..m PROVE s[k] = pad
  <2>1. k \in 1..n /\ n + 1 - k \in 1..(L + m) /\ ~(n + 1 - k <= L) /\ (n + 1 - k) - L \in 1..m
    BY <1>3, <1>6
  <2> QED BY <1>5, <1>6, <1>7, <2>1
<1> QED BY <1>1, <1>3, <1>6, <1>7, <1>8, <1>9 DEF last, L, m, Prints, Fill

LEMMA NumberRead ==
    ASSUME NEW b \in {10, 16}, NEW value \in Int, NEW pad \in {NUL, ZERO}, NEW w \in Nat,
           pad = NUL => w = 0, value >= 0 \/ b = 16
    PROVE  LET s == itoa_s(value, b, pad, w)
           IN  strtol(s, 0, b) = [value |-> uint16_t(value % ULONG), rest |-> Len(s)]
<1> DEFINE s == itoa_s(value, b, pad, w)
           n == value % ULONG
           D == Digits(b)[n]
           L == Len(D)
           m == Fill(D, w)
<1>1. n \in Nat /\ itoa_last(value, b) = D
  BY ItoaLast
<1>2. /\ s \in Seq(Printed) /\ m \in Nat /\ Len(s) = L + m
      /\ \A j \in 1..L : s[Len(s) + 1 - j] = D[j]
      /\ \A k \in 1..m : s[k] = pad
  <2>1. Prints(s, itoa_last(value, b), Fill(itoa_last(value, b), w), pad)
    BY ItoaIs
  <2>2. Prints(s, D, m, pad)
    BY <1>1, <2>1
  <2> QED BY <2>2 DEF Prints
<1>3. D \in Seq(Numerals(b)) /\ L \in Nat
  <2> HIDE DEF n
  <2> QED BY <1>1, DigitsAre, LenProperties
<1>4. m > 0 => pad = ZERO
  BY <1>3 DEF Fill
<1> HIDE DEF s, n, D, m, L
<1>5. PICK e, val : /\ Stopped(s, 0, e, b) /\ Reads(val, s, 0, e, b)
                    /\ strtol(s, 0, b) = [value |-> val[e], rest |-> e]
  <2>1. 0 \in 0..Len(s)
    BY <1>2, <1>3
  <2> QED BY <1>2, <2>1, StrtolIs
<1>6. isdigit(ZERO, b) /\ Digit(ZERO) = 0
  BY DEF isdigit, Digit, ZERO
<1>7. \A k \in 1..Len(s) : isdigit(s[k], b)
  <2> SUFFICES ASSUME NEW k \in 1..Len(s) PROVE isdigit(s[k], b)
    OBVIOUS
  <2>1. CASE k <= m
    <3>1. k \in 1..m /\ m > 0
      BY <1>2, <2>1
    <3> QED BY <1>2, <1>4, <1>6, <3>1
  <2>2. CASE ~(k <= m)
    <3>1. Len(s) + 1 - k \in 1..L /\ Len(s) + 1 - (Len(s) + 1 - k) = k
      BY <1>2, <1>3, <2>2
    <3>2. s[k] = D[Len(s) + 1 - k]
      BY <1>2, <3>1
    <3>3. D[Len(s) + 1 - k] \in Numerals(b)
      BY <1>3, <3>1, ElementOfSeq DEF L
    <3> QED BY <3>2, <3>3 DEF Numerals
  <2> QED BY <2>1, <2>2
<1>8. e = Len(s)
  <2>1. e \in 0..Len(s) /\ (e = Len(s) \/ ~isdigit(s[e + 1], b))
    BY <1>5 DEF Stopped
  <2>2. e # Len(s) => e + 1 \in 1..Len(s)
    BY <1>2, <1>3, <2>1
  <2> QED BY <1>7, <2>1, <2>2
<1>9. e \in Nat /\ m \in 0..e /\ L <= e /\ e - L = m
  BY <1>2, <1>3, <1>8
<1>10. val[0] = 0 /\ \A k \in 1..e : val[k] = Shifted(val[k - 1], b, s[k])
  BY <1>5 DEF Reads
<1>11. val[m] = 0
  <2> DEFINE T == {k \in Nat : k <= m => val[k] = 0}
  <2>1. 0 \in T
    BY <1>10
  <2>2. ASSUME NEW k \in Nat, k \in T PROVE k + 1 \in T
    <3> SUFFICES ASSUME k + 1 <= m PROVE val[k + 1] = 0
      OBVIOUS
    <3>1. k + 1 \in 1..e /\ (k + 1) - 1 = k /\ k <= m /\ k + 1 \in 1..m /\ m > 0
      BY <1>9
    <3>2. val[k + 1] = Shifted(val[(k + 1) - 1], b, s[k + 1])
      BY <1>10, <3>1
    <3>3. val[k] = 0 /\ s[k + 1] = ZERO
      BY <1>2, <1>4, <2>2, <3>1
    <3>4. Shifted(0, b, ZERO) = 0
      <4>1. 0 * b + 0 = 0
        OBVIOUS
      <4> QED BY <1>6, <4>1 DEF Shifted, uint16_t
    <3> QED BY <3>1, <3>2, <3>3, <3>4
  <2>3. \A k \in Nat : k \in T
    <3> HIDE DEF T
    <3> QED BY <2>1, <2>2, Induction
  <2>4. m \in Nat /\ m <= m
    BY <1>2
  <2> QED BY <2>3, <2>4
<1>12. EndsWith(s, e, D)
  BY <1>2, <1>8, <1>9 DEF EndsWith, L
<1>13. val[e] = uint16_t(n)
  <2>1. e \in 0..e /\ val[e - Len(D)] = 0
    BY <1>9, <1>11 DEF L
  <2>2. ReadBack(val, s, e, b)
    BY <1>5, <1>9, DigitsRead
  <2> QED BY <1>1, <1>9, <1>12, <2>1, <2>2 DEF D, ReadBack
<1> QED BY <1>5, <1>8, <1>13 DEF s, n

LEMMA TextOfText ==
    ASSUME NEW t \in TextPiece PROVE Text(t) = Append(t.text, t.behind)
<1>1. "text" \in DOMAIN t
  BY DEF TextPiece
<1> QED BY <1>1 DEF Text

LEMMA TextOfNumber ==
    ASSUME NEW n \in NumberPiece
    PROVE  Text(n) = Append(itoa_s(n.value, n.base, n.pad, n.w), NUL) /\ "value" \in DOMAIN n
<1>1. DOMAIN n = {"value", "base", "pad", "w"}
  BY DEF NumberPiece
<1> QED BY <1>1 DEF Text

LEMMA TextHasNoValue ==
    ASSUME NEW t \in TextPiece PROVE "value" \notin DOMAIN t
BY DEF TextPiece

LEMMA FrontOfAppend ==
    ASSUME NEW V, NEW s \in Seq(V), NEW c \in V
    PROVE  /\ Len(Append(s, c)) = Len(s) + 1
           /\ Front(Append(s, c)) = s
<1>1. Append(s, c) \in Seq(V) /\ Len(Append(s, c)) = Len(s) + 1 /\ Len(s) \in Nat
  BY AppendProperties, LenProperties
<1>2. SubSeq(Append(s, c), 1, Len(s)) = s
  OBVIOUS
<1> QED BY <1>1, <1>2 DEF Front

(* A piece has characters, and is followed by one that ends it. *)
Ending == {NUL, PERCENT}

LEMMA PrintedChars == Printed \in SUBSET Char /\ Ending \in SUBSET Char
BY DEF Printed, Ending, Char, MINUS, NUL, PERCENT

LEMMA TextType ==
    ASSUME NEW t \in Piece
    PROVE  /\ Text(t) \in Seq(Char) /\ Len(Text(t)) \in Nat \ {0}
           /\ Text(t)[Len(Text(t))] \in Ending
           /\ Front(Text(t)) \in Seq(Char)
<1>1. ASSUME NEW s \in Seq(Char), NEW c \in Ending, Text(t) = Append(s, c)
      PROVE  /\ Text(t) \in Seq(Char) /\ Len(Text(t)) \in Nat \ {0}
             /\ Text(t)[Len(Text(t))] \in Ending
             /\ Front(Text(t)) \in Seq(Char)
  <2>1. c \in Char
    BY PrintedChars
  <2>2. Len(s) \in Nat
    BY LenProperties
  <2>3. /\ Append(s, c) \in Seq(Char) /\ Len(Append(s, c)) = Len(s) + 1
        /\ Append(s, c)[Len(s) + 1] = c
    BY <2>1, AppendProperties
  <2>4. Front(Append(s, c)) = s
    BY <2>1, FrontOfAppend
  <2> QED BY <1>1, <2>2, <2>3, <2>4
<1>2. CASE t \in TextPiece
  <2>1. t.text \in Seq(Char) /\ t.behind \in Ending
    BY <1>2 DEF TextPiece, Ending
  <2> QED BY <1>1, <1>2, <2>1, TextOfText
<1>3. CASE t \in NumberPiece
  <2> DEFINE s == itoa_s(t.value, t.base, t.pad, t.w)
  <2>1. t.value \in Int /\ t.base \in {10, 16} /\ t.pad \in {NUL, ZERO} /\ t.w \in Nat
    BY <1>3 DEF NumberPiece
  <2>2. s \in Seq(Printed)
    BY <2>1, ItoaIs DEF Prints
  <2>3. s \in Seq(Char) /\ NUL \in Ending
    <3> HIDE DEF s
    <3> QED BY <2>2, PrintedChars, SeqOfMore DEF Ending
  <2>4. Text(t) = Append(s, NUL)
    BY <1>3, TextOfNumber
  <2> HIDE DEF s
  <2> QED BY <1>1, <2>3, <2>4
<1> QED BY <1>2, <1>3 DEF Piece

(* The pieces log adds. *)
LEMMA SequencePiece ==
    ASSUME NEW s, s \in Seq(48..59) PROVE Sequence(s) \in TextPiece
<1>1. s \in Seq(Char)
  <2>1. 48..59 \in SUBSET Char
    BY DEF Char
  <2> QED BY <2>1, SeqOfMore
<1>2. <<ESC, BRACKET>> \in Seq(Char) /\ <<109>> \in Seq(Char)
  BY DEF ESC, BRACKET, Char
<1>3. <<ESC, BRACKET>> \o s \o <<109>> \in Seq(Char)
  BY <1>1, <1>2, ConcatProperties
<1> QED BY <1>3 DEF Sequence, TextPiece

LEMMA LevelPieces ==
    /\ Reset \in Piece /\ Newline \in Piece
    /\ \A l \in Levels : LevelPiece(l) \in Piece
<1>1. <<>> \in Seq(48..59)
  OBVIOUS
<1>2. Reset \in Piece
  BY <1>1, SequencePiece DEF Reset, Piece
<1>3. ASSUME NEW l \in Levels PROVE LevelPiece(l) \in Piece
  <2>1. LevelParams(l) \in Seq(48..59)
    <3>1. /\ <<51, 49, 59, 49>> \in Seq(48..59) /\ <<51, 51>> \in Seq(48..59)
          /\ <<51, 54>> \in Seq(48..59) /\ <<51, 55>> \in Seq(48..59)
      OBVIOUS
    <3>2. LevelParams(l) \in {<<51, 49, 59, 49>>, <<51, 51>>, <<51, 54>>, <<51, 55>>}
      BY DEF Levels, LevelParams, SEMICOLON
    <3> QED BY <3>1, <3>2
  <2> QED BY <2>1, SequencePiece DEF LevelPiece, Piece
<1>4. Newline \in Piece
  <2>1. <<NEWLINE>> \in Seq(Char)
    BY DEF NEWLINE, Char
  <2> QED BY <2>1 DEF Newline, Piece, TextPiece
<1> QED BY <1>2, <1>3, <1>4

-----------------------------------------------------------------------------
(* The piece that is scanned ends in the character behind it, and number is   *)
(* the number it was made of.                                                *)
PrintTypes ==
    /\ pieces \in Seq(Piece)
    /\ buffer \in Seq(Char) /\ Len(buffer) \in Nat \ {0}
    /\ buffer[Len(buffer)] \in Ending

MadeOf(n) ==
    /\ n \in NumberPiece
    /\ number = <<n>>
    /\ buffer = Append(itoa_s(n.value, n.base, n.pad, n.w), NUL)

NumberInv ==
    /\ PrintTypes
    /\ number = <<>> \/ \E n \in NumberPiece : MadeOf(n)
    /\ print_pc = "idle" => number = <<>>

LEMMA PrintTypesInit == ASSUME PrintInit PROVE PrintTypes
<1>1. buffer = <<NUL>> /\ NUL \in Char /\ NUL \in Ending
  BY DEF PrintInit, NoScan, Char, Ending, NUL
<1> QED BY <1>1 DEF PrintTypes, PrintInit

LEMMA PrintTypesStep == ASSUME PrintTypes, [PrintNext]_print_vars PROVE PrintTypes'
<1> USE DEF PrintTypes
<1>1. ASSUME NEW t \in Texts, printf(t) PROVE PrintTypes'
  <2>1. t \in Seq(Piece)
    BY PieceAssumption
  <2> QED BY <1>1, <2>1 DEF printf, scan
<1>2. ASSUME NEW l \in Levels, NEW m \in Messages, log(l, m) PROVE PrintTypes'
  <2>1. m \in Seq(Piece) /\ <<Newline, Reset>> \in Seq(Piece)
    BY PieceAssumption, LevelPieces
  <2>2. m \o <<Newline, Reset>> \in Seq(Piece)
    BY <2>1, ConcatProperties
  <2>3. LevelPiece(l) \in Piece
    BY LevelPieces
  <2> QED BY <1>2, <2>2, <2>3, TextType DEF log
<1>3. CASE NextPiece
  <2>1. Head(pieces) \in Piece /\ Tail(pieces) \in Seq(Piece)
    BY <1>3, HeadTailProperties DEF NextPiece
  <2> QED BY <1>3, <2>1, TextType DEF NextPiece
<1>4. CASE Returns
  <2>1. NUL \in Char /\ NUL \in Ending
    BY DEF Char, Ending, NUL
  <2> QED BY <1>4, <2>1 DEF Returns
<1>5. CASE PutChar \/ HandleAnsi \/ Save \/ Apply \/ StoreOld \/ KeyboardLogs \/ UNCHANGED print_vars
  BY <1>5 DEF PutChar, HandleAnsi, Save, Apply, StoreOld, KeyboardLogs, print_vars, scan, caller
<1> QED BY <1>1, <1>2, <1>3, <1>4, <1>5 DEF PrintNext

LEMMA NumberStep == ASSUME NumberInv, [PrintNext]_print_vars PROVE NumberInv'
<1>1. PrintTypes /\ PrintTypes'
  BY PrintTypesStep DEF NumberInv
<1> DEFINE Good == number = <<>> \/ \E n \in NumberPiece : MadeOf(n)
           Quiet == print_pc = "idle" => number = <<>>
<1> SUFFICES Good' /\ Quiet'
  BY <1>1 DEF NumberInv
<1>2. Good /\ Quiet
  BY DEF NumberInv
<1>3. ASSUME NEW t \in Texts, printf(t) PROVE Good' /\ Quiet'
  BY <1>2, <1>3 DEF printf, scan
<1>4. ASSUME NEW l \in Levels, NEW m \in Messages, log(l, m) PROVE Good' /\ Quiet'
  BY <1>2, <1>4 DEF log
<1>5. CASE NextPiece
  <2> DEFINE t == Head(pieces)
  <2>1. t \in Piece
    BY <1>1, <1>5, HeadTailProperties DEF NextPiece, PrintTypes
  <2>2. /\ buffer' = Text(t) /\ print_pc' = "scan"
        /\ number' = IF "value" \in DOMAIN t THEN <<t>> ELSE <<>>
    BY <1>5 DEF NextPiece
  <2> HIDE DEF t
  <2>3. CASE t \in TextPiece
    BY <2>2, <2>3, TextHasNoValue
  <2>4. CASE t \in NumberPiece
    BY <2>2, <2>4, TextOfNumber DEF MadeOf
  <2> QED BY <2>1, <2>3, <2>4 DEF Piece
<1>6. CASE Returns
  BY <1>6 DEF Returns
<1>7. CASE PutChar \/ HandleAnsi \/ Save \/ Apply \/ StoreOld \/ KeyboardLogs \/ UNCHANGED print_vars
  <2>1. number' = number /\ buffer' = buffer /\ (print_pc' = "idle" => print_pc = "idle")
    BY <1>7 DEF PutChar, HandleAnsi, Save, Apply, StoreOld, KeyboardLogs, print_vars, scan
  <2> QED BY <1>2, <2>1 DEF MadeOf
<1> QED BY <1>3, <1>4, <1>5, <1>6, <1>7 DEF PrintNext

(* A number that vprintf prints is read back by strtol modulo the 16 bits it  *)
(* keeps, whatever the number, its base and its padding are: the digits       *)
(* come out most significant first, and the zeros of the padding add nothing. *)
THEOREM NumbersAreRead == PrintSpec => []NumbersRead
<1>1. ASSUME PrintInit PROVE NumberInv
  <2>1. PrintTypes
    BY <1>1, PrintTypesInit
  <2> QED BY <1>1, <2>1 DEF NumberInv, PrintInit, NoScan
<1>2. ASSUME NumberInv PROVE NumbersRead
  <2> DEFINE Counted(m) == m.value >= 0 \/ m.base = 16
             Comes(m) == strtol(Front(buffer), 0, m.base)
                          = [value |-> uint16_t(m.value % ULONG), rest |-> end]
  <2> SUFFICES ASSUME NEW i \in DOMAIN number, Counted(number[i]) PROVE Comes(number[i])
    <3>1. NumbersRead <=> \A i \in DOMAIN number : Counted(number[i]) => Comes(number[i])
      BY DEF NumbersRead
    <3> HIDE DEF Counted, Comes
    <3> QED BY <3>1
  <2>1. PICK n \in NumberPiece : MadeOf(n)
    <3>1. number # <<>>
      OBVIOUS
    <3> QED BY <1>2, <3>1 DEF NumberInv
  <2> DEFINE s == itoa_s(n.value, n.base, n.pad, n.w)
  <2>2. number[i] = n
    BY <2>1 DEF MadeOf
  <2>3. /\ n.value \in Int /\ n.base \in {10, 16} /\ n.pad \in {NUL, ZERO} /\ n.w \in Nat
        /\ n.pad = NUL => n.w = 0
    BY DEF NumberPiece
  <2>4. s \in Seq(Printed)
    BY <2>3, ItoaIs DEF Prints
  <2>5. strtol(s, 0, n.base) = [value |-> uint16_t(n.value % ULONG), rest |-> Len(s)]
    <3> DEFINE v == n.value
               b == n.base
               z == n.pad
               w == n.w
    <3>1. v \in Int /\ b \in {10, 16} /\ z \in {NUL, ZERO} /\ w \in Nat /\ (z = NUL => w = 0)
      BY <2>3
    <3>2. v >= 0 \/ b = 16
      BY <2>2
    <3> HIDE DEF v, b, z, w
    <3>3. strtol(itoa_s(v, b, z, w), 0, b) = [value |-> uint16_t(v % ULONG), rest |-> Len(itoa_s(v, b, z, w))]
      BY <3>1, <3>2, NumberRead
    <3> QED BY <3>3 DEF v, b, z, w
  <2>6. buffer = Append(s, NUL)
    BY <2>1 DEF MadeOf
  <2> HIDE DEF s
  <2>7. Front(buffer) = s /\ Len(buffer) = Len(s) + 1 /\ Len(s) \in Nat
    <3>1. NUL \in Printed
      BY DEF Printed
    <3> QED BY <2>4, <2>6, <3>1, FrontOfAppend, LenProperties
  <2>8. end = Len(s)
    BY <2>7 DEF end
  <2> QED BY <2>2, <2>5, <2>7, <2>8
<1> QED BY <1>1, <1>2, NumberStep, PTL DEF PrintSpec

-----------------------------------------------------------------------------
(* The terminal of Shown after every character of s.                         *)
Screens == [state : {"text", "escape", "sequence"}, out : Seq(Char), done : Seq(Char)]

Fresh == [state |-> "text", out |-> <<>>, done |-> <<>>]

Turn(s, k, f) == IF k = 0 THEN Fresh ELSE Terminal(s[k], f[k - 1])

Follows(f, s) == f = [k \in 0..Len(s) |-> Turn(s, k, f)]

Afters(s) == CHOOSE f : Follows(f, s)

LEMMA ShownIs == ASSUME NEW s PROVE Shown(s) = Afters(s)[Len(s)]
BY DEF Shown, Afters, Follows, Turn, Fresh

LEMMA TerminalType ==
    ASSUME NEW c \in Char, NEW t \in Screens PROVE Terminal(c, t) \in Screens
<1>1. /\ t.state \in {"text", "escape", "sequence"} /\ t.out \in Seq(Char) /\ t.done \in Seq(Char)
      /\ t = [state |-> t.state, out |-> t.out, done |-> t.done]
  BY DEF Screens
<1>2. Append(t.out, c) \in Seq(Char) /\ Append(t.done, c) \in Seq(Char)
  BY <1>1, AppendProperties
<1>3. /\ \A x \in {"text", "escape", "sequence"} : [t EXCEPT !.state = x] \in Screens
      /\ \A x \in {"text", "escape", "sequence"} :
            [t EXCEPT !.state = x, !.out = Append(@, c)] \in Screens
      /\ [t EXCEPT !.out = Append(@, c)] \in Screens
      /\ \A x \in {"text", "escape", "sequence"} :
            [t EXCEPT !.state = x, !.done = Append(@, c)] \in Screens
  BY <1>1, <1>2 DEF Screens
<1> QED
  <2>1. CASE t.state = "text"
    BY <1>3, <2>1 DEF Terminal
  <2>2. CASE t.state = "escape"
    BY <1>3, <2>2 DEF Terminal
  <2>3. CASE t.state = "sequence"
    BY <1>3, <2>3 DEF Terminal, Final, J, M, NUL
  <2> QED BY <1>1, <2>1, <2>2, <2>3

(* What a character does to it. *)
LEMMA TerminalIs ==
    ASSUME NEW c \in Char, NEW t \in Screens
    PROVE  LET u == Terminal(c, t)
           IN  /\ t.state # "sequence" /\ c = ESC =>
                    u.state = "escape" /\ u.out = t.out /\ u.done = t.done
               /\ t.state = "escape" /\ c = BRACKET =>
                    u.state = "sequence" /\ u.out = t.out /\ u.done = t.done
               /\ \/ t.state = "text" /\ c # ESC
                  \/ t.state = "escape" /\ c # ESC /\ c # BRACKET
                  \/ t.state = "sequence" /\ c = NUL
                  => u.state = "text" /\ u.out = Append(t.out, c) /\ u.done = t.done
               /\ t.state = "sequence" /\ Final(c) =>
                    /\ u.state = "text" /\ u.out = t.out
                    /\ u.done = IF c \in {J, M} THEN Append(t.done, c) ELSE t.done
               /\ t.state = "sequence" /\ ~Final(c) /\ c # NUL => u = t
<1>1. /\ t.state \in {"text", "escape", "sequence"}
      /\ t = [state |-> t.state, out |-> t.out, done |-> t.done]
  BY DEF Screens
<1>2. ESC # BRACKET
  BY DEF ESC, BRACKET
<1>3. ~Final(NUL) /\ Final(J) /\ Final(M)
  BY DEF Final, J, M, NUL
<1>4. CASE t.state = "text"
  BY <1>1, <1>4 DEF Terminal
<1>5. CASE t.state = "escape"
  BY <1>1, <1>2, <1>5 DEF Terminal
<1>6. CASE t.state = "sequence"
  BY <1>1, <1>3, <1>6 DEF Terminal
<1> QED BY <1>1, <1>4, <1>5, <1>6

LEMMA AftersAre ==
    ASSUME NEW s \in Seq(Char)
    PROVE  /\ Afters(s)[0] = Fresh
           /\ \A k \in 0..Len(s) : Afters(s)[k] \in Screens
           /\ \A k \in 0..(Len(s) - 1) : Afters(s)[k + 1] = Terminal(s[k + 1], Afters(s)[k])
<1> DEFINE n == Len(s)
           step == [k \in 1..n |-> [t \in Screens |-> Terminal(s[k], t)]]
<1>1. n \in Nat /\ \A k \in 1..n : s[k] \in Char
  BY LenProperties, ElementOfSeq
<1>2. Fresh \in Screens
  BY DEF Fresh, Screens
<1>3. \A k \in 1..n, t \in Screens : Terminal(s[k], t) \in Screens
  BY <1>1, TerminalType
<1>4. StepsOn(step, n, Screens)
  <2> HIDE DEF n
  <2>1. \A k \in 1..n : [t \in Screens |-> Terminal(s[k], t)] \in [Screens -> Screens]
    BY <1>3
  <2> QED BY <2>1 DEF StepsOn
<1>5. \A k \in 1..n : \A t \in Screens : step[k][t] = Terminal(s[k], t)
  OBVIOUS
<1> HIDE DEF n, step
<1>6. PICK f : Iterates(f, n, Screens, Fresh, step)
  BY <1>1, <1>2, <1>4, Recursion
<1>7. /\ f \in [0..n -> Screens] /\ f[0] = Fresh
      /\ \A k \in 1..n : f[k] = Terminal(s[k], f[k - 1])
  BY <1>1, <1>5, <1>6 DEF Iterates
<1>8. \A k \in 0..n : f[k] = Turn(s, k, f)
  BY <1>1, <1>7 DEF Turn
<1>9. Follows(f, s)
  BY <1>7, <1>8 DEF Follows, n
<1>10. Follows(Afters(s), s)
  BY <1>9 DEF Afters
<1> DEFINE g == Afters(s)
<1> HIDE DEF g
<1>11. \A k \in 0..n : g[k] = Turn(s, k, g)
  BY <1>10 DEF Follows, n, g
<1>12. g[0] = Fresh /\ \A k \in 0..(n - 1) : g[k + 1] = Terminal(s[k + 1], g[k])
  <2>1. g[0] = Fresh
    BY <1>1, <1>11 DEF Turn
  <2>2. ASSUME NEW k \in 0..(n - 1) PROVE g[k + 1] = Terminal(s[k + 1], g[k])
    <3>1. k + 1 \in 0..n /\ k + 1 # 0 /\ (k + 1) - 1 = k
      BY <1>1
    <3> QED BY <1>11, <3>1 DEF Turn
  <2> QED BY <2>1, <2>2
<1>13. \A k \in 0..n : g[k] \in Screens
  <2> DEFINE T == {k \in 0..n : g[k] \in Screens}
  <2>1. 0 \in T
    BY <1>1, <1>2, <1>12
  <2>2. ASSUME NEW k \in 0..(n - 1), k \in T PROVE k + 1 \in T
    <3>1. k + 1 \in 1..n /\ s[k + 1] \in Char /\ g[k] \in Screens
      BY <1>1, <2>2
    <3> QED BY <1>12, <3>1, TerminalType
  <2>3. \A k \in 0..n : k \in T
    <3> HIDE DEF T
    <3> QED BY <1>1, <2>1, <2>2, UpTo
  <2> QED BY <2>3
<1> QED BY <1>12, <1>13 DEF g, n

-----------------------------------------------------------------------------
(* The pieces whose text is whole where vprintf ends it at a %.               *)
Whole(t) == t \in TextPiece /\ t.behind # NUL => Shown(t.text).state # "sequence"

WholePiece == {t \in Piece : Whole(t)}

(* The terminal when p of the characters have been scanned.                  *)
Seen == Afters(Front(buffer))[p]

(* The scan and the terminal have shown the same.  Where the terminal is in a *)
(* sequence and the scan is not, the NUL that ended it comes next.            *)
RenderInv ==
    /\ pieces \in Seq(WholePiece)
    /\ PrintTypes
    /\ buffer[Len(buffer)] # NUL => Expected.state # "sequence"
    /\ p \in 0..end
    /\ Seen.out = printed /\ Seen.done = commands
    /\ Seen.state = "escape" => CharAt(p) # BRACKET
    /\ Seen.state = "sequence" => CharAt(p) = NUL
    /\ print_pc = "idle" => p = 0 /\ printed = <<>> /\ commands = <<>>

LEMMA FrontIs ==
    ASSUME NEW s \in Seq(Char), Len(s) \in Nat \ {0}
    PROVE  /\ Front(s) \in Seq(Char) /\ Len(Front(s)) = Len(s) - 1
           /\ \A k \in 1..(Len(s) - 1) : Front(s)[k] = s[k]
<1> DEFINE n == Len(s)
<1>1. n \in Nat \ {0} /\ \A k \in 1..n : s[k] \in Char
  BY ElementOfSeq
<1>2. Front(s) = SubSeq(s, 1, n - 1)
  BY DEF Front
<1> HIDE DEF n
<1>3. n - 1 \in Int /\ (IF 1 <= n - 1 THEN (n - 1) - 1 + 1 ELSE 0) = n - 1 /\ (n - 1) - 1 + 1 = n - 1
      /\ \A k \in 1..(n - 1) : s[k] \in Char /\ 1 + k - 1 = k
  BY <1>1
<1>4. SubSeq(s, 1, n - 1) \in Seq(Char) /\ Len(SubSeq(s, 1, n - 1)) = n - 1
      /\ \A k \in 1..(n - 1) : SubSeq(s, 1, n - 1)[k] = s[k]
  BY <1>3, SubSeqProperties
<1> QED BY <1>2, <1>4 DEF n

(* The terminal from one character of the buffer to the next.                *)
LEMMA BufferShown ==
    ASSUME PrintTypes
    PROVE  LET T == Afters(Front(buffer))
           IN  /\ end \in Nat
               /\ T[0] = Fresh /\ Expected = T[end]
               /\ \A k \in 0..end : T[k] \in Screens /\ CharAt(k) \in Char
               /\ \A k \in 0..(end - 1) : T[k + 1] = Terminal(CharAt(k), T[k])
               /\ CharAt(end) \in Ending
<1> DEFINE n == Len(buffer)
           s == Front(buffer)
<1>1. buffer \in Seq(Char) /\ n \in Nat \ {0} /\ buffer[n] \in Ending
  BY DEF PrintTypes
<1>2. \A k \in 1..n : buffer[k] \in Char
  BY <1>1, ElementOfSeq
<1>4. s \in Seq(Char) /\ Len(s) = n - 1 /\ \A k \in 1..(n - 1) : s[k] = buffer[k]
  BY <1>1, FrontIs
<1>5. end = n - 1
  BY DEF end
<1> HIDE DEF n, s
<1>6. Expected = Afters(s)[end]
  BY <1>4, <1>5, ShownIs DEF Expected, s
<1>7. \A k \in 0..end : CharAt(k) \in Char
  BY <1>1, <1>2, <1>5 DEF CharAt
<1>8. \A k \in 0..(end - 1) : s[k + 1] = CharAt(k)
  BY <1>1, <1>4, <1>5 DEF CharAt
<1>9. /\ Afters(s)[0] = Fresh
      /\ \A k \in 0..end : Afters(s)[k] \in Screens
      /\ \A k \in 0..(end - 1) : Afters(s)[k + 1] = Terminal(s[k + 1], Afters(s)[k])
  BY <1>4, <1>5, AftersAre
<1>10. end \in Nat /\ CharAt(end) \in Ending
  BY <1>1, <1>5 DEF CharAt
<1> QED BY <1>6, <1>7, <1>8, <1>9, <1>10 DEF s

LEMMA EndingIs == \A c \in Ending : c # BRACKET /\ c # ESC /\ ~Final(c) /\ (c = NUL \/ c = PERCENT)
BY DEF Ending, NUL, PERCENT, BRACKET, ESC, Final

(* At the beginning of a piece. *)
LEMMA RenderStart ==
    ASSUME PrintTypes', pieces' \in Seq(WholePiece), p' = 0, printed' = <<>>, commands' = <<>>,
           buffer'[Len(buffer')] # NUL => Shown(Front(buffer')).state # "sequence"
    PROVE  RenderInv'
<1>1. buffer' \in Seq(Char) /\ Len(buffer') \in Nat \ {0}
  BY DEF PrintTypes
<1>2. Front(buffer') \in Seq(Char)
  BY <1>1, FrontIs
<1>3. Seen' = Fresh
  BY <1>2, AftersAre DEF Seen
<1>4. end' \in Nat
  BY <1>1 DEF end
<1>5. Seen'.state = "text" /\ Seen'.out = <<>> /\ Seen'.done = <<>>
  BY <1>3 DEF Fresh
<1> QED BY <1>4, <1>5 DEF RenderInv, Expected

LEMMA PutCharRenders == ASSUME RenderInv, PutChar PROVE RenderInv'
<1> DEFINE T == Afters(Front(buffer))
           c == CharAt(p)
<1>1. /\ PrintTypes /\ p \in 0..end
      /\ T[p].out = printed /\ T[p].done = commands
      /\ T[p].state = "escape" => c # BRACKET
      /\ T[p].state = "sequence" => c = NUL
  BY DEF RenderInv, Seen
<1>2. /\ p < end /\ c # ESC /\ printed' = Append(printed, c) /\ p' = p + 1
      /\ buffer' = buffer /\ pieces' = pieces /\ commands' = commands /\ print_pc' # "idle"
  BY DEF PutChar, caller
<1>3. /\ end \in Nat /\ T[p] \in Screens /\ c \in Char
      /\ T[p + 1] = Terminal(c, T[p]) /\ p + 1 \in 0..end
  <2>1. p \in 0..(end - 1) /\ end \in Nat /\ p + 1 \in 0..end
    BY <1>1, <1>2, BufferShown
  <2> HIDE DEF T, c
  <2> QED BY <1>1, <2>1, BufferShown DEF T, c
<1>4. Seen' = T[p + 1] /\ end' = end /\ PrintTypes' /\ Expected' = Expected
  BY <1>1, <1>2 DEF Seen, end, PrintTypes, Expected
<1> HIDE DEF T, c
<1>5. T[p].state \in {"text", "escape", "sequence"}
  BY <1>3 DEF Screens
<1>6. T[p + 1].state = "text" /\ T[p + 1].out = Append(printed, c) /\ T[p + 1].done = commands
  BY <1>1, <1>2, <1>3, <1>5, TerminalIs
<1> QED BY <1>2, <1>3, <1>4, <1>6 DEF RenderInv

(* Where the do loop stops, and what it has gone past. *)
LEMMA StopIs ==
    ASSUME PrintTypes, NEW i \in 0..(end - 1)
    PROVE  /\ Stop(i) \in (i + 1)..end
           /\ Stop(i) = end \/ CharAt(Stop(i)) = NUL \/ Final(CharAt(Stop(i)))
           /\ \A j \in (i + 1)..(Stop(i) - 1) : j < end /\ CharAt(j) # NUL /\ ~Final(CharAt(j))
<1> DEFINE P(k) == k >= end \/ CharAt(k) = NUL \/ Final(CharAt(k))
           S == {k \in (i + 1)..(end + 1) : P(k)}
           k == CHOOSE m \in (i + 1)..(end + 1) : P(m) /\ \A j \in (i + 1)..(m - 1) : ~P(j)
<1>1. Stop(i) = k
  BY DEF Stop, FirstFrom
<1>2. end \in Nat
  BY BufferShown
<1>3. end \in S /\ S \in SUBSET Nat
  BY <1>2
<1>4. PICK m \in S : \A j \in S : m <= j
  BY <1>3, Least
<1>5. m \in (i + 1)..(end + 1) /\ P(m) /\ \A j \in (i + 1)..(m - 1) : ~P(j)
  <2>1. m \in (i + 1)..(end + 1) /\ P(m)
    OBVIOUS
  <2>2. ASSUME NEW j \in (i + 1)..(m - 1), P(j) PROVE FALSE
    <3>1. j \in (i + 1)..(end + 1) /\ ~(m <= j)
      BY <1>2, <2>1
    <3>2. j \in S
      BY <2>2, <3>1
    <3> QED BY <1>4, <3>1, <3>2
  <2> QED BY <2>1, <2>2
<1> HIDE DEF S
<1>6. k \in (i + 1)..(end + 1) /\ P(k) /\ \A j \in (i + 1)..(k - 1) : ~P(j)
  <2> HIDE DEF P
  <2> QED BY <1>5
<1> HIDE DEF k
<1>7. k <= end
  <2> SUFFICES ASSUME k > end PROVE FALSE
    BY <1>2, <1>6
  <2>1. end \in (i + 1)..(k - 1)
    BY <1>2, <1>6
  <2>2. end >= end
    BY <1>2
  <2> QED BY <1>6, <2>1, <2>2
<1>8. k \in (i + 1)..end /\ (k >= end => k = end)
  BY <1>2, <1>6, <1>7
<1>9. \A j \in (i + 1)..(k - 1) : j \in Int /\ (~(j >= end) => j < end)
  BY <1>2
<1> QED BY <1>1, <1>6, <1>8, <1>9

(* The terminal stays in the sequence up to there.                           *)
LEMMA SequenceGoesOn ==
    ASSUME PrintTypes, NEW i \in 0..(end - 1), NEW T, T = Afters(Front(buffer)),
           T[i + 1].state = "sequence"
    PROVE  T[Stop(i)] = T[i + 1]
<1> DEFINE k == Stop(i)
           S == {m \in Nat : m < k - i => T[i + 1 + m] = T[i + 1]}
<1>1. /\ k \in (i + 1)..end
      /\ \A j \in (i + 1)..(k - 1) : CharAt(j) # NUL /\ ~Final(CharAt(j))
  BY StopIs
<1>2. end \in Nat
  BY BufferShown
<1> HIDE DEF k
<1>3. 0 \in S
  OBVIOUS
<1>4. ASSUME NEW m \in Nat, m \in S PROVE m + 1 \in S
  <2> SUFFICES ASSUME m + 1 < k - i PROVE T[i + 1 + (m + 1)] = T[i + 1]
    OBVIOUS
  <2> DEFINE j == i + 1 + m
  <2>1. j \in (i + 1)..(k - 1) /\ j \in 0..(end - 1) /\ j \in 0..end /\ i + 1 + (m + 1) = j + 1 /\ m < k - i
    BY <1>1, <1>2
  <2>2. T[j] = T[i + 1]
    BY <1>4, <2>1
  <2> HIDE DEF j
  <2>3. T[j] \in Screens /\ CharAt(j) \in Char /\ T[j + 1] = Terminal(CharAt(j), T[j])
    BY <2>1, BufferShown
  <2>4. CharAt(j) # NUL /\ ~Final(CharAt(j))
    BY <1>1, <2>1
  <2>5. Terminal(CharAt(j), T[j]) = T[j]
    BY <2>2, <2>3, <2>4, TerminalIs
  <2> QED BY <2>1, <2>2, <2>3, <2>5
<1>5. \A m \in Nat : m \in S
  <2> HIDE DEF S
  <2> QED BY <1>3, <1>4, Induction
<1>6. k - i - 1 \in Nat /\ k - i - 1 < k - i /\ i + 1 + (k - i - 1) = k
  BY <1>1, <1>2
<1> QED BY <1>5, <1>6 DEF k

LEMMA HandleAnsiRenders == ASSUME RenderInv, HandleAnsi PROVE RenderInv'
<1> DEFINE T == Afters(Front(buffer))
           i == p + 1
           k == Stop(i)
           command == Introduced(i) /\ ~EndOfString(k)
<1>1. /\ PrintTypes /\ p \in 0..end
      /\ T[p].out = printed /\ T[p].done = commands
      /\ T[p].state = "sequence" => CharAt(p) = NUL
      /\ buffer[Len(buffer)] # NUL => Expected.state # "sequence"
      /\ pieces \in Seq(WholePiece)
  BY DEF RenderInv, Seen
<1>2. /\ p < end /\ CharAt(p) = ESC
      /\ printed' = printed /\ buffer' = buffer /\ pieces' = pieces /\ print_pc' # "idle"
      /\ p' = (CASE ~Introduced(i) -> i
                 [] Introduced(i) /\ EndOfString(k) -> k
                 [] command -> k + 1)
      /\ commands' = IF command /\ CharAt(k) \in {J, M}
                     THEN Append(commands, CharAt(k)) ELSE commands
  BY DEF HandleAnsi, caller
<1>3. Seen' = T[p'] /\ end' = end /\ PrintTypes' /\ Expected' = Expected /\ CharAt(p)' = CharAt(p')
  BY <1>1, <1>2 DEF Seen, end, PrintTypes, Expected, CharAt
<1>4. /\ end \in Nat /\ Expected = T[end]
      /\ \A j \in 0..end : T[j] \in Screens /\ CharAt(j) \in Char
      /\ \A j \in 0..(end - 1) : T[j + 1] = Terminal(CharAt(j), T[j])
      /\ CharAt(end) \in Ending
  BY <1>1, BufferShown
<1>5. CharAt(end) = buffer[Len(buffer)]
  <2>1. Len(buffer) \in Nat
    BY <1>1 DEF PrintTypes
  <2>2. (Len(buffer) - 1) + 1 = Len(buffer)
    BY <2>1
  <2> QED BY <2>2 DEF CharAt, end
<1>6. p \in 0..(end - 1) /\ i \in 0..end /\ i \in Nat
  BY <1>1, <1>2, <1>4
<1> HIDE DEF T, k
<1>7. T[i].state = "escape" /\ T[i].out = printed /\ T[i].done = commands
  <2>1. T[p].state # "sequence"
    BY <1>1, <1>2 DEF ESC, NUL
  <2>2. T[p] \in Screens /\ CharAt(p) \in Char /\ T[i] = Terminal(CharAt(p), T[p])
    BY <1>1, <1>4, <1>6
  <2> QED BY <1>1, <1>2, <2>1, <2>2, TerminalIs
<1> SUFFICES /\ p' \in 0..end
             /\ T[p'].out = printed /\ T[p'].done = commands'
             /\ T[p'].state = "escape" => CharAt(p') # BRACKET
             /\ T[p'].state = "sequence" => CharAt(p') = NUL
  BY <1>1, <1>2, <1>3 DEF RenderInv
<1> HIDE DEF i
<1>8. CASE ~Introduced(i)
  <2>1. p' = i /\ commands' = commands
    BY <1>2, <1>8
  <2>2. CharAt(i) # BRACKET
    BY <1>6, <1>8 DEF Introduced
  <2> QED BY <1>6, <1>7, <2>1, <2>2
<1>9. CASE Introduced(i)
  <2>1. CharAt(i) = BRACKET /\ i \in 0..(end - 1)
    BY <1>4, <1>6, <1>9, EndingIs DEF Introduced
  <2>2. T[i] \in Screens /\ CharAt(i) \in Char /\ T[i + 1] = Terminal(CharAt(i), T[i])
    BY <1>4, <1>6, <2>1
  <2>3. T[i + 1].state = "sequence" /\ T[i + 1].out = printed /\ T[i + 1].done = commands
    BY <1>7, <2>1, <2>2, TerminalIs
  <2>4. T[k] = T[i + 1]
    BY <1>1, <2>1, <2>3, SequenceGoesOn DEF T, k
  <2>5. k \in (i + 1)..end /\ (k = end \/ CharAt(k) = NUL \/ Final(CharAt(k)))
    BY <1>1, <2>1, StopIs DEF k
  <2>6. k \in 0..end /\ ~(k > end) /\ (k # end => k \in 0..(end - 1) /\ k + 1 \in 0..end)
    BY <1>4, <1>6, <2>5
  <2>7. CASE CharAt(k) = NUL
    <3>1. EndOfString(k) /\ p' = k /\ commands' = commands
      BY <1>2, <1>9, <2>7 DEF EndOfString
    <3> QED BY <2>3, <2>4, <2>6, <2>7, <3>1
  <2>8. CASE CharAt(k) # NUL
    <3>1. ~EndOfString(k)
      BY <2>6, <2>8 DEF EndOfString
    <3>2. p' = k + 1 /\ commands' = IF CharAt(k) \in {J, M} THEN Append(commands, CharAt(k)) ELSE commands
      BY <1>2, <1>9, <3>1
    <3>3. k # end
      BY <1>1, <1>4, <1>5, <2>3, <2>4, <2>8
    <3>4. T[k] \in Screens /\ CharAt(k) \in Char /\ T[k + 1] = Terminal(CharAt(k), T[k]) /\ Final(CharAt(k))
      BY <1>4, <2>5, <2>6, <2>8, <3>3
    <3>5. /\ T[k + 1].state = "text" /\ T[k + 1].out = printed
          /\ T[k + 1].done = IF CharAt(k) \in {J, M} THEN Append(commands, CharAt(k)) ELSE commands
      BY <2>3, <2>4, <3>4, TerminalIs
    <3> QED BY <2>6, <3>2, <3>3, <3>5
  <2> QED BY <2>7, <2>8
<1> QED BY <1>8, <1>9

(* What vprintf and log hand to the scan.                                    *)
LEMMA WholeText ==
    ASSUME NEW t \in WholePiece
    PROVE  Text(t)[Len(Text(t))] # NUL => Shown(Front(Text(t))).state # "sequence"
<1>1. CASE t \in TextPiece
  <2>1. t.text \in Seq(Char) /\ t.behind \in Ending
    BY <1>1 DEF TextPiece, Ending
  <2>2. t.behind \in Char /\ Text(t) = Append(t.text, t.behind)
    BY <1>1, <2>1, TextOfText, PrintedChars
  <2>3. Front(Text(t)) = t.text /\ Text(t)[Len(Text(t))] = t.behind
    <3>1. Front(Append(t.text, t.behind)) = t.text /\ Len(Append(t.text, t.behind)) = Len(t.text) + 1
      BY <2>1, <2>2, FrontOfAppend
    <3>2. Append(t.text, t.behind)[Len(t.text) + 1] = t.behind
      BY <2>1, <2>2, AppendProperties
    <3> QED BY <2>2, <3>1, <3>2
  <2> QED BY <1>1, <2>3 DEF WholePiece, Whole
<1>2. CASE t \in NumberPiece
  <2> DEFINE s == itoa_s(t.value, t.base, t.pad, t.w)
  <2>1. t.value \in Int /\ t.base \in {10, 16} /\ t.pad \in {NUL, ZERO} /\ t.w \in Nat
    BY <1>2 DEF NumberPiece
  <2>2. s \in Seq(Printed)
    BY <2>1, ItoaIs DEF Prints
  <2>3. Text(t) = Append(s, NUL)
    BY <1>2, TextOfNumber
  <2> HIDE DEF s
  <2>4. Len(Append(s, NUL)) = Len(s) + 1 /\ Append(s, NUL)[Len(s) + 1] = NUL
    <3>1. NUL \in Printed
      BY DEF Printed
    <3> QED BY <2>2, <3>1, AppendProperties
  <2> QED BY <2>3, <2>4
<1> QED BY <1>1, <1>2 DEF WholePiece, Piece

LEMMA WholeLog ==
    /\ Newline \in WholePiece /\ Reset \in WholePiece
    /\ \A l \in Levels : LevelPiece(l) \in WholePiece
BY LevelPieces DEF WholePiece, Whole, Newline, Reset, LevelPiece, Sequence

LEMMA WholeTexts ==
    ASSUME Ended, NEW t \in Texts \cup Messages PROVE t \in Seq(WholePiece)
<1>1. t \in Seq(Piece)
  BY PieceAssumption
<1>2. \A i \in 1..Len(t) : t[i] \in Piece /\ i \in DOMAIN t
  BY <1>1, ElementOfSeq
<1>3. \A i \in 1..Len(t) : t[i] \in WholePiece
  <2> SUFFICES ASSUME NEW i \in 1..Len(t) PROVE t[i] \in WholePiece
    OBVIOUS
  <2>1. t[i] \in Piece /\ i \in DOMAIN t
    BY <1>2
  <2>2. t[i] \in TextPiece /\ t[i].behind # NUL => Shown(t[i].text).state # "sequence"
    BY <2>1 DEF Ended
  <2> QED BY <2>1, <2>2 DEF WholePiece, Whole
<1>4. t \in [1..Len(t) -> WholePiece] /\ Len(t) \in Nat
  BY <1>1, <1>3
<1> QED BY <1>4, SeqDef

LEMMA RenderStep == ASSUME Ended, RenderInv, [PrintNext]_print_vars PROVE RenderInv'
<1>1. PrintTypes /\ PrintTypes' /\ pieces \in Seq(WholePiece)
  BY PrintTypesStep DEF RenderInv
<1>2. ASSUME buffer' = buffer, p' = p, printed' = printed, commands' = commands,
             pieces' \in Seq(WholePiece), print_pc' = "idle" => print_pc = "idle"
      PROVE  RenderInv'
  BY <1>1, <1>2 DEF RenderInv, Expected, Seen, end, CharAt
<1>3. ASSUME NEW t \in Texts, printf(t) PROVE RenderInv'
  <2>1. t \in Seq(WholePiece)
    BY WholeTexts
  <2> QED BY <1>2, <1>3, <2>1 DEF printf, scan
<1>4. ASSUME NEW l \in Levels, NEW m \in Messages, log(l, m) PROVE RenderInv'
  <2>1. m \in Seq(WholePiece) /\ <<Newline, Reset>> \in Seq(WholePiece)
    BY WholeTexts, WholeLog
  <2>2. m \o <<Newline, Reset>> \in Seq(WholePiece)
    BY <2>1, ConcatProperties
  <2>3. LevelPiece(l) \in WholePiece
    BY WholeLog
  <2>4. /\ pieces' = m \o <<Newline, Reset>> /\ buffer' = Text(LevelPiece(l))
        /\ p' = p /\ printed' = printed /\ commands' = commands
    BY <1>4 DEF log
  <2>5. buffer'[Len(buffer')] # NUL => Shown(Front(buffer')).state # "sequence"
    BY <2>3, <2>4, WholeText
  <2>6. p = 0 /\ printed = <<>> /\ commands = <<>>
    BY <1>4 DEF RenderInv, log
  <2> QED BY <1>1, <2>2, <2>4, <2>5, <2>6, RenderStart
<1>5. CASE NextPiece
  <2>1. Head(pieces) \in WholePiece /\ Tail(pieces) \in Seq(WholePiece)
    BY <1>1, <1>5, HeadTailProperties DEF NextPiece
  <2>2. /\ pieces' = Tail(pieces) /\ buffer' = Text(Head(pieces))
        /\ p' = 0 /\ printed' = <<>> /\ commands' = <<>>
    BY <1>5 DEF NextPiece
  <2>3. buffer'[Len(buffer')] # NUL => Shown(Front(buffer')).state # "sequence"
    BY <2>1, <2>2, WholeText
  <2> QED BY <1>1, <2>1, <2>2, <2>3, RenderStart
<1>6. CASE Returns
  <2>1. buffer' = <<NUL>> /\ p' = 0 /\ printed' = <<>> /\ commands' = <<>> /\ pieces' = pieces
    BY <1>6 DEF Returns
  <2>2. buffer'[Len(buffer')] = NUL
    BY <2>1
  <2> QED BY <1>1, <2>1, <2>2, RenderStart
<1>7. CASE PutChar
  BY <1>7, PutCharRenders
<1>8. CASE HandleAnsi
  BY <1>8, HandleAnsiRenders
<1>9. CASE Save \/ Apply \/ StoreOld \/ KeyboardLogs \/ UNCHANGED print_vars
  BY <1>1, <1>2, <1>9 DEF Save, Apply, StoreOld, KeyboardLogs, print_vars, scan, caller
<1> QED BY <1>3, <1>4, <1>5, <1>6, <1>7, <1>8, <1>9 DEF PrintNext

(* Whatever sequences a piece holds, the scan ends at its end, with the text  *)
(* and the commands of a terminal.  It would go past the end of a text that    *)
(* vprintf ends at a % in the middle of a sequence.                           *)
THEOREM TextRendered == Ended => (PrintSpec => []Rendered)
<1> SUFFICES ASSUME Ended PROVE PrintSpec => []Rendered
  OBVIOUS
<1>1. ASSUME PrintInit PROVE RenderInv
  <2>1. PrintTypes /\ p = 0 /\ printed = <<>> /\ commands = <<>> /\ buffer = <<NUL>> /\ pieces = <<>>
    BY <1>1, PrintTypesInit DEF PrintInit, NoScan
  <2>2. end \in Nat /\ Seen = Fresh
    BY <2>1, BufferShown DEF Seen
  <2>3. Seen.state = "text" /\ Seen.out = <<>> /\ Seen.done = <<>>
    BY <2>2 DEF Fresh
  <2>4. buffer[Len(buffer)] = NUL /\ pieces \in Seq(WholePiece)
    BY <2>1
  <2> QED BY <2>1, <2>2, <2>3, <2>4 DEF RenderInv
<1>2. ASSUME RenderInv PROVE Rendered
  <2> SUFFICES ASSUME p >= end PROVE p = end /\ printed = Expected.out /\ commands = Expected.done
    BY DEF Rendered
  <2>1. end \in Nat /\ Expected = Afters(Front(buffer))[end]
    BY <1>2, BufferShown DEF RenderInv
  <2>2. p = end
    BY <1>2, <2>1 DEF RenderInv
  <2> QED BY <1>2, <2>1, <2>2 DEF RenderInv, Seen
<1> QED BY <1>1, <1>2, RenderStep, PTL DEF PrintSpec

-----------------------------------------------------------------------------
(* The parameters of a sequence. *)
ParamsFrom(s, i, f) ==
    LET n == strtol(s, i, 10)
    IN  <<n.value>> \o (IF n.rest + 1 < Len(s) THEN f[n.rest + 1] ELSE <<>>)

IsParams(f, s) == f = [i \in 0..Len(s) |-> ParamsFrom(s, i, f)]

LEMMA ParametersIs ==
    ASSUME NEW s PROVE Parameters(s) = (CHOOSE f : IsParams(f, s))[0]
BY DEF Parameters, IsParams, ParamsFrom

LEMMA StrtolType ==
    ASSUME NEW s \in Seq(Char), NEW i \in 0..Len(s)
    PROVE  strtol(s, i, 10).value \in Word16 /\ strtol(s, i, 10).rest \in i..Len(s)
<1>1. PICK e, val : /\ Stopped(s, i, e, 10) /\ Reads(val, s, i, e, 10)
                    /\ strtol(s, i, 10) = [value |-> val[e], rest |-> e]
  BY StrtolIs
<1>2. e \in i..Len(s)
  BY <1>1 DEF Stopped
<1>3. val[e] \in Word16
  BY <1>1, <1>2 DEF Reads
<1> QED BY <1>1, <1>2, <1>3

LEMMA ParamsExist ==
    ASSUME NEW s \in Seq(Char)
    PROVE  \E f : IsParams(f, s)
<1> DEFINE L == Len(s)
           V == Seq(Word16)
           Value(j) == IF j <= L THEN strtol(s, L - j, 10).value ELSE 0
           Left(j) == IF j <= L THEN L - strtol(s, L - j, 10).rest - 1 ELSE 0
           stops == {j \in Nat : Left(j) <= 0}
           base == [j \in Nat |-> <<Value(j)>>]
           step == [j \in Nat |-> [t \in V |-> <<Value(j)>> \o t]]
           down == [j \in Nat |-> IF j \in stops THEN 0 ELSE Left(j)]
<1>1. L \in Nat
  BY LenProperties
<1>2. ASSUME NEW j \in Nat
      PROVE  /\ Value(j) \in Word16 /\ Left(j) \in Int
             /\ j \notin stops => Left(j) \in Nat /\ Left(j) < j
  <2>1. CASE j <= L
    <3>1. L - j \in 0..L
      BY <1>1, <2>1
    <3>2. strtol(s, L - j, 10).value \in Word16 /\ strtol(s, L - j, 10).rest \in (L - j)..L
      BY <3>1, StrtolType
    <3> QED BY <1>1, <2>1, <3>2
  <2>2. CASE ~(j <= L)
    BY <2>2 DEF Word16
  <2> QED BY <2>1, <2>2
<1> HIDE DEF Value, Left
<1>3. base \in [Nat -> V]
  BY <1>2
<1>4. \A j \in Nat : \A t \in V : <<Value(j)>> \o t \in V
  <2> SUFFICES ASSUME NEW j \in Nat, NEW t \in V PROVE <<Value(j)>> \o t \in V
    OBVIOUS
  <2>1. <<Value(j)>> \in V
    BY <1>2
  <2> QED BY <2>1, ConcatProperties
<1>5. step \in [Nat -> [V -> V]]
  BY <1>4
<1>6. Falls(stops, down)
  <2>1. \A j \in Nat : (IF j \in stops THEN 0 ELSE Left(j)) \in Nat
    BY <1>2
  <2>2. down \in [Nat -> Nat] /\ \A j \in Nat : j \notin stops => down[j] = Left(j)
    BY <2>1
  <2> HIDE DEF down, stops
  <2> QED BY <1>2, <2>2 DEF Falls
<1>7. \A j \in Nat : /\ base[j] = <<Value(j)>> /\ \A t \in V : step[j][t] = <<Value(j)>> \o t
                     /\ j \in stops <=> Left(j) <= 0
                     /\ j \notin stops => down[j] = Left(j)
  OBVIOUS
<1> HIDE DEF base, step, down, stops, V
<1>8. PICK g : Descends(g, V, stops, base, step, down)
  BY <1>3, <1>5, <1>6, NatRecursion
<1>9. /\ g \in [Nat -> V]
      /\ \A j \in Nat : g[j] = IF j \in stops THEN base[j] ELSE step[j][g[down[j]]]
  BY <1>8 DEF Descends, Descent
<1>10. ASSUME NEW j \in Nat
       PROVE  g[j] = <<Value(j)>> \o (IF Left(j) <= 0 THEN <<>> ELSE g[Left(j)])
  <2>1. CASE j \in stops
    <3>1. g[j] = <<Value(j)>> /\ Left(j) <= 0
      BY <1>7, <1>9, <2>1
    <3>2. <<Value(j)>> \in Seq(Word16)
      BY <1>2
    <3>3. <<Value(j)>> \o <<>> = <<Value(j)>>
      BY <3>2, ConcatEmptySeq
    <3> QED BY <3>1, <3>3
  <2>2. CASE j \notin stops
    <3>1. Left(j) \in Nat /\ ~(Left(j) <= 0) /\ g[Left(j)] \in V
      BY <1>2, <1>7, <1>9, <2>2
    <3>2. g[j] = step[j][g[Left(j)]]
      BY <1>7, <1>9, <2>2
    <3> QED BY <1>7, <3>1, <3>2
  <2> QED BY <2>1, <2>2
<1> DEFINE f == [i \in 0..L |-> g[L - i]]
<1>11. ASSUME NEW i \in 0..L PROVE f[i] = ParamsFrom(s, i, f)
  <2> DEFINE n == strtol(s, i, 10)
             j == L - i
  <2>1. j \in Nat /\ L - j = i /\ j <= L
    BY <1>1
  <2>2. n.value \in Word16 /\ n.rest \in i..L
    BY StrtolType
  <2>3. Value(j) = n.value /\ Left(j) = L - n.rest - 1
    BY <2>1 DEF Value, Left
  <2>4. f[i] = g[j]
    OBVIOUS
  <2>5. Left(j) <= 0 <=> ~(n.rest + 1 < L)
    BY <1>1, <2>2, <2>3
  <2>6. n.rest + 1 < L => f[n.rest + 1] = g[Left(j)]
    <3>1. n.rest + 1 < L => n.rest + 1 \in 0..L /\ L - (n.rest + 1) = Left(j)
      BY <1>1, <2>2, <2>3
    <3> QED BY <3>1
  <2> HIDE DEF f, n, j
  <2>7. g[j] = <<n.value>> \o (IF n.rest + 1 < L THEN f[n.rest + 1] ELSE <<>>)
    BY <1>10, <2>1, <2>3, <2>5, <2>6
  <2> QED BY <2>4, <2>7 DEF ParamsFrom, n
<1>12. f = [i \in 0..L |-> f[i]]
  OBVIOUS
<1> HIDE DEF f
<1>13. f = [i \in 0..L |-> ParamsFrom(s, i, f)]
  BY <1>11, <1>12
<1> QED BY <1>13 DEF IsParams

LEMMA ParametersFrom ==
    ASSUME NEW s \in Seq(Char)
    PROVE  \E f : /\ Parameters(s) = f[0]
                  /\ \A i \in 0..Len(s) : f[i] = ParamsFrom(s, i, f)
<1> DEFINE f == CHOOSE g : IsParams(g, s)
<1>1. IsParams(f, s) /\ Parameters(s) = f[0]
  BY ParamsExist, ParametersIs
<1> HIDE DEF f
<1>2. \A i \in 0..Len(s) : f[i] = ParamsFrom(s, i, f)
  BY <1>1 DEF IsParams
<1> QED BY <1>1, <1>2

Before(v, t) == <<v>> \o t

LEMMA ParamsTurn ==
    ASSUME NEW s, NEW i, NEW f, NEW v, NEW r, strtol(s, i, 10) = [value |-> v, rest |-> r],
           f[i] = ParamsFrom(s, i, f), NEW t, t = IF r + 1 < Len(s) THEN f[r + 1] ELSE <<>>
    PROVE  f[i] = Before(v, t)
<1> DEFINE n == strtol(s, i, 10)
<1>1. n.value = v /\ n.rest = r
  OBVIOUS
<1>2. f[i] = <<n.value>> \o (IF n.rest + 1 < Len(s) THEN f[n.rest + 1] ELSE <<>>)
  BY DEF ParamsFrom
<1> HIDE DEF n
<1>3. f[i] = <<v>> \o (IF r + 1 < Len(s) THEN f[r + 1] ELSE <<>>)
  BY <1>1, <1>2, Zenon
<1> QED BY <1>3, Zenon DEF Before

LEMMA NoneBehind == ASSUME NEW v PROVE Before(v, <<>>) = <<v>>
<1>1. <<v>> \in Seq({v})
  OBVIOUS
<1>2. <<v>> \o <<>> = <<v>>
  BY <1>1, ConcatEmptySeq
<1> QED BY <1>2 DEF Before

LEMMA DigitOf ==
    ASSUME NEW c \in 48..57
    PROVE  isdigit(c, 10) /\ Digit(c) = c - 48 /\ c - 48 \in 0..9
<1>1. Digit(c) = c - 48
  BY DEF Digit
<1> QED BY <1>1 DEF isdigit

(* What strtol reads of one digit and of two.                                *)
LEMMA ReadsOne ==
    ASSUME NEW s \in Seq(Char), NEW i \in 0..Len(s), i < Len(s), s[i + 1] \in 48..57,
           i + 1 < Len(s) => ~isdigit(s[i + 2], 10)
    PROVE  strtol(s, i, 10) = [value |-> s[i + 1] - 48, rest |-> i + 1]
<1>1. PICK e, val : /\ Stopped(s, i, e, 10) /\ Reads(val, s, i, e, 10)
                    /\ strtol(s, i, 10) = [value |-> val[e], rest |-> e]
  BY StrtolIs
<1> DEFINE c == s[i + 1]
<1>2. isdigit(c, 10) /\ Digit(c) = c - 48 /\ c - 48 \in 0..9
  BY DigitOf
<1>3. Len(s) \in Nat
  BY LenProperties
<1>4. e = i + 1
  <2>1. e \in i..Len(s) /\ (e = Len(s) \/ ~isdigit(s[e + 1], 10))
    BY <1>1 DEF Stopped
  <2>2. \A j \in i..(e - 1) : j # Len(s) /\ isdigit(s[j + 1], 10)
    BY <1>1 DEF Stopped
  <2>3. e # i
    BY <1>2, <1>3, <2>1
  <2>4. ~(e > i + 1)
    <3> SUFFICES ASSUME e > i + 1 PROVE FALSE
      OBVIOUS
    <3>1. i + 1 \in i..(e - 1) /\ i + 1 < Len(s) /\ (i + 1) + 1 = i + 2
      BY <1>3, <2>1
    <3> QED BY <2>2, <3>1
  <2> QED BY <1>3, <2>1, <2>3, <2>4
<1>5. val[i + 1] = Shifted(val[i], 10, c) /\ val[i] = 0
  <2>1. i + 1 \in (i + 1)..e /\ (i + 1) - 1 = i
    BY <1>4
  <2> QED BY <1>1, <2>1 DEF Reads
<1> HIDE DEF c
<1>6. Shifted(0, 10, c) = c - 48
  <2>1. 0 * 10 + Digit(c) = c - 48
    BY <1>2
  <2>2. uint16_t(c - 48) = c - 48
    BY <1>2 DEF uint16_t
  <2> QED BY <2>1, <2>2 DEF Shifted
<1> QED BY <1>1, <1>4, <1>5, <1>6 DEF c

LEMMA ReadsTwo ==
    ASSUME NEW s \in Seq(Char), Len(s) >= 2, s[1] \in 48..57, s[2] \in 48..57,
           Len(s) > 2 => ~isdigit(s[3], 10)
    PROVE  strtol(s, 0, 10) = [value |-> (s[1] - 48) * 10 + (s[2] - 48), rest |-> 2]
<1>0. Len(s) \in Nat /\ 0 \in 0..Len(s)
  BY LenProperties
<1>1. PICK e, val : /\ Stopped(s, 0, e, 10) /\ Reads(val, s, 0, e, 10)
                    /\ strtol(s, 0, 10) = [value |-> val[e], rest |-> e]
  BY <1>0, StrtolIs
<1> DEFINE c == s[1]
           d == s[2]
<1>2. /\ isdigit(c, 10) /\ Digit(c) = c - 48 /\ c - 48 \in 0..9
      /\ isdigit(d, 10) /\ Digit(d) = d - 48 /\ d - 48 \in 0..9
  BY DigitOf
<1>4. e = 2
  <2>1. e \in 0..Len(s) /\ (e = Len(s) \/ ~isdigit(s[e + 1], 10))
    BY <1>1 DEF Stopped
  <2>2. \A j \in 0..(e - 1) : j # Len(s) /\ isdigit(s[j + 1], 10)
    BY <1>1 DEF Stopped
  <2>3. e # 0 /\ e # 1
    BY <1>0, <1>2, <2>1
  <2>4. ~(e > 2)
    <3> SUFFICES ASSUME e > 2 PROVE FALSE
      OBVIOUS
    <3>1. 2 \in 0..(e - 1) /\ Len(s) > 2
      BY <1>0, <2>1
    <3> QED BY <2>2, <3>1
  <2> QED BY <1>0, <2>1, <2>3, <2>4
<1>5. val[2] = Shifted(val[1], 10, d) /\ val[1] = Shifted(val[0], 10, c) /\ val[0] = 0
  <2>1. 1 \in (0 + 1)..e /\ 2 \in (0 + 1)..e
    BY <1>4
  <2>2. val[0] = 0 /\ \A k \in (0 + 1)..e : val[k] = Shifted(val[k - 1], 10, s[k])
    BY <1>1 DEF Reads
  <2>3. val[1] = Shifted(val[1 - 1], 10, s[1]) /\ val[2] = Shifted(val[2 - 1], 10, s[2])
    BY <2>1, <2>2
  <2> QED BY <2>2, <2>3
<1> HIDE DEF c, d
<1>6. Shifted(0, 10, c) = c - 48
  <2>1. 0 * 10 + Digit(c) = c - 48
    BY <1>2
  <2>2. uint16_t(c - 48) = c - 48
    BY <1>2 DEF uint16_t
  <2> QED BY <2>1, <2>2 DEF Shifted
<1>7. Shifted(c - 48, 10, d) = (c - 48) * 10 + (d - 48)
  <2> DEFINE n == (c - 48) * 10 + (d - 48)
  <2>1. (c - 48) * 10 + Digit(d) = n /\ n \in 0..99
    <3> DEFINE x == c - 48
               y == d - 48
    <3>1. x \in 0..9 /\ y \in 0..9 /\ Digit(d) = y
      BY <1>2
    <3> HIDE DEF x, y
    <3>2. x * 10 + Digit(d) = x * 10 + y /\ x * 10 + y \in 0..99
      BY <3>1
    <3>3. n = x * 10 + y
      BY DEF x, y
    <3> HIDE DEF n
    <3> QED BY <3>2, <3>3 DEF x, y
  <2> HIDE DEF n
  <2>2. uint16_t(n) = n
    BY <2>1 DEF uint16_t
  <2> QED BY <2>1, <2>2 DEF Shifted, n
<1> QED BY <1>1, <1>4, <1>5, <1>6, <1>7 DEF c, d

(* The colours of the levels, and the reset. *)
LevelNumbers(l) ==
    CASE l = "error" -> <<31, 1>>
      [] l = "warn"  -> <<33>>
      [] l = "info"  -> <<36>>
      [] l = "debug" -> <<37>>

LEMMA TwoDigits ==
    ASSUME NEW d \in 48..57
    PROVE  Parameters(<<51, d>>) = <<30 + d - 48>>
<1> DEFINE s == <<51, d>>
<1>1. s \in Seq(Char) /\ Len(s) = 2 /\ s[1] = 51 /\ s[2] = d
  BY DEF Char
<1> HIDE DEF s
<1>2. strtol(s, 0, 10) = [value |-> (51 - 48) * 10 + (d - 48), rest |-> 2]
  BY <1>1, ReadsTwo
<1>3. PICK f : Parameters(s) = f[0] /\ \A i \in 0..Len(s) : f[i] = ParamsFrom(s, i, f)
  BY <1>1, ParametersFrom
<1>4. f[0] = ParamsFrom(s, 0, f)
  BY <1>1, <1>3
<1>5. f[0] = <<(51 - 48) * 10 + (d - 48)>>
  <2>1. ~(2 + 1 < Len(s))
    BY <1>1
  <2>2. f[0] = Before((51 - 48) * 10 + (d - 48), <<>>)
    BY <1>2, <1>4, <2>1, ParamsTurn
  <2> QED BY <2>2, NoneBehind
<1>6. (51 - 48) * 10 + (d - 48) = 30 + d - 48
  OBVIOUS
<1> QED BY <1>3, <1>5, <1>6 DEF s

LEMMA NoDigits == Parameters(<<>>) = <<0>>
<1> DEFINE s == <<>>
<1>1. s \in Seq(Char) /\ Len(s) = 0 /\ 0 \in 0..Len(s)
  OBVIOUS
<1> HIDE DEF s
<1>2. PICK e, val : /\ Stopped(s, 0, e, 10) /\ Reads(val, s, 0, e, 10)
                    /\ strtol(s, 0, 10) = [value |-> val[e], rest |-> e]
  BY <1>1, StrtolIs
<1>3. e = 0 /\ val[0] = 0
  BY <1>1, <1>2 DEF Stopped, Reads
<1>4. PICK f : Parameters(s) = f[0] /\ \A i \in 0..Len(s) : f[i] = ParamsFrom(s, i, f)
  BY <1>1, ParametersFrom
<1>5. f[0] = ParamsFrom(s, 0, f)
  BY <1>1, <1>4
<1>6. f[0] = <<0>>
  <2>1. ~(0 + 1 < Len(s))
    BY <1>1
  <2>2. strtol(s, 0, 10) = [value |-> 0, rest |-> 0]
    BY <1>2, <1>3
  <2>3. f[0] = Before(0, <<>>)
    BY <1>5, <2>1, <2>2, ParamsTurn
  <2> QED BY <2>3, NoneBehind
<1> QED BY <1>4, <1>6 DEF s

LEMMA RedAndBold == Parameters(<<51, 49, 59, 49>>) = <<31, 1>>
<1> DEFINE s == <<51, 49, 59, 49>>
<1>1. s \in Seq(Char) /\ Len(s) = 4 /\ s[1] = 51 /\ s[2] = 49 /\ s[3] = 59 /\ s[4] = 49
  BY DEF Char
<1>2. ~isdigit(59, 10)
  BY DEF isdigit, Digit
<1> HIDE DEF s
<1>3. strtol(s, 0, 10) = [value |-> 31, rest |-> 2]
  <2>1. (51 - 48) * 10 + (49 - 48) = 31
    OBVIOUS
  <2> QED BY <1>1, <1>2, <2>1, ReadsTwo
<1>4. strtol(s, 3, 10) = [value |-> 1, rest |-> 4]
  <2>1. 49 - 48 = 1 /\ 3 + 1 = 4 /\ 3 \in 0..Len(s) /\ s[3 + 1] = 49
    BY <1>1
  <2>2. 3 < Len(s) /\ s[3 + 1] \in 48..57 /\ ~(3 + 1 < Len(s))
    BY <1>1
  <2>3. strtol(s, 3, 10) = [value |-> s[3 + 1] - 48, rest |-> 3 + 1]
    BY <1>1, <2>1, <2>2, ReadsOne
  <2> QED BY <2>1, <2>3
<1>5. PICK f : Parameters(s) = f[0] /\ \A i \in 0..Len(s) : f[i] = ParamsFrom(s, i, f)
  BY <1>1, ParametersFrom
<1>6. f[0] = ParamsFrom(s, 0, f) /\ f[3] = ParamsFrom(s, 3, f)
  BY <1>1, <1>5
<1>7. f[0] = <<31>> \o f[3]
  <2>1. f[3] = IF 2 + 1 < Len(s) THEN f[2 + 1] ELSE <<>>
    BY <1>1
  <2>2. f[0] = Before(31, f[3])
    BY <1>3, <1>6, <2>1, ParamsTurn
  <2> QED BY <2>2 DEF Before
<1>8. f[3] = <<1>>
  <2>1. ~(4 + 1 < Len(s))
    BY <1>1
  <2>2. f[3] = Before(1, <<>>)
    BY <1>4, <1>6, <2>1, ParamsTurn
  <2> QED BY <2>2, NoneBehind
<1>9. <<31>> \o <<1>> = <<31, 1>>
  <2> DEFINE t == <<31>>
             u == <<1>>
             v == <<31, 1>>
  <2>1. /\ t \in Seq(Nat) /\ u \in Seq(Nat) /\ v \in Seq(Nat) /\ Len(t) = 1 /\ Len(u) = 1 /\ Len(v) = 2
        /\ t[1] = 31 /\ u[1] = 1 /\ v[1] = 31 /\ v[2] = 1
    OBVIOUS
  <2> HIDE DEF t, u, v
  <2>2. t \o u \in Seq(Nat) /\ Len(t \o u) = 2 /\ \A i \in 1..2 : (t \o u)[i] = v[i]
    BY SMTT(30), <2>1, ConcatProperties
  <2>3. t \o u = v
    BY <2>1, <2>2, SeqEqual
  <2> QED BY <2>3 DEF t, u, v
<1> QED BY <1>5, <1>7, <1>8, <1>9 DEF s

LEMMA LevelsAre ==
    ASSUME NEW l \in Levels PROVE Parameters(LevelParams(l)) = LevelNumbers(l)
<1>1. l = "error" => LevelParams(l) = <<51, 49, 59, 49>> /\ LevelNumbers(l) = <<31, 1>>
  BY DEF LevelParams, LevelNumbers, SEMICOLON
<1>2. l = "warn" => LevelParams(l) = <<51, 51>> /\ LevelNumbers(l) = <<33>>
  BY DEF LevelParams, LevelNumbers
<1>3. l = "info" => LevelParams(l) = <<51, 54>> /\ LevelNumbers(l) = <<36>>
  BY DEF LevelParams, LevelNumbers
<1>4. l = "debug" => LevelParams(l) = <<51, 55>> /\ LevelNumbers(l) = <<37>>
  BY DEF LevelParams, LevelNumbers
<1>5. /\ Parameters(<<51, 51>>) = <<33>> /\ Parameters(<<51, 54>>) = <<36>>
      /\ Parameters(<<51, 55>>) = <<37>>
  <2>1. /\ Parameters(<<51, 51>>) = <<30 + 51 - 48>> /\ Parameters(<<51, 54>>) = <<30 + 54 - 48>>
        /\ Parameters(<<51, 55>>) = <<30 + 55 - 48>>
    BY TwoDigits
  <2>2. 30 + 51 - 48 = 33 /\ 30 + 54 - 48 = 36 /\ 30 + 55 - 48 = 37
    OBVIOUS
  <2> QED BY <2>1, <2>2
<1> QED BY <1>1, <1>2, <1>3, <1>4, <1>5, RedAndBold DEF Levels

-----------------------------------------------------------------------------
(* What the parameters do to the attribute. *)
LEMMA AppliedType ==
    ASSUME NEW a \in Byte, NEW old \in Byte, NEW n PROVE Applied(a, old, n) \in Byte
<1>1. \A c \in {0, 1, 2, 3, 4, 5, 6, 7} : WithLow(a, c) \in Byte /\ WithHigh(a, c) \in Byte
  BY DEF WithLow, WithHigh, Byte
<1>2. \A k \in 1..8 : color_table[k] \in {0, 1, 2, 3, 4, 5, 6, 7}
  BY DEF color_table
<1>3. ASSUME n \in 30..37 PROVE Foreground(a, n) \in Byte
  <2>1. n - 29 \in 1..8
    BY <1>3
  <2> QED BY <1>1, <1>2, <2>1 DEF Foreground
<1>4. ASSUME n \in 40..47 PROVE Background(a, n) \in Byte
  <2>1. n - 39 \in 1..8
    BY <1>4
  <2> QED BY <1>1, <1>2, <2>1 DEF Background
<1>5. Bold(a) \in Byte
  BY DEF Bold, Byte
<1> QED BY <1>3, <1>4, <1>5 DEF Applied

LEMMA AppliedColours ==
    ASSUME NEW a \in Byte, NEW old \in Byte
    PROVE  /\ Applied(a, old, 0) = old
           /\ a % 16 = 4 => Applied(a, old, 1) % 16 = 12
           /\ Applied(a, old, 31) % 16 = 4
           /\ Applied(a, old, 33) % 16 = 6
           /\ Applied(a, old, 36) % 16 = 3
           /\ Applied(a, old, 37) % 16 = 7
<1>1. /\ Applied(a, old, 0) = old /\ Applied(a, old, 1) = Bold(a)
      /\ Applied(a, old, 31) = Foreground(a, 31) /\ Applied(a, old, 33) = Foreground(a, 33)
      /\ Applied(a, old, 36) = Foreground(a, 36) /\ Applied(a, old, 37) = Foreground(a, 37)
  BY DEF Applied
<1>2. /\ Foreground(a, 31) = WithLow(a, 4) /\ Foreground(a, 33) = WithLow(a, 6)
      /\ Foreground(a, 36) = WithLow(a, 3) /\ Foreground(a, 37) = WithLow(a, 7)
  BY DEF Foreground, color_table
<1>3. \A c \in 0..7 : WithLow(a, c) % 16 = c
  BY DEF WithLow, Byte
<1>4. a % 16 = 4 => Bold(a) % 16 = 12
  BY DEF Bold, Byte
<1> QED BY <1>1, <1>2, <1>3, <1>4

(* A sequence of one parameter. *)
LEMMA FoldOne ==
    ASSUME NEW a, NEW old, NEW n
    PROVE  FoldLeft(LAMBDA x, y : Applied(x, old, y), a, <<n>>) = Applied(a, old, n)
<1> DEFINE D == DOMAIN <<n>>
           E(f) == [s \in SUBSET D |->
                      IF s = {} THEN a
                      ELSE LET m == Max(s) IN Applied(f[s \ {m}], old, <<n>>[m])]
           iter == CHOOSE f : f = E(f)
<1>1. FoldLeft(LAMBDA x, y : Applied(x, old, y), a, <<n>>) = iter[D]
  BY DEF FoldLeft, MapThenFoldSet
<1>2. D = {1} /\ SUBSET D = {{}, {1}}
  OBVIOUS
<1>3. Max({1}) = 1
  BY DEF Max
<1> DEFINE g == [s \in SUBSET D |-> IF s = {} THEN a ELSE Applied(a, old, n)]
<1>4. g = E(g)
  <2>1. \A s \in SUBSET D : s # {} => s = {1}
    BY <1>2
  <2>2. {1} \ {Max({1})} = {} /\ <<n>>[Max({1})] = n
    BY <1>3
  <2>3. g[{}] = a
    OBVIOUS
  <2>4. \A s \in SUBSET D : s # {} => Applied(a, old, n) = Applied(g[s \ {Max(s)}], old, <<n>>[Max(s)])
    <3> HIDE DEF g, D
    <3> QED BY <2>1, <2>2, <2>3
  <2>5. \A s \in SUBSET D : (IF s = {} THEN a ELSE Applied(a, old, n))
                              = (IF s = {} THEN a ELSE Applied(g[s \ {Max(s)}], old, <<n>>[Max(s)]))
    <3> HIDE DEF g, D
    <3> QED BY <2>4
  <2> DEFINE G(s) == IF s = {} THEN a ELSE Applied(a, old, n)
             H(s) == IF s = {} THEN a ELSE Applied(g[s \ {Max(s)}], old, <<n>>[Max(s)])
  <2>6. g = [s \in SUBSET D |-> G(s)] /\ E(g) = [s \in SUBSET D |-> H(s)]
    OBVIOUS
  <2>7. \A s \in SUBSET D : G(s) = H(s)
    BY <2>5
  <2> HIDE DEF G, H, g, E, D
  <2> QED BY <2>6, <2>7
<1>5. iter = E(iter)
  <2> HIDE DEF g, E
  <2> QED BY <1>4
<1> HIDE DEF iter
<1>6. \A s \in SUBSET D : iter[s] = IF s = {} THEN a ELSE Applied(iter[s \ {Max(s)}], old, <<n>>[Max(s)])
  BY <1>5
<1>7. {} \in SUBSET D /\ {1} \in SUBSET D /\ {1} # {} /\ {1} \ {Max({1})} = {} /\ <<n>>[Max({1})] = n
  BY <1>2, <1>3
<1>8. iter[{}] = a
  BY <1>6, <1>7
<1>9. iter[{1}] = Applied(iter[{1} \ {Max({1})}], old, <<n>>[Max({1})])
  <2> HIDE DEF D
  <2> QED BY <1>6, <1>7
<1>10. iter[{1}] = Applied(a, old, n)
  BY <1>7, <1>8, <1>9
<1> QED BY <1>1, <1>2, <1>10

(* kb_handler leaves the attribute as it was. *)
LEMMA KeyboardKeeps ==
    ASSUME KeyboardLogs, attr \in Byte, oldattr \in Byte
    PROVE  attr' = attr /\ oldattr' \in Byte
<1> DEFINE r == [attr |-> attr, old |-> oldattr]
           s == Sequenced(r, LevelParams("warn"))
           t == Sequenced(s, <<>>)
           b == Applied(attr, oldattr, 33)
<1>1. attr' = t.attr /\ oldattr' = t.old
  BY DEF KeyboardLogs
<1>2. Parameters(LevelParams("warn")) = <<33>>
  <2>1. LevelNumbers("warn") = <<33>> /\ "warn" \in Levels
    BY DEF LevelNumbers, Levels
  <2> QED BY <2>1, LevelsAre
<1>3. s = [attr |-> b, old |-> attr]
  <2>1. r.attr = attr /\ r.old = oldattr
    OBVIOUS
  <2> HIDE DEF r
  <2>2. FoldLeft(LAMBDA x, y : Applied(x, r.old, y), r.attr, <<33>>) = Applied(r.attr, r.old, 33)
    BY FoldOne
  <2>3. s = [attr |-> Applied(r.attr, r.old, 33), old |-> r.attr]
    BY <1>2, <2>2 DEF Sequenced
  <2> QED BY <2>1, <2>3
<1> HIDE DEF s
<1>4. t.attr = attr /\ t.old = b
  <2>1. t.attr = FoldLeft(LAMBDA x, y : Applied(x, s.old, y), s.attr, <<0>>) /\ t.old = s.attr
    BY NoDigits DEF Sequenced
  <2>2. FoldLeft(LAMBDA x, y : Applied(x, s.old, y), s.attr, <<0>>) = Applied(s.attr, s.old, 0)
    BY FoldOne
  <2>3. Applied(s.attr, s.old, 0) = s.old
    BY DEF Applied
  <2> QED BY <1>3, <2>1, <2>2, <2>3
<1>5. b \in Byte
  BY AppliedType
<1> QED BY <1>1, <1>4, <1>5

-----------------------------------------------------------------------------
(* The scan of a sequence of log goes to its end at once.                     *)
LEMMA SequenceText ==
    ASSUME NEW s \in Seq(48..59)
    PROVE  LET t == Text(Sequence(s))
               n == Len(s)
           IN  /\ n \in Nat /\ Len(t) = n + 4 /\ t \in Seq(Char)
               /\ t[1] = ESC /\ t[2] = BRACKET /\ t[n + 3] = M /\ t[n + 4] = NUL
               /\ \A k \in 1..n : t[k + 2] = s[k]
<1> DEFINE n == Len(s)
           a == <<ESC, BRACKET>>
           b == <<109>>
           c == a \o s
           d == c \o b
           t == Append(d, NUL)
<1>1. s \in Seq(Char) /\ n \in Nat
  <2>1. 48..59 \in SUBSET Char
    BY DEF Char
  <2> QED BY <2>1, SeqOfMore, LenProperties
<1>2. /\ a \in Seq(Char) /\ Len(a) = 2 /\ a[1] = ESC /\ a[2] = BRACKET
      /\ b \in Seq(Char) /\ Len(b) = 1 /\ b[1] = M
      /\ NUL \in Char
  BY DEF ESC, BRACKET, M, NUL, Char
<1> HIDE DEF a, b, n
<1>3. /\ c \in Seq(Char) /\ Len(c) = n + 2 /\ c[1] = ESC /\ c[2] = BRACKET
      /\ \A k \in 1..n : c[k + 2] = s[k]
  <2>1. /\ c \in Seq(Char) /\ Len(c) = Len(a) + Len(s)
        /\ \A i \in 1..(Len(a) + Len(s)) : c[i] = IF i <= Len(a) THEN a[i] ELSE s[i - Len(a)]
    BY <1>1, <1>2, ConcatProperties
  <2> HIDE DEF c
  <2>2. \A i \in 1..(n + 2) : c[i] = IF i <= 2 THEN a[i] ELSE s[i - 2]
    BY <1>1, <1>2, <2>1 DEF n
  <2>3. \A k \in 1..n : k + 2 \in 1..(n + 2) /\ ~(k + 2 <= 2) /\ (k + 2) - 2 = k
    BY <1>1
  <2>4. 1 \in 1..(n + 2) /\ 2 \in 1..(n + 2) /\ Len(c) = n + 2
    BY <1>1, <1>2, <2>1 DEF n
  <2> QED BY <1>2, <2>1, <2>2, <2>3, <2>4
<1> HIDE DEF c
<1>4. /\ d \in Seq(Char) /\ Len(d) = n + 3 /\ d[n + 3] = M
      /\ \A i \in 1..(n + 2) : d[i] = c[i]
  <2>1. /\ d \in Seq(Char) /\ Len(d) = Len(c) + Len(b)
        /\ \A i \in 1..(Len(c) + Len(b)) : d[i] = IF i <= Len(c) THEN c[i] ELSE b[i - Len(c)]
    BY <1>2, <1>3, ConcatProperties
  <2> HIDE DEF d
  <2>2. (n + 3) - (n + 2) = 1 /\ n + 3 \in 1..(n + 3) /\ ~(n + 3 <= n + 2)
    BY <1>1
  <2> QED BY <1>1, <1>2, <1>3, <2>1, <2>2
<1> HIDE DEF d
<1>5. /\ t \in Seq(Char) /\ Len(t) = n + 4 /\ t[n + 4] = NUL
      /\ \A i \in 1..(n + 3) : t[i] = d[i]
  BY <1>1, <1>2, <1>4, AppendProperties
<1>6. Text(Sequence(s)) = t
  <2>1. Sequence(s) \in TextPiece
    BY SequencePiece
  <2>2. Sequence(s).text = d /\ Sequence(s).behind = NUL
    BY DEF Sequence, a, b, c, d
  <2> QED BY <2>1, <2>2, TextOfText
<1> HIDE DEF t
<1>7. t[1] = ESC /\ t[2] = BRACKET /\ t[n + 3] = M
  <2>1. 1 \in 1..(n + 2) /\ 2 \in 1..(n + 2) /\ 1 \in 1..(n + 3) /\ 2 \in 1..(n + 3) /\ n + 3 \in 1..(n + 3)
    BY <1>1
  <2> QED BY <1>3, <1>4, <1>5, <2>1
<1>8. \A k \in 1..n : t[k + 2] = s[k]
  <2>1. \A k \in 1..n : k + 2 \in 1..(n + 2) /\ k + 2 \in 1..(n + 3)
    BY <1>1
  <2> QED BY <1>3, <1>4, <1>5, <2>1
<1> QED BY <1>1, <1>5, <1>6, <1>7, <1>8 DEF n

LEMMA SequenceScan ==
    ASSUME NEW s \in Seq(48..59), PrintTypes, buffer = Text(Sequence(s)), p = 0
    PROVE  /\ ~PutChar
           /\ end # 0
           /\ HandleAnsi => p' = end /\ print_pc' = "save" /\ params' = Parameters(s)
<1> DEFINE n == Len(s)
<1>1. /\ n \in Nat /\ Len(buffer) = n + 4 /\ buffer \in Seq(Char)
      /\ buffer[1] = ESC /\ buffer[2] = BRACKET /\ buffer[n + 3] = M /\ buffer[n + 4] = NUL
      /\ \A k \in 1..n : buffer[k + 2] = s[k]
  BY SequenceText
<1>2. \A k \in 1..n : s[k] \in 48..59
  BY ElementOfSeq
<1>3. s \in Seq(48..59) /\ Len(s) = n
  OBVIOUS
<1> HIDE DEF n
<1>4. end = n + 3 /\ CharAt(0) = ESC /\ CharAt(1) = BRACKET /\ CharAt(n + 2) = M /\ CharAt(n + 3) = NUL
  <2>1. end = n + 3
    BY <1>1 DEF end
  <2>2. 0 + 1 = 1 /\ 1 + 1 = 2 /\ (n + 2) + 1 = n + 3 /\ (n + 3) + 1 = n + 4
    BY <1>1
  <2> QED BY <1>1, <2>1, <2>2 DEF CharAt
<1>5. \A k \in 2..(n + 1) : CharAt(k) # NUL /\ ~Final(CharAt(k))
  <2> SUFFICES ASSUME NEW k \in 2..(n + 1) PROVE CharAt(k) # NUL /\ ~Final(CharAt(k))
    OBVIOUS
  <2>1. k - 1 \in 1..n /\ (k - 1) + 2 = k + 1
    BY <1>1
  <2>2. CharAt(k) = s[k - 1]
    BY <1>1, <2>1 DEF CharAt
  <2>3. CharAt(k) \in 48..59
    BY <1>2, <2>1, <2>2
  <2> QED BY <2>3 DEF NUL, Final
<1>6. Stop(1) = n + 2
  <2>1. 1 \in 0..(end - 1)
    BY <1>1, <1>4
  <2>2. /\ Stop(1) \in (1 + 1)..end
        /\ Stop(1) = end \/ CharAt(Stop(1)) = NUL \/ Final(CharAt(Stop(1)))
        /\ \A j \in (1 + 1)..(Stop(1) - 1) : j < end /\ CharAt(j) # NUL /\ ~Final(CharAt(j))
    BY <2>1, StopIs
  <2> DEFINE k == Stop(1)
  <2> HIDE DEF k
  <2>3. k \in 2..(n + 3)
    BY <1>1, <1>4, <2>2 DEF k
  <2>4. ~(k > n + 2)
    <3> SUFFICES ASSUME k > n + 2 PROVE FALSE
      OBVIOUS
    <3>1. n + 2 \in (1 + 1)..(k - 1)
      BY <1>1, <2>3
    <3>2. Final(M)
      BY DEF Final, M
    <3> QED BY <1>4, <2>2, <3>1, <3>2 DEF k
  <2>5. ~(k < n + 2)
    <3> SUFFICES ASSUME k < n + 2 PROVE FALSE
      OBVIOUS
    <3>1. k \in 2..(n + 1) /\ k # end
      BY <1>1, <1>4, <2>3
    <3> QED BY <1>5, <2>2, <3>1 DEF k
  <2> QED BY <1>1, <2>3, <2>4, <2>5 DEF k
<1>7. Introduced(1) /\ ~EndOfString(n + 2)
  BY <1>1, <1>4 DEF Introduced, EndOfString, M, NUL
<1>8. SubSeq(buffer, 1 + 2, n + 2) = s
  <2> DEFINE t == SubSeq(buffer, 1 + 2, n + 2)
  <2>1. 1 + 2 \in Int /\ n + 2 \in Int /\ \A i \in (1 + 2)..(n + 2) : buffer[i] \in 48..59
    <3> SUFFICES ASSUME NEW i \in (1 + 2)..(n + 2) PROVE buffer[i] \in 48..59
      BY <1>1
    <3>1. i - 2 \in 1..n /\ (i - 2) + 2 = i
      BY <1>1
    <3> QED BY <1>1, <1>2, <3>1
  <2>2. /\ t \in Seq(48..59)
        /\ Len(t) = (IF 1 + 2 <= n + 2 THEN (n + 2) - (1 + 2) + 1 ELSE 0)
        /\ \A i \in 1..((n + 2) - (1 + 2) + 1) : t[i] = buffer[(1 + 2) + i - 1]
    BY SMTT(30), <2>1, SubSeqProperties
  <2> HIDE DEF t
  <2>3. Len(t) = n
    BY <1>1, <2>2
  <2>4. ASSUME NEW i \in 1..Len(t) PROVE t[i] = s[i]
    <3>1. i \in 1..n /\ i \in 1..((n + 2) - (1 + 2) + 1) /\ (1 + 2) + i - 1 = i + 2
      BY <1>1, <2>3
    <3> QED BY <1>1, <2>2, <3>1
  <2>5. t = s
    BY <1>3, <2>2, <2>3, <2>4, SeqEqual
  <2> QED BY <2>5 DEF t
<1>9. ~PutChar
  BY <1>4 DEF PutChar
<1>10. ASSUME HandleAnsi PROVE p' = end /\ print_pc' = "save" /\ params' = Parameters(s)
  <2>1. (p + 1) = 1
    OBVIOUS
  <2>2. /\ p' = Stop(1) + 1
        /\ CharAt(Stop(1)) = M => params' = Parameters(SubSeq(buffer, 1 + 2, Stop(1))) /\ print_pc' = "save"
    BY <1>6, <1>7, <1>10, <2>1 DEF HandleAnsi
  <2>3. (n + 2) + 1 = n + 3
    BY <1>1
  <2> QED BY <1>4, <1>6, <1>8, <2>2, <2>3
<1> QED BY <1>1, <1>4, <1>9, <1>10

-----------------------------------------------------------------------------
(* The pieces a message has left: none but the last, which resets the         *)
(* colour, has an escape.                                                    *)
PlainPiece(t) == t \in TextPiece => \A k \in DOMAIN t.text : t.text[k] # ESC

MessageLeft(ps) ==
    Len(ps) >= 1 /\ ps[Len(ps)] = Reset /\ \A i \in 1..(Len(ps) - 1) : PlainPiece(ps[i])

PlainText(s) == \A k \in 1..(Len(s) - 1) : s[k] # ESC

(* Nothing but the handler has put another attribute in oldattr.             *)
Restorable == interrupted \/ oldattr = found

Restored == interrupted \/ attr = found

Coloured == attr % 16 = LevelColour(level)

(* While the sequence of the level is printed. *)
Colouring ==
    \/ params = LevelNumbers(level)
    \/ level = "error" /\ params = <<1>> /\ attr % 16 = 4
    \/ params = <<>> /\ Coloured

AtLevel ==
    /\ buffer = Text(LevelPiece(level))
    /\ MessageLeft(pieces) /\ Len(pieces) >= 2
    /\ \/ print_pc = "scan" /\ p = 0 /\ attr = found
       \/ print_pc = "save" /\ p = end /\ attr = found /\ params = LevelNumbers(level)
       \/ print_pc = "apply" /\ p = end /\ saved = found /\ Colouring
       \/ print_pc = "scan" /\ p = end /\ Coloured /\ Restorable

AtMessage ==
    /\ print_pc = "scan" /\ p \in Nat
    /\ MessageLeft(pieces)
    /\ PlainText(buffer)
    /\ Coloured /\ Restorable

(* While the sequence behind it is. *)
AtReset ==
    /\ buffer = Text(Reset)
    /\ pieces = <<>>
    /\ \/ print_pc = "scan" /\ p = 0 /\ Restorable
       \/ print_pc \in {"save", "apply"} /\ p = end /\ params = <<0>> /\ Restorable
       \/ print_pc = "apply" /\ p = end /\ params = <<>> /\ Restored
       \/ print_pc = "scan" /\ p = end /\ Restored

ColourTypes ==
    /\ PrintTypes
    /\ attr \in Byte /\ oldattr \in Byte /\ saved \in Byte
    /\ part \in {"text", "level", "message", "reset"}
    /\ part # "text" => level \in Levels
    /\ print_pc = "idle" => part = "text" /\ p = 0

Phases ==
    /\ part = "level" => AtLevel
    /\ part = "message" => AtMessage
    /\ part = "reset" => AtReset

ColourInv == ColourTypes /\ Phases

-----------------------------------------------------------------------------
LEMMA ColourTypesStep == ASSUME ColourTypes, [PrintNext]_print_vars PROVE ColourTypes'
<1>1. PrintTypes'
  BY PrintTypesStep DEF ColourTypes
<1>2. ASSUME NEW t \in Texts, printf(t) PROVE ColourTypes'
  BY <1>1, <1>2 DEF ColourTypes, printf, colours, scan
<1>3. ASSUME NEW l \in Levels, NEW m \in Messages, log(l, m) PROVE ColourTypes'
  BY <1>1, <1>3 DEF ColourTypes, log, colours
<1>4. CASE NextPiece
  <2>1. part' \in {"text", "level", "message", "reset"} /\ (part' # "text" => part # "text")
    BY <1>4 DEF NextPiece, ColourTypes
  <2> QED BY <1>1, <1>4, <2>1 DEF ColourTypes, NextPiece, colours
<1>5. CASE Returns
  BY <1>1, <1>5 DEF ColourTypes, Returns, colours
<1>6. CASE PutChar
  BY <1>1, <1>6 DEF ColourTypes, PutChar, colours, caller
<1>7. CASE HandleAnsi
  <2>1. UNCHANGED <<colours, caller, saved>> /\ print_pc' # "idle"
    BY <1>7 DEF HandleAnsi
  <2> QED BY <1>1, <2>1 DEF ColourTypes, colours, caller
<1>8. CASE Save
  BY <1>1, <1>8 DEF ColourTypes, Save, colours, caller
<1>9. CASE Apply
  <2>1. Applied(attr, oldattr, Head(params)) \in Byte
    BY AppliedType DEF ColourTypes
  <2> QED BY <1>1, <1>9, <2>1 DEF ColourTypes, Apply, caller
<1>10. CASE StoreOld
  BY <1>1, <1>10 DEF ColourTypes, StoreOld, caller, Byte
<1>11. CASE KeyboardLogs
  <2>1. UNCHANGED <<print_pc, caller, scan, saved>>
    BY <1>11 DEF KeyboardLogs
  <2>2. attr' = attr /\ oldattr' \in Byte
    BY <1>11, KeyboardKeeps DEF ColourTypes
  <2> QED BY <1>1, <2>1, <2>2 DEF ColourTypes, caller, scan
<1>12. CASE UNCHANGED print_vars
  BY <1>1, <1>12 DEF ColourTypes, print_vars, colours, caller, scan
<1> QED BY <1>2, <1>3, <1>4, <1>5, <1>6, <1>7, <1>8, <1>9, <1>10, <1>11, <1>12 DEF PrintNext

(* The sequences of log, as the scan finds them. *)
LEMMA LevelScan ==
    ASSUME ColourTypes, level \in Levels, buffer = Text(LevelPiece(level)), p = 0
    PROVE  /\ ~PutChar /\ end # 0
           /\ HandleAnsi => p' = end /\ print_pc' = "save" /\ params' = LevelNumbers(level)
<1>1. LevelParams(level) \in Seq(48..59)
  <2>1. /\ <<51, 49, 59, 49>> \in Seq(48..59) /\ <<51, 51>> \in Seq(48..59)
        /\ <<51, 54>> \in Seq(48..59) /\ <<51, 55>> \in Seq(48..59)
    OBVIOUS
  <2>2. LevelParams(level) \in {<<51, 49, 59, 49>>, <<51, 51>>, <<51, 54>>, <<51, 55>>}
    BY DEF Levels, LevelParams, SEMICOLON
  <2> QED BY <2>1, <2>2
<1>2. Parameters(LevelParams(level)) = LevelNumbers(level)
  BY LevelsAre
<1>3. buffer = Text(Sequence(LevelParams(level))) /\ PrintTypes
  BY DEF LevelPiece, ColourTypes
<1> QED BY <1>1, <1>2, <1>3, SequenceScan

LEMMA ResetScan ==
    ASSUME ColourTypes, buffer = Text(Reset), p = 0
    PROVE  /\ ~PutChar /\ end # 0
           /\ HandleAnsi => p' = end /\ print_pc' = "save" /\ params' = <<0>>
<1>1. <<>> \in Seq(48..59) /\ Parameters(<<>>) = <<0>>
  BY NoDigits
<1>2. buffer = Text(Sequence(<<>>)) /\ PrintTypes
  BY DEF Reset, ColourTypes
<1> QED BY <1>1, <1>2, SequenceScan

(* What comes of the pieces of a message. *)
LEMMA PlainIs ==
    ASSUME NEW t \in Piece, PlainPiece(t) PROVE PlainText(Text(t))
<1>1. ASSUME NEW s \in Seq(Char), NEW c \in Char, Text(t) = Append(s, c),
             \A k \in 1..Len(s) : s[k] # ESC
      PROVE  PlainText(Text(t))
  <2>1. /\ Len(Append(s, c)) = Len(s) + 1 /\ Len(s) \in Nat
        /\ \A k \in 1..Len(s) : Append(s, c)[k] = s[k]
    BY AppendProperties, LenProperties
  <2>2. \A k \in 1..(Len(Append(s, c)) - 1) : k \in 1..Len(s)
    BY <2>1
  <2> QED BY <1>1, <2>1, <2>2 DEF PlainText
<1>2. CASE t \in TextPiece
  <2>1. t.text \in Seq(Char) /\ t.behind \in Ending
    BY <1>2 DEF TextPiece, Ending
  <2>2. DOMAIN t.text = 1..Len(t.text)
    BY <2>1, LenProperties
  <2>3. \A k \in 1..Len(t.text) : t.text[k] # ESC
    BY <1>2, <2>2 DEF PlainPiece
  <2> QED BY <1>1, <1>2, <2>1, <2>3, TextOfText, PrintedChars
<1>3. CASE t \in NumberPiece
  <2> DEFINE s == itoa_s(t.value, t.base, t.pad, t.w)
  <2>1. t.value \in Int /\ t.base \in {10, 16} /\ t.pad \in {NUL, ZERO} /\ t.w \in Nat
    BY <1>3 DEF NumberPiece
  <2>2. s \in Seq(Printed)
    BY <2>1, ItoaIs DEF Prints
  <2>3. Text(t) = Append(s, NUL)
    BY <1>3, TextOfNumber
  <2> HIDE DEF s
  <2>4. s \in Seq(Char) /\ NUL \in Char
    BY <2>2, PrintedChars, SeqOfMore DEF Ending
  <2>5. \A k \in 1..Len(s) : s[k] # ESC
    <3>1. ESC \notin Printed
      BY DEF ESC, Printed, MINUS, NUL
    <3> QED BY <2>2, <3>1, ElementOfSeq
  <2> QED BY <1>1, <2>3, <2>4, <2>5
<1> QED BY <1>2, <1>3 DEF Piece

LEMMA MessageStarts ==
    ASSUME PlainMessages, NEW m \in Messages
    PROVE  LET ps == m \o <<Newline, Reset>> IN MessageLeft(ps) /\ Len(ps) >= 2
<1> DEFINE e == <<Newline, Reset>>
           ps == m \o e
           n == Len(m)
<1>1. m \in Seq(Piece) /\ e \in Seq(Piece)
  BY PieceAssumption, LevelPieces
<1>2. n \in Nat /\ Len(e) = 2 /\ e[1] = Newline /\ e[2] = Reset /\ DOMAIN m = 1..n
  BY <1>1, LenProperties
<1>3. /\ Len(ps) = Len(m) + Len(e)
      /\ \A i \in 1..(Len(m) + Len(e)) : ps[i] = IF i <= Len(m) THEN m[i] ELSE e[i - Len(m)]
  BY <1>1, ConcatProperties
<1> HIDE DEF ps, e
<1>4. Len(ps) = n + 2 /\ \A i \in 1..(n + 2) : ps[i] = IF i <= n THEN m[i] ELSE e[i - n]
  BY <1>2, <1>3
<1>5. PlainPiece(Newline)
  <2>1. Newline.text = <<NEWLINE>> /\ DOMAIN <<NEWLINE>> = {1} /\ <<NEWLINE>>[1] # ESC
    BY DEF Newline, NEWLINE, ESC
  <2> QED BY <2>1 DEF PlainPiece
<1>6. \A i \in 1..n : PlainPiece(m[i])
  BY <1>2 DEF PlainMessages, PlainPiece
<1> HIDE DEF n
<1>7. ps[n + 2] = Reset /\ ps[n + 1] = Newline
  <2>1. n + 2 \in 1..(n + 2) /\ n + 1 \in 1..(n + 2) /\ ~(n + 2 <= n) /\ ~(n + 1 <= n)
        /\ (n + 2) - n = 2 /\ (n + 1) - n = 1
    BY <1>2
  <2> QED BY <1>2, <1>4, <2>1
<1>8. ASSUME NEW i \in 1..(Len(ps) - 1) PROVE PlainPiece(ps[i])
  <2>1. i \in 1..(n + 2) /\ (i = n + 1 \/ (i <= n /\ i \in 1..n))
    BY <1>2, <1>4
  <2>2. CASE i = n + 1
    BY <1>5, <1>7, <2>2
  <2>3. CASE i <= n /\ i \in 1..n
    BY <1>4, <1>6, <2>1, <2>3
  <2> QED BY <2>1, <2>2, <2>3
<1>9. Len(ps) >= 2
  BY <1>2, <1>4
<1> QED BY <1>4, <1>7, <1>8, <1>9 DEF MessageLeft, ps, e

LEMMA MessageGoesOn ==
    ASSUME NEW ps \in Seq(Piece), MessageLeft(ps)
    PROVE  /\ ps # <<>> /\ Head(ps) \in Piece
           /\ Len(ps) = 1 => Head(ps) = Reset /\ Tail(ps) = <<>>
           /\ Len(ps) # 1 => PlainPiece(Head(ps)) /\ MessageLeft(Tail(ps))
<1> DEFINE n == Len(ps)
           t == Tail(ps)
<1>1. n \in Nat /\ n >= 1 /\ ps[n] = Reset /\ \A i \in 1..(n - 1) : PlainPiece(ps[i])
  BY LenProperties DEF MessageLeft
<1>2. ps # <<>>
  BY <1>1
<1>3. Head(ps) \in Piece /\ Head(ps) = ps[1] /\ Len(t) = n - 1 /\ \A i \in 1..(n - 1) : t[i] = ps[i + 1]
      /\ t \in Seq(Piece)
  BY <1>2, HeadTailProperties
<1> HIDE DEF n, t
<1>4. n = 1 => Head(ps) = Reset /\ t = <<>>
  <2> SUFFICES ASSUME n = 1 PROVE Head(ps) = Reset /\ t = <<>>
    OBVIOUS
  <2>1. Len(t) = 0 /\ ps[1] = Reset
    BY <1>1, <1>3
  <2> QED BY <1>3, <2>1, EmptySeq
<1>5. n # 1 => PlainPiece(Head(ps)) /\ MessageLeft(t)
  <2> SUFFICES ASSUME n # 1 PROVE PlainPiece(Head(ps)) /\ MessageLeft(t)
    OBVIOUS
  <2>1. 1 \in 1..(n - 1) /\ n - 1 \in 1..(n - 1) /\ (n - 1) + 1 = n /\ n - 1 >= 1
    BY <1>1
  <2>2. t[n - 1] = Reset
    BY <1>1, <1>3, <2>1
  <2>3. \A i \in 1..((n - 1) - 1) : i \in 1..(n - 1) /\ i + 1 \in 1..(n - 1)
    BY <1>1
  <2>4. \A i \in 1..((n - 1) - 1) : PlainPiece(t[i])
    BY <1>1, <1>3, <2>3
  <2> QED BY <1>1, <1>3, <2>1, <2>2, <2>4 DEF MessageLeft
<1> QED BY <1>2, <1>3, <1>4, <1>5 DEF n, t

(* Each action, in the phase that is left. *)
LEMMA PhaseKept ==
    ASSUME Phases, part' = part, level' = level, pieces' = pieces, buffer' = buffer, p' = p,
           print_pc' = print_pc, params' = params, attr' = attr, saved' = saved, found' = found,
           interrupted' = interrupted, oldattr' = oldattr
    PROVE  Phases'
BY DEF Phases, AtLevel, AtMessage, AtReset, Restorable, Restored, Coloured, Colouring, end

LEMMA LogPhase ==
    ASSUME PlainMessages, ColourTypes, NEW l \in Levels, NEW m \in Messages, log(l, m)
    PROVE  Phases'
<1>1. MessageLeft(m \o <<Newline, Reset>>) /\ Len(m \o <<Newline, Reset>>) >= 2
  BY MessageStarts
<1>2. /\ level' = l /\ part' = "level" /\ buffer' = Text(LevelPiece(l))
      /\ pieces' = m \o <<Newline, Reset>> /\ print_pc' = "scan" /\ p' = p /\ attr' = attr
      /\ found' = attr /\ print_pc = "idle"
  BY DEF log, colours
<1>3. p = 0
  BY <1>2 DEF ColourTypes
<1> QED BY <1>1, <1>2, <1>3 DEF Phases, AtLevel

LEMMA NextPiecePhase ==
    ASSUME ColourTypes, Phases, NextPiece
    PROVE  Phases'
<1>1. /\ print_pc = "scan" /\ p >= end /\ pieces # <<>>
      /\ buffer' = Text(Head(pieces)) /\ pieces' = Tail(pieces) /\ p' = 0
      /\ part' = (CASE part = "level" -> "message"
                    [] part = "message" /\ Len(pieces) = 1 -> "reset"
                    [] OTHER -> part)
      /\ UNCHANGED <<attr, oldattr, print_pc, level, params, saved, found, interrupted>>
  BY DEF NextPiece, colours, history
<1>2. pieces \in Seq(Piece) /\ PrintTypes
  BY DEF ColourTypes, PrintTypes
<1>3. CASE part = "level"
  <2>1. MessageLeft(pieces) /\ Len(pieces) # 1 /\ AtLevel
    <3>1. AtLevel
      BY <1>3 DEF Phases
    <3>2. Len(pieces) \in Nat
      BY <1>2, LenProperties
    <3>3. MessageLeft(pieces) /\ Len(pieces) >= 2
      BY <3>1 DEF AtLevel
    <3>4. Len(pieces) # 1
      <4> DEFINE n == Len(pieces)
      <4>1. n \in Nat /\ n >= 2
        BY <3>2, <3>3
      <4> HIDE DEF n
      <4>2. n # 1
        BY ONLY <4>1
      <4> QED BY <4>2 DEF n
    <3> QED BY <3>1, <3>3, <3>4
  <2>2. Head(pieces) \in Piece /\ PlainPiece(Head(pieces)) /\ MessageLeft(Tail(pieces))
    BY <1>2, <2>1, MessageGoesOn
  <2>3. PlainText(Text(Head(pieces)))
    BY <2>2, PlainIs
  <2>4. Coloured /\ Restorable
    <3>1. p # 0
      <4> SUFFICES ASSUME p = 0 PROVE FALSE
        OBVIOUS
      <4>1. level \in Levels /\ buffer = Text(LevelPiece(level))
        BY <1>3, <2>1 DEF ColourTypes, AtLevel
      <4>2. end # 0 /\ end \in Nat
        BY <1>2, <4>1, LevelScan, BufferShown
      <4> QED BY <1>1, <4>2
    <3> QED BY <1>1, <2>1, <3>1 DEF AtLevel
  <2>5. part' = "message"
    BY <1>1, <1>3
  <2> QED BY <1>1, <2>2, <2>3, <2>4, <2>5 DEF Phases, AtMessage, Coloured, Restorable
<1>4. CASE part = "message" /\ Len(pieces) = 1
  <2>1. AtMessage
    BY <1>4 DEF Phases
  <2>2. Head(pieces) = Reset /\ Tail(pieces) = <<>>
    BY <1>2, <1>4, <2>1, MessageGoesOn DEF AtMessage
  <2>3. part' = "reset"
    BY <1>1, <1>4
  <2> QED BY <1>1, <2>1, <2>2, <2>3 DEF Phases, AtMessage, AtReset, Restorable
<1>5. CASE part = "message" /\ Len(pieces) # 1
  <2>1. AtMessage
    BY <1>5 DEF Phases
  <2>2. Head(pieces) \in Piece /\ PlainPiece(Head(pieces)) /\ MessageLeft(Tail(pieces))
    BY <1>2, <1>5, <2>1, MessageGoesOn DEF AtMessage
  <2>3. PlainText(Text(Head(pieces)))
    BY <2>2, PlainIs
  <2>4. part' = "message"
    BY <1>1, <1>5
  <2> QED BY <1>1, <2>1, <2>2, <2>3, <2>4 DEF Phases, AtMessage, Coloured, Restorable
<1>6. CASE part = "reset"
  BY <1>1, <1>6 DEF Phases, AtReset
<1>7. CASE part = "text"
  <2>1. part' = "text"
    BY <1>1, <1>7
  <2> QED BY <2>1 DEF Phases
<1> QED BY <1>3, <1>4, <1>5, <1>6, <1>7 DEF ColourTypes

LEMMA PutCharPhase == ASSUME ColourTypes, Phases, PutChar PROVE Phases'
<1>1. /\ p' = p + 1
      /\ UNCHANGED <<attr, oldattr, print_pc, level, part, pieces, buffer, params, saved, found, interrupted>>
  BY DEF PutChar, colours, caller, history
<1>0. print_pc = "scan" /\ p < end /\ end \in Nat
  BY BufferShown DEF PutChar, ColourTypes
<1>2. part # "level"
  <2> SUFFICES ASSUME part = "level" PROVE FALSE
    OBVIOUS
  <2>1. AtLevel /\ level \in Levels
    BY DEF Phases, ColourTypes
  <2>2. p = 0
    BY <1>0, <2>1 DEF AtLevel
  <2> QED BY <2>1, <2>2, LevelScan DEF AtLevel
<1>3. part # "reset"
  <2> SUFFICES ASSUME part = "reset" PROVE FALSE
    OBVIOUS
  <2>1. AtReset
    BY DEF Phases
  <2>2. p = 0
    BY <1>0, <2>1 DEF AtReset
  <2> QED BY <2>1, <2>2, ResetScan DEF AtReset
<1> QED BY <1>1, <1>2, <1>3 DEF Phases, AtMessage, Coloured, Restorable

LEMMA HandleAnsiPhase == ASSUME ColourTypes, Phases, HandleAnsi PROVE Phases'
<1>1. UNCHANGED <<attr, oldattr, level, part, pieces, buffer, saved, found, interrupted>>
  BY DEF HandleAnsi, colours, caller, history
<1>0. print_pc = "scan" /\ p < end /\ end \in Nat /\ CharAt(p) = ESC
  BY BufferShown DEF HandleAnsi, ColourTypes
<1>2. CASE part = "level"
  <2>1. AtLevel /\ level \in Levels
    BY <1>2 DEF Phases, ColourTypes
  <2>2. p = 0 /\ attr = found
    BY <1>0, <2>1 DEF AtLevel
  <2>3. p' = end /\ print_pc' = "save" /\ params' = LevelNumbers(level)
    BY <2>1, <2>2, LevelScan DEF AtLevel
  <2> QED BY <1>1, <1>2, <2>1, <2>2, <2>3 DEF Phases, AtLevel, end
<1>3. part # "message"
  <2> SUFFICES ASSUME part = "message" PROVE FALSE
    OBVIOUS
  <2>1. AtMessage /\ Len(buffer) \in Nat
    BY DEF Phases, ColourTypes, PrintTypes
  <2>2. p + 1 \in 1..(Len(buffer) - 1)
    BY <1>0, <2>1 DEF AtMessage, end
  <2> QED BY <1>0, <2>1, <2>2 DEF AtMessage, PlainText, CharAt
<1>4. CASE part = "reset"
  <2>1. AtReset
    BY <1>4 DEF Phases
  <2>2. p = 0 /\ Restorable
    BY <1>0, <2>1 DEF AtReset
  <2>3. p' = end /\ print_pc' = "save" /\ params' = <<0>>
    BY <2>1, <2>2, ResetScan DEF AtReset
  <2> QED BY <1>1, <1>4, <2>1, <2>2, <2>3 DEF Phases, AtReset, end, Restorable
<1>5. CASE part = "text"
  BY <1>1, <1>5 DEF Phases
<1> QED BY <1>2, <1>3, <1>4, <1>5 DEF ColourTypes

LEMMA SavePhase == ASSUME ColourTypes, Phases, Save PROVE Phases'
<1>1. /\ print_pc = "save" /\ saved' = attr /\ print_pc' = "apply"
      /\ UNCHANGED <<attr, oldattr, level, part, pieces, buffer, p, params, found, interrupted>>
  BY DEF Save, colours, caller, scan, history
<1>2. part # "message"
  BY <1>1 DEF Phases, AtMessage
<1>3. CASE part = "level"
  BY <1>1, <1>3 DEF Phases, AtLevel, Colouring, end
<1>4. CASE part = "reset"
  BY <1>1, <1>4 DEF Phases, AtReset, Restorable, end
<1>5. CASE part = "text"
  BY <1>1, <1>5 DEF Phases
<1> QED BY <1>2, <1>3, <1>4, <1>5 DEF ColourTypes

LEMMA ApplyPhase == ASSUME ColourTypes, Phases, Apply PROVE Phases'
<1>1. /\ print_pc = "apply" /\ params # <<>>
      /\ attr' = Applied(attr, oldattr, Head(params)) /\ params' = Tail(params)
      /\ UNCHANGED <<oldattr, print_pc, level, part, pieces, buffer, p, saved, found, interrupted>>
  BY DEF Apply, caller, scan, history
<1>2. part # "message"
  BY <1>1 DEF Phases, AtMessage
<1>3. CASE part = "level"
  <2>1. AtLevel /\ level \in Levels
    BY <1>3 DEF Phases, ColourTypes
  <2>2. p = end /\ saved = found /\ Colouring
    BY <1>1, <2>1 DEF AtLevel
  <2>3. /\ attr % 16 = 4 => Applied(attr, oldattr, 1) % 16 = 12
        /\ Applied(attr, oldattr, 31) % 16 = 4
        /\ Applied(attr, oldattr, 33) % 16 = 6
        /\ Applied(attr, oldattr, 36) % 16 = 3
        /\ Applied(attr, oldattr, 37) % 16 = 7
    BY AppliedColours DEF ColourTypes
  <2>4. /\ Head(<<31, 1>>) = 31 /\ Tail(<<31, 1>>) = <<1>> /\ Head(<<1>>) = 1 /\ Tail(<<1>>) = <<>>
        /\ Head(<<33>>) = 33 /\ Tail(<<33>>) = <<>> /\ Head(<<36>>) = 36 /\ Tail(<<36>>) = <<>>
        /\ Head(<<37>>) = 37 /\ Tail(<<37>>) = <<>>
    OBVIOUS
  <2>5. \/ params' = <<1>> /\ level = "error" /\ attr' % 16 = 4
        \/ params' = <<>> /\ attr' % 16 = LevelColour(level)
    <3>1. CASE params = LevelNumbers(level)
      <4>1. CASE level = "error"
        <5>1. params = <<31, 1>>
          BY <3>1, <4>1 DEF LevelNumbers
        <5> QED BY <1>1, <2>3, <2>4, <4>1, <5>1
      <4>2. CASE level = "warn"
        <5>1. params = <<33>> /\ LevelColour(level) = 6
          BY <3>1, <4>2 DEF LevelNumbers, LevelColour
        <5> QED BY <1>1, <2>3, <2>4, <5>1
      <4>3. CASE level = "info"
        <5>1. params = <<36>> /\ LevelColour(level) = 3
          BY <3>1, <4>3 DEF LevelNumbers, LevelColour
        <5> QED BY <1>1, <2>3, <2>4, <5>1
      <4>4. CASE level = "debug"
        <5>1. params = <<37>> /\ LevelColour(level) = 7
          BY <3>1, <4>4 DEF LevelNumbers, LevelColour
        <5> QED BY <1>1, <2>3, <2>4, <5>1
      <4> QED BY <2>1, <4>1, <4>2, <4>3, <4>4 DEF Levels
    <3>2. CASE level = "error" /\ params = <<1>> /\ attr % 16 = 4
      <4>1. LevelColour(level) = 12
        BY <3>2 DEF LevelColour
      <4> QED BY <1>1, <2>3, <2>4, <3>2, <4>1
    <3> QED BY <1>1, <2>2, <3>1, <3>2 DEF Colouring
  <2> QED BY <1>1, <1>3, <2>1, <2>2, <2>5 DEF Phases, AtLevel, Colouring, Coloured, end
<1>4. CASE part = "reset"
  <2>1. AtReset
    BY <1>4 DEF Phases
  <2>2. params = <<0>> /\ p = end /\ Restorable
    BY <1>1, <2>1 DEF AtReset
  <2>3. attr' = oldattr /\ params' = <<>>
    <3>1. Head(<<0>>) = 0 /\ Tail(<<0>>) = <<>>
      OBVIOUS
    <3>2. Applied(attr, oldattr, 0) = oldattr
      BY AppliedColours DEF ColourTypes
    <3> QED BY <1>1, <2>2, <3>1, <3>2
  <2> QED BY <1>1, <1>4, <2>1, <2>2, <2>3 DEF Phases, AtReset, Restorable, Restored, end
<1>5. CASE part = "text"
  BY <1>1, <1>5 DEF Phases
<1> QED BY <1>2, <1>3, <1>4, <1>5 DEF ColourTypes

LEMMA StoreOldPhase == ASSUME ColourTypes, Phases, StoreOld PROVE Phases'
<1>1. /\ print_pc = "apply" /\ params = <<>> /\ oldattr' = saved /\ print_pc' = "scan"
      /\ UNCHANGED <<attr, level, part, pieces, buffer, p, params, found, interrupted>>
  BY DEF StoreOld, caller, scan, history
<1>2. part # "message"
  BY <1>1 DEF Phases, AtMessage
<1>3. CASE part = "level"
  <2>1. AtLevel /\ level \in Levels
    BY <1>3 DEF Phases, ColourTypes
  <2>2. p = end /\ saved = found /\ Colouring
    BY <1>1, <2>1 DEF AtLevel
  <2>3. Coloured
    <3>1. LevelNumbers(level) # <<>>
      <4>1. <<31, 1>> # <<>> /\ <<33>> # <<>> /\ <<36>> # <<>> /\ <<37>> # <<>>
        OBVIOUS
      <4> QED BY <2>1, <4>1 DEF LevelNumbers, Levels
    <3> QED BY <1>1, <2>2, <3>1 DEF Colouring
  <2> QED BY <1>1, <1>3, <2>1, <2>2, <2>3 DEF Phases, AtLevel, Coloured, Restorable, end
<1>4. CASE part = "reset"
  <2>1. AtReset
    BY <1>4 DEF Phases
  <2>2. p = end /\ Restored
    BY <1>1, <2>1 DEF AtReset
  <2> QED BY <1>1, <1>4, <2>1, <2>2 DEF Phases, AtReset, Restored, end
<1>5. CASE part = "text"
  BY <1>1, <1>5 DEF Phases
<1> QED BY <1>2, <1>3, <1>4, <1>5 DEF ColourTypes

LEMMA KeyboardPhase == ASSUME ColourTypes, Phases, KeyboardLogs PROVE Phases'
<1>1. /\ interrupted' = (level # "none")
      /\ UNCHANGED <<print_pc, level, part, pieces, buffer, p, params, saved, found>>
  BY DEF KeyboardLogs, caller, scan
<1>2. attr' = attr
  BY KeyboardKeeps DEF ColourTypes
<1>3. part # "text" => interrupted'
  BY <1>1 DEF ColourTypes, Levels
<1>4. CASE part = "text"
  BY <1>1, <1>4 DEF Phases
<1>5. CASE part # "text"
  BY <1>1, <1>2, <1>3, <1>5 DEF Phases, AtLevel, AtMessage, AtReset, Restorable, Restored, Coloured, Colouring, end
<1> QED BY <1>4, <1>5

LEMMA ColourStep == ASSUME PlainMessages, ColourInv, [PrintNext]_print_vars PROVE ColourInv'
<1> SUFFICES Phases'
  BY ColourTypesStep DEF ColourInv
<1>1. ColourTypes /\ Phases
  BY DEF ColourInv
<1>2. ASSUME NEW t \in Texts, printf(t) PROVE Phases'
  <2>1. part' = "text"
    BY <1>1, <1>2 DEF printf, ColourTypes
  <2> QED BY <2>1 DEF Phases
<1>3. CASE Returns
  <2>1. part' = "text"
    BY <1>3 DEF Returns
  <2> QED BY <2>1 DEF Phases
<1>4. CASE UNCHANGED print_vars
  BY <1>1, <1>4, PhaseKept DEF print_vars, colours, caller, scan, history
<1> QED BY <1>1, <1>2, <1>3, <1>4, LogPhase, NextPiecePhase, PutCharPhase, HandleAnsiPhase,
           SavePhase, ApplyPhase, StoreOldPhase, KeyboardPhase DEF PrintNext

(* Whatever text and interrupts have made of the attributes before, a message *)
(* that is logged is printed in the colour of its level, and log leaves the    *)
(* colour it found, unless the keyboard handler has logged meanwhile: then it  *)
(* is oldattr of the handler that is left.                                   *)
THEOREM MessagesColoured == PlainMessages => (PrintSpec => []LogColours)
<1> SUFFICES ASSUME PlainMessages PROVE PrintSpec => []LogColours
  OBVIOUS
<1>1. ASSUME PrintInit PROVE ColourInv
  <2>1. PrintTypes
    BY <1>1, PrintTypesInit
  <2>2. 0 \in Byte
    BY DEF Byte
  <2> QED BY <1>1, <2>1, <2>2, AttrAssumption DEF PrintInit, NoScan, ColourInv, ColourTypes, Phases
<1>2. ASSUME ColourInv PROVE LogColours
  <2>1. part = "message" => attr % 16 = LevelColour(level)
    BY <1>2 DEF ColourInv, Phases, AtMessage, Coloured
  <2>2. ASSUME part = "reset", print_pc = "scan", p >= end, ~interrupted PROVE attr = found
    <3>1. AtReset /\ ColourTypes
      BY <1>2, <2>2 DEF ColourInv, Phases
    <3>2. p = 0 => end # 0 /\ end \in Nat
      BY <3>1, ResetScan, BufferShown DEF AtReset, ColourTypes
    <3>3. p # 0
      BY <2>2, <3>2
    <3> QED BY <2>2, <3>1, <3>3 DEF AtReset, Restored
  <2> QED BY <2>1, <2>2 DEF LogColours
<1> QED BY <1>1, <1>2, ColourStep, PTL DEF PrintSpec
=============================================================================
