------------------------------- MODULE Console -------------------------------
(***************************************************************************)
(* What the console makes of text: vprintf and log of stdio.c, which hand   *)
(* one piece of text after another to screen_write of                       *)
(* devices/screen/screen.c, the scan of a piece for ANSI sequences, and     *)
(* screen_ansi_attr, which sets the colours.  kb_handler logs too, in an    *)
(* interrupt, which runs to its end; the main thread takes a step for every *)
(* access to the attributes.                                                *)
(*                                                                         *)
(* Abstracted: a format is the sequence of its pieces.  Where the characters *)
(* go on the screen is in Screen.                                           *)
(***************************************************************************)
EXTENDS Strings, SequencesExt

CONSTANTS
    T_ATTR,        \* the attribute the screen starts with: white on blue
    Texts,         \* what the main thread prints: sequences of pieces
    Messages       \* what it logs

ESC == 27
BRACKET == 91
SEMICOLON == 59
NEWLINE == 10
PERCENT == 37

Byte == 0..255
Char == -128..127

(* A piece is a text and the character behind it, which screen_write should  *)
(* not look at, or the conversion of a number.  vprintf writes a text up to a *)
(* % or the end; a number is padded with 0 in all formats that have a width.  *)
TextPiece == [text : Seq(Char), behind : {NUL, PERCENT}]
NumberPiece ==
    {n \in [value : Int, base : {10, 16}, pad : {NUL, ZERO}, w : Nat] : n.pad = NUL => n.w = 0}

Piece == TextPiece \cup NumberPiece

ASSUME AttrAssumption == T_ATTR \in Byte
ASSUME PieceAssumption == Texts \cup Messages \subseteq Seq(Piece)

Levels == {"error", "warn", "info", "debug"}

VARIABLES
    attr,          \* screen_info.attr
    oldattr,       \* screen_info.oldattr
    print_pc,      \* where the main thread is
    level,         \* the level of the message it logs, or "none"
    part,          \* of log: before the message, in it, or after it
    pieces,        \* the pieces vprintf has still to write
    buffer,        \* the piece screen_write scans, with the character behind
    p,             \* its pointer, counted from 0
    params,        \* the parameters of the sequence still to be carried out
    saved,         \* the local oldattr of screen_ansi_attr
    printed,       \* ghost: the characters given to screen_putc for this piece
    commands,      \* ghost: the commands of the sequences carried out for it
    number,        \* ghost: the number the piece was made of
    found,         \* ghost: the attribute when log was called
    interrupted    \* ghost: the handler logged since then

caller     == <<level, part, pieces>>
scan       == <<buffer, p, printed, commands, number>>
colours    == <<attr, oldattr>>
history    == <<found, interrupted>>
print_vars == <<colours, print_pc, caller, scan, params, saved, history>>

-----------------------------------------------------------------------------
(* BLACK, RED, GREEN, YELLOW, BLUE, MAGENTA, CYAN, LIGHT_GREY *)
color_table == <<0, 4, 2, 6, 1, 5, 3, 7>>

WithLow(a, n)  == (a \div 16) * 16 + n
WithHigh(a, n) == n * 16 + (a % 16)

(* attr &= 0xF0 clears the bit of bold too. *)
Foreground(a, n) == WithLow(a, color_table[n - 29])
Background(a, n) == WithHigh(a, color_table[n - 39])
Bold(a) == IF a % 16 < 8 THEN a + 8 ELSE a

(* One turn of the loop of screen_ansi_attr: the attribute after parameter n, *)
(* where reset goes back to old.                                             *)
Applied(a, old, n) ==
    CASE n = 0       -> old
      [] n = 1       -> Bold(a)
      [] n \in 30..37 -> Foreground(a, n)
      [] n \in 40..47 -> Background(a, n)
      [] OTHER       -> a

(* The numbers of the parameters s: one at least, 0 if it is left out, and    *)
(* none after a separator at the end.                                        *)
Parameters(s) ==
    LET From[i \in 0..Len(s)] ==
            LET n == strtol(s, i, 10)
            IN  <<n.value>> \o (IF n.rest + 1 < Len(s) THEN From[n.rest + 1] ELSE <<>>)
    IN  From[0]

(* The sequences log begins and ends with. *)
LevelParams(l) ==
    CASE l = "error" -> <<51, 49, SEMICOLON, 49>>
      [] l = "warn"  -> <<51, 51>>
      [] l = "info"  -> <<51, 54>>
      [] l = "debug" -> <<51, 55>>

Sequence(s)   == [text |-> <<ESC, BRACKET>> \o s \o <<109>>, behind |-> NUL]
LevelPiece(l) == Sequence(LevelParams(l))
Newline       == [text |-> <<NEWLINE>>, behind |-> NUL]
Reset         == Sequence(<<>>)

(* A whole sequence, of an interrupt handler: the attribute and oldattr.     *)
Sequenced(s, params_) ==
    [attr |-> FoldLeft(LAMBDA a, n : Applied(a, s.old, n), s.attr, Parameters(params_)),
     old |-> s.attr]

-----------------------------------------------------------------------------
(* The scan. *)

end   == Len(buffer) - 1
CharAt(i) == buffer[i + 1]

(* *p > '@' && *p < '~': the letters, and the bracket itself. *)
Final(c) == c > 64 /\ c < 126

J == 74
M == 109

(* Where the do loop stops: it moves on once, and then up to the end, to a   *)
(* NUL or to the final character of a sequence.                              *)
Stop(i) == FirstFrom(i + 1, end + 1, LAMBDA k : k >= end \/ CharAt(k) = NUL \/ Final(CharAt(k)))

Introduced(i) == i <= end /\ CharAt(i) = BRACKET

(* Mutant: the end of the string is not looked for. *)
EndOfString_Never(k) == k > end

EndOfString(k) == k > end \/ CharAt(k) = NUL

PutChar ==
    /\ print_pc = "scan" /\ p < end
    /\ CharAt(p) # ESC
    /\ printed' = Append(printed, CharAt(p))
    /\ p' = p + 1
    /\ UNCHANGED <<colours, print_pc, caller, buffer, commands, number, params, saved, history>>

(* screen_handle_ansi up to the command.  J clears the screen.                *)
HandleAnsi ==
    /\ print_pc = "scan" /\ p < end
    /\ CharAt(p) = ESC
    /\ LET i == p + 1
           k == Stop(i)
           command == Introduced(i) /\ ~EndOfString(k)
       IN  /\ p' = CASE ~Introduced(i) -> i
                     [] Introduced(i) /\ EndOfString(k) -> k
                     [] command -> k + 1
           /\ commands' = IF command /\ CharAt(k) \in {J, M}
                          THEN Append(commands, CharAt(k)) ELSE commands
           /\ IF command /\ CharAt(k) = M
              THEN params' = Parameters(SubSeq(buffer, i + 2, k)) /\ print_pc' = "save"
              ELSE UNCHANGED <<params, print_pc>>
    /\ UNCHANGED <<colours, caller, buffer, printed, number, saved, history>>

(* screen_ansi_attr: the local oldattr, a step for every parameter, and      *)
(* screen_info.oldattr.                                                      *)
Save ==
    /\ print_pc = "save"
    /\ saved' = attr
    /\ print_pc' = "apply"
    /\ UNCHANGED <<colours, caller, scan, params, history>>

Apply ==
    /\ print_pc = "apply" /\ params # <<>>
    /\ attr' = Applied(attr, oldattr, Head(params))
    /\ params' = Tail(params)
    /\ UNCHANGED <<oldattr, print_pc, caller, scan, saved, history>>

(* Mutant: oldattr becomes the colour just set. *)
StoreOld_New ==
    /\ print_pc = "apply" /\ params = <<>>
    /\ oldattr' = attr
    /\ saved' = 0
    /\ print_pc' = "scan"
    /\ UNCHANGED <<attr, caller, scan, params, history>>

StoreOld ==
    /\ print_pc = "apply" /\ params = <<>>
    /\ oldattr' = saved
    /\ saved' = 0
    /\ print_pc' = "scan"
    /\ UNCHANGED <<attr, caller, scan, params, history>>

-----------------------------------------------------------------------------
(* vprintf writes the next piece, once the one before is done. *)

NoScan == buffer = <<NUL>> /\ p = 0 /\ printed = <<>> /\ commands = <<>> /\ number = <<>>

Text(piece) ==
    IF "text" \in DOMAIN piece THEN Append(piece.text, piece.behind)
    ELSE Append(itoa_s(piece.value, piece.base, piece.pad, piece.w), NUL)

NextPiece ==
    /\ print_pc = "scan" /\ p >= end
    /\ pieces # <<>>
    /\ buffer' = Text(Head(pieces))
    /\ number' = IF "value" \in DOMAIN Head(pieces) THEN <<Head(pieces)>> ELSE <<>>
    /\ pieces' = Tail(pieces)
    /\ p' = 0 /\ printed' = <<>> /\ commands' = <<>>
    /\ part' = CASE part = "level" -> "message"
                 [] part = "message" /\ Len(pieces) = 1 -> "reset"
                 [] OTHER -> part
    /\ UNCHANGED <<colours, print_pc, level, params, saved, history>>

Returns ==
    /\ print_pc = "scan" /\ p >= end
    /\ pieces = <<>>
    /\ print_pc' = "idle"
    /\ level' = "none" /\ part' = "text"
    /\ buffer' = <<NUL>> /\ p' = 0 /\ printed' = <<>> /\ commands' = <<>> /\ number' = <<>>
    /\ found' = 0 /\ interrupted' = FALSE
    /\ UNCHANGED <<colours, pieces, params, saved>>

printf(text) ==
    /\ print_pc = "idle"
    /\ pieces' = text
    /\ print_pc' = "scan"
    /\ UNCHANGED <<colours, level, part, scan, params, saved, history>>

log(l, message) ==
    /\ print_pc = "idle"
    /\ level' = l /\ part' = "level"
    /\ buffer' = Text(LevelPiece(l))
    /\ pieces' = message \o <<Newline, Reset>>
    /\ print_pc' = "scan"
    /\ found' = attr /\ interrupted' = FALSE
    /\ UNCHANGED <<colours, p, printed, commands, number, params, saved>>

(* kb_handler: log(LOG_WARN, ...), whose message holds no sequence. *)
KeyboardLogs ==
    /\ LET s == Sequenced(Sequenced([attr |-> attr, old |-> oldattr], LevelParams("warn")), <<>>)
       IN  attr' = s.attr /\ oldattr' = s.old
    /\ interrupted' = (level # "none")
    /\ UNCHANGED <<print_pc, caller, scan, params, saved, found>>

-----------------------------------------------------------------------------
PrintInit ==
    /\ attr = T_ATTR /\ oldattr = T_ATTR
    /\ print_pc = "idle"
    /\ level = "none" /\ part = "text" /\ pieces = <<>>
    /\ NoScan
    /\ params = <<>> /\ saved = 0
    /\ found = 0 /\ interrupted = FALSE

PrintNext ==
    \/ \E t \in Texts : printf(t)
    \/ \E l \in Levels, m \in Messages : log(l, m)
    \/ NextPiece \/ Returns \/ PutChar \/ HandleAnsi
    \/ Save \/ Apply \/ StoreOld
    \/ KeyboardLogs

PrintSpec == PrintInit /\ [][PrintNext]_print_vars

-----------------------------------------------------------------------------
(* What a terminal makes of a piece, one character at a time: it is          *)
(* printing, it has seen ESC, or it is inside a sequence.                    *)
Terminal(c, t) ==
    CASE t.state = "text" /\ c = ESC -> [t EXCEPT !.state = "escape"]
      [] t.state = "text" /\ c # ESC -> [t EXCEPT !.out = Append(@, c)]
      [] t.state = "escape" /\ c = BRACKET -> [t EXCEPT !.state = "sequence"]
      [] t.state = "escape" /\ c = ESC -> t
      [] t.state = "escape" /\ c \notin {BRACKET, ESC} ->
            [t EXCEPT !.state = "text", !.out = Append(@, c)]
      [] t.state = "sequence" /\ c \in {J, M} ->
            [t EXCEPT !.state = "text", !.done = Append(@, c)]
      [] t.state = "sequence" /\ Final(c) /\ c \notin {J, M} -> [t EXCEPT !.state = "text"]
      [] t.state = "sequence" /\ c = NUL -> [t EXCEPT !.state = "text", !.out = Append(@, c)]
      [] t.state = "sequence" /\ ~Final(c) /\ c # NUL -> t

Shown(s) ==
    LET After[k \in 0..Len(s)] ==
            IF k = 0 THEN [state |-> "text", out |-> <<>>, done |-> <<>>]
            ELSE Terminal(s[k], After[k - 1])
    IN  After[Len(s)]

(* A text that vprintf ends at a % is not in the middle of a sequence there.  *)
Ended ==
    \A t \in Texts \cup Messages : \A i \in DOMAIN t :
        t[i] \in TextPiece /\ t[i].behind # NUL => Shown(t[i].text).state # "sequence"

Expected == Shown(Front(buffer))

(* Whatever sequences a piece holds, whole, broken or one in another, the    *)
(* scan ends at its end with the text and the commands of the terminal: it   *)
(* loses no character after a sequence, and carries out none that ends in    *)
(* the character behind the piece.                                           *)
Rendered ==
    print_pc = "scan" /\ p >= end => p = end /\ printed = Expected.out /\ commands = Expected.done

(* A number that vprintf prints is read back by strtol, whatever its base and *)
(* its padding, modulo the 16 bits that strtol keeps; negative decimals are   *)
(* left out, as itoa_s puts their sign last.                                 *)
NumbersRead ==
    \A i \in DOMAIN number :
        number[i].value >= 0 \/ number[i].base = 16 =>
            strtol(Front(buffer), 0, number[i].base)
                = [value |-> uint16_t(number[i].value % ULONG), rest |-> end]

(* No message that is logged has a sequence of its own.                      *)
PlainMessages ==
    \A m \in Messages : \A i \in DOMAIN m :
        m[i] \in TextPiece => \A k \in DOMAIN m[i].text : m[i].text[k] # ESC

LevelColour(l) ==
    CASE l = "error" -> 12 [] l = "warn" -> 6 [] l = "info" -> 3 [] l = "debug" -> 7

(* Every character of a message is printed in the colour of its level, and   *)
(* log leaves the colour it found, through two sequences that know of one     *)
(* earlier attribute only, unless the handler has logged meanwhile: what     *)
(* text and interrupts have set or left in oldattr before does not matter.   *)
LogColours ==
    /\ part = "message" => attr % 16 = LevelColour(level)
    /\ part = "reset" /\ print_pc = "scan" /\ p >= end /\ ~interrupted => attr = found
=============================================================================
