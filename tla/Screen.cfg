SPECIFICATION Spec
CONSTANTS
    T_COLUMNS = 2
    T_ROWS = 2
    TAB_WIDTH = 2
    VIDEO = 8
    RADIX = 4
    Chars = {"x", "nl", "cr", "bs", "tab", "clear"}
    IrqTexts <- Messages
    CUT_ERASE = FALSE
INVARIANTS
    CursorShown
    BlankBeyond
    InVideo
    PositionOnScreen
