SPECIFICATION PrintSpec
CONSTANTS
    T_ATTR = 31
    ULONG = 1048576
    Texts <- SomeTexts
    Messages <- SomeMessages
INVARIANTS
    Rendered
    NumbersRead
    LogColours
