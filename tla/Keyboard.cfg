SPECIFICATION FairSpec
CONSTANTS
    KB_BUFFER_LEN = 3
    MaxRead = 1
    Keyset <- MCKeys
    kb_keymap <- es_keymap
    kb_shift_keymap <- es_shift_keymap
    kb_altgr_keymap <- es_altgr_keymap
    kb_escaped_keymap <- es_escaped_keymap
    Scancodes <- EsScancodes
INVARIANTS
    NoStuckModifier
PROPERTIES
    ImplementsQueue
    SlotKept
    WaitingReaderServed
