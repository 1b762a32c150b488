--------------------------- MODULE KeyboardProofs ---------------------------
(***************************************************************************)
(* Theorems about the keyboard driver, for every buffer length, keymap and  *)
(* set of physical keys that meet the assumptions of module Keyboard.       *)
(***************************************************************************)
EXTENDS Keyboard, SequenceTheorems, TLAPS

(* The bytes on the wire decode to scan codes of the tables. *)
WireOK == \A i \in 1..Len(wire) : wire[i] = ESCAPE \/ wire[i] % 128 \in Scancodes

(* What the reader relies on: kb_read has bytes to get while it is in       *)
(* kb_getc, the buffer is not empty when it pops, and the slot it popped is *)
(* the one before pop_index.                                                *)
ReaderOK ==
    /\ pc \notin {"install", "reset", "idle"} => left >= 1
    /\ pc = "pop" => push_index # pop_index
    /\ pc = "read" => pop_index = NextSlot(index)

IInv == TypeOK /\ WireOK /\ ReaderOK

(* The index of a ring buffer wraps to 0 after the last slot. *)
LEMMA NextSlotValue ==
    ASSUME NEW i \in Slots
    PROVE  /\ NextSlot(i) = IF i + 1 = KB_BUFFER_LEN THEN 0 ELSE i + 1
           /\ NextSlot(i) \in Slots
<1>1. KB_BUFFER_LEN \in Nat \ {0}
  BY LenAssumption
<1>2. CASE i + 1 = KB_BUFFER_LEN
  <2>1. KB_BUFFER_LEN % KB_BUFFER_LEN = 0
    BY <1>1
  <2> QED BY <1>2, <2>1, <1>1 DEF NextSlot, Slots
<1>3. CASE i + 1 # KB_BUFFER_LEN
  <2>1. i + 1 \in 0..(KB_BUFFER_LEN - 1)
    BY <1>1, <1>3 DEF Slots
  <2>2. (i + 1) % KB_BUFFER_LEN = i + 1
    BY <1>1, <2>1
  <2> QED BY <1>3, <2>1, <2>2 DEF NextSlot, Slots
<1> QED BY <1>2, <1>3

(* What the tables and the case swap of caps lock yield is a 16-bit code. *)
LEMMA LookupType ==
    ASSUME NEW c \in Scancodes
    PROVE  Lookup(c) \in TableKeys /\ Lookup(c) \in KeyCodes
BY KeymapAssumption DEF Lookup, TableKeys

LEMMA CapsSwapType ==
    ASSUME NEW k \in KeyCodes
    PROVE  /\ SwapCase(k) \in KeyCodes
           /\ CapsSwap(k) \in KeyCodes
           /\ SwapCase(k) = k \/ SwapCase(k) \in 65..122
<1> DEFINE s == SwapCase(k)
<1>1. s \in KeyCodes /\ (s = k \/ s \in 65..122)
  <2>1. CASE k \in 97..122
    <3>1. s = k - 32
      BY <2>1 DEF SwapCase
    <3> HIDE DEF s
    <3>2. s \in 65..90
      BY <2>1, <3>1
    <3> QED BY SMTT(30), <3>2 DEF KeyCodes
  <2>2. CASE k \in 65..90
    <3>1. s = k + 32
      BY <2>2 DEF SwapCase
    <3> HIDE DEF s
    <3>2. s \in 97..122
      BY <2>2, <3>1
    <3> QED BY <3>2 DEF KeyCodes
  <2>3. CASE k \notin 97..122 /\ k \notin 65..90
    BY <2>3 DEF SwapCase
  <2> QED BY SMTT(30), <2>1, <2>2, <2>3
<1>2. CapsSwap(k) = s \/ CapsSwap(k) = k
  BY DEF CapsSwap
<1> QED BY <1>1, <1>2

LEMMA SetFlagsType ==
    ASSUME kb_flags \in Flags, NEW k, NEW down \in BOOLEAN
    PROVE  SetFlags(k, down) \in Flags
<1> DEFINE d == IF down THEN 1 ELSE 0
<1>1. d \in Bit /\ (d + kb_flags.caps) % 2 \in Bit
  BY DEF Flags, Bit
<1> QED BY <1>1 DEF SetFlags, Flags

LEMMA ToCharType ==
    ASSUME NEW k \in KeyCodes
    PROVE  ToChar(k) \in -128..127
BY DEF ToChar, KeyCodes

(* The bytes of a key event are bytes, and decode. *)
LEMMA BytesType ==
    ASSUME NEW k \in Keyset, NEW down \in BOOLEAN
    PROVE  /\ Bytes(k, down) \in Seq(0..255)
           /\ \A i \in 1..Len(Bytes(k, down)) :
                  Bytes(k, down)[i] = ESCAPE \/ Bytes(k, down)[i] % 128 \in Scancodes
<1> DEFINE c == IF down THEN k.code ELSE k.code + 128
<1>1. k.code \in Scancodes /\ k.code \in 0..95
  BY KeysetAssumption, ScanAssumption
<1>2. c \in 0..255 /\ c % 128 = k.code
  BY <1>1
<1>3. CASE k.esc
  <2>1. Bytes(k, down) = <<ESCAPE, c>>
    BY <1>3 DEF Bytes
  <2> QED BY <2>1, <1>1, <1>2 DEF ESCAPE
<1>4. CASE ~k.esc
  <2>1. Bytes(k, down) = <<c>>
    BY <1>4 DEF Bytes
  <2> QED BY <2>1, <1>1, <1>2
<1> QED BY <1>3, <1>4

-----------------------------------------------------------------------------
(* What one interrupt does to the flags and the buffer, whatever the byte.  *)
LEMMA HandleEffect ==
    ASSUME IInv, wire # <<>>, Handle(Head(wire))
    PROVE  /\ kb_flags' \in Flags
           /\ \/ UNCHANGED <<key, push_index>>
              \/ \E k \in CharKeys \cap KeyCodes :
                    /\ ~Full
                    /\ key' = [key EXCEPT ![push_index] = k]
                    /\ push_index' = NextSlot(push_index)
<1> DEFINE b == Head(wire)
           c == b % 128
           down == b < 128
           k == Lookup(c)
<1>1. b = wire[1] /\ 1 \in 1..Len(wire)
  BY DEF IInv, TypeOK
<1>2. CASE b = ESCAPE
  BY <1>2 DEF Handle, IInv, TypeOK, Flags, Bit
<1>3. CASE b # ESCAPE
  <2>1. c \in Scancodes
    BY <1>1, <1>3 DEF IInv, WireOK
  <2>2. k \in TableKeys /\ k \in KeyCodes
    BY <2>1, LookupType
  <2>3. SetFlags(k, down) \in Flags
    <3>1. kb_flags \in Flags /\ down \in BOOLEAN
      BY DEF IInv, TypeOK
    <3> QED BY <3>1, SetFlagsType
  <2>4. kb_flags' = [SetFlags(k, down) EXCEPT !.escaped = 0]
    BY <1>3 DEF Handle
  <2>5. kb_flags' \in Flags
    BY <2>3, <2>4 DEF Flags, Bit
  <2>6. IF down /\ k # 0 /\ k \notin Modifiers
        THEN Push(CapsSwap(k)) ELSE UNCHANGED <<key, push_index>>
    BY <1>3 DEF Handle
  <2>7. CASE down /\ k # 0 /\ k \notin Modifiers
    <3>1. CapsSwap(k) \in KeyCodes
      BY <2>2, CapsSwapType
    <3>2. SwapCase(k) # 0 /\ SwapCase(k) \notin Modifiers
      <4> DEFINE s == SwapCase(k)
      <4>1. s = k \/ s \in 65..122
        BY <2>2, CapsSwapType
      <4>2. \A m \in Modifiers : m > 122
        BY DEF Modifiers, KEY_LSHIFT, KEY_RSHIFT, KEY_LCONTROL, KEY_RCONTROL,
               KEY_LALT, KEY_RALT, KEY_CAPS
      <4> HIDE DEF s
      <4>3. s \in 65..122 => s # 0 /\ s \notin Modifiers
        BY <4>2
      <4>4. s = k => s # 0 /\ s \notin Modifiers
        BY <2>7
      <4> QED BY <4>1, <4>3, <4>4 DEF s
    <3>3. CapsSwap(k) \in CharKeys
      BY <2>2, <2>7, <3>2 DEF CapsSwap, CharKeys
    <3>4. Push(CapsSwap(k))
      BY <2>6, <2>7
    <3> QED BY <2>5, <3>1, <3>3, <3>4 DEF Push
  <2>8. CASE ~(down /\ k # 0 /\ k \notin Modifiers)
    BY <2>5, <2>6, <2>8
  <2> QED BY <2>7, <2>8
<1> QED BY <1>2, <1>3

LEMMA InitInv == Init => IInv
<1> SUFFICES ASSUME Init PROVE IInv
  OBVIOUS
<1>1. 0 \in Slots
  BY LenAssumption DEF Slots
<1>2. TypeOK
  BY <1>1, MaxReadAssumption DEF Init, TypeOK, Flags, Bit, KeyCodes, PCs
<1> QED BY <1>2 DEF Init, IInv, WireOK, ReaderOK

LEMMA NextInv == IInv /\ [Next]_vars => IInv'
<1> SUFFICES ASSUME IInv, [Next]_vars PROVE IInv'
  OBVIOUS
<1> USE DEF IInv
<1>1. ASSUME NEW k \in Keyset, PressKey(k) PROVE IInv'
  BY <1>1, BytesType DEF PressKey, TypeOK, WireOK, ReaderOK, buffer, reader
<1>2. ASSUME NEW k \in Keyset, ReleaseKey(k) PROVE IInv'
  BY <1>2, BytesType DEF ReleaseKey, TypeOK, WireOK, ReaderOK, buffer, reader
<1>3. CASE kb_handler
  <2>1. /\ wire # <<>> /\ Handle(Head(wire)) /\ wire' = Tail(wire)
        /\ pc' = IF pc = "halted" THEN "check" ELSE pc
        /\ UNCHANGED <<held, pop_index, index, left, char>>
    BY <1>3 DEF kb_handler, Wake
  <2>2. wire' \in Seq(0..255) /\ WireOK'
    <3>1. Len(wire') = Len(wire) - 1 /\ \A i \in 1..Len(wire') : wire'[i] = wire[i + 1]
      BY <2>1 DEF TypeOK
    <3> QED BY <2>1, <3>1 DEF TypeOK, WireOK
  <2>3. /\ kb_flags' \in Flags
        /\ \/ UNCHANGED <<key, push_index>>
           \/ \E k \in CharKeys \cap KeyCodes :
                 /\ ~Full
                 /\ key' = [key EXCEPT ![push_index] = k]
                 /\ push_index' = NextSlot(push_index)
    BY <2>1, HandleEffect
  <2>4. key' \in [Slots -> KeyCodes] /\ push_index' \in Slots
    BY <2>3, NextSlotValue DEF TypeOK
  <2>5. TypeOK'
    BY <2>1, <2>2, <2>3, <2>4 DEF TypeOK, PCs
  <2>6. ReaderOK'
    BY <2>1, <2>3, NextSlotValue DEF TypeOK, ReaderOK, Full
  <2> QED BY <2>2, <2>5, <2>6
<1>4. CASE TimerIrq
  BY <1>4 DEF TimerIrq, Wake, TypeOK, WireOK, ReaderOK, phys, buffer, PCs
<1>5. CASE InstallHandler
  BY <1>5 DEF InstallHandler, TypeOK, WireOK, ReaderOK, phys, buffer, PCs
<1>6. CASE ResetIndices
  <2>1. 0 \in Slots
    BY LenAssumption DEF Slots
  <2> QED BY <1>6, <2>1 DEF ResetIndices, TypeOK, WireOK, ReaderOK, phys, PCs
<1>7. ASSUME NEW n \in 1..MaxRead, kb_read(n) PROVE IInv'
  BY <1>7, MaxReadAssumption
     DEF kb_read, TypeOK, WireOK, ReaderOK, phys, buffer, PCs
<1>8. CASE CheckEmpty
  BY <1>8 DEF CheckEmpty, TypeOK, WireOK, ReaderOK, phys, buffer, PCs
<1>9. CASE Hlt
  BY <1>9 DEF Hlt, TypeOK, WireOK, ReaderOK, phys, buffer, PCs
<1>10. CASE PopIndex
  <2>1. NextSlot(pop_index) \in Slots
    BY NextSlotValue DEF TypeOK
  <2> QED BY <1>10, <2>1 DEF PopIndex, TypeOK, WireOK, ReaderOK, phys, PCs, NextSlot
<1>11. CASE ReadSlot
  <2>1. ToChar(key[index]) \in -128..127
    BY ToCharType DEF TypeOK
  <2> QED BY <1>11, <2>1, MaxReadAssumption
          DEF ReadSlot, TypeOK, WireOK, ReaderOK, phys, buffer, PCs
<1>12. CASE UNCHANGED vars
  BY <1>12 DEF vars, TypeOK, WireOK, ReaderOK, NextSlot
<1> QED BY <1>1, <1>2, <1>3, <1>4, <1>5, <1>6, <1>7, <1>8, <1>9, <1>10, <1>11, <1>12
        DEF Next, Main

(* The strengthened invariant holds in every state of every behaviour. *)
THEOREM Invariance == Spec => []IInv
BY InitInv, NextInv, PTL DEF Spec

(* Every variable of the driver keeps its type: the indices stay in the     *)
(* buffer, the flags stay bits, and kb_read counts down to zero.            *)
THEOREM TypeCorrect == Spec => []TypeOK
<1>1. IInv => TypeOK
  BY DEF IInv
<1> QED BY <1>1, Invariance, PTL

-----------------------------------------------------------------------------
(* A handler that fills the buffer stops one slot short of pop_index, which *)
(* is the slot after the one kb_getc is about to read.                      *)
LEMMA SlotKeptStep == IInv /\ [Next]_vars => (pc = "read" => key'[index] = key[index])
<1> SUFFICES ASSUME IInv, [Next]_vars, pc = "read" PROVE key'[index] = key[index]
  OBVIOUS
<1>1. CASE kb_handler
  <2>1. wire # <<>> /\ Handle(Head(wire))
    BY <1>1 DEF kb_handler
  <2>2. CASE \E k \in CharKeys \cap KeyCodes :
               /\ ~Full
               /\ key' = [key EXCEPT ![push_index] = k]
               /\ push_index' = NextSlot(push_index)
    <3>1. push_index # index
      BY <2>2 DEF Full, IInv, ReaderOK
    <3> QED BY <2>2, <3>1 DEF IInv, TypeOK
  <2> QED BY <2>1, <2>2, HandleEffect
<1>2. CASE ~kb_handler
  BY <1>2 DEF Next, Main, PressKey, ReleaseKey, TimerIrq, InstallHandler, ResetIndices,
     kb_read, CheckEmpty, Hlt, PopIndex, ReadSlot, buffer, vars
<1> QED BY <1>1, <1>2

(* The slot kb_getc has popped and not yet read is never written: the       *)
(* driver needs no lock and no cli around the two statements.               *)
THEOREM SlotNeverOverwritten == Spec => SlotKept
<1>1. IInv /\ [Next]_vars => [pc = "read" => key'[index] = key[index]]_vars
  BY SlotKeptStep
<1> QED BY <1>1, Invariance, PTL DEF Spec, SlotKept

-----------------------------------------------------------------------------
(* Modifiers.  The key code a key has whatever flags are set, as far as it is *)
(* a modifier's.                                                            *)
Decoded(k) == IF k.esc THEN kb_escaped_keymap[k.code] ELSE kb_keymap[k.code]

ByKey(codes, H) == \E k \in H : Decoded(k) \in codes

(* Every flag that is set has one of the keys H that sets it.                *)
Justified(f, H) ==
    /\ f.shift = 1    => ByKey({KEY_LSHIFT, KEY_RSHIFT}, H)
    /\ f.lcontrol = 1 => ByKey({KEY_LCONTROL}, H)
    /\ f.rcontrol = 1 => ByKey({KEY_RCONTROL}, H)
    /\ f.lalt = 1     => ByKey({KEY_LALT}, H)
    /\ f.ralt = 1     => ByKey({KEY_RALT}, H)

Code(k, down) == IF down THEN k.code ELSE k.code + 128

(* Of the event of key k the handler has seen nothing, or the escape byte.   *)
Arriving(k, down) ==
    /\ down => k \in held
    /\ Justified(kb_flags, held \cup {k})
    /\ \/ wire = Bytes(k, down) /\ kb_flags.escaped = 0
       \/ k.esc /\ wire = <<Code(k, down)>> /\ kb_flags.escaped = 1

(* Between events the flags are those of the keys held; during one, the key  *)
(* that moves may be one of them.                                           *)
FlagsOK ==
    \/ wire = <<>> /\ kb_flags.escaped = 0 /\ Justified(kb_flags, held)
    \/ \E k \in Keyset, down \in BOOLEAN : Arriving(k, down)

LEMMA JustifiedMore ==
    ASSUME NEW f, NEW H, NEW K, H \subseteq K, Justified(f, H)
    PROVE  Justified(f, K)
BY DEF Justified, ByKey

(* A key decodes to the same modifier at its press and at its release.       *)
LEMMA LookupModifier ==
    ASSUME ModifiersAgree, kb_flags \in Flags, NEW k \in Keyset, NEW m \in Modifiers,
           k.esc <=> kb_flags.escaped = 1
    PROVE  Lookup(k.code) = m <=> Decoded(k) = m
<1>1. k.code \in Scancodes /\ k.esc \in BOOLEAN
  BY KeysetAssumption
<1> QED BY <1>1 DEF ModifiersAgree, Lookup, Decoded, Flags, Bit

(* What the handler makes of the flags when the last byte of an event comes.  *)
LEMMA FlagsFollow ==
    ASSUME ModifiersAgree, kb_flags \in Flags, NEW k \in Keyset, NEW down \in BOOLEAN,
           down => k \in held,
           Justified(kb_flags, held \cup {k}),
           k.esc <=> kb_flags.escaped = 1
    PROVE  Justified([SetFlags(Lookup(k.code), down) EXCEPT !.escaped = 0], held)
<1> DEFINE c == Lookup(k.code)
           f == SetFlags(c, down)
           d == IF down THEN 1 ELSE 0
<1>1. \A m \in Modifiers : c = m <=> Decoded(k) = m
  BY LookupModifier
<1>2. ASSUME NEW codes \in SUBSET Modifiers, ByKey(codes, held \cup {k}), c \notin codes
      PROVE  ByKey(codes, held)
  BY <1>1, <1>2 DEF ByKey
<1>3. ASSUME NEW codes \in SUBSET Modifiers, c \in codes, down
      PROVE  ByKey(codes, held)
  BY <1>1, <1>3 DEF ByKey
<1>4. f \in Flags
  BY SetFlagsType
<1>5. /\ f.shift    = IF c \in {KEY_LSHIFT, KEY_RSHIFT} THEN d ELSE kb_flags.shift
      /\ f.lcontrol = IF c = KEY_LCONTROL THEN d ELSE kb_flags.lcontrol
      /\ f.rcontrol = IF c = KEY_RCONTROL THEN d ELSE kb_flags.rcontrol
      /\ f.lalt     = IF c = KEY_LALT THEN d ELSE kb_flags.lalt
      /\ f.ralt     = IF c = KEY_RALT THEN d ELSE kb_flags.ralt
  <2> HIDE DEF c
  <2> QED BY DEF SetFlags, Flags, KEY_LCONTROL, KEY_LSHIFT, KEY_RSHIFT, KEY_CAPS, KEY_LALT,
             KEY_RCONTROL, KEY_RALT
<1> DEFINE g == [f EXCEPT !.escaped = 0]
<1>6. /\ g.shift = f.shift /\ g.lcontrol = f.lcontrol /\ g.rcontrol = f.rcontrol
      /\ g.lalt = f.lalt /\ g.ralt = f.ralt
  BY <1>4 DEF Flags
<1>7. ASSUME NEW codes \in SUBSET Modifiers, NEW old, NEW new,
             old = 1 => ByKey(codes, held \cup {k}),
             new = IF c \in codes THEN d ELSE old,
             new = 1
      PROVE  ByKey(codes, held)
  <2> HIDE DEF c
  <2> QED BY <1>2, <1>3, <1>7
<1> HIDE DEF c, f, g, d
<1>8. /\ {KEY_LSHIFT, KEY_RSHIFT} \in SUBSET Modifiers /\ {KEY_LCONTROL} \in SUBSET Modifiers
      /\ {KEY_RCONTROL} \in SUBSET Modifiers /\ {KEY_LALT} \in SUBSET Modifiers
      /\ {KEY_RALT} \in SUBSET Modifiers
  BY DEF Modifiers
<1>9. Justified(kb_flags, held \cup {k})
  OBVIOUS
<1>10. g.shift = 1 => ByKey({KEY_LSHIFT, KEY_RSHIFT}, held)
  BY <1>5, <1>6, <1>7, <1>8, <1>9 DEF Justified
<1>11. g.lcontrol = 1 => ByKey({KEY_LCONTROL}, held)
  BY <1>5, <1>6, <1>7, <1>8, <1>9 DEF Justified
<1>12. g.rcontrol = 1 => ByKey({KEY_RCONTROL}, held)
  BY <1>5, <1>6, <1>7, <1>8, <1>9 DEF Justified
<1>13. g.lalt = 1 => ByKey({KEY_LALT}, held)
  BY <1>5, <1>6, <1>7, <1>8, <1>9 DEF Justified
<1>14. g.ralt = 1 => ByKey({KEY_RALT}, held)
  BY <1>5, <1>6, <1>7, <1>8, <1>9 DEF Justified
<1> QED BY <1>10, <1>11, <1>12, <1>13, <1>14 DEF Justified, g, f, c

LEMMA FlagsInit == Init => FlagsOK
BY DEF Init, FlagsOK, Justified

LEMMA FlagsHandled ==
    ASSUME ModifiersAgree, IInv, FlagsOK, kb_handler
    PROVE  FlagsOK'
<1>1. /\ wire # <<>> /\ Handle(Head(wire)) /\ wire' = Tail(wire) /\ held' = held
  BY DEF kb_handler
<1>2. PICK k \in Keyset, down \in BOOLEAN : Arriving(k, down)
  BY <1>1 DEF FlagsOK
<1>3. /\ k.code \in 0..95 /\ k.code \in Scancodes /\ k.esc \in BOOLEAN
      /\ Code(k, down) # ESCAPE /\ Code(k, down) % 128 = k.code
      /\ Code(k, down) < 128 <=> down
  <2>1. k.code \in 0..95 /\ k.code \in Scancodes /\ k.esc \in BOOLEAN
    BY KeysetAssumption, ScanAssumption
  <2>2. CASE down
    BY <2>1, <2>2 DEF Code, ESCAPE
  <2>3. CASE ~down
    BY <2>1, <2>3 DEF Code, ESCAPE
  <2> QED BY <2>1, <2>2, <2>3
<1>4. kb_flags \in Flags
  BY DEF IInv, TypeOK
<1>5. CASE k.esc /\ wire = Bytes(k, down) /\ kb_flags.escaped = 0
  <2>1. wire = <<ESCAPE, Code(k, down)>>
    BY <1>5 DEF Bytes, Code
  <2>2. Head(wire) = ESCAPE /\ wire' = <<Code(k, down)>>
    BY <1>1, <2>1
  <2>3. kb_flags' = [kb_flags EXCEPT !.escaped = 1]
    BY <1>1, <2>2 DEF Handle
  <2>4. /\ kb_flags'.escaped = 1 /\ kb_flags'.shift = kb_flags.shift
        /\ kb_flags'.lcontrol = kb_flags.lcontrol /\ kb_flags'.rcontrol = kb_flags.rcontrol
        /\ kb_flags'.lalt = kb_flags.lalt /\ kb_flags'.ralt = kb_flags.ralt
    BY <1>4, <2>3 DEF Flags
  <2>5. Justified(kb_flags', held' \cup {k})
    BY <1>1, <1>2, <2>4 DEF Arriving, Justified
  <2>6. Arriving(k, down)'
    BY <1>1, <1>2, <1>5, <2>2, <2>4, <2>5 DEF Arriving
  <2> QED BY <2>6 DEF FlagsOK
<1>6. CASE (~k.esc /\ wire = Bytes(k, down) /\ kb_flags.escaped = 0)
           \/ (k.esc /\ wire = <<Code(k, down)>> /\ kb_flags.escaped = 1)
  <2>1. wire = <<Code(k, down)>> /\ (k.esc <=> kb_flags.escaped = 1)
    BY <1>6 DEF Bytes, Code
  <2>2. Head(wire) = Code(k, down) /\ wire' = <<>>
    BY <1>1, <2>1
  <2>3. kb_flags' = [SetFlags(Lookup(k.code), down) EXCEPT !.escaped = 0]
    BY <1>1, <1>3, <2>2 DEF Handle
  <2>4. Justified(kb_flags', held)
    BY <1>2, <1>4, <2>1, <2>3, FlagsFollow DEF Arriving
  <2>5. kb_flags'.escaped = 0
    BY <1>4, <2>3, SetFlagsType DEF Flags
  <2> QED BY <1>1, <2>2, <2>4, <2>5 DEF FlagsOK
<1> QED BY <1>2, <1>3, <1>5, <1>6 DEF Arriving

LEMMA FlagsNext ==
    ASSUME ModifiersAgree, IInv, FlagsOK, [Next]_vars
    PROVE  FlagsOK'
<1>1. ASSUME NEW k \in Keyset, PressKey(k) PROVE FlagsOK'
  <2>1. /\ wire = <<>> /\ wire' = Bytes(k, TRUE) /\ held' = held \cup {k}
        /\ kb_flags' = kb_flags
    BY <1>1 DEF PressKey
  <2>2. kb_flags.escaped = 0 /\ Justified(kb_flags, held)
    <3>1. \A j \in Keyset, down \in BOOLEAN : Bytes(j, down) # <<>>
      BY DEF Bytes
    <3> QED BY <2>1, <3>1 DEF FlagsOK, Arriving
  <2>3. Justified(kb_flags', held' \cup {k})
    BY <2>1, <2>2, JustifiedMore
  <2>4. Arriving(k, TRUE)'
    BY <2>1, <2>2, <2>3 DEF Arriving, Bytes
  <2> QED BY <2>4 DEF FlagsOK
<1>2. ASSUME NEW k \in Keyset, ReleaseKey(k) PROVE FlagsOK'
  <2>1. /\ wire = <<>> /\ wire' = Bytes(k, FALSE) /\ k \in held /\ held' = held \ {k}
        /\ kb_flags' = kb_flags
    BY <1>2 DEF ReleaseKey
  <2>2. kb_flags.escaped = 0 /\ Justified(kb_flags, held)
    <3>1. \A j \in Keyset, down \in BOOLEAN : Bytes(j, down) # <<>>
      BY DEF Bytes
    <3> QED BY <2>1, <3>1 DEF FlagsOK, Arriving
  <2>3. held' \cup {k} = held
    BY <2>1
  <2>4. Arriving(k, FALSE)'
    BY <2>1, <2>2, <2>3 DEF Arriving, Bytes
  <2> QED BY <2>4 DEF FlagsOK
<1>3. CASE kb_handler
  BY <1>3, FlagsHandled
<1>4. CASE UNCHANGED <<held, wire, kb_flags>>
  BY <1>4 DEF FlagsOK, Arriving
<1> QED BY <1>1, <1>2, <1>3, <1>4 DEF Next, Main, TimerIrq, InstallHandler, ResetIndices,
        kb_read, CheckEmpty, Hlt, PopIndex, ReadSlot, phys, vars

(* No modifier sticks, whatever keys are pressed, in whatever order and       *)
(* however many at a time, with every keymap whose tables agree on where the *)
(* modifiers are: a key may be decoded by another table at its release than  *)
(* at its press, and clears the flag that it has set.                        *)
THEOREM ModifiersReleased == ModifiersAgree => (Spec => []NoStuckModifier)
<1> SUFFICES ASSUME ModifiersAgree PROVE Spec => []NoStuckModifier
  OBVIOUS
<1>1. Init => FlagsOK
  BY FlagsInit
<1>2. IInv /\ FlagsOK /\ [Next]_vars => FlagsOK'
  BY FlagsNext
<1>3. IInv /\ FlagsOK => NoStuckModifier
  <2> SUFFICES ASSUME IInv, FlagsOK, held = {}, wire = <<>>
               PROVE  /\ kb_flags.shift = 0 /\ kb_flags.lcontrol = 0
                      /\ kb_flags.rcontrol = 0 /\ kb_flags.lalt = 0
                      /\ kb_flags.ralt = 0 /\ kb_flags.escaped = 0
    BY DEF NoStuckModifier
  <2>1. \A j \in Keyset, down \in BOOLEAN : Bytes(j, down) # <<>>
    BY DEF Bytes
  <2>2. kb_flags.escaped = 0 /\ Justified(kb_flags, {})
    BY <2>1 DEF FlagsOK, Arriving
  <2> QED BY <2>2 DEF Justified, ByKey, IInv, TypeOK, Flags, Bit
<1> QED BY <1>1, <1>2, <1>3, Invariance, PTL DEF Spec

-----------------------------------------------------------------------------
(* The ring buffer as a sequence.  Indices count modulo the length.         *)
LEMMA SlotAt ==
    ASSUME NEW p \in Slots, NEW j \in 0..(KB_BUFFER_LEN - 1)
    PROVE  /\ (p + j) % KB_BUFFER_LEN =
                  IF p + j < KB_BUFFER_LEN THEN p + j ELSE (p + j) - KB_BUFFER_LEN
           /\ (p + j) % KB_BUFFER_LEN \in Slots
<1> DEFINE N == KB_BUFFER_LEN
<1>1. N \in Nat \ {0} /\ p \in 0..(N - 1)
  BY LenAssumption DEF Slots
<1>2. \A x \in 0..(2 * N - 1) :
          /\ x < N => x % N = x
          /\ ~(x < N) => x % N = x - N
          /\ x % N \in 0..(N - 1)
  <2> TAKE x \in 0..(2 * N - 1)
  <2>1. CASE x < N
    <3>1. x \in 0..(N - 1)
      BY <1>1, <2>1
    <3>2. x % N = x
      BY <1>1, <3>1
    <3> QED BY <2>1, <3>1, <3>2
  <2>2. CASE ~(x < N)
    <3>1. x \in N..(2 * N - 1) /\ x - N \in 0..(N - 1)
      BY <1>1, <2>2
    <3>2. x % N = x - N
      BY <1>1, <3>1
    <3> QED BY <2>2, <3>1, <3>2
  <2> QED BY <2>1, <2>2
<1>3. p + j \in 0..(2 * N - 1)
  BY <1>1
<1>4. /\ p + j < N => (p + j) % N = p + j
      /\ ~(p + j < N) => (p + j) % N = (p + j) - N
  BY <1>2, <1>3, Zenon
<1>5. (p + j) % N \in 0..(N - 1)
  BY <1>2, <1>3, Zenon
<1> QED BY <1>4, <1>5, Zenon DEF Slots

LEMMA UsedValue ==
    ASSUME NEW p \in Slots, NEW q \in Slots
    PROVE  /\ Used(p, q) = IF q >= p THEN q - p ELSE q - p + KB_BUFFER_LEN
           /\ Used(p, q) \in 0..(KB_BUFFER_LEN - 1)
<1> DEFINE N == KB_BUFFER_LEN
           x == q - p
<1>1. N \in Nat \ {0} /\ p \in 0..(N - 1) /\ q \in 0..(N - 1)
  BY LenAssumption DEF Slots
<1>2. CASE q >= p
  <2>1. x \in 0..(N - 1)
    BY <1>1, <1>2
  <2>2. x % N = x
    BY <1>1, <2>1
  <2> QED BY <1>2, <2>1, <2>2 DEF Used
<1>3. CASE ~(q >= p)
  <2>1. x \in (-N)..(-1)
    BY <1>1, <1>3
  <2>2. x % N = x + N
    BY <1>1, <2>1
  <2>3. x + N \in 0..(N - 1)
    BY <1>1, <1>3
  <2> QED BY <1>3, <2>2, <2>3 DEF Used
<1> QED BY <1>2, <1>3

LEMMA RingType ==
    ASSUME NEW a \in [Slots -> KeyCodes], NEW p \in Slots, NEW q \in Slots
    PROVE  /\ Ring(a, p, q) \in Seq(KeyCodes)
           /\ Len(Ring(a, p, q)) = Used(p, q)
           /\ \A i \in 1..Used(p, q) :
                  Ring(a, p, q)[i] = a[(p + (i - 1)) % KB_BUFFER_LEN]
<1> DEFINE r == Ring(a, p, q)
<1>1. Used(p, q) \in Nat
  BY UsedValue, LenAssumption
<1>2. \A i \in 1..Used(p, q) : p + i - 1 = p + (i - 1)
  BY <1>1, LenAssumption DEF Slots
<1>3. \A i \in 1..Used(p, q) : a[(p + (i - 1)) % KB_BUFFER_LEN] \in KeyCodes
  <2> TAKE i \in 1..Used(p, q)
  <2>1. i - 1 \in 0..(KB_BUFFER_LEN - 1)
    BY <1>1, UsedValue, LenAssumption
  <2> QED BY <2>1, SlotAt
<1>4. r \in [1..Used(p, q) -> KeyCodes]
  BY <1>2, <1>3 DEF Ring
<1>5. r \in Seq(KeyCodes)
  BY <1>1, <1>4, SeqDef
<1>6. Len(r) = Used(p, q)
  BY <1>1, <1>4, <1>5, LenProperties
<1> QED BY <1>2, <1>5, <1>6 DEF Ring

(* Storing a key in the slot of push_index appends it to the sequence.      *)
LEMMA RingPush ==
    ASSUME NEW a \in [Slots -> KeyCodes], NEW p \in Slots, NEW q \in Slots,
           NEW k \in KeyCodes, NextSlot(q) # p
    PROVE  /\ Ring([a EXCEPT ![q] = k], p, NextSlot(q)) = Append(Ring(a, p, q), k)
           /\ Used(p, q) < KB_BUFFER_LEN - 1
<1> DEFINE N == KB_BUFFER_LEN
           b == [a EXCEPT ![q] = k]
           n == Used(p, q)
           s == Ring(b, p, NextSlot(q))
           t == Append(Ring(a, p, q), k)
<1>0. N \in Nat \ {0} /\ p \in 0..(N - 1) /\ q \in 0..(N - 1)
  BY LenAssumption DEF Slots
<1>1. NextSlot(q) = (IF q + 1 = N THEN 0 ELSE q + 1) /\ NextSlot(q) \in Slots
  BY NextSlotValue
<1>2. n = (IF q >= p THEN q - p ELSE q - p + N) /\ n \in 0..(N - 1)
  BY UsedValue
<1>3. Used(p, NextSlot(q)) = n + 1 /\ n < N - 1
  BY <1>0, <1>1, <1>2, UsedValue
<1>4. b \in [Slots -> KeyCodes]
  OBVIOUS
<1>5. s \in Seq(KeyCodes) /\ Len(s) = n + 1
  BY <1>1, <1>3, <1>4, RingType
<1>6. Ring(a, p, q) \in Seq(KeyCodes) /\ Len(Ring(a, p, q)) = n
  BY RingType
<1>7. t \in Seq(KeyCodes) /\ Len(t) = n + 1
  BY <1>6, AppendProperties
<1>8. ASSUME NEW i \in 1..(n + 1) PROVE s[i] = t[i]
  <2> DEFINE j == (p + (i - 1)) % N
  <2>1. i - 1 \in 0..(N - 1)
    BY <1>0, <1>2, <1>3
  <2>2. j = (IF p + (i - 1) < N THEN p + (i - 1) ELSE (p + (i - 1)) - N) /\ j \in Slots
    BY <2>1, SlotAt
  <2>3. s[i] = b[j]
    <3>1. i \in 1..Used(p, NextSlot(q))
      BY <1>3
    <3> HIDE DEF b
    <3> QED BY <1>1, <1>4, <3>1, RingType
  <2>4. CASE i = n + 1
    <3>1. j = q
      BY <1>0, <1>2, <2>2, <2>4
    <3>2. t[i] = k
      BY <1>2, <1>6, <2>4, AppendProperties
    <3> QED BY <2>3, <3>1, <3>2
  <2>5. CASE i # n + 1
    <3>1. i \in 1..n
      BY <1>2, <2>5
    <3>2. j # q
      BY <1>0, <1>2, <1>3, <2>2, <3>1
    <3>3. t[i] = Ring(a, p, q)[i]
      BY <1>6, <3>1, AppendProperties
    <3>4. t[i] = a[j]
      BY <3>1, <3>3, RingType
    <3> QED BY <2>2, <2>3, <3>2, <3>4
  <2> QED BY <2>4, <2>5
<1>9. s = t
  BY <1>5, <1>7, <1>8, SeqEqual
<1> QED BY <1>3, <1>9

(* Moving pop_index on removes the head, which is the slot it left.         *)
LEMMA RingPop ==
    ASSUME NEW a \in [Slots -> KeyCodes], NEW p \in Slots, NEW q \in Slots, p # q
    PROVE  /\ Ring(a, p, q) # <<>>
           /\ Head(Ring(a, p, q)) = a[p]
           /\ Ring(a, NextSlot(p), q) = Tail(Ring(a, p, q))
<1> DEFINE N == KB_BUFFER_LEN
           n == Used(p, q)
           r == Ring(a, p, q)
           s == Ring(a, NextSlot(p), q)
<1>0. N \in Nat \ {0} /\ p \in 0..(N - 1) /\ q \in 0..(N - 1)
  BY LenAssumption DEF Slots
<1>1. NextSlot(p) = (IF p + 1 = N THEN 0 ELSE p + 1) /\ NextSlot(p) \in Slots
  BY NextSlotValue
<1>2. n = (IF q >= p THEN q - p ELSE q - p + N) /\ n \in 1..(N - 1)
  BY <1>0, UsedValue
<1>3. Used(NextSlot(p), q) = n - 1
  BY <1>0, <1>1, <1>2, UsedValue
<1>4. r \in Seq(KeyCodes) /\ Len(r) = n
  BY RingType
<1>5. r # <<>>
  BY <1>2, <1>4
<1>6. Head(r) = a[p]
  <2>1. r[1] = a[(p + (1 - 1)) % N]
    BY <1>2, RingType
  <2>2. (p + (1 - 1)) % N = p
    BY <1>0, SlotAt
  <2> QED BY <1>4, <1>5, <2>1, <2>2
<1>7. s \in Seq(KeyCodes) /\ Len(s) = n - 1
  BY <1>1, <1>3, RingType
<1>8. /\ Tail(r) \in Seq(KeyCodes) /\ Len(Tail(r)) = n - 1
      /\ \A i \in 1..(n - 1) : Tail(r)[i] = r[i + 1]
  BY <1>4, <1>5, HeadTailProperties
<1>9. ASSUME NEW i \in 1..(n - 1) PROVE s[i] = Tail(r)[i]
  <2>1. i - 1 \in 0..(N - 1) /\ i \in 0..(N - 1) /\ i + 1 \in 1..n /\ (i + 1) - 1 = i
    BY <1>0, <1>2
  <2>2. s[i] = a[(NextSlot(p) + (i - 1)) % N]
    <3>1. i \in 1..Used(NextSlot(p), q)
      BY <1>3
    <3> QED BY <1>1, <3>1, RingType
  <2>3. r[i + 1] = a[(p + i) % N]
    BY <2>1, RingType
  <2>4. (NextSlot(p) + (i - 1)) % N =
            IF NextSlot(p) + (i - 1) < N THEN NextSlot(p) + (i - 1)
                                         ELSE (NextSlot(p) + (i - 1)) - N
    BY <1>1, <2>1, SlotAt
  <2>5. (p + i) % N = IF p + i < N THEN p + i ELSE (p + i) - N
    BY <2>1, SlotAt
  <2>6. (NextSlot(p) + (i - 1)) % N = (p + i) % N
    BY <1>0, <1>1, <1>2, <2>4, <2>5
  <2> QED BY <1>8, <2>2, <2>3, <2>6
<1>10. s = Tail(r)
  BY <1>7, <1>8, <1>9, SeqEqual
<1> QED BY <1>5, <1>6, <1>10

-----------------------------------------------------------------------------
LEMMA RefineInit == Init => Queue!Init
<1> SUFFICES ASSUME Init PROVE Queue!Init
  OBVIOUS
<1>1. 0 \in Slots /\ key \in [Slots -> KeyCodes]
  BY LenAssumption DEF Init, Slots, KeyCodes
<1>2. Used(0, 0) = 0
  BY <1>1, UsedValue
<1>3. Ring(key, 0, 0) = <<>>
  BY <1>1, <1>2, RingType
<1> QED BY <1>3 DEF Init, Queue!Init

LEMMA RefineNext == IInv /\ IInv' /\ [Next]_vars => [Queue!Next]_(Queue!vars)
<1> SUFFICES ASSUME IInv, IInv', [Next]_vars PROVE Queue!Next \/ UNCHANGED Queue!vars
  OBVIOUS
<1> DEFINE Kept == UNCHANGED <<key, push_index, pop_index, char>>
<1>a. /\ key \in [Slots -> KeyCodes] /\ push_index \in Slots /\ pop_index \in Slots
      /\ index \in Slots
  BY DEF IInv, TypeOK
<1>b. \A k \in KeyCodes : k # NoKey
  BY DEF KeyCodes, NoKey
(* A step that touches neither the buffer nor the reader's place is a       *)
(* stutter of the queue.                                                    *)
<1>1. ASSUME Kept,
             pc' \in {"install", "reset"} <=> pc \in {"install", "reset"},
             pc' = "read" <=> pc = "read",
             pc = "read" => index' = index
      PROVE  UNCHANGED Queue!vars
  BY <1>1 DEF Queue!vars
<1>2. ASSUME NEW k \in Keyset, PressKey(k) PROVE UNCHANGED Queue!vars
  BY <1>1, <1>2 DEF PressKey, buffer, reader
<1>3. ASSUME NEW k \in Keyset, ReleaseKey(k) PROVE UNCHANGED Queue!vars
  BY <1>1, <1>3 DEF ReleaseKey, buffer, reader
<1>4. CASE kb_handler
  <2>1. /\ wire # <<>> /\ Handle(Head(wire))
        /\ pc' = IF pc = "halted" THEN "check" ELSE pc
        /\ UNCHANGED <<pop_index, index, char>>
    BY <1>4 DEF kb_handler, Wake
  <2>2. CASE UNCHANGED <<key, push_index>>
    BY <1>1, <2>1, <2>2
  <2>3. CASE \E k \in CharKeys \cap KeyCodes :
               /\ ~Full
               /\ key' = [key EXCEPT ![push_index] = k]
               /\ push_index' = NextSlot(push_index)
    <3>1. PICK k \in CharKeys \cap KeyCodes :
               /\ ~Full
               /\ key' = [key EXCEPT ![push_index] = k]
               /\ push_index' = NextSlot(push_index)
      BY <2>3
    <3> DEFINE s == Ring(key, pop_index, push_index)
    <3>2. Ring(key, pop_index, push_index)' = Append(s, k)
      BY <1>a, <2>1, <3>1, RingPush DEF Full
    <3>3. Len(s) < KB_BUFFER_LEN - 1
      BY <1>a, <3>1, RingPush, RingType DEF Full
    <3>4. (pc = "read") = (pc' = "read") /\ (pc = "read" => key'[index] = key[index])
      BY <2>1, SlotKeptStep
    <3>5. Queue!Press(k)
      BY <2>1, <3>2, <3>3, <3>4 DEF Queue!Press
    <3> QED BY <3>5 DEF Queue!Next
  <2> QED BY <2>1, <2>2, <2>3, HandleEffect
<1>5. CASE TimerIrq
  BY <1>1, <1>5 DEF TimerIrq, Wake, buffer
<1>6. CASE InstallHandler
  BY <1>1, <1>6 DEF InstallHandler, buffer
<1>7. CASE ResetIndices
  <2>1. push_index' = 0 /\ pop_index' = 0 /\ key' = key /\ 0 \in Slots
    BY <1>7, LenAssumption DEF ResetIndices, Slots
  <2>2. Ring(key, 0, 0) = <<>>
    <3>1. Used(0, 0) = 0
      BY <2>1, UsedValue
    <3> QED BY <1>a, <2>1, <3>1, RingType
  <2>3. Queue!Open
    BY <1>7, <2>1, <2>2 DEF ResetIndices, Queue!Open
  <2> QED BY <2>3 DEF Queue!Next
<1>8. ASSUME NEW n \in 1..MaxRead, kb_read(n) PROVE UNCHANGED Queue!vars
  BY <1>1, <1>8 DEF kb_read, buffer
<1>9. CASE CheckEmpty
  BY <1>1, <1>9 DEF CheckEmpty, buffer
<1>10. CASE Hlt
  BY <1>1, <1>10 DEF Hlt, buffer
<1>11. CASE PopIndex
  <2>1. /\ pc = "pop" /\ pc' = "read" /\ index' = pop_index
        /\ pop_index' = NextSlot(pop_index)
        /\ UNCHANGED <<key, push_index, char>>
    BY <1>11 DEF PopIndex
  <2>2. pop_index # push_index
    BY <2>1 DEF IInv, ReaderOK
  <2> DEFINE s == Ring(key, pop_index, push_index)
  <2>3. s # <<>> /\ Head(s) = key[pop_index]
    BY <1>a, <2>2, RingPop
  <2>4. Ring(key, pop_index, push_index)' = Tail(s)
    BY <1>a, <2>1, <2>2, RingPop
  <2>5. Queue!Take
    BY <2>1, <2>3, <2>4 DEF Queue!Take
  <2> QED BY <2>5 DEF Queue!Next
<1>12. CASE ReadSlot
  <2>1. /\ pc = "read" /\ pc' \in {"idle", "check"}
        /\ char' = ToChar(key[index])
        /\ UNCHANGED <<key, push_index, pop_index>>
    BY <1>12 DEF ReadSlot, buffer
  <2>2. key[index] # NoKey
    BY <1>a, <1>b
  <2>3. Queue!Deliver
    BY <2>1, <2>2 DEF Queue!Deliver
  <2> QED BY <2>3 DEF Queue!Next
<1>13. CASE UNCHANGED vars
  BY <1>1, <1>13 DEF vars
<1> QED BY <1>2, <1>3, <1>4, <1>5, <1>6, <1>7, <1>8, <1>9, <1>10, <1>11, <1>12, <1>13
        DEF Next, Main

(* The driver's ring buffer implements the bounded FIFO queue: whatever     *)
(* the length and the interleaving of presses and reads, each key accepted  *)
(* is delivered once, in order.                                             *)
THEOREM Refinement == Spec => ImplementsQueue
<1> QED BY RefineInit, RefineNext, Invariance, PTL DEF Spec, ImplementsQueue, Queue!Spec
=============================================================================
