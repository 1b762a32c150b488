----------------------------- MODULE MCKeyboard -----------------------------
(* Instances of Keyboard for TLC: which physical keys can be pressed.       *)
EXTENDS Keyboard, KeymapEsEs

PlainKey(c)   == [esc |-> FALSE, code |-> c]
EscapedKey(c) == [esc |-> TRUE,  code |-> c]

(* A shift, caps lock, the right alt, which is escaped, and a letter: three  *)
(* characters for the buffer, and all four tables.                          *)
MCKeys == {PlainKey(\H2A), PlainKey(\H3A), EscapedKey(\H38), PlainKey(\H1E)}

(* The es_es tables meet the hypothesis of the theorem about modifiers.      *)
ASSUME TablesAssumption == ModifiersAgree
=============================================================================
