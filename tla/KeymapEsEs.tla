----------------------------- MODULE KeymapEsEs -----------------------------
(***************************************************************************)
(* The Spanish keymap of keymaps/es_es.c, restricted to one scan code of    *)
(* each kind the handler tells apart: a letter, a digit, a letter outside   *)
(* ASCII, a function key, every modifier, and a code with no key.           *)
(***************************************************************************)
EXTENDS Integers, TLC

EsScancodes == {\H03, \H1D, \H1E, \H27, \H2A, \H36, \H37, \H38, \H3A, \H3B}

(* LSHIFT, RSHIFT: the same entry in the four tables. *)
Shifts == (\H2A :> \H0300) @@ (\H36 :> \H0400)

(* LCONTROL, LALT, CAPS, F1 and no key: the same in the three plain tables. *)
Plain == Shifts @@ (\H1D :> \H0200) @@ (\H38 :> \H1400) @@ (\H3A :> \H0500)
                @@ (\H3B :> \H0600) @@ (\H37 :> 0)

es_keymap         == Plain @@ (\H03 :> 50) @@ (\H1E :> 97)   @@ (\H27 :> \HA4)
es_shift_keymap   == Plain @@ (\H03 :> 34) @@ (\H1E :> 65)   @@ (\H27 :> \HA5)
es_altgr_keymap   == Plain @@ (\H03 :> 64) @@ (\H1E :> \H91) @@ (\H27 :> 126)

(* RCONTROL, RALT and PRNTSCN exist only after the escape byte.             *)
es_escaped_keymap ==
    Shifts @@ (\H1D :> \H1500) @@ (\H38 :> \H1700) @@ (\H37 :> \H2900)
           @@ [c \in EsScancodes |-> 0]
=============================================================================
