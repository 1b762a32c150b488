------------------------------ MODULE MCScreen ------------------------------
(* Instances of Screen for TLC: what the interrupt handlers print.          *)
EXTENDS Screen

(* A message with its end of line, and one that fills a row.                *)
Messages == {<<"x", "nl">>, <<"x", "x", "x">>}
=============================================================================
