---------------------------- MODULE MCTypeDescr ----------------------------
(* TypeDescr for TLC: two properties, and texts of every character with a  *)
(* meaning but the quotation mark and the backslash.                       *)
EXTENDS TypeDescr

MCKeys == <<"k", "l">>
MCMaxLen == [k |-> 3, l |-> 1]
MCCustoms == {<<"fraction">>, <<"flag">>}
MCNumbers == {<<"long">>, <<"long", " ", "long">>}
MCInts == {7, -7}
MCAlphabet == {"int", "7", "-", " ", ",", "=", "(", ")"}
=============================================================================
