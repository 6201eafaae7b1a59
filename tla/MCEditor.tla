------------------------------ MODULE MCEditor ------------------------------
(* Editor for TLC: files without a line end, and with one of each kind.     *)
EXTENDS Editor

MCFirstFiles == {<<>>, <<"a">>, <<"cr", "lf">>, <<"lf", "a">>, <<"cr", "a">>}
=============================================================================
