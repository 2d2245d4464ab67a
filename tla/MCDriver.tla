------------------------------ MODULE MCDriver ------------------------------
(* Files of zero, one, four and five characters, the last one too long.     *)
EXTENDS Driver

MCSaves == {<<>>, <<"a">>, <<NUL>>, <<"a", "b", "a", "b">>, <<"a", "b", "a", "b", "a">>}
=============================================================================
