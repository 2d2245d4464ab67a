---------------------------- MODULE MCSourceFile ----------------------------
(* Files of up to four characters, one more than the largest file accepted. *)
EXTENDS SourceFile

MCSaves == UNION {[1 .. n -> {"a", "b"}] : n \in 0 .. 4}
               \cup {<<NUL>>, <<NUL, "a">>, <<"a", NUL>>}
=============================================================================
