---------------------------- MODULE MCArrayList ----------------------------
(* A small instance of ArrayList: two elements, initial sizes 0 to 3, and   *)
(* enough pushes for an array of one slot to grow three times.             *)
EXTENDS ArrayList

CONSTANTS e1, e2, junk

MCElem == {e1, e2}
MCInitialSizes == 0 .. 3
=============================================================================
