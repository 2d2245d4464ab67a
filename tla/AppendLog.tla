----------------------------- MODULE AppendLog -----------------------------
(***************************************************************************)
(* What a growable array promises its clients: a sequence to which         *)
(* elements are appended one at a time, in which nothing already stored    *)
(* is lost, moved or overwritten, until the owner closes it (frees it, or  *)
(* the process exits).                                                     *)
(***************************************************************************)
EXTENDS Sequences

CONSTANT Elem      \* the values the array holds

VARIABLES items,   \* the elements pushed so far, oldest first
          open     \* may the owner still push?

logVars == <<items, open>>

LogInit == /\ items = <<>>
           /\ open \in BOOLEAN

Add(e) == /\ open
          /\ items' = Append(items, e)
          /\ open' = open

Close == /\ open
         /\ open' = FALSE
         /\ items' = items

LogNext == \/ \E e \in Elem : Add(e)
           \/ Close

LogSpec == LogInit /\ [][LogNext]_logVars
=============================================================================
