----------------------------- MODULE ArrayList -----------------------------
(***************************************************************************)
(* The generic growable array of src/src/include/arraylist.h: a header     *)
(* (count, capacity) and an element block that malloc and realloc size.    *)
(*                                                                         *)
(* The block is modelled as memory: a function on the slots it really has, *)
(* with Junk in the slots nothing was stored in.  capacity is what the     *)
(* header claims, DOMAIN block what the allocator gave; array_push is      *)
(* right only as long as the two agree, which depends on the order of its  *)
(* statements and on the size the array was made with.                     *)
(***************************************************************************)
EXTENDS Naturals, Sequences

CONSTANTS Elem,          \* the values stored
          Junk,          \* the content of a slot nothing was stored in
          InitialSizes,  \* the sizes arrays are made with
          MaxCount       \* bound of the model: pushes explored

ASSUME JunkIsNoElem == Junk \notin Elem
ASSUME SizesAreNat == InitialSizes \subseteq Nat
ASSUME MaxCountIsNat == MaxCount \in Nat

VARIABLES header,    \* "null" (malloc failed), "live", "freed", "exited" (the process ended)
          count,     \* elements stored, as the header says
          capacity,  \* slots, as the header says
          block,     \* the memory: slot -> content
          overrun    \* has a store gone past the last slot?

vars == <<header, count, capacity, block, overrun>>

Slots(n) == 0 .. n - 1

(* The plausible bugs the mutants of the manifest introduce.               *)
GrownLate(n, cap) == IF n > cap THEN 2 * cap ELSE cap
GrownTooMuch(n, cap) == IF n + 1 > cap THEN 4 * cap ELSE cap
ResizedFresh(b, n) == [i \in Slots(n) |-> Junk]

(* realloc: the slots both blocks have keep their content, the new ones    *)
(* hold whatever the allocator left there.                                 *)
Resized(b, n) == [i \in Slots(n) |-> IF i \in DOMAIN b THEN b[i] ELSE Junk]

(* array_make: malloc gives the block, or fails and array_new passes the   *)
(* null pointer on.                                                        *)
Init == /\ capacity \in InitialSizes
        /\ count = 0
        /\ block = [i \in Slots(capacity) |-> Junk]
        /\ header \in {"live", "null"}
        /\ overrun = FALSE

(* The capacity array_push leaves behind: doubled when one more element    *)
(* would not fit.                                                          *)
Grown(n, cap) == IF n + 1 > cap THEN 2 * cap ELSE cap

(* The store of array_push: a store past the last slot changes no slot of  *)
(* the block, it lands on somebody else's memory.                          *)
Store(b, n, e) == /\ block' = IF n \in DOMAIN b THEN [b EXCEPT ![n] = e] ELSE b
                  /\ overrun' = (overrun \/ n \notin DOMAIN b)
                  /\ count' = n + 1

PushBeforeDoubling(e) ==
           /\ header = "live"
           /\ count < MaxCount
           /\ capacity' = Grown(count, capacity)
           /\ Store(IF count + 1 > capacity THEN Resized(block, capacity) ELSE block,
                    count, e)
           /\ UNCHANGED header

Push(e) == /\ header = "live"
           /\ count < MaxCount
           /\ capacity' = Grown(count, capacity)
           /\ Store(IF count + 1 > capacity THEN Resized(block, capacity') ELSE block,
                    count, e)
           /\ UNCHANGED header

(* realloc returns null: the ASSERT of array_push ends the process, with   *)
(* capacity already doubled and the old block still in place.              *)
PushFails == /\ header = "live"
             /\ count < MaxCount
             /\ count + 1 > capacity
             /\ capacity' = Grown(count, capacity)
             /\ header' = "exited"
             /\ UNCHANGED <<count, block, overrun>>

(* array_free: the block is gone; the owner keeps a dangling pointer.      *)
Free == /\ header = "live"
        /\ header' = "freed"
        /\ UNCHANGED <<count, capacity, block, overrun>>

Next == \/ \E e \in Elem : Push(e)
        \/ PushFails
        \/ Free

Spec == Init /\ [][Next]_vars

-----------------------------------------------------------------------------
(* What the clients of the array rely on.                                  *)

(* The header and the memory are of their types; a live array has as many  *)
(* slots as its header says (arraylist.h:46, array_total_size).            *)
TypeOK == /\ header \in {"null", "live", "freed", "exited"}
          /\ count \in Nat
          /\ capacity \in Nat
          /\ overrun \in BOOLEAN
          /\ block \in [DOMAIN block -> Elem \cup {Junk}]
          /\ header = "live" => DOMAIN block = Slots(capacity)

(* An array made with a slot never has a push that stores past the block   *)
(* (arraylist.h:78): the growth test, the doubling and the realloc leave   *)
(* room for the element every time.  One made with none doubles to none.   *)
StoresInBounds == capacity > 0 => ~overrun

(* Growth is amortised: once the array has grown, more than half of the    *)
(* doubled capacity was needed, so n pushes copy O(n) elements             *)
(* (arraylist.h:73).                                                       *)
GrowthIsAmortised ==
    header = "live" => \/ capacity \in InitialSizes
                       \/ capacity < 2 * count

(* The array is an append-only log: what the slots below count hold is     *)
(* exactly what was pushed, in order, whatever reallocations happened in   *)
(* between (arraylist.h:68-79).  One made with no slots keeps nothing and  *)
(* is a log that is closed.                                                *)
Log == INSTANCE AppendLog
         WITH items <- [i \in 1 .. IF capacity = 0 THEN 0 ELSE count |-> block[i - 1]],
              open  <- (header = "live" /\ capacity > 0)

ImplementsLog == Log!LogSpec
=============================================================================
