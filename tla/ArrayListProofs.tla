-------------------------- MODULE ArrayListProofs --------------------------
(***************************************************************************)
(* Proofs about the growable array, for every set of elements, every       *)
(* initial size and any number of pushes.                                  *)
(***************************************************************************)
EXTENDS ArrayList, TLAPS

(* What makes the properties inductive: a live array that has slots never  *)
(* holds more than them.                                                   *)
CountFits == header = "live" /\ capacity > 0 => count <= capacity

IInv == TypeOK /\ CountFits /\ StoresInBounds /\ GrowthIsAmortised

(* What array_push does to the capacity: never less, and room for one more.*)
LEMMA GrownFits ==
    ASSUME NEW n \in Nat, NEW cap \in Nat
    PROVE  /\ Grown(n, cap) \in Nat
           /\ cap <= Grown(n, cap)
           /\ Grown(n, cap) = 0 <=> cap = 0
           /\ n + 1 <= cap => Grown(n, cap) = cap
           /\ cap > 0 /\ n <= cap => /\ n + 1 <= Grown(n, cap)
                                    /\ \/ Grown(n, cap) = cap
                                       \/ n = cap /\ Grown(n, cap) = 2 * cap
BY DEF Grown

(* What realloc does to the block.                                         *)
LEMMA ResizedType ==
    ASSUME NEW b, b \in [DOMAIN b -> Elem \cup {Junk}], NEW n \in Nat
    PROVE  /\ Resized(b, n) \in [Slots(n) -> Elem \cup {Junk}]
           /\ DOMAIN Resized(b, n) = Slots(n)
BY DEF Resized

LEMMA MoreSlots ==
    ASSUME NEW m \in Nat, NEW n \in Nat, m <= n
    PROVE  Slots(m) \subseteq Slots(n) /\ \A i \in Nat : i < n => i \in Slots(n)
BY DEF Slots

LEMMA InitIInv == Init => IInv
<1> SUFFICES ASSUME Init PROVE IInv
    OBVIOUS
<1>1. capacity \in Nat /\ count = 0 /\ capacity \in InitialSizes
      BY SizesAreNat DEF Init
<1>2. block \in [Slots(capacity) -> Elem \cup {Junk}]
      BY DEF Init
<1>3. DOMAIN block = Slots(capacity)
      BY <1>2
<1>4. header \in {"live", "null"} /\ overrun = FALSE
      BY DEF Init
<1>5. TypeOK
      BY <1>1, <1>2, <1>3, <1>4 DEF TypeOK
<1> QED BY <1>1, <1>4, <1>5 DEF IInv, CountFits, StoresInBounds, GrowthIsAmortised

LEMMA NextIInv == IInv /\ [Next]_vars => IInv'
<1> SUFFICES ASSUME IInv, [Next]_vars PROVE IInv'
    OBVIOUS
<1> USE DEF IInv, TypeOK, CountFits, StoresInBounds, GrowthIsAmortised
<1>1. ASSUME NEW e \in Elem, Push(e) PROVE IInv'
  <2> DEFINE grown == IF count + 1 > capacity THEN Resized(block, capacity') ELSE block
  <2>1. /\ header = "live" /\ header' = "live"
        /\ capacity' = Grown(count, capacity)
        /\ capacity > 0 => count <= capacity
        BY <1>1 DEF Push
  <2>2. /\ capacity' \in Nat /\ capacity <= capacity'
        /\ capacity' = 0 <=> capacity = 0
        /\ count + 1 <= capacity => capacity' = capacity
        /\ capacity > 0 => /\ count + 1 <= capacity'
                           /\ capacity' = capacity \/ (count = capacity /\ capacity' = 2 * capacity)
        BY <2>1, GrownFits
  <2>3. grown \in [Slots(capacity') -> Elem \cup {Junk}]
    <3>1. CASE count + 1 > capacity
          BY <3>1, <2>2, ResizedType
    <3>2. CASE ~(count + 1 > capacity)
          BY <3>2, <2>1, <2>2
    <3> QED BY <3>1, <3>2
  <2>4. capacity > 0 => count \in Slots(capacity')
        BY <2>2 DEF Slots
  <2>5. Store(grown, count, e)
        BY <1>1 DEF Push
  <2> HIDE DEF grown
  <2>6. /\ block' = [grown EXCEPT ![count] = e] \/ block' = grown
        /\ overrun' \in BOOLEAN
        /\ capacity > 0 => overrun' = FALSE
        /\ count' = count + 1
    <3>1. /\ block' = IF count \in DOMAIN grown THEN [grown EXCEPT ![count] = e] ELSE grown
          /\ overrun' = (overrun \/ count \notin DOMAIN grown)
          /\ count' = count + 1
          BY <2>5 DEF Store
    <3>2. DOMAIN grown = Slots(capacity')
          BY <2>3
    <3> QED BY <2>4, <3>1, <3>2
  <2>7. block' \in [Slots(capacity') -> Elem \cup {Junk}]
        BY <2>3, <2>6
  <2>8. TypeOK'
    <3>1. DOMAIN block' = Slots(capacity')
          BY <2>7
    <3>2. block' \in [DOMAIN block' -> Elem \cup {Junk}]
          BY <2>7, <3>1
    <3> QED BY <2>1, <2>2, <2>6, <3>1, <3>2
  <2>9. GrowthIsAmortised'
        BY <2>1, <2>2, <2>6
  <2> QED BY <2>1, <2>2, <2>6, <2>8, <2>9
<1>2. CASE PushFails
      BY <1>2, GrownFits DEF PushFails, Grown
<1>3. CASE Free
      BY <1>3 DEF Free
<1>4. CASE UNCHANGED vars
      BY <1>4 DEF vars, Slots
<1> QED BY <1>1, <1>2, <1>3, <1>4 DEF Next

(* The header and the memory agree, whatever is pushed and whatever size   *)
(* the array was made with, none included (arraylist.h:46).                *)
THEOREM TypeCorrect == Spec => []TypeOK
<1>1. IInv => TypeOK BY DEF IInv
<1> QED BY <1>1, InitIInv, NextIInv, PTL DEF Spec

(* No push stores past a block that was made with a slot (arraylist.h:78). *)
THEOREM StoresAreInBounds == Spec => []StoresInBounds
<1>1. IInv => StoresInBounds BY DEF IInv
<1> QED BY <1>1, InitIInv, NextIInv, PTL DEF Spec

(* An array that has grown is more than half full (arraylist.h:73).        *)
THEOREM AmortisedGrowth == Spec => []GrowthIsAmortised
<1>1. IInv => GrowthIsAmortised BY DEF IInv
<1> QED BY <1>1, InitIInv, NextIInv, PTL DEF Spec

-----------------------------------------------------------------------------
(* Refinement.                                                             *)

items == [i \in 1 .. IF capacity = 0 THEN 0 ELSE count |-> block[i - 1]]

(* Growing keeps what is stored.                                           *)
LEMMA GrowingKeeps ==
    ASSUME IInv, NEW e \in Elem, Push(e), capacity > 0
    PROVE  /\ count' = count + 1 /\ capacity' > 0 /\ capacity' \in Nat
           /\ \A i \in 1 .. count : block'[i - 1] = block[i - 1]
           /\ block'[count] = e
<1> DEFINE grown == IF count + 1 > capacity THEN Resized(block, capacity') ELSE block
<1>1. count \in Nat /\ capacity \in Nat /\ count <= capacity
      BY DEF IInv, TypeOK, CountFits, Push
<1>2. /\ capacity' \in Nat /\ capacity <= capacity' /\ count + 1 <= capacity'
      /\ capacity' = capacity \/ (count = capacity /\ capacity' = 2 * capacity)
      BY <1>1, GrownFits DEF Push
<1>3. DOMAIN block = Slots(capacity)
      BY DEF IInv, TypeOK, Push
<1>4. Slots(capacity) \subseteq Slots(capacity') /\ count \in Slots(capacity')
  <2>1. /\ capacity \in Nat /\ capacity' \in Nat
        /\ capacity <= capacity' /\ count < capacity'
        BY <1>1, <1>2
  <2> QED BY <1>1, <2>1, MoreSlots
<1>5. /\ DOMAIN grown = Slots(capacity')
      /\ \A j \in Slots(capacity) : grown[j] = block[j]
  <2>1. CASE count + 1 > capacity
    <3>1. grown = [j \in Slots(capacity') |-> IF j \in DOMAIN block THEN block[j] ELSE Junk]
          BY <2>1 DEF Resized
    <3> HIDE DEF grown
    <3> QED BY <3>1, <1>3, <1>4
  <2>2. CASE ~(count + 1 > capacity)
        BY <2>2, <1>1, <1>2, <1>3
  <2> QED BY <2>1, <2>2
<1>6. Store(grown, count, e)
      BY DEF Push
<1> HIDE DEF grown
<1>7. block' = [grown EXCEPT ![count] = e] /\ count' = count + 1
      BY <1>4, <1>5, <1>6 DEF Store
<1>8. \A i \in 1 .. count : i - 1 \in Slots(capacity) /\ i - 1 # count
      BY <1>1 DEF Slots
<1> QED BY <1>1, <1>2, <1>4, <1>5, <1>7, <1>8

LEMMA PushAdds ==
    ASSUME IInv, NEW e \in Elem, Push(e), capacity > 0
    PROVE  Log!Add(e)
<1>1. /\ count' = count + 1 /\ capacity' > 0 /\ capacity' \in Nat
      /\ \A i \in 1 .. count : block'[i - 1] = block[i - 1]
      /\ block'[count] = e
      BY GrowingKeeps
<1>2. count \in Nat /\ capacity \in Nat
      BY DEF IInv, TypeOK
<1>3. items' = [i \in 1 .. count + 1 |-> block'[i - 1]]
      BY <1>1 DEF items
<1>4. Append(items, e) = [i \in 1 .. count + 1 |-> IF i <= count THEN block[i - 1] ELSE e]
  <2>1. items = [i \in 1 .. count |-> block[i - 1]] /\ Len(items) = count
        BY <1>2 DEF items
  <2>2. Append(items, e) = [i \in 1 .. Len(items) + 1 |-> IF i = Len(items) + 1 THEN e ELSE items[i]]
        BY <2>1, <1>2
  <2> QED BY <2>1, <2>2, <1>2
<1>5. items' = Append(items, e)
      BY <1>1, <1>2, <1>3, <1>4
<1>6. header = "live" /\ header' = "live"
      BY DEF Push
<1> QED BY <1>1, <1>5, <1>6 DEF Log!Add, items

(* An array that was made with no slots never gets one.                    *)
LEMMA NoSlotsForever ==
    ASSUME IInv, capacity = 0, Next
    PROVE  capacity' = 0
BY GrownFits DEF IInv, TypeOK, Next, Push, PushFails, Free

LEMMA InitRefines == Init => Log!LogInit
<1> SUFFICES ASSUME Init PROVE Log!LogInit
    OBVIOUS
<1>1. items = <<>>
      BY DEF Init, items
<1> QED BY <1>1 DEF Init, Log!LogInit, items

LEMMA NextRefines == IInv /\ [Next]_vars => [Log!LogNext]_(Log!logVars)
<1> SUFFICES ASSUME IInv, [Next]_vars PROVE [Log!LogNext]_(Log!logVars)
    OBVIOUS
<1>1. ASSUME NEW e \in Elem, Push(e), capacity > 0 PROVE Log!LogNext
      BY <1>1, PushAdds DEF Log!LogNext
<1>2. CASE (PushFails \/ Free) /\ capacity > 0
  <2>1. capacity \in Nat /\ count \in Nat
        BY DEF IInv, TypeOK
  <2>2. capacity' > 0 /\ capacity' \in Nat
    <3>1. CASE PushFails
          BY <1>2, <2>1, <3>1, GrownFits DEF PushFails
    <3>2. CASE Free
          BY <1>2, <2>1, <3>2 DEF Free
    <3> QED BY <1>2, <3>1, <3>2
  <2>3. /\ header = "live" /\ header' # "live"
        /\ items' = items
        BY <1>2, <2>1, <2>2 DEF PushFails, Free, items
  <2> QED BY <1>2, <2>3 DEF Log!LogNext, Log!Close, items
<1>3. CASE capacity = 0 /\ Next
  <2>1. capacity' = 0
        BY <1>3, NoSlotsForever
  <2> QED BY <1>3, <2>1 DEF Log!logVars
<1>4. CASE UNCHANGED vars
      BY <1>4 DEF vars, Log!logVars
<1>5. capacity = 0 \/ capacity > 0
      BY DEF IInv, TypeOK
<1> QED BY <1>1, <1>2, <1>3, <1>4, <1>5 DEF Next

(* The array is an append-only log (arraylist.h:68).                       *)
THEOREM Refinement == Spec => ImplementsLog
BY InitIInv, NextIInv, InitRefines, NextRefines, PTL DEF Spec, ImplementsLog, Log!LogSpec
=============================================================================
