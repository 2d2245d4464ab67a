--------------------------- MODULE ParseContract ---------------------------
(***************************************************************************)
(* What the parser promises the compiler that calls it: it reads the       *)
(* tokens in order and never past the first end mark, it accepts a file    *)
(* only when it has read all of it, and once it has given its verdict it   *)
(* allocates nothing more and gives back everything when it is closed.     *)
(***************************************************************************)
EXTENDS Naturals

VARIABLES end,      \* the number of tokens before the end marks
          pos,      \* how many of them have been read
          arena,    \* the nodes that are allocated
          verdict   \* "open", "accepted", "rejected" or "closed"

contractVars == <<end, pos, arena, verdict>>

ContractInit == end \in Nat /\ pos = 0 /\ arena = {} /\ verdict = "open"

(* Reading on, with nodes allocated and given back on the way.             *)
ReadTokens == /\ verdict = "open"
              /\ pos' \in pos .. end
              /\ UNCHANGED <<end, verdict>>

Accept == /\ verdict = "open"
          /\ pos' = end
          /\ verdict' = "accepted"
          /\ UNCHANGED end

Reject == /\ verdict = "open"
          /\ pos' \in pos .. end
          /\ verdict' = "rejected"
          /\ UNCHANGED end

GiveBack == /\ verdict \in {"accepted", "rejected"}
            /\ arena' \subseteq arena
            /\ UNCHANGED <<end, pos, verdict>>

Close == /\ verdict \in {"accepted", "rejected"}
         /\ arena' = {}
         /\ verdict' = "closed"
         /\ UNCHANGED <<end, pos>>

ContractNext == ReadTokens \/ Accept \/ Reject \/ GiveBack \/ Close

ContractSpec == ContractInit /\ [][ContractNext]_contractVars
=============================================================================
