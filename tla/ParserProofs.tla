--------------------------- MODULE ParserProofs ---------------------------
(***************************************************************************)
(* Theorems about the parser, for every file: its types, who owns the      *)
(* nodes, where its errors point, what the report prints, that it keeps    *)
(* the contract of ParseContract, how deep its calls go and how tight the  *)
(* operators of its tree bind.                                             *)
(*                                                                         *)
(* Every step of a parse function does three things: it moves forward in   *)
(* the tokens, it changes the tree (keeps it, adds a node over the nodes   *)
(* it holds, or hangs the result below the node it holds) and it passes    *)
(* the control on (calls, returns, goes round, gives up) with at most one  *)
(* node in hand.  The lemmas are about each of the three; the actions are  *)
(* then shown to be of that form, one by one.                              *)
(***************************************************************************)
EXTENDS Parser, Extremes, SequenceTheorems, TLAPS

(***************************************************************************)
(* The frames.  Where a function waits it either holds nothing or the node *)
(* it is filling, whose kind goes with the function.                       *)
(***************************************************************************)
Bare == {"entry", "declared", "target", "operand", "postfix", "declaration", "expression",
         "parenthesis"}
Maker == [function |-> "AST_DECL_FUNCTION", parameter |-> "AST_DECL_VARIABLE",
          field |-> "AST_DECL_VARIABLE", variable |-> "AST_DECL_VARIABLE",
          struct |-> "AST_DECL_STRUCT", enum |-> "AST_DECL_ENUM", block |-> "AST_STMT_BLOCK",
          if |-> "AST_STMT_IF", while |-> "AST_STMT_WHILE", for |-> "AST_STMT_FOR",
          return |-> "AST_STMT_RETURN", call |-> "AST_EXPR_CALL", type |-> "AST_TYPE_ARRAY"]

Fits(f, H) == IF f.at \in Bare THEN f.node = Null
              ELSE /\ f.node \in 1 .. Len(H)
                   /\ f.fn \in DOMAIN Maker => H[f.node].kind = Maker[f.fn]
Shape(S, H, r) ==
    /\ \A i \in 1 .. Len(S) : /\ Fits(S[i], H)
                              /\ S[i].fn = "director" <=> i = 1
                              /\ i < Len(S) => S[i].at # "entry"
    /\ (S = <<>> \/ S[Len(S)].at = "entry") => r = Null

Keyworded == [if |-> "IfKeyword", while |-> "WhileKeyword", for |-> "ForKeyword",
              return |-> "RetKeyword"]

Control ==
    /\ Shape(stack, heap, result)
    /\ pc = "parsing" <=> stack # <<>>
    /\ pc = "ready" => ast = Null /\ live = {} /\ doomed = {} /\ index = 0
    /\ pc \in {"parsing", "failure"} => ast # Null
    /\ ast # Null => heap[ast].kind = "AST_PROGRAM"
    /\ stack # <<>> /\ top.at = "entry" /\ top.fn \in DOMAIN Keyworded
         => Type(index) = Keyworded[top.fn]
    /\ index <= EndOf

Diagnosed ==
    IF error = "PE_UNKNOWN"
    THEN error_line = 1 /\ error_col = 1
    ELSE /\ error_line = TokenAt(index).line /\ error_col = TokenAt(index).index + 1
         /\ \/ pc \in {"failure", "reported"}
            \/ pc = "parsing" /\ result = Null /\ top.at # "entry"

(***************************************************************************)
(* The nodes.  The roots are those in a local variable, in p->ast or given *)
(* to a free; the other live nodes hang below exactly one pointer each.    *)
(***************************************************************************)
Held(S) == {S[i].node : i \in 1 .. Len(S)} \ {Null}
Roots(S, r, a, d) == (Held(S) \cup {r, a} \cup d) \ {Null}
Distinct(S, r, a, d) ==
    /\ \A i, j \in 1 .. Len(S) : S[i].node = S[j].node => i = j \/ S[i].node = Null
    /\ Held(S) \cap ({r, a} \cup d) = {}
    /\ r # Null => r # a /\ r \notin d
    /\ a \notin d /\ Null \notin d

(* In every set of live nodes there is one that none of them leads to: the *)
(* pointers never run in a circle.                                         *)
Grounded(H, L) == \A T \in SUBSET L : T # {} =>
                      \E n \in T : \A m \in T : \A k \in H[m].kids : k[2] # n
Forest(H, L, R) ==
    /\ Grounded(H, L)
    /\ R \subseteq L
    /\ \A m \in L : \A k \in H[m].kids : k[2] \in L \ R
    /\ \A m, n \in L : \A k \in H[m].kids, h \in H[n].kids : k[2] = h[2] => m = n /\ k = h
    /\ \A n \in L \ R : \E m \in L : \E k \in H[m].kids : k[2] = n

Trees == /\ Distinct(stack, result, ast, doomed)
         /\ Forest(heap, live, Roots(stack, result, ast, doomed))

IInv == IsFile(file) /\ TypeOK /\ Control /\ Diagnosed /\ Trees

Running == IInv /\ pc = "parsing" /\ doomed = {}

(***************************************************************************)
(* What a step of a parse function leaves behind: the tokens read, the     *)
(* tree, and who goes on with node n in hand.                              *)
(***************************************************************************)
Forward == index' \in index .. EndOf
Kinds == /\ Len(heap') \in Nat /\ Len(heap) <= Len(heap')
         /\ \A m \in Nodes : heap'[m].kind = heap[m].kind
Handed(n) == (Roots(stack, result, ast, {}) \ {top.node, result}) \cup ({n} \ {Null})
HeapOK == /\ heap \in Seq(Node)
          /\ \A n \in Nodes : heap[n].kids \subseteq Members(heap[n].kind) \X Nodes
Treed(n) == /\ HeapOK' /\ live' \subseteq Nodes'
            /\ Kinds
            /\ n \in Nodes' \cup {Null}
            /\ Forest(heap', live', Handed(n))
            /\ n \in {Null, top.node, result, Fresh}
Passed(n) == /\ stack' \in Seq(Frame)
             /\ \A i \in 1 .. Len(stack') : stack'[i].node \in Nodes' \cup {Null}
             /\ result' \in Nodes' \cup {Null} /\ doomed' \subseteq Nodes'
             /\ Shape(stack', heap', result')
             /\ pc' = "parsing" /\ stack' # <<>>
             /\ top'.at = "entry" /\ top'.fn \in DOMAIN Keyworded
                  => Type(index') = Keyworded[top'.fn]
             /\ Distinct(stack', result', ast, doomed')
             /\ Roots(stack', result', ast, doomed') = Handed(n)
(* Node n can be kept in the frame of the function that holds it.          *)
Filled(n) == n # Null /\ (top.fn \in DOMAIN Maker => heap'[n].kind = Maker[top.fn])
Moved == Forward /\ \E n : Treed(n) /\ Passed(n)

Callees == Functions \ ({"director"} \cup DOMAIN Keyworded)
Waits == Points \ Bare
Reach == index .. EndOf

-----------------------------------------------------------------------------
(* The tokens.                                                             *)

LEMMA EndFacts ==
    ASSUME IsFile(file)
    PROVE  /\ Len(tokens) \in Nat /\ EndOf \in 0 .. Len(tokens) - 1
           /\ \A i \in Nat : Type(i) = "EOT" <=> i >= EndOf
           /\ \A i \in Nat : TokenAt(i).line \in Nat /\ TokenAt(i).index \in Nat
<1>1. PICK end \in 0 .. Len(tokens) - 1 : \A i \in 1 .. Len(tokens) :
                                               tokens[i].type = "EOT" <=> i > end
  BY DEF IsFile, tokens
<1>2. tokens \in Seq(Token) /\ Len(tokens) \in Nat
  BY DEF IsFile, tokens
<1>3. ASSUME NEW i \in Nat PROVE /\ Type(i) = "EOT" <=> i >= end
                                 /\ TokenAt(i).line \in Nat /\ TokenAt(i).index \in Nat
  <2>1. CASE i < Len(tokens)
    <3>1. i + 1 \in 1 .. Len(tokens) /\ TokenAt(i) = tokens[i + 1]
      BY <2>1, <1>2 DEF TokenAt
    <3>2. tokens[i + 1] \in Token
      BY <3>1, <1>2
    <3> QED BY <3>1, <3>2, <1>1 DEF Type, Token
  <2>2. CASE i >= Len(tokens)
    BY <2>2, <1>2, <1>1 DEF TokenAt, Type
  <2> QED BY <2>1, <2>2, <1>2
<1>4. EndOf = end
  <2>1. end \in 0 .. Len(tokens) /\ Type(end) = "EOT" /\ \A i \in 0 .. end - 1 : Type(i) # "EOT"
    BY <1>3, <1>1, <1>2
  <2>2. ASSUME NEW e \in 0 .. Len(tokens), Type(e) = "EOT",
               \A i \in 0 .. e - 1 : Type(i) # "EOT"
        PROVE  e = end
    <3>1. e >= end
      BY <2>2, <1>3, <1>2
    <3>2. CASE e > end
      BY <3>2, <2>2, <2>1, <1>1, <1>2
    <3> QED BY <3>1, <3>2, <1>1, <1>2
  <2>3. EndOf \in 0 .. Len(tokens) /\ Type(EndOf) = "EOT"
        /\ \A i \in 0 .. EndOf - 1 : Type(i) # "EOT"
    BY <2>1 DEF EndOf
  <2> QED BY <2>2, <2>3
<1> QED BY <1>1, <1>2, <1>3, <1>4

(* advance never leaves the tokens in front of the end marks.              *)
LEMMA GoesForward ==
    ASSUME Running, NEW i \in index .. EndOf, GoTo(i)
    PROVE  Forward
<1>1. EndOf \in 0 .. Len(tokens) - 1 /\ Len(tokens) \in Nat /\ index \in Nat
  BY EndFacts DEF Running, IInv, TypeOK
<1> QED BY <1>1 DEF GoTo, Forward

LEMMA Skipping ==
    ASSUME Running, NEW i \in index .. EndOf, NEW j \in 0 .. Len(tokens), skip_terminators(i, j)
    PROVE  j \in i .. EndOf
<1>1. EndOf \in 0 .. Len(tokens) - 1 /\ Len(tokens) \in Nat /\ index \in Nat
      /\ \A k \in Nat : Type(k) = "EOT" <=> k >= EndOf
  BY EndFacts DEF Running, IInv, TypeOK
<1>2. j \in i .. Len(tokens) /\ \A k \in i .. j - 1 : Type(k) = "Terminator"
  BY DEF skip_terminators
<1>3. ASSUME j > EndOf PROVE FALSE
  <2>1. EndOf \in i .. j - 1
    BY <1>1, <1>2, <1>3
  <2> QED BY <2>1, <1>1, <1>2
<1> QED BY <1>1, <1>2, <1>3

-----------------------------------------------------------------------------
(* Who holds what.  S is the stack, r the result and a the file's node     *)
(* before the step; U, q and d the stack, the result and what is to be     *)
(* freed behind it; n the node that is handed on.                          *)

(* What a function can hand on: what it holds, what it was given, nothing  *)
(* or a new node.                                                          *)
AtHand(S, r, a, n) == n \in {Null, S[Len(S)].node, r} \/ n \notin Roots(S, r, a, {})
HandedOn(S, r, a, n, U, q, d) ==
    /\ Distinct(U, q, a, d)
    /\ Roots(U, q, a, d) = (Roots(S, r, a, {}) \ {S[Len(S)].node, r}) \cup ({n} \ {Null})

LEMMA InHand ==
    ASSUME NEW S, NEW r, NEW a, NEW n, Len(S) \in Nat, Len(S) >= 1,
           Distinct(S, r, a, {}), AtHand(S, r, a, n),
           n # Null
    PROVE  n # a /\ \A i \in 1 .. Len(S) - 1 : S[i].node # n
<1>1. /\ \A i \in 1 .. Len(S) - 1 : i \in 1 .. Len(S) /\ i # Len(S)
      /\ Len(S) \in 1 .. Len(S)
  OBVIOUS
<1>2. CASE n = S[Len(S)].node
  BY <1>1, <1>2 DEF Distinct, Held
<1>3. CASE n = r
  BY <1>1, <1>3 DEF Distinct, Held
<1>4. CASE n \notin Roots(S, r, a, {})
  BY <1>1, <1>4 DEF Roots, Held
<1> QED BY <1>2, <1>3, <1>4 DEF AtHand

LEMMA HandsToCallee ==
    ASSUME NEW S, NEW U, NEW r, NEW a, NEW n, Len(S) \in Nat, Len(S) >= 1,
           Distinct(S, r, a, {}), AtHand(S, r, a, n),
           Len(U) = Len(S) + 1, \A i \in 1 .. Len(S) - 1 : U[i].node = S[i].node,
           U[Len(S)].node = n, U[Len(S) + 1].node = Null
    PROVE  HandedOn(S, r, a, n, U, Null, {})
<1>0. n # Null => n # a /\ \A i \in 1 .. Len(S) - 1 : S[i].node # n
  BY InHand
<1>1. \A i \in 1 .. Len(U) : \/ i \in 1 .. Len(S) - 1 /\ U[i].node = S[i].node
                             \/ i = Len(S) /\ U[i].node = n
                             \/ i = Len(S) + 1 /\ U[i].node = Null
  OBVIOUS
<1>2. /\ \A i \in 1 .. Len(S) - 1 : i \in 1 .. Len(S) /\ i \in 1 .. Len(U) /\ i # Len(S)
      /\ \A i \in 1 .. Len(S) : i \in 1 .. Len(S) - 1 \/ i = Len(S)
      /\ Len(S) \in 1 .. Len(S) /\ Len(S) \in 1 .. Len(U)
  OBVIOUS
<1>3. Distinct(U, Null, a, {})
  <2>1. ASSUME NEW i \in 1 .. Len(U), NEW j \in 1 .. Len(U), U[i].node = U[j].node
        PROVE  i = j \/ U[i].node = Null
    <3>1. CASE i \in 1 .. Len(S) - 1 /\ j \in 1 .. Len(S) - 1
      BY <2>1, <3>1, <1>1, <1>2 DEF Distinct
    <3>2. CASE U[i].node = Null
      BY <3>2
    <3>3. CASE i \notin 1 .. Len(S) - 1 /\ U[i].node # Null
      BY <2>1, <3>3, <1>1, <1>0
    <3>4. CASE j \notin 1 .. Len(S) - 1 /\ U[i].node # Null
      BY <2>1, <3>4, <1>1, <1>0
    <3> QED BY <3>1, <3>2, <3>3, <3>4
  <2>2. ASSUME NEW x \in Held(U) PROVE x # a
    <3>1. PICK i \in 1 .. Len(U) : x = U[i].node /\ x # Null
      BY <2>2 DEF Held
    <3>2. CASE i \in 1 .. Len(S) - 1
      BY <3>1, <3>2, <1>2 DEF Distinct, Held
    <3> QED BY <3>1, <3>2, <1>1, <1>0
  <2> QED BY <2>1, <2>2 DEF Distinct, Held
<1>4. Held(U) = ((Held(S) \ {S[Len(S)].node}) \cup {n}) \ {Null}
  <2>1. ASSUME NEW x \in Held(U) PROVE x \in ((Held(S) \ {S[Len(S)].node}) \cup {n}) \ {Null}
    <3>1. PICK i \in 1 .. Len(U) : x = U[i].node /\ x # Null
      BY <2>1 DEF Held
    <3>2. CASE i \in 1 .. Len(S) - 1
      BY <3>1, <3>2, <1>2 DEF Distinct, Held
    <3> QED BY <3>1, <3>2, <1>1
  <2>2. ASSUME NEW x \in ((Held(S) \ {S[Len(S)].node}) \cup {n}) \ {Null} PROVE x \in Held(U)
    <3>1. CASE x = n
      BY <2>2, <3>1, <1>2 DEF Held
    <3>2. CASE x # n
      <4>0. x \in Held(S) /\ x # S[Len(S)].node
        BY <2>2, <3>2
      <4>1. PICK i \in 1 .. Len(S) : x = S[i].node /\ i # Len(S)
        BY <4>0 DEF Held
      <4>2. i \in 1 .. Len(S) - 1 /\ i \in 1 .. Len(U) /\ U[i].node = x
        BY <4>1, <1>2
      <4> QED BY <4>2, <2>2 DEF Held
    <3> QED BY <3>1, <3>2
  <2> QED BY <2>1, <2>2
<1>5. ASSUME a # Null PROVE a # S[Len(S)].node /\ a # r
  BY <1>5, <1>2 DEF Distinct, Held
<1>6. r \notin Held(S) 
  BY DEF Distinct, Held
<1> QED BY <1>3, <1>4, <1>5, <1>6 DEF Roots, HandedOn

(* The caller gets n, or n is freed.                                       *)
LEMMA HandsToCaller ==
    ASSUME NEW S, NEW U, NEW r, NEW a, NEW n, Len(S) \in Nat, Len(S) >= 1,
           Distinct(S, r, a, {}), AtHand(S, r, a, n),
           Len(U) = Len(S) - 1, \A i \in 1 .. Len(S) - 1 : U[i].node = S[i].node
    PROVE  HandedOn(S, r, a, n, U, n, {}) /\ HandedOn(S, r, a, n, U, Null, {n} \ {Null})
<1>0. n # Null => n # a /\ \A i \in 1 .. Len(S) - 1 : S[i].node # n
  BY InHand
<1>1. /\ \A i \in 1 .. Len(U) : i \in 1 .. Len(S) /\ i # Len(S) /\ U[i].node = S[i].node
      /\ \A i \in 1 .. Len(S) : i \in 1 .. Len(U) \/ i = Len(S)
      /\ Len(S) \in 1 .. Len(S)
  OBVIOUS
<1>2. Held(U) = Held(S) \ {S[Len(S)].node}
  <2>1. ASSUME NEW x \in Held(U) PROVE x \in Held(S) \ {S[Len(S)].node}
    <3>1. PICK i \in 1 .. Len(U) : x = U[i].node /\ x # Null
      BY <2>1 DEF Held
    <3>2. i \in 1 .. Len(S) /\ i # Len(S) /\ S[i].node = x
      BY <3>1, <1>1
    <3>3. S[i].node # S[Len(S)].node
      BY <3>1, <3>2, <1>1 DEF Distinct
    <3> QED BY <3>1, <3>2, <3>3 DEF Held
  <2>2. ASSUME NEW x \in Held(S) \ {S[Len(S)].node} PROVE x \in Held(U)
    BY <2>2, <1>1 DEF Held
  <2> QED BY <2>1, <2>2
<1>3. n # Null => n # a /\ n \notin Held(U)
  BY <1>1, <1>0 DEF Held
<1>4. \A i, j \in 1 .. Len(U) : U[i].node = U[j].node => i = j \/ U[i].node = Null
  BY <1>1 DEF Distinct
<1>5. a # Null => a # S[Len(S)].node /\ a # r
  BY <1>1 DEF Distinct, Held
<1>6. a \notin Held(S) /\ r \notin Held(S) /\ Null \notin Held(U)
  BY DEF Distinct, Held
<1>7. Distinct(U, n, a, {}) /\ Distinct(U, Null, a, {n} \ {Null})
  BY <1>2, <1>3, <1>4, <1>6 DEF Distinct
<1> QED BY <1>2, <1>5, <1>6, <1>7 DEF Roots, HandedOn

(* The same function goes on and gets n.                                   *)
LEMMA HandsToItself ==
    ASSUME NEW S, NEW U, NEW r, NEW a, NEW n, Len(S) \in Nat, Len(S) >= 1,
           Distinct(S, r, a, {}), AtHand(S, r, a, n),
           Len(U) = Len(S), \A i \in 1 .. Len(S) - 1 : U[i].node = S[i].node,
           U[Len(S)].node = Null
    PROVE  HandedOn(S, r, a, n, U, n, {})
<1>0. n # Null => n # a /\ \A i \in 1 .. Len(S) - 1 : S[i].node # n
  BY InHand
<1>1. /\ \A i \in 1 .. Len(U) : \/ i \in 1 .. Len(S) - 1 /\ U[i].node = S[i].node
                                \/ i = Len(S) /\ U[i].node = Null
      /\ \A i \in 1 .. Len(S) - 1 : i \in 1 .. Len(S) /\ i # Len(S)
      /\ \A i \in 1 .. Len(S) : i \in 1 .. Len(S) - 1 \/ i = Len(S)
      /\ Len(S) \in 1 .. Len(S)
  OBVIOUS
<1>2. Held(U) = Held(S) \ {S[Len(S)].node}
  <2>1. ASSUME NEW x \in Held(U) PROVE x \in Held(S) \ {S[Len(S)].node}
    <3>1. PICK i \in 1 .. Len(U) : x = U[i].node /\ x # Null
      BY <2>1 DEF Held
    <3>2. i \in 1 .. Len(S) /\ i # Len(S) /\ S[i].node = x
      BY <3>1, <1>1
    <3>3. S[i].node # S[Len(S)].node
      BY <3>1, <3>2, <1>1 DEF Distinct
    <3> QED BY <3>1, <3>2, <3>3 DEF Held
  <2>2. ASSUME NEW x \in Held(S) \ {S[Len(S)].node} PROVE x \in Held(U)
    BY <2>2, <1>1 DEF Held
  <2> QED BY <2>1, <2>2
<1>3. n # Null => n # a /\ n \notin Held(U)
  BY <1>1, <1>0 DEF Held
<1>4. \A i, j \in 1 .. Len(U) : U[i].node = U[j].node => i = j \/ U[i].node = Null
  BY <1>1 DEF Distinct
<1>5. a # Null => a # S[Len(S)].node /\ a # r
  BY <1>1 DEF Distinct, Held
<1>6. a \notin Held(S) /\ r \notin Held(S) /\ Null \notin Held(U)
  BY DEF Distinct, Held
<1>7. Distinct(U, n, a, {})
  BY <1>2, <1>3, <1>4, <1>6 DEF Distinct
<1> QED BY <1>2, <1>5, <1>6, <1>7 DEF Roots, HandedOn

-----------------------------------------------------------------------------
(* The forest.  H are the nodes before the step, G those behind it.        *)

(* A new node over some of the roots takes their place.                    *)
LEMMA NodeIsAdded ==
    ASSUME NEW H, NEW G, NEW L, NEW R, NEW f, f \notin L, Forest(H, L, R),
           \A m \in L : G[m].kids = H[m].kids,
           \A k \in G[f].kids : k[2] \in R,
           \A k, h \in G[f].kids : k[2] = h[2] => k = h
    PROVE  Forest(G, L \cup {f}, (R \ {k[2] : k \in G[f].kids}) \cup {f})
<1> DEFINE K == G[f].kids
           Q == (R \ {k[2] : k \in K}) \cup {f}
           M == L \cup {f}
<1>1. Q \subseteq M
  BY DEF Forest
<1>2. ASSUME NEW m \in M, NEW k \in G[m].kids PROVE k[2] \in M \ Q
  BY <1>2 DEF Forest
<1>3. ASSUME NEW m \in M, NEW n \in M, NEW k \in G[m].kids, NEW h \in G[n].kids, k[2] = h[2]
      PROVE  m = n /\ k = h
  <2>1. CASE m \in L /\ n \in L
    BY <1>3, <2>1 DEF Forest
  <2>2. CASE m = f /\ n = f
    BY <1>3, <2>2
  <2>3. CASE m \in L /\ n = f
    BY <1>3, <2>3 DEF Forest
  <2>4. CASE m = f /\ n \in L
    BY <1>3, <2>4 DEF Forest
  <2> QED BY <2>1, <2>2, <2>3, <2>4
<1>4. ASSUME NEW n \in M \ Q PROVE \E m \in M : \E k \in G[m].kids : k[2] = n
  <2>1. CASE n \in R
    BY <1>4, <2>1
  <2>2. CASE n \notin R
    <3>1. PICK m \in L : \E k \in H[m].kids : k[2] = n
      BY <1>4, <2>2 DEF Forest
    <3> QED BY <3>1
  <2> QED BY <2>1, <2>2
<1>5. Grounded(G, M)
  <2>1. SUFFICES ASSUME NEW T \in SUBSET M, T # {}
                 PROVE  \E n \in T : \A m \in T : \A k \in G[m].kids : k[2] # n
    BY DEF Grounded
  <2>2. CASE f \in T
    <3>1. \A m \in T : \A k \in G[m].kids : k[2] # f
      BY <1>2
    <3> QED BY <2>2, <3>1
  <2>3. CASE f \notin T
    <3>1. T \in SUBSET L /\ \A m \in T : G[m].kids = H[m].kids
      BY <2>3
    <3>2. PICK n \in T : \A m \in T : \A k \in H[m].kids : k[2] # n
      BY <2>1, <3>1 DEF Forest, Grounded
    <3> QED BY <3>1, <3>2
  <2> QED BY <2>2, <2>3
<1> HIDE DEF K, Q, M
<1>6. Forest(G, M, Q)
  BY <1>1, <1>2, <1>3, <1>4, <1>5 DEF Forest
<1> QED BY <1>6 DEF M, Q, K

(* A root is hung below another.                                           *)
LEMMA NodeIsHung ==
    ASSUME NEW H, NEW G, NEW L, NEW R, NEW n \in R, NEW r \in R, n # r, Forest(H, L, R),
           NEW member, G[n].kids = H[n].kids \cup {<<member, r>>},
           \A m \in L \ {n} : G[m].kids = H[m].kids
    PROVE  Forest(G, L, R \ {r})
<1>1. ASSUME NEW m \in L, NEW k \in G[m].kids PROVE k[2] \in L \ (R \ {r})
  <2>1. CASE k \in H[m].kids
    BY <2>1 DEF Forest
  <2>2. CASE k = <<member, r>>
    BY <2>2 DEF Forest
  <2> QED BY <1>1, <2>1, <2>2
<1>2. ASSUME NEW m \in L, NEW k \in G[m].kids
      PROVE  \/ k \in H[m].kids /\ k[2] # r
             \/ m = n /\ k = <<member, r>> /\ k[2] = r
  BY <1>2 DEF Forest
<1>3. ASSUME NEW m \in L, NEW p \in L, NEW k \in G[m].kids, NEW h \in G[p].kids, k[2] = h[2]
      PROVE  m = p /\ k = h
  BY <1>2, <1>3 DEF Forest
<1>4. ASSUME NEW p \in L \ (R \ {r}) PROVE \E m \in L : \E k \in G[m].kids : k[2] = p
  <2>1. CASE p = r
    <3>1. <<member, r>> \in G[n].kids /\ n \in L /\ <<member, r>>[2] = r
      BY DEF Forest
    <3> QED BY <3>1, <2>1
  <2>2. CASE p # r
    <3>1. PICK m \in L : \E k \in H[m].kids : k[2] = p
      BY <1>4, <2>2 DEF Forest
    <3>2. H[m].kids \subseteq G[m].kids
      OBVIOUS
    <3> QED BY <3>1, <3>2
  <2> QED BY <2>1, <2>2
<1>5. R \ {r} \subseteq L
  BY DEF Forest
<1>6. Grounded(G, L)
  <2>1. SUFFICES ASSUME NEW T \in SUBSET L, T # {}
                 PROVE  \E p \in T : \A m \in T : \A k \in G[m].kids : k[2] # p
    BY DEF Grounded
  <2>2. CASE n \in T
    <3>1. \A m \in T : \A k \in G[m].kids : k[2] # n
      BY <1>1
    <3> QED BY <2>2, <3>1
  <2>3. CASE n \notin T
    <3>1. \A m \in T : G[m].kids = H[m].kids
      BY <2>3
    <3>2. PICK p \in T : \A m \in T : \A k \in H[m].kids : k[2] # p
      BY <2>1 DEF Forest, Grounded
    <3> QED BY <3>1, <3>2
  <2> QED BY <2>2, <2>3
<1> QED BY <1>1, <1>3, <1>4, <1>5, <1>6 DEF Forest

(* The same, in one predicate.                                             *)
Hung(H, G, L, R, n, member, r) ==
    /\ n \in R /\ r \in R /\ n # r /\ Forest(H, L, R)
    /\ G[n].kids = H[n].kids \cup {<<member, r>>}
    /\ \A m \in L \ {n} : G[m].kids = H[m].kids
LEMMA HungKeepsForest ==
    ASSUME NEW H, NEW G, NEW L, NEW R, NEW n, NEW member, NEW r,
           Hung(H, G, L, R, n, member, r)
    PROVE  Forest(G, L, R \ {r})
<1>1. /\ n \in R /\ r \in R /\ n # r /\ Forest(H, L, R)
      /\ G[n].kids = H[n].kids \cup {<<member, r>>}
      /\ \A m \in L \ {n} : G[m].kids = H[m].kids
  BY DEF Hung
<1> QED BY <1>1, NodeIsHung

(* A root is freed, and those below it are roots.                          *)
LEMMA NodeIsFreed ==
    ASSUME NEW H, NEW L, NEW R, NEW n \in R, Forest(H, L, R)
    PROVE  Forest(H, L \ {n}, (R \ {n}) \cup {k[2] : k \in H[n].kids})
<1> DEFINE Q == (R \ {n}) \cup {k[2] : k \in H[n].kids}
<1>1. n \in L /\ \A m \in L : \A k \in H[m].kids : k[2] # n /\ k[2] \in L /\ k[2] \notin R
  BY DEF Forest
<1>2. Q \subseteq L \ {n}
  BY <1>1 DEF Forest
<1>3. ASSUME NEW m \in L \ {n}, NEW k \in H[m].kids PROVE k[2] \notin Q
  <2>1. SUFFICES ASSUME NEW h \in H[n].kids, h[2] = k[2] PROVE FALSE
    BY <1>1
  <2> QED BY <2>1, <1>1 DEF Forest
<1>4. ASSUME NEW p \in (L \ {n}) \ Q PROVE \E m \in L \ {n} : \E k \in H[m].kids : k[2] = p
  <2>1. PICK m \in L : \E k \in H[m].kids : k[2] = p
    BY <1>4 DEF Forest
  <2> QED BY <2>1, <1>4
<1>5. \A m, p \in L \ {n} : \A k \in H[m].kids, h \in H[p].kids : k[2] = h[2] => m = p /\ k = h
  BY DEF Forest
<1>6. Grounded(H, L \ {n})
  <2>1. Grounded(H, L)
    BY DEF Forest
  <2>2. SUBSET (L \ {n}) \subseteq SUBSET L
    OBVIOUS
  <2> QED BY <2>1, <2>2 DEF Grounded
<1> HIDE DEF Q
<1>7. Forest(H, L \ {n}, Q)
  BY <1>1, <1>2, <1>3, <1>4, <1>5, <1>6 DEF Forest
<1> QED BY <1>7 DEF Q

-----------------------------------------------------------------------------
(* What a step does to the tree.                                           *)

LEMMA RunningFacts ==
    ASSUME Running
    PROVE  /\ stack \in Seq(Frame) /\ Len(stack) \in Nat /\ Len(stack) >= 1 /\ top \in Frame
           /\ top.node \in Nodes \cup {Null} /\ result \in Nodes \cup {Null}
           /\ ast \in Nodes /\ heap[ast].kind = "AST_PROGRAM" /\ ast # Null
           /\ HeapOK /\ Len(heap) \in Nat /\ index \in Nat
           /\ live \subseteq Nodes /\ Fresh \notin Nodes /\ Fresh # Null
           /\ Fits(top, heap) /\ Shape(stack, heap, result)
           /\ Distinct(stack, result, ast, {})
           /\ Forest(heap, live, Roots(stack, result, ast, {}))
           /\ Roots(stack, result, ast, {}) \subseteq live
           /\ top.node \in Roots(stack, result, ast, {}) \cup {Null}
           /\ result \in Roots(stack, result, ast, {}) \cup {Null}
           /\ ast \in Roots(stack, result, ast, {}) /\ ast # top.node /\ ast # result
           /\ top.node # Null => top.node # result
<1>1. /\ stack \in Seq(Frame) /\ Len(stack) \in Nat /\ stack # <<>>
      /\ heap \in Seq(Node) /\ Len(heap) \in Nat /\ index \in Nat
      /\ \A i \in 1 .. Len(stack) : stack[i].node \in Nodes \cup {Null}
      /\ result \in Nodes \cup {Null} /\ live \subseteq Nodes
      /\ ast \in Nodes /\ heap[ast].kind = "AST_PROGRAM" /\ ast # Null
  BY DEF Running, IInv, TypeOK, Control
<1>2. Len(stack) >= 1 /\ Len(stack) \in 1 .. Len(stack)
  BY <1>1
<1>3. top \in Frame /\ top.node \in Nodes \cup {Null}
  BY <1>1, <1>2 DEF top
<1>4. HeapOK
  BY DEF HeapOK, Running, IInv, TypeOK
<1>5. Fresh \notin Nodes /\ Fresh # Null
  BY <1>1 DEF Fresh, Nodes, Null
<1>6. Shape(stack, heap, result) /\ Fits(top, heap)
  BY <1>2 DEF Running, IInv, Control, Shape, top
<1>7. /\ Distinct(stack, result, ast, {})
      /\ Forest(heap, live, Roots(stack, result, ast, {}))
  BY DEF Running, IInv, Trees
<1>8. Roots(stack, result, ast, {}) \subseteq live
  BY <1>7 DEF Forest
<1>9. /\ top.node \in Roots(stack, result, ast, {}) \cup {Null}
      /\ result \in Roots(stack, result, ast, {}) \cup {Null}
      /\ ast \in Roots(stack, result, ast, {})
  BY <1>1, <1>2 DEF Roots, Held, top
<1>10. ast # top.node /\ ast # result /\ (top.node # Null => top.node # result)
  BY <1>1, <1>2, <1>7 DEF Distinct, Held, top
<1> QED BY <1>1, <1>2, <1>3, <1>4, <1>5, <1>6, <1>7, <1>8, <1>9, <1>10

LEMMA Keeps ==
    ASSUME Running, Keep, NEW n,
           \/ top.node = Null /\ n = result
           \/ result = Null /\ n = top.node
    PROVE  Treed(n)
<1>1. heap' = heap /\ live' = live
  BY DEF Keep, memory
<1>2. HeapOK' /\ live' \subseteq Nodes' /\ n \in Nodes' \cup {Null} /\ Nodes' = Nodes
  BY <1>1, RunningFacts DEF HeapOK, Nodes
<1>3. Kinds
  BY <1>1, RunningFacts DEF Kinds
<1>4. Null \notin Roots(stack, result, ast, {})
  BY DEF Roots
<1>5. Handed(n) = Roots(stack, result, ast, {})
  BY <1>4, RunningFacts DEF Handed
<1>6. Forest(heap', live', Handed(n))
  BY <1>1, <1>5, RunningFacts
<1> QED BY <1>2, <1>3, <1>6 DEF Treed

LEMMA Makes ==
    ASSUME Running, NEW kind \in AstNodeType, NEW i \in Nat, NEW kids, Make(kind, i, kids),
           kids \subseteq Members(kind) \X Nodes,
           {k[2] : k \in kids} = {top.node, result} \ {Null},
           \A k, h \in kids : k[2] = h[2] => k = h
    PROVE  Treed(Fresh) /\ Fresh \in Nodes' /\ heap'[Fresh].kind = kind
<1> DEFINE R == Roots(stack, result, ast, {})
           new == [kind |-> kind, token |-> i, kids |-> kids]
<1>0. kids \in SUBSET (Pointers \X Nat)
  <2>1. Members(kind) \subseteq Pointers
    BY DEF Pointers
  <2>2. Nodes \subseteq Nat
    BY RunningFacts DEF Nodes
  <2> QED BY <2>1, <2>2
<1>1. heap \in Seq(Node) /\ Len(heap) \in Nat /\ new \in Node
  BY <1>0, RunningFacts DEF HeapOK, Node
<1>2. heap' = Append(heap, new) /\ live' = live \cup {Fresh}
  BY DEF Make
<1>3. /\ heap' \in Seq(Node) /\ Len(heap') = Len(heap) + 1
      /\ \A m \in Nodes : heap'[m] = heap[m]
      /\ heap'[Fresh] = new
  BY <1>1, <1>2, AppendProperties DEF Nodes, Fresh
<1>4. Nodes' = Nodes \cup {Fresh}
  BY <1>1, <1>3 DEF Nodes, Fresh
<1>5. HeapOK'
  <2>1. ASSUME NEW m \in Nodes' PROVE heap'[m].kids \subseteq Members(heap'[m].kind) \X Nodes'
    <3>1. CASE m \in Nodes
      BY <3>1, <1>3, <1>4, RunningFacts DEF HeapOK
    <3>2. CASE m = Fresh
      BY <3>2, <1>3, <1>4
    <3> QED BY <3>1, <3>2, <1>4
  <2> QED BY <2>1, <1>3 DEF HeapOK
<1>6. live' \subseteq Nodes' /\ Kinds
  <2>1. live' \subseteq Nodes'
    BY <1>2, <1>4, RunningFacts
  <2>2. Len(heap') \in Nat /\ Len(heap) <= Len(heap')
    BY <1>1, <1>3
  <2>3. \A m \in Nodes : heap'[m].kind = heap[m].kind
    BY <1>3
  <2> QED BY <2>1, <2>2, <2>3 DEF Kinds
<1>7. Forest(heap', live \cup {Fresh}, (R \ {k[2] : k \in heap'[Fresh].kids}) \cup {Fresh})
  <2>1. Forest(heap, live, R) /\ Fresh \notin live
    BY RunningFacts
  <2>2. heap'[Fresh].kids = kids /\ \A m \in live : heap'[m].kids = heap[m].kids
    BY <1>3, RunningFacts
  <2>3. \A k \in kids : k[2] \in R
    <3>1. {top.node, result} \ {Null} \subseteq R
      BY RunningFacts
    <3>2. \A k \in kids : k[2] \in {h[2] : h \in kids}
      OBVIOUS
    <3> HIDE DEF R
    <3> QED BY <3>1, <3>2
  <2> HIDE DEF R
  <2> QED BY <2>1, <2>2, <2>3, NodeIsAdded
<1>8. Handed(Fresh) = (R \ {k[2] : k \in heap'[Fresh].kids}) \cup {Fresh}
  <2>1. {k[2] : k \in heap'[Fresh].kids} = {top.node, result} \ {Null} /\ Null \notin R
    <3>1. heap'[Fresh].kids = kids
      BY <1>3
    <3> QED BY <3>1 DEF Roots
  <2>2. Handed(Fresh) = (R \ {top.node, result}) \cup {Fresh}
    BY RunningFacts DEF Handed
  <2> HIDE DEF R
  <2> QED BY <2>1, <2>2
<1>9. Forest(heap', live', Handed(Fresh))
  BY <1>2, <1>7, <1>8
<1>10. Fresh \in Nodes' /\ heap'[Fresh].kind = kind
  BY <1>3, <1>4
<1> QED BY <1>5, <1>6, <1>9, <1>10 DEF Treed

LEMMA MakesLeaf ==
    ASSUME Running, NEW kind \in AstNodeType, Make(kind, index, {}), top.node = Null, result = Null
    PROVE  Treed(Fresh) /\ Fresh \in Nodes' /\ heap'[Fresh].kind = kind
<1>1. index \in Nat
  BY RunningFacts
<1>2. {k[2] : k \in {}} = {top.node, result} \ {Null}
  OBVIOUS
<1> QED BY <1>1, <1>2, Makes

LEMMA MakesOverResult ==
    ASSUME Running, NEW kind \in AstNodeType, NEW i \in Nat, NEW member \in Members(kind),
           Make(kind, i, {<<member, result>>}), top.node = Null, result # Null
    PROVE  Treed(Fresh) /\ Fresh \in Nodes' /\ heap'[Fresh].kind = kind
<1> DEFINE kids == {<<member, result>>}
<1>1. result \in Nodes /\ result \in Nat
  BY RunningFacts DEF Nodes
<1>2. kids \subseteq Members(kind) \X Nodes
  BY <1>1
<1>3. {k[2] : k \in kids} = {top.node, result} \ {Null}
  OBVIOUS
<1>4. \A k, h \in kids : k[2] = h[2] => k = h
  OBVIOUS
<1>5. Make(kind, i, kids)
  OBVIOUS
<1> HIDE DEF kids
<1> QED BY <1>2, <1>3, <1>4, <1>5, Makes

LEMMA MakesOverBoth ==
    ASSUME Running, NEW kind \in AstNodeType, NEW i \in Nat, NEW left \in Members(kind),
           NEW right \in Members(kind), Make(kind, i, {<<left, top.node>>, <<right, result>>}),
           top.node # Null, result # Null
    PROVE  Treed(Fresh) /\ Fresh \in Nodes' /\ heap'[Fresh].kind = kind
<1> DEFINE kids == {<<left, top.node>>, <<right, result>>}
<1>1. /\ result \in Nodes /\ result \in Nat /\ top.node \in Nodes /\ top.node \in Nat
      /\ top.node # result
  BY RunningFacts DEF Nodes
<1>2. kids \subseteq Members(kind) \X Nodes
  BY <1>1
<1>3. {k[2] : k \in kids} = {top.node, result} \ {Null}
  OBVIOUS
<1>4. \A k, h \in kids : k[2] = h[2] => k = h
  BY <1>1
<1>5. Make(kind, i, kids)
  OBVIOUS
<1> HIDE DEF kids
<1> QED BY <1>2, <1>3, <1>4, <1>5, Makes

(* A pointer of node n is set to the result.                               *)
LEMMA Hangs ==
    ASSUME Running, NEW n \in Roots(stack, result, ast, {}), n # result, result # Null,
           NEW member \in Members(heap[n].kind),
           heap' = [heap EXCEPT ![n].kids = @ \cup {<<member, result>>}]
    PROVE  /\ HeapOK' /\ Nodes' = Nodes /\ Kinds
           /\ Forest(heap', live, Roots(stack, result, ast, {}) \ {result})
<1> DEFINE R == Roots(stack, result, ast, {})
           new == [heap[n] EXCEPT !.kids = @ \cup {<<member, result>>}]
<1>1. heap \in Seq(Node) /\ Len(heap) \in Nat /\ n \in 1 .. Len(heap) /\ n \in Nodes
      /\ result \in Nodes /\ result \in Nat
  BY RunningFacts DEF HeapOK, Nodes
<1>2. heap[n] \in Node
  BY <1>1
<1>3. new \in Node /\ new.kids = heap[n].kids \cup {<<member, result>>} /\ new.kind = heap[n].kind
  <2>1. member \in Pointers
    BY <1>2 DEF Node, Pointers
  <2>2. heap[n].kids \cup {<<member, result>>} \in SUBSET (Pointers \X Nat)
    BY <1>1, <1>2, <2>1 DEF Node
  <2> QED BY <1>2, <2>2 DEF Node
<1>4. heap' = [heap EXCEPT ![n] = new]
  OBVIOUS
<1> HIDE DEF new
<1>5. /\ heap' \in Seq(Node) /\ Len(heap') = Len(heap)
      /\ \A m \in Nodes : heap'[m] = IF m = n THEN new ELSE heap[m]
  <2>1. /\ [heap EXCEPT ![n] = new] \in Seq(Node)
        /\ Len([heap EXCEPT ![n] = new]) = Len(heap)
        /\ \A m \in 1 .. Len(heap) : [heap EXCEPT ![n] = new][m]
                                         = IF m = n THEN new ELSE heap[m]
    BY <1>1, <1>3, ExceptSeq
  <2> QED BY <1>4, <2>1 DEF Nodes
<1>6. Nodes' = Nodes
  BY <1>5 DEF Nodes
<1>7. HeapOK'
  <2>1. ASSUME NEW m \in Nodes' PROVE heap'[m].kids \subseteq Members(heap'[m].kind) \X Nodes'
    <3>1. heap[m].kids \subseteq Members(heap[m].kind) \X Nodes
      BY <1>6, RunningFacts DEF HeapOK
    <3>2. CASE m = n
      BY <3>1, <3>2, <1>1, <1>3, <1>5, <1>6
    <3>3. CASE m # n
      BY <3>1, <3>3, <1>5, <1>6
    <3> QED BY <3>2, <3>3
  <2> QED BY <2>1, <1>5 DEF HeapOK
<1>8. Kinds
  BY <1>1, <1>3, <1>5 DEF Kinds
<1>9. Forest(heap', live, R \ {result})
  <2>1. Forest(heap, live, R) /\ result \in R /\ n \in R /\ live \subseteq Nodes
    BY RunningFacts
  <2>2. heap'[n].kids = heap[n].kids \cup {<<member, result>>}
    BY <1>1, <1>3, <1>5
  <2>3. \A m \in live \ {n} : heap'[m].kids = heap[m].kids
    BY <2>1, <1>5
  <2>4. n # result
    OBVIOUS
  <2> HIDE DEF R
  <2> QED BY ONLY <2>1, <2>2, <2>3, <2>4, NodeIsHung, Zenon
<1> QED BY <1>6, <1>7, <1>8, <1>9

LEMMA Adopts ==
    ASSUME Running, top.node # Null, result # Null, NEW member \in Members(heap[top.node].kind),
           Adopt(member)
    PROVE  Treed(top.node) /\ top.node \in Nodes' /\ heap'[top.node].kind = heap[top.node].kind
<1>1. /\ top.node \in Roots(stack, result, ast, {}) /\ top.node # result
      /\ top.node \in Nodes /\ live \subseteq Nodes
  BY RunningFacts
<1>2. /\ HeapOK' /\ Nodes' = Nodes /\ Kinds
      /\ Forest(heap', live, Roots(stack, result, ast, {}) \ {result})
  BY <1>1, Hangs DEF Adopt
<1>3. Handed(top.node) = Roots(stack, result, ast, {}) \ {result}
  BY <1>1 DEF Handed
<1>4. live' = live
  BY DEF Adopt
<1> QED BY <1>1, <1>2, <1>3, <1>4 DEF Treed, Kinds

LEMMA AdoptsDeclaration ==
    ASSUME Running, top.node = Null, result # Null, AdoptDeclaration
    PROVE  Treed(Null)
<1>1. /\ ast \in Roots(stack, result, ast, {}) /\ ast # result /\ ast \in Nodes
      /\ live \subseteq Nodes
  BY RunningFacts
<1>2. "declarations" \in Members(heap[ast].kind)
  BY RunningFacts DEF Members, In, AstProgram
<1>3. /\ HeapOK' /\ Nodes' = Nodes /\ Kinds
      /\ Forest(heap', live, Roots(stack, result, ast, {}) \ {result})
  <2>1. heap' = [heap EXCEPT ![ast].kids = @ \cup {<<"declarations", result>>}]
    BY DEF AdoptDeclaration
  <2> QED BY <1>1, <1>2, <2>1, Hangs
<1>4. Handed(Null) = Roots(stack, result, ast, {}) \ {result}
  BY DEF Handed, Roots
<1>5. live' = live
  BY DEF AdoptDeclaration
<1> QED BY <1>1, <1>3, <1>4, <1>5 DEF Treed

-----------------------------------------------------------------------------
(* How a step passes the control on.                                       *)

WithTop(S, f) == Append(SubSeq(S, 1, Len(S) - 1), f)
WithCallee(S, f, g) == SubSeq(S, 1, Len(S) - 1) \o <<f, g>>

LEMMA OuterFrames ==
    ASSUME NEW S \in Seq(Frame), Len(S) >= 1
    PROVE  /\ SubSeq(S, 1, Len(S) - 1) \in Seq(Frame)
           /\ Len(SubSeq(S, 1, Len(S) - 1)) = Len(S) - 1
           /\ \A i \in 1 .. Len(S) - 1 : SubSeq(S, 1, Len(S) - 1)[i] = S[i]
<1> DEFINE n == Len(S) - 1
           O == SubSeq(S, 1, n)
<1>1. Len(S) \in Nat /\ n \in Nat /\ 1 \in Int /\ n \in Int
  OBVIOUS
<1>2. \A i \in 1 .. n : S[i] \in Frame
  BY <1>1
<1> HIDE DEF n
<1>3. /\ O \in Seq(Frame)
      /\ Len(O) = IF 1 <= n THEN n - 1 + 1 ELSE 0
      /\ \A i \in 1 .. n - 1 + 1 : O[i] = S[1 + i - 1]
  BY <1>1, <1>2, SubSeqProperties
<1> HIDE DEF O
<1>4. Len(O) = n
  BY <1>1, <1>3
<1>5. \A i \in 1 .. n : O[i] = S[i]
  BY <1>1, <1>3
<1> QED BY <1>3, <1>4, <1>5 DEF O, n

LEMMA OneFrameReplaced ==
    ASSUME NEW S \in Seq(Frame), Len(S) >= 1, NEW f \in Frame
    PROVE  /\ WithTop(S, f) \in Seq(Frame) /\ Len(WithTop(S, f)) = Len(S)
           /\ WithTop(S, f)[Len(S)] = f
           /\ \A i \in 1 .. Len(S) - 1 : WithTop(S, f)[i] = S[i]
<1> DEFINE O == SubSeq(S, 1, Len(S) - 1)
<1>1. Len(S) \in Nat /\ O \in Seq(Frame) /\ Len(O) = Len(S) - 1
      /\ \A i \in 1 .. Len(S) - 1 : O[i] = S[i]
  BY OuterFrames
<1> HIDE DEF O
<1>2. /\ Append(O, f) \in Seq(Frame) /\ Len(Append(O, f)) = Len(O) + 1
      /\ \A i \in 1 .. Len(O) : Append(O, f)[i] = O[i]
      /\ Append(O, f)[Len(O) + 1] = f
  BY <1>1, AppendProperties
<1>3. WithTop(S, f) = Append(O, f)
  BY DEF O, WithTop
<1> QED BY <1>1, <1>2, <1>3

LEMMA OneFrameMore ==
    ASSUME NEW S \in Seq(Frame), Len(S) >= 1, NEW f \in Frame, NEW g \in Frame
    PROVE  /\ WithCallee(S, f, g) \in Seq(Frame) /\ Len(WithCallee(S, f, g)) = Len(S) + 1
           /\ WithCallee(S, f, g)[Len(S)] = f /\ WithCallee(S, f, g)[Len(S) + 1] = g
           /\ \A i \in 1 .. Len(S) - 1 : WithCallee(S, f, g)[i] = S[i]
<1> DEFINE O == SubSeq(S, 1, Len(S) - 1)
           P == <<f, g>>
           U == WithCallee(S, f, g)
<1>1. Len(S) \in Nat /\ O \in Seq(Frame) /\ Len(O) = Len(S) - 1
      /\ \A i \in 1 .. Len(S) - 1 : O[i] = S[i]
  BY OuterFrames
<1>2. P \in Seq(Frame) /\ Len(P) = 2 /\ P[1] = f /\ P[2] = g
  OBVIOUS
<1>3. U = O \o P
  BY DEF WithCallee
<1> HIDE DEF O, P, U
<1>4. /\ U \in Seq(Frame) /\ Len(U) = Len(O) + Len(P)
      /\ \A i \in 1 .. Len(O) + Len(P) : U[i] = IF i <= Len(O) THEN O[i] ELSE P[i - Len(O)]
  BY <1>1, <1>2, <1>3, ConcatProperties
<1>5. Len(U) = Len(S) + 1
  BY <1>1, <1>2, <1>4
<1>6. \A i \in 1 .. Len(S) + 1 : U[i] = IF i <= Len(S) - 1 THEN O[i] ELSE P[i - (Len(S) - 1)]
  BY <1>1, <1>2, <1>4
<1>7. U[Len(S)] = P[Len(S) - (Len(S) - 1)] /\ U[Len(S) + 1] = P[Len(S) + 1 - (Len(S) - 1)]
  <2>1. Len(S) \in 1 .. Len(S) + 1 /\ ~(Len(S) <= Len(S) - 1)
    BY <1>1
  <2>2. Len(S) + 1 \in 1 .. Len(S) + 1 /\ ~(Len(S) + 1 <= Len(S) - 1)
    BY <1>1
  <2>3. U[Len(S)] = P[Len(S) - (Len(S) - 1)]
    BY ONLY <2>1, <1>6
  <2>4. U[Len(S) + 1] = P[Len(S) + 1 - (Len(S) - 1)]
    BY ONLY <2>2, <1>6
  <2> QED BY <2>3, <2>4
<1>8. Len(S) - (Len(S) - 1) = 1 /\ Len(S) + 1 - (Len(S) - 1) = 2
  BY <1>1
<1>9. \A i \in 1 .. Len(S) - 1 : U[i] = S[i]
  BY <1>1, <1>6
<1> QED BY <1>2, <1>4, <1>5, <1>7, <1>8, <1>9 DEF U

(* The frames below the top one fit the nodes that there are now.          *)
LEMMA OuterFits ==
    ASSUME Running, Kinds, NEW i \in 1 .. Len(stack)
    PROVE  /\ Fits(stack[i], heap') /\ stack[i].node \in Nodes' \cup {Null}
           /\ stack[i].fn = "director" <=> i = 1
           /\ i < Len(stack) => stack[i].at # "entry"
<1>1. /\ stack[i].node \in Nodes \cup {Null} /\ Fits(stack[i], heap)
      /\ stack[i].fn = "director" <=> i = 1
      /\ i < Len(stack) => stack[i].at # "entry"
  BY DEF Running, IInv, TypeOK, Control, Shape
<1>2. /\ Len(heap) \in Nat /\ Len(heap') \in Nat /\ Len(heap) <= Len(heap')
      /\ \A m \in 1 .. Len(heap) : heap'[m].kind = heap[m].kind
  BY RunningFacts DEF Kinds, Nodes
<1>3. Fits(stack[i], heap')
  BY <1>1, <1>2 DEF Fits
<1>4. stack[i].node \in Nodes' \cup {Null}
  BY <1>1, <1>2 DEF Nodes
<1> QED BY <1>1, <1>3, <1>4

LEMMA Calls ==
    ASSUME Running, NEW n, Treed(n),
           NEW fn \in Functions, fn # "director", fn \notin DOMAIN Keyworded,
           NEW at \in Points, at # "entry", Call(n, fn, at),
           at \in Bare => n = Null,
           at \notin Bare => n # Null /\ (top.fn \in DOMAIN Maker => heap'[n].kind = Maker[top.fn])
    PROVE  Passed(n)
<1> DEFINE f == [top EXCEPT !.at = at, !.node = n, !.op = index]
           g == [fn |-> fn, at |-> "entry", node |-> Null, op |-> 0]
<1>1. /\ stack' = SubSeq(stack, 1, Len(stack) - 1) \o <<f, g>> /\ result' = Null
      /\ doomed' = {} /\ pc' = "parsing"
  BY DEF Call, Outer, Running
<1>2. /\ Kinds /\ n \in Nodes' \cup {Null} /\ n \in {Null, top.node, result, Fresh}
      /\ Nodes' = 1 .. Len(heap') /\ n \in Nat
  BY RunningFacts DEF Treed, Kinds, Nodes, Null
<1>3. f \in Frame /\ f.fn = top.fn /\ f.at = at /\ f.node = n
  BY <1>2, RunningFacts DEF Frame
<1>4. g \in Frame /\ g.fn = fn /\ g.at = "entry" /\ g.node = Null
  BY DEF Frame, Points, Null
<1>5. stack \in Seq(Frame) /\ Len(stack) \in Nat /\ Len(stack) >= 1
  BY RunningFacts
<1> HIDE DEF f, g
<1>6. /\ stack' \in Seq(Frame) /\ Len(stack') = Len(stack) + 1 /\ stack'[Len(stack)] = f
      /\ stack'[Len(stack) + 1] = g
      /\ \A i \in 1 .. Len(stack) - 1 : stack'[i] = stack[i]
  <2>1. stack' = WithCallee(stack, f, g)
    BY <1>1 DEF WithCallee
  <2>2. stack \in Seq(Frame) /\ Len(stack) >= 1 /\ f \in Frame /\ g \in Frame
    BY <1>3, <1>4, <1>5
  <2>3. /\ WithCallee(stack, f, g) \in Seq(Frame)
        /\ Len(WithCallee(stack, f, g)) = Len(stack) + 1
        /\ WithCallee(stack, f, g)[Len(stack)] = f /\ WithCallee(stack, f, g)[Len(stack) + 1] = g
        /\ \A i \in 1 .. Len(stack) - 1 : WithCallee(stack, f, g)[i] = stack[i]
    BY <2>2, OneFrameMore
  <2> QED BY <2>1, <2>3
<1>7. Fits(f, heap')
  BY <1>2, <1>3 DEF Fits
<1>8. Fits(g, heap')
  BY <1>4 DEF Fits, Bare
<1>9. ASSUME NEW i \in 1 .. Len(stack')
      PROVE  /\ Fits(stack'[i], heap') /\ stack'[i].node \in Nodes' \cup {Null}
             /\ stack'[i].fn = "director" <=> i = 1
             /\ i < Len(stack') => stack'[i].at # "entry"
  <2>1. CASE i \in 1 .. Len(stack) - 1
    <3>1. i \in 1 .. Len(stack) /\ i < Len(stack) /\ stack'[i] = stack[i]
      BY <2>1, <1>5, <1>6
    <3> QED BY <3>1, <1>2, OuterFits
  <2>2. CASE i = Len(stack)
    <3>1. stack[i].fn = "director" <=> i = 1
      BY <2>2, <1>2, <1>5, OuterFits
    <3> QED BY <3>1, <2>2, <1>2, <1>3, <1>6, <1>7 DEF top
  <2>3. CASE i = Len(stack) + 1
    BY <2>3, <1>4, <1>5, <1>6, <1>8
  <2> QED BY <2>1, <2>2, <2>3, <1>5, <1>6
<1>10. top' = g /\ stack' # <<>>
  BY <1>5, <1>6 DEF top
<1>11. Shape(stack', heap', result')
  BY <1>1, <1>9 DEF Shape
<1>12. HandedOn(stack, result, ast, n, stack', Null, {})
  <2>1. AtHand(stack, result, ast, n)
    BY <1>2, RunningFacts DEF AtHand, top
  <2>2. Distinct(stack, result, ast, {})
    BY RunningFacts
  <2>3. /\ Len(stack') = Len(stack) + 1 /\ stack'[Len(stack)].node = n
        /\ stack'[Len(stack) + 1].node = Null
        /\ \A i \in 1 .. Len(stack) - 1 : stack'[i].node = stack[i].node
    BY <1>3, <1>4, <1>6
  <2> QED BY <2>1, <2>2, <2>3, <1>5, HandsToCallee
<1> QED BY <1>1, <1>4, <1>6, <1>9, <1>10, <1>11, <1>12 DEF Passed, Handed, HandedOn, top

(* Only parse_director has no caller.                                      *)
LEMMA HasCaller ==
    ASSUME Running, Kinds, top.fn # "director"
    PROVE  /\ Outer \in Seq(Frame) /\ Len(Outer) = Len(stack) - 1 /\ Len(Outer) >= 1
           /\ \A i \in 1 .. Len(stack) - 1 : Outer[i] = stack[i]
           /\ \A i \in 1 .. Len(Outer) : Outer[i].node \in Nodes' \cup {Null}
           /\ Outer[Len(Outer)].at # "entry"
           /\ \A r : Shape(Outer, heap', r)
<1>1. stack \in Seq(Frame) /\ Len(stack) \in Nat /\ Len(stack) >= 1
  BY RunningFacts
<1>2. /\ Outer \in Seq(Frame) /\ Len(Outer) = Len(stack) - 1
      /\ \A i \in 1 .. Len(stack) - 1 : Outer[i] = stack[i]
  BY <1>1, OuterFrames DEF Outer
<1>3. Len(stack) # 1
  <2>1. Len(stack) \in 1 .. Len(stack)
    BY <1>1
  <2> QED BY <2>1, OuterFits DEF top
<1>4. Len(Outer) >= 1
  BY <1>1, <1>2, <1>3
<1>5. ASSUME NEW i \in 1 .. Len(Outer)
      PROVE  /\ Fits(Outer[i], heap') /\ Outer[i].node \in Nodes' \cup {Null}
             /\ Outer[i].fn = "director" <=> i = 1
             /\ Outer[i].at # "entry"
  <2>1. i \in 1 .. Len(stack) /\ i < Len(stack) /\ Outer[i] = stack[i]
    BY <1>1, <1>2
  <2> QED BY <2>1, OuterFits
<1>6. Len(Outer) \in 1 .. Len(Outer) /\ Outer # <<>>
  BY <1>1, <1>2, <1>4
<1>7. \A r : Shape(Outer, heap', r)
  BY <1>5, <1>6 DEF Shape
<1> QED BY <1>2, <1>4, <1>5, <1>6, <1>7

LEMMA Returns ==
    ASSUME Running, NEW n, Treed(n), top.fn # "director", Return(n)
    PROVE  Passed(n)
<1>1. stack' = Outer /\ result' = n /\ doomed' = {} /\ pc' = "parsing"
  BY DEF Return, Running
<1>2. Kinds /\ n \in Nodes' \cup {Null} /\ n \in {Null, top.node, result, Fresh}
  BY DEF Treed
<1>3. /\ Outer \in Seq(Frame) /\ Len(Outer) = Len(stack) - 1 /\ Len(Outer) >= 1
      /\ \A i \in 1 .. Len(stack) - 1 : Outer[i] = stack[i]
      /\ \A i \in 1 .. Len(Outer) : Outer[i].node \in Nodes' \cup {Null}
      /\ Outer[Len(Outer)].at # "entry"
      /\ Shape(Outer, heap', n)
  BY <1>2, HasCaller
<1>4. top'.at # "entry" /\ stack' # <<>>
  BY <1>1, <1>3 DEF top
<1>5. HandedOn(stack, result, ast, n, Outer, n, {})
  <2>1. AtHand(stack, result, ast, n)
    BY <1>2, RunningFacts DEF AtHand, top
  <2>2. Distinct(stack, result, ast, {}) /\ Len(stack) \in Nat /\ Len(stack) >= 1
    BY RunningFacts
  <2>3. /\ Len(Outer) = Len(stack) - 1
        /\ \A i \in 1 .. Len(stack) - 1 : Outer[i].node = stack[i].node
    BY <1>3
  <2> QED BY <2>1, <2>2, <2>3, HandsToCaller
<1> QED BY <1>1, <1>2, <1>3, <1>4, <1>5 DEF Passed, Handed, HandedOn, top

LEMMA Fails ==
    ASSUME Running, NEW n, Treed(n), top.fn # "director", Fail(n)
    PROVE  Passed(n)
<1>1. stack' = Outer /\ result' = Null /\ doomed' = {n} \ {Null} /\ pc' = "parsing"
  BY DEF Fail, Running
<1>2. Kinds /\ n \in Nodes' \cup {Null} /\ n \in {Null, top.node, result, Fresh}
  BY DEF Treed
<1>3. /\ Outer \in Seq(Frame) /\ Len(Outer) = Len(stack) - 1 /\ Len(Outer) >= 1
      /\ \A i \in 1 .. Len(stack) - 1 : Outer[i] = stack[i]
      /\ \A i \in 1 .. Len(Outer) : Outer[i].node \in Nodes' \cup {Null}
      /\ Outer[Len(Outer)].at # "entry"
      /\ Shape(Outer, heap', Null)
  BY <1>2, HasCaller
<1>4. top'.at # "entry" /\ stack' # <<>>
  BY <1>1, <1>3 DEF top
<1>5. HandedOn(stack, result, ast, n, Outer, Null, {n} \ {Null})
  <2>1. AtHand(stack, result, ast, n)
    BY <1>2, RunningFacts DEF AtHand, top
  <2>2. Distinct(stack, result, ast, {}) /\ Len(stack) \in Nat /\ Len(stack) >= 1
    BY RunningFacts
  <2>3. /\ Len(Outer) = Len(stack) - 1
        /\ \A i \in 1 .. Len(stack) - 1 : Outer[i].node = stack[i].node
    BY <1>3
  <2> QED BY <2>1, <2>2, <2>3, HandsToCaller
<1> QED BY <1>1, <1>2, <1>3, <1>4, <1>5 DEF Passed, Handed, HandedOn, top

LEMMA GoesRound ==
    ASSUME Running, NEW n, Treed(n), top.fn # "director",
           NEW at \in {"operand", "postfix"}, Again(n, at)
    PROVE  Passed(n)
<1> DEFINE f == [top EXCEPT !.at = at, !.node = Null]
<1>1. /\ stack' = WithTop(stack, f) /\ result' = n /\ doomed' = {} /\ pc' = "parsing"
  BY DEF Again, Outer, Running, WithTop
<1>2. Kinds /\ n \in Nodes' \cup {Null} /\ n \in {Null, top.node, result, Fresh}
  BY DEF Treed
<1>3. f \in Frame /\ f.fn = top.fn /\ f.at = at /\ f.node = Null
  <2>1. at \in Points /\ Null \in Nat
    BY DEF Points, Null
  <2> QED BY <2>1, RunningFacts DEF Frame
<1>4. stack \in Seq(Frame) /\ Len(stack) \in Nat /\ Len(stack) >= 1
  BY RunningFacts
<1> HIDE DEF f
<1>5. /\ stack' \in Seq(Frame) /\ Len(stack') = Len(stack) /\ stack'[Len(stack)] = f
      /\ \A i \in 1 .. Len(stack) - 1 : stack'[i] = stack[i]
  <2>1. /\ WithTop(stack, f) \in Seq(Frame) /\ Len(WithTop(stack, f)) = Len(stack)
        /\ WithTop(stack, f)[Len(stack)] = f
        /\ \A i \in 1 .. Len(stack) - 1 : WithTop(stack, f)[i] = stack[i]
    BY <1>3, <1>4, OneFrameReplaced
  <2> QED BY <1>1, <2>1
<1>6. Fits(f, heap') /\ f.at # "entry"
  BY <1>3 DEF Fits, Bare
<1>7. ASSUME NEW i \in 1 .. Len(stack')
      PROVE  /\ Fits(stack'[i], heap') /\ stack'[i].node \in Nodes' \cup {Null}
             /\ stack'[i].fn = "director" <=> i = 1
             /\ stack'[i].at # "entry"
  <2>1. CASE i \in 1 .. Len(stack) - 1
    <3>1. i \in 1 .. Len(stack) /\ i < Len(stack) /\ stack'[i] = stack[i]
      BY <2>1, <1>4, <1>5
    <3> QED BY <3>1, <1>2, OuterFits
  <2>2. CASE i = Len(stack)
    <3>1. stack[i].fn = "director" <=> i = 1
      BY <2>2, <1>2, <1>4, OuterFits
    <3> QED BY <3>1, <2>2, <1>3, <1>5, <1>6 DEF top
  <2> QED BY <2>1, <2>2, <1>4, <1>5
<1>8. top' = f /\ stack' # <<>>
  BY <1>4, <1>5 DEF top
<1>9. Shape(stack', heap', result')
  BY <1>6, <1>7, <1>8 DEF Shape, top
<1>10. HandedOn(stack, result, ast, n, stack', n, {})
  <2>1. AtHand(stack, result, ast, n)
    BY <1>2, RunningFacts DEF AtHand, top
  <2>2. Distinct(stack, result, ast, {})
    BY RunningFacts
  <2>3. /\ Len(stack') = Len(stack) /\ stack'[Len(stack)].node = Null
        /\ \A i \in 1 .. Len(stack) - 1 : stack'[i].node = stack[i].node
    BY <1>3, <1>5
  <2> QED BY <2>1, <2>2, <2>3, <1>4, HandsToItself
<1> QED BY <1>1, <1>2, <1>5, <1>6, <1>7, <1>8, <1>9, <1>10 DEF Passed, Handed, HandedOn, top

(* return f(p), from the entry of a function that has done nothing yet.    *)
LEMMA Becomes ==
    ASSUME Running, Keep, index' = index, top.at = "entry", top.fn # "director",
           NEW fn \in Functions, fn # "director", Become(fn),
           fn \in DOMAIN Keyworded => Type(index) = Keyworded[fn]
    PROVE  Moved
<1> DEFINE f == [top EXCEPT !.fn = fn]
<1>1. /\ stack' = WithTop(stack, f) /\ result' = result /\ doomed' = {} /\ pc' = "parsing"
  BY DEF Become, Outer, Running, WithTop
<1>2. top.node = Null /\ result = Null
  BY RunningFacts DEF Fits, Bare, Shape, top
<1>3. Treed(Null)
  BY <1>2, Keeps
<1>4. Kinds
  BY <1>3 DEF Treed
<1>5. f \in Frame /\ f.fn = fn /\ f.at = "entry" /\ f.node = Null
  BY <1>2, RunningFacts DEF Frame
<1>6. stack \in Seq(Frame) /\ Len(stack) \in Nat /\ Len(stack) >= 1
  BY RunningFacts
<1> HIDE DEF f
<1>7. /\ stack' \in Seq(Frame) /\ Len(stack') = Len(stack) /\ stack'[Len(stack)] = f
      /\ \A i \in 1 .. Len(stack) - 1 : stack'[i] = stack[i]
  <2>1. /\ WithTop(stack, f) \in Seq(Frame) /\ Len(WithTop(stack, f)) = Len(stack)
        /\ WithTop(stack, f)[Len(stack)] = f
        /\ \A i \in 1 .. Len(stack) - 1 : WithTop(stack, f)[i] = stack[i]
    BY <1>5, <1>6, OneFrameReplaced
  <2> QED BY <1>1, <2>1
<1>8. Fits(f, heap')
  BY <1>5 DEF Fits, Bare
<1>9. ASSUME NEW i \in 1 .. Len(stack')
      PROVE  /\ Fits(stack'[i], heap') /\ stack'[i].node \in Nodes' \cup {Null}
             /\ stack'[i].fn = "director" <=> i = 1
             /\ i < Len(stack') => stack'[i].at # "entry"
  <2>1. CASE i \in 1 .. Len(stack) - 1
    <3>1. i \in 1 .. Len(stack) /\ i < Len(stack) /\ stack'[i] = stack[i]
      BY <2>1, <1>6, <1>7
    <3> QED BY <3>1, <1>4, OuterFits
  <2>2. CASE i = Len(stack)
    <3>1. stack[i].fn = "director" <=> i = 1
      BY <2>2, <1>4, <1>6, OuterFits
    <3> QED BY <3>1, <2>2, <1>5, <1>7, <1>8 DEF top
  <2> QED BY <2>1, <2>2, <1>6, <1>7
<1>10. top' = f /\ stack' # <<>>
  BY <1>6, <1>7 DEF top
<1>11. Shape(stack', heap', result')
  BY <1>1, <1>2, <1>9 DEF Shape
<1>12. HandedOn(stack, result, ast, Null, stack', Null, {})
  <2>1. AtHand(stack, result, ast, Null)
    BY DEF AtHand
  <2>2. Distinct(stack, result, ast, {})
    BY RunningFacts
  <2>3. /\ Len(stack') = Len(stack) /\ stack'[Len(stack)].node = Null
        /\ \A i \in 1 .. Len(stack) - 1 : stack'[i].node = stack[i].node
    BY <1>5, <1>7
  <2> QED BY <2>1, <2>2, <2>3, <1>6, HandsToItself
<1>13. Passed(Null)
  BY <1>1, <1>2, <1>5, <1>7, <1>9, <1>10, <1>11, <1>12 DEF Passed, Handed, HandedOn, top
<1>14. Forward
  BY GoesForward, RunningFacts, EndFacts DEF Forward, Running, IInv, Control
<1> QED BY <1>3, <1>13, <1>14 DEF Moved

-----------------------------------------------------------------------------
(* The forms of a step.                                                    *)

LEMMA CallMoves ==
    ASSUME Running, NEW n, Treed(n), Filled(n), Forward,
           NEW fn \in Callees, NEW at \in Waits, Call(n, fn, at)
    PROVE  Moved
<1>1. /\ fn \in Functions /\ fn # "director" /\ fn \notin DOMAIN Keyworded
      /\ at \in Points /\ at # "entry" /\ at \notin Bare
  BY DEF Callees, Waits, Bare
<1>2. Passed(n)
  BY <1>1, Calls DEF Filled
<1> QED BY <1>2 DEF Moved

LEMMA BareCallMoves ==
    ASSUME Running, Treed(Null), Forward,
           NEW fn \in Callees, NEW at \in Bare \ {"entry"}, Call(Null, fn, at)
    PROVE  Moved
<1>1. /\ fn \in Functions /\ fn # "director" /\ fn \notin DOMAIN Keyworded
      /\ at \in Points /\ at # "entry" /\ at \in Bare
  BY DEF Callees, Points, Bare
<1>2. Passed(Null)
  BY <1>1, Calls
<1> QED BY <1>2 DEF Moved

LEMMA ReturnMoves ==
    ASSUME Running, NEW n, Treed(n), Forward, top.fn # "director", Return(n)
    PROVE  Moved
BY Returns DEF Moved

LEMMA FailMoves ==
    ASSUME Running, NEW n, Treed(n), Forward, top.fn # "director", Fail(n)
    PROVE  Moved
BY Fails DEF Moved

LEMMA AgainMoves ==
    ASSUME Running, NEW n, Treed(n), Forward, top.fn # "director",
           NEW at \in {"operand", "postfix"}, Again(n, at)
    PROVE  Moved
BY GoesRound DEF Moved

LEMMA AtEntry ==
    ASSUME Running, top.at = "entry"
    PROVE  top.node = Null /\ result = Null
BY RunningFacts DEF Fits, Bare, Shape, top

LEMMA AtBare ==
    ASSUME Running, top.at \in Bare
    PROVE  top.node = Null
BY RunningFacts DEF Fits, top

LEMMA AtWait ==
    ASSUME Running, top.at \in Waits
    PROVE  /\ top.node # Null
           /\ top.fn \in DOMAIN Maker => heap[top.node].kind = Maker[top.fn]
<1>1. Fits(top, heap) /\ top.at \notin Bare /\ Len(heap) \in Nat
  BY RunningFacts DEF Waits
<1> QED BY <1>1 DEF Fits, Null

(* A function begins with its node.                                        *)
LEMMA EntryMakes ==
    ASSUME Running, top.at = "entry", NEW kind \in AstNodeType, Make(kind, index, {}),
           top.fn \in DOMAIN Maker => Maker[top.fn] = kind
    PROVE  Treed(Fresh) /\ Filled(Fresh)
<1>1. top.node = Null /\ result = Null
  BY AtEntry
<1>2. Treed(Fresh) /\ heap'[Fresh].kind = kind
  BY <1>1, MakesLeaf
<1>3. Fresh # Null
  BY RunningFacts
<1> QED BY <1>2, <1>3 DEF Filled

(* It goes on with what its callee returned.                               *)
LEMMA WaitAdopts ==
    ASSUME Running, NEW fn \in DOMAIN Maker, NEW at \in Waits, At(fn, at),
           NEW member \in Members(Maker[fn]), Adopt(member)
    PROVE  Treed(top.node) /\ Filled(top.node)
<1>1. top.fn = fn /\ top.at = at /\ result # Null
  BY DEF At, Waits, Bare
<1>2. top.node # Null /\ heap[top.node].kind = Maker[fn]
  BY <1>1, AtWait
<1>3. Treed(top.node) /\ heap'[top.node].kind = heap[top.node].kind
  BY <1>1, <1>2, Adopts
<1> QED BY <1>1, <1>2, <1>3 DEF Filled

LEMMA Reaching ==
    ASSUME Running
    PROVE  /\ index \in Nat /\ EndOf \in Nat /\ index \in Reach
           /\ \A i \in Reach : i \in Nat
           /\ \A i \in Reach : Type(i) # "EOT" => i + 1 \in Reach
           /\ \A i \in Reach : GoTo(i) => Forward
           /\ index' = index => Forward
<1>1. /\ EndOf \in Nat /\ index \in Nat /\ index <= EndOf
      /\ \A i \in Nat : Type(i) = "EOT" <=> i >= EndOf
  BY EndFacts, RunningFacts DEF Running, IInv, Control
<1>2. index \in Reach /\ \A i \in Reach : i \in Nat
  BY <1>1 DEF Reach
<1>3. ASSUME NEW i \in Reach, Type(i) # "EOT" PROVE i + 1 \in Reach
  BY <1>1, <1>3 DEF Reach
<1>4. ASSUME NEW i \in Reach, GoTo(i) PROVE Forward
  BY <1>4, GoesForward DEF Reach
<1>5. ASSUME index' = index PROVE Forward
  BY <1>1, <1>5 DEF Forward
<1> QED BY <1>1, <1>2, <1>3, <1>4, <1>5

-----------------------------------------------------------------------------
(* What the tables say.                                                    *)

LEMMA CalleeFacts ==
    /\ Expression = "assignment"
    /\ "import" \in Callees /\ "function" \in Callees /\ "parameter" \in Callees
    /\ "field" \in Callees /\ "member" \in Callees /\ "variable" \in Callees
    /\ "struct" \in Callees /\ "enum" \in Callees /\ "statement" \in Callees
    /\ "block" \in Callees /\ "assignment" \in Callees /\ "logical_or" \in Callees
    /\ "logical_and" \in Callees /\ "equality" \in Callees /\ "comparison" \in Callees
    /\ "term" \in Callees /\ "factor" \in Callees /\ "unary" \in Callees
    /\ "primary" \in Callees /\ "type" \in Callees
BY DEF Callees, Functions, Tighter, Keyworded, Expression

LEMMA WaitFacts ==
    /\ "parameters" \in Waits /\ "return_type" \in Waits /\ "body" \in Waits
    /\ "type" \in Waits /\ "initializer" \in Waits /\ "fields" \in Waits
    /\ "members" \in Waits /\ "statements" \in Waits /\ "condition_in_parens" \in Waits
    /\ "condition" \in Waits /\ "then_stmt" \in Waits /\ "else_stmt" \in Waits
    /\ "range" \in Waits /\ "init" \in Waits /\ "update" \in Waits /\ "value" \in Waits
    /\ "right" \in Waits /\ "arguments" \in Waits /\ "size" \in Waits
    /\ "element_type" \in Waits
BY DEF Waits, Points, Bare

LEMMA BareFacts ==
    /\ "declared" \in Bare \ {"entry"} /\ "target" \in Bare \ {"entry"}
    /\ "operand" \in Bare \ {"entry"} /\ "postfix" \in Bare \ {"entry"}
    /\ "declaration" \in Bare \ {"entry"} /\ "expression" \in Bare \ {"entry"}
    /\ "parenthesis" \in Bare \ {"entry"}
BY DEF Bare

LEMMA MakerFacts ==
    /\ "function" \in DOMAIN Maker /\ Maker["function"] = "AST_DECL_FUNCTION"
    /\ "AST_DECL_FUNCTION" \in AstNodeType
    /\ "parameter" \in DOMAIN Maker /\ Maker["parameter"] = "AST_DECL_VARIABLE"
    /\ "AST_DECL_VARIABLE" \in AstNodeType
    /\ "field" \in DOMAIN Maker /\ Maker["field"] = "AST_DECL_VARIABLE"
    /\ "AST_DECL_VARIABLE" \in AstNodeType
    /\ "variable" \in DOMAIN Maker /\ Maker["variable"] = "AST_DECL_VARIABLE"
    /\ "AST_DECL_VARIABLE" \in AstNodeType
    /\ "struct" \in DOMAIN Maker /\ Maker["struct"] = "AST_DECL_STRUCT"
    /\ "AST_DECL_STRUCT" \in AstNodeType
    /\ "enum" \in DOMAIN Maker /\ Maker["enum"] = "AST_DECL_ENUM"
    /\ "AST_DECL_ENUM" \in AstNodeType
    /\ "block" \in DOMAIN Maker /\ Maker["block"] = "AST_STMT_BLOCK"
    /\ "AST_STMT_BLOCK" \in AstNodeType
    /\ "if" \in DOMAIN Maker /\ Maker["if"] = "AST_STMT_IF"
    /\ "AST_STMT_IF" \in AstNodeType
    /\ "while" \in DOMAIN Maker /\ Maker["while"] = "AST_STMT_WHILE"
    /\ "AST_STMT_WHILE" \in AstNodeType
    /\ "for" \in DOMAIN Maker /\ Maker["for"] = "AST_STMT_FOR"
    /\ "AST_STMT_FOR" \in AstNodeType
    /\ "return" \in DOMAIN Maker /\ Maker["return"] = "AST_STMT_RETURN"
    /\ "AST_STMT_RETURN" \in AstNodeType
    /\ "call" \in DOMAIN Maker /\ Maker["call"] = "AST_EXPR_CALL"
    /\ "AST_EXPR_CALL" \in AstNodeType
    /\ "type" \in DOMAIN Maker /\ Maker["type"] = "AST_TYPE_ARRAY"
    /\ "AST_TYPE_ARRAY" \in AstNodeType
BY DEF Maker, AstNodeType

LEMMA MemberFacts ==
    /\ "parameters" \in Members(Maker["function"])
    /\ "return_type" \in Members(Maker["function"])
    /\ "body" \in Members(Maker["function"]) /\ "type" \in Members(Maker["parameter"])
    /\ "type" \in Members(Maker["field"]) /\ "type" \in Members(Maker["variable"])
    /\ "initializer" \in Members(Maker["variable"])
    /\ "fields" \in Members(Maker["struct"]) /\ "members" \in Members(Maker["enum"])
    /\ "statements" \in Members(Maker["block"]) /\ "condition" \in Members(Maker["if"])
    /\ "then_stmt" \in Members(Maker["if"]) /\ "else_stmt" \in Members(Maker["if"])
    /\ "condition" \in Members(Maker["while"]) /\ "body" \in Members(Maker["while"])
    /\ "init" \in Members(Maker["for"]) /\ "condition" \in Members(Maker["for"])
    /\ "update" \in Members(Maker["for"]) /\ "body" \in Members(Maker["for"])
    /\ "value" \in Members(Maker["return"]) /\ "arguments" \in Members(Maker["call"])
    /\ "size" \in Members(Maker["type"]) /\ "element_type" \in Members(Maker["type"])
BY DEF Maker, Members, In, AstDecl, AstStmt, AstExpr, AstType

-----------------------------------------------------------------------------
(* The steps that several functions share.                                 *)

LEMMA SkipReaches ==
    ASSUME Running, NEW i \in Reach, NEW j \in 0 .. Len(tokens), skip_terminators(i, j)
    PROVE  j \in Reach
<1>1. i \in index .. EndOf /\ index \in Nat /\ EndOf \in Nat
  BY Reaching DEF Reach
<1>2. j \in i .. EndOf
  BY <1>1, Skipping
<1> QED BY <1>1, <1>2 DEF Reach

LEMMA CompletesMoves ==
    ASSUME Running, NEW fn \in DOMAIN Maker, NEW at \in Waits, NEW member \in Members(Maker[fn]),
           Completes(fn, at, member)
    PROVE  Moved
<1>1. At(fn, at) /\ GoTo(index) /\ Adopt(member) /\ Return(top.node)
  BY DEF Completes
<1>2. Treed(top.node)
  BY <1>1, WaitAdopts
<1>3. Forward
  BY <1>1, Reaching
<1>4. top.fn # "director"
  BY <1>1 DEF At, Maker
<1> QED BY <1>1, <1>2, <1>3, <1>4, ReturnMoves

LEMMA ItemsMove ==
    ASSUME Running, NEW n, Treed(n), Filled(n), top.fn # "director", NEW i \in Reach,
           NEW item \in Callees, NEW at \in Waits, Items(n, i, item, at)
    PROVE  Moved
<1>1. CASE Type(i) = "CloseCurly" /\ GoTo(i + 1) /\ Return(n)
  <2>1. Type(i) # "EOT"
    BY <1>1
  <2>2. Forward
    BY <1>1, <2>1, Reaching
  <2> QED BY <1>1, <2>2, ReturnMoves
<1>2. CASE Type(i) = "EOT" /\ GoTo(i) /\ Fail(n)
  <2>1. Forward
    BY <1>2, Reaching
  <2> QED BY <1>2, <2>1, FailMoves
<1>3. CASE /\ Type(i) \notin {"CloseCurly", "EOT"}
           /\ \E j \in 0 .. Len(tokens) : skip_terminators(i, j) /\ GoTo(j)
           /\ Call(n, item, at)
  <2>1. PICK j \in 0 .. Len(tokens) : skip_terminators(i, j) /\ GoTo(j)
    BY <1>3
  <2>2. Forward
    BY <2>1, SkipReaches, Reaching
  <2> QED BY <1>3, <2>2, CallMoves
<1> QED BY <1>1, <1>2, <1>3 DEF Items

LEMMA ClosedMoves ==
    ASSUME Running, Treed(top.node), Filled(top.node), top.fn # "director",
           NEW at \in Waits, Closed(at)
    PROVE  Moved
<1>1. CASE Type(index) = "CloseParen" /\ GoTo(index + 1) /\ Call(top.node, "statement", at)
  <2>1. Type(index) # "EOT"
    BY <1>1
  <2>2. Forward
    BY <1>1, <2>1, Reaching
  <2> QED BY <1>1, <2>2, CalleeFacts, CallMoves
<1>2. CASE GoTo(index) /\ Fail(top.node)
  <2>1. Forward
    BY <1>2, Reaching
  <2> QED BY <1>2, <2>1, FailMoves
<1> QED BY <1>1, <1>2 DEF Closed

LEMMA ElementTypeMoves ==
    ASSUME Running, NEW n, Treed(n), Filled(n), top.fn # "director", NEW i \in Reach,
           ElementType(n, i)
    PROVE  Moved
<1>1. CASE Type(i) = "CloseSQRBrackets" /\ GoTo(i + 1) /\ Call(n, "type", "element_type")
  <2>1. Type(i) # "EOT"
    BY <1>1
  <2>2. Forward
    BY <1>1, <2>1, Reaching
  <2> QED BY <1>1, <2>2, CalleeFacts, WaitFacts, CallMoves
<1>2. CASE GoTo(i) /\ Fail(n)
  <2>1. Forward
    BY <1>2, Reaching
  <2> QED BY <1>2, <2>1, FailMoves
<1> QED BY <1>1, <1>2 DEF ElementType

LEMMA SignatureMoves ==
    ASSUME Running, NEW n, Treed(n), Filled(n), top.fn # "director", NEW i \in Reach,
           Signature(n, i)
    PROVE  Moved
<1>1. CASE GoTo(i) /\ Fail(n)
  <2>1. Forward
    BY <1>1, Reaching
  <2> QED BY <1>1, <2>1, FailMoves
<1>2. CASE /\ Type(i) = "CloseParen" /\ GoTo(i + 1)
           /\ Call(n, "block", "body") \/ Call(n, "type", "return_type")
  <2>1. Type(i) # "EOT"
    BY <1>2
  <2>2. Forward
    BY <1>2, <2>1, Reaching
  <2>3. CASE Call(n, "block", "body")
    BY <2>2, <2>3, CalleeFacts, WaitFacts, CallMoves
  <2>4. CASE Call(n, "type", "return_type")
    BY <2>2, <2>4, CalleeFacts, WaitFacts, CallMoves
  <2> QED BY <1>2, <2>3, <2>4
<1> QED BY <1>1, <1>2 DEF Signature

LEMMA ParametersMove ==
    ASSUME Running, NEW n, Treed(n), Filled(n), top.fn # "director", NEW i \in Reach,
           Parameters(n, i)
    PROVE  Moved
<1>1. CASE Signature(n, i)
  BY <1>1, SignatureMoves
<1>2. CASE GoTo(i) /\ Call(n, "parameter", "parameters")
  <2>1. Forward
    BY <1>2, Reaching
  <2> QED BY <1>2, <2>1, CalleeFacts, WaitFacts, CallMoves
<1> QED BY <1>1, <1>2 DEF Parameters

LEMMA ForUpdateMoves ==
    ASSUME Running, NEW n, Treed(n), Filled(n), NEW i \in Reach, ForUpdate(n, i)
    PROVE  Moved
<1>1. CASE Type(i) = "CloseParen" /\ GoTo(i + 1) /\ Call(n, "statement", "body")
  <2>1. Type(i) # "EOT"
    BY <1>1
  <2>2. Forward
    BY <1>1, <2>1, Reaching
  <2> QED BY <1>1, <2>2, CalleeFacts, WaitFacts, CallMoves
<1>2. CASE GoTo(i) /\ Call(n, "statement", "update")
  <2>1. Forward
    BY <1>2, Reaching
  <2> QED BY <1>2, <2>1, CalleeFacts, WaitFacts, CallMoves
<1> QED BY <1>1, <1>2 DEF ForUpdate

LEMMA ForConditionMoves ==
    ASSUME Running, NEW n, Treed(n), Filled(n), NEW i \in Reach, ForCondition(n, i)
    PROVE  Moved
<1>1. CASE Type(i) = "Terminator" /\ ForUpdate(n, i + 1)
  <2>1. Type(i) # "EOT"
    BY <1>1
  <2>2. i + 1 \in Reach
    BY <2>1, Reaching
  <2> QED BY <1>1, <2>2, ForUpdateMoves
<1>2. CASE GoTo(i) /\ Call(n, Expression, "condition")
  <2>1. Forward
    BY <1>2, Reaching
  <2> QED BY <1>2, <2>1, CalleeFacts, WaitFacts, CallMoves
<1> QED BY <1>1, <1>2 DEF ForCondition

LEMMA TerminatorReaches ==
    ASSUME Running, NEW i \in Reach
    PROVE  match_terminator(i) \in Reach
<1>1. CASE Type(i) = "Terminator"
  <2>1. Type(i) # "EOT"
    BY <1>1
  <2> QED BY <1>1, <2>1, Reaching DEF match_terminator
<1>2. CASE Type(i) # "Terminator"
  BY <1>2 DEF match_terminator
<1> QED BY <1>1, <1>2

LEMMA LookAhead ==
    ASSUME Running, NEW i \in Reach, Type(i) # "EOT"
    PROVE  /\ i + 1 \in Reach
           /\ Type(i + 1) # "EOT" => i + 2 \in Reach
           /\ Type(i + 1) # "EOT" /\ Type(i + 2) # "EOT" => i + 3 \in Reach
<1>1. i \in Nat /\ i + 1 \in Reach
  BY Reaching
<1>2. Type(i + 1) # "EOT" => i + 1 + 1 \in Reach
  BY <1>1, Reaching
<1>3. i + 1 + 1 = i + 2 /\ i + 2 + 1 = i + 3
  BY <1>1
<1>4. Type(i + 1) # "EOT" => i + 2 \in Reach
  BY <1>2, <1>3
<1>5. i + 2 \in Reach /\ Type(i + 2) # "EOT" => i + 2 + 1 \in Reach
  BY Reaching
<1> QED BY <1>1, <1>3, <1>4, <1>5

LEMMA MatchReaches ==
    ASSUME Running, NEW pattern, Len(pattern) \in Nat,
           \A k \in 1 .. Len(pattern) : pattern[k] # "EOT",
           NEW n \in 0 .. Len(pattern), Matches(pattern, n)
    PROVE  index + n \in Reach
<1>1. /\ EndOf \in Nat /\ index \in Nat /\ index <= EndOf
      /\ \A i \in Nat : Type(i) = "EOT" <=> i >= EndOf
  BY EndFacts, RunningFacts DEF Running, IInv, Control
<1>2. Len(pattern) \in Nat /\ n \in Nat
  OBVIOUS
<1>3. ASSUME index + n > EndOf PROVE FALSE
  <2> DEFINE k == EndOf - index + 1
  <2>1. k \in 1 .. n /\ k \in 1 .. Len(pattern) /\ index + k - 1 = EndOf
    BY <1>1, <1>2, <1>3
  <2> HIDE DEF k
  <2>2. Type(EndOf) = pattern[k]
    BY <2>1 DEF Matches
  <2>3. pattern[k] # "EOT"
    BY <2>1
  <2> QED BY <2>2, <2>3, <1>1
<1> QED BY <1>1, <1>2, <1>3 DEF Reach

-----------------------------------------------------------------------------
(* The parse functions, one by one.                                        *)

LEMMA ImportMoves ==
    ASSUME Running, parse_import
    PROVE  Moved
<1>1. At("import", "entry") /\ Make("AST_DECL_IMPORT", index, {})
  BY DEF parse_import
<1>2. top.at = "entry" /\ top.fn = "import"
  BY <1>1 DEF At
<1>3. Treed(Fresh)
  <2>1. "AST_DECL_IMPORT" \in AstNodeType /\ "import" \notin DOMAIN Maker
    BY DEF AstNodeType, Maker
  <2> QED BY <2>1, <1>1, <1>2, EntryMakes
<1>4. PICK n \in 0 .. Len(ImportPattern) :
            Matches(ImportPattern, n) /\ GoTo(index + n) /\ (Return(Fresh) \/ Fail(Fresh))
  BY DEF parse_import
<1>5. Forward
  <2>1. /\ Len(ImportPattern) \in Nat
        /\ \A k \in 1 .. Len(ImportPattern) : ImportPattern[k] # "EOT"
    BY DEF ImportPattern
  <2> QED BY <2>1, <1>4, MatchReaches, Reaching
<1>6. top.fn # "director"
  BY <1>2
<1> QED BY <1>3, <1>4, <1>5, <1>6, ReturnMoves, FailMoves

LEMMA FunctionMoves ==
    ASSUME Running, parse_function
    PROVE  Moved
<1>1. CASE /\ At("function", "entry")
           /\ Make("AST_DECL_FUNCTION", index, {})
           /\ \E n \in 0 .. Len(FunctionHead) :
                 /\ Matches(FunctionHead, n)
                 /\ IF n = Len(FunctionHead) THEN Parameters(Fresh, index + n)
                                             ELSE GoTo(index + n) /\ Fail(Fresh)
  <2>1. top.at = "entry" /\ top.fn = "function" /\ top.fn # "director"
    BY <1>1 DEF At
  <2>2. Treed(Fresh) /\ Filled(Fresh)
    BY <1>1, <2>1, MakerFacts, EntryMakes
  <2>3. PICK n \in 0 .. Len(FunctionHead) :
              /\ Matches(FunctionHead, n)
              /\ Parameters(Fresh, index + n) \/ (GoTo(index + n) /\ Fail(Fresh))
    BY <1>1
  <2>4. index + n \in Reach
    <3>1. /\ Len(FunctionHead) \in Nat
          /\ \A k \in 1 .. Len(FunctionHead) : FunctionHead[k] # "EOT"
      BY DEF FunctionHead
    <3> QED BY <3>1, <2>3, MatchReaches
  <2>5. CASE Parameters(Fresh, index + n)
    BY <2>1, <2>2, <2>4, <2>5, ParametersMove
  <2>6. CASE GoTo(index + n) /\ Fail(Fresh)
    <3>1. Forward
      BY <2>4, <2>6, Reaching
    <3> QED BY <2>1, <2>2, <2>6, <3>1, FailMoves
  <2> QED BY <2>3, <2>5, <2>6
<1>2. CASE /\ At("function", "parameters")
           /\ Adopt("parameters")
           /\ IF Type(index) = "Comma" THEN Parameters(top.node, index + 1)
                                       ELSE Signature(top.node, index)
  <2>1. top.fn # "director"
    BY <1>2 DEF At
  <2>2. Treed(top.node) /\ Filled(top.node)
    BY <1>2, MakerFacts, WaitFacts, MemberFacts, WaitAdopts
  <2>3. CASE Type(index) = "Comma" /\ Parameters(top.node, index + 1)
    <3>1. Type(index) # "EOT"
      BY <2>3
    <3>2. index + 1 \in Reach
      BY <3>1, Reaching
    <3> QED BY <2>1, <2>2, <2>3, <3>2, ParametersMove
  <2>4. CASE Signature(top.node, index)
    BY <2>1, <2>2, <2>4, Reaching, SignatureMoves
  <2> QED BY <1>2, <2>3, <2>4
<1>3. CASE /\ At("function", "return_type")
           /\ GoTo(index)
           /\ Adopt("return_type")
           /\ Call(top.node, "block", "body")
  <2>1. Treed(top.node) /\ Filled(top.node)
    BY <1>3, MakerFacts, WaitFacts, MemberFacts, WaitAdopts
  <2>2. Forward
    BY <1>3, Reaching
  <2> QED BY <1>3, <2>1, <2>2, CalleeFacts, WaitFacts, CallMoves
<1>4. CASE Completes("function", "body", "body")
  BY <1>4, MakerFacts, WaitFacts, MemberFacts, CompletesMoves
<1> QED BY <1>1, <1>2, <1>3, <1>4 DEF parse_function

LEMMA NameMoves ==
    ASSUME Running, parse_name
    PROVE  Moved
<1>1. CASE /\ top.at = "entry" /\ top.fn \in {"parameter", "field", "member"}
           /\ GoTo(index) /\ Keep /\ Fail(Null)
  <2>1. top.node = Null /\ result = Null /\ top.fn # "director"
    BY <1>1, AtEntry
  <2>2. Treed(Null)
    BY <1>1, <2>1, Keeps
  <2>3. Forward
    BY <1>1, Reaching
  <2> QED BY <1>1, <2>1, <2>2, <2>3, FailMoves
<1>2. CASE /\ top.at = "entry" /\ top.fn \in {"parameter", "field", "member"}
           /\ Type(index) = "Identifier"
           /\ Make("AST_DECL_VARIABLE", index, {})
           /\ IF top.fn # "member" /\ Type(index + 1) = "Colon"
              THEN GoTo(index + 2) /\ Call(Fresh, "type", "type")
              ELSE GoTo(index + 1) /\ IF top.fn = "field" THEN Fail(Fresh) ELSE Return(Fresh)
  <2>1. top.fn # "director" /\ Type(index) # "EOT"
    BY <1>2
  <2>2. Treed(Fresh) /\ Filled(Fresh)
    <3>1. "AST_DECL_VARIABLE" \in AstNodeType
          /\ (top.fn \in DOMAIN Maker => Maker[top.fn] = "AST_DECL_VARIABLE")
      BY <1>2 DEF AstNodeType, Maker
    <3> QED BY <1>2, <3>1, EntryMakes
  <2>3. CASE Type(index + 1) = "Colon" /\ GoTo(index + 2) /\ Call(Fresh, "type", "type")
    <3>1. Type(index + 1) # "EOT"
      BY <2>3
    <3>2. Forward
      BY <2>1, <2>3, <3>1, Reaching, LookAhead
    <3> QED BY <2>2, <2>3, <3>2, CalleeFacts, WaitFacts, CallMoves
  <2>4. CASE GoTo(index + 1) /\ (Fail(Fresh) \/ Return(Fresh))
    <3>1. Forward
      BY <2>1, <2>4, Reaching
    <3> QED BY <2>1, <2>2, <2>4, <3>1, FailMoves, ReturnMoves
  <2> QED BY <1>2, <2>3, <2>4
<1>3. CASE Completes("parameter", "type", "type")
  BY <1>3, MakerFacts, WaitFacts, MemberFacts, CompletesMoves
<1>4. CASE Completes("field", "type", "type")
  BY <1>4, MakerFacts, WaitFacts, MemberFacts, CompletesMoves
<1> QED BY <1>1, <1>2, <1>3, <1>4 DEF parse_name

LEMMA VariableMoves ==
    ASSUME Running, parse_variable
    PROVE  Moved
<1> DEFINE i == IF Type(index) = "LetKeyword" THEN index + 1 ELSE index
<1>1. CASE /\ At("variable", "entry")
           /\ Make("AST_DECL_VARIABLE", index, {})
           /\ \/ /\ Type(i) # "Identifier"
                 /\ GoTo(i) /\ Fail(Fresh)
              \/ /\ Type(i) = "Identifier" /\ Type(i + 1) # "Colon"
                 /\ GoTo(i + 1) /\ Fail(Fresh)
              \/ /\ Type(i) = "Identifier" /\ Type(i + 1) = "Colon"
                 /\ IF Type(i + 2) = "Colon"
                    THEN GoTo(i + 3) /\ Call(Fresh, Expression, "initializer")
                    ELSE GoTo(i + 2) /\ Call(Fresh, "type", "type")
  <2>1. top.at = "entry" /\ top.fn = "variable" /\ top.fn # "director"
    BY <1>1 DEF At
  <2>2. Treed(Fresh) /\ Filled(Fresh)
    BY <1>1, <2>1, MakerFacts, EntryMakes
  <2>3. i \in Reach
    <3>1. Type(index) = "LetKeyword" => Type(index) # "EOT"
      OBVIOUS
    <3> QED BY <3>1, Reaching
  <2> HIDE DEF i
  <2>4. CASE GoTo(i) /\ Fail(Fresh)
    <3>1. Forward
      BY <2>3, <2>4, Reaching
    <3> QED BY <2>1, <2>2, <2>4, <3>1, FailMoves
  <2>5. CASE Type(i) = "Identifier" /\ GoTo(i + 1) /\ Fail(Fresh)
    <3>1. Type(i) # "EOT"
      BY <2>5
    <3>2. Forward
      BY <2>3, <2>5, <3>1, Reaching
    <3> QED BY <2>1, <2>2, <2>5, <3>2, FailMoves
  <2>6. CASE /\ Type(i) = "Identifier" /\ Type(i + 1) = "Colon" /\ Type(i + 2) = "Colon"
             /\ GoTo(i + 3) /\ Call(Fresh, Expression, "initializer")
    <3>1. Type(i) # "EOT" /\ Type(i + 1) # "EOT" /\ Type(i + 2) # "EOT"
      BY <2>6
    <3>2. Forward
      BY <2>3, <2>6, <3>1, Reaching, LookAhead
    <3> QED BY <2>2, <2>6, <3>2, CalleeFacts, WaitFacts, CallMoves
  <2>7. CASE /\ Type(i) = "Identifier" /\ Type(i + 1) = "Colon"
             /\ GoTo(i + 2) /\ Call(Fresh, "type", "type")
    <3>1. Type(i) # "EOT" /\ Type(i + 1) # "EOT"
      BY <2>7
    <3>2. Forward
      BY <2>3, <2>7, <3>1, Reaching, LookAhead
    <3> QED BY <2>2, <2>7, <3>2, CalleeFacts, WaitFacts, CallMoves
  <2> QED BY <1>1, <2>4, <2>5, <2>6, <2>7
<1>2. CASE /\ At("variable", "type")
           /\ Adopt("type")
           /\ IF Type(index) = "Equal"
              THEN GoTo(index + 1) /\ Call(top.node, Expression, "initializer")
              ELSE GoTo(index) /\ Fail(top.node)
  <2>1. top.fn # "director"
    BY <1>2 DEF At
  <2>2. Treed(top.node) /\ Filled(top.node)
    BY <1>2, MakerFacts, WaitFacts, MemberFacts, WaitAdopts
  <2>3. CASE Type(index) = "Equal" /\ GoTo(index + 1) /\ Call(top.node, Expression, "initializer")
    <3>1. Type(index) # "EOT"
      BY <2>3
    <3>2. Forward
      BY <2>3, <3>1, Reaching
    <3> QED BY <2>2, <2>3, <3>2, CalleeFacts, WaitFacts, CallMoves
  <2>4. CASE GoTo(index) /\ Fail(top.node)
    <3>1. Forward
      BY <2>4, Reaching
    <3> QED BY <2>1, <2>2, <2>4, <3>1, FailMoves
  <2> QED BY <1>2, <2>3, <2>4
<1>3. CASE Completes("variable", "initializer", "initializer")
  BY <1>3, MakerFacts, WaitFacts, MemberFacts, CompletesMoves
<1> QED BY <1>1, <1>2, <1>3 DEF parse_variable

LEMMA ListHeadMoves ==
    ASSUME Running, NEW kind \in AstNodeType, top.at = "entry", top.fn # "director",
           top.fn \in DOMAIN Maker => Maker[top.fn] = kind,
           NEW keyword, keyword # "EOT", NEW item \in Callees, NEW at \in Waits,
           ListHead(kind, keyword, item, at)
    PROVE  Moved
<1> DEFINE pattern == <<keyword, "Identifier", "OpenCurly">>
<1>1. Treed(Fresh) /\ Filled(Fresh)
  BY EntryMakes DEF ListHead
<1>2. PICK n \in 0 .. 3 :
            /\ Matches(pattern, n)
            /\ Items(Fresh, index + n, item, at) \/ (GoTo(index + n) /\ Fail(Fresh))
  BY DEF ListHead
<1>3. index + n \in Reach
  <2>1. /\ Len(pattern) = 3
        /\ \A k \in 1 .. 3 : pattern[k] # "EOT"
    OBVIOUS
  <2>2. n \in 0 .. Len(pattern) /\ Len(pattern) \in Nat
        /\ \A k \in 1 .. Len(pattern) : pattern[k] # "EOT"
    BY <2>1
  <2>3. Matches(pattern, n)
    BY <1>2
  <2> HIDE DEF pattern
  <2> QED BY <2>2, <2>3, MatchReaches
<1>4. CASE Items(Fresh, index + n, item, at)
  BY <1>1, <1>3, <1>4, ItemsMove
<1>5. CASE GoTo(index + n) /\ Fail(Fresh)
  <2>1. Forward
    BY <1>3, <1>5, Reaching
  <2> QED BY <1>1, <1>5, <2>1, FailMoves
<1> QED BY <1>2, <1>4, <1>5

LEMMA StructMoves ==
    ASSUME Running, parse_struct
    PROVE  Moved
<1>1. CASE /\ At("struct", "entry")
           /\ ListHead("AST_DECL_STRUCT", "StructKeyword", "field", "fields")
  <2>1. top.at = "entry" /\ top.fn = "struct" /\ top.fn # "director" /\ "StructKeyword" # "EOT"
    BY <1>1 DEF At
  <2> QED BY <1>1, <2>1, MakerFacts, CalleeFacts, WaitFacts, ListHeadMoves
<1>2. CASE /\ At("struct", "fields")
           /\ Adopt("fields")
           /\ \E i \in 0 .. Len(tokens) : /\ skip_terminators(index, i)
                                          /\ Items(top.node, i, "field", "fields")
  <2>1. top.fn # "director"
    BY <1>2 DEF At
  <2>2. Treed(top.node) /\ Filled(top.node)
    BY <1>2, MakerFacts, WaitFacts, MemberFacts, WaitAdopts
  <2>3. PICK i \in 0 .. Len(tokens) : /\ skip_terminators(index, i)
                                      /\ Items(top.node, i, "field", "fields")
    BY <1>2
  <2>4. i \in Reach
    BY <2>3, SkipReaches, Reaching
  <2> QED BY <2>1, <2>2, <2>3, <2>4, CalleeFacts, WaitFacts, ItemsMove
<1> QED BY <1>1, <1>2 DEF parse_struct

LEMMA EnumMoves ==
    ASSUME Running, parse_enum
    PROVE  Moved
<1>1. CASE /\ At("enum", "entry")
           /\ ListHead("AST_DECL_ENUM", "EnumKeyword", "member", "members")
  <2>1. top.at = "entry" /\ top.fn = "enum" /\ top.fn # "director" /\ "EnumKeyword" # "EOT"
    BY <1>1 DEF At
  <2> QED BY <1>1, <2>1, MakerFacts, CalleeFacts, WaitFacts, ListHeadMoves
<1>2. CASE /\ At("enum", "members")
           /\ Adopt("members")
           /\ \/ /\ Type(index) = "Comma"
                 /\ \E i \in 0 .. Len(tokens) : /\ skip_terminators(index + 1, i)
                                                /\ Items(top.node, i, "member", "members")
              \/ /\ Type(index) = "CloseCurly"
                 /\ GoTo(index + 1) /\ Return(top.node)
              \/ /\ Type(index) \notin {"Comma", "CloseCurly"}
                 /\ GoTo(index) /\ Fail(top.node)
  <2>1. top.fn # "director"
    BY <1>2 DEF At
  <2>2. Treed(top.node) /\ Filled(top.node)
    BY <1>2, MakerFacts, WaitFacts, MemberFacts, WaitAdopts
  <2>3. CASE /\ Type(index) = "Comma"
             /\ \E i \in 0 .. Len(tokens) : /\ skip_terminators(index + 1, i)
                                            /\ Items(top.node, i, "member", "members")
    <3>1. PICK i \in 0 .. Len(tokens) : /\ skip_terminators(index + 1, i)
                                        /\ Items(top.node, i, "member", "members")
      BY <2>3
    <3>2. Type(index) # "EOT"
      BY <2>3
    <3>3. i \in Reach
      BY <3>1, <3>2, SkipReaches, Reaching
    <3> QED BY <2>1, <2>2, <3>1, <3>3, CalleeFacts, WaitFacts, ItemsMove
  <2>4. CASE Type(index) = "CloseCurly" /\ GoTo(index + 1) /\ Return(top.node)
    <3>1. Type(index) # "EOT"
      BY <2>4
    <3>2. Forward
      BY <2>4, <3>1, Reaching
    <3> QED BY <2>1, <2>2, <2>4, <3>2, ReturnMoves
  <2>5. CASE GoTo(index) /\ Fail(top.node)
    <3>1. Forward
      BY <2>5, Reaching
    <3> QED BY <2>1, <2>2, <2>5, <3>1, FailMoves
  <2> QED BY <1>2, <2>3, <2>4, <2>5
<1> QED BY <1>1, <1>2 DEF parse_enum

(* The first token of a result.                                            *)
LEMMA ResultToken ==
    ASSUME Running, result # Null
    PROVE  heap[result].token \in Nat
<1>1. heap \in Seq(Node) /\ result \in 1 .. Len(heap)
  BY RunningFacts DEF HeapOK, Nodes
<1>2. heap[result] \in Node
  BY <1>1
<1> QED BY <1>2 DEF Node

LEMMA StatementMoves ==
    ASSUME Running, parse_statement
    PROVE  Moved
<1>1. CASE /\ At("statement", "entry")
           /\ UNCHANGED index /\ Keep
           /\ \/ /\ Type(index) \in DOMAIN StatementKeyword
                 /\ Become(StatementKeyword[Type(index)])
              \/ /\ Type(index) \notin DOMAIN StatementKeyword
                 /\ IF StartsVariable THEN Call(Null, "variable", "declaration")
                                      ELSE Call(Null, Expression, "expression")
  <2>1. top.at = "entry" /\ top.fn = "statement" /\ top.fn # "director" /\ index' = index
    BY <1>1 DEF At
  <2>2. top.node = Null /\ result = Null
    BY <2>1, AtEntry
  <2>3. Treed(Null) /\ Forward
    BY <1>1, <2>1, <2>2, Keeps, Reaching
  <2>4. CASE /\ Type(index) \in DOMAIN StatementKeyword
             /\ Become(StatementKeyword[Type(index)])
    <3> DEFINE fn == StatementKeyword[Type(index)]
    <3>1. /\ fn \in Functions /\ fn # "director"
          /\ fn \in DOMAIN Keyworded => Type(index) = Keyworded[fn]
      BY <2>4 DEF StatementKeyword, Functions, Keyworded
    <3>2. Become(fn)
      BY <2>4
    <3> HIDE DEF fn
    <3> QED BY <1>1, <2>1, <3>1, <3>2, Becomes
  <2>5. CASE Call(Null, "variable", "declaration")
    BY <2>3, <2>5, CalleeFacts, BareFacts, BareCallMoves
  <2>6. CASE Call(Null, Expression, "expression")
    BY <2>3, <2>6, CalleeFacts, BareFacts, BareCallMoves
  <2> QED BY <1>1, <2>4, <2>5, <2>6
<1>2. CASE /\ At("statement", "declaration")
           /\ UNCHANGED index
           /\ Make("AST_STMT_DECL", heap[result].token, {<<"declaration", result>>})
           /\ Return(Fresh)
  <2>1. /\ top.at = "declaration" /\ top.fn # "director" /\ result # Null
        /\ top.at \in Bare /\ index' = index
    BY <1>2 DEF At, Bare
  <2>2. top.node = Null /\ heap[result].token \in Nat
    BY <2>1, AtBare, ResultToken
  <2>3. "AST_STMT_DECL" \in AstNodeType /\ "declaration" \in Members("AST_STMT_DECL")
    BY DEF AstNodeType, Members, In, AstStmt
  <2>4. Treed(Fresh)
    BY <1>2, <2>1, <2>2, <2>3, MakesOverResult
  <2>5. Forward
    BY <2>1, Reaching
  <2> QED BY <1>2, <2>1, <2>4, <2>5, ReturnMoves
<1>3. CASE /\ At("statement", "expression")
           /\ UNCHANGED index
           /\ Make("AST_STMT_EXPR", heap[result].token, {<<"expression", result>>})
           /\ Return(Fresh)
  <2>1. /\ top.at = "expression" /\ top.fn # "director" /\ result # Null
        /\ top.at \in Bare /\ index' = index
    BY <1>3 DEF At, Bare
  <2>2. top.node = Null /\ heap[result].token \in Nat
    BY <2>1, AtBare, ResultToken
  <2>3. "AST_STMT_EXPR" \in AstNodeType /\ "expression" \in Members("AST_STMT_EXPR")
    BY DEF AstNodeType, Members, In, AstStmt
  <2>4. Treed(Fresh)
    BY <1>3, <2>1, <2>2, <2>3, MakesOverResult
  <2>5. Forward
    BY <2>1, Reaching
  <2> QED BY <1>3, <2>1, <2>4, <2>5, ReturnMoves
<1> QED BY <1>1, <1>2, <1>3 DEF parse_statement

LEMMA BlockMoves ==
    ASSUME Running, parse_block
    PROVE  Moved
<1>1. CASE /\ At("block", "entry") /\ Type(index) # "OpenCurly"
           /\ UNCHANGED index /\ Keep /\ Fail(Null)
  <2>1. top.at = "entry" /\ top.fn # "director" /\ index' = index
    BY <1>1 DEF At
  <2>2. Treed(Null) /\ Forward
    BY <1>1, <2>1, AtEntry, Keeps, Reaching
  <2> QED BY <1>1, <2>1, <2>2, FailMoves
<1>2. CASE /\ At("block", "entry") /\ Type(index) = "OpenCurly"
           /\ Make("AST_STMT_BLOCK", index, {})
           /\ Items(Fresh, index + 1, "statement", "statements")
  <2>1. top.at = "entry" /\ top.fn = "block" /\ top.fn # "director" /\ Type(index) # "EOT"
    BY <1>2 DEF At
  <2>2. Treed(Fresh) /\ Filled(Fresh)
    BY <1>2, <2>1, MakerFacts, EntryMakes
  <2>3. index + 1 \in Reach
    BY <2>1, Reaching
  <2> QED BY <1>2, <2>1, <2>2, <2>3, CalleeFacts, WaitFacts, ItemsMove
<1>3. CASE /\ At("block", "statements")
           /\ Adopt("statements")
           /\ \E i \in 0 .. Len(tokens) : /\ skip_terminators(index, i)
                                          /\ Items(top.node, i, "statement", "statements")
  <2>1. top.fn # "director"
    BY <1>3 DEF At
  <2>2. Treed(top.node) /\ Filled(top.node)
    BY <1>3, MakerFacts, WaitFacts, MemberFacts, WaitAdopts
  <2>3. PICK i \in 0 .. Len(tokens) : /\ skip_terminators(index, i)
                                      /\ Items(top.node, i, "statement", "statements")
    BY <1>3
  <2>4. i \in Reach
    BY <2>3, SkipReaches, Reaching
  <2> QED BY <2>1, <2>2, <2>3, <2>4, CalleeFacts, WaitFacts, ItemsMove
<1> QED BY <1>1, <1>2, <1>3 DEF parse_block

(* if, while, for and ret are reached through parse_statement only, which  *)
(* has seen the keyword.                                                   *)
LEMMA AtKeyword ==
    ASSUME Running, NEW fn \in DOMAIN Keyworded, At(fn, "entry")
    PROVE  /\ top.at = "entry" /\ top.fn = fn /\ fn # "director"
           /\ Type(index) # "EOT" /\ index + 1 \in Reach
<1>1. top.at = "entry" /\ top.fn = fn
  BY DEF At
<1>2. Type(index) = Keyworded[fn]
  BY <1>1 DEF Running, IInv, Control
<1>3. fn # "director" /\ Type(index) # "EOT"
  BY <1>2 DEF Keyworded
<1> QED BY <1>1, <1>3, Reaching

LEMMA KeywordFacts ==
    /\ "if" \in DOMAIN Keyworded /\ "while" \in DOMAIN Keyworded
    /\ "for" \in DOMAIN Keyworded /\ "return" \in DOMAIN Keyworded
BY DEF Keyworded

LEMMA IfMoves ==
    ASSUME Running, parse_if_statement
    PROVE  Moved
<1>1. CASE /\ At("if", "entry")
           /\ Make("AST_STMT_IF", index, {})
           /\ IF Type(index + 1) = "OpenParen"
              THEN GoTo(index + 2) /\ Call(Fresh, Expression, "condition_in_parens")
              ELSE GoTo(index + 1) /\ Call(Fresh, Expression, "condition")
  <2>1. top.at = "entry" /\ top.fn = "if" /\ Type(index) # "EOT" /\ index + 1 \in Reach
    BY <1>1, KeywordFacts, AtKeyword
  <2>2. Treed(Fresh) /\ Filled(Fresh)
    BY <1>1, <2>1, MakerFacts, EntryMakes
  <2>3. CASE /\ Type(index + 1) = "OpenParen"
             /\ GoTo(index + 2) /\ Call(Fresh, Expression, "condition_in_parens")
    <3>1. Type(index + 1) # "EOT"
      BY <2>3
    <3>2. Forward
      BY <2>1, <2>3, <3>1, Reaching, LookAhead
    <3> QED BY <2>2, <2>3, <3>2, CalleeFacts, WaitFacts, CallMoves
  <2>4. CASE GoTo(index + 1) /\ Call(Fresh, Expression, "condition")
    <3>1. Forward
      BY <2>1, <2>4, Reaching
    <3> QED BY <2>2, <2>4, <3>1, CalleeFacts, WaitFacts, CallMoves
  <2> QED BY <1>1, <2>3, <2>4
<1>2. CASE /\ At("if", "condition_in_parens")
           /\ Adopt("condition")
           /\ Closed("then_stmt")
  <2>1. top.fn # "director"
    BY <1>2 DEF At
  <2>2. Treed(top.node) /\ Filled(top.node)
    BY <1>2, MakerFacts, WaitFacts, MemberFacts, WaitAdopts
  <2> QED BY <1>2, <2>1, <2>2, WaitFacts, ClosedMoves
<1>3. CASE /\ At("if", "condition")
           /\ Adopt("condition")
           /\ GoTo(index) /\ Call(top.node, "statement", "then_stmt")
  <2>1. Treed(top.node) /\ Filled(top.node)
    BY <1>3, MakerFacts, WaitFacts, MemberFacts, WaitAdopts
  <2>2. Forward
    BY <1>3, Reaching
  <2> QED BY <1>3, <2>1, <2>2, CalleeFacts, WaitFacts, CallMoves
<1>4. CASE /\ At("if", "then_stmt")
           /\ Adopt("then_stmt")
           /\ IF Type(index) = "ElseKeyword"
              THEN GoTo(index + 1) /\ Call(top.node, "statement", "else_stmt")
              ELSE GoTo(index) /\ Return(top.node)
  <2>1. top.fn # "director"
    BY <1>4 DEF At
  <2>2. Treed(top.node) /\ Filled(top.node)
    BY <1>4, MakerFacts, WaitFacts, MemberFacts, WaitAdopts
  <2>3. CASE /\ Type(index) = "ElseKeyword"
             /\ GoTo(index + 1) /\ Call(top.node, "statement", "else_stmt")
    <3>1. Type(index) # "EOT"
      BY <2>3
    <3>2. Forward
      BY <2>3, <3>1, Reaching
    <3> QED BY <2>2, <2>3, <3>2, CalleeFacts, WaitFacts, CallMoves
  <2>4. CASE GoTo(index) /\ Return(top.node)
    <3>1. Forward
      BY <2>4, Reaching
    <3> QED BY <2>1, <2>2, <2>4, <3>1, ReturnMoves
  <2> QED BY <1>4, <2>3, <2>4
<1>5. CASE Completes("if", "else_stmt", "else_stmt")
  BY <1>5, MakerFacts, WaitFacts, MemberFacts, CompletesMoves
<1> QED BY <1>1, <1>2, <1>3, <1>4, <1>5 DEF parse_if_statement

LEMMA WhileMoves ==
    ASSUME Running, parse_while_statement
    PROVE  Moved
<1>1. CASE /\ At("while", "entry")
           /\ Make("AST_STMT_WHILE", index, {})
           /\ IF Type(index + 1) = "OpenParen"
              THEN GoTo(index + 2) /\ Call(Fresh, Expression, "condition")
              ELSE GoTo(index + 1) /\ Fail(Fresh)
  <2>1. /\ top.at = "entry" /\ top.fn = "while" /\ top.fn # "director"
        /\ Type(index) # "EOT" /\ index + 1 \in Reach
    BY <1>1, KeywordFacts, AtKeyword
  <2>2. Treed(Fresh) /\ Filled(Fresh)
    BY <1>1, <2>1, MakerFacts, EntryMakes
  <2>3. CASE /\ Type(index + 1) = "OpenParen"
             /\ GoTo(index + 2) /\ Call(Fresh, Expression, "condition")
    <3>1. Type(index + 1) # "EOT"
      BY <2>3
    <3>2. Forward
      BY <2>1, <2>3, <3>1, Reaching, LookAhead
    <3> QED BY <2>2, <2>3, <3>2, CalleeFacts, WaitFacts, CallMoves
  <2>4. CASE GoTo(index + 1) /\ Fail(Fresh)
    <3>1. Forward
      BY <2>1, <2>4, Reaching
    <3> QED BY <2>1, <2>2, <2>4, <3>1, FailMoves
  <2> QED BY <1>1, <2>3, <2>4
<1>2. CASE /\ At("while", "condition")
           /\ Adopt("condition")
           /\ Closed("body")
  <2>1. top.fn # "director"
    BY <1>2 DEF At
  <2>2. Treed(top.node) /\ Filled(top.node)
    BY <1>2, MakerFacts, WaitFacts, MemberFacts, WaitAdopts
  <2> QED BY <1>2, <2>1, <2>2, WaitFacts, ClosedMoves
<1>3. CASE Completes("while", "body", "body")
  BY <1>3, MakerFacts, WaitFacts, MemberFacts, CompletesMoves
<1> QED BY <1>1, <1>2, <1>3 DEF parse_while_statement

LEMMA ForClausesMove ==
    ASSUME Running, parse_for_clauses
    PROVE  Moved
<1>1. CASE /\ At("for", "entry")
           /\ Make("AST_STMT_FOR", index, {})
           /\ IF Type(index + 1) # "OpenParen"
              THEN GoTo(index + 1) /\ Fail(Fresh)
              ELSE IF Type(index + 2) = "Terminator"
                   THEN ForCondition(Fresh, index + 3)
                   ELSE GoTo(index + 2) /\ Call(Fresh, "statement", "init")
  <2>1. /\ top.at = "entry" /\ top.fn = "for" /\ top.fn # "director"
        /\ Type(index) # "EOT" /\ index + 1 \in Reach
    BY <1>1, KeywordFacts, AtKeyword
  <2>2. Treed(Fresh) /\ Filled(Fresh)
    BY <1>1, <2>1, MakerFacts, EntryMakes
  <2>3. CASE GoTo(index + 1) /\ Fail(Fresh)
    <3>1. Forward
      BY <2>1, <2>3, Reaching
    <3> QED BY <2>1, <2>2, <2>3, <3>1, FailMoves
  <2>4. CASE /\ Type(index + 1) = "OpenParen" /\ Type(index + 2) = "Terminator"
             /\ ForCondition(Fresh, index + 3)
    <3>1. Type(index + 1) # "EOT" /\ Type(index + 2) # "EOT"
      BY <2>4
    <3>2. index + 3 \in Reach
      BY <2>1, <3>1, Reaching, LookAhead
    <3> QED BY <2>2, <2>4, <3>2, ForConditionMoves
  <2>5. CASE /\ Type(index + 1) = "OpenParen"
             /\ GoTo(index + 2) /\ Call(Fresh, "statement", "init")
    <3>1. Type(index + 1) # "EOT"
      BY <2>5
    <3>2. Forward
      BY <2>1, <2>5, <3>1, Reaching, LookAhead
    <3> QED BY <2>2, <2>5, <3>2, CalleeFacts, WaitFacts, CallMoves
  <2> QED BY <1>1, <2>3, <2>4, <2>5
<1>2. CASE /\ At("for", "init")
           /\ Adopt("init")
           /\ ForCondition(top.node, match_terminator(index))
  <2>1. Treed(top.node) /\ Filled(top.node)
    BY <1>2, MakerFacts, WaitFacts, MemberFacts, WaitAdopts
  <2>2. match_terminator(index) \in Reach
    BY TerminatorReaches, Reaching
  <2> QED BY <1>2, <2>1, <2>2, ForConditionMoves
<1>3. CASE /\ At("for", "condition")
           /\ Adopt("condition")
           /\ ForUpdate(top.node, match_terminator(index))
  <2>1. Treed(top.node) /\ Filled(top.node)
    BY <1>3, MakerFacts, WaitFacts, MemberFacts, WaitAdopts
  <2>2. match_terminator(index) \in Reach
    BY TerminatorReaches, Reaching
  <2> QED BY <1>3, <2>1, <2>2, ForUpdateMoves
<1>4. CASE /\ At("for", "update")
           /\ Adopt("update")
           /\ Closed("body")
  <2>1. top.fn # "director"
    BY <1>4 DEF At
  <2>2. Treed(top.node) /\ Filled(top.node)
    BY <1>4, MakerFacts, WaitFacts, MemberFacts, WaitAdopts
  <2> QED BY <1>4, <2>1, <2>2, WaitFacts, ClosedMoves
<1> QED BY <1>1, <1>2, <1>3, <1>4 DEF parse_for_clauses

LEMMA ReturnStatementMoves ==
    ASSUME Running, parse_return_statement
    PROVE  Moved
<1>1. CASE /\ At("return", "entry")
           /\ Make("AST_STMT_RETURN", index, {})
           /\ GoTo(index + 1)
           /\ IF Type(index + 1) \in {"Terminator", "CloseCurly"}
              THEN Return(Fresh)
              ELSE Call(Fresh, Expression, "value")
  <2>1. /\ top.at = "entry" /\ top.fn = "return" /\ top.fn # "director"
        /\ Type(index) # "EOT" /\ index + 1 \in Reach
    BY <1>1, KeywordFacts, AtKeyword
  <2>2. Treed(Fresh) /\ Filled(Fresh)
    BY <1>1, <2>1, MakerFacts, EntryMakes
  <2>3. Forward
    BY <1>1, <2>1, Reaching
  <2>4. CASE Return(Fresh)
    BY <2>1, <2>2, <2>3, <2>4, ReturnMoves
  <2>5. CASE Call(Fresh, Expression, "value")
    BY <2>2, <2>3, <2>5, CalleeFacts, WaitFacts, CallMoves
  <2> QED BY <1>1, <2>4, <2>5
<1>2. CASE Completes("return", "value", "value")
  BY <1>2, MakerFacts, WaitFacts, MemberFacts, CompletesMoves
<1> QED BY <1>1, <1>2 DEF parse_return_statement

-----------------------------------------------------------------------------
(* for name in range adds two nodes at once, one below the other, and      *)
(* hangs the outer one and the range below the statement.                  *)
Wired(H, G, L, R, n, r, f) ==
    /\ n \in R /\ r \in R /\ n # r
    /\ L \subseteq Nat /\ f \in Nat /\ f \notin L /\ f + 1 \notin L
    /\ G[f].kids = {} /\ G[f + 1].kids = {<<"declaration", f>>}
    /\ G[n].kids = H[n].kids \cup {<<"init", f + 1>>, <<"condition", r>>}
    /\ \A m \in L \ {n} : G[m].kids = H[m].kids
LEMMA RangeIsWired ==
    ASSUME NEW H, NEW G, NEW L, NEW R, NEW n, NEW r, NEW f,
           Wired(H, G, L, R, n, r, f), Forest(H, L, R)
    PROVE  Forest(G, L \cup {f, f + 1}, R \ {r})
<1> DEFINE A == [m \in Nat |-> IF m = f THEN [kids |-> {}] ELSE [kids |-> H[m].kids]]
           B == [m \in Nat |-> IF m = f + 1 THEN [kids |-> {<<"declaration", f>>}] ELSE A[m]]
           C == [m \in Nat |-> IF m = n THEN [kids |-> H[n].kids \cup {<<"init", f + 1>>}]
                                        ELSE B[m]]
           M == L \cup {f}
           N == M \cup {f + 1}
<1>0. R \subseteq L /\ n \in Nat /\ n # f /\ n # f + 1 /\ f + 1 \in Nat /\ f + 1 # f
      /\ f \notin R /\ f + 1 \notin R /\ r # f + 1 /\ n \in L
      /\ n \in R /\ r \in R /\ n # r /\ L \subseteq Nat /\ f \notin L /\ f + 1 \notin L
  BY DEF Forest, Wired
<1>1. /\ A[f].kids = {} /\ B[f].kids = {} /\ B[f + 1].kids = {<<"declaration", f>>}
      /\ \A m \in L : A[m].kids = H[m].kids
      /\ \A m \in M : B[m].kids = A[m].kids
      /\ C[n].kids = B[n].kids \cup {<<"init", f + 1>>}
      /\ \A m \in N \ {n} : C[m].kids = B[m].kids
      /\ C[n].kids = H[n].kids \cup {<<"init", f + 1>>}
  BY <1>0 DEF Wired
<1>2. /\ G[n].kids = C[n].kids \cup {<<"condition", r>>}
      /\ \A m \in N \ {n} : G[m].kids = C[m].kids
  <2>1. G[n].kids = H[n].kids \cup {<<"init", f + 1>>, <<"condition", r>>}
    BY DEF Wired
  <2>2. G[n].kids = C[n].kids \cup {<<"condition", r>>}
    BY <2>1, <1>1
  <2>3. ASSUME NEW m \in N \ {n} PROVE G[m].kids = C[m].kids
    <3>1. CASE m = f
      BY <3>1, <1>0, <1>1 DEF Wired
    <3>2. CASE m = f + 1
      BY <3>2, <1>0, <1>1 DEF Wired
    <3>3. CASE m \in L
      BY <3>3, <1>0, <1>1 DEF Wired
    <3> QED BY <3>1, <3>2, <3>3
  <2> QED BY <2>2, <2>3
<1> HIDE DEF A, B, C
<1>3. Forest(A, M, R \cup {f})
  <2>1. Forest(A, L \cup {f}, (R \ {k[2] : k \in A[f].kids}) \cup {f})
    <3>1. /\ \A k \in A[f].kids : k[2] \in R
          /\ \A k, h \in A[f].kids : k[2] = h[2] => k = h
      BY <1>1
    <3>2. f \notin L /\ Forest(H, L, R) /\ \A m \in L : A[m].kids = H[m].kids
      BY <1>0, <1>1
    <3> QED BY ONLY <3>1, <3>2, NodeIsAdded, Zenon
  <2>2. (R \ {k[2] : k \in A[f].kids}) \cup {f} = R \cup {f}
    BY <1>1
  <2> QED BY <2>1, <2>2
<1>4. Forest(B, N, R \cup {f + 1})
  <2>1. /\ f + 1 \notin M
        /\ \A k \in B[f + 1].kids : k[2] \in R \cup {f}
        /\ \A k, h \in B[f + 1].kids : k[2] = h[2] => k = h
    BY <1>0, <1>1
  <2>2. Forest(B, M \cup {f + 1}, ((R \cup {f}) \ {k[2] : k \in B[f + 1].kids}) \cup {f + 1})
    BY <1>1, <1>3, <2>1, NodeIsAdded
  <2>3. {k[2] : k \in B[f + 1].kids} = {f}
    BY <1>1
  <2>4. ((R \cup {f}) \ {k[2] : k \in B[f + 1].kids}) \cup {f + 1} = R \cup {f + 1}
    BY <2>3, <1>0
  <2> QED BY <2>2, <2>4
<1> HIDE DEF M, N
<1>5. Forest(C, N, R)
  <2>1. n \in R \cup {f + 1} /\ f + 1 \in R \cup {f + 1} /\ n # f + 1
    BY <1>0
  <2>2. Forest(C, N, (R \cup {f + 1}) \ {f + 1})
    <3>1. /\ C[n].kids = B[n].kids \cup {<<"init", f + 1>>}
          /\ \A m \in N \ {n} : C[m].kids = B[m].kids
      BY <1>1
    <3>2. Hung(B, C, N, R \cup {f + 1}, n, "init", f + 1)
      BY ONLY <3>1, <1>4, <2>1 DEF Hung
    <3> QED BY ONLY <3>2, HungKeepsForest, Zenon
  <2>3. (R \cup {f + 1}) \ {f + 1} = R
    BY <1>0
  <2> QED BY <2>2, <2>3
<1>6. Forest(G, N, R \ {r})
  <2>1. n \in R /\ r \in R /\ n # r
    BY <1>0
  <2> QED BY ONLY <2>1, <1>2, <1>5, NodeIsHung, Zenon
<1>7. N = L \cup {f, f + 1}
  BY DEF M, N
<1> QED BY <1>6, <1>7

TwoLonger(S, A, B, C) == /\ C \in Seq(S) /\ Len(C) = Len(A) + 2
                         /\ \A i \in 1 .. Len(A) : C[i] = A[i]
                         /\ C[Len(A) + 1] = B[1] /\ C[Len(A) + 2] = B[2]
LEMMA TwoMore ==
    ASSUME NEW S, NEW A, NEW B, A \in Seq(S), B \in Seq(S), Len(B) = 2, NEW C, C = A \o B
    PROVE  TwoLonger(S, A, B, C)
<1>1. /\ C \in Seq(S) /\ Len(C) = Len(A) + Len(B)
      /\ \A i \in 1 .. Len(A) + Len(B) : C[i] = IF i <= Len(A) THEN A[i] ELSE B[i - Len(A)]
  BY ConcatProperties
<1>2. Len(A) \in Nat
  OBVIOUS
<1>3. /\ \A i \in 1 .. Len(A) : C[i] = A[i]
      /\ C[Len(A) + 1] = B[Len(A) + 1 - Len(A)] /\ C[Len(A) + 2] = B[Len(A) + 2 - Len(A)]
  BY <1>1, <1>2
<1>4. Len(A) + 1 - Len(A) = 1 /\ Len(A) + 2 - Len(A) = 2
  BY <1>2
<1> QED BY <1>1, <1>3, <1>4 DEF TwoLonger

MakesRange(name) ==
    /\ heap' = [heap EXCEPT ![top.node].kids =
                    @ \cup {<<"init", Fresh + 1>>, <<"condition", result>>}]
               \o <<[kind |-> "AST_DECL_VARIABLE", token |-> name, kids |-> {}],
                    [kind |-> "AST_STMT_DECL", token |-> name,
                     kids |-> {<<"declaration", Fresh>>}]>>
    /\ live' = live \cup {Fresh, Fresh + 1}
LEMMA RangeMakes ==
    ASSUME Running, At("for", "range"), NEW name, name = heap[top.node].token + 1,
           MakesRange(name)
    PROVE  Treed(top.node) /\ Filled(top.node)
<1> DEFINE n == top.node
           R == Roots(stack, result, ast, {})
           more == {<<"init", Fresh + 1>>, <<"condition", result>>}
           new == [heap[n] EXCEPT !.kids = @ \cup more]
           wired == [heap EXCEPT ![n] = new]
           var_decl == [kind |-> "AST_DECL_VARIABLE", token |-> name, kids |-> {}]
           init_stmt == [kind |-> "AST_STMT_DECL", token |-> name,
                         kids |-> {<<"declaration", Fresh>>}]
           P == <<var_decl, init_stmt>>
<1>1. /\ top.fn = "for" /\ result # Null /\ n # Null /\ heap[n].kind = "AST_STMT_FOR"
      /\ Maker["for"] = "AST_STMT_FOR"
  <2>1. top.fn = "for" /\ top.at = "range" /\ result # Null
    BY DEF At
  <2>2. top.at \in Waits
    BY <2>1, WaitFacts
  <2> QED BY <2>1, <2>2, AtWait, MakerFacts
<1>2. /\ heap \in Seq(Node) /\ Len(heap) \in Nat /\ n \in 1 .. Len(heap) /\ n \in Nat
      /\ result \in 1 .. Len(heap) /\ result \in Nat
      /\ n \in R /\ result \in R /\ n # result /\ R \subseteq live /\ Null \notin R
      /\ live \subseteq Nodes /\ Forest(heap, live, R)
      /\ Fresh = Len(heap) + 1 /\ Fresh \in Nat /\ Nodes = 1 .. Len(heap)
  BY <1>1, RunningFacts DEF HeapOK, Nodes, Fresh, Roots, Null
<1>3. heap[n] \in Node
  BY <1>2
<1>4. /\ "init" \in Members("AST_STMT_FOR") /\ "condition" \in Members("AST_STMT_FOR")
      /\ "declaration" \in Members("AST_STMT_DECL")
      /\ "AST_STMT_FOR" \in AstNodeType /\ "AST_STMT_DECL" \in AstNodeType
      /\ "AST_DECL_VARIABLE" \in AstNodeType
  BY DEF Members, In, AstStmt, AstNodeType
<1>5. "init" \in Pointers /\ "condition" \in Pointers /\ "declaration" \in Pointers
  BY <1>4 DEF Pointers
<1>6. new \in Node /\ new.kind = heap[n].kind /\ new.kids = heap[n].kids \cup more
  <2>1. more \in SUBSET (Pointers \X Nat)
    BY <1>2, <1>5
  <2> HIDE DEF more
  <2>2. heap[n].kids \cup more \in SUBSET (Pointers \X Nat)
    BY <2>1, <1>3 DEF Node
  <2> QED BY <2>2, <1>3 DEF Node
<1>7. /\ var_decl \in Node /\ var_decl.kind = "AST_DECL_VARIABLE" /\ var_decl.kids = {}
      /\ init_stmt \in Node /\ init_stmt.kind = "AST_STMT_DECL"
      /\ init_stmt.kids = {<<"declaration", Fresh>>}
  <2>1. name \in Nat
    BY <1>3 DEF Node
  <2>2. {} \in SUBSET (Pointers \X Nat) /\ {<<"declaration", Fresh>>} \in SUBSET (Pointers \X Nat)
    BY <1>2, <1>5
  <2> QED BY <2>1, <2>2, <1>4 DEF Node
<1>8. heap' = wired \o P /\ live' = live \cup {Fresh, Fresh + 1}
  BY DEF MakesRange
<1> HIDE DEF new, var_decl, init_stmt, more
<1>9. /\ wired \in Seq(Node) /\ Len(wired) = Len(heap)
      /\ \A m \in 1 .. Len(heap) : wired[m] = IF m = n THEN new ELSE heap[m]
  BY <1>2, <1>6, ExceptSeq
<1> HIDE DEF wired
<1>10. /\ heap' \in Seq(Node) /\ Len(heap') = Len(heap) + 2
       /\ \A m \in 1 .. Len(heap) : heap'[m] = IF m = n THEN new ELSE heap[m]
       /\ heap'[Fresh] = var_decl /\ heap'[Fresh + 1] = init_stmt
  <2>1. P \in Seq(Node) /\ Len(P) = 2 /\ P[1] = var_decl /\ P[2] = init_stmt
    BY <1>7
  <2> HIDE DEF P
  <2>2. /\ heap' \in Seq(Node) /\ Len(heap') = Len(wired) + 2
        /\ \A i \in 1 .. Len(wired) : heap'[i] = wired[i]
        /\ heap'[Len(wired) + 1] = P[1] /\ heap'[Len(wired) + 2] = P[2]
    <3>1. wired \in Seq(Node) /\ P \in Seq(Node) /\ Len(P) = 2 /\ heap' = wired \o P
      BY <2>1, <1>8, <1>9
    <3>2. TwoLonger(Node, wired, P, heap')
      BY <3>1, TwoMore, Zenon
    <3> QED BY <3>2 DEF TwoLonger
  <2>3. Fresh = Len(wired) + 1 /\ Fresh + 1 = Len(wired) + 2
    BY <1>2, <1>9
  <2> QED BY <2>1, <2>2, <2>3, <1>9
<1>11. Nodes' = Nodes \cup {Fresh, Fresh + 1}
  <2>1. Nodes' = 1 .. Len(heap) + 2
    BY <1>10 DEF Nodes
  <2>2. 1 .. Len(heap) + 2 = 1 .. Len(heap) \cup {Len(heap) + 1, Len(heap) + 2}
    BY <1>2
  <2> QED BY <2>1, <2>2, <1>2
<1>12. HeapOK'
  <2>1. ASSUME NEW m \in Nodes' PROVE heap'[m].kids \subseteq Members(heap'[m].kind) \X Nodes'
    <3>1. CASE m \in Nodes /\ m # n
      <4>1. heap'[m] = heap[m]
        BY <3>1, <1>2, <1>10
      <4>2. heap[m].kids \subseteq Members(heap[m].kind) \X Nodes
        BY <3>1, RunningFacts DEF HeapOK
      <4> QED BY <4>1, <4>2, <1>11
    <3>2. CASE m = n
      <4>1. heap'[m] = new /\ heap[n].kids \subseteq Members(heap[n].kind) \X Nodes
        BY <3>2, <1>2, <1>10, RunningFacts DEF HeapOK
      <4>2. more \subseteq Members("AST_STMT_FOR") \X Nodes'
        BY <1>2, <1>4, <1>11 DEF more
      <4> QED BY <4>1, <4>2, <1>1, <1>6, <1>11
    <3>3. CASE m = Fresh
      BY <3>3, <1>7, <1>10
    <3>4. CASE m = Fresh + 1
      BY <3>4, <1>4, <1>7, <1>10, <1>11
    <3> QED BY <3>1, <3>2, <3>3, <3>4, <1>11
  <2> QED BY <2>1, <1>10 DEF HeapOK
<1>13. Kinds /\ live' \subseteq Nodes' /\ n \in Nodes' \cup {Null}
  <2>1. \A m \in Nodes : heap'[m].kind = heap[m].kind
    BY <1>2, <1>6, <1>10
  <2>2. Len(heap') \in Nat /\ Len(heap) <= Len(heap')
    BY <1>2, <1>10
  <2>3. live' \subseteq Nodes' /\ n \in Nodes'
    BY <1>2, <1>8, <1>11
  <2> QED BY <2>1, <2>2, <2>3 DEF Kinds
<1>14. Forest(heap', live \cup {Fresh, Fresh + 1}, R \ {result})
  <2>1. /\ live \subseteq Nat /\ Fresh \notin live /\ Fresh + 1 \notin live
        /\ \A m \in live : m \in 1 .. Len(heap)
    BY <1>2
  <2>2. /\ heap'[Fresh].kids = {} /\ heap'[Fresh + 1].kids = {<<"declaration", Fresh>>}
        /\ heap'[n].kids = heap[n].kids \cup {<<"init", Fresh + 1>>, <<"condition", result>>}
        /\ \A m \in live \ {n} : heap'[m].kids = heap[m].kids
    BY <2>1, <1>2, <1>6, <1>7, <1>10 DEF more
  <2>3. Wired(heap, heap', live, R, n, result, Fresh)
    BY <2>1, <2>2, <1>2 DEF Wired
  <2> HIDE DEF n, R
  <2> QED BY <2>3, <1>2, RangeIsWired
<1>15. Handed(n) = R \ {result}
  BY <1>2 DEF Handed
<1>16. heap'[n].kind = Maker["for"]
  BY <1>1, <1>2, <1>6, <1>10
<1> QED BY <1>1, <1>8, <1>12, <1>13, <1>14, <1>15, <1>16 DEF Treed, Filled

LEMMA ForRangeMoves ==
    ASSUME Running, parse_for_range
    PROVE  Moved
<1>1. CASE /\ At("for", "entry") /\ Type(index + 1) = "Identifier"
           /\ Make("AST_STMT_FOR", index, {})
           /\ IF Type(index + 2) = "InKeyword"
              THEN GoTo(index + 3) /\ Call(Fresh, Expression, "range")
              ELSE GoTo(index + 2) /\ Fail(Fresh)
  <2>1. /\ top.at = "entry" /\ top.fn = "for" /\ top.fn # "director"
        /\ Type(index) # "EOT" /\ Type(index + 1) # "EOT"
    BY <1>1, KeywordFacts, AtKeyword
  <2>2. Treed(Fresh) /\ Filled(Fresh)
    BY <1>1, <2>1, MakerFacts, EntryMakes
  <2>3. CASE /\ Type(index + 2) = "InKeyword"
             /\ GoTo(index + 3) /\ Call(Fresh, Expression, "range")
    <3>1. Type(index + 2) # "EOT"
      BY <2>3
    <3>2. Forward
      BY <2>1, <2>3, <3>1, Reaching, LookAhead
    <3> QED BY <2>2, <2>3, <3>2, CalleeFacts, WaitFacts, CallMoves
  <2>4. CASE GoTo(index + 2) /\ Fail(Fresh)
    <3>1. Forward
      BY <2>1, <2>4, Reaching, LookAhead
    <3> QED BY <2>1, <2>2, <2>4, <3>1, FailMoves
  <2> QED BY <1>1, <2>3, <2>4
<1>2. CASE /\ At("for", "range")
           /\ LET name      == heap[top.node].token + 1
                  var_decl  == [kind |-> "AST_DECL_VARIABLE", token |-> name, kids |-> {}]
                  init_stmt == [kind |-> "AST_STMT_DECL", token |-> name,
                                kids |-> {<<"declaration", Fresh>>}]
                  wired     == [heap EXCEPT ![top.node].kids =
                                   @ \cup {<<"init", Fresh + 1>>, <<"condition", result>>}]
              IN heap' = wired \o <<var_decl, init_stmt>>
           /\ live' = live \cup {Fresh, Fresh + 1}
           /\ GoTo(index) /\ Call(top.node, "statement", "body")
  <2>1. MakesRange(heap[top.node].token + 1)
    BY <1>2 DEF MakesRange
  <2>2. Treed(top.node) /\ Filled(top.node)
    BY <1>2, <2>1, RangeMakes
  <2>3. Forward
    BY <1>2, Reaching
  <2> QED BY <1>2, <2>2, <2>3, CalleeFacts, WaitFacts, CallMoves
<1>3. CASE Completes("for", "body", "body")
  BY <1>3, MakerFacts, WaitFacts, MemberFacts, CompletesMoves
<1> QED BY <1>1, <1>2, <1>3 DEF parse_for_range

LEMMA AssignmentMoves ==
    ASSUME Running, parse_assignment
    PROVE  Moved
<1>1. CASE /\ At("assignment", "entry")
           /\ UNCHANGED index /\ Keep
           /\ Call(Null, "logical_or", "target")
  <2>1. top.at = "entry" /\ index' = index
    BY <1>1 DEF At
  <2>2. Treed(Null) /\ Forward
    BY <1>1, <2>1, AtEntry, Keeps, Reaching
  <2> QED BY <1>1, <2>2, CalleeFacts, BareFacts, BareCallMoves
<1>2. CASE /\ At("assignment", "target")
           /\ GoTo(index + AssignLength) /\ Keep
           /\ IF AssignLength = 0 THEN Return(result) ELSE Call(result, "assignment", "value")
  <2>1. /\ top.at \in Bare /\ top.fn = "assignment" /\ top.fn # "director" /\ result # Null
    BY <1>2 DEF At, Bare
  <2>2. Treed(result) /\ Filled(result)
    <3>1. top.fn \notin DOMAIN Maker
      BY <2>1 DEF Maker
    <3> QED BY <1>2, <2>1, <3>1, AtBare, Keeps DEF Filled
  <2>3. Forward
    <3>1. CASE AssignLength = 0
      <4>1. index + AssignLength = index
        BY <3>1, Reaching
      <4> QED BY <1>2, <4>1, Reaching
    <3>2. CASE AssignLength = 1 /\ Type(index) # "EOT"
      BY <1>2, <3>2, Reaching
    <3>3. CASE AssignLength = 2 /\ Type(index) # "EOT" /\ Type(index + 1) # "EOT"
      BY <1>2, <3>3, Reaching, LookAhead
    <3> QED BY <3>1, <3>2, <3>3 DEF AssignLength
  <2> QED BY <1>2, <2>1, <2>2, <2>3, CalleeFacts, WaitFacts, ReturnMoves, CallMoves
<1>3. CASE /\ At("assignment", "value")
           /\ UNCHANGED index
           /\ Make("AST_EXPR_ASSIGN", top.op, {<<"target", top.node>>, <<"value", result>>})
           /\ Return(Fresh)
  <2>1. top.at = "value" /\ top.fn # "director" /\ result # Null /\ index' = index
    BY <1>3 DEF At
  <2>2. top.node # Null /\ top.op \in Nat
    BY <2>1, WaitFacts, AtWait, RunningFacts DEF Frame
  <2>3. /\ "AST_EXPR_ASSIGN" \in AstNodeType
        /\ "target" \in Members("AST_EXPR_ASSIGN") /\ "value" \in Members("AST_EXPR_ASSIGN")
    BY DEF AstNodeType, Members, In, AstExpr
  <2>4. Treed(Fresh)
    BY <1>3, <2>1, <2>2, <2>3, MakesOverBoth
  <2>5. Forward
    BY <2>1, Reaching
  <2> QED BY <1>3, <2>1, <2>4, <2>5, ReturnMoves
<1> QED BY <1>1, <1>2, <1>3 DEF parse_assignment

LEMMA BinaryMoves ==
    ASSUME Running, NEW level \in DOMAIN Tighter, parse_binary(level)
    PROVE  Moved
<1>0. /\ Tighter[level] \in Callees /\ level # "director" /\ level \notin DOMAIN Maker
      /\ \A i \in Nat : Type(i) \in Operators[level] => Type(i) # "EOT"
  <2>1. level \in DOMAIN Operators /\ \A type \in Operators[level] : type # "EOT"
    BY DEF Tighter, Operators
  <2>2. Tighter[level] \in Callees /\ level # "director" /\ level \notin DOMAIN Maker
    BY CalleeFacts DEF Tighter, Maker
  <2> QED BY <2>1, <2>2
<1>1. CASE /\ At(level, "entry")
           /\ UNCHANGED index /\ Keep
           /\ Call(Null, Tighter[level], "operand")
  <2>1. top.at = "entry" /\ index' = index
    BY <1>1 DEF At
  <2>2. Treed(Null) /\ Forward
    BY <1>1, <2>1, AtEntry, Keeps, Reaching
  <2> QED BY <1>0, <1>1, <2>2, BareFacts, BareCallMoves
<1>2. CASE /\ At(level, "operand")
           /\ Keep
           /\ IF Type(index) \in Operators[level]
              THEN GoTo(index + 1) /\ Call(result, Tighter[level], "right")
              ELSE GoTo(index) /\ Return(result)
  <2>1. top.at \in Bare /\ top.fn = level /\ top.fn # "director" /\ result # Null
    BY <1>0, <1>2 DEF At, Bare
  <2>2. Treed(result) /\ Filled(result)
    BY <1>0, <1>2, <2>1, AtBare, Keeps DEF Filled
  <2>3. CASE /\ Type(index) \in Operators[level]
             /\ GoTo(index + 1) /\ Call(result, Tighter[level], "right")
    <3>1. Forward
      BY <1>0, <2>3, Reaching
    <3> QED BY <1>0, <2>2, <2>3, <3>1, WaitFacts, CallMoves
  <2>4. CASE GoTo(index) /\ Return(result)
    <3>1. Forward
      BY <2>4, Reaching
    <3> QED BY <2>1, <2>2, <2>4, <3>1, ReturnMoves
  <2> QED BY <1>2, <2>3, <2>4
<1>3. CASE /\ At(level, "right")
           /\ UNCHANGED index
           /\ Make("AST_EXPR_BINARY", top.op, {<<"left", top.node>>, <<"right", result>>})
           /\ Again(Fresh, "operand")
  <2>1. top.at = "right" /\ top.fn # "director" /\ result # Null /\ index' = index
    BY <1>0, <1>3 DEF At
  <2>2. top.node # Null /\ top.op \in Nat
    BY <2>1, WaitFacts, AtWait, RunningFacts DEF Frame
  <2>3. /\ "AST_EXPR_BINARY" \in AstNodeType
        /\ "left" \in Members("AST_EXPR_BINARY") /\ "right" \in Members("AST_EXPR_BINARY")
    BY DEF AstNodeType, Members, In, AstExpr
  <2>4. Treed(Fresh)
    BY <1>3, <2>1, <2>2, <2>3, MakesOverBoth
  <2>5. Forward
    BY <2>1, Reaching
  <2> QED BY <1>3, <2>1, <2>4, <2>5, AgainMoves
<1> QED BY <1>1, <1>2, <1>3 DEF parse_binary

LEMMA UnaryMoves ==
    ASSUME Running, parse_unary
    PROVE  Moved
<1>1. CASE /\ At("unary", "entry")
           /\ Keep
           /\ IF Type(index) \in {"Not", "MinusOperator"}
              THEN GoTo(index + 1) /\ Call(Null, "unary", "operand")
              ELSE GoTo(index) /\ Become("call")
  <2>1. top.at = "entry" /\ top.fn = "unary" /\ top.fn # "director"
    BY <1>1 DEF At
  <2>2. Treed(Null)
    BY <1>1, <2>1, AtEntry, Keeps
  <2>3. CASE /\ Type(index) \in {"Not", "MinusOperator"}
             /\ GoTo(index + 1) /\ Call(Null, "unary", "operand")
    <3>1. Type(index) # "EOT"
      BY <2>3
    <3>2. Forward
      BY <2>3, <3>1, Reaching
    <3> QED BY <2>2, <2>3, <3>2, CalleeFacts, BareFacts, BareCallMoves
  <2>4. CASE GoTo(index) /\ Become("call")
    <3>1. index' = index
      <4>1. index <= Len(tokens)
        BY DEF Running, IInv, TypeOK
      <4> QED BY <2>4, <4>1 DEF GoTo
    <3>2. "call" \in Functions /\ "call" # "director" /\ "call" \notin DOMAIN Keyworded
      BY DEF Functions, Keyworded
    <3> QED BY <1>1, <2>1, <2>4, <3>1, <3>2, Becomes
  <2> QED BY <1>1, <2>3, <2>4
<1>2. CASE /\ At("unary", "operand")
           /\ UNCHANGED index
           /\ Make("AST_EXPR_UNARY", top.op, {<<"operand", result>>})
           /\ Return(Fresh)
  <2>1. top.at \in Bare /\ top.fn # "director" /\ result # Null /\ index' = index
    BY <1>2 DEF At, Bare
  <2>2. top.node = Null /\ top.op \in Nat
    BY <2>1, AtBare, RunningFacts DEF Frame
  <2>3. "AST_EXPR_UNARY" \in AstNodeType /\ "operand" \in Members("AST_EXPR_UNARY")
    BY DEF AstNodeType, Members, In, AstExpr
  <2>4. Treed(Fresh)
    BY <1>2, <2>1, <2>2, <2>3, MakesOverResult
  <2>5. Forward
    BY <2>1, Reaching
  <2> QED BY <1>2, <2>1, <2>4, <2>5, ReturnMoves
<1> QED BY <1>1, <1>2 DEF parse_unary

LEMMA CallParserMoves ==
    ASSUME Running, parse_call
    PROVE  Moved
<1>1. CASE /\ At("call", "entry")
           /\ UNCHANGED index /\ Keep
           /\ Call(Null, "primary", "postfix")
  <2>1. top.at = "entry" /\ index' = index
    BY <1>1 DEF At
  <2>2. Treed(Null) /\ Forward
    BY <1>1, <2>1, AtEntry, Keeps, Reaching
  <2> QED BY <1>1, <2>2, CalleeFacts, BareFacts, BareCallMoves
<1>2. CASE /\ At("call", "postfix") /\ Type(index) = "OpenParen"
           /\ Make("AST_EXPR_CALL", heap[result].token, {<<"callee", result>>})
           /\ IF Type(index + 1) = "CloseParen"
              THEN GoTo(index + 2) /\ Again(Fresh, "postfix")
              ELSE GoTo(index + 1) /\ Call(Fresh, Expression, "arguments")
  <2>1. /\ top.at \in Bare /\ top.fn = "call" /\ top.fn # "director" /\ result # Null
        /\ Type(index) # "EOT"
    BY <1>2 DEF At, Bare
  <2>2. "AST_EXPR_CALL" \in AstNodeType /\ "callee" \in Members("AST_EXPR_CALL")
    BY DEF AstNodeType, Members, In, AstExpr
  <2>3. top.node = Null /\ heap[result].token \in Nat
    BY <2>1, AtBare, ResultToken
  <2>4. Treed(Fresh) /\ heap'[Fresh].kind = "AST_EXPR_CALL"
    BY <1>2, <2>1, <2>2, <2>3, MakesOverResult
  <2>5. Filled(Fresh)
    BY <2>1, <2>4, MakerFacts, RunningFacts DEF Filled
  <2>6. CASE Type(index + 1) = "CloseParen" /\ GoTo(index + 2) /\ Again(Fresh, "postfix")
    <3>1. Type(index + 1) # "EOT"
      BY <2>6
    <3>2. Forward
      BY <2>1, <2>6, <3>1, Reaching, LookAhead
    <3> QED BY <2>1, <2>4, <2>6, <3>2, AgainMoves
  <2>7. CASE GoTo(index + 1) /\ Call(Fresh, Expression, "arguments")
    <3>1. Forward
      BY <2>1, <2>7, Reaching
    <3> QED BY <2>4, <2>5, <2>7, <3>1, CalleeFacts, WaitFacts, CallMoves
  <2> QED BY <1>2, <2>6, <2>7
<1>3. CASE /\ At("call", "postfix") /\ Type(index) = "Dot" /\ Type(index + 1) = "Identifier"
           /\ Make("AST_EXPR_MEMBER", index + 1, {<<"object", result>>})
           /\ GoTo(index + 2) /\ Again(Fresh, "postfix")
  <2>1. /\ top.at \in Bare /\ top.fn # "director" /\ result # Null
        /\ Type(index) # "EOT" /\ Type(index + 1) # "EOT"
    BY <1>3 DEF At, Bare
  <2>2. "AST_EXPR_MEMBER" \in AstNodeType /\ "object" \in Members("AST_EXPR_MEMBER")
    BY DEF AstNodeType, Members, In, AstExpr
  <2>3. top.node = Null /\ index + 1 \in Nat
    BY <2>1, AtBare, RunningFacts
  <2>4. Treed(Fresh)
    BY <1>3, <2>1, <2>2, <2>3, MakesOverResult
  <2>5. Forward
    BY <1>3, <2>1, Reaching, LookAhead
  <2> QED BY <1>3, <2>1, <2>4, <2>5, AgainMoves
<1>4. CASE /\ At("call", "postfix") /\ Type(index) = "Dot" /\ Type(index + 1) # "Identifier"
           /\ GoTo(index + 1) /\ Keep /\ Fail(result)
  <2>1. top.at \in Bare /\ top.fn # "director" /\ Type(index) # "EOT"
    BY <1>4 DEF At, Bare
  <2>2. Treed(result) /\ Forward
    BY <1>4, <2>1, AtBare, Keeps, Reaching
  <2> QED BY <1>4, <2>1, <2>2, FailMoves
<1>5. CASE /\ At("call", "postfix") /\ Type(index) \notin {"OpenParen", "Dot"}
           /\ UNCHANGED index /\ Keep /\ Return(result)
  <2>1. top.at \in Bare /\ top.fn # "director" /\ index' = index
    BY <1>5 DEF At, Bare
  <2>2. Treed(result) /\ Forward
    BY <1>5, <2>1, AtBare, Keeps, Reaching
  <2> QED BY <1>5, <2>1, <2>2, ReturnMoves
<1>6. CASE /\ At("call", "arguments")
           /\ Adopt("arguments")
           /\ CASE Type(index) = "Comma"      -> /\ GoTo(index + 1)
                                                 /\ Call(top.node, Expression, "arguments")
                [] Type(index) = "CloseParen" -> GoTo(index + 1) /\ Again(top.node, "postfix")
                [] OTHER                      -> GoTo(index) /\ Fail(top.node)
  <2>1. top.fn # "director"
    BY <1>6 DEF At
  <2>2. Treed(top.node) /\ Filled(top.node)
    BY <1>6, MakerFacts, WaitFacts, MemberFacts, WaitAdopts
  <2>3. CASE /\ Type(index) = "Comma" /\ GoTo(index + 1)
             /\ Call(top.node, Expression, "arguments")
    <3>1. Type(index) # "EOT"
      BY <2>3
    <3>2. Forward
      BY <2>3, <3>1, Reaching
    <3> QED BY <2>2, <2>3, <3>2, CalleeFacts, WaitFacts, CallMoves
  <2>4. CASE Type(index) = "CloseParen" /\ GoTo(index + 1) /\ Again(top.node, "postfix")
    <3>1. Type(index) # "EOT"
      BY <2>4
    <3>2. Forward
      BY <2>4, <3>1, Reaching
    <3> QED BY <2>1, <2>2, <2>4, <3>2, AgainMoves
  <2>5. CASE GoTo(index) /\ Fail(top.node)
    <3>1. Forward
      BY <2>5, Reaching
    <3> QED BY <2>1, <2>2, <2>5, <3>1, FailMoves
  <2> QED BY <1>6, <2>3, <2>4, <2>5
<1> QED BY <1>1, <1>2, <1>3, <1>4, <1>5, <1>6 DEF parse_call

LEMMA PrimaryMoves ==
    ASSUME Running, parse_primary
    PROVE  Moved
<1>1. CASE /\ At("primary", "entry") /\ Type(index) \in Literals \cup {"Identifier"}
           /\ Make(IF Type(index) = "Identifier" THEN "AST_EXPR_IDENTIFIER"
                                                 ELSE "AST_EXPR_LITERAL", index, {})
           /\ GoTo(index + 1) /\ Return(Fresh)
  <2>1. top.at = "entry" /\ top.fn = "primary" /\ top.fn # "director" /\ Type(index) # "EOT"
    BY <1>1 DEF At, Literals
  <2>2. /\ "AST_EXPR_IDENTIFIER" \in AstNodeType /\ "AST_EXPR_LITERAL" \in AstNodeType
        /\ top.fn \notin DOMAIN Maker
    BY <2>1 DEF AstNodeType, Maker
  <2>3. Treed(Fresh)
    BY <1>1, <2>1, <2>2, EntryMakes
  <2>4. Forward
    BY <1>1, <2>1, Reaching
  <2> QED BY <1>1, <2>1, <2>3, <2>4, ReturnMoves
<1>2. CASE /\ At("primary", "entry") /\ Type(index) = "OpenParen"
           /\ Keep
           /\ GoTo(index + 1) /\ Call(Null, Expression, "parenthesis")
  <2>1. top.at = "entry" /\ Type(index) # "EOT"
    BY <1>2 DEF At
  <2>2. Treed(Null) /\ Forward
    BY <1>2, <2>1, AtEntry, Keeps, Reaching
  <2> QED BY <1>2, <2>2, CalleeFacts, BareFacts, BareCallMoves
<1>3. CASE /\ At("primary", "entry")
           /\ Keep
           /\ GoTo(index) /\ Fail(Null)
  <2>1. top.at = "entry" /\ top.fn # "director"
    BY <1>3 DEF At
  <2>2. Treed(Null) /\ Forward
    BY <1>3, <2>1, AtEntry, Keeps, Reaching
  <2> QED BY <1>3, <2>1, <2>2, FailMoves
<1>4. CASE /\ At("primary", "parenthesis")
           /\ Keep
           /\ IF Type(index) = "CloseParen" THEN GoTo(index + 1) /\ Return(result)
                                            ELSE GoTo(index) /\ Fail(result)
  <2>1. top.at \in Bare /\ top.fn # "director"
    BY <1>4 DEF At, Bare
  <2>2. Treed(result)
    BY <1>4, <2>1, AtBare, Keeps
  <2>3. CASE Type(index) = "CloseParen" /\ GoTo(index + 1) /\ Return(result)
    <3>1. Type(index) # "EOT"
      BY <2>3
    <3>2. Forward
      BY <2>3, <3>1, Reaching
    <3> QED BY <2>1, <2>2, <2>3, <3>2, ReturnMoves
  <2>4. CASE GoTo(index) /\ Fail(result)
    <3>1. Forward
      BY <2>4, Reaching
    <3> QED BY <2>1, <2>2, <2>4, <3>1, FailMoves
  <2> QED BY <1>4, <2>3, <2>4
<1> QED BY <1>1, <1>2, <1>3, <1>4 DEF parse_primary

LEMMA TypeMoves ==
    ASSUME Running, parse_type
    PROVE  Moved
<1>1. CASE /\ At("type", "entry") /\ Type(index) \in BasicTypes
           /\ Make("AST_TYPE_BASIC", index, {})
           /\ GoTo(index + 1) /\ Return(Fresh)
  <2>1. /\ top.at = "entry" /\ top.fn # "director" /\ Type(index) # "EOT"
        /\ "AST_TYPE_BASIC" \in AstNodeType
    BY <1>1 DEF At, BasicTypes, AstNodeType
  <2>2. Treed(Fresh) /\ Forward
    BY <1>1, <2>1, AtEntry, MakesLeaf, Reaching
  <2> QED BY <1>1, <2>1, <2>2, ReturnMoves
<1>2. CASE /\ At("type", "entry") /\ Type(index) = "OpenSQRBrackets"
           /\ Make("AST_TYPE_ARRAY", index, {})
           /\ IF Type(index + 1) = "CloseSQRBrackets"
              THEN ElementType(Fresh, index + 1)
              ELSE GoTo(index + 1) /\ Call(Fresh, Expression, "size")
  <2>1. top.at = "entry" /\ top.fn = "type" /\ top.fn # "director" /\ Type(index) # "EOT"
    BY <1>2 DEF At
  <2>2. Treed(Fresh) /\ Filled(Fresh)
    BY <1>2, <2>1, MakerFacts, EntryMakes
  <2>3. CASE ElementType(Fresh, index + 1)
    BY <2>1, <2>2, <2>3, Reaching, ElementTypeMoves
  <2>4. CASE GoTo(index + 1) /\ Call(Fresh, Expression, "size")
    <3>1. Forward
      BY <2>1, <2>4, Reaching
    <3> QED BY <2>2, <2>4, <3>1, CalleeFacts, WaitFacts, CallMoves
  <2> QED BY <1>2, <2>3, <2>4
<1>3. CASE /\ At("type", "entry") /\ Type(index) \notin BasicTypes \cup {"OpenSQRBrackets"}
           /\ UNCHANGED index /\ Keep /\ Fail(Null)
  <2>1. top.at = "entry" /\ top.fn # "director" /\ index' = index
    BY <1>3 DEF At
  <2>2. Treed(Null) /\ Forward
    BY <1>3, <2>1, AtEntry, Keeps, Reaching
  <2> QED BY <1>3, <2>1, <2>2, FailMoves
<1>4. CASE /\ At("type", "size")
           /\ Adopt("size")
           /\ ElementType(top.node, index)
  <2>1. top.fn # "director"
    BY <1>4 DEF At
  <2>2. Treed(top.node) /\ Filled(top.node)
    BY <1>4, MakerFacts, WaitFacts, MemberFacts, WaitAdopts
  <2> QED BY <1>4, <2>1, <2>2, Reaching, ElementTypeMoves
<1>5. CASE Completes("type", "element_type", "element_type")
  BY <1>5, MakerFacts, WaitFacts, MemberFacts, CompletesMoves
<1> QED BY <1>1, <1>2, <1>3, <1>4, <1>5 DEF parse_type

-----------------------------------------------------------------------------
(* parse_director, and a function whose callee failed.                     *)

(* Nobody is left to go on.                                                *)
Stopped(n) == /\ stack' = <<>> /\ result' = Null /\ doomed' = {n} \ {Null}
              /\ pc' \in {"success", "failure"}
              /\ Len(stack) = 1 /\ n \in {Null, top.node}
Halted == /\ Forward
          /\ pc' = "success" => index' = EndOf
          /\ \E n : Treed(n) /\ Stopped(n)

LEMMA Stops ==
    ASSUME Running, NEW n, Treed(n), Stopped(n)
    PROVE  /\ Distinct(stack', result', ast, doomed')
           /\ Roots(stack', result', ast, doomed') = Handed(n)
           /\ doomed' \subseteq Nodes' /\ Shape(stack', heap', result')
<1>1. AtHand(stack, result, ast, n) /\ Len(stack) = 1
  BY DEF AtHand, top, Stopped
<1>2. Distinct(stack, result, ast, {}) /\ Len(stack) \in Nat /\ Len(stack) >= 1
  BY RunningFacts
<1>3. stack' = <<>> /\ result' = Null /\ doomed' = {n} \ {Null} /\ Len(<<>>) = 0
  BY DEF Stopped
<1>4. Len(<<>>) = Len(stack) - 1 /\ \A i \in 1 .. Len(stack) - 1 : <<>>[i].node = stack[i].node
  BY <1>1
<1>5. HandedOn(stack, result, ast, n, <<>>, Null, {n} \ {Null})
  BY <1>1, <1>2, <1>4, HandsToCaller
<1>6. Shape(<<>>, heap', Null)
  BY <1>3 DEF Shape
<1>7. doomed' \subseteq Nodes'
  BY <1>3 DEF Treed
<1> QED BY <1>3, <1>5, <1>6, <1>7 DEF HandedOn, Handed, top

(* Only parse_director has no caller, and it is the first.                 *)
LEMMA OnlyDirector ==
    ASSUME Running
    PROVE  top.fn = "director" <=> Len(stack) = 1
<1>1. Len(stack) \in 1 .. Len(stack)
  BY RunningFacts
<1> QED BY <1>1 DEF Running, IInv, Control, Shape, top

LEMMA DirectorMoves ==
    ASSUME Running, parse_director
    PROVE  Moved \/ Halted
<1>1. /\ top.fn = "director" /\ top.at \in Bare /\ Len(stack) = 1
      /\ top.node = Null
  <2>1. top.fn = "director" /\ top.at \in Bare
    BY DEF parse_director, At, Bare
  <2> QED BY <2>1, OnlyDirector, AtBare
<1>2. Treed(Null)
  <2>1. CASE At("director", "entry") /\ Keep
    BY <2>1, AtEntry, Keeps DEF At
  <2>2. CASE At("director", "declared") /\ AdoptDeclaration
    BY <2>2, <1>1, AdoptsDeclaration DEF At
  <2> QED BY <2>1, <2>2 DEF parse_director
<1>3. PICK i \in 0 .. Len(tokens) : skip_terminators(index, i) /\ Declarations(i)
  BY DEF parse_director
<1>4. Forward
  BY <1>3, SkipReaches, Reaching DEF Declarations
<1>5. CASE Declaration(i) # "none" /\ Call(Null, Declaration(i), "declared")
  <2>1. Declaration(i) \in Callees
    BY <1>5, CalleeFacts DEF Declaration, Keyword
  <2> QED BY <1>2, <1>4, <1>5, <2>1, BareFacts, BareCallMoves
<1>6. CASE /\ stack' = <<>> /\ result' = Null /\ UNCHANGED doomed
           /\ pc' = IF Type(i) = "EOT" THEN "success" ELSE "failure"
  <2>1. Stopped(Null)
    BY <1>1, <1>6 DEF Stopped, Running
  <2>2. ASSUME pc' = "success" PROVE index' = EndOf
    <3>1. i \in Reach /\ Type(i) = "EOT" /\ GoTo(i)
      BY <1>3, <1>6, <2>2, SkipReaches, Reaching DEF Declarations
    <3>2. /\ EndOf \in 0 .. Len(tokens) - 1 /\ Len(tokens) \in Nat /\ i \in Nat
          /\ Type(i) = "EOT" <=> i >= EndOf
      BY <3>1, Reaching, EndFacts DEF Running, IInv
    <3>3. i = EndOf
      BY <3>1, <3>2, Reaching DEF Reach
    <3> QED BY <3>1, <3>2, <3>3 DEF GoTo
  <2> QED BY <1>2, <1>4, <2>1, <2>2 DEF Halted
<1> QED BY <1>3, <1>5, <1>6 DEF Declarations

LEMMA GiveUpMoves ==
    ASSUME Running, give_up
    PROVE  (Moved /\ result' = Null /\ top'.at # "entry") \/ (Halted /\ pc' = "failure")
<1>1. /\ result = Null /\ result' = Null /\ index' = index /\ stack' = Outer
      /\ doomed' = {top.node} \ {Null}
  BY DEF give_up
<1>2. Treed(top.node) /\ Forward
  BY <1>1, Keeps, Reaching DEF give_up
<1>3. CASE Len(stack) = 1
  <2>1. stack' = <<>>
    BY <1>1, <1>3, RunningFacts DEF Outer
  <2>2. pc' = "failure"
    BY <1>3 DEF give_up
  <2>3. Stopped(top.node)
    BY <1>1, <1>3, <2>1, <2>2 DEF Stopped
  <2> QED BY <1>2, <2>2, <2>3 DEF Halted
<1>4. CASE Len(stack) # 1
  <2>1. top.fn # "director"
    BY <1>4, OnlyDirector
  <2>2. Fail(top.node)
    BY <1>1, <1>4 DEF give_up, Fail
  <2>3. Moved
    BY <1>2, <2>1, <2>2, FailMoves
  <2>4. top'.at # "entry"
    BY <1>1, <1>2, <2>1, HasCaller DEF Treed, top
  <2> QED BY <1>1, <2>3, <2>4
<1> QED BY <1>3, <1>4

-----------------------------------------------------------------------------
(* What every step of the parse functions keeps.                           *)

LEMMA EndStays ==
    ASSUME file' = file
    PROVE  /\ EndOf' = EndOf /\ tokens' = tokens
           /\ \A i : TokenAt(i)' = TokenAt(i) /\ Type(i)' = Type(i)
BY DEF EndOf, Type, TokenAt, tokens

Diagnoses == error' \in ParseErr /\ error_line' \in Nat /\ error_col' \in Nat

LEMMA StepKeeps ==
    ASSUME Running, UNCHANGED <<file, ast, shown>>, Diagnoses, Moved \/ Halted
    PROVE  IsFile(file)' /\ TypeOK' /\ Control' /\ Trees'
<1>1. /\ IsFile(file) /\ ast \in Nodes /\ ast # Null /\ heap[ast].kind = "AST_PROGRAM"
      /\ index \in Nat /\ EndOf \in 0 .. Len(tokens) - 1 /\ Len(tokens) \in Nat
      /\ shown = <<>> \/ shown \in Nat \X Nat
      /\ file' = file /\ ast' = ast /\ shown' = shown
  BY RunningFacts, EndFacts DEF Running, IInv, TypeOK
<1>2. /\ EndOf' = EndOf /\ tokens' = tokens
      /\ \A i : TokenAt(i)' = TokenAt(i) /\ Type(i)' = Type(i)
  BY <1>1, EndStays
<1>3. PICK n : Treed(n) /\ (Passed(n) \/ Stopped(n)) /\ Forward
  BY DEF Moved, Halted
<1>4. /\ HeapOK' /\ live' \subseteq Nodes' /\ Forest(heap', live', Handed(n))
      /\ Len(heap') \in Nat /\ Len(heap) <= Len(heap') /\ Len(heap) \in Nat
      /\ \A m \in Nodes : heap'[m].kind = heap[m].kind
  BY <1>3, RunningFacts DEF Treed, Kinds
<1>5. ast \in Nodes' /\ heap'[ast].kind = "AST_PROGRAM"
  BY <1>1, <1>4 DEF Nodes
<1>6. index' \in 0 .. Len(tokens) /\ index' <= EndOf
  BY <1>1, <1>3 DEF Forward
<1>7. CASE Passed(n)
  <2>1. /\ stack' \in Seq(Frame) /\ result' \in Nodes' \cup {Null} /\ doomed' \subseteq Nodes'
        /\ \A i \in 1 .. Len(stack') : stack'[i].node \in Nodes' \cup {Null}
        /\ Shape(stack', heap', result') /\ pc' = "parsing" /\ stack' # <<>>
        /\ top'.at = "entry" /\ top'.fn \in DOMAIN Keyworded
             => Type(index') = Keyworded[top'.fn]
        /\ Distinct(stack', result', ast, doomed')
        /\ Roots(stack', result', ast, doomed') = Handed(n)
    BY <1>7 DEF Passed
  <2>2. TypeOK'
    BY <2>1, <1>1, <1>2, <1>4, <1>5, <1>6 DEF TypeOK, Diagnoses, HeapOK
  <2>3. Trees'
    BY <2>1, <1>1, <1>4 DEF Trees
  <2>4. Control'
    <3>1. Type(index)' = Type(index')
      BY <1>1 DEF Type, TokenAt, tokens
    <3> QED BY <2>1, <3>1, <1>1, <1>2, <1>5, <1>6 DEF Control
  <2> QED BY <2>2, <2>3, <2>4, <1>1
<1>8. CASE Stopped(n)
  <2>1. /\ Distinct(stack', result', ast, doomed')
        /\ Roots(stack', result', ast, doomed') = Handed(n)
        /\ doomed' \subseteq Nodes' /\ Shape(stack', heap', result')
    BY <1>3, <1>8, Stops
  <2>2. stack' = <<>> /\ result' = Null /\ pc' \in {"success", "failure"}
    BY <1>8 DEF Stopped
  <2>3. TypeOK'
    BY <2>1, <2>2, <1>1, <1>2, <1>4, <1>5, <1>6 DEF TypeOK, Diagnoses, HeapOK
  <2>4. Trees'
    BY <2>1, <1>1, <1>4 DEF Trees
  <2>5. Control'
    BY <2>1, <2>2, <1>1, <1>2, <1>5, <1>6 DEF Control
  <2> QED BY <2>3, <2>4, <2>5, <1>1
<1> QED BY <1>3, <1>7, <1>8

(* An error that names a place is the last thing that happens before the   *)
(* calls return null one after the other.                                  *)
LEMMA NoErrorYet ==
    ASSUME Running, top.at = "entry" \/ result # Null
    PROVE  error = "PE_UNKNOWN" /\ error_line = 1 /\ error_col = 1
BY DEF Running, IInv, Diagnosed

LEMMA QuietStep ==
    ASSUME Running, UNCHANGED <<file, ast, shown>>, UNCHANGED diagnosis, Moved \/ Halted,
           top.at = "entry" \/ result # Null
    PROVE  IInv'
<1>1. error' = "PE_UNKNOWN" /\ error_line' = 1 /\ error_col' = 1
  BY NoErrorYet DEF diagnosis
<1>2. Diagnoses /\ Diagnosed'
  BY <1>1 DEF Diagnoses, Diagnosed, ParseErr
<1> QED BY <1>2, StepKeeps DEF IInv

LEMMA LoudStep ==
    ASSUME Running, UNCHANGED <<file, ast, shown>>, Moved \/ Halted,
           NEW i \in Reach, GoTo(i),
           NEW err \in ParseErr \ {"PE_UNKNOWN"}, set_parser_error(err, i),
           pc' = "failure" \/ (pc' = "parsing" /\ result' = Null /\ top'.at # "entry")
    PROVE  IInv'
<1>1. file' = file /\ IsFile(file) /\ i \in Nat /\ index' = i
  <2>1. i \in Nat /\ i <= EndOf /\ EndOf \in Nat /\ EndOf <= Len(tokens) /\ Len(tokens) \in Nat
    BY Reaching, EndFacts DEF Reach, Running, IInv
  <2> QED BY <2>1 DEF GoTo, Running, IInv
<1>2. /\ error' = err /\ error_line' = TokenAt(i).line /\ error_col' = TokenAt(i).index + 1
      /\ TokenAt(i).line \in Nat /\ TokenAt(i).index \in Nat
  BY <1>1, EndFacts DEF set_parser_error
<1>3. TokenAt(index)' = TokenAt(i)
  BY <1>1 DEF TokenAt, tokens
<1>4. Diagnoses
  BY <1>2 DEF Diagnoses
<1>5. Diagnosed'
  BY <1>2, <1>3 DEF Diagnosed
<1> QED BY <1>4, <1>5, StepKeeps DEF IInv

LEMMA ParserErrors ==
    /\ "PE_UNEXPECTED_TOKEN" \in ParseErr \ {"PE_UNKNOWN"}
    /\ "PE_EXPECTED_IDENTIFIER" \in ParseErr \ {"PE_UNKNOWN"}
    /\ "PE_EXPECTED_EXPRESSION" \in ParseErr \ {"PE_UNKNOWN"}
BY DEF ParseErr

LEMMA FailsBehind ==
    ASSUME Running, NEW n, Treed(n), top.fn # "director", Fail(n)
    PROVE  pc' = "parsing" /\ result' = Null /\ top'.at # "entry"
BY HasCaller DEF Fail, Running, Treed, top

LEMMA DirectorStep ==
    ASSUME Running, UNCHANGED <<file, ast, shown>>, parse_director
    PROVE  IInv'
<1>1. Moved \/ Halted
  BY DirectorMoves
<1>2. top.at = "entry" \/ result # Null
  BY DEF parse_director, At
<1>3. PICK i \in 0 .. Len(tokens) : skip_terminators(index, i) /\ Declarations(i)
  BY DEF parse_director
<1>4. CASE UNCHANGED diagnosis
  BY <1>1, <1>2, <1>4, QuietStep
<1>5. CASE /\ Type(i) # "EOT" /\ Declaration(i) = "none"
           /\ set_parser_error("PE_UNEXPECTED_TOKEN", i)
  <2>1. GoTo(i) /\ pc' = "failure"
    BY <1>3, <1>5 DEF Declarations
  <2>2. i \in Reach
    BY <1>3, SkipReaches, Reaching
  <2> QED BY <1>1, <1>5, <2>1, <2>2, ParserErrors, LoudStep
<1> QED BY <1>3, <1>4, <1>5 DEF Declarations

LEMMA ImportStep ==
    ASSUME Running, UNCHANGED <<file, ast, shown>>, parse_import
    PROVE  IInv'
<1>1. Moved
  BY ImportMoves
<1>2. top.at = "entry" /\ top.fn = "import" /\ top.fn # "director"
  BY DEF parse_import, At
<1>3. Treed(Fresh)
  <2>1. "AST_DECL_IMPORT" \in AstNodeType /\ "import" \notin DOMAIN Maker
    BY DEF AstNodeType, Maker
  <2> QED BY <2>1, <1>2, EntryMakes DEF parse_import
<1>4. PICK n \in 0 .. Len(ImportPattern) :
          /\ Matches(ImportPattern, n)
          /\ GoTo(index + n)
          /\ IF n = Len(ImportPattern)
             THEN Return(Fresh) /\ UNCHANGED diagnosis
             ELSE /\ Fail(Fresh)
                  /\ set_parser_error(CASE n = 0 -> "PE_EXPECTED_IDENTIFIER"
                                        [] n = 4 -> "PE_EXPECTED_EXPRESSION"
                                        [] OTHER -> "PE_UNEXPECTED_TOKEN", index + n)
  BY DEF parse_import
<1>5. CASE UNCHANGED diagnosis
  BY <1>1, <1>2, <1>5, QuietStep
<1>6. CASE ~ UNCHANGED diagnosis
  <2> DEFINE err == CASE n = 0 -> "PE_EXPECTED_IDENTIFIER"
                      [] n = 4 -> "PE_EXPECTED_EXPRESSION"
                      [] OTHER -> "PE_UNEXPECTED_TOKEN"
  <2>1. Fail(Fresh) /\ set_parser_error(err, index + n) /\ GoTo(index + n)
    BY <1>4, <1>6
  <2>2. err \in ParseErr \ {"PE_UNKNOWN"}
    BY ParserErrors
  <2>3. index + n \in Reach
    <3>1. /\ Len(ImportPattern) \in Nat
          /\ \A k \in 1 .. Len(ImportPattern) : ImportPattern[k] # "EOT"
      BY DEF ImportPattern
    <3> QED BY <3>1, <1>4, MatchReaches
  <2>4. pc' = "parsing" /\ result' = Null /\ top'.at # "entry"
    BY <2>1, <1>2, <1>3, FailsBehind
  <2> HIDE DEF err
  <2> QED BY <1>1, <2>1, <2>2, <2>3, <2>4, LoudStep
<1> QED BY <1>5, <1>6

LEMMA PrimaryStep ==
    ASSUME Running, UNCHANGED <<file, ast, shown>>, parse_primary
    PROVE  IInv'
<1>1. Moved
  BY PrimaryMoves
<1>2. top.at = "entry" \/ result # Null
  BY DEF parse_primary, At
<1>3. CASE UNCHANGED diagnosis
  BY <1>1, <1>2, <1>3, QuietStep
<1>4. CASE /\ At("primary", "entry") /\ Keep /\ GoTo(index) /\ Fail(Null)
           /\ set_parser_error("PE_EXPECTED_EXPRESSION", index)
  <2>1. top.at = "entry" /\ top.fn # "director"
    BY <1>4 DEF At
  <2>2. Treed(Null)
    BY <1>4, <2>1, AtEntry, Keeps
  <2>3. pc' = "parsing" /\ result' = Null /\ top'.at # "entry"
    BY <1>4, <2>1, <2>2, FailsBehind
  <2> QED BY <1>1, <1>4, <2>3, ParserErrors, Reaching, LoudStep
<1> QED BY <1>3, <1>4 DEF parse_primary

LEMMA GiveUpStep ==
    ASSUME Running, UNCHANGED <<file, ast, shown>>, UNCHANGED diagnosis, give_up
    PROVE  IInv'
<1>1. (Moved /\ result' = Null /\ top'.at # "entry") \/ (Halted /\ pc' = "failure")
  BY GiveUpMoves
<1>2. Diagnoses /\ error' = error /\ error_line' = error_line /\ error_col' = error_col
  BY DEF Diagnoses, diagnosis, Running, IInv, TypeOK
<1>3. Diagnosed'
  <2>1. TokenAt(index)' = TokenAt(index)
    BY DEF give_up, TokenAt, tokens
  <2>2. pc' = "failure" \/ (pc' = "parsing" /\ result' = Null /\ top'.at # "entry")
    BY <1>1 DEF give_up, Running
  <2>3. Diagnosed
    BY DEF Running, IInv
  <2> QED BY <1>2, <2>1, <2>2, <2>3 DEF Diagnosed
<1> QED BY <1>1, <1>2, <1>3, StepKeeps DEF IInv

LEMMA ParseStep ==
    ASSUME IInv, parse_step
    PROVE  IInv' /\ (Moved \/ Halted)
<1>1. Running /\ UNCHANGED <<file, ast, shown>>
  BY DEF parse_step, Running
<1>2. CASE parse_director
  BY <1>1, <1>2, DirectorStep, DirectorMoves
<1>3. CASE parse_import
  BY <1>1, <1>3, ImportStep, ImportMoves
<1>4. CASE parse_primary
  BY <1>1, <1>4, PrimaryStep, PrimaryMoves
<1>5. CASE UNCHANGED diagnosis
  <2>1. ASSUME Moved, top.at = "entry" \/ result # Null PROVE IInv' /\ (Moved \/ Halted)
    BY <1>1, <1>5, <2>1, QuietStep
  <2>2. CASE parse_function
    BY <1>1, <2>1, <2>2, FunctionMoves DEF parse_function, At, Completes
  <2>3. CASE parse_name
    BY <1>1, <2>1, <2>3, NameMoves DEF parse_name, At, Completes
  <2>4. CASE parse_variable
    BY <1>1, <2>1, <2>4, VariableMoves DEF parse_variable, At, Completes
  <2>5. CASE parse_struct
    BY <1>1, <2>1, <2>5, StructMoves DEF parse_struct, At
  <2>6. CASE parse_enum
    BY <1>1, <2>1, <2>6, EnumMoves DEF parse_enum, At
  <2>7. CASE parse_statement
    BY <1>1, <2>1, <2>7, StatementMoves DEF parse_statement, At
  <2>8. CASE parse_block
    BY <1>1, <2>1, <2>8, BlockMoves DEF parse_block, At
  <2>9. CASE parse_if_statement
    BY <1>1, <2>1, <2>9, IfMoves DEF parse_if_statement, At, Completes
  <2>10. CASE parse_while_statement
    BY <1>1, <2>1, <2>10, WhileMoves DEF parse_while_statement, At, Completes
  <2>11. CASE parse_for_range
    BY <1>1, <2>1, <2>11, ForRangeMoves DEF parse_for_range, At, Completes
  <2>12. CASE parse_for_clauses
    BY <1>1, <2>1, <2>12, ForClausesMove DEF parse_for_clauses, At
  <2>13. CASE parse_return_statement
    BY <1>1, <2>1, <2>13, ReturnStatementMoves DEF parse_return_statement, At, Completes
  <2>14. CASE parse_assignment
    BY <1>1, <2>1, <2>14, AssignmentMoves DEF parse_assignment, At
  <2>15. CASE \E level \in DOMAIN Tighter : parse_binary(level)
    <3>1. PICK level \in DOMAIN Tighter : parse_binary(level)
      BY <2>15
    <3>2. Moved
      BY <1>1, <3>1, BinaryMoves
    <3> QED BY <2>1, <3>1, <3>2 DEF parse_binary, At
  <2>16. CASE parse_unary
    BY <1>1, <2>1, <2>16, UnaryMoves DEF parse_unary, At
  <2>17. CASE parse_call
    BY <1>1, <2>1, <2>17, CallParserMoves DEF parse_call, At
  <2>18. CASE parse_type
    BY <1>1, <2>1, <2>18, TypeMoves DEF parse_type, At, Completes
  <2>19. CASE give_up
    BY <1>1, <1>5, <2>19, GiveUpStep, GiveUpMoves
  <2>20. \/ parse_director \/ parse_import \/ parse_primary
         \/ parse_function \/ parse_name \/ parse_variable \/ parse_struct \/ parse_enum
         \/ parse_statement \/ parse_block \/ parse_if_statement
         \/ parse_while_statement \/ parse_for_range \/ parse_for_clauses
         \/ parse_return_statement
         \/ parse_assignment \/ (\E level \in DOMAIN Tighter : parse_binary(level))
         \/ parse_unary \/ parse_call \/ parse_type
         \/ give_up
    BY DEF parse_step
  <2> QED BY <1>2, <1>3, <1>4, <2>2, <2>3, <2>4, <2>5, <2>6, <2>7, <2>8, <2>9, <2>10, <2>11,
             <2>12, <2>13, <2>14, <2>15, <2>16, <2>17, <2>18, <2>19, <2>20
<1> QED BY <1>2, <1>3, <1>4, <1>5 DEF parse_step

-----------------------------------------------------------------------------
(* The steps around the parse functions.                                   *)

LEMMA InitKeeps ==
    ASSUME parser_init
    PROVE  IInv
<1>1. /\ IsFile(file) /\ index = 0 /\ ast = Null /\ error = "PE_UNKNOWN"
      /\ error_line = 1 /\ error_col = 1 /\ stack = <<>> /\ result = Null
      /\ heap = <<>> /\ live = {} /\ doomed = {} /\ shown = <<>> /\ pc = "ready"
  BY FilesAssumption DEF parser_init
<1>2. Len(stack) = 0 /\ Len(heap) = 0 /\ Nodes = {}
  BY <1>1 DEF Nodes
<1>3. EndOf \in 0 .. Len(tokens) - 1 /\ Len(tokens) \in Nat
  BY <1>1, EndFacts
<1>4. TypeOK
  <2>1. stack \in Seq(Frame) /\ heap \in Seq(Node) /\ index \in 0 .. Len(tokens)
    BY <1>1, <1>3
  <2> QED BY <2>1, <1>1, <1>2 DEF TypeOK, ParseErr
<1>5. Control
  BY <1>1, <1>2, <1>3 DEF Control, Shape
<1>6. Diagnosed
  BY <1>1 DEF Diagnosed
<1>7. Trees
  <2>1. Roots(stack, result, ast, doomed) = {} /\ Held(stack) = {}
    BY <1>1, <1>2 DEF Roots, Held
  <2>2. Distinct(stack, result, ast, doomed)
    BY <1>1, <1>2, <2>1 DEF Distinct
  <2>3. Forest(heap, {}, {})
    BY DEF Forest, Grounded
  <2> QED BY <1>1, <2>1, <2>2, <2>3 DEF Trees
<1> QED BY <1>1, <1>4, <1>5, <1>6, <1>7 DEF IInv

LEMMA StartKeeps ==
    ASSUME IInv, parser_parse
    PROVE  IInv'
<1> DEFINE new == [kind |-> "AST_PROGRAM", token |-> 0, kids |-> {}]
           frame == [fn |-> "director", at |-> "entry", node |-> Null, op |-> 0]
<1>1. /\ heap \in Seq(Node) /\ Len(heap) \in Nat /\ live = {} /\ doomed = {} /\ stack = <<>>
      /\ result = Null /\ index \in 0 .. Len(tokens) /\ index <= EndOf /\ IsFile(file)
      /\ \A n \in Nodes : heap[n].kids \subseteq Members(heap[n].kind) \X Nodes
      /\ error \in ParseErr /\ error_line \in Nat /\ error_col \in Nat
      /\ shown = <<>> \/ shown \in Nat \X Nat
      /\ error = "PE_UNKNOWN" /\ error_line = 1 /\ error_col = 1
  BY DEF IInv, TypeOK, Control, Diagnosed, parser_parse, Shape
<1>2. /\ heap' = Append(heap, new) /\ live' = {Fresh} /\ ast' = Fresh /\ stack' = <<frame>>
      /\ pc' = "parsing" /\ file' = file /\ index' = index /\ result' = Null /\ doomed' = {}
      /\ shown' = shown /\ error' = error /\ error_line' = error_line /\ error_col' = error_col
  BY <1>1 DEF parser_parse, Make, diagnosis
<1>3. new \in Node /\ new.kids = {} /\ new.kind = "AST_PROGRAM"
  BY DEF Node, AstNodeType
<1>4. frame \in Frame /\ frame.fn = "director" /\ frame.at = "entry" /\ frame.node = Null
  BY DEF Frame, Functions, Points, Null
<1> HIDE DEF new, frame
<1>5. /\ heap' \in Seq(Node) /\ Len(heap') = Len(heap) + 1 /\ heap'[Fresh] = new
      /\ \A m \in Nodes : heap'[m] = heap[m]
  BY <1>1, <1>2, <1>3, AppendProperties DEF Nodes, Fresh
<1>6. Nodes' = Nodes \cup {Fresh} /\ Fresh # Null
  BY <1>1, <1>5 DEF Nodes, Fresh, Null
<1>7. stack' \in Seq(Frame) /\ Len(stack') = 1 /\ stack'[1] = frame /\ top' = frame
  BY <1>2, <1>4 DEF top
<1>8. /\ EndOf' = EndOf /\ tokens' = tokens
  BY <1>2, EndStays
<1>9. TypeOK'
  <2>1. \A n \in Nodes' : heap'[n].kids \subseteq Members(heap'[n].kind) \X Nodes'
    BY <1>1, <1>3, <1>5, <1>6
  <2>2. \A i \in 1 .. Len(stack') : stack'[i].node \in Nodes' \cup {Null}
    BY <1>4, <1>7
  <2> QED BY <2>1, <2>2, <1>1, <1>2, <1>5, <1>6, <1>7, <1>8 DEF TypeOK
<1>10. Control'
  <2>1. Shape(stack', heap', result')
    BY <1>2, <1>4, <1>7 DEF Shape, Fits, Bare
  <2>2. top'.fn \notin DOMAIN Keyworded
    BY <1>4, <1>7 DEF Keyworded
  <2>3. heap'[ast'].kind = "AST_PROGRAM" /\ ast' # Null
    BY <1>2, <1>3, <1>5, <1>6
  <2>4. stack' # <<>>
    BY <1>7
  <2> QED BY <2>1, <2>2, <2>3, <2>4, <1>1, <1>2, <1>8 DEF Control
<1>11. Diagnosed'
  BY <1>1, <1>2 DEF Diagnosed
<1>12. Trees'
  <2>1. Held(stack') = {} /\ Roots(stack', result', ast', doomed') = {Fresh}
    BY <1>2, <1>4, <1>6, <1>7 DEF Held, Roots
  <2>2. Distinct(stack', result', ast', doomed')
    BY <1>2, <1>7, <2>1 DEF Distinct
  <2>3. Forest(heap', {Fresh}, {Fresh})
    BY <1>3, <1>5 DEF Forest, Grounded
  <2> QED BY <2>1, <2>2, <2>3, <1>2 DEF Trees
<1> QED BY <1>1, <1>2, <1>9, <1>10, <1>11, <1>12 DEF IInv

(* Whatever pointers a node has, the function that frees it follows them.  *)
LEMMA AllFreed ==
    \A kind : Members(kind) \subseteq Freed(kind)
BY DEF Members, Freed, AstProgram, ast_program_free, AstDecl, ast_decl_free, AstStmt,
       ast_stmt_free, AstExpr, ast_expr_free, AstType, ast_type_free

LEMMA FreeKeeps ==
    ASSUME IInv, free_node
    PROVE  IInv'
<1>1. PICK n \in doomed :
            /\ doomed' = (doomed \ {n}) \cup {kid[2] : kid \in {k \in heap[n].kids :
                                                           k[1] \in Freed(heap[n].kind)}}
            /\ live' = live \ {n}
  <2>1. (CHOOSE m \in doomed : TRUE) \in doomed
    BY DEF free_node
  <2> QED BY <2>1 DEF free_node
<1> DEFINE K == {k[2] : k \in heap[n].kids}
           R == Roots(stack, result, ast, doomed)
<1>2. /\ UNCHANGED <<file, index, ast, diagnosis, stack, result, heap, shown, pc>>
      /\ n \in Nodes /\ live \subseteq Nodes /\ doomed \subseteq Nodes /\ Null \notin Nodes
      /\ heap[n].kids \subseteq Members(heap[n].kind) \X Nodes
      /\ Distinct(stack, result, ast, doomed) /\ Forest(heap, live, R)
      /\ pc # "ready"
  BY <1>1 DEF free_node, IInv, TypeOK, Trees, Nodes, Null, Control
<1>3. doomed' = (doomed \ {n}) \cup K
  <2>1. {k \in heap[n].kids : k[1] \in Freed(heap[n].kind)} = heap[n].kids
    BY <1>2, AllFreed
  <2> QED BY <1>1, <2>1
<1>4. K \subseteq Nodes
  BY <1>2
<1>5. /\ n \in R /\ K \subseteq live \ R
      /\ Forest(heap, live \ {n}, (R \ {n}) \cup K)
  <2>1. n \in R
    BY <1>1, <1>2 DEF Roots
  <2>2. K \subseteq live \ R
    BY <2>1, <1>2 DEF Forest
  <2> HIDE DEF R
  <2> QED BY <2>1, <2>2, <1>2, NodeIsFreed
<1>6. Held(stack) \cap K = {} /\ result \notin K /\ ast \notin K /\ Null \notin K
  <2>1. K \cap Held(stack) = {}
    BY <1>5 DEF Roots, Held
  <2> QED BY <2>1, <1>2, <1>4, <1>5 DEF Roots
<1> HIDE DEF K
<1>7. Distinct(stack, result, ast, (doomed \ {n}) \cup K)
  BY <1>2, <1>6 DEF Distinct
<1>8. Roots(stack, result, ast, (doomed \ {n}) \cup K) = (R \ {n}) \cup K
  <2>1. n \notin Held(stack) /\ n # result /\ n # ast
    BY <1>1, <1>2 DEF Distinct
  <2> QED BY <2>1, <1>6 DEF Roots
<1>9. Trees'
  BY <1>1, <1>2, <1>3, <1>5, <1>7, <1>8 DEF Trees
<1>10. TypeOK'
  <2>1. doomed' \subseteq Nodes /\ live' \subseteq Nodes
    BY <1>1, <1>2, <1>3, <1>4
  <2> QED BY <2>1, <1>2 DEF TypeOK, IInv, Nodes, tokens, diagnosis
<1>11. Control'
  <2>1. EndOf' = EndOf /\ Type(index)' = Type(index) /\ top' = top
    BY <1>2, EndStays DEF Type, TokenAt, tokens, top
  <2> QED BY <2>1, <1>2 DEF Control, IInv
<1>12. Diagnosed' /\ IsFile(file)'
  <2>1. TokenAt(index)' = TokenAt(index) /\ top' = top
    BY <1>2 DEF TokenAt, tokens, top
  <2> QED BY <2>1, <1>2 DEF Diagnosed, IInv, diagnosis
<1> QED BY <1>9, <1>10, <1>11, <1>12 DEF IInv

-----------------------------------------------------------------------------
(* The line that is printed.                                               *)

LEMMA LineFacts ==
    ASSUME IsFile(file), error_line \in Nat
    PROVE  /\ Low \in Nat /\ High \in Nat /\ Low <= High /\ High <= file.length
           /\ \A i \in file.newlines : ~(Low <= i /\ i < High)
           /\ Low # 0 => Low - 1 \in file.newlines
           /\ High # file.length => High \in file.newlines
<1> DEFINE before == {i \in file.newlines : i < error_line /\ i < file.length}
           behind == {i \in file.newlines : i >= error_line /\ i < file.length}
<1>1. file.length \in Nat /\ file.newlines \subseteq Nat
  BY DEF IsFile
<1>2. /\ Low = 0 \/ (Low - 1 \in before /\ Low \in Nat)
      /\ \A i \in before : i < Low
      /\ Low <= error_line /\ Low <= file.length /\ Low \in Nat
  <2>1. CASE before = {}
    BY <2>1, <1>1 DEF Low
  <2>2. CASE before # {}
    <3>1. before \subseteq 0 .. error_line
      BY <1>1
    <3>2. \E m \in before : \A j \in before : j <= m
      <4> HIDE DEF before
      <4> QED BY <2>2, <3>1, GreatestOf
    <3> DEFINE m == CHOOSE i \in before : \A j \in before : j <= i
    <3>3. m \in before /\ \A j \in before : j <= m
      BY <3>2
    <3>4. Low = m + 1
      BY <2>2 DEF Low
    <3> HIDE DEF m
    <3> QED BY <3>3, <3>4, <1>1
  <2> QED BY <2>1, <2>2
<1>3. /\ High = file.length \/ High \in behind
      /\ \A i \in behind : High <= i
      /\ High \in Nat /\ High <= file.length
  <2>1. CASE behind = {}
    BY <2>1, <1>1 DEF High
  <2>2. CASE behind # {}
    <3>1. behind \subseteq Nat
      BY <1>1
    <3>2. \E m \in behind : \A j \in behind : m <= j
      <4> HIDE DEF behind
      <4> QED BY <2>2, <3>1, LeastOf
    <3> DEFINE m == CHOOSE i \in behind : \A j \in behind : i <= j
    <3>3. m \in behind /\ \A j \in behind : m <= j
      BY <3>2
    <3>4. High = m
      BY <2>2 DEF High
    <3> HIDE DEF m
    <3> QED BY <3>3, <3>4, <1>1
  <2> QED BY <2>1, <2>2
<1>4. Low <= High
  BY <1>1, <1>2, <1>3
<1>5. \A i \in file.newlines : i < file.length => i \in before \/ i \in behind
  BY <1>1
<1>6. ASSUME NEW i \in file.newlines, Low <= i, i < High PROVE FALSE
  <2>1. i \in before \/ i \in behind
    BY <1>1, <1>3, <1>5, <1>6
  <2> HIDE DEF before, behind
  <2> QED BY <2>1, <1>1, <1>2, <1>3, <1>6
<1> QED BY <1>1, <1>2, <1>3, <1>4, <1>6

LEMMA ReportKeeps ==
    ASSUME IInv, parser_report_error
    PROVE  IInv'
<1>1. /\ UNCHANGED <<file, index, ast, diagnosis, stack, result, memory, doomed>>
      /\ shown' = <<Low, High>> /\ pc = "failure" /\ pc' = "reported"
      /\ heap' = heap /\ live' = live
  BY DEF parser_report_error, memory
<1>2. Low \in Nat /\ High \in Nat
  BY LineFacts DEF IInv, TypeOK
<1>3. EndOf' = EndOf /\ Type(index)' = Type(index) /\ top' = top /\ TokenAt(index)' = TokenAt(index)
  BY <1>1, EndStays DEF Type, TokenAt, tokens, top
<1>4. TypeOK'
  BY <1>1, <1>2 DEF TypeOK, IInv, Nodes, tokens, diagnosis
<1>5. Control'
  BY <1>1, <1>3 DEF Control, IInv
<1>6. Diagnosed' /\ IsFile(file)'
  BY <1>1, <1>3 DEF Diagnosed, IInv, diagnosis
<1>7. Trees'
  BY <1>1 DEF Trees, IInv
<1> QED BY <1>4, <1>5, <1>6, <1>7 DEF IInv

LEMMA DeinitKeeps ==
    ASSUME IInv, parser_deinit
    PROVE  IInv'
<1>1. /\ UNCHANGED <<file, index, diagnosis, stack, result, memory, shown, pc>>
      /\ pc \in {"success", "reported"} /\ ast # Null /\ doomed = {}
      /\ doomed' = {ast} /\ ast' = Null
      /\ heap' = heap /\ live' = live
  BY DEF parser_deinit, memory
<1>2. EndOf' = EndOf /\ Type(index)' = Type(index) /\ top' = top /\ TokenAt(index)' = TokenAt(index)
  BY <1>1, EndStays DEF Type, TokenAt, tokens, top
<1>3. stack = <<>> /\ Held(stack) = {} /\ Len(stack) = 0
  <2>1. stack = <<>>
    BY <1>1 DEF IInv, Control
  <2> QED BY <2>1 DEF Held
<1>4. result = Null
  BY <1>3 DEF IInv, Control, Shape
<1>5. TypeOK'
  BY <1>1 DEF TypeOK, IInv, Nodes, tokens, diagnosis
<1>6. Control'
  BY <1>1, <1>2 DEF Control, IInv
<1>7. Diagnosed' /\ IsFile(file)'
  BY <1>1, <1>2 DEF Diagnosed, IInv, diagnosis
<1>8. Trees'
  <2>1. Distinct(stack, result, Null, {ast})
    BY <1>1, <1>3, <1>4 DEF Distinct
  <2>2. Roots(stack, result, Null, {ast}) = Roots(stack, result, ast, doomed)
    BY <1>1 DEF Roots
  <2> QED BY <1>1, <2>1, <2>2 DEF Trees, IInv
<1> QED BY <1>5, <1>6, <1>7, <1>8 DEF IInv

-----------------------------------------------------------------------------
(* The invariant.                                                          *)

LEMMA StepKeepsInvariant ==
    ASSUME IInv, [Next]_vars
    PROVE  IInv'
<1>1. CASE UNCHANGED vars
  <2>1. /\ UNCHANGED <<file, index, ast, error, error_line, error_col, stack, result, heap,
                       live, doomed, shown, pc>>
    BY <1>1 DEF vars
  <2>2. EndOf' = EndOf /\ Type(index)' = Type(index) /\ top' = top
        /\ TokenAt(index)' = TokenAt(index)
    BY <2>1, EndStays DEF Type, TokenAt, tokens, top
  <2>3. TypeOK'
    BY <2>1 DEF TypeOK, IInv, Nodes, tokens
  <2>4. Control'
    BY <2>1, <2>2 DEF Control, IInv
  <2>5. Diagnosed' /\ IsFile(file)' /\ Trees'
    BY <2>1, <2>2 DEF Diagnosed, Trees, IInv
  <2> QED BY <2>3, <2>4, <2>5 DEF IInv
<1>2. CASE parser_parse
  BY <1>2, StartKeeps
<1>3. CASE parse_step
  BY <1>3, ParseStep
<1>4. CASE free_node
  BY <1>4, FreeKeeps
<1>5. CASE parser_report_error
  BY <1>5, ReportKeeps
<1>6. CASE parser_deinit
  BY <1>6, DeinitKeeps
<1> QED BY <1>1, <1>2, <1>3, <1>4, <1>5, <1>6 DEF Next

(* The invariant holds in every state, for every file: it holds before the *)
(* first call, and the start of the parser, every step of a parse          *)
(* function, every call that frees a node, the report and parser_deinit    *)
(* keep it (parser.c:15-1535).                                             *)
THEOREM Invariance == Spec => []IInv
<1>1. parser_init => IInv
  BY InitKeeps
<1>2. IInv /\ [Next]_vars => IInv'
  BY StepKeepsInvariant
<1> QED BY <1>1, <1>2, PTL DEF Spec

-----------------------------------------------------------------------------
(* What the invariant says.                                                *)

(* For every file, every pointer of the parser and of its nodes leads to a *)
(* node that was allocated, and is one that the node's kind has in its     *)
(* union (type.h, parser.c).                                               *)
THEOREM TypeCorrect == Spec => []TypeOK
<1>1. IInv => TypeOK
  BY DEF IInv
<1> QED BY <1>1, Invariance, PTL

(* Owners is about where a node hangs; the forest says the same in terms   *)
(* of roots.                                                               *)
LEMMA RootsOwnOnce ==
    ASSUME IInv, NEW n \in Nodes
    PROVE  IF n \in live THEN \E o \in Owners(n) : Owners(n) = {o} ELSE Owners(n) = {}
<1> DEFINE R == Roots(stack, result, ast, doomed)
           F == {<<"frame", i, "node">> : i \in {j \in 1 .. Len(stack) : stack[j].node = n}}
           P == UNION {{<<"node", m, k[1]>> : k \in {h \in heap[m].kids : h[2] = n}} :
                           m \in live}
           A == {o \in {<<"result", Null, "">>} : result = n}
           B == {o \in {<<"parser", Null, "ast">>} : ast = n}
           C == {o \in {<<"free", Null, "">>} : n \in doomed}
<1>1. \A o : o \in Owners(n) <=> o \in F \/ o \in P \/ o \in A \/ o \in B \/ o \in C
  <2>1. Owners(n) = F \cup P \cup A \cup B \cup C
    BY DEF Owners
  <2> HIDE DEF F, P, A, B, C
  <2> QED BY <2>1
<1>2. /\ Distinct(stack, result, ast, doomed) /\ Forest(heap, live, R) /\ n # Null
      /\ \A m \in live : heap[m].kids \subseteq Members(heap[m].kind) \X Nodes
  BY DEF IInv, Trees, Nodes, Null, TypeOK
<1>3. /\ F # {} <=> n \in Held(stack)
      /\ A # {} <=> result = n
      /\ B # {} <=> ast = n
      /\ C # {} <=> n \in doomed
  <2>1. F # {} <=> n \in Held(stack)
    BY <1>2 DEF Held
  <2> QED BY <2>1
<1>4. P # {} <=> \E m \in live : \E k \in heap[m].kids : k[2] = n
  <2>1. ASSUME P # {} PROVE \E m \in live : \E k \in heap[m].kids : k[2] = n
    BY <2>1
  <2>2. ASSUME NEW m \in live, NEW k \in heap[m].kids, k[2] = n PROVE P # {}
    <3>1. <<"node", m, k[1]>> \in P
      BY <2>2
    <3> QED BY <3>1
  <2> QED BY <2>1, <2>2
<1>5. n \in R <=> n \in Held(stack) \/ result = n \/ ast = n \/ n \in doomed
  BY <1>2 DEF Roots
<1>6. \A o, p \in F : o = p
  BY <1>2 DEF Distinct
<1>7. \A o, p \in P : o = p
  BY <1>2 DEF Forest
<1>8. (\A o, p \in A : o = p) /\ (\A o, p \in B : o = p) /\ (\A o, p \in C : o = p)
  OBVIOUS
<1>9. n \in R => n \in live /\ P = {}
  BY <1>2, <1>4 DEF Forest
<1>10. n \in live /\ n \notin R => P # {}
  BY <1>2, <1>4 DEF Forest
<1>11. P # {} => n \in live /\ n \notin R
  BY <1>2, <1>4 DEF Forest
<1> HIDE DEF F, P, A, B, C, R
<1>12. /\ F # {} => A = {} /\ B = {} /\ C = {}
       /\ A # {} => B = {} /\ C = {}
       /\ B # {} => C = {}
  BY <1>2, <1>3 DEF Distinct
<1>13. /\ F # {} \/ A # {} \/ B # {} \/ C # {} => P = {}
       /\ n \in live <=> F # {} \/ A # {} \/ B # {} \/ C # {} \/ P # {}
  BY <1>3, <1>5, <1>9, <1>10, <1>11
<1>14. \A o, p \in Owners(n) : o = p
  BY <1>1, <1>6, <1>7, <1>8, <1>12, <1>13
<1>15. Owners(n) # {} <=> n \in live
  BY <1>1, <1>13
<1> QED BY <1>14, <1>15

(* Whatever fails, for every file: every live node has exactly one owner   *)
(* and every freed node none, so nothing leaks, nothing is freed twice and *)
(* no pointer dangles (parser.c:183-333 and every error path).             *)
THEOREM EveryNodeOwnedOnce == Spec => []OwnedOnce
<1>1. IInv => OwnedOnce
  BY RootsOwnOnce DEF OwnedOnce
<1> QED BY <1>1, Invariance, PTL

(* For every file: an error that names a place names the token the parser  *)
(* stopped at, and the file is not accepted (parser.c:115-122, 346-350).   *)
THEOREM ErrorsNameTheStop == Spec => []ErrorNamesStop
<1>1. IInv => ErrorNamesStop
  BY DEF IInv, Diagnosed, ErrorNamesStop
<1> QED BY <1>1, Invariance, PTL

(* For every file, and wherever its newlines are: what the report prints   *)
(* lies inside the file and is one line of it, or the empty piece in front *)
(* of a newline (parser.c:1513-1521).                                      *)
THEOREM ReportsOneLine == Spec => []ReportShowsOneLine
<1>1. parser_init => ReportShowsOneLine
  BY DEF parser_init, ReportShowsOneLine
<1>2. ASSUME IInv, ReportShowsOneLine, [Next]_vars PROVE ReportShowsOneLine'
  <2>1. CASE UNCHANGED <<file, shown>>
    BY <1>2, <2>1 DEF ReportShowsOneLine
  <2>2. CASE parser_report_error
    <3>1. file' = file /\ shown' = <<Low, High>>
      BY <2>2 DEF parser_report_error
    <3>2. /\ Low <= High /\ High <= file.length
          /\ \A i \in file.newlines : ~(Low <= i /\ i < High)
          /\ Low # 0 => Low - 1 \in file.newlines
          /\ High # file.length => High \in file.newlines
      BY <1>2, LineFacts DEF IInv, TypeOK
    <3> QED BY <3>1, <3>2 DEF ReportShowsOneLine
  <2>3. parser_parse \/ parse_step \/ free_node \/ parser_deinit => UNCHANGED <<file, shown>>
    BY DEF parser_parse, parse_step, free_node, parser_deinit
  <2>4. UNCHANGED vars => UNCHANGED <<file, shown>>
    BY DEF vars
  <2> QED BY <1>2, <2>1, <2>2, <2>3, <2>4 DEF Next
<1> QED BY <1>1, <1>2, Invariance, PTL DEF Spec

-----------------------------------------------------------------------------
(* The contract.                                                           *)

ContractStep == [Contract!ContractNext]_(Contract!contractVars)

LEMMA Verdicts ==
    ASSUME TypeOK
    PROVE  /\ Verdict = "closed" <=> Ended
           /\ Verdict = "accepted" <=> ~Ended /\ pc = "success"
           /\ Verdict = "rejected" <=> ~Ended /\ pc \in {"failure", "reported"}
           /\ Verdict = "open" <=> pc \in {"ready", "parsing"}
BY DEF Verdict, Ended, TypeOK

(* With nobody left to hold it the tree is gone: its nodes would have to   *)
(* hang below each other in a circle.                                      *)
LEMMA NothingLeft == IInv /\ Ended => live = {}
<1> SUFFICES ASSUME IInv, Ended PROVE live = {}
  OBVIOUS
<1>1. stack = <<>> /\ result = Null /\ ast = Null /\ doomed = {}
  BY DEF IInv, Control, Shape, Ended
<1>2. Len(stack) = 0
  BY <1>1
<1>3. Roots(stack, result, ast, doomed) = {}
  BY <1>1, <1>2 DEF Roots, Held
<1>4. /\ Grounded(heap, live)
      /\ \A n \in live : \E m \in live : \E k \in heap[m].kids : k[2] = n
  BY <1>3 DEF IInv, Trees, Forest
<1>5. live # {} => \E n \in live : \A m \in live : \A k \in heap[m].kids : k[2] # n
  BY <1>4 DEF Grounded
<1> QED BY <1>4, <1>5

LEMMA ContractStarts ==
    ASSUME parser_init
    PROVE  Contract!ContractInit
<1>1. IInv
  BY InitKeeps
<1>2. EndOf \in Nat
  BY <1>1, EndFacts DEF IInv
<1>3. Verdict = "open"
  BY DEF Verdict, Ended, parser_init
<1> QED BY <1>2, <1>3 DEF Contract!ContractInit, parser_init

LEMMA ParsingIsReading ==
    ASSUME IInv, parse_step
    PROVE  ContractStep
<1>1. IInv' /\ (Moved \/ Halted)
  BY ParseStep
<1>2. /\ index' \in index .. EndOf
      /\ \/ pc' = "parsing" \/ pc' = "failure"
         \/ pc' = "success" /\ index' = EndOf
  BY <1>1 DEF Moved, Halted, Passed, Stopped, Forward
<1>3. EndOf' = EndOf /\ Verdict = "open"
  BY EndStays, Verdicts DEF parse_step, IInv
<1>4. ~Ended'
  BY <1>1, <1>2 DEF Ended, IInv, Control, parse_step, Null
<1>5. CASE pc' = "parsing"
  <2>1. Verdict' = "open"
    BY <1>5 DEF Verdict, Ended
  <2> QED BY <1>2, <1>3, <2>1 DEF ContractStep, Contract!ContractNext, Contract!ReadTokens
<1>6. CASE pc' = "failure"
  <2>1. Verdict' = "rejected"
    BY <1>6 DEF Verdict, Ended
  <2> QED BY <1>2, <1>3, <2>1 DEF ContractStep, Contract!ContractNext, Contract!Reject
<1>7. CASE pc' = "success" /\ index' = EndOf
  <2>1. Verdict' = "accepted"
    BY <1>4, <1>7 DEF Verdict
  <2> QED BY <1>3, <1>7, <2>1 DEF ContractStep, Contract!ContractNext, Contract!Accept
<1> QED BY <1>2, <1>5, <1>6, <1>7

LEMMA FreeingGivesBack ==
    ASSUME IInv, free_node
    PROVE  ContractStep
<1>1. IInv' /\ live' \subseteq live /\ doomed # {}
  BY FreeKeeps DEF free_node
<1>2. UNCHANGED <<file, index, ast, pc>> /\ EndOf' = EndOf
  BY EndStays DEF free_node
<1>3. ~Ended
  BY <1>1 DEF Ended
<1>4. CASE Ended'
  <2>1. live' = {}
    <3>1. (IInv /\ Ended => live = {})'
      BY NothingLeft, PTL
    <3> QED BY <1>1, <1>4, <3>1
  <2>2. Verdict' = "closed"
    BY <1>4 DEF Verdict
  <2>3. Verdict \in {"accepted", "rejected"}
    BY <1>2, <1>3, <1>4 DEF Verdict, Ended
  <2> QED BY <1>2, <2>1, <2>2, <2>3 DEF ContractStep, Contract!ContractNext, Contract!Close
<1>5. CASE ~Ended'
  <2>1. Verdict' = Verdict
    BY <1>2, <1>3, <1>5 DEF Verdict
  <2>2. CASE pc \in {"ready", "parsing"}
    <3>1. Verdict = "open"
      BY <2>2, Verdicts DEF IInv
    <3>2. index \in index .. EndOf
      <4>1. index \in Nat /\ EndOf \in Nat /\ index <= EndOf
        BY EndFacts DEF IInv, TypeOK, Control
      <4> QED BY <4>1
    <3> QED BY <1>2, <2>1, <3>1, <3>2 DEF ContractStep, Contract!ContractNext, Contract!ReadTokens
  <2>3. CASE pc \in {"success", "failure", "reported"}
    <3>1. Verdict \in {"accepted", "rejected"}
      BY <1>3, <2>3, Verdicts DEF IInv
    <3> QED BY <1>1, <1>2, <2>1, <3>1 DEF ContractStep, Contract!ContractNext, Contract!GiveBack
  <2> QED BY <2>2, <2>3 DEF IInv, TypeOK
<1> QED BY <1>4, <1>5

LEMMA OthersKeepContract ==
    ASSUME IInv, parser_parse \/ parser_report_error \/ parser_deinit \/ UNCHANGED vars
    PROVE  ContractStep
<1>1. UNCHANGED <<file, index>> /\ EndOf' = EndOf
  <2>1. UNCHANGED <<file, index>>
    BY DEF parser_parse, parser_report_error, parser_deinit, vars
  <2> QED BY <2>1, EndStays
<1>2. CASE parser_parse
  <2>1. Verdict = "open" /\ Verdict' = "open"
    BY <1>2 DEF parser_parse, Verdict, Ended
  <2>2. index \in index .. EndOf
    <3>1. index \in Nat /\ EndOf \in Nat /\ index <= EndOf
      BY EndFacts DEF IInv, TypeOK, Control
    <3> QED BY <3>1
  <2> QED BY <1>1, <2>1, <2>2 DEF ContractStep, Contract!ContractNext, Contract!ReadTokens
<1>3. CASE parser_report_error
  <2>1. ast # Null /\ ast' = ast /\ live' = live
    BY <1>3 DEF parser_report_error, IInv, Control, memory
  <2>2. Verdict = "rejected" /\ Verdict' = "rejected"
    BY <1>3, <2>1 DEF parser_report_error, Verdict, Ended
  <2> QED BY <1>1, <2>1, <2>2 DEF ContractStep, Contract!contractVars
<1>4. CASE parser_deinit
  <2>1. live' = live /\ Verdict' = Verdict
    BY <1>4 DEF parser_deinit, memory, Verdict, Ended
  <2> QED BY <1>1, <2>1 DEF ContractStep, Contract!contractVars
<1>5. CASE UNCHANGED vars
  <2>1. live' = live /\ Verdict' = Verdict
    BY <1>5 DEF vars, Verdict, Ended
  <2> QED BY <1>1, <2>1 DEF ContractStep, Contract!contractVars
<1> QED BY <1>2, <1>3, <1>4, <1>5

(* For every file the parser keeps the contract of ParseContract: it reads *)
(* on and never behind the first end mark, accepts only what it has read   *)
(* to the end, allocates nothing behind its verdict and gives everything   *)
(* back (parser.c:376-1535).                                               *)
THEOREM ParserKeepsContract == Spec => ImplementsParse
<1>1. parser_init => Contract!ContractInit
  BY ContractStarts
<1>2. IInv /\ [Next]_vars => [Contract!ContractNext]_(Contract!contractVars)
  BY ParsingIsReading, FreeingGivesBack, OthersKeepContract DEF ContractStep, Next
<1> QED BY <1>1, <1>2, Invariance, PTL DEF Spec, ImplementsParse, Contract!ContractSpec

-----------------------------------------------------------------------------
(* How deep the calls go, and what the tree looks like.                    *)
(*                                                                         *)
(* Both are about frames as they lie on the stack, so they are stated for  *)
(* a stack S, a heap H, tokens W and an index i, and the lemmas are about  *)
(* those before the step and U, G and j behind it.                         *)

(* How many calls can still follow before the next token is read: from a   *)
(* statement down to a primary there are nine; a statement or a            *)
(* declaration that waits has read a token of its own, and can afford ten. *)
Waiters == {"function", "struct", "enum", "block", "if", "while", "for", "return"}
Ahead(fn) == CASE fn \in {"statement", "block", "if", "while", "for", "return"} -> 9
               [] fn = "assignment"                     -> 8
               [] fn = "logical_or"                     -> 7
               [] fn = "logical_and"                    -> 6
               [] fn = "equality"                       -> 5
               [] fn = "comparison"                     -> 4
               [] fn = "term"                           -> 3
               [] fn = "factor"                         -> 2
               [] fn \in {"unary", "call", "director"}  -> 1
               [] OTHER                                 -> 0
Left(fn, at) == IF at # "entry" /\ fn \in Waiters THEN 10 ELSE Ahead(fn)
Shallow(S, i) == \A k \in 1 .. Len(S) : k + Left(S[k].fn, S[k].at) <= 2 + 9 * i

(* The step, having read on from i to j, can afford to call fn and wait.   *)
Affords(f, i, fn, at, j) == /\ Left(fn, "entry") + 1 <= Left(f.fn, f.at) + 9 * (j - i)
                            /\ Left(f.fn, at) <= Left(f.fn, f.at) + 9 * (j - i)

(* How tight the result of a function binds, and how tight a function      *)
(* wants the result it waits for to bind.                                  *)
Binding(fn) == CASE fn = "logical_or"           -> 1
                 [] fn = "logical_and"          -> 2
                 [] fn = "equality"             -> 3
                 [] fn = "comparison"           -> 4
                 [] fn = "term"                 -> 5
                 [] fn = "factor"               -> 6
                 [] fn = "unary"                -> 7
                 [] fn \in {"call", "primary"}  -> 8
                 [] OTHER                       -> 0
Asks(fn, at) == CASE fn \in DOMAIN Tighter -> IF at = "right" THEN Binding(fn) + 1 ELSE Binding(fn)
                  [] fn = "unary"          -> 7
                  [] fn = "call"           -> IF at = "postfix" THEN 8 ELSE 0
                  [] fn = "assignment"     -> IF at = "target" THEN 1 ELSE 0
                  [] OTHER                 -> 0

(* Where the callee of a waiting function began, and whether the function  *)
(* began there itself and may return what it gets.                         *)
Start(f) == IF f.at = "right" \/ f.fn = "unary" THEN f.op + 1 ELSE f.op
Passes(fn, at) == (fn \in DOMAIN Tighter /\ at = "operand") \/ at \in {"postfix", "parenthesis"}

Word(W, i) == IF i < Len(W) THEN W[i + 1].type ELSE "EOT"
GradeOf(kind, word) == CASE kind = "AST_EXPR_ASSIGN" -> 0
                         [] kind = "AST_EXPR_BINARY" ->
                               CHOOSE l \in DOMAIN Levels : word \in Levels[l]
                         [] kind = "AST_EXPR_UNARY"  -> 7
                         [] OTHER                    -> 8
Grade(W, H, n) == GradeOf(H[n].kind, Word(W, H[n].token))

(* The nodes whose pointers are operands.                                  *)
Operating == {"AST_EXPR_ASSIGN", "AST_EXPR_BINARY", "AST_EXPR_UNARY"}
Graded(W, H) == \A n \in 1 .. Len(H) : H[n].kind = "AST_EXPR_BINARY" =>
                    \E l \in DOMAIN Levels : Word(W, H[n].token) \in Levels[l]
BindsIn(W, H, n, kid) ==
    CASE kid[1] = "left"    -> \/ Grade(W, H, kid[2]) >= Grade(W, H, n)
                               \/ Word(W, H[n].token - 1) = "CloseParen"
      [] kid[1] = "right"   -> \/ Grade(W, H, kid[2]) > Grade(W, H, n)
                               \/ Word(W, H[n].token + 1) = "OpenParen"
      [] kid[1] = "operand" -> \/ Grade(W, H, kid[2]) >= 7
                               \/ Word(W, H[n].token + 1) = "OpenParen"
      [] kid[1] = "target"  -> \/ Grade(W, H, kid[2]) > 0
                               \/ Word(W, H[n].token - 1) = "CloseParen"
      [] OTHER              -> TRUE
Bound(W, H) == \A n \in 1 .. Len(H) : \A kid \in H[n].kids : BindsIn(W, H, n, kid)

(* What a function knows of what it has read and holds while it waits.     *)
Knows(W, H, f) ==
    /\ f.at = "parenthesis" => Word(W, f.op) = "OpenParen"
    /\ f.at = "right" =>
          /\ Word(W, f.op) \in Operators[f.fn]
          /\ Grade(W, H, f.node) >= Binding(f.fn) \/ Word(W, f.op - 1) = "CloseParen"
    /\ f.fn = "assignment" /\ f.at = "value" =>
          Grade(W, H, f.node) > 0 \/ Word(W, f.op - 1) = "CloseParen"
Framed(W, H, S) ==
    \A k \in 1 .. Len(S) :
        /\ Knows(W, H, S[k])
        /\ k > 1 => Binding(S[k].fn) >= Asks(S[k - 1].fn, S[k - 1].at)
        /\ 1 < k /\ k < Len(S) /\ Passes(S[k].fn, S[k].at) => S[k].op = Start(S[k - 1])

(* The result is as tight as its function wants it, or in parentheses.     *)
Tight(W, H, f, r) == Grade(W, H, r) >= Asks(f.fn, f.at)
InParens(W, begin, i) == Word(W, begin) = "OpenParen" /\ Word(W, i - 1) = "CloseParen"
Topped(W, H, S, r, i) ==
    LET f == S[Len(S)]
        g == S[Len(S) - 1]
    IN Len(S) > 1 =>
          /\ f.at = "entry" /\ Binding(f.fn) > 0 => i = Start(g)
          /\ Passes(f.fn, f.at) =>
                f.op = Start(g) \/ (f.at # "parenthesis" /\ r # Null /\ Tight(W, H, f, r))
          /\ r # Null => Tight(W, H, f, r) \/ InParens(W, Start(f), i)

Precedence == /\ Graded(tokens, heap) /\ Bound(tokens, heap)
              /\ Framed(tokens, heap, stack) /\ Topped(tokens, heap, stack, result, index)
Descent == Shallow(stack, index)

(* How a step changes the stack.                                           *)
Called(S, U, n, fn, at, i) ==
    /\ Len(U) = Len(S) + 1 /\ \A k \in 1 .. Len(S) - 1 : U[k] = S[k]
    /\ U[Len(S)].fn = S[Len(S)].fn /\ U[Len(S)].at = at
    /\ U[Len(S)].node = n /\ U[Len(S)].op = i
    /\ U[Len(S) + 1].fn = fn /\ U[Len(S) + 1].at = "entry"
Popped(S, U) == Len(U) = Len(S) - 1 /\ \A k \in 1 .. Len(S) - 1 : U[k] = S[k]
Turned(S, U, fn, at) == /\ Len(U) = Len(S) /\ \A k \in 1 .. Len(S) - 1 : U[k] = S[k]
                        /\ U[Len(S)].fn = fn /\ U[Len(S)].at = at
                        /\ U[Len(S)].op = S[Len(S)].op

LEMMA CallChanges ==
    ASSUME Running, NEW n \in Nat, NEW fn \in Functions, NEW at \in Points, Call(n, fn, at)
    PROVE  Called(stack, stack', n, fn, at, index)
<1> DEFINE f == [top EXCEPT !.at = at, !.node = n, !.op = index]
           g == [fn |-> fn, at |-> "entry", node |-> Null, op |-> 0]
<1>1. /\ stack \in Seq(Frame) /\ Len(stack) >= 1 /\ top \in Frame /\ index \in Nat
      /\ top = stack[Len(stack)]
  BY RunningFacts DEF top
<1>2. f \in Frame /\ f.fn = top.fn /\ f.at = at /\ f.node = n /\ f.op = index
  BY <1>1 DEF Frame
<1>3. g \in Frame /\ g.fn = fn /\ g.at = "entry"
  BY DEF Frame, Points, Null
<1>4. stack' = WithCallee(stack, f, g)
  BY DEF Call, Outer, WithCallee
<1> HIDE DEF f, g
<1>5. /\ Len(stack') = Len(stack) + 1 /\ stack'[Len(stack)] = f /\ stack'[Len(stack) + 1] = g
      /\ \A k \in 1 .. Len(stack) - 1 : stack'[k] = stack[k]
  <2>1. stack \in Seq(Frame) /\ Len(stack) >= 1 /\ f \in Frame /\ g \in Frame
    BY <1>1, <1>2, <1>3
  <2>2. /\ Len(WithCallee(stack, f, g)) = Len(stack) + 1
        /\ WithCallee(stack, f, g)[Len(stack)] = f /\ WithCallee(stack, f, g)[Len(stack) + 1] = g
        /\ \A k \in 1 .. Len(stack) - 1 : WithCallee(stack, f, g)[k] = stack[k]
    BY <2>1, OneFrameMore
  <2> QED BY <2>2, <1>4
<1> QED BY <1>1, <1>2, <1>3, <1>5 DEF Called

LEMMA ReturnChanges ==
    ASSUME Running, stack' = Outer
    PROVE  Popped(stack, stack')
BY RunningFacts, OuterFrames DEF Popped, Outer

LEMMA AgainChanges ==
    ASSUME Running, NEW n, NEW at \in Points, Again(n, at)
    PROVE  Turned(stack, stack', top.fn, at)
<1> DEFINE f == [top EXCEPT !.at = at, !.node = Null]
<1>1. stack \in Seq(Frame) /\ Len(stack) >= 1 /\ top \in Frame /\ top = stack[Len(stack)]
  BY RunningFacts DEF top
<1>2. f \in Frame /\ f.fn = top.fn /\ f.at = at /\ f.op = top.op
  BY <1>1 DEF Frame, Null
<1>3. stack' = WithTop(stack, f)
  BY DEF Again, Outer, WithTop
<1> HIDE DEF f
<1> QED BY <1>1, <1>2, <1>3, OneFrameReplaced DEF Turned

LEMMA BecomeChanges ==
    ASSUME Running, NEW fn \in Functions, Become(fn)
    PROVE  Turned(stack, stack', fn, top.at)
<1> DEFINE f == [top EXCEPT !.fn = fn]
<1>1. stack \in Seq(Frame) /\ Len(stack) >= 1 /\ top \in Frame /\ top = stack[Len(stack)]
  BY RunningFacts DEF top
<1>2. f \in Frame /\ f.fn = fn /\ f.at = top.at /\ f.op = top.op
  BY <1>1 DEF Frame
<1>3. stack' = WithTop(stack, f)
  BY DEF Become, Outer, WithTop
<1> HIDE DEF f
<1> QED BY <1>1, <1>2, <1>3, OneFrameReplaced DEF Turned

-----------------------------------------------------------------------------
(* How deep the calls go.                                                  *)

LEMMA LeftFacts ==
    /\ \A fn, at : Left(fn, at) \in 0 .. 10
    /\ \A fn : Left(fn, "entry") = Ahead(fn)
    /\ \A fn, at : Left(fn, at) = IF at # "entry" /\ fn \in Waiters THEN 10 ELSE Ahead(fn)
BY DEF Left, Ahead

LEMMA ShallowCall ==
    ASSUME NEW S, NEW U, NEW n, NEW fn, NEW at, NEW i \in Nat, NEW j \in Nat, i <= j,
           Len(S) \in Nat, Len(S) >= 1, Shallow(S, i), Called(S, U, n, fn, at, i),
           Affords(S[Len(S)], i, fn, at, j)
    PROVE  Shallow(U, j)
<1>1. \A f, a : Left(f, a) \in Nat
  BY LeftFacts
<1>2. Len(S) + Left(S[Len(S)].fn, S[Len(S)].at) <= 2 + 9 * i
  BY DEF Shallow
<1>3. ASSUME NEW k \in 1 .. Len(U) PROVE k + Left(U[k].fn, U[k].at) <= 2 + 9 * j
  <2>1. CASE k \in 1 .. Len(S) - 1
    <3>1. k \in 1 .. Len(S) /\ U[k] = S[k]
      BY <2>1 DEF Called
    <3>2. k + Left(S[k].fn, S[k].at) <= 2 + 9 * i
      BY <3>1 DEF Shallow
    <3> QED BY <3>1, <3>2, <1>1
  <2>2. CASE k = Len(S)
    <3>1. Left(U[k].fn, U[k].at) <= Left(S[k].fn, S[k].at) + 9 * (j - i)
      BY <2>2 DEF Called, Affords
    <3> QED BY <2>2, <3>1, <1>1, <1>2
  <2>3. CASE k = Len(S) + 1
    <3>1. Left(U[k].fn, U[k].at) + 1 <= Left(S[Len(S)].fn, S[Len(S)].at) + 9 * (j - i)
      BY <2>3 DEF Called, Affords
    <3> QED BY <2>3, <3>1, <1>1, <1>2
  <2> QED BY <2>1, <2>2, <2>3 DEF Called
<1> QED BY <1>3 DEF Shallow

LEMMA ShallowReturn ==
    ASSUME NEW S, NEW U, NEW i \in Nat, NEW j \in Nat, i <= j, Len(S) \in Nat, Len(S) >= 1,
           Shallow(S, i), Popped(S, U)
    PROVE  Shallow(U, j)
<1>1. \A f, a : Left(f, a) \in Nat
  BY LeftFacts
<1>2. ASSUME NEW k \in 1 .. Len(U) PROVE k + Left(U[k].fn, U[k].at) <= 2 + 9 * j
  <2>1. k \in 1 .. Len(S) /\ U[k] = S[k]
    BY DEF Popped
  <2>2. k + Left(S[k].fn, S[k].at) <= 2 + 9 * i
    BY <2>1 DEF Shallow
  <2> QED BY <2>1, <2>2, <1>1
<1> QED BY <1>2 DEF Shallow

LEMMA ShallowTurn ==
    ASSUME NEW S, NEW U, NEW fn, NEW at, NEW i \in Nat, NEW j \in Nat, i <= j,
           Len(S) \in Nat, Len(S) >= 1, Shallow(S, i), Turned(S, U, fn, at),
           Left(fn, at) <= Left(S[Len(S)].fn, S[Len(S)].at)
    PROVE  Shallow(U, j)
<1>1. \A f, a : Left(f, a) \in Nat
  BY LeftFacts
<1>2. ASSUME NEW k \in 1 .. Len(U) PROVE k + Left(U[k].fn, U[k].at) <= 2 + 9 * j
  <2>0. k \in 1 .. Len(S)
    BY DEF Turned
  <2>1. k + Left(S[k].fn, S[k].at) <= 2 + 9 * i
    BY <2>0 DEF Shallow
  <2>2. Left(U[k].fn, U[k].at) <= Left(S[k].fn, S[k].at)
    <3>1. CASE k \in 1 .. Len(S) - 1
      BY <3>1, <1>1 DEF Turned
    <3>2. CASE k = Len(S)
      BY <3>2 DEF Turned
    <3> QED BY <2>0, <3>1, <3>2
  <2> QED BY <2>1, <2>2, <1>1, <2>0
<1> QED BY <1>2 DEF Shallow

-----------------------------------------------------------------------------
(* What the tables of the operators say.                                   *)

LEMMA BindingFacts ==
    /\ \A fn : Binding(fn) \in 0 .. 8
    /\ \A fn, at : Asks(fn, at) \in 0 .. 8
    /\ \A fn \in DOMAIN Tighter : \A at :
          /\ Asks(fn, at) = IF at = "right" THEN Binding(fn) + 1 ELSE Binding(fn)
          /\ Binding(fn) \in 1 .. 6 /\ Binding(Tighter[fn]) = Binding(fn) + 1
          /\ fn \notin {"unary", "call", "assignment", "director", "primary"}
          /\ fn \in Functions /\ Tighter[fn] \in Functions /\ Left(fn, at) = Left(fn, "entry")
          /\ Left(Tighter[fn], "entry") + 1 <= Left(fn, at)
BY DEF Binding, Asks, Tighter, Functions, Left, Ahead, Waiters

LEMMA GradeFacts ==
    /\ \A kind, word : kind \notin Operating => GradeOf(kind, word) = 8
    /\ \A word : GradeOf("AST_EXPR_UNARY", word) = 7 /\ GradeOf("AST_EXPR_ASSIGN", word) = 0
    /\ \A l \in DOMAIN Levels : \A word \in Levels[l] : GradeOf("AST_EXPR_BINARY", word) = l
<1>1. ASSUME NEW l \in DOMAIN Levels, NEW word \in Levels[l]
      PROVE  GradeOf("AST_EXPR_BINARY", word) = l
  <2>1. \A k \in DOMAIN Levels : word \in Levels[k] => k = l
    BY DEF Levels
  <2>2. (CHOOSE k \in DOMAIN Levels : word \in Levels[k]) = l
    <3> HIDE DEF Levels
    <3> QED BY <2>1
  <2> QED BY <2>2 DEF GradeOf
<1> QED BY <1>1 DEF GradeOf, Operating

LEMMA OperatorFacts ==
    ASSUME NEW level \in DOMAIN Tighter, NEW word \in Operators[level]
    PROVE  /\ Binding(level) \in DOMAIN Levels /\ word \in Levels[Binding(level)]
           /\ GradeOf("AST_EXPR_BINARY", word) = Binding(level)
<1>1. Binding(level) \in DOMAIN Levels /\ word \in Levels[Binding(level)]
  BY DEF Tighter, Operators, Levels, Binding
<1> QED BY <1>1, GradeFacts

LEMMA LevelsCount == DOMAIN Levels = 1 .. 6
BY DEF Levels

LEMMA GradeCounts ==
    ASSUME NEW W, NEW H, Graded(W, H), NEW n \in 1 .. Len(H)
    PROVE  Grade(W, H, n) \in 0 .. 8
<1>1. CASE H[n].kind = "AST_EXPR_BINARY"
  <2>1. PICK l \in DOMAIN Levels : Word(W, H[n].token) \in Levels[l]
    BY <1>1 DEF Graded
  <2>2. Grade(W, H, n) = l
    BY <1>1, <2>1, GradeFacts DEF Grade
  <2> QED BY <2>1, <2>2, LevelsCount
<1>2. CASE H[n].kind # "AST_EXPR_BINARY"
  BY <1>2, GradeFacts DEF Grade, Operating
<1> QED BY <1>1, <1>2

-----------------------------------------------------------------------------
(* What was built stays as it is.                                          *)

Stays(H, G) ==
    /\ Len(H) <= Len(G)
    /\ \A n \in 1 .. Len(H) : /\ G[n].kind = H[n].kind /\ G[n].token = H[n].token
                              /\ G[n].kind \in Operating => G[n].kids = H[n].kids
InHeap(H) == /\ Len(H) \in Nat
             /\ \A n \in 1 .. Len(H) : H[n].kids \subseteq Members(H[n].kind) \X (1 .. Len(H))

LEMMA GradesStay ==
    ASSUME NEW W, NEW H, NEW G, Stays(H, G), NEW n \in 1 .. Len(H)
    PROVE  Grade(W, G, n) = Grade(W, H, n)
BY DEF Stays, Grade

LEMMA BoundStays ==
    ASSUME NEW W, NEW H, NEW G, InHeap(H), InHeap(G), Stays(H, G), Graded(W, H), Bound(W, H),
           \A n \in Len(H) + 1 .. Len(G) : G[n].kind \in Operating =>
               /\ \A kid \in G[n].kids : BindsIn(W, G, n, kid)
               /\ G[n].kind = "AST_EXPR_BINARY" =>
                      \E l \in DOMAIN Levels : Word(W, G[n].token) \in Levels[l]
    PROVE  Graded(W, G) /\ Bound(W, G)
<1>1. /\ Len(H) \in Nat /\ Len(G) \in Nat
      /\ \A n \in 1 .. Len(G) : n \in 1 .. Len(H) \/ n \in Len(H) + 1 .. Len(G)
  BY DEF InHeap, Stays
<1>2. Graded(W, G)
  <2>1. ASSUME NEW n \in 1 .. Len(G), G[n].kind = "AST_EXPR_BINARY"
        PROVE  \E l \in DOMAIN Levels : Word(W, G[n].token) \in Levels[l]
    <3>1. CASE n \in 1 .. Len(H)
      BY <2>1, <3>1 DEF Stays, Graded
    <3>2. CASE n \in Len(H) + 1 .. Len(G)
      BY <2>1, <3>2 DEF Operating
    <3> QED BY <3>1, <3>2, <1>1
  <2> QED BY <2>1 DEF Graded
<1>3. ASSUME NEW n \in 1 .. Len(G), NEW kid \in G[n].kids PROVE BindsIn(W, G, n, kid)
  <2>1. CASE G[n].kind \notin Operating
    <3>1. kid[1] \in Members(G[n].kind)
      BY DEF InHeap
    <3>2. kid[1] \notin {"left", "right", "operand", "target"}
      BY <2>1, <3>1 DEF Members, In, AstProgram, AstDecl, AstStmt, AstExpr, AstType, Operating
    <3> QED BY <3>2 DEF BindsIn
  <2>2. CASE G[n].kind \in Operating /\ n \in 1 .. Len(H)
    <3>1. /\ kid \in H[n].kids /\ kid[2] \in 1 .. Len(H) /\ G[n].token = H[n].token
          /\ BindsIn(W, H, n, kid)
      BY <2>2 DEF Stays, InHeap, Bound
    <3>2. Grade(W, G, n) = Grade(W, H, n) /\ Grade(W, G, kid[2]) = Grade(W, H, kid[2])
      BY <2>2, <3>1, GradesStay
    <3> QED BY <3>1, <3>2 DEF BindsIn
  <2>3. CASE G[n].kind \in Operating /\ n \in Len(H) + 1 .. Len(G)
    BY <2>3
  <2> QED BY <2>1, <2>2, <2>3, <1>1
<1> QED BY <1>2, <1>3 DEF Bound

(* A node that is not an operator needs nothing.                           *)
LEMMA BoundGrows ==
    ASSUME NEW W, NEW H, NEW G, InHeap(H), InHeap(G), Stays(H, G), Graded(W, H), Bound(W, H),
           \A n \in Len(H) + 1 .. Len(G) : G[n].kind \notin Operating
    PROVE  Graded(W, G) /\ Bound(W, G)
BY BoundStays

-----------------------------------------------------------------------------
(* The frames.                                                             *)

Holds(H, S) == \A k \in 1 .. Len(S) : /\ S[k].at \in {"right", "value"} => S[k].node \in 1 .. Len(H)
                                      /\ k < Len(S) => S[k].at # "entry"

LEMMA KnowsStays ==
    ASSUME NEW W, NEW H, NEW G, NEW f, Stays(H, G), Knows(W, H, f),
           f.at \in {"right", "value"} => f.node \in 1 .. Len(H)
    PROVE  Knows(W, G, f)
<1>1. f.at \in {"right", "value"} => Grade(W, G, f.node) = Grade(W, H, f.node)
  BY GradesStay
<1> QED BY <1>1 DEF Knows

LEMMA CallFramed ==
    ASSUME NEW W, NEW H, NEW G, NEW S, NEW U, NEW r, NEW n, NEW fn, NEW at, NEW i, NEW j,
           Len(S) \in Nat, Len(S) >= 1, Stays(H, G), Holds(H, S),
           Framed(W, H, S), Topped(W, H, S, r, i), Called(S, U, n, fn, at, i),
           Knows(W, G, U[Len(S)]),
           Binding(fn) >= Asks(S[Len(S)].fn, at),
           Len(S) > 1 /\ Passes(S[Len(S)].fn, at) => i = Start(S[Len(S) - 1]),
           Binding(fn) > 0 => j = Start(U[Len(S)])
    PROVE  Framed(W, G, U) /\ Topped(W, G, U, Null, j)
<1>1. ASSUME NEW k \in 1 .. Len(U)
      PROVE  /\ Knows(W, G, U[k])
             /\ k > 1 => Binding(U[k].fn) >= Asks(U[k - 1].fn, U[k - 1].at)
             /\ 1 < k /\ k < Len(U) /\ Passes(U[k].fn, U[k].at) => U[k].op = Start(U[k - 1])
  <2>1. CASE k \in 1 .. Len(S) - 1
    <3>1. /\ k \in 1 .. Len(S) /\ k < Len(S) /\ U[k] = S[k]
          /\ k > 1 => k - 1 \in 1 .. Len(S) - 1 /\ U[k - 1] = S[k - 1]
      BY <2>1 DEF Called
    <3>2. Knows(W, G, S[k])
      BY <3>1, KnowsStays DEF Framed, Holds
    <3> QED BY <3>1, <3>2 DEF Framed
  <2>2. CASE k = Len(S)
    <3>1. /\ U[k].fn = S[k].fn /\ U[k].at = at /\ U[k].op = i /\ k \in 1 .. Len(S)
          /\ k > 1 => k - 1 \in 1 .. Len(S) - 1 /\ U[k - 1] = S[k - 1]
      BY <2>2 DEF Called
    <3>2. k > 1 => Binding(S[k].fn) >= Asks(S[k - 1].fn, S[k - 1].at)
      BY <3>1 DEF Framed
    <3> QED BY <2>2, <3>1, <3>2
  <2>3. CASE k = Len(S) + 1
    <3>1. /\ U[k].fn = fn /\ U[k].at = "entry" /\ k - 1 = Len(S) /\ ~(k < Len(U))
          /\ U[k - 1].fn = S[Len(S)].fn /\ U[k - 1].at = at
      BY <2>3 DEF Called
    <3> QED BY <3>1 DEF Knows
  <2> QED BY <2>1, <2>2, <2>3 DEF Called
<1>2. Topped(W, G, U, Null, j)
  <2>1. /\ Len(U) = Len(S) + 1 /\ Len(U) - 1 = Len(S)
        /\ U[Len(S) + 1].fn = fn /\ U[Len(S) + 1].at = "entry"
    BY DEF Called
  <2>2. ~Passes(fn, "entry")
    BY DEF Passes
  <2> QED BY <2>1, <2>2 DEF Topped
<1> QED BY <1>1, <1>2 DEF Framed

(* The caller gets q, or null.                                             *)
LEMMA ReturnFramed ==
    ASSUME NEW W, NEW H, NEW G, NEW S, NEW U, NEW r, NEW q, NEW i, NEW j,
           Len(S) \in Nat, Len(S) >= 1, Stays(H, G), Holds(H, S),
           Framed(W, H, S), Topped(W, H, S, r, i), Popped(S, U),
           Len(S) > 1 /\ q # Null => \/ Tight(W, G, S[Len(S) - 1], q)
                                     \/ InParens(W, Start(S[Len(S) - 1]), j)
    PROVE  Framed(W, G, U) /\ Topped(W, G, U, q, j)
<1>1. \A k \in 1 .. Len(U) : k \in 1 .. Len(S) - 1 /\ k \in 1 .. Len(S) /\ k < Len(S) /\ U[k] = S[k]
  BY DEF Popped
<1>2. \A k \in 1 .. Len(U) : k > 1 => k - 1 \in 1 .. Len(U) /\ U[k - 1] = S[k - 1]
  BY <1>1 DEF Popped
<1>3. ASSUME NEW k \in 1 .. Len(U)
      PROVE  /\ Knows(W, G, U[k])
             /\ k > 1 => Binding(U[k].fn) >= Asks(U[k - 1].fn, U[k - 1].at)
             /\ 1 < k /\ Passes(U[k].fn, U[k].at) => U[k].op = Start(U[k - 1])
  <2>1. Knows(W, G, S[k])
    BY <1>1, KnowsStays DEF Framed, Holds
  <2> QED BY <2>1, <1>1, <1>2 DEF Framed
<1>4. Topped(W, G, U, q, j)
  <2>1. CASE Len(U) > 1
    <3>1. /\ Len(U) = Len(S) - 1 /\ Len(U) \in 1 .. Len(U) /\ U[Len(U)] = S[Len(S) - 1]
          /\ Len(S) > 1
      BY <2>1, <1>1 DEF Popped
    <3>2. U[Len(U)].at # "entry"
      BY <3>1, <1>1 DEF Holds
    <3> QED BY <2>1, <3>1, <3>2, <1>3 DEF Topped
  <2>2. CASE ~(Len(U) > 1)
    BY <2>2 DEF Topped
  <2> QED BY <2>1, <2>2
<1> QED BY <1>3, <1>4 DEF Framed

(* The function goes on as fn, with q.                                     *)
LEMMA TurnFramed ==
    ASSUME NEW W, NEW H, NEW G, NEW S, NEW U, NEW r, NEW q, NEW fn, NEW at, NEW i, NEW j,
           Len(S) \in Nat, Len(S) >= 1, Stays(H, G), Holds(H, S),
           Framed(W, H, S), Topped(W, H, S, r, i), Turned(S, U, fn, at),
           at \in {"entry", "operand", "postfix"},
           Binding(fn) >= Binding(S[Len(S)].fn),
           at = "entry" => i = j /\ S[Len(S)].at = "entry" /\ q = Null,
           at = "entry" /\ Binding(fn) > 0 => Binding(S[Len(S)].fn) > 0,
           at # "entry" => q # Null /\ Tight(W, G, U[Len(S)], q)
    PROVE  Framed(W, G, U) /\ Topped(W, G, U, q, j)
<1>1. Len(U) = Len(S) /\ U[Len(S)].fn = fn /\ U[Len(S)].at = at
  BY DEF Turned
<1>2. ASSUME NEW k \in 1 .. Len(U)
      PROVE  /\ Knows(W, G, U[k])
             /\ k > 1 => Binding(U[k].fn) >= Asks(U[k - 1].fn, U[k - 1].at)
             /\ 1 < k /\ k < Len(U) /\ Passes(U[k].fn, U[k].at) => U[k].op = Start(U[k - 1])
  <2>0. k > 1 => k - 1 \in 1 .. Len(S) - 1 /\ U[k - 1] = S[k - 1]
    BY <1>1 DEF Turned
  <2>1. CASE k \in 1 .. Len(S) - 1
    <3>1. k \in 1 .. Len(S) /\ k < Len(S) /\ U[k] = S[k]
      BY <2>1 DEF Turned
    <3>2. Knows(W, G, S[k])
      BY <3>1, KnowsStays DEF Framed, Holds
    <3> QED BY <2>0, <3>1, <3>2 DEF Framed
  <2>2. CASE k = Len(S)
    <3>1. Knows(W, G, U[k])
      BY <2>2, <1>1 DEF Knows
    <3>2. k > 1 => Binding(S[k].fn) >= Asks(S[k - 1].fn, S[k - 1].at)
      BY <2>2, <1>1 DEF Framed
    <3>3. k > 1 => Binding(U[k].fn) >= Asks(U[k - 1].fn, U[k - 1].at)
      <4>1. \A f, a : Binding(f) \in Int /\ Asks(f, a) \in Int
        BY BindingFacts
      <4>2. U[k].fn = fn /\ S[k] = S[Len(S)]
        BY <2>2, <1>1
      <4>3. CASE k > 1
        <5>1. Asks(U[k - 1].fn, U[k - 1].at) = Asks(S[k - 1].fn, S[k - 1].at)
          BY <2>0, <4>3
        <5>2. Binding(S[Len(S)].fn) >= Asks(S[k - 1].fn, S[k - 1].at)
          BY <3>2, <4>2, <4>3
        <5>3. Binding(U[k].fn) = Binding(fn) /\ Binding(fn) >= Binding(S[Len(S)].fn)
          BY <4>2
        <5>4. /\ Binding(fn) \in Int /\ Binding(S[Len(S)].fn) \in Int
              /\ Asks(S[k - 1].fn, S[k - 1].at) \in Int
          BY <4>1
        <5> QED BY <5>1, <5>2, <5>3, <5>4
      <4> QED BY <4>3
    <3> QED BY <2>2, <3>1, <3>3, <1>1
  <2> QED BY <2>1, <2>2, <1>1
<1>3. Topped(W, G, U, q, j)
  <2>1. CASE at = "entry"
    <3>1. ~Passes(fn, "entry")
      BY DEF Passes
    <3>2. Len(S) > 1 => U[Len(S) - 1] = S[Len(S) - 1]
      BY DEF Turned
    <3> QED BY <2>1, <3>1, <3>2, <1>1 DEF Topped
  <2>2. CASE at # "entry"
    BY <2>2, <1>1 DEF Topped
  <2> QED BY <2>1, <2>2
<1> QED BY <1>2, <1>3 DEF Framed

-----------------------------------------------------------------------------
(* The steps of the parse functions.                                       *)

Sound == Running /\ Descent /\ Precedence
Onward == IInv' /\ UNCHANGED file /\ index' \in Nat /\ index <= index'

Descends == Shallow(stack', index')
Parses == /\ Graded(tokens, heap') /\ Bound(tokens, heap')
          /\ Framed(tokens, heap', stack') /\ Topped(tokens, heap', stack', result', index')

(* The nodes that were there stay, and no new one is an operator.          *)
Grows == Stays(heap, heap') /\ \A n \in Len(heap) + 1 .. Len(heap') : heap'[n].kind \notin Operating

LEMMA SoundFacts ==
    ASSUME Sound
    PROVE  /\ InHeap(heap) /\ Holds(heap, stack)
           /\ stack[Len(stack)] = top /\ Len(stack) \in Nat /\ Len(stack) >= 1
           /\ index \in Nat /\ top \in Frame /\ Len(heap) \in Nat /\ Fresh = Len(heap) + 1
           /\ top.node \in Nat /\ result \in Nat /\ Fresh \in Nat /\ Null \in Nat
           /\ Shallow(stack, index) /\ Graded(tokens, heap) /\ Bound(tokens, heap)
           /\ Framed(tokens, heap, stack) /\ Topped(tokens, heap, stack, result, index)
<1>1. InHeap(heap)
  BY RunningFacts DEF Sound, InHeap, HeapOK, Nodes
<1>2. Holds(heap, stack)
  <2>1. Shape(stack, heap, result)
    BY RunningFacts DEF Sound
  <2>2. "right" \notin Bare /\ "value" \notin Bare
    BY DEF Bare
  <2> QED BY <2>1, <2>2 DEF Shape, Fits, Holds
<1>3. /\ Len(stack) \in Nat /\ Len(stack) >= 1 /\ index \in Nat /\ top \in Frame
      /\ Len(heap) \in Nat /\ top.node \in Nodes \cup {Null} /\ result \in Nodes \cup {Null}
  BY RunningFacts DEF Sound
<1>4. top.node \in Nat /\ result \in Nat /\ Fresh \in Nat /\ Null \in Nat
  BY <1>3 DEF Nodes, Null, Fresh
<1> QED BY <1>1, <1>2, <1>3, <1>4 DEF Sound, Descent, Precedence, top, Fresh

LEMMA OnwardFacts ==
    ASSUME Sound, Onward
    PROVE  InHeap(heap') /\ index' \in Nat /\ index <= index' /\ tokens' = tokens
           /\ result' \in 1 .. Len(heap') \cup {Null}
<1>1. TypeOK' /\ file' = file
  BY DEF Onward, IInv
<1>2. /\ heap' \in Seq(Node) /\ result' \in 1 .. Len(heap') \cup {Null}
      /\ \A n \in 1 .. Len(heap') : heap'[n].kids \subseteq Members(heap'[n].kind) \X (1 .. Len(heap'))
  BY <1>1 DEF TypeOK, Nodes
<1> QED BY <1>1, <1>2 DEF InHeap, Onward, tokens

LEMMA WordIsType == \A i : Type(i) = Word(tokens, i)
BY DEF Type, TokenAt, Word

LEMMA KeepGrows == ASSUME Sound, Keep PROVE Grows
<1>1. heap' = heap /\ Len(heap) \in Nat
  BY SoundFacts DEF Keep, memory
<1> QED BY <1>1 DEF Grows, Stays

LEMMA MakeStays ==
    ASSUME Sound, NEW kind \in AstNodeType, NEW i \in Nat, NEW kids, Make(kind, i, kids)
    PROVE  /\ Stays(heap, heap') /\ Len(heap') = Len(heap) + 1
           /\ heap'[Fresh].kind = kind /\ heap'[Fresh].token = i /\ heap'[Fresh].kids = kids
<1> DEFINE new == [kind |-> kind, token |-> i, kids |-> kids]
<1>1. heap \in Seq(Node) /\ Len(heap) \in Nat /\ heap' = Append(heap, new)
  BY RunningFacts DEF Make, Sound, HeapOK
<1>2. new.kind = kind /\ new.token = i /\ new.kids = kids
  OBVIOUS
<1> HIDE DEF new
<1>3. /\ Len(heap') = Len(heap) + 1 /\ heap'[Len(heap) + 1] = new
      /\ \A n \in 1 .. Len(heap) : heap'[n] = heap[n]
  BY <1>1
<1> QED BY <1>1, <1>2, <1>3 DEF Stays, Fresh

LEMMA MakeGrows ==
    ASSUME Sound, NEW kind \in AstNodeType \ Operating, NEW i \in Nat, NEW kids,
           Make(kind, i, kids)
    PROVE  Grows
<1>1. Stays(heap, heap') /\ Len(heap') = Len(heap) + 1 /\ heap'[Fresh].kind = kind
  BY MakeStays
<1>2. \A n \in Len(heap) + 1 .. Len(heap') : n = Fresh
  BY <1>1, SoundFacts
<1> QED BY <1>1, <1>2 DEF Grows

(* Node n, no operator, gets more pointers.                                *)
LEMMA AdoptGrows ==
    ASSUME Sound, NEW n \in 1 .. Len(heap), heap[n].kind \notin Operating, NEW more,
           heap' = [heap EXCEPT ![n].kids = @ \cup more]
    PROVE  Grows
<1>1. heap \in Seq(Node) /\ Len(heap) \in Nat
  BY RunningFacts DEF Sound, HeapOK
<1> DEFINE new == [heap[n] EXCEPT !.kids = @ \cup more]
<1>2. heap[n] \in Node
  BY <1>1
<1>3. new.kind = heap[n].kind /\ new.token = heap[n].token
  BY <1>2 DEF Node
<1>4. heap' = [heap EXCEPT ![n] = new]
  OBVIOUS
<1> HIDE DEF new
<1>5. Len(heap') = Len(heap) /\ \A m \in 1 .. Len(heap) : heap'[m] = IF m = n THEN new ELSE heap[m]
  <2> DEFINE T == Node \cup {new}
  <2>1. heap \in Seq(T) /\ new \in T
    <3>1. \A m \in 1 .. Len(heap) : heap[m] \in T
      BY <1>1
    <3> QED BY <3>1, <1>1
  <2> HIDE DEF T
  <2>2. /\ Len([heap EXCEPT ![n] = new]) = Len(heap)
        /\ \A m \in 1 .. Len(heap) : [heap EXCEPT ![n] = new][m] = IF m = n THEN new ELSE heap[m]
    BY <2>1, <1>1, ExceptSeq
  <2> QED BY <2>2, <1>4
<1> QED BY <1>1, <1>3, <1>5 DEF Grows, Stays

LEMMA MakerOperates == \A fn \in DOMAIN Maker : Maker[fn] \notin Operating
BY DEF Maker, Operating

LEMMA WaiterAdopts ==
    ASSUME Sound, NEW fn \in DOMAIN Maker, NEW at \in Waits, At(fn, at), NEW member, Adopt(member)
    PROVE  Grows
<1>1. top.fn = fn /\ top.at = at
  BY DEF At
<1>2. top.node # Null /\ heap[top.node].kind = Maker[fn]
  BY <1>1, AtWait DEF Sound
<1>3. top.node \in 1 .. Len(heap) /\ heap[top.node].kind \notin Operating
  BY <1>2, MakerOperates, RunningFacts DEF Sound, Nodes
<1> QED BY <1>3, AdoptGrows DEF Adopt

LEMMA DirectorAdopts == ASSUME Sound, AdoptDeclaration PROVE Grows
<1>1. ast \in 1 .. Len(heap) /\ heap[ast].kind \notin Operating
  BY RunningFacts DEF Sound, Nodes, Operating
<1> QED BY <1>1, AdoptGrows DEF AdoptDeclaration

LEMMA GrowthIsBound ==
    ASSUME Sound, Onward, Grows
    PROVE  Graded(tokens, heap') /\ Bound(tokens, heap')
BY SoundFacts, OnwardFacts, BoundGrows DEF Grows

(* The functions whose result is no expression, or is looked at by none.   *)
Ordinary == {"director", "import", "function", "parameter", "field", "member", "variable",
             "struct", "enum", "statement", "block", "if", "while", "for", "return", "type"}
Elsewhere == Points \ {"entry", "right", "postfix", "parenthesis"}

LEMMA OrdinaryFacts ==
    \A fn \in Ordinary : \A at : /\ fn \in Functions /\ fn \notin DOMAIN Tighter /\ fn # "unary"
                                 /\ fn # "assignment"
                                 /\ Binding(fn) = 0 /\ Asks(fn, at) = 0
BY DEF Ordinary, Functions, Tighter, Binding, Asks

LEMMA FailParses ==
    ASSUME Sound, Onward, Grows, stack' = Outer, result' = Null
    PROVE  Descends /\ Parses
<1>1. Popped(stack, stack')
  BY ReturnChanges DEF Sound
<1>2. Descends
  BY <1>1, SoundFacts, OnwardFacts, ShallowReturn DEF Descends
<1>3. Framed(tokens, heap', stack') /\ Topped(tokens, heap', stack', result', index')
  BY <1>1, SoundFacts, ReturnFramed DEF Grows
<1> QED BY <1>2, <1>3, GrowthIsBound DEF Parses

(* What it returns is as tight as it must be, or in parentheses.           *)
Offers(n) == \/ Grade(tokens, heap', n) >= Binding(top.fn)
             \/ InParens(tokens, Start(stack[Len(stack) - 1]), index')
LEMMA ReturnFrames ==
    ASSUME Sound, Onward, Stays(heap, heap'), NEW n, Return(n),
           n # Null /\ Len(stack) > 1 => Offers(n),
           n # Null => Grade(tokens, heap', n) \in Nat
    PROVE  /\ Descends
           /\ Framed(tokens, heap', stack') /\ Topped(tokens, heap', stack', result', index')
<1>1. stack' = Outer /\ result' = n
  BY DEF Return
<1>2. Popped(stack, stack')
  BY <1>1, ReturnChanges DEF Sound
<1>3. Descends
  BY <1>2, SoundFacts, OnwardFacts, ShallowReturn DEF Descends
<1>4. ASSUME Len(stack) > 1, n # Null
      PROVE  \/ Tight(tokens, heap', stack[Len(stack) - 1], n)
             \/ InParens(tokens, Start(stack[Len(stack) - 1]), index')
  <2> DEFINE g == stack[Len(stack) - 1]
  <2>1. /\ Binding(top.fn) >= Asks(g.fn, g.at) /\ Binding(top.fn) \in Int
        /\ Asks(g.fn, g.at) \in Int
    <3>1. Len(stack) \in 1 .. Len(stack) /\ stack[Len(stack)] = top
      BY SoundFacts
    <3>2. Binding(top.fn) >= Asks(g.fn, g.at)
      BY <1>4, <3>1, SoundFacts DEF Framed
    <3> QED BY <3>2, BindingFacts
  <2> HIDE DEF g
  <2>2. Grade(tokens, heap', n) >= Binding(top.fn) => Grade(tokens, heap', n) >= Asks(g.fn, g.at)
    BY <2>1, <1>4
  <2> QED BY <2>2, <1>4 DEF Offers, Tight, g
<1>5. Framed(tokens, heap', stack') /\ Topped(tokens, heap', stack', result', index')
  BY <1>1, <1>2, <1>4, SoundFacts, ReturnFramed
<1> QED BY <1>3, <1>5

LEMMA OrdinaryReturns ==
    ASSUME Sound, Onward, Grows, top.fn \in Ordinary, NEW n, Return(n)
    PROVE  Descends /\ Parses
<1>1. Graded(tokens, heap') /\ Bound(tokens, heap')
  BY GrowthIsBound
<1>2. n \in 1 .. Len(heap') \cup {Null}
  BY OnwardFacts DEF Return
<1>3. n # Null => Grade(tokens, heap', n) \in Nat
  BY <1>1, <1>2, GradeCounts
<1>4. n # Null => Offers(n)
  BY <1>3, OrdinaryFacts DEF Offers
<1> QED BY <1>1, <1>3, <1>4, ReturnFrames DEF Parses, Grows

LEMMA OrdinaryCalls ==
    ASSUME Sound, Onward, Grows, top.fn \in Ordinary, NEW n \in Nat,
           NEW fn \in Ordinary \cup {Expression}, NEW at \in Elsewhere, Call(n, fn, at),
           Affords(top, index, fn, at, index')
    PROVE  Descends /\ Parses
<1>1. /\ fn \in Functions /\ at \in Points /\ Binding(fn) = 0 /\ Asks(top.fn, at) = 0
      /\ ~Passes(top.fn, at) /\ top.fn # "assignment"
  BY OrdinaryFacts DEF Expression, Elsewhere, Functions, Binding, Passes
<1>2. Called(stack, stack', n, fn, at, index) /\ result' = Null
  BY <1>1, CallChanges DEF Sound, Call
<1>3. Descends
  BY <1>2, SoundFacts, OnwardFacts, ShallowCall DEF Descends
<1>4. Knows(tokens, heap', stack'[Len(stack)])
  BY <1>1, <1>2, SoundFacts DEF Knows, Called, Elsewhere
<1>5. /\ Framed(tokens, heap', stack')
      /\ Topped(tokens, heap', stack', Null, index')
  <2>1. Stays(heap, heap')
    BY DEF Grows
  <2>2. /\ Binding(fn) >= Asks(stack[Len(stack)].fn, at) /\ ~(Binding(fn) > 0)
        /\ ~Passes(stack[Len(stack)].fn, at)
    BY <1>1, SoundFacts
  <2> QED BY <1>2, <1>4, <2>1, <2>2, SoundFacts, CallFramed
<1> QED BY <1>2, <1>3, <1>5, GrowthIsBound DEF Parses

LEMMA OrdinaryBecomes ==
    ASSUME Sound, Onward, Grows, top.at = "entry", NEW fn \in Functions, Become(fn),
           Binding(fn) >= Binding(top.fn), Binding(fn) > 0 => Binding(top.fn) > 0,
           Left(fn, "entry") <= Left(top.fn, "entry"), index' = index
    PROVE  Descends /\ Parses
<1>1. Turned(stack, stack', fn, "entry") /\ result' = Null
  BY AtEntry, BecomeChanges DEF Become, Sound
<1>2. Descends
  BY <1>1, SoundFacts, OnwardFacts, ShallowTurn DEF Descends
<1>3. Framed(tokens, heap', stack') /\ Topped(tokens, heap', stack', result', index')
  BY <1>1, SoundFacts, TurnFramed DEF Grows
<1> QED BY <1>2, <1>3, GrowthIsBound DEF Parses

LEMMA StopParses ==
    ASSUME Sound, Onward, Grows, stack' = <<>>
    PROVE  Descends /\ Parses
<1>1. Len(stack') = 0
  OBVIOUS
<1>2. Descends /\ Framed(tokens, heap', stack') /\ Topped(tokens, heap', stack', result', index')
  BY <1>1 DEF Descends, Shallow, Framed, Topped
<1> QED BY <1>2, GrowthIsBound DEF Parses

(* Can every call be afforded once the tokens in front of i are read?      *)
Rich(i) == \A fn \in Functions, at \in Elsewhere, j \in Nat :
               i <= j => Affords(top, index, fn, at, j)

LEMMA AffordFacts ==
    ASSUME Sound
    PROVE  /\ top.at # "entry" /\ top.fn \in Waiters => Rich(index)
           /\ Left(top.fn, top.at) >= 9 => Rich(index + 1)
           /\ Rich(index + 2)
           /\ \A i, j \in Nat : Rich(i) /\ i <= j => Rich(j)
           /\ \A fn \in {"assignment", "type"}, at \in Elsewhere, j \in Nat :
                 top.fn \in {"variable", "type"} /\ index < j => Affords(top, index, fn, at, j)
           /\ \A fn \in {"assignment", "variable"}, at \in Elsewhere, j \in Nat :
                 top.fn = "statement" /\ index <= j => Affords(top, index, fn, at, j)
           /\ \A fn \in {"import", "function", "variable", "struct", "enum"}, at \in Elsewhere,
                 j \in Nat :
                 top.fn = "director" /\ index <= j => Affords(top, index, fn, at, j)
<1>1. /\ index \in Nat /\ \A fn, at : Left(fn, at) \in Nat /\ Left(fn, at) <= 10
      /\ \A fn : Left(fn, "entry") <= 9
  <2>1. \A fn : Ahead(fn) <= 9
    BY DEF Ahead
  <2>2. \A fn, at : Left(fn, at) \in Nat /\ Left(fn, at) <= 10
    BY LeftFacts
  <2>3. \A fn : Left(fn, "entry") = Ahead(fn)
    BY LeftFacts
  <2>4. index \in Nat
    BY SoundFacts
  <2> QED BY <2>1, <2>2, <2>3, <2>4
<1>2. ASSUME top.at # "entry", top.fn \in Waiters PROVE Rich(index)
  <2>1. \A at \in Elsewhere : at # "entry"
    BY DEF Elsewhere
  <2>2. Left(top.fn, top.at) = 10
    BY <1>2, LeftFacts
  <2> QED BY <1>1, <2>1, <2>2 DEF Rich, Affords
<1>3. ASSUME Left(top.fn, top.at) >= 9 PROVE Rich(index + 1)
  BY <1>1, <1>3 DEF Rich, Affords
<1>4. Rich(index + 2)
  BY <1>1 DEF Rich, Affords
<1>5. \A i, j \in Nat : Rich(i) /\ i <= j => Rich(j)
  BY DEF Rich
<1>6. /\ \A at : Left("variable", at) = 0 /\ Left("type", at) = 0 /\ Left("statement", at) = 9
              /\ Left("director", at) = 1
      /\ Left("assignment", "entry") = 8
      /\ \A fn \in {"import", "function", "variable", "struct", "enum"} : Left(fn, "entry") = 0
  BY DEF Left, Ahead, Waiters
<1>7. ASSUME NEW fn \in {"assignment", "type"}, NEW at \in Elsewhere, NEW j \in Nat,
             top.fn \in {"variable", "type"}, index < j
      PROVE  Affords(top, index, fn, at, j)
  BY <1>1, <1>6, <1>7 DEF Affords
<1>8. ASSUME NEW fn \in {"assignment", "variable"}, NEW at \in Elsewhere, NEW j \in Nat,
             top.fn = "statement", index <= j
      PROVE  Affords(top, index, fn, at, j)
  BY <1>1, <1>6, <1>8 DEF Affords
<1>9. ASSUME NEW fn \in {"import", "function", "variable", "struct", "enum"}, NEW at \in Elsewhere,
             NEW j \in Nat, top.fn = "director", index <= j
      PROVE  Affords(top, index, fn, at, j)
  BY <1>1, <1>6, <1>9 DEF Affords
<1> QED BY <1>2, <1>3, <1>4, <1>5, <1>7, <1>8, <1>9

LEMMA Going ==
    ASSUME Sound, NEW i \in Reach, GoTo(i)
    PROVE  index' = i /\ i \in Nat /\ index <= i
<1>1. i \in Nat /\ i <= EndOf /\ EndOf \in Nat /\ EndOf <= Len(tokens) /\ Len(tokens) \in Nat
      /\ index <= i
  BY Reaching, EndFacts DEF Reach, Sound, Running, IInv
<1> QED BY <1>1 DEF GoTo

LEMMA RichCalls ==
    ASSUME Sound, Onward, Grows, top.fn \in Ordinary, NEW n \in Nat, NEW i \in Nat,
           i <= index', Rich(i),
           NEW fn \in Ordinary \cup {Expression}, NEW at \in Elsewhere, Call(n, fn, at)
    PROVE  Descends /\ Parses
<1>1. fn \in Functions
  BY OrdinaryFacts DEF Expression, Functions
<1>2. Affords(top, index, fn, at, index')
  BY <1>1, OnwardFacts DEF Rich
<1> QED BY <1>2, OrdinaryCalls

LEMMA ElsewhereFacts ==
    /\ "parameters" \in Elsewhere /\ "return_type" \in Elsewhere /\ "body" \in Elsewhere
    /\ "type" \in Elsewhere /\ "initializer" \in Elsewhere /\ "fields" \in Elsewhere
    /\ "members" \in Elsewhere /\ "statements" \in Elsewhere /\ "condition_in_parens" \in Elsewhere
    /\ "condition" \in Elsewhere /\ "then_stmt" \in Elsewhere /\ "else_stmt" \in Elsewhere
    /\ "range" \in Elsewhere /\ "init" \in Elsewhere /\ "update" \in Elsewhere
    /\ "value" \in Elsewhere /\ "size" \in Elsewhere /\ "element_type" \in Elsewhere
    /\ "declared" \in Elsewhere /\ "declaration" \in Elsewhere /\ "expression" \in Elsewhere
    /\ "arguments" \in Elsewhere /\ "target" \in Elsewhere /\ "operand" \in Elsewhere
BY DEF Elsewhere, Points

LEMMA CompletesParses ==
    ASSUME Sound, Onward, NEW fn \in Ordinary \cap DOMAIN Maker, NEW at \in Waits, NEW member,
           Completes(fn, at, member)
    PROVE  Descends /\ Parses
<1>1. At(fn, at) /\ Adopt(member) /\ Return(top.node) /\ top.fn = fn
  BY DEF Completes, At
<1>2. Grows
  BY <1>1, WaiterAdopts
<1> QED BY <1>1, <1>2, OrdinaryReturns

LEMMA ItemsParse ==
    ASSUME Sound, Onward, Grows, top.fn \in Ordinary, NEW n \in Nat, NEW i \in Reach, Rich(i),
           NEW item \in Ordinary, NEW at \in Elsewhere, Items(n, i, item, at)
    PROVE  Descends /\ Parses
<1>1. CASE Return(n)
  BY <1>1, OrdinaryReturns
<1>2. CASE Fail(n)
  BY <1>2, FailParses DEF Fail
<1>3. CASE /\ \E j \in 0 .. Len(tokens) : skip_terminators(i, j) /\ GoTo(j)
           /\ Call(n, item, at)
  <2>1. PICK j \in 0 .. Len(tokens) : skip_terminators(i, j) /\ GoTo(j)
    BY <1>3
  <2>2. index' = j /\ i <= j /\ i \in Nat
    BY <2>1, SkipReaches, Reaching, Going DEF skip_terminators, Sound
  <2> QED BY <1>3, <2>2, RichCalls
<1> QED BY <1>1, <1>2, <1>3 DEF Items

LEMMA ClosedParses ==
    ASSUME Sound, Onward, Grows, top.fn \in Ordinary, Rich(index), NEW at \in Elsewhere, Closed(at)
    PROVE  Descends /\ Parses
<1>1. CASE Call(top.node, "statement", at)
  BY <1>1, SoundFacts, OnwardFacts, RichCalls DEF Ordinary
<1>2. CASE Fail(top.node)
  BY <1>2, FailParses DEF Fail
<1> QED BY <1>1, <1>2 DEF Closed

LEMMA ElementTypeParses ==
    ASSUME Sound, Onward, Grows, top.fn = "type", NEW n \in Nat, NEW i \in Reach,
           ElementType(n, i)
    PROVE  Descends /\ Parses
<1>1. CASE Type(i) = "CloseSQRBrackets" /\ GoTo(i + 1) /\ Call(n, "type", "element_type")
  <2>1. Type(i) # "EOT"
    BY <1>1
  <2>2. i + 1 \in Reach /\ i \in Nat /\ index <= i /\ index \in Nat
    BY <2>1, Reaching DEF Reach, Sound
  <2>3. index' = i + 1 /\ index < index'
    BY <1>1, <2>2, Going
  <2>4. Affords(top, index, "type", "element_type", index')
    BY <2>3, AffordFacts, OnwardFacts, ElsewhereFacts
  <2> QED BY <1>1, <2>4, ElsewhereFacts, OrdinaryCalls DEF Ordinary
<1>2. CASE Fail(n)
  BY <1>2, FailParses DEF Fail
<1> QED BY <1>1, <1>2 DEF ElementType

LEMMA SignatureParses ==
    ASSUME Sound, Onward, Grows, top.fn = "function", NEW n \in Nat, NEW i \in Reach, Rich(i),
           Signature(n, i)
    PROVE  Descends /\ Parses
<1>1. CASE Fail(n)
  BY <1>1, FailParses DEF Fail
<1>2. CASE /\ Type(i) = "CloseParen" /\ GoTo(i + 1)
           /\ Call(n, "block", "body") \/ Call(n, "type", "return_type")
  <2>1. Type(i) # "EOT"
    BY <1>2
  <2>2. i + 1 \in Reach /\ i \in Nat
    BY <2>1, Reaching DEF Reach, Sound
  <2>3. index' = i + 1 /\ i <= index'
    BY <1>2, <2>2, Going
  <2> QED BY <1>2, <2>2, <2>3, ElsewhereFacts, RichCalls DEF Ordinary
<1> QED BY <1>1, <1>2 DEF Signature

LEMMA ParametersParse ==
    ASSUME Sound, Onward, Grows, top.fn = "function", NEW n \in Nat, NEW i \in Reach, Rich(i),
           Parameters(n, i)
    PROVE  Descends /\ Parses
<1>1. CASE Signature(n, i)
  BY <1>1, SignatureParses
<1>2. CASE GoTo(i) /\ Call(n, "parameter", "parameters")
  <2>1. index' = i /\ i \in Nat
    BY <1>2, Going
  <2> QED BY <1>2, <2>1, ElsewhereFacts, RichCalls DEF Ordinary
<1> QED BY <1>1, <1>2 DEF Parameters

LEMMA ForUpdateParses ==
    ASSUME Sound, Onward, Grows, top.fn = "for", NEW n \in Nat, NEW i \in Reach, Rich(i),
           ForUpdate(n, i)
    PROVE  Descends /\ Parses
<1>1. CASE Type(i) = "CloseParen" /\ GoTo(i + 1) /\ Call(n, "statement", "body")
  <2>1. Type(i) # "EOT"
    BY <1>1
  <2>2. i + 1 \in Reach /\ i \in Nat
    BY <2>1, Reaching DEF Reach, Sound
  <2>3. index' = i + 1 /\ i <= index'
    BY <1>1, <2>2, Going
  <2> QED BY <1>1, <2>2, <2>3, ElsewhereFacts, RichCalls DEF Ordinary
<1>2. CASE GoTo(i) /\ Call(n, "statement", "update")
  <2>1. index' = i /\ i \in Nat
    BY <1>2, Going
  <2> QED BY <1>2, <2>1, ElsewhereFacts, RichCalls DEF Ordinary
<1> QED BY <1>1, <1>2 DEF ForUpdate

LEMMA ForConditionParses ==
    ASSUME Sound, Onward, Grows, top.fn = "for", NEW n \in Nat, NEW i \in Reach, Rich(i),
           ForCondition(n, i)
    PROVE  Descends /\ Parses
<1>1. CASE Type(i) = "Terminator" /\ ForUpdate(n, i + 1)
  <2>1. Type(i) # "EOT"
    BY <1>1
  <2>2. i + 1 \in Reach /\ i \in Nat
    BY <2>1, Reaching DEF Reach, Sound
  <2>3. Rich(i + 1)
    BY <2>2, AffordFacts
  <2> QED BY <1>1, <2>2, <2>3, ForUpdateParses
<1>2. CASE GoTo(i) /\ Call(n, Expression, "condition")
  <2>1. index' = i /\ i \in Nat
    BY <1>2, Going
  <2> QED BY <1>2, <2>1, ElsewhereFacts, RichCalls DEF Ordinary
<1> QED BY <1>1, <1>2 DEF ForCondition

-----------------------------------------------------------------------------
(* The functions of the declarations and statements, one by one.           *)

LEMMA WaiterFacts ==
    ASSUME Sound, NEW fn \in Waiters, NEW at \in Waits, At(fn, at)
    PROVE  /\ top.fn = fn /\ fn \in Ordinary /\ fn \in DOMAIN Maker /\ Rich(index)
           /\ \A member : Adopt(member) => Grows
<1>1. /\ top.fn = fn /\ top.at = at /\ fn \in Ordinary /\ fn \in DOMAIN Maker
      /\ at # "entry"
  BY DEF At, Waiters, Ordinary, Maker, Waits, Bare
<1> QED BY <1>1, AffordFacts, WaiterAdopts

LEMMA EntryFacts ==
    ASSUME Sound, NEW fn \in {"block", "if", "while", "for", "return"}, At(fn, "entry")
    PROVE  top.fn = fn /\ fn \in Ordinary /\ Rich(index + 1)
<1>1. top.fn = fn /\ top.at = "entry" /\ fn \in Ordinary
  BY DEF At, Ordinary
<1>2. Left(fn, "entry") = 9
  BY DEF Left, Ahead
<1> QED BY <1>1, <1>2, AffordFacts

LEMMA PlainKinds ==
    /\ {"AST_DECL_IMPORT", "AST_DECL_FUNCTION", "AST_DECL_VARIABLE", "AST_DECL_STRUCT",
        "AST_DECL_ENUM", "AST_STMT_DECL", "AST_STMT_EXPR", "AST_STMT_BLOCK", "AST_STMT_IF",
        "AST_STMT_WHILE", "AST_STMT_FOR", "AST_STMT_RETURN", "AST_EXPR_CALL",
        "AST_EXPR_MEMBER", "AST_EXPR_IDENTIFIER", "AST_EXPR_LITERAL", "AST_TYPE_BASIC",
        "AST_TYPE_ARRAY"} \subseteq AstNodeType \ Operating
    /\ {"function", "parameter", "field", "member", "variable", "struct", "enum", "statement",
        "block", "if", "while", "for", "return", "type", "import"} \subseteq Ordinary
BY DEF AstNodeType, Operating, Ordinary

LEMMA ImportParses ==
    ASSUME Sound, Onward, parse_import
    PROVE  Descends /\ Parses
<1>1. At("import", "entry") /\ Make("AST_DECL_IMPORT", index, {}) /\ (Return(Fresh) \/ Fail(Fresh))
  BY DEF parse_import
<1>2. Grows
  BY <1>1, SoundFacts, PlainKinds, MakeGrows
<1>3. top.fn \in Ordinary
  BY <1>1, PlainKinds DEF At
<1> QED BY <1>1, <1>2, <1>3, OrdinaryReturns, FailParses DEF Fail

LEMMA FunctionParses ==
    ASSUME Sound, Onward, parse_function
    PROVE  Descends /\ Parses
<1>1. CASE /\ At("function", "entry")
           /\ Make("AST_DECL_FUNCTION", index, {})
           /\ \E n \in 0 .. Len(FunctionHead) :
                 /\ Matches(FunctionHead, n)
                 /\ IF n = Len(FunctionHead) THEN Parameters(Fresh, index + n)
                                             ELSE GoTo(index + n) /\ Fail(Fresh)
  <2>1. top.fn = "function" /\ Grows
    BY <1>1, SoundFacts, PlainKinds, MakeGrows DEF At
  <2>2. PICK n \in 0 .. Len(FunctionHead) :
              /\ Matches(FunctionHead, n)
              /\ (n = Len(FunctionHead) /\ Parameters(Fresh, index + n)) \/ Fail(Fresh)
    BY <1>1
  <2>3. CASE n = Len(FunctionHead) /\ Parameters(Fresh, index + n)
    <3>1. /\ Len(FunctionHead) \in {3, 5}
          /\ \A k \in 1 .. Len(FunctionHead) : FunctionHead[k] # "EOT"
      BY DEF FunctionHead
    <3>2. index + n \in Reach
      BY <3>1, <2>2, MatchReaches DEF Sound
    <3>3. index + 2 \in Nat /\ index + n \in Nat /\ index + 2 <= index + n
      <4>1. n = 3 \/ n = 5
        BY <3>1, <2>3
      <4>2. index \in Nat
        BY SoundFacts
      <4> QED BY <4>1, <4>2
    <3>4. Rich(index + n)
      BY <3>3, AffordFacts
    <3> QED BY <2>1, <2>3, <3>2, <3>4, SoundFacts, ParametersParse
  <2>4. CASE Fail(Fresh)
    BY <2>1, <2>4, FailParses DEF Fail
  <2> QED BY <2>2, <2>3, <2>4
<1>2. CASE /\ At("function", "parameters")
           /\ Adopt("parameters")
           /\ IF Type(index) = "Comma" THEN Parameters(top.node, index + 1)
                                       ELSE Signature(top.node, index)
  <2>1. top.fn = "function" /\ Grows /\ Rich(index)
    BY <1>2, WaitFacts, WaiterFacts DEF Waiters
  <2>2. CASE Type(index) = "Comma" /\ Parameters(top.node, index + 1)
    <3>1. Type(index) # "EOT"
      BY <2>2
    <3>2. index + 1 \in Reach /\ index \in Nat
      BY <3>1, Reaching, SoundFacts DEF Sound
    <3>3. Rich(index + 1)
      BY <2>1, <3>2, AffordFacts
    <3> QED BY <2>1, <2>2, <3>2, <3>3, SoundFacts, ParametersParse
  <2>3. CASE Signature(top.node, index)
    BY <2>1, <2>3, Reaching, SoundFacts, SignatureParses DEF Sound
  <2> QED BY <1>2, <2>2, <2>3
<1>3. CASE /\ At("function", "return_type")
           /\ Adopt("return_type")
           /\ Call(top.node, "block", "body")
  <2>1. top.fn \in Ordinary /\ Grows /\ Rich(index)
    BY <1>3, WaitFacts, WaiterFacts DEF Waiters
  <2> QED BY <1>3, <2>1, SoundFacts, OnwardFacts, ElsewhereFacts, PlainKinds, RichCalls
<1>4. CASE Completes("function", "body", "body")
  BY <1>4, WaitFacts, MakerFacts, PlainKinds, CompletesParses
<1> QED BY <1>1, <1>2, <1>3, <1>4 DEF parse_function

LEMMA NameParses ==
    ASSUME Sound, Onward, parse_name
    PROVE  Descends /\ Parses
<1>1. CASE Keep /\ Fail(Null)
  BY <1>1, KeepGrows, FailParses DEF Fail
<1>2. CASE /\ top.at = "entry" /\ top.fn \in {"parameter", "field", "member"}
           /\ Type(index) = "Identifier"
           /\ Make("AST_DECL_VARIABLE", index, {})
           /\ IF top.fn # "member" /\ Type(index + 1) = "Colon"
              THEN GoTo(index + 2) /\ Call(Fresh, "type", "type")
              ELSE GoTo(index + 1) /\ IF top.fn = "field" THEN Fail(Fresh) ELSE Return(Fresh)
  <2>1. Grows /\ top.fn \in Ordinary
    BY <1>2, SoundFacts, PlainKinds, MakeGrows
  <2>2. CASE Type(index + 1) = "Colon" /\ GoTo(index + 2) /\ Call(Fresh, "type", "type")
    <3>1. Type(index) # "EOT" /\ Type(index + 1) # "EOT"
      BY <1>2, <2>2
    <3>2. index + 2 \in Reach
      BY <3>1, Reaching, LookAhead DEF Sound
    <3>3. index' = index + 2 /\ index + 2 \in Nat /\ index + 2 <= index'
      BY <3>2, <2>2, Going
    <3>4. Rich(index + 2)
      BY AffordFacts
    <3> QED BY <2>1, <2>2, <3>3, <3>4, SoundFacts, ElsewhereFacts, PlainKinds, RichCalls
  <2>3. CASE Fail(Fresh) \/ Return(Fresh)
    BY <2>1, <2>3, FailParses, OrdinaryReturns DEF Fail
  <2> QED BY <1>2, <2>2, <2>3
<1>3. CASE Completes("parameter", "type", "type")
  BY <1>3, WaitFacts, MakerFacts, PlainKinds, CompletesParses
<1>4. CASE Completes("field", "type", "type")
  BY <1>4, WaitFacts, MakerFacts, PlainKinds, CompletesParses
<1> QED BY <1>1, <1>2, <1>3, <1>4 DEF parse_name

(* A variable's type and initial value lie behind its name.                *)
LEMMA VariableCalls ==
    ASSUME Sound, Onward, Grows, top.fn = "variable", NEW n \in Nat, index < index',
           Call(n, Expression, "initializer") \/ Call(n, "type", "type")
    PROVE  Descends /\ Parses
<1>1. /\ Affords(top, index, Expression, "initializer", index')
      /\ Affords(top, index, "type", "type", index')
  BY AffordFacts, OnwardFacts, ElsewhereFacts DEF Expression
<1> QED BY <1>1, ElsewhereFacts, PlainKinds, OrdinaryCalls

LEMMA VariableParses ==
    ASSUME Sound, Onward, parse_variable
    PROVE  Descends /\ Parses
<1> DEFINE i == IF Type(index) = "LetKeyword" THEN index + 1 ELSE index
<1>1. CASE /\ At("variable", "entry")
           /\ Make("AST_DECL_VARIABLE", index, {})
           /\ \/ Fail(Fresh)
              \/ /\ Type(i) = "Identifier" /\ Type(i + 1) = "Colon"
                 /\ IF Type(i + 2) = "Colon"
                    THEN GoTo(i + 3) /\ Call(Fresh, Expression, "initializer")
                    ELSE GoTo(i + 2) /\ Call(Fresh, "type", "type")
  <2>1. top.fn = "variable" /\ Grows
    BY <1>1, SoundFacts, PlainKinds, MakeGrows DEF At
  <2>2. i \in Reach /\ i \in Nat /\ index <= i /\ index \in Nat
    <3>1. Type(index) = "LetKeyword" => Type(index) # "EOT"
      OBVIOUS
    <3> QED BY <3>1, Reaching, SoundFacts DEF Sound
  <2> HIDE DEF i
  <2>3. CASE Fail(Fresh)
    BY <2>1, <2>3, FailParses DEF Fail
  <2>4. CASE /\ Type(i) = "Identifier" /\ Type(i + 1) = "Colon" /\ Type(i + 2) = "Colon"
             /\ GoTo(i + 3) /\ Call(Fresh, Expression, "initializer")
    <3>1. Type(i) # "EOT" /\ Type(i + 1) # "EOT" /\ Type(i + 2) # "EOT"
      BY <2>4
    <3>2. i + 3 \in Reach
      BY <2>2, <3>1, LookAhead DEF Sound
    <3>3. index < index'
      BY <2>2, <2>4, <3>2, Going
    <3> QED BY <2>1, <2>4, <3>3, SoundFacts, VariableCalls
  <2>5. CASE /\ Type(i) = "Identifier" /\ Type(i + 1) = "Colon"
             /\ GoTo(i + 2) /\ Call(Fresh, "type", "type")
    <3>1. Type(i) # "EOT" /\ Type(i + 1) # "EOT"
      BY <2>5
    <3>2. i + 2 \in Reach
      BY <2>2, <3>1, LookAhead DEF Sound
    <3>3. index < index'
      BY <2>2, <2>5, <3>2, Going
    <3> QED BY <2>1, <2>5, <3>3, SoundFacts, VariableCalls
  <2> QED BY <1>1, <2>3, <2>4, <2>5
<1>2. CASE /\ At("variable", "type")
           /\ Adopt("type")
           /\ IF Type(index) = "Equal"
              THEN GoTo(index + 1) /\ Call(top.node, Expression, "initializer")
              ELSE GoTo(index) /\ Fail(top.node)
  <2>1. top.fn = "variable" /\ Grows
    BY <1>2, WaitFacts, MakerFacts, WaiterAdopts DEF At
  <2>2. CASE Type(index) = "Equal" /\ GoTo(index + 1) /\ Call(top.node, Expression, "initializer")
    <3>1. Type(index) # "EOT"
      BY <2>2
    <3>2. index + 1 \in Reach
      BY <3>1, Reaching DEF Sound
    <3>3. index < index'
      BY <2>2, <3>2, Going, SoundFacts
    <3> QED BY <2>1, <2>2, <3>3, SoundFacts, VariableCalls
  <2>3. CASE Fail(top.node)
    BY <2>1, <2>3, FailParses DEF Fail
  <2> QED BY <1>2, <2>2, <2>3
<1>3. CASE Completes("variable", "initializer", "initializer")
  BY <1>3, WaitFacts, MakerFacts, PlainKinds, CompletesParses
<1> QED BY <1>1, <1>2, <1>3 DEF parse_variable

LEMMA ListHeadParses ==
    ASSUME Sound, Onward, top.fn \in Ordinary, NEW kind \in AstNodeType \ Operating,
           NEW keyword, keyword # "EOT", NEW item \in Ordinary, NEW at \in Elsewhere,
           ListHead(kind, keyword, item, at)
    PROVE  Descends /\ Parses
<1> DEFINE pattern == <<keyword, "Identifier", "OpenCurly">>
<1>1. Grows
  BY SoundFacts, MakeGrows DEF ListHead
<1>2. PICK n \in 0 .. 3 :
            /\ Matches(pattern, n)
            /\ (n = 3 /\ Items(Fresh, index + n, item, at)) \/ Fail(Fresh)
  BY DEF ListHead
<1>3. CASE n = 3 /\ Items(Fresh, index + n, item, at)
  <2>1. index + n \in Reach
    <3>1. /\ Len(pattern) = 3
          /\ \A k \in 1 .. 3 : pattern[k] # "EOT"
      OBVIOUS
    <3>2. n \in 0 .. Len(pattern) /\ Len(pattern) \in Nat
          /\ \A k \in 1 .. Len(pattern) : pattern[k] # "EOT"
      BY <3>1
    <3>3. Matches(pattern, n)
      BY <1>2
    <3> HIDE DEF pattern
    <3> QED BY <3>2, <3>3, MatchReaches DEF Sound
  <2>2. index + 2 \in Nat /\ index + n \in Nat /\ index + 2 <= index + n
    BY <1>3, SoundFacts
  <2>3. Rich(index + n)
    BY <2>2, AffordFacts
  <2> QED BY <1>1, <1>3, <2>1, <2>3, SoundFacts, ItemsParse
<1>4. CASE Fail(Fresh)
  BY <1>1, <1>4, FailParses DEF Fail
<1> QED BY <1>2, <1>3, <1>4

(* The next item of a list, or its end.                                    *)
LEMMA NextItemParses ==
    ASSUME Sound, Onward, NEW fn \in Waiters, NEW at \in Waits \cap Elsewhere, At(fn, at),
           NEW member, Adopt(member), NEW i \in Reach, NEW item \in Ordinary,
           \E j \in 0 .. Len(tokens) : skip_terminators(i, j) /\ Items(top.node, j, item, at)
    PROVE  Descends /\ Parses
<1>1. top.fn \in Ordinary /\ Grows /\ Rich(index)
  BY WaiterFacts
<1>2. PICK j \in 0 .. Len(tokens) : skip_terminators(i, j) /\ Items(top.node, j, item, at)
  OBVIOUS
<1>3. j \in Reach /\ j \in Nat /\ index \in Nat /\ index <= j
  BY <1>2, SkipReaches, Reaching, SoundFacts DEF Sound, Reach
<1>4. Rich(j)
  BY <1>1, <1>3, AffordFacts
<1> QED BY <1>1, <1>2, <1>3, <1>4, SoundFacts, ItemsParse

LEMMA StructParses ==
    ASSUME Sound, Onward, parse_struct
    PROVE  Descends /\ Parses
<1>1. CASE /\ At("struct", "entry")
           /\ ListHead("AST_DECL_STRUCT", "StructKeyword", "field", "fields")
  <2>1. top.fn \in Ordinary /\ "StructKeyword" # "EOT"
    BY <1>1, PlainKinds DEF At
  <2> QED BY <1>1, <2>1, PlainKinds, ElsewhereFacts, ListHeadParses
<1>2. CASE /\ At("struct", "fields")
           /\ Adopt("fields")
           /\ \E i \in 0 .. Len(tokens) : /\ skip_terminators(index, i)
                                          /\ Items(top.node, i, "field", "fields")
  <2>1. "struct" \in Waiters /\ index \in Reach /\ "fields" \in Waits \cap Elsewhere
    BY Reaching, WaitFacts, ElsewhereFacts DEF Waiters, Sound
  <2> QED BY <1>2, <2>1, PlainKinds, NextItemParses
<1> QED BY <1>1, <1>2 DEF parse_struct

LEMMA EnumParses ==
    ASSUME Sound, Onward, parse_enum
    PROVE  Descends /\ Parses
<1>1. CASE /\ At("enum", "entry")
           /\ ListHead("AST_DECL_ENUM", "EnumKeyword", "member", "members")
  <2>1. top.fn \in Ordinary /\ "EnumKeyword" # "EOT"
    BY <1>1, PlainKinds DEF At
  <2> QED BY <1>1, <2>1, PlainKinds, ElsewhereFacts, ListHeadParses
<1>2. CASE /\ At("enum", "members")
           /\ Adopt("members")
           /\ \/ /\ Type(index) = "Comma"
                 /\ \E i \in 0 .. Len(tokens) : /\ skip_terminators(index + 1, i)
                                                /\ Items(top.node, i, "member", "members")
              \/ Return(top.node)
              \/ Fail(top.node)
  <2>1. "enum" \in Waiters /\ "members" \in Waits \cap Elsewhere
    BY WaitFacts, ElsewhereFacts DEF Waiters
  <2>2. top.fn \in Ordinary /\ Grows
    BY <1>2, <2>1, WaiterFacts
  <2>3. CASE /\ Type(index) = "Comma"
             /\ \E i \in 0 .. Len(tokens) : /\ skip_terminators(index + 1, i)
                                            /\ Items(top.node, i, "member", "members")
    <3>1. Type(index) # "EOT"
      BY <2>3
    <3>2. index + 1 \in Reach
      BY <3>1, Reaching DEF Sound
    <3> QED BY <1>2, <2>1, <2>3, <3>2, PlainKinds, NextItemParses
  <2>4. CASE Return(top.node) \/ Fail(top.node)
    BY <2>2, <2>4, FailParses, OrdinaryReturns DEF Fail
  <2> QED BY <1>2, <2>3, <2>4
<1> QED BY <1>1, <1>2 DEF parse_enum

LEMMA StatementParses ==
    ASSUME Sound, Onward, parse_statement
    PROVE  Descends /\ Parses
<1>1. CASE /\ At("statement", "entry")
           /\ UNCHANGED index /\ Keep
           /\ \/ /\ Type(index) \in DOMAIN StatementKeyword
                 /\ Become(StatementKeyword[Type(index)])
              \/ /\ Type(index) \notin DOMAIN StatementKeyword
                 /\ IF StartsVariable THEN Call(Null, "variable", "declaration")
                                      ELSE Call(Null, Expression, "expression")
  <2>1. top.fn = "statement" /\ top.at = "entry" /\ top.fn \in Ordinary /\ index' = index
    BY <1>1, PlainKinds DEF At
  <2>2. Grows
    BY <1>1, KeepGrows
  <2>3. CASE /\ Type(index) \in DOMAIN StatementKeyword
             /\ Become(StatementKeyword[Type(index)])
    <3> DEFINE fn == StatementKeyword[Type(index)]
    <3>1. fn \in {"if", "while", "for", "return", "block"}
      BY <2>3 DEF StatementKeyword
    <3>2. Become(fn)
      BY <2>3
    <3> HIDE DEF fn
    <3>3. /\ fn \in Functions /\ Binding(fn) = 0 /\ Binding(top.fn) = 0
          /\ Left(fn, "entry") <= Left(top.fn, "entry")
      BY <2>1, <3>1 DEF Functions, Binding, Left, Ahead
    <3> QED BY <2>1, <2>2, <3>2, <3>3, OrdinaryBecomes
  <2>4. CASE Call(Null, "variable", "declaration") \/ Call(Null, Expression, "expression")
    <3>1. /\ Affords(top, index, "variable", "declaration", index')
          /\ Affords(top, index, Expression, "expression", index')
      BY <2>1, AffordFacts, OnwardFacts, ElsewhereFacts DEF Expression
    <3> QED BY <2>1, <2>2, <2>4, <3>1, SoundFacts, ElsewhereFacts, PlainKinds, OrdinaryCalls
  <2> QED BY <1>1, <2>3, <2>4
<1>2. CASE \/ /\ At("statement", "declaration")
              /\ Make("AST_STMT_DECL", heap[result].token, {<<"declaration", result>>})
              /\ Return(Fresh)
           \/ /\ At("statement", "expression")
              /\ Make("AST_STMT_EXPR", heap[result].token, {<<"expression", result>>})
              /\ Return(Fresh)
  <2>1. top.fn \in Ordinary /\ result # Null
    BY <1>2, PlainKinds DEF At
  <2>2. heap[result].token \in Nat
    BY <2>1, ResultToken DEF Sound
  <2>3. Grows
    BY <1>2, <2>2, PlainKinds, MakeGrows
  <2> QED BY <1>2, <2>1, <2>3, OrdinaryReturns
<1> QED BY <1>1, <1>2 DEF parse_statement

LEMMA BlockParses ==
    ASSUME Sound, Onward, parse_block
    PROVE  Descends /\ Parses
<1>1. CASE Keep /\ Fail(Null)
  BY <1>1, KeepGrows, FailParses DEF Fail
<1>2. CASE /\ At("block", "entry") /\ Type(index) = "OpenCurly"
           /\ Make("AST_STMT_BLOCK", index, {})
           /\ Items(Fresh, index + 1, "statement", "statements")
  <2>1. top.fn \in Ordinary /\ Rich(index + 1) /\ Type(index) # "EOT"
    BY <1>2, EntryFacts
  <2>2. Grows
    BY <1>2, SoundFacts, PlainKinds, MakeGrows
  <2>3. index + 1 \in Reach
    BY <2>1, Reaching DEF Sound
  <2> QED BY <1>2, <2>1, <2>2, <2>3, SoundFacts, PlainKinds, ElsewhereFacts, ItemsParse
<1>3. CASE /\ At("block", "statements")
           /\ Adopt("statements")
           /\ \E i \in 0 .. Len(tokens) : /\ skip_terminators(index, i)
                                          /\ Items(top.node, i, "statement", "statements")
  <2>1. "block" \in Waiters /\ index \in Reach /\ "statements" \in Waits \cap Elsewhere
    BY Reaching, WaitFacts, ElsewhereFacts DEF Waiters, Sound
  <2> QED BY <1>3, <2>1, PlainKinds, NextItemParses
<1> QED BY <1>1, <1>2, <1>3 DEF parse_block

(* What a statement calls behind its keyword, and where it waits.          *)
LEMMA KeywordCalls ==
    ASSUME Sound, Onward, NEW fn \in {"if", "while", "for", "return"}, At(fn, "entry"), Grows,
           NEW i \in Nat, index < i, i \in Reach, GoTo(i), NEW n \in Nat,
           NEW callee \in {Expression, "statement"}, NEW at \in Elsewhere, Call(n, callee, at)
    PROVE  Descends /\ Parses
<1>1. top.fn \in Ordinary /\ Rich(index + 1)
  BY EntryFacts
<1>2. index' = i /\ index + 1 \in Nat /\ index + 1 <= index'
  BY Going, SoundFacts
<1> QED BY <1>1, <1>2, PlainKinds, RichCalls

LEMMA WaiterCalls ==
    ASSUME Sound, Onward, NEW fn \in Waiters, NEW at \in Waits, At(fn, at), Grows,
           NEW callee \in {Expression, "statement"}, NEW then \in Elsewhere,
           Call(top.node, callee, then)
    PROVE  Descends /\ Parses
<1>1. top.fn \in Ordinary /\ Rich(index)
  BY WaiterFacts
<1> QED BY <1>1, SoundFacts, OnwardFacts, PlainKinds, RichCalls

LEMMA IfParses ==
    ASSUME Sound, Onward, parse_if_statement
    PROVE  Descends /\ Parses
<1>0. "if" \in Waiters
  BY DEF Waiters
<1>1. CASE /\ At("if", "entry")
           /\ Make("AST_STMT_IF", index, {})
           /\ IF Type(index + 1) = "OpenParen"
              THEN GoTo(index + 2) /\ Call(Fresh, Expression, "condition_in_parens")
              ELSE GoTo(index + 1) /\ Call(Fresh, Expression, "condition")
  <2>1. Type(index) # "EOT" /\ index + 1 \in Reach /\ index \in Nat /\ index + 1 \in Nat
        /\ index + 2 \in Nat /\ index < index + 1 /\ index < index + 2
    BY <1>1, KeywordFacts, AtKeyword, SoundFacts DEF Sound
  <2>2. Grows
    BY <1>1, SoundFacts, PlainKinds, MakeGrows
  <2>3. CASE /\ Type(index + 1) = "OpenParen"
             /\ GoTo(index + 2) /\ Call(Fresh, Expression, "condition_in_parens")
    <3>1. Type(index + 1) # "EOT"
      BY <2>3
    <3>2. index + 2 \in Reach
      BY <2>1, <3>1, Reaching, LookAhead DEF Sound
    <3> QED BY <1>1, <2>1, <2>2, <2>3, <3>2, SoundFacts, ElsewhereFacts, KeywordCalls
  <2>4. CASE GoTo(index + 1) /\ Call(Fresh, Expression, "condition")
    BY <1>1, <2>1, <2>2, <2>4, SoundFacts, ElsewhereFacts, KeywordCalls
  <2> QED BY <1>1, <2>3, <2>4
<1>2. CASE /\ At("if", "condition_in_parens")
           /\ Adopt("condition")
           /\ Closed("then_stmt")
  <2>1. top.fn \in Ordinary /\ Grows /\ Rich(index)
    BY <1>0, <1>2, WaitFacts, WaiterFacts
  <2> QED BY <1>2, <2>1, ElsewhereFacts, ClosedParses
<1>3. CASE /\ At("if", "condition")
           /\ Adopt("condition")
           /\ Call(top.node, "statement", "then_stmt")
  <2>1. Grows
    BY <1>0, <1>3, WaitFacts, WaiterFacts
  <2> QED BY <1>0, <1>3, <2>1, WaitFacts, ElsewhereFacts, WaiterCalls
<1>4. CASE /\ At("if", "then_stmt")
           /\ Adopt("then_stmt")
           /\ Call(top.node, "statement", "else_stmt") \/ Return(top.node)
  <2>1. Grows /\ top.fn \in Ordinary
    BY <1>0, <1>4, WaitFacts, WaiterFacts
  <2>2. CASE Call(top.node, "statement", "else_stmt")
    BY <1>0, <1>4, <2>1, <2>2, WaitFacts, ElsewhereFacts, WaiterCalls
  <2>3. CASE Return(top.node)
    BY <2>1, <2>3, OrdinaryReturns
  <2> QED BY <1>4, <2>2, <2>3
<1>5. CASE Completes("if", "else_stmt", "else_stmt")
  BY <1>5, WaitFacts, MakerFacts, PlainKinds, CompletesParses
<1> QED BY <1>1, <1>2, <1>3, <1>4, <1>5 DEF parse_if_statement

LEMMA WhileParses ==
    ASSUME Sound, Onward, parse_while_statement
    PROVE  Descends /\ Parses
<1>1. CASE /\ At("while", "entry")
           /\ Make("AST_STMT_WHILE", index, {})
           /\ IF Type(index + 1) = "OpenParen"
              THEN GoTo(index + 2) /\ Call(Fresh, Expression, "condition")
              ELSE GoTo(index + 1) /\ Fail(Fresh)
  <2>1. Type(index) # "EOT" /\ index + 1 \in Reach /\ index + 2 \in Nat /\ index < index + 2
    BY <1>1, KeywordFacts, AtKeyword, SoundFacts DEF Sound
  <2>2. Grows
    BY <1>1, SoundFacts, PlainKinds, MakeGrows
  <2>3. CASE /\ Type(index + 1) = "OpenParen"
             /\ GoTo(index + 2) /\ Call(Fresh, Expression, "condition")
    <3>1. Type(index + 1) # "EOT"
      BY <2>3
    <3>2. index + 2 \in Reach
      BY <2>1, <3>1, Reaching, LookAhead DEF Sound
    <3> QED BY <1>1, <2>1, <2>2, <2>3, <3>2, SoundFacts, ElsewhereFacts, KeywordCalls
  <2>4. CASE Fail(Fresh)
    BY <2>2, <2>4, FailParses DEF Fail
  <2> QED BY <1>1, <2>3, <2>4
<1>2. CASE /\ At("while", "condition")
           /\ Adopt("condition")
           /\ Closed("body")
  <2>1. top.fn \in Ordinary /\ Grows /\ Rich(index)
    BY <1>2, WaitFacts, WaiterFacts DEF Waiters
  <2> QED BY <1>2, <2>1, ElsewhereFacts, ClosedParses
<1>3. CASE Completes("while", "body", "body")
  BY <1>3, WaitFacts, MakerFacts, PlainKinds, CompletesParses
<1> QED BY <1>1, <1>2, <1>3 DEF parse_while_statement

LEMMA ForClausesParse ==
    ASSUME Sound, Onward, parse_for_clauses
    PROVE  Descends /\ Parses
<1>0. "for" \in Waiters
  BY DEF Waiters
<1>1. CASE /\ At("for", "entry")
           /\ Make("AST_STMT_FOR", index, {})
           /\ IF Type(index + 1) # "OpenParen"
              THEN GoTo(index + 1) /\ Fail(Fresh)
              ELSE IF Type(index + 2) = "Terminator"
                   THEN ForCondition(Fresh, index + 3)
                   ELSE GoTo(index + 2) /\ Call(Fresh, "statement", "init")
  <2>1. Type(index) # "EOT" /\ index + 1 \in Reach /\ index + 2 \in Nat /\ index < index + 2
        /\ index + 3 \in Nat /\ index + 2 <= index + 3 /\ top.fn = "for"
    BY <1>1, KeywordFacts, AtKeyword, SoundFacts DEF Sound
  <2>2. Grows
    BY <1>1, SoundFacts, PlainKinds, MakeGrows
  <2>3. CASE Fail(Fresh)
    BY <2>2, <2>3, FailParses DEF Fail
  <2>4. CASE /\ Type(index + 1) = "OpenParen" /\ Type(index + 2) = "Terminator"
             /\ ForCondition(Fresh, index + 3)
    <3>1. Type(index + 1) # "EOT" /\ Type(index + 2) # "EOT"
      BY <2>4
    <3>2. index + 3 \in Reach
      BY <2>1, <3>1, Reaching, LookAhead DEF Sound
    <3>3. Rich(index + 3)
      BY <2>1, AffordFacts
    <3> QED BY <2>1, <2>2, <2>4, <3>2, <3>3, SoundFacts, ForConditionParses
  <2>5. CASE /\ Type(index + 1) = "OpenParen"
             /\ GoTo(index + 2) /\ Call(Fresh, "statement", "init")
    <3>1. Type(index + 1) # "EOT"
      BY <2>5
    <3>2. index + 2 \in Reach
      BY <2>1, <3>1, Reaching, LookAhead DEF Sound
    <3> QED BY <1>1, <2>1, <2>2, <2>5, <3>2, SoundFacts, ElsewhereFacts, KeywordCalls
  <2> QED BY <1>1, <2>3, <2>4, <2>5
<1>2. ASSUME Rich(index) PROVE Rich(match_terminator(index))
  <2>1. index \in Nat /\ match_terminator(index) \in Nat /\ index <= match_terminator(index)
    BY SoundFacts DEF match_terminator
  <2> QED BY <1>2, <2>1, AffordFacts
<1>3. CASE /\ At("for", "init")
           /\ Adopt("init")
           /\ ForCondition(top.node, match_terminator(index))
  <2>1. top.fn = "for" /\ Grows /\ Rich(index)
    BY <1>0, <1>3, WaitFacts, WaiterFacts
  <2>2. match_terminator(index) \in Reach
    BY TerminatorReaches, Reaching DEF Sound
  <2> QED BY <1>2, <1>3, <2>1, <2>2, SoundFacts, ForConditionParses
<1>4. CASE /\ At("for", "condition")
           /\ Adopt("condition")
           /\ ForUpdate(top.node, match_terminator(index))
  <2>1. top.fn = "for" /\ Grows /\ Rich(index)
    BY <1>0, <1>4, WaitFacts, WaiterFacts
  <2>2. match_terminator(index) \in Reach
    BY TerminatorReaches, Reaching DEF Sound
  <2> QED BY <1>2, <1>4, <2>1, <2>2, SoundFacts, ForUpdateParses
<1>5. CASE /\ At("for", "update")
           /\ Adopt("update")
           /\ Closed("body")
  <2>1. top.fn \in Ordinary /\ Grows /\ Rich(index)
    BY <1>0, <1>5, WaitFacts, WaiterFacts
  <2> QED BY <1>5, <2>1, ElsewhereFacts, ClosedParses
<1> QED BY <1>1, <1>3, <1>4, <1>5 DEF parse_for_clauses

LEMMA RangeGrows ==
    ASSUME Sound, At("for", "range"), NEW name, MakesRange(name)
    PROVE  Grows
<1> DEFINE n == top.node
           more == {<<"init", Fresh + 1>>, <<"condition", result>>}
           new == [heap[n] EXCEPT !.kids = @ \cup more]
           wired == [heap EXCEPT ![n] = new]
           var_decl == [kind |-> "AST_DECL_VARIABLE", token |-> name, kids |-> {}]
           init_stmt == [kind |-> "AST_STMT_DECL", token |-> name,
                         kids |-> {<<"declaration", Fresh>>}]
           P == <<var_decl, init_stmt>>
           T == Node \cup {new, var_decl, init_stmt}
<1>1. n # Null /\ heap[n].kind = "AST_STMT_FOR"
  <2>1. top.fn = "for" /\ top.at = "range" /\ top.at \in Waits
    BY WaitFacts DEF At
  <2> QED BY <2>1, AtWait, MakerFacts DEF Sound
<1>2. heap \in Seq(Node) /\ Len(heap) \in Nat /\ n \in 1 .. Len(heap)
  BY <1>1, RunningFacts DEF HeapOK, Nodes, Sound
<1>3. heap[n] \in Node
  BY <1>2
<1>4. /\ new.kind = heap[n].kind /\ new.token = heap[n].token
      /\ var_decl.kind = "AST_DECL_VARIABLE" /\ init_stmt.kind = "AST_STMT_DECL"
  BY <1>3 DEF Node
<1>5. heap' = wired \o P
  BY DEF MakesRange
<1> HIDE DEF new, var_decl, init_stmt, more
<1>6. heap \in Seq(T) /\ new \in T
  <2>1. \A m \in 1 .. Len(heap) : heap[m] \in T
    BY <1>2
  <2> QED BY <2>1, <1>2
<1>7. P \in Seq(T) /\ Len(P) = 2 /\ P[1] = var_decl /\ P[2] = init_stmt
  OBVIOUS
<1> HIDE DEF P, T
<1>8. /\ wired \in Seq(T) /\ Len(wired) = Len(heap)
      /\ \A m \in 1 .. Len(heap) : wired[m] = IF m = n THEN new ELSE heap[m]
  BY <1>2, <1>6, ExceptSeq
<1> HIDE DEF wired
<1>9. TwoLonger(T, wired, P, heap')
  BY <1>5, <1>7, <1>8, TwoMore, Zenon
<1>10. /\ Len(heap') = Len(heap) + 2
       /\ \A m \in 1 .. Len(heap) : heap'[m] = IF m = n THEN new ELSE heap[m]
       /\ heap'[Len(heap) + 1] = var_decl /\ heap'[Len(heap) + 2] = init_stmt
  BY <1>7, <1>8, <1>9 DEF TwoLonger
<1>11. \A m \in Len(heap) + 1 .. Len(heap') : m = Len(heap) + 1 \/ m = Len(heap) + 2
  BY <1>2, <1>10
<1>12. /\ heap[n].kind \notin Operating /\ var_decl.kind \notin Operating
       /\ init_stmt.kind \notin Operating
  BY <1>1, <1>4 DEF Operating
<1> QED BY <1>2, <1>4, <1>10, <1>11, <1>12 DEF Grows, Stays

LEMMA ForRangeParses ==
    ASSUME Sound, Onward, parse_for_range
    PROVE  Descends /\ Parses
<1>1. CASE /\ At("for", "entry") /\ Type(index + 1) = "Identifier"
           /\ Make("AST_STMT_FOR", index, {})
           /\ IF Type(index + 2) = "InKeyword"
              THEN GoTo(index + 3) /\ Call(Fresh, Expression, "range")
              ELSE GoTo(index + 2) /\ Fail(Fresh)
  <2>1. Type(index) # "EOT" /\ Type(index + 1) # "EOT" /\ index + 3 \in Nat /\ index < index + 3
    BY <1>1, KeywordFacts, AtKeyword, SoundFacts DEF Sound
  <2>2. Grows
    BY <1>1, SoundFacts, PlainKinds, MakeGrows
  <2>3. CASE /\ Type(index + 2) = "InKeyword"
             /\ GoTo(index + 3) /\ Call(Fresh, Expression, "range")
    <3>1. Type(index + 2) # "EOT"
      BY <2>3
    <3>2. index + 3 \in Reach
      BY <2>1, <3>1, Reaching, LookAhead DEF Sound
    <3> QED BY <1>1, <2>1, <2>2, <2>3, <3>2, SoundFacts, ElsewhereFacts, KeywordCalls
  <2>4. CASE Fail(Fresh)
    BY <2>2, <2>4, FailParses DEF Fail
  <2> QED BY <1>1, <2>3, <2>4
<1>2. CASE /\ At("for", "range")
           /\ LET name      == heap[top.node].token + 1
                  var_decl  == [kind |-> "AST_DECL_VARIABLE", token |-> name, kids |-> {}]
                  init_stmt == [kind |-> "AST_STMT_DECL", token |-> name,
                                kids |-> {<<"declaration", Fresh>>}]
                  wired     == [heap EXCEPT ![top.node].kids =
                                   @ \cup {<<"init", Fresh + 1>>, <<"condition", result>>}]
              IN heap' = wired \o <<var_decl, init_stmt>>
           /\ live' = live \cup {Fresh, Fresh + 1}
           /\ GoTo(index) /\ Call(top.node, "statement", "body")
  <2>1. MakesRange(heap[top.node].token + 1)
    BY <1>2 DEF MakesRange
  <2>2. Grows
    BY <1>2, <2>1, RangeGrows
  <2>3. "for" \in Waiters
    BY DEF Waiters
  <2> QED BY <1>2, <2>2, <2>3, WaitFacts, ElsewhereFacts, WaiterCalls
<1>3. CASE Completes("for", "body", "body")
  BY <1>3, WaitFacts, MakerFacts, PlainKinds, CompletesParses
<1> QED BY <1>1, <1>2, <1>3 DEF parse_for_range

LEMMA ReturnStatementParses ==
    ASSUME Sound, Onward, parse_return_statement
    PROVE  Descends /\ Parses
<1>1. CASE /\ At("return", "entry")
           /\ Make("AST_STMT_RETURN", index, {})
           /\ GoTo(index + 1)
           /\ Return(Fresh) \/ Call(Fresh, Expression, "value")
  <2>1. index + 1 \in Reach /\ index + 1 \in Nat /\ index < index + 1
    BY <1>1, KeywordFacts, AtKeyword, SoundFacts DEF Sound
  <2>2. Grows /\ top.fn \in Ordinary
    BY <1>1, SoundFacts, PlainKinds, MakeGrows, EntryFacts
  <2>3. CASE Return(Fresh)
    BY <2>2, <2>3, OrdinaryReturns
  <2>4. CASE Call(Fresh, Expression, "value")
    BY <1>1, <2>1, <2>2, <2>4, SoundFacts, ElsewhereFacts, KeywordCalls
  <2> QED BY <1>1, <2>3, <2>4
<1>2. CASE Completes("return", "value", "value")
  BY <1>2, WaitFacts, MakerFacts, PlainKinds, CompletesParses
<1> QED BY <1>1, <1>2 DEF parse_return_statement

LEMMA TypeParses ==
    ASSUME Sound, Onward, parse_type
    PROVE  Descends /\ Parses
<1>1. CASE /\ At("type", "entry")
           /\ Make("AST_TYPE_BASIC", index, {})
           /\ Return(Fresh)
  BY <1>1, SoundFacts, PlainKinds, MakeGrows, OrdinaryReturns DEF At
<1>2. CASE /\ At("type", "entry") /\ Type(index) = "OpenSQRBrackets"
           /\ Make("AST_TYPE_ARRAY", index, {})
           /\ IF Type(index + 1) = "CloseSQRBrackets"
              THEN ElementType(Fresh, index + 1)
              ELSE GoTo(index + 1) /\ Call(Fresh, Expression, "size")
  <2>1. top.fn = "type" /\ Grows /\ Type(index) # "EOT"
    BY <1>2, SoundFacts, PlainKinds, MakeGrows DEF At
  <2>2. index + 1 \in Reach
    BY <2>1, Reaching DEF Sound
  <2>3. CASE ElementType(Fresh, index + 1)
    BY <2>1, <2>2, <2>3, SoundFacts, ElementTypeParses
  <2>4. CASE GoTo(index + 1) /\ Call(Fresh, Expression, "size")
    <3>1. index < index'
      BY <2>2, <2>4, Going, SoundFacts
    <3>2. Affords(top, index, Expression, "size", index')
      BY <2>1, <3>1, AffordFacts, OnwardFacts, ElsewhereFacts DEF Expression
    <3> QED BY <2>1, <2>4, <3>2, SoundFacts, PlainKinds, ElsewhereFacts, OrdinaryCalls
  <2> QED BY <1>2, <2>3, <2>4
<1>3. CASE Keep /\ Fail(Null)
  BY <1>3, KeepGrows, FailParses DEF Fail
<1>4. CASE /\ At("type", "size")
           /\ Adopt("size")
           /\ ElementType(top.node, index)
  <2>1. top.fn = "type" /\ Grows
    BY <1>4, WaitFacts, MakerFacts, WaiterAdopts DEF At
  <2> QED BY <1>4, <2>1, Reaching, SoundFacts, ElementTypeParses DEF Sound
<1>5. CASE Completes("type", "element_type", "element_type")
  BY <1>5, WaitFacts, MakerFacts, PlainKinds, CompletesParses
<1> QED BY <1>1, <1>2, <1>3, <1>4, <1>5 DEF parse_type

LEMMA DirectorParses ==
    ASSUME Sound, Onward, parse_director
    PROVE  Descends /\ Parses
<1>1. top.fn = "director" /\ top.fn \in Ordinary
  BY DEF parse_director, At, Ordinary
<1>2. Grows
  BY KeepGrows, DirectorAdopts DEF parse_director
<1>3. PICK i \in 0 .. Len(tokens) : Declarations(i)
  BY DEF parse_director
<1>4. CASE stack' = <<>>
  BY <1>2, <1>4, StopParses
<1>5. CASE Declaration(i) # "none" /\ Call(Null, Declaration(i), "declared")
  <2> DEFINE fn == Declaration(i)
  <2>1. fn \in {"import", "function", "variable", "struct", "enum"}
    BY <1>5 DEF Declaration, Keyword
  <2>2. Call(Null, fn, "declared")
    BY <1>5
  <2> HIDE DEF fn
  <2>3. Affords(top, index, fn, "declared", index')
    BY <1>1, <2>1, AffordFacts, OnwardFacts, ElsewhereFacts
  <2>4. fn \in Ordinary
    BY <2>1, PlainKinds
  <2> QED BY <1>1, <1>2, <2>2, <2>3, <2>4, SoundFacts, ElsewhereFacts, OrdinaryCalls
<1> QED BY <1>3, <1>4, <1>5 DEF Declarations

LEMMA GiveUpParses ==
    ASSUME Sound, Onward, give_up
    PROVE  Descends /\ Parses
BY KeepGrows, FailParses DEF give_up

-----------------------------------------------------------------------------
(* The functions of the expressions.                                       *)

Caller == stack[Len(stack) - 1]
LEMMA TopFacts ==
    ASSUME Sound, top.fn # "director"
    PROVE  /\ Len(stack) > 1 /\ Knows(tokens, heap, top)
           /\ top.at = "entry" /\ Binding(top.fn) > 0 => index = Start(Caller)
           /\ Passes(top.fn, top.at) =>
                 \/ top.op = Start(Caller)
                 \/ top.at # "parenthesis" /\ Tight(tokens, heap, top, result)
           /\ result # Null => /\ result \in 1 .. Len(heap)
                               /\ \/ Tight(tokens, heap, top, result)
                                  \/ InParens(tokens, Start(top), index)
           /\ top.at \in {"right", "value"} => top.node \in 1 .. Len(heap)
           /\ top.op \in Nat
<1>1. Len(stack) \in 1 .. Len(stack) /\ top = stack[Len(stack)]
  BY SoundFacts
<1>2. Len(stack) # 1
  BY <1>1, RunningFacts DEF Sound, Shape
<1>3. Len(stack) > 1 /\ Knows(tokens, heap, top)
  <2>1. Len(stack) \in Nat /\ Len(stack) >= 1
    BY SoundFacts
  <2>2. Knows(tokens, heap, stack[Len(stack)])
    BY <1>1, SoundFacts, Zenon DEF Framed
  <2>3. Knows(tokens, heap, top)
    BY <2>2, <1>1, Zenon
  <2>4. Len(stack) > 1
    <3>1. \A n \in Nat : n >= 1 => n = 1 \/ n > 1
      OBVIOUS
    <3> QED BY <2>1, <1>2, <3>1, Zenon
  <2> QED BY <2>3, <2>4, Zenon
<1>4. result # Null => result \in 1 .. Len(heap)
  BY RunningFacts DEF Sound, Nodes
<1>5. top.at \in {"right", "value"} => top.node \in 1 .. Len(heap)
  BY <1>1, SoundFacts DEF Holds
<1>6. top.op \in Nat
  BY SoundFacts DEF Frame
<1> QED BY <1>1, <1>3, <1>4, <1>5, <1>6, SoundFacts DEF Topped, Caller

(* The function calls fn, and what it knows then.                          *)
LEMMA FrameCalls ==
    ASSUME Sound, Onward, Grows, top.fn # "director", NEW n \in Nat, NEW fn \in Functions,
           NEW at \in Points, Call(n, fn, at), Affords(top, index, fn, at, index'),
           Binding(fn) >= Asks(top.fn, at),
           at = "parenthesis" => Type(index) = "OpenParen",
           at = "right" =>
               /\ Type(index) \in Operators[top.fn]
               /\ Grade(tokens, heap', n) >= Binding(top.fn) \/ Type(index - 1) = "CloseParen",
           top.fn = "assignment" /\ at = "value" =>
               Grade(tokens, heap', n) > 0 \/ Type(index - 1) = "CloseParen",
           Passes(top.fn, at) => top.at = "entry" /\ Binding(top.fn) > 0,
           Binding(fn) > 0 => index' = IF at = "right" \/ top.fn = "unary" THEN index + 1 ELSE index
    PROVE  Descends /\ Parses
<1> DEFINE f == stack'[Len(stack)]
<1>1. Called(stack, stack', n, fn, at, index) /\ result' = Null
  BY CallChanges DEF Sound, Call
<1>2. Descends
  BY <1>1, SoundFacts, OnwardFacts, ShallowCall DEF Descends
<1>3. f.fn = top.fn /\ f.at = at /\ f.node = n /\ f.op = index
  BY <1>1, SoundFacts DEF Called
<1>4. Knows(tokens, heap', f)
  BY <1>3, WordIsType DEF Knows
<1>5. Binding(fn) > 0 => index' = Start(f)
  BY <1>3 DEF Start
<1>6. Passes(top.fn, at) => index = Start(stack[Len(stack) - 1])
  BY TopFacts DEF Caller
<1> HIDE DEF f
<1>7. Framed(tokens, heap', stack') /\ Topped(tokens, heap', stack', result', index')
  BY <1>1, <1>4, <1>5, <1>6, SoundFacts, CallFramed DEF Grows, f
<1> QED BY <1>2, <1>7, GrowthIsBound DEF Parses

(* It goes on behind the operand or the postfix, with n.                   *)
LEMMA FrameGoesRound ==
    ASSUME Sound, Onward, Stays(heap, heap'), NEW n, n # Null,
           NEW at \in {"operand", "postfix"}, Again(n, at),
           Left(top.fn, at) <= Left(top.fn, top.at),
           Grade(tokens, heap', n) >= Asks(top.fn, at)
    PROVE  /\ Descends
           /\ Framed(tokens, heap', stack') /\ Topped(tokens, heap', stack', result', index')
<1>1. at \in Points /\ at # "entry"
  BY DEF Points
<1>2. Turned(stack, stack', top.fn, at) /\ result' = n
  BY <1>1, AgainChanges DEF Sound, Again
<1>3. Descends
  BY <1>2, SoundFacts, OnwardFacts, ShallowTurn DEF Descends
<1>4. Tight(tokens, heap', stack'[Len(stack)], n)
  BY <1>2 DEF Tight, Turned
<1>5. Binding(top.fn) >= Binding(top.fn)
  BY BindingFacts
<1>6. Framed(tokens, heap', stack') /\ Topped(tokens, heap', stack', result', index')
  BY <1>1, <1>2, <1>4, <1>5, SoundFacts, TurnFramed
<1> QED BY <1>3, <1>6

(* It returns what it was given.                                           *)
LEMMA FramePasses ==
    ASSUME Sound, Onward, Keep, top.fn # "director", result # Null, index' = index,
           Passes(top.fn, top.at), top.at # "parenthesis", top.at # "right", top.fn # "unary",
           Asks(top.fn, top.at) = Binding(top.fn), Return(result)
    PROVE  Descends /\ Parses
<1>1. Grows /\ heap' = heap
  BY KeepGrows DEF Keep, memory
<1>2. Graded(tokens, heap') /\ Bound(tokens, heap')
  BY <1>1, GrowthIsBound
<1>3. Grade(tokens, heap', result) \in Nat
  BY <1>1, <1>2, TopFacts, GradeCounts
<1>4. Start(top) = top.op
  BY DEF Start
<1>5. Offers(result)
  BY <1>1, <1>4, TopFacts DEF Offers, Tight, Caller
<1> QED BY <1>1, <1>2, <1>3, <1>5, ReturnFrames DEF Parses, Grows

(* A new operator over operands that bind as they must.                    *)
LEMMA OperatorMakes ==
    ASSUME Sound, Onward, NEW kind \in Operating, NEW kids, Make(kind, top.op, kids),
           kind = "AST_EXPR_BINARY" => \E l \in DOMAIN Levels : Type(top.op) \in Levels[l],
           \A kid \in kids : BindsIn(tokens, heap', Fresh, kid)
    PROVE  /\ Stays(heap, heap') /\ Graded(tokens, heap') /\ Bound(tokens, heap')
           /\ Grade(tokens, heap', Fresh) = GradeOf(kind, Type(top.op))
           /\ Fresh # Null
<1>1. kind \in AstNodeType /\ top.op \in Nat
  BY SoundFacts DEF Operating, AstNodeType, Frame
<1>2. /\ Stays(heap, heap') /\ Len(heap') = Len(heap) + 1
      /\ heap'[Fresh].kind = kind /\ heap'[Fresh].token = top.op /\ heap'[Fresh].kids = kids
  BY <1>1, MakeStays
<1>3. \A n \in Len(heap) + 1 .. Len(heap') : n = Fresh
  BY <1>2, SoundFacts
<1>4. Graded(tokens, heap') /\ Bound(tokens, heap')
  BY <1>2, <1>3, SoundFacts, OnwardFacts, WordIsType, BoundStays
<1>5. Grade(tokens, heap', Fresh) = GradeOf(kind, Type(top.op))
  BY <1>2, WordIsType DEF Grade
<1> QED BY <1>2, <1>4, <1>5, SoundFacts DEF Null

(* The node a step adds is a leaf of the operators.                        *)
LEMMA PlainGrade ==
    ASSUME Sound, NEW kind \in AstNodeType \ Operating, NEW i \in Nat, NEW kids,
           Make(kind, i, kids)
    PROVE  Grows /\ Fresh # Null /\ Grade(tokens, heap', Fresh) = 8
<1>1. heap'[Fresh].kind = kind
  BY MakeStays
<1> QED BY <1>1, MakeGrows, GradeFacts, SoundFacts DEF Grade, Null

LEMMA BinaryParses ==
    ASSUME Sound, Onward, NEW level \in DOMAIN Tighter, parse_binary(level)
    PROVE  Descends /\ Parses
<1>0. /\ \A at : Asks(level, at) = IF at = "right" THEN Binding(level) + 1 ELSE Binding(level)
      /\ Binding(level) \in 1 .. 6 /\ Binding(Tighter[level]) = Binding(level) + 1
      /\ level \notin {"unary", "call", "assignment", "director"}
      /\ Tighter[level] \in Functions
      /\ \A at : Left(level, at) = Left(level, "entry")
      /\ Left(Tighter[level], "entry") + 1 <= Left(level, "entry")
      /\ Left(level, "entry") \in Nat /\ Left(Tighter[level], "entry") \in Nat
  BY BindingFacts, LeftFacts
<1>1. CASE /\ At(level, "entry")
           /\ UNCHANGED index /\ Keep
           /\ Call(Null, Tighter[level], "operand")
  <2>1. top.fn = level /\ top.at = "entry" /\ index' = index /\ Grows
    BY <1>1, KeepGrows DEF At
  <2>2. Affords(top, index, Tighter[level], "operand", index')
    BY <1>0, <2>1, SoundFacts DEF Affords
  <2>3. /\ "operand" \in Points /\ Null \in Nat /\ top.fn # "director"
        /\ Binding(Tighter[level]) >= Asks(top.fn, "operand") /\ Binding(top.fn) > 0
        /\ top.fn # "unary" /\ top.fn # "assignment"
    BY <1>0, <2>1 DEF Points, Null
  <2> QED BY <1>0, <1>1, <2>1, <2>2, <2>3, FrameCalls
<1>2. CASE /\ At(level, "operand")
           /\ Keep
           /\ IF Type(index) \in Operators[level]
              THEN GoTo(index + 1) /\ Call(result, Tighter[level], "right")
              ELSE GoTo(index) /\ Return(result)
  <2>1. top.fn = level /\ top.at = "operand" /\ result # Null /\ Grows /\ heap' = heap
    BY <1>2, KeepGrows DEF At, Keep, memory
  <2>2. CASE /\ Type(index) \in Operators[level]
             /\ GoTo(index + 1) /\ Call(result, Tighter[level], "right")
    <3>1. Type(index) # "EOT"
      BY <2>2 DEF Operators, Tighter
    <3>2. index + 1 \in Reach
      BY <3>1, Reaching DEF Sound
    <3>3. index' = index + 1
      BY <2>2, <3>2, Going
    <3>4. Affords(top, index, Tighter[level], "right", index')
      BY <1>0, <2>1, <3>3, SoundFacts DEF Affords
    <3>5. Grade(tokens, heap', result) >= Binding(level) \/ Type(index - 1) = "CloseParen"
      BY <1>0, <2>1, TopFacts, WordIsType DEF Tight, InParens
    <3>6. /\ ~Passes(top.fn, "right") /\ "right" \in Points /\ result \in Nat
          /\ top.fn # "director" /\ top.fn # "assignment"
          /\ Binding(Tighter[level]) >= Asks(top.fn, "right")
      BY <1>0, <2>1, SoundFacts DEF Passes, Points
    <3> QED BY <1>0, <2>1, <2>2, <3>3, <3>4, <3>5, <3>6, FrameCalls
  <2>3. CASE GoTo(index) /\ Return(result)
    <3>1. index' = index
      BY <2>3, Reaching, Going DEF Sound
    <3>2. Passes(level, "operand")
      BY DEF Passes
    <3> QED BY <1>0, <1>2, <2>1, <2>3, <3>1, <3>2, FramePasses
  <2> QED BY <1>2, <2>2, <2>3
<1>3. CASE /\ At(level, "right")
           /\ UNCHANGED index
           /\ Make("AST_EXPR_BINARY", top.op, {<<"left", top.node>>, <<"right", result>>})
           /\ Again(Fresh, "operand")
  <2> DEFINE kids == {<<"left", top.node>>, <<"right", result>>}
  <2>1. top.fn = level /\ top.at = "right" /\ result # Null
    BY <1>3 DEF At
  <2>2. /\ Type(top.op) \in Operators[level]
        /\ \/ Grade(tokens, heap, top.node) >= Binding(level)
           \/ Word(tokens, top.op - 1) = "CloseParen"
    BY <2>1, <1>0, TopFacts, WordIsType DEF Knows
  <2>3. /\ Binding(level) \in DOMAIN Levels /\ Type(top.op) \in Levels[Binding(level)]
        /\ GradeOf("AST_EXPR_BINARY", Type(top.op)) = Binding(level)
    BY <2>2, OperatorFacts
  <2>4. \/ Grade(tokens, heap, result) >= Binding(level) + 1
        \/ Word(tokens, top.op + 1) = "OpenParen"
    BY <1>0, <2>1, TopFacts DEF Tight, InParens, Start
  <2>5. "AST_EXPR_BINARY" \in Operating \cap AstNodeType /\ top.op \in Nat
    BY SoundFacts DEF Operating, AstNodeType, Frame
  <2>6. /\ Stays(heap, heap') /\ heap'[Fresh].kind = "AST_EXPR_BINARY"
        /\ heap'[Fresh].token = top.op
    BY <1>3, <2>5, MakeStays
  <2>7. /\ Grade(tokens, heap', top.node) = Grade(tokens, heap, top.node)
        /\ Grade(tokens, heap', result) = Grade(tokens, heap, result)
        /\ Grade(tokens, heap, result) \in Nat
        /\ Grade(tokens, heap', Fresh) = Binding(level)
    <3>1. top.node \in 1 .. Len(heap) /\ result \in 1 .. Len(heap)
      BY <1>0, <2>1, TopFacts
    <3>2. Grade(tokens, heap', Fresh) = Binding(level)
      BY <2>3, <2>6, WordIsType DEF Grade
    <3>3. /\ Grade(tokens, heap', top.node) = Grade(tokens, heap, top.node)
          /\ Grade(tokens, heap', result) = Grade(tokens, heap, result)
      BY <2>6, <3>1, GradesStay
    <3>4. Grade(tokens, heap, result) \in Nat
      BY <3>1, GradeCounts, SoundFacts
    <3> QED BY <3>2, <3>3, <3>4
  <2>8. \A kid \in kids : BindsIn(tokens, heap', Fresh, kid)
    <3>1. BindsIn(tokens, heap', Fresh, <<"left", top.node>>)
      BY <2>2, <2>6, <2>7 DEF BindsIn
    <3>2. BindsIn(tokens, heap', Fresh, <<"right", result>>)
      BY <1>0, <2>4, <2>6, <2>7 DEF BindsIn
    <3> QED BY <3>1, <3>2
  <2>9. Make("AST_EXPR_BINARY", top.op, kids)
    BY <1>3
  <2> HIDE DEF kids
  <2>10. Graded(tokens, heap') /\ Bound(tokens, heap') /\ Fresh # Null
    BY <2>3, <2>5, <2>8, <2>9, OperatorMakes
  <2>11. Grade(tokens, heap', Fresh) >= Asks(top.fn, "operand")
    BY <1>0, <2>1, <2>7
  <2>12. Left(top.fn, "operand") <= Left(top.fn, top.at)
    BY <1>0, <2>1
  <2> QED BY <1>3, <2>6, <2>10, <2>11, <2>12, FrameGoesRound DEF Parses
<1> QED BY <1>1, <1>2, <1>3 DEF parse_binary

LEMMA ExpressionTables ==
    /\ \A at : Asks("unary", at) = 7 /\ Asks("primary", at) = 0
    /\ Asks("call", "postfix") = 8 /\ Asks("call", "arguments") = 0
    /\ Asks("assignment", "target") = 1 /\ Asks("assignment", "value") = 0
    /\ Binding("unary") = 7 /\ Binding("call") = 8 /\ Binding("primary") = 8
    /\ Binding("assignment") = 0 /\ Binding("logical_or") = 1
    /\ \A at : Left("unary", at) = 1 /\ Left("call", at) = 1 /\ Left("primary", at) = 0
               /\ Left("assignment", at) = 8
    /\ Left("logical_or", "entry") = 7
    /\ {"unary", "call", "primary", "assignment", "logical_or"} \subseteq Functions
    /\ \A at \in {"target", "value", "arguments"} : ~Passes("assignment", at) /\ ~Passes("call", at)
    /\ ~Passes("unary", "operand") /\ Passes("call", "postfix")
    /\ Passes("primary", "parenthesis")
    /\ {"target", "value", "arguments", "operand", "postfix", "parenthesis"} \subseteq Points
BY DEF Asks, Binding, Left, Ahead, Waiters, Functions, Passes, Tighter, Points

LEMMA UnaryParses ==
    ASSUME Sound, Onward, parse_unary
    PROVE  Descends /\ Parses
<1>1. CASE /\ At("unary", "entry")
           /\ Keep
           /\ IF Type(index) \in {"Not", "MinusOperator"}
              THEN GoTo(index + 1) /\ Call(Null, "unary", "operand")
              ELSE GoTo(index) /\ Become("call")
  <2>1. top.fn = "unary" /\ top.at = "entry" /\ Grows
    BY <1>1, KeepGrows DEF At
  <2>2. CASE /\ Type(index) \in {"Not", "MinusOperator"}
             /\ GoTo(index + 1) /\ Call(Null, "unary", "operand")
    <3>1. Type(index) # "EOT"
      BY <2>2
    <3>2. index' = index + 1
      BY <2>2, <3>1, Reaching, Going DEF Sound
    <3>3. Affords(top, index, "unary", "operand", index')
      BY <2>1, <3>2, ExpressionTables, SoundFacts DEF Affords
    <3> QED BY <2>1, <2>2, <3>2, <3>3, ExpressionTables, SoundFacts, FrameCalls
  <2>3. CASE GoTo(index) /\ Become("call")
    <3>1. index' = index
      BY <2>3, Reaching, Going DEF Sound
    <3> QED BY <2>1, <2>3, <3>1, ExpressionTables, OrdinaryBecomes
  <2> QED BY <1>1, <2>2, <2>3
<1>2. CASE /\ At("unary", "operand")
           /\ Make("AST_EXPR_UNARY", top.op, {<<"operand", result>>})
           /\ Return(Fresh)
  <2>1. top.fn = "unary" /\ top.at = "operand" /\ result # Null
    BY <1>2 DEF At
  <2>2. "AST_EXPR_UNARY" \in Operating \cap AstNodeType /\ top.op \in Nat
    BY SoundFacts DEF Operating, AstNodeType, Frame
  <2>3. Stays(heap, heap') /\ heap'[Fresh].kind = "AST_EXPR_UNARY" /\ heap'[Fresh].token = top.op
    BY <1>2, <2>2, MakeStays
  <2>4. Grade(tokens, heap, result) >= 7 \/ Word(tokens, top.op + 1) = "OpenParen"
    BY <2>1, ExpressionTables, TopFacts DEF Tight, InParens, Start
  <2>5. Grade(tokens, heap', result) = Grade(tokens, heap, result)
    BY <2>1, <2>3, TopFacts, GradesStay
  <2>6. BindsIn(tokens, heap', Fresh, <<"operand", result>>)
    BY <2>3, <2>4, <2>5 DEF BindsIn
  <2>7. /\ Graded(tokens, heap') /\ Bound(tokens, heap')
        /\ Grade(tokens, heap', Fresh) = GradeOf("AST_EXPR_UNARY", Type(top.op))
    BY <1>2, <2>2, <2>6, OperatorMakes
  <2>8. Grade(tokens, heap', Fresh) = 7
    BY <2>7, GradeFacts
  <2>9. Offers(Fresh)
    BY <2>1, <2>8, ExpressionTables DEF Offers
  <2> QED BY <1>2, <2>3, <2>7, <2>8, <2>9, ReturnFrames DEF Parses
<1> QED BY <1>1, <1>2 DEF parse_unary

LEMMA CallParses ==
    ASSUME Sound, Onward, parse_call
    PROVE  Descends /\ Parses
<1>1. CASE /\ At("call", "entry")
           /\ UNCHANGED index /\ Keep
           /\ Call(Null, "primary", "postfix")
  <2>1. top.fn = "call" /\ top.at = "entry" /\ Grows /\ index' = index
    BY <1>1, KeepGrows DEF At
  <2>2. Affords(top, index, "primary", "postfix", index')
    BY <2>1, ExpressionTables, SoundFacts DEF Affords
  <2> QED BY <1>1, <2>1, <2>2, ExpressionTables, SoundFacts, FrameCalls
<1>2. ASSUME top.fn = "call", NEW kind \in {"AST_EXPR_CALL", "AST_EXPR_MEMBER"}, NEW i \in Nat,
             NEW kids, Make(kind, i, kids), Again(Fresh, "postfix")
      PROVE  Descends /\ Parses
  <2>1. Grows /\ Fresh # Null /\ Grade(tokens, heap', Fresh) = 8
    BY <1>2, PlainKinds, PlainGrade
  <2>2. /\ Left(top.fn, "postfix") <= Left(top.fn, top.at)
        /\ Grade(tokens, heap', Fresh) >= Asks(top.fn, "postfix")
    BY <1>2, <2>1, ExpressionTables
  <2> QED BY <1>2, <2>1, <2>2, FrameGoesRound, GrowthIsBound DEF Parses, Grows
<1>3. ASSUME top.fn = "call", Grows, Type(index) # "EOT", GoTo(index + 1), NEW n \in Nat,
             Call(n, Expression, "arguments")
      PROVE  Descends /\ Parses
  <2>1. index' = index + 1
    BY <1>3, Reaching, Going DEF Sound
  <2>2. Affords(top, index, "assignment", "arguments", index')
    BY <1>3, <2>1, ExpressionTables, SoundFacts DEF Affords
  <2>3. /\ Call(n, "assignment", "arguments")
        /\ "assignment" \in Functions /\ "arguments" \in Points
        /\ Binding("assignment") = 0 /\ Asks(top.fn, "arguments") = 0
        /\ ~Passes(top.fn, "arguments") /\ top.fn # "director" /\ top.fn # "assignment"
    BY <1>3, ExpressionTables DEF Expression
  <2> QED BY <1>3, <2>2, <2>3, FrameCalls
<1>4. CASE /\ At("call", "postfix") /\ Type(index) = "OpenParen"
           /\ Make("AST_EXPR_CALL", heap[result].token, {<<"callee", result>>})
           /\ IF Type(index + 1) = "CloseParen"
              THEN GoTo(index + 2) /\ Again(Fresh, "postfix")
              ELSE GoTo(index + 1) /\ Call(Fresh, Expression, "arguments")
  <2>1. top.fn = "call" /\ heap[result].token \in Nat
    BY <1>4, ResultToken DEF At, Sound
  <2>2. Grows
    BY <1>4, <2>1, PlainKinds, MakeGrows
  <2>3. CASE Again(Fresh, "postfix")
    BY <1>2, <1>4, <2>1, <2>3
  <2>4. CASE GoTo(index + 1) /\ Call(Fresh, Expression, "arguments")
    BY <1>3, <1>4, <2>1, <2>2, <2>4, SoundFacts
  <2> QED BY <1>4, <2>3, <2>4
<1>5. CASE /\ At("call", "postfix")
           /\ Make("AST_EXPR_MEMBER", index + 1, {<<"object", result>>})
           /\ Again(Fresh, "postfix")
  BY <1>2, <1>5, SoundFacts DEF At
<1>6. CASE Keep /\ Fail(result)
  BY <1>6, KeepGrows, FailParses DEF Fail
<1>7. CASE /\ At("call", "postfix")
           /\ UNCHANGED index /\ Keep /\ Return(result)
  <2>1. top.fn = "call" /\ top.at = "postfix" /\ result # Null /\ index' = index
    BY <1>7 DEF At
  <2> QED BY <1>7, <2>1, ExpressionTables, FramePasses
<1>8. CASE /\ At("call", "arguments")
           /\ Adopt("arguments")
           /\ CASE Type(index) = "Comma"      -> /\ GoTo(index + 1)
                                                 /\ Call(top.node, Expression, "arguments")
                [] Type(index) = "CloseParen" -> GoTo(index + 1) /\ Again(top.node, "postfix")
                [] OTHER                      -> GoTo(index) /\ Fail(top.node)
  <2>1. /\ top.fn = "call" /\ top.at = "arguments" /\ top.at \in Waits /\ Grows
        /\ "call" \in DOMAIN Maker
    BY <1>8, WaitFacts, MakerFacts, WaiterAdopts DEF At
  <2>2. CASE /\ Type(index) = "Comma"
             /\ GoTo(index + 1) /\ Call(top.node, Expression, "arguments")
    <3>1. Type(index) # "EOT"
      BY <2>2
    <3> QED BY <1>3, <2>1, <2>2, <3>1, SoundFacts
  <2>3. CASE Again(top.node, "postfix")
    <3>1. top.node # Null /\ heap[top.node].kind = "AST_EXPR_CALL" /\ top.node \in 1 .. Len(heap)
      BY <2>1, AtWait, MakerFacts, RunningFacts DEF Sound, Maker, Nodes
    <3>2. Grade(tokens, heap', top.node) = 8
      BY <2>1, <3>1, GradeFacts DEF Grows, Stays, Grade, Operating
    <3>3. /\ Left(top.fn, "postfix") <= Left(top.fn, top.at)
          /\ Grade(tokens, heap', top.node) >= Asks(top.fn, "postfix")
      BY <2>1, <3>2, ExpressionTables
    <3> QED BY <2>1, <2>3, <3>1, <3>3, FrameGoesRound, GrowthIsBound DEF Parses, Grows
  <2>4. CASE Fail(top.node)
    BY <2>1, <2>4, FailParses DEF Fail
  <2> QED BY <1>8, <2>2, <2>3, <2>4
<1> QED BY <1>1, <1>4, <1>5, <1>6, <1>7, <1>8 DEF parse_call

LEMMA PrimaryParses ==
    ASSUME Sound, Onward, parse_primary
    PROVE  Descends /\ Parses
<1>1. CASE /\ At("primary", "entry")
           /\ Make(IF Type(index) = "Identifier" THEN "AST_EXPR_IDENTIFIER"
                                                 ELSE "AST_EXPR_LITERAL", index, {})
           /\ Return(Fresh)
  <2>1. Grows /\ Fresh # Null /\ Grade(tokens, heap', Fresh) = 8
    BY <1>1, SoundFacts, PlainKinds, PlainGrade
  <2>2. Offers(Fresh)
    BY <1>1, <2>1, ExpressionTables DEF Offers, At
  <2> QED BY <1>1, <2>1, <2>2, ReturnFrames, GrowthIsBound DEF Parses, Grows
<1>2. CASE /\ At("primary", "entry") /\ Type(index) = "OpenParen"
           /\ Keep
           /\ GoTo(index + 1) /\ Call(Null, Expression, "parenthesis")
  <2>1. top.fn = "primary" /\ top.at = "entry" /\ Grows /\ Type(index) # "EOT"
    BY <1>2, KeepGrows DEF At
  <2>2. index' = index + 1
    BY <1>2, <2>1, Reaching, Going DEF Sound
  <2>3. Affords(top, index, "assignment", "parenthesis", index')
    BY <2>1, <2>2, ExpressionTables, SoundFacts DEF Affords
  <2> QED BY <1>2, <2>1, <2>3, ExpressionTables, SoundFacts, FrameCalls DEF Expression
<1>3. CASE Keep /\ Fail(Null)
  BY <1>3, KeepGrows, FailParses DEF Fail
<1>4. CASE /\ At("primary", "parenthesis")
           /\ Keep
           /\ IF Type(index) = "CloseParen" THEN GoTo(index + 1) /\ Return(result)
                                            ELSE GoTo(index) /\ Fail(result)
  <2>1. top.fn = "primary" /\ top.at = "parenthesis" /\ result # Null /\ Grows /\ heap' = heap
    BY <1>4, KeepGrows DEF At, Keep, memory
  <2>2. CASE Type(index) = "CloseParen" /\ GoTo(index + 1) /\ Return(result)
    <3>1. Type(index) # "EOT"
      BY <2>2
    <3>2. index' = index + 1
      BY <2>2, <3>1, Reaching, Going DEF Sound
    <3>3. Word(tokens, top.op) = "OpenParen" /\ top.op = Start(Caller)
      BY <2>1, ExpressionTables, TopFacts DEF Knows
    <3>4. index' - 1 = index
      BY <3>2, SoundFacts
    <3>5. Offers(result)
      BY <2>2, <3>3, <3>4, WordIsType DEF Offers, InParens, Caller
    <3>6. Graded(tokens, heap') /\ Bound(tokens, heap')
      BY <2>1, GrowthIsBound
    <3>7. Grade(tokens, heap', result) \in Nat
      BY <2>1, <3>6, TopFacts, GradeCounts
    <3> QED BY <2>1, <2>2, <3>5, <3>6, <3>7, ReturnFrames DEF Parses, Grows
  <2>3. CASE Fail(result)
    BY <2>1, <2>3, FailParses DEF Fail
  <2> QED BY <1>4, <2>2, <2>3
<1> QED BY <1>1, <1>2, <1>3, <1>4 DEF parse_primary

LEMMA AssignmentParses ==
    ASSUME Sound, Onward, parse_assignment
    PROVE  Descends /\ Parses
<1>1. CASE /\ At("assignment", "entry")
           /\ UNCHANGED index /\ Keep
           /\ Call(Null, "logical_or", "target")
  <2>1. top.fn = "assignment" /\ top.at = "entry" /\ Grows /\ index' = index
    BY <1>1, KeepGrows DEF At
  <2>2. Affords(top, index, "logical_or", "target", index')
    BY <2>1, ExpressionTables, SoundFacts DEF Affords
  <2> QED BY <1>1, <2>1, <2>2, ExpressionTables, SoundFacts, FrameCalls
<1>2. CASE /\ At("assignment", "target")
           /\ GoTo(index + AssignLength) /\ Keep
           /\ IF AssignLength = 0 THEN Return(result) ELSE Call(result, "assignment", "value")
  <2>1. top.fn = "assignment" /\ top.at = "target" /\ result # Null /\ Grows /\ heap' = heap
    BY <1>2, KeepGrows DEF At, Keep, memory
  <2>2. Graded(tokens, heap') /\ Bound(tokens, heap')
    BY <2>1, GrowthIsBound
  <2>3. Grade(tokens, heap', result) \in Nat
    BY <2>1, <2>2, TopFacts, GradeCounts
  <2>4. CASE Return(result)
    <3>1. Offers(result)
      BY <2>1, <2>3, ExpressionTables DEF Offers
    <3> QED BY <2>1, <2>2, <2>3, <2>4, <3>1, ReturnFrames DEF Parses, Grows
  <2>5. CASE AssignLength # 0 /\ Call(result, "assignment", "value")
    <3>1. index < index'
      <4>1. CASE AssignLength = 1 /\ Type(index) # "EOT"
        <5>1. index + AssignLength \in Reach /\ index < index + AssignLength
          BY <4>1, Reaching, SoundFacts DEF Sound
        <5> QED BY <1>2, <5>1, Going
      <4>2. CASE AssignLength = 2 /\ Type(index) # "EOT" /\ Type(index + 1) # "EOT"
        <5>1. index + AssignLength \in Reach /\ index < index + AssignLength
          BY <4>2, Reaching, LookAhead, SoundFacts DEF Sound
        <5> QED BY <1>2, <5>1, Going
      <4> QED BY <2>5, <4>1, <4>2 DEF AssignLength
    <3>2. Affords(top, index, "assignment", "value", index')
      BY <2>1, <3>1, ExpressionTables, SoundFacts, OnwardFacts DEF Affords
    <3>3. Grade(tokens, heap', result) > 0 \/ Type(index - 1) = "CloseParen"
      <4>1. top.fn # "director"
        BY <2>1
      <4>2. Grade(tokens, heap, result) >= 1 \/ Word(tokens, index - 1) = "CloseParen"
        BY <2>1, <4>1, ExpressionTables, TopFacts DEF Tight, InParens
      <4> QED BY <2>1, <2>3, <4>2, WordIsType
    <3> QED BY <2>1, <2>5, <3>2, <3>3, ExpressionTables, SoundFacts, FrameCalls
  <2> QED BY <1>2, <2>4, <2>5
<1>3. CASE /\ At("assignment", "value")
           /\ Make("AST_EXPR_ASSIGN", top.op, {<<"target", top.node>>, <<"value", result>>})
           /\ Return(Fresh)
  <2> DEFINE kids == {<<"target", top.node>>, <<"value", result>>}
  <2>1. top.fn = "assignment" /\ top.at = "value" /\ result # Null
    BY <1>3 DEF At
  <2>2. "AST_EXPR_ASSIGN" \in Operating \cap AstNodeType /\ top.op \in Nat
    BY SoundFacts DEF Operating, AstNodeType, Frame
  <2>3. Stays(heap, heap') /\ heap'[Fresh].kind = "AST_EXPR_ASSIGN" /\ heap'[Fresh].token = top.op
    BY <1>3, <2>2, MakeStays
  <2>4. Grade(tokens, heap, top.node) > 0 \/ Word(tokens, top.op - 1) = "CloseParen"
    BY <2>1, TopFacts DEF Knows
  <2>5. Grade(tokens, heap', top.node) = Grade(tokens, heap, top.node)
    BY <2>1, <2>3, TopFacts, GradesStay
  <2>6. \A kid \in kids : BindsIn(tokens, heap', Fresh, kid)
    <3>1. BindsIn(tokens, heap', Fresh, <<"target", top.node>>)
      BY <2>3, <2>4, <2>5 DEF BindsIn
    <3>2. BindsIn(tokens, heap', Fresh, <<"value", result>>)
      BY DEF BindsIn
    <3> QED BY <3>1, <3>2
  <2>7. Make("AST_EXPR_ASSIGN", top.op, kids)
    BY <1>3
  <2> HIDE DEF kids
  <2>8. /\ Graded(tokens, heap') /\ Bound(tokens, heap')
        /\ Grade(tokens, heap', Fresh) = GradeOf("AST_EXPR_ASSIGN", Type(top.op))
    BY <2>2, <2>6, <2>7, OperatorMakes
  <2>9. Grade(tokens, heap', Fresh) = 0
    BY <2>8, GradeFacts
  <2>10. Offers(Fresh)
    BY <2>1, <2>9, ExpressionTables DEF Offers
  <2> QED BY <1>3, <2>3, <2>8, <2>9, <2>10, ReturnFrames DEF Parses
<1> QED BY <1>1, <1>2, <1>3 DEF parse_assignment

-----------------------------------------------------------------------------
(* Every step.                                                             *)

LEMMA ParseStepParses ==
    ASSUME Sound, Onward, parse_step
    PROVE  Descends /\ Parses
BY DirectorParses, ImportParses, PrimaryParses, FunctionParses, NameParses, VariableParses,
   StructParses, EnumParses, StatementParses, BlockParses, IfParses, WhileParses,
   ForRangeParses, ForClausesParse, ReturnStatementParses, AssignmentParses, BinaryParses,
   UnaryParses, CallParses, TypeParses, GiveUpParses DEF parse_step

LEMMA StepsGoOnward ==
    ASSUME IInv, parse_step
    PROVE  Onward
<1>1. IInv' /\ (Moved \/ Halted) /\ UNCHANGED file
  BY ParseStep DEF parse_step
<1>2. Forward
  BY <1>1 DEF Moved, Halted
<1>3. index \in Nat /\ EndOf \in Nat
  BY EndFacts DEF IInv, TypeOK
<1> QED BY <1>1, <1>2, <1>3 DEF Forward, Onward

LEMMA StartParses ==
    ASSUME IInv, Precedence, parser_parse
    PROVE  Descends /\ Parses
<1> DEFINE new == [kind |-> "AST_PROGRAM", token |-> 0, kids |-> {}]
           frame == [fn |-> "director", at |-> "entry", node |-> Null, op |-> 0]
<1>1. /\ heap \in Seq(Node) /\ Len(heap) \in Nat /\ index \in Nat
      /\ \A n \in 1 .. Len(heap) : heap[n].kids \subseteq Members(heap[n].kind) \X (1 .. Len(heap))
  BY EndFacts DEF IInv, TypeOK, Nodes
<1>2. heap' = Append(heap, new) /\ stack' = <<frame>> /\ index' = index
  BY DEF parser_parse, Make
<1>3. /\ new.kids = {} /\ new.kind = "AST_PROGRAM"
      /\ frame.fn = "director" /\ frame.at = "entry"
  OBVIOUS
<1> HIDE DEF new, frame
<1>4. /\ Len(heap') = Len(heap) + 1 /\ heap'[Len(heap) + 1] = new
      /\ \A m \in 1 .. Len(heap) : heap'[m] = heap[m]
  BY <1>1, <1>2
<1>5. Len(stack') = 1 /\ stack'[1] = frame
  BY <1>2
<1>6. Stays(heap, heap') /\ InHeap(heap)
  BY <1>1, <1>4 DEF Stays, InHeap
<1>7. InHeap(heap')
  <2>1. ASSUME NEW n \in 1 .. Len(heap')
        PROVE  heap'[n].kids \subseteq Members(heap'[n].kind) \X (1 .. Len(heap'))
    <3>1. CASE n \in 1 .. Len(heap)
      <4>1. heap'[n] = heap[n] /\ heap[n].kids \subseteq Members(heap[n].kind) \X (1 .. Len(heap))
        BY <1>1, <1>4, <3>1
      <4>2. 1 .. Len(heap) \subseteq 1 .. Len(heap')
        BY <1>1, <1>4
      <4> QED BY <4>1, <4>2
    <3>2. CASE n = Len(heap) + 1
      BY <1>3, <1>4, <3>2
    <3> QED BY <1>1, <1>4, <3>1, <3>2
  <2> QED BY <2>1, <1>1, <1>4 DEF InHeap
<1>8. \A n \in Len(heap) + 1 .. Len(heap') : heap'[n].kind \notin Operating
  <2>1. \A n \in Len(heap) + 1 .. Len(heap') : n = Len(heap) + 1
    BY <1>1, <1>4
  <2> QED BY <2>1, <1>3, <1>4 DEF Operating
<1>9. Graded(tokens, heap') /\ Bound(tokens, heap')
  BY <1>6, <1>7, <1>8, BoundGrows DEF Precedence
<1>10. Descends
  <2>1. Left("director", "entry") = 1
    BY DEF Left, Ahead
  <2> QED BY <1>1, <1>2, <1>3, <1>5, <2>1 DEF Descends, Shallow
<1>11. Framed(tokens, heap', stack') /\ Topped(tokens, heap', stack', result', index')
  BY <1>3, <1>5 DEF Framed, Topped, Knows
<1> QED BY <1>9, <1>10, <1>11 DEF Parses

(* A step leads from a state in which the calls are shallow and the tree   *)
(* is bound as the operators bind to another one, whatever the step is.    *)
LEMMA StepKeepsPrecedence ==
    ASSUME IInv, Descent, Precedence, [Next]_vars
    PROVE  Descent' /\ Precedence'
<1>1. CASE parse_step \/ parser_parse
  <2>1. tokens' = tokens
    BY <1>1 DEF parse_step, parser_parse, tokens
  <2>2. Descends /\ Parses
    BY <1>1, StepsGoOnward, ParseStepParses, StartParses DEF Sound, Running, parse_step
  <2> QED BY <2>1, <2>2 DEF Descends, Parses, Descent, Precedence
<1>2. CASE UNCHANGED <<file, index, stack, result, heap>>
  BY <1>2 DEF Descent, Precedence, tokens
<1>3. CASE free_node \/ parser_report_error \/ parser_deinit \/ UNCHANGED vars
  BY <1>2, <1>3 DEF free_node, parser_report_error, parser_deinit, memory, vars
<1> QED BY <1>1, <1>3 DEF Next

(* In every state the calls can go no deeper than what has been read       *)
(* allows, every frame knows the operator it waits behind, and the tree is *)
(* bound as the operators bind (parser.c:376-1450).                        *)
THEOREM ParseInvariance == Spec => [](Descent /\ Precedence)
<1>1. parser_init => Descent /\ Precedence
  <2>1. ASSUME parser_init PROVE Descent /\ Precedence
    <3>1. Len(stack) = 0 /\ Len(heap) = 0
      BY <2>1 DEF parser_init
    <3> QED BY <3>1 DEF Descent, Precedence, Shallow, Graded, Bound, Framed, Topped
  <2> QED BY <2>1
<1>2. Descent /\ Precedence /\ IInv /\ [Next]_vars => (Descent /\ Precedence)'
  BY StepKeepsPrecedence
<1> QED BY <1>1, <1>2, Invariance, PTL DEF Spec

(* For every file the recursion is bounded by what has been read: nine     *)
(* calls for every token, and the two that are there before the first one  *)
(* (parser.c:376-1450).                                                    *)
THEOREM DepthIsBounded == Spec => []DepthBounded
<1>1. ASSUME IInv, Descent PROVE DepthBounded
  <2>1. Len(stack) \in Nat /\ index \in Nat
    BY <1>1, EndFacts DEF IInv, TypeOK
  <2>2. CASE Len(stack) = 0
    BY <2>1, <2>2 DEF DepthBounded
  <2>3. CASE Len(stack) # 0
    <3>1. Len(stack) \in 1 .. Len(stack)
      BY <2>1, <2>3
    <3>2. Len(stack) + Left(top.fn, top.at) <= 2 + 9 * index
      BY <1>1, <3>1 DEF Descent, Shallow, top
    <3>3. Left(top.fn, top.at) \in Nat
      BY LeftFacts
    <3> QED BY <2>1, <3>2, <3>3 DEF DepthBounded
  <2> QED BY <2>2, <2>3
<1> QED BY <1>1, Invariance, ParseInvariance, PTL

(* For every file the tree is the one the levels of the operators promise, *)
(* in every node that was ever made and not only in those of an accepted   *)
(* file (parser.c:1077-1290).                                              *)
THEOREM OperatorsKeepPrecedence == Spec => []PrecedenceRespected
<1>1. ASSUME Precedence PROVE PrecedenceRespected
  <2>1. \A n : Tightness(n) = Grade(tokens, heap, n)
    BY WordIsType DEF Tightness, Grade, GradeOf
  <2>2. ASSUME NEW n \in Nodes, NEW kid \in heap[n].kids PROVE Binds(n, kid)
    <3>1. BindsIn(tokens, heap, n, kid)
      BY <1>1 DEF Precedence, Bound, Nodes
    <3> QED BY <2>1, <3>1, WordIsType DEF Binds, BindsIn
  <2> QED BY <2>2 DEF PrecedenceRespected
<1> QED BY <1>1, ParseInvariance, PTL
=============================================================================
