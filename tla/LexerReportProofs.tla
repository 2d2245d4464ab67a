-------------------------- MODULE LexerReportProofs --------------------------
(***************************************************************************)
(* Proofs about the characters that are in no token, for every text: what  *)
(* the lexer skips, how it counts the line on the way, and where and with  *)
(* which piece of the text it reports a failure.                           *)
(***************************************************************************)
EXTENDS LexerLexemeProofs, Extremes, FiniteSetTheorems

Idle == {"director", "space", "eot"}

(* The newlines among the positions of S, and before position i.           *)
NewlineAt(t, i) == IF Ch(t, i) = Newline THEN 1 ELSE 0
NewlinesIn(t, S) == Cardinality({p \in S : Ch(t, p) = Newline})
Passed(t, i) == NewlinesIn(t, 0 .. i - 1)

(* What Skips and Tiles say, of any text.                                  *)
EndsLineIn(t, p) == Ch(t, p) = Newline \/ p = Len(t)
RestOfLineIn(t, a, b) == EndsLineIn(t, b) /\ \A p \in a .. b - 1 : ~EndsLineIn(t, p)
OpenIn(t, p) == Ch(t, p) = "/" /\ Ch(t, p + 1) = "*"
CloseIn(t, p) == Ch(t, p) = "*" /\ Ch(t, p + 1) = "/"
MarkIn(t, p) == OpenIn(t, p) \/ CloseIn(t, p)
OpenedBy(t, marks, p) == {m \in marks : m + 1 < p /\ OpenIn(t, m)}
ClosedBy(t, marks, p) == {m \in marks : m + 1 < p /\ CloseIn(t, m)}
DepthIn(t, marks, p) == Cardinality(OpenedBy(t, marks, p)) - Cardinality(ClosedBy(t, marks, p))

(* A nested comment has come from a to b by these marks.                   *)
Nested(t, a, b, marks) ==
    /\ marks \in SUBSET {p \in a .. b - 2 : MarkIn(t, p)}
    /\ a \in marks /\ OpenIn(t, a)
    /\ \A p \in a + 1 .. b - 2 : MarkIn(t, p) => (p \in marks <=> p - 1 \notin marks)
    /\ \A p \in a + 2 .. b - 1 : DepthIn(t, marks, p) > 0

SkipsIn(t, a, b) ==
    \/ b = a + 1 /\ Ch(t, a) \in Separator
    \/ Ch(t, a) = "/" /\ Ch(t, a + 1) = "/" /\ RestOfLineIn(t, a, b)
    \/ Ch(t, a) = "#" /\ RestOfLineIn(t, a, b - 1)
    \/ \E marks : Nested(t, a, b, marks) /\ (DepthIn(t, marks, b) = 0 \/ b = Len(t))
TilesIn(t, cuts, a, b) ==
    /\ {a, b} \subseteq cuts
    /\ \A c \in cuts \ {b} : \E d \in cuts : /\ c < d /\ SkipsIn(t, c, d)
                                            /\ \A e \in cuts : ~(c < e /\ e < d)

(* The gaps of the tokens s, the last of which goes up to h.               *)
PrefixedIn(s, i) == i \in DOMAIN s /\ s[i].type \in {"DotDot", "BuiltinId"}
GapStartIn(s, i) == IF i = 1 THEN 0 ELSE End(s[i - 1])
GapEndIn(s, i, h) == IF i > Len(s) THEN h
                     ELSE IF PrefixedIn(s, i) THEN s[i].index - 1 ELSE s[i].index
PrefixIn(t, type, p) == /\ type = "DotDot" => Ch(t, p) = "."
                        /\ type = "BuiltinId" => Ch(t, p) = "@"

(* The cuts tile every gap up to h.                                        *)
Covered(t, s, h, cuts) ==
    /\ \A i \in 1 .. Len(s) + 1 :
          /\ GapStartIn(s, i) \in 0 .. h /\ GapEndIn(s, i, h) \in 0 .. h
          /\ TilesIn(t, cuts \cap (GapStartIn(s, i) .. GapEndIn(s, i, h)),
                     GapStartIn(s, i), GapEndIn(s, i, h))
    /\ \A c \in cuts : \E i \in 1 .. Len(s) + 1 : c \in GapStartIn(s, i) .. GapEndIn(s, i, h)
    /\ \A i \in 1 .. Len(s) : PrefixIn(t, s[i].type, GapEndIn(s, i, h))

(* ... and k lines go to the start of the text, to the newlines that are   *)
(* skipped and to those that gave a Terminator.                            *)
EmptyTerminator(token) == token.type = "Terminator" /\ token.length = 0
GivenBy(s) == Cardinality({i \in DOMAIN s : EmptyTerminator(s[i])})
Settled(t, s, h, k) ==
    \E cuts \in SUBSET (0 .. h) :
        Covered(t, s, h, cuts) /\ k = 1 + NewlinesIn(t, cuts \ {h}) + GivenBy(s)

-----------------------------------------------------------------------------
(* The count.                                                              *)

LEMMA NewlinesAdd ==
    ASSUME NEW t, NEW S, IsFiniteSet(S)
    PROVE  /\ NewlinesIn(t, S) \in Nat
           /\ \A x : x \notin S => NewlinesIn(t, S \cup {x}) = NewlinesIn(t, S) + NewlineAt(t, x)
<1> DEFINE N(T) == {p \in T : Ch(t, p) = Newline}
<1>1. IsFiniteSet(N(S))
      BY FS_Subset
<1>2. NewlinesIn(t, S) \in Nat
      BY <1>1, FS_CardinalityType DEF NewlinesIn
<1>3. ASSUME NEW x, x \notin S
      PROVE  NewlinesIn(t, S \cup {x}) = NewlinesIn(t, S) + NewlineAt(t, x)
  <2>1. CASE Ch(t, x) = Newline
    <3>1. N(S \cup {x}) = N(S) \cup {x} /\ x \notin N(S)
          BY <1>3, <2>1
    <3> HIDE DEF N
    <3>2. Cardinality(N(S) \cup {x}) = Cardinality(N(S)) + 1
          BY <1>1, <3>1, FS_AddElement
    <3>3. Cardinality(N(S \cup {x})) = Cardinality(N(S)) + 1
          BY <3>1, <3>2
    <3> QED BY <2>1, <3>3 DEF NewlinesIn, NewlineAt, N
  <2>2. CASE Ch(t, x) # Newline
    <3>1. N(S \cup {x}) = N(S)
          BY <1>3, <2>2
    <3> HIDE DEF N
    <3>2. Cardinality(N(S \cup {x})) = Cardinality(N(S))
          BY <3>1
    <3>3. Cardinality(N(S)) + 0 = Cardinality(N(S))
          BY <1>1, FS_CardinalityType
    <3> QED BY <2>2, <3>2, <3>3 DEF NewlinesIn, NewlineAt, N
  <2> QED BY <2>1, <2>2
<1> QED BY <1>2, <1>3

LEMMA PassedNext ==
    ASSUME NEW t, NEW i \in Nat
    PROVE  Passed(t, i) \in Nat /\ Passed(t, i + 1) = Passed(t, i) + NewlineAt(t, i)
<1> DEFINE S == 0 .. i - 1
<1>1. IsFiniteSet(S)
      BY FS_Interval
<1>2. 0 .. i + 1 - 1 = S \cup {i} /\ i \notin S
      OBVIOUS
<1>3. Passed(t, i) = NewlinesIn(t, S) /\ Passed(t, i + 1) = NewlinesIn(t, 0 .. i + 1 - 1)
      BY DEF Passed
<1> HIDE DEF S
<1>4. Passed(t, i + 1) = NewlinesIn(t, S \cup {i})
      BY <1>2, <1>3
<1> QED BY <1>1, <1>2, <1>3, <1>4, NewlinesAdd

LEMMA CutsFinite ==
    ASSUME NEW t, NEW h \in Nat, NEW cuts \in SUBSET (0 .. h), NEW x
    PROVE  IsFiniteSet(cuts \ {x}) /\ NewlinesIn(t, cuts \ {x}) \in Nat
<1>1. IsFiniteSet(0 .. h)
      BY FS_Interval
<1>2. IsFiniteSet(cuts \ {x})
      BY <1>1, FS_Subset
<1> QED BY <1>2, NewlinesAdd

LEMMA GivenIsNat ==
    ASSUME NEW s \in Seq(Token)
    PROVE  /\ IsFiniteSet({i \in DOMAIN s : EmptyTerminator(s[i])})
           /\ GivenBy(s) \in Nat
<1>1. IsFiniteSet(1 .. Len(s)) /\ DOMAIN s = 1 .. Len(s)
      BY FS_Interval
<1>2. IsFiniteSet({i \in DOMAIN s : EmptyTerminator(s[i])})
      BY <1>1, FS_Subset
<1> QED BY <1>2, FS_CardinalityType DEF GivenBy

LEMMA GivenAdds ==
    ASSUME NEW s \in Seq(Token), NEW token \in Token
    PROVE  /\ EmptyTerminator(token) => GivenBy(Append(s, token)) = GivenBy(s) + 1
           /\ ~EmptyTerminator(token) => GivenBy(Append(s, token)) = GivenBy(s)
<1> DEFINE long == Append(s, token)
           E(q) == {i \in DOMAIN q : EmptyTerminator(q[i])}
           n == Len(s) + 1
<1>1. /\ Len(s) \in Nat /\ DOMAIN s = 1 .. Len(s) /\ DOMAIN long = 1 .. n
      /\ \A i \in 1 .. Len(s) : long[i] = s[i]
      /\ long[n] = token
      BY AppendProperties
<1>2. IsFiniteSet(E(s)) /\ Cardinality(E(s)) \in Nat /\ n \notin E(s)
  <2>1. IsFiniteSet(E(s))
        BY GivenIsNat
  <2>2. n \notin E(s)
        BY <1>1
  <2> HIDE DEF E
  <2> QED BY <2>1, <2>2, FS_CardinalityType
<1>3. CASE EmptyTerminator(token)
  <2>1. E(long) = E(s) \cup {n}
        BY <1>1, <1>3
  <2> HIDE DEF E, n, long
  <2>2. Cardinality(E(long)) = Cardinality(E(s)) + 1
        BY <1>2, <2>1, FS_AddElement
  <2> QED BY <1>2, <1>3, <2>2 DEF GivenBy, E, long
<1>4. CASE ~EmptyTerminator(token)
  <2>1. E(long) = E(s)
        BY <1>1, <1>4
  <2> HIDE DEF E, n, long
  <2>2. Cardinality(E(long)) = Cardinality(E(s))
        BY <2>1
  <2> QED BY <1>2, <1>4, <2>2 DEF GivenBy, E, long
<1> QED BY <1>3, <1>4

-----------------------------------------------------------------------------
(* The gaps: one grows by what is skipped, and ends where a token starts.  *)

LEMMA TilesGrow ==
    ASSUME NEW t, NEW a \in Nat, NEW b \in Nat, NEW c \in Nat, b < c,
           NEW cuts \in SUBSET (a .. b), TilesIn(t, cuts, a, b), SkipsIn(t, b, c)
    PROVE  TilesIn(t, cuts \cup {c}, a, c)
<1>1. {a, b} \subseteq cuts
      BY DEF TilesIn
<1>2. ASSUME NEW p \in cuts \cup {c}, p # c
      PROVE  \E d \in cuts \cup {c} : /\ p < d /\ SkipsIn(t, p, d)
                                      /\ \A e \in cuts \cup {c} : ~(p < e /\ e < d)
  <2>1. CASE p = b
        BY <2>1
  <2>2. CASE p # b
    <3>1. PICK d \in cuts : /\ p < d /\ SkipsIn(t, p, d)
                            /\ \A e \in cuts : ~(p < e /\ e < d)
          BY <1>2, <2>2 DEF TilesIn
    <3>2. ~(c < d)
          OBVIOUS
    <3> QED BY <3>1, <3>2
  <2> QED BY <2>1, <2>2
<1> QED BY <1>1, <1>2 DEF TilesIn

LEMMA CoveredGrows ==
    ASSUME NEW t, NEW s \in Seq(Token), NEW h \in Nat, NEW g \in Nat, h < g,
           NEW cuts \in SUBSET (0 .. h), Covered(t, s, h, cuts), SkipsIn(t, h, g)
    PROVE  h \in cuts /\ Covered(t, s, g, cuts \cup {g})
<1> DEFINE n == Len(s) + 1
           more == cuts \cup {g}
           From(i) == GapStartIn(s, i)
           To(i) == GapEndIn(s, i, h)
<1>1. /\ Len(s) \in Nat /\ n \in 1 .. n /\ GapEndIn(s, n, h) = h /\ GapEndIn(s, n, g) = g
      /\ \A i \in 1 .. Len(s) : i \in 1 .. n /\ GapEndIn(s, i, g) = To(i)
      /\ \A i \in 1 .. n : i \in 1 .. Len(s) \/ i = n
      BY DEF GapEndIn
<1>2. \A i \in 1 .. n : /\ From(i) \in 0 .. h /\ To(i) \in 0 .. h
                        /\ TilesIn(t, cuts \cap (From(i) .. To(i)), From(i), To(i))
      BY DEF Covered
<1>3. ASSUME NEW i \in 1 .. Len(s)
      PROVE  more \cap (From(i) .. GapEndIn(s, i, g)) = cuts \cap (From(i) .. To(i))
  <2>1. From(i) \in 0 .. h /\ To(i) \in 0 .. h /\ GapEndIn(s, i, g) = To(i)
        BY <1>1, <1>2
  <2> HIDE DEF From, To
  <2>2. more \cap (From(i) .. To(i)) = cuts \cap (From(i) .. To(i))
        BY <2>1
  <2> QED BY <2>1, <2>2
<1>4. /\ From(n) \in 0 .. h /\ h \in cuts
      /\ TilesIn(t, cuts \cap (From(n) .. h), From(n), h)
      BY <1>1, <1>2 DEF TilesIn
<1>5. TilesIn(t, more \cap (From(n) .. g), From(n), g)
  <2>1. cuts \cap (From(n) .. h) \in SUBSET (From(n) .. h)
        OBVIOUS
  <2>2. TilesIn(t, (cuts \cap (From(n) .. h)) \cup {g}, From(n), g)
        BY <1>4, <2>1, TilesGrow
  <2>3. more \cap (From(n) .. g) = (cuts \cap (From(n) .. h)) \cup {g}
        BY <1>4
  <2> QED BY <2>2, <2>3
<1>6. ASSUME NEW i \in 1 .. n
      PROVE  /\ From(i) \in 0 .. g /\ GapEndIn(s, i, g) \in 0 .. g
             /\ TilesIn(t, more \cap (From(i) .. GapEndIn(s, i, g)), From(i), GapEndIn(s, i, g))
  <2>1. From(i) \in 0 .. h /\ To(i) \in 0 .. h
        BY <1>2
  <2> HIDE DEF From, To, more, n
  <2>2. CASE i \in 1 .. Len(s)
        BY <1>1, <1>2, <1>3, <2>1, <2>2
  <2>3. CASE i = n
        BY <1>1, <1>5, <2>1, <2>3
  <2> QED BY <1>1, <2>2, <2>3
<1>7. ASSUME NEW c \in more PROVE \E i \in 1 .. n : c \in From(i) .. GapEndIn(s, i, g)
  <2>1. CASE c = g
        BY <1>1, <1>4, <2>1
  <2>2. CASE c # g
    <3>1. PICK i \in 1 .. n : c \in From(i) .. To(i)
          BY <2>2 DEF Covered
    <3>2. CASE i \in 1 .. Len(s)
          BY <1>1, <3>1, <3>2
    <3>3. CASE i = n
          BY <1>1, <1>4, <3>1, <3>3
    <3> QED BY <1>1, <3>2, <3>3
  <2> QED BY <2>1, <2>2
<1>8. \A i \in 1 .. Len(s) : PrefixIn(t, s[i].type, GapEndIn(s, i, g))
      BY <1>1 DEF Covered
<1> QED BY <1>4, <1>6, <1>7, <1>8 DEF Covered

LEMMA CoveredGives ==
    ASSUME NEW t, NEW s \in Seq(Token), NEW h \in Nat,
           NEW cuts \in SUBSET (0 .. h), Covered(t, s, h, cuts), NEW token \in Token,
           token.index = IF token.type \in {"DotDot", "BuiltinId"} THEN h + 1 ELSE h,
           PrefixIn(t, token.type, h)
    PROVE  /\ h \in cuts /\ End(token) \in Nat /\ h <= End(token)
           /\ Covered(t, Append(s, token), End(token), cuts \cup {End(token)})
<1> DEFINE n == Len(s) + 1
           long == Append(s, token)
           g == End(token)
           more == cuts \cup {g}
           From(i) == GapStartIn(long, i)
           To(i) == GapEndIn(long, i, g)
<1>1. /\ Len(s) \in Nat /\ Len(long) = n /\ long[n] = token
      /\ DOMAIN s = 1 .. Len(s) /\ DOMAIN long = 1 .. n
      /\ \A i \in 1 .. Len(s) : long[i] = s[i]
      BY AppendProperties
<1>2. g \in Nat /\ h <= g
      BY DEF Token, End
<1> HIDE DEF long
<1>3. \A i \in 1 .. n + 1 : i \in 1 .. Len(s) \/ i = n \/ i = n + 1
      BY <1>1
<1>4. \A i \in 1 .. n : From(i) = GapStartIn(s, i) /\ To(i) = GapEndIn(s, i, h)
  <2> SUFFICES ASSUME NEW i \in 1 .. n
               PROVE  From(i) = GapStartIn(s, i) /\ To(i) = GapEndIn(s, i, h)
      OBVIOUS
  <2>1. From(i) = GapStartIn(s, i)
    <3>1. i = 1 \/ i - 1 \in 1 .. Len(s)
          BY <1>1
    <3> QED BY <1>1, <3>1 DEF GapStartIn
  <2>2. CASE i \in 1 .. Len(s)
        BY <1>1, <2>1, <2>2 DEF GapEndIn, PrefixedIn
  <2>3. CASE i = n
    <3>1. GapEndIn(s, i, h) = h /\ ~(n > Len(long)) /\ n \in DOMAIN long
          BY <1>1, <2>3 DEF GapEndIn
    <3>2. To(i) = IF token.type \in {"DotDot", "BuiltinId"} THEN token.index - 1
                  ELSE token.index
          BY <1>1, <2>3, <3>1 DEF GapEndIn, PrefixedIn
    <3>3. h + 1 - 1 = h
          OBVIOUS
    <3> QED BY <2>1, <3>1, <3>2, <3>3
  <2> QED BY <1>3, <2>2, <2>3
<1>5. From(n + 1) = g /\ To(n + 1) = g /\ n + 1 \in 1 .. n + 1
  <2>1. n + 1 # 1 /\ n + 1 - 1 = n /\ n + 1 > n
        BY <1>1
  <2> QED BY <1>1, <2>1 DEF GapStartIn, GapEndIn
<1>6. \A i \in 1 .. n : /\ From(i) \in 0 .. h /\ To(i) \in 0 .. h
                        /\ TilesIn(t, cuts \cap (From(i) .. To(i)), From(i), To(i))
      BY <1>4 DEF Covered
<1>7. h \in cuts
  <2>1. n \in 1 .. n /\ To(n) = h
        BY <1>1, <1>4 DEF GapEndIn
  <2> QED BY <1>6, <2>1 DEF TilesIn
<1>8. \A i \in 1 .. n : more \cap (From(i) .. To(i)) = cuts \cap (From(i) .. To(i))
  <2>1. \A i \in 1 .. n : From(i) \in 0 .. h /\ To(i) \in 0 .. h
        BY <1>6
  <2> HIDE DEF From, To, g
  <2> QED BY <1>2, <1>7, <2>1
<1>9. TilesIn(t, more \cap (g .. g), g, g)
  <2> HIDE DEF g
  <2>1. more \cap (g .. g) = {g}
        BY <1>2
  <2> QED BY <2>1 DEF TilesIn
<1>10. ASSUME NEW i \in 1 .. n + 1
       PROVE  /\ From(i) \in 0 .. g /\ To(i) \in 0 .. g
              /\ TilesIn(t, more \cap (From(i) .. To(i)), From(i), To(i))
  <2> HIDE DEF From, To, g, more
  <2>1. CASE i \in 1 .. n
    <3>1. /\ From(i) \in 0 .. h /\ To(i) \in 0 .. h
          /\ TilesIn(t, more \cap (From(i) .. To(i)), From(i), To(i))
          BY <1>6, <1>8, <2>1
    <3> QED BY <1>2, <3>1
  <2>2. CASE i = n + 1
    <3>1. From(i) = g /\ To(i) = g /\ g \in 0 .. g
          BY <1>2, <1>5, <2>2
    <3> QED BY <1>9, <3>1
  <2> QED BY <1>1, <2>1, <2>2
<1>11. ASSUME NEW c \in more PROVE \E i \in 1 .. n + 1 : c \in From(i) .. To(i)
  <2> HIDE DEF From, To, g
  <2>1. CASE c = g
        BY <1>2, <1>5, <2>1
  <2>2. CASE c # g
    <3>1. PICK i \in 1 .. n : c \in GapStartIn(s, i) .. GapEndIn(s, i, h)
          BY <2>2 DEF Covered
    <3>2. i \in 1 .. n + 1
          BY <1>1
    <3> QED BY <1>4, <3>1, <3>2
  <2> QED BY <2>1, <2>2
<1>12. ASSUME NEW i \in 1 .. n PROVE PrefixIn(t, long[i].type, To(i))
  <2> HIDE DEF To
  <2>1. CASE i \in 1 .. Len(s)
    <3>1. PrefixIn(t, s[i].type, GapEndIn(s, i, h))
          BY <2>1 DEF Covered
    <3> QED BY <1>1, <1>4, <2>1, <3>1
  <2>2. CASE i = n
    <3>1. To(i) = h
          BY <1>1, <1>4, <2>2 DEF GapEndIn
    <3> QED BY <1>1, <2>2, <3>1
  <2> QED BY <1>1, <2>1, <2>2
<1>13. Covered(t, long, g, more)
      BY <1>1, <1>10, <1>11, <1>12 DEF Covered
<1> QED BY <1>2, <1>7, <1>13 DEF long

LEMMA SettledSkips ==
    ASSUME NEW t, NEW s \in Seq(Token), NEW h \in Nat, NEW g \in Nat, h < g,
           NEW k, Settled(t, s, h, k), SkipsIn(t, h, g)
    PROVE  k \in Nat /\ Settled(t, s, g, k + NewlineAt(t, h))
<1>1. PICK cuts \in SUBSET (0 .. h) : /\ Covered(t, s, h, cuts)
                                      /\ k = 1 + NewlinesIn(t, cuts \ {h}) + GivenBy(s)
      BY DEF Settled
<1>2. h \in cuts /\ Covered(t, s, g, cuts \cup {g})
      BY <1>1, CoveredGrows
<1>3. /\ (cuts \cup {g}) \ {g} = (cuts \ {h}) \cup {h} /\ h \notin cuts \ {h}
      /\ cuts \cup {g} \in SUBSET (0 .. g)
      BY <1>2
<1>4. IsFiniteSet(cuts \ {h}) /\ NewlinesIn(t, cuts \ {h}) \in Nat
      BY CutsFinite
<1>5. NewlinesIn(t, (cuts \cup {g}) \ {g}) = NewlinesIn(t, cuts \ {h}) + NewlineAt(t, h)
      BY <1>3, <1>4, NewlinesAdd
<1>6. GivenBy(s) \in Nat /\ NewlineAt(t, h) \in Nat
      BY GivenIsNat DEF NewlineAt
<1>7. k \in Nat /\ k + NewlineAt(t, h) = 1 + NewlinesIn(t, (cuts \cup {g}) \ {g}) + GivenBy(s)
      BY <1>1, <1>4, <1>5, <1>6
<1> QED BY <1>2, <1>3, <1>7 DEF Settled

LEMMA SettledGives ==
    ASSUME NEW t, NEW s \in Seq(Token), NEW h \in Nat, NEW k, Settled(t, s, h, k),
           NEW token \in Token,
           token.index = IF token.type \in {"DotDot", "BuiltinId"} THEN h + 1 ELSE h,
           PrefixIn(t, token.type, h),
           End(token) = h \/ Ch(t, h) # Newline
    PROVE  /\ k \in Nat
           /\ Settled(t, Append(s, token), End(token),
                      k + IF EmptyTerminator(token) THEN 1 ELSE 0)
<1> DEFINE g == End(token)
<1>1. PICK cuts \in SUBSET (0 .. h) : /\ Covered(t, s, h, cuts)
                                      /\ k = 1 + NewlinesIn(t, cuts \ {h}) + GivenBy(s)
      BY DEF Settled
<1>2. /\ h \in cuts /\ g \in Nat /\ h <= g
      /\ Covered(t, Append(s, token), g, cuts \cup {g})
      BY <1>1, CoveredGives
<1> HIDE DEF g
<1>3. cuts \cup {g} \in SUBSET (0 .. g)
      BY <1>2
<1>4. IsFiniteSet(cuts \ {h}) /\ NewlinesIn(t, cuts \ {h}) \in Nat
      BY CutsFinite
<1>5. NewlinesIn(t, (cuts \cup {g}) \ {g}) = NewlinesIn(t, cuts \ {h})
  <2>1. CASE g = h
    <3>1. (cuts \cup {g}) \ {g} = cuts \ {h}
          BY <2>1
    <3> QED BY <3>1
  <2>2. CASE g # h
    <3>1. (cuts \cup {g}) \ {g} = (cuts \ {h}) \cup {h} /\ h \notin cuts \ {h}
          BY <1>2, <2>2
    <3>2. NewlineAt(t, h) = 0
          BY <2>2 DEF NewlineAt, g
    <3>3. NewlinesIn(t, (cuts \ {h}) \cup {h}) = NewlinesIn(t, cuts \ {h}) + 0
          BY <1>4, <3>1, <3>2, NewlinesAdd
    <3>4. NewlinesIn(t, (cuts \cup {g}) \ {g}) = NewlinesIn(t, (cuts \ {h}) \cup {h})
          BY <3>1
    <3> QED BY <1>4, <3>3, <3>4
  <2> QED BY <2>1, <2>2
<1>6. /\ GivenBy(s) \in Nat
      /\ GivenBy(Append(s, token)) = GivenBy(s) + IF EmptyTerminator(token) THEN 1 ELSE 0
  <2>1. GivenBy(s) \in Nat
        BY GivenIsNat
  <2>2. /\ EmptyTerminator(token) => GivenBy(Append(s, token)) = GivenBy(s) + 1
        /\ ~EmptyTerminator(token) => GivenBy(Append(s, token)) = GivenBy(s)
        BY GivenAdds
  <2> QED BY <2>1, <2>2
<1>7. /\ k \in Nat
      /\ k + (IF EmptyTerminator(token) THEN 1 ELSE 0)
            = 1 + NewlinesIn(t, (cuts \cup {g}) \ {g}) + GivenBy(Append(s, token))
      BY <1>1, <1>4, <1>5, <1>6
<1>8. Settled(t, Append(s, token), g, k + IF EmptyTerminator(token) THEN 1 ELSE 0)
      BY <1>2, <1>3, <1>7 DEF Settled
<1> QED BY <1>7, <1>8 DEF g

-----------------------------------------------------------------------------
(* A comment on its way from a to b: the marks it has taken, the depth     *)
(* they leave, and no mark at b - 1 but one that overlaps the last taken.  *)
NestingIn(t, a, b, depth) ==
    \E marks : /\ Nested(t, a, b, marks) /\ DepthIn(t, marks, b) = depth
               /\ MarkIn(t, b - 1) => b - 2 \in marks
Opens(t, marks) == {m \in marks : OpenIn(t, m)}
Closes(t, marks) == {m \in marks : CloseIn(t, m)}
NoNewlineIn(t, a, b) == \A p \in a .. b - 1 : Ch(t, p) # Newline

LEMMA MarksFinite ==
    ASSUME NEW t, NEW a \in Nat, NEW b \in Nat, NEW p,
           NEW marks \in SUBSET {q \in a .. b - 2 : MarkIn(t, q)}
    PROVE  /\ IsFiniteSet(OpenedBy(t, marks, p)) /\ Cardinality(OpenedBy(t, marks, p)) \in Nat
           /\ IsFiniteSet(ClosedBy(t, marks, p)) /\ Cardinality(ClosedBy(t, marks, p)) \in Nat
<1>1. IsFiniteSet(a .. b - 2)
      BY FS_Interval
<1>2. OpenedBy(t, marks, p) \in SUBSET (a .. b - 2)
      BY DEF OpenedBy
<1>3. ClosedBy(t, marks, p) \in SUBSET (a .. b - 2)
      BY DEF ClosedBy
<1>4. IsFiniteSet(OpenedBy(t, marks, p)) /\ IsFiniteSet(ClosedBy(t, marks, p))
      BY <1>1, <1>2, <1>3, FS_Subset
<1> QED BY <1>4, FS_CardinalityType

LEMMA AllTaken ==
    ASSUME NEW t, NEW marks, NEW p, \A m \in marks : m + 1 < p
    PROVE  /\ OpenedBy(t, marks, p) = Opens(t, marks)
           /\ ClosedBy(t, marks, p) = Closes(t, marks)
BY DEF OpenedBy, ClosedBy, Opens, Closes

LEMMA NestingStarts ==
    ASSUME NEW t, NEW a \in Nat, OpenIn(t, a)
    PROVE  NestingIn(t, a, a + 2, 1)
<1>1. Nested(t, a, a + 2, {a})
  <2>1. \A p \in a + 1 .. a + 2 - 2 : FALSE
        OBVIOUS
  <2>2. \A p \in a + 2 .. a + 2 - 1 : FALSE
        OBVIOUS
  <2>3. {a} \in SUBSET {p \in a .. a + 2 - 2 : MarkIn(t, p)}
        BY DEF MarkIn
  <2> QED BY <2>1, <2>2, <2>3 DEF Nested
<1>2. DepthIn(t, {a}, a + 2) = 1
  <2>1. OpenedBy(t, {a}, a + 2) = {a} /\ ClosedBy(t, {a}, a + 2) = {}
        BY DEF OpenedBy, ClosedBy, OpenIn, CloseIn
  <2>2. Cardinality({a}) = 1 /\ Cardinality({}) = 0
        BY FS_Singleton, FS_EmptySet
  <2>3. Cardinality(OpenedBy(t, {a}, a + 2)) = 1 /\ Cardinality(ClosedBy(t, {a}, a + 2)) = 0
        BY <2>1, <2>2
  <2> QED BY <2>3 DEF DepthIn
<1>3. a + 2 - 2 \in {a}
      OBVIOUS
<1> QED BY <1>1, <1>2, <1>3 DEF NestingIn

LEMMA NestingSkips ==
    ASSUME NEW t, NEW a \in Nat, NEW b \in Nat, NEW depth \in Nat, depth > 0,
           NestingIn(t, a, b, depth), ~MarkIn(t, b)
    PROVE  NestingIn(t, a, b + 1, depth)
<1>1. PICK marks : /\ Nested(t, a, b, marks) /\ DepthIn(t, marks, b) = depth
                   /\ MarkIn(t, b - 1) => b - 2 \in marks
      BY DEF NestingIn
<1>2. marks \in SUBSET {p \in a .. b - 2 : MarkIn(t, p)} /\ a \in marks /\ OpenIn(t, a)
      BY <1>1 DEF Nested
<1>3. marks \in SUBSET {p \in a .. b + 1 - 2 : MarkIn(t, p)}
      BY <1>2
<1>4. ASSUME NEW p \in a + 1 .. b + 1 - 2, MarkIn(t, p)
      PROVE  p \in marks <=> p - 1 \notin marks
  <2>1. CASE p = b - 1
    <3>1. p \notin marks /\ p - 1 = b - 2
          BY <1>2, <2>1
    <3> QED BY <1>1, <1>4, <2>1, <3>1
  <2>2. CASE p # b - 1
    <3>1. p \in a + 1 .. b - 2
          BY <2>2
    <3> QED BY <1>1, <1>4, <3>1 DEF Nested
  <2> QED BY <2>1, <2>2
<1>5. DepthIn(t, marks, b + 1) = depth
  <2>1. /\ OpenedBy(t, marks, b + 1) = OpenedBy(t, marks, b)
        /\ ClosedBy(t, marks, b + 1) = ClosedBy(t, marks, b)
    <3>1. /\ \A m \in marks : m + 1 < b
          /\ \A m \in marks : m + 1 < b + 1
          BY <1>2
    <3>2. OpenedBy(t, marks, b) = Opens(t, marks) /\ ClosedBy(t, marks, b) = Closes(t, marks)
          BY <3>1, AllTaken
    <3>3. /\ OpenedBy(t, marks, b + 1) = Opens(t, marks)
          /\ ClosedBy(t, marks, b + 1) = Closes(t, marks)
          BY <3>1, AllTaken
    <3> QED BY <3>2, <3>3
  <2> QED BY <1>1, <2>1 DEF DepthIn
<1>6. ASSUME NEW p \in a + 2 .. b + 1 - 1 PROVE DepthIn(t, marks, p) > 0
  <2>1. p = b \/ p \in a + 2 .. b - 1
        OBVIOUS
  <2> QED BY <1>1, <2>1 DEF Nested
<1>7. Nested(t, a, b + 1, marks)
      BY <1>2, <1>3, <1>4, <1>6 DEF Nested
<1>8. b + 1 - 1 = b
      OBVIOUS
<1> QED BY <1>5, <1>7, <1>8 DEF NestingIn

LEMMA NestingMarks ==
    ASSUME NEW t, NEW a \in Nat, NEW b \in Nat, NEW depth \in Nat, depth > 0,
           NestingIn(t, a, b, depth), NEW next,
           \/ OpenIn(t, b) /\ next = depth + 1
           \/ CloseIn(t, b) /\ next = depth - 1
    PROVE  NestingIn(t, a, b + 2, next)
<1>1. PICK marks : /\ Nested(t, a, b, marks) /\ DepthIn(t, marks, b) = depth
                   /\ MarkIn(t, b - 1) => b - 2 \in marks
      BY DEF NestingIn
<1> DEFINE more == marks \cup {b}
<1>2. marks \in SUBSET {p \in a .. b - 2 : MarkIn(t, p)} /\ a \in marks /\ OpenIn(t, a)
      BY <1>1 DEF Nested
<1>3. MarkIn(t, b) /\ b + 2 - 2 = b /\ a < b
      BY <1>2 DEF MarkIn
<1>4. more \in SUBSET {p \in a .. b + 2 - 2 : MarkIn(t, p)} /\ a \in more
      BY <1>2, <1>3
<1>5. ASSUME NEW p \in a + 1 .. b + 2 - 2, MarkIn(t, p)
      PROVE  p \in more <=> p - 1 \notin more
  <2>1. CASE p = b
    <3>1. b - 1 \notin marks /\ b - 1 # b
          BY <1>2
    <3> QED BY <2>1, <3>1
  <2>2. CASE p = b - 1
    <3>1. p \notin marks /\ p # b /\ p - 1 = b - 2
          BY <1>2, <2>2
    <3> QED BY <1>1, <1>5, <2>2, <3>1
  <2>3. CASE p # b /\ p # b - 1
    <3>1. p \in a + 1 .. b - 2 /\ p - 1 # b
          BY <2>3
    <3>2. p \in marks <=> p - 1 \notin marks
          BY <1>1, <1>5, <3>1 DEF Nested
    <3> QED BY <2>3, <3>1, <3>2
  <2> QED BY <2>1, <2>2, <2>3
<1>6. ASSUME NEW p \in Nat, p <= b + 1 PROVE DepthIn(t, more, p) = DepthIn(t, marks, p)
  <2>1. /\ OpenedBy(t, more, p) = OpenedBy(t, marks, p)
        /\ ClosedBy(t, more, p) = ClosedBy(t, marks, p)
        BY <1>6 DEF OpenedBy, ClosedBy
  <2> QED BY <2>1 DEF DepthIn
<1>7. DepthIn(t, marks, b + 1) = depth
  <2>1. /\ OpenedBy(t, marks, b + 1) = OpenedBy(t, marks, b)
        /\ ClosedBy(t, marks, b + 1) = ClosedBy(t, marks, b)
    <3>1. /\ \A m \in marks : m + 1 < b
          /\ \A m \in marks : m + 1 < b + 1
          BY <1>2
    <3>2. OpenedBy(t, marks, b) = Opens(t, marks) /\ ClosedBy(t, marks, b) = Closes(t, marks)
          BY <3>1, AllTaken
    <3>3. /\ OpenedBy(t, marks, b + 1) = Opens(t, marks)
          /\ ClosedBy(t, marks, b + 1) = Closes(t, marks)
          BY <3>1, AllTaken
    <3> QED BY <3>2, <3>3
  <2> QED BY <1>1, <2>1 DEF DepthIn
<1>8. ASSUME NEW p \in a + 2 .. b + 2 - 1 PROVE DepthIn(t, more, p) > 0
  <2>1. p \in Nat /\ p <= b + 1 /\ (p = b + 1 \/ p = b \/ p \in a + 2 .. b - 1)
        OBVIOUS
  <2>2. DepthIn(t, more, p) = DepthIn(t, marks, p)
        BY <1>6, <2>1
  <2>3. DepthIn(t, marks, p) > 0
        BY <1>1, <1>7, <2>1 DEF Nested
  <2> QED BY <2>2, <2>3
<1>9. DepthIn(t, more, b + 2) = next
  <2> DEFINE opened == Opens(t, marks)
             closed == Closes(t, marks)
  <2>1. OpenedBy(t, marks, b) = opened /\ ClosedBy(t, marks, b) = closed
    <3>1. \A m \in marks : m + 1 < b
          BY <1>2
    <3> QED BY <3>1, AllTaken
  <2>2. /\ OpenedBy(t, more, b + 2) = Opens(t, more)
        /\ ClosedBy(t, more, b + 2) = Closes(t, more)
    <3>1. \A m \in more : m + 1 < b + 2
          BY <1>2
    <3> HIDE DEF more
    <3> QED BY <3>1, AllTaken
  <2>3. /\ IsFiniteSet(OpenedBy(t, marks, b)) /\ Cardinality(OpenedBy(t, marks, b)) \in Nat
        /\ IsFiniteSet(ClosedBy(t, marks, b)) /\ Cardinality(ClosedBy(t, marks, b)) \in Nat
        BY <1>2, MarksFinite
  <2>4. b \notin opened /\ b \notin closed
        BY <1>2 DEF Opens, Closes
  <2>5. ~(OpenIn(t, b) /\ CloseIn(t, b))
        BY DEF OpenIn, CloseIn
  <2>6. OpenIn(t, b) => Opens(t, more) = opened \cup {b} /\ Closes(t, more) = closed
        BY <2>5 DEF Opens, Closes
  <2>7. CloseIn(t, b) => Opens(t, more) = opened /\ Closes(t, more) = closed \cup {b}
        BY <2>5 DEF Opens, Closes
  <2> HIDE DEF opened, closed, more
  <2>8. /\ IsFiniteSet(opened) /\ Cardinality(opened) \in Nat
        /\ IsFiniteSet(closed) /\ Cardinality(closed) \in Nat
        /\ depth = Cardinality(opened) - Cardinality(closed)
        BY <1>1, <2>1, <2>3 DEF DepthIn
  <2>9. /\ Cardinality(opened \cup {b}) = Cardinality(opened) + 1
        /\ Cardinality(closed \cup {b}) = Cardinality(closed) + 1
        BY <2>4, <2>8, FS_AddElement
  <2>10. DepthIn(t, more, b + 2) = Cardinality(Opens(t, more)) - Cardinality(Closes(t, more))
        BY <2>2 DEF DepthIn
  <2>11. CASE OpenIn(t, b) /\ next = depth + 1
    <3>1. /\ Cardinality(Opens(t, more)) = Cardinality(opened) + 1
          /\ Cardinality(Closes(t, more)) = Cardinality(closed)
          BY <2>6, <2>9, <2>11
    <3> QED BY <2>8, <2>10, <2>11, <3>1
  <2>12. CASE CloseIn(t, b) /\ next = depth - 1
    <3>1. /\ Cardinality(Opens(t, more)) = Cardinality(opened)
          /\ Cardinality(Closes(t, more)) = Cardinality(closed) + 1
          BY <2>7, <2>9, <2>12
    <3> QED BY <2>8, <2>10, <2>12, <3>1
  <2> QED BY <2>11, <2>12
<1>10. Nested(t, a, b + 2, more)
  <2> HIDE DEF more
  <2> QED BY <1>2, <1>4, <1>5, <1>8 DEF Nested
<1>11. b + 2 - 2 \in more
      BY <1>3
<1> QED BY <1>9, <1>10, <1>11 DEF NestingIn

(* The ends of the comments.                                               *)
LEMMA CommentsEnd ==
    ASSUME NEW t, NEW a \in Nat, NEW b \in Nat, a <= b, b <= Len(t)
    PROVE  /\ (/\ Ch(t, a) = "/" /\ Ch(t, a + 1) = "/"
               /\ NoNewlineIn(t, a, b) /\ EndsLineIn(t, b)) => SkipsIn(t, a, b)
           /\ (Ch(t, a) = "#" /\ NoNewlineIn(t, a, b) /\ EndsLineIn(t, b))
                 => SkipsIn(t, a, b + 1)
           /\ \A depth : (NestingIn(t, a, b, depth) /\ (depth = 0 \/ b = Len(t)))
                            => SkipsIn(t, a, b)
<1>1. ASSUME NoNewlineIn(t, a, b), EndsLineIn(t, b)
      PROVE  RestOfLineIn(t, a, b) /\ RestOfLineIn(t, a, b + 1 - 1)
  <2>1. RestOfLineIn(t, a, b)
        BY <1>1 DEF NoNewlineIn, RestOfLineIn, EndsLineIn
  <2>2. b + 1 - 1 = b
        OBVIOUS
  <2> QED BY <2>1, <2>2
<1>2. ASSUME Ch(t, a) = "/", Ch(t, a + 1) = "/", NoNewlineIn(t, a, b), EndsLineIn(t, b)
      PROVE  SkipsIn(t, a, b)
      BY <1>1, <1>2, Zenon DEF SkipsIn
<1>3. ASSUME Ch(t, a) = "#", NoNewlineIn(t, a, b), EndsLineIn(t, b)
      PROVE  SkipsIn(t, a, b + 1)
  <2> DEFINE e == b + 1
  <2>1. RestOfLineIn(t, a, e - 1)
        BY <1>1, <1>3
  <2> HIDE DEF e
  <2>2. SkipsIn(t, a, e)
        BY <1>3, <2>1, Zenon DEF SkipsIn
  <2> QED BY <2>2 DEF e
<1>4. ASSUME NEW depth, NestingIn(t, a, b, depth), depth = 0 \/ b = Len(t)
      PROVE  SkipsIn(t, a, b)
  <2>1. PICK marks : Nested(t, a, b, marks) /\ DepthIn(t, marks, b) = depth
        BY <1>4 DEF NestingIn
  <2> QED BY <1>4, <2>1, Zenon DEF SkipsIn
<1> QED BY <1>2, <1>3, <1>4

-----------------------------------------------------------------------------
(* The invariant.  No error is set before a handler fails, what was saved  *)
(* is the place of a character that is no newline with the line counted up *)
(* to it, and a failure with an error goes back to it.                     *)
Active == Phases \ (Terminal \cup {"report"})

FailureOK ==
    /\ pc \in Active => error = "UNKNOWN"
    /\ pc \in Handling \cup {"report", "failed"} => Ch(text, save_index) # Newline
    /\ pc \in {"report", "failed"} =>
          error = "UNKNOWN" \/ (index = save_index /\ line = save_line)
    /\ pc = "failed" => HasMessage(error)

(* A comment, from where it was saved.                                     *)
CommentOK ==
    /\ pc = "line_comment" => /\ Ch(text, save_index) = "/" /\ Ch(text, save_index + 1) = "/"
                              /\ NoNewlineIn(text, save_index, index)
    /\ pc = "hash_comment" => /\ Ch(text, save_index) = "#"
                              /\ NoNewlineIn(text, save_index, index)
    /\ pc = "nested" => NestingIn(text, save_index, index, loop)

(* What the line is ahead of the newlines that were passed is settled by   *)
(* what has been skipped and given out, up to where a handler started.     *)
Extra(t, i, l) == l - Passed(t, i)
SettledOK ==
    /\ pc \in Idle \cup {"done"} => Settled(text, tokens, index, Extra(text, index, line))
    /\ pc \in Handling \cup {"report", "failed"} =>
          Settled(text, tokens, save_index, Extra(text, save_index, save_line))
    /\ pc \in Handling => Extra(text, index, line) = Extra(text, save_index, save_line)
    /\ \E h \in Nat : \E k : Settled(text, tokens, h, k)

ReportOK == FailureOK /\ CommentOK /\ SettledOK

LEMMA ExtraMoves ==
    ASSUME NEW t, NEW i \in Nat, NEW l \in Nat
    PROVE  /\ Extra(t, i, l) \in Int
           /\ Extra(t, i, l + 1) = Extra(t, i, l) + 1
           /\ Extra(t, i + 1, l + NewlineAt(t, i)) = Extra(t, i, l)
           /\ Extra(t, i + 1, l + NewlineAt(t, i) + 1) = Extra(t, i, l) + 1
           /\ Ch(t, i) # Newline => Extra(t, i + 1, l) = Extra(t, i, l)
<1>1. /\ Passed(t, i) \in Nat /\ Passed(t, i + 1) = Passed(t, i) + NewlineAt(t, i)
      /\ NewlineAt(t, i) \in Nat
      BY PassedNext DEF NewlineAt
<1>2. Ch(t, i) # Newline => NewlineAt(t, i) = 0
      BY DEF NewlineAt
<1> QED BY <1>1, <1>2 DEF Extra

-----------------------------------------------------------------------------
(* How a step may end.                                                     *)

LEMMA Known ==
    ASSUME IInv
    PROVE  /\ index \in Nat /\ len \in Nat /\ line \in Nat /\ loop \in Nat
           /\ save_index \in Nat /\ save_line \in Nat /\ Len(text) \in Nat
           /\ tokens \in Seq(Token) /\ begin_tkn_line \in Nat
BY TextLength DEF IInv, TypeOK

LEMMA PhaseFacts ==
    /\ Handling \subseteq Active /\ Scanning \subseteq Handling /\ Comment \subseteq Handling
    /\ Scanning \cap Comment = {}
    /\ Idle \subseteq Active /\ Idle \cap Handling = {} /\ Idle \cap Comment = {}
    /\ Idle \cap Terminal = {} /\ "report" \notin Idle
    /\ Active \cap Terminal = {} /\ "report" \notin Active /\ "failed" \in Terminal
    /\ "report" \notin Handling /\ "report" \notin Terminal
    /\ {"exited", "corrupted", "aborted", "done"} \subseteq Terminal
    /\ {"line_comment", "hash_comment", "nested"} = Comment
BY DEF Active, Idle, Handling, Scanning, Comment, Phases, Terminal

LEMMA GoesOn ==
    ASSUME pc' \in Idle, error' = "UNKNOWN", index' \in Nat,
           Settled(text', tokens', index', Extra(text', index', line'))
    PROVE  ReportOK'
<1>1. FailureOK' /\ CommentOK'
      BY PhaseFacts DEF FailureOK, CommentOK
<1>2. SettledOK'
      BY PhaseFacts DEF SettledOK
<1> QED BY <1>1, <1>2 DEF ReportOK

LEMMA Handles ==
    ASSUME pc' \in Handling, error' = "UNKNOWN", Ch(text', save_index') # Newline, CommentOK',
           save_index' \in Nat,
           Settled(text', tokens', save_index', Extra(text', save_index', save_line')),
           Extra(text', index', line') = Extra(text', save_index', save_line')
    PROVE  ReportOK'
<1>1. FailureOK'
      BY PhaseFacts DEF FailureOK
<1>2. SettledOK'
      BY PhaseFacts DEF SettledOK
<1> QED BY <1>1, <1>2 DEF ReportOK

LEMMA GivesUp ==
    ASSUME pc' = "report", Ch(text', save_index') # Newline, save_index' \in Nat,
           Settled(text', tokens', save_index', Extra(text', save_index', save_line')),
           error' = "UNKNOWN" \/ (index' = save_index' /\ line' = save_line')
    PROVE  ReportOK'
<1>1. FailureOK' /\ CommentOK'
      BY PhaseFacts DEF FailureOK, CommentOK
<1>2. SettledOK'
      BY PhaseFacts DEF SettledOK
<1> QED BY <1>1, <1>2 DEF ReportOK

LEMMA Waits ==
    ASSUME IInv, ReportOK, pc \in Idle
    PROVE  error = "UNKNOWN" /\ Settled(text, tokens, index, Extra(text, index, line))
BY PhaseFacts DEF ReportOK, FailureOK, SettledOK

LEMMA Works ==
    ASSUME IInv, ReportOK, pc \in Handling
    PROVE  /\ error = "UNKNOWN" /\ Ch(text, save_index) # Newline
           /\ Settled(text, tokens, save_index, Extra(text, save_index, save_line))
           /\ Extra(text, index, line) = Extra(text, save_index, save_line)
BY PhaseFacts DEF ReportOK, FailureOK, SettledOK

(* The token that ends the gap at h.                                       *)
LEMMA Adds ==
    ASSUME IInv, text' = text, error' = "UNKNOWN", NEW h \in Nat, NEW k,
           Settled(text, tokens, h, k),
           NEW type \in TknType, NEW start \in Nat, NEW length \in Nat, NEW next \in Idle,
           lex_add_token(type, start, length, next),
           start = IF type \in {"DotDot", "BuiltinId"} THEN h + 1 ELSE h,
           PrefixIn(text, type, h),
           start + length = h \/ Ch(text, h) # Newline,
           Extra(text, start + length, line')
              = k + IF type = "Terminator" /\ length = 0 THEN 1 ELSE 0
    PROVE  ReportOK'
<1> DEFINE token == [index |-> start, length |-> length, line |-> begin_tkn_line,
                     type |-> type]
<1>1. /\ token \in Token /\ token.index = start /\ token.type = type /\ token.length = length
      /\ End(token) = start + length
      BY Known DEF Token, End
<1>2. array_push(token, next) /\ index' = start + length
      BY DEF lex_add_token
<1> HIDE DEF token
<1>3. CASE tokens' = Append(tokens, token) /\ pc' = next
  <2>1. EmptyTerminator(token) <=> type = "Terminator" /\ length = 0
        BY <1>1 DEF EmptyTerminator
  <2>2. tokens \in Seq(Token)
        BY Known
  <2>3. Settled(text, Append(tokens, token), End(token),
                k + IF EmptyTerminator(token) THEN 1 ELSE 0)
        BY <1>1, <2>2, SettledGives
  <2>4. k + (IF EmptyTerminator(token) THEN 1 ELSE 0) = Extra(text, start + length, line')
        BY <2>1
  <2>5. Settled(text, Append(tokens, token), start + length, Extra(text, start + length, line'))
        BY <1>1, <2>3, <2>4
  <2> QED BY <1>2, <1>3, <2>5, GoesOn
<1>4. CASE tokens' = tokens /\ pc' \in {"corrupted", "exited"}
  <2>1. pc' \notin Active /\ pc' \notin Handling /\ pc' \notin Idle \cup {"done"}
        /\ pc' \notin {"report", "failed"} /\ pc' \notin Comment
        BY <1>4, PhaseFacts DEF Comment
  <2>2. FailureOK' /\ CommentOK'
        BY <2>1, PhaseFacts DEF FailureOK, CommentOK
  <2>3. SettledOK'
        BY <1>4, <2>1 DEF SettledOK
  <2> QED BY <2>2, <2>3 DEF ReportOK
<1> QED BY <1>2, <1>3, <1>4 DEF array_push

(* One that starts there and is no separator.                              *)
LEMMA AddsPlain ==
    ASSUME IInv, text' = text, error' = "UNKNOWN", NEW h \in Nat, NEW k \in Int,
           Settled(text, tokens, h, k),
           NEW type \in TknType, type \notin {"DotDot", "BuiltinId", "Terminator"},
           NEW length \in Nat, NEW next \in Idle,
           lex_add_token(type, h, length, next),
           length = 0 \/ Ch(text, h) # Newline,
           Extra(text, h + length, line') = k
    PROVE  ReportOK'
<1>1. PrefixIn(text, type, h)
      BY DEF PrefixIn
<1>2. h + length = h \/ Ch(text, h) # Newline
      OBVIOUS
<1>3. Extra(text, h + length, line')
         = k + IF type = "Terminator" /\ length = 0 THEN 1 ELSE 0
      OBVIOUS
<1> QED BY <1>1, <1>2, <1>3, Adds

-----------------------------------------------------------------------------
(* What the handlers are made of.                                          *)

(* A turn of a loop.                                                       *)
LEMMA Turns ==
    ASSUME IInv, ReportOK, pc \in Handling, pc' = pc, UNCHANGED <<text, saved, array, error>>,
           Extra(text, index', line') = Extra(text, index, line), CommentOK'
    PROVE  ReportOK'
<1>1. save_index' = save_index /\ save_line' = save_line /\ tokens' = tokens /\ text' = text
      BY DEF saved, array
<1> QED BY <1>1, Works, Known, Handles

LEMMA Collects ==
    ASSUME IInv, ReportOK, NEW loopName \in Scanning, NEW S, TakeWhile(loopName, S)
    PROVE  ReportOK'
<1>1. /\ pc \in Handling /\ pc' = pc /\ UNCHANGED <<text, saved, array, error>>
      /\ index' = index + 1 /\ line' = line + NewlineAt(text, index)
      BY PhaseFacts, Here DEF TakeWhile, lex_advance_len_inc, Newlines, NewlineAt
<1>2. pc' \in Scanning
      BY DEF TakeWhile
<1>3. CommentOK'
      BY <1>2, PhaseFacts DEF CommentOK
<1>4. Extra(text, index', line') = Extra(text, index, line)
      BY <1>1, Known, ExtraMoves
<1> QED BY <1>1, <1>3, <1>4, Turns

(* A handler that starts at a character that is no newline.                *)
LEMMA Started ==
    ASSUME IInv, ReportOK, NEW S, Starts(S), Newline \notin S
    PROVE  /\ text' = text /\ error = "UNKNOWN" /\ pc = "space"
           /\ save_index' = index /\ save_line' = line /\ index \in Nat /\ line \in Nat
           /\ Ch(text, index) \in S /\ Ch(text, index) # Newline
           /\ Settled(text, tokens, index, Extra(text, index, line))
           /\ Extra(text, index, line) \in Int
           /\ Extra(text, index + 1, line) = Extra(text, index, line)
<1>1. /\ text' = text /\ pc = "space" /\ pc \in Idle
      /\ save_index' = index /\ save_line' = line
      /\ Ch(text, index) \in S
      BY Here DEF Starts, Idle
<1>2. Ch(text, index) # Newline
      BY <1>1
<1> QED BY <1>1, <1>2, Waits, Known, ExtraMoves

LEMMA Enters ==
    ASSUME IInv, ReportOK, NEW S, Starts(S), Newline \notin S,
           NEW k \in Nat, NEW length, NEW next \in Handling, Enter(k, length, next),
           Extra(text, index + k, line) = Extra(text, index, line), CommentOK'
    PROVE  ReportOK'
<1>1. /\ pc' = next /\ index' = index + k /\ line' = line /\ error' = error
      /\ tokens' = tokens
      BY DEF Enter, array
<1> QED BY <1>1, Started, Handles

(* A handler that collects fails where it started, or adds what it took.   *)
LEMMA Retreats ==
    ASSUME IInv, ReportOK, pc \in Scanning, UNCHANGED <<text, saved>>, NEW err, NEW length,
           FailAtStart(err, length)
    PROVE  ReportOK'
<1>1. /\ pc' = "report" /\ index' = save_index /\ line' = save_line /\ tokens' = tokens
      BY DEF FailAtStart, Fail, lex_restore_state_for_err, array
<1>2. save_index' = save_index /\ save_line' = save_line /\ text' = text
      BY DEF saved
<1>3. pc \in Handling
      BY PhaseFacts
<1> QED BY <1>1, <1>2, <1>3, Works, Known, GivesUp

LEMMA AddsCollected ==
    ASSUME IInv, LexemeInv, ReportOK, pc \in Scanning \ {"builtin"},
           UNCHANGED <<text, line, error>>,
           NEW type \in TknType, type \notin {"DotDot", "BuiltinId", "Terminator"},
           NEW length \in Nat, lex_add_token(type, index - len, length, "director"),
           Extra(text, index - len + length, line) = Extra(text, index, line)
    PROVE  ReportOK'
<1>1. index - len = save_index
      BY DEF LexemeInv, ScanOK
<1>2. /\ pc \in Handling /\ "director" \in Idle
      BY PhaseFacts DEF Idle
<1>3. /\ error' = "UNKNOWN" /\ Ch(text, save_index) # Newline
      /\ Settled(text, tokens, save_index, Extra(text, save_index, save_line))
      /\ Extra(text, index, line) = Extra(text, save_index, save_line)
      /\ save_index \in Nat /\ Extra(text, save_index, save_line) \in Int
      BY <1>2, Works, Known, ExtraMoves
<1>4. /\ lex_add_token(type, save_index, length, "director")
      /\ Extra(text, save_index + length, line') = Extra(text, save_index, save_line)
      BY <1>1, <1>3
<1> QED BY <1>2, <1>3, <1>4, AddsPlain

LEMMA Finishes ==
    ASSUME IInv, LexemeInv, ReportOK, NEW loopName \in Scanning \ {"builtin"}, NEW S,
           ScanEnds(loopName, S),
           NEW type \in TknType, type \notin {"DotDot", "BuiltinId", "Terminator"},
           NEW limit, NEW err, Finish(type, limit, err)
    PROVE  ReportOK'
<1>1. pc \in Scanning \ {"builtin"} /\ UNCHANGED <<text, saved>>
      BY DEF ScanEnds
<1>2. CASE FailAtStart(err, len)
      BY <1>1, <1>2, Retreats
<1>3. CASE /\ lex_add_token(type, index - len, len, "director")
           /\ UNCHANGED <<line, error>>
  <2>1. index - len + len = index
        BY <1>1, Located
  <2>2. Extra(text, index - len + len, line) = Extra(text, index, line)
        BY <2>1
  <2> QED BY <1>1, <1>3, <2>2, Known, AddsCollected
<1> QED BY <1>2, <1>3 DEF Finish

-----------------------------------------------------------------------------
(* The steps, by handler.                                                  *)

LEMMA NoNewlines ==
    /\ Newline \notin IdStart /\ Newline \notin Digit /\ Newline \notin {Quote}
    /\ Newline \notin {Tick} /\ Newline \notin {"@"} /\ Newline \notin SymbolChar
    /\ Newline \notin {"."} /\ Newline \notin {Semicolon} /\ Newline \notin {"/"}
    /\ Newline \notin {"#"} /\ Newline \notin {NUL} /\ Newline \notin Escape
    /\ Newline \notin Blank /\ Newline \notin {"x", "b", "*", Backslash}
    /\ \A row \in TwoCharSymbols : row[2] # Newline
<1>1. Newline \notin SymbolChar
      BY DEF Newline, SymbolChar, OneCharSymbols, OpenBrace, CloseBrace, Comma
<1>2. \A row \in TwoCharSymbols : row[2] # Newline
      BY DEF Newline, TwoCharSymbols
<1> QED BY <1>1, <1>2 DEF Newline, IdStart, Digit, Bit, Alpha, HexLetter, Underscore, Quote,
           Tick, Semicolon, NUL, Escape, Backslash, Blank, Space

LEMMA PlainTypes ==
    /\ \A word : WordType(word) \notin {"DotDot", "BuiltinId", "Terminator"}
    /\ \A row \in OneCharSymbols : row[2] \notin {"DotDot", "BuiltinId", "Terminator"}
    /\ \A row \in TwoCharSymbols : row[3] \notin {"DotDot", "BuiltinId", "Terminator"}
<1>1. ASSUME NEW word PROVE WordType(word) \notin {"DotDot", "BuiltinId", "Terminator"}
  <2>1. CASE \E row \in Keywords : row[1] = word
    <3>1. PICK row \in Keywords : WordType(word) = row[2]
          BY <2>1 DEF WordType
    <3> QED BY <3>1, OtherTypes DEF Named
  <2>2. CASE ~\E row \in Keywords : row[1] = word
        BY <2>2 DEF WordType
  <2> QED BY <2>1, <2>2
<1> QED BY <1>1, OtherTypes DEF Named

LEMMA DirectorCounts ==
    ASSUME IInv, ReportOK, lex_director \/ lex_skip_blank
    PROVE  ReportOK'
<1>1. /\ pc' \in Idle /\ pc \in Idle
      /\ text' = text /\ line' = line /\ error' = error /\ tokens' = tokens
      BY DEF lex_director, lex_skip_blank, array, Idle
<1>2. error = "UNKNOWN" /\ Settled(text, tokens, index, Extra(text, index, line))
      BY <1>1, Waits
<1>3. CASE lex_director
  <2>1. index' = index
        BY <1>3 DEF lex_director
  <2> QED BY <1>1, <1>2, <2>1, Known, GoesOn
<1>4. CASE lex_skip_blank
  <2>1. index' = index + 1 /\ Ch(text, index) \in Blank
        BY <1>4, Here DEF lex_skip_blank
  <2>2. Ch(text, index) # Newline /\ SkipsIn(text, index, index + 1)
        BY <2>1, NoNewlines DEF SkipsIn, Separator
  <2>3. Settled(text, tokens, index + 1, Extra(text, index, line) + NewlineAt(text, index))
        BY <1>2, <2>2, Known, SettledSkips
  <2>4. Extra(text, index + 1, line) = Extra(text, index, line) + NewlineAt(text, index)
    <3>1. /\ Extra(text, index + 1, line) = Extra(text, index, line)
          /\ Extra(text, index, line) \in Int
          BY <2>2, Known, ExtraMoves
    <3>2. NewlineAt(text, index) = 0
          BY <2>2 DEF NewlineAt
    <3> QED BY <3>1, <3>2
  <2> QED BY <1>1, <1>2, <2>1, <2>3, <2>4, Known, GoesOn
<1> QED BY <1>3, <1>4

(* The newline that gives a Terminator stays where it is and is counted;   *)
(* the others are counted twice.                                           *)
LEMMA NewlineCounts ==
    ASSUME IInv, ReportOK, lex_skip_newline
    PROVE  ReportOK'
<1> DEFINE k == Extra(text, index, line)
<1>1. /\ pc = "space" /\ pc \in Idle /\ Ch(text, index) = Newline
      /\ UNCHANGED <<text, saved, error>>
      BY Here DEF lex_skip_newline, Idle
<1>2. error = "UNKNOWN" /\ Settled(text, tokens, index, k) /\ k \in Int
      BY <1>1, Waits, Known, ExtraMoves
<1>3. CASE /\ lex_add_token("Terminator", index, len, "space")
           /\ line' = line + 1
  <2>1. len = 0
        BY <1>1, Facts DEF PositionOK
  <2>2. lex_add_token("Terminator", index, 0, "space") /\ index + 0 = index
        BY <1>3, <2>1, Known
  <2>3. Extra(text, index + 0, line') = k + 1
    <3>1. Extra(text, index, line + 1) = k + 1
          BY Known, ExtraMoves
    <3> QED BY <1>3, <2>2, <3>1
  <2>4. PrefixIn(text, "Terminator", index)
        BY DEF PrefixIn
  <2> HIDE DEF k
  <2> QED BY <1>1, <1>2, <2>2, <2>3, <2>4, Known, LiteralTypes, Adds
<1>4. CASE /\ index' = index + 1
           /\ line' = line + Newlines(index) + 1
           /\ pc' = "space"
           /\ UNCHANGED array
  <2>1. line' = line + NewlineAt(text, index) + 1 /\ NewlineAt(text, index) = 1
        BY <1>1, <1>4, Here DEF Newlines, NewlineAt
  <2>2. SkipsIn(text, index, index + 1)
        BY <1>1 DEF SkipsIn, Separator
  <2>3. Settled(text, tokens, index + 1, k + NewlineAt(text, index))
        BY <1>2, <2>2, Known, SettledSkips
  <2>4. Extra(text, index + 1, line') = k + 1
        BY <2>1, Known, ExtraMoves
  <2>5. Settled(text, tokens, index + 1, Extra(text, index + 1, line'))
        BY <2>1, <2>3, <2>4
  <2> QED BY <1>1, <1>2, <1>4, <2>5, Known, GoesOn DEF array
<1> QED BY <1>3, <1>4 DEF lex_skip_newline, lex_add_terminator

LEMMA EndMarksCount ==
    ASSUME IInv, ReportOK, lex_eof \/ eot_loop \/ eot_end
    PROVE  ReportOK'
<1>1. CASE lex_eof
  <2>1. Starts({NUL}) /\ Enter(0, 0, "eot")
        BY <1>1 DEF lex_eof
  <2>2. /\ pc' = "eot" /\ pc' \in Idle /\ index' = index + 0 /\ line' = line
        /\ error' = error /\ tokens' = tokens
        BY <2>1 DEF Enter, array, Idle
  <2> QED BY <2>1, <2>2, NoNewlines, Started, GoesOn
<1>2. CASE eot_loop
  <2>1. /\ pc \in Idle /\ "eot" \in Idle /\ lex_add_token("EOT", index, 0, "eot")
        /\ UNCHANGED <<text, line, error>>
        BY <1>2 DEF eot_loop, Idle
  <2>2. /\ error' = "UNKNOWN" /\ Settled(text, tokens, index, Extra(text, index, line))
        /\ Extra(text, index, line) \in Int
        /\ Extra(text, index + 0, line') = Extra(text, index, line)
    <3>1. /\ error = "UNKNOWN" /\ Settled(text, tokens, index, Extra(text, index, line))
          /\ Extra(text, index, line) \in Int
          BY <2>1, Waits, Known, ExtraMoves
    <3>2. index + 0 = index /\ line' = line
          BY <2>1, Known
    <3> QED BY <2>1, <3>1, <3>2
  <2> QED BY <2>1, <2>2, Known, LiteralTypes, AddsPlain
<1>3. CASE eot_end
  <2>1. pc \in Idle /\ pc' = "done" /\ UNCHANGED <<text, index, line, error, tokens>>
        BY <1>3 DEF eot_end, Idle, array
  <2>2. Settled(text, tokens, index, Extra(text, index, line)) /\ index \in Nat
        BY <2>1, Waits, Known
  <2>3. pc' \notin Active /\ pc' \notin Handling /\ pc' \notin {"report", "failed"}
        /\ pc' \notin Comment
        BY <2>1, PhaseFacts DEF Comment
  <2>4. FailureOK' /\ CommentOK'
        BY <2>3, PhaseFacts DEF FailureOK, CommentOK
  <2>5. SettledOK'
        BY <2>1, <2>2, <2>3 DEF SettledOK
  <2> QED BY <2>4, <2>5 DEF ReportOK
<1> QED BY <1>1, <1>2, <1>3

LEMMA IdentifiersCount ==
    ASSUME IInv, LexemeInv, ReportOK, identifiers_step
    PROVE  ReportOK'
<1>1. CASE lex_identifiers
  <2>1. Starts(IdStart) /\ Enter(1, 1, "identifiers")
        BY <1>1 DEF lex_identifiers
  <2>2. "identifiers" \in Handling /\ pc' = "identifiers"
        BY <2>1, PhaseFacts DEF Scanning, Enter
  <2>3. CommentOK'
        BY <2>2 DEF CommentOK
  <2> QED BY <2>1, <2>2, <2>3, NoNewlines, Started, Enters
<1>2. CASE identifiers_loop
      BY <1>2, Collects DEF identifiers_loop, Scanning
<1>3. CASE identifiers_end
  <2>1. PICK word : /\ ScanEnds("identifiers", IdChar)
                    /\ Finish(WordType(word), MaxIdentifierLength, "TOO_LONG_IDENTIFIER")
        BY <1>3 DEF identifiers_end
  <2>2. /\ "identifiers" \in Scanning \ {"builtin"}
        /\ WordType(word) \in TknType /\ WordType(word) \notin {"DotDot", "BuiltinId", "Terminator"}
        BY WordTypes, PlainTypes DEF Scanning
  <2> QED BY <2>1, <2>2, Finishes
<1> QED BY <1>1, <1>2, <1>3 DEF identifiers_step

LEMMA NumbersCount ==
    ASSUME IInv, LexemeInv, ReportOK, numbers_step
    PROVE  ReportOK'
<1>1. CASE lex_numbers
  <2>1. Starts(Digit) /\ Newline \notin Digit
        BY <1>1, NoNewlines DEF lex_numbers
  <2>2. CASE lex_peek \in {"x", "b"} /\ (Enter(2, 2, "hex") \/ Enter(2, 2, "binary"))
    <3>1. Ch(text, index + 1) # Newline
          BY <2>2, Here, NoNewlines
    <3>2. Extra(text, index + 1 + 1, line) = Extra(text, index + 1, line)
          BY <2>1, <3>1, Known, ExtraMoves
    <3>3. index + 1 + 1 = index + 2
          BY Known
    <3>4. Extra(text, index + 2, line) = Extra(text, index, line)
          BY <2>1, <3>2, <3>3, Started
    <3>5. "hex" \in Handling /\ "binary" \in Handling
          BY PhaseFacts DEF Scanning
    <3>6. CommentOK'
          BY <2>2 DEF CommentOK, Enter
    <3> QED BY <2>1, <2>2, <3>4, <3>5, <3>6, Enters
  <2>3. CASE Enter(0, 0, "digits")
    <3>1. index + 0 = index /\ "digits" \in Handling
          BY Known, PhaseFacts DEF Scanning
    <3>2. Extra(text, index + 0, line) = Extra(text, index, line)
          BY <3>1
    <3>3. CommentOK'
          BY <2>3 DEF CommentOK, Enter
    <3> QED BY <2>1, <2>3, <3>1, <3>2, <3>3, Enters
  <2> QED BY <1>1, <2>2, <2>3 DEF lex_numbers
<1>2. CASE digits_loop \/ fraction_loop \/ hex_loop \/ binary_loop
      BY <1>2, Collects DEF digits_loop, fraction_loop, hex_loop, binary_loop, Scanning
<1>3. CASE digits_dot
  <2>1. /\ pc = "digits" /\ pc' = "fraction" /\ index' = index + 1 /\ line' = line
        /\ UNCHANGED <<text, saved, array, error>> /\ Ch(text, index) = "."
        BY <1>3, Here DEF digits_dot, ScanEnds, Enter
  <2>2. pc \in Handling /\ pc' \in Handling
        BY <2>1, PhaseFacts DEF Scanning
  <2>3. /\ error = "UNKNOWN" /\ Ch(text, save_index) # Newline
        /\ Settled(text, tokens, save_index, Extra(text, save_index, save_line))
        /\ Extra(text, index, line) = Extra(text, save_index, save_line)
        BY <2>2, Works
  <2>4. Extra(text, index + 1, line) = Extra(text, index, line)
        BY <2>1, NoNewlines, Known, ExtraMoves
  <2>5. CommentOK'
        BY <2>1 DEF CommentOK
  <2>6. save_index' = save_index /\ save_line' = save_line /\ tokens' = tokens
        BY <2>1 DEF array, saved
  <2> QED BY <2>1, <2>2, <2>3, <2>4, <2>5, <2>6, Known, Handles
<1>4. CASE digits_end \/ fraction_end \/ hex_end \/ binary_end
  <2>1. /\ {"digits", "fraction", "hex", "binary"} \subseteq Scanning \ {"builtin"}
        /\ {"IntegerLiteral", "FloatLiteral"} \subseteq TknType
        /\ {"IntegerLiteral", "FloatLiteral"} \cap {"DotDot", "BuiltinId", "Terminator"} = {}
        BY LiteralTypes DEF Scanning
  <2> QED BY <1>4, <2>1, Finishes DEF digits_end, fraction_end, hex_end, binary_end
<1> QED BY <1>1, <1>2, <1>3, <1>4 DEF numbers_step

LEMMA CharsCount ==
    ASSUME IInv, ReportOK, lex_chars
    PROVE  ReportOK'
<1> DEFINE k == Extra(text, index, line)
<1>1. Starts({Tick}) /\ Newline \notin {Tick}
      BY NoNewlines DEF lex_chars
<1>2. /\ error = "UNKNOWN" /\ text' = text /\ save_index' = index /\ save_line' = line
      /\ index \in Nat /\ line \in Nat
      /\ Ch(text, index) # Newline /\ Ch(text', save_index') # Newline
      /\ Settled(text, tokens, index, k) /\ k \in Int
      /\ Extra(text, index + 1, line) = k
      BY <1>1, Started
<1> HIDE DEF k
<1>3. ASSUME NEW length \in {3, 4}, lex_add_token("CharLiteral", index, length, "director"),
             line' = line + Newlines(index + 1), error' = error,
             Extra(text, index + length, line + NewlineAt(text, index + 1)) = k
      PROVE  ReportOK'
  <2>1. line' = line + NewlineAt(text, index + 1) /\ length \in Nat /\ "director" \in Idle
        BY <1>3, Here DEF Newlines, NewlineAt, Idle
  <2> QED BY <1>2, <1>3, <2>1, LiteralTypes, AddsPlain
<1>4. ASSUME NEW err, NEW length, Fail(err, length), line' = line,
             index' = index \/ (index' = index + 1 /\ err = error)
      PROVE  ReportOK'
  <2>1. pc' = "report" /\ error' = err /\ tokens' = tokens
        BY <1>4 DEF Fail, array
  <2>2. Settled(text', tokens', save_index', Extra(text', save_index', save_line'))
        BY <1>2, <2>1 DEF k
  <2> QED BY <1>2, <1>4, <2>1, <2>2, GivesUp
<1>5. /\ index + 1 \in Nat /\ index + 2 \in Nat /\ index + 3 \in Nat
      /\ index + 1 + 1 = index + 2 /\ index + 2 + 1 = index + 3 /\ index + 3 + 1 = index + 4
      BY <1>2
<1>6. Extra(text, index + 2, line + NewlineAt(text, index + 1)) = k
  <2>1. Extra(text, index + 1 + 1, line + NewlineAt(text, index + 1))
           = Extra(text, index + 1, line)
        BY <1>2, <1>5, ExtraMoves
  <2> QED BY <1>2, <1>5, <2>1
<1>7. ASSUME Ch(text, index + 2) # Newline
      PROVE  Extra(text, index + 3, line + NewlineAt(text, index + 1)) = k
  <2>1. line + NewlineAt(text, index + 1) \in Nat
        BY <1>2 DEF NewlineAt
  <2>2. Extra(text, index + 2 + 1, line + NewlineAt(text, index + 1)) = k
        BY <1>5, <1>6, <1>7, <2>1, ExtraMoves
  <2> QED BY <1>5, <2>2
<1>8. ASSUME Ch(text, index + 2) # Newline, Ch(text, index + 3) # Newline
      PROVE  Extra(text, index + 4, line + NewlineAt(text, index + 1)) = k
  <2>1. line + NewlineAt(text, index + 1) \in Nat
        BY <1>2 DEF NewlineAt
  <2>2. Extra(text, index + 3 + 1, line + NewlineAt(text, index + 1)) = k
        BY <1>5, <1>7, <1>8, <2>1, ExtraMoves
  <2> QED BY <1>5, <2>2
<1>9. CASE /\ At(index + 2) = Tick
           /\ lex_add_token("CharLiteral", index, 3, "director")
           /\ line' = line + Newlines(index + 1) /\ error' = error
  <2>1. Ch(text, index + 2) # Newline
        BY <1>9, Here, NoNewlines
  <2> QED BY <1>3, <1>7, <1>9, <2>1
<1>10. CASE /\ At(index + 2) \in Escape /\ At(index + 3) = Tick
            /\ lex_add_token("CharLiteral", index, 4, "director")
            /\ line' = line + Newlines(index + 1) /\ error' = error
  <2>1. Ch(text, index + 2) # Newline /\ Ch(text, index + 3) # Newline
        BY <1>10, Here, NoNewlines
  <2> QED BY <1>3, <1>8, <1>10, <2>1
<1>11. \/ /\ At(index + 2) = Tick
          /\ lex_add_token("CharLiteral", index, 3, "director")
          /\ line' = line + Newlines(index + 1) /\ error' = error
       \/ /\ At(index + 2) \in Escape /\ At(index + 3) = Tick
          /\ lex_add_token("CharLiteral", index, 4, "director")
          /\ line' = line + Newlines(index + 1) /\ error' = error
       \/ Fail(error, 1) /\ index' = index + 1 /\ line' = line
       \/ Fail("NOT_VALID_ESCAPE_CHAR", 2) /\ index' = index /\ line' = line
       \/ Fail("LEXER_INVALID_CHAR", 3) /\ index' = index /\ line' = line
       BY DEF lex_chars
<1> QED BY <1>4, <1>9, <1>10, <1>11

LEMMA LiteralsCount ==
    ASSUME IInv, LexemeInv, ReportOK, literals_step
    PROVE  ReportOK'
<1>1. CASE lex_strings \/ lex_builtin_funcs
  <2>1. PICK S \in {{Quote}, {"@"}}, next \in {"strings", "builtin"}, length \in 0 .. 1 :
           Starts(S) /\ Enter(1, length, next)
        BY <1>1 DEF lex_strings, lex_builtin_funcs
  <2>2. Newline \notin S /\ next \in Handling
        BY NoNewlines, PhaseFacts DEF Scanning
  <2>3. CommentOK'
        BY <2>1 DEF CommentOK, Enter
  <2> QED BY <2>1, <2>2, <2>3, Started, Enters
<1>2. CASE strings_loop
  <2>1. /\ pc \in Handling /\ pc' = pc /\ UNCHANGED <<text, saved, array, error>>
        /\ index' = index + 1 /\ line' = line + NewlineAt(text, index)
        BY <1>2, PhaseFacts, Here DEF strings_loop, lex_advance_len_inc, Scanning, Newlines,
                                      NewlineAt
  <2>2. CommentOK'
        BY <1>2 DEF CommentOK, strings_loop
  <2>3. Extra(text, index', line') = Extra(text, index, line)
        BY <2>1, Known, ExtraMoves
  <2> QED BY <2>1, <2>2, <2>3, Turns
<1>3. CASE strings_open
      BY <1>3, Retreats DEF strings_open, Scanning
<1>4. CASE strings_close
  <2>1. /\ pc \in Scanning \ {"builtin"} /\ UNCHANGED <<text, saved>>
        /\ Ch(text, index) = Quote
        BY <1>4, Here DEF strings_close, ClosingQuote, Scanning
  <2>2. CASE FailAtStart("TOO_LONG_STRING", len + 1)
        BY <2>1, <2>2, Retreats
  <2>3. CASE /\ lex_add_token("StringLiteral", index - len, len + 1, "director")
             /\ UNCHANGED <<line, error>>
    <3>1. index - len + (len + 1) = index + 1 /\ len + 1 \in Nat
          BY <2>1, Located
    <3>2. Extra(text, index + 1, line) = Extra(text, index, line)
          BY <2>1, NoNewlines, Known, ExtraMoves
    <3>3. Extra(text, index - len + (len + 1), line) = Extra(text, index, line)
          BY <3>1, <3>2
    <3> QED BY <2>1, <2>3, <3>1, <3>3, LiteralTypes, AddsCollected
  <2> QED BY <1>4, <2>2, <2>3 DEF strings_close
<1>5. CASE builtin_loop
      BY <1>5, Collects DEF builtin_loop, Scanning
<1>6. CASE builtin_end
  <2>1. /\ pc = "builtin" /\ UNCHANGED <<text, line, error>>
        /\ lex_add_token("BuiltinId", index - len, len, "director")
        /\ "director" \in Idle /\ pc \in Handling
        BY <1>6, PhaseFacts, Phase DEF builtin_end, ScanEnds, Idle
  <2>2. /\ index - len = save_index + 1 /\ Ch(text, save_index) = "@"
        BY <2>1 DEF LexemeInv, ScanOK
  <2>3. save_index + 1 + len = index /\ save_index + 1 \in Nat
        BY <2>2, Known
  <2>4. /\ error' = "UNKNOWN" /\ Ch(text, save_index) # Newline
        /\ Settled(text, tokens, save_index, Extra(text, save_index, save_line))
        /\ Extra(text, index, line) = Extra(text, save_index, save_line)
        /\ Extra(text, save_index, save_line) \in Int
        BY <2>1, Works, Known, ExtraMoves
  <2>5. PrefixIn(text, "BuiltinId", save_index)
        BY <2>2 DEF PrefixIn
  <2>6. lex_add_token("BuiltinId", save_index + 1, len, "director")
        BY <2>1, <2>2
  <2>7. Extra(text, save_index + 1 + len, line') = Extra(text, save_index, save_line) + 0
        BY <2>1, <2>3, <2>4
  <2> QED BY <2>1, <2>3, <2>4, <2>5, <2>6, <2>7, Known, LiteralTypes, Adds
<1> QED BY <1>1, <1>2, <1>3, <1>4, <1>5, <1>6, CharsCount DEF literals_step

LEMMA SymbolsCount ==
    ASSUME IInv, ReportOK, symbols_step
    PROVE  ReportOK'
<1>1. "director" \in Idle
      BY DEF Idle
<1>2. ASSUME NEW S, Starts(S), Newline \notin S
      PROVE  /\ text' = text /\ error = "UNKNOWN" /\ index \in Nat
             /\ Ch(text, index) # Newline
             /\ Settled(text, tokens, index, Extra(text, index, line))
             /\ Extra(text, index, line) \in Int
             /\ Extra(text, index + 1, line) = Extra(text, index, line)
             /\ Ch(text, index + 1) # Newline
                   => Extra(text, index + 2, line) = Extra(text, index, line)
  <2>1. /\ Extra(text, index + 1, line) = Extra(text, index, line)
        /\ index + 1 \in Nat /\ index + 1 + 1 = index + 2 /\ line \in Nat
        BY <1>2, Started
  <2>2. Ch(text, index + 1) # Newline
           => Extra(text, index + 1 + 1, line) = Extra(text, index + 1, line)
        BY <2>1, ExtraMoves
  <2> QED BY <1>2, <2>1, <2>2, Started
<1>3. CASE lex_long_symbol
  <2>1. Starts(SymbolChar) /\ UNCHANGED <<line, error>>
        BY <1>3 DEF lex_long_symbol
  <2>2. PICK row \in TwoCharSymbols : /\ lex_peek = row[2]
                                      /\ lex_add_token(row[3], index, 2, "director")
        BY <1>3 DEF lex_long_symbol
  <2>3. Ch(text, index + 1) # Newline
        BY <2>2, Here, NoNewlines
  <2>4. row[3] \in TknType /\ row[3] \notin {"DotDot", "BuiltinId", "Terminator"}
        BY SymbolTypes, PlainTypes
  <2>5. Extra(text, index + 2, line') = Extra(text, index, line)
        BY <1>2, <2>1, <2>3, NoNewlines
  <2> QED BY <1>1, <1>2, <2>1, <2>2, <2>4, <2>5, NoNewlines, AddsPlain
<1>4. CASE lex_short_symbol
  <2>1. Starts(SymbolChar) /\ UNCHANGED <<line, error>>
        BY <1>4 DEF lex_short_symbol
  <2>2. PICK row \in OneCharSymbols : lex_add_token(row[2], index, 1, "director")
        BY <1>4 DEF lex_short_symbol
  <2>3. row[2] \in TknType /\ row[2] \notin {"DotDot", "BuiltinId", "Terminator"}
        BY SymbolTypes, PlainTypes
  <2>4. Extra(text, index + 1, line') = Extra(text, index, line)
        BY <1>2, <2>1, NoNewlines
  <2> QED BY <1>1, <1>2, <2>1, <2>2, <2>3, <2>4, NoNewlines, AddsPlain
<1>5. CASE lex_dotdot
  <2>1. /\ Starts({"."}) /\ UNCHANGED <<line, error>> /\ Ch(text, index + 1) = "."
        /\ lex_add_token("DotDot", index + 1, 1, "director") /\ Newline \notin {"."}
        BY <1>5, Here, NoNewlines DEF lex_dotdot
  <2>2. Ch(text, index + 1) # Newline /\ Ch(text, index) = "."
        BY <2>1, NoNewlines, Started
  <2>3. /\ text' = text /\ error' = "UNKNOWN" /\ index \in Nat /\ index + 1 \in Nat
        /\ Ch(text, index) # Newline
        /\ Settled(text, tokens, index, Extra(text, index, line))
        /\ Extra(text, index, line) \in Int
        /\ Extra(text, index + 2, line) = Extra(text, index, line)
        BY <1>2, <2>1, <2>2
  <2>4. index + 1 + 1 = index + 2
        BY <2>3
  <2>5. Extra(text, index + 1 + 1, line') = Extra(text, index, line) + 0
        BY <2>1, <2>3, <2>4
  <2>6. PrefixIn(text, "DotDot", index)
        BY <2>2 DEF PrefixIn
  <2> QED BY <1>1, <2>1, <2>3, <2>5, <2>6, LiteralTypes, Adds
<1>6. CASE lex_semicolon
  <2>1. Starts({Semicolon}) /\ error' = error /\ Newline \notin {Semicolon}
        BY <1>6, NoNewlines DEF lex_semicolon
  <2>2. /\ text' = text /\ error' = "UNKNOWN" /\ index \in Nat /\ line \in Nat
        /\ Ch(text, index) = Semicolon /\ Ch(text, index) # Newline
        /\ Settled(text, tokens, index, Extra(text, index, line))
        /\ Extra(text, index, line) \in Int
        /\ Extra(text, index + 1, line) = Extra(text, index, line)
        BY <2>1, Started
  <2>3. CASE lex_add_token("Terminator", index, 1, "director") /\ line' = line + 0
    <3>1. line' = line
          BY <2>2, <2>3
    <3>2. Extra(text, index + 1, line') = Extra(text, index, line) + 0
          BY <2>2, <3>1
    <3>3. PrefixIn(text, "Terminator", index)
          BY DEF PrefixIn
    <3> QED BY <1>1, <2>2, <2>3, <3>2, <3>3, LiteralTypes, Adds
  <2>4. CASE /\ index' = index + 1 /\ line' = line + Newlines(index) + 0
             /\ pc' = "director" /\ UNCHANGED array
    <3>1. Newlines(index) = 0 /\ NewlineAt(text, index) = 0
          BY <2>2, Here DEF Newlines, NewlineAt
    <3>2. line' = line /\ tokens' = tokens
          BY <2>2, <2>4, <3>1 DEF array
    <3>3. SkipsIn(text, index, index + 1)
          BY <2>2 DEF SkipsIn, Separator
    <3>4. Settled(text, tokens, index + 1, Extra(text, index, line) + NewlineAt(text, index))
          BY <2>2, <3>3, Known, SettledSkips
    <3>5. Settled(text, tokens, index + 1, Extra(text, index + 1, line))
          BY <2>2, <3>1, <3>4
    <3> QED BY <1>1, <2>2, <2>4, <3>2, <3>5, GoesOn
  <2> QED BY <1>6, <2>3, <2>4 DEF lex_semicolon, lex_add_terminator
<1>7. CASE lex_invalid_char
  <2> DEFINE S == Char \ (Digit \cup IdStart \cup SymbolChar \cup Blank \cup
                          {Quote, Tick, "@", Semicolon, "#", NUL, Newline})
  <2>1. /\ Starts(S) /\ Newline \notin S /\ UNCHANGED <<index, line>>
        /\ Fail("LEXER_INVALID_CHAR", 1)
        BY <1>7 DEF lex_invalid_char
  <2> HIDE DEF S
  <2>2. /\ text' = text /\ save_index' = index /\ save_line' = line /\ index \in Nat
        /\ Ch(text', save_index') # Newline
        /\ Settled(text, tokens, index, Extra(text, index, line))
        BY <2>1, Started
  <2>3. pc' = "report" /\ tokens' = tokens
        BY <2>1 DEF Fail, array
  <2> QED BY <2>1, <2>2, <2>3, GivesUp
<1> QED BY <1>3, <1>4, <1>5, <1>6, <1>7 DEF symbols_step

(* A comment that ends at b: what came before it and the comment.          *)
LEMMA CommentSettles ==
    ASSUME IInv, ReportOK, pc \in Comment, UNCHANGED <<text, array, error>>,
           pc' = "director", index' \in Nat, save_index < index',
           SkipsIn(text, save_index, index'),
           Extra(text, index', line') = Extra(text, index, line)
    PROVE  ReportOK'
<1>1. pc \in Handling /\ pc' \in Idle /\ tokens' = tokens
      BY PhaseFacts DEF Idle, array
<1>2. /\ error = "UNKNOWN" /\ Ch(text, save_index) # Newline
      /\ Settled(text, tokens, save_index, Extra(text, save_index, save_line))
      /\ Extra(text, index, line) = Extra(text, save_index, save_line)
      BY <1>1, Works
<1>3. save_index \in Nat /\ tokens \in Seq(Token)
      BY Known
<1>4. /\ Extra(text, save_index, save_line) \in Nat
      /\ Settled(text, tokens, index',
                 Extra(text, save_index, save_line) + NewlineAt(text, save_index))
      BY <1>2, <1>3, SettledSkips
<1>5. Extra(text, save_index, save_line) + NewlineAt(text, save_index)
         = Extra(text, index', line')
      BY <1>2, <1>4 DEF NewlineAt
<1> QED BY <1>1, <1>2, <1>4, <1>5, GoesOn

LEMMA CommentsStart ==
    ASSUME IInv, ReportOK, lex_line_comment \/ lex_hash_comment \/ lex_nested_comments
    PROVE  ReportOK'
<1>1. CASE lex_line_comment \/ lex_hash_comment
  <2>1. PICK S \in {{"/"}, {"#"}}, next \in {"line_comment", "hash_comment"} :
           /\ Starts(S) /\ Enter(0, 1, next)
           /\ next = "line_comment" => S = {"/"} /\ Ch(text, index + 1) = "/"
           /\ next = "hash_comment" => S = {"#"}
        BY <1>1, Here DEF lex_line_comment, lex_hash_comment
  <2>2. Newline \notin S /\ index + 0 = index
        BY <2>1, NoNewlines, Known
  <2>3. /\ text' = text /\ save_index' = index /\ index' = index /\ pc' = next
        /\ Ch(text, index) \in S /\ index \in Nat
        BY <2>1, <2>2, Started DEF Enter
  <2>4. Extra(text, index + 0, line) = Extra(text, index, line) /\ next \in Handling
        BY <2>2, PhaseFacts
  <2>5. NoNewlineIn(text', save_index', index')
        BY <2>3 DEF NoNewlineIn
  <2>6. CommentOK'
        BY <2>1, <2>3, <2>5 DEF CommentOK
  <2> QED BY <2>1, <2>2, <2>4, <2>6, Enters
<1>2. CASE lex_nested_comments
  <2>1. /\ Starts({"/"}) /\ Newline \notin {"/"} /\ Enter(2, 1, "nested") /\ loop' = 1
        /\ Ch(text, index + 1) = "*"
        BY <1>2, NoNewlines, Here DEF lex_nested_comments
  <2>2. /\ text' = text /\ save_index' = index /\ index' = index + 2 /\ pc' = "nested"
        /\ Ch(text, index) = "/" /\ index \in Nat /\ line \in Nat
        /\ Extra(text, index + 1, line) = Extra(text, index, line)
        BY <2>1, Started DEF Enter
  <2>3. Extra(text, index + 1 + 1, line) = Extra(text, index + 1, line)
        BY <2>1, <2>2, NoNewlines, ExtraMoves
  <2>4. index + 1 + 1 = index + 2 /\ "nested" \in Handling
        BY <2>2, PhaseFacts
  <2>5. Extra(text, index + 2, line) = Extra(text, index, line)
        BY <2>2, <2>3, <2>4
  <2>6. NestingIn(text, index, index + 2, 1)
        BY <2>1, <2>2, NestingStarts DEF OpenIn
  <2>7. CommentOK'
        BY <2>1, <2>2, <2>6 DEF CommentOK
  <2> QED BY <2>1, <2>4, <2>5, <2>7, Enters
<1> QED BY <1>1, <1>2

LEMMA CommentsGoOn ==
    ASSUME IInv, ReportOK, comment_loop \/ nested_skip \/ nested_close \/ nested_open
    PROVE  ReportOK'
<1>1. CASE comment_loop
  <2>1. /\ pc \in Handling /\ pc' = pc /\ UNCHANGED <<text, saved, array, error>>
        /\ index' = index + 1 /\ line' = line + NewlineAt(text, index)
        /\ Ch(text, index) # Newline /\ pc \in {"line_comment", "hash_comment"}
        BY <1>1, Here, PhaseFacts DEF comment_loop, lex_advance, InComment, Newlines, NewlineAt
  <2>2. /\ index \in Nat /\ save_index \in Nat /\ save_index' = save_index /\ text' = text
        /\ NoNewlineIn(text, save_index, index)
        BY <2>1, Known DEF saved, ReportOK, CommentOK
  <2>3. NoNewlineIn(text, save_index, index + 1)
        BY <2>1, <2>2 DEF NoNewlineIn
  <2>4. CommentOK'
        BY <2>1, <2>2, <2>3 DEF CommentOK, ReportOK
  <2>5. Extra(text, index', line') = Extra(text, index, line)
        BY <2>1, Known, ExtraMoves
  <2> QED BY <2>1, <2>4, <2>5, Turns
<1>2. CASE nested_skip
  <2>1. /\ pc = "nested" /\ pc' = pc /\ UNCHANGED <<text, saved, array, error>>
        /\ index' = index + 1 /\ line' = line + NewlineAt(text, index) /\ loop' = loop
        /\ loop > 0 /\ ~MarkIn(text, index)
        BY <1>2, Here DEF nested_skip, lex_advance, InNested, Newlines, NewlineAt, MarkIn,
                          OpenIn, CloseIn
  <2>2. /\ save_index' = save_index /\ text' = text /\ pc \in Handling
        /\ NestingIn(text, save_index, index, loop)
        BY <2>1, PhaseFacts DEF saved, ReportOK, CommentOK
  <2>3. NestingIn(text, save_index, index + 1, loop)
        BY <2>1, <2>2, Known, NestingSkips
  <2>4. CommentOK'
        BY <2>1, <2>2, <2>3 DEF CommentOK
  <2>5. Extra(text, index', line') = Extra(text, index, line)
        BY <2>1, Known, ExtraMoves
  <2> QED BY <2>1, <2>2, <2>4, <2>5, Turns
<1>3. CASE nested_close \/ nested_open
  <2>1. /\ pc = "nested" /\ pc' = pc /\ UNCHANGED <<text, saved, array, error>>
        /\ index' = index + 2 /\ line' = line /\ loop > 0
        /\ \/ OpenIn(text, index) /\ loop' = loop + 1
           \/ CloseIn(text, index) /\ loop' = loop - 1
        BY <1>3, Here DEF nested_close, nested_open, nested_mark, InNested, OpenIn, CloseIn
  <2>2. /\ save_index' = save_index /\ text' = text /\ pc \in Handling
        /\ NestingIn(text, save_index, index, loop)
        BY <2>1, PhaseFacts DEF saved, ReportOK, CommentOK
  <2>3. NestingIn(text, save_index, index + 2, loop')
        BY <2>1, <2>2, Known, NestingMarks
  <2>4. CommentOK'
        BY <2>1, <2>2, <2>3 DEF CommentOK
  <2>5. Ch(text, index) # Newline /\ Ch(text, index + 1) # Newline
        BY <2>1, NoNewlines DEF OpenIn, CloseIn
  <2>6. /\ index + 1 \in Nat /\ index + 1 + 1 = index + 2 /\ index \in Nat /\ line \in Nat
        BY Known
  <2>7. /\ Extra(text, index + 1, line) = Extra(text, index, line)
        /\ Extra(text, index + 1 + 1, line) = Extra(text, index + 1, line)
        BY <2>5, <2>6, ExtraMoves
  <2>8. Extra(text, index', line') = Extra(text, index, line)
        BY <2>1, <2>6, <2>7
  <2> QED BY <2>1, <2>2, <2>4, <2>8, Turns
<1> QED BY <1>1, <1>2, <1>3

LEMMA CommentsLeave ==
    ASSUME IInv, ReportOK, line_comment_end \/ hash_comment_end \/ nested_end
    PROVE  ReportOK'
<1>1. /\ pc \in Comment /\ pc' = "director" /\ UNCHANGED <<text, array, error>>
      BY PhaseFacts DEF line_comment_end, hash_comment_end, nested_end
<1>2. /\ index \in Nat /\ line \in Nat /\ save_index \in Nat /\ Len(text) \in Nat
      /\ loop \in Nat
      /\ save_index <= index /\ index <= Len(text)
      /\ pc \in {"line_comment", "nested"} => save_index < index \/ InComment
      BY <1>1, Known, Facts, PhaseFacts DEF PositionOK, ProgressOK
<1>3. ~InComment => EndsLineIn(text, index)
      BY <1>2, Here DEF InComment, lex_is_not_eof, EndsLineIn
<1>4. CASE line_comment_end
  <2>1. pc = "line_comment" /\ index' = index /\ line' = line /\ ~InComment
        BY <1>4 DEF line_comment_end
  <2>2. SkipsIn(text, save_index, index)
        BY <1>2, <1>3, <2>1, CommentsEnd DEF ReportOK, CommentOK
  <2> QED BY <1>1, <1>2, <2>1, <2>2, CommentSettles
<1>5. CASE hash_comment_end
  <2>1. /\ pc = "hash_comment" /\ index' = index + 1 /\ line' = line + NewlineAt(text, index)
        /\ ~InComment
        BY <1>5, Here DEF hash_comment_end, lex_advance, Newlines, NewlineAt
  <2>2. SkipsIn(text, save_index, index + 1)
        BY <1>2, <1>3, <2>1, CommentsEnd DEF ReportOK, CommentOK
  <2>3. Extra(text, index', line') = Extra(text, index, line)
        BY <1>2, <2>1, ExtraMoves
  <2> QED BY <1>1, <1>2, <2>1, <2>2, <2>3, CommentSettles
<1>6. CASE nested_end
  <2>1. /\ pc = "nested" /\ index' = index /\ line' = line
        /\ loop = 0 \/ index = Len(text)
        BY <1>2, <1>6 DEF nested_end, InNested, lex_is_not_eof
  <2>2. NestingIn(text, save_index, index, loop)
        BY <2>1 DEF ReportOK, CommentOK
  <2>3. SkipsIn(text, save_index, index)
        BY <1>2, <2>1, <2>2, CommentsEnd
  <2>4. save_index < index
        BY <2>1, Facts, PhaseFacts DEF ProgressOK
  <2> QED BY <1>1, <1>2, <2>1, <2>3, <2>4, CommentSettles
<1> QED BY <1>4, <1>5, <1>6

LEMMA CommentsCount ==
    ASSUME IInv, ReportOK, comments_step
    PROVE  ReportOK'
BY CommentsStart, CommentsGoOn, CommentsLeave DEF comments_step

LEMMA ReportCounts ==
    ASSUME IInv, ReportOK, lex_report_error
    PROVE  ReportOK'
<1>1. /\ pc = "report" /\ pc' \in {"failed", "aborted"}
      /\ pc' = "failed" => HasMessage(error)
      /\ UNCHANGED <<text, index, line, save_index, save_line, error, tokens>>
      BY DEF lex_report_error, saved, array
<1>2. /\ Ch(text, save_index) # Newline
      /\ error = "UNKNOWN" \/ (index = save_index /\ line = save_line)
      /\ Settled(text, tokens, save_index, Extra(text, save_index, save_line))
      /\ save_index \in Nat
      BY <1>1, Known DEF ReportOK, FailureOK, SettledOK
<1>3. /\ pc' \notin Active /\ pc' \notin Handling /\ pc' # "report"
      /\ pc' \notin Idle \cup {"done"} /\ pc' \notin Comment
      BY <1>1, PhaseFacts
<1>4. FailureOK' /\ CommentOK'
      BY <1>1, <1>2, <1>3, PhaseFacts DEF FailureOK, CommentOK
<1>5. SettledOK'
      BY <1>1, <1>2, <1>3 DEF SettledOK
<1> QED BY <1>4, <1>5 DEF ReportOK

LEMMA ReportInitial == ASSUME lexer_init PROVE ReportOK
<1>1. /\ pc = "director" /\ error = "UNKNOWN" /\ index = 0 /\ line = 1 /\ tokens = <<>>
      BY DEF lexer_init
<1>2. NewlinesIn(text, {}) = 0 /\ 0 .. 0 - 1 = {}
  <2>1. {p \in {} : Ch(text, p) = Newline} = {} /\ 0 .. 0 - 1 = {}
        OBVIOUS
  <2> QED BY <2>1, FS_EmptySet DEF NewlinesIn
<1>3. Passed(text, 0) = 0
      BY <1>2 DEF Passed
<1>4. GivenBy(<<>>) = 0
  <2>1. {i \in DOMAIN <<>> : EmptyTerminator((<<>>)[i])} = {}
        OBVIOUS
  <2> QED BY <2>1, FS_EmptySet DEF GivenBy
<1>5. Covered(text, <<>>, 0, {0})
  <2>1. Len(<<>>) = 0
        OBVIOUS
  <2>2. GapStartIn(<<>>, 1) = 0 /\ GapEndIn(<<>>, 1, 0) = 0
        BY <2>1 DEF GapStartIn, GapEndIn
  <2>3. {0} \cap (0 .. 0) = {0} /\ 0 \in 0 .. 0
        OBVIOUS
  <2>4. TilesIn(text, {0} \cap (0 .. 0), 0, 0)
        BY <2>3 DEF TilesIn
  <2> DEFINE none == <<>>
  <2>5. /\ \A i \in 1 .. Len(none) + 1 : i = 1
        /\ 1 \in 1 .. Len(none) + 1
        /\ \A i \in 1 .. Len(none) : FALSE
        BY <2>1
  <2>6. GapStartIn(none, 1) = 0 /\ GapEndIn(none, 1, 0) = 0
        BY <2>2
  <2> HIDE DEF none
  <2>7. ASSUME NEW i \in 1 .. Len(none) + 1
        PROVE  /\ GapStartIn(none, i) \in 0 .. 0 /\ GapEndIn(none, i, 0) \in 0 .. 0
               /\ TilesIn(text, {0} \cap (GapStartIn(none, i) .. GapEndIn(none, i, 0)),
                          GapStartIn(none, i), GapEndIn(none, i, 0))
    <3>1. GapStartIn(none, i) = 0 /\ GapEndIn(none, i, 0) = 0
          BY <2>5, <2>6
    <3> QED BY <2>3, <2>4, <3>1
  <2>8. \A c \in {0} : \E i \in 1 .. Len(none) + 1 :
           c \in GapStartIn(none, i) .. GapEndIn(none, i, 0)
        BY <2>5, <2>6, <2>3
  <2>9. \A i \in 1 .. Len(none) : PrefixIn(text, none[i].type, GapEndIn(none, i, 0))
        BY <2>5
  <2>10. Covered(text, none, 0, {0})
         BY <2>7, <2>8, <2>9 DEF Covered
  <2> QED BY <2>10 DEF none
<1>6. Settled(text, tokens, index, 1)
  <2>1. {0} \in SUBSET (0 .. 0) /\ {0} \ {0} = {}
        OBVIOUS
  <2>2. 1 = 1 + NewlinesIn(text, {0} \ {0}) + GivenBy(<<>>)
    <3>1. NewlinesIn(text, {0} \ {0}) = 0
          BY <1>2, <2>1
    <3> QED BY <1>4, <3>1
  <2>3. Settled(text, <<>>, 0, 1)
        BY <1>5, <2>1, <2>2 DEF Settled
  <2> QED BY <1>1, <2>3
<1>7. Extra(text, index, line) = 1
      BY <1>1, <1>3 DEF Extra
<1>8. pc \in Idle /\ pc \notin Handling \cup {"report", "failed", "done"} /\ pc \notin Comment
      BY <1>1, PhaseFacts DEF Idle
<1>9. FailureOK /\ CommentOK
      BY <1>1, <1>8, PhaseFacts DEF FailureOK, CommentOK
<1>10. SettledOK
       BY <1>1, <1>6, <1>7, <1>8 DEF SettledOK
<1> QED BY <1>9, <1>10 DEF ReportOK

LEMMA ReportStep == ASSUME IInv, LexemeInv, ReportOK, [Next]_vars PROVE ReportOK'
<1>1. CASE UNCHANGED vars
  <2>1. UNCHANGED <<text, index, line, error, save_index, save_line, tokens, loop, pc>>
        BY <1>1 DEF vars
  <2> QED BY <2>1 DEF ReportOK, FailureOK, CommentOK, SettledOK
<1>2. CASE lexer_step
      BY <1>2, DirectorCounts, NewlineCounts, EndMarksCount, ReportCounts DEF lexer_step
<1> QED BY <1>1, <1>2, IdentifiersCount, NumbersCount, LiteralsCount, SymbolsCount,
           CommentsCount DEF Next

LEMMA ReportInductive == Spec => []ReportOK
<1>1. lexer_init => ReportOK
      BY ReportInitial
<1>2. IInv /\ LexemeInv /\ ReportOK /\ [Next]_vars => ReportOK'
      BY ReportStep
<1> QED BY <1>1, <1>2, Inductive, LexemeInductive, PTL DEF Spec

-----------------------------------------------------------------------------
(* The piece of the text that is printed.                                  *)

LEMMA LowEnd ==
    ASSUME index \in Nat, At(index) # Newline
    PROVE  /\ ReportLow \in Nat /\ ReportLow <= index
           /\ ReportLow = 0 \/ At(ReportLow - 1) = Newline
           /\ \A p \in ReportLow .. index : At(p) = Newline => p <= 1
<1> DEFINE Stops(p) == /\ p = 0 \/ At(p) = Newline
                       /\ \A q \in p + 1 .. index : At(q) # Newline
           T == {p \in 0 .. index : p = 0 \/ At(p) = Newline}
           low == CHOOSE p \in 0 .. index : Stops(p)
<1>1. \E p \in 0 .. index : Stops(p)
  <2>1. T \subseteq 0 .. index /\ 0 \in T
        OBVIOUS
  <2>2. PICK m \in T : \A j \in T : j <= m
    <3> HIDE DEF T
    <3> QED BY <2>1, GreatestOf
  <2>3. ASSUME NEW q \in m + 1 .. index PROVE At(q) # Newline
        BY <2>2
  <2> QED BY <2>2, <2>3
<1>2. low \in 0 .. index /\ Stops(low)
      BY <1>1
<1>3. ReportLow = IF low > 1 THEN low + 1 ELSE 0
      BY DEF ReportLow
<1> HIDE DEF low
<1>4. CASE low > 1
  <2>1. ReportLow = low + 1 /\ At(low) = Newline /\ low # index /\ low + 1 - 1 = low
        BY <1>2, <1>3, <1>4
  <2> QED BY <1>2, <2>1
<1>5. CASE ~(low > 1)
      BY <1>2, <1>3, <1>5
<1> QED BY <1>4, <1>5

LEMMA HighEnd ==
    ASSUME index \in Nat, Len(text) \in Nat, Len(text) >= 1
    PROVE  /\ ReportEnd \in Nat /\ index <= ReportEnd
           /\ \A q \in index .. ReportEnd - 1 : At(q) # Newline
<1> DEFINE Stops(p) == At(p) = Newline \/ p + 1 >= Len(text)
           Found(p) == /\ Stops(p)
                       /\ \A q \in index .. p - 1 : At(q) # Newline /\ q + 1 < Len(text)
           T == {p \in index .. index + Len(text) : Stops(p)}
<1>1. \E p \in index .. index + Len(text) : Found(p)
  <2>1. T \subseteq Nat /\ index + Len(text) \in T
        OBVIOUS
  <2>2. PICK m \in T : \A j \in T : m <= j
    <3> HIDE DEF T
    <3> QED BY <2>1, LeastOf
  <2>3. ASSUME NEW q \in index .. m - 1 PROVE At(q) # Newline /\ q + 1 < Len(text)
    <3>1. q \in index .. index + Len(text) /\ ~(m <= q)
          BY <2>2
    <3>2. q \notin T
          BY <2>2, <3>1
    <3> QED BY <3>1, <3>2
  <2> QED BY <2>2, <2>3
<1>2. ReportEnd \in index .. index + Len(text) /\ Found(ReportEnd)
      BY <1>1 DEF ReportEnd
<1> QED BY <1>2

-----------------------------------------------------------------------------
(* The properties speak of the text and the tokens of the state.           *)

LEMMA SameSkips == \A a, b : Skips(a, b) <=> SkipsIn(text, a, b)
<1>1. \A p : /\ EndsLine(p) <=> EndsLineIn(text, p)
             /\ OpenMark(p) <=> OpenIn(text, p)
             /\ CloseMark(p) <=> CloseIn(text, p)
             /\ Mark(p) <=> MarkIn(text, p)
      BY Here DEF EndsLine, EndsLineIn, OpenMark, OpenIn, CloseMark, CloseIn, Mark, MarkIn
<1>2. \A a, b : RestOfLine(a, b) <=> RestOfLineIn(text, a, b)
      BY <1>1 DEF RestOfLine, RestOfLineIn
<1>3. ASSUME NEW marks, NEW p PROVE Depth(marks, p) = DepthIn(text, marks, p)
  <2>1. {m \in marks : m + 1 < p /\ OpenMark(m)} = OpenedBy(text, marks, p)
        BY <1>1 DEF OpenedBy
  <2>2. {m \in marks : m + 1 < p /\ CloseMark(m)} = ClosedBy(text, marks, p)
        BY <1>1 DEF ClosedBy
  <2> QED BY <2>1, <2>2 DEF Depth, DepthIn
<1>4. ASSUME NEW a, NEW b
      PROVE  NestedComment(a, b)
                <=> \E marks : /\ Nested(text, a, b, marks)
                               /\ DepthIn(text, marks, b) = 0 \/ b = Len(text)
  <2>1. {p \in a .. b - 2 : Mark(p)} = {p \in a .. b - 2 : MarkIn(text, p)}
        BY <1>1
  <2> QED BY <1>1, <1>3, <2>1 DEF NestedComment, Nested
<1> QED BY <1>1, <1>2, <1>4, Here DEF Skips, SkipsIn, LineComment, HashComment

LEMMA SameGaps ==
    /\ \A cuts, a, b : Tiles(cuts, a, b) <=> TilesIn(text, cuts, a, b)
    /\ \A i : GapStart(i) = GapStartIn(tokens, i) /\ GapEnd(i) = GapEndIn(tokens, i, index)
<1>1. \A cuts, a, b : Tiles(cuts, a, b) <=> TilesIn(text, cuts, a, b)
      BY SameSkips DEF Tiles, TilesIn
<1>2. \A i : GapStart(i) = GapStartIn(tokens, i) /\ GapEnd(i) = GapEndIn(tokens, i, index)
      BY DEF GapStart, GapStartIn, GapEnd, GapEndIn, Prefixed, PrefixedIn
<1> QED BY <1>1, <1>2

-----------------------------------------------------------------------------
(* The theorems.                                                           *)

(* Whatever the text, a failure that is reported points at the start of    *)
(* what could not be scanned, with the line that goes with it              *)
(* (lexer.c:709-713).                                                      *)
THEOREM FailuresPointAtTheStart == Spec => []FailurePointsAtStart
<1>1. ReportOK => FailurePointsAtStart
      BY DEF ReportOK, FailureOK, FailurePointsAtStart, HasMessage
<1> QED BY <1>1, ReportInductive, PTL

(* Whatever the text, what lies between two tokens is separators and whole *)
(* comments, each up to its own end: no character is lost, and no comment  *)
(* takes one more than is its own (lexer.c:595, 615, 786).                 *)
THEOREM NothingIsDropped == Spec => []NothingDropped
<1>1. IInv /\ ReportOK => NothingDropped
  <2> SUFFICES ASSUME IInv, ReportOK, NEW i \in 1 .. Len(tokens)
               PROVE  /\ \E cuts \in SUBSET Gap(i) : Tiles(cuts, GapStart(i), GapEnd(i))
                      /\ tokens[i].type = "DotDot" => At(GapEnd(i)) = "."
                      /\ tokens[i].type = "BuiltinId" => At(GapEnd(i)) = "@"
      BY DEF NothingDropped
  <2>1. PICK h \in Nat : \E k : Settled(text, tokens, h, k)
        BY DEF ReportOK, SettledOK
  <2>2. PICK cuts \in SUBSET (0 .. h) : Covered(text, tokens, h, cuts)
        BY <2>1 DEF Settled
  <2>3. i \in 1 .. Len(tokens) + 1 /\ ~(i > Len(tokens))
        BY Known
  <2>4. /\ GapStart(i) = GapStartIn(tokens, i)
        /\ GapEnd(i) = GapEndIn(tokens, i, h)
        BY <2>3, SameGaps DEF GapEndIn
  <2>5. TilesIn(text, cuts \cap Gap(i), GapStart(i), GapEnd(i))
        BY <2>2, <2>3, <2>4 DEF Covered, Gap
  <2>6. PrefixIn(text, tokens[i].type, GapEnd(i))
        BY <2>2, <2>4 DEF Covered
  <2>7. Tiles(cuts \cap Gap(i), GapStart(i), GapEnd(i))
        BY <2>5, SameGaps
  <2> QED BY <2>6, <2>7, Here DEF PrefixIn
<1> QED BY <1>1, Inductive, ReportInductive, PTL

(* Whatever the text, the line is exact: every newline that was passed is  *)
(* counted, those skipped between tokens twice, and those that gave a      *)
(* Terminator once more (lexer.c:113-117, 653, 668, 713, 772-778).         *)
THEOREM LinesAreCounted == Spec => []LinesCounted
<1>1. IInv /\ ReportOK => LinesCounted
  <2> SUFFICES ASSUME IInv, ReportOK, pc \in {"director", "done", "failed"}
               PROVE  \E cuts \in SUBSET UNION {Gap(i) : i \in 1 .. Len(tokens) + 1} :
                         /\ \A i \in 1 .. Len(tokens) + 1 :
                               Tiles(cuts \cap Gap(i), GapStart(i), GapEnd(i))
                         /\ line = 1 + NewlinesBefore(index) + SkippedNewlines(cuts)
                                     + NewlineTerminators
      BY DEF LinesCounted
  <2>1. Settled(text, tokens, index, Extra(text, index, line))
    <3>1. CASE pc \in {"director", "done"}
          BY <3>1 DEF ReportOK, SettledOK, Idle
    <3>2. CASE pc = "failed"
      <4>1. index = save_index /\ line = save_line
            BY <3>2 DEF ReportOK, FailureOK, HasMessage
      <4> QED BY <3>2, <4>1 DEF ReportOK, SettledOK
    <3> QED BY <3>1, <3>2
  <2>2. PICK cuts \in SUBSET (0 .. index) :
           /\ Covered(text, tokens, index, cuts)
           /\ Extra(text, index, line)
                 = 1 + NewlinesIn(text, cuts \ {index}) + GivenBy(tokens)
        BY <2>1 DEF Settled
  <2>3. \A i : Gap(i) = GapStartIn(tokens, i) .. GapEndIn(tokens, i, index)
        BY SameGaps DEF Gap
  <2>4. cuts \in SUBSET UNION {Gap(i) : i \in 1 .. Len(tokens) + 1}
        BY <2>2, <2>3 DEF Covered
  <2>5. ASSUME NEW i \in 1 .. Len(tokens) + 1
        PROVE  Tiles(cuts \cap Gap(i), GapStart(i), GapEnd(i))
    <3>1. TilesIn(text, cuts \cap Gap(i), GapStartIn(tokens, i), GapEndIn(tokens, i, index))
          BY <2>2, <2>3 DEF Covered
    <3> QED BY <3>1, SameGaps
  <2>6. NewlinesBefore(index) = Passed(text, index)
        BY Here, Zenon DEF NewlinesBefore, Passed, NewlinesIn
  <2>7. SkippedNewlines(cuts) = NewlinesIn(text, cuts \ {index})
    <3>1. {c \in cuts : c < index /\ At(c) = Newline}
             = {p \in cuts \ {index} : Ch(text, p) = Newline}
      <4>1. \A c \in cuts : c < index <=> c \notin {index}
            BY <2>2, Known
      <4>2. \A c : At(c) = Ch(text, c)
            BY Here
      <4> QED BY <4>1, <4>2, Zenon
    <3> QED BY <3>1 DEF SkippedNewlines, NewlinesIn
  <2>8. NewlineTerminators = GivenBy(tokens)
        BY Zenon DEF NewlineTerminators, GivenBy, EmptyTerminator
  <2>9. line = 1 + Passed(text, index) + NewlinesIn(text, cuts \ {index}) + GivenBy(tokens)
    <3>1. /\ Passed(text, index) \in Nat /\ line \in Nat /\ GivenBy(tokens) \in Nat
          /\ NewlinesIn(text, cuts \ {index}) \in Nat
          BY Known, PassedNext, GivenIsNat, CutsFinite
    <3>2. line - Passed(text, index)
             = 1 + NewlinesIn(text, cuts \ {index}) + GivenBy(tokens)
          BY <2>2 DEF Extra
    <3> QED BY <3>1, <3>2
  <2> QED BY <2>4, <2>5, <2>6, <2>7, <2>8, <2>9
<1> QED BY <1>1, Inductive, ReportInductive, PTL

(* Whatever the text, the piece that is printed with a failure starts a    *)
(* line, reaches the error and is that one line, up to a newline among the *)
(* first two characters (lexer.c:727-735).                                 *)
THEOREM ErrorLinesAreShown == Spec => []ErrorLineShown
<1>1. IInv /\ ReportOK => ErrorLineShown
  <2> SUFFICES ASSUME IInv, ReportOK, pc = "failed"
               PROVE  /\ ReportLow <= index /\ index <= ReportEnd
                      /\ ReportLow = 0 \/ At(ReportLow - 1) = Newline
                      /\ \A p \in ReportLow .. ReportEnd - 1 : At(p) = Newline => p <= 1
      BY DEF ErrorLineShown
  <2>1. index = save_index /\ Ch(text, save_index) # Newline
        BY DEF ReportOK, FailureOK, HasMessage
  <2>2. index \in Nat /\ Len(text) \in Nat /\ Len(text) >= 1 /\ At(index) # Newline
        BY <2>1, Known, Facts, Here
  <2>3. /\ ReportLow \in Nat /\ ReportLow <= index
        /\ ReportLow = 0 \/ At(ReportLow - 1) = Newline
        /\ \A p \in ReportLow .. index : At(p) = Newline => p <= 1
        BY <2>2, LowEnd
  <2>4. /\ ReportEnd \in Nat /\ index <= ReportEnd
        /\ \A q \in index .. ReportEnd - 1 : At(q) # Newline
        BY <2>2, HighEnd
  <2>5. ASSUME NEW p \in ReportLow .. ReportEnd - 1, At(p) = Newline PROVE p <= 1
    <3>1. p \in ReportLow .. index \/ p \in index .. ReportEnd - 1
          BY <2>2, <2>3, <2>4
    <3> QED BY <3>1, <2>3, <2>4, <2>5
  <2> QED BY <2>3, <2>4, <2>5
<1> QED BY <1>1, Inductive, ReportInductive, PTL
=============================================================================
