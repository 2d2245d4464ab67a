-------------------------- MODULE LexerLexemeProofs --------------------------
(***************************************************************************)
(* Proofs about the characters of the tokens, for every text: what each    *)
(* token stands for, and that no token could have been longer.             *)
(***************************************************************************)
EXTENDS LexerProofs

(* The characters of a text, and those from a up to b, b excluded.         *)
Ch(t, i) == IF i < Len(t) THEN t[i + 1] ELSE NUL
Within(t, a, b, S) == \A p \in a .. b - 1 : Ch(t, p) \in S

(* A token of this type may consist of s in front of the character c.      *)
Longest(type, s, c) ==
    CASE type \in {"Terminator", "EOT", "DotDot"} -> TRUE
      [] type = "BuiltinId"      -> c \notin Alpha
      [] type = "IntegerLiteral" -> ~Integer(Append(s, c))
      [] type = "FloatLiteral"   -> ~Float(Append(s, c))
      [] type \in {"StringLiteral", "CharLiteral"} -> TRUE
      [] OTHER -> /\ Word(s) => ~Word(Append(s, c))
                  /\ Len(s) = 1 => ~LongSymbol(s[1], c)
Fits(type, s, c) == Matches(type, s) /\ Longest(type, s, c)
FitsIn(t, token) ==
    Fits(token.type, SubSeq(t, token.index + 1, End(token)), Ch(t, End(token)))

GivenOutOK == \A i \in 1 .. Len(tokens) : FitsIn(text, tokens[i])

(* What a loop has collected from a up to b.                               *)
Taken(phase, t, a, b) ==
    /\ phase = "identifiers" => a < b /\ Ch(t, a) \in IdStart /\ Within(t, a, b, IdChar)
    /\ phase = "digits" => /\ Within(t, a, b, Digit)
                           /\ ~(Ch(t, a) = "0" /\ Ch(t, a + 1) \in {"x", "b"})
    /\ phase = "fraction" => \E d \in a + 1 .. b - 1 : /\ Ch(t, d) = "."
                                                       /\ Within(t, a, d, Digit)
                                                       /\ Within(t, d + 1, b, Digit)
    /\ phase = "hex" => /\ a + 2 <= b /\ Ch(t, a) = "0" /\ Ch(t, a + 1) = "x"
                        /\ Within(t, a + 2, b, HexDigit)
    /\ phase = "binary" => /\ a + 2 <= b /\ Ch(t, a) = "0" /\ Ch(t, a + 1) = "b"
                           /\ Within(t, a + 2, b, Bit)
    /\ phase = "strings" =>
          /\ a < b /\ Ch(t, a) = Quote
          /\ \A p \in a + 1 .. b - 1 : Ch(t, p) = Quote => Ch(t, p - 1) = Backslash
    /\ phase = "builtin" => Within(t, a, b, Alpha)

(* The position: a loop has collected len characters, all there are since  *)
(* the saved position but for the at sign.                                 *)
ScanOK ==
    /\ pc \in Scanning => Taken(pc, text, index - len, index)
    /\ pc \in Scanning \ {"builtin"} => index - len = save_index
    /\ pc = "builtin" => index - len = save_index + 1 /\ Ch(text, save_index) = "@"

LexemeInv == GivenOutOK /\ ScanOK

LEMMA Here ==
    /\ \A i : At(i) = Ch(text, i)
    /\ lex_current = Ch(text, index) /\ lex_peek = Ch(text, index + 1)
BY DEF At, Ch, lex_current, lex_peek

-----------------------------------------------------------------------------
(* The characters of a lexeme, and of one that is one character longer.    *)

LEMMA ChType ==
    ASSUME NEW t \in Seq(Char), NEW i \in Nat
    PROVE  Ch(t, i) \in Char /\ (Ch(t, i) # NUL => i < Len(t))
BY DEF Ch, Char

LEMMA LexemeChars ==
    ASSUME NEW t \in Seq(Char), NEW a \in Nat, NEW b \in Nat, a <= b, b <= Len(t)
    PROVE  /\ SubSeq(t, a + 1, b) \in Seq(Char)
           /\ Len(SubSeq(t, a + 1, b)) = b - a
           /\ \A i \in 1 .. b - a : SubSeq(t, a + 1, b)[i] = Ch(t, a + i - 1)
<1> DEFINE s == SubSeq(t, a + 1, b)
<1>1. \A i \in a + 1 .. b : t[i] \in Char
      OBVIOUS
<1>2. /\ s \in Seq(Char)
      /\ Len(s) = IF a + 1 <= b THEN b - (a + 1) + 1 ELSE 0
      /\ \A i \in 1 .. b - (a + 1) + 1 : s[i] = t[(a + 1) + i - 1]
      BY <1>1, SubSeqProperties
<1> HIDE DEF s
<1>3. Len(s) = b - a
      BY <1>2
<1>4. ASSUME NEW i \in 1 .. b - a PROVE s[i] = Ch(t, a + i - 1)
  <2>1. a + i - 1 < Len(t) /\ (a + 1) + i - 1 = (a + i - 1) + 1 /\ i \in 1 .. b - (a + 1) + 1
        OBVIOUS
  <2> QED BY <1>2, <2>1 DEF Ch
<1> QED BY <1>2, <1>3, <1>4 DEF s

LEMMA Longer ==
    ASSUME NEW s \in Seq(Char), NEW c \in Char
    PROVE  /\ Append(s, c) \in Seq(Char) /\ Append(s, c) # <<>>
           /\ Len(s) \in Nat /\ Len(Append(s, c)) = Len(s) + 1
           /\ \A i \in 1 .. Len(s) : Append(s, c)[i] = s[i]
           /\ Append(s, c)[Len(s) + 1] = c
BY AppendProperties

LEMMA CharClasses ==
    /\ IdStart \subseteq IdChar /\ IdStart \subseteq Char
    /\ \A row \in OneCharSymbols : row[1] \notin IdStart
    /\ \A row \in TwoCharSymbols : row[1] \notin IdStart
    /\ "." \notin Digit /\ "x" \notin Digit /\ "b" \notin Digit
    /\ Quote # Backslash
<1>1. \A row \in OneCharSymbols : row[1] \notin IdStart
      BY DEF OneCharSymbols, IdStart, Alpha, HexLetter, Underscore, OpenBrace, CloseBrace, Comma
<1>2. \A row \in TwoCharSymbols : row[1] \notin IdStart
      BY DEF TwoCharSymbols, IdStart, Alpha, HexLetter, Underscore
<1> QED BY <1>1, <1>2 DEF IdChar, Char, Digit, Bit, Quote, Backslash

(* The types that have a case of their own, and the others.                *)
Named == {"Identifier", "BuiltinId", "IntegerLiteral", "FloatLiteral", "StringLiteral",
          "CharLiteral", "Terminator", "EOT", "DotDot"}

LEMMA OtherTypes ==
    /\ \A row \in Keywords : row[2] \notin Named /\ row = <<row[1], row[2]>>
    /\ \A row \in OneCharSymbols : row[2] \notin Named
    /\ \A row \in TwoCharSymbols : row[3] \notin Named
<1>1. \A row \in Keywords : row[2] \notin Named
      BY DEF Keywords, Named
<1>2. \A row \in Keywords : row = <<row[1], row[2]>>
      BY DEF Keywords
<1>3. \A row \in OneCharSymbols : row[2] \notin Named
      BY DEF OneCharSymbols, Named
<1>4. \A row \in TwoCharSymbols : row[3] \notin Named
      BY DEF TwoCharSymbols, Named
<1> QED BY <1>1, <1>2, <1>3, <1>4

LEMMA OtherFits ==
    ASSUME NEW type, type \notin Named, NEW s, NEW c,
           \/ <<s, type>> \in Keywords
           \/ \E row \in OneCharSymbols : s = <<row[1]>> /\ type = row[2]
           \/ \E row \in TwoCharSymbols : s = <<row[1], row[2]>> /\ type = row[3],
           Word(s) => ~Word(Append(s, c)), Len(s) = 1 => ~LongSymbol(s[1], c)
    PROVE  Fits(type, s, c)
BY DEF Fits, Matches, Longest, Named

-----------------------------------------------------------------------------
(* Which lexemes fit which type.                                           *)

LEMMA WordFits ==
    ASSUME NEW s \in Seq(Char), Word(s), NEW c \in Char, c \notin IdChar
    PROVE  Fits(WordType(s), s, c)
<1>1. ~Word(Append(s, c))
      BY Longer DEF Word, AllIn
<1>2. Len(s) = 1 => ~LongSymbol(s[1], c)
      BY CharClasses DEF Word, LongSymbol
<1>3. CASE \E row \in Keywords : row[1] = s
  <2>1. PICK row \in Keywords : row[1] = s /\ WordType(s) = row[2]
        BY <1>3 DEF WordType
  <2>2. <<s, row[2]>> \in Keywords /\ row[2] \notin Named
        BY <2>1, OtherTypes
  <2> QED BY <1>1, <1>2, <2>1, <2>2, OtherFits
<1>4. CASE ~\E row \in Keywords : row[1] = s
  <2>1. WordType(s) = "Identifier"
        BY <1>4 DEF WordType
  <2>2. Matches("Identifier", s)
        BY <1>4 DEF Matches
  <2>3. Longest("Identifier", s, c)
        BY <1>1, <1>2 DEF Longest
  <2> QED BY <2>1, <2>2, <2>3 DEF Fits
<1> QED BY <1>3, <1>4

LEMMA DecimalFits ==
    ASSUME NEW s \in Seq(Char), s # <<>>, AllIn(s, Digit), NEW c \in Char, c \notin Digit,
           s = <<"0">> => c \notin {"x", "b"}
    PROVE  Fits("IntegerLiteral", s, c)
<1> DEFINE long == Append(s, c)
<1>1. /\ Len(long) = Len(s) + 1 /\ Len(s) \in Nat /\ Len(s) >= 1
      /\ \A i \in 1 .. Len(s) : long[i] = s[i]
      /\ long[Len(s) + 1] = c
      BY Longer, EmptySeq
<1> HIDE DEF long
<1>2. ~AllIn(long, Digit)
      BY <1>1 DEF AllIn
<1>3. ~(long[1] = "0" /\ long[2] \in {"x", "b"})
  <2>1. CASE Len(s) >= 2
    <3>1. long[2] \in Digit
          BY <1>1, <2>1 DEF AllIn
    <3> QED BY <3>1, CharClasses
  <2>2. CASE Len(s) = 1
    <3>1. long[1] = "0" => s = <<"0">>
          BY <1>1, <2>2
    <3> QED BY <1>1, <2>2, <3>1
  <2>3. PICK n \in Nat : n = Len(s) /\ n >= 1
        BY <1>1
  <2>4. n >= 2 \/ n = 1
        BY <2>3
  <2> QED BY <2>1, <2>2, <2>3, <2>4
<1>4. ~Integer(long)
      BY <1>2, <1>3 DEF Integer
<1>5. Matches("IntegerLiteral", s)
      BY DEF Matches, Integer
<1>6. Longest("IntegerLiteral", s, c)
      BY <1>4 DEF Longest, long
<1> QED BY <1>5, <1>6 DEF Fits

LEMMA PrefixedFits ==
    ASSUME NEW s \in Seq(Char), NEW mark, NEW S, NEW c \in Char, c \notin S,
           \/ mark = "x" /\ S = HexDigit
           \/ mark = "b" /\ S = Bit,
           Len(s) >= 2, s[1] = "0", s[2] = mark, \A i \in 3 .. Len(s) : s[i] \in S
    PROVE  Fits("IntegerLiteral", s, c)
<1> DEFINE long == Append(s, c)
<1>1. /\ long \in Seq(Char) /\ Len(long) = Len(s) + 1 /\ Len(s) \in Nat
      /\ \A i \in 1 .. Len(s) : long[i] = s[i]
      /\ long[Len(s) + 1] = c
      BY Longer
<1> HIDE DEF long
<1>2. AllIn(SubSeq(s, 3, Len(s)), S)
  <2>1. \A i \in 3 .. Len(s) : s[i] \in Char
        OBVIOUS
  <2>2. /\ Len(SubSeq(s, 3, Len(s))) = IF 3 <= Len(s) THEN Len(s) - 3 + 1 ELSE 0
        /\ \A i \in 1 .. Len(s) - 3 + 1 : SubSeq(s, 3, Len(s))[i] = s[3 + i - 1]
        BY <1>1, <2>1, SubSeqProperties
  <2> QED BY <1>1, <2>2 DEF AllIn
<1>3. ~AllIn(SubSeq(long, 3, Len(long)), S)
  <2>1. \A i \in 3 .. Len(long) : long[i] \in Char
        BY <1>1
  <2>2. /\ Len(SubSeq(long, 3, Len(long))) = Len(long) - 3 + 1
        /\ \A i \in 1 .. Len(long) - 3 + 1 : SubSeq(long, 3, Len(long))[i] = long[3 + i - 1]
        BY <1>1, <2>1, SubSeqProperties
  <2>3. SubSeq(long, 3, Len(long))[Len(s) - 1] = c
        BY <1>1, <2>2
  <2> QED BY <1>1, <2>2, <2>3 DEF AllIn
<1>4. long[2] = mark /\ s[2] \notin Digit
      BY <1>1, CharClasses
<1>5. ~AllIn(long, Digit)
      BY <1>1, <1>4 DEF AllIn
<1>6. ~Integer(long)
      BY <1>3, <1>4, <1>5 DEF Integer
<1>7. Matches("IntegerLiteral", s)
      BY <1>2 DEF Matches, Integer
<1>8. Longest("IntegerLiteral", s, c)
      BY <1>6 DEF Longest, long
<1> QED BY <1>7, <1>8 DEF Fits

LEMMA FloatFits ==
    ASSUME NEW s \in Seq(Char), NEW c \in Char, c \notin Digit, NEW d \in 2 .. Len(s),
           s[d] = ".", \A i \in 1 .. Len(s) : i # d => s[i] \in Digit
    PROVE  Fits("FloatLiteral", s, c)
<1> DEFINE long == Append(s, c)
<1>1. /\ long \in Seq(Char) /\ Len(long) = Len(s) + 1 /\ Len(s) \in Nat
      /\ \A i \in 1 .. Len(s) : long[i] = s[i]
      /\ long[Len(s) + 1] = c
      BY Longer
<1> HIDE DEF long
<1>2. Matches("FloatLiteral", s)
  <2>1. AllIn(SubSeq(s, 1, d - 1), Digit)
    <3>1. \A i \in 1 .. d - 1 : s[i] \in Digit
          BY <1>1
    <3>2. /\ Len(SubSeq(s, 1, d - 1)) = IF 1 <= d - 1 THEN d - 1 - 1 + 1 ELSE 0
          /\ \A i \in 1 .. d - 1 - 1 + 1 : SubSeq(s, 1, d - 1)[i] = s[1 + i - 1]
          BY <1>1, <3>1, SubSeqProperties
    <3> QED BY <1>1, <3>1, <3>2 DEF AllIn
  <2>2. AllIn(SubSeq(s, d + 1, Len(s)), Digit)
    <3>1. \A i \in d + 1 .. Len(s) : s[i] \in Digit
          BY <1>1
    <3>2. /\ Len(SubSeq(s, d + 1, Len(s))) =
                IF d + 1 <= Len(s) THEN Len(s) - (d + 1) + 1 ELSE 0
          /\ \A i \in 1 .. Len(s) - (d + 1) + 1 :
                SubSeq(s, d + 1, Len(s))[i] = s[(d + 1) + i - 1]
          BY <1>1, <3>1, SubSeqProperties
    <3> QED BY <1>1, <3>1, <3>2 DEF AllIn
  <2> QED BY <2>1, <2>2 DEF Matches, Float
<1>3. ~Float(long)
  <2> SUFFICES ASSUME NEW e \in 2 .. Len(long), long[e] = ".",
                      AllIn(SubSeq(long, 1, e - 1), Digit),
                      AllIn(SubSeq(long, e + 1, Len(long)), Digit)
               PROVE  FALSE
      BY DEF Float
  <2>1. CASE e = Len(long)
    <3>1. \A i \in 1 .. e - 1 : long[i] \in Char
          BY <1>1
    <3>2. /\ Len(SubSeq(long, 1, e - 1)) = Len(s)
          /\ \A i \in 1 .. Len(s) : SubSeq(long, 1, e - 1)[i] = long[i]
          BY <1>1, <2>1, <3>1, SubSeqProperties
    <3>3. long[d] \in Digit
          BY <1>1, <3>2 DEF AllIn
    <3> QED BY <1>1, <3>3, CharClasses
  <2>2. CASE e < Len(long)
    <3>1. \A i \in e + 1 .. Len(long) : long[i] \in Char
          BY <1>1
    <3>2. /\ Len(SubSeq(long, e + 1, Len(long))) = Len(long) - (e + 1) + 1
          /\ \A i \in 1 .. Len(long) - (e + 1) + 1 :
                SubSeq(long, e + 1, Len(long))[i] = long[(e + 1) + i - 1]
          BY <1>1, <2>2, <3>1, SubSeqProperties
    <3>3. SubSeq(long, e + 1, Len(long))[Len(long) - e] = c
          BY <1>1, <2>2, <3>2
    <3>4. Len(long) - e \in 1 .. Len(SubSeq(long, e + 1, Len(long)))
          BY <1>1, <2>2, <3>2
    <3> QED BY <3>3, <3>4 DEF AllIn
  <2>3. PICK n \in Nat : n = Len(long)
        BY <1>1
  <2>4. e = n \/ e < n
        BY <2>3
  <2> QED BY <2>1, <2>2, <2>3, <2>4
<1>4. Longest("FloatLiteral", s, c)
      BY <1>3 DEF Longest, long
<1> QED BY <1>2, <1>4 DEF Fits

LEMMA LiteralsFit ==
    ASSUME NEW s \in Seq(Char), NEW c
    PROVE  /\ Delimited(s, Quote) /\ (\A i \in 2 .. Len(s) - 1 : s[i] = Quote => s[i - 1] = Backslash)
                 => Fits("StringLiteral", s, c)
           /\ Delimited(s, Tick) /\ Len(s) \in {3, 4} => Fits("CharLiteral", s, c)
           /\ AllIn(s, Alpha) /\ c \notin Alpha => Fits("BuiltinId", s, c)
           /\ s = <<>> => Fits("EOT", s, c) /\ Fits("Terminator", s, c)
           /\ s = <<Semicolon>> => Fits("Terminator", s, c)
           /\ s = <<".">> => Fits("DotDot", s, c)
BY DEF Fits, Matches, Longest

LEMMA ShortSymbolFits ==
    ASSUME NEW row \in OneCharSymbols, NEW c, ~LongSymbol(row[1], c)
    PROVE  Fits(row[2], <<row[1]>>, c)
<1>1. ~Word(<<row[1]>>)
      BY CharClasses DEF Word
<1> QED BY <1>1, OtherTypes, OtherFits

LEMMA LongSymbolFits ==
    ASSUME NEW row \in TwoCharSymbols, NEW c
    PROVE  Fits(row[3], <<row[1], row[2]>>, c)
<1>1. ~Word(<<row[1], row[2]>>)
      BY CharClasses DEF Word
<1>2. Len(<<row[1], row[2]>>) # 1
      OBVIOUS
<1>3. row[3] \notin Named
      BY OtherTypes
<1> HIDE DEF Named
<1> QED BY <1>1, <1>2, <1>3, OtherFits

-----------------------------------------------------------------------------
(* What the loops have collected fits, once they end.                      *)

LEMMA CollectedWordFits ==
    ASSUME NEW t \in Seq(Char), NEW a \in Nat, NEW b \in Nat, b <= Len(t),
           Taken("identifiers", t, a, b), Ch(t, b) \notin IdChar
    PROVE  Fits(WordType(SubSeq(t, a + 1, b)), SubSeq(t, a + 1, b), Ch(t, b))
<1> DEFINE s == SubSeq(t, a + 1, b)
<1>1. a < b /\ Ch(t, a) \in IdStart /\ \A p \in a .. b - 1 : Ch(t, p) \in IdChar
      BY DEF Taken, Within
<1>2. /\ s \in Seq(Char) /\ Len(s) = b - a
      /\ \A i \in 1 .. b - a : s[i] = Ch(t, a + i - 1)
  <2>1. a <= b
        BY <1>1
  <2> QED BY <2>1, LexemeChars
<1> HIDE DEF s
<1>3. Word(s)
  <2>1. s # <<>> /\ s[1] = Ch(t, a)
        BY <1>1, <1>2, EmptySeq
  <2>2. AllIn(s, IdChar)
        BY <1>1, <1>2 DEF AllIn
  <2> QED BY <1>1, <2>1, <2>2 DEF Word
<1>4. Fits(WordType(s), s, Ch(t, b))
      BY <1>2, <1>3, ChType, WordFits
<1> QED BY <1>4 DEF s

LEMMA CollectedNumberFits ==
    ASSUME NEW t \in Seq(Char), NEW a \in Nat, NEW b \in Nat, b <= Len(t), a < b
    PROVE  /\ Taken("digits", t, a, b) /\ Ch(t, b) \notin Digit
                 => Fits("IntegerLiteral", SubSeq(t, a + 1, b), Ch(t, b))
           /\ Taken("hex", t, a, b) /\ Ch(t, b) \notin HexDigit
                 => Fits("IntegerLiteral", SubSeq(t, a + 1, b), Ch(t, b))
           /\ Taken("binary", t, a, b) /\ Ch(t, b) \notin Bit
                 => Fits("IntegerLiteral", SubSeq(t, a + 1, b), Ch(t, b))
           /\ Taken("fraction", t, a, b) /\ Ch(t, b) \notin Digit
                 => Fits("FloatLiteral", SubSeq(t, a + 1, b), Ch(t, b))
<1> DEFINE s == SubSeq(t, a + 1, b)
<1>1. /\ s \in Seq(Char) /\ Len(s) = b - a
      /\ \A i \in 1 .. b - a : s[i] = Ch(t, a + i - 1)
  <2>1. a <= b
        OBVIOUS
  <2> QED BY <2>1, LexemeChars
<1>2. Ch(t, b) \in Char
      BY ChType
<1> HIDE DEF s
<1>3. ASSUME Taken("digits", t, a, b), Ch(t, b) \notin Digit
      PROVE  Fits("IntegerLiteral", s, Ch(t, b))
  <2>1. /\ \A p \in a .. b - 1 : Ch(t, p) \in Digit
        /\ ~(Ch(t, a) = "0" /\ Ch(t, a + 1) \in {"x", "b"})
        BY <1>3 DEF Taken, Within
  <2>2. s # <<>> /\ AllIn(s, Digit)
        BY <1>1, <2>1, EmptySeq DEF AllIn
  <2>3. s = <<"0">> => Ch(t, b) \notin {"x", "b"}
    <3> SUFFICES ASSUME s = <<"0">> PROVE Ch(t, b) \notin {"x", "b"}
        OBVIOUS
    <3>1. Len(s) = 1 /\ s[1] = "0"
          OBVIOUS
    <3>2. b = a + 1 /\ Ch(t, a) = "0"
          BY <1>1, <3>1
    <3> QED BY <2>1, <3>2
  <2> QED BY <1>1, <1>2, <1>3, <2>2, <2>3, DecimalFits
<1>4. ASSUME NEW mark, NEW S, a + 2 <= b, Ch(t, a) = "0", Ch(t, a + 1) = mark,
             Within(t, a + 2, b, S), Ch(t, b) \notin S,
             \/ mark = "x" /\ S = HexDigit
             \/ mark = "b" /\ S = Bit
      PROVE  Fits("IntegerLiteral", s, Ch(t, b))
  <2>1. Len(s) >= 2 /\ s[1] = "0" /\ s[2] = mark
        BY <1>1, <1>4
  <2>2. ASSUME NEW i \in 3 .. Len(s) PROVE s[i] \in S
    <3>1. a + i - 1 \in a + 2 .. b - 1 /\ s[i] = Ch(t, a + i - 1)
          BY <1>1
    <3> QED BY <1>4, <3>1 DEF Within
  <2> QED BY <1>1, <1>2, <1>4, <2>1, <2>2, PrefixedFits
<1>5. ASSUME Taken("fraction", t, a, b), Ch(t, b) \notin Digit
      PROVE  Fits("FloatLiteral", s, Ch(t, b))
  <2>1. PICK d \in a + 1 .. b - 1 : /\ Ch(t, d) = "."
                                    /\ \A p \in a .. d - 1 : Ch(t, p) \in Digit
                                    /\ \A p \in d + 1 .. b - 1 : Ch(t, p) \in Digit
        BY <1>5 DEF Taken, Within
  <2>2. d - a + 1 \in 2 .. Len(s) /\ s[d - a + 1] = "."
        BY <1>1, <2>1
  <2>3. ASSUME NEW i \in 1 .. Len(s), i # d - a + 1 PROVE s[i] \in Digit
    <3>1. /\ s[i] = Ch(t, a + i - 1)
          /\ a + i - 1 \in a .. d - 1 \/ a + i - 1 \in d + 1 .. b - 1
          BY <1>1, <2>3
    <3> QED BY <2>1, <3>1
  <2> QED BY <1>1, <1>2, <1>5, <2>2, <2>3, FloatFits
<1>6. Taken("hex", t, a, b) => /\ a + 2 <= b /\ Ch(t, a) = "0" /\ Ch(t, a + 1) = "x"
                               /\ Within(t, a + 2, b, HexDigit)
      BY DEF Taken
<1>7. Taken("binary", t, a, b) => /\ a + 2 <= b /\ Ch(t, a) = "0" /\ Ch(t, a + 1) = "b"
                                  /\ Within(t, a + 2, b, Bit)
      BY DEF Taken
<1>8. /\ Taken("hex", t, a, b) /\ Ch(t, b) \notin HexDigit
            => Fits("IntegerLiteral", s, Ch(t, b))
      /\ Taken("binary", t, a, b) /\ Ch(t, b) \notin Bit
            => Fits("IntegerLiteral", s, Ch(t, b))
      BY <1>4, <1>6, <1>7
<1> QED BY <1>3, <1>5, <1>8 DEF s

LEMMA CollectedStringFits ==
    ASSUME NEW t \in Seq(Char), NEW a \in Nat, NEW b \in Nat, b < Len(t), NEW c,
           Taken("strings", t, a, b), Ch(t, b) = Quote
    PROVE  Fits("StringLiteral", SubSeq(t, a + 1, b + 1), c)
<1> DEFINE s == SubSeq(t, a + 1, b + 1)
<1>1. /\ a < b /\ Ch(t, a) = Quote
      /\ \A p \in a + 1 .. b - 1 : Ch(t, p) = Quote => Ch(t, p - 1) = Backslash
      BY DEF Taken
<1>2. /\ s \in Seq(Char) /\ Len(s) = b + 1 - a
      /\ \A i \in 1 .. b + 1 - a : s[i] = Ch(t, a + i - 1)
  <2>1. PICK e \in Nat : e = b + 1 /\ a <= e /\ e <= Len(t)
        BY <1>1
  <2>2. /\ SubSeq(t, a + 1, e) \in Seq(Char) /\ Len(SubSeq(t, a + 1, e)) = e - a
        /\ \A i \in 1 .. e - a : SubSeq(t, a + 1, e)[i] = Ch(t, a + i - 1)
        BY <2>1, LexemeChars
  <2> QED BY <2>1, <2>2
<1> HIDE DEF s
<1>3. Delimited(s, Quote)
  <2>1. Len(s) >= 2 /\ s[1] = Ch(t, a) /\ s[Len(s)] = Ch(t, b)
        BY <1>1, <1>2
  <2> QED BY <1>1, <2>1 DEF Delimited
<1>4. ASSUME NEW i \in 2 .. Len(s) - 1, s[i] = Quote PROVE s[i - 1] = Backslash
  <2>1. /\ s[i] = Ch(t, a + i - 1) /\ s[i - 1] = Ch(t, a + i - 1 - 1)
        /\ a + i - 1 \in a + 1 .. b - 1
        BY <1>1, <1>2
  <2> QED BY <1>1, <1>4, <2>1
<1>5. Fits("StringLiteral", s, c)
      BY <1>2, <1>3, <1>4, LiteralsFit
<1> QED BY <1>5 DEF s

LEMMA CollectedNameFits ==
    ASSUME NEW t \in Seq(Char), NEW a \in Nat, NEW b \in Nat, a <= b, b <= Len(t),
           Taken("builtin", t, a, b), Ch(t, b) \notin Alpha
    PROVE  Fits("BuiltinId", SubSeq(t, a + 1, b), Ch(t, b))
<1> DEFINE s == SubSeq(t, a + 1, b)
<1>1. /\ s \in Seq(Char) /\ Len(s) = b - a
      /\ \A i \in 1 .. b - a : s[i] = Ch(t, a + i - 1)
      BY LexemeChars
<1>2. \A p \in a .. b - 1 : Ch(t, p) \in Alpha
      BY DEF Taken, Within
<1> HIDE DEF s
<1>3. AllIn(s, Alpha)
      BY <1>1, <1>2 DEF AllIn
<1>4. Fits("BuiltinId", s, Ch(t, b))
      BY <1>1, <1>3, LiteralsFit
<1> QED BY <1>4 DEF s

-----------------------------------------------------------------------------
(* How a step may end.                                                     *)

LEMMA Phase ==
    /\ Handling \cap {"director", "space", "eot", "report"} = {}
    /\ Handling \cap Terminal = {} /\ {"director", "space", "eot", "report"} \cap Terminal = {}
    /\ Scanning \cap Comment = {} /\ Scanning \subseteq Handling /\ Comment \subseteq Handling
    /\ "builtin" \in Scanning
BY DEF Handling, Scanning, Comment, Terminal

LEMMA SameTokens ==
    ASSUME GivenOutOK, text' = text, tokens' = tokens
    PROVE  GivenOutOK'
BY DEF GivenOutOK

LEMMA StopsOK ==
    ASSUME GivenOutOK, text' = text, tokens' = tokens, pc' \in Terminal \cup {"report"}
    PROVE  LexemeInv'
<1>1. pc' \notin Handling \cup {"director", "space", "eot"}
      BY Phase
<1> QED BY <1>1, SameTokens, Phase DEF LexemeInv, ScanOK

LEMMA GivesOut ==
    ASSUME IInv, LexemeInv, text' = text, NEW type \in TknType,
           NEW start \in Nat, NEW length \in Nat, NEW next \in {"director", "space", "eot"},
           lex_add_token(type, start, length, next),
           Fits(type, SubSeq(text, start + 1, start + length), Ch(text, start + length))
    PROVE  LexemeInv'
<1> DEFINE token == [index |-> start, length |-> length, line |-> begin_tkn_line,
                     type |-> type]
<1>1. /\ token \in Token /\ token.index = start /\ token.type = type
      /\ End(token) = start + length
      BY DEF IInv, TypeOK, Token, End
<1>2. array_push(token, next) /\ index' = start + length
      BY DEF lex_add_token
<1> HIDE DEF token
<1>3. FitsIn(text, token)
      BY <1>1 DEF FitsIn
<1>4. tokens \in Seq(Token) /\ Len(tokens) \in Nat
      BY DEF IInv, TypeOK
<1>5. CASE tokens' = Append(tokens, token) /\ pc' = next
  <2>1. /\ Len(tokens') = Len(tokens) + 1 /\ tokens' # <<>>
        /\ \A i \in 1 .. Len(tokens) : tokens'[i] = tokens[i]
        /\ tokens'[Len(tokens) + 1] = token
        BY <1>1, <1>4, <1>5, AppendProperties
  <2>2. ASSUME NEW i \in 1 .. Len(tokens') PROVE FitsIn(text', tokens'[i])
    <3>1. i \in 1 .. Len(tokens) \/ i = Len(tokens) + 1
          BY <1>4, <2>1
    <3> QED BY <1>3, <2>1, <3>1 DEF LexemeInv, GivenOutOK
  <2>3. pc' \in {"director", "space", "eot"} /\ pc' \notin Handling
        BY <1>5, Phase
  <2> QED BY <2>2, <2>3, Phase DEF LexemeInv, GivenOutOK, ScanOK
<1>6. CASE tokens' = tokens /\ pc' \in {"corrupted", "exited"}
      BY <1>6, StopsOK DEF LexemeInv, Terminal
<1> QED BY <1>2, <1>5, <1>6 DEF array_push

-----------------------------------------------------------------------------
(* What the handlers are made of.                                          *)

LEMMA Located ==
    ASSUME IInv, LexemeInv
    PROVE  /\ text \in Seq(Char) /\ Len(text) \in Nat
           /\ index \in Nat /\ len \in Nat /\ save_index \in Nat
           /\ GivenOutOK
           /\ pc \in Handling => /\ save_index <= index /\ index <= Len(text)
           /\ pc \in Scanning => /\ index - len \in Nat /\ index - len + len = index
                                 /\ index - len <= index
                                 /\ Taken(pc, text, index - len, index)
<1>1. /\ text \in Seq(Char) /\ Len(text) \in Nat
      /\ index \in Nat /\ len \in Nat /\ save_index \in Nat
      BY Facts, TextLength DEF IInv, NumbersOK
<1>2. PositionOK
      BY Facts
<1>3. /\ GivenOutOK
      /\ pc \in Handling => save_index <= index /\ index <= Len(text)
      BY <1>2 DEF PositionOK, LexemeInv, ScanOK
<1>4. pc \in Scanning => /\ index - len \in Nat /\ index - len + len = index
                         /\ index - len <= index
  <2>1. pc \in Scanning => len <= index
        BY <1>2 DEF PositionOK
  <2> QED BY <1>1, <2>1
<1>5. pc \in Scanning => Taken(pc, text, index - len, index)
      BY DEF LexemeInv, ScanOK
<1> QED BY <1>1, <1>3, <1>4, <1>5

LEMMA StartsAt ==
    ASSUME IInv, LexemeInv, NEW S, Starts(S)
    PROVE  /\ pc = "space" /\ text' = text /\ save_index' = index
           /\ Ch(text, index) \in S
<1>1. pc = "space" /\ text' = text /\ save_index' = index /\ Ch(text, index) \in S
      BY Here DEF Starts
<1> QED BY <1>1, Located

LEMMA EntersLoop ==
    ASSUME IInv, LexemeInv, NEW S, Starts(S), NEW k \in Nat, NEW length \in Nat,
           NEW next \in Handling, Enter(k, length, next),
           next \in Scanning => Taken(next, text, index + k - length, index + k),
           next \in Scanning \ {"builtin"} => length = k,
           next = "builtin" => k = length + 1 /\ Ch(text, index) = "@"
    PROVE  LexemeInv'
<1>1. /\ pc' = next /\ index' = index + k /\ len' = length /\ tokens' = tokens
      /\ text' = text /\ save_index' = index
      /\ index \in Nat
      BY StartsAt, Located DEF Enter, array
<1>2. GivenOutOK'
      BY <1>1, Located, SameTokens
<1>3. /\ length = k => index + k - length = index
      /\ k = length + 1 => index + k - length = index + 1
      BY Located
<1>4. pc' \notin {"director", "space", "eot"}
      BY <1>1, Phase
<1>5. pc' \in Scanning => Taken(pc', text', index' - len', index')
      BY <1>1
<1>6. pc' \in Scanning \ {"builtin"} => index' - len' = save_index'
      BY <1>1, <1>3
<1>7. pc' = "builtin" => index' - len' = save_index' + 1 /\ Ch(text', save_index') = "@"
      BY <1>1, <1>3
<1> QED BY <1>2, <1>4, <1>5, <1>6, <1>7 DEF LexemeInv, ScanOK

LEMMA TakenGrows ==
    ASSUME NEW t, NEW a \in Nat, NEW b \in Nat, a <= b
    PROVE  /\ Taken("identifiers", t, a, b) /\ Ch(t, b) \in IdChar
                 => Taken("identifiers", t, a, b + 1)
           /\ Taken("digits", t, a, b) /\ Ch(t, b) \in Digit => Taken("digits", t, a, b + 1)
           /\ Taken("digits", t, a, b) /\ Ch(t, b) = "." /\ a < b
                 => Taken("fraction", t, a, b + 1)
           /\ Taken("fraction", t, a, b) /\ Ch(t, b) \in Digit
                 => Taken("fraction", t, a, b + 1)
           /\ Taken("hex", t, a, b) /\ Ch(t, b) \in HexDigit => Taken("hex", t, a, b + 1)
           /\ Taken("binary", t, a, b) /\ Ch(t, b) \in Bit => Taken("binary", t, a, b + 1)
           /\ Taken("strings", t, a, b) /\ ~(Ch(t, b) = Quote /\ Ch(t, b - 1) # Backslash)
                 => Taken("strings", t, a, b + 1)
           /\ Taken("builtin", t, a, b) /\ Ch(t, b) \in Alpha => Taken("builtin", t, a, b + 1)
<1>1. ASSUME NEW S, NEW c \in Nat, Within(t, c, b, S), Ch(t, b) \in S
      PROVE  Within(t, c, b + 1, S)
  <2> SUFFICES ASSUME NEW p \in c .. b + 1 - 1 PROVE Ch(t, p) \in S
      BY DEF Within
  <2>1. p = b \/ p \in c .. b - 1
        OBVIOUS
  <2> QED BY <1>1, <2>1 DEF Within
<1>2. Taken("fraction", t, a, b) /\ Ch(t, b) \in Digit => Taken("fraction", t, a, b + 1)
  <2> SUFFICES ASSUME Taken("fraction", t, a, b), Ch(t, b) \in Digit
               PROVE  \E d \in a + 1 .. b + 1 - 1 : /\ Ch(t, d) = "."
                                                    /\ Within(t, a, d, Digit)
                                                    /\ Within(t, d + 1, b + 1, Digit)
      BY DEF Taken
  <2>1. PICK d \in a + 1 .. b - 1 : /\ Ch(t, d) = "." /\ Within(t, a, d, Digit)
                                    /\ Within(t, d + 1, b, Digit)
        BY DEF Taken
  <2>2. d + 1 \in Nat /\ d \in a + 1 .. b + 1 - 1
        OBVIOUS
  <2>3. Within(t, d + 1, b + 1, Digit)
        BY <1>1, <2>1, <2>2
  <2> QED BY <2>1, <2>2, <2>3
<1>3. Taken("digits", t, a, b) /\ Ch(t, b) = "." /\ a < b => Taken("fraction", t, a, b + 1)
  <2> SUFFICES ASSUME Taken("digits", t, a, b), Ch(t, b) = ".", a < b
               PROVE  \E d \in a + 1 .. b + 1 - 1 : /\ Ch(t, d) = "."
                                                    /\ Within(t, a, d, Digit)
                                                    /\ Within(t, d + 1, b + 1, Digit)
      BY DEF Taken
  <2>1. Within(t, a, b, Digit) /\ Within(t, b + 1, b + 1, Digit) /\ b \in a + 1 .. b + 1 - 1
        BY DEF Taken, Within
  <2> QED BY <2>1
<1>4. Taken("strings", t, a, b) /\ ~(Ch(t, b) = Quote /\ Ch(t, b - 1) # Backslash)
         => Taken("strings", t, a, b + 1)
  <2> SUFFICES ASSUME Taken("strings", t, a, b),
                      ~(Ch(t, b) = Quote /\ Ch(t, b - 1) # Backslash)
               PROVE  /\ a < b + 1 /\ Ch(t, a) = Quote
                      /\ \A p \in a + 1 .. b + 1 - 1 :
                            Ch(t, p) = Quote => Ch(t, p - 1) = Backslash
      BY DEF Taken
  <2>1. /\ a < b /\ Ch(t, a) = Quote
        /\ \A p \in a + 1 .. b - 1 : Ch(t, p) = Quote => Ch(t, p - 1) = Backslash
        BY DEF Taken
  <2>2. \A p \in a + 1 .. b + 1 - 1 : p = b \/ p \in a + 1 .. b - 1
        OBVIOUS
  <2> QED BY <2>1, <2>2
<1>5. a + 2 \in Nat /\ (a < b => a < b + 1) /\ (a + 2 <= b => a + 2 <= b + 1)
      OBVIOUS
<1>6. Taken("identifiers", t, a, b) /\ Ch(t, b) \in IdChar => Taken("identifiers", t, a, b + 1)
      BY <1>1, <1>5 DEF Taken
<1>7. Taken("digits", t, a, b) /\ Ch(t, b) \in Digit => Taken("digits", t, a, b + 1)
      BY <1>1, <1>5 DEF Taken
<1>8. Taken("hex", t, a, b) /\ Ch(t, b) \in HexDigit => Taken("hex", t, a, b + 1)
      BY <1>1, <1>5 DEF Taken
<1>9. Taken("binary", t, a, b) /\ Ch(t, b) \in Bit => Taken("binary", t, a, b + 1)
      BY <1>1, <1>5 DEF Taken
<1>10. Taken("builtin", t, a, b) /\ Ch(t, b) \in Alpha => Taken("builtin", t, a, b + 1)
      BY <1>1, <1>5 DEF Taken
<1> QED BY <1>2, <1>3, <1>4, <1>6, <1>7, <1>8, <1>9, <1>10

(* A loop takes one more character, or hands over to the next one.         *)
LEMMA TakesMore ==
    ASSUME IInv, LexemeInv, pc \in Scanning, pc' \in Scanning,
           pc' = "builtin" <=> pc = "builtin",
           UNCHANGED <<text, saved, array>>, index' = index + 1, len' = len + 1,
           Taken(pc', text, index - len, index + 1)
    PROVE  LexemeInv'
<1>1. text' = text /\ save_index' = save_index /\ tokens' = tokens
      BY DEF saved, array
<1>2. GivenOutOK'
      BY <1>1, Located, SameTokens
<1>3. index' - len' = index - len
      BY Located
<1>4. /\ pc' \notin Comment /\ pc' \notin {"director", "space", "eot"} /\ pc \in Handling
      BY Phase
<1> QED BY <1>1, <1>2, <1>3, <1>4 DEF LexemeInv, ScanOK

(* What a loop has collected becomes a token, or is given up.              *)
LEMMA FinishesOrFails ==
    ASSUME IInv, LexemeInv, NEW loopName \in Scanning \ {"builtin"}, NEW S,
           ScanEnds(loopName, S), NEW type \in TknType, NEW limit, NEW err,
           Finish(type, limit, err),
           Fits(type, SubSeq(text, index - len + 1, index), Ch(text, index))
    PROVE  LexemeInv'
<1>1. pc \in Scanning /\ pc \in Handling /\ pc # "builtin" /\ text' = text
      BY Phase DEF ScanEnds
<1>2. index - len = save_index
      BY <1>1 DEF LexemeInv, ScanOK
<1>3. CASE FailAtStart(err, len)
  <2>1. tokens' = tokens /\ pc' = "report"
        BY <1>3 DEF FailAtStart, Fail, array
  <2> QED BY <1>1, <2>1, StopsOK, Located
<1>4. CASE lex_add_token(type, index - len, len, "director")
      BY <1>1, <1>2, <1>4, Located, GivesOut
<1> QED BY <1>3, <1>4 DEF Finish

-----------------------------------------------------------------------------
(* The steps, by handler.                                                  *)

LEMMA EmptyLexeme == ASSUME NEW t, NEW i \in Nat PROVE SubSeq(t, i + 1, i + 0) = <<>>
<1>1. i + 1 \in Int /\ i + 0 \in Int /\ i + 0 < i + 1
      OBVIOUS
<1> QED BY <1>1, SubSeqEmpty

LEMMA OneChar ==
    ASSUME NEW t \in Seq(Char), NEW i \in Nat, Ch(t, i) # NUL
    PROVE  SubSeq(t, i + 1, i + 1) = <<Ch(t, i)>>
<1> DEFINE s == SubSeq(t, i + 1, i + 1)
<1>1. PICK e \in Nat : e = i + 1 /\ e <= Len(t) /\ i <= e
      BY ChType
<1>2. /\ SubSeq(t, i + 1, e) \in Seq(Char) /\ Len(SubSeq(t, i + 1, e)) = e - i
      /\ \A j \in 1 .. e - i : SubSeq(t, i + 1, e)[j] = Ch(t, i + j - 1)
      BY <1>1, LexemeChars
<1>3. /\ s \in Seq(Char) /\ Len(s) = e - i
      /\ \A j \in 1 .. e - i : s[j] = Ch(t, i + j - 1)
      BY <1>1, <1>2
<1> HIDE DEF s
<1>4. e - i = 1 /\ 1 \in 1 .. e - i /\ i + 1 - 1 = i
      BY <1>1
<1>5. s \in Seq(Char) /\ Len(s) = 1 /\ s[1] = Ch(t, i)
      BY <1>3, <1>4
<1>6. s = <<Ch(t, i)>>
      BY <1>5
<1> QED BY <1>6 DEF s

LEMMA SkipsBlanks ==
    ASSUME IInv, LexemeInv, lex_director \/ lex_skip_blank
    PROVE  LexemeInv'
<1>1. /\ pc \in {"director", "space"} /\ pc' = "space" /\ text' = text /\ tokens' = tokens
      /\ index' = index \/ (index' = index + 1 /\ Ch(text, index) \in Blank)
      BY Here DEF lex_director, lex_skip_blank, array
<1>2. GivenOutOK'
      BY <1>1, Located, SameTokens
<1> QED BY <1>1, <1>2, Phase DEF LexemeInv, ScanOK

(* The only Terminator is empty when a newline gives it.                   *)
LEMMA SkipsNewlines ==
    ASSUME IInv, LexemeInv, lex_skip_newline
    PROVE  LexemeInv'
<1>1. pc = "space" /\ Ch(text, index) = Newline /\ text' = text
      BY Here DEF lex_skip_newline
<1>2. len = 0
      BY <1>1, Facts DEF PositionOK
<1>3. CASE lex_add_token("Terminator", index, len, "space")
  <2>1. SubSeq(text, index + 1, index + 0) = <<>> /\ <<>> \in Seq(Char)
        BY Located, EmptyLexeme
  <2>2. Fits("Terminator", SubSeq(text, index + 1, index + 0), Ch(text, index + 0))
        BY <2>1, LiteralsFit
  <2> QED BY <1>1, <1>2, <1>3, <2>2, Located, GivesOut, LiteralTypes
<1>4. CASE index' = index + 1 /\ pc' = "space" /\ UNCHANGED array
  <2>1. GivenOutOK'
        BY <1>1, <1>4, Located, SameTokens DEF array
  <2> QED BY <1>4, <2>1, Phase DEF LexemeInv, ScanOK
<1> QED BY <1>3, <1>4 DEF lex_skip_newline, lex_add_terminator

LEMMA EndMarksFit ==
    ASSUME IInv, LexemeInv, lex_eof \/ eot_loop \/ eot_end
    PROVE  LexemeInv'
<1>1. CASE lex_eof
  <2>1. text' = text /\ pc' = "eot" /\ tokens' = tokens
        BY <1>1, StartsAt DEF lex_eof, Enter, array
  <2>2. GivenOutOK'
        BY <2>1, Located, SameTokens
  <2> QED BY <2>1, <2>2, Phase DEF LexemeInv, ScanOK
<1>2. CASE eot_loop
  <2>1. pc = "eot" /\ lex_add_token("EOT", index, 0, "eot") /\ text' = text
        BY <1>2 DEF eot_loop
  <2>2. SubSeq(text, index + 1, index + 0) = <<>> /\ <<>> \in Seq(Char)
        BY Located, EmptyLexeme
  <2>3. Fits("EOT", SubSeq(text, index + 1, index + 0), Ch(text, index + 0))
        BY <2>2, LiteralsFit
  <2> QED BY <2>1, <2>3, Located, GivesOut, LiteralTypes
<1>3. CASE eot_end
      BY <1>3, StopsOK, Located DEF eot_end, array, Terminal
<1> QED BY <1>1, <1>2, <1>3

LEMMA IdentifiersFit ==
    ASSUME IInv, LexemeInv, identifiers_step
    PROVE  LexemeInv'
<1>1. CASE lex_identifiers
  <2>1. /\ Starts(IdStart) /\ Enter(1, 1, "identifiers") /\ Ch(text, index) \in IdStart
        /\ index \in Nat
        BY <1>1, StartsAt, Located DEF lex_identifiers
  <2>2. Taken("identifiers", text, index, index + 1)
        BY <2>1, CharClasses DEF Taken, Within
  <2>3. index + 1 - 1 = index
        BY <2>1
  <2> QED BY <2>1, <2>2, <2>3, EntersLoop, Phase DEF Scanning
<1>2. CASE identifiers_loop
  <2>1. /\ pc = "identifiers" /\ pc' = pc /\ Ch(text, index) \in IdChar
        /\ UNCHANGED <<text, saved, array>> /\ index' = index + 1 /\ len' = len + 1
        BY <1>2, Here DEF identifiers_loop, TakeWhile, lex_advance_len_inc
  <2>2. pc \in Scanning
        BY <2>1 DEF Scanning
  <2>3. Taken("identifiers", text, index - len, index + 1)
        BY <2>1, <2>2, Located, TakenGrows
  <2> QED BY <2>1, <2>2, <2>3, TakesMore
<1>3. CASE identifiers_end
  <2> DEFINE s == SubSeq(text, index - len + 1, index)
  <2>1. /\ pc = "identifiers" /\ Ch(text, index) \notin IdChar
        /\ ScanEnds("identifiers", IdChar)
        /\ Finish(WordType(s), MaxIdentifierLength, "TOO_LONG_IDENTIFIER")
        BY <1>3, Here DEF identifiers_end, ScanEnds
  <2>2. "identifiers" \in Scanning \ {"builtin"} /\ "identifiers" \in Handling
        BY Phase DEF Scanning
  <2>3. Fits(WordType(s), s, Ch(text, index))
        BY <2>1, <2>2, Located, CollectedWordFits
  <2>4. WordType(s) \in TknType
        BY WordTypes
  <2> HIDE DEF s
  <2>5. Fits(WordType(s), SubSeq(text, index - len + 1, index), Ch(text, index))
        BY <2>3 DEF s
  <2> QED BY <2>1, <2>2, <2>4, <2>5, FinishesOrFails
<1> QED BY <1>1, <1>2, <1>3 DEF identifiers_step

LEMMA NumbersFit ==
    ASSUME IInv, LexemeInv, numbers_step
    PROVE  LexemeInv'
<1>1. CASE lex_numbers
  <2>1. /\ Starts(Digit) /\ Ch(text, index) \in Digit /\ index \in Nat
        /\ lex_current = Ch(text, index) /\ lex_peek = Ch(text, index + 1)
        BY <1>1, StartsAt, Located, Here DEF lex_numbers
  <2>2. {"hex", "binary", "digits"} \subseteq Scanning \ {"builtin"}
        /\ index + 2 - 2 = index /\ index + 0 - 0 = index /\ index + 0 = index
        BY <2>1 DEF Scanning
  <2>3. CASE Ch(text, index) = "0" /\ Ch(text, index + 1) = "x" /\ Enter(2, 2, "hex")
    <3>1. Taken("hex", text, index, index + 2)
          BY <2>1, <2>3 DEF Taken, Within
    <3> QED BY <2>1, <2>2, <2>3, <3>1, EntersLoop, Phase
  <2>4. CASE Ch(text, index) = "0" /\ Ch(text, index + 1) = "b" /\ Enter(2, 2, "binary")
    <3>1. Taken("binary", text, index, index + 2)
          BY <2>1, <2>4 DEF Taken, Within
    <3> QED BY <2>1, <2>2, <2>4, <3>1, EntersLoop, Phase
  <2>5. CASE /\ ~(Ch(text, index) = "0" /\ Ch(text, index + 1) \in {"x", "b"})
             /\ Enter(0, 0, "digits")
    <3>1. Taken("digits", text, index, index)
          BY <2>1, <2>5 DEF Taken, Within
    <3> QED BY <2>1, <2>2, <2>5, <3>1, EntersLoop, Phase
  <2> QED BY <1>1, <2>1, <2>3, <2>4, <2>5 DEF lex_numbers
<1>2. ASSUME NEW S, \/ digits_loop /\ S = Digit /\ TakeWhile("digits", S)
                    \/ fraction_loop /\ S = Digit /\ TakeWhile("fraction", S)
                    \/ hex_loop /\ S = HexDigit /\ TakeWhile("hex", S)
                    \/ binary_loop /\ S = Bit /\ TakeWhile("binary", S)
      PROVE  LexemeInv'
  <2>1. /\ pc \in {"digits", "fraction", "hex", "binary"} /\ pc' = pc
        /\ UNCHANGED <<text, saved, array>> /\ index' = index + 1 /\ len' = len + 1
        /\ \/ pc = "digits" /\ Ch(text, index) \in Digit
           \/ pc = "fraction" /\ Ch(text, index) \in Digit
           \/ pc = "hex" /\ Ch(text, index) \in HexDigit
           \/ pc = "binary" /\ Ch(text, index) \in Bit
        BY <1>2, Here DEF TakeWhile, lex_advance_len_inc
  <2>2. pc \in Scanning
        BY <2>1 DEF Scanning
  <2>3. Taken(pc, text, index - len, index + 1)
        BY <2>1, <2>2, Located, TakenGrows
  <2> QED BY <2>1, <2>2, <2>3, TakesMore
<1>3. pc = "digits" /\ Ch(text, index) \notin Digit => index - len < index
  <2> SUFFICES ASSUME pc = "digits", Ch(text, index) \notin Digit PROVE index - len < index
      OBVIOUS
  <2>1. save_index < index
        BY Facts, Here DEF ProgressOK
  <2>2. index - len = save_index
        BY DEF LexemeInv, ScanOK, Scanning
  <2> QED BY <2>1, <2>2
<1>4. CASE digits_dot
  <2>1. /\ pc = "digits" /\ pc' = "fraction" /\ Ch(text, index) = "."
        /\ UNCHANGED <<text, saved, array>> /\ index' = index + 1 /\ len' = len + 1
        BY <1>4, Here DEF digits_dot, ScanEnds, Enter
  <2>2. pc \in Scanning /\ pc' \in Scanning /\ pc # "builtin" /\ pc' # "builtin"
        BY <2>1 DEF Scanning
  <2>3. Taken("fraction", text, index - len, index + 1)
        BY <1>3, <2>1, <2>2, CharClasses, Located, TakenGrows
  <2> QED BY <2>1, <2>2, <2>3, TakesMore
<1>5. ASSUME NEW loopName \in {"digits", "fraction", "hex", "binary"}, NEW S,
             ScanEnds(loopName, S), NEW type \in {"IntegerLiteral", "FloatLiteral"},
             NEW limit, Finish(type, limit, error),
             \/ loopName = "digits" /\ S = Digit /\ type = "IntegerLiteral"
             \/ loopName = "hex" /\ S = HexDigit /\ type = "IntegerLiteral"
             \/ loopName = "binary" /\ S = Bit /\ type = "IntegerLiteral"
             \/ loopName = "fraction" /\ S = Digit /\ type = "FloatLiteral"
      PROVE  LexemeInv'
  <2>1. pc = loopName /\ Ch(text, index) \notin S
        BY <1>5, Here DEF ScanEnds
  <2>2. loopName \in Scanning \ {"builtin"} /\ pc \in Handling /\ type \in TknType
        BY <1>5, <2>1, Phase, LiteralTypes DEF Scanning
  <2>3. Taken(pc, text, index - len, index) /\ index - len \in Nat /\ index \in Nat
        BY <2>1, <2>2, Located
  <2>4. index - len < index
    <3>1. pc = "fraction" => index - len < index
          BY <2>3 DEF Taken
    <3>2. pc \in {"hex", "binary"} => index - len < index
          BY <2>3 DEF Taken
    <3>3. pc = "digits" => index - len < index
          BY <1>3, <1>5, <2>1
    <3> QED BY <2>1, <3>1, <3>2, <3>3
  <2>5. Fits(type, SubSeq(text, index - len + 1, index), Ch(text, index))
        BY <1>5, <2>1, <2>2, <2>3, <2>4, Located, CollectedNumberFits
  <2> QED BY <1>5, <2>2, <2>5, FinishesOrFails
<1>6. CASE digits_end \/ fraction_end \/ hex_end \/ binary_end
      BY <1>5, <1>6 DEF digits_end, fraction_end, hex_end, binary_end
<1>7. CASE digits_loop \/ fraction_loop \/ hex_loop \/ binary_loop
      BY <1>2, <1>7 DEF digits_loop, fraction_loop, hex_loop, binary_loop
<1> QED BY <1>1, <1>4, <1>6, <1>7 DEF numbers_step

LEMMA Fails ==
    ASSUME IInv, LexemeInv, text' = text, NEW err, NEW length, Fail(err, length)
    PROVE  LexemeInv'
<1>1. tokens' = tokens /\ pc' = "report"
      BY DEF Fail, array
<1> QED BY <1>1, StopsOK, Located

LEMMA CharsFit ==
    ASSUME IInv, LexemeInv, lex_chars
    PROVE  LexemeInv'
<1>1. /\ Starts({Tick}) /\ text' = text /\ Ch(text, index) = Tick
      /\ index \in Nat /\ text \in Seq(Char)
      BY StartsAt, Located DEF lex_chars
<1>2. ASSUME NEW length \in {3, 4}, lex_add_token("CharLiteral", index, length, "director"),
             Ch(text, index + (length - 1)) = Tick
      PROVE  LexemeInv'
  <2> DEFINE s == SubSeq(text, index + 1, index + length)
  <2>1. index + (length - 1) \in Nat /\ Tick # NUL
        BY <1>1 DEF Tick, NUL
  <2>2. PICK e \in Nat : e = index + length /\ e <= Len(text) /\ index <= e
        BY <1>1, <1>2, <2>1, ChType
  <2>3. /\ SubSeq(text, index + 1, e) \in Seq(Char)
        /\ Len(SubSeq(text, index + 1, e)) = e - index
        /\ \A j \in 1 .. e - index : SubSeq(text, index + 1, e)[j] = Ch(text, index + j - 1)
        BY <1>1, <2>2, LexemeChars
  <2>4. /\ s \in Seq(Char) /\ Len(s) = e - index
        /\ \A j \in 1 .. e - index : s[j] = Ch(text, index + j - 1)
        BY <2>2, <2>3
  <2> HIDE DEF s
  <2>5. /\ e - index = length /\ 1 \in 1 .. e - index /\ length \in 1 .. e - index
        /\ index + 1 - 1 = index /\ index + length - 1 = index + (length - 1)
        BY <1>1, <2>2
  <2>6. Len(s) = length /\ s[1] = Tick /\ s[length] = Tick
        BY <1>1, <1>2, <2>4, <2>5
  <2>7. Delimited(s, Tick) /\ Len(s) \in {3, 4}
        BY <2>6 DEF Delimited
  <2>8. Fits("CharLiteral", s, Ch(text, index + length))
        BY <2>4, <2>7, LiteralsFit
  <2>9. /\ Fits("CharLiteral", SubSeq(text, index + 1, index + length),
                Ch(text, index + length))
        /\ length \in Nat
        BY <2>8 DEF s
  <2> QED BY <1>1, <1>2, <2>9, GivesOut, LiteralTypes
<1>3. \/ At(index + 2) = Tick /\ lex_add_token("CharLiteral", index, 3, "director")
      \/ At(index + 3) = Tick /\ lex_add_token("CharLiteral", index, 4, "director")
      \/ \E err, length : Fail(err, length)
      BY DEF lex_chars
<1>4. 3 - 1 = 2 /\ 4 - 1 = 3
      OBVIOUS
<1> QED BY <1>1, <1>2, <1>3, <1>4, Fails, Here

LEMMA LiteralStepsFit ==
    ASSUME IInv, LexemeInv, literals_step
    PROVE  LexemeInv'
<1>1. CASE lex_strings
  <2>1. /\ Starts({Quote}) /\ Enter(1, 1, "strings") /\ Ch(text, index) = Quote
        /\ index \in Nat
        BY <1>1, StartsAt, Located DEF lex_strings
  <2>2. Taken("strings", text, index, index + 1)
        BY <2>1 DEF Taken
  <2>3. index + 1 - 1 = index
        BY <2>1
  <2> QED BY <2>1, <2>2, <2>3, EntersLoop, Phase DEF Scanning
<1>2. CASE strings_loop
  <2>1. /\ pc = "strings" /\ pc' = pc
        /\ ~(Ch(text, index) = Quote /\ Ch(text, index - 1) # Backslash)
        /\ UNCHANGED <<text, saved, array>> /\ index' = index + 1 /\ len' = len + 1
        BY <1>2, Here DEF strings_loop, ClosingQuote, lex_past, lex_advance_len_inc
  <2>2. pc \in Scanning
        BY <2>1 DEF Scanning
  <2>3. Taken("strings", text, index - len, index + 1)
        BY <2>1, <2>2, Located, TakenGrows
  <2> QED BY <2>1, <2>2, <2>3, TakesMore
<1>3. CASE strings_open
      BY <1>3, Fails DEF strings_open, FailAtStart
<1>4. CASE strings_close
  <2>1. pc = "strings" /\ text' = text /\ Ch(text, index) = Quote /\ pc \in Scanning
        /\ pc \in Handling
        BY <1>4, Here, Phase DEF strings_close, ClosingQuote, Scanning
  <2>2. CASE FailAtStart("TOO_LONG_STRING", len + 1)
        BY <2>1, <2>2, Fails DEF FailAtStart
  <2>3. CASE lex_add_token("StringLiteral", index - len, len + 1, "director")
    <3>1. /\ index - len = save_index /\ index - len \in Nat /\ index \in Nat /\ len + 1 \in Nat
          /\ index - len + (len + 1) = index + 1
          BY <2>1, Located DEF LexemeInv, ScanOK
    <3>2. index < Len(text)
          BY <2>1, <3>1, Located, ChType DEF Quote, NUL
    <3>3. Fits("StringLiteral", SubSeq(text, index - len + 1, index + 1), Ch(text, index + 1))
          BY <2>1, <3>1, <3>2, Located, CollectedStringFits
    <3> QED BY <2>1, <2>3, <3>1, <3>3, GivesOut, LiteralTypes
  <2> QED BY <1>4, <2>2, <2>3 DEF strings_close
<1>5. CASE lex_builtin_funcs
  <2>1. /\ Starts({"@"}) /\ Enter(1, 0, "builtin") /\ Ch(text, index) = "@"
        /\ index \in Nat
        BY <1>5, StartsAt, Located DEF lex_builtin_funcs
  <2>2. Taken("builtin", text, index + 1, index + 1)
        BY <2>1 DEF Taken, Within
  <2>3. index + 1 - 0 = index + 1
        BY <2>1
  <2> QED BY <2>1, <2>2, <2>3, EntersLoop, Phase
<1>6. CASE builtin_loop
  <2>1. /\ pc = "builtin" /\ pc' = pc /\ Ch(text, index) \in Alpha
        /\ UNCHANGED <<text, saved, array>> /\ index' = index + 1 /\ len' = len + 1
        BY <1>6, Here DEF builtin_loop, TakeWhile, lex_advance_len_inc
  <2>2. Taken("builtin", text, index - len, index + 1)
        BY <2>1, Phase, Located, TakenGrows
  <2> QED BY <2>1, <2>2, Phase, TakesMore
<1>7. CASE builtin_end
  <2>1. /\ pc = "builtin" /\ Ch(text, index) \notin Alpha /\ text' = text
        /\ lex_add_token("BuiltinId", index - len, len, "director")
        /\ pc \in Scanning /\ pc \in Handling
        BY <1>7, Here, Phase DEF builtin_end, ScanEnds
  <2>2. Fits("BuiltinId", SubSeq(text, index - len + 1, index), Ch(text, index))
        BY <2>1, Located, CollectedNameFits
  <2>3. index - len + len = index
        BY <2>1, Located
  <2>4. Fits("BuiltinId", SubSeq(text, index - len + 1, index - len + len),
             Ch(text, index - len + len))
        BY <2>2, <2>3
  <2> QED BY <2>1, <2>4, Located, GivesOut, LiteralTypes
<1> QED BY <1>1, <1>2, <1>3, <1>4, <1>5, <1>6, <1>7, CharsFit DEF literals_step

LEMMA TwoChars ==
    ASSUME NEW t \in Seq(Char), NEW i \in Nat, Ch(t, i + 1) # NUL
    PROVE  SubSeq(t, i + 1, i + 2) = <<Ch(t, i), Ch(t, i + 1)>>
<1> DEFINE s == SubSeq(t, i + 1, i + 2)
<1>1. i + 1 \in Nat /\ i + 1 < Len(t)
      BY ChType
<1>2. PICK e \in Nat : e = i + 2 /\ e <= Len(t) /\ i <= e
      BY <1>1
<1>3. /\ SubSeq(t, i + 1, e) \in Seq(Char) /\ Len(SubSeq(t, i + 1, e)) = e - i
      /\ \A j \in 1 .. e - i : SubSeq(t, i + 1, e)[j] = Ch(t, i + j - 1)
      BY <1>2, LexemeChars
<1>4. /\ s \in Seq(Char) /\ Len(s) = e - i
      /\ \A j \in 1 .. e - i : s[j] = Ch(t, i + j - 1)
      BY <1>2, <1>3
<1> HIDE DEF s
<1>5. /\ e - i = 2 /\ 1 \in 1 .. e - i /\ 2 \in 1 .. e - i
      /\ i + 1 - 1 = i /\ i + 2 - 1 = i + 1
      BY <1>2
<1>6. s \in Seq(Char) /\ Len(s) = 2 /\ s[1] = Ch(t, i) /\ s[2] = Ch(t, i + 1)
      BY <1>4, <1>5
<1>7. s = <<Ch(t, i), Ch(t, i + 1)>>
      BY <1>6
<1> QED BY <1>7 DEF s

LEMMA SymbolChars ==
    /\ \A row \in OneCharSymbols : row[1] # NUL
    /\ \A row \in TwoCharSymbols : row[1] # NUL /\ row[2] # NUL
<1>1. \A row \in OneCharSymbols : row[1] # NUL
      BY NoNulInSymbols DEF SymbolChar
<1>2. \A row \in TwoCharSymbols : row[1] # NUL /\ row[2] # NUL
      BY DEF TwoCharSymbols, NUL
<1> QED BY <1>1, <1>2

LEMMA SymbolsFit ==
    ASSUME IInv, LexemeInv, symbols_step
    PROVE  LexemeInv'
<1>1. CASE lex_long_symbol
  <2>1. PICK row \in TwoCharSymbols : /\ Ch(text, index) = row[1] /\ Ch(text, index + 1) = row[2]
                                      /\ lex_add_token(row[3], index, 2, "director")
        BY <1>1, Here DEF lex_long_symbol
  <2>2. text' = text /\ index \in Nat /\ text \in Seq(Char)
        BY <1>1, StartsAt, Located DEF lex_long_symbol
  <2>3. SubSeq(text, index + 1, index + 2) = <<row[1], row[2]>>
        BY <2>1, <2>2, SymbolChars, TwoChars
  <2>4. Fits(row[3], SubSeq(text, index + 1, index + 2), Ch(text, index + 2))
        BY <2>3, LongSymbolFits
  <2>5. row[3] \in TknType
        BY SymbolTypes
  <2> QED BY <2>1, <2>2, <2>4, <2>5, GivesOut
<1>2. CASE lex_short_symbol
  <2>1. PICK row \in OneCharSymbols : /\ Ch(text, index) = row[1]
                                      /\ lex_add_token(row[2], index, 1, "director")
        BY <1>2, Here DEF lex_short_symbol
  <2>2. /\ text' = text /\ index \in Nat /\ text \in Seq(Char)
        /\ ~LongSymbol(Ch(text, index), Ch(text, index + 1))
        BY <1>2, StartsAt, Located, Here DEF lex_short_symbol
  <2>3. SubSeq(text, index + 1, index + 1) = <<row[1]>>
        BY <2>1, <2>2, SymbolChars, OneChar
  <2>4. Fits(row[2], SubSeq(text, index + 1, index + 1), Ch(text, index + 1))
        BY <2>1, <2>2, <2>3, ShortSymbolFits
  <2>5. row[2] \in TknType
        BY SymbolTypes
  <2> QED BY <2>1, <2>2, <2>4, <2>5, GivesOut
<1>3. CASE lex_dotdot
  <2>1. /\ Ch(text, index) = "." /\ Ch(text, index + 1) = "."
        /\ lex_add_token("DotDot", index + 1, 1, "director")
        /\ text' = text /\ index \in Nat /\ text \in Seq(Char)
        BY <1>3, StartsAt, Located, Here DEF lex_dotdot
  <2>2. index + 1 \in Nat
        BY <2>1
  <2>3. SubSeq(text, index + 1 + 1, index + 1 + 1) = <<".">> /\ <<".">> \in Seq(Char)
    <3>1. "." # NUL /\ "." \in Char
          BY <2>1, ChType, Located DEF NUL
    <3> QED BY <2>1, <2>2, <3>1, OneChar
  <2>4. Fits("DotDot", SubSeq(text, index + 1 + 1, index + 1 + 1), Ch(text, index + 1 + 1))
        BY <2>3, LiteralsFit
  <2> QED BY <2>1, <2>2, <2>4, GivesOut, LiteralTypes
<1>4. CASE lex_semicolon
  <2>1. /\ Ch(text, index) = Semicolon /\ pc = "space" /\ index \in Nat
        /\ text' = text /\ text \in Seq(Char)
        BY <1>4, StartsAt, Located DEF lex_semicolon
  <2>2. CASE lex_add_token("Terminator", index, 1, "director")
    <3>1. Semicolon # NUL /\ Semicolon \in Char
          BY <2>1, ChType DEF NUL, Semicolon
    <3>2. SubSeq(text, index + 1, index + 1) = <<Semicolon>> /\ <<Semicolon>> \in Seq(Char)
          BY <2>1, <3>1, OneChar
    <3>3. Fits("Terminator", SubSeq(text, index + 1, index + 1), Ch(text, index + 1))
          BY <3>2, LiteralsFit
    <3> QED BY <2>1, <2>2, <3>3, GivesOut, LiteralTypes
  <2>3. CASE index' = index + 1 /\ pc' = "director" /\ UNCHANGED array
    <3>1. GivenOutOK'
          BY <2>1, <2>3, Located, SameTokens DEF array
    <3> QED BY <2>3, <3>1, Phase DEF LexemeInv, ScanOK
  <2> QED BY <1>4, <2>2, <2>3 DEF lex_semicolon, lex_add_terminator
<1>5. CASE lex_invalid_char
      BY <1>5, StartsAt, Fails DEF lex_invalid_char
<1> QED BY <1>1, <1>2, <1>3, <1>4, <1>5 DEF symbols_step

LEMMA CommentsPass ==
    ASSUME IInv, LexemeInv, comments_step
    PROVE  LexemeInv'
<1>1. text' = text /\ tokens' = tokens /\ pc' \in Comment \cup {"director"}
      BY DEF comments_step, lex_line_comment, lex_hash_comment, comment_loop, line_comment_end,
             hash_comment_end, lex_nested_comments, nested_close, nested_open, nested_mark,
             nested_skip, nested_end, Starts, Enter, Comment, array
<1>2. GivenOutOK' /\ pc' \notin Scanning /\ pc' # "builtin"
      BY <1>1, Located, SameTokens, Phase
<1> QED BY <1>2 DEF LexemeInv, ScanOK

-----------------------------------------------------------------------------
(* The induction.                                                          *)

LEMMA LexemeInitial == ASSUME lexer_init PROVE LexemeInv
<1>1. pc = "director" /\ tokens = <<>>
      BY DEF lexer_init
<1>2. GivenOutOK
      BY <1>1 DEF GivenOutOK
<1> QED BY <1>1, <1>2, Phase DEF LexemeInv, ScanOK

LEMMA LexemeStep == ASSUME IInv, LexemeInv, [Next]_vars PROVE LexemeInv'
<1>1. CASE UNCHANGED vars
  <2>1. UNCHANGED <<text, index, len, save_index, tokens, pc>>
        BY <1>1 DEF vars
  <2>2. GivenOutOK'
        BY <2>1, Located, SameTokens
  <2> QED BY <2>1, <2>2 DEF LexemeInv, ScanOK
<1>2. CASE lexer_step
  <2>1. CASE lex_report_error
        BY <2>1, StopsOK, Located DEF lex_report_error, array, Terminal
  <2> QED BY <1>2, <2>1, SkipsBlanks, SkipsNewlines, EndMarksFit DEF lexer_step
<1> QED BY <1>1, <1>2, IdentifiersFit, NumbersFit, LiteralStepsFit, SymbolsFit, CommentsPass
        DEF Next

LEMMA LexemeInductive == Spec => []LexemeInv
<1>1. lexer_init => LexemeInv
      BY LexemeInitial
<1>2. IInv /\ LexemeInv /\ [Next]_vars => LexemeInv'
      BY LexemeStep
<1> QED BY <1>1, <1>2, Inductive, PTL DEF Spec

-----------------------------------------------------------------------------
(* The theorems.                                                           *)

(* Whatever the text, the characters of every token are those its type     *)
(* stands for, and a word that is a keyword is never an identifier         *)
(* (lexer.c:154, 332, 412, 643).                                           *)
THEOREM LexemesAlwaysMatch == Spec => []LexemesMatchTypes
<1>1. LexemeInv => LexemesMatchTypes
      BY DEF LexemeInv, GivenOutOK, FitsIn, Fits, LexemesMatchTypes, Lexeme
<1> QED BY <1>1, LexemeInductive, PTL

(* Whatever the text, no word, name or number could take one more          *)
(* character, and no symbol is the first half of another one               *)
(* (lexer.c:150, 310, 504).                                                *)
THEOREM TokensAreLongest == Spec => []LongestMatch
<1>1. LexemeInv => LongestMatch
  <2> SUFFICES ASSUME LexemeInv, NEW i \in 1 .. Len(tokens)
               PROVE  LET s == Lexeme(tokens[i])
                          longer == Append(s, At(End(tokens[i])))
                      IN CASE tokens[i].type \in {"Terminator", "EOT", "DotDot"} -> TRUE
                           [] tokens[i].type = "BuiltinId" -> At(End(tokens[i])) \notin Alpha
                           [] tokens[i].type = "IntegerLiteral" -> ~Integer(longer)
                           [] tokens[i].type = "FloatLiteral"   -> ~Float(longer)
                           [] tokens[i].type \in {"StringLiteral", "CharLiteral"} -> TRUE
                           [] OTHER -> /\ Word(s) => ~Word(longer)
                                       /\ Len(s) = 1 => ~LongSymbol(s[1], At(End(tokens[i])))
      BY DEF LongestMatch
  <2>1. Longest(tokens[i].type, Lexeme(tokens[i]), At(End(tokens[i])))
        BY Here DEF LexemeInv, GivenOutOK, FitsIn, Fits, Lexeme
  <2> QED BY <2>1 DEF Longest
<1> QED BY <1>1, LexemeInductive, PTL
=============================================================================
