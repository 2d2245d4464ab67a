---------------------------- MODULE LexerProofs ----------------------------
(***************************************************************************)
(* Proofs about the scanner, for every text file.c accepts and every value *)
(* of the limits.                                                          *)
(***************************************************************************)
EXTENDS Lexer, SequenceTheorems, TLAPS

(* The loops that collect the characters of a token.                       *)
Scanning == {"identifiers", "digits", "fraction", "hex", "binary", "strings", "builtin"}
Comment == {"line_comment", "hash_comment", "nested"}
Handling == Scanning \cup Comment

(* The array: what has been given out.                                     *)
TokensOK == /\ \A i \in 1 .. Len(tokens) - 1 : End(tokens[i]) <= tokens[i + 1].index
            /\ prev = "EOT" <=> tokens = <<>>
CapacityOK == Len(text) >= 4 =>
                 capacity >= 1 /\ Len(tokens) <= capacity /\ pc # "corrupted"

(* End marks come only when the text is over, and then loop of them.       *)
MarksOK ==
    /\ pc \notin Terminal \cup {"eot"} => \A i \in 1 .. Len(tokens) : ~EndMark(i)
    /\ pc = "eot" => /\ loop <= EXTRA_NULL_TERMINATORS
                     /\ loop <= Len(tokens)
                     /\ \A i \in 1 .. Len(tokens) : EndMark(i) <=> i > Len(tokens) - loop

(* The position: never more than one behind the text, never before what    *)
(* was saved, and the characters of a token in the making are all behind   *)
(* the saved position, which is behind the last token.                     *)
PositionOK ==
    /\ index <= Len(text) + 1
    /\ save_index <= index
    /\ EndOfLast <= index
    /\ pc \in Handling \cup {"report"} => index <= Len(text) /\ EndOfLast <= save_index
    /\ pc \in Scanning => len <= index /\ save_index <= index - len
    /\ pc = "space" => len = 0

(* The handlers that are entered before they take their first character    *)
(* find one to take.                                                       *)
ProgressOK ==
    /\ pc \in Handling \ {"digits", "line_comment", "hash_comment"} => save_index < index
    /\ pc = "digits" => save_index < index \/ lex_current \in Digit
    /\ pc = "line_comment" => save_index < index \/ InComment

IInv == TypeOK /\ TokensOK /\ CapacityOK /\ MarksOK /\ PositionOK /\ ProgressOK

-----------------------------------------------------------------------------
(* Characters and types.                                                   *)

LEMMA TextLength ==
    ASSUME TypeOK
    PROVE  /\ Len(text) \in Nat
           /\ Len(text) + EXTRA_NULL_TERMINATORS <= RUINT_MAX
           /\ Len(text) >= 1
           /\ text \in Seq(Char)
<1>1. text \in Seq(Char) /\ Len(text) \in 1 .. RUINT_MAX - EXTRA_NULL_TERMINATORS
      BY DEF TypeOK
<1> QED BY <1>1, RangeAssumption DEF EXTRA_NULL_TERMINATORS

(* Only inside the text does At find something else than null.             *)
LEMMA AtInside ==
    ASSUME NEW i \in Nat, At(i) # NUL
    PROVE  i < Len(text)
BY DEF At

LEMMA NoNulInSets ==
    /\ NUL \notin IdStart /\ NUL \notin IdChar /\ NUL \notin Digit /\ NUL \notin HexDigit
    /\ NUL \notin Bit /\ NUL \notin Alpha /\ NUL \notin Blank /\ NUL \notin Escape
    /\ NUL \notin {Quote} /\ NUL \notin {Tick} /\ NUL \notin {"@"} /\ NUL \notin {"."}
    /\ NUL \notin {Semicolon} /\ NUL \notin {"/"} /\ NUL \notin {"#"} /\ NUL # Newline
BY DEF NUL, IdStart, IdChar, Digit, HexDigit, Bit, HexLetter, Alpha, Blank, Escape, Quote, Tick,
       Newline, Backslash, Space, Underscore, Semicolon

LEMMA NoNulInSymbols == NUL \notin SymbolChar
BY DEF NUL, SymbolChar, OneCharSymbols, OpenBrace, CloseBrace, Comma

LEMMA KeywordTypes ==
    \A row \in Keywords : row[2] \in TknType /\ row[2] \notin {"Terminator", "EOT"}
<1>1. \A row \in Keywords : row[2] \in TknType
      BY DEF TknType
<1>2. \A row \in Keywords : row[2] # "Terminator" /\ row[2] # "EOT"
      BY DEF Keywords
<1> QED BY <1>1, <1>2

LEMMA WordTypes ==
    ASSUME NEW word
    PROVE  WordType(word) \in TknType /\ WordType(word) \notin {"Terminator", "EOT"}
<1>1. CASE \E row \in Keywords : row[1] = word
  <2>1. PICK row \in Keywords : row = CHOOSE r \in Keywords : r[1] = word
        BY <1>1
  <2> QED BY <1>1, <2>1, KeywordTypes DEF WordType
<1>2. CASE ~\E row \in Keywords : row[1] = word
      BY <1>2 DEF WordType, TknType
<1> QED BY <1>1, <1>2

LEMMA SymbolTypes ==
    /\ \A row \in OneCharSymbols : row[2] \in TknType /\ row[2] \notin {"Terminator", "EOT"}
    /\ \A row \in TwoCharSymbols : row[3] \in TknType /\ row[3] \notin {"Terminator", "EOT"}
<1>1. /\ \A row \in OneCharSymbols : row[2] \in TknType
      /\ \A row \in TwoCharSymbols : row[3] \in TknType
      BY DEF TknType
<1>2. \A row \in OneCharSymbols : row[2] \notin {"Terminator", "EOT"}
      BY DEF OneCharSymbols
<1>3. \A row \in TwoCharSymbols : row[3] \notin {"Terminator", "EOT"}
      BY DEF TwoCharSymbols
<1> QED BY <1>1, <1>2, <1>3

LEMMA LiteralTypes ==
    {"Identifier", "BuiltinId", "IntegerLiteral", "FloatLiteral", "StringLiteral",
     "CharLiteral", "Terminator", "DotDot", "EOT"} \subseteq TknType
BY DEF TknType

-----------------------------------------------------------------------------
(* What a push and its absence do to the array.                            *)

LEMMA TokenFields ==
    ASSUME TypeOK, NEW i \in 1 .. Len(tokens)
    PROVE  /\ tokens[i] \in Token
           /\ tokens[i].index \in Nat /\ tokens[i].length \in Nat
           /\ End(tokens[i]) \in Nat
<1>1. tokens[i] \in Token
      BY DEF TypeOK
<1> QED BY <1>1 DEF Token, End

LEMMA EndOfLastNat ==
    ASSUME TypeOK
    PROVE  EndOfLast \in Nat
<1>1. CASE tokens = <<>>
      BY <1>1 DEF EndOfLast
<1>2. CASE tokens # <<>>
  <2>1. Len(tokens) \in 1 .. Len(tokens)
        BY <1>2, EmptySeq DEF TypeOK
  <2> QED BY <1>2, <2>1, TokenFields DEF EndOfLast
<1> QED BY <1>1, <1>2

(* A push that succeeds.                                                   *)
LEMMA Appended ==
    ASSUME IInv, NEW token \in Token, tokens' = Append(tokens, token),
           prev' = "Terminator", EndOfLast <= token.index
    PROVE  /\ tokens' \in Seq(Token)
           /\ Len(tokens') = Len(tokens) + 1
           /\ TokensOK'
           /\ EndOfLast' = End(token)
           /\ \A i \in 1 .. Len(tokens) : tokens'[i] = tokens[i]
           /\ tokens'[Len(tokens) + 1] = token
<1>1. tokens \in Seq(Token) /\ Len(tokens) \in Nat
      BY DEF IInv, TypeOK
<1>2. /\ tokens' \in Seq(Token)
      /\ tokens' # <<>>
      /\ Len(tokens') = Len(tokens) + 1
      /\ \A i \in 1 .. Len(tokens) : tokens'[i] = tokens[i]
      /\ tokens'[Len(tokens) + 1] = token
      BY <1>1, AppendProperties
<1>3. EndOfLast' = End(token)
      BY <1>2 DEF EndOfLast
<1>4. \A i \in 1 .. Len(tokens') - 1 : End(tokens'[i]) <= tokens'[i + 1].index
  <2> SUFFICES ASSUME NEW i \in 1 .. Len(tokens') - 1
               PROVE  End(tokens'[i]) <= tokens'[i + 1].index
      OBVIOUS
  <2>1. CASE i = Len(tokens)
    <3>1. tokens # <<>> /\ End(tokens[i]) = EndOfLast
          BY <2>1, <1>1, <1>2, EmptySeq DEF EndOfLast
    <3> QED BY <3>1, <2>1, <1>1, <1>2
  <2>2. CASE i # Len(tokens)
    <3>1. i \in 1 .. Len(tokens) - 1 /\ i \in 1 .. Len(tokens) /\ i + 1 \in 1 .. Len(tokens)
          BY <2>2, <1>1, <1>2
    <3>2. End(tokens[i]) <= tokens[i + 1].index
          BY <3>1 DEF IInv, TokensOK
    <3> QED BY <3>1, <3>2, <1>2
  <2> QED BY <2>1, <2>2
<1>5. TokensOK'
      BY <1>2, <1>4 DEF TokensOK
<1> QED BY <1>2, <1>3, <1>5

(* Whatever leaves the array alone leaves its invariants alone.            *)
LEMMA ArrayKept ==
    ASSUME IInv, UNCHANGED <<text, array>>, pc' # "corrupted"
    PROVE  /\ tokens' = tokens /\ capacity' = capacity /\ prev' = prev
           /\ TokensOK' /\ CapacityOK' /\ EndOfLast' = EndOfLast
BY DEF IInv, TokensOK, CapacityOK, EndOfLast, End, array

(* The array after array_push, whichever way it goes.                      *)
LEMMA ArrayPushed ==
    ASSUME IInv, NEW token \in Token, NEW next, next # "corrupted",
           array_push(token, next), text' = text, EndOfLast <= token.index
    PROVE  /\ tokens' \in Seq(Token) /\ capacity' \in Nat /\ prev' \in {"EOT", "Terminator"}
           /\ TokensOK' /\ CapacityOK'
           /\ \/ pc' = next /\ EndOfLast' = End(token) /\ tokens' = Append(tokens, token)
              \/ pc' \in {"corrupted", "exited"} /\ EndOfLast' = EndOfLast /\ tokens' = tokens
<1>1. /\ tokens \in Seq(Token) /\ Len(tokens) \in Nat /\ capacity \in Nat
      /\ prev \in {"EOT", "Terminator"} /\ TokensOK
      BY DEF IInv, TypeOK
<1>2. capacity' = Grown /\ Grown \in Nat /\ capacity <= Grown
      BY <1>1 DEF array_push, Grown
<1>3. Len(text) >= 4 => capacity >= 1 /\ Len(tokens) <= capacity
      BY DEF IInv, CapacityOK
<1>4. Len(text) >= 4 => Len(tokens) + 1 <= Grown
      BY <1>1, <1>3 DEF Grown
<1>5. CASE /\ Len(tokens) + 1 <= Grown
           /\ tokens' = Append(tokens, token)
           /\ prev' = "Terminator"
           /\ pc' = next
  <2>1. tokens' \in Seq(Token) /\ TokensOK' /\ EndOfLast' = End(token)
        /\ Len(tokens') = Len(tokens) + 1
        BY <1>5, Appended
  <2>2. CapacityOK'
        BY <1>1, <1>2, <1>3, <1>5, <2>1 DEF CapacityOK
  <2> QED BY <1>2, <1>5, <2>1, <2>2
<1>6. ASSUME pc' \in {"corrupted", "exited"}, UNCHANGED <<tokens, prev>>,
             pc' = "corrupted" => Len(tokens) + 1 > Grown
      PROVE  /\ TokensOK' /\ CapacityOK' /\ EndOfLast' = EndOfLast
  <2>1. TokensOK' /\ EndOfLast' = EndOfLast
        BY <1>1, <1>6 DEF TokensOK, EndOfLast, End
  <2>2. CapacityOK'
        BY <1>1, <1>2, <1>3, <1>4, <1>6 DEF CapacityOK
  <2> QED BY <2>1, <2>2
<1> QED BY <1>1, <1>2, <1>5, <1>6 DEF array_push

-----------------------------------------------------------------------------
(* The same, seen as steps of the abstract token stream.                   *)

SpanRecord == [from : Nat, to : Nat, mark : BOOLEAN]
SpanOf(token) == [from |-> token.index, to |-> End(token), mark |-> token.type = "EOT"]
spans == [i \in 1 .. Len(tokens) |->
             [from |-> tokens[i].index, to |-> End(tokens[i]), mark |-> EndMark(i)]]
verdict == CASE pc = "done" -> "accepted"
             [] pc \in Terminal \ {"done"} -> "rejected"
             [] OTHER -> "open"

StreamStep == [Stream!StreamNext]_(Stream!streamVars)

LEMMA Verdicts ==
    /\ pc \notin Terminal => verdict = "open"
    /\ pc \in Terminal \ {"done"} => verdict = "rejected"
    /\ pc = "done" => verdict = "accepted"
BY DEF verdict, Terminal

LEMMA SpansProperties ==
    ASSUME IInv
    PROVE  /\ spans \in Seq(SpanRecord)
           /\ Len(spans) = Len(tokens)
           /\ \A i \in 1 .. Len(tokens) : spans[i] = SpanOf(tokens[i])
           /\ Stream!LastEnd = EndOfLast
<1>1. tokens \in Seq(Token) /\ Len(tokens) \in Nat
      BY DEF IInv, TypeOK
<1>2. \A i \in 1 .. Len(tokens) : /\ tokens[i].index \in Nat
                                  /\ End(tokens[i]) \in Nat
                                  /\ EndMark(i) \in BOOLEAN
      BY TokenFields DEF IInv, EndMark
<1>3. spans \in Seq(SpanRecord) /\ Len(spans) = Len(tokens)
      BY <1>1, <1>2 DEF spans, SpanRecord
<1>4. \A i \in 1 .. Len(tokens) : spans[i] = SpanOf(tokens[i])
      BY <1>1 DEF spans, SpanOf, EndMark
<1>5. Stream!LastEnd = EndOfLast
  <2>1. CASE tokens = <<>>
    <3>1. spans = <<>>
          BY <1>3, <2>1, EmptySeq
    <3> QED BY <2>1, <3>1 DEF Stream!LastEnd, spans, EndOfLast
  <2>2. CASE tokens # <<>>
    <3>1. spans # <<>> /\ Len(tokens) \in 1 .. Len(tokens)
          BY <1>1, <1>3, <2>2, EmptySeq
    <3>2. spans[Len(tokens)] = SpanOf(tokens[Len(tokens)])
          BY <3>1, <1>4
    <3>3. spans[Len(spans)].to = End(tokens[Len(tokens)])
          BY <3>2, <1>3 DEF SpanOf
    <3>4. Stream!LastEnd = IF spans = <<>> THEN 0 ELSE spans[Len(spans)].to
          BY DEF Stream!LastEnd, spans
    <3> QED BY <2>2, <3>1, <3>3, <3>4 DEF EndOfLast
  <2> QED BY <2>1, <2>2
<1> QED BY <1>3, <1>4, <1>5

LEMMA StreamStutters ==
    ASSUME tokens' = tokens, pc \notin Terminal, pc' \notin Terminal
    PROVE  StreamStep
<1>1. spans' = spans
      BY DEF spans, End, EndMark
<1>2. verdict' = verdict
      BY DEF verdict, Terminal
<1> QED BY <1>1, <1>2 DEF StreamStep, Stream!streamVars, spans, verdict

LEMMA StreamRejects ==
    ASSUME tokens' = tokens, pc \notin Terminal, pc' \in Terminal \ {"done"}
    PROVE  StreamStep
<1>1. spans' = spans
      BY DEF spans, End, EndMark
<1>2. verdict = "open" /\ verdict' = "rejected"
      BY DEF verdict, Terminal
<1> QED BY <1>1, <1>2 DEF StreamStep, Stream!StreamNext, Stream!Reject, spans, verdict

LEMMA AppendedValue ==
    ASSUME NEW S, NEW seq \in Seq(S), NEW e \in S
    PROVE  Append(seq, e) =
               [i \in 1 .. Len(seq) + 1 |-> IF i = Len(seq) + 1 THEN e ELSE seq[i]]
<1> DEFINE f == [i \in 1 .. Len(seq) + 1 |-> IF i = Len(seq) + 1 THEN e ELSE seq[i]]
<1>1. /\ Len(seq) \in Nat
      /\ Append(seq, e) \in Seq(S)
      /\ Len(Append(seq, e)) = Len(seq) + 1
      /\ \A i \in 1 .. Len(seq) : Append(seq, e)[i] = seq[i]
      /\ Append(seq, e)[Len(seq) + 1] = e
      BY AppendProperties
<1>2. f \in Seq(S) /\ Len(f) = Len(seq) + 1
      BY <1>1
<1>3. \A i \in 1 .. Len(seq) + 1 : f[i] = Append(seq, e)[i]
      BY <1>1
<1> HIDE DEF f
<1>4. f = Append(seq, e)
      BY <1>1, <1>2, <1>3, SeqEqual
<1> QED BY <1>4 DEF f

LEMMA StreamEmits ==
    ASSUME IInv, NEW token \in Token, tokens' = Append(tokens, token),
           pc \notin Terminal, pc' \notin Terminal,
           EndOfLast <= token.index, End(token) <= RUINT_MAX,
           token.type = "EOT" \/ \A i \in 1 .. Len(tokens) : ~EndMark(i)
    PROVE  StreamStep
<1>1. /\ tokens \in Seq(Token) /\ Len(tokens) \in Nat
      /\ token.index \in Nat /\ token.length \in Nat /\ End(token) \in Nat
      /\ token.index <= End(token)
      BY DEF IInv, TypeOK, Token, End
<1>2. /\ tokens' \in Seq(Token)
      /\ Len(tokens') = Len(tokens) + 1
      /\ \A i \in 1 .. Len(tokens) : tokens'[i] = tokens[i]
      /\ tokens'[Len(tokens) + 1] = token
      BY <1>1, AppendProperties
<1>3. /\ spans \in Seq(SpanRecord)
      /\ Len(spans) = Len(tokens)
      /\ \A i \in 1 .. Len(tokens) : spans[i] = SpanOf(tokens[i])
      /\ Stream!LastEnd = EndOfLast
      BY SpansProperties
<1>4. spans' = [i \in 1 .. Len(tokens) + 1 |-> SpanOf(tokens'[i])]
      BY <1>2 DEF spans, SpanOf, End, EndMark
<1>5. SpanOf(token) \in SpanRecord
      BY <1>1 DEF SpanOf, SpanRecord
<1>6. Append(spans, SpanOf(token)) =
         [i \in 1 .. Len(spans) + 1 |-> IF i = Len(spans) + 1 THEN SpanOf(token) ELSE spans[i]]
      BY <1>3, <1>5, AppendedValue
<1>7. spans' = Append(spans, SpanOf(token))
      BY <1>1, <1>2, <1>3, <1>4, <1>6
<1>8. /\ Append(spans, SpanOf(token)) \in Seq(SpanRecord)
      /\ Len(Append(spans, SpanOf(token))) = Len(spans) + 1
      /\ Append(spans, SpanOf(token))[Len(spans) + 1] = SpanOf(token)
      BY <1>3, <1>5, AppendProperties
<1>9. /\ Len(spans') > 0
      /\ spans'[Len(spans')] = SpanOf(token)
      BY <1>1, <1>3, <1>7, <1>8
<1>10. SpanOf(token) \in Stream!Span
      BY <1>1, RangeAssumption DEF Stream!Span, SpanOf
<1>11. Stream!Marked(Len(spans)) => SpanOf(token).mark
  <2>1. CASE token.type = "EOT"
        BY <2>1 DEF SpanOf
  <2>2. CASE \A i \in 1 .. Len(tokens) : ~EndMark(i)
    <3>1. ASSUME NEW i \in 1 .. Len(tokens) PROVE ~spans[i].mark
      <4>1. spans[i] = SpanOf(tokens[i])
            BY <1>3
      <4>2. SpanOf(tokens[i]).mark = (tokens[i].type = "EOT")
            BY Zenon DEF SpanOf
      <4>3. tokens[i].type # "EOT"
            BY <2>2 DEF EndMark
      <4> QED BY <4>1, <4>2, <4>3, Zenon
    <3>2. Stream!Marked(Len(spans)) <=> Len(spans) \in 1 .. Len(spans) /\ spans[Len(spans)].mark
          BY DEF Stream!Marked, spans
    <3> QED BY <3>1, <3>2, <1>3
  <2> QED BY <2>1, <2>2
<1>12. verdict = "open" /\ verdict' = verdict
      BY DEF verdict, Terminal
<1>13. /\ Stream!LastEnd <= SpanOf(token).from
       /\ SpanOf(token).from <= SpanOf(token).to
      BY <1>1, <1>3 DEF SpanOf
<1>14. Stream!Emit <=>
          /\ verdict = "open"
          /\ Len(spans') > 0
          /\ LET new == spans'[Len(spans')]
             IN /\ new \in Stream!Span
                /\ spans' = Append(spans, new)
                /\ Stream!LastEnd <= new.from
                /\ new.from <= new.to
                /\ Stream!Marked(Len(spans)) => new.mark
          /\ verdict' = verdict
      BY DEF Stream!Emit, spans, verdict
<1>15. Stream!Emit
      BY <1>7, <1>9, <1>10, <1>11, <1>12, <1>13, <1>14
<1> QED BY <1>15 DEF StreamStep, Stream!StreamNext

-----------------------------------------------------------------------------
(* Every step is of one of three kinds: it moves without touching the      *)
(* array, it gives out a token, or it writes an end mark.  What each step  *)
(* is to preserve, and what it may never do:                               *)

Consumes == pc # "director" /\ pc' = "director" => index' > save_index'
Good == IInv' /\ Consumes /\ StreamStep

(* The variables that hold numbers, and the error.                         *)
NumbersOK == /\ index \in Nat /\ len \in Nat
             /\ line \in Nat \ {0} /\ begin_tkn_line \in Nat \ {0}
             /\ save_index \in Nat /\ save_line \in Nat \ {0}
             /\ loop \in Nat
             /\ error \in LexErr

LEMMA Moved ==
    ASSUME IInv, UNCHANGED <<text, array>>,
           pc \notin Terminal \cup {"eot"}, pc' \in Phases \ (Terminal \cup {"eot"}),
           NumbersOK', PositionOK', ProgressOK', Consumes
    PROVE  Good
<1>1. /\ tokens' = tokens /\ capacity' = capacity /\ prev' = prev /\ text' = text
      /\ TokensOK' /\ CapacityOK'
      BY ArrayKept DEF Terminal
<1>2. TypeOK'
      BY <1>1 DEF IInv, TypeOK, NumbersOK
<1>3. MarksOK'
      BY <1>1 DEF IInv, MarksOK, EndMark
<1>4. StreamStep
      BY <1>1, StreamStutters
<1> QED BY <1>1, <1>2, <1>3, <1>4 DEF Good, IInv

LEMMA Emitted ==
    ASSUME IInv, pc \notin Terminal \cup {"eot"}, text' = text, NumbersOK',
           NEW type \in TknType, type # "EOT",
           NEW start \in Nat, NEW length \in Nat, NEW next \in {"director", "space"},
           lex_add_token(type, start, length, next),
           EndOfLast <= start, start + length <= Len(text) + 1,
           save_index' <= start + length,
           next = "director" => save_index' < start + length,
           next = "space" => length = 0
    PROVE  Good
<1> DEFINE token == [index |-> start, length |-> length, line |-> begin_tkn_line,
                     type |-> type]
<1>1. token \in Token /\ token.index = start /\ End(token) = start + length /\ token.type = type
      BY DEF IInv, TypeOK, Token, End
<1>2. array_push(token, next) /\ index' = start + length /\ len' = length
      BY DEF lex_add_token
<1> HIDE DEF token
<1>3. /\ tokens' \in Seq(Token) /\ capacity' \in Nat /\ prev' \in {"EOT", "Terminator"}
      /\ TokensOK' /\ CapacityOK'
      /\ \/ pc' = next /\ EndOfLast' = End(token) /\ tokens' = Append(tokens, token)
         \/ pc' \in {"corrupted", "exited"} /\ EndOfLast' = EndOfLast /\ tokens' = tokens
      BY <1>1, <1>2, ArrayPushed
<1>4. /\ pc' \in {"director", "space", "corrupted", "exited"}
      /\ pc' \in {"director", "space"} => next = pc'
      BY <1>3
<1>5. TypeOK'
      BY <1>3, <1>4 DEF IInv, TypeOK, NumbersOK, Phases, Terminal
<1>6. EndOfLast' <= index'
      BY <1>1, <1>2, <1>3, EndOfLastNat DEF IInv
<1>7. PositionOK' /\ ProgressOK'
      BY <1>2, <1>4, <1>6 DEF PositionOK, ProgressOK, Handling, Scanning, Comment
<1>8. \A i \in 1 .. Len(tokens) : ~EndMark(i)
      BY DEF IInv, MarksOK
<1>9. MarksOK'
  <2>1. CASE pc' = next /\ tokens' = Append(tokens, token)
    <3>1. /\ Len(tokens') = Len(tokens) + 1 /\ Len(tokens) \in Nat
          /\ \A i \in 1 .. Len(tokens) : tokens'[i] = tokens[i]
          /\ tokens'[Len(tokens) + 1] = token
          BY <1>1, <2>1, AppendProperties DEF IInv, TypeOK
    <3>2. \A i \in 1 .. Len(tokens') : ~EndMark(i)'
          BY <3>1, <1>1, <1>8 DEF EndMark
    <3> QED BY <3>2, <2>1 DEF MarksOK, EndMark
  <2>2. CASE pc' \in {"corrupted", "exited"}
        BY <2>2 DEF MarksOK, Terminal
  <2> QED BY <2>1, <2>2, <1>3
<1>10. StreamStep
  <2>1. CASE pc' = next /\ tokens' = Append(tokens, token)
    <3>1. End(token) <= RUINT_MAX
          BY <1>1, TextLength, RangeAssumption DEF IInv, EXTRA_NULL_TERMINATORS
    <3>2. pc' \notin Terminal
          BY <2>1 DEF Terminal
    <3> QED BY <1>1, <1>8, <2>1, <3>1, <3>2, StreamEmits
  <2>2. CASE pc' \in {"corrupted", "exited"} /\ tokens' = tokens
        BY <2>2, StreamRejects DEF Terminal
  <2> QED BY <2>1, <2>2, <1>3
<1>11. Consumes
       BY <1>2, <1>4 DEF Consumes
<1> QED BY <1>3, <1>5, <1>7, <1>9, <1>10, <1>11 DEF Good, IInv

-----------------------------------------------------------------------------
(* The building blocks of the handlers.                                    *)

LEMMA Facts ==
    ASSUME IInv
    PROVE  /\ NumbersOK /\ PositionOK /\ ProgressOK
           /\ Len(text) \in Nat /\ Len(text) >= 1
           /\ EndOfLast \in Nat
           /\ \A i \in Nat : Newlines(i) \in {0, 1}
           /\ pc \in Phases
BY TextLength, EndOfLastNat DEF IInv, TypeOK, NumbersOK, Newlines

LEMMA Took ==
    ASSUME IInv, NEW S, NUL \notin S, NEW loopName \in Scanning, TakeWhile(loopName, S)
    PROVE  Good
<1>1. /\ index < Len(text)
      /\ pc = loopName /\ pc' = loopName
      /\ index' = index + 1 /\ len' = len + 1 /\ line' = line + Newlines(index)
      /\ UNCHANGED <<text, begin_tkn_line, saved, array, error, loop>>
      BY Facts, AtInside DEF TakeWhile, lex_current, lex_advance_len_inc, NumbersOK
<1>2. /\ index <= Len(text) /\ EndOfLast <= save_index
      /\ len <= index /\ save_index <= index - len
      BY <1>1, Facts DEF PositionOK, Handling
<1>3. NumbersOK'
  <2>1. NumbersOK /\ Newlines(index) \in {0, 1}
        BY Facts DEF NumbersOK
  <2> QED BY <1>1, <2>1 DEF NumbersOK, saved
<1>4. EndOfLast' = EndOfLast
      BY <1>1 DEF EndOfLast, End, array
<1>5. PositionOK'
  <2>1. pc' # "space"
        BY <1>1 DEF Scanning
  <2>2. /\ EndOfLast \in Nat /\ Len(text) \in Nat /\ Len(text') = Len(text)
        /\ index \in Nat /\ len \in Nat /\ save_index \in Nat /\ save_index' = save_index
        BY <1>1, Facts DEF NumbersOK, saved
  <2>3. /\ index' <= Len(text') /\ index' <= Len(text') + 1
        /\ save_index' <= index' /\ EndOfLast' <= save_index' /\ EndOfLast' <= index'
        /\ len' <= index' /\ save_index' <= index' - len'
        BY <1>1, <1>2, <1>4, <2>2
  <2> QED BY <2>1, <2>3 DEF PositionOK
<1>6. ProgressOK'
  <2>1. index \in Nat /\ len \in Nat /\ save_index \in Nat /\ save_index' = save_index
        BY <1>1, Facts DEF NumbersOK, saved
  <2>2. save_index' < index'
        BY <1>1, <1>2, <2>1
  <2>3. pc' # "line_comment"
        BY <1>1 DEF Scanning
  <2> QED BY <2>2, <2>3 DEF ProgressOK
<1>7. Consumes
      BY <1>1 DEF Consumes, Scanning
<1>8. pc \notin Terminal \cup {"eot"} /\ pc' \in Phases \ (Terminal \cup {"eot"})
      BY <1>1 DEF Scanning, Terminal, Phases
<1> QED BY <1>1, <1>3, <1>5, <1>6, <1>7, <1>8, Moved

(* A handler that starts and goes on to a loop.                            *)
LEMMA Entered ==
    ASSUME IInv, NEW S, Starts(S), NEW k \in Nat, NEW length \in Nat, NEW next \in Handling,
           Enter(k, length, next), index + k <= Len(text), loop' \in Nat,
           next \in Scanning => length <= k,
           k = 0 => next = "hash_comment" \/ (next = "digits" /\ lex_current \in Digit)
                      \/ (next = "line_comment" /\ InComment)
    PROVE  Good
<1>1. /\ pc = "space" /\ pc' = next
      /\ save_index' = index /\ save_line' = line
      /\ index' = index + k /\ len' = length
      /\ UNCHANGED <<text, begin_tkn_line, line, array, error>>
      BY DEF Starts, Enter
<1>2. EndOfLast' = EndOfLast
      BY <1>1 DEF EndOfLast, End, array
<1>3. NumbersOK'
      BY <1>1, Facts DEF NumbersOK
<1>4. PositionOK'
  <2>1. pc' # "space"
        BY <1>1 DEF Handling, Scanning, Comment
  <2>2. EndOfLast <= index /\ index \in Nat /\ Len(text) \in Nat /\ EndOfLast \in Nat
        BY Facts DEF PositionOK, NumbersOK
  <2>3. /\ index' <= Len(text') /\ index' <= Len(text') + 1
        /\ save_index' <= index' /\ EndOfLast' <= index' /\ EndOfLast' <= save_index'
        BY <1>1, <1>2, <2>2
  <2>4. pc' \in Scanning => len' <= index' /\ save_index' <= index' - len'
        BY <1>1, <2>2
  <2> QED BY <2>1, <2>3, <2>4 DEF PositionOK
<1>5. ProgressOK'
  <2>1. CASE k = 0
    <3>1. index' = index
          BY <1>1, <2>1, Facts DEF NumbersOK
    <3>2. /\ next = "digits" => (lex_current \in Digit)'
          /\ next = "line_comment" => InComment'
          BY <1>1, <2>1, <3>1 DEF lex_current, At, InComment, lex_is_not_eof
    <3> QED BY <1>1, <2>1, <3>2 DEF ProgressOK
  <2>2. CASE k # 0
    <3>1. save_index' < index'
          BY <1>1, <2>2, Facts DEF NumbersOK
    <3> QED BY <3>1 DEF ProgressOK
  <2> QED BY <2>1, <2>2
<1>6. Consumes
      BY <1>1 DEF Consumes, Handling, Scanning, Comment
<1>7. pc \notin Terminal \cup {"eot"} /\ pc' \in Phases \ (Terminal \cup {"eot"})
      BY <1>1 DEF Handling, Scanning, Comment, Terminal, Phases
<1> QED BY <1>1, <1>3, <1>4, <1>5, <1>6, <1>7, Moved

(* A handler that fails inside the text, no earlier than where it started. *)
LEMMA Failed ==
    ASSUME IInv, pc \in Scanning \cup {"space"}, NEW err \in LexErr, NEW length \in Nat,
           Fail(err, length), UNCHANGED <<text, begin_tkn_line, loop>>,
           index' \in Nat, line' \in Nat \ {0}, save_index' \in Nat, save_line' \in Nat \ {0},
           save_index' <= index', index' <= Len(text), EndOfLast <= save_index'
    PROVE  Good
<1>1. /\ pc' = "report" /\ len' = length /\ error' = err /\ UNCHANGED <<text, array>>
      BY DEF Fail
<1>2. EndOfLast' = EndOfLast
      BY <1>1 DEF EndOfLast, End, array
<1>3. NumbersOK'
      BY <1>1, Facts DEF NumbersOK
<1>4. PositionOK' /\ ProgressOK'
  <2>1. pc' # "space" /\ pc' \notin Handling
        BY <1>1 DEF Handling, Scanning, Comment
  <2>2. EndOfLast \in Nat /\ Len(text) \in Nat /\ Len(text') = Len(text)
        BY <1>1, Facts
  <2>3. /\ index' <= Len(text') /\ index' <= Len(text') + 1
        /\ save_index' <= index' /\ EndOfLast' <= save_index' /\ EndOfLast' <= index'
        BY <1>2, <2>2
  <2>4. pc' \notin Scanning
        BY <2>1 DEF Handling
  <2>5. PositionOK'
        BY <2>1, <2>3, <2>4 DEF PositionOK
  <2>6. pc' # "digits" /\ pc' # "line_comment"
        BY <1>1
  <2> QED BY <2>1, <2>5, <2>6 DEF ProgressOK
<1>5. Consumes
      BY <1>1 DEF Consumes
<1>6. pc \notin Terminal \cup {"eot"} /\ pc' \in Phases \ (Terminal \cup {"eot"})
      BY <1>1 DEF Scanning, Terminal, Phases
<1> QED BY <1>1, <1>3, <1>4, <1>5, <1>6, Moved

(* A handler that has collected its characters.                            *)
LEMMA Finished ==
    ASSUME IInv, NEW loopName \in Scanning, NEW S, ScanEnds(loopName, S), save_index < index,
           NEW type \in TknType, type \notin {"Terminator", "EOT"}, NEW limit,
           NEW err \in LexErr, Finish(type, limit, err)
    PROVE  Good
<1>1. pc = loopName /\ UNCHANGED <<text, begin_tkn_line, saved, loop>>
      BY DEF ScanEnds
<1>2. /\ index <= Len(text) /\ EndOfLast <= save_index
      /\ len <= index /\ save_index <= index - len /\ NumbersOK
      BY <1>1, Facts DEF PositionOK, Handling
<1>3. CASE FailAtStart(err, len)
  <2>1. Fail(err, len) /\ index' = save_index /\ line' = save_line
        BY <1>3 DEF FailAtStart, lex_restore_state_for_err
  <2>2. save_index' = save_index /\ save_line' = save_line
        BY <1>1 DEF saved
  <2> QED BY <1>1, <1>2, <2>1, <2>2, Failed, Facts DEF NumbersOK, PositionOK
<1>4. CASE /\ lex_add_token(type, index - len, len, "director")
           /\ UNCHANGED <<line, error>>
  <2>1. index - len \in Nat /\ (index - len) + len = index
        BY <1>2 DEF NumbersOK
  <2>2. index' = index /\ len' = len
        BY <1>4, <2>1 DEF lex_add_token
  <2>3. NumbersOK'
        BY <1>1, <1>2, <1>4, <2>2 DEF NumbersOK, saved
  <2>4. /\ EndOfLast <= index - len
        /\ (index - len) + len <= Len(text) + 1
        /\ save_index' < (index - len) + len /\ save_index' <= (index - len) + len
        BY <1>1, <1>2, <2>1, Facts DEF NumbersOK, saved
  <2>5. pc \notin Terminal \cup {"eot"} /\ text' = text /\ len \in Nat
        BY <1>1, <1>2 DEF Scanning, Terminal, NumbersOK
  <2> QED BY <1>4, <2>1, <2>3, <2>4, <2>5, Emitted
<1> QED BY <1>3, <1>4 DEF Finish

-----------------------------------------------------------------------------
(* The steps, by handler.                                                  *)

(* A handler that finds a character i places ahead has i + 1 characters    *)
(* left.                                                                   *)
LEMMA Ahead ==
    ASSUME IInv, NEW i \in Nat, At(index + i) # NUL
    PROVE  index + i + 1 <= Len(text)
<1>1. index \in Nat /\ index + i \in Nat /\ Len(text) \in Nat
      BY Facts DEF NumbersOK
<1>2. index + i < Len(text)
      BY <1>1, AtInside
<1> QED BY <1>1, <1>2

LEMMA DirectorStep == ASSUME IInv, lex_director PROVE Good
<1>1. /\ pc = "director" /\ pc' = "space" /\ len' = 0 /\ begin_tkn_line' = line
      /\ UNCHANGED <<text, index, line, saved, array, error, loop>>
      BY DEF lex_director
<1>2. EndOfLast' = EndOfLast
      BY <1>1 DEF EndOfLast, End, array
<1>3. NumbersOK' /\ PositionOK' /\ ProgressOK' /\ Consumes
      BY <1>1, <1>2, Facts
      DEF NumbersOK, PositionOK, ProgressOK, Consumes, saved, Handling, Scanning, Comment
<1> QED BY <1>1, <1>3, Moved DEF Terminal, Phases

LEMMA BlankStep == ASSUME IInv, lex_skip_blank PROVE Good
<1>1. /\ pc = "space" /\ pc' = "space" /\ index' = index + 1
      /\ UNCHANGED <<text, len, line, begin_tkn_line, saved, array, error, loop>>
      /\ index < Len(text)
      BY NoNulInSets, AtInside, Facts DEF lex_skip_blank, lex_current, NumbersOK
<1>2. EndOfLast' = EndOfLast
      BY <1>1 DEF EndOfLast, End, array
<1>3. NumbersOK' /\ PositionOK' /\ ProgressOK' /\ Consumes
      BY <1>1, <1>2, Facts
      DEF NumbersOK, PositionOK, ProgressOK, Consumes, saved, Handling, Scanning, Comment
<1> QED BY <1>1, <1>3, Moved DEF Terminal, Phases

LEMMA NewlineStep == ASSUME IInv, lex_skip_newline PROVE Good
<1>1. /\ pc = "space" /\ index < Len(text)
      /\ UNCHANGED <<text, begin_tkn_line, saved, error, loop>>
      BY NoNulInSets, AtInside, Facts DEF lex_skip_newline, lex_current, NumbersOK
<1>2. CASE /\ prev # "Terminator"
           /\ lex_add_token("Terminator", index, len, "space")
           /\ line' = line + 1
  <2>1. len = 0 /\ len \in Nat /\ index \in Nat
        BY <1>1, Facts DEF PositionOK, NumbersOK
  <2>2. index' = index /\ len' = len
        BY <1>2, <2>1 DEF lex_add_token
  <2>3. NumbersOK'
        BY <1>1, <1>2, <2>1, <2>2, Facts DEF NumbersOK, saved
  <2>4. /\ EndOfLast <= index /\ index + len <= Len(text) + 1 /\ save_index' <= index + len
        BY <1>1, <2>1, Facts DEF PositionOK, NumbersOK, saved
  <2>5. "Terminator" \in TknType /\ pc \notin Terminal \cup {"eot"} /\ text' = text
        BY <1>1, LiteralTypes DEF Terminal
  <2> QED BY <1>2, <2>1, <2>3, <2>4, <2>5, Emitted
<1>3. CASE /\ prev = "Terminator"
           /\ index' = index + 1
           /\ line' = line + Newlines(index) + 1
           /\ len' = len
           /\ pc' = "space"
           /\ UNCHANGED array
  <2>1. EndOfLast' = EndOfLast
        BY <1>1, <1>3 DEF EndOfLast, End, array
  <2>2. Newlines(index) \in Nat
        BY Facts DEF NumbersOK
  <2>3. NumbersOK /\ PositionOK /\ EndOfLast \in Nat /\ Len(text) \in Nat
        BY Facts
  <2>4. NumbersOK'
        BY <1>1, <1>3, <2>2, <2>3 DEF NumbersOK, saved
  <2>5. PositionOK'
    <3>1. /\ index \in Nat /\ save_index \in Nat /\ len = 0
          /\ index + 1 <= Len(text) + 1 /\ save_index <= index /\ EndOfLast <= index
          BY <1>1, <2>3 DEF NumbersOK, PositionOK
    <3>2. /\ pc' = "space" /\ text' = text /\ index' = index + 1 /\ len' = len
          /\ save_index' = save_index
          BY <1>1, <1>3 DEF saved
    <3> QED BY <2>1, <2>3, <3>1, <3>2 DEF PositionOK, Handling, Scanning, Comment
  <2>6. ProgressOK' /\ Consumes
        BY <1>1, <1>3 DEF ProgressOK, Consumes, Handling, Scanning, Comment
  <2> QED BY <1>1, <1>3, <2>4, <2>5, <2>6, Moved DEF Terminal, Phases
<1> QED BY <1>2, <1>3 DEF lex_skip_newline, lex_add_terminator

(* What a token handed over by a handler in one step needs.                *)
LEMMA HandedOver ==
    ASSUME IInv, NEW S, Starts(S), error' = error, loop' = loop,
           line' \in Nat \ {0},
           NEW type \in TknType, type # "EOT",
           NEW k \in Nat, NEW length \in Nat \ {0}, index + k + length <= Len(text),
           lex_add_token(type, index + k, length, "director")
    PROVE  Good
<1>1. /\ pc = "space" /\ save_index' = index /\ save_line' = line
      /\ UNCHANGED <<text, begin_tkn_line>>
      BY DEF Starts
<1>2. index \in Nat /\ EndOfLast \in Nat /\ EndOfLast <= index /\ Len(text) \in Nat
      BY Facts DEF PositionOK, NumbersOK
<1>3. /\ index' = index + k + length /\ len' = length
      BY DEF lex_add_token
<1>4. NumbersOK'
      BY <1>1, <1>2, <1>3, Facts DEF NumbersOK
<1>5. /\ index + k \in Nat /\ EndOfLast <= index + k
      /\ (index + k) + length <= Len(text) + 1
      /\ save_index' <= (index + k) + length /\ save_index' < (index + k) + length
      BY <1>1, <1>2
<1>6. pc \notin Terminal \cup {"eot"} /\ length \in Nat
      BY <1>1 DEF Terminal
<1> QED BY <1>1, <1>4, <1>5, <1>6, Emitted

LEMMA IdentifiersStep == ASSUME IInv, identifiers_step PROVE Good
<1>1. CASE lex_identifiers
  <2>1. Starts(IdStart) /\ Enter(1, 1, "identifiers") /\ loop' = loop
        BY <1>1 DEF lex_identifiers
  <2>2. index + 1 <= Len(text) /\ loop' \in Nat
        BY <2>1, NoNulInSets, AtInside, Facts DEF Starts, lex_current, NumbersOK
  <2> QED BY <2>1, <2>2, Entered DEF Handling, Scanning
<1>2. CASE identifiers_loop
      BY <1>2, NoNulInSets, Took DEF identifiers_loop, Scanning
<1>3. CASE identifiers_end
  <2> DEFINE type == WordType(SubSeq(text, index - len + 1, index))
  <2>1. /\ ScanEnds("identifiers", IdChar)
        /\ Finish(type, MaxIdentifierLength, "TOO_LONG_IDENTIFIER")
        BY <1>3 DEF identifiers_end
  <2>2. save_index < index
        BY <2>1, Facts DEF ScanEnds, ProgressOK, Handling, Scanning
  <2>3. type \in TknType /\ type \notin {"Terminator", "EOT"}
        BY WordTypes
  <2> HIDE DEF type
  <2>4. "TOO_LONG_IDENTIFIER" \in LexErr /\ "identifiers" \in Scanning
        BY DEF LexErr, Scanning
  <2> QED BY <2>1, <2>2, <2>3, <2>4, Finished
<1> QED BY <1>1, <1>2, <1>3 DEF identifiers_step

LEMMA NumbersStep == ASSUME IInv, numbers_step PROVE Good
<1>1. CASE lex_numbers
  <2>1. Starts(Digit) /\ loop' = loop /\ loop' \in Nat /\ lex_current \in Digit
        BY <1>1, Facts DEF lex_numbers, Starts, NumbersOK
  <2>2. index \in Nat /\ index < Len(text) /\ Len(text) \in Nat
        BY <2>1, NoNulInSets, AtInside, Facts DEF lex_current, NumbersOK
  <2>3. lex_peek \in {"x", "b"} => index + 2 <= Len(text)
    <3>1. lex_peek \in {"x", "b"} => index + 1 < Len(text)
          BY <2>2, AtInside DEF lex_peek, NUL
    <3> QED BY <2>2, <3>1
  <2>4. {"hex", "binary", "digits"} \subseteq Handling
        BY DEF Handling, Scanning
  <2>5. CASE lex_peek = "x" /\ Enter(2, 2, "hex")
        BY <2>1, <2>3, <2>4, <2>5, Entered
  <2>6. CASE lex_peek = "b" /\ Enter(2, 2, "binary")
        BY <2>1, <2>3, <2>4, <2>6, Entered
  <2>7. CASE Enter(0, 0, "digits")
        BY <2>1, <2>2, <2>4, <2>7, Entered
  <2> QED BY <1>1, <2>5, <2>6, <2>7 DEF lex_numbers
<1>2. CASE digits_loop \/ fraction_loop \/ hex_loop \/ binary_loop
      BY <1>2, NoNulInSets, Took DEF digits_loop, fraction_loop, hex_loop, binary_loop, Scanning
<1>3. CASE digits_dot
  <2>1. /\ pc = "digits" /\ pc' = "fraction" /\ index' = index + 1 /\ len' = len + 1
        /\ UNCHANGED <<text, begin_tkn_line, saved, loop, line, array, error>>
        /\ lex_current = "."
        BY <1>3 DEF digits_dot, ScanEnds, Enter
  <2>2. index < Len(text)
        BY <2>1, NoNulInSets, AtInside, Facts DEF lex_current, NumbersOK
  <2>3. EndOfLast' = EndOfLast
        BY <2>1 DEF EndOfLast, End, array
  <2>4. /\ EndOfLast <= save_index /\ len <= index /\ save_index <= index - len
        BY <2>1, Facts DEF PositionOK, Handling, Scanning
  <2>5. NumbersOK'
        BY <2>1, Facts DEF NumbersOK, saved
  <2>6. PositionOK'
    <3>1. /\ index \in Nat /\ len \in Nat /\ save_index \in Nat
          /\ EndOfLast \in Nat /\ Len(text) \in Nat
          BY Facts DEF NumbersOK
    <3>2. save_index' = save_index /\ text' = text /\ pc' # "space"
          BY <2>1 DEF saved
    <3> QED BY <2>1, <2>2, <2>3, <2>4, <3>1, <3>2 DEF PositionOK
  <2>7. ProgressOK' /\ Consumes
        BY <2>1, <2>4, Facts DEF ProgressOK, Consumes, PositionOK, NumbersOK, saved
  <2> QED BY <2>1, <2>5, <2>6, <2>7, Moved DEF Terminal, Phases
<1>4. ASSUME NEW loopName \in {"digits", "fraction", "hex", "binary"}, NEW S,
             ScanEnds(loopName, S), loopName = "digits" => S = Digit,
             NEW type \in {"IntegerLiteral", "FloatLiteral"}, NEW limit,
             Finish(type, limit, error)
      PROVE  Good
  <2>1. loopName \in Scanning
        BY DEF Scanning
  <2>2. save_index < index
        BY <1>4, <2>1, Facts DEF ScanEnds, ProgressOK, Handling
  <2>3. type \in TknType /\ type \notin {"Terminator", "EOT"}
        BY LiteralTypes
  <2>4. error \in LexErr
        BY Facts DEF NumbersOK
  <2> QED BY <1>4, <2>1, <2>2, <2>3, <2>4, Finished
<1>5. CASE digits_end
      BY <1>4, <1>5 DEF digits_end
<1>6. CASE fraction_end
      BY <1>4, <1>6 DEF fraction_end
<1>7. CASE hex_end
      BY <1>4, <1>7 DEF hex_end
<1>8. CASE binary_end
      BY <1>4, <1>8 DEF binary_end
<1> QED BY <1>1, <1>2, <1>3, <1>5, <1>6, <1>7, <1>8 DEF numbers_step

LEMMA CharsStep == ASSUME IInv, lex_chars PROVE Good
<1>1. /\ Starts({Tick}) /\ loop' = loop /\ pc = "space"
      /\ save_index' = index /\ save_line' = line /\ UNCHANGED <<text, begin_tkn_line>>
      BY DEF lex_chars, Starts
<1>2. index \in Nat /\ line \in Nat \ {0} /\ EndOfLast <= index /\ Len(text) \in Nat
      /\ EndOfLast \in Nat /\ error \in LexErr
      BY Facts DEF NumbersOK, PositionOK
<1>3. index + 1 <= Len(text)
      BY <1>1, <1>2, NoNulInSets, AtInside DEF Starts, lex_current
<1>4. ASSUME NEW length \in {3, 4}, At(index + length - 1) = Tick,
             lex_add_token("CharLiteral", index, length, "director"),
             line' = line + Newlines(index + 1), error' = error
      PROVE  Good
  <2>1. At(index + (length - 1)) # NUL /\ length - 1 \in Nat
    <3>1. length - 1 \in Nat /\ index + length - 1 = index + (length - 1)
          BY <1>2, <1>4
    <3> QED BY <1>4, <3>1, NoNulInSets
  <2>2. index + 0 + length <= Len(text) /\ index + 0 = index
    <3>1. index + (length - 1) + 1 <= Len(text)
          BY <2>1, Ahead
    <3> QED BY <1>2, <1>4, <3>1
  <2>3. line' \in Nat \ {0}
        BY <1>2, <1>4, Facts
  <2>4. /\ "CharLiteral" \in TknType /\ "CharLiteral" # "EOT" /\ "CharLiteral" # "Terminator"
        /\ length \in Nat \ {0}
        BY LiteralTypes
  <2>5. lex_add_token("CharLiteral", index + 0, length, "director")
        BY <1>4, <2>2
  <2> QED BY <1>1, <1>4, <2>2, <2>3, <2>4, <2>5, HandedOver
<1>5. ASSUME NEW err \in LexErr, NEW length \in Nat, Fail(err, length),
             index' \in {index, index + 1}, line' = line
      PROVE  Good
  <2>1. /\ index' \in Nat /\ save_index' <= index' /\ index' <= Len(text)
        /\ EndOfLast <= save_index'
        BY <1>1, <1>2, <1>3, <1>5
  <2>2. save_index' \in Nat /\ save_line' \in Nat \ {0} /\ line' \in Nat \ {0}
        BY <1>1, <1>2, <1>5
  <2> QED BY <1>1, <1>5, <2>1, <2>2, Failed
<1>6. \/ /\ At(index + 2) = Tick /\ lex_add_token("CharLiteral", index, 3, "director")
         /\ line' = line + Newlines(index + 1) /\ error' = error
      \/ /\ At(index + 3) = Tick /\ lex_add_token("CharLiteral", index, 4, "director")
         /\ line' = line + Newlines(index + 1) /\ error' = error
      \/ Fail(error, 1) /\ index' = index + 1 /\ line' = line
      \/ Fail("NOT_VALID_ESCAPE_CHAR", 2) /\ index' = index /\ line' = line
      \/ Fail("LEXER_INVALID_CHAR", 3) /\ index' = index /\ line' = line
      BY DEF lex_chars
<1>7. index + 3 - 1 = index + 2 /\ index + 4 - 1 = index + 3
      BY <1>2
<1>8. "NOT_VALID_ESCAPE_CHAR" \in LexErr /\ "LEXER_INVALID_CHAR" \in LexErr
      BY DEF LexErr
<1>9. CASE /\ At(index + 2) = Tick /\ lex_add_token("CharLiteral", index, 3, "director")
           /\ line' = line + Newlines(index + 1) /\ error' = error
      BY <1>4, <1>7, <1>9
<1>10. CASE /\ At(index + 3) = Tick /\ lex_add_token("CharLiteral", index, 4, "director")
            /\ line' = line + Newlines(index + 1) /\ error' = error
      BY <1>4, <1>7, <1>10
<1> QED BY <1>2, <1>5, <1>6, <1>8, <1>9, <1>10

LEMMA LiteralsStep == ASSUME IInv, literals_step PROVE Good
<1>1. CASE lex_strings
  <2>1. Starts({Quote}) /\ Enter(1, 1, "strings") /\ loop' = loop
        BY <1>1 DEF lex_strings
  <2>2. index + 1 <= Len(text) /\ loop' \in Nat
        BY <2>1, NoNulInSets, AtInside, Facts DEF Starts, lex_current, NumbersOK
  <2> QED BY <2>1, <2>2, Entered DEF Handling, Scanning
<1>2. CASE strings_loop
  <2>1. TakeWhile("strings", {lex_current}) /\ NUL \notin {lex_current}
        BY <1>2 DEF strings_loop, TakeWhile
  <2> QED BY <2>1, Took DEF Scanning
<1>3. ASSUME pc = "strings", NEW err \in LexErr, NEW length \in Nat, FailAtStart(err, length),
             UNCHANGED <<text, begin_tkn_line, saved, loop>>
      PROVE  Good
  <2>1. /\ Fail(err, length) /\ index' = save_index /\ line' = save_line
        /\ save_index' = save_index /\ save_line' = save_line
        BY <1>3 DEF FailAtStart, lex_restore_state_for_err, saved
  <2>2. /\ save_index \in Nat /\ save_line \in Nat \ {0} /\ index \in Nat /\ Len(text) \in Nat
        /\ index <= Len(text) /\ EndOfLast <= save_index /\ save_index <= index
        BY <1>3, Facts DEF PositionOK, NumbersOK, Handling, Scanning
  <2>3. save_index' <= index' /\ index' <= Len(text) /\ EndOfLast <= save_index'
        BY <2>1, <2>2
  <2> QED BY <1>3, <2>1, <2>2, <2>3, Failed DEF Scanning
<1>4. CASE strings_open
      BY <1>3, <1>4, Facts DEF strings_open, LexErr, NumbersOK
<1>5. CASE strings_close
  <2>1. /\ pc = "strings" /\ UNCHANGED <<text, begin_tkn_line, saved, loop>>
        /\ lex_current = Quote
        BY <1>5 DEF strings_close, ClosingQuote
  <2>2. CASE FailAtStart("TOO_LONG_STRING", len + 1)
        BY <1>3, <2>1, <2>2, Facts DEF LexErr, NumbersOK
  <2>3. CASE /\ lex_add_token("StringLiteral", index - len, len + 1, "director")
             /\ UNCHANGED <<line, error>>
    <3>1. /\ index \in Nat /\ len \in Nat /\ save_index \in Nat /\ Len(text) \in Nat
          /\ EndOfLast \in Nat /\ len <= index /\ save_index <= index - len
          /\ EndOfLast <= save_index
          BY <2>1, Facts DEF PositionOK, NumbersOK, Handling, Scanning
    <3>2. index + 1 <= Len(text)
          BY <2>1, <3>1, NoNulInSets, AtInside DEF lex_current
    <3>3. /\ index - len \in Nat /\ len + 1 \in Nat
          /\ (index - len) + (len + 1) = index + 1
          /\ EndOfLast <= index - len /\ index + 1 <= Len(text) + 1
          BY <3>1, <3>2
    <3>4. save_index' <= index + 1 /\ save_index' < index + 1
          BY <2>1, <3>1 DEF saved
    <3>5. index' = index + 1 /\ len' = len + 1
          BY <2>3, <3>3 DEF lex_add_token
    <3>6. NumbersOK'
          BY <2>1, <2>3, <3>1, <3>5, Facts DEF NumbersOK, saved
    <3>7. "StringLiteral" \in TknType /\ pc \notin Terminal \cup {"eot"} /\ text' = text
          BY <2>1, LiteralTypes DEF Terminal
    <3> QED BY <2>3, <3>3, <3>4, <3>6, <3>7, Emitted
  <2> QED BY <1>5, <2>2, <2>3 DEF strings_close
<1>6. CASE lex_chars
      BY <1>6, CharsStep
<1>7. CASE lex_builtin_funcs
  <2>1. Starts({"@"}) /\ Enter(1, 0, "builtin") /\ loop' = loop
        BY <1>7 DEF lex_builtin_funcs
  <2>2. index + 1 <= Len(text) /\ loop' \in Nat
        BY <2>1, NoNulInSets, AtInside, Facts DEF Starts, lex_current, NumbersOK
  <2> QED BY <2>1, <2>2, Entered DEF Handling, Scanning
<1>8. CASE builtin_loop
      BY <1>8, NoNulInSets, Took DEF builtin_loop, Scanning
<1>9. CASE builtin_end
  <2>1. /\ ScanEnds("builtin", Alpha)
        /\ lex_add_token("BuiltinId", index - len, len, "director")
        /\ UNCHANGED <<line, error>>
        BY <1>9 DEF builtin_end
  <2>2. len <= len /\ error \in LexErr
        BY Facts DEF NumbersOK
  <2>3. Finish("BuiltinId", len, error)
        BY <2>1, <2>2 DEF Finish
  <2>4. save_index < index /\ "builtin" \in Scanning
        BY <2>1, Facts DEF ScanEnds, ProgressOK, Handling, Scanning
  <2>5. "BuiltinId" \in TknType /\ "BuiltinId" \notin {"Terminator", "EOT"}
        BY LiteralTypes
  <2> QED BY <2>1, <2>2, <2>3, <2>4, <2>5, Finished
<1> QED BY <1>1, <1>2, <1>4, <1>5, <1>6, <1>7, <1>8, <1>9 DEF literals_step

LEMMA SymbolsStep == ASSUME IInv, symbols_step PROVE Good
<1>1. ASSUME NEW S, Starts(S), NUL \notin S, UNCHANGED <<line, error, loop>>,
             NEW type \in TknType, type \notin {"Terminator", "EOT"},
             NEW k \in {0, 1}, NEW length \in {1, 2}, At(index + (k + length - 1)) # NUL,
             lex_add_token(type, index + k, length, "director")
      PROVE  Good
  <2>1. index \in Nat /\ line \in Nat \ {0} /\ Len(text) \in Nat
        BY Facts DEF NumbersOK
  <2>2. k + length - 1 \in Nat /\ k \in Nat /\ length \in Nat \ {0}
        OBVIOUS
  <2>3. index + (k + length - 1) + 1 <= Len(text)
        BY <1>1, <2>2, Ahead
  <2>4. index + k + length <= Len(text)
        BY <2>1, <2>2, <2>3
  <2>5. line' \in Nat \ {0} /\ error' = error /\ loop' = loop
        BY <1>1, <2>1
  <2> QED BY <1>1, <2>2, <2>4, <2>5, HandedOver
<1>2. index \in Nat /\ index + 0 = index
      BY Facts DEF NumbersOK
<1>3. CASE lex_long_symbol
  <2>1. /\ Starts(SymbolChar) /\ UNCHANGED <<line, error, loop>>
        BY <1>3 DEF lex_long_symbol
  <2>2. PICK row \in TwoCharSymbols :
           lex_peek = row[2] /\ lex_add_token(row[3], index, 2, "director")
        BY <1>3 DEF lex_long_symbol
  <2>3. At(index + (0 + 2 - 1)) # NUL
    <3>1. row[2] # NUL
          BY DEF TwoCharSymbols, NUL
    <3> QED BY <2>2, <3>1, <1>2 DEF lex_peek
  <2>4. row[3] \in TknType /\ row[3] \notin {"Terminator", "EOT"}
        BY SymbolTypes
  <2>5. lex_add_token(row[3], index + 0, 2, "director")
        BY <2>2, <1>2
  <2> QED BY <2>1, <2>3, <2>4, <2>5, <1>1, NoNulInSymbols
<1>4. CASE lex_short_symbol
  <2>1. Starts(SymbolChar) /\ UNCHANGED <<line, error, loop>>
        BY <1>4 DEF lex_short_symbol
  <2>2. PICK row \in OneCharSymbols : lex_add_token(row[2], index, 1, "director")
        BY <1>4 DEF lex_short_symbol
  <2>3. At(index + (0 + 1 - 1)) # NUL
        BY <2>1, <1>2, NoNulInSymbols DEF Starts, lex_current
  <2>4. row[2] \in TknType /\ row[2] \notin {"Terminator", "EOT"}
        BY SymbolTypes
  <2>5. lex_add_token(row[2], index + 0, 1, "director")
        BY <2>2, <1>2
  <2> QED BY <2>1, <2>3, <2>4, <2>5, <1>1, NoNulInSymbols
<1>5. CASE lex_dotdot
  <2>1. /\ Starts({"."}) /\ UNCHANGED <<line, error, loop>> /\ lex_peek = "."
        /\ lex_add_token("DotDot", index + 1, 1, "director")
        BY <1>5 DEF lex_dotdot
  <2>2. At(index + (1 + 1 - 1)) # NUL
        BY <2>1, <1>2, NoNulInSets DEF lex_peek
  <2>3. "DotDot" \in TknType /\ "DotDot" \notin {"Terminator", "EOT"}
        BY LiteralTypes
  <2> QED BY <2>1, <2>2, <2>3, <1>1, NoNulInSets
<1>6. CASE lex_semicolon
  <2>1. /\ Starts({Semicolon}) /\ UNCHANGED <<error, loop>> /\ pc = "space"
        /\ save_index' = index /\ save_line' = line /\ UNCHANGED <<text, begin_tkn_line>>
        BY <1>6 DEF lex_semicolon, Starts
  <2>2. /\ index \in Nat /\ line \in Nat \ {0} /\ Len(text) \in Nat /\ EndOfLast \in Nat
        /\ EndOfLast <= index
        BY Facts DEF NumbersOK, PositionOK
  <2>3. index + 1 <= Len(text)
        BY <2>1, <2>2, NoNulInSets, AtInside DEF Starts, lex_current
  <2>4. CASE /\ prev # "Terminator"
             /\ lex_add_token("Terminator", index, 1, "director")
             /\ line' = line + 0
    <3>1. index + 0 + 1 <= Len(text) /\ line' \in Nat \ {0}
          BY <2>2, <2>3, <2>4
    <3>2. lex_add_token("Terminator", index + 0, 1, "director")
          BY <2>4, <1>2
    <3>3. "Terminator" \in TknType /\ "Terminator" # "EOT" /\ 0 \in Nat /\ 1 \in Nat \ {0}
          BY LiteralTypes
    <3>4. error' = error /\ loop' = loop
          BY <2>1
    <3> QED BY <2>1, <2>4, <3>1, <3>2, <3>3, <3>4, HandedOver
  <2>5. CASE /\ index' = index + 1
             /\ line' = line + Newlines(index) + 0
             /\ len' = 1
             /\ pc' = "director"
             /\ UNCHANGED array
    <3>1. EndOfLast' = EndOfLast
          BY <2>1, <2>5 DEF EndOfLast, End, array
    <3>2. NumbersOK'
          BY <2>1, <2>2, <2>5, Facts DEF NumbersOK
    <3>3. PositionOK' /\ ProgressOK' /\ Consumes
          BY <2>1, <2>2, <2>3, <2>5, <3>1, Facts
          DEF NumbersOK, PositionOK, ProgressOK, Consumes, Handling, Scanning, Comment
    <3> QED BY <2>1, <2>5, <3>2, <3>3, Moved DEF Terminal, Phases
  <2> QED BY <1>6, <2>4, <2>5 DEF lex_semicolon, lex_add_terminator
<1>7. CASE lex_invalid_char
  <2>1. /\ pc = "space" /\ lex_current # NUL
        /\ save_index' = index /\ save_line' = line /\ UNCHANGED <<text, begin_tkn_line>>
        /\ UNCHANGED <<index, line, loop>> /\ Fail("LEXER_INVALID_CHAR", 1)
        BY <1>7 DEF lex_invalid_char, Starts
  <2>2. /\ index \in Nat /\ line \in Nat \ {0} /\ EndOfLast <= index /\ Len(text) \in Nat
        BY Facts DEF NumbersOK, PositionOK
  <2>3. index < Len(text)
        BY <2>1, <2>2, AtInside DEF lex_current
  <2>4. "LEXER_INVALID_CHAR" \in LexErr
        BY DEF LexErr
  <2>5. /\ save_index' <= index' /\ index' <= Len(text) /\ EndOfLast <= save_index'
        /\ index' \in Nat /\ line' \in Nat \ {0}
        /\ save_index' \in Nat /\ save_line' \in Nat \ {0}
        BY <2>1, <2>2, <2>3
  <2> QED BY <2>1, <2>4, <2>5, Failed
<1> QED BY <1>3, <1>4, <1>5, <1>6, <1>7 DEF symbols_step

(* A turn of the loop of a comment, and its end.                           *)
LEMMA CommentMoved ==
    ASSUME IInv, pc \in Comment, pc' = pc, NEW k \in {1, 2}, index' = index + k,
           index + k <= Len(text), line' \in {line, line + Newlines(index)}, loop' \in Nat,
           UNCHANGED <<text, len, begin_tkn_line, saved, array, error>>
    PROVE  Good
<1>1. /\ index \in Nat /\ line \in Nat \ {0} /\ Len(text) \in Nat /\ EndOfLast \in Nat
      /\ EndOfLast <= save_index /\ save_index <= index /\ save_index \in Nat
      BY Facts DEF NumbersOK, PositionOK, Handling
<1>2. NumbersOK'
      BY <1>1, Facts DEF NumbersOK, saved
<1>3. EndOfLast' = EndOfLast
      BY DEF EndOfLast, End, array
<1>4. /\ index' <= Len(text') /\ index' <= Len(text') + 1 /\ save_index' < index'
      /\ save_index' <= index' /\ EndOfLast' <= save_index' /\ EndOfLast' <= index'
      BY <1>1, <1>3 DEF saved
<1>5. pc' \notin Scanning /\ pc' # "space" /\ pc' # "digits"
      BY DEF Comment, Scanning
<1>6. PositionOK' /\ ProgressOK'
      BY <1>4, <1>5 DEF PositionOK, ProgressOK
<1>7. Consumes
      BY DEF Consumes, Comment
<1>8. pc \notin Terminal \cup {"eot"} /\ pc' \in Phases \ (Terminal \cup {"eot"})
      BY DEF Comment, Terminal, Phases
<1> QED BY <1>2, <1>6, <1>7, <1>8, Moved

LEMMA CommentLeft ==
    ASSUME IInv, pc \in Comment, pc' = "director", NEW k \in {0, 1}, index' = index + k,
           index <= Len(text), save_index < index + k,
           line' \in {line, line + Newlines(index)},
           UNCHANGED <<text, len, begin_tkn_line, saved, array, error, loop>>
    PROVE  Good
<1>1. /\ index \in Nat /\ line \in Nat \ {0} /\ Len(text) \in Nat /\ EndOfLast \in Nat
      /\ EndOfLast <= save_index /\ save_index <= index /\ save_index \in Nat
      BY Facts DEF NumbersOK, PositionOK, Handling
<1>2. NumbersOK'
      BY <1>1, Facts DEF NumbersOK, saved
<1>3. EndOfLast' = EndOfLast
      BY DEF EndOfLast, End, array
<1>4. /\ index' <= Len(text') + 1 /\ save_index' < index'
      /\ save_index' <= index' /\ EndOfLast' <= index'
      BY <1>1, <1>3 DEF saved
<1>5. pc' \notin Handling \cup {"report"} /\ pc' \notin Scanning /\ pc' # "space"
      BY DEF Comment, Scanning, Handling
<1>6. PositionOK' /\ ProgressOK'
      BY <1>4, <1>5 DEF PositionOK, ProgressOK
<1>7. Consumes
      BY <1>4 DEF Consumes
<1>8. pc \notin Terminal \cup {"eot"} /\ pc' \in Phases \ (Terminal \cup {"eot"})
      BY DEF Comment, Terminal, Phases
<1> QED BY <1>2, <1>6, <1>7, <1>8, Moved

LEMMA CommentsStep == ASSUME IInv, comments_step PROVE Good
<1>1. /\ index \in Nat /\ line \in Nat \ {0} /\ Len(text) \in Nat /\ loop \in Nat
      /\ save_index \in Nat /\ save_index <= index
      BY Facts DEF NumbersOK, PositionOK
<1>2. CASE lex_line_comment
  <2>1. /\ Starts({"/"}) /\ Enter(0, 1, "line_comment") /\ loop' = loop
        BY <1>2 DEF lex_line_comment
  <2>2. lex_current = "/"
        BY <2>1 DEF Starts
  <2>3. lex_current # NUL /\ lex_current # Newline
        BY <2>2 DEF NUL, Newline
  <2>4. index < Len(text)
        BY <2>3, <1>1, AtInside DEF lex_current
  <2>5. InComment /\ index + 0 <= Len(text) /\ loop' \in Nat
        BY <2>1, <2>3, <2>4, <1>1 DEF InComment, lex_is_not_eof
  <2>6. "line_comment" \in Handling /\ "line_comment" \notin Scanning
        BY DEF Handling, Comment, Scanning
  <2> QED BY <2>1, <2>5, <2>6, Entered
<1>3. CASE lex_hash_comment
  <2>1. Starts({"#"}) /\ Enter(0, 1, "hash_comment") /\ loop' = loop
        BY <1>3 DEF lex_hash_comment
  <2>2. index + 0 <= Len(text) /\ loop' \in Nat
        BY <2>1, <1>1, NoNulInSets, AtInside DEF Starts, lex_current
  <2>3. "hash_comment" \in Handling /\ "hash_comment" \notin Scanning
        BY DEF Handling, Comment, Scanning
  <2> QED BY <2>1, <2>2, <2>3, Entered
<1>4. CASE comment_loop
  <2>1. /\ pc \in Comment /\ pc' = pc /\ index' = index + 1 /\ index + 1 <= Len(text)
        /\ line' = line + Newlines(index) /\ loop' \in Nat
        /\ UNCHANGED <<text, len, begin_tkn_line, saved, array, error>>
        BY <1>1, <1>4 DEF comment_loop, InComment, lex_is_not_eof, lex_advance, Comment
  <2> QED BY <2>1, CommentMoved
<1>5. CASE line_comment_end
  <2>1. /\ pc = "line_comment" /\ ~InComment /\ pc' = "director"
        /\ UNCHANGED <<text, index, len, line, begin_tkn_line, saved, array, error, loop>>
        BY <1>5 DEF line_comment_end
  <2>2. index' = index + 0 /\ line' = line /\ save_index < index + 0 /\ index <= Len(text)
        BY <1>1, <2>1, Facts DEF ProgressOK, PositionOK, Handling, Comment
  <2> QED BY <2>1, <2>2, CommentLeft DEF Comment
<1>6. CASE hash_comment_end
  <2>1. /\ pc = "hash_comment" /\ pc' = "director" /\ index' = index + 1
        /\ line' = line + Newlines(index)
        /\ UNCHANGED <<text, len, begin_tkn_line, saved, array, error, loop>>
        BY <1>6 DEF hash_comment_end, lex_advance
  <2>2. save_index < index + 1 /\ index <= Len(text)
        BY <1>1, <2>1, Facts DEF PositionOK, Handling, Comment
  <2> QED BY <2>1, <2>2, CommentLeft DEF Comment
<1>7. CASE lex_nested_comments
  <2>1. /\ Starts({"/"}) /\ lex_peek = "*" /\ Enter(2, 1, "nested") /\ loop' = 1
        BY <1>7 DEF lex_nested_comments
  <2>2. At(index + 1) # NUL
        BY <2>1 DEF lex_peek, NUL
  <2>3. index + 2 <= Len(text) /\ loop' \in Nat
        BY <1>1, <2>1, <2>2, Ahead
  <2>4. "nested" \in Handling /\ "nested" \notin Scanning
        BY DEF Handling, Comment, Scanning
  <2> QED BY <2>1, <2>3, <2>4, Entered
<1>8. ASSUME NEW first, NEW second, second # NUL, NEW depth \in Nat,
             nested_mark(first, second, depth)
      PROVE  Good
  <2>1. /\ pc = "nested" /\ pc' = pc /\ index' = index + 2 /\ loop' = depth
        /\ line' = line /\ lex_peek = second
        /\ UNCHANGED <<text, len, begin_tkn_line, saved, array, error>>
        BY <1>8 DEF nested_mark
  <2>2. index + 2 <= Len(text)
    <3>1. At(index + 1) # NUL
          BY <1>8, <2>1 DEF lex_peek
    <3> QED BY <1>1, <3>1, Ahead
  <2>3. loop' \in Nat
        BY <2>1
  <2> QED BY <2>1, <2>2, <2>3, CommentMoved DEF Comment
<1>9. CASE nested_close
  <2>1. loop - 1 \in Nat
        BY <1>1, <1>9 DEF nested_close, nested_mark, InNested
  <2>2. nested_mark("*", "/", loop - 1) /\ "/" # NUL
        BY <1>9 DEF nested_close, NUL
  <2> QED BY <2>1, <2>2, <1>8
<1>10. CASE nested_open
  <2>1. loop + 1 \in Nat
        BY <1>1
  <2>2. nested_mark("/", "*", loop + 1) /\ "*" # NUL
        BY <1>10 DEF nested_open, NUL
  <2> QED BY <2>1, <2>2, <1>8
<1>11. CASE nested_skip
  <2>1. /\ pc \in Comment /\ pc' = pc /\ index' = index + 1 /\ index + 1 <= Len(text)
        /\ line' = line + Newlines(index) /\ loop' \in Nat
        /\ UNCHANGED <<text, len, begin_tkn_line, saved, array, error>>
        BY <1>1, <1>11 DEF nested_skip, InNested, lex_is_not_eof, lex_advance, Comment
  <2> QED BY <2>1, CommentMoved
<1>12. CASE nested_end
  <2>1. /\ pc = "nested" /\ pc' = "director"
        /\ UNCHANGED <<text, index, len, line, begin_tkn_line, saved, array, error, loop>>
        BY <1>12 DEF nested_end
  <2>2. index' = index + 0 /\ line' = line /\ save_index < index + 0 /\ index <= Len(text)
        BY <1>1, <2>1, Facts DEF ProgressOK, PositionOK, Handling, Comment
  <2> QED BY <2>1, <2>2, CommentLeft DEF Comment
<1> QED BY <1>2, <1>3, <1>4, <1>5, <1>6, <1>7, <1>9, <1>10, <1>11, <1>12 DEF comments_step

-----------------------------------------------------------------------------
(* The end of a text, and the report of a failure.                         *)

LEMMA EofStep == ASSUME IInv, lex_eof PROVE Good
<1>1. /\ pc = "space" /\ pc' = "eot" /\ save_index' = index /\ save_line' = line
      /\ index' = index + 0 /\ len' = 0 /\ loop' = 0
      /\ UNCHANGED <<text, begin_tkn_line, line, array, error>>
      BY DEF lex_eof, Starts, Enter
<1>2. /\ index \in Nat /\ line \in Nat \ {0} /\ Len(text) \in Nat /\ EndOfLast \in Nat
      /\ EndOfLast <= index /\ index <= Len(text) + 1
      BY Facts DEF NumbersOK, PositionOK
<1>3. /\ tokens' = tokens /\ capacity' = capacity /\ prev' = prev
      /\ TokensOK' /\ CapacityOK' /\ EndOfLast' = EndOfLast
      BY <1>1, ArrayKept
<1>4. NumbersOK'
      BY <1>1, <1>2, Facts DEF NumbersOK
<1>5. TypeOK'
      BY <1>1, <1>3, <1>4 DEF IInv, TypeOK, NumbersOK, Phases
<1>6. MarksOK'
  <2>1. Len(tokens) \in Nat /\ \A i \in 1 .. Len(tokens) : ~EndMark(i)
        BY <1>1 DEF IInv, TypeOK, MarksOK, Terminal
  <2>2. \A i \in 1 .. Len(tokens') : EndMark(i)' <=> i > Len(tokens') - loop'
        BY <1>1, <1>3, <2>1 DEF EndMark
  <2>3. loop' <= EXTRA_NULL_TERMINATORS /\ loop' <= Len(tokens')
        BY <1>1, <1>3, <2>1 DEF EXTRA_NULL_TERMINATORS
  <2> QED BY <1>1, <2>2, <2>3 DEF MarksOK, EndMark, Terminal
<1>7. PositionOK' /\ ProgressOK'
  <2>1. /\ index' <= Len(text') + 1 /\ save_index' <= index' /\ EndOfLast' <= index'
        BY <1>1, <1>2, <1>3
  <2>2. pc' \notin Handling \cup {"report"} /\ pc' \notin Scanning /\ pc' # "space"
        BY <1>1 DEF Handling, Scanning, Comment
  <2> QED BY <1>1, <2>1, <2>2 DEF PositionOK, ProgressOK
<1>8. Consumes
      BY <1>1 DEF Consumes
<1>9. StreamStep
      BY <1>1, <1>3, StreamStutters DEF Terminal
<1> QED BY <1>3, <1>5, <1>6, <1>7, <1>8, <1>9 DEF Good, IInv

LEMMA EndMarkStep == ASSUME IInv, eot_loop PROVE Good
<1> DEFINE token == [index |-> index, length |-> 0, line |-> begin_tkn_line, type |-> "EOT"]
<1>1. /\ pc = "eot" /\ loop < EXTRA_NULL_TERMINATORS /\ loop' = loop + 1
      /\ UNCHANGED <<text, line, begin_tkn_line, saved, error>>
      /\ array_push(token, "eot") /\ index' = index + 0 /\ len' = 0
      BY DEF eot_loop, lex_add_token
<1>2. /\ index \in Nat /\ line \in Nat \ {0} /\ Len(text) \in Nat /\ EndOfLast \in Nat
      /\ EndOfLast <= index /\ index <= Len(text) + 1 /\ loop \in Nat
      /\ save_index <= index
      BY Facts DEF NumbersOK, PositionOK
<1>3. token \in Token /\ token.index = index /\ End(token) = index /\ token.type = "EOT"
      BY <1>2, Facts, LiteralTypes DEF Token, End, NumbersOK
<1> HIDE DEF token
<1>4. /\ tokens' \in Seq(Token) /\ capacity' \in Nat /\ prev' \in {"EOT", "Terminator"}
      /\ TokensOK' /\ CapacityOK'
      /\ \/ pc' = "eot" /\ EndOfLast' = End(token) /\ tokens' = Append(tokens, token)
         \/ pc' \in {"corrupted", "exited"} /\ EndOfLast' = EndOfLast /\ tokens' = tokens
      BY <1>1, <1>2, <1>3, ArrayPushed
<1>5. pc' \in {"eot", "corrupted", "exited"}
      BY <1>4
<1>6. NumbersOK'
      BY <1>1, <1>2, Facts DEF NumbersOK, saved
<1>7. TypeOK'
      BY <1>1, <1>4, <1>5, <1>6 DEF IInv, TypeOK, NumbersOK, Phases, Terminal
<1>8. PositionOK' /\ ProgressOK'
  <2>1. /\ index' <= Len(text') + 1 /\ save_index' <= index' /\ EndOfLast' <= index'
        BY <1>1, <1>2, <1>3, <1>4 DEF saved
  <2>2. pc' \notin Handling \cup {"report"} /\ pc' \notin Scanning /\ pc' # "space"
        BY <1>5 DEF Handling, Scanning, Comment
  <2> QED BY <1>5, <2>1, <2>2 DEF PositionOK, ProgressOK
<1>9. MarksOK'
  <2>1. CASE pc' = "eot" /\ tokens' = Append(tokens, token)
    <3>1. /\ Len(tokens') = Len(tokens) + 1 /\ Len(tokens) \in Nat
          /\ \A i \in 1 .. Len(tokens) : tokens'[i] = tokens[i]
          /\ tokens'[Len(tokens) + 1] = token
          BY <1>3, <2>1, AppendProperties DEF IInv, TypeOK
    <3>2. /\ loop <= Len(tokens)
          /\ \A i \in 1 .. Len(tokens) : EndMark(i) <=> i > Len(tokens) - loop
          BY <1>1 DEF IInv, MarksOK
    <3>3. ASSUME NEW i \in 1 .. Len(tokens')
          PROVE  EndMark(i)' <=> i > Len(tokens') - loop'
      <4>1. CASE i = Len(tokens) + 1
            BY <4>1, <1>1, <1>2, <1>3, <3>1 DEF EndMark
      <4>2. CASE i # Len(tokens) + 1
        <5>1. i \in 1 .. Len(tokens) /\ tokens'[i] = tokens[i]
              BY <4>2, <3>1
        <5>2. EndMark(i)' <=> EndMark(i)
              BY <5>1 DEF EndMark
        <5>3. i > Len(tokens') - loop' <=> i > Len(tokens) - loop
              BY <1>1, <1>2, <3>1
        <5> QED BY <5>1, <5>2, <5>3, <3>2
      <4> QED BY <4>1, <4>2
    <3>4. loop' <= EXTRA_NULL_TERMINATORS /\ loop' <= Len(tokens')
          BY <1>1, <1>2, <3>1, <3>2 DEF EXTRA_NULL_TERMINATORS
    <3> QED BY <2>1, <3>3, <3>4 DEF MarksOK, EndMark, Terminal
  <2>2. CASE pc' \in {"corrupted", "exited"}
        BY <2>2 DEF MarksOK, Terminal
  <2> QED BY <2>1, <2>2, <1>4
<1>10. StreamStep
  <2>1. CASE pc' = "eot" /\ tokens' = Append(tokens, token)
    <3>1. End(token) <= RUINT_MAX
          BY <1>2, <1>3, TextLength, RangeAssumption DEF IInv, EXTRA_NULL_TERMINATORS
    <3>2. pc \notin Terminal /\ pc' \notin Terminal /\ EndOfLast <= token.index
          BY <1>1, <1>2, <1>3, <2>1 DEF Terminal
    <3> QED BY <1>3, <2>1, <3>1, <3>2, StreamEmits
  <2>2. CASE pc' \in {"corrupted", "exited"} /\ tokens' = tokens
        BY <1>1, <2>2, StreamRejects DEF Terminal
  <2> QED BY <2>1, <2>2, <1>4
<1>11. Consumes
       BY <1>5 DEF Consumes
<1> QED BY <1>4, <1>7, <1>8, <1>9, <1>10, <1>11 DEF Good, IInv

(* Whatever ends without touching anything but pc.                         *)
LEMMA Stopped ==
    ASSUME IInv, pc \notin Terminal, pc' \in Terminal \ {"corrupted"},
           UNCHANGED <<text, index, len, line, begin_tkn_line, saved, array, error, loop>>
    PROVE  IInv' /\ Consumes /\ tokens' = tokens
<1>1. /\ tokens' = tokens /\ capacity' = capacity /\ prev' = prev
      /\ TokensOK' /\ CapacityOK' /\ EndOfLast' = EndOfLast
      BY ArrayKept
<1>2. TypeOK'
      BY <1>1 DEF IInv, TypeOK, Phases, saved
<1>3. MarksOK'
      BY DEF MarksOK, Terminal
<1>4. PositionOK' /\ ProgressOK'
  <2>1. /\ index' <= Len(text') + 1 /\ save_index' <= index' /\ EndOfLast' <= index'
        BY <1>1, Facts DEF PositionOK, saved
  <2>2. pc' \notin Handling \cup {"report"} /\ pc' \notin Scanning /\ pc' # "space"
        /\ pc' # "digits" /\ pc' # "line_comment"
        BY DEF Terminal, Handling, Scanning, Comment
  <2> QED BY <2>1, <2>2 DEF PositionOK, ProgressOK
<1>5. Consumes
      BY DEF Consumes, Terminal
<1> QED BY <1>1, <1>2, <1>3, <1>4, <1>5 DEF IInv

LEMMA AcceptStep == ASSUME IInv, eot_end PROVE Good
<1>1. /\ pc = "eot" /\ loop = EXTRA_NULL_TERMINATORS /\ pc' = "done"
      /\ UNCHANGED <<text, index, len, line, begin_tkn_line, saved, array, error, loop>>
      BY DEF eot_end
<1>2. IInv' /\ Consumes /\ tokens' = tokens
      BY <1>1, Stopped DEF Terminal
<1>3. /\ spans \in Seq(SpanRecord) /\ Len(spans) = Len(tokens)
      /\ \A i \in 1 .. Len(tokens) : spans[i] = SpanOf(tokens[i])
      BY SpansProperties
<1>4. /\ EXTRA_NULL_TERMINATORS <= Len(spans)
      /\ \A i \in 1 .. Len(tokens) : EndMark(i) <=> i > Len(tokens) - EXTRA_NULL_TERMINATORS
      BY <1>1, <1>3 DEF IInv, MarksOK
<1>5. ASSUME NEW i \in 1 .. Len(spans)
      PROVE  Stream!Marked(i) <=> i > Len(spans) - EXTRA_NULL_TERMINATORS
  <2>1. spans[i] = SpanOf(tokens[i])
        BY <1>3
  <2>2. spans[i].mark <=> EndMark(i)
    <3>1. SpanOf(tokens[i]).mark = (tokens[i].type = "EOT")
          BY Zenon DEF SpanOf
    <3> QED BY <2>1, <3>1, Zenon DEF EndMark
  <2>3. Stream!Marked(i) <=> i \in 1 .. Len(spans) /\ spans[i].mark
        BY DEF Stream!Marked, spans
  <2> QED BY <2>2, <2>3, <1>3, <1>4
<1>6. verdict = "open" /\ verdict' = "accepted" /\ spans' = spans
      BY <1>1, <1>2 DEF verdict, spans, Terminal, End, EndMark
<1>7. Stream!Accept <=>
         /\ verdict = "open"
         /\ EXTRA_NULL_TERMINATORS <= Len(spans)
         /\ \A i \in 1 .. Len(spans) :
               Stream!Marked(i) <=> i > Len(spans) - EXTRA_NULL_TERMINATORS
         /\ verdict' = "accepted"
         /\ spans' = spans
      BY DEF Stream!Accept, spans, verdict
<1>8. StreamStep
      BY <1>4, <1>5, <1>6, <1>7 DEF StreamStep, Stream!StreamNext
<1> QED BY <1>2, <1>8 DEF Good

LEMMA LexerStep == ASSUME IInv, lexer_step PROVE Good
<1>1. CASE lex_report_error
  <2>1. /\ pc = "report" /\ pc' \in {"failed", "aborted"}
        /\ UNCHANGED <<text, index, len, line, begin_tkn_line, saved, array, error, loop>>
        BY <1>1 DEF lex_report_error
  <2>2. IInv' /\ Consumes /\ tokens' = tokens
        BY <2>1, Stopped DEF Terminal
  <2>3. StreamStep
        BY <2>1, <2>2, StreamRejects DEF Terminal
  <2> QED BY <2>2, <2>3 DEF Good
<1> QED BY <1>1, DirectorStep, BlankStep, NewlineStep, EofStep, EndMarkStep, AcceptStep
        DEF lexer_step

-----------------------------------------------------------------------------
(* The theorems.                                                           *)

LEMMA Initial == ASSUME lexer_init PROVE IInv /\ Stream!StreamInit
<1>1. /\ text \in Texts /\ index = 0 /\ len = 0 /\ line = 1 /\ begin_tkn_line = 1
      /\ save_index = 0 /\ save_line = 1 /\ error = "UNKNOWN" /\ prev = "EOT"
      /\ tokens = <<>> /\ capacity = Len(text) \div 4 /\ loop = 0 /\ pc = "director"
      BY DEF lexer_init
<1>2. Len(text) \in Nat /\ Len(text) >= 1
      BY <1>1, TextsAssumption, RangeAssumption DEF EXTRA_NULL_TERMINATORS
<1>3. capacity \in Nat /\ (Len(text) >= 4 => capacity >= 1)
      BY <1>1, <1>2
<1>4. tokens \in Seq(Token) /\ Len(tokens) = 0
      BY <1>1
<1>5. TypeOK
      BY <1>1, <1>3, <1>4, TextsAssumption DEF TypeOK, LexErr, Phases
<1>6. TokensOK /\ CapacityOK /\ MarksOK
      BY <1>1, <1>3, <1>4 DEF TokensOK, CapacityOK, MarksOK
<1>7. EndOfLast = 0
      BY <1>1 DEF EndOfLast
<1>8. PositionOK /\ ProgressOK
      BY <1>1, <1>2, <1>7 DEF PositionOK, ProgressOK, Handling, Scanning, Comment
<1>9. spans = <<>> /\ verdict = "open"
      BY <1>1, <1>4 DEF spans, verdict, Terminal
<1>10. Stream!StreamInit <=> spans = <<>> /\ verdict = "open"
      BY DEF Stream!StreamInit, spans, verdict
<1> QED BY <1>5, <1>6, <1>8, <1>9, <1>10 DEF IInv

LEMMA Step == ASSUME IInv, [Next]_vars PROVE Good
<1>1. CASE UNCHANGED vars
  <2>1. /\ UNCHANGED <<text, index, len, line, begin_tkn_line, error, save_index, save_line,
                       prev, tokens, capacity, loop, pc>>
        BY <1>1 DEF vars
  <2>2. IInv'
        BY <2>1 DEF IInv, TypeOK, TokensOK, CapacityOK, MarksOK, PositionOK,
                    ProgressOK, EndOfLast, End, EndMark, lex_current, At, InComment,
                    lex_is_not_eof
  <2>3. Consumes
        BY <2>1 DEF Consumes
  <2>4. spans' = spans /\ verdict' = verdict
        BY <2>1 DEF spans, verdict, End, EndMark
  <2>5. StreamStep
        BY <2>4 DEF StreamStep, Stream!streamVars, spans, verdict
  <2> QED BY <2>2, <2>3, <2>5 DEF Good
<1> QED BY <1>1, LexerStep, IdentifiersStep, NumbersStep, LiteralsStep, SymbolsStep, CommentsStep
        DEF Next

LEMMA Inductive == Spec => []IInv
<1>1. lexer_init => IInv
      BY Initial
<1>2. IInv /\ [Next]_vars => IInv'
      BY Step DEF Good
<1> QED BY <1>1, <1>2, PTL DEF Spec

(* Every variable keeps its type on every text.                            *)
THEOREM TypeCorrect == Spec => []TypeOK
<1>1. IInv => TypeOK
      BY DEF IInv
<1> QED BY <1>1, Inductive, PTL

(* No read of the lexer leaves the buffer of file.c, whatever the text     *)
(* (lexer.c:617, 674, file.c:63).                                          *)
THEOREM ReadsAreInBounds == Spec => []ReadsInBounds
<1>1. IInv => ReadsInBounds
      BY Facts DEF PositionOK, NumbersOK, ReadsInBounds, EXTRA_NULL_TERMINATORS
<1> QED BY <1>1, Inductive, PTL

(* On a file of four bytes or more every token is stored inside the array  *)
(* (lexer.c:53, arraylist.h:71).                                           *)
THEOREM LongTextsAreSafe == Spec => []LongTextsStoreInBounds
<1>1. IInv => LongTextsStoreInBounds
      BY DEF IInv, CapacityOK, LongTextsStoreInBounds
<1> QED BY <1>1, Inductive, PTL

(* Tokens never overlap, and the lexer never returns into one              *)
(* (lexer.c:154, 712).                                                     *)
THEOREM SpansAreOrdered == Spec => []SpansOrdered
<1>1. IInv => SpansOrdered
      BY DEF IInv, TokensOK, PositionOK, SpansOrdered
<1> QED BY <1>1, Inductive, PTL

(* A handler that returns success has moved on, so that lexer_lex cannot   *)
(* call the director for ever at one place (lexer.c:80).                   *)
THEOREM HandlersAlwaysConsume == Spec => HandlersConsume
<1>1. IInv /\ [Next]_vars =>
         [pc # "director" /\ pc' = "director" => index' > save_index']_vars
      BY Step DEF Good, Consumes
<1> QED BY <1>1, Inductive, PTL DEF Spec, HandlersConsume

(* What the lexer hands to the parser is a token stream: tokens in order,  *)
(* one at a time, and all end marks behind the last of them when the text  *)
(* is accepted (lexer.c:785).                                              *)
THEOREM StreamRefinement == Spec => ImplementsTokenStream
<1>1. lexer_init => Stream!StreamInit
      BY Initial
<1>2. IInv /\ [Next]_vars => StreamStep
      BY Step DEF Good
<1>3. IInv /\ [Next]_vars => [Stream!StreamNext]_(Stream!streamVars)
      BY <1>2 DEF StreamStep
<1> QED BY <1>1, <1>3, Inductive, PTL DEF Spec, ImplementsTokenStream, Stream!StreamSpec
=============================================================================
