------------------------------- MODULE Lexer -------------------------------
(***************************************************************************)
(* The scanner of src/src/fe/lexer.c, one action per step of its handlers: *)
(* the decisions of lex_director and of each handler, and every turn of    *)
(* their loops.  pc names the handler and the loop that runs next.         *)
(*                                                                         *)
(* Positions count from 0, as in the C code.  The text is any file that    *)
(* file.c accepts; the buffer that holds it ends in EXTRA_NULL_TERMINATORS *)
(* null characters, and At also reads as null whatever is behind them: no  *)
(* step gets there as long as ReadsInBounds holds.                         *)
(***************************************************************************)
EXTENDS Naturals, Sequences, FiniteSets, Characters

CONSTANTS Texts,                \* the contents of the files
          RUINT_MAX,            \* largest uint
          MaxIdentifierLength,  \* MAX_IDENTIFIER_LENGTH
          MaxNumberLength,      \* MAX_NUMBER_LENGTH
          MaxHexLength,         \* 0x20, of lex_hex_numbers
          MaxBinaryLength       \* 0x80, of lex_binary_numbers

TooFewTerminators == 2
EXTRA_NULL_TERMINATORS == 3
MAX_STRING_LENGTH == RUINT_MAX \div 2

ASSUME RangeAssumption == RUINT_MAX \in Nat
ASSUME TextsAssumption ==
    \A t \in Texts : /\ t \in Seq(Char)
                     /\ Len(t) \in 1 .. RUINT_MAX - EXTRA_NULL_TERMINATORS
                     /\ t[1] # NUL

VARIABLES text, index, len, line, begin_tkn_line, error, save_index, save_line, prev,
          tokens,     \* the tokens in the array
          capacity,   \* the slots of the array
          loop,       \* depth of lex_nested_comments, or i of lexer_lex
          pc

vars == <<text, index, len, line, begin_tkn_line, error, save_index, save_line, prev,
          tokens, capacity, loop, pc>>
array == <<tokens, capacity, prev>>
saved == <<save_index, save_line>>

(* The three ways to end that are not the code's: "aborted" is the TODO    *)
(* exit, "exited" an ASSERT, and after "corrupted", a store behind the     *)
(* token array, nothing more is said.                                      *)
Terminal == {"done", "failed", "aborted", "exited", "corrupted"}

At(i) == IF i < Len(text) THEN text[i + 1] ELSE NUL
lex_current == At(index)
lex_peek == At(index + 1)
lex_past == At(index - 1)
lex_is_not_eof == index < Len(text)
Newlines(i) == IF At(i) = Newline THEN 1 ELSE 0

Token == [index : Nat, length : Nat, line : Nat, type : TknType]

lexer_init == /\ text \in Texts
              /\ index = 0 /\ len = 0
              /\ line = 1 /\ begin_tkn_line = 1
              /\ save_index = 0 /\ save_line = 1
              /\ error = "UNKNOWN"
              /\ prev = "EOT"
              /\ tokens = <<>>
              /\ capacity = Len(text) \div 4
              /\ loop = 0
              /\ pc = "director"

-----------------------------------------------------------------------------
(* What the handlers are made of.                                          *)

lex_advance == /\ index' = index + 1
               /\ line' = line + Newlines(index)
               /\ UNCHANGED len

lex_advance_len_inc == /\ index' = index + 1
                       /\ len' = len + 1
                       /\ line' = line + Newlines(index)

ForgetsToRestore == UNCHANGED <<index, line>>
lex_restore_state_for_err == index' = save_index /\ line' = save_line

(* array_push of a token that starts at start.  Growing may fail; an array *)
(* made with no slots never gets any, and the store lands behind it.       *)
GrownLate == IF Len(tokens) > capacity THEN 2 * capacity ELSE capacity
Grown == IF Len(tokens) + 1 > capacity THEN 2 * capacity ELSE capacity

array_push(token, next) ==
    \/ /\ Len(tokens) + 1 <= Grown
       /\ capacity' = Grown
       /\ tokens' = Append(tokens, token)
       /\ prev' = "Terminator"
       /\ pc' = next
    \/ /\ Len(tokens) + 1 > Grown
       /\ capacity' = Grown
       /\ pc' = "corrupted"
       /\ UNCHANGED <<tokens, prev>>
    \/ /\ Len(tokens) + 1 > capacity
       /\ capacity' = Grown
       /\ pc' = "exited"
       /\ UNCHANGED <<tokens, prev>>

TokenWithoutAdvance(type, start, length, next) ==
    /\ array_push([index |-> start, length |-> length, line |-> begin_tkn_line,
                   type |-> type], next)
    /\ index' = start
    /\ len' = length

(* lex_add_token, called with l->index = start and l->len = length; next   *)
(* is what runs after it.                                                  *)
lex_add_token(type, start, length, next) ==
    /\ array_push([index |-> start, length |-> length, line |-> begin_tkn_line,
                   type |-> type], next)
    /\ index' = start + length
    /\ len' = length

(* A handler returns FAILURE with the error err and length characters      *)
(* counted, from where it is or from the saved position.                   *)
Fail(err, length) == /\ error' = err
                     /\ len' = length
                     /\ pc' = "report"
                     /\ UNCHANGED array

FailAtStart(err, length) == Fail(err, length) /\ lex_restore_state_for_err

(* A scan is over: index returns to the start of what it took, which       *)
(* becomes a token unless it is longer than the limit.                     *)
Finish(type, limit, err) ==
    \/ len > limit /\ FailAtStart(err, len)
    \/ /\ len <= limit
       /\ lex_add_token(type, index - len, len, "director")
       /\ UNCHANGED <<line, error>>

(* A turn of a loop that takes the characters of S.                        *)
TakeWhile(loopName, S) == /\ pc = loopName
                          /\ lex_current \in S
                          /\ lex_advance_len_inc
                          /\ UNCHANGED <<text, begin_tkn_line, saved, array, error, loop, pc>>

ScanEnds(loopName, S) == /\ pc = loopName
                         /\ lex_current \notin S
                         /\ UNCHANGED <<text, begin_tkn_line, saved, loop>>
-----------------------------------------------------------------------------
(* lex_director: skips the blanks, then hands over to a handler.           *)

lex_director == /\ pc = "director"
                /\ len' = 0
                /\ begin_tkn_line' = line
                /\ pc' = "space"
                /\ UNCHANGED <<text, index, line, saved, array, error, loop>>

lex_skip_blank == /\ pc = "space"
                  /\ lex_current \in Blank
                  /\ index' = index + 1
                  /\ UNCHANGED <<text, len, line, begin_tkn_line, saved, array, error, loop, pc>>

TerminatorWithoutAdvance(length, counted, next) ==
    \/ /\ prev # "Terminator"
       /\ lex_add_token("Terminator", index, length, next)
       /\ line' = line + counted
    \/ /\ prev = "Terminator"
       /\ line' = line + counted
       /\ len' = length
       /\ pc' = next
       /\ UNCHANGED <<index, array>>

(* lex_add_terminator, with the counting of the line the caller adds.      *)
lex_add_terminator(length, counted, next) ==
    \/ /\ prev # "Terminator"
       /\ lex_add_token("Terminator", index, length, next)
       /\ line' = line + counted
    \/ /\ prev = "Terminator"
       /\ index' = index + 1
       /\ line' = line + Newlines(index) + counted
       /\ len' = length
       /\ pc' = next
       /\ UNCHANGED array

lex_skip_newline == /\ pc = "space"
                    /\ lex_current = Newline
                    /\ lex_add_terminator(len, 1, "space")
                    /\ UNCHANGED <<text, begin_tkn_line, saved, error, loop>>

(* lex_save_state, once the blanks are behind; each handler starts with it *)
(* on the characters it is for.                                            *)
Starts(S) == /\ pc = "space"
             /\ lex_current \in S
             /\ save_index' = index
             /\ save_line' = line
             /\ UNCHANGED <<text, begin_tkn_line>>

(* A handler that goes on to the loop called next after k characters,      *)
(* length of them counted.                                                 *)
Enter(k, length, next) == /\ index' = index + k
                          /\ len' = length
                          /\ pc' = next
                          /\ UNCHANGED <<line, array, error>>

(* lex_identifiers.                                                        *)
lex_identifiers == Starts(IdStart) /\ Enter(1, 1, "identifiers") /\ UNCHANGED loop
identifiers_loop == TakeWhile("identifiers", IdChar)
identifiers_end == /\ ScanEnds("identifiers", IdChar)
                   /\ Finish(WordType(SubSeq(text, index - len + 1, index)),
                             MaxIdentifierLength, "TOO_LONG_IDENTIFIER")

(* lex_numbers, lex_hex_numbers, lex_binary_numbers: a number that is too  *)
(* long is a failure that sets no error.                                   *)
lex_numbers == /\ Starts(Digit)
               /\ UNCHANGED loop
               /\ \/ lex_current = "0" /\ lex_peek = "x" /\ Enter(2, 2, "hex")
                  \/ lex_current = "0" /\ lex_peek = "b" /\ Enter(2, 2, "binary")
                  \/ ~(lex_current = "0" /\ lex_peek \in {"x", "b"}) /\ Enter(0, 0, "digits")
digits_loop == TakeWhile("digits", Digit)
digits_dot == /\ ScanEnds("digits", Digit)
              /\ lex_current = "." /\ lex_peek # "."
              /\ Enter(1, len + 1, "fraction")
digits_end == /\ ScanEnds("digits", Digit)
              /\ ~(lex_current = "." /\ lex_peek # ".")
              /\ Finish("IntegerLiteral", MaxNumberLength, error)
fraction_loop == TakeWhile("fraction", Digit)
fraction_end == /\ ScanEnds("fraction", Digit)
                /\ Finish("FloatLiteral", MaxNumberLength, error)
hex_loop == TakeWhile("hex", HexDigit)
hex_end == /\ ScanEnds("hex", HexDigit)
           /\ Finish("IntegerLiteral", MaxHexLength, error)
binary_loop == TakeWhile("binary", Bit)
binary_end == /\ ScanEnds("binary", Bit)
              /\ Finish("IntegerLiteral", MaxBinaryLength, error)

(* lex_strings: a quote closes the string unless the character before it   *)
(* is a backslash.                                                         *)
lex_strings == Starts({Quote}) /\ Enter(1, 1, "strings") /\ UNCHANGED loop
ClosingQuote == lex_current = Quote /\ lex_past # Backslash
strings_loop == /\ pc = "strings"
                /\ lex_current # NUL /\ ~ClosingQuote
                /\ lex_advance_len_inc
                /\ UNCHANGED <<text, begin_tkn_line, saved, array, error, loop, pc>>
strings_open == /\ pc = "strings"
                /\ lex_current = NUL
                /\ FailAtStart("NOT_CLOSED_STRING", len)
                /\ UNCHANGED <<text, begin_tkn_line, saved, loop>>
strings_close == /\ pc = "strings"
                 /\ ClosingQuote
                 /\ \/ /\ len + 1 > MAX_STRING_LENGTH
                       /\ FailAtStart("TOO_LONG_STRING", len + 1)
                    \/ /\ len + 1 <= MAX_STRING_LENGTH
                       /\ lex_add_token("StringLiteral", index - len, len + 1, "director")
                       /\ UNCHANGED <<line, error>>
                 /\ UNCHANGED <<text, begin_tkn_line, saved, loop>>

(* lex_chars: a literal that does not close is a failure that sets no      *)
(* error and stays behind the opening quote.                               *)
lex_chars ==
    LET escaped == At(index + 1) = Backslash
        Literal(length) == /\ lex_add_token("CharLiteral", index, length, "director")
                           /\ line' = line + Newlines(index + 1)
                           /\ UNCHANGED error
        Invalid(err, length) == Fail(err, length) /\ UNCHANGED <<index, line>>
    IN /\ Starts({Tick})
       /\ UNCHANGED loop
       /\ \/ ~escaped /\ At(index + 2) = Tick /\ Literal(3)
          \/ ~escaped /\ At(index + 2) # Tick
             /\ Fail(error, 1) /\ index' = index + 1 /\ line' = line
          \/ escaped /\ At(index + 2) \notin Escape
             /\ Invalid("NOT_VALID_ESCAPE_CHAR", 2)
          \/ escaped /\ At(index + 2) \in Escape
             /\ \/ At(index + 3) = Tick /\ Literal(4)
                \/ At(index + 3) # Tick /\ Invalid("LEXER_INVALID_CHAR", 3)

(* lex_builtin_funcs: the token holds the name, not the at sign.           *)
lex_builtin_funcs == Starts({"@"}) /\ Enter(1, 0, "builtin") /\ UNCHANGED loop
builtin_loop == TakeWhile("builtin", Alpha)
builtin_end == /\ ScanEnds("builtin", Alpha)
               /\ lex_add_token("BuiltinId", index - len, len, "director")
               /\ UNCHANGED <<line, error>>

(* lex_symbols: the longest symbol of the tables; ".." is a token of one   *)
(* character that starts at the second dot.                                *)
LongSymbol(c, p) == \E row \in TwoCharSymbols : row[1] = c /\ row[2] = p
StartsComment(c, p) == c = "/" /\ p \in {"/", "*"}

LongSymbolOfLengthOne == /\ Starts(SymbolChar)
                         /\ UNCHANGED <<line, error, loop>>
                         /\ \E row \in TwoCharSymbols :
                              /\ lex_current = row[1] /\ lex_peek = row[2]
                              /\ lex_add_token(row[3], index, 1, "director")
ShortSymbolFirst == /\ Starts(SymbolChar)
                    /\ UNCHANGED <<line, error, loop>>
                    /\ \E row \in OneCharSymbols :
                         /\ lex_current = row[1]
                         /\ lex_add_token(row[2], index, 1, "director")

lex_long_symbol == /\ Starts(SymbolChar)
                   /\ UNCHANGED <<line, error, loop>>
                   /\ \E row \in TwoCharSymbols :
                        /\ lex_current = row[1] /\ lex_peek = row[2]
                        /\ lex_add_token(row[3], index, 2, "director")
lex_short_symbol == /\ Starts(SymbolChar)
                    /\ UNCHANGED <<line, error, loop>>
                    /\ ~LongSymbol(lex_current, lex_peek)
                    /\ ~StartsComment(lex_current, lex_peek)
                    /\ ~(lex_current = "." /\ lex_peek = ".")
                    /\ \E row \in OneCharSymbols :
                         /\ lex_current = row[1]
                         /\ lex_add_token(row[2], index, 1, "director")
lex_dotdot == /\ Starts({"."})
              /\ UNCHANGED <<line, error, loop>>
              /\ lex_peek = "."
              /\ lex_add_token("DotDot", index + 1, 1, "director")
lex_semicolon == /\ Starts({Semicolon})
                 /\ UNCHANGED <<error, loop>>
                 /\ lex_add_terminator(1, 0, "director")
lex_invalid_char == /\ Starts(Char \ (Digit \cup IdStart \cup SymbolChar \cup Blank \cup
                                     {Quote, Tick, "@", Semicolon, "#", NUL, Newline}))
                    /\ UNCHANGED <<index, line, loop>>
                    /\ Fail("LEXER_INVALID_CHAR", 1)

(* Comments to the end of the line: the newline is left after "//" and     *)
(* taken after "#", at the end of the file too.                            *)
lex_line_comment == /\ Starts({"/"})
                    /\ lex_peek = "/"
                    /\ Enter(0, 1, "line_comment")
                    /\ UNCHANGED loop
lex_hash_comment == Starts({"#"}) /\ Enter(0, 1, "hash_comment") /\ UNCHANGED loop
InCommentToEnd == lex_is_not_eof
InComment == lex_is_not_eof /\ lex_current # Newline
comment_loop == /\ pc \in {"line_comment", "hash_comment"}
                /\ InComment
                /\ lex_advance
                /\ UNCHANGED <<text, begin_tkn_line, saved, array, error, loop, pc>>
line_comment_end == /\ pc = "line_comment"
                    /\ ~InComment
                    /\ pc' = "director"
                    /\ UNCHANGED <<text, index, len, line, begin_tkn_line, saved, array, error,
                                   loop>>
HashCountsTwice == /\ pc = "hash_comment"
                   /\ ~InComment
                   /\ index' = index + 1
                   /\ line' = line + Newlines(index) + 1
                   /\ pc' = "director"
                   /\ UNCHANGED <<text, len, begin_tkn_line, saved, array, error, loop>>
hash_comment_end == /\ pc = "hash_comment"
                    /\ ~InComment
                    /\ lex_advance
                    /\ pc' = "director"
                    /\ UNCHANGED <<text, begin_tkn_line, saved, array, error, loop>>

(* lex_nested_comments; a comment may stay open at the end of the file.    *)
lex_nested_comments == /\ Starts({"/"})
                       /\ lex_peek = "*"
                       /\ Enter(2, 1, "nested")
                       /\ loop' = 1
InNestedToZero == lex_is_not_eof /\ loop >= 0
InNested == lex_is_not_eof /\ loop > 0
nested_mark(first, second, depth) ==
    /\ pc = "nested" /\ InNested
    /\ lex_current = first /\ lex_peek = second
    /\ index' = index + 2
    /\ loop' = depth
    /\ UNCHANGED <<text, len, line, begin_tkn_line, saved, array, error, pc>>
nested_close == nested_mark("*", "/", loop - 1)
nested_open == nested_mark("/", "*", loop + 1)
nested_skip == /\ pc = "nested" /\ InNested
               /\ ~(lex_current = "*" /\ lex_peek = "/")
               /\ ~(lex_current = "/" /\ lex_peek = "*")
               /\ lex_advance
               /\ UNCHANGED <<text, begin_tkn_line, saved, array, error, loop, pc>>
nested_end == /\ pc = "nested" /\ ~InNested
              /\ pc' = "director"
              /\ UNCHANGED <<text, index, len, line, begin_tkn_line, saved, array, error, loop>>
-----------------------------------------------------------------------------
(* lexer_lex at the null character: the end marks, then success.           *)

lex_eof == Starts({NUL}) /\ Enter(0, 0, "eot") /\ loop' = 0
eot_loop == /\ pc = "eot" /\ loop < EXTRA_NULL_TERMINATORS
            /\ lex_add_token("EOT", index, 0, "eot")
            /\ loop' = loop + 1
            /\ UNCHANGED <<text, line, begin_tkn_line, saved, error>>
EotEndsEarly == /\ pc = "eot" /\ loop + 1 >= EXTRA_NULL_TERMINATORS
                /\ pc' = "done"
                /\ UNCHANGED <<text, index, len, line, begin_tkn_line, saved, array, error, loop>>
eot_end == /\ pc = "eot" /\ loop = EXTRA_NULL_TERMINATORS
           /\ pc' = "done"
           /\ UNCHANGED <<text, index, len, line, begin_tkn_line, saved, array, error, loop>>

(* The piece of the text lex_report_error prints: back from the error to a *)
(* newline, or to the start, and on to a newline or the last character.    *)
LowOnNewline == LET low == CHOOSE p \in 0 .. index :
                              /\ p = 0 \/ At(p) = Newline
                              /\ \A q \in p + 1 .. index : At(q) # Newline
                IN IF low > 1 THEN low ELSE 0
ReportLow == LET low == CHOOSE p \in 0 .. index :
                           /\ p = 0 \/ At(p) = Newline
                           /\ \A q \in p + 1 .. index : At(q) # Newline
             IN IF low > 1 THEN low + 1 ELSE 0
ReportEnd == CHOOSE p \in index .. index + Len(text) :
                /\ At(p) = Newline \/ p + 1 >= Len(text)
                /\ \A q \in index .. p - 1 : At(q) # Newline /\ q + 1 < Len(text)

(* lexer_lex at FAILURE: lex_report_error, which ends in the TODO exit of  *)
(* lexer_err_msg when the error has no text.                               *)
lex_report_error == /\ pc = "report"
                    /\ pc' = IF HasMessage(error) THEN "failed" ELSE "aborted"
                    /\ UNCHANGED <<text, index, len, line, begin_tkn_line, saved, array, error,
                                   loop>>

identifiers_step == lex_identifiers \/ identifiers_loop \/ identifiers_end
numbers_step == \/ lex_numbers
                \/ digits_loop \/ digits_dot \/ digits_end
                \/ fraction_loop \/ fraction_end
                \/ hex_loop \/ hex_end
                \/ binary_loop \/ binary_end
literals_step == \/ lex_strings \/ strings_loop \/ strings_open \/ strings_close
                 \/ lex_chars
                 \/ lex_builtin_funcs \/ builtin_loop \/ builtin_end
symbols_step == \/ lex_long_symbol \/ lex_short_symbol \/ lex_dotdot
                \/ lex_semicolon \/ lex_invalid_char
comments_step == \/ lex_line_comment \/ lex_hash_comment \/ comment_loop
                 \/ line_comment_end \/ hash_comment_end
                 \/ lex_nested_comments \/ nested_close \/ nested_open
                 \/ nested_skip \/ nested_end
lexer_step == \/ lex_director \/ lex_skip_blank \/ lex_skip_newline
              \/ lex_eof \/ eot_loop \/ eot_end
              \/ lex_report_error

Next == \/ lexer_step \/ identifiers_step \/ numbers_step \/ literals_step
        \/ symbols_step \/ comments_step

(* The program is sequential: nothing keeps it from taking its next step.  *)
Spec == lexer_init /\ [][Next]_vars /\ WF_vars(Next)
-----------------------------------------------------------------------------
(* Properties.                                                             *)

End(token) == token.index + token.length
EndOfLast == IF tokens = <<>> THEN 0 ELSE End(tokens[Len(tokens)])
EndMark(i) == tokens[i].type = "EOT"

Phases == Terminal \cup {"director", "space", "identifiers", "digits", "fraction", "hex",
                         "binary", "strings", "builtin", "line_comment", "hash_comment",
                         "nested", "eot", "report"}

TypeOK == /\ text \in Seq(Char) /\ Len(text) \in 1 .. RUINT_MAX - EXTRA_NULL_TERMINATORS
          /\ index \in Nat /\ len \in Nat
          /\ line \in Nat \ {0} /\ begin_tkn_line \in Nat \ {0}
          /\ save_index \in Nat /\ save_line \in Nat \ {0}
          /\ error \in LexErr
          /\ prev \in {"EOT", "Terminator"}
          /\ tokens \in Seq(Token)
          /\ capacity \in Nat
          /\ loop \in Nat
          /\ pc \in Phases

(* Wherever a handler stands, the character it looks at and the one it     *)
(* peeks at are inside the buffer file.c allocated, also when a comment    *)
(* has taken the lexer one past the end of the text (lexer.c:617, 674,     *)
(* file.c:63).                                                             *)
ReadsInBounds == index + 1 < Len(text) + EXTRA_NULL_TERMINATORS

(* A file of four bytes or more never has a token stored behind the array, *)
(* which starts with a quarter of the file's length in slots               *)
(* (lexer.c:53, arraylist.h:71).                                           *)
LongTextsStoreInBounds == Len(text) >= 4 => pc # "corrupted"

(* The tokens do not overlap and their order is that of the text, and the  *)
(* lexer never goes back into a token it has given out: no restoring of    *)
(* the index, no subtraction of the length, breaks it (lexer.c:154, 712).  *)
SpansOrdered ==
    /\ EndOfLast <= index
    /\ \A i \in 1 .. Len(tokens) - 1 : End(tokens[i]) <= tokens[i + 1].index

(* What lies between two tokens consists of separators and whole comments, *)
(* each with an end of its own: the comment that starts at a goes up to b. *)
(* "//" leaves the newline that ends it, "#" takes it, or steps over the   *)
(* end of the text; a nested comment ends where its marks, taken from the  *)
(* left two characters at a time, first balance, or with the text.         *)
Separator == Blank \cup {Newline, Semicolon}
EndsLine(p) == At(p) = Newline \/ p = Len(text)
RestOfLine(a, b) == EndsLine(b) /\ \A p \in a .. b - 1 : ~EndsLine(p)
LineComment(a, b) == At(a) = "/" /\ At(a + 1) = "/" /\ RestOfLine(a, b)
HashComment(a, b) == At(a) = "#" /\ RestOfLine(a, b - 1)

OpenMark(p) == At(p) = "/" /\ At(p + 1) = "*"
CloseMark(p) == At(p) = "*" /\ At(p + 1) = "/"
Mark(p) == OpenMark(p) \/ CloseMark(p)
Depth(marks, p) == Cardinality({m \in marks : m + 1 < p /\ OpenMark(m)})
                      - Cardinality({m \in marks : m + 1 < p /\ CloseMark(m)})
NestedComment(a, b) ==
    \E marks \in SUBSET {p \in a .. b - 2 : Mark(p)} :
        /\ a \in marks /\ OpenMark(a)
        /\ \A p \in a + 1 .. b - 2 : Mark(p) => (p \in marks <=> p - 1 \notin marks)
        /\ \A p \in a + 2 .. b - 1 : Depth(marks, p) > 0
        /\ Depth(marks, b) = 0 \/ b = Len(text)

Skips(a, b) == \/ b = a + 1 /\ At(a) \in Separator
               \/ LineComment(a, b) \/ HashComment(a, b) \/ NestedComment(a, b)
Tiles(cuts, a, b) ==
    /\ {a, b} \subseteq cuts
    /\ \A c \in cuts \ {b} : \E d \in cuts : /\ c < d /\ Skips(c, d)
                                            /\ \A e \in cuts : ~(c < e /\ e < d)

(* The gap in front of token i, and the one behind the last token.  The    *)
(* first dot of ".." and the at sign belong to the token behind them.      *)
Prefixed(i) == i \in DOMAIN tokens /\ tokens[i].type \in {"DotDot", "BuiltinId"}
GapStart(i) == IF i = 1 THEN 0 ELSE End(tokens[i - 1])
GapEnd(i) == IF i > Len(tokens) THEN index
             ELSE IF Prefixed(i) THEN tokens[i].index - 1 ELSE tokens[i].index
Gap(i) == GapStart(i) .. GapEnd(i)

(* No character is lost between two tokens (lexer.c:595, 615, 786).        *)
NothingDropped ==
    \A i \in 1 .. Len(tokens) :
        /\ \E cuts \in SUBSET Gap(i) : Tiles(cuts, GapStart(i), GapEnd(i))
        /\ tokens[i].type = "DotDot" => At(GapEnd(i)) = "."
        /\ tokens[i].type = "BuiltinId" => At(GapEnd(i)) = "@"

(* Every token's characters are those its type stands for: the length a    *)
(* handler counted and the index it went back to agree with what it        *)
(* matched, and a word that is a keyword is never an identifier            *)
(* (lexer.c:154, 332, 412, 643).                                           *)
Lexeme(token) == SubSeq(text, token.index + 1, End(token))
AllIn(s, S) == \A i \in 1 .. Len(s) : s[i] \in S
Integer(s) == \/ s # <<>> /\ AllIn(s, Digit)
              \/ /\ Len(s) >= 2 /\ s[1] = "0"
                 /\ \/ s[2] = "x" /\ AllIn(SubSeq(s, 3, Len(s)), HexDigit)
                    \/ s[2] = "b" /\ AllIn(SubSeq(s, 3, Len(s)), Bit)
Float(s) == \E d \in 2 .. Len(s) : /\ s[d] = "."
                                   /\ AllIn(SubSeq(s, 1, d - 1), Digit)
                                   /\ AllIn(SubSeq(s, d + 1, Len(s)), Digit)
Delimited(s, q) == Len(s) >= 2 /\ s[1] = q /\ s[Len(s)] = q
Word(s) == s # <<>> /\ s[1] \in IdStart /\ AllIn(s, IdChar)
Matches(type, s) ==
    CASE type = "Identifier"     -> Word(s) /\ ~\E row \in Keywords : row[1] = s
      [] type = "BuiltinId"      -> AllIn(s, Alpha)
      [] type = "IntegerLiteral" -> Integer(s)
      [] type = "FloatLiteral"   -> Float(s)
      [] type = "StringLiteral"  -> /\ Delimited(s, Quote)
                                    /\ \A i \in 2 .. Len(s) - 1 :
                                          s[i] = Quote => s[i - 1] = Backslash
      [] type = "CharLiteral"    -> Delimited(s, Tick) /\ Len(s) \in {3, 4}
      [] type = "Terminator"     -> s \in {<<>>, <<Semicolon>>}
      [] type = "EOT"            -> s = <<>>
      [] type = "DotDot"         -> s = <<".">>
      [] OTHER -> \/ <<s, type>> \in Keywords
                  \/ \E row \in OneCharSymbols : s = <<row[1]>> /\ type = row[2]
                  \/ \E row \in TwoCharSymbols : s = <<row[1], row[2]>> /\ type = row[3]
LexemesMatchTypes == \A i \in 1 .. Len(tokens) : Matches(tokens[i].type, Lexeme(tokens[i]))

(* Each token is as long as it can be: no word or number could take one    *)
(* more character and no symbol is the first half of another one           *)
(* (lexer.c:150, 310, 504).                                                *)
LongestMatch ==
    \A i \in 1 .. Len(tokens) :
        LET s == Lexeme(tokens[i])
            longer == Append(s, At(End(tokens[i])))
        IN CASE tokens[i].type \in {"Terminator", "EOT", "DotDot"} -> TRUE
             [] tokens[i].type = "BuiltinId"      -> At(End(tokens[i])) \notin Alpha
             [] tokens[i].type = "IntegerLiteral" -> ~Integer(longer)
             [] tokens[i].type = "FloatLiteral"   -> ~Float(longer)
             [] tokens[i].type \in {"StringLiteral", "CharLiteral"} -> TRUE
             [] OTHER -> /\ Word(s) => ~Word(longer)
                         /\ Len(s) = 1 => ~LongSymbol(s[1], At(End(tokens[i])))

(* An error that is reported is reported at the start of what could not be *)
(* scanned, with the line that goes with it (lexer.c:709).                 *)
FailurePointsAtStart == pc = "failed" => index = save_index /\ line = save_line

(* The piece that is printed starts a line, or the file, and goes up to    *)
(* the error at least: the two loops that look for its ends agree and the  *)
(* length between them never wraps.  It is one line, but for a newline in  *)
(* the first two characters, which the search for its start does not tell  *)
(* from the start of the file (lexer.c:727-735).                           *)
ErrorLineShown ==
    pc = "failed" => /\ ReportLow <= index /\ index <= ReportEnd
                     /\ ReportLow = 0 \/ At(ReportLow - 1) = Newline
                     /\ \A p \in ReportLow .. ReportEnd - 1 : At(p) = Newline => p <= 1

(* The line, exactly: every newline before the position is counted once,   *)
(* by whichever function takes it; one that is skipped between tokens, and *)
(* not in a comment, is counted once more by lex_skip_whitespace; and the  *)
(* one that gives a Terminator, which is not taken with it, once more      *)
(* (lexer.c:113-117, 653, 668, 713, 772-778).                              *)
NewlinesBefore(p) == Cardinality({q \in 0 .. p - 1 : At(q) = Newline})
SkippedNewlines(cuts) == Cardinality({c \in cuts : c < index /\ At(c) = Newline})
NewlineTerminators ==
    Cardinality({i \in DOMAIN tokens : tokens[i].type = "Terminator" /\ tokens[i].length = 0})
LinesCounted ==
    pc \in {"director", "done", "failed"} =>
        \E cuts \in SUBSET UNION {Gap(i) : i \in 1 .. Len(tokens) + 1} :
            /\ \A i \in 1 .. Len(tokens) + 1 : Tiles(cuts \cap Gap(i), GapStart(i), GapEnd(i))
            /\ line = 1 + NewlinesBefore(index) + SkippedNewlines(cuts) + NewlineTerminators

(* Every handler that returns success has taken at least one character, so *)
(* lex_director never starts twice at the same place (lexer.c:80).         *)
HandlersConsume ==
    [][pc # "director" /\ pc' = "director" => index' > save_index']_vars

(* The lexer comes to an end on every text.                                *)
Terminates == <>(pc \in Terminal)

(* What the repository says and the lexer does not do.  Whatever the text, *)
(* a failure is reported with its message (token.c, lexer_err_msg and      *)
(* lexer_err_advice have one for a number that is too long and for a char  *)
(* that is not closed).                                                    *)
EveryFailureIsDiagnosed == pc # "aborted"

(* A newline or a semicolon behind a token gives a terminator              *)
(* (token.h:29).                                                           *)
SeparatorsMakeTerminators ==
    \A i \in 1 .. Len(tokens) - 1 :
        At(End(tokens[i])) \in {Newline, Semicolon} =>
            "Terminator" \in {tokens[i].type, tokens[i + 1].type}

(* No token is stored behind the array, whatever the length of the text    *)
(* (arraylist.h:78).                                                       *)
StoresInBounds == pc # "corrupted"

(* What the lexer gives the parser is a token stream.                      *)
Stream == INSTANCE TokenStream
    WITH Position <- 0 .. RUINT_MAX,
         EndMarks <- EXTRA_NULL_TERMINATORS,
         spans <- [i \in 1 .. Len(tokens) |->
                      [from |-> tokens[i].index, to |-> End(tokens[i]), mark |-> EndMark(i)]],
         verdict <- CASE pc = "done" -> "accepted"
                      [] pc \in Terminal \ {"done"} -> "rejected"
                      [] OTHER -> "open"
ImplementsTokenStream == Stream!StreamSpec
=============================================================================
