----------------------------- MODULE Characters -----------------------------
(***************************************************************************)
(* The characters the lexer tells apart and the tables it reads them with. *)
(* "A" stands for the capital letters of hexadecimal numbers, "Z" for the  *)
(* other letters in no keyword, "9" for every digit but 0 and 1, Space for *)
(* the space, the tab and the carriage return, "$" for the characters no   *)
(* rule of the lexer takes.                                                *)
(***************************************************************************)
EXTENDS Sequences

NUL        == "NUL"
Newline    == "newline"
Space      == "space"
Quote      == "quote"
Tick       == "tick"
Backslash  == "backslash"
Underscore == "underscore"
Semicolon  == "semicolon"
Comma      == "comma"
OpenBrace  == "open_brace"
CloseBrace == "close_brace"

(* The classes of ctype.h that the lexer uses.                             *)
HexLetter == {"A", "a", "b", "c", "d", "e", "f"}
Alpha     == HexLetter \cup {"g", "h", "i", "j", "k", "l", "m", "n", "o", "p", "q", "r",
                             "s", "t", "u", "v", "w", "x", "y", "z", "Z"}
Bit       == {"0", "1"}
Digit     == Bit \cup {"9"}
HexDigit  == Digit \cup HexLetter

IdStart == Alpha \cup {Underscore}
IdChar  == IdStart \cup Digit
Blank   == {Space}
Escape  == {"n", "t", "r", Backslash, Tick}

(* lex_symbols: the symbols of one character ...                           *)
OneCharSymbols == {
    <<OpenBrace, "OpenCurly">>, <<CloseBrace, "CloseCurly">>,
    <<"(", "OpenParen">>, <<")", "CloseParen">>,
    <<"[", "OpenSQRBrackets">>, <<"]", "CloseSQRBrackets">>,
    <<Comma, "Comma">>, <<".", "Dot">>,
    <<"%", "Mod">>, <<":", "Colon">>, <<">", "Greater">>, <<"<", "Less">>, <<"=", "Equal">>,
    <<"+", "PlusOperator">>, <<"-", "MinusOperator">>, <<"*", "MultOperator">>,
    <<"/", "DivOperator">>, <<"!", "Not">> }

(* ... and those that a second character extends.                          *)
TwoCharSymbols == {
    <<">", "=", "GreaterEql">>, <<">", ">", "RightShift">>, <<"<", "=", "LessEql">>,
    <<"<", "<", "LeftShift">>, <<"=", "=", "EqualEqual">>, <<"+", "=", "AddEqual">>,
    <<"-", "=", "SubEqual">>, <<"*", "=", "MultEqual">>, <<"/", "=", "DivEqual">>,
    <<"!", "=", "NotEqual">> }

SymbolChar == {row[1] : row \in OneCharSymbols}

Char == IdChar \cup Blank \cup SymbolChar
               \cup {NUL, Newline, Quote, Tick, Backslash, Semicolon, "#", "@", "$"}

(* The switch of lex_identifiers on the length and first letter of a word. *)
Keywords == {
    << <<"a","s">>, "AsKeyword">>,         << <<"f","n">>, "FnKeyword">>,
    << <<"i","f">>, "IfKeyword">>,         << <<"i","n">>, "InKeyword">>,
    << <<"o","r">>, "OrKeyword">>,         << <<"l","e","t">>, "LetKeyword">>,
    << <<"f","o","r">>, "ForKeyword">>,    << <<"p","u","b">>, "PubKeyword">>,
    << <<"i","n","t">>, "IntKeyword">>,    << <<"r","e","f">>, "RefKeyword">>,
    << <<"r","e","t">>, "RetKeyword">>,    << <<"a","n","d">>, "AndKeyword">>,
    << <<"n","i","l">>, "NilLiteral">>,    << <<"e","l","s","e">>, "ElseKeyword">>,
    << <<"e","n","u","m">>, "EnumKeyword">>, << <<"t","r","u","e">>, "TrueLiteral">>,
    << <<"c","h","a","r">>, "CharKeyword">>, << <<"b","o","o","l">>, "BoolKeyword">>,
    << <<"u","i","n","t">>, "UIntKeyword">>, << <<"f","a","l","l">>, "FallKeyword">>,
    << <<"w","h","i","l","e">>, "WhileKeyword">>, << <<"f","a","l","s","e">>, "FalseLiteral">>,
    << <<"f","l","o","a","t">>, "FltKeyword">>,   << <<"b","r","e","a","k">>, "BreakKeyword">>,
    << <<"i","m","p","o","r","t">>, "ImportKeyword">>,
    << <<"d","e","l","e","t","e">>, "DeleteKeyword">>,
    << <<"s","t","r","u","c","t">>, "StructKeyword">>,
    << <<"s","w","i","t","c","h">>, "SwitchKeyword">> }

WordType(word) == IF \E row \in Keywords : row[1] = word
                  THEN (CHOOSE row \in Keywords : row[1] = word)[2]
                  ELSE "Identifier"

(* The token types the lexer can produce, and the errors of token.h; the   *)
(* last two are those lexer_err_msg has no text for.                       *)
TknType == {"Identifier", "BuiltinId", "IntegerLiteral", "FloatLiteral", "StringLiteral",
            "CharLiteral", "Terminator", "DotDot", "EOT"}
           \cup {row[2] : row \in OneCharSymbols} \cup {row[3] : row \in TwoCharSymbols}
           \cup {row[2] : row \in Keywords}

LexErr == {"LEXER_INVALID_CHAR", "TOO_LONG_IDENTIFIER", "TOO_LONG_STRING",
           "NOT_VALID_ESCAPE_CHAR", "NOT_CLOSED_STRING", "UNKNOWN", "UNSUPPORTED"}
HasMessage(error) == error \notin {"UNKNOWN", "UNSUPPORTED"}
=============================================================================
