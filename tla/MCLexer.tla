------------------------------ MODULE MCLexer ------------------------------
(* Small instances of Lexer: families of short texts, each over the         *)
(* characters one group of handlers tells apart, and limits small enough    *)
(* for those texts to exceed.                                               *)
EXTENDS Lexer

TextsOver(S, lengths) == UNION {[1 .. n -> S] : n \in lengths}
Acceptable(T) == {t \in T : t[1] # NUL}

Comments    == TextsOver({"/", "*", Newline, "Z"}, {5})
                   \cup {<<"/", "*">> \o t : t \in TextsOver({"/", "*"}, {4})}
                   \cup {<<"/", "*", "/", "*">> \o t : t \in TextsOver({"/", "*", "Z"}, {4})}
Lines       == TextsOver({Newline, Semicolon, "Z", Space, "#"}, {4})
Strings     == TextsOver({Quote, Backslash, "Z"}, 5 .. 6)
Chars       == TextsOver({Tick, Backslash, "n", "Z", Newline}, {4})
Numbers     == TextsOver({"0", "x", "b", "9", "."}, {4}) \cup TextsOver({"0", "x", "A"}, {6})
                   \cup TextsOver({"0", "b", "1"}, {6})
Words       == TextsOver({"a", "s", Underscore, "1", Space}, {4})
                   \cup {row[1] \o <<c, Space>> : row \in Keywords, c \in {Underscore, "=", "Z"}}
                   \cup {[i \in 1 .. n |-> "Z"] : n \in 5 .. 8}
Symbols     == {<<c, d, "Z", "Z">> : c, d \in SymbolChar \cup {"$"}}
Builtins    == TextsOver({"@", "A", "1", Space}, {4})
EmbeddedNul == TextsOver({NUL, Quote, "/", "*", "#", Tick}, {4})
Invalid     == TextsOver({"$", "Z", Newline}, 4 .. 5)

MCTexts == Acceptable(UNION {Comments, Lines, Strings, Chars, Numbers, Words, Symbols,
                             Builtins, EmbeddedNul, Invalid})

(* Every text of up to three of these characters.                           *)
ShortTexts == Acceptable(TextsOver({"Z", Newline, Semicolon, "/", "*", Quote, Tick, "9", "."}, 1 .. 3))
=============================================================================
