------------------------------ MODULE MCParser ------------------------------
(* Small instances of Parser: files of one or two declarations that use      *)
(* every construct, the same with a token missing, replaced or the rest      *)
(* cut off, and the programs of the documentation.                           *)
EXTENDS Parser

LOCAL INSTANCE SequencesExt

(* The texts.  Every token is followed by a blank or, every period tokens,   *)
(* by a newline, which counts for two lines (Lexer); a token's line is that  *)
(* in front of the separator before it.                                      *)
Width == [type \in TknType |->
             CASE type \in {row[2] : row \in Keywords} ->
                        Len((CHOOSE row \in Keywords : row[2] = type)[1])
               [] type \in {row[3] : row \in TwoCharSymbols} \cup {"FloatLiteral",
                            "StringLiteral", "DotDot"} -> 2
               [] type = "CharLiteral" -> 3
               [] OTHER -> 1]
Offsets(types) == FoldLeft(LAMBDA s, type : Append(s, s[Len(s)] + Width[type] + 1), <<0>>, types)
TextOf(types, period) ==
    LET n == Len(types)
        offsets == Offsets(types)
        lines(i) == {j \in 1 .. i : j % period = 0}
        line(i) == 1 + 2 * Cardinality(lines(i - 2))
        token(i) == [type  |-> types[i], line |-> line(i),
                     index |-> offsets[i] + (IF types[i] = "DotDot" THEN 1 ELSE 0)]
        EOT == [type |-> "EOT", index |-> offsets[n + 1], line |-> line(n + 1)]
    IN [tokens   |-> [i \in 1 .. n |-> token(i)] \o <<EOT, EOT, EOT>>,
        newlines |-> {offsets[i + 1] - 1 : i \in lines(n)},
        length   |-> offsets[n + 1]]

Id == "Identifier"
Num == "IntegerLiteral"
C == "Colon"
Main(body) == <<Id, C, C, "FnKeyword", "OpenParen", "CloseParen", "OpenCurly">> \o body
                  \o <<"CloseCurly">>

(* Declarations.                                                             *)
Import == <<Id, C, C, "ImportKeyword", "StringLiteral">>
Named == <<"FnKeyword", Id, "OpenParen", Id, C, "IntKeyword", "Comma", Id, "CloseParen",
           "BoolKeyword", "OpenCurly", "CloseCurly">>
Struct == <<"StructKeyword", Id, "OpenCurly", Id, C, "UIntKeyword",
            Id, C, "OpenSQRBrackets", Num, "CloseSQRBrackets", "OpenSQRBrackets",
            "CloseSQRBrackets", Id, "CloseCurly">>
Enum == <<"EnumKeyword", Id, "OpenCurly", Id, "Comma", Id, "CloseCurly">>
Let == <<"LetKeyword", Id, C, "FltKeyword", "Equal", "FloatLiteral">>
Constant == <<Id, C, C, Num>>
Declared == {Import, Named, Struct, Enum, Let, Constant, <<"Terminator">> \o Constant,
             Constant \o Import, Main(<<>>)}

(* Statements.                                                               *)
Call1 == <<Id, "Dot", Id, "OpenParen", Id, "Comma", Num, "CloseParen">>
If == <<"IfKeyword", Id, "OpenCurly", "CloseCurly", "ElseKeyword", Id>>
IfParens == <<"IfKeyword", "OpenParen", Id, "CloseParen", Id>>
While == <<"WhileKeyword", "OpenParen", Id, "CloseParen", "OpenCurly", "CloseCurly">>
ForRange == <<"ForKeyword", Id, "InKeyword", Num, "DotDot", Num, "OpenCurly", "CloseCurly">>
ForClauses == <<"ForKeyword", "OpenParen", Id, C, "Equal", Num, Id, "Less", Num,
                Id, "AddEqual", Num, "CloseParen", Id>>
ForBare == <<"ForKeyword", "OpenParen", Id, Id, "CloseParen", Id>>
Statements == {Call1, If, IfParens, While, ForRange, ForClauses, ForBare,
               <<"RetKeyword">>, <<"RetKeyword", Id>>, <<"LetKeyword", Id, C, C, Num>>,
               <<Id, C, "CharKeyword", "Equal", "CharLiteral">>, <<Id, C, C, Id>>,
               <<Id, "OpenParen", "CloseParen">>, <<Id, "Equal", "Not", "OpenParen", Id,
               "CloseParen">>,
               <<"IfKeyword", Id, "RetKeyword", Num, "ElseKeyword", "IfKeyword", Id, Id>>,
               <<"WhileKeyword", "OpenParen", "TrueLiteral", "CloseParen", "IfKeyword", Id,
               "OpenCurly", Id, "Equal", "MinusOperator", Num, "CloseCurly">>}

(* A token is missing, replaced, or the last one.                            *)
Without(s, i) == SubSeq(s, 1, i - 1) \o SubSeq(s, i + 1, Len(s))
Others == {Id, C, "Equal", "OpenCurly", "CloseCurly", "OpenParen", "CloseParen", "PlusOperator"}
Broken(s) == {s} \cup {SubSeq(s, 1, i) : i \in 1 .. Len(s) - 1}
                 \cup {Without(s, i) : i \in 1 .. Len(s)}
                 \cup {[s EXCEPT ![i] = t] : i \in 1 .. Len(s), t \in Others}

(* Operators of every level, beside and below one another, and in            *)
(* parentheses.                                                              *)
OneOfEach == {"OrKeyword", "AndKeyword", "EqualEqual", "Less", "PlusOperator",
              "MinusOperator", "MultOperator", "DivOperator"}
Parens(s) == <<"OpenParen">> \o s \o <<"CloseParen">>
Operands == {<<Id, a, Id, b, Id>> : a, b \in OneOfEach}
                \cup {Parens(<<Id, a, Id>>) \o <<b, Id>> : a, b \in OneOfEach}
                \cup {<<Id, a>> \o Parens(<<Id, b, Id>>) : a, b \in OneOfEach}
                \cup {<<Id, a, "MinusOperator", "Not", Id, b, Id>> : a, b \in OneOfEach}
                \cup {<<Id, "AndKeyword", Id, "PlusOperator", Id, "MultOperator", Id,
                        "Less", Id, "OrKeyword", Id>>}
                \cup {<<Id, a, Id, b, Id>> : a \in {"Equal", "SubEqual"},
                                             b \in {"PlusOperator", "MultEqual", "DivEqual"}}
Expressions == {<<Id, C, C>> \o s : s \in Operands}

Texts == UNION {Broken(s) : s \in Declared} \cup UNION {{Main(s) : s \in Broken(t)} : t \in Statements}
             \cup Expressions
MCFiles == {TextOf(s, 1 + (Len(s) % 3)) : s \in Texts}

(* Files with an error and few or many lines in front of it.                 *)
ReportFiles == {TextOf(s, p) : s \in Broken(Constant \o Constant), p \in 1 .. 4}

(* The programs of docs.md, as test/*.vr has them: 005, 007, 009, 010.       *)
WhileProgram == TextOf(Main(<<Id, C, "Equal", "TrueLiteral", "WhileKeyword", Id, "OpenCurly",
                              Id, "Equal", "FalseLiteral", "CloseCurly">>), 4)
ForProgram == TextOf(Main(ForRange), 4)
StructProgram == TextOf(<<Id, C, C, "StructKeyword", "OpenCurly", Id, C, "IntKeyword", "Comma",
                          Id, C, "OpenSQRBrackets", Num, "CloseSQRBrackets", "IntKeyword",
                          "Comma", "CloseCurly">>, 4)
EnumProgram == TextOf(<<Id, C, C, "EnumKeyword", "OpenCurly", Id, "Comma", Id, "Comma",
                        "CloseCurly">>, 4)
DocumentedFiles == {WhileProgram, ForProgram, StructProgram, EnumProgram}

(* The programs of the documentation are parsed: the parser has a function   *)
(* for every construct and the test files are those of the documentation     *)
(* (docs/docs.md:102, docs/changelog.md:17).                                 *)
DocumentedProgramsParse == pc # "failure"
=============================================================================
