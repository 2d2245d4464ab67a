------------------------------- MODULE Parser -------------------------------
(***************************************************************************)
(* The recursive descent parser of src/src/fe/parser.c over the tokens the *)
(* lexer leaves, up to parser_report_error and parser_deinit.              *)
(*                                                                         *)
(* stack stands for the C stack.  A frame has the function it belongs to   *)
(* (fn), where that function goes on when its callee returns (at), the     *)
(* node it holds in a local variable and whose owner it is (node), and the *)
(* index at its last call (op), from which the operator between two        *)
(* operands is read again.  result is the pointer the callee returned.     *)
(*                                                                         *)
(* Nodes are numbered in the order of their allocation.  live are those    *)
(* that are not freed, doomed the ones an ast_*_free has been called for   *)
(* and has not reached yet; while there are any, the parser itself waits.  *)
(* A node's memory and its array's are one.                                *)
(***************************************************************************)
EXTENDS Naturals, Sequences, FiniteSets, Characters, Ast

CONSTANT Files    \* records: the tokens, the offsets of the newlines, the length

Token == [type : TknType, index : Nat, line : Nat]

(* What the parser is given: the end marks are the last tokens, and there  *)
(* is one (TokenStream).                                                   *)
IsFile(f) ==
    /\ f.tokens \in Seq(Token) /\ f.length \in Nat /\ f.newlines \subseteq Nat
    /\ \E end \in 0 .. Len(f.tokens) - 1 :
          \A i \in 1 .. Len(f.tokens) : f.tokens[i].type = "EOT" <=> i > end
ASSUME FilesAssumption == \A f \in Files : IsFile(f)

VARIABLES file,                            \* p->lexer: its tokens and its file
          index, ast,                      \* the fields of Parser
          error, error_line, error_col,
          stack, result,                   \* the calls that are running
          heap, live, doomed,              \* the memory
          shown,                           \* what the report prints of the file
          pc                               \* "ready", "parsing", or how it ended

vars == <<file, index, ast, error, error_line, error_col, stack, result, heap, live, doomed,
          shown, pc>>
diagnosis == <<error, error_line, error_col>>
memory == <<heap, live>>

Null == 0
Fresh == Len(heap) + 1
top == stack[Len(stack)]
tokens == file.tokens

(* current, next and array_at(tokens, i): behind the last token stands a   *)
(* zero token.                                                             *)
TokenAt(i) == IF i < Len(tokens) THEN tokens[i + 1]
                                 ELSE [type |-> "EOT", index |-> 0, line |-> 0]
Type(i) == TokenAt(i).type

parser_init == /\ file \in Files
               /\ index = 0
               /\ ast = Null
               /\ error = "PE_UNKNOWN" /\ error_line = 1 /\ error_col = 1
               /\ stack = <<>> /\ result = Null
               /\ heap = <<>> /\ live = {} /\ doomed = {}
               /\ shown = <<>>
               /\ pc = "ready"

-----------------------------------------------------------------------------
(* What the parse functions are made of.                                   *)

(* Does fn go on at this point?  At every point but its entry it has been  *)
(* given a node.                                                           *)
At(fn, at) == top.fn = fn /\ top.at = at /\ (at # "entry" => result # Null)

(* advance: to i, but not behind the token array.                          *)
GoTo(i) == index' = IF i <= Len(tokens) THEN i ELSE Len(tokens)

(* skip_terminators, from i to j.                                          *)
skip_terminators(i, j) == /\ j \in i .. Len(tokens)
                          /\ \A k \in i .. j - 1 : Type(k) = "Terminator"
                          /\ Type(j) # "Terminator"

(* The first n tokens from index on, but not one more, are as in pattern.  *)
Matches(pattern, n) == /\ n \in 0 .. Len(pattern)
                       /\ \A k \in 1 .. n : Type(index + k - 1) = pattern[k]
                       /\ n < Len(pattern) => Type(index + n) # pattern[n + 1]

ReportsNextToken(err, i) == /\ error' = err
                            /\ error_line' = TokenAt(i + 1).line
                            /\ error_col' = TokenAt(i + 1).index + 1
set_parser_error(err, i) == /\ error' = err
                            /\ error_line' = TokenAt(i).line
                            /\ error_col' = TokenAt(i).index + 1

(* The constructors ast_*_create, with the pointers that are set before    *)
(* anything else happens, and a pointer that is set later on.              *)
Keep == UNCHANGED memory
Make(kind, i, kids) == /\ heap' = Append(heap, [kind |-> kind, token |-> i, kids |-> kids])
                       /\ live' = live \cup {Fresh}
Adopt(member) == /\ heap' = [heap EXCEPT ![top.node].kids = @ \cup {<<member, result>>}]
                 /\ UNCHANGED live

(* The ways a step of a function can end: it calls fn, holding node n; it  *)
(* returns n; it goes round its loop once more with n as its expression;   *)
(* or it frees what it has and returns null.                               *)
Outer == SubSeq(stack, 1, Len(stack) - 1)
Call(n, fn, at) ==
    /\ stack' = Outer \o <<[top EXCEPT !.at = at, !.node = n, !.op = index],
                           [fn |-> fn, at |-> "entry", node |-> Null, op |-> 0]>>
    /\ result' = Null
    /\ UNCHANGED <<doomed, pc>>
Return(n) == stack' = Outer /\ result' = n /\ UNCHANGED <<doomed, pc>>
Again(n, at) == /\ stack' = Append(Outer, [top EXCEPT !.at = at, !.node = Null])
                /\ result' = n
                /\ UNCHANGED <<doomed, pc>>
Fail(n) == stack' = Outer /\ result' = Null /\ doomed' = {n} \ {Null} /\ UNCHANGED pc

(* return f(p): the caller's frame is of no more use.                      *)
Become(fn) == /\ stack' = Append(Outer, [top EXCEPT !.fn = fn])
              /\ UNCHANGED <<result, doomed, pc>>

(* parse_expression                                                        *)
Expression == "assignment"

(* The last pointer of a node is set, and the node returned.               *)
Completes(fn, at, member) == /\ At(fn, at)
                             /\ GoTo(index)
                             /\ Adopt(member)
                             /\ Return(top.node)

(* The rest of a list in braces, from its item at i or its end.            *)
Items(n, i, item, at) ==
    \/ Type(i) = "CloseCurly" /\ GoTo(i + 1) /\ Return(n)
    \/ Type(i) = "EOT" /\ GoTo(i) /\ Fail(n)
    \/ /\ Type(i) \notin {"CloseCurly", "EOT"}
       /\ \E j \in 0 .. Len(tokens) : skip_terminators(i, j) /\ GoTo(j)
       /\ Call(n, item, at)

-----------------------------------------------------------------------------
(* Declarations.                                                           *)

(* The choice of parse_director.                                           *)
Keyword == [ImportKeyword |-> "import", FnKeyword |-> "function", StructKeyword |-> "struct",
            EnumKeyword |-> "enum", LetKeyword |-> "variable"]
Declaration(i) ==
    IF Type(i) = "Identifier" /\ Type(i + 1) = "Colon"
    THEN CASE Type(i + 2) = "Colon" /\ Type(i + 3) = "ImportKeyword" -> "import"
           [] Type(i + 2) = "Colon" /\ Type(i + 3) = "FnKeyword"     -> "function"
           [] OTHER                                                  -> "variable"
    ELSE IF Type(i) \in DOMAIN Keyword THEN Keyword[Type(i)] ELSE "none"

RetriesDeclaration(i) ==
    /\ GoTo(i)
    /\ IF Declaration(i) # "none"
       THEN Call(Null, Declaration(i), "declared") /\ UNCHANGED diagnosis
       ELSE /\ IF Type(i) = "EOT" THEN stack' = <<>> /\ pc' = "success"
                                  ELSE UNCHANGED <<stack, pc>>
            /\ UNCHANGED <<result, doomed, diagnosis>>
(* parse_director at the declaration that starts at i, or behind the last. *)
Declarations(i) ==
    /\ GoTo(i)
    /\ IF Type(i) # "EOT" /\ Declaration(i) = "none"
       THEN set_parser_error("PE_UNEXPECTED_TOKEN", i)
       ELSE UNCHANGED diagnosis
    /\ IF Declaration(i) # "none"
       THEN Call(Null, Declaration(i), "declared")
       ELSE /\ stack' = <<>>
            /\ result' = Null
            /\ pc' = IF Type(i) = "EOT" THEN "success" ELSE "failure"
            /\ UNCHANGED doomed

AdoptDeclaration ==
    /\ heap' = [heap EXCEPT ![ast].kids = @ \cup {<<"declarations", result>>}]
    /\ UNCHANGED live

SkipsAfterDeclaration ==
    \/ /\ At("director", "entry")
       /\ Keep
       /\ \E i \in 0 .. Len(tokens) : skip_terminators(index, i) /\ Declarations(i)
    \/ /\ At("director", "declared")
       /\ AdoptDeclaration
       /\ Declarations(index + 1)

parse_director ==
    \/ /\ At("director", "entry")
       /\ Keep
       /\ \E i \in 0 .. Len(tokens) : skip_terminators(index, i) /\ Declarations(i)
    \/ /\ At("director", "declared")
       /\ AdoptDeclaration
       /\ \E i \in 0 .. Len(tokens) : skip_terminators(index, i) /\ Declarations(i)

ImportPattern == <<"Identifier", "Colon", "Colon", "ImportKeyword", "StringLiteral">>
parse_import ==
    /\ At("import", "entry")
    /\ Make("AST_DECL_IMPORT", index, {})
    /\ \E n \in 0 .. Len(ImportPattern) :
          /\ Matches(ImportPattern, n)
          /\ GoTo(index + n)
          /\ IF n = Len(ImportPattern)
             THEN Return(Fresh) /\ UNCHANGED diagnosis
             ELSE /\ Fail(Fresh)
                  /\ set_parser_error(CASE n = 0 -> "PE_EXPECTED_IDENTIFIER"
                                        [] n = 4 -> "PE_EXPECTED_EXPRESSION"
                                        [] OTHER -> "PE_UNEXPECTED_TOKEN", index + n)

(* parse_function behind its parameters, then in front of one.             *)
Signature(n, i) ==
    IF Type(i) # "CloseParen"
    THEN GoTo(i) /\ Fail(n)
    ELSE /\ GoTo(i + 1)
         /\ IF Type(i + 1) = "OpenCurly" THEN Call(n, "block", "body")
                                         ELSE Call(n, "type", "return_type")
Parameters(n, i) == IF Type(i) \in {"CloseParen", "EOT"}
                    THEN Signature(n, i)
                    ELSE GoTo(i) /\ Call(n, "parameter", "parameters")

(* A name in front of "::" makes the test of the name's position and       *)
(* length fail: a name is never empty.                                     *)
FunctionHead == IF Type(index) = "Identifier"
                THEN <<"Identifier", "Colon", "Colon", "FnKeyword", "OpenParen">>
                ELSE <<"FnKeyword", "Identifier", "OpenParen">>
parse_function ==
    \/ /\ At("function", "entry")
       /\ Make("AST_DECL_FUNCTION", index, {})
       /\ \E n \in 0 .. Len(FunctionHead) :
             /\ Matches(FunctionHead, n)
             /\ IF n = Len(FunctionHead) THEN Parameters(Fresh, index + n)
                                         ELSE GoTo(index + n) /\ Fail(Fresh)
    \/ /\ At("function", "parameters")
       /\ Adopt("parameters")
       /\ IF Type(index) = "Comma" THEN Parameters(top.node, index + 1)
                                   ELSE Signature(top.node, index)
    \/ /\ At("function", "return_type")
       /\ GoTo(index)
       /\ Adopt("return_type")
       /\ Call(top.node, "block", "body")
    \/ Completes("function", "body", "body")

(* The bodies of the loops of parse_function, parse_struct and parse_enum: *)
(* a parameter may have a type, a field must, a member has none.           *)
parse_name ==
    \/ /\ top.at = "entry" /\ top.fn \in {"parameter", "field", "member"}
       /\ Type(index) # "Identifier"
       /\ GoTo(index) /\ Keep /\ Fail(Null)
    \/ /\ top.at = "entry" /\ top.fn \in {"parameter", "field", "member"}
       /\ Type(index) = "Identifier"
       /\ Make("AST_DECL_VARIABLE", index, {})
       /\ IF top.fn # "member" /\ Type(index + 1) = "Colon"
          THEN GoTo(index + 2) /\ Call(Fresh, "type", "type")
          ELSE GoTo(index + 1) /\ IF top.fn = "field" THEN Fail(Fresh) ELSE Return(Fresh)
    \/ Completes("parameter", "type", "type")
    \/ Completes("field", "type", "type")

parse_variable ==
    \/ /\ At("variable", "entry")
       /\ Make("AST_DECL_VARIABLE", index, {})
       /\ LET i == IF Type(index) = "LetKeyword" THEN index + 1 ELSE index
          IN \/ /\ Type(i) # "Identifier"
                /\ GoTo(i) /\ Fail(Fresh)
             \/ /\ Type(i) = "Identifier" /\ Type(i + 1) # "Colon"
                /\ GoTo(i + 1) /\ Fail(Fresh)
             \/ /\ Type(i) = "Identifier" /\ Type(i + 1) = "Colon"
                /\ IF Type(i + 2) = "Colon"
                   THEN GoTo(i + 3) /\ Call(Fresh, Expression, "initializer")
                   ELSE GoTo(i + 2) /\ Call(Fresh, "type", "type")
    \/ /\ At("variable", "type")
       /\ Adopt("type")
       /\ IF Type(index) = "Equal"
          THEN GoTo(index + 1) /\ Call(top.node, Expression, "initializer")
          ELSE GoTo(index) /\ Fail(top.node)
    \/ Completes("variable", "initializer", "initializer")

(* keyword name {                                                          *)
ListHead(kind, keyword, item, at) ==
    /\ Make(kind, index, {})
    /\ \E n \in 0 .. 3 :
          /\ Matches(<<keyword, "Identifier", "OpenCurly">>, n)
          /\ IF n = 3 THEN Items(Fresh, index + n, item, at)
                      ELSE GoTo(index + n) /\ Fail(Fresh)

parse_struct ==
    \/ /\ At("struct", "entry")
       /\ ListHead("AST_DECL_STRUCT", "StructKeyword", "field", "fields")
    \/ /\ At("struct", "fields")
       /\ Adopt("fields")
       /\ \E i \in 0 .. Len(tokens) : /\ skip_terminators(index, i)
                                      /\ Items(top.node, i, "field", "fields")

parse_enum ==
    \/ /\ At("enum", "entry")
       /\ ListHead("AST_DECL_ENUM", "EnumKeyword", "member", "members")
    \/ /\ At("enum", "members")
       /\ Adopt("members")
       /\ \/ /\ Type(index) = "Comma"
             /\ \E i \in 0 .. Len(tokens) : /\ skip_terminators(index + 1, i)
                                            /\ Items(top.node, i, "member", "members")
          \/ /\ Type(index) = "CloseCurly"
             /\ GoTo(index + 1) /\ Return(top.node)
          \/ /\ Type(index) \notin {"Comma", "CloseCurly"}
             /\ GoTo(index) /\ Fail(top.node)

-----------------------------------------------------------------------------
(* Statements.                                                             *)

StatementKeyword == [IfKeyword |-> "if", WhileKeyword |-> "while", ForKeyword |-> "for",
                     RetKeyword |-> "return", OpenCurly |-> "block"]

(* let, or an identifier and a colon that begins neither ":=" nor "::".    *)
StartsVariable == \/ Type(index) = "LetKeyword"
                  \/ /\ Type(index) = "Identifier" /\ Type(index + 1) = "Colon"
                     /\ index + 2 < Len(tokens)
                     /\ Type(index + 2) \notin {"Equal", "Colon"}

parse_statement ==
    \/ /\ At("statement", "entry")
       /\ UNCHANGED index /\ Keep
       /\ \/ /\ Type(index) \in DOMAIN StatementKeyword
             /\ Become(StatementKeyword[Type(index)])
          \/ /\ Type(index) \notin DOMAIN StatementKeyword
             /\ IF StartsVariable THEN Call(Null, "variable", "declaration")
                                  ELSE Call(Null, Expression, "expression")
    \/ /\ At("statement", "declaration")
       /\ UNCHANGED index
       /\ Make("AST_STMT_DECL", heap[result].token, {<<"declaration", result>>})
       /\ Return(Fresh)
    \/ /\ At("statement", "expression")
       /\ UNCHANGED index
       /\ Make("AST_STMT_EXPR", heap[result].token, {<<"expression", result>>})
       /\ Return(Fresh)

parse_block ==
    \/ /\ At("block", "entry") /\ Type(index) # "OpenCurly"
       /\ UNCHANGED index /\ Keep /\ Fail(Null)
    \/ /\ At("block", "entry") /\ Type(index) = "OpenCurly"
       /\ Make("AST_STMT_BLOCK", index, {})
       /\ Items(Fresh, index + 1, "statement", "statements")
    \/ /\ At("block", "statements")
       /\ Adopt("statements")
       /\ \E i \in 0 .. Len(tokens) : /\ skip_terminators(index, i)
                                      /\ Items(top.node, i, "statement", "statements")

(* ")" and the statement that follows.                                     *)
Closed(at) == IF Type(index) = "CloseParen"
              THEN GoTo(index + 1) /\ Call(top.node, "statement", at)
              ELSE GoTo(index) /\ Fail(top.node)

parse_if_statement ==
    \/ /\ At("if", "entry")
       /\ Make("AST_STMT_IF", index, {})
       /\ IF Type(index + 1) = "OpenParen"
          THEN GoTo(index + 2) /\ Call(Fresh, Expression, "condition_in_parens")
          ELSE GoTo(index + 1) /\ Call(Fresh, Expression, "condition")
    \/ /\ At("if", "condition_in_parens")
       /\ Adopt("condition")
       /\ Closed("then_stmt")
    \/ /\ At("if", "condition")
       /\ Adopt("condition")
       /\ GoTo(index) /\ Call(top.node, "statement", "then_stmt")
    \/ /\ At("if", "then_stmt")
       /\ Adopt("then_stmt")
       /\ IF Type(index) = "ElseKeyword"
          THEN GoTo(index + 1) /\ Call(top.node, "statement", "else_stmt")
          ELSE GoTo(index) /\ Return(top.node)
    \/ Completes("if", "else_stmt", "else_stmt")

parse_while_statement ==
    \/ /\ At("while", "entry")
       /\ Make("AST_STMT_WHILE", index, {})
       /\ IF Type(index + 1) = "OpenParen"
          THEN GoTo(index + 2) /\ Call(Fresh, Expression, "condition")
          ELSE GoTo(index + 1) /\ Fail(Fresh)
    \/ /\ At("while", "condition")
       /\ Adopt("condition")
       /\ Closed("body")
    \/ Completes("while", "body", "body")

(* for name in range: the variable gets a declaration of its own.          *)
parse_for_range ==
    \/ /\ At("for", "entry") /\ Type(index + 1) = "Identifier"
       /\ Make("AST_STMT_FOR", index, {})
       /\ IF Type(index + 2) = "InKeyword"
          THEN GoTo(index + 3) /\ Call(Fresh, Expression, "range")
          ELSE GoTo(index + 2) /\ Fail(Fresh)
    \/ /\ At("for", "range")
       /\ LET name      == heap[top.node].token + 1
              var_decl  == [kind |-> "AST_DECL_VARIABLE", token |-> name, kids |-> {}]
              init_stmt == [kind |-> "AST_STMT_DECL", token |-> name,
                            kids |-> {<<"declaration", Fresh>>}]
              wired     == [heap EXCEPT ![top.node].kids =
                               @ \cup {<<"init", Fresh + 1>>, <<"condition", result>>}]
          IN heap' = wired \o <<var_decl, init_stmt>>
       /\ live' = live \cup {Fresh, Fresh + 1}
       /\ GoTo(index) /\ Call(top.node, "statement", "body")
    \/ Completes("for", "body", "body")

(* for (init; condition; update).  Init, condition and update may be left  *)
(* out, the first two only in front of a terminator.                       *)
ForUpdate(n, i) == IF Type(i) = "CloseParen"
                   THEN GoTo(i + 1) /\ Call(n, "statement", "body")
                   ELSE GoTo(i) /\ Call(n, "statement", "update")
ForCondition(n, i) == IF Type(i) = "Terminator"
                      THEN ForUpdate(n, i + 1)
                      ELSE GoTo(i) /\ Call(n, Expression, "condition")
match_terminator(i) == IF Type(i) = "Terminator" THEN i + 1 ELSE i

parse_for_clauses ==
    \/ /\ At("for", "entry") /\ Type(index + 1) # "Identifier"
       /\ Make("AST_STMT_FOR", index, {})
       /\ IF Type(index + 1) # "OpenParen"
          THEN GoTo(index + 1) /\ Fail(Fresh)
          ELSE IF Type(index + 2) = "Terminator"
               THEN ForCondition(Fresh, index + 3)
               ELSE GoTo(index + 2) /\ Call(Fresh, "statement", "init")
    \/ /\ At("for", "init")
       /\ Adopt("init")
       /\ ForCondition(top.node, match_terminator(index))
    \/ /\ At("for", "condition")
       /\ Adopt("condition")
       /\ ForUpdate(top.node, match_terminator(index))
    \/ /\ At("for", "update")
       /\ Adopt("update")
       /\ Closed("body")

ReturnsAsExpression ==
    \/ /\ At("return", "entry")
       /\ Make("AST_STMT_RETURN", index, {})
       /\ GoTo(index + 1)
       /\ IF Type(index + 1) \in {"Terminator", "CloseCurly"}
          THEN Return(Fresh)
          ELSE Call(Fresh, Expression, "value")
    \/ Completes("return", "value", "expression")

parse_return_statement ==
    \/ /\ At("return", "entry")
       /\ Make("AST_STMT_RETURN", index, {})
       /\ GoTo(index + 1)
       /\ IF Type(index + 1) \in {"Terminator", "CloseCurly"}
          THEN Return(Fresh)
          ELSE Call(Fresh, Expression, "value")
    \/ Completes("return", "value", "value")

-----------------------------------------------------------------------------
(* Expressions.                                                            *)

(* The tokens of an assignment's operator.                                 *)
AssignLength == CASE Type(index) \in {"Equal", "AddEqual", "SubEqual", "MultEqual",
                                      "DivEqual"}                                -> 1
                  [] Type(index) = "Colon" /\ Type(index + 1) \in {"Equal", "Colon"} -> 2
                  [] OTHER                                                        -> 0
parse_assignment ==
    \/ /\ At("assignment", "entry")
       /\ UNCHANGED index /\ Keep
       /\ Call(Null, "logical_or", "target")
    \/ /\ At("assignment", "target")
       /\ GoTo(index + AssignLength) /\ Keep
       /\ IF AssignLength = 0 THEN Return(result) ELSE Call(result, "assignment", "value")
    \/ /\ At("assignment", "value")
       /\ UNCHANGED index
       /\ Make("AST_EXPR_ASSIGN", top.op, {<<"target", top.node>>, <<"value", result>>})
       /\ Return(Fresh)

(* The levels of binary operators: what parses the operands, and what      *)
(* stands between them.                                                    *)
TermInFactor == [logical_or |-> "logical_and", logical_and |-> "equality",
                 equality |-> "comparison", comparison |-> "factor", factor |-> "term",
                 term |-> "unary"]
Tighter == [logical_or |-> "logical_and", logical_and |-> "equality", equality |-> "comparison",
            comparison |-> "term", term |-> "factor", factor |-> "unary"]
Operators == [logical_or  |-> {"OrKeyword"},
              logical_and |-> {"AndKeyword"},
              equality    |-> {"NotEqual", "EqualEqual"},
              comparison  |-> {"Greater", "GreaterEql", "Less", "LessEql", "DotDot"},
              term        |-> {"MinusOperator", "PlusOperator"},
              factor      |-> {"DivOperator", "MultOperator", "Mod"}]
parse_binary(level) ==
    \/ /\ At(level, "entry")
       /\ UNCHANGED index /\ Keep
       /\ Call(Null, Tighter[level], "operand")
    \/ /\ At(level, "operand")
       /\ Keep
       /\ IF Type(index) \in Operators[level]
          THEN GoTo(index + 1) /\ Call(result, Tighter[level], "right")
          ELSE GoTo(index) /\ Return(result)
    \/ /\ At(level, "right")
       /\ UNCHANGED index
       /\ Make("AST_EXPR_BINARY", top.op, {<<"left", top.node>>, <<"right", result>>})
       /\ Again(Fresh, "operand")

UnaryKeepsOperator ==
    \/ /\ At("unary", "entry")
       /\ Keep
       /\ IF Type(index) \in {"Not", "MinusOperator"}
          THEN GoTo(index) /\ Call(Null, "unary", "operand")
          ELSE GoTo(index) /\ Become("call")
    \/ /\ At("unary", "operand")
       /\ UNCHANGED index
       /\ Make("AST_EXPR_UNARY", top.op, {<<"operand", result>>})
       /\ Return(Fresh)

parse_unary ==
    \/ /\ At("unary", "entry")
       /\ Keep
       /\ IF Type(index) \in {"Not", "MinusOperator"}
          THEN GoTo(index + 1) /\ Call(Null, "unary", "operand")
          ELSE GoTo(index) /\ Become("call")
    \/ /\ At("unary", "operand")
       /\ UNCHANGED index
       /\ Make("AST_EXPR_UNARY", top.op, {<<"operand", result>>})
       /\ Return(Fresh)

parse_call ==
    \/ /\ At("call", "entry")
       /\ UNCHANGED index /\ Keep
       /\ Call(Null, "primary", "postfix")
    \/ /\ At("call", "postfix") /\ Type(index) = "OpenParen"
       /\ Make("AST_EXPR_CALL", heap[result].token, {<<"callee", result>>})
       /\ IF Type(index + 1) = "CloseParen"
          THEN GoTo(index + 2) /\ Again(Fresh, "postfix")
          ELSE GoTo(index + 1) /\ Call(Fresh, Expression, "arguments")
    \/ /\ At("call", "postfix") /\ Type(index) = "Dot" /\ Type(index + 1) = "Identifier"
       /\ Make("AST_EXPR_MEMBER", index + 1, {<<"object", result>>})
       /\ GoTo(index + 2) /\ Again(Fresh, "postfix")
    \/ /\ At("call", "postfix") /\ Type(index) = "Dot" /\ Type(index + 1) # "Identifier"
       /\ GoTo(index + 1) /\ Keep /\ Fail(result)
    \/ /\ At("call", "postfix") /\ Type(index) \notin {"OpenParen", "Dot"}
       /\ UNCHANGED index /\ Keep /\ Return(result)
    \/ /\ At("call", "arguments")
       /\ Adopt("arguments")
       /\ CASE Type(index) = "Comma"      -> /\ GoTo(index + 1)
                                             /\ Call(top.node, Expression, "arguments")
            [] Type(index) = "CloseParen" -> GoTo(index + 1) /\ Again(top.node, "postfix")
            [] OTHER                      -> GoTo(index) /\ Fail(top.node)

Literals == {"TrueLiteral", "FalseLiteral", "NilLiteral", "IntegerLiteral", "FloatLiteral",
             "StringLiteral", "CharLiteral"}
(* The only failure of an expression that names a place.                   *)
parse_primary ==
    \/ /\ At("primary", "entry") /\ Type(index) \in Literals \cup {"Identifier"}
       /\ Make(IF Type(index) = "Identifier" THEN "AST_EXPR_IDENTIFIER"
                                             ELSE "AST_EXPR_LITERAL", index, {})
       /\ GoTo(index + 1) /\ Return(Fresh) /\ UNCHANGED diagnosis
    \/ /\ At("primary", "entry") /\ Type(index) = "OpenParen"
       /\ Keep
       /\ GoTo(index + 1) /\ Call(Null, Expression, "parenthesis") /\ UNCHANGED diagnosis
    \/ /\ At("primary", "entry") /\ Type(index) \notin Literals \cup {"Identifier", "OpenParen"}
       /\ Keep
       /\ GoTo(index) /\ Fail(Null) /\ set_parser_error("PE_EXPECTED_EXPRESSION", index)
    \/ /\ At("primary", "parenthesis")
       /\ Keep /\ UNCHANGED diagnosis
       /\ IF Type(index) = "CloseParen" THEN GoTo(index + 1) /\ Return(result)
                                        ELSE GoTo(index) /\ Fail(result)

BasicTypes == {"IntKeyword", "UIntKeyword", "FltKeyword", "BoolKeyword", "CharKeyword",
               "Identifier"}
(* "]" and the type of the elements.                                       *)
ElementType(n, i) == IF Type(i) = "CloseSQRBrackets"
                     THEN GoTo(i + 1) /\ Call(n, "type", "element_type")
                     ELSE GoTo(i) /\ Fail(n)
parse_type ==
    \/ /\ At("type", "entry") /\ Type(index) \in BasicTypes
       /\ Make("AST_TYPE_BASIC", index, {})
       /\ GoTo(index + 1) /\ Return(Fresh)
    \/ /\ At("type", "entry") /\ Type(index) = "OpenSQRBrackets"
       /\ Make("AST_TYPE_ARRAY", index, {})
       /\ IF Type(index + 1) = "CloseSQRBrackets"
          THEN ElementType(Fresh, index + 1)
          ELSE GoTo(index + 1) /\ Call(Fresh, Expression, "size")
    \/ /\ At("type", "entry") /\ Type(index) \notin BasicTypes \cup {"OpenSQRBrackets"}
       /\ UNCHANGED index /\ Keep /\ Fail(Null)
    \/ /\ At("type", "size")
       /\ Adopt("size")
       /\ ElementType(top.node, index)
    \/ Completes("type", "element_type", "element_type")

-----------------------------------------------------------------------------
(* A callee returned null: the caller frees the node it holds and returns  *)
(* null as well.                                                           *)
give_up ==
    /\ top.at # "entry" /\ result = Null
    /\ stack' = Outer
    /\ doomed' = {top.node} \ {Null}
    /\ pc' = IF Len(stack) = 1 THEN "failure" ELSE pc
    /\ UNCHANGED <<index, result>>
    /\ Keep

parse_step ==
    /\ pc = "parsing" /\ doomed = {}
    /\ UNCHANGED <<file, ast, shown>>
    /\ \/ parse_director \/ parse_import \/ parse_primary
       \/ /\ UNCHANGED diagnosis
          /\ \/ parse_function \/ parse_name \/ parse_variable \/ parse_struct \/ parse_enum
             \/ parse_statement \/ parse_block \/ parse_if_statement
             \/ parse_while_statement \/ parse_for_range \/ parse_for_clauses
             \/ parse_return_statement
             \/ parse_assignment \/ (\E level \in DOMAIN Tighter : parse_binary(level))
             \/ parse_unary \/ parse_call \/ parse_type
             \/ give_up

(* The file's node, and the call of parse_director.                        *)
parser_parse ==
    /\ pc = "ready"
    /\ Make("AST_PROGRAM", 0, {})
    /\ ast' = Fresh
    /\ stack' = <<[fn |-> "director", at |-> "entry", node |-> Null, op |-> 0]>>
    /\ pc' = "parsing"
    /\ UNCHANGED <<file, index, diagnosis, result, doomed, shown>>

(* One call of an ast_*_free: the node goes, and those it leads to follow. *)
free_node ==
    /\ doomed # {}
    /\ LET n == CHOOSE m \in doomed : TRUE
       IN /\ doomed' = (doomed \ {n}) \cup {kid[2] : kid \in {k \in heap[n].kids :
                                                              k[1] \in Freed(heap[n].kind)}}
          /\ live' = live \ {n}
    /\ UNCHANGED <<file, index, ast, diagnosis, stack, result, heap, shown, pc>>

(* The text that stands for the error's line: error_line is compared with  *)
(* offsets in the file.                                                    *)
LowPastTheLine ==
       LET lines == {i \in file.newlines : i <= error_line /\ i < file.length}
       IN IF lines = {} THEN 0 ELSE (CHOOSE i \in lines : \A j \in lines : j <= i) + 1
Low == LET lines == {i \in file.newlines : i < error_line /\ i < file.length}
       IN IF lines = {} THEN 0 ELSE (CHOOSE i \in lines : \A j \in lines : j <= i) + 1
High == LET lines == {i \in file.newlines : i >= error_line /\ i < file.length}
        IN IF lines = {} THEN file.length ELSE CHOOSE i \in lines : \A j \in lines : i <= j
parser_report_error ==
    /\ pc = "failure" /\ doomed = {}
    /\ shown' = <<Low, High>>
    /\ pc' = "reported"
    /\ UNCHANGED <<file, index, ast, diagnosis, stack, result, memory, doomed>>

parser_deinit ==
    /\ pc \in {"success", "reported"} /\ ast # Null /\ doomed = {}
    /\ doomed' = {ast}
    /\ ast' = Null
    /\ UNCHANGED <<file, index, diagnosis, stack, result, memory, shown, pc>>

Next == parser_parse \/ parse_step \/ free_node \/ parser_report_error \/ parser_deinit

Ended == pc \in {"success", "reported"} /\ ast = Null /\ doomed = {}

Spec == parser_init /\ [][Next]_vars /\ WF_vars(Next)


-----------------------------------------------------------------------------
(* Properties.                                                             *)

ParseErr == {"PE_UNKNOWN", "PE_UNEXPECTED_TOKEN", "PE_EXPECTED_IDENTIFIER",
             "PE_EXPECTED_EXPRESSION"}
Functions == DOMAIN Tighter \cup
    {"director", "import", "function", "parameter", "field", "member", "variable", "struct",
     "enum", "statement", "block", "if", "while", "for", "return", "assignment", "unary",
     "call", "primary", "type"}
Points ==
    {"entry", "declared", "parameters", "return_type", "body", "type", "initializer", "fields",
     "members", "declaration", "expression", "statements", "condition_in_parens", "condition",
     "then_stmt", "else_stmt", "range", "init", "update", "value", "target", "operand", "right",
     "postfix", "arguments", "parenthesis", "size", "element_type"}
Pointers == UNION {Members(kind) : kind \in AstNodeType}
Frame == [fn : Functions, at : Points, node : Nat, op : Nat]
Node == [kind : AstNodeType, token : Nat, kids : SUBSET (Pointers \X Nat)]
Nodes == 1 .. Len(heap)

(* Every pointer leads to a node that was allocated, and is one of the     *)
(* pointers that the node's kind has in its union.                         *)
TypeOK == /\ index \in 0 .. Len(tokens)
          /\ ast \in Nodes \cup {Null} /\ result \in Nodes \cup {Null}
          /\ error \in ParseErr /\ error_line \in Nat /\ error_col \in Nat
          /\ stack \in Seq(Frame)
          /\ \A i \in 1 .. Len(stack) : stack[i].node \in Nodes \cup {Null}
          /\ heap \in Seq(Node)
          /\ \A n \in Nodes : heap[n].kids \subseteq Members(heap[n].kind) \X Nodes
          /\ live \subseteq Nodes /\ doomed \subseteq Nodes
          /\ shown = <<>> \/ shown \in Nat \X Nat
          /\ pc \in {"ready", "parsing", "success", "failure", "reported"}

(* Whatever fails half way, every node that is not freed has exactly one   *)
(* owner -- a local variable, a pointer of a node, the pointer that is     *)
(* being returned, p->ast, or a call that frees it -- and a node that is   *)
(* freed has none: nothing leaks, nothing is freed twice and no pointer    *)
(* dangles (parser.c:183-333 and every "free ...; return nullptr").        *)
Owners(n) == {<<"frame", i, "node">> : i \in {j \in 1 .. Len(stack) : stack[j].node = n}}
             \cup (UNION {{<<"node", m, k[1]>> : k \in {h \in heap[m].kids : h[2] = n}} :
                             m \in live})
             \cup {o \in {<<"result", Null, "">>} : result = n}
             \cup {o \in {<<"parser", Null, "ast">>} : ast = n}
             \cup {o \in {<<"free", Null, "">>} : n \in doomed}
OwnedOnce == \A n \in Nodes : IF n \in live THEN \E o \in Owners(n) : Owners(n) = {o}
                                            ELSE Owners(n) = {}

(* An error that names a place names the token the parser stopped at, and  *)
(* no file with such an error is accepted; without one the report points   *)
(* at the start of the file (parser.c:115-122, 346-350, 1377).             *)
ErrorNamesStop ==
    IF error = "PE_UNKNOWN"
    THEN error_line = 1 /\ error_col = 1
    ELSE /\ error_line = TokenAt(index).line /\ error_col = TokenAt(index).index + 1
         /\ pc # "success"

(* The recursion is bounded by what has been read, nine calls for every    *)
(* token: no function calls itself, directly or not, without taking one    *)
(* (parser.c:376-1450).                                                    *)
DepthBounded == Len(stack) <= 2 + 9 * index

(* The tree is the one the levels of the operators promise: an operand     *)
(* binds tighter than its operator, on the left of a binary operator at    *)
(* least as tight, unless parentheses stand next to the operator           *)
(* (parser.c:1077-1290).                                                   *)
Levels == <<{"OrKeyword"}, {"AndKeyword"}, {"NotEqual", "EqualEqual"},
            {"Greater", "GreaterEql", "Less", "LessEql", "DotDot"},
            {"MinusOperator", "PlusOperator"}, {"DivOperator", "MultOperator", "Mod"}>>
Tightness(n) == CASE heap[n].kind = "AST_EXPR_ASSIGN" -> 0
                  [] heap[n].kind = "AST_EXPR_BINARY" ->
                        CHOOSE l \in DOMAIN Levels : Type(heap[n].token) \in Levels[l]
                  [] heap[n].kind = "AST_EXPR_UNARY" -> 7
                  [] OTHER -> 8
Binds(n, kid) ==
    CASE kid[1] = "left"    -> \/ Tightness(kid[2]) >= Tightness(n)
                               \/ Type(heap[n].token - 1) = "CloseParen"
      [] kid[1] = "right"   -> \/ Tightness(kid[2]) > Tightness(n)
                               \/ Type(heap[n].token + 1) = "OpenParen"
      [] kid[1] = "operand" -> \/ Tightness(kid[2]) >= 7
                               \/ Type(heap[n].token + 1) = "OpenParen"
      [] kid[1] = "target"  -> \/ Tightness(kid[2]) > 0
                               \/ Type(heap[n].token - 1) = "CloseParen"
      [] OTHER              -> TRUE
PrecedenceRespected == \A n \in Nodes : \A kid \in heap[n].kids : Binds(n, kid)

(* What the report prints lies inside the file and is one line of it, or   *)
(* the empty piece in front of a newline; the length it computes never     *)
(* wraps (parser.c:1513-1521).                                             *)
ReportShowsOneLine ==
    shown # <<>> => /\ shown[1] <= shown[2] /\ shown[2] <= file.length
                    /\ \A i \in file.newlines : ~(shown[1] <= i /\ i < shown[2])
                    /\ shown[1] # 0 => shown[1] - 1 \in file.newlines
                    /\ shown[2] # file.length => shown[2] \in file.newlines

(* Every file is parsed, reported when it fails, and its memory given back *)
(* in the end: no loop waits for a token that does not come (parser.c:381, *)
(* 534, 687, 751, 844, 1296).                                              *)
Terminates == <>Ended

(* The parser keeps its contract.                                          *)
EndOf == CHOOSE e \in 0 .. Len(tokens) : /\ Type(e) = "EOT"
                                         /\ \A i \in 0 .. e - 1 : Type(i) # "EOT"
Verdict == IF Ended THEN "closed"
           ELSE CASE pc = "success"                  -> "accepted"
                  [] pc \in {"failure", "reported"} -> "rejected"
                  [] OTHER                           -> "open"
Contract == INSTANCE ParseContract
                WITH end <- EndOf, pos <- index, arena <- live, verdict <- Verdict
ImplementsParse == Contract!ContractSpec

(* What the repository says and the parser does not do.  The context that  *)
(* is printed with an error that names a place holds that place            *)
(* (parser.c:1512).                                                        *)
ReportLocatesError ==
    shown # <<>> /\ error # "PE_UNKNOWN" =>
        shown[1] <= TokenAt(index).index /\ TokenAt(index).index <= shown[2]
=============================================================================
