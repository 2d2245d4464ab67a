-------------------------------- MODULE Ast --------------------------------
(***************************************************************************)
(* The nodes of the syntax tree, as far as memory is concerned: which      *)
(* pointers to other nodes a node of each kind has (the tagged unions of   *)
(* type.h), and which of them the functions that free a node follow        *)
(* (parser.c).  Nothing in C makes the two agree.  A kind that is in no    *)
(* table has no pointers.                                                  *)
(***************************************************************************)

AstNodeType == {
    "AST_PROGRAM",
    "AST_DECL_IMPORT", "AST_DECL_FUNCTION", "AST_DECL_VARIABLE", "AST_DECL_STRUCT",
    "AST_DECL_ENUM",
    "AST_STMT_EXPR", "AST_STMT_DECL", "AST_STMT_IF", "AST_STMT_WHILE", "AST_STMT_FOR",
    "AST_STMT_RETURN", "AST_STMT_BREAK", "AST_STMT_DEFER", "AST_STMT_BLOCK",
    "AST_EXPR_LITERAL", "AST_EXPR_IDENTIFIER", "AST_EXPR_BINARY", "AST_EXPR_UNARY",
    "AST_EXPR_CALL", "AST_EXPR_MEMBER", "AST_EXPR_ASSIGN",
    "AST_TYPE_BASIC", "AST_TYPE_ARRAY", "AST_TYPE_FUNCTION", "AST_TYPE_STRUCT",
    "AST_TYPE_ENUM" }

(* The pointers of each union member, arrays of pointers among them.       *)
AstProgram == [AST_PROGRAM |-> {"declarations"}]
AstType == [AST_TYPE_ARRAY    |-> {"element_type", "size"},
            AST_TYPE_FUNCTION |-> {"param_types", "return_type"}]
AstExpr == [AST_EXPR_BINARY |-> {"left", "right"},
            AST_EXPR_UNARY  |-> {"operand"},
            AST_EXPR_CALL   |-> {"callee", "arguments"},
            AST_EXPR_MEMBER |-> {"object"},
            AST_EXPR_ASSIGN |-> {"target", "value"}]
AstStmt == [AST_STMT_EXPR   |-> {"expression"},
            AST_STMT_DECL   |-> {"declaration"},
            AST_STMT_IF     |-> {"condition", "then_stmt", "else_stmt"},
            AST_STMT_WHILE  |-> {"condition", "body"},
            AST_STMT_FOR    |-> {"init", "condition", "update", "body"},
            AST_STMT_RETURN |-> {"value"},
            AST_STMT_DEFER  |-> {"statement"},
            AST_STMT_BLOCK  |-> {"statements"}]
AstDecl == [AST_DECL_FUNCTION |-> {"parameters", "return_type", "body"},
            AST_DECL_VARIABLE |-> {"type", "initializer"},
            AST_DECL_STRUCT   |-> {"fields"},
            AST_DECL_ENUM     |-> {"members"}]

(* The pointers that each case of the functions that free a node follows.  *)
ast_program_free == [AST_PROGRAM |-> {"declarations"}]
ast_type_free == [AST_TYPE_ARRAY    |-> {"element_type", "size"},
                  AST_TYPE_FUNCTION |-> {"param_types", "return_type"}]
ast_expr_free == [AST_EXPR_BINARY |-> {"left", "right"},
                  AST_EXPR_UNARY  |-> {"operand"},
                  AST_EXPR_CALL   |-> {"callee", "arguments"},
                  AST_EXPR_MEMBER |-> {"object"},
                  AST_EXPR_ASSIGN |-> {"target", "value"}]
StmtFreeForgetsElse ==
                 [AST_STMT_EXPR   |-> {"expression"},
                  AST_STMT_DECL   |-> {"declaration"},
                  AST_STMT_IF     |-> {"condition", "then_stmt"},
                  AST_STMT_WHILE  |-> {"condition", "body"},
                  AST_STMT_FOR    |-> {"init", "condition", "update", "body"},
                  AST_STMT_RETURN |-> {"value"},
                  AST_STMT_BLOCK  |-> {"statements"}]
ast_stmt_free == [AST_STMT_EXPR   |-> {"expression"},
                  AST_STMT_DECL   |-> {"declaration"},
                  AST_STMT_IF     |-> {"condition", "then_stmt", "else_stmt"},
                  AST_STMT_WHILE  |-> {"condition", "body"},
                  AST_STMT_FOR    |-> {"init", "condition", "update", "body"},
                  AST_STMT_RETURN |-> {"value"},
                  AST_STMT_DEFER  |-> {"statement"},
                  AST_STMT_BLOCK  |-> {"statements"}]
ast_decl_free == [AST_DECL_FUNCTION |-> {"parameters", "return_type", "body"},
                  AST_DECL_VARIABLE |-> {"type", "initializer"},
                  AST_DECL_STRUCT   |-> {"fields"},
                  AST_DECL_ENUM     |-> {"members"}]

In(table, kind) == IF kind \in DOMAIN table THEN table[kind] ELSE {}

(* The pointers a node of this kind has, and those that go with it.        *)
Members(kind) == In(AstProgram, kind) \cup In(AstDecl, kind) \cup In(AstStmt, kind)
                     \cup In(AstExpr, kind) \cup In(AstType, kind)
Freed(kind) == In(ast_program_free, kind) \cup In(ast_decl_free, kind)
                   \cup In(ast_stmt_free, kind) \cup In(ast_expr_free, kind)
                   \cup In(ast_type_free, kind)
=============================================================================
