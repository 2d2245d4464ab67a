---------------------------- MODULE DriverProofs ----------------------------
(***************************************************************************)
(* Proofs about the driver, for every file, editor, list of flags and      *)
(* number of tokens.  The invariant says by phase what is held (MemoryOK), *)
(* what the flags read so far have set (ArgumentsOK) and what is known of  *)
(* the result (ResultOK); of the file it needs what is proved of           *)
(* file_read.                                                              *)
(***************************************************************************)
EXTENDS Driver, SourceFileProofs

Starting == {"main", "arguments"}
Lexing == {"lexer_init", "lexer_lex", "parser_stage"}
Parsing == {"ast_program_create", "parse_director"}
Logging == {"logger_stage", "log_compilation"}
Cleaning == {"file_free", "lexer_deinit", "parser_deinit"}

(* Flags that were read.                                                   *)
Given == {argv[k] : k \in 2 .. i - 1}

ArgumentsOK ==
    /\ Len(argv) \in Nat /\ i \in Nat /\ i >= 2
    /\ pc = "main" => i = 2
    /\ argv # <<>> \/ pc \in {"main", "exited"}
    /\ pc \in Starting => exit = 0 /\ (argv # <<>> => i <= Len(argv) + 1)
    /\ pc \notin Starting /\ (pc # "exited" \/ exit = 1) => i = Len(argv) + 1
    /\ pc # "exited" \/ exit = 1 => /\ options.debug_info <=> "--log" \in Given
                                    /\ options.lex_only <=> "--lex" \in Given
                                    /\ "--version" \notin Given
    /\ argv = <<>> <=> Len(argv) = 0

(* What is held between the calls, as Release leaves it.                   *)
NotHeld(r) == r \in {"none", "released"}
ParserMemoryOK == /\ ast \in {"none", "held"} /\ declarations \in {"none", "held"}
                  /\ "ast" \in set <=> ast = "held"
                  /\ ast = "none" => declarations = "none"

MemoryOK ==
    /\ pc \in Starting => file = "none" /\ buffer = "none" /\ contents = <<>>
    /\ pc \in Starting \cup FilePhases \cup FileReturned =>
          /\ tokens = "none" /\ ast = "none" /\ declarations = "none"
          /\ output = "none" /\ set = {}
    /\ pc \in Lexing \cup Parsing \cup Logging \cup {"file_free"} =>
          file = "released" /\ buffer = "held" /\ "contents" \in set
    /\ pc \in Lexing \cup Parsing \cup Logging \cup Cleaning => ParserMemoryOK
    /\ pc = "lexer_init" => tokens = "none"
    /\ pc \in {"lexer_lex", "parser_stage"} \cup Parsing \cup Logging
                 \cup {"file_free", "lexer_deinit"} => tokens = "held"
    /\ pc \in Lexing \cup {"ast_program_create"} => ast = "none"
    /\ pc = "parse_director" => ast = "held"
    /\ pc \in Lexing \cup Parsing \cup {"logger_stage"} => output = "none"
    /\ pc \in Logging => (ast = "held" <=> ~options.lex_only)
    /\ pc = "log_compilation" => output = "held"
    /\ pc \in {"lexer_deinit", "parser_deinit"} =>
          file = "released" /\ buffer = "released" /\ "contents" \notin set
    /\ pc = "parser_deinit" => tokens = "released"
    /\ pc \in Cleaning => NotHeld(output)
    /\ pc \in {"report", "returned"} => \A r \in Resources : NotHeld(r)
    /\ "misused" \notin Resources

(* The stage at hand, and what a failure or a success leaves for main.     *)
FailedIn ==
    \/ options.st = "FILE" /\ tokens = "none"
    \/ options.st = "LEXER" /\ tokens # "none" /\ ast = "none"
    \/ options.st = "PARSER" /\ ast # "none" /\ output = "none"
    \/ options.st = "LOGGER" /\ options.debug_info /\ output = "none"
Succeeded ==
    /\ options.st \in {"PARSER", "LOGGER"}
    /\ tokens # "none" /\ LexerSucceeds(count)
    /\ ast # "none" <=> ~options.lex_only
    /\ output # "none" <=> options.debug_info

ResultOK ==
    /\ pc \in Starting => options.st = "UNKNOWN"
    /\ pc \in FilePhases \cup FileReturned => options.st = "FILE"
    /\ pc \in Lexing => options.st = "LEXER"
    /\ pc \in Parsing \cup {"logger_stage"} => options.st = "PARSER"
    /\ pc = "log_compilation" => options.st = "LOGGER"
    /\ pc \in {"parser_stage"} \cup Parsing \cup Logging => LexerSucceeds(count)
    /\ pc \in Parsing => ~options.lex_only
    /\ pc = "log_compilation" => options.debug_info
    /\ pc \notin Ended \cup Cleaning \cup {"report"} => status = "SUCCESS"
    /\ pc \in Cleaning \cup {"report", "returned"} =>
          IF status = "SUCCESS" THEN Succeeded ELSE FailedIn
    /\ pc # "returned" \/ status = "SUCCESS" => \A s \in Stages : s \notin said
    /\ pc = "returned" =>
          IF status = "SUCCESS" THEN exit = 0
          ELSE exit = 1 /\ \A s \in Stages : s \in said <=> s = options.st
    /\ pc = "exited" => IF exit = 0 THEN options.st = "UNKNOWN" ELSE options.st \in Stages
    /\ pc = "undefined" => options.st \in Stages
    /\ pc \notin {"exited", "returned"} => exit = 0
    /\ "UNKNOWN" \notin said

(* Before the stages there is nothing to see; only a run without --version *)
(* gets to them.                                                           *)
UntouchedOK ==
    pc \in Starting \/ (pc = "exited" /\ exit = 0) =>
        file = "none" /\ log \in {"absent", "earlier"}

DriverIInv == FileIInv /\ TypeOK /\ ArgumentsOK /\ MemoryOK /\ ResultOK /\ UntouchedOK

USE DEF Starting, Lexing, Parsing, Logging, Cleaning, FilePhases, FileReturned, Ended,
        sourceVars, argumentVars, memoryVars, outputVars, resultVars, disk_vars

(* The driver leaves what is known of the file as it is.                   *)
LEMMA FileStep ==
    ASSUME DriverIInv, compiler
    PROVE  FileIInv'
<1> USE DEF DriverIInv, FileIInv, FileTypeOK, OwnershipOK, LengthsOK, QuietOK,
            LengthOK, FirstIsText, Ownership, MemoryOK, Resources
<1>1. CASE main
      BY <1>1 DEF main
<1>2. CASE parse_compile_argument
      BY <1>2 DEF parse_compile_argument, Flag
<1>3. CASE compile_file_stage
      BY <1>3 DEF compile_file_stage
<1>4. CASE file_stage_step
      BY <1>4, FileReadPhases DEF file_stage_step
<1>5. CASE file_stage_fails
      BY <1>5 DEF file_stage_fails
<1>6. CASE compile_lexer_stage
      BY <1>6 DEF compile_lexer_stage
<1>7. CASE lexer_init
      BY <1>7 DEF lexer_init
<1>8. CASE lexer_lex
      BY <1>8 DEF lexer_lex, Continue, GotoCleanup, LexerSucceeds
<1>9. CASE lexer_dies
      BY <1>9 DEF lexer_dies
<1>10. CASE compile_parser_stage
      BY <1>10 DEF compile_parser_stage
<1>11. CASE ast_program_create
      BY <1>11 DEF ast_program_create
<1>12. CASE parse_director
      BY <1>12 DEF parse_director, Continue, GotoCleanup
<1>13. CASE parser_dies
      BY <1>13 DEF parser_dies
<1>14. CASE no_log
      BY <1>14 DEF no_log
<1>15. CASE compile_logger_stage
      BY <1>15 DEF compile_logger_stage, Continue, GotoCleanup
<1>16. CASE log_compilation
      BY <1>16 DEF log_compilation, LogOutcomes, Release
<1>17. CASE file_free
      BY <1>17 DEF file_free, Release
<1>18. CASE lexer_deinit
      BY <1>18 DEF lexer_deinit, Release
<1>19. CASE parser_deinit
      BY <1>19 DEF parser_deinit, Release
<1>20. CASE report
      BY <1>20 DEF report
<1> QED BY <1>1, <1>2, <1>3, <1>4, <1>5, <1>6, <1>7, <1>8, <1>9, <1>10, <1>11,
        <1>12, <1>13, <1>14, <1>15, <1>16, <1>17, <1>18, <1>19, <1>20 DEF compiler,
        options_step, file_step, lexer_step, parser_step, logger_step, cleanup_step

(* Every variable of the driver keeps its type,                            *)
LEMMA TypeStep ==
    ASSUME DriverIInv, compiler
    PROVE  CompilerTypeOK'
<1> USE DEF DriverIInv, TypeOK, CompilerTypeOK, Ownership, Stages, DriverPhases
<1>1. CASE main
      BY <1>1 DEF main
<1>2. CASE parse_compile_argument
  <2>1. /\ i' = i + 1 /\ i \in Nat
        /\ options' \in [debug_info : BOOLEAN, timer : BOOLEAN, lex_only : BOOLEAN,
                         st : Stages \cup {"UNKNOWN"}]
        BY <1>2 DEF parse_compile_argument, Flag
  <2> QED BY <1>2, <2>1 DEF parse_compile_argument
<1>3. CASE compile_file_stage
      BY <1>3 DEF compile_file_stage
<1>4. CASE file_stage_step
      BY <1>4, FileReadPhases DEF file_stage_step
<1>5. CASE file_stage_fails
      BY <1>5 DEF file_stage_fails
<1>6. CASE compile_lexer_stage
      BY <1>6 DEF compile_lexer_stage
<1>7. CASE lexer_init
      BY <1>7 DEF lexer_init
<1>8. CASE lexer_lex
  <2>1. /\ count' \in Nat
        /\ pc' \in {"parser_stage", "file_free"}
        /\ status' \in {"SUCCESS", "FAILURE"}
    <3>1. PICK n \in 0 .. MaxTokens :
             /\ count' = n
             /\ Continue("parser_stage") \/ GotoCleanup
          BY <1>8 DEF lexer_lex
    <3> QED BY <3>1, CountsAssumption DEF Continue, GotoCleanup
  <2>2. UNCHANGED <<i, options, set, tokens, ast, declarations, output, log, exit>>
        BY <1>8 DEF lexer_lex
  <2> QED BY <2>1, <2>2
<1>9. CASE lexer_dies
      BY <1>9 DEF lexer_dies
<1>10. CASE compile_parser_stage
      BY <1>10 DEF compile_parser_stage
<1>11. CASE ast_program_create
  <2>1. /\ set' \in {set, set \cup {"ast"}}
        /\ ast' \in Ownership /\ declarations' \in Ownership
        /\ pc' \in {"parse_director", "exited"}
        /\ exit' \in {0, 1}
        BY <1>11 DEF ast_program_create
  <2>2. set' \subseteq {"contents", "ast"}
        BY <2>1
  <2>3. UNCHANGED <<i, options, tokens, count, output, log, status>>
        BY <1>11 DEF ast_program_create
  <2> QED BY <2>1, <2>2, <2>3
<1>12. CASE parse_director
      BY <1>12 DEF parse_director, Continue, GotoCleanup
<1>13. CASE parser_dies
      BY <1>13 DEF parser_dies
<1>14. CASE no_log
      BY <1>14 DEF no_log
<1>15. CASE compile_logger_stage
      BY <1>15 DEF compile_logger_stage, Continue, GotoCleanup
<1>16. CASE log_compilation
      BY <1>16 DEF log_compilation, LogOutcomes, Release
<1>17. CASE file_free
      BY <1>17 DEF file_free, Release
<1>18. CASE lexer_deinit
      BY <1>18 DEF lexer_deinit, Release
<1>19. CASE parser_deinit
  <2>1. /\ set' \in {set, set \ {"ast"}}
        /\ ast' \in Ownership /\ declarations' \in Ownership
        /\ pc' \in {"report", "undefined"}
        BY <1>19 DEF parser_deinit, Release
  <2>2. set' \subseteq {"contents", "ast"}
        BY <2>1
  <2>3. UNCHANGED <<i, options, tokens, count, output, log, status, exit>>
        BY <1>19 DEF parser_deinit
  <2> QED BY <2>1, <2>2, <2>3
<1>20. CASE report
      BY <1>20 DEF report
<1> QED BY <1>1, <1>2, <1>3, <1>4, <1>5, <1>6, <1>7, <1>8, <1>9, <1>10, <1>11,
        <1>12, <1>13, <1>14, <1>15, <1>16, <1>17, <1>18, <1>19, <1>20 DEF compiler,
        options_step, file_step, lexer_step, parser_step, logger_step, cleanup_step

(* and its messages are those that TypeOK names.                           *)
LEMMA MessagesStep ==
    ASSUME DriverIInv, compiler
    PROVE  said' \subseteq Messages
<1>1. /\ said \subseteq Messages
      /\ options.st \in Messages /\ "version" \in Messages /\ "file is empty" \in Messages
      BY DEF DriverIInv, TypeOK, CompilerTypeOK, Messages
<1>2. CASE main
      BY <1>1, <1>2 DEF main
<1>3. CASE parse_compile_argument
      BY <1>1, <1>3 DEF parse_compile_argument
<1>4. CASE lexer_lex
      BY <1>1, <1>4 DEF lexer_lex
<1>5. CASE report
      BY <1>1, <1>5 DEF report
<1>6. CASE UNCHANGED said
      BY <1>1, <1>6
<1> QED BY <1>2, <1>3, <1>4, <1>5, <1>6
        DEF compiler, options_step, file_step, lexer_step, parser_step, logger_step,
            cleanup_step, compile_file_stage, file_stage_step, file_stage_fails,
            compile_lexer_stage, lexer_init, lexer_dies, compile_parser_stage,
            ast_program_create, parse_director, parser_dies, no_log, compile_logger_stage,
            log_compilation, file_free, lexer_deinit, parser_deinit

(* What is held changes from phase to phase as MemoryOK says.              *)
LEMMA MemoryStep ==
    ASSUME DriverIInv, compiler
    PROVE  MemoryOK'
<1> USE DEF DriverIInv, FileIInv, OwnershipOK, MemoryOK, ParserMemoryOK, NotHeld,
            Resources, ResultOK
<1>1. CASE main
      BY <1>1 DEF main
<1>2. CASE parse_compile_argument
      BY <1>2 DEF parse_compile_argument, Flag
<1>3. CASE compile_file_stage
      BY <1>3 DEF compile_file_stage
<1>4. CASE file_stage_step
      BY <1>4, FileReadPhases DEF file_stage_step
<1>5. CASE file_stage_fails
      BY <1>5 DEF file_stage_fails
<1>6. CASE compile_lexer_stage
      BY <1>6 DEF compile_lexer_stage
<1>7. CASE lexer_init
      BY <1>7 DEF lexer_init
<1>8. CASE lexer_lex
      BY <1>8 DEF lexer_lex, Continue, GotoCleanup, LexerSucceeds
<1>9. CASE lexer_dies
      BY <1>9 DEF lexer_dies
<1>10. CASE compile_parser_stage
      BY <1>10 DEF compile_parser_stage
<1>11. CASE ast_program_create
      BY <1>11 DEF ast_program_create
<1>12. CASE parse_director
      BY <1>12 DEF parse_director, Continue, GotoCleanup
<1>13. CASE parser_dies
      BY <1>13 DEF parser_dies
<1>14. CASE no_log
      BY <1>14 DEF no_log
<1>15. CASE compile_logger_stage
      BY <1>15 DEF compile_logger_stage, Continue, GotoCleanup
<1>16. CASE log_compilation
      BY <1>16 DEF log_compilation, LogOutcomes, Release
<1>17. CASE file_free
      BY <1>17 DEF file_free, Release
<1>18. CASE lexer_deinit
      BY <1>18 DEF lexer_deinit, Release
<1>19. CASE parser_deinit
      BY <1>19 DEF parser_deinit, Release
<1>20. CASE report
      BY <1>20 DEF report
<1> QED BY <1>1, <1>2, <1>3, <1>4, <1>5, <1>6, <1>7, <1>8, <1>9, <1>10, <1>11,
        <1>12, <1>13, <1>14, <1>15, <1>16, <1>17, <1>18, <1>19, <1>20 DEF compiler,
        options_step, file_step, lexer_step, parser_step, logger_step, cleanup_step

(* The result tells what happened in the stages.                           *)
LEMMA ResultStep ==
    ASSUME DriverIInv, compiler
    PROVE  ResultOK'
<1> USE DEF DriverIInv, TypeOK, CompilerTypeOK, Stages, MemoryOK, ParserMemoryOK,
            NotHeld, ResultOK, Succeeded, FailedIn, LexerSucceeds, ArgumentsOK
<1>1. CASE main
      BY <1>1 DEF main
<1>2. CASE parse_compile_argument
      BY <1>2 DEF parse_compile_argument, Flag
<1>3. CASE compile_file_stage
      BY <1>3 DEF compile_file_stage
<1>4. CASE file_stage_step
      BY <1>4, FileReadPhases DEF file_stage_step
<1>5. CASE file_stage_fails
      BY <1>5 DEF file_stage_fails
<1>6. CASE compile_lexer_stage
      BY <1>6 DEF compile_lexer_stage
<1>7. CASE lexer_init
      BY <1>7 DEF lexer_init
<1>8. CASE lexer_lex
      BY <1>8 DEF lexer_lex, Continue, GotoCleanup, LexerSucceeds
<1>9. CASE lexer_dies
      BY <1>9 DEF lexer_dies
<1>10. CASE compile_parser_stage
      BY <1>10 DEF compile_parser_stage
<1>11. CASE ast_program_create
      BY <1>11 DEF ast_program_create
<1>12. CASE parse_director
      BY <1>12 DEF parse_director, Continue, GotoCleanup
<1>13. CASE parser_dies
      BY <1>13 DEF parser_dies
<1>14. CASE no_log
      BY <1>14 DEF no_log
<1>15. CASE compile_logger_stage
      BY <1>15 DEF compile_logger_stage, Continue, GotoCleanup
<1>16. CASE log_compilation
      BY <1>16 DEF log_compilation, LogOutcomes, Release
<1>17. CASE file_free
      BY <1>17 DEF file_free, Release
<1>18. CASE lexer_deinit
      BY <1>18 DEF lexer_deinit, Release
<1>19. CASE parser_deinit
      BY <1>19 DEF parser_deinit, Release
<1>20. CASE report
      BY <1>20 DEF report
<1> QED BY <1>1, <1>2, <1>3, <1>4, <1>5, <1>6, <1>7, <1>8, <1>9, <1>10, <1>11,
        <1>12, <1>13, <1>14, <1>15, <1>16, <1>17, <1>18, <1>19, <1>20 DEF compiler,
        options_step, file_step, lexer_step, parser_step, logger_step, cleanup_step

(* The options are those of the flags that were read.                      *)
LEMMA ArgumentsStep ==
    ASSUME DriverIInv, compiler
    PROVE  ArgumentsOK'
<1> USE DEF DriverIInv, TypeOK, CompilerTypeOK, ArgumentsOK, Given
<1>1. CASE main
  <2>1. argv # <<>> => Len(argv) >= 1
        OBVIOUS
  <2>2. Given' = Given
        BY <1>1 DEF main, Given
  <2> QED BY <1>1, <2>1, <2>2 DEF main
<1>2. CASE parse_compile_argument
  <2>1. /\ pc = "arguments" /\ i <= Len(argv) /\ i' = i + 1 /\ argv' = argv
        /\ options'.debug_info = (options.debug_info \/ argv[i] = "--log")
        /\ options'.lex_only = (options.lex_only \/ argv[i] = "--lex")
        /\ IF argv[i] = "--version" THEN pc' = "exited" ELSE pc' = "arguments"
        /\ exit' = exit
        BY <1>2 DEF parse_compile_argument, Flag
  <2>2. Given' = Given \cup {argv[i]}
    <3>1. 2 .. i' - 1 = (2 .. i - 1) \cup {i}
          BY <2>1
    <3> QED BY <2>1, <3>1
  <2> HIDE DEF Given
  <2>3. /\ i \in Nat /\ i >= 2 /\ Len(argv) \in Nat /\ exit = 0 /\ argv # <<>>
        /\ argv = <<>> <=> Len(argv) = 0
        BY <2>1
  <2>4. /\ options.debug_info <=> "--log" \in Given
        /\ options.lex_only <=> "--lex" \in Given
        /\ "--version" \notin Given
        BY <2>1
  <2>5. /\ options'.debug_info <=> "--log" \in Given'
        /\ options'.lex_only <=> "--lex" \in Given'
        /\ argv[i] # "--version" => "--version" \notin Given'
        BY <2>1, <2>2, <2>4
  <2> HIDE DEF DriverIInv, ArgumentsOK
  <2> QED BY <2>1, <2>3, <2>5 DEF ArgumentsOK
<1>3. CASE compile_file_stage
  <2>1. Given' = Given
        BY <1>3 DEF compile_file_stage, Given
  <2>2. /\ options'.debug_info = options.debug_info
        /\ options'.lex_only = options.lex_only
        BY <1>3 DEF compile_file_stage, TypeOK
  <2> QED BY <1>3, <2>1, <2>2 DEF compile_file_stage
<1>4. CASE file_stage_step
      BY <1>4, FileReadPhases DEF file_stage_step
<1>5. CASE file_stage_fails
      BY <1>5 DEF file_stage_fails
<1>6. CASE compile_lexer_stage
      BY <1>6 DEF compile_lexer_stage
<1>7. CASE lexer_init
      BY <1>7 DEF lexer_init
<1>8. CASE lexer_lex
      BY <1>8 DEF lexer_lex, Continue, GotoCleanup, LexerSucceeds
<1>9. CASE lexer_dies
      BY <1>9 DEF lexer_dies
<1>10. CASE compile_parser_stage
      BY <1>10 DEF compile_parser_stage
<1>11. CASE ast_program_create
      BY <1>11 DEF ast_program_create
<1>12. CASE parse_director
      BY <1>12 DEF parse_director, Continue, GotoCleanup
<1>13. CASE parser_dies
      BY <1>13 DEF parser_dies
<1>14. CASE no_log
      BY <1>14 DEF no_log
<1>15. CASE compile_logger_stage
      BY <1>15 DEF compile_logger_stage, Continue, GotoCleanup
<1>16. CASE log_compilation
      BY <1>16 DEF log_compilation, LogOutcomes, Release
<1>17. CASE file_free
      BY <1>17 DEF file_free, Release
<1>18. CASE lexer_deinit
      BY <1>18 DEF lexer_deinit, Release
<1>19. CASE parser_deinit
      BY <1>19 DEF parser_deinit, Release
<1>20. CASE report
      BY <1>20 DEF report
<1> QED BY <1>1, <1>2, <1>3, <1>4, <1>5, <1>6, <1>7, <1>8, <1>9, <1>10, <1>11,
        <1>12, <1>13, <1>14, <1>15, <1>16, <1>17, <1>18, <1>19, <1>20 DEF compiler,
        options_step, file_step, lexer_step, parser_step, logger_step, cleanup_step

(* Nothing is touched before the stages.                                   *)
LEMMA UntouchedStep ==
    ASSUME DriverIInv, compiler
    PROVE  UntouchedOK'
<1> USE DEF DriverIInv, UntouchedOK, ArgumentsOK
<1>1. CASE main
      BY <1>1 DEF main
<1>2. CASE parse_compile_argument
      BY <1>2 DEF parse_compile_argument, Flag
<1>3. CASE compile_file_stage
      BY <1>3 DEF compile_file_stage
<1>4. CASE file_stage_step
      BY <1>4, FileReadPhases DEF file_stage_step
<1>5. CASE file_stage_fails
      BY <1>5 DEF file_stage_fails
<1>6. CASE compile_lexer_stage
      BY <1>6 DEF compile_lexer_stage
<1>7. CASE lexer_init
      BY <1>7 DEF lexer_init
<1>8. CASE lexer_lex
      BY <1>8 DEF lexer_lex, Continue, GotoCleanup, LexerSucceeds
<1>9. CASE lexer_dies
      BY <1>9 DEF lexer_dies
<1>10. CASE compile_parser_stage
      BY <1>10 DEF compile_parser_stage
<1>11. CASE ast_program_create
      BY <1>11 DEF ast_program_create
<1>12. CASE parse_director
      BY <1>12 DEF parse_director, Continue, GotoCleanup
<1>13. CASE parser_dies
      BY <1>13 DEF parser_dies
<1>14. CASE no_log
      BY <1>14 DEF no_log
<1>15. CASE compile_logger_stage
      BY <1>15 DEF compile_logger_stage, Continue, GotoCleanup
<1>16. CASE log_compilation
      BY <1>16 DEF log_compilation, LogOutcomes, Release
<1>17. CASE file_free
      BY <1>17 DEF file_free, Release
<1>18. CASE lexer_deinit
      BY <1>18 DEF lexer_deinit, Release
<1>19. CASE parser_deinit
      BY <1>19 DEF parser_deinit, Release
<1>20. CASE report
      BY <1>20 DEF report
<1> QED BY <1>1, <1>2, <1>3, <1>4, <1>5, <1>6, <1>7, <1>8, <1>9, <1>10, <1>11,
        <1>12, <1>13, <1>14, <1>15, <1>16, <1>17, <1>18, <1>19, <1>20 DEF compiler,
        options_step, file_step, lexer_step, parser_step, logger_step, cleanup_step

(* An edit of the file is none of the driver's business.                   *)
LEMMA EditorStep == ASSUME DriverIInv, EditorSaves PROVE DriverIInv'
<1>1. /\ UNCHANGED <<name, length, contents, file, buffer, pc>>
      /\ UNCHANGED <<argv, i, options, set, tokens, count, ast, declarations>>
      /\ UNCHANGED <<output, log, status, said, exit>>
      BY DEF EditorSaves, edit
<1>2. FileIInv' /\ FileTypeOK'
      BY EditStep DEF EditorSaves, DriverIInv, FileIInv
<1>3. TypeOK'
      BY <1>1, <1>2 DEF DriverIInv, TypeOK, CompilerTypeOK
<1>4. ArgumentsOK' /\ UntouchedOK'
      BY <1>1 DEF DriverIInv, ArgumentsOK, UntouchedOK, Given
<1>5. MemoryOK'
      BY <1>1 DEF DriverIInv, MemoryOK, ParserMemoryOK, NotHeld, Resources
<1>6. ResultOK'
      BY <1>1 DEF DriverIInv, ResultOK, Succeeded, FailedIn, LexerSucceeds
<1> QED BY <1>2, <1>3, <1>4, <1>5, <1>6 DEF DriverIInv

LEMMA DriverStutter == ASSUME DriverIInv, UNCHANGED vars PROVE DriverIInv'
<1>1. /\ UNCHANGED fileVars
      /\ UNCHANGED <<name, length, contents, file, buffer, pc>>
      /\ UNCHANGED <<argv, i, options, set, tokens, count, ast, declarations>>
      /\ UNCHANGED <<output, log, status, said, exit>>
      BY DEF vars, fileVars
<1>2. FileIInv' /\ FileTypeOK'
      BY <1>1, FileStutter DEF DriverIInv, FileIInv
<1>3. TypeOK'
      BY <1>1, <1>2 DEF DriverIInv, TypeOK, CompilerTypeOK
<1>4. ArgumentsOK' /\ UntouchedOK'
      BY <1>1 DEF DriverIInv, ArgumentsOK, UntouchedOK, Given
<1>5. MemoryOK'
      BY <1>1 DEF DriverIInv, MemoryOK, ParserMemoryOK, NotHeld, Resources
<1>6. ResultOK'
      BY <1>1 DEF DriverIInv, ResultOK, Succeeded, FailedIn, LexerSucceeds
<1> QED BY <1>2, <1>3, <1>4, <1>5, <1>6 DEF DriverIInv

LEMMA DriverInitial == DriverInit => DriverIInv
<1> SUFFICES ASSUME DriverInit PROVE DriverIInv
    OBVIOUS
<1>1. FileIInv
      BY FileInitial DEF DriverInit
<1>2. /\ pc = "main" /\ i = 2 /\ set = {} /\ count = 0 /\ exit = 0 /\ said = {}
      /\ tokens = "none" /\ ast = "none" /\ declarations = "none" /\ output = "none"
      /\ log \in {"absent", "earlier"} /\ status = "SUCCESS"
      /\ file = "none" /\ buffer = "none" /\ contents = <<>>
      /\ options = [debug_info |-> FALSE, timer |-> FALSE, lex_only |-> FALSE,
                    st |-> "UNKNOWN"]
      BY DEF DriverInit, FileInit
<1>3. Len(argv) \in Nat /\ (argv = <<>> <=> Len(argv) = 0)
  <2>1. argv = <<>> \/ \E n \in Nat : \E flags \in [1 .. n -> Flags] : argv = <<"file">> \o flags
        BY CountsAssumption DEF DriverInit
  <2>2. ASSUME NEW n \in Nat, NEW flags \in [1 .. n -> Flags], argv = <<"file">> \o flags
        PROVE  Len(argv) \in Nat /\ argv # <<>> /\ Len(argv) # 0
    <3> DEFINE Strings == Flags \cup {"file"}
    <3>1. flags \in Seq(Strings) /\ <<"file">> \in Seq(Strings)
      <4>1. flags \in [1 .. n -> Strings] /\ "file" \in Strings
            BY <2>2
      <4> HIDE DEF Strings
      <4>2. flags \in Seq(Strings)
            BY <4>1
      <4> QED BY <4>1, <4>2
    <3>2. Len(argv) = 1 + Len(flags) /\ Len(flags) \in Nat
      <4> HIDE DEF Strings
      <4> QED BY <2>2, <3>1, ConcatProperties
    <3> QED BY <3>2
  <2> QED BY <2>1, <2>2
<1>4. Given = {}
      BY <1>2 DEF Given
<1>5. TypeOK
      BY <1>1, <1>2 DEF TypeOK, CompilerTypeOK, FileIInv, Ownership, DriverPhases
<1>6. ArgumentsOK
      BY <1>2, <1>3, <1>4 DEF ArgumentsOK
<1>7. MemoryOK
      BY <1>2 DEF MemoryOK, Resources
<1>8. ResultOK /\ UntouchedOK
      BY <1>2 DEF ResultOK, UntouchedOK
<1> QED BY <1>1, <1>5, <1>6, <1>7, <1>8 DEF DriverIInv

LEMMA DriverInductive == DriverSpec => []DriverIInv
<1>1. DriverIInv /\ [DriverNext]_vars => DriverIInv'
  <2> SUFFICES ASSUME DriverIInv, [DriverNext]_vars
               PROVE  DriverIInv'
      OBVIOUS
  <2>1. CASE compiler
    <3>1. FileIInv' /\ CompilerTypeOK' /\ said' \subseteq Messages
          BY <2>1, FileStep, TypeStep, MessagesStep
    <3>2. TypeOK'
          BY <3>1 DEF TypeOK, FileIInv
    <3> QED BY <2>1, <3>1, <3>2, ArgumentsStep, MemoryStep, ResultStep, UntouchedStep
            DEF DriverIInv
  <2>2. CASE EditorSaves
        BY <2>2, EditorStep
  <2>3. CASE UNCHANGED vars
        BY <2>3, DriverStutter
  <2> QED BY <2>1, <2>2, <2>3 DEF DriverNext
<1> QED BY <1>1, DriverInitial, PTL DEF DriverSpec

-----------------------------------------------------------------------------

(* Every variable keeps its type.                                          *)
THEOREM DriverTypeCorrect == DriverSpec => []TypeOK
<1>1. DriverIInv => TypeOK
      BY DEF DriverIInv
<1> QED BY <1>1, DriverInductive, PTL

(* main returns with everything given back, once, whichever call of        *)
(* whichever stage failed (compile.c:86-118, file.c:39-94).                *)
THEOREM NothingIsLeaked == DriverSpec => []EverythingReleased
<1>1. DriverIInv => EverythingReleased
      BY DEF DriverIInv, MemoryOK, EverythingReleased, NotHeld, Resources
<1> QED BY <1>1, DriverInductive, PTL

(* No stage reads a buffer, an array or a file that it no longer has       *)
(* (compile.c:41, 49, 72).                                                 *)
THEOREM NothingIsReadAfterRelease == DriverSpec => []StagesReadWhatIsHeld
<1>1. DriverIInv => StagesReadWhatIsHeld
      BY DEF DriverIInv, MemoryOK, StagesReadWhatIsHeld
<1> QED BY <1>1, DriverInductive, PTL

(* A reported failure names the stage that failed (main.c:46).             *)
THEOREM ReportsAreRight == DriverSpec => []FailureNamesItsStage
<1>1. DriverIInv => FailureNamesItsStage
  <2> SUFFICES ASSUME DriverIInv, pc = "returned"
               PROVE  /\ "FILE" \in said => tokens = "none"
                      /\ "LEXER" \in said => tokens # "none" /\ ast = "none"
                      /\ "PARSER" \in said => ast # "none" /\ output = "none"
                      /\ "LOGGER" \in said => options.debug_info /\ output = "none"
                      /\ "UNKNOWN" \notin said
      BY DEF FailureNamesItsStage
  <2>1. CASE status = "SUCCESS"
        BY <2>1 DEF DriverIInv, ResultOK, Stages
  <2>2. CASE status = "FAILURE"
    <3>1. FailedIn /\ (\A s \in Stages : s \in said <=> s = options.st) /\ "UNKNOWN" \notin said
          BY <2>2 DEF DriverIInv, ResultOK
    <3> QED BY <3>1 DEF FailedIn, Stages
  <2> QED BY <2>1, <2>2 DEF DriverIInv, TypeOK, CompilerTypeOK
<1> QED BY <1>1, DriverInductive, PTL

(* The exit code 0 of a return says that the stages that were asked for    *)
(* have run, the exit code 1 that one of them is reported (main.c:46-60).  *)
THEOREM ExitCodesAreRight == DriverSpec => []ExitCodeTellsSuccess
<1>1. DriverIInv => ExitCodeTellsSuccess
  <2> SUFFICES ASSUME DriverIInv, pc = "returned"
               PROVE  /\ exit = 0 <=> said \cap Stages = {}
                      /\ exit = 0 => /\ tokens # "none" /\ LexerSucceeds(count)
                                     /\ ast # "none" <=> ~options.lex_only
                                     /\ output # "none" <=> options.debug_info
      BY DEF ExitCodeTellsSuccess
  <2>1. CASE status = "SUCCESS"
    <3>1. exit = 0 /\ Succeeded /\ \A s \in Stages : s \notin said
          BY <2>1 DEF DriverIInv, ResultOK
    <3>2. said \cap Stages = {}
          BY <3>1
    <3> QED BY <3>1, <3>2 DEF Succeeded, LexerSucceeds
  <2>2. CASE status = "FAILURE"
    <3>1. /\ exit = 1 /\ FailedIn
          /\ \A s \in Stages : s \in said <=> s = options.st
          BY <2>2 DEF DriverIInv, ResultOK
    <3>2. options.st \in Stages
          BY <3>1 DEF FailedIn, Stages
    <3>3. options.st \in said \cap Stages
          BY <3>1, <3>2
    <3> QED BY <3>1, <3>3
  <2> QED BY <2>1, <2>2 DEF DriverIInv, TypeOK, CompilerTypeOK
<1> QED BY <1>1, DriverInductive, PTL

(* A run that is asked for the version touches no file (compile.c:140).    *)
THEOREM VersionIsHarmless == DriverSpec => []VersionTouchesNothing
<1>1. DriverIInv => VersionTouchesNothing
  <2> SUFFICES ASSUME DriverIInv, argv = <<>> \/ "--version" \in Arguments
               PROVE  file = "none" /\ log \in {"absent", "earlier"} /\ exit = 0
      BY DEF VersionTouchesNothing
  <2>1. exit \in {0, 1}
        BY DEF DriverIInv, TypeOK, CompilerTypeOK
  <2>2. CASE pc \in Starting \/ (pc = "exited" /\ exit = 0)
        BY <2>2 DEF DriverIInv, ArgumentsOK, UntouchedOK
  <2>3. CASE pc \notin Starting /\ (pc # "exited" \/ exit = 1)
    <3>1. i = Len(argv) + 1 /\ Len(argv) \in Nat /\ "--version" \notin Given
          BY <2>3 DEF DriverIInv, ArgumentsOK
    <3>2. Given = Arguments
      <4>1. i - 1 = Len(argv)
            BY <3>1
      <4> QED BY <4>1 DEF Given, Arguments
    <3>3. argv # <<>>
          BY <2>3, <3>1 DEF DriverIInv, ArgumentsOK
    <3> QED BY <3>1, <3>2, <3>3
  <2> QED BY <2>1, <2>2, <2>3
<1> QED BY <1>1, DriverInductive, PTL

(* output.org changes only in a run with --log, and only once there is     *)
(* something to log (compile.c:61).                                        *)
THEOREM LogIsKept == DriverSpec => LogIsKeptUntilParsed
<1>1. DriverIInv /\ [DriverNext]_vars =>
         [log' # log => /\ "--log" \in Arguments
                        /\ LexerSucceeds(count) /\ status = "SUCCESS"
                        /\ "--lex" \in Arguments \/ ast = "held"]_vars
  <2> SUFFICES ASSUME DriverIInv, DriverNext, log' # log
               PROVE  /\ "--log" \in Arguments
                      /\ LexerSucceeds(count) /\ status = "SUCCESS"
                      /\ "--lex" \in Arguments \/ ast = "held"
      BY DEF vars
  <2>1. \/ compile_logger_stage
        \/ log_compilation
    <3>1. EditorSaves => UNCHANGED log
          BY DEF EditorSaves
    <3> QED BY <3>1 DEF DriverNext, compiler, options_step, file_step, lexer_step, parser_step,
              logger_step, cleanup_step, main, parse_compile_argument, compile_file_stage,
              file_stage_step, file_stage_fails, compile_lexer_stage, lexer_init, lexer_lex,
              lexer_dies, compile_parser_stage, ast_program_create, parse_director,
              parser_dies, no_log, file_free, lexer_deinit, parser_deinit, report
  <2>2. pc \in Logging /\ options.debug_info
        BY <2>1 DEF compile_logger_stage, log_compilation, DriverIInv, ResultOK
  <2>3. /\ LexerSucceeds(count) /\ status = "SUCCESS"
        /\ ast = "held" <=> ~options.lex_only
        BY <2>2 DEF DriverIInv, ResultOK, MemoryOK
  <2>4. /\ i = Len(argv) + 1 /\ Len(argv) \in Nat
        /\ "--log" \in Given /\ (options.lex_only => "--lex" \in Given)
        BY <2>2 DEF DriverIInv, ArgumentsOK
  <2>5. Given = Arguments
    <3>1. i - 1 = Len(argv)
          BY <2>4
    <3> QED BY <3>1 DEF Given, Arguments
  <2> QED BY <2>3, <2>4, <2>5, <2>2 DEF DriverIInv, TypeOK, CompilerTypeOK
<1> QED BY <1>1, DriverInductive, PTL DEF DriverSpec, LogIsKeptUntilParsed

(* What a step of the driver shows of the pipeline.                        *)
LEMMA DriverSteps ==
    ASSUME DriverIInv, DriverIInv', compiler
    PROVE  /\ pc \notin Ended
           /\ \/ pc' \notin Ended /\ options'.st = options.st
              \/ pc' \notin Ended /\ <<options.st, options'.st>> \in Stage!Order
              \/ /\ options'.st = options.st
                 /\ \/ pc' = "exited" /\ exit' = 0 /\ options.st = "UNKNOWN"
                    \/ pc' = "exited" /\ exit' = 1 /\ options.st \in Stages
                    \/ pc' = "undefined" /\ options.st \in Stages
                    \/ pc' = "returned" /\ exit' = 1 /\ options.st \in Stages
                    \/ pc' = "returned" /\ exit' = 0 /\ options.st \in {"PARSER", "LOGGER"}
<1> USE DEF DriverIInv, ResultOK, Stages, Stage!Order
<1>1. CASE main
      BY <1>1 DEF main, ArgumentsOK
<1>2. CASE parse_compile_argument
  <2>1. pc = "arguments" /\ options.st = "UNKNOWN" /\ exit' = exit /\ exit = 0
        BY <1>2 DEF parse_compile_argument
  <2>2. options'.st = options.st
        BY <1>2 DEF parse_compile_argument, TypeOK, CompilerTypeOK
  <2>3. pc' = "exited" \/ pc' = "arguments"
        BY <1>2, <2>1 DEF parse_compile_argument
  <2> QED BY <2>1, <2>2, <2>3
<1>3. CASE compile_file_stage \/ compile_lexer_stage \/ compile_parser_stage
      BY <1>3 DEF compile_file_stage, compile_lexer_stage, compile_parser_stage, TypeOK,
                  CompilerTypeOK
<1>4. CASE file_stage_step
      BY <1>4, FileReadPhases DEF file_stage_step
<1>5. CASE file_stage_fails \/ lexer_init \/ lexer_dies \/ parser_dies \/ ast_program_create
      BY <1>5 DEF file_stage_fails, lexer_init, lexer_dies, parser_dies, ast_program_create
<1>6. CASE lexer_lex \/ parse_director
      BY <1>6 DEF lexer_lex, parse_director, Continue, GotoCleanup
<1>7. CASE compile_logger_stage
      BY <1>7 DEF compile_logger_stage, Continue, GotoCleanup, TypeOK, CompilerTypeOK
<1>8. CASE no_log \/ log_compilation \/ file_free \/ lexer_deinit \/ parser_deinit
      BY <1>8 DEF no_log, log_compilation, file_free, lexer_deinit, parser_deinit
<1>9. CASE report
      BY <1>9 DEF report, Succeeded, FailedIn, TypeOK, CompilerTypeOK
<1> QED BY <1>1, <1>2, <1>3, <1>4, <1>5, <1>6, <1>7, <1>8, <1>9
        DEF compiler, options_step, file_step, lexer_step, parser_step, logger_step,
            cleanup_step

(* The driver goes through the stages as the pipeline does: in order, with *)
(* one result, and success only behind the parser.                         *)
LEMMA DriverStepIsPipelineStep ==
    ASSUME DriverIInv, DriverIInv', DriverNext
    PROVE  [Stage!PipelineNext]_(Stage!pipelineVars)
<1>1. pc \notin Ended => Result = "open"
      BY DEF Result
<1>2. pc' \notin Ended => Result' = "open"
      BY DEF Result
<1>3. CASE compiler
  <2>1. Result = "open"
        BY <1>1, <1>3, DriverSteps
  <2>2. CASE pc' \notin Ended /\ options'.st = options.st
        BY <2>1, <2>2, <1>2 DEF Stage!pipelineVars
  <2>3. CASE pc' \notin Ended /\ <<options.st, options'.st>> \in Stage!Order
        BY <2>1, <2>3, <1>2 DEF Stage!PipelineNext, Stage!EnterStage
  <2>4. CASE options'.st = options.st /\ pc' = "exited" /\ exit' = 0 /\ options.st = "UNKNOWN"
    <3>1. Result' = "version"
          BY <2>4 DEF Result
    <3> QED BY <2>1, <2>4, <3>1 DEF Stage!PipelineNext, Stage!ShowVersion
  <2>5. CASE /\ options'.st = options.st /\ options.st \in Stages
             /\ \/ pc' = "exited" /\ exit' = 1
                \/ pc' = "undefined"
                \/ pc' = "returned" /\ exit' = 1
    <3>1. Result' \in {"died", "failure"}
          BY <2>5 DEF Result
    <3> QED BY <2>1, <2>5, <3>1 DEF Stage!PipelineNext, Stage!Fail, Stages
  <2>6. CASE /\ options'.st = options.st /\ options.st \in {"PARSER", "LOGGER"}
             /\ pc' = "returned" /\ exit' = 0
    <3>1. Result' = "success"
          BY <2>6 DEF Result
    <3> QED BY <2>1, <2>6, <3>1 DEF Stage!PipelineNext, Stage!Succeed
  <2> QED BY <1>3, <2>2, <2>3, <2>4, <2>5, <2>6, DriverSteps
<1>4. CASE EditorSaves
  <2>1. UNCHANGED <<pc, exit, options>>
        BY <1>4 DEF EditorSaves, edit
  <2> QED BY <2>1 DEF Stage!pipelineVars, Result
<1> QED BY <1>3, <1>4 DEF DriverNext

THEOREM PipelineRefinement == DriverSpec => ImplementsPipeline
<1>1. DriverInit => Stage!PipelineInit
      BY DEF DriverInit, Stage!PipelineInit, Result
<1>2. DriverIInv /\ DriverIInv' /\ [DriverNext]_vars =>
         [Stage!PipelineNext]_(Stage!pipelineVars)
  <2>1. CASE UNCHANGED vars
        BY <2>1 DEF vars, Stage!pipelineVars, Result
  <2> QED BY <2>1, DriverStepIsPipelineStep
<1> QED BY <1>1, <1>2, DriverInductive, PTL
        DEF DriverSpec, ImplementsPipeline, Stage!PipelineSpec
=============================================================================
