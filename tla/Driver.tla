------------------------------- MODULE Driver -------------------------------
(***************************************************************************)
(* main, the options and the stages of the compiler: src/src/main.c and    *)
(* src/src/compile.c, with file_read of SourceFile as their first stage    *)
(* and log_compilation of src/src/log.c as the last.  The lexer and the    *)
(* parser show only how they end and what memory they leave: a lexer that  *)
(* succeeds has its end marks in the array (TokenStream), and one that is  *)
(* given four characters or more never stores behind the array             *)
(* (LongTextsStoreInBounds of Lexer).                                      *)
(***************************************************************************)
EXTENDS SourceFile

CONSTANTS MaxArguments,  \* bound on the flags behind the file name
          MaxTokens,     \* bound on the tokens of a file
          MAX_LOG_TOKENS

ASSUME CountsAssumption == /\ MaxArguments \in Nat
                           /\ MaxTokens \in Nat /\ MAX_LOG_TOKENS \in Nat
                           /\ MaxTokens >= EXTRA_NULL_TERMINATORS

MIN_TOKEN_COUNT == 2
Flags == {"--log", "--version", "--timer", "--lex", "unknown"}

VARIABLES argv,          \* the arguments; <<>> when there is not even a file name
          i,             \* of compile_options_new
          options,
          set,           \* the pointers of compile's File and Parser that are not null
          tokens, count, \* the token array: its memory, and what is in it
          ast,           \* the memory of the AstProgram
          declarations,  \* and of its array of declarations
          output,        \* the FILE of the log
          log,           \* what output.org holds
          status,        \* exit_stats.status
          said,          \* the messages a property is about
          exit           \* the exit code

sourceVars == <<name, disk, versions, edits, length, contents, file, buffer>>
argumentVars == <<argv, i>>
memoryVars == <<set, tokens, count, ast, declarations>>
outputVars == <<output, log>>
resultVars == <<status, said, exit>>
vars == <<sourceVars, pc, argumentVars, options, memoryVars, outputVars, resultVars>>

(* The end of the program: its exit code, or an end by a signal or by a    *)
(* store that is undefined.                                                *)
Ended == {"returned", "exited", "undefined"}

DriverInit == /\ FileInit
              /\ pc = "main"
              /\ \/ argv = <<>>
                 \/ \E n \in 0 .. MaxArguments :
                       \E flags \in [1 .. n -> Flags] : argv = <<"file">> \o flags
              /\ i = 2
              /\ options = [debug_info |-> FALSE, timer |-> FALSE, lex_only |-> FALSE,
                            st |-> "UNKNOWN"]
              /\ set = {}
              /\ tokens = "none" /\ count = 0
              /\ ast = "none" /\ declarations = "none"
              /\ output = "none" /\ log \in {"absent", "earlier"}
              /\ status = "SUCCESS" /\ said = {} /\ exit = 0

-----------------------------------------------------------------------------
(* main and the options.                                                   *)

main == /\ pc = "main"
        /\ \/ argv = <<>> /\ said' = said \cup {"version"} /\ pc' = "exited"
           \/ argv # <<>> /\ pc' = "arguments" /\ UNCHANGED said
        /\ UNCHANGED <<sourceVars, argumentVars, options,
                       memoryVars, outputVars, status, exit>>

(* Every flag sets its own option; --version ends the program at once.     *)
Flag(f) == i <= Len(argv) /\ argv[i] = f
VersionIsAFlag == /\ pc = "arguments" /\ i <= Len(argv)
                  /\ options' = [options EXCEPT !.debug_info = @ \/ Flag("--log"),
                                                !.timer = @ \/ Flag("--timer"),
                                                !.lex_only = @ \/ Flag("--lex")]
                  /\ said' = IF Flag("--version") THEN said \cup {"version"} ELSE said
                  /\ UNCHANGED pc
                  /\ i' = i + 1
                  /\ UNCHANGED <<sourceVars, argv, memoryVars, outputVars, status, exit>>
UnknownFlagIsKept ==
    /\ pc = "arguments" /\ i <= Len(argv) /\ argv[i] # "--version"
    /\ options' = [options EXCEPT !.debug_info = @ \/ Flag("--log"),
                                  !.timer = @ \/ Flag("--timer"),
                                  !.lex_only = @ \/ Flag("--lex")]
    /\ i' = IF Flag("unknown") THEN i ELSE i + 1
    /\ UNCHANGED <<sourceVars, pc, argv, memoryVars, outputVars, resultVars>>
parse_compile_argument ==
    /\ pc = "arguments" /\ i <= Len(argv)
    /\ options' = [options EXCEPT !.debug_info = @ \/ Flag("--log"),
                                  !.timer = @ \/ Flag("--timer"),
                                  !.lex_only = @ \/ Flag("--lex")]
    /\ IF Flag("--version") THEN pc' = "exited" /\ said' = said \cup {"version"}
                            ELSE UNCHANGED <<pc, said>>
    /\ i' = i + 1
    /\ UNCHANGED <<sourceVars, argv, memoryVars, outputVars, status, exit>>

(* compile: the stages.  st names a stage before anything in it can fail.  *)
NamesNextStage ==
    /\ pc = "arguments" /\ i > Len(argv)
    /\ options' = [options EXCEPT !.st = "LEXER"]
    /\ pc' = "name"
    /\ UNCHANGED <<sourceVars, argumentVars, memoryVars, outputVars, resultVars>>
compile_file_stage ==
    /\ pc = "arguments" /\ i > Len(argv)
    /\ options' = [options EXCEPT !.st = "FILE"]
    /\ pc' = "name"
    /\ UNCHANGED <<sourceVars, argumentVars, memoryVars, outputVars, resultVars>>

(* exit_error ends the program with the code 1.                            *)
file_stage_step ==
    /\ file_read
    /\ exit' = IF pc' = "exited" THEN 1 ELSE exit
    /\ UNCHANGED <<argumentVars, options, memoryVars, outputVars, status, said>>

file_stage_fails == /\ pc = "unread"
                    /\ status' = "FAILURE"
                    /\ pc' = "report"
                    /\ UNCHANGED <<sourceVars, argumentVars,
                                   options, memoryVars, outputVars, said, exit>>

(* lexer_init, with the ASSERT on the token array.                         *)
KeepsFileStage ==
    /\ pc = "loaded"
    /\ set' = set \cup {"contents"}
    /\ pc' = "lexer_init"
    /\ UNCHANGED <<sourceVars, argumentVars, options, tokens, count, ast, declarations,
                   outputVars, resultVars>>
compile_lexer_stage ==
    /\ pc = "loaded"
    /\ set' = set \cup {"contents"}
    /\ options' = [options EXCEPT !.st = "LEXER"]
    /\ pc' = "lexer_init"
    /\ UNCHANGED <<sourceVars, argumentVars, tokens, count, ast, declarations, outputVars,
                   resultVars>>
lexer_init ==
    /\ pc = "lexer_init"
    /\ \/ tokens' = "held" /\ pc' = "lexer_lex" /\ UNCHANGED exit
       \/ pc' = "exited" /\ exit' = 1 /\ UNCHANGED tokens
    /\ UNCHANGED <<sourceVars, argumentVars, options, set, count, ast, declarations,
                   outputVars, status, said>>

(* What the stages of compile do next with their status.                   *)
Continue(next) == pc' = next /\ UNCHANGED status
CleansUpSilently == UNCHANGED status /\ pc' = "file_free"
GotoCleanup == status' = "FAILURE" /\ pc' = "file_free"

(* lexer_lex and what compile_lexer_stage says of the tokens: it looks at  *)
(* their number before it looks at the status.                             *)
LexerSucceeds(n) == n >= EXTRA_NULL_TERMINATORS
lexer_lex ==
    /\ pc = "lexer_lex"
    /\ \E n \in 0 .. MaxTokens :
          /\ count' = n
          /\ said' = IF n < MIN_TOKEN_COUNT THEN said \cup {"file is empty"} ELSE said
          /\ \/ LexerSucceeds(n) /\ Continue("parser_stage")
             \/ GotoCleanup
    /\ UNCHANGED <<sourceVars, argumentVars, options, set,
                   tokens, ast, declarations, outputVars, exit>>
lexer_dies ==
    /\ pc = "lexer_lex"
    /\ \/ pc' = "exited" /\ exit' = 1
       \/ length < 4 /\ pc' = "undefined" /\ UNCHANGED exit
    /\ UNCHANGED <<sourceVars, argumentVars, options, memoryVars, outputVars, status, said>>

ParsesAlways ==
    /\ pc = "parser_stage"
    /\ options' = [options EXCEPT !.st = "PARSER"]
    /\ pc' = "ast_program_create"
    /\ UNCHANGED <<sourceVars, argumentVars, memoryVars, outputVars, resultVars>>
compile_parser_stage ==
    /\ pc = "parser_stage"
    /\ options' = [options EXCEPT !.st = "PARSER"]
    /\ pc' = IF options.lex_only THEN "logger_stage" ELSE "ast_program_create"
    /\ UNCHANGED <<sourceVars, argumentVars, memoryVars, outputVars, resultVars>>

(* mem_alloc exits when there is no memory; array_make returns null, and   *)
(* nobody looks.                                                           *)
ast_program_create ==
    /\ pc = "ast_program_create"
    /\ \/ /\ ast' = "held" /\ set' = set \cup {"ast"}
          /\ declarations' \in {"held", "none"}
          /\ pc' = "parse_director"
          /\ UNCHANGED exit
       \/ pc' = "exited" /\ exit' = 1 /\ UNCHANGED <<ast, declarations, set>>
    /\ UNCHANGED <<sourceVars, argumentVars, options, tokens, count, outputVars, status, said>>

parse_director ==
    /\ pc = "parse_director"
    /\ \/ Continue("logger_stage") \/ GotoCleanup
    /\ UNCHANGED <<sourceVars, argumentVars, options, memoryVars, outputVars, said, exit>>
(* The parser runs out of memory, or pushes to an array that is not there. *)
parser_dies ==
    /\ pc = "parse_director"
    /\ \/ pc' = "exited" /\ exit' = 1
       \/ pc' = "undefined" /\ UNCHANGED exit
    /\ UNCHANGED <<sourceVars, argumentVars, options, memoryVars, outputVars, status, said>>

(* compile_logger_stage: opening the log empties what an earlier run left. *)
LogsAlways == /\ pc = "logger_stage"
              /\ options' = [options EXCEPT !.st = "LOGGER"]
              /\ output' = "held" /\ log' = "empty" /\ Continue("log_compilation")
              /\ UNCHANGED <<sourceVars, argumentVars, memoryVars, said, exit>>
no_log == /\ pc = "logger_stage" /\ ~options.debug_info
          /\ pc' = "file_free"
          /\ UNCHANGED <<sourceVars, argumentVars, options,
                         memoryVars, outputVars, resultVars>>
compile_logger_stage ==
    /\ pc = "logger_stage" /\ options.debug_info
    /\ options' = [options EXCEPT !.st = "LOGGER"]
    /\ \/ output' = "held" /\ log' = "empty" /\ Continue("log_compilation")
       \/ GotoCleanup /\ UNCHANGED outputVars
    /\ UNCHANGED <<sourceVars, argumentVars, memoryVars, said, exit>>

(* log_compilation gives up on too many tokens; whether its writes arrive  *)
(* is not looked at.  The log is closed and the stage has succeeded.       *)
LogOutcomes == {"empty"} \cup (IF count > MAX_LOG_TOKENS THEN {} ELSE {"partial", "complete"})
ForgetsToCloseLog ==
    /\ pc = "log_compilation"
    /\ log' \in LogOutcomes
    /\ UNCHANGED output
    /\ pc' = "file_free"
    /\ UNCHANGED <<sourceVars, argumentVars, options, memoryVars, resultVars>>
log_compilation ==
    /\ pc = "log_compilation"
    /\ log' \in LogOutcomes
    /\ output' = Release(output)
    /\ pc' = "file_free"
    /\ UNCHANGED <<sourceVars, argumentVars, options, memoryVars, resultVars>>

(* cleanup, then the report of main.                                       *)
file_free ==
    /\ pc = "file_free"
    /\ IF "contents" \in set THEN buffer' = Release(buffer) ELSE UNCHANGED buffer
    /\ set' = set \ {"contents"}
    /\ pc' = "lexer_deinit"
    /\ UNCHANGED <<name, disk_vars, length, contents, file, argumentVars, options, tokens, count,
                   ast, declarations, outputVars, resultVars>>
lexer_deinit ==
    /\ pc = "lexer_deinit"
    /\ tokens' = Release(tokens)
    /\ pc' = "parser_deinit"
    /\ UNCHANGED <<sourceVars, argumentVars, options, set,
                   count, ast, declarations, outputVars, resultVars>>
(* ast_program_free counts the declarations, also those of no array.       *)
parser_deinit ==
    /\ pc = "parser_deinit"
    /\ \/ /\ "ast" \in set /\ declarations # "none"
          /\ ast' = Release(ast) /\ declarations' = Release(declarations)
          /\ set' = set \ {"ast"}
          /\ pc' = "report"
       \/ /\ "ast" \in set /\ declarations = "none"
          /\ pc' = "undefined"
          /\ UNCHANGED <<ast, declarations, set>>
       \/ /\ "ast" \notin set
          /\ pc' = "report"
          /\ UNCHANGED <<ast, declarations, set>>
    /\ UNCHANGED <<sourceVars, argumentVars, options, tokens, count, outputVars, resultVars>>

ReturnsDone ==
    /\ pc = "report"
    /\ said' = IF status = "FAILURE" THEN said \cup {options.st} ELSE said
    /\ exit' = IF status = "FAILURE" THEN 2 ELSE 0
    /\ pc' = "returned"
    /\ UNCHANGED <<sourceVars, argumentVars, options, memoryVars, outputVars, status>>
report ==
    /\ pc = "report"
    /\ said' = IF status = "FAILURE" THEN said \cup {options.st} ELSE said
    /\ exit' = IF status = "FAILURE" THEN 1 ELSE 0
    /\ pc' = "returned"
    /\ UNCHANGED <<sourceVars, argumentVars, options, memoryVars, outputVars, status>>

options_step == main \/ parse_compile_argument
file_step == compile_file_stage \/ file_stage_step \/ file_stage_fails
lexer_step == compile_lexer_stage \/ lexer_init \/ lexer_lex \/ lexer_dies
parser_step == \/ compile_parser_stage \/ ast_program_create
               \/ parse_director \/ parser_dies
logger_step == no_log \/ compile_logger_stage \/ log_compilation
cleanup_step == file_free \/ lexer_deinit \/ parser_deinit \/ report

compiler == \/ options_step \/ file_step \/ lexer_step
            \/ parser_step \/ logger_step \/ cleanup_step

EditorSaves == edit /\ UNCHANGED <<argumentVars, options, memoryVars, outputVars, resultVars>>

DriverNext == compiler \/ EditorSaves

(* The compiler is one sequential program and takes its next step.         *)
DriverSpec == DriverInit /\ [][DriverNext]_vars /\ WF_vars(compiler)
-----------------------------------------------------------------------------
(* Properties.                                                             *)

Arguments == {argv[k] : k \in 2 .. Len(argv)}
Stages == {"FILE", "LEXER", "PARSER", "LOGGER"}
Messages == Stages \cup {"UNKNOWN", "version", "file is empty"}
DriverPhases == Ended \cup FilePhases \cup FileReturned \cup
    {"main", "arguments", "lexer_init", "lexer_lex", "parser_stage", "ast_program_create",
     "parse_director", "logger_stage", "log_compilation", "file_free", "lexer_deinit",
     "parser_deinit", "report"}

CompilerTypeOK ==
    /\ pc \in DriverPhases
    /\ i \in Nat
    /\ options \in [debug_info : BOOLEAN, timer : BOOLEAN, lex_only : BOOLEAN,
                    st : Stages \cup {"UNKNOWN"}]
    /\ set \subseteq {"contents", "ast"}
    /\ tokens \in Ownership /\ ast \in Ownership
    /\ declarations \in Ownership /\ output \in Ownership
    /\ count \in Nat
    /\ log \in {"absent", "earlier", "empty", "partial", "complete"}
    /\ status \in {"SUCCESS", "FAILURE"}
    /\ exit \in {0, 1}

TypeOK == FileTypeOK /\ CompilerTypeOK /\ said \subseteq Messages

Resources == {file, buffer, tokens, ast, declarations, output}

(* Whichever call of whichever stage fails, main returns with everything   *)
(* given back, and never gives anything back twice (compile.c:86-118,      *)
(* file.c:39-94).                                                          *)
EverythingReleased == /\ "misused" \notin Resources
                      /\ pc = "returned" => "held" \notin Resources

(* Every stage still has what it reads: the lexer, the parser, its error   *)
(* message and the log read the buffer, the parser and the log the tokens  *)
(* (compile.c:41, 49, 72).                                                 *)
StagesReadWhatIsHeld ==
    /\ pc \in {"lexer_lex", "parser_stage", "ast_program_create", "parse_director",
               "logger_stage", "log_compilation"} => buffer = "held" /\ tokens = "held"
    /\ pc = "parse_director" => ast = "held"
    /\ pc = "log_compilation" => output = "held" /\ (ast = "held" <=> ~options.lex_only)

(* A failure that is reported names the stage it happened in: the first    *)
(* one that did not leave behind what it makes (main.c:46, compile.c:14,   *)
(* 24, 43, 65).                                                            *)
FailureNamesItsStage ==
    pc = "returned" =>
        /\ "FILE" \in said => tokens = "none"
        /\ "LEXER" \in said => tokens # "none" /\ ast = "none"
        /\ "PARSER" \in said => ast # "none" /\ output = "none"
        /\ "LOGGER" \in said => options.debug_info /\ output = "none"
        /\ "UNKNOWN" \notin said

(* The exit code of a return is 0 exactly when no stage is reported, and   *)
(* then the stages that the flags ask for have all run (main.c:46-60).     *)
ExitCodeTellsSuccess ==
    pc = "returned" =>
        /\ exit = 0 <=> said \cap Stages = {}
        /\ exit = 0 => /\ tokens # "none" /\ LexerSucceeds(count)
                       /\ ast # "none" <=> ~options.lex_only
                       /\ output # "none" <=> options.debug_info

(* output.org changes only in a run with --log, and only once there is a   *)
(* parse, or the tokens with --lex: a run that fails leaves the log of an  *)
(* earlier one (compile.c:61).                                             *)
LogIsKeptUntilParsed ==
    [][log' # log => /\ "--log" \in Arguments
                     /\ LexerSucceeds(count) /\ status = "SUCCESS"
                     /\ "--lex" \in Arguments \/ ast = "held"]_vars

(* A run that is asked for the version, wherever among its flags, touches  *)
(* no file (compile.c:140, 160).                                           *)
VersionTouchesNothing ==
    (argv = <<>> \/ "--version" \in Arguments) =>
        file = "none" /\ log \in {"absent", "earlier"} /\ exit = 0

(* The compiler ends, whatever is edited meanwhile.                        *)
Ends == <>(pc \in Ended)

(* What compile_lexer_stage says of a file (compile.c:29) is so.           *)
EmptyMeansEmpty == "file is empty" \in said => contents = <<>>

(* The stages as whoever runs the compiler sees them.                      *)
Result == CASE pc = "returned" /\ exit = 0 -> "success"
            [] pc = "returned" /\ exit = 1 -> "failure"
            [] pc = "exited" /\ exit = 0 -> "version"
            [] pc = "exited" /\ exit = 1 -> "died"
            [] pc = "undefined" -> "died"
            [] OTHER -> "open"
Stage == INSTANCE Pipeline
    WITH Last <- {"PARSER", "LOGGER"}, stage <- options.st, result <- Result
ImplementsPipeline == Stage!PipelineSpec
=============================================================================
