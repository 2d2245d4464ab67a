# Rotate: specification and proofs

Rotate (`src/`) is a compiler front end in C: it reads a `.vr` file, cuts it into
tokens, parses them into an AST and, if asked, writes a log of what it found. It is
one sequential program. Nothing in it runs concurrently, so what is hard to test is
elsewhere: indices and lengths at the ends of the text, a character consumed and
given back, an array that grows, a stage that fails half way with resources in its
hands, a tree of nodes that one of twenty functions gives up in the middle of, a report
that is written from state somebody else left, and a file that its author saves while
the compiler is reading it.

This directory holds TLA+ modules for the parts of the compiler, TLC configurations
that check them on small instances, and TLAPS proofs of the properties that matter
most, for every value of the constants. `PROJECT.json` lists the runs, the source
lines each definition stands for, a plausible bug that each property catches (the
operator named there stands beside the original in the module), the hazards and the
theorems.

## 1. Inventory

| Part | State it keeps | Operations | What makes it correct |
|---|---|---|---|
| Token array, `include/arraylist.h` | header (count, capacity) and block | `array_make`, `array_push` (doubling `realloc`), `array_free` | stores inside the block; growth keeps what was pushed; growth is amortised |
| Source file reader, `file.c` | FILE, buffer, length | `file_read`, `file_free` | accepts only texts the lexer can take; gives back what it opened; is not upset by a save |
| Lexer, `fe/lexer.c`, `fe/token.*` | `index`, `len`, `line`, saved positions, `error`, `prev`, token array | `lexer_init`, `lexer_lex`, `lex_director` and a handler per kind of lexeme, `lex_report_error` | reads and stores in bounds; tokens ordered, covering, of the right type and longest; always ends; a failure points at its lexeme and is explained |
| Parser, `fe/parser.c` | `index`, `error`, `error_line`, `error_col`, AST, and the C stack of its calls | `parser_init`, `parser_parse`, `parse_director`, one function per construct, `parser_deinit` | never reads behind the end marks; every node has one owner and is freed once, whatever fails; groups operators by their level; ends; an error names the place where it stopped; accepts what the documentation shows |
| AST and types, `fe/type.*` | tagged nodes and arrays of them | constructors, `ast_*_free` | the pointers that are filled and those that are freed are the ones the kind of the node has |
| Diagnostics, `lex_report_error`, `parser_report_error` | none of their own | find the line of an error and print it | print the right line, in bounds |
| Compilation log, `log.c` | the FILE of `output.org` | `log_compilation` | written only when asked for, closed, only from memory that is still held |
| Driver and options, `main.c`, `compile.c` | `compile_options`, one File, Lexer and Parser, `exit_stats` | `main`, `compile_options_new`, one function per stage, cleanup | everything released once on every path; failure reported with its stage; exit code |
| Utilities, `utl/common.c` | none | `mem_alloc`, `exit_error`, bit operations, digit count | an allocation succeeds or the program exits |
| Makefile, `test.zig`, `test/*.vr` | none | build rules, sample programs | – |

How the parts interact: `main` builds the options and calls `compile`, which owns a
`File`, a `Lexer` and a `Parser` on its stack and calls the stages in order. The lexer
reads the buffer of the file, and the three null characters `file_read` put behind it
are what lets it look one character ahead without a test. The parser reads the
lexer's array, and the three end tokens the lexer pushes play the same part for it.
Error reports and the log read the buffer and the tokens again, so cleanup must come
after them. Errors travel as `SUCCESS`/`FAILURE` codes, with `exit_error` as a second
way out that gives nothing back.

Hard behaviours, and the hazards they make (each with its line in `PROJECT.json`):
the end of the text and of the array (look-ahead, step over a newline that is not
there, `length / 4` slots for a short file); consumption and give-back in the lexer's
handlers; `prev` shared by two functions; failures that set no error; one cleanup for
every failing stage; the order of checks on the token count and the status; the log
truncated when it is opened; `fread` against an editor. In the parser: who owns a node
at each of the many places that return null; loops that wait for a token; the depth of
the recursion; the token an error is reported at; offsets compared with line numbers.

## 2. Modules

| Module | Stands for |
|---|---|
| `ArrayList` | `array_make`, `array_push`, `array_free` with the allocator's failures |
| `AppendLog` | abstract: an append-only sequence that may stop |
| `Characters` | the characters, symbols, keywords, token types and errors the lexer tells apart |
| `Lexer` | `lexer.c`, one action per decision of a handler and per turn of its loops |
| `TokenStream` | abstract: what the parser relies on |
| `Ast` | the kinds of nodes, the pointers each has, and which of them the functions that free it follow |
| `Parser` | `parser.c`, one action per function, over the calls that are running and the nodes on the heap, with the report and the release behind it |
| `ParseContract` | abstract: what the parser promises `compile` |
| `SourceFile` | `file_read`, one action per library call, beside an editor |
| `Driver` | `main.c`, `compile.c` and the log; EXTENDS `SourceFile`, whose `file_read` is its first stage |
| `Pipeline` | abstract: the stages as seen from outside |
| `MCArrayList`, `MCLexer`, `MCParser`, `MCSourceFile`, `MCDriver` | instances for TLC |
| `ArrayListProofs`, `LexerProofs`, `LexerLexemeProofs`, `LexerReportProofs`, `ParserProofs`, `SourceFileProofs`, `DriverProofs` | theorems and proofs |
| `Extremes` | the least and the greatest of a set of numbers, for the proofs about the reports |

`LexerReportProofs` EXTENDS `LexerLexemeProofs`, which EXTENDS `LexerProofs`.

**ArrayList.** `count` and `capacity` are the header's fields, `block` the memory as a
function on its slots, with `Junk` for what was not written. `Push` is the whole
macro: double when full, `realloc`, store, count. `PushFails` is the ASSERT behind a
`realloc` that gave nothing.

**Lexer.** The variables are the fields of `Lexer`; `tokens` and `capacity` are its
array (the part of `ArrayList` that the lexer needs, with the same `Grown`). `pc`
names the handler and loop that runs next; `loop` is the depth of a nested comment or
the counter of the end marks. A character is a model value for each class the code
distinguishes, plus a few that only keyword and symbol tables distinguish. The
limits (`MAX_IDENTIFIER_LENGTH` and the others) are constants. Positions count from 0.
The ends that are not the code's own are values of `pc`: `exited` for an ASSERT,
`aborted` for the TODO exit of `lexer_err_msg`, `corrupted` once a token was stored
behind the array, after which nothing is said.
`lex_multiline_strings` has no caller and is left out. `ReportLow` and `ReportEnd` are
the two ends that `lex_report_error` finds for the line it prints.
`line` is a natural number: in C it is a `uint` like `index`, and at three counts for a
newline at most it could wrap only in a file of more than a billion lines.

What may lie between two tokens is said by `Skips(a, b)`: one separator, one line comment
or `#` comment up to the end of its line, or one nested comment up to the mark that closes
its first one. `Tiles` cuts a gap into such pieces, so each of them has its own
end, and what is behind it has to be a piece of its own. The marks of a nested comment are
counted from the left without sharing a character, as the loop does (`/*/` opens and does
not close). A nested comment that the text ends in is accepted, as `lexer.c:797` and
`docs.md:32` have it, and so is a `#` comment without a newline.

**Parser.** The C stack is in the state: `stack` is a sequence of frames, each with its
function (`fn`), the point where it goes on when its callee returns (`at`, named after
the pointer the result is for), the node it holds in a local variable (`node`) and the
index at its last call (`op`), where a binary expression finds its operator again.
`result` is the pointer that is being returned. An action is a stretch of a function
between two calls: it looks at tokens, moves `index`, allocates or fills a node, and
calls, returns, goes round its loop, or frees what it holds and returns null.
`parse_binary` stands for the six functions from `parse_logical_or` to `parse_factor`,
which differ in their operators and in the next tighter function (`Tighter`). Nodes are
numbered as they are allocated; `live` are those not freed. An `ast_*_free` is the call
that puts a node into `doomed` and one step (`free_node`) for every node it reaches
through the pointers that `Ast` says are freed for its kind; while there are such nodes
nothing else runs, so the order among them does not matter. A file is what the lexer
leaves: the types, places and lines of the tokens, the offsets of the newlines and the
length. Behind the last token stands a zero token. The names, literals and operators of nodes are not kept:
`token` says from which token a node was made, and the kind which pointers it has. An
allocation that fails ends the process in `mem_alloc` (`Driver` has that end), so here
it succeeds.

**SourceFile.** `disk` is what the file holds now, `contents` what `fread` has put in
the buffer so far, one character at a time, each as the disk has it at that moment;
`edit` may replace the disk at any moment, `MaxEdits` times. `file` and `buffer` are
`none`, `held`, `released` or `misused` (released when not held). Every library call
may fail. The name of the file is kept only as far as `file_read` looks at it.

**Driver.** The `i` of `compile_options_new`, the option record, the two pointers that
the cleanup tests, the ownership of every resource, the log's contents as far as a
reader of it would notice, the status, the messages that a property speaks of, and
the exit code. The lexer and the parser appear with how they can end. What the
model allows there is what is known of them from elsewhere: a lexer that succeeds
has at least its three end marks in the array (`ImplementsTokenStream`), and one that
is given four characters or more does not store behind it
(`LongTextsStoreInBounds`). The other way round, `LoadedIsText` is what
`TextsAssumption` asks of the texts the lexer is given, and `TokenStream` what
`FilesAssumption` asks of the tokens the parser is given. That a parser which ends with
success or failure has memory to give back exactly once is `ParseContract`. A parser
whose array of declarations could not be made may end in any way (`undefined`).

## 3. Runs

| Run | Instance | Shows |
|---|---|---|
| `array_list` | 0 to 3 slots, two elements, 6 pushes, so up to three doublings | in bounds if made with a slot, amortised, and an `AppendLog` |
| `lexer` | 8071 texts of 4 to 8 characters, in families: comments, lines, strings, chars, numbers, words, symbols, builtins, embedded null, invalid characters among newlines | bounds, order, types and length of tokens, what is skipped between them, the line, where failures point and which line is printed with them, progress, termination, and a `TokenStream` |
| `lexer_diagnosis` | the same | **violated:** a failure can end in the TODO exit instead of a message |
| `lexer_terminators` | the same | **violated:** no newline or `;` behind a token gives a Terminator |
| `lexer_short_texts` | every text of up to three characters over nine | **violated:** the array of a file of one to three bytes has no slots |
| `parser` | 1791 files: every construct whole, cut off behind each token, with each token missing and with each token replaced by eight others; operators of every two levels beside each other, in parentheses and below unary ones | ownership of every node, the token an error names, bounded depth, grouping of operators, the piece that is printed, termination, and a `ParseContract` |
| `parser_documented` | a while loop, a for loop, a struct and an enum as the documentation has them | **violated:** the while loop, the struct and the enum are refused |
| `parser_error_line` | two constants with one token broken, in lines of one to four tokens | **violated:** the piece printed with an error is not where the error is |
| `source_file` | files of 0 to 4 characters, two saves, uint up to 6 | what is loaded is a text, resources, a quiet read is whole, the reader returns |
| `source_file_whole` | the same | **violated:** a save during the reading gives a text no version was |
| `driver` | five files, one save, up to two flags, up to 4 tokens | resources, the stage named, exit codes, the log, `--version`, termination, and a `Pipeline` |
| `driver_empty` | the same without saves and flags | **violated:** "file is empty" is said of a file that is not |

**Bounds.** A handler decides on the current and the next character, so the texts
that matter are those in which each pair of classes meets, at the start, in the
middle and at the end of the text; four characters over the classes of one handler
contain all of them. The comments run to five (`/*`, a character, `*/`), and to six
where marks follow each other (a second `*/` behind a closed comment), and to eight
where a comment is opened twice (`/*/*` and four characters, which close it
once, twice or not at all, and leave a token behind it), the strings to six (two escapes). Words, numbers, hex and
binary literals get limits of 6, 3, 4 and 5 characters, so that the texts reach and pass
each of them; every keyword is there with the character after it. `RUINT_MAX` is the length of the longest text
plus the terminators, so that the largest file is among the texts. In `parser` one file
has one construct whole or broken at one place: a function gives up at its first
surprise, so one broken token reaches each of its failing returns, with its callers'
nodes held. The constructs are nested two and three deep (a block in a function, a call
in a condition) so that a failure passes through frames of other functions on its way
out. Two operators of each pair of levels, on either side and in parentheses, decide
every comparison of levels; a longer chain has one operator of each. The newlines stand
behind every first, second or third token, so errors lie in the first line and behind
it. In `source_file`
the largest length accepted is 3 and files of 4 are refused. In `driver` the number
of tokens runs from none to above `MAX_LOG_TOKENS` (3), through `MIN_TOKEN_COUNT`;
two flags are enough for each to stand before and behind every other one. The
programs stop by themselves, so deadlock is not checked.

**Fairness.** Each module has weak fairness on the step of the program and nothing
else: a sequential program that can take a step takes one. The editor has none: it
need not save, and `Terminates`, `ReaderReturns` and `Ends` hold whatever it does.
That a library call returns is assumed with it. In the parser, weak fairness says no
more than that it runs: that it ends is shown by its loops taking tokens.

**Disagreements found.** Seven properties are stated because a comment, a table or a
message of the repository says them, and are violated by what the code does; the
findings in `PROJECT.json` quote both. Three more observations are built into the
lexer's model as the code has them: a token's `prev` is `Tkn_Terminator` after any token, a
newline that is skipped between tokens is counted twice, and one that gives a Terminator
once more (`LinesCounted` says exactly by how much the line is off), and a quote
behind a backslash never closes a string, whether or not the backslash is itself escaped.

## 4. Proofs

| Module | Theorem | For every |
|---|---|---|
| `ArrayListProofs` | `TypeCorrect`, `StoresAreInBounds`, `AmortisedGrowth`, `Refinement` (to `AppendLog`) | element, number of slots (none included, where `StoresAreInBounds` says nothing and the log is closed) and number of pushes |
| `LexerProofs` | `TypeCorrect`, `ReadsAreInBounds`, `LongTextsAreSafe`, `SpansAreOrdered`, `HandlersAlwaysConsume`, `StreamRefinement` (to `TokenStream`) | text that `file.c` accepts and every limit |
| `LexerLexemeProofs` | `LexemesAlwaysMatch`, `TokensAreLongest` | the same |
| `LexerReportProofs` | `NothingIsDropped`, `LinesAreCounted`, `FailuresPointAtTheStart`, `ErrorLinesAreShown` | the same |
| `ParserProofs` | `TypeCorrect`, `EveryNodeOwnedOnce`, `ErrorsNameTheStop`, `ReportsOneLine`, `DepthIsBounded`, `OperatorsKeepPrecedence`, `ParserKeepsContract` (to `ParseContract`) | sequence of tokens with end marks behind it, whatever places, lines, newlines and length go with them |
| `SourceFileProofs` | `FileTypeCorrect`, `LoadedIsAText`, `ReaderAlwaysReleases`, `QuietReads` | set of files, size of uint and number of saves |
| `DriverProofs` | `DriverTypeCorrect`, `NothingIsLeaked`, `NothingIsReadAfterRelease`, `ReportsAreRight`, `ExitCodesAreRight`, `VersionIsHarmless`, `LogIsKept`, `PipelineRefinement` (to `Pipeline`) | list of flags, number of tokens, file and number of saves |

The assumptions are those the modules name. `TextsAssumption` (a text is not empty,
does not start with null, and fits a uint with its terminators) is what
`LoadedIsAText` proves of `file_read`. `SizesAreNat` says of the array no more than that
numbers of slots are asked for. That an array made with none stores behind its block is
not excluded by it: the lexer makes one for a short file, which is the finding
`lexer_short_texts`, and `StoresAreInBounds` is about the others.
`FileRangeAssumption` says a uint can count the terminators. `FilesAssumption` of the
parser (the end marks are the last tokens, and there is one) is what `StreamRefinement`
proves of a lexer that succeeds.

*ArrayList.* The inductive invariant adds that the count fits the capacity if that is not
zero; doubling a positive number then leaves room. The type invariant (the block has
as many slots as the header says) needs neither.

*Lexer.* `ReadsInBounds` is not inductive: that the look-ahead stays inside the buffer
follows from `index <= Len(text) + 1`, which holds because a handler takes a
character only after it has seen that it is not null, with two exceptions that step
over a newline blindly. `PositionOK` records, by `pc`, where `index` is with respect to
the text, the saved position, the characters collected and the last token;
`ProgressOK` says which handlers have taken a character; `MarksOK` which tokens are
end marks; `CapacityOK` that the array never starts with no slots. The proof that a
step preserves them has one step per handler, over lemmas about what `lex_advance`,
`lex_add_token` and a push do.

*Lexer, its lexemes.* `LexemeInv` goes beside `IInv`. Its first part, `GivenOutOK`, says
of every token that its characters fit its type and that it could not be longer. Its second
part, `ScanOK`, is what makes that inductive: by `pc`, which characters a loop has taken
since the saved position (`Taken`), which is `len` back from the current one. A handler
that gives a token out then has to show that its loop ended at the right character, which
is the guard it left the loop by. The definitions are stated over a text and two
positions, so the lemmas about them need no state: a word, a number or a string grows by
one character, and tokens that were pushed are not changed later.

*Lexer, its reports.* `ReportOK` goes beside the two. `FailureOK`: as long as a
handler runs no error is set, and what was saved is the place of a character that is no
newline. `CommentOK` says what a comment that is not at its end has taken: no
newline since its `#` or `//`, or a set of marks (`NestingIn`) that leaves it open
at the depth the loop counts. `SettledOK` joins what was skipped to the line: there
are cuts that tile every gap between the tokens given out, and the one behind the last
token up to where the handler that runs now has started; and the line is ahead of the
newlines passed by one, by the newlines among the cuts and by the Terminators without a
character (`Settled`). The two are proved together because which newlines are counted
twice is known only from which were skipped between tokens and which lie inside a comment or a
string. A step that skips one piece adds one cut (`Covered`), a token that is given out
closes the gap in front of it and starts the next one behind it, and a handler on its way
changes neither. Counting is by cardinalities of sets of positions, which grow by one
position at a time. `NothingIsDropped` and `LinesAreCounted` then only read
the cuts, and where a failure points and the piece that is printed follow without
another induction; for the last, the character at the error being no newline is what
keeps the start of the piece from lying behind it.

*Parser.* None of the properties is inductive, and no state of one function says
enough: who owns a node depends on all calls that are running. The invariant has three
parts. `Control` says what a frame holds at each point: nothing while it waits for a
result it only passes on, else the node its function makes, of the kind that function makes,
and that only the last frame can stand at its entry. `Diagnosed` says that an error is
set only by a function that returns null at once, and that nobody reads on after it.
`Trees` says that the nodes in local variables, the returned one, `p->ast` and those
to be freed are different (`Distinct`), and that they are the roots of a forest of the live
nodes (`Forest`): every pointer of a live node leads to a live node that is no root, no
two pointers lead to the same one, and every live node that is no root is led to. Being
led to is not being reachable from a root, since a ring of nodes is led to and would
never be freed; `Grounded` (every set of live nodes has a member none of them leads to)
excludes it, and with it a parser that has released its AST has nothing left.
A step does three things, and there is a lemma for each way of doing each: it moves
forward in the tokens (`Forward`), changes the forest (a node is added over some roots,
a root is hung below another, a root is freed) and passes one root on (calls, returns,
goes round, gives up). One lemma per function then shows that it is of this form. The
report needs only that the newlines are numbers, since the least and the greatest of a
set of them (`Extremes`) bound a line.

*Parser, its recursion.* `DepthBounded` is about the number of calls and not about which
they are, so it is not inductive. `Descent` gives every function and point the number
of calls that can still follow before the next token is taken (`Left`), and says
of every frame that its depth and that number together are at most two, and nine for
each token read. A call on the same token goes down in `Left`; a token that is taken
allows nine more. The functions through which the calls come round (`Waiters`) wait only
after they have read a token, so a frame of theirs that waits has ten calls left,
whatever it had at its entry. The calls counted are the model's frames: C has two more for each
parenthesis, since `parse_expression` and, where no unary operator stands, `parse_unary` only
hand on to the next function, and the model leaves those out; with them it is about
eleven calls for each token instead of nine, which is as linear.

*Parser, its operators.* `Precedence` has four parts. `Graded` and `Bound` say that
an operator's node stands at the token of its operator and that its pointers bind as the
levels promise. `Framed` says what a waiting frame knows: the operator it waits behind
belongs to its function, the left operand it holds is tight enough or has a closing
parenthesis in front of the operator, its callee binds at least as tight as it asks for,
and a callee that passes a result on unchanged began at the token where its caller's
operand begins. `Topped` says that a result is as tight as was asked, or stands in
parentheses, from the token where the operand began to the one before the current. The
last two together are why a parenthesis next to the operator excuses a loose operand:
it is the one that the operand itself began or ended with. No history of the
tokens is needed, because a frame that waits keeps the token it called from.

*SourceFile.* `OwnershipOK` says what is held at each library call, `LengthsOK` that the
length was checked before it was used and that no more is read, `QuietOK` that without
an edit what was read is a prefix of the file. The lemmas about a step of `file_read`
and about an edit say nothing of other phases, and `DriverProofs` uses them as they are.

*Driver.* `MemoryOK` says what is held in each phase, `ArgumentsOK` that the options are
those of the flags read so far and that `--version` is not among them, `ResultOK` what
the stage, the status and the messages are, and what a failure of each stage leaves
behind. Every property above follows from them without another induction, and the
refinement from a lemma on what each step does to the stage and the exit code.

**Only model-checked.** Liveness (`Terminates` of lexer and parser, `ReaderReturns`,
`Ends`), because it rests on fairness and ENABLED, which the prover does not do. Every
other property of the passing runs, the safety invariants, the steps and the four
refinements, is a theorem above. What a recursive function computes for every input is out
of the prover's reach, because its induction theorems take an operator; nothing above
needs it.

## 5. Not modelled, and the plan

Not modelled: what the sections of the log say; the text of messages and the width of
the arrows under a reported line; the print behind `--timer`; the values of literals
and names in the AST; two constructors of `type.c` and the handler
`lex_multiline_strings`, which nobody calls; the bit operations and the digit count,
which no stage calls; an allocation that fails in the middle of a parse (the process
ends there, or, for an array, reads through null: no promise is left to state); Windows
line ends and file systems; the build.

The order of work, core first:

1. *(done)* `ArrayList`, `Lexer`, `SourceFile`, `Driver`, their abstract specifications,
   runs and proofs.
2. *(done)* `Ast`, `Parser` and `ParseContract`, with the report and the release.
3. *(done)* The searches for the line of an error in `lex_report_error` and
   `parser_report_error`, checked and proved.
4. *(done)* Proofs: the parser's types, ownership, errors and contract;
   `FailurePointsAtStart`, `LinesCounted` and `ErrorLineShown` of the lexer.
5. *(done)* Proofs of `PrecedenceRespected` and `DepthBounded`, and of what the lexer's
   tokens are: `LexemesMatchTypes`, `LongestMatch`, `NothingDropped`.
6. `Driver` with the outcomes of its stages taken from `ParseContract` and `TokenStream`
   by composition instead of by their known ends.
7. The bit operations and the digit count as operators against a reference definition,
   once a stage uses them.

## 6. Running it

Each configuration belongs to the module it is named after: `MCLexer.cfg` and
`MCLexerDiagnosis.cfg` to `MCLexer`, and so on.

    tlc -workers 2 -config MCLexer.cfg MCLexer
    tlapm LexerProofs.tla

The longest runs are `MCLexer.cfg` (116526 states) and `MCParser.cfg` (82687 states),
each under a minute. The longest proof is `ParserProofs`,
about seven minutes; those of the lexer take a few.
