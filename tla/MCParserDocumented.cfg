SPECIFICATION Spec
CONSTANT Files <- DocumentedFiles
INVARIANT DocumentedProgramsParse
CHECK_DEADLOCK FALSE
