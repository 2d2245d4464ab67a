SPECIFICATION Spec
CONSTANT Files <- ReportFiles
INVARIANT ReportLocatesError
CHECK_DEADLOCK FALSE
