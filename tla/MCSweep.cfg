SPECIFICATION Spec
CONSTANT Points = 2
INVARIANT ValidRowsAreChecked
CHECK_DEADLOCK FALSE
