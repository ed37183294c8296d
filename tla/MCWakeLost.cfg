SPECIFICATION Spec
CONSTANT MaxWakes = 1
INVARIANT EachWakeRuns
CHECK_DEADLOCK FALSE
