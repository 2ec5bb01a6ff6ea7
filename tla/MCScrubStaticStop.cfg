\* Every report of up to six lines: does the script reach the end?
CONSTANT Inputs <- MCInputs
SPECIFICATION Spec
INVARIANT NoStopIteration
CHECK_DEADLOCK FALSE
