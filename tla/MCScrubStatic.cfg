\* Every report of up to six lines.
CONSTANT Inputs <- MCInputs
SPECIFICATION Spec
PROPERTY ScrubRefinesSpec
\* The script ends when the loop ends or next() raises.
CHECK_DEADLOCK FALSE
