\* One activity record reply, or a refusal: is every row's timestamp its own?
CONSTANT RecLens = {255, 7}
SPECIFICATION Spec
INVARIANT RowReadsOwnBlock
\* The decoder returns after writing its rows, or after the length check.
CHECK_DEADLOCK FALSE
