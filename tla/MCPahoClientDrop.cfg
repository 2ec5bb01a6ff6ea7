\* An accepted connection that may drop.
CONSTANTS
    AllowRefuse = FALSE
    AllowDrop = TRUE
    TicksPerSecond = 2
SPECIFICATION Spec
\* The script ends only when client.connect raises.
CHECK_DEADLOCK FALSE
INVARIANT NoSilentLoss
