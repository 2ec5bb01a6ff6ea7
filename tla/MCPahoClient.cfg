\* A broker that may refuse the connection and a connection that may drop.
CONSTANTS
    AllowRefuse = TRUE
    AllowDrop = TRUE
    TicksPerSecond = 3
SPECIFICATION Spec
\* The script ends only when client.connect raises.
CHECK_DEADLOCK FALSE
PROPERTY Heartbeat
