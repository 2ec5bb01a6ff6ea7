CONSTANTS
    Commands <- MCCommands
    Payloads <- MCPayloads
    RespData <- MCRespData
    Acks <- MCAcks
    Garble <- MCGarble
    MaxCorrupt = 1
    None = None
SPECIFICATION Spec
INVARIANT RoundTrip
