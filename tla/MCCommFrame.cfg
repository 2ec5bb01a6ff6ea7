CONSTANTS
    Commands <- MCCommands
    Payloads <- MCPayloads
    RespData <- MCRespData
    Acks <- MCAcks
    Garble <- MCGarble
    MaxCorrupt = 1
    None = None
SPECIFICATION Spec
INVARIANT TypeOK
INVARIANT OutboundWellFormed
INVARIANT AcceptsExactlyIntactReplies
INVARIANT CulvertMatchesCommFrame
INVARIANT ReturnsModbusCrc
INVARIANT RecordRequestsAgree
