SPECIFICATION FairTimedSpec
CONSTANTS
 HeaderWords = 8
 LengthWord = 1
 CrcWord = 3
 MaxReceiveSize = 512
 UseLepto = TRUE
 Lengths = {0,4,10}
 StaleLengths = {4}
 HandlerCodes <- MCHandlerCodes
 MaxRetry = 4
 ShredTimeout = 1
 ExecTimeout = 32
 ReceiverTimeout = 48
 SingleShot = FALSE
 AppWaits = TRUE
 NestedStarts = TRUE
 MayDrop = TRUE
 MayReboot = TRUE
 MaxStarts = 2
 QueueCap = 2
 Prompt = TRUE
 MaxLosses = 0
 MaxReboots = 0
INVARIANT StateTellsTransmitting
CHECK_DEADLOCK FALSE
