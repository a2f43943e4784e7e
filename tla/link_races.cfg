SPECIFICATION Spec
CONSTANTS
 HeaderWords = 3
 LengthWord = 1
 CrcWord = 2
 MaxReceiveSize = 8
 UseLepto = TRUE
 Lengths = {0,4,12}
 StaleLengths = {4}
 HandlerCodes <- MCHandlerCodes
 MaxRetry = 1
 ShredTimeout = 1
 ExecTimeout = 1
 ReceiverTimeout = 1
 SingleShot = FALSE
 AppWaits = FALSE
 NestedStarts = TRUE
 MayDrop = TRUE
 MayReboot = TRUE
 MaxStarts = 2
 QueueCap = 3
INVARIANTS TypeOK OrderInv AtMostOnce ShredsInTransfer ReceiverWillEnd NextWordFits
PROPERTY InStartOrder
CHECK_DEADLOCK FALSE
