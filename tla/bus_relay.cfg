SPECIFICATION Spec
CONSTANTS
 HeaderWords = 2
 LengthWord = 1
 CrcWord = 0
 MaxReceiveSize = 8
 UseLepto = TRUE
 Nodes = {7, 8, 9}
 Plan <- RelayPlan
 Restarting = {8}
 TakeTurns = FALSE
 Lengths = {4}
 StaleLengths = {4}
 MaxRetry = 1
 ShredTimeout = 1
 ExecTimeout = 2
 ReceiverTimeout = 3
 SingleShot = FALSE
 MaxLosses = 1
 MaxFaults = 1
INVARIANTS TypeOK AtMostOnce OrderInv OwnCounterpart
PROPERTIES ImplementsLink InStartOrder
CHECK_DEADLOCK FALSE
